---------------------------- MODULE PipelineProofs ----------------------------
(***************************************************************************)
(* Proofs about the pipeline from a disruption to a plan on a manager's     *)
(* desk, for any number of runs, any suppliers, any stock and any answers of *)
(* a language model.                                                        *)
(***************************************************************************)
EXTENDS PlanPipeline, SourcingProofs

IncidentRow == [status : {"ANALYZING", "AWAITING_APPROVAL"}, analysis : Analysis]

PlanRow == [incident : Nat, type : PlanTypes, supplier : Suppliers \cup {Absent},
            quantity : Nat, allocations : Seq(Allocation), coherent : BOOLEAN,
            rules : BOOLEAN, score : Nat, status : Statuses]

ApprovalRow == [incident : Nat, plan : Nat, by : Modes, held : BOOLEAN]

RunState == [mode : Modes, incident : Nat, analysed : Nat,
             todo : Seq(Suggestion), valid : BOOLEAN, stored : Seq(Nat),
             checked : Nat, passed : SUBSET Nat, selected : Nat]

TablesOK ==
  /\ links \in [Suppliers -> Link]
  /\ stock \in Snapshot
  /\ incidents \in Seq(IncidentRow)
  /\ plans \in Seq(PlanRow)
  /\ approvals \in Seq(ApprovalRow)
  /\ \A p \in DOMAIN plans : plans[p].incident \in DOMAIN incidents
  /\ \A a \in DOMAIN approvals : approvals[a].plan \in DOMAIN plans

ControlOK ==
  /\ pc \in [Runs -> Labels]
  /\ run \in [Runs -> RunState]

Stored(r) == {run[r].stored[i] : i \in DOMAIN run[r].stored}

Preparing == {"register", "analyze", "suggest"}

(* The locals a run has at each label. *)
LocalsOK(r) ==
  /\ pc[r] \in {"start", "done"} => run[r] = NoRun
  /\ pc[r] \notin {"start", "done"} => run[r].incident \in DOMAIN incidents
  /\ pc[r] = "analyze" => run[r].analysed \in DOMAIN incidents
  /\ pc[r] \notin {"validate", "store"} => run[r].todo = <<>>
  /\ pc[r] = "store" => run[r].todo # <<>>
  /\ pc[r] = "validate" => run[r].todo # <<>> \/ run[r].stored # <<>>
  /\ pc[r] \in Preparing => run[r].stored = <<>>
  /\ pc[r] \in {"register", "offer", "finish"} => run[r].mode = "scenario"
  /\ pc[r] \in {"check", "request"} => run[r].mode = "graph"
  /\ pc[r] \notin {"check", "request", "insert", "finish"} =>
       run[r].checked = 0 /\ run[r].passed = {}
  /\ pc[r] = "check" => run[r].stored # <<>>
  /\ Stored(r) \subseteq DOMAIN plans
  /\ run[r].passed \subseteq Stored(r)
  /\ pc[r] = "request" => run[r].selected \in run[r].passed
  /\ pc[r] = "insert" => /\ run[r].selected \in DOMAIN plans
                         /\ run[r].mode = "graph" => run[r].valid

TypeInv ==
  /\ TablesOK
  /\ ControlOK
  /\ \A r \in Runs : LocalsOK(r)
  /\ OfferedPlansHold

(* The plans a run stored and will store: none is from the rules, or there   *)
(* are two at most.                                                         *)
FewRules(r) ==
  \/ /\ \A p \in Stored(r) : ~plans[p].rules
     /\ \A i \in DOMAIN run[r].todo : ~run[r].todo[i].rules
  \/ Len(run[r].stored) + Len(run[r].todo) <= 2

(* The validation node holds the best of the plans it checks. *)
HoldsBest(r) ==
  pc[r] = "check" =>
    /\ run[r].selected \in Stored(r)
    /\ \A p \in Stored(r) : plans[p].score <= plans[run[r].selected].score

(* What GateOffersBest says of one run. *)
OffersBest(r) ==
  pc[r] = "request" =>
    /\ run[r].selected \in run[r].passed
    /\ \A p \in run[r].passed :
         plans[p].rules => plans[p].score <= plans[run[r].selected].score

GateInv ==
  /\ TypeInv
  /\ \A r \in Runs : FewRules(r) /\ HoldsBest(r) /\ OffersBest(r)

(* The incidents a run has reported. *)
Own(r) == {run[r].incident, run[r].analysed} \ {0}

(* No incident is reported by two runs, and none has plans before its run     *)
(* generates some.                                                          *)
Ownership ==
  /\ \A r \in Runs : Own(r) \subseteq DOMAIN incidents
  /\ \A r, q \in Runs : r # q => Own(r) \cap Own(q) = {}
  /\ \A r \in Runs : pc[r] \in Preparing =>
       \A p \in DOMAIN plans : plans[p].incident \notin Own(r)

(* A stored plan of the rules: what its score says of it. *)
PlanScored(p) ==
  p.rules => \/ Internal(p) /\ p.score >= 9100 /\ p.status # "INVALID"
             \/ p.supplier # Absent /\ (p.status = "INVALID" => p.score <= 4820)

(* The rules suggest one purchase for an incident. *)
OnePurchase ==
  /\ \A p, q \in DOMAIN plans :
       /\ plans[p].incident = plans[q].incident
       /\ Purchase(plans[p]) /\ Purchase(plans[q])
       => p = q
  /\ \A r \in Runs : \A i \in DOMAIN run[r].todo : Purchase(run[r].todo[i]) =>
       /\ \A j \in DOMAIN run[r].todo : Purchase(run[r].todo[j]) => i = j
       /\ \A p \in DOMAIN plans :
            Purchase(plans[p]) => plans[p].incident # run[r].incident

RankInv ==
  /\ TypeInv
  /\ Ownership
  /\ OnePurchase
  /\ \A p \in DOMAIN plans : PlanScored(plans[p])
  /\ \A r \in Runs :
       /\ \A i \in DOMAIN run[r].todo : RulesScore(run[r].todo[i])
       /\ pc[r] = "store" /\ Internal(Head(run[r].todo)) => run[r].valid

(* A suggestion or plan for incident i that buys adds up. *)
AddsUp(x, i) ==
  x.rules /\ x.allocations # <<>> => BuysEnough(links, x, incidents[i].analysis)

SumInv ==
  /\ TypeInv
  /\ Ownership
  /\ \A p \in DOMAIN plans : AddsUp(plans[p], plans[p].incident)
  /\ \A r \in Runs : \A i \in DOMAIN run[r].todo :
       AddsUp(run[r].todo[i], run[r].incident)

-----------------------------------------------------------------------------
(* Type correctness, and that the graph offers only what it found valid. *)

(* r alone moves. *)
Moves(r) ==
  /\ pc' = [pc EXCEPT ![r] = pc'[r]]
  /\ run' = [run EXCEPT ![r] = run'[r]]

LEMMA InitTypeInv == Init => TypeInv
<1> SUFFICES ASSUME Init PROVE TypeInv
  OBVIOUS
<1>1. NoRun \in RunState
  BY DEF NoRun, RunState, Modes
<1>2. TablesOK /\ ControlOK
  <2>1. links \in [Suppliers -> Link] /\ stock \in Snapshot
    BY PipelineAssumption DEF Init
  <2>2. /\ incidents \in Seq(IncidentRow) /\ plans \in Seq(PlanRow)
        /\ approvals \in Seq(ApprovalRow)
        /\ DOMAIN plans = {} /\ DOMAIN approvals = {}
    BY DEF Init
  <2>3. ControlOK
    BY <1>1 DEF Init, ControlOK, Labels
  <2>4. QED
    BY <2>1, <2>2, <2>3 DEF TablesOK
<1>3. ASSUME NEW r \in Runs PROVE LocalsOK(r)
  <2>1. pc[r] = "start" /\ run[r] = NoRun
    BY DEF Init
  <2>2. Stored(r) = {}
    BY <2>1 DEF Stored, NoRun
  <2>3. QED
    BY <2>1, <2>2 DEF LocalsOK, NoRun, Preparing
<1>4. OfferedPlansHold
  BY DEF Init, OfferedPlansHold
<1>5. QED
  BY <1>2, <1>3, <1>4 DEF TypeInv

LEMMA Frame ==
  ASSUME TypeInv, NEW r \in Runs, Moves(r), pc'[r] \in Labels, run'[r] \in RunState,
         TablesOK', OfferedPlansHold', LocalsOK(r)',
         DOMAIN incidents \subseteq DOMAIN incidents',
         DOMAIN plans \subseteq DOMAIN plans'
  PROVE  TypeInv'
<1>1. ControlOK'
  BY DEF TypeInv, ControlOK, Moves
<1>2. ASSUME NEW q \in Runs PROVE LocalsOK(q)'
  <2>1. CASE q = r
    BY <2>1
  <2>2. CASE q # r
    <3>1. pc'[q] = pc[q] /\ run'[q] = run[q] /\ LocalsOK(q)
      BY <2>2 DEF TypeInv, ControlOK, Moves
    <3>2. Stored(q)' = Stored(q)
      BY <3>1 DEF Stored
    <3>3. QED
      BY <3>1, <3>2 DEF LocalsOK
  <2>3. QED
    BY <2>1, <2>2
<1>3. QED
  BY <1>1, <1>2 DEF TypeInv

(* A step that leaves the tables alone. *)
LEMMA FrameOfRun ==
  ASSUME TypeInv, NEW r \in Runs, Moves(r), pc'[r] \in Labels, run'[r] \in RunState,
         LocalsOK(r)', UNCHANGED tables
  PROVE  TypeInv'
<1>1. TablesOK' /\ OfferedPlansHold'
  BY DEF TypeInv, TablesOK, OfferedPlansHold, tables
<1>2. incidents' = incidents /\ plans' = plans
  BY DEF tables
<1>3. QED
  BY <1>1, <1>2, Frame

LEMMA StepMoves ==
  ASSUME ControlOK, NEW r \in Runs, NEW from, NEW to, NEW locals,
         Step(r, from, to, locals)
  PROVE  Moves(r) /\ pc[r] = from /\ pc'[r] = to /\ run'[r] = locals
BY DEF ControlOK, Step, Moves

LEMMA RunFields ==
  ASSUME TypeInv, NEW r \in Runs
  PROVE  /\ run[r] \in RunState /\ pc[r] \in Labels
         /\ run[r].mode \in Modes /\ run[r].incident \in Nat
         /\ run[r].analysed \in Nat /\ run[r].todo \in Seq(Suggestion)
         /\ run[r].valid \in BOOLEAN /\ run[r].stored \in Seq(Nat)
         /\ run[r].checked \in Nat /\ run[r].passed \subseteq Nat
         /\ run[r].selected \in Nat
         /\ LocalsOK(r)
<1>1. run[r] \in RunState /\ pc[r] \in Labels /\ LocalsOK(r)
  BY DEF TypeInv, ControlOK
<1>2. QED
  BY <1>1 DEF RunState

(* A run that ends, or that has not begun. *)
LEMMA IdleLocals ==
  ASSUME NEW r \in Runs, run'[r] = NoRun, pc'[r] \in {"start", "done"}
  PROVE  LocalsOK(r)'
<1>1. Stored(r)' = {}
  BY DEF Stored, NoRun
<1>2. QED
  BY <1>1 DEF LocalsOK, NoRun, Preparing

LEMMA NewIncidentOK == NewIncident \in IncidentRow
BY NoAnalysisOK DEF NewIncident, IncidentRow

LEMMA IncidentInserted ==
  ASSUME TypeInv, incidents' = Append(incidents, NewIncident),
         links' \in [Suppliers -> Link], stock' \in Snapshot,
         UNCHANGED <<plans, approvals>>
  PROVE  /\ TablesOK' /\ OfferedPlansHold'
         /\ DOMAIN incidents \subseteq DOMAIN incidents'
         /\ Len(incidents) + 1 \in DOMAIN incidents'
         /\ Len(incidents) + 1 \notin DOMAIN incidents
         /\ Len(incidents) + 1 \in Nat
         /\ incidents'[Len(incidents) + 1] = NewIncident
         /\ \A i \in DOMAIN incidents : incidents'[i] = incidents[i]
<1>1. incidents \in Seq(IncidentRow)
  BY DEF TypeInv, TablesOK
<1>2. /\ incidents' \in Seq(IncidentRow)
      /\ DOMAIN incidents = 1..Len(incidents)
      /\ DOMAIN incidents' = 1..(Len(incidents) + 1)
      /\ Len(incidents) \in Nat
      /\ incidents'[Len(incidents) + 1] = NewIncident
      /\ \A i \in DOMAIN incidents : incidents'[i] = incidents[i]
  BY <1>1, NewIncidentOK
<1>3. DOMAIN incidents \subseteq DOMAIN incidents'
  BY <1>2
<1>4. TablesOK' /\ OfferedPlansHold'
  BY <1>2, <1>3 DEF TypeInv, TablesOK, OfferedPlansHold
<1>5. QED
  BY <1>2, <1>3, <1>4

LEMMA CertificateChanged ==
  ASSUME NEW l \in Link, NEW b \in BOOLEAN
  PROVE  /\ [l EXCEPT !.certified = b] \in Link
         /\ [l EXCEPT !.certified = b].available = l.available
BY DEF Link

LEMMA InjectedRun ==
  ASSUME NEW n \in Nat
  PROVE  [NoRun EXCEPT !.mode = "scenario", !.incident = n]
           = [mode |-> "scenario", incident |-> n, analysed |-> 0, todo |-> <<>>,
              valid |-> TRUE, stored |-> <<>>, checked |-> 0, passed |-> {},
              selected |-> 0]
<1>1. ASSUME NEW x, x = [NoRun EXCEPT !.mode = "scenario", !.incident = n]
      PROVE  x = [mode |-> "scenario", incident |-> n, analysed |-> 0, todo |-> <<>>,
                  valid |-> TRUE, stored |-> <<>>, checked |-> 0, passed |-> {},
                  selected |-> 0]
  BY <1>1, Zenon DEF NoRun
<1>2. QED
  BY <1>1, Zenon

LEMMA InjectScenarioTypes ==
  ASSUME TypeInv, NEW r \in Runs, NEW scenario \in Scenarios,
         InjectScenario(r, scenario)
  PROVE  TypeInv'
<1> DEFINE new == [NoRun EXCEPT !.mode = "scenario", !.incident = Len(incidents) + 1]
<1>1. /\ Moves(r) /\ pc[r] = "start" /\ pc'[r] = "register" /\ run'[r] = new
      /\ incidents' = Append(incidents, NewIncident)
  BY StepMoves DEF InjectScenario, TypeInv, ControlOK, Step, Moves
<1>2. links' \in [Suppliers -> Link]
  <2>1. /\ links \in [Suppliers -> Link] /\ ExpiringSupplier \in Suppliers
        /\ links[ExpiringSupplier] \in Link
    BY PipelineAssumption DEF TypeInv, TablesOK
  <2>2. [links[ExpiringSupplier] EXCEPT !.certified = FALSE] \in Link
    BY <2>1, CertificateChanged
  <2>3. QED
    BY <2>1, <2>2 DEF InjectScenario
<1>3. stock' \in Snapshot
  BY PipelineAssumption DEF InjectScenario, TypeInv, TablesOK
<1>4. /\ TablesOK' /\ OfferedPlansHold'
      /\ DOMAIN incidents \subseteq DOMAIN incidents'
      /\ Len(incidents) + 1 \in DOMAIN incidents'
      /\ Len(incidents) + 1 \in Nat /\ plans' = plans
  BY <1>1, <1>2, <1>3, IncidentInserted DEF InjectScenario
<1>5. /\ new \in RunState /\ new.mode = "scenario"
      /\ new.incident = Len(incidents) + 1 /\ new.todo = <<>> /\ new.stored = <<>>
      /\ new.checked = 0 /\ new.passed = {}
  <2>1. new = [mode |-> "scenario", incident |-> Len(incidents) + 1, analysed |-> 0,
               todo |-> <<>>, valid |-> TRUE, stored |-> <<>>, checked |-> 0,
               passed |-> {}, selected |-> 0]
    BY <1>4, InjectedRun
  <2> HIDE DEF new
  <2>2. QED
    BY <1>4, <2>1 DEF RunState, Modes
<1> HIDE DEF new
<1>6. LocalsOK(r)'
  <2>1. Stored(r)' = {}
    BY <1>1, <1>5 DEF Stored
  <2>2. QED
    BY <1>1, <1>4, <1>5, <2>1 DEF LocalsOK, Preparing
<1>7. QED
  BY <1>1, <1>4, <1>5, <1>6, Frame DEF Labels

LEMMA ResetScenarioTypes ==
  ASSUME TypeInv, ResetScenario
  PROVE  TypeInv'
<1>1. links' \in [Suppliers -> Link]
  <2>1. /\ links \in [Suppliers -> Link] /\ ExpiringSupplier \in Suppliers
        /\ links[ExpiringSupplier] \in Link
    BY PipelineAssumption DEF TypeInv, TablesOK
  <2>2. [links[ExpiringSupplier] EXCEPT !.certified = TRUE] \in Link
    BY <2>1, CertificateChanged
  <2>3. QED
    BY <2>1, <2>2 DEF ResetScenario
<1>2. TablesOK' /\ ControlOK' /\ OfferedPlansHold'
  BY <1>1 DEF ResetScenario, TypeInv, TablesOK, ControlOK, OfferedPlansHold
<1>3. ASSUME NEW r \in Runs PROVE LocalsOK(r)'
  <2>1. LocalsOK(r) /\ Stored(r)' = Stored(r)
    BY DEF ResetScenario, TypeInv, Stored
  <2>2. QED
    BY <2>1 DEF ResetScenario, LocalsOK
<1>4. QED
  BY <1>2, <1>3 DEF TypeInv

LEMMA RegisterIncidentTypes ==
  ASSUME TypeInv, NEW r \in Runs,
         RegisterIncident(r, "start") \/ RegisterIncident(r, "register")
  PROVE  TypeInv'
<1> DEFINE i   == Len(incidents) + 1
           new == [run[r] EXCEPT !.analysed = i,
                                 !.incident = IF run[r].mode = "graph" THEN i ELSE @]
<1>1. /\ Moves(r) /\ pc[r] \in {"start", "register"} /\ pc'[r] = "analyze"
      /\ run'[r] = new /\ incidents' = Append(incidents, NewIncident)
  BY DEF RegisterIncident, TypeInv, ControlOK, Step, Moves
<1>2. /\ TablesOK' /\ OfferedPlansHold'
      /\ DOMAIN incidents \subseteq DOMAIN incidents' /\ i \in DOMAIN incidents'
      /\ i \in Nat /\ plans' = plans
  <2>1. UNCHANGED <<links, stock, plans, approvals>>
    BY DEF RegisterIncident
  <2>2. links' \in [Suppliers -> Link] /\ stock' \in Snapshot
    BY <2>1 DEF TypeInv, TablesOK
  <2>3. QED
    BY <1>1, <2>1, <2>2, IncidentInserted
<1>3. run[r] \in RunState /\ LocalsOK(r)
  BY RunFields
<1> HIDE DEF i
<1>4. /\ new \in RunState /\ new.analysed = i /\ new.mode = run[r].mode
      /\ new.incident = IF run[r].mode = "graph" THEN i ELSE run[r].incident
      /\ new.todo = run[r].todo /\ new.stored = run[r].stored
      /\ new.checked = run[r].checked /\ new.passed = run[r].passed
  BY <1>2, <1>3 DEF RunState
<1> HIDE DEF new
<1>5. /\ run[r].todo = <<>> /\ run[r].stored = <<>> /\ run[r].checked = 0
      /\ run[r].passed = {}
      /\ run[r].mode # "graph" => run[r].incident \in DOMAIN incidents
  BY <1>1, <1>3 DEF LocalsOK, NoRun, Preparing
<1>6. LocalsOK(r)'
  <2>1. Stored(r)' = {}
    BY <1>1, <1>4, <1>5 DEF Stored
  <2>2. QED
    BY <1>1, <1>2, <1>4, <1>5, <2>1 DEF LocalsOK, Preparing
<1>7. QED
  BY <1>1, <1>2, <1>4, <1>6, Frame DEF Labels

(* An incident gets its analysis or its status. *)
LEMMA IncidentChanged ==
  ASSUME TypeInv, NEW i \in DOMAIN incidents, NEW row \in IncidentRow,
         incidents' = [incidents EXCEPT ![i] = row],
         UNCHANGED <<links, stock, plans, approvals>>
  PROVE  TablesOK' /\ OfferedPlansHold' /\ DOMAIN incidents' = DOMAIN incidents
<1>1. incidents \in Seq(IncidentRow)
  BY DEF TypeInv, TablesOK
<1>2. incidents' \in Seq(IncidentRow) /\ DOMAIN incidents' = DOMAIN incidents
  BY <1>1
<1>3. QED
  BY <1>2 DEF TypeInv, TablesOK, OfferedPlansHold

LEMMA AnalysisOK ==
  ASSUME TypeInv, NEW r \in Runs, Analyze(r)
  PROVE  /\ Moves(r) /\ pc[r] = "analyze" /\ pc'[r] = "suggest" /\ run'[r] = run[r]
         /\ run[r].analysed \in DOMAIN incidents
         /\ \E row \in IncidentRow :
              incidents' = [incidents EXCEPT ![run[r].analysed] = row]
         /\ UNCHANGED <<links, stock, plans, approvals>>
<1>1. /\ Moves(r) /\ pc[r] = "analyze" /\ pc'[r] = "suggest" /\ run'[r] = run[r]
      /\ UNCHANGED <<links, stock, plans, approvals>>
  BY DEF Analyze, Step, Moves, TypeInv, ControlOK
<1>2. run[r].analysed \in DOMAIN incidents
  BY <1>1, RunFields DEF LocalsOK
<1>3. PICK ranking \in Rankings(links, RequiredQuantity(stock)) :
        incidents' = [incidents EXCEPT ![run[r].analysed].analysis =
                        Assess(stock, ranking)]
  BY DEF Analyze
<1>4. /\ stock \in Snapshot /\ links \in [Suppliers -> Link]
      /\ incidents[run[r].analysed] \in IncidentRow
  BY <1>2 DEF TypeInv, TablesOK
<1>5. RequiredQuantity(stock) \in Nat
  BY <1>4 DEF RequiredQuantity, Snapshot
<1>6. Assess(stock, ranking) \in Analysis
  BY <1>3, <1>4, <1>5, RankingIsSeq, AssessmentOK, PipelineAssumption
<1>7. [incidents[run[r].analysed] EXCEPT !.analysis = Assess(stock, ranking)]
        \in IncidentRow
  BY <1>4, <1>6 DEF IncidentRow
<1>8. QED
  BY <1>1, <1>2, <1>3, <1>7

LEMMA AnalyzeTypes ==
  ASSUME TypeInv, NEW r \in Runs, Analyze(r)
  PROVE  TypeInv'
<1>1. /\ Moves(r) /\ pc[r] = "analyze" /\ pc'[r] = "suggest" /\ run'[r] = run[r]
      /\ UNCHANGED <<links, stock, plans, approvals>>
      /\ TablesOK' /\ OfferedPlansHold' /\ DOMAIN incidents' = DOMAIN incidents
  BY AnalysisOK, IncidentChanged
<1>2. run[r] \in RunState /\ LocalsOK(r)
  BY RunFields
<1>3. Stored(r)' = Stored(r)
  BY <1>1 DEF Stored
<1>4. LocalsOK(r)'
  BY <1>1, <1>2, <1>3 DEF LocalsOK, Preparing
<1>5. QED
  BY <1>1, <1>2, <1>4, Frame DEF Labels

(* What a run is told to try next, by a language model or by the rules. *)
LEMMA TodoSuggested ==
  ASSUME TypeInv, NEW r \in Runs, Suggest(r)
  PROVE  /\ Moves(r) /\ pc[r] = "suggest" /\ pc'[r] = "validate"
         /\ run[r].incident \in DOMAIN incidents
         /\ incidents[run[r].incident].analysis \in Analysis
         /\ \E todo \in ModelSuggestions
                   \cup {Suggestions(links, incidents[run[r].incident].analysis)} :
              /\ run'[r] = [run[r] EXCEPT !.todo = todo]
              /\ todo \in Seq(Suggestion) /\ todo # <<>>
         /\ UNCHANGED tables
<1>1. pc[r] = "suggest" /\ UNCHANGED tables
  BY DEF Suggest
<1>2. PICK todo \in ModelSuggestions
                   \cup {Suggestions(links, incidents[run[r].incident].analysis)} :
        Step(r, "suggest", "validate", [run[r] EXCEPT !.todo = todo])
  BY DEF Suggest
<1>3. /\ Moves(r) /\ pc'[r] = "validate" /\ run'[r] = [run[r] EXCEPT !.todo = todo]
  BY <1>2 DEF Step, Moves, TypeInv, ControlOK
<1>4. run[r].incident \in DOMAIN incidents
  BY <1>1, RunFields DEF LocalsOK
<1>5. links \in [Suppliers -> Link] /\ incidents[run[r].incident] \in IncidentRow
  BY <1>4 DEF TypeInv, TablesOK
<1>6. incidents[run[r].incident].analysis \in Analysis
  BY <1>5 DEF IncidentRow
<1>7. todo \in Seq(Suggestion) /\ todo # <<>>
  BY <1>5, <1>6, SuggestionsOK, PipelineAssumption
<1>8. QED
  BY <1>1, <1>3, <1>4, <1>6, <1>7

LEMMA SuggestTypes ==
  ASSUME TypeInv, NEW r \in Runs, Suggest(r)
  PROVE  TypeInv'
<1>1. PICK todo \in Seq(Suggestion) :
        /\ Moves(r) /\ pc[r] = "suggest" /\ pc'[r] = "validate"
        /\ run'[r] = [run[r] EXCEPT !.todo = todo] /\ todo # <<>>
        /\ UNCHANGED tables
  BY TodoSuggested
<1>2. run[r] \in RunState /\ LocalsOK(r)
  BY RunFields
<1>3. /\ run'[r] \in RunState /\ run'[r].todo = todo
      /\ run'[r].incident = run[r].incident /\ run'[r].mode = run[r].mode
      /\ run'[r].stored = run[r].stored /\ run'[r].passed = run[r].passed
      /\ run'[r].checked = run[r].checked
  BY <1>1, <1>2 DEF RunState
<1>4. incidents' = incidents /\ plans' = plans
  BY <1>1 DEF tables
<1>5. Stored(r)' = Stored(r)
  BY <1>3 DEF Stored
<1>6. LocalsOK(r)'
  BY <1>1, <1>2, <1>3, <1>4, <1>5 DEF LocalsOK, Preparing
<1>7. QED
  BY <1>1, <1>3, <1>6, FrameOfRun DEF Labels

LEMMA ValidateSuggestionTypes ==
  ASSUME TypeInv, NEW r \in Runs, ValidateSuggestion(r)
  PROVE  TypeInv'
<1> DEFINE valid == PlanValid(links, stock, Head(run[r].todo))
<1>1. /\ Moves(r) /\ pc[r] = "validate" /\ pc'[r] = "store"
      /\ run'[r] = [run[r] EXCEPT !.valid = valid] /\ run[r].todo # <<>>
      /\ UNCHANGED tables
  BY DEF ValidateSuggestion, Step, Moves, TypeInv, ControlOK
<1>2. run[r] \in RunState /\ LocalsOK(r)
  BY RunFields
<1>3. valid \in BOOLEAN
  BY DEF PlanValid
<1> HIDE DEF valid
<1>4. /\ run'[r] \in RunState /\ run'[r].todo = run[r].todo
      /\ run'[r].incident = run[r].incident /\ run'[r].mode = run[r].mode
      /\ run'[r].stored = run[r].stored /\ run'[r].passed = run[r].passed
      /\ run'[r].checked = run[r].checked
  BY <1>1, <1>2, <1>3 DEF RunState
<1>5. incidents' = incidents /\ plans' = plans
  BY <1>1 DEF tables
<1>6. Stored(r)' = Stored(r)
  BY <1>4 DEF Stored
<1>7. LocalsOK(r)'
  BY <1>1, <1>2, <1>4, <1>5, <1>6 DEF LocalsOK, Preparing
<1>8. QED
  BY <1>1, <1>4, <1>7, FrameOfRun DEF Labels

LEMMA NewPlanOK ==
  ASSUME NEW i \in Nat, NEW s \in Suggestion, NEW valid \in BOOLEAN
  PROVE  LET p == NewPlan(i, s, valid)
         IN /\ p \in PlanRow
            /\ p.incident = i /\ p.rules = s.rules /\ p.supplier = s.supplier
            /\ p.quantity = s.quantity /\ p.allocations = s.allocations
            /\ p.status = IF valid THEN "PROPOSED" ELSE "INVALID"
            /\ p.score = IF valid THEN s.score ELSE HalfEven(s.score, 2)
<1>1. /\ s.type \in PlanTypes /\ s.supplier \in Suppliers \cup {Absent}
      /\ s.quantity \in Nat /\ s.allocations \in Seq(Allocation)
      /\ s.coherent \in BOOLEAN /\ s.score \in Nat /\ s.rules \in BOOLEAN
  BY DEF Suggestion
<1>2. HalfEven(s.score, 2) \in Nat
  <2>1. s.score \in Nat
    BY <1>1
  <2>2. \A n \in Nat : HalfEven(n, 2) \in Nat
    BY HalvedScore
  <2>3. QED
    BY <2>1, <2>2, Zenon
<1>3. QED
  BY <1>1, <1>2 DEF NewPlan, PlanRow, Statuses

LEMMA PlanStored ==
  ASSUME TypeInv, NEW r \in Runs, StorePlan(r)
  PROVE  LET s == Head(run[r].todo)
             p == NewPlan(run[r].incident, s, run[r].valid)
         IN /\ Moves(r) /\ pc[r] = "store" /\ pc'[r] = "validate"
            /\ s \in Suggestion /\ s = run[r].todo[1] /\ 1 \in DOMAIN run[r].todo
            /\ run[r].incident \in DOMAIN incidents
            /\ run[r].valid \in BOOLEAN
            /\ run'[r] = [run[r] EXCEPT !.todo = Tail(run[r].todo),
                                       !.stored = Append(run[r].stored, Len(plans) + 1)]
            /\ run'[r] \in RunState
            /\ run'[r].todo = Tail(run[r].todo)
            /\ Len(run'[r].todo) = Len(run[r].todo) - 1
            /\ Len(run[r].todo) \in Nat
            /\ \A i \in DOMAIN run'[r].todo : /\ i + 1 \in DOMAIN run[r].todo
                                               /\ i + 1 # 1
                                               /\ run'[r].todo[i] = run[r].todo[i + 1]
            /\ run'[r].stored = Append(run[r].stored, Len(plans) + 1)
            /\ Len(run'[r].stored) = Len(run[r].stored) + 1
            /\ Len(run[r].stored) \in Nat /\ run'[r].stored # <<>>
            /\ Stored(r)' = Stored(r) \cup {Len(plans) + 1}
            /\ run'[r].mode = run[r].mode /\ run'[r].incident = run[r].incident
            /\ run'[r].analysed = run[r].analysed
            /\ run'[r].checked = run[r].checked /\ run'[r].passed = run[r].passed
            /\ UNCHANGED <<links, stock, incidents, approvals>>
            /\ plans' = Append(plans, p) /\ p \in PlanRow
            /\ DOMAIN plans \subseteq DOMAIN plans'
            /\ DOMAIN plans' = DOMAIN plans \cup {Len(plans) + 1}
            /\ Len(plans) + 1 \notin DOMAIN plans
            /\ plans'[Len(plans) + 1] = p
            /\ \A q \in DOMAIN plans : plans'[q] = plans[q]
<1> DEFINE n == Len(plans) + 1
           s == Head(run[r].todo)
           p == NewPlan(run[r].incident, s, run[r].valid)
<1>1. /\ Moves(r) /\ pc[r] = "store" /\ pc'[r] = "validate"
      /\ run'[r] = [run[r] EXCEPT !.todo = Tail(run[r].todo),
                                 !.stored = Append(run[r].stored, n)]
      /\ plans' = Append(plans, p)
      /\ UNCHANGED <<links, stock, incidents, approvals>>
  BY DEF StorePlan, Step, Moves, TypeInv, ControlOK
<1>2. /\ run[r] \in RunState /\ run[r].todo \in Seq(Suggestion)
      /\ run[r].stored \in Seq(Nat) /\ run[r].valid \in BOOLEAN
      /\ run[r].todo # <<>> /\ run[r].incident \in DOMAIN incidents
      /\ run[r].incident \in Nat
  BY <1>1, RunFields DEF LocalsOK
<1>3. s \in Suggestion /\ s = run[r].todo[1] /\ 1 \in DOMAIN run[r].todo
  BY <1>2
<1>4. /\ Tail(run[r].todo) \in Seq(Suggestion)
      /\ Len(Tail(run[r].todo)) = Len(run[r].todo) - 1
      /\ \A i \in DOMAIN Tail(run[r].todo) :
           /\ i + 1 \in DOMAIN run[r].todo /\ i + 1 # 1
           /\ Tail(run[r].todo)[i] = run[r].todo[i + 1]
      /\ Len(run[r].todo) \in Nat
  BY <1>2
<1>5. plans \in Seq(PlanRow)
  BY DEF TypeInv, TablesOK
<1>6. /\ n \in Nat /\ DOMAIN plans = 1..Len(plans) /\ Len(plans) \in Nat
      /\ Append(run[r].stored, n) \in Seq(Nat)
  BY <1>2, <1>5
<1>7. p \in PlanRow
  BY <1>2, <1>3, NewPlanOK
<1> HIDE DEF p, s
<1>8. /\ DOMAIN plans' = DOMAIN plans \cup {n} /\ n \notin DOMAIN plans
      /\ plans'[n] = p /\ \A q \in DOMAIN plans : plans'[q] = plans[q]
  BY <1>1, <1>5, <1>6, <1>7
<1> HIDE DEF n
<1>9. /\ run'[r] \in RunState
      /\ run'[r].todo = Tail(run[r].todo)
      /\ run'[r].stored = Append(run[r].stored, n)
      /\ run'[r].mode = run[r].mode /\ run'[r].incident = run[r].incident
      /\ run'[r].analysed = run[r].analysed
      /\ run'[r].checked = run[r].checked /\ run'[r].passed = run[r].passed
  BY <1>1, <1>2, <1>4, <1>6 DEF RunState
<1>10. Stored(r)' = Stored(r) \cup {n}
  <2>1. {Append(run[r].stored, n)[i] : i \in DOMAIN Append(run[r].stored, n)}
          = {run[r].stored[i] : i \in DOMAIN run[r].stored} \cup {n}
    <3>1. /\ DOMAIN Append(run[r].stored, n) = 1..(Len(run[r].stored) + 1)
          /\ DOMAIN run[r].stored = 1..Len(run[r].stored)
          /\ Len(run[r].stored) \in Nat
          /\ \A i \in DOMAIN run[r].stored : Append(run[r].stored, n)[i] = run[r].stored[i]
          /\ Append(run[r].stored, n)[Len(run[r].stored) + 1] = n
      BY <1>2, <1>6, SMTT(30)
    <3>2. 1..(Len(run[r].stored) + 1) = (1..Len(run[r].stored)) \cup {Len(run[r].stored) + 1}
      BY <3>1
    <3>3. QED
      BY <3>1, <3>2
  <2>2. QED
    BY <1>9, <2>1 DEF Stored
<1>11. /\ Len(Append(run[r].stored, n)) = Len(run[r].stored) + 1
       /\ Append(run[r].stored, n) # <<>> /\ Len(run[r].stored) \in Nat
  <2>1. /\ Len(Append(run[r].stored, n)) = Len(run[r].stored) + 1
        /\ Len(run[r].stored) \in Nat
    BY <1>2, <1>6
  <2>2. Len(Append(run[r].stored, n)) # Len(<<>>)
    BY <2>1
  <2>3. QED
    BY <2>1, <2>2, Zenon
<1>12. QED
  BY <1>1, <1>2, <1>3, <1>4, <1>7, <1>8, <1>9, <1>10, <1>11 DEF n, p, s

LEMMA StorePlanTypes ==
  ASSUME TypeInv, NEW r \in Runs, StorePlan(r)
  PROVE  TypeInv'
<1> DEFINE n == Len(plans) + 1
           p == NewPlan(run[r].incident, Head(run[r].todo), run[r].valid)
<1>1. /\ Moves(r) /\ pc[r] = "store" /\ pc'[r] = "validate"
      /\ run[r].incident \in DOMAIN incidents
      /\ run'[r] \in RunState
      /\ run'[r].stored = Append(run[r].stored, n)
      /\ Stored(r)' = Stored(r) \cup {n}
      /\ run'[r].mode = run[r].mode /\ run'[r].incident = run[r].incident
      /\ run'[r].checked = run[r].checked /\ run'[r].passed = run[r].passed
      /\ UNCHANGED <<links, stock, incidents, approvals>>
      /\ plans' = Append(plans, p) /\ p \in PlanRow
      /\ DOMAIN plans' = DOMAIN plans \cup {n}
      /\ plans'[n] = p
      /\ \A q \in DOMAIN plans : plans'[q] = plans[q]
  BY PlanStored
<1>2. p.incident = run[r].incident
  BY DEF NewPlan
<1>3. LocalsOK(r) /\ run[r].stored \in Seq(Nat)
  BY RunFields
<1> HIDE DEF p
<1>4. TablesOK' /\ OfferedPlansHold'
  <2>1. plans' \in Seq(PlanRow)
    BY <1>1 DEF TypeInv, TablesOK
  <2>2. \A q \in DOMAIN plans' : plans'[q].incident \in DOMAIN incidents
    BY <1>1, <1>2 DEF TypeInv, TablesOK
  <2>3. QED
    BY <1>1, <2>1, <2>2 DEF TypeInv, TablesOK, OfferedPlansHold
<1>5. LocalsOK(r)'
  <2>1. run'[r].stored # <<>>
    BY PlanStored
  <2>2. Stored(r)' \subseteq DOMAIN plans' /\ run'[r].passed \subseteq Stored(r)'
    BY <1>1, <1>3 DEF LocalsOK
  <2>3. run'[r].checked = 0 /\ run'[r].passed = {}
    BY <1>1, <1>3 DEF LocalsOK
  <2>4. QED
    BY <1>1, <2>1, <2>2, <2>3 DEF LocalsOK, Preparing
<1>6. QED
  BY <1>1, <1>4, <1>5, Frame DEF Labels

(* The best of the stored plans is one of them, and has the highest score. *)
LEMMA BestOK ==
  ASSUME TypeInv, NEW r \in Runs, run[r].stored # <<>>
  PROVE  /\ Best(run[r].stored) \in Stored(r)
         /\ Best(run[r].stored) \in DOMAIN plans /\ Best(run[r].stored) \in Nat
         /\ \A p \in Stored(r) : plans[p].score <= plans[Best(run[r].stored)].score
<1> DEFINE s == run[r].stored
           f == [i \in 1..Len(s) |-> plans[s[i]].score]
<1>1. s \in Seq(Nat) /\ s # <<>> /\ Stored(r) \subseteq DOMAIN plans
  BY RunFields DEF LocalsOK
<1>2. Len(s) \in Nat /\ Len(s) # 0 /\ DOMAIN s = 1..Len(s)
  BY <1>1
<1>3. \A i \in 1..Len(s) : s[i] \in DOMAIN plans /\ s[i] \in Stored(r)
  BY <1>1, <1>2 DEF Stored
<1>4. \A p \in DOMAIN plans : plans[p].score \in Nat
  <2>1. \A p \in DOMAIN plans : plans[p] \in PlanRow
    BY DEF TypeInv, TablesOK
  <2>2. QED
    BY <2>1 DEF PlanRow
<1>5. f \in [1..Len(s) -> Nat] /\ \A i \in 1..Len(s) : f[i] = plans[s[i]].score
  BY <1>3, <1>4
<1> HIDE DEF f
<1>6. PICK i \in 1..Len(s) : \A j \in 1..Len(s) : f[j] <= f[i] /\ (j < i => f[j] < f[i])
  BY <1>2, <1>5, FirstMaximum
<1>7. \E k \in DOMAIN s : \A j \in DOMAIN s :
        /\ plans[s[j]].score <= plans[s[k]].score
        /\ j < k => plans[s[j]].score < plans[s[k]].score
  <2>1. \A j \in DOMAIN s : /\ plans[s[j]].score <= plans[s[i]].score
                            /\ j < i => plans[s[j]].score < plans[s[i]].score
    BY <1>2, <1>5, <1>6
  <2>2. i \in DOMAIN s
    BY <1>2
  <2>3. QED
    BY <2>1, <2>2
<1>8. PICK k \in DOMAIN s :
        /\ Best(s) = s[k]
        /\ \A j \in DOMAIN s : plans[s[j]].score <= plans[s[k]].score
  BY <1>7 DEF Best
<1>9. \A p \in Stored(r) : plans[p].score <= plans[s[k]].score
  BY <1>8 DEF Stored
<1>10. s[k] \in Nat
  BY <1>1
<1>11. QED
  BY <1>2, <1>3, <1>8, <1>9, <1>10

LEMMA RecoveryEnds ==
  ASSUME TypeInv, NEW r \in Runs, EndRecovery(r)
  PROVE  /\ Moves(r) /\ pc[r] = "validate" /\ pc'[r] = "check"
         /\ run[r].stored # <<>> /\ run[r].mode = "graph"
         /\ run'[r] = [run[r] EXCEPT !.selected = Best(run[r].stored)]
         /\ run'[r] \in RunState
         /\ run'[r].todo = run[r].todo /\ run'[r].stored = run[r].stored
         /\ run'[r].mode = run[r].mode /\ run'[r].incident = run[r].incident
         /\ run'[r].analysed = run[r].analysed
         /\ run'[r].checked = run[r].checked /\ run'[r].passed = run[r].passed
         /\ run'[r].selected = Best(run[r].stored)
         /\ Stored(r)' = Stored(r) /\ UNCHANGED tables
<1>1. /\ Moves(r) /\ pc[r] = "validate" /\ pc'[r] = "check"
      /\ run'[r] = [run[r] EXCEPT !.selected = Best(run[r].stored)]
      /\ run[r].todo = <<>> /\ run[r].mode = "graph" /\ UNCHANGED tables
  BY DEF EndRecovery, Step, Moves, TypeInv, ControlOK
<1>2. run[r] \in RunState /\ run[r].stored # <<>>
  BY <1>1, RunFields DEF LocalsOK
<1>3. Best(run[r].stored) \in Nat
  BY <1>2, BestOK
<1>4. /\ run'[r] \in RunState
      /\ run'[r].todo = run[r].todo /\ run'[r].stored = run[r].stored
      /\ run'[r].mode = run[r].mode /\ run'[r].incident = run[r].incident
      /\ run'[r].analysed = run[r].analysed
      /\ run'[r].checked = run[r].checked /\ run'[r].passed = run[r].passed
      /\ run'[r].selected = Best(run[r].stored)
  BY <1>1, <1>2, <1>3 DEF RunState
<1>5. Stored(r)' = Stored(r)
  BY <1>4 DEF Stored
<1>6. QED
  BY <1>1, <1>2, <1>4, <1>5

LEMMA EndRecoveryTypes ==
  ASSUME TypeInv, NEW r \in Runs, EndRecovery(r)
  PROVE  TypeInv'
<1>1. LocalsOK(r)
  BY RunFields
<1>2. LocalsOK(r)'
  <2>1. /\ pc[r] = "validate" /\ pc'[r] = "check"
        /\ run[r].stored # <<>> /\ run[r].mode = "graph"
        /\ run'[r].todo = run[r].todo /\ run'[r].stored = run[r].stored
        /\ run'[r].mode = run[r].mode /\ run'[r].incident = run[r].incident
        /\ run'[r].passed = run[r].passed
        /\ Stored(r)' = Stored(r) /\ UNCHANGED tables
    BY RecoveryEnds
  <2>2. run[r].todo = <<>>
    BY DEF EndRecovery
  <2>3. incidents' = incidents /\ plans' = plans
    BY <2>1 DEF tables
  <2>4. QED
    BY <1>1, <2>1, <2>2, <2>3 DEF LocalsOK, Preparing
<1>3. QED
  BY <1>2, RecoveryEnds, FrameOfRun DEF Labels

(* recommend changes the status of one plan and nothing else. *)
LEMMA BestSelected ==
  ASSUME TypeInv, NEW r \in Runs, SelectPlan(r)
  PROVE  /\ Moves(r) /\ pc[r] = "validate" /\ pc'[r] = "offer"
         /\ run[r].stored # <<>> /\ run[r].todo = <<>> /\ run[r].mode = "scenario"
         /\ run'[r] \in RunState
         /\ run'[r].todo = run[r].todo /\ run'[r].stored = run[r].stored
         /\ run'[r].mode = run[r].mode /\ run'[r].incident = run[r].incident
         /\ run'[r].analysed = run[r].analysed
         /\ run'[r].checked = run[r].checked /\ run'[r].passed = run[r].passed
         /\ Stored(r)' = Stored(r)
         /\ UNCHANGED <<links, stock, incidents, approvals>>
         /\ plans' \in Seq(PlanRow) /\ DOMAIN plans' = DOMAIN plans
         /\ \A p \in DOMAIN plans :
              /\ plans'[p].incident = plans[p].incident
              /\ plans'[p].rules = plans[p].rules
              /\ plans'[p].supplier = plans[p].supplier
              /\ plans'[p].quantity = plans[p].quantity
              /\ plans'[p].allocations = plans[p].allocations
              /\ plans'[p].score = plans[p].score
              /\ plans'[p].status \in {plans[p].status, "SELECTED"}
<1> DEFINE b == Best(run[r].stored)
<1>1. /\ Moves(r) /\ pc[r] = "validate" /\ pc'[r] = "offer"
      /\ run'[r] = [run[r] EXCEPT !.selected = b]
      /\ run[r].todo = <<>> /\ run[r].mode = "scenario"
      /\ plans' = [plans EXCEPT ![b].status = "SELECTED"]
      /\ UNCHANGED <<links, stock, incidents, approvals>>
  BY DEF SelectPlan, Step, Moves, TypeInv, ControlOK
<1>2. run[r] \in RunState /\ run[r].stored # <<>>
  BY <1>1, RunFields DEF LocalsOK
<1>3. b \in Nat /\ b \in DOMAIN plans
  BY <1>2, BestOK
<1> HIDE DEF b
<1>4. /\ run'[r] \in RunState
      /\ run'[r].todo = run[r].todo /\ run'[r].stored = run[r].stored
      /\ run'[r].mode = run[r].mode /\ run'[r].incident = run[r].incident
      /\ run'[r].analysed = run[r].analysed
      /\ run'[r].checked = run[r].checked /\ run'[r].passed = run[r].passed
  BY <1>1, <1>2, <1>3 DEF RunState
<1>5. Stored(r)' = Stored(r)
  BY <1>4 DEF Stored
<1>6. plans \in Seq(PlanRow) /\ plans[b] \in PlanRow
  BY <1>3 DEF TypeInv, TablesOK
<1> DEFINE row == [plans[b] EXCEPT !.status = "SELECTED"]
<1>7. /\ row \in PlanRow
      /\ row.incident = plans[b].incident /\ row.rules = plans[b].rules
      /\ row.supplier = plans[b].supplier /\ row.quantity = plans[b].quantity
      /\ row.allocations = plans[b].allocations /\ row.score = plans[b].score
      /\ row.status = "SELECTED"
  BY <1>6 DEF PlanRow, Statuses
<1>8. plans' = [plans EXCEPT ![b] = row]
  BY <1>1
<1> HIDE DEF row
<1>9. /\ plans' \in Seq(PlanRow) /\ DOMAIN plans' = DOMAIN plans
      /\ plans'[b] = row /\ \A p \in DOMAIN plans : p # b => plans'[p] = plans[p]
  BY <1>3, <1>6, <1>7, <1>8
<1>10. ASSUME NEW p \in DOMAIN plans
       PROVE  /\ plans'[p].incident = plans[p].incident
              /\ plans'[p].rules = plans[p].rules
              /\ plans'[p].supplier = plans[p].supplier
              /\ plans'[p].quantity = plans[p].quantity
              /\ plans'[p].allocations = plans[p].allocations
              /\ plans'[p].score = plans[p].score
              /\ plans'[p].status \in {plans[p].status, "SELECTED"}
  BY <1>7, <1>9
<1>11. QED
  BY <1>1, <1>2, <1>4, <1>5, <1>9, <1>10

LEMMA SelectPlanTypes ==
  ASSUME TypeInv, NEW r \in Runs, SelectPlan(r)
  PROVE  TypeInv'
<1>1. /\ Moves(r) /\ pc[r] = "validate" /\ pc'[r] = "offer"
      /\ run'[r] \in RunState /\ run[r].mode = "scenario"
      /\ run[r].stored # <<>> /\ run[r].todo = <<>>
      /\ run'[r].todo = run[r].todo /\ run'[r].stored = run[r].stored
      /\ run'[r].mode = run[r].mode /\ run'[r].incident = run[r].incident
      /\ run'[r].checked = run[r].checked /\ run'[r].passed = run[r].passed
      /\ Stored(r)' = Stored(r)
      /\ UNCHANGED <<links, stock, incidents, approvals>>
      /\ plans' \in Seq(PlanRow) /\ DOMAIN plans' = DOMAIN plans
      /\ \A p \in DOMAIN plans : plans'[p].incident = plans[p].incident
  BY BestSelected
<1>2. LocalsOK(r)
  BY RunFields
<1>3. TablesOK' /\ OfferedPlansHold'
  BY <1>1 DEF TypeInv, TablesOK, OfferedPlansHold
<1>4. LocalsOK(r)'
  BY <1>1, <1>2 DEF LocalsOK, Preparing
<1>5. QED
  BY <1>1, <1>3, <1>4, Frame DEF Labels

LEMMA PlanChecked ==
  ASSUME TypeInv, NEW r \in Runs, CheckPlan(r)
  PROVE  /\ Moves(r) /\ pc[r] = "check" /\ pc'[r] = "check"
         /\ run'[r] \in RunState
         /\ run'[r].todo = run[r].todo /\ run'[r].stored = run[r].stored
         /\ run'[r].mode = run[r].mode /\ run'[r].incident = run[r].incident
         /\ run'[r].analysed = run[r].analysed
         /\ run'[r].selected = run[r].selected
         /\ Stored(r)' = Stored(r) /\ run'[r].passed \subseteq Stored(r)
         /\ UNCHANGED tables
<1> DEFINE p == run[r].stored[run[r].checked + 1]
           passed == IF Holds(p) THEN run[r].passed \cup {p} ELSE run[r].passed
<1>1. /\ Moves(r) /\ pc[r] = "check" /\ pc'[r] = "check"
      /\ run'[r] = [run[r] EXCEPT !.checked = run[r].checked + 1, !.passed = passed]
      /\ run[r].checked < Len(run[r].stored) /\ UNCHANGED tables
  BY DEF CheckPlan, Step, Moves, TypeInv, ControlOK
<1>2. /\ run[r] \in RunState /\ run[r].checked \in Nat /\ run[r].stored \in Seq(Nat)
      /\ run[r].passed \subseteq Stored(r) /\ run[r].passed \subseteq Nat
  BY RunFields DEF LocalsOK
<1>3. run[r].checked + 1 \in DOMAIN run[r].stored
  BY <1>1, <1>2
<1>4. p \in Nat /\ p \in Stored(r)
  BY <1>2, <1>3 DEF Stored
<1>5. passed \subseteq Nat /\ passed \subseteq Stored(r) /\ run[r].checked + 1 \in Nat
  BY <1>2, <1>4
<1> HIDE DEF passed
<1>6. /\ run'[r] \in RunState
      /\ run'[r].todo = run[r].todo /\ run'[r].stored = run[r].stored
      /\ run'[r].mode = run[r].mode /\ run'[r].incident = run[r].incident
      /\ run'[r].analysed = run[r].analysed
      /\ run'[r].selected = run[r].selected /\ run'[r].passed = passed
  BY <1>1, <1>2, <1>5 DEF RunState
<1>7. Stored(r)' = Stored(r)
  BY <1>6 DEF Stored
<1>8. QED
  BY <1>1, <1>5, <1>6, <1>7

LEMMA CheckPlanTypes ==
  ASSUME TypeInv, NEW r \in Runs, CheckPlan(r)
  PROVE  TypeInv'
<1>1. /\ Moves(r) /\ pc[r] = "check" /\ pc'[r] = "check"
      /\ run'[r] \in RunState
      /\ run'[r].todo = run[r].todo /\ run'[r].stored = run[r].stored
      /\ run'[r].mode = run[r].mode /\ run'[r].incident = run[r].incident
      /\ Stored(r)' = Stored(r) /\ run'[r].passed \subseteq Stored(r)
      /\ UNCHANGED tables
  BY PlanChecked
<1>2. LocalsOK(r) /\ incidents' = incidents /\ plans' = plans
  BY <1>1, RunFields DEF tables
<1>3. LocalsOK(r)'
  BY <1>1, <1>2 DEF LocalsOK, Preparing
<1>4. QED
  BY <1>1, <1>3, FrameOfRun DEF Labels

(* The plan the gate requests approval for passed. *)
LEMMA GateChooses ==
  ASSUME TypeInv, NEW r \in Runs, ApprovalGate(r)
  PROVE  /\ Moves(r) /\ pc[r] = "check" /\ pc'[r] = "request"
         /\ run'[r] \in RunState
         /\ run'[r].todo = run[r].todo /\ run'[r].stored = run[r].stored
         /\ run'[r].mode = run[r].mode /\ run'[r].incident = run[r].incident
         /\ run'[r].analysed = run[r].analysed
         /\ run'[r].passed = run[r].passed
         /\ run'[r].selected \in run[r].passed
         /\ run[r].selected \in run[r].passed => run'[r].selected = run[r].selected
         /\ Stored(r)' = Stored(r)
         /\ UNCHANGED tables
<1> DEFINE s     == run[r].stored
           I     == {i \in 1..Len(s) : s[i] \in run[r].passed}
           other == s[SelectInSeq(s, LAMBDA p : p \in run[r].passed)]
           b     == IF run[r].selected \in run[r].passed THEN run[r].selected ELSE other
<1>1. /\ Moves(r) /\ pc[r] = "check" /\ pc'[r] = "request"
      /\ run'[r] = [run[r] EXCEPT !.selected = b]
      /\ run[r].passed # {} /\ UNCHANGED tables
  BY DEF ApprovalGate, Step, Moves, TypeInv, ControlOK
<1>2. /\ run[r] \in RunState /\ s \in Seq(Nat) /\ run[r].passed \subseteq Stored(r)
      /\ run[r].passed \subseteq Nat
  BY RunFields DEF LocalsOK
<1>3. other \in run[r].passed
  <2>1. PICK p \in run[r].passed : TRUE
    BY <1>1
  <2>2. PICK i \in DOMAIN s : s[i] = p
    BY <1>2, <2>1 DEF Stored
  <2>3. i \in I
    BY <1>2, <2>1, <2>2
  <2>4. I \in SUBSET Nat
    BY <1>2
  <2>5. other = s[IF I # {} THEN Min(I) ELSE 0]
    BY DEF SelectInSeq
  <2> HIDE DEF I, other
  <2>6. PICK n \in I : \A m \in I : n <= m
    BY <2>3, <2>4, Minimum
  <2>7. Min(I) \in I
    BY <2>6 DEF Min
  <2>8. other = s[Min(I)]
    BY <2>3, <2>5
  <2>9. QED
    BY <2>7, <2>8 DEF I
<1> HIDE DEF other
<1>4. b \in run[r].passed /\ b \in Nat
  BY <1>2, <1>3
<1>5. run[r].selected \in run[r].passed => b = run[r].selected
  OBVIOUS
<1> HIDE DEF b
<1>6. /\ run'[r] \in RunState
      /\ run'[r].todo = run[r].todo /\ run'[r].stored = run[r].stored
      /\ run'[r].mode = run[r].mode /\ run'[r].incident = run[r].incident
      /\ run'[r].analysed = run[r].analysed
      /\ run'[r].selected = b /\ run'[r].passed = run[r].passed
  BY <1>1, <1>2, <1>4 DEF RunState
<1>7. Stored(r)' = Stored(r)
  BY <1>6 DEF Stored
<1>8. QED
  BY <1>1, <1>4, <1>5, <1>6, <1>7

LEMMA ApprovalGateTypes ==
  ASSUME TypeInv, NEW r \in Runs, ApprovalGate(r)
  PROVE  TypeInv'
<1>1. /\ Moves(r) /\ pc[r] = "check" /\ pc'[r] = "request"
      /\ run'[r] \in RunState
      /\ run'[r].todo = run[r].todo /\ run'[r].stored = run[r].stored
      /\ run'[r].mode = run[r].mode /\ run'[r].incident = run[r].incident
      /\ run'[r].passed = run[r].passed
      /\ run'[r].selected \in run[r].passed
      /\ Stored(r)' = Stored(r)
      /\ UNCHANGED tables
  BY GateChooses
<1>2. LocalsOK(r) /\ incidents' = incidents /\ plans' = plans
  BY <1>1, RunFields DEF tables
<1>3. LocalsOK(r)'
  BY <1>1, <1>2 DEF LocalsOK, Preparing
<1>4. QED
  BY <1>1, <1>3, FrameOfRun DEF Labels

LEMMA NoRunOK == NoRun \in RunState
BY DEF NoRun, RunState, Modes

LEMMA BlockRunTypes ==
  ASSUME TypeInv, NEW r \in Runs, BlockRun(r)
  PROVE  TypeInv'
<1>1. /\ Moves(r) /\ pc'[r] = "done" /\ run'[r] = NoRun /\ UNCHANGED tables
  BY DEF BlockRun, Step, Moves, TypeInv, ControlOK
<1>2. QED
  BY <1>1, NoRunOK, IdleLocals, FrameOfRun DEF Labels

LEMMA PlanHolds ==
  ASSUME NEW p PROVE Holds(p) \in BOOLEAN
BY DEF Holds, PlanValid

(* A request goes on only with a plan found valid. *)
LEMMA RequestSplits ==
  ASSUME TypeInv, NEW r \in Runs, RequestPlanApproval(r)
  PROVE  /\ Moves(r) /\ pc[r] = "request" /\ run[r].mode = "graph"
         /\ UNCHANGED tables
         /\ \/ pc'[r] = "done" /\ run'[r] = NoRun
            \/ /\ pc'[r] = "insert" /\ run'[r] \in RunState
               /\ run'[r].valid
               /\ run'[r].todo = run[r].todo /\ run'[r].stored = run[r].stored
               /\ run'[r].mode = run[r].mode /\ run'[r].incident = run[r].incident
               /\ run'[r].analysed = run[r].analysed
               /\ run'[r].passed = run[r].passed
               /\ run'[r].selected = run[r].selected
               /\ Stored(r)' = Stored(r)
<1>1. pc[r] = "request" /\ UNCHANGED tables
  BY DEF RequestPlanApproval
<1>2. run[r] \in RunState /\ run[r].mode = "graph"
  BY <1>1, RunFields DEF LocalsOK
<1>3. CASE Holds(run[r].selected)
  <2>1. /\ Moves(r) /\ pc'[r] = "insert"
        /\ run'[r] = [run[r] EXCEPT !.valid = TRUE]
    BY <1>3 DEF RequestPlanApproval, Step, Moves, TypeInv, ControlOK
  <2>2. /\ run'[r] \in RunState /\ run'[r].valid
        /\ run'[r].todo = run[r].todo /\ run'[r].stored = run[r].stored
        /\ run'[r].mode = run[r].mode /\ run'[r].incident = run[r].incident
        /\ run'[r].analysed = run[r].analysed
        /\ run'[r].passed = run[r].passed
        /\ run'[r].selected = run[r].selected
    BY <1>2, <2>1 DEF RunState
  <2>3. Stored(r)' = Stored(r)
    BY <2>2 DEF Stored
  <2>4. QED
    BY <1>1, <1>2, <2>1, <2>2, <2>3
<1>4. CASE ~Holds(run[r].selected)
  <2>1. /\ Moves(r) /\ pc'[r] = "done" /\ run'[r] = NoRun
    BY <1>4 DEF RequestPlanApproval, Step, Moves, TypeInv, ControlOK
  <2>2. QED
    BY <1>1, <1>2, <2>1
<1>5. QED
  BY <1>3, <1>4

LEMMA RequestPlanApprovalTypes ==
  ASSUME TypeInv, NEW r \in Runs, RequestPlanApproval(r)
  PROVE  TypeInv'
<1>1. Moves(r) /\ pc[r] = "request" /\ UNCHANGED tables
  BY RequestSplits
<1>2. LocalsOK(r) /\ incidents' = incidents /\ plans' = plans
  BY <1>1, RunFields DEF tables
<1>3. CASE pc'[r] = "done" /\ run'[r] = NoRun
  BY <1>1, <1>3, NoRunOK, IdleLocals, FrameOfRun DEF Labels
<1>4. CASE /\ pc'[r] = "insert" /\ run'[r] \in RunState
           /\ run'[r].valid
           /\ run'[r].todo = run[r].todo /\ run'[r].stored = run[r].stored
           /\ run'[r].mode = run[r].mode /\ run'[r].incident = run[r].incident
           /\ run'[r].passed = run[r].passed
           /\ run'[r].selected = run[r].selected
           /\ Stored(r)' = Stored(r)
  <2>1. run[r].selected \in DOMAIN plans
    BY <1>1, <1>2 DEF LocalsOK
  <2>2. LocalsOK(r)'
    BY <1>1, <1>2, <1>4, <2>1 DEF LocalsOK, Preparing
  <2>3. QED
    BY <1>1, <1>4, <2>2, FrameOfRun DEF Labels
<1>5. QED
  BY <1>3, <1>4, RequestSplits

LEMMA ApprovalInserted ==
  ASSUME TypeInv, NEW r \in Runs, InsertApproval(r)
  PROVE  /\ Moves(r) /\ pc[r] = "insert"
         /\ UNCHANGED <<links, stock, incidents, plans>>
         /\ TablesOK' /\ OfferedPlansHold'
         /\ \/ pc'[r] = "done" /\ run'[r] = NoRun
            \/ pc'[r] = "finish" /\ run'[r] = run[r] /\ run[r].mode = "scenario"
<1> DEFINE row == [incident |-> plans[run[r].selected].incident,
                   plan |-> run[r].selected, by |-> run[r].mode,
                   held |-> run[r].valid]
<1>1. /\ Moves(r) /\ pc[r] = "insert"
      /\ pc'[r] = IF run[r].mode = "graph" THEN "done" ELSE "finish"
      /\ run'[r] = IF run[r].mode = "graph" THEN NoRun ELSE run[r]
      /\ approvals' = Append(approvals, row)
      /\ UNCHANGED <<links, stock, incidents, plans>>
  BY DEF InsertApproval, Step, Moves, TypeInv, ControlOK
<1>2. /\ run[r].mode \in Modes /\ run[r].valid \in BOOLEAN /\ run[r].selected \in Nat
      /\ run[r].selected \in DOMAIN plans
      /\ run[r].mode = "graph" => run[r].valid
  BY <1>1, RunFields DEF LocalsOK
<1>3. plans[run[r].selected].incident \in Nat
  <2>1. plans[run[r].selected] \in PlanRow
    BY <1>2 DEF TypeInv, TablesOK
  <2>2. QED
    BY <2>1 DEF PlanRow
<1>4. /\ row \in ApprovalRow /\ row.plan \in DOMAIN plans
      /\ row.by = "graph" => row.held
  BY <1>2, <1>3 DEF ApprovalRow
<1> HIDE DEF row
<1>5. approvals \in Seq(ApprovalRow)
  BY DEF TypeInv, TablesOK
<1>6. /\ approvals' \in Seq(ApprovalRow)
      /\ \A a \in DOMAIN approvals' :
           \/ approvals'[a] = row
           \/ a \in DOMAIN approvals /\ approvals'[a] = approvals[a]
  BY <1>1, <1>4, <1>5
<1>7. TablesOK'
  <2>1. \A a \in DOMAIN approvals' : approvals'[a].plan \in DOMAIN plans
    BY <1>4, <1>6 DEF TypeInv, TablesOK
  <2>2. QED
    BY <1>1, <1>6, <2>1 DEF TypeInv, TablesOK
<1>8. OfferedPlansHold'
  BY <1>4, <1>6 DEF TypeInv, OfferedPlansHold
<1>9. QED
  BY <1>1, <1>2, <1>7, <1>8 DEF Modes

LEMMA InsertApprovalTypes ==
  ASSUME TypeInv, NEW r \in Runs, InsertApproval(r)
  PROVE  TypeInv'
<1>1. /\ Moves(r) /\ pc[r] = "insert"
      /\ UNCHANGED <<links, stock, incidents, plans>>
      /\ TablesOK' /\ OfferedPlansHold'
  BY ApprovalInserted
<1>2. CASE pc'[r] = "done" /\ run'[r] = NoRun
  BY <1>1, <1>2, NoRunOK, IdleLocals, Frame DEF Labels
<1>3. CASE pc'[r] = "finish" /\ run'[r] = run[r] /\ run[r].mode = "scenario"
  <2>1. run[r] \in RunState /\ LocalsOK(r)
    BY RunFields
  <2>2. Stored(r)' = Stored(r)
    BY <1>3 DEF Stored
  <2>3. LocalsOK(r)'
    BY <1>1, <1>3, <2>1, <2>2 DEF LocalsOK, Preparing
  <2>4. QED
    BY <1>1, <1>3, <2>1, <2>3, Frame DEF Labels
<1>4. QED
  BY <1>2, <1>3, ApprovalInserted

LEMMA TopPlanOffered ==
  ASSUME TypeInv, NEW r \in Runs, OfferTopPlan(r)
  PROVE  /\ Moves(r) /\ pc[r] = "offer" /\ pc'[r] = "insert"
         /\ run'[r] \in RunState /\ run[r].mode = "scenario"
         /\ run'[r].selected \in DOMAIN plans
         /\ run'[r].todo = run[r].todo /\ run'[r].stored = run[r].stored
         /\ run'[r].mode = run[r].mode /\ run'[r].incident = run[r].incident
         /\ run'[r].analysed = run[r].analysed
         /\ run'[r].checked = run[r].checked /\ run'[r].passed = run[r].passed
         /\ Stored(r)' = Stored(r)
         /\ UNCHANGED tables
<1>1. pc[r] = "offer" /\ UNCHANGED tables
  BY DEF OfferTopPlan
<1>2. PICK p \in TopPlans(run[r].incident) :
        Step(r, "offer", "insert", [run[r] EXCEPT !.selected = p, !.valid = Holds(p)])
  BY DEF OfferTopPlan
<1>3. /\ Moves(r) /\ pc'[r] = "insert"
      /\ run'[r] = [run[r] EXCEPT !.selected = p, !.valid = Holds(p)]
  BY <1>2 DEF Step, Moves, TypeInv, ControlOK
<1>4. p \in DOMAIN plans /\ p \in Nat
  BY DEF TopPlans, TypeInv, TablesOK
<1>5. run[r] \in RunState /\ run[r].mode = "scenario" /\ Holds(p) \in BOOLEAN
  BY <1>1, RunFields, PlanHolds DEF LocalsOK
<1>6. /\ run'[r] \in RunState /\ run'[r].selected = p
      /\ run'[r].todo = run[r].todo /\ run'[r].stored = run[r].stored
      /\ run'[r].mode = run[r].mode /\ run'[r].incident = run[r].incident
      /\ run'[r].analysed = run[r].analysed
      /\ run'[r].checked = run[r].checked /\ run'[r].passed = run[r].passed
  BY <1>3, <1>4, <1>5 DEF RunState
<1>7. Stored(r)' = Stored(r)
  BY <1>6 DEF Stored
<1>8. QED
  BY <1>1, <1>3, <1>4, <1>5, <1>6, <1>7

LEMMA OfferTopPlanTypes ==
  ASSUME TypeInv, NEW r \in Runs, OfferTopPlan(r)
  PROVE  TypeInv'
<1>1. /\ Moves(r) /\ pc[r] = "offer" /\ pc'[r] = "insert"
      /\ run'[r] \in RunState /\ run[r].mode = "scenario"
      /\ run'[r].selected \in DOMAIN plans
      /\ run'[r].todo = run[r].todo /\ run'[r].stored = run[r].stored
      /\ run'[r].mode = run[r].mode /\ run'[r].incident = run[r].incident
      /\ run'[r].checked = run[r].checked /\ run'[r].passed = run[r].passed
      /\ Stored(r)' = Stored(r)
      /\ UNCHANGED tables
  BY TopPlanOffered
<1>2. LocalsOK(r) /\ incidents' = incidents /\ plans' = plans
  BY <1>1, RunFields DEF tables
<1>3. LocalsOK(r)'
  BY <1>1, <1>2 DEF LocalsOK, Preparing
<1>4. QED
  BY <1>1, <1>3, FrameOfRun DEF Labels

LEMMA IncidentMarked ==
  ASSUME TypeInv, NEW r \in Runs, MarkIncident(r)
  PROVE  /\ Moves(r) /\ pc[r] = "finish" /\ pc'[r] = "done" /\ run'[r] = NoRun
         /\ TablesOK' /\ OfferedPlansHold' /\ DOMAIN incidents' = DOMAIN incidents
         /\ \A i \in DOMAIN incidents : incidents'[i].analysis = incidents[i].analysis
         /\ UNCHANGED <<links, stock, plans, approvals>>
<1> DEFINE i   == run[r].incident
           row == [incidents[i] EXCEPT !.status = "AWAITING_APPROVAL"]
<1>1. /\ Moves(r) /\ pc[r] = "finish" /\ pc'[r] = "done" /\ run'[r] = NoRun
      /\ UNCHANGED <<links, stock, plans, approvals>>
      /\ incidents' = [incidents EXCEPT ![i] = row]
  BY DEF MarkIncident, Step, Moves, TypeInv, ControlOK
<1>2. i \in DOMAIN incidents
  BY <1>1, RunFields DEF LocalsOK
<1>3. incidents[i] \in IncidentRow /\ incidents \in Seq(IncidentRow)
  BY <1>2 DEF TypeInv, TablesOK
<1>4. row \in IncidentRow /\ row.analysis = incidents[i].analysis
  BY <1>3 DEF IncidentRow
<1> HIDE DEF row
<1>5. TablesOK' /\ OfferedPlansHold' /\ DOMAIN incidents' = DOMAIN incidents
  BY <1>1, <1>2, <1>4, IncidentChanged
<1>6. \A k \in DOMAIN incidents : incidents'[k].analysis = incidents[k].analysis
  BY <1>1, <1>2, <1>3, <1>4
<1>7. QED
  BY <1>1, <1>5, <1>6

LEMMA MarkIncidentTypes ==
  ASSUME TypeInv, NEW r \in Runs, MarkIncident(r)
  PROVE  TypeInv'
BY IncidentMarked, NoRunOK, IdleLocals, Frame DEF Labels

LEMMA TypeInvNext == TypeInv /\ [Next]_vars => TypeInv'
<1> SUFFICES ASSUME TypeInv, [Next]_vars PROVE TypeInv'
  OBVIOUS
<1>1. CASE ResetScenario
  BY <1>1, ResetScenarioTypes
<1>2. ASSUME NEW r \in Runs, NEW scenario \in Scenarios, InjectScenario(r, scenario)
      PROVE  TypeInv'
  BY <1>2, InjectScenarioTypes
<1>3. ASSUME NEW r \in Runs,
             RegisterIncident(r, "start") \/ RegisterIncident(r, "register")
      PROVE  TypeInv'
  BY <1>3, RegisterIncidentTypes
<1>4. ASSUME NEW r \in Runs, Analyze(r) PROVE TypeInv'
  BY <1>4, AnalyzeTypes
<1>5. ASSUME NEW r \in Runs, Suggest(r) PROVE TypeInv'
  BY <1>5, SuggestTypes
<1>6. ASSUME NEW r \in Runs, ValidateSuggestion(r) PROVE TypeInv'
  BY <1>6, ValidateSuggestionTypes
<1>7. ASSUME NEW r \in Runs, StorePlan(r) PROVE TypeInv'
  BY <1>7, StorePlanTypes
<1>8. ASSUME NEW r \in Runs, EndRecovery(r) PROVE TypeInv'
  BY <1>8, EndRecoveryTypes
<1>9. ASSUME NEW r \in Runs, SelectPlan(r) PROVE TypeInv'
  BY <1>9, SelectPlanTypes
<1>10. ASSUME NEW r \in Runs, CheckPlan(r) PROVE TypeInv'
  BY <1>10, CheckPlanTypes
<1>11. ASSUME NEW r \in Runs, ApprovalGate(r) PROVE TypeInv'
  BY <1>11, ApprovalGateTypes
<1>12. ASSUME NEW r \in Runs, BlockRun(r) PROVE TypeInv'
  BY <1>12, BlockRunTypes
<1>13. ASSUME NEW r \in Runs, RequestPlanApproval(r) PROVE TypeInv'
  BY <1>13, RequestPlanApprovalTypes
<1>14. ASSUME NEW r \in Runs, InsertApproval(r) PROVE TypeInv'
  BY <1>14, InsertApprovalTypes
<1>15. ASSUME NEW r \in Runs, OfferTopPlan(r) PROVE TypeInv'
  BY <1>15, OfferTopPlanTypes
<1>16. ASSUME NEW r \in Runs, MarkIncident(r) PROVE TypeInv'
  BY <1>16, MarkIncidentTypes
<1>17. CASE UNCHANGED vars
  <2>1. /\ UNCHANGED <<links, stock, incidents, plans, approvals>>
        /\ pc' = pc /\ run' = run
    BY <1>17 DEF vars, tables
  <2>2. \A r \in Runs : Stored(r)' = Stored(r)
    BY <2>1 DEF Stored
  <2>3. \A r \in Runs : LocalsOK(r)'
    BY <2>1, <2>2 DEF TypeInv, LocalsOK
  <2>4. TablesOK' /\ ControlOK' /\ OfferedPlansHold'
    BY <2>1 DEF TypeInv, TablesOK, ControlOK, OfferedPlansHold
  <2>5. QED
    BY <2>3, <2>4 DEF TypeInv
<1>18. QED
  BY <1>1, <1>2, <1>3, <1>4, <1>5, <1>6, <1>7, <1>8, <1>9, <1>10, <1>11, <1>12,
     <1>13, <1>14, <1>15, <1>16, <1>17 DEF Next

(* However many runs interleave, and whatever the model suggests, the tables  *)
(* and the locals of the runs stay what the code can read.                   *)
THEOREM PipelineTypeCorrectness == Spec => []TypeOK
<1>1. TypeInv => TypeOK
  <2> SUFFICES ASSUME TypeInv PROVE TypeOK
    OBVIOUS
  <2>1. ASSUME NEW i \in DOMAIN incidents
        PROVE  /\ incidents[i].status \in {"ANALYZING", "AWAITING_APPROVAL"}
               /\ incidents[i].analysis \in Analysis
    <3>1. incidents[i] \in IncidentRow
      BY DEF TypeInv, TablesOK
    <3>2. QED
      BY <3>1 DEF IncidentRow
  <2>2. ASSUME NEW p \in DOMAIN plans
        PROVE  /\ plans[p].incident \in DOMAIN incidents
               /\ plans[p].status \in Statuses
               /\ plans[p].score \in Nat
    <3>1. plans[p] \in PlanRow
      BY DEF TypeInv, TablesOK
    <3>2. QED
      BY <3>1 DEF PlanRow, TypeInv, TablesOK
  <2>3. ASSUME NEW r \in Runs
        PROVE  /\ run[r].mode \in Modes
               /\ run[r].todo \in Seq(Suggestion)
               /\ run[r].passed \subseteq DOMAIN plans
    BY RunFields DEF LocalsOK
  <2>4. QED
    BY <2>1, <2>2, <2>3 DEF TypeInv, TablesOK, ControlOK, TypeOK
<1>2. QED
  BY <1>1, InitTypeInv, TypeInvNext, PTL DEF Spec

(* A plan the graph puts to a manager was valid when its approval was          *)
(* requested: the run reaches the insertion only from a validation that the    *)
(* plan passed, and the row keeps what that validation found.                 *)
THEOREM ApprovedPlansHeld == Spec => []OfferedPlansHold
<1>1. TypeInv => OfferedPlansHold
  BY DEF TypeInv
<1>2. QED
  BY <1>1, InitTypeInv, TypeInvNext, PTL DEF Spec

-----------------------------------------------------------------------------
(* The gate offers the best of the rules' plans that passed. *)

(* No step changes what a stored plan is ranked by. *)
ScoresKept ==
  \A p \in DOMAIN plans : /\ p \in DOMAIN plans'
                          /\ plans'[p].rules = plans[p].rules
                          /\ plans'[p].score = plans[p].score

LEMMA InitGateInv == Init => GateInv
<1> SUFFICES ASSUME Init PROVE GateInv
  OBVIOUS
<1>1. ASSUME NEW r \in Runs PROVE FewRules(r) /\ HoldsBest(r) /\ OffersBest(r)
  <2>1. pc[r] = "start" /\ run[r] = NoRun
    BY DEF Init
  <2>2. Len(run[r].stored) + Len(run[r].todo) <= 2
    BY <2>1 DEF NoRun
  <2>3. QED
    BY <2>1, <2>2 DEF FewRules, HoldsBest, OffersBest
<1>2. QED
  BY <1>1, InitTypeInv DEF GateInv

LEMMA GateFrame ==
  ASSUME GateInv, TypeInv', NEW r \in Runs, Moves(r), ScoresKept,
         FewRules(r)', HoldsBest(r)', OffersBest(r)'
  PROVE  GateInv'
<1> SUFFICES ASSUME NEW q \in Runs, q # r
             PROVE  FewRules(q)' /\ HoldsBest(q)' /\ OffersBest(q)'
  BY DEF GateInv
<1>1. pc'[q] = pc[q] /\ run'[q] = run[q]
  BY DEF GateInv, TypeInv, ControlOK, Moves
<1>2. /\ Stored(q) \subseteq DOMAIN plans /\ run[q].passed \subseteq Stored(q)
      /\ Stored(q)' = Stored(q)
      /\ FewRules(q) /\ HoldsBest(q) /\ OffersBest(q)
  BY <1>1, RunFields DEF GateInv, LocalsOK, Stored
<1>3. FewRules(q)'
  BY <1>1, <1>2 DEF FewRules, ScoresKept
<1>4. HoldsBest(q)'
  BY <1>1, <1>2 DEF HoldsBest, ScoresKept
<1>5. OffersBest(q)'
  BY <1>1, <1>2 DEF OffersBest, ScoresKept
<1>6. QED
  BY <1>3, <1>4, <1>5

LEMMA FewRulesKept ==
  ASSUME GateInv, NEW r \in Runs, ScoresKept,
         run'[r].todo = run[r].todo, run'[r].stored = run[r].stored
  PROVE  FewRules(r)'
<1>1. /\ Stored(r) \subseteq DOMAIN plans /\ Stored(r)' = Stored(r) /\ FewRules(r)
  BY RunFields DEF GateInv, LocalsOK, Stored
<1>2. QED
  BY <1>1 DEF FewRules, ScoresKept

(* A run that ends holds nothing. *)
LEMMA IdleGate ==
  ASSUME NEW r \in Runs, run'[r] = NoRun, pc'[r] \notin {"check", "request"}
  PROVE  FewRules(r)' /\ HoldsBest(r)' /\ OffersBest(r)'
<1>1. Len(run'[r].stored) + Len(run'[r].todo) <= 2
  BY DEF NoRun
<1>2. QED
  BY <1>1 DEF FewRules, HoldsBest, OffersBest

(* A step of r that neither stores nor suggests, away from the gate. *)
LEMMA QuietGate ==
  ASSUME GateInv, TypeInv', NEW r \in Runs, Moves(r), ScoresKept,
         run'[r].todo = run[r].todo, run'[r].stored = run[r].stored,
         pc'[r] \notin {"check", "request"}
  PROVE  GateInv'
<1>1. HoldsBest(r)' /\ OffersBest(r)'
  BY DEF HoldsBest, OffersBest
<1>2. QED
  BY <1>1, FewRulesKept, GateFrame

LEMMA InjectScenarioGate ==
  ASSUME GateInv, TypeInv', NEW r \in Runs, NEW scenario \in Scenarios,
         InjectScenario(r, scenario)
  PROVE  GateInv'
<1>1. /\ Moves(r) /\ pc'[r] = "register"
      /\ run'[r] = [NoRun EXCEPT !.mode = "scenario", !.incident = Len(incidents) + 1]
      /\ plans' = plans
  BY StepMoves DEF InjectScenario, GateInv, TypeInv, ControlOK, Step, Moves
<1>2. Len(incidents) + 1 \in Nat
  <2>1. incidents \in Seq(IncidentRow)
    BY DEF GateInv, TypeInv, TablesOK
  <2>2. QED
    BY <2>1
<1>3. run'[r].todo = <<>> /\ run'[r].stored = <<>>
  <2>1. run'[r] = [mode |-> "scenario", incident |-> Len(incidents) + 1,
                   analysed |-> 0, todo |-> <<>>, valid |-> TRUE, stored |-> <<>>,
                   checked |-> 0, passed |-> {}, selected |-> 0]
    BY <1>1, <1>2, InjectedRun
  <2>2. QED
    BY <2>1
<1>4. FewRules(r)' /\ HoldsBest(r)' /\ OffersBest(r)'
  <2>1. Len(run'[r].stored) + Len(run'[r].todo) <= 2
    BY <1>3
  <2>2. QED
    BY <1>1, <2>1 DEF FewRules, HoldsBest, OffersBest
<1>5. ScoresKept
  BY <1>1 DEF ScoresKept
<1>6. QED
  BY <1>1, <1>4, <1>5, GateFrame

LEMMA RegisterIncidentGate ==
  ASSUME GateInv, TypeInv', NEW r \in Runs,
         RegisterIncident(r, "start") \/ RegisterIncident(r, "register")
  PROVE  GateInv'
<1> DEFINE i   == Len(incidents) + 1
           new == IF run[r].mode = "graph" THEN i ELSE run[r].incident
<1>1. /\ Moves(r) /\ pc'[r] = "analyze" /\ plans' = plans
      /\ run'[r] = [run[r] EXCEPT !.analysed = i, !.incident = new]
  BY DEF RegisterIncident, GateInv, TypeInv, ControlOK, Step, Moves
<1> HIDE DEF i, new
<1>2. run[r] \in RunState
  BY RunFields DEF GateInv
<1>3. run'[r].todo = run[r].todo /\ run'[r].stored = run[r].stored
  BY <1>1, <1>2 DEF RunState
<1>4. ScoresKept
  BY <1>1 DEF ScoresKept
<1>5. QED
  BY <1>1, <1>3, <1>4, QuietGate

LEMMA AnalyzeGate ==
  ASSUME GateInv, TypeInv', NEW r \in Runs, Analyze(r)
  PROVE  GateInv'
<1>1. /\ Moves(r) /\ pc'[r] = "suggest" /\ run'[r] = run[r] /\ plans' = plans
  BY AnalysisOK DEF GateInv
<1>2. ScoresKept
  BY <1>1 DEF ScoresKept
<1>3. QED
  BY <1>1, <1>2, QuietGate

LEMMA SuggestGate ==
  ASSUME GateInv, TypeInv', NEW r \in Runs, Suggest(r)
  PROVE  GateInv'
<1> DEFINE a == incidents[run[r].incident].analysis
<1>1. /\ Moves(r) /\ pc[r] = "suggest" /\ pc'[r] = "validate"
      /\ a \in Analysis /\ UNCHANGED tables
  BY TodoSuggested DEF GateInv
<1>2. PICK todo \in ModelSuggestions \cup {Suggestions(links, a)} :
        /\ run'[r] = [run[r] EXCEPT !.todo = todo]
        /\ todo \in Seq(Suggestion)
  BY TodoSuggested DEF GateInv
<1> HIDE DEF a
<1>3. run[r] \in RunState /\ run[r].stored = <<>>
  BY <1>1, RunFields DEF GateInv, LocalsOK, Preparing
<1>4. run'[r].todo = todo /\ run'[r].stored = <<>>
  BY <1>2, <1>3 DEF RunState
<1>5. Stored(r)' = {}
  BY <1>4 DEF Stored
<1>6. FewRules(r)'
  <2>1. CASE todo \in ModelSuggestions
    <3>1. \A i \in DOMAIN todo : ~todo[i].rules
      BY <2>1, PipelineAssumption
    <3>2. QED
      BY <1>4, <1>5, <3>1 DEF FewRules
  <2>2. CASE todo = Suggestions(links, a)
    <3>1. Len(todo) <= 2 /\ Len(todo) \in Nat
      <4>1. links \in [Suppliers -> Link] /\ Absent \notin Suppliers
        BY PipelineAssumption DEF GateInv, TypeInv, TablesOK
      <4>2. Len(Suggestions(links, a)) <= 2
        BY <1>1, <4>1, SuggestionsOK
      <4>3. QED
        BY <1>2, <2>2, <4>2
    <3>2. Len(run'[r].stored) + Len(run'[r].todo) <= 2
      BY <1>4, <3>1
    <3>3. QED
      BY <3>2 DEF FewRules
  <2>3. QED
    BY <1>2, <2>1, <2>2
<1>7. HoldsBest(r)' /\ OffersBest(r)'
  BY <1>1 DEF HoldsBest, OffersBest
<1>8. ScoresKept
  BY <1>1 DEF ScoresKept, tables
<1>9. QED
  BY <1>1, <1>6, <1>7, <1>8, GateFrame

LEMMA ValidateSuggestionGate ==
  ASSUME GateInv, TypeInv', NEW r \in Runs, ValidateSuggestion(r)
  PROVE  GateInv'
<1> DEFINE valid == PlanValid(links, stock, Head(run[r].todo))
<1>1. /\ Moves(r) /\ pc'[r] = "store" /\ plans' = plans
      /\ run'[r] = [run[r] EXCEPT !.valid = valid]
  BY DEF ValidateSuggestion, tables, Step, Moves, GateInv, TypeInv, ControlOK
<1> HIDE DEF valid
<1>2. run[r] \in RunState
  BY RunFields DEF GateInv
<1>3. run'[r].todo = run[r].todo /\ run'[r].stored = run[r].stored
  BY <1>1, <1>2 DEF RunState
<1>4. ScoresKept
  BY <1>1 DEF ScoresKept
<1>5. QED
  BY <1>1, <1>3, <1>4, QuietGate

LEMMA StorePlanGate ==
  ASSUME GateInv, TypeInv', NEW r \in Runs, StorePlan(r)
  PROVE  GateInv'
<1> DEFINE n == Len(plans) + 1
           s == Head(run[r].todo)
           p == NewPlan(run[r].incident, s, run[r].valid)
<1>1. /\ Moves(r) /\ pc'[r] = "validate"
      /\ s = run[r].todo[1] /\ 1 \in DOMAIN run[r].todo
      /\ Len(run'[r].todo) = Len(run[r].todo) - 1 /\ Len(run[r].todo) \in Nat
      /\ \A i \in DOMAIN run'[r].todo : /\ i + 1 \in DOMAIN run[r].todo
                                         /\ run'[r].todo[i] = run[r].todo[i + 1]
      /\ Len(run'[r].stored) = Len(run[r].stored) + 1 /\ Len(run[r].stored) \in Nat
      /\ Stored(r)' = Stored(r) \cup {n}
      /\ DOMAIN plans' = DOMAIN plans \cup {n} /\ plans'[n] = p
      /\ \A q \in DOMAIN plans : plans'[q] = plans[q]
  BY PlanStored DEF GateInv
<1>2. p.rules = s.rules
  BY DEF NewPlan
<1> HIDE DEF n, s, p
<1>3. Stored(r) \subseteq DOMAIN plans /\ FewRules(r)
  BY RunFields DEF GateInv, LocalsOK
<1>4. FewRules(r)'
  <2>1. CASE /\ \A q \in Stored(r) : ~plans[q].rules
             /\ \A i \in DOMAIN run[r].todo : ~run[r].todo[i].rules
    <3>1. \A q \in Stored(r)' : ~plans'[q].rules
      BY <1>1, <1>2, <1>3, <2>1
    <3>2. \A i \in DOMAIN run'[r].todo : ~run'[r].todo[i].rules
      BY <1>1, <2>1
    <3>3. QED
      BY <3>1, <3>2 DEF FewRules
  <2>2. CASE Len(run[r].stored) + Len(run[r].todo) <= 2
    <3>1. Len(run'[r].stored) + Len(run'[r].todo) <= 2
      <4>1. \A m, k \in Nat : m + k <= 2 => (m + 1) + (k - 1) <= 2
        OBVIOUS
      <4>2. (Len(run[r].stored) + 1) + (Len(run[r].todo) - 1) <= 2
        BY <1>1, <2>2, <4>1, Zenon
      <4>3. QED
        BY <1>1, <4>2, Zenon
    <3>2. QED
      BY <3>1 DEF FewRules
  <2>3. QED
    BY <1>3, <2>1, <2>2 DEF FewRules
<1>5. HoldsBest(r)' /\ OffersBest(r)'
  BY <1>1 DEF HoldsBest, OffersBest
<1>6. ScoresKept
  BY <1>1 DEF ScoresKept
<1>7. QED
  BY <1>1, <1>4, <1>5, <1>6, GateFrame

LEMMA EndRecoveryGate ==
  ASSUME GateInv, TypeInv', NEW r \in Runs, EndRecovery(r)
  PROVE  GateInv'
<1>1. /\ Moves(r) /\ pc'[r] = "check" /\ run[r].stored # <<>>
      /\ run'[r].todo = run[r].todo /\ run'[r].stored = run[r].stored
      /\ run'[r].selected = Best(run[r].stored)
      /\ Stored(r)' = Stored(r) /\ UNCHANGED tables
  BY RecoveryEnds DEF GateInv
<1>2. plans' = plans
  BY <1>1 DEF tables
<1>3. HoldsBest(r)'
  BY <1>1, <1>2, BestOK DEF GateInv, HoldsBest
<1>4. ScoresKept
  BY <1>2 DEF ScoresKept
<1>5. FewRules(r)' /\ OffersBest(r)'
  BY <1>1, <1>4, FewRulesKept DEF OffersBest
<1>6. QED
  BY <1>1, <1>3, <1>4, <1>5, GateFrame

LEMMA SelectPlanGate ==
  ASSUME GateInv, TypeInv', NEW r \in Runs, SelectPlan(r)
  PROVE  GateInv'
<1>1. /\ Moves(r) /\ pc'[r] = "offer"
      /\ run'[r].todo = run[r].todo /\ run'[r].stored = run[r].stored
      /\ DOMAIN plans' = DOMAIN plans
      /\ \A p \in DOMAIN plans : /\ plans'[p].rules = plans[p].rules
                                  /\ plans'[p].score = plans[p].score
  BY BestSelected DEF GateInv
<1>2. ScoresKept
  BY <1>1 DEF ScoresKept
<1>3. QED
  BY <1>1, <1>2, QuietGate

LEMMA CheckPlanGate ==
  ASSUME GateInv, TypeInv', NEW r \in Runs, CheckPlan(r)
  PROVE  GateInv'
<1>1. /\ Moves(r) /\ pc[r] = "check" /\ pc'[r] = "check"
      /\ run'[r].todo = run[r].todo /\ run'[r].stored = run[r].stored
      /\ run'[r].selected = run[r].selected
      /\ Stored(r)' = Stored(r) /\ UNCHANGED tables
  BY PlanChecked DEF GateInv
<1>2. plans' = plans
  BY <1>1 DEF tables
<1>3. HoldsBest(r)'
  BY <1>1, <1>2 DEF GateInv, HoldsBest
<1>4. ScoresKept
  BY <1>2 DEF ScoresKept
<1>5. FewRules(r)' /\ OffersBest(r)'
  BY <1>1, <1>4, FewRulesKept DEF OffersBest
<1>6. QED
  BY <1>1, <1>3, <1>4, <1>5, GateFrame

(* If the selected plan failed and another passed, the rules made two plans   *)
(* at most, and the one that passed is the one offered.                      *)
LEMMA ApprovalGateGate ==
  ASSUME GateInv, TypeInv', NEW r \in Runs, ApprovalGate(r)
  PROVE  GateInv'
<1>1. /\ Moves(r) /\ pc[r] = "check" /\ pc'[r] = "request"
      /\ run'[r].todo = run[r].todo /\ run'[r].stored = run[r].stored
      /\ run'[r].passed = run[r].passed
      /\ run'[r].selected \in run[r].passed
      /\ run[r].selected \in run[r].passed => run'[r].selected = run[r].selected
      /\ UNCHANGED tables
  BY GateChooses DEF GateInv
<1>2. plans' = plans
  BY <1>1 DEF tables
<1>3. /\ run[r].passed \subseteq Stored(r) /\ run[r].stored \in Seq(Nat)
      /\ run[r].todo \in Seq(Suggestion) /\ Stored(r) \subseteq DOMAIN plans
      /\ FewRules(r) /\ HoldsBest(r)
  BY RunFields DEF GateInv, LocalsOK
<1>4. \A p \in DOMAIN plans : plans[p].score \in Nat
  <2>1. \A p \in DOMAIN plans : plans[p] \in PlanRow
    BY DEF GateInv, TypeInv, TablesOK
  <2>2. QED
    BY <2>1 DEF PlanRow
<1>5. ASSUME NEW p \in run[r].passed, plans[p].rules
      PROVE  plans[p].score <= plans[run'[r].selected].score
  <2>1. CASE run[r].selected \in run[r].passed
    BY <1>1, <1>3, <2>1 DEF HoldsBest
  <2>2. CASE run[r].selected \notin run[r].passed
    <3>1. Len(run[r].stored) + Len(run[r].todo) <= 2
      BY <1>3, <1>5 DEF FewRules
    <3>2. Len(run[r].stored) <= 2 /\ DOMAIN run[r].stored = 1..Len(run[r].stored)
      <4>1. /\ Len(run[r].stored) \in Nat /\ Len(run[r].todo) \in Nat
            /\ DOMAIN run[r].stored = 1..Len(run[r].stored)
        BY <1>3
      <4>2. \A m, k \in Nat : m + k <= 2 => m <= 2
        OBVIOUS
      <4>3. QED
        BY <3>1, <4>1, <4>2, Zenon
    <3>3. p \in Stored(r) /\ run[r].selected \in Stored(r) /\ run'[r].selected \in Stored(r)
      BY <1>1, <1>3 DEF HoldsBest
    <3>4. \A q \in Stored(r) : q = run[r].stored[1] \/ q = run[r].stored[2]
      <4>1. Len(run[r].stored) \in Nat
        BY <1>3
      <4>2. \A i \in DOMAIN run[r].stored : i = 1 \/ i = 2
        BY <3>2, <4>1
      <4>3. QED
        BY <4>2 DEF Stored
    <3>5. p = run'[r].selected
      BY <1>1, <2>2, <3>3, <3>4
    <3>6. QED
      BY <1>3, <1>4, <3>3, <3>5
  <2>3. QED
    BY <2>1, <2>2
<1>6. OffersBest(r)'
  BY <1>1, <1>2, <1>5 DEF OffersBest
<1>7. ScoresKept
  BY <1>2 DEF ScoresKept
<1>8. FewRules(r)' /\ HoldsBest(r)'
  BY <1>1, <1>7, FewRulesKept DEF HoldsBest
<1>9. QED
  BY <1>1, <1>6, <1>7, <1>8, GateFrame

LEMMA EndingGate ==
  ASSUME GateInv, TypeInv', NEW r \in Runs, BlockRun(r) \/ MarkIncident(r)
  PROVE  GateInv'
<1>1. Moves(r) /\ pc'[r] = "done" /\ run'[r] = NoRun /\ plans' = plans
  BY DEF BlockRun, MarkIncident, tables, Step, Moves, GateInv, TypeInv, ControlOK
<1>2. ScoresKept
  BY <1>1 DEF ScoresKept
<1>3. QED
  BY <1>1, <1>2, IdleGate, GateFrame

LEMMA RequestPlanApprovalGate ==
  ASSUME GateInv, TypeInv', NEW r \in Runs, RequestPlanApproval(r)
  PROVE  GateInv'
<1>1. Moves(r) /\ UNCHANGED tables
  BY RequestSplits DEF GateInv
<1>2. ScoresKept
  BY <1>1 DEF ScoresKept, tables
<1>3. CASE pc'[r] = "done" /\ run'[r] = NoRun
  BY <1>1, <1>2, <1>3, IdleGate, GateFrame
<1>4. CASE pc'[r] = "insert" /\ run'[r].todo = run[r].todo /\ run'[r].stored = run[r].stored
  BY <1>1, <1>2, <1>4, QuietGate
<1>5. QED
  BY <1>3, <1>4, RequestSplits DEF GateInv

LEMMA InsertApprovalGate ==
  ASSUME GateInv, TypeInv', NEW r \in Runs, InsertApproval(r)
  PROVE  GateInv'
<1>1. Moves(r) /\ plans' = plans
  BY ApprovalInserted DEF GateInv
<1>2. ScoresKept
  BY <1>1 DEF ScoresKept
<1>3. CASE pc'[r] = "done" /\ run'[r] = NoRun
  BY <1>1, <1>2, <1>3, IdleGate, GateFrame
<1>4. CASE pc'[r] = "finish" /\ run'[r] = run[r]
  BY <1>1, <1>2, <1>4, QuietGate
<1>5. QED
  BY <1>3, <1>4, ApprovalInserted DEF GateInv

LEMMA OfferTopPlanGate ==
  ASSUME GateInv, TypeInv', NEW r \in Runs, OfferTopPlan(r)
  PROVE  GateInv'
<1>1. /\ Moves(r) /\ pc'[r] = "insert"
      /\ run'[r].todo = run[r].todo /\ run'[r].stored = run[r].stored
      /\ UNCHANGED tables
  BY TopPlanOffered DEF GateInv
<1>2. ScoresKept
  BY <1>1 DEF ScoresKept, tables
<1>3. QED
  BY <1>1, <1>2, QuietGate

LEMMA GateInvNext == GateInv /\ [Next]_vars => GateInv'
<1> SUFFICES ASSUME GateInv, [Next]_vars PROVE GateInv'
  OBVIOUS
<1>0. TypeInv'
  BY TypeInvNext DEF GateInv
<1>1. CASE ResetScenario \/ UNCHANGED vars
  <2>1. plans' = plans /\ pc' = pc /\ run' = run
    BY <1>1 DEF ResetScenario, vars, tables
  <2>2. \A r \in Runs : Stored(r)' = Stored(r)
    BY <2>1 DEF Stored
  <2>3. QED
    BY <1>0, <2>1, <2>2 DEF GateInv, FewRules, HoldsBest, OffersBest
<1>2. ASSUME NEW r \in Runs, NEW scenario \in Scenarios, InjectScenario(r, scenario)
      PROVE  GateInv'
  BY <1>0, <1>2, InjectScenarioGate
<1>3. ASSUME NEW r \in Runs,
             RegisterIncident(r, "start") \/ RegisterIncident(r, "register")
      PROVE  GateInv'
  BY <1>0, <1>3, RegisterIncidentGate
<1>4. ASSUME NEW r \in Runs, Analyze(r) PROVE GateInv'
  BY <1>0, <1>4, AnalyzeGate
<1>5. ASSUME NEW r \in Runs, Suggest(r) PROVE GateInv'
  BY <1>0, <1>5, SuggestGate
<1>6. ASSUME NEW r \in Runs, ValidateSuggestion(r) PROVE GateInv'
  BY <1>0, <1>6, ValidateSuggestionGate
<1>7. ASSUME NEW r \in Runs, StorePlan(r) PROVE GateInv'
  BY <1>0, <1>7, StorePlanGate
<1>8. ASSUME NEW r \in Runs, EndRecovery(r) PROVE GateInv'
  BY <1>0, <1>8, EndRecoveryGate
<1>9. ASSUME NEW r \in Runs, SelectPlan(r) PROVE GateInv'
  BY <1>0, <1>9, SelectPlanGate
<1>10. ASSUME NEW r \in Runs, CheckPlan(r) PROVE GateInv'
  BY <1>0, <1>10, CheckPlanGate
<1>11. ASSUME NEW r \in Runs, ApprovalGate(r) PROVE GateInv'
  BY <1>0, <1>11, ApprovalGateGate
<1>12. ASSUME NEW r \in Runs, BlockRun(r) \/ MarkIncident(r) PROVE GateInv'
  BY <1>0, <1>12, EndingGate
<1>13. ASSUME NEW r \in Runs, RequestPlanApproval(r) PROVE GateInv'
  BY <1>0, <1>13, RequestPlanApprovalGate
<1>14. ASSUME NEW r \in Runs, InsertApproval(r) PROVE GateInv'
  BY <1>0, <1>14, InsertApprovalGate
<1>15. ASSUME NEW r \in Runs, OfferTopPlan(r) PROVE GateInv'
  BY <1>0, <1>15, OfferTopPlanGate
<1>16. QED
  BY <1>1, <1>2, <1>3, <1>4, <1>5, <1>6, <1>7, <1>8, <1>9, <1>10, <1>11, <1>12,
     <1>13, <1>14, <1>15 DEF Next

(* The plan the gate requests approval for passed the validation node, and of  *)
(* the plans the rules made none that passed scores higher, also when the      *)
(* selected one failed: the rules make two plans at most, so that then one is  *)
(* left.                                                                      *)
THEOREM GateOffersTheBest == Spec => []GateOffersBest
<1>1. GateInv => GateOffersBest
  BY DEF GateInv, GateOffersBest, OffersBest
<1>2. QED
  BY <1>1, InitGateInv, GateInvNext, PTL DEF Spec

-----------------------------------------------------------------------------
(* What the steps of a run leave as it is, and whose an incident is. *)

(* No plan is deleted, and only its status may change, to SELECTED. *)
PlansKept ==
  /\ DOMAIN plans' = DOMAIN plans
  /\ \A p \in DOMAIN plans :
       /\ plans'[p].incident = plans[p].incident
       /\ plans'[p].rules = plans[p].rules
       /\ plans'[p].supplier = plans[p].supplier
       /\ plans'[p].quantity = plans[p].quantity
       /\ plans'[p].allocations = plans[p].allocations
       /\ plans'[p].score = plans[p].score
       /\ plans'[p].status \in {plans[p].status, "SELECTED"}

AnalysesKept ==
  /\ DOMAIN incidents' = DOMAIN incidents
  /\ \A i \in DOMAIN incidents : incidents'[i].analysis = incidents[i].analysis

(* A step after the analysis that neither suggests nor stores a plan. *)
Quiet(r) ==
  /\ Moves(r) /\ PlansKept /\ AnalysesKept /\ links' = links
  /\ pc'[r] \notin Preparing
  /\ \/ run'[r] = NoRun
     \/ /\ run'[r].todo = run[r].todo
        /\ run'[r].incident = run[r].incident
        /\ run'[r].analysed = run[r].analysed
  /\ pc'[r] = "store" /\ Internal(Head(run'[r].todo)) => run'[r].valid

LEMMA SamePlans ==
  ASSUME plans' = plans PROVE PlansKept
BY DEF PlansKept

LEMMA SameTables ==
  ASSUME UNCHANGED tables
  PROVE  PlansKept /\ AnalysesKept /\ links' = links
BY SamePlans DEF tables, AnalysesKept

LEMMA QuietSteps ==
  ASSUME TypeInv, NEW r \in Runs,
         \/ ValidateSuggestion(r) \/ EndRecovery(r) \/ SelectPlan(r) \/ CheckPlan(r)
         \/ ApprovalGate(r) \/ BlockRun(r) \/ RequestPlanApproval(r)
         \/ InsertApproval(r) \/ OfferTopPlan(r) \/ MarkIncident(r)
  PROVE  Quiet(r)
<1>1. CASE ValidateSuggestion(r)
  <2> DEFINE valid == PlanValid(links, stock, Head(run[r].todo))
  <2>1. /\ Moves(r) /\ pc'[r] = "store" /\ UNCHANGED tables
        /\ run'[r] = [run[r] EXCEPT !.valid = valid]
    BY <1>1 DEF ValidateSuggestion, Step, Moves, TypeInv, ControlOK
  <2>2. Internal(Head(run[r].todo)) => valid
    BY InternalIsValid
  <2>3. run[r] \in RunState /\ valid \in BOOLEAN
    BY RunFields DEF PlanValid
  <2> HIDE DEF valid
  <2>4. /\ run'[r].todo = run[r].todo /\ run'[r].incident = run[r].incident
        /\ run'[r].analysed = run[r].analysed /\ run'[r].valid = valid
    BY <2>1, <2>3 DEF RunState
  <2>5. pc'[r] \notin Preparing
    BY <2>1 DEF Preparing
  <2>6. Internal(Head(run'[r].todo)) => run'[r].valid
    BY <2>2, <2>4
  <2>7. QED
    BY <2>1, <2>4, <2>5, <2>6, SameTables DEF Quiet
<1>2. CASE EndRecovery(r)
  BY <1>2, RecoveryEnds, SameTables DEF Quiet, Preparing
<1>3. CASE SelectPlan(r)
  <2>1. PlansKept
    BY <1>3, BestSelected DEF PlansKept
  <2>2. AnalysesKept
    BY <1>3, BestSelected DEF AnalysesKept
  <2>3. /\ Moves(r) /\ pc'[r] = "offer" /\ links' = links
        /\ run'[r].todo = run[r].todo /\ run'[r].incident = run[r].incident
        /\ run'[r].analysed = run[r].analysed
    BY <1>3, BestSelected
  <2>4. QED
    BY <2>1, <2>2, <2>3 DEF Quiet, Preparing
<1>4. CASE CheckPlan(r)
  BY <1>4, PlanChecked, SameTables DEF Quiet, Preparing
<1>5. CASE ApprovalGate(r)
  BY <1>5, GateChooses, SameTables DEF Quiet, Preparing
<1>6. CASE BlockRun(r)
  <2>1. Moves(r) /\ pc'[r] = "done" /\ run'[r] = NoRun /\ UNCHANGED tables
    BY <1>6 DEF BlockRun, Step, Moves, TypeInv, ControlOK
  <2>2. QED
    BY <2>1, SameTables DEF Quiet, Preparing
<1>7. CASE RequestPlanApproval(r)
  <2>1. /\ Moves(r) /\ UNCHANGED tables
        /\ pc'[r] \in {"done", "insert"}
        /\ \/ run'[r] = NoRun
           \/ /\ run'[r].todo = run[r].todo /\ run'[r].incident = run[r].incident
              /\ run'[r].analysed = run[r].analysed
    BY <1>7, RequestSplits
  <2>2. QED
    BY <2>1, SameTables DEF Quiet, Preparing
<1>8. CASE InsertApproval(r)
  <2>1. /\ Moves(r) /\ UNCHANGED <<links, stock, incidents, plans>>
        /\ pc'[r] \in {"done", "finish"}
        /\ run'[r] = NoRun \/ run'[r] = run[r]
    BY <1>8, ApprovalInserted
  <2>2. QED
    BY <2>1, SamePlans DEF Quiet, Preparing, AnalysesKept
<1>9. CASE OfferTopPlan(r)
  BY <1>9, TopPlanOffered, SameTables DEF Quiet, Preparing
<1>10. CASE MarkIncident(r)
  <2>1. /\ Moves(r) /\ pc'[r] = "done" /\ run'[r] = NoRun
        /\ DOMAIN incidents' = DOMAIN incidents
        /\ \A i \in DOMAIN incidents : incidents'[i].analysis = incidents[i].analysis
        /\ UNCHANGED <<links, stock, plans, approvals>>
    BY <1>10, IncidentMarked
  <2>2. QED
    BY <2>1, SamePlans DEF Quiet, Preparing, AnalysesKept
<1>11. QED
  BY <1>1, <1>2, <1>3, <1>4, <1>5, <1>6, <1>7, <1>8, <1>9, <1>10

(* A certificate that expires or is restored is all that changes of a link. *)
StockKept ==
  /\ links' \in [Suppliers -> Link]
  /\ \A s \in Suppliers : links'[s].available = links[s].available

LEMMA InjectedIncident ==
  ASSUME TypeInv, NEW r \in Runs, NEW scenario \in Scenarios,
         InjectScenario(r, scenario)
  PROVE  LET i == Len(incidents) + 1
         IN /\ Moves(r) /\ pc'[r] = "register" /\ run'[r].incident = i
            /\ run'[r].analysed = 0 /\ run'[r].todo = <<>>
            /\ DOMAIN incidents \subseteq DOMAIN incidents'
            /\ i \in DOMAIN incidents' /\ i \notin DOMAIN incidents /\ i \in Nat
            /\ \A k \in DOMAIN incidents : incidents'[k] = incidents[k]
            /\ plans' = plans /\ StockKept
<1> DEFINE i == Len(incidents) + 1
<1>1. /\ Moves(r) /\ pc'[r] = "register"
      /\ run'[r] = [NoRun EXCEPT !.mode = "scenario", !.incident = i]
      /\ incidents' = Append(incidents, NewIncident)
      /\ UNCHANGED <<plans, approvals>>
  BY DEF InjectScenario, Step, Moves, TypeInv, ControlOK
<1>2. /\ links \in [Suppliers -> Link] /\ ExpiringSupplier \in Suppliers
      /\ links[ExpiringSupplier] \in Link
  BY PipelineAssumption DEF TypeInv, TablesOK
<1>3. /\ [links[ExpiringSupplier] EXCEPT !.certified = FALSE] \in Link
      /\ [links[ExpiringSupplier] EXCEPT !.certified = FALSE].available
           = links[ExpiringSupplier].available
  BY <1>2, CertificateChanged
<1>4. StockKept
  BY <1>2, <1>3 DEF InjectScenario, StockKept
<1>5. stock' \in Snapshot
  BY PipelineAssumption DEF InjectScenario, TypeInv, TablesOK
<1>6. /\ DOMAIN incidents \subseteq DOMAIN incidents'
      /\ i \in DOMAIN incidents' /\ i \notin DOMAIN incidents /\ i \in Nat
      /\ \A k \in DOMAIN incidents : incidents'[k] = incidents[k]
  BY <1>1, <1>4, <1>5, IncidentInserted DEF StockKept
<1>7. run'[r].incident = i /\ run'[r].analysed = 0 /\ run'[r].todo = <<>>
  <2>1. run'[r] = [mode |-> "scenario", incident |-> i,
                   analysed |-> 0, todo |-> <<>>, valid |-> TRUE, stored |-> <<>>,
                   checked |-> 0, passed |-> {}, selected |-> 0]
    BY <1>1, <1>6, InjectedRun
  <2>2. QED
    BY <2>1
<1>8. QED
  BY <1>1, <1>4, <1>6, <1>7

LEMMA RegisteredIncident ==
  ASSUME TypeInv, NEW r \in Runs,
         RegisterIncident(r, "start") \/ RegisterIncident(r, "register")
  PROVE  LET i == Len(incidents) + 1
         IN /\ Moves(r) /\ pc[r] \in {"start", "register"} /\ pc'[r] = "analyze"
            /\ run'[r].incident \in {run[r].incident, i}
            /\ run'[r].analysed = i /\ run'[r].todo = <<>>
            /\ DOMAIN incidents \subseteq DOMAIN incidents'
            /\ i \in DOMAIN incidents' /\ i \notin DOMAIN incidents /\ i \in Nat
            /\ \A k \in DOMAIN incidents : incidents'[k] = incidents[k]
            /\ plans' = plans /\ StockKept
<1> DEFINE i   == Len(incidents) + 1
           new == IF run[r].mode = "graph" THEN i ELSE run[r].incident
<1>1. /\ Moves(r) /\ pc[r] \in {"start", "register"} /\ pc'[r] = "analyze"
      /\ run'[r] = [run[r] EXCEPT !.analysed = i, !.incident = new]
      /\ incidents' = Append(incidents, NewIncident)
      /\ UNCHANGED <<links, stock, plans, approvals>>
  BY DEF RegisterIncident, Step, Moves, TypeInv, ControlOK
<1>2. links' \in [Suppliers -> Link] /\ stock' \in Snapshot /\ StockKept
  BY <1>1 DEF TypeInv, TablesOK, StockKept
<1>3. /\ DOMAIN incidents \subseteq DOMAIN incidents'
      /\ i \in DOMAIN incidents' /\ i \notin DOMAIN incidents /\ i \in Nat
      /\ \A k \in DOMAIN incidents : incidents'[k] = incidents[k]
  BY <1>1, <1>2, IncidentInserted
<1>4. run[r] \in RunState /\ run[r].todo = <<>>
  BY <1>1, RunFields DEF LocalsOK
<1>5. new \in {run[r].incident, i}
  OBVIOUS
<1> HIDE DEF new
<1>6. run'[r].incident = new /\ run'[r].analysed = i /\ run'[r].todo = <<>>
  BY <1>1, <1>3, <1>4 DEF RunState
<1>7. QED
  BY <1>1, <1>2, <1>3, <1>5, <1>6

LEMMA OwnedIncident ==
  ASSUME TypeInv, NEW r \in Runs, pc[r] \notin {"start", "done"}
  PROVE  run[r].incident \in Own(r) /\ run[r].incident \in DOMAIN incidents
<1>1. run[r].incident \in DOMAIN incidents /\ incidents \in Seq(IncidentRow)
  BY RunFields DEF LocalsOK, TypeInv, TablesOK
<1>2. run[r].incident # 0
  BY <1>1
<1>3. QED
  BY <1>1, <1>2 DEF Own

LEMMA OwnershipFrame ==
  ASSUME TypeInv, Ownership, NEW r \in Runs, Moves(r),
         DOMAIN incidents \subseteq DOMAIN incidents',
         Own(r)' \subseteq DOMAIN incidents',
         Own(r)' \cap DOMAIN incidents \subseteq Own(r),
         \A p \in DOMAIN plans' :
           \/ p \in DOMAIN plans /\ plans'[p].incident = plans[p].incident
           \/ plans'[p].incident \in Own(r),
         pc'[r] \in Preparing =>
           \A p \in DOMAIN plans' : plans'[p].incident \notin Own(r)'
  PROVE  Ownership'
<1>1. ASSUME NEW q \in Runs, q # r
      PROVE  pc'[q] = pc[q] /\ Own(q)' = Own(q)
  BY <1>1 DEF TypeInv, ControlOK, Moves, Own
<1>2. ASSUME NEW q \in Runs PROVE Own(q)' \subseteq DOMAIN incidents'
  BY <1>1 DEF Ownership
<1>3. ASSUME NEW p \in Runs, NEW q \in Runs, p # q
      PROVE  Own(p)' \cap Own(q)' = {}
  <2>1. CASE p = r
    BY <1>1, <1>3, <2>1 DEF Ownership
  <2>2. CASE q = r
    BY <1>1, <1>3, <2>2 DEF Ownership
  <2>3. CASE p # r /\ q # r
    BY <1>1, <1>3, <2>3 DEF Ownership
  <2>4. QED
    BY <2>1, <2>2, <2>3
<1>4. ASSUME NEW q \in Runs, pc'[q] \in Preparing, NEW p \in DOMAIN plans'
      PROVE  plans'[p].incident \notin Own(q)'
  <2>1. CASE q = r
    BY <1>4, <2>1
  <2>2. CASE q # r
    BY <1>1, <1>4, <2>2 DEF Ownership
  <2>3. QED
    BY <2>1, <2>2
<1>5. QED
  BY <1>2, <1>3, <1>4 DEF Ownership

LEMMA OwnershipNext == TypeInv /\ Ownership /\ [Next]_vars => Ownership'
<1> SUFFICES ASSUME TypeInv, Ownership, [Next]_vars PROVE Ownership'
  OBVIOUS
<1>0. \A p \in DOMAIN plans : plans[p].incident \in DOMAIN incidents
  BY DEF TypeInv, TablesOK
<1>1. CASE ResetScenario \/ UNCHANGED vars
  <2>1. incidents' = incidents /\ plans' = plans /\ pc' = pc /\ run' = run
    BY <1>1 DEF ResetScenario, vars, tables
  <2>2. QED
    BY <2>1 DEF Ownership, Own
<1>2. ASSUME NEW r \in Runs, NEW scenario \in Scenarios, InjectScenario(r, scenario)
      PROVE  Ownership'
  <2> DEFINE i == Len(incidents) + 1
  <2>1. /\ Moves(r) /\ run'[r].incident = i /\ run'[r].analysed = 0
        /\ DOMAIN incidents \subseteq DOMAIN incidents'
        /\ i \in DOMAIN incidents' /\ i \notin DOMAIN incidents
        /\ plans' = plans
    BY <1>2, InjectedIncident
  <2> HIDE DEF i
  <2>2. Own(r)' \subseteq {i}
    BY <2>1 DEF Own
  <2>3. QED
    BY <1>0, <2>1, <2>2, OwnershipFrame
<1>3. ASSUME NEW r \in Runs,
             RegisterIncident(r, "start") \/ RegisterIncident(r, "register")
      PROVE  Ownership'
  <2> DEFINE i == Len(incidents) + 1
  <2>1. /\ Moves(r) /\ pc[r] \in {"start", "register"}
        /\ run'[r].incident \in {run[r].incident, i} /\ run'[r].analysed = i
        /\ DOMAIN incidents \subseteq DOMAIN incidents'
        /\ i \in DOMAIN incidents' /\ i \notin DOMAIN incidents
        /\ plans' = plans
    BY <1>3, RegisteredIncident
  <2> HIDE DEF i
  <2>2. Own(r)' \subseteq Own(r) \cup {i} /\ Own(r) \subseteq DOMAIN incidents
    BY <2>1 DEF Own, Ownership
  <2>3. ASSUME NEW p \in DOMAIN plans PROVE plans[p].incident \notin Own(r)'
    <3>1. plans[p].incident # i
      BY <1>0, <2>1
    <3>2. plans[p].incident \notin Own(r)
      <4>1. CASE pc[r] = "start"
        <5>1. run[r] = NoRun
          BY <4>1, RunFields DEF LocalsOK
        <5>2. QED
          BY <5>1 DEF Own, NoRun
      <4>2. CASE pc[r] = "register"
        BY <4>2 DEF Ownership, Preparing
      <4>3. QED
        BY <2>1, <4>1, <4>2
    <3>3. QED
      BY <2>2, <3>1, <3>2
  <2>4. QED
    BY <2>1, <2>2, <2>3, OwnershipFrame
<1>4. ASSUME NEW r \in Runs, Analyze(r) PROVE Ownership'
  <2>1. /\ Moves(r) /\ pc[r] = "analyze" /\ run'[r] = run[r] /\ plans' = plans
        /\ DOMAIN incidents' = DOMAIN incidents
    BY <1>4, AnalysisOK, IncidentChanged
  <2>2. Own(r)' = Own(r) /\ Own(r) \subseteq DOMAIN incidents
    BY <2>1 DEF Own, Ownership
  <2>3. \A p \in DOMAIN plans : plans[p].incident \notin Own(r)
    BY <2>1 DEF Ownership, Preparing
  <2>4. QED
    BY <2>1, <2>2, <2>3, OwnershipFrame
<1>5. ASSUME NEW r \in Runs, Suggest(r) PROVE Ownership'
  <2>1. /\ Moves(r) /\ pc'[r] = "validate"
        /\ plans' = plans /\ incidents' = incidents
    BY <1>5, TodoSuggested DEF tables
  <2>2. PICK todo \in Seq(Suggestion) : run'[r] = [run[r] EXCEPT !.todo = todo]
    BY <1>5, TodoSuggested
  <2>3. run[r] \in RunState
    BY RunFields
  <2>4. Own(r)' = Own(r) /\ Own(r) \subseteq DOMAIN incidents
    BY <2>2, <2>3 DEF Own, Ownership, RunState
  <2>5. pc'[r] \notin Preparing
    BY <2>1 DEF Preparing
  <2>6. QED
    BY <2>1, <2>4, <2>5, OwnershipFrame
<1>6. ASSUME NEW r \in Runs, StorePlan(r) PROVE Ownership'
  <2> DEFINE n == Len(plans) + 1
             p == NewPlan(run[r].incident, Head(run[r].todo), run[r].valid)
  <2>1. /\ Moves(r) /\ pc[r] = "store" /\ pc'[r] = "validate"
        /\ incidents' = incidents
        /\ run'[r].incident = run[r].incident /\ run'[r].analysed = run[r].analysed
        /\ DOMAIN plans' = DOMAIN plans \cup {n} /\ plans'[n] = p
        /\ \A q \in DOMAIN plans : plans'[q] = plans[q]
    BY <1>6, PlanStored
  <2>2. p.incident = run[r].incident
    BY DEF NewPlan
  <2> HIDE DEF n, p
  <2>3. Own(r)' = Own(r) /\ Own(r) \subseteq DOMAIN incidents
    BY <2>1 DEF Own, Ownership
  <2>4. run[r].incident \in Own(r)
    BY <2>1, OwnedIncident
  <2>5. pc'[r] \notin Preparing
    BY <2>1 DEF Preparing
  <2>6. QED
    BY <2>1, <2>2, <2>3, <2>4, <2>5, OwnershipFrame
<1>7. ASSUME NEW r \in Runs, Quiet(r) PROVE Ownership'
  <2>1. Own(r)' \subseteq Own(r) /\ Own(r) \subseteq DOMAIN incidents
    BY <1>7 DEF Quiet, Own, Ownership, NoRun
  <2>2. QED
    BY <1>7, <2>1, OwnershipFrame DEF Quiet, PlansKept, AnalysesKept
<1>8. QED
  BY <1>1, <1>2, <1>3, <1>4, <1>5, <1>6, <1>7, QuietSteps DEF Next

-----------------------------------------------------------------------------
(* An invalid plan of the rules ranks below those that are valid. *)

(* What RankInv says of the suggestions a run still has to store. *)
TodoRanks(r) ==
  /\ \A i \in DOMAIN run[r].todo :
       /\ RulesScore(run[r].todo[i])
       /\ Purchase(run[r].todo[i]) =>
            /\ \A j \in DOMAIN run[r].todo : Purchase(run[r].todo[j]) => i = j
            /\ \A p \in DOMAIN plans :
                 Purchase(plans[p]) => plans[p].incident # run[r].incident
  /\ pc[r] = "store" /\ Internal(Head(run[r].todo)) => run[r].valid

PlansRank ==
  /\ \A p, q \in DOMAIN plans :
       /\ plans[p].incident = plans[q].incident
       /\ Purchase(plans[p]) /\ Purchase(plans[q])
       => p = q
  /\ \A p \in DOMAIN plans : PlanScored(plans[p])

LEMMA RankParts ==
  RankInv <=> TypeInv /\ Ownership /\ PlansRank /\ \A r \in Runs : TodoRanks(r)
BY DEF RankInv, OnePurchase, PlansRank, TodoRanks

LEMMA InitRankInv == Init => RankInv
<1> SUFFICES ASSUME Init PROVE RankInv
  OBVIOUS
<1>1. plans = <<>> /\ \A r \in Runs : pc[r] = "start" /\ run[r] = NoRun
  BY DEF Init
<1>2. \A r \in Runs : run[r].todo = <<>> /\ Own(r) = {}
  BY <1>1 DEF NoRun, Own
<1>3. DOMAIN plans = {} /\ \A r \in Runs : DOMAIN run[r].todo = {}
  BY <1>1, <1>2
<1>4. Ownership /\ PlansRank /\ \A r \in Runs : TodoRanks(r)
  BY <1>1, <1>2, <1>3 DEF Ownership, PlansRank, TodoRanks
<1>5. QED
  BY <1>4, InitTypeInv, RankParts

LEMMA KeptPlansRank ==
  ASSUME PlansRank, PlansKept
  PROVE  PlansRank'
<1>1. ASSUME NEW p \in DOMAIN plans
      PROVE  /\ Purchase(plans'[p]) <=> Purchase(plans[p])
             /\ PlanScored(plans'[p])
  <2>1. /\ plans'[p].rules = plans[p].rules /\ plans'[p].supplier = plans[p].supplier
        /\ plans'[p].allocations = plans[p].allocations
        /\ plans'[p].score = plans[p].score
        /\ plans'[p].status \in {plans[p].status, "SELECTED"}
    BY DEF PlansKept
  <2>2. PlanScored(plans[p])
    BY DEF PlansRank
  <2>3. QED
    BY <2>1, <2>2 DEF Purchase, PlanScored, Internal
<1>2. QED
  BY <1>1 DEF PlansRank, PlansKept

(* Another run's suggestions are not concerned by a step that keeps the plans. *)
LEMMA KeptTodoRanks ==
  ASSUME TypeInv, NEW q \in Runs, TodoRanks(q), PlansKept,
         run'[q].todo = run[q].todo, run'[q].incident = run[q].incident,
         pc'[q] = "store" /\ Internal(Head(run'[q].todo)) => run'[q].valid
  PROVE  TodoRanks(q)'
<1>1. \A p \in DOMAIN plans :
        /\ Purchase(plans'[p]) <=> Purchase(plans[p])
        /\ plans'[p].incident = plans[p].incident
  BY DEF PlansKept, Purchase
<1>2. QED
  BY <1>1 DEF TodoRanks, PlansKept

LEMMA NoTodoRanks ==
  ASSUME NEW r \in Runs, run'[r].todo = <<>>, pc'[r] # "store"
  PROVE  TodoRanks(r)'
<1>1. DOMAIN run'[r].todo = {}
  OBVIOUS
<1>2. QED
  BY <1>1 DEF TodoRanks

LEMMA RankFrame ==
  ASSUME RankInv, TypeInv', Ownership', NEW r \in Runs, Moves(r), PlansKept,
         TodoRanks(r)'
  PROVE  RankInv'
<1>1. PlansRank'
  BY KeptPlansRank, RankParts
<1>2. ASSUME NEW q \in Runs, q # r PROVE TodoRanks(q)'
  <2>1. pc'[q] = pc[q] /\ run'[q] = run[q] /\ TodoRanks(q) /\ TypeInv
    BY <1>2, RankParts DEF TypeInv, ControlOK, Moves
  <2>2. pc'[q] = "store" /\ Internal(Head(run'[q].todo)) => run'[q].valid
    BY <2>1 DEF TodoRanks
  <2>3. QED
    BY <2>1, <2>2, KeptTodoRanks
<1>3. TypeInv' /\ Ownership' /\ PlansRank' /\ \A q \in Runs : TodoRanks(q)'
  BY <1>1, <1>2
<1>4. QED
  BY <1>3 DEF RankInv, OnePurchase, PlansRank, TodoRanks

LEMMA QuietRank ==
  ASSUME RankInv, TypeInv', Ownership', NEW r \in Runs, Quiet(r)
  PROVE  RankInv'
<1>1. TypeInv /\ TodoRanks(r)
  BY RankParts
<1>2. CASE run'[r] = NoRun
  <2>1. pc'[r] # "store"
    <3>1. LocalsOK(r)'
      BY DEF TypeInv
    <3>2. QED
      BY <1>2, <3>1 DEF LocalsOK, NoRun
  <2>2. QED
    BY <1>2, <2>1, NoTodoRanks, RankFrame DEF NoRun, Quiet
<1>3. CASE run'[r].todo = run[r].todo /\ run'[r].incident = run[r].incident
  BY <1>1, <1>3, KeptTodoRanks, RankFrame DEF Quiet
<1>4. QED
  BY <1>2, <1>3 DEF Quiet

(* The rules suggest for an incident that has no plan yet. *)
LEMMA SuggestRank ==
  ASSUME RankInv, TypeInv', Ownership', NEW r \in Runs, Suggest(r)
  PROVE  RankInv'
<1> DEFINE a == incidents[run[r].incident].analysis
<1>0. TypeInv /\ Ownership
  BY DEF RankInv
<1>1. /\ Moves(r) /\ pc[r] = "suggest" /\ pc'[r] = "validate"
      /\ a \in Analysis /\ UNCHANGED tables
  BY <1>0, TodoSuggested
<1>2. PICK todo \in ModelSuggestions \cup {Suggestions(links, a)} :
        /\ run'[r] = [run[r] EXCEPT !.todo = todo]
        /\ todo \in Seq(Suggestion)
  BY <1>0, TodoSuggested
<1> HIDE DEF a
<1>3. run[r] \in RunState
  BY <1>0, RunFields
<1>4. run'[r].todo = todo /\ run'[r].incident = run[r].incident
  BY <1>2, <1>3 DEF RunState
<1>5. \A p \in DOMAIN plans : plans[p].incident # run[r].incident
  <2>1. run[r].incident \in Own(r)
    BY <1>0, <1>1, OwnedIncident
  <2>2. \A p \in DOMAIN plans : plans[p].incident \notin Own(r)
    BY <1>0, <1>1 DEF Ownership, Preparing
  <2>3. QED
    BY <2>1, <2>2
<1>6. \A i \in DOMAIN todo :
        /\ RulesScore(todo[i])
        /\ \A j \in DOMAIN todo : Purchase(todo[i]) /\ Purchase(todo[j]) => i = j
  <2>1. CASE todo \in ModelSuggestions
    <3>1. \A i \in DOMAIN todo : ~todo[i].rules
      BY <2>1, PipelineAssumption
    <3>2. QED
      BY <3>1 DEF RulesScore, Purchase
  <2>2. CASE todo = Suggestions(links, a)
    <3>1. links \in [Suppliers -> Link] /\ Absent \notin Suppliers
      BY <1>0, PipelineAssumption DEF TypeInv, TablesOK
    <3>2. QED
      BY <1>1, <2>2, <3>1, SuggestionsOK
  <2>3. QED
    BY <1>2, <2>1, <2>2
<1>7. plans' = plans
  BY <1>1 DEF tables
<1>8. TodoRanks(r)'
  BY <1>1, <1>4, <1>5, <1>6, <1>7 DEF TodoRanks
<1>9. QED
  BY <1>1, <1>7, <1>8, SamePlans, RankFrame

LEMMA StorePlanRank ==
  ASSUME RankInv, TypeInv', Ownership', NEW r \in Runs, StorePlan(r)
  PROVE  RankInv'
<1> DEFINE n == Len(plans) + 1
           s == Head(run[r].todo)
           p == NewPlan(run[r].incident, s, run[r].valid)
<1>0. TypeInv /\ Ownership /\ PlansRank /\ \A q \in Runs : TodoRanks(q)
  BY RankParts
<1>1. /\ Moves(r) /\ pc[r] = "store" /\ pc'[r] = "validate"
      /\ s \in Suggestion /\ s = run[r].todo[1] /\ 1 \in DOMAIN run[r].todo
      /\ run[r].incident \in DOMAIN incidents /\ run[r].valid \in BOOLEAN
      /\ \A i \in DOMAIN run'[r].todo : /\ i + 1 \in DOMAIN run[r].todo
                                         /\ i + 1 # 1
                                         /\ run'[r].todo[i] = run[r].todo[i + 1]
      /\ run'[r].incident = run[r].incident
      /\ DOMAIN plans' = DOMAIN plans \cup {n} /\ n \notin DOMAIN plans
      /\ plans'[n] = p
      /\ \A q \in DOMAIN plans : plans'[q] = plans[q]
  BY <1>0, PlanStored
<1>2. run[r].incident \in Nat /\ run'[r].todo \in Seq(Suggestion)
  <2>1. run[r].incident \in Nat
    BY <1>0, RunFields
  <2>2. run'[r] \in RunState
    BY DEF TypeInv, ControlOK
  <2>3. QED
    BY <2>1, <2>2 DEF RunState
<1>3. /\ p.incident = run[r].incident /\ p.rules = s.rules
      /\ p.supplier = s.supplier /\ p.allocations = s.allocations
      /\ p.status = IF run[r].valid THEN "PROPOSED" ELSE "INVALID"
      /\ p.score = IF run[r].valid THEN s.score ELSE HalfEven(s.score, 2)
  BY <1>1, <1>2, NewPlanOK
<1>4. Purchase(p) <=> Purchase(s)
  BY <1>3 DEF Purchase
<1>5. PlanScored(p)
  <2>1. RulesScore(s) /\ (Internal(s) => run[r].valid)
    BY <1>0, <1>1 DEF TodoRanks
  <2>2. s.score \in Nat
    BY <1>1 DEF Suggestion
  <2>3. s.score <= 9640 => HalfEven(s.score, 2) <= 4820
    <3>1. \A m \in Nat : m <= 9640 => HalfEven(m, 2) <= 4820
      BY HalvedScore
    <3>2. QED
      BY <2>2, <3>1
  <2>4. QED
    BY <1>3, <2>1, <2>3 DEF PlanScored, RulesScore, Internal
<1> HIDE DEF n, s, p
<1>6. PlansRank'
  <2>1. ASSUME NEW k \in DOMAIN plans, Purchase(plans[k]), Purchase(p)
        PROVE  plans[k].incident # p.incident
    BY <1>0, <1>1, <1>3, <1>4, <2>1 DEF TodoRanks
  <2>2. ASSUME NEW j \in DOMAIN plans', NEW k \in DOMAIN plans',
               plans'[j].incident = plans'[k].incident,
               Purchase(plans'[j]), Purchase(plans'[k])
        PROVE  j = k
    <3>1. CASE j = n /\ k = n
      BY <3>1
    <3>2. CASE j = n /\ k # n
      BY <1>1, <2>1, <2>2, <3>2
    <3>3. CASE j # n /\ k = n
      BY <1>1, <2>1, <2>2, <3>3
    <3>4. CASE j # n /\ k # n
      BY <1>0, <1>1, <2>2, <3>4 DEF PlansRank
    <3>5. QED
      BY <3>1, <3>2, <3>3, <3>4
  <2>3. \A k \in DOMAIN plans' : PlanScored(plans'[k])
    BY <1>0, <1>1, <1>5 DEF PlansRank
  <2>4. QED
    BY <2>2, <2>3 DEF PlansRank
<1>7. TodoRanks(r)'
  <2>1. ASSUME NEW i \in DOMAIN run'[r].todo
        PROVE  /\ RulesScore(run'[r].todo[i])
               /\ Purchase(run'[r].todo[i]) => ~Purchase(s)
               /\ \A j \in DOMAIN run'[r].todo :
                    Purchase(run'[r].todo[i]) /\ Purchase(run'[r].todo[j]) => i = j
               /\ \A k \in DOMAIN plans :
                    Purchase(run'[r].todo[i]) /\ Purchase(plans[k])
                      => plans[k].incident # run[r].incident
    <3>1. \A j \in DOMAIN run'[r].todo : j \in Int
      BY <1>2
    <3>2. TodoRanks(r)
      BY <1>0
    <3>3. RulesScore(run'[r].todo[i])
      BY <1>1, <3>2 DEF TodoRanks
    <3>4. Purchase(run'[r].todo[i]) => ~Purchase(s)
      BY <1>1, <3>2 DEF TodoRanks
    <3>5. ASSUME NEW j \in DOMAIN run'[r].todo,
                 Purchase(run'[r].todo[i]), Purchase(run'[r].todo[j])
          PROVE  i = j
      <4>1. i + 1 = j + 1
        BY <1>1, <3>2, <3>5 DEF TodoRanks
      <4>2. QED
        BY <3>1, <4>1
    <3>6. ASSUME NEW k \in DOMAIN plans, Purchase(run'[r].todo[i]), Purchase(plans[k])
          PROVE  plans[k].incident # run[r].incident
      BY <1>1, <3>2, <3>6 DEF TodoRanks
    <3>7. QED
      BY <3>3, <3>4, <3>5, <3>6
  <2>2. ASSUME NEW i \in DOMAIN run'[r].todo, Purchase(run'[r].todo[i]),
               NEW k \in DOMAIN plans', Purchase(plans'[k])
        PROVE  plans'[k].incident # run'[r].incident
    BY <1>1, <1>4, <2>1, <2>2
  <2>3. QED
    BY <1>1, <2>1, <2>2 DEF TodoRanks
<1>8. ASSUME NEW q \in Runs, q # r PROVE TodoRanks(q)'
  <2>1. pc'[q] = pc[q] /\ run'[q] = run[q] /\ TodoRanks(q)
    BY <1>0, <1>1, <1>8 DEF TypeInv, ControlOK, Moves
  <2>2. DOMAIN run[q].todo # {} => run[q].incident # run[r].incident
    <3>1. CASE run[q].todo = <<>>
      BY <3>1
    <3>2. CASE run[q].todo # <<>>
      <4>1. pc[q] \notin {"start", "done"}
        BY <1>0, <3>2, RunFields DEF LocalsOK
      <4>2. run[q].incident \in Own(q) /\ run[r].incident \in Own(r)
        BY <1>0, <1>1, <4>1, OwnedIncident
      <4>3. QED
        BY <1>0, <1>8, <4>2 DEF Ownership
    <3>3. QED
      BY <3>1, <3>2
  <2>3. ASSUME NEW i \in DOMAIN run[q].todo, Purchase(run[q].todo[i]),
               NEW k \in DOMAIN plans', Purchase(plans'[k])
        PROVE  plans'[k].incident # run[q].incident
    BY <1>1, <1>3, <2>1, <2>2, <2>3 DEF TodoRanks
  <2>4. QED
    BY <2>1, <2>3 DEF TodoRanks
<1>9. TypeInv' /\ Ownership' /\ PlansRank' /\ \A q \in Runs : TodoRanks(q)'
  BY <1>6, <1>7, <1>8
<1>10. QED
  BY <1>9 DEF RankInv, OnePurchase, PlansRank, TodoRanks

LEMMA RankInvNext == RankInv /\ [Next]_vars => RankInv'
<1> SUFFICES ASSUME RankInv, [Next]_vars PROVE RankInv'
  OBVIOUS
<1>0. TypeInv /\ TypeInv' /\ Ownership'
  BY TypeInvNext, OwnershipNext DEF RankInv
<1>1. CASE ResetScenario \/ UNCHANGED vars
  <2>1. plans' = plans /\ pc' = pc /\ run' = run
    BY <1>1 DEF ResetScenario, vars, tables
  <2>2. QED
    BY <1>0, <2>1 DEF RankInv, OnePurchase
<1>2. ASSUME NEW r \in Runs, NEW scenario \in Scenarios, InjectScenario(r, scenario)
      PROVE  RankInv'
  <2>1. Moves(r) /\ pc'[r] = "register" /\ run'[r].todo = <<>> /\ plans' = plans
    BY <1>0, <1>2, InjectedIncident
  <2>2. TodoRanks(r)'
    BY <2>1, NoTodoRanks
  <2>3. QED
    BY <1>0, <2>1, <2>2, SamePlans, RankFrame
<1>3. ASSUME NEW r \in Runs,
             RegisterIncident(r, "start") \/ RegisterIncident(r, "register")
      PROVE  RankInv'
  <2>1. Moves(r) /\ pc'[r] = "analyze" /\ run'[r].todo = <<>> /\ plans' = plans
    BY <1>0, <1>3, RegisteredIncident
  <2>2. TodoRanks(r)'
    BY <2>1, NoTodoRanks
  <2>3. QED
    BY <1>0, <2>1, <2>2, SamePlans, RankFrame
<1>4. ASSUME NEW r \in Runs, Analyze(r) PROVE RankInv'
  <2>1. /\ Moves(r) /\ pc[r] = "analyze" /\ pc'[r] = "suggest" /\ run'[r] = run[r]
        /\ plans' = plans
    BY <1>0, <1>4, AnalysisOK
  <2>2. run[r].todo = <<>>
    BY <1>0, <2>1, RunFields DEF LocalsOK
  <2>3. TodoRanks(r)'
    BY <2>1, <2>2, NoTodoRanks
  <2>4. QED
    BY <1>0, <2>1, <2>3, SamePlans, RankFrame
<1>5. ASSUME NEW r \in Runs, Suggest(r) PROVE RankInv'
  BY <1>0, <1>5, SuggestRank
<1>6. ASSUME NEW r \in Runs, StorePlan(r) PROVE RankInv'
  BY <1>0, <1>6, StorePlanRank
<1>7. ASSUME NEW r \in Runs, Quiet(r) PROVE RankInv'
  BY <1>0, <1>7, QuietRank
<1>8. QED
  BY <1>0, <1>1, <1>2, <1>3, <1>4, <1>5, <1>6, <1>7, QuietSteps DEF Next

(* Of the rules' plans for one incident, an invalid one ranks below every one  *)
(* that passed its validation: only purchases can be invalid, there is one for *)
(* an incident, and half of the best score of a purchase is less than what an   *)
(* internal plan scores.                                                      *)
THEOREM InvalidPlansRankBelow == Spec => []InvalidRanksBelow
<1>1. RankInv => InvalidRanksBelow
  <2> SUFFICES ASSUME RankInv, NEW p \in DOMAIN plans, NEW q \in DOMAIN plans,
                      plans[p].incident = plans[q].incident,
                      plans[p].rules, plans[q].rules,
                      plans[p].status = "INVALID", plans[q].status = "PROPOSED"
               PROVE  plans[p].score < plans[q].score
    BY DEF InvalidRanksBelow
  <2>1. PlanScored(plans[p]) /\ PlanScored(plans[q]) /\ TypeInv /\ OnePurchase
    BY DEF RankInv
  <2>2. plans[p].score \in Nat /\ plans[q].score \in Nat
    <3>1. plans[p] \in PlanRow /\ plans[q] \in PlanRow
      BY <2>1 DEF TypeInv, TablesOK
    <3>2. QED
      BY <3>1 DEF PlanRow
  <2>3. Purchase(plans[p]) /\ plans[p].score <= 4820
    BY <2>1 DEF PlanScored, Purchase
  <2>4. ~Purchase(plans[q])
    BY <2>1, <2>3 DEF OnePurchase
  <2>5. plans[q].score >= 9100
    BY <2>1, <2>4 DEF PlanScored, Purchase
  <2>6. QED
    BY <2>2, <2>3, <2>5
<1>2. QED
  BY <1>1, InitRankInv, RankInvNext, PTL DEF Spec

-----------------------------------------------------------------------------
(* What the rules buy adds up, also after certificates have expired. *)

TodoAdds(r) ==
  \A i \in DOMAIN run[r].todo : AddsUp(run[r].todo[i], run[r].incident)

LEMMA InitSumInv == Init => SumInv
<1> SUFFICES ASSUME Init PROVE SumInv
  OBVIOUS
<1>1. plans = <<>> /\ \A r \in Runs : pc[r] = "start" /\ run[r] = NoRun
  BY DEF Init
<1>2. \A r \in Runs : run[r].todo = <<>>
  BY <1>1 DEF NoRun
<1>3. DOMAIN plans = {} /\ \A r \in Runs : DOMAIN run[r].todo = {}
  BY <1>1, <1>2
<1>4. Ownership
  BY InitRankInv DEF RankInv
<1>5. QED
  BY <1>3, <1>4, InitTypeInv DEF SumInv

(* What is bought for an incident still adds up if suppliers have as much as   *)
(* they had and the incident its analysis.                                   *)
LEMMA KeptSum ==
  ASSUME TypeInv, StockKept, NEW x, x.allocations \in Seq(Allocation), NEW i,
         x.rules /\ x.allocations # <<>> =>
           /\ i \in DOMAIN incidents
           /\ incidents'[i].analysis = incidents[i].analysis,
         AddsUp(x, i)
  PROVE  AddsUp(x, i)'
<1> SUFFICES ASSUME x.rules, x.allocations # <<>>
             PROVE  BuysEnough(links', x, incidents'[i].analysis)
  BY DEF AddsUp
<1>1. links \in [Suppliers -> Link] /\ incidents[i] \in IncidentRow
  BY DEF TypeInv, TablesOK
<1>2. incidents[i].analysis \in Analysis
  BY <1>1 DEF IncidentRow
<1>3. BuysEnough(links, x, incidents[i].analysis)
  BY DEF AddsUp
<1>4. BuysEnough(links', x, incidents[i].analysis)
  BY <1>1, <1>2, <1>3, SameStockBuysEnough DEF StockKept
<1>5. QED
  BY <1>4

(* A step that keeps the analyses of the incidents in use. *)
LEMMA SumFrame ==
  ASSUME SumInv, TypeInv', Ownership', NEW r \in Runs, Moves(r),
         PlansKept, StockKept,
         \A p \in DOMAIN plans :
           incidents'[plans[p].incident].analysis = incidents[plans[p].incident].analysis,
         \A q \in Runs : q # r /\ run[q].todo # <<>> =>
           incidents'[run[q].incident].analysis = incidents[run[q].incident].analysis,
         TodoAdds(r)'
  PROVE  SumInv'
<1>0. TypeInv
  BY DEF SumInv
<1>1. \A y, i : /\ y.allocations \in Seq(Allocation)
                /\ i \in DOMAIN incidents
                /\ incidents'[i].analysis = incidents[i].analysis
                /\ AddsUp(y, i)
                => (y.rules /\ y.allocations # <<>> =>
                      BuysEnough(links', y, incidents'[i].analysis))
  BY <1>0, KeptSum DEF AddsUp
<1>2. ASSUME NEW p \in DOMAIN plans
      PROVE  AddsUp(plans[p], plans[p].incident)'
  <2> DEFINE x == plans[p]
  <2>1. x \in PlanRow /\ x.incident \in DOMAIN incidents
    BY <1>0 DEF TypeInv, TablesOK
  <2>2. x.allocations \in Seq(Allocation)
    BY <2>1 DEF PlanRow
  <2>3. AddsUp(x, x.incident)
    BY DEF SumInv
  <2>4. incidents'[x.incident].analysis = incidents[x.incident].analysis
    OBVIOUS
  <2> HIDE DEF x
  <2>5. x.rules /\ x.allocations # <<>> =>
          BuysEnough(links', x, incidents'[x.incident].analysis)
    BY <1>1, <2>1, <2>2, <2>3, <2>4
  <2>6. /\ plans'[p].incident = x.incident /\ plans'[p].rules = x.rules
        /\ plans'[p].quantity = x.quantity /\ plans'[p].allocations = x.allocations
    BY DEF PlansKept, x
  <2>7. QED
    BY <2>5, <2>6 DEF AddsUp, BuysEnough
<1>3. ASSUME NEW q \in Runs, q # r, NEW k \in DOMAIN run'[q].todo
      PROVE  AddsUp(run[q].todo[k], run[q].incident)'
  <2> DEFINE x == run[q].todo[k]
             i == run[q].incident
  <2>1. run'[q] = run[q]
    BY <1>0, <1>3 DEF TypeInv, ControlOK, Moves
  <2>2. run[q].todo \in Seq(Suggestion) /\ LocalsOK(q)
    BY <1>0, RunFields
  <2>3. run[q].todo # <<>> /\ x \in Suggestion
    BY <1>3, <2>1, <2>2
  <2>4. x.allocations \in Seq(Allocation)
    BY <2>3 DEF Suggestion
  <2>5. i \in DOMAIN incidents
    BY <2>2, <2>3 DEF LocalsOK
  <2>6. incidents'[i].analysis = incidents[i].analysis
    BY <1>3, <2>3
  <2>7. AddsUp(x, i)
    BY <1>3, <2>1 DEF SumInv
  <2> HIDE DEF x, i
  <2>8. x.rules /\ x.allocations # <<>> =>
          BuysEnough(links', x, incidents'[i].analysis)
    BY <1>1, <2>4, <2>5, <2>6, <2>7
  <2>9. run'[q].todo[k] = x /\ run'[q].incident = i
    BY <2>1 DEF x, i
  <2>10. QED
    BY <2>8, <2>9 DEF AddsUp
<1>4. \A q \in Runs : TodoAdds(q)'
  BY <1>3 DEF TodoAdds
<1>5. QED
  BY <1>2, <1>4 DEF SumInv, TodoAdds, PlansKept

LEMMA NothingToAdd ==
  ASSUME NEW r \in Runs, run'[r].todo = <<>> PROVE TodoAdds(r)'
<1>1. DOMAIN run'[r].todo = {}
  OBVIOUS
<1>2. QED
  BY <1>1 DEF TodoAdds

LEMMA PlanIncidents ==
  ASSUME TypeInv
  PROVE  /\ \A p \in DOMAIN plans : plans[p].incident \in DOMAIN incidents
         /\ \A q \in Runs : run[q].todo # <<>> => run[q].incident \in DOMAIN incidents
<1>1. ASSUME NEW q \in Runs, run[q].todo # <<>>
      PROVE  run[q].incident \in DOMAIN incidents
  BY <1>1, RunFields DEF LocalsOK
<1>2. QED
  BY <1>1 DEF TypeInv, TablesOK

(* A run without suggestions moves, and every incident keeps its analysis. *)
LEMMA SumOfEmpty ==
  ASSUME SumInv, TypeInv', Ownership', NEW r \in Runs, Moves(r),
         PlansKept, StockKept, run'[r].todo = <<>>,
         \A i \in DOMAIN incidents : incidents'[i].analysis = incidents[i].analysis
  PROVE  SumInv'
<1>1. TypeInv
  BY DEF SumInv
<1>2. TodoAdds(r)'
  BY NothingToAdd
<1>3. QED
  BY <1>1, <1>2, PlanIncidents, SumFrame

LEMMA SameLinks ==
  ASSUME TypeInv, links' = links PROVE StockKept
BY DEF TypeInv, TablesOK, StockKept

LEMMA QuietSum ==
  ASSUME SumInv, TypeInv', Ownership', NEW r \in Runs, Quiet(r)
  PROVE  SumInv'
<1>1. TypeInv /\ Moves(r) /\ PlansKept /\ AnalysesKept /\ links' = links /\ StockKept
  BY SameLinks DEF SumInv, Quiet
<1>2. CASE run'[r] = NoRun
  BY <1>1, <1>2, SumOfEmpty DEF NoRun, AnalysesKept
<1>3. CASE run'[r].todo = run[r].todo /\ run'[r].incident = run[r].incident
  <2>1. ASSUME NEW k \in DOMAIN run'[r].todo
        PROVE  AddsUp(run[r].todo[k], run[r].incident)'
    <3> DEFINE x == run[r].todo[k]
               i == run[r].incident
    <3>1. AddsUp(x, i)
      BY <1>3, <2>1 DEF SumInv
    <3>2. run[r].todo # <<>>
      BY <1>3, <2>1
    <3>3. incidents'[i].analysis = incidents[i].analysis
      BY <1>1, <3>2, PlanIncidents DEF AnalysesKept
    <3> HIDE DEF x, i
    <3>4. run'[r].todo[k] = x /\ run'[r].incident = i
      BY <1>3 DEF x, i
    <3>5. QED
      BY <1>1, <3>1, <3>3, <3>4 DEF AddsUp
  <2>2. TodoAdds(r)'
    BY <2>1 DEF TodoAdds
  <2>3. QED
    BY <1>1, <2>2, PlanIncidents, SumFrame DEF AnalysesKept
<1>4. QED
  BY <1>2, <1>3 DEF Quiet

(* The analysis is written to an incident that nobody plans for yet. *)
LEMMA AnalyzeSum ==
  ASSUME SumInv, TypeInv', Ownership', NEW r \in Runs, Analyze(r)
  PROVE  SumInv'
<1> DEFINE n == run[r].analysed
<1>0. TypeInv /\ Ownership
  BY DEF SumInv
<1>1. /\ Moves(r) /\ pc[r] = "analyze" /\ run'[r] = run[r] /\ n \in DOMAIN incidents
      /\ UNCHANGED <<links, stock, plans, approvals>>
  BY <1>0, AnalysisOK
<1>2. PICK row \in IncidentRow : incidents' = [incidents EXCEPT ![n] = row]
  BY <1>0, AnalysisOK
<1>3. run[r].todo = <<>>
  BY <1>0, <1>1, RunFields DEF LocalsOK
<1>4. n \in Own(r)
  <2>1. n # 0
    <3>1. incidents \in Seq(IncidentRow)
      BY <1>0 DEF TypeInv, TablesOK
    <3>2. QED
      BY <1>1, <3>1
  <2>2. QED
    BY <2>1 DEF Own
<1>5. \A p \in DOMAIN plans : plans[p].incident # n
  BY <1>0, <1>1, <1>4 DEF Ownership, Preparing
<1>6. ASSUME NEW q \in Runs, q # r, run[q].todo # <<>>
      PROVE  run[q].incident # n /\ run[q].incident \in DOMAIN incidents
  <2>1. pc[q] \notin {"start", "done"}
    BY <1>0, <1>6, RunFields DEF LocalsOK
  <2>2. run[q].incident \in Own(q) /\ run[q].incident \in DOMAIN incidents
    BY <1>0, <2>1, OwnedIncident
  <2>3. QED
    BY <1>0, <1>4, <1>6, <2>2 DEF Ownership
<1> HIDE DEF n
<1>7. \A i \in DOMAIN incidents : i # n => incidents'[i] = incidents[i]
  BY <1>2
<1>8. TodoAdds(r)'
  BY <1>1, <1>3, NothingToAdd
<1>9. PlansKept /\ StockKept
  BY <1>0, <1>1, SamePlans, SameLinks
<1>10. \A p \in DOMAIN plans :
         incidents'[plans[p].incident].analysis = incidents[plans[p].incident].analysis
  BY <1>0, <1>5, <1>7, PlanIncidents
<1>11. \A q \in Runs : q # r /\ run[q].todo # <<>> =>
         incidents'[run[q].incident].analysis = incidents[run[q].incident].analysis
  BY <1>6, <1>7
<1>12. QED
  BY <1>1, <1>8, <1>9, <1>10, <1>11, SumFrame

LEMMA SuggestSum ==
  ASSUME SumInv, TypeInv', Ownership', NEW r \in Runs, Suggest(r)
  PROVE  SumInv'
<1> DEFINE a == incidents[run[r].incident].analysis
<1>0. TypeInv
  BY DEF SumInv
<1>1. Moves(r) /\ a \in Analysis /\ UNCHANGED tables
  BY <1>0, TodoSuggested
<1>2. PICK todo \in ModelSuggestions \cup {Suggestions(links, a)} :
        /\ run'[r] = [run[r] EXCEPT !.todo = todo]
        /\ todo \in Seq(Suggestion)
  BY <1>0, TodoSuggested
<1> HIDE DEF a
<1>3. run[r] \in RunState
  BY <1>0, RunFields
<1>4. run'[r].todo = todo /\ run'[r].incident = run[r].incident
  BY <1>2, <1>3 DEF RunState
<1>5. links' = links /\ incidents' = incidents /\ plans' = plans
  BY <1>1 DEF tables
<1>6. \A k \in DOMAIN todo :
        todo[k].rules /\ todo[k].allocations # <<>> => BuysEnough(links, todo[k], a)
  <2>1. CASE todo \in ModelSuggestions
    BY <2>1, PipelineAssumption
  <2>2. CASE todo = Suggestions(links, a)
    <3>1. links \in [Suppliers -> Link] /\ Absent \notin Suppliers
      BY <1>0, PipelineAssumption DEF TypeInv, TablesOK
    <3>2. QED
      BY <1>1, <2>2, <3>1, SuggestionsOK
  <2>3. QED
    BY <1>2, <2>1, <2>2
<1>7. TodoAdds(r)'
  BY <1>4, <1>5, <1>6 DEF TodoAdds, AddsUp, a
<1>8. PlansKept /\ StockKept
  BY <1>0, <1>5, SamePlans, SameLinks
<1>9. QED
  BY <1>1, <1>5, <1>7, <1>8, SumFrame

LEMMA StorePlanSum ==
  ASSUME SumInv, TypeInv', Ownership', NEW r \in Runs, StorePlan(r)
  PROVE  SumInv'
<1> DEFINE n == Len(plans) + 1
           s == Head(run[r].todo)
           p == NewPlan(run[r].incident, s, run[r].valid)
<1>0. TypeInv
  BY DEF SumInv
<1>1. /\ Moves(r)
      /\ s \in Suggestion /\ s = run[r].todo[1] /\ 1 \in DOMAIN run[r].todo
      /\ run[r].valid \in BOOLEAN
      /\ \A i \in DOMAIN run'[r].todo : /\ i + 1 \in DOMAIN run[r].todo
                                         /\ run'[r].todo[i] = run[r].todo[i + 1]
      /\ run'[r].incident = run[r].incident
      /\ UNCHANGED <<links, stock, incidents, approvals>>
      /\ DOMAIN plans' = DOMAIN plans \cup {n}
      /\ plans'[n] = p
      /\ \A q \in DOMAIN plans : plans'[q] = plans[q]
  BY <1>0, PlanStored
<1>2. run[r].incident \in Nat
  BY <1>0, RunFields
<1>3. /\ p.incident = run[r].incident /\ p.rules = s.rules
      /\ p.quantity = s.quantity /\ p.allocations = s.allocations
  BY <1>1, <1>2, NewPlanOK
<1>4. AddsUp(s, run[r].incident)
  BY <1>1 DEF SumInv
<1> HIDE DEF n, s, p
<1>5. AddsUp(p, p.incident)
  BY <1>3, <1>4 DEF AddsUp, BuysEnough
<1>6. ASSUME NEW k \in DOMAIN plans'
      PROVE  AddsUp(plans[k], plans[k].incident)'
  <2>1. AddsUp(plans'[k], plans'[k].incident)
    BY <1>1, <1>5 DEF SumInv
  <2>2. QED
    BY <1>1, <2>1 DEF AddsUp
<1>7. ASSUME NEW q \in Runs, NEW i \in DOMAIN run'[q].todo
      PROVE  AddsUp(run[q].todo[i], run[q].incident)'
  <2>1. AddsUp(run'[q].todo[i], run'[q].incident)
    <3>1. CASE q = r
      BY <1>1, <1>7, <3>1 DEF SumInv
    <3>2. CASE q # r
      BY <1>0, <1>1, <1>7, <3>2 DEF SumInv, TypeInv, ControlOK, Moves
    <3>3. QED
      BY <3>1, <3>2
  <2>2. QED
    BY <1>1, <2>1 DEF AddsUp
<1>8. QED
  BY <1>6, <1>7 DEF SumInv

LEMMA SumInvNext == SumInv /\ [Next]_vars => SumInv'
<1> SUFFICES ASSUME SumInv, [Next]_vars PROVE SumInv'
  OBVIOUS
<1>0. TypeInv /\ TypeInv' /\ Ownership'
  BY TypeInvNext, OwnershipNext DEF SumInv
<1>1. CASE UNCHANGED vars
  BY <1>0, <1>1 DEF SumInv, AddsUp, vars, tables
<1>2. CASE ResetScenario
  <2>1. /\ links \in [Suppliers -> Link] /\ ExpiringSupplier \in Suppliers
        /\ links[ExpiringSupplier] \in Link
    BY <1>0, PipelineAssumption DEF TypeInv, TablesOK
  <2>2. /\ [links[ExpiringSupplier] EXCEPT !.certified = TRUE] \in Link
        /\ [links[ExpiringSupplier] EXCEPT !.certified = TRUE].available
             = links[ExpiringSupplier].available
    BY <2>1, CertificateChanged
  <2>3. StockKept
    BY <1>2, <2>1, <2>2 DEF ResetScenario, StockKept
  <2>4. UNCHANGED <<incidents, plans, pc, run>>
    BY <1>2 DEF ResetScenario
  <2>5. ASSUME NEW x, NEW i, x.allocations \in Seq(Allocation),
               i \in DOMAIN incidents, AddsUp(x, i)
        PROVE  x.rules /\ x.allocations # <<>> =>
                 BuysEnough(links', x, incidents[i].analysis)
    BY <1>0, <2>3, <2>4, <2>5, KeptSum DEF AddsUp
  <2>6. ASSUME NEW p \in DOMAIN plans
        PROVE  AddsUp(plans[p], plans[p].incident)'
    <3>1. plans[p] \in PlanRow /\ plans[p].incident \in DOMAIN incidents
      BY <1>0 DEF TypeInv, TablesOK
    <3>2. plans[p].allocations \in Seq(Allocation)
      BY <3>1 DEF PlanRow
    <3>3. AddsUp(plans[p], plans[p].incident)
      BY DEF SumInv
    <3>4. QED
      BY <2>4, <2>5, <3>1, <3>2, <3>3 DEF AddsUp
  <2>7. ASSUME NEW q \in Runs, NEW k \in DOMAIN run[q].todo
        PROVE  AddsUp(run[q].todo[k], run[q].incident)'
    <3>1. run[q].todo \in Seq(Suggestion) /\ run[q].todo # <<>>
      BY <1>0, <2>7, RunFields
    <3>2. run[q].todo[k] \in Suggestion /\ run[q].incident \in DOMAIN incidents
      BY <1>0, <2>7, <3>1, PlanIncidents
    <3>3. run[q].todo[k].allocations \in Seq(Allocation)
      BY <3>2 DEF Suggestion
    <3>4. AddsUp(run[q].todo[k], run[q].incident)
      BY DEF SumInv
    <3>5. QED
      BY <2>4, <2>5, <3>2, <3>3, <3>4 DEF AddsUp
  <2>8. QED
    BY <1>0, <2>4, <2>6, <2>7 DEF SumInv
<1>3. ASSUME NEW r \in Runs, NEW scenario \in Scenarios, InjectScenario(r, scenario)
      PROVE  SumInv'
  <2>1. /\ Moves(r) /\ run'[r].todo = <<>> /\ plans' = plans /\ StockKept
        /\ \A i \in DOMAIN incidents : incidents'[i] = incidents[i]
    BY <1>0, <1>3, InjectedIncident
  <2>2. QED
    BY <1>0, <2>1, SamePlans, SumOfEmpty
<1>4. ASSUME NEW r \in Runs,
             RegisterIncident(r, "start") \/ RegisterIncident(r, "register")
      PROVE  SumInv'
  <2>1. /\ Moves(r) /\ run'[r].todo = <<>> /\ plans' = plans /\ StockKept
        /\ \A i \in DOMAIN incidents : incidents'[i] = incidents[i]
    BY <1>0, <1>4, RegisteredIncident
  <2>2. QED
    BY <1>0, <2>1, SamePlans, SumOfEmpty
<1>5. ASSUME NEW r \in Runs, Analyze(r) PROVE SumInv'
  BY <1>0, <1>5, AnalyzeSum
<1>6. ASSUME NEW r \in Runs, Suggest(r) PROVE SumInv'
  BY <1>0, <1>6, SuggestSum
<1>7. ASSUME NEW r \in Runs, StorePlan(r) PROVE SumInv'
  BY <1>0, <1>7, StorePlanSum
<1>8. ASSUME NEW r \in Runs, Quiet(r) PROVE SumInv'
  BY <1>0, <1>8, QuietSum
<1>9. QED
  BY <1>0, <1>1, <1>2, <1>3, <1>4, <1>5, <1>6, <1>7, <1>8, QuietSteps DEF Next

(* What the rules buy for an incident is what its analysis says is needed or,   *)
(* if less, all that the ranked suppliers have; each allocation is within what  *)
(* its supplier has, and takes all of it unless it is the last.  The analysis   *)
(* is written before anybody plans for the incident, and a certificate that     *)
(* expires or is restored changes nobody's stock.                              *)
THEOREM PurchasesAddUp == Spec => []AllocationsAddUp
<1>1. SumInv => AllocationsAddUp
  <2> SUFFICES ASSUME SumInv, NEW p \in DOMAIN plans,
                      plans[p].rules, plans[p].allocations # <<>>
               PROVE  BuysEnough(links, plans[p], incidents[plans[p].incident].analysis)
    BY DEF AllocationsAddUp, BuysEnough, Amounts, Available
  <2>1. QED
    BY DEF SumInv, AddsUp
<1>2. QED
  BY <1>1, InitSumInv, SumInvNext, PTL DEF Spec
=============================================================================
