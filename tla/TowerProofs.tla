----------------------------- MODULE TowerProofs -----------------------------
(***************************************************************************)
(* Proofs about ControlTower: what the incident pages show and offer, for    *)
(* every number of clients, incidents, requests and loads, on top of the     *)
(* invariants of the recovery workflow that serves them.                    *)
(***************************************************************************)
EXTENDS ControlTower, RestProofs

-----------------------------------------------------------------------------
(* The inductive invariant, for any number of handlers *)

ScoresOK == scores \in Seq(Scores) /\ Len(scores) = Len(plans)

(* A page names rows of the tables, one with a plan also an approval, and one *)
(* from which something was sent is not blank.                              *)
PageOK(c) ==
  /\ pages[c].plan \in 0..Len(plans)
  /\ pages[c].approval \in 0..Len(approvals)
  /\ pages[c].approval = 0 => pages[c].plan = 0
  /\ pages[c].plan = 0 => pages[c].offers = "nothing"
  /\ c \in reloading => pages[c] # NoPage

(* What a handler that loads a page has found. *)
LoadOK(h) ==
  /\ pc[h] \in {"load_approval", "show_inserted"} => ctx[h].plan \in DOMAIN plans
  /\ pc[h] = "show_inserted" => ctx[h].approval \in DOMAIN approvals

HistoryOK ==
  /\ seen \subseteq (DOMAIN approvals) \X (DOMAIN plans)
  /\ unseen \subseteq DOMAIN approvals
  /\ dispatched \subseteq Clients \X (DOMAIN approvals) \X BOOLEAN

TowerInv ==
  /\ IInv
  /\ ScoresOK
  /\ serving \in [Handlers -> Clients \cup {Nobody}]
  /\ reloading \subseteq Clients
  /\ pages \in [Clients -> Page \cup {NoPage}]
  /\ \A c \in Clients : PageOK(c)
  /\ \A h \in Handlers : LoadOK(h)
  /\ HistoryOK

LEMMA TowerTypes == TowerInv => TowerTypeOK
BY DEF TowerInv, ScoresOK, PageOK, HistoryOK, TowerTypeOK, IInv, TablesOK, ControlOK, AnyLabel, LoadLabels

(* The tables keep their rows, and the plans their scores. *)
TowerGrows ==
  /\ DOMAIN plans \subseteq DOMAIN plans'
  /\ \A p \in DOMAIN plans : /\ plans'[p].incident = plans[p].incident
                             /\ scores'[p] = scores[p]
  /\ DOMAIN approvals \subseteq DOMAIN approvals'
  /\ \A a \in DOMAIN approvals : /\ approvals'[a].plan = approvals[a].plan
                                 /\ approvals'[a].incident = approvals[a].incident
  /\ seen \subseteq seen' /\ unseen \subseteq unseen'

(* A transaction of the workflow, or one that begins a request. *)
WorkflowMove(h) == (Request(h) \/ Step(h)) /\ Scored

-----------------------------------------------------------------------------
(* What the steps do to the tables *)

LEMMA TableSizes ==
  ASSUME TablesOK
  PROVE  /\ Len(plans) \in Nat /\ DOMAIN plans = 1..Len(plans)
         /\ Len(approvals) \in Nat /\ DOMAIN approvals = 1..Len(approvals)
BY LenProperties DEF TablesOK

LEMMA ScoresKept ==
  ASSUME ScoresOK, TablesOK, Scored, Len(plans') \in {Len(plans), Len(plans) + 1}
  PROVE  ScoresOK' /\ \A p \in DOMAIN plans : scores'[p] = scores[p]
<1>1. /\ Len(plans) \in Nat /\ DOMAIN plans = 1..Len(plans)
      /\ DOMAIN scores = 1..Len(plans)
  BY TableSizes, LenProperties DEF ScoresOK
<1>2. CASE Len(plans') = Len(plans)
  BY <1>1, <1>2 DEF Scored, ScoresOK
<1>3. CASE Len(plans') = Len(plans) + 1
  <2>1. \A n \in Nat : n + 1 # n
    OBVIOUS
  <2>2. Len(plans') # Len(plans)
    BY Zenon, <1>1, <1>3, <2>1
  <2>3. PICK s \in Scores : scores' = Append(scores, s)
    BY <2>2 DEF Scored
  <2>4. QED
    BY <1>1, <1>3, <2>3, AppendProperties DEF ScoresOK
<1>4. QED
  BY <1>2, <1>3

LEMMA LengthAfter ==
  ASSUME IInv, NEW h \in Handlers, Request(h) \/ Step(h)
  PROVE  Len(plans') \in {Len(plans), Len(plans) + 1}
<1>1. plans \in Seq(Plan) /\ Len(plans) \in Nat /\ DOMAIN plans = 1..Len(plans)
  BY LenProperties DEF IInv, TablesOK
<1>2. CASE \E i, c : NewPlan(i, c)
  BY <1>1, <1>2 DEF NewPlan
<1>3. CASE BeginExecution(h) \/ CompletePlan(h) \/ PassPlan(h) \/ FailPlan(h)
  <2> DEFINE s == PlanTarget[pc[h]]
             t == [plans EXCEPT ![ctx[h].plan].status = s]
  <2>1. /\ s \in PlanStatus /\ ctx[h].plan \in DOMAIN plans
        /\ plans' = IF ctx[h].planSeen = s THEN plans ELSE t
    BY <1>3, PlanStatusSet DEF SetPlanStatus
  <2> HIDE DEF s
  <2>2. t \in Seq(Plan) /\ DOMAIN t = DOMAIN plans
    BY <1>1, <2>1, UpdatePlanRow
  <2>3. Len(t) \in Nat /\ 1..Len(t) = 1..Len(plans)
    BY <1>1, <2>2, LenProperties
  <2>4. Len(t) = Len(plans)
    BY <1>1, <2>3
  <2>5. QED
    BY <2>1, <2>4
<1>4. QED
  BY <1>2, <1>3, PlansWritten

LEMMA WorkflowMoveKeeps ==
  ASSUME IInv, ScoresOK, NEW h \in Handlers, WorkflowMove(h),
         seen \subseteq seen', unseen \subseteq unseen'
  PROVE  IInv' /\ ScoresOK' /\ TowerGrows /\ OnlyMoves(h)
<1>1. Request(h) \/ Step(h)
  BY DEF WorkflowMove
<1>2. IInv' /\ OnlyMoves(h)
  BY <1>1, WorkflowAssumption, RequestKeeps, StepKeeps, OneMoves
<1>3. ScoresOK' /\ \A p \in DOMAIN plans : scores'[p] = scores[p]
  BY <1>1, ScoresKept, LengthAfter DEF WorkflowMove, IInv
<1>4. TowerGrows
  BY <1>1, <1>3, PlansAfter, ApprovalsAfter DEF TowerGrows
<1>5. QED
  BY <1>2, <1>3, <1>4

-----------------------------------------------------------------------------
(* The steps that load a page *)

LoadMove(h) ==
  \/ \E c \in Clients, i \in Incidents : OpenPage(h, c, i)
  \/ \E c \in Clients : ReloadPage(h, c)
  \/ GeneratePlan(h) \/ FailDuplicate(h) \/ ShowWithoutPlan(h)
  \/ LoadApproval(h) \/ LoadNewApproval(h) \/ ShowInserted(h)

LEMMA ReloadedIncident ==
  ASSUME TowerInv, NEW c \in Clients, c \in reloading
  PROVE  pages[c].incident \in Incidents
BY DEF TowerInv, PageOK, Page

(* Loading begins: what is read goes to the locals. *)
LEMMA LoadKeeps ==
  ASSUME IInv, NEW h \in Handlers, NEW c, NEW i \in Incidents, Load(h, c, i)
  PROVE  /\ IInv' /\ OnlyMoves(h)
         /\ ctx'[h].incident = i
         /\ \/ /\ pc'[h] = "load_approval"
               /\ ctx'[h].plan \in Best(i)
               /\ ctx'[h].planSeen = plans[ctx'[h].plan].status
               /\ ctx'[h].incidentSeen = incidents[i]
            \/ pc'[h] = "load_plans" /\ ctx'[h].incidentSeen = None
<1>1. /\ pc \in [Handlers -> AnyLabel] /\ ctx \in [Handlers -> Context]
      /\ incidents[i] \in IncidentStatus
  BY RowsFound DEF IInv, ControlOK
<1> DEFINE Locals(p) == [NoContext EXCEPT !.incident = i, !.plan = p,
                                          !.planSeen = plans[p].status,
                                          !.incidentSeen = incidents[i]]
<1>2. ASSUME NEW p \in DOMAIN plans
      PROVE  /\ Locals(p) \in Context
             /\ Locals(p).incident = i /\ Locals(p).plan = p
             /\ Locals(p).planSeen = plans[p].status
             /\ Locals(p).incidentSeen = incidents[i]
  <2>1. p \in Nat /\ plans[p].status \in PlanStatus
    BY RowsFound
  <2>2. QED
    BY <1>1, <2>1, NoContextOK DEF Context, NoContext
<1>3. /\ [NoContext EXCEPT !.incident = i] \in Context
      /\ [NoContext EXCEPT !.incident = i].incident = i
      /\ [NoContext EXCEPT !.incident = i].incidentSeen = None
  BY NoContextOK DEF Context, NoContext
<1>4. /\ ctx' \in [Handlers -> Context]
      /\ \E label \in {"load_approval", "load_plans"} :
           pc' = [pc EXCEPT ![h] = label]
      /\ \A g \in Handlers : g # h => ctx'[g] = ctx[g]
      /\ ctx'[h].incident = i
      /\ \/ /\ pc'[h] = "load_approval"
            /\ ctx'[h].plan \in Best(i)
            /\ ctx'[h].planSeen = plans[ctx'[h].plan].status
            /\ ctx'[h].incidentSeen = incidents[i]
         \/ pc'[h] = "load_plans" /\ ctx'[h].incidentSeen = None
  <2>1. CASE \E p \in Best(i) : /\ pc' = [pc EXCEPT ![h] = "load_approval"]
                                /\ ctx' = [ctx EXCEPT ![h] = Locals(p)]
    <3>1. PICK p \in Best(i) : /\ pc' = [pc EXCEPT ![h] = "load_approval"]
                               /\ ctx' = [ctx EXCEPT ![h] = Locals(p)]
      BY <2>1
    <3>2. p \in DOMAIN plans
      BY DEF Best, PlansOf
    <3> HIDE DEF Locals
    <3>3. QED
      BY <1>1, <1>2, <3>1, <3>2
  <2>2. CASE /\ pc' = [pc EXCEPT ![h] = "load_plans"]
             /\ ctx' = [ctx EXCEPT ![h] = [NoContext EXCEPT !.incident = i]]
    BY <1>1, <1>3, <2>2
  <2>3. QED
    BY <2>1, <2>2 DEF Load
<1>5. ControlOK' /\ OnlyMoves(h) /\ pc'[h] \in {"load_approval", "load_plans"}
  BY <1>1, <1>4 DEF ControlOK, AnyLabel, OnlyMoves, Load, IInv
<1>6. Preserved
  BY TablesInvHolds, NothingWritten DEF Load
<1>7. HandlerOK(h)'
  BY <1>4, <1>5 DEF HandlerOK, WithPlan, Deciding, Executing, Labels
<1>8. QED
  BY <1>4, <1>5, <1>6, <1>7, StepKeepsInvariant

(* A plan is generated, or an approval requested, while a page loads. *)
LEMMA GeneratePlanKeeps ==
  ASSUME IInv, ScoresOK, NEW h \in Handlers, GeneratePlan(h)
  PROVE  IInv' /\ ScoresOK' /\ TowerGrows /\ OnlyMoves(h)
<1>1. /\ ctx' = ctx /\ UNCHANGED <<incidents, approvals, orders, audit, granted>>
      /\ Scored /\ seen' = seen /\ unseen' = unseen
  BY DEF GeneratePlan, pageVars
<1>a. PICK label \in {"load_plans", "load_again"} : Goto(h, label, "load_again")
  BY DEF GeneratePlan
<1>2. ctx[h].incident \in Incidents /\ ctx \in [Handlers -> Context]
  BY <1>a, Running DEF Goto
<1>3. PICK c \in Contents : NewPlan(ctx[h].incident, c)
  BY DEF GeneratePlan
<1>4. Preserved
  BY <1>1, <1>2, <1>3, TablesInvHolds, PlanWritten
<1>5. ControlOK' /\ OnlyMoves(h) /\ pc'[h] = "load_again"
  BY <1>1, <1>a, <1>2 DEF Goto, IInv, ControlOK, AnyLabel, OnlyMoves
<1>6. HandlerOK(h)'
  BY <1>1, <1>2, <1>5 DEF HandlerOK, WithPlan, Deciding, Executing, Labels
<1>7. IInv'
  BY <1>4, <1>5, <1>6, StepKeepsInvariant
<1>8. plans \in Seq(Plan) /\ Len(plans) \in Nat
  BY LenProperties DEF IInv, TablesOK
<1>9. Len(plans') = Len(plans) + 1
  BY <1>3, <1>8 DEF NewPlan
<1>10. ScoresOK' /\ \A p \in DOMAIN plans : scores'[p] = scores[p]
  BY <1>1, <1>9, ScoresKept DEF IInv
<1>11. TowerGrows
  BY <1>1, <1>4, <1>10 DEF TowerGrows, Preserved, Grows
<1>12. QED
  BY <1>5, <1>7, <1>10, <1>11

LEMMA LoadNewApprovalKeeps ==
  ASSUME TowerInv, NEW h \in Handlers, LoadNewApproval(h)
  PROVE  /\ IInv' /\ ScoresOK' /\ TowerGrows /\ OnlyMoves(h)
         /\ pc'[h] = "show_inserted"
         /\ ctx'[h] = [ctx[h] EXCEPT !.approval = Len(approvals) + 1]
         /\ Len(approvals) + 1 \in DOMAIN approvals'
         /\ Len(approvals) + 1 \in Nat \ DOMAIN approvals
<1> DEFINE n == Len(approvals) + 1
<1>1. /\ Goto(h, "load_approval", "show_inserted")
      /\ NewApproval(ctx[h].plan)
      /\ ctx' = [ctx EXCEPT ![h].approval = n]
      /\ UNCHANGED <<incidents, plans, orders, audit, granted, scores, seen, unseen>>
  BY DEF LoadNewApproval, pageVars
<1>2. /\ ctx[h].plan \in DOMAIN plans /\ ctx[h].incident \in Incidents
      /\ ctx \in [Handlers -> Context] /\ ctx[h] \in Context
  BY <1>1, Running DEF Goto, TowerInv, LoadOK
<1>3. Preserved /\ n \in DOMAIN approvals' /\ n \in Nat
  BY <1>1, <1>2, TablesInvHolds, ApprovalWritten DEF TowerInv
<1>4. /\ approvals \in Seq(Approval) /\ Len(approvals) \in Nat
      /\ DOMAIN approvals = 1..Len(approvals)
  BY LenProperties DEF TowerInv, IInv, TablesOK
<1>5. n \notin DOMAIN approvals
  BY <1>4
<1>6. \A a \in DOMAIN approvals : approvals'[a] = approvals[a]
  BY <1>1, <1>4 DEF NewApproval
<1> HIDE DEF n
<1>7. /\ ctx'[h] = [ctx[h] EXCEPT !.approval = n]
      /\ ctx' \in [Handlers -> Context]
      /\ \A g \in Handlers : g # h => ctx'[g] = ctx[g]
  BY ZenonT(30), <1>1, <1>2, <1>3 DEF Context
<1>8. ctx'[h].incident = ctx[h].incident
  BY <1>2, <1>7 DEF Context
<1>9. ControlOK' /\ OnlyMoves(h) /\ pc'[h] = "show_inserted"
  BY <1>1, <1>7 DEF Goto, TowerInv, IInv, ControlOK, AnyLabel, OnlyMoves
<1>10. HandlerOK(h)'
  BY <1>2, <1>8, <1>9 DEF HandlerOK, WithPlan, Deciding, Executing, Labels
<1>11. IInv'
  BY <1>3, <1>9, <1>10, StepKeepsInvariant DEF TowerInv
<1>12. ScoresOK' /\ TowerGrows
  BY <1>1, <1>3, <1>6 DEF TowerGrows, Preserved, Grows, TowerInv, ScoresOK
<1>13. QED
  BY <1>3, <1>5, <1>7, <1>9, <1>11, <1>12 DEF n

(* A load that has been answered leaves the tables alone. *)
LEMMA AnswerKeeps ==
  ASSUME IInv, ScoresOK, NEW h \in Handlers, NEW from, Finish(h, from),
         UNCHANGED <<db, scores, seen, unseen>>
  PROVE  IInv' /\ ScoresOK' /\ TowerGrows /\ OnlyMoves(h) /\ pc'[h] = "idle"
<1>1. IInv'
  BY TablesInvHolds, NothingWritten, FinishKeepsInvariant
<1>2. OnlyMoves(h) /\ pc'[h] = "idle"
  BY TablesInvHolds, FinishControl
<1>3. ScoresOK' /\ TowerGrows
  BY DEF db, TowerGrows, ScoresOK
<1>4. QED
  BY <1>1, <1>2, <1>3

-----------------------------------------------------------------------------
(* What a step leaves of the pages *)

LEMMA PageKept ==
  ASSUME TowerInv, IInv', TowerGrows, NEW c \in Clients, pages'[c] = pages[c],
         c \in reloading' => c \in reloading \/ pages[c] # NoPage
  PROVE  PageOK(c)'
<1>1. /\ Len(plans) \in Nat /\ DOMAIN plans = 1..Len(plans)
      /\ Len(approvals) \in Nat /\ DOMAIN approvals = 1..Len(approvals)
  BY TableSizes DEF TowerInv, IInv
<1>2. /\ Len(plans') \in Nat /\ DOMAIN plans' = 1..Len(plans')
      /\ Len(approvals') \in Nat /\ DOMAIN approvals' = 1..Len(approvals')
  BY LenProperties DEF IInv, TablesOK
<1>3. 0..Len(plans) \subseteq 0..Len(plans')
  <2>1. 1..Len(plans) \subseteq 1..Len(plans')
    BY <1>1, <1>2 DEF TowerGrows
  <2>2. QED
    BY <1>1, <1>2, <2>1
<1>4. 0..Len(approvals) \subseteq 0..Len(approvals')
  <2>1. 1..Len(approvals) \subseteq 1..Len(approvals')
    BY <1>1, <1>2 DEF TowerGrows
  <2>2. QED
    BY <1>1, <1>2, <2>1
<1>5. \A i : PlansOf(i) \subseteq PlansOf(i)'
  BY DEF PlansOf, TowerGrows
<1>6. PageOK(c)
  BY DEF TowerInv
<1>7. QED
  BY <1>3, <1>4, <1>5, <1>6 DEF PageOK

LEMMA TowerKept ==
  ASSUME TowerInv, IInv', ScoresOK', TowerGrows,
         NEW h \in Handlers, OnlyMoves(h), LoadOK(h)',
         serving' \in [Handlers -> Clients \cup {Nobody}],
         reloading' \subseteq Clients,
         pages' \in [Clients -> Page \cup {NoPage}],
         \A c \in Clients :
           \/ /\ pages'[c] = pages[c]
              /\ c \in reloading' => c \in reloading \/ pages[c] # NoPage
           \/ PageOK(c)',
         HistoryOK'
  PROVE  TowerInv'
<1>1. \A c \in Clients : PageOK(c)'
  BY PageKept
<1>2. ASSUME NEW g \in Handlers, g # h
      PROVE  LoadOK(g)'
  <2>1. LoadOK(g) /\ pc'[g] = pc[g] /\ ctx'[g] = ctx[g]
    BY <1>2 DEF TowerInv, OnlyMoves
  <2>2. QED
    BY <2>1 DEF LoadOK, TowerGrows
<1>3. QED
  BY <1>1, <1>2 DEF TowerInv

LEMMA HistoryKept ==
  ASSUME HistoryOK, TowerGrows, UNCHANGED <<seen, unseen, dispatched>>
  PROVE  HistoryOK'
BY DEF HistoryOK, TowerGrows

LEMMA OffersType ==
  ASSUME NEW s, NEW p, NEW a
  PROVE  Offers(s, p, a) \in {"decide", "dispatch", "nothing"}
BY DEF Offers

(* The page that serving handler h answers with. *)
Shown(h, a, status) ==
  [incident |-> ctx[h].incident, plan |-> ctx[h].plan, approval |-> a,
   approved |-> status = "APPROVED",
   offers   |-> Offers(ctx[h].incidentSeen, ctx[h].planSeen, status)]

LEMMA ShownPage ==
  ASSUME TowerInv, NEW h \in Handlers, NEW a, NEW status, Show(h, a, status)
  PROVE  \A c \in Clients :
           pages'[c] = IF c = serving[h] THEN Shown(h, a, status) ELSE pages[c]
BY DEF TowerInv, Show, Shown

LEMMA ShowKeeps ==
  ASSUME TowerInv, UNCHANGED <<db, reloading>>, NEW h \in Handlers,
         NEW a \in DOMAIN approvals, NEW status, Show(h, a, status),
         ctx[h].incident \in Incidents, ctx[h].plan \in DOMAIN plans
  PROVE  /\ pages' \in [Clients -> Page \cup {NoPage}]
         /\ \A c \in Clients :
              \/ /\ pages'[c] = pages[c]
                 /\ c \in reloading' => c \in reloading \/ pages[c] # NoPage
              \/ PageOK(c)'
<1> DEFINE r == Shown(h, a, status)
<1>1. /\ Len(plans) \in Nat /\ DOMAIN plans = 1..Len(plans)
      /\ Len(approvals) \in Nat /\ DOMAIN approvals = 1..Len(approvals)
  BY TableSizes DEF TowerInv, IInv
<1>2. /\ ctx[h].plan \in Nat \ {0} /\ ctx[h].plan \in 0..Len(plans)
      /\ a \in Nat \ {0} /\ a \in 0..Len(approvals)
  BY <1>1
<1>3. /\ r \in Page /\ r # NoPage
      /\ r.incident = ctx[h].incident /\ r.plan = ctx[h].plan /\ r.approval = a
  BY <1>2, OffersType DEF Shown, Page, NoPage
<1>4. pages' = [pages EXCEPT ![serving[h]] = r]
  BY DEF Show, Shown
<1> HIDE DEF r
<1>5. pages' \in [Clients -> Page \cup {NoPage}]
  BY <1>3, <1>4 DEF TowerInv
<1>6. ASSUME NEW c \in Clients, c = serving[h]
      PROVE  PageOK(c)'
  <2>1. pages'[c] = r
    BY <1>4, <1>6 DEF TowerInv
  <2>2. UNCHANGED <<plans, approvals>>
    BY DEF db
  <2>3. QED
    BY <1>2, <1>3, <2>1, <2>2 DEF PageOK
<1>7. ASSUME NEW c \in Clients, c # serving[h]
      PROVE  pages'[c] = pages[c]
  BY <1>4, <1>7 DEF TowerInv
<1>8. QED
  BY <1>5, <1>6, <1>7

LEMMA AnsweredType ==
  ASSUME TowerInv, NEW h \in Handlers, Answered(h)
  PROVE  serving' \in [Handlers -> Clients \cup {Nobody}]
BY DEF TowerInv, Answered

LEMMA OpenPageKeeps ==
  ASSUME TowerInv, NEW h \in Handlers, NEW c \in Clients, NEW i \in Incidents,
         OpenPage(h, c, i)
  PROVE  TowerInv' /\ TowerGrows
<1>1. /\ c \notin reloading /\ reloading' = reloading
      /\ pages' = [pages EXCEPT ![c] = NoPage] /\ Load(h, c, i)
  BY DEF OpenPage, Busy
<1>2. /\ IInv' /\ OnlyMoves(h)
      /\ \/ pc'[h] = "load_approval" /\ ctx'[h].plan \in Best(i)
         \/ pc'[h] = "load_plans"
  BY <1>1, LoadKeeps DEF TowerInv
<1>3. /\ UNCHANGED <<plans, approvals, scores, seen, unseen, dispatched>>
      /\ serving' = [serving EXCEPT ![h] = c]
  BY <1>1 DEF Load, db
<1>4. ScoresOK' /\ TowerGrows
  BY <1>3 DEF TowerInv, ScoresOK, TowerGrows
<1>5. LoadOK(h)'
  BY <1>2, <1>3 DEF LoadOK, Best, PlansOf
<1>6. /\ serving' \in [Handlers -> Clients \cup {Nobody}]
      /\ pages' \in [Clients -> Page \cup {NoPage}] /\ reloading' \subseteq Clients
  BY <1>1, <1>3 DEF TowerInv
<1>7. ASSUME NEW d \in Clients, d # c
      PROVE  pages'[d] = pages[d]
  BY <1>1, <1>7 DEF TowerInv
<1>8. PageOK(c)'
  <2>1. pages'[c] = NoPage /\ Len(plans) \in Nat /\ Len(approvals) \in Nat
    BY <1>1, TableSizes DEF TowerInv, IInv
  <2>2. QED
    BY <1>1, <1>3, <2>1 DEF PageOK, NoPage
<1>9. HistoryOK'
  BY <1>3, <1>4, HistoryKept DEF TowerInv
<1>10. QED
  BY <1>1, <1>2, <1>4, <1>5, <1>6, <1>7, <1>8, <1>9, TowerKept

LEMMA ReloadPageKeeps ==
  ASSUME TowerInv, NEW h \in Handlers, NEW c \in Clients, ReloadPage(h, c)
  PROVE  TowerInv' /\ TowerGrows
<1> DEFINE i == pages[c].incident
<1>1. /\ c \in reloading /\ reloading' = reloading \ {c} /\ pages' = pages
      /\ Load(h, c, i)
  BY DEF ReloadPage
<1>2. i \in Incidents
  BY <1>1, ReloadedIncident
<1>3. /\ IInv' /\ OnlyMoves(h)
      /\ \/ pc'[h] = "load_approval" /\ ctx'[h].plan \in Best(i)
         \/ pc'[h] = "load_plans"
  BY <1>1, <1>2, LoadKeeps DEF TowerInv
<1>4. /\ UNCHANGED <<plans, approvals, scores, seen, unseen, dispatched>>
      /\ serving' = [serving EXCEPT ![h] = c]
  BY <1>1 DEF Load, db
<1>5. ScoresOK' /\ TowerGrows
  BY <1>4 DEF TowerInv, ScoresOK, TowerGrows
<1>6. LoadOK(h)'
  BY <1>3, <1>4 DEF LoadOK, Best, PlansOf
<1>7. /\ serving' \in [Handlers -> Clients \cup {Nobody}]
      /\ pages' \in [Clients -> Page \cup {NoPage}] /\ reloading' \subseteq Clients
  BY <1>1, <1>4 DEF TowerInv
<1>8. HistoryOK'
  BY <1>4, <1>5, HistoryKept DEF TowerInv
<1>9. QED
  BY <1>1, <1>3, <1>5, <1>6, <1>7, <1>8, TowerKept

LEMMA GeneratePlanTower ==
  ASSUME TowerInv, NEW h \in Handlers, GeneratePlan(h)
  PROVE  TowerInv' /\ TowerGrows
<1>1. IInv' /\ ScoresOK' /\ TowerGrows /\ OnlyMoves(h)
  BY GeneratePlanKeeps DEF TowerInv
<1>2. pc'[h] = "load_again" /\ UNCHANGED <<serving, pages, reloading, seen, unseen, dispatched>>
  BY DEF GeneratePlan, Goto, pageVars, TowerInv, IInv, ControlOK
<1>3. LoadOK(h)' /\ HistoryOK'
  BY <1>1, <1>2, HistoryKept DEF LoadOK, TowerInv
<1>4. QED
  BY <1>1, <1>2, <1>3, TowerKept DEF TowerInv

LEMMA LoadNewApprovalTower ==
  ASSUME TowerInv, NEW h \in Handlers, LoadNewApproval(h)
  PROVE  TowerInv' /\ TowerGrows
<1>1. /\ IInv' /\ ScoresOK' /\ TowerGrows /\ OnlyMoves(h)
      /\ ctx'[h] = [ctx[h] EXCEPT !.approval = Len(approvals) + 1]
      /\ Len(approvals) + 1 \in DOMAIN approvals'
  BY LoadNewApprovalKeeps
<1>2. UNCHANGED <<serving, pages, reloading, seen, unseen, dispatched>>
  BY DEF LoadNewApproval, pageVars
<1>3. ctx[h].plan \in DOMAIN plans /\ ctx[h] \in Context
  BY Running DEF LoadNewApproval, Goto, TowerInv, LoadOK
<1>4. ctx'[h].plan = ctx[h].plan /\ ctx'[h].approval = Len(approvals) + 1
  BY <1>1, <1>3 DEF Context
<1>5. LoadOK(h)'
  BY <1>1, <1>3, <1>4 DEF LoadOK, TowerGrows
<1>6. HistoryOK'
  BY <1>1, <1>2, HistoryKept DEF TowerInv
<1>7. QED
  BY <1>1, <1>2, <1>5, <1>6, TowerKept DEF TowerInv

(* A page without a plan offers nothing. *)
LEMMA PlanlessPage ==
  ASSUME TowerInv, NEW h \in Handlers, FailDuplicate(h) \/ ShowWithoutPlan(h)
  PROVE  \E r \in Page :
           /\ pages' = [pages EXCEPT ![serving[h]] = r]
           /\ r # NoPage /\ r.plan = 0 /\ r.approval \in 0..Len(approvals)
           /\ r.offers = "nothing"
<1> DEFINE i == ctx[h].incident
<1>1. i \in Incidents
  BY Running DEF FailDuplicate, ShowWithoutPlan, Finish, Goto, TowerInv
<1>2. /\ Len(approvals) \in Nat /\ DOMAIN approvals = 1..Len(approvals)
  BY TableSizes DEF TowerInv, IInv
<1>3. ASSUME NEW a \in 0..Len(approvals), NEW b \in BOOLEAN
      PROVE  LET r == [incident |-> i, plan |-> 0, approval |-> a, approved |-> b,
                       offers |-> "nothing"]
             IN  r \in Page /\ r # NoPage
  <2> HIDE DEF i
  <2>1. i # None /\ a \in Nat
    BY <1>1, <1>2, WorkflowAssumption DEF WorkflowAssumption
  <2>2. QED
    BY <1>1, <2>1 DEF Page, NoPage
<1>4. CASE FailDuplicate(h)
  <2> DEFINE r == [NoPage EXCEPT !.incident = i]
  <2>1. pages' = [pages EXCEPT ![serving[h]] = r]
    BY <1>4 DEF FailDuplicate
  <2>2. /\ r \in Page /\ r # NoPage /\ r.plan = 0 /\ r.approval = 0
        /\ r.offers = "nothing"
    BY <1>1, WorkflowAssumption DEF Page, NoPage, WorkflowAssumption
  <2>3. 0 \in 0..Len(approvals)
    BY <1>2
  <2> HIDE DEF r
  <2>4. QED
    BY <2>1, <2>2, <2>3
<1>5. CASE ShowWithoutPlan(h)
  <2>1. PICK a \in ApprovalsOf(i) \cup {0} :
          pages' = [pages EXCEPT ![serving[h]] =
            [incident |-> i, plan |-> 0, approval |-> a,
             approved |-> a # 0 /\ approvals[a].status = "APPROVED",
             offers   |-> "nothing"]]
    BY <1>5 DEF ShowWithoutPlan
  <2> DEFINE b == a # 0 /\ approvals[a].status = "APPROVED"
             r == [incident |-> i, plan |-> 0, approval |-> a, approved |-> b,
                   offers |-> "nothing"]
  <2>2. a \in 0..Len(approvals)
    BY <1>2 DEF ApprovalsOf
  <2>3. b \in BOOLEAN
    OBVIOUS
  <2>4. pages' = [pages EXCEPT ![serving[h]] = r]
    BY <2>1
  <2> HIDE DEF b
  <2>5. /\ r \in Page /\ r # NoPage /\ r.plan = 0 /\ r.approval = a
        /\ r.offers = "nothing"
    BY <1>3, <2>2, <2>3
  <2> HIDE DEF r
  <2>6. QED
    BY <2>2, <2>4, <2>5
<1>6. QED
  BY <1>4, <1>5

LEMMA PlanlessTower ==
  ASSUME TowerInv, NEW h \in Handlers, FailDuplicate(h) \/ ShowWithoutPlan(h)
  PROVE  TowerInv' /\ TowerGrows
<1>1. PICK from \in {"load_plans", "load_again"} : Finish(h, from)
  BY DEF FailDuplicate, ShowWithoutPlan
<1>2. UNCHANGED <<db, scores, reloading, seen, unseen, dispatched>> /\ Answered(h)
  BY DEF FailDuplicate, ShowWithoutPlan
<1>3. IInv' /\ ScoresOK' /\ TowerGrows /\ OnlyMoves(h) /\ pc'[h] = "idle"
  BY <1>1, <1>2, AnswerKeeps DEF TowerInv
<1>4. PICK r \in Page :
        /\ pages' = [pages EXCEPT ![serving[h]] = r]
        /\ r # NoPage /\ r.plan = 0 /\ r.approval \in 0..Len(approvals)
        /\ r.offers = "nothing"
  BY PlanlessPage
<1>5. pages' \in [Clients -> Page \cup {NoPage}]
  BY <1>4 DEF TowerInv
<1>6. ASSUME NEW c \in Clients
      PROVE  pages'[c] = pages[c] \/ PageOK(c)'
  <2>1. pages'[c] = pages[c] \/ pages'[c] = r
    BY <1>4 DEF TowerInv
  <2>2. Len(plans) \in Nat /\ plans' = plans /\ approvals' = approvals
    BY <1>2, TableSizes DEF TowerInv, IInv, db
  <2>3. CASE pages'[c] = r
    BY <1>4, <2>2, <2>3 DEF PageOK
  <2>4. QED
    BY <2>1, <2>3
<1>7. LoadOK(h)' /\ HistoryOK'
  BY <1>2, <1>3, HistoryKept DEF LoadOK, TowerInv
<1>8. QED
  BY <1>2, <1>3, <1>5, <1>6, <1>7, AnsweredType, TowerKept DEF TowerInv

LEMMA ShowTower ==
  ASSUME TowerInv, NEW h \in Handlers, LoadApproval(h) \/ ShowInserted(h)
  PROVE  TowerInv' /\ TowerGrows
<1>1. PICK from \in {"load_approval", "show_inserted"} : Finish(h, from)
  BY DEF LoadApproval, ShowInserted
<1>2. UNCHANGED <<db, scores, reloading, seen, unseen, dispatched>> /\ Answered(h)
  BY DEF LoadApproval, ShowInserted
<1>3. ctx[h].incident \in Incidents /\ ctx[h].plan \in DOMAIN plans
  BY <1>1, Running DEF Finish, Goto, TowerInv, LoadOK
<1>4. PICK a, status : a \in DOMAIN approvals /\ Show(h, a, status)
  <2>1. CASE LoadApproval(h)
    BY <2>1 DEF LoadApproval, ApprovalsOf
  <2>2. CASE ShowInserted(h)
    <3>1. ctx[h].approval \in DOMAIN approvals
      BY <2>2 DEF ShowInserted, Finish, Goto, TowerInv, LoadOK
    <3>2. QED
      BY <2>2, <3>1 DEF ShowInserted
  <2>3. QED
    BY <2>1, <2>2
<1>5. IInv' /\ ScoresOK' /\ TowerGrows /\ OnlyMoves(h) /\ pc'[h] = "idle"
  BY <1>1, <1>2, AnswerKeeps DEF TowerInv
<1>6. LoadOK(h)' /\ HistoryOK' /\ reloading' \subseteq Clients
  BY <1>2, <1>5, HistoryKept DEF LoadOK, TowerInv
<1>7. QED
  BY <1>2, <1>3, <1>4, <1>5, <1>6, ShowKeeps, AnsweredType, TowerKept

-----------------------------------------------------------------------------
(* The steps of the workflow that a page, or another client, causes *)

LEMMA ButtonRows ==
  ASSUME TowerInv, NEW c \in Clients, pages[c].offers # "nothing"
  PROVE  /\ pages[c] \in Page /\ pages[c] # NoPage
         /\ pages[c].plan \in DOMAIN plans
         /\ pages[c].approval \in DOMAIN approvals
<1>1. PageOK(c) /\ pages[c] \in Page \cup {NoPage}
  BY DEF TowerInv
<1>2. pages[c].plan # 0 /\ pages[c].approval # 0
  BY <1>1 DEF PageOK
<1>3. /\ Len(plans) \in Nat /\ DOMAIN plans = 1..Len(plans)
      /\ Len(approvals) \in Nat /\ DOMAIN approvals = 1..Len(approvals)
  BY TableSizes DEF TowerInv, IInv
<1>4. QED
  BY <1>1, <1>2, <1>3 DEF PageOK, NoPage

(* Every step that is not part of a load is a move of the workflow. *)
PressMove(h, c) == Approve(h, c) \/ Reject(h, c) \/ Dispatch(h, c)

LEMMA PressIsMove ==
  ASSUME TowerInv, NEW h \in Handlers, NEW c \in Clients, PressMove(h, c)
  PROVE  /\ Request(h) /\ WorkflowMove(h)
         /\ pages[c].plan \in DOMAIN plans /\ pages[c].approval \in DOMAIN approvals
         /\ pages[c] \in Page /\ pages[c] # NoPage
<1>1. pages[c].offers # "nothing"
  BY DEF PressMove, Approve, Reject, Dispatch
<1>2. /\ pages[c].plan \in DOMAIN plans /\ pages[c].approval \in DOMAIN approvals
      /\ pages[c] \in Page /\ pages[c] # NoPage
  BY <1>1, ButtonRows
<1>3. Request(h)
  BY <1>2 DEF PressMove, Approve, Reject, Dispatch, Request
<1>4. Scored
  BY DEF PressMove, Approve, Reject, Dispatch, DecideApproval, ExecutePlan, db,
         Press, Scored
<1>5. QED
  BY <1>2, <1>3, <1>4 DEF WorkflowMove

LEMMA OtherIsMove ==
  ASSUME NEW h \in Handlers, OtherRequest(h) \/ WorkflowStep(h)
  PROVE  WorkflowMove(h)
BY DEF OtherRequest, WorkflowStep, Request, WorkflowMove

LEMMA MoveLeavesLoads ==
  ASSUME TowerInv, NEW h \in Handlers, WorkflowMove(h)
  PROVE  LoadOK(h)' /\ pc'[h] \in Labels
<1>1. PICK to \in Labels : pc' = [pc EXCEPT ![h] = to]
  BY LabelsKept DEF WorkflowMove
<1>2. pc'[h] = to
  BY <1>1 DEF TowerInv, IInv, ControlOK
<1>3. QED
  BY <1>2 DEF LoadOK, Labels

LEMMA PressTower ==
  ASSUME TowerInv, NEW h \in Handlers, NEW c \in Clients, PressMove(h, c)
  PROVE  TowerInv' /\ TowerGrows
<1>1. /\ WorkflowMove(h) /\ pages[c] # NoPage
      /\ pages[c].plan \in DOMAIN plans /\ pages[c].approval \in DOMAIN approvals
  BY PressIsMove
<1>2. Press(h, c) /\ seen \subseteq seen' /\ unseen' = unseen
  BY DEF PressMove, Approve, Reject, Dispatch, Press
<1>3. IInv' /\ ScoresOK' /\ TowerGrows /\ OnlyMoves(h)
  BY <1>1, <1>2, WorkflowMoveKeeps DEF TowerInv
<1>4. LoadOK(h)'
  BY <1>1, MoveLeavesLoads
<1>5. pages[c].approved \in BOOLEAN
  BY PressIsMove DEF Page
<1>6. HistoryOK'
  <2>1. /\ seen' \subseteq seen \cup {<<pages[c].approval, pages[c].plan>>}
        /\ dispatched' \subseteq
             dispatched \cup {<<c, pages[c].approval, pages[c].approved>>}
    BY DEF PressMove, Approve, Reject, Dispatch
  <2>2. /\ seen' \subseteq (DOMAIN approvals) \X (DOMAIN plans)
        /\ dispatched' \subseteq Clients \X (DOMAIN approvals) \X BOOLEAN
    BY <1>1, <1>5, <2>1 DEF TowerInv, HistoryOK
  <2>3. QED
    BY <1>2, <1>3, <2>2 DEF HistoryOK, TowerGrows, TowerInv
<1>7. /\ serving' \in [Handlers -> Clients \cup {Nobody}]
      /\ reloading' = reloading \cup {c} /\ pages' = pages
  BY <1>2 DEF Press, TowerInv
<1>8. QED
  BY <1>1, <1>3, <1>4, <1>6, <1>7, TowerKept DEF TowerInv

LEMMA OtherTower ==
  ASSUME TowerInv, NEW h \in Handlers, OtherRequest(h) \/ WorkflowStep(h)
  PROVE  TowerInv' /\ TowerGrows
<1>1. /\ WorkflowMove(h) /\ UNCHANGED <<pages, reloading, seen, dispatched>>
      /\ unseen' \in {unseen, unseen \cup (granted' \ granted)}
  BY OtherIsMove DEF OtherRequest, WorkflowStep, pageVars
<1>2. IInv' /\ ScoresOK' /\ TowerGrows /\ OnlyMoves(h)
  BY <1>1, WorkflowMoveKeeps DEF TowerInv
<1>3. LoadOK(h)'
  BY <1>1, MoveLeavesLoads
<1>a. HistoryOK'
  <2>1. granted' \subseteq DOMAIN approvals'
    BY <1>2 DEF IInv, TablesOK
  <2>2. unseen' \subseteq DOMAIN approvals'
    BY <1>1, <1>2, <2>1 DEF TowerInv, HistoryOK, TowerGrows
  <2>3. QED
    BY <1>1, <1>2, <2>2 DEF TowerInv, HistoryOK, TowerGrows
<1>4. serving' \in [Handlers -> Clients \cup {Nobody}]
  BY AnsweredType DEF OtherRequest, WorkflowStep, TowerInv
<1>5. QED
  BY <1>1, <1>2, <1>3, <1>a, <1>4, TowerKept DEF TowerInv

LEMMA TowerStepKeeps ==
  ASSUME TowerInv, NEW h \in Handlers, TowerStep(h)
  PROVE  TowerInv' /\ TowerGrows
BY OpenPageKeeps, ReloadPageKeeps, GeneratePlanTower, PlanlessTower,
   LoadNewApprovalTower, ShowTower, PressTower, OtherTower
   DEF TowerStep, PressMove

LEMMA TowerInitOK == TowerInit => TowerInv
<1> SUFFICES ASSUME TowerInit
             PROVE  TowerInv
  OBVIOUS
<1>1. IInv
  BY InitOK DEF TowerInit
<1>2. ScoresOK
  BY TowerAssumption DEF TowerInit, ScoresOK, TowerAssumption
<1>3. /\ Len(plans) \in Nat /\ Len(approvals) \in Nat
  BY <1>1, TableSizes DEF IInv
<1>4. \A c \in Clients : PageOK(c)
  BY <1>3 DEF TowerInit, PageOK, NoPage
<1>5. \A h \in Handlers : LoadOK(h)
  BY DEF TowerInit, Init, LoadOK
<1>6. QED
  BY <1>1, <1>2, <1>4, <1>5 DEF TowerInit, TowerInv, HistoryOK

LEMMA TowerStutter ==
  ASSUME TowerInv, UNCHANGED towerVars
  PROVE  TowerInv'
<1>1. UNCHANGED <<db, pc, ctx, started, scores, serving, pages, reloading, seen,
                  unseen, dispatched>>
  BY DEF towerVars, vars, pageVars
<1>2. IInv'
  BY <1>1, StutterKeeps DEF vars, TowerInv
<1>3. plans' = plans /\ approvals' = approvals
  BY <1>1 DEF db
<1>4. QED
  BY <1>1, <1>2, <1>3 DEF TowerInv, ScoresOK, PageOK, PlansOf, LoadOK, HistoryOK

LEMMA TowerNextKeeps == TowerInv /\ [TowerNext]_towerVars => TowerInv'
BY TowerStepKeeps, TowerStutter DEF TowerNext

(* The invariant holds in every reachable state of the incident pages. *)
THEOREM TowerInvariance == TowerSpec => []TowerInv
BY TowerInitOK, TowerNextKeeps, PTL DEF TowerSpec

(* Every reachable state of the pages is well typed: what a page names are    *)
(* rows of the tables, whatever handlers overlap.                           *)
THEOREM TowerTypeCorrectness == TowerSpec => []TowerTypeOK
BY TowerInvariance, TowerTypes, PTL

-----------------------------------------------------------------------------
(* Whom a handler serves *)

(* Who waits for a press to be answered will load its page again. *)
ServeOK(h) ==
  /\ pc[h] = "idle" => serving[h] = Nobody
  /\ pc[h] \notin LoadLabels => serving[h] \in reloading \cup {Nobody}

LEMMA PressLeaves ==
  ASSUME TowerInv, NEW h \in Handlers, NEW c \in Clients, PressMove(h, c)
  PROVE  /\ UNCHANGED <<plans, approvals, scores, pages, granted, unseen>>
         /\ \/ /\ Approve(h, c) /\ pc'[h] = "decide"
               /\ ctx'[h].approval = pages[c].approval
            \/ /\ Reject(h, c) /\ pc'[h] = "decide"
               /\ ctx'[h].decision = "REJECTED"
            \/ /\ Dispatch(h, c) /\ pc'[h] = "exec_audit"
               /\ ctx'[h].plan = pages[c].plan
               /\ ctx'[h].approval = pages[c].approval
               /\ approvals[pages[c].approval].plan = pages[c].plan
<1>1. pc \in [Handlers -> AnyLabel] /\ ctx \in [Handlers -> Context]
  BY DEF TowerInv, IInv, ControlOK
<1>2. Press(h, c)
  BY DEF PressMove, Approve, Reject, Dispatch
<1>3. CASE Approve(h, c) \/ Reject(h, c)
  BY <1>1, <1>2, <1>3 DEF Approve, Reject, DecideApproval, Begin, NoContext, db, Press
<1>4. CASE Dispatch(h, c)
  BY <1>1, <1>2, <1>4 DEF Dispatch, ExecutePlan, Begin, NoContext, db, Press
<1>5. QED
  BY <1>3, <1>4 DEF PressMove

LEMMA StepLoadsNothing ==
  ASSUME NEW h \in Handlers, Step(h)
  PROVE  pc[h] \notin LoadLabels
BY DEF Step, SuggestAnother, SubmitFirst, InsertRequested, AuditRequested,
       InsertDossier, InsertOnDemand, WriteDecision, MarkIncident,
       AuditDecision, AuditExecution, BeginExecution, PlaceOrder, CompletePlan,
       ResolveIncident, AuditExecuted, VerifyExecution, PassIncident, PassPlan,
       AuditPass, FailPlan, AuditFail, ReplanIncident, InsertRevisedPlan,
       InsertRevisedApproval, AuditReplan, Finish, Return, Goto, LoadLabels

LEMMA ServeKept ==
  ASSUME NEW h \in Handlers, TowerInv, ServeOK(h), TowerStep(h)
  PROVE  ServeOK(h)'
<1>1. /\ pc \in [Handlers -> AnyLabel]
      /\ serving \in [Handlers -> Clients \cup {Nobody}]
  BY DEF TowerInv, IInv, ControlOK
<1>2. CASE \/ \E c \in Clients, i \in Incidents : OpenPage(h, c, i)
           \/ \E c \in Clients : ReloadPage(h, c)
  <2>1. \E c \in Clients, i \in Incidents : Load(h, c, i)
    BY <1>2, ReloadedIncident DEF OpenPage, ReloadPage
  <2>2. pc'[h] \in {"load_plans", "load_approval"}
    BY <1>1, <2>1 DEF Load
  <2>3. QED
    BY <2>2 DEF ServeOK, LoadLabels
<1>3. CASE FailDuplicate(h) \/ ShowWithoutPlan(h) \/ LoadApproval(h) \/ ShowInserted(h)
  <2>1. pc'[h] = "idle" /\ Answered(h)
    BY <1>1, <1>3 DEF FailDuplicate, ShowWithoutPlan, LoadApproval, ShowInserted, Finish, Goto
  <2>2. serving'[h] = Nobody
    BY <1>1, <2>1 DEF Answered
  <2>3. QED
    BY <2>2 DEF ServeOK
<1>4. CASE GeneratePlan(h) \/ LoadNewApproval(h)
  BY <1>1, <1>4 DEF GeneratePlan, LoadNewApproval, Goto, ServeOK, LoadLabels
<1>5. CASE \E c \in Clients : PressMove(h, c)
  <2>1. PICK c \in Clients : PressMove(h, c)
    BY <1>5
  <2>2. serving'[h] = c /\ c \in reloading'
    BY <1>1, <2>1 DEF PressMove, Approve, Reject, Dispatch, Press
  <2>3. pc'[h] # "idle"
    BY <2>1, PressLeaves
  <2>4. QED
    BY <2>2, <2>3 DEF ServeOK
<1>6. CASE OtherRequest(h)
  <2>1. pc[h] = "idle"
    BY <1>6 DEF OtherRequest, RecommendPlans, RequestApproval, DecideApproval,
                DecideOnDemand, ExecutePlan, VerifyPlan, HandleAssumptionFailure,
                Begin
  <2>2. UNCHANGED <<serving, reloading>>
    BY <1>6 DEF OtherRequest, pageVars
  <2>3. QED
    BY <2>1, <2>2 DEF ServeOK, LoadLabels
<1>7. CASE WorkflowStep(h)
  <2>1. Answered(h) /\ reloading' = reloading
    BY <1>7 DEF WorkflowStep, pageVars
  <2>2. pc[h] \notin LoadLabels
    BY <1>7, StepLoadsNothing DEF WorkflowStep
  <2>3. CASE pc'[h] = "idle"
    BY <1>1, <2>1, <2>3 DEF Answered, ServeOK
  <2>4. CASE pc'[h] # "idle"
    BY <2>1, <2>2, <2>4 DEF Answered, ServeOK
  <2>5. QED
    BY <2>3, <2>4
<1>8. QED
  BY <1>2, <1>3, <1>4, <1>5, <1>6, <1>7 DEF TowerStep, PressMove

LEMMA ServeInit == ASSUME NEW h \in Handlers, TowerInit
                   PROVE  ServeOK(h)
BY DEF TowerInit, Init, ServeOK

LEMMA ServeStutter ==
  ASSUME NEW h, ServeOK(h), UNCHANGED towerVars
  PROVE  ServeOK(h)'
BY DEF ServeOK, towerVars, vars, pageVars

-----------------------------------------------------------------------------
(* What pages show, when one handler serves all requests and loads *)

(* Every approval is for a plan of its incident. *)
Matched ==
  \A a \in DOMAIN approvals :
    approvals[a].incident = plans[approvals[a].plan].incident

SeenFor(a) == \E e \in seen : e[1] = a

(* An approval that was granted, or is about to be, was on a page, unless a   *)
(* request from no page grants it.                                          *)
GrantsSeen == \A a \in granted : a \in unseen \/ SeenFor(a)

DecideOK(h) ==
  /\ pc[h] = "insert_ondemand" => serving[h] = Nobody
  /\ pc[h] = "decide" /\ ctx[h].decision = "APPROVED" =>
       serving[h] = Nobody \/ SeenFor(ctx[h].approval)

(* The plan displayed with an approval is no worse than the one it is for. *)
SeenRated ==
  \A e \in seen : /\ plans[e[2]].incident = approvals[e[1]].incident
                  /\ scores[approvals[e[1]].plan] <= scores[e[2]]

(* A page that shows its approval as granted shows a plan no worse than the  *)
(* one it was granted with.                                                 *)
PageRated(c) ==
  pages[c].plan # 0 =>
    /\ plans[pages[c].plan].incident = pages[c].incident
    /\ approvals[pages[c].approval].incident = pages[c].incident
    /\ scores[approvals[pages[c].approval].plan] <= scores[pages[c].plan]
    /\ pages[c].approved =>
         \/ pages[c].approval \in unseen
         \/ \E e \in seen : /\ e[1] = pages[c].approval
                            /\ scores[e[2]] <= scores[pages[c].plan]

DispatchRated ==
  \A c \in Clients, a \in DOMAIN approvals : <<c, a, TRUE>> \in dispatched =>
    \/ a \in unseen
    \/ \E e \in seen : e[1] = a /\ scores[e[2]] = scores[approvals[a].plan]

(* The plan read for a page is still the best of its incident. *)
LoadReads(h) ==
  /\ pc[h] \in {"load_approval", "show_inserted"} =>
       ctx[h].plan \in Best(ctx[h].incident)
  /\ pc[h] = "show_inserted" =>
       /\ approvals[ctx[h].approval].plan = ctx[h].plan
       /\ approvals[ctx[h].approval].incident = ctx[h].incident

ShownInv(h) ==
  /\ TowerInv
  /\ Matched /\ GrantsSeen /\ DecideOK(h) /\ SeenRated /\ DispatchRated
  /\ \A c \in Clients : PageRated(c)
  /\ LoadReads(h)

LEMMA ScoreNat ==
  ASSUME ScoresOK, TablesOK, NEW p \in DOMAIN plans
  PROVE  scores[p] \in Nat
<1>1. DOMAIN scores = DOMAIN plans
  BY TableSizes, LenProperties DEF ScoresOK
<1>2. scores[p] \in Scores
  BY <1>1, ElementOfSeq, LenProperties DEF ScoresOK
<1>3. QED
  BY <1>2, TowerAssumption DEF TowerAssumption

(* A pair in seen names an approval, its plan and the plan displayed. *)
LEMMA SeenRows ==
  ASSUME TowerInv, NEW e \in seen
  PROVE  /\ e[1] \in DOMAIN approvals /\ e[2] \in DOMAIN plans
         /\ approvals[e[1]].plan \in DOMAIN plans
         /\ scores[e[2]] \in Nat /\ scores[approvals[e[1]].plan] \in Nat
<1>1. e[1] \in DOMAIN approvals /\ e[2] \in DOMAIN plans
  BY DEF TowerInv, HistoryOK
<1>2. approvals[e[1]].plan \in DOMAIN plans
  BY <1>1, RowsFound DEF TowerInv
<1>3. QED
  BY <1>1, <1>2, ScoreNat DEF TowerInv, IInv

LEMMA ShownImplies ==
  ASSUME NEW h, ShownInv(h)
  PROVE  OrdersAsShown
<1> SUFFICES ASSUME NEW o \in DOMAIN orders, orders[o].plan # 0,
                    orders[o].approval \notin unseen
             PROVE  LET a     == orders[o].approval
                        score == scores[orders[o].plan]
                        shown == {scores[e[2]] : e \in {x \in seen : x[1] = a}}
                    IN  /\ \E s \in shown : s >= score
                        /\ (\E c \in Clients : <<c, a, TRUE>> \in dispatched) =>
                             score \in shown
  BY DEF OrdersAsShown
<1> DEFINE a == orders[o].approval
<1>1. /\ a \in granted /\ approvals[a].plan = orders[o].plan
      /\ a \in DOMAIN approvals /\ a \notin unseen
  BY DEF ShownInv, TowerInv, IInv, TablesOK, OrdersAuthorized
<1>2. PICK e \in seen : e[1] = a
  BY <1>1 DEF ShownInv, GrantsSeen, SeenFor
<1>3. scores[e[2]] >= scores[orders[o].plan]
  BY <1>1, <1>2, SeenRows DEF ShownInv, SeenRated
<1>4. ASSUME NEW c \in Clients, <<c, a, TRUE>> \in dispatched
      PROVE  \E x \in seen : x[1] = a /\ scores[x[2]] = scores[orders[o].plan]
  <2> HIDE DEF a
  <2>1. \E x \in seen : x[1] = a /\ scores[x[2]] = scores[approvals[a].plan]
    BY <1>1, <1>4 DEF ShownInv, DispatchRated
  <2>2. QED
    BY <1>1, <2>1
<1>5. QED
  BY <1>2, <1>3, <1>4

-----------------------------------------------------------------------------
(* The steps keep it *)

LEMMA MatchedByInsert ==
  ASSUME TowerInv, Matched, TowerGrows, NEW p \in DOMAIN plans, NewApproval(p)
  PROVE  Matched'
<1>1. /\ approvals \in Seq(Approval) /\ Len(approvals) \in Nat
      /\ DOMAIN approvals = 1..Len(approvals)
  BY LenProperties DEF TowerInv, IInv, TablesOK
<1>2. /\ DOMAIN approvals' = DOMAIN approvals \cup {Len(approvals) + 1}
      /\ approvals'[Len(approvals) + 1].plan = p
      /\ approvals'[Len(approvals) + 1].incident = plans[p].incident
  BY <1>1 DEF NewApproval
<1>3. \A a \in DOMAIN approvals : approvals[a].plan \in DOMAIN plans
  BY RowsFound DEF TowerInv
<1>4. QED
  BY <1>2, <1>3 DEF Matched, TowerGrows

LEMMA MatchedUnwritten ==
  ASSUME TowerInv, Matched, TowerGrows, DOMAIN approvals' = DOMAIN approvals
  PROVE  Matched'
<1>1. \A a \in DOMAIN approvals : approvals[a].plan \in DOMAIN plans
  BY RowsFound DEF TowerInv
<1>2. QED
  BY <1>1 DEF Matched, TowerGrows

LEMMA MatchedKept ==
  ASSUME TowerInv, Matched, NEW h \in Handlers, TowerStep(h)
  PROVE  Matched'
<1>1. TowerGrows
  BY TowerStepKeeps
<1>2. CASE WorkflowMove(h)
  <2>1. HandlerOK(h)
    BY Running DEF TowerInv
  <2>2. CASE NewApproval(ctx[h].plan) /\ pc[h] \in {"insert_requested",
                                         "insert_dossier", "insert_ondemand"}
    <3>1. ctx[h].plan \in DOMAIN plans
      BY <2>1, <2>2 DEF HandlerOK, WithPlan, Labels
    <3>2. QED
      BY <1>1, <2>2, <3>1, MatchedByInsert
  <2>3. CASE NewApproval(ctx[h].revised) /\ pc[h] = "replan_approval"
    BY <1>1, <2>1, <2>3, MatchedByInsert DEF HandlerOK
  <2>4. CASE UNCHANGED approvals \/ WriteDecision(h)
    <3>1. DOMAIN approvals' = DOMAIN approvals
      BY <2>4 DEF WriteDecision
    <3>2. QED
      BY <1>1, <3>1, MatchedUnwritten
  <2>5. QED
    BY <1>2, <2>2, <2>3, <2>4, ApprovalsWritten DEF WorkflowMove
<1>3. CASE LoadNewApproval(h)
  <2>1. ctx[h].plan \in DOMAIN plans
    BY <1>3 DEF LoadNewApproval, Goto, TowerInv, LoadOK
  <2>2. QED
    BY <1>1, <1>3, <2>1, MatchedByInsert DEF LoadNewApproval
<1>4. CASE LoadMove(h) /\ ~LoadNewApproval(h)
  <2>1. UNCHANGED approvals
    BY <1>4 DEF LoadMove, OpenPage, ReloadPage, Load, GeneratePlan, FailDuplicate, ShowWithoutPlan,
                LoadApproval, ShowInserted, db
  <2>2. QED
    BY <1>1, <2>1, MatchedUnwritten, SMTT(30)
<1>5. QED
  BY <1>2, <1>3, <1>4, PressIsMove, OtherIsMove DEF TowerStep, LoadMove, PressMove

LEMMA SeenRatedKept ==
  ASSUME TowerInv, SeenRated, TowerGrows, seen' = seen
  PROVE  SeenRated'
<1> SUFFICES ASSUME NEW e \in seen
             PROVE  /\ plans'[e[2]].incident = approvals'[e[1]].incident
                    /\ scores'[approvals'[e[1]].plan] <= scores'[e[2]]
  BY DEF SeenRated
<1>1. /\ e[1] \in DOMAIN approvals /\ e[2] \in DOMAIN plans
      /\ approvals[e[1]].plan \in DOMAIN plans
  BY SeenRows
<1>2. QED
  BY <1>1 DEF SeenRated, TowerGrows

LEMMA DispatchRatedKept ==
  ASSUME TowerInv, DispatchRated, TowerGrows, dispatched' = dispatched
  PROVE  DispatchRated'
<1> SUFFICES ASSUME NEW c \in Clients, NEW a \in DOMAIN approvals',
                    <<c, a, TRUE>> \in dispatched
             PROVE  \/ a \in unseen'
                    \/ \E e \in seen' : /\ e[1] = a
                                        /\ scores'[e[2]] = scores'[approvals'[a].plan]
  BY DEF DispatchRated
<1> SUFFICES ASSUME a \notin unseen
             PROVE  \E e \in seen' : /\ e[1] = a
                                     /\ scores'[e[2]] = scores'[approvals'[a].plan]
  BY DEF TowerGrows
<1>1. a \in DOMAIN approvals
  BY DEF TowerInv, HistoryOK
<1>2. PICK e \in seen : e[1] = a /\ scores[e[2]] = scores[approvals[a].plan]
  BY <1>1 DEF DispatchRated
<1>3. e[2] \in DOMAIN plans /\ approvals[a].plan \in DOMAIN plans
  BY <1>2, SeenRows
<1>4. /\ approvals'[a].plan = approvals[a].plan /\ e \in seen'
      /\ scores'[e[2]] = scores[e[2]]
      /\ scores'[approvals[a].plan] = scores[approvals[a].plan]
  BY <1>1, <1>3 DEF TowerGrows
<1>5. QED
  BY <1>2, <1>4

LEMMA PageRatedKept ==
  ASSUME TowerInv, TowerGrows, NEW c \in Clients, PageRated(c),
         pages'[c] = pages[c]
  PROVE  PageRated(c)'
<1> SUFFICES ASSUME pages[c].plan # 0
             PROVE  PageRated(c)'
  BY DEF PageRated
<1> DEFINE p == pages[c].plan
           a == pages[c].approval
<1>1. p \in DOMAIN plans /\ a \in DOMAIN approvals
  <2>1. /\ Len(plans) \in Nat /\ DOMAIN plans = 1..Len(plans)
        /\ Len(approvals) \in Nat /\ DOMAIN approvals = 1..Len(approvals)
    BY TableSizes DEF TowerInv, IInv
  <2>2. PageOK(c)
    BY DEF TowerInv
  <2>3. QED
    BY <2>1, <2>2 DEF PageOK
<1>2. approvals[a].plan \in DOMAIN plans
  BY <1>1, RowsFound DEF TowerInv
<1>3. /\ plans'[p].incident = plans[p].incident /\ scores'[p] = scores[p]
      /\ approvals'[a].plan = approvals[a].plan
      /\ approvals'[a].incident = approvals[a].incident
      /\ scores'[approvals[a].plan] = scores[approvals[a].plan]
  BY <1>1, <1>2 DEF TowerGrows
<1>4. ASSUME NEW e \in seen
      PROVE  e \in seen' /\ scores'[e[2]] = scores[e[2]]
  BY SeenRows DEF TowerGrows
<1>5. ASSUME pages[c].approved
      PROVE  \/ a \in unseen'
             \/ \E e \in seen' : e[1] = a /\ scores'[e[2]] <= scores'[p]
  <2>1. CASE a \in unseen
    BY <2>1 DEF TowerGrows
  <2>2. CASE \E e \in seen : e[1] = a /\ scores[e[2]] <= scores[p]
    BY <1>3, <1>4, <2>2
  <2>3. QED
    BY <1>5, <2>1, <2>2 DEF PageRated
<1>6. /\ plans[p].incident = pages[c].incident
      /\ approvals[a].incident = pages[c].incident
      /\ scores[approvals[a].plan] <= scores[p]
  BY DEF PageRated
<1>7. QED
  BY <1>3, <1>5, <1>6 DEF PageRated

LEMMA GrantedAfter ==
  ASSUME NEW h \in Handlers, Request(h) \/ Step(h)
  PROVE  granted' \subseteq
           granted \cup {a \in {ctx[h].approval} :
                           pc[h] = "decide" /\ ctx[h].decision = "APPROVED"}
<1>1. CASE Request(h)
  BY <1>1
     DEF Request, RecommendPlans, RequestApproval, OpenDossier, DecideApproval,
         DecideOnDemand, ExecutePlan, VerifyPlan, HandleAssumptionFailure, db
<1>2. CASE WriteDecision(h)
  BY <1>2 DEF WriteDecision, Goto
<1>3. CASE Step(h) /\ ~WriteDecision(h)
  BY <1>3
     DEF Step, SuggestAnother, SubmitFirst, InsertRequested, AuditRequested,
         InsertDossier, InsertOnDemand, MarkIncident,
         AuditDecision, AuditExecution, BeginExecution, PlaceOrder,
         CompletePlan, ResolveIncident, AuditExecuted, VerifyExecution,
         PassIncident, PassPlan, AuditPass, FailPlan, AuditFail,
         ReplanIncident, InsertRevisedPlan, InsertRevisedApproval,
         AuditReplan, Finish, Return, Goto, db
<1>4. QED
  BY <1>1, <1>2, <1>3

LEMMA GrantsSeenKept ==
  ASSUME NEW h \in Handlers, TowerInv, GrantsSeen, DecideOK(h), TowerGrows,
         OtherRequest(h) \/ WorkflowStep(h)
  PROVE  GrantsSeen'
<1>1. Request(h) \/ Step(h)
  BY OtherIsMove DEF WorkflowMove
<1> SUFFICES ASSUME NEW a \in granted', a \notin granted
             PROVE  a \in unseen' \/ SeenFor(a)'
  BY DEF GrantsSeen, SeenFor, TowerGrows
<1>2. a = ctx[h].approval /\ pc[h] = "decide" /\ ctx[h].decision = "APPROVED"
  BY <1>1, GrantedAfter
<1>3. CASE SeenFor(a)
  BY <1>3 DEF SeenFor, TowerGrows
<1>4. CASE serving[h] = Nobody
  <2>1. WorkflowStep(h)
    BY <1>2 DEF OtherRequest, RecommendPlans, RequestApproval, DecideApproval,
                DecideOnDemand, ExecutePlan, VerifyPlan, HandleAssumptionFailure,
                Begin
  <2>2. QED
    BY <1>4, <2>1 DEF WorkflowStep
<1>5. QED
  BY <1>2, <1>3, <1>4 DEF DecideOK

LEMMA GrantsSeenUnwritten ==
  ASSUME GrantsSeen, TowerGrows, granted' = granted
  PROVE  GrantsSeen'
BY DEF GrantsSeen, SeenFor, TowerGrows

(* Whatever a handler does between requests and loads, no load is under way. *)
LEMMA MoveReadsNothing ==
  ASSUME TowerInv, NEW h \in Handlers, WorkflowMove(h)
  PROVE  LoadReads(h)'
BY MoveLeavesLoads DEF LoadReads, Labels

LEMMA OtherDecides ==
  ASSUME TowerInv, NEW h \in Handlers, DecideOK(h), ServeOK(h),
         OtherRequest(h) \/ WorkflowStep(h)
  PROVE  DecideOK(h)'
<1>1. pc \in [Handlers -> AnyLabel] /\ IInv
  BY SMTT(30) DEF TowerInv, IInv, ControlOK
<1>2. CASE OtherRequest(h)
  <2>1. pc[h] = "idle" /\ serving' = serving
    BY <1>2 DEF OtherRequest, RecommendPlans, RequestApproval, DecideApproval,
                DecideOnDemand, ExecutePlan, VerifyPlan, HandleAssumptionFailure,
                Begin
  <2>2. QED
    BY <2>1 DEF ServeOK, DecideOK
<1>3. CASE WorkflowStep(h)
  <2>1. pc'[h] # "insert_ondemand" /\ (pc'[h] = "decide" => pc[h] = "insert_ondemand")
    BY <1>1, <1>3, StepLabels DEF WorkflowStep
  <2>2. pc'[h] = "decide" => serving' = serving
    BY <1>3 DEF WorkflowStep, Answered
  <2>3. QED
    BY <2>1, <2>2 DEF DecideOK
<1>4. QED
  BY <1>2, <1>3

LEMMA ShownOther ==
  ASSUME NEW h \in Handlers, ShownInv(h), ServeOK(h),
         OtherRequest(h) \/ WorkflowStep(h)
  PROVE  ShownInv(h)'
<1>1. TowerInv' /\ TowerGrows /\ WorkflowMove(h)
  BY OtherTower, OtherIsMove DEF ShownInv
<1>2. UNCHANGED <<pages, seen, dispatched>>
  BY DEF OtherRequest, WorkflowStep, pageVars
<1>3. Matched'
  BY MatchedKept DEF ShownInv, TowerStep
<1>4. GrantsSeen' /\ DecideOK(h)' /\ LoadReads(h)'
  BY <1>1, GrantsSeenKept, OtherDecides, MoveReadsNothing DEF ShownInv
<1>5. SeenRated' /\ DispatchRated'
  BY <1>1, <1>2, SeenRatedKept, DispatchRatedKept DEF ShownInv
<1>6. \A c \in Clients : PageRated(c)'
  BY <1>1, <1>2, PageRatedKept DEF ShownInv
<1>7. QED
  BY <1>1, <1>3, <1>4, <1>5, <1>6 DEF ShownInv

LEMMA ShownPress ==
  ASSUME NEW h \in Handlers, ShownInv(h), NEW c \in Clients, PressMove(h, c)
  PROVE  ShownInv(h)'
<1> DEFINE p == pages[c].plan
           a == pages[c].approval
<1>1. TowerInv' /\ TowerGrows /\ WorkflowMove(h)
  BY PressTower, PressIsMove DEF ShownInv
<1>2. /\ p \in DOMAIN plans /\ a \in DOMAIN approvals /\ p # 0
      /\ UNCHANGED <<plans, approvals, scores, pages, granted, unseen>>
  BY PressIsMove, PressLeaves, RowsFound, TableSizes DEF ShownInv, TowerInv, IInv
<1>3. /\ plans[p].incident = approvals[a].incident
      /\ scores[approvals[a].plan] <= scores[p]
      /\ pages[c].approved =>
           a \in unseen \/ \E e \in seen : e[1] = a /\ scores[e[2]] <= scores[p]
  BY <1>2 DEF ShownInv, PageRated
<1>4. Matched'
  BY MatchedKept DEF ShownInv, TowerStep, PressMove
<1>5. GrantsSeen' /\ LoadReads(h)'
  BY <1>1, <1>2, GrantsSeenUnwritten, MoveReadsNothing DEF ShownInv
<1>6. \A d \in Clients : PageRated(d)'
  BY <1>1, <1>2, PageRatedKept DEF ShownInv
<1>7. DecideOK(h)' /\ SeenRated' /\ DispatchRated'
  <2>1. CASE /\ Approve(h, c) /\ pc'[h] = "decide" /\ ctx'[h].approval = a
    <3>1. seen' = seen \cup {<<a, p>>} /\ dispatched' = dispatched
      BY <2>1 DEF Approve
    <3>2. DecideOK(h)'
      <4> DEFINE e == <<a, p>>
      <4>1. e \in seen' /\ e[1] = ctx'[h].approval
        BY <2>1, <3>1
      <4> HIDE DEF e
      <4>2. QED
        BY <2>1, <4>1 DEF DecideOK, SeenFor
    <3>3. SeenRated'
      BY <1>2, <1>3, <3>1 DEF ShownInv, SeenRated
    <3>4. QED
      BY <1>1, <3>1, <3>2, <3>3, DispatchRatedKept DEF ShownInv
  <2>2. CASE Reject(h, c) /\ pc'[h] = "decide" /\ ctx'[h].decision = "REJECTED"
    <3>1. seen' = seen /\ dispatched' = dispatched
      BY <2>2 DEF Reject
    <3>2. QED
      BY <1>1, <2>2, <3>1, SeenRatedKept, DispatchRatedKept DEF ShownInv, DecideOK
  <2>3. CASE Dispatch(h, c) /\ pc'[h] = "exec_audit" /\ approvals[a].plan = p
    <3>1. seen' = seen /\ dispatched' = dispatched \cup {<<c, a, pages[c].approved>>}
      BY <2>3 DEF Dispatch
    <3>2. ASSUME pages[c].approved, a \notin unseen
          PROVE  \E e \in seen : e[1] = a /\ scores[e[2]] = scores[p]
      <4>1. PICK e \in seen : e[1] = a /\ scores[e[2]] <= scores[p]
        BY <1>3, <3>2
      <4>2. scores[p] <= scores[e[2]]
        BY <2>3, <4>1 DEF ShownInv, SeenRated
      <4>3. scores[p] \in Nat /\ scores[e[2]] \in Nat
        BY <1>2, SeenRows, ScoreNat DEF ShownInv, TowerInv, IInv
      <4>4. QED
        BY <4>1, <4>2, <4>3
    <3>3. DispatchRated'
      <4> SUFFICES ASSUME NEW d \in Clients, NEW b \in DOMAIN approvals,
                          <<d, b, TRUE>> \in dispatched', b \notin unseen
                   PROVE  \E e \in seen : /\ e[1] = b
                                          /\ scores[e[2]] = scores[approvals[b].plan]
        BY <1>2, <3>1 DEF DispatchRated
      <4>1. CASE <<d, b, TRUE>> \in dispatched
        BY <4>1 DEF ShownInv, DispatchRated
      <4>2. CASE b = a /\ pages[c].approved
        BY <2>3, <3>2, <4>2
      <4> HIDE DEF a
      <4>3. <<d, b, TRUE>> \in dispatched \/ (b = a /\ pages[c].approved = TRUE)
        BY <3>1
      <4>4. QED
        BY <4>1, <4>2, <4>3
    <3>4. QED
      BY <1>1, <2>3, <3>1, <3>3, SeenRatedKept DEF ShownInv, DecideOK
  <2>4. QED
    BY <2>1, <2>2, <2>3, PressLeaves DEF ShownInv
<1>8. QED
  BY <1>1, <1>4, <1>5, <1>6, <1>7 DEF ShownInv

LEMMA LoadMoveLeaves ==
  ASSUME TowerInv, NEW h \in Handlers, LoadMove(h)
  PROVE  /\ TowerInv' /\ TowerGrows
         /\ UNCHANGED <<granted, seen, unseen, dispatched>>
         /\ pc'[h] \in LoadLabels \cup {"idle"}
<1>1. TowerInv' /\ TowerGrows
  BY TowerStepKeeps DEF LoadMove, TowerStep
<1>2. UNCHANGED <<granted, seen, unseen, dispatched>>
  BY DEF LoadMove, OpenPage, ReloadPage, Load, GeneratePlan, FailDuplicate, ShowWithoutPlan,
         LoadApproval, LoadNewApproval, ShowInserted, db, pageVars
<1>3. pc \in [Handlers -> AnyLabel]
  BY DEF TowerInv, IInv, ControlOK
<1>4. pc'[h] \in LoadLabels \cup {"idle"}
  BY <1>3 DEF LoadMove, OpenPage, ReloadPage, Load, GeneratePlan, FailDuplicate, ShowWithoutPlan,
              LoadApproval, LoadNewApproval, ShowInserted, Goto, Finish, LoadLabels
<1>5. QED
  BY <1>1, <1>2, <1>4

(* The page shown is rated when what was read for it still holds. *)
LEMMA ShownIsRated ==
  ASSUME NEW h \in Handlers, ShownInv(h), NEW a \in DOMAIN approvals, NEW status,
         approvals[a].incident = ctx[h].incident,
         ctx[h].plan \in Best(ctx[h].incident),
         status = "APPROVED" => a \in granted,
         Show(h, a, status), UNCHANGED <<plans, approvals, scores, seen, unseen>>,
         NEW c \in Clients, PageRated(c)
  PROVE  PageRated(c)'
<1>1. CASE c # serving[h]
  BY <1>1, ShownPage DEF ShownInv, PageRated
<1>2. CASE c = serving[h]
  <2> DEFINE p == ctx[h].plan
             i == ctx[h].incident
  <2>1. pages'[c] = Shown(h, a, status)
    BY <1>2, ShownPage DEF ShownInv
  <2>2. /\ pages'[c].plan = p /\ pages'[c].approval = a
        /\ pages'[c].incident = i /\ pages'[c].approved = (status = "APPROVED")
    BY <2>1 DEF Shown
  <2>3. /\ p \in DOMAIN plans /\ plans[p].incident = i
        /\ \A q \in DOMAIN plans : plans[q].incident = i => scores[q] <= scores[p]
    BY DEF Best, PlansOf
  <2>4. approvals[a].plan \in DOMAIN plans /\ plans[approvals[a].plan].incident = i
    BY RowsFound DEF ShownInv, Matched, TowerInv
  <2>5. ASSUME status = "APPROVED", a \notin unseen
        PROVE  \E e \in seen : e[1] = a /\ scores[e[2]] <= scores[p]
    <3>1. PICK e \in seen : e[1] = a
      BY <2>5 DEF ShownInv, GrantsSeen, SeenFor
    <3>2. e[2] \in DOMAIN plans /\ plans[e[2]].incident = i
      BY <3>1, SeenRows DEF ShownInv, SeenRated
    <3>3. QED
      BY <2>3, <3>1, <3>2
  <2> HIDE DEF p, i
  <2>6. scores[approvals[a].plan] <= scores[p]
    BY <2>3, <2>4
  <2>7. /\ plans'[p].incident = i /\ approvals'[a].incident = i
        /\ scores'[approvals'[a].plan] <= scores'[p]
        /\ status = "APPROVED" =>
             \/ a \in unseen'
             \/ \E e \in seen' : e[1] = a /\ scores'[e[2]] <= scores'[p]
    BY <2>3, <2>5, <2>6 DEF i
  <2>8. QED
    BY Zenon, <2>2, <2>7 DEF PageRated
<1>3. QED
  BY <1>1, <1>2

LEMMA PagesRatedLoad ==
  ASSUME NEW h \in Handlers, ShownInv(h), LoadMove(h)
  PROVE  \A c \in Clients : PageRated(c)'
<1>1. TowerInv /\ TowerGrows /\ \A c \in Clients : PageRated(c)
  BY LoadMoveLeaves DEF ShownInv
<1>2. CASE \/ \E c \in Clients : ReloadPage(h, c)
           \/ GeneratePlan(h) \/ LoadNewApproval(h)
  <2>1. pages' = pages
    BY <1>2 DEF ReloadPage, GeneratePlan, LoadNewApproval, pageVars
  <2>2. QED
    BY <1>1, <2>1, PageRatedKept
<1>3. CASE \/ \E c \in Clients, i \in Incidents : OpenPage(h, c, i)
           \/ FailDuplicate(h) \/ ShowWithoutPlan(h)
  <2>1. ASSUME NEW c \in Clients
        PROVE  pages'[c] = pages[c] \/ pages'[c].plan = 0
    <3>1. CASE FailDuplicate(h) \/ ShowWithoutPlan(h)
      BY <1>1, <3>1, PlanlessPage DEF TowerInv
    <3>2. CASE \E d \in Clients, i \in Incidents : OpenPage(h, d, i)
      BY <1>1, <3>2 DEF OpenPage, NoPage, TowerInv
    <3>3. QED
      BY <1>3, <3>1, <3>2
  <2>2. QED
    BY <1>1, <2>1, PageRatedKept DEF PageRated
<1>4. CASE LoadApproval(h)
  <2>1. PICK a \in ApprovalsOf(ctx[h].incident) : Show(h, a, approvals[a].status)
    BY <1>4 DEF LoadApproval
  <2>2. /\ a \in DOMAIN approvals /\ approvals[a].incident = ctx[h].incident
        /\ approvals[a].status = "APPROVED" => a \in granted
    BY <1>1 DEF ApprovalsOf, TowerInv, IInv, ApprovalsOK
  <2>3. /\ ctx[h].plan \in Best(ctx[h].incident)
        /\ UNCHANGED <<plans, approvals, scores, seen, unseen>>
    BY <1>4 DEF LoadApproval, Finish, Goto, ShownInv, LoadReads, db
  <2>4. QED
    BY <1>1, <2>1, <2>2, <2>3, ShownIsRated
<1>5. CASE ShowInserted(h)
  <2>1. /\ pc[h] = "show_inserted" /\ Show(h, ctx[h].approval, "PENDING")
        /\ UNCHANGED <<plans, approvals, scores, seen, unseen>>
    BY <1>5 DEF ShowInserted, Finish, Goto, db
  <2>2. /\ ctx[h].approval \in DOMAIN approvals
        /\ approvals[ctx[h].approval].incident = ctx[h].incident
        /\ ctx[h].plan \in Best(ctx[h].incident)
    BY <1>1, <2>1 DEF TowerInv, LoadOK, ShownInv, LoadReads
  <2>3. QED
    BY <1>1, <2>1, <2>2, ShownIsRated
<1>6. QED
  BY <1>2, <1>3, <1>4, <1>5 DEF LoadMove

LEMMA LoadReadsLoad ==
  ASSUME NEW h \in Handlers, ShownInv(h), LoadMove(h)
  PROVE  LoadReads(h)'
<1>1. TowerInv
  BY DEF ShownInv
<1>2. ASSUME NEW c \in Clients, NEW i \in Incidents, Load(h, c, i)
      PROVE  LoadReads(h)'
  <2>1. /\ ctx'[h].incident = i
        /\ \/ pc'[h] = "load_approval" /\ ctx'[h].plan \in Best(i)
           \/ pc'[h] = "load_plans"
    BY <1>1, <1>2, LoadKeeps DEF TowerInv
  <2>2. UNCHANGED <<plans, scores>>
    BY <1>2 DEF Load, db
  <2>3. QED
    BY <2>1, <2>2 DEF LoadReads, Best, PlansOf
<1>3. CASE \/ \E c \in Clients, i \in Incidents : OpenPage(h, c, i)
           \/ \E c \in Clients : ReloadPage(h, c)
  BY <1>1, <1>2, <1>3, ReloadedIncident DEF OpenPage, ReloadPage
<1>4. CASE LoadNewApproval(h)
  <2> DEFINE n == Len(approvals) + 1
  <2>1. /\ pc[h] = "load_approval" /\ NewApproval(ctx[h].plan)
        /\ UNCHANGED <<plans, scores>>
    BY <1>4 DEF LoadNewApproval, Goto
  <2>2. ctx[h].plan \in Best(ctx[h].incident) /\ ctx[h] \in Context
    BY <1>1, <2>1, Running DEF ShownInv, LoadReads, TowerInv
  <2>3. ctx'[h] = [ctx[h] EXCEPT !.approval = n]
    BY <1>1, <1>4, LoadNewApprovalKeeps
  <2>4. approvals \in Seq(Approval) /\ Len(approvals) \in Nat
    BY <1>1, LenProperties DEF TowerInv, IInv, TablesOK
  <2>5. approvals'[n].plan = ctx[h].plan /\ approvals'[n].incident = plans[ctx[h].plan].incident
    BY <2>1, <2>4 DEF NewApproval
  <2> HIDE DEF n
  <2>6. /\ ctx'[h].plan = ctx[h].plan /\ ctx'[h].incident = ctx[h].incident
        /\ ctx'[h].approval = n
    BY <2>2, <2>3 DEF Context
  <2>7. plans[ctx[h].plan].incident = ctx[h].incident
    BY <2>2 DEF Best, PlansOf
  <2>8. (ctx[h].plan \in Best(ctx[h].incident))'
    BY <2>1, <2>2, <2>6 DEF Best, PlansOf
  <2>9. QED
    BY <2>5, <2>6, <2>7, <2>8 DEF LoadReads
<1>5. CASE \/ GeneratePlan(h) \/ FailDuplicate(h) \/ ShowWithoutPlan(h)
           \/ LoadApproval(h) \/ ShowInserted(h)
  <2>1. pc'[h] \in {"load_again", "idle"}
    BY <1>1, <1>5 DEF GeneratePlan, FailDuplicate, ShowWithoutPlan, LoadApproval, ShowInserted,
                      Finish, Goto, TowerInv, IInv, ControlOK
  <2>2. QED
    BY <2>1 DEF LoadReads
<1>6. QED
  BY <1>3, <1>4, <1>5 DEF LoadMove

LEMMA ShownLoad ==
  ASSUME NEW h \in Handlers, ShownInv(h), LoadMove(h)
  PROVE  ShownInv(h)'
<1>1. /\ TowerInv /\ TowerInv' /\ TowerGrows
      /\ UNCHANGED <<granted, seen, dispatched>>
      /\ pc'[h] \in LoadLabels \cup {"idle"}
  BY LoadMoveLeaves DEF ShownInv
<1>2. Matched'
  BY <1>1, MatchedKept DEF ShownInv, LoadMove, TowerStep
<1>3. GrantsSeen' /\ DecideOK(h)'
  BY <1>1, GrantsSeenUnwritten DEF ShownInv, DecideOK, LoadLabels
<1>4. SeenRated' /\ DispatchRated'
  BY <1>1, SeenRatedKept, DispatchRatedKept DEF ShownInv
<1>5. QED
  BY <1>1, <1>2, <1>3, <1>4, PagesRatedLoad, LoadReadsLoad DEF ShownInv

LEMMA ShownInit == ASSUME NEW h \in Handlers, TowerInit
                   PROVE  ShownInv(h)
<1>1. TowerInv /\ approvals = <<>> /\ granted = {} /\ seen = {} /\ dispatched = {}
  BY TowerInitOK DEF TowerInit, Init
<1>2. pc[h] = "idle" /\ \A c \in Clients : pages[c].plan = 0
  BY DEF TowerInit, Init, NoPage
<1>3. DOMAIN approvals = {}
  BY <1>1
<1>4. QED
  BY <1>1, <1>2, <1>3 DEF ShownInv, Matched, GrantsSeen, DecideOK, SeenRated,
                           DispatchRated, PageRated, LoadReads

LEMMA ShownStutter ==
  ASSUME NEW h \in Handlers, ShownInv(h), UNCHANGED towerVars
  PROVE  ShownInv(h)'
<1>1. UNCHANGED <<plans, approvals, granted, pc, ctx, scores, pages,
                serving, seen, unseen, dispatched>>
  BY DEF towerVars, vars, db, pageVars
<1>2. TowerInv'
  BY TowerStutter DEF ShownInv
<1>3. QED
  BY <1>1, <1>2 DEF ShownInv, Matched, GrantsSeen, SeenFor, DecideOK, SeenRated,
                    DispatchRated, PageRated, LoadReads, Best, PlansOf

(* When one handler serves all requests and loads, an order buys a plan no   *)
(* better than the one displayed where its approval was granted, and one     *)
(* that tied with it if a page that showed the approval as granted ordered.  *)
THEOREM OrdersShown ==
  ASSUME NEW h, Handlers = {h}
  PROVE  TowerSpec => []OrdersAsShown
<1> DEFINE J == ShownInv(h) /\ ServeOK(h)
<1>1. TowerInit => J
  BY ShownInit, ServeInit
<1>2. J /\ [TowerNext]_towerVars => J'
  <2> SUFFICES ASSUME J, [TowerNext]_towerVars
               PROVE  J'
    OBVIOUS
  <2>1. CASE TowerStep(h)
    <3>1. ServeOK(h)'
      BY <2>1, ServeKept DEF ShownInv
    <3>2. ShownInv(h)'
      BY <2>1, ShownLoad, ShownPress, ShownOther DEF TowerStep, LoadMove, PressMove
    <3>3. QED
      BY <3>1, <3>2
  <2>2. CASE UNCHANGED towerVars
    BY <2>2, ShownStutter, ServeStutter
  <2>3. QED
    BY <2>1, <2>2 DEF TowerNext
<1>3. J => OrdersAsShown
  BY ShownImplies
<1>4. QED
  BY <1>1, <1>2, <1>3, PTL DEF TowerSpec

-----------------------------------------------------------------------------
(* The status columns agree under the pages too *)

LEMMA LoadTables ==
  ASSUME TowerInv, NEW h \in Handlers, LoadMove(h)
  PROVE  /\ pc[h] \in LoadLabels \cup {"idle"}
         /\ incidents' = incidents
         /\ DOMAIN plans \subseteq DOMAIN plans'
         /\ \A p \in DOMAIN plans : /\ plans'[p].status = plans[p].status
                                    /\ plans'[p].incident = plans[p].incident
         /\ DOMAIN approvals \subseteq DOMAIN approvals'
         /\ \A a \in DOMAIN approvals : approvals'[a] = approvals[a]
<1>1. pc[h] \in LoadLabels \cup {"idle"} /\ incidents' = incidents
  BY DEF LoadMove, OpenPage, ReloadPage, Load, GeneratePlan, FailDuplicate, ShowWithoutPlan,
         LoadApproval, LoadNewApproval, ShowInserted, Finish, Goto, LoadLabels, db
<1>2. /\ plans \in Seq(Plan) /\ Len(plans) \in Nat /\ DOMAIN plans = 1..Len(plans)
      /\ approvals \in Seq(Approval) /\ Len(approvals) \in Nat
      /\ DOMAIN approvals = 1..Len(approvals)
  BY LenProperties DEF TowerInv, IInv, TablesOK
<1>3. CASE GeneratePlan(h)
  <2>1. approvals' = approvals /\ \E r : plans' = Append(plans, r)
    BY <1>3 DEF GeneratePlan, NewPlan
  <2>2. DOMAIN plans \subseteq DOMAIN plans' /\ \A p \in DOMAIN plans : plans'[p] = plans[p]
    BY <1>2, <2>1
  <2>3. QED
    BY <1>1, <2>1, <2>2
<1>4. CASE LoadNewApproval(h)
  <2>1. plans' = plans /\ \E r : approvals' = Append(approvals, r)
    BY <1>4 DEF LoadNewApproval, NewApproval
  <2>2. /\ DOMAIN approvals \subseteq DOMAIN approvals'
        /\ \A a \in DOMAIN approvals : approvals'[a] = approvals[a]
    BY <1>2, <2>1
  <2>3. QED
    BY <1>1, <2>1, <2>2
<1>5. CASE LoadMove(h) /\ ~GeneratePlan(h) /\ ~LoadNewApproval(h)
  <2>1. plans' = plans /\ approvals' = approvals
    BY <1>5 DEF LoadMove, OpenPage, ReloadPage, Load, FailDuplicate, ShowWithoutPlan, LoadApproval,
                ShowInserted, db
  <2>2. QED
    BY <1>1, <2>1
<1>6. QED
  BY <1>3, <1>4, <1>5, SMTT(30)

(* A load keeps in mind the incident's status as it is. *)
LEMMA LoadSees ==
  ASSUME NEW h \in Handlers, TowerInv, Fresh(h), LoadMove(h)
  PROVE  Fresh(h)'
<1>1. incidents' = incidents
  BY LoadTables
<1>2. pc'[h] \in LoadLabels \cup {"idle"}
  BY LoadMoveLeaves
<1>3. ASSUME NEW c \in Clients, NEW i \in Incidents, Load(h, c, i)
      PROVE  ctx'[h].incidentSeen \in {None, incidents[ctx'[h].incident]}
  BY <1>3, LoadKeeps DEF TowerInv
<1>4. CASE \/ \E c \in Clients, i \in Incidents : OpenPage(h, c, i)
           \/ \E c \in Clients : ReloadPage(h, c)
  BY <1>1, <1>2, <1>3, <1>4, ReloadedIncident
     DEF OpenPage, ReloadPage, Fresh, Holding, LoadLabels
<1>5. CASE GeneratePlan(h) \/ LoadNewApproval(h)
  <2>1. pc[h] # "idle" /\ ctx[h] \in Context
    BY <1>5, Running DEF GeneratePlan, LoadNewApproval, Goto, TowerInv
  <2>2. /\ ctx'[h].incidentSeen = ctx[h].incidentSeen
        /\ ctx'[h].incident = ctx[h].incident
    <3>1. CASE GeneratePlan(h)
      BY <3>1 DEF GeneratePlan
    <3>2. CASE LoadNewApproval(h)
      BY <2>1, <3>2, LoadNewApprovalKeeps DEF Context
    <3>3. QED
      BY <1>5, <3>1, <3>2
  <2>3. QED
    BY <1>1, <1>2, <2>1, <2>2 DEF Fresh, Holding, LoadLabels
<1>6. CASE FailDuplicate(h) \/ ShowWithoutPlan(h) \/ LoadApproval(h) \/ ShowInserted(h)
  <2>1. pc'[h] = "idle"
    BY <1>6 DEF FailDuplicate, ShowWithoutPlan, LoadApproval, ShowInserted, Finish, Goto, TowerInv,
                IInv, ControlOK
  <2>2. QED
    BY <2>1 DEF Fresh, Holding
<1>7. QED
  BY <1>4, <1>5, <1>6 DEF LoadMove

LEMMA LoadAgrees ==
  ASSUME NEW h \in Handlers, TowerInv, AgreeInv(h), LoadMove(h)
  PROVE  AgreeInv(h)'
<1>1. IInv' /\ Fresh(h)' /\ pc'[h] \in LoadLabels \cup {"idle"}
  BY LoadMoveLeaves, LoadSees DEF AgreeInv, TowerInv
<1>2. Coherent(h)'
  BY <1>1 DEF Coherent, Holding, LoadLabels
<1>3. ResolvedAgrees(h)'
  BY LoadTables DEF AgreeInv, ResolvedAgrees, PlansOf, LoadLabels
<1>4. ApprovedAgrees(h)'
  BY LoadTables DEF AgreeInv, ApprovedAgrees, LoadLabels
<1>5. QED
  BY <1>1, <1>2, <1>3, <1>4 DEF AgreeInv

LEMMA MoveAgrees ==
  ASSUME NEW h \in Handlers, TowerInv', AgreeInv(h), WorkflowMove(h)
  PROVE  AgreeInv(h)'
BY FreshKept, CoherentKept, ResolvedAgreesKept, ApprovedAgreesKept
   DEF WorkflowMove, AgreeInv, TowerInv

LEMMA AgreeKept ==
  ASSUME NEW h \in Handlers, TowerInv, AgreeInv(h), TowerStep(h)
  PROVE  AgreeInv(h)'
<1>1. TowerInv'
  BY TowerStepKeeps
<1>2. LoadMove(h) \/ WorkflowMove(h)
  BY PressIsMove, OtherIsMove DEF TowerStep, LoadMove, PressMove
<1>3. QED
  BY <1>1, <1>2, LoadAgrees, MoveAgrees

LEMMA AgreeInit == ASSUME NEW h \in Handlers, TowerInit
                   PROVE  AgreeInv(h)
BY InitOK DEF TowerInit, Init, AgreeInv, Fresh, Coherent, Holding, ResolvedAgrees,
              ApprovedAgrees

LEMMA AgreeStutter ==
  ASSUME NEW h \in Handlers, TowerInv, AgreeInv(h), UNCHANGED towerVars
  PROVE  AgreeInv(h)'
<1>1. UNCHANGED <<incidents, plans, approvals, pc, ctx>>
  BY DEF towerVars, vars, db
<1>2. IInv'
  BY TowerStutter DEF TowerInv
<1>3. QED
  BY <1>1, <1>2 DEF AgreeInv, Fresh, Coherent, ResolvedAgrees, ApprovedAgrees, PlansOf

(* When one handler serves all requests and loads, the incident's status     *)
(* agrees with its plans and approvals whenever no request is under way,     *)
(* although the dossier inserts plans and approvals of its own.              *)
THEOREM PagesAgree ==
  ASSUME NEW h, Handlers = {h}
  PROVE  TowerSpec => []StatusesAgree
<1> DEFINE J == TowerInv /\ AgreeInv(h)
<1>1. TowerInit => J
  BY TowerInitOK, AgreeInit
<1>2. J /\ [TowerNext]_towerVars => J'
  BY TowerStepKeeps, AgreeKept, TowerStutter, AgreeStutter DEF TowerNext
<1>3. J => StatusesAgree
  BY DEF AgreeInv, ResolvedAgrees, ApprovedAgrees, StatusesAgree, Quiescent
<1>4. QED
  BY <1>1, <1>2, <1>3, PTL DEF TowerSpec

-----------------------------------------------------------------------------
(* No page offers the same dispatch twice *)

(* What was dispatched is done, until a younger approval takes its place ... *)
Done(a) ==
  \/ plans[approvals[a].plan].status = "COMPLETED"
  \/ \E b \in DOMAIN approvals : /\ b > a
                                 /\ approvals[b].incident = approvals[a].incident

(* ... or is being done, or replanned. *)
UnderWay(h, a) ==
  \/ /\ pc[h] \in {"exec_audit", "exec_begin", "exec_order", "exec_complete"}
     /\ ctx[h].plan = approvals[a].plan
  \/ /\ pc[h] \in {"fail_audit", "replan_incident", "replan_plan", "replan_approval"}
     /\ ctx[h].incident = approvals[a].incident

DispatchOK(h) == \A d \in dispatched : Done(d[2]) \/ UnderWay(h, d[2])

(* The revised plan that awaits its approval is one of the incident's. *)
RevisedOK(h) ==
  pc[h] = "replan_approval" => plans[ctx[h].revised].incident = ctx[h].incident

(* The status read for a page still holds; an approval inserted for it has   *)
(* not been dispatched.                                                     *)
ReadsOK(h) ==
  /\ pc[h] = "load_approval" => ctx[h].planSeen = plans[ctx[h].plan].status
  /\ pc[h] = "show_inserted" => \A d \in dispatched : d[2] # ctx[h].approval

OnceInv(h) ==
  /\ TowerInv /\ Matched /\ AgreeInv(h)
  /\ RevisedOK(h) /\ ReadsOK(h) /\ ServeOK(h) /\ DispatchOK(h)
  /\ NoSecondDispatch

LEMMA DispatchedRows ==
  ASSUME TowerInv, NEW d \in dispatched
  PROVE  /\ d[2] \in DOMAIN approvals /\ d[2] \in Nat
         /\ approvals[d[2]].plan \in DOMAIN plans
<1>1. d[2] \in DOMAIN approvals
  BY DEF TowerInv, HistoryOK
<1>2. QED
  BY <1>1, RowsFound DEF TowerInv

LEMMA YoungerKept ==
  ASSUME TowerGrows, NEW a \in DOMAIN approvals, NEW b \in DOMAIN approvals,
         b > a, approvals[b].incident = approvals[a].incident
  PROVE  Done(a)'
BY DEF Done, TowerGrows

(* A handler between requests leaves alone what is done. *)
LEMMA DoneKeptIdle ==
  ASSUME TowerInv, TowerGrows, NEW a \in DOMAIN approvals, Done(a),
         \A p \in DOMAIN plans : plans'[p].status = plans[p].status
  PROVE  Done(a)'
<1>1. CASE plans[approvals[a].plan].status = "COMPLETED"
  <2>1. approvals[a].plan \in DOMAIN plans
    BY RowsFound DEF TowerInv
  <2>2. QED
    BY <1>1, <2>1 DEF Done, TowerGrows
<1>2. QED
  BY <1>1, YoungerKept DEF Done

LEMMA IdleLeavesStatuses ==
  ASSUME IInv, NEW h \in Handlers, Request(h)
  PROVE  \A p \in DOMAIN plans : plans'[p].status = plans[p].status
<1>1. pc[h] = "idle"
  BY RequestLocals
<1>2. \A p : ~WritesPlan(h, p)
  BY <1>1 DEF WritesPlan, PlanTarget
<1>3. QED
  BY <1>2, PlansAfter

(* The replacement of a failed plan is submitted with a younger approval. *)
LEMMA RevisedApproval ==
  ASSUME NEW h \in Handlers, TowerInv, RevisedOK(h), TowerGrows, Step(h),
         pc[h] = "replan_approval",
         NEW a \in DOMAIN approvals, ctx[h].incident = approvals[a].incident
  PROVE  Done(a)'
<1> DEFINE n == Len(approvals) + 1
<1>1. approvals \in Seq(Approval) /\ Len(approvals) \in Nat /\ DOMAIN approvals = 1..Len(approvals)
  BY LenProperties DEF TowerInv, IInv, TablesOK
<1>2. NewApproval(ctx[h].revised)
  BY StepAt DEF InsertRevisedApproval
<1>3. /\ n \in DOMAIN approvals'
      /\ approvals'[n].incident = plans[ctx[h].revised].incident
  BY <1>1, <1>2 DEF NewApproval
<1>4. n > a
  BY <1>1
<1> HIDE DEF n
<1>5. approvals'[a].incident = approvals[a].incident
  BY DEF TowerGrows
<1>6. QED
  BY <1>3, <1>4, <1>5 DEF Done, RevisedOK

LEMMA DoneStep ==
  ASSUME NEW h \in Handlers, TowerInv, Matched, AgreeInv(h), TowerGrows, Step(h),
         NEW a \in DOMAIN approvals, Done(a)
  PROVE  Done(a)' \/ UnderWay(h, a)'
<1> DEFINE p == approvals[a].plan
<1>1. /\ p \in DOMAIN plans /\ plans[p].incident = approvals[a].incident
      /\ approvals'[a].plan = p /\ approvals'[a].incident = approvals[a].incident
  BY RowsFound DEF TowerInv, Matched, TowerGrows
<1>2. CASE plans[p].status = "COMPLETED" /\ plans'[p].status # "COMPLETED"
  <2>1. WritesPlan(h, p) /\ PlanTarget[pc[h]] # "COMPLETED"
    BY <1>1, <1>2, PlansAfter DEF TowerInv
  <2>2. pc[h] \in {"exec_begin", "fail_plan"} /\ p = ctx[h].plan
    BY <2>1 DEF WritesPlan, PlanTarget
  <2>3. /\ pc[h] = "exec_begin" => pc'[h] \in {"exec_order", "exec_complete"}
        /\ pc[h] = "fail_plan" => pc'[h] = "fail_audit"
    BY StepLabels DEF TowerInv
  <2>4. ctx'[h].plan = ctx[h].plan /\ ctx'[h].incident = ctx[h].incident
    BY <2>2, <2>3, StepLocals DEF TowerInv
  <2>5. ctx[h].incident = plans[ctx[h].plan].incident
    BY <2>2 DEF AgreeInv, Coherent, Holding
  <2> HIDE DEF p
  <2>6. QED
    BY <1>1, <2>2, <2>3, <2>4, <2>5 DEF UnderWay
<1>3. CASE plans'[p].status = "COMPLETED"
  BY <1>1, <1>3 DEF Done
<1>4. QED
  BY <1>2, <1>3, YoungerKept DEF Done

LEMMA UnderWayStep ==
  ASSUME NEW h \in Handlers, TowerInv, AgreeInv(h), RevisedOK(h), TowerGrows,
         Step(h), NEW a \in DOMAIN approvals, UnderWay(h, a)
  PROVE  Done(a)' \/ UnderWay(h, a)'
<1> DEFINE p == approvals[a].plan
<1>1. /\ p \in DOMAIN plans
      /\ approvals'[a].plan = p /\ approvals'[a].incident = approvals[a].incident
  BY RowsFound DEF TowerInv, TowerGrows
<1>2. /\ pc[h] = "exec_audit" => pc'[h] = "exec_begin"
      /\ pc[h] = "exec_begin" => pc'[h] \in {"exec_order", "exec_complete"}
      /\ pc[h] = "exec_order" => pc'[h] = "exec_complete"
      /\ pc[h] = "fail_audit" => pc'[h] = "replan_incident"
      /\ pc[h] = "replan_incident" => pc'[h] = "replan_plan"
      /\ pc[h] = "replan_plan" => pc'[h] = "replan_approval"
      /\ pc'[h] # "idle" => /\ ctx'[h].plan = ctx[h].plan
                            /\ ctx'[h].incident = ctx[h].incident
  BY StepLabels, StepLocals DEF TowerInv
<1>3. CASE pc[h] \in {"exec_audit", "exec_begin", "exec_order", "fail_audit",
                      "replan_incident", "replan_plan"}
  <2> HIDE DEF p
  <2>1. QED
    BY <1>1, <1>2, <1>3 DEF UnderWay, p
<1>4. CASE pc[h] = "exec_complete"
  <2>1. ctx[h].plan = p
    BY <1>4 DEF UnderWay
  <2>2. ctx[h].planSeen = plans[p].status
    BY <1>4, <2>1 DEF AgreeInv, Fresh, Holding
  <2>3. plans'[p].status = "COMPLETED"
    BY <1>1, <1>4, <2>1, <2>2, PlansAfter DEF TowerInv, WritesPlan, PlanTarget
  <2>4. QED
    BY <1>1, <2>3 DEF Done
<1>5. CASE pc[h] = "replan_approval"
  BY <1>5, RevisedApproval DEF UnderWay
<1>6. QED
  BY <1>3, <1>4, <1>5 DEF UnderWay

LEMMA DispatchOther ==
  ASSUME NEW h \in Handlers, OnceInv(h), OtherRequest(h) \/ WorkflowStep(h)
  PROVE  DispatchOK(h)'
<1>1. TowerInv /\ TowerGrows /\ dispatched' = dispatched
  BY OtherTower DEF OnceInv, OtherRequest, WorkflowStep, pageVars
<1>2. ASSUME NEW d \in dispatched
      PROVE  Done(d[2])' \/ UnderWay(h, d[2])'
  <2>1. d[2] \in DOMAIN approvals /\ (Done(d[2]) \/ UnderWay(h, d[2]))
    BY <1>1, DispatchedRows DEF OnceInv, DispatchOK
  <2>2. CASE OtherRequest(h)
    <3>1. Request(h)
      BY <2>2 DEF OtherRequest, Request
    <3>2. ~UnderWay(h, d[2])
      BY <1>1, <3>1, RequestLocals DEF UnderWay, TowerInv
    <3>3. QED
      BY <1>1, <2>1, <3>1, <3>2, DoneKeptIdle, IdleLeavesStatuses DEF TowerInv
  <2>3. CASE WorkflowStep(h)
    BY <1>1, <2>1, <2>3, DoneStep, UnderWayStep DEF OnceInv, WorkflowStep
  <2>4. QED
    BY <2>2, <2>3
<1>3. QED
  BY <1>1, <1>2 DEF DispatchOK

LEMMA DispatchPress ==
  ASSUME NEW h \in Handlers, OnceInv(h), NEW c \in Clients, PressMove(h, c)
  PROVE  DispatchOK(h)'
<1>1. TowerInv /\ TowerGrows /\ Request(h)
  BY PressTower, PressIsMove DEF OnceInv
<1>2. ASSUME NEW d \in dispatched
      PROVE  Done(d[2])'
  <2>1. d[2] \in DOMAIN approvals /\ (Done(d[2]) \/ UnderWay(h, d[2]))
    BY <1>1, DispatchedRows DEF OnceInv, DispatchOK
  <2>2. ~UnderWay(h, d[2])
    BY <1>1, RequestLocals DEF UnderWay, TowerInv
  <2>3. QED
    BY <1>1, <2>1, <2>2, DoneKeptIdle, IdleLeavesStatuses DEF TowerInv
<1>3. ASSUME NEW d \in dispatched', d \notin dispatched
      PROVE  UnderWay(h, d[2])'
  <2> DEFINE e == <<c, pages[c].approval, pages[c].approved>>
  <2>1. d = e /\ Dispatch(h, c)
    BY <1>3 DEF PressMove, Approve, Reject, Dispatch
  <2>2. d[2] = pages[c].approval
    BY <2>1
  <2>3. /\ pc'[h] = "exec_audit" /\ approvals' = approvals
        /\ ctx'[h].plan = approvals[d[2]].plan
    <3>1. ~(Approve(h, c) /\ pc'[h] = "decide") /\ ~(Reject(h, c) /\ pc'[h] = "decide")
      BY <1>1, <2>1 DEF Dispatch, ExecutePlan, Begin, TowerInv, IInv, ControlOK
    <3>2. QED
      BY <1>1, <2>2, <3>1, PressLeaves
  <2>4. QED
    BY <2>3 DEF UnderWay
<1>4. QED
  BY <1>2, <1>3 DEF DispatchOK

LEMMA DispatchLoad ==
  ASSUME NEW h \in Handlers, OnceInv(h), LoadMove(h)
  PROVE  DispatchOK(h)'
<1>1. TowerInv /\ TowerGrows /\ dispatched' = dispatched
  BY LoadMoveLeaves DEF OnceInv
<1>2. ASSUME NEW d \in dispatched
      PROVE  Done(d[2])'
  <2>1. d[2] \in DOMAIN approvals /\ (Done(d[2]) \/ UnderWay(h, d[2]))
    BY <1>1, DispatchedRows DEF OnceInv, DispatchOK
  <2>2. ~UnderWay(h, d[2])
    BY <1>1, LoadTables DEF UnderWay, LoadLabels
  <2>3. QED
    BY <1>1, <2>1, <2>2, DoneKeptIdle, LoadTables
<1>3. QED
  BY <1>1, <1>2 DEF DispatchOK

LEMMA RevisedKept ==
  ASSUME NEW h \in Handlers, TowerInv, TowerStep(h)
  PROVE  RevisedOK(h)'
<1>1. pc \in [Handlers -> AnyLabel] /\ IInv
  BY DEF TowerInv, IInv, ControlOK
<1>2. CASE LoadMove(h)
  BY <1>2, LoadMoveLeaves DEF RevisedOK, LoadLabels
<1>3. CASE Request(h)
  BY <1>1, <1>3, RequestLocals DEF RevisedOK
<1>4. CASE Step(h) /\ pc'[h] = "replan_approval"
  <2>1. pc[h] = "replan_plan"
    BY <1>1, <1>4, StepLabels
  <2>2. InsertRevisedPlan(h)
    BY <1>4, <2>1, StepAt
  <2>3. ctx[h] \in Context /\ ctx \in [Handlers -> Context]
    BY <1>1, Running
  <2>4. plans \in Seq(Plan) /\ Len(plans) \in Nat
    BY <1>1, LenProperties DEF IInv, TablesOK
  <2>5. plans'[Len(plans) + 1].incident = ctx[h].incident
    BY <2>2, <2>4 DEF InsertRevisedPlan, NewPlan
  <2>6. ctx'[h].revised = Len(plans) + 1 /\ ctx'[h].incident = ctx[h].incident
    BY <2>2, <2>3 DEF InsertRevisedPlan, Context
  <2>7. QED
    BY <2>5, <2>6 DEF RevisedOK
<1>5. QED
  BY <1>2, <1>3, <1>4, PressIsMove, OtherIsMove
     DEF TowerStep, LoadMove, PressMove, WorkflowMove, RevisedOK

LEMMA ReadsKept ==
  ASSUME NEW h \in Handlers, TowerInv, TowerStep(h)
  PROVE  ReadsOK(h)'
<1>1. pc \in [Handlers -> AnyLabel]
  BY DEF TowerInv, IInv, ControlOK
<1>2. ASSUME NEW c \in Clients, NEW i \in Incidents, Load(h, c, i)
      PROVE  ReadsOK(h)'
  <2>1. plans' = plans
    BY <1>2 DEF Load, db
  <2>2. QED
    BY <1>2, <2>1, LoadKeeps DEF TowerInv, ReadsOK
<1>3. CASE \/ \E c \in Clients, i \in Incidents : OpenPage(h, c, i)
           \/ \E c \in Clients : ReloadPage(h, c)
  BY <1>2, <1>3, ReloadedIncident DEF OpenPage, ReloadPage
<1>4. CASE \/ GeneratePlan(h) \/ FailDuplicate(h) \/ ShowWithoutPlan(h)
           \/ LoadApproval(h) \/ ShowInserted(h)
  BY <1>1, <1>4 DEF GeneratePlan, FailDuplicate, ShowWithoutPlan, LoadApproval, ShowInserted,
                    Finish, Goto, ReadsOK
<1>5. CASE LoadNewApproval(h)
  <2> DEFINE n == Len(approvals) + 1
  <2>1. /\ pc'[h] = "show_inserted" /\ n \notin DOMAIN approvals
        /\ ctx'[h] = [ctx[h] EXCEPT !.approval = n]
    BY <1>5, LoadNewApprovalKeeps
  <2>2. dispatched' = dispatched /\ ctx[h] \in Context
    BY <1>5, Running DEF LoadNewApproval, pageVars, TowerInv
  <2>3. ctx'[h].approval = n
    BY <2>1, <2>2 DEF Context
  <2> HIDE DEF n
  <2>4. QED
    BY <2>1, <2>2, <2>3, DispatchedRows DEF ReadsOK
<1>6. CASE WorkflowMove(h)
  BY <1>6, MoveLeavesLoads DEF ReadsOK, Labels
<1>7. QED
  BY <1>3, <1>4, <1>5, <1>6, PressIsMove, OtherIsMove DEF TowerStep, PressMove

(* NoSecondDispatch, of one client *)
OnceFor(c) ==
  /\ pages[c].offers = "dispatch"
  /\ ~Busy(c)
  /\ pages[c].plan = approvals[pages[c].approval].plan
  => \A d \in dispatched : ~(d[1] = c /\ d[2] = pages[c].approval)

LEMMA OnceUnshown ==
  ASSUME TowerInv, TowerGrows, NEW c \in Clients, OnceFor(c),
         pages'[c] = pages[c], Busy(c) => Busy(c)',
         \A d \in dispatched' : d \in dispatched \/ d[1] # c
  PROVE  OnceFor(c)'
<1> SUFFICES ASSUME pages[c].offers = "dispatch", ~Busy(c)',
                    pages[c].plan = approvals'[pages[c].approval].plan,
                    NEW d \in dispatched', d[1] = c, d[2] = pages[c].approval
             PROVE  FALSE
  BY DEF OnceFor
<1>1. pages[c].approval \in DOMAIN approvals
  BY ButtonRows
<1>2. pages[c].plan = approvals[pages[c].approval].plan
  BY <1>1 DEF TowerGrows
<1>3. QED
  BY <1>2 DEF OnceFor

(* A page that is shown does not offer what was dispatched: that is done, or *)
(* a younger approval would be on the page.                                 *)
LEMMA OnceShown ==
  ASSUME NEW h \in Handlers, OnceInv(h), LoadApproval(h) \/ ShowInserted(h),
         NEW c \in Clients, c = serving[h]
  PROVE  OnceFor(c)'
<1> SUFFICES ASSUME pages'[c].offers = "dispatch",
                    pages'[c].plan = approvals'[pages'[c].approval].plan,
                    NEW d \in dispatched', d[2] = pages'[c].approval
             PROVE  FALSE
  BY DEF OnceFor
<1>1. TowerInv /\ UNCHANGED <<plans, approvals, dispatched>>
  BY DEF OnceInv, LoadApproval, ShowInserted, db
<1>2. CASE ShowInserted(h)
  <2>1. pc[h] = "show_inserted" /\ Show(h, ctx[h].approval, "PENDING")
    BY <1>2 DEF ShowInserted, Finish, Goto
  <2>2. pages'[c] = Shown(h, ctx[h].approval, "PENDING")
    BY <1>1, <2>1, ShownPage
  <2>3. pages'[c].approval = ctx[h].approval
    BY <2>2 DEF Shown
  <2>4. QED
    BY <1>1, <2>1, <2>3 DEF OnceInv, ReadsOK
<1>3. CASE LoadApproval(h)
  <2>1. PICK a \in ApprovalsOf(ctx[h].incident) :
               /\ \A b \in ApprovalsOf(ctx[h].incident) : b <= a
               /\ Show(h, a, approvals[a].status)
    BY <1>3 DEF LoadApproval
  <2>2. pages'[c] = Shown(h, a, approvals[a].status)
    BY <1>1, <2>1, ShownPage
  <2>3. /\ pages'[c].approval = a /\ pages'[c].plan = ctx[h].plan
        /\ pages'[c].offers =
             Offers(ctx[h].incidentSeen, ctx[h].planSeen, approvals[a].status)
    BY <2>2 DEF Shown
  <2>4. ctx[h].planSeen # "COMPLETED"
    BY <2>3 DEF Offers
  <2>5. pc[h] = "load_approval" /\ ctx[h].planSeen = plans[ctx[h].plan].status
    BY <1>3 DEF LoadApproval, Finish, Goto, OnceInv, ReadsOK
  <2>6. d \in dispatched /\ d[2] = a /\ approvals[a].plan = ctx[h].plan
    BY <1>1, <2>3
  <2>7. Done(a)
    BY <2>5, <2>6 DEF OnceInv, DispatchOK, UnderWay
  <2>8. PICK b \in DOMAIN approvals : /\ b > a
                                      /\ approvals[b].incident = approvals[a].incident
    BY <2>4, <2>5, <2>6, <2>7 DEF Done
  <2>9. b <= a /\ a \in Nat /\ b \in Nat
    BY <1>1, <2>1, <2>8, RowsFound DEF ApprovalsOf, TowerInv
  <2>10. QED
    BY <2>8, <2>9
<1>4. QED
  BY <1>2, <1>3

LEMMA OnceLoad ==
  ASSUME NEW h \in Handlers, Handlers = {h}, OnceInv(h), LoadMove(h),
         NEW c \in Clients
  PROVE  OnceFor(c)'
<1>1. /\ TowerInv /\ TowerGrows /\ dispatched' = dispatched
      /\ serving \in [Handlers -> Clients \cup {Nobody}]
      /\ pages \in [Clients -> Page \cup {NoPage}] /\ c # Nobody
  BY LoadMoveLeaves, TowerAssumption DEF OnceInv, TowerInv, TowerAssumption
<1>2. OnceFor(c)
  BY DEF OnceInv, NoSecondDispatch, OnceFor
<1>3. CASE \E d \in Clients, i \in Incidents : OpenPage(h, d, i)
  <2>1. PICK d \in Clients, i \in Incidents : OpenPage(h, d, i)
    BY <1>3
  <2>2. /\ pages' = [pages EXCEPT ![d] = NoPage] /\ reloading' = reloading
        /\ pc[h] = "idle"
    BY <2>1 DEF OpenPage, Load
  <2>3. CASE c = d
    BY <1>1, <2>2, <2>3 DEF OnceFor, NoPage
  <2>4. CASE c # d
    <3>1. pages'[c] = pages[c]
      BY <1>1, <2>2, <2>4
    <3>2. Busy(c) => Busy(c)'
      BY <1>1, <2>2 DEF Busy, OnceInv, ServeOK
    <3>3. QED
      BY <1>1, <1>2, <3>1, <3>2, OnceUnshown
  <2>5. QED
    BY <2>3, <2>4
<1>4. CASE \E d \in Clients : ReloadPage(h, d)
  <2>1. PICK d \in Clients : ReloadPage(h, d)
    BY <1>4
  <2>2. /\ reloading' = reloading \ {d} /\ pages' = pages /\ pc[h] = "idle"
        /\ serving' = [serving EXCEPT ![h] = d]
    BY <2>1 DEF ReloadPage, Load
  <2>3. Busy(c) => Busy(c)'
    BY <1>1, <2>2 DEF Busy, OnceInv, ServeOK
  <2>4. QED
    BY <1>1, <1>2, <2>2, <2>3, OnceUnshown
<1>5. CASE GeneratePlan(h) \/ LoadNewApproval(h)
  <2>1. UNCHANGED <<pages, reloading, serving>>
    BY <1>5 DEF GeneratePlan, LoadNewApproval, pageVars
  <2>2. QED
    BY <1>1, <1>2, <2>1, OnceUnshown DEF Busy
<1>6. CASE FailDuplicate(h) \/ ShowWithoutPlan(h) \/ LoadApproval(h) \/ ShowInserted(h)
  <2>1. /\ reloading' = reloading
        /\ c # serving[h] => pages'[c] = pages[c]
    BY <1>1, <1>6 DEF FailDuplicate, ShowWithoutPlan, LoadApproval, ShowInserted, Show
  <2>2. CASE c # serving[h]
    <3>1. Busy(c) => Busy(c)'
      BY <2>1, <2>2 DEF Busy
    <3>2. QED
      BY <1>1, <1>2, <2>1, <2>2, <3>1, OnceUnshown
  <2>3. CASE c = serving[h] /\ (FailDuplicate(h) \/ ShowWithoutPlan(h))
    <3>1. pages'[c].offers = "nothing"
      BY <1>1, <2>3, PlanlessPage
    <3>2. QED
      BY <3>1 DEF OnceFor
  <2>4. QED
    BY <1>6, <2>2, <2>3, OnceShown
<1>7. QED
  BY <1>3, <1>4, <1>5, <1>6 DEF LoadMove

LEMMA OncePress ==
  ASSUME NEW h \in Handlers, Handlers = {h}, OnceInv(h), NEW d \in Clients,
         PressMove(h, d), NEW c \in Clients
  PROVE  OnceFor(c)'
<1>1. TowerInv /\ TowerGrows /\ OnceFor(c) /\ c # Nobody /\ pc[h] = "idle"
  BY PressTower, PressIsMove, RequestLocals, TowerAssumption
     DEF OnceInv, NoSecondDispatch, OnceFor, TowerInv, TowerAssumption
<1>2. /\ pages' = pages /\ reloading' = reloading \cup {d}
      /\ dispatched' \subseteq dispatched \cup
           {<<d, pages[d].approval, pages[d].approved>>}
  BY DEF PressMove, Approve, Reject, Dispatch, Press
<1>3. CASE c = d
  BY <1>2, <1>3 DEF OnceFor, Busy
<1>4. CASE c # d
  <2>1. Busy(c) => Busy(c)'
    BY <1>1, <1>2 DEF Busy, OnceInv, ServeOK
  <2>2. \A e \in dispatched' : e \in dispatched \/ e[1] # c
    BY <1>2, <1>4
  <2>3. QED
    BY <1>1, <1>2, <2>1, <2>2, OnceUnshown
<1>5. QED
  BY <1>3, <1>4

LEMMA OnceOther ==
  ASSUME NEW h \in Handlers, Handlers = {h}, OnceInv(h),
         OtherRequest(h) \/ WorkflowStep(h), NEW c \in Clients
  PROVE  OnceFor(c)'
<1>1. TowerInv /\ TowerGrows /\ OnceFor(c) /\ c # Nobody
  BY OtherTower, TowerAssumption
     DEF OnceInv, NoSecondDispatch, OnceFor, TowerAssumption
<1>2. UNCHANGED <<pages, reloading, dispatched>>
  BY DEF OtherRequest, WorkflowStep, pageVars
<1>3. Busy(c) => Busy(c)'
  <2>1. CASE OtherRequest(h)
    BY <1>2, <2>1 DEF OtherRequest, Busy
  <2>2. CASE WorkflowStep(h)
    BY <1>1, <1>2, <2>2, StepLoadsNothing DEF WorkflowStep, Busy, OnceInv, ServeOK
  <2>3. QED
    BY <2>1, <2>2
<1>4. QED
  BY <1>1, <1>2, <1>3, OnceUnshown

LEMMA OnceStep ==
  ASSUME NEW h, Handlers = {h}, OnceInv(h), TowerStep(h)
  PROVE  OnceInv(h)'
<1>1. TowerInv' /\ Matched' /\ AgreeInv(h)'
  BY TowerStepKeeps, MatchedKept, AgreeKept DEF OnceInv
<1>2. RevisedOK(h)' /\ ReadsOK(h)' /\ ServeOK(h)'
  BY RevisedKept, ReadsKept, ServeKept DEF OnceInv
<1>3. /\ DispatchOK(h)'
      /\ \A c \in Clients : OnceFor(c)'
  BY DispatchLoad, DispatchPress, DispatchOther, OnceLoad, OncePress, OnceOther
     DEF TowerStep, LoadMove, PressMove
<1>4. QED
  BY <1>1, <1>2, <1>3 DEF OnceInv, NoSecondDispatch, OnceFor

LEMMA OnceInit == ASSUME NEW h \in Handlers, TowerInit
                  PROVE  OnceInv(h)
<1>1. TowerInv /\ AgreeInv(h)
  BY TowerInitOK, AgreeInit
<1>2. /\ approvals = <<>> /\ pc[h] = "idle" /\ dispatched = {}
      /\ serving[h] = Nobody
  BY DEF TowerInit, Init
<1>3. DOMAIN approvals = {}
  BY <1>2
<1>4. QED
  BY <1>1, <1>2, <1>3 DEF OnceInv, Matched, RevisedOK, ReadsOK, ServeOK,
                           DispatchOK, NoSecondDispatch

LEMMA OnceStutter ==
  ASSUME NEW h \in Handlers, OnceInv(h), UNCHANGED towerVars
  PROVE  OnceInv(h)'
<1>1. UNCHANGED <<plans, approvals, pc, ctx, pages, serving, reloading, dispatched>>
  BY DEF towerVars, vars, db, pageVars
<1>2. TowerInv' /\ AgreeInv(h)'
  BY TowerStutter, AgreeStutter DEF OnceInv
<1>3. Matched' /\ RevisedOK(h)' /\ ReadsOK(h)' /\ ServeOK(h)'
  BY <1>1 DEF OnceInv, Matched, RevisedOK, ReadsOK, ServeOK
<1>4. DispatchOK(h)'
  BY <1>1 DEF OnceInv, DispatchOK, Done, UnderWay
<1>5. NoSecondDispatch'
  BY <1>1 DEF OnceInv, NoSecondDispatch, Busy
<1>6. QED
  BY <1>2, <1>3, <1>4, <1>5 DEF OnceInv

(* When one handler serves all requests and loads, a page that was loaded    *)
(* after its dispatch was answered never offers that dispatch again.        *)
THEOREM NoneDispatchedTwice ==
  ASSUME NEW h, Handlers = {h}
  PROVE  TowerSpec => []NoSecondDispatch
<1>1. TowerInit => OnceInv(h)
  BY OnceInit
<1>2. OnceInv(h) /\ [TowerNext]_towerVars => OnceInv(h)'
  BY OnceStep, OnceStutter DEF TowerNext
<1>3. OnceInv(h) => NoSecondDispatch
  BY DEF OnceInv
<1>4. QED
  BY <1>1, <1>2, <1>3, PTL DEF TowerSpec
=============================================================================
