------------------------------ MODULE DeskProofs ------------------------------
(***************************************************************************)
(* Proofs about ContractDesk, for every number of clients, requests, days   *)
(* and purchase orders, whatever the rules on other tables report.          *)
(***************************************************************************)
EXTENDS ContractDesk, SequenceTheorems, FiniteSetTheorems, TLAPS

-----------------------------------------------------------------------------
(* Sequences made from sets, and tables *)

LEMMA SetSequence ==
  ASSUME NEW S, NEW T \in SUBSET S, IsFiniteSet(T)
  PROVE  LET seq == SetToSeq(T)
         IN  /\ seq \in Seq(S)
             /\ Len(seq) \in Nat
             /\ DOMAIN seq = 1..Len(seq)
             /\ \A i \in DOMAIN seq : seq[i] \in T
             /\ \A i, j \in DOMAIN seq : seq[i] = seq[j] => i = j
             /\ \A x \in T : \E i \in DOMAIN seq : seq[i] = x
<1> DEFINE n == Cardinality(T)
           seq == SetToSeq(T)
<1>1. n \in Nat /\ ExistsBijection(1..n, T)
  BY FS_CardinalityType
<1>2. \E f \in [1..n -> T] : IsInjective(f)
  BY <1>1 DEF ExistsBijection, Bijection, Injection
<1>3. seq \in [1..n -> T] /\ IsInjective(seq)
  BY <1>2 DEF SetToSeq
<1>4. seq \in Seq(T) /\ Len(seq) = n /\ DOMAIN seq = 1..n
  BY <1>1, <1>3, SeqDef, LenProperties
<1>5. seq \in Surjection(1..n, T)
  <2>1. seq \in Injection(1..n, T)
    BY <1>3 DEF Injection
  <2>2. Cardinality(1..n) = Cardinality(T)
    BY <1>1, FS_Interval
  <2>3. QED
    BY <2>1, <2>2, FS_Injection
<1>6. \A x \in T : \E i \in 1..n : seq[i] = x
  BY <1>5 DEF Surjection
<1>7. seq \in Seq(S)
  BY <1>4, SeqMonotonic
<1>8. QED
  BY <1>1, <1>3, <1>4, <1>6, <1>7 DEF IsInjective

LEMMA FunctionIsSeq ==
  ASSUME NEW S, NEW n \in Nat, NEW f \in [1..n -> S]
  PROVE  f \in Seq(S) /\ Len(f) = n
BY SeqDef, LenProperties

LEMMA FindingsTyped ==
  ASSUME NEW type \in AlertTypes, NEW ps \in SUBSET PurchaseOrders
  PROVE  Findings(type, ps) \in Seq(Finding)
<1> DEFINE T == {<<type, p>> : p \in ps}
           f == [p \in ps |-> <<type, p>>]
<1>1. IsFiniteSet(ps)
  BY DeskAssumption, FS_Subset
<1>2. f \in Surjection(ps, T)
  BY DEF Surjection
<1>3. IsFiniteSet(T)
  BY <1>1, <1>2, FS_Surjection
<1>4. T \in SUBSET Finding
  BY DeskAssumption DEF Finding
<1>5. QED
  BY <1>3, <1>4, SetSequence DEF Findings

LEMMA ToSetFinite ==
  ASSUME NEW S, NEW seq \in Seq(S)
  PROVE  IsFiniteSet(ToSet(seq)) /\ ToSet(seq) \in SUBSET S
<1>1. /\ Len(seq) \in Nat
      /\ seq \in [1..Len(seq) -> S]
      /\ DOMAIN seq = 1..Len(seq)
  BY LenProperties
<1>2. seq \in Surjection(1..Len(seq), ToSet(seq))
  BY <1>1 DEF Surjection, ToSet
<1>3. IsFiniteSet(1..Len(seq))
  BY <1>1, FS_Interval
<1>4. QED
  BY <1>1, <1>2, <1>3, FS_Surjection DEF ToSet

(* A table with rows added. *)
LEMMA AddRows ==
  ASSUME NEW S, NEW t \in Seq(S), NEW u \in Seq(S)
  PROVE  /\ t \o u \in Seq(S)
         /\ Len(t) \in Nat
         /\ Len(u) \in Nat
         /\ DOMAIN t = 1..Len(t)
         /\ DOMAIN u = 1..Len(u)
         /\ DOMAIN (t \o u) = 1..(Len(t) + Len(u))
         /\ \A i \in DOMAIN t : (t \o u)[i] = t[i]
         /\ \A i \in DOMAIN u : (t \o u)[Len(t) + i] = u[i]
<1>1. /\ t \o u \in Seq(S)
      /\ Len(t \o u) = Len(t) + Len(u)
      /\ \A i \in 1..Len(t) + Len(u) :
           (t \o u)[i] = IF i <= Len(t) THEN t[i] ELSE u[i - Len(t)]
  BY ConcatProperties
<1>2. /\ Len(t) \in Nat /\ DOMAIN t = 1..Len(t)
      /\ Len(u) \in Nat /\ DOMAIN u = 1..Len(u)
      /\ DOMAIN (t \o u) = 1..Len(t \o u)
  BY <1>1, LenProperties
<1>3. ASSUME NEW i \in DOMAIN t PROVE (t \o u)[i] = t[i]
  BY <1>1, <1>2
<1>4. ASSUME NEW i \in DOMAIN u PROVE (t \o u)[Len(t) + i] = u[i]
  <2>1. Len(t) + i \in 1..Len(t) + Len(u) /\ ~(Len(t) + i <= Len(t))
        /\ Len(t) + i - Len(t) = i
    BY <1>2
  <2>2. QED
    BY <1>1, <2>1
<1>5. QED
  BY <1>1, <1>2, <1>3, <1>4

LEMMA AddRow ==
  ASSUME NEW S, NEW t \in Seq(S), NEW r \in S
  PROVE  /\ Append(t, r) \in Seq(S)
         /\ Len(t) \in Nat
         /\ DOMAIN t = 1..Len(t)
         /\ DOMAIN Append(t, r) = 1..(Len(t) + 1)
         /\ \A i \in DOMAIN t : Append(t, r)[i] = t[i]
         /\ Append(t, r)[Len(t) + 1] = r
BY AppendProperties, LenProperties

-----------------------------------------------------------------------------
(* The inductive invariant *)

(* The two columns before and after hold the columns shown of a purchase     *)
(* order, or the status of an escalation.                                   *)
LogValue == {Shown(row) : row \in Row} \cup EscalationStatus \cup {Absent}

LogEvent == {"purchase_order_updated", "alert_generated", "escalation_created",
             "escalation_resolved"}

LogRow == [event : LogEvent, entity : Entities, ref : Nat,
           before : LogValue, after : LogValue]

TablesOK ==
  /\ pos \in [PurchaseOrders -> Row]
  /\ alerts \in Seq(AlertRow)
  /\ escalations \in Seq(EscalationRow)
  /\ \A e \in DOMAIN escalations : escalations[e].alert \in DOMAIN alerts
  /\ audit \in Seq(LogRow)

ControlOK ==
  /\ now \in 0..MaxNow
  /\ view \in [Clients -> Fetched \cup {Absent}]
  /\ pc \in [Clients -> Labels]
  /\ ctx \in [Clients -> Context]
  /\ started \in 0..MaxRequests

LEMMA TypeParts == TablesOK /\ ControlOK => TypeOK
BY DEF TypeOK, TablesOK, ControlOK

(* Exactly the alerts that need an approval have an escalation, and one.     *)
EscalationsOK ==
  /\ \A a \in DOMAIN alerts :
       alerts[a].type = "budget_approval_required" =>
         \E e \in DOMAIN escalations : escalations[e].alert = a
  /\ \A e \in DOMAIN escalations :
       alerts[escalations[e].alert].type = "budget_approval_required"
  /\ \A e, f \in DOMAIN escalations :
       escalations[e].alert = escalations[f].alert => e = f

(* What a request relies on: an escalation it has read as decided stays so,  *)
(* and its status is then written only if another one was read.             *)
RequestOK(c) ==
  /\ pc[c] = "patch" => /\ view[c] \in Fetched
                        /\ ctx[c].seen \in Row
                        /\ ctx[c].patch \in PurchaseOrderPatch
  /\ pc[c] = "resolve" =>
       LET e == ctx[c].escalation
       IN  /\ e \in DOMAIN escalations
           /\ ctx[c].decision \in {"approved", "rejected"}
           /\ ctx[c].was \in EscalationStatus
           /\ ctx[c].was # "pending" => escalations[e].status # "pending"

DeskInv ==
  /\ TablesOK
  /\ ControlOK
  /\ EscalationsOK
  /\ ResolvedTogether
  /\ TrailComplete
  /\ \A c \in Clients : RequestOK(c)

-----------------------------------------------------------------------------
(* How a step relates the states before and after it *)

(* Only client c moves. *)
OnlyMoves(c) ==
  /\ ControlOK'
  /\ \A d \in Clients \ {c} : /\ pc'[d] = pc[d]
                              /\ ctx'[d] = ctx[d]
                              /\ view'[d] = view[d]

(* Rows stay and keep what they are about; no escalation is pending again.   *)
Grows ==
  /\ DOMAIN alerts \subseteq DOMAIN alerts'
  /\ \A a \in DOMAIN alerts : /\ alerts'[a].type = alerts[a].type
                              /\ alerts'[a].entity = alerts[a].entity
  /\ DOMAIN escalations \subseteq DOMAIN escalations'
  /\ \A e \in DOMAIN escalations :
       /\ escalations'[e].alert = escalations[e].alert
       /\ escalations[e].status # "pending" =>
            escalations'[e].status # "pending"

LEMMA OtherRequests ==
  ASSUME Grows, NEW d \in Clients, RequestOK(d),
         pc'[d] = pc[d], ctx'[d] = ctx[d], view'[d] = view[d]
  PROVE  RequestOK(d)'
BY DEF Grows, RequestOK

LEMMA Beginning ==
  ASSUME ControlOK, NEW c \in Clients, NEW label \in Labels,
         NEW locals \in Context, Begin(c, label, locals)
  PROVE  OnlyMoves(c) /\ pc'[c] = label /\ ctx'[c] = locals /\ view'[c] = view[c]
<1>1. started' \in 0..MaxRequests
  BY DeskAssumption DEF ControlOK, Begin
<1>2. QED
  BY <1>1 DEF ControlOK, Begin, OnlyMoves

LEMMA Continuing ==
  ASSUME ControlOK, NEW c \in Clients, NEW from, NEW to \in Labels,
         NEW locals \in Context,
         Goto(c, from, to), ctx' = [ctx EXCEPT ![c] = locals]
  PROVE  OnlyMoves(c) /\ pc'[c] = to /\ ctx'[c] = locals /\ view'[c] = view[c]
BY DEF ControlOK, Goto, OnlyMoves

LEMMA NoContextTyped == NoContext \in Context
<1>1. <<>> \in Seq(Finding)
  BY EmptySeq
<1>2. QED
  BY <1>1 DEF NoContext, Context

LEMMA Finishing ==
  ASSUME ControlOK, NEW c \in Clients, NEW from, Finish(c, from)
  PROVE  OnlyMoves(c) /\ pc'[c] = "idle"
<1>1. "idle" \in Labels
  BY DEF Labels
<1>2. Goto(c, from, "idle") /\ ctx' = [ctx EXCEPT ![c] = NoContext]
  BY DEF Finish
<1>3. QED
  BY <1>1, <1>2, NoContextTyped, Continuing

(* A step that leaves the tables alone has only to say what it relies on.    *)
LEMMA TablesKept ==
  ASSUME DeskInv, NEW c \in Clients, UNCHANGED tables, OnlyMoves(c), RequestOK(c)'
  PROVE  DeskInv'
<1>1. Grows
  BY DEF tables, Grows
<1>2. ASSUME NEW d \in Clients PROVE RequestOK(d)'
  <2>1. CASE d = c
    BY <2>1
  <2>2. CASE d # c
    BY <1>1, <2>2, OtherRequests DEF DeskInv, OnlyMoves
  <2>3. QED
    BY <2>1, <2>2
<1>3. TablesOK'
  BY DEF DeskInv, tables, TablesOK
<1>4. EscalationsOK' /\ ResolvedTogether'
  BY DEF DeskInv, tables, EscalationsOK, ResolvedTogether
<1>5. TrailComplete'
  <2>1. \A p, d : Decided(p, d)' = Decided(p, d)
                 /\ DecisionRows(p, d)' = DecisionRows(p, d)
    BY DEF tables, Decided, DecisionRows
  <2>2. \A event, ref : HasCreationRow(event, ref)' = HasCreationRow(event, ref)
    BY DEF tables, HasCreationRow
  <2>3. QED
    BY <2>1, <2>2 DEF DeskInv, tables, TrailComplete
<1>6. QED
  BY <1>2, <1>3, <1>4, <1>5 DEF DeskInv, OnlyMoves

LEMMA NothingRelied ==
  ASSUME NEW c \in Clients, pc[c] \notin {"patch", "resolve"}
  PROVE  RequestOK(c)
BY DEF RequestOK

-----------------------------------------------------------------------------
(* Steps that read *)

LEMMA TickKeeps ==
  ASSUME DeskInv, Tick
  PROVE  DeskInv'
<1>1. ControlOK'
  BY DeskAssumption DEF DeskInv, ControlOK, Tick
<1>2. \A c \in Clients : RequestOK(c)'
  BY DEF DeskInv, Tick, tables, RequestOK
<1>3. TablesOK' /\ EscalationsOK' /\ ResolvedTogether' /\ TrailComplete'
  <2>1. TablesOK' /\ EscalationsOK' /\ ResolvedTogether'
    BY DEF DeskInv, Tick, tables, TablesOK, EscalationsOK, ResolvedTogether
  <2>2. \A p, d : Decided(p, d)' = Decided(p, d)
                 /\ DecisionRows(p, d)' = DecisionRows(p, d)
    BY DEF Tick, tables, Decided, DecisionRows
  <2>3. \A event, ref : HasCreationRow(event, ref)' = HasCreationRow(event, ref)
    BY DEF Tick, tables, HasCreationRow
  <2>4. QED
    BY <2>1, <2>2, <2>3 DEF DeskInv, Tick, tables, TrailComplete
<1>4. QED
  BY <1>1, <1>2, <1>3 DEF DeskInv

LEMMA GetPurchaseOrderKeeps ==
  ASSUME DeskInv, NEW c \in Clients, NEW p \in PurchaseOrders,
         GetPurchaseOrder(c, p)
  PROVE  DeskInv'
<1>1. [order |-> p, row |-> pos[p]] \in Fetched
  BY DEF DeskInv, TablesOK, Fetched
<1>2. OnlyMoves(c)
  BY <1>1 DEF DeskInv, ControlOK, GetPurchaseOrder, OnlyMoves
<1>3. RequestOK(c)'
  BY DEF GetPurchaseOrder, RequestOK
<1>4. QED
  BY <1>2, <1>3, TablesKept DEF GetPurchaseOrder

LEMMA PatchPurchaseOrderKeeps ==
  ASSUME DeskInv, NEW c \in Clients, NEW f \in Patches, PatchPurchaseOrder(c, f)
  PROVE  DeskInv'
<1> DEFINE locals == [NoContext EXCEPT !.seen = pos[view[c].order], !.patch = f]
<1>1. view[c] \in Fetched /\ pos[view[c].order] \in Row /\ f \in PurchaseOrderPatch
  BY DeskAssumption DEF DeskInv, ControlOK, TablesOK, PatchPurchaseOrder, Fetched
<1>2. locals \in Context /\ locals.seen \in Row /\ locals.patch = f
  BY <1>1, NoContextTyped DEF NoContext, Context
<1>3. Begin(c, "patch", locals) /\ UNCHANGED tables
  BY DEF PatchPurchaseOrder
<1>4. OnlyMoves(c) /\ pc'[c] = "patch" /\ ctx'[c] = locals /\ view'[c] = view[c]
  BY <1>2, <1>3, Beginning DEF DeskInv, Labels
<1>5. RequestOK(c)'
  BY <1>1, <1>2, <1>4 DEF RequestOK
<1>6. QED
  BY <1>3, <1>4, <1>5, TablesKept

LEMMA ScanDelayedKeeps ==
  ASSUME DeskInv, NEW c \in Clients, ScanDelayed(c)
  PROVE  DeskInv'
<1> DEFINE found == Findings("po_delayed", {p \in PurchaseOrders : IsDelayed(p)})
           locals == [NoContext EXCEPT !.found = found]
<1>1. found \in Seq(Finding)
  BY FindingsTyped DEF AlertTypes
<1>2. locals \in Context
  BY <1>1, NoContextTyped DEF NoContext, Context
<1>3. Begin(c, "scan_budget", locals) /\ UNCHANGED tables
  BY DEF ScanDelayed
<1>4. OnlyMoves(c) /\ pc'[c] = "scan_budget"
  BY <1>2, <1>3, Beginning DEF DeskInv, Labels
<1>5. RequestOK(c)'
  BY <1>4 DEF RequestOK
<1>6. QED
  BY <1>3, <1>4, <1>5, TablesKept

LEMMA ScanBudgetKeeps ==
  ASSUME DeskInv, NEW c \in Clients, ScanBudget(c)
  PROVE  DeskInv'
<1> DEFINE over == Findings("budget_approval_required",
                            {p \in PurchaseOrders : IsOverBudget(p)})
<1>1. PICK other \in OtherFindings :
        ctx' = [ctx EXCEPT ![c].found = @ \o other \o over]
  BY DEF ScanBudget
<1> DEFINE found == ctx[c].found \o other \o over
           locals == [ctx[c] EXCEPT !.found = found]
<1>2. over \in Seq(Finding)
  BY FindingsTyped DEF AlertTypes
<1>3. ctx[c] \in Context /\ ctx[c].found \in Seq(Finding)
  BY DEF DeskInv, ControlOK, Context
<1>4. found \in Seq(Finding)
  BY <1>2, <1>3, DeskAssumption, ConcatProperties
<1>5. locals \in Context
  BY <1>3, <1>4 DEF Context
<1>6. ctx' = [ctx EXCEPT ![c] = locals]
  BY <1>1
<1>7. Goto(c, "scan_budget", "scan_open") /\ UNCHANGED tables
  BY DEF ScanBudget
<1>8. OnlyMoves(c) /\ pc'[c] = "scan_open"
  BY <1>5, <1>6, <1>7, Continuing DEF DeskInv, Labels
<1>9. RequestOK(c)'
  BY <1>8 DEF RequestOK
<1>10. QED
  BY <1>7, <1>8, <1>9, TablesKept

(* The keys of the alerts that are open. *)
OpenKeys == {Key(a) : a \in {b \in DOMAIN alerts : alerts[b].status = "open"}}

LEMMA KeyTyped ==
  ASSUME TablesOK, NEW a \in DOMAIN alerts
  PROVE  Key(a) \in Finding /\ alerts[a] \in AlertRow
<1>1. alerts[a] \in AlertRow
  BY LenProperties, ElementOfSeq DEF TablesOK
<1>2. QED
  BY <1>1 DEF Key, Finding, AlertRow

LEMMA ScanOpenReads ==
  ASSUME DeskInv, NEW c \in Clients, ScanOpen(c)
  PROVE  /\ OnlyMoves(c)
         /\ pc'[c] = "scan_insert"
         /\ ctx'[c] = [ctx[c] EXCEPT !.open = OpenKeys]
         /\ UNCHANGED tables
<1> DEFINE locals == [ctx[c] EXCEPT !.open = OpenKeys]
<1>1. OpenKeys \subseteq Finding
  BY KeyTyped DEF DeskInv, OpenKeys
<1>2. locals \in Context
  BY <1>1 DEF DeskInv, ControlOK, Context
<1>3. ctx' = [ctx EXCEPT ![c] = locals] /\ UNCHANGED tables
  BY DEF ScanOpen, OpenKeys
<1>4. Goto(c, "scan_open", "scan_insert")
  BY DEF ScanOpen
<1>5. QED
  BY <1>2, <1>3, <1>4, Continuing DEF DeskInv, Labels

LEMMA ScanOpenKeeps ==
  ASSUME DeskInv, NEW c \in Clients, ScanOpen(c)
  PROVE  DeskInv'
<1>1. OnlyMoves(c) /\ pc'[c] = "scan_insert" /\ UNCHANGED tables
  BY ScanOpenReads
<1>2. RequestOK(c)'
  BY <1>1 DEF RequestOK
<1>3. QED
  BY <1>1, <1>2, TablesKept

LEMMA ResolveEscalationKeeps ==
  ASSUME DeskInv, NEW c \in Clients, NEW e \in DOMAIN escalations,
         NEW d \in {"approved", "rejected"}, ResolveEscalation(c, e, d)
  PROVE  DeskInv'
<1> DEFINE locals == [NoContext EXCEPT !.escalation = e, !.decision = d,
                                       !.was = escalations[e].status]
<1>1. e \in Nat /\ escalations[e] \in EscalationRow
  BY LenProperties, ElementOfSeq DEF DeskInv, TablesOK
<1>2. escalations[e].status \in EscalationStatus
  BY <1>1 DEF EscalationRow
<1>3. /\ locals \in Context
      /\ locals.escalation = e
      /\ locals.decision = d
      /\ locals.was = escalations[e].status
  BY <1>1, <1>2, NoContextTyped DEF NoContext, Context
<1>4. Begin(c, "resolve", locals) /\ UNCHANGED tables
  BY DEF ResolveEscalation
<1>5. OnlyMoves(c) /\ pc'[c] = "resolve" /\ ctx'[c] = locals
  BY <1>3, <1>4, Beginning DEF DeskInv, Labels
<1>6. RequestOK(c)'
  BY <1>2, <1>3, <1>4, <1>5 DEF RequestOK, tables
<1>7. QED
  BY <1>4, <1>5, <1>6, TablesKept

-----------------------------------------------------------------------------
(* Steps that write purchase orders *)

(* A table other than those of alerts and escalations is written, and at     *)
(* most an update row is added to the log.                                  *)
LEMMA OrdersWritten ==
  ASSUME DeskInv, NEW c \in Clients, OnlyMoves(c), RequestOK(c)',
         pos' \in [PurchaseOrders -> Row], UNCHANGED <<alerts, escalations>>,
         \/ audit' = audit
         \/ \E r \in LogRow : /\ r.event = "purchase_order_updated"
                              /\ audit' = Append(audit, r)
  PROVE  DeskInv'
<1>1. Grows
  BY DEF Grows
<1>2. ASSUME NEW d \in Clients PROVE RequestOK(d)'
  <2>1. CASE d = c
    BY <2>1
  <2>2. CASE d # c
    BY <1>1, <2>2, OtherRequests DEF DeskInv, OnlyMoves
  <2>3. QED
    BY <2>1, <2>2
<1>3. EscalationsOK' /\ ResolvedTogether'
  BY DEF DeskInv, EscalationsOK, ResolvedTogether
<1>4. CASE audit' = audit
  <2>1. TablesOK'
    BY <1>4 DEF DeskInv, TablesOK
  <2>2. \A p, d : Decided(p, d)' = Decided(p, d)
                 /\ DecisionRows(p, d)' = DecisionRows(p, d)
    BY <1>4 DEF Decided, DecisionRows
  <2>3. \A event, ref : HasCreationRow(event, ref)' = HasCreationRow(event, ref)
    BY <1>4 DEF HasCreationRow
  <2>4. TrailComplete'
    BY <1>4, <2>2, <2>3 DEF DeskInv, TrailComplete
  <2>5. QED
    BY <1>2, <1>3, <2>1, <2>4 DEF DeskInv, OnlyMoves
<1>5. ASSUME NEW r \in LogRow, r.event = "purchase_order_updated",
             audit' = Append(audit, r)
      PROVE  DeskInv'
  <2>1. /\ audit' \in Seq(LogRow)
        /\ Len(audit) \in Nat
        /\ DOMAIN audit = 1..Len(audit)
        /\ DOMAIN audit' = 1..(Len(audit) + 1)
        /\ \A i \in DOMAIN audit : audit'[i] = audit[i]
        /\ audit'[Len(audit) + 1] = r
    BY <1>5, AddRow DEF DeskInv, TablesOK
  <2>2. TablesOK'
    BY <2>1 DEF DeskInv, TablesOK
  <2>3. \A p, d : Decided(p, d)' = Decided(p, d)
    BY DEF Decided
  <2>4. \A p, d : DecisionRows(p, d)' = DecisionRows(p, d)
    <3>1. \A n \in DOMAIN audit' : \/ n \in DOMAIN audit
                                   \/ n = Len(audit) + 1
      BY <2>1
    <3>2. \A n \in DOMAIN audit : n \in DOMAIN audit'
      BY <2>1
    <3>3. audit'[Len(audit) + 1].event # "escalation_resolved"
      BY <1>5, <2>1
    <3>4. QED
      BY <2>1, <3>1, <3>2, <3>3 DEF DecisionRows
  <2>5. \A event, ref : HasCreationRow(event, ref) => HasCreationRow(event, ref)'
    <3>1. \A n \in DOMAIN audit : n \in DOMAIN audit'
      BY <2>1
    <3>2. QED
      BY <2>1, <3>1 DEF HasCreationRow
  <2>6. TrailComplete'
    BY <2>3, <2>4, <2>5 DEF DeskInv, TrailComplete
  <2>7. QED
    BY <1>2, <1>3, <2>2, <2>6 DEF DeskInv, OnlyMoves
<1>6. QED
  BY <1>4, <1>5

LEMMA RunScenarioKeeps ==
  ASSUME DeskInv, NEW c \in Clients, NEW s \in {"delayed", "in_transit"},
         RunScenario(c, s)
  PROVE  DeskInv'
<1>1. started' \in 0..MaxRequests
  BY DeskAssumption DEF DeskInv, ControlOK, RunScenario
<1>2. OnlyMoves(c)
  BY <1>1 DEF DeskInv, ControlOK, RunScenario, OnlyMoves
<1>3. RequestOK(c)'
  BY DEF RunScenario, RequestOK
<1>4. [pos[ScenarioOrder] EXCEPT !.status = s] \in Row
  BY ZenonT(30), DeskAssumption DEF DeskInv, TablesOK, Row, OrderStatus
<1>5. pos' \in [PurchaseOrders -> Row]
  BY <1>4, DeskAssumption DEF DeskInv, TablesOK, RunScenario
<1>6. QED
  BY <1>2, <1>3, <1>5, OrdersWritten DEF RunScenario

LEMMA ProductOfNaturals ==
  ASSUME NEW m \in Nat, NEW n \in Nat
  PROVE  m * n \in Nat
OBVIOUS

LEMMA PatchedTyped ==
  ASSUME NEW row \in Row, NEW f \in PurchaseOrderPatch
  PROVE  LET new == Patched(row, f)
         IN  /\ new \in Row
             /\ new.version = row.version + 1
             /\ new.quantity = IF f.quantity = Absent THEN row.quantity ELSE f.quantity
             /\ new.price = IF f.price = Absent THEN row.price ELSE f.price
             /\ new.total = IF f.quantity = Absent /\ f.price = Absent
                              THEN row.total ELSE new.quantity * new.price
<1> DEFINE status == IF f.status = Absent THEN row.status ELSE f.status
           due == IF f.due = Absent THEN row.due ELSE f.due
           quantity == IF f.quantity = Absent THEN row.quantity ELSE f.quantity
           price == IF f.price = Absent THEN row.price ELSE f.price
           product == quantity * price
           total == IF f.quantity = Absent /\ f.price = Absent
                      THEN row.total ELSE product
           version == row.version + 1
<1>1. quantity \in Nat /\ price \in Nat
  BY DEF Row, PurchaseOrderPatch
<1>2. product \in Nat
  BY <1>1, ProductOfNaturals
<1>3. /\ status \in OrderStatus /\ due \in Nat
      /\ total \in Nat /\ version \in Nat
  BY <1>2 DEF Row, PurchaseOrderPatch
<1>4. Patched(row, f) =
        [row EXCEPT !.status = status, !.due = due, !.quantity = quantity,
                    !.price = price, !.total = total, !.version = version]
  BY DEF Patched
<1>5. /\ total = IF f.quantity = Absent /\ f.price = Absent
                   THEN row.total ELSE quantity * price
      /\ quantity = IF f.quantity = Absent THEN row.quantity ELSE f.quantity
      /\ price = IF f.price = Absent THEN row.price ELSE f.price
      /\ version = row.version + 1
  OBVIOUS
<1> HIDE DEF status, due, quantity, price, product, total, version
<1>6. /\ Patched(row, f) \in Row
      /\ Patched(row, f).version = version
      /\ Patched(row, f).quantity = quantity
      /\ Patched(row, f).price = price
      /\ Patched(row, f).total = total
  BY <1>1, <1>3, <1>4 DEF Row
<1>7. QED
  BY <1>5, <1>6

(* A commit writes the columns that differ from the row read. *)
LEMMA WrittenRow ==
  ASSUME NEW new \in Row, NEW seen \in Row, NEW old \in Row
  PROVE  LET row == [col \in Columns |-> IF new[col] = seen[col] THEN old[col]
                                                                ELSE new[col]]
         IN  row \in Row /\ (seen = old => row = new)
<1> DEFINE row == [col \in Columns |-> IF new[col] = seen[col] THEN old[col]
                                                              ELSE new[col]]
           fields == [status |-> row.status, quantity |-> row.quantity,
                      price |-> row.price, total |-> row.total,
                      due |-> row.due, version |-> row.version]
<1>1. row = fields
  BY SMT DEF Columns
<1>2. fields \in Row
  <2>1. row.status \in OrderStatus
    BY DEF Columns, Row
  <2>2. row.quantity \in Nat /\ row.price \in Nat /\ row.total \in Nat
    BY DEF Columns, Row
  <2>3. row.due \in Nat /\ row.version \in Nat
    BY DEF Columns, Row
  <2> HIDE DEF row
  <2>4. QED
    BY <2>1, <2>2, <2>3 DEF Row
<1>3. ASSUME seen = old PROVE fields = new
  <2>1. /\ row.status = new.status /\ row.quantity = new.quantity
        /\ row.price = new.price /\ row.total = new.total
        /\ row.due = new.due /\ row.version = new.version
    BY <1>3 DEF Columns
  <2> HIDE DEF row
  <2>2. QED
    BY <2>1 DEF Row
<1>4. QED
  BY <1>1, <1>2, <1>3

LEMMA LogRowTyped ==
  ASSUME NEW event \in LogEvent, NEW entity \in Entities, NEW ref \in Nat,
         NEW before \in LogValue, NEW after \in LogValue
  PROVE  AuditRow(event, entity, ref, before, after) \in LogRow
BY DEF AuditRow, LogRow

LEMMA WritePatchKeeps ==
  ASSUME DeskInv, NEW c \in Clients, WritePatch(c)
  PROVE  DeskInv'
<1> DEFINE p == view[c].order
           seen == ctx[c].seen
           new == Patched(seen, ctx[c].patch)
           row == [col \in Columns |-> IF new[col] = seen[col] THEN pos[p][col]
                                                              ELSE new[col]]
           r == AuditRow("purchase_order_updated", p, 0, Shown(seen), Shown(new))
<1>1. /\ Finish(c, "patch")
      /\ pos' = [pos EXCEPT ![p] = row]
      /\ audit' = Append(audit, r)
      /\ UNCHANGED <<alerts, escalations>>
  BY DEF WritePatch
<1>2. OnlyMoves(c) /\ pc'[c] = "idle" /\ pc[c] = "patch"
  BY <1>1, Finishing DEF DeskInv, Finish, Goto
<1>3. p \in PurchaseOrders /\ seen \in Row /\ ctx[c].patch \in PurchaseOrderPatch
  BY <1>2 DEF DeskInv, RequestOK, Fetched
<1>4. new \in Row
  BY <1>3, PatchedTyped
<1>5. pos[p] \in Row
  BY <1>3 DEF DeskInv, TablesOK
<1>6. row \in Row
  BY <1>3, <1>4, <1>5, WrittenRow
<1> HIDE DEF row, new
<1>7. pos' \in [PurchaseOrders -> Row]
  BY <1>1, <1>3, <1>6 DEF DeskInv, TablesOK
<1>8. Shown(seen) \in LogValue /\ Shown(new) \in LogValue
  BY <1>3, <1>4 DEF LogValue
<1>9. r \in LogRow /\ r.event = "purchase_order_updated"
  <2>1. p \in Entities
    BY <1>3, DeskAssumption
  <2>2. r \in LogRow
    BY <1>8, <2>1, LogRowTyped DEF LogEvent
  <2>3. QED
    BY <2>2 DEF AuditRow
<1>10. RequestOK(c)'
  BY <1>2 DEF RequestOK
<1>11. QED
  BY <1>1, <1>2, <1>7, <1>9, <1>10, OrdersWritten

-----------------------------------------------------------------------------
(* The commit of a scan *)

LEMMA FreshTyped ==
  ASSUME DeskInv, NEW c \in Clients
  PROVE  LET keys == FreshFindings(c)
         IN  /\ keys \in Seq(Finding)
             /\ Len(keys) \in Nat
             /\ DOMAIN keys = 1..Len(keys)
             /\ \A i \in DOMAIN keys : keys[i] \in ToSet(ctx[c].found) \ ctx[c].open
             /\ \A i, j \in DOMAIN keys : keys[i] = keys[j] => i = j
             /\ \A k \in ToSet(ctx[c].found) \ ctx[c].open :
                  \E i \in DOMAIN keys : keys[i] = k
<1> DEFINE T == ToSet(ctx[c].found) \ ctx[c].open
<1>1. ctx[c].found \in Seq(Finding)
  BY DEF DeskInv, ControlOK, Context
<1>2. IsFiniteSet(T) /\ T \in SUBSET Finding
  BY <1>1, ToSetFinite, FS_Subset
<1>3. FreshFindings(c) = SetToSeq(T)
  BY DEF FreshFindings
<1> HIDE DEF T
<1>4. /\ SetToSeq(T) \in Seq(Finding)
      /\ Len(SetToSeq(T)) \in Nat
      /\ DOMAIN SetToSeq(T) = 1..Len(SetToSeq(T))
      /\ \A i \in DOMAIN SetToSeq(T) : SetToSeq(T)[i] \in T
      /\ \A i, j \in DOMAIN SetToSeq(T) :
           SetToSeq(T)[i] = SetToSeq(T)[j] => i = j
      /\ \A k \in T : \E i \in DOMAIN SetToSeq(T) : SetToSeq(T)[i] = k
  BY <1>2, SetSequence
<1>5. QED
  BY <1>3, <1>4 DEF T

LEMMA EscalatedTyped ==
  ASSUME TablesOK, NEW keys \in Seq(Finding)
  PROVE  LET ids == Escalated(keys)
         IN  /\ ids \in Seq(Nat)
             /\ Len(ids) \in Nat
             /\ DOMAIN ids = 1..Len(ids)
             /\ \A n \in DOMAIN ids :
                  /\ ids[n] \in Len(alerts) + 1..Len(alerts) + Len(keys)
                  /\ ids[n] - Len(alerts) \in DOMAIN keys
                  /\ RequiresApproval(keys[ids[n] - Len(alerts)])
             /\ \A m, n \in DOMAIN ids : ids[m] = ids[n] => m = n
             /\ \A i \in DOMAIN keys : RequiresApproval(keys[i]) =>
                  \E n \in DOMAIN ids : ids[n] = Len(alerts) + i
<1> DEFINE T == {a \in Len(alerts) + 1..Len(alerts) + Len(keys) :
                   RequiresApproval(keys[a - Len(alerts)])}
           ids == Escalated(keys)
<1>1. /\ Len(alerts) \in Nat
      /\ Len(keys) \in Nat
      /\ DOMAIN keys = 1..Len(keys)
  BY LenProperties DEF TablesOK
<1>2. IsFiniteSet(T)
  <2>1. IsFiniteSet(Len(alerts) + 1..Len(alerts) + Len(keys))
    BY <1>1, FS_Interval
  <2>2. QED
    BY <2>1, FS_Subset
<1>3. T \in SUBSET Nat
  BY <1>1
<1>4. ids = SetToSeq(T)
  BY DEF Escalated
<1>5. \A a \in T : /\ a \in Len(alerts) + 1..Len(alerts) + Len(keys)
                   /\ a - Len(alerts) \in DOMAIN keys
                   /\ RequiresApproval(keys[a - Len(alerts)])
  BY <1>1
<1>6. \A i \in DOMAIN keys : RequiresApproval(keys[i]) => Len(alerts) + i \in T
  <2>1. \A i \in DOMAIN keys :
          /\ Len(alerts) + i \in Len(alerts) + 1..Len(alerts) + Len(keys)
          /\ Len(alerts) + i - Len(alerts) = i
    BY <1>1
  <2>2. QED
    BY <2>1
<1> HIDE DEF T, ids
<1>7. /\ ids \in Seq(Nat)
      /\ Len(ids) \in Nat
      /\ DOMAIN ids = 1..Len(ids)
      /\ \A n \in DOMAIN ids : ids[n] \in T
      /\ \A m, n \in DOMAIN ids : ids[m] = ids[n] => m = n
      /\ \A a \in T : \E n \in DOMAIN ids : ids[n] = a
  BY <1>2, <1>3, <1>4, SetSequence
<1>8. QED
  BY <1>5, <1>6, <1>7 DEF ids

LEMMA NewRowsTyped ==
  ASSUME TablesOK, NEW keys \in Seq(Finding)
  PROVE  /\ NewAlerts(keys) \in Seq(AlertRow)
         /\ Len(NewAlerts(keys)) = Len(keys)
         /\ DOMAIN NewAlerts(keys) = DOMAIN keys
         /\ \A i \in DOMAIN keys :
              NewAlerts(keys)[i] = [type |-> keys[i][1], entity |-> keys[i][2],
                                    status |-> "open"]
<1> DEFINE rows == NewAlerts(keys)
<1>1. /\ Len(keys) \in Nat
      /\ DOMAIN keys = 1..Len(keys)
      /\ \A i \in DOMAIN keys : keys[i] \in Finding
  BY LenProperties, ElementOfSeq
<1>2. /\ DOMAIN rows = 1..Len(keys)
      /\ rows \in [1..Len(keys) -> AlertRow]
  BY <1>1 DEF NewAlerts, AlertRow, Finding
<1>3. rows \in Seq(AlertRow)
  BY <1>1, <1>2, SeqDef
<1>4. Len(rows) = Len(keys)
  BY <1>1, <1>2, <1>3, LenProperties
<1>5. QED
  BY <1>1, <1>2, <1>3, <1>4 DEF NewAlerts

LEMMA NewEscalationsTyped ==
  ASSUME NEW ids \in Seq(Nat)
  PROVE  /\ NewEscalations(ids) \in Seq(EscalationRow)
         /\ Len(NewEscalations(ids)) = Len(ids)
         /\ DOMAIN NewEscalations(ids) = DOMAIN ids
         /\ \A n \in DOMAIN ids :
              NewEscalations(ids)[n] = [alert |-> ids[n], status |-> "pending"]
<1> DEFINE rows == NewEscalations(ids)
<1>1. /\ Len(ids) \in Nat
      /\ DOMAIN ids = 1..Len(ids)
      /\ \A n \in DOMAIN ids : ids[n] \in Nat
  BY LenProperties, ElementOfSeq
<1>2. /\ DOMAIN rows = 1..Len(ids)
      /\ rows \in [1..Len(ids) -> EscalationRow]
  BY <1>1 DEF NewEscalations, EscalationRow, EscalationStatus
<1>3. rows \in Seq(EscalationRow)
  BY <1>1, <1>2, SeqDef
<1>4. Len(rows) = Len(ids)
  BY <1>1, <1>2, <1>3, LenProperties
<1>5. QED
  BY <1>1, <1>2, <1>3, <1>4 DEF NewEscalations

LEMMA CreationRowsTyped ==
  ASSUME TablesOK, NEW keys \in Seq(Finding), NEW ids \in Seq(Nat),
         \A n \in DOMAIN ids : ids[n] - Len(alerts) \in DOMAIN keys
  PROVE  LET rows == CreationRows(keys, ids)
         IN  /\ rows \in Seq(LogRow)
             /\ Len(rows) = Len(keys) + Len(ids)
             /\ \A i \in DOMAIN keys :
                  /\ rows[i].event = "alert_generated"
                  /\ rows[i].ref = Len(alerts) + i
             /\ \A n \in DOMAIN ids :
                  /\ rows[Len(keys) + n].event = "escalation_created"
                  /\ rows[Len(keys) + n].ref = Len(escalations) + n
<1> DEFINE A == [n \in DOMAIN keys |->
                   AuditRow("alert_generated", keys[n][2], Len(alerts) + n,
                            Absent, Absent)]
           B == [n \in DOMAIN ids |->
                   AuditRow("escalation_created", keys[ids[n] - Len(alerts)][2],
                            Len(escalations) + n, Absent, "pending")]
<1>1. /\ Len(keys) \in Nat /\ DOMAIN keys = 1..Len(keys)
      /\ Len(ids) \in Nat /\ DOMAIN ids = 1..Len(ids)
      /\ Len(alerts) \in Nat /\ Len(escalations) \in Nat
      /\ \A i \in DOMAIN keys : keys[i][2] \in Entities
  <2>1. \A i \in DOMAIN keys : keys[i] \in Finding
    BY LenProperties, ElementOfSeq
  <2>2. QED
    BY <2>1, LenProperties DEF TablesOK, Finding
<1>2. Absent \in LogValue /\ "pending" \in LogValue
  BY DEF LogValue, EscalationStatus
<1>3. \A i \in DOMAIN keys : A[i] \in LogRow
  <2>1. \A i \in DOMAIN keys : Len(alerts) + i \in Nat
    BY <1>1
  <2>2. QED
    BY <1>1, <1>2, <2>1, LogRowTyped DEF LogEvent
<1>4. \A n \in DOMAIN ids : B[n] \in LogRow
  <2>1. \A n \in DOMAIN ids : /\ Len(escalations) + n \in Nat
                              /\ keys[ids[n] - Len(alerts)][2] \in Entities
    BY <1>1
  <2>2. QED
    BY <1>2, <2>1, LogRowTyped DEF LogEvent
<1>5. A \in Seq(LogRow) /\ B \in Seq(LogRow)
  <2>1. A \in [1..Len(keys) -> LogRow] /\ B \in [1..Len(ids) -> LogRow]
    BY <1>1, <1>3, <1>4
  <2> HIDE DEF A, B
  <2>2. QED
    BY <1>1, <2>1, FunctionIsSeq
<1>6. DOMAIN A = DOMAIN keys /\ DOMAIN B = DOMAIN ids
  OBVIOUS
<1>7. \A i \in DOMAIN keys : /\ A[i].event = "alert_generated"
                             /\ A[i].ref = Len(alerts) + i
  BY DEF AuditRow
<1>8. \A n \in DOMAIN ids : /\ B[n].event = "escalation_created"
                            /\ B[n].ref = Len(escalations) + n
  BY DEF AuditRow
<1>9. CreationRows(keys, ids) = A \o B
  BY DEF CreationRows
<1> HIDE DEF A, B
<1>10. Len(A) = Len(keys) /\ Len(B) = Len(ids)
  BY <1>1, <1>5, <1>6, LenProperties
<1>11. /\ A \o B \in Seq(LogRow)
       /\ Len(A \o B) = Len(keys) + Len(ids)
       /\ \A i \in DOMAIN keys : (A \o B)[i] = A[i]
       /\ \A n \in DOMAIN ids : (A \o B)[Len(keys) + n] = B[n]
  <2>1. Len(A \o B) = Len(A) + Len(B)
    BY <1>5, ConcatProperties
  <2>2. /\ A \o B \in Seq(LogRow)
        /\ \A i \in DOMAIN A : (A \o B)[i] = A[i]
        /\ \A n \in DOMAIN B : (A \o B)[Len(A) + n] = B[n]
    BY <1>5, AddRows
  <2>3. QED
    BY <1>6, <1>10, <2>1, <2>2
<1>12. QED
  BY ZenonT(30), <1>7, <1>8, <1>9, <1>11

(* What the commit of a scan leaves in the tables. *)
LEMMA InsertedRows ==
  ASSUME DeskInv, NEW c \in Clients, InsertAlerts(c)
  PROVE  LET keys == FreshFindings(c)
             ids  == Escalated(keys)
         IN  /\ alerts' \in Seq(AlertRow)
             /\ DOMAIN alerts = 1..Len(alerts)
             /\ DOMAIN alerts' = 1..(Len(alerts) + Len(keys))
             /\ \A a \in DOMAIN alerts : alerts'[a] = alerts[a]
             /\ \A i \in DOMAIN keys :
                  alerts'[Len(alerts) + i] =
                    [type |-> keys[i][1], entity |-> keys[i][2], status |-> "open"]
             /\ escalations' \in Seq(EscalationRow)
             /\ DOMAIN escalations = 1..Len(escalations)
             /\ DOMAIN escalations' = 1..(Len(escalations) + Len(ids))
             /\ \A e \in DOMAIN escalations : escalations'[e] = escalations[e]
             /\ \A n \in DOMAIN ids :
                  escalations'[Len(escalations) + n] =
                    [alert |-> ids[n], status |-> "pending"]
             /\ audit' \in Seq(LogRow)
             /\ DOMAIN audit = 1..Len(audit)
             /\ DOMAIN audit' = 1..(Len(audit) + (Len(keys) + Len(ids)))
             /\ \A n \in DOMAIN audit : audit'[n] = audit[n]
             /\ \A i \in DOMAIN keys :
                  /\ audit'[Len(audit) + i].event = "alert_generated"
                  /\ audit'[Len(audit) + i].ref = Len(alerts) + i
             /\ \A n \in DOMAIN ids :
                  /\ audit'[Len(audit) + (Len(keys) + n)].event = "escalation_created"
                  /\ audit'[Len(audit) + (Len(keys) + n)].ref = Len(escalations) + n
<1> DEFINE keys == FreshFindings(c)
           ids == Escalated(keys)
           rows == CreationRows(keys, ids)
<1>1. /\ alerts' = alerts \o NewAlerts(keys)
      /\ escalations' = escalations \o NewEscalations(ids)
      /\ audit' = audit \o rows
  BY DEF InsertAlerts
<1>2. /\ keys \in Seq(Finding)
      /\ Len(keys) \in Nat
      /\ DOMAIN keys = 1..Len(keys)
  BY FreshTyped
<1> HIDE DEF keys
<1>3. /\ ids \in Seq(Nat)
      /\ Len(ids) \in Nat
      /\ DOMAIN ids = 1..Len(ids)
      /\ \A n \in DOMAIN ids : ids[n] - Len(alerts) \in DOMAIN keys
  BY <1>2, EscalatedTyped DEF DeskInv
<1> HIDE DEF ids
<1>4. /\ rows \in Seq(LogRow)
      /\ Len(rows) = Len(keys) + Len(ids)
      /\ \A i \in DOMAIN keys : /\ rows[i].event = "alert_generated"
                                /\ rows[i].ref = Len(alerts) + i
      /\ \A n \in DOMAIN ids :
           /\ rows[Len(keys) + n].event = "escalation_created"
           /\ rows[Len(keys) + n].ref = Len(escalations) + n
  BY ZenonT(30), <1>2, <1>3, CreationRowsTyped DEF DeskInv
<1> HIDE DEF rows
<1>5. /\ alerts' \in Seq(AlertRow)
      /\ DOMAIN alerts = 1..Len(alerts)
      /\ DOMAIN alerts' = 1..(Len(alerts) + Len(keys))
      /\ \A a \in DOMAIN alerts : alerts'[a] = alerts[a]
      /\ \A i \in DOMAIN keys :
           alerts'[Len(alerts) + i] =
             [type |-> keys[i][1], entity |-> keys[i][2], status |-> "open"]
  <2>1. /\ NewAlerts(keys) \in Seq(AlertRow)
        /\ Len(NewAlerts(keys)) = Len(keys)
        /\ DOMAIN NewAlerts(keys) = DOMAIN keys
        /\ \A i \in DOMAIN keys :
             NewAlerts(keys)[i] = [type |-> keys[i][1], entity |-> keys[i][2],
                                   status |-> "open"]
    BY <1>2, NewRowsTyped DEF DeskInv
  <2>2. alerts \in Seq(AlertRow)
    BY DEF DeskInv, TablesOK
  <2> DEFINE new == NewAlerts(keys)
  <2> HIDE DEF new
  <2>3. /\ alerts \o new \in Seq(AlertRow)
        /\ DOMAIN alerts = 1..Len(alerts)
        /\ DOMAIN (alerts \o new) = 1..(Len(alerts) + Len(new))
        /\ \A i \in DOMAIN alerts : (alerts \o new)[i] = alerts[i]
        /\ \A i \in DOMAIN new : (alerts \o new)[Len(alerts) + i] = new[i]
    <3>1. new \in Seq(AlertRow)
      BY <2>1 DEF new
    <3>2. QED
      BY <2>2, <3>1, AddRows
  <2>4. QED
    BY <1>1, <2>1, <2>3 DEF new
<1>6. /\ escalations' \in Seq(EscalationRow)
      /\ DOMAIN escalations = 1..Len(escalations)
      /\ DOMAIN escalations' = 1..(Len(escalations) + Len(ids))
      /\ \A e \in DOMAIN escalations : escalations'[e] = escalations[e]
      /\ \A n \in DOMAIN ids :
           escalations'[Len(escalations) + n] =
             [alert |-> ids[n], status |-> "pending"]
  <2>1. /\ NewEscalations(ids) \in Seq(EscalationRow)
        /\ Len(NewEscalations(ids)) = Len(ids)
        /\ DOMAIN NewEscalations(ids) = DOMAIN ids
        /\ \A n \in DOMAIN ids :
             NewEscalations(ids)[n] = [alert |-> ids[n], status |-> "pending"]
    BY <1>3, NewEscalationsTyped
  <2>2. escalations \in Seq(EscalationRow)
    BY DEF DeskInv, TablesOK
  <2> DEFINE new == NewEscalations(ids)
  <2> HIDE DEF new
  <2>3. /\ escalations \o new \in Seq(EscalationRow)
        /\ DOMAIN escalations = 1..Len(escalations)
        /\ DOMAIN (escalations \o new) = 1..(Len(escalations) + Len(new))
        /\ \A i \in DOMAIN escalations : (escalations \o new)[i] = escalations[i]
        /\ \A i \in DOMAIN new : (escalations \o new)[Len(escalations) + i] = new[i]
    <3>1. new \in Seq(EscalationRow)
      BY <2>1 DEF new
    <3>2. QED
      BY <2>2, <3>1, AddRows
  <2>4. QED
    BY <1>1, <2>1, <2>3 DEF new
<1>7. /\ audit' \in Seq(LogRow)
      /\ DOMAIN audit = 1..Len(audit)
      /\ DOMAIN audit' = 1..(Len(audit) + (Len(keys) + Len(ids)))
      /\ \A n \in DOMAIN audit : audit'[n] = audit[n]
      /\ \A i \in DOMAIN rows : audit'[Len(audit) + i] = rows[i]
      /\ DOMAIN rows = 1..(Len(keys) + Len(ids))
  <2>1. audit \in Seq(LogRow)
    BY DEF DeskInv, TablesOK
  <2>2. /\ audit \o rows \in Seq(LogRow)
        /\ DOMAIN audit = 1..Len(audit)
        /\ DOMAIN rows = 1..Len(rows)
        /\ DOMAIN (audit \o rows) = 1..(Len(audit) + Len(rows))
        /\ \A i \in DOMAIN audit : (audit \o rows)[i] = audit[i]
        /\ \A i \in DOMAIN rows : (audit \o rows)[Len(audit) + i] = rows[i]
    <3>1. rows \in Seq(LogRow)
      BY <1>4
    <3>2. QED
      BY <2>1, <3>1, AddRows
  <2>3. QED
    BY <1>1, <1>4, <2>2
<1>8. \A i \in DOMAIN keys : i \in DOMAIN rows
  BY <1>2, <1>3, <1>7
<1>9. \A n \in DOMAIN ids : Len(keys) + n \in DOMAIN rows
  BY <1>2, <1>3, <1>7
<1>10. /\ \A i \in DOMAIN keys :
            /\ audit'[Len(audit) + i].event = "alert_generated"
            /\ audit'[Len(audit) + i].ref = Len(alerts) + i
       /\ \A n \in DOMAIN ids :
            /\ audit'[Len(audit) + (Len(keys) + n)].event = "escalation_created"
            /\ audit'[Len(audit) + (Len(keys) + n)].ref = Len(escalations) + n
  BY SMTT(30), <1>4, <1>7, <1>8, <1>9
<1>11. QED
  BY <1>5, <1>6, <1>7, <1>10 DEF keys, ids

LEMMA InsertAlertsKeeps ==
  ASSUME DeskInv, NEW c \in Clients, InsertAlerts(c)
  PROVE  DeskInv'
<1> DEFINE keys == FreshFindings(c)
           ids == Escalated(keys)
<1>1. /\ alerts' \in Seq(AlertRow)
      /\ DOMAIN alerts = 1..Len(alerts)
      /\ DOMAIN alerts' = 1..(Len(alerts) + Len(keys))
      /\ \A a \in DOMAIN alerts : alerts'[a] = alerts[a]
      /\ \A i \in DOMAIN keys :
           alerts'[Len(alerts) + i] =
             [type |-> keys[i][1], entity |-> keys[i][2], status |-> "open"]
  BY InsertedRows
<1>2. /\ escalations' \in Seq(EscalationRow)
      /\ DOMAIN escalations = 1..Len(escalations)
      /\ DOMAIN escalations' = 1..(Len(escalations) + Len(ids))
      /\ \A e \in DOMAIN escalations : escalations'[e] = escalations[e]
      /\ \A n \in DOMAIN ids :
           escalations'[Len(escalations) + n] =
             [alert |-> ids[n], status |-> "pending"]
  BY InsertedRows
<1>3. /\ audit' \in Seq(LogRow)
      /\ DOMAIN audit = 1..Len(audit)
      /\ DOMAIN audit' = 1..(Len(audit) + (Len(keys) + Len(ids)))
      /\ \A n \in DOMAIN audit : audit'[n] = audit[n]
      /\ \A i \in DOMAIN keys :
           /\ audit'[Len(audit) + i].event = "alert_generated"
           /\ audit'[Len(audit) + i].ref = Len(alerts) + i
      /\ \A n \in DOMAIN ids :
           /\ audit'[Len(audit) + (Len(keys) + n)].event = "escalation_created"
           /\ audit'[Len(audit) + (Len(keys) + n)].ref = Len(escalations) + n
  BY InsertedRows
<1>4. /\ keys \in Seq(Finding)
      /\ Len(keys) \in Nat
      /\ DOMAIN keys = 1..Len(keys)
  BY FreshTyped
<1> HIDE DEF keys
<1>5. /\ Len(ids) \in Nat
      /\ DOMAIN ids = 1..Len(ids)
      /\ \A n \in DOMAIN ids :
           /\ ids[n] \in Len(alerts) + 1..Len(alerts) + Len(keys)
           /\ ids[n] - Len(alerts) \in DOMAIN keys
           /\ RequiresApproval(keys[ids[n] - Len(alerts)])
      /\ \A m, n \in DOMAIN ids : ids[m] = ids[n] => m = n
      /\ \A i \in DOMAIN keys : RequiresApproval(keys[i]) =>
           \E n \in DOMAIN ids : ids[n] = Len(alerts) + i
  BY <1>4, EscalatedTyped DEF DeskInv
<1> HIDE DEF ids
<1>6. Len(alerts) \in Nat /\ Len(escalations) \in Nat /\ Len(audit) \in Nat
  BY LenProperties DEF DeskInv, TablesOK
(* Every row of a new table is an old one or one of the new ones, whose ids   *)
(* are newA(i), newE(n) and, of the two groups of the log, newG(i), newC(n). *)
<1> DEFINE newA(i) == Len(alerts) + i
           newE(n) == Len(escalations) + n
           newG(i) == Len(audit) + i
           newC(n) == Len(audit) + (Len(keys) + n)
<1>7. /\ \A a \in DOMAIN alerts : a \in DOMAIN alerts' /\ alerts'[a] = alerts[a]
      /\ \A i \in DOMAIN keys :
           /\ newA(i) \in DOMAIN alerts' /\ newA(i) \notin DOMAIN alerts
           /\ alerts'[newA(i)].type = keys[i][1]
           /\ alerts'[newA(i)].status = "open"
      /\ \A a \in DOMAIN alerts' :
           a \in DOMAIN alerts \/ \E i \in DOMAIN keys : a = newA(i)
  <2>1. ASSUME NEW a \in DOMAIN alerts', a \notin DOMAIN alerts
        PROVE  a - Len(alerts) \in DOMAIN keys /\ a = newA(a - Len(alerts))
    BY <1>1, <1>4, <1>6, <2>1
  <2>2. \A a \in DOMAIN alerts : a \in DOMAIN alerts'
    BY <1>1, <1>4, <1>6
  <2>3. \A i \in DOMAIN keys : newA(i) \in DOMAIN alerts' /\ newA(i) \notin DOMAIN alerts
    BY <1>1, <1>4, <1>6
  <2>4. ASSUME NEW i \in DOMAIN keys
        PROVE  alerts'[newA(i)].type = keys[i][1] /\ alerts'[newA(i)].status = "open"
    <3>1. alerts'[newA(i)] =
            [type |-> keys[i][1], entity |-> keys[i][2], status |-> "open"]
      BY <1>1
    <3> HIDE DEF newA
    <3>2. QED
      BY <3>1
  <2>5. QED
    BY <1>1, <2>1, <2>2, <2>3, <2>4
<1>8. /\ \A e \in DOMAIN escalations :
           e \in DOMAIN escalations' /\ escalations'[e] = escalations[e]
      /\ \A n \in DOMAIN ids : /\ newE(n) \in DOMAIN escalations'
                               /\ escalations'[newE(n)].alert = ids[n]
                               /\ escalations'[newE(n)].status = "pending"
      /\ \A e \in DOMAIN escalations' :
           e \in DOMAIN escalations \/ \E n \in DOMAIN ids : e = newE(n)
  <2>1. ASSUME NEW e \in DOMAIN escalations', e \notin DOMAIN escalations
        PROVE  /\ e - Len(escalations) \in DOMAIN ids
               /\ e = newE(e - Len(escalations))
    BY <1>2, <1>5, <1>6, <2>1
  <2>2. \A e \in DOMAIN escalations : e \in DOMAIN escalations'
    BY <1>2, <1>5, <1>6
  <2>3. \A n \in DOMAIN ids : newE(n) \in DOMAIN escalations'
    BY <1>2, <1>5, <1>6
  <2>4. ASSUME NEW n \in DOMAIN ids
        PROVE  /\ escalations'[newE(n)].alert = ids[n]
               /\ escalations'[newE(n)].status = "pending"
    <3>1. escalations'[newE(n)] = [alert |-> ids[n], status |-> "pending"]
      BY <1>2
    <3> HIDE DEF newE
    <3>2. QED
      BY <3>1
  <2>5. QED
    BY <1>2, <2>1, <2>2, <2>3, <2>4
<1>9. /\ \A n \in DOMAIN audit : n \in DOMAIN audit' /\ audit'[n] = audit[n]
      /\ \A i \in DOMAIN keys : /\ newG(i) \in DOMAIN audit'
                                /\ audit'[newG(i)].event = "alert_generated"
                                /\ audit'[newG(i)].ref = newA(i)
      /\ \A n \in DOMAIN ids : /\ newC(n) \in DOMAIN audit'
                               /\ audit'[newC(n)].event = "escalation_created"
                               /\ audit'[newC(n)].ref = newE(n)
      /\ \A n \in DOMAIN audit' : \/ n \in DOMAIN audit
                                  \/ \E i \in DOMAIN keys : n = newG(i)
                                  \/ \E m \in DOMAIN ids : n = newC(m)
  <2>1. ASSUME NEW n \in DOMAIN audit', n \notin DOMAIN audit,
               ~(n - Len(audit) \in DOMAIN keys)
        PROVE  /\ n - Len(audit) - Len(keys) \in DOMAIN ids
               /\ n = newC(n - Len(audit) - Len(keys))
    BY SMTT(30), <1>3, <1>4, <1>5, <1>6, <2>1
  <2>2. ASSUME NEW n \in DOMAIN audit', n - Len(audit) \in DOMAIN keys
        PROVE  n = newG(n - Len(audit))
    BY <1>3, <1>4, <1>5, <1>6
  <2>3. \A n \in DOMAIN audit : n \in DOMAIN audit'
    BY <1>3, <1>4, <1>5, <1>6
  <2>4. \A i \in DOMAIN keys : newG(i) \in DOMAIN audit'
    BY <1>3, <1>4, <1>5, <1>6
  <2>5. ASSUME NEW m \in DOMAIN ids PROVE newC(m) \in DOMAIN audit'
    <3>1. m \in 1..Len(ids) /\ DOMAIN audit' = 1..(Len(audit) + (Len(keys) + Len(ids)))
      BY <1>3, <1>5
    <3>2. Len(audit) + (Len(keys) + m) \in 1..(Len(audit) + (Len(keys) + Len(ids)))
      BY <1>4, <1>5, <1>6, <3>1, SMTT(30)
    <3>3. QED
      BY <3>1, <3>2
  <2>6. QED
    BY <1>3, <2>1, <2>2, <2>3, <2>4, <2>5
<1>10. /\ \A n \in DOMAIN ids :
            \E i \in DOMAIN keys : /\ ids[n] = newA(i)
                                   /\ keys[i][1] = "budget_approval_required"
       /\ \A m, n \in DOMAIN ids : ids[m] = ids[n] => m = n
       /\ \A i \in DOMAIN keys : keys[i][1] = "budget_approval_required" =>
            \E n \in DOMAIN ids : ids[n] = newA(i)
  <2>1. ASSUME NEW n \in DOMAIN ids
        PROVE  /\ ids[n] - Len(alerts) \in DOMAIN keys
               /\ ids[n] = newA(ids[n] - Len(alerts))
               /\ RequiresApproval(keys[ids[n] - Len(alerts)])
    BY <1>5, <1>6
  <2>2. QED
    BY <1>5, <2>1 DEF RequiresApproval
<1> HIDE DEF newA, newE, newG, newC
<1>11. Grows
  BY <1>7, <1>8 DEF Grows
<1>12. OnlyMoves(c) /\ pc'[c] = "idle"
  BY Finishing DEF DeskInv, InsertAlerts
<1>13. ASSUME NEW d \in Clients PROVE RequestOK(d)'
  <2>1. CASE d = c
    BY <1>12, <2>1 DEF RequestOK
  <2>2. CASE d # c
    BY <1>11, <1>12, <2>2, OtherRequests DEF DeskInv, OnlyMoves
  <2>3. QED
    BY <2>1, <2>2
<1>14. \A e \in DOMAIN escalations : escalations[e].alert \in DOMAIN alerts
  BY DEF DeskInv, TablesOK
<1>15. TablesOK'
  <2>1. \A e \in DOMAIN escalations' : escalations'[e].alert \in DOMAIN alerts'
    <3>1. \A e \in DOMAIN escalations : escalations'[e].alert \in DOMAIN alerts'
      BY <1>7, <1>8, <1>14
    <3>2. \A n \in DOMAIN ids : escalations'[newE(n)].alert \in DOMAIN alerts'
      BY <1>7, <1>8, <1>10
    <3>3. QED
      BY <1>8, <3>1, <3>2
  <2>2. UNCHANGED pos
    BY DEF InsertAlerts
  <2>3. QED
    BY <1>1, <1>2, <1>3, <2>1, <2>2 DEF DeskInv, TablesOK
<1>16. EscalationsOK'
  <2>1. ASSUME NEW a \in DOMAIN alerts', alerts'[a].type = "budget_approval_required"
        PROVE  \E e \in DOMAIN escalations' : escalations'[e].alert = a
    <3>1. CASE a \in DOMAIN alerts
      <4>1. PICK e \in DOMAIN escalations : escalations[e].alert = a
        BY <1>7, <2>1, <3>1 DEF DeskInv, EscalationsOK
      <4>2. QED
        BY <1>8, <4>1
    <3>2. ASSUME NEW i \in DOMAIN keys, a = newA(i)
          PROVE  \E e \in DOMAIN escalations' : escalations'[e].alert = a
      <4>1. PICK n \in DOMAIN ids : ids[n] = newA(i)
        BY <1>7, <1>10, <2>1, <3>2
      <4>2. QED
        BY <1>8, <3>2, <4>1
    <3>3. QED
      BY <1>7, <3>1, <3>2
  <2>2. ASSUME NEW e \in DOMAIN escalations'
        PROVE  alerts'[escalations'[e].alert].type = "budget_approval_required"
    <3>1. CASE e \in DOMAIN escalations
      BY <1>7, <1>8, <1>14, <3>1 DEF DeskInv, EscalationsOK
    <3>2. ASSUME NEW n \in DOMAIN ids, e = newE(n)
          PROVE  alerts'[escalations'[e].alert].type = "budget_approval_required"
      <4>1. PICK i \in DOMAIN keys : /\ ids[n] = newA(i)
                                     /\ keys[i][1] = "budget_approval_required"
        BY <1>10
      <4>2. QED
        BY <1>7, <1>8, <3>2, <4>1
    <3>3. QED
      BY <1>8, <3>1, <3>2
  <2>3. ASSUME NEW e \in DOMAIN escalations', NEW f \in DOMAIN escalations',
               escalations'[e].alert = escalations'[f].alert
        PROVE  e = f
    <3>1. \A x \in DOMAIN escalations :
            /\ escalations'[x].alert = escalations[x].alert
            /\ escalations'[x].alert \in DOMAIN alerts
      BY <1>8, <1>14
    <3>2. \A n \in DOMAIN ids :
            /\ escalations'[newE(n)].alert = ids[n]
            /\ escalations'[newE(n)].alert \notin DOMAIN alerts
      BY <1>7, <1>8, <1>10
    <3>3. CASE e \in DOMAIN escalations /\ f \in DOMAIN escalations
      BY <2>3, <3>1, <3>3 DEF DeskInv, EscalationsOK
    <3>4. CASE e \notin DOMAIN escalations /\ f \notin DOMAIN escalations
      <4>1. PICK m \in DOMAIN ids : e = newE(m)
        BY <1>8, <3>4
      <4>2. PICK n \in DOMAIN ids : f = newE(n)
        BY <1>8, <3>4
      <4>3. QED
        BY <1>10, <2>3, <3>2, <4>1, <4>2
    <3>5. QED
      BY <1>8, <2>3, <3>1, <3>2, <3>3, <3>4
  <2>4. QED
    BY <2>1, <2>2, <2>3 DEF EscalationsOK
<1>17. ResolvedTogether'
  <2>1. ASSUME NEW e \in DOMAIN escalations'
        PROVE  escalations'[e].status = "pending"
                 <=> alerts'[escalations'[e].alert].status = "open"
    <3>1. CASE e \in DOMAIN escalations
      BY <1>7, <1>8, <1>14, <3>1 DEF DeskInv, ResolvedTogether
    <3>2. ASSUME NEW n \in DOMAIN ids, e = newE(n)
          PROVE  /\ escalations'[e].status = "pending"
                 /\ alerts'[escalations'[e].alert].status = "open"
      BY <1>7, <1>8, <1>10, <3>2
    <3>3. QED
      BY <1>8, <3>1, <3>2
  <2>2. QED
    BY <2>1 DEF ResolvedTogether
<1>18. TrailComplete'
  <2>1. \A event, ref : HasCreationRow(event, ref) => HasCreationRow(event, ref)'
    BY <1>9 DEF HasCreationRow
  <2>2. ASSUME NEW a \in DOMAIN alerts'
        PROVE  HasCreationRow("alert_generated", a)'
    <3>1. CASE a \in DOMAIN alerts
      BY <2>1, <3>1 DEF DeskInv, TrailComplete
    <3>2. ASSUME NEW i \in DOMAIN keys, a = newA(i)
          PROVE  HasCreationRow("alert_generated", a)'
      BY <1>9, <3>2 DEF HasCreationRow
    <3>3. QED
      BY <1>7, <3>1, <3>2
  <2>3. ASSUME NEW e \in DOMAIN escalations'
        PROVE  HasCreationRow("escalation_created", e)'
    <3>1. CASE e \in DOMAIN escalations
      BY <2>1, <3>1 DEF DeskInv, TrailComplete
    <3>2. ASSUME NEW n \in DOMAIN ids, e = newE(n)
          PROVE  HasCreationRow("escalation_created", e)'
      BY <1>9, <3>2 DEF HasCreationRow
    <3>3. QED
      BY <1>8, <3>1, <3>2
  <2>4. ASSUME NEW p \in PurchaseOrders, NEW d \in {"approved", "rejected"}
        PROVE  Decided(p, d)' = Decided(p, d)
    <3>1. ASSUME NEW e \in DOMAIN escalations
          PROVE  e \in Decided(p, d)' <=> e \in Decided(p, d)
      BY <1>7, <1>8, <1>14 DEF Decided
    <3>2. ASSUME NEW n \in DOMAIN ids
          PROVE  newE(n) \notin Decided(p, d)'
      BY <1>8 DEF Decided
    <3>3. /\ Decided(p, d)' \subseteq DOMAIN escalations'
          /\ Decided(p, d) \subseteq DOMAIN escalations
      BY DEF Decided
    <3>4. QED
      BY <1>8, <3>1, <3>2, <3>3
  <2>5. ASSUME NEW p \in PurchaseOrders, NEW d \in {"approved", "rejected"}
        PROVE  DecisionRows(p, d)' = DecisionRows(p, d)
    <3>1. ASSUME NEW n \in DOMAIN audit
          PROVE  n \in DecisionRows(p, d)' <=> n \in DecisionRows(p, d)
      BY <1>9 DEF DecisionRows
    <3>2. /\ \A i \in DOMAIN keys : newG(i) \notin DecisionRows(p, d)'
          /\ \A m \in DOMAIN ids : newC(m) \notin DecisionRows(p, d)'
      BY <1>9 DEF DecisionRows
    <3>3. /\ DecisionRows(p, d)' \subseteq DOMAIN audit'
          /\ DecisionRows(p, d) \subseteq DOMAIN audit
      BY DEF DecisionRows
    <3>4. QED
      BY ZenonT(30), <1>9, <3>1, <3>2, <3>3
  <2>6. QED
    BY <2>2, <2>3, <2>4, <2>5 DEF DeskInv, TrailComplete
<1>19. QED
  BY <1>12, <1>13, <1>15, <1>16, <1>17, <1>18 DEF DeskInv, OnlyMoves

-----------------------------------------------------------------------------
(* The commit of a decision *)

(* Only the status of rows e and a changes, and one row is added to the log. *)
LEMMA DecidedRows ==
  ASSUME DeskInv, NEW c \in Clients, WriteResolution(c)
  PROVE  LET e == ctx[c].escalation
             d == ctx[c].decision
             a == escalations[e].alert
         IN  /\ e \in DOMAIN escalations
             /\ a \in DOMAIN alerts
             /\ d \in {"approved", "rejected"}
             /\ alerts' \in Seq(AlertRow)
             /\ DOMAIN alerts' = DOMAIN alerts
             /\ \A x \in DOMAIN alerts : /\ alerts'[x].type = alerts[x].type
                                         /\ alerts'[x].entity = alerts[x].entity
                                         /\ x # a => alerts'[x] = alerts[x]
             /\ alerts'[a].status = "resolved"
             /\ escalations' \in Seq(EscalationRow)
             /\ DOMAIN escalations' = DOMAIN escalations
             /\ \A x \in DOMAIN escalations :
                  /\ escalations'[x].alert = escalations[x].alert
                  /\ x # e => escalations'[x] = escalations[x]
             /\ escalations'[e].status # "pending"
             /\ escalations'[e].status \in {escalations[e].status, d}
             /\ audit' \in Seq(LogRow)
             /\ DOMAIN audit' = DOMAIN audit \cup {Len(audit) + 1}
             /\ \A n \in DOMAIN audit : audit'[n] = audit[n]
             /\ Len(audit) + 1 \notin DOMAIN audit
             /\ audit'[Len(audit) + 1].event = "escalation_resolved"
             /\ audit'[Len(audit) + 1].entity = alerts[a].entity
             /\ audit'[Len(audit) + 1].after = d
<1> DEFINE e == ctx[c].escalation
           d == ctx[c].decision
           a == escalations[e].alert
           r == AuditRow("escalation_resolved", alerts[a].entity, 0, ctx[c].was, d)
<1>1. /\ pc[c] = "resolve"
      /\ escalations' = IF ctx[c].was = d THEN escalations
                           ELSE [escalations EXCEPT ![e].status = d]
      /\ alerts' = [alerts EXCEPT ![a].status = "resolved"]
      /\ audit' = Append(audit, r)
  BY DEF WriteResolution, Finish, Goto
<1>2. /\ e \in DOMAIN escalations
      /\ d \in {"approved", "rejected"}
      /\ ctx[c].was \in EscalationStatus
      /\ ctx[c].was # "pending" => escalations[e].status # "pending"
  BY <1>1 DEF DeskInv, RequestOK
<1>3. /\ a \in DOMAIN alerts
      /\ escalations[e] \in EscalationRow
      /\ alerts[a] \in AlertRow
  <2>1. a \in DOMAIN alerts
    BY <1>2 DEF DeskInv, TablesOK
  <2>2. escalations[e] \in EscalationRow
    BY <1>2, LenProperties, ElementOfSeq DEF DeskInv, TablesOK
  <2>3. QED
    BY <2>1, <2>2, KeyTyped DEF DeskInv
<1> HIDE DEF e, d, a
<1>4. /\ alerts' \in Seq(AlertRow)
      /\ DOMAIN alerts' = DOMAIN alerts
      /\ \A x \in DOMAIN alerts : /\ alerts'[x].type = alerts[x].type
                                  /\ alerts'[x].entity = alerts[x].entity
                                  /\ x # a => alerts'[x] = alerts[x]
      /\ alerts'[a].status = "resolved"
  <2> DEFINE row == [alerts[a] EXCEPT !.status = "resolved"]
  <2>1. /\ row \in AlertRow
        /\ row.type = alerts[a].type
        /\ row.entity = alerts[a].entity
        /\ row.status = "resolved"
    BY <1>3 DEF AlertRow
  <2>2. alerts' = [alerts EXCEPT ![a] = row]
    BY <1>1
  <2> HIDE DEF row
  <2>3. alerts \in Seq(AlertRow) /\ DOMAIN alerts = 1..Len(alerts)
    BY LenProperties DEF DeskInv, TablesOK
  <2>4. alerts' \in Seq(AlertRow)
    BY <1>3, <2>1, <2>2, <2>3, ExceptSeq
  <2>5. QED
    BY <1>3, <2>1, <2>2, <2>4
<1>5. /\ escalations' \in Seq(EscalationRow)
      /\ DOMAIN escalations' = DOMAIN escalations
      /\ \A x \in DOMAIN escalations :
           /\ escalations'[x].alert = escalations[x].alert
           /\ x # e => escalations'[x] = escalations[x]
      /\ escalations'[e].status # "pending"
      /\ escalations'[e].status \in {escalations[e].status, d}
  <2>1. CASE ctx[c].was = d
    BY <1>1, <1>2, <2>1 DEF DeskInv, TablesOK
  <2>2. CASE ctx[c].was # d
    <3> DEFINE row == [escalations[e] EXCEPT !.status = d]
    <3>1. /\ row \in EscalationRow
          /\ row.alert = escalations[e].alert
          /\ row.status = d
      BY <1>2, <1>3 DEF EscalationRow, EscalationStatus
    <3>2. escalations' = [escalations EXCEPT ![e] = row]
      BY <1>1, <2>2
    <3> HIDE DEF row
    <3>3. /\ escalations \in Seq(EscalationRow)
          /\ DOMAIN escalations = 1..Len(escalations)
      BY LenProperties DEF DeskInv, TablesOK
    <3>4. escalations' \in Seq(EscalationRow)
      BY <1>2, <3>1, <3>2, <3>3, ExceptSeq
    <3>5. QED
      BY <1>2, <3>1, <3>2, <3>4
  <2>3. QED
    BY <2>1, <2>2
<1>6. r \in LogRow
  <2>1. alerts[a].entity \in Entities
    BY <1>3 DEF AlertRow
  <2>2. ctx[c].was \in LogValue /\ d \in LogValue
    BY <1>2 DEF LogValue, EscalationStatus
  <2>3. QED
    BY <2>1, <2>2, LogRowTyped DEF LogEvent
<1>7. /\ r.event = "escalation_resolved"
      /\ r.entity = alerts[a].entity
      /\ r.after = d
  BY DEF AuditRow
<1> HIDE DEF r
<1>8. /\ audit' \in Seq(LogRow)
      /\ DOMAIN audit' = DOMAIN audit \cup {Len(audit) + 1}
      /\ \A n \in DOMAIN audit : audit'[n] = audit[n]
      /\ Len(audit) + 1 \notin DOMAIN audit
      /\ audit'[Len(audit) + 1] = r
  <2>1. audit \in Seq(LogRow)
    BY DEF DeskInv, TablesOK
  <2>2. QED
    BY <1>1, <1>6, <2>1, AddRow
<1>9. QED
  BY <1>2, <1>3, <1>4, <1>5, <1>7, <1>8 DEF e, d, a

LEMMA WriteResolutionKeeps ==
  ASSUME DeskInv, NEW c \in Clients, WriteResolution(c)
  PROVE  DeskInv'
<1> DEFINE e == ctx[c].escalation
           d == ctx[c].decision
           a == escalations[e].alert
           last == Len(audit) + 1
<1>1. /\ e \in DOMAIN escalations
      /\ a \in DOMAIN alerts
      /\ d \in {"approved", "rejected"}
  BY DecidedRows
<1>2. /\ alerts' \in Seq(AlertRow)
      /\ DOMAIN alerts' = DOMAIN alerts
      /\ \A x \in DOMAIN alerts : /\ alerts'[x].type = alerts[x].type
                                  /\ alerts'[x].entity = alerts[x].entity
                                  /\ x # a => alerts'[x] = alerts[x]
      /\ alerts'[a].status = "resolved"
  BY DecidedRows
<1>3. /\ escalations' \in Seq(EscalationRow)
      /\ DOMAIN escalations' = DOMAIN escalations
      /\ \A x \in DOMAIN escalations :
           /\ escalations'[x].alert = escalations[x].alert
           /\ x # e => escalations'[x] = escalations[x]
      /\ escalations'[e].status # "pending"
      /\ escalations'[e].status \in {escalations[e].status, d}
  BY DecidedRows
<1>4. /\ audit' \in Seq(LogRow)
      /\ DOMAIN audit' = DOMAIN audit \cup {last}
      /\ \A n \in DOMAIN audit : audit'[n] = audit[n]
      /\ last \notin DOMAIN audit
      /\ audit'[last].event = "escalation_resolved"
      /\ audit'[last].entity = alerts[a].entity
      /\ audit'[last].after = d
  BY DecidedRows
<1>5. /\ \A x \in DOMAIN escalations : escalations[x].alert \in DOMAIN alerts
      /\ \A x \in DOMAIN escalations : escalations[x].alert = a => x = e
  BY <1>1 DEF DeskInv, TablesOK, EscalationsOK
<1>6. a = escalations[e].alert
  OBVIOUS
<1> HIDE DEF e, d, a, last
<1>7. Grows
  BY <1>2, <1>3 DEF Grows
<1>8. OnlyMoves(c) /\ pc'[c] = "idle"
  BY Finishing DEF DeskInv, WriteResolution
<1>9. ASSUME NEW x \in Clients PROVE RequestOK(x)'
  <2>1. CASE x = c
    BY <1>8, <2>1 DEF RequestOK
  <2>2. CASE x # c
    BY <1>7, <1>8, <2>2, OtherRequests DEF DeskInv, OnlyMoves
  <2>3. QED
    BY <2>1, <2>2
<1>10. TablesOK'
  <2>1. UNCHANGED pos
    BY DEF WriteResolution
  <2>2. QED
    BY <1>2, <1>3, <1>4, <1>5, <2>1 DEF DeskInv, TablesOK
<1>11. EscalationsOK'
  <2>1. ASSUME NEW x \in DOMAIN alerts', alerts'[x].type = "budget_approval_required"
        PROVE  \E y \in DOMAIN escalations' : escalations'[y].alert = x
    <3>1. PICK y \in DOMAIN escalations : escalations[y].alert = x
      BY <1>2, <2>1 DEF DeskInv, EscalationsOK
    <3>2. QED
      BY <1>3, <3>1
  <2>2. \A x \in DOMAIN escalations' :
          alerts'[escalations'[x].alert].type = "budget_approval_required"
    BY <1>2, <1>3, <1>5 DEF DeskInv, EscalationsOK
  <2>3. \A x, y \in DOMAIN escalations' :
          escalations'[x].alert = escalations'[y].alert => x = y
    BY <1>3 DEF DeskInv, EscalationsOK
  <2>4. QED
    BY <2>1, <2>2, <2>3 DEF EscalationsOK
<1>12. ResolvedTogether'
  <2>1. ASSUME NEW x \in DOMAIN escalations, x # e
        PROVE  escalations'[x].status = "pending"
                 <=> alerts'[escalations'[x].alert].status = "open"
    BY <1>2, <1>3, <1>5, <2>1 DEF DeskInv, ResolvedTogether
  <2>2. /\ escalations'[e].status # "pending"
        /\ alerts'[escalations'[e].alert].status # "open"
    BY <1>1, <1>2, <1>3, <1>6
  <2>3. QED
    BY <1>3, <2>1, <2>2 DEF ResolvedTogether
<1>13. TrailComplete'
  <2>1. \A event, ref : HasCreationRow(event, ref) => HasCreationRow(event, ref)'
    BY <1>4 DEF HasCreationRow
  <2>2. ASSUME NEW p \in PurchaseOrders, NEW v \in {"approved", "rejected"}
        PROVE  Cardinality(Decided(p, v)') <= Cardinality(DecisionRows(p, v)')
    <3> DEFINE D == Decided(p, v)
               R == DecisionRows(p, v)
    <3>1. D \subseteq DOMAIN escalations /\ R \subseteq DOMAIN audit
      BY DEF Decided, DecisionRows
    <3>2. IsFiniteSet(D) /\ IsFiniteSet(R)
      <4>1. IsFiniteSet(DOMAIN escalations) /\ IsFiniteSet(DOMAIN audit)
        BY LenProperties, FS_Interval DEF DeskInv, TablesOK
      <4>2. QED
        BY <3>1, <4>1, FS_Subset
    <3>3. Cardinality(D) \in Nat /\ Cardinality(R) \in Nat
      BY <3>2, FS_CardinalityType
    <3>4. Cardinality(D) <= Cardinality(R)
      BY DEF DeskInv, TrailComplete
    <3>5. ASSUME NEW x \in DOMAIN escalations, x # e
          PROVE  x \in Decided(p, v)' <=> x \in D
      BY <1>2, <1>3, <1>5, <3>5 DEF Decided
    <3>6. ASSUME NEW n \in DOMAIN audit
          PROVE  n \in DecisionRows(p, v)' <=> n \in R
      BY <1>4 DEF DecisionRows
    <3>7. /\ Decided(p, v)' \subseteq DOMAIN escalations
          /\ DecisionRows(p, v)' \subseteq DOMAIN audit \cup {last}
      BY <1>3, <1>4 DEF Decided, DecisionRows
    <3>8. CASE v = d /\ alerts[a].entity = p
      <4>1. last \in DecisionRows(p, v)'
        BY <1>4, <3>8 DEF DecisionRows
      <4>2. DecisionRows(p, v)' = R \cup {last} /\ last \notin R
        BY <1>4, <3>1, <3>6, <3>7, <4>1
      <4>3. Cardinality(DecisionRows(p, v)') = Cardinality(R) + 1
        BY <3>2, <4>2, FS_AddElement
      <4>4. Decided(p, v)' \subseteq D \cup {e}
        BY <3>5, <3>7
      <4>5. /\ IsFiniteSet(D \cup {e})
            /\ Cardinality(D \cup {e}) <= Cardinality(D) + 1
        <5> HIDE DEF D
        <5>1. /\ IsFiniteSet(D \cup {e})
              /\ Cardinality(D \cup {e}) = IF e \in D THEN Cardinality(D)
                                                    ELSE Cardinality(D) + 1
          BY <3>2, FS_AddElement
        <5>2. QED
          BY <3>3, <5>1
      <4>6. /\ Cardinality(Decided(p, v)') \in Nat
            /\ Cardinality(Decided(p, v)') <= Cardinality(D \cup {e})
            /\ Cardinality(D \cup {e}) \in Nat
        <5>1. Decided(p, v)' \in SUBSET (D \cup {e}) /\ IsFiniteSet(D \cup {e})
          BY <4>4, <4>5
        <5> HIDE DEF D
        <5>2. /\ IsFiniteSet(Decided(p, v)')
              /\ Cardinality(Decided(p, v)') <= Cardinality(D \cup {e})
          BY <5>1, FS_Subset
        <5>3. QED
          BY <5>1, <5>2, FS_CardinalityType
      <4>7. QED
        BY <3>3, <3>4, <4>3, <4>5, <4>6
    <3>9. CASE ~(v = d /\ alerts[a].entity = p)
      <4>1. last \notin DecisionRows(p, v)'
        BY <1>4, <3>9 DEF DecisionRows
      <4>2. DecisionRows(p, v)' = R
        BY <1>4, <3>1, <3>6, <3>7, <4>1
      <4>3. e \in Decided(p, v)' => e \in D
        <5>1. ASSUME e \in Decided(p, v)'
              PROVE  escalations'[e].status = v /\ alerts[a].entity = p
          BY <1>1, <1>2, <1>3, <1>6, <5>1 DEF Decided
        <5>2. ASSUME e \in Decided(p, v)'
              PROVE  escalations[e].status = v /\ alerts[a].entity = p
          BY <1>3, <3>9, <5>1, <5>2
        <5>3. QED
          BY <1>1, <1>6, <5>2 DEF Decided
      <4>4. Decided(p, v)' \subseteq D
        BY <3>5, <3>7, <4>3
      <4>5. /\ Cardinality(Decided(p, v)') \in Nat
            /\ Cardinality(Decided(p, v)') <= Cardinality(D)
        BY <3>2, <4>4, FS_Subset, FS_CardinalityType
      <4>6. QED
        BY <3>3, <3>4, <4>2, <4>5
    <3>10. QED
      BY <3>8, <3>9
  <2>3. QED
    BY <1>2, <1>3, <2>1, <2>2 DEF DeskInv, TrailComplete
<1>14. QED
  BY <1>8, <1>9, <1>10, <1>11, <1>12, <1>13 DEF DeskInv, OnlyMoves

-----------------------------------------------------------------------------
(* The theorems about every interleaving *)

LEMMA DeskInit == Init => DeskInv
<1> SUFFICES ASSUME Init PROVE DeskInv
  OBVIOUS
<1>1. /\ <<>> \in Seq(AlertRow) /\ <<>> \in Seq(EscalationRow)
      /\ <<>> \in Seq(LogRow) /\ DOMAIN <<>> = {}
  BY EmptySeq
<1>2. TablesOK
  BY <1>1, DeskAssumption DEF Init, TablesOK
<1>3. ControlOK
  BY NoContextTyped, DeskAssumption DEF Init, ControlOK, Labels
<1>4. EscalationsOK /\ ResolvedTogether
  BY <1>1 DEF Init, EscalationsOK, ResolvedTogether
<1>5. TrailComplete
  <2>1. \A p, d : Decided(p, d) = {} /\ DecisionRows(p, d) = {}
    BY <1>1 DEF Init, Decided, DecisionRows
  <2>2. \A p, d : Cardinality(Decided(p, d)) <= Cardinality(DecisionRows(p, d))
    BY <2>1, FS_EmptySet
  <2>3. QED
    BY <1>1, <2>2 DEF Init, TrailComplete
<1>6. \A c \in Clients : RequestOK(c)
  BY DEF Init, RequestOK
<1>7. QED
  BY <1>2, <1>3, <1>4, <1>5, <1>6 DEF DeskInv

LEMMA DeskUnchanged ==
  ASSUME DeskInv, UNCHANGED vars
  PROVE  DeskInv'
<1>1. TablesOK' /\ ControlOK' /\ EscalationsOK' /\ ResolvedTogether'
  BY DEF DeskInv, vars, tables, TablesOK, ControlOK, EscalationsOK,
         ResolvedTogether
<1>2. \A c \in Clients : RequestOK(c)'
  BY DEF DeskInv, vars, tables, RequestOK
<1>3. \A p, d : Decided(p, d)' = Decided(p, d)
               /\ DecisionRows(p, d)' = DecisionRows(p, d)
  BY DEF vars, tables, Decided, DecisionRows
<1>4. \A event, ref : HasCreationRow(event, ref)' = HasCreationRow(event, ref)
  BY DEF vars, tables, HasCreationRow
<1>5. TrailComplete'
  BY <1>3, <1>4 DEF DeskInv, vars, tables, TrailComplete
<1>6. QED
  BY <1>1, <1>2, <1>5 DEF DeskInv

LEMMA DeskStep == DeskInv /\ [Next]_vars => DeskInv'
<1> SUFFICES ASSUME DeskInv, [Next]_vars PROVE DeskInv'
  OBVIOUS
<1>1. CASE UNCHANGED vars
  BY <1>1, DeskUnchanged
<1>2. CASE Tick
  BY <1>2, TickKeeps
<1>3. ASSUME NEW c \in Clients, Fetch(c) PROVE DeskInv'
  BY <1>3, GetPurchaseOrderKeeps DEF Fetch
<1>4. ASSUME NEW c \in Clients, Request(c) PROVE DeskInv'
  BY <1>4, PatchPurchaseOrderKeeps, ScanDelayedKeeps, ResolveEscalationKeeps,
     RunScenarioKeeps DEF Request
<1>5. ASSUME NEW c \in Clients, Step(c) PROVE DeskInv'
  BY <1>5, WritePatchKeeps, WriteResolutionKeeps, ScanBudgetKeeps,
     ScanOpenKeeps, InsertAlertsKeeps DEF Step
<1>6. QED
  BY <1>1, <1>2, <1>3, <1>4, <1>5 DEF Next

(* Whatever overlaps, the strengthened invariant holds. *)
THEOREM DeskInvariant == Spec => []DeskInv
<1>1. QED
  BY DeskInit, DeskStep, PTL DEF Spec

(* The tables, the fetched orders and the locals of every request are well   *)
(* typed in every reachable state.                                          *)
THEOREM DeskTypeCorrectness == Spec => []TypeOK
<1>1. DeskInv => TypeOK
  BY TypeParts DEF DeskInv
<1>2. QED
  BY <1>1, DeskInvariant, PTL

LEMMA OneEscalation == DeskInv => EscalatedOnce
<1> SUFFICES ASSUME DeskInv, NEW a \in DOMAIN alerts
             PROVE  Cardinality({e \in DOMAIN escalations :
                                   escalations[e].alert = a})
                      = IF RequiresApproval(Key(a)) THEN 1 ELSE 0
  BY DEF EscalatedOnce
<1> DEFINE E == {e \in DOMAIN escalations : escalations[e].alert = a}
<1>1. RequiresApproval(Key(a)) <=> alerts[a].type = "budget_approval_required"
  BY DEF RequiresApproval, Key
<1>2. CASE RequiresApproval(Key(a))
  <2>1. PICK e \in DOMAIN escalations : escalations[e].alert = a
    BY <1>1, <1>2 DEF DeskInv, EscalationsOK
  <2>2. E = {e}
    BY <2>1 DEF DeskInv, EscalationsOK
  <2>3. QED
    BY <1>2, <2>2, FS_Singleton
<1>3. CASE ~RequiresApproval(Key(a))
  <2>1. E = {}
    BY <1>1, <1>3 DEF DeskInv, EscalationsOK
  <2>2. QED
    BY <1>3, <2>1, FS_EmptySet
<1>4. QED
  BY <1>2, <1>3

(* Every alert that needs an approval has exactly one escalation and no      *)
(* other alert has one, however many scans overlap.                         *)
THEOREM OneEscalationEach == Spec => []EscalatedOnce
<1>1. QED
  BY OneEscalation, DeskInvariant, PTL

(* An escalation is pending exactly as long as its alert is open, although   *)
(* decisions overlap and are repeated.                                      *)
THEOREM DecisionsCloseAlerts == Spec => []ResolvedTogether
<1>1. DeskInv => ResolvedTogether
  BY DEF DeskInv
<1>2. QED
  BY <1>1, DeskInvariant, PTL

(* The audit log accounts for every alert, escalation and decision. *)
THEOREM TrailAccounts == Spec => []TrailComplete
<1>1. DeskInv => TrailComplete
  BY DEF DeskInv
<1>2. QED
  BY <1>1, DeskInvariant, PTL

-----------------------------------------------------------------------------
(* Requests that do not overlap *)

Alone == \A c, d \in Clients : pc[c] # "idle" /\ pc[d] # "idle" => c = d

(* A fetched order is at most as new as the row, and tells its terms if it   *)
(* is as new.                                                               *)
ViewOK(c) ==
  view[c] \in Fetched =>
    LET row == view[c].row
        cur == pos[view[c].order]
    IN  /\ row.version <= cur.version
        /\ row.version = cur.version =>
             Terms(row) = Terms(cur) /\ row.due = cur.due

(* What the one request in progress has read is what the tables say. *)
FreshOK(c) ==
  /\ pc[c] = "patch" => /\ ctx[c].seen = pos[view[c].order]
                        /\ view[c].row.version = pos[view[c].order].version
  /\ pc[c] = "scan_insert" => ctx[c].open = OpenKeys

SerialInv ==
  /\ DeskInv
  /\ Alone
  /\ TotalsConsistent
  /\ NoDuplicateOpenAlert
  /\ \A c \in Clients : ViewOK(c) /\ FreshOK(c)

(* Only client c was under way. *)
LEMMA OthersIdle ==
  ASSUME DeskInv, Alone, NEW c \in Clients, OnlyMoves(c),
         pc[c] # "idle" \/ \A d \in Clients : pc[d] = "idle"
  PROVE  /\ Alone'
         /\ \A d \in Clients \ {c} : pc'[d] = "idle" /\ FreshOK(d)'
<1>1. \A d \in Clients \ {c} : pc'[d] = "idle"
  BY DEF Alone, OnlyMoves
<1>2. Alone'
  BY <1>1 DEF Alone
<1>3. \A d \in Clients \ {c} : FreshOK(d)'
  BY <1>1 DEF FreshOK
<1>4. QED
  BY <1>1, <1>2, <1>3

(* Requests and steps that leave the tables alone. *)
LEMMA SerialTablesKept ==
  ASSUME SerialInv, NEW c \in Clients, UNCHANGED tables, OnlyMoves(c), DeskInv',
         pc[c] # "idle" \/ \A d \in Clients : pc[d] = "idle",
         view'[c] = view[c], FreshOK(c)'
  PROVE  SerialInv'
<1>1. /\ Alone'
      /\ \A d \in Clients \ {c} : FreshOK(d)'
  BY OthersIdle DEF SerialInv
<1>2. \A d \in Clients : FreshOK(d)'
  BY <1>1
<1>3. \A d \in Clients : ViewOK(d)'
  <2>1. \A d \in Clients : view'[d] = view[d]
    BY DEF OnlyMoves
  <2>2. QED
    BY <2>1 DEF SerialInv, tables, ViewOK
<1>4. TotalsConsistent' /\ NoDuplicateOpenAlert'
  BY DEF SerialInv, tables, TotalsConsistent, NoDuplicateOpenAlert, Key
<1>5. QED
  BY <1>1, <1>2, <1>3, <1>4 DEF SerialInv

LEMMA TickSerial ==
  ASSUME SerialInv, Tick, DeskInv'
  PROVE  SerialInv'
<1>1. Alone' /\ TotalsConsistent' /\ NoDuplicateOpenAlert'
  BY DEF SerialInv, Tick, tables, Alone, TotalsConsistent, NoDuplicateOpenAlert,
         Key
<1>2. OpenKeys' = OpenKeys
  BY DEF Tick, tables, OpenKeys, Key
<1>3. \A c \in Clients : ViewOK(c)' /\ FreshOK(c)'
  BY <1>2 DEF SerialInv, Tick, tables, ViewOK, FreshOK
<1>4. QED
  BY <1>1, <1>3 DEF SerialInv

LEMMA FetchSerial ==
  ASSUME SerialInv, NEW c \in Clients, Fetch(c), DeskInv'
  PROVE  SerialInv'
<1>1. PICK p \in PurchaseOrders : GetPurchaseOrder(c, p)
  BY DEF Fetch
<1>2. pos[p] \in Row
  BY DEF SerialInv, DeskInv, TablesOK
<1>3. /\ view'[c] = [order |-> p, row |-> pos[p]]
      /\ \A d \in Clients : d # c => view'[d] = view[d]
      /\ UNCHANGED <<tables, now, pc, ctx, started>>
      /\ pc[c] = "idle"
  BY <1>1 DEF SerialInv, DeskInv, ControlOK, GetPurchaseOrder
<1>4. Alone' /\ TotalsConsistent' /\ NoDuplicateOpenAlert'
  BY <1>3 DEF SerialInv, tables, Alone, TotalsConsistent, NoDuplicateOpenAlert,
              Key
<1>5. OpenKeys' = OpenKeys
  BY <1>3 DEF tables, OpenKeys, Key
<1>6. ASSUME NEW d \in Clients PROVE ViewOK(d)' /\ FreshOK(d)'
  <2>1. CASE d = c
    <3>1. ViewOK(c)'
      BY <1>2, <1>3 DEF tables, ViewOK, Row
    <3>2. FreshOK(c)'
      BY <1>3 DEF FreshOK
    <3>3. QED
      BY <2>1, <3>1, <3>2
  <2>2. CASE d # c
    BY <1>3, <1>5, <2>2 DEF SerialInv, tables, ViewOK, FreshOK
  <2>3. QED
    BY <2>1, <2>2
<1>7. QED
  BY <1>4, <1>6 DEF SerialInv

LEMMA OneMoves ==
  ASSUME DeskInv, DeskInv', NEW c \in Clients, Request(c) \/ Step(c)
  PROVE  OnlyMoves(c) /\ view'[c] = view[c]
<1>1. /\ view' = view
      /\ \A d \in Clients : d # c => pc'[d] = pc[d] /\ ctx'[d] = ctx[d]
  <2>1. CASE Request(c)
    BY ZenonT(30), <2>1 DEF DeskInv, ControlOK, Request, Begin, PatchPurchaseOrder,
                ScanDelayed, ResolveEscalation, RunScenario
  <2>2. CASE Step(c)
    BY <2>2 DEF DeskInv, ControlOK, Step, Goto, Finish, WritePatch,
                WriteResolution, ScanBudget, ScanOpen, InsertAlerts
  <2>3. QED
    BY <2>1, <2>2
<1>2. QED
  BY <1>1 DEF DeskInv, OnlyMoves

LEMMA RequestSerial ==
  ASSUME SerialInv, NEW c \in Clients, Idle, Request(c), DeskInv'
  PROVE  SerialInv'
<1>1. OnlyMoves(c) /\ view'[c] = view[c] /\ \A d \in Clients : pc[d] = "idle"
  BY OneMoves DEF SerialInv, Idle
<1>2. ASSUME NEW f \in Patches, PatchPurchaseOrder(c, f) PROVE SerialInv'
  <2>1. /\ UNCHANGED tables
        /\ pc'[c] = "patch"
        /\ ctx'[c].seen = pos[view[c].order]
        /\ view[c].row.version = pos[view[c].order].version
    BY <1>2 DEF SerialInv, DeskInv, ControlOK, PatchPurchaseOrder, Begin,
                NoContext
  <2>2. FreshOK(c)'
    BY <1>1, <2>1 DEF tables, FreshOK
  <2>3. QED
    BY <1>1, <2>1, <2>2, SerialTablesKept
<1>3. CASE ScanDelayed(c)
  <2>1. UNCHANGED tables /\ pc'[c] = "scan_budget"
    BY <1>3 DEF SerialInv, DeskInv, ControlOK, ScanDelayed, Begin
  <2>2. FreshOK(c)'
    BY <2>1 DEF FreshOK
  <2>3. QED
    BY <1>1, <2>1, <2>2, SerialTablesKept
<1>4. ASSUME NEW e \in DOMAIN escalations, NEW d \in {"approved", "rejected"},
             ResolveEscalation(c, e, d)
      PROVE  SerialInv'
  <2>1. UNCHANGED tables /\ pc'[c] = "resolve"
    BY <1>4 DEF SerialInv, DeskInv, ControlOK, ResolveEscalation, Begin
  <2>2. FreshOK(c)'
    BY <2>1 DEF FreshOK
  <2>3. QED
    BY <1>1, <2>1, <2>2, SerialTablesKept
<1>5. ASSUME NEW s \in {"delayed", "in_transit"}, RunScenario(c, s)
      PROVE  SerialInv'
  <2>1. /\ pos' = [pos EXCEPT ![ScenarioOrder].status = s]
        /\ UNCHANGED <<alerts, view, pc>>
    BY <1>5 DEF RunScenario
  <2>2. /\ pos \in [PurchaseOrders -> Row]
        /\ pos' \in [PurchaseOrders -> Row]
    BY DEF SerialInv, DeskInv, TablesOK
  <2>3. ASSUME NEW p \in PurchaseOrders
        PROVE  /\ pos'[p].quantity = pos[p].quantity
               /\ pos'[p].price = pos[p].price
               /\ pos'[p].total = pos[p].total
               /\ pos'[p].version = pos[p].version
               /\ pos'[p].due = pos[p].due
    <3> DEFINE row == [pos[p] EXCEPT !.status = s]
    <3>1. pos[p] \in Row
      BY <2>2
    <3>2. /\ row.quantity = pos[p].quantity /\ row.price = pos[p].price
          /\ row.total = pos[p].total /\ row.version = pos[p].version
          /\ row.due = pos[p].due
      BY <3>1 DEF Row
    <3>3. pos'[p] = pos[p] \/ pos'[p] = row
      BY <2>1, <2>2
    <3> HIDE DEF row
    <3>4. QED
      BY <3>2, <3>3
  <2>4. Alone'
    BY <2>1 DEF SerialInv, Alone
  <2>5. TotalsConsistent'
    BY <2>3 DEF SerialInv, TotalsConsistent, TotalOf
  <2>6. NoDuplicateOpenAlert'
    BY <2>1 DEF SerialInv, NoDuplicateOpenAlert, Key
  <2>7. \A d \in Clients : FreshOK(d)'
    BY <1>1, <2>1 DEF FreshOK
  <2>8. \A d \in Clients : ViewOK(d)'
    BY <2>1, <2>3 DEF SerialInv, ViewOK, Fetched, Terms
  <2>9. QED
    BY <2>4, <2>5, <2>6, <2>7, <2>8 DEF SerialInv
<1>6. QED
  BY <1>2, <1>3, <1>4, <1>5 DEF Request

LEMMA ReadSerial ==
  ASSUME SerialInv, NEW c \in Clients, ScanBudget(c) \/ ScanOpen(c), DeskInv'
  PROVE  SerialInv'
<1>1. OnlyMoves(c) /\ view'[c] = view[c]
  BY OneMoves DEF SerialInv, Step
<1>2. CASE ScanBudget(c)
  <2>1. UNCHANGED tables /\ pc'[c] = "scan_open" /\ pc[c] # "idle"
    BY <1>2 DEF SerialInv, DeskInv, ControlOK, ScanBudget, Goto
  <2>2. FreshOK(c)'
    BY <2>1 DEF FreshOK
  <2>3. QED
    BY <1>1, <2>1, <2>2, SerialTablesKept
<1>3. CASE ScanOpen(c)
  <2>1. /\ UNCHANGED tables
        /\ pc'[c] = "scan_insert"
        /\ ctx'[c] = [ctx[c] EXCEPT !.open = OpenKeys]
    BY <1>3, ScanOpenReads DEF SerialInv
  <2>2. pc[c] # "idle" /\ ctx[c] \in Context
    BY <1>3 DEF SerialInv, DeskInv, ControlOK, ScanOpen, Goto
  <2>3. ctx'[c].open = OpenKeys
    BY <2>1, <2>2 DEF Context
  <2>4. OpenKeys' = OpenKeys
    BY <2>1 DEF tables, OpenKeys, Key
  <2>5. FreshOK(c)'
    BY <2>1, <2>3, <2>4 DEF FreshOK
  <2>6. QED
    BY <1>1, <2>1, <2>2, <2>5, SerialTablesKept
<1>4. QED
  BY <1>2, <1>3

(* The row an update leaves when nothing was written since it was read. *)
LEMMA PatchedRow ==
  ASSUME SerialInv, NEW c \in Clients, WritePatch(c)
  PROVE  LET p   == view[c].order
             new == Patched(pos[p], ctx[c].patch)
         IN  /\ p \in PurchaseOrders
             /\ ctx[c].patch \in PurchaseOrderPatch
             /\ pos' = [pos EXCEPT ![p] = new]
<1> DEFINE p == view[c].order
           new == Patched(pos[p], ctx[c].patch)
           row == [col \in Columns |-> IF new[col] = pos[p][col] THEN pos[p][col]
                                                                ELSE new[col]]
<1>1. pc[c] = "patch"
  BY DEF WritePatch, Finish, Goto
<1>2. /\ p \in PurchaseOrders
      /\ ctx[c].patch \in PurchaseOrderPatch
      /\ ctx[c].seen = pos[p]
  BY <1>1 DEF SerialInv, DeskInv, RequestOK, FreshOK, Fetched
<1>3. pos[p] \in Row
  BY <1>2 DEF SerialInv, DeskInv, TablesOK
<1>4. new \in Row
  BY <1>2, <1>3, PatchedTyped
<1>5. pos' = [pos EXCEPT ![p] = row]
  BY <1>2 DEF WritePatch
<1> HIDE DEF new
<1>6. row = new
  BY <1>3, <1>4, WrittenRow
<1>7. QED
  BY <1>2, <1>5, <1>6 DEF new

LEMMA WritePatchSerial ==
  ASSUME SerialInv, NEW c \in Clients, WritePatch(c), DeskInv'
  PROVE  SerialInv'
<1> DEFINE p == view[c].order
           f == ctx[c].patch
           new == Patched(pos[p], f)
<1>1. /\ OnlyMoves(c)
      /\ pc[c] = "patch"
      /\ pc'[c] = "idle"
      /\ view' = view
      /\ UNCHANGED alerts
  BY OneMoves, Finishing DEF SerialInv, DeskInv, Step, WritePatch, Finish, Goto
<1>2. p \in PurchaseOrders /\ f \in PurchaseOrderPatch /\ pos' = [pos EXCEPT ![p] = new]
  BY PatchedRow
<1>3. pos \in [PurchaseOrders -> Row]
  BY DEF SerialInv, DeskInv, TablesOK
<1>4. /\ new.version = pos[p].version + 1
      /\ new.quantity = IF f.quantity = Absent THEN pos[p].quantity ELSE f.quantity
      /\ new.price = IF f.price = Absent THEN pos[p].price ELSE f.price
      /\ new.total = IF f.quantity = Absent /\ f.price = Absent
                       THEN pos[p].total ELSE new.quantity * new.price
  BY <1>2, <1>3, PatchedTyped
<1> HIDE DEF new
<1>5. pos'[p] = new /\ \A q \in PurchaseOrders : q # p => pos'[q] = pos[q]
  BY <1>2, <1>3
<1>6. Alone' /\ \A d \in Clients : FreshOK(d)'
  <2>1. FreshOK(c)'
    BY <1>1 DEF FreshOK
  <2>2. QED
    BY <1>1, <2>1, OthersIdle DEF SerialInv
<1>7. TotalsConsistent'
  <2>1. pos[p].total = pos[p].quantity * pos[p].price
    BY <1>2 DEF SerialInv, TotalsConsistent, TotalOf
  <2>2. new.total = new.quantity * new.price
    BY <1>4, <2>1
  <2>3. \A q \in PurchaseOrders : q # p => pos'[q].total = TotalOf(pos'[q])
    BY <1>5 DEF SerialInv, TotalsConsistent
  <2>4. QED
    BY <1>5, <2>2, <2>3 DEF TotalsConsistent, TotalOf
<1>8. NoDuplicateOpenAlert'
  BY <1>1 DEF SerialInv, NoDuplicateOpenAlert, Key
<1>9. ASSUME NEW d \in Clients PROVE ViewOK(d)'
  <2>1. SUFFICES ASSUME view[d] \in Fetched
                 PROVE  LET row == view[d].row
                            cur == pos'[view[d].order]
                        IN  /\ row.version <= cur.version
                            /\ row.version = cur.version =>
                                 Terms(row) = Terms(cur) /\ row.due = cur.due
    BY <1>1 DEF ViewOK
  <2>2. CASE view[d].order = p
    <3>1. view[d].row.version <= pos[p].version
      BY <2>1, <2>2 DEF SerialInv, ViewOK
    <3>2. view[d].row.version \in Nat /\ pos[p].version \in Nat
      BY <1>2, <1>3, <2>1 DEF Fetched, Row
    <3>3. /\ view[d].row.version <= new.version
          /\ view[d].row.version # new.version
      BY <1>4, <3>1, <3>2
    <3>4. QED
      BY <1>5, <2>2, <3>3
  <2>3. CASE view[d].order # p
    <3>1. pos'[view[d].order] = pos[view[d].order]
      BY <1>5, <2>1, <2>3 DEF Fetched
    <3>2. QED
      BY <2>1, <3>1 DEF SerialInv, ViewOK
  <2>4. QED
    BY <2>2, <2>3
<1>10. QED
  BY <1>6, <1>7, <1>8, <1>9 DEF SerialInv

(* Steps that leave the purchase orders alone and end a request. *)
LEMMA AlertsWritten ==
  ASSUME SerialInv, NEW c \in Clients, OnlyMoves(c), DeskInv',
         pc[c] # "idle", pc'[c] = "idle", view'[c] = view[c], UNCHANGED pos,
         NoDuplicateOpenAlert'
  PROVE  SerialInv'
<1>1. FreshOK(c)'
  BY DEF FreshOK
<1>2. Alone' /\ \A d \in Clients : FreshOK(d)'
  BY <1>1, OthersIdle DEF SerialInv
<1>3. \A d \in Clients : ViewOK(d)'
  BY DEF SerialInv, OnlyMoves, ViewOK
<1>4. TotalsConsistent'
  BY DEF SerialInv, TotalsConsistent
<1>5. QED
  BY <1>2, <1>3, <1>4 DEF SerialInv

LEMMA WriteResolutionSerial ==
  ASSUME SerialInv, NEW c \in Clients, WriteResolution(c), DeskInv'
  PROVE  SerialInv'
<1>1. /\ OnlyMoves(c) /\ view'[c] = view[c]
      /\ pc[c] # "idle" /\ pc'[c] = "idle"
      /\ UNCHANGED pos
  BY OneMoves, Finishing DEF SerialInv, DeskInv, Step, WriteResolution, Finish,
                             Goto
<1> DEFINE a == escalations[ctx[c].escalation].alert
<1>2. /\ a \in DOMAIN alerts
      /\ DOMAIN alerts' = DOMAIN alerts
      /\ \A x \in DOMAIN alerts : /\ alerts'[x].type = alerts[x].type
                                  /\ alerts'[x].entity = alerts[x].entity
                                  /\ x # a => alerts'[x] = alerts[x]
      /\ alerts'[a].status = "resolved"
  BY DecidedRows DEF SerialInv
<1> HIDE DEF a
<1>3. NoDuplicateOpenAlert'
  <2>1. ASSUME NEW x \in DOMAIN alerts, NEW y \in DOMAIN alerts,
               alerts'[x].type = alerts'[y].type,
               alerts'[x].entity = alerts'[y].entity,
               alerts'[x].status = "open", alerts'[y].status = "open"
        PROVE  x = y
    <3>1. x # a /\ y # a
      BY <1>2, <2>1
    <3>2. QED
      BY <1>2, <2>1, <3>1 DEF SerialInv, NoDuplicateOpenAlert, Key
  <2>2. QED
    BY <1>2, <2>1 DEF NoDuplicateOpenAlert, Key
<1>4. QED
  BY <1>1, <1>3, AlertsWritten

(* A scan that runs alone raises each finding that has no open alert, once.  *)
LEMMA RaisedOnce ==
  ASSUME SerialInv, NEW c \in Clients, InsertAlerts(c)
  PROVE  /\ NoDuplicateOpenAlert'
         /\ \A k \in ToSet(ctx[c].found) :
              \E a \in DOMAIN alerts' :
                /\ <<alerts'[a].type, alerts'[a].entity>> = k
                /\ alerts'[a].status = "open"
<1> DEFINE keys == FreshFindings(c)
           newA(i) == Len(alerts) + i
<1>1. ctx[c].open = OpenKeys
  BY DEF SerialInv, FreshOK, InsertAlerts, Finish, Goto
<1>2. /\ Len(keys) \in Nat
      /\ DOMAIN keys = 1..Len(keys)
      /\ keys \in Seq(Finding)
  BY FreshTyped DEF SerialInv
<1>3. /\ \A i \in DOMAIN keys : keys[i] \in ToSet(ctx[c].found) \ OpenKeys
      /\ \A i, j \in DOMAIN keys : keys[i] = keys[j] => i = j
      /\ \A k \in ToSet(ctx[c].found) \ OpenKeys : \E i \in DOMAIN keys : keys[i] = k
  BY <1>1, FreshTyped DEF SerialInv
<1>4. /\ DOMAIN alerts = 1..Len(alerts)
      /\ DOMAIN alerts' = 1..(Len(alerts) + Len(keys))
      /\ \A a \in DOMAIN alerts : alerts'[a] = alerts[a]
      /\ \A i \in DOMAIN keys :
           alerts'[newA(i)] =
             [type |-> keys[i][1], entity |-> keys[i][2], status |-> "open"]
  BY InsertedRows DEF SerialInv
<1>5. Len(alerts) \in Nat
  BY LenProperties DEF SerialInv, DeskInv, TablesOK
<1>6. \A i \in DOMAIN keys : keys[i] = <<keys[i][1], keys[i][2]>>
  <2>1. \A i \in DOMAIN keys : keys[i] \in Finding
    BY <1>2, ElementOfSeq
  <2>2. QED
    BY <2>1 DEF Finding
<1> HIDE DEF keys
<1>7. ASSUME NEW a \in DOMAIN alerts', a \notin DOMAIN alerts
      PROVE  \E i \in DOMAIN keys : a = newA(i)
  <2>1. a - Len(alerts) \in DOMAIN keys /\ a = newA(a - Len(alerts))
    BY <1>2, <1>4, <1>5, <1>7
  <2>2. QED
    BY <2>1
<1>8. /\ \A a \in DOMAIN alerts : a \in DOMAIN alerts'
      /\ \A i \in DOMAIN keys : newA(i) \in DOMAIN alerts'
  BY <1>2, <1>4, <1>5
<1>9. \A i, j \in DOMAIN keys : i = j => newA(i) = newA(j)
  OBVIOUS
<1> HIDE DEF newA
<1>10. ASSUME NEW i \in DOMAIN keys
       PROVE  /\ <<alerts'[newA(i)].type, alerts'[newA(i)].entity>> = keys[i]
              /\ alerts'[newA(i)].status = "open"
  <2>1. alerts'[newA(i)] =
          [type |-> keys[i][1], entity |-> keys[i][2], status |-> "open"]
    BY <1>4
  <2>2. QED
    BY <1>6, <2>1
<1>11. \A a \in DOMAIN alerts :
         alerts[a].status = "open" =>
           <<alerts[a].type, alerts[a].entity>> \in OpenKeys
  BY DEF OpenKeys, Key
<1>12. ASSUME NEW a \in DOMAIN alerts', NEW b \in DOMAIN alerts',
              <<alerts'[a].type, alerts'[a].entity>>
                = <<alerts'[b].type, alerts'[b].entity>>,
              alerts'[a].status = "open", alerts'[b].status = "open"
       PROVE  a = b
  <2>1. CASE a \in DOMAIN alerts /\ b \in DOMAIN alerts
    BY <1>4, <1>12, <2>1 DEF SerialInv, NoDuplicateOpenAlert, Key
  <2>2. CASE a \in DOMAIN alerts /\ b \notin DOMAIN alerts
    <3>1. PICK i \in DOMAIN keys : b = newA(i)
      BY <1>7, <2>2
    <3>2. keys[i] \in OpenKeys
      BY <1>4, <1>10, <1>11, <1>12, <2>2, <3>1
    <3>3. QED
      BY <1>3, <3>2
  <2>3. CASE a \notin DOMAIN alerts /\ b \in DOMAIN alerts
    <3>1. PICK i \in DOMAIN keys : a = newA(i)
      BY <1>7, <2>3
    <3>2. keys[i] \in OpenKeys
      BY <1>4, <1>10, <1>11, <1>12, <2>3, <3>1
    <3>3. QED
      BY <1>3, <3>2
  <2>4. CASE a \notin DOMAIN alerts /\ b \notin DOMAIN alerts
    <3>1. PICK i \in DOMAIN keys : a = newA(i)
      BY <1>7, <2>4
    <3>2. PICK j \in DOMAIN keys : b = newA(j)
      BY <1>7, <2>4
    <3>3. keys[i] = keys[j]
      BY <1>10, <1>12, <3>1, <3>2
    <3>4. QED
      BY <1>3, <3>1, <3>2, <3>3
  <2>5. QED
    BY <2>1, <2>2, <2>3, <2>4
<1>13. NoDuplicateOpenAlert'
  BY <1>12 DEF NoDuplicateOpenAlert, Key
<1>14. ASSUME NEW k \in ToSet(ctx[c].found)
       PROVE  \E a \in DOMAIN alerts' :
                /\ <<alerts'[a].type, alerts'[a].entity>> = k
                /\ alerts'[a].status = "open"
  <2>1. CASE k \in OpenKeys
    <3>1. PICK a \in DOMAIN alerts : k = Key(a) /\ alerts[a].status = "open"
      BY <2>1 DEF OpenKeys
    <3>2. QED
      BY <1>4, <1>8, <3>1 DEF Key
  <2>2. CASE k \notin OpenKeys
    <3>1. PICK i \in DOMAIN keys : keys[i] = k
      BY <1>3, <2>2
    <3>2. QED
      BY <1>8, <1>10, <3>1
  <2>3. QED
    BY <2>1, <2>2
<1>15. QED
  BY <1>13, <1>14

LEMMA InsertAlertsSerial ==
  ASSUME SerialInv, NEW c \in Clients, InsertAlerts(c), DeskInv'
  PROVE  SerialInv'
<1>1. /\ OnlyMoves(c) /\ view'[c] = view[c]
      /\ pc[c] # "idle" /\ pc'[c] = "idle"
      /\ UNCHANGED pos
  BY OneMoves, Finishing DEF SerialInv, DeskInv, Step, InsertAlerts, Finish, Goto
<1>2. QED
  BY <1>1, RaisedOnce, AlertsWritten

LEMMA SerialInit == Init => SerialInv
<1> SUFFICES ASSUME Init PROVE SerialInv
  OBVIOUS
<1>1. DeskInv
  BY DeskInit
<1>2. Alone
  BY DEF Init, Alone
<1>3. TotalsConsistent
  BY DeskAssumption DEF Init, TotalsConsistent
<1>4. NoDuplicateOpenAlert
  <2>1. DOMAIN alerts = {}
    BY EmptySeq DEF Init
  <2>2. QED
    BY <2>1 DEF NoDuplicateOpenAlert
<1>5. \A c \in Clients : ViewOK(c) /\ FreshOK(c)
  <2>1. Absent \notin Fetched
    BY DeskAssumption
  <2>2. \A c \in Clients : view[c] = Absent /\ pc[c] = "idle"
    BY DEF Init
  <2>3. QED
    BY <2>1, <2>2 DEF ViewOK, FreshOK
<1>6. QED
  BY <1>1, <1>2, <1>3, <1>4, <1>5 DEF SerialInv

LEMMA SerialUnchanged ==
  ASSUME SerialInv, UNCHANGED vars
  PROVE  SerialInv'
<1>1. DeskInv'
  BY DeskUnchanged DEF SerialInv
<1>2. Alone' /\ TotalsConsistent' /\ NoDuplicateOpenAlert'
  BY DEF SerialInv, vars, tables, Alone, TotalsConsistent, NoDuplicateOpenAlert,
         Key
<1>3. OpenKeys' = OpenKeys
  BY DEF vars, tables, OpenKeys, Key
<1>4. \A c \in Clients : ViewOK(c)' /\ FreshOK(c)'
  BY <1>3 DEF SerialInv, vars, tables, ViewOK, FreshOK
<1>5. QED
  BY <1>1, <1>2, <1>4 DEF SerialInv

LEMMA SerialStep == SerialInv /\ [SerialNext]_vars => SerialInv'
<1> SUFFICES ASSUME SerialInv, [SerialNext]_vars PROVE SerialInv'
  OBVIOUS
<1>1. DeskInv'
  BY DeskStep DEF SerialInv, SerialNext, Next
<1>2. CASE UNCHANGED vars
  BY <1>2, SerialUnchanged
<1>3. CASE Tick
  BY <1>1, <1>3, TickSerial
<1>4. ASSUME NEW c \in Clients, Fetch(c) PROVE SerialInv'
  BY <1>1, <1>4, FetchSerial DEF Fetch
<1>5. ASSUME NEW c \in Clients, Idle, Request(c) PROVE SerialInv'
  BY <1>1, <1>5, RequestSerial
<1>6. ASSUME NEW c \in Clients, Step(c) PROVE SerialInv'
  BY <1>1, <1>6, WritePatchSerial, WriteResolutionSerial, ReadSerial,
     InsertAlertsSerial DEF Step
<1>7. QED
  BY <1>2, <1>3, <1>4, <1>5, <1>6 DEF SerialNext

(* When requests do not overlap, the invariant of single requests holds too. *)
THEOREM SerialInvariant == SerialSpec => []SerialInv
<1>1. QED
  BY SerialInit, SerialStep, PTL DEF SerialSpec

(* When requests do not overlap, the total the budget rule compares is       *)
(* always that of the row's quantity and price.                             *)
THEOREM TotalsStayConsistent == SerialSpec => []TotalsConsistent
<1>1. SerialInv => TotalsConsistent
  BY DEF SerialInv
<1>2. QED
  BY <1>1, SerialInvariant, PTL

(* When requests do not overlap, scans never leave an entity with two open   *)
(* alerts of one type.                                                      *)
THEOREM NoSecondOpenAlert == SerialSpec => []NoDuplicateOpenAlert
<1>1. SerialInv => NoDuplicateOpenAlert
  BY DEF SerialInv
<1>2. QED
  BY <1>1, SerialInvariant, PTL

(* When requests do not overlap, an accepted version means that the client   *)
(* has seen the terms in force: no write since changed them unnoticed.       *)
THEOREM UpdatesAreInformed == SerialSpec => UpdatesSeeCurrentTerms
<1> DEFINE Informed ==
      \A c \in Clients : Commits(c, "patch") =>
        LET p == view[c].order
        IN  /\ Terms(view[c].row) = Terms(pos[p])
            /\ view[c].row.due = pos[p].due
<1>1. SerialInv => Informed
  BY DEF SerialInv, DeskInv, RequestOK, ViewOK, FreshOK, Commits
<1>2. SerialInv /\ [SerialNext]_vars => [Informed]_vars
  BY <1>1
<1> HIDE DEF Informed
<1>3. SerialSpec => [][Informed]_vars
  BY <1>2, SerialInvariant, PTL DEF SerialSpec
<1>4. QED
  BY <1>3 DEF UpdatesSeeCurrentTerms, Informed

(* The step that ends a scan is its insertion. *)
LEMMA ScanEnds ==
  ASSUME SerialInv, [SerialNext]_vars, NEW c \in Clients, Commits(c, "scan_insert")
  PROVE  InsertAlerts(c)
<1>1. pc[c] = "scan_insert" /\ pc'[c] = "idle" /\ pc \in [Clients -> Labels]
  BY DEF Commits, SerialInv, DeskInv, ControlOK
<1>2. PICK d \in Clients : (Idle /\ Request(d)) \/ Step(d)
  BY <1>1 DEF SerialNext, vars, Tick, Fetch, GetPurchaseOrder
<1>3. ~Idle
  BY <1>1 DEF Idle
<1>4. Step(d)
  BY <1>2, <1>3
<1>5. d = c
  BY <1>1, <1>4 DEF Step, WritePatch, WriteResolution, ScanBudget, ScanOpen,
                    InsertAlerts, Finish, Goto
<1>6. QED
  BY <1>1, <1>4, <1>5 DEF Step, WritePatch, WriteResolution, ScanBudget, ScanOpen,
                          Finish, Goto

(* When requests do not overlap, every finding of a scan has an open alert   *)
(* after it, whatever was decided about the entity before.                  *)
THEOREM FindingsAreRaised == SerialSpec => ScanRaisesFindings
<1> DEFINE Raised ==
      \A c \in Clients : Commits(c, "scan_insert") =>
        \A k \in ToSet(ctx[c].found) :
          \E a \in DOMAIN alerts' : /\ <<alerts'[a].type, alerts'[a].entity>> = k
                                    /\ alerts'[a].status = "open"
<1>1. SerialInv /\ [SerialNext]_vars => Raised
  BY ScanEnds, RaisedOnce
<1>2. SerialInv /\ [SerialNext]_vars => [Raised]_vars
  BY <1>1
<1> HIDE DEF Raised
<1>3. SerialSpec => [][Raised]_vars
  BY <1>2, SerialInvariant, PTL DEF SerialSpec
<1>4. QED
  BY <1>3 DEF ScanRaisesFindings, Raised

-----------------------------------------------------------------------------
(* The update rows of the audit log *)

(* Steps that log no update and leave the terms of every purchase order alone. *)
LEMMA TrailKept ==
  ASSUME TrailReplays, \A n \in DOMAIN audit : n \in DOMAIN audit' /\ audit'[n] = audit[n],
         \A n \in DOMAIN audit' : n \in DOMAIN audit
                               \/ audit'[n].event # "purchase_order_updated",
         \A p \in PurchaseOrders : Terms(pos'[p]) = Terms(pos[p])
  PROVE  TrailReplays'
<1>1. \A p : UpdateRows(p)' = UpdateRows(p)
  BY DEF UpdateRows
<1>2. \A p : \A n \in UpdateRows(p) : audit'[n] = audit[n]
  BY DEF UpdateRows
<1>3. QED
  BY <1>1, <1>2 DEF TrailReplays

LEMMA WritePatchReplays ==
  ASSUME SerialInv, TrailReplays, NEW c \in Clients, WritePatch(c),
         NEW p, p = view[c].order
  PROVE  TrailReplays'
<1> DEFINE old == pos[p]
           new == Patched(old, ctx[c].patch)
           r == AuditRow("purchase_order_updated", p, 0, Shown(old), Shown(new))
           k == Len(audit) + 1
<1>1. /\ p \in PurchaseOrders /\ ctx[c].patch \in PurchaseOrderPatch
      /\ pos' = [pos EXCEPT ![p] = new]
  BY PatchedRow
<1>2. old \in Row /\ pos \in [PurchaseOrders -> Row]
  BY <1>1 DEF SerialInv, DeskInv, TablesOK
<1>3. new \in Row /\ new.version = old.version + 1
  BY <1>1, <1>2, PatchedTyped
<1>4. audit' = Append(audit, r)
  <2>1. ctx[c].seen = old
    BY DEF SerialInv, FreshOK, WritePatch, Finish, Goto
  <2>2. QED
    BY <2>1 DEF WritePatch
<1>5. /\ r.event = "purchase_order_updated" /\ r.entity = p
      /\ r.before = Shown(old) /\ r.after = Shown(new)
  BY DEF AuditRow
<1>6. \A row \in Row : /\ Shown(row).version = row.version
                       /\ Terms(Shown(row)) = Terms(row)
  BY DEF Shown, Terms, Columns
<1>7. r \in LogRow
  <2>1. Shown(old) \in LogValue /\ Shown(new) \in LogValue /\ p \in Entities
    BY <1>1, <1>2, <1>3, DeskAssumption DEF LogValue
  <2>2. QED
    BY <2>1, LogRowTyped DEF LogEvent
<1> HIDE DEF new, r
<1>8. /\ Len(audit) \in Nat /\ k = Len(audit) + 1
      /\ DOMAIN audit = 1..Len(audit) /\ DOMAIN audit' = 1..k
      /\ \A n \in DOMAIN audit : audit'[n] = audit[n]
      /\ audit'[k] = r
  BY <1>4, <1>7, AddRow DEF SerialInv, DeskInv, TablesOK
<1> HIDE DEF k
<1>9. \A n \in DOMAIN audit : n \in Nat /\ n < k /\ n \in DOMAIN audit'
  BY <1>8
<1>10. /\ UpdateRows(p)' = UpdateRows(p) \cup {k}
       /\ \A q \in PurchaseOrders \ {p} : UpdateRows(q)' = UpdateRows(q)
       /\ \A q : UpdateRows(q) \subseteq DOMAIN audit
  <2>1. \A n : n \in DOMAIN audit' <=> n \in DOMAIN audit \/ n = k
    BY <1>8
  <2>2. \A q, n : n \in UpdateRows(q)' <=>
                 \/ n \in UpdateRows(q)
                 \/ n = k /\ r.event = "purchase_order_updated" /\ r.entity = q
    <3>1. TAKE q, n
    <3>2. CASE n \in DOMAIN audit
      <4>1. n # k /\ n \in DOMAIN audit' /\ audit'[n] = audit[n]
        BY <1>8, <1>9, <3>2
      <4>2. QED
        BY <3>2, <4>1 DEF UpdateRows
    <3>3. CASE n = k
      <4>1. n \notin DOMAIN audit /\ n \in DOMAIN audit' /\ audit'[n] = r
        BY <1>8, <1>9, <3>3
      <4>2. QED
        BY <3>3, <4>1 DEF UpdateRows
    <3>4. CASE n \notin DOMAIN audit'
      <4>1. n \notin DOMAIN audit /\ n # k
        BY <2>1, <3>4
      <4>2. QED
        BY <3>4, <4>1 DEF UpdateRows
    <3>5. QED
      BY <2>1, <3>2, <3>3, <3>4
  <2>3. UpdateRows(p)' = UpdateRows(p) \cup {k}
    BY <1>5, <2>2
  <2>4. ASSUME NEW q \in PurchaseOrders \ {p} PROVE UpdateRows(q)' = UpdateRows(q)
    BY <1>5, <2>2
  <2>5. \A q : UpdateRows(q) \subseteq DOMAIN audit
    BY DEF UpdateRows
  <2>6. QED
    BY <2>3, <2>4, <2>5
<1>11. pos'[p] = new /\ \A q \in PurchaseOrders \ {p} : pos'[q] = pos[q]
  BY <1>1, <1>2
<1> DEFINE Later(q, n) == {m \in UpdateRows(q) : m > n}
           LaterNow(q, n) == {m \in UpdateRows(q)' : m > n}
           Replays(q, n) ==
             /\ audit'[n].after.version = audit'[n].before.version + 1
             /\ \A m \in LaterNow(q, n) :
                  (\A i \in LaterNow(q, n) : m <= i) =>
                    Terms(audit'[m].before) = Terms(audit'[n].after)
             /\ LaterNow(q, n) = {} => Terms(pos'[q]) = Terms(audit'[n].after)
<1>12. ASSUME NEW q \in PurchaseOrders, NEW n \in UpdateRows(q)
       PROVE  /\ audit[n].after.version = audit[n].before.version + 1
              /\ \A m \in Later(q, n) :
                   (\A i \in Later(q, n) : m <= i) =>
                     Terms(audit[m].before) = Terms(audit[n].after)
              /\ Later(q, n) = {} => Terms(pos[q]) = Terms(audit[n].after)
  BY DEF TrailReplays
<1>13. ASSUME NEW q \in PurchaseOrders \ {p}, NEW n \in UpdateRows(q)'
       PROVE  Replays(q, n)
  <2>1. n \in UpdateRows(q) /\ LaterNow(q, n) = Later(q, n) /\ pos'[q] = pos[q]
    BY <1>10, <1>11
  <2>2. audit'[n] = audit[n] /\ \A m \in Later(q, n) : audit'[m] = audit[m]
    BY <1>8, <1>10, <2>1
  <2> HIDE DEF Later, LaterNow
  <2>3. QED
    BY <1>12, <2>1, <2>2
<1>14. ASSUME NEW n \in UpdateRows(p)
       PROVE  Replays(p, n)
  <2>1. LaterNow(p, n) = Later(p, n) \cup {k} /\ audit'[n] = audit[n]
        /\ n \in Nat
    BY <1>8, <1>9, <1>10
  <2>2. /\ \A m \in Later(p, n) : m \in Nat /\ m < k /\ audit'[m] = audit[m]
        /\ k \in Nat
    BY <1>8, <1>9, <1>10
  <2>3. ASSUME NEW m \in LaterNow(p, n), \A i \in LaterNow(p, n) : m <= i
        PROVE  Terms(audit'[m].before) = Terms(audit'[n].after)
    <3>1. CASE Later(p, n) = {}
      <4>1. m = k
        BY <2>1, <3>1
      <4>2. Terms(audit'[k].before) = Terms(pos[p])
        BY <1>2, <1>5, <1>6, <1>8
      <4>3. Terms(pos[p]) = Terms(audit[n].after)
        BY <1>1, <1>12, <3>1
      <4>4. QED
        BY <2>1, <4>1, <4>2, <4>3
    <3>2. CASE Later(p, n) # {}
      <4>1. m \in Later(p, n)
        <5>1. PICK i \in Later(p, n) : TRUE
          BY <3>2
        <5>2. m <= i /\ i < k /\ i \in Nat
          BY <2>1, <2>2, <2>3, <5>1
        <5>3. m # k
          BY <2>2, <5>2
        <5>4. QED
          BY <2>1, <5>3
      <4>2. \A i \in Later(p, n) : m <= i
        BY <2>1, <2>3
      <4>3. Terms(audit[m].before) = Terms(audit[n].after)
        BY <1>1, <1>12, <4>1, <4>2
      <4>4. QED
        BY <2>1, <2>2, <4>1, <4>3
    <3>3. QED
      BY <3>1, <3>2
  <2>4. LaterNow(p, n) # {}
    BY <2>1
  <2>5. audit'[n].after.version = audit'[n].before.version + 1
    BY <1>1, <1>12, <2>1
  <2> HIDE DEF LaterNow
  <2>6. QED
    BY <2>3, <2>4, <2>5
<1>15. Replays(p, k)
  <2>1. LaterNow(p, k) = {}
    <3>1. \A m \in UpdateRows(p) \cup {k} : ~(m > k)
      BY <1>8, <1>9, <1>10
    <3>2. QED
      BY <1>10, <3>1
  <2>2. audit'[k].after.version = audit'[k].before.version + 1
    BY <1>2, <1>3, <1>5, <1>6, <1>8
  <2>3. Terms(pos'[p]) = Terms(audit'[k].after)
    BY <1>3, <1>5, <1>6, <1>8, <1>11
  <2> HIDE DEF LaterNow
  <2>4. QED
    BY <2>1, <2>2, <2>3
<1>16. \A q \in PurchaseOrders : \A n \in UpdateRows(q)' : Replays(q, n)
  <2> HIDE DEF Replays
  <2>1. SUFFICES ASSUME NEW q \in PurchaseOrders, NEW n \in UpdateRows(q)'
                 PROVE  Replays(q, n)
    OBVIOUS
  <2>2. CASE q # p
    BY <1>13, <2>2
  <2>3. CASE q = p
    <3>1. n \in UpdateRows(p) \/ n = k
      BY <1>10, <2>3
    <3>2. QED
      BY <1>14, <1>15, <2>3, <3>1
  <2>4. QED
    BY <2>2, <2>3
<1>17. QED
  BY <1>16 DEF TrailReplays

(* An update extends the chain of its order; no other step touches a chain. *)
LEMMA ReplaysStep == SerialInv /\ TrailReplays /\ [SerialNext]_vars => TrailReplays'
<1> SUFFICES ASSUME SerialInv, TrailReplays, [SerialNext]_vars PROVE TrailReplays'
  OBVIOUS
<1>1. CASE UNCHANGED <<pos, audit>>
  BY <1>1, TrailKept
<1>2. ASSUME NEW c \in Clients, NEW s \in {"delayed", "in_transit"}, RunScenario(c, s)
      PROVE  TrailReplays'
  <2>1. pos \in [PurchaseOrders -> Row]
    BY DEF SerialInv, DeskInv, TablesOK
  <2>2. \A row \in Row : Terms([row EXCEPT !.status = s]) = Terms(row)
    BY DEF Terms, Row
  <2>3. \A p \in PurchaseOrders : Terms(pos'[p]) = Terms(pos[p])
    <3>1. pos' = [pos EXCEPT ![ScenarioOrder] = [pos[ScenarioOrder] EXCEPT !.status = s]]
      BY <1>2 DEF RunScenario
    <3>2. QED
      BY <2>1, <2>2, <3>1, DeskAssumption
  <2>4. audit' = audit
    BY <1>2 DEF RunScenario
  <2>5. QED
    BY <2>3, <2>4, TrailKept
<1>3. ASSUME NEW c \in Clients, InsertAlerts(c) PROVE TrailReplays'
  <2> DEFINE keys == FreshFindings(c)
             ids  == Escalated(keys)
  <2>1. /\ DOMAIN audit = 1..Len(audit)
        /\ DOMAIN audit' = 1..(Len(audit) + (Len(keys) + Len(ids)))
        /\ \A n \in DOMAIN audit : audit'[n] = audit[n]
        /\ \A i \in DOMAIN keys : audit'[Len(audit) + i].event = "alert_generated"
        /\ \A n \in DOMAIN ids :
             audit'[Len(audit) + (Len(keys) + n)].event = "escalation_created"
    BY <1>3, InsertedRows DEF SerialInv
  <2>2. Len(keys) \in Nat /\ DOMAIN keys = 1..Len(keys) /\ keys \in Seq(Finding)
    BY FreshTyped DEF SerialInv
  <2> HIDE DEF keys
  <2>3. Len(ids) \in Nat /\ DOMAIN ids = 1..Len(ids)
    BY <2>2, EscalatedTyped DEF SerialInv, DeskInv
  <2>4. Len(audit) \in Nat
    BY LenProperties DEF SerialInv, DeskInv, TablesOK
  <2> HIDE DEF ids
  <2>5. \A n \in DOMAIN audit : n \in DOMAIN audit'
    BY <2>1, <2>2, <2>3, <2>4
  <2>6. ASSUME NEW n \in DOMAIN audit', n \notin DOMAIN audit
        PROVE  audit'[n].event # "purchase_order_updated"
    <3>1. n \in (Len(audit) + 1)..(Len(audit) + (Len(keys) + Len(ids)))
      BY <2>1, <2>2, <2>3, <2>4, <2>6
    <3>2. CASE n - Len(audit) \in 1..Len(keys)
      <4>1. n = Len(audit) + (n - Len(audit))
        BY <2>4, <3>1
      <4>2. audit'[n].event = "alert_generated"
        BY <2>1, <2>2, <3>2, <4>1
      <4>3. QED
        BY <4>2
    <3>3. CASE n - Len(audit) \notin 1..Len(keys)
      <4>1. /\ n = Len(audit) + (Len(keys) + (n - Len(audit) - Len(keys)))
            /\ n - Len(audit) - Len(keys) \in 1..Len(ids)
        BY <2>2, <2>3, <2>4, <3>1, <3>3
      <4>2. audit'[n].event = "escalation_created"
        BY <2>1, <2>3, <4>1
      <4>3. QED
        BY <4>2
    <3>4. QED
      BY <3>2, <3>3
  <2>7. pos' = pos
    BY <1>3 DEF InsertAlerts
  <2>8. QED
    BY <2>1, <2>5, <2>6, <2>7, TrailKept
<1>4. ASSUME NEW c \in Clients, WriteResolution(c) PROVE TrailReplays'
  <2>1. pos' = pos
    BY <1>4, SMTT(30) DEF WriteResolution
  <2>2. PICK r : audit' = Append(audit, r) /\ r.event = "escalation_resolved"
    BY <1>4 DEF WriteResolution, AuditRow
  <2>3. /\ \A n \in DOMAIN audit : n \in DOMAIN audit' /\ audit'[n] = audit[n]
        /\ \A n \in DOMAIN audit' : n \in DOMAIN audit \/ audit'[n] = r
    BY <2>2 DEF SerialInv, DeskInv, TablesOK
  <2>4. QED
    BY <2>1, <2>2, <2>3, TrailKept
<1>5. CASE Tick
  BY <1>1, <1>5 DEF Tick, tables
<1>6. ASSUME NEW c \in Clients, Fetch(c) PROVE TrailReplays'
  BY <1>1, <1>6 DEF Fetch, GetPurchaseOrder, tables
<1>7. ASSUME NEW c \in Clients, Request(c) PROVE TrailReplays'
  BY <1>1, <1>2, <1>7 DEF Request, PatchPurchaseOrder, ScanDelayed,
                          ResolveEscalation, tables
<1>8. ASSUME NEW c \in Clients, Step(c) PROVE TrailReplays'
  BY <1>1, <1>3, <1>4, <1>8, WritePatchReplays DEF Step, ScanBudget, ScanOpen, tables
<1>9. CASE UNCHANGED vars
  BY <1>1, <1>9 DEF vars, tables
<1>10. QED
  BY <1>5, <1>6, <1>7, <1>8, <1>9 DEF SerialNext

(* When requests do not overlap, the update rows of every purchase order form *)
(* a chain from each version to the next that ends in the terms in force      *)
(* (contract_api.py:80-149).                                                  *)
THEOREM TrailIsAChain == SerialSpec => []TrailReplays
<1>1. Init => TrailReplays
  <2>1. Init => DOMAIN audit = {}
    BY EmptySeq DEF Init
  <2>2. QED
    BY <2>1 DEF TrailReplays, UpdateRows
<1>2. QED
  BY <1>1, SerialInvariant, ReplaysStep, PTL DEF SerialSpec
=============================================================================
