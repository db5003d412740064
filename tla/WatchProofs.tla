----------------------------- MODULE WatchProofs -----------------------------
(***************************************************************************)
(* What the deterministic engines make of the tables, proved for every       *)
(* history of counts, every set of orders and every quantity.  The proofs     *)
(* are about Planning's operators; of the behaviours they need only that the  *)
(* tables hold rows.                                                         *)
(***************************************************************************)
EXTENDS StockWatch, SourcingProofs

(* The tables hold rows: inductive. *)
RowsOK ==
  /\ history \in Seq(Count)
  /\ orders \subseteq OrderBook
  /\ IsFiniteSet(orders)
  /\ daily \in DailyUsages

LEMMA RowsStay == Spec => []RowsOK
<1>1. Init => RowsOK
  <2>1. IsFiniteSet({})
    BY FS_EmptySet
  <2>2. QED
    BY <2>1 DEF Init, RowsOK
<1>2. RowsOK /\ [Next]_vars => RowsOK'
  <2> SUFFICES ASSUME RowsOK, [Next]_vars PROVE RowsOK'
    OBVIOUS
  <2>1. ASSUME NEW q \in Quantities, CountStock(q) PROVE RowsOK'
    <3>1. [age |-> 0, usable |-> q] \in Count
      BY WatchAssumption DEF Count
    <3>2. QED
      BY <2>1, <3>1 DEF RowsOK, CountStock
  <2>2. ASSUME NEW gap \in Gaps, TimePasses(gap) PROVE RowsOK'
    <3>1. ASSUME NEW c \in Count PROVE [c EXCEPT !.age = @ + gap] \in Count
      BY WatchAssumption DEF Count
    <3>2. [i \in DOMAIN history |-> [history[i] EXCEPT !.age = @ + gap]] \in Seq(Count)
      BY <3>1 DEF RowsOK
    <3>3. QED
      BY <2>2, <3>2 DEF RowsOK, TimePasses
  <2>3. ASSUME NEW o \in OrderBook, EnterOrder(o) PROVE RowsOK'
    <3>1. IsFiniteSet(orders \cup {o})
      BY FS_AddElement DEF RowsOK
    <3>2. QED
      BY <2>3, <3>1 DEF RowsOK, EnterOrder
  <2>4. CASE UNCHANGED vars
    BY <2>4 DEF RowsOK, vars
  <2>5. QED
    BY <2>1, <2>2, <2>3, <2>4 DEF Next
<1>3. QED
  BY <1>1, <1>2, PTL DEF Spec

LEMMA UsableIsNat ==
  ASSUME RowsOK
  PROVE  /\ Usable \in Nat /\ daily \in Nat
         /\ history # <<>> => history[1].usable = Usable
<1>1. history # <<>> => history[1] \in Count /\ Head(history) = history[1]
  BY DEF RowsOK
<1>2. QED
  BY <1>1, WatchAssumption DEF RowsOK, Usable, Count

-----------------------------------------------------------------------------
(* The rules of the alert scan and of the dashboard. *)

LEMMA AlertIsShown ==
  ASSUME NEW u \in Nat, NEW s \in Nat, NEW d \in Nat
  PROVE  LET c    == [usable |-> u, safety |-> s, daily |-> d]
             risk == ComponentRisk(c)
         IN /\ StockAlert(c) = "high" => risk = "CRITICAL"
            /\ StockAlert(c) = "medium" => risk \in {"CRITICAL", "HIGH"}
            /\ \A due \in 0..200 : ScheduleAlert(c, due) => risk # "LOW"
<1> DEFINE c == [usable |-> u, safety |-> s, daily |-> d]
           k == IF d = 0 THEN 1 ELSE d
           Under(halves, days) == 2 * u <= halves * s \/ u < days * k
<1>1. k \in Nat /\ k > 0 /\ Covers(c) = Fraction(u, k)
  BY DEF Covers
<1>2. /\ Covers(c).num = u /\ Covers(c).den = k
      /\ c.usable = u /\ c.safety = s
  BY <1>1 DEF Fraction
<1> HIDE DEF k
<1>3. ComponentRisk(c) = CASE Under(1, 3) -> "CRITICAL"
                           [] ~Under(1, 3) /\ Under(2, 7) -> "HIGH"
                           [] ~Under(2, 7) /\ Under(3, 14) -> "MEDIUM"
                           [] OTHER -> "LOW"
  BY <1>2 DEF ComponentRisk
<1>4. /\ Under(1, 3) => ComponentRisk(c) = "CRITICAL"
      /\ Under(2, 7) => ComponentRisk(c) \in {"CRITICAL", "HIGH"}
      /\ Under(3, 14) => ComponentRisk(c) # "LOW"
  <2>1. (Under(1, 3) => Under(2, 7)) /\ (Under(2, 7) => Under(3, 14))
    BY <1>1
  <2> HIDE DEF Under, c
  <2>2. QED
    BY <1>3, <2>1
<1>5. /\ StockAlert(c) = "high" => Under(1, 3)
      /\ StockAlert(c) = "medium" => Under(2, 7)
  BY <1>2 DEF StockAlert
<1>6. ASSUME NEW due \in 0..200, ScheduleAlert(c, due) PROVE Under(3, 14)
  <2>1. due <= 140 /\ 10 * u < Greatest(due, 1) * k
    BY <1>2, <1>6 DEF ScheduleAlert
  <2>2. Greatest(due, 1) \in 1..140
    BY <2>1 DEF Greatest
  <2>3. \A g \in 1..140 : g * k <= 140 * k
    BY <1>1
  <2>4. u < 14 * k
    BY <1>1, <2>1, <2>2, <2>3
  <2>5. QED
    BY <2>4
<1> HIDE DEF Under
<1>7. QED
  BY <1>4, <1>5, <1>6

(* Whatever the stock, the safety stock and the daily usage, what an alert    *)
(* scan finds the dashboard shows as no less urgent (dashboard.py:124-141,     *)
(* alert_rules.py:52-66, 116-148).                                            *)
THEOREM AlertsAreShown == Spec => []AlertsShowOnDashboard
<1>1. RowsOK => AlertsShowOnDashboard
  BY UsableIsNat, AlertIsShown, WatchAssumption DEF AlertsShowOnDashboard
<1>2. QED
  BY <1>1, RowsStay, PTL

-----------------------------------------------------------------------------
(* Serving production from the stock. *)

Served == [left : Nat, protected : Seq(OrderBook), delayed : Seq(OrderBook)]

(* One round of the loop. *)
ServeOne(o, acc) ==
  IF acc.left >= o.needed
    THEN [acc EXCEPT !.left = @ - o.needed, !.protected = Append(@, o)]
    ELSE [acc EXCEPT !.delayed = Append(@, o)]

Needs(served) == [i \in DOMAIN served |-> served[i].needed]

LEMMA ServeOneIs ==
  ASSUME NEW o \in OrderBook, NEW acc \in Served
  PROVE  /\ ServeOne(o, acc) \in Served
         /\ acc.left >= o.needed =>
              ServeOne(o, acc) = [left |-> acc.left - o.needed,
                                  protected |-> Append(acc.protected, o),
                                  delayed |-> acc.delayed]
         /\ acc.left < o.needed =>
              ServeOne(o, acc) = [left |-> acc.left, protected |-> acc.protected,
                                  delayed |-> Append(acc.delayed, o)]
<1>1. /\ o.needed \in Nat /\ acc.left \in Nat
      /\ acc.protected \in Seq(OrderBook) /\ acc.delayed \in Seq(OrderBook)
      /\ acc = [left |-> acc.left, protected |-> acc.protected, delayed |-> acc.delayed]
  BY WatchAssumption DEF Served
<1>2. /\ Append(acc.protected, o) \in Seq(OrderBook)
      /\ Append(acc.delayed, o) \in Seq(OrderBook)
  BY <1>1
<1>3. CASE acc.left >= o.needed
  <2>1. acc.left - o.needed \in Nat /\ ~(acc.left < o.needed)
    BY <1>1, <1>3
  <2>2. QED
    BY <1>1, <1>2, <1>3, <2>1 DEF ServeOne, Served
<1>4. CASE acc.left < o.needed
  <2>1. ~(acc.left >= o.needed)
    BY <1>1, <1>4
  <2>2. QED
    BY <1>1, <1>2, <1>4, <2>1 DEF ServeOne, Served
<1>5. QED
  BY <1>1, <1>3, <1>4

LEMMA ServeSteps ==
  ASSUME NEW queue \in Seq(OrderBook), NEW stock \in Nat
  PROVE  \E f \in [0..Len(queue) -> Served] :
           /\ f[0] = [left |-> stock, protected |-> <<>>, delayed |-> <<>>]
           /\ \A k \in 1..Len(queue) : f[k] = ServeOne(queue[k], f[k - 1])
           /\ Serve(queue, stock) = f[Len(queue)]
<1> DEFINE F == [x \in (1..Len(queue)) \X Served |-> ServeOne(queue[x[1]], x[2])]
           none == [left |-> stock, protected |-> <<>>, delayed |-> <<>>]
           iter == CHOOSE g : g = [t \in SUBSET DOMAIN queue |->
                      IF t = {} THEN none
                      ELSE ServeOne(queue[Max(t)], g[t \ {Max(t)}])]
<1>1. /\ Len(queue) \in Nat /\ DOMAIN queue = 1..Len(queue) /\ none \in Served
      /\ F \in [(1..Len(queue)) \X Served -> Served]
      /\ \A k \in 1..Len(queue) : \A x \in Served :
           F[<<k, x>>] = ServeOne(queue[k], x)
  <2>1. \A k \in 1..Len(queue) : queue[k] \in OrderBook
    OBVIOUS
  <2>2. none \in Served
    BY DEF Served
  <2>3. \A k \in 1..Len(queue) : \A x \in Served : ServeOne(queue[k], x) \in Served
    BY <2>1, ServeOneIs
  <2>4. QED
    BY <2>2, <2>3
<1>2. Serve(queue, stock) = iter[DOMAIN queue]
  BY DEF Serve, ServeOne, FoldLeft, MapThenFoldSet
<1> HIDE DEF F, none
<1>3. PICK g \in [SUBSET (1..Len(queue)) -> Served] :
        Folding(g, Len(queue), none, F)
  BY <1>1, Recursion
<1>4. g = [t \in SUBSET DOMAIN queue |->
             IF t = {} THEN none ELSE ServeOne(queue[Max(t)], g[t \ {Max(t)}])]
  <2>1. ASSUME NEW t \in SUBSET (1..Len(queue)), t # {}
        PROVE  F[<<Max(t), g[t \ {Max(t)}]>>] = ServeOne(queue[Max(t)], g[t \ {Max(t)}])
    <3>1. Max(t) \in 1..Len(queue)
      BY <1>1, <2>1, MaxIsIn
    <3>2. g[t \ {Max(t)}] \in Served
      BY <1>3
    <3>3. QED
      BY <1>1, <3>1, <3>2
  <2>2. QED
    BY <1>1, <1>3, <2>1 DEF Folding
<1>5. iter = [t \in SUBSET DOMAIN queue |->
                 IF t = {} THEN none
                 ELSE ServeOne(queue[Max(t)], iter[t \ {Max(t)}])]
  BY <1>4
<1> HIDE DEF iter
<1>6. PICK f \in [0..Len(queue) -> Served] : Steps(f, iter, Len(queue), none, F)
  <2>1. iter[{}] = none
    BY <1>5
  <2>2. ASSUME NEW t \in (SUBSET (1..Len(queue))) \ {{}}, iter[t \ {Max(t)}] \in Served
        PROVE  iter[t] = F[<<Max(t), iter[t \ {Max(t)}]>>]
    <3>1. Max(t) \in 1..Len(queue)
      BY <1>1, <2>2, MaxIsIn
    <3>2. QED
      BY <1>1, <1>5, <2>2, <3>1
  <2>3. Unfolds(iter, Len(queue), Served, none, F)
    BY <2>1, <2>2 DEF Unfolds
  <2>4. QED
    BY <1>1, <2>3, PrefixSteps
<1>7. ASSUME NEW k \in 1..Len(queue) PROVE f[k] = ServeOne(queue[k], f[k - 1])
  <2>1. k - 1 \in 0..Len(queue)
    BY <1>1
  <2>2. f[k - 1] \in Served
    BY <1>6, <2>1
  <2>3. QED
    BY <1>1, <1>6, <2>2 DEF Steps
<1>8. f[0] = none /\ Serve(queue, stock) = f[Len(queue)]
  BY <1>1, <1>2, <1>6 DEF Steps
<1>9. QED
  BY <1>7, <1>8 DEF none

LEMMA ToSetOfAppend ==
  ASSUME NEW S, NEW s \in Seq(S), NEW x \in S
  PROVE  ToSet(Append(s, x)) = ToSet(s) \cup {x}
<1> DEFINE t == Append(s, x)
<1>1. /\ DOMAIN t = DOMAIN s \cup {Len(s) + 1} /\ t[Len(s) + 1] = x
      /\ \A k \in DOMAIN s : t[k] = s[k]
  OBVIOUS
<1> HIDE DEF t
<1>2. QED
  BY <1>1 DEF ToSet, t

LEMMA NeedsOfAppend ==
  ASSUME NEW s \in Seq(OrderBook), NEW o \in OrderBook
  PROVE  /\ Needs(s) \in Seq(Nat)
         /\ Total(Needs(Append(s, o))) = Total(Needs(s)) + o.needed
<1>1. \A i \in DOMAIN s : s[i].needed \in Nat
  BY WatchAssumption
<1>2. Needs(s) \in Seq(Nat) /\ Len(Needs(s)) = Len(s)
  BY <1>1 DEF Needs
<1>3. Needs(Append(s, o)) = Append(Needs(s), o.needed)
  BY <1>1, <1>2 DEF Needs
<1>4. QED
  BY <1>2, <1>3, TotalOfAppend, WatchAssumption

(* What has become of the first orders of a queue. *)
ServeOK(first, stock, acc) ==
  LET protected == ToSet(acc.protected)
      delayed   == ToSet(acc.delayed)
  IN  /\ protected \cup delayed = first
      /\ protected \cap delayed = {}
      /\ acc.left + Total(Needs(acc.protected)) = stock
      /\ \A o \in delayed : o.needed > acc.left

LEMMA ServeOneKeeps ==
  ASSUME NEW first, NEW stock \in Nat, NEW o \in OrderBook, NEW acc \in Served,
         o \notin first, ServeOK(first, stock, acc)
  PROVE  ServeOK(first \cup {o}, stock, ServeOne(o, acc))
<1> DEFINE p == acc.protected
           d == acc.delayed
<1>1. /\ acc.left \in Nat /\ p \in Seq(OrderBook) /\ d \in Seq(OrderBook)
      /\ o.needed \in Nat /\ Total(Needs(p)) \in Nat
      /\ \A x \in ToSet(d) : x.needed \in Nat
  <2>1. p \in Seq(OrderBook) /\ d \in Seq(OrderBook)
    BY DEF Served
  <2>2. ToSet(d) \subseteq OrderBook
    BY <2>1 DEF ToSet
  <2>3. Total(Needs(p)) \in Nat
    BY <2>1, NeedsOfAppend, TotalIsNat
  <2>4. QED
    BY <2>1, <2>2, <2>3, WatchAssumption DEF Served
<1>2. /\ ToSet(Append(p, o)) = ToSet(p) \cup {o}
      /\ ToSet(Append(d, o)) = ToSet(d) \cup {o}
      /\ Total(Needs(Append(p, o))) = Total(Needs(p)) + o.needed
  BY <1>1, ToSetOfAppend, NeedsOfAppend
<1>3. /\ ToSet(p) \cup ToSet(d) = first /\ ToSet(p) \cap ToSet(d) = {}
      /\ acc.left + Total(Needs(p)) = stock
      /\ \A x \in ToSet(d) : x.needed > acc.left
  BY DEF ServeOK
<1> HIDE DEF p, d
<1>4. CASE acc.left >= o.needed
  <2>1. ServeOne(o, acc) = [left |-> acc.left - o.needed,
                            protected |-> Append(p, o), delayed |-> d]
    BY <1>4, ServeOneIs DEF p, d
  <2>2. (acc.left - o.needed) + (Total(Needs(p)) + o.needed) = stock
    BY <1>1, <1>3
  <2>3. \A x \in ToSet(d) : x.needed > acc.left - o.needed
    BY <1>1, <1>3
  <2>4. /\ (ToSet(p) \cup {o}) \cup ToSet(d) = first \cup {o}
        /\ (ToSet(p) \cup {o}) \cap ToSet(d) = {}
    BY <1>3
  <2>5. QED
    BY <1>2, <2>1, <2>2, <2>3, <2>4 DEF ServeOK
<1>5. CASE acc.left < o.needed
  <2>1. ServeOne(o, acc) = [left |-> acc.left, protected |-> p,
                            delayed |-> Append(d, o)]
    BY <1>5, ServeOneIs DEF p, d
  <2>2. \A x \in ToSet(d) \cup {o} : x.needed > acc.left
    BY <1>1, <1>3, <1>5
  <2>3. /\ ToSet(p) \cup (ToSet(d) \cup {o}) = first \cup {o}
        /\ ToSet(p) \cap (ToSet(d) \cup {o}) = {}
    BY <1>3
  <2>4. QED
    BY <1>2, <1>3, <2>1, <2>2, <2>3 DEF ServeOK
<1>6. QED
  BY <1>1, <1>4, <1>5

LEMMA ServeAll ==
  ASSUME NEW queue \in Seq(OrderBook), NEW stock \in Nat,
         \A i, j \in DOMAIN queue : i # j => queue[i] # queue[j]
  PROVE  ServeOK(ToSet(queue), stock, Serve(queue, stock))
<1> DEFINE n == Len(queue)
           First(k) == {queue[i] : i \in 1..k}
<1>1. n \in Nat /\ DOMAIN queue = 1..n /\ \A k \in 1..n : queue[k] \in OrderBook
  OBVIOUS
<1>2. PICK f \in [0..n -> Served] :
        /\ f[0] = [left |-> stock, protected |-> <<>>, delayed |-> <<>>]
        /\ \A k \in 1..n : f[k] = ServeOne(queue[k], f[k - 1])
        /\ Serve(queue, stock) = f[n]
  BY ServeSteps
<1> HIDE DEF n
<1> DEFINE S == {k \in 0..n : ServeOK(First(k), stock, f[k])}
<1>3. 0 \in S
  <2>1. First(0) = {} /\ ToSet(<<>>) = {} /\ Needs(<<>>) = <<>>
    BY DEF ToSet, Needs
  <2>2. ServeOK(First(0), stock, f[0])
    <3> HIDE DEF First
    <3>1. QED
      BY <1>2, <2>1, TotalOfNothing DEF ServeOK
  <2>3. QED
    BY <1>1, <2>2
<1>4. ASSUME NEW k \in 1..n, k - 1 \in S PROVE k \in S
  <2>1. k - 1 \in 0..n /\ k \in 0..n /\ f[k - 1] \in Served
    BY <1>1, <1>2
  <2>2. First(k) = First(k - 1) \cup {queue[k]} /\ queue[k] \notin First(k - 1)
    <3>1. 1..k = (1..(k - 1)) \cup {k} /\ k \notin 1..(k - 1) /\ 1..k \subseteq 1..n
      BY <1>1
    <3>2. QED
      BY <1>1, <3>1
  <2>3. ServeOK(First(k - 1), stock, f[k - 1])
    BY <1>4
  <2> HIDE DEF First
  <2>4. ServeOK(First(k - 1) \cup {queue[k]}, stock, ServeOne(queue[k], f[k - 1]))
    BY <1>1, <2>1, <2>2, <2>3, ServeOneKeeps
  <2>5. QED
    BY <1>2, <2>1, <2>2, <2>4
<1>5. n \in S
  <2> HIDE DEF S
  <2>1. \A k \in 0..n : k \in S
    BY <1>1, <1>3, <1>4, Induction
  <2>2. QED
    BY <1>1, <2>1
<1>6. First(n) = ToSet(queue)
  BY <1>1 DEF ToSet
<1> HIDE DEF First
<1>7. QED
  BY <1>2, <1>5, <1>6

(* A queue holds every order, and none twice. *)
LEMMA QueueHoldsAll ==
  ASSUME NEW S, S \subseteq OrderBook, IsFiniteSet(S), NEW queue \in Queues(S)
  PROVE  /\ queue \in Seq(OrderBook)
         /\ \A i, j \in DOMAIN queue : i # j => queue[i] # queue[j]
         /\ ToSet(queue) = S
<1> DEFINE n == Cardinality(S)
           D == 1..n
<1>1. n \in Nat /\ IsFiniteSet(D) /\ Cardinality(D) = n
  BY FS_CardinalityType, FS_Interval
<1>2. queue \in [D -> S] /\ \A i, j \in D : i # j => queue[i] # queue[j]
  BY DEF Queues, SetToSeqs
<1> HIDE DEF n
<1>3. queue \in Injection(D, S)
  BY <1>2 DEF Injection, IsInjective
<1> HIDE DEF D
<1>4. queue \in Surjection(D, S)
  BY <1>1, <1>3, FS_Injection DEF n
<1>5. ToSet(queue) = S
  BY <1>2, <1>4 DEF Surjection, ToSet
<1>6. queue \in Seq(OrderBook)
  BY <1>1, <1>2 DEF D
<1>7. QED
  BY <1>2, <1>5, <1>6

(* For every stock and every order in which rows that tie may come, what is   *)
(* protected takes no more than the stock, each order is protected or delayed *)
(* and none is delayed that the rest would cover (production_tools.py:74-96).  *)
THEOREM StockServes == Spec => []ServedFromStock
<1>1. RowsOK => ServedFromStock
  <2> SUFFICES ASSUME RowsOK, NEW queue \in Queues(orders)
               PROVE  ServeOK(orders, Usable, Serve(queue, Usable))
    BY DEF ServedFromStock, ServeOK, Needs
  <2>1. /\ queue \in Seq(OrderBook) /\ ToSet(queue) = orders
        /\ \A i, j \in DOMAIN queue : i # j => queue[i] # queue[j]
    BY QueueHoldsAll DEF RowsOK
  <2>2. QED
    BY <2>1, UsableIsNat, ServeAll
<1>2. QED
  BY <1>1, RowsStay, PTL

-----------------------------------------------------------------------------
(* The history within a number of days. *)

LEMMA WindowIsSeq ==
  ASSUME NEW h \in Seq(Count), NEW days \in Nat
  PROVE  Window(h, days) \in Seq(Count)
<1> DEFINE A == Seq(Count)
           n == Len(h)
           body(k, kept) == IF h[k].age <= days * TicksPerDay
                            THEN Append(kept, h[k]) ELSE kept
           F == [x \in (1..n) \X A |-> body(x[1], x[2])]
           iter == CHOOSE g : g = [t \in SUBSET DOMAIN h |->
                     IF t = {} THEN <<>> ELSE body(Max(t), g[t \ {Max(t)}])]
<1>1. /\ n \in Nat /\ DOMAIN h = 1..n /\ <<>> \in A
      /\ F \in [(1..n) \X A -> A]
      /\ \A k \in 1..n : \A q \in A : F[<<k, q>>] = body(k, q)
  OBVIOUS
<1>2. Window(h, days) = iter[DOMAIN h]
  BY DEF Window, FoldLeft, MapThenFoldSet
<1> HIDE DEF F, body, A, n
<1>3. PICK g \in [SUBSET (1..n) -> A] : Folding(g, n, <<>>, F)
  BY <1>1, Recursion
<1>4. g = [t \in SUBSET DOMAIN h |->
             IF t = {} THEN <<>> ELSE body(Max(t), g[t \ {Max(t)}])]
  <2>1. ASSUME NEW t \in SUBSET (1..n), t # {}
        PROVE  F[<<Max(t), g[t \ {Max(t)}]>>] = body(Max(t), g[t \ {Max(t)}])
    <3>1. Max(t) \in 1..n
      BY <1>1, <2>1, MaxIsIn
    <3>2. g[t \ {Max(t)}] \in A
      BY <1>3
    <3>3. QED
      BY <1>1, <3>1, <3>2
  <2>2. QED
    BY <1>1, <1>3, <2>1 DEF Folding
<1>5. iter = [t \in SUBSET DOMAIN h |->
                IF t = {} THEN <<>> ELSE body(Max(t), iter[t \ {Max(t)}])]
  BY <1>4
<1> HIDE DEF iter
<1>6. PICK f \in [0..n -> A] : Steps(f, iter, n, <<>>, F)
  <2>1. iter[{}] = <<>>
    BY <1>5
  <2>2. ASSUME NEW t \in (SUBSET (1..n)) \ {{}}, iter[t \ {Max(t)}] \in A
        PROVE  iter[t] = F[<<Max(t), iter[t \ {Max(t)}]>>]
    <3>1. Max(t) \in 1..n
      BY <1>1, <2>2, MaxIsIn
    <3>2. QED
      BY <1>1, <1>5, <2>2, <3>1
  <2>3. Unfolds(iter, n, A, <<>>, F)
    BY <2>1, <2>2 DEF Unfolds
  <2>4. QED
    BY <1>1, <2>3, PrefixSteps
<1>7. Window(h, days) = f[n] /\ f[n] \in A
  BY <1>1, <1>2, <1>6 DEF Steps
<1>8. QED
  BY <1>7 DEF A

-----------------------------------------------------------------------------
(* The daily rates and their mean. *)

Positive == [num : Nat \ {0}, den : Nat \ {0}]

(* The counts at i and i + 1 tell something of consumption. *)
Tells(h, i) == DaysBetween(h, i) > 0 /\ h[i + 1].usable > h[i].usable

(* How many pairs of neighbours a history has. *)
Pairs(h) == IF h = <<>> THEN 0 ELSE Len(h) - 1

LEMMA PairsAre ==
  ASSUME NEW h \in Seq(Count)
  PROVE  /\ Pairs(h) \in Nat /\ 1..Pairs(h) = 1..Len(h) - 1
         /\ \A i \in 1..Pairs(h) :
              /\ i \in 1..Len(h) /\ i + 1 \in 1..Len(h)
              /\ h[i] \in Count /\ h[i + 1] \in Count
              /\ DaysBetween(h, i) \in Int
              /\ Tells(h, i) => Rate(h, i) \in Positive
<1>1. CASE h = <<>>
  BY <1>1 DEF Pairs
<1>2. CASE h # <<>>
  <2>1. Pairs(h) = Len(h) - 1 /\ Len(h) \in Nat /\ Len(h) # 0
    BY <1>2 DEF Pairs
  <2>2. ASSUME NEW i \in 1..Pairs(h)
        PROVE  /\ i \in 1..Len(h) /\ i + 1 \in 1..Len(h)
               /\ h[i] \in Count /\ h[i + 1] \in Count
    BY <2>1
  <2>3. ASSUME NEW i \in 1..Pairs(h)
        PROVE  /\ DaysBetween(h, i) \in Int
               /\ Tells(h, i) => Rate(h, i) \in Positive
    <3>1. /\ h[i].age \in Nat /\ h[i + 1].age \in Nat
          /\ h[i].usable \in Nat /\ h[i + 1].usable \in Nat
      BY <2>2 DEF Count
    <3>2. DaysBetween(h, i) \in Int
      BY <3>1 DEF DaysBetween, TicksPerDay
    <3>3. ASSUME Tells(h, i) PROVE Rate(h, i) \in Positive
      <4>1. h[i + 1].usable - h[i].usable \in Nat \ {0}
        BY <3>1, <3>3 DEF Tells
      <4>2. DaysBetween(h, i) \in Nat \ {0}
        BY <3>2, <3>3 DEF Tells
      <4>3. QED
        BY <4>1, <4>2 DEF Rate, Fraction, Positive
    <3>4. QED
      BY <3>2, <3>3
  <2>4. QED
    BY <2>1, <2>2, <2>3
<1>3. QED
  BY <1>1, <1>2

LEMMA DailyDeltasSteps ==
  ASSUME NEW h \in Seq(Count)
  PROVE  \E f \in [0..Pairs(h) -> Seq(Positive)] :
           /\ f[0] = <<>>
           /\ \A k \in 1..Pairs(h) :
                f[k] = IF Tells(h, k) THEN Append(f[k - 1], Rate(h, k))
                       ELSE f[k - 1]
           /\ DailyDeltas(h) = f[Pairs(h)]
<1> DEFINE A == Seq(Positive)
           n == Pairs(h)
           s == [i \in 1..Len(h) - 1 |-> i]
           body(k, rates) == IF Tells(h, k) THEN Append(rates, Rate(h, k)) ELSE rates
           F == [x \in (1..n) \X A |-> body(x[1], x[2])]
           iter == CHOOSE g : g = [t \in SUBSET DOMAIN s |->
                     IF t = {} THEN <<>> ELSE body(s[Max(t)], g[t \ {Max(t)}])]
<1>1. n \in Nat /\ DOMAIN s = 1..n /\ <<>> \in A /\ \A k \in 1..n : s[k] = k
  BY PairsAre
<1>2. /\ F \in [(1..n) \X A -> A]
      /\ \A k \in 1..n : \A q \in A : F[<<k, q>>] = body(k, q)
  <2>1. \A k \in 1..n : Tells(h, k) => Rate(h, k) \in Positive
    BY PairsAre
  <2>2. \A k \in 1..n : \A q \in A : body(k, q) \in A
    BY <2>1
  <2> HIDE DEF body, A, n
  <2>3. QED
    BY <2>2
<1>3. DailyDeltas(h) = iter[DOMAIN s]
  BY DEF DailyDeltas, FoldLeft, MapThenFoldSet, Tells
<1> HIDE DEF F, body, A, n, s
<1>4. PICK g \in [SUBSET (1..n) -> A] : Folding(g, n, <<>>, F)
  BY <1>1, <1>2, Recursion
<1>5. g = [t \in SUBSET DOMAIN s |->
             IF t = {} THEN <<>> ELSE body(s[Max(t)], g[t \ {Max(t)}])]
  <2>1. ASSUME NEW t \in SUBSET (1..n), t # {}
        PROVE  F[<<Max(t), g[t \ {Max(t)}]>>] = body(s[Max(t)], g[t \ {Max(t)}])
    <3>1. Max(t) \in 1..n
      BY <1>1, <2>1, MaxIsIn
    <3>2. g[t \ {Max(t)}] \in A
      BY <1>4
    <3>3. QED
      BY <1>1, <1>2, <3>1, <3>2
  <2>2. QED
    BY <1>1, <1>4, <2>1 DEF Folding
<1>6. iter = [t \in SUBSET DOMAIN s |->
                IF t = {} THEN <<>> ELSE body(s[Max(t)], iter[t \ {Max(t)}])]
  BY <1>5
<1> HIDE DEF iter
<1>7. PICK f \in [0..n -> A] : Steps(f, iter, n, <<>>, F)
  <2>1. iter[{}] = <<>>
    BY <1>6
  <2>2. ASSUME NEW t \in (SUBSET (1..n)) \ {{}}, iter[t \ {Max(t)}] \in A
        PROVE  iter[t] = F[<<Max(t), iter[t \ {Max(t)}]>>]
    <3>1. Max(t) \in 1..n
      BY <1>1, <2>2, MaxIsIn
    <3>2. iter[t] = body(s[Max(t)], iter[t \ {Max(t)}])
      BY <1>1, <1>6
    <3>3. s[Max(t)] = Max(t)
      BY <1>1, <3>1
    <3>4. F[<<Max(t), iter[t \ {Max(t)}]>>] = body(Max(t), iter[t \ {Max(t)}])
      BY <1>2, <2>2, <3>1
    <3>5. QED
      BY <3>2, <3>3, <3>4
  <2>3. Unfolds(iter, n, A, <<>>, F)
    BY <2>1, <2>2 DEF Unfolds
  <2>4. QED
    BY <1>1, <1>2, <2>3, PrefixSteps
<1>8. ASSUME NEW k \in 1..n PROVE f[k] = body(k, f[k - 1])
  <2>1. k - 1 \in 0..n
    BY <1>1
  <2>2. f[k - 1] \in A
    BY <1>7, <2>1
  <2>3. QED
    BY <1>2, <1>7, <2>2 DEF Steps
<1>9. f[0] = <<>> /\ DailyDeltas(h) = f[n]
  BY <1>1, <1>3, <1>7 DEF Steps
<1>10. QED
  BY <1>8, <1>9 DEF A, body, n

LEMMA DailyDeltasArePositive ==
  ASSUME NEW h \in Seq(Count)
  PROVE  DailyDeltas(h) \in Seq(Positive)
<1>1. Pairs(h) \in 0..Pairs(h)
  BY PairsAre
<1>2. QED
  BY <1>1, DailyDeltasSteps

(* Where every pair tells something, the rates are those of all pairs. *)
LEMMA AllPairsTell ==
  ASSUME NEW h \in Seq(Count), Len(DailyDeltas(h)) = Len(h) - 1
  PROVE  \A i \in 1..Pairs(h) : Tells(h, i) /\ DailyDeltas(h)[i] = Rate(h, i)
<1> DEFINE n == Pairs(h)
<1>1. n \in Nat
  BY PairsAre
<1>2. PICK f \in [0..n -> Seq(Positive)] :
        /\ f[0] = <<>>
        /\ \A k \in 1..n : f[k] = IF Tells(h, k) THEN Append(f[k - 1], Rate(h, k))
                                 ELSE f[k - 1]
        /\ DailyDeltas(h) = f[n]
  BY DailyDeltasSteps
<1>3. \A k \in 1..n : Tells(h, k) => Rate(h, k) \in Positive
  BY PairsAre
<1> DEFINE All(k) == \A i \in 1..k : Tells(h, i) /\ f[k][i] = Rate(h, i)
           S == {k \in 0..n : /\ Len(f[k]) <= k
                              /\ Len(f[k]) = k => All(k)}
<1>4. Len(f[n]) = n
  <2>1. Len(h) - 1 = Pairs(h)
    <3>1. Len(DailyDeltas(h)) \in Nat
      BY DailyDeltasArePositive
    <3>2. QED
      BY <3>1 DEF Pairs
  <2>2. QED
    BY <1>2, <2>1
<1> HIDE DEF n
<1>5. 0 \in S
  BY <1>1, <1>2
<1>6. ASSUME NEW k \in 1..n, k - 1 \in S PROVE k \in S
  <2>1. /\ k - 1 \in 0..n /\ k \in 0..n /\ k - 1 \in Nat
        /\ f[k - 1] \in Seq(Positive) /\ Len(f[k - 1]) \in Nat
    BY <1>1, <1>2
  <2>2. Len(f[k - 1]) <= k - 1 /\ (Len(f[k - 1]) = k - 1 => All(k - 1))
    BY <1>6
  <2>3. CASE Tells(h, k)
    <3>1. f[k] = Append(f[k - 1], Rate(h, k)) /\ Rate(h, k) \in Positive
      BY <1>2, <1>3, <2>3
    <3>2. /\ Len(f[k]) = Len(f[k - 1]) + 1
          /\ \A i \in 1..Len(f[k - 1]) : f[k][i] = f[k - 1][i]
          /\ f[k][Len(f[k - 1]) + 1] = Rate(h, k)
      BY <2>1, <3>1
    <3>3. ASSUME Len(f[k]) = k PROVE All(k)
      <4>1. Len(f[k - 1]) = k - 1
        BY <2>1, <3>2, <3>3
      <4>2. All(k - 1) /\ k = (k - 1) + 1
        BY <2>2, <4>1
      <4>3. ASSUME NEW i \in 1..k PROVE Tells(h, i) /\ f[k][i] = Rate(h, i)
        <5>1. i = k \/ i \in 1..(k - 1)
          OBVIOUS
        <5>2. CASE i = k
          BY <2>3, <3>2, <4>1, <4>2, <5>2
        <5>3. CASE i \in 1..(k - 1)
          BY <3>2, <4>1, <4>2, <5>3
        <5>4. QED
          BY <5>1, <5>2, <5>3
      <4>4. QED
        BY <4>3
    <3> HIDE DEF All
    <3>4. QED
      BY <2>1, <2>2, <3>2, <3>3
  <2>4. CASE ~Tells(h, k)
    <3>1. f[k] = f[k - 1]
      BY <1>2, <2>4
    <3>2. Len(f[k]) <= k /\ Len(f[k]) # k
      BY <2>1, <2>2, <3>1
    <3>3. QED
      BY <2>1, <3>2
  <2>5. QED
    BY <2>3, <2>4
<1>7. n \in S
  <2> HIDE DEF S
  <2>1. \A k \in 0..n : k \in S
    BY <1>1, <1>5, <1>6, Induction
  <2>2. QED
    BY <1>1, <2>1
<1>8. QED
  BY <1>2, <1>4, <1>7 DEF n

(* The sums on the way to the mean of a list of rates. *)
Sum == [num : Nat, den : Nat \ {0}]

SumOf(rates) == FoldLeft(Plus, Fraction(0, 1), rates)

LEMMA TimesIsPositive ==
  ASSUME NEW x \in Nat \ {0}, NEW y \in Nat \ {0}
  PROVE  x * y \in Nat \ {0}
OBVIOUS

LEMMA PlusIsSum ==
  ASSUME NEW s \in Sum, NEW r \in Positive
  PROVE  Plus(s, r) \in Sum /\ Plus(s, r).num # 0
<1> DEFINE p == s.num
           q == s.den
           c == r.num
           d == r.den
<1>1. p \in Nat /\ q \in Nat \ {0} /\ c \in Nat \ {0} /\ d \in Nat \ {0}
  BY DEF Sum, Positive
<1>2. Plus(s, r) = Fraction(p * d + c * q, q * d)
  BY DEF Plus
<1> HIDE DEF p, q, c, d
<1>3. p * d \in Nat /\ c * q \in Nat \ {0} /\ q * d \in Nat \ {0}
  BY <1>1, TimesIsPositive
<1>4. p * d + c * q \in Nat \ {0}
  BY <1>3
<1>5. QED
  BY <1>2, <1>3, <1>4 DEF Fraction, Sum

LEMMA SumSteps ==
  ASSUME NEW rates \in Seq(Positive)
  PROVE  \E f \in [0..Len(rates) -> Sum] :
           /\ f[0] = Fraction(0, 1)
           /\ \A k \in 1..Len(rates) : f[k] = Plus(f[k - 1], rates[k])
           /\ SumOf(rates) = f[Len(rates)]
<1> DEFINE n == Len(rates)
           none == Fraction(0, 1)
           F == [x \in (1..n) \X Sum |-> Plus(x[2], rates[x[1]])]
           iter == CHOOSE g : g = [t \in SUBSET DOMAIN rates |->
                     IF t = {} THEN none ELSE Plus(g[t \ {Max(t)}], rates[Max(t)])]
<1>1. /\ n \in Nat /\ DOMAIN rates = 1..n /\ none \in Sum
      /\ F \in [(1..n) \X Sum -> Sum]
      /\ \A k \in 1..n : \A x \in Sum : F[<<k, x>>] = Plus(x, rates[k])
  <2>1. \A k \in 1..n : rates[k] \in Positive
    OBVIOUS
  <2>2. none \in Sum
    BY DEF Sum, Fraction
  <2>3. \A k \in 1..n : \A x \in Sum : Plus(x, rates[k]) \in Sum
    BY <2>1, PlusIsSum
  <2>4. QED
    BY <2>2, <2>3
<1>2. SumOf(rates) = iter[DOMAIN rates]
  BY DEF SumOf, FoldLeft, MapThenFoldSet
<1> HIDE DEF F, n, none
<1>3. PICK g \in [SUBSET (1..n) -> Sum] : Folding(g, n, none, F)
  BY <1>1, Recursion
<1>4. g = [t \in SUBSET DOMAIN rates |->
             IF t = {} THEN none ELSE Plus(g[t \ {Max(t)}], rates[Max(t)])]
  <2>1. ASSUME NEW t \in SUBSET (1..n), t # {}
        PROVE  F[<<Max(t), g[t \ {Max(t)}]>>] = Plus(g[t \ {Max(t)}], rates[Max(t)])
    <3>1. Max(t) \in 1..n
      BY <1>1, <2>1, MaxIsIn
    <3>2. g[t \ {Max(t)}] \in Sum
      BY <1>3
    <3>3. QED
      BY <1>1, <3>1, <3>2
  <2>2. QED
    BY <1>1, <1>3, <2>1 DEF Folding
<1>5. iter = [t \in SUBSET DOMAIN rates |->
                IF t = {} THEN none ELSE Plus(iter[t \ {Max(t)}], rates[Max(t)])]
  BY <1>4
<1> HIDE DEF iter
<1>6. PICK f \in [0..n -> Sum] : Steps(f, iter, n, none, F)
  <2>1. iter[{}] = none
    BY <1>5
  <2>2. ASSUME NEW t \in (SUBSET (1..n)) \ {{}}, iter[t \ {Max(t)}] \in Sum
        PROVE  iter[t] = F[<<Max(t), iter[t \ {Max(t)}]>>]
    <3>1. Max(t) \in 1..n
      BY <1>1, <2>2, MaxIsIn
    <3>2. QED
      BY <1>1, <1>5, <2>2, <3>1
  <2>3. Unfolds(iter, n, Sum, none, F)
    BY <2>1, <2>2 DEF Unfolds
  <2>4. QED
    BY <1>1, <2>3, PrefixSteps
<1>7. ASSUME NEW k \in 1..n PROVE f[k] = Plus(f[k - 1], rates[k])
  <2>1. k - 1 \in 0..n
    BY <1>1
  <2>2. f[k - 1] \in Sum
    BY <1>6, <2>1
  <2>3. QED
    BY <1>1, <1>6, <2>2 DEF Steps
<1>8. f[0] = none /\ SumOf(rates) = f[n]
  BY <1>1, <1>2, <1>6 DEF Steps
<1>9. QED
  BY <1>7, <1>8 DEF n, none

LEMMA MeanOfSum ==
  ASSUME NEW h
  PROVE  /\ MeanRate(h).num = SumOf(DailyDeltas(h)).num
         /\ MeanRate(h).den = SumOf(DailyDeltas(h)).den * Len(DailyDeltas(h))
BY DEF MeanRate, SumOf, Fraction

LEMMA SumIsPositive ==
  ASSUME NEW rates \in Seq(Positive), rates # <<>>
  PROVE  SumOf(rates) \in Positive
<1>1. PICK f \in [0..Len(rates) -> Sum] :
        /\ f[0] = Fraction(0, 1)
        /\ \A k \in 1..Len(rates) : f[k] = Plus(f[k - 1], rates[k])
        /\ SumOf(rates) = f[Len(rates)]
  BY SumSteps
<1>2. Len(rates) \in 1..Len(rates) /\ Len(rates) - 1 \in 0..Len(rates)
  OBVIOUS
<1>3. rates[Len(rates)] \in Positive /\ f[Len(rates) - 1] \in Sum
  BY <1>2
<1>4. Plus(f[Len(rates) - 1], rates[Len(rates)]) \in Positive
  BY <1>3, PlusIsSum DEF Sum, Positive
<1>5. QED
  BY <1>1, <1>2, <1>4

LEMMA MeanIsPositive ==
  ASSUME NEW h \in Seq(Count), DailyDeltas(h) # <<>>
  PROVE  MeanRate(h) \in Positive
<1>1. /\ DailyDeltas(h) \in Seq(Positive)
      /\ SumOf(DailyDeltas(h)) \in Positive
  BY DailyDeltasArePositive, SumIsPositive
<1>2. Len(DailyDeltas(h)) \in Nat \ {0}
  BY <1>1
<1>3. SumOf(DailyDeltas(h)).den * Len(DailyDeltas(h)) \in Nat \ {0}
  BY <1>1, <1>2, TimesIsPositive DEF Positive
<1>4. QED
  BY <1>1, <1>3 DEF MeanRate, SumOf, Fraction, Positive

(* No average is zero, so nothing is divided by one. *)
LEMMA AveragesArePositive ==
  ASSUME NEW h \in Seq(Count), NEW d \in Nat
  PROVE  Average30(h, d) \in Positive /\ Average7(h, d) \in Positive
<1>1. Window(h, 35) \in Seq(Count) /\ Window(h, 7) \in Seq(Count)
  BY WindowIsSeq
<1>2. Fraction(IF d = 0 THEN 25 ELSE d, 1) \in Positive
  BY DEF Fraction, Positive
<1>3. Average30(h, d) \in Positive
  BY <1>1, <1>2, MeanIsPositive DEF Average30
<1>4. QED
  BY <1>1, <1>3, MeanIsPositive DEF Average7

LEMMA StopIsNat ==
  ASSUME NEW h \in Seq(Count), NEW d \in Nat
  PROVE  CoverageTenths(h, d) \in Nat /\ HoursToStopTenths(h, d) \in Nat
<1>1. /\ Average30(h, d).num \in Nat \ {0} /\ Average30(h, d).den \in Nat
      /\ Average7(h, d).num \in Nat \ {0} /\ Average7(h, d).den \in Nat
  BY AveragesArePositive DEF Positive
<1>2. CASE h = <<>>
  BY <1>2 DEF CoverageTenths, HoursToStopTenths
<1>3. CASE h # <<>>
  <2>1. h[1] \in Count
    BY <1>3
  <2>2. h[1].usable \in Nat
    BY <2>1 DEF Count
  <2>3. \A u, v \in Nat : 10 * u * v \in Nat /\ 240 * u * v \in Nat
    OBVIOUS
  <2>4. /\ 10 * h[1].usable * Average30(h, d).den \in Nat
        /\ 240 * h[1].usable * Average7(h, d).den \in Nat
    BY <1>1, <2>2, <2>3, Zenon
  <2>5. QED
    BY <1>1, <1>3, <2>4, HalfEvenIsNat DEF CoverageTenths, HoursToStopTenths
<1>4. QED
  BY <1>2, <1>3

(* Every state of the tables is one the engines have figures for: no average  *)
(* is zero (risk_engine.py:104-229).                                          *)
THEOREM WatchTypeCorrectness == Spec => []TypeOK
<1>1. RowsOK => TypeOK
  <2> SUFFICES ASSUME RowsOK PROVE TypeOK
    OBVIOUS
  <2>1. history \in Seq(Count) /\ daily \in Nat
    BY UsableIsNat DEF RowsOK
  <2>2. /\ Average30(history, daily).num \in Nat \ {0}
        /\ Average7(history, daily).num \in Nat \ {0}
    BY <2>1, AveragesArePositive DEF Positive
  <2>3. Trend(history, daily) \in {"STABLE", "INCREASING", "DECREASING"}
    BY DEF Trend
  <2>4. QED
    BY <2>1, <2>2, <2>3, StopIsNat DEF TypeOK, RowsOK
<1>2. QED
  BY <1>1, RowsStay, PTL

-----------------------------------------------------------------------------
(* The simulation of a plan. *)

LEMMA TimesIsMonotone ==
  ASSUME NEW x \in Nat, NEW y \in Nat, NEW z \in Nat, x <= y
  PROVE  x * z <= y * z
OBVIOUS

LEMMA TotalOfTwo ==
  ASSUME NEW a \in Nat, NEW b \in Nat
  PROVE  Total(<<a, b>>) = a + b
<1>1. <<>> \in Seq(Nat) /\ Append(<<>>, a) \in Seq(Nat)
      /\ <<a, b>> = Append(Append(<<>>, a), b)
  OBVIOUS
<1>2. Total(<<a, b>>) = Total(Append(<<>>, a)) + b
  BY <1>1, TotalOfAppend
<1>3. Total(Append(<<>>, a)) = Total(<<>>) + a
  BY <1>1, TotalOfAppend
<1>4. QED
  BY <1>2, <1>3, TotalOfNothing

LEMMA MoreIsNoMoreUrgent ==
  ASSUME NEW m \in Nat, NEW n \in Nat, NEW d \in Nat, m <= n
  PROVE  Urgency[LevelAt(Fraction(n, d))] >= Urgency[LevelAt(Fraction(m, d))]
<1> DEFINE M(days) == m < days * d
           N(days) == n < days * d
           Level(b3, b7, b14, b21) ==
             CASE b3 -> "CRITICAL" [] ~b3 /\ b7 -> "HIGH"
               [] ~b7 /\ b14 -> "MEDIUM" [] ~b14 /\ b21 -> "LOW"
               [] OTHER -> "NONE"
<1>1. /\ LevelAt(Fraction(m, d)) = Level(M(3), M(7), M(14), M(21))
      /\ LevelAt(Fraction(n, d)) = Level(N(3), N(7), N(14), N(21))
  BY DEF LevelAt, Fraction
<1>2. /\ (M(3) => M(7)) /\ (M(7) => M(14)) /\ (M(14) => M(21))
      /\ (N(3) => N(7)) /\ (N(7) => N(14)) /\ (N(14) => N(21))
      /\ (N(3) => M(3)) /\ (N(7) => M(7)) /\ (N(14) => M(14)) /\ (N(21) => M(21))
  OBVIOUS
<1> HIDE DEF M, N
<1>3. ASSUME NEW b3 \in BOOLEAN, NEW b7 \in BOOLEAN, NEW b14 \in BOOLEAN,
             NEW b21 \in BOOLEAN, b3 => b7, b7 => b14, b14 => b21
      PROVE  Urgency[Level(b3, b7, b14, b21)] =
               IF b3 THEN 0 ELSE IF b7 THEN 1 ELSE IF b14 THEN 2
               ELSE IF b21 THEN 3 ELSE 4
  BY <1>3 DEF Urgency
<1> HIDE DEF Level
<1>4. /\ M(3) \in BOOLEAN /\ M(7) \in BOOLEAN /\ M(14) \in BOOLEAN /\ M(21) \in BOOLEAN
      /\ N(3) \in BOOLEAN /\ N(7) \in BOOLEAN /\ N(14) \in BOOLEAN /\ N(21) \in BOOLEAN
  BY DEF M, N
<1>5. Urgency[Level(M(3), M(7), M(14), M(21))] =
        IF M(3) THEN 0 ELSE IF M(7) THEN 1 ELSE IF M(14) THEN 2
        ELSE IF M(21) THEN 3 ELSE 4
  BY <1>2, <1>3, <1>4
<1>6. Urgency[Level(N(3), N(7), N(14), N(21))] =
        IF N(3) THEN 0 ELSE IF N(7) THEN 1 ELSE IF N(14) THEN 2
        ELSE IF N(21) THEN 3 ELSE 4
  BY <1>2, <1>3, <1>4
<1>7. QED
  BY <1>1, <1>2, <1>5, <1>6

(* Of a plan the simulation sees what it buys, its deadline and its price. *)
Figures(u, avg, late, q) ==
  LET coverage == Fraction((u + q) * avg.den, avg.num)
  IN  [after    |-> u + q,
       coverage |-> coverage,
       stops    |-> late > 0,
       impact   |-> Greatest(0, late),
       level    |-> LevelAt(coverage),
       feasible |-> u + q > 0 /\ AtMost(Fraction(1, 1), coverage) /\ q * 1 > 0]

LEMMA SimulationOf ==
  ASSUME NEW h, NEW d, NEW plan, NEW q, PlannedQuantity(plan) = q,
         plan.deadline = 2, plan.price = 1
  PROVE  SimulatePlan(h, d, plan)
           = Figures(IF h = <<>> THEN 0 ELSE h[1].usable, Average30(h, d),
                     240 * 2 - HoursToStopTenths(h, d), q)
BY Zenon DEF SimulatePlan, Figures

LEMMA FiguresOfMore ==
  ASSUME NEW u \in Nat, NEW avg \in Positive, NEW late,
         NEW q \in Nat, NEW r \in Nat, q <= r
  PROVE  LET few  == Figures(u, avg, late, q)
             more == Figures(u, avg, late, r)
         IN /\ Urgency[more.level] >= Urgency[few.level]
            /\ few.feasible => more.feasible
            /\ more.impact = few.impact
<1> DEFINE n == avg.num
           k == avg.den
           x == (u + q) * k
           y == (u + r) * k
<1>1. n \in Nat /\ k \in Nat
  BY DEF Positive
<1>2. x \in Nat /\ y \in Nat /\ x <= y
  BY <1>1, TimesIsMonotone
<1>3. /\ AtMost(Fraction(1, 1), Fraction(x, n)) <=> n <= x
      /\ AtMost(Fraction(1, 1), Fraction(y, n)) <=> n <= y
  <2> HIDE DEF x, y, n
  <2>1. \A v, w \in Nat : AtMost(Fraction(1, 1), Fraction(v, w)) <=> w <= v
    BY DEF AtMost, Fraction
  <2>2. QED
    BY <1>1, <1>2, <2>1
<1> DEFINE few  == Figures(u, avg, late, q)
           more == Figures(u, avg, late, r)
<1>4. /\ few.level = LevelAt(Fraction(x, n)) /\ more.level = LevelAt(Fraction(y, n))
      /\ few.impact = more.impact
      /\ few.feasible <=> u + q > 0 /\ AtMost(Fraction(1, 1), Fraction(x, n)) /\ q * 1 > 0
      /\ more.feasible <=> u + r > 0 /\ AtMost(Fraction(1, 1), Fraction(y, n)) /\ r * 1 > 0
  BY Zenon DEF Figures
<1> HIDE DEF x, y, n, few, more
<1>5. Urgency[more.level] >= Urgency[few.level]
  BY <1>1, <1>2, <1>4, MoreIsNoMoreUrgent
<1>6. few.feasible => more.feasible
  BY <1>1, <1>2, <1>3, <1>4
<1>7. QED
  BY <1>4, <1>5, <1>6 DEF few, more

(* For every stock and every two quantities, buying more leaves no higher     *)
(* risk, keeps a plan feasible and does not move the stop; a split counts as   *)
(* one order of the sum (simulation_engine.py:36-97).                         *)
THEOREM SimulationIsMonotone == Spec => []SimulationOrdersPlans
<1>1. RowsOK => SimulationOrdersPlans
  <2> SUFFICES ASSUME RowsOK, NEW a \in Quantities, NEW b \in Quantities
               PROVE  LET plan(q, allocations) ==
                            [quantity |-> q, allocations |-> allocations,
                             deadline |-> 2, price |-> 1]
                          simulated(p) == SimulatePlan(history, daily, p)
                          one == simulated(plan(a + b, <<>>))
                          few == simulated(plan(a, <<>>))
                      IN  /\ simulated(plan(0, <<a, b>>)) = one
                          /\ Urgency[one.level] >= Urgency[few.level]
                          /\ few.feasible => one.feasible
                          /\ one.impact = few.impact
    BY DEF SimulationOrdersPlans
  <2> DEFINE plan(q, allocations) == [quantity |-> q, allocations |-> allocations,
                                      deadline |-> 2, price |-> 1]
             u    == IF history = <<>> THEN 0 ELSE history[1].usable
             avg  == Average30(history, daily)
             late == 240 * 2 - HoursToStopTenths(history, daily)
  <2>1. /\ history \in Seq(Count) /\ daily \in Nat
        /\ a \in Nat /\ b \in Nat /\ a + b \in Nat /\ a <= a + b
    BY UsableIsNat, WatchAssumption DEF RowsOK
  <2>2. avg \in Positive
    BY <2>1, AveragesArePositive
  <2>3. u \in Nat
    BY UsableIsNat
  <2>4. /\ PlannedQuantity(plan(a + b, <<>>)) = a + b
        /\ PlannedQuantity(plan(a, <<>>)) = a
        /\ PlannedQuantity(plan(0, <<a, b>>)) = a + b
    <3>1. <<a, b>> # <<>>
      OBVIOUS
    <3>2. QED
      BY <2>1, <3>1, TotalOfTwo DEF PlannedQuantity
  <2>5. \A q, allocations : /\ plan(q, allocations).deadline = 2
                            /\ plan(q, allocations).price = 1
    OBVIOUS
  <2> HIDE DEF plan
  <2>6. /\ SimulatePlan(history, daily, plan(a + b, <<>>)) = Figures(u, avg, late, a + b)
        /\ SimulatePlan(history, daily, plan(a, <<>>)) = Figures(u, avg, late, a)
        /\ SimulatePlan(history, daily, plan(0, <<a, b>>)) = Figures(u, avg, late, a + b)
    <3>1. ASSUME NEW p, NEW q, PlannedQuantity(p) = q, p.deadline = 2, p.price = 1
          PROVE  SimulatePlan(history, daily, p) = Figures(u, avg, late, q)
      BY <3>1, SimulationOf
    <3> HIDE DEF u, avg, late
    <3>2. QED
      BY <2>4, <2>5, <3>1
  <2> HIDE DEF u, avg, late
  <2>7. LET few  == Figures(u, avg, late, a)
            more == Figures(u, avg, late, a + b)
        IN /\ Urgency[more.level] >= Urgency[few.level]
           /\ few.feasible => more.feasible
           /\ more.impact = few.impact
    BY <2>1, <2>2, <2>3, FiguresOfMore
  <2>8. QED
    BY <2>6, <2>7 DEF plan
<1>2. QED
  BY <1>1, RowsStay, PTL

-----------------------------------------------------------------------------
(* Coverage, hours to the stop and trend. *)

LEMMA Quotient ==
  ASSUME NEW n \in Nat, NEW d \in Nat \ {0}
  PROVE  /\ n \div d \in Nat /\ n % d \in 0..(d - 1)
         /\ n = (n \div d) * d + (n % d)
OBVIOUS

(* Rounding moves a quotient by at most a half. *)
LEMMA RoundsByHalf ==
  ASSUME NEW n \in Nat, NEW d \in Nat \ {0}
  PROVE  /\ 2 * n <= 2 * HalfEven(n, d) * d + d
         /\ 2 * HalfEven(n, d) * d <= 2 * n + d
<1> DEFINE q == n \div d
           r == n % d
<1>1. q \in Nat /\ r \in 0..(d - 1) /\ n = q * d + r
  BY Quotient
<1> HIDE DEF q, r
<1>2. CASE 2 * r > d \/ (2 * r = d /\ q % 2 = 1)
  <2>1. HalfEven(n, d) = q + 1 /\ 2 * r >= d
    BY <1>1, <1>2 DEF HalfEven, q, r
  <2>2. 2 * (q + 1) * d = 2 * (q * d) + 2 * d
    BY <1>1
  <2>3. QED
    BY <1>1, <2>1, <2>2
<1>3. CASE ~(2 * r > d \/ (2 * r = d /\ q % 2 = 1))
  <2>1. HalfEven(n, d) = q /\ 2 * r <= d
    BY <1>1, <1>3 DEF HalfEven, q, r
  <2>2. 2 * q * d = 2 * (q * d)
    BY <1>1
  <2>3. QED
    BY <1>1, <2>1, <2>2
<1>4. QED
  BY <1>2, <1>3

LEMMA Cancels ==
  ASSUME NEW x \in Nat, NEW y \in Nat, NEW z \in Nat \ {0}, x * z <= y * z
  PROVE  x <= y
OBVIOUS

(* h and d are 240 x / k and 10 y / k, rounded: x and y compare two averages. *)
Rounded(h, d, k, x, y) ==
  /\ h \in Nat /\ d \in Nat /\ k \in Nat \ {0} /\ x \in Nat /\ y \in Nat
  /\ 2 * (h * k) <= 480 * x + k /\ 480 * x <= 2 * (h * k) + k
  /\ 2 * (d * k) <= 20 * y + k  /\ 20 * y <= 2 * (d * k) + k

LEMMA RoundedFigures ==
  ASSUME NEW u \in Nat, NEW week \in Positive, NEW month \in Positive
  PROVE  Rounded(HalfEven(240 * u * week.den, week.num),
                 HalfEven(10 * u * month.den, month.num),
                 week.num * month.num,
                 u * week.den * month.num, u * month.den * week.num)
<1> DEFINE wn == week.num
           wd == week.den
           mn == month.num
           md == month.den
           h == HalfEven(240 * u * wd, wn)
           d == HalfEven(10 * u * md, mn)
<1>1. wn \in Nat \ {0} /\ wd \in Nat /\ mn \in Nat \ {0} /\ md \in Nat
  BY DEF Positive
<1> HIDE DEF wn, wd, mn, md
<1>2. 240 * u * wd \in Nat /\ 10 * u * md \in Nat
  BY <1>1
<1>3. /\ h \in Nat /\ d \in Nat
      /\ 2 * (240 * u * wd) <= 2 * h * wn + wn /\ 2 * h * wn <= 2 * (240 * u * wd) + wn
      /\ 2 * (10 * u * md) <= 2 * d * mn + mn  /\ 2 * d * mn <= 2 * (10 * u * md) + mn
  BY <1>1, <1>2, HalfEvenIsNat, RoundsByHalf, ZenonT(40)
<1> HIDE DEF h, d
<1>4. wn * mn \in Nat \ {0} /\ u * wd * mn \in Nat /\ u * md * wn \in Nat
  <2>1. u * wd \in Nat /\ u * md \in Nat
    BY <1>1
  <2>2. QED
    BY <1>1, <2>1, TimesIsPositive
<1>5. /\ 2 * (h * (wn * mn)) <= 480 * (u * wd * mn) + wn * mn
      /\ 480 * (u * wd * mn) <= 2 * (h * (wn * mn)) + wn * mn
  <2>1. 2 * h * wn + wn \in Nat /\ 2 * (240 * u * wd) \in Nat
        /\ 2 * h * wn \in Nat /\ 2 * (240 * u * wd) + wn \in Nat
    BY <1>1, <1>2, <1>3
  <2>2. /\ 2 * (240 * u * wd) * mn <= (2 * h * wn + wn) * mn
        /\ 2 * h * wn * mn <= (2 * (240 * u * wd) + wn) * mn
    BY <1>1, <1>3, <2>1, TimesIsMonotone
  <2>3. /\ 2 * (240 * u * wd) * mn = 480 * (u * wd * mn)
        /\ (2 * h * wn + wn) * mn = 2 * (h * (wn * mn)) + wn * mn
        /\ 2 * h * wn * mn = 2 * (h * (wn * mn))
        /\ (2 * (240 * u * wd) + wn) * mn = 480 * (u * wd * mn) + wn * mn
    BY <1>1, <1>3
  <2>4. QED
    BY <2>2, <2>3
<1>6. /\ 2 * (d * (wn * mn)) <= 20 * (u * md * wn) + wn * mn
      /\ 20 * (u * md * wn) <= 2 * (d * (wn * mn)) + wn * mn
  <2>1. 2 * d * mn + mn \in Nat /\ 2 * (10 * u * md) \in Nat
        /\ 2 * d * mn \in Nat /\ 2 * (10 * u * md) + mn \in Nat
    BY <1>1, <1>2, <1>3
  <2>2. /\ 2 * (10 * u * md) * wn <= (2 * d * mn + mn) * wn
        /\ 2 * d * mn * wn <= (2 * (10 * u * md) + mn) * wn
    BY <1>1, <1>3, <2>1, TimesIsMonotone
  <2>3. /\ 2 * (10 * u * md) * wn = 20 * (u * md * wn)
        /\ (2 * d * mn + mn) * wn = 2 * (d * (wn * mn)) + wn * mn
        /\ 2 * d * mn * wn = 2 * (d * (wn * mn))
        /\ (2 * (10 * u * md) + mn) * wn = 20 * (u * md * wn) + wn * mn
    BY <1>1, <1>3
  <2>4. QED
    BY <2>2, <2>3
<1>7. QED
  BY <1>3, <1>4, <1>5, <1>6 DEF Rounded, wn, wd, mn, md, h, d

(* How the averages compare, so do the figures, up to both roundings. *)
LEMMA FiguresFollow ==
  ASSUME NEW h, NEW d, NEW k, NEW x, NEW y, Rounded(h, d, k, x, y)
  PROVE  /\ 11 * x <= 10 * y => 11 * h <= 240 * d + 126
         /\ 10 * y <= 9 * x => 240 * d <= 9 * h + 126
         /\ 9 * x <= 10 * y => 9 * h <= 240 * d + 126
         /\ 10 * y <= 11 * x => 240 * d <= 11 * h + 126
<1> DEFINE a == h * k
           b == d * k
<1>1. /\ h \in Nat /\ d \in Nat /\ k \in Nat \ {0} /\ x \in Nat /\ y \in Nat
      /\ a \in Nat /\ b \in Nat
  BY DEF Rounded
<1>2. /\ (22 * h) * k = 22 * a /\ (18 * h) * k = 18 * a
      /\ (480 * d) * k = 480 * b
      /\ (480 * d + 251) * k = 480 * b + 251 * k
      /\ (480 * d + 249) * k = 480 * b + 249 * k
      /\ (22 * h + 251) * k = 22 * a + 251 * k
      /\ (18 * h + 249) * k = 18 * a + 249 * k
  BY <1>1
<1>3. /\ 2 * a <= 480 * x + k /\ 480 * x <= 2 * a + k
      /\ 2 * b <= 20 * y + k  /\ 20 * y <= 2 * b + k
  BY DEF Rounded
<1> HIDE DEF a, b
<1>4. ASSUME 11 * x <= 10 * y PROVE 11 * h <= 240 * d + 126
  <2>1. (22 * h) * k <= (480 * d + 251) * k
    BY <1>1, <1>2, <1>3, <1>4
  <2>2. 22 * h <= 480 * d + 251
    BY <1>1, <2>1, Cancels
  <2>3. QED
    BY <1>1, <2>2
<1>5. ASSUME 10 * y <= 9 * x PROVE 240 * d <= 9 * h + 126
  <2>1. (480 * d) * k <= (18 * h + 249) * k
    BY <1>1, <1>2, <1>3, <1>5
  <2>2. 480 * d <= 18 * h + 249
    BY <1>1, <2>1, Cancels
  <2>3. QED
    BY <1>1, <2>2
<1>6. ASSUME 9 * x <= 10 * y PROVE 9 * h <= 240 * d + 126
  <2>1. (18 * h) * k <= (480 * d + 249) * k
    BY <1>1, <1>2, <1>3, <1>6
  <2>2. 18 * h <= 480 * d + 249
    BY <1>1, <2>1, Cancels
  <2>3. QED
    BY <1>1, <2>2
<1>7. ASSUME 10 * y <= 11 * x PROVE 240 * d <= 11 * h + 126
  <2>1. (480 * d) * k <= (22 * h + 251) * k
    BY <1>1, <1>2, <1>3, <1>7
  <2>2. 480 * d <= 22 * h + 251
    BY <1>1, <2>1, Cancels
  <2>3. QED
    BY <1>1, <2>2
<1>8. QED
  BY <1>4, <1>5, <1>6, <1>7

(* What the trend says of the averages. *)
LEMMA TrendCompares ==
  ASSUME NEW h \in Seq(Count), h # <<>>, NEW d \in Nat, NEW u \in Nat
  PROVE  LET week  == Average7(h, d)
             month == Average30(h, d)
             x == u * week.den * month.num
             y == u * month.den * week.num
         IN /\ Trend(h, d) = "INCREASING" => 11 * x <= 10 * y
            /\ Trend(h, d) = "DECREASING" => 10 * y <= 9 * x
            /\ Trend(h, d) = "STABLE" => 9 * x <= 10 * y /\ 10 * y <= 11 * x
<1> DEFINE wn == Average7(h, d).num
           wd == Average7(h, d).den
           mn == Average30(h, d).num
           md == Average30(h, d).den
           Up   == 10 * wn * md > 11 * mn * wd
           Down == 10 * wn * md < 9 * mn * wd
<1>1. wn \in Nat /\ wd \in Nat /\ mn \in Nat /\ md \in Nat
  BY AveragesArePositive DEF Positive
<1>2. Trend(h, d) = CASE h = <<>> -> "STABLE"
                      [] h # <<>> /\ Up -> "INCREASING"
                      [] h # <<>> /\ Down -> "DECREASING"
                      [] OTHER -> "STABLE"
  BY DEF Trend
<1> HIDE DEF wn, wd, mn, md
<1>3. wn * md \in Nat /\ mn * wd \in Nat
      /\ 10 * wn * md = 10 * (wn * md)
      /\ 11 * mn * wd = 11 * (mn * wd) /\ 9 * mn * wd = 9 * (mn * wd)
  BY <1>1
<1>4. ~(Up /\ Down)
  BY <1>3
<1>5. /\ Trend(h, d) = "INCREASING" => Up
      /\ Trend(h, d) = "DECREASING" => Down
      /\ Trend(h, d) = "STABLE" => ~Up /\ ~Down
  <2> HIDE DEF Up, Down
  <2>1. QED
    BY <1>2, <1>4
<1>6. /\ Up => 11 * (mn * wd) <= 10 * (wn * md)
      /\ Down => 10 * (wn * md) <= 9 * (mn * wd)
      /\ ~Up /\ ~Down => /\ 9 * (mn * wd) <= 10 * (wn * md)
                       /\ 10 * (wn * md) <= 11 * (mn * wd)
  BY <1>3
<1>7. ASSUME NEW i \in Nat, NEW j \in Nat,
             i * (mn * wd) <= j * (wn * md)
      PROVE  i * (u * wd * mn) <= j * (u * md * wn)
  <2>1. i * (mn * wd) \in Nat /\ j * (wn * md) \in Nat
    BY <1>3
  <2>2. (i * (mn * wd)) * u <= (j * (wn * md)) * u
    BY <1>7, <2>1, TimesIsMonotone
  <2>3. /\ (i * (mn * wd)) * u = i * (u * wd * mn)
        /\ (j * (wn * md)) * u = j * (u * md * wn)
    BY <1>1
  <2>4. QED
    BY <2>2, <2>3
<1>8. ASSUME NEW i \in Nat, NEW j \in Nat,
             j * (wn * md) <= i * (mn * wd)
      PROVE  j * (u * md * wn) <= i * (u * wd * mn)
  <2>1. i * (mn * wd) \in Nat /\ j * (wn * md) \in Nat
    BY <1>3
  <2>2. (j * (wn * md)) * u <= (i * (mn * wd)) * u
    BY <1>8, <2>1, TimesIsMonotone
  <2>3. /\ (i * (mn * wd)) * u = i * (u * wd * mn)
        /\ (j * (wn * md)) * u = j * (u * md * wn)
    BY <1>1
  <2>4. QED
    BY <2>2, <2>3
<1> HIDE DEF Up, Down
<1>9. QED
  BY <1>5, <1>6, <1>7, <1>8 DEF wn, wd, mn, md

(* For every history, stock and daily usage, the hours to the stop and the    *)
(* days of coverage differ as the trend says, up to both roundings            *)
(* (risk_engine.py:167-175, 211-229).                                        *)
THEOREM TrendExplainsTheStop == Spec => []StopFollowsTrend
<1>1. RowsOK => StopFollowsTrend
  <2> SUFFICES ASSUME RowsOK, history # <<>> PROVE StopFollowsTrend
    BY DEF StopFollowsTrend
  <2> DEFINE u == history[1].usable
             week  == Average7(history, daily)
             month == Average30(history, daily)
             hours == HoursToStopTenths(history, daily)
             days  == CoverageTenths(history, daily)
             trend == Trend(history, daily)
             k == week.num * month.num
             x == u * week.den * month.num
             y == u * month.den * week.num
  <2>1. history \in Seq(Count) /\ daily \in Nat /\ u \in Nat
    BY UsableIsNat DEF RowsOK
  <2>2. week \in Positive /\ month \in Positive
    BY <2>1, AveragesArePositive
  <2>3. /\ hours = HalfEven(240 * u * week.den, week.num)
        /\ days = HalfEven(10 * u * month.den, month.num)
    BY DEF HoursToStopTenths, CoverageTenths
  <2>4. /\ trend = "INCREASING" => 11 * x <= 10 * y
        /\ trend = "DECREASING" => 10 * y <= 9 * x
        /\ trend = "STABLE" => 9 * x <= 10 * y /\ 10 * y <= 11 * x
    BY <2>1, TrendCompares
  <2> HIDE DEF u, week, month
  <2>5. Rounded(hours, days, k, x, y)
    BY <2>1, <2>2, <2>3, RoundedFigures
  <2> HIDE DEF k, x, y, hours, days, trend
  <2>6. /\ 11 * x <= 10 * y => 11 * hours <= 240 * days + 126
        /\ 10 * y <= 9 * x => 240 * days <= 9 * hours + 126
        /\ 9 * x <= 10 * y => 9 * hours <= 240 * days + 126
        /\ 10 * y <= 11 * x => 240 * days <= 11 * hours + 126
    BY <2>5, FiguresFollow
  <2>7. /\ trend = "INCREASING" => 11 * hours <= 10 * 24 * days + 11 * 14
        /\ trend = "DECREASING" => 9 * hours >= 10 * 24 * days - 9 * 14
        /\ trend = "STABLE" => /\ 9 * hours <= 10 * 24 * days + 9 * 14
                               /\ 11 * hours >= 10 * 24 * days - 11 * 14
    BY <2>4, <2>5, <2>6 DEF Rounded
  <2>8. QED
    BY <2>7 DEF StopFollowsTrend, hours, days, trend
<1>2. QED
  BY <1>1, RowsStay, PTL

-----------------------------------------------------------------------------
(* The mean of the daily rates. *)

(* Rate r is at most, or at least, the mean of k rates whose sum is s. *)
BelowMean(r, s, k) == r.num * s.den * k <= s.num * r.den

AboveMean(r, s, k) == s.num * r.den <= r.num * s.den * k

(* The same of a/b and c/d, and of p/q and its sum with c/d. *)
LEMMA BelowNext ==
  ASSUME NEW a \in Nat, NEW b \in Nat \ {0}, NEW c \in Nat, NEW d \in Nat,
         NEW p \in Nat, NEW q \in Nat, NEW k \in Nat, a * q * k <= p * b
  PROVE  \/ a * (q * d) * (k + 1) <= (p * d + c * q) * b
         \/ c * (q * d) * (k + 1) <= (p * d + c * q) * d
<1>1. a * q * k \in Nat /\ p * b \in Nat /\ a * d \in Nat /\ c * b \in Nat
      /\ q * k \in Nat /\ c * q * k \in Nat /\ p * d \in Nat
  OBVIOUS
<1>2. (a * q * k) * d <= (p * b) * d
  BY <1>1, TimesIsMonotone
<1>3. CASE a * d <= c * b
  <2>1. (a * d) * q <= (c * b) * q
    BY <1>1, <1>3, TimesIsMonotone
  <2>2. /\ a * (q * d) * (k + 1) = (a * q * k) * d + (a * d) * q
        /\ (p * d + c * q) * b = (p * b) * d + (c * b) * q
    OBVIOUS
  <2>3. QED
    BY <1>1, <1>2, <2>1, <2>2
<1>4. CASE c * b <= a * d
  <2>1. (c * b) * (q * k) <= (a * d) * (q * k)
    BY <1>1, <1>4, TimesIsMonotone
  <2>2. /\ (c * b) * (q * k) = (c * q * k) * b
        /\ (a * d) * (q * k) = (a * q * k) * d
        /\ (p * b) * d = (p * d) * b
    OBVIOUS
  <2>3. c * q * k <= p * d
    <3>1. (c * q * k) * b <= (p * d) * b
      BY <1>1, <1>2, <2>1, <2>2
    <3>2. QED
      BY <1>1, <3>1, Cancels
  <2>4. (c * q * k) * d <= (p * d) * d
    BY <1>1, <2>3, TimesIsMonotone
  <2>5. /\ c * (q * d) * (k + 1) = (c * q * k) * d + (c * q) * d
        /\ (p * d + c * q) * d = (p * d) * d + (c * q) * d
    OBVIOUS
  <2>6. QED
    BY <1>1, <2>4, <2>5
<1>5. QED
  BY <1>1, <1>3, <1>4

LEMMA AboveNext ==
  ASSUME NEW a \in Nat, NEW b \in Nat \ {0}, NEW c \in Nat, NEW d \in Nat,
         NEW p \in Nat, NEW q \in Nat, NEW k \in Nat, p * b <= a * q * k
  PROVE  \/ (p * d + c * q) * b <= a * (q * d) * (k + 1)
         \/ (p * d + c * q) * d <= c * (q * d) * (k + 1)
<1>1. a * q * k \in Nat /\ p * b \in Nat /\ a * d \in Nat /\ c * b \in Nat
      /\ q * k \in Nat /\ c * q * k \in Nat /\ p * d \in Nat
  OBVIOUS
<1>2. (p * b) * d <= (a * q * k) * d
  BY <1>1, TimesIsMonotone
<1>3. CASE c * b <= a * d
  <2>1. (c * b) * q <= (a * d) * q
    BY <1>1, <1>3, TimesIsMonotone
  <2>2. /\ a * (q * d) * (k + 1) = (a * q * k) * d + (a * d) * q
        /\ (p * d + c * q) * b = (p * b) * d + (c * b) * q
    OBVIOUS
  <2>3. QED
    BY <1>1, <1>2, <2>1, <2>2
<1>4. CASE a * d <= c * b
  <2>1. (a * d) * (q * k) <= (c * b) * (q * k)
    BY <1>1, <1>4, TimesIsMonotone
  <2>2. /\ (c * b) * (q * k) = (c * q * k) * b
        /\ (a * d) * (q * k) = (a * q * k) * d
        /\ (p * b) * d = (p * d) * b
    OBVIOUS
  <2>3. p * d <= c * q * k
    <3>1. (p * d) * b <= (c * q * k) * b
      BY <1>1, <1>2, <2>1, <2>2
    <3>2. QED
      BY <1>1, <3>1, Cancels
  <2>4. (p * d) * d <= (c * q * k) * d
    BY <1>1, <2>3, TimesIsMonotone
  <2>5. /\ c * (q * d) * (k + 1) = (c * q * k) * d + (c * q) * d
        /\ (p * d + c * q) * d = (p * d) * d + (c * q) * d
    OBVIOUS
  <2>6. QED
    BY <1>1, <2>4, <2>5
<1>5. QED
  BY <1>1, <1>3, <1>4

(* A further rate takes the place of the one found, or leaves it. *)
LEMMA MeanNext ==
  ASSUME NEW r \in Positive, NEW t \in Positive, NEW s \in Sum, NEW k \in Nat
  PROVE  /\ BelowMean(r, s, k) => \/ BelowMean(r, Plus(s, t), k + 1)
                                  \/ BelowMean(t, Plus(s, t), k + 1)
         /\ AboveMean(r, s, k) => \/ AboveMean(r, Plus(s, t), k + 1)
                                  \/ AboveMean(t, Plus(s, t), k + 1)
<1> DEFINE a == r.num
           b == r.den
           c == t.num
           d == t.den
           p == s.num
           q == s.den
<1>1. /\ a \in Nat /\ b \in Nat \ {0} /\ c \in Nat /\ d \in Nat
      /\ p \in Nat /\ q \in Nat
  BY DEF Positive, Sum
<1>2. Plus(s, t).num = p * d + c * q /\ Plus(s, t).den = q * d
  BY DEF Plus, Fraction
<1> HIDE DEF a, b, c, d, p, q
<1>3. a * q * k <= p * b =>
        \/ a * (q * d) * (k + 1) <= (p * d + c * q) * b
        \/ c * (q * d) * (k + 1) <= (p * d + c * q) * d
  BY <1>1, BelowNext
<1>4. p * b <= a * q * k =>
        \/ (p * d + c * q) * b <= a * (q * d) * (k + 1)
        \/ (p * d + c * q) * d <= c * (q * d) * (k + 1)
  BY <1>1, AboveNext
<1>5. QED
  BY <1>2, <1>3, <1>4, Zenon DEF BelowMean, AboveMean, a, b, c, d, p, q

(* One rate is its own mean. *)
LEMMA MeanOfOne ==
  ASSUME NEW r \in Positive
  PROVE  LET s == Plus(Fraction(0, 1), r)
         IN BelowMean(r, s, 1) /\ AboveMean(r, s, 1)
<1> DEFINE c == r.num
           d == r.den
<1>1. c \in Nat /\ d \in Nat
  BY DEF Positive
<1>2. Plus(Fraction(0, 1), r) = Fraction(0 * d + c * 1, 1 * d)
  BY DEF Plus, Fraction
<1> HIDE DEF c, d
<1>3. 0 * d + c * 1 = c /\ 1 * d = d /\ c * d * 1 = c * d
  BY <1>1
<1>4. Plus(Fraction(0, 1), r).num = c /\ Plus(Fraction(0, 1), r).den = d
  BY <1>2, <1>3 DEF Fraction
<1>5. c * d <= c * d
  BY <1>1
<1>6. QED
  BY <1>3, <1>4, <1>5 DEF BelowMean, AboveMean, c, d

LEMMA MeanIsBetween ==
  ASSUME NEW rates \in Seq(Positive), rates # <<>>
  PROVE  /\ \E i \in DOMAIN rates : BelowMean(rates[i], SumOf(rates), Len(rates))
         /\ \E i \in DOMAIN rates : AboveMean(rates[i], SumOf(rates), Len(rates))
<1> DEFINE n == Len(rates)
<1>1. PICK f \in [0..n -> Sum] :
        /\ f[0] = Fraction(0, 1)
        /\ \A k \in 1..n : f[k] = Plus(f[k - 1], rates[k])
        /\ SumOf(rates) = f[n]
  BY SumSteps
<1>2. n \in Nat /\ n # 0 /\ DOMAIN rates = 1..n
      /\ \A k \in 1..n : rates[k] \in Positive
  OBVIOUS
<1> HIDE DEF n
<1> DEFINE Low(k)  == \E i \in 1..k : BelowMean(rates[i], f[k], k)
           High(k) == \E i \in 1..k : AboveMean(rates[i], f[k], k)
           S == {k \in 0..n : k # 0 => Low(k) /\ High(k)}
<1>3. 0 \in S
  BY <1>2
<1>4. ASSUME NEW k \in 1..n, k - 1 \in S PROVE k \in S
  <2>1. /\ k - 1 \in 0..n /\ k \in 0..n /\ k - 1 \in Nat /\ (k - 1) + 1 = k
        /\ f[k - 1] \in Sum /\ rates[k] \in Positive
        /\ f[k] = Plus(f[k - 1], rates[k])
    BY <1>1, <1>2
  <2>2. CASE k = 1
    <3>1. BelowMean(rates[1], f[1], 1) /\ AboveMean(rates[1], f[1], 1)
      BY <1>1, <2>1, <2>2, MeanOfOne
    <3>2. QED
      BY <2>1, <2>2, <3>1
  <2>3. CASE k # 1
    <3>1. Low(k - 1) /\ High(k - 1)
      BY <1>4, <2>3
    <3>2. Low(k)
      <4>1. PICK i \in 1..(k - 1) : BelowMean(rates[i], f[k - 1], k - 1)
        BY <3>1
      <4>2. i \in 1..k /\ k \in 1..k /\ rates[i] \in Positive
        BY <1>2
      <4>3. \/ BelowMean(rates[i], f[k], k) \/ BelowMean(rates[k], f[k], k)
        <5>1. \/ BelowMean(rates[i], Plus(f[k - 1], rates[k]), (k - 1) + 1)
              \/ BelowMean(rates[k], Plus(f[k - 1], rates[k]), (k - 1) + 1)
          BY <2>1, <4>1, <4>2, MeanNext
        <5>2. QED
          BY <2>1, <5>1
      <4>4. QED
        BY <4>2, <4>3
    <3>3. High(k)
      <4>1. PICK i \in 1..(k - 1) : AboveMean(rates[i], f[k - 1], k - 1)
        BY <3>1
      <4>2. i \in 1..k /\ k \in 1..k /\ rates[i] \in Positive
        BY <1>2
      <4>3. \/ AboveMean(rates[i], f[k], k) \/ AboveMean(rates[k], f[k], k)
        <5>1. \/ AboveMean(rates[i], Plus(f[k - 1], rates[k]), (k - 1) + 1)
              \/ AboveMean(rates[k], Plus(f[k - 1], rates[k]), (k - 1) + 1)
          BY <2>1, <4>1, <4>2, MeanNext
        <5>2. QED
          BY <2>1, <5>1
      <4>4. QED
        BY <4>2, <4>3
    <3> HIDE DEF Low, High
    <3>4. QED
      BY <2>1, <3>2, <3>3
  <2>4. QED
    BY <2>2, <2>3
<1>5. n \in S
  <2> HIDE DEF S
  <2>1. \A k \in 0..n : k \in S
    BY <1>2, <1>3, <1>4, Induction
  <2>2. QED
    BY <1>2, <2>1
<1>6. QED
  BY <1>1, <1>2, <1>5 DEF n

(* Rates over equal gaps add up to the fall in stock over one gap. *)
LEMMA EvenNext ==
  ASSUME NEW p \in Nat, NEW q \in Nat, NEW g \in Nat, NEW fall \in Int,
         NEW c \in Int, p * g = q * fall
  PROVE  (p * g + c * q) * g = (q * g) * (fall + c)
<1>1. (p * g + c * q) * g = (p * g) * g + (c * q) * g
  OBVIOUS
<1>2. (q * g) * (fall + c) = (q * fall) * g + (c * q) * g
  OBVIOUS
<1>3. QED
  BY <1>1, <1>2

LEMMA EvenGaps ==
  ASSUME NEW h \in Seq(Count), h # <<>>, NEW gap \in Nat, NEW rates \in Seq(Positive),
         Len(rates) = Pairs(h),
         \A i \in 1..Pairs(h) : DaysBetween(h, i) = gap /\ rates[i] = Rate(h, i)
  PROVE  SumOf(rates).num * gap
           = SumOf(rates).den * (h[Len(h)].usable - h[1].usable)
<1> DEFINE n == Len(rates)
           Fall(k) == h[k + 1].usable - h[1].usable
<1>1. PICK f \in [0..n -> Sum] :
        /\ f[0] = Fraction(0, 1)
        /\ \A k \in 1..n : f[k] = Plus(f[k - 1], rates[k])
        /\ SumOf(rates) = f[n]
  BY SumSteps
<1>2. n \in Nat /\ n = Pairs(h) /\ n = Len(h) - 1 /\ n + 1 = Len(h)
  BY DEF Pairs
<1> HIDE DEF n
<1>3. \A k \in 1..(n + 1) : h[k].usable \in Nat
  <2>1. \A k \in 1..(n + 1) : h[k] \in Count
    BY <1>2
  <2>2. QED
    BY <2>1 DEF Count
<1>4. \A k \in 0..n : Fall(k) \in Int
  BY <1>2, <1>3
<1>5. \A k \in 1..n : /\ rates[k] = Fraction(h[k + 1].usable - h[k].usable, gap)
                      /\ Fall(k) = Fall(k - 1) + (h[k + 1].usable - h[k].usable)
                      /\ h[k + 1].usable - h[k].usable \in Int
  <2>1. ASSUME NEW k \in 1..n
        PROVE  /\ k \in 1..(n + 1) /\ k + 1 \in 1..(n + 1) /\ 1 \in 1..(n + 1)
               /\ (k - 1) + 1 = k
    BY <1>2
  <2>2. ASSUME NEW k \in 1..n
        PROVE  rates[k] = Fraction(h[k + 1].usable - h[k].usable, gap)
    <3>1. rates[k] = Rate(h, k) /\ DaysBetween(h, k) = gap
      BY <1>2
    <3>2. QED
      BY <3>1 DEF Rate
  <2>3. ASSUME NEW k \in 1..n
        PROVE  /\ Fall(k) = Fall(k - 1) + (h[k + 1].usable - h[k].usable)
               /\ h[k + 1].usable - h[k].usable \in Int
    <3>1. h[k].usable \in Nat /\ h[k + 1].usable \in Nat /\ h[1].usable \in Nat
      BY <1>3, <2>1
    <3>2. Fall(k - 1) = h[k].usable - h[1].usable
      BY <2>1
    <3>3. QED
      BY <3>1, <3>2
  <2> HIDE DEF Fall
  <2>4. QED
    BY <2>2, <2>3
<1> HIDE DEF Fall
<1> DEFINE S == {k \in 0..n : f[k].num * gap = f[k].den * Fall(k)}
<1>6. 0 \in S
  <2>1. Fall(0) = 0
    <3>1. 1 \in 1..(n + 1) /\ 0 + 1 = 1
      BY <1>2
    <3>2. QED
      BY <1>3, <3>1 DEF Fall
  <2>2. f[0].num = 0 /\ f[0].den = 1
    BY <1>1 DEF Fraction
  <2>3. QED
    BY <1>2, <2>1, <2>2
<1>7. ASSUME NEW k \in 1..n, k - 1 \in S PROVE k \in S
  <2> DEFINE p == f[k - 1].num
             q == f[k - 1].den
             c == h[k + 1].usable - h[k].usable
  <2>1. k - 1 \in 0..n /\ k \in 0..n /\ f[k - 1] \in Sum
    BY <1>1, <1>2, SMTT(30)
  <2>2. p \in Nat /\ q \in Nat /\ p * gap = q * Fall(k - 1)
    BY <1>7, <2>1 DEF Sum
  <2>3. f[k].num = p * gap + c * q /\ f[k].den = q * gap
    <3>1. f[k] = Plus(f[k - 1], Fraction(c, gap))
      BY <1>1, <1>5
    <3>2. QED
      BY <3>1 DEF Plus, Fraction
  <2>4. c \in Int /\ Fall(k - 1) \in Int /\ Fall(k) = Fall(k - 1) + c
    BY <1>4, <1>5, <2>1
  <2> HIDE DEF p, q, c
  <2>5. (p * gap + c * q) * gap = (q * gap) * (Fall(k - 1) + c)
    <3> DEFINE fall == Fall(k - 1)
    <3>1. fall \in Int /\ p * gap = q * fall
      BY <2>2, <2>4
    <3> HIDE DEF fall
    <3>2. (p * gap + c * q) * gap = (q * gap) * (fall + c)
      BY <2>2, <2>4, <3>1, EvenNext
    <3>3. QED
      BY <3>2 DEF fall
  <2>6. QED
    BY <2>1, <2>3, <2>4, <2>5
<1>8. n \in S
  <2> HIDE DEF S
  <2>1. \A k \in 0..n : k \in S
    BY <1>2, <1>6, <1>7, Induction
  <2>2. QED
    BY <1>2, <2>1
<1>9. f[n].num * gap = f[n].den * Fall(n)
  BY <1>8
<1>10. QED
  BY <1>1, <1>2, <1>9 DEF Fall

LEMMA AverageOf ==
  ASSUME NEW h \in Seq(Count), DailyDeltas(h) # <<>>
  PROVE  LET rates == DailyDeltas(h)
             mean  == MeanRate(h)
             gap   == DaysBetween(h, 1)
         IN /\ \E i \in DOMAIN rates : AtMost(rates[i], mean)
            /\ \E i \in DOMAIN rates : AtMost(mean, rates[i])
            /\ Len(rates) = Len(h) - 1
                 /\ (\A i \in 1..Len(h) - 1 : DaysBetween(h, i) = gap) =>
               mean.num * gap * (Len(h) - 1)
                 = mean.den * (Last(h).usable - Head(h).usable)
<1> DEFINE rates == DailyDeltas(h)
           mean  == MeanRate(h)
           gap   == DaysBetween(h, 1)
           s     == SumOf(rates)
           n     == Len(rates)
<1>1. /\ rates \in Seq(Positive) /\ rates # <<>> /\ s \in Positive
      /\ n \in Nat /\ n # 0
  BY DailyDeltasArePositive, SumIsPositive
<1>2. mean.num = s.num /\ mean.den = s.den * n
  BY MeanOfSum
<1>3. s.num \in Nat /\ s.den \in Nat
  BY <1>1 DEF Positive
<1>4. /\ \E i \in DOMAIN rates : BelowMean(rates[i], s, n)
      /\ \E i \in DOMAIN rates : AboveMean(rates[i], s, n)
  BY <1>1, MeanIsBetween
<1>5. ASSUME NEW i \in DOMAIN rates
      PROVE  /\ BelowMean(rates[i], s, n) => AtMost(rates[i], mean)
             /\ AboveMean(rates[i], s, n) => AtMost(mean, rates[i])
  <2>1. rates[i].num \in Nat /\ rates[i].den \in Nat
    <3>1. rates[i] \in Positive
      BY <1>1
    <3>2. QED
      BY <3>1 DEF Positive
  <2> HIDE DEF rates, mean, s, n
  <2>2. rates[i].num * (s.den * n) = rates[i].num * s.den * n
    BY <1>1, <1>3, <2>1
  <2>3. QED
    BY <1>2, <2>2 DEF AtMost, BelowMean, AboveMean
<1>6. ASSUME n = Len(h) - 1, \A i \in 1..Len(h) - 1 : DaysBetween(h, i) = gap
      PROVE  mean.num * gap * (Len(h) - 1)
               = mean.den * (Last(h).usable - Head(h).usable)
  <2>1. /\ h # <<>> /\ Pairs(h) = n /\ 1..Pairs(h) = 1..Len(h) - 1
        /\ 1 \in 1..Pairs(h)
    <3>1. h # <<>>
      BY <1>1, <1>6
    <3>2. Pairs(h) = n
      BY <1>6, <3>1 DEF Pairs
    <3>3. QED
      BY <1>1, <3>1, <3>2, PairsAre
  <2>2. \A i \in 1..Pairs(h) : Tells(h, i) /\ rates[i] = Rate(h, i)
    BY <1>6, AllPairsTell
  <2>3. gap \in Nat
    <3>1. gap \in Int /\ gap > 0
      BY <2>1, <2>2, PairsAre DEF Tells
    <3>2. QED
      BY <3>1
  <2> DEFINE fall == h[Len(h)].usable - h[1].usable
  <2>4. s.num * gap = s.den * fall
    <3>1. \A i \in 1..Pairs(h) : DaysBetween(h, i) = gap /\ rates[i] = Rate(h, i)
      BY <1>6, <2>1, <2>2
    <3> HIDE DEF gap, rates
    <3>2. QED
      BY <1>1, <2>1, <2>3, <3>1, EvenGaps
  <2>5. fall \in Int /\ Last(h) = h[Len(h)] /\ Head(h) = h[1]
    <3>1. h[Len(h)] \in Count /\ h[1] \in Count
      BY <2>1
    <3>2. QED
      BY <3>1 DEF Last, Count
  <2> HIDE DEF gap, fall, mean, s, n
  <2>6. s.num * gap * n = s.den * n * fall
    <3>1. (s.num * gap) * n = (s.den * fall) * n
      BY <2>4
    <3>2. (s.den * fall) * n = s.den * n * fall
      BY <1>1, <1>3, <2>5
    <3>3. QED
      BY <3>1, <3>2
  <2>7. Last(h).usable - Head(h).usable = fall
    BY <2>5 DEF fall
  <2>8. QED
    BY <1>2, <1>6, <2>6, <2>7
<1> HIDE DEF rates, mean, gap, s, n
<1>7. QED
  BY <1>4, <1>5, <1>6 DEF rates, mean, gap, n

(* For every history and both windows, the average lies between the slowest   *)
(* and the fastest rate it is made of, and where counts are evenly spaced and  *)
(* stock only falls it is the consumption per day of the whole period         *)
(* (risk_engine.py:104-124).                                                 *)
THEOREM AveragesAreMeans == Spec => []AverageWithinRates
<1>1. RowsOK => AverageWithinRates
  <2> SUFFICES ASSUME RowsOK, NEW days \in {7, 35},
                      DailyDeltas(Window(history, days)) # <<>>
               PROVE  LET h     == Window(history, days)
                          rates == DailyDeltas(h)
                          mean  == MeanRate(h)
                          gap   == DaysBetween(h, 1)
                      IN /\ \E i \in DOMAIN rates : AtMost(rates[i], mean)
                         /\ \E i \in DOMAIN rates : AtMost(mean, rates[i])
                         /\ Len(rates) = Len(h) - 1
                              /\ (\A i \in 1..Len(h) - 1 : DaysBetween(h, i) = gap) =>
                            mean.num * gap * (Len(h) - 1)
                              = mean.den * (Last(h).usable - Head(h).usable)
    BY Zenon DEF AverageWithinRates
  <2>1. Window(history, days) \in Seq(Count)
    BY WindowIsSeq DEF RowsOK
  <2>2. QED
    BY <2>1, AverageOf, Zenon
<1>2. QED
  BY <1>1, RowsStay, PTL
=============================================================================
