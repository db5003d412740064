---------------------------- MODULE SourcingProofs ----------------------------
(***************************************************************************)
(* Lemmas about the rules of Sourcing: what the loops compute, that the     *)
(* suggestions are well formed, and that what the rules buy adds up.         *)
(***************************************************************************)
EXTENDS Sourcing, SequenceTheorems, FiniteSetTheorems, WellFoundedInduction, TLAPS

(* What links bring to the analysis and to the allocations: stock.  *)
Available(links, seq) == [i \in DOMAIN seq |-> links[seq[i]].available]

Amounts(bought) == [i \in DOMAIN bought |-> bought[i].quantity]

(* x buys what a disruption analysed as "a" needs, or all there is. *)
BuysEnough(links, x, a) ==
  /\ x.quantity = Total(Amounts(x.allocations))
  /\ x.quantity = Least(NeededUnits(a), Total(Available(links, a.ranking)))
  /\ \A i \in DOMAIN x.allocations :
       LET bought == x.allocations[i]
       IN /\ bought.quantity \in 1..links[bought.supplier].available
          /\ i < Len(x.allocations) =>
               bought.quantity = links[bought.supplier].available

(* A plan that changes nothing outside the plant: it always validates. *)
Internal(x) == x.supplier = Absent /\ x.allocations = <<>>

Purchase(x) == x.rules /\ x.supplier # Absent

(* The rules score an internal plan 91 or more, a purchase 96.4 or less. *)
RulesScore(s) ==
  s.rules => \/ Internal(s) /\ s.score >= 9100
             \/ s.supplier # Absent /\ s.score <= 9640

-----------------------------------------------------------------------------
(* Folds: the recursive function FoldLeft chooses exists, and its values on   *)
(* the prefixes of a sequence follow from each other.                        *)

LEMMA Minimum ==
  ASSUME NEW T \in SUBSET Nat, T # {}
  PROVE  \E n \in T : \A m \in T : n <= m
<1>1. PICK n \in T : \A m \in T : ~(<<m, n>> \in OpToRel(<, Nat))
  BY NatLessThanWellFounded, WFMin
<1>2. \A m \in T : ~(m < n)
  BY <1>1 DEF OpToRel
<1>3. n \in Nat /\ \A m \in T : m \in Nat
  OBVIOUS
<1>4. QED
  BY <1>2, <1>3

LEMMA Induction ==
  ASSUME NEW n \in Nat, NEW S,
         0 \in S, \A k \in 1..n : k - 1 \in S => k \in S
  PROVE  \A k \in 0..n : k \in S
<1> DEFINE Bad == {k \in 0..n : k \notin S}
<1>1. SUFFICES ASSUME Bad # {} PROVE FALSE
  OBVIOUS
<1>2. PICK k \in Bad : \A m \in Bad : k <= m
  <2>1. Bad \in SUBSET Nat
    OBVIOUS
  <2>2. QED
    BY <1>1, <2>1, Minimum
<1>3. k \in 1..n /\ k - 1 \in 0..n /\ ~(k <= k - 1)
  OBVIOUS
<1>4. k - 1 \in S
  BY <1>2, <1>3
<1>5. QED
  BY <1>3, <1>4

LEMMA MaxIsIn ==
  ASSUME NEW n \in Nat, NEW t \in SUBSET (1..n), t # {}
  PROVE  Max(t) \in t
<1> DEFINE T == {m \in 0..n : n - m \in t}
<1>1. PICK m \in T : \A k \in T : m <= k
  <2>1. PICK i \in t : TRUE
    OBVIOUS
  <2>2. i \in 1..n /\ n - i \in 0..n /\ n - (n - i) = i
    BY <2>1
  <2>3. n - i \in T
    BY <2>2
  <2>4. T \in SUBSET Nat
    OBVIOUS
  <2> HIDE DEF T
  <2>5. QED
    BY <2>3, <2>4, Minimum
<1>2. n - m \in t
  OBVIOUS
<1>3. ASSUME NEW j \in t PROVE n - m >= j
  <2>1. j \in 1..n /\ n - j \in 0..n /\ n - (n - j) = j
    OBVIOUS
  <2>2. n - j \in T /\ m \in 0..n
    BY <2>1
  <2>3. m <= n - j
    BY <1>1, <2>2
  <2>4. QED
    BY <2>1, <2>2, <2>3
<1>4. QED
  BY <1>2, <1>3 DEF Max

LEMMA MaxOfPrefix ==
  ASSUME NEW n \in Nat, NEW t \in SUBSET (1..n), n \in t
  PROVE  Max(t) = n
<1>1. \A j \in t : n >= j
  OBVIOUS
<1>2. \A x \in t : (\A y \in t : x >= y) => x = n
  BY <1>1
<1>3. QED
  BY <1>1, <1>2 DEF Max

(* g is the recursive function on sets of indices up to n that FoldLeft uses.  *)
Folding(g, n, base, F) ==
  \A t \in SUBSET (1..n) :
    g[t] = IF t = {} THEN base ELSE F[<<Max(t), g[t \ {Max(t)}]>>]

(* iter is such a function where its values are known to be in A. *)
Unfolds(iter, n, A, base, F) ==
  /\ iter[{}] = base
  /\ \A t \in (SUBSET (1..n)) \ {{}} :
       iter[t \ {Max(t)}] \in A => iter[t] = F[<<Max(t), iter[t \ {Max(t)}]>>]

(* f has what it yields for the prefixes of a sequence. *)
Steps(f, iter, n, base, F) ==
  /\ f[0] = base
  /\ \A k \in 1..n : f[k] = F[<<k, f[k - 1]>>]
  /\ f[n] = iter[1..n]

LEMMA Recursion ==
  ASSUME NEW n \in Nat, NEW A, NEW base \in A, NEW F \in [(1..n) \X A -> A]
  PROVE  \E g \in [SUBSET (1..n) -> A] : Folding(g, n, base, F)
<1> DEFINE S == {k \in 0..n : \E g \in [SUBSET (1..k) -> A] : Folding(g, k, base, F)}
<1>1. 0 \in S
  <2>1. [t \in SUBSET (1..0) |-> base] \in [SUBSET (1..0) -> A]
    OBVIOUS
  <2>2. Folding([t \in SUBSET (1..0) |-> base], 0, base, F)
    BY DEF Folding
  <2>3. QED
    BY <2>1, <2>2
<1>2. ASSUME NEW k \in 1..n, k - 1 \in S PROVE k \in S
  <2>1. PICK g \in [SUBSET (1..(k - 1)) -> A] : Folding(g, k - 1, base, F)
    BY <1>2
  <2> DEFINE h == [t \in SUBSET (1..k) |->
                     IF k \in t THEN F[<<k, g[t \ {k}]>>] ELSE g[t]]
  <2>2. ASSUME NEW t \in SUBSET (1..k)
        PROVE  /\ t \ {k} \in SUBSET (1..(k - 1))
               /\ k \notin t => t \in SUBSET (1..(k - 1))
    OBVIOUS
  <2>3. h \in [SUBSET (1..k) -> A]
    <3>1. ASSUME NEW t \in SUBSET (1..k) PROVE h[t] \in A
      BY <2>1, <2>2
    <3>2. QED
      BY <3>1
  <2>4. ASSUME NEW t \in SUBSET (1..k)
        PROVE  h[t] = IF t = {} THEN base ELSE F[<<Max(t), h[t \ {Max(t)}]>>]
    <3>1. CASE k \in t
      <4>1. Max(t) = k
        BY <3>1, MaxOfPrefix
      <4>2. t \ {k} \in SUBSET (1..k) /\ h[t \ {k}] = g[t \ {k}]
        OBVIOUS
      <4>3. QED
        BY <3>1, <4>1, <4>2
    <3>2. CASE k \notin t
      <4>1. h[t] = g[t] /\ t \in SUBSET (1..(k - 1))
        BY <2>2, <3>2
      <4>2. t \ {Max(t)} \in SUBSET (1..k) /\ h[t \ {Max(t)}] = g[t \ {Max(t)}]
        BY <3>2
      <4>3. QED
        BY <2>1, <4>1, <4>2 DEF Folding
    <3>3. QED
      BY <3>1, <3>2
  <2>5. Folding(h, k, base, F)
    BY <2>4 DEF Folding
  <2> HIDE DEF h
  <2>6. QED
    BY <2>3, <2>5
<1>3. \A k \in 0..n : k \in S
  <2> HIDE DEF S
  <2>1. QED
    BY <1>1, <1>2, Induction
<1>4. n \in 0..n
  OBVIOUS
<1>5. QED
  BY <1>3, <1>4

(* What such a function makes of the prefixes of a sequence. *)
LEMMA PrefixSteps ==
  ASSUME NEW n \in Nat, NEW A, NEW base \in A, NEW F \in [(1..n) \X A -> A],
         NEW iter, Unfolds(iter, n, A, base, F)
  PROVE  \E f \in [0..n -> A] : Steps(f, iter, n, base, F)
<1> DEFINE S == {k \in 0..n : iter[1..k] \in A}
           f == [k \in 0..n |-> iter[1..k]]
<1>1. iter[1..0] = base
  <2>1. 1..0 = {}
    OBVIOUS
  <2>2. QED
    BY <2>1 DEF Unfolds
<1>2. ASSUME NEW k \in 1..n, iter[1..(k - 1)] \in A
      PROVE  iter[1..k] = F[<<k, iter[1..(k - 1)]>>] /\ iter[1..k] \in A
  <2>1. (1..k) \in SUBSET (1..n) /\ 1..k # {} /\ (1..k) \ {k} = 1..(k - 1)
    OBVIOUS
  <2>2. Max(1..k) = k
    BY MaxOfPrefix
  <2>3. iter[1..k] = F[<<k, iter[1..(k - 1)]>>]
    BY <1>2, <2>1, <2>2 DEF Unfolds
  <2>4. QED
    BY <1>2, <2>3
<1>3. \A k \in 0..n : k \in S
  <2>1. 0 \in S
    BY <1>1
  <2>2. ASSUME NEW k \in 1..n, k - 1 \in S PROVE k \in S
    <3>1. iter[1..(k - 1)] \in A
      BY <2>2
    <3>2. iter[1..k] \in A
      BY <1>2, <3>1, Zenon
    <3>3. k \in 0..n
      OBVIOUS
    <3>4. QED
      BY <3>2, <3>3
  <2> HIDE DEF S
  <2>3. QED
    BY <2>1, <2>2, Induction
<1>4. f \in [0..n -> A] /\ f[0] = base /\ iter[1..n] = f[n]
  BY <1>1, <1>3
<1>5. ASSUME NEW k \in 1..n PROVE f[k] = F[<<k, f[k - 1]>>]
  <2>1. k - 1 \in 0..n /\ k \in 0..n
    OBVIOUS
  <2>2. QED
    BY <1>2, <1>3, <2>1
<1>6. Steps(f, iter, n, base, F)
  BY <1>4, <1>5 DEF Steps
<1> HIDE DEF f
<1>7. QED
  BY <1>4, <1>6

LEMMA TotalSteps ==
  ASSUME NEW s \in Seq(Nat)
  PROVE  \E f \in [0..Len(s) -> Nat] :
           /\ f[0] = 0
           /\ \A k \in 1..Len(s) : f[k] = f[k - 1] + s[k]
           /\ Total(s) = f[Len(s)]
<1> DEFINE F    == [x \in (1..Len(s)) \X Nat |-> x[2] + s[x[1]]]
           sum == CHOOSE g : g = [t \in SUBSET DOMAIN s |->
                     IF t = {} THEN 0 ELSE g[t \ {Max(t)}] + s[Max(t)]]
<1>1. /\ Len(s) \in Nat /\ DOMAIN s = 1..Len(s) /\ 0 \in Nat
      /\ F \in [(1..Len(s)) \X Nat -> Nat]
      /\ \A k \in 1..Len(s) : \A x \in Nat : F[<<k, x>>] = x + s[k]
  OBVIOUS
<1> HIDE DEF F
<1>2. PICK g \in [SUBSET (1..Len(s)) -> Nat] : Folding(g, Len(s), 0, F)
  BY <1>1, Recursion
<1>3. g = [t \in SUBSET DOMAIN s |->
             IF t = {} THEN 0 ELSE g[t \ {Max(t)}] + s[Max(t)]]
  <2>1. ASSUME NEW t \in SUBSET (1..Len(s)), t # {}
        PROVE  F[<<Max(t), g[t \ {Max(t)}]>>] = g[t \ {Max(t)}] + s[Max(t)]
    <3>1. Max(t) \in 1..Len(s)
      BY <1>1, <2>1, MaxIsIn
    <3>2. g[t \ {Max(t)}] \in Nat
      OBVIOUS
    <3>3. QED
      BY <1>1, <3>1, <3>2
  <2>2. QED
    BY <1>1, <1>2, <2>1 DEF Folding
<1>4. sum = [t \in SUBSET DOMAIN s |->
                IF t = {} THEN 0 ELSE sum[t \ {Max(t)}] + s[Max(t)]]
  BY <1>3
<1>5. Total(s) = sum[DOMAIN s]
  BY DEF Total, FoldLeft, MapThenFoldSet
<1> HIDE DEF sum
<1>6. PICK f \in [0..Len(s) -> Nat] : Steps(f, sum, Len(s), 0, F)
  <2>1. sum[{}] = 0
    BY <1>4
  <2>2. ASSUME NEW t \in (SUBSET (1..Len(s))) \ {{}}, sum[t \ {Max(t)}] \in Nat
        PROVE  sum[t] = F[<<Max(t), sum[t \ {Max(t)}]>>]
    <3>1. Max(t) \in 1..Len(s)
      BY <1>1, <2>2, MaxIsIn
    <3>2. QED
      BY <1>1, <1>4, <2>2, <3>1
  <2>3. Unfolds(sum, Len(s), Nat, 0, F)
    BY <2>1, <2>2 DEF Unfolds
  <2>4. Len(s) \in Nat /\ 0 \in Nat /\ F \in [(1..Len(s)) \X Nat -> Nat]
    BY <1>1
  <2>5. QED
    BY <2>3, <2>4, PrefixSteps, Zenon
<1>7. ASSUME NEW k \in 1..Len(s) PROVE f[k] = f[k - 1] + s[k]
  <2>1. k - 1 \in 0..Len(s)
    BY <1>1
  <2>2. f[k - 1] \in Nat
    BY <2>1
  <2>3. QED
    BY <1>1, <1>6, <2>2 DEF Steps
<1>8. f[0] = 0 /\ Total(s) = f[Len(s)]
  BY <1>1, <1>5, <1>6 DEF Steps
<1>9. QED
  BY <1>7, <1>8

LEMMA TotalIsNat ==
  ASSUME NEW s \in Seq(Nat)
  PROVE  Total(s) \in Nat
<1>1. PICK f \in [0..Len(s) -> Nat] : Total(s) = f[Len(s)]
  BY TotalSteps
<1>2. Len(s) \in 0..Len(s)
  OBVIOUS
<1>3. QED
  BY <1>1, <1>2

LEMMA TotalOfNothing == Total(<<>>) = 0
<1>1. <<>> \in Seq(Nat) /\ Len(<<>>) = 0
  OBVIOUS
<1>2. QED
  BY <1>1, TotalSteps

LEMMA TotalOfAppend ==
  ASSUME NEW s \in Seq(Nat), NEW x \in Nat
  PROVE  Total(Append(s, x)) = Total(s) + x
<1> DEFINE t == Append(s, x)
<1>1. /\ t \in Seq(Nat) /\ Len(t) = Len(s) + 1 /\ t[Len(s) + 1] = x
      /\ \A k \in 1..Len(s) : t[k] = s[k]
      /\ Len(s) \in Nat
  OBVIOUS
<1> HIDE DEF t
<1>2. PICK f \in [0..Len(s) -> Nat] :
        /\ f[0] = 0
        /\ \A k \in 1..Len(s) : f[k] = f[k - 1] + s[k]
        /\ Total(s) = f[Len(s)]
  BY TotalSteps
<1>3. PICK g \in [0..Len(t) -> Nat] :
        /\ g[0] = 0
        /\ \A k \in 1..Len(t) : g[k] = g[k - 1] + t[k]
        /\ Total(t) = g[Len(t)]
  BY <1>1, TotalSteps
<1>4. \A k \in 0..Len(s) : k \in {m \in 0..Len(s) : g[m] = f[m]}
  <2> DEFINE S == {m \in 0..Len(s) : g[m] = f[m]}
  <2>1. 0 \in S
    BY <1>1, <1>2, <1>3
  <2>2. ASSUME NEW k \in 1..Len(s), k - 1 \in S PROVE k \in S
    <3>1. k \in 1..Len(t) /\ k \in 0..Len(s) /\ g[k - 1] = f[k - 1]
      BY <1>1, <2>2
    <3>2. g[k] = f[k]
      BY <1>1, <1>2, <1>3, <3>1
    <3>3. QED
      BY <3>1, <3>2
  <2> HIDE DEF S
  <2>3. \A k \in 0..Len(s) : k \in S
    BY <1>1, <2>1, <2>2, Induction
  <2>4. QED
    BY <2>3 DEF S
<1>5. g[Len(s)] = f[Len(s)] /\ Len(s) + 1 \in 1..Len(t)
  BY <1>1, <1>4
<1>6. g[Len(s) + 1] = g[Len(s)] + t[Len(s) + 1]
  <2>1. (Len(s) + 1) - 1 = Len(s)
    BY <1>1
  <2>2. \A k \in 1..Len(t) : k - 1 = Len(s) => g[k] = g[Len(s)] + t[k]
    BY <1>3
  <2>3. QED
    BY <1>5, <2>1, <2>2
<1>7. Total(t) = Total(s) + x
  BY <1>1, <1>2, <1>3, <1>5, <1>6
<1>8. QED
  BY <1>7 DEF t

LEMMA AvailableIsNat ==
  ASSUME NEW links \in [Suppliers -> Link], NEW s \in Suppliers
  PROVE  links[s].available \in Nat
BY DEF Link

LEMMA AvailableOfAppend ==
  ASSUME NEW links \in [Suppliers -> Link], NEW q \in Seq(Suppliers),
         NEW s \in Suppliers
  PROVE  /\ Available(links, q) \in Seq(Nat)
         /\ Available(links, Append(q, s))
              = Append(Available(links, q), links[s].available)
<1>1. links[s].available \in Nat /\ \A i \in DOMAIN q : links[q[i]].available \in Nat
  BY DEF Link
<1>2. Available(links, q) \in Seq(Nat) /\ Len(Available(links, q)) = Len(q)
  BY <1>1 DEF Available
<1>3. QED
  BY <1>1, <1>2 DEF Available

LEMMA AmountsOfAppend ==
  ASSUME NEW taken \in Seq(Allocation), NEW x \in Allocation
  PROVE  /\ Amounts(taken) \in Seq(Nat)
         /\ Amounts(Append(taken, x)) = Append(Amounts(taken), x.quantity)
<1>1. x.quantity \in Nat /\ \A i \in DOMAIN taken : taken[i].quantity \in Nat
  <2>1. \A i \in DOMAIN taken : taken[i] \in Allocation
    OBVIOUS
  <2>2. QED
    BY <2>1 DEF Allocation
<1>2. Amounts(taken) \in Seq(Nat) /\ Len(Amounts(taken)) = Len(taken)
  BY <1>1 DEF Amounts
<1>3. QED
  BY <1>1, <1>2 DEF Amounts

LEMMA LeastOf ==
  ASSUME NEW a \in Nat, NEW b \in Nat
  PROVE  /\ Least(a, b) \in Nat /\ Least(a, b) <= a /\ Least(a, b) <= b
         /\ Least(a, b) = a \/ Least(a, b) = b
BY DEF Least

-----------------------------------------------------------------------------
(* The suppliers a plan may buy from, and what they have.  *)

LEMMA QualifiedSteps ==
  ASSUME NEW links \in [Suppliers -> Link], NEW a \in Analysis
  PROVE  \E f \in [0..Len(a.ranking) -> Seq(Suppliers)] :
           /\ f[0] = <<>>
           /\ \A k \in 1..Len(a.ranking) :
                f[k] = IF links[a.ranking[k]].available > 0
                       THEN Append(f[k - 1], a.ranking[k]) ELSE f[k - 1]
           /\ Qualified(links, a) = f[Len(a.ranking)]
<1> DEFINE s == a.ranking
           A == Seq(Suppliers)
           body(k, kept) == IF links[s[k]].available > 0
                            THEN Append(kept, s[k]) ELSE kept
           F == [x \in (1..Len(s)) \X A |-> body(x[1], x[2])]
           keep == CHOOSE g : g = [t \in SUBSET DOMAIN s |->
                     IF t = {} THEN <<>> ELSE body(Max(t), g[t \ {Max(t)}])]
<1>1. s \in Seq(Suppliers)
  BY DEF Analysis
<1>2. /\ Len(s) \in Nat /\ DOMAIN s = 1..Len(s) /\ <<>> \in A
      /\ F \in [(1..Len(s)) \X A -> A]
      /\ \A k \in 1..Len(s) : \A q \in A : F[<<k, q>>] = body(k, q)
  BY <1>1
<1>3. Qualified(links, a) = keep[DOMAIN s]
  BY DEF Qualified, FoldLeft, MapThenFoldSet
<1> HIDE DEF F, body
<1>4. PICK g \in [SUBSET (1..Len(s)) -> A] : Folding(g, Len(s), <<>>, F)
  BY <1>2, Recursion
<1>5. g = [t \in SUBSET DOMAIN s |->
             IF t = {} THEN <<>> ELSE body(Max(t), g[t \ {Max(t)}])]
  <2>1. ASSUME NEW t \in SUBSET (1..Len(s)), t # {}
        PROVE  F[<<Max(t), g[t \ {Max(t)}]>>] = body(Max(t), g[t \ {Max(t)}])
    <3>1. Max(t) \in 1..Len(s)
      BY <1>2, <2>1, MaxIsIn
    <3>2. g[t \ {Max(t)}] \in A
      BY <1>4
    <3>3. QED
      BY <1>2, <3>1, <3>2
  <2>2. QED
    BY <1>2, <1>4, <2>1 DEF Folding
<1>6. keep = [t \in SUBSET DOMAIN s |->
                IF t = {} THEN <<>> ELSE body(Max(t), keep[t \ {Max(t)}])]
  BY <1>5
<1> HIDE DEF keep, s, A
<1>7. PICK f \in [0..Len(s) -> A] : Steps(f, keep, Len(s), <<>>, F)
  <2>1. keep[{}] = <<>>
    BY <1>6
  <2>2. ASSUME NEW t \in (SUBSET (1..Len(s))) \ {{}}, keep[t \ {Max(t)}] \in A
        PROVE  keep[t] = F[<<Max(t), keep[t \ {Max(t)}]>>]
    <3>1. Max(t) \in 1..Len(s)
      BY <1>2, <2>2, MaxIsIn
    <3>2. QED
      BY <1>2, <1>6, <2>2, <3>1
  <2>3. Unfolds(keep, Len(s), A, <<>>, F)
    BY <2>1, <2>2 DEF Unfolds
  <2>4. QED
    BY <1>2, <2>3, PrefixSteps
<1>8. ASSUME NEW k \in 1..Len(s) PROVE f[k] = body(k, f[k - 1])
  <2>1. k - 1 \in 0..Len(s)
    BY <1>2
  <2>2. f[k - 1] \in A
    BY <1>7, <2>1
  <2>3. QED
    BY <1>2, <1>7, <2>2 DEF Steps
<1>9. f[0] = <<>> /\ Qualified(links, a) = f[Len(s)]
  BY <1>2, <1>3, <1>7 DEF Steps
<1>10. QED
  BY <1>8, <1>9 DEF s, A, body

(* The filter loses no stock, and what it keeps has some. *)
LEMMA QualifiedHaveAll ==
  ASSUME NEW links \in [Suppliers -> Link], NEW a \in Analysis
  PROVE  LET suppliers == Qualified(links, a)
         IN /\ suppliers \in Seq(Suppliers)
            /\ \A i \in DOMAIN suppliers : links[suppliers[i]].available > 0
            /\ Total(Available(links, suppliers)) = Total(Available(links, a.ranking))
<1> DEFINE s == a.ranking
           n == Len(s)
           Kept(q, total) == /\ \A i \in DOMAIN q : links[q[i]].available > 0
                             /\ Total(Available(links, q)) = total
<1>1. s \in Seq(Suppliers) /\ n \in Nat
  BY DEF Analysis
<1>2. /\ Available(links, s) \in Seq(Nat) /\ Len(Available(links, s)) = n
      /\ \A k \in 1..n : /\ Available(links, s)[k] = links[s[k]].available
                         /\ links[s[k]].available \in Nat
  <2>1. \A k \in DOMAIN s : links[s[k]].available \in Nat
    BY <1>1 DEF Link
  <2>2. QED
    BY <1>1, <2>1 DEF Available
<1> HIDE DEF n
<1>3. PICK f \in [0..n -> Seq(Suppliers)] :
        /\ f[0] = <<>>
        /\ \A k \in 1..n : f[k] = IF links[s[k]].available > 0
                                 THEN Append(f[k - 1], s[k]) ELSE f[k - 1]
        /\ Qualified(links, a) = f[n]
  BY QualifiedSteps DEF n
<1> HIDE DEF s
<1>4. PICK sum \in [0..n -> Nat] :
        /\ sum[0] = 0
        /\ \A k \in 1..n : sum[k] = sum[k - 1] + Available(links, s)[k]
        /\ Total(Available(links, s)) = sum[n]
  BY <1>2, TotalSteps
<1> DEFINE S == {k \in 0..n : Kept(f[k], sum[k])}
<1>5. 0 \in S
  <2>1. Available(links, <<>>) = <<>>
    BY DEF Available
  <2>2. QED
    BY <1>1, <1>3, <1>4, <2>1, TotalOfNothing
<1>6. ASSUME NEW k \in 1..n, k - 1 \in S PROVE k \in S
  <2>1. /\ k - 1 \in 0..n /\ k \in 0..n /\ f[k - 1] \in Seq(Suppliers)
        /\ sum[k - 1] \in Nat /\ s[k] \in Suppliers
    BY <1>1, <1>3, <1>4 DEF n
  <2>2. Kept(f[k - 1], sum[k - 1])
    BY <1>6
  <2>3. sum[k] = sum[k - 1] + links[s[k]].available /\ links[s[k]].available \in Nat
    BY <1>2, <1>4
  <2>4. CASE links[s[k]].available > 0
    <3>1. f[k] = Append(f[k - 1], s[k])
      BY <1>3, <2>4
    <3>2. Total(Available(links, f[k])) = sum[k]
      <4>1. /\ Available(links, f[k - 1]) \in Seq(Nat)
            /\ Available(links, f[k])
                 = Append(Available(links, f[k - 1]), links[s[k]].available)
        BY <2>1, <3>1, AvailableOfAppend
      <4>2. Total(Available(links, f[k]))
              = Total(Available(links, f[k - 1])) + links[s[k]].available
        BY <2>3, <4>1, TotalOfAppend
      <4>3. QED
        BY <2>2, <2>3, <4>2
    <3>3. \A i \in DOMAIN f[k] : links[f[k][i]].available > 0
      BY <2>1, <2>2, <2>4, <3>1
    <3>4. QED
      BY <2>1, <3>2, <3>3
  <2>5. CASE ~(links[s[k]].available > 0)
    <3>1. f[k] = f[k - 1] /\ sum[k] = sum[k - 1]
      BY <1>3, <2>1, <2>3, <2>5
    <3>2. QED
      BY <2>1, <2>2, <3>1
  <2>6. QED
    BY <2>4, <2>5
<1>7. n \in S /\ f[n] \in Seq(Suppliers)
  <2> HIDE DEF S
  <2>1. \A k \in 0..n : k \in S
    BY <1>1, <1>5, <1>6, Induction
  <2>2. QED
    BY <1>1, <1>3, <2>1
<1>8. QED
  BY <1>3, <1>4, <1>7 DEF s

-----------------------------------------------------------------------------
(* The greedy split. *)

Split == [remaining : Nat, taken : Seq(Allocation)]

Take(links, s, acc) ==
  IF acc.remaining = 0 THEN acc
  ELSE LET q == Least(acc.remaining, links[s].available)
       IN [remaining |-> acc.remaining - q,
           taken |-> Append(acc.taken, [supplier |-> s, quantity |-> q])]

LEMMA TakeIsSplit ==
  ASSUME NEW links \in [Suppliers -> Link], NEW s \in Suppliers, NEW acc \in Split
  PROVE  Take(links, s, acc) \in Split
<1> DEFINE q == Least(acc.remaining, links[s].available)
<1>1. acc.remaining \in Nat /\ acc.taken \in Seq(Allocation)
  BY DEF Split
<1>2. q \in Nat /\ q <= acc.remaining
  BY <1>1, AvailableIsNat, LeastOf
<1> HIDE DEF q
<1>3. acc.remaining - q \in Nat
  BY <1>1, <1>2
<1>4. [supplier |-> s, quantity |-> q] \in Allocation
  BY <1>2 DEF Allocation
<1>5. Append(acc.taken, [supplier |-> s, quantity |-> q]) \in Seq(Allocation)
  BY <1>1, <1>4
<1>6. QED
  BY <1>3, <1>5 DEF Take, Split, q

LEMMA SplitSteps ==
  ASSUME NEW links \in [Suppliers -> Link], NEW s \in Seq(Suppliers),
         NEW needed \in Nat
  PROVE  \E f \in [0..Len(s) -> Split] :
           /\ f[0] = [remaining |-> needed, taken |-> <<>>]
           /\ \A k \in 1..Len(s) : f[k] = Take(links, s[k], f[k - 1])
           /\ SplitAllocations(links, s, needed) = f[Len(s)]
<1> DEFINE F == [x \in (1..Len(s)) \X Split |-> Take(links, s[x[1]], x[2])]
           none == [remaining |-> needed, taken |-> <<>>]
           serve == CHOOSE g : g = [t \in SUBSET DOMAIN s |->
                      IF t = {} THEN none
                      ELSE Take(links, s[Max(t)], g[t \ {Max(t)}])]
<1>1. /\ Len(s) \in Nat /\ DOMAIN s = 1..Len(s) /\ none \in Split
      /\ F \in [(1..Len(s)) \X Split -> Split]
      /\ \A k \in 1..Len(s) : \A x \in Split : F[<<k, x>>] = Take(links, s[k], x)
  <2>1. \A k \in 1..Len(s) : s[k] \in Suppliers
    OBVIOUS
  <2>2. none \in Split
    BY DEF Split
  <2>3. \A k \in 1..Len(s) : \A x \in Split : Take(links, s[k], x) \in Split
    BY <2>1, TakeIsSplit
  <2>4. QED
    BY <2>2, <2>3
<1>2. SplitAllocations(links, s, needed) = serve[DOMAIN s]
  BY DEF SplitAllocations, Take, FoldLeft, MapThenFoldSet
<1> HIDE DEF F, none
<1>3. PICK g \in [SUBSET (1..Len(s)) -> Split] : Folding(g, Len(s), none, F)
  BY <1>1, Recursion
<1>4. g = [t \in SUBSET DOMAIN s |->
             IF t = {} THEN none ELSE Take(links, s[Max(t)], g[t \ {Max(t)}])]
  <2>1. ASSUME NEW t \in SUBSET (1..Len(s)), t # {}
        PROVE  F[<<Max(t), g[t \ {Max(t)}]>>] = Take(links, s[Max(t)], g[t \ {Max(t)}])
    <3>1. Max(t) \in 1..Len(s)
      BY <1>1, <2>1, MaxIsIn
    <3>2. g[t \ {Max(t)}] \in Split
      BY <1>3
    <3>3. QED
      BY <1>1, <3>1, <3>2
  <2>2. QED
    BY <1>1, <1>3, <2>1 DEF Folding
<1>5. serve = [t \in SUBSET DOMAIN s |->
                 IF t = {} THEN none
                 ELSE Take(links, s[Max(t)], serve[t \ {Max(t)}])]
  BY <1>4
<1> HIDE DEF serve
<1>6. PICK f \in [0..Len(s) -> Split] : Steps(f, serve, Len(s), none, F)
  <2>1. serve[{}] = none
    BY <1>5
  <2>2. ASSUME NEW t \in (SUBSET (1..Len(s))) \ {{}}, serve[t \ {Max(t)}] \in Split
        PROVE  serve[t] = F[<<Max(t), serve[t \ {Max(t)}]>>]
    <3>1. Max(t) \in 1..Len(s)
      BY <1>1, <2>2, MaxIsIn
    <3>2. QED
      BY <1>1, <1>5, <2>2, <3>1
  <2>3. Unfolds(serve, Len(s), Split, none, F)
    BY <2>1, <2>2 DEF Unfolds
  <2>4. QED
    BY <1>1, <2>3, PrefixSteps
<1>7. ASSUME NEW k \in 1..Len(s) PROVE f[k] = Take(links, s[k], f[k - 1])
  <2>1. k - 1 \in 0..Len(s)
    BY <1>1
  <2>2. f[k - 1] \in Split
    BY <1>6, <2>1
  <2>3. QED
    BY <1>1, <1>6, <2>2 DEF Steps
<1>8. f[0] = none /\ SplitAllocations(links, s, needed) = f[Len(s)]
  BY <1>1, <1>2, <1>6 DEF Steps
<1>9. QED
  BY <1>7, <1>8 DEF none

(* What a split has taken so far of suppliers that together have "total".  *)
SplitOK(links, needed, total, acc) ==
  LET bought == Total(Amounts(acc.taken))
  IN /\ acc.remaining + bought = needed
     /\ bought <= total
     /\ acc.remaining > 0 => bought = total
     /\ \A i \in DOMAIN acc.taken :
          LET x == acc.taken[i]
          IN /\ x.quantity \in 1..links[x.supplier].available
             /\ i < Len(acc.taken) \/ acc.remaining > 0 =>
                  x.quantity = links[x.supplier].available

LEMMA TakeKeepsSplit ==
  ASSUME NEW links \in [Suppliers -> Link], NEW s \in Suppliers, NEW acc \in Split,
         NEW needed \in Nat, NEW total \in Nat,
         SplitOK(links, needed, total, acc), links[s].available > 0
  PROVE  /\ SplitOK(links, needed, total + links[s].available, Take(links, s, acc))
         /\ needed > 0 => Take(links, s, acc).taken # <<>>
<1> DEFINE av  == links[s].available
           rem == acc.remaining
           q   == Least(rem, av)
           x   == [supplier |-> s, quantity |-> q]
           old == acc.taken
           b   == Total(Amounts(old))
           new == Append(old, x)
           Item(y, last) == /\ y.quantity \in 1..links[y.supplier].available
                            /\ last => y.quantity = links[y.supplier].available
<1>1. av \in Nat /\ rem \in Nat /\ old \in Seq(Allocation) /\ av > 0
  BY AvailableIsNat DEF Split
<1>2. b \in Nat
  <2>1. PICK y \in Allocation : y = [supplier |-> s, quantity |-> 0]
    BY DEF Allocation
  <2>2. Amounts(old) \in Seq(Nat)
    BY <1>1, <2>1, AmountsOfAppend
  <2>3. QED
    BY <2>2, TotalIsNat
<1>3. /\ rem + b = needed /\ b <= total /\ (rem > 0 => b = total)
      /\ \A i \in DOMAIN old : Item(old[i], i < Len(old) \/ rem > 0)
  BY DEF SplitOK
<1>4. CASE rem = 0
  <2>1. Take(links, s, acc) = acc
    BY <1>4 DEF Take
  <2>2. b <= total + av
    BY <1>1, <1>2, <1>3
  <2>3. SplitOK(links, needed, total + av, acc)
    BY <1>3, <1>4, <2>2 DEF SplitOK
  <2>4. needed > 0 => old # <<>>
    <3>1. ASSUME needed > 0, old = <<>> PROVE FALSE
      <4>1. Amounts(old) = <<>>
        BY <3>1 DEF Amounts
      <4>2. QED
        BY <1>1, <1>3, <1>4, <3>1, <4>1, TotalOfNothing
    <3>2. QED
      BY <3>1
  <2>5. QED
    BY <2>1, <2>3, <2>4
<1>5. CASE rem # 0
  <2>1. q \in 1..av /\ q <= rem /\ (q = rem \/ q = av) /\ rem - q \in Nat
    BY <1>1, <1>5 DEF Least
  <2>2. Take(links, s, acc) = [remaining |-> rem - q, taken |-> new]
    BY <1>5 DEF Take
  <2> HIDE DEF q
  <2>3. x \in Allocation
    BY <2>1 DEF Allocation
  <2>4. Total(Amounts(new)) = b + q
    <3>1. /\ Amounts(old) \in Seq(Nat)
          /\ Amounts(new) = Append(Amounts(old), x.quantity)
      BY <1>1, <2>3, AmountsOfAppend
    <3>2. x.quantity = q /\ q \in Nat
      BY <2>1
    <3>3. QED
      BY <3>1, <3>2, TotalOfAppend
  <2>5. /\ (rem - q) + (b + q) = needed
        /\ b + q <= total + av
        /\ rem - q > 0 => b + q = total + av
    BY <1>1, <1>2, <1>3, <1>5, <2>1
  <2>6. ASSUME NEW i \in DOMAIN new PROVE Item(new[i], i < Len(new) \/ rem - q > 0)
    <3>1. /\ Len(old) \in Nat /\ DOMAIN new = 1..(Len(old) + 1)
          /\ Len(new) = Len(old) + 1 /\ DOMAIN old = 1..Len(old)
      BY <1>1
    <3>2. CASE i <= Len(old)
      <4>1. i \in DOMAIN old /\ new[i] = old[i]
        BY <1>1, <3>1, <3>2
      <4>2. QED
        BY <1>1, <1>3, <1>5, <4>1
    <3>3. CASE ~(i <= Len(old))
      <4>1. i = Len(old) + 1 /\ new[i] = x
        BY <1>1, <3>1, <3>3
      <4>2. ~(i < Len(new)) /\ (rem - q > 0 => q = av)
        BY <1>1, <2>1, <3>1, <4>1
      <4>3. QED
        BY <2>1, <4>1, <4>2
    <3>4. QED
      BY <3>2, <3>3
  <2>7. new # <<>>
    <3>1. Len(new) = Len(old) + 1 /\ Len(old) \in Nat
      BY <1>1
    <3>2. Len(new) # 0
      BY <3>1
    <3> HIDE DEF new
    <3>3. QED
      BY <3>2
  <2> HIDE DEF new, b, av, rem
  <2>8. SplitOK(links, needed, total + av, [remaining |-> rem - q, taken |-> new])
    BY <2>4, <2>5, <2>6 DEF SplitOK
  <2>9. QED
    BY <2>2, <2>7, <2>8 DEF av
<1>6. QED
  BY <1>4, <1>5

LEMMA SplitAddsUp ==
  ASSUME NEW links \in [Suppliers -> Link], NEW s \in Seq(Suppliers), s # <<>>,
         NEW needed \in Nat, needed > 0,
         \A i \in DOMAIN s : links[s[i]].available > 0
  PROVE  LET split == SplitAllocations(links, s, needed)
         IN /\ split \in Split
            /\ split.taken # <<>>
            /\ SplitOK(links, needed, Total(Available(links, s)), split)
<1> DEFINE n == Len(s)
<1>1. /\ n \in Nat /\ n # 0 /\ \A k \in 1..n : s[k] \in Suppliers /\ links[s[k]].available > 0
      /\ Available(links, s) \in Seq(Nat) /\ Len(Available(links, s)) = n
      /\ \A k \in 1..n : Available(links, s)[k] = links[s[k]].available
  <2>1. \A k \in DOMAIN s : links[s[k]].available \in Nat
    BY AvailableIsNat
  <2>2. QED
    BY <2>1 DEF Available
<1>2. PICK f \in [0..n -> Split] :
        /\ f[0] = [remaining |-> needed, taken |-> <<>>]
        /\ \A k \in 1..n : f[k] = Take(links, s[k], f[k - 1])
        /\ SplitAllocations(links, s, needed) = f[n]
  BY SplitSteps
<1> HIDE DEF n
<1>3. PICK sum \in [0..n -> Nat] :
        /\ sum[0] = 0
        /\ \A k \in 1..n : sum[k] = sum[k - 1] + Available(links, s)[k]
        /\ Total(Available(links, s)) = sum[n]
  BY <1>1, TotalSteps
<1> DEFINE S == {k \in 0..n : /\ SplitOK(links, needed, sum[k], f[k])
                              /\ k # 0 => f[k].taken # <<>>}
<1>4. 0 \in S
  <2>1. SplitOK(links, needed, 0, [remaining |-> needed, taken |-> <<>>])
    <3>1. Amounts(<<>>) = <<>>
      BY DEF Amounts
    <3>2. QED
      BY <3>1, TotalOfNothing DEF SplitOK
  <2>2. QED
    BY <1>1, <1>2, <1>3, <2>1
<1>5. ASSUME NEW k \in 1..n, k - 1 \in S PROVE k \in S
  <2>1. /\ k - 1 \in 0..n /\ k \in 0..n /\ f[k - 1] \in Split
        /\ sum[k - 1] \in Nat /\ s[k] \in Suppliers
        /\ links[s[k]].available > 0
    BY <1>1, <1>2, <1>3
  <2>2. SplitOK(links, needed, sum[k - 1], f[k - 1])
    BY <1>5
  <2>3. /\ sum[k] = sum[k - 1] + links[s[k]].available
        /\ f[k] = Take(links, s[k], f[k - 1])
    BY <1>1, <1>2, <1>3
  <2>4. SplitOK(links, needed, sum[k], f[k]) /\ f[k].taken # <<>>
    BY <2>1, <2>2, <2>3, TakeKeepsSplit
  <2>5. QED
    BY <2>1, <2>4
<1>6. n \in S
  <2> HIDE DEF S
  <2>1. \A k \in 0..n : k \in S
    BY <1>1, <1>4, <1>5, Induction
  <2>2. QED
    BY <1>1, <2>1
<1>7. n \in 0..n
  BY <1>1
<1>8. QED
  BY <1>1, <1>2, <1>3, <1>6, <1>7

-----------------------------------------------------------------------------
(* The suggestions of the rules. *)

LEMMA NeededIsPositive ==
  ASSUME NEW a \in Analysis
  PROVE  NeededUnits(a) \in Nat /\ NeededUnits(a) >= 50
BY DEF Analysis, NeededUnits, Greatest

LEMMA EmergencyPlanOK ==
  ASSUME NEW links \in [Suppliers -> Link], NEW best \in Suppliers,
         NEW needed \in Nat
  PROVE  LET p == EmergencyPlan(links, best, needed)
         IN p \in Suggestion /\ p.score <= 9640
<1>1. links[best].quality \in 0..100 /\ links[best].reliability \in 0..100
  BY DEF Link
<1>2. /\ 40 * links[best].quality + 30 * links[best].reliability + 2640 \in Nat
      /\ 40 * links[best].quality + 30 * links[best].reliability + 2640 <= 9640
  <2>1. \A q, r \in 0..100 : /\ 40 * q + 30 * r + 2640 \in Nat
                             /\ 40 * q + 30 * r + 2640 <= 9640
    OBVIOUS
  <2>2. PICK q \in 0..100 : q = links[best].quality
    BY <1>1
  <2>3. PICK r \in 0..100 : r = links[best].reliability
    BY <1>1
  <2>4. /\ 40 * q + 30 * r + 2640 \in Nat
        /\ 40 * q + 30 * r + 2640 <= 9640
    BY <2>1
  <2>5. QED
    BY <2>2, <2>3, <2>4
<1>3. <<[supplier |-> best, quantity |-> needed]>> \in Seq(Allocation)
  BY DEF Allocation
<1>4. QED
  BY <1>2, <1>3 DEF EmergencyPlan, Suggestion, PlanTypes

LEMMA SplitPlanOK ==
  ASSUME NEW links \in [Suppliers -> Link], NEW s \in Seq(Suppliers),
         NEW needed \in Nat,
         SplitAllocations(links, s, needed) \in Split,
         SplitAllocations(links, s, needed).taken # <<>>,
         SplitAllocations(links, s, needed).remaining <= needed
  PROVE  SplitPlan(links, s, needed) \in Suggestion
<1> DEFINE split == SplitAllocations(links, s, needed)
<1> HIDE DEF split
<1>1. /\ split.taken \in Seq(Allocation) /\ split.taken # <<>>
      /\ split.remaining \in Nat /\ split.remaining <= needed
  BY DEF Split, split
<1>2. Head(split.taken) \in Allocation
  BY <1>1
<1>3. Head(split.taken).supplier \in Suppliers
  BY <1>2 DEF Allocation
<1>4. needed - split.remaining \in Nat
  BY <1>1
<1>5. SplitPlan(links, s, needed)
        = [type |-> "SPLIT_SOURCING", supplier |-> Head(split.taken).supplier,
           quantity |-> needed - split.remaining, allocations |-> split.taken,
           coherent |-> TRUE, rules |-> TRUE, score |-> 9000]
  BY DEF SplitPlan, split
<1>6. QED
  BY <1>1, <1>3, <1>4, <1>5 DEF Suggestion, PlanTypes

(* What one of several suppliers has is no more than all of them have. *)
LEMMA FirstHasAtMostAll ==
  ASSUME NEW links \in [Suppliers -> Link], NEW s \in Seq(Suppliers), s # <<>>
  PROVE  links[Head(s)].available <= Total(Available(links, s))
<1> DEFINE n == Len(s)
<1>1. /\ n \in Nat /\ n # 0 /\ s[1] \in Suppliers /\ Head(s) = s[1]
      /\ Available(links, s) \in Seq(Nat) /\ Len(Available(links, s)) = n
      /\ Available(links, s)[1] = links[s[1]].available
      /\ \A k \in 1..n : Available(links, s)[k] \in Nat
  <2>1. \A k \in DOMAIN s : links[s[k]].available \in Nat
    BY AvailableIsNat
  <2>2. QED
    BY <2>1 DEF Available
<1> HIDE DEF n
<1>2. PICK sum \in [0..n -> Nat] :
        /\ sum[0] = 0
        /\ \A k \in 1..n : sum[k] = sum[k - 1] + Available(links, s)[k]
        /\ Total(Available(links, s)) = sum[n]
  BY <1>1, TotalSteps
<1> DEFINE S == {k \in 0..n : k # 0 => links[s[1]].available <= sum[k]}
<1>3. 0 \in S
  BY <1>1
<1>4. ASSUME NEW k \in 1..n, k - 1 \in S PROVE k \in S
  <2>1. /\ k - 1 \in 0..n /\ k \in 0..n /\ sum[k - 1] \in Nat
        /\ Available(links, s)[k] \in Nat /\ links[s[1]].available \in Nat
    BY <1>1, <1>2, AvailableIsNat
  <2>2. sum[k] = sum[k - 1] + Available(links, s)[k]
    BY <1>2
  <2>3. CASE k = 1
    BY <1>1, <1>2, <2>1, <2>2, <2>3
  <2>4. CASE k # 1
    <3>1. links[s[1]].available <= sum[k - 1]
      BY <1>4, <2>1, <2>4
    <3>2. QED
      BY <2>1, <2>2, <3>1
  <2>5. QED
    BY <2>3, <2>4
<1>5. n \in S
  <2> HIDE DEF S
  <2>1. \A k \in 0..n : k \in S
    BY <1>1, <1>3, <1>4, Induction
  <2>2. QED
    BY <1>1, <2>1
<1>6. QED
  BY <1>1, <1>2, <1>5

LEMMA PurchaseAddsUp ==
  ASSUME NEW links \in [Suppliers -> Link], NEW a \in Analysis,
         Qualified(links, a) # <<>>
  PROVE  LET p == PurchasePlan(links, Qualified(links, a), NeededUnits(a))
         IN /\ p \in Suggestion
            /\ p.rules /\ p.supplier \in Suppliers /\ p.score <= 9640
            /\ p.allocations # <<>>
            /\ BuysEnough(links, p, a)
<1> DEFINE s      == Qualified(links, a)
           needed == NeededUnits(a)
           all    == Total(Available(links, s))
<1>1. /\ s \in Seq(Suppliers) /\ s # <<>>
      /\ \A i \in DOMAIN s : links[s[i]].available > 0
      /\ all = Total(Available(links, a.ranking))
  BY QualifiedHaveAll
<1>2. needed \in Nat /\ needed >= 50
  BY NeededIsPositive
<1> HIDE DEF s, needed
<1>3. all \in Nat
  <2>1. Available(links, s) \in Seq(Nat)
    <3>1. \A k \in DOMAIN s : links[s[k]].available \in Nat
      BY <1>1, AvailableIsNat
    <3>2. QED
      BY <1>1, <3>1 DEF Available
  <2>2. QED
    BY <2>1, TotalIsNat
<1>4. CASE links[Head(s)].available >= needed
  <2>1. Head(s) \in Suppliers /\ links[Head(s)].available \in Nat
    BY <1>1, AvailableIsNat
  <2>2. links[Head(s)].available <= all
    BY <1>1, FirstHasAtMostAll
  <2> DEFINE p == EmergencyPlan(links, Head(s), needed)
             x == [supplier |-> Head(s), quantity |-> needed]
  <2>3. PurchasePlan(links, s, needed) = p
    BY <1>4 DEF PurchasePlan
  <2>4. p \in Suggestion /\ p.score <= 9640
    BY <1>2, <2>1, EmergencyPlanOK
  <2>5. /\ p.rules /\ p.supplier = Head(s) /\ p.quantity = needed
        /\ p.allocations = <<x>>
    BY DEF EmergencyPlan
  <2>6. Total(Amounts(<<x>>)) = needed
    <3>1. Amounts(<<x>>) = <<needed>>
      BY DEF Amounts
    <3>2. <<needed>> = Append(<<>>, needed) /\ <<>> \in Seq(Nat)
      OBVIOUS
    <3>3. Total(<<needed>>) = 0 + needed
      BY <1>2, <3>2, TotalOfAppend, TotalOfNothing
    <3>4. QED
      BY <1>2, <3>1, <3>3
  <2>7. Least(needed, all) = needed
    BY <1>2, <1>3, <1>4, <2>1, <2>2 DEF Least
  <2>8. needed \in 1..links[Head(s)].available
    BY <1>2, <1>4, <2>1
  <2> HIDE DEF p
  <2>9. BuysEnough(links, p, a)
    BY <1>1, <2>5, <2>6, <2>7, <2>8 DEF BuysEnough, needed
  <2>10. <<x>> # <<>>
    OBVIOUS
  <2>11. QED
    BY <2>1, <2>3, <2>4, <2>5, <2>9, <2>10 DEF s, needed
<1>5. CASE ~(links[Head(s)].available >= needed)
  <2> DEFINE split == SplitAllocations(links, s, needed)
             p     == SplitPlan(links, s, needed)
             b     == Total(Amounts(split.taken))
  <2>1. /\ split \in Split /\ split.taken # <<>>
        /\ SplitOK(links, needed, all, split)
    BY <1>1, <1>2, SplitAddsUp
  <2>2. PurchasePlan(links, s, needed) = p
    BY <1>5 DEF PurchasePlan
  <2>3. /\ p.rules /\ p.supplier = Head(split.taken).supplier /\ p.score = 9000
        /\ p.quantity = needed - split.remaining /\ p.allocations = split.taken
    BY DEF SplitPlan
  <2> HIDE DEF p, split
  <2>4. /\ split.remaining \in Nat /\ split.taken \in Seq(Allocation)
        /\ Head(split.taken) \in Allocation
    BY <2>1 DEF Split
  <2>5. b \in Nat
    <3>1. Amounts(split.taken) \in Seq(Nat)
      BY <2>4, AmountsOfAppend
    <3>2. QED
      BY <3>1, TotalIsNat
  <2>6. /\ split.remaining + b = needed /\ b <= all
        /\ split.remaining > 0 => b = all
    BY <2>1 DEF SplitOK
  <2>7. p.quantity = b /\ p.quantity = Least(needed, all)
    BY <1>2, <1>3, <2>3, <2>4, <2>5, <2>6 DEF Least
  <2>8. p \in Suggestion
    BY <1>1, <1>2, <2>1, <2>4, <2>5, <2>6, SplitPlanOK DEF p, split
  <2>9. \A i \in DOMAIN split.taken :
          /\ split.taken[i].quantity \in 1..links[split.taken[i].supplier].available
          /\ i < Len(split.taken) => split.taken[i].quantity
                                      = links[split.taken[i].supplier].available
    BY <2>1 DEF SplitOK
  <2>10. BuysEnough(links, p, a)
    BY <1>1, <2>3, <2>7, <2>9 DEF BuysEnough, needed
  <2>11. p.supplier \in Suppliers
    BY <2>3, <2>4 DEF Allocation
  <2>12. QED
    BY <2>1, <2>2, <2>3, <2>8, <2>10, <2>11 DEF s, needed
<1>6. QED
  BY <1>4, <1>5

LEMMA InternalPlanOK ==
  ASSUME NEW type \in PlanTypes, NEW score \in Nat, score >= 9100
  PROVE  LET p == InternalPlan(type, score)
         IN p \in Suggestion /\ p.rules /\ Internal(p) /\ p.score = score
<1>1. <<>> \in Seq(Allocation)
  OBVIOUS
<1>2. QED
  BY <1>1 DEF InternalPlan, Suggestion, Internal

(* What the rules suggest for a disruption. *)
LEMMA SuggestionsOK ==
  ASSUME NEW links \in [Suppliers -> Link], NEW a \in Analysis,
         Absent \notin Suppliers
  PROVE  LET todo == Suggestions(links, a)
         IN /\ todo \in Seq(Suggestion) /\ todo # <<>> /\ Len(todo) <= 2
            /\ \A i \in DOMAIN todo :
                 /\ todo[i].rules
                 /\ RulesScore(todo[i])
                 /\ todo[i].allocations # <<>> => BuysEnough(links, todo[i], a)
            /\ \A i, j \in DOMAIN todo :
                 Purchase(todo[i]) /\ Purchase(todo[j]) => i = j
<1> DEFINE p == PurchasePlan(links, Qualified(links, a), NeededUnits(a))
           q == InternalPlan("PRODUCTION_ADJUSTMENT", 9350)
           m == InternalPlan("MONITORING", 9100)
           Good(x) == /\ x.rules
                      /\ RulesScore(x)
                      /\ x.allocations # <<>> => BuysEnough(links, x, a)
<1>1. q \in Suggestion /\ Good(q) /\ ~Purchase(q)
  <2>1. "PRODUCTION_ADJUSTMENT" \in PlanTypes
    BY DEF PlanTypes
  <2>2. q \in Suggestion /\ q.rules /\ Internal(q) /\ q.score = 9350
    BY <2>1, InternalPlanOK
  <2> HIDE DEF q
  <2>3. QED
    BY <2>2 DEF RulesScore, Internal, Purchase
<1>2. m \in Suggestion /\ Good(m) /\ ~Purchase(m)
  <2>1. "MONITORING" \in PlanTypes
    BY DEF PlanTypes
  <2>2. m \in Suggestion /\ m.rules /\ Internal(m) /\ m.score = 9100
    BY <2>1, InternalPlanOK
  <2> HIDE DEF m
  <2>3. QED
    BY <2>2 DEF RulesScore, Internal, Purchase
<1>3. Qualified(links, a) # <<>> => p \in Suggestion /\ Good(p)
  <2>1. HAVE Qualified(links, a) # <<>>
  <2>2. /\ p \in Suggestion /\ p.rules /\ p.supplier \in Suppliers
        /\ p.score <= 9640 /\ BuysEnough(links, p, a)
    BY <2>1, PurchaseAddsUp
  <2> HIDE DEF p
  <2>3. QED
    BY <2>2 DEF RulesScore
<1>4. Suggestions(links, a) =
        IF Qualified(links, a) = <<>>
        THEN IF Reschedules(a) THEN <<q>> ELSE <<m>>
        ELSE IF Reschedules(a) THEN <<p, q>> ELSE <<p>>
  <2>1. ASSUME NEW x, NEW y
        PROVE  /\ <<x>> \o <<y>> = <<x, y>> /\ <<x>> \o <<>> = <<x>>
               /\ <<>> \o <<y>> = <<y>> /\ <<x, y>> # <<>> /\ <<x>> # <<>>
    <3>1. <<x>> \o <<y>> = <<x, y>>
      <4>1. x \in {x, y} /\ y \in {x, y} /\ <<x>> \in Seq({x, y})
        OBVIOUS
      <4>2. Append(<<x>>, y) = <<x>> \o <<y>>
        BY <4>1, AppendIsConcat
      <4>3. <<x>> \o <<y>> \in Seq({x, y}) /\ <<x, y>> \in Seq({x, y})
        BY <4>1
      <4>4. /\ Len(<<x>> \o <<y>>) = 2 /\ Len(<<x, y>>) = 2
            /\ (<<x>> \o <<y>>)[1] = x /\ (<<x>> \o <<y>>)[2] = y
        BY <4>1
      <4>5. \A i \in 1..2 : (<<x>> \o <<y>>)[i] = <<x, y>>[i]
        BY <4>4
      <4>6. QED
        BY <4>3, <4>4, <4>5, SeqEqual
    <3>2. <<x>> \in Seq({x}) /\ <<y>> \in Seq({y})
      OBVIOUS
    <3>3. <<x>> \o <<>> = <<x>> /\ <<>> \o <<y>> = <<y>>
      BY <3>2, ConcatEmptySeq
    <3>4. Len(<<x>>) = 1 /\ Len(<<x, y>>) = 2 /\ Len(<<>>) = 0
      OBVIOUS
    <3>5. QED
      BY <3>1, <3>3, <3>4
  <2>2. <<>> \o <<>> = <<>>
    OBVIOUS
  <2>3. CASE Qualified(links, a) = <<>> /\ Reschedules(a)
    BY <2>1, <2>3 DEF Suggestions
  <2>4. CASE Qualified(links, a) = <<>> /\ ~Reschedules(a)
    BY <2>2, <2>4 DEF Suggestions
  <2>5. CASE Qualified(links, a) # <<>> /\ Reschedules(a)
    BY <2>1, <2>5 DEF Suggestions
  <2>6. CASE Qualified(links, a) # <<>> /\ ~Reschedules(a)
    BY <2>1, <2>6 DEF Suggestions
  <2>7. QED
    BY <2>3, <2>4, <2>5, <2>6
<1> HIDE DEF p, q, m, Good
<1>5. ASSUME NEW x \in Suggestion, Good(x), Suggestions(links, a) = <<x>>
      PROVE  LET todo == Suggestions(links, a)
             IN /\ todo \in Seq(Suggestion) /\ todo # <<>> /\ Len(todo) <= 2
                /\ \A i \in DOMAIN todo : Good(todo[i])
                /\ \A i, j \in DOMAIN todo :
                     Purchase(todo[i]) /\ Purchase(todo[j]) => i = j
  BY <1>5
<1>6. ASSUME p \in Suggestion, Good(p), Suggestions(links, a) = <<p, q>>
      PROVE  LET todo == Suggestions(links, a)
             IN /\ todo \in Seq(Suggestion) /\ todo # <<>> /\ Len(todo) <= 2
                /\ \A i \in DOMAIN todo : Good(todo[i])
                /\ \A i, j \in DOMAIN todo :
                     Purchase(todo[i]) /\ Purchase(todo[j]) => i = j
  <2>1. <<p, q>> \in Seq(Suggestion) /\ DOMAIN <<p, q>> = {1, 2} /\ Len(<<p, q>>) = 2
    BY <1>1, <1>6
  <2>2. QED
    BY <1>1, <1>6, <2>1
<1>7. LET todo == Suggestions(links, a)
      IN /\ todo \in Seq(Suggestion) /\ todo # <<>> /\ Len(todo) <= 2
         /\ \A i \in DOMAIN todo : Good(todo[i])
         /\ \A i, j \in DOMAIN todo :
              Purchase(todo[i]) /\ Purchase(todo[j]) => i = j
  BY <1>1, <1>2, <1>3, <1>4, <1>5, <1>6
<1>8. QED
  BY <1>7 DEF Good

-----------------------------------------------------------------------------
(* The analysis of a disruption. *)

LEMMA HalfEvenIsNat ==
  ASSUME NEW n \in Nat, NEW d \in Nat \ {0}
  PROVE  HalfEven(n, d) \in Nat
<1>1. n \div d \in Nat
  OBVIOUS
<1>2. QED
  BY <1>1 DEF HalfEven

LEMMA HalvedScore ==
  ASSUME NEW n \in Nat
  PROVE  /\ HalfEven(n, 2) \in Nat
         /\ n <= 9640 => HalfEven(n, 2) <= 4820
BY DEF HalfEven

LEMMA RankingIsSeq ==
  ASSUME NEW links \in [Suppliers -> Link], NEW quantity \in Nat,
         IsFiniteSet(Suppliers)
  PROVE  Rankings(links, quantity) \subseteq Seq(Suppliers)
<1> DEFINE passing == {s \in Suppliers : PassesHardFilters(links[s], quantity)}
<1>1. Cardinality(passing) \in Nat
  BY FS_Subset, FS_CardinalityType
<1>2. SetToSeqs(passing) \subseteq Seq(passing)
  <2> HIDE DEF passing
  <2>1. \A f \in [1..Cardinality(passing) -> passing] : f \in Seq(passing)
    BY <1>1
  <2>2. SetToSeqs(passing) \subseteq [1..Cardinality(passing) -> passing]
    BY DEF SetToSeqs
  <2>3. QED
    BY <2>1, <2>2
<1>3. Seq(passing) \subseteq Seq(Suppliers)
  OBVIOUS
<1>4. QED
  BY <1>2, <1>3 DEF Rankings

LEMMA AssessmentOK ==
  ASSUME NEW snap \in Snapshot, NEW ranking \in Seq(Suppliers)
  PROVE  Assess(snap, ranking) \in Analysis
<1>1. /\ snap.usable \in Nat /\ snap.rate7 \in Nat \ {0}
      /\ snap.rate30 \in Nat \ {0}
  BY DEF Snapshot
<1>2. Coverage(snap) \in Nat
  <2>1. 10 * snap.usable \in Nat
    BY <1>1
  <2>2. QED
    BY <1>1, <2>1, HalfEvenIsNat DEF Coverage
<1>3. RiskLevel(snap) \in RiskLevels
  BY DEF RiskLevel, RiskLevels
<1>4. QED
  BY <1>1, <1>2, <1>3 DEF Assess, Analysis

LEMMA NoAnalysisOK == NoAnalysis \in Analysis
BY DEF NoAnalysis, Analysis, RiskLevels

(* A plan for nobody outside the plant always validates. *)
LEMMA InternalIsValid ==
  ASSUME NEW links, NEW snap, NEW p, Internal(p)
  PROVE  PlanValid(links, snap, p)
BY DEF Internal, PlanValid

(* Whether a plan buys enough depends on what suppliers have, on nothing else. *)
LEMMA SameStockBuysEnough ==
  ASSUME NEW links \in [Suppliers -> Link], NEW others \in [Suppliers -> Link],
         \A s \in Suppliers : others[s].available = links[s].available,
         NEW a \in Analysis, NEW x, x.allocations \in Seq(Allocation),
         BuysEnough(links, x, a)
  PROVE  BuysEnough(others, x, a)
<1>1. Available(others, a.ranking) = Available(links, a.ranking)
  <2>1. a.ranking \in Seq(Suppliers)
    BY DEF Analysis
  <2>2. \A i \in DOMAIN a.ranking : a.ranking[i] \in Suppliers
    BY <2>1
  <2>3. QED
    BY <2>2 DEF Available
<1>2. \A i \in DOMAIN x.allocations : x.allocations[i].supplier \in Suppliers
  <2>1. \A i \in DOMAIN x.allocations : x.allocations[i] \in Allocation
    OBVIOUS
  <2>2. QED
    BY <2>1 DEF Allocation
<1>3. QED
  BY <1>1, <1>2 DEF BuysEnough

(* Python's max of a list that is not empty. *)
LEMMA FirstMaximum ==
  ASSUME NEW n \in Nat, n # 0, NEW f \in [1..n -> Nat]
  PROVE  \E i \in 1..n : \A j \in 1..n : f[j] <= f[i] /\ (j < i => f[j] < f[i])
<1> DEFINE First(i, k) ==
             \A j \in 1..k : f[j] <= f[i] /\ (j < i => f[j] < f[i])
           S == {k \in 0..n : k # 0 => \E i \in 1..k : First(i, k)}
<1>1. 0 \in S
  OBVIOUS
<1>2. ASSUME NEW k \in 1..n, k - 1 \in S PROVE k \in S
  <2>1. \A j \in 1..n : f[j] \in Nat
    OBVIOUS
  <2>2. CASE k = 1
    <3>1. First(1, 1) /\ 1 \in 1..1
      BY <2>1, <2>2
    <3>2. QED
      BY <2>2, <3>1
  <2>3. CASE k # 1
    <3>1. PICK i \in 1..(k - 1) : First(i, k - 1)
      BY <1>2, <2>3
    <3>2. CASE f[k] > f[i]
      <4>1. First(k, k)
        <5>1. ASSUME NEW j \in 1..k PROVE f[j] <= f[k] /\ (j < k => f[j] < f[k])
          <6>1. CASE j = k
            BY <2>1, <6>1
          <6>2. CASE j # k
            <7>1. j \in 1..(k - 1) /\ f[j] <= f[i]
              BY <3>1, <6>2
            <7>2. f[j] \in Nat /\ f[i] \in Nat /\ f[k] \in Nat
              BY <2>1
            <7>3. QED
              BY <3>2, <7>1, <7>2
          <6>3. QED
            BY <6>1, <6>2
        <5>2. QED
          BY <5>1
      <4>2. k \in 1..k /\ k \in 0..n
        OBVIOUS
      <4> HIDE DEF First
      <4>3. QED
        BY <4>1, <4>2
    <3>3. CASE ~(f[k] > f[i])
      <4>1. First(i, k)
        <5>1. ASSUME NEW j \in 1..k PROVE f[j] <= f[i] /\ (j < i => f[j] < f[i])
          <6>1. CASE j = k
            BY <2>1, <3>3, <6>1
          <6>2. CASE j # k
            <7>1. j \in 1..(k - 1)
              BY <6>2
            <7>2. QED
              BY <3>1, <7>1
          <6>3. QED
            BY <6>1, <6>2
        <5>2. QED
          BY <5>1
      <4>2. i \in 1..k /\ k \in 0..n
        OBVIOUS
      <4> HIDE DEF First
      <4>3. QED
        BY <4>1, <4>2
    <3>4. QED
      BY <3>2, <3>3
  <2>4. QED
    BY <2>2, <2>3
<1>3. n \in S
  <2> HIDE DEF S
  <2>1. \A k \in 0..n : k \in S
    BY <1>1, <1>2, Induction
  <2>2. QED
    BY <2>1
<1>4. QED
  BY <1>3
=============================================================================
