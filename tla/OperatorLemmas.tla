--------------------------- MODULE OperatorLemmas ---------------------------
(***************************************************************************)
(* Facts about the operators the models share, for the proofs to cite:     *)
(* least and greatest elements, folds over sequences, policy decisions.    *)
(* An induction is over a set of numbers here, for the library's induction *)
(* theorems take operators, which the provers cannot instantiate.          *)
(***************************************************************************)
EXTENDS Policy, FiniteSetsExt, WellFoundedInduction, TLAPS

-----------------------------------------------------------------------------
(* Least and greatest elements, and induction.                             *)

\* A non-empty set of naturals has a least element.
LEMMA LeastExists ==
  ASSUME NEW S, S \subseteq Nat, S # {}
  PROVE  \E n \in S : \A m \in S : n <= m
<1> DEFINE Less == OpToRel(<, Nat)
<1>1. \A x, y \in Nat : <<y, x>> \in Less <=> y < x
  BY DEF OpToRel
<1>2. IsWellFoundedOn(Less, Nat)
  BY NatLessThanWellFounded
<1> HIDE DEF Less
<1>3. PICK n \in S : \A m \in S : ~(<<m, n>> \in Less)
  BY <1>2, WFMin, Zenon
<1>4. ASSUME NEW m \in S  PROVE n <= m
  <2>1. n \in Nat /\ m \in Nat
    BY <1>3, <1>4
  <2>2. ~(m < n)
    BY <1>1, <1>3, <1>4, <2>1, Zenon
  <2> QED  BY <2>1, <2>2
<1> QED
  BY <1>3, <1>4, Zenon

\* A non-empty set of naturals with an upper bound has a greatest element.
LEMMA GreatestExists ==
  ASSUME NEW S, S \subseteq Nat, S # {}, NEW b \in Nat, \A x \in S : x <= b
  PROVE  \E n \in S : \A m \in S : m <= n
<1> DEFINE Bounds == {k \in Nat : \A x \in S : x <= k}
<1>1. PICK u \in Bounds : \A k \in Bounds : u <= k
  <2>1. Bounds \subseteq Nat /\ Bounds # {}
    OBVIOUS
  <2> HIDE DEF Bounds
  <2> QED  BY <2>1, LeastExists
<1>2. u \in S
  <2>1. SUFFICES ASSUME u \notin S  PROVE FALSE
    OBVIOUS
  <2>2. PICK x \in S : TRUE
    OBVIOUS
  <2>3. u - 1 \in Nat
    <3>1. x <= u /\ x # u /\ x \in Nat /\ u \in Nat
      BY <2>1, <2>2
    <3> QED  BY <3>1
  <2>4. ASSUME NEW y \in S  PROVE y <= u - 1
    <3>1. y <= u /\ y # u /\ y \in Nat /\ u \in Nat
      BY <2>1, <2>4
    <3> QED  BY <3>1
  <2> QED
    BY <1>1, <2>3, <2>4
<1> QED
  BY <1>1, <1>2


\* Induction over the natural numbers: a set that has 0 and, with each number,
\* its successor has them all.
LEMMA NaturalsInSet ==
  ASSUME NEW S, 0 \in S, \A n \in Nat : n \in S => n + 1 \in S
  PROVE  Nat \subseteq S
<1> DEFINE Missing == {n \in Nat : n \notin S}
<1>1. SUFFICES ASSUME Missing # {}  PROVE FALSE
  OBVIOUS
<1>2. PICK m \in Missing : \A n \in Missing : m <= n
  <2>1. Missing \subseteq Nat
    OBVIOUS
  <2> HIDE DEF Missing
  <2> QED  BY <1>1, <2>1, LeastExists
<1>3. m \in Nat /\ m # 0 /\ m - 1 \in Nat
  BY <1>2
<1>4. m - 1 \in S
  BY <1>2, <1>3
<1>5. (m - 1) + 1 \in S
  BY <1>3, <1>4
<1> QED
  BY <1>2, <1>3, <1>5

\* Two sequences of values that start alike and step alike end alike.
LEMMA ChainsAgree ==
  ASSUME NEW n \in Nat, NEW c, NEW d, c[0] = d[0],
         \A k \in 1..n : c[k - 1] = d[k - 1] => c[k] = d[k]
  PROVE  c[n] = d[n]
<1> DEFINE S == {k \in Nat : k <= n => c[k] = d[k]}
<1>1. 0 \in S
  OBVIOUS
<1>2. ASSUME NEW k \in Nat, k \in S  PROVE k + 1 \in S
  <2>1. k + 1 <= n => k + 1 \in 1..n /\ (k + 1) - 1 = k
    OBVIOUS
  <2> QED  BY <1>2, <2>1
<1>3. Nat \subseteq S
  <2> HIDE DEF S
  <2> QED  BY <1>1, <1>2, NaturalsInSet
<1> QED
  BY <1>3

\* A sequence of values that starts in a set and never steps out of it ends in it.
LEMMA ChainStays ==
  ASSUME NEW n \in Nat, NEW c, NEW A, c[0] \in A,
         \A k \in 1..n : c[k - 1] \in A => c[k] \in A
  PROVE  c[n] \in A
<1> DEFINE S == {k \in Nat : k <= n => c[k] \in A}
<1>1. 0 \in S
  OBVIOUS
<1>2. ASSUME NEW k \in Nat, k \in S  PROVE k + 1 \in S
  <2>1. k + 1 <= n => k + 1 \in 1..n /\ (k + 1) - 1 = k
    OBVIOUS
  <2> QED  BY <1>2, <2>1
<1>3. Nat \subseteq S
  <2> HIDE DEF S
  <2> QED  BY <1>1, <1>2, NaturalsInSet
<1> QED
  BY <1>3

\* The greatest of some of the first n positive numbers.
LEMMA MaxOfPositions ==
  ASSUME NEW n \in Nat, NEW t, t \subseteq 1..n, t # {}
  PROVE  Max(t) \in t /\ \A m \in t : m <= Max(t)
<1>1. t \subseteq Nat /\ \A m \in t : m <= n
  OBVIOUS
<1>2. PICK k \in t : \A m \in t : m <= k
  BY <1>1, GreatestExists
<1>3. \A m \in t : k >= m
  BY <1>1, <1>2
<1>4. Max(t) \in t /\ \A m \in t : Max(t) >= m
  BY <1>3, Zenon DEF Max
<1> QED
  BY <1>1, <1>4

\* Positions up to n + 1: the last is their greatest, the others are those up to n.
LEMMA LastPosition ==
  ASSUME NEW n \in Nat, NEW t, t \subseteq 1..(n+1)
  PROVE  /\ n + 1 \in t => Max(t) = n + 1
         /\ t \ {n + 1} \subseteq 1..n
<1>1. ASSUME n + 1 \in t  PROVE Max(t) = n + 1
  <2>1. n + 1 \in Nat /\ t # {}
    BY <1>1
  <2>2. Max(t) \in t /\ \A m \in t : m <= Max(t)
    BY <2>1, MaxOfPositions, Zenon
  <2>3. Max(t) \in 1..(n+1) /\ n + 1 <= Max(t)
    BY <1>1, <2>2
  <2> QED
    BY <2>3
<1> QED
  BY <1>1

LEMMA LastOfAll ==
  ASSUME NEW n \in Nat
  PROVE  /\ Max(1..(n+1)) = n + 1 /\ (1..(n+1)) \ {n + 1} = 1..n /\ 1..(n+1) # {}
<1>1. n + 1 \in 1..(n+1)
  OBVIOUS
<1>2. Max(1..(n+1)) = n + 1
  BY <1>1, LastPosition, Zenon
<1>3. \A x : x \in 1..(n+1) /\ x # n + 1 <=> x \in 1..n
  OBVIOUS
<1> QED
  BY <1>1, <1>2, <1>3

-----------------------------------------------------------------------------
(* Folds.                                                                  *)

(***************************************************************************)
(* FoldLeft is defined by recursion over the sets of positions of its      *)
(* sequence.  `step` is the folded operation, by position and value so far. *)
(***************************************************************************)
FoldsPositions(g, n, base, step) ==
  \A t \in SUBSET (1..n) : g[t] = IF t = {} THEN base ELSE step[<<Max(t), g[t \ {Max(t)}]>>]
Foldable(n, A, base, step) ==
  \E g \in [SUBSET (1..n) -> A] : FoldsPositions(g, n, base, step)

\* A solution for n positions extends to one more.
LEMMA FoldExtends ==
  ASSUME NEW A, NEW base \in A, NEW size \in Nat, NEW step \in [(1..size) \X A -> A],
         NEW n \in Nat, n + 1 <= size, Foldable(n, A, base, step)
  PROVE  Foldable(n + 1, A, base, step)
<1>1. PICK g \in [SUBSET (1..n) -> A] : FoldsPositions(g, n, base, step)
  BY DEF Foldable
<1> DEFINE more == 1..(n+1)
           h == [t \in SUBSET more |->
                   IF n + 1 \in t THEN step[<<n + 1, g[t \ {n + 1}]>>] ELSE g[t]]
<1>2. ASSUME NEW t \in SUBSET more
      PROVE  /\ t \ {n + 1} \in SUBSET (1..n) /\ t \ {n + 1} \in SUBSET more
             /\ n + 1 \in t => Max(t) = n + 1
             /\ n + 1 \notin t => t \in SUBSET (1..n)
  <2>1. t \subseteq 1..(n+1)
    OBVIOUS
  <2>2. (n + 1 \in t => Max(t) = n + 1) /\ t \ {n + 1} \subseteq 1..n
    BY <2>1, LastPosition, Zenon
  <2>3. n + 1 \notin t => t = t \ {n + 1}
    OBVIOUS
  <2> QED
    BY <2>2, <2>3
<1>3. n + 1 \in 1..size
  OBVIOUS
<1> HIDE DEF more
<1>4. h \in [SUBSET more -> A]
  <2>1. ASSUME NEW t \in SUBSET more
        PROVE  (IF n + 1 \in t THEN step[<<n + 1, g[t \ {n + 1}]>>] ELSE g[t]) \in A
    <3>1. CASE n + 1 \in t
      <4>1. g[t \ {n + 1}] \in A
        BY <1>2, <2>1
      <4>2. <<n + 1, g[t \ {n + 1}]>> \in (1..size) \X A
        BY <4>1, <1>3
      <4>3. step[<<n + 1, g[t \ {n + 1}]>>] \in A
        BY <4>2, Zenon
      <4> QED  BY <3>1, <4>3, Zenon
    <3>2. CASE n + 1 \notin t
      BY <1>2, <2>1, <3>2
    <3> QED  BY <3>1, <3>2
  <2> QED
    BY <2>1
<1>5. FoldsPositions(h, n + 1, base, step)
  <2>1. ASSUME NEW t \in SUBSET more
        PROVE  h[t] = IF t = {} THEN base ELSE step[<<Max(t), h[t \ {Max(t)}]>>]
    <3>1. CASE n + 1 \in t
      <4>1. Max(t) = n + 1 /\ t \ {n + 1} \in SUBSET more /\ n + 1 \notin t \ {n + 1}
        BY <1>2, <2>1, <3>1
      <4>2. h[t \ {n + 1}] = g[t \ {n + 1}]
        BY <4>1, Zenon
      <4>3. h[t] = step[<<n + 1, g[t \ {n + 1}]>>]
        BY <3>1, <2>1, Zenon
      <4>4. t # {}
        BY <3>1
      <4> HIDE DEF h
      <4> QED  BY <4>1, <4>2, <4>3, <4>4, Zenon
    <3>2. CASE n + 1 \notin t
      <4>1. t \in SUBSET (1..n)
        BY <1>2, <2>1, <3>2
      <4>2. h[t] = g[t]
        BY <2>1, <3>2, Zenon
      <4>3. g[t] = IF t = {} THEN base ELSE step[<<Max(t), g[t \ {Max(t)}]>>]
        BY <1>1, <4>1, Zenon DEF FoldsPositions
      <4>4. h[t \ {Max(t)}] = g[t \ {Max(t)}]
        <5>1. t \ {Max(t)} \in SUBSET more /\ n + 1 \notin t \ {Max(t)}
          BY <2>1, <3>2
        <5> QED  BY <5>1, Zenon
      <4> HIDE DEF h
      <4> QED  BY <4>2, <4>3, <4>4, Zenon
    <3> QED  BY <3>1, <3>2
  <2> HIDE DEF h
  <2> QED  BY <2>1 DEF more, FoldsPositions
<1> HIDE DEF h
<1> QED
  BY <1>4, <1>5 DEF Foldable, more

\* The recursion has a solution.
LEMMA FoldExists ==
  ASSUME NEW A, NEW base \in A, NEW size \in Nat, NEW step \in [(1..size) \X A -> A]
  PROVE  Foldable(size, A, base, step)
<1> DEFINE S == {n \in Nat : n <= size => Foldable(n, A, base, step)}
<1>1. Foldable(0, A, base, step)
  <2> DEFINE g == [t \in SUBSET (1..0) |-> base]
  <2>1. 1..0 = {}
    OBVIOUS
  <2>2. g \in [SUBSET (1..0) -> A] /\ FoldsPositions(g, 0, base, step)
    BY <2>1 DEF FoldsPositions
  <2> HIDE DEF g
  <2> QED
    BY <2>2 DEF Foldable
<1>2. ASSUME NEW n \in Nat, n \in S
      PROVE  n + 1 \in S
  <2>1. CASE n + 1 <= size
    <3>1. Foldable(n, A, base, step)
      BY <1>2, <2>1
    <3>2. Foldable(n + 1, A, base, step)
      BY <2>1, <3>1, FoldExtends
    <3> QED  BY <3>2
  <2>2. CASE ~(n + 1 <= size)
    BY <2>2
  <2> QED
    BY <2>1, <2>2
<1>3. 0 \in S
  BY <1>1
<1>4. Nat \subseteq S
  <2> HIDE DEF S
  <2> QED  BY <1>2, <1>3, NaturalsInSet
<1> QED
  BY <1>4

-----------------------------------------------------------------------------
(* Policy decisions.                                                       *)

(***************************************************************************)
(* Policy.evaluate (core/policy.py) is a first-match evaluation that       *)
(* denies by default: its result is "deny" when no rule decides the        *)
(* action, and otherwise the effect of the deciding rule that no earlier   *)
(* deciding rule precedes.                                                 *)
(***************************************************************************)
THEOREM EvaluateIsFirstMatch ==
  ASSUME NEW S, NEW rules \in Seq(S), NEW action, NEW context, NEW clock
  PROVE  \/ /\ \A i \in 1..Len(rules) : ~Decides(rules[i], action, context, clock)
            /\ Evaluate(rules, action, context, clock) = "deny"
         \/ \E i \in 1..Len(rules) :
              /\ Decides(rules[i], action, context, clock)
              /\ \A j \in 1..(i-1) : ~Decides(rules[j], action, context, clock)
              /\ Evaluate(rules, action, context, clock) = rules[i].effect
<1> DEFINE I == {i \in 1..Len(rules) : Decides(rules[i], action, context, clock)}
<1>1. Evaluate(rules, action, context, clock) =
        LET i == IF I # {} THEN Min(I) ELSE 0 IN IF i = 0 THEN "deny" ELSE rules[i].effect
  BY DEF Evaluate, SelectInSeq
<1>2. CASE I = {}
  BY <1>1, <1>2
<1>3. CASE I # {}
  <2>0. I \subseteq Nat
    OBVIOUS
  <2>1. PICK n \in I : \A m \in I : n <= m
    <3> HIDE DEF I
    <3> QED  BY <1>3, <2>0, LeastExists
  <2>2. Min(I) \in I /\ \A m \in I : Min(I) <= m
    BY <2>1 DEF Min
  <2>3. Min(I) # 0 /\ Evaluate(rules, action, context, clock) = rules[Min(I)].effect
    BY <1>1, <1>3, <2>2
  <2>4. \A j \in 1..(Min(I) - 1) : ~Decides(rules[j], action, context, clock)
    BY <2>2
  <2> QED
    BY <2>2, <2>3, <2>4
<1> QED
  BY <1>2, <1>3

(***************************************************************************)
(* evaluate only ever answers allow, deny or escalate.                     *)
(***************************************************************************)
LEMMA EvaluateType ==
  ASSUME NEW S, NEW rules \in Seq(S), NEW action, NEW context, NEW clock
  PROVE  Evaluate(rules, action, context, clock) \in Effects
BY EvaluateIsFirstMatch DEF Decides, Effects

(***************************************************************************)
(* What the cost gate says of a call, whatever was spent: it allows what   *)
(* fits the task limit and needs no approval and nothing else, it asks for *)
(* approval of the rest that fits, and what it does not allow it allows at *)
(* no later point of the task either (check_cost).                         *)
(***************************************************************************)
LEMMA CheckCostBounds ==
  ASSUME NEW limits, NEW spent \in Nat, NEW additional \in Nat,
         limits.cost \in Nat, limits.approvalAbove \in Nat
  PROVE  /\ CheckCost(limits, spent, additional) = "allow" <=>
              spent + additional <= limits.cost /\ additional <= limits.approvalAbove
         /\ CheckCost(limits, spent, additional) = "escalate" <=>
              spent + additional <= limits.cost /\ additional > limits.approvalAbove
         /\ \A more \in Nat :
              more >= spent /\ CheckCost(limits, more, additional) = "allow" =>
                CheckCost(limits, spent, additional) = "allow"
BY DEF CheckCost

=============================================================================
