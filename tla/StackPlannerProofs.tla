--------------------------- MODULE StackPlannerProofs ---------------------------
(***************************************************************************)
(* Lemmas about the planners of StackPlanner, for open pull requests of    *)
(* any number and form.  What their recursive functions compute is found   *)
(* by induction on the natural numbers, in the form of a least element of  *)
(* a set of counterexamples.                                               *)
(***************************************************************************)
EXTENDS StackPlanner, SequencesExt, SequenceTheorems, FiniteSetTheorems,
        WellFoundedInduction, TLAPS

-----------------------------------------------------------------------------
(* Numbers. *)

LEMMA NatSetMin ==
  ASSUME NEW T \in SUBSET Nat, T # {}
  PROVE  \E x \in T : \A y \in T : x <= y
<1> DEFINE Less == OpToRel(<, Nat)
<1>1. IsWellFoundedOn(Less, Nat)
  BY NatLessThanWellFounded
<1>2. \A a, b \in Nat : <<a, b>> \in Less <=> a < b
  BY DEF OpToRel
<1> HIDE DEF Less
<1>3. PICK x \in T : \A y \in T : <<y, x>> \notin Less
  BY <1>1, WFMin
<1>4. \A y \in T : ~(y < x)
  BY <1>2, <1>3
<1> QED
  BY <1>4

(* Induction on a set: all numbers are in it when it has 0 and what follows each. *)
LEMMA NatSetInduction ==
  ASSUME NEW S, 0 \in S, \A n \in Nat : n \in S => n + 1 \in S
  PROVE  Nat \subseteq S
<1> DEFINE T == Nat \ S
<1>1. SUFFICES ASSUME T # {} PROVE FALSE
  OBVIOUS
<1>2. PICK x \in T : \A y \in T : x <= y
  BY <1>1, NatSetMin
<1>3. x # 0 /\ x - 1 \in Nat
  BY <1>2
<1>4. x - 1 \in S
  BY <1>2, <1>3
<1> QED
  BY <1>2, <1>3, <1>4

(* Any number of steps can be taken: what makes a recursive function one. *)
IsRun(g, step, s, n) == g[0] = s /\ \A k \in 1..n : g[k] = step[k][g[k - 1]]

LEMMA RunExists ==
  ASSUME NEW S, NEW n \in Nat, NEW step \in [1..n -> [S -> S]], NEW s \in S
  PROVE  \E g \in [0..n -> S] : IsRun(g, step, s, n)
<1> USE DEF IsRun
<1> DEFINE Runs(m) == {g \in [0..m -> S] : IsRun(g, step, s, m)}
           L == {m \in Nat : m <= n => Runs(m) # {}}
<1>1. 0 \in L
  <2> DEFINE g == [k \in 0..0 |-> s]
  <2>1. g \in Runs(0)
    OBVIOUS
  <2> QED
    BY <2>1
<1>2. ASSUME NEW m \in Nat, m \in L PROVE m + 1 \in L
  <2> SUFFICES ASSUME m + 1 <= n PROVE Runs(m + 1) # {}
    OBVIOUS
  <2>1. PICK g \in Runs(m) : TRUE
    BY <1>2
  <2>2. m + 1 \in 1..n
    OBVIOUS
  <2> DEFINE h == [k \in 0..(m + 1) |-> IF k = m + 1 THEN step[m + 1][g[m]] ELSE g[k]]
  <2>3. g \in [0..m -> S] /\ g[m] \in S
    BY <2>1
  <2>4. step[m + 1][g[m]] \in S
    BY <2>2, <2>3
  <2>5. h \in [0..(m + 1) -> S] /\ h[0] = s
    BY <2>1, <2>3, <2>4
  <2>6. ASSUME NEW k \in 1..(m + 1) PROVE h[k] = step[k][h[k - 1]]
    <3>1. h[k - 1] = g[k - 1] /\ (k # m + 1 => k \in 1..m /\ h[k] = g[k])
      OBVIOUS
    <3> QED
      BY <2>1, <3>1
  <2> HIDE DEF h
  <2>7. h \in Runs(m + 1)
    BY <2>5, <2>6
  <2> QED
    BY <2>7
<1> HIDE DEF L
<1>3. n \in L
  BY <1>1, <1>2, NatSetInduction
<1> QED
  BY <1>3 DEF L

(* The steps may all be the same. *)
IsWalk(g, f, s, n) == g[0] = s /\ \A k \in 1..n : g[k] = f[g[k - 1]]

LEMMA WalkExists ==
  ASSUME NEW S, NEW f \in [S -> S], NEW s \in S, NEW n \in Nat
  PROVE  \E g \in [0..n -> S] : IsWalk(g, f, s, n)
<1> DEFINE step == [k \in 1..n |-> f]
<1>1. step \in [1..n -> [S -> S]] /\ \A k \in 1..n : step[k] = f
  OBVIOUS
<1> HIDE DEF step
<1>2. PICK g \in [0..n -> S] : IsRun(g, step, s, n)
  BY <1>1, RunExists
<1>3. IsWalk(g, f, s, n)
  BY <1>1, <1>2 DEF IsRun, IsWalk
<1> QED
  BY <1>3

-----------------------------------------------------------------------------
(* Lists of what is open. *)

(* SetToSeq has every element in one place. *)
LEMMA ListOfSet ==
  ASSUME NEW S, IsFiniteSet(S)
  PROVE  LET list == SetToSeq(S) IN
         /\ Cardinality(S) \in Nat /\ list \in [1..Cardinality(S) -> S]
         /\ \A i, k \in 1..Cardinality(S) : list[i] = list[k] => i = k
         /\ {list[i] : i \in DOMAIN list} = S
<1> DEFINE n == Cardinality(S)
           list == SetToSeq(S)
<1>1. n \in Nat /\ ExistsBijection(1..n, S)
  BY FS_CardinalityType
<1>2. PICK f \in [1..n -> S] : IsInjective(f)
  BY <1>1 DEF ExistsBijection, Bijection, Injection
<1>3. list \in [1..n -> S] /\ IsInjective(list)
  BY <1>2 DEF SetToSeq
<1> HIDE DEF list
<1>4. \A i, k \in 1..n : list[i] = list[k] => i = k
  BY <1>3 DEF IsInjective
<1>5. list \in Injection(1..n, S)
  BY <1>3 DEF Injection
<1>6. IsFiniteSet(1..n) /\ Cardinality(1..n) = n
  BY <1>1, FS_Interval
<1>7. list \in Surjection(1..n, S)
  BY <1>5, <1>6, FS_Injection
<1>8. \A x \in S : \E i \in 1..n : list[i] = x
  BY <1>7 DEF Surjection
<1> QED
  BY <1>1, <1>3, <1>4, <1>8 DEF list

(* As many numbers as pull requests. *)
LEMMA NumbersOf ==
  ASSUME NEW prs, OpenSet(prs)
  PROVE  /\ IsFiniteSet(Numbers(prs)) /\ Cardinality(Numbers(prs)) = Cardinality(prs)
         /\ Numbers(prs) \subseteq Nat \ {NoParent}
         /\ \A n \in Numbers(prs) : Get(prs, n) \in prs /\ Get(prs, n).number = n
         /\ \A p \in prs : p.number \in Numbers(prs) /\ Get(prs, p.number) = p
<1> DEFINE f == [p \in prs |-> p.number]
           N == Numbers(prs)
<1>1. f \in Surjection(prs, N) /\ f \in Injection(prs, N)
  BY DEF OpenSet, Numbers, Surjection, Injection, IsInjective
<1>2. IsFiniteSet(N) /\ Cardinality(N) = Cardinality(prs)
  BY <1>1, FS_Surjection DEF OpenSet
<1>3. \A n \in N : Get(prs, n) \in prs /\ Get(prs, n).number = n
  BY DEF Get, Numbers
<1>4. \A p \in prs : p.number \in N /\ Get(prs, p.number) = p
  BY <1>3 DEF OpenSet, Numbers
<1> QED
  BY <1>2, <1>3, <1>4 DEF OpenSet, Numbers

-----------------------------------------------------------------------------
(* The merge order. *)

(* What the loop of StackPlanner::plan finds, pull request by pull request. *)
Climbs(parents, at, last) ==
  \A k \in 1..last : at[k] = IF k = 1 THEN Onto(parents, NoParent)
                             ELSE IF at[k - 1] = NoParent THEN NoParent
                             ELSE Onto(parents, at[k - 1])

LEMMA MergeOrderClimbs ==
  ASSUME NEW parents, NEW N, N = DOMAIN parents, IsFiniteSet(N)
  PROVE  \E at \in [1..Cardinality(N) -> N \union {NoParent}] :
           /\ Climbs(parents, at, Cardinality(N))
           /\ MergeOrder(parents) =
                [k \in 1..Cardinality({i \in 1..Cardinality(N) : at[i] # NoParent}) |-> at[k]]
<1> DEFINE last == Cardinality(N)
           S == N \union {NoParent}
           Next(x) == IF x = NoParent THEN NoParent ELSE Onto(parents, x)
           f == [x \in S |-> Next(x)]
           first == Onto(parents, NoParent)
           At[k \in 1..Cardinality(DOMAIN parents)] ==
             CASE k = 1 -> Onto(parents, NoParent)
               [] k > 1 /\ At[k - 1] = NoParent -> NoParent
               [] OTHER -> Onto(parents, At[k - 1])
<1> HIDE DEF At
<1>1. last \in Nat
  BY FS_CardinalityType
<1>2. \A x : Onto(parents, x) \in S
  BY DEF Onto, Children
<1>3. f \in [S -> S] /\ first \in S
  BY <1>2
<1>4. PICK g \in [0..last -> S] : IsWalk(g, f, first, last)
  <2> HIDE DEF f, first, S, last
  <2> QED
    BY <1>1, <1>3, WalkExists
<1>5. g[0] = first /\ \A k \in 1..last : g[k] = Next(g[k - 1])
  <2> HIDE DEF Next, S, last, first
  <2>1. g[0] = first /\ \A k \in 1..last : g[k] = f[g[k - 1]] /\ g[k - 1] \in S
    BY <1>1, <1>4 DEF IsWalk
  <2> QED
    BY <2>1
<1> DEFINE at == [k \in 1..last |-> g[k - 1]]
<1>6. \A k \in 1..last : at[k] = IF k = 1 THEN first ELSE Next(at[k - 1])
  <2> SUFFICES ASSUME NEW k \in 1..last
               PROVE  at[k] = IF k = 1 THEN first ELSE Next(at[k - 1])
    OBVIOUS
  <2> HIDE DEF first, Next, last
  <2>1. k - 1 \in 0..last /\ (k # 1 => k - 1 \in 1..last)
    BY <1>1
  <2>2. at[k] = g[k - 1] /\ (k # 1 => at[k - 1] = g[k - 1 - 1])
    BY <2>1
  <2> HIDE DEF at
  <2>3. k # 1 => g[k - 1] = Next(g[k - 1 - 1])
    BY <1>5, <2>1
  <2>4. k = 1 => k - 1 = 0
    OBVIOUS
  <2> QED
    BY <1>5, <2>2, <2>3, <2>4
<1>7. at = [k \in 1..Cardinality(DOMAIN parents) |->
             CASE k = 1 -> Onto(parents, NoParent)
               [] k > 1 /\ at[k - 1] = NoParent -> NoParent
               [] OTHER -> Onto(parents, at[k - 1])]
  <2> DEFINE rhs(k) == CASE k = 1 -> Onto(parents, NoParent)
                         [] k > 1 /\ at[k - 1] = NoParent -> NoParent
                         [] OTHER -> Onto(parents, at[k - 1])
  <2>1. at = [k \in 1..last |-> at[k]]
    OBVIOUS
  <2> HIDE DEF at, last
  <2>2. \A k \in 1..last : at[k] = rhs(k)
    BY <1>1, <1>6
  <2> HIDE DEF rhs
  <2>3. at = [k \in 1..last |-> rhs(k)]
    BY <2>1, <2>2
  <2> QED
    BY <2>3 DEF rhs, last
<1> HIDE DEF at
<1>8. At = [k \in 1..Cardinality(DOMAIN parents) |->
             CASE k = 1 -> Onto(parents, NoParent)
               [] k > 1 /\ At[k - 1] = NoParent -> NoParent
               [] OTHER -> Onto(parents, At[k - 1])]
  BY <1>7, Zenon DEF At
<1>9. MergeOrder(parents) = [k \in 1..Cardinality({i \in 1..Cardinality(DOMAIN parents) :
                                                     At[i] # NoParent}) |-> At[k]]
  BY DEF MergeOrder, At
<1> HIDE DEF last, Next
<1>10. /\ DOMAIN At = 1..last
       /\ \A k \in 1..last : At[k] = CASE k = 1 -> Onto(parents, NoParent)
                                       [] k > 1 /\ At[k - 1] = NoParent -> NoParent
                                       [] OTHER -> Onto(parents, At[k - 1])
  BY <1>8 DEF last
<1>11. \A k \in 1..last : At[k] = IF k = 1 THEN Onto(parents, NoParent)
                             ELSE IF At[k - 1] = NoParent THEN NoParent
                             ELSE Onto(parents, At[k - 1])
  BY <1>1, <1>10
<1>12. At \in [1..last -> S]
  BY <1>2, <1>8, <1>11 DEF last
<1> QED
  BY <1>9, <1>11, <1>12 DEF last, Climbs

(* Every number once, each above the one that is its parent. *)
IsOrder(parents, order) ==
  LET N == DOMAIN parents IN
  /\ order \in [1..Cardinality(N) -> N]
  /\ \A i, k \in 1..Cardinality(N) : order[i] = order[k] => i = k
  /\ \A n \in N : \E i \in 1..Cardinality(N) : order[i] = n
  /\ \A i \in 1..Cardinality(N) :
       parents[order[i]] = IF i = 1 THEN NoParent ELSE order[i - 1]

LEMMA MergeOrderIsOrder ==
  ASSUME NEW parents, IsFiniteSet(DOMAIN parents), NoParent \notin DOMAIN parents,
         ~NotALine(parents, MergeOrder(parents))
  PROVE  /\ IsOrder(parents, MergeOrder(parents)) /\ DOMAIN parents # {}
         /\ MergeOrder(parents) \in Seq(DOMAIN parents)
         /\ Len(MergeOrder(parents)) = Cardinality(DOMAIN parents)
<1> DEFINE N == DOMAIN parents
           last == Cardinality(N)
           order == MergeOrder(parents)
<1>1. last \in Nat
  BY FS_CardinalityType
<1>2. PICK at \in [1..last -> N \union {NoParent}] :
        /\ Climbs(parents, at, last)
        /\ order = [k \in 1..Cardinality({i \in 1..last : at[i] # NoParent}) |-> at[k]]
  <2> HIDE DEF order
  <2> QED
    BY MergeOrderClimbs DEF order
<1> DEFINE ones == {i \in 1..last : at[i] # NoParent}
<1>3. ones = 1..last
  <2>1. IsFiniteSet(1..last) /\ Cardinality(1..last) = last
    BY <1>1, FS_Interval
  <2>2. IsFiniteSet(ones) /\ Cardinality(ones) \in Nat
    BY <2>1, FS_Subset, FS_CardinalityType
  <2>3. Len(order) = Cardinality(ones)
    <3> HIDE DEF order, ones, last
    <3>1. order = [k \in 1..Cardinality(ones) |-> at[k]]
      BY <1>2 DEF ones
    <3> QED
      BY <2>2, <3>1, LenProperties
  <2>4. Len(order) = last
    BY DEF NotALine
  <2> QED
    BY <2>1, <2>2, <2>3, <2>4, FS_Subset
<1>4. order = at
  <2> HIDE DEF last, ones
  <2>1. Cardinality(ones) = last
    BY <1>1, <1>3, FS_Interval
  <2> HIDE DEF order
  <2> QED
    BY <1>2, <2>1 DEF ones
<1>5. order \in [1..last -> N]
  BY <1>3, <1>4
<1>6. \A i \in 1..last : order[i] = IF i = 1 THEN Onto(parents, NoParent)
                                   ELSE Onto(parents, order[i - 1])
  <2> HIDE DEF order, last
  <2> SUFFICES ASSUME NEW i \in 1..last
               PROVE  order[i] = IF i = 1 THEN Onto(parents, NoParent)
                                 ELSE Onto(parents, order[i - 1])
    OBVIOUS
  <2>1. i # 1 => i - 1 \in 1..last /\ order[i - 1] # NoParent
    BY <1>1, <1>5
  <2> QED
    BY <1>2, <1>4, <2>1 DEF Climbs
<1>7. \A i \in 1..last : parents[order[i]] = IF i = 1 THEN NoParent ELSE order[i - 1]
  <2> SUFFICES ASSUME NEW i \in 1..last
               PROVE  parents[order[i]] = IF i = 1 THEN NoParent ELSE order[i - 1]
    OBVIOUS
  <2> HIDE DEF order, last
  <2>1. order[i] \in N
    BY <1>5
  <2>2. \A x : Onto(parents, x) \in N => parents[Onto(parents, x)] = x
    BY DEF Onto, Children
  <2> QED
    BY <1>6, <2>1, <2>2
<1> HIDE DEF order, last
<1>8. \A i, k \in 1..last : order[i] = order[k] => i = k
  <2> DEFINE T == {i \in 1..last : \E k \in 1..last : k # i /\ order[k] = order[i]}
  <2>1. SUFFICES ASSUME T # {} PROVE FALSE
    OBVIOUS
  <2>2. T \in SUBSET Nat
    BY <1>1
  <2> HIDE DEF T
  <2>3. PICK i \in T : \A k \in T : i <= k
    BY <2>1, <2>2, NatSetMin
  <2>4. PICK k \in 1..last : k # i /\ order[k] = order[i]
    BY <2>3 DEF T
  <2>5. i \in 1..last /\ k \in T
    BY <2>4 DEF T
  <2>6. i < k
    BY <1>1, <2>3, <2>4, <2>5
  <2>7. k - 1 \in 1..last /\ k # 1 /\ order[k - 1] # NoParent
    BY <1>1, <1>5, <2>4, <2>5, <2>6
  <2>8. i # 1
    BY <1>7, <2>4, <2>5, <2>7
  <2>9. i - 1 \in 1..last /\ order[i - 1] = order[k - 1] /\ k - 1 # i - 1
    BY <1>1, <1>7, <2>4, <2>5, <2>7, <2>8
  <2>10. i - 1 \in T
    BY <2>7, <2>9 DEF T
  <2> QED
    BY <1>1, <2>3, <2>5, <2>10
<1>9. \A n \in N : \E i \in 1..last : order[i] = n
  <2>1. order \in Injection(1..last, N)
    BY <1>5, <1>8 DEF Injection, IsInjective
  <2>2. Cardinality(1..last) = Cardinality(N)
    BY <1>1, FS_Interval DEF last
  <2>3. order \in Surjection(1..last, N)
    BY <2>1, <2>2, FS_Injection
  <2> QED
    BY <2>3 DEF Surjection
<1>10. N # {}
  <2>1. Children(parents, NoParent) # {}
    BY FS_EmptySet DEF NotALine
  <2> QED
    BY <2>1 DEF Children
<1>11. order \in Seq(N) /\ Len(order) = last
  BY <1>1, <1>5, LenProperties, SeqDef
<1> QED
  BY <1>5, <1>7, <1>8, <1>9, <1>10, <1>11 DEF IsOrder, order, last

(* An order that fits the parents is the one that the loop finds. *)
LEMMA OrderIsMergeOrder ==
  ASSUME NEW parents, IsFiniteSet(DOMAIN parents), NoParent \notin DOMAIN parents,
         DOMAIN parents # {}, NEW order, IsOrder(parents, order)
  PROVE  /\ MergeOrder(parents) = order /\ ~NotALine(parents, order)
<1> DEFINE N == DOMAIN parents
           last == Cardinality(N)
<1>1. last \in Nat /\ last > 0
  BY FS_CardinalityType, FS_EmptySet
<1> HIDE DEF last
<1>2. /\ order \in [1..last -> N] /\ \A n \in N : \E i \in 1..last : order[i] = n
      /\ \A i, k \in 1..last : order[i] = order[k] => i = k
      /\ \A i \in 1..last : parents[order[i]] = IF i = 1 THEN NoParent ELSE order[i - 1]
  BY DEF IsOrder, last
<1>3. \A i \in 1..last : order[i] \in N /\ order[i] # NoParent
  BY <1>2
<1>4. Children(parents, NoParent) = {order[1]}
  <2>1. order[1] \in Children(parents, NoParent)
    BY <1>1, <1>2, <1>3 DEF Children
  <2>2. ASSUME NEW n \in Children(parents, NoParent) PROVE n = order[1]
    <3>1. PICK i \in 1..last : order[i] = n
      BY <1>2 DEF Children
    <3>2. parents[order[i]] = NoParent
      BY <3>1 DEF Children
    <3>3. i # 1 => i - 1 \in 1..last
      BY <1>1
    <3> QED
      BY <1>2, <1>3, <3>1, <3>2, <3>3
  <2> QED
    BY <2>1, <2>2
<1>5. \A i \in 1..last : Children(parents, order[i]) = IF i = last THEN {} ELSE {order[i + 1]}
  <2> SUFFICES ASSUME NEW i \in 1..last
               PROVE  Children(parents, order[i]) = IF i = last THEN {} ELSE {order[i + 1]}
    OBVIOUS
  <2>1. i # last => i + 1 \in 1..last /\ i + 1 # 1 /\ (i + 1) - 1 = i
    BY <1>1
  <2>2. i # last => order[i + 1] \in Children(parents, order[i])
    BY <1>2, <1>3, <2>1 DEF Children
  <2>3. ASSUME NEW n \in Children(parents, order[i]) PROVE i # last /\ n = order[i + 1]
    <3>1. PICK k \in 1..last : order[k] = n
      BY <1>2 DEF Children
    <3>2. parents[order[k]] = order[i]
      BY <3>1 DEF Children
    <3>3. k # 1 /\ order[k - 1] = order[i]
      BY <1>2, <1>3, <3>2
    <3>4. k - 1 \in 1..last
      BY <1>1, <3>3
    <3>5. k - 1 = i
      BY <1>2, <3>3, <3>4
    <3>6. k = i + 1
      BY <1>1, <3>5
    <3> QED
      BY <1>1, <3>1, <3>6
  <2> QED
    BY <2>2, <2>3
<1>6. /\ Onto(parents, NoParent) = order[1]
      /\ \A i \in 1..last : i # last => Onto(parents, order[i]) = order[i + 1]
  BY <1>4, <1>5 DEF Onto
<1>7. PICK at \in [1..last -> N \union {NoParent}] :
        /\ Climbs(parents, at, last)
        /\ MergeOrder(parents) =
             [k \in 1..Cardinality({i \in 1..last : at[i] # NoParent}) |-> at[k]]
  BY MergeOrderClimbs DEF last
<1>8. \A k \in 1..last : at[k] = order[k]
  <2> DEFINE T == {k \in 1..last : at[k] # order[k]}
  <2>1. SUFFICES ASSUME T # {} PROVE FALSE
    OBVIOUS
  <2>2. T \in SUBSET Nat
    BY <1>1
  <2> HIDE DEF T
  <2>3. PICK k \in T : \A i \in T : k <= i
    BY <2>1, <2>2, NatSetMin
  <2>4. k \in 1..last /\ at[k] # order[k]
    BY <2>3 DEF T
  <2>5. k # 1
    BY <1>1, <1>6, <1>7, <2>4 DEF Climbs
  <2>6. k - 1 \in 1..last /\ k - 1 # last /\ (k - 1) + 1 = k /\ ~(k <= k - 1)
    BY <1>1, <2>4, <2>5
  <2>7. at[k - 1] = order[k - 1]
    BY <2>3, <2>6 DEF T
  <2>8. at[k] = Onto(parents, order[k - 1])
    BY <1>3, <1>7, <2>4, <2>5, <2>6, <2>7 DEF Climbs
  <2> QED
    BY <1>6, <2>4, <2>6, <2>8
<1>9. MergeOrder(parents) = order
  <2> DEFINE ones == {i \in 1..last : at[i] # NoParent}
  <2>1. ones = 1..last
    BY <1>3, <1>8
  <2> HIDE DEF ones
  <2>2. Cardinality(ones) = last
    BY <1>1, <2>1, FS_Interval
  <2>3. MergeOrder(parents) = [k \in 1..last |-> at[k]]
    BY <1>7, <2>2 DEF ones
  <2> QED
    BY <1>2, <1>8, <2>3
<1>10. Cardinality(Children(parents, NoParent)) = 1
  BY <1>4, FS_Singleton
<1>11. ASSUME NEW n \in N PROVE ~(Cardinality(Children(parents, n)) > 1)
  <2>1. PICK i \in 1..last : order[i] = n
    BY <1>2
  <2>2. Children(parents, n) = {} \/ \E c : Children(parents, n) = {c}
    BY <1>5, <2>1
  <2>3. Cardinality(Children(parents, n)) \in {0, 1}
    BY <2>2, FS_EmptySet, FS_Singleton
  <2> QED
    BY <2>3
<1>12. Len(order) = last
  BY <1>1, <1>2, LenProperties
<1> QED
  BY <1>9, <1>10, <1>11, <1>12 DEF NotALine, last

(* No walk along the parents of an order comes back: it gets to the bottom in time. *)
LEMMA OrderIsNoCycle ==
  ASSUME NEW parents, IsFiniteSet(DOMAIN parents), NoParent \notin DOMAIN parents,
         NEW order, IsOrder(parents, order)
  PROVE  ~Cyclic(parents)
<1> DEFINE N == DOMAIN parents
           last == Cardinality(N)
<1>1. last \in Nat
  BY FS_CardinalityType
<1>2. SUFFICES ASSUME NEW n \in N
               PROVE  LET Up[k \in 0..last] ==
                            IF k = 0 THEN n
                            ELSE IF Up[k - 1] = NoParent THEN NoParent ELSE parents[Up[k - 1]]
                      IN Up[last] = NoParent
  BY DEF Cyclic
<1> DEFINE Up[k \in 0..last] ==
             IF k = 0 THEN n
             ELSE IF Up[k - 1] = NoParent THEN NoParent ELSE parents[Up[k - 1]]
           Below(g, k) == IF k = 0 THEN n
                          ELSE IF g[k - 1] = NoParent THEN NoParent ELSE parents[g[k - 1]]
<1> HIDE DEF Up
<1>3. PICK i \in 1..last : order[i] = n
  BY DEF IsOrder
<1> DEFINE down == [k \in 0..last |-> IF k < i THEN order[i - k] ELSE NoParent]
<1>4. \A k \in 0..last : down[k] = Below(down, k)
  <2> SUFFICES ASSUME NEW k \in 0..last PROVE down[k] = Below(down, k)
    OBVIOUS
  <2> HIDE DEF last
  <2>1. /\ order \in [1..last -> N]
        /\ \A m \in 1..last : parents[order[m]] = IF m = 1 THEN NoParent ELSE order[m - 1]
    BY DEF IsOrder, last
  <2>2. CASE k = 0
    BY <1>1, <1>3, <2>2
  <2>3. CASE k # 0 /\ k - 1 < i
    <3>1. k - 1 \in 0..last /\ i - (k - 1) \in 1..last
      BY <1>1, <2>3
    <3>2. down[k - 1] = order[i - (k - 1)] /\ down[k - 1] # NoParent
      BY <2>1, <2>3, <3>1
    <3>3. parents[down[k - 1]] = IF i - (k - 1) = 1 THEN NoParent ELSE order[i - (k - 1) - 1]
      BY <2>1, <3>1, <3>2
    <3>4. (i - (k - 1) = 1 <=> k = i) /\ i - (k - 1) - 1 = i - k
      BY <1>1
    <3>5. down[k] = IF k = i THEN NoParent ELSE order[i - k]
      BY <1>1, <2>3
    <3> HIDE DEF down
    <3> QED
      BY <2>3, <3>2, <3>3, <3>4, <3>5
  <2>4. CASE k # 0 /\ ~(k - 1 < i)
    <3>1. k - 1 \in 0..last /\ ~(k < i)
      BY <1>1, <2>4
    <3>2. down[k - 1] = NoParent /\ down[k] = NoParent
      BY <2>4, <3>1
    <3> HIDE DEF down
    <3> QED
      BY <2>4, <3>2
  <2> QED
    BY <2>2, <2>3, <2>4
<1>5. DOMAIN down = 0..last /\ down = [k \in 0..last |-> down[k]]
  OBVIOUS
<1>6. down[last] = NoParent
  BY <1>1
<1> HIDE DEF down
<1>7. down = [k \in 0..last |-> IF k = 0 THEN n
                               ELSE IF down[k - 1] = NoParent THEN NoParent
                               ELSE parents[down[k - 1]]]
  <2> HIDE DEF Below, last
  <2>1. down = [k \in 0..last |-> Below(down, k)]
    BY <1>4, <1>5
  <2> QED
    BY <2>1 DEF Below
<1>8. Up = [k \in 0..last |-> IF k = 0 THEN n
                             ELSE IF Up[k - 1] = NoParent THEN NoParent
                             ELSE parents[Up[k - 1]]]
  BY <1>7, Zenon DEF Up
<1>9. \A k \in 0..last : Up[k] = Below(Up, k)
  BY <1>8
<1>10. \A k \in 0..last : Up[k] = down[k]
  <2> HIDE DEF last
  <2> DEFINE T == {k \in 0..last : Up[k] # down[k]}
  <2>1. SUFFICES ASSUME T # {} PROVE FALSE
    OBVIOUS
  <2>2. T \in SUBSET Nat
    BY <1>1
  <2> HIDE DEF T
  <2>3. PICK k \in T : \A m \in T : k <= m
    BY <2>1, <2>2, NatSetMin
  <2>4. k \in 0..last /\ Up[k] # down[k]
    BY <2>3 DEF T
  <2>5. k # 0
    BY <1>4, <1>9, <2>4
  <2>6. k - 1 \in 0..last /\ ~(k <= k - 1)
    BY <1>1, <2>4, <2>5
  <2>7. Up[k - 1] = down[k - 1]
    BY <2>3, <2>6 DEF T
  <2> QED
    BY <1>4, <1>9, <2>4, <2>7
<1>11. last \in 0..last
  BY <1>1
<1> QED
  BY <1>6, <1>10, <1>11 DEF Up

-----------------------------------------------------------------------------
(* The stacks. *)

(* The rings of the search. *)
Spreads(prs, ring, n) ==
  /\ ring[0] = {n}
  /\ \A k \in 1..Cardinality(prs) :
       ring[k] = ring[k - 1] \union UNION {Adjacent(prs, m) : m \in ring[k - 1]}

LEMMA AdjacentNumbers ==
  ASSUME NEW prs, OpenSet(prs)
  PROVE  /\ \A m \in Numbers(prs) : Adjacent(prs, m) \subseteq Numbers(prs)
         /\ \A m, k \in Numbers(prs) : m \in Adjacent(prs, k) => k \in Adjacent(prs, m)
<1>1. /\ \A n \in Numbers(prs) : Get(prs, n) \in prs /\ Get(prs, n).number = n
      /\ \A p \in prs : p.number \in Numbers(prs) /\ Get(prs, p.number) = p
  BY NumbersOf
<1>2. \A p : Linked(prs, p) \subseteq Numbers(prs)
  BY DEF Linked
<1> QED
  BY <1>1, <1>2 DEF Adjacent

LEMMA ComponentSpreads ==
  ASSUME NEW prs, OpenSet(prs), NEW n \in Numbers(prs)
  PROVE  \E ring \in [0..Cardinality(prs) -> SUBSET Numbers(prs)] :
           /\ Spreads(prs, ring, n)
           /\ Component(prs, n) = {pr \in prs : pr.number \in ring[Cardinality(prs)]}
<1> DEFINE last == Cardinality(prs)
           S == SUBSET Numbers(prs)
           Next(r) == r \union UNION {Adjacent(prs, m) : m \in r}
           f == [r \in S |-> Next(r)]
           Ring[k \in 0..Cardinality(prs)] ==
             IF k = 0 THEN {n}
             ELSE Ring[k - 1] \union UNION {Adjacent(prs, m) : m \in Ring[k - 1]}
<1> HIDE DEF Ring
<1>1. last \in Nat
  BY FS_CardinalityType DEF OpenSet
<1>2. \A r \in S : Next(r) \in S
  BY AdjacentNumbers
<1>3. f \in [S -> S] /\ {n} \in S
  BY <1>2
<1>4. PICK g \in [0..last -> S] : IsWalk(g, f, {n}, last)
  <2> HIDE DEF f, S, last
  <2> QED
    BY <1>1, <1>3, WalkExists
<1>5. g[0] = {n} /\ \A k \in 1..last : g[k] = Next(g[k - 1])
  <2> HIDE DEF Next, S, last
  <2>1. g[0] = {n} /\ \A k \in 1..last : g[k] = f[g[k - 1]] /\ g[k - 1] \in S
    BY <1>1, <1>4 DEF IsWalk
  <2> QED
    BY <2>1
<1>6. g = [k \in 0..Cardinality(prs) |->
             IF k = 0 THEN {n}
             ELSE g[k - 1] \union UNION {Adjacent(prs, m) : m \in g[k - 1]}]
  <2> DEFINE rhs(k) == IF k = 0 THEN {n} ELSE Next(g[k - 1])
  <2> HIDE DEF Next, S, last
  <2>1. \A k \in 0..last : g[k] = rhs(k)
    BY <1>1, <1>5
  <2> HIDE DEF rhs
  <2>2. g = [k \in 0..last |-> rhs(k)]
    BY <2>1
  <2> QED
    BY <2>2 DEF rhs, last, Next
<1>7. Ring = [k \in 0..Cardinality(prs) |->
                IF k = 0 THEN {n}
                ELSE Ring[k - 1] \union UNION {Adjacent(prs, m) : m \in Ring[k - 1]}]
  BY <1>6, Zenon DEF Ring
<1>8. Component(prs, n) = {pr \in prs : pr.number \in Ring[Cardinality(prs)]}
  BY DEF Component, Ring
<1> HIDE DEF Next, last
<1>9. \A k \in 0..last : Ring[k] = IF k = 0 THEN {n} ELSE Next(Ring[k - 1])
  BY <1>7 DEF Next, last
<1>10. Ring[0] = {n} /\ \A k \in 1..last : Ring[k] = Next(Ring[k - 1])
  <2>1. 0 \in 0..last /\ \A k \in 1..last : k \in 0..last /\ k # 0
    BY <1>1
  <2> QED
    BY <1>9, <2>1
<1>11. \A k \in 0..last : Ring[k] \in S
  <2> HIDE DEF S
  <2> DEFINE T == {k \in 0..last : Ring[k] \notin S}
  <2>1. SUFFICES ASSUME T # {} PROVE FALSE
    OBVIOUS
  <2>2. T \in SUBSET Nat
    BY <1>1
  <2> HIDE DEF T
  <2>3. PICK k \in T : \A m \in T : k <= m
    BY <2>1, <2>2, NatSetMin
  <2>4. k \in 0..last /\ Ring[k] \notin S /\ k # 0
    BY <1>3, <1>10, <2>3 DEF T
  <2>5. k \in 1..last /\ k - 1 \in 0..last /\ ~(k <= k - 1)
    BY <1>1, <2>4
  <2>6. Ring[k - 1] \in S
    BY <2>3, <2>5 DEF T
  <2> QED
    BY <1>2, <1>10, <2>4, <2>5, <2>6
<1>12. Ring \in [0..last -> S]
  BY <1>7, <1>11 DEF last
<1> QED
  BY <1>8, <1>10, <1>12 DEF last, Next, Spreads

(* A set that no edge leaves. *)
Closed(prs, S) == \A m \in S : Adjacent(prs, m) \subseteq S

(* The stack of n is the smallest set with n that no edge leaves. *)
LEMMA ComponentIsClosed ==
  ASSUME NEW prs, OpenSet(prs), NEW n \in Numbers(prs)
  PROVE  LET C == Numbers(Component(prs, n)) IN
         /\ n \in C /\ C \subseteq Numbers(prs) /\ Component(prs, n) \subseteq prs
         /\ Component(prs, n) = {pr \in prs : pr.number \in C}
         /\ Closed(prs, C)
         /\ \A S : n \in S /\ Closed(prs, S) => C \subseteq S
<1> DEFINE last == Cardinality(prs)
<1>1. /\ IsFiniteSet(Numbers(prs)) /\ Cardinality(Numbers(prs)) = last /\ last \in Nat
      /\ \A m \in Numbers(prs) : Get(prs, m) \in prs /\ Get(prs, m).number = m
  BY NumbersOf, FS_CardinalityType
<1>2. PICK ring \in [0..last -> SUBSET Numbers(prs)] :
        /\ Spreads(prs, ring, n)
        /\ Component(prs, n) = {pr \in prs : pr.number \in ring[last]}
  BY ComponentSpreads
<1> HIDE DEF last
<1>3. last \in 0..last /\ ring[last] \subseteq Numbers(prs)
  BY <1>1, <1>2
<1>4. Numbers(Component(prs, n)) = ring[last]
  BY <1>1, <1>2, <1>3 DEF Numbers
<1>5. /\ ring[0] = {n}
      /\ \A k \in 1..last : ring[k] = ring[k - 1] \union UNION {Adjacent(prs, m) : m \in ring[k - 1]}
  BY <1>2 DEF Spreads, last
<1>6. ASSUME NEW S, n \in S, Closed(prs, S) PROVE \A k \in 0..last : ring[k] \subseteq S
  <2> DEFINE T == {k \in 0..last : ~(ring[k] \subseteq S)}
  <2>1. SUFFICES ASSUME T # {} PROVE FALSE
    OBVIOUS
  <2>2. T \in SUBSET Nat
    BY <1>1
  <2> HIDE DEF T
  <2>3. PICK k \in T : \A m \in T : k <= m
    BY <2>1, <2>2, NatSetMin
  <2>4. k \in 0..last /\ ~(ring[k] \subseteq S) /\ k # 0
    BY <1>5, <1>6, <2>3 DEF T
  <2>5. k \in 1..last /\ k - 1 \in 0..last /\ ~(k <= k - 1)
    BY <1>1, <2>4
  <2>6. ring[k - 1] \subseteq S
    BY <2>3, <2>5 DEF T
  <2>7. UNION {Adjacent(prs, m) : m \in ring[k - 1]} \subseteq S
    BY <1>6, <2>6 DEF Closed
  <2> QED
    BY <1>5, <2>4, <2>5, <2>6, <2>7
<1>7. \A k \in 1..last : ring[k - 1] \subseteq ring[k]
  BY <1>5
<1>8. n \in ring[last]
  <2> DEFINE T == {k \in 0..last : n \notin ring[k]}
  <2>1. SUFFICES ASSUME T # {} PROVE FALSE
    BY <1>3
  <2>2. T \in SUBSET Nat
    BY <1>1
  <2> HIDE DEF T
  <2>3. PICK k \in T : \A m \in T : k <= m
    BY <2>1, <2>2, NatSetMin
  <2>4. k \in 0..last /\ n \notin ring[k] /\ k # 0
    BY <1>5, <2>3 DEF T
  <2>5. k \in 1..last /\ k - 1 \in 0..last /\ ~(k <= k - 1)
    BY <1>1, <2>4
  <2> QED
    BY <1>7, <2>3, <2>4, <2>5 DEF T
<1>9. \A k \in 0..last : IsFiniteSet(ring[k]) /\ Cardinality(ring[k]) \in Nat
                          /\ Cardinality(ring[k]) <= last
  BY <1>1, <1>2, FS_Subset, FS_CardinalityType
(* There are not enough pull requests for every ring to add one. *)
<1>10. PICK k \in 1..last : ring[k] = ring[k - 1]
  <2> DEFINE T == {k \in 0..last : Cardinality(ring[k]) < k + 1}
  <2>1. T # {}
    <3>1. Cardinality(ring[last]) \in Nat /\ Cardinality(ring[last]) <= last
      BY <1>3, <1>9
    <3>2. Cardinality(ring[last]) < last + 1
      BY <1>1, <3>1
    <3>3. last \in T
      BY <1>3, <3>2
    <3> QED
      BY <3>3
  <2>2. T \in SUBSET Nat
    BY <1>1
  <2> HIDE DEF T
  <2>3. PICK k \in T : \A m \in T : k <= m
    BY <2>1, <2>2, NatSetMin
  <2>4. k \in 0..last /\ Cardinality(ring[k]) < k + 1
    BY <2>3 DEF T
  <2>5. k # 0
    <3>1. Cardinality(ring[0]) = 1
      BY <1>5, FS_Singleton
    <3> QED
      BY <2>4, <3>1
  <2>6. k \in 1..last /\ k - 1 \in 0..last /\ ~(k <= k - 1)
    BY <1>1, <2>4, <2>5
  <2>7. ~(Cardinality(ring[k - 1]) < (k - 1) + 1)
    BY <2>3, <2>6 DEF T
  <2>8. Cardinality(ring[k - 1]) <= Cardinality(ring[k])
    BY <1>7, <1>9, <2>4, <2>6, FS_Subset
  <2>9. Cardinality(ring[k]) \in Nat /\ Cardinality(ring[k - 1]) \in Nat /\ k \in Nat
    BY <1>9, <2>4, <2>6
  <2>10. Cardinality(ring[k - 1]) = Cardinality(ring[k])
    BY <2>4, <2>7, <2>8, <2>9
  <2>11. ring[k] = ring[k - 1]
    BY <1>7, <1>9, <2>4, <2>6, <2>10, FS_Subset
  <2> QED
    BY <2>6, <2>11
<1>11. Closed(prs, ring[k])
  BY <1>5, <1>10 DEF Closed
<1>12. \A m \in 0..last : k <= m => ring[m] = ring[k]
  <2> DEFINE T == {m \in 0..last : k <= m /\ ring[m] # ring[k]}
  <2>1. SUFFICES ASSUME T # {} PROVE FALSE
    OBVIOUS
  <2>2. T \in SUBSET Nat
    BY <1>1
  <2> HIDE DEF T
  <2>3. PICK m \in T : \A i \in T : m <= i
    BY <2>1, <2>2, NatSetMin
  <2>4. m \in 0..last /\ k <= m /\ ring[m] # ring[k] /\ m # k
    BY <2>3 DEF T
  <2>5. m \in 1..last /\ m - 1 \in 0..last /\ ~(m <= m - 1) /\ k <= m - 1
    BY <1>1, <2>4
  <2>6. ring[m - 1] = ring[k]
    BY <2>3, <2>5 DEF T
  <2>7. UNION {Adjacent(prs, i) : i \in ring[k]} \subseteq ring[k]
    BY <1>11 DEF Closed
  <2> QED
    BY <1>5, <2>4, <2>5, <2>6, <2>7
<1>13. Closed(prs, ring[last])
  <2>1. k <= last
    BY <1>1
  <2> QED
    BY <1>3, <1>11, <1>12, <2>1
<1> QED
  BY <1>2, <1>3, <1>4, <1>6, <1>8, <1>13

(* Who is in the stack of another has the same. *)
LEMMA SameComponent ==
  ASSUME NEW prs, OpenSet(prs), NEW n \in Numbers(prs), NEW m \in Numbers(Component(prs, n))
  PROVE  m \in Numbers(prs) /\ Component(prs, m) = Component(prs, n)
<1> DEFINE C(k) == Numbers(Component(prs, k))
<1>1. /\ n \in C(n) /\ C(n) \subseteq Numbers(prs) /\ Closed(prs, C(n))
      /\ Component(prs, n) = {pr \in prs : pr.number \in C(n)}
      /\ \A S : n \in S /\ Closed(prs, S) => C(n) \subseteq S
  BY ComponentIsClosed
<1>2. m \in Numbers(prs)
  BY <1>1
<1>3. /\ m \in C(m) /\ C(m) \subseteq Numbers(prs) /\ Closed(prs, C(m))
      /\ Component(prs, m) = {pr \in prs : pr.number \in C(m)}
      /\ \A S : m \in S /\ Closed(prs, S) => C(m) \subseteq S
  BY <1>2, ComponentIsClosed
<1>4. C(m) \subseteq C(n)
  BY <1>1, <1>3
<1>5. n \in C(m)
  <2> SUFFICES ASSUME n \notin C(m) PROVE FALSE
    OBVIOUS
  <2> DEFINE S == Numbers(prs) \ C(m)
  <2>1. Closed(prs, S)
    BY <1>3, AdjacentNumbers DEF Closed
  <2> QED
    BY <1>1, <1>3, <2>1
<1>6. C(n) \subseteq C(m)
  BY <1>1, <1>3, <1>5
<1> QED
  BY <1>1, <1>2, <1>3, <1>4, <1>6

-----------------------------------------------------------------------------
(* The plans. *)

(* What StackPlanner::plan returns for a list with every pull request in one place. *)
LEMMA PlanOfList ==
  ASSUME NEW prs, OpenSet(prs), NEW list, {list[i] : i \in DOMAIN list} = prs,
         \A i, k \in DOMAIN list : list[i] = list[k] => i = k
  PROVE  LET plan == PlanStack(list)
             parents == Parents(prs)
             order == MergeOrder(parents)
         IN /\ plan.ok \in BOOLEAN
            /\ plan.ok <=> /\ prs # {} /\ \A pr \in prs : ~BadParent(prs, pr)
                           /\ ~Cyclic(parents) /\ ~NotALine(parents, order)
            /\ plan.ok => plan.order = order /\ plan.updates = BaseUpdates(prs)
<1> DEFINE parents == Parents(prs)
           order == MergeOrder(parents)
           plan == [ok |-> TRUE, order |-> order, updates |-> BaseUpdates(prs)]
<1>1. ~Duplicate(list)
  BY DEF Duplicate, OpenSet
<1>2. list = <<>> => prs = {}
  OBVIOUS
<1>3. prs = {} => NotALine(parents, order)
  <2>1. prs = {} => Children(parents, NoParent) = {}
    BY DEF Children, Parents, Numbers
  <2> HIDE DEF parents, order
  <2>2. prs = {} => Cardinality(Children(parents, NoParent)) = 0
    BY <2>1, FS_EmptySet
  <2> QED
    BY <2>2 DEF NotALine
<1>4. \A why : Rejected(why).ok = FALSE
  BY DEF Rejected
<1>5. plan.ok = TRUE /\ plan.order = order /\ plan.updates = BaseUpdates(prs)
  OBVIOUS
<1>6. PlanStack(list) =
        IF list = <<>> THEN Rejected("empty")
        ELSE IF \E pr \in prs : BadParent(prs, pr) THEN Rejected("parent")
        ELSE IF Cyclic(parents) THEN Rejected("cycle")
        ELSE IF NotALine(parents, order) THEN Rejected("order")
        ELSE plan
  BY <1>1 DEF PlanStack
<1> HIDE DEF parents, order, plan
<1>7. CASE prs = {}
  <2>1. PlanStack(list).ok = FALSE
    BY <1>3, <1>4, <1>6, <1>7
  <2> QED
    BY <1>7, <2>1 DEF parents, order
<1>8. CASE prs # {}
  <2>1. PlanStack(list) =
          IF \E pr \in prs : BadParent(prs, pr) THEN Rejected("parent")
          ELSE IF Cyclic(parents) THEN Rejected("cycle")
          ELSE IF NotALine(parents, order) THEN Rejected("order")
          ELSE plan
    BY <1>2, <1>6, <1>8
  <2> HIDE DEF Rejected
  <2>2. CASE \E pr \in prs : BadParent(prs, pr)
    BY <1>4, <2>1, <2>2
  <2>3. CASE ~\E pr \in prs : BadParent(prs, pr)
    <3>1. CASE Cyclic(parents) \/ NotALine(parents, order)
      BY <1>4, <2>1, <2>3, <3>1 DEF parents, order
    <3>2. CASE ~Cyclic(parents) /\ ~NotALine(parents, order)
      <4>1. PlanStack(list) = plan
        BY <2>1, <2>3, <3>2
      <4> QED
        BY <1>5, <1>8, <2>3, <3>2, <4>1 DEF parents, order
    <3> QED
      BY <3>1, <3>2
  <2> QED
    BY <2>2, <2>3
<1> QED
  BY <1>7, <1>8

LEMMA PlanIsOrder ==
  ASSUME NEW prs, OpenSet(prs), NEW list, {list[i] : i \in DOMAIN list} = prs,
         \A i, k \in DOMAIN list : list[i] = list[k] => i = k, PlanStack(list).ok
  PROVE  LET order == PlanStack(list).order IN
         /\ order = MergeOrder(Parents(prs)) /\ IsOrder(Parents(prs), order)
         /\ order \in Seq(Numbers(prs)) /\ Len(order) = Cardinality(prs)
         /\ \A pr \in prs : ~BadParent(prs, pr)
         /\ PlanStack(list).updates = BaseUpdates(prs)
<1> DEFINE parents == Parents(prs)
<1>1. /\ PlanStack(list).order = MergeOrder(parents) /\ PlanStack(list).updates = BaseUpdates(prs)
      /\ \A pr \in prs : ~BadParent(prs, pr)
      /\ ~NotALine(parents, MergeOrder(parents))
  BY PlanOfList
<1>2. DOMAIN parents = Numbers(prs)
  BY DEF Parents
<1>3. IsFiniteSet(Numbers(prs)) /\ Cardinality(Numbers(prs)) = Cardinality(prs)
      /\ NoParent \notin Numbers(prs)
  BY NumbersOf
<1> HIDE DEF parents
<1>4. /\ IsOrder(parents, MergeOrder(parents)) /\ MergeOrder(parents) \in Seq(Numbers(prs))
      /\ Len(MergeOrder(parents)) = Cardinality(prs)
  BY <1>1, <1>2, <1>3, MergeOrderIsOrder
<1> QED
  BY <1>1, <1>4 DEF parents

=============================================================================
