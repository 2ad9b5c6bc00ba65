----------------------------- MODULE StackProofs -----------------------------
(***************************************************************************)
(* Theorems about Stack, for every value of its constants.                 *)
(***************************************************************************)
EXTENDS Stack, StackPlannerProofs

-----------------------------------------------------------------------------
(* Branches on branches, and lines of pull requests. *)

(* A plan that is a line: every pull request once, above the one it is declared on, or above
   the one that its base is the head of, and those whose base is not yet the branch below
   are to be updated. *)
IsLine(order, updates, b) ==
  /\ order \in Seq(PR)
  /\ \A i, k \in DOMAIN order : order[i] = order[k] => i = k
  /\ \A i \in DOMAIN order :
       LET n == order[i] IN
       IF i = 1 THEN Declared[n] = NoParent
                ELSE order[i - 1] = IF Declared[n] # NoParent THEN Declared[n] ELSE b[n]
  /\ updates = {[number |-> n, from |-> b[n], to |-> Declared[n]] :
                  n \in {order[i] : i \in {k \in DOMAIN order :
                          Declared[order[k]] \notin {NoParent, b[order[k]]}}}}

(* What enqueue_follow_up_jobs gets from the planner is a line. *)
LEMMA PlannedIsLine ==
  ASSUME NEW open \in SUBSET PR, NEW b \in [PR -> Names], NEW p \in open,
         Planned(open, b, p).ok
  PROVE  IsLine(Planned(open, b, p).order, Planned(open, b, p).updates, b)
<1> DEFINE Row(n) == [number |-> n, head |-> n, base |-> b[n], parent |-> Declared[n]]
           rows == Rows(open, b)
           prs == Component(rows, p)
           N == Numbers(prs)
           made == Planned(open, b, p)
           order == made.order
<1>1. rows = {Row(n) : n \in open}
  BY DEF Rows
<1>2. \A n : Row(n).number = n /\ Row(n).head = n /\ Row(n).base = b[n] /\ Row(n).parent = Declared[n]
  OBVIOUS
<1> HIDE DEF Row
<1>3. OpenSet(rows)
  <2> DEFINE f == [n \in open |-> Row(n)]
  <2>1. f \in Surjection(open, rows) /\ IsFiniteSet(open)
    BY <1>1, StackAssumption, FS_Subset DEF Surjection
  <2>2. IsFiniteSet(rows)
    BY <2>1, FS_Surjection
  <2>3. \A r \in rows : r.number \in Nat \ {NoParent} /\ r = Row(r.number)
    BY <1>1, <1>2, StackAssumption DEF NoParent
  <2> QED
    BY <2>2, <2>3 DEF OpenSet
<1>4. OpenSet(prs) /\ prs \subseteq rows
  <2>1. prs \subseteq rows
    BY DEF Component
  <2> HIDE DEF rows, prs
  <2> QED
    BY <1>3, <2>1, FS_Subset DEF OpenSet
<1>5. PlanStack(SetToSeq(prs)) = made /\ made.ok
  BY DEF Planned
<1> HIDE DEF rows, prs, made
<1>6. \A r \in prs : r = Row(r.number) /\ r.number \in PR
  BY <1>1, <1>2, <1>4
<1>7. /\ \A n \in N : n \in PR /\ Row(n) \in prs /\ Get(prs, n) = Row(n)
      /\ \A r \in prs : r.number \in N
  BY <1>4, <1>6, NumbersOf
<1>8. /\ IsOrder(Parents(prs), order) /\ order \in Seq(N)
      /\ \A pr \in prs : ~BadParent(prs, pr)
      /\ made.updates = BaseUpdates(prs)
  <2> DEFINE list == SetToSeq(prs)
  <2>1. /\ {list[i] : i \in DOMAIN list} = prs
        /\ \A i, k \in DOMAIN list : list[i] = list[k] => i = k
    BY <1>4, ListOfSet DEF OpenSet
  <2>2. PlanStack(list) = made /\ PlanStack(list).ok
    BY <1>5
  <2> HIDE DEF list
  <2>3. LET o == PlanStack(list).order IN
        /\ IsOrder(Parents(prs), o) /\ o \in Seq(Numbers(prs))
        /\ \A pr \in prs : ~BadParent(prs, pr)
        /\ PlanStack(list).updates = BaseUpdates(prs)
    BY <1>4, <2>1, <2>2, PlanIsOrder
  <2> QED
    BY <2>2, <2>3
<1> HIDE DEF N
<1>9. DOMAIN Parents(prs) = N
  BY DEF Parents, N
<1>10. /\ DOMAIN order = 1..Cardinality(N)
       /\ \A i \in DOMAIN order : order[i] \in N
       /\ \A i, k \in DOMAIN order : order[i] = order[k] => i = k
       /\ \A n \in N : \E i \in DOMAIN order : order[i] = n
       /\ \A i \in DOMAIN order : Parents(prs)[order[i]] = IF i = 1 THEN NoParent ELSE order[i - 1]
  BY <1>8, <1>9 DEF IsOrder
<1>11. Cardinality(N) \in Nat
  BY <1>4, NumbersOf, FS_CardinalityType DEF N
<1>12. ASSUME NEW n \in N
       PROVE  Parents(prs)[n] \in IF Declared[n] # NoParent THEN {Declared[n]} ELSE {b[n], NoParent}
  <2>1. Parents(prs)[n] =
          IF Declared[n] # NoParent THEN Declared[n]
          ELSE IF Heads(prs, b[n]) # {}
               THEN (CHOOSE h \in Heads(prs, b[n]) : TRUE).number ELSE NoParent
    BY <1>2, <1>7 DEF Parents, N
  <2>2. \A h \in Heads(prs, b[n]) : h.number = b[n]
    BY <1>2, <1>6 DEF Heads
  <2> QED
    BY <2>1, <2>2
<1>13. ASSUME NEW i \in DOMAIN order
       PROVE  IF i = 1 THEN Declared[order[i]] = NoParent
              ELSE order[i - 1] = IF Declared[order[i]] # NoParent THEN Declared[order[i]]
                                  ELSE b[order[i]]
  <2>1. order[i] \in N /\ Parents(prs)[order[i]] = IF i = 1 THEN NoParent ELSE order[i - 1]
    BY <1>10
  <2>2. i # 1 => order[i - 1] \in N /\ order[i - 1] # NoParent
    <3>1. i # 1 => i - 1 \in DOMAIN order
      BY <1>10, <1>11
    <3> QED
      BY <1>7, <1>10, <3>1, StackAssumption DEF NoParent
  <2> HIDE DEF order
  <2> QED
    BY <1>12, <2>1, <2>2
<1>14. \A n \in N : Declared[n] # NoParent => Get(prs, Declared[n]).head = Declared[n]
  BY <1>2, <1>7, <1>8 DEF BadParent, N
<1>15. BaseUpdates(prs) = {[number |-> n, from |-> b[n], to |-> Declared[n]] :
                             n \in {m \in N : Declared[m] \notin {NoParent, b[m]}}}
  <2> DEFINE U(n) == [number |-> n, from |-> b[n], to |-> Declared[n]]
             D == {q \in prs : q.parent # NoParent /\ q.base # Get(prs, q.parent).head}
             M == {m \in N : Declared[m] \notin {NoParent, b[m]}}
  <2>1. \A q \in D : q.number \in M /\
          [number |-> q.number, from |-> q.base, to |-> Get(prs, q.parent).head] = U(q.number)
    BY <1>2, <1>6, <1>7, <1>14
  <2>2. \A n \in M : Row(n) \in D
    BY <1>2, <1>7, <1>14
  <2>3. BaseUpdates(prs) =
          {[number |-> q.number, from |-> q.base, to |-> Get(prs, q.parent).head] : q \in D}
    BY DEF BaseUpdates
  <2> HIDE DEF D, M, U
  <2>4. \A n : Row(n).number = n
    BY <1>2
  <2> DEFINE V(q) == [number |-> q.number, from |-> q.base, to |-> Get(prs, q.parent).head]
  <2>5. BaseUpdates(prs) = {V(q) : q \in D} /\ \A q \in D : q.number \in M /\ V(q) = U(q.number)
    BY <2>1, <2>3
  <2> HIDE DEF V
  <2>6. \A n \in M : V(Row(n)) = U(n)
    BY <2>2, <2>4, <2>5
  <2>7. BaseUpdates(prs) = {U(n) : n \in M}
    BY <2>2, <2>5, <2>6
  <2> QED
    BY <2>7 DEF U, M
<1>16. {m \in N : Declared[m] \notin {NoParent, b[m]}} =
         {order[i] : i \in {k \in DOMAIN order : Declared[order[k]] \notin {NoParent, b[order[k]]}}}
  <2> HIDE DEF order
  <2> QED
    BY <1>10
<1>17. order \in Seq(PR)
  <2> HIDE DEF order
  <2> QED
    BY <1>7, <1>8
<1> QED
  BY <1>8, <1>10, <1>13, <1>15, <1>16, <1>17 DEF IsLine, made

(* How the histories of a stack come about, level by level. *)
Lift(h) == [b \in Names |-> IF b = Main THEN Bottom ELSE Append(h[Line[b]], <<b, 0>>)]

LEMMA StackedRises ==
  \E up \in [0..Cardinality(PR) -> [Names -> History]] :
    /\ Stacked = up[Cardinality(PR)] /\ up[0] = [b \in Names |-> Bottom]
    /\ \A k \in 1..Cardinality(PR) : up[k] = Lift(up[k - 1])
<1> DEFINE n == Cardinality(PR)
           S == [Names -> History]
           f == [h \in S |-> Lift(h)]
           flat == [b \in Names |-> Bottom]
           Up[k \in 0..Cardinality(PR)] ==
             [b \in Names |-> IF b = Main \/ k = 0 THEN Bottom
                              ELSE Append(Up[k - 1][Line[b]], <<b, 0>>)]
<1> HIDE DEF Up
<1>1. n \in Nat
  BY StackAssumption, FS_CardinalityType
<1>2. \A b \in Names : <<b, 0>> \in Change /\ (b # Main => Line[b] \in Names)
  BY StackAssumption DEF Change, Names, Main, NoParent
<1>3. Bottom \in History /\ flat \in S
  BY <1>2 DEF Bottom, History, Names
<1>4. \A h \in S : Lift(h) \in S
  <2> SUFFICES ASSUME NEW h \in S, NEW b \in Names, b # Main
               PROVE  Append(h[Line[b]], <<b, 0>>) \in History
    BY <1>3 DEF Lift
  <2>1. h[Line[b]] \in History /\ <<b, 0>> \in Change
    BY <1>2
  <2> QED
    BY <2>1 DEF History
<1>5. f \in [S -> S]
  BY <1>4
<1>6. PICK g \in [0..n -> S] : IsWalk(g, f, flat, n)
  <2> HIDE DEF f, S, n, flat
  <2> QED
    BY <1>1, <1>3, <1>5, WalkExists
<1>7. g[0] = flat /\ \A k \in 1..n : g[k] = Lift(g[k - 1])
  <2> HIDE DEF S, n, flat
  <2>1. g[0] = flat /\ \A k \in 1..n : g[k] = f[g[k - 1]] /\ g[k - 1] \in S
    BY <1>1, <1>6 DEF IsWalk
  <2> QED
    BY <2>1
<1> DEFINE Row(h, k) == [b \in Names |-> IF b = Main \/ k = 0 THEN Bottom
                                         ELSE Append(h[k - 1][Line[b]], <<b, 0>>)]
<1>8. \A h, k : k = 0 => Row(h, k) = flat
  OBVIOUS
<1>9. \A h, k : k # 0 => Row(h, k) = Lift(h[k - 1])
  BY DEF Lift
<1>10. g = [k \in 0..Cardinality(PR) |->
              [b \in Names |-> IF b = Main \/ k = 0 THEN Bottom
                               ELSE Append(g[k - 1][Line[b]], <<b, 0>>)]]
  <2> HIDE DEF Row, S, n, flat
  <2>1. \A k \in 0..n : g[k] = Row(g, k)
    BY <1>1, <1>7, <1>8, <1>9
  <2>2. g = [k \in 0..n |-> Row(g, k)]
    BY <2>1
  <2> QED
    BY <2>2 DEF Row, n
<1>11. Up = [k \in 0..Cardinality(PR) |->
               [b \in Names |-> IF b = Main \/ k = 0 THEN Bottom
                                ELSE Append(Up[k - 1][Line[b]], <<b, 0>>)]]
  BY <1>10, Zenon DEF Up
<1>12. Stacked = Up[n]
  BY DEF Stacked, Up
<1>13. \A k \in 0..n : Up[k] = Row(Up, k)
  BY <1>11
<1> HIDE DEF Row, S, n, flat
<1>14. Up[0] = flat /\ \A k \in 1..n : Up[k] = Lift(Up[k - 1])
  BY <1>1, <1>8, <1>9, <1>13
<1>15. \A k \in 0..n : Up[k] \in S
  <2> DEFINE T == {k \in 0..n : Up[k] \notin S}
  <2>1. SUFFICES ASSUME T # {} PROVE FALSE
    OBVIOUS
  <2>2. T \in SUBSET Nat
    BY <1>1
  <2> HIDE DEF T
  <2>3. PICK k \in T : \A m \in T : k <= m
    BY <2>1, <2>2, NatSetMin
  <2>4. k \in 0..n /\ Up[k] \notin S
    BY <2>3 DEF T
  <2>5. k # 0
    BY <1>3, <1>14, <2>4
  <2>6. k \in 1..n /\ k - 1 \in 0..n /\ ~(k <= k - 1)
    BY <1>1, <2>4, <2>5
  <2>7. Up[k - 1] \in S
    BY <2>3, <2>6 DEF T
  <2> QED
    BY <1>4, <1>14, <2>4, <2>6, <2>7
<1>16. Up \in [0..n -> S]
  BY <1>11, <1>15 DEF n
<1> QED
  BY <1>12, <1>14, <1>16 DEF n, S, flat

-----------------------------------------------------------------------------
(* The inductive invariant. *)

(* What was enqueued has a plan, and the plan is a line of at least two. *)
IsPlan(s) == s \in StackOf /\ IsLine(s.order, s.updates, s.bases) /\ Len(s.order) > 1
PlansOK == \A j \in Job : status[j] # "absent" => IsPlan(plan[j])

(* A run is of a job that was enqueued, at a place of its order, and knows of no updates
   but those of the plan. *)
Placed == {"checking", "visiting", "cloned", "rebased", "pushing"}
HasPlan(r) ==
  /\ r.job \in Job /\ status[r.job] # "absent"
  /\ r.left \subseteq plan[r.job].updates /\ r.pending \subseteq plan[r.job].updates
  /\ r.phase \in Placed => r.at \in DOMAIN plan[r.job].order
  /\ r.phase = "updating" => r.pending # {}

(* What a run is about to push holds everything it cloned, and rewrites only what it
   may. *)
IsSafe(r) ==
  LET p == plan[r.job].order[r.at] IN
  /\ r.phase \in {"cloned", "rebased", "pushing"} => p \notin fork
  /\ r.phase \in {"rebased", "pushing"} =>
       /\ Changes(r.head) \subseteq Changes(r.local)
       /\ p \in owned \/ Before(r.head, r.local)

RunOK(w) == run[w] # None => HasPlan(run[w]) /\ IsSafe(run[w])
RunsOK == \A w \in Worker : RunOK(w)

TypeInv == TypeOK /\ PlansOK /\ RunsOK

(* As long as no person did anything, a base is that of the plan, or the declared one. *)
BasesKept ==
  acts = 0 =>
    /\ closed = {}
    /\ \A j \in Job, p \in PR :
         status[j] # "absent" =>
           \/ base[p] = plan[j].bases[p]
           \/ Declared[p] # NoParent /\ base[p] = Declared[p]

-----------------------------------------------------------------------------
(* Histories. *)

LEMMA BeforeItself ==
  ASSUME NEW h \in History
  PROVE  Before(h, h)
BY DEF Before, History

LEMMA BeforeAppend ==
  ASSUME NEW h \in History, NEW c \in Change
  PROVE  /\ Append(h, c) \in History /\ Before(h, Append(h, c))
         /\ Changes(h) \subseteq Changes(Append(h, c))
BY DEF Before, History, Changes

LEMMA BeforeHolds ==
  ASSUME NEW h \in History, NEW k \in History, Before(h, k)
  PROVE  Changes(h) \subseteq Changes(k)
<1> SUFFICES ASSUME NEW i \in DOMAIN h PROVE h[i] \in Changes(k)
  BY DEF Changes
<1>1. /\ Len(h) \in Nat /\ Len(k) \in Nat /\ DOMAIN h = 1..Len(h) /\ DOMAIN k = 1..Len(k)
      /\ Len(h) <= Len(k)
  BY DEF History, Before
<1>2. h[i] = SubSeq(k, 1, Len(h))[i] /\ SubSeq(k, 1, Len(h))[i] = k[i]
  BY <1>1 DEF History, Before
<1> QED
  BY <1>1, <1>2 DEF Changes

(* Where in h the changes are that the target does not have. *)
OwnOf(h, target) == {i \in DOMAIN h : h[i] \notin Changes(target)}

(* The changes at those places, each once and in their order, on top of the target. *)
OnTopOf(h, target, at) ==
  /\ Rebased(h, target) = target \o [k \in 1..Len(at) |-> h[at[k]]]
  /\ \A i, k \in 1..Len(at) : i < k => at[i] < at[k]
  /\ \A i \in OwnOf(h, target) : \E k \in 1..Len(at) : at[k] = i

LEMMA RebasedIs ==
  ASSUME NEW h \in History, NEW target \in History
  PROVE  \E at \in Seq(OwnOf(h, target)) : OnTopOf(h, target, at)
<1> DEFINE own == {i \in DOMAIN h : h[i] \notin Changes(target)}
           upTo(i) == {k \in own : k <= i}
           Place(i) == Cardinality(upTo(i))
           at(k) == CHOOSE i \in own : Place(i) = k
           n == Cardinality(own)
           f == [k \in 1..n |-> at(k)]
<1>1. /\ Len(h) \in Nat /\ DOMAIN h = 1..Len(h) /\ own \subseteq Int
      /\ \A i \in DOMAIN h : h[i] \in Change
  BY DEF History
<1>2. IsFiniteSet(own) /\ Cardinality(own) \in Nat
  <2>1. IsFiniteSet(1..Len(h))
    BY <1>1, FS_Interval
  <2> QED
    BY <1>1, <2>1, FS_Subset, FS_CardinalityType
<1>3. \A i \in own : /\ IsFiniteSet(upTo(i)) /\ i \in upTo(i) /\ upTo(i) \subseteq own
                     /\ Place(i) \in 1..Cardinality(own) /\ Place(i) \in Nat
  <2> SUFFICES ASSUME NEW i \in own
               PROVE  /\ IsFiniteSet(upTo(i)) /\ i \in upTo(i) /\ upTo(i) \subseteq own
                      /\ Place(i) \in 1..Cardinality(own) /\ Place(i) \in Nat
    OBVIOUS
  <2>1. i \in upTo(i) /\ upTo(i) \subseteq own
    BY <1>1
  <2>2. IsFiniteSet(upTo(i)) /\ Place(i) \in Nat /\ Place(i) <= Cardinality(own)
    BY <1>2, <2>1, FS_Subset, FS_CardinalityType
  <2>3. Place(i) # 0
    BY <2>1, <2>2, FS_EmptySet
  <2> QED
    BY <1>2, <2>1, <2>2, <2>3
<1>4. \A i, k \in own : i < k => Place(i) < Place(k)
  <2> SUFFICES ASSUME NEW i \in own, NEW k \in own, i < k PROVE Place(i) < Place(k)
    OBVIOUS
  <2>1. upTo(i) \subseteq upTo(k) /\ k \notin upTo(i) /\ k \in upTo(k)
    BY <1>1
  <2>2. IsFiniteSet(upTo(k)) /\ Place(i) \in Nat /\ Place(k) \in Nat
    BY <1>3
  <2>3. Place(i) <= Place(k) /\ Place(i) # Place(k)
    BY <2>1, <2>2, FS_Subset
  <2> QED
    BY <2>2, <2>3
<1>5. \A i \in own : at(Place(i)) = i
  <2> SUFFICES ASSUME NEW i \in own PROVE at(Place(i)) = i
    OBVIOUS
  <2>1. at(Place(i)) \in own /\ Place(at(Place(i))) = Place(i)
    OBVIOUS
  <2> HIDE DEF at, Place, upTo, own
  <2>2. Place(i) \in Int
    BY <1>3
  <2>3. ~(at(Place(i)) < i) /\ ~(i < at(Place(i)))
    BY <1>4, <2>1, <2>2
  <2>4. i \in Int /\ at(Place(i)) \in Int
    BY <1>1, <2>1
  <2> QED
    BY <2>3, <2>4
<1>6. \A k \in 1..n : at(k) \in own /\ Place(at(k)) = k
  <2> DEFINE g == [i \in own |-> Place(i)]
             T == 1..Cardinality(own)
  <2>1. IsFiniteSet(T) /\ Cardinality(T) = Cardinality(own)
    BY <1>2, FS_Interval
  <2>2. \A i, k \in own : Place(i) = Place(k) => i = k
    <3> HIDE DEF own, upTo, Place
    <3> QED
      BY <1>1, <1>3, <1>4
  <2>3. g \in Injection(own, T)
    <3> HIDE DEF Place
    <3> QED
      BY <1>3, <2>2 DEF Injection, IsInjective
  <2> HIDE DEF g, T, own
  <2>4. g \in Surjection(own, T)
    BY <2>1, <2>3, FS_Injection
  <2>5. \A k \in T : \E i \in own : g[i] = k
    BY <2>4 DEF Surjection
  <2>6. \A k \in T : \E i \in own : Place(i) = k
    BY <2>5 DEF g
  <2> HIDE DEF Place
  <2> QED
    BY <2>6 DEF T
<1>7. Rebased(h, target) = target \o [k \in 1..n |-> h[at(k)]]
  BY DEF Rebased
<1> HIDE DEF own, Place, at, n
<1>8. f \in [1..n -> own] /\ n \in Nat /\ \A k \in 1..n : f[k] = at(k)
  BY <1>2, <1>6 DEF n, f
<1>9. [k \in 1..n |-> h[at(k)]] = [k \in 1..n |-> h[f[k]]]
  BY <1>8
<1>10. \A i, k \in 1..n : i < k => f[i] < f[k]
  <2> SUFFICES ASSUME NEW i \in 1..n, NEW k \in 1..n, i < k PROVE at(i) < at(k)
    BY <1>8
  <2>1. at(i) \in own /\ at(k) \in own /\ Place(at(i)) = i /\ Place(at(k)) = k
    BY <1>6
  <2>2. i \in Int /\ k \in Int /\ ~(k < i) /\ i # k
    BY <1>8
  <2>4. at(i) \in Int /\ at(k) \in Int
    BY <1>1, <2>1
  <2>3. ~(at(k) < at(i)) /\ at(i) # at(k)
    BY <1>4, <2>1, <2>2
  <2> QED
    BY <2>4, <2>3
<1>11. \A i \in own : \E k \in 1..n : f[k] = i
  BY <1>3, <1>5, <1>8 DEF n
<1>12. own = OwnOf(h, target)
  BY DEF own, OwnOf
<1> HIDE DEF f
<1>13. f \in Seq(own) /\ Len(f) = n
  BY <1>8, SeqDef, LenProperties
<1>14. OnTopOf(h, target, f)
  BY <1>7, <1>9, <1>10, <1>11, <1>12, <1>13 DEF OnTopOf
<1> QED
  BY <1>12, <1>13, <1>14

(* A rebase has the changes of the target and those of the branch, and no others. *)
LEMMA RebasedHolds ==
  ASSUME NEW h \in History, NEW target \in History
  PROVE  /\ Rebased(h, target) \in History
         /\ Changes(Rebased(h, target)) = Changes(h) \union Changes(target)
<1>0. PICK at \in Seq(OwnOf(h, target)) : OnTopOf(h, target, at)
  BY RebasedIs
<1> DEFINE n == Len(at)
<1>1. /\ at \in [1..n -> OwnOf(h, target)] /\ n \in Nat
      /\ Rebased(h, target) = target \o [k \in 1..n |-> h[at[k]]]
      /\ \A i \in OwnOf(h, target) : \E k \in 1..n : at[k] = i
  BY <1>0 DEF OnTopOf
<1> HIDE DEF n
<1> DEFINE rest == [k \in 1..n |-> h[at[k]]]
<1>2. /\ Len(h) \in Nat /\ DOMAIN h = 1..Len(h) /\ \A i \in DOMAIN h : h[i] \in Change
      /\ OwnOf(h, target) \subseteq DOMAIN h
  BY DEF History, OwnOf
<1>3. rest \in [1..n -> Change] /\ \A k \in 1..n : rest[k] \in Changes(h)
  BY <1>1, <1>2 DEF Changes
<1>4. rest \in Seq(Change) /\ Len(rest) = n /\ DOMAIN rest = 1..n
  <2> HIDE DEF rest
  <2> QED
    BY <1>1, <1>3, SeqDef, LenProperties
<1>5. \A i \in OwnOf(h, target) : \E k \in 1..n : rest[k] = h[i]
  BY <1>1
<1> HIDE DEF rest
<1> DEFINE all == target \o rest
<1>6. /\ all \in History /\ n \in Nat /\ Len(target) \in Nat /\ Len(all) = Len(target) + n
      /\ DOMAIN target = 1..Len(target) /\ DOMAIN all = 1..Len(all)
      /\ \A i \in 1..Len(target) : all[i] = target[i]
      /\ \A i \in 1..n : all[Len(target) + i] = rest[i]
  <2>1. target \in Seq(Change) /\ rest \in Seq(Change)
    BY <1>4 DEF History
  <2>2. all \in Seq(Change) /\ Len(all) = Len(target) + Len(rest) /\ Len(target) \in Nat
    BY <2>1
  <2>3. \A i \in 1..Len(target) : all[i] = target[i]
    BY <1>4, <2>1
  <2>4. \A i \in 1..n : all[Len(target) + i] = rest[i]
    BY <1>1, <1>4, <2>1
  <2> HIDE DEF all
  <2>5. DOMAIN target = 1..Len(target) /\ DOMAIN all = 1..Len(all) /\ Len(all) = Len(target) + n
    BY <1>4, <2>1, <2>2
  <2> QED
    BY <1>1, <2>2, <2>3, <2>4, <2>5 DEF History
<1> HIDE DEF all
<1>7. Changes(target) \subseteq Changes(all)
  BY <1>6 DEF Changes
<1>8. \A i \in 1..n : rest[i] \in Changes(all)
  <2> SUFFICES ASSUME NEW i \in 1..n PROVE rest[i] \in Changes(all)
    OBVIOUS
  <2>1. Len(target) + i \in DOMAIN all
    BY <1>6
  <2> QED
    BY <1>6, <2>1 DEF Changes
<1>9. Changes(h) \subseteq Changes(all)
  <2> SUFFICES ASSUME NEW i \in DOMAIN h PROVE h[i] \in Changes(all)
    BY DEF Changes
  <2>1. CASE i \in OwnOf(h, target)
    BY <1>5, <1>8, <2>1
  <2>2. CASE i \notin OwnOf(h, target)
    BY <1>7, <2>2 DEF OwnOf
  <2> QED
    BY <2>1, <2>2
<1>10. Changes(all) \subseteq Changes(h) \union Changes(target)
  <2> SUFFICES ASSUME NEW i \in 1..Len(all) PROVE all[i] \in Changes(h) \union Changes(target)
    BY <1>6 DEF Changes
  <2>1. CASE i <= Len(target)
    <3>1. i \in 1..Len(target)
      BY <1>6, <2>1
    <3> QED
      BY <1>6, <3>1 DEF Changes
  <2>2. CASE ~(i <= Len(target))
    <3>1. i - Len(target) \in 1..n /\ Len(target) + (i - Len(target)) = i
      BY <1>6, <2>2
    <3> QED
      BY <1>3, <1>6, <3>1
  <2> QED
    BY <2>1, <2>2
<1> QED
  BY <1>1, <1>6, <1>7, <1>9, <1>10 DEF rest, all

-----------------------------------------------------------------------------
(* Plans and records. *)

(* The update that comes next is one of those that are left. *)
LEMMA LowestIsOne ==
  ASSUME NEW S \in SUBSET Update, S # {}
  PROVE  Lowest(S) \in S
<1> DEFINE N == {u.number : u \in S}
           Less == OpToRel(<, Nat)
<1>0. \A u \in S : u.number \in Nat
  BY StackAssumption DEF Update
<1>1. N \subseteq Nat /\ N # {} /\ \A u \in S : u.number \in N
  BY <1>0
<1>2. IsWellFoundedOn(Less, Nat)
  BY NatLessThanWellFounded
<1>3. \A a, b \in Nat : <<a, b>> \in Less <=> a < b
  BY DEF OpToRel
<1> HIDE DEF Less
<1>4. PICK n \in N : \A m \in N : <<m, n>> \notin Less
  BY <1>1, <1>2, WFMin
<1>5. PICK u \in S : u.number = n
  OBVIOUS
<1> HIDE DEF N
<1>6. \A m \in N : n <= m
  <2> SUFFICES ASSUME NEW m \in N PROVE n <= m
    OBVIOUS
  <2>1. m \in Nat /\ n \in Nat /\ ~(m < n)
    BY <1>1, <1>3, <1>4
  <2> QED
    BY <2>1
<1>7. \A v \in S : u.number <= v.number
  BY <1>1, <1>5, <1>6
<1> QED
  BY <1>7 DEF Lowest

-----------------------------------------------------------------------------
(* Runs. *)

(* The record of a run, with its plan. *)
LEMMA RunRecord ==
  ASSUME TypeInv, NEW w \in Worker, run[w] # None
  PROVE  /\ run[w] \in Run /\ HasPlan(run[w]) /\ IsSafe(run[w])
         /\ run[w].job \in Job /\ IsPlan(Stack(w))
<1>1. run[w] \in Run /\ HasPlan(run[w]) /\ IsSafe(run[w])
  BY DEF TypeInv, TypeOK, RunsOK, RunOK
<1> QED
  BY <1>1 DEF HasPlan, TypeInv, PlansOK, Stack

LEMMA RunFields ==
  ASSUME NEW r \in Run
  PROVE  /\ r.phase \in Phases /\ r.left \in SUBSET Update /\ r.pending \in SUBSET Update
         /\ r.at \in Nat /\ r.head \in History /\ r.local \in History
         /\ r.outcome \in Outcomes /\ r.since \in 0..MaxActs /\ r.job \in Job
BY DEF Run

(* Plans and what the settings say stay. *)
PlansStay ==
  /\ \A j \in Job : status[j] # "absent" => plan'[j] = plan[j] /\ status'[j] # "absent"
  /\ UNCHANGED <<owned, fork>>

RunMoves(w) ==
  /\ run' \in [Worker -> Run \union {None}]
  /\ \A v \in Worker \ {w} : run'[v] = run[v]
  /\ RunOK(w)'

LEMMA RunBecomes ==
  ASSUME TypeInv, NEW w \in Worker, NEW n \in Run, run' = [run EXCEPT ![w] = n],
         HasPlan(n), IsSafe(n), PlansStay
  PROVE  RunMoves(w) /\ run'[w] = n
<1>1. /\ run' \in [Worker -> Run \union {None}] /\ run'[w] = n
      /\ \A v \in Worker \ {w} : run'[v] = run[v]
  BY DEF TypeInv, TypeOK
<1>2. n.job \in Job /\ plan'[n.job] = plan[n.job] /\ status'[n.job] # "absent"
  BY DEF HasPlan, PlansStay
<1>3. HasPlan(run[w])' /\ IsSafe(run[w])'
  BY <1>1, <1>2 DEF HasPlan, IsSafe, PlansStay
<1> QED
  BY <1>1, <1>3 DEF RunMoves, RunOK

LEMMA RunRests ==
  ASSUME TypeInv, NEW w \in Worker, run' = [run EXCEPT ![w] = None]
  PROVE  RunMoves(w)
<1>1. /\ run' \in [Worker -> Run \union {None}] /\ run'[w] = None
      /\ \A v \in Worker \ {w} : run'[v] = run[v]
  BY DEF TypeInv, TypeOK
<1> QED
  BY <1>1 DEF RunMoves, RunOK

LEMMA RunKept ==
  ASSUME TypeInv, NEW v \in Worker, run'[v] = run[v], PlansStay
  PROVE  RunOK(v)'
<1> SUFFICES ASSUME run[v] # None PROVE RunOK(v)'
  BY DEF RunOK
<1> DEFINE r == run[v]
<1>1. HasPlan(r) /\ IsSafe(r)
  BY RunRecord
<1>2. r.job \in Job /\ plan'[r.job] = plan[r.job] /\ status'[r.job] # "absent"
  BY <1>1 DEF HasPlan, PlansStay
<1>3. HasPlan(run[v])' /\ IsSafe(run[v])'
  BY <1>1, <1>2 DEF HasPlan, IsSafe, PlansStay
<1> QED
  BY <1>3 DEF RunOK

LEMMA RunsKept ==
  ASSUME TypeInv, PlansStay, UNCHANGED run \/ \E w \in Worker : RunMoves(w)
  PROVE  run' \in [Worker -> Run \union {None}] /\ RunsOK'
BY RunKept DEF RunMoves, RunsOK, TypeInv, TypeOK

(* What a run that ends keeps. *)
LEMMA EndedOK ==
  ASSUME TypeInv, NEW r \in Run, HasPlan(r), NEW outcome \in Outcomes
  PROVE  /\ Ended(r, outcome) \in Run /\ HasPlan(Ended(r, outcome)) /\ IsSafe(Ended(r, outcome))
         /\ Ended(r, outcome).outcome = outcome
<1> DEFINE n == Ended(r, outcome)
<1>1. "closing" \in Phases /\ <<>> \in History /\ 1 \in Nat
  BY DEF Phases, History
<1>2. n \in Run /\ n.phase = "closing" /\ n.job = r.job /\ n.left = {} /\ n.pending = {}
      /\ n.outcome = outcome
  BY <1>1 DEF Ended, Run
<1> HIDE DEF n
<1>3. HasPlan(n) /\ IsSafe(n)
  BY <1>2 DEF HasPlan, IsSafe, Placed
<1> QED
  BY <1>2, <1>3 DEF n

LEMMA EndsMoves ==
  ASSUME TypeInv, NEW w \in Worker, run[w] # None, NEW outcome \in Outcomes, Ends(w, outcome),
         PlansStay
  PROVE  RunMoves(w) /\ run'[w].outcome = outcome
<1>1. run[w] \in Run /\ HasPlan(run[w])
  BY RunRecord
<1> QED
  BY <1>1, EndedOK, RunBecomes DEF Ends

LEMMA OnwardOK ==
  ASSUME TypeInv, NEW w \in Worker, run[w] # None, run[w].phase \in Placed
  PROVE  /\ Onward(w, run[w]) \in Run /\ HasPlan(Onward(w, run[w])) /\ IsSafe(Onward(w, run[w]))
         /\ Onward(w, run[w]).outcome = run[w].outcome
<1> DEFINE r == run[w]
           order == Stack(w).order
           phase == IF r.at = Len(order) THEN "basing" ELSE "visiting"
           n == Onward(w, r)
<1>1. r \in Run /\ HasPlan(r) /\ IsPlan(Stack(w)) /\ r.at \in DOMAIN order
  BY RunRecord DEF HasPlan, Stack
<1>2. order \in Seq(PR)
  BY <1>1 DEF IsPlan, IsLine
<1>3. /\ phase \in Phases /\ <<>> \in History /\ r.at + 1 \in Nat
      /\ phase = "visiting" => r.at + 1 \in DOMAIN order
  BY <1>1, <1>2, RunFields DEF Phases, History
<1>4. phase \in {"basing", "visiting"} /\ order = plan[r.job].order
  BY DEF Stack
<1>5. n = [r EXCEPT !.at = r.at + 1, !.head = <<>>, !.local = <<>>, !.phase = phase]
  BY DEF Onward
<1> HIDE DEF phase, n, r, order
<1>6. n \in Run /\ n.phase = phase /\ n.job = r.job /\ n.left = r.left /\ n.pending = r.pending
      /\ n.at = r.at + 1 /\ n.outcome = r.outcome
  BY <1>1, <1>3, <1>5 DEF Run
<1>7. HasPlan(n) /\ IsSafe(n)
  BY <1>1, <1>3, <1>4, <1>6 DEF HasPlan, IsSafe, Placed
<1> QED
  BY <1>6, <1>7 DEF n, r

LEMMA CalledMoves ==
  ASSUME TypeInv, NEW w \in Worker, NEW r \in Run, HasPlan(r), IsSafe(r), Called(w, r), PlansStay
  PROVE  RunMoves(w) /\ faults' \in 0..MaxFaults /\ run'[w].outcome \in {r.outcome, "error"}
<1>1. faults' \in 0..MaxFaults
  BY StackAssumption DEF Called, TypeInv, TypeOK
<1>2. CASE run' = [run EXCEPT ![w] = r]
  BY <1>1, <1>2, RunBecomes
<1>3. CASE run' = [run EXCEPT ![w] = Ended(r, "error")]
  <2> DEFINE n == Ended(r, "error")
  <2>1. "error" \in Outcomes
    BY DEF Outcomes
  <2>2. n \in Run /\ HasPlan(n) /\ IsSafe(n) /\ n.outcome = "error"
    BY <2>1, EndedOK
  <2>3. run' = [run EXCEPT ![w] = n]
    BY <1>3
  <2> HIDE DEF n
  <2>4. RunMoves(w) /\ run'[w] = n
    BY <2>2, <2>3, RunBecomes
  <2> QED
    BY <1>1, <2>2, <2>4
<1> QED
  BY <1>1, <1>2, <1>3 DEF Called

-----------------------------------------------------------------------------
(* The steps of a run. *)

LEMMA CurrentIsPR ==
  ASSUME TypeInv, NEW w \in Worker, run[w] # None, run[w].phase \in Placed
  PROVE  /\ Current(w) \in PR /\ OnTop(w) \in Names
         /\ Current(w) = plan[run[w].job].order[run[w].at]
<1> DEFINE order == Stack(w).order
           at == run[w].at
<1>1. IsPlan(Stack(w)) /\ at \in DOMAIN order /\ at \in Nat
  BY RunRecord, RunFields DEF HasPlan, Stack
<1>2. order \in Seq(PR) /\ Stack(w).bases \in [PR -> Names]
  BY <1>1 DEF IsPlan, IsLine, StackOf
<1>3. order[at] \in PR /\ (at # 1 => order[at - 1] \in PR)
  <2> HIDE DEF order, at
  <2> QED
    BY <1>1, <1>2
<1> QED
  BY <1>2, <1>3 DEF Current, OnTop, Names, Stack

(* Outcomes that complain about a base. *)
Complains(r) == r.outcome \in {"blocked by base", "base changed"}

LEMMA ElsewhereStays ==
  ASSUME Elsewhere
  PROVE  PlansStay /\ UNCHANGED <<board, acts>>
BY DEF Elsewhere, PlansStay, board

(* A run in a phase, with other lists of updates. *)
LEMMA RunWith ==
  ASSUME NEW r \in Run, NEW phase \in Phases, NEW left \in SUBSET Update,
         NEW pending \in SUBSET Update
  PROVE  LET n == [r EXCEPT !.phase = phase, !.left = left, !.pending = pending] IN
         /\ n \in Run /\ n.phase = phase /\ n.left = left /\ n.pending = pending
         /\ n.job = r.job /\ n.at = r.at /\ n.head = r.head /\ n.local = r.local
         /\ n.outcome = r.outcome
         /\ [r EXCEPT !.phase = phase] = [r EXCEPT !.phase = phase, !.left = r.left,
                                                   !.pending = r.pending]
         /\ [r EXCEPT !.left = left] = [r EXCEPT !.phase = r.phase, !.left = left,
                                                 !.pending = r.pending]
         /\ [r EXCEPT !.left = left, !.pending = pending] =
              [r EXCEPT !.phase = r.phase, !.left = left, !.pending = pending]
         /\ [r EXCEPT !.phase = phase, !.pending = pending] =
              [r EXCEPT !.phase = phase, !.left = r.left, !.pending = pending]
BY DEF Run

(* A run goes on to a phase that asks for nothing new. *)
LEMMA RunGoes ==
  ASSUME TypeInv, NEW w \in Worker, run[w] # None, PlansStay, NEW phase \in Phases,
         NEW left \in SUBSET Stack(w).updates, NEW pending \in SUBSET Stack(w).updates,
         \/ phase \in {"visiting", "checking"} /\ run[w].phase \in Placed
         \/ phase = "pushing" /\ run[w].phase = "rebased"
         \/ phase = "updating" /\ pending # {}
         \/ phase = "basing",
         run' = [run EXCEPT ![w] = [run[w] EXCEPT !.phase = phase, !.left = left,
                                                  !.pending = pending]]
  PROVE  RunMoves(w) /\ run'[w].outcome = run[w].outcome
<1> DEFINE r == run[w]
           n == [r EXCEPT !.phase = phase, !.left = left, !.pending = pending]
<1>1. r \in Run /\ HasPlan(r) /\ IsSafe(r) /\ IsPlan(plan[r.job])
  BY RunRecord DEF Stack
<1>2. Stack(w).updates = plan[r.job].updates /\ plan[r.job].updates \subseteq Update
  BY <1>1 DEF IsPlan, StackOf, Stack
<1>3. left \in SUBSET Update /\ pending \in SUBSET Update
  BY <1>2
<1> HIDE DEF r
<1>4. /\ n \in Run /\ n.phase = phase /\ n.left = left /\ n.pending = pending
      /\ n.job = r.job /\ n.at = r.at /\ n.head = r.head /\ n.local = r.local
      /\ n.outcome = r.outcome
  BY <1>1, <1>3 DEF Run
<1>5. run' = [run EXCEPT ![w] = n]
  BY DEF r
<1> HIDE DEF n
<1>6. HasPlan(n)
  BY <1>1, <1>2, <1>4 DEF HasPlan, Placed, r
<1>7. IsSafe(n)
  BY <1>1, <1>4 DEF IsSafe, r
<1>8. RunMoves(w) /\ run'[w] = n
  BY <1>4, <1>5, <1>6, <1>7, RunBecomes
<1> QED
  BY <1>4, <1>8 DEF r

LEMMA CheckBaseMoves ==
  ASSUME TypeInv, NEW w \in Worker, CheckBase(w)
  PROVE  RunMoves(w)
<1> DEFINE r == run[w]
           u == Lowest(r.left)
<1>1. r # None /\ r.phase = "checking" /\ PlansStay
  BY ElsewhereStays DEF CheckBase, In
<1>2. r \in Run /\ r.left \subseteq Stack(w).updates /\ r.pending \subseteq Stack(w).updates
      /\ r.left \in SUBSET Update
  BY <1>1, RunRecord, RunFields DEF HasPlan, Stack
<1>3. "visiting" \in Phases /\ "checking" \in Phases /\ "error" \in Outcomes
      /\ "base changed" \in Outcomes /\ r.phase \in Placed
  BY <1>1 DEF Phases, Outcomes, Placed
<1>4. CASE run' = [run EXCEPT ![w].phase = "visiting"]
  <2>1. [r EXCEPT !.phase = "visiting"] =
          [r EXCEPT !.phase = "visiting", !.left = r.left, !.pending = r.pending]
    BY <1>2, <1>3, RunWith, RunFields
  <2>2. run' = [run EXCEPT ![w] = [r EXCEPT !.phase = "visiting", !.left = r.left,
                                            !.pending = r.pending]]
    BY <1>4, <2>1
  <2> QED
    BY <1>1, <1>2, <1>3, <2>2, RunGoes
<1>5. CASE Ends(w, "error") \/ Ends(w, "base changed")
  BY <1>1, <1>3, <1>5, EndsMoves
<1>6. CASE r.left # {} /\ \/ run' = [run EXCEPT ![w].left = @ \ {u}, ![w].pending = @ \union {u}]
                          \/ run' = [run EXCEPT ![w].left = @ \ {u}]
  <2>1. u \in r.left
    BY <1>2, <1>6, LowestIsOne
  <2> DEFINE left == r.left \ {u}
             more == r.pending \union {u}
  <2>2. /\ left \in SUBSET Stack(w).updates /\ more \in SUBSET Stack(w).updates
        /\ left \in SUBSET Update /\ more \in SUBSET Update
    BY <1>2, <2>1, RunFields
  <2>3. \/ run' = [run EXCEPT ![w] = [r EXCEPT !.left = left, !.pending = more]]
        \/ run' = [run EXCEPT ![w] = [r EXCEPT !.left = left]]
    BY <1>6
  <2> HIDE DEF left, more, r
  <2>4. /\ [r EXCEPT !.left = left, !.pending = more] =
             [r EXCEPT !.phase = r.phase, !.left = left, !.pending = more]
        /\ [r EXCEPT !.left = left] =
             [r EXCEPT !.phase = r.phase, !.left = left, !.pending = r.pending]
    BY <1>2, <2>2, RunWith, RunFields
  <2>5. PICK pending \in {more, r.pending} :
          run' = [run EXCEPT ![w] = [r EXCEPT !.phase = "checking", !.left = left,
                                              !.pending = pending]]
    BY <1>1, <2>3, <2>4
  <2>6. pending \in SUBSET Stack(w).updates
    BY <1>2, <2>2, <2>5
  <2> QED
    BY <1>1, <1>3, <2>2, <2>5, <2>6, RunGoes DEF r
<1> QED
  BY <1>4, <1>5, <1>6 DEF CheckBase

LEMMA VisitMoves ==
  ASSUME TypeInv, NEW w \in Worker, Visit(w)
  PROVE  RunMoves(w)
<1> DEFINE r == run[w]
           p == Current(w)
           n == [r EXCEPT !.phase = "cloned", !.head = history[p]]
<1>1. r # None /\ r.phase = "visiting" /\ r.phase \in Placed /\ PlansStay
  BY ElsewhereStays DEF Visit, In, Placed
<1>2. r \in Run /\ HasPlan(r) /\ p \in PR /\ p = plan[r.job].order[r.at]
  BY <1>1, RunRecord, CurrentIsPR
<1>3. history[p] \in History
  BY <1>2 DEF TypeInv, TypeOK, Names
<1>4. CASE Ends(w, "blocked") \/ Ends(w, "blocked by base")
  BY <1>1, <1>4, EndsMoves DEF Outcomes
<1>5. CASE p \notin fork /\ run' = [run EXCEPT ![w] = n]
  <2> HIDE DEF r, p
  <2>1. /\ n \in Run /\ n.phase = "cloned" /\ n.job = r.job /\ n.at = r.at
        /\ n.left = r.left /\ n.pending = r.pending
    BY <1>2, <1>3 DEF Run, Phases
  <2> HIDE DEF n
  <2>2. HasPlan(n) /\ IsSafe(n)
    BY <1>1, <1>2, <1>5, <2>1 DEF HasPlan, IsSafe, Placed
  <2> QED
    BY <1>1, <1>5, <2>1, <2>2, RunBecomes
<1>6. \/ Ends(w, "blocked") \/ Ends(w, "blocked by base")
      \/ p \notin fork /\ run' = [run EXCEPT ![w].phase = "cloned", ![w].head = history[p]]
  BY DEF Visit
<1> QED
  BY <1>4, <1>5, <1>6

LEMMA RebaseMoves ==
  ASSUME TypeInv, NEW w \in Worker, Rebase(w)
  PROVE  RunMoves(w)
<1> DEFINE r == run[w]
           p == Current(w)
           after == Rebased(r.head, history[OnTop(w)])
           n == [r EXCEPT !.phase = "rebased", !.local = after]
<1>1. r # None /\ r.phase = "cloned" /\ r.phase \in Placed /\ PlansStay
  BY ElsewhereStays DEF Rebase, In, Placed
<1>2. /\ r \in Run /\ HasPlan(r) /\ IsSafe(r) /\ p = plan[r.job].order[r.at]
      /\ r.head \in History /\ history[OnTop(w)] \in History
  BY <1>1, RunRecord, RunFields, CurrentIsPR DEF TypeInv, TypeOK
<1>3. CASE Ends(w, "error") \/ Ends(w, "blocked")
  BY <1>1, <1>3, EndsMoves DEF Outcomes
<1>4. CASE run' = [run EXCEPT ![w] = Onward(w, run[w])]
  BY <1>1, <1>4, OnwardOK, RunBecomes
<1>5. CASE /\ p \in owned \/ Before(r.head, after)
           /\ run' = [run EXCEPT ![w].phase = "rebased", ![w].local = after]
  <2>1. run' = [run EXCEPT ![w] = n]
    BY <1>5
  <2>2. after \in History /\ Changes(r.head) \subseteq Changes(after)
    BY <1>2, RebasedHolds
  <2> HIDE DEF r, p, after
  <2>3. /\ n \in Run /\ n.phase = "rebased" /\ n.job = r.job /\ n.at = r.at /\ n.head = r.head
        /\ n.local = after /\ n.left = r.left /\ n.pending = r.pending
    BY <1>2, <2>2 DEF Run, Phases
  <2> HIDE DEF n
  <2>4. HasPlan(n) /\ IsSafe(n)
    BY <1>1, <1>2, <1>5, <2>2, <2>3 DEF HasPlan, IsSafe, Placed
  <2> QED
    BY <1>1, <2>1, <2>3, <2>4, RunBecomes
<1> QED
  BY <1>3, <1>4, <1>5 DEF Rebase

LEMMA EnsureMoves ==
  ASSUME TypeInv, NEW w \in Worker, Ensure(w)
  PROVE  RunMoves(w) /\ run'[w].outcome = run[w].outcome
<1> DEFINE r == run[w]
           phase == IF r.phase = "rebased" THEN "pushing" ELSE "updating"
<1>1. /\ r # None /\ PlansStay
      /\ \/ r.phase = "rebased" /\ phase = "pushing"
         \/ r.phase = "basing" /\ phase = "updating" /\ r.pending # {}
  BY ElsewhereStays DEF Ensure, In
<1>2. r \in Run /\ r.left \subseteq Stack(w).updates /\ r.pending \subseteq Stack(w).updates
  BY <1>1, RunRecord DEF HasPlan, Stack
<1>3. phase \in Phases
  BY DEF Phases
<1>4. run' = [run EXCEPT ![w] = [r EXCEPT !.phase = phase]]
  BY DEF Ensure
<1> HIDE DEF phase
<1>5. [r EXCEPT !.phase = phase] =
        [r EXCEPT !.phase = phase, !.left = r.left, !.pending = r.pending]
  BY <1>2, <1>3, RunWith, RunFields
<1>6. run' = [run EXCEPT ![w] = [r EXCEPT !.phase = phase, !.left = r.left,
                                          !.pending = r.pending]]
  BY <1>4, <1>5
<1> QED
  BY <1>1, <1>2, <1>3, <1>6, RunGoes

GitHubType == history \in [Names -> History] /\ base \in [PR -> Names] /\ closed \subseteq PR

BoardType ==
  /\ status \in [Job -> {"absent"} \union Open \union Settled]
  /\ executor \in [Job -> Worker \union {None}]
  /\ attempt \in [Job -> Nat] /\ \A j \in Job : attempt[j] <= MaxAttempts[j]

(* A push that GitHub takes holds what the branch held, and rewrites it only if that is
   allowed. *)
LEMMA PushMoves ==
  ASSUME TypeInv, NEW w \in Worker, Push(w)
  PROVE  /\ RunMoves(w) /\ GitHubType' /\ faults' \in 0..MaxFaults
         /\ run'[w].outcome \in {run[w].outcome, "error"}
         /\ \/ UNCHANGED history
            \/ \E p \in PR \ fork, local \in History :
                 /\ history' = [history EXCEPT ![p] = local]
                 /\ Changes(history[p]) \subseteq Changes(local)
                 /\ p \in owned \/ Before(history[p], local)
<1> DEFINE r == run[w]
           p == Current(w)
<1>1. r # None /\ r.phase = "pushing" /\ r.phase \in Placed /\ PlansStay
      /\ UNCHANGED <<base, closed>>
  BY ElsewhereStays DEF Push, In, Placed
<1>2. /\ r \in Run /\ HasPlan(r) /\ IsSafe(r) /\ p = plan[r.job].order[r.at] /\ p \in PR
      /\ r.head \in History /\ r.local \in History /\ history[p] \in History
  BY <1>1, RunRecord, RunFields, CurrentIsPR DEF TypeInv, TypeOK, Names
<1>3. CASE Ends(w, "error") /\ UNCHANGED <<history, faults>>
  BY <1>1, <1>3, EndsMoves DEF Outcomes, GitHubType, TypeInv, TypeOK
<1>4. CASE /\ Accepts(p, r.head, r.local) /\ history' = [history EXCEPT ![p] = r.local]
           /\ Called(w, Onward(w, r))
  <2>1. RunMoves(w) /\ faults' \in 0..MaxFaults /\ run'[w].outcome \in {r.outcome, "error"}
    <3> DEFINE n == Onward(w, r)
    <3>1. n \in Run /\ HasPlan(n) /\ IsSafe(n) /\ n.outcome = r.outcome /\ Called(w, n)
      BY <1>1, <1>4, OnwardOK
    <3> HIDE DEF n
    <3> QED
      BY <1>1, <3>1, CalledMoves
  <2>2. GitHubType'
    BY <1>1, <1>2, <1>4 DEF GitHubType, TypeInv, TypeOK
  <2>3. Changes(r.head) \subseteq Changes(r.local) /\ p \notin fork
        /\ (p \in owned \/ Before(r.head, r.local))
    BY <1>1, <1>2 DEF IsSafe
  <2>4. /\ Changes(history[p]) \subseteq Changes(r.local)
        /\ p \in owned \/ Before(history[p], r.local)
    <3>1. CASE Before(r.head, r.local)
      BY <1>2, <1>4, <3>1, BeforeHolds DEF Accepts
    <3>2. CASE ~Before(r.head, r.local)
      BY <1>4, <2>3, <3>2 DEF Accepts
    <3> QED
      BY <3>1, <3>2
  <2> QED
    BY <1>2, <1>4, <2>1, <2>2, <2>3, <2>4
<1> QED
  BY <1>3, <1>4 DEF Push

(* A base is changed to what is declared in some plan. *)
LEMMA UpdateBaseMoves ==
  ASSUME TypeInv, NEW w \in Worker, UpdateBase(w)
  PROVE  /\ RunMoves(w) /\ GitHubType' /\ faults' \in 0..MaxFaults
         /\ run'[w].outcome \in {run[w].outcome, "error"}
         /\ \/ UNCHANGED base
            \/ \E u \in Stack(w).updates : base' = [base EXCEPT ![u.number] = u.to]
<1> DEFINE r == run[w]
           u == Lowest(r.pending)
           n == [r EXCEPT !.phase = "basing", !.pending = @ \ {u}]
<1>1. r # None /\ r.phase = "updating" /\ PlansStay /\ UNCHANGED <<history, closed>>
  BY ElsewhereStays DEF UpdateBase, In
<1>2. /\ r \in Run /\ HasPlan(r) /\ r.pending # {}
      /\ r.pending \subseteq Stack(w).updates /\ r.pending \in SUBSET Update
  BY <1>1, RunRecord, RunFields DEF HasPlan, Stack
<1>3. u \in r.pending
  BY <1>2, LowestIsOne
<1>4. CASE Ends(w, "error") /\ UNCHANGED <<base, faults>>
  BY <1>1, <1>4, EndsMoves DEF Outcomes, GitHubType, TypeInv, TypeOK
<1>5. CASE base' = [base EXCEPT ![u.number] = u.to] /\ Called(w, n)
  <2>1. u.number \in PR /\ u.to \in Names
    BY <1>2, <1>3 DEF Update
  <2>2. GitHubType'
    BY <1>1, <1>5, <2>1 DEF GitHubType, TypeInv, TypeOK
  <2> HIDE DEF r, u
  <2>3. /\ n \in Run /\ n.phase = "basing" /\ n.job = r.job /\ n.left = r.left
        /\ n.pending \subseteq r.pending /\ n.outcome = r.outcome
    BY <1>2 DEF Run, Phases
  <2> HIDE DEF n
  <2>4. HasPlan(n) /\ IsSafe(n)
    BY <1>2, <2>3 DEF HasPlan, IsSafe, Placed
  <2>5. RunMoves(w) /\ faults' \in 0..MaxFaults /\ run'[w].outcome \in {r.outcome, "error"}
    BY <1>1, <1>5, <2>3, <2>4, CalledMoves
  <2> QED
    BY <1>2, <1>3, <1>5, <2>2, <2>5 DEF r
<1> QED
  BY <1>4, <1>5 DEF UpdateBase

LEMMA BoardGoes ==
  ASSUME TypeInv, NEW j \in Job, NEW to \in Open \union Settled,
         NEW x \in Worker \union {None}, Goes(j, to, x)
  PROVE  /\ status' \in [Job -> {"absent"} \union Open \union Settled]
         /\ executor' \in [Job -> Worker \union {None}]
         /\ status'[j] = to /\ to # "absent"
         /\ \A k \in Job \ {j} : status'[k] = status[k]
<1>1. to # "absent"
  BY DEF Open, Settled
<1> QED
  BY <1>1 DEF TypeInv, TypeOK, Goes

(* What every step of a run leaves in order. *)
StepOK(w) ==
  /\ RunMoves(w) /\ PlansStay /\ UNCHANGED <<plan, acts>>
  /\ GitHubType' /\ BoardType' /\ faults' \in 0..MaxFaults

LEMMA QuietTypes ==
  ASSUME TypeInv
  PROVE  /\ UNCHANGED github => GitHubType'
         /\ UNCHANGED board => BoardType'
         /\ UNCHANGED faults => faults' \in 0..MaxFaults
BY DEF TypeInv, TypeOK, GitHubType, BoardType, github, board

LEMMA StepMoves ==
  ASSUME TypeInv, NEW w \in Worker, Step(w)
  PROVE  StepOK(w)
<1>1. CASE CheckBase(w) \/ Visit(w) \/ Rebase(w) \/ Ensure(w)
  <2>1. UNCHANGED <<github, faults>> /\ Elsewhere
    BY <1>1 DEF CheckBase, Visit, Rebase, Ensure
  <2>2. RunMoves(w)
    BY <1>1, CheckBaseMoves, VisitMoves, RebaseMoves, EnsureMoves
  <2> QED
    BY <2>1, <2>2, ElsewhereStays, QuietTypes DEF StepOK, Elsewhere
<1>2. CASE Push(w) \/ UpdateBase(w)
  <2>1. Elsewhere
    BY <1>2 DEF Push, UpdateBase
  <2> QED
    BY <1>2, <2>1, PushMoves, UpdateBaseMoves, ElsewhereStays, QuietTypes DEF StepOK, Elsewhere
<1>3. CASE Complete(w) \/ LoseLease(w) \/ Fail(w)
  <2>1. UNCHANGED github /\ Elsewhere /\ run[w] # None
    BY <1>3 DEF Complete, LoseLease, Fail, In
  <2>2. faults' \in 0..MaxFaults
    BY <1>3, StackAssumption DEF Complete, LoseLease, Fail, TypeInv, TypeOK
  <2>3. \/ run' = [run EXCEPT ![w] = None]
        \/ Ends(w, "completed") \/ Ends(w, "error")
    BY <1>3 DEF Complete, LoseLease, Fail
  <2>4. RunMoves(w)
    BY <2>1, <2>3, RunRests, EndsMoves, ElsewhereStays DEF Outcomes
  <2> QED
    BY <2>1, <2>2, <2>4, ElsewhereStays, QuietTypes DEF StepOK, Elsewhere
<1>4. CASE Close(w)
  <2>1. /\ run' = [run EXCEPT ![w] = None] /\ run[w].job \in Job
        /\ UNCHANGED <<attempt, plan, faults, github, owned, fork, acts>>
    BY <1>4, RunRecord DEF Close, In, Quiet
  <2>2. RunMoves(w)
    BY <2>1, RunRests
  <2>3. CASE UNCHANGED <<status, executor>>
    BY <2>1, <2>2, <2>3, QuietTypes DEF StepOK, PlansStay, board
  <2>4. CASE \E to \in {"failed", "succeeded"} : Goes(run[w].job, to, None)
    <3>1. PICK to \in {"failed", "succeeded"} : Goes(run[w].job, to, None)
      BY <2>4
    <3>2. /\ status' \in [Job -> {"absent"} \union Open \union Settled]
          /\ executor' \in [Job -> Worker \union {None}]
          /\ \A k \in Job : status[k] # "absent" => status'[k] # "absent"
      BY <2>1, <3>1, BoardGoes DEF Settled
    <3> QED
      BY <2>1, <2>2, <3>2, QuietTypes DEF StepOK, PlansStay, BoardType, TypeInv, TypeOK
  <2> QED
    BY <1>4, <2>3, <2>4 DEF Close
<1> QED
  BY <1>1, <1>2, <1>3, <1>4 DEF Step

-----------------------------------------------------------------------------
(* The queue. *)

LEMMA LeaseMoves ==
  ASSUME TypeInv, NEW w \in Worker, NEW j \in Job, LeaseNext(w, j)
  PROVE  StepOK(w) /\ run'[w].outcome = None
<1> DEFINE n == [phase |-> "checking", job |-> j, left |-> plan[j].updates, pending |-> {},
                 at |-> 1, head |-> <<>>, local |-> <<>>, outcome |-> None, since |-> acts]
<1>1. status[j] \in {"queued", "orphaned"} /\ status[j] # "absent"
  BY DEF LeaseNext
<1>2. IsPlan(plan[j]) /\ plan[j].updates \in SUBSET Update /\ 1 \in DOMAIN plan[j].order
  <2>1. IsPlan(plan[j])
    BY <1>1 DEF TypeInv, PlansOK
  <2> QED
    BY <2>1 DEF IsPlan, IsLine, StackOf
<1>3. /\ status' \in [Job -> {"absent"} \union Open \union Settled]
      /\ executor' \in [Job -> Worker \union {None}]
      /\ status'[j] = "executing"
      /\ \A k \in Job \ {j} : status'[k] = status[k]
  BY BoardGoes DEF LeaseNext, Open
<1>4. /\ UNCHANGED <<history, base, closed, owned, fork, acts, plan, faults>>
      /\ run' = [run EXCEPT ![w] = n] /\ attempt' = [attempt EXCEPT ![j] = @ + 1]
      /\ attempt[j] < MaxAttempts[j]
  BY DEF LeaseNext, Quiet, github
<1>5. PlansStay
  BY <1>3, <1>4 DEF PlansStay
<1>6. attempt' \in [Job -> Nat] /\ \A k \in Job : attempt'[k] <= MaxAttempts[k]
  <2> DEFINE m == attempt[j] + 1
  <2>1. m \in Nat /\ m <= MaxAttempts[j]
    <3>1. attempt[j] \in Nat /\ MaxAttempts[j] \in Nat /\ attempt[j] < MaxAttempts[j]
      BY <1>4, StackAssumption DEF TypeInv, TypeOK
    <3> QED
      BY <3>1
  <2>2. attempt' = [attempt EXCEPT ![j] = m]
    BY <1>4
  <2> HIDE DEF m
  <2> QED
    BY <2>1, <2>2 DEF TypeInv, TypeOK
<1>7. n \in Run
  <2>1. "checking" \in Phases /\ <<>> \in History /\ None \in Outcomes /\ acts \in 0..MaxActs
    BY DEF Phases, History, Outcomes, TypeInv, TypeOK
  <2> QED
    BY <1>2, <2>1 DEF Run
<1>8. /\ n.phase = "checking" /\ n.job = j /\ n.left = plan[j].updates /\ n.pending = {}
      /\ n.at = 1 /\ n.outcome = None
  OBVIOUS
<1> HIDE DEF n
<1>9. HasPlan(n) /\ IsSafe(n)
  BY <1>1, <1>2, <1>8 DEF HasPlan, IsSafe
<1>10. RunMoves(w) /\ run'[w] = n
  BY <1>4, <1>5, <1>7, <1>9, RunBecomes
<1>11. GitHubType' /\ BoardType' /\ faults' \in 0..MaxFaults
  BY <1>3, <1>4, <1>6, QuietTypes DEF BoardType, github
<1> QED
  BY <1>4, <1>5, <1>8, <1>10, <1>11 DEF StepOK

(* A job that is swept, expires or is cancelled keeps its plan. *)
LEMMA BoardMoves ==
  ASSUME TypeInv, NEW j \in Job, Expire(j) \/ Cancel(j)
  PROVE  /\ PlansStay /\ UNCHANGED <<github, plan, run, acts>>
         /\ GitHubType' /\ BoardType' /\ faults' \in 0..MaxFaults
<1>1. PICK to \in Open \union Settled : Goes(j, to, None)
  BY DEF Expire, Cancel, Open, Settled
<1>2. UNCHANGED <<github, owned, fork, attempt, plan, run, acts, faults>>
  BY DEF Expire, Cancel, Quiet
<1>3. /\ status' \in [Job -> {"absent"} \union Open \union Settled]
      /\ executor' \in [Job -> Worker \union {None}]
      /\ \A k \in Job : status[k] # "absent" => status'[k] # "absent"
  BY <1>1, BoardGoes
<1> QED
  BY <1>2, <1>3, QuietTypes DEF PlansStay, BoardType, TypeInv, TypeOK

(* What is enqueued is a plan for the bases of the moment. *)
LEMMA EnqueueMoves ==
  ASSUME TypeInv, NEW p \in PR, Enqueue(p)
  PROVE  /\ PlansStay /\ UNCHANGED <<github, run, acts>>
         /\ GitHubType' /\ BoardType' /\ faults' \in 0..MaxFaults
         /\ plan' \in [Job -> StackOf \union {NoPlan}]
         /\ \E j \in Job :
              /\ status[j] = "absent" /\ IsPlan(plan'[j]) /\ plan'[j].bases = base
              /\ \A k \in Job \ {j} : status'[k] = status[k] /\ plan'[k] = plan[k]
<1> DEFINE stack == Planned(PR \ closed, base, p)
           s == [tip |-> p, head |-> history[p], bases |-> base,
                 order |-> stack.order, updates |-> stack.updates]
<1>1. /\ p \notin closed /\ stack.ok /\ Len(stack.order) > 1
      /\ UNCHANGED <<github, owned, fork, attempt, run, acts, faults>>
  BY DEF Enqueue, Quiet
<1>2. PICK j \in Job : /\ status[j] = "absent" /\ Goes(j, "queued", None)
                       /\ plan' = [plan EXCEPT ![j] = s]
  BY DEF Enqueue
<1>3. base \in [PR -> Names] /\ history[p] \in History
  BY DEF TypeInv, TypeOK, Names
<1>4. IsLine(stack.order, stack.updates, base)
  BY <1>1, <1>3, PlannedIsLine
<1> HIDE DEF stack
<1>5. stack.order \in Seq(PR) /\ stack.updates \in SUBSET Update
  <2>1. stack.order \in Seq(PR)
    BY <1>4 DEF IsLine
  <2>2. \A i \in DOMAIN stack.order : stack.order[i] \in PR
    BY <2>1
  <2>3. \A n \in PR : Declared[n] # NoParent =>
          [number |-> n, from |-> base[n], to |-> Declared[n]] \in Update
    BY <1>3, StackAssumption DEF Update, Names
  <2> QED
    BY <1>4, <2>1, <2>2, <2>3 DEF IsLine
<1>6. s \in StackOf /\ s.order = stack.order /\ s.updates = stack.updates /\ s.bases = base
  BY <1>3, <1>5 DEF StackOf
<1> HIDE DEF s
<1>7. IsPlan(s)
  BY <1>1, <1>4, <1>6 DEF IsPlan
<1>8. /\ plan' \in [Job -> StackOf \union {NoPlan}] /\ plan'[j] = s
      /\ \A k \in Job \ {j} : plan'[k] = plan[k]
  BY <1>2, <1>6 DEF TypeInv, TypeOK
<1>9. /\ status' \in [Job -> {"absent"} \union Open \union Settled]
      /\ executor' \in [Job -> Worker \union {None}]
      /\ status'[j] = "queued"
      /\ \A k \in Job \ {j} : status'[k] = status[k]
  BY <1>2, BoardGoes DEF Open
<1>10. PlansStay
  BY <1>1, <1>2, <1>8, <1>9 DEF PlansStay
<1>11. GitHubType' /\ BoardType' /\ faults' \in 0..MaxFaults
  BY <1>1, <1>9, QuietTypes DEF BoardType, TypeInv, TypeOK
<1> QED
  BY <1>1, <1>2, <1>6, <1>7, <1>8, <1>9, <1>10, <1>11

-----------------------------------------------------------------------------
(* People. *)

LEMMA CommitMoves ==
  ASSUME TypeInv, NEW b \in Names, Commit(b)
  PROVE  GitHubType' /\ \E c \in Change : history' = [history EXCEPT ![b] = Append(@, c)]
<1> DEFINE c == <<b, acts + 1>>
<1>1. acts + 1 \in 0..MaxActs
  BY StackAssumption DEF Commit, Act, TypeInv, TypeOK
<1>2. c \in Change
  BY <1>1 DEF Change
<1>3. history' = [history EXCEPT ![b] = Append(history[b], c)] /\ UNCHANGED <<base, closed>>
  BY DEF Commit
<1> HIDE DEF c
<1>4. Append(history[b], c) \in History
  BY <1>2, BeforeAppend DEF TypeInv, TypeOK
<1> QED
  BY <1>2, <1>3, <1>4 DEF GitHubType, TypeInv, TypeOK

LEMMA PeopleMove ==
  ASSUME TypeInv, People
  PROVE  /\ PlansStay /\ UNCHANGED <<board, plan, run>>
         /\ GitHubType' /\ BoardType' /\ faults' \in 0..MaxFaults
         /\ acts' \in 0..MaxActs /\ acts' = acts + 1 /\ acts' # acts /\ acts' # 0
<1>1. Act
  BY DEF People, Commit, Retarget, CloseOrReopen
<1>2. GitHubType'
  <2>1. CASE \E b \in Names : Commit(b)
    BY <2>1, CommitMoves
  <2>2. CASE \E p \in PR, b \in Names : Retarget(p, b)
    BY <2>2 DEF Retarget, GitHubType, TypeInv, TypeOK
  <2>3. CASE \E p \in PR : CloseOrReopen(p)
    BY <2>3 DEF CloseOrReopen, GitHubType, TypeInv, TypeOK
  <2> QED
    BY <2>1, <2>2, <2>3 DEF People
<1>3. acts' = acts + 1 /\ acts' \in 0..MaxActs /\ acts' # acts /\ acts' # 0
  BY <1>1, StackAssumption DEF Act, TypeInv, TypeOK
<1> QED
  BY <1>1, <1>2, <1>3, QuietTypes DEF Act, PlansStay, board

-----------------------------------------------------------------------------
(* The inductive invariant holds. *)

LEMMA InitType ==
  ASSUME Init
  PROVE  TypeInv
<1>1. history \in [Names -> History]
  <2>1. Stacked \in [Names -> History]
    <3>1. Cardinality(PR) \in 0..Cardinality(PR)
      BY StackAssumption, FS_CardinalityType
    <3> QED
      BY <3>1, StackedRises
  <2>2. \A b \in Names : <<b, 0>> \in Change
    BY StackAssumption DEF Change
  <2>3. Bottom \in History /\ \A b \in Names : Append(Bottom, <<b, 0>>) \in History
    BY <2>2 DEF Bottom, History, Names
  <2>4. Apart \in [Names -> History]
    BY <2>3 DEF Apart
  <2> QED
    BY <2>1, <2>4 DEF Init
<1>2. base \in [PR -> Names]
  <2>1. CASE base \in [PR -> {Main}]
    BY <2>1 DEF Names
  <2>2. CASE base = Line
    BY <2>2, StackAssumption
  <2> QED
    BY <2>1, <2>2 DEF Init
<1>3. [owned |-> owned, fork |-> fork] \in Setting
  <2>1. PICK s \in Setting : owned = s.owned /\ fork = s.fork
    BY DEF Init
  <2>2. s = [owned |-> s.owned, fork |-> s.fork]
    BY StackAssumption
  <2> QED
    BY <2>1, <2>2
<1>4. PlansOK /\ RunsOK
  BY DEF Init, PlansOK, RunsOK, RunOK
<1>5. /\ status \in [Job -> {"absent"} \union Open \union Settled]
      /\ executor \in [Job -> Worker \union {None}] /\ plan \in [Job -> StackOf \union {NoPlan}]
      /\ attempt \in [Job -> Nat] /\ \A j \in Job : attempt[j] <= MaxAttempts[j]
      /\ run \in [Worker -> Run \union {None}]
      /\ acts \in 0..MaxActs /\ faults \in 0..MaxFaults /\ closed \subseteq PR
  BY StackAssumption DEF Init
<1> QED
  BY <1>1, <1>2, <1>3, <1>4, <1>5 DEF TypeInv, TypeOK

(* What a step does to the plans. *)
LEMMA PlansKept ==
  ASSUME TypeInv, Next
  PROVE  PlansStay /\ plan' \in [Job -> StackOf \union {NoPlan}] /\ PlansOK'
<1>1. CASE \E p \in PR : Enqueue(p)
  <2>1. PICK p \in PR : Enqueue(p)
    BY <1>1
  <2>2. PICK j \in Job :
          /\ status[j] = "absent" /\ IsPlan(plan'[j])
          /\ \A k \in Job \ {j} : status'[k] = status[k] /\ plan'[k] = plan[k]
    BY <2>1, EnqueueMoves
  <2>3. \A k \in Job : status'[k] # "absent" => IsPlan(plan'[k])
    BY <2>2 DEF TypeInv, PlansOK
  <2>4. PlansOK'
    BY <2>3 DEF PlansOK, IsPlan
  <2> QED
    BY <2>1, <2>4, EnqueueMoves
<1>2. ASSUME PlansStay, UNCHANGED plan,
             \A k \in Job : status'[k] # "absent" => status[k] # "absent"
      PROVE  plan' \in [Job -> StackOf \union {NoPlan}] /\ PlansOK'
  BY <1>2 DEF TypeInv, TypeOK, PlansOK, IsPlan
<1>3. CASE People
  BY <1>2, <1>3, PeopleMove DEF board
<1>4. CASE \E j \in Job : Expire(j) \/ Cancel(j)
  <2>1. PICK j \in Job : Expire(j) \/ Cancel(j)
    BY <1>4
  <2>2. status[j] # "absent" /\ \E to : status' = [status EXCEPT ![j] = to]
    BY <2>1 DEF Expire, Cancel, Open, Goes
  <2>3. \A k \in Job : status'[k] # "absent" => status[k] # "absent"
    BY <2>2 DEF TypeInv, TypeOK
  <2> QED
    BY <1>2, <2>1, <2>3, BoardMoves
<1>5. CASE \E j \in Job, w \in Worker : LeaseNext(w, j)
  <2>1. PICK j \in Job, w \in Worker : LeaseNext(w, j)
    BY <1>5
  <2>2. status[j] # "absent" /\ status' = [status EXCEPT ![j] = "executing"]
    BY <2>1 DEF LeaseNext, Goes
  <2>3. \A k \in Job : status'[k] # "absent" => status[k] # "absent"
    BY <2>2 DEF TypeInv, TypeOK
  <2> QED
    BY <1>2, <2>1, <2>3, LeaseMoves DEF StepOK
<1>6. CASE \E w \in Worker : Step(w)
  <2>1. PICK w \in Worker : Step(w)
    BY <1>6
  <2>2. \/ UNCHANGED status
        \/ run[w] # None /\ \E to : status' = [status EXCEPT ![run[w].job] = to]
    BY <2>1 DEF Step, CheckBase, Visit, Rebase, Ensure, Push, UpdateBase, Complete, Close,
       LoseLease, Fail, Elsewhere, board, Goes, In
  <2>3. \A k \in Job : status'[k] # "absent" => status[k] # "absent"
    BY <2>2, RunRecord DEF TypeInv, TypeOK, HasPlan
  <2> QED
    BY <1>2, <2>1, <2>3, StepMoves DEF StepOK
<1> QED
  BY <1>1, <1>3, <1>4, <1>5, <1>6 DEF Next, Queue

LEMMA TypeStep ==
  ASSUME TypeInv, [Next]_vars
  PROVE  TypeInv'
<1>1. CASE UNCHANGED vars
  BY <1>1 DEF TypeInv, TypeOK, PlansOK, RunsOK, RunOK, HasPlan, IsSafe, vars, github, board
<1>2. CASE Next
  <2>1. PlansStay /\ plan' \in [Job -> StackOf \union {NoPlan}] /\ PlansOK'
    BY <1>2, PlansKept
  <2>2. /\ UNCHANGED run \/ \E w \in Worker : RunMoves(w)
        /\ GitHubType' /\ BoardType' /\ faults' \in 0..MaxFaults /\ acts' \in 0..MaxActs
    <3>1. acts \in 0..MaxActs
      BY DEF TypeInv, TypeOK
    <3> QED
      BY <1>2, <3>1, PeopleMove, EnqueueMoves, BoardMoves, LeaseMoves, StepMoves
         DEF Next, Queue, StepOK
  <2>3. run' \in [Worker -> Run \union {None}] /\ RunsOK'
    BY <2>1, <2>2, RunsKept
  <2>4. [owned |-> owned, fork |-> fork]' \in Setting
    BY <2>1 DEF PlansStay, TypeInv, TypeOK
  <2> QED
    BY <2>1, <2>2, <2>3, <2>4 DEF TypeInv, TypeOK, GitHubType, BoardType
<1> QED
  BY <1>1, <1>2

LEMMA Typed == Spec => []TypeInv
<1>1. Init => TypeInv
  BY InitType
<1>2. TypeInv /\ [Next]_vars => TypeInv'
  BY TypeStep
<1> QED
  BY <1>1, <1>2, PTL DEF Spec

-----------------------------------------------------------------------------
(* The results. *)

(* Every variable keeps its type: a plan that was enqueued by enqueue_follow_up_jobs is
   there for as long as stack_rebase looks at it, and its place in the order is one. *)
THEOREM TypeCorrect == Spec => []TypeOK
<1>1. TypeInv => TypeOK
  BY DEF TypeInv
<1> QED
  BY <1>1, Typed, PTL

(* What a step does to the branches: a commit on top, or a push of a worker to a branch
   that is in no fork. *)
LEMMA HistoryMoves ==
  ASSUME TypeInv, [Next]_vars
  PROVE  \/ UNCHANGED history
         \/ /\ acts' # acts
            /\ \E b \in Names, c \in Change : history' = [history EXCEPT ![b] = Append(@, c)]
         \/ \E p \in PR \ fork, local \in History :
              /\ history' = [history EXCEPT ![p] = local]
              /\ Changes(history[p]) \subseteq Changes(local)
              /\ p \in owned \/ Before(history[p], local)
<1>1. CASE People
  <2>1. acts' # acts
    BY <1>1, PeopleMove
  <2>2. CASE \E b \in Names : Commit(b)
    BY <2>1, <2>2, CommitMoves
  <2>3. CASE ~\E b \in Names : Commit(b)
    BY <1>1, <2>3 DEF People, Retarget, CloseOrReopen
  <2> QED
    BY <2>2, <2>3
<1>2. CASE Queue \/ UNCHANGED vars
  BY <1>2, EnqueueMoves, BoardMoves DEF Queue, LeaseNext, Quiet, vars, github
<1>3. CASE \E w \in Worker : Step(w)
  <2>1. PICK w \in Worker : Step(w)
    BY <1>3
  <2>2. CASE Push(w)
    BY <2>2, PushMoves
  <2>3. CASE ~Push(w)
    BY <2>1, <2>3 DEF Step, CheckBase, Visit, Rebase, Ensure, UpdateBase, Complete, Close,
       LoseLease, Fail, Quiet, github
  <2> QED
    BY <2>2, <2>3
<1> QED
  BY <1>1, <1>2, <1>3 DEF Next

LEMMA HistoriesGrow ==
  ASSUME TypeInv, [Next]_vars
  PROVE  \A b \in Names : Changes(history[b]) \subseteq Changes(history'[b])
<1>1. history \in [Names -> History] /\ PR \subseteq Names
  BY DEF TypeInv, TypeOK, Names
<1>2. CASE \E b \in Names, c \in Change : history' = [history EXCEPT ![b] = Append(@, c)]
  <2>1. PICK b \in Names, c \in Change : history' = [history EXCEPT ![b] = Append(@, c)]
    BY <1>2
  <2>2. Changes(history[b]) \subseteq Changes(Append(history[b], c))
    BY <1>1, BeforeAppend
  <2> QED
    BY <1>1, <2>1, <2>2
<1>3. CASE \E p \in PR, local \in History :
             /\ history' = [history EXCEPT ![p] = local]
             /\ Changes(history[p]) \subseteq Changes(local)
  BY <1>1, <1>3
<1> QED
  BY <1>2, <1>3, HistoryMoves

(* No change that people pushed is ever lost from its branch. git rebase keeps what it was
   given (rebase_onto), so what is pushed holds the head that was cloned;
   --force-with-lease names that head (rebase_push_argv), so it is still the branch's. *)
THEOREM WorkAlwaysSurvives == Spec => WorkSurvives
<1>1. TypeInv /\ [Next]_vars => \A b \in Names : Changes(history[b]) \subseteq Changes(history'[b])
  BY HistoriesGrow
<1> QED
  BY <1>1, Typed, PTL DEF Spec, WorkSurvives

(* Only a branch of bot_owned_branches is ever rewritten, and a fork is never pushed to:
   rebase_onto asks for the allowlist before it rewrites, stack_rebase for the head
   repository before it clones. *)
THEOREM OnlyOwnedEverRewritten == Spec => OnlyOwnedRewritten
<1> DEFINE A == \A p \in PR :
                  /\ p \notin owned => Before(history[p], history'[p])
                  /\ p \in fork /\ history'[p] # history[p] => acts' # acts
<1>1. ASSUME TypeInv, [Next]_vars
      PROVE  A
  <2> SUFFICES ASSUME NEW p \in PR
               PROVE  /\ p \notin owned => Before(history[p], history'[p])
                      /\ p \in fork /\ history'[p] # history[p] => acts' # acts
    OBVIOUS
  <2>1. history \in [Names -> History] /\ p \in Names /\ history[p] \in History /\ PR \subseteq Names
    BY <1>1 DEF TypeInv, TypeOK, Names
  <2>2. CASE history'[p] = history[p]
    BY <2>1, <2>2, BeforeItself
  <2>3. CASE /\ acts' # acts
             /\ \E b \in Names, c \in Change : history' = [history EXCEPT ![b] = Append(@, c)]
    <3>1. PICK b \in Names, c \in Change : history' = [history EXCEPT ![b] = Append(@, c)]
      BY <2>3
    <3>2. Before(history[p], Append(history[p], c))
      BY <2>1, BeforeAppend
    <3> QED
      BY <2>1, <2>2, <2>3, <3>1, <3>2
  <2>4. CASE \E q \in PR \ fork, local \in History :
               /\ history' = [history EXCEPT ![q] = local]
               /\ q \in owned \/ Before(history[q], local)
    BY <2>1, <2>2, <2>4
  <2> QED
    BY <1>1, <2>2, <2>3, <2>4, HistoryMoves
<1> QED
  BY <1>1, Typed, PTL DEF Spec, OnlyOwnedRewritten

-----------------------------------------------------------------------------
(* Who moves a base. *)

(* What a line says of the update and of the place of a pull request. *)
LEMMA LineUpdates ==
  ASSUME NEW order, NEW updates, NEW b, IsLine(order, updates, b)
  PROVE  /\ \A u \in updates : /\ u.number \in PR /\ u.from = b[u.number]
                               /\ u.to = Declared[u.number] /\ u.to # NoParent
         /\ \A i \in DOMAIN order :
              Declared[order[i]] \notin {NoParent, b[order[i]]} =>
                [number |-> order[i], from |-> b[order[i]], to |-> Declared[order[i]]] \in updates
<1>1. order \in Seq(PR)
  BY DEF IsLine
<1>2. \A i \in DOMAIN order : order[i] \in PR
  BY <1>1
<1> QED
  BY <1>2 DEF IsLine

(* As long as no person did anything the next base is as the run expects it, or as it
   wants it. *)
LEMMA UpdateIsKnown ==
  ASSUME TypeInv, BasesKept, acts = 0, NEW w \in Worker, run[w] # None,
         NEW u \in Stack(w).updates
  PROVE  base[u.number] = u.from \/ base[u.number] = u.to
<1>1. IsPlan(Stack(w)) /\ run[w].job \in Job /\ status[run[w].job] # "absent"
  BY RunRecord DEF HasPlan
<1>2. u.number \in PR /\ u.from = Stack(w).bases[u.number] /\ u.to = Declared[u.number]
  BY <1>1, LineUpdates DEF IsPlan
<1> QED
  BY <1>1, <1>2 DEF BasesKept, Stack

LEMMA BaseIsPlanned ==
  ASSUME TypeInv, BasesKept, acts = 0, NEW w \in Worker, run[w] # None, run[w].phase \in Placed
  PROVE  BaseAsPlanned(w, Current(w))
<1> DEFINE p == Current(w)
           at == run[w].at
           order == Stack(w).order
           bases == Stack(w).bases
<1>1. /\ IsPlan(Stack(w)) /\ run[w].job \in Job /\ status[run[w].job] # "absent"
      /\ at \in DOMAIN order /\ p \in PR /\ p = order[at]
  BY RunRecord, CurrentIsPR DEF HasPlan, Stack
<1>2. base[p] = bases[p] \/ (Declared[p] # NoParent /\ base[p] = Declared[p])
  BY <1>1 DEF BasesKept, Stack
<1>3. IsLine(order, Stack(w).updates, bases)
  BY <1>1 DEF IsPlan
<1>4. at = 1 => Declared[p] = NoParent /\ OnTop(w) = bases[p]
  BY <1>1, <1>3 DEF IsLine, OnTop
<1>5. at # 1 => OnTop(w) = IF Declared[p] # NoParent THEN Declared[p] ELSE bases[p]
  BY <1>1, <1>3 DEF IsLine, OnTop
<1>6. Declared[p] \notin {NoParent, bases[p]} =>
        [number |-> p, from |-> bases[p], to |-> Declared[p]] \in Stack(w).updates
  BY <1>1, <1>3, LineUpdates
<1> HIDE DEF p, at, order, bases
<1>7. base[p] = OnTop(w) \/ [number |-> p, from |-> base[p], to |-> OnTop(w)] \in Stack(w).updates
  BY <1>2, <1>4, <1>5, <1>6
<1> QED
  BY <1>7 DEF BaseAsPlanned, p

(* How a step of a run ends up with another outcome. *)
LEMMA StepOutcome ==
  ASSUME TypeInv, NEW w \in Worker, Step(w), run'[w] # None, Complains(run[w])'
  PROVE  \/ Complains(run[w]) /\ run[w] # None
         \/ /\ run[w] # None /\ run[w].phase = "visiting" /\ ~BaseAsPlanned(w, Current(w))
         \/ \E u \in Stack(w).updates :
              run[w] # None /\ base[u.number] # u.from /\ base[u.number] # u.to
<1> DEFINE r == run[w]
<1>0. run \in [Worker -> Run \union {None}] /\ run'[w].outcome \in {"blocked by base", "base changed"}
  BY DEF TypeInv, TypeOK, Complains
<1>1. CASE run' = [run EXCEPT ![w] = None]
  BY <1>0, <1>1
<1>2. ASSUME NEW outcome \in Outcomes, Ends(w, outcome), PlansStay, r # None
      PROVE  outcome \in {"blocked by base", "base changed"}
  BY <1>0, <1>2, EndsMoves
<1>3. CASE Push(w) \/ UpdateBase(w) \/ Ensure(w)
  <2>1. run'[w].outcome \in {r.outcome, "error"} /\ r # None
    BY <1>3, PushMoves, UpdateBaseMoves, EnsureMoves DEF Push, UpdateBase, Ensure, In
  <2> QED
    BY <1>0, <2>1 DEF Complains
<1>4. CASE Complete(w) \/ LoseLease(w) \/ Fail(w) \/ Close(w)
  <2>1. \/ run' = [run EXCEPT ![w] = None]
        \/ r # None /\ PlansStay /\ (Ends(w, "completed") \/ Ends(w, "error"))
    BY <1>4, ElsewhereStays DEF Complete, LoseLease, Fail, Close, In
  <2> QED
    BY <1>1, <1>2, <2>1 DEF Outcomes
<1>5. CASE CheckBase(w)
  <2> DEFINE u == Lowest(r.left)
  <2>1. r # None /\ PlansStay /\ r \in Run /\ r.left \subseteq Stack(w).updates
        /\ r.left \in SUBSET Update
    BY <1>5, ElsewhereStays, RunRecord, RunFields DEF CheckBase, In, HasPlan, Stack
  <2>2. ~Ends(w, "error")
    BY <1>2, <2>1 DEF Outcomes
  <2>3. CASE r.left # {} /\ base[u.number] # u.from /\ base[u.number] # u.to
    BY <2>1, <2>3, LowestIsOne
  <2>4. CASE \/ run' = [run EXCEPT ![w].phase = "visiting"]
             \/ run' = [run EXCEPT ![w].left = @ \ {u}, ![w].pending = @ \union {u}]
             \/ run' = [run EXCEPT ![w].left = @ \ {u}]
    <3>1. \/ run'[w] = [r EXCEPT !.phase = "visiting"]
          \/ run'[w] = [r EXCEPT !.left = @ \ {u}, !.pending = @ \union {u}]
          \/ run'[w] = [r EXCEPT !.left = @ \ {u}]
      BY <1>0, <2>4
    <3> HIDE DEF r, u
    <3>2. run'[w].outcome = r.outcome
      BY <2>1, <3>1 DEF Run
    <3> QED
      BY <1>0, <2>1, <3>2 DEF Complains, r
  <2> QED
    BY <1>5, <2>2, <2>3, <2>4 DEF CheckBase
<1>6. CASE Visit(w)
  <2> DEFINE p == Current(w)
  <2>1. r # None /\ PlansStay /\ r \in Run /\ r.phase = "visiting"
    BY <1>6, ElsewhereStays, RunRecord DEF Visit, In
  <2>2. ~Ends(w, "blocked")
    BY <1>2, <2>1 DEF Outcomes
  <2>3. CASE run' = [run EXCEPT ![w].phase = "cloned", ![w].head = history[p]]
    <3>1. run'[w] = [r EXCEPT !.phase = "cloned", !.head = history[p]]
      BY <1>0, <2>3
    <3> HIDE DEF r, p
    <3>2. run'[w].outcome = r.outcome
      BY <2>1, <3>1 DEF Run
    <3> QED
      BY <1>0, <2>1, <3>2 DEF Complains, r
  <2>4. CASE ~BaseAsPlanned(w, p)
    BY <2>1, <2>4
  <2> QED
    BY <1>6, <2>2, <2>3, <2>4 DEF Visit
<1>7. CASE Rebase(w)
  <2> DEFINE after == Rebased(r.head, history[OnTop(w)])
  <2>1. r # None /\ PlansStay /\ r \in Run /\ r.phase \in Placed
    BY <1>7, ElsewhereStays, RunRecord DEF Rebase, In, Placed
  <2>2. ~Ends(w, "error") /\ ~Ends(w, "blocked")
    BY <1>2, <2>1 DEF Outcomes
  <2>3. CASE run' = [run EXCEPT ![w] = Onward(w, r)]
    <3>1. run'[w].outcome = r.outcome
      BY <1>0, <2>1, <2>3, OnwardOK
    <3> QED
      BY <1>0, <2>1, <3>1 DEF Complains
  <2>4. CASE run' = [run EXCEPT ![w].phase = "rebased", ![w].local = after]
    <3>1. run'[w] = [r EXCEPT !.phase = "rebased", !.local = after]
      BY <1>0, <2>4
    <3> HIDE DEF r, after
    <3>2. run'[w].outcome = r.outcome
      BY <2>1, <3>1 DEF Run
    <3> QED
      BY <1>0, <2>1, <3>2 DEF Complains, r
  <2> QED
    BY <1>7, <2>2, <2>3, <2>4 DEF Rebase
<1> QED
  BY <1>3, <1>4, <1>5, <1>6, <1>7 DEF Step

BaseInv == BasesKept /\ OnlyPeopleMoveBases

LEMMA BaseStep ==
  ASSUME TypeInv, BaseInv, [Next]_vars
  PROVE  BaseInv'
<1>0. acts \in Nat
  BY DEF TypeInv, TypeOK
<1>1. CASE UNCHANGED vars
  BY <1>1 DEF BaseInv, BasesKept, OnlyPeopleMoveBases, vars, github, board
<1>2. CASE People
  <2>1. acts' = acts + 1 /\ UNCHANGED run
    BY <1>2, PeopleMove
  <2>2. acts' # 0 /\ acts' > 0
    BY <1>0, <2>1
  <2> QED
    BY <2>2 DEF BaseInv, BasesKept, OnlyPeopleMoveBases
<1>3. CASE acts # 0 /\ UNCHANGED acts
  <2>1. acts' # 0 /\ acts' > 0
    BY <1>0, <1>3
  <2> QED
    BY <2>1 DEF BaseInv, BasesKept, OnlyPeopleMoveBases
<1>4. CASE acts = 0 /\ UNCHANGED acts /\ (Queue \/ \E w \in Worker : Step(w))
  <2>0. /\ closed = {} /\ \A v \in Worker : run[v] # None => ~Complains(run[v])
        /\ PlansStay
    <3>1. ~(acts > 0)
      BY <1>4
    <3>2. PlansStay
      BY <1>4, PlansKept DEF Next
    <3> QED
      BY <1>4, <3>1, <3>2 DEF BaseInv, BasesKept, OnlyPeopleMoveBases, Complains
  <2>1. CASE \E p \in PR : Enqueue(p)
    <3>1. PICK p \in PR : Enqueue(p)
      BY <2>1
    <3>2. PICK j \in Job :
            /\ plan'[j].bases = base
            /\ \A k \in Job \ {j} : status'[k] = status[k] /\ plan'[k] = plan[k]
      BY <3>1, EnqueueMoves
    <3>3. UNCHANGED <<base, closed, run>>
      BY <3>1, EnqueueMoves DEF github
    <3> QED
      BY <1>4, <3>2, <3>3 DEF BaseInv, BasesKept, OnlyPeopleMoveBases
  <2>2. ASSUME UNCHANGED <<base, closed, plan>>,
               \A k \in Job : status'[k] # "absent" => status[k] # "absent"
        PROVE  BasesKept'
    BY <1>4, <2>2 DEF BaseInv, BasesKept
  <2>3. CASE \E j \in Job : Expire(j) \/ Cancel(j)
    <3>1. PICK j \in Job : Expire(j) \/ Cancel(j)
      BY <2>3
    <3>2. status[j] # "absent" /\ \E to : status' = [status EXCEPT ![j] = to]
      BY <3>1 DEF Expire, Cancel, Open, Goes
    <3>3. \A k \in Job : status'[k] # "absent" => status[k] # "absent"
      BY <3>2 DEF TypeInv, TypeOK
    <3>4. UNCHANGED <<base, closed, plan, run>>
      BY <3>1, BoardMoves DEF github
    <3> QED
      BY <1>4, <2>2, <3>3, <3>4 DEF BaseInv, OnlyPeopleMoveBases
  <2>4. CASE \E j \in Job, w \in Worker : LeaseNext(w, j)
    <3>1. PICK j \in Job, w \in Worker : LeaseNext(w, j)
      BY <2>4
    <3>2. status[j] # "absent" /\ status' = [status EXCEPT ![j] = "executing"]
      BY <3>1 DEF LeaseNext, Goes
    <3>3. \A k \in Job : status'[k] # "absent" => status[k] # "absent"
      BY <3>2 DEF TypeInv, TypeOK
    <3>4. UNCHANGED <<base, closed, plan>>
      BY <3>1 DEF LeaseNext, Quiet, github
    <3>5. run'[w].outcome = None /\ \A v \in Worker \ {w} : run'[v] = run[v]
      BY <3>1, LeaseMoves DEF StepOK, RunMoves
    <3>6. OnlyPeopleMoveBases'
      BY <2>0, <3>5, NoneIsNoRun DEF OnlyPeopleMoveBases, Complains
    <3> QED
      BY <2>2, <3>3, <3>4, <3>6 DEF BaseInv
  <2>5. CASE \E w \in Worker : Step(w)
    <3>1. PICK w \in Worker : Step(w)
      BY <2>5
    <3>2. \A v \in Worker \ {w} : run'[v] = run[v]
      BY <3>1, StepMoves DEF StepOK, RunMoves
    <3>3. run'[w] # None => ~Complains(run[w])'
      <4> SUFFICES ASSUME run'[w] # None, Complains(run[w])' PROVE FALSE
        OBVIOUS
      <4>1. ~\E u \in Stack(w).updates :
               run[w] # None /\ base[u.number] # u.from /\ base[u.number] # u.to
        BY <1>4, UpdateIsKnown DEF BaseInv
      <4>2. run[w] # None /\ run[w].phase = "visiting" => BaseAsPlanned(w, Current(w))
        BY <1>4, BaseIsPlanned DEF BaseInv, Placed
      <4> QED
        BY <2>0, <3>1, <4>1, <4>2, StepOutcome
    <3>4. OnlyPeopleMoveBases'
      BY <2>0, <3>2, <3>3 DEF OnlyPeopleMoveBases, Complains
    <3>5. UNCHANGED <<plan, closed>> /\ \A k \in Job : status'[k] # "absent" => status[k] # "absent"
      <4>1. \/ UNCHANGED status
            \/ run[w] # None /\ \E to : status' = [status EXCEPT ![run[w].job] = to]
        BY <3>1 DEF Step, CheckBase, Visit, Rebase, Ensure, Push, UpdateBase, Complete, Close,
           LoseLease, Fail, Elsewhere, board, Goes, In
      <4>2. UNCHANGED <<plan, closed>>
        BY <3>1 DEF Step, CheckBase, Visit, Rebase, Ensure, Push, UpdateBase, Complete, Close,
           LoseLease, Fail, Elsewhere, Quiet, github
      <4> QED
        BY <4>1, <4>2, RunRecord DEF TypeInv, TypeOK, HasPlan
    <3>6. CASE UNCHANGED base
      BY <2>2, <3>4, <3>5, <3>6 DEF BaseInv
    <3>7. CASE ~UNCHANGED base
      <4>1. UpdateBase(w) /\ run[w] # None
        BY <3>1, <3>7 DEF Step, CheckBase, Visit, Rebase, Ensure, Push, Complete, Close,
           LoseLease, Fail, Quiet, github, UpdateBase, In
      <4>2. PICK u \in Stack(w).updates : base' = [base EXCEPT ![u.number] = u.to]
        BY <3>7, <4>1, UpdateBaseMoves
      <4>3. u.number \in PR /\ u.to = Declared[u.number] /\ u.to # NoParent
        BY <4>1, RunRecord, LineUpdates DEF IsPlan
      <4>4. \A p \in PR : \/ base'[p] = base[p]
                          \/ Declared[p] # NoParent /\ base'[p] = Declared[p]
        BY <4>2, <4>3 DEF TypeInv, TypeOK
      <4>5. BasesKept'
        BY <1>4, <3>5, <4>4 DEF BaseInv, BasesKept
      <4> QED
        BY <3>4, <4>5 DEF BaseInv
    <3> QED
      BY <3>6, <3>7
  <2> QED
    BY <1>4, <2>1, <2>3, <2>4, <2>5 DEF Queue
<1> QED
  <2>1. Queue \/ (\E w \in Worker : Step(w)) => UNCHANGED acts
    BY EnqueueMoves, BoardMoves, LeaseMoves, StepMoves DEF Queue, StepOK
  <2> QED
    BY <1>1, <1>2, <1>3, <1>4, <2>1 DEF Next

(* Only people make a run complain about a base: what an earlier attempt, or a run that
   lost its lease, had already changed is taken for done (stack_rebase looks for the new
   base before it calls the base changed), and the base of the lowest branch is never
   among the updates of StackPlanner::plan. *)
THEOREM OnlyPeopleEverMoveBases == Spec => []OnlyPeopleMoveBases
<1>1. Init => BaseInv
  BY DEF Init, BaseInv, BasesKept, OnlyPeopleMoveBases
<1>2. TypeInv /\ BaseInv /\ [Next]_vars => BaseInv'
  BY BaseStep
<1>3. BaseInv => OnlyPeopleMoveBases
  BY DEF BaseInv
<1> QED
  BY <1>1, <1>2, <1>3, Typed, PTL DEF Spec

-----------------------------------------------------------------------------
(* The board of jobs. *)

(* Who executes a job is set exactly while the job executes. *)
ExecutorExecutes == \A j \in Job : executor[j] # None => status[j] = "executing"

(* One job of the board moves, by a legal move. *)
LEMMA GoesIsMove ==
  ASSUME TypeInv, NEW j \in Job, NEW to \in Open \union Settled, NEW x \in Worker \union {None},
         Goes(j, to, x), \A k \in Job \ {j} : plan'[k].tip = plan[k].tip,
         \/ /\ status[j] = "absent" /\ to = "queued" /\ x = None /\ plan'[j].tip \in PR
            /\ \A k \in Job : status[k] \in Open => plan[k].tip # plan'[j].tip
         \/ /\ plan'[j].tip = plan[j].tip
            /\ \/ status[j] \in {"queued", "orphaned"} /\ to = "executing" /\ x \in Worker
               \/ status[j] = "executing" /\ to \in {"orphaned", "succeeded"} /\ x = None
               \/ status[j] \in {"executing", "queued", "orphaned"} /\ to = "failed" /\ x = None
               \/ status[j] \in Open /\ to = "cancelled" /\ x = None
  PROVE  Board!BoardNext
<1>1. /\ status'[j] = to /\ executor'[j] = x
      /\ \A k \in Job \ {j} : status'[k] = status[k] /\ executor'[k] = executor[k]
  BY DEF TypeInv, TypeOK, Goes
<1>2. /\ \A k \in Job : tipOf[k] = plan[k].tip
      /\ \A k \in Job : tipOf'[k] = plan'[k].tip
  BY DEF tipOf
<1>3. \A k \in Job \ {j} : Board!Move(k) /\ ~Board!Submit(k)
  <2> SUFFICES ASSUME NEW k \in Job \ {j} PROVE Board!Move(k) /\ ~Board!Submit(k)
    OBVIOUS
  <2>1. Board!Keep(k) /\ tipOf'[k] = tipOf[k]
    BY <1>1, <1>2 DEF Board!Keep
  <2>2. ~Board!Submit(k)
    BY <1>1 DEF Board!Submit, Board!Goes
  <2> QED
    BY <2>1, <2>2 DEF Board!Move
<1>4. Board!Move(j)
  <2>1. CASE /\ status[j] = "absent" /\ to = "queued" /\ x = None /\ plan'[j].tip \in PR
             /\ \A k \in Job : status[k] \in Open => plan[k].tip # plan'[j].tip
    BY <1>1, <1>2, <2>1 DEF Board!Move, Board!Submit, Board!Goes, Board!Open, Open
  <2>2. CASE /\ plan'[j].tip = plan[j].tip
             /\ \/ status[j] \in {"queued", "orphaned"} /\ to = "executing" /\ x \in Worker
                \/ status[j] = "executing" /\ to \in {"orphaned", "succeeded"} /\ x = None
                \/ status[j] \in {"executing", "queued", "orphaned"} /\ to = "failed" /\ x = None
                \/ status[j] \in Open /\ to = "cancelled" /\ x = None
    BY <1>1, <1>2, <2>2 DEF Board!Move, Board!Start, Board!Orphan, Board!Report, Board!Fail,
       Board!Cancel, Board!Goes, Board!Open, Open
  <2> QED
    BY <2>1, <2>2
<1> QED
  BY <1>3, <1>4 DEF Board!BoardNext

(* The move of the board that a step makes, if any. *)
LEMMA BoardStep ==
  ASSUME TypeInv, ExecutorExecutes, [Next]_vars
  PROVE  \/ UNCHANGED <<status, executor, plan>>
         \/ Board!BoardNext /\ \E j \in Job : \E to : Goes(j, to, None)
         \/ Board!BoardNext /\ \E j \in Job, w \in Worker : Goes(j, "executing", w)
<1>1. CASE \E p \in PR : Enqueue(p)
  <2>1. PICK p \in PR : Enqueue(p)
    BY <1>1
  <2>2. PICK j \in Job : \E s :
          /\ status[j] = "absent" /\ Goes(j, "queued", None) /\ s.tip = p
          /\ plan' = [plan EXCEPT ![j] = s]
    BY <2>1 DEF Enqueue
  <2>3. plan'[j].tip = p /\ \A k \in Job \ {j} : plan'[k] = plan[k]
    BY <2>2 DEF TypeInv, TypeOK
  <2>4. \A k \in Job : status[k] \in Open => plan[k].tip # p
    BY <2>1 DEF Enqueue, Open
  <2>5. Board!BoardNext
    BY <2>2, <2>3, <2>4, GoesIsMove DEF Open
  <2> QED
    BY <2>2, <2>5
<1>2. CASE \E j \in Job : Expire(j) \/ Cancel(j)
  <2>1. PICK j \in Job : Expire(j) \/ Cancel(j)
    BY <1>2
  <2>2. UNCHANGED plan
    BY <2>1 DEF Expire, Cancel
  <2>3. PICK to \in {"orphaned", "failed", "cancelled"} :
          /\ Goes(j, to, None)
          /\ \/ status[j] = "executing" /\ to = "orphaned"
             \/ status[j] \in {"queued", "orphaned"} /\ to = "failed"
             \/ status[j] \in Open /\ to = "cancelled"
    BY <2>1 DEF Expire, Cancel
  <2>4. Board!BoardNext
    BY <2>2, <2>3, GoesIsMove DEF Open, Settled
  <2> QED
    BY <2>3, <2>4
<1>3. CASE \E j \in Job, w \in Worker : LeaseNext(w, j)
  <2>1. PICK j \in Job, w \in Worker : LeaseNext(w, j)
    BY <1>3
  <2>2. UNCHANGED plan /\ Goes(j, "executing", w) /\ status[j] \in {"queued", "orphaned"}
    BY <2>1 DEF LeaseNext
  <2>3. Board!BoardNext
    BY <2>2, GoesIsMove DEF Open
  <2> QED
    BY <2>2, <2>3
<1>4. CASE \E w \in Worker : Close(w)
  <2>1. PICK w \in Worker : Close(w)
    BY <1>4
  <2>2. run[w] # None /\ run[w].job \in Job /\ UNCHANGED plan
    BY <2>1, RunRecord DEF Close, In
  <2>3. CASE UNCHANGED <<status, executor>>
    BY <2>2, <2>3
  <2>4. CASE HoldsLease(w)
    <3>1. executor[run[w].job] = w /\ w # None
      BY <2>4, StackAssumption DEF HoldsLease
    <3>2. status[run[w].job] = "executing"
      BY <2>2, <3>1 DEF ExecutorExecutes
    <3>3. PICK to \in {"failed", "succeeded"} : Goes(run[w].job, to, None)
      BY <2>1, <2>4 DEF Close
    <3>4. Board!BoardNext
      BY <2>2, <3>2, <3>3, GoesIsMove DEF Settled
    <3> QED
      BY <2>2, <3>3, <3>4
  <2> QED
    BY <2>1, <2>3, <2>4 DEF Close
<1>5. CASE People \/ UNCHANGED vars
  BY <1>5, PeopleMove DEF vars, board
<1>6. CASE \E w \in Worker : Step(w) /\ ~Close(w)
  BY <1>6 DEF Step, CheckBase, Visit, Rebase, Ensure, Push, UpdateBase, Complete, LoseLease,
     Fail, Elsewhere, board
<1> QED
  BY <1>1, <1>2, <1>3, <1>4, <1>5, <1>6 DEF Next, Queue

(* The stacks see the queue as the board of jobs, and do to it only what the board allows:
   nothing moves a settled job, only who executes a job reports, and there is one open job
   for the tip of a stack (enqueue, lease_next, mark_succeeded, mark_failed). *)
THEOREM StacksMoveLikeBoard == Spec => MovesLikeBoard
<1>1. Init => ExecutorExecutes /\ Board!BoardInit
  BY DEF Init, ExecutorExecutes, Board!BoardInit, tipOf, NoPlan
<1>2. ASSUME TypeInv, ExecutorExecutes, [Next]_vars PROVE ExecutorExecutes'
  <2>1. \/ UNCHANGED <<status, executor>>
        \/ \E j \in Job : \E to : Goes(j, to, None)
        \/ \E j \in Job, w \in Worker : Goes(j, "executing", w)
    BY <1>2, BoardStep
  <2> QED
    BY <1>2, <2>1 DEF ExecutorExecutes, Goes, TypeInv, TypeOK
<1>3. ASSUME TypeInv, ExecutorExecutes, [Next]_vars
      PROVE  [Board!BoardNext]_(Board!boardVars)
  BY <1>3, BoardStep DEF Board!boardVars, tipOf
<1> QED
  BY <1>1, <1>2, <1>3, Typed, PTL DEF Spec, MovesLikeBoard, Board!BoardSpec

=============================================================================
