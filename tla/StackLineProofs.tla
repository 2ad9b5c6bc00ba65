--------------------------- MODULE StackLineProofs ---------------------------
(***************************************************************************)
(* Theorems about the order of the branches in Stack, for every value of   *)
(* its constants: what a run that nobody disturbed leaves behind.          *)
(***************************************************************************)
EXTENDS StackProofs

-----------------------------------------------------------------------------
(* How high the branches are, and plans along them. *)

Level == CHOOSE level \in Levels : Rises(level)

LEMMA LevelFacts ==
  /\ \A b \in Names : Level[b] \in Nat /\ (Level[b] = 0 <=> b = Main)
  /\ \A b \in Names : Level[b] <= Cardinality(PR)
  /\ \A p \in PR : /\ Line[p] \in Names /\ Line[p] # p /\ p # Main
                   /\ Level[p] = Level[Line[p]] + 1
<1>1. Level \in Levels /\ Rises(Level)
  BY LineAssumption DEF Level
<1>2. \A p \in PR : Line[p] \in Names /\ p # Main /\ p \in Names
  BY StackAssumption DEF Names, Main
<1>3. \A b \in Names : Level[b] \in Nat /\ Level[b] <= Cardinality(PR)
  BY <1>1, StackAssumption, FS_CardinalityType DEF Levels
<1>4. Level[Main] = 0 /\ \A p \in PR : Level[p] = Level[Line[p]] + 1
  BY <1>1 DEF Rises
<1>5. \A b \in Names : b = Main \/ b \in PR
  BY DEF Names
<1>6. \A p \in PR : Level[Line[p]] \in Nat /\ Level[p] # 0 /\ Line[p] # p
  BY <1>2, <1>3, <1>4
<1> QED
  BY <1>2, <1>3, <1>4, <1>5, <1>6

(* In a plan along the line every pull request comes after the one below it, and is to be
   based on it. *)
LEMMA PlanIsAlong ==
  ASSUME NEW s, IsPlan(s), Along(s)
  PROVE  /\ s.order \in Seq(PR) /\ Len(s.order) \in Nat /\ DOMAIN s.order = 1..Len(s.order)
         /\ \A i \in DOMAIN s.order :
              /\ i \in Nat /\ s.order[i] \in PR
              /\ i = 1 => Line[s.order[i]] = Main
              /\ i # 1 => i - 1 \in DOMAIN s.order /\ s.order[i - 1] = Line[s.order[i]]
         /\ \A i, k \in DOMAIN s.order : s.order[i] = s.order[k] => i = k
         /\ \A u \in s.updates : u.number \in PR /\ u.to = Line[u.number]
<1>1. IsLine(s.order, s.updates, s.bases)
  BY DEF IsPlan
<1>2. /\ s.order \in Seq(PR) /\ Len(s.order) \in Nat /\ DOMAIN s.order = 1..Len(s.order)
      /\ \A i \in DOMAIN s.order : s.order[i] \in PR
  BY <1>1 DEF IsLine
<1>3. \A i \in DOMAIN s.order :
        /\ i \in Nat /\ (i = 1 => Line[s.order[i]] = Main)
        /\ i # 1 => i - 1 \in DOMAIN s.order /\ s.order[i - 1] = Line[s.order[i]]
  BY <1>2 DEF Along
<1>4. ASSUME NEW u \in s.updates
      PROVE  u.number \in PR /\ u.to = Line[u.number]
  <2>1. PICK i \in DOMAIN s.order :
          /\ u = [number |-> s.order[i], from |-> s.bases[s.order[i]], to |-> Declared[s.order[i]]]
          /\ Declared[s.order[i]] # NoParent
    BY <1>1 DEF IsLine
  <2>2. i # 1 /\ s.order[i - 1] = Declared[s.order[i]]
    BY <1>1, <2>1 DEF IsLine
  <2> QED
    BY <1>2, <1>3, <2>1, <2>2
<1>5. \A i, k \in DOMAIN s.order : s.order[i] = s.order[k] => i = k
  BY <1>1 DEF IsLine
<1> QED
  BY <1>2, <1>3, <1>4, <1>5

-----------------------------------------------------------------------------
(* Histories in order. *)

(* The order in which changes lie on a branch: those of lower branches first, those of one
   branch in the order in which they were made. *)
Lower(c, d) ==
  Level[c[1]] < Level[d[1]] \/ (Level[c[1]] = Level[d[1]] /\ c[2] < d[2])
Sorted(h) == \A i, k \in DOMAIN h : i < k => Lower(h[i], h[k])

LEMMA LowerIsStrict ==
  ASSUME NEW c \in Change, NEW d \in Change, Lower(c, d)
  PROVE  ~Lower(d, c) /\ c # d
<1>1. c[1] \in Names /\ d[1] \in Names /\ c[2] \in Int /\ d[2] \in Int
  BY DEF Change
<1>2. Level[c[1]] \in Int /\ Level[d[1]] \in Int
  BY <1>1, LevelFacts
<1> QED
  BY <1>1, <1>2 DEF Lower

(* What is in order and has the same changes and others above them begins in the same
   way. *)
LEMMA SubsetIsBefore ==
  ASSUME NEW h \in History, NEW k \in History, Sorted(h), Sorted(k),
         Changes(h) \subseteq Changes(k),
         \A c \in Changes(h), d \in Changes(k) : d \notin Changes(h) => Lower(c, d)
  PROVE  Before(h, k)
<1>1. /\ Len(h) \in Nat /\ DOMAIN h = 1..Len(h) /\ \A i \in DOMAIN h : h[i] \in Change
      /\ Len(k) \in Nat /\ DOMAIN k = 1..Len(k) /\ \A i \in DOMAIN k : k[i] \in Change
  BY DEF History
<1> DEFINE T == {i \in 1..Len(h) : ~(i \in DOMAIN k /\ h[i] = k[i])}
<1>2. T = {}
  <2>1. SUFFICES ASSUME T # {} PROVE FALSE
    OBVIOUS
  <2>2. T \in SUBSET Nat
    BY <1>1
  <2> HIDE DEF T
  <2>3. PICK i \in T : \A m \in T : i <= m
    BY <2>1, <2>2, NatSetMin
  <2>4. i \in DOMAIN h /\ i \in Nat /\ ~(i \in DOMAIN k /\ h[i] = k[i])
    BY <1>1, <2>2, <2>3 DEF T
  <2>5. \A m \in DOMAIN h : m < i => m \in DOMAIN k /\ h[m] = k[m]
    BY <1>1, <2>3, <2>4 DEF T
  <2>6. PICK m \in DOMAIN k : k[m] = h[i]
    BY <2>4 DEF Changes
  <2>7. ~(m < i)
    <3> SUFFICES ASSUME m < i PROVE FALSE
      OBVIOUS
    <3>1. m \in DOMAIN h /\ h[m] = h[i]
      BY <1>1, <2>4, <2>5, <2>6
    <3>2. Lower(h[m], h[i])
      BY <2>4, <3>1 DEF Sorted
    <3> QED
      BY <1>1, <2>4, <3>1, <3>2, LowerIsStrict
  <2>8. i \in DOMAIN k /\ i < m
    BY <1>1, <2>4, <2>6, <2>7
  <2>9. Lower(k[i], h[i])
    BY <2>6, <2>8 DEF Sorted
  <2>10. k[i] \in Change /\ h[i] \in Change /\ k[i] \in Changes(k) /\ h[i] \in Changes(h)
    BY <1>1, <2>4, <2>8 DEF Changes
  <2>11. k[i] \in Changes(h)
    BY <2>9, <2>10, LowerIsStrict
  <2>12. PICK n \in DOMAIN h : h[n] = k[i]
    BY <2>11 DEF Changes
  <2>13. CASE n < i
    <3>1. n \in DOMAIN k /\ k[n] = k[i]
      BY <2>5, <2>12, <2>13
    <3>2. Lower(k[n], k[i])
      BY <2>8, <2>13, <3>1 DEF Sorted
    <3> QED
      BY <2>10, <3>1, <3>2, LowerIsStrict
  <2>14. CASE i < n
    <3>1. Lower(h[i], k[i])
      BY <2>4, <2>12, <2>14 DEF Sorted
    <3> QED
      BY <2>9, <2>10, <3>1, LowerIsStrict
  <2>15. n # i /\ n \in Nat
    BY <1>1, <2>4, <2>8, <2>12
  <2> QED
    BY <2>4, <2>13, <2>14, <2>15
<1>3. \A i \in 1..Len(h) : i \in 1..Len(k) /\ h[i] = k[i]
  BY <1>1, <1>2
<1>4. Len(h) <= Len(k)
  <2>1. CASE Len(h) = 0
    BY <1>1, <2>1
  <2>2. CASE Len(h) # 0
    <3>1. Len(h) \in 1..Len(h)
      BY <1>1, <2>2
    <3> QED
      BY <1>1, <1>3, <3>1
  <2> QED
    BY <2>1, <2>2
<1>5. SubSeq(k, 1, Len(h)) = h
  <2>1. SubSeq(k, 1, Len(h)) = [i \in 1..Len(h) |-> k[i]]
    BY <1>1, <1>4 DEF History
  <2>2. h = [i \in 1..Len(h) |-> h[i]]
    BY <1>1 DEF History
  <2> QED
    BY <1>3, <2>1, <2>2
<1> QED
  BY <1>4, <1>5 DEF Before

(* Histories in order are the same when they have the same changes. *)
LEMMA SortedIsUnique ==
  ASSUME NEW h \in History, NEW k \in History, Sorted(h), Sorted(k),
         Changes(h) = Changes(k)
  PROVE  h = k
<1>1. Before(h, k) /\ Before(k, h)
  BY SubsetIsBefore
<1>2. Len(h) \in Nat /\ Len(k) \in Nat /\ Len(h) <= Len(k) /\ Len(k) <= Len(h)
  BY <1>1 DEF Before, History
<1>3. SubSeq(k, 1, Len(k)) = k
  BY DEF History
<1> QED
  BY <1>1, <1>2, <1>3 DEF Before

(* A change above all others may lie on top of them. *)
LEMMA AppendSorted ==
  ASSUME NEW h \in History, NEW d \in Change, Sorted(h),
         \A c \in Changes(h) : Lower(c, d)
  PROVE  /\ Append(h, d) \in History /\ Sorted(Append(h, d))
         /\ Changes(Append(h, d)) = Changes(h) \union {d}
<1> DEFINE k == Append(h, d)
<1>1. /\ Len(h) \in Nat /\ DOMAIN h = 1..Len(h) /\ k \in Seq(Change) /\ Len(k) = Len(h) + 1
      /\ DOMAIN k = 1..Len(k) /\ k[Len(h) + 1] = d /\ \A i \in DOMAIN h : k[i] = h[i]
  BY DEF History
<1> HIDE DEF k
<1>2. \A i \in DOMAIN k : i \in DOMAIN h \/ i = Len(h) + 1
  BY <1>1
<1>3. \A i \in DOMAIN h : h[i] \in Changes(h) /\ i \in DOMAIN k /\ i < Len(h) + 1
  BY <1>1 DEF Changes
<1>4. Sorted(k)
  <2> SUFFICES ASSUME NEW i \in DOMAIN k, NEW m \in DOMAIN k, i < m PROVE Lower(k[i], k[m])
    BY DEF Sorted
  <2>1. i \in DOMAIN h
    BY <1>1, <1>2
  <2>2. CASE m \in DOMAIN h
    BY <1>1, <2>1, <2>2 DEF Sorted
  <2>3. CASE m = Len(h) + 1
    BY <1>1, <1>3, <2>1, <2>3
  <2> QED
    BY <1>2, <2>2, <2>3
<1>5. Changes(k) = Changes(h) \union {d}
  <2>1. Changes(k) \subseteq Changes(h) \union {d}
    BY <1>1, <1>2, <1>3 DEF Changes
  <2>2. Len(h) + 1 \in DOMAIN k
    BY <1>1
  <2>3. Changes(h) \union {d} \subseteq Changes(k)
    BY <1>1, <1>3, <2>2 DEF Changes
  <2> QED
    BY <2>1, <2>3
<1> QED
  BY <1>1, <1>4, <1>5 DEF k, History

(* A rebase keeps the order if what it moves is above the target. *)
LEMMA RebasedSorted ==
  ASSUME NEW h \in History, NEW target \in History, Sorted(h), Sorted(target),
         \A c \in Changes(target), d \in Changes(h) : d \notin Changes(target) => Lower(c, d)
  PROVE  Sorted(Rebased(h, target))
<1>1. PICK at \in Seq(OwnOf(h, target)) : OnTopOf(h, target, at)
  BY RebasedIs
<1> DEFINE n == Len(at)
           rest == [k \in 1..n |-> h[at[k]]]
<1>2. /\ n \in Nat /\ at \in [1..n -> OwnOf(h, target)]
      /\ Rebased(h, target) = target \o rest
      /\ \A i, k \in 1..n : i < k => at[i] < at[k]
  BY <1>1 DEF OnTopOf
<1> HIDE DEF n
<1>3. /\ DOMAIN h = 1..Len(h) /\ \A i \in DOMAIN h : h[i] \in Change /\ h[i] \in Changes(h)
      /\ DOMAIN target = 1..Len(target) /\ Len(target) \in Nat
      /\ \A i \in DOMAIN target : target[i] \in Changes(target)
  BY DEF History, Changes
<1>4. \A k \in 1..n : /\ at[k] \in DOMAIN h /\ rest[k] = h[at[k]]
                      /\ rest[k] \in Changes(h) /\ rest[k] \notin Changes(target)
  BY <1>2, <1>3 DEF OwnOf
<1>5. rest \in [1..n -> Change]
  BY <1>3, <1>4
<1> HIDE DEF rest
<1>6. rest \in Seq(Change) /\ Len(rest) = n
  BY <1>2, <1>5, SeqDef, LenProperties
<1> DEFINE all == target \o rest
<1>7. target \in Seq(Change) /\ rest \in Seq(Change)
  BY <1>6 DEF History
<1>8. all \in Seq(Change) /\ Len(all) = Len(target) + Len(rest)
  BY <1>7
<1>9. \A i \in 1..Len(target) : all[i] = target[i]
  BY <1>7
<1>10. \A i \in 1..n : all[Len(target) + i] = rest[i]
  BY <1>2, <1>6, <1>7
<1> HIDE DEF all
<1>11. DOMAIN all = 1..(Len(target) + n)
  BY <1>6, <1>8
<1>12. ASSUME NEW i \in DOMAIN all
       PROVE  \/ i \in DOMAIN target /\ all[i] = target[i]
              \/ /\ i - Len(target) \in 1..n /\ ~(i <= Len(target))
                 /\ all[i] = rest[i - Len(target)]
  <2>1. CASE i <= Len(target)
    <3>1. i \in 1..Len(target)
      BY <1>3, <1>11, <2>1
    <3> QED
      BY <1>3, <1>9, <3>1
  <2>2. CASE ~(i <= Len(target))
    <3>1. i - Len(target) \in 1..n /\ Len(target) + (i - Len(target)) = i
      BY <1>2, <1>3, <1>11, <2>2
    <3> QED
      BY <1>10, <2>2, <3>1
  <2> QED
    BY <2>1, <2>2
<1>13. Sorted(all)
  <2> SUFFICES ASSUME NEW i \in DOMAIN all, NEW k \in DOMAIN all, i < k
               PROVE  Lower(all[i], all[k])
    BY DEF Sorted
  <2>0. i \in Int /\ k \in Int
    BY <1>11
  <2>1. CASE i \in DOMAIN target /\ all[i] = target[i]
    <3>1. CASE k \in DOMAIN target /\ all[k] = target[k]
      BY <2>1, <3>1 DEF Sorted
    <3>2. CASE k - Len(target) \in 1..n /\ all[k] = rest[k - Len(target)]
      BY <1>3, <1>4, <2>1, <3>2
    <3> QED
      BY <1>12, <3>1, <3>2
  <2>2. CASE /\ i - Len(target) \in 1..n /\ ~(i <= Len(target))
             /\ all[i] = rest[i - Len(target)]
    <3>1. k - Len(target) \in 1..n /\ all[k] = rest[k - Len(target)]
      BY <1>3, <1>12, <2>0, <2>2
    <3>2. i - Len(target) < k - Len(target)
      BY <1>3, <2>0
    <3>3. at[i - Len(target)] < at[k - Len(target)]
      BY <1>2, <2>2, <3>1, <3>2
    <3>4. Lower(h[at[i - Len(target)]], h[at[k - Len(target)]])
      BY <1>4, <2>2, <3>1, <3>3 DEF Sorted
    <3> QED
      BY <1>4, <2>2, <3>1, <3>4
  <2> QED
    BY <1>12, <2>1, <2>2
<1> QED
  BY <1>2, <1>13 DEF all

-----------------------------------------------------------------------------
(* Branches that lie on each other. *)

(* What people and runs leave on a branch, as long as plans go along the line: it is in
   order, nothing on it came from above, and the changes of others on it came from the
   branch below. No change of it was made after the act a. *)
Own(b) == {c \in Change : c[1] = b}
LiesAt(h, b, a) ==
  /\ Sorted(h[b]) /\ <<b, 0>> \in Changes(h[b])
  /\ \A c \in Changes(h[b]) : c[2] <= a /\ Level[c[1]] <= Level[b]
  /\ b # Main => Changes(h[b]) \subseteq Own(b) \union Changes(h[Line[b]])
Lies(h, a) == \A b \in Names : LiesAt(h, b, a)

Holds(h, p) == Changes(h[Line[p]]) \subseteq Changes(h[p])

(* Whatever a branch has and the one below it has not is its own, and above it. *)
LEMMA OwnIsAbove ==
  ASSUME NEW h \in [Names -> History], NEW a, Lies(h, a), NEW p \in PR,
         NEW c \in Changes(h[Line[p]]), NEW d \in Changes(h[p]),
         d \notin Changes(h[Line[p]])
  PROVE  Lower(c, d)
<1>1. p \in Names /\ Line[p] \in Names /\ p # Main
  BY LevelFacts DEF Names
<1>2. d \in Own(p)
  BY <1>1 DEF Lies, LiesAt
<1>3. Level[c[1]] <= Level[Line[p]] /\ Level[p] = Level[Line[p]] + 1
      /\ Level[Line[p]] \in Nat
  BY <1>1, LevelFacts DEF Lies, LiesAt
<1>4. c \in Change
  BY <1>1 DEF Changes, History
<1>5. Level[c[1]] \in Nat
  BY <1>4, LevelFacts DEF Change
<1> QED
  BY <1>2, <1>3, <1>5 DEF Own, Lower

(* A branch that has all changes of the one below lies on it. *)
LEMMA HoldsIsBefore ==
  ASSUME NEW h \in [Names -> History], NEW a, Lies(h, a), NEW p \in PR,
         Holds(h, p)
  PROVE  Before(h[Line[p]], h[p])
<1>1. p \in Names /\ Line[p] \in Names
  BY LevelFacts DEF Names
<1>2. /\ h[p] \in History /\ h[Line[p]] \in History
      /\ Sorted(h[p]) /\ Sorted(h[Line[p]])
  BY <1>1 DEF Lies, LiesAt
<1>3. \A c \in Changes(h[Line[p]]), d \in Changes(h[p]) :
        d \notin Changes(h[Line[p]]) => Lower(c, d)
  BY OwnIsAbove
<1> QED
  BY <1>2, <1>3, SubsetIsBefore DEF Holds

(* What a rebase on the branch below gives is in order. It is what was there only if that had
   all changes of the branch below, and else no more commits on top of it. *)
LEMMA RebasedOnBelow ==
  ASSUME NEW h \in [Names -> History], NEW a, Lies(h, a), NEW p \in PR
  PROVE  LET after == Rebased(h[p], h[Line[p]]) IN
         /\ Sorted(after)
         /\ after = h[p] => Holds(h, p)
         /\ after # h[p] => /\ ~Before(h[p], after)
                            /\ \E c \in Changes(h[Line[p]]) : c \notin Changes(h[p])
<1> DEFINE head == h[p]
           target == h[Line[p]]
           after == Rebased(head, target)
<1>1. p \in Names /\ Line[p] \in Names /\ p # Main
  BY LevelFacts DEF Names
<1>2. head \in History /\ target \in History /\ Sorted(head) /\ Sorted(target)
  BY <1>1 DEF Lies, LiesAt
<1>3. \A c \in Changes(target), d \in Changes(head) : d \notin Changes(target) => Lower(c, d)
  BY OwnIsAbove
<1>4. after \in History /\ Changes(after) = Changes(head) \union Changes(target)
  BY <1>2, RebasedHolds
<1>5. Sorted(after)
  BY <1>2, <1>3, RebasedSorted
<1>6. <<p, 0>> \in Changes(head) /\ <<p, 0>> \notin Changes(target)
  <2>1. <<p, 0>> \in Changes(head)
    BY <1>1 DEF Lies, LiesAt
  <2>2. \A c \in Changes(target) : Level[c[1]] <= Level[Line[p]]
    BY <1>1 DEF Lies, LiesAt
  <2>3. Level[p] = Level[Line[p]] + 1 /\ Level[Line[p]] \in Nat
    BY <1>1, LevelFacts
  <2> QED
    BY <2>1, <2>2, <2>3
<1>7. after = head => Holds(h, p)
  BY <1>4 DEF Holds
<1>8. ASSUME after # head
      PROVE  ~Before(head, after) /\ \E c \in Changes(target) : c \notin Changes(head)
  <2>1. PICK c \in Changes(target) : c \notin Changes(head)
    <3> SUFFICES ASSUME Changes(target) \subseteq Changes(head) PROVE FALSE
      OBVIOUS
    <3>1. Changes(after) = Changes(head)
      BY <1>4
    <3> HIDE DEF after, head
    <3> QED
      BY <1>2, <1>4, <1>5, <1>8, <3>1, SortedIsUnique
  <2>2. ASSUME Before(head, after) PROVE FALSE
    <3>1. /\ Len(head) \in Nat /\ DOMAIN head = 1..Len(head)
          /\ Len(after) \in Nat /\ DOMAIN after = 1..Len(after)
          /\ \A i \in DOMAIN after : after[i] \in Change
      BY <1>2, <1>4 DEF History
    <3>2. Len(head) <= Len(after) /\ SubSeq(after, 1, Len(head)) = head
      BY <2>2 DEF Before
    <3>3. \A i \in DOMAIN head : i \in DOMAIN after /\ after[i] = head[i]
      <4> HIDE DEF after, head
      <4>1. SubSeq(after, 1, Len(head)) = [i \in 1..Len(head) |-> after[i]]
        BY <1>4, <3>1, <3>2 DEF History
      <4> QED
        BY <3>1, <3>2, <4>1
    <3>4. PICK k \in DOMAIN head : head[k] = <<p, 0>>
      BY <1>6 DEF Changes
    <3>5. PICK i \in DOMAIN after : after[i] = c
      BY <1>4, <2>1 DEF Changes
    <3>6. i \notin DOMAIN head
      BY <2>1, <3>3, <3>5 DEF Changes
    <3>7. k < i /\ k \in DOMAIN after /\ after[k] = <<p, 0>>
      BY <3>1, <3>3, <3>4, <3>5, <3>6
    <3>8. Lower(<<p, 0>>, c)
      BY <1>5, <3>5, <3>7 DEF Sorted
    <3>9. Lower(c, <<p, 0>>)
      BY <1>3, <1>6, <2>1
    <3>10. <<p, 0>> \in Change /\ c \in Change
      BY <3>1, <3>5, <3>7
    <3> QED
      BY <3>8, <3>9, <3>10, LowerIsStrict
  <2> QED
    BY <2>1, <2>2
<1> QED
  BY <1>5, <1>7, <1>8

-----------------------------------------------------------------------------
(* The inductive invariant. *)

(* The run r has done with place k of its order, or has at least looked at its base. *)
Passed(r, k) ==
  \/ r.phase \in Placed /\ k < r.at
  \/ r.phase \in {"basing", "updating"}
  \/ r.phase = "closing" /\ r.outcome = "completed"
Visited(r, k) == Passed(r, k) \/ (k = r.at /\ r.phase \in {"cloned", "rebased", "pushing"})

(* Unless people interfered since it began, the branches that the run r of plan s has passed
   hold what is below them. *)
Lying(r, s, h, a) ==
  r.since = a => \A k \in DOMAIN s.order : Passed(r, k) => Holds(h, s.order[k])

(* What r is about to push to p rewrites it, as it brings a change of the branch below that
   was not there, and all of them unless people interfered. *)
Pushes(r, p, h, a) ==
  r.phase \in {"rebased", "pushing"} =>
    /\ Sorted(r.local) /\ ~Before(r.head, r.local)
    /\ \A c \in Changes(r.local) : c[2] <= a /\ Level[c[1]] <= Level[p]
    /\ \E c \in Changes(h[Line[p]]) : c \notin Changes(r.head)
    /\ Changes(r.local) \subseteq Own(p) \union Changes(h[Line[p]])
    /\ r.since = a => Changes(h[Line[p]]) \subseteq Changes(r.local)

(* Unless people interfered, a base that r found to be right or has changed is right. *)
Based(r, s, b, a) ==
  r.since = a /\ (r.phase = "closing" => r.outcome = "completed") =>
    /\ \A u \in s.updates : u \in r.left \union r.pending \/ b[u.number] = u.to
    /\ r.phase # "checking" => r.left = {}
    /\ r.phase = "closing" => r.pending = {}
    /\ \A k \in DOMAIN s.order :
         k # 1 /\ Visited(r, k) =>
           \/ b[s.order[k]] = Line[s.order[k]]
           \/ \E u \in s.updates : u.number = s.order[k]

RunLies(r, s, h, b, a) ==
  /\ r.since <= a
  /\ Lying(r, s, h, a) /\ Based(r, s, b, a)
  /\ r.phase \in Placed => Pushes(r, s.order[r.at], h, a)

LinesOK ==
  /\ Lies(history, acts)
  /\ \A w \in Worker : run[w] # None => RunLies(run[w], Stack(w), history, base, acts)
LineInv == InLine => LinesOK

(* What is known of a run of a plan along the line. *)
Follows(r, s) ==
  r \in Run /\ IsPlan(s) /\ Along(s) /\ (r.phase \in Placed => r.at \in DOMAIN s.order)

LEMMA PlanPlaces ==
  ASSUME NEW r, NEW s, Follows(r, s)
  PROVE  /\ \A k \in DOMAIN s.order :
              /\ k \in Nat /\ s.order[k] \in PR
              /\ k = 1 => Line[s.order[k]] = Main
              /\ k # 1 => k - 1 \in DOMAIN s.order /\ s.order[k - 1] = Line[s.order[k]]
         /\ DOMAIN s.order = 1..Len(s.order) /\ Len(s.order) \in Nat
         /\ \A i, k \in DOMAIN s.order : s.order[i] = s.order[k] => i = k
         /\ \A u \in s.updates : u.number \in PR /\ u.to = Line[u.number]
         /\ r.at \in Nat /\ r.since \in Nat /\ r.local \in History /\ r.head \in History
<1>1. IsPlan(s) /\ Along(s)
  BY DEF Follows
<1>2. r.at \in Nat /\ r.since \in 0..MaxActs /\ r.local \in History /\ r.head \in History
  BY RunFields DEF Follows
<1>3. MaxActs \in Nat
  BY StackAssumption
<1> QED
  BY <1>1, <1>2, <1>3, PlanIsAlong

-----------------------------------------------------------------------------
(* What others do to a run. *)

(* After an act of people it is enough that histories grow. *)
LEMMA ActKeeps ==
  ASSUME NEW r, NEW s, Follows(r, s), NEW h, NEW h2, NEW b, NEW b2, NEW a \in Nat,
         RunLies(r, s, h, b, a), \A n \in Names : Changes(h[n]) \subseteq Changes(h2[n])
  PROVE  RunLies(r, s, h2, b2, a + 1)
<1>1. r.since \in Nat /\ r.since <= a + 1 /\ r.since # a + 1
  BY PlanPlaces DEF RunLies
<1>2. Lying(r, s, h2, a + 1) /\ Based(r, s, b2, a + 1)
  BY <1>1 DEF Lying, Based
<1>3. ASSUME r.phase \in Placed
      PROVE  Pushes(r, s.order[r.at], h2, a + 1)
  <2> DEFINE p == s.order[r.at]
  <2>1. Pushes(r, p, h, a)
    BY <1>3 DEF RunLies
  <2>2. p \in PR /\ Line[p] \in Names
    BY <1>3, PlanPlaces, LevelFacts DEF Follows
  <2>3. \A c \in Changes(r.local) : c[2] \in Nat
    BY PlanPlaces DEF Changes, History, Change
  <2>4. \A n \in Nat : n <= a => n <= a + 1
    OBVIOUS
  <2> HIDE DEF p
  <2>5. Changes(h[Line[p]]) \subseteq Changes(h2[Line[p]])
    BY <2>2
  <2> QED
    BY <1>1, <2>1, <2>3, <2>4, <2>5 DEF Pushes, p
<1> QED
  BY <1>1, <1>2, <1>3 DEF RunLies

(* A base that becomes the branch below disturbs no run. *)
LEMMA BaseKeeps ==
  ASSUME NEW r, NEW s, Follows(r, s), NEW h, NEW b, NEW b2, NEW a \in Nat,
         RunLies(r, s, h, b, a), \A p \in PR : b2[p] \in {b[p], Line[p]}
  PROVE  RunLies(r, s, h, b2, a)
<1>1. Based(r, s, b2, a)
  BY PlanPlaces DEF Based, RunLies
<1> QED
  BY <1>1 DEF RunLies

(* No place that an undisturbed run has passed, or is about to push on, is rewritten with a
   change from the branch below: it has them all. *)
LEMMA PassedStays ==
  ASSUME NEW r, NEW s, Follows(r, s), NEW h, NEW b, NEW a \in Nat,
         RunLies(r, s, h, b, a), r.since = a, NEW p \in PR, ~Holds(h, p), NEW k \in DOMAIN s.order
  PROVE  /\ Passed(r, k) => s.order[k] # p /\ Line[s.order[k]] # p
         /\ r.phase \in Placed /\ k = r.at => Line[s.order[k]] # p
<1>1. \A i \in DOMAIN s.order : Passed(r, i) => s.order[i] # p
  BY DEF RunLies, Lying
<1>2. k \in Nat /\ (k = 1 => Line[s.order[k]] = Main)
      /\ (k # 1 => k - 1 \in DOMAIN s.order /\ s.order[k - 1] = Line[s.order[k]])
  BY PlanPlaces
<1>3. p # Main
  BY LevelFacts
<1>4. k - 1 < k /\ r.at \in Nat
  BY <1>2, PlanPlaces
<1>5. Passed(r, k) \/ (r.phase \in Placed /\ k = r.at) => Passed(r, k - 1)
  BY <1>2, <1>4 DEF Passed
<1> QED
  BY <1>1, <1>2, <1>3, <1>5

LEMMA PushKeeps ==
  ASSUME NEW r, NEW s, Follows(r, s), NEW h \in [Names -> History], NEW b,
         NEW a \in Nat, RunLies(r, s, h, b, a), NEW p \in PR, ~Holds(h, p), NEW local,
         Changes(h[p]) \subseteq Changes(local)
  PROVE  RunLies(r, s, [h EXCEPT ![p] = local], b, a)
<1> DEFINE h2 == [h EXCEPT ![p] = local]
<1>1. /\ \A n \in Names : n # p => h2[n] = h[n]
      /\ \A n \in Names : Changes(h[n]) \subseteq Changes(h2[n])
  BY DEF Names
<1> HIDE DEF h2
<1>2. \A k \in DOMAIN s.order : s.order[k] \in Names /\ Line[s.order[k]] \in Names
                                /\ s.order[k] \in PR
  BY PlanPlaces, LevelFacts DEF Names
<1>3. Lying(r, s, h2, a)
  <2> SUFFICES ASSUME r.since = a, NEW k \in DOMAIN s.order, Passed(r, k)
               PROVE  Holds(h2, s.order[k])
    BY DEF Lying
  <2>1. s.order[k] # p /\ Line[s.order[k]] # p
    BY PassedStays
  <2>2. Holds(h, s.order[k])
    BY DEF RunLies, Lying
  <2> QED
    BY <1>1, <1>2, <2>1, <2>2 DEF Holds
<1>4. ASSUME r.phase \in Placed
      PROVE  Pushes(r, s.order[r.at], h2, a)
  <2> DEFINE q == s.order[r.at]
  <2>1. Pushes(r, q, h, a) /\ r.at \in DOMAIN s.order
    BY <1>4 DEF RunLies, Follows
  <2>2. Line[q] \in Names
    BY <1>2, <2>1
  <2>3. r.since = a => Line[q] # p
    BY <1>4, <2>1, PassedStays
  <2> HIDE DEF q
  <2>4. /\ Changes(h[Line[q]]) \subseteq Changes(h2[Line[q]])
        /\ r.since = a => h[Line[q]] = h2[Line[q]]
    BY <1>1, <2>2, <2>3
  <2> QED
    BY <2>1, <2>4 DEF Pushes, q
<1> QED
  BY <1>3, <1>4 DEF RunLies, h2

-----------------------------------------------------------------------------
(* What a run does itself. *)

(* A run that begins, and one that ends early, claim nothing. *)
LEMMA FreshLies ==
  ASSUME NEW r, NEW s, NEW h, NEW b, NEW a \in Nat, r.phase = "checking", r.since = a, r.at = 1,
         r.left = s.updates, DOMAIN s.order \subseteq Nat \ {0}
  PROVE  RunLies(r, s, h, b, a)
<1>1. \A k \in DOMAIN s.order : ~Visited(r, k)
  BY DEF Visited, Passed
<1> QED
  BY <1>1 DEF RunLies, Lying, Based, Pushes, Visited

LEMMA EndedFields ==
  ASSUME NEW r \in Run, NEW outcome
  PROVE  LET n == Ended(r, outcome) IN
         /\ n.phase = "closing" /\ n.outcome = outcome /\ n.since = r.since /\ n.job = r.job
         /\ n.left = {} /\ n.pending = {}
BY DEF Ended, Run

LEMMA EndedLies ==
  ASSUME NEW r \in Run, NEW s, NEW h, NEW b, NEW a, NEW outcome, outcome # "completed",
         RunLies(r, s, h, b, a)
  PROVE  RunLies(Ended(r, outcome), s, h, b, a)
<1> DEFINE n == Ended(r, outcome)
<1>1. n.phase = "closing" /\ n.outcome # "completed" /\ n.since = r.since
  BY EndedFields
<1> HIDE DEF n
<1>2. RunLies(n, s, h, b, a)
  BY <1>1 DEF RunLies, Lying, Based, Passed, Placed
<1> QED
  BY <1>2 DEF n

LEMMA CompletedLies ==
  ASSUME NEW r \in Run, NEW s, NEW h, NEW b, NEW a, RunLies(r, s, h, b, a),
         r.phase = "basing", r.pending = {}
  PROVE  RunLies(Ended(r, "completed"), s, h, b, a)
<1> DEFINE n == Ended(r, "completed")
<1>1. /\ n.phase = "closing" /\ n.outcome = "completed" /\ n.since = r.since
      /\ n.left = {} /\ n.pending = {}
  BY EndedFields
<1> HIDE DEF n
<1>2. \A k : Passed(r, k) /\ Passed(n, k) /\ Visited(r, k) /\ Visited(n, k)
  BY <1>1 DEF Passed, Visited
<1>3. Lying(n, s, h, a)
  BY <1>1, <1>2 DEF RunLies, Lying
<1>4. Based(n, s, b, a)
  BY <1>1, <1>2 DEF RunLies, Based
<1>5. RunLies(n, s, h, b, a)
  BY <1>1, <1>3, <1>4 DEF RunLies, Placed
<1> QED
  BY <1>5 DEF n

(* A run that goes on at its place, with all its updates. *)
LEMMA GoesOnLies ==
  ASSUME NEW r, NEW n, NEW s, NEW h, NEW b, NEW a, RunLies(r, s, h, b, a),
         n.since = r.since, n.at = r.at, r.phase \in Placed, n.phase \in Placed,
         n.left \union n.pending = r.left \union r.pending,
         n.phase # "checking" => n.left = {} \/ (n.left = r.left /\ r.phase # "checking"),
         Visited(n, r.at) => \/ Visited(r, r.at) \/ r.at = 1
                             \/ b[s.order[r.at]] = Line[s.order[r.at]]
                             \/ \E u \in s.updates : u.number = s.order[r.at],
         Pushes(n, s.order[r.at], h, a)
  PROVE  RunLies(n, s, h, b, a)
<1>1. r.phase # "closing" /\ n.phase # "closing"
  BY DEF Placed
<1>2. \A k : Passed(n, k) => Passed(r, k)
  BY <1>1 DEF Passed, Placed
<1>3. \A k : Visited(n, k) => Visited(r, k) \/ k = r.at
  BY <1>2 DEF Visited
<1>4. Lying(n, s, h, a)
  BY <1>2 DEF RunLies, Lying
<1>5. Based(n, s, b, a)
  BY <1>1, <1>3 DEF RunLies, Based
<1> QED
  BY <1>4, <1>5 DEF RunLies

(* A run that goes on to the next place. *)
LEMMA OnwardLies ==
  ASSUME NEW w, NEW r, NEW s, Follows(r, s), s = Stack(w), NEW h, NEW b, NEW a,
         RunLies(r, s, h, b, a), r.phase \in {"cloned", "pushing"},
         r.since = a => Holds(h, s.order[r.at])
  PROVE  RunLies(Onward(w, r), s, h, b, a)
<1> DEFINE n == Onward(w, r)
           phase == IF r.at = Len(s.order) THEN "basing" ELSE "visiting"
<1>1. n = [r EXCEPT !.at = r.at + 1, !.head = <<>>, !.local = <<>>, !.phase = phase]
  BY DEF Onward
<1> HIDE DEF phase
<1>2. /\ n.since = r.since /\ n.at = r.at + 1 /\ n.left = r.left /\ n.pending = r.pending
      /\ n.phase = phase
  BY <1>1 DEF Follows, Run
<1> HIDE DEF n
<1>3. /\ r.at \in DOMAIN s.order /\ DOMAIN s.order = 1..Len(s.order) /\ Len(s.order) \in Nat
      /\ r.at \in Nat
  BY LineUpdates DEF Follows, IsPlan, IsLine, Placed
<1>4. \A k \in DOMAIN s.order : Passed(n, k) => k = r.at \/ Passed(r, k)
  BY <1>2, <1>3 DEF Passed, Placed, phase
<1>5. \A k \in DOMAIN s.order : Visited(n, k) => Visited(r, k)
  BY <1>2, <1>4 DEF Visited, phase
<1>6. phase \in {"basing", "visiting"}
  BY DEF phase
<1>7. Lying(n, s, h, a)
  BY <1>2, <1>4 DEF RunLies, Lying
<1>8. Based(n, s, b, a)
  BY <1>2, <1>5, <1>6 DEF RunLies, Based
<1>9. Pushes(n, s.order[n.at], h, a)
  BY <1>2, <1>6 DEF Pushes
<1> QED
  BY <1>2, <1>7, <1>8, <1>9 DEF RunLies, n

(* A run that changes the bases. *)
LEMMA BasingLies ==
  ASSUME NEW r, NEW n, NEW s, NEW h, NEW b, NEW a, RunLies(r, s, h, b, a),
         n.since = r.since, r.phase \in {"basing", "updating"}, n.phase \in {"basing", "updating"},
         n.left = r.left,
         \A u \in s.updates : u \in r.pending => u \in n.pending \/ b[u.number] = u.to
  PROVE  RunLies(n, s, h, b, a)
<1>1. \A k : Passed(r, k) /\ Visited(r, k)
  BY DEF Passed, Visited
<1>2. Lying(n, s, h, a)
  BY <1>1 DEF RunLies, Lying
<1>3. Based(n, s, b, a)
  BY <1>1 DEF RunLies, Based
<1> QED
  BY <1>2, <1>3 DEF RunLies, Placed

-----------------------------------------------------------------------------
(* The steps of a run. *)

LEMMA RunFollows ==
  ASSUME TypeInv, InLine, NEW w \in Worker, run[w] # None
  PROVE  Follows(run[w], Stack(w))
BY RunRecord DEF Follows, HasPlan, Stack, InLine

(* A run rebases on the branch below. *)
LEMMA OnTopIsBelow ==
  ASSUME TypeInv, InLine, NEW w \in Worker, run[w] # None, run[w].phase \in Placed
  PROVE  OnTop(w) = Line[Current(w)]
<1>1. Follows(run[w], Stack(w))
  BY RunFollows
<1>2. run[w].at \in DOMAIN Stack(w).order /\ Along(Stack(w))
  BY <1>1 DEF Follows
<1> QED
  BY <1>2 DEF OnTop, Current, Along

LEMMA CheckBaseLies ==
  ASSUME TypeInv, InLine, NEW w \in Worker, CheckBase(w),
         RunLies(run[w], Stack(w), history, base, acts)
  PROVE  RunLies(run'[w], Stack(w), history, base, acts)
<1> DEFINE r == run[w]
           s == Stack(w)
           u == Lowest(r.left)
           n == run'[w]
<1>1. r # None /\ r.phase = "checking" /\ r.phase \in Placed /\ r \in Run /\ Follows(r, s)
      /\ run \in [Worker -> Run \union {None}]
  BY RunRecord, RunFollows DEF CheckBase, In, Placed, TypeInv, TypeOK
<1>2. r.left \in SUBSET Update /\ r.pending \in SUBSET Update
  BY <1>1, RunFields
<1>3. CASE Ends(w, "error") \/ Ends(w, "base changed")
  <2>1. n = Ended(r, "error") \/ n = Ended(r, "base changed")
    BY <1>1, <1>3 DEF Ends
  <2> QED
    BY <1>1, <2>1, EndedLies
<1>4. CASE r.left = {} /\ run' = [run EXCEPT ![w].phase = "visiting"]
  <2>1. n = [r EXCEPT !.phase = "visiting"]
    BY <1>1, <1>4
  <2> HIDE DEF n, r, s
  <2>2. /\ n.since = r.since /\ n.at = r.at /\ n.left = r.left /\ n.pending = r.pending
        /\ n.phase = "visiting"
    BY <1>1, <2>1 DEF Run
  <2>3. ~Visited(n, r.at) \/ Visited(r, r.at)
    BY <1>1, <2>2 DEF Visited, Passed
  <2> QED
    BY <1>1, <1>4, <2>2, <2>3, GoesOnLies DEF Placed, Pushes, n, r, s
<1>5. CASE r.left # {} /\ run' = [run EXCEPT ![w].left = @ \ {u}, ![w].pending = @ \union {u}]
  <2>1. n = [r EXCEPT !.left = @ \ {u}, !.pending = @ \union {u}]
    BY <1>1, <1>5
  <2>2. u \in r.left
    BY <1>2, <1>5, LowestIsOne
  <2> HIDE DEF n, r, s, u
  <2>3. /\ n.since = r.since /\ n.at = r.at /\ n.left = r.left \ {u}
        /\ n.pending = r.pending \union {u} /\ n.phase = "checking"
    BY <1>1, <2>1 DEF Run
  <2>4. ~Visited(n, r.at) \/ Visited(r, r.at)
    BY <1>1, <2>3 DEF Visited, Passed
  <2>5. n.left \union n.pending = r.left \union r.pending
    BY <2>2, <2>3
  <2> QED
    BY <1>1, <2>3, <2>4, <2>5, GoesOnLies DEF Placed, Pushes, n, r, s
<1>6. CASE r.left # {} /\ base[u.number] = u.to /\ run' = [run EXCEPT ![w].left = @ \ {u}]
  <2>1. n = [r EXCEPT !.left = @ \ {u}]
    BY <1>1, <1>6
  <2> HIDE DEF n, r, s, u
  <2>2. /\ n.since = r.since /\ n.at = r.at /\ n.left = r.left \ {u}
        /\ n.pending = r.pending /\ n.phase = "checking"
    BY <1>1, <2>1 DEF Run
  <2>3. \A k : (Passed(n, k) <=> Passed(r, k)) /\ (Visited(n, k) <=> Visited(r, k))
    BY <1>1, <2>2 DEF Visited, Passed
  <2>4. RunLies(r, s, history, base, acts)
    BY DEF r, s
  <2>5. Lying(n, s, history, acts)
    BY <2>2, <2>3, <2>4 DEF RunLies, Lying
  <2>6. Based(n, s, base, acts)
    BY <1>1, <1>6, <2>2, <2>3, <2>4 DEF RunLies, Based
  <2> QED
    BY <2>2, <2>4, <2>5, <2>6 DEF RunLies, Pushes, n, s
<1> QED
  BY <1>3, <1>4, <1>5, <1>6 DEF CheckBase

LEMMA VisitLies ==
  ASSUME TypeInv, InLine, NEW w \in Worker, Visit(w),
         RunLies(run[w], Stack(w), history, base, acts)
  PROVE  RunLies(run'[w], Stack(w), history, base, acts)
<1> DEFINE r == run[w]
           s == Stack(w)
           p == Current(w)
           n == run'[w]
<1>1. r # None /\ r.phase = "visiting" /\ r.phase \in Placed /\ r \in Run /\ Follows(r, s)
      /\ run \in [Worker -> Run \union {None}] /\ p = s.order[r.at] /\ r.at \in DOMAIN s.order
  BY RunRecord, RunFollows DEF Visit, In, Placed, TypeInv, TypeOK, Follows, Current
<1>2. CASE Ends(w, "blocked") \/ Ends(w, "blocked by base")
  <2>1. n = Ended(r, "blocked") \/ n = Ended(r, "blocked by base")
    BY <1>1, <1>2 DEF Ends
  <2> QED
    BY <1>1, <2>1, EndedLies
<1>3. CASE /\ BaseAsPlanned(w, p)
           /\ run' = [run EXCEPT ![w].phase = "cloned", ![w].head = history[p]]
  <2>1. n = [r EXCEPT !.phase = "cloned", !.head = history[p]]
    BY <1>1, <1>3
  <2>2. r.at # 1 => OnTop(w) = Line[p]
    BY <1>1, PlanPlaces DEF OnTop
  <2>3. r.at = 1 \/ base[p] = Line[p] \/ \E u \in s.updates : u.number = p
    BY <1>3, <2>2 DEF BaseAsPlanned
  <2>4. RunLies(r, s, history, base, acts)
    OBVIOUS
  <2> HIDE DEF n, r, s, p
  <2>5. /\ n.since = r.since /\ n.at = r.at /\ n.left = r.left /\ n.pending = r.pending
        /\ n.phase = "cloned"
    BY <1>1, <2>1 DEF Run
  <2>6. r.since = acts => r.left = {}
    BY <1>1, <2>4 DEF RunLies, Based
  <2>7. \A k : (Passed(n, k) <=> Passed(r, k)) /\ (Visited(n, k) => Visited(r, k) \/ k = r.at)
    BY <1>1, <2>5 DEF Visited, Passed, Placed
  <2>8. Lying(n, s, history, acts)
    BY <2>4, <2>5, <2>7 DEF RunLies, Lying
  <2>9. Based(n, s, base, acts)
    BY <1>1, <2>3, <2>4, <2>5, <2>7 DEF RunLies, Based
  <2> QED
    BY <2>4, <2>5, <2>8, <2>9 DEF RunLies, Pushes, n, s
<1>4. \/ Ends(w, "blocked") \/ Ends(w, "blocked by base")
      \/ /\ BaseAsPlanned(w, p)
         /\ run' = [run EXCEPT ![w].phase = "cloned", ![w].head = history[p]]
  BY DEF Visit
<1> QED
  BY <1>2, <1>3, <1>4

LEMMA RebaseLies ==
  ASSUME TypeInv, InLine, LinesOK, NEW w \in Worker, Rebase(w)
  PROVE  RunLies(run'[w], Stack(w), history, base, acts)
<1> DEFINE r == run[w]
           s == Stack(w)
           p == Current(w)
           target == history[OnTop(w)]
           after == Rebased(r.head, target)
           n == run'[w]
<1>0. Lies(history, acts)
  BY DEF LinesOK
<1>1. /\ r # None /\ r.phase = "cloned" /\ r.phase \in Placed /\ r \in Run /\ Follows(r, s)
      /\ run \in [Worker -> Run \union {None}] /\ p = s.order[r.at] /\ r.at \in DOMAIN s.order
      /\ RunLies(r, s, history, base, acts)
  BY RunRecord, RunFollows DEF Rebase, In, Placed, TypeInv, TypeOK, Follows, Current, LinesOK
<1>2. /\ p \in PR /\ p \in Names /\ OnTop(w) \in Names /\ history \in [Names -> History]
      /\ Line[p] \in Names /\ p # Main
  BY <1>0, <1>1, CurrentIsPR, LevelFacts DEF TypeInv, TypeOK, Names
<1>3. CASE Ends(w, "error") \/ Ends(w, "blocked")
  <2>1. n = Ended(r, "error") \/ n = Ended(r, "blocked")
    BY <1>1, <1>3 DEF Ends
  <2> QED
    BY <1>1, <2>1, EndedLies
<1>4. Changes(after) = Changes(r.head) \union Changes(target)
  BY <1>1, <1>2, RunFields, RebasedHolds
<1>5. OnTop(w) = Line[p]
  BY <1>1, OnTopIsBelow
<1>6. CASE /\ history[p] = r.head /\ after = r.head
           /\ run' = [run EXCEPT ![w] = Onward(w, run[w])]
  <2>2. Rebased(history[p], history[Line[p]]) = history[p]
    BY <1>5, <1>6
  <2>3. Holds(history, p)
    BY <1>0, <1>2, <2>2, RebasedOnBelow
  <2>4. n = Onward(w, r)
    BY <1>1, <1>6
  <2> QED
    BY <1>1, <2>3, <2>4, OnwardLies
<1>7. CASE /\ history[p] = r.head /\ after # r.head
           /\ run' = [run EXCEPT ![w].phase = "rebased", ![w].local = after]
  <2>1. n = [r EXCEPT !.phase = "rebased", !.local = after]
    BY <1>1, <1>7
  <2>2. /\ Sorted(after) /\ ~Before(r.head, after)
        /\ \A c \in Changes(after) : c[2] <= acts /\ Level[c[1]] <= Level[p]
        /\ \E c \in Changes(history[Line[p]]) : c \notin Changes(r.head)
        /\ Changes(after) \subseteq Own(p) \union Changes(history[Line[p]])
        /\ Changes(history[Line[p]]) \subseteq Changes(after)
    <3>1. OnTop(w) = Line[p] /\ after = Rebased(history[p], history[Line[p]])
      BY <1>5, <1>7
    <3>2. LiesAt(history, p, acts) /\ LiesAt(history, Line[p], acts)
      BY <1>0, <1>2 DEF Lies
    <3>3. /\ \A c \in Changes(after) : c[2] <= acts /\ Level[c[1]] <= Level[p]
          /\ Changes(after) \subseteq Own(p) \union Changes(history[Line[p]])
          /\ Changes(history[Line[p]]) \subseteq Changes(after)
      <4>1. \A c \in Changes(after) : c \in Changes(history[p]) \union Changes(history[Line[p]])
        BY <1>4, <1>7, <3>1
      <4>2. \A c \in Changes(history[Line[p]]) : Level[c[1]] <= Level[p]
        <5> SUFFICES ASSUME NEW c \in Changes(history[Line[p]]) PROVE Level[c[1]] <= Level[p]
          OBVIOUS
        <5>1. c \in Change
          BY <1>2 DEF Changes, History
        <5>2. Level[c[1]] \in Nat /\ Level[Line[p]] \in Nat /\ Level[p] = Level[Line[p]] + 1
          BY <1>2, <5>1, LevelFacts DEF Change
        <5> QED
          BY <3>2, <5>2 DEF LiesAt
      <4> QED
        BY <1>2, <1>4, <1>7, <3>1, <3>2, <4>1, <4>2 DEF LiesAt
    <3> QED
      BY <1>0, <1>2, <1>7, <3>1, <3>3, RebasedOnBelow
  <2> HIDE DEF n, r, s, p, after
  <2>3. /\ n.since = r.since /\ n.at = r.at /\ n.left = r.left /\ n.pending = r.pending
        /\ n.phase = "rebased" /\ n.head = r.head /\ n.local = after
    BY <1>1, <2>1 DEF Run
  <2>4. Pushes(n, p, history, acts)
    BY <2>2, <2>3 DEF Pushes
  <2>5. Visited(r, r.at)
    BY <1>1 DEF Visited
  <2>6. n.phase \in Placed
    BY <2>3 DEF Placed
  <2> QED
    BY <1>1, <2>3, <2>4, <2>5, <2>6, GoesOnLies DEF n, r, s
<1> QED
  BY <1>3, <1>6, <1>7 DEF Rebase

LEMMA EnsureLies ==
  ASSUME TypeInv, InLine, NEW w \in Worker, Ensure(w),
         RunLies(run[w], Stack(w), history, base, acts)
  PROVE  RunLies(run'[w], Stack(w), history, base, acts)
<1> DEFINE r == run[w]
           s == Stack(w)
           n == run'[w]
           phase == IF r.phase = "rebased" THEN "pushing" ELSE "updating"
<1>1. /\ r # None /\ r.phase \in {"rebased", "basing"} /\ r \in Run
      /\ run \in [Worker -> Run \union {None}]
  BY RunRecord DEF Ensure, In, TypeInv, TypeOK
<1>2. n = [r EXCEPT !.phase = phase]
  BY <1>1 DEF Ensure
<1>3. RunLies(r, s, history, base, acts)
  OBVIOUS
<1> HIDE DEF n, r, s, phase
<1>4. /\ n.since = r.since /\ n.at = r.at /\ n.left = r.left /\ n.pending = r.pending
      /\ n.head = r.head /\ n.local = r.local /\ n.phase = phase
  BY <1>1, <1>2 DEF Run
<1>5. CASE r.phase = "rebased"
  <2>1. n.phase = "pushing" /\ r.phase \in Placed /\ n.phase \in Placed
    BY <1>4, <1>5 DEF Placed, phase
  <2>2. Pushes(n, s.order[r.at], history, acts)
    BY <1>3, <1>4, <1>5, <2>1 DEF Pushes, RunLies
  <2>3. Visited(r, r.at)
    BY <1>5 DEF Visited
  <2> QED
    BY <1>3, <1>4, <1>5, <2>1, <2>2, <2>3, GoesOnLies DEF n, s
<1>6. CASE r.phase = "basing"
  <2>1. n.phase = "updating"
    BY <1>4, <1>6 DEF phase
  <2> QED
    BY <1>3, <1>4, <1>6, <2>1, BasingLies DEF n, s
<1> QED
  BY <1>1, <1>5, <1>6

(* The base that a run changes is right from then on. *)
LEMMA UpdateBaseLies ==
  ASSUME TypeInv, InLine, NEW w \in Worker, UpdateBase(w),
         RunLies(run[w], Stack(w), history, base', acts)
  PROVE  RunLies(run'[w], Stack(w), history, base', acts)
<1> DEFINE r == run[w]
           s == Stack(w)
           u == Lowest(r.pending)
           m == [r EXCEPT !.phase = "basing", !.pending = @ \ {u}]
           n == run'[w]
<1>1. /\ r # None /\ r.phase = "updating" /\ r \in Run /\ r.pending # {}
      /\ run \in [Worker -> Run \union {None}] /\ r.pending \in SUBSET Update
  BY RunRecord, RunFields DEF UpdateBase, In, TypeInv, TypeOK, HasPlan
<1>2. CASE Ends(w, "error")
  <2>1. n = Ended(r, "error")
    BY <1>1, <1>2 DEF Ends
  <2> QED
    BY <1>1, <2>1, EndedLies
<1>3. CASE base' = [base EXCEPT ![u.number] = u.to] /\ Called(w, m)
  <2>1. u \in r.pending /\ u.number \in PR
    BY <1>1, LowestIsOne DEF Update
  <2>2. base'[u.number] = u.to
    BY <1>3, <2>1 DEF TypeInv, TypeOK
  <2>3. n = m \/ n = Ended(m, "error")
    BY <1>1, <1>3 DEF Called
  <2>4. RunLies(r, s, history, base', acts)
    OBVIOUS
  <2> HIDE DEF n, r, s, u
  <2>5. /\ m \in Run /\ m.since = r.since /\ m.phase = "basing" /\ m.left = r.left
        /\ m.pending = r.pending \ {u}
    BY <1>1 DEF Run, Phases
  <2> HIDE DEF m
  <2>6. \A v \in s.updates : v \in r.pending => v \in m.pending \/ base'[v.number] = v.to
    BY <2>2, <2>5
  <2>7. RunLies(m, s, history, base', acts)
    BY <1>1, <2>4, <2>5, <2>6, BasingLies
  <2>8. RunLies(n, s, history, base', acts)
    BY <2>3, <2>5, <2>7, EndedLies
  <2> QED
    BY <2>8 DEF n, s
<1> QED
  BY <1>2, <1>3 DEF UpdateBase

(* A push that GitHub takes rewrites the head that was
   cloned: the branches still lie on each other, no undisturbed run had passed this one, and
   now it holds what is below. *)
LEMMA PushLies ==
  ASSUME TypeInv, InLine, LinesOK, NEW w \in Worker, Push(w),
         Accepts(Current(w), run[w].head, run[w].local)
  PROVE  /\ Lies(history', acts)
         /\ \A v \in Worker : run[v] # None => RunLies(run[v], Stack(v), history', base, acts)
         /\ RunLies(run'[w], Stack(w), history', base, acts)
<1> DEFINE r == run[w]
           s == Stack(w)
           p == Current(w)
           below == Line[p]
           n == run'[w]
<1>0. Lies(history, acts) /\ acts \in Nat
  BY StackAssumption DEF InLine, LinesOK, TypeInv, TypeOK
<1>1. /\ r # None /\ r.phase = "pushing" /\ r.phase \in Placed /\ r \in Run /\ Follows(r, s)
      /\ run \in [Worker -> Run \union {None}] /\ p = s.order[r.at] /\ r.at \in DOMAIN s.order
      /\ RunLies(r, s, history, base, acts)
  BY RunRecord, RunFollows DEF Push, In, Placed, TypeInv, TypeOK, Follows, Current, LinesOK
<1>2. /\ p \in PR /\ p \in Names /\ below \in Names /\ below # p /\ p # Main
      /\ history \in [Names -> History] /\ r.local \in History
  BY <1>0, <1>1, CurrentIsPR, LevelFacts, RunFields DEF TypeInv, TypeOK, Names
<1>3. /\ Accepts(p, r.head, r.local) /\ history' = [history EXCEPT ![p] = r.local]
      /\ Called(w, Onward(w, r))
  BY DEF Push
<1>4. history'[p] = r.local /\ \A b \in Names : b # p => history'[b] = history[b]
  BY <1>2, <1>3
<1>6. Pushes(r, p, history, acts)
  BY <1>1 DEF RunLies
<1>7. history[p] = r.head /\ ~Holds(history, p)
  <2>1. ~Before(r.head, r.local) /\ \E c \in Changes(history[below]) : c \notin Changes(r.head)
    BY <1>1, <1>6 DEF Pushes
  <2>2. history[p] = r.head
    BY <1>3, <2>1 DEF Accepts
  <2> QED
    BY <2>1, <2>2 DEF Holds
<1>8. Changes(history[p]) \subseteq Changes(r.local)
  <2>1. IsSafe(r)
    BY <1>1, RunRecord
  <2> QED
    BY <1>1, <1>7, <2>1 DEF IsSafe
<1>9. Lies(history', acts)
  <2> SUFFICES ASSUME NEW b \in Names PROVE LiesAt(history', b, acts)
    BY DEF Lies
  <2>1. LiesAt(history, b, acts) /\ LiesAt(history, p, acts)
    BY <1>0, <1>2 DEF Lies
  <2>2. b # Main => Line[b] \in Names
    BY <1>0, LevelFacts DEF Names
  <2>3. CASE b = p
    <3>1. /\ Sorted(r.local)
          /\ \A c \in Changes(r.local) : c[2] <= acts /\ Level[c[1]] <= Level[p]
          /\ Changes(r.local) \subseteq Own(p) \union Changes(history[below])
      BY <1>1, <1>6 DEF Pushes
    <3>2. <<p, 0>> \in Changes(r.local)
      BY <1>8, <2>1 DEF LiesAt
    <3> QED
      BY <1>2, <1>4, <2>3, <3>1, <3>2 DEF LiesAt
  <2>4. CASE b # p
    <3>1. history'[b] = history[b]
      BY <1>4, <2>4
    <3>2. b # Main => Changes(history[Line[b]]) \subseteq Changes(history'[Line[b]])
      BY <1>4, <1>8, <2>2
    <3> QED
      BY <2>1, <3>1, <3>2 DEF LiesAt
  <2> QED
    BY <2>3, <2>4
<1>10. ASSUME NEW v \in Worker, run[v] # None
       PROVE  RunLies(run[v], Stack(v), history', base, acts)
  <2>1. Follows(run[v], Stack(v)) /\ RunLies(run[v], Stack(v), history, base, acts)
    BY <1>10, RunFollows DEF LinesOK
  <2> QED
    BY <1>0, <1>2, <1>3, <1>7, <1>8, <2>1, PushKeeps
<1>11. r.since = acts => Holds(history', p)
  <2>1. r.since = acts => Changes(history[below]) \subseteq Changes(r.local)
    BY <1>1, <1>6 DEF Pushes
  <2> QED
    BY <1>2, <1>4, <2>1 DEF Holds
<1>12. RunLies(Onward(w, r), s, history', base, acts) /\ Onward(w, r) \in Run
  <2>1. RunLies(r, s, history', base, acts)
    BY <1>1, <1>10
  <2> QED
    BY <1>1, <1>11, <2>1, OnwardLies, OnwardOK
<1>13. n = Onward(w, r) \/ n = Ended(Onward(w, r), "error")
  BY <1>1, <1>3 DEF Called
<1>14. RunLies(n, s, history', base, acts)
  BY <1>12, <1>13, EndedLies
<1> QED
  BY <1>9, <1>10, <1>14

(* A commit lies on top of its branch, on which nothing is from above. *)
LEMMA CommitLies ==
  ASSUME TypeInv, InLine, Lies(history, acts), NEW b \in Names, Commit(b)
  PROVE  Lies(history', acts')
<1> DEFINE d == <<b, acts + 1>>
<1>1. /\ history \in [Names -> History] /\ acts \in Nat
      /\ acts' = acts + 1 /\ acts + 1 \in 0..MaxActs
  BY StackAssumption DEF InLine, TypeInv, TypeOK, Commit, Act
<1>2. d \in Change /\ d[1] = b /\ d[2] = acts + 1
  BY <1>1 DEF Change
<1>3. history' = [history EXCEPT ![b] = Append(history[b], d)]
  BY DEF Commit
<1> HIDE DEF d
<1>4. \A n \in Names : LiesAt(history, n, acts)
  BY DEF Lies
<1>5. history[b] \in History /\ \A n \in Names : history[n] \in History
  BY <1>1
<1>6. \A c \in Changes(history[b]) : Lower(c, d)
  <2> SUFFICES ASSUME NEW c \in Changes(history[b]) PROVE Lower(c, d)
    OBVIOUS
  <2>1. Level[c[1]] <= Level[b]
    BY <1>4 DEF LiesAt
  <2>2. c \in Change /\ c[2] <= acts
    BY <1>4, <1>5 DEF LiesAt, Changes, History
  <2>3. c[2] \in Nat /\ Level[c[1]] \in Nat /\ Level[b] \in Nat
    BY <1>1, <2>2, LevelFacts DEF Change
  <2>4. c[2] < acts + 1
    BY <1>1, <2>2, <2>3
  <2> QED
    BY <1>2, <2>1, <2>3, <2>4 DEF Lower
<1>7. /\ Sorted(Append(history[b], d))
      /\ Changes(Append(history[b], d)) = Changes(history[b]) \union {d}
  BY <1>1, <1>2, <1>4, <1>5, <1>6, AppendSorted DEF LiesAt
<1>8. /\ Sorted(history'[b]) /\ Changes(history'[b]) = Changes(history[b]) \union {d}
      /\ \A n \in Names : n # b => history'[n] = history[n]
      /\ \A n \in Names : Changes(history[n]) \subseteq Changes(history'[n])
  BY <1>1, <1>3, <1>7
<1>9. \A n \in Names : \A c \in Changes(history'[n]) :
        c[2] <= acts + 1 /\ Level[c[1]] <= Level[n]
  <2> SUFFICES ASSUME NEW n \in Names, NEW c \in Changes(history'[n])
               PROVE  c[2] <= acts + 1 /\ Level[c[1]] <= Level[n]
    OBVIOUS
  <2>1. c \in Changes(history[n]) \/ (c = d /\ n = b)
    <3>1. CASE n = b
      BY <1>8, <3>1
    <3>2. CASE n # b
      BY <1>8, <3>2
    <3> QED
      BY <3>1, <3>2
  <2>2. c \in Changes(history[n]) => c[2] <= acts /\ c[2] \in Nat /\ Level[c[1]] <= Level[n]
    <3> SUFFICES ASSUME c \in Changes(history[n])
                 PROVE  c[2] <= acts /\ c[2] \in Nat /\ Level[c[1]] <= Level[n]
      OBVIOUS
    <3>1. c \in Change
      BY <1>5 DEF Changes, History
    <3>2. c[2] \in Nat
      BY <3>1 DEF Change
    <3> QED
      BY <1>4, <3>2 DEF LiesAt
  <2>3. Level[b] \in Nat
    BY LevelFacts
  <2> QED
    BY <1>1, <1>2, <2>1, <2>2, <2>3
<1>10. \A n \in Names : n # Main => Line[n] \in Names
  BY <1>1, LevelFacts DEF Names
<1>11. d \in Own(b)
  BY <1>2 DEF Own
<1> SUFFICES ASSUME NEW n \in Names PROVE LiesAt(history', n, acts + 1)
  BY <1>1 DEF Lies
<1>12. Sorted(history'[n]) /\ <<n, 0>> \in Changes(history'[n])
  BY <1>4, <1>8 DEF LiesAt
<1>13. n # Main => Changes(history'[n]) \subseteq Own(n) \union Changes(history'[Line[n]])
  BY <1>4, <1>8, <1>10, <1>11 DEF LiesAt
<1> QED
  BY <1>9, <1>12, <1>13 DEF LiesAt

-----------------------------------------------------------------------------
(* The invariant holds. *)

(* Plans stay, so those made before go along the line if all do. *)
LEMMA LineStays ==
  ASSUME TypeInv, [Next]_vars, InLine'
  PROVE  InLine
<1>1. PlansStay
  <2>1. CASE Next
    BY <2>1, PlansKept
  <2>2. CASE UNCHANGED vars
    BY <2>2 DEF vars, board, PlansStay
  <2> QED
    BY <2>1, <2>2
<1>2. \A j \in Job : Along(plan'[j]) => Along(plan[j]) \/ status[j] = "absent"
  BY <1>1 DEF PlansStay
<1> QED
  BY <1>1, <1>2 DEF InLine, PlansStay

LEMMA StackStays ==
  ASSUME TypeInv, PlansStay, NEW v \in Worker, run[v] # None, run'[v].job = run[v].job
  PROVE  Stack(v)' = Stack(v)
BY RunRecord DEF HasPlan, PlansStay, Stack

(* A step of a run is of the same job. *)
LEMMA SameJob ==
  ASSUME TypeInv, NEW w \in Worker, Step(w), run'[w] # None
  PROVE  run[w] # None /\ run'[w].job = run[w].job
<1> DEFINE r == run[w]
           n == run'[w]
<1>1. run \in [Worker -> Run \union {None}]
  BY DEF TypeInv, TypeOK
<1>2. r # None
  BY <1>1 DEF Step, CheckBase, Visit, Rebase, Ensure, Push, UpdateBase, Complete, Close,
     LoseLease, Fail, In
<1>3. r \in Run
  BY <1>1, <1>2
<1> SUFFICES n.job = r.job
  BY <1>2
<1>4. \A outcome : Ends(w, outcome) => n.job = r.job
  <2> SUFFICES ASSUME NEW outcome, Ends(w, outcome) PROVE n.job = r.job
    OBVIOUS
  <2>1. n = Ended(r, outcome)
    BY <1>1 DEF Ends
  <2> QED
    BY <1>3, <2>1, EndedFields
<1>5. \A m \in Run : Called(w, m) => n.job = m.job
  <2> SUFFICES ASSUME NEW m \in Run, Called(w, m) PROVE n.job = m.job
    OBVIOUS
  <2>1. n = m \/ n = Ended(m, "error")
    BY <1>1 DEF Called
  <2> QED
    BY <2>1, EndedFields
<1>6. CASE CheckBase(w) \/ Visit(w) \/ Ensure(w) \/ Complete(w)
  <2>1. CASE CheckBase(w)
    <3> DEFINE u == Lowest(r.left)
    <3>1. \/ \E outcome : Ends(w, outcome)
          \/ run' = [run EXCEPT ![w].phase = "visiting"]
          \/ run' = [run EXCEPT ![w].left = @ \ {u}, ![w].pending = @ \union {u}]
          \/ run' = [run EXCEPT ![w].left = @ \ {u}]
      BY <2>1 DEF CheckBase
    <3> HIDE DEF u
    <3> QED
      BY <1>1, <1>3, <1>4, <3>1 DEF Run
  <2>2. CASE Visit(w) \/ Ensure(w) \/ Complete(w)
    <3>1. \/ \E outcome : Ends(w, outcome)
          \/ \E phase : run' = [run EXCEPT ![w].phase = phase]
          \/ \E head : run' = [run EXCEPT ![w].phase = "cloned", ![w].head = head]
      BY <2>2 DEF Visit, Ensure, Complete
    <3> QED
      BY <1>1, <1>3, <1>4, <3>1 DEF Run
  <2> QED
    BY <1>6, <2>1, <2>2
<1>7. CASE Rebase(w)
  <2>1. Onward(w, r).job = r.job
    BY <1>3 DEF Onward, Run
  <2>2. \A local : [r EXCEPT !.phase = "rebased", !.local = local].job = r.job
    BY <1>3 DEF Run
  <2> QED
    <3>1. \/ \E outcome : Ends(w, outcome)
          \/ run' = [run EXCEPT ![w] = Onward(w, r)]
          \/ \E local : run' = [run EXCEPT ![w].phase = "rebased", ![w].local = local]
      BY <1>7 DEF Rebase
    <3> QED
      BY <1>1, <1>4, <2>1, <2>2, <3>1
<1>8. CASE Push(w)
  <2>1. Onward(w, r).job = r.job
    BY <1>3 DEF Onward, Run
  <2>2. Called(w, Onward(w, r)) => n = Onward(w, r) \/ n = Ended(Onward(w, r), "error")
    BY <1>1 DEF Called
  <2>3. Ended(Onward(w, r), "error").job = r.job
    BY <1>3 DEF Onward, Ended, Run
  <2> QED
    BY <1>3, <1>4, <1>8, <2>1, <2>2, <2>3, EndedFields DEF Push
<1>9. CASE UpdateBase(w)
  <2> DEFINE m == [r EXCEPT !.phase = "basing", !.pending = @ \ {Lowest(r.pending)}]
  <2>1. m \in Run /\ m.job = r.job
    BY <1>3 DEF Run, Phases
  <2>2. Called(w, m) \/ Ends(w, "error")
    BY <1>9 DEF UpdateBase
  <2> HIDE DEF m
  <2> QED
    BY <1>4, <1>5, <2>1, <2>2
<1>10. CASE Close(w) \/ LoseLease(w) \/ Fail(w)
  BY <1>1, <1>4, <1>10 DEF Close, LoseLease, Fail
<1> QED
  BY <1>2, <1>6, <1>7, <1>8, <1>9, <1>10 DEF Step

(* Where a run leaves GitHub alone, what it is left with lies as before. *)
LEMMA OwnStepLies ==
  ASSUME TypeInv, InLine, LinesOK, NEW w \in Worker, Step(w), UNCHANGED github, run'[w] # None,
         ~Push(w), ~UpdateBase(w)
  PROVE  RunLies(run'[w], Stack(w), history, base, acts)
<1> DEFINE r == run[w]
           n == run'[w]
<1>1. /\ r # None /\ r \in Run /\ run \in [Worker -> Run \union {None}]
      /\ RunLies(r, Stack(w), history, base, acts)
  BY SameJob, RunRecord DEF InLine, LinesOK, TypeInv, TypeOK
<1>2. CASE CheckBase(w) \/ Visit(w) \/ Rebase(w) \/ Ensure(w)
  BY <1>1, <1>2, CheckBaseLies, VisitLies, RebaseLies, EnsureLies
<1>3. CASE Complete(w)
  <2>1. n = Ended(r, "completed") /\ r.phase = "basing" /\ r.pending = {}
    BY <1>1, <1>3 DEF Complete, Ends, In
  <2> QED
    BY <1>1, <2>1, CompletedLies
<1>4. CASE Fail(w)
  <2>1. n = Ended(r, "error")
    BY <1>1, <1>4 DEF Fail, Ends
  <2> QED
    BY <1>1, <2>1, EndedLies
<1>5. CASE Close(w) \/ LoseLease(w)
  BY <1>1, <1>5 DEF Close, LoseLease
<1> QED
  BY <1>2, <1>3, <1>4, <1>5 DEF Step

LEMMA StepLies ==
  ASSUME TypeInv, InLine, LinesOK, NEW w \in Worker, Step(w)
  PROVE  LinesOK'
<1>1. /\ PlansStay /\ UNCHANGED <<plan, acts>> /\ acts \in Nat
      /\ \A v \in Worker \ {w} : run'[v] = run[v]
      /\ \A j \in Job : status'[j] # "absent" => status[j] # "absent"
  <2>1. \/ UNCHANGED status
        \/ run[w] # None /\ \E to : status' = [status EXCEPT ![run[w].job] = to]
    BY DEF Step, CheckBase, Visit, Rebase, Ensure, Push, UpdateBase, Complete, Close,
       LoseLease, Fail, Elsewhere, board, Goes, In
  <2>2. \A j \in Job : status'[j] # "absent" => status[j] # "absent"
    BY <2>1, RunRecord DEF TypeInv, TypeOK, HasPlan
  <2>3. acts \in Nat
    BY StackAssumption DEF InLine, TypeInv, TypeOK
  <2> QED
    BY <2>2, <2>3, StepMoves DEF StepOK, RunMoves
<1>2. \A v \in Worker : run[v] # None =>
        /\ Follows(run[v], Stack(v)) /\ run[v] \in Run
        /\ RunLies(run[v], Stack(v), history, base, acts)
  BY RunFollows, RunRecord DEF LinesOK
<1>3. SUFFICES /\ Lies(history', acts)
               /\ \A p \in PR : base'[p] \in {base[p], Line[p]}
               /\ \A v \in Worker :
                    run[v] # None => RunLies(run[v], Stack(v), history', base', acts)
               /\ run'[w] # None => RunLies(run'[w], Stack(w), history', base', acts)
  <2>3. ASSUME NEW v \in Worker, run'[v] # None
        PROVE  RunLies(run'[v], Stack(v), history', base', acts) /\ Stack(v)' = Stack(v)
    <3>1. run[v] # None /\ run'[v].job = run[v].job
      BY <1>1, <2>3, SameJob
    <3>2. Stack(v)' = Stack(v)
      BY <1>1, <3>1, StackStays
    <3> QED
      BY <1>1, <1>3, <2>3, <3>1, <3>2
  <2>4. /\ Lies(history, acts)'
        /\ \A v \in Worker :
             (run[v] # None => RunLies(run[v], Stack(v), history, base, acts))'
    BY <1>1, <1>3, <2>3
  <2> QED
    BY <2>4 DEF LinesOK
<1>4. Lies(history, acts)
  BY DEF LinesOK
<1>5. CASE UNCHANGED github /\ ~Push(w) /\ ~UpdateBase(w)
  <2>1. history' = history /\ base' = base
    BY <1>5 DEF github
  <2> QED
    BY <1>2, <1>4, <1>5, <2>1, OwnStepLies
<1>6. CASE Push(w)
  <2>1. base' = base /\ run \in [Worker -> Run \union {None}]
    BY <1>6 DEF Push, TypeInv, TypeOK
  <2>2. CASE Accepts(Current(w), run[w].head, run[w].local)
    BY <1>6, <2>1, <2>2, PushLies
  <2>3. CASE ~Accepts(Current(w), run[w].head, run[w].local)
    <3>1. Ends(w, "error") /\ history' = history /\ run[w] # None
      BY <1>6, <2>3 DEF Push, In
    <3>2. run'[w] = Ended(run[w], "error")
      BY <2>1, <3>1 DEF Ends
    <3>3. RunLies(run'[w], Stack(w), history, base, acts)
      BY <1>2, <3>1, <3>2, EndedLies
    <3> QED
      BY <1>2, <1>4, <2>1, <3>1, <3>3
  <2> QED
    BY <2>2, <2>3
<1>7. CASE UpdateBase(w)
  <2>1. history' = history /\ run[w] # None
    BY <1>7 DEF UpdateBase, In
  <2>2. \A p \in PR : base'[p] \in {base[p], Line[p]}
    <3>1. CASE UNCHANGED base
      BY <3>1
    <3>2. CASE ~UNCHANGED base
      <4>1. PICK u \in Stack(w).updates : base' = [base EXCEPT ![u.number] = u.to]
        BY <1>7, <3>2, UpdateBaseMoves
      <4>2. u.number \in PR /\ u.to = Line[u.number]
        BY <1>1, <1>2, <2>1, PlanPlaces
      <4> QED
        BY <4>1, <4>2 DEF TypeInv, TypeOK
    <3> QED
      BY <3>1, <3>2
  <2>3. ASSUME NEW v \in Worker, run[v] # None
        PROVE  RunLies(run[v], Stack(v), history, base', acts)
    BY <1>1, <1>2, <2>2, <2>3, BaseKeeps
  <2>4. RunLies(run'[w], Stack(w), history, base', acts)
    BY <1>1, <1>7, <2>1, <2>3, UpdateBaseLies
  <2> QED
    BY <1>4, <2>1, <2>2, <2>3, <2>4
<1>8. UNCHANGED github \/ Push(w) \/ UpdateBase(w)
  BY DEF Step, CheckBase, Visit, Rebase, Ensure, Complete, Close, LoseLease, Fail, Quiet
<1> QED
  BY <1>5, <1>6, <1>7, <1>8

(* People may do anything: no run is undisturbed then. *)
LEMMA PeopleLie ==
  ASSUME TypeInv, InLine, LinesOK, People
  PROVE  LinesOK'
<1>1. /\ acts \in Nat /\ acts' = acts + 1
      /\ history \in [Names -> History] /\ base \in [PR -> Names]
      /\ UNCHANGED <<status, plan, run>>
  BY StackAssumption, PeopleMove DEF InLine, TypeInv, TypeOK, board
<1>2. \A b \in Names : Changes(history[b]) \subseteq Changes(history'[b])
  BY HistoriesGrow DEF Next
<1>3. Lies(history', acts')
  <2>1. CASE \E b \in Names : Commit(b)
    BY <2>1, CommitLies DEF LinesOK
  <2>2. CASE UNCHANGED history
    <3>1. \A b \in Names : \A c \in Changes(history[b]) : c[2] \in Nat
      BY <1>1 DEF Changes, History, Change
    <3>2. \A n \in Nat : n <= acts => n <= acts'
      BY <1>1
    <3>3. \A b \in Names : LiesAt(history, b, acts)
      BY DEF LinesOK, Lies
    <3> SUFFICES ASSUME NEW b \in Names PROVE LiesAt(history, b, acts')
      BY <2>2 DEF Lies
    <3> QED
      BY <3>1, <3>2, <3>3 DEF LiesAt
  <2> QED
    BY <2>1, <2>2 DEF People, Retarget, CloseOrReopen
<1>6. ASSUME NEW v \in Worker, run[v] # None
      PROVE  RunLies(run[v], Stack(v), history', base', acts')
  <2>1. Follows(run[v], Stack(v)) /\ RunLies(run[v], Stack(v), history, base, acts)
    BY <1>6, RunFollows DEF LinesOK
  <2> QED
    BY <1>1, <1>2, <2>1, ActKeeps
<1>7. \A v \in Worker : Stack(v)' = Stack(v)
  BY <1>1 DEF Stack
<1> QED
  BY <1>1, <1>3, <1>6, <1>7 DEF LinesOK

LEMMA QueueLies ==
  ASSUME TypeInv, InLine, LinesOK, Queue
  PROVE  LinesOK'
<1>1. acts \in Nat /\ run \in [Worker -> Run \union {None}]
  BY StackAssumption DEF InLine, TypeInv, TypeOK
<1>2. PlansStay /\ UNCHANGED <<history, base, acts>>
  BY PlansKept, EnqueueMoves, BoardMoves, LeaseMoves
     DEF Next, Queue, StepOK, LeaseNext, Quiet, github
<1>4. ASSUME NEW v \in Worker, run[v] # None, run'[v] = run[v]
      PROVE  (run[v] # None => RunLies(run[v], Stack(v), history, base, acts))'
  <2>1. Stack(v)' = Stack(v)
    BY <1>2, <1>4, StackStays
  <2> QED
    BY <1>2, <1>4, <2>1 DEF LinesOK
<1>5. ASSUME NEW v \in Worker
      PROVE  (run[v] # None => RunLies(run[v], Stack(v), history, base, acts))'
  <2>1. CASE UNCHANGED run
    BY <1>4, <2>1
  <2>2. CASE \E w \in Worker, j \in Job : LeaseNext(w, j)
    <3>1. PICK w \in Worker, j \in Job : LeaseNext(w, j)
      BY <2>2
    <3>2. CASE v # w
      <4>1. run'[v] = run[v]
        BY <1>1, <3>1, <3>2 DEF LeaseNext
      <4> QED
        BY <1>4, <4>1
    <3>3. CASE v = w
      <4>1. /\ run'[v].phase = "checking" /\ run'[v].since = acts /\ run'[v].at = 1
            /\ run'[v].job = j /\ run'[v].left = plan[j].updates
        BY <1>1, <3>1, <3>3 DEF LeaseNext
      <4>2. status[j] # "absent" /\ plan'[j] = plan[j] /\ IsPlan(plan[j])
        BY <3>1 DEF LeaseNext, TypeInv, PlansOK
      <4>3. Stack(v)' = plan[j]
        BY <4>1, <4>2 DEF Stack
      <4>4. DOMAIN plan[j].order \subseteq Nat \ {0}
        BY <4>2 DEF IsPlan, IsLine
      <4>5. RunLies(run'[v], plan[j], history, base, acts)
        BY <1>1, <4>1, <4>4, FreshLies
      <4> QED
        BY <1>2, <4>3, <4>5
    <3> QED
      BY <3>2, <3>3
  <2>3. UNCHANGED run \/ \E w \in Worker, j \in Job : LeaseNext(w, j)
    BY DEF Queue, Enqueue, Expire, Cancel
  <2> QED
    BY <2>1, <2>2, <2>3
<1>6. Lies(history, acts)'
  BY <1>2 DEF LinesOK
<1> QED
  BY <1>5, <1>6 DEF LinesOK

LEMMA LineStep ==
  ASSUME TypeInv, LineInv, [Next]_vars
  PROVE  LineInv'
<1> SUFFICES ASSUME InLine' PROVE LinesOK'
  BY DEF LineInv
<1>1. InLine /\ LinesOK
  BY LineStays DEF LineInv
<1>2. CASE UNCHANGED vars
  <2>1. UNCHANGED <<history, base, status, plan, run, acts>>
    BY <1>2 DEF vars, github, board
  <2>2. \A v \in Worker : Stack(v)' = Stack(v)
    BY <2>1 DEF Stack
  <2> QED
    BY <1>1, <2>1, <2>2 DEF LinesOK
<1> QED
  BY <1>1, <1>2, PeopleLie, QueueLies, StepLies DEF Next

-----------------------------------------------------------------------------
(* The branches lie on each other from the beginning. *)

LEMMA BottomLies ==
  /\ Bottom \in History /\ Changes(Bottom) = {<<Main, 0>>} /\ Sorted(Bottom)
  /\ <<Main, 0>> \in Change
<1>1. <<Main, 0>> \in Change
  BY StackAssumption DEF Change, Names
<1>2. Bottom \in Seq(Change) /\ Len(Bottom) = 1 /\ DOMAIN Bottom = {1} /\ Bottom[1] = <<Main, 0>>
  BY <1>1 DEF Bottom
<1>3. Changes(Bottom) = {<<Main, 0>>}
  <2>1. Changes(Bottom) = {Bottom[i] : i \in {1}}
    BY <1>2, Zenon DEF Changes
  <2> QED
    BY <1>2, <2>1
<1>4. Sorted(Bottom)
  BY <1>2 DEF Sorted
<1> QED
  BY <1>1, <1>2, <1>3, <1>4 DEF History

LEMMA ApartLies ==
  Lies(Apart, 0)
<1> SUFFICES ASSUME NEW b \in Names PROVE LiesAt(Apart, b, 0)
  BY DEF Lies
<1>1. CASE b = Main
  <2>1. Apart[b] = Bottom
    BY <1>1 DEF Apart
  <2>2. \A c \in Changes(Bottom) : c[2] <= 0 /\ Level[c[1]] <= Level[b]
    <3>1. Level[b] \in Nat
      BY LevelFacts
    <3> QED
      BY <1>1, <3>1, BottomLies
  <2> QED
    BY <1>1, <2>1, <2>2, BottomLies DEF LiesAt
<1>2. CASE b # Main
  <2> DEFINE d == <<b, 0>>
             below == Apart[Line[b]]
  <2>1. Apart[b] = Append(Bottom, d)
    BY <1>2 DEF Apart
  <2>2. d \in Change /\ d[1] = b /\ d[2] = 0 /\ Line[b] \in Names /\ Main \in Names
    <3>1. b \in PR
      BY <1>2 DEF Names
    <3>2. Line[b] \in Names
      BY <3>1, LevelFacts
    <3>3. 0 \in 0..MaxActs
      BY StackAssumption
    <3> QED
      BY <3>2, <3>3 DEF Change, Names
  <2>3. Level[b] \in Nat /\ Level[b] # 0 /\ Level[Main] = 0
    BY <1>2, <2>2, LevelFacts
  <2>4. Lower(<<Main, 0>>, d)
    BY <2>2, <2>3 DEF Lower
  <2> HIDE DEF d
  <2>5. Sorted(Apart[b]) /\ Changes(Apart[b]) = {<<Main, 0>>, d}
    BY <2>1, <2>2, <2>4, BottomLies, AppendSorted
  <2>6. <<Main, 0>> \in Changes(below)
    <3>1. CASE Line[b] = Main
      BY <2>2, <3>1, BottomLies DEF Apart
    <3>2. CASE Line[b] # Main
      <4> DEFINE e == <<Line[b], 0>>
      <4>1. below = Append(Bottom, e) /\ e \in Change
        BY <2>2, <3>2, StackAssumption DEF Apart, Change
      <4> HIDE DEF e
      <4> QED
        BY <4>1, BottomLies, BeforeAppend
    <3> QED
      BY <3>1, <3>2
  <2>7. d \in Own(b)
    BY <2>2 DEF Own
  <2>8. \A c \in Changes(Apart[b]) : c[2] <= 0 /\ Level[c[1]] <= Level[b]
    BY <2>2, <2>3, <2>5
  <2> QED
    BY <1>2, <2>2, <2>5, <2>6, <2>7, <2>8 DEF LiesAt, d
<1> QED
  BY <1>1, <1>2

(* A branch of a stack is the one below it, and a change of its own. *)
LEMMA StackedIsOnBelow ==
  /\ Stacked \in [Names -> History] /\ Stacked[Main] = Bottom
         /\ \A p \in PR : Stacked[p] = Append(Stacked[Line[p]], <<p, 0>>)
<1> DEFINE n == Cardinality(PR)
<1>1. PICK up \in [0..n -> [Names -> History]] :
        /\ Stacked = up[n] /\ up[0] = [b \in Names |-> Bottom]
        /\ \A k \in 1..n : up[k] = Lift(up[k - 1])
  BY StackedRises
<1>2. n \in Nat /\ Main \in Names /\ \A p \in PR : p \in Names /\ Line[p] \in Names /\ p # Main
  BY StackAssumption, FS_CardinalityType, LevelFacts DEF Names
<1> HIDE DEF n
<1>3. \A k \in 0..n : up[k][Main] = Bottom
  <2> SUFFICES ASSUME NEW k \in 0..n PROVE up[k][Main] = Bottom
    OBVIOUS
  <2>1. \A h : Lift(h)[Main] = Bottom
    BY <1>2 DEF Lift
  <2>2. k = 0 \/ k \in 1..n
    BY <1>2
  <2> QED
    BY <1>1, <1>2, <2>1, <2>2
<1>4. \A k \in 1..n : \A p \in PR : up[k][p] = Append(up[k - 1][Line[p]], <<p, 0>>)
  <2>1. \A h : \A p \in PR : Lift(h)[p] = Append(h[Line[p]], <<p, 0>>)
    BY <1>2 DEF Lift
  <2>2. \A k \in 1..n : up[k] = Lift(up[k - 1])
    BY <1>1
  <2> QED
    BY <2>1, <2>2, Zenon
(* What is low enough does not change any more. *)
<1>5. \A k \in 1..n : \A b \in Names : Level[b] < k => up[k][b] = up[k - 1][b]
  <2> DEFINE T == {k \in 1..n : \E b \in Names : Level[b] < k /\ up[k][b] # up[k - 1][b]}
  <2>1. SUFFICES ASSUME T # {} PROVE FALSE
    OBVIOUS
  <2>2. T \in SUBSET Nat
    BY <1>2
  <2> HIDE DEF T
  <2>3. PICK k \in T : \A m \in T : k <= m
    BY <2>1, <2>2, NatSetMin
  <2>4. PICK b \in Names : k \in 1..n /\ Level[b] < k /\ up[k][b] # up[k - 1][b]
    BY <2>3 DEF T
  <2>5. b # Main
    BY <1>2, <1>3, <2>4
  <2>6. b \in PR /\ Level[b] = Level[Line[b]] + 1 /\ Level[Line[b]] \in Nat
    BY <1>2, <2>5, LevelFacts DEF Names
  <2>7. k - 1 \in 1..n /\ Level[Line[b]] < k - 1 /\ ~(k <= k - 1)
    BY <1>2, <2>4, <2>6
  <2>8. up[k - 1][Line[b]] = up[k - 2][Line[b]]
    BY <1>2, <2>3, <2>6, <2>7 DEF T
  <2>9. k - 1 - 1 = k - 2
    BY <2>4
  <2> QED
    BY <1>4, <2>4, <2>6, <2>7, <2>8, <2>9
<1>6. \A p \in PR : Stacked[p] = Append(Stacked[Line[p]], <<p, 0>>)
  <2> SUFFICES ASSUME NEW p \in PR PROVE up[n][p] = Append(up[n][Line[p]], <<p, 0>>)
    BY <1>1
  <2>1. /\ Level[p] \in Nat /\ Level[p] <= n /\ Level[p] = Level[Line[p]] + 1
        /\ Level[Line[p]] \in Nat
    BY <1>2, LevelFacts DEF n
  <2>2. n \in 1..n /\ Level[Line[p]] < n
    BY <1>2, <2>1
  <2> QED
    BY <1>2, <1>4, <1>5, <2>2
<1>7. 0 \in 0..n /\ n \in 0..n
  BY <1>2
<1> QED
  BY <1>1, <1>3, <1>6, <1>7

LEMMA StackedLies ==
  Lies(Stacked, 0)
<1> DEFINE Well(b) == /\ Sorted(Stacked[b]) /\ \A c \in Changes(Stacked[b]) :
                           c[2] = 0 /\ Level[c[1]] <= Level[b]
           T == {k \in Nat : \E b \in Names : Level[b] = k /\ ~Well(b)}
<1>1. /\ Stacked \in [Names -> History] /\ Stacked[Main] = Bottom
      /\ \A p \in PR : Stacked[p] = Append(Stacked[Line[p]], <<p, 0>>)
  BY StackedIsOnBelow
<1>2. /\ Main \in Names /\ Level[Main] = 0 /\ \A b \in Names : Level[b] \in Nat
      /\ \A p \in PR : /\ p \in Names /\ Line[p] \in Names /\ <<p, 0>> \in Change
                       /\ Level[p] = Level[Line[p]] + 1
      /\ \A b \in Names : b = Main \/ b \in PR
  BY StackAssumption, LevelFacts DEF Names, Change
<1>3. Well(Main)
  BY <1>1, <1>2, BottomLies
<1>4. ASSUME NEW p \in PR, Well(Line[p])
      PROVE  /\ Well(p)
             /\ Changes(Stacked[p]) = Changes(Stacked[Line[p]]) \union {<<p, 0>>}
  <2> DEFINE h == Stacked[Line[p]]
             d == <<p, 0>>
  <2>1. /\ h \in History /\ Sorted(h)
        /\ \A c \in Changes(h) : c[2] = 0 /\ Level[c[1]] <= Level[Line[p]]
    BY <1>1, <1>2, <1>4
  <2>2. \A c \in Changes(h) : Level[c[1]] \in Nat
    BY <1>2, <2>1 DEF Changes, History, Change
  <2>3. d \in Change /\ d[1] = p /\ d[2] = 0
    BY <1>2
  <2>4. Level[Line[p]] \in Nat /\ Level[p] = Level[Line[p]] + 1
    BY <1>2
  <2>5. Stacked[p] = Append(h, d)
    BY <1>1
  <2> HIDE DEF h, d
  <2>6. \A c \in Changes(h) : Lower(c, d)
    BY <2>1, <2>2, <2>3, <2>4 DEF Lower
  <2>7. Sorted(Stacked[p]) /\ Changes(Stacked[p]) = Changes(h) \union {d}
    BY <2>1, <2>3, <2>5, <2>6, AppendSorted
  <2>8. \A c \in Changes(Stacked[p]) : c[2] = 0 /\ Level[c[1]] <= Level[p]
    BY <2>1, <2>2, <2>3, <2>4, <2>7
  <2> QED
    BY <2>7, <2>8 DEF h, d
<1> HIDE DEF Well
<1>5. \A b \in Names : Well(b)
  <2>1. SUFFICES ASSUME T # {} PROVE FALSE
    BY <1>2
  <2>2. T \in SUBSET Nat
    OBVIOUS
  <2> HIDE DEF T
  <2>3. PICK k \in T : \A m \in T : k <= m
    BY <2>1, <2>2, NatSetMin
  <2>4. PICK b \in Names : Level[b] = k /\ ~Well(b)
    BY <2>3 DEF T
  <2>5. b \in PR
    BY <1>2, <1>3, <2>4
  <2>6. Line[b] \in Names /\ Level[Line[b]] \in Nat /\ ~(k <= Level[Line[b]])
    <3>1. Line[b] \in Names /\ Level[b] = Level[Line[b]] + 1
      BY <1>2, <2>5
    <3>2. Level[Line[b]] \in Nat
      BY <1>2, <3>1
    <3> QED
      BY <2>4, <3>1, <3>2
  <2>7. Well(Line[b])
    BY <2>3, <2>6 DEF T
  <2> QED
    BY <1>4, <2>4, <2>5, <2>7
<1> SUFFICES ASSUME NEW b \in Names PROVE LiesAt(Stacked, b, 0)
  BY DEF Lies
<1>6. /\ Sorted(Stacked[b])
      /\ \A c \in Changes(Stacked[b]) : c[2] <= 0 /\ Level[c[1]] <= Level[b]
  BY <1>5 DEF Well
<1>7. CASE b = Main
  BY <1>1, <1>6, <1>7, BottomLies DEF LiesAt
<1>8. CASE b \in PR /\ b # Main
  <2>1. Changes(Stacked[b]) = Changes(Stacked[Line[b]]) \union {<<b, 0>>}
    BY <1>2, <1>4, <1>5, <1>8
  <2>2. <<b, 0>> \in Own(b)
    BY <1>2, <1>8 DEF Own
  <2> QED
    BY <1>6, <2>1, <2>2 DEF LiesAt
<1> QED
  BY <1>2, <1>7, <1>8

LEMMA InitLines ==
  ASSUME Init
  PROVE  LineInv
<1> SUFFICES LinesOK
  BY DEF LineInv
<1>1. Lies(history, 0)
  BY ApartLies, StackedLies DEF Init
<1> QED
  BY <1>1 DEF Init, LinesOK

-----------------------------------------------------------------------------
(* The results. *)

(* What a run that nobody disturbed has passed altogether lies branch on branch. *)
LEMMA PassedIsLinear ==
  ASSUME TypeInv, InLine, LinesOK, NEW w \in Worker, run[w] # None, run[w].since = acts,
         \A k : Passed(run[w], k)
  PROVE  Linear(w)
<1> DEFINE s == Stack(w)
<1>1. /\ Lies(history, acts)
      /\ history \in [Names -> History]
  BY DEF LinesOK, TypeInv, TypeOK
<1>2. /\ Follows(run[w], s)
      /\ \A k \in DOMAIN s.order : Holds(history, s.order[k])
  BY RunFollows DEF LinesOK, RunLies, Lying
<1>3. ASSUME NEW i \in 2..Len(s.order)
      PROVE  Before(history[s.order[i - 1]], history[s.order[i]])
  <2>1. i \in DOMAIN s.order /\ i # 1
    BY <1>1, <1>2, PlanPlaces
  <2>2. s.order[i] \in PR /\ s.order[i - 1] = Line[s.order[i]]
    BY <1>1, <1>2, <2>1, PlanPlaces
  <2> QED
    BY <1>1, <1>2, <2>1, <2>2, HoldsIsBefore
<1> QED
  BY <1>3 DEF Linear

(* As long as all plans made so far agree on which pull request lies on which, and unless
   people interfered since the run began, a run that reports a completed stack leaves the
   branches and the bases on GitHub as the plan wants them. Whatever runs that lost
   their lease do meanwhile, none of them rewrites a branch that stack_rebase has done
   with: rebase_onto pushes only what brings something new from the branch below, and
   that branch has nothing new. *)
THEOREM CompletedStacksAreLinear == Spec => []CompletedStackIsLinear
<1>1. ASSUME TypeInv, LineInv
      PROVE  CompletedStackIsLinear
  <2> SUFFICES ASSUME NEW w \in Worker, InLine, In(w, "closing"),
                      run[w].outcome = "completed", run[w].since = acts
               PROVE  /\ Linear(w)
                      /\ \A i \in 2..Len(Stack(w).order) :
                           base[Stack(w).order[i]] = Stack(w).order[i - 1]
    BY DEF CompletedStackIsLinear
  <2> DEFINE r == run[w]
             s == Stack(w)
  <2>1. /\ LinesOK /\ r # None /\ r.phase = "closing" /\ Follows(r, s)
        /\ Based(r, s, base, acts)
    BY <1>1, RunFollows DEF In, InLine, LineInv, LinesOK, RunLies
  <2>2. \A k : Passed(r, k) /\ Visited(r, k)
    BY <2>1 DEF Passed, Visited
  <2>3. Linear(w)
    BY <1>1, <2>1, <2>2, PassedIsLinear
  <2>4. ASSUME NEW i \in 2..Len(s.order)
        PROVE  base[s.order[i]] = s.order[i - 1]
    <3>0. i \in DOMAIN s.order /\ i # 1
      BY <2>1, PlanPlaces
    <3>1. s.order[i - 1] = Line[s.order[i]]
      BY <2>1, <3>0, PlanPlaces
    <3>2. \A u \in s.updates : base[u.number] = u.to
      BY <2>1 DEF Based
    <3>3. \A u \in s.updates : u.to = Line[u.number]
      BY <2>1, PlanPlaces
    <3> QED
      BY <2>1, <2>2, <3>0, <3>1, <3>2, <3>3 DEF Based
  <2> QED
    BY <2>3, <2>4
<1> QED
  BY <1>1, InitLines, LineStep, Typed, PTL DEF Spec

(* As long as all plans made so far agree on which pull request lies on which, an undisturbed
   run changes no base before the branches lie on each other: stack_rebase rebases all of
   them before it changes the first base, and no push of a run that lost its lease takes
   that back. *)
THEOREM BasesAlwaysFollowBranches == Spec => BasesFollowBranches
<1>1. ASSUME TypeInv, LineInv, NEW w \in Worker, InLine, In(w, "updating"), run[w].since = acts
      PROVE  Linear(w)
  <2>1. LinesOK /\ run[w] # None /\ \A k : Passed(run[w], k)
    BY <1>1 DEF LineInv, In, Passed
  <2> QED
    BY <1>1, <2>1, PassedIsLinear
<1>2. TypeInv /\ LineInv =>
        \A w \in Worker :
          InLine /\ In(w, "updating") /\ base' # base /\ run'[w] # run[w] /\ run[w].since = acts
            => Linear(w)
  BY <1>1
<1> QED
  BY <1>2, InitLines, LineStep, Typed, PTL DEF Spec, BasesFollowBranches

=============================================================================
