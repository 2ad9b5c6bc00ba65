--------------------------- MODULE DecisionsProofs ---------------------------
(***************************************************************************)
(* Theorems about Decisions: what it means that a pull request is ready,   *)
(* what a CI repair commits, what a patch or a suggestion makes of a file, *)
(* and which stacks open pull requests form, for every read of GitHub,     *)
(* every tree, every list of patches and every file.                       *)
(***************************************************************************)
EXTENDS Decisions, StackPlannerProofs

-----------------------------------------------------------------------------
(* Readiness. *)

(* The entry that counts is the last one: of finitely many, one has the highest id. *)
LEMMA NewestIsLast ==
  ASSUME NEW items, IsFiniteSet(items), items # {}, \A x \in items : x.id \in Nat
  PROVE  Newest(items) \in items /\ \A y \in items : y.id <= Newest(items).id
<1> DEFINE n == Cardinality(items)
           Less == OpToRel(<, Nat)
<1>1. n \in Nat /\ n > 0
  BY FS_CardinalityType, FS_EmptySet
<1>2. PICK f \in Bijection(1..n, items) : TRUE
  BY FS_CardinalityType DEF ExistsBijection
<1> HIDE DEF n
<1>3. (\A i \in 1..n : f[i] \in items) /\ (\A x \in items : \E i \in 1..n : f[i] = x)
  BY <1>2 DEF Bijection, Injection, Surjection
<1> DEFINE B == {k \in 1..n : \E i \in k..n : \A h \in k..n : f[h].id <= f[i].id}
<1>4. B \subseteq Nat /\ n \in B
  BY <1>1, <1>3
<1>5. IsWellFoundedOn(Less, Nat)
  BY NatLessThanWellFounded
<1>6. \A a, b \in Nat : <<a, b>> \in Less <=> a < b
  BY DEF OpToRel
<1> HIDE DEF Less
<1>7. PICK k \in B : \A m \in B : <<m, k>> \notin Less
  <2> HIDE DEF B
  <2> QED
    BY <1>4, <1>5, WFMin
<1>8. k \in 1..n
  OBVIOUS
<1>9. k = 1
  <2> SUFFICES ASSUME k # 1 PROVE FALSE
    OBVIOUS
  <2>1. PICK i \in k..n : \A h \in k..n : f[h].id <= f[i].id
    OBVIOUS
  <2>2. k - 1 \in 1..n /\ i \in (k - 1)..n
    BY <1>1, <1>8
  <2>3. f[k - 1].id \in Nat /\ f[i].id \in Nat /\ \A h \in k..n : f[h].id \in Nat
    BY <1>1, <1>3, <1>8, <2>2
  <2>4. PICK m \in {i, k - 1} : f[i].id <= f[m].id /\ f[k - 1].id <= f[m].id
    BY <2>3
  <2>5. \A h \in (k - 1)..n : h = k - 1 \/ h \in k..n
    BY <1>1, <1>8
  <2>6. \A h \in (k - 1)..n : f[h].id <= f[m].id
    BY <2>1, <2>3, <2>4, <2>5
  <2>7. m \in (k - 1)..n
    BY <1>1, <1>8, <2>2, <2>4
  <2>8. k - 1 \in B
    BY <2>2, <2>6, <2>7
  <2> HIDE DEF B
  <2>9. k - 1 \in Nat /\ k \in Nat /\ k - 1 < k
    BY <1>1, <1>8, <2>2
  <2>10. <<k - 1, k>> \in Less
    BY <1>6, <2>9
  <2> QED
    BY <1>7, <2>8, <2>10
<1>10. \E x \in items : \A y \in items : y.id <= x.id
  BY <1>3, <1>7, <1>9
<1> QED
  BY <1>10 DEF Newest

LEMMA NamedIsListed ==
  ASSUME NEW items, Listed(items), NEW name, Named(items, name) # {}
  PROVE  /\ Newest(Named(items, name)) \in Named(items, name)
         /\ \A o \in Named(items, name) : o.id <= Newest(Named(items, name)).id
<1>1. Named(items, name) \in SUBSET items
  BY DEF Named
<1>2. IsFiniteSet(Named(items, name)) /\ \A x \in Named(items, name) : x.id \in Nat
  BY <1>1, FS_Subset DEF Listed
<1> HIDE DEF Named
<1> QED
  BY <1>2, NewestIsLast

(* A required check that is no reason against a pull request has passed. *)
LEMMA GoodHasPassed ==
  ASSUME NEW d, IsReadSet(d), NEW name, CheckVerdict(d, name) = "good"
  PROVE  Passed(d, name)
<1> DEFINE records == CheckRecords(d)
           check == IF name \in DOMAIN records THEN records[name]
                    ELSE [app |-> NoApp, status |-> "unknown", conclusion |-> "none"]
           wanted == RequiredApp(d, name)
           runs == Named(d.runs, name)
           statuses == Named(d.statuses, name)
<1>1. /\ wanted \in {NoApp, check.app} /\ check.status = "completed"
      /\ check.conclusion \in {"success", "skipped"}
  BY DEF CheckVerdict
<1>2. name \in DOMAIN records
  BY <1>1
<1>3. name \in {x.name : x \in d.statuses} \union {x.name : x \in d.runs}
  BY <1>2 DEF CheckRecords
<1>4. check = IF runs # {} THEN OfRun(Newest(runs)) ELSE OfStatus(Newest(statuses))
  BY <1>2, <1>3 DEF CheckRecords
<1>5. runs # {} \/ statuses # {}
  BY <1>3 DEF Named
<1> HIDE DEF records, check, wanted
<1>6. CASE runs # {}
  <2> DEFINE r == Newest(runs)
  <2>1. r \in runs /\ \A o \in runs : o.id <= r.id
    BY <1>6, NamedIsListed DEF IsReadSet
  <2>2. check.app = r.app /\ check.status = r.status /\ check.conclusion = r.conclusion
    BY <1>4, <1>6 DEF OfRun
  <2> HIDE DEF r
  <2> QED
    BY <1>1, <2>1, <2>2 DEF Passed, wanted
<1>7. CASE runs = {}
  <2> DEFINE s == Newest(statuses)
  <2>1. s \in statuses /\ \A o \in statuses : o.id <= s.id
    BY <1>5, <1>7, NamedIsListed DEF IsReadSet
  <2>2. check = OfStatus(s)
    BY <1>4, <1>7
  <2> HIDE DEF s
  <2>3. check.app = NoApp /\ s.state = "success"
    BY <1>1, <2>2 DEF OfStatus
  <2> QED
    BY <1>1, <1>7, <2>1, <2>3 DEF Passed, wanted
<1> QED
  BY <1>6, <1>7

(* Every approval that is counted is the last word of another user. *)
LEMMA ApprovalsAreApproving ==
  ASSUME NEW d, IsReadSet(d)
  PROVE  /\ IsFiniteSet(Approvals(d)) /\ IsFiniteSet(Approving(d))
         /\ Cardinality(Approvals(d)) <= Cardinality(Approving(d))
<1> DEFINE S == d.reviews
           users == {r.user : r \in S}
           f == [r \in S |-> r.user]
           g == [r \in Approvals(d) |-> r.user]
<1>1. /\ IsFiniteSet(S) /\ \A r, s \in S : r.id = s.id => r = s
      /\ \A r \in S : r.id \in Nat /\ r.at \in Nat
      /\ \A r \in S : r.commit \in {"none", "head", "old"}
      /\ \A r \in S : r.state \in Decisive \union {"COMMENTED"}
  BY DEF IsReadSet, Listed
<1>2. IsFiniteSet(Approving(d))
  <2>1. f \in Surjection(S, users)
    BY DEF Surjection
  <2>2. IsFiniteSet(users)
    BY <1>1, <2>1, FS_Surjection
  <2> QED
    BY <2>2, FS_Subset DEF Approving
<1>3. \A r \in Approvals(d) :
        /\ r \in S /\ r.state = "APPROVED" /\ r.commit # "old" /\ r.state \in Decisive
        /\ \A s \in S : s.state \in Decisive /\ s.user = r.user => ~After(s, r)
  BY DEF Approvals, LatestDecisions
<1>4. \A r \in Approvals(d) : r.user \in Approving(d)
  BY <1>1, <1>3 DEF Approving, Approves
<1>5. \A r, s \in Approvals(d) : r.user = s.user => r = s
  <2> SUFFICES ASSUME NEW r \in Approvals(d), NEW s \in Approvals(d), r.user = s.user
               PROVE  r = s
    OBVIOUS
  <2>1. ~After(r, s) /\ ~After(s, r) /\ r \in S /\ s \in S
    BY <1>3
  <2>2. r.id = s.id
    BY <1>1, <2>1 DEF After
  <2> QED
    BY <1>1, <2>1, <2>2
<1>6. g \in Injection(Approvals(d), Approving(d))
  BY <1>4, <1>5 DEF Injection, IsInjective
<1> QED
  BY <1>2, <1>6, FS_Injection

LEMMA ReadyIsReported ==
  ASSUME NEW d, NEW p, NEW eligible, IsReadSet(d), Reasons(d, p, eligible) = {}
  PROVE  NothingSpeaksAgainst(d, p, eligible)
<1> DEFINE blockers == Blockers(d, p, eligible)
           approvals == Cardinality(Approvals(d))
<1>1. \A reason \in DOMAIN blockers : ~blockers[reason]
  BY DEF Reasons
<1>2. /\ ~d.draft /\ d.mergeable # "no" /\ d.mergeable # "unknown"
      /\ ~(p.current /\ ~d.current)
  BY <1>1 DEF Blockers
<1>3. \A v \in {CheckVerdict(d, name) : name \in RequiredNames(d, p)} :
        v # "wrong app" /\ v # "failed" /\ v # "pending"
  BY <1>1 DEF Blockers
<1>4. /\ ~(approvals = 0 /\ (p.approval \/ d.protection.approvals > 0))
      /\ approvals \notin 1..(d.protection.approvals - 1)
  BY <1>1 DEF Blockers
<1>5. ~(d.protection.lastPush /\ approvals = 0)
  BY <1>1 DEF Blockers
<1>6. OpenAutomation(d, p, eligible) = {}
  BY <1>1 DEF Blockers
<1> HIDE DEF blockers, approvals
<1>7. \A name \in RequiredNames(d, p) : Passed(d, name)
  <2> SUFFICES ASSUME NEW name \in RequiredNames(d, p) PROVE Passed(d, name)
    OBVIOUS
  <2>1. CheckVerdict(d, name) \in {"wrong app", "pending", "good", "failed"}
    BY DEF CheckVerdict
  <2> QED
    BY <1>3, <2>1, GoodHasPassed
<1>8. /\ approvals \in Nat /\ Cardinality(Approving(d)) \in Nat
      /\ approvals <= Cardinality(Approving(d))
      /\ (approvals # 0 => Approving(d) # {})
  BY ApprovalsAreApproving, FS_CardinalityType, FS_EmptySet DEF approvals
<1>9. d.protection.approvals \in Nat /\ d.mergeable \in {"yes", "no", "unknown"}
  BY DEF IsReadSet
<1>10. Cardinality(Approving(d)) >= d.protection.approvals
  BY <1>4, <1>8, <1>9
<1>11. p.approval \/ d.protection.lastPush => Approving(d) # {}
  BY <1>4, <1>5, <1>8
<1>12. \A c \in d.comments : c.user \in p.actors => <<"comment", c.id>> \in eligible
  BY <1>6 DEF OpenAutomation
<1> QED
  BY <1>2, <1>7, <1>9, <1>10, <1>11, <1>12 DEF NothingSpeaksAgainst

-----------------------------------------------------------------------------
(* CI repairs. *)

LEMMA CommitIsInBounds ==
  ASSUME NEW q,
         CommitRepair(q.head, q.ignored, q.allowed, q.patches, q.valid).ok
  PROVE  InBounds(q, CommitRepair(q.head, q.ignored, q.allowed, q.patches, q.valid))
<1> DEFINE head == q.head
           paths == Declared(q.patches)
           work == GitApply(head, q.patches)
           tree == GitAdd(head, work, paths)
           done == CommitRepair(head, q.ignored, q.allowed, q.patches, q.valid)
<1>1. /\ PatchSetAllowed(q.patches, q.allowed) /\ Copyable(work, paths)
      /\ StagedAsDeclared(paths, StagedNames(head, tree)) /\ SummaryClean(head, tree)
      /\ Unstaged(tree, work) \union Untracked(tree, work, q.ignored) = {}
      /\ done = [ok |-> TRUE, tree |-> tree, work |-> work]
  <2> HIDE DEF work
  <2> QED
    BY DEF CommitRepair, Denied, work
<1> HIDE DEF work, done, paths
<1>2. /\ DOMAIN tree = DOMAIN head
      /\ \A p \in DOMAIN head : tree[p] = IF p \in paths THEN work[p] ELSE head[p]
  BY DEF GitAdd
<1> HIDE DEF tree
(* What moved was declared, and then its old name would be missing among what is staged. *)
<1>3. Moved(head, tree) = {} /\ Changed(head, tree) = paths
  <2>1. Moved(head, tree) \subseteq Changed(head, tree)
    BY DEF Moved, Changed
  <2>2. Changed(head, tree) \subseteq paths
    BY <1>2 DEF Changed
  <2>3. paths = Changed(head, tree) \ Moved(head, tree)
    BY <1>1 DEF StagedAsDeclared, StagedNames
  <2> QED
    BY <2>1, <2>2, <2>3
<1>4. paths \subseteq q.allowed
  BY <1>1 DEF PatchSetAllowed, Declared, paths
<1>5. \A p \in paths : p \in DOMAIN head
  BY <1>3 DEF Changed
<1>6. \A p \in paths : tree[p].mode # "120000"
  BY <1>1, <1>2, <1>5 DEF Copyable
<1>7. \A p \in paths : head[p] # Absent /\ tree[p] # Absent => tree[p].mode = head[p].mode
  BY <1>1, <1>5 DEF SummaryClean
<1>8. ~\E p, r \in paths : head[p] # Absent /\ tree[p] = Absent
                            /\ head[r] = Absent /\ tree[r].text = head[p].text
  <2> SUFFICES ASSUME NEW p \in paths, NEW r \in paths, head[p] # Absent, tree[p] = Absent,
                      head[r] = Absent, tree[r].text = head[p].text
               PROVE  FALSE
    OBVIOUS
  <2>1. tree[r] # Absent
    BY <1>3 DEF Changed
  <2>2. p \in Moved(head, tree)
    BY <1>5, <2>1 DEF Moved
  <2> QED
    BY <1>3, <2>2
<1>9. \A p \in DOMAIN head \ q.ignored : work[p] = tree[p]
  BY <1>1, <1>2 DEF Unstaged, Untracked
<1>10. done.tree = tree /\ done.work = work
  BY <1>1
<1> HIDE DEF head
<1>11. InBounds(q, done)
  BY <1>3, <1>4, <1>6, <1>7, <1>8, <1>9, <1>10 DEF InBounds, head, paths
<1> QED
  BY <1>11 DEF done, head

-----------------------------------------------------------------------------
(* Repairs of files. *)

(* What a list is made of, up to a place of it. *)
Keeps(K, mark, lines) ==
  /\ DOMAIN K = 0..Len(lines) /\ K = [i \in DOMAIN K |-> K[i]] /\ K[0] = <<>>
  /\ \A i \in 1..Len(lines) :
       K[i] = IF lines[i].mark = mark THEN K[i - 1] ELSE Append(K[i - 1], lines[i].text)

LEMMA KeptIs ==
  ASSUME NEW mark, NEW hunk, NEW K, Len(hunk.lines) \in Nat, Keeps(K, mark, hunk.lines)
  PROVE  Without(mark, hunk) = K[Len(hunk.lines)]
<1> DEFINE Kept[i \in 0..Len(hunk.lines)] ==
             IF i = 0 THEN <<>>
             ELSE IF hunk.lines[i].mark = mark THEN Kept[i - 1]
             ELSE Append(Kept[i - 1], hunk.lines[i].text)
<1>1. Without(mark, hunk) = Kept[Len(hunk.lines)]
  BY DEF Without
<1> HIDE DEF Kept
<1>2. K = [i \in 0..Len(hunk.lines) |->
             IF i = 0 THEN <<>>
             ELSE IF hunk.lines[i].mark = mark THEN K[i - 1]
             ELSE Append(K[i - 1], hunk.lines[i].text)]
  <2> DEFINE n == Len(hunk.lines)
             rhs(i) == IF i = 0 THEN <<>>
                       ELSE IF hunk.lines[i].mark = mark THEN K[i - 1]
                       ELSE Append(K[i - 1], hunk.lines[i].text)
  <2>1. DOMAIN K = 0..n /\ K = [i \in DOMAIN K |-> K[i]]
    BY DEF Keeps
  <2>2. \A i \in 0..n : K[i] = rhs(i)
    BY DEF Keeps
  <2> HIDE DEF rhs, n
  <2>3. K = [i \in 0..n |-> rhs(i)]
    BY <2>1, <2>2
  <2> QED
    BY <2>3 DEF rhs, n
<1>3. Kept = [i \in 0..Len(hunk.lines) |->
               IF i = 0 THEN <<>>
               ELSE IF hunk.lines[i].mark = mark THEN Kept[i - 1]
               ELSE Append(Kept[i - 1], hunk.lines[i].text)]
  BY <1>2, Zenon DEF Kept
<1> DEFINE n == Len(hunk.lines)
           S == {i \in Nat : i <= n => Kept[i] = K[i]}
<1>4. 0 \in S
  BY <1>2, <1>3
<1>5. ASSUME NEW i \in Nat, i \in S PROVE i + 1 \in S
  <2> SUFFICES ASSUME i + 1 <= n PROVE Kept[i + 1] = K[i + 1]
    OBVIOUS
  <2>1. i + 1 \in 0..n /\ i + 1 # 0 /\ (i + 1) - 1 = i /\ Kept[i] = K[i]
    BY <1>5
  <2>2. K[i + 1] = IF hunk.lines[i + 1].mark = mark THEN K[i]
                   ELSE Append(K[i], hunk.lines[i + 1].text)
    BY <1>2, <2>1
  <2>3. Kept[i + 1] = IF hunk.lines[i + 1].mark = mark THEN Kept[i]
                      ELSE Append(Kept[i], hunk.lines[i + 1].text)
    BY <1>3, <2>1
  <2> QED
    BY <2>1, <2>2, <2>3
<1> HIDE DEF S
<1>6. n \in S
  BY <1>4, <1>5, NatSetInduction
<1> QED
  BY <1>1, <1>6 DEF S

LEMMA KeptExists ==
  ASSUME NEW Text, NEW lines \in Seq(HunkLine(Text)), NEW mark
  PROVE  \E K \in [0..Len(lines) -> Seq(Text)] : Keeps(K, mark, lines)
<1> DEFINE n == Len(lines)
           step == [i \in 1..n |-> [s \in Seq(Text) |->
                      IF lines[i].mark = mark THEN s ELSE Append(s, lines[i].text)]]
<1>1. \A i \in 1..n : lines[i].text \in Text
  <2>1. \A i \in 1..n : lines[i] \in HunkLine(Text)
    OBVIOUS
  <2> QED
    BY <2>1 DEF HunkLine
<1>2. \A i \in 1..n : step[i] \in [Seq(Text) -> Seq(Text)]
  BY <1>1
<1>3. n \in Nat /\ <<>> \in Seq(Text)
  OBVIOUS
<1>4. step \in [1..n -> [Seq(Text) -> Seq(Text)]]
  BY <1>2
<1>5. \A i \in 1..n, s \in Seq(Text) :
        step[i][s] = IF lines[i].mark = mark THEN s ELSE Append(s, lines[i].text)
  OBVIOUS
<1> HIDE DEF step, n
<1>6. PICK K \in [0..n -> Seq(Text)] : IsRun(K, step, <<>>, n)
  BY <1>3, <1>4, RunExists
<1>7. \A i \in 1..n : K[i - 1] \in Seq(Text)
  BY <1>3
<1>8. Keeps(K, mark, lines)
  BY <1>3, <1>5, <1>6, <1>7 DEF IsRun, Keeps, n
<1> QED
  BY <1>8 DEF n

LEMMA WithoutType ==
  ASSUME NEW Text, NEW hunk, hunk.lines \in Seq(HunkLine(Text)), NEW mark
  PROVE  Without(mark, hunk) \in Seq(Text)
<1>1. PICK K \in [0..Len(hunk.lines) -> Seq(Text)] : Keeps(K, mark, hunk.lines)
  BY KeptExists
<1>2. Len(hunk.lines) \in 0..Len(hunk.lines) /\ Len(hunk.lines) \in Nat
  OBVIOUS
<1>3. Without(mark, hunk) = K[Len(hunk.lines)]
  BY <1>1, <1>2, KeptIs
<1>4. K[Len(hunk.lines)] \in Seq(Text)
  BY <1>1, <1>2
<1> QED
  BY <1>3, <1>4

(* A hunk that is taken back removes what it added. *)
LEMMA TurnedAround ==
  ASSUME NEW Text, NEW h, h.lines \in Seq(HunkLine(Text)), NEW at
  PROVE  Old(TakenBack(h, at)) = New(h) /\ New(TakenBack(h, at)) = Old(h)
<1> DEFINE lines == h.lines
           back == TakenBack(h, at)
<1>1. lines = [i \in 1..Len(lines) |-> lines[i]] /\ Len(lines) \in Nat
  OBVIOUS
<1>2. back.lines = [i \in 1..Len(lines) |-> Turned(lines[i])]
  BY DEF TakenBack
<1>3. Len(back.lines) = Len(lines)
  BY <1>1, <1>2
<1>4. \A i \in 1..Len(lines) :
        /\ back.lines[i].text = lines[i].text
        /\ back.lines[i].mark = "add" <=> lines[i].mark = "remove"
        /\ back.lines[i].mark = "remove" <=> lines[i].mark = "add"
  <2> SUFFICES ASSUME NEW i \in 1..Len(lines)
               PROVE  /\ Turned(lines[i]).text = lines[i].text
                      /\ Turned(lines[i]).mark = "add" <=> lines[i].mark = "remove"
                      /\ Turned(lines[i]).mark = "remove" <=> lines[i].mark = "add"
    BY <1>2
  <2>1. lines[i] \in HunkLine(Text)
    BY <1>1, ElementOfSeq
  <2> QED
    BY <2>1 DEF HunkLine, Marks, Turned
<1> HIDE DEF lines, back
<1>5. ASSUME NEW m, NEW w, <<m, w>> \in {<<"add", "remove">>, <<"remove", "add">>}
      PROVE  Without(m, back) = Without(w, h)
  <2>1. PICK K \in [0..Len(lines) -> Seq(Text)] : Keeps(K, w, lines)
    BY KeptExists DEF lines
  <2>2. Without(w, h) = K[Len(lines)]
    BY <1>1, <2>1, KeptIs DEF lines
  <2>3. Keeps(K, m, back.lines)
    BY <1>3, <1>4, <1>5, <2>1 DEF Keeps
  <2>4. Without(m, back) = K[Len(lines)]
    BY <1>1, <1>3, <2>3, KeptIs
  <2> QED
    BY <2>2, <2>4
<1> QED
  BY <1>5 DEF Old, New, back
-----------------------------------------------------------------------------
(* The states of apply_hunks after each of the hunks. *)

Applied(D, file, hunks) ==
  /\ DOMAIN D = 0..Len(hunks) /\ D = [i \in DOMAIN D |-> D[i]] /\ D[0] = Untouched
  /\ \A i \in 1..Len(hunks) : D[i] = Hunk(file, D[i - 1], hunks[i])

(* What apply_hunks returns after the last of them. *)
Outcome(file, done) ==
  IF done.stale THEN Refused("stale")
  ELSE Repaired(done.result \o SubSeq(file, done.cursor + 1, Len(file)))

LEMMA AppliedIs ==
  ASSUME NEW file, NEW hunks, Len(hunks) \in Nat, NEW D, Applied(D, file, hunks)
  PROVE  ApplyHunks(file, hunks) = Outcome(file, D[Len(hunks)])
<1> DEFINE Done[i \in 0..Len(hunks)] ==
             IF i = 0 THEN Untouched ELSE Hunk(file, Done[i - 1], hunks[i])
<1>1. ApplyHunks(file, hunks) = Outcome(file, Done[Len(hunks)])
  BY DEF ApplyHunks, Outcome
<1> HIDE DEF Done
<1>2. D = [i \in 0..Len(hunks) |->
             IF i = 0 THEN Untouched ELSE Hunk(file, D[i - 1], hunks[i])]
  <2> DEFINE n == Len(hunks)
             rhs(i) == IF i = 0 THEN Untouched ELSE Hunk(file, D[i - 1], hunks[i])
  <2>1. DOMAIN D = 0..n /\ D = [i \in DOMAIN D |-> D[i]]
    BY DEF Applied
  <2>2. \A i \in 0..n : D[i] = rhs(i)
    BY DEF Applied
  <2> HIDE DEF rhs, n
  <2>3. D = [i \in 0..n |-> rhs(i)]
    BY <2>1, <2>2
  <2> QED
    BY <2>3 DEF rhs, n
<1>3. Done = [i \in 0..Len(hunks) |->
                IF i = 0 THEN Untouched ELSE Hunk(file, Done[i - 1], hunks[i])]
  BY <1>2, Zenon DEF Done
<1> DEFINE n == Len(hunks)
           S == {i \in Nat : i <= n => Done[i] = D[i]}
<1>4. 0 \in S
  BY <1>2, <1>3
<1>5. ASSUME NEW i \in Nat, i \in S PROVE i + 1 \in S
  <2> SUFFICES ASSUME i + 1 <= n PROVE Done[i + 1] = D[i + 1]
    OBVIOUS
  <2>1. i + 1 \in 0..n /\ i + 1 # 0 /\ (i + 1) - 1 = i /\ Done[i] = D[i]
    BY <1>5
  <2>2. D[i + 1] = Hunk(file, D[i], hunks[i + 1])
    BY <1>2, <2>1
  <2>3. Done[i + 1] = Hunk(file, Done[i], hunks[i + 1])
    BY <1>3, <2>1
  <2> QED
    BY <2>1, <2>2, <2>3
<1> HIDE DEF S
<1>6. n \in S
  BY <1>4, <1>5, NatSetInduction
<1> QED
  BY <1>1, <1>6 DEF S

States(Text) == [stale : BOOLEAN, cursor : Nat, result : Seq(Text)]

LEMMA HunkType ==
  ASSUME NEW Text, NEW file \in Seq(Text), NEW h \in HunkOf(Text),
         h.start = 0 => h.old = 0, NEW d \in States(Text)
  PROVE  /\ Hunk(file, d, h) \in States(Text)
         /\ Starts(h) \in Nat /\ Old(h) \in Seq(Text) /\ New(h) \in Seq(Text)
<1>1. Starts(h) \in Nat
  BY DEF HunkOf, Starts
<1>2. Old(h) \in Seq(Text) /\ New(h) \in Seq(Text)
  BY WithoutType DEF Old, New, HunkOf
<1> DEFINE s == Starts(h)
           old == Old(h)
           new == New(h)
<1> HIDE DEF s, old, new
<1>3. CASE d.stale \/ s < d.cursor \/ s > Len(file) \/ ~Exactly(file, s, old)
  <2>1. Hunk(file, d, h) = [d EXCEPT !.stale = TRUE]
    BY <1>3 DEF Hunk, s, old
  <2> QED
    BY <1>1, <1>2, <2>1 DEF States
<1>4. CASE ~(d.stale \/ s < d.cursor \/ s > Len(file) \/ ~Exactly(file, s, old))
  <2>1. Hunk(file, d, h) = [stale |-> FALSE, cursor |-> s + Len(old),
                            result |-> d.result \o SubSeq(file, d.cursor + 1, s) \o new]
    BY <1>4 DEF Hunk, s, old, new
  <2>2. s \in Nat /\ old \in Seq(Text) /\ new \in Seq(Text)
    BY <1>1, <1>2 DEF s, old, new
  <2>3. d.cursor \in Nat /\ d.result \in Seq(Text) /\ s <= Len(file)
    BY <1>4, <2>2 DEF States
  <2>4. SubSeq(file, d.cursor + 1, s) \in Seq(Text)
    BY <2>2, <2>3
  <2>5. s + Len(old) \in Nat /\ d.result \o SubSeq(file, d.cursor + 1, s) \o new \in Seq(Text)
    BY <2>2, <2>3, <2>4
  <2> QED
    BY <1>1, <1>2, <2>1, <2>5 DEF States
<1> QED
  BY <1>3, <1>4

LEMMA AppliedExists ==
  ASSUME NEW Text, NEW file \in Seq(Text), NEW hunks \in Seq(HunkOf(Text)),
         \A i \in 1..Len(hunks) : hunks[i].start = 0 => hunks[i].old = 0
  PROVE  \E D \in [0..Len(hunks) -> States(Text)] : Applied(D, file, hunks)
<1> DEFINE n == Len(hunks)
           step == [i \in 1..n |-> [d \in States(Text) |-> Hunk(file, d, hunks[i])]]
<1>1. n \in Nat /\ \A i \in 1..n : hunks[i] \in HunkOf(Text)
  OBVIOUS
<1>2. Untouched \in States(Text)
  BY DEF Untouched, States
<1>3. \A i \in 1..n, d \in States(Text) : Hunk(file, d, hunks[i]) \in States(Text)
  BY <1>1, HunkType
<1>4. step \in [1..n -> [States(Text) -> States(Text)]]
  BY <1>3
<1>5. \A i \in 1..n, d \in States(Text) : step[i][d] = Hunk(file, d, hunks[i])
  OBVIOUS
<1> HIDE DEF step, n
<1>6. PICK D \in [0..n -> States(Text)] : IsRun(D, step, Untouched, n)
  BY <1>1, <1>2, <1>4, RunExists
<1>7. \A i \in 1..n : D[i - 1] \in States(Text)
  BY <1>1
<1>8. Applied(D, file, hunks)
  BY <1>5, <1>6, <1>7 DEF IsRun, Applied, n
<1> QED
  BY <1>8 DEF n

(* What the hunks before a hunk move it by. *)
Drifts(M, hunks) ==
  /\ M \in [0..Len(hunks) -> Int] /\ M[0] = 0
  /\ \A i \in 1..Len(hunks) : M[i] = M[i - 1] + hunks[i].new - hunks[i].old

LEMMA ReversedIs ==
  ASSUME NEW Text, NEW hunks \in Seq(HunkOf(Text))
  PROVE  \E M : /\ Drifts(M, hunks)
                /\ Reversed(hunks) = [i \in 1..Len(hunks) |->
                                        TakenBack(hunks[i], Place(hunks[i]) + M[i - 1])]
<1> DEFINE n == Len(hunks)
           step == [i \in 1..n |-> [m \in Int |-> m + hunks[i].new - hunks[i].old]]
           Drift[i \in 0..Len(hunks)] ==
             IF i = 0 THEN 0 ELSE Drift[i - 1] + hunks[i].new - hunks[i].old
<1>1. Reversed(hunks) = [i \in DOMAIN hunks |->
                           TakenBack(hunks[i], Place(hunks[i]) + Drift[i - 1])]
  BY DEF Reversed
<1> HIDE DEF Drift
<1>2. n \in Nat /\ \A i \in 1..n : hunks[i].new \in Nat /\ hunks[i].old \in Nat
  <2>1. n \in Nat /\ \A i \in 1..n : hunks[i] \in HunkOf(Text)
    OBVIOUS
  <2> HIDE DEF n
  <2> QED
    BY <2>1 DEF HunkOf
<1>3. step \in [1..n -> [Int -> Int]]
  BY <1>2
<1>4. \A i \in 1..n, m \in Int : step[i][m] = m + hunks[i].new - hunks[i].old
  OBVIOUS
<1> HIDE DEF step, n
<1>5. PICK M \in [0..n -> Int] : IsRun(M, step, 0, n)
  <2> DEFINE S == Int
             s == 0
  <2>1. n \in Nat /\ step \in [1..n -> [S -> S]] /\ s \in S
    BY <1>2, <1>3
  <2> HIDE DEF S, s
  <2>2. \E M \in [0..n -> S] : IsRun(M, step, s, n)
    BY <2>1, RunExists
  <2> QED
    BY <2>2 DEF S, s
<1>6. M[0] = 0 /\ \A i \in 1..n : M[i] = M[i - 1] + hunks[i].new - hunks[i].old
  <2>1. \A i \in 1..n : M[i - 1] \in Int
    BY <1>2
  <2> QED
    BY <1>4, <1>5, <2>1 DEF IsRun
<1>7. M = [i \in 0..Len(hunks) |->
             IF i = 0 THEN 0 ELSE M[i - 1] + hunks[i].new - hunks[i].old]
  <2> DEFINE rhs(i) == IF i = 0 THEN 0 ELSE M[i - 1] + hunks[i].new - hunks[i].old
  <2>1. \A i \in 0..n : M[i] = rhs(i)
    BY <1>2, <1>6
  <2> HIDE DEF rhs
  <2>2. M = [i \in 0..n |-> rhs(i)]
    BY <2>1
  <2> QED
    BY <2>2 DEF rhs, n
<1>8. Drift = [i \in 0..Len(hunks) |->
                 IF i = 0 THEN 0 ELSE Drift[i - 1] + hunks[i].new - hunks[i].old]
  BY <1>7, Zenon DEF Drift
<1> DEFINE S == {i \in Nat : i <= n => Drift[i] = M[i]}
<1>9. 0 \in S
  BY <1>2, <1>6, <1>8 DEF n
<1>10. ASSUME NEW i \in Nat, i \in S PROVE i + 1 \in S
  <2> SUFFICES ASSUME i + 1 <= n PROVE Drift[i + 1] = M[i + 1]
    OBVIOUS
  <2>1. i + 1 \in 0..n /\ i + 1 \in 1..n /\ i + 1 # 0 /\ (i + 1) - 1 = i /\ Drift[i] = M[i]
    BY <1>2, <1>10
  <2>2. M[i + 1] = M[i] + hunks[i + 1].new - hunks[i + 1].old
    BY <1>6, <2>1
  <2>3. Drift[i + 1] = Drift[i] + hunks[i + 1].new - hunks[i + 1].old
    BY <1>8, <2>1 DEF n
  <2> QED
    BY <2>1, <2>2, <2>3
<1> HIDE DEF S
<1>11. \A i \in 0..n : Drift[i] = M[i]
  <2>1. \A i \in 0..n : i \in S
    BY <1>9, <1>10, NatSetInduction
  <2> QED
    BY <1>2, <2>1 DEF S
<1>12. Reversed(hunks) = [i \in 1..n |-> TakenBack(hunks[i], Place(hunks[i]) + M[i - 1])]
  <2>1. \A i \in 1..n : Drift[i - 1] = M[i - 1]
    BY <1>2, <1>11
  <2>2. DOMAIN hunks = 1..n
    BY DEF n
  <2> QED
    BY <1>1, <2>1, <2>2
<1> QED
  BY <1>5, <1>6, <1>12 DEF Drifts, n

LEMMA PartOf ==
  ASSUME NEW T, NEW s \in Seq(T), NEW i \in Nat, NEW j \in Nat, i <= j, j <= Len(s)
  PROVE  /\ SubSeq(s, i + 1, j) \in Seq(T) /\ Len(SubSeq(s, i + 1, j)) = j - i
         /\ \A m \in 1..(j - i) : SubSeq(s, i + 1, j)[m] = s[i + m]
  OBVIOUS

(* Four lists, one after the other. *)
InParts(all, a, b, c, d) == all = ((a \o b) \o c) \o d

LEMMA FourParts ==
  ASSUME NEW T, NEW a \in Seq(T), NEW b \in Seq(T), NEW c \in Seq(T), NEW d \in Seq(T),
         NEW all, InParts(all, a, b, c, d)
  PROVE  /\ all \in Seq(T) /\ Len(all) = Len(a) + Len(b) + Len(c) + Len(d)
         /\ all = a \o ((b \o c) \o d)
         /\ SubSeq(all, Len(a) + 1, Len(a) + Len(b)) = b
         /\ SubSeq(all, Len(a) + Len(b) + 1, Len(a) + Len(b) + Len(c)) = c
<1> DEFINE other == a \o ((b \o c) \o d)
           i == Len(a)
           j == Len(a) + Len(b)
           k == Len(a) + Len(b) + Len(c)
           l == Len(a) + Len(b) + Len(c) + Len(d)
<1>1. /\ i \in Nat /\ j \in Nat /\ k \in Nat /\ l \in Nat /\ i <= j /\ j <= k /\ k <= l
      /\ i = Len(a) /\ Len(b) = j - i /\ Len(c) = k - j /\ Len(d) = l - k
  OBVIOUS
<1>2. /\ all \in Seq(T) /\ Len(all) = l
      /\ \A m \in 1..l : all[m] = IF m <= i THEN a[m] ELSE IF m <= j THEN b[m - i]
                                   ELSE IF m <= k THEN c[m - j] ELSE d[m - k]
  BY DEF InParts
<1>3. /\ other \in Seq(T) /\ Len(other) = l
      /\ \A m \in 1..l : other[m] = IF m <= i THEN a[m] ELSE IF m <= j THEN b[m - i]
                                     ELSE IF m <= k THEN c[m - j] ELSE d[m - k]
  OBVIOUS
<1> HIDE DEF other, i, j, k, l
<1>4. all = other
  BY <1>1, <1>2, <1>3, SeqEqual
<1>5. SubSeq(all, i + 1, j) = b
  <2> DEFINE sub == SubSeq(all, i + 1, j)
  <2> all \in Seq(T) /\ i \in Nat /\ j \in Nat /\ i <= j /\ j <= Len(all)
    BY <1>1, <1>2
  <2>1. sub \in Seq(T) /\ Len(sub) = j - i /\ \A m \in 1..(j - i) : sub[m] = all[i + m]
    BY PartOf
  <2>2. \A m \in 1..(j - i) : all[i + m] = b[m]
    BY <1>1, <1>2
  <2> HIDE DEF sub
  <2>3. sub = b
    BY <1>1, <2>1, <2>2, SeqEqual
  <2> QED
    BY <2>3 DEF sub
<1>6. SubSeq(all, j + 1, k) = c
  <2> DEFINE sub == SubSeq(all, j + 1, k)
  <2> all \in Seq(T) /\ j \in Nat /\ k \in Nat /\ j <= k /\ k <= Len(all)
    BY <1>1, <1>2
  <2>1. sub \in Seq(T) /\ Len(sub) = k - j /\ \A m \in 1..(k - j) : sub[m] = all[j + m]
    BY PartOf
  <2>2. \A m \in 1..(k - j) : all[j + m] = c[m]
    BY <1>1, <1>2
  <2> HIDE DEF sub
  <2>3. sub = c
    BY <1>1, <2>1, <2>2, SeqEqual
  <2> QED
    BY <2>3 DEF sub
<1> QED
  BY <1>2, <1>4, <1>5, <1>6 DEF other, i, j, k, l

LEMMA TwoParts ==
  ASSUME NEW T, NEW s \in Seq(T), NEW i \in Nat, NEW j \in Nat, i <= j, j <= Len(s)
  PROVE  /\ SubSeq(s, i + 1, j) \in Seq(T) /\ Len(SubSeq(s, i + 1, j)) = j - i
         /\ SubSeq(s, 1, i) \o SubSeq(s, i + 1, j) = SubSeq(s, 1, j)
<1>1. SubSeq(s, i + 1, j) \in Seq(T) /\ Len(SubSeq(s, i + 1, j)) = j - i
  BY PartOf
<1>2. 1 \in 1..(Len(s) + 1) /\ i \in (1 - 1)..Len(s) /\ j \in i..Len(s)
  OBVIOUS
<1> QED
  BY <1>1, <1>2, ConcatAdjacentSubSeq

(* No hunk was stale when the last of them was not. *)
LEMMA NeverStale ==
  ASSUME NEW Text, NEW file, NEW hunks \in Seq(HunkOf(Text)),
         NEW D \in [0..Len(hunks) -> States(Text)],
         Applied(D, file, hunks), ~D[Len(hunks)].stale
  PROVE  \A k \in 0..Len(hunks) : ~D[k].stale
<1> DEFINE n == Len(hunks)
<1> SUFFICES ASSUME NEW k \in 0..n, D[k].stale PROVE FALSE
  OBVIOUS
<1> DEFINE S == {m \in Nat : k + m <= n => D[k + m].stale}
<1>1. 0 \in S /\ n \in Nat
  OBVIOUS
<1>2. ASSUME NEW m \in Nat, m \in S PROVE m + 1 \in S
  <2> SUFFICES ASSUME k + m + 1 <= n PROVE D[k + m + 1].stale
    OBVIOUS
  <2>1. D[k + m].stale /\ k + m + 1 \in 1..n /\ (k + m + 1) - 1 = k + m /\ k + m \in 0..n
    BY <1>1, <1>2
  <2>2. D[k + m + 1] = Hunk(file, D[k + m], hunks[k + m + 1])
    BY <2>1 DEF Applied
  <2>3. D[k + m + 1] = [D[k + m] EXCEPT !.stale = TRUE]
    BY <2>1, <2>2 DEF Hunk
  <2> QED
    BY <2>1, <2>3 DEF States
<1> HIDE DEF S
<1>3. n - k \in Nat /\ n - k \in S
  BY <1>1, <1>2, NatSetInduction
<1> QED
  BY <1>3 DEF S

(* What one hunk does that is not stale. *)
Replaces(file, before, after, h) ==
  /\ before.cursor <= Starts(h) /\ Starts(h) + Len(Old(h)) <= Len(file)
  /\ SubSeq(file, Starts(h) + 1, Starts(h) + Len(Old(h))) = Old(h)
  /\ after = [stale |-> FALSE, cursor |-> Starts(h) + Len(Old(h)),
              result |-> before.result \o SubSeq(file, before.cursor + 1, Starts(h)) \o New(h)]

LEMMA HunkReplaces ==
  ASSUME NEW Text, NEW file \in Seq(Text), NEW h \in HunkOf(Text),
         h.start = 0 => h.old = 0, NEW d \in States(Text)
  PROVE  ~Hunk(file, d, h).stale <=> ~d.stale /\ Replaces(file, d, Hunk(file, d, h), h)
<1>1. /\ Starts(h) \in Nat /\ Old(h) \in Seq(Text) /\ New(h) \in Seq(Text)
      /\ d.cursor \in Nat /\ Len(file) \in Nat /\ Len(Old(h)) \in Nat
  BY HunkType DEF States
<1>2. CASE d.stale \/ Starts(h) < d.cursor \/ Starts(h) > Len(file)
             \/ ~Exactly(file, Starts(h), Old(h))
  <2>1. Hunk(file, d, h) = [d EXCEPT !.stale = TRUE]
    BY <1>2 DEF Hunk
  <2>2. Hunk(file, d, h).stale
    BY <2>1 DEF States
  <2> QED
    BY <2>2 DEF Replaces
<1>3. CASE ~(d.stale \/ Starts(h) < d.cursor \/ Starts(h) > Len(file)
             \/ ~Exactly(file, Starts(h), Old(h)))
  <2>1. Hunk(file, d, h) =
          [stale |-> FALSE, cursor |-> Starts(h) + Len(Old(h)),
           result |-> d.result \o SubSeq(file, d.cursor + 1, Starts(h)) \o New(h)]
    BY <1>3 DEF Hunk
  <2> QED
    BY <1>1, <1>3, <2>1 DEF Exactly, Replaces
<1> QED
  BY <1>2, <1>3

(* A step of apply_hunks, with what the lines of the file have moved by before it. *)
IsStep(Text, file, h, before, after, drift) ==
  /\ file \in Seq(Text) /\ h \in HunkOf(Text)
  /\ h.start = 0 => h.old = 0
  /\ h.old = Len(Old(h)) /\ h.new = Len(New(h))
  /\ before \in States(Text) /\ after \in States(Text) /\ Replaces(file, before, after, h)
  /\ drift \in Int /\ Len(before.result) = before.cursor + drift

(* Where the reversed patch is when the patch was in this state. *)
Mirrored(file, done) ==
  [stale |-> FALSE, cursor |-> Len(done.result), result |-> SubSeq(file, 1, done.cursor)]

BeginsWith(Text, changed, done) == \E rest \in Seq(Text) : changed = done.result \o rest

Shifts(drift, h, after) == Len(after.result) = after.cursor + drift + h.new - h.old

TakesBack(changed, file, back, before, after) ==
  /\ back.start = 0 => back.old = 0
  /\ Hunk(changed, Mirrored(file, before), back) = Mirrored(file, after)

(* One hunk, taken back from the file it was applied to. *)
LEMMA HunkTakenBack ==
  ASSUME NEW Text, NEW file, NEW h, NEW before, NEW after, NEW drift, NEW changed,
         IsStep(Text, file, h, before, after, drift), BeginsWith(Text, changed, after)
  PROVE  /\ Shifts(drift, h, after)
         /\ BeginsWith(Text, changed, before)
         /\ TakesBack(changed, file, TakenBack(h, Place(h) + drift), before, after)
<1> DEFINE back == TakenBack(h, Place(h) + drift)
           r == before.result
           c == before.cursor
           s == Starts(h)
           kept == SubSeq(file, c + 1, s)
           old == Old(h)
           new == New(h)
<1> file \in Seq(Text) /\ h \in HunkOf(Text) /\ drift \in Int
  BY DEF IsStep
<1> PICK rest \in Seq(Text) : changed = after.result \o rest
  BY DEF BeginsWith
<1>0. /\ h.start = 0 => h.old = 0
      /\ before \in States(Text) /\ after \in States(Text) /\ Replaces(file, before, after, h)
      /\ h.old = Len(old) /\ h.new = Len(new) /\ Len(r) = c + drift
  BY DEF IsStep
<1>1. /\ r \in Seq(Text) /\ c \in Nat /\ s \in Nat /\ c <= s /\ s + Len(old) <= Len(file)
      /\ old \in Seq(Text) /\ new \in Seq(Text) /\ Len(old) \in Nat /\ Len(new) \in Nat
      /\ Len(r) \in Nat /\ Len(file) \in Nat /\ h.old = Len(old) /\ h.new = Len(new)
  <2>1. s \in Nat /\ old \in Seq(Text) /\ new \in Seq(Text)
    BY <1>0, HunkType
  <2>2. r \in Seq(Text) /\ c \in Nat
    BY <1>0 DEF States
  <2>3. c <= s /\ s + Len(old) <= Len(file)
    BY <1>0 DEF Replaces
  <2>4. h.old = Len(old) /\ h.new = Len(new)
    BY <1>0
  <2> HIDE DEF r, c, s, old, new
  <2> QED
    BY <2>1, <2>2, <2>3, <2>4
<1>2. /\ after.result = r \o kept \o new /\ after.cursor = s + Len(old)
      /\ SubSeq(file, s + 1, s + Len(old)) = old
  BY <1>0 DEF Replaces
<1>3. kept \in Seq(Text) /\ Len(kept) = s - c
  <2> HIDE DEF s, c
  <2>1. s <= Len(file)
    BY <1>1
  <2> QED
    BY <1>1, <2>1, TwoParts
<1>4. Old(back) = new /\ New(back) = old
  <2>1. h.lines \in Seq(HunkLine(Text))
    BY DEF HunkOf
  <2> QED
    BY <2>1, TurnedAround
<1>5. Place(h) = s + 1
  <2>1. h.start \in Nat
    BY DEF HunkOf
  <2> QED
    BY <1>0, <2>1 DEF Place, Starts
<1>6. /\ back.old = Len(new) /\ back.new = Len(old)
      /\ back.start = IF Len(new) = 0 THEN s + drift ELSE s + drift + 1
  <2>1. /\ back.old = h.new /\ back.new = h.old
        /\ back.start = IF h.new = 0 THEN (Place(h) + drift) - 1 ELSE Place(h) + drift
    BY DEF TakenBack
  <2> HIDE DEF back, old, new, s
  <2> QED
    BY <1>1, <1>5, <2>1
<1>7. Starts(back) = s + drift
  <2> HIDE DEF back, old, new, s
  <2> QED
    BY <1>1, <1>6 DEF Starts
<1> HIDE DEF back, r, c, s, kept, old, new
<1>8. Len(r) = c + drift
  BY <1>0 DEF r, c
<1>9. /\ changed = r \o ((kept \o new) \o rest) /\ changed \in Seq(Text)
      /\ Len(changed) = s + drift + Len(new) + Len(rest)
      /\ SubSeq(changed, Len(r) + 1, s + drift) = kept
      /\ SubSeq(changed, s + drift + 1, s + drift + Len(new)) = new
      /\ Len(after.result) = s + drift + Len(new)
  <2>1. InParts(changed, r, kept, new, rest)
    BY <1>2 DEF InParts
  <2>2. r \in Seq(Text) /\ kept \in Seq(Text) /\ new \in Seq(Text) /\ rest \in Seq(Text)
    BY <1>1, <1>3
  <2>3. /\ changed = r \o ((kept \o new) \o rest) /\ changed \in Seq(Text)
        /\ Len(changed) = Len(r) + Len(kept) + Len(new) + Len(rest)
        /\ SubSeq(changed, Len(r) + 1, Len(r) + Len(kept)) = kept
        /\ SubSeq(changed, Len(r) + Len(kept) + 1, Len(r) + Len(kept) + Len(new)) = new
    <3> r \in Seq(Text) /\ kept \in Seq(Text) /\ new \in Seq(Text)
      BY <2>2
    <3>1. /\ changed \in Seq(Text) /\ changed = r \o ((kept \o new) \o rest)
          /\ Len(changed) = Len(r) + Len(kept) + Len(new) + Len(rest)
      BY ONLY <2>1, <2>2, FourParts
    <3>2. SubSeq(changed, Len(r) + 1, Len(r) + Len(kept)) = kept
      BY ONLY <2>1, <2>2, FourParts
    <3>3. SubSeq(changed, Len(r) + Len(kept) + 1, Len(r) + Len(kept) + Len(new)) = new
      BY ONLY <2>1, <2>2, FourParts
    <3> QED
      BY <3>1, <3>2, <3>3
  <2>4. Len((r \o kept) \o new) = Len(r) + Len(kept) + Len(new)
    BY <2>2
  <2>5. Len(r) + Len(kept) = s + drift
    BY <1>1, <1>3, <1>8
  <2> QED
    BY <1>2, <2>3, <2>4, <2>5
<1>10. (kept \o new) \o rest \in Seq(Text) /\ Len(rest) \in Nat
  BY <1>1, <1>3
<1>12. (SubSeq(file, 1, c) \o kept) \o old = SubSeq(file, 1, s + Len(old))
  <2>1. s <= Len(file) /\ s + Len(old) \in Nat /\ s <= s + Len(old)
    BY <1>1
  <2>2. SubSeq(file, 1, c) \o kept = SubSeq(file, 1, s)
    BY <1>1, <2>1, TwoParts DEF kept
  <2>3. SubSeq(file, 1, s) \o SubSeq(file, s + 1, s + Len(old)) = SubSeq(file, 1, s + Len(old))
    <3> DEFINE e == s + Len(old)
    <3>1. e \in Nat /\ s <= e /\ e <= Len(file)
      BY <1>1, <2>1
    <3> HIDE DEF e
    <3>2. SubSeq(file, 1, s) \o SubSeq(file, s + 1, e) = SubSeq(file, 1, e)
      BY <1>1, <3>1, TwoParts
    <3> QED
      BY <3>2 DEF e
  <2> QED
    BY <1>2, <2>2, <2>3
<1> DEFINE at == [stale |-> FALSE, cursor |-> Len(r), result |-> SubSeq(file, 1, c)]
<1>13. s + drift \in Nat /\ s + drift >= Len(r) /\ s + drift <= Len(changed)
  BY <1>1, <1>8, <1>9, <1>10
<1>14. Exactly(changed, s + drift, Old(back))
  <2>1. Len(changed) >= s + drift + Len(new)
    BY <1>9, <1>10, <1>13, <1>1
  <2>2. SubSeq(changed, s + drift + 1, s + drift + Len(new)) = new
    BY <1>9
  <2>3. Exactly(changed, s + drift, new)
    BY <1>1, <1>9, <1>10, <1>13, <2>1, <2>2 DEF Exactly
  <2> QED
    BY <1>4, <2>3
<1>15. Hunk(changed, at, back) =
         [stale |-> FALSE, cursor |-> s + drift + Len(new),
          result |-> SubSeq(file, 1, c) \o SubSeq(changed, Len(r) + 1, s + drift) \o old]
  <2> DEFINE t == s + drift
  <2>1. ~(at.stale \/ t < at.cursor \/ t > Len(changed) \/ ~Exactly(changed, t, Old(back)))
    BY <1>1, <1>9, <1>13, <1>14
  <2>2. Starts(back) = t
    BY <1>7
  <2> HIDE DEF t
  <2>3. Hunk(changed, at, back) =
          [stale |-> FALSE, cursor |-> t + Len(Old(back)),
           result |-> at.result \o SubSeq(changed, at.cursor + 1, t) \o New(back)]
    BY <2>1, <2>2 DEF Hunk
  <2> QED
    BY <1>4, <2>3 DEF t
<1>16. Hunk(changed, at, back) = [stale |-> FALSE, cursor |-> Len(after.result),
                                  result |-> SubSeq(file, 1, after.cursor)]
  BY <1>2, <1>9, <1>12, <1>15
<1>18. back.start = 0 => back.old = 0
  BY <1>1, <1>6, <1>13
<1>19. Len(after.result) = after.cursor + drift + h.new - h.old
  BY <1>1, <1>2, <1>9
<1> QED
  BY <1>9, <1>10, <1>16, <1>18, <1>19 DEF Mirrored, BeginsWith, Shifts, TakesBack, back, r, c

LEMMA MirroredIs ==
  ASSUME NEW file, NEW done
  PROVE  /\ ~Mirrored(file, done).stale /\ Mirrored(file, done).cursor = Len(done.result)
         /\ Mirrored(file, done).result = SubSeq(file, 1, done.cursor)
         /\ done = Untouched => Mirrored(file, done) = Untouched
<1>1. Len(<<>>) = 0 /\ SubSeq(file, 1, 0) = <<>>
  OBVIOUS
<1>2. done = Untouched => Mirrored(file, done) = Untouched
  <2> SUFFICES ASSUME done = Untouched PROVE Mirrored(file, done) = Untouched
    OBVIOUS
  <2>1. Len(done.result) = 0 /\ SubSeq(file, 1, done.cursor) = <<>>
    BY <1>1 DEF Untouched
  <2> QED
    BY <2>1 DEF Mirrored, Untouched
<1> QED
  BY <1>2 DEF Mirrored

LEMMA LastPart ==
  ASSUME NEW T, NEW a \in Seq(T), NEW b \in Seq(T)
  PROVE  SubSeq(a \o b, Len(a) + 1, Len(a \o b)) = b
  OBVIOUS

(* A patch that was accepted is taken back by the reversed patch. *)
LEMMA PatchTakenBack ==
  ASSUME NEW Text, NEW file \in Seq(Text), file # <<>>, NEW hunks \in Seq(HunkOf(Text)),
         ApplyPatch(file, hunks).ok, ApplyPatch(file, hunks).file # <<Blank>>
  PROVE  LET back == ApplyPatch(ApplyPatch(file, hunks).file, Reversed(hunks)) IN
         back.ok /\ back.file = file
<1> DEFINE n == Len(hunks)
           back == Reversed(hunks)
           changed == ApplyPatch(file, hunks).file
<1>1. WellFormed(hunks)
  BY DEF ApplyPatch, Refused
<1>2. /\ n \in Nat /\ DOMAIN hunks = 1..n /\ n # 0
      /\ \A i \in 1..n : /\ hunks[i] \in HunkOf(Text)
                         /\ hunks[i].old = Len(Old(hunks[i]))
                         /\ hunks[i].new = Len(New(hunks[i]))
                         /\ hunks[i].start = 0 => hunks[i].old = 0
  <2>1. n \in Nat /\ DOMAIN hunks = 1..n /\ hunks # <<>>
    BY <1>1 DEF WellFormed
  <2>2. \A i \in 1..n : hunks[i] \in HunkOf(Text)
    OBVIOUS
  <2>3. n # 0
    BY <2>1
  <2> HIDE DEF n
  <2> QED
    BY <1>1, <2>1, <2>2, <2>3 DEF WellFormed
<1>3. PICK D \in [0..n -> States(Text)] : Applied(D, file, hunks)
  <2>1. \A i \in 1..Len(hunks) : hunks[i].start = 0 => hunks[i].old = 0
    BY <1>2
  <2> QED
    BY <2>1, AppliedExists
<1>4. ApplyPatch(file, hunks) = Outcome(file, D[n])
  BY <1>1, <1>2, <1>3, AppliedIs DEF ApplyPatch
<1>5. ~D[n].stale
  BY <1>4 DEF Outcome, Refused
<1>6. \A k \in 0..n : ~D[k].stale
  BY <1>3, <1>5, NeverStale
<1>7. PICK M : /\ Drifts(M, hunks)
               /\ back = [i \in 1..n |-> TakenBack(hunks[i], Place(hunks[i]) + M[i - 1])]
  BY ReversedIs
<1>8. \A k \in 0..n : M[k] \in Int
  BY <1>7 DEF Drifts
<1> DEFINE rest == SubSeq(file, D[n].cursor + 1, Len(file))
<1>9. rest \in Seq(Text) /\ changed = D[n].result \o rest
  <2>1. D[n] \in States(Text)
    BY <1>2, <1>3
  <2>2. D[n].cursor \in Nat
    BY <2>1 DEF States
  <2>3. rest \in Seq(Text)
    BY <2>2
  <2> HIDE DEF rest
  <2>4. ApplyPatch(file, hunks) = Repaired(D[n].result \o rest)
    BY <1>4, <1>5 DEF Outcome, rest
  <2> QED
    BY <2>3, <2>4 DEF Repaired
<1>10. \A k \in 1..n : Replaces(file, D[k - 1], D[k], hunks[k])
  <2> SUFFICES ASSUME NEW k \in 1..n PROVE Replaces(file, D[k - 1], D[k], hunks[k])
    OBVIOUS
  <2>1. k - 1 \in 0..n /\ k \in 0..n
    BY <1>2
  <2>2. D[k - 1] \in States(Text) /\ ~D[k].stale /\ D[k] = Hunk(file, D[k - 1], hunks[k])
    BY <1>3, <1>6, <2>1 DEF Applied
  <2> HIDE DEF n
  <2> QED
    BY <1>2, <2>2, HunkReplaces
<1> HIDE DEF n, changed, rest, back
<1>11. \A k \in 0..n : D[k] \in States(Text)
  BY <1>3
<1>12. D[0] = Untouched /\ M[0] = 0
       /\ \A k \in 1..n : M[k] = M[k - 1] + hunks[k].new - hunks[k].old
  BY <1>3, <1>7 DEF Applied, Drifts, n
(* Down the patch, to what the file was moved by; and back up, to what it began with. *)
<1> DEFINE Shifted(k) == Len(D[k].result) = D[k].cursor + M[k]
           Begins(k) == BeginsWith(Text, changed, D[k])
           S == {k \in Nat : k <= n => Shifted(k)}
           B == {m \in Nat : m <= n => Begins(n - m)}
           E == [k \in 0..n |-> Mirrored(file, D[k])]
<1> HIDE DEF Shifted, Begins
<1>13. ASSUME NEW k \in 1..n, Shifted(k - 1)
       PROVE  IsStep(Text, file, hunks[k], D[k - 1], D[k], M[k - 1])
  <2>1. k - 1 \in 0..n /\ k \in 0..n
    BY <1>2
  <2> QED
    BY <1>2, <1>8, <1>10, <1>11, <1>13, <2>1 DEF IsStep, Shifted
<1>14. \A k \in 0..n : Shifted(k)
  <2>1. 0 \in S
    BY <1>12 DEF Shifted, Untouched
  <2>2. ASSUME NEW k \in Nat, k \in S PROVE k + 1 \in S
    <3> SUFFICES ASSUME k + 1 <= n PROVE Shifted(k + 1)
      OBVIOUS
    <3>1. k + 1 \in 1..n /\ (k + 1) - 1 = k /\ Shifted(k)
      BY <1>2, <2>2
    <3> DEFINE j == k + 1
    <3>2. j \in 1..n /\ j - 1 = k /\ j \in 0..n /\ k \in 0..n
      BY <1>2, <3>1
    <3> HIDE DEF j
    <3>3. IsStep(Text, file, hunks[j], D[k], D[j], M[k])
      BY <1>13, <3>1, <3>2
    <3>4. BeginsWith(Text, D[j].result, D[j])
      <4>1. D[j].result \in Seq(Text)
        BY <1>11, <3>2 DEF States
      <4>2. D[j].result = D[j].result \o <<>> /\ <<>> \in Seq(Text)
        BY <4>1
      <4> QED
        BY <4>2 DEF BeginsWith
    <3>5. Shifts(M[k], hunks[j], D[j])
      BY <3>3, <3>4, HunkTakenBack
    <3>6. M[j] = M[k] + hunks[j].new - hunks[j].old
      BY <1>12, <3>2
    <3>7. /\ M[k] \in Int /\ D[j].cursor \in Nat
          /\ hunks[j].new \in Nat /\ hunks[j].old \in Nat
      <4>1. D[j] \in States(Text) /\ hunks[j] \in HunkOf(Text) /\ M[k] \in Int
        BY <1>2, <1>8, <1>11, <3>2
      <4> QED
        BY <4>1 DEF States, HunkOf
    <3>8. Shifted(j)
      BY <3>5, <3>6, <3>7 DEF Shifts, Shifted
    <3> QED
      BY <3>8 DEF j
  <2> HIDE DEF S
  <2>3. \A k \in 0..n : k \in S
    BY <2>1, <2>2, NatSetInduction
  <2> QED
    BY <1>2, <2>3 DEF S
<1>15. ASSUME NEW k \in 1..n, Begins(k)
       PROVE  /\ Begins(k - 1)
              /\ TakesBack(changed, file, TakenBack(hunks[k], Place(hunks[k]) + M[k - 1]),
                           D[k - 1], D[k])
  <2>1. k - 1 \in 0..n
    BY <1>2
  <2>2. BeginsWith(Text, changed, D[k])
    BY <1>15 DEF Begins
  <2>3. IsStep(Text, file, hunks[k], D[k - 1], D[k], M[k - 1])
    BY <1>13, <1>14, <2>1
  <2> QED
    BY <2>2, <2>3, HunkTakenBack DEF Begins
<1>16. \A k \in 0..n : Begins(k)
  <2>1. 0 \in B
    <3>1. n - 0 = n
      BY <1>2
    <3>2. Begins(n)
      BY <1>9 DEF Begins, BeginsWith
    <3> QED
      BY <3>1, <3>2
  <2>2. ASSUME NEW m \in Nat, m \in B PROVE m + 1 \in B
    <3> SUFFICES ASSUME m + 1 <= n PROVE Begins(n - (m + 1))
      OBVIOUS
    <3>1. n - m \in 1..n /\ (n - m) - 1 = n - (m + 1) /\ Begins(n - m)
      BY <1>2, <2>2
    <3> QED
      BY <1>15, <3>1
  <2> HIDE DEF B
  <2>3. \A m \in Nat : m \in B
    BY <2>1, <2>2, NatSetInduction
  <2> SUFFICES ASSUME NEW k \in 0..n PROVE Begins(k)
    OBVIOUS
  <2>4. n - k \in Nat /\ n - k <= n /\ n - (n - k) = k
    BY <1>2
  <2>5. n - k \in B
    BY <2>3, <2>4
  <2> QED
    BY <2>4, <2>5 DEF B
<1>17. /\ Len(back) = n /\ DOMAIN back = 1..n /\ back # <<>>
       /\ \A k \in 1..n : back[k] = TakenBack(hunks[k], Place(hunks[k]) + M[k - 1])
  <2>1. /\ DOMAIN back = 1..n
        /\ \A k \in 1..n : back[k] = TakenBack(hunks[k], Place(hunks[k]) + M[k - 1])
    BY <1>7
  <2>2. Len(back) = n
    BY <1>2, <1>7
  <2>3. back # <<>>
    BY <1>2, <2>2
  <2> QED
    BY <2>1, <2>2, <2>3
<1>18. \A k \in 1..n : /\ back[k].start = 0 => back[k].old = 0
                       /\ Hunk(changed, Mirrored(file, D[k - 1]), back[k]) = Mirrored(file, D[k])
  <2> SUFFICES ASSUME NEW k \in 1..n
               PROVE  /\ back[k].start = 0 => back[k].old = 0
                      /\ Hunk(changed, Mirrored(file, D[k - 1]), back[k]) = Mirrored(file, D[k])
    OBVIOUS
  <2>1. k \in 0..n
    BY <1>2
  <2> QED
    BY <1>15, <1>16, <1>17, <2>1 DEF TakesBack
<1>19. WellFormed(back)
  <2> SUFFICES ASSUME NEW k \in 1..n
               PROVE  back[k].old = Len(Old(back[k])) /\ back[k].new = Len(New(back[k]))
    BY <1>17, <1>18 DEF WellFormed
  <2>1. Old(back[k]) = New(hunks[k]) /\ New(back[k]) = Old(hunks[k])
    <3>1. hunks[k].lines \in Seq(HunkLine(Text))
      BY <1>2 DEF HunkOf
    <3> QED
      BY <1>17, <3>1, TurnedAround
  <2>2. back[k].old = hunks[k].new /\ back[k].new = hunks[k].old
    BY <1>17 DEF TakenBack
  <2> QED
    BY <1>2, <2>1, <2>2
<1>20. Applied(E, changed, back)
  <2>1. 0 \in 0..n /\ n \in 0..n /\ \A k \in 1..n : k \in 0..n /\ k - 1 \in 0..n
    BY <1>2
  <2>3. Mirrored(file, D[0]) = Untouched
    BY <1>12, MirroredIs
  <2>4. E[0] = Untouched
    BY <2>1, <2>3
  <2>5. \A k \in 1..n : E[k] = Hunk(changed, E[k - 1], back[k])
    BY <1>18, <2>1
  <2>6. DOMAIN E = 0..n /\ E = [k \in DOMAIN E |-> E[k]]
    OBVIOUS
  <2> HIDE DEF E
  <2> QED
    BY <1>17, <2>4, <2>5, <2>6 DEF Applied
<1>21. E[n] = Mirrored(file, D[n])
  BY <1>2
<1> HIDE DEF E
<1>22. /\ ~E[n].stale /\ E[n].cursor = Len(D[n].result)
       /\ E[n].result = SubSeq(file, 1, D[n].cursor)
  BY <1>21, MirroredIs
<1>24. ApplyPatch(changed, back) = Outcome(changed, E[n])
  BY <1>2, <1>17, <1>19, <1>20, AppliedIs DEF ApplyPatch
<1>25. SubSeq(changed, Len(D[n].result) + 1, Len(changed)) = rest
  <2> DEFINE r == D[n].result
  <2>1. r \in Seq(Text) /\ <<>> \in Seq(Text)
    BY <1>2, <1>11 DEF States
  <2>2. changed = r \o rest
    BY <1>9
  <2> HIDE DEF r
  <2>3. SubSeq(r \o rest, Len(r) + 1, Len(r \o rest)) = rest
    BY <1>9, <2>1, LastPart
  <2> QED
    BY <2>2, <2>3 DEF r
<1>26. SubSeq(file, 1, D[n].cursor) \o rest = file
  <2> DEFINE c == D[n].cursor
  <2>1. c \in Nat /\ c <= Len(file)
    <3>1. n \in 1..n /\ n \in 0..n
      BY <1>2
    <3>2. Replaces(file, D[n - 1], D[n], hunks[n]) /\ D[n] \in States(Text)
      BY <1>10, <1>11, <3>1
    <3> QED
      BY <3>2 DEF Replaces, States
  <2>2. rest = SubSeq(file, c + 1, Len(file)) /\ Len(file) \in Nat
    BY DEF rest
  <2> HIDE DEF c
  <2>3. SubSeq(file, 1, c) \o SubSeq(file, c + 1, Len(file)) = SubSeq(file, 1, Len(file))
    <3> DEFINE e == Len(file)
    <3>1. c \in Nat /\ e \in Nat /\ c <= e /\ e <= Len(file)
      BY <2>1, <2>2
    <3> HIDE DEF e
    <3>2. SubSeq(file, 1, c) \o SubSeq(file, c + 1, e) = SubSeq(file, 1, e)
      BY <3>1, TwoParts
    <3> QED
      BY <3>2 DEF e
  <2>4. SubSeq(file, 1, Len(file)) = file
    BY SubSeqFull
  <2> QED
    BY <2>2, <2>3, <2>4 DEF c
<1>27. ApplyPatch(changed, back) = Repaired(file)
  BY <1>22, <1>24, <1>25, <1>26 DEF Outcome
<1> QED
  BY <1>27 DEF Repaired, changed, back

LEMMA OneMore ==
  ASSUME NEW T, NEW s \in Seq(T), NEW i \in 1..Len(s)
  PROVE  SubSeq(s, 1, i) = Append(SubSeq(s, 1, i - 1), s[i])
<1> DEFINE a == SubSeq(s, 1, i)
           b == Append(SubSeq(s, 1, i - 1), s[i])
<1>1. a \in Seq(T) /\ Len(a) = i /\ \A k \in 1..i : a[k] = s[k]
  OBVIOUS
<1>2. b \in Seq(T) /\ Len(b) = i /\ \A k \in 1..i : b[k] = s[k]
  OBVIOUS
<1> HIDE DEF a, b
<1>3. a = b
  BY <1>1, <1>2, SeqEqual
<1> QED
  BY <1>3 DEF a, b

LEMMA AppendInMiddle ==
  ASSUME NEW T, NEW a \in Seq(T), NEW b \in Seq(T), NEW c \in Seq(T), NEW x \in T
  PROVE  (a \o b) \o Append(c, x) = Append((a \o b) \o c, x)
<1> DEFINE u == (a \o b) \o Append(c, x)
           v == Append((a \o b) \o c, x)
           n == Len(a) + Len(b) + Len(c)
<1>1. /\ u \in Seq(T) /\ Len(u) = n + 1
      /\ \A k \in 1..(n + 1) : u[k] = IF k <= Len(a) THEN a[k]
                                     ELSE IF k <= Len(a) + Len(b) THEN b[k - Len(a)]
                                     ELSE IF k <= n THEN c[k - (Len(a) + Len(b))] ELSE x
  OBVIOUS
<1>2. /\ v \in Seq(T) /\ Len(v) = n + 1
      /\ \A k \in 1..(n + 1) : v[k] = IF k <= Len(a) THEN a[k]
                                     ELSE IF k <= Len(a) + Len(b) THEN b[k - Len(a)]
                                     ELSE IF k <= n THEN c[k - (Len(a) + Len(b))] ELSE x
  OBVIOUS
<1> HIDE DEF u, v, n
<1>3. u = v
  BY <1>1, <1>2, SeqEqual
<1> QED
  BY <1>3 DEF u, v

(* A hunk that removes lines and then adds others. *)
LEMMA MarkedApart ==
  ASSUME NEW Text, NEW removed \in Seq(Text), NEW added \in Seq(Text), NEW hunk,
         hunk.lines = Marked("remove", removed) \o Marked("add", added)
  PROVE  Old(hunk) = removed /\ New(hunk) = added
<1> DEFINE r == Len(removed)
           a == Len(added)
           lines == Marked("remove", removed) \o Marked("add", added)
<1>1. r \in Nat /\ a \in Nat
  OBVIOUS
<1>2. /\ Len(lines) = r + a
      /\ \A i \in 1..r : lines[i] = [mark |-> "remove", text |-> removed[i]]
      /\ \A i \in (r + 1)..(r + a) : lines[i] = [mark |-> "add", text |-> added[i - r]]
  <2> DEFINE u == Marked("remove", removed)
             v == Marked("add", added)
  <2>1. /\ u \in Seq(HunkLine(Text)) /\ Len(u) = r
        /\ \A i \in 1..r : u[i] = [mark |-> "remove", text |-> removed[i]]
    <3>1. \A i \in 1..r : removed[i] \in Text
      OBVIOUS
    <3>2. u = [i \in 1..r |-> [mark |-> "remove", text |-> removed[i]]]
      BY DEF Marked
    <3> HIDE DEF u, r
    <3> QED
      BY <1>1, <3>1, <3>2 DEF HunkLine, Marks
  <2>2. /\ v \in Seq(HunkLine(Text)) /\ Len(v) = a
        /\ \A i \in 1..a : v[i] = [mark |-> "add", text |-> added[i]]
    <3>1. \A i \in 1..a : added[i] \in Text
      OBVIOUS
    <3>2. v = [i \in 1..a |-> [mark |-> "add", text |-> added[i]]]
      BY DEF Marked
    <3> HIDE DEF v, a
    <3> QED
      BY <1>1, <3>1, <3>2 DEF HunkLine, Marks
  <2> HIDE DEF u, v, r, a
  <2>3. /\ Len(u \o v) = r + a
        /\ \A i \in 1..(r + a) : (u \o v)[i] = IF i <= r THEN u[i] ELSE v[i - r]
    BY <2>1, <2>2, ConcatProperties
  <2>4. \A i \in (r + 1)..(r + a) : i \in 1..(r + a) /\ ~(i <= r) /\ i - r \in 1..a
    BY <1>1
  <2>5. \A i \in 1..r : i \in 1..(r + a) /\ i <= r
    BY <1>1
  <2> HIDE DEF lines
  <2>6. lines = u \o v
    BY DEF lines, u, v
  <2> QED
    BY <2>1, <2>2, <2>3, <2>4, <2>5, <2>6
<1>3. hunk.lines = lines
  OBVIOUS
<1> HIDE DEF lines, r, a
<1>4. /\ \A i \in 1..r : lines[i].mark = "remove" /\ lines[i].text = removed[i]
      /\ \A i \in (r + 1)..(r + a) : lines[i].mark = "add" /\ lines[i].text = added[i - r]
  <2> DEFINE R(t) == [mark |-> "remove", text |-> t]
             A(t) == [mark |-> "add", text |-> t]
  <2>1. \A t : R(t).mark = "remove" /\ R(t).text = t /\ A(t).mark = "add" /\ A(t).text = t
    OBVIOUS
  <2>2. /\ \A i \in 1..r : lines[i] = R(removed[i])
        /\ \A i \in (r + 1)..(r + a) : lines[i] = A(added[i - r])
    BY <1>2
  <2> HIDE DEF R, A
  <2>3. ASSUME NEW i \in 1..r PROVE lines[i].mark = "remove" /\ lines[i].text = removed[i]
    BY <2>1, <2>2
  <2>4. ASSUME NEW i \in (r + 1)..(r + a)
        PROVE  lines[i].mark = "add" /\ lines[i].text = added[i - r]
    BY <2>1, <2>2
  <2> QED
    BY <2>3, <2>4
<1>5. \A i \in 1..(r + a) : /\ i <= r => i \in 1..r
                            /\ ~(i <= r) => i \in (r + 1)..(r + a) /\ i - r \in 1..a
  BY <1>1
<1> DEFINE K == [i \in 0..(r + a) |-> SubSeq(removed, 1, IF i <= r THEN i ELSE r)]
           L == [i \in 0..(r + a) |-> SubSeq(added, 1, IF i <= r THEN 0 ELSE i - r)]
<1>6. /\ \A i \in 0..(r + a) : K[i] = SubSeq(removed, 1, IF i <= r THEN i ELSE r)
      /\ \A i \in 0..(r + a) : L[i] = SubSeq(added, 1, IF i <= r THEN 0 ELSE i - r)
      /\ DOMAIN K = 0..(r + a) /\ K = [i \in DOMAIN K |-> K[i]]
      /\ DOMAIN L = 0..(r + a) /\ L = [i \in DOMAIN L |-> L[i]]
  OBVIOUS
<1> HIDE DEF K, L
<1>7. K[0] = <<>> /\ L[0] = <<>>
  <2>1. 0 \in 0..(r + a) /\ 0 <= r
    BY <1>1
  <2>2. K[0] = SubSeq(removed, 1, 0) /\ L[0] = SubSeq(added, 1, 0)
    BY <1>6, <2>1
  <2> QED
    BY <2>2, SubSeqEmpty
<1>8. \A i \in 1..(r + a) :
        K[i] = IF lines[i].mark = "add" THEN K[i - 1] ELSE Append(K[i - 1], lines[i].text)
  <2> SUFFICES ASSUME NEW i \in 1..(r + a)
               PROVE  K[i] = IF lines[i].mark = "add" THEN K[i - 1]
                             ELSE Append(K[i - 1], lines[i].text)
    OBVIOUS
  <2>1. i \in 0..(r + a) /\ i - 1 \in 0..(r + a) /\ i \in Nat
    BY <1>1
  <2>2. CASE i <= r
    <3>1. i \in 1..r /\ i - 1 <= r
      BY <1>1, <1>5, <2>2
    <3>2. K[i] = SubSeq(removed, 1, i) /\ K[i - 1] = SubSeq(removed, 1, i - 1)
      BY <1>6, <2>1, <2>2, <3>1
    <3>3. SubSeq(removed, 1, i) = Append(SubSeq(removed, 1, i - 1), removed[i])
      BY <3>1, OneMore DEF r
    <3> QED
      BY <1>4, <3>1, <3>2, <3>3
  <2>3. CASE ~(i <= r)
    <3>1. i \in (r + 1)..(r + a)
      BY <1>5, <2>3
    <3>2. lines[i].mark = "add"
      BY <1>4, <3>1
    <3>3. i - 1 <= r => i - 1 = r
      BY <1>1, <2>1, <2>3
    <3>4. K[i] = SubSeq(removed, 1, r) /\ K[i - 1] = SubSeq(removed, 1, r)
      BY <1>6, <2>1, <2>3, <3>3
    <3> QED
      BY <3>2, <3>4
  <2> QED
    BY <2>2, <2>3
<1>9. \A i \in 1..(r + a) :
        L[i] = IF lines[i].mark = "remove" THEN L[i - 1] ELSE Append(L[i - 1], lines[i].text)
  <2> SUFFICES ASSUME NEW i \in 1..(r + a)
               PROVE  L[i] = IF lines[i].mark = "remove" THEN L[i - 1]
                             ELSE Append(L[i - 1], lines[i].text)
    OBVIOUS
  <2>1. i \in 0..(r + a) /\ i - 1 \in 0..(r + a) /\ i \in Nat
    BY <1>1
  <2>2. CASE i <= r
    <3>1. i \in 1..r /\ i - 1 <= r
      BY <1>1, <1>5, <2>2
    <3>2. L[i] = SubSeq(added, 1, 0) /\ L[i - 1] = SubSeq(added, 1, 0)
      BY <1>6, <2>1, <2>2, <3>1
    <3> QED
      BY <1>4, <3>1, <3>2
  <2>3. CASE ~(i <= r)
    <3>1. i \in (r + 1)..(r + a) /\ i - r \in 1..a
      BY <1>5, <2>3
    <3>2. lines[i].mark = "add" /\ lines[i].text = added[i - r]
      BY <1>4, <3>1
    <3>3. (IF i - 1 <= r THEN 0 ELSE (i - 1) - r) = (i - r) - 1
      BY <1>1, <2>1, <2>3
    <3>4. L[i] = SubSeq(added, 1, i - r) /\ L[i - 1] = SubSeq(added, 1, (i - r) - 1)
      BY <1>6, <2>1, <2>3, <3>3
    <3>5. SubSeq(added, 1, i - r) = Append(SubSeq(added, 1, (i - r) - 1), added[i - r])
      BY <3>1, OneMore DEF a
    <3> QED
      BY <3>2, <3>4, <3>5
  <2> QED
    BY <2>2, <2>3
<1>10. Keeps(K, "add", hunk.lines) /\ Keeps(L, "remove", hunk.lines)
  BY <1>2, <1>3, <1>6, <1>7, <1>8, <1>9 DEF Keeps
<1>11. Len(hunk.lines) = r + a /\ r + a \in Nat
  BY <1>1, <1>2, <1>3
<1>12. Old(hunk) = K[r + a] /\ New(hunk) = L[r + a]
  BY <1>10, <1>11, KeptIs DEF Old, New
<1>13. K[r + a] = removed /\ L[r + a] = added
  <2>1. /\ r + a \in 0..(r + a) /\ (IF r + a <= r THEN r + a ELSE r) = r
        /\ (IF r + a <= r THEN 0 ELSE (r + a) - r) = a
    BY <1>1
  <2>2. K[r + a] = SubSeq(removed, 1, r) /\ L[r + a] = SubSeq(added, 1, a)
    BY <1>6, <2>1
  <2> QED
    BY <2>2, SubSeqFull DEF r, a
<1> QED
  BY <1>12, <1>13

(* One hunk that is not stale. *)
LEMMA OneHunk ==
  ASSUME NEW file, NEW hunk
  PROVE  ApplyHunks(file, <<hunk>>) = Outcome(file, Hunk(file, Untouched, hunk))
<1> DEFINE D == [i \in 0..1 |-> IF i = 0 THEN Untouched ELSE Hunk(file, Untouched, hunk)]
<1>1. /\ D[0] = Untouched /\ D[1] = Hunk(file, Untouched, hunk)
      /\ DOMAIN D = 0..1 /\ D = [i \in DOMAIN D |-> D[i]]
  OBVIOUS
<1> HIDE DEF D
<1>2. Len(<<hunk>>) = 1 /\ <<hunk>>[1] = hunk
  OBVIOUS
<1>3. \A i \in 1..1 : D[i] = Hunk(file, D[i - 1], <<hunk>>[i])
  <2>1. \A i \in 1..1 : i = 1 /\ i - 1 = 0
    OBVIOUS
  <2> QED
    BY <1>1, <1>2, <2>1
<1>4. Applied(D, file, <<hunk>>)
  BY <1>1, <1>2, <1>3 DEF Applied
<1> QED
  BY <1>1, <1>2, <1>4, AppliedIs

(* A suggestion is the patch that removes its lines and adds the fence. *)
LEMMA SuggestionIsHunk ==
  ASSUME NEW q, IsFile(q.file), q.fence \in Seq(STRING), q.first \in Nat, q.last \in Nat,
         ApplyInline(q.file, q.first, q.last, q.fence).ok
  PROVE  ApplyPatch(q.file, <<AsHunk(q)>>) = ApplyInline(q.file, q.first, q.last, q.fence)
<1> DEFINE file == q.file
           first == q.first
           last == q.last
           lines == ProperLines(file)
           added == Suggested(q.fence)
           removed == SubSeq(file, first, last)
           hunk == AsHunk(q)
           before == SubSeq(lines, 1, first - 1)
           above == SubSeq(lines, last + 1, Len(lines))
           left == (before \o added) \o above
           result == ApplyInline(file, first, last, q.fence)
<1>0. <<>> \in Seq(STRING) /\ Len(<<>>) = 0
  BY EmptySeq
<1>1. /\ first \in Nat /\ last \in Nat /\ first # 0 /\ first <= last /\ last <= Len(lines)
      /\ result = Repaired(IF Ended(file) /\ left # <<>> THEN Append(left, Blank) ELSE left)
  <2> HIDE DEF lines
  <2>1. /\ ~(q.fence = <<>> \/ first = 0 \/ first > last) /\ ~(last > Len(lines))
        /\ result = Repaired(IF Ended(file) /\ left # <<>> THEN Append(left, Blank) ELSE left)
    BY DEF ApplyInline, Refused, lines
  <2>2. Len(lines) \in Nat
    <3>1. file \in Seq(STRING) /\ file # <<>>
      BY DEF IsFile
    <3> HIDE DEF file
    <3>2. Front(file) \in Seq(STRING)
      BY <3>1 DEF Front
    <3>3. Proper(file) \in Seq(STRING)
      BY <3>1, <3>2 DEF Proper
    <3>4. lines \in Seq(STRING)
      BY <3>3, <1>0 DEF lines, ProperLines
    <3> QED
      BY <3>4
  <2> QED
    BY <2>1, <2>2
<1>2. file \in Seq(STRING) /\ file # <<>> /\ Len(file) \in Nat
  BY DEF IsFile
<1>3. added \in Seq(STRING) /\ Len(added) \in Nat
  <2>1. added \in {<<>>, q.fence}
    BY DEF Suggested
  <2> HIDE DEF added
  <2>2. added \in Seq(STRING)
    BY <1>0, <2>1, Zenon
  <2> QED
    BY <2>2
<1>4. /\ hunk.start = first /\ hunk.old = Len(removed) /\ hunk.new = Len(added)
      /\ hunk.lines = Marked("remove", removed) \o Marked("add", added)
  BY DEF AsHunk
<1> HIDE DEF file, first, last, added, hunk, left, result, above, before
(* What is left when the last line has its end is without the blank after it. *)
<1>5. /\ ~Ended(file) => lines = file
      /\ Ended(file) => /\ lines = SubSeq(file, 1, Len(file) - 1)
                        /\ file[Len(file)] = Blank /\ lines # <<>>
  <2>1. lines # <<>>
    <3> HIDE DEF lines
    <3>1. Len(<<>>) = 0
      OBVIOUS
    <3> QED
      BY <1>1, <3>1
  <2>2. lines = Proper(file)
    BY <2>1 DEF ProperLines
  <2> HIDE DEF lines
  <2> QED
    BY <2>1, <2>2 DEF Proper, Ended, Front, Last
<1> HIDE DEF lines
<1>6. lines \in Seq(STRING) /\ Len(lines) \in Nat /\ Len(lines) <= Len(file)
  BY <1>2, <1>5
<1>7. removed \in Seq(STRING) /\ Len(removed) = last - (first - 1)
  <2>1. /\ first - 1 \in Nat /\ first - 1 <= last /\ last <= Len(file) /\ (first - 1) + 1 = first
    BY <1>1, <1>2, <1>6
  <2> QED
    BY <1>1, <1>2, <2>1, PartOf
<1> HIDE DEF removed
<1>8. Old(hunk) = removed /\ New(hunk) = added
  BY <1>3, <1>4, <1>7, MarkedApart
<1>9. hunk.old # 0 /\ Starts(hunk) = first - 1
  BY <1>1, <1>4, <1>7 DEF Starts
<1>10. WellFormed(<<hunk>>)
  <2>1. <<hunk>> # <<>> /\ DOMAIN <<hunk>> = {1} /\ <<hunk>>[1] = hunk
    OBVIOUS
  <2> QED
    BY <1>1, <1>4, <1>8, <2>1 DEF WellFormed
<1>11. Exactly(file, first - 1, removed)
  <2>1. (first - 1) + 1 = first /\ (first - 1) + Len(removed) = last /\ last <= Len(file)
    BY <1>1, <1>2, <1>6, <1>7
  <2> QED
    BY <2>1 DEF Exactly, removed
<1> DEFINE start == SubSeq(file, 1, first - 1)
           end == SubSeq(file, last + 1, Len(file))
           done == [stale |-> FALSE, cursor |-> last, result |-> (<<>> \o start) \o added]
<1>12. Hunk(file, Untouched, hunk) = done
  <2> DEFINE s == first - 1
  <2>1. /\ ~Untouched.stale /\ Untouched.cursor = 0 /\ Untouched.result = <<>>
    BY DEF Untouched
  <2>2. s \in Nat /\ s <= Len(file) /\ s + Len(removed) = last
    BY <1>1, <1>2, <1>6, <1>7
  <2>3. Starts(hunk) = s /\ Exactly(file, s, Old(hunk))
    BY <1>8, <1>9, <1>11
  <2> HIDE DEF s
  <2>4. ~(Untouched.stale \/ s < Untouched.cursor \/ s > Len(file) \/ ~Exactly(file, s, Old(hunk)))
    BY <1>2, <2>1, <2>2, <2>3
  <2>5. Hunk(file, Untouched, hunk) =
          [stale |-> FALSE, cursor |-> s + Len(Old(hunk)),
           result |-> Untouched.result \o SubSeq(file, Untouched.cursor + 1, s) \o New(hunk)]
    BY <2>3, <2>4 DEF Hunk
  <2>6. s + Len(Old(hunk)) = last /\ Untouched.cursor + 1 = 1
    BY <1>8, <2>1, <2>2
  <2> QED
    BY <1>8, <2>1, <2>5, <2>6 DEF s
<1>13. start \in Seq(STRING) /\ end \in Seq(STRING)
  <2>1. first - 1 \in Nat /\ first - 1 <= Len(file)
    BY <1>1, <1>2, <1>6
  <2> QED
    BY <1>1, <1>2, <2>1
<1> HIDE DEF start, end
<1>14. ApplyPatch(file, <<hunk>>) = Repaired((start \o added) \o end)
  <2>1. <<>> \o start = start
    BY <1>13
  <2>2. ~done.stale /\ done.cursor = last /\ done.result = start \o added
    BY <2>1
  <2> HIDE DEF done
  <2>3. Outcome(file, done) = Repaired((start \o added) \o end)
    BY <2>2 DEF Outcome, end
  <2> QED
    BY <1>10, <1>12, <2>3, OneHunk DEF ApplyPatch
<1>15. CASE ~Ended(file)
  <2>1. before = start /\ above = end
    BY <1>5, <1>15 DEF before, above, start, end
  <2> QED
    BY <1>1, <1>14, <1>15, <2>1 DEF left, result, file, first, last, hunk
<1>16. CASE Ended(file)
  <2>0. Blank \in STRING
    <3>1. Len(file) \in 1..Len(file)
      BY <1>1, <1>2, <1>6
    <3>2. file[Len(file)] \in STRING
      BY <1>2, <3>1, ElementOfSeq
    <3> QED
      BY <1>5, <1>16, <3>2
  <2>1. Len(lines) = Len(file) - 1 /\ \A i \in 1..Len(lines) : lines[i] = file[i]
    BY <1>2, <1>5, <1>16
  <2>2. before = start
    <3>1. /\ start \in Seq(STRING) /\ Len(start) = first - 1
          /\ \A i \in 1..(first - 1) : start[i] = file[i]
      BY <1>1, <1>2, <1>6 DEF start
    <3>2. /\ before \in Seq(STRING) /\ Len(before) = first - 1
          /\ \A i \in 1..(first - 1) : before[i] = lines[i]
      BY <1>1, <1>2, <1>6 DEF before
    <3>3. \A i \in 1..(first - 1) : lines[i] = file[i]
      BY <1>1, <1>2, <1>6, <2>1
    <3> QED
      BY <3>1, <3>2, <3>3, SeqEqual
  <2>3. end = Append(above, Blank) /\ above \in Seq(STRING)
    <3> DEFINE n == Len(lines)
    <3>1. n \in Nat /\ last \in Nat /\ last <= n /\ Len(file) = n + 1
      BY <1>1, <1>2, <1>6, <2>1
    <3>2. /\ above \in Seq(STRING) /\ Len(above) = n - last
          /\ \A i \in 1..(n - last) : above[i] = lines[last + i]
      BY <1>6, <3>1 DEF above
    <3>3. /\ end \in Seq(STRING) /\ Len(end) = (n + 1) - last
          /\ \A i \in 1..((n + 1) - last) : end[i] = file[last + i]
      BY <1>2, <3>1 DEF end
    <3>4. /\ Append(above, Blank) \in Seq(STRING) /\ Len(Append(above, Blank)) = (n + 1) - last
          /\ \A i \in 1..((n + 1) - last) :
               Append(above, Blank)[i] = IF i <= n - last THEN above[i] ELSE Blank
      BY <2>0, <3>1, <3>2
    <3>5. file[n + 1] = Blank
      BY <1>5, <1>16, <3>1
    <3> HIDE DEF n
    <3>6. \A i \in 1..((n + 1) - last) : Append(above, Blank)[i] = end[i]
      <4> SUFFICES ASSUME NEW i \in 1..((n + 1) - last) PROVE Append(above, Blank)[i] = end[i]
        OBVIOUS
      <4>1. CASE i <= n - last
        <5>1. i \in 1..(n - last) /\ last + i \in 1..n
          BY <3>1, <4>1
        <5> QED
          BY <2>1, <3>2, <3>3, <3>4, <4>1, <5>1 DEF n
      <4>2. CASE ~(i <= n - last)
        <5>1. last + i = n + 1
          BY <3>1, <4>2
        <5> QED
          BY <3>3, <3>4, <3>5, <4>2, <5>1
      <4> QED
        BY <4>1, <4>2
    <3>7. Append(above, Blank) = end
      BY <3>3, <3>4, <3>6, SeqEqual
    <3> QED
      BY <3>2, <3>7
  <2>4. (start \o added) \o end = Append(left, Blank)
    <3>1. \A a, b, c \in Seq(STRING) : \A x \in STRING : (a \o b) \o Append(c, x) = Append((a \o b) \o c, x)
      BY AppendInMiddle
    <3>2. (before \o added) \o Append(above, Blank) = Append((before \o added) \o above, Blank)
      BY <1>3, <1>13, <2>0, <2>2, <2>3, <3>1
    <3> QED
      BY <2>2, <2>3, <3>2 DEF left
  <2>5. left = <<>> => Append(left, Blank) = <<Blank>>
    OBVIOUS
  <2>6. left \in Seq(STRING)
    BY <1>3, <1>13, <2>2, <2>3 DEF left
  <2>7. Append(left, Blank) # <<>>
    <3>1. Len(Append(left, Blank)) = Len(left) + 1 /\ Len(left) \in Nat
      BY <2>0, <2>6, AppendProperties
    <3>2. Len(Append(left, Blank)) # Len(<<>>)
      BY <1>0, <3>1
    <3> QED
      BY <3>2, Zenon
  <2>8. ApplyPatch(file, <<hunk>>) = result
    BY <1>1, <1>14, <1>16, <2>4, <2>5, <2>7 DEF Repaired
  <2> QED
    BY <2>8 DEF result, file, first, last, hunk
<1> QED
  BY <1>15, <1>16

-----------------------------------------------------------------------------
(* Stacks. *)

LEMMA PartitionIsApart ==
  ASSUME NEW prs, OpenSet(prs)
  PROVE  StacksAreApart(prs, Partition(prs))
<1> DEFINE N == Numbers(prs)
           C(n) == Component(prs, n)
<1>1. /\ \A p \in prs : p.number \in N /\ Get(prs, p.number) = p
      /\ \A n \in N : Get(prs, n) \in prs /\ Get(prs, n).number = n
  BY NumbersOf
<1>2. \A n \in N : /\ n \in Numbers(C(n)) /\ Numbers(C(n)) \subseteq N /\ C(n) \subseteq prs
                   /\ C(n) = {pr \in prs : pr.number \in Numbers(C(n))}
                   /\ Closed(prs, Numbers(C(n)))
                   /\ \A S : n \in S /\ Closed(prs, S) => Numbers(C(n)) \subseteq S
  BY ComponentIsClosed
<1>3. \A n \in N : \A p \in C(n) : p.number \in N /\ C(p.number) = C(n)
  BY SameComponent DEF Numbers
<1>4. \A p \in prs : p \in C(p.number)
  BY <1>1, <1>2
(* An edge between two is found from both of its ends. *)
<1>5. \A p, q \in prs : Joined(prs, p, q) => q.number \in Adjacent(prs, p.number)
  BY <1>1 DEF Joined, Adjacent
<1>6. \A p, q \in prs : q.number \in Adjacent(prs, p.number) => Joined(prs, p, q)
  BY <1>1 DEF Joined, Adjacent, OpenSet
<1> HIDE DEF C, N
<1>7. Partition(prs) = {C(n) : n \in N}
  BY DEF Partition, C, N
<1>8. UNION Partition(prs) = prs
  BY <1>1, <1>2, <1>4, <1>7
<1>9. {} \notin Partition(prs)
  BY <1>1, <1>2, <1>4, <1>7
<1>10. ASSUME NEW a \in Partition(prs), NEW b \in Partition(prs), NEW p \in a, NEW q \in b,
              p = q \/ Joined(prs, p, q)
       PROVE  a = b
  <2>1. PICK n \in N, m \in N : a = C(n) /\ b = C(m)
    BY <1>7
  <2>2. p \in prs /\ q \in prs
    BY <1>2, <2>1
  <2>3. q.number \in Numbers(C(n))
    <3>1. p.number \in Numbers(C(n))
      BY <2>1 DEF Numbers
    <3> QED
      BY <1>2, <1>5, <1>10, <2>2, <3>1 DEF Closed
  <2>4. q \in C(n)
    BY <1>2, <2>2, <2>3
  <2> QED
    BY <1>3, <2>1, <2>4
<1>11. ASSUME NEW a \in Partition(prs), NEW half \in (SUBSET a) \ {{}, a}
       PROVE  \E p \in half, q \in a \ half : Joined(prs, p, q)
  <2> SUFFICES ASSUME \A p \in half, q \in a \ half : ~Joined(prs, p, q) PROVE FALSE
    OBVIOUS
  <2>1. PICK n \in N : a = C(n)
    BY <1>7
  <2>2. PICK p \in half : TRUE
    BY <1>11
  <2>3. p \in prs /\ half \subseteq prs /\ a \subseteq prs
    BY <1>2, <2>1
  <2>4. Closed(prs, Numbers(half))
    <3> SUFFICES ASSUME NEW s \in half, NEW k \in Adjacent(prs, s.number) PROVE k \in Numbers(half)
      BY DEF Closed, Numbers
    <3>1. s.number \in Numbers(C(n)) /\ s \in prs
      BY <2>1, <2>3 DEF Numbers
    <3>2. k \in Numbers(C(n))
      BY <1>2, <3>1 DEF Closed
    <3>3. PICK q \in a : q.number = k
      BY <2>1, <3>2 DEF Numbers
    <3>4. Joined(prs, s, q)
      BY <1>6, <2>3, <3>1, <3>3
    <3>5. q \in half
      BY <3>4
    <3> QED
      BY <3>3, <3>5 DEF Numbers
  <2>5. p.number \in Numbers(half) /\ p.number \in N /\ C(p.number) = a
    BY <1>3, <2>1, <2>2 DEF Numbers
  <2>6. Numbers(a) \subseteq Numbers(half)
    BY <1>2, <2>4, <2>5
  <2>7. a \subseteq half
    BY <2>3, <2>6 DEF OpenSet, Numbers
  <2> QED
    BY <1>11, <2>7
<1> QED
  BY <1>8, <1>9, <1>10, <1>11 DEF StacksAreApart

(* The only candidate for a parent is the parent. *)
LEMMA LineIsOrder ==
  ASSUME NEW prs, OpenSet(prs), NEW order \in Orders(prs), IsLine(prs, order)
  PROVE  IsOrder(Parents(prs), order) /\ \A pr \in prs : ~BadParent(prs, pr)
<1> DEFINE N == Numbers(prs)
           n == Cardinality(prs)
           heads(i) == Heads(prs, Get(prs, order[i]).base)
<1>1. /\ IsFiniteSet(N) /\ Cardinality(N) = n /\ n \in Nat /\ NoParent \notin N
      /\ \A m \in N : Get(prs, m) \in prs /\ Get(prs, m).number = m
      /\ \A p \in prs : p.number \in N /\ Get(prs, p.number) = p
  BY NumbersOf, FS_CardinalityType
<1> HIDE DEF N, n
<1>2. order \in [1..n -> N] /\ \A i, k \in 1..n : order[i] = order[k] => i = k
  BY DEF Orders, IsInjective, N, n
<1>3. \A m \in N : \E i \in 1..n : order[i] = m
  <2>1. order \in Injection(1..n, N)
    BY <1>2 DEF Injection, IsInjective
  <2>2. Cardinality(1..n) = Cardinality(N)
    BY <1>1, FS_Interval
  <2>3. order \in Surjection(1..n, N)
    BY <1>1, <2>1, <2>2, FS_Injection
  <2> QED
    BY <2>3 DEF Surjection
<1>4. ASSUME NEW i \in 1..n
      PROVE  /\ Parents(prs)[order[i]] = IF i = 1 THEN NoParent ELSE order[i - 1]
             /\ ~BadParent(prs, Get(prs, order[i]))
  <2> DEFINE pr == Get(prs, order[i])
             below == IF i = 1 THEN {} ELSE {order[i - 1]}
  <2>1. order[i] \in N /\ pr \in prs /\ (i # 1 => i - 1 \in 1..n /\ order[i - 1] \in N)
    BY <1>1, <1>2
  <2>2. IF pr.parent = NoParent THEN Numbers(heads(i)) = below
        ELSE pr.parent \in below /\ Numbers(heads(i)) \subseteq below
    BY <1>2 DEF IsLine
  <2>3. Parents(prs)[order[i]] =
          IF pr.parent # NoParent THEN pr.parent
          ELSE IF heads(i) # {} THEN (CHOOSE h \in heads(i) : TRUE).number ELSE NoParent
    BY <2>1 DEF Parents, N
  <2>4. heads(i) \subseteq prs
    BY DEF Heads
  <2>5. BadParent(prs, pr) <=>
          \/ Cardinality(heads(i)) > 1
          \/ pr.parent # NoParent /\ (pr.parent \notin N \/ ~(Numbers(heads(i)) \subseteq {pr.parent}))
    BY DEF BadParent, N
  <2> HIDE DEF pr, heads
  <2>6. Cardinality(heads(i)) \in {0, 1}
    <3>1. CASE heads(i) = {}
      BY <3>1, FS_EmptySet
    <3>2. CASE heads(i) # {}
      <4>1. PICK h \in heads(i) : TRUE
        BY <3>2
      <4>2. \A k \in heads(i) : k.number \in below
        BY <2>2 DEF Numbers
      <4>3. \A k \in heads(i) : k.number = h.number
        BY <4>1, <4>2
      <4>4. \A k \in heads(i) : k = h
        BY <2>4, <4>1, <4>3 DEF OpenSet
      <4>5. heads(i) = {h}
        BY <4>1, <4>4
      <4> QED
        BY <4>5, FS_Singleton
    <3> QED
      BY <3>1, <3>2
  <2>7. ~BadParent(prs, pr)
    BY <2>1, <2>2, <2>5, <2>6
  <2>8. CASE pr.parent # NoParent
    BY <2>2, <2>3, <2>7, <2>8 DEF pr
  <2>9. CASE pr.parent = NoParent
    <3>1. heads(i) = {} <=> i = 1
      BY <2>2, <2>9 DEF Numbers
    <3>2. \A h \in heads(i) : i # 1 => h.number = order[i - 1]
      BY <2>2, <2>9 DEF Numbers
    <3> QED
      BY <2>3, <2>7, <2>9, <3>1, <3>2 DEF pr
  <2> QED
    BY <2>8, <2>9
<1>5. DOMAIN Parents(prs) = N
  BY DEF Parents, N
<1>6. IsOrder(Parents(prs), order)
  BY <1>1, <1>2, <1>3, <1>4, <1>5 DEF IsOrder
<1>7. \A pr \in prs : ~BadParent(prs, pr)
  BY <1>1, <1>3, <1>4
<1> QED
  BY <1>6, <1>7

LEMMA OrderIsLine ==
  ASSUME NEW prs, OpenSet(prs), NEW order, IsOrder(Parents(prs), order),
         \A pr \in prs : ~BadParent(prs, pr)
  PROVE  order \in Orders(prs) /\ IsLine(prs, order)
<1> DEFINE N == Numbers(prs)
           n == Cardinality(prs)
           heads(i) == Heads(prs, Get(prs, order[i]).base)
<1>1. /\ IsFiniteSet(N) /\ Cardinality(N) = n /\ n \in Nat /\ NoParent \notin N
      /\ \A m \in N : Get(prs, m) \in prs /\ Get(prs, m).number = m
      /\ \A p \in prs : p.number \in N /\ Get(prs, p.number) = p
  BY NumbersOf, FS_CardinalityType
<1> HIDE DEF N, n
<1>2. DOMAIN Parents(prs) = N
  BY DEF Parents, N
<1>3. /\ order \in [1..n -> N] /\ \A i, k \in 1..n : order[i] = order[k] => i = k
      /\ \A i \in 1..n : Parents(prs)[order[i]] = IF i = 1 THEN NoParent ELSE order[i - 1]
  BY <1>1, <1>2 DEF IsOrder
<1>4. order \in Orders(prs)
  BY <1>3 DEF Orders, IsInjective, N, n
<1>5. ASSUME NEW i \in 1..n
      PROVE  LET pr == Get(prs, order[i])
                 below == IF i = 1 THEN {} ELSE {order[i - 1]}
             IN IF pr.parent = NoParent
                THEN Numbers(Heads(prs, pr.base)) = below
                ELSE pr.parent \in below /\ Numbers(Heads(prs, pr.base)) \subseteq below
  <2> DEFINE pr == Get(prs, order[i])
             below == IF i = 1 THEN {} ELSE {order[i - 1]}
  <2>1. order[i] \in N /\ pr \in prs
    BY <1>1, <1>3
  <2>2. Parents(prs)[order[i]] =
          IF pr.parent # NoParent THEN pr.parent
          ELSE IF heads(i) # {} THEN (CHOOSE h \in heads(i) : TRUE).number ELSE NoParent
    BY <2>1 DEF Parents, N
  <2>3. heads(i) \subseteq prs /\ IsFiniteSet(heads(i)) /\ Cardinality(heads(i)) \in Nat
    <3>1. heads(i) \subseteq prs
      BY DEF Heads
    <3> QED
      BY <3>1, FS_Subset, FS_CardinalityType DEF OpenSet
  <2>4. ~BadParent(prs, pr)
    BY <2>1
  <2>5. ~(Cardinality(heads(i)) > 1)
    BY <2>4 DEF BadParent
  <2>6. pr.parent # NoParent => Numbers(heads(i)) \subseteq {pr.parent}
    BY <2>4 DEF BadParent
  <2>7. Numbers(Heads(prs, pr.base)) = Numbers(heads(i))
    OBVIOUS
  <2>8. Parents(prs)[order[i]] = IF i = 1 THEN NoParent ELSE order[i - 1]
    BY <1>3
  <2> HIDE DEF pr, heads
  <2>9. heads(i) = {} \/ \E h \in prs : heads(i) = {h}
    <3>1. CASE Cardinality(heads(i)) = 0
      BY <2>3, <3>1, FS_EmptySet
    <3>2. CASE Cardinality(heads(i)) = 1
      BY <2>3, <3>2, FS_Singleton
    <3> QED
      BY <2>3, <2>5, <3>1, <3>2
  <2>10. CASE pr.parent # NoParent
    <3>1. pr.parent = IF i = 1 THEN NoParent ELSE order[i - 1]
      BY <2>2, <2>8, <2>10
    <3> QED
      BY <2>6, <2>7, <2>10, <3>1 DEF pr
  <2>11. CASE pr.parent = NoParent
    <3>1. CASE heads(i) = {}
      <4>1. i = 1
        BY <1>1, <1>3, <2>2, <2>8, <2>11, <3>1
      <4> QED
        BY <2>7, <2>11, <3>1, <4>1 DEF pr, Numbers
    <3>2. CASE heads(i) # {}
      <4>1. PICK h \in prs : heads(i) = {h}
        BY <2>9, <3>2
      <4>2. Parents(prs)[order[i]] = h.number
        BY <2>2, <2>11, <4>1
      <4>3. h.number # NoParent
        BY DEF OpenSet
      <4>4. i # 1 /\ order[i - 1] = h.number
        BY <2>8, <4>2, <4>3
      <4>5. Numbers(heads(i)) = {h.number}
        BY <4>1 DEF Numbers
      <4> QED
        BY <2>7, <2>11, <4>4, <4>5 DEF pr
    <3> QED
      BY <3>1, <3>2
  <2> QED
    BY <2>10, <2>11
<1>6. DOMAIN order = 1..n
  BY <1>3
<1>7. IsLine(prs, order)
  BY <1>5, <1>6 DEF IsLine
<1> QED
  BY <1>4, <1>7

(* When the updates are made, every base is the head of the pull request below. *)
LEMMA UpdatesMakeAChain ==
  ASSUME NEW prs, OpenSet(prs), NEW plan, plan.order \in Orders(prs), IsLine(prs, plan.order),
         plan.updates = BaseUpdates(prs)
  PROVE  PlanMakesAChain(prs, plan)
<1> DEFINE N == Numbers(prs)
           n == Cardinality(prs)
           order == plan.order
           updates == BaseUpdates(prs)
<1>1. /\ n \in Nat /\ \A m \in N : Get(prs, m) \in prs /\ Get(prs, m).number = m
      /\ \A p \in prs : p.number \in N /\ Get(prs, p.number) = p
  BY NumbersOf, FS_CardinalityType DEF OpenSet
<1> HIDE DEF N, n
<1>2. order \in [1..n -> N] /\ DOMAIN order = 1..n
  BY DEF Orders, N, n
<1>3. \A u \in updates :
        \E p \in prs : /\ p.parent # NoParent /\ u.number = p.number /\ u.from = p.base
                       /\ u.to = Get(prs, p.parent).head /\ u.to # u.from
  BY DEF BaseUpdates
<1>4. ASSUME NEW p \in prs, p.parent # NoParent, p.base # Get(prs, p.parent).head
      PROVE  \E u \in updates : u.number = p.number
  <2> DEFINE u == [number |-> p.number, from |-> p.base, to |-> Get(prs, p.parent).head]
  <2>1. u \in updates
    BY <1>4 DEF BaseUpdates
  <2> QED
    BY <2>1
<1> HIDE DEF updates
<1>5. \A u \in updates : u.from = Get(prs, u.number).base /\ u.to # u.from
  BY <1>1, <1>3
<1>6. ASSUME NEW i \in 1..n
      PROVE  LET pr == Get(prs, order[i])
                 base == Rebased(pr, updates)
             IN IF i = 1 THEN Heads(prs, base) = {} ELSE base = Get(prs, order[i - 1]).head
  <2> DEFINE pr == Get(prs, order[i])
             heads == Heads(prs, pr.base)
             below == IF i = 1 THEN {} ELSE {order[i - 1]}
  <2>1. pr \in prs /\ (i # 1 => order[i - 1] \in N)
    BY <1>1, <1>2
  <2>2. IF pr.parent = NoParent THEN Numbers(heads) = below
        ELSE pr.parent \in below /\ Numbers(heads) \subseteq below
    BY <1>2 DEF IsLine
  <2>3. \A h \in heads : h \in prs /\ h.head = pr.base
    BY DEF Heads
  <2> HIDE DEF order, pr, heads
  <2>4. CASE pr.parent = NoParent
    <3>1. ~\E u \in updates : u.number = pr.number
      BY <1>3, <2>1, <2>4 DEF OpenSet
    <3>2. Rebased(pr, updates) = pr.base
      BY <3>1 DEF Rebased
    <3>3. i = 1 => heads = {}
      BY <2>2, <2>4 DEF Numbers
    <3>4. i # 1 => \E h \in heads : h.number = order[i - 1]
      BY <2>2, <2>4 DEF Numbers
    <3>5. i # 1 => Get(prs, order[i - 1]).head = pr.base
      BY <1>1, <2>3, <3>4
    <3> QED
      BY <3>2, <3>3, <3>5 DEF pr, heads
  <2>5. CASE pr.parent # NoParent
    <3>1. i # 1 /\ pr.parent = order[i - 1]
      BY <2>2, <2>5
    <3>2. \A u \in updates : u.number = pr.number => u.to = Get(prs, order[i - 1]).head
      BY <1>3, <2>1, <3>1 DEF OpenSet
    <3>3. CASE \E u \in updates : u.number = pr.number
      <4>1. Rebased(pr, updates) = (CHOOSE u \in updates : u.number = pr.number).to
        BY <3>3 DEF Rebased
      <4> QED
        BY <3>1, <3>2, <3>3, <4>1 DEF pr
    <3>4. CASE ~\E u \in updates : u.number = pr.number
      <4>1. Rebased(pr, updates) = pr.base
        BY <3>4 DEF Rebased
      <4> QED
        BY <1>4, <2>1, <2>5, <3>1, <3>4, <4>1 DEF pr
    <3> QED
      BY <3>3, <3>4
  <2> QED
    BY <2>4, <2>5
<1> QED
  BY <1>2, <1>5, <1>6 DEF PlanMakesAChain, updates

(* One stack, its plan, and the only order there can be. *)
LEMMA PlanIsLine ==
  ASSUME NEW prs, OpenSet(prs), prs # {}
  PROVE  LET plan == PlanStack(SetToSeq(prs)) IN
         /\ plan.ok <=> \E o \in Orders(prs) : IsLine(prs, o)
         /\ plan.ok => PlanMakesAChain(prs, plan)
<1> DEFINE list == SetToSeq(prs)
           plan == PlanStack(list)
           parents == Parents(prs)
<1>1. {list[i] : i \in DOMAIN list} = prs /\ \A i, k \in DOMAIN list : list[i] = list[k] => i = k
  BY ListOfSet DEF OpenSet
<1> HIDE DEF list
<1>2. IsFiniteSet(DOMAIN parents) /\ NoParent \notin DOMAIN parents /\ DOMAIN parents # {}
  <2>1. DOMAIN parents = Numbers(prs)
    BY DEF Parents
  <2> HIDE DEF parents
  <2> QED
    BY <2>1, NumbersOf DEF Numbers
<1>3. ASSUME NEW o \in Orders(prs), IsLine(prs, o) PROVE plan.ok
  <2>1. IsOrder(parents, o) /\ \A pr \in prs : ~BadParent(prs, pr)
    BY <1>3, LineIsOrder
  <2>2. MergeOrder(parents) = o /\ ~NotALine(parents, o) /\ ~Cyclic(parents)
    <3> HIDE DEF parents
    <3> QED
      BY <1>2, <2>1, OrderIsMergeOrder, OrderIsNoCycle
  <2> QED
    BY <1>1, <2>1, <2>2, PlanOfList
<1>4. ASSUME plan.ok PROVE PlanMakesAChain(prs, plan) /\ \E o \in Orders(prs) : IsLine(prs, o)
  <2>1. /\ IsOrder(parents, plan.order) /\ \A pr \in prs : ~BadParent(prs, pr)
        /\ plan.updates = BaseUpdates(prs)
    BY <1>1, <1>4, PlanIsOrder
  <2> HIDE DEF plan
  <2>2. plan.order \in Orders(prs) /\ IsLine(prs, plan.order)
    BY <2>1, OrderIsLine
  <2> QED
    BY <2>1, <2>2, UpdatesMakeAChain
<1> QED
  BY <1>3, <1>4 DEF list

PlannedStacks(prs) ==
  {[part |-> part, plan |-> PlanStack(SetToSeq(part))] : part \in Partition(prs)}
ArePlanned(prs, stacks) ==
  /\ StacksAreApart(prs, {s.part : s \in stacks})
  /\ \A s \in stacks :
       /\ s.plan.ok <=> \E o \in Orders(s.part) : IsLine(s.part, o)
       /\ s.plan.ok => PlanMakesAChain(s.part, s.plan)

LEMMA StacksArePlanned ==
  ASSUME NEW prs, OpenSet(prs)
  PROVE  ArePlanned(prs, PlannedStacks(prs))
<1> DEFINE parts == Partition(prs)
           Row(part) == [part |-> part, plan |-> PlanStack(SetToSeq(part))]
<1>1. StacksAreApart(prs, parts)
  BY PartitionIsApart
<1>2. ASSUME NEW part \in parts
      PROVE  LET plan == PlanStack(SetToSeq(part)) IN
             /\ plan.ok <=> \E o \in Orders(part) : IsLine(part, o)
             /\ plan.ok => PlanMakesAChain(part, plan)
  <2>1. part \subseteq prs /\ part # {}
    BY <1>1 DEF StacksAreApart
  <2>2. OpenSet(part)
    BY <2>1, FS_Subset DEF OpenSet
  <2> QED
    BY <2>1, <2>2, PlanIsLine
<1>3. \A part : Row(part).part = part /\ Row(part).plan = PlanStack(SetToSeq(part))
  OBVIOUS
<1>4. PlannedStacks(prs) = {Row(part) : part \in parts}
  BY DEF PlannedStacks
<1> HIDE DEF Row, parts
<1>5. {s.part : s \in PlannedStacks(prs)} = parts
  BY <1>3, <1>4
<1>6. ASSUME NEW s \in PlannedStacks(prs)
      PROVE  /\ s.plan.ok <=> \E o \in Orders(s.part) : IsLine(s.part, o)
             /\ s.plan.ok => PlanMakesAChain(s.part, s.plan)
  <2>1. PICK part \in parts : s = Row(part)
    BY <1>4
  <2>2. s.part = part /\ s.plan = PlanStack(SetToSeq(part))
    BY <1>3, <2>1
  <2> QED
    BY <1>2, <2>2
<1>7. StacksAreApart(prs, {s.part : s \in PlannedStacks(prs)})
  BY <1>1, <1>5
<1> QED
  BY <1>6, <1>7 DEF ArePlanned

-----------------------------------------------------------------------------
(* The results. *)

(* What is asked stays, and its answer is what was computed from it. *)
AnswersFollow ==
  /\ asked.kind = "stacks" =>
       /\ OpenSet(asked.of)
       /\ answer \in {<<>>, <<PlannedStacks(asked.of)>>}
  /\ asked.kind = "patch" =>
       /\ IsFile(asked.of.file) /\ asked.of.hunks \in Seq(HunkOf(STRING))
       /\ answer \in {<<>>, <<ApplyPatch(asked.of.file, asked.of.hunks)>>}
  /\ asked.kind = "inline" =>
       /\ IsFile(asked.of.file) /\ asked.of.fence \in Seq(STRING)
       /\ asked.of.first \in Nat /\ asked.of.last \in Nat
       /\ answer \in {<<>>, <<ApplyInline(asked.of.file, asked.of.first, asked.of.last,
                                          asked.of.fence)>>}
  /\ asked.kind = "ready" =>
       /\ IsReadSet(asked.of.data)
       /\ answer \in {<<>>, <<Reasons(asked.of.data, asked.of.policy, asked.of.eligible)>>}
  /\ asked.kind = "repair" =>
       answer \in {<<>>, <<CommitRepair(asked.of.head, asked.of.ignored, asked.of.allowed,
                                        asked.of.patches, asked.of.valid)>>}

LEMMA Followed == Spec => []AnswersFollow
<1>1. Init => AnswersFollow
  BY OpenSetsAssumption, TextsAssumption, ReadSetsAssumption DEF Init, Asks, AnswersFollow
<1>2. ASSUME AnswersFollow, [Next]_vars PROVE AnswersFollow'
  BY <1>2 DEF AnswersFollow, Next, vars, PlanStacks, PlannedStacks, Patch, Suggest, Evaluate, Repair, Answers
<1> QED
  BY <1>1, <1>2, PTL DEF Spec

(* Open pull requests are split exactly along their stacks, and a stack is planned just when
   there is one order for it, which its updates make a chain: the search over both ends of
   the edges finds a whole component, and the climb along the only child finds the only
   order (StackPlanner::partition, StackPlanner::plan). *)
THEOREM PlansAreStacks == Spec => []PlanIsTheStack
<1>1. ASSUME AnswersFollow, Answered("stacks") PROVE ArePlanned(asked.of, answer[1])
  BY <1>1, StacksArePlanned DEF AnswersFollow, Answered
<1>2. AnswersFollow => PlanIsTheStack
  BY <1>1 DEF PlanIsTheStack, ArePlanned
<1> QED
  BY <1>2, Followed, PTL

(* A pull request without a reason against it has its required checks passed by their
   newest runs, its approvals as the last word of their authors on this head, and its
   automation comments dealt with (evaluate, check_records, latest_review_reviews). *)
THEOREM ReadyIsAlwaysReported == Spec => []ReadyMeansReported
<1>1. AnswersFollow => ReadyMeansReported
  BY ReadyIsReported DEF AnswersFollow, ReadyMeansReported, Answered
<1> QED
  BY <1>1, Followed, PTL

(* Whatever the patches of a CI repair do to the tree, what is committed is what they
   declare and the policy allows, and the worktree that was validated is what is committed
   (validate_patch_set, validate_staged_paths, ensure_staged_paths). *)
THEOREM CommitsStayInBounds == Spec => []CommitStaysInBounds
<1>1. AnswersFollow => CommitStaysInBounds
  BY CommitIsInBounds DEF AnswersFollow, CommitStaysInBounds, Answered
<1> QED
  BY <1>1, Followed, PTL

(* An accepted patch changes what its headers name and nothing else, for it can be taken
   back hunk by hunk, in the lines that the earlier hunks have moved; and a suggestion is
   such a patch for its range of lines, with or without an end of the last one
   (parse_unified_patch, apply_hunks, apply_inline_suggestion). *)
THEOREM RepairsAreExact == Spec => []RepairIsExact
<1>1. ASSUME AnswersFollow, Answered("patch"), answer[1].ok, answer[1].file # <<Blank>>
      PROVE  LET back == ApplyPatch(answer[1].file, Reversed(asked.of.hunks)) IN
             back.ok /\ back.file = asked.of.file
  <2>1. /\ asked.of.file \in Seq(STRING) /\ asked.of.file # <<>>
        /\ asked.of.hunks \in Seq(HunkOf(STRING))
        /\ answer[1] = ApplyPatch(asked.of.file, asked.of.hunks)
    BY <1>1 DEF AnswersFollow, Answered, IsFile
  <2> QED
    BY <1>1, <2>1, PatchTakenBack
<1>2. ASSUME AnswersFollow, Answered("inline"), answer[1].ok
      PROVE  ApplyPatch(asked.of.file, <<AsHunk(asked.of)>>) = answer[1]
  <2>1. /\ IsFile(asked.of.file) /\ asked.of.fence \in Seq(STRING)
        /\ asked.of.first \in Nat /\ asked.of.last \in Nat
        /\ answer[1] = ApplyInline(asked.of.file, asked.of.first, asked.of.last, asked.of.fence)
    BY <1>2 DEF AnswersFollow, Answered
  <2> QED
    BY <1>2, <2>1, SuggestionIsHunk
<1>3. AnswersFollow => RepairIsExact
  BY <1>1, <1>2 DEF RepairIsExact, PatchIsReversible, InlineIsHunk
<1> QED
  BY <1>3, Followed, PTL

=============================================================================
