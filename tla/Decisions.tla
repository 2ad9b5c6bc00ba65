----------------------------- MODULE Decisions -----------------------------
(***************************************************************************)
(* The decisions that the handlers of the other modules take as given: how *)
(* open pull requests form stacks, what a suggestion makes of a file,      *)
(* whether a pull request is ready, and what a CI repair may commit.  Each *)
(* is a function of what was read; this module asks it about every input   *)
(* of an instance and says what the answer means to those who asked.       *)
(***************************************************************************)
EXTENDS StackPlanner, Patching, Readiness, RepairCommit, SequencesExt, Functions

CONSTANTS
  OpenSets,  \* sets of open pull requests with what the policy declares
  Patches,   \* [file, hunks]
  Inlines,   \* [file, first, last, fence]
  ReadSets,  \* sets of [data, policy, eligible]
  Repairs    \* [head, ignored, allowed, patches, valid]

(* What a read of GitHub returns: no two statuses, runs or reviews have the same id. *)
Listed(items) ==
  /\ IsFiniteSet(items) /\ \A x \in items : x.id \in Nat
  /\ \A x, y \in items : x.id = y.id => x = y
IsReadSet(d) ==
  /\ d.mergeable \in {"yes", "no", "unknown"} /\ d.protection.approvals \in Nat
  /\ Listed(d.statuses) /\ Listed(d.runs) /\ Listed(d.reviews)
  /\ \A r \in d.reviews : /\ r.at \in Nat /\ r.commit \in {"none", "head", "old"}
                          /\ r.state \in Decisive \union {"COMMENTED"}

(* What split and parse_unified_patch make of texts of any form. *)
IsFile(file) == file \in Seq(STRING) /\ file # <<>>
HunkOf(Text) == [start : Nat, old : Nat, new : Nat, lines : Seq(HunkLine(Text))]

ASSUME TextsAssumption ==
  /\ \A q \in Patches : IsFile(q.file) /\ q.hunks \in Seq(HunkOf(STRING))
  /\ \A q \in Inlines : /\ IsFile(q.file) /\ q.fence \in Seq(STRING)
                        /\ q.first \in Nat /\ q.last \in Nat
ASSUME OpenSetsAssumption == \A prs \in OpenSets : OpenSet(prs)
ASSUME ReadSetsAssumption == \A some \in ReadSets : \A q \in some : IsReadSet(q.data)

VARIABLES
  asked,  \* [kind, of]
  answer  \* <<>>, or the one answer

vars == <<asked, answer>>

Asks(kind, Questions) == \E q \in Questions : asked = [kind |-> kind, of |-> q]

Init ==
  /\ \/ Asks("stacks", OpenSets) \/ Asks("patch", Patches) \/ Asks("inline", Inlines)
     \/ (\E some \in ReadSets : Asks("ready", some)) \/ Asks("repair", Repairs)
  /\ answer = <<>>

Answers(kind, value) ==
  /\ asked.kind = kind /\ answer = <<>>
  /\ answer' = <<value>>
  /\ UNCHANGED asked

(* What enqueue_follow_up_jobs plans for each of the stacks. *)
PlanStacks ==
  Answers("stacks", {[part |-> part, plan |-> PlanStack(SetToSeq(part))] :
                       part \in Partition(asked.of)})

Patch == Answers("patch", ApplyPatch(asked.of.file, asked.of.hunks))
Suggest ==
  Answers("inline", ApplyInline(asked.of.file, asked.of.first, asked.of.last, asked.of.fence))
Evaluate ==
  Answers("ready", Reasons(asked.of.data, asked.of.policy, asked.of.eligible))
Repair ==
  Answers("repair", CommitRepair(asked.of.head, asked.of.ignored, asked.of.allowed,
                                 asked.of.patches, asked.of.valid))

Next == PlanStacks \/ Patch \/ Suggest \/ Evaluate \/ Repair

Spec == Init /\ [][Next]_vars

Answered(kind) == asked.kind = kind /\ answer # <<>>

-----------------------------------------------------------------------------
(* Two pull requests that an edge joins are in one stack, and a stack has no second
   half that no edge leaves. *)
Joined(prs, p, q) == q.number \in Linked(prs, p) \/ p.number \in Linked(prs, q)
StacksAreApart(prs, parts) ==
  /\ UNION parts = prs /\ {} \notin parts
  /\ \A a, b \in parts : a # b => a \intersect b = {} /\ ~\E p \in a, q \in b : Joined(prs, p, q)
  /\ \A a \in parts : \A half \in (SUBSET a) \ {{}, a} :
       \E p \in half, q \in a \ half : Joined(prs, p, q)

(* In this order every one has the one before as its only candidate for a parent. *)
IsLine(prs, order) ==
  \A i \in DOMAIN order :
    LET pr == Get(prs, order[i])
        below == IF i = 1 THEN {} ELSE {order[i - 1]}
    IN IF pr.parent = NoParent
       THEN Numbers(Heads(prs, pr.base)) = below
       ELSE pr.parent \in below /\ Numbers(Heads(prs, pr.base)) \subseteq below

Orders(prs) == {o \in [1..Cardinality(prs) -> Numbers(prs)] : IsInjective(o)}

(* The base of a pull request when the updates are made. *)
Rebased(pr, updates) ==
  IF \E u \in updates : u.number = pr.number
  THEN (CHOOSE u \in updates : u.number = pr.number).to ELSE pr.base

PlanMakesAChain(prs, plan) ==
  /\ plan.order \in Orders(prs)
  /\ \A u \in plan.updates : u.from = Get(prs, u.number).base /\ u.to # u.from
  /\ \A i \in DOMAIN plan.order :
       LET pr == Get(prs, plan.order[i])
           base == Rebased(pr, plan.updates)
       IN IF i = 1 THEN Heads(prs, base) = {} ELSE base = Get(prs, plan.order[i - 1]).head

(* Open pull requests are split exactly along their stacks; a stack gets a plan just
   when there is one order that its bases and declarations agree on, and carrying the
   plan out makes it a chain from the lowest pull request up (StackPlanner). *)
PlanIsTheStack ==
  Answered("stacks") =>
    /\ StacksAreApart(asked.of, {s.part : s \in answer[1]})
    /\ \A s \in answer[1] :
         /\ s.plan.ok <=> \E o \in Orders(s.part) : IsLine(s.part, o)
         /\ s.plan.ok => PlanMakesAChain(s.part, s.plan)

(* The patch that takes hunks back; in the new file a hunk stands later or earlier by
   what the hunks before it added or removed. *)
Place(h) == IF h.old = 0 THEN h.start + 1 ELSE h.start  \* of its first line
Turned(line) == [line EXCEPT !.mark = CASE line.mark = "add" -> "remove"
                                        [] line.mark = "remove" -> "add"
                                        [] OTHER -> line.mark]
TakenBack(h, at) ==
  [start |-> IF h.new = 0 THEN at - 1 ELSE at, old |-> h.new, new |-> h.old,
   lines |-> [i \in DOMAIN h.lines |-> Turned(h.lines[i])]]
Reversed(hunks) ==
  LET Drift[i \in 0..Len(hunks)] ==
        IF i = 0 THEN 0 ELSE Drift[i - 1] + hunks[i].new - hunks[i].old
  IN [i \in DOMAIN hunks |-> TakenBack(hunks[i], Place(hunks[i]) + Drift[i - 1])]

(* An accepted patch changes the lines its header names and no other: the reversed
   patch brings the file back, whatever the hunks before it moved.  What empties a
   file cannot tell whether its last line ended (apply_hunks). *)
PatchIsReversible ==
  Answered("patch") /\ answer[1].ok /\ answer[1].file # <<Blank>> =>
    LET back == ApplyPatch(answer[1].file, Reversed(asked.of.hunks)) IN
    back.ok /\ back.file = asked.of.file

(* The patch for the range of lines of a suggestion. *)
Marked(mark, texts) == [i \in DOMAIN texts |-> [mark |-> mark, text |-> texts[i]]]
AsHunk(q) ==
  LET removed == SubSeq(q.file, q.first, q.last)
      added == Suggested(q.fence)
  IN [start |-> q.first, old |-> Len(removed), new |-> Len(added),
      lines |-> Marked("remove", removed) \o Marked("add", added)]

(* A suggestion for a range of lines does what the patch for this range would do, and
   like it never reaches past the last line (apply_inline_suggestion, apply_hunks). *)
InlineIsHunk ==
  Answered("inline") /\ answer[1].ok =>
    ApplyPatch(asked.of.file, <<AsHunk(asked.of)>>) = answer[1]

RepairIsExact == PatchIsReversible /\ InlineIsHunk

(* The newest run of a required check, of the app it has to be of, succeeded or was
   skipped; a status counts only where there is no run and no app is asked for. *)
Passed(d, name) ==
  \/ \E r \in Named(d.runs, name) :
       /\ \A o \in Named(d.runs, name) : o.id <= r.id
       /\ r.status = "completed" /\ r.conclusion \in {"success", "skipped"}
       /\ RequiredApp(d, name) \in {NoApp, r.app}
  \/ /\ Named(d.runs, name) = {} /\ RequiredApp(d, name) = NoApp
     /\ \E s \in Named(d.statuses, name) :
          s.state = "success" /\ \A o \in Named(d.statuses, name) : o.id <= s.id

(* The last word of a user on this head is an approval. *)
Approves(d, user) ==
  \E r \in d.reviews :
    /\ r.user = user /\ r.state = "APPROVED" /\ r.commit # "old"
    /\ \A o \in d.reviews : o.user = user /\ After(o, r) => o.state = "COMMENTED"
Approving(d) == {u \in {r.user : r \in d.reviews} : Approves(d, u)}

NothingSpeaksAgainst(d, p, eligible) ==
  /\ ~d.draft /\ d.mergeable = "yes" /\ (p.current => d.current)
  /\ \A name \in RequiredNames(d, p) : Passed(d, name)
  /\ Cardinality(Approving(d)) >= d.protection.approvals
  /\ p.approval \/ d.protection.lastPush => Approving(d) # {}
  /\ \A c \in d.comments : c.user \in p.actors => <<"comment", c.id>> \in eligible

(* A ready pull request is no draft and can be merged, every required check passed in its
   newest run, the approvals asked for are the last words of their authors on this head, and
   the automation's comments are dealt with: what came before never stands in for what was
   reported last.  A review that requests changes only takes its author's approval back; it
   does not speak against a pull request that needs none (evaluate, check_records,
   latest_review_reviews). *)
ReadyMeansReported ==
  Answered("ready") /\ answer[1] = {} =>
    NothingSpeaksAgainst(asked.of.data, asked.of.policy, asked.of.eligible)

InBounds(q, done) ==
  LET head == q.head
      changed == Changed(head, done.tree)
  IN /\ changed = Declared(q.patches) /\ changed \subseteq q.allowed
     /\ \A p \in changed :
          head[p] # Absent /\ done.tree[p] # Absent => done.tree[p].mode = head[p].mode
     /\ \A p \in changed : done.tree[p].mode # "120000"
     /\ ~\E p, r \in changed : head[p] # Absent /\ done.tree[p] = Absent
                                /\ head[r] = Absent /\ done.tree[r].text = head[p].text
     /\ \A p \in DOMAIN head \ q.ignored : done.work[p] = done.tree[p]

(* A CI repair commits declared and allowed paths only, keeps their modes, moves no
   file, and leaves nothing behind that the commit does not have, however the sections
   of its patches without headers widen it (ensure_staged_paths). *)
CommitStaysInBounds ==
  Answered("repair") /\ answer[1].ok => InBounds(asked.of, answer[1])

=============================================================================
