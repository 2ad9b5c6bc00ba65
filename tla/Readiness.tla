----------------------------- MODULE Readiness -----------------------------
(***************************************************************************)
(* From what GitHub says of a pull request to the reasons why it is not    *)
(* ready: reconcile_read_set (src/reconcile.rs), the feedback that is      *)
(* already answered (reconcile in src/worker.rs), and evaluate             *)
(* (src/readiness.rs).                                                     *)
(*                                                                         *)
(* data is the read set: flags of the pull request, the protection of its  *)
(* base branch, and the sets of its statuses, check runs, reviews and      *)
(* comments.  The head is the commit "head".                               *)
(***************************************************************************)
EXTENDS Integers, Sequences, FiniteSets

NoApp == 0
Decisive == {"APPROVED", "CHANGES_REQUESTED", "DISMISSED"}
Closing == {"APPROVED", "DISMISSED"}

Newest(items) == CHOOSE x \in items : \A y \in items : y.id <= x.id
Named(items, name) == {x \in items : x.name = name}

-----------------------------------------------------------------------------
(* Checks. *)

(* commit_status_state, as a check of no app. *)
OfStatus(s) ==
  [app |-> NoApp,
   status |-> CASE s.state \in {"success", "failure", "error"} -> "completed"
                [] s.state = "pending" -> "in_progress"
                [] OTHER -> "unknown",
   conclusion |-> CASE s.state = "success" -> "success"
                    [] s.state \in {"failure", "error"} -> "failure"
                    [] OTHER -> "none"]
OfRun(r) == [app |-> r.app, status |-> r.status, conclusion |-> r.conclusion]

(* Mutated: the statuses are inserted last. *)
StatusRecords(data) ==
  [name \in {x.name : x \in data.statuses} \union {x.name : x \in data.runs} |->
     IF Named(data.statuses, name) # {} THEN OfStatus(Newest(Named(data.statuses, name)))
                                        ELSE OfRun(Newest(Named(data.runs, name)))]

(* check_records: check runs replace statuses of the same name. *)
CheckRecords(data) ==
  [name \in {x.name : x \in data.statuses} \union {x.name : x \in data.runs} |->
     IF Named(data.runs, name) # {} THEN OfRun(Newest(Named(data.runs, name)))
                                    ELSE OfStatus(Newest(Named(data.statuses, name)))]

RequiredNames(data, policy) ==
  policy.checks \union data.protection.contexts
    \union {data.protection.checks[i].name : i \in DOMAIN data.protection.checks}

(* The first entry of the name counts. *)
RequiredApp(data, name) ==
  LET found == SelectSeq(data.protection.checks, LAMBDA c : c.name = name) IN
  IF found = <<>> THEN NoApp ELSE Head(found).app

(* What evaluate makes of a required check; one that nobody reported is unknown. *)
CheckVerdict(data, name) ==
  LET records == CheckRecords(data)
      check == IF name \in DOMAIN records THEN records[name]
               ELSE [app |-> NoApp, status |-> "unknown", conclusion |-> "none"]
      wanted == RequiredApp(data, name)
  IN CASE wanted # NoApp /\ check.app # wanted -> "wrong app"
       [] (wanted = NoApp \/ check.app = wanted) /\ check.status # "completed" -> "pending"
       [] OTHER -> IF check.conclusion \in {"success", "skipped"} THEN "good" ELSE "failed"

-----------------------------------------------------------------------------
(* Reviews and comments. *)

(* latest_review_reviews, latest_review_decisions: by submission, then by id. *)
After(r, s) == r.at > s.at \/ (r.at = s.at /\ r.id > s.id)
LatestDecisions(reviews) ==
  {r \in reviews : r.state \in Decisive /\
     ~\E s \in reviews : s.state \in Decisive /\ s.user = r.user /\ After(s, r)}

Approvals(data) ==
  {r \in LatestDecisions(data.reviews) : r.state = "APPROVED" /\ r.commit \in {"none", "head"}}
StaleApprovals(data) ==
  {r \in LatestDecisions(data.reviews) : r.state = "APPROVED" /\ r.commit = "old"}

(* feedback_records that are not resolved: comments never are by themselves. *)
OpenReviews(data) ==
  {r \in data.reviews :
     /\ r.body /\ r.state \notin Closing
     /\ ~\E s \in LatestDecisions(data.reviews) : s.user = r.user /\ s.state \in Closing}

(* What feedback_resolution_eligible does not know of, by a configured actor. *)
OpenAutomation(data, policy, eligible) ==
  {r \in OpenReviews(data) : r.user \in policy.actors /\ <<"review", r.id>> \notin eligible}
    \union {c \in data.comments :
              c.user \in policy.actors /\ <<"comment", c.id>> \notin eligible}

-----------------------------------------------------------------------------
(* evaluate. *)

Blockers(data, policy, eligible) ==
  LET verdicts == {CheckVerdict(data, name) : name \in RequiredNames(data, policy)}
      approvals == Cardinality(Approvals(data))
      protection == data.protection
      unseen == protection.lastPush /\ approvals = 0
  IN [Draft |-> data.draft,
      MergeConflict |-> data.mergeable = "no",
      MergeabilityUnknown |-> data.mergeable = "unknown",
      BranchOutOfDate |-> policy.current /\ ~data.current,
      RequiredCheckWrongApp |-> "wrong app" \in verdicts,
      RequiredCheckFailed |-> "failed" \in verdicts,
      RequiredCheckPending |-> "pending" \in verdicts,
      RequiredReviewMissing |->
        approvals = 0 /\ (policy.approval \/ protection.approvals > 0),
      RequiredReviewCountMissing |-> approvals \in 1..(protection.approvals - 1),
      StaleReview |-> unseen /\ StaleApprovals(data) # {},
      LastPushApprovalMissing |-> unseen /\ StaleApprovals(data) = {},
      CodeOwnerReviewMissing |->
        protection.codeOwners /\ data.mergeState \in {"none", "blocked", "unknown"},
      UnresolvedAutomationFeedback |-> OpenAutomation(data, policy, eligible) # {}]

Reasons(data, policy, eligible) ==
  LET blockers == Blockers(data, policy, eligible) IN
  {reason \in DOMAIN blockers : blockers[reason]}

=============================================================================
