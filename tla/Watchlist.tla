------------------------------ MODULE Watchlist ------------------------------
(***************************************************************************)
(* How the watchlist follows GitHub.  Webhook deliveries (src/webhook.rs,  *)
(* src/github/events.rs) go through the delivery ledger into installation, *)
(* repository and pull request rows (src/repository.rs) and ask for a      *)
(* reconcile job; the periodic inventory (src/main.rs) lists open pull     *)
(* requests; the reconcile job (src/worker.rs) reads one and writes its    *)
(* row again.                                                              *)
(*                                                                         *)
(* One repository with one pull request.  Deliveries are lost, repeated    *)
(* and overtake each other; handlers, workers and the inventory fail at    *)
(* any step.                                                               *)
(***************************************************************************)
EXTENDS Integers, Sequences, FiniteSets

CONSTANTS
  Handler,        \* requests to the webhook at a time
  Worker,         \* worker processes
  MaxDeliveries,  \* bound: deliveries GitHub sends
  MaxEdits,       \* bound: changes of the pull request
  MaxInstallations, \* bound: times the App is installed
  MaxFaults,      \* bound: transactions, requests, runs and inventories that break off
  None

ASSUME WatchlistAssumption ==
  /\ MaxDeliveries \in Nat /\ MaxEdits \in Nat /\ MaxFaults \in Nat
  /\ MaxInstallations \in Nat \ {0}
  /\ None \notin Handler \union Worker \union {"queued"}

VARIABLES
  pr,       \* the pull request on GitHub; version counts its changes
  access,   \* what GitHub grants, and the installation it has now
  sent,     \* deliveries GitHub sent; the delivery id is the index
  ledger,   \* event_deliveries: absent, recorded or processed (processed_at)
  handler,  \* requests in progress
  acked,    \* deliveries answered with 202 or 208
  applied,  \* history: how often apply_delivery was committed
  failed,   \* history: how often it was rolled back
  installs, \* installations: absent, active or suspended (suspended_at)
  repo,     \* the repositories row
  row,      \* the pull_requests row
  job,      \* the reconcile job: None, "queued" or the worker that runs it
  run,      \* what each worker does
  inventory, \* where the periodic inventory is
  faults    \* what broke off so far

deliveries == <<sent, ledger, handler, acked, applied, failed>>
github == <<pr, access>>
vars == <<github, deliveries, installs, repo, row, job, run, inventory, faults>>

-----------------------------------------------------------------------------
Id == 1..MaxDeliveries
Installation == 1..MaxInstallations
States == {"open", "closed"}
Snapshot == [version : 0..MaxEdits, state : States]

Restoring == {"created", "unsuspend", "added"}
Lifecycle == Restoring \union {"suspend", "deleted", "removed"}
Events == Lifecycle \union {"pull_request", "status"}
Delivery == [event : Events, by : Installation, pr : Snapshot]

Stamps == 0..(2 * MaxEdits + 1)
Row == [pr : Snapshot, watched : BOOLEAN, stamp : Stamps]

(* NULL is no row. *)
ASSUME NoneIsNoRow ==
  None \notin Row \union [by : Installation, active : BOOLEAN, named : BOOLEAN]

Idle == [phase |-> "idle"]
Handling == [phase : {"applying", "failing", "enqueuing"}, id : Id]

TypeOK ==
  /\ pr \in Snapshot
  /\ access \in [grant : {"granted", "suspended", "removed", "uninstalled"},
                 by : Installation]
  /\ sent \in Seq(Delivery) /\ Len(sent) <= MaxDeliveries
  /\ ledger \in [Id -> {"absent", "recorded", "processed"}]
  /\ handler \in [Handler -> {Idle} \union Handling]
  /\ acked \subseteq Id
  /\ applied \in [Id -> Nat] /\ failed \in [Id -> Nat]
  /\ installs \in [Installation -> {"absent", "active", "suspended"}]
  /\ repo \in {None} \union [by : Installation, active : BOOLEAN, named : BOOLEAN]
  /\ row \in {None} \union Row
  /\ job \in {None, "queued"} \union Worker
  /\ run \in [Worker -> {Idle} \union [phase : {"leased", "reading", "saved"}]
                           \union [phase : {"read"}, pr : Snapshot]]
  /\ inventory \in {Idle} \union [phase : {"listing", "watching"}]
                   \union [phase : {"listed"}, pr : Snapshot]
  /\ faults \in 0..MaxFaults

(* The App was installed, and events of the repository were seen before. *)
Init ==
  /\ pr = [version |-> 0, state |-> "open"]
  /\ access = [grant |-> "granted", by |-> 1]
  /\ sent = <<>>
  /\ ledger = [d \in Id |-> "absent"]
  /\ handler = [h \in Handler |-> Idle]
  /\ acked = {}
  /\ applied = [d \in Id |-> 0] /\ failed = [d \in Id |-> 0]
  /\ installs = [i \in Installation |-> IF i = 1 THEN "active" ELSE "absent"]
  /\ repo = [by |-> 1, active |-> TRUE, named |-> TRUE]
  /\ row = None /\ job = None
  /\ run = [w \in Worker |-> Idle]
  /\ inventory = Idle
  /\ faults = 0

-----------------------------------------------------------------------------
(* GitHub. *)

Send(event) ==
  /\ Len(sent) < MaxDeliveries
  /\ sent' = Append(sent, [event |-> event, by |-> access'.by, pr |-> pr'])
  /\ UNCHANGED <<ledger, handler, acked, applied, failed>>

Unseen == UNCHANGED <<installs, repo, row, job, run, inventory>>

(* The pull request is pushed to, closed, merged or reopened.  While the App has no
   access people go on and GitHub sends nothing. *)
Edit ==
  /\ pr.version < MaxEdits
  /\ \E s \in States : pr' = [version |-> pr.version + 1, state |-> s]
  /\ UNCHANGED access
  /\ \/ access.grant = "granted" /\ Send("pull_request")
     \/ access.grant # "granted" /\ UNCHANGED deliveries
  /\ Unseen

(* A review, a check or a status of the current head. *)
Report ==
  /\ access.grant = "granted" /\ UNCHANGED github
  /\ Send("status") /\ Unseen

Changes ==
  [created |-> <<"uninstalled", "granted">>, deleted |-> <<"granted", "uninstalled">>,
   suspend |-> <<"granted", "suspended">>, unsuspend |-> <<"suspended", "granted">>,
   removed |-> <<"granted", "removed">>, added |-> <<"removed", "granted">>]

(* Every new installation of the App has an id of its own. *)
ChangeAccess(event) ==
  /\ access.grant = Changes[event][1]
  /\ event = "created" => access.by < MaxInstallations
  /\ access' = [grant |-> Changes[event][2],
                by |-> IF event = "created" THEN access.by + 1 ELSE access.by]
  /\ UNCHANGED pr
  /\ Send(event) /\ Unseen

-----------------------------------------------------------------------------
(* The store. *)

(* The clock of the database and the workers, against the updated_at that GitHub
   gives a pull request: twice its version. *)
GitHubStamp(snapshot) == 2 * snapshot.version
Clock == 2 * pr.version + 1

(* Mutated: whatever comes last is stored. *)
UpsertedLast(old, snapshot, stamp) ==
  [pr |-> snapshot, watched |-> snapshot.state = "open", stamp |-> stamp]

(* Mutated: the row is stamped with the next tick, to win against its own time. *)
UpsertedAhead(old, snapshot, stamp) ==
  IF old # None /\ old.stamp > stamp THEN old
  ELSE [pr |-> snapshot, watched |-> snapshot.state = "open", stamp |-> stamp + 1]

(* upsert_pull_request: only over a row that is not newer. *)
Upserted(old, snapshot, stamp) ==
  IF old # None /\ old.stamp > stamp THEN old
  ELSE [pr |-> snapshot, watched |-> snapshot.state = "open", stamp |-> stamp]

(* Joined with the installation: repository_context, open_pull_requests. *)
Active == repo # None /\ repo.active /\ installs[repo.by] = "active"

Enqueued(old) == IF old = None THEN "queued" ELSE old

(* upsert_installation_from_payload. *)
Installed(by) == [installs EXCEPT ![by] = IF @ = "absent" THEN "active" ELSE @]

(* Mutated: every event that names the repository activates it. *)
RepositoryActivated(d) ==
  IF d.event \in {"suspend", "unsuspend", "removed"} THEN repo
  ELSE [by |-> IF repo = None THEN d.by ELSE repo.by, active |-> TRUE,
        named |-> d.event \in {"pull_request", "status"}]

(* upsert_repository_from_payload.  The repositories listed in an installation event
   come without their owner; the installation of a known row stays. *)
Repository(d) ==
  IF d.event \in {"suspend", "unsuspend", "removed"} THEN repo
  ELSE [by |-> IF repo = None THEN d.by ELSE repo.by,
        active |-> repo = None \/ repo.active \/ d.event \in {"created", "added"},
        named |-> d.event \in {"pull_request", "status"}]

Unwatched(old) ==
  IF old = None THEN None ELSE [old EXCEPT !.watched = FALSE, !.stamp = Clock]

(* apply_access_lifecycle on the repository r and the installations i. *)
Suspended(d, i) ==
  CASE d.event \in {"suspend", "deleted"} -> [i EXCEPT ![d.by] = "suspended"]
    [] d.event = "unsuspend" -> [i EXCEPT ![d.by] = "active"]
    [] OTHER -> i

Revokes(d, r) ==
  r # None /\ (d.event = "removed" \/ (d.event \in {"suspend", "deleted"} /\ r.by = d.by))

(* apply_delivery.  The jobs of a revoked repository are cancelled. *)
ApplyDelivery(d) ==
  LET r == Repository(d) IN
  /\ installs' = Suspended(d, Installed(d.by))
  /\ repo' = IF Revokes(d, r) /\ d.event \in {"removed", "deleted"}
             THEN [r EXCEPT !.active = FALSE] ELSE r
  /\ row' = CASE Revokes(d, r) -> Unwatched(row)
              [] d.event = "pull_request" -> Upserted(row, d.pr, GitHubStamp(d.pr))
              [] OTHER -> row
  /\ job' = IF Revokes(d, r) THEN None ELSE job

-----------------------------------------------------------------------------
(* A webhook request. *)

At(h, phase) == handler[h].phase = phase

(* Mutated: a known delivery id is a duplicate, processed or not. *)
StartsUnlessKnown(h, d) ==
  /\ At(h, "idle") /\ d \in DOMAIN sent
  /\ ledger' = [ledger EXCEPT ![d] = IF @ = "absent" THEN "recorded" ELSE @]
  /\ handler' = [handler EXCEPT ![h] =
                   [phase |-> IF ledger[d] # "absent" THEN "enqueuing" ELSE "applying",
                    id |-> d]]
  /\ UNCHANGED <<github, sent, acked, applied, failed>> /\ Unseen

Starts(h, d) ==
  /\ At(h, "idle") /\ d \in DOMAIN sent
  /\ ledger' = [ledger EXCEPT ![d] = IF @ = "absent" THEN "recorded" ELSE @]
  /\ handler' = [handler EXCEPT ![h] =
                   [phase |-> IF ledger[d] = "processed" THEN "enqueuing" ELSE "applying",
                    id |-> d]]
  /\ UNCHANGED <<github, sent, acked, applied, failed>> /\ Unseen

(* Mutated: two copies of a delivery do not wait for each other. *)
ReceiveUnlocked(h, d) == Starts(h, d)

(* record_delivery inserts the id or finds it, the advisory lock of the id is taken
   and processed_at read under it.  A request that waits for the lock is one that
   has not come yet. *)
Receive(h, d) ==
  /\ ~\E g \in Handler : At(g, "applying") /\ handler[g].id = d
  /\ Starts(h, d)

Apply(h) ==
  LET d == handler[h].id IN
  /\ At(h, "applying")
  /\ ApplyDelivery(sent[d])
  /\ ledger' = [ledger EXCEPT ![d] = "processed"]
  /\ applied' = [applied EXCEPT ![d] = @ + 1]
  /\ handler' = [handler EXCEPT ![h].phase = "enqueuing"]
  /\ UNCHANGED <<github, sent, acked, failed, run, inventory>>

(* The transaction fails and is rolled back: the lock is free. *)
Fail(h) ==
  /\ At(h, "applying")
  /\ failed' = [failed EXCEPT ![handler[h].id] = @ + 1]
  /\ handler' = [handler EXCEPT ![h].phase = "failing"]
  /\ UNCHANGED <<github, sent, ledger, acked, applied>> /\ Unseen

(* mark_delivery_processed with an error, outside the transaction; a 500. *)
MarkError(h) ==
  /\ At(h, "failing")
  /\ ledger' = [ledger EXCEPT ![handler[h].id] = "recorded"]
  /\ handler' = [handler EXCEPT ![h] = Idle]
  /\ UNCHANGED <<github, sent, acked, applied, failed>> /\ Unseen

(* The pull request of the event, or the watched ones with its head. *)
Targets(d) ==
  \/ d.event = "pull_request"
  \/ d.event = "status" /\ row # None /\ row.pr.version = d.pr.version /\ row.watched /\ Active

Enqueue(h) ==
  LET d == handler[h].id IN
  /\ At(h, "enqueuing")
  /\ job' = IF Targets(sent[d]) THEN Enqueued(job) ELSE job
  /\ acked' = acked \union {d}
  /\ handler' = [handler EXCEPT ![h] = Idle]
  /\ UNCHANGED <<github, sent, ledger, applied, failed, installs, repo, row, run, inventory>>

(* The request breaks off; GitHub sees an error or nothing. *)
Break(h) ==
  /\ ~At(h, "idle")
  /\ handler' = [handler EXCEPT ![h] = Idle]
  /\ UNCHANGED <<github, sent, ledger, acked, applied, failed>> /\ Unseen

-----------------------------------------------------------------------------
(* The reconcile job. *)

Elsewhere == UNCHANGED <<github, deliveries, installs, repo, inventory>>
Running(w, phase) == run[w].phase = phase

(* An installation token is minted and the repository found by its name. *)
CanCall == access.grant = "granted" /\ repo.by = access.by /\ repo.named

Lease(w) ==
  /\ Running(w, "idle") /\ job = "queued"
  /\ job' = w
  /\ run' = [run EXCEPT ![w] = [phase |-> "leased"]]
  /\ UNCHANGED row /\ Elsewhere

(* mark_succeeded or mark_failed, which only the holder of the lease can do. *)
End(w) ==
  /\ run' = [run EXCEPT ![w] = Idle]
  /\ job' = IF job = w THEN None ELSE job

(* repository_context and pull_request_context. *)
LookUp(w) ==
  /\ Running(w, "leased")
  /\ \/ /\ Active /\ row # None
        /\ run' = [run EXCEPT ![w] = [phase |-> "reading"]]
        /\ UNCHANGED job
     \/ /\ ~(Active /\ row # None)
        /\ End(w)
  /\ UNCHANGED row /\ Elsewhere

(* read_pull_request. *)
Read(w) ==
  /\ Running(w, "reading") /\ CanCall
  /\ run' = [run EXCEPT ![w] = [phase |-> "read", pr |-> pr]]
  /\ UNCHANGED <<row, job>> /\ Elsewhere

(* save_reconciliation writes the row with the local clock as its updated_at.  Nobody
   looks at the lease. *)
Save(w) ==
  /\ Running(w, "read")
  /\ row' = Upserted(row, run[w].pr, Clock)
  /\ run' = [run EXCEPT ![w] = [phase |-> "saved"]]
  /\ UNCHANGED job /\ Elsewhere

(* save_readiness touches the row, and the job ends. *)
Finish(w) ==
  /\ Running(w, "saved")
  /\ row' = IF row = None THEN None ELSE [row EXCEPT !.stamp = Clock]
  /\ End(w) /\ Elsewhere

(* GitHub or the store fails. *)
Abort(w) ==
  /\ ~Running(w, "idle")
  /\ End(w)
  /\ UNCHANGED row /\ Elsewhere

(* The process dies; its lease runs out. *)
Die(w) ==
  /\ ~Running(w, "idle")
  /\ run' = [run EXCEPT ![w] = Idle]
  /\ UNCHANGED <<row, job>> /\ Elsewhere

Expire(w) ==
  /\ job = w
  /\ job' = "queued"
  /\ UNCHANGED <<row, run>> /\ Elsewhere

-----------------------------------------------------------------------------
(* The periodic inventory of the server. *)

Apart == UNCHANGED <<github, deliveries, installs, repo, run>>

(* active_repository_contexts. *)
Look ==
  /\ inventory = Idle /\ Active
  /\ inventory' = [phase |-> "listing"]
  /\ UNCHANGED <<row, job>> /\ Apart

(* list_open_pull_requests.  An error ends the inventory of the repository. *)
List ==
  /\ inventory.phase = "listing"
  /\ inventory' = CASE ~CanCall -> Idle
                    [] pr.state = "open" -> [phase |-> "listed", pr |-> pr]
                    [] OTHER -> [phase |-> "watching"]
  /\ UNCHANGED <<row, job>> /\ Apart

StoreListed ==
  /\ inventory.phase = "listed"
  /\ row' = Upserted(row, inventory.pr, GitHubStamp(inventory.pr))
  /\ job' = Enqueued(job)
  /\ inventory' = [phase |-> "watching"]
  /\ Apart

(* Mutated: the inventory covers only what GitHub lists. *)
WatchNothing ==
  /\ inventory.phase = "watching"
  /\ inventory' = Idle
  /\ UNCHANGED <<row, job>> /\ Apart

(* open_pull_requests: what disappeared from the list is read once more. *)
Watch ==
  /\ inventory.phase = "watching"
  /\ job' = IF Active /\ row # None /\ row.watched THEN Enqueued(job) ELSE job
  /\ inventory' = Idle
  /\ UNCHANGED row /\ Apart

Stop ==
  /\ inventory # Idle
  /\ inventory' = Idle
  /\ UNCHANGED <<row, job>> /\ Apart

-----------------------------------------------------------------------------
GitHub == Edit \/ Report \/ \E e \in Lifecycle : ChangeAccess(e)

Request(h) ==
  (\E d \in Id : Receive(h, d)) \/ Apply(h) \/ MarkError(h) \/ Enqueue(h)

Reconcile(w) ==
  /\ Lease(w) \/ LookUp(w) \/ Read(w) \/ Save(w) \/ Finish(w)
  /\ UNCHANGED faults

Recover(w) == Expire(w) /\ UNCHANGED faults

Inventory == (Look \/ List \/ StoreListed \/ Watch) /\ UNCHANGED faults

BreakOff ==
  /\ faults < MaxFaults /\ faults' = faults + 1
  /\ \/ \E h \in Handler : Fail(h) \/ Break(h)
     \/ \E w \in Worker : Abort(w) \/ Die(w)
     \/ Stop

Next ==
  \/ GitHub /\ UNCHANGED faults
  \/ (\E h \in Handler : Request(h)) /\ UNCHANGED faults
  \/ \E w \in Worker : Reconcile(w) \/ Recover(w)
  \/ Inventory
  \/ BreakOff

(* The loop of the server and those of the workers keep turning, and leases run
   out.  Nothing is assumed of GitHub and of the webhook. *)
Fairness ==
  /\ WF_vars(Inventory)
  /\ \A w \in Worker : WF_vars(Reconcile(w)) /\ WF_vars(Recover(w))

Spec == Init /\ [][Next]_vars
FairSpec == Spec /\ Fairness

-----------------------------------------------------------------------------
(* Properties. *)

(* A delivery that GitHub has an answer for, and will not send again by itself, was
   applied: the answer of process_delivery comes after its commit. *)
AckedIsApplied == \A d \in acked : applied[d] > 0

(* Two copies of a delivery, at the same time or one after the other, do not both
   count: it takes a failure for a delivery to be applied again.  This is the
   advisory lock and processed_at of process_delivery. *)
AppliedOncePerFailure == \A d \in Id : applied[d] <= 1 + failed[d]

(* After a revocation was stored, only an event that restores access makes the
   repository eligible again: not a late event of a pull request, nor an inventory
   or a reconcile that was already under way (apply_access_lifecycle). *)
RevokedStaysRevoked ==
  [][repo # None /\ ~Active /\ Active' =>
       \E h \in Handler : /\ At(h, "applying") /\ At(h, "enqueuing")'
                          /\ sent[handler[h].id].event \in Restoring]_vars

(* A delivery or an inventory that arrives late never takes the row back to an older
   state of the pull request, although other writers stamp it with the local clock (the
   guard of upsert_pull_request).  Only a reconcile can, with what it read itself before
   GitHub moved on: the clock it stamps passes the guard. *)
LateNewsIsDropped ==
  [][row # None /\ row'.pr.version < row.pr.version =>
       \E w \in Worker : /\ Running(w, "read") /\ Running(w, "saved")'
                         /\ row'.pr = run[w].pr]_vars

(* "Periodic inventory can recover open PRs after a missed webhook and fresh reads retire
   watched rows after close/merge" (README.md:45): while the repository stays eligible and
   GitHub lets itself be read, an open pull request comes to be watched as it is, a closed
   one comes off the watchlist, and both stay so. *)
Current ==
  /\ pr.state = "open" => row # None /\ row.pr = pr /\ row.watched
  /\ pr.state = "closed" => row = None \/ ~row.watched

InventoryHeals == <>[](Active /\ CanCall) => <>[]Current

(* "prevent revoked repositories from being reconciled until access is restored"
   (docs/superpowers/specs/2026-08-10-pitools-design.md:15): the event of a new
   installation that lists the repository makes it eligible. *)
RestoredIsEligible ==
  [][\A h \in Handler :
       At(h, "applying") /\ At(h, "enqueuing")' /\ sent[handler[h].id].event = "created"
       /\ access = [grant |-> "granted", by |-> sent[handler[h].id].by]
       => Active']_vars

=============================================================================
