--------------------------- MODULE WatchlistProofs ---------------------------
(***************************************************************************)
(* Theorems about Watchlist, for every value of its constants.             *)
(***************************************************************************)
EXTENDS Watchlist, FiniteSetTheorems, TLAPS

(* A request works on a delivery that was sent. *)
HandlesSent == \A h \in Handler : ~At(h, "idle") => handler[h].id \in DOMAIN sent

TypeInv == TypeOK /\ HandlesSent

-----------------------------------------------------------------------------
(* What a request, a run and the inventory carry is told by their phases. *)

LEMMA HandlerType ==
  ASSUME TypeOK, NEW h \in Handler, ~At(h, "idle")
  PROVE  handler[h] \in Handling
BY DEF TypeOK, At, Idle

LEMMA RunType ==
  ASSUME TypeOK, NEW w \in Worker, Running(w, "read")
  PROVE  run[w] \in [phase : {"read"}, pr : Snapshot]
BY DEF TypeOK, Running, Idle

LEMMA InventoryType ==
  ASSUME TypeOK, inventory.phase = "listed"
  PROVE  inventory \in [phase : {"listed"}, pr : Snapshot]
BY DEF TypeOK, Idle

-----------------------------------------------------------------------------
(* What the store computes are values its columns can hold. *)

LEMMA ClockType == pr \in Snapshot => Clock \in Stamps /\ Clock = 2 * pr.version + 1
BY WatchlistAssumption DEF Clock, Stamps, Snapshot

LEMMA UpsertedType ==
  ASSUME NEW old \in {None} \union Row, NEW snapshot \in Snapshot, NEW stamp \in Stamps
  PROVE  Upserted(old, snapshot, stamp) \in Row
BY DEF Upserted, Row

LEMMA GitHubStampType ==
  ASSUME NEW snapshot \in Snapshot
  PROVE  GitHubStamp(snapshot) \in Stamps
BY WatchlistAssumption DEF GitHubStamp, Stamps, Snapshot

LEMMA UnwatchedType ==
  ASSUME NEW old \in {None} \union Row, pr \in Snapshot
  PROVE  Unwatched(old) \in {None} \union Row
BY ClockType DEF Unwatched, Row

LEMMA InstallsType ==
  ASSUME NEW d \in Delivery, TypeOK
  PROVE  Suspended(d, Installed(d.by))
           \in [Installation -> {"absent", "active", "suspended"}]
<1>1. d.by \in Installation
  BY DEF Delivery
<1>2. Installed(d.by) \in [Installation -> {"absent", "active", "suspended"}]
  BY <1>1 DEF Installed, TypeOK
<1> QED
  BY <1>1, <1>2 DEF Suspended

LEMMA RepositoryType ==
  ASSUME NEW d \in Delivery, TypeOK
  PROVE  Repository(d) \in {None} \union [by : Installation, active : BOOLEAN, named : BOOLEAN]
<1>1. d.by \in Installation
  BY DEF Delivery
<1>2. repo # None => repo.by \in Installation /\ repo.active \in BOOLEAN
  BY DEF TypeOK
<1> QED
  BY <1>1, <1>2 DEF Repository, TypeOK

LEMMA ApplyDeliveryType ==
  ASSUME NEW d \in Delivery, TypeOK, ApplyDelivery(d)
  PROVE  /\ installs' \in [Installation -> {"absent", "active", "suspended"}]
         /\ repo' \in {None} \union [by : Installation, active : BOOLEAN, named : BOOLEAN]
         /\ row' \in {None} \union Row
         /\ job' \in {None, "queued"} \union Worker
<1>1. installs' \in [Installation -> {"absent", "active", "suspended"}]
  BY InstallsType DEF ApplyDelivery
<1>2. Repository(d) # None => [Repository(d) EXCEPT !.active = FALSE]
        \in [by : Installation, active : BOOLEAN, named : BOOLEAN]
  BY RepositoryType
<1>3. repo' \in {None} \union [by : Installation, active : BOOLEAN, named : BOOLEAN]
  BY <1>2, RepositoryType DEF ApplyDelivery, Revokes
<1>4. d.pr \in Snapshot
  BY DEF Delivery
<1>5. row' \in {None} \union Row
  BY <1>4, UnwatchedType, UpsertedType, GitHubStampType DEF ApplyDelivery, TypeOK
<1>6. job' \in {None, "queued"} \union Worker
  BY DEF ApplyDelivery, TypeOK
<1> QED
  BY <1>1, <1>3, <1>5, <1>6

-----------------------------------------------------------------------------
(* The steps keep the types. *)

LEMMA TypeGitHub ==
  ASSUME TypeInv, GitHub, UNCHANGED faults
  PROVE  TypeInv'
<1> USE DEF TypeInv, TypeOK
<1> DEFINE GitHubType == /\ pr \in Snapshot
                         /\ access \in [grant : {"granted", "suspended", "removed", "uninstalled"},
                                       by : Installation]
<1>1. GitHubType'
  <2>1. CASE Edit
    BY <2>1, WatchlistAssumption DEF Edit, Snapshot
  <2>2. CASE Report
    BY <2>2 DEF Report, github
  <2>3. ASSUME NEW e \in Lifecycle, ChangeAccess(e) PROVE GitHubType'
    <3>1. access.by + (IF e = "created" THEN 1 ELSE 0) \in Installation
      BY <2>3, WatchlistAssumption DEF ChangeAccess, Installation
    <3>2. Changes[e][2] \in {"granted", "suspended", "removed", "uninstalled"}
      BY DEF Changes, Lifecycle, Restoring
    <3> QED
      BY <2>3, <3>1, <3>2, WatchlistAssumption DEF ChangeAccess, Installation
  <2> QED
    BY <2>1, <2>2, <2>3 DEF GitHub
<1>2. (UNCHANGED deliveries /\ Unseen) \/ \E e \in Events : Send(e) /\ Unseen
  BY DEF GitHub, Edit, Report, ChangeAccess, Events
<1>3. CASE UNCHANGED deliveries /\ Unseen
  BY <1>1, <1>3 DEF deliveries, Unseen, HandlesSent, At
<1> SUFFICES ASSUME \E e \in Events : Send(e) /\ Unseen PROVE TypeInv'
  BY <1>2, <1>3
<1>4. \E e \in Events : Send(e) /\ Unseen
  OBVIOUS
<1>5. PICK e \in Events : sent' = Append(sent, [event |-> e, by |-> access'.by, pr |-> pr'])
                          /\ Len(sent) < MaxDeliveries
  BY <1>4 DEF Send
<1>6. [event |-> e, by |-> access'.by, pr |-> pr'] \in Delivery
  BY <1>1 DEF Delivery
<1>7. sent' \in Seq(Delivery) /\ Len(sent') = Len(sent) + 1
  BY <1>5, <1>6
<1>8. Len(sent') <= MaxDeliveries
  BY <1>5, <1>7, WatchlistAssumption
<1>9. HandlesSent'
  <2>1. DOMAIN sent \subseteq DOMAIN sent'
    BY <1>7
  <2> QED
    BY <1>4, <2>1 DEF HandlesSent, Send, At
<1> QED
  BY <1>1, <1>4, <1>7, <1>8, <1>9 DEF Send, Unseen

(* A request goes on with a delivery that was sent, or ends. *)
LEMMA HandlerUpdate ==
  ASSUME TypeInv, NEW h \in Handler, NEW d \in DOMAIN sent, UNCHANGED sent,
         NEW phase \in {"applying", "failing", "enqueuing"},
         \/ handler' = [handler EXCEPT ![h] = [phase |-> phase, id |-> d]]
         \/ handler' = [handler EXCEPT ![h] = Idle]
  PROVE  handler' \in [Handler -> {Idle} \union Handling] /\ HandlesSent'
<1>1. d \in Id /\ [phase |-> phase, id |-> d] \in Handling
  BY WatchlistAssumption DEF TypeInv, TypeOK, Id, Handling
<1>2. handler' \in [Handler -> {Idle} \union Handling]
  BY <1>1 DEF TypeInv, TypeOK
<1>3. HandlesSent'
  BY DEF TypeInv, TypeOK, HandlesSent, At, Idle
<1> QED
  BY <1>2, <1>3

(* Its delivery, and what an update of its phase makes of it. *)
LEMMA HandlerDelivery ==
  ASSUME TypeInv, NEW h \in Handler, ~At(h, "idle")
  PROVE  /\ handler[h].id \in DOMAIN sent /\ handler[h].id \in Id
         /\ sent[handler[h].id] \in Delivery
         /\ \A phase : [handler EXCEPT ![h].phase = phase]
                        = [handler EXCEPT ![h] = [phase |-> phase, id |-> handler[h].id]]
<1>1. handler[h] \in Handling
  BY HandlerType DEF TypeInv
<1>2. handler[h].id \in DOMAIN sent /\ handler[h].id \in Id
  BY <1>1 DEF TypeInv, HandlesSent, Handling
<1>3. \A phase : [handler[h] EXCEPT !.phase = phase] = [phase |-> phase, id |-> handler[h].id]
  BY <1>1 DEF Handling
<1> QED
  BY <1>2, <1>3 DEF TypeInv, TypeOK

LEMMA TypeRequest ==
  ASSUME TypeInv, NEW h \in Handler, Request(h) \/ Fail(h) \/ Break(h),
         faults' \in 0..MaxFaults
  PROVE  TypeInv'
<1> DEFINE d == handler[h].id
           HandlerOK == handler \in [Handler -> {Idle} \union Handling] /\ HandlesSent
<1>1. ASSUME NEW e \in Id, Receive(h, e) PROVE TypeInv'
  <2>1. e \in DOMAIN sent /\ sent' = sent
    BY <1>1 DEF Receive, Starts
  <2>2. HandlerOK'
    BY <1>1, <2>1, HandlerUpdate DEF Receive, Starts
  <2> QED
    BY <1>1, <2>2 DEF Receive, Starts, Unseen, github, TypeInv, TypeOK
<1>2. CASE Apply(h)
  <2>1. ~At(h, "idle") /\ sent' = sent
    BY <1>2 DEF Apply, At
  <2>2. HandlerOK'
    BY <1>2, <2>1, HandlerDelivery, HandlerUpdate DEF Apply
  <2>3. applied' \in [Id -> Nat] /\ ledger' \in [Id -> {"absent", "recorded", "processed"}]
    BY <1>2, <2>1, HandlerDelivery DEF Apply, TypeInv, TypeOK
  <2>4. /\ installs' \in [Installation -> {"absent", "active", "suspended"}]
        /\ repo' \in {None} \union [by : Installation, active : BOOLEAN, named : BOOLEAN]
        /\ row' \in {None} \union Row
        /\ job' \in {None, "queued"} \union Worker
    BY <1>2, <2>1, HandlerDelivery, ApplyDeliveryType DEF Apply, TypeInv
  <2> QED
    BY <1>2, <2>2, <2>3, <2>4 DEF Apply, github, TypeInv, TypeOK
<1>3. CASE Fail(h)
  <2>1. ~At(h, "idle") /\ sent' = sent
    BY <1>3 DEF Fail, At
  <2>2. HandlerOK'
    BY <1>3, <2>1, HandlerDelivery, HandlerUpdate DEF Fail
  <2>3. failed' \in [Id -> Nat]
    BY <1>3, <2>1, HandlerDelivery DEF Fail, TypeInv, TypeOK
  <2> QED
    BY <1>3, <2>2, <2>3 DEF Fail, github, Unseen, TypeInv, TypeOK
<1>4. CASE MarkError(h)
  <2>1. ~At(h, "idle") /\ sent' = sent
    BY <1>4 DEF MarkError, At
  <2>2. HandlerOK'
    BY <1>4, <2>1, HandlerDelivery, HandlerUpdate DEF MarkError
  <2>3. ledger' \in [Id -> {"absent", "recorded", "processed"}]
    BY <1>4, <2>1, HandlerDelivery DEF MarkError, TypeInv, TypeOK
  <2> QED
    BY <1>4, <2>2, <2>3 DEF MarkError, github, Unseen, TypeInv, TypeOK
<1>5. CASE Enqueue(h)
  <2>1. ~At(h, "idle") /\ sent' = sent
    BY <1>5 DEF Enqueue, At
  <2>2. HandlerOK'
    BY <1>5, <2>1, HandlerDelivery, HandlerUpdate DEF Enqueue
  <2>3. acked' \subseteq Id /\ job' \in {None, "queued"} \union Worker
    BY <1>5, <2>1, HandlerDelivery DEF Enqueue, Enqueued, TypeInv, TypeOK
  <2> QED
    BY <1>5, <2>2, <2>3 DEF Enqueue, github, TypeInv, TypeOK
<1>6. CASE Break(h)
  <2>1. ~At(h, "idle") /\ sent' = sent
    BY <1>6 DEF Break
  <2>2. HandlerOK'
    BY <1>6, <2>1, HandlerDelivery, HandlerUpdate DEF Break
  <2> QED
    BY <1>6, <2>2 DEF Break, github, Unseen, TypeInv, TypeOK
<1> QED
  BY <1>1, <1>2, <1>3, <1>4, <1>5, <1>6 DEF Request

LEMMA TypeReconcile ==
  ASSUME TypeInv, NEW w \in Worker,
         Reconcile(w) \/ Recover(w) \/ Abort(w) \/ Die(w), faults' \in 0..MaxFaults
  PROVE  TypeInv'
<1> USE DEF TypeInv, TypeOK, HandlesSent, At, Elsewhere, github, deliveries, Running, End
<1>1. CASE Lease(w)
  BY <1>1 DEF Lease
<1>2. CASE LookUp(w)
  <2>1. \/ run' = [run EXCEPT ![w] = [phase |-> "reading"]] /\ UNCHANGED job
        \/ End(w)
    BY <1>2 DEF LookUp
  <2>2. UNCHANGED row /\ Elsewhere
    BY <1>2 DEF LookUp
  <2>3. CASE run' = [run EXCEPT ![w] = [phase |-> "reading"]] /\ UNCHANGED job
    BY <2>2, <2>3
  <2>4. CASE End(w)
    BY <2>2, <2>4
  <2> QED
    BY <2>1, <2>3, <2>4
<1>3. CASE Read(w)
  BY <1>3 DEF Read
<1>4. CASE Save(w)
  <2>1. run[w].pr \in Snapshot
    BY <1>4, RunType DEF Save
  <2>2. row' \in Row
    BY <1>4, <2>1, ClockType, UpsertedType DEF Save
  <2> QED
    BY <1>4, <2>2 DEF Save
<1>5. CASE Finish(w)
  <2>1. row' \in {None} \union Row
    BY <1>5, ClockType DEF Finish, Row
  <2> QED
    BY <1>5, <2>1 DEF Finish
<1>6. CASE Abort(w)
  BY <1>6 DEF Abort
<1>7. CASE Die(w)
  BY <1>7 DEF Die
<1>8. CASE Expire(w)
  BY <1>8 DEF Expire
<1> QED
  BY <1>1, <1>2, <1>3, <1>4, <1>5, <1>6, <1>7, <1>8 DEF Reconcile, Recover

LEMMA TypeInventory ==
  ASSUME TypeInv, Inventory \/ Stop, faults' \in 0..MaxFaults
  PROVE  TypeInv'
<1> USE DEF TypeInv, TypeOK, HandlesSent, At, Apart, github, deliveries
<1>1. CASE Look
  BY <1>1 DEF Look
<1>2. CASE List
  BY <1>2 DEF List
<1>3. CASE StoreListed
  <2>1. inventory.pr \in Snapshot
    BY <1>3, InventoryType DEF StoreListed
  <2>2. row' \in Row
    BY <1>3, <2>1, GitHubStampType, UpsertedType DEF StoreListed
  <2> QED
    BY <1>3, <2>2 DEF StoreListed, Enqueued
<1>4. CASE Watch
  BY <1>4 DEF Watch, Enqueued
<1>5. CASE Stop
  BY <1>5 DEF Stop
<1> QED
  BY <1>1, <1>2, <1>3, <1>4, <1>5 DEF Inventory

LEMMA InitType == Init => TypeInv
BY WatchlistAssumption
   DEF Init, TypeInv, TypeOK, HandlesSent, At, Idle, Snapshot, States, Installation

LEMMA TypeStep == TypeInv /\ [Next]_vars => TypeInv'
<1> SUFFICES ASSUME TypeInv, [Next]_vars PROVE TypeInv'
  OBVIOUS
<1>1. faults' \in 0..MaxFaults
  BY WatchlistAssumption
     DEF TypeInv, TypeOK, Next, vars, BreakOff, Reconcile, Recover, Inventory
<1>2. CASE UNCHANGED vars
  BY <1>2 DEF TypeInv, TypeOK, HandlesSent, At, vars, github, deliveries
<1> QED
  BY <1>1, <1>2, TypeGitHub, TypeRequest, TypeReconcile, TypeInventory
     DEF Next, BreakOff

(* Deliveries, handlers, workers and the inventory only write what the columns of the
   store can hold, and every request in progress is about a delivery that was sent. *)
THEOREM WatchlistTypeCorrect == Spec => []TypeOK
<1>1. TypeInv => TypeOK
  BY DEF TypeInv
<1> QED
  BY InitType, TypeStep, <1>1, PTL DEF Spec

-----------------------------------------------------------------------------
(* The inductive invariants. *)

(* What was processed, or is past its transaction, was applied. *)
ProcessedIsApplied ==
  /\ \A d \in Id : ledger[d] = "processed" => applied[d] > 0
  /\ \A h \in Handler : At(h, "enqueuing") => applied[handler[h].id] > 0

(* The advisory lock: one request at a time applies a delivery, and it saw under the
   lock that the delivery was not processed. *)
LockIsHeld ==
  \A h \in Handler : At(h, "applying") =>
    /\ ledger[handler[h].id] # "processed"
    /\ \A g \in Handler : At(g, "applying") /\ handler[g].id = handler[h].id => g = h

(* A failure that has not marked the ledger yet can still clear processed_at, and pays
   for the application that this allows. *)
FailingAt(d) == {h \in Handler : At(h, "failing") /\ handler[h].id = d}
FailuresPay ==
  \A d \in Id :
    /\ IsFiniteSet(FailingAt(d))
    /\ applied[d] + Cardinality(FailingAt(d))
         <= failed[d] + (IF ledger[d] = "processed" THEN 1 ELSE 0)

(* The installation of the repository is one the store knows. *)
InstallationKnown == repo # None => installs[repo.by] # "absent"

(* Nobody has news that GitHub does not have, and the stamp of the row does not lie
   before the time of its pull request. *)
SentIsPast == \A d \in DOMAIN sent : sent[d].pr.version <= pr.version
RunIsPast == \A w \in Worker : Running(w, "read") => run[w].pr.version <= pr.version
ListIsPast == inventory.phase = "listed" => inventory.pr.version <= pr.version
RowIsPast == row # None => row.pr.version <= pr.version /\ row.stamp >= GitHubStamp(row.pr)
NewsIsPast == SentIsPast /\ RunIsPast /\ ListIsPast /\ RowIsPast

-----------------------------------------------------------------------------
(* Deliveries. *)

Ledger == <<ledger, handler, acked, applied, failed>>

(* Only requests touch the ledger. *)
LEMMA LedgerMoves ==
  ASSUME [Next]_vars
  PROVE  UNCHANGED Ledger \/ \E h \in Handler : Request(h) \/ Fail(h) \/ Break(h)
<1> USE DEF Ledger, deliveries
<1>1. ASSUME NEW w \in Worker, Reconcile(w) \/ Recover(w) \/ Abort(w) \/ Die(w)
      PROVE  UNCHANGED Ledger
  BY <1>1 DEF Reconcile, Recover, Elsewhere, Lease, LookUp, Read, Save, Finish, Abort, Die,
              Expire
<1>2. ASSUME Inventory \/ Stop PROVE UNCHANGED Ledger
  BY <1>2 DEF Inventory, Apart, Look, List, StoreListed, Watch, Stop
<1>3. ASSUME GitHub PROVE UNCHANGED Ledger
  BY <1>3 DEF GitHub, Edit, Report, ChangeAccess, Send
<1> QED
  BY <1>1, <1>2, <1>3 DEF Next, BreakOff, vars

(* What a step of a request does to the ledger and to itself. *)
Answers(h, d) ==
  \/ /\ At(h, "idle")
     /\ ~\E g \in Handler : At(g, "applying") /\ handler[g].id = d
     /\ ledger' = [ledger EXCEPT ![d] = IF @ = "absent" THEN "recorded" ELSE @]
     /\ \/ /\ ledger[d] = "processed"
           /\ handler' = [handler EXCEPT ![h] = [phase |-> "enqueuing", id |-> d]]
        \/ /\ ledger[d] # "processed"
           /\ handler' = [handler EXCEPT ![h] = [phase |-> "applying", id |-> d]]
     /\ UNCHANGED <<acked, applied, failed>>
  \/ /\ At(h, "applying") /\ handler[h].id = d
     /\ ledger' = [ledger EXCEPT ![d] = "processed"]
     /\ applied' = [applied EXCEPT ![d] = @ + 1]
     /\ handler' = [handler EXCEPT ![h] = [phase |-> "enqueuing", id |-> d]]
     /\ UNCHANGED <<acked, failed>>
  \/ /\ At(h, "applying") /\ handler[h].id = d
     /\ failed' = [failed EXCEPT ![d] = @ + 1]
     /\ handler' = [handler EXCEPT ![h] = [phase |-> "failing", id |-> d]]
     /\ UNCHANGED <<ledger, acked, applied>>
  \/ /\ At(h, "failing") /\ handler[h].id = d
     /\ ledger' = [ledger EXCEPT ![d] = "recorded"]
     /\ handler' = [handler EXCEPT ![h] = Idle]
     /\ UNCHANGED <<acked, applied, failed>>
  \/ /\ At(h, "enqueuing") /\ handler[h].id = d
     /\ acked' = acked \union {d}
     /\ handler' = [handler EXCEPT ![h] = Idle]
     /\ UNCHANGED <<ledger, applied, failed>>
  \/ /\ ~At(h, "idle") /\ handler[h].id = d
     /\ handler' = [handler EXCEPT ![h] = Idle]
     /\ UNCHANGED <<ledger, acked, applied, failed>>

LEMMA RequestAnswers ==
  ASSUME TypeInv, NEW h \in Handler, Request(h) \/ Fail(h) \/ Break(h)
  PROVE  \E d \in Id : Answers(h, d)
<1>1. ~At(h, "idle") =>
        /\ handler[h].id \in Id
        /\ \A phase : [handler EXCEPT ![h].phase = phase]
                       = [handler EXCEPT ![h] = [phase |-> phase, id |-> handler[h].id]]
  BY HandlerDelivery
<1>2. ASSUME NEW d \in Id, Receive(h, d) PROVE Answers(h, d)
  BY <1>2 DEF Receive, Starts, Answers
<1>3. CASE Apply(h)
  BY <1>1, <1>3 DEF Apply, Answers, At
<1>4. CASE Fail(h)
  BY <1>1, <1>4 DEF Fail, Answers, At
<1>5. CASE MarkError(h)
  BY <1>1, <1>5 DEF MarkError, Answers, At
<1>6. CASE Enqueue(h)
  BY <1>1, <1>6 DEF Enqueue, Answers, At
<1>7. CASE Break(h)
  BY <1>1, <1>7 DEF Break, Answers
<1> QED
  BY <1>2, <1>3, <1>4, <1>5, <1>6, <1>7 DEF Request

LEMMA AckedStep ==
  ASSUME TypeInv, AckedIsApplied, ProcessedIsApplied, [Next]_vars
  PROVE  AckedIsApplied' /\ ProcessedIsApplied'
<1> USE DEF AckedIsApplied, ProcessedIsApplied
<1>1. CASE UNCHANGED Ledger
  BY <1>1 DEF Ledger, At
<1>2. ASSUME NEW h \in Handler, NEW d \in Id, Answers(h, d)
      PROVE  AckedIsApplied' /\ ProcessedIsApplied'
  <2>1. \A e \in Id : applied'[e] >= applied[e] /\ applied[e] \in Nat /\ applied'[e] \in Nat
    <3>1. applied' = applied \/ applied' = [applied EXCEPT ![d] = @ + 1]
      BY <1>2 DEF Answers
    <3> QED
      BY <3>1 DEF TypeInv, TypeOK
  <2>2. \A e \in Id : ledger'[e] = "processed" => applied'[e] > 0
    <3> SUFFICES ASSUME NEW e \in Id, ledger'[e] = "processed", ledger[e] # "processed"
                 PROVE  applied'[e] > 0
      BY <2>1
    <3>1. e = d /\ applied' = [applied EXCEPT ![d] = @ + 1]
      BY <1>2 DEF Answers, TypeInv, TypeOK
    <3> QED
      BY <3>1 DEF TypeInv, TypeOK
  <2>3. \A g \in Handler : At(g, "enqueuing")' => applied'[handler'[g].id] > 0
    <3> SUFFICES ASSUME NEW g \in Handler, At(g, "enqueuing")'
                 PROVE  applied'[handler'[g].id] > 0
      OBVIOUS
    <3>1. CASE g = h
      <4>1. handler'[h].id = d /\ ledger'[d] = "processed"
        BY <1>2, <3>1 DEF Answers, At, Idle, TypeInv, TypeOK
      <4> QED
        BY <2>2, <3>1, <4>1
    <3>2. CASE g # h
      <4>1. handler'[g] = handler[g]
        BY <1>2, <3>2 DEF Answers, TypeInv, TypeOK
      <4>2. handler[g].id \in Id
        BY <4>1, HandlerDelivery DEF At
      <4> QED
        BY <2>1, <4>1, <4>2 DEF At
    <3> QED
      BY <3>1, <3>2
  <2>4. \A e \in acked' : applied'[e] > 0
    <3>1. acked' = acked \/ (acked' = acked \union {d} /\ applied[d] > 0)
      BY <1>2 DEF Answers
    <3> QED
      BY <2>1, <3>1 DEF TypeInv, TypeOK
  <2> QED
    BY <2>2, <2>3, <2>4
<1> QED
  BY <1>1, <1>2, LedgerMoves, RequestAnswers

LEMMA InitAcked == Init => AckedIsApplied /\ ProcessedIsApplied
BY DEF Init, AckedIsApplied, ProcessedIsApplied, At, Idle

(* GitHub is told that a delivery was taken only after its transaction committed
   (process_delivery before the answer of the webhook), whatever copies of it are under
   way: what says "processed" was applied. *)
THEOREM AckedDeliveriesAreApplied == Spec => []AckedIsApplied
<1>1. Init => TypeInv /\ AckedIsApplied /\ ProcessedIsApplied
  BY InitType, InitAcked
<1>2. TypeInv /\ AckedIsApplied /\ ProcessedIsApplied /\ [Next]_vars
        => TypeInv' /\ AckedIsApplied' /\ ProcessedIsApplied'
  BY TypeStep, AckedStep
<1> QED
  BY <1>1, <1>2, PTL DEF Spec

LEMMA LockStep ==
  ASSUME TypeInv, LockIsHeld, [Next]_vars
  PROVE  LockIsHeld'
<1>1. CASE UNCHANGED Ledger
  BY <1>1 DEF Ledger, LockIsHeld, At
<1>2. ASSUME NEW h \in Handler, NEW d \in Id, Answers(h, d)
      PROVE  LockIsHeld'
  <2>1. \A g \in Handler \ {h} : handler'[g] = handler[g]
    BY <1>2 DEF Answers, TypeInv, TypeOK
  <2>2. At(h, "applying")' =>
          /\ ~\E g \in Handler : At(g, "applying") /\ handler[g].id = d
          /\ handler'[h].id = d /\ ledger[d] # "processed"
    BY <1>2 DEF Answers, At, Idle, TypeInv, TypeOK
  <2>3. \A g \in Handler \ {h} : At(g, "applying") => ledger'[handler[g].id] # "processed"
    <3> SUFFICES ASSUME NEW g \in Handler \ {h}, At(g, "applying"),
                        ledger'[handler[g].id] = "processed"
                 PROVE  FALSE
      OBVIOUS
    <3>1. ledger[handler[g].id] # "processed" /\ handler[g].id \in Id
      BY HandlerDelivery DEF LockIsHeld, At
    <3>2. At(h, "applying") /\ handler[h].id = d /\ handler[g].id = d
      BY <1>2, <3>1 DEF Answers, TypeInv, TypeOK
    <3> QED
      BY <3>2 DEF LockIsHeld
  <2>4. At(h, "applying")' => ledger'[d] # "processed"
    BY <1>2 DEF Answers, At, Idle, TypeInv, TypeOK
  <2> QED
    BY <2>1, <2>2, <2>3, <2>4 DEF LockIsHeld, At
<1> QED
  BY <1>1, <1>2, LedgerMoves, RequestAnswers

(* One request fewer, or one more, that failed and has not said so. *)
LEMMA FailingMoves ==
  ASSUME TypeInv, NEW h \in Handler, NEW d \in Id, Answers(h, d), NEW e \in Id,
         IsFiniteSet(FailingAt(e))
  PROVE  /\ IsFiniteSet(FailingAt(e)')
         /\ \E before, after \in Nat :
              /\ before = Cardinality(FailingAt(e)) /\ after = Cardinality(FailingAt(e)')
              /\ \/ after = before /\ (h \in FailingAt(e)' <=> h \in FailingAt(e))
                 \/ after = before + 1 /\ h \in FailingAt(e)' \ FailingAt(e)
                 \/ after = before - 1 /\ h \in FailingAt(e) \ FailingAt(e)'
<1>1. \A g \in Handler \ {h} : g \in FailingAt(e)' <=> g \in FailingAt(e)
  BY DEF Answers, FailingAt, At, TypeInv, TypeOK
<1>2. CASE h \in FailingAt(e)' <=> h \in FailingAt(e)
  <2>1. FailingAt(e)' = FailingAt(e)
    BY <1>1, <1>2 DEF FailingAt
  <2> QED
    BY <1>2, <2>1, FS_CardinalityType
<1>3. CASE h \in FailingAt(e)' \ FailingAt(e)
  <2>1. FailingAt(e)' = FailingAt(e) \union {h}
    BY <1>1, <1>3 DEF FailingAt
  <2>2. PICK n \in Nat : n = Cardinality(FailingAt(e))
    BY FS_CardinalityType
  <2>3. IsFiniteSet(FailingAt(e)') /\ Cardinality(FailingAt(e)') = n + 1
    BY <1>3, <2>1, <2>2, FS_AddElement
  <2>4. n + 1 \in Nat
    OBVIOUS
  <2> QED
    BY <1>3, <2>2, <2>3, <2>4
<1>4. CASE h \in FailingAt(e) \ FailingAt(e)'
  <2>1. FailingAt(e)' = FailingAt(e) \ {h}
    BY <1>1, <1>4 DEF FailingAt
  <2>2. PICK n \in Nat : n = Cardinality(FailingAt(e))
    BY FS_CardinalityType
  <2>3. IsFiniteSet(FailingAt(e)') /\ Cardinality(FailingAt(e)') = n - 1
    BY <1>4, <2>1, <2>2, FS_RemoveElement
  <2>4. n - 1 \in Nat
    BY <2>3, FS_CardinalityType
  <2> QED
    BY <1>4, <2>2, <2>3, <2>4
<1> QED
  BY <1>2, <1>3, <1>4

LEMMA FailuresPayStep ==
  ASSUME TypeInv, LockIsHeld, FailuresPay, [Next]_vars
  PROVE  FailuresPay'
<1>1. CASE UNCHANGED Ledger
  <2>1. \A d \in Id : FailingAt(d)' = FailingAt(d)
    BY <1>1 DEF Ledger, FailingAt, At
  <2> QED
    BY <1>1, <2>1 DEF Ledger, FailuresPay
<1>2. ASSUME NEW h \in Handler, NEW d \in Id, Answers(h, d), NEW e \in Id
      PROVE  /\ IsFiniteSet(FailingAt(e)')
             /\ applied'[e] + Cardinality(FailingAt(e)')
                  <= failed'[e] + (IF ledger'[e] = "processed" THEN 1 ELSE 0)
  <2> DEFINE processed == ledger[e] = "processed"
             joins == h \in FailingAt(e)' \ FailingAt(e)
             leaves == h \in FailingAt(e) \ FailingAt(e)'
  <2>1. IsFiniteSet(FailingAt(e))
    BY DEF FailuresPay
  <2>2. PICK before \in Nat, after \in Nat :
          /\ before = Cardinality(FailingAt(e)) /\ after = Cardinality(FailingAt(e)')
          /\ \/ after = before /\ ~joins /\ ~leaves
             \/ after = before + 1 /\ joins
             \/ after = before - 1 /\ leaves
    BY <1>2, <2>1, FailingMoves
  <2>3. IsFiniteSet(FailingAt(e)')
    BY <1>2, <2>1, FailingMoves
  <2>4. applied[e] \in Nat /\ failed[e] \in Nat
    BY DEF TypeInv, TypeOK
  <2>5. applied[e] + before <= failed[e] + (IF processed THEN 1 ELSE 0)
    BY <2>2 DEF FailuresPay
  <2>6. \/ /\ ~joins /\ applied'[e] = applied[e] /\ failed'[e] = failed[e]
           /\ (processed' <=> processed)
        \/ /\ joins /\ applied'[e] = applied[e] /\ failed'[e] = failed[e] + 1
           /\ (processed' <=> processed)
        \/ /\ ~joins /\ applied'[e] = applied[e] + 1 /\ failed'[e] = failed[e]
           /\ ~processed /\ processed'
        \/ /\ leaves /\ applied'[e] = applied[e] /\ failed'[e] = failed[e]
           /\ ~processed'
    <3> USE DEF FailingAt, At, Idle, TypeInv, TypeOK
    <3>1. CASE /\ At(h, "idle") /\ UNCHANGED <<applied, failed>>
               /\ ledger' = [ledger EXCEPT ![d] = IF @ = "absent" THEN "recorded" ELSE @]
               /\ handler' = [handler EXCEPT ![h] = [phase |-> "enqueuing", id |-> d]]
      BY <3>1
    <3>2. CASE /\ At(h, "idle") /\ UNCHANGED <<applied, failed>>
               /\ ledger' = [ledger EXCEPT ![d] = IF @ = "absent" THEN "recorded" ELSE @]
               /\ handler' = [handler EXCEPT ![h] = [phase |-> "applying", id |-> d]]
      BY <3>2
    <3>3. CASE /\ At(h, "applying") /\ handler[h].id = d /\ UNCHANGED failed
               /\ ledger' = [ledger EXCEPT ![d] = "processed"]
               /\ applied' = [applied EXCEPT ![d] = @ + 1]
               /\ handler' = [handler EXCEPT ![h] = [phase |-> "enqueuing", id |-> d]]
      <4>1. ledger[d] # "processed"
        BY <3>3 DEF LockIsHeld
      <4>2. CASE e = d
        BY <3>3, <4>1, <4>2
      <4>3. CASE e # d
        BY <3>3, <4>3
      <4> QED
        BY <4>2, <4>3
    <3>4. CASE /\ At(h, "applying") /\ handler[h].id = d /\ UNCHANGED <<ledger, applied>>
               /\ failed' = [failed EXCEPT ![d] = @ + 1]
               /\ handler' = [handler EXCEPT ![h] = [phase |-> "failing", id |-> d]]
      <4>1. CASE e = d
        BY <3>4, <4>1
      <4>2. CASE e # d
        BY <3>4, <4>2
      <4> QED
        BY <4>1, <4>2
    <3>5. CASE /\ At(h, "failing") /\ handler[h].id = d /\ UNCHANGED <<applied, failed>>
               /\ ledger' = [ledger EXCEPT ![d] = "recorded"]
               /\ handler' = [handler EXCEPT ![h] = Idle]
      <4>1. CASE e = d
        BY <3>5, <4>1
      <4>2. CASE e # d
        BY <3>5, <4>2
      <4> QED
        BY <4>1, <4>2
    <3>6. CASE UNCHANGED <<ledger, applied, failed>> /\ handler' = [handler EXCEPT ![h] = Idle]
      BY <3>6
    <3> QED
      BY <1>2, <3>1, <3>2, <3>3, <3>4, <3>5, <3>6 DEF Answers
  <2>10. joins => ~leaves
    OBVIOUS
  <2> HIDE DEF processed, joins, leaves
  <2>7. processed' => ledger'[e] = "processed"
    BY DEF processed
  <2>8. ~processed' => ledger'[e] # "processed"
    BY DEF processed
  <2>9. applied'[e] + after <= failed'[e] + (IF processed' THEN 1 ELSE 0)
    <3> DEFINE appliedOf == applied[e]
               failedOf == failed[e]
    <3>1. /\ appliedOf \in Nat /\ failedOf \in Nat
          /\ appliedOf + before <= failedOf + (IF processed THEN 1 ELSE 0)
      BY <2>4, <2>5
    <3>2. \/ /\ ~joins /\ appliedOf' = appliedOf /\ failedOf' = failedOf
             /\ (processed' <=> processed)
          \/ /\ joins /\ appliedOf' = appliedOf /\ failedOf' = failedOf + 1
             /\ (processed' <=> processed)
          \/ /\ ~joins /\ appliedOf' = appliedOf + 1 /\ failedOf' = failedOf
             /\ ~processed /\ processed'
          \/ /\ leaves /\ appliedOf' = appliedOf /\ failedOf' = failedOf
             /\ ~processed'
      BY <2>6
    <3> HIDE DEF appliedOf, failedOf
    <3>3. appliedOf' + after <= failedOf' + (IF processed' THEN 1 ELSE 0)
      <4>1. CASE after = before /\ ~joins /\ ~leaves
        BY <3>1, <3>2, <4>1
      <4>2. CASE after = before + 1 /\ joins
        BY <2>10, <3>1, <3>2, <4>2
      <4>3. CASE after = before - 1 /\ leaves
        BY <3>1, <3>2, <4>3
      <4> QED
        BY <2>2, <4>1, <4>2, <4>3
    <3> QED
      BY <3>3 DEF appliedOf, failedOf
  <2> QED
    BY <2>2, <2>3, <2>7, <2>8, <2>9
<1> QED
  BY <1>1, <1>2, LedgerMoves, RequestAnswers DEF FailuresPay

LEMMA InitLedger == Init => LockIsHeld /\ FailuresPay
<1> SUFFICES ASSUME Init PROVE LockIsHeld /\ FailuresPay
  OBVIOUS
<1>1. LockIsHeld
  BY DEF Init, LockIsHeld, At, Idle
<1>2. \A d \in Id : FailingAt(d) = {}
  BY DEF Init, FailingAt, At, Idle
<1>3. IsFiniteSet({}) /\ Cardinality({}) = 0
  BY FS_EmptySet
<1>4. \A d \in Id : applied[d] = 0 /\ failed[d] = 0
  BY DEF Init
<1>5. FailuresPay
  BY <1>2, <1>3, <1>4 DEF FailuresPay
<1> QED
  BY <1>1, <1>5

(* Copies of a delivery that come again, together or after one another, do not count
   twice: each application beyond the first is paid for by a failure of the same
   delivery (process_delivery: the advisory lock, processed_at, and the error mark that
   may clear it).  The lock alone does not give this: what has failed and not yet said
   so has to be counted. *)
THEOREM DeliveriesAreAppliedOncePerFailure == Spec => []AppliedOncePerFailure
<1>1. Init => TypeInv /\ LockIsHeld /\ FailuresPay
  BY InitType, InitLedger
<1>2. TypeInv /\ LockIsHeld /\ FailuresPay /\ [Next]_vars
        => TypeInv' /\ LockIsHeld' /\ FailuresPay'
  BY TypeStep, LockStep, FailuresPayStep
<1>3. TypeInv /\ FailuresPay => AppliedOncePerFailure
  <2> SUFFICES ASSUME TypeInv, FailuresPay, NEW d \in Id
               PROVE  applied[d] <= 1 + failed[d]
    BY DEF AppliedOncePerFailure
  <2>1. PICK n \in Nat : n = Cardinality(FailingAt(d))
    BY FS_CardinalityType DEF FailuresPay
  <2>2. applied[d] + n <= failed[d] + (IF ledger[d] = "processed" THEN 1 ELSE 0)
    BY <2>1 DEF FailuresPay
  <2>3. applied[d] \in Nat /\ failed[d] \in Nat
    BY DEF TypeInv, TypeOK
  <2> QED
    BY <2>2, <2>3
<1> QED
  BY <1>1, <1>2, <1>3, PTL DEF Spec

-----------------------------------------------------------------------------
(* Access. *)

Store == <<installs, repo, row>>

(* The three tables are written by a request that applies its delivery, and the row
   also by a reconcile and by the inventory. *)
LEMMA StoreMoves ==
  ASSUME [Next]_vars
  PROVE  \/ UNCHANGED Store
         \/ \E h \in Handler : Apply(h)
         \/ UNCHANGED <<installs, repo>> /\ \E w \in Worker : Save(w) \/ Finish(w)
         \/ UNCHANGED <<installs, repo>> /\ StoreListed
<1> USE DEF Store
<1>1. ASSUME NEW h \in Handler, Request(h) \/ Fail(h) \/ Break(h)
      PROVE  UNCHANGED Store \/ Apply(h)
  BY <1>1 DEF Request, Receive, Starts, Fail, MarkError, Enqueue, Break, Unseen
<1>2. ASSUME NEW w \in Worker, Reconcile(w) \/ Recover(w) \/ Abort(w) \/ Die(w)
      PROVE  UNCHANGED Store \/ (UNCHANGED <<installs, repo>> /\ (Save(w) \/ Finish(w)))
  BY <1>2 DEF Reconcile, Recover, Elsewhere, Lease, LookUp, Read, Save, Finish, Abort, Die,
              Expire
<1>3. ASSUME Inventory \/ Stop
      PROVE  UNCHANGED Store \/ (UNCHANGED <<installs, repo>> /\ StoreListed)
  BY <1>3 DEF Inventory, Apart, Look, List, StoreListed, Watch, Stop
<1>4. ASSUME GitHub PROVE UNCHANGED Store
  BY <1>4 DEF GitHub, Edit, Report, ChangeAccess, Unseen
<1> QED
  BY <1>1, <1>2, <1>3, <1>4 DEF Next, BreakOff, vars

(* A delivery that restores nothing leaves the installation of a known repository, and
   makes neither of them active. *)
LEMMA ApplyMoves ==
  ASSUME TypeInv, InstallationKnown, NEW d \in Delivery, ApplyDelivery(d)
  PROVE  /\ InstallationKnown'
         /\ repo # None => repo' # None /\ repo'.by = repo.by
         /\ repo # None /\ d.event \notin Restoring =>
              /\ repo'.active => repo.active
              /\ installs'[repo.by] = "active" => installs[repo.by] = "active"
<1> DEFINE r == Repository(d)
           i == Installed(d.by)
<1>1. d.by \in Installation /\ d.event \in Events
  BY DEF Delivery
<1>2. r # None => r \in [by : Installation, active : BOOLEAN, named : BOOLEAN]
  BY RepositoryType DEF TypeInv
<1>3. /\ i \in [Installation -> {"absent", "active", "suspended"}]
      /\ i[d.by] # "absent"
      /\ \A j \in Installation : installs[j] # "absent" => i[j] = installs[j]
  BY <1>1 DEF Installed, TypeInv, TypeOK
<1>7. repo # None => repo.by \in Installation /\ installs[repo.by] # "absent"
  BY DEF InstallationKnown, TypeInv, TypeOK
<1>4. /\ repo # None => r # None /\ r.by = repo.by
      /\ repo = None /\ r # None => r.by = d.by
      /\ repo # None /\ d.event \notin Restoring => r.active = repo.active
  <2>1. r = repo \/ r = [by |-> IF repo = None THEN d.by ELSE repo.by,
                         active |-> repo = None \/ repo.active
                                      \/ d.event \in {"created", "added"},
                         named |-> d.event \in {"pull_request", "status"}]
    BY DEF Repository
  <2>2. repo # None => repo.active \in BOOLEAN
    BY DEF TypeInv, TypeOK
  <2>3. CASE r = repo
    BY <2>3
  <2>4. CASE r = [by |-> IF repo = None THEN d.by ELSE repo.by,
                  active |-> repo = None \/ repo.active \/ d.event \in {"created", "added"},
                  named |-> d.event \in {"pull_request", "status"}]
    <3>1. r.by = (IF repo = None THEN d.by ELSE repo.by)
      BY <2>4
    <3>2. r.active = (repo = None \/ repo.active \/ d.event \in {"created", "added"})
      BY <2>4
    <3>3. r # None
      <4>1. r \in [by : Installation, active : BOOLEAN, named : BOOLEAN]
        BY <1>1, <1>7, <2>2, <2>4
      <4> QED
        BY <4>1, NoneIsNoRow
    <3> HIDE DEF r
    <3>4. repo # None /\ d.event \notin Restoring => r.active = repo.active
      BY <2>2, <3>2 DEF Restoring
    <3> QED
      BY <3>1, <3>3, <3>4
  <2> QED
    BY <2>1, <2>3, <2>4
<1>5. /\ repo' # None <=> r # None
      /\ r # None => repo'.by = r.by /\ (repo'.active => r.active)
  <2>1. repo' = r \/ (r # None /\ repo' = [r EXCEPT !.active = FALSE])
    BY DEF ApplyDelivery, Revokes
  <2>2. r # None =>
          [r EXCEPT !.active = FALSE] \in [by : Installation, active : BOOLEAN, named : BOOLEAN]
    BY <1>2
  <2> QED
    BY <1>2, <2>1, <2>2, NoneIsNoRow
<1>6. /\ \A j \in Installation : i[j] # "absent" => installs'[j] # "absent"
      /\ \A j \in Installation :
           d.event \notin Restoring /\ installs'[j] = "active" => i[j] = "active"
  BY <1>1, <1>3 DEF ApplyDelivery, Suspended, Restoring
<1>8. r # None => i[r.by] # "absent"
  BY <1>3, <1>4, <1>7
<1>9. InstallationKnown'
  BY <1>2, <1>5, <1>6, <1>8 DEF InstallationKnown
<1> QED
  BY <1>3, <1>4, <1>5, <1>6, <1>7, <1>9

LEMMA InstallationStep ==
  ASSUME TypeInv, InstallationKnown, [Next]_vars
  PROVE  InstallationKnown'
<1>1. ASSUME NEW h \in Handler, Apply(h) PROVE InstallationKnown'
  <2>1. sent[handler[h].id] \in Delivery
    BY <1>1, HandlerDelivery DEF Apply, At
  <2> QED
    BY <1>1, <2>1, ApplyMoves DEF Apply
<1>2. CASE UNCHANGED <<installs, repo>>
  BY <1>2 DEF InstallationKnown
<1> QED
  BY <1>1, <1>2, StoreMoves DEF Store

(* Once the store says that a repository may not be worked on, no late event of a pull
   request, no inventory and no reconcile makes it eligible: only the transaction of an
   event that restores access does (apply_access_lifecycle and the upserts before it,
   none of which may reactivate an installation it knows). *)
THEOREM RevokedRepositoriesStayRevoked == Spec => RevokedStaysRevoked
<1> DEFINE Restored ==
      repo # None /\ ~Active /\ Active' =>
        \E h \in Handler : /\ At(h, "applying") /\ At(h, "enqueuing")'
                           /\ sent[handler[h].id].event \in Restoring
<1>1. Init => TypeInv /\ InstallationKnown
  BY InitType, WatchlistAssumption DEF Init, InstallationKnown, Installation
<1>2. TypeInv /\ InstallationKnown /\ [Next]_vars
        => TypeInv' /\ InstallationKnown'
  BY TypeStep, InstallationStep
<1>3. TypeInv /\ InstallationKnown /\ [Next]_vars => [Restored]_vars
  <2> SUFFICES ASSUME TypeInv, InstallationKnown, [Next]_vars,
                      repo # None, ~Active, Active'
               PROVE  \E h \in Handler : /\ At(h, "applying") /\ At(h, "enqueuing")'
                                         /\ sent[handler[h].id].event \in Restoring
    OBVIOUS
  <2>1. ~UNCHANGED <<installs, repo>>
    BY DEF Active
  <2>2. PICK h \in Handler : Apply(h)
    BY <2>1, StoreMoves DEF Store
  <2> DEFINE d == sent[handler[h].id]
  <2>3. d \in Delivery /\ ApplyDelivery(d) /\ At(h, "applying") /\ At(h, "enqueuing")'
    <3>1. ~At(h, "idle") /\ handler' = [handler EXCEPT ![h].phase = "enqueuing"]
      BY <2>2 DEF Apply, At
    <3>2. handler' = [handler EXCEPT ![h] = [phase |-> "enqueuing", id |-> handler[h].id]]
      BY <3>1, HandlerDelivery
    <3>3. handler'[h] = [phase |-> "enqueuing", id |-> handler[h].id]
      BY <3>2 DEF TypeInv, TypeOK
    <3> QED
      BY <2>2, <3>1, <3>3, HandlerDelivery DEF Apply, At
  <2>4. ASSUME d.event \notin Restoring PROVE FALSE
    BY <2>3, <2>4, ApplyMoves DEF Active
  <2> QED
    BY <2>3, <2>4
<1> QED
  BY <1>1, <1>2, <1>3, PTL DEF Spec, RevokedStaysRevoked

-----------------------------------------------------------------------------
(* News. *)

(* GitHub only moves forward. *)
LEMMA GitHubMoves ==
  ASSUME TypeInv, [Next]_vars
  PROVE  /\ pr.version \in Nat /\ pr'.version \in Nat /\ pr.version <= pr'.version
         /\ pr \in Snapshot
<1> USE DEF github
<1>1. pr.version \in Nat /\ pr \in Snapshot
  BY DEF TypeInv, TypeOK, Snapshot
<1>2. CASE Edit
  BY <1>1, <1>2 DEF Edit
<1>3. CASE UNCHANGED pr
  BY <1>1, <1>3
<1>4. ASSUME NEW h \in Handler, Request(h) \/ Fail(h) \/ Break(h)
      PROVE  UNCHANGED pr
  BY <1>4 DEF Request, Receive, Starts, Apply, Fail, MarkError, Enqueue, Break
<1>5. ASSUME NEW w \in Worker, Reconcile(w) \/ Recover(w) \/ Abort(w) \/ Die(w)
      PROVE  UNCHANGED pr
  BY <1>5 DEF Reconcile, Recover, Elsewhere, Lease, LookUp, Read, Save, Finish, Abort, Die,
              Expire
<1>6. ASSUME Inventory \/ Stop PROVE UNCHANGED pr
  BY <1>6 DEF Inventory, Apart, Look, List, StoreListed, Watch, Stop
<1> QED
  BY <1>1, <1>2, <1>3, <1>4, <1>5, <1>6 DEF Next, BreakOff, vars, GitHub, Report, ChangeAccess

LEMMA SentIsPastStep ==
  ASSUME TypeInv, SentIsPast, [Next]_vars
  PROVE  SentIsPast'
<1>1. CASE UNCHANGED sent
  <2>1. \A d \in DOMAIN sent : sent[d].pr.version \in Nat
    <3> SUFFICES ASSUME NEW d \in DOMAIN sent PROVE sent[d].pr.version \in Nat
      OBVIOUS
    <3>1. sent[d] \in Delivery
      BY DEF TypeInv, TypeOK
    <3> QED
      BY <3>1 DEF Delivery, Snapshot
  <2> QED
    BY <1>1, <2>1, GitHubMoves DEF SentIsPast
<1>2. ASSUME NEW e \in Events, Send(e) PROVE SentIsPast'
  <2>1. sent' = Append(sent, [event |-> e, by |-> access'.by, pr |-> pr'])
    BY <1>2 DEF Send
  <2>2. [event |-> e, by |-> access'.by, pr |-> pr'] \in Delivery
    BY TypeStep DEF TypeInv, TypeOK, Delivery
  <2>3. sent \in Seq(Delivery)
    BY DEF TypeInv, TypeOK
  <2> SUFFICES ASSUME NEW d \in DOMAIN sent' PROVE sent'[d].pr.version <= pr'.version
    BY DEF SentIsPast
  <2>4. CASE d = Len(sent) + 1
    <3>1. sent'[d] = [event |-> e, by |-> access'.by, pr |-> pr']
      BY <2>1, <2>2, <2>3, <2>4
    <3> QED
      BY <3>1, GitHubMoves
  <2>5. CASE d # Len(sent) + 1
    <3>1. d \in DOMAIN sent /\ sent'[d] = sent[d]
      BY <2>1, <2>2, <2>3, <2>5
    <3>2. sent[d] \in Delivery
      BY <2>3, <3>1
    <3>3. sent[d].pr.version \in Nat
      BY <3>2 DEF Delivery, Snapshot
    <3> QED
      BY <3>1, <3>3, GitHubMoves DEF SentIsPast
  <2> QED
    BY <2>4, <2>5
<1>3. ASSUME NEW h \in Handler, Request(h) \/ Fail(h) \/ Break(h)
      PROVE  UNCHANGED sent
  BY <1>3 DEF Request, Receive, Starts, Apply, Fail, MarkError, Enqueue, Break
<1>4. ASSUME NEW w \in Worker, Reconcile(w) \/ Recover(w) \/ Abort(w) \/ Die(w)
      PROVE  UNCHANGED sent
  BY <1>4 DEF Reconcile, Recover, Elsewhere, Lease, LookUp, Read, Save, Finish, Abort, Die,
              Expire, deliveries
<1>5. ASSUME Inventory \/ Stop PROVE UNCHANGED sent
  BY <1>5 DEF Inventory, Apart, Look, List, StoreListed, Watch, Stop, deliveries
<1> QED
  BY <1>1, <1>2, <1>3, <1>4, <1>5
     DEF Next, BreakOff, vars, deliveries, GitHub, Edit, Report, ChangeAccess, Events

LEMMA RunIsPastStep ==
  ASSUME TypeInv, RunIsPast, [Next]_vars
  PROVE  RunIsPast'
<1>1. CASE UNCHANGED run
  <2>1. \A w \in Worker : Running(w, "read") => run[w].pr.version \in Nat
    BY RunType DEF TypeInv, Snapshot
  <2> QED
    BY <1>1, <2>1, GitHubMoves DEF RunIsPast, Running
<1>2. ASSUME NEW w \in Worker, Reconcile(w) \/ Recover(w) \/ Abort(w) \/ Die(w)
      PROVE  RunIsPast'
  <2>1. /\ UNCHANGED pr
        /\ \/ UNCHANGED run
           \/ \E x \in {Idle} \union [phase : {"leased", "reading", "saved"}]
                         \union {[phase |-> "read", pr |-> pr]} :
                run' = [run EXCEPT ![w] = x]
    <3> USE <1>2 DEF Elsewhere, github, End, Abort, Die, Reconcile, Recover
    <3>1. UNCHANGED pr
      BY DEF Lease, LookUp, Read, Save, Finish, Expire
    <3>2. CASE Lease(w) \/ Abort(w) \/ Die(w) \/ Finish(w) \/ Save(w) \/ Read(w) \/ Expire(w)
      BY <3>1, <3>2 DEF Lease, Finish, Save, Read, Expire
    <3>3. CASE LookUp(w)
      BY <3>1, <3>3 DEF LookUp
    <3> QED
      BY <3>2, <3>3
  <2>2. ASSUME NEW x \in {Idle} \union [phase : {"leased", "reading", "saved"}]
                           \union {[phase |-> "read", pr |-> pr]},
               run' = [run EXCEPT ![w] = x], UNCHANGED pr
        PROVE  RunIsPast'
    <3>1. run'[w] = x /\ \A v \in Worker \ {w} : run'[v] = run[v]
      BY <2>2 DEF TypeInv, TypeOK
    <3>2. x.phase = "read" => x.pr = pr
      BY DEF Idle
    <3>3. pr.version <= pr.version
      BY GitHubMoves
    <3> QED
      BY <2>2, <3>1, <3>2, <3>3 DEF RunIsPast, Running
  <2> QED
    BY <1>1, <2>1, <2>2
<1>3. ASSUME NEW h \in Handler, Request(h) \/ Fail(h) \/ Break(h)
      PROVE  UNCHANGED run
  BY <1>3 DEF Request, Receive, Starts, Apply, Fail, MarkError, Enqueue, Break, Unseen
<1>4. ASSUME Inventory \/ Stop PROVE UNCHANGED run
  BY <1>4 DEF Inventory, Apart, Look, List, StoreListed, Watch, Stop
<1>5. ASSUME GitHub PROVE UNCHANGED run
  BY <1>5 DEF GitHub, Edit, Report, ChangeAccess, Unseen
<1> QED
  BY <1>1, <1>2, <1>3, <1>4, <1>5 DEF Next, BreakOff, vars

LEMMA ListIsPastStep ==
  ASSUME TypeInv, ListIsPast, [Next]_vars
  PROVE  ListIsPast'
<1>1. CASE UNCHANGED inventory
  <2>1. inventory.phase = "listed" => inventory.pr.version \in Nat
    BY InventoryType DEF TypeInv, Snapshot
  <2> QED
    BY <1>1, <2>1, GitHubMoves DEF ListIsPast
<1>2. ASSUME Inventory \/ Stop PROVE ListIsPast'
  <2>1. \/ inventory' = Idle
        \/ inventory' \in [phase : {"listing", "watching"}]
        \/ inventory' = [phase |-> "listed", pr |-> pr] /\ UNCHANGED pr
    BY <1>2 DEF Inventory, Look, List, StoreListed, Watch, Stop, Apart, github
  <2> QED
    BY <2>1, GitHubMoves DEF ListIsPast, Idle
<1>3. ASSUME NEW h \in Handler, Request(h) \/ Fail(h) \/ Break(h)
      PROVE  UNCHANGED inventory
  BY <1>3 DEF Request, Receive, Starts, Apply, Fail, MarkError, Enqueue, Break, Unseen
<1>4. ASSUME NEW w \in Worker, Reconcile(w) \/ Recover(w) \/ Abort(w) \/ Die(w)
      PROVE  UNCHANGED inventory
  BY <1>4 DEF Reconcile, Recover, Elsewhere, Lease, LookUp, Read, Save, Finish, Abort, Die,
              Expire
<1>5. ASSUME GitHub PROVE UNCHANGED inventory
  BY <1>5 DEF GitHub, Edit, Report, ChangeAccess, Unseen
<1> QED
  BY <1>1, <1>2, <1>3, <1>4, <1>5 DEF Next, BreakOff, vars

(* The guard of upsert_pull_request, with a stamp that is not before the time of the
   snapshot. *)
LEMMA UpsertMoves ==
  ASSUME TypeInv, RowIsPast, NEW snapshot \in Snapshot, NEW stamp \in Stamps,
         snapshot.version <= pr.version, stamp >= GitHubStamp(snapshot),
         row' = Upserted(row, snapshot, stamp)
  PROVE  /\ row' # None /\ row'.pr.version <= pr.version /\ row'.stamp >= GitHubStamp(row'.pr)
         /\ row # None /\ stamp = GitHubStamp(snapshot) => ~(row'.pr.version < row.pr.version)
<1>1. CASE row # None /\ row.stamp > stamp
  <2>1. row' = row /\ row \in Row
    BY <1>1 DEF Upserted, TypeInv, TypeOK
  <2>2. row.pr.version \in Nat
    BY <2>1 DEF Row, Snapshot
  <2> QED
    BY <1>1, <2>1, <2>2 DEF RowIsPast
<1>2. CASE ~(row # None /\ row.stamp > stamp)
  <2>1. row' = [pr |-> snapshot, watched |-> snapshot.state = "open", stamp |-> stamp]
    BY <1>2 DEF Upserted
  <2>2. row' \in Row /\ row'.pr = snapshot /\ row'.stamp = stamp
    BY <2>1 DEF Row
  <2>3. ASSUME row # None, stamp = GitHubStamp(snapshot)
        PROVE  ~(snapshot.version < row.pr.version)
    <3>1. row \in Row
      BY <2>3 DEF TypeInv, TypeOK
    <3>2. row.pr.version \in Nat /\ row.stamp \in Nat /\ snapshot.version \in Nat
      BY <3>1 DEF Row, Snapshot, Stamps
    <3>3. row.stamp <= 2 * snapshot.version /\ row.stamp >= 2 * row.pr.version
      BY <1>2, <2>3, <3>2 DEF RowIsPast, GitHubStamp
    <3> QED
      BY <3>2, <3>3
  <2> QED
    BY <2>2, <2>3, NoneIsNoRow
<1> QED
  BY <1>1, <1>2

(* The stamp of the local clock is later than the time of what GitHub had. *)
LEMMA ClockIsLater ==
  ASSUME pr \in Snapshot, NEW snapshot \in Snapshot, snapshot.version <= pr.version
  PROVE  Clock >= GitHubStamp(snapshot)
<1>1. pr.version \in Nat /\ snapshot.version \in Nat
  BY DEF Snapshot
<1> QED
  BY <1>1 DEF Clock, GitHubStamp

(* Every write to the row, in the terms of its two columns. *)
LEMMA RowMoves ==
  ASSUME TypeInv, SentIsPast, RunIsPast, ListIsPast, RowIsPast, [Next]_vars
  PROVE  /\ RowIsPast'
         /\ \/ row # None => ~(row'.pr.version < row.pr.version)
            \/ \E w \in Worker : Save(w)
<1>1. row # None => row \in Row /\ row.pr \in Snapshot /\ row.pr.version \in Nat
  BY DEF TypeInv, TypeOK, Row, Snapshot
<1>2. ASSUME UNCHANGED row
      PROVE  /\ RowIsPast'
             /\ row # None => ~(row'.pr.version < row.pr.version)
  BY <1>1, <1>2, GitHubMoves DEF RowIsPast, GitHubStamp
<1>3. ASSUME NEW stamp \in Stamps, stamp = Clock, pr' = pr,
             row # None, row'.pr = row.pr, row'.stamp = stamp
      PROVE  /\ RowIsPast'
             /\ ~(row'.pr.version < row.pr.version)
  <2>1. row.pr.version <= pr.version
    BY <1>3 DEF RowIsPast
  <2>2. Clock >= GitHubStamp(row.pr)
    BY <1>1, <1>3, <2>1, GitHubMoves, ClockIsLater
  <2> QED
    BY <1>1, <1>3, <2>1, <2>2 DEF RowIsPast, GitHubStamp
<1>4. ASSUME NEW h \in Handler, Apply(h)
      PROVE  /\ RowIsPast'
             /\ row # None => ~(row'.pr.version < row.pr.version)
  <2> DEFINE d == sent[handler[h].id]
  <2>1. d \in Delivery /\ d.pr.version <= pr.version /\ pr' = pr
    BY <1>4, HandlerDelivery DEF Apply, At, SentIsPast, github
  <2>2. CASE row' = Unwatched(row)
    <3>1. CASE row = None
      BY <2>2, <3>1 DEF Unwatched, RowIsPast
    <3>2. CASE row # None
      <4>1. row'.pr = row.pr /\ row'.stamp = Clock
        BY <1>1, <2>2, <3>2 DEF Unwatched, Row
      <4> QED
        BY <1>3, <2>1, <3>2, <4>1, ClockType, GitHubMoves
    <3> QED
      BY <3>1, <3>2
  <2>3. CASE row' = Upserted(row, d.pr, GitHubStamp(d.pr))
    <3>1. d.pr \in Snapshot
      BY <2>1 DEF Delivery
    <3>2. GitHubStamp(d.pr) \in Stamps /\ GitHubStamp(d.pr) >= GitHubStamp(d.pr)
      BY <3>1, GitHubStampType DEF Stamps
    <3> QED
      BY <2>1, <2>3, <3>1, <3>2, UpsertMoves DEF RowIsPast, GitHubStamp
  <2> QED
    BY <1>2, <1>4, <2>2, <2>3 DEF Apply, ApplyDelivery
<1>5. ASSUME NEW w \in Worker, Save(w)
      PROVE  RowIsPast'
  <2>1. run[w].pr \in Snapshot /\ run[w].pr.version <= pr.version /\ pr' = pr
    BY <1>5, RunType DEF Save, RunIsPast, TypeInv, Elsewhere, github
  <2>2. Clock \in Stamps /\ Clock >= GitHubStamp(run[w].pr)
    BY <2>1, GitHubMoves, ClockType, ClockIsLater
  <2> QED
    BY <1>5, <2>1, <2>2, UpsertMoves DEF Save, RowIsPast, GitHubStamp
<1>6. ASSUME NEW w \in Worker, Finish(w)
      PROVE  /\ RowIsPast'
             /\ row # None => ~(row'.pr.version < row.pr.version)
  <2>1. pr' = pr
    BY <1>6 DEF Finish, Elsewhere, github
  <2>2. CASE row = None
    BY <1>6, <2>2 DEF Finish, RowIsPast
  <2>3. CASE row # None
    <3>1. row'.pr = row.pr /\ row'.stamp = Clock
      BY <1>1, <1>6, <2>3 DEF Finish, Row
    <3> QED
      BY <1>3, <2>1, <2>3, <3>1, ClockType, GitHubMoves
  <2> QED
    BY <2>2, <2>3
<1>7. ASSUME StoreListed
      PROVE  /\ RowIsPast'
             /\ row # None => ~(row'.pr.version < row.pr.version)
  <2>1. inventory.pr \in Snapshot /\ inventory.pr.version <= pr.version /\ pr' = pr
    BY <1>7, InventoryType DEF StoreListed, ListIsPast, TypeInv, Apart, github
  <2>2. GitHubStamp(inventory.pr) \in Stamps
          /\ GitHubStamp(inventory.pr) >= GitHubStamp(inventory.pr)
    BY <2>1, GitHubStampType DEF Stamps
  <2> QED
    BY <1>7, <2>1, <2>2, UpsertMoves DEF StoreListed, RowIsPast, GitHubStamp
<1> QED
  BY <1>2, <1>4, <1>5, <1>6, <1>7, StoreMoves DEF Store

LEMMA NewsIsPastStep == TypeInv /\ NewsIsPast /\ [Next]_vars => NewsIsPast'
BY SentIsPastStep, RunIsPastStep, ListIsPastStep, RowMoves DEF NewsIsPast

(* A reconcile stores what it read, or leaves a row that is stamped later. *)
LEMMA SaveMoves ==
  ASSUME TypeInv, NEW w \in Worker, Save(w), row # None,
         row'.pr.version < row.pr.version
  PROVE  Running(w, "read") /\ Running(w, "saved")' /\ row'.pr = run[w].pr
<1>1. row.pr.version \in Nat
  BY DEF TypeInv, TypeOK, Row, Snapshot
<1>2. Running(w, "read") /\ Running(w, "saved")'
  BY DEF Save, Running, TypeInv, TypeOK
<1>3. row' # row
  BY <1>1
<1>4. row'.pr = run[w].pr
  BY <1>3 DEF Save, Upserted
<1> QED
  BY <1>2, <1>4

(* A delivery or the inventory, however late, never takes the row back to an older state
   of the pull request: the stamp that upsert_pull_request compares is never earlier than
   what the row says, even when a reconcile or a revocation wrote it with the local clock.
   What takes it back is always the Save of a reconcile, to what that one read. *)
THEOREM LateNewsIsAlwaysDropped == Spec => LateNewsIsDropped
<1>1. Init => TypeInv /\ NewsIsPast
  BY InitType
     DEF Init, NewsIsPast, SentIsPast, RunIsPast, ListIsPast, RowIsPast, Running, Idle
<1>2. TypeInv /\ NewsIsPast /\ [Next]_vars => TypeInv' /\ NewsIsPast'
  BY TypeStep, NewsIsPastStep
<1>3. TypeInv /\ NewsIsPast /\ [Next]_vars
        => [row # None /\ row'.pr.version < row.pr.version =>
              \E w \in Worker : /\ Running(w, "read") /\ Running(w, "saved")'
                                /\ row'.pr = run[w].pr]_vars
  <2> SUFFICES ASSUME TypeInv, NewsIsPast, [Next]_vars, row # None,
                      row'.pr.version < row.pr.version
               PROVE  \E w \in Worker : /\ Running(w, "read") /\ Running(w, "saved")'
                                        /\ row'.pr = run[w].pr
    OBVIOUS
  <2>1. \E w \in Worker : Save(w)
    BY RowMoves DEF NewsIsPast
  <2> QED
    BY <2>1, SaveMoves
<1> QED
  BY <1>1, <1>2, <1>3, PTL DEF Spec, LateNewsIsDropped

=============================================================================
