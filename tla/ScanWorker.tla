----------------------------- MODULE ScanWorker -----------------------------
(***************************************************************************)
(* The asynchronous half of the control plane: the messages of the Service *)
(* Bus queue, the workers that process them (processScanMessage) and the   *)
(* PostgreSQL transactions of scan-store.js.                               *)
(*                                                                         *)
(* A delivery is identified by its message and the one-based delivery      *)
(* count.  A delivery is processed once and draws one attempt id           *)
(* (randomUUID), so the delivery <<m, n>> stands for that attempt id too.  *)
(* Every transaction and every settlement call may fail, with its effect   *)
(* applied (only the acknowledgement is lost) or not; a worker may crash   *)
(* and the lock of a message may expire at any step.                       *)
(***************************************************************************)
EXTENDS Integers

CONSTANTS
  Scans,         (* scan ids, each committed by the API as PENDING/RESERVED  *)
  Messages,      (* copies that the publisher or the replay script may send  *)
  Workers,       (* message-processing slots, whatever process holds them    *)
  MaxDelivery,   (* max_delivery_count of the queue and the worker's config  *)
  Malformed,     (* scans whose message fails the contract validation        *)
  Unledgered,    (* scans of an older release, without a scan_reserved entry *)
  OperatorTools, (* whether operators run dlq-replay.js and purge-dlq.js     *)
  None           (* the NULL of attempt ids, deliveries and lock holders     *)

Attempts == Messages \X (1..MaxDelivery)

ASSUME MaxDeliveryAssumption == MaxDelivery \in Nat \ {0}
ASSUME ScanSetsAssumption == Malformed \subseteq Scans /\ Unledgered \subseteq Scans
ASSUME NoneAssumption == None \notin Attempts \cup Workers
ASSUME ToolsAssumption == OperatorTools \in BOOLEAN
\* The id of a replayed message is its own, never the id of a scan.
ASSUME IdentityAssumption == Messages \cap Scans = {}

VARIABLES
  message,  (* the queue: scan, id, state, lock holder, count of each copy   *)
  worker,   (* the control point of each slot and the delivery it handles    *)
  scan,     (* table scans, with the attempt that wrote scan_results         *)
  attempt,  (* table scan_attempts: the status of each attempt               *)
  ledger    (* table billing_usage_ledger: entries per scan and event type   *)

vars == <<message, worker, scan, attempt, ledger>>

MessageStates == {"unsent", "queued", "locked", "done", "dlq", "purged"}
AttemptStatus ==
  {"NONE", "STARTED", "RETRYABLE", "SKIPPED", "COMPLETED", "FAILED", "DEAD_LETTERED"}
ScanStatus == {"PENDING", "IN_PROGRESS", "DONE", "FAILED", "DELETED"}
BillingStates == {"RESERVED", "CONSUMED", "REFUNDED"}
ControlPoints ==
  {"idle", "begin", "reject", "run", "limit", "audited", "failed", "settle"}
Calls == {"complete", "abandon", "deadLetter"}
Failures == {"retryable", "terminal", "disabled"}
Events == {"scan_reserved", "scan_consumed", "scan_refunded"}

Finished(s) == scan[s].status \in {"DONE", "FAILED"}

-----------------------------------------------------------------------------
(* Worker control points.  A settlement call carries what its handler does *)
(* when the call throws: abandon the message, classify the error, or let   *)
(* it escape to the receive loop.                                          *)

Point(point, d) ==
  [point |-> point, delivery |-> d,
   call |-> "complete", onError |-> "throw", failure |-> "terminal"]

Idle == Point("idle", None)

Settling(call, onError, d) ==
  [Point("settle", d) EXCEPT !.call = call, !.onError = onError]

Failing(failure, d) == [Point("failed", d) EXCEPT !.failure = failure]

At(w, point) == worker[w].point = point

Continue(w, next) == worker' = [worker EXCEPT ![w] = next]

\* The delivery of a busy slot, and the scan its message is about.
MessageOf(w) == worker[w].delivery[1]
ScanOf(w) == message[MessageOf(w)].scan

-----------------------------------------------------------------------------
(* The broker (Azure Service Bus, peek-lock).                              *)

\* A message that comes back is queued again, or dead-lettered once its
\* delivery count has reached the maximum.
Released(m) ==
  [message[m] EXCEPT
     !.state  = IF message[m].count >= MaxDelivery THEN "dlq" ELSE "queued",
     !.holder = None]

Moved(m, state) == [message[m] EXCEPT !.state = state, !.holder = None]

HoldsLock(w) ==
  LET m == MessageOf(w) IN
  /\ message[m].state = "locked"
  /\ message[m].holder = w
  /\ message[m].count = worker[w].delivery[2]

Settlement(w) ==
  LET m    == MessageOf(w)
      call == worker[w].call
  IN  message' = [message EXCEPT ![m] =
        IF call = "abandon" THEN Released(m)
        ELSE Moved(m, IF call = "complete" THEN "done" ELSE "dlq")]

-----------------------------------------------------------------------------
(* The transactions of scan-store.js, each one atomic: what they do to the *)
(* tables when they commit, for the attempt d of scan s.                   *)

\* Mutant: processing_attempt_id is not compared.
OwnsByStatus(s, d) == scan[s].status = "IN_PROGRESS"

Owns(s, d) == scan[s].status = "IN_PROGRESS" /\ scan[s].owner = d

\* The attempt that owns the scan came from a message with the same id.
SameMessage(s, d) ==
  /\ scan[s].status = "IN_PROGRESS"
  /\ scan[s].owner # None
  /\ message[scan[s].owner[1]].id = message[d[1]].id

SameMessageRedelivery(s, d) == SameMessage(s, d) /\ d[2] > scan[s].owner[2]

\* Mutant: a FAILED scan may run again.
CanAcquireFailed(s, d) ==
  scan[s].status \in {"PENDING", "FAILED"} \/ SameMessageRedelivery(s, d)

CanAcquire(s, d) == scan[s].status = "PENDING" \/ SameMessageRedelivery(s, d)

\* UPDATE scan_attempts ... WHERE attempt_id: no effect on a deleted row.
SetAttempt(d, status) ==
  attempt' = [attempt EXCEPT ![d] = IF attempt[d] = "NONE" THEN "NONE" ELSE status]

InsertAttempt(d, status) == attempt' = [attempt EXCEPT ![d] = status]

\* Mutant: the superseded attempt is left STARTED.
AcquireWithoutClosing(s, d) ==
  /\ CanAcquire(s, d)
  /\ scan' = [scan EXCEPT ![s].status = "IN_PROGRESS", ![s].owner = d]
  /\ InsertAttempt(d, "STARTED")

\* beginAttempt, when the scan can be acquired: the attempt of an unsettled
\* earlier delivery is closed as RETRYABLE and superseded as the owner.
Acquire(s, d) ==
  /\ CanAcquire(s, d)
  /\ scan' = [scan EXCEPT ![s].status = "IN_PROGRESS", ![s].owner = d]
  /\ attempt' = [a \in Attempts |->
       IF a = d THEN "STARTED"
       ELSE IF a = scan[s].owner /\ attempt[a] = "STARTED" THEN "RETRYABLE"
       ELSE attempt[a]]

\* beginAttempt, when it cannot (SCAN_NOT_ACQUIRABLE or SCAN_NOT_FOUND).
Decline(s, d) ==
  /\ ~CanAcquire(s, d)
  /\ \/ scan[s].status = "DELETED" /\ UNCHANGED attempt
     \/ scan[s].status # "DELETED" /\ InsertAttempt(d, "SKIPPED")
  /\ UNCHANGED scan

BeginTransaction(s, d) == (Acquire(s, d) \/ Decline(s, d)) /\ UNCHANGED ledger

\* transitionBillingState: the ledger entry is written once, and only next to
\* a scan_reserved entry; the state of the scan is set in any case.
BillingEvent(s, event) ==
  ledger' = IF ledger[s]["scan_reserved"] = 1 /\ ledger[s][event] = 0
            THEN [ledger EXCEPT ![s][event] = @ + 1]
            ELSE ledger

Finish(s, status, owner, d, billing) ==
  scan' = [scan EXCEPT ![s] =
             [status |-> status, owner |-> owner, billing |-> billing, result |-> d]]

\* Mutant: the result is saved whoever owns the scan.
MarkCompletedByAnyone(s, d) ==
  /\ scan[s].status # "DELETED"
  /\ Finish(s, "DONE", d, d, "CONSUMED")
  /\ BillingEvent(s, "scan_consumed")
  /\ SetAttempt(d, "COMPLETED")

MarkCompleted(s, d) ==
  \/ /\ Owns(s, d)
     /\ Finish(s, "DONE", d, d, "CONSUMED")
     /\ BillingEvent(s, "scan_consumed")
     /\ SetAttempt(d, "COMPLETED")
  \/ /\ ~Owns(s, d)
     /\ SetAttempt(d, "SKIPPED")
     /\ UNCHANGED <<scan, ledger>>

\* Mutant: a lost attempt still fails the scan.
MarkFailedByAnyone(s, d, attemptStatus) ==
  /\ scan[s].status # "DELETED"
  /\ Finish(s, "FAILED", d, d, "REFUNDED")
  /\ BillingEvent(s, "scan_refunded")
  /\ SetAttempt(d, attemptStatus)

MarkFailed(s, d, attemptStatus) ==
  \/ /\ Owns(s, d)
     /\ Finish(s, "FAILED", d, d, "REFUNDED")
     /\ BillingEvent(s, "scan_refunded")
     /\ SetAttempt(d, attemptStatus)
  \/ /\ ~Owns(s, d)
     /\ SetAttempt(d, "SKIPPED")
     /\ UNCHANGED <<scan, ledger>>

\* Mutant: the status of the attempt is written into the scan.
MarkRetryableInScan(s, d) ==
  /\ scan' = [scan EXCEPT ![s].status = IF Owns(s, d) THEN "RETRYABLE" ELSE @]
  /\ SetAttempt(d, "RETRYABLE")
  /\ UNCHANGED ledger

MarkRetryable(s, d) ==
  /\ UNCHANGED ledger
  /\ \/ /\ Owns(s, d)
        /\ scan' = [scan EXCEPT ![s].status = "PENDING", ![s].owner = None]
        /\ SetAttempt(d, "RETRYABLE")
     \/ /\ ~Owns(s, d)
        /\ SetAttempt(d, "SKIPPED")
        /\ UNCHANGED scan

MarkRejected(s, d) ==
  \/ /\ scan[s].status = "PENDING"
     /\ Finish(s, "FAILED", None, d, "REFUNDED")
     /\ BillingEvent(s, "scan_refunded")
     /\ InsertAttempt(d, "DEAD_LETTERED")
  \/ /\ scan[s].status \notin {"PENDING", "DELETED"}
     /\ InsertAttempt(d, "SKIPPED")
     /\ UNCHANGED <<scan, ledger>>
  \/ /\ scan[s].status = "DELETED"
     /\ UNCHANGED <<scan, attempt, ledger>>

Tables == <<scan, attempt, ledger>>

-----------------------------------------------------------------------------
(* processScanMessage, one action per transaction or settlement call.  Each *)
(* "Fails" action is the call throwing; the effect may still be applied.   *)

Init ==
  /\ message = [m \in Messages |->
       [scan |-> None, id |-> None, state |-> "unsent", holder |-> None, count |-> 0]]
  /\ worker = [w \in Workers |-> Idle]
  /\ scan = [s \in Scans |->
       [status |-> "PENDING", owner |-> None, billing |-> "RESERVED", result |-> None]]
  /\ attempt = [a \in Attempts |-> "NONE"]
  /\ ledger = [s \in Scans |-> [e \in Events |->
       IF e = "scan_reserved" /\ s \notin Unledgered THEN 1 ELSE 0]]

Receive(w, m) ==
  LET d == <<m, message[m].count + 1>> IN
  /\ At(w, "idle")
  /\ message[m].state = "queued"
  /\ message' = [message EXCEPT ![m].state = "locked", ![m].holder = w, ![m].count = @ + 1]
  /\ Continue(w, Point(IF message[m].scan \in Malformed THEN "reject" ELSE "begin", d))
  /\ UNCHANGED Tables

BeginAttempt(w) ==
  LET s == ScanOf(w)
      d == worker[w].delivery
  IN  /\ At(w, "begin")
      /\ BeginTransaction(s, d)
      /\ \/ CanAcquire(s, d) /\ Continue(w, Point("run", d))
         \/ /\ ~CanAcquire(s, d)
            /\ Continue(w, Settling(IF SameMessage(s, d) THEN "abandon" ELSE "complete",
                                    "abandon", d))
      /\ UNCHANGED message

BeginAttemptFails(w) ==
  LET d == worker[w].delivery IN
  /\ At(w, "begin")
  /\ BeginTransaction(ScanOf(w), d) \/ UNCHANGED Tables
  /\ Continue(w, Settling("abandon", "throw", d))
  /\ UNCHANGED message

\* A body without the ids of a scan and tenant (safeMessageIdentity) is dead-lettered
\* with nothing to record; any malformed message may have one.
Reject(w) ==
  LET d == worker[w].delivery IN
  /\ At(w, "reject")
  /\ MarkRejected(ScanOf(w), d) \/ UNCHANGED Tables
  /\ Continue(w, Settling("deadLetter", "throw", d))
  /\ UNCHANGED message

RejectFails(w) ==
  LET d == worker[w].delivery IN
  /\ At(w, "reject")
  /\ MarkRejected(ScanOf(w), d) \/ UNCHANGED Tables
  /\ Continue(w, Settling("abandon", "throw", d))
  /\ UNCHANGED message

\* markResourcePreflight updates nothing: the handler returns, unsettled.
PreflightLost(w) ==
  /\ At(w, "run")
  /\ ~Owns(ScanOf(w), worker[w].delivery)
  /\ Continue(w, Idle)
  /\ UNCHANGED <<message, Tables>>

PreflightOverLimit(w) ==
  /\ At(w, "run")
  /\ Owns(ScanOf(w), worker[w].delivery)
  /\ Continue(w, Point("limit", worker[w].delivery))
  /\ UNCHANGED <<message, Tables>>

\* The modules run without touching the tables; anything may happen meanwhile.
RunAudit(w) ==
  /\ At(w, "run")
  /\ Continue(w, Point("audited", worker[w].delivery))
  /\ UNCHANGED <<message, Tables>>

RunFails(w) ==
  /\ At(w, "run")
  /\ \E failure \in Failures : Continue(w, Failing(failure, worker[w].delivery))
  /\ UNCHANGED <<message, Tables>>

\* After a terminal transaction of an owner the message is settled; an attempt
\* that lost the scan returns and leaves the message locked.
SettleIfOwned(w, call, onError) ==
  LET d == worker[w].delivery IN
  Continue(w, IF Owns(ScanOf(w), d) THEN Settling(call, onError, d) ELSE Idle)

RejectOverLimit(w) ==
  /\ At(w, "limit")
  /\ MarkFailed(ScanOf(w), worker[w].delivery, "FAILED")
  /\ SettleIfOwned(w, "complete", "classify")
  /\ UNCHANGED message

Complete(w) ==
  /\ At(w, "audited")
  /\ MarkCompleted(ScanOf(w), worker[w].delivery)
  /\ SettleIfOwned(w, "complete", "classify")
  /\ UNCHANGED message

\* A database error is retryable or terminal by its message and code; the
\* result exceeding its size limit is terminal and rolls back.
OutcomeFails(w) ==
  LET s == ScanOf(w)
      d == worker[w].delivery
  IN  /\ \/ At(w, "limit") /\ (MarkFailed(s, d, "FAILED") \/ UNCHANGED Tables)
         \/ At(w, "audited") /\ (MarkCompleted(s, d) \/ UNCHANGED Tables)
      /\ \E failure \in {"retryable", "terminal"} : Continue(w, Failing(failure, d))
      /\ UNCHANGED message

\* The catch block of an acquired attempt: another delivery, or the end.
RetryAllowed(w) ==
  worker[w].failure = "retryable" /\ worker[w].delivery[2] < MaxDelivery

\* Mutant: the message is completed, not abandoned.
RetryLaterCompletes(w) ==
  /\ At(w, "failed")
  /\ RetryAllowed(w)
  /\ MarkRetryable(ScanOf(w), worker[w].delivery)
  /\ SettleIfOwned(w, "complete", "abandon")
  /\ UNCHANGED message

RetryLater(w) ==
  /\ At(w, "failed")
  /\ RetryAllowed(w)
  /\ MarkRetryable(ScanOf(w), worker[w].delivery)
  /\ SettleIfOwned(w, "abandon", "abandon")
  /\ UNCHANGED message

GiveUp(w) ==
  LET deadLettered == worker[w].failure \in {"retryable", "disabled"} IN
  /\ At(w, "failed")
  /\ ~RetryAllowed(w)
  /\ MarkFailed(ScanOf(w), worker[w].delivery,
                IF deadLettered THEN "DEAD_LETTERED" ELSE "FAILED")
  /\ SettleIfOwned(w, IF deadLettered THEN "deadLetter" ELSE "complete", "abandon")
  /\ UNCHANGED message

\* Mutant: the message is completed although nothing was persisted.
PersistFailureIgnored(w) ==
  /\ At(w, "failed")
  /\ Continue(w, Settling("complete", "throw", worker[w].delivery))
  /\ UNCHANGED <<message, Tables>>

PersistFailureFails(w) ==
  LET s == ScanOf(w)
      d == worker[w].delivery
  IN  /\ At(w, "failed")
      /\ \/ RetryAllowed(w) /\ MarkRetryable(s, d)
         \/ /\ ~RetryAllowed(w)
            /\ MarkFailed(s, d, IF worker[w].failure = "terminal"
                                THEN "FAILED" ELSE "DEAD_LETTERED")
         \/ UNCHANGED Tables
      /\ Continue(w, Settling("abandon", "throw", d))
      /\ UNCHANGED message

Settle(w) ==
  /\ At(w, "settle")
  /\ HoldsLock(w)
  /\ Settlement(w)
  /\ Continue(w, Idle)
  /\ UNCHANGED Tables

SettleFails(w) ==
  LET d == worker[w].delivery IN
  /\ At(w, "settle")
  /\ (HoldsLock(w) /\ Settlement(w)) \/ UNCHANGED message
  /\ \/ worker[w].onError = "abandon" /\ Continue(w, Settling("abandon", "throw", d))
     \/ /\ worker[w].onError = "classify"
        /\ \E failure \in {"retryable", "terminal"} : Continue(w, Failing(failure, d))
     \/ worker[w].onError = "throw" /\ Continue(w, Idle)
  /\ UNCHANGED Tables

Crash(w) ==
  /\ ~At(w, "idle")
  /\ Continue(w, Idle)
  /\ UNCHANGED <<message, Tables>>

-----------------------------------------------------------------------------
(* The broker's own steps, the publisher, and the operators.               *)

\* At-least-once: the publisher may send several copies, all with one id.
Publish(m, s) ==
  /\ message[m].state = "unsent"
  /\ message' = [message EXCEPT ![m] =
       [scan |-> s, id |-> s, state |-> "queued", holder |-> None, count |-> 0]]
  /\ UNCHANGED <<worker, Tables>>

LockExpires(m) ==
  /\ message[m].state = "locked"
  /\ message' = [message EXCEPT ![m] = Released(m)]
  /\ UNCHANGED <<worker, Tables>>

\* The time to live of a queued message passes.
Expires(m) ==
  /\ message[m].state = "queued"
  /\ message' = [message EXCEPT ![m] = Moved(m, "dlq")]
  /\ UNCHANGED <<worker, Tables>>

\* dlq-replay.js sends a new message with an id of its own, then completes the
\* dead-lettered one, unless it stops in between.
Replay(m, r) ==
  /\ OperatorTools
  /\ message[m].state = "dlq"
  /\ message[r].state = "unsent"
  /\ \E state \in {"done", "dlq"} :
       message' = [message EXCEPT
         ![m] = Moved(m, state),
         ![r] = [scan |-> message[m].scan, id |-> r,
                 state |-> "queued", holder |-> None, count |-> 0]]
  /\ UNCHANGED <<worker, Tables>>

Purge(m) ==
  /\ OperatorTools
  /\ message[m].state = "dlq"
  /\ message' = [message EXCEPT ![m] = Moved(m, "purged")]
  /\ UNCHANGED <<worker, Tables>>

\* The retention sweep deletes a finished scan after weeks, when no live
\* message of it is left; results and attempts cascade, the ledger stays.
DeleteScan(s) ==
  /\ Finished(s)
  /\ \A m \in Messages : message[m].scan = s => message[m].state \notin {"queued", "locked"}
  /\ \A w \in Workers : ~At(w, "idle") => ScanOf(w) # s
  /\ scan' = [scan EXCEPT ![s].status = "DELETED", ![s].owner = None, ![s].result = None]
  /\ attempt' = [a \in Attempts |->
       IF message[a[1]].scan = s THEN "NONE" ELSE attempt[a]]
  /\ UNCHANGED <<message, worker, ledger>>

Step(w) ==
  \/ BeginAttempt(w) \/ BeginAttemptFails(w) \/ Reject(w) \/ RejectFails(w)
  \/ PreflightLost(w) \/ PreflightOverLimit(w) \/ RunAudit(w) \/ RunFails(w)
  \/ RejectOverLimit(w) \/ Complete(w) \/ OutcomeFails(w)
  \/ RetryLater(w) \/ GiveUp(w) \/ PersistFailureFails(w)
  \/ Settle(w) \/ SettleFails(w) \/ Crash(w)

Next ==
  \/ \E w \in Workers : Step(w) \/ \E m \in Messages : Receive(w, m)
  \/ \E m \in Messages, s \in Scans : Publish(m, s)
  \/ \E m \in Messages : LockExpires(m) \/ Expires(m) \/ Purge(m)
  \/ \E m, r \in Messages : Replay(m, r)
  \/ \E s \in Scans : DeleteScan(s)

Spec == Init /\ [][Next]_vars

-----------------------------------------------------------------------------
(* Fairness: the handler of a slot runs on, a slot with nothing to do asks *)
(* for messages, and the broker expires a lock nobody renews any more.     *)
(* Publishing, expiry by time to live, and the operators are not fair.     *)

Busy(m) ==
  \E w \in Workers : ~At(w, "idle") /\ worker[w].delivery = <<m, message[m].count>>

Fairness ==
  /\ \A w \in Workers : WF_vars(Step(w))
  /\ \A m \in Messages : WF_vars(\E w \in Workers : Receive(w, m))
  /\ \A m \in Messages : WF_vars(~Busy(m) /\ LockExpires(m))

FairSpec == Spec /\ Fairness

-----------------------------------------------------------------------------
(* Properties.                                                             *)

TypeOK ==
  /\ message \in [Messages -> [scan : Scans \cup {None},
                               id : Scans \cup Messages \cup {None},
                               state : MessageStates,
                               holder : Workers \cup {None},
                               count : 0..MaxDelivery]]
  /\ worker \in [Workers -> [point : ControlPoints,
                             delivery : Attempts \cup {None},
                             call : Calls,
                             onError : {"abandon", "classify", "throw"},
                             failure : Failures]]
  /\ scan \in [Scans -> [status : ScanStatus,
                         owner : Attempts \cup {None},
                         billing : BillingStates,
                         result : Attempts \cup {None}]]
  /\ attempt \in [Attempts -> AttemptStatus]
  /\ ledger \in [Scans -> [Events -> Nat]]

\* An attempt row is STARTED exactly while its attempt owns the scan: after any
\* crash, redelivery or duplicate there is one live attempt for a scan that is
\* IN_PROGRESS and none for any other (beginAttempt closes the superseded one).
OneLiveAttempt ==
  \A a \in Attempts :
    attempt[a] = "STARTED" <=> \E s \in Scans : message[a[1]].scan = s /\ Owns(s, a)

\* Whatever is delivered, repeated or lost, the ledger holds at most one final
\* entry for a scan, and that entry, the billing state and the status agree: a
\* DONE scan is charged once, a FAILED one refunded once, an open one reserved.
BillingFollowsOutcome ==
  \A s \in Scans :
    LET charged  == IF scan[s].billing = "CONSUMED" THEN 1 ELSE 0
        refunded == IF scan[s].billing = "REFUNDED" THEN 1 ELSE 0
    IN  /\ scan[s].status = "DONE" => scan[s].billing = "CONSUMED"
        /\ scan[s].status = "FAILED" => scan[s].billing = "REFUNDED"
        /\ scan[s].status \in {"PENDING", "IN_PROGRESS"} => scan[s].billing = "RESERVED"
        /\ s \notin Unledgered =>
             /\ ledger[s]["scan_consumed"] = charged
             /\ ledger[s]["scan_refunded"] = refunded

\* A terminal attempt row and its scan tell one story: only the attempt whose
\* result is stored is ever COMPLETED, FAILED or DEAD_LETTERED.
TerminalAttemptWroteResult ==
  \A a \in Attempts :
    /\ attempt[a] = "COMPLETED" =>
         \E s \in Scans : message[a[1]].scan = s /\ scan[s].status = "DONE"
                                               /\ scan[s].result = a
    /\ attempt[a] \in {"FAILED", "DEAD_LETTERED"} =>
         \E s \in Scans : message[a[1]].scan = s /\ scan[s].status = "FAILED"
                                               /\ scan[s].result = a

\* No published scan is dropped: while it is not finished, a copy of its
\* message is still in the queue, or in the dead-letter queue (or was purged
\* from there by an operator).  A message is completed too early otherwise.
NoStrandedScan ==
  \A m \in Messages :
    LET s == message[m].scan IN
    message[m].state = "done" /\ s # None /\ scan[s].status \in {"PENDING", "IN_PROGRESS"} =>
      \E c \in Messages : /\ message[c].scan = s
                          /\ message[c].state \in {"queued", "locked", "dlq", "purged"}

\* A finished scan never changes again except by deletion, and only the owner
\* finishes a scan, or the rejection of a malformed message of a PENDING one:
\* a worker that lost its lock cannot overwrite the work of its successor.
OnlyOwnerFinishes ==
  [][\A s \in Scans :
       scan'[s] # scan[s] =>
         /\ Finished(s) => scan'[s].status = "DELETED"
         /\ scan'[s].result \notin {None, scan[s].result} =>
              \/ scan[s].status = "IN_PROGRESS" /\ scan'[s].result = scan[s].owner
              \/ scan[s].status = "PENDING" /\ scan'[s].status = "FAILED"]_vars

\* Every published scan ends: it is finished, or a copy of its message lies in
\* the dead-letter queue for an operator to see.
PublishedScanEnds ==
  \A s \in Scans :
    (\E m \in Messages : message[m].scan = s)
      ~> (\/ scan[s].status \notin {"PENDING", "IN_PROGRESS"}
          \/ \E m \in Messages : message[m].scan = s /\ message[m].state = "dlq")

\* The scans, their owners, results and ledger entries behave as ScanContract
\* promises, whatever the queue, the workers and the operators do.
ChargeOf(s) ==
  LET charged  == ledger[s]["scan_consumed"]
      refunded == ledger[s]["scan_refunded"]
  IN  IF s \in Unledgered /\ charged + refunded = 0 THEN "unledgered"
      ELSE IF charged = 1 /\ refunded = 0 THEN "charged"
      ELSE IF charged = 0 /\ refunded = 1 THEN "refunded"
      ELSE IF charged + refunded = 0 THEN "open" ELSE "wrong"

Contract == INSTANCE ScanContract WITH
  phase   <- [s \in Scans |-> scan[s].status],
  runner  <- [s \in Scans |-> scan[s].owner],
  verdict <- [s \in Scans |-> scan[s].result],
  charge  <- [s \in Scans |-> ChargeOf(s)]

ImplementsContract == Contract!Spec

\* What docs/technical/security-model-v6-2.md:61 says of a transient error at the
\* threshold: the terminal state is persisted, and the message settled after it.
\* So when the catch block of an attempt that had begun turns to the message at
\* the last delivery, that attempt does not own the scan any more.
ThresholdIsTerminal ==
  [][\A w \in Workers :
       At(w, "failed") /\ worker[w].failure = "retryable"
                       /\ worker[w].delivery[2] = MaxDelivery
                       /\ worker'[w].point = "settle"
         => ~Owns(ScanOf(w), worker[w].delivery)']_vars

=============================================================================
