-------------------------- MODULE ScanWorkerProofs --------------------------
(***************************************************************************)
(* Proofs about ScanWorker, for every number of scans, message copies,     *)
(* workers and deliveries.                                                 *)
(***************************************************************************)
EXTENDS ScanWorker, TLAPS

WorkerRecord ==
  [point : ControlPoints, delivery : Attempts \cup {None}, call : Calls,
   onError : {"abandon", "classify", "throw"}, failure : Failures]

MessageRecord ==
  [scan : Scans \cup {None}, id : Scans \cup Messages \cup {None},
   state : MessageStates, holder : Workers \cup {None}, count : 0..MaxDelivery]

ScanRecord ==
  [status : ScanStatus, owner : Attempts \cup {None},
   billing : BillingStates, result : Attempts \cup {None}]

MessagesTyped == message \in [Messages -> MessageRecord]
WorkersTyped  == worker \in [Workers -> WorkerRecord]
TablesTyped ==
  /\ scan \in [Scans -> ScanRecord]
  /\ attempt \in [Attempts -> AttemptStatus]
  /\ ledger \in [Scans -> [Events -> Nat]]

\* A copy that was sent is about a scan; a queued one may be delivered again.
MessagesSane ==
  \A m \in Messages :
    /\ message[m].state # "unsent" => message[m].scan \in Scans
    /\ message[m].state = "queued" => message[m].count < MaxDelivery

\* A busy slot handles a delivery that the broker has made.
DeliveriesSane ==
  \A w \in Workers :
    worker[w].point # "idle" =>
      /\ worker[w].delivery \in Attempts
      /\ worker[w].delivery[2] <= message[worker[w].delivery[1]].count
      /\ message[worker[w].delivery[1]].state # "unsent"

TypeInv == MessagesTyped /\ WorkersTyped /\ TablesTyped /\ MessagesSane /\ DeliveriesSane

\* The transactions on the tables for attempt d of scan s: those that insert the
\* attempt row, made once per delivery, and those that close it.
Opening(s, d) == BeginTransaction(s, d) \/ MarkRejected(s, d)
Closing(s, d) ==
  \/ MarkCompleted(s, d) \/ MarkRetryable(s, d)
  \/ MarkFailed(s, d, "FAILED") \/ MarkFailed(s, d, "DEAD_LETTERED")
Transaction(s, d) == Opening(s, d) \/ Closing(s, d)

\* A sent copy comes back, is dead-lettered, or leaves the queue.
QueueMove(m) ==
  /\ message[m].state # "unsent"
  /\ \/ message' = [message EXCEPT ![m] = Released(m)]
     \/ \E state \in {"done", "dlq", "purged"} :
          message' = [message EXCEPT ![m] = Moved(m, state)]

\* What every step of a busy slot looks like: at most one transaction or one
\* settlement, and the slot goes on with the same delivery or becomes idle.
StepShape(w) ==
  /\ worker[w].point # "idle"
  /\ \E p \in WorkerRecord :
       /\ worker' = [worker EXCEPT ![w] = p]
       /\ p.point \notin {"begin", "reject"}
       /\ p.point # "idle" => p.delivery = worker[w].delivery
  /\ \/ /\ UNCHANGED message
        /\ \/ worker[w].point \in {"begin", "reject"} /\ Opening(ScanOf(w), worker[w].delivery)
           \/ Closing(ScanOf(w), worker[w].delivery)
           \/ UNCHANGED Tables
     \/ UNCHANGED Tables /\ (QueueMove(MessageOf(w)) \/ UNCHANGED message)

LEMMA Points ==
  ASSUME NEW d \in Attempts \cup {None}, NEW p \in ControlPoints, NEW c \in Calls,
         NEW e \in {"abandon", "classify", "throw"}, NEW f \in Failures
  PROVE  /\ Point(p, d) \in WorkerRecord /\ Point(p, d).delivery = d /\ Point(p, d).point = p
         /\ Settling(c, e, d) \in WorkerRecord /\ Settling(c, e, d).delivery = d
         /\ Settling(c, e, d).point = "settle"
         /\ Failing(f, d) \in WorkerRecord /\ Failing(f, d).delivery = d
         /\ Failing(f, d).point = "failed"
         /\ Idle \in WorkerRecord /\ Idle.point = "idle"
  BY ZenonT(40) DEF Point, Settling, Failing, Idle, WorkerRecord, ControlPoints, Calls, Failures

LEMMA DeliveredScan ==
  ASSUME TypeInv, NEW w \in Workers, worker[w].point # "idle"
  PROVE  /\ ScanOf(w) \in Scans
         /\ MessageOf(w) \in Messages
         /\ worker[w].delivery \in Attempts
         /\ worker[w].delivery = <<worker[w].delivery[1], worker[w].delivery[2]>>
  <1>1. worker[w].delivery \in Attempts
    BY DEF TypeInv, DeliveriesSane
  <1>2. worker[w].delivery[1] \in Messages
    BY <1>1 DEF Attempts
  <1>3. message[worker[w].delivery[1]].state # "unsent"
    BY DEF TypeInv, DeliveriesSane
  <1> QED
    BY <1>1, <1>2, <1>3 DEF TypeInv, MessagesSane, ScanOf, MessageOf, Attempts

LEMMA TransactionTyped ==
  ASSUME TablesTyped, NEW s \in Scans, NEW d \in Attempts, Transaction(s, d)
  PROVE  TablesTyped'
  <1> USE DEF TablesTyped, SetAttempt, InsertAttempt
  <1>1. CASE BeginTransaction(s, d)
    <2>1. CASE Acquire(s, d)
      BY <1>1, <2>1, ZenonT(40) DEF BeginTransaction, Acquire, ScanRecord, ScanStatus, AttemptStatus
    <2>2. CASE Decline(s, d)
      BY <1>1, <2>2 DEF BeginTransaction, Decline, AttemptStatus
    <2> QED BY <1>1, <2>1, <2>2 DEF BeginTransaction
  <1>2. ASSUME NEW event \in Events, BillingEvent(s, event)
        PROVE  ledger' \in [Scans -> [Events -> Nat]]
    BY <1>2 DEF BillingEvent
  <1>3. ASSUME NEW status \in ScanStatus, NEW owner \in Attempts \cup {None},
               NEW billing \in BillingStates, Finish(s, status, owner, d, billing)
        PROVE  scan' \in [Scans -> ScanRecord]
    BY <1>3 DEF Finish, ScanRecord
  <1>4. CASE MarkRejected(s, d)
    BY <1>2, <1>3, <1>4 DEF MarkRejected, AttemptStatus, Events, ScanStatus, BillingStates
  <1>5. CASE MarkCompleted(s, d)
    BY <1>2, <1>3, <1>5 DEF MarkCompleted, AttemptStatus, Events, ScanStatus, BillingStates
  <1>6. CASE MarkRetryable(s, d)
    <2>1. CASE Owns(s, d)
      <3>1. scan' = [scan EXCEPT ![s].status = "PENDING", ![s].owner = None]
        BY <1>6, <2>1 DEF MarkRetryable
      <3>2. scan' \in [Scans -> ScanRecord]
        BY <3>1, ZenonT(40) DEF ScanRecord, ScanStatus
      <3>3. attempt' \in [Attempts -> AttemptStatus]
        BY <1>6, <2>1 DEF MarkRetryable, AttemptStatus
      <3> QED BY <1>6, <3>2, <3>3 DEF MarkRetryable
    <2>2. CASE ~Owns(s, d)
      BY <1>6, <2>2 DEF MarkRetryable, AttemptStatus
    <2> QED BY <2>1, <2>2
  <1>7. ASSUME NEW status \in {"FAILED", "DEAD_LETTERED"}, MarkFailed(s, d, status)
        PROVE  TablesTyped'
    BY <1>2, <1>3, <1>7 DEF MarkFailed, AttemptStatus, Events, ScanStatus, BillingStates
  <1> QED BY <1>1, <1>4, <1>5, <1>6, <1>7 DEF Transaction, Opening, Closing

LEMMA StepHasShape ==
  ASSUME TypeInv, NEW w \in Workers, Step(w)
  PROVE  StepShape(w)
  <1> DEFINE d == worker[w].delivery
             Slot(p) == /\ p \in WorkerRecord
                        /\ p.point \notin {"begin", "reject"}
                        /\ p.point # "idle" => p.delivery = d
             Moves == \E p : Slot(p) /\ worker' = [worker EXCEPT ![w] = p]
  <1>1. d \in Attempts \cup {None}
    BY DEF TypeInv, WorkersTyped, WorkerRecord
  <1>2. /\ Slot(Idle)
        /\ \A p \in {"run", "limit", "audited"} : Slot(Point(p, d))
        /\ \A c \in Calls, e \in {"abandon", "classify", "throw"} : Slot(Settling(c, e, d))
        /\ \A f \in Failures : Slot(Failing(f, d))
    BY <1>1, Points DEF ControlPoints, Calls, Failures
  <1>3. ASSUME NEW p, Slot(p), Continue(w, p) PROVE Moves
    BY <1>3 DEF Continue
  <1>4. SUFFICES /\ worker[w].point # "idle"
                 /\ Moves
                 /\ \/ /\ UNCHANGED message
                       /\ \/ worker[w].point \in {"begin", "reject"} /\ Opening(ScanOf(w), d)
                          \/ Closing(ScanOf(w), d)
                          \/ UNCHANGED Tables
                    \/ UNCHANGED Tables /\ (QueueMove(MessageOf(w)) \/ UNCHANGED message)
    BY DEF StepShape
  <1> HIDE DEF Slot, Moves
  <1>5. CASE BeginAttempt(w)
    BY <1>2, <1>3, <1>5 DEF BeginAttempt, At, Opening, Calls
  <1>6. CASE BeginAttemptFails(w)
    BY <1>2, <1>3, <1>6 DEF BeginAttemptFails, At, Opening, Calls
  <1>7. CASE Reject(w) \/ RejectFails(w)
    BY <1>2, <1>3, <1>7 DEF Reject, RejectFails, At, Opening, Calls
  <1>8. CASE PreflightLost(w) \/ PreflightOverLimit(w) \/ RunAudit(w)
    BY <1>2, <1>3, <1>8 DEF PreflightLost, PreflightOverLimit, RunAudit, At
  <1>9. CASE RunFails(w)
    BY <1>2, <1>3, <1>9 DEF RunFails, At
  <1>10. ASSUME NEW c \in Calls, NEW e \in {"abandon", "classify", "throw"}, SettleIfOwned(w, c, e)
         PROVE  Moves
    BY <1>2, <1>3, <1>10 DEF SettleIfOwned
  <1>11. CASE RejectOverLimit(w) \/ Complete(w)
    BY <1>10, <1>11 DEF RejectOverLimit, Complete, At, Closing, Calls
  <1>12. CASE OutcomeFails(w)
    BY <1>2, <1>3, <1>12 DEF OutcomeFails, At, Closing, Failures
  <1>13. CASE RetryLater(w) \/ GiveUp(w)
    BY <1>10, <1>13 DEF RetryLater, GiveUp, At, Closing, Calls
  <1>14. CASE PersistFailureFails(w)
    BY <1>2, <1>3, <1>14 DEF PersistFailureFails, At, Closing, Calls
  <1>15. ASSUME At(w, "settle"), HoldsLock(w), Settlement(w)
         PROVE  QueueMove(MessageOf(w))
    BY <1>15 DEF HoldsLock, Settlement, QueueMove
  <1>16. CASE Settle(w)
    BY <1>2, <1>3, <1>15, <1>16 DEF Settle, At
  <1>17. CASE SettleFails(w)
    BY <1>2, <1>3, <1>15, <1>17 DEF SettleFails, At, Calls, Failures
  <1>18. CASE Crash(w)
    BY <1>2, <1>3, <1>18 DEF Crash, At
  <1> QED
    BY <1>5, <1>6, <1>7, <1>8, <1>9, <1>11, <1>12, <1>13, <1>14, <1>16, <1>17, <1>18 DEF Step

LEMMA QueueMoveTyped ==
  ASSUME TypeInv, NEW m \in Messages, QueueMove(m)
  PROVE  /\ MessagesTyped' /\ MessagesSane'
         /\ \A c \in Messages :
              /\ message'[c].scan = message[c].scan /\ message'[c].id = message[c].id
              /\ message'[c].count = message[c].count
              /\ message'[c].state # "unsent" <=> message[c].state # "unsent"
  <1>1. message \in [Messages -> MessageRecord]
    BY DEF TypeInv, MessagesTyped
  <1> DEFINE Set(state) == [message[m] EXCEPT !.state = state, !.holder = None]
             Allowed(state) == /\ state \in MessageStates \ {"unsent"}
                               /\ state = "queued" => message[m].count < MaxDelivery
  <1>2. PICK state : Allowed(state) /\ message' = [message EXCEPT ![m] = Set(state)]
    <2>1. CASE message' = [message EXCEPT ![m] = Released(m)]
      <3>1. message[m].count \in Nat
        BY <1>1 DEF MessageRecord
      <3>2. CASE message[m].count >= MaxDelivery
        <4>1. Released(m) = Set("dlq")
          BY <3>2 DEF Released
        <4>2. Allowed("dlq")
          BY DEF MessageStates
        <4> QED BY <2>1, <4>1, <4>2
      <3>3. CASE ~(message[m].count >= MaxDelivery)
        <4>1. Released(m) = Set("queued")
          BY <3>3 DEF Released
        <4>2. Allowed("queued")
          BY <3>1, <3>3, MaxDeliveryAssumption DEF MessageStates
        <4> QED BY <2>1, <4>1, <4>2
      <3> QED BY <3>2, <3>3
    <2>2. ASSUME NEW state \in {"done", "dlq", "purged"},
                 message' = [message EXCEPT ![m] = Moved(m, state)]
          PROVE  Allowed(state) /\ message' = [message EXCEPT ![m] = Set(state)]
      BY <2>2 DEF Moved, MessageStates
    <2> QED BY <2>1, <2>2 DEF QueueMove
  <1>3. message' \in [Messages -> MessageRecord]
    BY <1>1, <1>2 DEF MessageRecord, MessageStates
  <1>4. /\ message'[m].scan = message[m].scan /\ message'[m].id = message[m].id
        /\ message'[m].count = message[m].count /\ message'[m].state = state
        /\ \A c \in Messages \ {m} : message'[c] = message[c]
    BY <1>1, <1>2 DEF MessageRecord
  <1>5. message[m].state # "unsent"
    BY DEF QueueMove
  <1> QED BY <1>2, <1>3, <1>4, <1>5 DEF MessagesTyped, MessagesSane, TypeInv

LEMMA StepTyped ==
  ASSUME TypeInv, NEW w \in Workers, Step(w)
  PROVE  TypeInv'
  <1>1. StepShape(w)
    BY StepHasShape
  <1>2. /\ ScanOf(w) \in Scans /\ MessageOf(w) \in Messages /\ worker[w].delivery \in Attempts
    BY <1>1, DeliveredScan DEF StepShape
  <1>3. PICK p \in WorkerRecord : /\ worker' = [worker EXCEPT ![w] = p]
                                  /\ p.point # "idle" => p.delivery = worker[w].delivery
    BY <1>1 DEF StepShape
  <1>4. WorkersTyped'
    BY <1>3 DEF TypeInv, WorkersTyped
  <1>5. TablesTyped'
    <2>1. CASE UNCHANGED Tables
      BY <2>1 DEF TypeInv, TablesTyped, Tables
    <2>2. CASE Transaction(ScanOf(w), worker[w].delivery)
      BY <2>2, <1>2, TransactionTyped DEF TypeInv
    <2> QED BY <1>1, <2>1, <2>2 DEF StepShape, Transaction
  <1>6. /\ MessagesTyped' /\ MessagesSane'
        /\ \A c \in Messages :
              /\ message'[c].count = message[c].count
              /\ message'[c].state # "unsent" <=> message[c].state # "unsent"
    <2>1. CASE UNCHANGED message
      BY <2>1 DEF TypeInv, MessagesTyped, MessagesSane
    <2>2. CASE QueueMove(MessageOf(w))
      BY <1>2, <2>2, QueueMoveTyped
    <2> QED BY <1>1, <2>1, <2>2 DEF StepShape
  <1>7. DeliveriesSane'
    <2> SUFFICES ASSUME NEW v \in Workers, worker'[v].point # "idle"
                 PROVE  /\ worker'[v].delivery \in Attempts
                        /\ worker'[v].delivery[2] <= message'[worker'[v].delivery[1]].count
                        /\ message'[worker'[v].delivery[1]].state # "unsent"
      BY DEF DeliveriesSane
    <2>1. worker[v].point # "idle" /\ worker'[v].delivery = worker[v].delivery
      BY <1>1, <1>3 DEF TypeInv, WorkersTyped, StepShape
    <2>2. worker[v].delivery \in Attempts /\ worker[v].delivery[1] \in Messages
      BY <2>1, DeliveredScan DEF MessageOf
    <2> QED BY <1>6, <2>1, <2>2 DEF TypeInv, DeliveriesSane
  <1> QED BY <1>4, <1>5, <1>6, <1>7 DEF TypeInv

LEMMA ReceiveTyped ==
  ASSUME TypeInv, NEW w \in Workers, NEW m \in Messages, Receive(w, m)
  PROVE  TypeInv'
  <1> DEFINE d == <<m, message[m].count + 1>>
  <1>1. /\ message \in [Messages -> MessageRecord] /\ message[m].count \in 0..MaxDelivery
        /\ message[m].state = "queued" /\ message[m].count < MaxDelivery
    BY DEF TypeInv, MessagesTyped, MessagesSane, MessageRecord, Receive
  <1>2. d \in Attempts
    BY <1>1, MaxDeliveryAssumption DEF Attempts
  <1>3. message' = [message EXCEPT ![m].state = "locked", ![m].holder = w, ![m].count = @ + 1]
    BY DEF Receive
  <1>4. /\ message'[m].state = "locked" /\ message'[m].count = message[m].count + 1
        /\ message'[m].scan = message[m].scan
        /\ \A c \in Messages \ {m} : message'[c] = message[c]
    BY <1>1, <1>3 DEF MessageRecord
  <1>5. MessagesTyped'
    BY <1>1, <1>3, MaxDeliveryAssumption DEF MessagesTyped, MessageRecord, MessageStates
  <1>6. MessagesSane'
    BY <1>1, <1>4 DEF TypeInv, MessagesSane
  <1>7. PICK p \in WorkerRecord : worker' = [worker EXCEPT ![w] = p] /\ p.delivery = d
    <2>1. PICK point \in {"reject", "begin"} : worker' = [worker EXCEPT ![w] = Point(point, d)]
      BY DEF Receive, Continue
    <2>2. Point(point, d) \in WorkerRecord /\ Point(point, d).delivery = d
      BY <1>2, Points DEF ControlPoints, Calls, Failures
    <2> QED BY <2>1, <2>2
  <1>8. WorkersTyped'
    BY <1>7 DEF TypeInv, WorkersTyped
  <1>9. TablesTyped'
    BY DEF TypeInv, TablesTyped, Receive, Tables
  <1>10. DeliveriesSane'
    <2> SUFFICES ASSUME NEW v \in Workers, worker'[v].point # "idle"
                 PROVE  /\ worker'[v].delivery \in Attempts
                        /\ worker'[v].delivery[2] <= message'[worker'[v].delivery[1]].count
                        /\ message'[worker'[v].delivery[1]].state # "unsent"
      BY DEF DeliveriesSane
    <2>1. CASE v = w
      <3>1. worker'[v].delivery = d
        BY <1>7, <2>1 DEF TypeInv, WorkersTyped
      <3> QED BY <1>1, <1>2, <1>4, <3>1
    <2>2. CASE v # w
      <3>1. worker'[v] = worker[v]
        BY <1>7, <2>2 DEF TypeInv, WorkersTyped
      <3>2. worker[v].delivery \in Attempts /\ worker[v].delivery[1] \in Messages
        BY <2>2, <3>1, DeliveredScan DEF MessageOf
      <3>3. worker[v].delivery[2] \in Int /\ message[worker[v].delivery[1]].count \in Int
        BY <1>1, <3>2, MaxDeliveryAssumption DEF Attempts, MessageRecord
      <3> QED BY <1>1, <1>4, <3>1, <3>2, <3>3 DEF TypeInv, DeliveriesSane
    <2> QED BY <2>1, <2>2
  <1> QED BY <1>5, <1>6, <1>8, <1>9, <1>10 DEF TypeInv

LEMMA BrokerTyped ==
  ASSUME TypeInv, UNCHANGED <<worker, Tables>>,
         MessagesTyped', MessagesSane',
         \A m \in Messages : message[m].state # "unsent" =>
           message'[m].state # "unsent" /\ message'[m].count = message[m].count
  PROVE  TypeInv'
  <1>1. ASSUME NEW v \in Workers, worker'[v].point # "idle"
        PROVE  /\ worker'[v].delivery \in Attempts
               /\ worker'[v].delivery[2] <= message'[worker'[v].delivery[1]].count
               /\ message'[worker'[v].delivery[1]].state # "unsent"
    BY <1>1, DeliveredScan DEF MessageOf, TypeInv, DeliveriesSane
  <1> QED BY <1>1 DEF TypeInv, WorkersTyped, TablesTyped, DeliveriesSane, Tables

LEMMA PublishTyped ==
  ASSUME TypeInv, NEW m \in Messages, NEW s \in Scans, Publish(m, s)
  PROVE  TypeInv'
  <1>1. message \in [Messages -> MessageRecord]
    BY DEF TypeInv, MessagesTyped
  <1>2. /\ message[m].state = "unsent"
        /\ message' = [message EXCEPT ![m] =
             [scan |-> s, id |-> s, state |-> "queued", holder |-> None, count |-> 0]]
    BY DEF Publish
  <1>3. [scan |-> s, id |-> s, state |-> "queued", holder |-> None, count |-> 0] \in MessageRecord
    BY MaxDeliveryAssumption DEF MessageRecord, MessageStates
  <1>4. MessagesTyped'
    BY <1>1, <1>2, <1>3 DEF MessagesTyped
  <1>5. MessagesSane'
    BY <1>1, <1>2, MaxDeliveryAssumption DEF TypeInv, MessagesSane
  <1> QED BY <1>1, <1>2, <1>4, <1>5, BrokerTyped DEF Publish

LEMMA ReplayTyped ==
  ASSUME TypeInv, NEW m \in Messages, NEW r \in Messages, Replay(m, r)
  PROVE  TypeInv'
  <1> DEFINE copy == [scan |-> message[m].scan, id |-> r,
                      state |-> "queued", holder |-> None, count |-> 0]
  <1>1. message \in [Messages -> MessageRecord]
    BY DEF TypeInv, MessagesTyped
  <1>2. PICK state \in {"done", "dlq"} :
          message' = [message EXCEPT ![m] = Moved(m, state), ![r] = copy]
    BY DEF Replay
  <1>3. m # r /\ message[m].state = "dlq" /\ message[r].state = "unsent"
    BY DEF Replay
  <1>4. copy \in MessageRecord /\ copy.scan \in Scans /\ copy.state = "queued" /\ copy.count = 0
    BY <1>1, <1>3, MaxDeliveryAssumption DEF MessageRecord, MessageStates, TypeInv, MessagesSane
  <1>5. Moved(m, state) \in MessageRecord
    BY <1>1 DEF Moved, MessageRecord, MessageStates
  <1>6. /\ Moved(m, state).state = state /\ Moved(m, state).count = message[m].count
        /\ Moved(m, state).scan = message[m].scan
    BY <1>1 DEF Moved, MessageRecord
  <1> HIDE DEF copy
  <1>7. /\ message'[m] = Moved(m, state) /\ message'[r] = copy
        /\ \A c \in Messages \ {m, r} : message'[c] = message[c]
    BY <1>1, <1>2, <1>3
  <1>8. MessagesTyped'
    BY <1>1, <1>2, <1>4, <1>5 DEF MessagesTyped
  <1>9. MessagesSane'
    BY <1>3, <1>4, <1>6, <1>7, MaxDeliveryAssumption DEF TypeInv, MessagesSane
  <1>10. \A c \in Messages : message[c].state # "unsent" =>
           message'[c].state # "unsent" /\ message'[c].count = message[c].count
    BY <1>3, <1>6, <1>7
  <1> QED BY <1>8, <1>9, <1>10, BrokerTyped DEF Replay

LEMMA DeleteScanTyped ==
  ASSUME TypeInv, NEW s \in Scans, DeleteScan(s)
  PROVE  TypeInv'
  <1>1. scan' = [scan EXCEPT ![s].status = "DELETED", ![s].owner = None, ![s].result = None]
    BY DEF DeleteScan
  <1>2. scan' \in [Scans -> ScanRecord]
    BY <1>1, ZenonT(40) DEF TypeInv, TablesTyped, ScanRecord, ScanStatus
  <1>3. attempt' \in [Attempts -> AttemptStatus] /\ ledger' \in [Scans -> [Events -> Nat]]
    BY DEF DeleteScan, TypeInv, TablesTyped, AttemptStatus
  <1>4. UNCHANGED <<message, worker>>
    BY DEF DeleteScan
  <1> QED
    BY <1>2, <1>3, <1>4 DEF TypeInv, MessagesTyped, WorkersTyped, TablesTyped,
                           MessagesSane, DeliveriesSane

LEMMA NextTyped ==
  ASSUME TypeInv, [Next]_vars
  PROVE  TypeInv'
  <1>1. CASE UNCHANGED vars
    BY <1>1 DEF vars, TypeInv, MessagesTyped, WorkersTyped, TablesTyped, MessagesSane,
                DeliveriesSane
  <1>2. ASSUME NEW w \in Workers, Step(w) PROVE TypeInv'
    BY <1>2, StepTyped
  <1>3. ASSUME NEW w \in Workers, NEW m \in Messages, Receive(w, m) PROVE TypeInv'
    BY <1>3, ReceiveTyped
  <1>4. ASSUME NEW m \in Messages, LockExpires(m) \/ Expires(m) \/ Purge(m)
        PROVE  TypeInv'
    <2>1. QueueMove(m) /\ UNCHANGED <<worker, Tables>>
      BY <1>4 DEF LockExpires, Expires, Purge, QueueMove
    <2> QED BY <2>1, QueueMoveTyped, BrokerTyped
  <1>5. ASSUME NEW m \in Messages, NEW s \in Scans, Publish(m, s) PROVE TypeInv'
    BY <1>5, PublishTyped
  <1>6. ASSUME NEW m \in Messages, NEW r \in Messages, Replay(m, r) PROVE TypeInv'
    BY <1>6, ReplayTyped
  <1>7. ASSUME NEW s \in Scans, DeleteScan(s) PROVE TypeInv'
    BY <1>7, DeleteScanTyped
  <1> QED BY <1>1, <1>2, <1>3, <1>4, <1>5, <1>6, <1>7 DEF Next

LEMMA InitTyped == Init => TypeInv
  <1> SUFFICES ASSUME Init PROVE TypeInv
    OBVIOUS
  <1>1. MessagesTyped /\ MessagesSane
    BY MaxDeliveryAssumption DEF Init, MessagesTyped, MessagesSane, MessageRecord, MessageStates
  <1>2. WorkersTyped /\ DeliveriesSane
    BY Points DEF Init, WorkersTyped, DeliveriesSane, ControlPoints, Calls, Failures
  <1>3. TablesTyped
    BY DEF Init, TablesTyped, ScanRecord, ScanStatus, BillingStates, AttemptStatus
  <1> QED BY <1>1, <1>2, <1>3 DEF TypeInv

LEMMA Invariance == Spec => []TypeInv
  BY InitTyped, NextTyped, PTL DEF Spec

\* The types of the queue, the slots and the tables hold in every reachable state.
THEOREM TypeCorrect == Spec => []TypeOK
  <1>1. TypeInv => TypeOK
    BY DEF TypeInv, TypeOK, MessagesTyped, WorkersTyped, TablesTyped, MessageRecord,
           WorkerRecord, ScanRecord
  <1> QED BY <1>1, Invariance, PTL

-----------------------------------------------------------------------------
(* What a step may do to a scan and its ledger entries, for any step.      *)

Becomes(s, status, owner, billing, result) ==
  /\ scan'[s].status = status /\ scan'[s].owner = owner
  /\ scan'[s].billing = billing /\ scan'[s].result = result
  /\ \A t \in Scans \ {s} : scan'[t] = scan[t]

TakesOver(s, d) ==
  /\ CanAcquire(s, d)
  /\ Becomes(s, "IN_PROGRESS", d, scan[s].billing, scan[s].result)
  /\ UNCHANGED ledger

GivesBack(s, d) ==
  /\ Owns(s, d)
  /\ Becomes(s, "PENDING", None, scan[s].billing, scan[s].result)
  /\ UNCHANGED ledger

Succeeds(s, d) ==
  /\ Owns(s, d)
  /\ Becomes(s, "DONE", d, "CONSUMED", d)
  /\ BillingEvent(s, "scan_consumed")

Fails(s, d) ==
  /\ \/ Owns(s, d) /\ Becomes(s, "FAILED", d, "REFUNDED", d)
     \/ scan[s].status = "PENDING" /\ Becomes(s, "FAILED", None, "REFUNDED", d)
  /\ BillingEvent(s, "scan_refunded")

Disappears(s) ==
  /\ Finished(s)
  /\ Becomes(s, "DELETED", None, scan[s].billing, None)
  /\ UNCHANGED ledger

ScanChange(s, d) == TakesOver(s, d) \/ GivesBack(s, d) \/ Succeeds(s, d) \/ Fails(s, d)

LEMMA TransactionChanges ==
  ASSUME TablesTyped, NEW s \in Scans, NEW d \in Attempts, Transaction(s, d)
  PROVE  ScanChange(s, d) \/ UNCHANGED <<scan, ledger>>
  <1>1. scan \in [Scans -> ScanRecord]
    BY DEF TablesTyped
  <1>2. CASE BeginTransaction(s, d)
    <2>1. CASE Acquire(s, d)
      <3>1. scan' = [scan EXCEPT ![s].status = "IN_PROGRESS", ![s].owner = d]
        BY <2>1 DEF Acquire
      <3>2. Becomes(s, "IN_PROGRESS", d, scan[s].billing, scan[s].result)
        BY <1>1, <3>1 DEF Becomes, ScanRecord
      <3> QED BY <1>2, <2>1, <3>2 DEF BeginTransaction, Acquire, ScanChange, TakesOver
    <2>2. CASE Decline(s, d)
      BY <1>2, <2>2 DEF BeginTransaction, Decline
    <2> QED BY <1>2, <2>1, <2>2 DEF BeginTransaction
  <1>3. CASE MarkRejected(s, d)
    BY <1>1, <1>3 DEF MarkRejected, Finish, ScanChange, Fails, Becomes
  <1>4. CASE MarkCompleted(s, d)
    BY <1>1, <1>4 DEF MarkCompleted, Finish, ScanChange, Succeeds, Becomes
  <1>5. ASSUME NEW status, MarkFailed(s, d, status)
        PROVE  ScanChange(s, d) \/ UNCHANGED <<scan, ledger>>
    BY <1>1, <1>5 DEF MarkFailed, Finish, ScanChange, Fails, Becomes
  <1>6. CASE MarkRetryable(s, d)
    <2>1. CASE Owns(s, d)
      <3>1. scan' = [scan EXCEPT ![s].status = "PENDING", ![s].owner = None]
        BY <1>6, <2>1 DEF MarkRetryable
      <3>2. Becomes(s, "PENDING", None, scan[s].billing, scan[s].result)
        BY <1>1, <3>1 DEF Becomes, ScanRecord
      <3> QED BY <1>6, <2>1, <3>2 DEF MarkRetryable, ScanChange, GivesBack
    <2> QED BY <1>6, <2>1 DEF MarkRetryable
  <1> QED BY <1>2, <1>3, <1>4, <1>5, <1>6 DEF Transaction, Opening, Closing

LEMMA NextChanges ==
  ASSUME TypeInv, [Next]_vars
  PROVE  \/ UNCHANGED <<scan, ledger>>
         \/ \E s \in Scans : Disappears(s) \/ \E d \in Attempts : ScanChange(s, d)
  <1>1. ASSUME NEW w \in Workers, Step(w)
        PROVE  \/ UNCHANGED <<scan, ledger>>
               \/ \E s \in Scans, d \in Attempts : ScanChange(s, d)
    <2>1. StepShape(w)
      BY <1>1, StepHasShape
    <2>2. ScanOf(w) \in Scans /\ worker[w].delivery \in Attempts
      BY <2>1, DeliveredScan DEF StepShape
    <2>3. UNCHANGED Tables \/ Transaction(ScanOf(w), worker[w].delivery)
      BY <2>1 DEF StepShape, Transaction
    <2> QED BY <2>2, <2>3, TransactionChanges DEF TypeInv, Tables
  <1>2. ASSUME NEW s \in Scans, DeleteScan(s) PROVE Disappears(s)
    <2>1. scan' = [scan EXCEPT ![s].status = "DELETED", ![s].owner = None, ![s].result = None]
      BY <1>2 DEF DeleteScan
    <2>2. Becomes(s, "DELETED", None, scan[s].billing, None)
      BY <2>1 DEF TypeInv, TablesTyped, ScanRecord, Becomes
    <2> QED BY <1>2, <2>2 DEF DeleteScan, Disappears
  <1>3. CASE \/ UNCHANGED vars
             \/ \E w \in Workers, m \in Messages : Receive(w, m)
             \/ \E m \in Messages, s \in Scans : Publish(m, s)
             \/ \E m \in Messages : LockExpires(m) \/ Expires(m) \/ Purge(m)
             \/ \E m, r \in Messages : Replay(m, r)
    BY <1>3 DEF vars, Receive, Publish, LockExpires, Expires, Purge, Replay, Tables
  <1> QED BY <1>1, <1>2, <1>3 DEF Next

-----------------------------------------------------------------------------
(* Billing.  Beyond the property itself, a reserved scan keeps its entry    *)
(* and a scan without one never gets any other.                            *)

BillingInv ==
  /\ BillingFollowsOutcome
  /\ \A s \in Scans \ Unledgered : ledger[s]["scan_reserved"] = 1
  /\ \A s \in Unledgered : \A e \in Events : ledger[s][e] = 0

LEMMA BillingEventEffect ==
  ASSUME TablesTyped, NEW s \in Scans, NEW event \in {"scan_consumed", "scan_refunded"},
         BillingEvent(s, event), ledger[s][event] = 0
  PROVE  /\ ledger'[s]["scan_reserved"] = ledger[s]["scan_reserved"]
         /\ ledger[s]["scan_reserved"] = 1 => ledger'[s][event] = 1
         /\ ledger[s]["scan_reserved"] # 1 => ledger'[s][event] = 0
         /\ \A e \in Events \ {event} : ledger'[s][e] = ledger[s][e]
         /\ \A t \in Scans \ {s} : ledger'[t] = ledger[t]
  BY DEF TablesTyped, BillingEvent, Events

LEMMA NextBilling ==
  ASSUME TypeInv, BillingInv, [Next]_vars
  PROVE  BillingInv'
  <1> DEFINE Agree(s) ==
        LET charged  == IF scan[s].billing = "CONSUMED" THEN 1 ELSE 0
            refunded == IF scan[s].billing = "REFUNDED" THEN 1 ELSE 0
        IN  /\ scan[s].status = "DONE" => scan[s].billing = "CONSUMED"
            /\ scan[s].status = "FAILED" => scan[s].billing = "REFUNDED"
            /\ scan[s].status \in {"PENDING", "IN_PROGRESS"} => scan[s].billing = "RESERVED"
            /\ s \notin Unledgered =>
                 /\ ledger[s]["scan_consumed"] = charged
                 /\ ledger[s]["scan_refunded"] = refunded
            /\ s \notin Unledgered => ledger[s]["scan_reserved"] = 1
            /\ s \in Unledgered => \A e \in Events : ledger[s][e] = 0
  <1>1. ASSUME NEW s \in Scans PROVE Agree(s)
    BY DEF BillingInv, BillingFollowsOutcome
  <1>2. SUFFICES ASSUME NEW s \in Scans PROVE Agree(s)'
    BY ScanSetsAssumption DEF BillingInv, BillingFollowsOutcome
  <1>3. scan \in [Scans -> ScanRecord]
    BY DEF TypeInv, TablesTyped
  <1>4. ASSUME scan'[s] = scan[s], ledger'[s] = ledger[s] PROVE Agree(s)'
    BY <1>1, <1>4
  <1>5. ASSUME NEW t \in Scans, Disappears(t) PROVE Agree(s)'
    <2>1. CASE t = s
      BY <1>1, <1>3, <1>5, <2>1 DEF Disappears, Becomes
    <2>2. CASE t # s
      BY <1>3, <1>4, <1>5, <2>2 DEF Disappears, Becomes
    <2> QED BY <2>1, <2>2
  <1>6. ASSUME NEW t \in Scans, NEW d \in Attempts, TakesOver(t, d) \/ GivesBack(t, d)
        PROVE  Agree(s)'
    <2>1. CASE t = s
      BY <1>1, <1>3, <1>6, <2>1 DEF TakesOver, GivesBack, Becomes, CanAcquire,
                                    SameMessageRedelivery, SameMessage, Owns
    <2>2. CASE t # s
      BY <1>3, <1>4, <1>6, <2>2 DEF TakesOver, GivesBack, Becomes
    <2> QED BY <2>1, <2>2
  <1>7. ASSUME NEW t \in Scans, NEW d \in Attempts, Succeeds(t, d) \/ Fails(t, d)
        PROVE  Agree(s)'
    <2>1. /\ scan[t].status \in {"PENDING", "IN_PROGRESS"}
          /\ ledger[t]["scan_consumed"] = 0 /\ ledger[t]["scan_refunded"] = 0
      BY <1>1, <1>7 DEF Succeeds, Fails, Owns, Events
    <2>2. CASE t = s
      BY <1>1, <1>3, <1>7, <2>1, <2>2, BillingEventEffect
         DEF Succeeds, Fails, Becomes, Events, TypeInv
    <2>3. CASE t # s
      <3>1. scan'[s] = scan[s]
        BY <1>3, <1>7, <2>3 DEF Succeeds, Fails, Becomes
      <3>2. ledger'[s] = ledger[s]
        BY <1>7, <2>1, <2>3, BillingEventEffect DEF Succeeds, Fails, TypeInv
      <3> QED BY <1>4, <3>1, <3>2
    <2> QED BY <2>2, <2>3
  <1> QED BY <1>4, <1>5, <1>6, <1>7, NextChanges DEF ScanChange

LEMMA InitBilling == Init => BillingInv
  <1> SUFFICES ASSUME Init PROVE BillingInv
    OBVIOUS
  <1>1. \A s \in Scans : /\ scan[s].status = "PENDING" /\ scan[s].billing = "RESERVED"
                        /\ \A e \in Events : ledger[s][e] =
                             IF e = "scan_reserved" /\ s \notin Unledgered THEN 1 ELSE 0
    BY DEF Init
  <1> QED BY <1>1, ScanSetsAssumption DEF BillingInv, BillingFollowsOutcome, Events

LEMMA Billing == Spec => []BillingInv
  BY InitBilling, NextBilling, Invariance, PTL DEF Spec

\* Every charge and refund matches the outcome of its scan, whatever is delivered
\* again, lost, replayed or deleted, and whichever slot crashes.
THEOREM BillingCorrect == Spec => []BillingFollowsOutcome
  <1>1. BillingInv => BillingFollowsOutcome
    BY DEF BillingInv
  <1> QED BY <1>1, Billing, PTL

-----------------------------------------------------------------------------
(* Ownership.  A delivery is made once, so an attempt id is fresh when its *)
(* transaction inserts the row, and no other slot works under it.          *)

OwnersSane ==
  \A s \in Scans :
    /\ scan[s].status = "PENDING" => scan[s].owner = None
    /\ scan[s].status = "IN_PROGRESS" =>
         /\ scan[s].owner \in Attempts
         /\ message[scan[s].owner[1]].scan = s
         /\ message[scan[s].owner[1]].state # "unsent"

RowsDelivered ==
  /\ \A a \in Attempts : attempt[a] # "NONE" => a[2] <= message[a[1]].count
  /\ \A m \in Messages : message[m].state = "unsent" => message[m].count = 0

FreshAttempts ==
  \A w \in Workers : worker[w].point \in {"begin", "reject"} => attempt[worker[w].delivery] = "NONE"

OneSlotEach ==
  \A v, w \in Workers :
    v # w /\ worker[v].point # "idle" /\ worker[w].point # "idle"
      => worker[v].delivery # worker[w].delivery

RowsTrue == OneLiveAttempt /\ TerminalAttemptWroteResult /\ OwnersSane

OwnershipInv == RowsTrue /\ RowsDelivered /\ FreshAttempts /\ OneSlotEach

LEMMA OpeningRows ==
  ASSUME TypeInv, RowsTrue, NEW s \in Scans, NEW d \in Attempts, UNCHANGED message,
         message[d[1]].scan = s, message[d[1]].state # "unsent",
         Opening(s, d), attempt[d] = "NONE"
  PROVE  /\ RowsTrue'
         /\ \A a \in Attempts \ {d} : attempt[a] = "NONE" => attempt'[a] = "NONE"
  <1>1. /\ scan \in [Scans -> ScanRecord] /\ attempt \in [Attempts -> AttemptStatus]
        /\ None \notin Attempts
    BY NoneAssumption DEF TypeInv, TablesTyped
  <1>2. ~\E t \in Scans : message[d[1]].scan = t /\ Owns(t, d)
    BY DEF RowsTrue, OneLiveAttempt
  <1>3. CASE Acquire(s, d)
    <2>1. /\ scan'[s].status = "IN_PROGRESS" /\ scan'[s].owner = d
          /\ \A t \in Scans \ {s} : scan'[t] = scan[t]
      BY <1>1, <1>3 DEF Acquire, ScanRecord
    <2>2. \A a \in Attempts : attempt'[a] =
            IF a = d THEN "STARTED"
            ELSE IF a = scan[s].owner /\ attempt[a] = "STARTED" THEN "RETRYABLE"
            ELSE attempt[a]
      BY <1>3 DEF Acquire
    <2>3. scan[s].status \in {"PENDING", "IN_PROGRESS"}
      BY <1>3 DEF Acquire, CanAcquire, SameMessageRedelivery, SameMessage
    <2>4. OwnersSane'
      BY <2>1 DEF RowsTrue, OwnersSane
    <2>5. OneLiveAttempt'
      <3> SUFFICES ASSUME NEW a \in Attempts
                   PROVE  attempt'[a] = "STARTED" <=>
                            \E t \in Scans : message[a[1]].scan = t /\ Owns(t, a)'
        BY DEF OneLiveAttempt
      <3>1. attempt[a] = "STARTED" <=> \E t \in Scans : message[a[1]].scan = t /\ Owns(t, a)
        BY DEF RowsTrue, OneLiveAttempt
      <3>2. CASE a = d
        BY <2>1, <2>2, <3>2 DEF Owns
      <3>3. CASE a # d /\ a = scan[s].owner
        BY <1>1, <2>1, <2>2, <2>3, <3>1, <3>3 DEF Owns, RowsTrue, OwnersSane
      <3>4. CASE a # d /\ a # scan[s].owner
        BY <2>1, <2>2, <3>1, <3>4 DEF Owns
      <3> QED BY <3>2, <3>3, <3>4
    <2>6. TerminalAttemptWroteResult'
      BY <2>1, <2>2, <2>3 DEF RowsTrue, TerminalAttemptWroteResult
    <2> QED BY <2>2, <2>4, <2>5, <2>6 DEF RowsTrue
  <1>4. ASSUME UNCHANGED scan, InsertAttempt(d, "SKIPPED") \/ UNCHANGED attempt
        PROVE  /\ RowsTrue'
               /\ \A a \in Attempts \ {d} : attempt[a] = "NONE" => attempt'[a] = "NONE"
    BY <1>1, <1>2, <1>4 DEF InsertAttempt, RowsTrue, OneLiveAttempt, Owns,
                            TerminalAttemptWroteResult, OwnersSane
  <1>5. CASE scan[s].status = "PENDING" /\ MarkRejected(s, d)
    <2>1. /\ scan'[s].status = "FAILED" /\ scan'[s].result = d
          /\ \A t \in Scans \ {s} : scan'[t] = scan[t]
      BY <1>1, <1>5 DEF MarkRejected, Finish
    <2>2. /\ attempt'[d] = "DEAD_LETTERED"
          /\ \A a \in Attempts \ {d} : attempt'[a] = attempt[a]
      BY <1>1, <1>5 DEF MarkRejected, InsertAttempt
    <2> QED BY <1>2, <1>5, <2>1, <2>2 DEF RowsTrue, OneLiveAttempt, Owns,
                                       TerminalAttemptWroteResult, OwnersSane
  <1> QED BY <1>3, <1>4, <1>5 DEF Opening, BeginTransaction, Decline, MarkRejected

LEMMA ClosingRows ==
  ASSUME TypeInv, RowsTrue, NEW s \in Scans, NEW d \in Attempts, UNCHANGED message,
         message[d[1]].scan = s, Closing(s, d)
  PROVE  /\ RowsTrue'
         /\ \A a \in Attempts : attempt[a] = "NONE" => attempt'[a] = "NONE"
  <1>1. /\ scan \in [Scans -> ScanRecord] /\ attempt \in [Attempts -> AttemptStatus]
        /\ None \notin Attempts
    BY NoneAssumption DEF TypeInv, TablesTyped
  <1>2. Owns(s, d) => attempt[d] = "STARTED"
    BY DEF RowsTrue, OneLiveAttempt
  <1>3. ~Owns(s, d) => attempt[d] # "STARTED"
    BY DEF RowsTrue, OneLiveAttempt
  <1>4. CASE ~Owns(s, d)
    <2>1. UNCHANGED scan /\ SetAttempt(d, "SKIPPED")
      BY <1>4 DEF Closing, MarkCompleted, MarkRetryable, MarkFailed
    <2> QED BY <1>1, <1>3, <1>4, <2>1
            DEF SetAttempt, RowsTrue, OneLiveAttempt, Owns, TerminalAttemptWroteResult, OwnersSane
  <1>5. CASE Owns(s, d)
    <2>1. PICK status \in {"RETRYABLE", "COMPLETED", "FAILED", "DEAD_LETTERED"} :
            /\ SetAttempt(d, status)
            /\ status = "COMPLETED" => scan'[s].status = "DONE"
            /\ status \in {"FAILED", "DEAD_LETTERED"} => scan'[s].status = "FAILED"
            /\ status # "RETRYABLE" => scan'[s].result = d
            /\ status = "RETRYABLE" => scan'[s].status = "PENDING" /\ scan'[s].owner = None
            /\ \A t \in Scans \ {s} : scan'[t] = scan[t]
      <3>1. CASE MarkCompleted(s, d)
        BY <1>1, <1>5, <3>1 DEF MarkCompleted, Finish
      <3>2. ASSUME NEW status \in {"FAILED", "DEAD_LETTERED"}, MarkFailed(s, d, status)
            PROVE  /\ SetAttempt(d, status) /\ scan'[s].status = "FAILED"
                   /\ scan'[s].result = d /\ \A t \in Scans \ {s} : scan'[t] = scan[t]
        BY <1>1, <1>5, <3>2 DEF MarkFailed, Finish
      <3>3. CASE MarkRetryable(s, d)
        BY <1>1, <1>5, <3>3 DEF MarkRetryable, ScanRecord
      <3> QED BY <3>1, <3>2, <3>3 DEF Closing
    <2>2. attempt'[d] = status /\ \A a \in Attempts \ {d} : attempt'[a] = attempt[a]
      BY <1>1, <1>2, <1>5, <2>1 DEF SetAttempt
    <2>3. scan[s].status = "IN_PROGRESS" /\ scan[s].owner = d
      BY <1>5 DEF Owns
    <2>4. scan'[s].status # "IN_PROGRESS"
      BY <2>1
    <2> QED BY <1>2, <2>1, <2>2, <2>3, <2>4
            DEF RowsTrue, OneLiveAttempt, Owns, TerminalAttemptWroteResult, OwnersSane
  <1> QED BY <1>4, <1>5

LEMMA StepOwnership ==
  ASSUME TypeInv, OwnershipInv, NEW w \in Workers, Step(w)
  PROVE  OwnershipInv'
  <1> DEFINE s == ScanOf(w)
             d == worker[w].delivery
  <1>1. StepShape(w)
    BY StepHasShape
  <1>2. /\ s \in Scans /\ d \in Attempts /\ MessageOf(w) \in Messages
        /\ message[d[1]].scan = s /\ message[d[1]].state # "unsent"
        /\ d[2] <= message[d[1]].count
    BY <1>1, DeliveredScan DEF StepShape, TypeInv, DeliveriesSane, ScanOf, MessageOf
  <1>3. PICK p \in WorkerRecord : /\ worker' = [worker EXCEPT ![w] = p]
                                  /\ p.point \notin {"begin", "reject"}
                                  /\ p.point # "idle" => p.delivery = d
    BY <1>1 DEF StepShape
  <1>4. /\ \A v \in Workers \ {w} : worker'[v] = worker[v]
        /\ worker'[w] = p
    BY <1>3 DEF TypeInv, WorkersTyped
  <1>5. OneSlotEach'
    BY <1>1, <1>3, <1>4 DEF OwnershipInv, OneSlotEach, StepShape
  <1>6. ASSUME NEW a \in Attempts PROVE a[1] \in Messages /\ a[2] \in Nat
    BY MaxDeliveryAssumption DEF Attempts
  <1>7. CASE UNCHANGED Tables /\ (QueueMove(MessageOf(w)) \/ UNCHANGED message)
    <2>1. \A m \in Messages :
            /\ message'[m].scan = message[m].scan /\ message'[m].count = message[m].count
            /\ message'[m].state # "unsent" <=> message[m].state # "unsent"
      BY <1>2, <1>7, QueueMoveTyped
    <2>2. RowsTrue' /\ RowsDelivered'
      BY <1>6, <1>7, <2>1 DEF OwnershipInv, RowsTrue, OneLiveAttempt, Owns, Tables,
           TerminalAttemptWroteResult, OwnersSane, RowsDelivered
    <2>3. FreshAttempts'
      BY <1>3, <1>4, <1>7 DEF OwnershipInv, FreshAttempts, Tables
    <2> QED BY <1>5, <2>2, <2>3 DEF OwnershipInv
  <1>8. CASE UNCHANGED message /\ Opening(s, d) /\ worker[w].point \in {"begin", "reject"}
    <2>1. attempt[d] = "NONE"
      BY <1>8 DEF OwnershipInv, FreshAttempts
    <2>2. RowsTrue' /\ \A a \in Attempts \ {d} : attempt[a] = "NONE" => attempt'[a] = "NONE"
      BY <1>2, <1>8, <2>1, OpeningRows DEF OwnershipInv
    <2>3. RowsDelivered'
      BY <1>2, <1>8, <2>2 DEF OwnershipInv, RowsDelivered
    <2>4. FreshAttempts'
      BY <1>1, <1>3, <1>4, <2>2, DeliveredScan
         DEF OwnershipInv, FreshAttempts, OneSlotEach, StepShape
    <2> QED BY <1>5, <2>2, <2>3, <2>4 DEF OwnershipInv
  <1>9. CASE UNCHANGED message /\ Closing(s, d)
    <2>1. RowsTrue' /\ \A a \in Attempts : attempt[a] = "NONE" => attempt'[a] = "NONE"
      BY <1>2, <1>9, ClosingRows DEF OwnershipInv
    <2>2. RowsDelivered'
      BY <1>9, <2>1 DEF OwnershipInv, RowsDelivered
    <2>3. FreshAttempts'
      BY <1>3, <1>4, <2>1, DeliveredScan DEF OwnershipInv, FreshAttempts
    <2> QED BY <1>5, <2>1, <2>2, <2>3 DEF OwnershipInv
  <1> QED BY <1>1, <1>7, <1>8, <1>9 DEF StepShape

LEMMA ReceiveOwnership ==
  ASSUME TypeInv, OwnershipInv, NEW w \in Workers, NEW m \in Messages, Receive(w, m)
  PROVE  OwnershipInv'
  <1> DEFINE d == <<m, message[m].count + 1>>
  <1>1. /\ message \in [Messages -> MessageRecord] /\ message[m].count \in Nat
        /\ message[m].state = "queued" /\ message[m].count < MaxDelivery
        /\ d \in Attempts
    BY MaxDeliveryAssumption
       DEF TypeInv, MessagesTyped, MessagesSane, MessageRecord, Receive, Attempts
  <1>2. message' = [message EXCEPT ![m].state = "locked", ![m].holder = w, ![m].count = @ + 1]
    BY DEF Receive
  <1>3. /\ message'[m].state = "locked" /\ message'[m].count = message[m].count + 1
        /\ message'[m].scan = message[m].scan
        /\ \A c \in Messages \ {m} : message'[c] = message[c]
    BY <1>1, <1>2 DEF MessageRecord
  <1>4. PICK p : /\ worker' = [worker EXCEPT ![w] = p] /\ p.delivery = d
    <2>1. PICK point \in {"reject", "begin"} : worker' = [worker EXCEPT ![w] = Point(point, d)]
      BY DEF Receive, Continue
    <2>2. Point(point, d).delivery = d
      BY <1>1, Points DEF ControlPoints, Calls, Failures
    <2> QED BY <2>1, <2>2
  <1>5. worker'[w].delivery = d /\ \A v \in Workers \ {w} : worker'[v] = worker[v]
    BY <1>4 DEF TypeInv, WorkersTyped
  <1>6. UNCHANGED Tables
    BY DEF Receive
  <1>7. ASSUME NEW a \in Attempts PROVE a[1] \in Messages /\ a[2] \in Nat /\ a = <<a[1], a[2]>>
    BY MaxDeliveryAssumption DEF Attempts
  <1>8. RowsTrue'
    BY <1>1, <1>3, <1>6, <1>7 DEF OwnershipInv, RowsTrue, OneLiveAttempt, Owns, Tables,
         TerminalAttemptWroteResult, OwnersSane
  <1>9. RowsDelivered'
    BY <1>1, <1>3, <1>6, <1>7 DEF OwnershipInv, RowsDelivered, Tables
  <1>10. attempt[d] = "NONE"
    BY <1>1 DEF OwnershipInv, RowsDelivered
  <1>11. FreshAttempts'
    BY <1>5, <1>6, <1>10 DEF OwnershipInv, FreshAttempts, Tables
  <1>12. OneSlotEach'
    <2>1. ASSUME NEW v \in Workers \ {w}, worker[v].point # "idle" PROVE worker[v].delivery # d
      <3>1. worker[v].delivery[1] \in Messages /\ worker[v].delivery \in Attempts
        BY <2>1, DeliveredScan DEF MessageOf
      <3>2. worker[v].delivery[2] <= message[worker[v].delivery[1]].count
        BY <2>1 DEF TypeInv, DeliveriesSane
      <3> QED BY <1>1, <1>7, <3>1, <3>2
    <2> QED BY <1>5, <2>1 DEF OwnershipInv, OneSlotEach
  <1> QED BY <1>8, <1>9, <1>11, <1>12 DEF OwnershipInv

\* A queue that sends, moves or loses copies does not disturb the tables.
LEMMA BrokerOwnership ==
  ASSUME TypeInv, TypeInv', OwnershipInv, UNCHANGED <<worker, Tables>>,
         \A m \in Messages :
           /\ message[m].state # "unsent" =>
                /\ message'[m].state # "unsent"
                /\ message'[m].scan = message[m].scan /\ message'[m].count = message[m].count
           /\ message[m].state = "unsent" => message'[m].count = 0
  PROVE  OwnershipInv'
  <1>1. ASSUME NEW a \in Attempts PROVE a[1] \in Messages /\ a[2] \in Nat \ {0}
    BY MaxDeliveryAssumption DEF Attempts
  <1>2. \A a \in Attempts : attempt[a] # "NONE" => message[a[1]].state # "unsent"
    BY <1>1 DEF OwnershipInv, RowsDelivered
  <1>3. OwnersSane'
    BY <1>1 DEF OwnershipInv, RowsTrue, OwnersSane, Tables
  <1>4. OneLiveAttempt'
    <2> SUFFICES ASSUME NEW a \in Attempts
                 PROVE  attempt[a] = "STARTED" <=>
                          \E t \in Scans : message'[a[1]].scan = t /\ Owns(t, a)
      BY DEF OneLiveAttempt, Owns, Tables
    <2>1. CASE message[a[1]].state # "unsent"
      BY <1>1, <2>1 DEF OwnershipInv, RowsTrue, OneLiveAttempt
    <2>2. CASE message[a[1]].state = "unsent"
      BY <1>2, <2>2 DEF OwnershipInv, RowsTrue, OwnersSane, Owns
    <2> QED BY <2>1, <2>2
  <1>5. TerminalAttemptWroteResult'
    BY <1>1, <1>2 DEF OwnershipInv, RowsTrue, TerminalAttemptWroteResult, Tables
  <1>6. RowsDelivered'
    BY <1>1, <1>2 DEF OwnershipInv, RowsDelivered, Tables
  <1>7. FreshAttempts' /\ OneSlotEach'
    BY DEF OwnershipInv, FreshAttempts, OneSlotEach, Tables
  <1> QED BY <1>3, <1>4, <1>5, <1>6, <1>7 DEF OwnershipInv, RowsTrue

LEMMA DeleteScanOwnership ==
  ASSUME TypeInv, OwnershipInv, NEW s \in Scans, DeleteScan(s)
  PROVE  OwnershipInv'
  <1>1. /\ scan'[s].status = "DELETED" /\ \A t \in Scans \ {s} : scan'[t] = scan[t]
        /\ Finished(s)
    BY DEF DeleteScan, TypeInv, TablesTyped, ScanRecord
  <1>2. \A a \in Attempts : attempt'[a] = IF message[a[1]].scan = s THEN "NONE" ELSE attempt[a]
    BY DEF DeleteScan
  <1>3. UNCHANGED <<message, worker>>
    BY DEF DeleteScan
  <1>4. RowsTrue'
    BY <1>1, <1>2, <1>3 DEF OwnershipInv, RowsTrue, OneLiveAttempt, Owns, Finished,
         TerminalAttemptWroteResult, OwnersSane
  <1>5. RowsDelivered'
    BY <1>2, <1>3 DEF OwnershipInv, RowsDelivered
  <1>6. FreshAttempts' /\ OneSlotEach'
    BY <1>2, <1>3, DeliveredScan DEF OwnershipInv, FreshAttempts, OneSlotEach
  <1> QED BY <1>4, <1>5, <1>6 DEF OwnershipInv

LEMMA BrokerFrame ==
  ASSUME TypeInv, OwnershipInv, NEW m \in Messages,
         \/ LockExpires(m) \/ Expires(m) \/ Purge(m)
         \/ \E s \in Scans : Publish(m, s)
         \/ \E r \in Messages : Replay(m, r)
  PROVE  /\ UNCHANGED <<worker, Tables>>
         /\ \A c \in Messages :
              /\ message[c].state # "unsent" =>
                   /\ message'[c].state # "unsent"
                   /\ message'[c].scan = message[c].scan /\ message'[c].count = message[c].count
              /\ message[c].state = "unsent" => message'[c].count = 0
  <1>1. message \in [Messages -> MessageRecord]
    BY DEF TypeInv, MessagesTyped
  <1>2. \A c \in Messages : message[c].state = "unsent" => message[c].count = 0
    BY DEF OwnershipInv, RowsDelivered
  <1>3. CASE LockExpires(m) \/ Expires(m) \/ Purge(m)
    <2>1. QueueMove(m) /\ UNCHANGED <<worker, Tables>>
      BY <1>3 DEF LockExpires, Expires, Purge, QueueMove
    <2> QED BY <1>2, <2>1, QueueMoveTyped
  <1>4. ASSUME NEW s \in Scans, Publish(m, s)
        PROVE  /\ UNCHANGED <<worker, Tables>> /\ message[m].state = "unsent"
               /\ message'[m].count = 0
               /\ \A c \in Messages \ {m} : message'[c] = message[c]
    BY <1>1, <1>4 DEF Publish
  <1>5. ASSUME NEW r \in Messages, Replay(m, r)
        PROVE  /\ UNCHANGED <<worker, Tables>> /\ message[r].state = "unsent"
               /\ message'[r].count = 0
               /\ message[m].state # "unsent" /\ message'[m].state # "unsent"
               /\ message'[m].scan = message[m].scan /\ message'[m].count = message[m].count
               /\ \A c \in Messages \ {m, r} : message'[c] = message[c]
    <2> DEFINE copy == [scan |-> message[m].scan, id |-> r,
                        state |-> "queued", holder |-> None, count |-> 0]
    <2>1. PICK state \in {"done", "dlq"} :
            message' = [message EXCEPT ![m] = Moved(m, state), ![r] = copy]
      BY <1>5 DEF Replay
    <2>2. /\ m # r /\ message[m].state = "dlq" /\ message[r].state = "unsent"
          /\ UNCHANGED <<worker, Tables>>
      BY <1>5 DEF Replay
    <2>3. /\ Moved(m, state).state = state /\ Moved(m, state).count = message[m].count
          /\ Moved(m, state).scan = message[m].scan
      BY <1>1 DEF Moved, MessageRecord
    <2>4. copy.count = 0
      OBVIOUS
    <2> HIDE DEF copy
    <2>5. /\ message'[m] = Moved(m, state) /\ message'[r] = copy
          /\ \A c \in Messages \ {m, r} : message'[c] = message[c]
      BY <1>1, <2>1, <2>2
    <2> QED BY <2>2, <2>3, <2>4, <2>5
  <1>6. CASE \E s \in Scans : Publish(m, s)
    BY <1>2, <1>4, <1>6
  <1>7. CASE \E r \in Messages : Replay(m, r)
    BY <1>2, <1>5, <1>7
  <1> QED BY <1>3, <1>6, <1>7

LEMMA NextOwnership ==
  ASSUME TypeInv, OwnershipInv, [Next]_vars
  PROVE  OwnershipInv'
  <1>1. CASE UNCHANGED vars
    BY <1>1 DEF vars, OwnershipInv, RowsTrue, OneLiveAttempt, Owns, TerminalAttemptWroteResult,
                OwnersSane, RowsDelivered, FreshAttempts, OneSlotEach
  <1>2. ASSUME NEW w \in Workers, Step(w) PROVE OwnershipInv'
    BY <1>2, StepOwnership
  <1>3. ASSUME NEW w \in Workers, NEW m \in Messages, Receive(w, m) PROVE OwnershipInv'
    BY <1>3, ReceiveOwnership
  <1>4. ASSUME NEW m \in Messages,
               \/ LockExpires(m) \/ Expires(m) \/ Purge(m)
               \/ \E s \in Scans : Publish(m, s)
               \/ \E r \in Messages : Replay(m, r)
        PROVE  OwnershipInv'
    <2>1. TypeInv'
      BY NextTyped
    <2> QED BY <1>4, <2>1, BrokerFrame, BrokerOwnership
  <1>5. ASSUME NEW s \in Scans, DeleteScan(s) PROVE OwnershipInv'
    BY <1>5, DeleteScanOwnership
  <1> QED BY <1>1, <1>2, <1>3, <1>4, <1>5 DEF Next

LEMMA InitOwnership == Init => OwnershipInv
  BY NoneAssumption DEF Init, OwnershipInv, RowsTrue, OneLiveAttempt, Owns, Idle, Point,
     TerminalAttemptWroteResult, OwnersSane, RowsDelivered, FreshAttempts, OneSlotEach

LEMMA Ownership == Spec => []OwnershipInv
  BY InitOwnership, NextOwnership, Invariance, PTL DEF Spec

\* After any crash, redelivery, duplicate or replay, a scan that is IN_PROGRESS has
\* exactly one STARTED attempt row, that of its owner; no other scan has one.
THEOREM SingleAttempt == Spec => []OneLiveAttempt
  <1>1. OwnershipInv => OneLiveAttempt
    BY DEF OwnershipInv, RowsTrue
  <1> QED BY <1>1, Ownership, PTL

\* An attempt whose row is terminal is the one whose result the scan keeps.
THEOREM TerminalRows == Spec => []TerminalAttemptWroteResult
  <1>1. OwnershipInv => TerminalAttemptWroteResult
    BY DEF OwnershipInv, RowsTrue
  <1> QED BY <1>1, Ownership, PTL

\* A finished scan changes only by deletion, and only its owner, or the rejection of
\* a malformed message of a PENDING scan, finishes it.
THEOREM OnlyOwner == Spec => OnlyOwnerFinishes
  <1> DEFINE Kept(s) ==
        scan'[s] # scan[s] =>
          /\ Finished(s) => scan'[s].status = "DELETED"
          /\ scan'[s].result \notin {None, scan[s].result} =>
               \/ scan[s].status = "IN_PROGRESS" /\ scan'[s].result = scan[s].owner
               \/ scan[s].status = "PENDING" /\ scan'[s].status = "FAILED"
  <1>1. ASSUME TypeInv, [Next]_vars PROVE \A s \in Scans : Kept(s)
    <2> SUFFICES ASSUME NEW s \in Scans, scan'[s] # scan[s] PROVE Kept(s)
      OBVIOUS
    <2>1. PICK t \in Scans : Disappears(t) \/ \E d \in Attempts : ScanChange(t, d)
      BY <1>1, NextChanges
    <2>2. t = s
      BY <2>1 DEF Disappears, ScanChange, TakesOver, GivesBack, Succeeds, Fails, Becomes
    <2>3. CASE Disappears(s)
      BY <2>3 DEF Disappears, Becomes
    <2>4. ASSUME NEW d \in Attempts, ScanChange(s, d) PROVE Kept(s)
      BY <2>4 DEF ScanChange, TakesOver, GivesBack, Succeeds, Fails, Becomes, CanAcquire,
                  SameMessageRedelivery, SameMessage, Owns, Finished
    <2> QED BY <2>1, <2>2, <2>3, <2>4
  <1>2. ASSUME TypeInv, [Next]_vars PROVE [\A s \in Scans : Kept(s)]_vars
    BY <1>1, <1>2
  <1> QED BY <1>2, Invariance, PTL DEF Spec, OnlyOwnerFinishes

-----------------------------------------------------------------------------
(* No published scan is dropped.  The copies the publisher sends have one   *)
(* id, that of their scan, so a declined delivery of an IN_PROGRESS scan is *)
(* abandoned; a replayed message has an id of its own and is completed,     *)
(* which is why the operators' scripts are excluded here.  The invariant:   *)
(* whoever is about to complete a message, or has, finds its scan closed.   *)

OpenStates == {"PENDING", "IN_PROGRESS"}

IdsAreScans ==
  \A m \in Messages : message[m].state # "unsent" => message[m].id = message[m].scan

Completing(w) == worker[w].point = "settle" /\ worker[w].call = "complete"

CompletionsClosed ==
  /\ \A w \in Workers : Completing(w) => scan[ScanOf(w)].status \notin OpenStates
  /\ \A m \in Messages :
       message[m].state = "done" => scan[message[m].scan].status \notin OpenStates

CompletionInv == IdsAreScans /\ CompletionsClosed

LEMMA ClosedStaysClosed ==
  ASSUME TypeInv, [Next]_vars, NEW s \in Scans, scan[s].status \notin OpenStates
  PROVE  scan'[s].status \notin OpenStates
  <1>1. ASSUME NEW t \in Scans, Disappears(t) \/ \E d \in Attempts : ScanChange(t, d)
        PROVE  scan'[s].status \notin OpenStates
    <2>1. CASE t = s
      BY <1>1, <2>1 DEF OpenStates, Disappears, ScanChange, TakesOver, GivesBack, Succeeds, Fails,
           Becomes, CanAcquire, SameMessageRedelivery, SameMessage, Owns
    <2>2. CASE t # s
      BY <1>1, <2>2 DEF Disappears, ScanChange, TakesOver, GivesBack, Succeeds, Fails, Becomes
    <2> QED BY <2>1, <2>2
  <1> QED BY <1>1, NextChanges

LEMMA SettlingCalls ==
  ASSUME NEW d, NEW c \in Calls, NEW e, NEW p \in ControlPoints \ {"settle"}, NEW f
  PROVE  /\ Settling(c, e, d).call = c
         /\ Point(p, d).point # "settle" /\ Failing(f, d).point # "settle"
         /\ Idle.point # "settle"
  BY DEF Settling, Point, Failing, Idle

\* A delivery that cannot acquire its scan finds it closed, or IN_PROGRESS under
\* a delivery with the same id: the message is then abandoned.
LEMMA DeclinedIsClosed ==
  ASSUME TypeInv, OwnershipInv, IdsAreScans, NEW w \in Workers, worker[w].point # "idle",
         ~CanAcquire(ScanOf(w), worker[w].delivery),
         ~SameMessage(ScanOf(w), worker[w].delivery)
  PROVE  scan[ScanOf(w)].status \notin OpenStates
  <1> DEFINE s == ScanOf(w)
             d == worker[w].delivery
  <1>1. s \in Scans /\ d[1] \in Messages /\ message[d[1]].scan = s
    BY DeliveredScan DEF ScanOf, MessageOf
  <1>2. message[d[1]].id = s
    BY <1>1 DEF IdsAreScans, TypeInv, DeliveriesSane
  <1>3. ASSUME scan[s].status = "IN_PROGRESS" PROVE FALSE
    <2>1. /\ scan[s].owner \in Attempts /\ message[scan[s].owner[1]].scan = s
          /\ message[scan[s].owner[1]].state # "unsent"
      BY <1>1, <1>3 DEF OwnershipInv, RowsTrue, OwnersSane
    <2>2. scan[s].owner[1] \in Messages /\ scan[s].owner # None
      BY <2>1, NoneAssumption DEF Attempts
    <2>3. message[scan[s].owner[1]].id = s
      BY <2>1, <2>2 DEF IdsAreScans
    <2> QED BY <1>2, <1>3, <2>2, <2>3 DEF SameMessage
  <1> QED BY <1>3 DEF CanAcquire, OpenStates

\* A handler decides to complete its message only once its scan is closed.
LEMMA CompletionDecided ==
  ASSUME TypeInv, OwnershipInv, IdsAreScans, NEW w \in Workers, Step(w), Completing(w)'
  PROVE  scan'[ScanOf(w)].status \notin OpenStates
  <1> DEFINE s == ScanOf(w)
             d == worker[w].delivery
  <1>1. worker[w].point # "idle"
    BY StepHasShape DEF StepShape
  <1>2. s \in Scans /\ d \in Attempts /\ scan \in [Scans -> ScanRecord]
    BY <1>1, DeliveredScan DEF TypeInv, TablesTyped
  <1>3. ASSUME NEW p, Continue(w, p) PROVE p.point = "settle" /\ p.call = "complete"
    BY <1>3 DEF Continue, Completing, TypeInv, WorkersTyped
  <1>4. ASSUME NEW c \in Calls, NEW e, Continue(w, Settling(c, e, d)) PROVE c = "complete"
    BY <1>3, <1>4, SettlingCalls DEF ControlPoints
  <1>5. ASSUME NEW p \in ControlPoints \ {"settle"}, NEW f,
               \/ Continue(w, Point(p, d)) \/ Continue(w, Failing(f, d)) \/ Continue(w, Idle)
        PROVE  FALSE
    BY <1>3, <1>5, SettlingCalls DEF Calls
  <1>6. ASSUME NEW c \in Calls, NEW e, SettleIfOwned(w, c, e)
        PROVE  c = "complete" /\ Owns(s, d)
    BY <1>4, <1>5, <1>6 DEF SettleIfOwned, ControlPoints
  <1>7. ASSUME Owns(s, d), NEW status, MarkFailed(s, d, status) \/ MarkCompleted(s, d)
        PROVE  scan'[s].status \notin OpenStates
    BY <1>2, <1>7 DEF MarkFailed, MarkCompleted, Finish, OpenStates
  <1>8. CASE BeginAttempt(w)
    <2>1. ~CanAcquire(s, d) /\ ~SameMessage(s, d)
      BY <1>4, <1>5, <1>8 DEF BeginAttempt, ControlPoints, Calls
    <2>2. UNCHANGED scan
      BY <1>8, <2>1 DEF BeginAttempt, BeginTransaction, Acquire, Decline
    <2> QED BY <1>1, <2>1, <2>2, DeclinedIsClosed
  <1>9. CASE RejectOverLimit(w)
    BY <1>6, <1>7, <1>9 DEF RejectOverLimit, Calls
  <1>10. CASE Complete(w)
    BY <1>6, <1>7, <1>10 DEF Complete, Calls
  <1>11. CASE GiveUp(w)
    BY <1>6, <1>7, <1>11 DEF GiveUp, Calls
  <1>12. CASE RetryLater(w)
    BY <1>6, <1>12 DEF RetryLater, Calls
  <1>13. CASE BeginAttemptFails(w) \/ Reject(w) \/ RejectFails(w) \/ PersistFailureFails(w)
    BY <1>4, <1>13 DEF BeginAttemptFails, Reject, RejectFails, PersistFailureFails, Calls
  <1>14. CASE PreflightLost(w) \/ PreflightOverLimit(w) \/ RunAudit(w) \/ Settle(w) \/ Crash(w)
    BY <1>5, <1>14 DEF PreflightLost, PreflightOverLimit, RunAudit, Settle, Crash, ControlPoints
  <1>15. CASE RunFails(w) \/ OutcomeFails(w)
    BY <1>5, <1>15 DEF RunFails, OutcomeFails, ControlPoints
  <1>16. CASE SettleFails(w)
    BY <1>4, <1>5, <1>16 DEF SettleFails, ControlPoints, Calls
  <1> QED
    BY <1>8, <1>9, <1>10, <1>11, <1>12, <1>13, <1>14, <1>15, <1>16 DEF Step

\* A message is done only by a completion that its handler decided.
LEMMA CompletionMade ==
  ASSUME TypeInv, NEW w \in Workers, Step(w),
         NEW m \in Messages, message'[m].state = "done", message[m].state # "done"
  PROVE  m = MessageOf(w) /\ Completing(w)
  <1>1. message \in [Messages -> MessageRecord]
    BY DEF TypeInv, MessagesTyped
  <1>2. message' # message
    OBVIOUS
  <1>3. At(w, "settle") /\ Settlement(w)
    BY <1>2 DEF Step, BeginAttempt, BeginAttemptFails, Reject, RejectFails, PreflightLost,
         PreflightOverLimit, RunAudit, RunFails, RejectOverLimit, Complete, OutcomeFails,
         RetryLater, GiveUp, PersistFailureFails, Settle, SettleFails, Crash
  <1>4. m = MessageOf(w)
    BY <1>1, <1>3 DEF Settlement
  <1>5. Released(m).state # "done" /\ Moved(m, "dlq").state # "done"
    BY <1>1 DEF Released, Moved, MessageRecord
  <1>6. worker[w].call = "complete"
    BY <1>1, <1>3, <1>4, <1>5 DEF Settlement
  <1> QED BY <1>3, <1>4, <1>6 DEF Completing, At

LEMMA StepCompletion ==
  ASSUME TypeInv, OwnershipInv, CompletionInv, NEW w \in Workers, Step(w)
  PROVE  CompletionInv'
  <1>1. StepShape(w)
    BY StepHasShape
  <1>2. ScanOf(w) \in Scans /\ MessageOf(w) \in Messages
    BY <1>1, DeliveredScan DEF StepShape
  <1>3. [Next]_vars
    BY DEF Next
  <1>4. \A m \in Messages :
          /\ message'[m].scan = message[m].scan /\ message'[m].id = message[m].id
          /\ message'[m].state # "unsent" <=> message[m].state # "unsent"
    BY <1>1, <1>2, QueueMoveTyped DEF StepShape
  <1>5. IdsAreScans'
    BY <1>4 DEF CompletionInv, IdsAreScans
  <1>6. ASSUME NEW m \in Messages, message'[m].state = "done"
        PROVE  scan'[message'[m].scan].status \notin OpenStates
    <2>1. message[m].scan \in Scans
      BY <1>4, <1>6 DEF TypeInv, MessagesSane
    <2>2. scan[message[m].scan].status \notin OpenStates
      <3>1. CASE message[m].state = "done"
        BY <3>1 DEF CompletionInv, CompletionsClosed
      <3>2. CASE message[m].state # "done"
        BY <1>6, <3>2, CompletionMade DEF CompletionInv, CompletionsClosed, ScanOf
      <3> QED BY <3>1, <3>2
    <2> QED BY <1>3, <1>4, <2>1, <2>2, ClosedStaysClosed
  <1>7. ASSUME NEW v \in Workers, Completing(v)'
        PROVE  scan'[ScanOf(v)'].status \notin OpenStates
    <2>1. /\ worker[v].point # "idle" /\ worker'[v].delivery = worker[v].delivery
          /\ v # w => Completing(v)
      BY <1>1, <1>7 DEF StepShape, Completing, TypeInv, WorkersTyped
    <2>2. ScanOf(v) \in Scans /\ MessageOf(v) \in Messages
      BY <2>1, DeliveredScan
    <2>3. ScanOf(v)' = ScanOf(v)
      BY <1>4, <2>1, <2>2 DEF ScanOf, MessageOf
    <2>4. CASE v = w
      BY <1>7, <2>3, <2>4, CompletionDecided DEF CompletionInv
    <2>5. CASE v # w
      BY <1>3, <2>1, <2>2, <2>3, <2>5, ClosedStaysClosed DEF CompletionInv, CompletionsClosed
    <2> QED BY <2>4, <2>5
  <1> QED BY <1>5, <1>6, <1>7 DEF CompletionInv, CompletionsClosed

\* The broker's steps and the publisher's complete nothing; without the operators'
\* scripts every copy sent has the id of its scan.
LEMMA BrokerCompletion ==
  ASSUME OperatorTools = FALSE, TypeInv, OwnershipInv, CompletionInv, NEW m \in Messages,
         \/ LockExpires(m) \/ Expires(m) \/ Purge(m)
         \/ \E s \in Scans : Publish(m, s)
         \/ \E r \in Messages : Replay(m, r)
  PROVE  CompletionInv'
  <1>1. message \in [Messages -> MessageRecord]
    BY DEF TypeInv, MessagesTyped
  <1>2. /\ UNCHANGED <<worker, Tables>>
        /\ \A c \in Messages : message[c].state # "unsent" => message'[c].scan = message[c].scan
    BY BrokerFrame
  <1>3. \A c \in Messages :
          /\ message'[c].state # "unsent" => message'[c].id = message'[c].scan
          /\ message'[c].state = "done" => message[c].state = "done"
    <2>1. CASE LockExpires(m) \/ Expires(m)
      <3>1. \A c \in Messages \ {m} : message'[c] = message[c]
        BY <1>1, <2>1 DEF LockExpires, Expires
      <3>2. /\ message'[m].id = message[m].id /\ message'[m].scan = message[m].scan
            /\ message'[m].state \in {"queued", "dlq"} /\ message[m].state # "unsent"
        <4>1. CASE LockExpires(m)
          BY <1>1, <4>1 DEF LockExpires, Released, Moved, MessageRecord
        <4>2. CASE Expires(m)
          BY <1>1, <4>2 DEF Expires, Moved, MessageRecord
        <4> QED BY <2>1, <4>1, <4>2
      <3> QED BY <3>1, <3>2 DEF CompletionInv, IdsAreScans
    <2>2. ASSUME NEW s \in Scans, Publish(m, s)
          PROVE  \A c \in Messages :
                   /\ message'[c].state # "unsent" => message'[c].id = message'[c].scan
                   /\ message'[c].state = "done" => message[c].state = "done"
      BY <1>1, <2>2 DEF Publish, CompletionInv, IdsAreScans
    <2>3. ~Purge(m) /\ \A r \in Messages : ~Replay(m, r)
      BY DEF Purge, Replay
    <2> QED BY <2>1, <2>2, <2>3
  <1>4. ASSUME NEW w \in Workers, Completing(w)
        PROVE  ScanOf(w)' = ScanOf(w)
    <2>1. worker[w].point # "idle"
      BY <1>4 DEF Completing
    <2>2. MessageOf(w) \in Messages /\ message[MessageOf(w)].state # "unsent"
      BY <2>1, DeliveredScan DEF TypeInv, DeliveriesSane, MessageOf
    <2> QED BY <1>2, <2>2 DEF ScanOf, MessageOf
  <1>5. UNCHANGED <<worker, scan>>
    BY <1>2 DEF Tables
  <1>6. \A w \in Workers : Completing(w)' => scan'[ScanOf(w)'].status \notin OpenStates
    BY <1>4, <1>5 DEF Completing, CompletionInv, CompletionsClosed
  <1>7. \A c \in Messages :
          message'[c].state = "done" => scan'[message'[c].scan].status \notin OpenStates
    BY <1>2, <1>3, <1>5 DEF CompletionInv, CompletionsClosed
  <1> QED BY <1>3, <1>6, <1>7 DEF CompletionInv, IdsAreScans, CompletionsClosed

LEMMA ReceiveCompletion ==
  ASSUME TypeInv, CompletionInv, NEW w \in Workers, NEW m \in Messages, Receive(w, m)
  PROVE  CompletionInv'
  <1>1. message \in [Messages -> MessageRecord]
    BY DEF TypeInv, MessagesTyped
  <1>2. message' = [message EXCEPT ![m].state = "locked", ![m].holder = w, ![m].count = @ + 1]
    BY DEF Receive
  <1>3. /\ message'[m].state = "locked" /\ message[m].state = "queued"
        /\ message'[m].scan = message[m].scan /\ message'[m].id = message[m].id
        /\ \A c \in Messages \ {m} : message'[c] = message[c]
    BY <1>1, <1>2 DEF MessageRecord, Receive
  <1>4. ~Completing(w)' /\ \A v \in Workers \ {w} : worker'[v] = worker[v]
    BY DEF Receive, Continue, Point, Completing, TypeInv, WorkersTyped
  <1>5. UNCHANGED scan
    BY DEF Receive, Tables
  <1>6. ASSUME NEW v \in Workers, Completing(v)'
        PROVE  scan'[ScanOf(v)'].status \notin OpenStates
    <2>1. v # w /\ worker'[v] = worker[v] /\ Completing(v)
      BY <1>4, <1>6 DEF Completing
    <2>2. MessageOf(v) \in Messages
      BY <2>1, DeliveredScan DEF Completing
    <2>3. ScanOf(v)' = ScanOf(v)
      BY <1>3, <2>1, <2>2 DEF ScanOf, MessageOf
    <2> QED BY <1>5, <2>1, <2>3 DEF CompletionInv, CompletionsClosed
  <1> QED BY <1>3, <1>5, <1>6 DEF CompletionInv, IdsAreScans, CompletionsClosed

LEMMA DeleteScanCompletion ==
  ASSUME TypeInv, CompletionInv, NEW s \in Scans, DeleteScan(s)
  PROVE  CompletionInv'
  <1>1. UNCHANGED <<message, worker>> /\ [Next]_vars
    BY DEF DeleteScan, Next
  <1>2. \A w \in Workers : Completing(w) => ScanOf(w) \in Scans
    BY DeliveredScan DEF Completing
  <1>3. \A m \in Messages : message[m].state = "done" => message[m].scan \in Scans
    BY DEF TypeInv, MessagesSane
  <1> QED
    BY <1>1, <1>2, <1>3, ClosedStaysClosed
       DEF CompletionInv, IdsAreScans, CompletionsClosed, Completing, ScanOf, MessageOf

LEMMA NextCompletion ==
  ASSUME OperatorTools = FALSE, TypeInv, OwnershipInv, CompletionInv, [Next]_vars
  PROVE  CompletionInv'
  <1>1. CASE UNCHANGED vars
    BY <1>1 DEF vars, CompletionInv, IdsAreScans, CompletionsClosed, Completing, ScanOf, MessageOf
  <1>2. ASSUME NEW w \in Workers, Step(w) PROVE CompletionInv'
    BY <1>2, StepCompletion
  <1>3. ASSUME NEW w \in Workers, NEW m \in Messages, Receive(w, m) PROVE CompletionInv'
    BY <1>3, ReceiveCompletion
  <1>4. ASSUME NEW m \in Messages,
               \/ LockExpires(m) \/ Expires(m) \/ Purge(m)
               \/ \E s \in Scans : Publish(m, s)
               \/ \E r \in Messages : Replay(m, r)
        PROVE  CompletionInv'
    BY <1>4, BrokerCompletion
  <1>5. ASSUME NEW s \in Scans, DeleteScan(s) PROVE CompletionInv'
    BY <1>5, DeleteScanCompletion
  <1> QED BY <1>1, <1>2, <1>3, <1>4, <1>5 DEF Next

\* Without the operators' scripts no published scan is dropped: whatever fails, is
\* delivered twice or expires, a message leaves the queue as completed only when its
\* scan is finished or deleted.
THEOREM NothingStranded ==
  ASSUME OperatorTools = FALSE
  PROVE  Spec => []NoStrandedScan
  <1>1. Init => CompletionInv
    BY DEF Init, CompletionInv, IdsAreScans, CompletionsClosed, Completing, Idle, Point
  <1>2. TypeInv /\ OwnershipInv /\ CompletionInv /\ [Next]_vars => CompletionInv'
    BY NextCompletion
  <1>3. CompletionInv => NoStrandedScan
    BY DEF CompletionInv, CompletionsClosed, NoStrandedScan, OpenStates
  <1> QED BY <1>1, <1>2, <1>3, Invariance, Ownership, PTL DEF Spec

-----------------------------------------------------------------------------
(* The refinement of ScanContract.                                         *)

Charge(s, billing) ==
  IF s \in Unledgered THEN "unledgered"
  ELSE IF billing = "CONSUMED" THEN "charged"
  ELSE IF billing = "REFUNDED" THEN "refunded" ELSE "open"

LEMMA ChargeIsBilling ==
  BillingInv => \A s \in Scans : ChargeOf(s) = Charge(s, scan[s].billing)
  <1> SUFFICES ASSUME BillingInv, NEW s \in Scans
               PROVE  ChargeOf(s) = Charge(s, scan[s].billing)
    OBVIOUS
  <1>1. s \in Unledgered => ledger[s]["scan_consumed"] = 0 /\ ledger[s]["scan_refunded"] = 0
    BY DEF BillingInv, Events
  <1>2. s \notin Unledgered =>
          /\ ledger[s]["scan_consumed"] = IF scan[s].billing = "CONSUMED" THEN 1 ELSE 0
          /\ ledger[s]["scan_refunded"] = IF scan[s].billing = "REFUNDED" THEN 1 ELSE 0
    BY DEF BillingInv, BillingFollowsOutcome
  <1> QED BY <1>1, <1>2 DEF ChargeOf, Charge

LEMMA ChargeIsBillingNext ==
  BillingInv' => (\A s \in Scans : ChargeOf(s) = Charge(s, scan[s].billing))'
  BY ChargeIsBilling, PTL

LEMMA ChangeIsContract ==
  ASSUME TypeInv, OwnershipInv, NEW s \in Scans,
         Disappears(s) \/ \E d \in Attempts : ScanChange(s, d),
         \A t \in Scans : ChargeOf(t) = Charge(t, scan[t].billing),
         \A t \in Scans : ChargeOf(t)' = Charge(t, scan'[t].billing)
  PROVE  Contract!Next
  <1> DEFINE phase   == [t \in Scans |-> scan[t].status]
             runner  == [t \in Scans |-> scan[t].owner]
             verdict == [t \in Scans |-> scan[t].result]
             charge  == [t \in Scans |-> ChargeOf(t)]
  <1>1. charge = [t \in Scans |-> Charge(t, scan[t].billing)]
    OBVIOUS
  <1>2. charge' = [t \in Scans |-> Charge(t, scan'[t].billing)]
    OBVIOUS
  <1>3. ASSUME NEW status, NEW owner, NEW billing, NEW result,
               Becomes(s, status, owner, billing, result)
        PROVE  /\ phase' = [phase EXCEPT ![s] = status]
               /\ runner' = [runner EXCEPT ![s] = owner]
               /\ verdict' = [verdict EXCEPT ![s] = result]
               /\ charge' = [charge EXCEPT ![s] = Charge(s, billing)]
    BY <1>1, <1>2, <1>3, ZenonT(40) DEF Becomes
  <1>4. /\ runner = [runner EXCEPT ![s] = scan[s].owner]
        /\ verdict = [verdict EXCEPT ![s] = scan[s].result]
        /\ charge = [charge EXCEPT ![s] = Charge(s, scan[s].billing)]
    BY <1>1
  <1>5. /\ scan[s].status = "PENDING" => scan[s].owner = None
        /\ None \notin Attempts
    BY NoneAssumption DEF OwnershipInv, RowsTrue, OwnersSane
  <1>6. phase[s] = scan[s].status /\ runner[s] = scan[s].owner
    OBVIOUS
  <1> HIDE DEF phase, runner, verdict, charge
  <1>7. ASSUME NEW d \in Attempts, TakesOver(s, d)
        PROVE  Contract!Next
    <2>1. phase[s] \in {"PENDING", "IN_PROGRESS"} /\ runner[s] # d
      <3>1. CASE scan[s].status = "PENDING"
        BY <1>5, <1>6, <3>1
      <3>2. CASE scan[s].status = "IN_PROGRESS" /\ d[2] > scan[s].owner[2]
        <4>1. d[2] \in Int
          BY MaxDeliveryAssumption DEF Attempts
        <4> QED BY <1>6, <3>2, <4>1
      <3> QED BY <1>7, <3>1, <3>2 DEF TakesOver, CanAcquire, SameMessageRedelivery, SameMessage
    <2>2. /\ phase' = [phase EXCEPT ![s] = "IN_PROGRESS"]
          /\ runner' = [runner EXCEPT ![s] = d]
          /\ verdict' = verdict /\ charge' = charge
      BY <1>3, <1>4, <1>7 DEF TakesOver
    <2>3. Contract!Take(s, d)
      BY <2>1, <2>2 DEF Contract!Take, phase, runner, verdict, charge
    <2> QED BY <2>3 DEF Contract!Next
  <1>8. ASSUME NEW d \in Attempts, GivesBack(s, d)
        PROVE  Contract!Next
    <2>1. /\ phase[s] = "IN_PROGRESS"
          /\ phase' = [phase EXCEPT ![s] = "PENDING"]
          /\ runner' = [runner EXCEPT ![s] = None]
          /\ verdict' = verdict /\ charge' = charge
      BY <1>3, <1>4, <1>6, <1>8 DEF GivesBack, Owns
    <2>2. Contract!GiveBack(s)
      BY <2>1 DEF Contract!GiveBack, phase, runner, verdict, charge
    <2> QED BY <2>2 DEF Contract!Next
  <1>9. ASSUME NEW d \in Attempts, Succeeds(s, d)
        PROVE  Contract!Next
    <2>1. /\ phase[s] = "IN_PROGRESS" /\ runner[s] = d
          /\ phase' = [phase EXCEPT ![s] = "DONE"]
          /\ runner' = runner
          /\ verdict' = [verdict EXCEPT ![s] = d]
          /\ charge' = [charge EXCEPT ![s] = Charge(s, "CONSUMED")]
      BY <1>3, <1>4, <1>6, <1>9 DEF Succeeds, Owns
    <2>2. Charge(s, "CONSUMED") = Contract!Settled(s, "charged")
      BY DEF Charge, Contract!Settled
    <2>3. Contract!Succeed(s)
      BY <2>1, <2>2 DEF Contract!Succeed, phase, runner, verdict, charge
    <2> QED BY <2>3 DEF Contract!Next
  <1>10. ASSUME NEW d \in Attempts, Fails(s, d)
        PROVE  Contract!Next
    <2>1. /\ \/ phase[s] = "IN_PROGRESS" /\ runner[s] = d
             \/ phase[s] = "PENDING" /\ runner[s] = None
          /\ phase' = [phase EXCEPT ![s] = "FAILED"]
          /\ runner' = runner
          /\ verdict' = [verdict EXCEPT ![s] = d]
          /\ charge' = [charge EXCEPT ![s] = Charge(s, "REFUNDED")]
      <3>1. CASE Owns(s, d) /\ Becomes(s, "FAILED", d, "REFUNDED", d)
        BY <1>3, <1>4, <1>6, <3>1 DEF Owns
      <3>2. CASE scan[s].status = "PENDING" /\ Becomes(s, "FAILED", None, "REFUNDED", d)
        BY <1>3, <1>4, <1>5, <1>6, <3>2
      <3> QED BY <1>10, <3>1, <3>2 DEF Fails
    <2>2. Charge(s, "REFUNDED") = Contract!Settled(s, "refunded")
      BY DEF Charge, Contract!Settled
    <2>3. Contract!Fail(s, d)
      BY <2>1, <2>2 DEF Contract!Fail, phase, runner, verdict, charge
    <2> QED BY <2>3 DEF Contract!Next
  <1>11. CASE Disappears(s)
    <2>1. /\ phase[s] \in {"DONE", "FAILED"}
          /\ phase' = [phase EXCEPT ![s] = "DELETED"]
          /\ runner' = [runner EXCEPT ![s] = None]
          /\ verdict' = [verdict EXCEPT ![s] = None]
          /\ charge' = charge
      BY <1>3, <1>4, <1>6, <1>11 DEF Disappears, Finished
    <2>2. Contract!Forget(s)
      BY <2>1 DEF Contract!Forget, phase, runner, verdict, charge
    <2> QED BY <2>2 DEF Contract!Next
  <1> QED BY <1>7, <1>8, <1>9, <1>10, <1>11 DEF ScanChange

\* Seen through the tables alone, the system behaves as ScanContract promises: every
\* step of the queue, the slots and the operators is one step of the contract or none.
THEOREM Refinement == Spec => ImplementsContract
  <1>1. Init => Contract!Init
    <2> SUFFICES ASSUME Init PROVE Contract!Init
      OBVIOUS
    <2>1. \A s \in Scans : /\ scan[s].status = "PENDING" /\ scan[s].owner = None
                          /\ scan[s].result = None
                          /\ ledger[s]["scan_consumed"] = 0 /\ ledger[s]["scan_refunded"] = 0
      BY DEF Init, Events
    <2>2. ASSUME NEW s \in Scans PROVE ChargeOf(s) = Contract!Settled(s, "open")
      <3>1. ledger[s]["scan_consumed"] = 0 /\ ledger[s]["scan_refunded"] = 0
        BY <2>1
      <3>2. 0 + 0 = 0 /\ 0 # 1
        OBVIOUS
      <3> QED BY <3>1, <3>2 DEF ChargeOf, Contract!Settled
    <2> QED BY <2>1, <2>2 DEF Contract!Init
  <1>2. ASSUME TypeInv, BillingInv, BillingInv', OwnershipInv, [Next]_vars
        PROVE  [Contract!Next]_(Contract!cvars)
    <2>1. CASE UNCHANGED <<scan, ledger>>
      BY <2>1 DEF Contract!cvars, ChargeOf
    <2>2. CASE \E s \in Scans : Disappears(s) \/ \E d \in Attempts : ScanChange(s, d)
      <3>1. \A t \in Scans : ChargeOf(t) = Charge(t, scan[t].billing)
        BY <1>2, ChargeIsBilling
      <3>2. (\A t \in Scans : ChargeOf(t) = Charge(t, scan[t].billing))'
        BY <1>2, ChargeIsBillingNext
      <3>3. \A t \in Scans : ChargeOf(t)' = Charge(t, scan'[t].billing)
        BY <3>2 DEF Charge
      <3> QED BY <1>2, <2>2, <3>1, <3>3, ChangeIsContract
    <2> QED BY <1>2, <2>1, <2>2, NextChanges
  <1> QED
    BY <1>1, <1>2, Invariance, Billing, Ownership, PTL DEF Spec, ImplementsContract, Contract!Spec

=============================================================================
