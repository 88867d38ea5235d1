------------------------------- MODULE Outbox -------------------------------
(***************************************************************************)
(* The transactional outbox: the rows of outbox_events, written by the API *)
(* with each scan, and the calls of publishPending (the daemon's ticks,    *)
(* the embedded timer, the immediate publication after a request) that     *)
(* claim rows and send them to the queue.                                  *)
(*                                                                         *)
(* Rows are numbered by created_at.  Time is two events per row: a claim   *)
(* becomes older than ten minutes, a backoff ends.  A send may fail at any *)
(* time, delivered or not; there are at most MaxFaults crashes and         *)
(* database errors, each with the statement applied or not.                *)
(***************************************************************************)
EXTENDS Integers, FiniteSets

CONSTANTS
  NumEvents,    (* how many scans are requested                              *)
  Publishers,   (* concurrent calls of publishPending                        *)
  MaxAttempts,  (* OUTBOX_MAX_ATTEMPTS                                       *)
  BatchSize,    (* OUTBOX_PUBLISH_BATCH_SIZE                                 *)
  MaxFaults,    (* bound on crashes and database errors                      *)
  None          (* no row at hand                                            *)

Events == 1..NumEvents

ASSUME CountsAssumption == {NumEvents, MaxAttempts, BatchSize} \subseteq Nat \ {0}
ASSUME FaultsAssumption == MaxFaults \in Nat
ASSUME PublishersAssumption == IsFiniteSet(Publishers)
ASSUME NoneAssumption == None \notin Events

VARIABLES
  row,        (* table outbox_events, plus whether a claim was ever too old  *)
  publisher,  (* control point, rows still to do and row at hand of a call   *)
  sent,       (* how often the message of each row entered the queue         *)
  faults      (* crashes and database errors so far                          *)

vars == <<row, publisher, sent, faults>>

RowStatus == {"ABSENT", "PENDING", "PROCESSING", "FAILED", "PUBLISHED"}
Points == {"idle", "next", "mark", "record"}

Calling == [point : Points, batch : SUBSET Events, at : Events \cup {None}]
Idle == [point |-> "idle", batch |-> {}, at |-> None]

At(p, point) == publisher[p].point = point
Continue(p, next) == publisher' = [publisher EXCEPT ![p] = next]

\* The row at hand is done: the next one of the batch, or the end of the call.
Advance(p) ==
  LET rest == publisher[p].batch IN
  Continue(p, IF rest = {} THEN Idle ELSE [point |-> "next", batch |-> rest, at |-> None])

\* The rows a call has claimed and not finished.
Holding(p) == publisher[p].batch \cup ({publisher[p].at} \cap Events)
Holders(e) == {p \in Publishers : e \in Holding(p)}

Fault == faults < MaxFaults /\ faults' = faults + 1

-----------------------------------------------------------------------------
(* The statements on outbox_events.                                        *)

\* Mutant: no limit on the attempts.
ClaimableForever(e) ==
  /\ row[e].due
  /\ \/ row[e].status \in {"PENDING", "FAILED"}
     \/ row[e].status = "PROCESSING" /\ row[e].stale

\* Mutant: a PROCESSING row is claimed again at once.
ClaimableWhileClaimed(e) ==
  /\ row[e].status \in {"PENDING", "FAILED", "PROCESSING"}
  /\ row[e].attempts < MaxAttempts
  /\ row[e].due

\* Mutant: a PROCESSING row is never claimed again.
ClaimableOnce(e) ==
  /\ row[e].status \in {"PENDING", "FAILED"}
  /\ row[e].attempts < MaxAttempts
  /\ row[e].due

Claimable(e) ==
  /\ \/ row[e].status \in {"PENDING", "FAILED"}
     \/ row[e].status = "PROCESSING" /\ row[e].stale
  /\ row[e].attempts < MaxAttempts
  /\ row[e].due

\* ORDER BY created_at LIMIT n.
Oldest(n, candidates) ==
  {e \in candidates : Cardinality({f \in candidates : f < e}) < n}

\* FOR UPDATE SKIP LOCKED: rows another call is updating may be passed over.
\* The immediate publication claims one row, a tick a batch.
Claimed(p, batch) ==
  \E limit \in {1, BatchSize},
     locked \in SUBSET UNION {{publisher[q].at} : q \in Publishers \ {p}} :
       /\ batch = Oldest(limit, {e \in Events \ locked : Claimable(e)})
       /\ batch # {}

SetProcessing(batch) ==
  row' = [e \in Events |->
            IF e \in batch
            THEN [row[e] EXCEPT !.status = "PROCESSING", !.stale = FALSE]
            ELSE row[e]]

SetPublished(e) ==
  row' = [row EXCEPT ![e].status = "PUBLISHED", ![e].stale = FALSE]

\* Mutant: the attempts left are counted, from zero.
SetFailedDown(e) ==
  row' = [row EXCEPT ![e].status = "FAILED", ![e].stale = FALSE,
                     ![e].due = FALSE, ![e].attempts = @ - 1]

SetFailed(e) ==
  row' = [row EXCEPT ![e].status = "FAILED", ![e].stale = FALSE,
                     ![e].due = FALSE, ![e].attempts = @ + 1]

-----------------------------------------------------------------------------
(* publishPending: claim and commit, then for every row one transaction    *)
(* around the send.  UPDATE ... RETURNING gives the rows in any order.     *)

Init ==
  /\ row = [e \in Events |->
       [status |-> "ABSENT", attempts |-> 0, due |-> TRUE, stale |-> FALSE, aged |-> FALSE]]
  /\ publisher = [p \in Publishers |-> Idle]
  /\ sent = [e \in Events |-> 0]
  /\ faults = 0

\* The transaction that creates the scan inserts its row.
Enqueue(e) ==
  /\ row[e].status = "ABSENT"
  /\ row' = [row EXCEPT ![e].status = "PENDING"]
  /\ UNCHANGED <<publisher, sent, faults>>

Claim(p) ==
  /\ At(p, "idle")
  /\ \E batch \in SUBSET Events :
       /\ Claimed(p, batch)
       /\ SetProcessing(batch)
       /\ Continue(p, [point |-> "next", batch |-> batch, at |-> None])
  /\ UNCHANGED <<sent, faults>>

\* The claim commits, and the caller does not learn of it.
ClaimFails(p) ==
  /\ At(p, "idle")
  /\ Fault
  /\ \E batch \in SUBSET Events : Claimed(p, batch) /\ SetProcessing(batch)
  /\ UNCHANGED <<publisher, sent>>

Handle(p, e, point) ==
  Continue(p, [point |-> point, batch |-> publisher[p].batch \ {e}, at |-> e])

Send(p) ==
  /\ At(p, "next")
  /\ \E e \in publisher[p].batch :
       /\ sent' = [sent EXCEPT ![e] = @ + 1]
       /\ Handle(p, e, "mark")
  /\ UNCHANGED <<row, faults>>

\* Mutant: the error of the send is swallowed.
SendFailsSilently(p) ==
  /\ At(p, "next")
  /\ \E e \in publisher[p].batch : Handle(p, e, "mark")
  /\ UNCHANGED <<row, sent, faults>>

SendFails(p) ==
  /\ At(p, "next")
  /\ \E e \in publisher[p].batch, delivered \in {0, 1} :
       /\ sent' = [sent EXCEPT ![e] = @ + delivered]
       /\ Handle(p, e, "record")
  /\ UNCHANGED <<row, faults>>

MarkPublished(p) ==
  /\ At(p, "mark")
  /\ SetPublished(publisher[p].at)
  /\ Advance(p)
  /\ UNCHANGED <<sent, faults>>

\* The catch block records a failure even when the COMMIT had been applied.
MarkPublishedFails(p) ==
  /\ At(p, "mark")
  /\ Fault
  /\ SetPublished(publisher[p].at) \/ UNCHANGED row
  /\ Continue(p, [publisher[p] EXCEPT !.point = "record"])
  /\ UNCHANGED sent

MarkFailed(p) ==
  /\ At(p, "record")
  /\ SetFailed(publisher[p].at)
  /\ Advance(p)
  /\ UNCHANGED <<sent, faults>>

\* A failure to record the failure is only logged.
MarkFailedFails(p) ==
  /\ At(p, "record")
  /\ Fault
  /\ SetFailed(publisher[p].at) \/ UNCHANGED row
  /\ Advance(p)
  /\ UNCHANGED sent

\* The process dies, or it gets no connection for its next row.
Stop(p) ==
  /\ ~At(p, "idle")
  /\ Fault
  /\ Continue(p, Idle)
  /\ UNCHANGED <<row, sent>>

\* locked_at becomes older than ten minutes.
ClaimAges(e) ==
  /\ row[e].status = "PROCESSING" /\ ~row[e].stale
  /\ row' = [row EXCEPT ![e].stale = TRUE, ![e].aged = TRUE]
  /\ UNCHANGED <<publisher, sent, faults>>

\* next_attempt_at is reached.
BackoffEnds(e) ==
  /\ ~row[e].due
  /\ row' = [row EXCEPT ![e].due = TRUE]
  /\ UNCHANGED <<publisher, sent, faults>>

Next ==
  \/ \E p \in Publishers :
       \/ Claim(p) \/ ClaimFails(p) \/ Send(p) \/ SendFails(p)
       \/ MarkPublished(p) \/ MarkPublishedFails(p)
       \/ MarkFailed(p) \/ MarkFailedFails(p) \/ Stop(p)
  \/ \E e \in Events : Enqueue(e) \/ ClaimAges(e) \/ BackoffEnds(e)

Spec == Init /\ [][Next]_vars

\* The daemon ticks, a call in progress runs on, and time passes.
Fairness ==
  /\ \A p \in Publishers :
       /\ WF_vars(Claim(p))
       /\ WF_vars(Send(p) \/ SendFails(p))
       /\ WF_vars(MarkPublished(p))
       /\ WF_vars(MarkFailed(p))
  /\ \A e \in Events : WF_vars(ClaimAges(e)) /\ WF_vars(BackoffEnds(e))

FairSpec == Spec /\ Fairness

-----------------------------------------------------------------------------
(* Properties.                                                             *)

Row == [status : RowStatus, attempts : Nat, due : BOOLEAN, stale : BOOLEAN, aged : BOOLEAN]

TypeOK ==
  /\ row \in [Events -> Row]
  /\ publisher \in [Publishers -> Calling]
  /\ sent \in [Events -> Nat]
  /\ faults \in 0..MaxFaults

\* A row is PUBLISHED only after its message entered the queue, whatever fails
\* and however many calls work on it: no scan is dropped as if it were sent.
PublishedWasSent ==
  \A e \in Events : row[e].status = "PUBLISHED" => sent[e] > 0

\* Two calls never work on one row, unless a claim of it had grown older than
\* ten minutes: concurrent ticks and immediate publications do not collide.
ExclusiveClaim ==
  \A e \in Events : \A p, q \in Holders(e) : p = q \/ row[e].aged

\* The attempts may pass MAX_ATTEMPTS, since a claim reads them and each claimant
\* adds to them later; they pass it at most by the other calls at work.
AttemptsBounded ==
  \A e \in Events :
    row[e].attempts + Cardinality(Holders(e)) < MaxAttempts + Cardinality(Publishers)

\* Every row is sent at last, or has used up its attempts: no crash, lost COMMIT
\* or abandoned claim leaves it PROCESSING for ever.
SentOrExhausted ==
  \A e \in Events :
    row[e].status # "ABSENT" ~> (sent[e] > 0 \/ row[e].attempts >= MaxAttempts)

=============================================================================
