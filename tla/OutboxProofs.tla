---------------------------- MODULE OutboxProofs ----------------------------
(***************************************************************************)
(* Proofs about Outbox, for every number of rows, concurrent calls,        *)
(* attempts, batch sizes and faults.                                       *)
(***************************************************************************)
EXTENDS Outbox, FiniteSetTheorems, TLAPS

\* What the control point says of the rows a call holds.
CallsSane ==
  \A p \in Publishers :
    /\ At(p, "idle") => publisher[p] = Idle
    /\ At(p, "next") => publisher[p].at = None
    /\ publisher[p].point \in {"mark", "record"} =>
         publisher[p].at \in Events /\ publisher[p].at \notin publisher[p].batch

\* A call that is about to mark a row has sent its message.
MarkedWasSent ==
  \A p \in Publishers : At(p, "mark") => sent[publisher[p].at] > 0

\* A held row that never grew old cannot be claimed.
ClaimsSane ==
  \A e \in Events :
    /\ row[e].stale => row[e].aged
    /\ ~row[e].aged /\ Holders(e) # {} => row[e].status \in {"PROCESSING", "PUBLISHED"}

OutboxInv ==
  /\ TypeOK /\ CallsSane /\ MarkedWasSent /\ ClaimsSane
  /\ PublishedWasSent /\ ExclusiveClaim /\ AttemptsBounded

\* What a step does to the calls: p may take rows of a claim, or keep and drop some.
Takes(p, batch) ==
  publisher' = [publisher EXCEPT ![p] = [point |-> "next", batch |-> batch, at |-> None]]

Drops(p, dropped) ==
  \E next \in Calling :
    /\ publisher' = [publisher EXCEPT ![p] = next]
    /\ next.batch \cup ({next.at} \cap Events) \subseteq Holding(p) \ dropped
    /\ next.point = "idle" => next = Idle
    /\ next.point = "next" => next.at = None
    /\ next.point \in {"mark", "record"} => next.at \in Events /\ next.at \notin next.batch

LEMMA Constants ==
  /\ NumEvents \in Nat /\ MaxAttempts \in Nat \ {0} /\ MaxFaults \in Nat
  /\ None \notin Events
  /\ Cardinality(Publishers) \in Nat
  BY CountsAssumption, FaultsAssumption, PublishersAssumption, NoneAssumption, FS_CardinalityType

LEMMA HoldersFinite ==
  ASSUME NEW S \in SUBSET Publishers
  PROVE  /\ IsFiniteSet(S) /\ Cardinality(S) \in Nat
         /\ Cardinality(S) <= Cardinality(Publishers)
         /\ \A T \in SUBSET S : Cardinality(T) <= Cardinality(S) /\ Cardinality(T) \in Nat
         /\ \A p \in S : Cardinality(S \ {p}) = Cardinality(S) - 1
  <1>1. IsFiniteSet(S) /\ Cardinality(S) <= Cardinality(Publishers)
    BY PublishersAssumption, FS_Subset
  <1>2. ASSUME NEW T \in SUBSET S PROVE Cardinality(T) <= Cardinality(S) /\ Cardinality(T) \in Nat
    BY <1>1, FS_Subset, FS_CardinalityType
  <1>3. ASSUME NEW p \in S PROVE Cardinality(S \ {p}) = Cardinality(S) - 1
    BY <1>1, FS_RemoveElement
  <1> QED BY <1>1, <1>2, <1>3, FS_CardinalityType

\* Dropping rows keeps what is known of the calls and of the holders.
LEMMA DropEffect ==
  ASSUME OutboxInv, NEW p \in Publishers, NEW dropped \in SUBSET Holding(p), Drops(p, dropped)
  PROVE  /\ publisher' \in [Publishers -> Calling] /\ CallsSane'
         /\ \A e \in Events : Holders(e)' \subseteq Holders(e)
         /\ \A e \in dropped : Holders(e)' \subseteq Holders(e) \ {p}
  <1>1. PICK next \in Calling :
          /\ publisher' = [publisher EXCEPT ![p] = next]
          /\ next.batch \cup ({next.at} \cap Events) \subseteq Holding(p) \ dropped
          /\ next.point = "idle" => next = Idle
          /\ next.point = "next" => next.at = None
          /\ next.point \in {"mark", "record"} => next.at \in Events /\ next.at \notin next.batch
    BY DEF Drops
  <1>2. /\ publisher' \in [Publishers -> Calling] /\ publisher'[p] = next
        /\ \A q \in Publishers \ {p} : publisher'[q] = publisher[q]
    BY <1>1 DEF OutboxInv, TypeOK
  <1>3. CallsSane'
    BY <1>1, <1>2 DEF OutboxInv, CallsSane, At
  <1>4. /\ Holding(p)' \subseteq Holding(p) \ dropped
        /\ \A q \in Publishers \ {p} : Holding(q)' = Holding(q)
    BY <1>1, <1>2 DEF Holding
  <1>5. ASSUME NEW e \in Events
        PROVE  /\ Holders(e)' \subseteq Holders(e)
               /\ e \in dropped => Holders(e)' \subseteq Holders(e) \ {p}
    BY <1>4 DEF Holders
  <1>6. dropped \subseteq Events
    BY DEF Holding, OutboxInv, TypeOK, Calling
  <1> QED BY <1>2, <1>3, <1>5, <1>6

LEMMA AdvanceDrops ==
  ASSUME OutboxInv, NEW p \in Publishers, publisher[p].point \in {"mark", "record"}, Advance(p)
  PROVE  Drops(p, {publisher[p].at}) /\ publisher[p].at \in Holding(p)
  <1> DEFINE rest == publisher[p].batch
             after == IF rest = {} THEN Idle ELSE [point |-> "next", batch |-> rest, at |-> None]
  <1>1. /\ rest \subseteq Events /\ publisher[p].at \in Events /\ publisher[p].at \notin rest
    BY DEF OutboxInv, TypeOK, CallsSane, Calling
  <1>2. publisher' = [publisher EXCEPT ![p] = after]
    BY DEF Advance, Continue
  <1>3. after \in Calling /\ after.batch = rest /\ after.at = None
    BY <1>1 DEF Idle, Calling, Points
  <1>4. /\ after.point = "idle" => after = Idle
        /\ after.point \in {"idle", "next"}
    BY DEF Idle
  <1>5. after.batch \cup ({after.at} \cap Events) \subseteq Holding(p) \ {publisher[p].at}
    BY <1>1, <1>3, Constants DEF Holding
  <1> HIDE DEF after, rest
  <1>6. Drops(p, {publisher[p].at})
    BY <1>2, <1>3, <1>4, <1>5 DEF Drops
  <1> QED BY <1>1, <1>6 DEF Holding

LEMMA HandleDrops ==
  ASSUME OutboxInv, NEW p \in Publishers, At(p, "next"), NEW e \in publisher[p].batch,
         NEW point \in {"mark", "record"}, Handle(p, e, point)
  PROVE  /\ Drops(p, {}) /\ e \in Events
         /\ publisher'[p].at = e /\ publisher'[p].point = point
         /\ \A q \in Publishers \ {p} : publisher'[q] = publisher[q]
  <1> DEFINE after == [point |-> point, batch |-> publisher[p].batch \ {e}, at |-> e]
  <1>1. publisher' = [publisher EXCEPT ![p] = after]
    BY DEF Handle, Continue
  <1>2. publisher[p].batch \subseteq Events
    BY DEF OutboxInv, TypeOK, Calling
  <1>3. after \in Calling /\ after.at \in Events /\ after.at \notin after.batch
        /\ after.point = point /\ after.at = e
    BY <1>2 DEF Calling, Points
  <1>4. after.batch \cup ({after.at} \cap Events) \subseteq Holding(p) \ {}
    BY <1>2 DEF Holding
  <1> HIDE DEF after
  <1>5. Drops(p, {})
    BY <1>1, <1>3, <1>4 DEF Drops
  <1> QED BY <1>1, <1>2, <1>3, <1>5 DEF OutboxInv, TypeOK

-----------------------------------------------------------------------------
(* The steps of a call.                                                    *)

\* Holders that only leave keep the three claims about them, row by row.
LEMMA HoldersLeave ==
  ASSUME OutboxInv, NEW e \in Events, Holders(e)' \subseteq Holders(e), row'[e] = row[e]
  PROVE  /\ \A p, q \in Holders(e)' : p = q \/ row'[e].aged
         /\ row'[e].attempts + Cardinality(Holders(e)') < MaxAttempts + Cardinality(Publishers)
         /\ row'[e].stale => row'[e].aged
         /\ ~row'[e].aged /\ Holders(e)' # {} => row'[e].status \in {"PROCESSING", "PUBLISHED"}
  <1>1. row[e].attempts + Cardinality(Holders(e)) < MaxAttempts + Cardinality(Publishers)
    BY DEF OutboxInv, AttemptsBounded
  <1>2. Cardinality(Holders(e)') <= Cardinality(Holders(e)) /\ Cardinality(Holders(e)) \in Nat
        /\ Cardinality(Holders(e)') \in Nat
    BY HoldersFinite DEF Holders
  <1>3. row[e].attempts \in Nat
    BY DEF OutboxInv, TypeOK, Row
  <1> QED BY <1>1, <1>2, <1>3, Constants DEF OutboxInv, ExclusiveClaim, ClaimsSane

LEMMA CallMovesOn ==
  ASSUME OutboxInv, NEW p \in Publishers, Drops(p, {}), UNCHANGED row,
         sent' \in [Events -> Nat], faults' \in 0..MaxFaults,
         \A e \in Events : sent[e] > 0 => sent'[e] > 0,
         MarkedWasSent'
  PROVE  OutboxInv'
  <1>1. /\ publisher' \in [Publishers -> Calling] /\ CallsSane'
        /\ \A e \in Events : Holders(e)' \subseteq Holders(e)
    BY DropEffect
  <1>2. TypeOK'
    BY <1>1 DEF OutboxInv, TypeOK
  <1>3. ExclusiveClaim' /\ AttemptsBounded' /\ ClaimsSane'
    BY <1>1, HoldersLeave DEF ExclusiveClaim, AttemptsBounded, ClaimsSane
  <1>4. PublishedWasSent'
    BY DEF OutboxInv, PublishedWasSent
  <1> QED BY <1>1, <1>2, <1>3, <1>4 DEF OutboxInv

LEMMA ClaimSafe ==
  ASSUME OutboxInv, NEW p \in Publishers, At(p, "idle"), NEW batch \in SUBSET Events,
         Claimed(p, batch), SetProcessing(batch), Takes(p, batch) \/ UNCHANGED publisher,
         UNCHANGED sent, faults' \in 0..MaxFaults
  PROVE  OutboxInv'
  <1>1. \A e \in batch : Claimable(e)
    BY DEF Claimed, Oldest
  <1>2. /\ row' \in [Events -> Row]
        /\ \A e \in batch : /\ row'[e].status = "PROCESSING" /\ ~row'[e].stale
                            /\ row'[e].aged = row[e].aged /\ row'[e].attempts = row[e].attempts
        /\ \A e \in Events \ batch : row'[e] = row[e]
    <2>1. row \in [Events -> Row]
      BY DEF OutboxInv, TypeOK
    <2>2. ASSUME NEW e \in Events
          PROVE  /\ [row[e] EXCEPT !.status = "PROCESSING", !.stale = FALSE] \in Row
                 /\ [row[e] EXCEPT !.status = "PROCESSING", !.stale = FALSE].status = "PROCESSING"
                 /\ ~[row[e] EXCEPT !.status = "PROCESSING", !.stale = FALSE].stale
                 /\ [row[e] EXCEPT !.status = "PROCESSING", !.stale = FALSE].aged = row[e].aged
                 /\ [row[e] EXCEPT !.status = "PROCESSING", !.stale = FALSE].attempts
                      = row[e].attempts
      BY <2>1 DEF Row, RowStatus
    <2> DEFINE claimed(e) == [row[e] EXCEPT !.status = "PROCESSING", !.stale = FALSE]
    <2>3. row' = [e \in Events |-> IF e \in batch THEN claimed(e) ELSE row[e]]
      BY DEF SetProcessing
    <2>4. \A e \in Events : /\ claimed(e) \in Row /\ claimed(e).status = "PROCESSING"
                            /\ ~claimed(e).stale /\ claimed(e).aged = row[e].aged
                            /\ claimed(e).attempts = row[e].attempts
      BY <2>2
    <2> HIDE DEF claimed
    <2>5. /\ \A e \in batch : row'[e] = claimed(e)
          /\ \A e \in Events \ batch : row'[e] = row[e]
      BY <2>3
    <2>6. row' \in [Events -> Row]
      BY <2>1, <2>3, <2>4
    <2>7. ASSUME NEW e \in batch
          PROVE  /\ row'[e].status = "PROCESSING" /\ ~row'[e].stale
                 /\ row'[e].aged = row[e].aged /\ row'[e].attempts = row[e].attempts
      <3>1. row'[e] = claimed(e) /\ e \in Events
        BY <2>5
      <3> QED BY <2>4, <3>1, Zenon
    <2> QED BY <2>5, <2>6, <2>7, Zenon
  <1>3. /\ publisher' \in [Publishers -> Calling] /\ CallsSane' /\ MarkedWasSent'
        /\ \A q \in Publishers \ {p} : publisher'[q] = publisher[q]
        /\ Holding(p)' \subseteq batch
    <2>1. publisher[p] = Idle /\ Holding(p) = {}
      <3>1. publisher[p] = Idle
        BY DEF OutboxInv, CallsSane
      <3>2. Idle.batch = {} /\ {Idle.at} \cap Events = {}
        BY Constants DEF Idle
      <3> QED BY <3>1, <3>2 DEF Holding
    <2>2. CASE UNCHANGED publisher
      BY <2>1, <2>2 DEF OutboxInv, TypeOK, CallsSane, MarkedWasSent, At, Holding
    <2>3. CASE Takes(p, batch)
      <3> DEFINE next == [point |-> "next", batch |-> batch, at |-> None]
      <3>1. next \in Calling /\ next.point = "next" /\ next.at = None /\ next.batch = batch
        BY DEF Calling, Points
      <3>2. publisher' = [publisher EXCEPT ![p] = next]
        BY <2>3 DEF Takes
      <3> HIDE DEF next
      <3>3. /\ publisher' \in [Publishers -> Calling] /\ publisher'[p] = next
            /\ \A q \in Publishers \ {p} : publisher'[q] = publisher[q]
        BY <3>1, <3>2 DEF OutboxInv, TypeOK
      <3>4. CallsSane' /\ MarkedWasSent'
        BY <3>1, <3>3 DEF OutboxInv, CallsSane, MarkedWasSent, At
      <3> QED BY <3>1, <3>3, <3>4, Constants DEF Holding
    <2> QED BY <2>2, <2>3
  <1>4. \A e \in Events : /\ Holders(e)' \subseteq Holders(e) \cup {p}
                          /\ e \notin batch => Holders(e)' \subseteq Holders(e)
    BY <1>3 DEF Holders, Holding
  <1>5. TypeOK'
    BY <1>2, <1>3 DEF OutboxInv, TypeOK
  <1>6. PublishedWasSent'
    BY <1>2 DEF OutboxInv, PublishedWasSent
  <1>7. ASSUME NEW e \in Events
        PROVE  /\ \A q, r \in Holders(e)' : q = r \/ row'[e].aged
               /\ row'[e].attempts + Cardinality(Holders(e)') < MaxAttempts + Cardinality(Publishers)
               /\ row'[e].stale => row'[e].aged
               /\ ~row'[e].aged /\ Holders(e)' # {} => row'[e].status \in {"PROCESSING", "PUBLISHED"}
    <2>1. CASE e \notin batch
      BY <1>2, <1>4, <2>1, HoldersLeave
    <2>2. CASE e \in batch
      <3>1. row[e].aged \/ Holders(e) = {}
        BY <1>1, <2>2 DEF Claimable, OutboxInv, ClaimsSane
      <3>2. row[e].attempts \in Nat /\ row[e].attempts < MaxAttempts
        BY <1>1, <2>2 DEF Claimable, OutboxInv, TypeOK, Row
      <3>3. Cardinality(Holders(e)') \in Nat /\ Cardinality(Holders(e)') <= Cardinality(Publishers)
        BY HoldersFinite DEF Holders
      <3> QED BY <1>2, <1>4, <2>2, <3>1, <3>2, <3>3, Constants
    <2> QED BY <2>1, <2>2
  <1> QED BY <1>3, <1>5, <1>6, <1>7 DEF OutboxInv, ExclusiveClaim, AttemptsBounded, ClaimsSane

\* The row at hand is marked PUBLISHED or FAILED by its holder, which drops it.
LEMMA MarkSafe ==
  ASSUME OutboxInv, NEW p \in Publishers, publisher[p].point \in {"mark", "record"},
         NEW e \in Events, e = publisher[p].at,
         \/ At(p, "mark") /\ SetPublished(e)
         \/ Drops(p, {e}) /\ SetFailed(e),
         Drops(p, {e}) \/ Drops(p, {}), MarkedWasSent',
         UNCHANGED sent, faults' \in 0..MaxFaults
  PROVE  OutboxInv'
  <1>1. /\ publisher' \in [Publishers -> Calling] /\ CallsSane'
        /\ \A f \in Events : Holders(f)' \subseteq Holders(f)
    BY DropEffect DEF Holding
  <1>2. Drops(p, {e}) => Holders(e)' \subseteq Holders(e) \ {p}
    BY DropEffect DEF Holding
  <1>3. /\ row' \in [Events -> Row] /\ ~row'[e].stale /\ row'[e].aged = row[e].aged
        /\ \A f \in Events \ {e} : row'[f] = row[f]
        /\ \/ At(p, "mark") /\ row'[e].status = "PUBLISHED" /\ row'[e].attempts = row[e].attempts
           \/ /\ Drops(p, {e}) /\ row'[e].status = "FAILED"
              /\ row'[e].attempts = row[e].attempts + 1
    <2>1. CASE SetPublished(e) /\ At(p, "mark")
      BY <2>1 DEF SetPublished, OutboxInv, TypeOK, Row, RowStatus
    <2>2. CASE SetFailed(e) /\ Drops(p, {e})
      <3>1. row' = [row EXCEPT ![e].status = "FAILED", ![e].stale = FALSE,
                               ![e].due = FALSE, ![e].attempts = @ + 1]
        BY <2>2 DEF SetFailed
      <3>2. row[e].attempts + 1 \in Nat
        BY DEF OutboxInv, TypeOK, Row
      <3>3. row[e] \in Row /\ row \in [Events -> Row]
        BY DEF OutboxInv, TypeOK
      <3>4. row'[e] = [row[e] EXCEPT !.status = "FAILED", !.stale = FALSE,
                                     !.due = FALSE, !.attempts = @ + 1]
        BY <3>1, <3>3
      <3>5. row'[e] \in Row /\ ~row'[e].stale /\ row'[e].aged = row[e].aged
            /\ row'[e].status = "FAILED" /\ row'[e].attempts = row[e].attempts + 1
        BY <3>2, <3>3, <3>4 DEF Row, RowStatus
      <3>6. \A f \in Events \ {e} : row'[f] = row[f]
        BY <3>1, <3>3
      <3>7. row' \in [Events -> Row]
        <4>1. row' = [row EXCEPT ![e] = row'[e]]
          BY <3>1, <3>3
        <4> QED BY <3>3, <3>5, <4>1
      <3>8. Drops(p, {e})
        BY <2>2
      <3> QED BY <3>5, <3>6, <3>7, <3>8, ZenonT(40)
    <2> QED BY <2>1, <2>2
  <1>4. TypeOK'
    BY <1>1, <1>3 DEF OutboxInv, TypeOK
  <1>5. PublishedWasSent'
    BY <1>3 DEF OutboxInv, PublishedWasSent, MarkedWasSent
  <1>6. p \in Holders(e)
    BY DEF Holders, Holding
  <1>7. ASSUME NEW f \in Events
        PROVE  /\ \A q, r \in Holders(f)' : q = r \/ row'[f].aged
               /\ row'[f].attempts + Cardinality(Holders(f)') < MaxAttempts + Cardinality(Publishers)
               /\ row'[f].stale => row'[f].aged
               /\ ~row'[f].aged /\ Holders(f)' # {} => row'[f].status \in {"PROCESSING", "PUBLISHED"}
    <2>1. CASE f # e
      BY <1>1, <1>3, <2>1, HoldersLeave
    <2>2. CASE f = e
      <3>1. row[e].attempts + Cardinality(Holders(e)) < MaxAttempts + Cardinality(Publishers)
            /\ row[e].attempts \in Nat
        BY DEF OutboxInv, AttemptsBounded, TypeOK, Row
      <3>2. /\ Cardinality(Holders(e)) \in Nat /\ Cardinality(Holders(e)') \in Nat
            /\ Cardinality(Holders(e)') <= Cardinality(Holders(e))
            /\ Drops(p, {e}) => Cardinality(Holders(e)') <= Cardinality(Holders(e)) - 1
        <4>1. Holders(e) \in SUBSET Publishers /\ Holders(e)' \in SUBSET Holders(e)
              /\ Holders(e) \ {p} \in SUBSET Publishers
          BY <1>1 DEF Holders
        <4> QED BY <1>2, <1>6, <4>1, HoldersFinite
      <3>3. \A q, r \in Holders(e)' : q = r \/ row[e].aged
        BY <1>1 DEF OutboxInv, ExclusiveClaim
      <3>4. ~row[e].aged /\ Drops(p, {e}) => Holders(e)' = {}
        BY <1>2, <1>6 DEF OutboxInv, ExclusiveClaim
      <3> QED BY <1>3, <2>2, <3>1, <3>2, <3>3, <3>4, Constants
    <2> QED BY <2>1, <2>2
  <1> QED BY <1>1, <1>4, <1>5, <1>7 DEF OutboxInv, ExclusiveClaim, AttemptsBounded, ClaimsSane

-----------------------------------------------------------------------------
(* The invariant.                                                          *)

LEMMA InitSafe == Init => OutboxInv
  <1> SUFFICES ASSUME Init PROVE OutboxInv
    OBVIOUS
  <1>1. Idle \in Calling /\ Idle.point = "idle" /\ Idle.batch = {} /\ Idle.at = None
    BY DEF Idle, Calling, Points
  <1>2. \A p \in Publishers : publisher[p] = Idle
    BY DEF Init
  <1>3. /\ \A e \in Events : row[e] \in Row /\ row[e].status = "ABSENT" /\ row[e].attempts = 0
                             /\ ~row[e].stale
        /\ row \in [Events -> Row]
    BY DEF Init, Row, RowStatus
  <1>4. TypeOK
    BY <1>1, <1>3, Constants DEF Init, TypeOK
  <1>5. CallsSane /\ MarkedWasSent
    BY <1>1, <1>2 DEF CallsSane, MarkedWasSent, At
  <1>6. \A e \in Events : Holders(e) = {}
    BY <1>1, <1>2, Constants DEF Holders, Holding
  <1>7. ClaimsSane /\ PublishedWasSent /\ ExclusiveClaim
    BY <1>3, <1>6 DEF ClaimsSane, PublishedWasSent, ExclusiveClaim
  <1>8. AttemptsBounded
    BY <1>3, <1>6, Constants, FS_EmptySet DEF AttemptsBounded
  <1> QED BY <1>4, <1>5, <1>7, <1>8 DEF OutboxInv

LEMMA CallSafe ==
  ASSUME OutboxInv, NEW p \in Publishers,
         \/ Claim(p) \/ ClaimFails(p) \/ Send(p) \/ SendFails(p)
         \/ MarkPublished(p) \/ MarkPublishedFails(p)
         \/ MarkFailed(p) \/ MarkFailedFails(p) \/ Stop(p)
  PROVE  OutboxInv'
  <1>1. faults \in 0..MaxFaults /\ (Fault => faults' \in 0..MaxFaults)
    BY Constants DEF OutboxInv, TypeOK, Fault
  <1>2. CASE Claim(p)
    BY <1>1, <1>2, ClaimSafe DEF Claim, Continue, Takes
  <1>3. CASE ClaimFails(p)
    BY <1>1, <1>3, ClaimSafe DEF ClaimFails
  <1>4. ASSUME NEW e \in publisher[p].batch, At(p, "next"), NEW n \in {0, 1},
               sent' = [sent EXCEPT ![e] = @ + n], UNCHANGED row, UNCHANGED faults,
               \/ Handle(p, e, "mark") /\ n = 1
               \/ Handle(p, e, "record")
        PROVE  OutboxInv'
    <2>1. /\ Drops(p, {}) /\ e \in Events /\ publisher'[p].at = e
          /\ publisher'[p].point = "mark" => n = 1
          /\ \A q \in Publishers \ {p} : publisher'[q] = publisher[q]
      <3>1. CASE Handle(p, e, "mark") /\ n = 1
        BY <1>4, <3>1, HandleDrops
      <3>2. CASE Handle(p, e, "record")
        BY <1>4, <3>2, HandleDrops
      <3> QED BY <1>4, <3>1, <3>2
    <2>2. /\ sent' \in [Events -> Nat] /\ sent'[e] = sent[e] + n
          /\ \A f \in Events : sent[f] > 0 => sent'[f] > 0
      BY <1>4, <2>1 DEF OutboxInv, TypeOK
    <2>3. sent[e] \in Nat
      BY <2>1 DEF OutboxInv, TypeOK
    <2>4. MarkedWasSent'
      <3> SUFFICES ASSUME NEW q \in Publishers, publisher'[q].point = "mark"
                   PROVE  sent'[publisher'[q].at] > 0
        BY DEF MarkedWasSent, At
      <3>1. CASE q = p
        BY <2>1, <2>2, <2>3, <3>1
      <3>2. CASE q # p
        <4>1. sent[publisher[q].at] > 0 /\ publisher[q].at \in Events
          BY <2>1, <3>2 DEF OutboxInv, MarkedWasSent, CallsSane, At
        <4> QED BY <2>1, <2>2, <3>2, <4>1
      <3> QED BY <3>1, <3>2
    <2> QED BY <1>1, <1>4, <2>1, <2>2, <2>4, CallMovesOn
  <1>5. CASE Send(p)
    BY <1>4, <1>5 DEF Send
  <1>6. CASE SendFails(p)
    BY <1>4, <1>6 DEF SendFails
  <1>7. ASSUME NEW dropped \in SUBSET Holding(p), Drops(p, dropped)
        PROVE  Drops(p, {})
    BY <1>7 DEF Drops
  \* Whoever ends a row or its call leaves the point "mark", and sends nothing.
  <1>8. ASSUME NEW next, next.point # "mark", publisher' = [publisher EXCEPT ![p] = next],
               UNCHANGED sent
        PROVE  MarkedWasSent'
    BY <1>8 DEF OutboxInv, TypeOK, MarkedWasSent, At
  <1>9. ASSUME Advance(p), UNCHANGED sent PROVE MarkedWasSent'
    <2>1. Idle.point # "mark" /\ [point |-> "next", batch |-> publisher[p].batch, at |-> None].point # "mark"
      BY DEF Idle
    <2> QED BY <1>8, <1>9, <2>1 DEF Advance, Continue
  <1>10. publisher[p].point \in {"mark", "record"} => publisher[p].at \in Events
    BY DEF OutboxInv, CallsSane
  <1>11. CASE MarkPublished(p)
    BY <1>1, <1>9, <1>10, <1>11, AdvanceDrops, MarkSafe DEF MarkPublished, At
  <1>12. CASE MarkFailed(p)
    BY <1>1, <1>9, <1>10, <1>12, AdvanceDrops, MarkSafe DEF MarkFailed, At
  <1>13. CASE MarkPublishedFails(p)
    <2> DEFINE next == [publisher[p] EXCEPT !.point = "record"]
    <2>1. At(p, "mark") /\ publisher' = [publisher EXCEPT ![p] = next] /\ UNCHANGED sent
          /\ faults' \in 0..MaxFaults
      BY <1>1, <1>13 DEF MarkPublishedFails, Continue
    <2>2. /\ next \in Calling /\ next.point = "record" /\ next.at = publisher[p].at
          /\ next.batch = publisher[p].batch
      BY DEF OutboxInv, TypeOK, Calling, Points
    <2> HIDE DEF next
    <2>3. next.at \in Events /\ next.at \notin next.batch
      BY <2>1, <2>2 DEF OutboxInv, CallsSane, At
    <2>4. Drops(p, {}) /\ MarkedWasSent'
      BY <1>8, <2>1, <2>2, <2>3 DEF Drops, Holding
    <2>5. \A e \in Events : sent[e] > 0 => sent'[e] > 0
      BY <2>1
    <2>6. sent' \in [Events -> Nat]
      BY <2>1 DEF OutboxInv, TypeOK
    <2>7. CASE UNCHANGED row
      BY <2>1, <2>4, <2>5, <2>6, <2>7, CallMovesOn
    <2>8. CASE SetPublished(publisher[p].at)
      BY <1>10, <2>1, <2>4, <2>8, MarkSafe DEF At
    <2> QED BY <1>13, <2>7, <2>8 DEF MarkPublishedFails
  <1>14. CASE MarkFailedFails(p)
    <2>1. At(p, "record") /\ Advance(p) /\ UNCHANGED sent /\ faults' \in 0..MaxFaults
      BY <1>1, <1>14 DEF MarkFailedFails
    <2>2. /\ Drops(p, {publisher[p].at}) /\ publisher[p].at \in Holding(p) /\ MarkedWasSent'
      BY <1>9, <2>1, AdvanceDrops DEF At
    <2>3. Drops(p, {})
      BY <1>7, <2>2
    <2>4. /\ \A e \in Events : sent[e] > 0 => sent'[e] > 0
          /\ sent' \in [Events -> Nat]
      BY <2>1 DEF OutboxInv, TypeOK
    <2>5. CASE UNCHANGED row
      BY <2>1, <2>2, <2>3, <2>4, <2>5, CallMovesOn
    <2>6. CASE SetFailed(publisher[p].at)
      BY <1>10, <2>1, <2>2, <2>6, MarkSafe DEF At
    <2> QED BY <1>14, <2>5, <2>6 DEF MarkFailedFails
  <1>15. CASE Stop(p)
    <2>1. publisher' = [publisher EXCEPT ![p] = Idle] /\ UNCHANGED <<row, sent>>
          /\ faults' \in 0..MaxFaults
      BY <1>1, <1>15 DEF Stop, Continue
    <2>2. Idle \in Calling /\ Idle.point = "idle" /\ Idle.batch = {} /\ Idle.at = None
      BY DEF Idle, Calling, Points
    <2>3. Drops(p, {})
      BY <2>1, <2>2, Constants DEF Drops
    <2>4. MarkedWasSent'
      BY <1>8, <2>1, <2>2
    <2>5. /\ \A e \in Events : sent[e] > 0 => sent'[e] > 0
          /\ sent' \in [Events -> Nat]
      BY <2>1 DEF OutboxInv, TypeOK
    <2> QED BY <2>1, <2>3, <2>4, <2>5, CallMovesOn
  <1> QED
    BY <1>2, <1>3, <1>5, <1>6, <1>11, <1>12, <1>13, <1>14, <1>15

LEMMA RowSafe ==
  ASSUME OutboxInv, NEW e \in Events, Enqueue(e) \/ ClaimAges(e) \/ BackoffEnds(e)
  PROVE  OutboxInv'
  <1>1. UNCHANGED <<publisher, sent, faults>>
    BY DEF Enqueue, ClaimAges, BackoffEnds
  <1>2. /\ row' \in [Events -> Row] /\ \A f \in Events \ {e} : row'[f] = row[f]
        /\ row'[e].attempts = row[e].attempts
        /\ row[e].aged => row'[e].aged
        /\ row'[e].stale => row'[e].aged
        /\ ~row'[e].aged => row'[e].status = row[e].status \/ row[e].status = "ABSENT"
        /\ row'[e].status = "PUBLISHED" => row[e].status = "PUBLISHED"
    <2>1. row \in [Events -> Row] /\ (row[e].stale => row[e].aged)
      BY DEF OutboxInv, TypeOK, ClaimsSane
    <2>2. CASE Enqueue(e)
      BY <2>1, <2>2 DEF Enqueue, Row, RowStatus
    <2>3. CASE ClaimAges(e)
      <3> DEFINE old == [row[e] EXCEPT !.stale = TRUE, !.aged = TRUE]
      <3>1. /\ old \in Row /\ old.attempts = row[e].attempts /\ old.status = row[e].status
            /\ old.aged
        BY <2>1 DEF Row
      <3>2. row' = [row EXCEPT ![e] = old]
        BY <2>1, <2>3 DEF ClaimAges
      <3> HIDE DEF old
      <3>3. row'[e] = old /\ row' \in [Events -> Row]
            /\ \A f \in Events \ {e} : row'[f] = row[f]
        BY <2>1, <3>1, <3>2
      <3> QED BY <3>1, <3>3
    <2>4. CASE BackoffEnds(e)
      BY <2>1, <2>4 DEF BackoffEnds, Row, RowStatus
    <2> QED BY <2>2, <2>3, <2>4
  <1>3. \A f \in Events : Holders(f)' = Holders(f)
    BY <1>1 DEF Holders, Holding
  <1>4. TypeOK' /\ CallsSane' /\ MarkedWasSent'
    BY <1>1, <1>2 DEF OutboxInv, TypeOK, CallsSane, MarkedWasSent, At
  <1>5. PublishedWasSent'
    BY <1>1, <1>2 DEF OutboxInv, PublishedWasSent
  <1>6. ExclusiveClaim' /\ AttemptsBounded' /\ ClaimsSane'
    BY <1>2, <1>3 DEF OutboxInv, ExclusiveClaim, AttemptsBounded, ClaimsSane
  <1> QED BY <1>4, <1>5, <1>6 DEF OutboxInv

LEMMA Invariance == Spec => []OutboxInv
  <1>1. ASSUME OutboxInv, [Next]_vars PROVE OutboxInv'
    <2>1. CASE UNCHANGED vars
      BY <1>1, <2>1 DEF vars, OutboxInv, TypeOK, CallsSane, MarkedWasSent, ClaimsSane,
           PublishedWasSent, ExclusiveClaim, AttemptsBounded, Holders, Holding, At
    <2> QED BY <1>1, <2>1, CallSafe, RowSafe DEF Next
  <1> QED BY <1>1, InitSafe, PTL DEF Spec

\* The rows, the calls and the counters keep their types.
THEOREM TypeCorrect == Spec => []TypeOK
  <1>1. OutboxInv => TypeOK
    BY DEF OutboxInv
  <1> QED BY <1>1, Invariance, PTL

\* A PUBLISHED row was sent: publishPending never drops a scan as if it were sent.
THEOREM NoFalsePublication == Spec => []PublishedWasSent
  <1>1. OutboxInv => PublishedWasSent
    BY DEF OutboxInv
  <1> QED BY <1>1, Invariance, PTL

\* Only a claim that once grew older than ten minutes can be shared by two calls.
THEOREM ClaimsExclude == Spec => []ExclusiveClaim
  <1>1. OutboxInv => ExclusiveClaim
    BY DEF OutboxInv
  <1> QED BY <1>1, Invariance, PTL

\* The attempts of a row exceed the maximum by less than the number of calls.
THEOREM AttemptsLimited == Spec => []AttemptsBounded
  <1>1. OutboxInv => AttemptsBounded
    BY DEF OutboxInv
  <1> QED BY <1>1, Invariance, PTL

=============================================================================
