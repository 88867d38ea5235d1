-------------------------- MODULE OnboardingProofs --------------------------
(***************************************************************************)
(* Theorems about Onboarding and their proofs, for any sessions,           *)
(* subscriptions (finitely many) and concurrent callers.                   *)
(*                                                                         *)
(* The invariant says what a call may rely on (CallOK): the session its    *)
(* lock protects, the session it verifies, and, if no other verification   *)
(* writes, that every active row of the consent is among those it marks;   *)
(* and that no two calls are about one session (Apart).                    *)
(***************************************************************************)
EXTENDS Onboarding, FiniteSetTheorems, TLAPS

Verifying == {"discover", "mark", "marking", "upsert"}
Refreshing == Verifying \cup {"failed"}

\* A callback holds the lock of its session: what it read is still so.
LockOf(k) ==
  k.point = "locked" =>
    /\ k.session \in Sessions
    /\ k.read = "STARTED" => session[k.session] \in {"STARTED", "DUE"}

\* A session is VERIFYING until its verification commits or has failed.
SessionOf(k) ==
  /\ k.point \in Verifying /\ k.session # None => session[k.session] = "VERIFYING"
  /\ k.point = "failed" /\ k.session # None =>
       session[k.session] \in {"VERIFYING", "COMPLETED", "ACTION_REQUIRED", "DELETED"}

\* A verification that runs alone marks every active row of the consent.
MarksOf(k) ==
  k.sole => /\ k.point \in InTransaction
            /\ k.point = "marking" => Consented \subseteq k.seen
            /\ k.point = "upsert" => Consented \subseteq k.stale

CallOK(k) == LockOf(k) /\ SessionOf(k) /\ MarksOf(k)

Apart(j, k) ==
  /\ j.point = "locked" /\ k.point = "locked" => j.session # k.session
  /\ j.point \in Refreshing /\ k.point \in Refreshing /\ j.session # None =>
       j.session # k.session
  /\ j.sole => k.point \notin InTransaction

CallInv ==
  /\ \A c \in Callers : CallOK(call[c])
  /\ \A c, d \in Callers : c # d => Apart(call[c], call[d])

Inv == TypeOK /\ CallInv /\ ActiveWasFound /\ CountCovered

-----------------------------------------------------------------------------
(* Steps that change a call only.                                          *)

LEMMA RestFacts == Rest \in Calls /\ CallOK(Rest)
BY DEF Rest, Calls, Points, CallOK, LockOf, SessionOf, MarksOf, Verifying

LEMMA RestApart == \A k \in Calls : Apart(Rest, k) /\ Apart(k, Rest)
BY DEF Rest, Apart, Refreshing, Verifying, InTransaction

\* The call that fails keeps its session, and nothing else.
LEMMA FailedFacts ==
  ASSUME NEW k \in Calls
  PROVE  LET f == [Rest EXCEPT !.point = "failed", !.session = k.session]
         IN  /\ f \in Calls
             /\ f.point = "failed" /\ f.session = k.session /\ f.sole = FALSE
BY DEF Rest, Calls, Points

\* A step that changes one call, and no row, to a state that is as it should be.
LEMMA CallStep ==
  ASSUME Inv, NEW c \in Callers, NEW k \in Calls, CallOK(k),
         \A d \in Callers \ {c} : Apart(call[d], k) /\ Apart(k, call[d]),
         call' = [call EXCEPT ![c] = k], UNCHANGED <<tables, recent>>,
         lost' \subseteq Sessions
  PROVE  Inv'
<1>1. TypeOK'
  BY DEF Inv, TypeOK, tables
<1>2. call \in [Callers -> Calls]
  BY DEF Inv, TypeOK
<1>3. \A d \in Callers : call'[d] = IF d = c THEN k ELSE call[d]
  BY <1>2
<1>4. ASSUME NEW d \in Callers PROVE CallOK(call[d])'
  <2>1. CallOK(call'[d])
    BY <1>3 DEF Inv, CallInv
  <2>2. session' = session /\ scope' = scope
    BY DEF tables
  <2>. QED BY <2>1, <2>2 DEF CallOK, LockOf, SessionOf, MarksOf, Consented
<1>5. ASSUME NEW d \in Callers, NEW e \in Callers, d # e PROVE Apart(call[d], call[e])'
  <2>1. Apart(call'[d], call'[e])
    BY <1>3, <1>5 DEF Inv, CallInv
  <2>. QED BY <2>1 DEF Apart
<1>6. ActiveWasFound' /\ CountCovered'
  BY DEF Inv, ActiveWasFound, CountCovered, Consented, Authorized, tables
<1>. QED BY <1>1, <1>4, <1>5, <1>6 DEF Inv, CallInv

\* A call that ends leaves nothing to keep.
LEMMA ReturnStep ==
  ASSUME Inv, NEW c \in Callers, Return(c), UNCHANGED <<tables, recent>>,
         lost' \subseteq Sessions
  PROVE  Inv'
<1>1. call \in [Callers -> Calls]
  BY DEF Inv, TypeOK
<1>. QED BY <1>1, CallStep, RestFacts, RestApart DEF Return

LEMMA FailsStep ==
  ASSUME Inv, NEW c \in Callers, call[c].point \in Verifying, Fails(c),
         UNCHANGED <<tables, recent, lost>>
  PROVE  Inv'
<1>. DEFINE k == [Rest EXCEPT !.point = "failed", !.session = call[c].session]
<1>1. call[c] \in Calls /\ lost \subseteq Sessions
  BY DEF Inv, TypeOK
<1>2. k \in Calls /\ k.point = "failed" /\ k.session = call[c].session /\ k.sole = FALSE
  BY <1>1, FailedFacts
<1>. HIDE DEF k
<1>3. CallOK(k)
  BY <1>2 DEF Inv, CallInv, CallOK, LockOf, SessionOf, MarksOf, Verifying
<1>4. ASSUME NEW d \in Callers \ {c} PROVE Apart(call[d], k) /\ Apart(k, call[d])
  BY <1>2 DEF Inv, CallInv, Apart, Refreshing, Verifying, InTransaction
<1>5. call' = [call EXCEPT ![c] = k]
  BY DEF Fails, k
<1>. QED BY <1>1, <1>2, <1>3, <1>4, <1>5, CallStep

LEMMA SelectStep ==
  ASSUME Inv, NEW c \in Callers, NEW s \in Sessions, SelectForUpdate(c, s)
  PROVE  Inv'
<1>. DEFINE k == [Rest EXCEPT !.point = "locked", !.session = s, !.read = session[s]]
<1>1. session[s] \in SessionStatus /\ lost \subseteq Sessions
  BY DEF Inv, TypeOK
<1>2. /\ k \in Calls
      /\ k.point = "locked" /\ k.session = s /\ k.read = session[s] /\ k.sole = FALSE
  BY <1>1 DEF Rest, Calls, Points
<1>. HIDE DEF k
<1>3. CallOK(k)
  BY <1>2 DEF CallOK, LockOf, SessionOf, MarksOf, Verifying
<1>4. ASSUME NEW d \in Callers \ {c} PROVE Apart(call[d], k) /\ Apart(k, call[d])
  BY <1>2 DEF Apart, Refreshing, Verifying, InTransaction, SelectForUpdate, SessionLocked, At
<1>5. call' = [call EXCEPT ![c] = k]
  BY DEF SelectForUpdate, k
<1>. QED BY <1>1, <1>2, <1>3, <1>4, <1>5, CallStep DEF SelectForUpdate

LEMMA ReverifyStep ==
  ASSUME Inv, NEW c \in Callers, Reverify(c)
  PROVE  Inv'
<1>. DEFINE k == [Rest EXCEPT !.point = "discover"]
<1>1. lost \subseteq Sessions
  BY DEF Inv, TypeOK
<1>2. k \in Calls /\ k.point = "discover" /\ k.session = None /\ k.sole = FALSE
  BY DEF Rest, Calls, Points
<1>. HIDE DEF k
<1>3. CallOK(k)
  BY <1>2 DEF CallOK, LockOf, SessionOf, MarksOf, Verifying
<1>4. ASSUME NEW d \in Callers \ {c} PROVE Apart(call[d], k) /\ Apart(k, call[d])
  BY <1>2 DEF Apart, Refreshing, Verifying, InTransaction
<1>5. call' = [call EXCEPT ![c] = k]
  BY DEF Reverify, k
<1>. QED BY <1>1, <1>2, <1>3, <1>4, <1>5, CallStep DEF Reverify

\* A verification that goes on is about the same session as before.
LEMMA GoesOn ==
  ASSUME Inv, NEW c \in Callers, NEW k \in Calls,
         call[c].point \in Verifying, k.point \in Verifying,
         k.session = call[c].session, k.sole => call[c].sole, MarksOf(k),
         call' = [call EXCEPT ![c] = k], UNCHANGED <<tables, recent, lost>>,
         k.point \in InTransaction => call[c].point \in InTransaction
  PROVE  Inv'
<1>1. lost \subseteq Sessions
  BY DEF Inv, TypeOK
<1>2. CallOK(k)
  BY DEF Inv, CallInv, CallOK, LockOf, SessionOf, Verifying
<1>3. ASSUME NEW d \in Callers \ {c} PROVE Apart(call[d], k) /\ Apart(k, call[d])
  BY DEF Inv, CallInv, Apart, Refreshing, Verifying
<1>. QED BY <1>1, <1>2, <1>3, CallStep

LEMMA DiscoverStep ==
  ASSUME Inv, NEW c \in Callers, Discover(c)
  PROVE  Inv'
<1>1. PICK found \in SUBSET Subscriptions :
        call' = [call EXCEPT ![c].point = "mark", ![c].found = found]
  BY DEF Discover
<1>. DEFINE k == [call[c] EXCEPT !.point = "mark", !.found = found]
<1>2. call \in [Callers -> Calls] /\ call[c] \in Calls /\ call[c].point = "discover"
  BY DEF Inv, TypeOK, Discover, At
<1>3. /\ k \in Calls /\ k.point = "mark" /\ k.session = call[c].session
      /\ k.sole = call[c].sole
  BY <1>2 DEF Calls, Points
<1>4. call' = [call EXCEPT ![c] = k]
  BY <1>1, <1>2
<1>. HIDE DEF k
<1>5. ~call[c].sole
  BY <1>2 DEF Inv, CallInv, CallOK, MarksOf, InTransaction
<1>6. MarksOf(k) /\ k.point \notin InTransaction
  BY <1>3, <1>5 DEF MarksOf, InTransaction
<1>. QED BY <1>2, <1>3, <1>4, <1>6, GoesOn DEF Discover, Verifying

LEMMA MarkEndsStep ==
  ASSUME Inv, NEW c \in Callers, MarkStaleEnds(c)
  PROVE  Inv'
<1>. DEFINE stale == {u \in call[c].seen : scope[u] \in {"VERIFIED", "STALE"}}
            k == [call[c] EXCEPT !.point = "upsert", !.seen = {}, !.stale = stale]
<1>1. call \in [Callers -> Calls] /\ call[c] \in Calls /\ call[c].point = "marking"
  BY DEF Inv, TypeOK, MarkStaleEnds, At
<1>2. stale \in SUBSET Subscriptions
  BY <1>1 DEF Calls
<1>3. /\ k \in Calls /\ k.point = "upsert" /\ k.session = call[c].session
      /\ k.sole = call[c].sole /\ k.stale = stale
  BY <1>1, <1>2 DEF Calls, Points
<1>4. call' = [call EXCEPT ![c] = k]
  BY <1>1 DEF MarkStaleEnds
<1>. HIDE DEF k
<1>5. MarksOf(k)
  BY <1>1, <1>3 DEF Inv, CallInv, CallOK, MarksOf, Consented, InTransaction
<1>. QED BY <1>1, <1>3, <1>4, <1>5, GoesOn DEF MarkStaleEnds, Verifying, InTransaction

LEMMA UpsertStep ==
  ASSUME Inv, NEW c \in Callers, NEW u \in Subscriptions, UpsertScope(c, u)
  PROVE  Inv'
<1>. DEFINE k == [call[c] EXCEPT !.written = @ \cup {u}]
<1>1. call \in [Callers -> Calls] /\ call[c] \in Calls /\ call[c].point = "upsert"
  BY DEF Inv, TypeOK, UpsertScope, At
<1>2. /\ k \in Calls /\ k.point = "upsert" /\ k.session = call[c].session
      /\ k.sole = call[c].sole /\ k.stale = call[c].stale
  BY <1>1 DEF Calls
<1>3. call' = [call EXCEPT ![c] = k]
  BY <1>1 DEF UpsertScope
<1>. HIDE DEF k
<1>4. MarksOf(k)
  BY <1>1, <1>2 DEF Inv, CallInv, CallOK, MarksOf, InTransaction
<1>. QED BY <1>1, <1>2, <1>3, <1>4, GoesOn DEF UpsertScope, Verifying, InTransaction

\* From here on no other verification counts as alone.
LEMMA MarkStep ==
  ASSUME Inv, NEW c \in Callers, MarkStale(c)
  PROVE  Inv'
<1>1. call \in [Callers -> Calls] /\ call[c] \in Calls /\ call[c].point = "mark"
  BY DEF Inv, TypeOK, MarkStale, At
<1>2. Marked(c) \in SUBSET Subscriptions /\ Consented \subseteq Marked(c)
  BY DEF Marked, Consented
<1>. DEFINE alone == \A e \in Callers \ {c} : call[e].point \notin InTransaction
<1>3. /\ call'[c] \in Calls /\ call'[c].point = "marking" /\ call'[c].seen = Marked(c)
      /\ call'[c].session = call[c].session /\ call'[c].sole = alone
  BY <1>1, <1>2 DEF MarkStale, Calls, Points
<1>4. ASSUME NEW d \in Callers \ {c}
      PROVE  /\ call'[d] \in Calls /\ call'[d].point = call[d].point
             /\ call'[d].session = call[d].session /\ call'[d].read = call[d].read
             /\ call'[d].sole = FALSE
  <2>1. call[d] \in Calls
    BY <1>1
  <2>2. call'[d] = [call[d] EXCEPT !.sole = FALSE]
    BY DEF MarkStale
  <2>. QED BY <2>1, <2>2 DEF Calls
<1>5. /\ session' = session /\ integration' = integration /\ directory' = directory
      /\ scope' = scope /\ recent' = recent /\ lost' = lost
  BY DEF MarkStale, tables
<1>6. DOMAIN call' = Callers /\ call' = [d \in Callers |-> call'[d]]
  BY DEF MarkStale
<1>7. TypeOK'
  <2>1. call' \in [Callers -> Calls]
    BY <1>3, <1>4, <1>6
  <2>. QED BY <2>1, <1>5 DEF Inv, TypeOK
<1>8. CallOK(call[c])'
  <2>1. LockOf(call[c])' /\ SessionOf(call[c])'
    BY <1>1, <1>3, <1>5 DEF Inv, CallInv, CallOK, LockOf, SessionOf, Verifying
  <2>2. MarksOf(call[c])'
    BY <1>2, <1>3, <1>5 DEF MarksOf, Consented, InTransaction
  <2>. QED BY <2>1, <2>2 DEF CallOK
<1>9. ASSUME NEW d \in Callers \ {c} PROVE CallOK(call[d])'
  BY <1>4, <1>5 DEF Inv, CallInv, CallOK, LockOf, SessionOf, MarksOf
<1>10. ASSUME NEW d \in Callers \ {c} PROVE Apart(call[c], call[d])' /\ Apart(call[d], call[c])'
  <2>1. Apart(call[c], call[d]) /\ Apart(call[d], call[c])
    BY DEF Inv, CallInv
  <2>2. /\ call[c].point = "mark" /\ call'[c].point = "marking"
        /\ call'[c].session = call[c].session
        /\ call'[c].sole => call[d].point \notin InTransaction
    BY <1>1, <1>3
  <2>3. /\ call'[d].point = call[d].point /\ call'[d].session = call[d].session
        /\ call'[d].sole = FALSE
    BY <1>4
  <2>. QED BY <2>1, <2>2, <2>3 DEF Apart, Refreshing, Verifying
<1>11. ASSUME NEW d \in Callers \ {c}, NEW e \in Callers \ {c}, d # e
       PROVE  Apart(call[d], call[e])'
  <2>1. Apart(call[d], call[e])
    BY <1>11 DEF Inv, CallInv
  <2>2. /\ call'[d].point = call[d].point /\ call'[d].session = call[d].session
        /\ call'[e].point = call[e].point /\ call'[e].session = call[e].session
        /\ call'[d].sole = FALSE
    BY <1>4
  <2>. QED BY <2>1, <2>2 DEF Apart
<1>12. CallInv'
  BY <1>8, <1>9, <1>10, <1>11 DEF CallInv
<1>13. ActiveWasFound' /\ CountCovered'
  BY <1>5 DEF Inv, ActiveWasFound, CountCovered, Consented, Authorized
<1>. QED BY <1>7, <1>12, <1>13 DEF Inv

-----------------------------------------------------------------------------
(* Steps that change a session, without a call or with one.                *)

LEMMA SessionStep ==
  ASSUME Inv, session' \in [Sessions -> SessionStatus],
         UNCHANGED <<integration, directory, scope, call, recent, lost>>,
         \A c \in Callers : LockOf(call[c])' /\ SessionOf(call[c])'
  PROVE  Inv'
<1>1. TypeOK'
  BY DEF Inv, TypeOK
<1>2. CallInv'
  BY DEF Inv, CallInv, CallOK, MarksOf, Consented, Apart
<1>3. ActiveWasFound' /\ CountCovered'
  BY DEF Inv, ActiveWasFound, CountCovered, Consented, Authorized
<1>. QED BY <1>1, <1>2, <1>3 DEF Inv

LEMMA StartStep ==
  ASSUME Inv, NEW s \in Sessions, Start(s) \/ TurnsDue(s)
  PROVE  Inv'
<1>1. session \in [Sessions -> SessionStatus] /\ call \in [Callers -> Calls]
  BY DEF Inv, TypeOK
<1>2. session' \in [Sessions -> SessionStatus] /\ call' = call
  BY <1>1 DEF Start, TurnsDue, SessionStatus
<1>3. ASSUME NEW c \in Callers PROVE LockOf(call[c])' /\ SessionOf(call[c])'
  <2>1. call[c].session \in Sessions \cup {None}
    BY <1>1 DEF Calls
  <2>2. LockOf(call[c]) /\ SessionOf(call[c])
    BY DEF Inv, CallInv, CallOK
  <2>. QED BY <1>1, <1>2, <2>1, <2>2 DEF LockOf, SessionOf, Start, TurnsDue
<1>. QED BY <1>2, <1>3, SessionStep DEF Start, TurnsDue

LEMMA ExpireStep ==
  ASSUME Inv, Expire
  PROVE  Inv'
<1>1. session \in [Sessions -> SessionStatus] /\ call \in [Callers -> Calls]
  BY DEF Inv, TypeOK
<1>2. session' \in [Sessions -> SessionStatus] /\ call' = call
  BY <1>1 DEF Expire, SessionStatus, Ends
<1>3. ASSUME NEW c \in Callers PROVE LockOf(call[c])' /\ SessionOf(call[c])'
  <2>1. call[c].session \in Sessions \cup {None}
    BY <1>1 DEF Calls
  <2>2. LockOf(call[c]) /\ SessionOf(call[c])
    BY DEF Inv, CallInv, CallOK
  <2>3. call[c].point = "locked" => session'[call[c].session] = session[call[c].session]
    BY <2>1, <2>2 DEF Expire, SessionLocked, At, LockOf
  <2>. QED BY <1>2, <2>1, <2>2, <2>3 DEF LockOf, SessionOf, Expire
<1>. QED BY <1>2, <1>3, SessionStep DEF Expire

LEMMA SweepStep ==
  ASSUME Inv, NEW s \in Sessions, Sweep(s)
  PROVE  Inv'
<1>1. session \in [Sessions -> SessionStatus] /\ call \in [Callers -> Calls]
  BY DEF Inv, TypeOK
<1>2. session' \in [Sessions -> SessionStatus] /\ call' = call
  BY <1>1 DEF Sweep, SessionStatus
<1>3. ASSUME NEW c \in Callers PROVE LockOf(call[c])' /\ SessionOf(call[c])'
  <2>1. call[c].session \in Sessions \cup {None}
    BY <1>1 DEF Calls
  <2>2. LockOf(call[c]) /\ SessionOf(call[c])
    BY DEF Inv, CallInv, CallOK
  <2>. QED BY <1>1, <1>2, <2>1, <2>2 DEF LockOf, SessionOf, Sweep, Ends
<1>. QED BY <1>2, <1>3, SessionStep DEF Sweep

\* The other calls are not about the session of a callback that has read it
\* STARTED, nor about that of a verification.
LEMMA OthersKept ==
  ASSUME Inv, NEW c \in Callers, NEW d \in Callers \ {c}, call'[d] = call[d],
         \/ call[c].point = "locked" /\ call[c].read = "STARTED"
         \/ call[c].point \in Refreshing,
         \A s \in Sessions : s # call[c].session => session'[s] = session[s]
  PROVE  LockOf(call[d])' /\ SessionOf(call[d])'
<1>1. call[c] \in Calls /\ call[d] \in Calls
  BY DEF Inv, TypeOK
<1>2. CallOK(call[c]) /\ CallOK(call[d]) /\ Apart(call[c], call[d]) /\ Apart(call[d], call[c])
  BY DEF Inv, CallInv
<1>3. call[d].session \in Sessions \cup {None}
  BY <1>1 DEF Calls
<1>4. /\ call[d].point = "locked" /\ call[d].read = "STARTED" => call[d].session # call[c].session
      /\ call[d].point \in Refreshing /\ call[d].session # None =>
           call[d].session # call[c].session
  BY <1>2, NoneAssumption
     DEF CallOK, LockOf, SessionOf, Apart, Refreshing, Verifying
<1>. QED BY <1>2, <1>3, <1>4 DEF CallOK, LockOf, SessionOf, Refreshing, Verifying

LEMMA DeniedStep ==
  ASSUME Inv, NEW c \in Callers, Denied(c)
  PROVE  Inv'
<1>1. /\ session \in [Sessions -> SessionStatus] /\ call \in [Callers -> Calls]
      /\ call[c].point = "locked" /\ call[c].read = "STARTED"
  BY DEF Inv, TypeOK, Denied, At
<1>2. session' \in [Sessions -> SessionStatus]
  BY <1>1 DEF Denied, SessionStatus, Ends
<1>3. /\ call'[c] = Rest /\ call' \in [Callers -> Calls]
      /\ \A d \in Callers \ {c} : call'[d] = call[d]
  BY <1>1, RestFacts DEF Denied, Return
<1>4. /\ integration' = integration /\ directory' = directory /\ scope' = scope
      /\ recent' = recent /\ lost' = lost
  BY DEF Denied
<1>5. TypeOK'
  BY <1>2, <1>3, <1>4 DEF Inv, TypeOK
<1>6. CallOK(call[c])'
  BY <1>3 DEF Rest, CallOK, LockOf, SessionOf, MarksOf, Verifying
<1>7. ASSUME NEW d \in Callers \ {c} PROVE CallOK(call[d])'
  <2>1. LockOf(call[d])' /\ SessionOf(call[d])'
    <3>1. \A s \in Sessions : s # call[c].session => session'[s] = session[s]
      BY <1>1 DEF Denied
    <3>. QED BY <1>1, <1>3, <3>1, OthersKept
  <2>2. MarksOf(call[d])'
    BY <1>3, <1>4 DEF Inv, CallInv, CallOK, MarksOf, Consented
  <2>. QED BY <2>1, <2>2 DEF CallOK
<1>8. ASSUME NEW d \in Callers, NEW e \in Callers, d # e PROVE Apart(call[d], call[e])'
  <2>0. call[d] \in Calls /\ call[e] \in Calls
    BY <1>1
  <2>1. Apart(call'[d], call'[e])
    BY <1>3, <1>8, <2>0, RestApart DEF Inv, CallInv
  <2>. QED BY <2>1 DEF Apart
<1>9. ActiveWasFound' /\ CountCovered'
  BY <1>4 DEF Inv, ActiveWasFound, CountCovered, Consented, Authorized
<1>. QED BY <1>5, <1>6, <1>7, <1>8, <1>9 DEF Inv, CallInv

LEMMA GrantedStep ==
  ASSUME Inv, NEW c \in Callers, Granted(c)
  PROVE  Inv'
<1>. DEFINE k == [call[c] EXCEPT !.point = "discover", !.read = "none"]
<1>1. /\ session \in [Sessions -> SessionStatus] /\ call \in [Callers -> Calls]
      /\ call[c] \in Calls
      /\ call[c].point = "locked" /\ call[c].read = "STARTED"
  BY DEF Inv, TypeOK, Granted, At
<1>2. session' \in [Sessions -> SessionStatus]
  BY <1>1 DEF Granted, SessionStatus
<1>3. k \in Calls /\ k.point = "discover" /\ k.session = call[c].session /\ k.sole = call[c].sole
  BY <1>1 DEF Calls, Points
<1>4. call' = [call EXCEPT ![c] = k]
  BY <1>1 DEF Granted
<1>. HIDE DEF k
<1>5. ~k.sole
  BY <1>1, <1>3 DEF Inv, CallInv, CallOK, MarksOf, InTransaction
<1>6. /\ call'[c] = k /\ call' \in [Callers -> Calls]
      /\ \A d \in Callers \ {c} : call'[d] = call[d]
  BY <1>1, <1>3, <1>4
<1>7. /\ integration' = [integration EXCEPT !.status = "CONSENTED"]
      /\ directory' = "CONSENTED" /\ scope' = scope /\ recent' = recent /\ lost' = lost
  BY DEF Granted, ConsentScope
<1>8. TypeOK'
  BY <1>2, <1>6, <1>7 DEF Inv, TypeOK
<1>9. call[c].session \in Sessions /\ session'[call[c].session] = "VERIFYING"
  <2>1. call[c].session \in Sessions
    BY <1>1 DEF Inv, CallInv, CallOK, LockOf
  <2>. QED BY <1>1, <2>1 DEF Granted
<1>10. CallOK(call[c])'
  BY <1>3, <1>5, <1>6, <1>9 DEF CallOK, LockOf, SessionOf, MarksOf
<1>11. ASSUME NEW d \in Callers \ {c} PROVE CallOK(call[d])'
  <2>1. LockOf(call[d])' /\ SessionOf(call[d])'
    <3>1. \A s \in Sessions : s # call[c].session => session'[s] = session[s]
      BY <1>1 DEF Granted
    <3>. QED BY <1>1, <1>6, <3>1, OthersKept
  <2>2. MarksOf(call[d])'
    BY <1>6, <1>7 DEF Inv, CallInv, CallOK, MarksOf, Consented
  <2>. QED BY <2>1, <2>2 DEF CallOK
<1>12. ASSUME NEW d \in Callers \ {c} PROVE Apart(call[c], call[d])' /\ Apart(call[d], call[c])'
  <2>1. call[d].point \in Refreshing => call[d].session # call[c].session
    BY <1>1, <1>9, NoneAssumption
       DEF Inv, CallInv, CallOK, LockOf, SessionOf, Refreshing
  <2>2. k.point \in Refreshing /\ k.point # "locked" /\ k.point \notin InTransaction
    BY <1>3 DEF Refreshing, Verifying, InTransaction
  <2>. QED BY <1>3, <1>5, <1>6, <2>1, <2>2 DEF Apart
<1>13. ASSUME NEW d \in Callers \ {c}, NEW e \in Callers \ {c}, d # e
       PROVE  Apart(call[d], call[e])'
  <2>1. Apart(call[d], call[e])
    BY <1>13 DEF Inv, CallInv
  <2>. QED BY <1>6, <2>1 DEF Apart
<1>14. CallInv'
  BY <1>10, <1>11, <1>12, <1>13 DEF CallInv
<1>15. ActiveWasFound' /\ CountCovered'
  BY <1>7 DEF Inv, TypeOK, ActiveWasFound, CountCovered, Consented, Authorized
<1>. QED BY <1>8, <1>14, <1>15 DEF Inv

-----------------------------------------------------------------------------
(* The ends of a verification.                                             *)

\* A call that has ended, or has failed, relies on no row but its session's.
EndedAs(k, s) ==
  /\ k \in Calls /\ k.sole = FALSE
  /\ k.point = "idle" \/ (k.point = "failed" /\ k.session = s)

LEMMA EndedFacts ==
  ASSUME NEW c \in Callers, call \in [Callers -> Calls], Return(c) \/ Fails(c)
  PROVE  /\ call' \in [Callers -> Calls] /\ EndedAs(call'[c], call[c].session)
         /\ \A d \in Callers \ {c} : call'[d] = call[d]
<1>1. CASE Return(c)
  BY <1>1, RestFacts DEF Return, EndedAs, Rest
<1>2. CASE Fails(c)
  <2>. DEFINE k == [Rest EXCEPT !.point = "failed", !.session = call[c].session]
  <2>1. k \in Calls /\ k.point = "failed" /\ k.session = call[c].session /\ k.sole = FALSE
    BY FailedFacts
  <2>2. call' = [call EXCEPT ![c] = k]
    BY <1>2 DEF Fails
  <2>. HIDE DEF k
  <2>. QED BY <2>1, <2>2 DEF EndedAs
<1>. QED BY <1>1, <1>2

\* EndSession is about the session of the call, which a verification holds.
LEMMA SessionEnds ==
  ASSUME Inv, NEW c \in Callers, call[c].point \in Refreshing,
         NEW status \in {"COMPLETED", "ACTION_REQUIRED"}, EndSession(c, status),
         status = "COMPLETED" => call[c].point # "failed"
  PROVE  /\ session' \in [Sessions -> SessionStatus]
         /\ \A s \in Sessions : s # call[c].session => session'[s] = session[s]
         /\ call[c].session # None =>
              /\ call[c].session \in Sessions
              /\ session'[call[c].session] \in {"COMPLETED", "ACTION_REQUIRED", "DELETED"}
              /\ <<session[call[c].session], session'[call[c].session]>>
                   \in {<<"VERIFYING", "COMPLETED">>, <<"VERIFYING", "ACTION_REQUIRED">>,
                        <<"COMPLETED", "ACTION_REQUIRED">>,
                        <<"ACTION_REQUIRED", "ACTION_REQUIRED">>, <<"DELETED", "DELETED">>}
<1>1. session \in [Sessions -> SessionStatus] /\ call[c] \in Calls
  BY DEF Inv, TypeOK
<1>2. status \in SessionStatus /\ status # "DELETED"
  BY DEF SessionStatus, Ends
<1>3. session' \in [Sessions -> SessionStatus]
  BY <1>1, <1>2 DEF EndSession
<1>4. \A s \in Sessions : s # call[c].session => session'[s] = session[s]
  BY DEF EndSession
<1>5. ASSUME call[c].session # None
      PROVE  /\ call[c].session \in Sessions
             /\ call[c].point # "failed" => session[call[c].session] = "VERIFYING"
             /\ session[call[c].session] \in
                  {"VERIFYING", "COMPLETED", "ACTION_REQUIRED", "DELETED"}
             /\ session'[call[c].session] =
                  IF session[call[c].session] = "DELETED" THEN "DELETED" ELSE status
  <2>1. call[c].session \in Sessions
    BY <1>1, <1>5 DEF Calls
  <2>2. SessionOf(call[c])
    BY DEF Inv, CallInv, CallOK
  <2>. QED BY <1>5, <2>1, <2>2 DEF SessionOf, Refreshing, EndSession
<1>. QED BY <1>3, <1>4, <1>5

\* What follows for the calls when a verification ends.
LEMMA CallsAfter ==
  ASSUME Inv, NEW c \in Callers, call[c].point \in Refreshing,
         \A s \in Sessions : s # call[c].session => session'[s] = session[s],
         call[c].session # None =>
           session'[call[c].session] \in {"COMPLETED", "ACTION_REQUIRED", "DELETED"},
         call' \in [Callers -> Calls], EndedAs(call'[c], call[c].session),
         \A d \in Callers \ {c} : call'[d] = call[d],
         scope' = scope \/ call[c].point \in InTransaction
  PROVE  CallInv'
<1>1. CallOK(call[c])'
  BY DEF EndedAs, CallOK, LockOf, SessionOf, MarksOf, Verifying
<1>2. ASSUME NEW d \in Callers \ {c} PROVE CallOK(call[d])'
  <2>1. LockOf(call[d])' /\ SessionOf(call[d])'
    BY OthersKept
  <2>2. MarksOf(call[d])'
    <3>1. Apart(call[d], call[c]) /\ MarksOf(call[d]) /\ call'[d] = call[d]
      BY DEF Inv, CallInv, CallOK
    <3>2. call[d].sole => scope' = scope
      BY <3>1 DEF Apart
    <3>. QED BY <3>1, <3>2 DEF MarksOf, Consented
  <2>. QED BY <2>1, <2>2 DEF CallOK
<1>3. ASSUME NEW d \in Callers \ {c} PROVE Apart(call[c], call[d])' /\ Apart(call[d], call[c])'
  <2>1. Apart(call[c], call[d]) /\ Apart(call[d], call[c]) /\ call'[d] = call[d]
    BY DEF Inv, CallInv
  <2>. QED BY <2>1 DEF Apart, EndedAs, Refreshing, Verifying, InTransaction
<1>4. ASSUME NEW d \in Callers \ {c}, NEW e \in Callers \ {c}, d # e
      PROVE  Apart(call[d], call[e])'
  <2>1. Apart(call[d], call[e]) /\ call'[d] = call[d] /\ call'[e] = call[e]
    BY <1>4 DEF Inv, CallInv
  <2>. QED BY <2>1 DEF Apart
<1>. QED BY <1>1, <1>2, <1>3, <1>4 DEF CallInv

LEMMA CommitStep ==
  ASSUME Inv, NEW c \in Callers, Commit(c)
  PROVE  Inv'
<1>. DEFINE found == call[c].found
            status == IF found = {} THEN "ACTION_REQUIRED" ELSE "COMPLETED"
<1>1. /\ call \in [Callers -> Calls] /\ call[c] \in Calls
      /\ call[c].point = "upsert" /\ call[c].written = found
      /\ found \in SUBSET Subscriptions
      /\ scope \in [Subscriptions -> Scopes] /\ recent \subseteq Subscriptions
      /\ directory' = directory /\ lost' = lost
  BY DEF Inv, TypeOK, Commit, At, Calls
<1>2. /\ call' \in [Callers -> Calls] /\ EndedAs(call'[c], call[c].session)
      /\ \A d \in Callers \ {c} : call'[d] = call[d]
  BY <1>1, EndedFacts DEF Commit
<1>3. /\ session' \in [Sessions -> SessionStatus]
      /\ \A s \in Sessions : s # call[c].session => session'[s] = session[s]
      /\ call[c].session # None =>
           session'[call[c].session] \in {"COMPLETED", "ACTION_REQUIRED", "DELETED"}
  <2>1. EndSession(c, status)
    BY DEF Commit
  <2>. QED BY <1>1, <2>1, SessionEnds DEF Refreshing, Verifying
<1>4. CallInv'
  BY <1>1, <1>2, <1>3, CallsAfter DEF Refreshing, Verifying, InTransaction
<1>5. \A u \in Subscriptions :
        scope'[u] = IF u \in found THEN "VERIFIED"
                    ELSE IF u \in call[c].stale THEN "STALE" ELSE scope[u]
  BY <1>1 DEF Commit, Written
<1>6. scope' \in [Subscriptions -> Scopes]
  BY <1>1 DEF Commit, Written, Scopes
<1>7. /\ recent' = IF call[c].sole THEN found ELSE recent \cup found
      /\ integration' = [status |-> IF found = {} THEN "NEEDS_RBAC" ELSE "ACTIVE",
                         count |-> Cardinality(found)]
  BY DEF Commit
<1>8. /\ IsFiniteSet(Authorized') /\ Cardinality(Authorized') \in Nat
      /\ Cardinality(found) \in Nat /\ Cardinality(Subscriptions) \in Nat
      /\ Cardinality(found) <= Cardinality(Authorized')
      /\ Cardinality(found) <= Cardinality(Subscriptions)
      /\ found \subseteq Authorized'
  <2>1. Authorized' \in SUBSET Subscriptions /\ found \in SUBSET Authorized'
    BY <1>1, <1>5 DEF Authorized
  <2>2. IsFiniteSet(Authorized') /\ IsFiniteSet(found)
    BY <1>1, <2>1, FS_Subset, SubscriptionsAssumption
  <2>. QED BY <1>1, <2>1, <2>2, FS_Subset, FS_CardinalityType, SubscriptionsAssumption
<1>9. TypeOK'
  BY <1>1, <1>2, <1>3, <1>6, <1>7, <1>8 DEF Inv, TypeOK
<1>10. CountCovered'
  BY <1>7, <1>8 DEF CountCovered
<1>11. ActiveWasFound'
  <2>1. Consented' \subseteq found \cup (Consented \ call[c].stale)
    BY <1>5 DEF Consented
  <2>2. call[c].sole => Consented \subseteq call[c].stale
    BY <1>1 DEF Inv, CallInv, CallOK, MarksOf
  <2>. QED BY <1>7, <2>1, <2>2 DEF Inv, ActiveWasFound
<1>. QED BY <1>4, <1>9, <1>10, <1>11 DEF Inv

LEMMA RecordStep ==
  ASSUME Inv, NEW c \in Callers, RecordFailure(c)
  PROVE  Inv'
<1>1. /\ call \in [Callers -> Calls] /\ call[c].point = "failed"
      /\ directory' = directory /\ scope' = scope /\ recent' = recent /\ lost' = lost
      /\ integration' = [integration EXCEPT !.status = "NEEDS_RBAC"]
  BY DEF Inv, TypeOK, RecordFailure, At
<1>2. /\ call' \in [Callers -> Calls] /\ EndedAs(call'[c], call[c].session)
      /\ \A d \in Callers \ {c} : call'[d] = call[d]
  BY <1>1, EndedFacts DEF RecordFailure
<1>3. /\ session' \in [Sessions -> SessionStatus]
      /\ \A s \in Sessions : s # call[c].session => session'[s] = session[s]
      /\ call[c].session # None =>
           session'[call[c].session] \in {"COMPLETED", "ACTION_REQUIRED", "DELETED"}
  BY <1>1, SessionEnds DEF RecordFailure, Refreshing
<1>4. CallInv'
  BY <1>1, <1>2, <1>3, CallsAfter DEF Refreshing
<1>5. TypeOK'
  BY <1>1, <1>2, <1>3 DEF Inv, TypeOK
<1>6. ActiveWasFound' /\ CountCovered'
  BY <1>1 DEF Inv, TypeOK, ActiveWasFound, CountCovered, Consented, Authorized
<1>. QED BY <1>4, <1>5, <1>6 DEF Inv

LEMMA RegisterStep ==
  ASSUME Inv, NEW subs \in SUBSET Subscriptions, Register(subs)
  PROVE  Inv'
<1>1. /\ scope \in [Subscriptions -> Scopes]
      /\ session' = session /\ integration' = integration /\ call' = call
      /\ recent' = recent /\ lost' = lost /\ directory' = "VERIFIED"
      /\ scope' = [u \in Subscriptions |-> IF u \in subs THEN "MANUAL" ELSE scope[u]]
  BY DEF Inv, TypeOK, Register
<1>2. TypeOK'
  BY <1>1 DEF Inv, TypeOK, Scopes
<1>3. Consented' \subseteq Consented /\ Authorized \subseteq Authorized'
  BY <1>1 DEF Consented, Authorized
<1>4. ASSUME NEW c \in Callers PROVE CallOK(call[c])'
  BY <1>1, <1>3 DEF Inv, CallInv, CallOK, LockOf, SessionOf, MarksOf
<1>5. \A c, d \in Callers : c # d => Apart(call[c], call[d])'
  BY <1>1 DEF Inv, CallInv, Apart
<1>6. Cardinality(Authorized) <= Cardinality(Authorized')
  <2>1. Authorized' \in SUBSET Subscriptions
    BY DEF Authorized
  <2>2. IsFiniteSet(Authorized')
    BY <2>1, FS_Subset, SubscriptionsAssumption
  <2>. QED BY <1>3, <2>2, FS_Subset
<1>7. CountCovered'
  <2>1. integration.count \in Nat
    <3>1. Cardinality(Subscriptions) \in Nat
      BY FS_CardinalityType, SubscriptionsAssumption
    <3>. QED BY <3>1 DEF Inv, TypeOK
  <2>2. IsFiniteSet(Authorized) /\ IsFiniteSet(Authorized')
    <3>1. Authorized \in SUBSET Subscriptions /\ Authorized' \in SUBSET Subscriptions
      BY DEF Authorized
    <3>. QED BY <3>1, FS_Subset, SubscriptionsAssumption
  <2>3. Cardinality(Authorized) \in Nat /\ Cardinality(Authorized') \in Nat
    BY <2>2, FS_CardinalityType
  <2>. QED BY <1>1, <1>3, <1>6, <2>1, <2>3 DEF Inv, CountCovered
<1>8. ActiveWasFound'
  BY <1>1, <1>3 DEF Inv, ActiveWasFound
<1>. QED BY <1>2, <1>4, <1>5, <1>7, <1>8 DEF Inv, CallInv

LEMMA LostStep ==
  ASSUME Inv, NEW c \in Callers, Lost(c)
  PROVE  Inv'
<1>1. call[c] \in Calls /\ lost \subseteq Sessions
  BY DEF Inv, TypeOK
<1>2. lost' \subseteq Sessions
  BY <1>1 DEF Lost, Calls
<1>. QED BY <1>2, ReturnStep DEF Lost

-----------------------------------------------------------------------------
(* The invariant.                                                          *)

LEMMA InitInv == Init => Inv
<1>. SUFFICES ASSUME Init PROVE Inv
  OBVIOUS
<1>1. Cardinality(Subscriptions) \in Nat
  BY FS_CardinalityType, SubscriptionsAssumption
<1>2. Authorized = {} /\ Consented = {}
  BY DEF Init, Authorized, Consented
<1>3. TypeOK
  BY <1>1, RestFacts DEF Init, TypeOK, SessionStatus, Scopes
<1>4. CallInv
  BY RestFacts, RestApart DEF Init, CallInv
<1>5. ActiveWasFound /\ CountCovered
  BY <1>2, FS_EmptySet DEF Init, ActiveWasFound, CountCovered
<1>. QED BY <1>3, <1>4, <1>5 DEF Inv

LEMMA NextInv ==
  ASSUME Inv, [Next]_vars
  PROVE  Inv'
<1>0. lost \subseteq Sessions
  BY DEF Inv, TypeOK
<1>1. ASSUME NEW c \in Callers, Step(c) PROVE Inv'
  <2>1. CASE Refused(c) \/ CallbackAborts(c)
    BY <1>0, <2>1, ReturnStep DEF Refused, CallbackAborts
  <2>2. CASE DiscoverFails(c) \/ RefreshFails(c)
    BY <2>2, FailsStep DEF DiscoverFails, RefreshFails, Verifying, InTransaction, At
  <2>3. CASE Denied(c)
    BY <2>3, DeniedStep
  <2>4. CASE Granted(c)
    BY <2>4, GrantedStep
  <2>5. CASE Discover(c)
    BY <2>5, DiscoverStep
  <2>6. CASE MarkStale(c)
    BY <2>6, MarkStep
  <2>7. CASE MarkStaleEnds(c)
    BY <2>7, MarkEndsStep
  <2>8. CASE \E u \in Subscriptions : UpsertScope(c, u)
    BY <2>8, UpsertStep
  <2>9. CASE Commit(c)
    BY <2>9, CommitStep
  <2>10. CASE RecordFailure(c)
    BY <2>10, RecordStep
  <2>. QED BY <1>1, <2>1, <2>2, <2>3, <2>4, <2>5, <2>6, <2>7, <2>8, <2>9, <2>10 DEF Step
<1>2. ASSUME NEW c \in Callers,
             (\E s \in Sessions : SelectForUpdate(c, s)) \/ Reverify(c) \/ Lost(c)
      PROVE  Inv'
  BY <1>2, SelectStep, ReverifyStep, LostStep
<1>3. ASSUME NEW s \in Sessions, Start(s) \/ TurnsDue(s) \/ Sweep(s) PROVE Inv'
  BY <1>3, StartStep, SweepStep
<1>4. CASE Expire
  BY <1>4, ExpireStep
<1>5. CASE \E subs \in SUBSET Subscriptions : Register(subs)
  BY <1>5, RegisterStep
<1>6. CASE UNCHANGED vars
  <2>1. /\ session' = session /\ integration' = integration /\ directory' = directory
        /\ scope' = scope /\ call' = call /\ recent' = recent /\ lost' = lost
    BY <1>6 DEF vars
  <2>2. TypeOK' /\ ActiveWasFound' /\ CountCovered'
    BY <2>1 DEF Inv, TypeOK, ActiveWasFound, CountCovered, Consented, Authorized
  <2>3. CallInv'
    BY <2>1 DEF Inv, CallInv, CallOK, LockOf, SessionOf, MarksOf, Consented, Apart
  <2>. QED BY <2>2, <2>3 DEF Inv
<1>. QED BY <1>1, <1>2, <1>3, <1>4, <1>5, <1>6 DEF Next

LEMMA Invariant == Spec => []Inv
<1>. QED BY InitInv, NextInv, PTL DEF Spec

-----------------------------------------------------------------------------
(* The theorems.                                                           *)

\* Rows and calls keep their types, and the count is one of subscriptions.
THEOREM TypeCorrect == Spec => []TypeOK
<1>1. Inv => TypeOK
  BY DEF Inv
<1>. QED BY <1>1, Invariant, PTL

\* What authorizes scans by consent was found by the last verification that ran
\* alone or by one since, however many overlap and at whichever statement each
\* of them fails.
THEOREM FoundHolds == Spec => []ActiveWasFound
<1>1. Inv => ActiveWasFound
  BY DEF Inv
<1>. QED BY <1>1, Invariant, PTL

\* The subscriptions counted as verified are authorized.
THEOREM CountHolds == Spec => []CountCovered
<1>1. Inv => CountCovered
  BY DEF Inv
<1>. QED BY <1>1, Invariant, PTL

\* A session moves only along the edges of Moves: no callback, verification,
\* script or lost reply sends it back or consumes it twice.
THEOREM ConsumedHolds == Spec => ConsumedOnce
<1>1. ASSUME Inv, [Next]_vars, NEW s \in Sessions
      PROVE  session'[s] = session[s] \/ <<session[s], session'[s]>> \in Moves
  <2>1. session \in [Sessions -> SessionStatus] /\ call \in [Callers -> Calls]
    BY <1>1 DEF Inv, TypeOK
  <2>2. ASSUME NEW c \in Callers, Denied(c) \/ Granted(c)
        PROVE  session'[s] = session[s] \/ <<session[s], session'[s]>> \in Moves
    <3>1. /\ call[c].point = "locked" /\ call[c].read = "STARTED"
          /\ call[c].session \in Sessions
          /\ session[call[c].session] \in {"STARTED", "DUE"}
      BY <1>1, <2>2 DEF Denied, Granted, At, Inv, CallInv, CallOK, LockOf
    <3>2. CASE s # call[c].session
      BY <2>1, <2>2, <3>2 DEF Denied, Granted
    <3>3. CASE s = call[c].session
      <4>1. session'[s] \in {"FAILED", "VERIFYING"}
        BY <2>1, <2>2, <3>3 DEF Denied, Granted
      <4>. QED BY <3>1, <3>3, <4>1 DEF Moves
    <3>. QED BY <3>2, <3>3
  <2>3. ASSUME NEW c \in Callers, Commit(c) \/ RecordFailure(c)
        PROVE  session'[s] = session[s] \/ <<session[s], session'[s]>> \in Moves
    <3>1. PICK status \in {"COMPLETED", "ACTION_REQUIRED"} :
            /\ EndSession(c, status)
            /\ call[c].point \in Refreshing
            /\ status = "COMPLETED" => call[c].point # "failed"
      BY <2>3 DEF Commit, RecordFailure, At, Refreshing, Verifying
    <3>2. CASE s # call[c].session
      BY <3>1, <3>2 DEF EndSession
    <3>3. CASE s = call[c].session
      <4>1. call[c].session # None
        BY <3>3, NoneAssumption
      <4>2. <<session[s], session'[s]>>
              \in {<<"VERIFYING", "COMPLETED">>, <<"VERIFYING", "ACTION_REQUIRED">>,
                   <<"COMPLETED", "ACTION_REQUIRED">>,
                   <<"ACTION_REQUIRED", "ACTION_REQUIRED">>, <<"DELETED", "DELETED">>}
        BY <1>1, <3>1, <3>3, <4>1, SessionEnds
      <4>. QED BY <4>2 DEF Moves
    <3>. QED BY <3>2, <3>3
  <2>4. CASE \E t \in Sessions : Start(t) \/ TurnsDue(t) \/ Sweep(t)
    BY <2>1, <2>4 DEF Start, TurnsDue, Sweep, Moves
  <2>5. CASE Expire
    BY <2>1, <2>5 DEF Expire, Moves
  <2>6. ASSUME session' # session
        PROVE  \/ \E c \in Callers : \/ Denied(c) \/ Granted(c)
                                    \/ Commit(c) \/ RecordFailure(c)
               \/ \E t \in Sessions : Start(t) \/ TurnsDue(t) \/ Sweep(t)
               \/ Expire
    BY <1>1, <2>6 DEF Next, Step, vars, tables, SelectForUpdate, Reverify, Refused,
       CallbackAborts, Discover, DiscoverFails, MarkStale, MarkStaleEnds, UpsertScope,
       RefreshFails, Lost, Register
  <2>. QED BY <2>2, <2>3, <2>4, <2>5, <2>6
<1>2. Inv /\ [Next]_vars =>
        [\A s \in Sessions : session'[s] = session[s] \/ <<session[s], session'[s]>> \in Moves]_vars
  BY <1>1
<1>. QED BY <1>2, Invariant, PTL DEF Spec, ConsumedOnce

=============================================================================
