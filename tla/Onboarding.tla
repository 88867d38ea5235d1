----------------------------- MODULE Onboarding -----------------------------
(***************************************************************************)
(* The onboarding of one Microsoft tenant by one Bevoac tenant: sessions,  *)
(* the consent callback, the verification of subscriptions and the scopes  *)
(* that authorize scans, with the scripts that write the same rows.        *)
(*                                                                         *)
(* Transactions are READ COMMITTED.  What a verification writes is in its  *)
(* call until it commits; the rows it has written are locked until then.   *)
(***************************************************************************)
EXTENDS Naturals, FiniteSets

CONSTANTS
  Sessions,       (* onboarding sessions, one signed state each            *)
  Subscriptions,  (* what Azure may list                                   *)
  Callers,        (* concurrent callbacks and verifications                *)
  None

ASSUME SubscriptionsAssumption == IsFiniteSet(Subscriptions)
ASSUME NoneAssumption == None \notin Sessions

VARIABLES
  session,      (* azure_onboarding_sessions: the status of each; DUE is   *)
                (* STARTED once expires_at has passed                      *)
  integration,  (* the row of tenant_azure_integrations                    *)
  directory,    (* status of the tenant-level row of tenant_azure_scopes   *)
  scope,        (* its rows of subscriptions                               *)
  call,         (* what each caller is doing                               *)
  recent,       (* the subscriptions found since the last verification     *)
                (* that overlapped no other, included                      *)
  lost          (* sessions whose verification died, or could not record   *)
                (* that it had failed                                      *)

vars == <<session, integration, directory, scope, call, recent, lost>>
tables == <<session, integration, directory, scope>>

Ends == {"COMPLETED", "ACTION_REQUIRED", "FAILED", "EXPIRED"}
SessionStatus == {"ABSENT", "STARTED", "DUE", "VERIFYING", "DELETED"} \cup Ends
Scopes == {"ABSENT", "VERIFIED", "STALE", "MANUAL"}
Points == {"idle", "locked", "discover", "mark", "marking", "upsert", "failed"}
InTransaction == {"marking", "upsert"}

\* seen, stale and found: the rows of the statement that marks them, those it
\* has marked, and what Azure listed; written: those upserted so far.
Calls == [point : Points, session : Sessions \cup {None},
          read : {"none"} \cup SessionStatus, found : SUBSET Subscriptions,
          seen : SUBSET Subscriptions, stale : SUBSET Subscriptions,
          written : SUBSET Subscriptions, sole : BOOLEAN]

Rest == [point |-> "idle", session |-> None, read |-> "none", found |-> {}, seen |-> {},
         stale |-> {}, written |-> {}, sole |-> FALSE]

At(c, point) == call[c].point = point
Return(c) == call' = [call EXCEPT ![c] = Rest]
Fails(c) ==
  call' = [call EXCEPT ![c] = [Rest EXCEPT !.point = "failed", !.session = call[c].session]]

\* Active rows of subscriptions that came from the consent.
Consented == {u \in Subscriptions : scope[u] = "VERIFIED"}
Authorized == {u \in Subscriptions : scope[u] \in {"VERIFIED", "MANUAL"}}

\* The row of a subscription is locked by another's transaction.
RowLocked(c, u) ==
  \E d \in Callers \ {c} : /\ call[d].point \in InTransaction
                           /\ u \in call[d].stale \cup call[d].written

Init ==
  /\ session = [s \in Sessions |-> "ABSENT"]
  /\ integration = [status |-> "ABSENT", count |-> 0]
  /\ directory = "ABSENT"
  /\ scope = [u \in Subscriptions |-> "ABSENT"]
  /\ call = [c \in Callers |-> Rest]
  /\ recent = {}
  /\ lost = {}

-----------------------------------------------------------------------------
(* Sessions.                                                               *)

Start(s) ==
  /\ session[s] = "ABSENT"
  /\ session' = [session EXCEPT ![s] = "STARTED"]
  /\ UNCHANGED <<integration, directory, scope, call, recent, lost>>

TurnsDue(s) ==
  /\ session[s] = "STARTED"
  /\ session' = [session EXCEPT ![s] = "DUE"]
  /\ UNCHANGED <<integration, directory, scope, call, recent, lost>>

SessionLocked(s) == \E c \in Callers : At(c, "locked") /\ call[c].session = s

\* The script that expires sessions: one UPDATE, which waits for their locks.
Expire ==
  /\ \E s \in Sessions : session[s] = "DUE"
  /\ \A s \in Sessions : session[s] = "DUE" => ~SessionLocked(s)
  /\ session' = [s \in Sessions |-> IF session[s] = "DUE" THEN "EXPIRED" ELSE session[s]]
  /\ UNCHANGED <<integration, directory, scope, call, recent, lost>>

\* The retention sweep: old sessions that have ended.
Sweep(s) ==
  /\ session[s] \in Ends
  /\ ~SessionLocked(s)
  /\ session' = [session EXCEPT ![s] = "DELETED"]
  /\ UNCHANGED <<integration, directory, scope, call, recent, lost>>

-----------------------------------------------------------------------------
(* handleCallback, with a state that carries a valid signature.            *)

\* Mutant: the session is read without FOR UPDATE.
SelectUnlocked(c, s) ==
  /\ At(c, "idle")
  /\ session[s] \notin {"ABSENT", "DELETED"}
  /\ call' = [call EXCEPT ![c] = [Rest EXCEPT !.point = "locked", !.session = s,
                                              !.read = session[s]]]
  /\ UNCHANGED <<tables, recent, lost>>

SelectForUpdate(c, s) ==
  /\ At(c, "idle")
  /\ session[s] \notin {"ABSENT", "DELETED"}
  /\ ~SessionLocked(s)
  /\ call' = [call EXCEPT ![c] = [Rest EXCEPT !.point = "locked", !.session = s,
                                              !.read = session[s]]]
  /\ UNCHANGED <<tables, recent, lost>>

\* Already consumed, or expired: the exception rolls back.
Refused(c) ==
  /\ At(c, "locked")
  /\ call[c].read # "STARTED"
  /\ Return(c)
  /\ UNCHANGED <<tables, recent, lost>>

\* Microsoft reports an error, no consent or no tenant.
Denied(c) ==
  /\ At(c, "locked")
  /\ call[c].read = "STARTED"
  /\ session' = [session EXCEPT ![call[c].session] = "FAILED"]
  /\ Return(c)
  /\ UNCHANGED <<integration, directory, scope, recent, lost>>

\* upsertTenantScope, for the row of the tenant.
ConsentScope == directory' = "CONSENTED"

\* upsertIntegration, which keeps the count of a row, upsertTenantScope and
\* the session, committed together.
Granted(c) ==
  /\ At(c, "locked")
  /\ call[c].read = "STARTED"
  /\ integration' = [integration EXCEPT !.status = "CONSENTED"]
  /\ ConsentScope
  /\ session' = [session EXCEPT ![call[c].session] = "VERIFYING"]
  /\ call' = [call EXCEPT ![c].point = "discover", ![c].read = "none"]
  /\ UNCHANGED <<scope, recent, lost>>

\* A statement of the callback's transaction fails, or its process dies.
CallbackAborts(c) ==
  /\ At(c, "locked")
  /\ Return(c)
  /\ UNCHANGED <<tables, recent, lost>>

\* reverifyTenant: refreshSubscriptions without a session.
Reverify(c) ==
  /\ At(c, "idle")
  /\ integration.status # "ABSENT"
  /\ call' = [call EXCEPT ![c] = [Rest EXCEPT !.point = "discover"]]
  /\ UNCHANGED <<tables, recent, lost>>

-----------------------------------------------------------------------------
(* refreshSubscriptions.                                                   *)

\* The token and the list, outside of any transaction.
Discover(c) ==
  /\ At(c, "discover")
  /\ \E found \in SUBSET Subscriptions :
       call' = [call EXCEPT ![c].point = "mark", ![c].found = found]
  /\ UNCHANGED <<tables, recent, lost>>

DiscoverFails(c) ==
  /\ At(c, "discover")
  /\ Fails(c)
  /\ UNCHANGED <<tables, recent, lost>>

\* Mutant: only rows that are still active are looked for among those found.
MarkOnlyFound(c) == {u \in call[c].found : scope[u] \in {"VERIFIED", "STALE"}}
\* WHERE source = 'admin_consent', with the rows committed when it starts.
Marked(c) == {u \in Subscriptions : scope[u] \in {"VERIFIED", "STALE"}}

\* From here on the transactions of others overlap this one.
MarkStale(c) ==
  /\ At(c, "mark")
  /\ call' = [d \in Callers |->
       CASE d = c ->
              [call[c] EXCEPT !.point = "marking", !.seen = Marked(c),
                 !.sole = \A e \in Callers \ {c} : call[e].point \notin InTransaction]
         [] OTHER -> [call[d] EXCEPT !.sole = FALSE]]
  /\ UNCHANGED <<tables, recent, lost>>

\* The rows it waited for are marked if they still come from the consent.
MarkStaleEnds(c) ==
  /\ At(c, "marking")
  /\ \A u \in call[c].seen : ~RowLocked(c, u)
  /\ call' = [call EXCEPT ![c].point = "upsert", ![c].seen = {},
                          ![c].stale = {u \in call[c].seen : scope[u] \in {"VERIFIED", "STALE"}}]
  /\ UNCHANGED <<tables, recent, lost>>

UpsertScope(c, u) ==
  /\ At(c, "upsert")
  /\ u \in call[c].found \ call[c].written
  /\ ~RowLocked(c, u)
  /\ call' = [call EXCEPT ![c].written = @ \cup {u}]
  /\ UNCHANGED <<tables, recent, lost>>

\* Mutant: ON CONFLICT leaves is_active and status as they are.
WrittenInactive(c) ==
  [u \in Subscriptions |->
     CASE u \in call[c].written \ call[c].stale -> "VERIFIED"
       [] u \in call[c].stale -> "STALE"
       [] OTHER -> scope[u]]

Written(c) ==
  [u \in Subscriptions |->
     CASE u \in call[c].written -> "VERIFIED"
       [] u \in call[c].stale \ call[c].written -> "STALE"
       [] OTHER -> scope[u]]

\* Mutant: the status of the integration is stored in the session as well.
EndSessionAs(c, status) ==
  session' = [s \in Sessions |->
    IF s = call[c].session
    THEN IF status = "COMPLETED" THEN "ACTIVE" ELSE "NEEDS_RBAC" ELSE session[s]]

EndSession(c, status) ==
  session' = [s \in Sessions |->
    IF s = call[c].session /\ session[s] # "DELETED" THEN status ELSE session[s]]

\* The integration and the session are updated and the transaction commits.
\* A reply that is lost makes the call go on as if it had failed.
Commit(c) ==
  /\ At(c, "upsert")
  /\ call[c].written = call[c].found
  /\ scope' = Written(c)
  /\ integration' = [status |-> IF call[c].found = {} THEN "NEEDS_RBAC" ELSE "ACTIVE",
                     count |-> Cardinality(call[c].found)]
  /\ EndSession(c, IF call[c].found = {} THEN "ACTION_REQUIRED" ELSE "COMPLETED")
  /\ recent' = IF call[c].sole THEN call[c].found ELSE recent \cup call[c].found
  /\ Return(c) \/ Fails(c)
  /\ UNCHANGED <<directory, lost>>

\* A statement fails: no connection, a timeout, a deadlock.
RefreshFails(c) ==
  /\ call[c].point \in {"mark"} \cup InTransaction
  /\ Fails(c)
  /\ UNCHANGED <<tables, recent, lost>>

\* Mutant: a verification that fails leaves the session for the next one.
RecordForIntegration(c) ==
  /\ At(c, "failed")
  /\ integration' = [integration EXCEPT !.status = "NEEDS_RBAC"]
  /\ Return(c)
  /\ UNCHANGED <<session, directory, scope, recent, lost>>

\* The second transaction: neither the scopes nor the count are changed.
RecordFailure(c) ==
  /\ At(c, "failed")
  /\ integration' = [integration EXCEPT !.status = "NEEDS_RBAC"]
  /\ EndSession(c, "ACTION_REQUIRED")
  /\ Return(c)
  /\ UNCHANGED <<directory, scope, recent, lost>>

\* It fails too, or the call has died, or lost the reply of its commit, after
\* the callback's transaction.
Lost(c) ==
  /\ call[c].point \in {"discover", "mark", "failed"} \cup InTransaction
  /\ Return(c)
  /\ lost' = lost \cup ({call[c].session} \ {None})
  /\ UNCHANGED <<tables, recent>>

\* register-tenant-scope.js, for the tenant and some subscriptions.
Register(subs) ==
  /\ \A u \in subs, c \in Callers : ~RowLocked(c, u)
  /\ directory' = "VERIFIED"
  /\ scope' = [u \in Subscriptions |-> IF u \in subs THEN "MANUAL" ELSE scope[u]]
  /\ UNCHANGED <<session, integration, call, recent, lost>>

-----------------------------------------------------------------------------
\* What a call does by itself; every statement ends, or fails.
Step(c) ==
  \/ Refused(c) \/ Denied(c) \/ Granted(c) \/ CallbackAborts(c)
  \/ Discover(c) \/ DiscoverFails(c)
  \/ MarkStale(c) \/ MarkStaleEnds(c)
  \/ \E u \in Subscriptions : UpsertScope(c, u)
  \/ Commit(c) \/ RefreshFails(c) \/ RecordFailure(c)

Next ==
  \/ \E s \in Sessions : Start(s) \/ TurnsDue(s) \/ Sweep(s)
  \/ Expire
  \/ \E c \in Callers : \/ \E s \in Sessions : SelectForUpdate(c, s)
                        \/ Reverify(c)
                        \/ Step(c)
                        \/ Lost(c)
  \/ \E subs \in SUBSET Subscriptions : Register(subs)

Spec == Init /\ [][Next]_vars

\* A call that is not lost goes on: its requests to Azure have timeouts, and
\* the database breaks the deadlocks of its statements.
FairSpec == Spec /\ \A c \in Callers : WF_vars(Step(c))

-----------------------------------------------------------------------------
(* Properties.                                                             *)

\* Types of the rows and of the calls.
TypeOK ==
  /\ session \in [Sessions -> SessionStatus]
  /\ integration \in [status : {"ABSENT", "CONSENTED", "ACTIVE", "NEEDS_RBAC"},
                      count : 0..Cardinality(Subscriptions)]
  /\ directory \in {"ABSENT", "CONSENTED", "VERIFIED"}
  /\ scope \in [Subscriptions -> Scopes]
  /\ call \in [Callers -> Calls]
  /\ recent \subseteq Subscriptions
  /\ lost \subseteq Sessions

\* However verifications overlap, an active row of the consent was found by
\* the last one that ran alone or by one since.
ActiveWasFound == Consented \subseteq recent

\* What the status page counts as verified is authorized, whatever others
\* marked meanwhile and whether or not the last verification failed.
CountCovered ==
  /\ integration.count <= Cardinality(Authorized)
  /\ integration.status = "ACTIVE" => Authorized # {}

\* A session is consumed once: it leaves STARTED for one end or for one
\* verification, and whoever ends it never sends it back.
Moves == {<<"ABSENT", "STARTED">>, <<"STARTED", "DUE">>, <<"DUE", "EXPIRED">>,
          <<"STARTED", "VERIFYING">>, <<"DUE", "VERIFYING">>,
          <<"STARTED", "FAILED">>, <<"DUE", "FAILED">>,
          <<"VERIFYING", "COMPLETED">>, <<"VERIFYING", "ACTION_REQUIRED">>,
          <<"COMPLETED", "ACTION_REQUIRED">>} \cup (Ends \X {"DELETED"})

ConsumedOnce ==
  [][\A s \in Sessions : session'[s] = session[s] \/ <<session[s], session'[s]>> \in Moves]_vars

\* A session whose state was accepted gets an answer, unless its call is lost.
SessionsSettle ==
  \A s \in Sessions : session[s] = "VERIFYING" ~> (session[s] # "VERIFYING" \/ s \in lost)

=============================================================================
