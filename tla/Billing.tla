------------------------------ MODULE Billing ------------------------------
(***************************************************************************)
(* The monthly billing snapshots: every call that refreshes one from the   *)
(* ledger (a scan request, the billing overview, the backfill of settled   *)
(* scans), the closing of a month, and the worker and the retention sweep  *)
(* that change the ledger and the scans meanwhile.                         *)
(*                                                                         *)
(* A snapshot holds the ledger entries it was summed from: each of its     *)
(* columns is a sum over them.  Transactions are READ COMMITTED: a         *)
(* statement sees what is committed when it starts and what its own        *)
(* transaction wrote; a written row is locked until the transaction ends.  *)
(***************************************************************************)
EXTENDS Naturals, FiniteSets

CONSTANTS
  Tenants,
  Scans,      (* scan ids                                                  *)
  TenantOf,   (* the tenant of each                                        *)
  Legacy,     (* those an older release ended without settling             *)
  Callers,    (* concurrent calls and scripts                              *)
  MaxMonth,   (* bound on the calendar                                     *)
  None

Months == 1..MaxMonth

ASSUME MonthsAssumption == MaxMonth \in Nat \ {0}
ASSUME ScansAssumption == TenantOf \in [Scans -> Tenants] /\ Legacy \subseteq Scans
ASSUME NoneAssumption == None \notin Scans \cup Callers

VARIABLES
  month,      (* the current month                                         *)
  scan,       (* table scans: status, billing_state, quota_month           *)
  ledger,     (* table billing_usage_ledger: the committed entries, each   *)
              (* with the script that wrote it, so that two entries differ *)
  snapshot,   (* table billing_monthly_snapshots, by tenant and month      *)
  call        (* what each caller is doing                                 *)

vars == <<month, scan, ledger, snapshot, call>>

Settlements == {"scan_consumed", "scan_refunded"}
Entries == [scan : Scans, event : {"scan_reserved"} \cup Settlements, month : Months,
            by : Callers \cup {None}]
Entry(s, event, m, by) == [scan |-> s, event |-> event, month |-> m, by |-> by]

SnapshotRows == [status : {"ABSENT", "OPEN", "CLOSED"}, sum : SUBSET Entries]

Kinds == {"none", "request", "overview", "backfill", "close"}
Points == {"idle", "found", "sum", "write", "commit", "update", "answered"}

(* floor and late: the entries of its tenant and month, and whether that   *)
(* month was closed, as a call or the transaction of a backfill began.     *)
Calls == [kind : Kinds, point : Points, tenant : Tenants \cup {None}, month : Months,
          scan : Scans \cup {None}, status : {"DONE", "FAILED"}, own : SUBSET Entries,
          sum : SUBSET Entries, rows : SUBSET Tenants,
          floor : SUBSET Entries, late : BOOLEAN]

Rest == [kind |-> "none", point |-> "idle", tenant |-> None, month |-> 1, scan |-> None,
         status |-> "DONE", own |-> {}, sum |-> {}, rows |-> {}, floor |-> {}, late |-> FALSE]

At(c, point) == call[c].point = point
Continue(c, next) == call' = [call EXCEPT ![c] = next]
GoTo(c, point) == call' = [call EXCEPT ![c].point = point]
Ends(c) == Continue(c, Rest)

Of(t, m, entries) == {e \in entries : TenantOf[e.scan] = t /\ e.month = m}
IsClosed(m) == \E t \in Tenants : snapshot[t][m].status = "CLOSED"

\* A call begins and remembers what was so at that time.
Begins(kind, t, m) ==
  [Rest EXCEPT !.kind = kind, !.tenant = t, !.month = m, !.point = "sum",
               !.floor = Of(t, m, ledger), !.late = IsClosed(m)]

-----------------------------------------------------------------------------
(* Locks, held to the end of the transaction.                              *)

\* pg_advisory_xact_lock of a tenant's month, taken by scan requests only.
MonthLocked(t, m) ==
  \E c \in Callers : /\ call[c].kind = "request"
                     /\ call[c].tenant = t /\ call[c].month = m

\* The row of a snapshot, from the upsert to the commit.
RowLocked(t, m) ==
  \E c \in Callers : At(c, "commit") /\ call[c].tenant = t /\ call[c].month = m

\* The row of a scan that a backfill has updated.
ScanLocked(s) ==
  \E c \in Callers : /\ call[c].kind = "backfill" /\ call[c].scan = s
                     /\ call[c].point \in {"sum", "write", "commit"}

-----------------------------------------------------------------------------
Init ==
  /\ month = 1
  /\ scan \in [Scans -> [status : {"ABSENT", "DONE", "FAILED"}, billing : {"RESERVED"},
                         month : {1}]]
  /\ \A s \in Scans : scan[s].status = "ABSENT" <=> s \notin Legacy
  /\ ledger = {Entry(s, "scan_reserved", 1, None) : s \in Legacy}
  /\ snapshot = [t \in Tenants |-> [m \in Months |-> [status |-> "ABSENT", sum |-> {}]]]
  /\ call = [c \in Callers |-> Rest]

\* createScanRequest past its checks: the scan and its reservation are
\* inserted, under the lock of the month.
Request(c, s) ==
  /\ At(c, "idle")
  /\ scan[s].status = "ABSENT"
  /\ \A d \in Callers : ~(call[d].kind = "request" /\ call[d].scan = s)
  /\ ~MonthLocked(TenantOf[s], month)
  /\ Continue(c, [Begins("request", TenantOf[s], month) EXCEPT
       !.scan = s,
       !.own = {Entry(s, "scan_reserved", month, None)}])
  /\ UNCHANGED <<month, scan, ledger, snapshot>>

\* getTenantBillingOverview: the current month, without its lock.
Overview(c, t) ==
  /\ At(c, "idle")
  /\ Continue(c, Begins("overview", t, month))
  /\ UNCHANGED <<month, scan, ledger, snapshot>>

-----------------------------------------------------------------------------
(* The backfill script: candidates are found by a query without a lock,    *)
(* and settled one by one later.                                           *)

FinalEvent(status) == IF status = "DONE" THEN "scan_consumed" ELSE "scan_refunded"
\* Mutant: the event is stored as the state.
FinalStateByEvent(status) == FinalEvent(status)
FinalState(status) == IF status = "DONE" THEN "CONSUMED" ELSE "REFUNDED"
Has(s, events) == \E e \in ledger : e.scan = s /\ e.event \in events

FindCandidates(c, s) ==
  /\ At(c, "idle")
  /\ scan[s].status \in {"DONE", "FAILED"}
  /\ scan[s].billing = "RESERVED"
  /\ ~Has(s, Settlements)
  /\ Continue(c, [Rest EXCEPT !.point = "found", !.kind = "backfill", !.scan = s,
                              !.tenant = TenantOf[s], !.month = scan[s].month,
                              !.status = scan[s].status])
  /\ UNCHANGED <<month, scan, ledger, snapshot>>

\* INSERT ... WHERE NOT EXISTS an entry of the scan and the type.
Inserted(c) ==
  IF Has(call[c].scan, {FinalEvent(call[c].status)}) THEN {}
  ELSE {Entry(call[c].scan, FinalEvent(call[c].status), call[c].month, c)}

\* UPDATE ... WHERE billing_state = 'RESERVED' AND status = $3, with the
\* row as it is once its lock is granted.
StillCandidate(c) ==
  /\ scan[call[c].scan].billing = "RESERVED"
  /\ scan[call[c].scan].status = call[c].status

\* Mutant: the row is settled as the query found it.
ApplyAsFound(c) ==
  /\ At(c, "found")
  /\ ~ScanLocked(call[c].scan)
  /\ Continue(c, [call[c] EXCEPT
       !.point = "sum", !.late = IsClosed(call[c].month),
       !.floor = Of(call[c].tenant, call[c].month, ledger),
       !.own = {Entry(call[c].scan, FinalEvent(call[c].status), call[c].month, c)}])
  /\ UNCHANGED <<month, scan, ledger, snapshot>>

ApplyCandidate(c) ==
  /\ At(c, "found")
  /\ ~ScanLocked(call[c].scan)
  /\ StillCandidate(c)
  /\ Continue(c, [call[c] EXCEPT
       !.point = "sum", !.late = IsClosed(call[c].month),
       !.floor = Of(call[c].tenant, call[c].month, ledger),
       !.own = Inserted(c)])
  /\ UNCHANGED <<month, scan, ledger, snapshot>>

SkipCandidate(c) ==
  /\ At(c, "found")
  /\ ~ScanLocked(call[c].scan)
  /\ ~StillCandidate(c)
  /\ Ends(c)
  /\ UNCHANGED <<month, scan, ledger, snapshot>>

-----------------------------------------------------------------------------
(* upsertSnapshot: the sums in one statement, the row in the next.         *)

\* Mutant: the statement reads the current month, the upsert writes the call's.
AggregateCurrent(c) ==
  /\ At(c, "sum")
  /\ Continue(c, [call[c] EXCEPT
       !.point = "write", !.sum = Of(call[c].tenant, month, ledger \cup call[c].own)])
  /\ UNCHANGED <<month, scan, ledger, snapshot>>

Aggregate(c) ==
  /\ At(c, "sum")
  /\ Continue(c, [call[c] EXCEPT
       !.point = "write", !.sum = Of(call[c].tenant, call[c].month, ledger \cup call[c].own)])
  /\ UNCHANGED <<month, scan, ledger, snapshot>>

\* INSERT ... ON CONFLICT DO UPDATE waits for the row's lock.
UpsertSnapshot(c) ==
  /\ At(c, "write")
  /\ ~RowLocked(call[c].tenant, call[c].month)
  /\ GoTo(c, "commit")
  /\ UNCHANGED <<month, scan, ledger, snapshot>>

\* Mutant: the status is one of the columns of DO UPDATE SET.
RefreshedReopens(row, sum) == [status |-> "OPEN", sum |-> sum]

Refreshed(row, sum) ==
  [status |-> IF row.status = "ABSENT" THEN "OPEN" ELSE row.status, sum |-> sum]

CommitSnapshot(c) ==
  snapshot' = [snapshot EXCEPT ![call[c].tenant][call[c].month] = Refreshed(@, call[c].sum)]

CommitScan(c) ==
  CASE call[c].kind = "request" ->
         scan' = [scan EXCEPT ![call[c].scan] =
                    [status |-> "ACTIVE", billing |-> "RESERVED", month |-> call[c].month]]
    [] call[c].kind = "backfill" ->
         scan' = [scan EXCEPT ![call[c].scan].billing = FinalState(call[c].status)]
    [] OTHER -> UNCHANGED scan

\* Mutant: the overview shows the snapshot it found, and refreshes it.
ShownBefore(c) == snapshot[call[c].tenant][call[c].month].sum

\* The SELECT after the upsert, in its transaction.
Shown(c) == call[c].sum

\* The overview returns what it has shown; the others return no sums.
Answers(c) ==
  IF call[c].kind = "overview"
  THEN Continue(c, [call[c] EXCEPT !.point = "answered", !.sum = Shown(c)])
  ELSE Ends(c)

Commit(c) ==
  /\ At(c, "commit")
  /\ CommitSnapshot(c)
  /\ CommitScan(c)
  /\ ledger' = ledger \cup call[c].own
  /\ Answers(c)
  /\ UNCHANGED month

Return(c) ==
  /\ At(c, "answered")
  /\ Ends(c)
  /\ UNCHANGED <<month, scan, ledger, snapshot>>

\* Any statement fails, or the process dies: the transaction is undone.
Abort(c) ==
  /\ call[c].point \in {"found", "sum", "write", "commit", "update"}
  /\ Ends(c)
  /\ UNCHANGED <<month, scan, ledger, snapshot>>

-----------------------------------------------------------------------------
(* closeBillingMonth.                                                      *)

Present(m) == {t \in Tenants : snapshot[t][m].status # "ABSENT"}

\* Mutant: the month being used may be closed.
ClosableCurrent(m) == m <= month /\ Present(m) # {} /\ ~IsClosed(m)

\* completedOnly, a snapshot to close, none closed yet.
Closable(m) == m < month /\ Present(m) # {} /\ ~IsClosed(m)

CloseMonth(c, m) ==
  /\ At(c, "idle")
  /\ Closable(m)
  /\ Continue(c, [Rest EXCEPT !.kind = "close", !.month = m, !.rows = Present(m),
                              !.point = "update"])
  /\ UNCHANGED <<month, scan, ledger, snapshot>>

\* One UPDATE of the month's rows; it waits for those that are locked, and
\* sees or misses the ones committed since the counts were taken.
CloseRows(c) ==
  /\ At(c, "update")
  /\ \E rows \in SUBSET Present(call[c].month) :
       /\ call[c].rows \subseteq rows
       /\ \A t \in rows : ~RowLocked(t, call[c].month)
       /\ snapshot' = [t \in Tenants |->
            IF t \in rows THEN [snapshot[t] EXCEPT ![call[c].month].status = "CLOSED"]
            ELSE snapshot[t]]
  /\ Ends(c)
  /\ UNCHANGED <<month, scan, ledger>>

-----------------------------------------------------------------------------
(* What others do.                                                         *)

\* The worker ends a scan: status, state and entry in one transaction.
ScanEnds(s, status) ==
  /\ scan[s].status = "ACTIVE"
  /\ scan' = [scan EXCEPT ![s].status = status, ![s].billing = FinalState(status)]
  /\ ledger' = ledger \cup {Entry(s, FinalEvent(status), scan[s].month, None)}
  /\ UNCHANGED <<month, snapshot, call>>

\* The retention sweep; entries of the ledger outlive their scan.
Sweep(s) ==
  /\ scan[s].status \in {"DONE", "FAILED"}
  /\ ~ScanLocked(s)
  /\ scan' = [scan EXCEPT ![s].status = "DELETED"]
  /\ UNCHANGED <<month, ledger, snapshot, call>>

NextMonth ==
  /\ month < MaxMonth
  /\ month' = month + 1
  /\ UNCHANGED <<scan, ledger, snapshot, call>>

Step(c) ==
  \/ \E s \in Scans : Request(c, s)
  \/ \E t \in Tenants : Overview(c, t)
  \/ \E s \in Scans : FindCandidates(c, s)
  \/ ApplyCandidate(c)
  \/ SkipCandidate(c)
  \/ Aggregate(c)
  \/ UpsertSnapshot(c)
  \/ Commit(c)
  \/ Return(c)
  \/ Abort(c)
  \/ \E m \in Months : CloseMonth(c, m)
  \/ CloseRows(c)

Next ==
  \/ \E c \in Callers : Step(c)
  \/ \E s \in Scans, status \in {"DONE", "FAILED"} : ScanEnds(s, status)
  \/ \E s \in Scans : Sweep(s)
  \/ NextMonth

Spec == Init /\ [][Next]_vars

-----------------------------------------------------------------------------
(* Properties.                                                             *)

\* Types of the rows and of the calls.
TypeOK ==
  /\ month \in Months
  /\ scan \in [Scans -> [status : {"ABSENT", "ACTIVE", "DONE", "FAILED", "DELETED"},
                         billing : {"RESERVED", "CONSUMED", "REFUNDED"}, month : Months]]
  /\ ledger \subseteq Entries
  /\ snapshot \in [Tenants -> [Months -> SnapshotRows]]
  /\ call \in [Callers -> Calls]

\* An ended scan is settled once, and as it ended, whoever settles it: the
\* worker, or one of several backfills that found it at the same time.
SettledOnce ==
  \A s \in Scans :
    /\ Has(s, Settlements) <=> scan[s].billing # "RESERVED"
    /\ scan[s].status \in {"ABSENT", "ACTIVE"} => scan[s].billing = "RESERVED"
    /\ scan[s].status \in {"DONE", "FAILED"} /\ scan[s].billing # "RESERVED" =>
         /\ scan[s].billing = FinalState(scan[s].status)
         /\ Has(s, {FinalEvent(scan[s].status)})
    /\ \A e, f \in {g \in ledger : g.scan = s /\ g.event \in Settlements} : e = f

\* The overview refreshes without the lock of the month, so a snapshot may go back
\* to older sums; but an entry it has shown is only lost to a call that had begun
\* before the entry was committed, never to one that began after it.
OlderSumsOverlap ==
  [][\A t \in Tenants, m \in Months :
       \A e \in snapshot[t][m].sum \ snapshot'[t][m].sum :
         \E c \in Callers : /\ At(c, "commit") /\ call'[c].point # "commit"
                           /\ call[c].tenant = t /\ call[c].month = m
                           /\ e \notin call[c].floor]_vars

\* The overview shows every entry committed before it was called, and none
\* that was not committed when it answered.
OverviewInWindow ==
  [][\A c \in Callers : At(c, "commit") /\ call'[c].point = "answered" =>
       /\ call[c].floor \subseteq call'[c].sum
       /\ call'[c].sum \subseteq Of(call[c].tenant, call[c].month, ledger')]_vars

\* A snapshot that is CLOSED stays so, and its sums change only through the
\* backfill or a call that had begun before the month was closed.
ClosedMonthSettles ==
  [][\A t \in Tenants, m \in Months : snapshot[t][m].status = "CLOSED" =>
       /\ snapshot'[t][m].status = "CLOSED"
       /\ snapshot'[t][m].sum # snapshot[t][m].sum =>
            \E c \in Callers : /\ At(c, "commit") /\ call'[c].point # "commit"
                              /\ call[c].tenant = t /\ call[c].month = m
                              /\ (call[c].kind = "backfill" \/ ~call[c].late)]_vars

=============================================================================
