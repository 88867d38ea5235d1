--------------------------- MODULE BillingProofs ---------------------------
(* Theorems about Billing and their proofs.                                *)
EXTENDS Billing, TLAPS

Refreshing == {"sum", "write", "commit"}
Settles(k) == k.kind = "backfill" /\ k.point \in Refreshing

\* What a call in state k is about.
SubjectOf(k) ==
  /\ k.point \in Refreshing =>
       k.kind \in {"request", "overview", "backfill"} /\ k.tenant \in Tenants
  /\ k.point = "found" => k.kind = "backfill" /\ k.tenant \in Tenants
  /\ k.kind \in {"request", "backfill"} => k.scan \in Scans
  /\ k.kind = "overview" => k.own = {}
  /\ k.kind = "close" => k.month < month
  /\ k.point = "update" => k.kind = "close"
  /\ k.late => k.kind = "backfill"

\* A request's scan does not exist yet.
RequestOf(k) ==
  k.kind = "request" =>
    /\ scan[k.scan].status = "ABSENT"
    /\ k.own = {Entry(k.scan, "scan_reserved", k.month, None)}

\* A backfill holds its scan, which is not settled, as the query found it.
BackfillOf(c, k) ==
  Settles(k) =>
    /\ scan[k.scan].billing = "RESERVED"
    /\ scan[k.scan].status = k.status
    /\ k.own = {Entry(k.scan, FinalEvent(k.status), k.month, c)}

\* The sums a call is about to store are of committed entries and its own.
SumOf(k) ==
  /\ k.point \in Refreshing => k.floor \subseteq Of(k.tenant, k.month, ledger)
  /\ k.point \in {"write", "commit"} =>
       /\ k.sum \subseteq Of(k.tenant, k.month, ledger \cup k.own)
       /\ k.floor \subseteq k.sum

\* Two calls do not store, and do not settle, the same scan.
Apart(j, k) ==
  /\ j.kind = "request" /\ k.kind = "request" => j.scan # k.scan
  /\ Settles(j) /\ Settles(k) => j.scan # k.scan

CallOK(c, k) == SubjectOf(k) /\ RequestOf(k) /\ BackfillOf(c, k) /\ SumOf(k)

CallInv ==
  /\ \A c \in Callers : CallOK(c, call[c])
  /\ \A c, d \in Callers : c # d => Apart(call[c], call[d])

ClosedInv ==
  \A t \in Tenants, m \in Months : snapshot[t][m].status = "CLOSED" => m < month

\* A snapshot sums entries of its tenant and month that were committed: the
\* transactions that are undone, as that of a blocked request, leave no trace.
SumsCommitted ==
  \A t \in Tenants, m \in Months : snapshot[t][m].sum \subseteq Of(t, m, ledger)

Inv == TypeOK /\ CallInv /\ SettledOnce /\ SumsCommitted /\ ClosedInv

-----------------------------------------------------------------------------
LEMMA MonthsFacts == Months \subseteq Nat /\ 1 \in Months
BY MonthsAssumption DEF Months

LEMMA RestFacts == Rest \in Calls /\ \A c \in Callers : CallOK(c, Rest)
<1>1. Rest \in Calls
  BY MonthsFacts DEF Rest, Calls, Kinds, Points
<1>2. ASSUME NEW c \in Callers PROVE CallOK(c, Rest)
  BY DEF Rest, CallOK, SubjectOf, RequestOf, BackfillOf, SumOf, Settles, Refreshing
<1>. QED BY <1>1, <1>2

LEMMA RestApart == \A k \in Calls : Apart(Rest, k) /\ Apart(k, Rest)
BY DEF Rest, Apart, Settles

\* A step that changes one call, and no row, to a state that is as it should be.
LEMMA CallStep ==
  ASSUME Inv, NEW c \in Callers, NEW k \in Calls, CallOK(c, k),
         \A d \in Callers \ {c} : Apart(call[d], k) /\ Apart(k, call[d]),
         call' = [call EXCEPT ![c] = k], UNCHANGED <<month, scan, ledger, snapshot>>
  PROVE  Inv'
<1>1. TypeOK'
  BY DEF Inv, TypeOK
<1>2. call \in [Callers -> Calls]
  BY DEF Inv, TypeOK
<1>3. \A d \in Callers : call'[d] = IF d = c THEN k ELSE call[d]
  BY <1>2
<1>5. ASSUME NEW d \in Callers PROVE CallOK(d, call[d])'
  <2>1. CallOK(d, call'[d])
    BY <1>3 DEF Inv, CallInv
  <2>2. month' = month /\ scan' = scan /\ ledger' = ledger
    OBVIOUS
  <2>. QED BY <2>1, <2>2 DEF CallOK, SubjectOf, RequestOf, BackfillOf, SumOf, Settles, Entry
<1>6. ASSUME NEW d \in Callers, NEW e \in Callers, d # e PROVE Apart(call[d], call[e])'
  <2>1. Apart(call'[d], call'[e])
    BY <1>3, <1>6 DEF Inv, CallInv
  <2>. QED BY <2>1 DEF Apart, Settles
<1>7. SettledOnce' /\ SumsCommitted' /\ ClosedInv'
  BY DEF Inv, SettledOnce, SumsCommitted, ClosedInv, Has
<1>. QED BY <1>1, <1>5, <1>6, <1>7 DEF Inv, CallInv

\* A call that ends leaves nothing to keep.
LEMMA EndStep ==
  ASSUME Inv, NEW c \in Callers, Ends(c), UNCHANGED <<month, scan, ledger, snapshot>>
  PROVE  Inv'
<1>1. call \in [Callers -> Calls]
  BY DEF Inv, TypeOK
<1>. QED BY <1>1, CallStep, RestFacts, RestApart DEF Ends, Continue

-----------------------------------------------------------------------------
(* The steps that change a call only.                                      *)

LEMMA RequestStep ==
  ASSUME Inv, NEW c \in Callers, NEW s \in Scans, Request(c, s)
  PROVE  Inv'
<1>. DEFINE k == [Begins("request", TenantOf[s], month) EXCEPT
                    !.scan = s, !.own = {Entry(s, "scan_reserved", month, None)}]
<1>0. month \in Months /\ ledger \subseteq Entries
  BY DEF Inv, TypeOK
<1>7. Of(TenantOf[s], month, ledger) \in SUBSET Entries
  BY <1>0 DEF Of
<1>1. month \in Months /\ TenantOf[s] \in Tenants
  BY ScansAssumption DEF Inv, TypeOK
<1>2. IsClosed(month) = FALSE
  BY <1>1, MonthsFacts DEF Inv, ClosedInv, IsClosed
<1>3. Entry(s, "scan_reserved", month, None) \in Entries
  BY <1>1 DEF Entries, Entry
<1>4. /\ k \in Calls
      /\ k.kind = "request" /\ k.point = "sum" /\ k.tenant = TenantOf[s] /\ k.scan = s
      /\ k.own = {Entry(s, "scan_reserved", month, None)} /\ k.month = month
      /\ k.late = FALSE /\ k.floor = Of(TenantOf[s], month, ledger)
  <2>. HIDE DEF Entry
  <2>. QED BY <1>1, <1>2, <1>3, <1>7, RestFacts DEF Begins, Rest, Calls, Kinds, Points
<1>5. CallOK(c, k)
  BY <1>1, <1>4 DEF CallOK, SubjectOf, RequestOf, BackfillOf, SumOf, Settles, Request
<1>6. ASSUME NEW d \in Callers PROVE Apart(call[d], k) /\ Apart(k, call[d])
  BY <1>4 DEF Apart, Settles, Request
<1>. HIDE DEF k
<1>. QED BY <1>4, <1>5, <1>6, CallStep DEF Request, Continue, k

LEMMA OverviewStep ==
  ASSUME Inv, NEW c \in Callers, NEW t \in Tenants, Overview(c, t)
  PROVE  Inv'
<1>. DEFINE k == Begins("overview", t, month)
<1>1. month \in Months /\ ledger \subseteq Entries
  BY DEF Inv, TypeOK
<1>2. IsClosed(month) = FALSE
  BY <1>1, MonthsFacts DEF Inv, ClosedInv, IsClosed
<1>3. Of(t, month, ledger) \in SUBSET Entries
  BY <1>1 DEF Of
<1>4. /\ k \in Calls
      /\ k.kind = "overview" /\ k.point = "sum" /\ k.tenant = t /\ k.month = month
      /\ k.own = {} /\ k.floor = Of(t, month, ledger) /\ k.late = FALSE
  BY <1>1, <1>2, <1>3, RestFacts DEF Begins, Rest, Calls, Kinds, Points
<1>5. CallOK(c, k)
  BY <1>1, <1>4 DEF CallOK, SubjectOf, RequestOf, BackfillOf, SumOf, Settles
<1>6. ASSUME NEW d \in Callers PROVE Apart(call[d], k) /\ Apart(k, call[d])
  BY <1>4 DEF Apart, Settles
<1>. HIDE DEF k
<1>. QED BY <1>4, <1>5, <1>6, CallStep DEF Overview, Continue, k

LEMMA FindStep ==
  ASSUME Inv, NEW c \in Callers, NEW s \in Scans, FindCandidates(c, s)
  PROVE  Inv'
<1>. DEFINE k == [Rest EXCEPT !.point = "found", !.kind = "backfill", !.scan = s,
                    !.tenant = TenantOf[s], !.month = scan[s].month, !.status = scan[s].status]
<1>1. scan[s].month \in Months /\ TenantOf[s] \in Tenants
      /\ scan[s].status \in {"DONE", "FAILED"}
  BY ScansAssumption DEF Inv, TypeOK, FindCandidates
<1>2. /\ k \in Calls
      /\ k.kind = "backfill" /\ k.point = "found" /\ k.tenant = TenantOf[s] /\ k.scan = s
  BY <1>1, RestFacts DEF Rest, Calls, Kinds, Points
<1>4. CallOK(c, k)
  BY <1>1, <1>2 DEF CallOK, SubjectOf, RequestOf, BackfillOf, SumOf, Settles, Refreshing
<1>5. ASSUME NEW d \in Callers PROVE Apart(call[d], k) /\ Apart(k, call[d])
  BY <1>2 DEF Apart, Settles, Refreshing
<1>. HIDE DEF k
<1>. QED BY <1>2, <1>4, <1>5, CallStep DEF FindCandidates, Continue, k

LEMMA ApplyStep ==
  ASSUME Inv, NEW c \in Callers, ApplyCandidate(c)
  PROVE  Inv'
<1>. DEFINE s == call[c].scan
            floor == Of(call[c].tenant, call[c].month, ledger)
            k == [call[c] EXCEPT !.point = "sum", !.late = IsClosed(call[c].month),
                                 !.floor = floor,
                                 !.own = Inserted(c)]
<1>1. /\ call[c] \in Calls /\ CallOK(c, call[c]) /\ call[c].point = "found"
      /\ call[c].kind = "backfill" /\ s \in Scans
  BY DEF Inv, TypeOK, CallInv, ApplyCandidate, At, CallOK, SubjectOf
<1>2. ~Has(s, {FinalEvent(call[c].status)})
  <2>1. scan[s].billing = "RESERVED"
    BY DEF ApplyCandidate, StillCandidate
  <2>2. ~Has(s, Settlements)
    BY <1>1, <2>1 DEF Inv, SettledOnce
  <2>. QED BY <2>2 DEF Has, FinalEvent, Settlements
<1>3. Inserted(c) = {Entry(s, FinalEvent(call[c].status), call[c].month, c)}
  BY <1>2 DEF Inserted
<1>4. Inserted(c) \subseteq Entries
  BY <1>1, <1>3 DEF Entries, Entry, Settlements, FinalEvent, Calls
<1>5. /\ k \in Calls /\ k.kind = "backfill" /\ k.point = "sum" /\ k.scan = s
      /\ k.own = Inserted(c) /\ k.status = call[c].status /\ k.month = call[c].month
      /\ k.tenant = call[c].tenant /\ k.floor = floor
  <2>1. floor \in SUBSET Entries
    BY DEF Inv, TypeOK, Of
  <2>. HIDE DEF floor
  <2>. QED BY <1>1, <1>4, <2>1 DEF Calls, Points, IsClosed
<1>6. CallOK(c, k)
  <2>1. k.tenant \in Tenants
    BY <1>1, <1>5 DEF CallOK, SubjectOf
  <2>2. SubjectOf(k) /\ RequestOf(k) /\ SumOf(k)
    BY <1>1, <1>5, <2>1 DEF CallOK, SubjectOf, RequestOf, SumOf, Refreshing
  <2>3. BackfillOf(c, k)
    BY <1>3, <1>5 DEF BackfillOf, ApplyCandidate, StillCandidate
  <2>. QED BY <2>2, <2>3 DEF CallOK
<1>7. ASSUME NEW d \in Callers PROVE Apart(call[d], k) /\ Apart(k, call[d])
  BY <1>5 DEF Apart, Settles, Refreshing, ApplyCandidate, ScanLocked
<1>. HIDE DEF k
<1>. QED BY <1>5, <1>6, <1>7, CallStep DEF ApplyCandidate, Continue, k

LEMMA AggregateStep ==
  ASSUME Inv, NEW c \in Callers, Aggregate(c)
  PROVE  Inv'
<1>. DEFINE sum == Of(call[c].tenant, call[c].month, ledger \cup call[c].own)
            k == [call[c] EXCEPT !.point = "write", !.sum = sum]
<1>1. call[c] \in Calls /\ CallOK(c, call[c]) /\ call[c].point = "sum" /\ ledger \subseteq Entries
  BY DEF Inv, TypeOK, CallInv, Aggregate, At
<1>2. sum \subseteq Entries
  BY <1>1 DEF Of, Calls
<1>. HIDE DEF sum
<1>3. /\ k \in Calls /\ k.point = "write" /\ k.sum = sum
      /\ \A f \in {"kind", "tenant", "month", "scan", "status", "own", "floor", "late"} :
           k[f] = call[c][f]
  BY <1>1, <1>2 DEF Calls, Points
<1>4. SubjectOf(k)
  BY <1>1, <1>3 DEF CallOK, SubjectOf, Refreshing
<1>5. RequestOf(k) /\ BackfillOf(c, k)
  BY <1>1, <1>3 DEF CallOK, RequestOf, BackfillOf, Settles, Refreshing
<1>6. SumOf(k)
  <2>1. call[c].floor \subseteq sum
    BY <1>1 DEF CallOK, SumOf, sum, Of, Refreshing
  <2>. QED BY <1>1, <1>3, <2>1 DEF CallOK, SumOf, sum, Refreshing
<1>7. \A d \in Callers \ {c} : Apart(call[d], k) /\ Apart(k, call[d])
  BY <1>1, <1>3 DEF Inv, CallInv, Apart, Settles, Refreshing
<1>. HIDE DEF k
<1>. QED BY <1>3, <1>4, <1>5, <1>6, <1>7, CallStep DEF Aggregate, Continue, k, sum, CallOK

LEMMA UpsertStep ==
  ASSUME Inv, NEW c \in Callers, UpsertSnapshot(c)
  PROVE  Inv'
<1>. DEFINE k == [call[c] EXCEPT !.point = "commit"]
<1>1. /\ call \in [Callers -> Calls] /\ call[c] \in Calls /\ CallOK(c, call[c])
      /\ call[c].point = "write"
  BY DEF Inv, TypeOK, CallInv, UpsertSnapshot, At
<1>2. /\ k \in Calls /\ k.point = "commit"
      /\ \A f \in {"kind", "tenant", "month", "scan", "status", "own", "sum", "floor", "late"} :
           k[f] = call[c][f]
  BY <1>1 DEF Calls, Points
<1>3. SubjectOf(k) /\ RequestOf(k)
  BY <1>1, <1>2 DEF CallOK, SubjectOf, RequestOf, Refreshing
<1>4. BackfillOf(c, k) /\ SumOf(k)
  BY <1>1, <1>2 DEF CallOK, BackfillOf, SumOf, Settles, Refreshing
<1>5. \A d \in Callers \ {c} : Apart(call[d], k) /\ Apart(k, call[d])
  BY <1>1, <1>2 DEF Inv, CallInv, Apart, Settles, Refreshing
<1>6. call' = [call EXCEPT ![c] = k]
  BY <1>1 DEF UpsertSnapshot, GoTo
<1>. HIDE DEF k
<1>. QED BY <1>2, <1>3, <1>4, <1>5, <1>6, CallStep DEF UpsertSnapshot, CallOK

LEMMA CloseMonthStep ==
  ASSUME Inv, NEW c \in Callers, NEW m \in Months, CloseMonth(c, m)
  PROVE  Inv'
<1>. DEFINE k == [Rest EXCEPT !.kind = "close", !.month = m, !.rows = Present(m), !.point = "update"]
<1>1. Present(m) \in SUBSET Tenants
  BY DEF Present
<1>2. /\ k \in Calls
      /\ k.kind = "close" /\ k.point = "update" /\ k.month = m /\ k.late = FALSE
  BY <1>1, RestFacts DEF Rest, Calls, Kinds, Points
<1>3. CallOK(c, k)
  BY <1>2 DEF CallOK, SubjectOf, RequestOf, BackfillOf, SumOf, Settles, Refreshing,
              CloseMonth, Closable
<1>4. ASSUME NEW d \in Callers PROVE Apart(call[d], k) /\ Apart(k, call[d])
  BY <1>2 DEF Apart, Settles
<1>. HIDE DEF k
<1>. QED BY <1>2, <1>3, <1>4, CallStep DEF CloseMonth, Continue, k

-----------------------------------------------------------------------------
(* The steps that change rows.                                             *)

\* The first settlement of a scan, by the worker or by a backfill.
LEMMA Settlement ==
  ASSUME SettledOnce, NEW s \in Scans, NEW status \in {"DONE", "FAILED"}, NEW m, NEW by,
         scan[s].billing = "RESERVED",
         ledger' = ledger \cup {Entry(s, FinalEvent(status), m, by)},
         scan'[s].status = status, scan'[s].billing = FinalState(status),
         \A r \in Scans \ {s} : scan'[r] = scan[r]
  PROVE  SettledOnce'
<1>. DEFINE e == Entry(s, FinalEvent(status), m, by)
<1>1. e.scan = s /\ e.event = FinalEvent(status) /\ FinalEvent(status) \in Settlements
  BY DEF Entry, FinalEvent, Settlements
<1>2. FinalState(status) # "RESERVED"
  BY DEF FinalState
<1>. HIDE DEF e
<1>3. ledger' = ledger \cup {e}
  BY DEF e
<1>4. \A g \in ledger : ~(g.scan = s /\ g.event \in Settlements)
  BY DEF SettledOnce, Has
<1>5. ASSUME NEW r \in Scans
      PROVE  /\ (\E g \in ledger' : g.scan = r /\ g.event \in Settlements)
                <=> scan'[r].billing # "RESERVED"
             /\ scan'[r].status \in {"ABSENT", "ACTIVE"} => scan'[r].billing = "RESERVED"
             /\ scan'[r].status \in {"DONE", "FAILED"} /\ scan'[r].billing # "RESERVED" =>
                  /\ scan'[r].billing = FinalState(scan'[r].status)
                  /\ \E g \in ledger' : g.scan = r /\ g.event \in {FinalEvent(scan'[r].status)}
             /\ \A f, g \in {h \in ledger' : h.scan = r /\ h.event \in Settlements} : f = g
  <2>1. CASE r = s
    BY <1>1, <1>2, <1>3, <1>4, <2>1
  <2>2. CASE r # s
    <3>1. scan'[r] = scan[r]
      BY <2>2
    <3>2. \A h \in ledger' : h.scan = r => h \in ledger
      BY <1>1, <1>3, <2>2
    <3>3. ledger \subseteq ledger'
      BY <1>3
    <3>. QED BY <3>1, <3>2, <3>3 DEF SettledOnce, Has
  <2>. QED BY <2>1, <2>2
<1>. QED BY <1>5 DEF SettledOnce, Has

\* More entries, none of them a settlement, and scans that keep their state.
LEMMA NoSettlement ==
  ASSUME SettledOnce, NEW new, \A e \in new : e.event \notin Settlements,
         ledger' = ledger \cup new,
         \A s \in Scans : /\ scan'[s].billing = scan[s].billing
                          /\ \/ scan'[s].status = scan[s].status
                             \/ scan'[s].status = "DELETED"
                             \/ scan'[s].status = "ACTIVE" /\ scan[s].status = "ABSENT"
  PROVE  SettledOnce'
<1>1. \A h \in ledger' : h.event \in Settlements => h \in ledger
  OBVIOUS
<1>2. \A st : FinalEvent(st) \in Settlements
  BY DEF FinalEvent, Settlements
<1>3. ASSUME NEW s \in Scans
      PROVE  /\ (\E g \in ledger' : g.scan = s /\ g.event \in Settlements)
                <=> scan'[s].billing # "RESERVED"
             /\ scan'[s].status \in {"ABSENT", "ACTIVE"} => scan'[s].billing = "RESERVED"
             /\ scan'[s].status \in {"DONE", "FAILED"} /\ scan'[s].billing # "RESERVED" =>
                  /\ scan'[s].billing = FinalState(scan'[s].status)
                  /\ \E g \in ledger' : g.scan = s /\ g.event \in {FinalEvent(scan'[s].status)}
             /\ \A f, g \in {h \in ledger' : h.scan = s /\ h.event \in Settlements} : f = g
  BY <1>1, <1>2 DEF SettledOnce, Has
<1>. QED BY <1>3 DEF SettledOnce, Has

LEMMA OfGrows ==
  ASSUME NEW t, NEW m, NEW old, NEW new, old \subseteq new
  PROVE  Of(t, m, old) \subseteq Of(t, m, new)
BY DEF Of

\* A call's state stays as it should be while the ledger grows, if the scan it
\* is about is not changed.
LEMMA CallKept ==
  ASSUME NEW c \in Callers, NEW k, CallOK(c, k),
         month' \in Nat, month \in Nat, month <= month', k.month \in Nat,
         ledger \subseteq ledger',
         k.kind = "request" \/ Settles(k) => scan'[k.scan] = scan[k.scan]
  PROVE  /\ SubjectOf(k)' /\ RequestOf(k)' /\ BackfillOf(c, k)' /\ SumOf(k)'
<1>1. SubjectOf(k)'
  BY DEF CallOK, SubjectOf
<1>2. RequestOf(k)' /\ BackfillOf(c, k)'
  BY DEF CallOK, RequestOf, BackfillOf, Settles, Entry
<1>3. SumOf(k)'
  BY OfGrows DEF CallOK, SumOf
<1>. QED BY <1>1, <1>2, <1>3

\* A commit refreshes one snapshot.
LEMMA CommitRows ==
  ASSUME Inv, NEW c \in Callers, Commit(c)
  PROVE  /\ call[c].tenant \in Tenants /\ call[c].month \in Months
         /\ snapshot' \in [Tenants -> [Months -> SnapshotRows]]
         /\ snapshot'[call[c].tenant][call[c].month]
              = Refreshed(snapshot[call[c].tenant][call[c].month], call[c].sum)
         /\ \A u \in Tenants, n \in Months :
              <<u, n>> # <<call[c].tenant, call[c].month>> => snapshot'[u][n] = snapshot[u][n]
<1>. DEFINE k == call[c]  t == call[c].tenant  m == call[c].month
<1>1. k \in Calls /\ t \in Tenants /\ m \in Months
  BY DEF Inv, TypeOK, CallInv, Commit, At, CallOK, SubjectOf, Refreshing, Calls
<1>2. snapshot \in [Tenants -> [Months -> SnapshotRows]]
  BY DEF Inv, TypeOK
<1>3. Refreshed(snapshot[t][m], k.sum) \in SnapshotRows
  BY <1>1, <1>2 DEF Refreshed, SnapshotRows, Calls
<1>4. snapshot' = [snapshot EXCEPT ![t][m] = Refreshed(snapshot[t][m], k.sum)]
  BY DEF Commit, CommitSnapshot
<1>. QED BY <1>1, <1>2, <1>3, <1>4

LEMMA CommitStep ==
  ASSUME Inv, NEW c \in Callers, Commit(c)
  PROVE  Inv'
<1>. DEFINE k == call[c]  t == call[c].tenant  m == call[c].month
<1>. PICK j : j = call'[c]
  OBVIOUS
<1>1. /\ call \in [Callers -> Calls] /\ k \in Calls /\ CallOK(c, k) /\ k.point = "commit"
      /\ k.kind \in {"request", "overview", "backfill"} /\ t \in Tenants /\ m \in Months
      /\ k.kind \in {"request", "backfill"} => k.scan \in Scans
  BY DEF Inv, TypeOK, CallInv, Commit, At, CallOK, SubjectOf, Refreshing, Calls
<1>2. ledger' = ledger \cup k.own /\ ledger \subseteq Entries /\ ledger' \subseteq Entries
  BY <1>1 DEF Inv, TypeOK, Commit, Calls
<1>3. /\ k.kind = "overview" =>
           j = [k EXCEPT !.point = "answered", !.sum = k.sum]
      /\ k.kind # "overview" => j = Rest
      /\ call' \in [Callers -> Calls]
      /\ \A d \in Callers \ {c} : call'[d] = call[d]
  <2>1. [k EXCEPT !.point = "answered", !.sum = k.sum] \in Calls
    BY <1>1 DEF Calls, Points
  <2>. QED BY <1>1, <2>1, RestFacts DEF Commit, Answers, Shown, Ends, Continue
<1>4. /\ j \in Calls /\ j.kind \in {"none", "overview"} /\ j.point \in {"idle", "answered"}
      /\ j.late = FALSE
      /\ j.kind = "overview" => k.kind = "overview" /\ j.own = {} /\ j.floor = k.floor /\ j.tenant = t /\ j.month = m
  <2>1. CASE k.kind = "overview"
    <3>1. k.late = FALSE /\ k.own = {}
      BY <1>1, <2>1 DEF CallOK, SubjectOf, Calls
    <3>2. /\ j.kind = "overview" /\ j.point = "answered" /\ j.late = k.late /\ j.own = k.own
          /\ j.floor = k.floor /\ j.tenant = t /\ j.month = m
      BY <1>1, <1>3, <2>1 DEF Calls
    <3>3. j \in Calls
      BY <1>3
    <3>. QED BY <2>1, <3>1, <3>2, <3>3
  <2>2. CASE k.kind # "overview"
    <3>1. j = Rest
      BY <1>3, <2>2
    <3>2. /\ Rest.kind = "none" /\ Rest.point = "idle" /\ Rest.late = FALSE
      BY DEF Rest
    <3>. QED BY <3>1, <3>2, RestFacts
  <2>. QED BY <2>1, <2>2
<1>5. /\ scan \in [Scans -> [status : {"ABSENT", "ACTIVE", "DONE", "FAILED", "DELETED"},
                            billing : {"RESERVED", "CONSUMED", "REFUNDED"}, month : Months]]
      /\ scan' \in [Scans -> [status : {"ABSENT", "ACTIVE", "DONE", "FAILED", "DELETED"},
                            billing : {"RESERVED", "CONSUMED", "REFUNDED"}, month : Months]]
      /\ \A s \in Scans : s # k.scan \/ k.kind = "overview" => scan'[s] = scan[s]
      /\ k.kind = "request" => scan'[k.scan].status = "ACTIVE"
                              /\ scan'[k.scan].billing = "RESERVED"
      /\ k.kind = "backfill" => scan'[k.scan].status = scan[k.scan].status
                               /\ scan'[k.scan].billing = FinalState(k.status)
  <2>1. scan \in [Scans -> [status : {"ABSENT", "ACTIVE", "DONE", "FAILED", "DELETED"},
                            billing : {"RESERVED", "CONSUMED", "REFUNDED"}, month : Months]]
    BY DEF Inv, TypeOK
  <2>2. CASE k.kind = "request"
    BY <1>1, <2>1, <2>2 DEF Commit, CommitScan
  <2>3. CASE k.kind = "backfill"
    <3>1. FinalState(k.status) \in {"CONSUMED", "REFUNDED"}
      BY DEF FinalState
    <3>2. scan' = [scan EXCEPT ![k.scan].billing = FinalState(k.status)]
      BY <2>3 DEF Commit, CommitScan
    <3>. QED BY <1>1, <2>1, <2>3, <3>1, <3>2
  <2>4. CASE k.kind = "overview"
    BY <1>1, <2>1, <2>4 DEF Commit, CommitScan
  <2>. QED BY <1>1, <2>2, <2>3, <2>4
<1>6. /\ snapshot \in [Tenants -> [Months -> SnapshotRows]]
      /\ snapshot' \in [Tenants -> [Months -> SnapshotRows]]
      /\ snapshot'[t][m] = Refreshed(snapshot[t][m], k.sum)
      /\ \A u \in Tenants, n \in Months : <<u, n>> # <<t, m>> => snapshot'[u][n] = snapshot[u][n]
  BY CommitRows DEF Inv, TypeOK
<1>7. TypeOK'
  BY <1>2, <1>3, <1>5, <1>6 DEF Inv, TypeOK, Commit
<1>8. k.sum \subseteq Of(t, m, ledger')
  BY <1>1, <1>2 DEF CallOK, SumOf
<1>9. CallInv'
  <2>1. month' = month /\ month \in Nat /\ ledger \subseteq ledger'
    BY <1>2, MonthsFacts DEF Inv, TypeOK, Commit
  <2>2. SubjectOf(j)' /\ RequestOf(j)' /\ BackfillOf(c, j)'
    BY <1>4 DEF SubjectOf, RequestOf, BackfillOf, Settles, Refreshing
  <2>3. SumOf(j)'
    BY <1>4 DEF SumOf, Refreshing
  <2>4. ASSUME NEW d \in Callers \ {c}
        PROVE  SubjectOf(call[d])' /\ RequestOf(call[d])'
               /\ BackfillOf(d, call[d])' /\ SumOf(call[d])'
    <3>. PICK l : l = call[d]
      OBVIOUS
    <3>1. CallOK(d, l) /\ l \in Calls /\ l.month \in Nat /\ call'[d] = l
      BY <1>1, <1>3, MonthsFacts DEF Inv, CallInv, Calls
    <3>2. Apart(k, l) /\ Apart(l, k)
      BY DEF Inv, CallInv
    <3>3. ASSUME l.kind = "request" \/ Settles(l) PROVE scan'[l.scan] = scan[l.scan]
      <4>1. l.scan \in Scans
        BY <3>1, <3>3 DEF CallOK, SubjectOf, Settles
      <4>2. k.kind = "overview" \/ l.scan # k.scan
        BY <1>1, <3>1, <3>2, <3>3 DEF Apart, Settles, Refreshing, CallOK, RequestOf, BackfillOf, Calls
      <4>. QED BY <1>5, <4>1, <4>2
    <3>4. SubjectOf(l)' /\ RequestOf(l)' /\ BackfillOf(d, l)' /\ SumOf(l)'
      BY <2>1, <3>1, <3>3, CallKept
    <3>5. call[d]' = l
      BY <3>1
    <3>. QED BY <3>1, <3>4, <3>5 DEF CallOK, SubjectOf, RequestOf, BackfillOf, SumOf
  <2>5. ASSUME NEW d \in Callers, NEW e \in Callers, d # e
        PROVE  Apart(call[d], call[e])'
    BY <1>3, <1>4, <2>5 DEF Inv, CallInv, Apart, Settles, Refreshing
  <2>6. CallOK(c, call[c])'
    BY <2>2, <2>3 DEF CallOK, SubjectOf, RequestOf, BackfillOf, SumOf
  <2>7. \A d \in Callers : CallOK(d, call[d])'
    BY <2>4, <2>6 DEF CallOK
  <2>. QED BY <2>5, <2>7 DEF CallInv
<1>10. SettledOnce'
  <2>1. CASE k.kind = "backfill"
    <3>1. /\ k.scan \in Scans /\ k.status \in {"DONE", "FAILED"}
          /\ scan[k.scan].billing = "RESERVED" /\ scan[k.scan].status = k.status
          /\ ledger' = ledger \cup {Entry(k.scan, FinalEvent(k.status), m, c)}
      BY <1>1, <1>2, <2>1 DEF CallOK, BackfillOf, Settles, Refreshing, Calls
    <3>2. /\ scan'[k.scan].status = k.status /\ scan'[k.scan].billing = FinalState(k.status)
          /\ \A r \in Scans \ {k.scan} : scan'[r] = scan[r]
      BY <1>5, <2>1, <3>1
    <3>3. SettledOnce
      BY DEF Inv
    <3>. HIDE DEF k, m
    <3>. QED BY <3>1, <3>2, <3>3, Settlement
  <2>2. CASE k.kind # "backfill"
    <3>1. \A e \in k.own : e.event \notin Settlements
      BY <1>1, <2>2 DEF CallOK, SubjectOf, RequestOf, Entry, Settlements
    <3>2. \A s \in Scans : /\ scan'[s].billing = scan[s].billing
                           /\ \/ scan'[s].status = scan[s].status
                              \/ scan'[s].status = "DELETED"
                              \/ scan'[s].status = "ACTIVE" /\ scan[s].status = "ABSENT"
      <4>1. k.kind = "request" => scan[k.scan].status = "ABSENT" /\ scan[k.scan].billing = "RESERVED"
        BY <1>1 DEF CallOK, RequestOf, Inv, SettledOnce
      <4>. QED BY <1>1, <1>5, <2>2, <4>1
    <3>3. SettledOnce
      BY DEF Inv
    <3>. HIDE DEF k, m
    <3>. QED BY <1>2, <3>1, <3>2, <3>3, NoSettlement
  <2>. QED BY <2>1, <2>2
<1>11. SumsCommitted'
  <2>1. ASSUME NEW u \in Tenants, NEW n \in Months
        PROVE  snapshot'[u][n].sum \subseteq Of(u, n, ledger')
    <3>1. CASE u = t /\ n = m
      BY <1>6, <1>8, <3>1 DEF Refreshed
    <3>2. CASE <<u, n>> # <<t, m>>
      BY <1>2, <1>6, <3>2, OfGrows DEF Inv, SumsCommitted
    <3>. QED BY <3>1, <3>2
  <2>. QED BY <2>1 DEF SumsCommitted, Of
<1>12. ClosedInv'
  BY <1>6 DEF Inv, ClosedInv, Commit, Refreshed
<1>. QED BY <1>7, <1>9, <1>10, <1>11, <1>12 DEF Inv

\* A close changes the status of rows of one month, and no sum.
LEMMA ClosedRows ==
  ASSUME Inv, NEW c \in Callers, CloseRows(c)
  PROVE  /\ snapshot' \in [Tenants -> [Months -> SnapshotRows]]
         /\ \A t \in Tenants, n \in Months :
              /\ snapshot'[t][n].sum = snapshot[t][n].sum
              /\ \/ snapshot'[t][n].status = snapshot[t][n].status
                 \/ n = call[c].month /\ snapshot'[t][n].status = "CLOSED"
<1>. DEFINE m == call[c].month
<1>1. /\ m \in Months
      /\ snapshot \in [Tenants -> [Months -> SnapshotRows]]
  BY DEF Inv, TypeOK, Calls
<1>2. PICK rows \in SUBSET Present(m) :
        snapshot' = [t \in Tenants |->
          IF t \in rows THEN [snapshot[t] EXCEPT ![m].status = "CLOSED"] ELSE snapshot[t]]
  BY DEF CloseRows
<1>3. ASSUME NEW t \in Tenants
      PROVE  /\ snapshot'[t] \in [Months -> SnapshotRows]
             /\ \A n \in Months :
                  /\ snapshot'[t][n].sum = snapshot[t][n].sum
                  /\ \/ snapshot'[t][n].status = snapshot[t][n].status
                     \/ n = m /\ snapshot'[t][n].status = "CLOSED"
  <2>1. snapshot[t] \in [Months -> SnapshotRows]
    BY <1>1
  <2>2. CASE t \in rows
    <3>1. snapshot'[t] = [snapshot[t] EXCEPT ![m].status = "CLOSED"]
      BY <1>2, <2>2
    <3>2. [snapshot[t][m] EXCEPT !.status = "CLOSED"] \in SnapshotRows
      BY <1>1, <2>1 DEF SnapshotRows
    <3>3. /\ [snapshot[t][m] EXCEPT !.status = "CLOSED"].sum = snapshot[t][m].sum
          /\ [snapshot[t][m] EXCEPT !.status = "CLOSED"].status = "CLOSED"
      BY <1>1, <2>1 DEF SnapshotRows
    <3>4. \A n \in Months : snapshot'[t][n] = IF n = m THEN [snapshot[t][m] EXCEPT !.status = "CLOSED"]
                                               ELSE snapshot[t][n]
      BY <1>1, <2>1, <3>1
    <3>5. snapshot'[t] = [n \in Months |-> snapshot'[t][n]]
      BY <2>1, <3>1
    <3>6. ASSUME NEW n \in Months
          PROVE  /\ snapshot'[t][n] \in SnapshotRows
                 /\ snapshot'[t][n].sum = snapshot[t][n].sum
                 /\ \/ snapshot'[t][n].status = snapshot[t][n].status
                    \/ n = m /\ snapshot'[t][n].status = "CLOSED"
      <4>1. CASE n = m
        BY <3>2, <3>3, <3>4, <4>1
      <4>2. CASE n # m
        BY <2>1, <3>4, <4>2
      <4>. QED BY <4>1, <4>2
    <3>. QED BY <3>5, <3>6
  <2>3. CASE t \notin rows
    BY <1>2, <2>1, <2>3
  <2>. QED BY <2>2, <2>3
<1>4. snapshot' = [t \in Tenants |-> snapshot'[t]]
  BY <1>2
<1>. QED BY <1>3, <1>4

LEMMA CloseRowsStep ==
  ASSUME Inv, NEW c \in Callers, CloseRows(c)
  PROVE  Inv'
<1>. DEFINE m == call[c].month
<1>1. call \in [Callers -> Calls] /\ CallOK(c, call[c]) /\ call[c].point = "update"
  BY DEF Inv, TypeOK, CallInv, CloseRows, At
<1>3. /\ snapshot' \in [Tenants -> [Months -> SnapshotRows]]
      /\ \A t \in Tenants, n \in Months :
           /\ snapshot'[t][n].sum = snapshot[t][n].sum
           /\ snapshot'[t][n].status = snapshot[t][n].status \/ n = m
  BY ClosedRows
<1>4. /\ call' \in [Callers -> Calls] /\ call'[c] = Rest
      /\ \A d \in Callers \ {c} : call'[d] = call[d]
  BY <1>1, RestFacts DEF CloseRows, Ends, Continue
<1>5. TypeOK'
  BY <1>3, <1>4 DEF Inv, TypeOK, CloseRows
<1>6. CallInv'
  <2>1. ASSUME NEW d \in Callers PROVE CallOK(d, call[d])'
    <3>1. CallOK(d, call'[d])
      BY <1>4, RestFacts DEF Inv, CallInv
    <3>2. UNCHANGED <<month, scan, ledger>>
      BY DEF CloseRows
    <3>. QED BY <3>1, <3>2 DEF CallOK, SubjectOf, RequestOf, BackfillOf, SumOf, Settles, Entry
  <2>2. ASSUME NEW d \in Callers, NEW e \in Callers, d # e PROVE Apart(call[d], call[e])'
    <3>1. Apart(call'[d], call'[e])
      BY <1>4, <2>2, RestApart DEF Inv, CallInv, TypeOK
    <3>. QED BY <3>1 DEF Apart, Settles
  <2>. QED BY <2>1, <2>2 DEF CallInv
<1>7. SettledOnce' /\ SumsCommitted'
  BY <1>3 DEF Inv, SettledOnce, SumsCommitted, Has, Of, CloseRows
<1>8. ClosedInv'
  <2>1. m < month /\ month' = month
    BY <1>1 DEF CallOK, SubjectOf, CloseRows
  <2>. QED BY <1>3, <2>1 DEF Inv, ClosedInv
<1>. QED BY <1>5, <1>6, <1>7, <1>8 DEF Inv

LEMMA ScanEndsStep ==
  ASSUME Inv, NEW s \in Scans, NEW status \in {"DONE", "FAILED"}, ScanEnds(s, status)
  PROVE  Inv'
<1>1. /\ scan \in [Scans -> [status : {"ABSENT", "ACTIVE", "DONE", "FAILED", "DELETED"},
                            billing : {"RESERVED", "CONSUMED", "REFUNDED"}, month : Months]]
      /\ ledger \subseteq Entries /\ scan[s].status = "ACTIVE" /\ scan[s].billing = "RESERVED"
      /\ call \in [Callers -> Calls] /\ month \in Months
  BY DEF Inv, TypeOK, SettledOnce, ScanEnds
<1>2. FinalState(status) \in {"CONSUMED", "REFUNDED"} /\ FinalEvent(status) \in Settlements
  BY DEF FinalState, FinalEvent, Settlements
<1>3. Entry(s, FinalEvent(status), scan[s].month, None) \in Entries
  BY <1>1, <1>2 DEF Entries, Entry
<1>4. /\ scan' \in [Scans -> [status : {"ABSENT", "ACTIVE", "DONE", "FAILED", "DELETED"},
                            billing : {"RESERVED", "CONSUMED", "REFUNDED"}, month : Months]]
      /\ scan'[s].status = status /\ scan'[s].billing = FinalState(status)
      /\ \A r \in Scans \ {s} : scan'[r] = scan[r]
  BY <1>1, <1>2 DEF ScanEnds
<1>5. TypeOK'
  BY <1>1, <1>3, <1>4 DEF Inv, TypeOK, ScanEnds
<1>6. CallInv'
  <2>1. ASSUME NEW d \in Callers PROVE CallOK(d, call[d])'
    <3>. PICK k : k = call[d]
      OBVIOUS
    <3>1. CallOK(d, k) /\ k.month \in Nat /\ k.status \in {"DONE", "FAILED"} /\ k = call'[d]
      BY <1>1, MonthsFacts DEF Inv, CallInv, ScanEnds, Calls
    <3>2. ASSUME k.kind = "request" \/ Settles(k) PROVE scan'[k.scan] = scan[k.scan]
      <4>1. k.scan \in Scans
        BY <3>1, <3>2 DEF CallOK, SubjectOf, Settles
      <4>2. scan[k.scan].status # "ACTIVE"
        BY <3>1, <3>2 DEF CallOK, RequestOf, BackfillOf
      <4>. QED BY <1>1, <1>4, <4>1, <4>2
    <3>3. month' = month /\ month \in Nat /\ ledger \subseteq ledger'
      BY <1>1, MonthsFacts DEF ScanEnds
    <3>4. SubjectOf(k)' /\ RequestOf(k)' /\ BackfillOf(d, k)' /\ SumOf(k)'
      BY <3>1, <3>2, <3>3, CallKept
    <3>. QED BY <3>1, <3>4 DEF CallOK, SubjectOf, RequestOf, BackfillOf, SumOf
  <2>2. ASSUME NEW d \in Callers, NEW e \in Callers, d # e PROVE Apart(call[d], call[e])'
    BY <2>2 DEF Inv, CallInv, Apart, Settles, ScanEnds
  <2>. QED BY <2>1, <2>2 DEF CallInv
<1>7. SettledOnce'
  <2>. DEFINE m == scan[s].month
  <2>1. SettledOnce /\ ledger' = ledger \cup {Entry(s, FinalEvent(status), m, None)}
    BY DEF Inv, ScanEnds
  <2>. HIDE DEF m
  <2>. QED BY <1>1, <1>4, <2>1, Settlement
<1>8. SumsCommitted' /\ ClosedInv'
  BY DEF Inv, SumsCommitted, ClosedInv, Of, ScanEnds
<1>. QED BY <1>5, <1>6, <1>7, <1>8 DEF Inv

LEMMA SweepStep ==
  ASSUME Inv, NEW s \in Scans, Sweep(s)
  PROVE  Inv'
<1>1. /\ scan \in [Scans -> [status : {"ABSENT", "ACTIVE", "DONE", "FAILED", "DELETED"},
                            billing : {"RESERVED", "CONSUMED", "REFUNDED"}, month : Months]]
      /\ scan[s].status \in {"DONE", "FAILED"} /\ call \in [Callers -> Calls] /\ month \in Months
  BY DEF Inv, TypeOK, Sweep
<1>2. /\ scan' \in [Scans -> [status : {"ABSENT", "ACTIVE", "DONE", "FAILED", "DELETED"},
                            billing : {"RESERVED", "CONSUMED", "REFUNDED"}, month : Months]]
      /\ scan'[s].status = "DELETED" /\ scan'[s].billing = scan[s].billing
      /\ \A r \in Scans \ {s} : scan'[r] = scan[r]
  BY <1>1 DEF Sweep
<1>3. TypeOK'
  BY <1>1, <1>2 DEF Inv, TypeOK, Sweep
<1>4. CallInv'
  <2>1. ASSUME NEW d \in Callers PROVE CallOK(d, call[d])'
    <3>. PICK k : k = call[d]
      OBVIOUS
    <3>1. CallOK(d, k) /\ k.month \in Nat /\ k = call'[d]
      BY <1>1, MonthsFacts DEF Inv, CallInv, Sweep, Calls
    <3>2. ASSUME k.kind = "request" \/ Settles(k) PROVE scan'[k.scan] = scan[k.scan]
      <4>1. k.scan \in Scans /\ k.scan # s
        BY <1>1, <3>1, <3>2 DEF CallOK, SubjectOf, RequestOf, Settles, Sweep, ScanLocked, Refreshing
      <4>. QED BY <1>2, <4>1
    <3>3. month' = month /\ month \in Nat /\ ledger \subseteq ledger'
      BY <1>1, MonthsFacts DEF Sweep
    <3>4. SubjectOf(k)' /\ RequestOf(k)' /\ BackfillOf(d, k)' /\ SumOf(k)'
      BY <3>1, <3>2, <3>3, CallKept
    <3>. QED BY <3>1, <3>4 DEF CallOK, SubjectOf, RequestOf, BackfillOf, SumOf
  <2>2. ASSUME NEW d \in Callers, NEW e \in Callers, d # e PROVE Apart(call[d], call[e])'
    BY <2>2 DEF Inv, CallInv, Apart, Settles, Sweep
  <2>. QED BY <2>1, <2>2 DEF CallInv
<1>5. SettledOnce'
  <2>. DEFINE none == {}
  <2>1. SettledOnce /\ ledger' = ledger \cup none
    BY DEF Inv, Sweep
  <2>2. \A r \in Scans : /\ scan'[r].billing = scan[r].billing
                         /\ scan'[r].status = scan[r].status \/ scan'[r].status = "DELETED"
    BY <1>2
  <2>3. \A e \in none : e.event \notin Settlements
    OBVIOUS
  <2>. HIDE DEF none
  <2>. QED BY <2>1, <2>2, <2>3, NoSettlement
<1>6. SumsCommitted' /\ ClosedInv'
  BY DEF Inv, SumsCommitted, ClosedInv, Of, Sweep
<1>. QED BY <1>3, <1>4, <1>5, <1>6 DEF Inv

LEMMA NextMonthStep ==
  ASSUME Inv, NextMonth
  PROVE  Inv'
<1>1. month \in Nat /\ month' \in Months /\ month' = month + 1
  BY MonthsAssumption DEF Inv, TypeOK, NextMonth, Months
<1>2. TypeOK'
  BY <1>1 DEF Inv, TypeOK, NextMonth
<1>3. CallInv'
  <2>1. ASSUME NEW d \in Callers PROVE CallOK(d, call[d])'
    <3>. PICK k : k = call[d]
      OBVIOUS
    <3>1. CallOK(d, k) /\ k.month \in Nat /\ k = call'[d]
      BY MonthsFacts DEF Inv, TypeOK, CallInv, NextMonth, Calls
    <3>2. month <= month' /\ month' \in Nat /\ ledger \subseteq ledger' /\ scan' = scan
      BY <1>1 DEF NextMonth
    <3>3. SubjectOf(k)' /\ RequestOf(k)' /\ BackfillOf(d, k)' /\ SumOf(k)'
      BY <1>1, <3>1, <3>2, CallKept
    <3>. QED BY <3>1, <3>3 DEF CallOK, SubjectOf, RequestOf, BackfillOf, SumOf
  <2>2. ASSUME NEW d \in Callers, NEW e \in Callers, d # e PROVE Apart(call[d], call[e])'
    BY <2>2 DEF Inv, CallInv, Apart, Settles, NextMonth
  <2>. QED BY <2>1, <2>2 DEF CallInv
<1>4. SettledOnce' /\ SumsCommitted'
  BY DEF Inv, SettledOnce, SumsCommitted, Has, Of, NextMonth
<1>5. ClosedInv'
  BY <1>1, MonthsFacts DEF Inv, ClosedInv, NextMonth
<1>. QED BY <1>2, <1>3, <1>4, <1>5 DEF Inv

-----------------------------------------------------------------------------
LEMMA InitInv ==
  ASSUME Init
  PROVE  Inv
<1>1. /\ month = 1 /\ month \in Months
      /\ \A s \in Scans : scan[s].billing = "RESERVED" /\ scan[s].month = 1
  BY MonthsFacts DEF Init
<1>2. scan \in [Scans -> [status : {"ABSENT", "ACTIVE", "DONE", "FAILED", "DELETED"},
                          billing : {"RESERVED", "CONSUMED", "REFUNDED"}, month : Months]]
  BY MonthsFacts DEF Init
<1>3. \A s \in Scans : Entry(s, "scan_reserved", 1, None) \in Entries
  BY MonthsFacts DEF Entries, Entry
<1>4. ledger \subseteq Entries
  BY <1>3, ScansAssumption DEF Init
<1>5. /\ snapshot \in [Tenants -> [Months -> SnapshotRows]]
      /\ \A t \in Tenants, m \in Months : /\ snapshot[t][m].sum = {}
                                          /\ snapshot[t][m].status = "ABSENT"
  BY DEF Init, SnapshotRows
<1>6. call \in [Callers -> Calls] /\ \A c \in Callers : call[c] = Rest
  BY RestFacts DEF Init
<1>7. CallInv
  BY <1>6, RestFacts, RestApart DEF CallInv
<1>8. SettledOnce
  <2>1. \A e \in ledger : e.event \notin Settlements
    BY DEF Init, Entry, Settlements
  <2>. QED BY <1>1, <2>1 DEF SettledOnce, Has
<1>9. SumsCommitted /\ ClosedInv
  BY <1>5 DEF SumsCommitted, ClosedInv
<1>. QED BY <1>1, <1>2, <1>4, <1>5, <1>6, <1>7, <1>8, <1>9 DEF Inv, TypeOK

LEMMA NextInv ==
  ASSUME Inv, [Next]_vars
  PROVE  Inv'
<1>1. ASSUME NEW c \in Callers, Step(c) PROVE Inv'
  <2>1. CASE SkipCandidate(c) \/ Return(c) \/ Abort(c)
    BY <2>1, EndStep DEF SkipCandidate, Return, Abort
  <2>2. CASE \E s \in Scans : Request(c, s) \/ FindCandidates(c, s)
    BY <2>2, RequestStep, FindStep
  <2>3. CASE (\E t \in Tenants : Overview(c, t)) \/ (\E m \in Months : CloseMonth(c, m))
    BY <2>3, OverviewStep, CloseMonthStep
  <2>4. CASE ApplyCandidate(c)
    BY <2>4, ApplyStep
  <2>5. CASE Aggregate(c)
    BY <2>5, AggregateStep
  <2>6. CASE UpsertSnapshot(c)
    BY <2>6, UpsertStep
  <2>7. CASE Commit(c)
    BY <2>7, CommitStep
  <2>8. CASE CloseRows(c)
    BY <2>8, CloseRowsStep
  <2>. QED BY <1>1, <2>1, <2>2, <2>3, <2>4, <2>5, <2>6, <2>7, <2>8 DEF Step
<1>2. ASSUME NEW s \in Scans, Sweep(s) \/ \E status \in {"DONE", "FAILED"} : ScanEnds(s, status)
      PROVE  Inv'
  BY <1>2, SweepStep, ScanEndsStep
<1>3. CASE NextMonth
  BY <1>3, NextMonthStep
<1>4. CASE UNCHANGED vars
  <2>1. month' = month /\ scan' = scan /\ ledger' = ledger /\ snapshot' = snapshot /\ call' = call
    BY <1>4 DEF vars
  <2>2. TypeOK' /\ SettledOnce' /\ SumsCommitted' /\ ClosedInv'
    BY <2>1 DEF Inv, TypeOK, SettledOnce, SumsCommitted, ClosedInv, Has, Of
  <2>3. CallInv'
    BY <2>1 DEF Inv, CallInv, CallOK, SubjectOf, RequestOf, BackfillOf, SumOf, Apart, Settles
  <2>. QED BY <2>2, <2>3 DEF Inv
<1>. QED BY <1>1, <1>2, <1>3, <1>4 DEF Next

LEMMA Invariant == Spec => []Inv
<1>1. Init => Inv
  BY InitInv
<1>2. Inv /\ [Next]_vars => Inv'
  BY NextInv
<1>. QED BY <1>1, <1>2, PTL DEF Spec

-----------------------------------------------------------------------------
\* A call is changed by its own caller's step only, and answers only by Commit.
LEMMA AnswersOnlyInCommit ==
  ASSUME call \in [Callers -> Calls], Next, NEW c \in Callers,
         call[c].point = "commit", call'[c].point = "answered"
  PROVE  Commit(c)
<1>1. call' # call
  OBVIOUS
<1>2. PICK d \in Callers : Step(d)
  BY <1>1 DEF Next, ScanEnds, Sweep, NextMonth
<1>3. \A e \in Callers \ {d} : call'[e] = call[e]
  BY <1>2 DEF Step, Request, Overview, FindCandidates, ApplyCandidate, SkipCandidate,
       Aggregate, UpsertSnapshot, Commit, Answers, Return, Abort, CloseMonth, CloseRows,
       Ends, Continue, GoTo
<1>4. d = c
  BY <1>3
<1>5. ~Abort(c)
  <2>1. Rest.point = "idle"
    BY DEF Rest
  <2>. QED BY <2>1 DEF Abort, Ends, Continue
<1>. QED BY <1>2, <1>4, <1>5 DEF Step, Request, Overview, FindCandidates, ApplyCandidate,
       SkipCandidate, Aggregate, UpsertSnapshot, Return, CloseMonth, CloseRows, At

\* Rows, ledger and calls keep their types, for any tenants, scans and callers.
THEOREM TypeCorrect == Spec => []TypeOK
<1>1. Inv => TypeOK
  BY DEF Inv
<1>. QED BY <1>1, Invariant, PTL

\* However many backfills find a scan, and whatever the worker and the sweep do
\* meanwhile, the scan is settled once and as it ended.
THEOREM SettledOnceHolds == Spec => []SettledOnce
<1>1. Inv => SettledOnce
  BY DEF Inv
<1>. QED BY <1>1, Invariant, PTL

\* A snapshot never counts an entry of a transaction that was undone.
THEOREM SumsHold == Spec => []SumsCommitted
<1>1. Inv => SumsCommitted
  BY DEF Inv
<1>. QED BY <1>1, Invariant, PTL

\* The overview, which holds no lock of the month, answers with at least the
\* entries committed before the call and none that is not committed.
THEOREM OverviewHolds == Spec => OverviewInWindow
<1>1. Inv /\ [Next]_vars =>
        [\A c \in Callers : At(c, "commit") /\ call'[c].point = "answered" =>
           /\ call[c].floor \subseteq call'[c].sum
           /\ call'[c].sum \subseteq Of(call[c].tenant, call[c].month, ledger')]_vars
  <2>. SUFFICES ASSUME Inv, Next, NEW c \in Callers, call[c].point = "commit",
                       call'[c].point = "answered"
                PROVE  /\ call[c].floor \subseteq call'[c].sum
                       /\ call'[c].sum \subseteq Of(call[c].tenant, call[c].month, ledger')
    BY DEF At
  <2>1. call \in [Callers -> Calls] /\ CallOK(c, call[c])
    BY DEF Inv, TypeOK, CallInv
  <2>2. Commit(c)
    BY <2>1, AnswersOnlyInCommit
  <2>3. call[c].kind = "overview" /\ call'[c].sum = call[c].sum
    <3>1. CASE call[c].kind = "overview"
      <4>1. call'[c] = [call[c] EXCEPT !.point = "answered", !.sum = call[c].sum]
        BY <2>1, <2>2, <3>1 DEF Commit, Answers, Continue, Shown
      <4>. QED BY <2>1, <3>1, <4>1 DEF Calls
    <3>2. CASE call[c].kind # "overview"
      <4>1. call'[c] = Rest /\ Rest.point = "idle"
        BY <2>1, <2>2, <3>2 DEF Commit, Answers, Ends, Continue, Rest
      <4>. QED BY <4>1
    <3>. QED BY <3>1, <3>2
  <2>. QED BY <2>1, <2>2, <2>3 DEF CallOK, SumOf, Refreshing, Commit
<1>. QED BY <1>1, Invariant, PTL DEF Spec, OverviewInWindow

\* A snapshot is changed by the commit of a call or by a close.
LEMMA SnapshotChanges ==
  ASSUME Next, snapshot' # snapshot
  PROVE  \E c \in Callers : Commit(c) \/ CloseRows(c)
<1>1. PICK c \in Callers : Step(c)
  BY DEF Next, ScanEnds, Sweep, NextMonth
<1>2. Commit(c) \/ CloseRows(c)
  BY <1>1 DEF Step, Request, Overview, FindCandidates, ApplyCandidate, SkipCandidate,
       Aggregate, UpsertSnapshot, Return, Abort, CloseMonth
<1>. QED BY <1>2

\* A call that has committed is at that point no more.
LEMMA CommitLeaves ==
  ASSUME Inv, NEW c \in Callers, Commit(c)
  PROVE  /\ At(c, "commit") /\ call'[c].point # "commit"
         /\ call[c] \in Calls /\ CallOK(c, call[c])
<1>1. /\ call \in [Callers -> Calls] /\ call[c] \in Calls /\ CallOK(c, call[c])
      /\ At(c, "commit")
  BY DEF Inv, TypeOK, CallInv, Commit
<1>2. CASE call[c].kind = "overview"
  <2>1. call'[c] = [call[c] EXCEPT !.point = "answered", !.sum = call[c].sum]
    BY <1>1, <1>2 DEF Commit, Answers, Continue, Shown
  <2>. QED BY <1>1, <2>1 DEF Calls
<1>3. CASE call[c].kind # "overview"
  <2>1. call'[c] = Rest /\ Rest.point = "idle"
    BY <1>1, <1>3 DEF Commit, Answers, Ends, Continue, Rest
  <2>. QED BY <1>1, <2>1
<1>. QED BY <1>2, <1>3

\* Older sums replace newer ones only from a call that overlapped what they
\* leave out: the sums of a call have every entry that was committed as it began.
THEOREM OverlapHolds == Spec => OlderSumsOverlap
<1>. DEFINE Overlapped(t, m, e) ==
       \E c \in Callers : /\ At(c, "commit") /\ call'[c].point # "commit"
                         /\ call[c].tenant = t /\ call[c].month = m
                         /\ e \notin call[c].floor
<1>1. Inv /\ [Next]_vars =>
        [\A t \in Tenants, m \in Months :
           \A e \in snapshot[t][m].sum \ snapshot'[t][m].sum : Overlapped(t, m, e)]_vars
  <2>. SUFFICES ASSUME Inv, Next, NEW t \in Tenants, NEW m \in Months,
                       NEW e \in snapshot[t][m].sum \ snapshot'[t][m].sum
                PROVE  Overlapped(t, m, e)
    OBVIOUS
  <2>1. snapshot' # snapshot
    OBVIOUS
  <2>2. PICK c \in Callers : Commit(c) \/ CloseRows(c)
    BY <2>1, SnapshotChanges
  <2>3. CASE CloseRows(c)
    BY <2>3, ClosedRows
  <2>4. CASE Commit(c)
    <3>1. t = call[c].tenant /\ m = call[c].month
      BY <2>4, CommitRows
    <3>2. snapshot'[t][m] = Refreshed(snapshot[t][m], call[c].sum)
      BY <2>4, <3>1, CommitRows
    <3>3. e \notin call[c].sum
      BY <3>2 DEF Refreshed
    <3>4. call[c].floor \subseteq call[c].sum
      BY <2>4, CommitLeaves DEF CallOK, SumOf, At
    <3>. QED BY <2>4, <3>1, <3>3, <3>4, CommitLeaves
  <2>. QED BY <2>2, <2>3, <2>4
<1>. QED BY <1>1, Invariant, PTL DEF Spec, OlderSumsOverlap

\* What may change a closed month: it never reopens, and only a backfill, or a
\* call that had begun before the close, refreshes its sums.
THEOREM ClosedHolds == Spec => ClosedMonthSettles
<1>. DEFINE Settled(t, m) ==
       /\ snapshot'[t][m].status = "CLOSED"
       /\ snapshot'[t][m].sum # snapshot[t][m].sum =>
            \E c \in Callers : /\ At(c, "commit") /\ call'[c].point # "commit"
                              /\ call[c].tenant = t /\ call[c].month = m
                              /\ (call[c].kind = "backfill" \/ ~call[c].late)
<1>1. Inv /\ [Next]_vars =>
        [\A t \in Tenants, m \in Months : snapshot[t][m].status = "CLOSED" => Settled(t, m)]_vars
  <2>. SUFFICES ASSUME Inv, Next, NEW t \in Tenants, NEW m \in Months,
                       snapshot[t][m].status = "CLOSED"
                PROVE  Settled(t, m)
    OBVIOUS
  <2>1. CASE snapshot' = snapshot
    BY <2>1
  <2>2. ASSUME NEW c \in Callers, Commit(c) PROVE Settled(t, m)
    <3>1. CallOK(c, call[c])
      BY <2>2, CommitLeaves
    <3>2. At(c, "commit") /\ call'[c].point # "commit"
      BY <2>2, CommitLeaves
    <3>3. call[c].kind = "backfill" \/ ~call[c].late
      BY <3>1 DEF CallOK, SubjectOf
    <3>4. CASE t = call[c].tenant /\ m = call[c].month
      <4>1. snapshot'[t][m].status = "CLOSED"
        <5>1. snapshot'[t][m] = Refreshed(snapshot[t][m], call[c].sum)
          BY <2>2, <3>4, CommitRows
        <5>. QED BY <5>1 DEF Refreshed
      <4>. QED BY <3>1, <3>2, <3>3, <3>4, <4>1
    <3>5. CASE <<t, m>> # <<call[c].tenant, call[c].month>>
      BY <2>2, <3>5, CommitRows
    <3>. QED BY <3>4, <3>5
  <2>3. ASSUME NEW c \in Callers, CloseRows(c) PROVE Settled(t, m)
    BY <2>3, ClosedRows
  <2>. QED BY <2>1, <2>2, <2>3, SnapshotChanges
<1>. QED BY <1>1, Invariant, PTL DEF Spec, ClosedMonthSettles

=============================================================================
