------------------------- MODULE ScanRequestProofs -------------------------
(***************************************************************************)
(* Proofs about ScanRequest, for every number of calls, tenants, keys and  *)
(* months, every plan and every size of request.                           *)
(***************************************************************************)
EXTENDS ScanRequest, FiniteSetTheorems, TLAPS

Holding == {"count", "usage", "insert", "commit"}

\* Only answered calls have a scan, and it is the scan they asked for.
RowsOfAnswered ==
  \A s \in Requests :
    scan[s].status # "ABSENT" =>
      /\ At(s, "answered")
      /\ scan[s].tenant = request[s].tenant /\ scan[s].print = request[s].print

KeysOfRows ==
  \A x \in Slots : keyed[x] # None => scan[keyed[x]].status # "ABSENT" /\ Slot(keyed[x]) = x

\* The checks of a call and its inserts are made under the lock of its month.
LockHeld ==
  \A r \in Requests : request[r].point \in Holding =>
    lock[<<request[r].tenant, request[r].month>>] = r

\* A key that a transaction has inserted is in no other transaction, nor stored.
KeyFree ==
  \A r \in Requests : At(r, "commit") =>
    /\ keyed[Slot(r)] = None
    /\ \A q \in Requests : At(q, "commit") /\ Slot(q) = Slot(r) => q = r

\* What CheckQuota has found still holds when its call commits.
Reserved ==
  \A r \in Requests : request[r].point \in {"insert", "commit"} /\ request[r].tenant \notin Payg =>
    Cardinality(Used(request[r].tenant, request[r].month)) + Units[request[r].print] <= Quota

\* The calls of a tenant that have passed the limit on active scans.
Passed(t) ==
  {r \in Requests : request[r].point \in {"usage", "insert", "commit"} /\ request[r].tenant = t}

LimitKept ==
  /\ \A t \in Tenants : Cardinality(Active(t) \cup Passed(t)) < ActiveLimit + month
  /\ \A r \in Requests : request[r].month <= month

OnceAnswered == \A r \in Requests : request[r].answer # "none" => At(r, "answered")

AdmissionInv ==
  /\ TypeOK /\ RowsOfAnswered /\ KeysOfRows /\ LockHeld /\ KeyFree /\ Reserved
  /\ LimitKept /\ OnceAnswered /\ AnswerMatches /\ QuotaNeverExceeded

-----------------------------------------------------------------------------
(* What one call's step does to the calls and the locks.                   *)

RequestRow ==
  [point : Points, tenant : Tenants, key : Keys \cup Requests, print : Prints,
   month : Months, answer : Answers, scan : Requests \cup {None}]

\* r moves with its body; nobody else moves or loses a lock.
CallMoves(r) ==
  /\ request' \in [Requests -> RequestRow]
  /\ \A q \in Requests \ {r} : request'[q] = request[q]
  /\ request'[r].tenant = request[r].tenant
  /\ request'[r].key = request[r].key
  /\ request'[r].print = request[r].print
  /\ lock' \in [Tenants \X Months -> Requests \cup {None}]
  /\ \A q \in Requests \ {r}, x \in Tenants \X Months : lock[x] = q => lock'[x] = q

LEMMA RowTypes ==
  ASSUME TypeOK, NEW r \in Requests
  PROVE  /\ request \in [Requests -> RequestRow] /\ request[r] \in RequestRow
         /\ request[r].point \in Points /\ request[r].tenant \in Tenants
         /\ request[r].key \in Keys \cup Requests /\ request[r].print \in Prints
         /\ request[r].month \in Months /\ request[r].answer \in Answers
         /\ request[r].scan \in Requests \cup {None}
         /\ Slot(r) \in Slots
         /\ <<request[r].tenant, request[r].month>> \in Tenants \X Months
         /\ scan[r].status \in Status /\ scan[r].tenant \in Tenants
         /\ scan[r].print \in Prints /\ scan[r].month \in Months
  BY DEF TypeOK, RequestRow, Slot, Slots

LEMMA ContinueEffect ==
  ASSUME TypeOK, NEW r \in Requests, NEW point \in Points, Continue(r, point)
  PROVE  /\ request' \in [Requests -> RequestRow]
         /\ \A q \in Requests \ {r} : request'[q] = request[q]
         /\ request'[r].point = point /\ request'[r].tenant = request[r].tenant
         /\ request'[r].key = request[r].key /\ request'[r].print = request[r].print
         /\ request'[r].month = request[r].month /\ request'[r].answer = request[r].answer
         /\ request'[r].scan = request[r].scan
  <1> DEFINE next == [request[r] EXCEPT !.point = point]
  <1>1. /\ next \in RequestRow /\ next.point = point /\ next.tenant = request[r].tenant
        /\ next.key = request[r].key /\ next.print = request[r].print
        /\ next.month = request[r].month /\ next.answer = request[r].answer
        /\ next.scan = request[r].scan
    <2>1. request[r] \in RequestRow
      BY RowTypes
    <2> QED BY <2>1 DEF RequestRow
  <1>2. request' = [request EXCEPT ![r] = next]
    <2>1. request \in [Requests -> RequestRow]
      BY RowTypes
    <2> QED BY <2>1 DEF Continue
  <1> HIDE DEF next
  <1> QED BY <1>1, <1>2, RowTypes

LEMMA ReleaseEffect ==
  ASSUME TypeOK, NEW r \in Requests, Release(r)
  PROVE  /\ lock' \in [Tenants \X Months -> Requests \cup {None}]
         /\ \A q \in Requests \ {r}, x \in Tenants \X Months : lock[x] = q => lock'[x] = q
  BY DEF Release, TypeOK

LEMMA AnswerEffect ==
  ASSUME TypeOK, NEW r \in Requests, NEW answer \in Answers, NEW s \in Requests \cup {None},
         Answer(r, answer, s)
  PROVE  /\ CallMoves(r)
         /\ request'[r].point = "answered" /\ request'[r].answer = answer
         /\ request'[r].scan = s /\ request'[r].month = request[r].month
  <1> DEFINE next == [request[r] EXCEPT !.point = "answered", !.answer = answer, !.scan = s]
  <1>1. /\ next \in RequestRow /\ next.point = "answered" /\ next.tenant = request[r].tenant
        /\ next.key = request[r].key /\ next.print = request[r].print
        /\ next.month = request[r].month /\ next.answer = answer /\ next.scan = s
    <2>1. request[r] \in RequestRow
      BY RowTypes
    <2> QED BY <2>1 DEF RequestRow, Points
  <1>2. request' = [request EXCEPT ![r] = next]
    <2>1. request \in [Requests -> RequestRow]
      BY RowTypes
    <2> QED BY <2>1 DEF Answer
  <1> HIDE DEF next
  <1>3. /\ request' \in [Requests -> RequestRow] /\ request'[r] = next
        /\ \A q \in Requests \ {r} : request'[q] = request[q]
    BY <1>1, <1>2, RowTypes
  <1> QED BY <1>1, <1>3, ReleaseEffect DEF CallMoves, Answer

-----------------------------------------------------------------------------
(* Counting.                                                               *)

LEMMA UsedCount ==
  ASSUME NEW t, NEW m
  PROVE  IsFiniteSet(Used(t, m)) /\ Cardinality(Used(t, m)) \in Nat
  <1>1. IsFiniteSet(1..MaxUnits)
    BY UnitsAssumption, FS_Interval
  <1>2. IsFiniteSet(Requests \X (1..MaxUnits))
    BY <1>1, RequestsAssumption, FS_Product
  <1>3. Used(t, m) \subseteq Requests \X (1..MaxUnits)
    BY DEF Used
  <1> QED BY <1>2, <1>3, FS_Subset, FS_CardinalityType

LEMMA RequestsCount ==
  ASSUME NEW S \in SUBSET Requests
  PROVE  /\ IsFiniteSet(S) /\ Cardinality(S) \in Nat
         /\ \A T \in SUBSET S : Cardinality(T) <= Cardinality(S) /\ Cardinality(T) \in Nat
  BY RequestsAssumption, FS_Subset, FS_CardinalityType

\* A smaller set of counted units never passes a bound.
LEMMA UsedShrinks ==
  ASSUME NEW t, NEW m, Used(t, m)' \subseteq Used(t, m)
  PROVE  /\ Cardinality(Used(t, m)') <= Cardinality(Used(t, m))
         /\ Cardinality(Used(t, m)') \in Nat
  BY UsedCount, FS_Subset, FS_CardinalityType

\* The units of a call that stores its scan.
LEMMA BlockCount ==
  ASSUME NEW r \in Requests, NEW n \in Nat
  PROVE  IsFiniteSet({r} \X (1..n)) /\ Cardinality({r} \X (1..n)) = n
  <1> DEFINE call == {r}
             units == 1..n
  <1>1. IsFiniteSet(call) /\ Cardinality(call) = 1
    BY FS_Singleton
  <1>2. IsFiniteSet(units) /\ Cardinality(units) = n
    <2>1. 1 \in Int /\ n \in Int /\ (1 > n => n = 0) /\ n - 1 + 1 = n
      OBVIOUS
    <2> QED BY <2>1, FS_Interval
  <1>3. /\ IsFiniteSet(call \X units)
        /\ Cardinality(call \X units) = Cardinality(call) * Cardinality(units)
    <2> HIDE DEF call, units
    <2> QED BY <1>1, <1>2, FS_Product
  <1>4. Cardinality(call \X units) = n
    <2> HIDE DEF call, units
    <2>1. Cardinality(call) * Cardinality(units) = 1 * n
      BY <1>1, <1>2
    <2> QED BY <1>3, <2>1
  <1> QED BY <1>3, <1>4

-----------------------------------------------------------------------------
(* Steps of a call that leave the tables alone.                            *)

\* What a call that moves owes to the invariant.
MoveAllowed(r) ==
  /\ request'[r].point \in Holding => lock'[<<request[r].tenant, request'[r].month>>] = r
  /\ request'[r].point = "commit" =>
       keyed[Slot(r)] = None /\ \A q \in Requests : At(q, "commit") => Slot(q) # Slot(r)
  /\ request'[r].point \in {"insert", "commit"} /\ request[r].tenant \notin Payg =>
       Cardinality(Used(request[r].tenant, request'[r].month)) + Units[request[r].print] <= Quota
  /\ request'[r].month <= month
  /\ request'[r].answer # "none" => request'[r].point = "answered"
  /\ request'[r].answer \in {"created", "reused", "conflict"} =>
       /\ request'[r].scan \in Requests
       /\ scan[request'[r].scan].status # "ABSENT" /\ Slot(request'[r].scan) = Slot(r)
  /\ request'[r].answer \in {"created", "reused"} =>
       scan[request'[r].scan].print = request[r].print
  /\ request'[r].answer = "conflict" => scan[request'[r].scan].print # request[r].print

LEMMA SlotsStay ==
  ASSUME NEW r \in Requests, CallMoves(r)
  PROVE  \A q \in Requests : /\ Slot(q)' = Slot(q) /\ request'[q].tenant = request[q].tenant
                             /\ request'[q].print = request[q].print
  BY DEF CallMoves, Slot

LEMMA TablesKept ==
  ASSUME AdmissionInv, NEW r \in Requests, CallMoves(r), ~At(r, "answered"),
         UNCHANGED <<tables, month>>, MoveAllowed(r),
         \A t \in Tenants : Cardinality(Active(t) \cup Passed(t)') < ActiveLimit + month
  PROVE  AdmissionInv'
  <1> USE DEF CallMoves
  <1>1. UNCHANGED <<scan, keyed, month>>
    BY DEF tables
  <1>2. \A t, m : Used(t, m)' = Used(t, m) /\ Active(t)' = Active(t)
    BY <1>1 DEF Used, Active
  <1>3. TypeOK'
    BY <1>1 DEF AdmissionInv, TypeOK, RequestRow
  <1>4. RowsOfAnswered'
    BY <1>1 DEF AdmissionInv, RowsOfAnswered, At
  <1>5. KeysOfRows'
    <2>1. \A x \in Slots : keyed[x] # None => keyed[x] \in Requests
      BY DEF AdmissionInv, TypeOK
    <2> QED BY <1>1, <2>1, SlotsStay DEF AdmissionInv, KeysOfRows
  <1>6. LockHeld'
    <2>1. ASSUME NEW q \in Requests \ {r}, request'[q].point \in Holding
          PROVE  lock'[<<request'[q].tenant, request'[q].month>>] = q
      <3>1. lock[<<request[q].tenant, request[q].month>>] = q
        BY <2>1 DEF AdmissionInv, LockHeld
      <3>2. <<request[q].tenant, request[q].month>> \in Tenants \X Months
        BY RowTypes DEF AdmissionInv
      <3> QED BY <3>1, <3>2
    <2> QED BY <2>1 DEF MoveAllowed, LockHeld
  <1>7. KeyFree'
    <2>1. ASSUME NEW q \in Requests, At(q, "commit")' PROVE keyed'[Slot(q)'] = None
      BY <1>1, <2>1, SlotsStay DEF MoveAllowed, AdmissionInv, KeyFree, At
    <2>2. ASSUME NEW p \in Requests, NEW q \in Requests, At(p, "commit")', At(q, "commit")',
                 Slot(q)' = Slot(p)'
          PROVE  q = p
      BY <2>2, SlotsStay DEF MoveAllowed, AdmissionInv, KeyFree, At
    <2> QED BY <2>1, <2>2 DEF KeyFree
  <1>8. Reserved'
    <2>1. ASSUME NEW q \in Requests, request'[q].point \in {"insert", "commit"},
                 request'[q].tenant \notin Payg
          PROVE  Cardinality(Used(request'[q].tenant, request'[q].month))
                   + Units[request'[q].print] <= Quota
      BY <2>1, SlotsStay DEF MoveAllowed, AdmissionInv, Reserved
    <2> QED BY <1>2, <2>1 DEF Reserved
  <1>9. LimitKept'
    BY <1>1, <1>2 DEF MoveAllowed, AdmissionInv, LimitKept
  <1>10. OnceAnswered'
    BY DEF MoveAllowed, AdmissionInv, OnceAnswered, At
  <1>11. AnswerMatches'
    <2>1. ASSUME NEW q \in Requests \ {r}, request'[q].answer \in {"created", "reused", "conflict"}
          PROVE  request'[q].scan \in Requests
      BY <2>1, RowTypes DEF AdmissionInv, AnswerMatches
    <2> QED BY <1>1, <2>1, SlotsStay, NoneAssumption
        DEF MoveAllowed, AdmissionInv, AnswerMatches
  <1>12. QuotaNeverExceeded'
    BY <1>2 DEF AdmissionInv, QuotaNeverExceeded
  <1> QED
    BY <1>3, <1>4, <1>5, <1>6, <1>7, <1>8, <1>9, <1>10, <1>11, <1>12 DEF AdmissionInv

\* A call that does not pass the limit leaves it as it is.
LEMMA LimitStays ==
  ASSUME AdmissionInv, NEW r \in Requests, CallMoves(r), UNCHANGED <<tables, month>>,
         request'[r].point \in {"usage", "insert", "commit"} =>
           request[r].point \in {"usage", "insert", "commit"}
  PROVE  \A t \in Tenants : Cardinality(Active(t) \cup Passed(t)') < ActiveLimit + month
  <1>1. ASSUME NEW t \in Tenants
        PROVE  Cardinality(Active(t) \cup Passed(t)') < ActiveLimit + month
    <2>1. Passed(t)' \subseteq Passed(t)
      BY DEF Passed, CallMoves
    <2>2. Active(t) \cup Passed(t) \in SUBSET Requests
      BY DEF Active, Passed
    <2>3. Active(t) \cup Passed(t)' \in SUBSET (Active(t) \cup Passed(t))
      BY <2>1
    <2>4. /\ Cardinality(Active(t) \cup Passed(t)') <= Cardinality(Active(t) \cup Passed(t))
          /\ Cardinality(Active(t) \cup Passed(t)') \in Nat
          /\ Cardinality(Active(t) \cup Passed(t)) \in Nat
      BY <2>2, <2>3, RequestsCount
    <2>5. Cardinality(Active(t) \cup Passed(t)) < ActiveLimit + month
      BY DEF AdmissionInv, LimitKept
    <2>6. ActiveLimit + month \in Nat
      BY NumbersAssumption DEF AdmissionInv, TypeOK, Months
    <2> QED BY <2>4, <2>5, <2>6
  <1> QED BY <1>1

LEMMA Replayed ==
  ASSUME AdmissionInv, NEW r \in Requests, request[r].point \notin {"answered", "new"},
         keyed[Slot(r)] # None, Replay(r), UNCHANGED <<tables, month>>
  PROVE  AdmissionInv'
  <1> DEFINE s == keyed[Slot(r)]
  <1>1. s \in Requests /\ scan[s].status # "ABSENT" /\ Slot(s) = Slot(r)
    BY RowTypes DEF AdmissionInv, TypeOK, KeysOfRows
  <1>2. PICK answer \in {"reused", "conflict"} :
          /\ Answer(r, answer, s)
          /\ answer = "reused" => scan[s].print = request[r].print
          /\ answer = "conflict" => scan[s].print # request[r].print
    BY DEF Replay, SamePrint
  <1>3. answer \in Answers /\ TypeOK
    BY DEF Answers, AdmissionInv
  <1> HIDE DEF s
  <1>4. /\ CallMoves(r) /\ request'[r].point = "answered" /\ request'[r].answer = answer
        /\ request'[r].scan = s /\ request'[r].month = request[r].month
    BY <1>1, <1>2, <1>3, AnswerEffect
  <1>5. request[r].month <= month
    BY DEF AdmissionInv, LimitKept
  <1>6. MoveAllowed(r)
    BY <1>1, <1>2, <1>4, <1>5 DEF MoveAllowed, Holding
  <1> QED BY <1>4, <1>6, TablesKept, LimitStays DEF At

LEMMA Refused ==
  ASSUME AdmissionInv, NEW r \in Requests, ~At(r, "answered"),
         NEW answer \in {"rejected", "limited", "blocked", "error"}, Answer(r, answer, None),
         UNCHANGED <<tables, month>>
  PROVE  AdmissionInv'
  <1>1. answer \in Answers /\ TypeOK
    BY DEF Answers, AdmissionInv
  <1>2. /\ CallMoves(r) /\ request'[r].point = "answered" /\ request'[r].answer = answer
        /\ request'[r].scan = None /\ request'[r].month = request[r].month
    BY <1>1, AnswerEffect
  <1>3. request[r].month <= month
    BY DEF AdmissionInv, LimitKept
  <1>4. MoveAllowed(r)
    BY <1>2, <1>3 DEF MoveAllowed, Holding
  <1> QED BY <1>2, <1>4, TablesKept, LimitStays

-----------------------------------------------------------------------------
(* The COMMIT.                                                             *)

LEMMA StoreEffect ==
  ASSUME AdmissionInv, NEW r \in Requests, At(r, "commit"), Store(r)
  PROVE  /\ scan' \in [Requests -> [status : Status, tenant : Tenants,
                                    print : Prints, month : Months]]
         /\ scan'[r].status = "ACTIVE" /\ scan'[r].tenant = request[r].tenant
         /\ scan'[r].print = request[r].print /\ scan'[r].month = request[r].month
         /\ \A s \in Requests \ {r} : scan'[s] = scan[s]
         /\ scan[r].status = "ABSENT"
         /\ keyed' \in [Slots -> Requests \cup {None}] /\ keyed'[Slot(r)] = r
         /\ \A x \in Slots \ {Slot(r)} : keyed'[x] = keyed[x]
  <1>1. TypeOK /\ Slot(r) \in Slots
    BY RowTypes DEF AdmissionInv
  <1>2. scan[r].status = "ABSENT"
    BY DEF AdmissionInv, RowsOfAnswered, At
  <1> DEFINE row == [status |-> "ACTIVE", tenant |-> request[r].tenant,
                     print |-> request[r].print, month |-> request[r].month]
  <1>3. row \in [status : Status, tenant : Tenants, print : Prints, month : Months]
        /\ row.status = "ACTIVE" /\ row.tenant = request[r].tenant
        /\ row.print = request[r].print /\ row.month = request[r].month
    BY <1>1, RowTypes DEF Status
  <1>4. scan' = [scan EXCEPT ![r] = row] /\ keyed' = [keyed EXCEPT ![Slot(r)] = r]
    BY DEF Store
  <1> HIDE DEF row
  <1> QED BY <1>1, <1>2, <1>3, <1>4 DEF TypeOK

\* The commit moves its call from the passed to the active, and its units count.
LEMMA StoreCounts ==
  ASSUME AdmissionInv, NEW r \in Requests, At(r, "commit"), Store(r), CallMoves(r),
         request'[r].point = "answered", request'[r].month = request[r].month
  PROVE  /\ \A t, m : <<t, m>> # <<request[r].tenant, request[r].month>> =>
              Used(t, m)' = Used(t, m)
         /\ Cardinality(Used(request[r].tenant, request[r].month)')
              <= Cardinality(Used(request[r].tenant, request[r].month)) + Units[request[r].print]
         /\ Cardinality(Used(request[r].tenant, request[r].month)') \in Nat
         /\ \A t \in Tenants : (Active(t) \cup Passed(t))' \subseteq Active(t) \cup Passed(t)
  <1>1. ASSUME NEW t, NEW m, <<t, m>> # <<request[r].tenant, request[r].month>>
        PROVE  Used(t, m)' = Used(t, m)
    BY <1>1, StoreEffect DEF Used
  <1> DEFINE U == Used(request[r].tenant, request[r].month)
             n == Units[request[r].print]
  <1>2. n \in Nat /\ request[r].print \in Prints
    <2>1. TypeOK
      BY DEF AdmissionInv
    <2>2. request[r].print \in Prints
      BY <2>1, RowTypes
    <2> QED BY <2>2, UnitsAssumption
  <1>3. U' \subseteq U \cup ({r} \X (1..n))
    <2>1. ASSUME NEW t, NEW m, NEW u \in Used(t, m)', u[1] # r
          PROVE  u \in Used(t, m)
      BY <2>1, StoreEffect DEF Used
    <2>2. ASSUME NEW t, NEW m, NEW u \in Used(t, m)', u[1] = r
          PROVE  u \in {r} \X (1..n)
      <3>1. /\ u \in Requests \X (1..MaxUnits)
            /\ u[2] <= Units[scan'[u[1]].print]
        BY <2>2 DEF Used
      <3>2. u[2] <= n /\ u[2] \in 1..MaxUnits /\ u = <<u[1], u[2]>>
        BY <2>2, <3>1, StoreEffect
      <3>3. u[2] \in 1..n
        BY <1>2, <3>2
      <3> QED BY <2>2, <3>2, <3>3
    <2>3. request'[r].tenant = request[r].tenant /\ request'[r].month = request[r].month
      BY DEF CallMoves
    <2> HIDE DEF n
    <2> QED BY <2>1, <2>2, <2>3
  <1>4. /\ IsFiniteSet(U) /\ Cardinality(U) \in Nat
        /\ IsFiniteSet({r} \X (1..n)) /\ Cardinality({r} \X (1..n)) = n
    BY <1>2, UsedCount, BlockCount
  <1> HIDE DEF U, n
  <1>5. /\ IsFiniteSet(U \cup ({r} \X (1..n)))
        /\ Cardinality(U \cup ({r} \X (1..n))) =
             Cardinality(U) + n - Cardinality(U \cap ({r} \X (1..n)))
    BY <1>4, FS_Union
  <1>6. Cardinality(U \cap ({r} \X (1..n))) \in Nat
    BY <1>4, FS_Intersection, FS_CardinalityType
  <1>7. /\ Cardinality(U') <= Cardinality(U \cup ({r} \X (1..n)))
        /\ Cardinality(U') \in Nat
    BY <1>3, <1>5, FS_Subset, FS_CardinalityType
  <1>8. Cardinality(U') <= Cardinality(U) + n
    BY <1>2, <1>4, <1>5, <1>6, <1>7
  <1>9. ASSUME NEW t \in Tenants PROVE (Active(t) \cup Passed(t))' \subseteq Active(t) \cup Passed(t)
    BY StoreEffect DEF Active, Passed, At, CallMoves
  <1> QED BY <1>1, <1>7, <1>8, <1>9 DEF U, n

LEMMA Stored ==
  ASSUME AdmissionInv, NEW r \in Requests, At(r, "commit"), Store(r), UNCHANGED month,
         Answer(r, "created", r) \/ Answer(r, "error", None)
  PROVE  AdmissionInv'
  <1>1. TypeOK /\ "created" \in Answers /\ "error" \in Answers
    BY DEF AdmissionInv, Answers
  <1>2. /\ CallMoves(r) /\ request'[r].point = "answered" /\ request'[r].month = request[r].month
        /\ \/ request'[r].answer = "created" /\ request'[r].scan = r
           \/ request'[r].answer = "error" /\ request'[r].scan = None
    BY <1>1, AnswerEffect
  <1> USE DEF CallMoves
  <1>3. TypeOK'
    BY <1>2, StoreEffect DEF AdmissionInv, TypeOK, RequestRow
  <1>4. RowsOfAnswered'
    BY <1>2, StoreEffect DEF AdmissionInv, RowsOfAnswered, At
  <1>5. KeysOfRows'
    <2>1. ASSUME NEW x \in Slots, NEW s \in Requests, keyed'[x] = s
          PROVE  scan'[s].status # "ABSENT" /\ Slot(s)' = x
      <3>1. CASE x = Slot(r)
        BY <1>2, <2>1, <3>1, StoreEffect, SlotsStay
      <3>2. CASE x # Slot(r)
        <4>1. keyed[x] = s /\ s # None
          BY <2>1, <3>2, StoreEffect, NoneAssumption
        <4>2. scan[s].status # "ABSENT" /\ Slot(s) = x
          BY <4>1 DEF AdmissionInv, KeysOfRows
        <4> QED BY <1>2, <4>2, StoreEffect, SlotsStay
      <3> QED BY <3>1, <3>2
    <2>2. \A x \in Slots : keyed'[x] # None => keyed'[x] \in Requests
      BY <1>3 DEF TypeOK
    <2> QED BY <2>1, <2>2 DEF KeysOfRows, Slot
  <1>6. LockHeld'
    <2>1. ASSUME NEW q \in Requests \ {r}, request'[q].point \in Holding
          PROVE  lock'[<<request'[q].tenant, request'[q].month>>] = q
      <3>1. lock[<<request[q].tenant, request[q].month>>] = q
        BY <1>2, <2>1 DEF AdmissionInv, LockHeld
      <3>2. <<request[q].tenant, request[q].month>> \in Tenants \X Months
        BY RowTypes DEF AdmissionInv
      <3> QED BY <1>2, <3>1, <3>2
    <2> QED BY <1>2, <2>1 DEF LockHeld, Holding
  <1>7. KeyFree'
    <2>1. ASSUME NEW q \in Requests, At(q, "commit")' PROVE q # r /\ At(q, "commit")
      BY <1>2, <2>1 DEF At
    <2>2. ASSUME NEW q \in Requests, At(q, "commit")' PROVE keyed'[Slot(q)'] = None
      <3>1. Slot(q) # Slot(r) /\ keyed[Slot(q)] = None
        BY <2>1, <2>2 DEF AdmissionInv, KeyFree
      <3>2. Slot(q) \in Slots /\ Slot(q)' = Slot(q)
        BY <1>2, RowTypes, SlotsStay DEF AdmissionInv
      <3> QED BY <3>1, <3>2, StoreEffect
    <2>3. ASSUME NEW p \in Requests, NEW q \in Requests, At(p, "commit")', At(q, "commit")',
                 Slot(q)' = Slot(p)'
          PROVE  q = p
      BY <1>2, <2>1, <2>3, SlotsStay DEF AdmissionInv, KeyFree
    <2> QED BY <2>2, <2>3 DEF KeyFree
  <1>8. Reserved'
    <2>1. ASSUME NEW q \in Requests, request'[q].point \in {"insert", "commit"},
                 request'[q].tenant \notin Payg, NEW t, NEW m,
                 t = request'[q].tenant, m = request'[q].month
          PROVE  Cardinality(Used(t, m)') + Units[request'[q].print] <= Quota
      <3>1. q # r /\ request'[q] = request[q]
        BY <1>2, <2>1
      <3>2. /\ lock[<<request[q].tenant, request[q].month>>] = q
            /\ lock[<<request[r].tenant, request[r].month>>] = r
        BY <2>1, <3>1 DEF AdmissionInv, LockHeld, Holding, At
      <3>3. Used(t, m)' = Used(t, m)
        <4>1. <<t, m>> # <<request[r].tenant, request[r].month>>
          BY <2>1, <3>1, <3>2
        <4> QED BY <1>2, <4>1, StoreCounts
      <3> QED BY <2>1, <3>1, <3>3 DEF AdmissionInv, Reserved
    <2> QED BY <2>1 DEF Reserved
  <1>9. LimitKept'
    <2>1. ASSUME NEW t \in Tenants
          PROVE  Cardinality((Active(t) \cup Passed(t))') < ActiveLimit + month
      <3>1. (Active(t) \cup Passed(t))' \in SUBSET (Active(t) \cup Passed(t))
        BY <1>2, StoreCounts
      <3>2. Active(t) \cup Passed(t) \in SUBSET Requests
        BY DEF Active, Passed
      <3>3. /\ Cardinality((Active(t) \cup Passed(t))') <= Cardinality(Active(t) \cup Passed(t))
            /\ Cardinality((Active(t) \cup Passed(t))') \in Nat
            /\ Cardinality(Active(t) \cup Passed(t)) \in Nat
        BY <3>1, <3>2, RequestsCount
      <3>4. Cardinality(Active(t) \cup Passed(t)) < ActiveLimit + month
        BY DEF AdmissionInv, LimitKept
      <3>5. ActiveLimit + month \in Nat
        BY NumbersAssumption DEF AdmissionInv, TypeOK, Months
      <3> QED BY <3>3, <3>4, <3>5
    <2> QED BY <1>2, <2>1 DEF AdmissionInv, LimitKept
  <1>10. OnceAnswered'
    BY <1>2 DEF AdmissionInv, OnceAnswered, At
  <1>11. AnswerMatches'
    <2>1. ASSUME NEW q \in Requests \ {r}, request'[q].answer \in {"created", "reused", "conflict"}
          PROVE  /\ request[q].scan \in Requests \ {r} /\ request'[q] = request[q]
      <3>1. request'[q] = request[q] /\ TypeOK
        BY <1>2 DEF AdmissionInv
      <3>2. request[q].scan \in Requests \cup {None}
        BY <3>1, RowTypes
      <3>3. request[q].scan # None /\ scan[request[q].scan].status # "ABSENT"
        BY <2>1, <3>1 DEF AdmissionInv, AnswerMatches
      <3> QED BY <3>1, <3>2, <3>3, StoreEffect
    <2> QED BY <1>2, <2>1, StoreEffect, SlotsStay, NoneAssumption DEF AdmissionInv, AnswerMatches
  <1>12. QuotaNeverExceeded'
    <2>1. ASSUME NEW t \in Tenants \ Payg, NEW m \in Months
          PROVE  Cardinality(Used(t, m)') <= Quota
      <3>1. CASE <<t, m>> = <<request[r].tenant, request[r].month>>
        <4>1. Cardinality(Used(t, m)) + Units[request[r].print] <= Quota
          BY <2>1, <3>1 DEF AdmissionInv, Reserved, At
        <4>2. /\ Cardinality(Used(t, m)') <= Cardinality(Used(t, m)) + Units[request[r].print]
              /\ Cardinality(Used(t, m)') \in Nat
          BY <1>2, <3>1, StoreCounts
        <4>3. Cardinality(Used(t, m)) \in Nat /\ Units[request[r].print] \in Nat
          <5>1. request[r].print \in Prints
            BY <1>1, RowTypes
          <5> QED BY <5>1, UsedCount, UnitsAssumption
        <4> QED BY <4>1, <4>2, <4>3, NumbersAssumption
      <3>2. CASE <<t, m>> # <<request[r].tenant, request[r].month>>
        BY <1>2, <3>2, StoreCounts DEF AdmissionInv, QuotaNeverExceeded
      <3> QED BY <3>1, <3>2
    <2> QED BY <2>1 DEF QuotaNeverExceeded
  <1> QED
    BY <1>3, <1>4, <1>5, <1>6, <1>7, <1>8, <1>9, <1>10, <1>11, <1>12 DEF AdmissionInv

-----------------------------------------------------------------------------
(* The limit on active scans: calls that have passed it hold different     *)
(* months of their tenant, so the others are fewer than the months.        *)

LEMMA PassedMonths ==
  ASSUME AdmissionInv, NEW r \in Requests, request[r].point \in Holding
  PROVE  Cardinality(Passed(request[r].tenant) \ {r}) <= month - 1
  <1> DEFINE t == request[r].tenant
             others == Passed(t) \ {r}
             free == (1..month) \ {request[r].month}
             monthOf == [q \in others |-> request[q].month]
  <1>1. month \in Nat \ {0} /\ TypeOK /\ request[r].month \in 1..month
    BY RowTypes, NumbersAssumption DEF AdmissionInv, TypeOK, Months, LimitKept
  <1>2. ASSUME NEW q \in others
        PROVE  /\ request[q].month \in 1..month /\ request[q].tenant = t
               /\ lock[<<t, request[q].month>>] = q
    BY <1>1, RowTypes DEF Passed, AdmissionInv, LimitKept, LockHeld, Holding, Months
  <1>3. lock[<<t, request[r].month>>] = r
    BY DEF AdmissionInv, LockHeld
  <1>4. monthOf \in Injection(others, free)
    <2>1. ASSUME NEW q \in others
          PROVE  request[q].month \in free
      BY <1>2, <1>3
    <2>2. ASSUME NEW p \in others, NEW q \in others, request[p].month = request[q].month
          PROVE  p = q
      BY <1>2, <2>2
    <2>3. /\ monthOf \in [others -> free]
          /\ \A p, q \in others : monthOf[p] = monthOf[q] => p = q
      <3> HIDE DEF others, free
      <3> QED BY <2>1, <2>2
    <2> HIDE DEF others, free, monthOf
    <2> QED BY <2>3 DEF Injection, IsInjective
  <1>5. IsFiniteSet(free) /\ Cardinality(free) = month - 1
    <2>1. month \in Int /\ 1 \in Int /\ ~(1 > month) /\ month - 1 + 1 = month
      BY <1>1
    <2>2. IsFiniteSet(1..month) /\ Cardinality(1..month) = month
      BY <2>1, FS_Interval
    <2>3. request[r].month \in 1..month
      BY <1>1
    <2> QED BY <2>2, <2>3, FS_RemoveElement
  <1> HIDE DEF others, free, monthOf
  <1>6. Cardinality(others) <= Cardinality(free)
    BY <1>4, <1>5, FS_Injection
  <1> QED BY <1>5, <1>6 DEF others, t

LEMMA LimitPasses ==
  ASSUME AdmissionInv, NEW r \in Requests, At(r, "count"), ~LimitReached(r), CallMoves(r),
         UNCHANGED <<tables, month>>
  PROVE  \A t \in Tenants : Cardinality(Active(t) \cup Passed(t)') < ActiveLimit + month
  <1>1. month \in Nat \ {0} /\ ActiveLimit \in Nat
    BY NumbersAssumption DEF AdmissionInv, TypeOK, Months
  <1>2. ASSUME NEW t \in Tenants, t # request[r].tenant
        PROVE  Cardinality(Active(t) \cup Passed(t)') < ActiveLimit + month
    <2>1. Passed(t)' = Passed(t)
      BY <1>2 DEF Passed, CallMoves
    <2> QED BY <2>1 DEF AdmissionInv, LimitKept
  <1> SUFFICES ASSUME NEW own \in Tenants, own = request[r].tenant
               PROVE  Cardinality(Active(own) \cup Passed(own)') < ActiveLimit + month
    BY <1>2
  <1> DEFINE others == Passed(own) \ {r}
  <1>3. /\ Active(own) \in SUBSET Requests /\ others \in SUBSET Requests
        /\ Active(own) \cup others \in SUBSET Requests
    BY DEF Active, Passed
  <1>4. Active(own) \cup Passed(own)' \subseteq (Active(own) \cup others) \cup {r}
    BY DEF Passed, CallMoves
  <1>5. Cardinality(Active(own)) < ActiveLimit /\ Cardinality(Active(own)) \in Nat
    BY <1>1, <1>3, RequestsCount DEF LimitReached
  <1>6. Cardinality(others) <= month - 1 /\ Cardinality(others) \in Nat
    BY <1>3, PassedMonths, RequestsCount DEF At, Holding
  <1> HIDE DEF others
  <1>7. /\ Cardinality(Active(own) \cup others) =
             Cardinality(Active(own)) + Cardinality(others) - Cardinality(Active(own) \cap others)
        /\ IsFiniteSet(Active(own) \cup others) /\ Cardinality(Active(own) \cup others) \in Nat
    BY <1>3, RequestsCount, FS_Union
  <1>8. Cardinality(Active(own) \cap others) \in Nat
    <2>1. Active(own) \cap others \in SUBSET Requests
      BY <1>3
    <2> QED BY <2>1, RequestsCount
  <1>9. /\ Cardinality((Active(own) \cup others) \cup {r}) <= Cardinality(Active(own) \cup others) + 1
        /\ Cardinality((Active(own) \cup others) \cup {r}) \in Nat
        /\ IsFiniteSet((Active(own) \cup others) \cup {r})
    <2> DEFINE S == Active(own) \cup others
    <2>1. IsFiniteSet(S) /\ Cardinality(S) \in Nat
      BY <1>7
    <2> HIDE DEF S
    <2>2. /\ IsFiniteSet(S \cup {r})
          /\ Cardinality(S \cup {r}) = Cardinality(S) \/ Cardinality(S \cup {r}) = Cardinality(S) + 1
      BY <2>1, FS_AddElement
    <2>3. Cardinality(S \cup {r}) \in Nat /\ Cardinality(S \cup {r}) <= Cardinality(S) + 1
      BY <2>1, <2>2
    <2> QED BY <2>2, <2>3 DEF S
  <1>10. /\ Cardinality(Active(own) \cup Passed(own)') <= Cardinality((Active(own) \cup others) \cup {r})
         /\ Cardinality(Active(own) \cup Passed(own)') \in Nat
    BY <1>4, <1>9, FS_Subset, FS_CardinalityType
  <1> QED BY <1>1, <1>5, <1>6, <1>7, <1>8, <1>9, <1>10

-----------------------------------------------------------------------------
(* The worker, the sweep and the calendar.                                 *)

LEMMA RowsLeave ==
  ASSUME AdmissionInv, UNCHANGED <<request, lock, month>>,
         scan' \in [Requests -> [status : Status, tenant : Tenants,
                                 print : Prints, month : Months]],
         keyed' \in [Slots -> Requests \cup {None}],
         \A s \in Requests :
           /\ scan'[s].tenant = scan[s].tenant /\ scan'[s].print = scan[s].print
           /\ scan'[s].month = scan[s].month
           /\ scan'[s].status = "ABSENT" <=> scan[s].status = "ABSENT"
           /\ scan'[s].status = "ACTIVE" => scan[s].status = "ACTIVE"
           /\ scan'[s].status = "DONE" => scan[s].status \in {"ACTIVE", "DONE"},
         \A x \in Slots : keyed'[x] \in {keyed[x], None}
  PROVE  AdmissionInv'
  <1>1. TypeOK'
    BY DEF AdmissionInv, TypeOK
  <1>2. RowsOfAnswered' /\ LockHeld' /\ OnceAnswered'
    BY DEF AdmissionInv, RowsOfAnswered, LockHeld, OnceAnswered, At
  <1>3. KeysOfRows'
    <2>1. \A x \in Slots : keyed[x] # None => keyed[x] \in Requests
      BY DEF AdmissionInv, TypeOK
    <2> QED BY <2>1 DEF AdmissionInv, KeysOfRows, Slot
  <1>4. KeyFree'
    <2>1. \A q \in Requests : Slot(q)' = Slot(q) /\ Slot(q) \in Slots
      BY RowTypes DEF AdmissionInv, Slot
    <2> QED BY <2>1 DEF AdmissionInv, KeyFree, At
  <1>5. ASSUME NEW t, NEW m
        PROVE  /\ Cardinality(Used(t, m)') <= Cardinality(Used(t, m))
               /\ Cardinality(Used(t, m)') \in Nat /\ Cardinality(Used(t, m)) \in Nat
    <2>1. Used(t, m)' \subseteq Used(t, m)
      BY DEF Used
    <2> QED BY <2>1, UsedShrinks, UsedCount
  <1>6. Reserved'
    <2>1. ASSUME NEW q \in Requests, request[q].point \in {"insert", "commit"},
                 request[q].tenant \notin Payg, NEW t, NEW m,
                 t = request[q].tenant, m = request[q].month
          PROVE  Cardinality(Used(t, m)') + Units[request[q].print] <= Quota
      <3>1. Cardinality(Used(t, m)) + Units[request[q].print] <= Quota
        BY <2>1 DEF AdmissionInv, Reserved
      <3>2. request[q].print \in Prints
        BY RowTypes DEF AdmissionInv
      <3>3. Units[request[q].print] \in Nat
        BY <3>2, UnitsAssumption
      <3> QED BY <1>5, <3>1, <3>3, NumbersAssumption
    <2> QED BY <2>1 DEF Reserved
  <1>7. QuotaNeverExceeded'
    BY <1>5, NumbersAssumption DEF AdmissionInv, QuotaNeverExceeded
  <1>8. LimitKept'
    <2>1. ASSUME NEW t \in Tenants
          PROVE  Cardinality((Active(t) \cup Passed(t))') < ActiveLimit + month
      <3>1. (Active(t) \cup Passed(t))' \in SUBSET (Active(t) \cup Passed(t))
        BY DEF Active, Passed
      <3>2. Active(t) \cup Passed(t) \in SUBSET Requests
        BY DEF Active, Passed
      <3>3. /\ Cardinality((Active(t) \cup Passed(t))') <= Cardinality(Active(t) \cup Passed(t))
            /\ Cardinality((Active(t) \cup Passed(t))') \in Nat
            /\ Cardinality(Active(t) \cup Passed(t)) \in Nat
        BY <3>1, <3>2, RequestsCount
      <3>4. Cardinality(Active(t) \cup Passed(t)) < ActiveLimit + month
        BY DEF AdmissionInv, LimitKept
      <3>5. ActiveLimit + month \in Nat
        BY NumbersAssumption DEF AdmissionInv, TypeOK, Months
      <3> QED BY <3>3, <3>4, <3>5
    <2> QED BY <2>1 DEF AdmissionInv, LimitKept
  <1>9. AnswerMatches'
    <2>1. ASSUME NEW r \in Requests, request[r].answer \in {"created", "reused", "conflict"}
          PROVE  request[r].scan \in Requests
      BY <2>1, RowTypes DEF AdmissionInv, AnswerMatches
    <2>2. \A q : Slot(q)' = Slot(q)
      BY DEF Slot
    <2> QED BY <2>1, <2>2 DEF AdmissionInv, AnswerMatches
  <1> QED BY <1>1, <1>2, <1>3, <1>4, <1>6, <1>7, <1>8, <1>9 DEF AdmissionInv

-----------------------------------------------------------------------------
(* Every step keeps the invariant.                                         *)

LEMMA InitSafe == Init => AdmissionInv
  <1> SUFFICES ASSUME Init PROVE AdmissionInv
    OBVIOUS
  <1>1. PICK t \in Tenants, p \in Prints :
          /\ request = [r \in Requests |->
               [point |-> "new", tenant |-> t, key |-> r, print |-> p, month |-> 1,
                answer |-> "none", scan |-> None]]
          /\ scan = [s \in Requests |->
               [status |-> "ABSENT", tenant |-> t, print |-> p, month |-> 1]]
    BY DEF Init
  <1>2. keyed = [x \in Slots |-> None] /\ month = 1 /\ lock = [x \in Tenants \X Months |-> None]
    BY DEF Init
  <1>3. 1 \in Months
    BY NumbersAssumption DEF Months
  <1>4. TypeOK
    BY <1>1, <1>2, <1>3 DEF TypeOK, Points, Answers, Status
  <1>5. /\ RowsOfAnswered /\ KeysOfRows /\ LockHeld /\ KeyFree /\ Reserved
        /\ OnceAnswered /\ AnswerMatches
    BY <1>1, <1>2 DEF RowsOfAnswered, KeysOfRows, LockHeld, Holding, KeyFree, Reserved,
         OnceAnswered, AnswerMatches, At
  <1>6. \A u : Cardinality({}) = 0 /\ Active(u) = {} /\ Passed(u) = {}
    BY <1>1, FS_EmptySet DEF Active, Passed
  <1>7. LimitKept
    <2>1. \A u \in Tenants : Active(u) \cup Passed(u) = {}
      BY <1>6
    <2>2. \A u \in Tenants : Cardinality(Active(u) \cup Passed(u)) < ActiveLimit + month
      BY <1>2, <1>6, <2>1, NumbersAssumption
    <2>3. \A r \in Requests : request[r].month <= month
      BY <1>1, <1>2
    <2> QED BY <2>2, <2>3 DEF LimitKept
  <1>8. \A u, m : Used(u, m) = {}
    BY <1>1 DEF Used
  <1>9. QuotaNeverExceeded
    BY <1>6, <1>8, NumbersAssumption DEF QuotaNeverExceeded
  <1> QED BY <1>4, <1>5, <1>7, <1>9 DEF AdmissionInv

LEMMA SubmitSafe ==
  ASSUME AdmissionInv, NEW r \in Requests, Submit(r)
  PROVE  AdmissionInv'
  <1>1. PICK t \in Tenants, k \in Keys \cup {r}, p \in Prints :
          request' = [request EXCEPT ![r].point = "select", ![r].tenant = t,
                                     ![r].key = k, ![r].print = p]
    BY DEF Submit
  <1>2. UNCHANGED <<scan, keyed, lock, month>>
    BY DEF Submit, tables
  <1>3. request \in [Requests -> RequestRow] /\ request[r] \in RequestRow
    BY RowTypes DEF AdmissionInv
  <1>4. scan[r].status = "ABSENT" /\ request[r].answer = "none" /\ request[r].month <= month
    BY DEF Submit, At, AdmissionInv, RowsOfAnswered, OnceAnswered, LimitKept
  <1> DEFINE next == [request[r] EXCEPT !.point = "select", !.tenant = t, !.key = k, !.print = p]
  <1>5. /\ next \in RequestRow /\ next.point = "select" /\ next.answer = "none"
        /\ next.month = request[r].month
    BY <1>3, <1>4 DEF RequestRow, Points
  <1>6. request' = [request EXCEPT ![r] = next]
    BY <1>1, <1>3
  <1> HIDE DEF next
  <1>7. /\ request' \in [Requests -> RequestRow] /\ request'[r].point = "select"
        /\ request'[r].answer = "none" /\ request'[r].month = request[r].month
        /\ \A q \in Requests \ {r} : request'[q] = request[q]
    BY <1>3, <1>5, <1>6
  <1>8. TypeOK'
    BY <1>2, <1>7 DEF AdmissionInv, TypeOK, RequestRow
  <1>9. RowsOfAnswered'
    BY <1>2, <1>4, <1>7 DEF AdmissionInv, RowsOfAnswered, At
  <1>10. \A q \in Requests \ {r} : Slot(q)' = Slot(q)
    BY <1>7 DEF Slot
  <1>11. KeysOfRows'
    <2>1. \A x \in Slots : keyed[x] # None => keyed[x] \in Requests \ {r}
      BY <1>4 DEF AdmissionInv, TypeOK, KeysOfRows
    <2> QED BY <1>2, <1>10, <2>1 DEF AdmissionInv, KeysOfRows
  <1>12. LockHeld' /\ OnceAnswered'
    BY <1>2, <1>7 DEF AdmissionInv, LockHeld, Holding, OnceAnswered, At
  <1>13. KeyFree'
    BY <1>2, <1>7, <1>10 DEF AdmissionInv, KeyFree, At
  <1>14. \A u, m : Used(u, m)' = Used(u, m) /\ Active(u)' = Active(u)
    BY <1>2 DEF Used, Active
  <1>15. Reserved'
    <2>1. ASSUME NEW q \in Requests, request'[q].point \in {"insert", "commit"}
          PROVE  q \in Requests \ {r} /\ request'[q] = request[q]
      BY <1>7, <2>1
    <2> QED BY <1>14, <2>1 DEF AdmissionInv, Reserved
  <1>16. QuotaNeverExceeded'
    BY <1>14 DEF AdmissionInv, QuotaNeverExceeded
  <1>17. LimitKept'
    <2>1. ASSUME NEW u \in Tenants PROVE Passed(u)' = Passed(u)
      BY <1>7 DEF Submit, At, Passed
    <2> QED BY <1>2, <1>4, <1>7, <1>14, <2>1 DEF AdmissionInv, LimitKept
  <1>18. AnswerMatches'
    <2>1. ASSUME NEW q \in Requests, request'[q].answer \in {"created", "reused", "conflict"}
          PROVE  /\ q \in Requests \ {r} /\ request'[q] = request[q]
                 /\ request[q].scan \in Requests \ {r}
      <3>1. q \in Requests \ {r} /\ request'[q] = request[q]
        BY <1>7, <2>1
      <3>2. request[q].scan \in Requests \cup {None}
        BY RowTypes DEF AdmissionInv
      <3> QED BY <1>4, <2>1, <3>1, <3>2 DEF AdmissionInv, AnswerMatches
    <2> QED BY <1>2, <1>10, <2>1 DEF AdmissionInv, AnswerMatches
  <1> QED BY <1>8, <1>9, <1>11, <1>12, <1>13, <1>15, <1>16, <1>17, <1>18 DEF AdmissionInv

LEMMA ContinueMoves ==
  ASSUME AdmissionInv, NEW r \in Requests, NEW point \in Points, Continue(r, point),
         \/ UNCHANGED lock
         \/ Release(r)
         \/ /\ lock[<<request[r].tenant, request[r].month>>] = None
            /\ lock' = [lock EXCEPT ![<<request[r].tenant, request[r].month>>] = r]
  PROVE  /\ CallMoves(r) /\ request'[r].point = point /\ request'[r].month = request[r].month
         /\ request'[r].answer = request[r].answer /\ request[r].month <= month
  <1>1. TypeOK /\ request[r].month <= month
    BY DEF AdmissionInv, LimitKept
  <1>2. /\ lock' \in [Tenants \X Months -> Requests \cup {None}]
        /\ \A q \in Requests \ {r}, x \in Tenants \X Months : lock[x] = q => lock'[x] = q
    <2>1. CASE UNCHANGED lock
      BY <1>1, <2>1 DEF TypeOK
    <2>2. CASE Release(r)
      BY <1>1, <2>2, ReleaseEffect
    <2>3. CASE /\ lock[<<request[r].tenant, request[r].month>>] = None
               /\ lock' = [lock EXCEPT ![<<request[r].tenant, request[r].month>>] = r]
      BY <1>1, <2>3, NoneAssumption DEF TypeOK
    <2> QED BY <2>1, <2>2, <2>3
  <1> QED BY <1>1, <1>2, ContinueEffect DEF CallMoves

LEMMA SweepSafe == ASSUME AdmissionInv, Sweep PROVE AdmissionInv'
  <1>1. PICK gone \in SUBSET {s \in Requests : scan[s].status \in {"DONE", "FAILED"}},
             old \in SUBSET {x \in Slots : keyed[x] # None} :
          /\ scan' = [s \in Requests |->
               IF s \in gone THEN [scan[s] EXCEPT !.status = "DELETED"] ELSE scan[s]]
          /\ keyed' = [x \in Slots |-> IF x \in old \/ keyed[x] \in gone THEN None ELSE keyed[x]]
    BY DEF Sweep
  <1>2. UNCHANGED <<request, lock, month>>
    BY DEF Sweep
  <1> DEFINE Row == [status : Status, tenant : Tenants, print : Prints, month : Months]
             deleted(s) == [scan[s] EXCEPT !.status = "DELETED"]
  <1>3. scan \in [Requests -> Row] /\ keyed \in [Slots -> Requests \cup {None}]
    BY DEF AdmissionInv, TypeOK
  <1>4. ASSUME NEW s \in Requests
        PROVE  /\ deleted(s) \in Row /\ deleted(s).status = "DELETED"
               /\ deleted(s).tenant = scan[s].tenant /\ deleted(s).print = scan[s].print
               /\ deleted(s).month = scan[s].month
    BY <1>3 DEF Status
  <1>5. \A s \in Requests : scan'[s] = IF s \in gone THEN deleted(s) ELSE scan[s]
    BY <1>1
  <1>6. \A s \in gone : scan[s].status \in {"DONE", "FAILED"}
    OBVIOUS
  <1> HIDE DEF deleted
  <1>7. scan' \in [Requests -> Row]
    <2>1. scan' = [s \in Requests |-> IF s \in gone THEN deleted(s) ELSE scan[s]]
      BY <1>1 DEF deleted
    <2> QED BY <1>3, <1>4, <2>1
  <1>8. /\ keyed' \in [Slots -> Requests \cup {None}]
        /\ \A x \in Slots : keyed'[x] \in {keyed[x], None}
    BY <1>1, <1>3
  <1>9. \A s \in Requests :
          /\ scan'[s].tenant = scan[s].tenant /\ scan'[s].print = scan[s].print
          /\ scan'[s].month = scan[s].month
          /\ scan'[s].status = "ABSENT" <=> scan[s].status = "ABSENT"
          /\ scan'[s].status = "ACTIVE" => scan[s].status = "ACTIVE"
          /\ scan'[s].status = "DONE" => scan[s].status \in {"ACTIVE", "DONE"}
    BY <1>4, <1>5, <1>6
  <1> QED BY <1>2, <1>7, <1>8, <1>9, RowsLeave

LEMMA EndSafe == ASSUME AdmissionInv, NEW s \in Requests, ScanEnds(s) PROVE AdmissionInv'
  <1>1. PICK status \in {"DONE", "FAILED"} : scan' = [scan EXCEPT ![s].status = status]
    BY DEF ScanEnds
  <1>2. UNCHANGED <<request, keyed, lock, month>> /\ scan[s].status = "ACTIVE"
    BY DEF ScanEnds
  <1>3. /\ scan \in [Requests -> [status : Status, tenant : Tenants,
                                  print : Prints, month : Months]]
        /\ keyed \in [Slots -> Requests \cup {None}]
    BY DEF AdmissionInv, TypeOK
  <1>4. /\ scan' \in [Requests -> [status : Status, tenant : Tenants,
                                   print : Prints, month : Months]]
        /\ scan'[s].status = status /\ scan'[s].tenant = scan[s].tenant
        /\ scan'[s].print = scan[s].print /\ scan'[s].month = scan[s].month
        /\ \A q \in Requests \ {s} : scan'[q] = scan[q]
    BY <1>1, <1>3 DEF Status
  <1> QED BY <1>2, <1>3, <1>4, RowsLeave

LEMMA MonthSafe == ASSUME AdmissionInv, NextMonth PROVE AdmissionInv'
  <1>1. UNCHANGED <<request, scan, keyed, lock>> /\ month' = month + 1 /\ month < MaxMonth
    BY DEF NextMonth, tables
  <1>2. month \in Nat \ {0} /\ month' \in Months
    BY <1>1, NumbersAssumption DEF AdmissionInv, TypeOK, Months
  <1>3. \A t, m : Used(t, m)' = Used(t, m) /\ Active(t)' = Active(t) /\ Passed(t)' = Passed(t)
    BY <1>1 DEF Used, Active, Passed
  <1>4. /\ TypeOK' /\ RowsOfAnswered' /\ KeysOfRows' /\ LockHeld' /\ KeyFree'
        /\ OnceAnswered' /\ AnswerMatches'
    BY <1>1, <1>2 DEF AdmissionInv, TypeOK, RowsOfAnswered, KeysOfRows, LockHeld, KeyFree,
         OnceAnswered, AnswerMatches, At, Slot
  <1>5. Reserved' /\ QuotaNeverExceeded'
    BY <1>1, <1>3 DEF AdmissionInv, Reserved, QuotaNeverExceeded
  <1>6. LimitKept'
    <2>1. ASSUME NEW t \in Tenants PROVE Cardinality(Active(t) \cup Passed(t)) < ActiveLimit + month'
      <3>1. Cardinality(Active(t) \cup Passed(t)) \in Nat
        BY RequestsCount DEF Active, Passed
      <3>2. Cardinality(Active(t) \cup Passed(t)) < ActiveLimit + month
        BY DEF AdmissionInv, LimitKept
      <3> QED BY <1>1, <1>2, <3>1, <3>2, NumbersAssumption
    <2>2. \A r \in Requests : request[r].month \in Nat /\ request[r].month <= month
      <3>1. TypeOK
        BY DEF AdmissionInv
      <3>2. \A r \in Requests : request[r].month \in Months
        BY <3>1, RowTypes
      <3> QED BY <3>2, NumbersAssumption DEF AdmissionInv, LimitKept, Months
    <2>3. \A r \in Requests : request[r].month <= month'
      BY <1>1, <1>2, <2>2
    <2> QED BY <1>1, <1>3, <2>1, <2>3 DEF LimitKept
  <1> QED BY <1>4, <1>5, <1>6 DEF AdmissionInv

LEMMA FailSafe == ASSUME AdmissionInv, NEW r \in Requests, Fail(r) PROVE AdmissionInv'
  <1>1. Answer(r, "error", None) /\ ~At(r, "answered") /\ UNCHANGED month
    BY DEF Fail, At
  <1>2. CASE At(r, "commit") /\ Store(r)
    BY <1>1, <1>2, Stored
  <1>3. CASE UNCHANGED tables
    BY <1>1, <1>3, Refused
  <1> QED BY <1>2, <1>3 DEF Fail

LEMMA StepSafe == ASSUME AdmissionInv, NEW r \in Requests, Step(r) PROVE AdmissionInv'
  <1>1. CASE Reject(r)
    BY <1>1, Refused DEF Reject, At
  <1>2. CASE SelectExisting(r)
    <2>1. At(r, "select") /\ UNCHANGED <<tables, month>>
      BY <1>2 DEF SelectExisting
    <2>2. CASE keyed[Slot(r)] # None /\ Replay(r)
      BY <2>1, <2>2, Replayed DEF At
    <2>3. CASE request' = [request EXCEPT ![r].point = "lock", ![r].month = month] /\ UNCHANGED lock
      <3> DEFINE next == [request[r] EXCEPT !.point = "lock", !.month = month]
      <3>1. /\ request \in [Requests -> RequestRow] /\ request[r] \in RequestRow
            /\ month \in Months /\ TypeOK
        BY RowTypes DEF AdmissionInv, TypeOK
      <3>2. /\ next \in RequestRow /\ next.point = "lock" /\ next.month = month
            /\ next.tenant = request[r].tenant /\ next.key = request[r].key
            /\ next.print = request[r].print /\ next.answer = request[r].answer
        BY <3>1 DEF RequestRow, Points
      <3>3. request' = [request EXCEPT ![r] = next]
        BY <2>3, <3>1
      <3> HIDE DEF next
      <3>4. /\ request' \in [Requests -> RequestRow] /\ request'[r] = next
            /\ \A q \in Requests \ {r} : request'[q] = request[q]
        BY <3>1, <3>2, <3>3
      <3>5. CallMoves(r)
        BY <2>3, <3>1, <3>2, <3>4 DEF CallMoves, TypeOK
      <3>6. request[r].answer = "none"
        BY <2>1 DEF AdmissionInv, OnceAnswered, At
      <3>7. month <= month
        BY <3>1, NumbersAssumption DEF Months
      <3>8. MoveAllowed(r)
        BY <3>2, <3>4, <3>6, <3>7 DEF MoveAllowed, Holding
      <3> QED BY <2>1, <3>2, <3>4, <3>5, <3>8, TablesKept, LimitStays DEF At
    <2> QED BY <1>2, <2>2, <2>3 DEF SelectExisting
  <1>3. CASE LockTenantMonth(r)
    <2>1. /\ Continue(r, "count") /\ "count" \in Points /\ At(r, "lock") /\ UNCHANGED <<tables, month>>
          /\ lock[<<request[r].tenant, request[r].month>>] = None
          /\ lock' = [lock EXCEPT ![<<request[r].tenant, request[r].month>>] = r]
      BY <1>3 DEF LockTenantMonth, Points
    <2>2. /\ CallMoves(r) /\ request'[r].point = "count" /\ request'[r].month = request[r].month
          /\ request'[r].answer = request[r].answer /\ request[r].month <= month
      BY <2>1, ContinueMoves
    <2>3. request[r].answer = "none"
      BY <2>1 DEF AdmissionInv, OnceAnswered, At
    <2>4. lock'[<<request[r].tenant, request[r].month>>] = r
      <3>1. TypeOK
        BY DEF AdmissionInv
      <3>2. <<request[r].tenant, request[r].month>> \in Tenants \X Months
        BY <3>1, RowTypes
      <3> QED BY <2>1, <3>1, <3>2 DEF TypeOK
    <2>5. MoveAllowed(r)
      BY <2>2, <2>3, <2>4 DEF MoveAllowed
    <2> QED BY <2>1, <2>2, <2>5, TablesKept, LimitStays DEF At
  <1>4. CASE AssertBackpressure(r)
    <2>1. At(r, "count") /\ UNCHANGED <<tables, month>>
      BY <1>4 DEF AssertBackpressure
    <2>2. CASE Answer(r, "limited", None)
      BY <2>1, <2>2, Refused DEF At
    <2>3. CASE ~LimitReached(r) /\ Continue(r, "usage") /\ UNCHANGED lock
      <3>1. /\ CallMoves(r) /\ request'[r].point = "usage" /\ request'[r].month = request[r].month
            /\ request'[r].answer = request[r].answer /\ request[r].month <= month
        BY <2>3, ContinueMoves DEF Points
      <3>2. request[r].answer = "none"
        BY <2>1 DEF AdmissionInv, OnceAnswered, At
      <3>3. lock'[<<request[r].tenant, request[r].month>>] = r
        BY <2>1, <2>3 DEF AdmissionInv, LockHeld, Holding, At
      <3>4. MoveAllowed(r)
        BY <3>1, <3>2, <3>3 DEF MoveAllowed
      <3> QED BY <2>1, <2>3, <3>1, <3>4, TablesKept, LimitPasses DEF At
    <2> QED BY <1>4, <2>2, <2>3 DEF AssertBackpressure
  <1>5. CASE CheckQuota(r)
    <2>1. At(r, "usage") /\ UNCHANGED <<tables, month>>
      BY <1>5 DEF CheckQuota
    <2>2. CASE Answer(r, "blocked", None)
      BY <2>1, <2>2, Refused DEF At
    <2>3. CASE ~QuotaExceeded(r) /\ Continue(r, "insert") /\ UNCHANGED lock
      <3>1. /\ CallMoves(r) /\ request'[r].point = "insert" /\ request'[r].month = request[r].month
            /\ request'[r].answer = request[r].answer /\ request[r].month <= month
        BY <2>3, ContinueMoves DEF Points
      <3>2. request[r].answer = "none"
        BY <2>1 DEF AdmissionInv, OnceAnswered, At
      <3>3. lock'[<<request[r].tenant, request[r].month>>] = r
        BY <2>1, <2>3 DEF AdmissionInv, LockHeld, Holding, At
      <3>4. request[r].tenant \notin Payg =>
              Cardinality(Used(request[r].tenant, request[r].month))
                + Units[request[r].print] <= Quota
        <4>1. request[r].print \in Prints
          BY RowTypes DEF AdmissionInv
        <4>2. /\ Cardinality(Used(request[r].tenant, request[r].month)) \in Nat
              /\ Units[request[r].print] \in Nat
          BY <4>1, UsedCount, UnitsAssumption
        <4> QED BY <2>3, <4>2, NumbersAssumption DEF QuotaExceeded
      <3>5. MoveAllowed(r)
        BY <3>1, <3>2, <3>3, <3>4 DEF MoveAllowed
      <3> QED BY <2>1, <3>1, <3>5, TablesKept, LimitStays DEF At
    <2> QED BY <1>5, <2>2, <2>3 DEF CheckQuota
  <1>6. CASE Insert(r)
    <2>1. /\ At(r, "insert") /\ UNCHANGED <<tables, month>>
          /\ \A q \in Requests : At(q, "commit") => Slot(q) # Slot(r)
      BY <1>6 DEF Insert
    <2>2. request[r].answer = "none"
      BY <2>1 DEF AdmissionInv, OnceAnswered, At
    <2>3. CASE keyed[Slot(r)] = None /\ Continue(r, "commit") /\ UNCHANGED lock
      <3>1. /\ CallMoves(r) /\ request'[r].point = "commit" /\ request'[r].month = request[r].month
            /\ request'[r].answer = request[r].answer /\ request[r].month <= month
        BY <2>3, ContinueMoves DEF Points
      <3>2. /\ lock'[<<request[r].tenant, request[r].month>>] = r
            /\ request[r].tenant \notin Payg =>
                 Cardinality(Used(request[r].tenant, request[r].month))
                   + Units[request[r].print] <= Quota
        BY <2>1, <2>3 DEF AdmissionInv, LockHeld, Reserved, Holding, At
      <3>3. MoveAllowed(r)
        BY <2>1, <2>2, <2>3, <3>1, <3>2 DEF MoveAllowed
      <3> QED BY <2>1, <3>1, <3>3, TablesKept, LimitStays DEF At
    <2>4. CASE Continue(r, "lookup") /\ Release(r)
      <3>1. /\ CallMoves(r) /\ request'[r].point = "lookup" /\ request'[r].month = request[r].month
            /\ request'[r].answer = request[r].answer /\ request[r].month <= month
        BY <2>4, ContinueMoves DEF Points
      <3>2. MoveAllowed(r)
        BY <2>2, <3>1 DEF MoveAllowed, Holding
      <3> QED BY <2>1, <3>1, <3>2, TablesKept, LimitStays DEF At
    <2> QED BY <1>6, <2>3, <2>4 DEF Insert
  <1>7. CASE Commit(r)
    BY <1>7, Stored DEF Commit
  <1>8. CASE Lookup(r)
    BY <1>8, Replayed, Refused DEF Lookup, At
  <1> QED BY <1>1, <1>2, <1>3, <1>4, <1>5, <1>6, <1>7, <1>8 DEF Step

LEMMA Invariance == Spec => []AdmissionInv
  <1>1. ASSUME AdmissionInv, [Next]_vars PROVE AdmissionInv'
    <2>1. CASE UNCHANGED vars
      <3>1. UNCHANGED <<request, scan, keyed, lock, month>>
        BY <2>1 DEF vars, tables
      <3> QED
        BY <1>1, <3>1 DEF AdmissionInv, TypeOK, RowsOfAnswered, KeysOfRows, LockHeld, KeyFree,
             Reserved, LimitKept, OnceAnswered, AnswerMatches, QuotaNeverExceeded,
             At, Slot, Used, Active, Passed
    <2> QED
      BY <1>1, <2>1, SubmitSafe, StepSafe, FailSafe, EndSafe, SweepSafe, MonthSafe DEF Next
  <1> QED BY <1>1, InitSafe, PTL DEF Spec

-----------------------------------------------------------------------------

\* The calls, tables and locks keep their types.
THEOREM TypeCorrect == Spec => []TypeOK
  <1>1. AdmissionInv => TypeOK
    BY DEF AdmissionInv
  <1> QED BY <1>1, Invariance, PTL

\* The advisory lock makes the quota check of authorizeScan sound: a month's stored
\* scans never use more than the quota of their tenant.
THEOREM QuotaHolds == Spec => []QuotaNeverExceeded
  <1>1. AdmissionInv => QuotaNeverExceeded
    BY DEF AdmissionInv
  <1> QED BY <1>1, Invariance, PTL

\* createScanRequest never answers a key with the scan of another request.
THEOREM AnswersHold == Spec => []AnswerMatches
  <1>1. AdmissionInv => AnswerMatches
    BY DEF AdmissionInv
  <1> QED BY <1>1, Invariance, PTL

\* The limit on active scans is passed by at most one scan per month that turned.
THEOREM ActiveBound == Spec => []ActiveScansBounded
  <1>1. ASSUME AdmissionInv, NEW t \in Tenants
        PROVE  Cardinality(Active(t)) < ActiveLimit + month
    <2>1. Active(t) \cup Passed(t) \in SUBSET Requests /\ Active(t) \in SUBSET (Active(t) \cup Passed(t))
      BY DEF Active, Passed
    <2>2. /\ Cardinality(Active(t)) <= Cardinality(Active(t) \cup Passed(t))
          /\ Cardinality(Active(t)) \in Nat /\ Cardinality(Active(t) \cup Passed(t)) \in Nat
      BY <2>1, RequestsCount
    <2>3. Cardinality(Active(t) \cup Passed(t)) < ActiveLimit + month
      BY <1>1 DEF AdmissionInv, LimitKept
    <2>4. ActiveLimit + month \in Nat
      BY <1>1, NumbersAssumption DEF AdmissionInv, TypeOK, Months
    <2> QED BY <2>2, <2>3, <2>4
  <1>2. AdmissionInv => ActiveScansBounded
    BY <1>1 DEF ActiveScansBounded
  <1> QED BY <1>2, Invariance, PTL

-----------------------------------------------------------------------------
(* The tables change by a commit, the end of a scan, or the sweep only.    *)

LEMMA TableSteps ==
  ASSUME [Next]_vars
  PROVE  \/ UNCHANGED <<scan, keyed>>
         \/ \E r \in Requests : At(r, "commit") /\ Store(r)
         \/ \E s \in Requests : ScanEnds(s)
         \/ Sweep
  <1>1. CASE UNCHANGED vars
    BY <1>1 DEF vars, tables
  <1>2. ASSUME NEW r \in Requests, Submit(r) \/ Step(r) \/ Fail(r)
        PROVE  UNCHANGED <<scan, keyed>> \/ (At(r, "commit") /\ Store(r))
    BY <1>2 DEF Submit, Step, Fail, Reject, SelectExisting, LockTenantMonth,
         AssertBackpressure, CheckQuota, Insert, Commit, Lookup, tables
  <1>3. CASE NextMonth
    BY <1>3 DEF NextMonth, tables
  <1> QED BY <1>1, <1>2, <1>3 DEF Next

\* A scan comes into being only while its key is free, and takes the key.
THEOREM OneScanPerKey == Spec => KeyDecidesOnce
  <1>1. ASSUME AdmissionInv, [Next]_vars, NEW s \in Requests,
               scan[s].status = "ABSENT", scan'[s].status # "ABSENT"
        PROVE  keyed[Slot(s)] = None /\ keyed'[Slot(s)] = s
    <2>1. ASSUME NEW r \in Requests, At(r, "commit"), Store(r)
          PROVE  keyed[Slot(s)] = None /\ keyed'[Slot(s)] = s
      <3>1. s = r
        BY <1>1, <2>1, StoreEffect
      <3> QED BY <1>1, <2>1, <3>1, StoreEffect DEF AdmissionInv, KeyFree
    <2>2. ASSUME NEW q \in Requests, ScanEnds(q) PROVE FALSE
      <3>1. PICK status \in {"DONE", "FAILED"} : scan' = [scan EXCEPT ![q].status = status]
        BY <2>2 DEF ScanEnds
      <3>2. scan[q].status = "ACTIVE" /\ q # s
        BY <1>1, <2>2 DEF ScanEnds
      <3> QED BY <1>1, <3>1, <3>2 DEF AdmissionInv, TypeOK
    <2>3. CASE Sweep
      <3>1. PICK gone \in SUBSET {q \in Requests : scan[q].status \in {"DONE", "FAILED"}} :
              scan' = [q \in Requests |->
                IF q \in gone THEN [scan[q] EXCEPT !.status = "DELETED"] ELSE scan[q]]
        BY <2>3 DEF Sweep
      <3>2. s \notin gone
        BY <1>1
      <3> QED BY <1>1, <3>1, <3>2
    <2> QED BY <1>1, <2>1, <2>2, <2>3, TableSteps
  <1>2. AdmissionInv /\ [Next]_vars =>
          [\A s \in Requests :
             scan[s].status = "ABSENT" /\ scan'[s].status # "ABSENT" =>
               keyed[Slot(s)] = None /\ keyed'[Slot(s)] = s]_vars
    BY <1>1
  <1> QED BY <1>2, Invariance, PTL DEF Spec, KeyDecidesOnce

\* ScanRequest implements Admission: the lock turns the look-up, the two checks and
\* the inserts of concurrent calls into one atomic decision.
THEOREM Refinement == Spec => ImplementsAdmission
  <1>1. Init => Admitted!Init
    BY DEF Init, Admitted!Init, Admitted!Slots, Slots
  <1>2. ASSUME AdmissionInv, [Next]_vars
        PROVE  [Admitted!Next]_<<scan, keyed>>
    <2>1. ASSUME NEW r \in Requests, At(r, "commit"), Store(r)
          PROVE  Admitted!Next
      <3>1. /\ request[r].tenant \in Tenants /\ request[r].key \in Keys \cup Requests
            /\ request[r].print \in Prints /\ request[r].month \in 1..MaxMonth
        BY <1>2, RowTypes DEF AdmissionInv, Months
      <3>2. scan[r].status = "ABSENT" /\ keyed[Slot(r)] = None
        BY <1>2, <2>1, StoreEffect DEF AdmissionInv, KeyFree
      <3>3. request[r].tenant \in Payg \/
              Cardinality(Admitted!Counted(request[r].tenant, request[r].month))
                + Units[request[r].print] <= Quota
        <4>1. \A t, m : Admitted!Counted(t, m) = Used(t, m)
          BY DEF Admitted!Counted, Used
        <4> QED BY <1>2, <2>1, <4>1 DEF AdmissionInv, Reserved, At
      <3>4. Admitted!Admit(r, request[r].tenant, request[r].key, request[r].print, request[r].month)
        <4>1. /\ scan' = [scan EXCEPT ![r] =
                   [status |-> "ACTIVE", tenant |-> request[r].tenant,
                    print |-> request[r].print, month |-> request[r].month]]
              /\ keyed' = [keyed EXCEPT ![<<request[r].tenant, request[r].key>>] = r]
              /\ keyed[<<request[r].tenant, request[r].key>>] = None
          BY <2>1, <3>2 DEF Store, Slot
        <4>2. \A S : Admitted!Cardinality(S) = Cardinality(S)
          BY DEF Admitted!Cardinality, Cardinality
        <4> QED BY <3>2, <3>3, <4>1, <4>2 DEF Admitted!Admit
      <3> QED BY <3>1, <3>4 DEF Admitted!Next
    <2>2. ASSUME NEW s \in Requests, ScanEnds(s)
          PROVE  Admitted!Next
      BY <2>2 DEF ScanEnds, Admitted!Next, Admitted!End
    <2>3. CASE Sweep
      <3>1. PICK gone \in SUBSET {s \in Requests : scan[s].status \in {"DONE", "FAILED"}},
                 old \in SUBSET {x \in Slots : keyed[x] # None} :
              /\ scan' = [s \in Requests |->
                   IF s \in gone THEN [scan[s] EXCEPT !.status = "DELETED"] ELSE scan[s]]
              /\ keyed' = [x \in Slots |-> IF x \in old \/ keyed[x] \in gone THEN None ELSE keyed[x]]
        BY <2>3 DEF Sweep
      <3> DEFINE freed == {x \in Slots : x \in old \/ keyed[x] \in gone}
      <3>2. freed \in SUBSET Admitted!Slots
        BY DEF Slots, Admitted!Slots
      <3>3. keyed' = [x \in Admitted!Slots |-> IF x \in freed THEN None ELSE keyed[x]]
        BY <3>1 DEF Slots, Admitted!Slots
      <3> HIDE DEF freed
      <3>4. Admitted!Forget
        BY <3>1, <3>2, <3>3 DEF Admitted!Forget
      <3> QED BY <3>4 DEF Admitted!Next
    <2> QED BY <1>2, <2>1, <2>2, <2>3, TableSteps
  <1> QED BY <1>1, <1>2, Invariance, PTL DEF Spec, ImplementsAdmission, Admitted!Spec

=============================================================================
