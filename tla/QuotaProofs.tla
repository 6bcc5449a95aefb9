---------------------------- MODULE QuotaProofs ----------------------------
(***************************************************************************)
(* What holds of the quota for every account: any number of messages, of   *)
(* runs at work, and any limits.                                           *)
(***************************************************************************)
EXTENDS Quota, FiniteSetTheorems, TLAPS

LEMMA MessageCount ==
  ASSUME NEW S \in SUBSET Messages
  PROVE  IsFiniteSet(S) /\ Cardinality(S) \in 0 .. Cardinality(Messages)
<1>1. IsFiniteSet(S) /\ Cardinality(S) <= Cardinality(Messages)
  BY FS_Subset, QuotaAssumption
<1>2. Cardinality(S) \in Nat /\ Cardinality(Messages) \in Nat
  BY <1>1, FS_CardinalityType, QuotaAssumption
<1>3. QED
  BY <1>1, <1>2

LEMMA RunCount ==
  ASSUME NEW S \in SUBSET Runs
  PROVE  /\ IsFiniteSet(S)
         /\ Cardinality(S) \in Nat /\ Cardinality(Runs) \in Nat \ {0}
         /\ Cardinality(S) <= Cardinality(Runs)
<1>1. IsFiniteSet(S) /\ Cardinality(S) <= Cardinality(Runs)
  BY FS_Subset, QuotaAssumption
<1>2. Cardinality(S) \in Nat /\ Cardinality(Runs) \in Nat
  BY <1>1, FS_CardinalityType, QuotaAssumption
<1>3. Cardinality(Runs) # 0
  BY FS_EmptySet, QuotaAssumption
<1>4. QED
  BY <1>1, <1>2, <1>3

----------------------------------------------------------------------------
(***************************************************************************)
(* Types.                                                                  *)
(***************************************************************************)
LEMMA StatusType == TypeOK => QuotaStatus \in Status
<1> SUFFICES ASSUME TypeOK PROVE QuotaStatus \in Status
  OBVIOUS
<1>1. CountServed(month) \in 0 .. Cardinality(Messages)
  BY MessageCount DEF CountServed, WeatherRows, AccountRows
<1>2. HardLimit(CountServed(month - 1)) \in {Soft, Hard}
  BY DEF HardLimit
<1>3. /\ Notified(month) \in BOOLEAN
      /\ (account.live /\ account.subscribed) \in BOOLEAN
      /\ month \in Months
  BY DEF TypeOK, Notified
<1>4. QED
  BY <1>1, <1>2, <1>3 DEF QuotaStatus, Status

LEMMA BasisType ==
  ASSUME NEW kind, NEW status \in Quotas
  PROVE  Basis(kind, status) \in Bases
  BY DEF Basis, Bases, Limits, Quotas, Status

LEMMA IdleType == Idle \in RunType
  BY DEF Idle, RunType, Quotas

LEMMA RecordType ==
  ASSUME TypeOK, NEW r \in Runs, RunKnows(r), run[r].pc # "idle",
         NEW outcome \in Outcomes, NEW kind \in {"null", "weather", "avalanche"},
         RecordOutcome(r, outcome, kind)
  PROVE  TypeOK'
<1> DEFINE m == run[r].msg
<1>1. m \in Messages /\ run[r].quota \in Quotas /\ request[m] \in RequestType
  BY DEF TypeOK, RunKnows, RunType
<1>2. Basis(kind, run[r].quota) \in Bases
  BY <1>1, BasisType
<1>3. account.live \in BOOLEAN
  BY DEF TypeOK
<1>4. (outcome = "quota_exceeded" /\ CutOffReplied(run[r].quota)) \in BOOLEAN
  OBVIOUS
<1>5. request' \in [Messages -> RequestType]
  BY <1>1, <1>2, <1>3, <1>4 DEF RecordOutcome, RequestType, TypeOK
<1>6. run' \in [Runs -> RunType]
  BY IdleType DEF RecordOutcome, TypeOK
<1>7. QED
  BY <1>5, <1>6 DEF RecordOutcome, TypeOK

\* The three ways a run records an outcome, as one, with what is true of the run.
Recording(r) ==
  /\ run[r].pc # "idle"
  /\ \E outcome \in Outcomes, kind \in {"null", "weather", "avalanche"} :
       /\ RecordOutcome(r, outcome, kind)
       /\ kind = "weather" => run[r].pc = "codec"
       /\ outcome = "ok" /\ kind = "weather" /\ run[r].quota # NoQuota
            => ~OverHard(run[r].quota)
       /\ outcome = "quota_exceeded"
            => kind = "weather" /\ run[r].quota # NoQuota /\ ~run[r].quota.subscribed

LEMMA Records ==
  ASSUME NEW r \in Runs, UnknownToken(r) \/ Served(r) \/ Refused(r)
  PROVE  Recording(r)
<1>1. CASE UnknownToken(r)
  BY <1>1 DEF UnknownToken, Recording, Outcomes
<1>2. CASE Refused(r)
  BY <1>2 DEF Refused, Recording, Outcomes
<1>3. CASE Served(r)
  <2>1. PICK kind \in {"weather", "avalanche"} :
          RecordOutcome(r, IF /\ run[r].quota # NoQuota /\ kind = "weather"
                              /\ OverHard(run[r].quota)
                           THEN "quota_exceeded" ELSE "ok", kind)
    BY <1>3 DEF Served
  <2>2. run[r].pc = "codec"
    BY <1>3 DEF Served
  <2>3. CASE run[r].quota # NoQuota /\ kind = "weather" /\ OverHard(run[r].quota)
    BY <2>1, <2>2, <2>3 DEF Recording, Outcomes, OverHard
  <2>4. CASE ~(run[r].quota # NoQuota /\ kind = "weather" /\ OverHard(run[r].quota))
    <3>1. RecordOutcome(r, "ok", kind)
      BY <2>1, <2>4
    <3>2. QED
      BY <3>1, <2>2, <2>4 DEF Recording, Outcomes
  <2>5. QED
    BY <2>3, <2>4
<1>4. QED
  BY <1>1, <1>2, <1>3

LEMMA ReadType ==
  ASSUME TypeOK, NEW r \in Runs, ReadQuota(r)
  PROVE  TypeOK'
<1>1. PICK quota \in {QuotaStatus, NoQuota} :
        run' = [run EXCEPT ![r].pc = "codec", ![r].quota = quota]
  BY DEF ReadQuota
<1>2. quota \in Quotas
  BY StatusType DEF Quotas
<1>3. run' \in [Runs -> RunType]
  BY <1>1, <1>2 DEF TypeOK, RunType
<1>4. QED
  BY <1>3 DEF TypeOK, ReadQuota

LEMMA TypeStep ==
  ASSUME IInv, [Next]_vars
  PROVE  TypeOK'
<1> USE DEF IInv
<1>1. CASE UNCHANGED vars
  BY <1>1 DEF vars, TypeOK
<1>2. ASSUME NEW m \in Messages, Receive(m) PROVE TypeOK'
  BY <1>2 DEF Receive, TypeOK, RequestType
<1>3. ASSUME NEW r \in Runs, RunStep(r) PROVE TypeOK'
  <2>1. CASE Start(r)
    <3>1. PICK m \in Messages : run' = [run EXCEPT ![r] = [Idle EXCEPT !.pc = "gate", !.msg = m]]
      BY <2>1 DEF Start
    <3>2. [Idle EXCEPT !.pc = "gate", !.msg = m] \in RunType
      BY DEF Idle, RunType, Quotas
    <3>3. QED
      BY <2>1, <3>1, <3>2 DEF Start, TypeOK
  <2>2. CASE ReadQuota(r)
    BY <2>2, ReadType
  <2>3. CASE UnknownToken(r) \/ Served(r) \/ Refused(r)
    BY <2>3, Records, RecordType DEF Recording
  <2>4. CASE Abandon(r)
    BY <2>4, IdleType DEF Abandon, TypeOK
  <2>5. QED
    BY <1>3, <2>1, <2>2, <2>3, <2>4 DEF RunStep
<1>4. CASE SubscriptionChanges
  BY <1>4 DEF SubscriptionChanges, TypeOK
<1>5. CASE DeleteAccount
  BY <1>5 DEF DeleteAccount, TypeOK
<1>6. CASE NextMonth
  BY <1>6, QuotaAssumption DEF NextMonth, TypeOK, Months
<1>7. QED
  BY <1>1, <1>2, <1>3, <1>4, <1>5, <1>6 DEF Next

----------------------------------------------------------------------------
(***************************************************************************)
(* What was read stays true: rows that have an outcome, the month a        *)
(* message was received in and the count of a month never go back.         *)
(***************************************************************************)
Persists ==
  /\ \A m \in Messages : request[m].outcome # "null" => request'[m] = request[m]
  /\ \A m \in Messages : request[m].created # NoMonth => request'[m].created = request[m].created
  /\ month <= month'

LEMMA ServedCount ==
  ASSUME NEW mon
  PROVE  IsFiniteSet(ServedIn(mon)) /\ Cardinality(ServedIn(mon)) \in Nat
  BY MessageCount DEF ServedIn

LEMMA ServedGrows ==
  ASSUME Persists, NEW mon
  PROVE  /\ ServedIn(mon) \subseteq ServedIn(mon)'
         /\ IsFiniteSet(ServedIn(mon)') /\ Cardinality(ServedIn(mon)') \in Nat
         /\ Cardinality(ServedIn(mon)) <= Cardinality(ServedIn(mon)')
<1>1. ServedIn(mon) \subseteq ServedIn(mon)'
  BY DEF Persists, ServedIn
<1>2. IsFiniteSet(ServedIn(mon)') /\ Cardinality(ServedIn(mon)') \in Nat
  BY MessageCount DEF ServedIn
<1>3. QED
  BY <1>1, <1>2, FS_Subset

LEMMA ToldStays ==
  ASSUME Persists, NEW mon, \E n \in CutOffIn(mon) : request[n].told
  PROVE  \E n \in CutOffIn(mon)' : request'[n].told
  BY DEF Persists, CutOffIn

LEMMA RunStillKnows ==
  ASSUME TypeOK, TypeOK', Persists, NEW r \in Runs, RunKnows(r), run'[r] = run[r]
  PROVE  RunKnows(r)'
<1>1. ASSUME run[r].pc # "idle"
      PROVE  /\ run[r].msg \in Messages
             /\ request[run[r].msg].created # NoMonth
             /\ request'[run[r].msg].created = request[run[r].msg].created
  BY <1>1 DEF RunKnows, Persists
<1>2. ASSUME run[r].pc = "codec", run[r].quota # NoQuota,
             NEW mon, mon = run[r].quota.month
      PROVE  /\ request'[run[r].msg].created <= mon
             /\ mon <= month'
             /\ run[r].quota.served <= Cardinality(ServedIn(mon)')
             /\ run[r].quota.notified => \E n \in CutOffIn(mon)' : request'[n].told
  <2>1. run[r].quota \in Status
    BY <1>2 DEF TypeOK, RunType, Quotas
  <2>2. /\ mon \in Int /\ month \in Int /\ month' \in Int
        /\ run[r].quota.served \in Int
    BY <1>2, <2>1, QuotaAssumption DEF Status, Months, TypeOK
  <2>3. mon <= month /\ run[r].quota.served <= Cardinality(ServedIn(mon))
    BY <1>2 DEF RunKnows
  <2>4. mon <= month'
    BY <2>2, <2>3 DEF Persists
  <2>5. run[r].quota.served <= Cardinality(ServedIn(mon)')
    BY <2>2, <2>3, ServedCount, ServedGrows
  <2>6. run[r].quota.notified => \E n \in CutOffIn(mon)' : request'[n].told
    BY <1>2, ToldStays DEF RunKnows
  <2>7. request'[run[r].msg].created <= mon
    BY <1>1, <1>2 DEF RunKnows
  <2>8. QED
    BY <2>4, <2>5, <2>6, <2>7
<1>3. QED
  BY <1>1, <1>2 DEF RunKnows, ServedIn, CutOffIn

LEMMA RequestStillKnows ==
  ASSUME TypeOK, TypeOK', Persists, NEW m \in Messages, RequestKnows(m),
         request'[m] = request[m]
  PROVE  RequestKnows(m)'
<1>1. month \in Int /\ month' \in Int
  BY QuotaAssumption DEF TypeOK, Months
<1>2. ASSUME request[m].created # NoMonth PROVE request[m].created <= month'
  BY <1>1, <1>2, QuotaAssumption DEF RequestKnows, Persists, TypeOK, RequestType, Months
<1>3. ASSUME request[m].basis # NoQuota PROVE request[m].basis.month <= month'
  BY <1>1, <1>3, QuotaAssumption
     DEF RequestKnows, Persists, TypeOK, RequestType, Bases, Limits, Months
<1>4. ASSUME request[m].outcome = "quota_exceeded", ~request[m].told,
             NEW mon, mon = request[m].basis.month
      PROVE  \E n \in CutOffIn(mon)' : request'[n].told
  BY <1>4, ToldStays DEF RequestKnows
<1>5. ASSUME Limited(m), NEW mon, mon = request[m].created, m \in ServedIn(mon)'
      PROVE  request[m].basis.served < Cardinality(ServedIn(mon)')
  <2>1. m \in ServedIn(mon)
    BY <1>5 DEF ServedIn
  <2>2. request[m].basis.served < Cardinality(ServedIn(mon))
    BY <1>5, <2>1 DEF RequestKnows
  <2>3. request[m].basis.served \in Nat
    BY <1>5, MessageCount DEF Limited, TypeOK, RequestType, Bases, Limits
  <2>4. QED
    BY <2>2, <2>3, ServedCount, ServedGrows
<1>6. QED
  BY <1>2, <1>3, <1>4, <1>5 DEF RequestKnows, Limited, ServedIn, CutOffIn

\* A run that is idle knows nothing.
LEMMA IdleKnows ==
  ASSUME NEW r \in Runs, run'[r] = Idle
  PROVE  RunKnows(r)'
  BY DEF RunKnows, Idle

LEMMA RecordingPersists ==
  ASSUME IInv, NEW r \in Runs, Recording(r)
  PROVE  Persists /\ \A m \in Messages \ {run[r].msg} : request'[m] = request[m]
<1>1. run[r].msg \in Messages
  BY DEF IInv, RunKnows, Recording
<1>2. month \in Int /\ month' = month
  BY QuotaAssumption DEF IInv, TypeOK, Months, Recording, RecordOutcome
<1>3. \A m \in Messages : request[m].outcome # "null" => request'[m] = request[m]
  BY <1>1 DEF IInv, TypeOK, Recording, RecordOutcome
<1>4. \A m \in Messages : request'[m].created = request[m].created
  BY <1>1 DEF IInv, TypeOK, RequestType, Recording, RecordOutcome
<1>5. \A m \in Messages \ {run[r].msg} : request'[m] = request[m]
  BY <1>1 DEF IInv, TypeOK, Recording, RecordOutcome
<1>6. QED
  BY <1>2, <1>3, <1>4, <1>5 DEF Persists

(***************************************************************************)
(* The row that gets its outcome: the standing it was judged by is the     *)
(* run's, and it counts itself on top of it.                               *)
(***************************************************************************)
LEMMA RecordedKnows ==
  ASSUME IInv, TypeOK', NEW r \in Runs, Recording(r),
         NEW m \in Messages, m = run[r].msg, request[m].outcome = "null"
  PROVE  RequestKnows(m)'
<1> DEFINE quota == run[r].quota
<1>1. m = run[r].msg
  OBVIOUS
<1>2. PICK outcome \in Outcomes, kind \in {"null", "weather", "avalanche"} :
        /\ RecordOutcome(r, outcome, kind)
        /\ kind = "weather" => run[r].pc = "codec"
        /\ outcome = "ok" /\ kind = "weather" /\ quota # NoQuota => ~OverHard(quota)
        /\ outcome = "quota_exceeded"
             => kind = "weather" /\ quota # NoQuota /\ ~quota.subscribed
  BY DEF Recording
<1>3. /\ request'[m].created = request[m].created
      /\ request'[m].outcome = outcome /\ request'[m].kind = kind
      /\ outcome = "quota_exceeded" /\ ~request'[m].told => quota.notified
      /\ request'[m].basis = Basis(kind, quota)
      /\ month' = month
  BY <1>1, <1>2 DEF RecordOutcome, CutOffReplied, IInv, TypeOK, RequestType
<1>4. request[m].created # NoMonth /\ request[m].created \in Int
  BY <1>1, QuotaAssumption DEF IInv, RunKnows, Recording, TypeOK, RequestType, Months
<1>5. request[m].created <= month
  BY <1>4 DEF IInv, RequestKnows
<1>6. ASSUME Basis(kind, quota) # NoQuota
      PROVE  /\ kind = "weather" /\ run[r].pc = "codec" /\ quota # NoQuota
             /\ ~quota.subscribed
             /\ Basis(kind, quota).month = quota.month
             /\ Basis(kind, quota).served = quota.served
             /\ Basis(kind, quota).hard = quota.hard
             /\ request[m].created <= quota.month /\ quota.month <= month
             /\ quota.served <= Cardinality(ServedIn(quota.month))
             /\ quota.notified => \E n \in CutOffIn(quota.month) : request[n].told
             /\ quota \in Status
  <2>1. /\ kind = "weather" /\ run[r].pc = "codec" /\ quota # NoQuota /\ ~quota.subscribed
        /\ Basis(kind, quota).month = quota.month
        /\ Basis(kind, quota).served = quota.served
        /\ Basis(kind, quota).hard = quota.hard
    BY <1>2, <1>6 DEF Basis
  <2>2. quota \in Status
    BY <2>1 DEF IInv, TypeOK, RunType, Quotas
  <2>3. QED
    BY <1>1, <2>1, <2>2 DEF IInv, RunKnows
<1>7. ASSUME outcome = "quota_exceeded", ~request'[m].told,
             NEW mon, mon = request'[m].basis.month
      PROVE  \E n \in CutOffIn(mon)' : request'[n].told
  <2>1. /\ kind = "weather" /\ quota # NoQuota /\ ~quota.subscribed
        /\ Basis(kind, quota) = [month |-> quota.month, served |-> quota.served,
                                 hard |-> quota.hard]
    BY <1>2, <1>7 DEF Basis
  <2>2. quota.notified
    BY <1>3, <1>7
  <2>3. \E n \in CutOffIn(quota.month) : request[n].told
    BY <1>1, <1>2, <2>1, <2>2 DEF IInv, RunKnows
  <2>4. quota.month = mon
    BY <1>3, <1>7, <2>1
  <2>5. \E n \in CutOffIn(mon) : request[n].told
    BY <2>3, <2>4
  <2>6. \E n \in CutOffIn(mon)' : request'[n].told
    BY <2>5, RecordingPersists, ToldStays
  <2>7. QED
    BY <2>6
<1>8. outcome = "quota_exceeded" => request'[m].basis # NoQuota
  <2> SUFFICES ASSUME outcome = "quota_exceeded" PROVE Basis(kind, quota) # NoQuota
    BY <1>3
  <2>1. /\ quota \in Status
        /\ Basis(kind, quota) = [month |-> quota.month, served |-> quota.served,
                                 hard |-> quota.hard]
    BY <1>2 DEF Basis, IInv, TypeOK, RunType, Quotas
  <2>2. Basis(kind, quota) \in Limits
    BY <2>1 DEF Limits, Status
  <2>3. QED
    BY <2>2, NoQuotaAssumption
<1>9. ASSUME Limited(m)', NEW mon, mon = request[m].created, m \in ServedIn(mon)'
      PROVE  request'[m].basis.served < Cardinality(ServedIn(mon)')
  <2>1. Basis(kind, quota) # NoQuota /\ quota.month = mon
    BY <1>3, <1>6, <1>9 DEF Limited
  <2>2. quota.served <= Cardinality(ServedIn(mon)) /\ quota.served \in Nat
    BY <1>6, <2>1, MessageCount DEF Status
  <2>3. m \notin ServedIn(mon)
    BY <1>1 DEF ServedIn
  <2>4. /\ Cardinality(ServedIn(mon)) <= Cardinality(ServedIn(mon)')
        /\ Cardinality(ServedIn(mon)) # Cardinality(ServedIn(mon)')
    BY <1>9, <2>3, RecordingPersists, ServedGrows, FS_Subset
  <2>5. QED
    BY <1>3, <1>6, <2>1, <2>2, <2>4, ServedCount, RecordingPersists, ServedGrows
<1>10. request'[m].basis # NoQuota => /\ request'[m].created <= request'[m].basis.month
                                    /\ request'[m].basis.month <= month'
  BY <1>3, <1>6
<1>11. QED
  BY <1>3, <1>4, <1>5, <1>7, <1>8, <1>9, <1>10 DEF RequestKnows, Limited, ServedIn, CutOffIn

(***************************************************************************)
(* The run that reads the standing.  The rows it counts are forecasts      *)
(* served, and a cut-off it is told of was recorded in this very month,    *)
(* since no message is judged in a month before it was received.           *)
(***************************************************************************)
LEMMA StatusKnows ==
  ASSUME IInv
  PROVE  /\ QuotaStatus.month = month
         /\ QuotaStatus.served <= Cardinality(ServedIn(month))
         /\ QuotaStatus.notified => \E n \in CutOffIn(month) : request[n].told
<1>1. {m \in WeatherRows(month) : request[m].outcome = "ok"} \subseteq ServedIn(month)
  BY DEF WeatherRows, AccountRows, ServedIn
<1>2. CountServed(month) <= Cardinality(ServedIn(month))
  BY <1>1, ServedCount, FS_Subset DEF CountServed
<1>3. ASSUME Notified(month) PROVE \E n \in CutOffIn(month) : request[n].told
  <2>1. PICK m \in Messages : request[m].created = month /\ request[m].outcome = "quota_exceeded"
    BY <1>3 DEF Notified, WeatherRows, AccountRows
  <2>2. month \in Int /\ month # NoMonth
    BY QuotaAssumption DEF IInv, TypeOK, Months
  <2>3. /\ request[m].basis \in Limits
        /\ request[m].created <= request[m].basis.month
        /\ request[m].basis.month <= month
    BY <2>1, <2>2 DEF IInv, RequestKnows, TypeOK, RequestType, Bases
  <2>4. request[m].basis.month = month
    BY <2>1, <2>2, <2>3, QuotaAssumption DEF Limits, Months
  <2>5. CASE request[m].told
    BY <2>1, <2>5 DEF CutOffIn
  <2>6. CASE ~request[m].told
    BY <2>1, <2>4, <2>6 DEF IInv, RequestKnows
  <2>7. QED
    BY <2>5, <2>6
<1>4. QED
  BY <1>2, <1>3 DEF QuotaStatus

LEMMA ReadKnows ==
  ASSUME IInv, NEW r \in Runs, ReadQuota(r)
  PROVE  RunKnows(r)'
<1>1. PICK quota \in {QuotaStatus, NoQuota} :
        run' = [run EXCEPT ![r].pc = "codec", ![r].quota = quota]
  BY DEF ReadQuota
<1>2. /\ run'[r].quota = quota /\ run'[r].pc = "codec" /\ run'[r].msg = run[r].msg
      /\ month' = month /\ request' = request
  BY <1>1 DEF ReadQuota, IInv, TypeOK, RunType
<1>3. run[r].msg \in Messages /\ request[run[r].msg].created # NoMonth
  BY DEF ReadQuota, IInv, RunKnows
<1>4. request[run[r].msg].created <= month /\ month <= month
  BY <1>3, QuotaAssumption DEF IInv, RequestKnows, TypeOK, Months
<1>5. ASSUME run'[r].quota # NoQuota, NEW mon, mon = run'[r].quota.month
      PROVE  /\ mon = month
             /\ run'[r].quota.served <= Cardinality(ServedIn(mon)')
             /\ run'[r].quota.notified => \E n \in CutOffIn(mon)' : request'[n].told
  <2>1. quota = QuotaStatus
    BY <1>2, <1>5
  <2>2. mon = month
    BY <1>2, <1>5, <2>1, StatusKnows
  <2>3. ServedIn(mon)' = ServedIn(mon) /\ CutOffIn(mon)' = CutOffIn(mon)
    BY <1>2 DEF ServedIn, CutOffIn
  <2>4. QED
    BY <1>2, <2>1, <2>2, <2>3, StatusKnows
<1>6. QED
  BY <1>2, <1>3, <1>4, <1>5 DEF RunKnows, ServedIn, CutOffIn

----------------------------------------------------------------------------
(***************************************************************************)
(* The bound.  Nothing but ReadQuota admits a run, and it does so only     *)
(* while fewer than `limit` forecasts are counted; a forecast served takes *)
(* its run out of the admitted.                                            *)
(***************************************************************************)
LEMMA JudgedCount ==
  ASSUME NEW mon, NEW limit
  PROVE  /\ IsFiniteSet(Judged(mon, limit)) /\ Cardinality(Judged(mon, limit)) \in Nat
         /\ IsFiniteSet(Judged(mon, limit)') /\ Cardinality(Judged(mon, limit)') \in Nat
  BY MessageCount DEF Judged, ServedIn

LEMMA AdmittedCount ==
  ASSUME NEW mon, NEW limit
  PROVE  /\ IsFiniteSet(Admitted(mon, limit)) /\ Cardinality(Admitted(mon, limit)) \in Nat
         /\ Cardinality(Admitted(mon, limit)) <= Cardinality(Runs)
         /\ IsFiniteSet(Admitted(mon, limit)') /\ Cardinality(Admitted(mon, limit)') \in Nat
         /\ Cardinality(Admitted(mon, limit)') <= Cardinality(Runs)
         /\ Cardinality(Runs) \in Nat \ {0}
<1>1. Admitted(mon, limit) \in SUBSET Runs /\ Admitted(mon, limit)' \in SUBSET Runs
  BY DEF Admitted
<1>2. QED
  BY <1>1, RunCount

\* No forecast is served, and nobody is admitted.
LEMMA ExcessStays ==
  ASSUME ExcessBounded,
         \A mon \in Months, limit \in {Soft, Hard} :
           /\ Judged(mon, limit)' \subseteq Judged(mon, limit)
           /\ Admitted(mon, limit)' \subseteq Admitted(mon, limit)
  PROVE  ExcessBounded'
<1> SUFFICES ASSUME NEW mon \in Months, NEW limit \in {Soft, Hard}
             PROVE  Cardinality(Judged(mon, limit)') + Cardinality(Admitted(mon, limit)')
                      <= limit + Cardinality(Runs) - 1
  BY DEF ExcessBounded, Months
<1>1. /\ Cardinality(Judged(mon, limit)') <= Cardinality(Judged(mon, limit))
      /\ Cardinality(Admitted(mon, limit)') <= Cardinality(Admitted(mon, limit))
  BY JudgedCount, AdmittedCount, FS_Subset
<1>2. Cardinality(Judged(mon, limit)) + Cardinality(Admitted(mon, limit))
        <= limit + Cardinality(Runs) - 1
  BY DEF ExcessBounded
<1>3. limit \in Nat
  BY QuotaAssumption
<1>4. QED
  BY <1>1, <1>2, <1>3, JudgedCount, AdmittedCount

LEMMA ExcessRead ==
  ASSUME IInv, NEW r \in Runs, ReadQuota(r)
  PROVE  ExcessBounded'
<1> SUFFICES ASSUME NEW mon \in Months, NEW limit \in {Soft, Hard}
             PROVE  Cardinality(Judged(mon, limit)') + Cardinality(Admitted(mon, limit)')
                      <= limit + Cardinality(Runs) - 1
  BY DEF ExcessBounded, Months
<1>1. PICK quota \in {QuotaStatus, NoQuota} :
        run' = [run EXCEPT ![r].pc = "codec", ![r].quota = quota]
  BY DEF ReadQuota
<1>2. request' = request /\ account' = account
  BY DEF ReadQuota
<1>3. Judged(mon, limit)' = Judged(mon, limit)
  BY <1>2 DEF Judged, ServedIn, Limited
<1>4. Admitted(mon, limit)' \subseteq Admitted(mon, limit) \union {r}
  BY <1>1, <1>2 DEF Admitted, OverHard, IInv, TypeOK
<1>5. CASE r \notin Admitted(mon, limit)'
  <2>1. Cardinality(Admitted(mon, limit)') <= Cardinality(Admitted(mon, limit))
    BY <1>4, <1>5, AdmittedCount, FS_Subset
  <2>2. Cardinality(Judged(mon, limit)) + Cardinality(Admitted(mon, limit))
          <= limit + Cardinality(Runs) - 1
    BY DEF IInv, ExcessBounded
  <2>3. QED
    BY <1>3, <2>1, <2>2, JudgedCount, AdmittedCount, QuotaAssumption
<1>6. CASE r \in Admitted(mon, limit)'
  <2>1. /\ account.live /\ run'[r].quota # NoQuota
        /\ run'[r].quota.month = mon /\ run'[r].quota.hard = limit
        /\ ~run'[r].quota.subscribed /\ ~(run'[r].quota.served >= run'[r].quota.hard)
    BY <1>2, <1>6 DEF Admitted, OverHard
  <2>2. run'[r].quota = QuotaStatus
    BY <1>1, <2>1 DEF IInv, TypeOK, RunType
  <2>3. mon = month /\ CountServed(mon) \in Nat /\ CountServed(mon) < limit
    <3>1. mon = month /\ ~(CountServed(mon) >= limit)
      BY <2>1, <2>2 DEF QuotaStatus
    <3>2. CountServed(mon) \in Nat
      BY MessageCount DEF CountServed, WeatherRows, AccountRows
    <3>3. QED
      BY <3>1, <3>2, QuotaAssumption
  <2>4. Judged(mon, limit) \subseteq {m \in WeatherRows(mon) : request[m].outcome = "ok"}
    BY <2>1 DEF Judged, ServedIn, WeatherRows, AccountRows
  <2>5. IsFiniteSet({m \in WeatherRows(mon) : request[m].outcome = "ok"})
    BY MessageCount DEF WeatherRows, AccountRows
  <2>6. Cardinality(Judged(mon, limit)) <= CountServed(mon)
    BY <2>4, <2>5, FS_Subset DEF CountServed
  <2>7. QED
    BY <1>3, <2>3, <2>6, JudgedCount, AdmittedCount, QuotaAssumption
<1>7. QED
  BY <1>5, <1>6

LEMMA ExcessRecorded ==
  ASSUME IInv, NEW r \in Runs, Recording(r)
  PROVE  ExcessBounded'
<1> SUFFICES ASSUME NEW mon \in Months, NEW limit \in {Soft, Hard}
             PROVE  Cardinality(Judged(mon, limit)') + Cardinality(Admitted(mon, limit)')
                      <= limit + Cardinality(Runs) - 1
  BY DEF ExcessBounded, Months
<1> DEFINE quota == run[r].quota
<1>1. PICK m \in Messages : m = run[r].msg
  BY DEF IInv, RunKnows, Recording
<1>2. PICK outcome \in Outcomes, kind \in {"null", "weather", "avalanche"} :
        /\ RecordOutcome(r, outcome, kind)
        /\ kind = "weather" => run[r].pc = "codec"
        /\ outcome = "ok" /\ kind = "weather" /\ quota # NoQuota => ~OverHard(quota)
  BY DEF Recording
<1>3. \A n \in Messages \ {m} : request'[n] = request[n]
  BY <1>1, RecordingPersists
<1>4. run'[r] = Idle /\ \A q \in Runs \ {r} : run'[q] = run[q]
  BY <1>2 DEF RecordOutcome, IInv, TypeOK
<1>5. account' = account
  BY <1>2 DEF RecordOutcome
<1>6. Admitted(mon, limit)' \subseteq Admitted(mon, limit) \ {r}
  BY <1>4, <1>5 DEF Admitted, Idle, OverHard
<1>7. Judged(mon, limit)' \subseteq Judged(mon, limit) \union {m}
  BY <1>3 DEF Judged, ServedIn, Limited
<1>8. Cardinality(Judged(mon, limit)) + Cardinality(Admitted(mon, limit))
        <= limit + Cardinality(Runs) - 1
  BY DEF IInv, ExcessBounded
<1>9. CASE Judged(mon, limit)' \subseteq Judged(mon, limit)
  <2>1. /\ Cardinality(Judged(mon, limit)') <= Cardinality(Judged(mon, limit))
        /\ Cardinality(Admitted(mon, limit)') <= Cardinality(Admitted(mon, limit))
    BY <1>6, <1>9, JudgedCount, AdmittedCount, FS_Subset
  <2>2. QED
    BY <1>8, <2>1, JudgedCount, AdmittedCount, QuotaAssumption
<1>10. CASE m \in Judged(mon, limit)' /\ m \notin Judged(mon, limit)
  <2>1. request[m].outcome = "null"
    BY <1>1, <1>2, <1>10 DEF RecordOutcome, Judged, ServedIn, Limited
  <2>2. /\ request'[m].created = request[m].created
        /\ request'[m].outcome = outcome /\ request'[m].kind = kind
        /\ request'[m].owned => account.live
        /\ request'[m].basis = Basis(kind, quota)
    BY <1>1, <1>2, <2>1 DEF RecordOutcome, IInv, TypeOK, RequestType
  <2>3. /\ request'[m].created = mon /\ kind = "weather" /\ outcome = "ok" /\ account.live
        /\ Basis(kind, quota) # NoQuota
        /\ Basis(kind, quota).month = mon /\ Basis(kind, quota).hard = limit
    BY <1>10, <2>2 DEF Judged, ServedIn, Limited
  <2>4. /\ quota # NoQuota /\ ~quota.subscribed /\ quota.month = mon /\ quota.hard = limit
    BY <2>3 DEF Basis
  <2>5. r \in Admitted(mon, limit)
    BY <1>2, <2>3, <2>4 DEF Admitted
  <2>6. /\ IsFiniteSet(Admitted(mon, limit) \ {r})
        /\ Cardinality(Admitted(mon, limit) \ {r}) = Cardinality(Admitted(mon, limit)) - 1
    BY <2>5, AdmittedCount, FS_RemoveElement
  <2>7. Cardinality(Admitted(mon, limit)') <= Cardinality(Admitted(mon, limit)) - 1
    BY <1>6, <2>6, FS_Subset
  <2>8. /\ IsFiniteSet(Judged(mon, limit) \union {m})
        /\ Cardinality(Judged(mon, limit) \union {m}) = Cardinality(Judged(mon, limit)) + 1
    BY <1>10, JudgedCount, FS_AddElement
  <2>9. Cardinality(Judged(mon, limit)') <= Cardinality(Judged(mon, limit)) + 1
    BY <1>7, <2>8, FS_Subset
  <2>10. QED
    BY <1>8, <2>7, <2>9, JudgedCount, AdmittedCount, QuotaAssumption
<1>11. QED
  BY <1>7, <1>9, <1>10

----------------------------------------------------------------------------
(***************************************************************************)
(* The inductive invariant.                                                *)
(***************************************************************************)
LEMMA InitInv == Init => IInv
<1> SUFFICES ASSUME Init PROVE IInv
  OBVIOUS
<1> USE DEF Init
<1>1. TypeOK
  BY QuotaAssumption, IdleType
     DEF TypeOK, Months, RequestType, Unreceived, Outcomes, Bases
<1>2. \A r \in Runs : RunKnows(r)
  BY DEF RunKnows, Idle
<1>3. \A m \in Messages : RequestKnows(m)
  BY DEF RequestKnows, Unreceived, Limited
<1>4. ExcessBounded
  <2> SUFFICES ASSUME NEW mon \in Months, NEW limit \in {Soft, Hard}
               PROVE  Cardinality(Judged(mon, limit)) + Cardinality(Admitted(mon, limit))
                        <= limit + Cardinality(Runs) - 1
    BY DEF ExcessBounded
  <2>1. Judged(mon, limit) = {} /\ Admitted(mon, limit) = {}
    BY DEF Judged, ServedIn, Admitted, Unreceived, Idle
  <2>2. QED
    BY <2>1, FS_EmptySet, AdmittedCount, QuotaAssumption
<1>5. QED
  BY <1>1, <1>2, <1>3, <1>4 DEF IInv

\* A step that leaves the requests alone, and every run but r, persists and admits nobody else.
LEMMA QuietStep ==
  ASSUME IInv, TypeOK', UNCHANGED request, month <= month',
         \A q \in Runs : run'[q] = run[q] \/ RunKnows(q)'
  PROVE  /\ \A r \in Runs : RunKnows(r)'
         /\ \A m \in Messages : RequestKnows(m)'
<1>1. Persists
  BY DEF Persists
<1>2. \A r \in Runs : RunKnows(r)'
  BY <1>1, RunStillKnows DEF IInv
<1>3. \A m \in Messages : RequestKnows(m)'
  BY <1>1, RequestStillKnows DEF IInv
<1>4. QED
  BY <1>2, <1>3

LEMMA ReceiveInv ==
  ASSUME IInv, TypeOK', NEW m \in Messages, Receive(m)
  PROVE  IInv'
<1>1. /\ request[m] = Unreceived
      /\ request'[m] = [Unreceived EXCEPT !.created = month]
      /\ \A n \in Messages \ {m} : request'[n] = request[n]
      /\ month' = month /\ run' = run /\ account' = account
      /\ month \in Int /\ month # NoMonth
  BY QuotaAssumption DEF Receive, IInv, RequestKnows, TypeOK, Months
<1>2. Persists
  BY <1>1 DEF Persists, Unreceived
<1>3. \A r \in Runs : RunKnows(r)'
  BY <1>1, <1>2, RunStillKnows DEF IInv
<1>4. RequestKnows(m)'
  BY <1>1 DEF RequestKnows, Unreceived, Limited
<1>5. \A n \in Messages \ {m} : RequestKnows(n)'
  BY <1>1, <1>2, RequestStillKnows DEF IInv
<1>6. ExcessBounded'
  <2>1. ASSUME NEW mon \in Months, NEW limit \in {Soft, Hard}
        PROVE  /\ Judged(mon, limit)' \subseteq Judged(mon, limit)
               /\ Admitted(mon, limit)' \subseteq Admitted(mon, limit)
    BY <1>1 DEF Judged, ServedIn, Limited, Unreceived, Admitted, OverHard
  <2>2. QED
    BY <2>1, ExcessStays DEF IInv
<1>7. QED
  BY <1>3, <1>4, <1>5, <1>6 DEF IInv

LEMMA RecordingInv ==
  ASSUME IInv, TypeOK', NEW r \in Runs, Recording(r)
  PROVE  IInv'
<1>1. run'[r] = Idle /\ \A q \in Runs \ {r} : run'[q] = run[q]
  BY DEF Recording, RecordOutcome, IInv, TypeOK
<1>2. \A q \in Runs : RunKnows(q)'
  BY <1>1, IdleKnows, RecordingPersists, RunStillKnows DEF IInv
<1>3. ASSUME NEW m \in Messages PROVE RequestKnows(m)'
  <2>1. CASE m = run[r].msg /\ request[m].outcome = "null"
    BY <2>1, RecordedKnows
  <2>2. CASE m # run[r].msg \/ request[m].outcome # "null"
    <3>1. request'[m] = request[m]
      BY <2>2, RecordingPersists DEF Persists
    <3>2. QED
      BY <3>1, RecordingPersists, RequestStillKnows DEF IInv
  <2>3. QED
    BY <2>1, <2>2
<1>4. QED
  BY <1>2, <1>3, ExcessRecorded DEF IInv

LEMMA QuietInv ==
  ASSUME IInv, TypeOK', UNCHANGED request, month <= month',
         account'.live => account.live,
         \A q \in Runs : run'[q] = run[q] \/ (RunKnows(q)' /\ run'[q].pc # "codec")
  PROVE  IInv'
<1>1. ASSUME NEW mon \in Months, NEW limit \in {Soft, Hard}
      PROVE  /\ Judged(mon, limit)' \subseteq Judged(mon, limit)
             /\ Admitted(mon, limit)' \subseteq Admitted(mon, limit)
  BY DEF Judged, ServedIn, Limited, Admitted, OverHard
<1>2. ExcessBounded'
  BY <1>1, ExcessStays DEF IInv
<1>3. QED
  BY <1>2, QuietStep DEF IInv

LEMMA StepInv == IInv /\ [Next]_vars => IInv'
<1> SUFFICES ASSUME IInv, [Next]_vars PROVE IInv'
  OBVIOUS
<1>1. TypeOK' /\ month \in Int /\ TypeOK
  BY TypeStep, QuotaAssumption DEF IInv, TypeOK, Months
<1>2. CASE UNCHANGED vars
  BY <1>1, <1>2, QuietInv DEF vars
<1>3. ASSUME NEW m \in Messages, Receive(m) PROVE IInv'
  BY <1>1, <1>3, ReceiveInv
<1>4. ASSUME NEW r \in Runs, RunStep(r) PROVE IInv'
  <2>1. CASE Start(r)
    <3>1. PICK m \in Messages : /\ request[m].created # NoMonth
                               /\ run' = [run EXCEPT ![r] = [Idle EXCEPT !.pc = "gate", !.msg = m]]
      BY <2>1 DEF Start
    <3>2. /\ run'[r].pc = "gate" /\ run'[r].msg = m
          /\ \A q \in Runs \ {r} : run'[q] = run[q]
          /\ UNCHANGED <<month, account, request>>
      BY <1>1, <2>1, <3>1 DEF Start, TypeOK, Idle
    <3>3. RunKnows(r)'
      BY <3>1, <3>2 DEF RunKnows
    <3>4. QED
      BY <1>1, <3>2, <3>3, QuietInv
  <2>2. CASE ReadQuota(r)
    <3>1. /\ \A q \in Runs \ {r} : run'[q] = run[q]
          /\ UNCHANGED <<month, account, request>>
      BY <1>1, <2>2 DEF ReadQuota, TypeOK
    <3>2. QED
      BY <1>1, <2>2, <3>1, ReadKnows, ExcessRead, QuietStep DEF IInv
  <2>3. CASE UnknownToken(r) \/ Served(r) \/ Refused(r)
    BY <1>1, <2>3, Records, RecordingInv
  <2>4. CASE Abandon(r)
    <3>1. /\ run'[r] = Idle /\ \A q \in Runs \ {r} : run'[q] = run[q]
          /\ UNCHANGED <<month, account, request>>
      BY <1>1, <2>4 DEF Abandon, TypeOK
    <3>2. RunKnows(r)' /\ run'[r].pc # "codec"
      BY <3>1, IdleKnows DEF Idle
    <3>3. QED
      BY <1>1, <3>1, <3>2, QuietInv
  <2>5. QED
    BY <1>4, <2>1, <2>2, <2>3, <2>4 DEF RunStep
<1>5. CASE SubscriptionChanges
  <2>1. UNCHANGED <<month, request, run>> /\ (account'.live => account.live)
    BY <1>5 DEF SubscriptionChanges
  <2>2. QED
    BY <1>1, <2>1, QuietInv
<1>6. CASE DeleteAccount
  <2>1. UNCHANGED <<month, request, run>> /\ ~account'.live
    BY <1>6 DEF DeleteAccount
  <2>2. QED
    BY <1>1, <2>1, QuietInv
<1>7. CASE NextMonth
  <2>1. UNCHANGED <<account, request, run>> /\ month <= month'
    BY <1>1, <1>7 DEF NextMonth
  <2>2. QED
    BY <1>1, <2>1, QuietInv
<1>8. QED
  BY <1>2, <1>3, <1>4, <1>5, <1>6, <1>7 DEF Next

\* What runs read of the account is out of date but not wrong, in every reachable state.
THEOREM Invariant == Spec => []IInv
  BY InitInv, StepInv, PTL DEF Spec

----------------------------------------------------------------------------
(***************************************************************************)
(* Consequences.                                                           *)
(***************************************************************************)

\* Every variable holds what its declaration says it holds, for every account.
THEOREM TypeCorrect == Spec => []TypeOK
<1>1. IInv => TypeOK
  BY DEF IInv
<1>2. QED
  BY <1>1, Invariant, PTL

\* No account is served more than its hard limit and one forecast per other run at work.
THEOREM HardLimitHolds == Spec => []ServedBounded
<1>1. IInv => ServedBounded
  <2> SUFFICES ASSUME IInv, NEW mon \in Months, NEW limit \in {Soft, Hard}
               PROVE  Cardinality(Judged(mon, limit)) <= limit + Cardinality(Runs) - 1
    BY DEF ServedBounded
  <2>1. Cardinality(Judged(mon, limit)) + Cardinality(Admitted(mon, limit))
          <= limit + Cardinality(Runs) - 1
    BY DEF IInv, ExcessBounded
  <2>2. QED
    BY <2>1, JudgedCount, AdmittedCount, QuotaAssumption
<1>2. QED
  BY <1>1, Invariant, PTL

\* No reply's header states fewer forecasts than the account has left once it is counted.
THEOREM HeaderHolds == Spec => []HeaderNeverShort
<1>1. IInv => HeaderNeverShort
  <2> SUFFICES ASSUME IInv, NEW mon \in Months, NEW m \in ServedIn(mon), Limited(m)
               PROVE  HeaderRemaining(request[m].basis) >= Soft - Cardinality(ServedIn(mon))
    BY DEF HeaderNeverShort
  <2>1. m \in Messages /\ request[m].created = mon
    BY DEF ServedIn
  <2>2. request[m].basis.served < Cardinality(ServedIn(mon))
    BY <2>1 DEF IInv, RequestKnows
  <2>3. request[m].basis.served \in Nat
    BY <2>1, MessageCount DEF Limited, IInv, TypeOK, RequestType, Bases, Limits
  <2>4. QED
    BY <2>2, <2>3, ServedCount, QuotaAssumption DEF HeaderRemaining
<1>2. QED
  BY <1>1, Invariant, PTL

\* Nobody is cut off in silence in a month they were not told of it.
THEOREM SilenceIsTold == Spec => []SilencedWasTold
<1>1. IInv => SilencedWasTold
  BY DEF IInv, RequestKnows, SilencedWasTold
<1>2. QED
  BY <1>1, Invariant, PTL

=============================================================================
