------------------------------- MODULE Quota -------------------------------
(***************************************************************************)
(* The free-forecast quota (packages/server/src/quota.ts), as the requests *)
(* of ONE account meet it in resolveForecast (forecast.ts) and             *)
(* recordEncoded (delivery.ts).  The standing is read from the requests    *)
(* table before the codec is called and the outcome is written after it,   *)
(* so requests that overlap are judged by the same standing.               *)
(*                                                                         *)
(* Of the delivery pipeline only what the quota sees is kept: when each    *)
(* message was received (created_at), and that a run of its task may be    *)
(* repeated or overlapped until one of them records an outcome.            *)
(***************************************************************************)
EXTENDS Integers, FiniteSets

CONSTANTS
  Messages,    \* the messages sent with the account's token
  Runs,        \* the runs of encode tasks at work at the same time
  Soft,        \* QUOTA_SOFT, the stated quota
  Hard,        \* QUOTA_HARD
  LastMonth,   \* bounds the calendar
  NoMessage, NoQuota, NoMonth

ASSUME QuotaAssumption ==
  /\ Soft \in Nat /\ Hard \in Nat /\ Soft <= Hard /\ LastMonth \in Nat
  /\ IsFiniteSet(Messages) /\ IsFiniteSet(Runs) /\ Runs # {}
  /\ NoMessage \notin Messages /\ NoMonth \notin Int

VARIABLES
  month,       \* the UTC calendar month now falls in
  account,     \* the account's row, and whether a subscription linked to it is live
  request,     \* message -> its row of `requests`
  run          \* run -> the message it answers, its program counter and its variables

vars == <<month, account, request, run>>

Months == 0 .. LastMonth

Status == [month : Months, served : 0 .. Cardinality(Messages), hard : {Soft, Hard},
           notified : BOOLEAN, subscribed : BOOLEAN]

Quotas == Status \union {NoQuota}

\* What is kept of the standing a request was judged by, unless it had none to be limited by.
Limits == [month : Months, served : 0 .. Cardinality(Messages), hard : {Soft, Hard}]

Bases == Limits \union {NoQuota}

ASSUME NoQuotaAssumption == NoQuota \notin Limits

Outcomes == {"null", "ok", "quota_exceeded", "other"}

RequestType == [created : Months \union {NoMonth},   \* the month of created_at
                outcome : Outcomes,
                kind    : {"null", "weather", "avalanche"},
                owned   : BOOLEAN,                    \* account_id is the account's
                told    : BOOLEAN,                    \* the reply is the cut-off reply
                basis   : Bases]                      \* what of its standing limited it

RunType == [pc    : {"idle", "gate", "codec"},
            msg   : Messages \union {NoMessage},
            quota : Quotas]

Unreceived == [created |-> NoMonth, outcome |-> "null", kind |-> "null",
               owned |-> FALSE, told |-> FALSE, basis |-> NoQuota]

Idle == [pc |-> "idle", msg |-> NoMessage, quota |-> NoQuota]

Init == /\ month = 0
        /\ account = [live |-> TRUE, subscribed |-> FALSE]
        /\ request = [m \in Messages |-> Unreceived]
        /\ run = [r \in Runs |-> Idle]

----------------------------------------------------------------------------
(***************************************************************************)
(* quotaStatus, one query over the account's rows.                         *)
(***************************************************************************)

\* The rows the query joins to the account: none once the account is deleted.
AccountRows == {m \in Messages : request[m].owned /\ account.live}

\* Mutation: the query counts avalanche forecasts too.
BadWeatherRows(mon) == {m \in AccountRows : request[m].created = mon}

WeatherRows(mon) == {m \in AccountRows : request[m].kind = "weather" /\ request[m].created = mon}

CountServed(mon) == Cardinality({m \in WeatherRows(mon) : request[m].outcome = "ok"})

\* Mutation: a cut-off reply of any month counts.
BadNotified(mon) == \E m \in AccountRows : request[m].outcome = "quota_exceeded"

Notified(mon) == \E m \in WeatherRows(mon) : request[m].outcome = "quota_exceeded"

\* Mutation: an account that went over loses one forecast more.
BadHardLimit(prev) == IF prev > Soft THEN Soft - 1 ELSE Hard

HardLimit(prev) == IF prev > Soft THEN Soft ELSE Hard

QuotaStatus == [month      |-> month,
                served     |-> CountServed(month),
                hard       |-> HardLimit(CountServed(month - 1)),
                notified   |-> Notified(month),
                subscribed |-> account.live /\ account.subscribed]

\* Mutation: the limit is passed, not met.
BadOverHard(status) == ~status.subscribed /\ status.served > status.hard

OverHard(status) == ~status.subscribed /\ status.served >= status.hard

\* The free forecasts left as a reply's header states them; below zero is "over".
HeaderRemaining(status) == Soft - (status.served + 1)

\* Whether a request past the hard limit is answered with the cut-off reply.
CutOffReplied(status) == ~status.notified

----------------------------------------------------------------------------
\* The message is received: created_at is now.
Receive(m) ==
  /\ request[m].created = NoMonth
  /\ request' = [request EXCEPT ![m].created = month]
  /\ UNCHANGED <<month, account, run>>

\* A run loads a row that is not encoded yet; runs of one task may overlap.
Start(r) ==
  /\ run[r].pc = "idle"
  /\ \E m \in Messages :
       /\ request[m].created # NoMonth /\ request[m].outcome = "null"
       /\ run' = [run EXCEPT ![r] = [Idle EXCEPT !.pc = "gate", !.msg = m]]
  /\ UNCHANGED <<month, account, request>>

(***************************************************************************)
(* The account is known, or could not be looked up, and its standing is    *)
(* read: none when that query fails, or the version is older than quotas.  *)
(***************************************************************************)
ReadQuota(r) ==
  /\ run[r].pc = "gate"
  /\ \E quota \in {QuotaStatus, NoQuota} :
        run' = [run EXCEPT ![r].pc = "codec", ![r].quota = quota]
  /\ UNCHANGED <<month, account, request>>

Basis(kind, status) ==
  IF kind # "weather" \/ status = NoQuota THEN NoQuota
  ELSE IF status.subscribed THEN NoQuota
  ELSE [month |-> status.month, served |-> status.served, hard |-> status.hard]

\* recordEncoded: nothing when another run was first; no account_id without an account.
RecordOutcome(r, outcome, kind) ==
  LET m == run[r].msg
      recorded == [request[m] EXCEPT !.outcome = outcome, !.kind = kind,
                                     !.owned = account.live,
                                     !.basis = Basis(kind, run[r].quota),
                                     !.told = /\ outcome = "quota_exceeded"
                                               /\ CutOffReplied(run[r].quota)]
  IN  /\ request' = IF request[m].outcome # "null" THEN request
                    ELSE [request EXCEPT ![m] = recorded]
      /\ run' = [run EXCEPT ![r] = Idle]
      /\ UNCHANGED <<month, account>>

\* tokenKnown says no: the codec is not called.
UnknownToken(r) == /\ run[r].pc = "gate" /\ ~account.live
                   /\ RecordOutcome(r, "other", "null")

\* The codec serves a forecast of the kind it reports, and the gateway applies the standing.
Served(r) ==
  /\ run[r].pc = "codec"
  /\ \E kind \in {"weather", "avalanche"} :
       LET over == run[r].quota # NoQuota /\ kind = "weather" /\ OverHard(run[r].quota)
       IN  RecordOutcome(r, IF over THEN "quota_exceeded" ELSE "ok", kind)

\* The codec refuses the request, or is unavailable for good.
Refused(r) == /\ run[r].pc = "codec"
              /\ RecordOutcome(r, "other", "null")

\* The run ends before it records anything: a retry, a crash, a statement that throws.
Abandon(r) ==
  /\ run[r].pc # "idle"
  /\ run' = [run EXCEPT ![r] = Idle]
  /\ UNCHANGED <<month, account, request>>

RunStep(r) == \/ Start(r) \/ ReadQuota(r) \/ UnknownToken(r) \/ Served(r)
              \/ Refused(r) \/ Abandon(r)

\* A subscription starts, lapses, or is linked elsewhere (module Subscriptions, planned).
SubscriptionChanges ==
  /\ account.live
  /\ account' = [account EXCEPT !.subscribed = ~@]
  /\ UNCHANGED <<month, request, run>>

\* deleteAccount: the token names no account from now on; the rows keep their account_id.
DeleteAccount ==
  /\ account.live
  /\ account' = [live |-> FALSE, subscribed |-> FALSE]
  /\ UNCHANGED <<month, request, run>>

NextMonth ==
  /\ month < LastMonth
  /\ month' = month + 1
  /\ UNCHANGED <<account, request, run>>

Next == \/ \E m \in Messages : Receive(m)
        \/ \E r \in Runs : RunStep(r)
        \/ SubscriptionChanges \/ DeleteAccount \/ NextMonth

Spec == Init /\ [][Next]_vars

----------------------------------------------------------------------------
\* Every variable holds what its declaration says it holds.
TypeOK == /\ month \in Months
          /\ account \in [live : BOOLEAN, subscribed : BOOLEAN]
          /\ request \in [Messages -> RequestType]
          /\ run \in [Runs -> RunType]

\* The requests the quota applied to: judged by a standing of the month they are counted in.
Limited(m) == /\ request[m].basis # NoQuota
              /\ request[m].basis.month = request[m].created

ServedIn(mon) == {m \in Messages : /\ request[m].created = mon /\ request[m].owned
                                   /\ request[m].kind = "weather" /\ request[m].outcome = "ok"}

CutOffIn(mon) == {m \in Messages : request[m].created = mon /\ request[m].outcome = "quota_exceeded"}

\* The forecasts of a month that were served under a hard limit ...
Judged(mon, limit) == {m \in ServedIn(mon) : Limited(m) /\ request[m].basis.hard = limit}

\* ... and the runs that will add to them if the codec serves their request.
Admitted(mon, limit) ==
  {r \in Runs : /\ account.live /\ run[r].pc = "codec" /\ run[r].quota # NoQuota
                /\ run[r].quota.month = mon /\ run[r].quota.hard = limit
                /\ ~run[r].quota.subscribed /\ ~OverHard(run[r].quota)}

(***************************************************************************)
(* The inductive invariant behind the properties below.  What a run read   *)
(* of the account, and of its own request, is out of date but not wrong.   *)
(***************************************************************************)
RunKnows(r) ==
  /\ run[r].pc # "idle" => /\ run[r].msg \in Messages
                           /\ request[run[r].msg].created # NoMonth
  /\ run[r].pc = "codec" /\ run[r].quota # NoQuota =>
       /\ request[run[r].msg].created <= run[r].quota.month
       /\ run[r].quota.month <= month
       /\ run[r].quota.served <= Cardinality(ServedIn(run[r].quota.month))
       /\ run[r].quota.notified =>
             \E n \in CutOffIn(run[r].quota.month) : request[n].told

RequestKnows(m) ==
  /\ request[m].created = NoMonth => request[m] = Unreceived
  /\ request[m].created # NoMonth => request[m].created <= month
  /\ request[m].basis # NoQuota => /\ request[m].created <= request[m].basis.month
                                   /\ request[m].basis.month <= month
  /\ request[m].outcome = "quota_exceeded" => request[m].basis # NoQuota
  /\ request[m].outcome = "quota_exceeded" /\ ~request[m].told =>
       \E n \in CutOffIn(request[m].basis.month) : request[n].told
  /\ Limited(m) /\ m \in ServedIn(request[m].created) =>
       request[m].basis.served < Cardinality(ServedIn(request[m].created))

\* A run is admitted only when fewer than `limit` have been served, and then counts itself.
ExcessBounded ==
  \A mon \in Months, limit \in {Soft, Hard} :
    Cardinality(Judged(mon, limit)) + Cardinality(Admitted(mon, limit))
      <= limit + Cardinality(Runs) - 1

IInv == /\ TypeOK
        /\ \A r \in Runs : RunKnows(r)
        /\ \A m \in Messages : RequestKnows(m)
        /\ ExcessBounded

(***************************************************************************)
(* The hard limit (overHard, hardLimit): the standing is stale when it is  *)
(* used, but the excess is no more than the other runs at work, however    *)
(* they interleave: hard + (runs - 1) forecasts of a month, both for an    *)
(* account under QUOTA_HARD and for one cut to QUOTA_SOFT.                 *)
(***************************************************************************)
ServedBounded ==
  \A mon \in Months, limit \in {Soft, Hard} :
    Cardinality(Judged(mon, limit)) <= limit + Cardinality(Runs) - 1

(***************************************************************************)
(* The number in a reply's header (quotaHeader) may promise more than is   *)
(* left, when requests overlap, but never less than the account has by the *)
(* count the app reads afterwards (quotaNow), so nobody saves a forecast   *)
(* they were told is gone.                                                 *)
(***************************************************************************)
HeaderNeverShort ==
  \A mon \in Months : \A m \in ServedIn(mon) :
    Limited(m) => HeaderRemaining(request[m].basis) >= Soft - Cardinality(ServedIn(mon))

(***************************************************************************)
(* Being cut off silently follows being told: a request past the limit     *)
(* gets no reply only when another request of the month it was judged in   *)
(* got the cut-off reply (quotaStatus's notified, replyParts).             *)
(***************************************************************************)
SilencedWasTold ==
  \A m \in Messages :
    request[m].outcome = "quota_exceeded" /\ ~request[m].told
      => \E n \in CutOffIn(request[m].basis.month) : request[n].told

----------------------------------------------------------------------------
(***************************************************************************)
(* What the code does not do.                                              *)
(***************************************************************************)

\* "At the hard limit the request gets the cut-off reply once, then nothing" (quota.ts:10-11).
CutOffOnce ==
  \A mon \in Months : Cardinality({m \in CutOffIn(mon) : request[m].told}) <= 1

=============================================================================
