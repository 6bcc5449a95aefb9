--------------------------- MODULE DeliveryStore ---------------------------
(***************************************************************************)
(* The delivery store of the gateway (packages/server/src/delivery.ts and  *)
(* the schema in db.ts): the `requests` row of ONE inbound message and its *)
(* `replies` rows.  Every statement of delivery.ts addresses one row, by   *)
(* id or by Twilio SID, so one message stands for all of them; what the    *)
(* messages of one account share is the quota, in module Quota.            *)
(*                                                                         *)
(* A timestamp column is a BOOLEAN here: TRUE when it is not null.  Each   *)
(* operator below is one SQL statement or one transaction, hence one       *)
(* atomic change of the two variables.                                     *)
(***************************************************************************)
EXTENDS Naturals, FiniteSets

CONSTANTS
  MaxParts,    \* the most messages one reply is split into
  Encodings,   \* the distinguishable results of encoding the same request
  NoBody       \* the body of a reply row that does not exist

ASSUME StoreAssumption == /\ MaxParts \in Nat \ {0}
                          /\ Encodings # {}
                          /\ NoBody \notin Encodings

VARIABLES
  row,         \* the row of `requests`
  replies,     \* part -> the row of `replies`
  age          \* how old the row's governing timestamp is, see Ages

storeVars == <<row, replies, age>>

Parts == 1 .. MaxParts

(***************************************************************************)
(* The thresholds the code compares now() - (queued_at ?? created_at)      *)
(* with, in order: the health check's grace (60 s), the encode task's      *)
(* retry window (5 min), the health check's deadline (15 min).             *)
(***************************************************************************)
PastGrace    == 1
PastWindow   == 2
PastDeadline == 3
Ages         == 0 .. PastDeadline

\* `outcome`, cut down to what decides how a request ends.
Outcomes == {"null", "answer", "silent", "unavailable", "rejected", "missed"}

RowType == [received : BOOLEAN, queued : BOOLEAN, encoded : BOOLEAN,
            sent : BOOLEAN, failed : BOOLEAN, noReply : BOOLEAN,
            outcome : Outcomes]

ReplyType == [body    : Encodings \union {NoBody},
              sending : BOOLEAN,      \* sending_at: the claim
              sid     : BOOLEAN,      \* Twilio's SID is recorded
              refused : BOOLEAN]      \* failed_at, set by recordReplyFailed

NoRow == [received |-> FALSE, queued |-> FALSE, encoded |-> FALSE,
          sent |-> FALSE, failed |-> FALSE, noReply |-> FALSE,
          outcome |-> "null"]

NoReply == [body |-> NoBody, sending |-> FALSE, sid |-> FALSE, refused |-> FALSE]

StoreTypeOK == /\ row \in RowType
               /\ replies \in [Parts -> ReplyType]
               /\ age \in Ages

StoreInit == /\ row = NoRow
             /\ replies = [p \in Parts |-> NoReply]
             /\ age = 0

\* The reply rows that exist.
ReplyRows == {p \in Parts : replies[p].body # NoBody}

Terminal == row.sent \/ row.failed \/ row.noReply

EveryPartHasSid == \A p \in ReplyRows : replies[p].sid

\* The generated column `state`: terminal states first, `failed` before the rest.
State == IF      ~row.received THEN "absent"
         ELSE IF row.failed    THEN "failed"
         ELSE IF row.noReply   THEN "no_reply"
         ELSE IF row.sent      THEN "sent"
         ELSE IF row.encoded   THEN "encoded"
         ELSE IF row.queued    THEN "queued" ELSE "received"

----------------------------------------------------------------------------
(***************************************************************************)
(* The statements.                                                         *)
(***************************************************************************)

\* insert ... on conflict (message_sid) do nothing
ReceiveMessage ==
  /\ row' = IF row.received THEN row ELSE [NoRow EXCEPT !.received = TRUE]
  /\ UNCHANGED <<replies, age>>

\* ... set queued_at = now() where queued_at is null: the age is queued_at's from here on
MarkQueued ==
  /\ row' = [row EXCEPT !.queued = TRUE]
  /\ age' = IF row.queued THEN age ELSE 0
  /\ UNCHANGED replies

\* Mutation: a second encode replaces the texts of the first.
BadRecordEncoded(outcome, e, n) ==
  /\ row' = [row EXCEPT !.encoded = TRUE, !.outcome = outcome, !.noReply = @ \/ n = 0]
  /\ replies' = [p \in Parts |-> IF p <= n THEN [replies[p] EXCEPT !.body = e] ELSE replies[p]]
  /\ UNCHANGED age

\* Mutation: an encode that owes nothing leaves the request open.
BadRecordSilent(outcome, e, n) ==
  /\ IF row.encoded
     THEN UNCHANGED <<row, replies>>
     ELSE /\ row' = [row EXCEPT !.encoded = TRUE, !.outcome = outcome]
          /\ replies' = [p \in Parts |->
                           IF p <= n THEN [NoReply EXCEPT !.body = e] ELSE replies[p]]
  /\ UNCHANGED age

\* The transaction that writes the outcome and creates reply rows 1..n, all of
\* one encoding; it writes nothing when the request is encoded already.
RecordEncoded(outcome, e, n) ==
  /\ IF row.encoded
     THEN UNCHANGED <<row, replies>>
     ELSE /\ row' = [row EXCEPT !.encoded = TRUE,
                                !.outcome = outcome,
                                !.noReply = @ \/ n = 0]
          /\ replies' = [p \in Parts |->
                           IF p <= n THEN [NoReply EXCEPT !.body = e] ELSE replies[p]]
  /\ UNCHANGED age

RecordRejected ==
  /\ row' = IF row.encoded \/ row.noReply
            THEN row
            ELSE [row EXCEPT !.outcome = "rejected", !.noReply = TRUE]
  /\ UNCHANGED <<replies, age>>

\* Mutation: the claim does not ask whether the part is claimed already.
BadCanClaim(p) == TRUE

\* The claim: it succeeds only when sending_at is null.
CanClaim(p) == ~replies[p].sending

ClaimReply(p) ==
  /\ replies' = [replies EXCEPT ![p].sending = TRUE]
  /\ UNCHANGED <<row, age>>

ReleaseReply(p) ==
  /\ replies' = [replies EXCEPT ![p].sending = @ /\ replies[p].sid]
  /\ UNCHANGED <<row, age>>

RecordReplySent(p) ==
  /\ replies' = [replies EXCEPT ![p].sid = TRUE]
  /\ UNCHANGED <<row, age>>

RecordReplyFailed(p) ==
  /\ replies' = [replies EXCEPT ![p].refused = TRUE]
  /\ row' = [row EXCEPT !.failed = TRUE]
  /\ UNCHANGED age

RecordRequestSent ==
  /\ row' = [row EXCEPT !.sent = TRUE]
  /\ UNCHANGED <<replies, age>>

\* What listUnqueued selects, and what failOverdue fails.
Unqueued == row.received /\ ~row.queued /\ ~Terminal /\ age >= PastGrace

\* Mutation: failOverdue does not ask whether the request is over.
BadOverdue == row.queued /\ age >= PastDeadline

\* Mutation: an encoded request is taken for answered.
BadOverdueUnencoded == row.queued /\ ~row.encoded /\ ~Terminal /\ age >= PastDeadline

Overdue == row.queued /\ ~Terminal /\ age >= PastDeadline

FailOverdue ==
  /\ row' = IF Overdue THEN [row EXCEPT !.failed = TRUE] ELSE row
  /\ UNCHANGED <<replies, age>>

\* insert ... on conflict (message_sid) do nothing
RecordMissed ==
  /\ row' = IF row.received
            THEN row
            ELSE [NoRow EXCEPT !.received = TRUE, !.outcome = "missed", !.noReply = TRUE]
  /\ UNCHANGED <<replies, age>>

\* Time passes one threshold.
Tick ==
  /\ row.received /\ age < PastDeadline
  /\ age' = age + 1
  /\ UNCHANGED <<row, replies>>

=============================================================================
