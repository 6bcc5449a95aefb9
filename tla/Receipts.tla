------------------------------ MODULE Receipts ------------------------------
(***************************************************************************)
(* Delivery receipts: Twilio's event sink reports what became of each      *)
(* message sent, as deliveries of one or more events (routes.ts,           *)
(* handleSink and handleDelivery; delivery.ts, recordReplyDelivery).  A    *)
(* delivery is repeated whole until it is answered with 200, so its events *)
(* arrive again, late, and in any order with those of other deliveries,    *)
(* and an event may come before the run that sent the message has written  *)
(* its SID to the row of the part.                                         *)
(***************************************************************************)
EXTENDS Integers, Sequences, FiniteSets

CONSTANTS
  Sids,           \* SIDs of the messages the gateway has sent
  ForeignSids,    \* SIDs of messages that are not its own
  Outcomes,       \* delivered, undelivered, failed
  Times,          \* what an event's timestamp may say
  MaxBatch,       \* events per delivery
  MaxDeliveries,  \* deliveries Twilio has under way
  SinkHandlers,
  NoTime, NoDelivery

ASSUME ReceiptsAssumption ==
  /\ MaxBatch \in Nat \ {0} /\ MaxDeliveries \in Nat
  /\ Sids \intersect ForeignSids = {} /\ NoTime \notin Times

Statuses == {200, 404, 503}
Event == [sid : Sids \union ForeignSids, outcome : Outcomes]
Deliveries == UNION {[1 .. n -> Event] : n \in 1 .. MaxBatch}

VARIABLES
  part,      \* SID -> the row of the part sent under it
  owed,      \* deliveries Twilio has not had a 200 for
  answered,  \* deliveries it has
  sink       \* handler -> the delivery it is working through
receiptsVars == <<part, owed, answered, sink>>

NoReceipt == [sid |-> FALSE, at |-> [o \in Outcomes |-> NoTime]]
IdleSink == [delivery |-> NoDelivery, pos |-> 0, worst |-> 200]

ReceiptsInit ==
  /\ part = [s \in Sids |-> NoReceipt]
  /\ owed = {} /\ answered = {}
  /\ sink = [h \in SinkHandlers |-> IdleSink]

SendDelivery(d) ==
  /\ d \notin owed \union answered
  /\ owed' = owed \union {d}
  /\ UNCHANGED <<part, answered, sink>>

\* The run that sent the message writes its SID (recordReplySent).
WriteSid(s) ==
  /\ ~part[s].sid /\ part' = [part EXCEPT ![s].sid = TRUE]
  /\ UNCHANGED <<owed, answered, sink>>

BeginDelivery(h, d) ==
  /\ sink[h] = IdleSink
  /\ sink' = [sink EXCEPT ![h] = [delivery |-> d, pos |-> 1, worst |-> 200]]
  /\ UNCHANGED <<part, owed, answered>>

Found(s) == s \in Sids /\ part[s].sid

BadWorst(a, b) == b

Worst(a, b) == IF a > b THEN a ELSE b

Coalesce(old, new) == IF old = NoTime THEN new ELSE old

(* Each timestamp is written once; one that is not in the event is the time
   it is handled, so that a repeat may bring another. *)
RecordReplyDelivery(e, t) ==
  part' = IF Found(e.sid)
          THEN [part EXCEPT ![e.sid].at[e.outcome] = Coalesce(@, t)]
          ELSE part

AtEvent(h) == sink[h].delivery # NoDelivery /\ sink[h].pos <= Len(sink[h].delivery)

Advance(h, status) ==
  sink' = [sink EXCEPT ![h].pos = @ + 1, ![h].worst = Worst(@, status)]

HandleDelivery(h) ==
  LET e == sink[h].delivery[sink[h].pos]
  IN  \/ /\ \E t \in Times : RecordReplyDelivery(e, t)
         /\ Advance(h, IF Found(e.sid) THEN 200 ELSE 404)
      \/ UNCHANGED part /\ Advance(h, 503)

HandleEvent(h) ==
  /\ AtEvent(h) /\ HandleDelivery(h)
  /\ UNCHANGED <<owed, answered>>

(* The delivery is answered by its worst outcome; an instance that dies
   answers nothing. *)
AnswerDelivery(h) ==
  /\ sink[h].delivery # NoDelivery /\ ~AtEvent(h)
  /\ LET acked == {d \in owed : d = sink[h].delivery /\ sink[h].worst = 200}
     IN  owed' = owed \ acked /\ answered' = answered \union acked
  /\ sink' = [sink EXCEPT ![h] = IdleSink]
  /\ UNCHANGED part

SinkCrash(h) ==
  /\ sink[h].delivery # NoDelivery
  /\ sink' = [sink EXCEPT ![h] = IdleSink]
  /\ UNCHANGED <<part, owed, answered>>

ReceiptsNext ==
  \/ \E d \in Deliveries : Cardinality(owed \union answered) < MaxDeliveries /\ SendDelivery(d)
  \/ \E s \in Sids : WriteSid(s)
  \/ \E h \in SinkHandlers :
       \/ \E d \in owed : BeginDelivery(h, d)
       \/ HandleEvent(h) \/ AnswerDelivery(h) \/ SinkCrash(h)

ReceiptsSpec == ReceiptsInit /\ [][ReceiptsNext]_receiptsVars

-----------------------------------------------------------------------------
(***************************************************************************)
(* Twilio stops repeating a delivery only when every event in it is on its *)
(* reply's row: neither an event that outran the SID write nor one whose   *)
(* update failed is lost, nor the others of its delivery when another SID  *)
(* in it is not the gateway's.                                             *)
(***************************************************************************)
AnsweredMeansRecorded ==
  \A d \in answered : \A i \in DOMAIN d :
    d[i].sid \in Sids /\ part[d[i].sid].at[d[i].outcome] # NoTime

=============================================================================
