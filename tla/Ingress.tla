------------------------------ MODULE Ingress ------------------------------
(***************************************************************************)
(* How a message reaches the store (packages/server/src/routes.ts): the    *)
(* /sms webhook, which Twilio calls once, and the /twilio-sink event,      *)
(* which it delivers until it gets a 2xx.  Both end in queueMessage.       *)
(* Handlers overlap: another instance may serve a redelivery while the     *)
(* first is still at work.                                                 *)
(***************************************************************************)
EXTENDS DeliveryStore, TaskQueue

CONSTANT Handlers   \* the concurrent executions of /sms and /twilio-sink

VARIABLES
  handler,     \* handler -> its program counter and source
  twilio       \* what Twilio still has to deliver

HandlerType == [pc : {"idle", "fetch", "insert", "select", "enqueue", "mark"},
                source : {"webhook", "event"}]

Free == [pc |-> "idle", source |-> "event"]

TwilioType == [webhook : {"due", "made"}, event : {"due", "acked"}]

IngressTypeOK == /\ handler \in [Handlers -> HandlerType]
                 /\ twilio \in TwilioType

IngressInit == /\ handler = [h \in Handlers |-> Free]
               /\ twilio = [webhook |-> "due", event |-> "due"]

HandlerAt(h, pc) == handler[h].pc = pc

HandlerGoto(h, pc) == handler' = [handler EXCEPT ![h].pc = pc]

\* The response: a 200 to the event ends its redeliveries.
Answer(h, status) ==
  /\ handler' = [handler EXCEPT ![h] = Free]
  /\ twilio' = IF status = 200 /\ handler[h].source = "event"
               THEN [twilio EXCEPT !.event = "acked"] ELSE twilio

----------------------------------------------------------------------------
\* Mutation: the webhook enqueues before it writes the row.
BadWebhook(h) ==
  /\ HandlerAt(h, "idle") /\ twilio.webhook = "due"
  /\ twilio' = [twilio EXCEPT !.webhook = "made"]
  /\ handler' = [handler EXCEPT ![h] = [pc |-> "enqueue", source |-> "webhook"]]
  /\ UNCHANGED <<storeVars, task>>

\* POST /sms, validated and with a SID.
Webhook(h) ==
  /\ HandlerAt(h, "idle") /\ twilio.webhook = "due"
  /\ twilio' = [twilio EXCEPT !.webhook = "made"]
  /\ handler' = [handler EXCEPT ![h] = [pc |-> "insert", source |-> "webhook"]]
  /\ UNCHANGED <<storeVars, task>>

\* POST /twilio-sink with the inbound-message event.
Event(h) ==
  /\ HandlerAt(h, "idle") /\ twilio.event = "due"
  /\ handler' = [handler EXCEPT ![h] = [pc |-> "fetch", source |-> "event"]]
  /\ UNCHANGED <<storeVars, task, twilio>>

\* The event is read back from Twilio before anything is written.
EventFetch(h) ==
  /\ HandlerAt(h, "fetch")
  /\ \/ HandlerGoto(h, "insert") /\ UNCHANGED twilio     \* an inbound message to the service
     \/ Answer(h, 503)                                   \* Twilio's API cannot be reached
     \/ Answer(h, 404)                                   \* no such message
  /\ UNCHANGED <<storeVars, task>>

\* receiveMessage's insert.
Receive(h) ==
  /\ HandlerAt(h, "insert")
  /\ ReceiveMessage
  /\ HandlerGoto(h, "select")
  /\ UNCHANGED <<task, twilio>>

\* receiveMessage's select: a row queued already needs nothing more.
ReadBack(h) ==
  /\ HandlerAt(h, "select")
  /\ IF row.queued THEN Answer(h, 200) ELSE HandlerGoto(h, "enqueue") /\ UNCHANGED twilio
  /\ UNCHANGED <<storeVars, task>>

\* Mutation: a failed enqueue goes unnoticed.
BadEnqueue(h) ==
  /\ HandlerAt(h, "enqueue")
  /\ EnqueueThrows
  /\ HandlerGoto(h, "mark")
  /\ UNCHANGED <<storeVars, twilio>>

\* Mutation: a failed enqueue is answered with a 200 all the same.
BadEnqueueAnswer(h) ==
  /\ HandlerAt(h, "enqueue")
  /\ \/ EnqueueReturns /\ HandlerGoto(h, "mark") /\ UNCHANGED twilio
     \/ EnqueueThrows /\ Answer(h, 200)
  /\ UNCHANGED storeVars

Enqueue(h) ==
  /\ HandlerAt(h, "enqueue")
  /\ \/ EnqueueReturns /\ HandlerGoto(h, "mark") /\ UNCHANGED twilio
     \/ EnqueueThrows /\ Answer(h, 503)
  /\ UNCHANGED storeVars

Mark(h) ==
  /\ HandlerAt(h, "mark")
  /\ MarkQueued
  /\ Answer(h, 200)
  /\ UNCHANGED task

\* The instance is killed, or a statement throws (a 503 or 500): Twilio sees no 2xx.
HandlerCrash(h) ==
  /\ ~HandlerAt(h, "idle")
  /\ Answer(h, 500)
  /\ UNCHANGED <<storeVars, task>>

IngressNext ==
  \E h \in Handlers :
     \/ Webhook(h) \/ Event(h) \/ EventFetch(h) \/ Receive(h) \/ ReadBack(h)
     \/ Enqueue(h) \/ Mark(h) \/ HandlerCrash(h)

=============================================================================
