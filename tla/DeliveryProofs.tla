--------------------------- MODULE DeliveryProofs ---------------------------
(***************************************************************************)
(* The pipeline as a whole.  EncodeTask and Intake each reduce the other   *)
(* half to an environment; here every step of the composition is a step of *)
(* both, for every number of parts, runs, handlers and checks, so that     *)
(* what is proved of either half holds of the two at work together.        *)
(*                                                                         *)
(* The two refinements need each other's invariant: a run's statement is   *)
(* one Intake allows because the run knows the part it holds, and a        *)
(* handler's enqueue is one EncodeTask allows because the handler knows    *)
(* the row is there.  So both invariants are carried together.             *)
(***************************************************************************)
EXTENDS Delivery, EncodeTaskProofs, TLAPS

-----------------------------------------------------------------------------
(***************************************************************************)
(* The intake, for every number of overlapping handlers, health checks and *)
(* runs: no message is marked, or given up by Twilio, before the queue has *)
(* had its task.                                                           *)
(*                                                                         *)
(* The strengthening.  What a message has reached is never undone, so a    *)
(* handler or a check stands by what it has seen whatever the others do    *)
(* in between: the row from the insert on, the task from the enqueue on.   *)
(***************************************************************************)
Enqueued == row.received /\ task.state # "none"

HandlerKnows(h) ==
  /\ handler[h].pc \in {"select", "enqueue", "mark"} => row.received
  /\ handler[h].pc = "mark" => Enqueued

CheckerKnows(c) ==
  /\ checker[c] \in {"enqueue", "mark"} => row.received
  /\ checker[c] = "mark" => Enqueued

Known == /\ row.queued => Enqueued
         /\ twilio.event = "acked" => Enqueued
         /\ \A h \in Handlers : HandlerKnows(h)
         /\ \A c \in Checkers : CheckerKnows(c)

IntakeInv == IntakeTypeOK /\ Known

\* What no step takes back.
Onward == /\ row.received => row'.received
          /\ task.state # "none" => task'.state # "none"

LEMMA IntakeInitInv == IntakeInit => IntakeInv
<1> SUFFICES ASSUME IntakeInit PROVE IntakeInv
  OBVIOUS
<1> USE DEF IntakeInit, StoreInit, TaskInit, IngressInit, CheckInit, NoRow, NoReply, Free
<1>1. StoreTypeOK
  BY DEF StoreTypeOK, RowType, Outcomes, ReplyType, Ages, PastDeadline
<1>2. TaskTypeOK /\ IngressTypeOK /\ CheckTypeOK
  BY DEF TaskTypeOK, TaskType, TaskStates, IngressTypeOK, HandlerType, TwilioType,
     CheckTypeOK, CheckerPCs
<1>3. Known
  BY DEF Known, HandlerKnows, CheckerKnows, Enqueued
<1>4. QED
  BY <1>1, <1>2, <1>3 DEF IntakeInv, IntakeTypeOK

----------------------------------------------------------------------------
(***************************************************************************)
(* The statements of the store: each leaves it well typed, none forgets    *)
(* the message, and only markQueued marks it.                              *)
(***************************************************************************)
Kept == /\ StoreTypeOK'
        /\ row.received => row'.received
        /\ row'.queued => row.queued /\ row'.received = row.received

LEMMA ReceiveStep ==
  ASSUME StoreTypeOK, ReceiveMessage
  PROVE  StoreTypeOK' /\ row'.received /\ (row'.queued => row.queued /\ row.received)
<1>1. [NoRow EXCEPT !.received = TRUE] \in RowType
  BY DEF NoRow, RowType, Outcomes
<1>2. row' = IF row.received THEN row ELSE [NoRow EXCEPT !.received = TRUE]
  BY DEF ReceiveMessage
<1>3. row' \in RowType /\ row'.received /\ (row'.queued => row.queued /\ row.received)
  BY <1>1, <1>2 DEF StoreTypeOK, NoRow
<1>4. QED
  BY <1>3 DEF StoreTypeOK, ReceiveMessage

LEMMA MissedStep ==
  ASSUME StoreTypeOK, RecordMissed
  PROVE  StoreTypeOK' /\ row'.received /\ (row'.queued => row.queued /\ row.received)
<1> DEFINE missed == [NoRow EXCEPT !.received = TRUE, !.outcome = "missed", !.noReply = TRUE]
<1>1. missed \in RowType /\ missed.received /\ ~missed.queued
  BY DEF NoRow, RowType, Outcomes
<1>2. row' = IF row.received THEN row ELSE missed
  BY DEF RecordMissed
<1>3. row' \in RowType /\ row'.received /\ (row'.queued => row.queued /\ row.received)
  BY <1>1, <1>2 DEF StoreTypeOK
<1>4. QED
  BY <1>3 DEF StoreTypeOK, RecordMissed

LEMMA MarkStep ==
  ASSUME StoreTypeOK, MarkQueued
  PROVE  StoreTypeOK' /\ row'.received = row.received
<1>1. row' \in RowType /\ row'.received = row.received
  BY DEF StoreTypeOK, RowType, MarkQueued
<1>2. age' = age \/ age' = 0
  BY DEF MarkQueued
<1>3. age' \in Ages
  BY <1>2 DEF StoreTypeOK, Ages, PastDeadline
<1>4. QED
  BY <1>1, <1>3 DEF StoreTypeOK, MarkQueued

LEMMA OverdueStep ==
  ASSUME StoreTypeOK, FailOverdue
  PROVE  Kept
<1>1. /\ row' \in RowType
      /\ row'.received = row.received /\ row'.queued = row.queued
  BY DEF StoreTypeOK, RowType, FailOverdue
<1>2. QED
  BY <1>1 DEF StoreTypeOK, FailOverdue, Kept

LEMMA TickStep ==
  ASSUME StoreTypeOK, Tick
  PROVE  Kept
<1>1. age' \in Ages
  BY DEF StoreTypeOK, Tick, Ages, PastDeadline
<1>2. row' = row /\ replies' = replies
  BY DEF Tick
<1>3. QED
  BY <1>1, <1>2 DEF StoreTypeOK, Kept

LEMMA EncodedStep ==
  ASSUME StoreTypeOK, NEW outcome \in Outcomes, NEW e \in Encodings, NEW n \in Nat,
         RecordEncoded(outcome, e, n)
  PROVE  Kept
<1>1. [NoReply EXCEPT !.body = e] \in ReplyType
  BY DEF NoReply, ReplyType
<1>2. StoreTypeOK'
  BY <1>1 DEF StoreTypeOK, RowType, Parts, RecordEncoded
<1>3. row'.received = row.received /\ row'.queued = row.queued
  BY DEF StoreTypeOK, RowType, RecordEncoded
<1>4. QED
  BY <1>2, <1>3 DEF Kept

LEMMA ReplyStep ==
  ASSUME StoreTypeOK, NEW p \in Parts,
         ClaimReply(p) \/ ReleaseReply(p) \/ RecordReplySent(p) \/ RecordReplyFailed(p)
  PROVE  Kept
<1>1. replies[p] \in ReplyType
  BY DEF StoreTypeOK
<1>2. replies' \in [Parts -> ReplyType]
  <2>1. CASE ReleaseReply(p)
    <3>1. (replies[p].sending /\ replies[p].sid) \in BOOLEAN
      BY <1>1 DEF ReplyType
    <3>2. [replies[p] EXCEPT !.sending = replies[p].sending /\ replies[p].sid] \in ReplyType
      BY <1>1, <3>1 DEF ReplyType
    <3>3. QED
      BY <2>1, <3>2 DEF StoreTypeOK, ReleaseReply
  <2>2. CASE ClaimReply(p) \/ RecordReplySent(p) \/ RecordReplyFailed(p)
    <3>1. /\ [replies[p] EXCEPT !.sending = TRUE] \in ReplyType
          /\ [replies[p] EXCEPT !.sid = TRUE] \in ReplyType
          /\ [replies[p] EXCEPT !.refused = TRUE] \in ReplyType
      BY <1>1 DEF ReplyType
    <3>2. QED
      BY <2>2, <3>1 DEF StoreTypeOK, ClaimReply, RecordReplySent, RecordReplyFailed
  <2>3. QED
    BY <2>1, <2>2
<1>3. row' \in RowType /\ row'.received = row.received /\ row'.queued = row.queued /\ age' = age
  BY DEF StoreTypeOK, RowType, ClaimReply, ReleaseReply, RecordReplySent, RecordReplyFailed
<1>4. QED
  BY <1>2, <1>3 DEF StoreTypeOK, Kept

LEMMA TaskStatementStep ==
  ASSUME StoreTypeOK, TaskStatement
  PROVE  Kept
<1>1. CASE RecordRejected
  BY <1>1 DEF StoreTypeOK, RowType, Outcomes, RecordRejected, Kept
<1>2. CASE \E outcome \in {"answer", "unavailable"}, e \in Encodings, n \in Parts :
             RecordEncoded(outcome, e, n)
  <2>1. Parts \subseteq Nat /\ {"answer", "unavailable"} \subseteq Outcomes
    BY StoreAssumption DEF Parts, Outcomes
  <2>2. QED
    BY <1>2, <2>1, EncodedStep
<1>3. CASE \E e \in Encodings : RecordEncoded("silent", e, 0)
  BY <1>3, EncodedStep DEF Outcomes
<1>4. CASE \E p \in ReplyRows :
             ClaimReply(p) \/ ReleaseReply(p) \/ RecordReplySent(p) \/ RecordReplyFailed(p)
  BY <1>4, ReplyStep DEF ReplyRows
<1>5. CASE RecordRequestSent
  BY <1>5 DEF StoreTypeOK, RowType, RecordRequestSent, Kept
<1>6. QED
  BY <1>1, <1>2, <1>3, <1>4, <1>5 DEF TaskStatement

----------------------------------------------------------------------------
(***************************************************************************)
(* The queue: a task taken is never one that was not.                      *)
(***************************************************************************)
LEMMA EnqueueStep ==
  ASSUME TaskTypeOK, EnqueueReturns
  PROVE  TaskTypeOK' /\ task'.state # "none"
  BY DEF TaskTypeOK, TaskType, TaskStates, EnqueueReturns

LEMMA EnqueueThrowsStep ==
  ASSUME TaskTypeOK, EnqueueThrows
  PROVE  TaskTypeOK' /\ (task.state # "none" => task'.state # "none")
  BY EnqueueStep DEF EnqueueThrows, TaskTypeOK

LEMMA QueueStep ==
  ASSUME TaskTypeOK, QueueExchange
  PROVE  TaskTypeOK' /\ (task.state # "none" => task'.state # "none")
  BY QueueAssumption DEF TaskTypeOK, TaskType, TaskStates, QueueExchange, AttemptTimeout, GiveUp, ForgetName,
     BeginAttempt, Respond

----------------------------------------------------------------------------
(***************************************************************************)
(* What the ones who do not move know still holds.                         *)
(***************************************************************************)
LEMMA StillKnown ==
  ASSUME Known, Onward
  PROVE  /\ Enqueued => Enqueued'
         /\ \A h \in Handlers : handler'[h] = handler[h] => HandlerKnows(h)'
         /\ \A c \in Checkers : checker'[c] = checker[c] => CheckerKnows(c)'
  BY DEF Known, Onward, Enqueued, HandlerKnows, CheckerKnows

LEMMA HandlerStep ==
  ASSUME IntakeInv, Onward, StoreTypeOK', TaskTypeOK', NEW h \in Handlers, NEW next \in HandlerType,
         handler' = [handler EXCEPT ![h] = next],
         UNCHANGED checkVars,
         twilio' \in TwilioType,
         row'.queued => Enqueued',
         twilio'.event = "acked" => Enqueued',
         next.pc \in {"select", "enqueue", "mark"} => row'.received,
         next.pc = "mark" => Enqueued'
  PROVE  IntakeInv'
<1>1. IntakeTypeOK'
  BY DEF IntakeInv, IntakeTypeOK, IngressTypeOK, CheckTypeOK, checkVars
<1>2. /\ handler'[h] = next
      /\ \A g \in Handlers \ {h} : handler'[g] = handler[g]
  BY DEF IntakeInv, IntakeTypeOK, IngressTypeOK
<1>3. \A g \in Handlers : HandlerKnows(g)'
  BY <1>2, StillKnown DEF IntakeInv, HandlerKnows
<1>4. \A c \in Checkers : CheckerKnows(c)'
  BY StillKnown DEF IntakeInv, checkVars
<1>5. QED
  BY <1>1, <1>3, <1>4 DEF IntakeInv, Known

LEMMA CheckerStep ==
  ASSUME IntakeInv, Onward, StoreTypeOK', TaskTypeOK', NEW c \in Checkers, NEW pc \in CheckerPCs,
         CheckerGoto(c, pc),
         UNCHANGED <<handler, twilio, old>>,
         row'.queued => Enqueued',
         pc \in {"enqueue", "mark"} => row'.received,
         pc = "mark" => Enqueued'
  PROVE  IntakeInv'
<1>1. IntakeTypeOK'
  BY DEF IntakeInv, IntakeTypeOK, IngressTypeOK, CheckTypeOK, CheckerGoto
<1>2. /\ checker'[c] = pc
      /\ \A d \in Checkers \ {c} : checker'[d] = checker[d]
  BY DEF IntakeInv, IntakeTypeOK, CheckTypeOK, CheckerGoto
<1>3. \A d \in Checkers : CheckerKnows(d)'
  BY <1>2, StillKnown DEF IntakeInv, CheckerKnows
<1>4. \A h \in Handlers : HandlerKnows(h)'
  BY StillKnown DEF IntakeInv
<1>5. QED
  BY <1>1, <1>3, <1>4, StillKnown DEF IntakeInv, Known

\* A step that moves neither a handler nor a check.
LEMMA OtherStep ==
  ASSUME IntakeInv, Kept, TaskTypeOK', task.state # "none" => task'.state # "none",
         UNCHANGED <<handler, twilio, checker>>, old' \in BOOLEAN
  PROVE  IntakeInv'
<1>1. IntakeTypeOK'
  BY DEF IntakeInv, IntakeTypeOK, Kept, IngressTypeOK, CheckTypeOK
<1>2. Onward
  BY DEF Kept, Onward
<1>3. (row'.queued => Enqueued') /\ (twilio'.event = "acked" => Enqueued')
  BY <1>2 DEF Kept, Onward, IntakeInv, Known, Enqueued
<1>4. Known'
  BY <1>2, <1>3, StillKnown DEF IntakeInv, Known
<1>5. QED
  BY <1>1, <1>4 DEF IntakeInv

----------------------------------------------------------------------------
(***************************************************************************)
(* The response of a handler, and what it may say.                         *)
(***************************************************************************)
LEMMA AnswerInv ==
  ASSUME IntakeInv, Onward, StoreTypeOK', TaskTypeOK', NEW h \in Handlers, NEW status,
         Answer(h, status), UNCHANGED checkVars,
         row'.queued => Enqueued',
         status = 200 => Enqueued'
  PROVE  IntakeInv'
<1>1. Free \in HandlerType /\ Free.pc = "idle"
  BY DEF Free, HandlerType
<1>2. twilio' \in TwilioType
  BY DEF IntakeInv, IntakeTypeOK, IngressTypeOK, TwilioType, Answer
<1>3. twilio'.event = "acked" => Enqueued'
  BY StillKnown DEF IntakeInv, IntakeTypeOK, IngressTypeOK, TwilioType, Known, Answer
<1>4. QED
  BY <1>1, <1>2, <1>3, HandlerStep DEF Answer

\* A handler goes on.
LEMMA GotoInv ==
  ASSUME IntakeInv, Onward, StoreTypeOK', TaskTypeOK', NEW h \in Handlers,
         NEW pc \in {"insert", "select", "enqueue", "mark"},
         HandlerGoto(h, pc), UNCHANGED <<twilio, checkVars>>,
         row'.queued => Enqueued',
         pc # "insert" => row'.received,
         pc = "mark" => Enqueued'
  PROVE  IntakeInv'
<1> DEFINE next == [handler[h] EXCEPT !.pc = pc]
<1>1. next \in HandlerType /\ next.pc = pc /\ handler' = [handler EXCEPT ![h] = next]
  BY DEF IntakeInv, IntakeTypeOK, IngressTypeOK, HandlerType, HandlerGoto
<1>2. twilio' \in TwilioType /\ (twilio'.event = "acked" => Enqueued')
  BY StillKnown DEF IntakeInv, IntakeTypeOK, IngressTypeOK, Known
<1>3. QED
  BY <1>1, <1>2, HandlerStep

\* What a step that leaves the store and the queue alone keeps.
LEMMA Unmoved ==
  ASSUME IntakeInv, UNCHANGED <<storeVars, task>>
  PROVE  /\ Onward /\ StoreTypeOK' /\ TaskTypeOK'
         /\ Enqueued' = Enqueued /\ (row'.queued => Enqueued')
  BY DEF IntakeInv, IntakeTypeOK, StoreTypeOK, TaskTypeOK, storeVars, Onward, Known, Enqueued

LEMMA ArriveInv ==
  ASSUME IntakeInv, NEW h \in Handlers, Webhook(h) \/ Event(h) \/ EventFetch(h), UNCHANGED checkVars
  PROVE  IntakeInv'
<1>1. /\ Onward /\ StoreTypeOK' /\ TaskTypeOK'
      /\ Enqueued' = Enqueued /\ (row'.queued => Enqueued')
  BY Unmoved DEF Webhook, Event, EventFetch
<1>2. CASE Webhook(h)
  <2> DEFINE next == [pc |-> "insert", source |-> "webhook"]
  <2>1. next \in HandlerType /\ handler' = [handler EXCEPT ![h] = next]
    BY <1>2 DEF Webhook, HandlerType
  <2>2. twilio' \in TwilioType /\ twilio'.event = twilio.event
    BY <1>2 DEF Webhook, IntakeInv, IntakeTypeOK, IngressTypeOK, TwilioType
  <2>3. QED
    BY <1>1, <2>1, <2>2, HandlerStep DEF IntakeInv, Known
<1>3. CASE Event(h)
  <2> DEFINE next == [pc |-> "fetch", source |-> "event"]
  <2>1. next \in HandlerType /\ handler' = [handler EXCEPT ![h] = next]
    BY <1>3 DEF Event, HandlerType
  <2>2. twilio' \in TwilioType /\ twilio'.event = twilio.event
    BY <1>3 DEF Event, IntakeInv, IntakeTypeOK, IngressTypeOK
  <2>3. QED
    BY <1>1, <2>1, <2>2, HandlerStep DEF IntakeInv, Known
<1>4. CASE EventFetch(h)
  <2>1. CASE HandlerGoto(h, "insert") /\ UNCHANGED twilio
    BY <1>1, <2>1, GotoInv
  <2>2. CASE Answer(h, 503) \/ Answer(h, 404)
    BY <1>1, <2>2, AnswerInv
  <2>3. QED
    BY <1>4, <2>1, <2>2 DEF EventFetch
<1>5. QED
  BY <1>2, <1>3, <1>4

LEMMA ReceiveInv ==
  ASSUME IntakeInv, NEW h \in Handlers, Receive(h), UNCHANGED checkVars PROVE IntakeInv'
<1>1. StoreTypeOK' /\ row'.received /\ (row'.queued => row.queued /\ row.received)
  BY ReceiveStep DEF Receive, IntakeInv, IntakeTypeOK
<1>2. Onward /\ TaskTypeOK' /\ (row'.queued => Enqueued')
  BY <1>1 DEF Receive, Onward, IntakeInv, IntakeTypeOK, TaskTypeOK, Known, Enqueued
<1>3. QED
  BY <1>1, <1>2, GotoInv DEF Receive

LEMMA ReadBackInv ==
  ASSUME IntakeInv, NEW h \in Handlers, ReadBack(h), UNCHANGED checkVars PROVE IntakeInv'
<1>1. /\ Onward /\ StoreTypeOK' /\ TaskTypeOK'
      /\ Enqueued' = Enqueued /\ (row'.queued => Enqueued')
  BY Unmoved DEF ReadBack
<1>2. CASE row.queued
  BY <1>1, <1>2, AnswerInv DEF ReadBack, IntakeInv, Known
<1>3. CASE ~row.queued
  <2>1. row'.received
    BY <1>1 DEF ReadBack, HandlerAt, IntakeInv, Known, HandlerKnows, Onward
  <2>2. HandlerGoto(h, "enqueue") /\ UNCHANGED twilio
    BY <1>3 DEF ReadBack
  <2>3. QED
    BY <1>1, <2>1, <2>2, GotoInv
<1>4. QED
  BY <1>2, <1>3

LEMMA EnqueueInv ==
  ASSUME IntakeInv, NEW h \in Handlers, Enqueue(h), UNCHANGED checkVars PROVE IntakeInv'
<1>1. row'.received /\ row' = row /\ StoreTypeOK'
  BY DEF Enqueue, HandlerAt, IntakeInv, IntakeTypeOK, StoreTypeOK, Known, HandlerKnows, storeVars
<1>2. CASE EnqueueReturns /\ HandlerGoto(h, "mark") /\ UNCHANGED twilio
  <2>1. TaskTypeOK' /\ task'.state # "none"
    BY <1>2, EnqueueStep DEF IntakeInv, IntakeTypeOK
  <2>2. Onward /\ Enqueued'
    BY <1>1, <2>1 DEF Onward, Enqueued
  <2>3. QED
    BY <1>1, <1>2, <2>1, <2>2, GotoInv
<1>3. CASE EnqueueThrows /\ Answer(h, 503)
  <2>1. TaskTypeOK' /\ (task.state # "none" => task'.state # "none")
    BY <1>3, EnqueueThrowsStep DEF IntakeInv, IntakeTypeOK
  <2>2. Onward /\ (row'.queued => Enqueued')
    BY <1>1, <2>1 DEF Onward, IntakeInv, Known, Enqueued
  <2>3. QED
    BY <1>1, <1>3, <2>1, <2>2, AnswerInv
<1>4. QED
  BY <1>2, <1>3 DEF Enqueue

LEMMA MarkInv ==
  ASSUME IntakeInv, NEW h \in Handlers, Mark(h), UNCHANGED checkVars PROVE IntakeInv'
<1>1. StoreTypeOK' /\ row'.received = row.received
  BY MarkStep DEF Mark, IntakeInv, IntakeTypeOK
<1>2. Enqueued
  BY DEF Mark, HandlerAt, IntakeInv, Known, HandlerKnows
<1>3. Onward /\ TaskTypeOK' /\ Enqueued'
  BY <1>1, <1>2 DEF Mark, Onward, IntakeInv, IntakeTypeOK, TaskTypeOK, Enqueued
<1>4. QED
  BY <1>1, <1>3, AnswerInv DEF Mark

LEMMA HandlerCrashInv ==
  ASSUME IntakeInv, NEW h \in Handlers, HandlerCrash(h), UNCHANGED checkVars PROVE IntakeInv'
  BY Unmoved, AnswerInv DEF HandlerCrash

----------------------------------------------------------------------------
(***************************************************************************)
(* The health check.                                                       *)
(***************************************************************************)
LEMMA CheckStatementInv ==
  ASSUME IntakeInv, NEW c \in Checkers, CheckOverdue(c) \/ CheckMark(c) \/ CheckMissed(c),
         UNCHANGED <<handler, twilio>>
  PROVE  IntakeInv'
<1>0. TaskTypeOK' /\ task' = task
  BY DEF CheckOverdue, CheckMark, CheckMissed, IntakeInv, IntakeTypeOK, TaskTypeOK
<1>1. CASE CheckOverdue(c)
  <2>1. Kept
    BY <1>1, OverdueStep DEF CheckOverdue, IntakeInv, IntakeTypeOK
  <2>2. Onward /\ StoreTypeOK' /\ (row'.queued => Enqueued')
    BY <1>0, <2>1 DEF Kept, Onward, IntakeInv, Known, Enqueued
  <2>3. QED
    BY <1>0, <1>1, <2>2, CheckerStep DEF CheckOverdue, CheckerPCs
<1>2. CASE CheckMark(c)
  <2>1. StoreTypeOK' /\ row'.received = row.received
    BY <1>2, MarkStep DEF CheckMark, IntakeInv, IntakeTypeOK
  <2>2. Onward /\ Enqueued'
    BY <1>0, <1>2, <2>1 DEF CheckMark, Onward, IntakeInv, Known, CheckerKnows, Enqueued
  <2>3. QED
    BY <1>0, <1>2, <2>1, <2>2, CheckerStep DEF CheckMark, CheckerPCs
<1>3. CASE CheckMissed(c)
  <2>1. StoreTypeOK' /\ row'.received /\ (row'.queued => row.queued /\ row.received)
    BY <1>3, MissedStep DEF CheckMissed, IntakeInv, IntakeTypeOK
  <2>2. Onward /\ (row'.queued => Enqueued')
    BY <1>0, <2>1 DEF Onward, IntakeInv, Known, Enqueued
  <2>3. QED
    BY <1>0, <1>3, <2>1, <2>2, CheckerStep DEF CheckMissed, CheckerPCs
<1>4. QED
  BY <1>1, <1>2, <1>3

LEMMA CheckLookInv ==
  ASSUME IntakeInv, NEW c \in Checkers,
         CheckList(c) \/ CheckScan(c) \/ CheckScanFails(c) \/ CheckCrash(c),
         UNCHANGED <<handler, twilio>>
  PROVE  IntakeInv'
<1>1. /\ Onward /\ StoreTypeOK' /\ TaskTypeOK'
      /\ row' = row /\ (row'.queued => Enqueued')
  BY Unmoved DEF CheckList, CheckScan, CheckScanFails, CheckCrash, storeVars
<1>2. CASE CheckList(c)
  <2>1. CASE Unqueued
    BY <1>1, <1>2, <2>1, CheckerStep DEF CheckList, CheckerPCs, Unqueued
  <2>2. CASE ~Unqueued
    BY <1>1, <1>2, <2>2, CheckerStep DEF CheckList, CheckerPCs
  <2>3. QED
    BY <2>1, <2>2
<1>3. CASE CheckScan(c) \/ CheckScanFails(c) \/ CheckCrash(c)
  <2>1. PICK pc \in {"missed", "idle"} : CheckerGoto(c, pc)
    BY <1>3 DEF CheckScan, CheckScanFails, CheckCrash
  <2>2. UNCHANGED old
    BY <1>3 DEF CheckScan, CheckScanFails, CheckCrash
  <2>3. QED
    BY <1>1, <2>1, <2>2, CheckerStep DEF CheckerPCs
<1>4. QED
  BY <1>2, <1>3

LEMMA CheckEnqueueInv ==
  ASSUME IntakeInv, NEW c \in Checkers, CheckEnqueue(c) \/ CheckEnqueueFails(c),
         UNCHANGED <<handler, twilio>>
  PROVE  IntakeInv'
<1>1. row'.received /\ row' = row /\ StoreTypeOK'
  BY DEF CheckEnqueue, CheckEnqueueFails, IntakeInv, IntakeTypeOK, StoreTypeOK, Known, CheckerKnows, storeVars
<1>2. CASE CheckEnqueue(c)
  <2>1. TaskTypeOK' /\ task'.state # "none"
    BY <1>2, EnqueueStep DEF CheckEnqueue, IntakeInv, IntakeTypeOK
  <2>2. Onward /\ Enqueued'
    BY <1>1, <2>1 DEF Onward, Enqueued
  <2>3. QED
    BY <1>1, <1>2, <2>1, <2>2, CheckerStep DEF CheckEnqueue, CheckerPCs
<1>3. CASE CheckEnqueueFails(c)
  <2>1. TaskTypeOK' /\ (task.state # "none" => task'.state # "none")
    BY <1>3, EnqueueThrowsStep DEF CheckEnqueueFails, IntakeInv, IntakeTypeOK, TaskTypeOK
  <2>2. Onward /\ (row'.queued => Enqueued')
    BY <1>1, <2>1 DEF Onward, IntakeInv, Known, Enqueued
  <2>3. QED
    BY <1>1, <1>3, <2>1, <2>2, CheckerStep DEF CheckEnqueueFails, CheckerPCs
<1>4. QED
  BY <1>2, <1>3

----------------------------------------------------------------------------
(***************************************************************************)
(* The runs of the encode task, the queue, and time.                       *)
(***************************************************************************)
LEMMA TaskEffectsInv == ASSUME IntakeInv, TaskEffects PROVE IntakeInv'
<1>1. Kept
  <2>1. CASE row.received /\ TaskStatement
    BY <2>1, TaskStatementStep DEF IntakeInv, IntakeTypeOK
  <2>2. CASE UNCHANGED storeVars
    BY <2>2 DEF IntakeInv, IntakeTypeOK, StoreTypeOK, storeVars, Kept
  <2>3. QED
    BY <2>1, <2>2 DEF TaskEffects
<1>2. TaskTypeOK' /\ (task.state # "none" => task'.state # "none")
  BY QueueStep DEF TaskEffects, IntakeInv, IntakeTypeOK, TaskTypeOK
<1>3. UNCHANGED <<handler, twilio, checker>> /\ old' \in BOOLEAN
  BY DEF TaskEffects, checkVars, IntakeInv, IntakeTypeOK, CheckTypeOK
<1>4. QED
  BY <1>1, <1>2, <1>3, OtherStep

LEMMA TimeInv == ASSUME IntakeInv, Clock \/ (GrowOld /\ UNCHANGED <<handler, twilio>>) PROVE IntakeInv'
<1>1. Kept
  BY TickStep DEF Clock, GrowOld, IntakeInv, IntakeTypeOK, StoreTypeOK, storeVars, Kept
<1>2. /\ TaskTypeOK' /\ (task.state # "none" => task'.state # "none")
      /\ UNCHANGED <<handler, twilio, checker>> /\ old' \in BOOLEAN
  BY DEF Clock, GrowOld, checkVars, IntakeInv, IntakeTypeOK, TaskTypeOK, CheckTypeOK
<1>3. QED
  BY <1>1, <1>2, OtherStep

LEMMA IntakeNextInv == IntakeInv /\ [IntakeNext]_intakeVars => IntakeInv'
<1> SUFFICES ASSUME IntakeInv, [IntakeNext]_intakeVars PROVE IntakeInv'
  OBVIOUS
<1>1. CASE TaskEffects
  BY <1>1, TaskEffectsInv
<1>2. CASE IngressAction
  <2>1. PICK h \in Handlers :
          \/ Webhook(h) \/ Event(h) \/ EventFetch(h) \/ Receive(h) \/ ReadBack(h)
          \/ Enqueue(h) \/ Mark(h) \/ HandlerCrash(h)
    BY <1>2 DEF IngressAction, IngressNext
  <2>2. UNCHANGED checkVars
    BY <1>2 DEF IngressAction
  <2>3. QED
    BY <2>1, <2>2, ArriveInv, ReceiveInv, ReadBackInv, EnqueueInv, MarkInv, HandlerCrashInv
<1>3. CASE CheckAction
  <2>1. UNCHANGED <<handler, twilio>>
    BY <1>3 DEF CheckAction
  <2>2. CASE GrowOld
    BY <2>1, <2>2, TimeInv
  <2>3. CASE \E c \in Checkers : CheckStep(c)
    BY <2>1, <2>3, CheckStatementInv, CheckLookInv, CheckEnqueueInv DEF CheckStep
  <2>4. QED
    BY <1>3, <2>2, <2>3 DEF CheckAction
<1>4. CASE Clock
  BY <1>4, TimeInv
<1>5. CASE UNCHANGED intakeVars
  <2>1. Kept /\ TaskTypeOK' /\ task' = task
    BY <1>5 DEF intakeVars, Kept, IntakeInv, IntakeTypeOK, StoreTypeOK, TaskTypeOK
  <2>2. UNCHANGED <<handler, twilio, checker>> /\ old' \in BOOLEAN
    BY <1>5 DEF intakeVars, IntakeInv, IntakeTypeOK, CheckTypeOK
  <2>3. QED
    BY <2>1, <2>2, OtherStep
<1>6. QED
  BY <1>1, <1>2, <1>3, <1>4, <1>5 DEF IntakeNext

----------------------------------------------------------------------------
\* The strengthened invariant, from which the rest follows.
THEOREM IntakeSpecInv == IntakeSpec => []IntakeInv
  BY IntakeInitInv, IntakeNextInv, PTL DEF IntakeSpec

\* Every variable of the intake keeps its type.
THEOREM SpecTypeOK == IntakeSpec => []IntakeTypeOK
<1>1. IntakeInv => IntakeTypeOK
  BY DEF IntakeInv
<1>2. QED
  BY <1>1, IntakeSpecInv, PTL

\* However handlers, checks and runs overlap, fail or die, a row is marked as
\* queued only once the queue has had its task (queueMessage's order).
THEOREM SpecQueuedMeansEnqueued == IntakeSpec => []QueuedMeansEnqueued
<1>1. IntakeInv => QueuedMeansEnqueued
  BY DEF IntakeInv, Known, Enqueued, QueuedMeansEnqueued
<1>2. QED
  BY <1>1, IntakeSpecInv, PTL

\* Twilio is told to stop redelivering only once the store has the message and
\* the queue has had its task (handleEvent's statuses).
THEOREM SpecAckedMeansEnqueued == IntakeSpec => []AckedMeansEnqueued
<1>1. IntakeInv => AckedMeansEnqueued
  BY DEF IntakeInv, Known, Enqueued, AckedMeansEnqueued
<1>2. QED
  BY <1>1, IntakeSpecInv, PTL

-----------------------------------------------------------------------------
(* The two halves together. *)
DeliveryInv == IInv /\ IntakeInv

----------------------------------------------------------------------------
(***************************************************************************)
(* A run of the encode task is one of Intake's TaskEffects.                *)
(***************************************************************************)
\* To the queue a status is a 200 or it is not.
LEMMA RespondKinds ==
  ASSUME NEW r, NEW status, Respond(r, status)
  PROVE  Respond(r, 200) \/ Respond(r, 503)
  BY DEF Respond

\* A response, or none, is an exchange with the queue.
LEMMA TaskHalf ==
  ASSUME NEW r \in Runs,
         \/ UNCHANGED task
         \/ BeginAttempt(r)
         \/ \E status \in {200, 404, 500, 503} : Return(r, status)
  PROVE  QueueExchange \/ UNCHANGED task
  BY RespondKinds DEF QueueExchange, Return

\* What a run does with the part it holds.
LEMMA HeldStatement ==
  ASSUME IInv, NEW r \in Runs, Holding(r),
         LET p == run[r].part IN RecordReplySent(p) \/ RecordReplyFailed(p) \/ ReleaseReply(p)
  PROVE  row.received /\ TaskStatement
<1> DEFINE p == run[r].part
<1>1. p \in ReplyRows /\ replies[p].sending /\ ~replies[p].sid /\ ~replies[p].refused
  BY DEF IInv, RunsAgree, HolderAgrees
<1>2. row.received /\ ~row.noReply
  BY DEF IInv, RunsAgree, RunAgrees, Committed, RowAgrees
<1>3. ~CanClaim(p)
  BY <1>1 DEF CanClaim
<1>4. QED
  BY <1>1, <1>2, <1>3 DEF TaskStatement

LEMMA ClaimStatement ==
  ASSUME IInv, NEW r \in Runs, Claim(r)
  PROVE  (row.received /\ TaskStatement) \/ UNCHANGED storeVars
<1>1. row.received /\ ~row.noReply
  BY DEF Claim, At, IInv, RunsAgree, RunAgrees, Committed, RowAgrees
<1>2. CASE \E p \in Parts : NextPart(r, p) /\ CanClaim(p) /\ ClaimReply(p)
  <2>1. PICK p \in Parts : NextPart(r, p) /\ CanClaim(p) /\ ClaimReply(p)
    BY <1>2
  <2>2. p \in ReplyRows
    BY <2>1 DEF NextPart, IInv, RunsAgree, RunAgrees
  <2>3. QED
    BY <1>1, <2>1, <2>2 DEF TaskStatement
<1>3. QED
  BY <1>2 DEF Claim

\* The statement of a run, if its step makes one.
LEMMA RunStatement ==
  ASSUME IInv, NEW r \in Runs, RunStep(r)
  PROVE  (row.received /\ TaskStatement) \/ UNCHANGED storeVars
<1>1. CASE FetchRejected(r)
  BY <1>1 DEF FetchRejected, At, TaskStatement, IInv, RunsAgree, RunAgrees
<1>2. CASE Record(r)
  <2>1. row.received
    BY <1>2 DEF Record, At, IInv, RunsAgree, RunAgrees
  <2>2. PICK result \in Results(r), e \in Encodings : RecordEncoded(result[1], e, result[2])
    BY <1>2 DEF Record
  <2>3. \/ result[1] \in {"answer", "unavailable"} /\ result[2] \in Parts
        \/ result[1] = "silent" /\ result[2] = 0
    BY PartsNat DEF Results
  <2>4. TaskStatement
    BY <2>2, <2>3 DEF TaskStatement
  <2>5. QED
    BY <2>1, <2>4
<1>3. CASE Claim(r)
  BY <1>3, ClaimStatement
<1>4. CASE RecordSent(r) \/ RecordFailed(r) \/ Release(r)
  BY <1>4, HeldStatement DEF RecordSent, RecordFailed, Release, At, Holding
<1>5. CASE Finish(r)
  BY <1>5 DEF Finish, At, TaskStatement, IInv, RunsAgree, RunAgrees, Committed, RowAgrees
<1>6. CASE UNCHANGED storeVars
  BY <1>6
<1>7. QED
  BY <1>1, <1>2, <1>3, <1>4, <1>5, <1>6
     DEF RunStep, LoadRow, LoadReplies, FetchOk, FetchRetry, ResolveUnavailable, Resolve, Reload,
         ReloadReplies, ClaimsDone, SendAccepted, SendRejected, SendRetry, SendUnacknowledged, Check

\* What the queue sees of a run's step.
LEMMA RunExchange ==
  ASSUME NEW r \in Runs, RunStep(r)
  PROVE  QueueExchange \/ UNCHANGED task
<1> DEFINE Returns == \E status \in {200, 404, 500, 503} : Return(r, status)
<1>1. UNCHANGED task \/ Returns
  <2>1. CASE \/ LoadRow(r) \/ FetchRetry(r) \/ FetchRejected(r) \/ ResolveUnavailable(r)
             \/ Reload(r) \/ RecordFailed(r) \/ Release(r) \/ Check(r) \/ Finish(r)
    <3>1. \/ UNCHANGED task
          \/ Return(r, 200) \/ Return(r, 404) \/ Return(r, 503)
      BY <2>1 DEF LoadRow, FetchRetry, FetchRejected, ResolveUnavailable, Reload, RecordFailed,
                  Release, Check, Finish
    <3>2. QED
      BY <3>1
  <2>2. CASE UNCHANGED task
    BY <2>2
  <2>3. QED
    BY <2>1, <2>2
       DEF RunStep, LoadReplies, FetchOk, Resolve, Record, ReloadReplies, Claim, ClaimsDone,
           SendAccepted, SendRejected, SendRetry, SendUnacknowledged, RecordSent
<1>2. QED
  BY <1>1, TaskHalf

LEMMA TaskActionEffects == ASSUME IInv, TaskAction PROVE TaskEffects
<1>1. PICK r \in Runs : Dispatch(r) \/ ExtraCall(r) \/ RunStep(r) \/ Crash(r)
  BY DEF TaskAction, EncodeTaskNext
<1>2. (row.received /\ TaskStatement) \/ UNCHANGED storeVars
  BY <1>1, RunStatement DEF Dispatch, ExtraCall, Crash
<1>3. QueueExchange \/ UNCHANGED task
  BY <1>1, RunExchange, TaskHalf DEF Dispatch, ExtraCall, Crash
<1>4. QED
  BY <1>2, <1>3 DEF TaskAction, TaskEffects

LEMMA QueueActionEffects == ASSUME QueueAction PROVE TaskEffects
  BY DEF QueueAction, QueueNext, QueueExchange, TaskEffects

----------------------------------------------------------------------------
(***************************************************************************)
(* A handler or a health check is EncodeTask's Environment, or invisible.  *)
(***************************************************************************)
LEMMA HandlerIsEnvironment ==
  ASSUME IntakeInv, IngressNext, UNCHANGED <<run, twilioVars>>
  PROVE  Environment \/ UNCHANGED <<storeVars, task>>
<1>1. PICK h \in Handlers :
          \/ Webhook(h) \/ Event(h) \/ EventFetch(h) \/ Receive(h) \/ ReadBack(h)
          \/ Enqueue(h) \/ Mark(h) \/ HandlerCrash(h)
  BY DEF IngressNext
<1>2. CASE Receive(h)
  BY <1>2 DEF Receive, Environment
<1>3. CASE Enqueue(h)
  BY <1>3 DEF Enqueue, HandlerAt, EnqueueThrows, Environment, IntakeInv, Known, HandlerKnows
<1>4. CASE Mark(h)
  BY <1>4 DEF Mark, HandlerAt, Environment, IntakeInv, Known, HandlerKnows
<1>5. QED
  BY <1>1, <1>2, <1>3, <1>4 DEF Webhook, Event, EventFetch, ReadBack, HandlerCrash

LEMMA CheckerIsEnvironment ==
  ASSUME IntakeInv, NEW c \in Checkers, CheckStep(c), UNCHANGED <<run, twilioVars>>
  PROVE  Environment \/ UNCHANGED <<storeVars, task>>
<1>1. CASE CheckOverdue(c) \/ CheckMissed(c)
  BY <1>1 DEF CheckOverdue, CheckMissed, Environment
<1>2. CASE CheckEnqueue(c) \/ CheckEnqueueFails(c)
  BY <1>2 DEF CheckEnqueue, CheckEnqueueFails, EnqueueThrows, Environment, IntakeInv, Known, CheckerKnows
<1>3. CASE CheckMark(c)
  BY <1>3 DEF CheckMark, Environment, IntakeInv, Known, CheckerKnows
<1>4. QED
  BY <1>1, <1>2, <1>3 DEF CheckStep, CheckList, CheckScan, CheckScanFails, CheckCrash

LEMMA IntakeIsEnvironment ==
  ASSUME IntakeInv, IntakeAction
  PROVE  Environment \/ UNCHANGED vars
<1>1. UNCHANGED <<run, twilioVars>>
  BY DEF IntakeAction
<1>2. Environment \/ UNCHANGED <<storeVars, task>>
  <2>1. CASE IngressAction
    BY <1>1, <2>1, HandlerIsEnvironment DEF IngressAction
  <2>2. CASE CheckAction
    BY <1>1, <2>2, CheckerIsEnvironment DEF CheckAction, GrowOld
  <2>3. CASE Clock
    BY <1>1, <2>3 DEF Clock, Environment
  <2>4. QED
    BY <2>1, <2>2, <2>3 DEF IntakeAction
<1>3. QED
  BY <1>1, <1>2 DEF vars, storeVars, twilioVars

----------------------------------------------------------------------------
\* Every step of the pipeline is a step of both halves.
LEMMA BothHalves ==
  DeliveryInv /\ [DeliveryNext]_deliveryVars => [Next]_vars /\ [IntakeNext]_intakeVars
<1> SUFFICES ASSUME DeliveryInv, [DeliveryNext]_deliveryVars
             PROVE  [Next]_vars /\ [IntakeNext]_intakeVars
  OBVIOUS
<1>1. CASE TaskAction
  BY <1>1, TaskActionEffects DEF TaskAction, Next, IntakeNext, DeliveryInv
<1>2. CASE QueueAction
  BY <1>2, QueueActionEffects DEF QueueAction, Next, IntakeNext
<1>3. CASE IntakeAction
  BY <1>3, IntakeIsEnvironment DEF IntakeAction, Next, IntakeNext, DeliveryInv
<1>4. CASE UNCHANGED deliveryVars
  BY <1>4 DEF deliveryVars, vars, intakeVars
<1>5. QED
  BY <1>1, <1>2, <1>3, <1>4 DEF DeliveryNext

LEMMA DeliveryInits == DeliveryInit => Init /\ IntakeInit
  BY DEF DeliveryInit, Init, IntakeInit

THEOREM DeliverySpecInv == DeliverySpec => []DeliveryInv
<1>1. DeliveryInit => DeliveryInv
  BY DeliveryInits, InitInv, IntakeInitInv DEF DeliveryInv
<1>2. DeliveryInv /\ [DeliveryNext]_deliveryVars => DeliveryInv'
  BY BothHalves, NextInv, IntakeNextInv DEF DeliveryInv
<1>3. QED
  BY <1>1, <1>2, PTL DEF DeliverySpec

\* The webhook, the event sink and the health check do nothing to the encode
\* task that its model leaves out (EncodeTask's Environment).
THEOREM RefinesEncodeTask == DeliverySpec => ImplementsEncodeTask
  BY DeliverySpecInv, BothHalves, DeliveryInits, PTL DEF DeliverySpec, ImplementsEncodeTask, Spec

\* The runs of the encode task and the queue do nothing to the intake that its
\* model leaves out (Intake's TaskEffects).
THEOREM RefinesIntake == DeliverySpec => ImplementsIntake
  BY DeliverySpecInv, BothHalves, DeliveryInits, PTL DEF DeliverySpec, ImplementsIntake, IntakeSpec

(***************************************************************************)
(* So the pipeline at work as a whole keeps what each half promises: no    *)
(* part sent twice but for lost acknowledgements, one text per request,    *)
(* `sent` only when everything is, nothing sent where nothing is owed,     *)
(* nothing queued or acknowledged before the task exists, and the          *)
(* lifecycle of db.ts:224-230.                                             *)
(***************************************************************************)
THEOREM PipelineKeepsItsPromises ==
  DeliverySpec => /\ [](AtMostOncePerLostAck /\ OneEncoding)
                  /\ [](SentMeansEveryPart /\ NothingOwedNothingSent)
                  /\ [](QueuedMeansEnqueued /\ AckedMeansEnqueued)
                  /\ ImplementsLifecycle
<1>1. DeliverySpec => Spec /\ IntakeSpec
  BY RefinesEncodeTask, RefinesIntake DEF ImplementsEncodeTask, ImplementsIntake
<1>2. QED
  BY <1>1, ClaimProtocol, OneEncodingSent, SentIsSent, NothingSent, SpecQueuedMeansEnqueued,
     SpecAckedMeansEnqueued, Refinement, PTL

=============================================================================
