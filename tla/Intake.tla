------------------------------- MODULE Intake -------------------------------
(***************************************************************************)
(* How a message gets into the store, onto the queue and to an end: the    *)
(* webhook, the event sink and the health check, with the runs of the      *)
(* encode task reduced to what they write to the row and tell the queue.   *)
(***************************************************************************)
EXTENDS Ingress, HealthCheck

intakeVars == <<row, replies, age, task, handler, twilio, checker, old>>

IntakeInit == /\ StoreInit /\ TaskInit /\ IngressInit /\ CheckInit

(***************************************************************************)
(* Any statement of the encode task, whenever its guard in the store       *)
(* allows it, and any exchange of a run with the queue, in any order:      *)
(* module EncodeTask says when, and module Delivery that runs do nothing   *)
(* else.                                                                   *)
(***************************************************************************)
TaskStatement ==
  \/ RecordRejected
  \/ \E outcome \in {"answer", "unavailable"}, e \in Encodings, n \in Parts :
        RecordEncoded(outcome, e, n)
  \/ \E e \in Encodings : RecordEncoded("silent", e, 0)
  \/ ~row.noReply /\ \E p \in ReplyRows :
        \/ CanClaim(p) /\ ClaimReply(p)
        \/ /\ ~CanClaim(p) /\ ~replies[p].sid /\ ~replies[p].refused
           /\ ReleaseReply(p) \/ RecordReplySent(p) \/ RecordReplyFailed(p)
  \/ ~row.noReply /\ EveryPartHasSid /\ ReplyRows # {} /\ RecordRequestSent

QueueExchange ==
  \/ AttemptTimeout \/ GiveUp \/ ForgetName
  \/ \E r \in Runs : BeginAttempt(r) \/ Respond(r, 200) \/ Respond(r, 503)

TaskEffects == /\ (row.received /\ TaskStatement) \/ UNCHANGED storeVars
               /\ QueueExchange \/ UNCHANGED task
               /\ UNCHANGED <<handler, twilio, checkVars>>

IngressAction == IngressNext /\ UNCHANGED checkVars
CheckAction   == /\ GrowOld \/ \E c \in Checkers : CheckStep(c)
                 /\ UNCHANGED <<handler, twilio>>
Clock         == Tick /\ UNCHANGED <<task, handler, twilio, checkVars>>

IntakeNext == TaskEffects \/ IngressAction \/ CheckAction \/ Clock

IntakeSpec == IntakeInit /\ [][IntakeNext]_intakeVars

(***************************************************************************)
(* Fairness.  Cloud Scheduler keeps starting health checks and time keeps  *)
(* passing.  A check may die, and a call of it may fail, any number of     *)
(* times but not every time, hence strong fairness on the steps it needs.  *)
(* Nothing is assumed of Twilio's deliveries, of the queue or of the runs. *)
(***************************************************************************)
CheckFairness(c) ==
  /\ WF_intakeVars(CheckOverdue(c) /\ UNCHANGED <<handler, twilio>>)
  /\ SF_intakeVars(CheckList(c) /\ UNCHANGED <<handler, twilio>>)
  /\ SF_intakeVars(CheckEnqueue(c) /\ UNCHANGED <<handler, twilio>>)
  /\ SF_intakeVars(CheckMark(c) /\ UNCHANGED <<handler, twilio>>)
  /\ SF_intakeVars(CheckScan(c) /\ UNCHANGED <<handler, twilio>>)
  /\ SF_intakeVars(CheckMissed(c) /\ UNCHANGED <<handler, twilio>>)

IntakeFairness ==
  /\ WF_intakeVars(Clock)
  /\ WF_intakeVars(GrowOld /\ UNCHANGED <<handler, twilio>>)
  /\ \A c \in Checkers : CheckFairness(c)

FairIntakeSpec == IntakeSpec /\ IntakeFairness

----------------------------------------------------------------------------
\* Every variable holds what its component says it holds.
IntakeTypeOK == StoreTypeOK /\ TaskTypeOK /\ IngressTypeOK /\ CheckTypeOK

(***************************************************************************)
(* A row marked as queued has had its task taken by the queue: marked      *)
(* before, a message would be skipped by redeliveries and by listUnqueued  *)
(* alike (queueMessage's order, and enqueueEncode's throw).                *)
(***************************************************************************)
QueuedMeansEnqueued == row.queued => task.state # "none"

(***************************************************************************)
(* Twilio stops redelivering the event only when the store has the message *)
(* and the queue has had its task: a 200 given any earlier would lose the  *)
(* message to a crash (handleEvent's statuses, queueMessage's result).     *)
(***************************************************************************)
AckedMeansEnqueued == twilio.event = "acked" => row.received /\ task.state # "none"

(***************************************************************************)
(* Every message that reached Twilio ends in a terminal state, the ones    *)
(* whose webhook, events and enqueues all failed included ("makes sure     *)
(* every message reaches a terminal state", health-check.ts:10-11).        *)
(***************************************************************************)
EveryMessageEnds == <>Terminal

=============================================================================
