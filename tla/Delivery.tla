------------------------------ MODULE Delivery ------------------------------
(***************************************************************************)
(* The delivery pipeline of the gateway: the webhook and the event sink,   *)
(* the queue, the runs of the encode task and the health check, all at     *)
(* work on the row and the replies of one inbound message.                 *)
(***************************************************************************)
EXTENDS EncodeTask, Intake

deliveryVars == <<row, replies, age, task, run, accepted, lost, carried,
                  handler, twilio, checker, old>>

DeliveryInit == Init /\ IngressInit /\ CheckInit

TaskAction   == EncodeTaskNext /\ UNCHANGED <<handler, twilio, checkVars>>
QueueAction  == QueueNext /\ UNCHANGED <<handler, twilio, checkVars>>
IntakeAction == (IngressAction \/ CheckAction \/ Clock) /\ UNCHANGED <<run, twilioVars>>

DeliveryNext == TaskAction \/ QueueAction \/ IntakeAction

DeliverySpec == DeliveryInit /\ [][DeliveryNext]_deliveryVars

----------------------------------------------------------------------------
(***************************************************************************)
(* Each half of the pipeline is modelled with the other as an environment  *)
(* free to do more than it does; these two say that it does no more.  To   *)
(* the encode task, the webhook, the event sink and the health check are   *)
(* EncodeTask's Environment ...                                            *)
(***************************************************************************)
ImplementsEncodeTask == Spec

\* ... and to them, the encode task and its queue are Intake's TaskEffects.
ImplementsIntake == IntakeSpec

=============================================================================
