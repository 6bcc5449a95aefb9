---------------------------- MODULE HealthCheck ----------------------------
(***************************************************************************)
(* The periodic health check (packages/server/src/health-check.ts).  One   *)
(* run fails what is overdue, enqueues what was never queued, and records  *)
(* what Twilio holds and the store does not.  Runs may overlap, with each  *)
(* other and with everything else.                                         *)
(***************************************************************************)
EXTENDS DeliveryStore, TaskQueue

CONSTANT Checkers   \* the concurrent executions of POST /health-check

VARIABLES
  checker,     \* checker -> its program counter
  old          \* the message is past the last delivery Twilio attempts (4 h)

checkVars == <<checker, old>>

CheckerPCs == {"idle", "list", "enqueue", "mark", "scan", "missed"}

CheckTypeOK == /\ checker \in [Checkers -> CheckerPCs]
               /\ old \in BOOLEAN

CheckInit == /\ checker = [c \in Checkers |-> "idle"]
             /\ old = FALSE

CheckerGoto(c, pc) == checker' = [checker EXCEPT ![c] = pc]

----------------------------------------------------------------------------
\* A run starts: failOverdue.
CheckOverdue(c) ==
  /\ checker[c] = "idle"
  /\ FailOverdue
  /\ CheckerGoto(c, "list")
  /\ UNCHANGED <<task, old>>

\* listUnqueued, whose rows the run then goes through.
CheckList(c) ==
  /\ checker[c] = "list"
  /\ CheckerGoto(c, IF Unqueued THEN "enqueue" ELSE "scan")
  /\ UNCHANGED <<storeVars, task, old>>

CheckEnqueue(c) ==
  /\ checker[c] = "enqueue"
  /\ EnqueueReturns
  /\ CheckerGoto(c, "mark")
  /\ UNCHANGED <<storeVars, old>>

\* Either call fails: the failure is logged and the run goes on.
CheckEnqueueFails(c) ==
  /\ \/ checker[c] = "enqueue" /\ EnqueueThrows
     \/ checker[c] = "mark" /\ UNCHANGED task
  /\ CheckerGoto(c, "scan")
  /\ UNCHANGED <<storeVars, old>>

CheckMark(c) ==
  /\ checker[c] = "mark"
  /\ MarkQueued
  /\ CheckerGoto(c, "scan")
  /\ UNCHANGED <<task, old>>

\* listInboundMessages and findUnknownSids: is the message old enough, and without a row?
CheckScan(c) ==
  /\ checker[c] = "scan"
  /\ CheckerGoto(c, IF old /\ ~row.received THEN "missed" ELSE "idle")
  /\ UNCHANGED <<storeVars, task, old>>

\* Twilio's list cannot be read: nothing is scanned.
CheckScanFails(c) ==
  /\ checker[c] = "scan"
  /\ CheckerGoto(c, "idle")
  /\ UNCHANGED <<storeVars, task, old>>

CheckMissed(c) ==
  /\ checker[c] = "missed"
  /\ RecordMissed
  /\ CheckerGoto(c, "idle")
  /\ UNCHANGED <<task, old>>

\* The run dies, or a statement throws (a 500 with no heartbeat).
CheckCrash(c) ==
  /\ checker[c] # "idle"
  /\ CheckerGoto(c, "idle")
  /\ UNCHANGED <<storeVars, task, old>>

\* Twilio's last delivery attempt is over.
GrowOld == /\ ~old
           /\ old' = TRUE
           /\ UNCHANGED <<storeVars, task, checker>>

CheckStep(c) ==
  \/ CheckOverdue(c) \/ CheckList(c) \/ CheckEnqueue(c) \/ CheckEnqueueFails(c)
  \/ CheckMark(c) \/ CheckScan(c) \/ CheckScanFails(c) \/ CheckMissed(c) \/ CheckCrash(c)

=============================================================================
