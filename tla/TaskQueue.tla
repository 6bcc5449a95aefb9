----------------------------- MODULE TaskQueue -----------------------------
(***************************************************************************)
(* The Cloud Tasks queue as packages/server/src/tasks.ts uses it, for one  *)
(* message.  The task is named by the message's SID, so there is at most   *)
(* one; a finished or abandoned task keeps its name reserved for a while.  *)
(* The queue is external: it runs attempts one after another, but it stops *)
(* waiting for an attempt at the dispatch deadline (40 s) while the server *)
(* goes on with it, and it abandons the task at its own retry limit.       *)
(***************************************************************************)
CONSTANTS
  Runs,        \* the concurrent executions of POST /encode
  NoRun        \* no execution

ASSUME QueueAssumption == Runs # {} /\ NoRun \notin Runs

VARIABLE task

TaskStates == {"none",       \* no task was ever created
               "live",       \* on the queue
               "done",       \* cleared by a 200; the name is still reserved
               "dropped",    \* past the retry limit; the name is still reserved
               "forgotten"}  \* finished, and the name is free again

TaskType == [state : TaskStates, holder : Runs \union {NoRun}]

TaskTypeOK == task \in TaskType

TaskInit == task = [state |-> "none", holder |-> NoRun]

----------------------------------------------------------------------------
\* enqueueEncode returning "queued" or "exists" (409): either way the task's name is taken.
EnqueueReturns ==
  task' = IF task.state \in {"none", "forgotten"}
          THEN [task EXCEPT !.state = "live"] ELSE task

\* enqueueEncode throwing: the task was not created, or it was and the answer was lost.
EnqueueThrows == EnqueueReturns \/ UNCHANGED task

\* The queue hands the task to a run.
BeginAttempt(r) == /\ task.state = "live" /\ task.holder = NoRun
                   /\ task' = [task EXCEPT !.holder = r]

\* The run's status reaches the queue, unless it stopped waiting: 200 clears
\* the task, 503 and 404 leave it for another attempt.
Respond(r, status) ==
  task' = IF task.holder # r
          THEN task
          ELSE [state |-> IF status = 200 THEN "done" ELSE task.state, holder |-> NoRun]

\* The dispatch deadline passes, or the connection breaks, with the run still going.
AttemptTimeout == /\ task.holder # NoRun
                  /\ task' = [task EXCEPT !.holder = NoRun]

\* The retry limit is reached.
GiveUp == /\ task.state = "live" /\ task.holder = NoRun
          /\ task' = [task EXCEPT !.state = "dropped"]

\* The name of a finished task is free again.
ForgetName == /\ task.state \in {"done", "dropped"}
              /\ task' = [task EXCEPT !.state = "forgotten"]

=============================================================================
