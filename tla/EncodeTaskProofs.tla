-------------------------- MODULE EncodeTaskProofs --------------------------
(***************************************************************************)
(* What holds of the encode task for every number of parts, runs and       *)
(* unacknowledged sends.                                                   *)
(***************************************************************************)
EXTENDS EncodeTask, TLAPS

LEMMA PartsNat == Parts \subseteq Nat /\ 1 \in Parts
  BY StoreAssumption DEF Parts

LEMMA InitInv == Init => IInv
<1> SUFFICES ASSUME Init PROVE IInv
  OBVIOUS
<1> USE DEF Init, StoreInit, TaskInit, RunInit, NoRow, NoReply, Idle
<1>1. TypeOK
  BY PartsNat DEF TypeOK, StoreTypeOK, TaskTypeOK, RunTypeOK, RowType, Outcomes,
     ReplyType, Ages, PastDeadline, TaskType, TaskStates, RunType, PCs
<1>2. RepliesAgree /\ RowAgrees
  BY DEF RepliesAgree, RowAgrees, ReplyRows, EveryPartHasSid
<1>3. RunsAgree /\ ClaimExclusive
  BY DEF RunsAgree, HolderAgrees, RunAgrees, ClaimExclusive, Holding, Committed, ReplyRows
<1>4. QED
  BY <1>1, <1>2, <1>3 DEF IInv

----------------------------------------------------------------------------
(***************************************************************************)
(* What a step must show.  First a run q that does not take the step: it   *)
(* agrees with the store afterwards when the part it is sending is left    *)
(* alone, rows are never taken back, and an encoded request keeps its      *)
(* verdict and its SIDs.                                                   *)
(***************************************************************************)
LEMMA OtherRun ==
  ASSUME NEW q \in Runs, HolderAgrees(q), RunAgrees(q),
         run'[q] = run[q],
         ReplyRows \subseteq ReplyRows',
         row.received => row'.received,
         row.encoded => row'.encoded /\ row'.noReply = row.noReply,
         row.encoded /\ EveryPartHasSid => EveryPartHasSid',
         Holding(q) => /\ replies'[run[q].part] = replies[run[q].part]
                       /\ accepted'[run[q].part] = accepted[run[q].part]
                       /\ lost'[run[q].part] = lost[run[q].part]
  PROVE  HolderAgrees(q)' /\ RunAgrees(q)'
<1>1. HolderAgrees(q)'
  BY DEF HolderAgrees, Holding
<1>2. RunAgrees(q)'
  BY DEF RunAgrees, Committed, Holding
<1>3. QED
  BY <1>1, <1>2

\* A run that has returned agrees with any store.
LEMMA IdleAgrees ==
  ASSUME NEW r \in Runs, run'[r] = Idle
  PROVE  /\ HolderAgrees(r)' /\ RunAgrees(r)'
         /\ ~Holding(r)'
  BY DEF HolderAgrees, RunAgrees, Holding, Committed, Idle

\* Claims stay exclusive when the stepping run keeps its part or takes a free one.
LEMMA StillExclusive ==
  ASSUME ClaimExclusive, NEW r \in Runs,
         \A q \in Runs \ {r} : run'[q] = run[q],
         Holding(r)' => \/ Holding(r) /\ run'[r].part = run[r].part
                        \/ \A q \in Runs \ {r} : Holding(q) => run[q].part # run'[r].part
  PROVE  ClaimExclusive'
<1> SUFFICES ASSUME NEW q1 \in Runs, NEW q2 \in Runs, Holding(q1)', Holding(q2)',
                    run'[q1].part = run'[q2].part, q1 # q2
             PROVE  FALSE
  BY DEF ClaimExclusive
<1>1. \A q \in Runs \ {r} : Holding(q)' => Holding(q)
  BY DEF Holding
<1>2. CASE q1 # r /\ q2 # r
  BY <1>1, <1>2 DEF ClaimExclusive
<1>3. CASE q1 = r \/ q2 = r
  BY <1>1, <1>3 DEF ClaimExclusive
<1>4. QED
  BY <1>2, <1>3

\* The route's return leaves a well-typed queue.
LEMMA RespondType ==
  ASSUME TaskTypeOK, NEW r \in Runs, NEW status, Respond(r, status)
  PROVE  TaskTypeOK'
  BY DEF TaskTypeOK, TaskType, TaskStates, Respond

(***************************************************************************)
(* A step that changes nothing but the run's own record and the queue.     *)
(***************************************************************************)
LEMMA LocalStep ==
  ASSUME IInv, NEW r \in Runs, NEW next \in RunType,
         run' = [run EXCEPT ![r] = next],
         UNCHANGED <<storeVars, twilioVars>>,
         TaskTypeOK',
         HolderAgrees(r)' /\ RunAgrees(r)',
         Holding(r)' => Holding(r) /\ next.part = run[r].part
  PROVE  IInv'
<1> USE DEF storeVars, twilioVars
<1>1. TypeOK'
  BY DEF IInv, TypeOK, StoreTypeOK, RunTypeOK
<1>2. RepliesAgree' /\ RowAgrees'
  BY DEF IInv, RepliesAgree, RowAgrees, ReplyRows, EveryPartHasSid
<1>3. /\ run'[r] = next
      /\ \A q \in Runs \ {r} : run'[q] = run[q]
  BY DEF IInv, TypeOK, RunTypeOK
<1>4. ASSUME NEW q \in Runs PROVE HolderAgrees(q)' /\ RunAgrees(q)'
  <2>1. CASE q = r
    BY <2>1
  <2>2. CASE q # r
    <3>1. HolderAgrees(q) /\ RunAgrees(q) /\ run'[q] = run[q]
      BY <1>3, <2>2 DEF IInv, RunsAgree
    <3>2. ReplyRows' = ReplyRows /\ EveryPartHasSid' = EveryPartHasSid
      BY DEF ReplyRows, EveryPartHasSid
    <3>3. QED
      BY <3>1, <3>2, OtherRun
  <2>3. QED
    BY <2>1, <2>2
<1>5. ClaimExclusive'
  BY <1>3, StillExclusive DEF IInv
<1>6. QED
  BY <1>1, <1>2, <1>4, <1>5 DEF IInv, RunsAgree

\* The same when the run returns.
LEMMA LocalReturn ==
  ASSUME IInv, NEW r \in Runs, NEW status, Return(r, status),
         UNCHANGED <<storeVars, twilioVars>>
  PROVE  IInv'
<1>1. Idle \in RunType
  BY PartsNat DEF Idle, RunType, PCs
<1>2. run' = [run EXCEPT ![r] = Idle] /\ run'[r] = Idle
  BY DEF Return, IInv, TypeOK, RunTypeOK
<1>3. TaskTypeOK'
  BY RespondType DEF Return, IInv, TypeOK
<1>4. QED
  BY <1>1, <1>2, <1>3, IdleAgrees, LocalStep

----------------------------------------------------------------------------
(***************************************************************************)
(* The steps of a run that leave the store and Twilio alone.               *)
(***************************************************************************)
LEMMA StartInv == ASSUME IInv, NEW r \in Runs, Dispatch(r) \/ ExtraCall(r) PROVE IInv'
<1> DEFINE next == [run[r] EXCEPT !.pc = "load"]
<1>1. next \in RunType /\ run' = [run EXCEPT ![r] = next] /\ run'[r] = next
  BY DEF IInv, TypeOK, RunTypeOK, RunType, PCs, Dispatch, ExtraCall, Goto
<1>2. TaskTypeOK'
  BY DEF IInv, TypeOK, TaskTypeOK, TaskType, Dispatch, ExtraCall, BeginAttempt
<1>3. HolderAgrees(r)' /\ RunAgrees(r)' /\ ~Holding(r)'
  BY <1>1 DEF IInv, RunsAgree, RunAgrees, HolderAgrees, Holding, Committed, Dispatch, ExtraCall,
     ReplyRows, storeVars, TypeOK, RunTypeOK, RunType
<1>4. QED
  BY <1>1, <1>2, <1>3, LocalStep DEF Dispatch, ExtraCall

LEMMA LoadInv == ASSUME IInv, NEW r \in Runs, LoadRow(r) PROVE IInv'
<1>1. CASE ~row.received \/ Terminal
  BY <1>1, LocalReturn DEF LoadRow
<1>2. CASE row.received /\ ~Terminal
  <2> DEFINE next == [run[r] EXCEPT !.pc = IF row.encoded THEN "loadReplies" ELSE "fetch",
                                    !.queuedSeen = row.queued, !.encodedSeen = row.encoded]
  <2>1. run' = [run EXCEPT ![r] = next] /\ UNCHANGED <<storeVars, twilioVars, task>>
    BY <1>2 DEF LoadRow, IInv, TypeOK, RunTypeOK, RunType
  <2>2. next \in RunType /\ run'[r] = next
    BY <2>1 DEF IInv, TypeOK, RunTypeOK, StoreTypeOK, RowType, RunType, PCs
  <2>3. /\ run'[r].todo = run[r].todo /\ run'[r].encodedSeen = row.encoded
        /\ run'[r].pc = IF row.encoded THEN "loadReplies" ELSE "fetch"
    BY <2>2 DEF IInv, TypeOK, RunTypeOK, RunType
  <2>4. row.encoded \in BOOLEAN /\ run[r].todo \subseteq ReplyRows /\ row' = row /\ replies' = replies
    BY <2>1 DEF IInv, RunsAgree, RunAgrees, TypeOK, StoreTypeOK, RowType, storeVars
  <2>5. ~Holding(r)' /\ HolderAgrees(r)'
    BY <2>3, <2>4 DEF Holding, HolderAgrees
  <2>6. RunAgrees(r)'
    BY <1>2, <2>3, <2>4, <2>5 DEF RunAgrees, Committed, Terminal, ReplyRows
  <2>7. QED
    BY <2>1, <2>2, <2>5, <2>6, LocalStep DEF IInv, TypeOK, TaskTypeOK
<1>3. QED
  BY <1>1, <1>2

LEMMA SnapshotInv ==
  ASSUME IInv, NEW r \in Runs, LoadReplies(r) \/ ReloadReplies(r) PROVE IInv'
<1> DEFINE next == [run[r] EXCEPT !.pc = IF At(r, "loadReplies") THEN "fetch" ELSE "claim",
                                  !.todo = Unclaimed]
<1>1. /\ next \in RunType /\ run' = [run EXCEPT ![r] = next] /\ run'[r] = next
      /\ UNCHANGED <<storeVars, twilioVars, task>>
  BY DEF IInv, TypeOK, RunTypeOK, RunType, PCs, LoadReplies, ReloadReplies, At, Unclaimed, ReplyRows
<1>2. HolderAgrees(r)' /\ RunAgrees(r)' /\ ~Holding(r)'
  BY <1>1 DEF IInv, RunsAgree, RunAgrees, HolderAgrees, Holding, Committed, LoadReplies,
     ReloadReplies, At, Unclaimed, ReplyRows, storeVars, RowAgrees
<1>3. QED
  BY <1>1, <1>2, LocalStep DEF IInv, TypeOK, TaskTypeOK

LEMMA FetchInv == ASSUME IInv, NEW r \in Runs, FetchOk(r) PROVE IInv'
<1> DEFINE next == IF run[r].encodedSeen
                   THEN [run[r] EXCEPT !.pc = "claim", !.queuedSeen = FALSE,
                                       !.encodedSeen = FALSE, !.late = FALSE]
                   ELSE [run[r] EXCEPT !.pc = "resolve"]
<1>1. /\ next \in RunType /\ run' = [run EXCEPT ![r] = next] /\ run'[r] = next
      /\ UNCHANGED <<storeVars, twilioVars, task>>
  BY DEF IInv, TypeOK, RunTypeOK, RunType, PCs, FetchOk, Goto, Proceed
<1>2. HolderAgrees(r)' /\ RunAgrees(r)' /\ ~Holding(r)'
  BY <1>1 DEF IInv, RunsAgree, RunAgrees, HolderAgrees, Holding, Committed, FetchOk, At,
     ReplyRows, storeVars
<1>3. QED
  BY <1>1, <1>2, LocalStep DEF IInv, TypeOK, TaskTypeOK

LEMMA ResolveInv == ASSUME IInv, NEW r \in Runs, Resolve(r) PROVE IInv'
<1>1. PICK late \in BOOLEAN : run' = [run EXCEPT ![r].pc = "record", ![r].late = late]
  BY DEF Resolve
<1> DEFINE next == [run[r] EXCEPT !.pc = "record", !.late = late]
<1>2. run[r] \in RunType /\ r \in DOMAIN run
  BY DEF IInv, TypeOK, RunTypeOK
<1>3. /\ next \in RunType /\ run' = [run EXCEPT ![r] = next] /\ run'[r] = next
  <2>1. next \in RunType
    BY <1>2 DEF RunType, PCs
  <2>2. run' = [run EXCEPT ![r] = next]
    BY <1>1, <1>2 DEF RunType
  <2>3. QED
    BY <1>2, <2>1, <2>2
<1>4. UNCHANGED <<storeVars, twilioVars, task>>
  BY DEF Resolve
<1>5. run'[r].pc = "record" /\ run'[r].todo = run[r].todo
  BY <1>2, <1>3 DEF RunType
<1>6. HolderAgrees(r)' /\ RunAgrees(r)' /\ ~Holding(r)'
  BY <1>4, <1>5 DEF IInv, RunsAgree, RunAgrees, HolderAgrees, Holding, Committed, Resolve, At,
     ReplyRows, storeVars
<1>7. QED
  BY <1>3, <1>4, <1>6, LocalStep DEF IInv, TypeOK, TaskTypeOK

LEMMA ReloadInv == ASSUME IInv, NEW r \in Runs, Reload(r) PROVE IInv'
<1>1. CASE Terminal
  BY <1>1, LocalReturn DEF Reload
<1>2. CASE ~Terminal
  <2> DEFINE next == [run[r] EXCEPT !.pc = "reloadReplies"]
  <2>1. /\ next \in RunType /\ run' = [run EXCEPT ![r] = next] /\ run'[r] = next
        /\ UNCHANGED <<storeVars, twilioVars, task>>
    BY <1>2 DEF IInv, TypeOK, RunTypeOK, RunType, PCs, Reload, Goto
  <2>2. HolderAgrees(r)' /\ RunAgrees(r)' /\ ~Holding(r)'
    BY <1>2, <2>1 DEF IInv, RunsAgree, RunAgrees, HolderAgrees, Holding, Committed, Reload, At,
       ReplyRows, storeVars, Terminal
  <2>3. QED
    BY <2>1, <2>2, LocalStep DEF IInv, TypeOK, TaskTypeOK
<1>3. QED
  BY <1>1, <1>2

LEMMA ClaimsDoneInv == ASSUME IInv, NEW r \in Runs, ClaimsDone(r) PROVE IInv'
<1> DEFINE next == [run[r] EXCEPT !.pc = "check"]
<1>1. /\ next \in RunType /\ run' = [run EXCEPT ![r] = next] /\ run'[r] = next
      /\ UNCHANGED <<storeVars, twilioVars, task>>
  BY DEF IInv, TypeOK, RunTypeOK, RunType, PCs, ClaimsDone, Goto
<1>2. HolderAgrees(r)' /\ RunAgrees(r)' /\ ~Holding(r)'
  BY <1>1 DEF IInv, RunsAgree, RunAgrees, HolderAgrees, Holding, Committed, ClaimsDone, At,
     ReplyRows, storeVars
<1>3. QED
  BY <1>1, <1>2, LocalStep DEF IInv, TypeOK, TaskTypeOK

LEMMA SendFailsInv ==
  ASSUME IInv, NEW r \in Runs, SendRejected(r) \/ SendRetry(r) PROVE IInv'
<1>1. PICK pc \in {"recordFailed", "release"} :
        /\ run' = [run EXCEPT ![r].pc = pc]
        /\ UNCHANGED <<storeVars, twilioVars, task>>
  BY DEF SendRejected, SendRetry, Goto
<1> DEFINE next == [run[r] EXCEPT !.pc = pc]
<1>2. /\ next \in RunType /\ run' = [run EXCEPT ![r] = next] /\ run'[r] = next
      /\ next.part = run[r].part
  BY <1>1 DEF IInv, TypeOK, RunTypeOK, RunType, PCs
<1>3. At(r, "send") /\ HolderAgrees(r) /\ RunAgrees(r)
  BY DEF SendRejected, SendRetry, IInv, RunsAgree
<1>4. Holding(r) /\ HolderAgrees(r)' /\ RunAgrees(r)'
  BY <1>1, <1>2, <1>3 DEF RunAgrees, HolderAgrees, Holding, Committed, At, ReplyRows,
     EveryPartHasSid, storeVars, twilioVars
<1>5. QED
  BY <1>1, <1>2, <1>4, LocalStep DEF IInv, TypeOK, TaskTypeOK

LEMMA CheckInv == ASSUME IInv, NEW r \in Runs, Check(r) PROVE IInv'
<1>1. CASE ~EveryPartHasSid
  BY <1>1, LocalReturn DEF Check
<1>2. CASE EveryPartHasSid
  <2> DEFINE next == [run[r] EXCEPT !.pc = "finish"]
  <2>1. /\ next \in RunType /\ run' = [run EXCEPT ![r] = next] /\ run'[r] = next
        /\ UNCHANGED <<storeVars, twilioVars, task>>
    BY <1>2 DEF IInv, TypeOK, RunTypeOK, RunType, PCs, Check, Goto
  <2>2. HolderAgrees(r)' /\ RunAgrees(r)' /\ ~Holding(r)'
    BY <1>2, <2>1 DEF IInv, RunsAgree, RunAgrees, HolderAgrees, Holding, Committed, Check, At,
       ReplyRows, storeVars, EveryPartHasSid
  <2>3. QED
    BY <2>1, <2>2, LocalStep DEF IInv, TypeOK, TaskTypeOK
<1>3. QED
  BY <1>1, <1>2

----------------------------------------------------------------------------
(***************************************************************************)
(* The steps that write to the store or have Twilio create a message.      *)
(* First what is left to show of any of them.                              *)
(***************************************************************************)
LEMMA StoreStep ==
  ASSUME IInv, NEW r \in Runs,
         TypeOK', RepliesAgree', RowAgrees',
         HolderAgrees(r)' /\ RunAgrees(r)',
         \A q \in Runs \ {r} : run'[q] = run[q],
         Holding(r)' => \/ Holding(r) /\ run'[r].part = run[r].part
                        \/ \A q \in Runs \ {r} : Holding(q) => run[q].part # run'[r].part,
         ReplyRows \subseteq ReplyRows',
         row.received => row'.received,
         row.encoded => row'.encoded /\ row'.noReply = row.noReply,
         row.encoded /\ EveryPartHasSid => EveryPartHasSid',
         \A q \in Runs \ {r} : Holding(q) =>
            /\ replies'[run[q].part] = replies[run[q].part]
            /\ accepted'[run[q].part] = accepted[run[q].part]
            /\ lost'[run[q].part] = lost[run[q].part]
  PROVE  IInv'
<1>1. ASSUME NEW q \in Runs PROVE HolderAgrees(q)' /\ RunAgrees(q)'
  <2>1. CASE q = r
    BY <2>1
  <2>2. CASE q # r
    <3>1. HolderAgrees(q) /\ RunAgrees(q) /\ run'[q] = run[q]
      BY <2>2 DEF IInv, RunsAgree
    <3>2. QED
      BY <2>2, <3>1, OtherRun
  <2>3. QED
    BY <2>1, <2>2
<1>2. ClaimExclusive'
  BY StillExclusive DEF IInv
<1>3. QED
  BY <1>1, <1>2 DEF IInv, RunsAgree

\* The same for a step outside the runs.
LEMMA EnvironmentStep ==
  ASSUME IInv, TypeOK', RepliesAgree', RowAgrees', run' = run,
         UNCHANGED <<replies, accepted, lost>>,
         row.received => row'.received,
         row.encoded => row'.encoded /\ row'.noReply = row.noReply
  PROVE  IInv'
<1>1. ReplyRows' = ReplyRows /\ EveryPartHasSid' = EveryPartHasSid
  BY DEF ReplyRows, EveryPartHasSid
<1>2. ASSUME NEW q \in Runs PROVE HolderAgrees(q)' /\ RunAgrees(q)'
  BY <1>1, OtherRun DEF IInv, RunsAgree
<1>3. ClaimExclusive'
  BY DEF IInv, ClaimExclusive, Holding
<1>4. QED
  BY <1>2, <1>3 DEF IInv, RunsAgree

\* What a run's return does to the run and to the queue.
LEMMA Returned ==
  ASSUME TypeOK, NEW r \in Runs, NEW status, Return(r, status)
  PROVE  /\ run' \in [Runs -> RunType] /\ TaskTypeOK'
         /\ run'[r] = Idle /\ \A q \in Runs \ {r} : run'[q] = run[q]
         /\ HolderAgrees(r)' /\ RunAgrees(r)' /\ ~Holding(r)'
<1>1. Idle \in RunType
  BY PartsNat DEF Idle, RunType, PCs
<1>2. /\ run' \in [Runs -> RunType]
      /\ run'[r] = Idle /\ \A q \in Runs \ {r} : run'[q] = run[q]
  BY <1>1 DEF Return, TypeOK, RunTypeOK
<1>3. TaskTypeOK'
  BY RespondType DEF Return, TypeOK
<1>4. QED
  BY <1>2, <1>3, IdleAgrees

LEMMA FetchRejectedInv == ASSUME IInv, NEW r \in Runs, FetchRejected(r) PROVE IInv'
<1>1. RecordRejected /\ Return(r, 200) /\ UNCHANGED twilioVars /\ row.received
  BY DEF FetchRejected, IInv, RunsAgree, RunAgrees, At
<1>2. UNCHANGED <<replies, age, accepted, lost, carried>>
  BY <1>1 DEF RecordRejected, twilioVars
<1>3. TypeOK'
  BY <1>1, <1>2, Returned DEF IInv, TypeOK, StoreTypeOK, RunTypeOK, RecordRejected, RowType, Outcomes
<1>4. RepliesAgree'
  BY <1>2 DEF IInv, RepliesAgree
<1>5. RowAgrees'
  <2>1. CASE row.encoded \/ row.noReply
    BY <1>1, <1>2, <2>1 DEF IInv, RowAgrees, ReplyRows, EveryPartHasSid, RecordRejected
  <2>2. CASE ~row.encoded /\ ~row.noReply
    <3>1. ReplyRows = {} /\ carried = {}
      BY <2>2 DEF IInv, RowAgrees, TypeOK, RunTypeOK
    <3>2. /\ row'.noReply /\ row'.received = row.received /\ row'.encoded = row.encoded
          /\ row'.sent = row.sent
      BY <1>1, <2>2 DEF RecordRejected, IInv, TypeOK, StoreTypeOK, RowType
    <3>3. QED
      BY <1>1, <1>2, <3>1, <3>2 DEF IInv, RowAgrees, ReplyRows, EveryPartHasSid
  <2>3. QED
    BY <2>1, <2>2
<1>6. /\ row.received => row'.received
      /\ row.encoded => row'.encoded /\ row'.noReply = row.noReply
  BY <1>1 DEF RecordRejected, IInv, TypeOK, StoreTypeOK, RowType
<1>7. ReplyRows' = ReplyRows /\ EveryPartHasSid' = EveryPartHasSid
  BY <1>2 DEF ReplyRows, EveryPartHasSid
<1>8. QED
  BY <1>1, <1>2, <1>3, <1>4, <1>5, <1>6, <1>7, StoreStep, Returned DEF IInv

LEMMA FinishInv == ASSUME IInv, NEW r \in Runs, Finish(r) PROVE IInv'
<1>1. /\ RecordRequestSent /\ Return(r, 200) /\ UNCHANGED twilioVars
      /\ row.encoded /\ ~row.noReply /\ EveryPartHasSid
  BY DEF Finish, IInv, RunsAgree, RunAgrees, Committed, At
<1>2. UNCHANGED <<replies, age, accepted, lost, carried>>
  BY <1>1 DEF RecordRequestSent, twilioVars
<1>3. /\ row' \in RowType
      /\ row'.received = row.received /\ row'.encoded = row.encoded /\ row'.noReply = row.noReply
  BY <1>1 DEF RecordRequestSent, IInv, TypeOK, StoreTypeOK, RowType
<1>4. TypeOK'
  BY <1>1, <1>2, <1>3, Returned DEF IInv, TypeOK, StoreTypeOK, RunTypeOK
<1>5. RepliesAgree'
  BY <1>2 DEF IInv, RepliesAgree
<1>6. ReplyRows' = ReplyRows /\ EveryPartHasSid' = EveryPartHasSid
  BY <1>2 DEF ReplyRows, EveryPartHasSid
<1>7. RowAgrees'
  BY <1>1, <1>2, <1>3, <1>6 DEF IInv, RowAgrees
<1>8. QED
  BY <1>1, <1>2, <1>3, <1>4, <1>5, <1>6, <1>7, StoreStep, Returned DEF IInv

LEMMA RecordInv == ASSUME IInv, NEW r \in Runs, Record(r) PROVE IInv'
<1> DEFINE next == [run[r] EXCEPT !.pc = "reload", !.queuedSeen = FALSE,
                                  !.encodedSeen = FALSE, !.late = FALSE]
<1>1. PICK result \in Results(r), e \in Encodings : RecordEncoded(result[1], e, result[2])
  BY DEF Record
<1>2. /\ result[1] \in Outcomes
      /\ result[2] \in {0} \union Parts /\ result[2] \in Nat
  BY PartsNat DEF Results, Outcomes
<1>3. /\ next \in RunType /\ run' = [run EXCEPT ![r] = next] /\ run'[r] = next
      /\ UNCHANGED <<age, accepted, lost, carried, task>>
  <2>1. run[r] \in RunType /\ r \in DOMAIN run
    BY DEF IInv, TypeOK, RunTypeOK
  <2>2. next \in RunType
    BY <2>1 DEF RunType, PCs
  <2>3. run' = [run EXCEPT ![r] = next]
    BY DEF Record, Proceed
  <2>4. UNCHANGED <<age, accepted, lost, carried, task>>
    BY <1>1 DEF Record, RecordEncoded, twilioVars
  <2>5. QED
    BY <2>1, <2>2, <2>3, <2>4
<1>4. \A q \in Runs \ {r} : run'[q] = run[q]
  BY <1>3
<1>5. run[r].pc = "record" /\ row.received /\ run[r].todo \subseteq ReplyRows
  BY DEF Record, At, IInv, RunsAgree, RunAgrees
<1>6. run'[r].pc = "reload" /\ run'[r].todo = run[r].todo
  BY <1>3 DEF IInv, TypeOK, RunTypeOK, RunType
<1>7. CASE row.encoded
  <2>1. UNCHANGED <<row, replies>>
    BY <1>1, <1>7 DEF RecordEncoded
  <2>2. ReplyRows' = ReplyRows /\ EveryPartHasSid' = EveryPartHasSid
    BY <2>1 DEF ReplyRows, EveryPartHasSid
  <2>3. TypeOK' /\ RepliesAgree' /\ RowAgrees'
    BY <1>3, <2>1, <2>2 DEF IInv, TypeOK, StoreTypeOK, TaskTypeOK, RunTypeOK, RepliesAgree, RowAgrees
  <2>4. HolderAgrees(r)' /\ RunAgrees(r)' /\ ~Holding(r)'
    BY <1>5, <1>6, <1>7, <2>1, <2>2 DEF HolderAgrees, RunAgrees, Holding, Committed
  <2>5. QED
    BY <1>3, <1>4, <2>1, <2>2, <2>3, <2>4, StoreStep
<1>8. CASE ~row.encoded
  <2>1. /\ row' = [row EXCEPT !.encoded = TRUE, !.outcome = result[1],
                               !.noReply = @ \/ result[2] = 0]
        /\ replies' = [p \in Parts |->
                          IF p <= result[2] THEN [NoReply EXCEPT !.body = e] ELSE replies[p]]
    BY <1>1, <1>8 DEF RecordEncoded
  <2>2. /\ row' \in RowType /\ row'.encoded /\ row'.received = row.received
        /\ row'.noReply = (row.noReply \/ result[2] = 0) /\ row'.sent = row.sent
    BY <1>2, <2>1 DEF IInv, TypeOK, StoreTypeOK, RowType
  <2>3. [NoReply EXCEPT !.body = e] \in ReplyType
    BY DEF NoReply, ReplyType
  <2>4. replies' \in [Parts -> ReplyType]
    BY <2>1, <2>3 DEF IInv, TypeOK, StoreTypeOK
  <2>5. TypeOK'
    BY <1>3, <2>2, <2>4 DEF IInv, TypeOK, StoreTypeOK, TaskTypeOK, RunTypeOK
  <2>6. ReplyRows = {} /\ carried = {} /\ ~row.sent
    BY <1>8 DEF IInv, RowAgrees, TypeOK, RunTypeOK
  <2>7. \A p \in Parts : /\ ~replies[p].sending /\ ~replies[p].sid /\ ~replies[p].refused
                         /\ replies[p].body = NoBody
    BY <2>6 DEF IInv, RepliesAgree, ReplyRows
  <2>8. \A p \in Parts : /\ ~replies'[p].sending /\ ~replies'[p].sid /\ ~replies'[p].refused
                         /\ replies'[p].body = IF p <= result[2] THEN e ELSE NoBody
    BY <2>1, <2>7 DEF NoReply
  <2>9. ReplyRows' = {p \in Parts : p <= result[2]}
    BY <2>8, StoreAssumption DEF ReplyRows
  <2>10. RepliesAgree'
    BY <1>3, <2>7, <2>8 DEF IInv, RepliesAgree
  <2>11. RowAgrees'
    <3>1. result[2] # 0 => ReplyRows' # {}
      BY <1>2, <2>9
    <3>2. \A p, q \in ReplyRows' : replies'[p].body = replies'[q].body
      BY <2>8, <2>9
    <3>3. QED
      BY <1>3, <1>5, <2>2, <2>6, <3>1, <3>2 DEF RowAgrees
  <2>12. HolderAgrees(r)' /\ RunAgrees(r)' /\ ~Holding(r)'
    BY <1>5, <1>6, <2>2, <2>6 DEF HolderAgrees, RunAgrees, Holding, Committed
  <2>13. \A q \in Runs : ~Holding(q)
    BY <1>8 DEF IInv, RunsAgree, RunAgrees, Committed
  <2>14. QED
    BY <1>4, <1>8, <2>2, <2>5, <2>6, <2>10, <2>11, <2>12, <2>13, StoreStep
<1>9. QED
  BY <1>7, <1>8

\* A claim that fails moves on; one that succeeds gives the run a part nobody is sending.
LEMMA ClaimInv == ASSUME IInv, NEW r \in Runs, Claim(r) PROVE IInv'
<1>1. PICK p \in Parts :
        /\ NextPart(r, p)
        /\ IF CanClaim(p)
           THEN /\ ClaimReply(p)
                /\ run' = [run EXCEPT ![r].pc = "send", ![r].part = p, ![r].todo = @ \ {p}]
           ELSE /\ run' = [run EXCEPT ![r].todo = @ \ {p}]
                /\ UNCHANGED storeVars
  BY DEF Claim
<1>2. /\ UNCHANGED <<accepted, lost, carried, task>> /\ run[r].pc = "claim"
      /\ p \in ReplyRows /\ run[r].todo \subseteq ReplyRows
      /\ row.encoded /\ ~row.noReply
  BY <1>1 DEF Claim, At, twilioVars, NextPart, IInv, RunsAgree, RunAgrees, Committed
<1>3. run[r] \in RunType /\ r \in DOMAIN run
  BY DEF IInv, TypeOK, RunTypeOK
<1>4. CASE ~CanClaim(p)
  <2> DEFINE next == [run[r] EXCEPT !.todo = @ \ {p}]
  <2>1. /\ next \in RunType /\ run' = [run EXCEPT ![r] = next] /\ run'[r] = next
        /\ UNCHANGED <<storeVars, twilioVars, task>>
    BY <1>1, <1>2, <1>3, <1>4 DEF RunType, twilioVars
  <2>2. run'[r].pc = "claim" /\ run'[r].todo = run[r].todo \ {p}
    BY <1>2, <1>3, <2>1 DEF RunType
  <2>3. HolderAgrees(r)' /\ RunAgrees(r)' /\ ~Holding(r)'
    BY <1>2, <2>1, <2>2 DEF RunAgrees, HolderAgrees, Holding, Committed, ReplyRows, storeVars
  <2>4. QED
    BY <2>1, <2>3, LocalStep DEF IInv, TypeOK, TaskTypeOK
<1>5. CASE CanClaim(p)
  <2> DEFINE next == [run[r] EXCEPT !.pc = "send", !.part = p, !.todo = @ \ {p}]
  <2>1. next \in RunType
    BY <1>3 DEF RunType, PCs
  <2>2. run' = [run EXCEPT ![r] = next]
    BY <1>1, <1>3, <1>5 DEF RunType
  <2>3. /\ run' \in [Runs -> RunType] /\ \A q \in Runs \ {r} : run'[q] = run[q]
        /\ run'[r].pc = "send" /\ run'[r].part = p /\ run'[r].todo = run[r].todo \ {p}
    BY <1>3, <2>1, <2>2 DEF IInv, TypeOK, RunTypeOK, RunType
  <2>4. ~replies[p].sending /\ UNCHANGED <<row, age>>
    BY <1>1, <1>5 DEF CanClaim, ClaimReply
  <2>5. /\ replies' \in [Parts -> ReplyType]
        /\ \A q \in Parts \ {p} : replies'[q] = replies[q]
        /\ replies'[p] = [replies[p] EXCEPT !.sending = TRUE]
    BY <1>1, <1>5 DEF ClaimReply, IInv, TypeOK, StoreTypeOK, ReplyType
  <2>6. /\ replies'[p].sending
        /\ \A q \in Parts : /\ replies'[q].body = replies[q].body
                            /\ replies'[q].sid = replies[q].sid
                            /\ replies'[q].refused = replies[q].refused
                            /\ q # p => replies'[q].sending = replies[q].sending
    BY <2>5 DEF IInv, TypeOK, StoreTypeOK, ReplyType
  <2>7. ~replies[p].sid /\ ~replies[p].refused /\ accepted[p] = lost[p]
    BY <2>4 DEF IInv, RepliesAgree
  <2>8. ReplyRows' = ReplyRows /\ EveryPartHasSid' = EveryPartHasSid
    BY <2>6 DEF ReplyRows, EveryPartHasSid
  <2>9. TypeOK'
    BY <1>2, <2>3, <2>4, <2>5 DEF IInv, TypeOK, StoreTypeOK, TaskTypeOK, RunTypeOK
  <2>10. RepliesAgree'
    BY <1>2, <2>4, <2>6, <2>7 DEF IInv, RepliesAgree, ReplyRows
  <2>11. RowAgrees'
    BY <1>2, <2>4, <2>6, <2>8 DEF IInv, RowAgrees, ReplyRows
  <2>12. HolderAgrees(r)' /\ RunAgrees(r)'
    BY <1>2, <2>3, <2>4, <2>6, <2>7, <2>8 DEF HolderAgrees, RunAgrees, Holding, Committed
  <2>13. \A q \in Runs : Holding(q) => run[q].part # p /\ run[q].part \in Parts
    BY <2>4 DEF IInv, RunsAgree, HolderAgrees, ReplyRows
  <2>14. QED
    BY <1>2, <2>3, <2>4, <2>5, <2>8, <2>9, <2>10, <2>11, <2>12, <2>13, StoreStep
<1>6. QED
  BY <1>4, <1>5

\* A run that is sending p keeps the other runs away from it.
LEMMA HolderAlone ==
  ASSUME IInv, NEW r \in Runs, Holding(r)
  PROVE  /\ \A q \in Runs \ {r} : Holding(q) => run[q].part \in Parts \ {run[r].part}
         /\ run[r].part \in ReplyRows /\ replies[run[r].part].sending
         /\ ~replies[run[r].part].sid /\ ~replies[run[r].part].refused
         /\ run[r].todo \subseteq ReplyRows /\ row.encoded /\ ~row.noReply
  BY DEF IInv, TypeOK, RunTypeOK, RunType, RunsAgree, HolderAgrees, RunAgrees, Committed,
     ClaimExclusive

LEMMA SendInv ==
  ASSUME IInv, NEW r \in Runs, SendAccepted(r) \/ SendUnacknowledged(r) PROVE IInv'
<1> DEFINE p == run[r].part
<1>1. PICK pc \in {"recordSent", "release"} :
        /\ Create(p) /\ run' = [run EXCEPT ![r].pc = pc]
        /\ lost' = IF pc = "release" THEN [lost EXCEPT ![p] = @ + 1] ELSE lost
        /\ UNCHANGED <<row, replies, age, task>>
  BY DEF SendAccepted, SendUnacknowledged, Goto, storeVars
<1>2. run[r].pc = "send" /\ Holding(r) /\ p \in Parts
  BY DEF SendAccepted, SendUnacknowledged, At, Holding, IInv, TypeOK, RunTypeOK, RunType
<1>3. accepted[p] = lost[p]
  BY <1>2 DEF IInv, RunsAgree, HolderAgrees
<1>4. /\ accepted' \in [Parts -> Nat] /\ lost' \in [Parts -> Nat]
      /\ accepted'[p] = accepted[p] + 1
      /\ lost'[p] = IF pc = "release" THEN lost[p] + 1 ELSE lost[p]
      /\ \A q \in Parts \ {p} : accepted'[q] = accepted[q] /\ lost'[q] = lost[q]
      /\ accepted[p] \in Nat /\ lost[p] \in Nat
  BY <1>1, <1>2 DEF Create, IInv, TypeOK, RunTypeOK
<1>5. /\ p \in ReplyRows /\ replies[p].body \in Encodings
      /\ carried' = carried \union {<<p, replies[p].body>>}
  BY <1>1, <1>2, HolderAlone DEF Create, IInv, TypeOK, StoreTypeOK, ReplyType, ReplyRows
<1>6. /\ run' \in [Runs -> RunType] /\ \A q \in Runs \ {r} : run'[q] = run[q]
      /\ run'[r].pc = pc /\ run'[r].part = p /\ run'[r].todo = run[r].todo
  BY <1>1 DEF IInv, TypeOK, RunTypeOK, RunType, PCs
<1>7. ReplyRows' = ReplyRows /\ EveryPartHasSid' = EveryPartHasSid
  BY <1>1 DEF ReplyRows, EveryPartHasSid
<1>8. TypeOK'
  BY <1>1, <1>4, <1>5, <1>6 DEF IInv, TypeOK, StoreTypeOK, TaskTypeOK, RunTypeOK
<1>9. RepliesAgree'
  <2>1. replies[p].sending /\ replies[p].body # NoBody /\ ~replies[p].sid
    BY <1>2, HolderAlone DEF ReplyRows
  <2>2. QED
    BY <1>1, <1>3, <1>4, <2>1 DEF IInv, RepliesAgree
<1>10. RowAgrees'
  BY <1>1, <1>2, <1>5, <1>7, HolderAlone DEF IInv, RowAgrees
<1>11. HolderAgrees(r)' /\ RunAgrees(r)'
  <2>1. HolderAgrees(r)'
    BY <1>1, <1>2, <1>3, <1>4, <1>6, <1>7, HolderAlone DEF HolderAgrees
  <2>2. RunAgrees(r)'
    BY <1>1, <1>2, <1>6, <1>7, HolderAlone DEF RunAgrees
  <2>3. QED
    BY <2>1, <2>2
<1>12. QED
  BY <1>1, <1>2, <1>4, <1>6, <1>7, <1>8, <1>9, <1>10, <1>11, HolderAlone, StoreStep

LEMMA RecordSentInv == ASSUME IInv, NEW r \in Runs, RecordSent(r) PROVE IInv'
<1> DEFINE p == run[r].part
<1>1. /\ RecordReplySent(p) /\ run' = [run EXCEPT ![r].pc = "claim"]
      /\ UNCHANGED <<row, age, task, accepted, lost, carried>>
  BY DEF RecordSent, Goto, RecordReplySent, twilioVars
<1>2. run[r].pc = "recordSent" /\ Holding(r) /\ p \in Parts /\ accepted[p] > 0
  BY DEF RecordSent, At, Holding, IInv, TypeOK, RunTypeOK, RunType, RunsAgree, HolderAgrees
<1>3. /\ run' \in [Runs -> RunType] /\ \A q \in Runs \ {r} : run'[q] = run[q]
      /\ run'[r].pc = "claim" /\ run'[r].todo = run[r].todo
  BY <1>1 DEF IInv, TypeOK, RunTypeOK, RunType, PCs
<1>4. /\ replies' \in [Parts -> ReplyType] /\ replies'[p].sid
      /\ \A q \in Parts \ {p} : replies'[q] = replies[q]
      /\ \A q \in Parts : /\ replies'[q].body = replies[q].body
                          /\ replies'[q].sending = replies[q].sending
                          /\ replies'[q].refused = replies[q].refused
                          /\ q # p => replies'[q].sid = replies[q].sid
  BY <1>1, <1>2 DEF RecordReplySent, IInv, TypeOK, StoreTypeOK, ReplyType
<1>5. ReplyRows' = ReplyRows /\ (EveryPartHasSid => EveryPartHasSid')
  BY <1>4 DEF ReplyRows, EveryPartHasSid
<1>6. TypeOK'
  BY <1>1, <1>3, <1>4 DEF IInv, TypeOK, StoreTypeOK, TaskTypeOK, RunTypeOK
<1>7. RepliesAgree'
  BY <1>1, <1>2, <1>4, HolderAlone DEF IInv, RepliesAgree
<1>8. RowAgrees'
  BY <1>1, <1>4, <1>5 DEF IInv, RowAgrees, ReplyRows
<1>9. HolderAgrees(r)' /\ RunAgrees(r)' /\ ~Holding(r)'
  BY <1>1, <1>2, <1>3, <1>5, HolderAlone DEF HolderAgrees, RunAgrees, Holding
<1>10. QED
  BY <1>1, <1>2, <1>3, <1>4, <1>5, <1>6, <1>7, <1>8, <1>9, HolderAlone, StoreStep

LEMMA RecordFailedInv == ASSUME IInv, NEW r \in Runs, RecordFailed(r) PROVE IInv'
<1> DEFINE p == run[r].part
<1>1. /\ RecordReplyFailed(p) /\ Return(r, 200)
      /\ UNCHANGED <<age, accepted, lost, carried>>
  BY DEF RecordFailed, RecordReplyFailed, twilioVars
<1>2. Holding(r) /\ p \in Parts
  BY DEF RecordFailed, At, Holding, IInv, TypeOK, RunTypeOK, RunType
<1>3. /\ replies' \in [Parts -> ReplyType] /\ replies'[p].refused
      /\ \A q \in Parts \ {p} : replies'[q] = replies[q]
      /\ \A q \in Parts : /\ replies'[q].body = replies[q].body
                          /\ replies'[q].sending = replies[q].sending
                          /\ replies'[q].sid = replies[q].sid
                          /\ q # p => replies'[q].refused = replies[q].refused
  BY <1>1, <1>2 DEF RecordReplyFailed, IInv, TypeOK, StoreTypeOK, ReplyType
<1>4. /\ row' \in RowType /\ row'.encoded = row.encoded /\ row'.received = row.received
      /\ row'.noReply = row.noReply /\ row'.sent = row.sent
  BY <1>1 DEF RecordReplyFailed, IInv, TypeOK, StoreTypeOK, RowType
<1>5. ReplyRows' = ReplyRows /\ EveryPartHasSid' = EveryPartHasSid
  BY <1>3 DEF ReplyRows, EveryPartHasSid
<1>6. TypeOK'
  BY <1>1, <1>3, <1>4, Returned DEF IInv, TypeOK, StoreTypeOK, RunTypeOK
<1>7. RepliesAgree'
  <2>1. p \in ReplyRows /\ replies[p].sending /\ ~replies[p].sid
    BY <1>2, HolderAlone
  <2>2. QED
    BY <1>1, <1>3, <2>1 DEF IInv, RepliesAgree, ReplyRows
<1>8. RowAgrees'
  BY <1>1, <1>3, <1>4, <1>5 DEF IInv, RowAgrees, ReplyRows
<1>9. QED
  BY <1>1, <1>2, <1>3, <1>4, <1>5, <1>6, <1>7, <1>8, HolderAlone, Returned, StoreStep DEF IInv

LEMMA ReleaseInv == ASSUME IInv, NEW r \in Runs, Release(r) PROVE IInv'
<1> DEFINE p == run[r].part
<1>1. /\ ReleaseReply(p) /\ Return(r, 503)
      /\ UNCHANGED <<row, age, accepted, lost, carried>>
  BY DEF Release, ReleaseReply, twilioVars
<1>2. Holding(r) /\ p \in Parts /\ run[r].pc = "release"
  BY DEF Release, At, Holding, IInv, TypeOK, RunTypeOK, RunType
<1>3. accepted[p] = lost[p]
  BY <1>2 DEF IInv, RunsAgree, HolderAgrees
<1>4. /\ replies' \in [Parts -> ReplyType]
      /\ \A q \in Parts \ {p} : replies'[q] = replies[q]
      /\ \A q \in Parts : /\ replies'[q].body = replies[q].body
                          /\ replies'[q].refused = replies[q].refused
                          /\ replies'[q].sid = replies[q].sid
                          /\ q # p => replies'[q].sending = replies[q].sending
  BY <1>1, <1>2 DEF ReleaseReply, IInv, TypeOK, StoreTypeOK, ReplyType
<1>5. ReplyRows' = ReplyRows /\ EveryPartHasSid' = EveryPartHasSid
  BY <1>4 DEF ReplyRows, EveryPartHasSid
<1>6. TypeOK'
  BY <1>1, <1>4, Returned DEF IInv, TypeOK, StoreTypeOK, RunTypeOK
<1>7. RepliesAgree'
  BY <1>1, <1>2, <1>3, <1>4, HolderAlone DEF IInv, RepliesAgree, ReplyRows
<1>8. RowAgrees'
  BY <1>1, <1>4, <1>5 DEF IInv, RowAgrees, ReplyRows
<1>9. QED
  BY <1>1, <1>2, <1>4, <1>5, <1>6, <1>7, <1>8, HolderAlone, Returned, StoreStep DEF IInv

----------------------------------------------------------------------------
(***************************************************************************)
(* The queue, the other components, and the whole next-state relation.     *)
(***************************************************************************)
LEMMA QueueInv == ASSUME IInv, QueueNext PROVE IInv'
<1>1. UNCHANGED <<row, replies, age, run, accepted, lost, carried>>
  BY DEF QueueNext, storeVars, twilioVars
<1>2. TypeOK'
  <2>1. TaskTypeOK'
    BY DEF QueueNext, AttemptTimeout, GiveUp, ForgetName, IInv, TypeOK, TaskTypeOK, TaskType, TaskStates
  <2>2. QED
    BY <1>1, <2>1 DEF IInv, TypeOK, StoreTypeOK, RunTypeOK
<1>3. RepliesAgree' /\ RowAgrees'
  BY <1>1 DEF IInv, RepliesAgree, RowAgrees, ReplyRows, EveryPartHasSid
<1>4. QED
  BY <1>1, <1>2, <1>3, EnvironmentStep

LEMMA EnvironmentInv == ASSUME IInv, Environment PROVE IInv'
<1>1. UNCHANGED <<replies, run, accepted, lost, carried>>
  BY DEF Environment, ReceiveMessage, RecordMissed, FailOverdue, Tick, MarkQueued, storeVars, twilioVars
<1>2. /\ row' \in RowType /\ (row.received => row'.received)
      /\ row'.encoded = row.encoded /\ row'.sent = row.sent
      /\ row'.noReply # row.noReply => ~row.received /\ row'.received
      /\ row'.noReply => row'.received
  <2>1. row \in RowType /\ (~row.received => ~row.encoded /\ ~row.sent /\ ~row.noReply)
    BY DEF IInv, TypeOK, StoreTypeOK, RowAgrees
  <2>2. CASE ReceiveMessage
    BY <2>1, <2>2 DEF ReceiveMessage, NoRow, RowType, Outcomes, IInv, RowAgrees
  <2>3. CASE RecordMissed
    BY <2>1, <2>3 DEF RecordMissed, NoRow, RowType, Outcomes, IInv, RowAgrees
  <2>4. CASE FailOverdue \/ (row.received /\ MarkQueued) \/ Tick \/ UNCHANGED row
    BY <2>1, <2>4 DEF FailOverdue, MarkQueued, Tick, RowType, IInv, RowAgrees
  <2>5. QED
    BY <2>2, <2>3, <2>4 DEF Environment, storeVars
<1>3. age' \in Ages
  BY DEF Environment, ReceiveMessage, RecordMissed, FailOverdue, Tick, MarkQueued, storeVars,
     Ages, PastDeadline, IInv, TypeOK, StoreTypeOK
<1>4. TaskTypeOK'
  BY DEF Environment, EnqueueReturns, IInv, TypeOK, TaskTypeOK, TaskType, TaskStates
<1>5. TypeOK'
  BY <1>1, <1>2, <1>3, <1>4 DEF IInv, TypeOK, StoreTypeOK, RunTypeOK
<1>6. RepliesAgree'
  BY <1>1 DEF IInv, RepliesAgree
<1>7. ReplyRows' = ReplyRows /\ EveryPartHasSid' = EveryPartHasSid
  BY <1>1 DEF ReplyRows, EveryPartHasSid
<1>8. RowAgrees'
  <2>1. ~row.received => ReplyRows = {} /\ carried = {}
    BY DEF IInv, RowAgrees, TypeOK, RunTypeOK
  <2>2. QED
    BY <1>1, <1>2, <1>7, <2>1 DEF IInv, RowAgrees
<1>9. row.encoded => row'.encoded /\ row'.noReply = row.noReply
  BY <1>2 DEF IInv, RowAgrees, TypeOK, StoreTypeOK, RowType
<1>10. QED
  BY <1>1, <1>2, <1>5, <1>6, <1>8, <1>9, EnvironmentStep

LEMMA StutterInv == ASSUME IInv, UNCHANGED vars PROVE IInv'
<1>1. UNCHANGED <<row, replies, age, task, run, accepted, lost, carried>>
  BY DEF vars
<1>2. TypeOK' /\ RepliesAgree' /\ RowAgrees'
  BY <1>1 DEF IInv, TypeOK, StoreTypeOK, TaskTypeOK, RunTypeOK, RepliesAgree, RowAgrees,
     ReplyRows, EveryPartHasSid
<1>3. QED
  BY <1>1, <1>2, EnvironmentStep

LEMMA NextInv == IInv /\ [Next]_vars => IInv'
<1> SUFFICES ASSUME IInv, [Next]_vars PROVE IInv'
  OBVIOUS
<1>1. ASSUME NEW r \in Runs, Dispatch(r) \/ ExtraCall(r) \/ RunStep(r) \/ Crash(r)
      PROVE  IInv'
  <2>1. CASE Dispatch(r) \/ ExtraCall(r)
    BY <2>1, StartInv
  <2>2. CASE FetchRetry(r) \/ ResolveUnavailable(r) \/ Crash(r)
    BY <2>2, LocalReturn DEF FetchRetry, ResolveUnavailable, Crash
  <2>3. CASE RunStep(r) /\ ~FetchRetry(r) /\ ~ResolveUnavailable(r)
    BY <2>3, LoadInv, SnapshotInv, FetchInv, FetchRejectedInv, ResolveInv, RecordInv, ReloadInv,
       ClaimInv, ClaimsDoneInv, SendInv, SendFailsInv, RecordSentInv, RecordFailedInv,
       ReleaseInv, CheckInv, FinishInv DEF RunStep
  <2>4. QED
    BY <1>1, <2>1, <2>2, <2>3
<1>2. QED
  BY <1>1, QueueInv, EnvironmentInv, StutterInv DEF Next, EncodeTaskNext

----------------------------------------------------------------------------
(***************************************************************************)
(* The inductive invariant holds: for every number of overlapping runs,    *)
(* crashes and repeats, the store, Twilio and each run's local variables   *)
(* agree, and no two runs are sending the same part.                       *)
(***************************************************************************)
THEOREM Invariant == Spec => []IInv
<1>1. QED
  BY InitInv, NextInv, PTL DEF Spec

\* The variables of the delivery store, the queue and the runs keep their types.
THEOREM TypeCorrect == Spec => []TypeOK
<1>1. IInv => TypeOK
  BY DEF IInv
<1>2. QED
  BY <1>1, Invariant, PTL

(***************************************************************************)
(* The claim protocol works: Twilio creates at most one message for a part *)
(* besides those whose creation it did not acknowledge.                    *)
(***************************************************************************)
THEOREM ClaimProtocol == Spec => []AtMostOncePerLostAck
<1>1. IInv => AtMostOncePerLostAck
  BY DEF IInv, RepliesAgree, AtMostOncePerLostAck
<1>2. QED
  BY <1>1, Invariant, PTL

\* Every message the phone receives comes from the one encode that was recorded.
THEOREM OneEncodingSent == Spec => []OneEncoding
<1>1. IInv => OneEncoding
  <2> SUFFICES ASSUME IInv PROVE OneEncoding
    OBVIOUS
  <2>1. \A c \in carried : c[1] \in ReplyRows /\ c[2] = replies[c[1]].body
    BY DEF IInv, RowAgrees
  <2>2. \A p, q \in ReplyRows : replies[p].body = replies[q].body
    BY DEF IInv, RowAgrees
  <2>3. QED
    BY <2>1, <2>2 DEF OneEncoding
<1>2. QED
  BY <1>1, Invariant, PTL

(***************************************************************************)
(* A request recorded as sent owed something, and each part of it was      *)
(* created at Twilio and refused by nobody.                                *)
(***************************************************************************)
THEOREM SentIsSent == Spec => []SentMeansEveryPart
<1>1. IInv => SentMeansEveryPart
  <2> SUFFICES ASSUME IInv, row.sent PROVE SentMeansEveryPart
    BY DEF SentMeansEveryPart
  <2>1. ReplyRows # {} /\ ReplyRows \subseteq Parts /\ \A p \in ReplyRows : replies[p].sid
    BY DEF IInv, RowAgrees, EveryPartHasSid, ReplyRows
  <2>2. \A p \in ReplyRows : accepted[p] > 0 /\ ~replies[p].refused
    BY <2>1 DEF IInv, RepliesAgree
  <2>3. QED
    BY <2>1, <2>2 DEF SentMeansEveryPart
<1>2. QED
  BY <1>1, Invariant, PTL

\* A request that ended owing nothing has had no message sent for it.
THEOREM NothingSent == Spec => []NothingOwedNothingSent
<1>1. IInv => NothingOwedNothingSent
  BY DEF IInv, RowAgrees, NothingOwedNothingSent
<1>2. QED
  BY <1>1, Invariant, PTL
----------------------------------------------------------------------------
(***************************************************************************)
(* The lifecycle.  Every step moves what the store shows of a request as   *)
(* Lifecycle allows, or not at all.  Of a run it takes what the run knows  *)
(* of the store when it writes; of the other components nothing but what   *)
(* their statements do.                                                    *)
(***************************************************************************)
Answered == {p \in ReplyRows : replies[p].sid}
Unseen == State' = State /\ ReplyRows' = ReplyRows /\ Answered' = Answered

LEMMA StoreUnseen == ASSUME UNCHANGED storeVars PROVE Unseen
  BY DEF storeVars, Unseen, State, ReplyRows, Answered

LEMMA EncodeMoves ==
  ASSUME IInv, row.received, NEW outcome \in Outcomes, NEW e \in Encodings, NEW n \in 0 .. MaxParts,
         RecordEncoded(outcome, e, n)
  PROVE  Abstract!Next \/ Unseen
<1>1. row \in RowType /\ replies \in [Parts -> ReplyType]
  BY DEF IInv, TypeOK, StoreTypeOK
<1>2. CASE row.encoded
  BY <1>2, StoreUnseen DEF RecordEncoded, storeVars
<1>3. CASE ~row.encoded
  <2>1. ReplyRows = {} /\ ~row.sent /\ Answered = {}
    BY <1>3 DEF IInv, RowAgrees, Answered
  <2>2. row' = [row EXCEPT !.encoded = TRUE, !.outcome = outcome, !.noReply = @ \/ n = 0]
        /\ replies' = [p \in Parts |-> IF p <= n THEN [NoReply EXCEPT !.body = e] ELSE replies[p]]
    BY <1>3 DEF RecordEncoded
  <2>3. ReplyRows' = {p \in Parts : p <= n} /\ Answered' = {}
    <3>1. \A p \in Parts : /\ p <= n => replies'[p].body = e /\ ~replies'[p].sid
                           /\ ~(p <= n) => replies'[p] = replies[p] /\ replies[p].body = NoBody
      BY <2>1, <2>2 DEF NoReply, ReplyRows
    <3>2. e # NoBody
      BY StoreAssumption
    <3>3. QED
      BY <3>1, <3>2 DEF ReplyRows, Answered
  <2>4. CASE n = 0
    <3>1. ReplyRows' = {}
      BY <2>3, <2>4, PartsNat DEF Parts
    <3>2. \/ State \in {"received", "queued"} /\ State' = "no_reply"
          \/ State' = State
      BY <1>1, <1>3, <2>1, <2>2, <2>4 DEF State, RowType
    <3>3. QED
      BY <2>1, <2>3, <3>1, <3>2 DEF Abstract!Next, Abstract!OweNothing, Unseen, Answered
  <2>5. CASE n # 0
    <3>1. ReplyRows' # {} /\ ReplyRows' \subseteq Parts
      BY <2>3, <2>5, PartsNat DEF Parts
    <3>2. /\ State \in {"received", "queued", "failed", "no_reply"}
          /\ State' = IF State \in {"received", "queued"} THEN "encoded" ELSE State
      BY <1>1, <1>3, <2>1, <2>2, <2>5 DEF State, RowType
    <3>3. Abstract!Encode
      BY <2>1, <2>3, <3>1, <3>2 DEF Abstract!Encode, Answered
    <3>4. QED
      BY <3>3 DEF Abstract!Next
  <2>6. QED
    BY <2>4, <2>5
<1>4. QED
  BY <1>2, <1>3

LEMMA RejectMoves == ASSUME IInv, row.received, RecordRejected PROVE Abstract!Next \/ Unseen
<1>1. \/ State \in {"received", "queued"} /\ State' = "no_reply"
      \/ State' = State
  BY DEF RecordRejected, State, IInv, TypeOK, StoreTypeOK, RowType, RowAgrees
<1>2. QED
  BY <1>1 DEF RecordRejected, Unseen, ReplyRows, Answered, Abstract!Next, Abstract!OweNothing

\* What a run does with the part it holds.
LEMMA PartMoves ==
  ASSUME IInv, NEW r \in Runs, Holding(r),
         LET p == run[r].part IN RecordReplySent(p) \/ RecordReplyFailed(p) \/ ReleaseReply(p)
  PROVE  Abstract!Next \/ Unseen
<1> DEFINE p == run[r].part
<1>1. /\ row \in RowType /\ replies \in [Parts -> ReplyType] /\ p \in ReplyRows /\ p \in Parts
      /\ ~replies[p].sid /\ row.encoded /\ row.received /\ ~row.noReply /\ ~row.sent
  BY DEF IInv, TypeOK, StoreTypeOK, RunsAgree, HolderAgrees, RunAgrees, Committed, RowAgrees,
     EveryPartHasSid, ReplyRows
<1> HIDE DEF p
<1>2. State \in {"encoded", "failed"} /\ (State = "failed" <=> row.failed)
  BY <1>1 DEF State, RowType
<1>3. CASE RecordReplySent(p)
  <2>1. replies' = [replies EXCEPT ![p].sid = TRUE] /\ row' = row
    BY <1>3 DEF RecordReplySent
  <2>2. ReplyRows' = ReplyRows /\ Answered' = Answered \union {p} /\ p \notin Answered
    BY <1>1, <2>1 DEF ReplyRows, Answered, ReplyType
  <2>3. State' = State
    BY <2>1 DEF State
  <2>4. QED
    BY <1>1, <1>2, <2>2, <2>3 DEF Abstract!Next, Abstract!AnswerPart, Answered
<1>4. CASE RecordReplyFailed(p)
  <2>1. replies' = [replies EXCEPT ![p].refused = TRUE] /\ row' = [row EXCEPT !.failed = TRUE]
    BY <1>4 DEF RecordReplyFailed
  <2>2. ReplyRows' = ReplyRows /\ Answered' = Answered
    BY <1>1, <2>1 DEF ReplyRows, Answered, ReplyType
  <2>3. State' = "failed"
    BY <1>1, <2>1 DEF State, RowType
  <2>4. QED
    BY <1>2, <2>2, <2>3 DEF Abstract!Next, Abstract!Fail, Unseen, Answered
<1>5. CASE ReleaseReply(p)
  <2>1. replies' = [replies EXCEPT ![p].sending = @ /\ replies[p].sid] /\ row' = row
    BY <1>5 DEF ReleaseReply
  <2>2. ReplyRows' = ReplyRows /\ Answered' = Answered
    BY <1>1, <2>1 DEF ReplyRows, Answered, ReplyType
  <2>3. QED
    BY <2>1, <2>2 DEF Unseen, State
<1>6. QED
  BY <1>3, <1>4, <1>5 DEF p

LEMMA FinishMoves ==
  ASSUME IInv, NEW r \in Runs, Finish(r)
  PROVE  Abstract!Next \/ Unseen
<1>1. /\ row \in RowType /\ row.encoded /\ row.received /\ ~row.noReply
      /\ EveryPartHasSid /\ ReplyRows # {}
      /\ row' = [row EXCEPT !.sent = TRUE] /\ replies' = replies
  BY DEF Finish, At, RecordRequestSent, IInv, TypeOK, StoreTypeOK, RunsAgree, RunAgrees, Committed, RowAgrees
<1>2. Answered = ReplyRows /\ ReplyRows' = ReplyRows /\ Answered' = Answered
  BY <1>1 DEF Answered, EveryPartHasSid, ReplyRows
<1>3. \/ State = "encoded" /\ State' = "sent"
      \/ State' = State
  BY <1>1 DEF State, RowType
<1>4. QED
  BY <1>1, <1>2, <1>3 DEF Abstract!Next, Abstract!Send, Unseen, Answered

LEMMA ClaimUnseen == ASSUME IInv, NEW r \in Runs, Claim(r) PROVE Unseen
<1>1. CASE UNCHANGED storeVars
  BY <1>1, StoreUnseen
<1>2. CASE \E p \in Parts : ClaimReply(p)
  <2>1. PICK p \in Parts : replies' = [replies EXCEPT ![p].sending = TRUE] /\ row' = row
    BY <1>2 DEF ClaimReply
  <2>2. \A q \in Parts : replies'[q].body = replies[q].body /\ replies'[q].sid = replies[q].sid
    BY <2>1 DEF IInv, TypeOK, StoreTypeOK, ReplyType
  <2>3. QED
    BY <2>1, <2>2 DEF Unseen, State, ReplyRows, Answered
<1>3. QED
  BY <1>1, <1>2 DEF Claim

LEMMA RunMoves ==
  ASSUME IInv, NEW r \in Runs, RunStep(r)
  PROVE  Abstract!Next \/ Unseen
<1>1. CASE UNCHANGED storeVars
  BY <1>1, StoreUnseen
<1>2. CASE FetchRejected(r)
  BY <1>2, RejectMoves DEF FetchRejected, At, IInv, RunsAgree, RunAgrees
<1>3. CASE Record(r)
  <2>1. row.received
    BY <1>3 DEF Record, At, IInv, RunsAgree, RunAgrees
  <2>2. PICK result \in Results(r), e \in Encodings : RecordEncoded(result[1], e, result[2])
    BY <1>3 DEF Record
  <2>3. result[1] \in Outcomes /\ result[2] \in 0 .. MaxParts
    BY PartsNat, StoreAssumption DEF Results, Outcomes, Parts
  <2>4. QED
    BY <2>1, <2>2, <2>3, EncodeMoves
<1>4. CASE Claim(r)
  BY <1>4, ClaimUnseen
<1>5. CASE RecordSent(r) \/ RecordFailed(r) \/ Release(r)
  BY <1>5, PartMoves DEF RecordSent, RecordFailed, Release, At, Holding
<1>6. CASE Finish(r)
  BY <1>6, FinishMoves
<1>7. QED
  BY <1>1, <1>2, <1>3, <1>4, <1>5, <1>6
     DEF RunStep, LoadRow, LoadReplies, FetchOk, FetchRetry, ResolveUnavailable, Resolve, Reload,
         ReloadReplies, ClaimsDone, SendAccepted, SendRejected, SendRetry, SendUnacknowledged, Check

LEMMA EnvironmentMoves ==
  ASSUME IInv, Environment
  PROVE  Abstract!Next \/ Unseen
<1>1. row \in RowType
  BY DEF IInv, TypeOK, StoreTypeOK
<1>2. replies' = replies
  BY DEF Environment, ReceiveMessage, RecordMissed, FailOverdue, Tick, MarkQueued, storeVars
<1>3. ReplyRows' = ReplyRows /\ Answered' = Answered /\ (~row.received => ReplyRows = {})
  BY <1>2 DEF ReplyRows, Answered, IInv, RowAgrees
<1>4. CASE ReceiveMessage
  <2>1. (State = "absent" /\ State' = "received") \/ State' = State
    BY <1>4 DEF ReceiveMessage, State, NoRow
  <2>2. QED
    BY <1>3, <2>1 DEF Abstract!Next, Abstract!Receive, Unseen, Answered
<1>5. CASE RecordMissed
  <2>1. (State = "absent" /\ State' = "no_reply") \/ State' = State
    BY <1>5 DEF RecordMissed, State, NoRow
  <2>2. QED
    BY <1>3, <2>1 DEF Abstract!Next, Abstract!Miss, Unseen, Answered
<1>6. CASE FailOverdue
  <2>1. (State \in {"queued", "encoded"} /\ State' = "failed") \/ State' = State
    BY <1>1, <1>6 DEF FailOverdue, Overdue, Terminal, State, RowType
  <2>2. QED
    BY <1>3, <2>1 DEF Abstract!Next, Abstract!Fail, Unseen, Answered
<1>7. CASE MarkQueued
  <2>1. (State = "received" /\ State' = "queued") \/ State' = State
    BY <1>1, <1>7 DEF MarkQueued, State, RowType
  <2>2. QED
    BY <1>3, <2>1 DEF Abstract!Next, Abstract!Queue, Unseen, Answered
<1>8. CASE Tick \/ UNCHANGED storeVars
  BY <1>8, <1>3 DEF Tick, storeVars, Unseen, State
<1>9. QED
  BY <1>4, <1>5, <1>6, <1>7, <1>8 DEF Environment

LEMMA StepMoves == IInv /\ [Next]_vars => [Abstract!Next]_<<State, ReplyRows, Answered>>
<1> SUFFICES ASSUME IInv, [Next]_vars PROVE Abstract!Next \/ Unseen
  BY DEF Unseen
<1>1. CASE \E r \in Runs : RunStep(r)
  BY <1>1, RunMoves
<1>2. CASE \E r \in Runs : Dispatch(r) \/ ExtraCall(r) \/ Crash(r)
  BY <1>2, StoreUnseen DEF Dispatch, ExtraCall, Crash
<1>3. CASE QueueNext
  BY <1>3, StoreUnseen DEF QueueNext
<1>4. CASE Environment
  BY <1>4, EnvironmentMoves
<1>5. CASE UNCHANGED vars
  BY <1>5, StoreUnseen DEF vars, storeVars
<1>6. QED
  BY <1>1, <1>2, <1>3, <1>4, <1>5 DEF Next, EncodeTaskNext

(***************************************************************************)
(* The pipeline implements the lifecycle its comments promise: for every   *)
(* number of parts and runs, a request moves through received, queued and  *)
(* encoded to one of three ends it never leaves, what it owes is fixed     *)
(* once, `sent` needs every part answered, and nothing is answered on a    *)
(* request that owes nothing (db.ts:224-230).                              *)
(***************************************************************************)
THEOREM Refinement == Spec => ImplementsLifecycle
<1>1. Init => Abstract!Init
  BY DEF Init, StoreInit, NoRow, NoReply, Abstract!Init, State, ReplyRows
<1>2. Answered = {p \in ReplyRows : replies[p].sid}
  BY DEF Answered
<1>3. QED
  BY <1>1, <1>2, StepMoves, Invariant, PTL DEF Spec, ImplementsLifecycle, Abstract!Spec, Answered

=============================================================================
