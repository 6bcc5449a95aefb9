----------------------------- MODULE EncodeTask -----------------------------
(***************************************************************************)
(* The encode task (packages/server/src/encode-task.ts): any number of     *)
(* overlapping runs of POST /encode for the same message, one step per     *)
(* statement or outside call, since every await lets another run in.  A    *)
(* run keeps only what the code keeps in variables: whether the row it     *)
(* loaded was queued and encoded, and the reply rows of its snapshot.      *)
(***************************************************************************)
EXTENDS DeliveryStore, TaskQueue

CONSTANT MaxLost   \* the most sends of one part that Twilio takes without saying so

ASSUME LostAssumption == MaxLost \in Nat

VARIABLES
  run,         \* run -> its program counter and local variables
  accepted,    \* part -> how many messages Twilio created for it
  lost,        \* part -> how many of those it failed to acknowledge
  carried      \* the <<part, body>> pairs of the messages Twilio created

twilioVars == <<accepted, lost, carried>>

PCs == {"idle", "load", "loadReplies", "fetch", "resolve", "record", "reload",
        "reloadReplies", "claim", "send", "recordSent", "recordFailed",
        "release", "check", "finish"}

RunType == [pc : PCs,
            queuedSeen : BOOLEAN,     \* row.queuedAt of the first load
            encodedSeen : BOOLEAN,    \* row.encodedAt of the first load
            late : BOOLEAN,           \* ~willRetry
            todo : SUBSET Parts,      \* parts of the snapshot still to be looked at
            part : Parts]             \* the part being sent

Idle == [pc |-> "idle", queuedSeen |-> FALSE, encodedSeen |-> FALSE,
         late |-> FALSE, todo |-> {}, part |-> 1]

RunTypeOK ==
  /\ run \in [Runs -> RunType]
  /\ accepted \in [Parts -> Nat]
  /\ lost \in [Parts -> Nat]
  /\ carried \subseteq Parts \X Encodings

RunInit == /\ run = [r \in Runs |-> Idle]
           /\ accepted = [p \in Parts |-> 0]
           /\ lost = [p \in Parts |-> 0]
           /\ carried = {}

At(r, pc) == run[r].pc = pc

Goto(r, pc) == run' = [run EXCEPT ![r].pc = pc]

\* On to a part of the run that uses none of these locals again.
Proceed(r, pc) == run' = [run EXCEPT ![r] = [@ EXCEPT !.pc = pc, !.queuedSeen = FALSE,
                                                      !.encodedSeen = FALSE, !.late = FALSE]]

\* The route returns: 200 for "done", 503 for "retry", 404 for "unknown".
Return(r, status) == /\ run' = [run EXCEPT ![r] = Idle]
                     /\ Respond(r, status)

\* What a snapshot of the reply rows leaves to send: neither sent nor claimed.
Unclaimed == {p \in ReplyRows : ~replies[p].sid /\ ~replies[p].sending}

----------------------------------------------------------------------------
\* The queue starts an attempt.
Dispatch(r) == /\ At(r, "idle")
               /\ BeginAttempt(r)
               /\ Goto(r, "load")
               /\ UNCHANGED <<storeVars, twilioVars>>

\* The queue delivers a task more than once, or something else calls the route.
ExtraCall(r) == /\ At(r, "idle")
                /\ Goto(r, "load")
                /\ UNCHANGED <<storeVars, twilioVars, task>>

\* loadDelivery's first query, and the check that nothing ended the request.
LoadRow(r) ==
  /\ At(r, "load")
  /\ IF ~row.received THEN Return(r, 404)
     ELSE IF Terminal THEN Return(r, 200)
     ELSE /\ run' = [run EXCEPT ![r].pc = IF row.encoded THEN "loadReplies" ELSE "fetch",
                                ![r].queuedSeen = row.queued,
                                ![r].encodedSeen = row.encoded]
          /\ UNCHANGED task
  /\ UNCHANGED <<storeVars, twilioVars>>

\* loadDelivery's second query.
LoadReplies(r) ==
  /\ At(r, "loadReplies")
  /\ run' = [run EXCEPT ![r].pc = "fetch", ![r].todo = Unclaimed]
  /\ UNCHANGED <<storeVars, twilioVars, task>>

\* fetchMessage answers with the message.
FetchOk(r) ==
  /\ At(r, "fetch")
  /\ IF run[r].encodedSeen THEN Proceed(r, "claim") ELSE Goto(r, "resolve")
  /\ UNCHANGED <<storeVars, twilioVars, task>>

FetchRetry(r) ==
  /\ At(r, "fetch")
  /\ Return(r, 503)
  /\ UNCHANGED <<storeVars, twilioVars>>

\* Twilio has no such message, or it is not one sent to the service.
FetchRejected(r) ==
  /\ At(r, "fetch")
  /\ RecordRejected
  /\ Return(r, 200)
  /\ UNCHANGED twilioVars

(***************************************************************************)
(* willRetry compares now with the queued_at of the snapshot, or with      *)
(* created_at when the snapshot had none; a row queued since then has its  *)
(* age counted from the later timestamp.                                   *)
(***************************************************************************)
MayRetry(r)   == age < PastWindow
MayGiveUp(r)  == age >= PastWindow \/ (row.queued /\ ~run[r].queuedSeen)

\* resolveForecast came to nothing within the retry window.
ResolveUnavailable(r) ==
  /\ At(r, "resolve") /\ MayRetry(r)
  /\ Return(r, 503)
  /\ UNCHANGED <<storeVars, twilioVars>>

\* resolveForecast came to something to record, unavailable included past the window.
Resolve(r) ==
  /\ At(r, "resolve")
  /\ \E late \in {l \in BOOLEAN : IF l THEN MayGiveUp(r) ELSE MayRetry(r)} :
        run' = [run EXCEPT ![r].pc = "record", ![r].late = late]
  /\ UNCHANGED <<storeVars, twilioVars, task>>

\* The replies owed: the parts of a forecast, one fixed message, or nothing.
Results(r) ==
  {<<"answer", n>> : n \in Parts} \union {<<"silent", 0>>}
     \union {<<"unavailable", n>> : n \in IF run[r].late THEN {1} ELSE {}}

Record(r) ==
  /\ At(r, "record")
  /\ \E result \in Results(r), e \in Encodings : RecordEncoded(result[1], e, result[2])
  /\ Proceed(r, "reload")
  /\ UNCHANGED <<twilioVars, task>>

\* Mutation: the reload is not checked for a terminal state.
BadReload(r) ==
  /\ At(r, "reload")
  /\ Goto(r, "reloadReplies")
  /\ UNCHANGED <<storeVars, twilioVars, task>>

\* The reload's first query: whichever run's encode won, is the request over?
Reload(r) ==
  /\ At(r, "reload")
  /\ IF Terminal THEN Return(r, 200) ELSE Goto(r, "reloadReplies") /\ UNCHANGED task
  /\ UNCHANGED <<storeVars, twilioVars>>

ReloadReplies(r) ==
  /\ At(r, "reloadReplies")
  /\ run' = [run EXCEPT ![r].pc = "claim", ![r].todo = Unclaimed]
  /\ UNCHANGED <<storeVars, twilioVars, task>>

\* The next part of the snapshot, in order.
NextPart(r, p) == p \in run[r].todo /\ \A q \in run[r].todo : p <= q

Claim(r) ==
  /\ At(r, "claim")
  /\ \E p \in Parts :
       /\ NextPart(r, p)
       /\ IF CanClaim(p)
          THEN /\ ClaimReply(p)
               /\ run' = [run EXCEPT ![r].pc = "send", ![r].part = p, ![r].todo = @ \ {p}]
          ELSE /\ run' = [run EXCEPT ![r].todo = @ \ {p}]
               /\ UNCHANGED storeVars
  /\ UNCHANGED <<twilioVars, task>>

\* Every part of the snapshot has been looked at.
ClaimsDone(r) ==
  /\ At(r, "claim") /\ run[r].todo = {}
  /\ Goto(r, "check")
  /\ UNCHANGED <<storeVars, twilioVars, task>>

\* Twilio creates a message for part p.
Create(p) == /\ accepted' = [accepted EXCEPT ![p] = @ + 1]
             /\ carried' = carried \union {<<p, replies[p].body>>}

SendAccepted(r) ==
  /\ At(r, "send")
  /\ Create(run[r].part)
  /\ Goto(r, "recordSent")
  /\ UNCHANGED <<storeVars, lost, task>>

SendRejected(r) ==
  /\ At(r, "send")
  /\ Goto(r, "recordFailed")
  /\ UNCHANGED <<storeVars, twilioVars, task>>

\* 429, 5xx or unreachable, and no message was created.
SendRetry(r) ==
  /\ At(r, "send")
  /\ Goto(r, "release")
  /\ UNCHANGED <<storeVars, twilioVars, task>>

\* The same answer to the run, and a message was created.
SendUnacknowledged(r) ==
  /\ At(r, "send") /\ lost[run[r].part] < MaxLost
  /\ Create(run[r].part)
  /\ lost' = [lost EXCEPT ![run[r].part] = @ + 1]
  /\ Goto(r, "release")
  /\ UNCHANGED <<storeVars, task>>

RecordSent(r) ==
  /\ At(r, "recordSent")
  /\ RecordReplySent(run[r].part)
  /\ Goto(r, "claim")
  /\ UNCHANGED <<twilioVars, task>>

RecordFailed(r) ==
  /\ At(r, "recordFailed")
  /\ RecordReplyFailed(run[r].part)
  /\ Return(r, 200)
  /\ UNCHANGED twilioVars

Release(r) ==
  /\ At(r, "release")
  /\ ReleaseReply(run[r].part)
  /\ Return(r, 503)
  /\ UNCHANGED twilioVars

\* Mutation: the run takes the parts of its own snapshot for all of them.
BadCheck(r) ==
  /\ At(r, "check")
  /\ Goto(r, "finish")
  /\ UNCHANGED <<storeVars, twilioVars, task>>

\* The last load: parts sent by another run count too.
Check(r) ==
  /\ At(r, "check")
  /\ IF EveryPartHasSid THEN Goto(r, "finish") /\ UNCHANGED task ELSE Return(r, 200)
  /\ UNCHANGED <<storeVars, twilioVars>>

Finish(r) ==
  /\ At(r, "finish")
  /\ RecordRequestSent
  /\ Return(r, 200)
  /\ UNCHANGED twilioVars

\* An instance is killed, or a statement or a call throws: the run is gone
\* and the queue, if it was waiting, sees a failure.
Crash(r) ==
  /\ ~At(r, "idle")
  /\ Return(r, 500)
  /\ UNCHANGED <<storeVars, twilioVars>>

RunStep(r) ==
  \/ LoadRow(r) \/ LoadReplies(r)
  \/ FetchOk(r) \/ FetchRetry(r) \/ FetchRejected(r)
  \/ ResolveUnavailable(r) \/ Resolve(r) \/ Record(r) \/ Reload(r) \/ ReloadReplies(r)
  \/ Claim(r) \/ ClaimsDone(r)
  \/ SendAccepted(r) \/ SendRejected(r) \/ SendRetry(r) \/ SendUnacknowledged(r)
  \/ RecordSent(r) \/ RecordFailed(r) \/ Release(r)
  \/ Check(r) \/ Finish(r)

EncodeTaskNext == \E r \in Runs : Dispatch(r) \/ ExtraCall(r) \/ RunStep(r) \/ Crash(r)

\* What Cloud Tasks does on its own.
QueueNext == /\ AttemptTimeout \/ GiveUp \/ ForgetName
             /\ UNCHANGED <<storeVars, run, twilioVars>>

(***************************************************************************)
(* What the other components do to the store and to the queue, one         *)
(* statement or call at a time and in any order: modules Ingress and       *)
(* HealthCheck say when, and module Delivery that they do nothing else.    *)
(***************************************************************************)
Environment ==
  /\ \/ /\ \/ ReceiveMessage \/ RecordMissed \/ FailOverdue \/ Tick
           \/ row.received /\ MarkQueued
        /\ UNCHANGED task
     \/ /\ row.received /\ EnqueueReturns
        /\ UNCHANGED storeVars
  /\ UNCHANGED <<run, twilioVars>>

vars == <<row, replies, age, task, run, accepted, lost, carried>>

Init == StoreInit /\ TaskInit /\ RunInit

Next == EncodeTaskNext \/ QueueNext \/ Environment

Spec == Init /\ [][Next]_vars

----------------------------------------------------------------------------
\* Every variable holds what its component says it holds.
TypeOK == StoreTypeOK /\ TaskTypeOK /\ RunTypeOK

(***************************************************************************)
(* The inductive invariant behind the properties below.  A reply row and   *)
(* Twilio agree: outside a claim every message created for the part was    *)
(* unacknowledged; inside one there is at most one more.                   *)
(***************************************************************************)
RepliesAgree ==
  \A p \in Parts :
    /\ replies[p].body = NoBody => ~replies[p].sending /\ ~replies[p].refused
    /\ replies[p].sid => replies[p].sending /\ ~replies[p].refused /\ accepted[p] > 0
    /\ replies[p].refused => replies[p].sending
    /\ ~replies[p].sending => accepted[p] = lost[p]
    /\ accepted[p] <= lost[p] + 1

\* The row and its replies agree.
RowAgrees ==
  /\ row.encoded => row.received
  /\ ReplyRows # {} => row.encoded
  /\ row.encoded /\ ~row.noReply => ReplyRows # {}
  /\ row.sent => ReplyRows # {} /\ EveryPartHasSid
  /\ row.noReply => row.received /\ carried = {}
  /\ \A p, q \in ReplyRows : replies[p].body = replies[q].body
  /\ \A c \in carried : c[1] \in ReplyRows /\ c[2] = replies[c[1]].body

\* The run has claimed run[r].part and not yet dealt with the outcome of the send.
Holding(r) == run[r].pc \in {"send", "recordSent", "recordFailed", "release"}

\* The run knows that the request owes a reply.
Committed(r) ==
  \/ run[r].pc \in {"loadReplies", "reloadReplies", "claim", "check", "finish"}
  \/ run[r].pc = "fetch" /\ run[r].encodedSeen
  \/ Holding(r)

HolderAgrees(r) ==
  Holding(r) =>
    /\ run[r].part \in ReplyRows
    /\ replies[run[r].part].sending
    /\ ~replies[run[r].part].sid /\ ~replies[run[r].part].refused
    /\ run[r].pc # "recordSent" => accepted[run[r].part] = lost[run[r].part]
    /\ run[r].pc = "recordSent" => accepted[run[r].part] > 0

RunAgrees(r) ==
  /\ run[r].todo \subseteq ReplyRows
  /\ Committed(r) => row.encoded /\ ~row.noReply
  /\ run[r].pc \in {"loadReplies", "fetch", "resolve", "record"} => row.received
  /\ run[r].pc = "reload" => row.encoded
  /\ run[r].pc = "finish" => EveryPartHasSid

RunsAgree == \A r \in Runs : HolderAgrees(r) /\ RunAgrees(r)

\* No two runs are sending the same part.
ClaimExclusive ==
  \A r, q \in Runs : Holding(r) /\ Holding(q) /\ run[r].part = run[q].part => r = q

IInv == TypeOK /\ RepliesAgree /\ RowAgrees /\ RunsAgree /\ ClaimExclusive

(***************************************************************************)
(* The claim protocol (claimReply, releaseReply, recordReplySent): however *)
(* many runs overlap, crash or are repeated, Twilio is never made to       *)
(* create a second message for a part, except after a send it carried out  *)
(* and did not acknowledge.                                                *)
(***************************************************************************)
AtMostOncePerLostAck == \A p \in Parts : accepted[p] <= lost[p] + 1

(***************************************************************************)
(* Runs that encode the same request at the same time get different texts, *)
(* since the forecast has moved on; the messages the phone receives all    *)
(* come from the one encode that was recorded, or they would not merge     *)
(* (recordEncoded's guard and the reload after it).                        *)
(***************************************************************************)
OneEncoding == /\ \A c \in carried : c[2] = replies[c[1]].body
               /\ \A c, d \in carried : c[2] = d[2]

(***************************************************************************)
(* A request counted as sent owed something, and each part of it was       *)
(* created at Twilio and refused by nobody (the reload before              *)
(* recordRequestSent, whose every() is true of no parts at all).           *)
(***************************************************************************)
SentMeansEveryPart ==
  row.sent => /\ ReplyRows # {}
              /\ \A p \in ReplyRows : accepted[p] > 0 /\ ~replies[p].refused

(***************************************************************************)
(* A request that is over with nothing owed (stale, over quota, rejected,  *)
(* missed) never had a message sent for it and never will, although a run  *)
(* that loaded the row earlier may still encode it (the terminal check     *)
(* after the reload).                                                      *)
(***************************************************************************)
NothingOwedNothingSent == row.noReply => carried = {}

(***************************************************************************)
(* The request's lifecycle, with the `state` column and the SIDs as its    *)
(* view of the store.                                                      *)
(***************************************************************************)
Abstract == INSTANCE Lifecycle
              WITH Part <- Parts, state <- State, owed <- ReplyRows,
                   answered <- {p \in ReplyRows : replies[p].sid}

ImplementsLifecycle == Abstract!Spec

----------------------------------------------------------------------------
(***************************************************************************)
(* What the code does not do.                                              *)
(***************************************************************************)

(***************************************************************************)
(* A run that ends with "retry" is picked up by a later run                *)
(* (encode-task.ts:17-19): a part of an open request that is neither sent  *)
(* nor claimed has a task on the queue, or a run at work, to send it.      *)
(***************************************************************************)
UnsentPartHasARun ==
  row.encoded /\ ~Terminal /\ Unclaimed # {}
    => task.state # "done" \/ \E r \in Runs : ~At(r, "idle")

(***************************************************************************)
(* "A request is `sent` once every reply part has a Twilio SID"            *)
(* (db.ts:227-228): once it is over and no run is at work, that is what    *)
(* the `state` column says.                                                *)
(***************************************************************************)
EverySidMeansSent ==
  /\ ReplyRows # {} /\ EveryPartHasSid /\ Terminal
  /\ \A r \in Runs : At(r, "idle")
  => State = "sent"

=============================================================================
