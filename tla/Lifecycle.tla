----------------------------- MODULE Lifecycle -----------------------------
(***************************************************************************)
(* What the gateway promises about one inbound message, whatever the       *)
(* webhook, the event sink, the queue, the runs of the encode task and the *)
(* health check do to each other (the comments of packages/server/src/     *)
(* db.ts:224-230 and health-check.ts:10-28): its request moves through     *)
(* received, queued and encoded to one of three ends it never leaves;      *)
(* what it owes is fixed once; it is `sent` only when it owes something    *)
(* and every part owed is answered; and nothing is ever answered on a      *)
(* request that owes nothing.                                              *)
(***************************************************************************)
CONSTANT Part

VARIABLES
  state,       \* the `state` column
  owed,        \* the parts of the reply, fixed when the request is encoded
  answered     \* the parts Twilio gave a SID for

Init == state = "absent" /\ owed = {} /\ answered = {}

Receive == /\ state = "absent" /\ state' = "received"
           /\ UNCHANGED <<owed, answered>>

\* The health check finds the message at Twilio and nowhere else.
Miss == /\ state = "absent" /\ state' = "no_reply"
        /\ UNCHANGED <<owed, answered>>

Queue == /\ state = "received" /\ state' = "queued"
         /\ UNCHANGED <<owed, answered>>

\* The reply is fixed; a request already over stays as it ended.
Encode == /\ state \in {"received", "queued", "failed", "no_reply"}
          /\ owed = {}
          /\ owed' \in (SUBSET Part) \ {{}}
          /\ state' = IF state \in {"received", "queued"} THEN "encoded" ELSE state
          /\ UNCHANGED answered

OweNothing == /\ state \in {"received", "queued"} /\ state' = "no_reply"
              /\ UNCHANGED <<owed, answered>>

\* A part is answered; a run may still be at it when the request has been failed.
AnswerPart == /\ state \in {"encoded", "failed"}
              /\ \E p \in owed \ answered : answered' = answered \union {p}
              /\ UNCHANGED <<state, owed>>

Send == /\ state = "encoded" /\ owed # {} /\ answered = owed
        /\ state' = "sent"
        /\ UNCHANGED <<owed, answered>>

Fail == /\ state \in {"queued", "encoded"} /\ state' = "failed"
        /\ UNCHANGED <<owed, answered>>

Next == Receive \/ Miss \/ Queue \/ Encode \/ OweNothing \/ AnswerPart \/ Send \/ Fail

Spec == Init /\ [][Next]_<<state, owed, answered>>

=============================================================================
