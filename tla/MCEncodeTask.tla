---------------------------- MODULE MCEncodeTask ----------------------------
(* Instances of EncodeTask for TLC. *)
EXTENDS EncodeTask, TLC

Symmetry == Permutations(Runs) \union Permutations(Encodings)

(***************************************************************************)
(* The encode task when nothing goes wrong but Twilio's own answers to a   *)
(* send and a run outliving the dispatch deadline: no crash, no call but   *)
(* the queue's, no message read back as unknown.                           *)
(***************************************************************************)
QuietNext == Next /\ ~\E r \in Runs : ExtraCall(r) \/ FetchRejected(r) \/ Crash(r)

QuietSpec == Init /\ [][QuietNext]_vars
=============================================================================
