------------------------------ MODULE MCRecords ------------------------------
(***************************************************************************)
(* The records kept beside the pipeline, each its own component: the       *)
(* subscriptions and the delivery receipts of the gateway, the request     *)
(* store and the map packs of the app.  They share nothing; a behaviour is *)
(* one of any of them, the others at rest.                                 *)
(***************************************************************************)
EXTENDS Subscriptions, Receipts, SlotRing, PackStore, TLC

VARIABLE component
vars == <<component, subscriptionsVars, receiptsVars, ringVars, packVars>>

Init ==
  /\ component \in {"subscriptions", "receipts", "ring", "packs"}
  /\ SubscriptionsInit /\ ReceiptsInit /\ RingInit /\ PackInit

Next ==
  /\ UNCHANGED component
  /\ \/ /\ component = "subscriptions" /\ SubscriptionsNext
        /\ UNCHANGED <<receiptsVars, ringVars, packVars>>
     \/ /\ component = "receipts" /\ ReceiptsNext
        /\ UNCHANGED <<subscriptionsVars, ringVars, packVars>>
     \/ /\ component = "ring" /\ RingNext
        /\ UNCHANGED <<subscriptionsVars, receiptsVars, packVars>>
     \/ /\ component = "packs" /\ PackNext
        /\ UNCHANGED <<subscriptionsVars, receiptsVars, ringVars>>

Spec == Init /\ [][Next]_vars

Symmetry == Permutations(Accounts) \union Permutations(Purchases)

(* The ring and the packs promise nothing once a write failed or list
   changes overlapped. *)
Undisturbed == ~disturbed /\ ~crossed
=============================================================================
