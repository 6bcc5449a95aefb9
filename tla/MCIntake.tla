----------------------------- MODULE MCIntake -----------------------------
(* The instance of Intake for TLC. *)
EXTENDS Intake, TLC
=============================================================================
