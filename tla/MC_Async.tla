------------------------------ MODULE MC_Async ------------------------------
(* Model values and bounds for checking AsyncCommunicator with TLC. *)
EXTENDS AsyncCommunicator
=============================================================================
