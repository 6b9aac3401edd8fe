------------------------------- MODULE MC_Geo -------------------------------
(* Instantiates GeoCommunicator for TLC. *)
EXTENDS GeoCommunicator

\* Two splits of one row each: every id is a split boundary.
MCSections == <<1, 1>>
\* Three rows in two splits of heights 2 and 1.
MCSections3 == <<2, 1>>
\* One split of one row.
MCSections1 == <<1>>
=============================================================================
