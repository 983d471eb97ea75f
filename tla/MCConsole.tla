------------------------------ MODULE MCConsole ------------------------------
(* Instances of Console for TLC. *)
EXTENDS Console

MCBoot == [watched |-> 1, other |-> 1]
MCSessions == {{"config"}, {"sender"}, {"tests", "shutdown"}}
=============================================================================
