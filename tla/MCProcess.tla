----------------------------- MODULE MCProcess -----------------------------
(* Small instances of Process for TLC. *)
EXTENDS Process

MCQuantum == [p \in Levels |-> 1]
=============================================================================
