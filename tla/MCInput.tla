------------------------------ MODULE MCInput -------------------------------
(* Small keyboards for Input.                                              *)
EXTENDS Input
=============================================================================
