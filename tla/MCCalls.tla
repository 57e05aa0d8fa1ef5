------------------------------- MODULE MCCalls -------------------------------
(* Instance of Calls for TLC.                                              *)
EXTENDS Calls

MCClosureTaint == [f \in {"insecure"} |-> "addon"]
=============================================================================
