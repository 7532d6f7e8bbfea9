---------------------------- MODULE MCFlowControl -----------------------------
(* TLC instance of FlowControl.                                            *)
EXTENDS FlowControl
=============================================================================
