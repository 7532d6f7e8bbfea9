---------------------------- MODULE MCKeyUpdate ----------------------------
(* KeyUpdate on a small instance: the constants are in MCKeyUpdate.cfg.    *)
EXTENDS KeyUpdate
=============================================================================
