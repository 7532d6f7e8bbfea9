------------------------ MODULE MCProfileComposition ------------------------
(* ProfileComposition on a small instance: the constants are in the .cfg.  *)
EXTENDS ProfileComposition

BothWorkloads == <<"pubsub", "recovery">>
=============================================================================
