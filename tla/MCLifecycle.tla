---------------------------- MODULE MCLifecycle ----------------------------
(* Instances of Lifecycle: the configurations choose the start calls and    *)
(* which of them are daemonized.                                            *)
EXTENDS Lifecycle
=============================================================================
