-------------------------- MODULE MCOperationQueue --------------------------
(* Small instances of OperationQueue.                                      *)
EXTENDS OperationQueue
=============================================================================
