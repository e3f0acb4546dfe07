----------------------------- MODULE MCIndexSet -----------------------------
(* Small instances of IndexSet.                                            *)
EXTENDS IndexSet
=============================================================================
