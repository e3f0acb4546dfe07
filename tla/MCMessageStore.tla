--------------------------- MODULE MCMessageStore ---------------------------
(* A small instance of MessageStore: the digits of uid 5 occur in 15.      *)
EXTENDS MessageStore

MCUids == {5, 15}
MCOccurs == {<<5, 5>>, <<15, 15>>, <<5, 15>>}
=============================================================================
