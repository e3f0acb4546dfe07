---------------------------- MODULE MCIMAPSession ----------------------------
(* Small instances of IMAPSession.                                         *)
EXTENDS IMAPSession
=============================================================================
