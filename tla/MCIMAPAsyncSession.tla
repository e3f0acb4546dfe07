------------------------- MODULE MCIMAPAsyncSession -------------------------
(* Small instances of IMAPAsyncSession.                                    *)
EXTENDS IMAPAsyncSession
=============================================================================
