------------------------------- MODULE MCInbox -------------------------------
(* A small instance of Inbox.                                              *)
EXTENDS Inbox
=============================================================================
