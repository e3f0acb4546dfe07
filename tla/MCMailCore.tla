----------------------------- MODULE MCMailCore -----------------------------
(***************************************************************************)
(* The parts of the mail engine that work alone: the sets of indexes, the  *)
(* SMTP and the POP session, and IDLE on an IMAP connection.  They share   *)
(* no state, so each behaviour runs one of them, which the initial state   *)
(* chooses, and leaves the others where they begin.                        *)
(***************************************************************************)
EXTENDS IndexSet

CONSTANTS Messages, NoMessage, Ops, None

VARIABLES
  part,
  popWorld, popLast, client,
  smtpWorld, smtpLast,
  state, at, current, setup, imap, canIdle, drop, pipe, asked, how

popVars  == <<popWorld, popLast, client>>
smtpVars == <<smtpWorld, smtpLast>>
idleVars == <<state, at, current, setup, imap, canIdle, drop, pipe, asked, how>>
setVars  == vars
all == <<part, popVars, smtpVars, idleVars, setVars>>

Pop  == INSTANCE POPSession WITH world <- popWorld, last <- popLast
Smtp == INSTANCE SMTPSession WITH world <- smtpWorld, last <- smtpLast
Idle == INSTANCE IMAPIdle

ASSUME MailAssumption == Pop!MessagesAssumption

\* A part that does not run begins in one way.
MailInit ==
  /\ part \in {"pop", "smtp", "idle", "set"}
  /\ Pop!Init /\ Smtp!Init /\ Idle!Init /\ Init
  /\ part # "smtp" => smtpWorld.cred

PopAlone  == part = "pop" /\ UNCHANGED <<part, smtpVars, idleVars, setVars>>
SmtpAlone == part = "smtp" /\ UNCHANGED <<part, popVars, idleVars, setVars>>
IdleAlone == part = "idle" /\ UNCHANGED <<part, popVars, smtpVars, setVars>>
SetAlone  == part = "set" /\ UNCHANGED <<part, popVars, smtpVars, idleVars>>

MailNext ==
  \/ PopAlone /\ Pop!Next
  \/ SmtpAlone /\ Smtp!Next
  \/ IdleAlone /\ Idle!Next
  \/ SetAlone /\ Next

\* A client that goes on disconnecting and listing, and sending; the two
\* threads of an IDLE, but not the server's news.
MailSpec ==
  /\ MailInit /\ [][MailNext]_all
  /\ WF_all(PopAlone /\ Pop!Run("delete", {}))
  /\ WF_all(PopAlone /\ Pop!Run("list", {}))
  /\ WF_all(SmtpAlone /\ Smtp!Send)
  /\ WF_all(IdleAlone /\ Idle!Thread)

-----------------------------------------------------------------------------
(* The properties, each stated in the module of its part.                  *)

MailTypeOK == Pop!TypeOK /\ Smtp!TypeOK /\ Idle!TypeOK /\ TypeOK

IndexIsReference == Pop!IndexIsReference

OnlyAskedIsRemoved == Pop!OnlyAskedIsRemoved

ListSucceeds == Pop!ListSucceeds

SentAsReported == Smtp!SentAsReported

SendSucceeds == Smtp!SendSucceeds

IdleStreamExists == Idle!IdleStreamExists

InterruptIsOwn == Idle!InterruptIsOwn

InterruptEndsIdle == Idle!InterruptEndsIdle
=============================================================================
