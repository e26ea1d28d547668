------------------------------ MODULE UidMailbox -----------------------------
(***************************************************************************)
(* What an IMAP client may rely on of one mailbox name, and all it may     *)
(* rely on: the mailbox grows under its UIDVALIDITY, starts again under    *)
(* the next one, goes away, or comes back.  MailboxSync implements it for  *)
(* every branch; the sessions of ImapSession live on top of it.            *)
(*                                                                         *)
(* It does not promise that a mailbox which comes back has a UIDVALIDITY   *)
(* the name never had: ReplaceMailboxes takes the clock for a new row.     *)
(***************************************************************************)
EXTENDS Naturals, Sequences

CONSTANTS
  Mails,       \* what a mailbox may hold: sequences of messages, by uid
  Validities,  \* the UIDVALIDITYs a new mailbox may get
  None         \* no mailbox of this name

VARIABLE box   \* the mailbox, or None

\* Every message of old is in new under the uid it had.
Continues(old, new) ==
  Len(old) <= Len(new) /\ \A u \in 1 .. Len(old) : new[u] = old[u]

Boxes(validities) == [validity : validities, msgs : Mails]

Init == box = None

Create == box = None /\ box' \in Boxes(Validities)

Extend ==
  /\ box # None
  /\ box' \in Boxes({box.validity})
  /\ Continues(box.msgs, box'.msgs)

Rebuild == box # None /\ box' \in Boxes({box.validity + 1})

Drop == box # None /\ box' = None

Next == Create \/ Extend \/ Rebuild \/ Drop

Step == [Next]_box

Spec == Init /\ [][Step]_box
=============================================================================
