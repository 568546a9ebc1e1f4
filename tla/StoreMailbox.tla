---------------------------- MODULE StoreMailbox ----------------------------
(***************************************************************************)
(* The mailboxes (module Mailbox) that StoreForward's queue stands for.    *)
(***************************************************************************)
EXTENDS StoreForward

Mail == INSTANCE Mailbox WITH arrived  <- count,
                              box      <- [id \in Idents |-> MailboxOf(id)],
                              received <- [id \in Idents |-> Ids(got[id])]

\* Without a router, the server is one mailbox per callsign: messages reach
\* a callsign in the order they came in, whether they were stored or not.
ServesMailboxes == Mail!MailSpec

\* Without a router, messages reach a callsign in the order they came in,
\* and none that still waits for it is older than one it has received.
InOrderOfArrival ==
    ~Routed => \A id \in Idents :
        LET waiting == MailboxOf(id)
            had == Ids(got[id])
        IN  /\ \A i, j \in DOMAIN had : i < j => had[i] < had[j]
            /\ \A i \in DOMAIN had, j \in DOMAIN waiting : had[i] < waiting[j]
=============================================================================
