-------------------------------- MODULE Mailbox --------------------------------
(***************************************************************************)
(* What storing and forwarding promises a recipient: one mailbox for each  *)
(* callsign, served in the order in which the messages came in.  Messages  *)
(* are numbered as they arrive.                                            *)
(***************************************************************************)
EXTENDS Integers, Sequences, Functions

CONSTANT Idents

VARIABLES arrived,   \* number of messages so far
          box,       \* callsign -> messages waiting for it
          received   \* callsign -> messages delivered to it, in order

mail == <<arrived, box, received>>

MailInit ==
    /\ arrived = 0
    /\ box = [id \in Idents |-> <<>>]
    /\ received = [id \in Idents |-> <<>>]

\* A message comes in.  What becomes of it is another step.
Arrive ==
    /\ arrived' = arrived + 1
    /\ UNCHANGED <<box, received>>

\* The latest message overtakes nothing: it goes past an empty box only.
Pass(id) ==
    /\ box[id] = <<>>
    /\ received' = [received EXCEPT ![id] = Append(@, arrived)]
    /\ UNCHANGED <<arrived, box>>

Keep(id) ==
    /\ box' = [box EXCEPT ![id] = Append(@, arrived)]
    /\ UNCHANGED <<arrived, received>>

Hand(id) ==
    /\ box[id] # <<>>
    /\ received' = [received EXCEPT ![id] = Append(@, Head(box[id]))]
    /\ box' = [box EXCEPT ![id] = Tail(@)]
    /\ UNCHANGED arrived

Expire(id) ==
    /\ box[id] # <<>>
    /\ box' = [box EXCEPT ![id] = Tail(@)]
    /\ UNCHANGED <<arrived, received>>

Settled(m) ==
    \E id \in Idents : m \in Range(box[id]) \cup Range(received[id])

MailNext ==
    \/ Arrive
    \/ \E id \in Idents :
          \/ arrived > 0 /\ ~Settled(arrived) /\ (Pass(id) \/ Keep(id))
          \/ Hand(id)
          \/ Expire(id)

MailSpec == MailInit /\ [][MailNext]_mail
=============================================================================
