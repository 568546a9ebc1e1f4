---------------------------- MODULE MCStoreForward ----------------------------
(* StoreForward on a small instance. *)
EXTENDS StoreMailbox

CONSTANTS t1, w1, ac1, atc1

MCMixed == {t1, w1}
MCLws == {w1}
MCIdents == {ac1, atc1}

Pilot == [id |-> ac1, is_atc |-> FALSE, to |-> atc1]
Controller == [id |-> atc1, is_atc |-> TRUE, to |-> NoIdent]
MCLogons == {Pilot, Controller}
\* A controller may also use the pilot's callsign, and have a default TO=.
MCManyLogons == {Pilot, Controller, [id |-> ac1, is_atc |-> TRUE, to |-> ac1]}

Down(to, bytes) == [kind |-> "text", dl |-> TRUE, to |-> to, from |-> NoIdent,
                    bytes |-> bytes]
Up(kind, from, bytes) == [kind |-> kind, dl |-> FALSE, to |-> ac1, from |-> from,
                          bytes |-> bytes]
NotCda == [kind |-> "not_cda", dl |-> TRUE, to |-> atc1, from |-> ac1, bytes |-> 1]

\* Small and large messages both ways, with and without TO= and FROM=.
MCInputs == {Down(NoIdent, 1), Down(atc1, 2), Up("text", NoIdent, 1),
             Up("text", AUTO, 2), Up("end_svc", atc1, 1), NotCda,
             [Up("text", atc1, 1) EXCEPT !.to = NoIdent]}
MCFewInputs == {Down(NoIdent, 1), Up("end_svc", NoIdent, 2)}
=============================================================================
