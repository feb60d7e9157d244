--------------------------- MODULE MCTr50Mailbox ---------------------------
(* An instance of Tr50Mailbox for TLC. *)
EXTENDS Tr50Mailbox

CONSTANTS u1, x1, x2

OneUser == {u1}
TwoMail == {x1, x2}
=============================================================================
