----------------------------- MODULE MCSessions -----------------------------
(* Three answers: an INVITE, a re-INVITE or a BYE of either party.           *)
EXTENDS Sessions

CONSTANTS a1, a2, a3

MCAnswers == {a1, a2, a3}

=============================================================================
