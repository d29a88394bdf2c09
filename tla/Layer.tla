------------------------------- MODULE Layer --------------------------------
(***************************************************************************)
(* What a layer promises to the one above (the interface Layer of          *)
(* src/transport/transport.go): it offers messages and errors one at a     *)
(* time, in either phase before its end; Close asks it to end; it ends     *)
(* (Done) only after Close, and with nothing on offer, and offers nothing  *)
(* afterwards.                                                             *)
(***************************************************************************)
VARIABLES phase,  \* "open", "closing", "closed"
          up      \* "none", or the message ("msg") or error ("err") on offer

vars == <<phase, up>>

Init == phase = "open" /\ up = "none"

Offer ==
    /\ phase # "closed" /\ up = "none"
    /\ up' \in {"msg", "err"}
    /\ UNCHANGED phase

\* The layer above takes the offer, or the layer withdraws it while it closes.
Take ==
    /\ up # "none"
    /\ up' = "none"
    /\ UNCHANGED phase

Close ==
    /\ phase = "open"
    /\ phase' = "closing"
    /\ UNCHANGED up

Finish ==
    /\ phase = "closing" /\ up = "none"
    /\ phase' = "closed"
    /\ UNCHANGED up

Next == Offer \/ Take \/ Close \/ Finish

Spec == Init /\ [][Next]_vars

=============================================================================
