----------------------------- MODULE MCExchange -----------------------------
(* Two edits of two headers, one of which the transport may add itself.      *)
EXTENDS Exchange

MCEditNames == {"contact", "subject"}

=============================================================================
