---------------------------- MODULE MessageStream ----------------------------
(***************************************************************************)
(* What a parser promises its connection handler: the results it sends are *)
(* those a reader of the whole input would name, in their order, however   *)
(* the input was cut into Write calls and whenever it is stopped; only a   *)
(* parser that is stopped may report one last result for the message it    *)
(* was in the middle of.                                                   *)
(***************************************************************************)
EXTENDS Naturals, Sequences

CONSTANTS Reference(_, _),  \* the results of an input, over a stream or not
          Trusted(_, _)     \* inputs the promise is made for

VARIABLES streamed, \* the input is one stream of bytes; fixed
          fed,      \* the input accepted so far
          got,      \* the results sent so far
          stopped

streamVars == <<streamed, fed, got, stopped>>

Init == streamed \in BOOLEAN /\ fed = <<>> /\ got = <<>> /\ stopped = FALSE

Accept ==
    /\ ~stopped
    /\ \E n \in 1 .. Len(fed') : fed = SubSeq(fed', 1, Len(fed') - n)
    /\ UNCHANGED <<streamed, got, stopped>>

Deliver ==
    /\ Len(got') = Len(got) + 1 /\ got = SubSeq(got', 1, Len(got))
    /\ LET ref == Reference(streamed, fed)
           n   == Len(got') IN
         Trusted(streamed, fed) => \/ n <= Len(ref) /\ got'[n] = ref[n]
                                   \/ stopped /\ n = Len(ref) + 1
    /\ UNCHANGED <<streamed, fed, stopped>>

Stop == stopped' = TRUE /\ UNCHANGED <<streamed, fed, got>>

Next == Accept \/ Deliver \/ Stop

Spec == Init /\ [][Next]_streamVars

=============================================================================
