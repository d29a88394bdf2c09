----------------------------- MODULE ElasticChan -----------------------------
(***************************************************************************)
(* utils.ElasticChan (src/utils/elasticchan.go): two bounded Go channels,  *)
(* In and Out, and a goroutine (manage) that moves elements from one to    *)
(* the other through a slice.  The parser queues the body lengths of       *)
(* datagrams in one of these; the module has no Next of its own, its       *)
(* actions are steps of Parser.                                            *)
(***************************************************************************)
EXTENDS Naturals, Sequences

CONSTANTS ChanSize,  \* cElasticChanSize, the capacity of In and of Out
          Values     \* what is sent

VARIABLES in,      \* content of In
          buffer,  \* c.buffer
          out,     \* content of Out
          closed,  \* In is closed
          mgr      \* manage: "idle" (not started), "loop", "dispose", "done"

chanVars == <<in, buffer, out, closed, mgr>>

\* Init, and Run if the channel is used at all.
ChanInit(run) ==
    /\ in = <<>> /\ buffer = <<>> /\ out = <<>>
    /\ closed = FALSE
    /\ mgr = IF run THEN "loop" ELSE "idle"

\* c.In <- v, and <-c.Out, by the users of the channel.
Send(v) ==
    /\ ~closed /\ Len(in) < ChanSize
    /\ in' = Append(in, v)
    /\ UNCHANGED <<buffer, out, closed, mgr>>

Receive ==
    /\ out # <<>>
    /\ out' = Tail(out)
    /\ UNCHANGED <<in, buffer, closed, mgr>>

\* Stop closes In; it returns once manage is done.
Stop ==
    /\ closed' = TRUE
    /\ UNCHANGED <<in, buffer, out, mgr>>

\* manage receives from In first ...
ManageReceive ==
    /\ mgr = "loop" /\ in # <<>>
    /\ buffer' = Append(buffer, Head(in))
    /\ in' = Tail(in)
    /\ UNCHANGED <<out, closed, mgr>>

\* Mutant of ManageSend: it sends the newest element.
ManageSend_Newest ==
    /\ mgr = "loop" /\ buffer # <<>> /\ Len(out) < ChanSize
    /\ out' = Append(out, buffer[Len(buffer)])
    /\ buffer' = SubSeq(buffer, 1, Len(buffer) - 1)
    /\ UNCHANGED <<in, closed, mgr>>

\* ... or sends its oldest element to Out.
ManageSend ==
    /\ mgr = "loop" /\ buffer # <<>> /\ Len(out) < ChanSize
    /\ out' = Append(out, Head(buffer))
    /\ buffer' = Tail(buffer)
    /\ UNCHANGED <<in, closed, mgr>>

\* In is closed and drained: the loop ends and dispose empties the buffer.
\* While Out is full dispose spins in its default case.
ManageClosed ==
    /\ mgr = "loop" /\ closed /\ in = <<>>
    /\ mgr' = "dispose"
    /\ UNCHANGED <<in, buffer, out, closed>>

Dispose ==
    /\ mgr = "dispose"
    /\ \/ /\ buffer # <<>> /\ Len(out) < ChanSize
          /\ out' = Append(out, Head(buffer))
          /\ buffer' = Tail(buffer)
          /\ UNCHANGED mgr
       \/ /\ buffer = <<>> /\ mgr' = "done"
          /\ UNCHANGED <<buffer, out>>
    /\ UNCHANGED <<in, closed>>

Manage == ManageReceive \/ ManageSend \/ ManageClosed \/ Dispose

-----------------------------------------------------------------------------
(* Its promise: what is inside, oldest first, is a FIFO queue.             *)

Content == out \o buffer \o in

Queue == INSTANCE Fifo WITH q <- Content

\* Whatever the three stages hold and whoever moves, elements leave in the
\* order they were sent, none lost or doubled (elasticchan.go: manage, dispose).
ImplementsFifo == Queue!Spec

=============================================================================
