------------------------------ MODULE Service -------------------------------
(***************************************************************************)
(* The service (src/service.go) and its callbacks (src/callback) over the  *)
(* transport layer of module Sending.  The transaction layer between       *)
(* them is reduced to what both see of it (module TxLayer has its inside): *)
(* it takes the messages of the transport layer until it is canceled,      *)
(* passes requests up, and after Close closes its channels and done.       *)
(* The goroutines of the service: start, one handleRequest per request     *)
(* that start received (handleResponse for a response does no more than    *)
(* Handled below), the callbacks these start, and callers of Close.        *)
(***************************************************************************)
EXTENDS Sending

CONSTANTS Closers  \* callers of Service.Close besides start

ASSUME ServiceAssumption ==
    /\ "start" \notin Closers
    /\ {"loop", "close", "wait"} \cap Sends = {}

VARIABLES
    txl,      \* the transaction layer: "open", "canceled", "done"
    req,      \* progress of each request; a Send answers it
    start,    \* progress of the service's loop: "loop", a request, "close", "wait"
    hwg,      \* service.hwg
    once,     \* who runs stop inside once.Do, or None
    stop,     \* progress of stop
    closer    \* progress of each caller of Close

svcVars == <<txl, req, start, hwg, once, stop, closer>>
vars == <<sending, svcVars>>

\* newService never makes the channel s.close: receiving from it blocks for
\* ever, and closing it panics.
Init ==
    /\ SendingInit
    /\ txl = "open"
    /\ req = [s \in Sends |-> "none"]
    /\ start = "loop" /\ hwg = 0
    /\ once = None /\ stop = "none"
    /\ closer = [k \in Closers |-> "none"]

-----------------------------------------------------------------------------
(* The transaction layer, as the service and the transport layer see it.   *)

\* It takes a message that the transport layer passes up: a request that
\* becomes a server transaction, or one that an existing transaction absorbs.
TxTakes(s) ==
    /\ Running /\ up = "msg" /\ txl = "open"
    /\ L!Take
    /\ \/ req[s] = "none" /\ req' = [req EXCEPT ![s] = "tx"]
       \/ UNCHANGED req
    /\ UNCHANGED <<tpVars, sendVars, proc, txl, start, hwg, once, stop, closer>>

\* Its handler gives the request to the service, or drops it once canceled.
TxPassesUp(s) ==
    /\ Running /\ req[s] = "tx"
    /\ \/ txl # "done" /\ start = "loop" /\ start' = s /\ req' = [req EXCEPT ![s] = "got"]
       \/ txl # "open" /\ req' = [req EXCEPT ![s] = "dropped"] /\ UNCHANGED start
    /\ UNCHANGED <<sending, txl, hwg, once, stop, closer>>

\* Its listener has waited for its transactions and closes the channels.
TxDone ==
    /\ Running /\ txl = "canceled"
    /\ txl' = "done"
    /\ UNCHANGED <<sending, req, start, hwg, once, stop, closer>>

-----------------------------------------------------------------------------
(* start and the handlers.                                                 *)

\* hwg.Add(1); go s.handleRequest(request), or handleResponse.
StartHandles(s) ==
    /\ Running /\ start = s
    /\ start' = "loop"
    /\ hwg' = hwg + 1
    /\ req' = [req EXCEPT ![s] = "handle"]
    /\ UNCHANGED <<sending, txl, once, stop, closer>>

\* A transport error is logged.
StartLogs ==
    /\ Running /\ start = "loop" /\ up = "err"
    /\ L!Take
    /\ UNCHANGED <<tpVars, sendVars, proc, svcVars>>

\* A closed channel of either layer ends the loop; the deferred call of Close
\* follows.
StartEnds ==
    /\ Running /\ start = "loop"
    /\ txl = "done" \/ phase = "closed"
    /\ start' = "close"
    /\ UNCHANGED <<sending, txl, req, hwg, once, stop, closer>>

\* DoRequest or DoResponse found a callback and started it in a goroutine of its
\* own: the handler returns.
Handled(s) ==
    /\ Running /\ req[s] = "handle"
    /\ req' = [req EXCEPT ![s] = "callback"]
    /\ hwg' = hwg - 1
    /\ UNCHANGED <<sending, txl, start, once, stop, closer>>

\* Mutant of NotAllowed: the transaction layer does not look at its cancel.
NotAllowed_NoCheck(s) ==
    /\ Running /\ req[s] = "handle"
    /\ \E m \in Messages : m.kind = "response" /\ SendCheck(s, m)
    /\ req' = [req EXCEPT ![s] = "send"]
    /\ UNCHANGED <<txl, start, hwg, once, stop, closer>>

\* No callback for the method: 405, by Send, whose transaction layer refuses it
\* after cancel.  handleRequest returns when Send has.
NotAllowed(s) ==
    /\ Running /\ req[s] = "handle"
    /\ \/ /\ txl # "open"
          /\ hwg' = hwg - 1 /\ req' = [req EXCEPT ![s] = "gone"]
          /\ UNCHANGED sending
       \/ /\ txl = "open"
          /\ \E m \in Messages : m.kind = "response" /\ SendCheck(s, m)
          /\ req' = [req EXCEPT ![s] = "send"] /\ UNCHANGED hwg
    /\ UNCHANGED <<txl, start, once, stop, closer>>

\* Mutant of NotAllowedDone: no hwg.Done on this path.
NotAllowedDone_NoDone(s) ==
    /\ Running /\ req[s] = "send" /\ snd[s] = "ended"
    /\ req' = [req EXCEPT ![s] = "gone"]
    /\ UNCHANGED <<sending, hwg, txl, start, once, stop, closer>>

NotAllowedDone(s) ==
    /\ Running /\ req[s] = "send" /\ snd[s] = "ended"
    /\ req' = [req EXCEPT ![s] = "gone"]
    /\ hwg' = hwg - 1
    /\ UNCHANGED <<sending, txl, start, once, stop, closer>>

\* A callback sends its response, or a request of its own.
CallbackSends(s) ==
    /\ Running /\ req[s] = "callback"
    /\ req' = [req EXCEPT ![s] = "gone"]
    /\ \/ txl = "open" /\ \E m \in Messages : SendCheck(s, m)
       \/ txl # "open" /\ UNCHANGED sending
    /\ UNCHANGED <<txl, start, hwg, once, stop, closer>>

-----------------------------------------------------------------------------
(* Close.                                                                  *)

\* once.Do(stop): the first caller runs stop, the others wait for it.
CloseBegins ==
    /\ Running /\ once = None
    /\ stop' = "tx"
    /\ \/ /\ start = "close" /\ start' = "wait" /\ once' = "start" /\ UNCHANGED closer
       \/ \E k \in Closers : /\ closer[k] = "none" /\ once' = k
                             /\ closer' = [closer EXCEPT ![k] = "wait"] /\ UNCHANGED start
    /\ UNCHANGED <<sending, txl, req, hwg>>

CloseWaits ==
    /\ Running /\ once # None
    /\ \/ start = "close" /\ start' = "wait" /\ UNCHANGED closer
       \/ \E k \in Closers : /\ closer[k] = "none"
                             /\ closer' = [closer EXCEPT ![k] = "wait"] /\ UNCHANGED start
    /\ UNCHANGED <<sending, txl, req, hwg, once, stop>>

\* s.opts.tx.Close()
StopTx ==
    /\ Running /\ stop = "tx"
    /\ stop' = "tp"
    /\ txl' = IF txl = "open" THEN "canceled" ELSE txl
    /\ UNCHANGED <<sending, req, start, hwg, once, closer>>

\* <-s.opts.tx.Done(); s.opts.tp.Close()
StopTp ==
    /\ Running /\ stop = "tp" /\ txl = "done"
    /\ stop' = "hwg"
    /\ L!Close /\ UNCHANGED <<tpVars, sendVars, proc>>
    /\ UNCHANGED <<txl, req, start, hwg, once, closer>>

\* Mutant of StopWait: Wait is left out.
StopWait_NoWait ==
    /\ Running /\ stop = "hwg" /\ phase = "closed"
    /\ stop' = "close"
    /\ UNCHANGED <<sending, txl, req, start, hwg, once, closer>>

\* <-s.opts.tp.Done(); s.hwg.Wait()
StopWait ==
    /\ Running /\ stop = "hwg" /\ phase = "closed" /\ hwg = 0
    /\ stop' = "close"
    /\ UNCHANGED <<sending, txl, req, start, hwg, once, closer>>

\* close(s.close), a nil channel.
StopClose ==
    /\ Running /\ stop = "close"
    /\ stop' = "panic"
    /\ proc' = "closeNil"
    /\ UNCHANGED <<layerVars, tpVars, sendVars, txl, req, start, hwg, once, closer>>

-----------------------------------------------------------------------------
ServiceSteps == StartEnds \/ StopTx \/ StopTp \/ StopWait \/ StopClose \/ TxDone

HandlerReturns(s) == Handled(s) \/ NotAllowed(s) \/ NotAllowedDone(s)

Next ==
    \/ SendingNext /\ UNCHANGED svcVars
    \/ \E s \in Sends : \/ TxTakes(s) \/ TxPassesUp(s) \/ StartHandles(s)
                        \/ HandlerReturns(s) \/ CallbackSends(s)
    \/ StartLogs \/ CloseBegins \/ CloseWaits \/ ServiceSteps

\* The service's goroutines and those of the layer run, a Send that has begun
\* goes on, and the transaction layer completes its Close (TxLayer:
\* CancelCompletes).
Fairness ==
    /\ WF_vars(ServiceSteps)
    /\ WF_sending(LayerFinishes) /\ WF_sending(LayerWithdraws)
    /\ \A n \in Nets : WF_sending(Notice(n)) /\ WF_sending(Release(n))
    /\ \A s \in Sends : /\ WF_vars(StartHandles(s)) /\ WF_vars(HandlerReturns(s))
                        /\ WF_sending(SendSteps(s))

Spec == Init /\ [][Next]_vars /\ Fairness

-----------------------------------------------------------------------------
(* Properties.                                                             *)

\* The type invariant.
TypeOK ==
    /\ phase \in {"open", "closing", "closed"} /\ up \in {"none", "msg", "err"}
    /\ made \subseteq Nets /\ noticed \subseteq Nets /\ udp \subseteq Ports
    /\ conn \in [Conns -> {"none", "dialed", "served", "dead", "lost", "closed"}]
    /\ peer \in [Conns -> Peers]
    /\ snd \in [Sends -> {"none", "try", "dial", "ended"}]
    /\ msg \in [Sends -> Messages \cup {None}]
    /\ dial \in [Sends -> Conns \cup {None}]
    /\ proc \in {"up", "nilConnection", "closeNil"}
    /\ txl \in {"open", "canceled", "done"}
    /\ req \in [Sends -> {"none", "tx", "got", "dropped", "handle", "send", "callback", "gone"}]
    /\ start \in {"loop", "close", "wait"} \cup Sends
    /\ hwg \in Nat
    /\ once \in Closers \cup {"start", None}
    /\ stop \in {"none", "tx", "tp", "hwg", "close", "panic"}
    /\ closer \in [Closers -> {"none", "wait"}]

\* When hwg.Wait has returned no handler is sending, not even that of a request
\* start had received and not added yet: the transaction layer refuses it.
QuietAfterStop == stop \in {"close", "panic"} => \A s \in Sends : req[s] # "send"

\* The types, with a wait group that never goes below zero, silence after stop,
\* and no request written to the nil connection of a protocol that has a port.
ServiceSound == TypeOK /\ QuietAfterStop /\ NilWithoutPort

\* hwg.Wait returns when every handler that was added has returned.  (A request
\* that start has received and not added yet is handled after it, and a callback
\* runs in a goroutine that hwg does not count.)
HandlersWaited ==
    [][stop = "hwg" /\ stop' = "close" =>
         \A s \in Sends : req[s] \notin {"handle", "send"}]_vars

\* Close ends, whoever calls it, however many others do, and whatever requests,
\* sends and messages are on their way: with both layers done it reaches the
\* close of s.close.  Nobody returns from it: that channel is nil.
StopCompletes ==
    once # None ~> \/ proc = "nilConnection"
                   \/ proc = "closeNil" /\ txl = "done" /\ phase = "closed" /\ made = {}

=============================================================================
