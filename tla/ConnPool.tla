------------------------------ MODULE ConnPool ------------------------------
(***************************************************************************)
(* The connection pool of a protocol (src/transport/connection_pool.go)    *)
(* and the handlers of its connections (connection_handler.go), with the   *)
(* goroutines that run at the same time:                                   *)
(*   - one caller of Put per connection (a sender that dialed, or the      *)
(*     goroutine that takes accepted connections), and a caller of Del;    *)
(*   - per connection ConnectionServer, the reader it starts, and the      *)
(*     goroutine of the reader's parser;                                   *)
(*   - ListenHandlers, which passes messages and errors up, and releases   *)
(*     the pool when it is canceled.                                       *)
(* The channels between them are unbuffered: a send and its receive are    *)
(* one step of both.  Only the flow of messages is modelled, not their     *)
(* content.                                                                *)
(***************************************************************************)
EXTENDS Naturals, FiniteSets

CONSTANTS Conns,    \* connections, each put once and with a handler of its own
          Keys,     \* connection keys
          NoConn,   \* no entry in the map
          Expires   \* TRUE: Put with SockTTL (TCP), FALSE: Put with ttl 0 (UDP)

ASSUME ConnPoolAssumption ==
    /\ NoConn \notin Conns
    /\ Expires \in BOOLEAN

VARIABLES
    cancel,     \* pool.cancel is closed
    listener,   \* progress of ListenHandlers and release
    wg,         \* handleWg
    handleMap,  \* key -> handler, named by its connection
    key,        \* the key of each connection
    put,        \* progress of each Put
    late,       \* handlers put after delAll, or served after the channels closed
    del,        \* the handler Del closed and is going to remove, or NoConn
    closed,     \* the handler's cancel channel and its connection are closed
    srv,        \* progress of each ConnectionServer
    rdr,        \* progress of each reader
    prs,        \* progress of each parser goroutine
    armed,      \* expiry timers that are going to fire
    tick,       \* expiry timers with a tick in their channel
    proc        \* "up", or the panic that took the process down

vars == <<cancel, listener, wg, handleMap, key, put, late, del, closed, srv, rdr, prs,
          armed, tick, proc>>

poolVars == <<cancel, listener>>
putVars  == <<key, put, late>>
timeVars == <<armed, tick>>

Init ==
    /\ cancel = FALSE /\ listener = "loop" /\ wg = 0
    /\ handleMap = [k \in Keys |-> NoConn]
    /\ key \in [Conns -> Keys]
    /\ put = [c \in Conns |-> "none"]
    /\ late = [c \in Conns |-> "no"]
    /\ del = NoConn
    /\ closed = [c \in Conns |-> FALSE]
    /\ srv = [c \in Conns |-> "none"]
    /\ rdr = [c \in Conns |-> "none"]
    /\ prs = [c \in Conns |-> "none"]
    /\ armed = {} /\ tick = {}
    /\ proc = "up"

Running  == proc = "up"
Released == listener = "done"

-----------------------------------------------------------------------------
(* Put.                                                                    *)

PutCheck(c) ==
    /\ Running /\ put[c] = "none"
    /\ put' = [put EXCEPT ![c] = IF cancel THEN "refused" ELSE "get"]
    /\ UNCHANGED <<poolVars, wg, handleMap, key, late, del, closed, srv, rdr, prs,
                   timeVars, proc>>

PutGet(c) ==
    /\ Running /\ put[c] = "get"
    /\ put' = [put EXCEPT ![c] = IF handleMap[key[c]] = NoConn THEN "set" ELSE "refused"]
    /\ UNCHANGED <<poolVars, wg, handleMap, key, late, del, closed, srv, rdr, prs,
                   timeVars, proc>>

\* CreateConnectionHandler, and the entry.  Without ttl the timer is made with
\* a zero period and stopped at once; it may have fired in between.
PutSet(c) ==
    /\ Running /\ put[c] = "set"
    /\ handleMap' = [handleMap EXCEPT ![key[c]] = c]
    /\ put' = [put EXCEPT ![c] = "serve"]
    /\ late' = [late EXCEPT ![c] = IF listener \in {"wait", "done"} THEN "set" ELSE "no"]
    /\ IF Expires THEN armed' = armed \cup {c} /\ UNCHANGED tick
                  ELSE tick' \in {tick, tick \cup {c}} /\ UNCHANGED armed
    /\ UNCHANGED <<poolVars, wg, key, del, closed, srv, rdr, prs, proc>>

\* handleWg.Add(1); go handle.ConnectionServer(handleWg.Done), which creates
\* the parser and starts the reader.
PutServe(c) ==
    /\ Running /\ put[c] = "serve"
    /\ put' = [put EXCEPT ![c] = "ok"]
    /\ wg' = wg + 1
    /\ srv' = [srv EXCEPT ![c] = "loop"]
    /\ rdr' = [rdr EXCEPT ![c] = "read"]
    /\ prs' = [prs EXCEPT ![c] = "idle"]
    /\ late' = [late EXCEPT ![c] = IF Released THEN "served" ELSE @]
    /\ UNCHANGED <<poolVars, handleMap, key, del, closed, timeVars, proc>>

-----------------------------------------------------------------------------
(* Del and DelAll.                                                         *)

\* handler.Close() for a set of handlers; closing twice does nothing.
CloseAll(cs) == closed' = [c \in Conns |-> closed[c] \/ c \in cs]

Del(k) ==
    /\ Running /\ ~cancel /\ del = NoConn /\ handleMap[k] # NoConn
    /\ del' = handleMap[k]
    /\ CloseAll({handleMap[k]})
    /\ UNCHANGED <<poolVars, wg, handleMap, putVars, srv, rdr, prs, timeVars, proc>>

\* delete(handleMap, key), whatever is stored there by now.
DelDelete ==
    /\ Running /\ del # NoConn
    /\ del' = NoConn
    /\ handleMap' = [handleMap EXCEPT ![key[del]] = NoConn]
    /\ UNCHANGED <<poolVars, wg, putVars, closed, srv, rdr, prs, timeVars, proc>>

\* Mutant of delAll: the entries are dropped, their handlers stay open.
delAll_NoClose ==
    /\ UNCHANGED closed
    /\ handleMap' = [k \in Keys |-> NoConn]

delAll ==
    /\ CloseAll({handleMap[k] : k \in Keys})
    /\ handleMap' = [k \in Keys |-> NoConn]

DelAll ==
    /\ Running /\ ~cancel
    /\ delAll
    /\ UNCHANGED <<poolVars, wg, putVars, del, srv, rdr, prs, timeVars, proc>>

-----------------------------------------------------------------------------
(* ListenHandlers and release.                                             *)

\* notifyCancel is closed, and pool.cancel with it.
Cancel ==
    /\ Running /\ ~cancel
    /\ cancel' = TRUE
    /\ UNCHANGED <<listener, wg, handleMap, putVars, del, closed, srv, rdr, prs,
                   timeVars, proc>>

\* The layer above takes the message or the error.
ListenerPasses ==
    /\ Running /\ listener = "pass"
    /\ listener' = "loop"
    /\ UNCHANGED <<cancel, wg, handleMap, putVars, del, closed, srv, rdr, prs,
                   timeVars, proc>>

ListenerCanceled ==
    /\ Running /\ cancel /\ listener \in {"loop", "pass"}
    /\ listener' = "release"
    /\ UNCHANGED <<cancel, wg, handleMap, putVars, del, closed, srv, rdr, prs,
                   timeVars, proc>>

ReleaseDelAll ==
    /\ Running /\ listener = "release"
    /\ listener' = "wait"
    /\ delAll
    /\ UNCHANGED <<cancel, wg, putVars, del, srv, rdr, prs, timeVars, proc>>

\* Mutant of ReleaseClose: it does not wait for the handlers.
ReleaseClose_NoWait ==
    /\ Running /\ listener = "wait"
    /\ listener' = "done"
    /\ UNCHANGED <<cancel, wg, handleMap, putVars, del, closed, srv, rdr, prs,
                   timeVars, proc>>

\* handleWg.Wait(), then listenMessage, listenError and done are closed.
ReleaseClose ==
    /\ Running /\ listener = "wait" /\ wg = 0
    /\ listener' = "done"
    /\ UNCHANGED <<cancel, wg, handleMap, putVars, del, closed, srv, rdr, prs,
                   timeVars, proc>>

-----------------------------------------------------------------------------
(* ConnectionServer.                                                       *)

Passing == {"passMsg", "passErr", "passExpiry"}

ServerStops(c) ==
    /\ srv' = [srv EXCEPT ![c] = "gone"]
    /\ wg' = wg - 1

\* Mutant of ServerCanceled: a send to the pool does not look at cancel.
ServerCanceled_LoopOnly(c) ==
    /\ Running /\ closed[c] /\ srv[c] = "loop"
    /\ ServerStops(c)
    /\ UNCHANGED <<poolVars, handleMap, putVars, del, closed, rdr, prs, timeVars, proc>>

\* The case <-handler.cancel of the loop and of every send to the pool.
ServerCanceled(c) ==
    /\ Running /\ closed[c] /\ srv[c] \in {"loop"} \cup Passing
    /\ ServerStops(c)
    /\ UNCHANGED <<poolVars, handleMap, putVars, del, closed, rdr, prs, timeVars, proc>>

\* message and readError are closed.
ServerEOF(c) ==
    /\ Running /\ srv[c] = "loop" /\ rdr[c] = "gone"
    /\ ServerStops(c)
    /\ UNCHANGED <<poolVars, handleMap, putVars, del, closed, rdr, prs, timeVars, proc>>

ServerExpiry(c) ==
    /\ Running /\ srv[c] = "loop" /\ c \in tick
    /\ tick' = tick \ {c}
    /\ srv' = [srv EXCEPT ![c] = "passExpiry"]
    /\ UNCHANGED <<poolVars, wg, handleMap, putVars, del, closed, rdr, prs, armed, proc>>

\* The pool takes what the server holds; a message renews the expiry, which
\* does not take an old tick out of the timer's channel.
ServerPasses(c) ==
    /\ Running /\ srv[c] \in Passing /\ listener = "loop"
    /\ listener' = "pass"
    /\ srv' = [srv EXCEPT ![c] = "loop"]
    /\ armed' = IF srv[c] = "passMsg" /\ Expires THEN armed \cup {c} ELSE armed
    /\ UNCHANGED <<cancel, wg, handleMap, putVars, del, closed, rdr, prs, tick, proc>>

\* The pool's channels are closed: the send of the select panics if chosen.
ServerPanics(c) ==
    /\ Running /\ srv[c] \in Passing /\ Released
    /\ proc' = "sendOnClosed"
    /\ UNCHANGED <<poolVars, wg, handleMap, putVars, del, closed, srv, rdr, prs, timeVars>>

ExpiryFires(c) ==
    /\ Running /\ c \in armed
    /\ armed' = armed \ {c}
    /\ tick' = tick \cup {c}
    /\ UNCHANGED <<poolVars, wg, handleMap, putVars, del, closed, srv, rdr, prs, proc>>

-----------------------------------------------------------------------------
(* The reader and its parser.                                              *)

\* Data arrives; the reader is in prs.Write until the parser has taken it.
Read(c) ==
    /\ Running /\ rdr[c] = "read" /\ ~closed[c]
    /\ rdr' = [rdr EXCEPT ![c] = "write"]
    /\ UNCHANGED <<poolVars, wg, handleMap, putVars, del, closed, srv, prs, timeVars, proc>>

\* The parser takes data: all of it or not, and it completes a message, is
\* found to be no message, or is not enough yet.
Parse(c) ==
    /\ Running /\ rdr[c] = "write" /\ prs[c] \in {"idle", "partial"}
    /\ rdr' \in {rdr, [rdr EXCEPT ![c] = "read"]}
    /\ prs' \in {[prs EXCEPT ![c] = p] : p \in {"partial", "output", "errs"}}
    /\ UNCHANGED <<poolVars, wg, handleMap, putVars, del, closed, srv, timeVars, proc>>

\* p.output <- msg or p.errs <- err, received by ConnectionServer.
Emit(c) ==
    /\ Running /\ prs[c] \in {"output", "errs"} /\ srv[c] = "loop"
    /\ srv' = [srv EXCEPT ![c] = IF prs[c] = "output" THEN "passMsg" ELSE "passErr"]
    /\ prs' = [prs EXCEPT ![c] = "idle"]
    /\ UNCHANGED <<poolVars, wg, handleMap, putVars, del, closed, rdr, timeVars, proc>>

\* A broken connection, or one that was closed.
ReadFails(c) ==
    /\ Running /\ rdr[c] = "read"
    /\ rdr' = [rdr EXCEPT ![c] = "readError"]
    /\ UNCHANGED <<poolVars, wg, handleMap, putVars, del, closed, srv, prs, timeVars, proc>>

\* select { <-handler.cancel; readError <- err }.
ReadErrorSent(c) ==
    /\ Running /\ rdr[c] = "readError"
    /\ \/ closed[c] /\ UNCHANGED srv
       \/ srv[c] = "loop" /\ srv' = [srv EXCEPT ![c] = "passErr"]
    /\ rdr' = [rdr EXCEPT ![c] = "close"]
    /\ UNCHANGED <<poolVars, wg, handleMap, putVars, del, closed, prs, timeVars, proc>>

\* Mutant of ReaderCloses: the deferred function leaves the handler open.
ReaderCloses_NotHandler(c) ==
    /\ Running /\ rdr[c] = "close"
    /\ rdr' = [rdr EXCEPT ![c] = "stop"]
    /\ UNCHANGED <<poolVars, wg, handleMap, putVars, del, closed, srv, prs, timeVars, proc>>

\* The reader's deferred function: handler.Close() ...
ReaderCloses(c) ==
    /\ Running /\ rdr[c] = "close"
    /\ CloseAll({c})
    /\ rdr' = [rdr EXCEPT ![c] = "stop"]
    /\ UNCHANGED <<poolVars, wg, handleMap, putVars, del, srv, prs, timeVars, proc>>

\* ... prs.Stop(), which waits for the parser goroutine (it notices when it
\* reads its input again), and the channels are closed.
ReaderStops(c) ==
    /\ Running /\ rdr[c] = "stop" /\ prs[c] = "idle"
    /\ rdr' = [rdr EXCEPT ![c] = "gone"]
    /\ prs' = [prs EXCEPT ![c] = "gone"]
    /\ UNCHANGED <<poolVars, wg, handleMap, putVars, del, closed, srv, timeVars, proc>>

\* A parser that is stopped inside a message passes up an error or what it has
\* of it; in the start line it just returns.
StopFlushes(c) ==
    /\ Running /\ rdr[c] = "stop" /\ prs[c] = "partial"
    /\ prs' \in {[prs EXCEPT ![c] = p] : p \in {"idle", "output", "errs"}}
    /\ UNCHANGED <<poolVars, wg, handleMap, putVars, del, closed, srv, rdr, timeVars, proc>>

-----------------------------------------------------------------------------
Put(c) == PutCheck(c) \/ PutGet(c) \/ PutSet(c) \/ PutServe(c)

ListenerSteps == ListenerPasses \/ ListenerCanceled \/ ReleaseDelAll \/ ReleaseClose

ServerSteps(c) == \/ ServerCanceled(c) \/ ServerEOF(c) \/ ServerExpiry(c)
                  \/ ServerPasses(c) \/ ServerPanics(c)

ReaderSteps(c) == \/ Parse(c) \/ Emit(c) \/ ReadErrorSent(c) \/ ReaderCloses(c)
                  \/ StopFlushes(c) \/ ReaderStops(c)

Next ==
    \/ \E c \in Conns : \/ Put(c) \/ ServerSteps(c) \/ ExpiryFires(c)
                        \/ Read(c) \/ ReadFails(c) \/ ReaderSteps(c)
    \/ \E k \in Keys : Del(k)
    \/ DelDelete \/ DelAll \/ Cancel \/ ListenerSteps

\* The pool's goroutine releases the pool once it is canceled, the goroutines
\* of each handler run, a server's select takes a cancel that stays ready (it
\* chooses at random), and a read on a closed connection fails.  Nothing is
\* assumed of the network, of the layer above, or of who calls Put and Del.
Fairness ==
    /\ WF_vars(ListenerCanceled) /\ WF_vars(ReleaseDelAll) /\ WF_vars(ReleaseClose)
    /\ \A c \in Conns : /\ WF_vars(ServerSteps(c)) /\ WF_vars(ReaderSteps(c))
                        /\ WF_vars(ServerCanceled(c)) /\ WF_vars(closed[c] /\ ReadFails(c))

Spec == Init /\ [][Next]_vars /\ Fairness

-----------------------------------------------------------------------------
(* Properties.                                                             *)

\* The type invariant.
TypeOK ==
    /\ cancel \in BOOLEAN
    /\ listener \in {"loop", "pass", "release", "wait", "done"}
    /\ wg \in Nat
    /\ handleMap \in [Keys -> Conns \cup {NoConn}]
    /\ key \in [Conns -> Keys]
    /\ put \in [Conns -> {"none", "get", "set", "serve", "ok", "refused"}]
    /\ late \in [Conns -> {"no", "set", "served"}]
    /\ del \in Conns \cup {NoConn}
    /\ closed \in [Conns -> BOOLEAN]
    /\ srv \in [Conns -> {"none", "loop", "gone"} \cup Passing]
    /\ rdr \in [Conns -> {"none", "read", "write", "readError", "close", "stop", "gone"}]
    /\ prs \in [Conns -> {"none", "idle", "partial", "output", "errs", "gone"}]
    /\ armed \subseteq Conns /\ tick \subseteq Conns
    /\ proc \in {"up", "sendOnClosed"}

Serving(c) == srv[c] \in {"loop"} \cup Passing

\* When the pool's channels are closed every handler has returned, except one
\* whose Put checked cancel before and started it after that; only such a
\* handler can send on a closed channel.
ClosedAfterHandlers ==
    /\ Released => \A c \in Conns : Serving(c) => late[c] = "served"
    /\ ~Running => \E c \in Conns : late[c] = "served"

\* release closes every handler that is still served, unless its entry was
\* set after delAll, or another connection was put under the same key at the
\* same time and one of them lost its entry.
ReleaseReachesAll ==
    listener \in {"wait", "done"} =>
      \A c \in Conns : Serving(c) /\ ~closed[c] =>
        \/ late[c] # "no"
        \/ \E d \in Conns \ {c} : key[d] = key[c] /\ put[d] \in {"serve", "ok"}

\* A handler that is not closed by anybody keeps its connection open for
\* senders: the server returns only after Close, by Del, by release or by the
\* reader at the end of its connection.
ServedUntilClosed ==
    \A c \in Conns : srv[c] = "gone" => closed[c]

\* The types, with a wait group that never goes below zero, and no server that
\* returned while its handler was open.
HandlersSound == TypeOK /\ ServedUntilClosed

\* release is waiting for a handler that nobody closed.
WaitsForOpen == listener = "wait" /\ \E c \in Conns : Serving(c) /\ ~closed[c]

\* Nobody receives any more what the parser of c holds: parser.parse is blocked
\* in a send on output or errs.
ParserBlocked(c) == prs[c] \in {"output", "errs"} /\ srv[c] = "gone"

\* After cancel the pool is done, whatever its servers were passing up, and the
\* readers of its handlers have ended, except one that waits for a blocked parser
\* and one whose handler was put too late to be closed; or the process panicked,
\* or release waits for a handler that it did not reach.
ReleaseCompletes ==
    cancel ~> \/ ~Running \/ WaitsForOpen
              \/ /\ Released
                 /\ \A c \in Conns : \/ rdr[c] \in {"none", "gone"} \/ ParserBlocked(c)
                                     \/ ~closed[c]

=============================================================================
