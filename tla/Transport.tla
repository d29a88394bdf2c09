----------------------------- MODULE Transport ------------------------------
(***************************************************************************)
(* The transport layer (src/transport/transport.go) with its protocols     *)
(* (tcp.go, udp.go, protocolPool.go, protocolFactory.go) and the listener  *)
(* pool and handlers of TCP (listener_pool.go, listener_handler.go).  The  *)
(* goroutines that run at the same time:                                   *)
(*   - callers of Listen, and one of Close;                                *)
(*   - listenProtocolNotice, which passes messages and errors up and       *)
(*     releases the layer when it is canceled;                             *)
(*   - per protocol its connection pool, and for TCP its listener pool,    *)
(*     the goroutine that puts accepted connections into the connection    *)
(*     pool (pipePools) and, per pool, the goroutine that hears of cancel; *)
(*   - per TCP listener acceptConnections and pipeOutputs.                 *)
(* Module ConnPool has the inside of a connection pool: here Put and       *)
(* release are one step each.  Module Sending has Send.  Channels are      *)
(* unbuffered: a send and its receive are one step of both.                *)
(***************************************************************************)
EXTENDS Naturals, Sequences, FiniteSets

CONSTANTS Listens,      \* calls of Listen
          TcpListens,   \* those that may ask for TCP (a bound: the others ask for UDP)
          Conns,        \* accepted TCP connections
          Peers,        \* remote addresses, the keys of TCP connections
          None          \* no protocol

ASSUME TransportAssumption ==
    /\ TcpListens \subseteq Listens
    /\ None \notin Listens \cup Conns \cup {"udp", "tcp"}
    /\ Listens \cap Conns = {}
    /\ {"loop", "msg", "err", "release", "closed"} \cap Listens = {}
    /\ {"none", "loop", "accept", "err", "wait", "gone", "done"} \cap Conns = {}

Nets == {"udp", "tcp"}

VARIABLES
    cancel,     \* tpl.cancel is closed
    layer,      \* progress of listenProtocolNotice and release
    waiting,    \* the protocols that release still has to wait for
    protocols,  \* protocolPool: network -> protocol, named by its creator
    lpc,        \* progress of each Listen
    net,        \* the network of each Listen
    inst,       \* the protocol each Listen uses
    peer,       \* the remote address of each TCP connection
    used,       \* TCP connections that were established
    open,       \* open sockets: UDP sockets and TCP listeners (by their Listen), connections
    entry,      \* the protocol whose connection pool has an entry for the socket
    conCancel,  \* connectionPool.cancel is closed
    conPool,    \* progress of each connection pool
    lisCancel,  \* listenerPool.cancel is closed
    lisPool,    \* progress of each listener pool, or the connection it passes up
    lisMap,     \* listenerPool.handleMap, by Listen
    hCancel,    \* listenerHandler.cancel is closed
    acc,        \* progress of acceptConnections, or the connection it hands over
    pip,        \* progress of pipeOutputs, or the connection it passes up
    proc        \* "up", or the panic that took the process down

vars == <<cancel, layer, waiting, protocols, lpc, net, inst, peer, used, open, entry,
          conCancel, conPool, lisCancel, lisPool, lisMap, hCancel, acc, pip, proc>>

layerVars  == <<cancel, layer, waiting>>
listenVars == <<lpc, net, inst>>
sockVars   == <<peer, used, open, entry>>
poolVars   == <<conCancel, conPool, lisCancel, lisPool, lisMap>>
handlerVars == <<hCancel, acc, pip>>

Init ==
    /\ cancel = FALSE /\ layer = "loop" /\ waiting = {}
    /\ protocols = [n \in Nets |-> None]
    /\ lpc = [l \in Listens |-> "none"]
    /\ net = [l \in Listens |-> None]
    /\ inst = [l \in Listens |-> None]
    /\ peer \in [Conns -> Peers] /\ used = {} /\ open = {}
    /\ entry = [x \in Listens \cup Conns |-> None]
    /\ conCancel = [i \in Listens |-> FALSE] /\ conPool = [i \in Listens |-> "none"]
    /\ lisCancel = [i \in Listens |-> FALSE] /\ lisPool = [i \in Listens |-> "none"]
    /\ lisMap = {}
    /\ hCancel = [l \in Listens |-> FALSE]
    /\ acc = [l \in Listens |-> "none"] /\ pip = [l \in Listens |-> "none"]
    /\ proc = "up"

Running == proc = "up"

\* The key of a socket in a connection pool: the remote address, or the local
\* port, which no two open UDP sockets share.
KeyOf(x) == IF x \in Conns THEN peer[x] ELSE x

Entries(i) == {x \in Listens \cup Conns : entry[x] = i}

\* connectionPool.Put: it fails after cancel, and for a key that has an entry.
\* Nobody removes the entry of a connection that has ended.
CanPut(i, x) == ~conCancel[i] /\ \A y \in Entries(i) : KeyOf(y) # KeyOf(x)

-----------------------------------------------------------------------------
(* Listen.                                                                 *)

ListenCheck(l) ==
    /\ Running /\ lpc[l] = "none"
    /\ IF cancel
         THEN lpc' = [lpc EXCEPT ![l] = "refused"] /\ UNCHANGED net
         ELSE /\ lpc' = [lpc EXCEPT ![l] = "get"]
              /\ \E n \in Nets : /\ n = "tcp" => l \in TcpListens
                                /\ net' = [net EXCEPT ![l] = n]
    /\ UNCHANGED <<layerVars, protocols, inst, sockVars, poolVars, handlerVars, proc>>

\* protocols.get
ListenGet(l) ==
    /\ Running /\ lpc[l] = "get"
    /\ inst' = [inst EXCEPT ![l] = protocols[net[l]]]
    /\ lpc' = [lpc EXCEPT ![l] = IF protocols[net[l]] = None THEN "create" ELSE "open"]
    /\ UNCHANGED <<layerVars, protocols, net, sockVars, poolVars, handlerVars,
                   proc>>

\* protocolFactory starts the goroutines of the pools, protocols.put stores the
\* protocol over whatever another Listen stored since the get.
ListenCreate(l) ==
    /\ Running /\ lpc[l] = "create"
    /\ lpc' = [lpc EXCEPT ![l] = "open"]
    /\ inst' = [inst EXCEPT ![l] = l]
    /\ protocols' = [protocols EXCEPT ![net[l]] = l]
    /\ conPool' = [conPool EXCEPT ![l] = "loop"]
    /\ lisPool' = [lisPool EXCEPT ![l] = IF net[l] = "tcp" THEN "loop" ELSE "none"]
    /\ UNCHANGED <<layerVars, net, sockVars, conCancel, lisCancel, lisMap, handlerVars, proc>>

\* net.ListenUDP or net.ListenTCP, after the address was resolved; it fails for
\* a port that is in use.
ListenOpen(l) ==
    /\ Running /\ lpc[l] = "open"
    /\ \/ open' = open \cup {l} /\ lpc' = [lpc EXCEPT ![l] = "put"]
       \/ lpc' = [lpc EXCEPT ![l] = "refused"] /\ UNCHANGED open
    /\ UNCHANGED <<layerVars, protocols, net, inst, peer, used, entry, poolVars,
                   handlerVars, proc>>

\* connections.Put of a UDP socket.  Refused, the socket stays open.
ListenPutUdp(l) ==
    /\ Running /\ lpc[l] = "put" /\ net[l] = "udp"
    /\ IF CanPut(inst[l], l)
         THEN /\ lpc' = [lpc EXCEPT ![l] = "ok"]
              /\ entry' = [entry EXCEPT ![l] = inst[l]]
         ELSE lpc' = [lpc EXCEPT ![l] = "refused"] /\ UNCHANGED entry
    /\ UNCHANGED <<layerVars, protocols, net, inst, peer, used, open, poolVars,
                   handlerVars, proc>>

\* listeners.Put checks cancel ...
ListenPutCheck(l) ==
    /\ Running /\ lpc[l] = "put" /\ net[l] = "tcp"
    /\ lpc' = [lpc EXCEPT ![l] = IF lisCancel[inst[l]] THEN "refused" ELSE "serve"]
    /\ UNCHANGED <<layerVars, protocols, net, inst, sockVars, poolVars, handlerVars, proc>>

\* ... and then stores the handler and starts its goroutines.
ListenPutTcp(l) ==
    /\ Running /\ lpc[l] = "serve"
    /\ lpc' = [lpc EXCEPT ![l] = "ok"]
    /\ lisMap' = lisMap \cup {l}
    /\ acc' = [acc EXCEPT ![l] = "accept"]
    /\ pip' = [pip EXCEPT ![l] = "loop"]
    /\ UNCHANGED <<layerVars, protocols, net, inst, sockVars, conCancel, conPool,
                   lisCancel, lisPool, hCancel, proc>>

ListenSteps(l) ==
    \/ ListenCheck(l) \/ ListenGet(l) \/ ListenCreate(l) \/ ListenOpen(l)
    \/ ListenPutUdp(l) \/ ListenPutCheck(l) \/ ListenPutTcp(l)

-----------------------------------------------------------------------------
(* Listener handlers.                                                      *)

\* handler.Close(): cancel and the listener are closed, once.
CloseListeners(ls) ==
    /\ hCancel' = [l \in Listens |-> hCancel[l] \/ l \in ls]
    /\ open' = open \ ls

\* Accept returns a connection.  A temporary error sleeps and tries again.
Accept(l, c) ==
    /\ Running /\ acc[l] = "accept" /\ l \in open
    /\ c \in Conns \ used
    /\ used' = used \cup {c} /\ open' = open \cup {c}
    /\ acc' = [acc EXCEPT ![l] = c]
    /\ UNCHANGED <<layerVars, protocols, listenVars, peer, entry, poolVars, hCancel, pip, proc>>

\* Accept returns an error: the listener broke, or was closed.
AcceptFails(l) ==
    /\ Running /\ acc[l] = "accept"
    /\ acc' = [acc EXCEPT ![l] = "err"]
    /\ UNCHANGED <<layerVars, protocols, listenVars, sockVars, poolVars, hCancel, pip, proc>>

\* connectionChan <- conn
HandOver(l) ==
    /\ Running /\ acc[l] \in Conns /\ pip[l] = "loop"
    /\ pip' = [pip EXCEPT ![l] = acc[l]]
    /\ acc' = [acc EXCEPT ![l] = "accept"]
    /\ UNCHANGED <<layerVars, protocols, listenVars, sockVars, poolVars, hCancel,
                   proc>>

\* readError <- err, and acceptConnections returns.
HandOverError(l) ==
    /\ Running /\ acc[l] = "err" /\ pip[l] = "loop"
    /\ pip' = [pip EXCEPT ![l] = "err"]
    /\ acc' = [acc EXCEPT ![l] = "gone"]
    /\ UNCHANGED <<layerVars, protocols, listenVars, sockVars, poolVars, hCancel,
                   proc>>

\* The selects of acceptConnections take the cancel.  A connection in hand is
\* dropped as it is, open.
AcceptCanceled(l) ==
    /\ Running /\ hCancel[l] /\ acc[l] \in Conns \cup {"err"}
    /\ acc' = [acc EXCEPT ![l] = "gone"]
    /\ UNCHANGED <<layerVars, protocols, listenVars, sockVars, poolVars, hCancel, pip, proc>>

\* pipeOutputs returns: canceled, or acceptConnections closed its channels.
PipeEnds(l) ==
    /\ Running /\ pip[l] \notin {"none", "gone"}
    /\ hCancel[l] \/ (acc[l] = "gone" /\ pip[l] = "loop")
    /\ pip' = [pip EXCEPT ![l] = "gone"]
    /\ UNCHANGED <<layerVars, protocols, listenVars, sockVars, poolVars, hCancel, acc, proc>>

\* handler.output <- conn and handler.handleError <- err, to the listener pool.
PipeToPool(l) ==
    /\ Running /\ pip[l] \in Conns \cup {"err"} /\ lisPool[inst[l]] = "loop"
    /\ lisPool' = [lisPool EXCEPT ![inst[l]] = pip[l]]
    /\ pip' = [pip EXCEPT ![l] = "loop"]
    /\ UNCHANGED <<layerVars, protocols, listenVars, sockVars, conCancel, conPool, lisCancel,
                   lisMap, hCancel, acc, proc>>

\* A handler that was put late sends on the pool's closed channel.
PipePanics(l) ==
    /\ Running /\ pip[l] \in Conns \cup {"err"} /\ lisPool[inst[l]] = "done"
    /\ proc' = "listenerHandler"
    /\ UNCHANGED <<layerVars, protocols, listenVars, sockVars, poolVars, handlerVars>>

\* Both goroutines have returned: ListenerServer closes the handler.
ServerEnds(l) ==
    /\ Running /\ acc[l] = "gone" /\ pip[l] = "gone" /\ ~hCancel[l]
    /\ CloseListeners({l})
    /\ UNCHANGED <<layerVars, protocols, listenVars, peer, used, entry, poolVars, acc, pip, proc>>

HandlerSteps(l) ==
    \/ HandOver(l) \/ HandOverError(l) \/ AcceptCanceled(l) \/ PipeEnds(l)
    \/ PipeToPool(l) \/ PipePanics(l) \/ ServerEnds(l)

-----------------------------------------------------------------------------
(* The pools of a protocol.                                                *)

\* The goroutines that wait for notifyCancel close the pools' cancel channels.
NoticeListeners(i) ==
    /\ Running /\ cancel /\ lisPool[i] # "none" /\ ~lisCancel[i]
    /\ lisCancel' = [lisCancel EXCEPT ![i] = TRUE]
    /\ UNCHANGED <<layerVars, protocols, listenVars, sockVars, conCancel, conPool, lisPool,
                   lisMap, handlerVars, proc>>

NoticeConnections(i) ==
    /\ Running /\ cancel /\ conPool[i] # "none" /\ ~conCancel[i]
    /\ conCancel' = [conCancel EXCEPT ![i] = TRUE]
    /\ UNCHANGED <<layerVars, protocols, listenVars, sockVars, conPool, lisCancel, lisPool,
                   lisMap, handlerVars, proc>>

Of(i) == {l \in lisMap : inst[l] = i}

\* ListenHandlers takes the cancel, drops what it was passing up, and delAll
\* closes the handlers it finds.
ListenersCanceled(i) ==
    /\ Running /\ lisCancel[i] /\ lisPool[i] \in Conns \cup {"loop", "err"}
    /\ lisPool' = [lisPool EXCEPT ![i] = "wait"]
    /\ CloseListeners(Of(i))
    /\ lisMap' = lisMap \ Of(i)
    /\ UNCHANGED <<layerVars, protocols, listenVars, peer, used, entry, conCancel, conPool,
                   lisCancel, acc, pip, proc>>

HandlerRuns(l) == acc[l] \notin {"none", "gone"} \/ pip[l] \notin {"none", "gone"}

\* handleWg.Wait() returned: the channels and done are closed.
ListenersDone(i) ==
    /\ Running /\ lisPool[i] = "wait"
    /\ \A l \in Listens : inst[l] = i => ~HandlerRuns(l)
    /\ lisPool' = [lisPool EXCEPT ![i] = "done"]
    /\ UNCHANGED <<layerVars, protocols, listenVars, sockVars, conCancel, conPool, lisCancel,
                   lisMap, handlerVars, proc>>

\* Mutant of PipePools: the connection is received and not put.
PipePools_Forgets(i) ==
    /\ Running /\ lisPool[i] \in Conns
    /\ lisPool' = [lisPool EXCEPT ![i] = "loop"]
    /\ UNCHANGED <<layerVars, protocols, listenVars, sockVars, conCancel, conPool,
                   lisCancel, lisMap, handlerVars, proc>>

\* The pool passes an accepted connection to pipePools, which puts it.  When Put
\* fails the connection is logged and forgotten.
PipePools(i) ==
    /\ Running /\ lisPool[i] \in Conns
    /\ lisPool' = [lisPool EXCEPT ![i] = "loop"]
    /\ entry' = [entry EXCEPT ![lisPool[i]] = IF CanPut(i, lisPool[i]) THEN i ELSE None]
    /\ UNCHANGED <<layerVars, protocols, listenVars, peer, used, open, conCancel, conPool,
                   lisCancel, lisMap, handlerVars, proc>>

\* A connection of the pool ends; its handler is closed and keeps its entry.
ConnEnds(c) ==
    /\ Running /\ c \in Conns \cap open /\ entry[c] # None
    /\ open' = open \ {c}
    /\ UNCHANGED <<layerVars, protocols, listenVars, peer, used, entry, poolVars, handlerVars, proc>>

\* A message or an error of some connection reaches ListenHandlers.
PoolReceives(i) ==
    /\ Running /\ conPool[i] = "loop" /\ Entries(i) # {}
    /\ \/ Entries(i) \cap open # {} /\ conPool' = [conPool EXCEPT ![i] = "msg"]
       \/ conPool' = [conPool EXCEPT ![i] = "err"]
    /\ UNCHANGED <<layerVars, protocols, listenVars, sockVars, conCancel, lisCancel, lisPool,
                   lisMap, handlerVars, proc>>

\* ListenHandlers takes the cancel, and release closes every connection.
PoolReleases(i) ==
    /\ Running /\ conCancel[i] /\ conPool[i] \in {"loop", "msg", "err"}
    /\ conPool' = [conPool EXCEPT ![i] = "done"]
    /\ open' = open \ Entries(i)
    /\ entry' = [x \in Listens \cup Conns |-> IF entry[x] = i THEN None ELSE entry[x]]
    /\ UNCHANGED <<layerVars, protocols, listenVars, peer, used, conCancel, lisCancel, lisPool,
                   lisMap, handlerVars, proc>>

PoolSteps(i) ==
    \/ NoticeListeners(i) \/ NoticeConnections(i) \/ ListenersCanceled(i)
    \/ ListenersDone(i) \/ PipePools(i) \/ PoolReleases(i)

-----------------------------------------------------------------------------
(* listenProtocolNotice, Close and release.                                *)

\* receiveMessage and receiveError: from a connection pool, and from the
\* listener pool, which only passes errors to the layer.
LayerReceives(i) ==
    /\ Running /\ layer = "loop"
    /\ \/ /\ conPool[i] \in {"msg", "err"}
          /\ layer' = conPool[i]
          /\ conPool' = [conPool EXCEPT ![i] = "loop"]
          /\ UNCHANGED lisPool
       \/ /\ lisPool[i] = "err"
          /\ layer' = "err"
          /\ lisPool' = [lisPool EXCEPT ![i] = "loop"]
          /\ UNCHANGED conPool
    /\ UNCHANGED <<cancel, waiting, protocols, listenVars, sockVars, conCancel, lisCancel,
                   lisMap, handlerVars, proc>>

\* Close.  Only the service's stop calls it, once.
TpClose ==
    /\ Running /\ ~cancel
    /\ cancel' = TRUE
    /\ UNCHANGED <<layer, waiting, protocols, listenVars, sockVars, poolVars, handlerVars, proc>>

\* Mutant of LayerCanceled: handleMessage and handleError do not look at cancel.
LayerCanceled_LoopOnly ==
    /\ Running /\ cancel /\ layer = "loop"
    /\ layer' = "release"
    /\ waiting' = {protocols[n] : n \in Nets} \ {None}
    /\ UNCHANGED <<cancel, protocols, listenVars, sockVars, poolVars, handlerVars,
                   proc>>

\* The loop, or the message or error being passed up, takes the cancel, and
\* release takes the protocols there are.
LayerCanceled ==
    /\ Running /\ cancel /\ layer \in {"loop", "msg", "err"}
    /\ layer' = "release"
    /\ waiting' = {protocols[n] : n \in Nets} \ {None}
    /\ UNCHANGED <<cancel, protocols, listenVars, sockVars, poolVars, handlerVars,
                   proc>>

\* protocols.del of the protocol's network, whatever is stored there by now.
\* The next protocol is looked at when this one is done.
ReleaseDel(i) ==
    /\ Running /\ layer = "release" /\ i \in waiting
    /\ layer' = i
    /\ protocols' = [protocols EXCEPT ![net[i]] = None]
    /\ UNCHANGED <<cancel, waiting, listenVars, sockVars, poolVars, handlerVars, proc>>

\* Mutant of ReleaseDone: it does not wait for the protocol.
ReleaseDone_NoWait(i) ==
    /\ Running /\ layer = i
    /\ layer' = "release"
    /\ waiting' = waiting \ {i}
    /\ UNCHANGED <<cancel, protocols, listenVars, sockVars, poolVars, handlerVars,
                   proc>>

\* <-protocol.Done(), which is the connection pool's alone.
ReleaseDone(i) ==
    /\ Running /\ layer = i /\ conPool[i] = "done"
    /\ layer' = "release"
    /\ waiting' = waiting \ {i}
    /\ UNCHANGED <<cancel, protocols, listenVars, sockVars, poolVars, handlerVars,
                   proc>>

\* Mutant of ReleaseClose: it does not wait for what is being passed up.
ReleaseClose_WhilePassing ==
    /\ Running /\ cancel /\ layer \in {"release", "msg", "err"} /\ waiting = {}
    /\ layer' = "closed"
    /\ UNCHANGED <<cancel, waiting, protocols, listenVars, sockVars, poolVars, handlerVars,
                   proc>>

\* The four channels and done are closed.
ReleaseClose ==
    /\ Running /\ layer = "release" /\ waiting = {}
    /\ layer' = "closed"
    /\ UNCHANGED <<cancel, waiting, protocols, listenVars, sockVars, poolVars, handlerVars, proc>>

\* A pool's select finds the layer's channel closed and panics.
SendOnClosed(i) ==
    /\ Running /\ layer = "closed"
    /\ \/ conPool[i] \in {"msg", "err"} /\ proc' = "connectionPool"
       \/ lisPool[i] = "err" /\ proc' = "listenerPool"
    /\ UNCHANGED <<layerVars, protocols, listenVars, sockVars, poolVars, handlerVars>>

LayerSteps ==
    LayerCanceled \/ ReleaseClose \/ \E i \in Listens : ReleaseDel(i) \/ ReleaseDone(i)

-----------------------------------------------------------------------------
\* The layers above take what is passed up.
UpTaken ==
    /\ Running /\ layer \in {"msg", "err"}
    /\ layer' = "loop"
    /\ UNCHANGED <<cancel, waiting, protocols, listenVars, sockVars, poolVars, handlerVars, proc>>

Next ==
    \/ \E l \in Listens : \/ ListenSteps(l) \/ HandlerSteps(l) \/ AcceptFails(l)
                          \/ \E c \in Conns : Accept(l, c)
    \/ \E i \in Listens : PoolSteps(i) \/ PoolReceives(i) \/ LayerReceives(i) \/ SendOnClosed(i)
    \/ \E c \in Conns : ConnEnds(c)
    \/ LayerSteps \/ UpTaken \/ TpClose

\* The goroutines of the layer, of its pools and of their handlers run, selects
\* take a cancel that stays ready, and Accept fails on a closed listener.
\* Nothing is assumed of the network, of the layers above, or of who calls
\* Listen and Close.
Fairness ==
    /\ WF_vars(LayerSteps)
    /\ \A i \in Listens : WF_vars(PoolSteps(i))
    /\ \A l \in Listens : WF_vars(HandlerSteps(l)) /\ WF_vars(l \notin open /\ AcceptFails(l))

Spec == Init /\ [][Next]_vars /\ Fairness

-----------------------------------------------------------------------------
(* Properties.                                                             *)

\* The type invariant.
TypeOK ==
    /\ cancel \in BOOLEAN
    /\ layer \in {"loop", "msg", "err", "release", "closed"} \cup Listens
    /\ waiting \subseteq Listens
    /\ protocols \in [Nets -> Listens \cup {None}]
    /\ lpc \in [Listens -> {"none", "get", "create", "open", "put", "serve", "ok", "refused"}]
    /\ inst \in [Listens -> Listens \cup {None}]
    /\ used \subseteq Conns /\ open \subseteq Listens \cup used
    /\ entry \in [Listens \cup Conns -> Listens \cup {None}]
    /\ conPool \in [Listens -> {"none", "loop", "msg", "err", "done"}]
    /\ lisPool \in [Listens -> {"none", "loop", "err", "wait", "done"} \cup Conns]
    /\ lisMap \subseteq Listens
    /\ acc \in [Listens -> {"none", "accept", "err", "gone"} \cup Conns]
    /\ pip \in [Listens -> {"none", "loop", "err", "gone"} \cup Conns]
    /\ proc \in {"up", "listenerHandler", "listenerPool", "connectionPool"}

\* Some goroutine has the connection in hand and is going to pass it on or put
\* it into a pool.
InHand(c) ==
    \/ \E l \in Listens : acc[l] = c \/ pip[l] = c
    \/ \E i \in Listens : lisPool[i] = c

\* Until the layer is closed no established connection is forgotten: it is in
\* hand, or a pool serves it, or it found an older connection of the same peer
\* in the pool's map (alive or ended: ended ones keep their entries).
AcceptedServed ==
    ~cancel => \A c \in used :
        \/ InHand(c) \/ entry[c] # None
        \/ \E d \in used \ {c} : peer[d] = peer[c] /\ entry[d] # None

\* A Listen that checked cancel in time and reached its protocol's pool after
\* the pool had heard of it: the socket stays open, with or without a handler.
LateListen(l) ==
    \/ lpc[l] \in {"open", "put", "serve", "refused"}
    \/ lpc[l] = "ok" /\ l \in lisMap /\ lisPool[inst[l]] \in {"wait", "done"}

\* When a protocol's pools are done, its sockets are closed, except those of
\* late Listens.
SocketsClosed ==
    \A l \in Listens \cap open : LateListen(l) \/
        (inst[l] # None /\ IF net[l] = "udp" THEN conPool[inst[l]] # "done"
                           ELSE lisPool[inst[l]] \notin {"wait", "done"})

\* A protocol that another Listen replaced, or that was made after release had
\* taken its list: nobody waits for it.
Unwaited(i) == inst[i] = i /\ \E l \in Listens \ {i} : net[l] = net[i] /\ inst[l] # i
MadeLate(i) == inst[i] = i /\ protocols[net[i]] = i

\* After Done the connection pools of the protocols have stopped, except of a
\* protocol nobody waits for.  A pool that sends on a closed channel belongs to
\* one of these, or is a listener pool, which Done never waits for.
DoneAfterPools ==
    /\ layer = "closed" => \A i \in Listens :
         conPool[i] \in {"loop", "msg", "err"} => Unwaited(i) \/ MadeLate(i)
    /\ proc = "listenerHandler" => \E l \in Listens : LateListen(l)

\* The state of the layer, its protocols and their sockets agree: what is closed
\* or done has left nothing behind but what a late or replaced Listen made.
NothingLeft == TypeOK /\ SocketsClosed /\ DoneAfterPools

\* The layer keeps the promise of module Layer to the layers above.
Contract == INSTANCE Layer WITH
    phase <- IF layer = "closed" THEN "closed" ELSE IF cancel THEN "closing" ELSE "open",
    up    <- IF layer \in {"msg", "err"} THEN layer ELSE "none"

ImplementsLayer == Contract!Spec

\* Close leads to Done, whatever was being passed up, and to the end of every
\* listener pool and of the goroutines of its listeners, unless a late Listen
\* has left its listener open; or the process panics.
CloseCompletes ==
    cancel ~> \/ ~Running
              \/ /\ layer = "closed"
                 /\ \/ \A i \in Listens : lisPool[i] \in {"none", "done"}
                    \/ \E l \in Listens \cap open : LateListen(l)

=============================================================================
