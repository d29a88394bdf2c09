--------------------------- MODULE TransportProofs ---------------------------
(***************************************************************************)
(* Proofs about Transport, for any number of calls of Listen, of TCP       *)
(* connections and of remote addresses.                                    *)
(***************************************************************************)
EXTENDS Transport, TLAPS

-----------------------------------------------------------------------------
(* The inductive invariant.                                                *)

\* The types TypeOK leaves out.
MoreTypes ==
    /\ net \in [Listens -> Nets \cup {None}] /\ peer \in [Conns -> Peers]
    /\ conCancel \in [Listens -> BOOLEAN] /\ lisCancel \in [Listens -> BOOLEAN]
    /\ hCancel \in [Listens -> BOOLEAN]

\* A protocol is named by the Listen that made it, and its pools run since then.
Created(i) == i \in Listens /\ inst[i] = i /\ conPool[i] # "none"

\* What a Listen has done when it is at a point of its code.
ListenAt(l) ==
    /\ lpc[l] \in {"get", "create", "open", "put", "serve", "ok"} => net[l] \in Nets
    /\ lpc[l] \in {"none", "get", "create"} => inst[l] = None
    /\ lpc[l] \in {"open", "put", "serve", "ok"} => inst[l] # None
    /\ inst[l] # None => Created(inst[l]) /\ net[inst[l]] = net[l] /\ net[l] \in Nets
    /\ lpc[l] = "serve" => net[l] = "tcp"
    /\ l \in open => lpc[l] \in {"put", "serve", "ok", "refused"}
    /\ l \in lisMap => acc[l] # "none"
    /\ acc[l] # "none" => lpc[l] = "ok" /\ net[l] = "tcp"
    /\ hCancel[l] \/ pip[l] # "none" => acc[l] # "none"

ListenInv == \A l \in Listens : ListenAt(l)

\* What exists of a protocol: its pools, and its place in protocolPool.
ProtocolInv ==
    /\ \A i \in Listens :
         /\ conPool[i] # "none" => inst[i] = i
         /\ lisPool[i] # "none" => Created(i) /\ net[i] = "tcp"
    /\ \A n \in Nets : protocols[n] # None => Created(protocols[n]) /\ net[protocols[n]] = n
    /\ \A i \in waiting : Created(i)
    /\ layer \in Listens => Created(layer)

\* Everything that ends does so after Close, but a listener whose goroutines
\* have both returned.
CancelInv ==
    /\ layer \in Listens \cup {"release", "closed"} => cancel
    /\ \A i \in Listens :
         /\ conCancel[i] \/ lisCancel[i] => cancel
         /\ conPool[i] = "done" => conCancel[i]
         /\ lisPool[i] \in {"wait", "done"} => lisCancel[i]
         /\ hCancel[i] => cancel \/ (acc[i] = "gone" /\ pip[i] = "gone")

\* A connection in the hands of acceptConnections, of pipeOutputs or of the
\* listener pool is in one of these hands only, and in no pool yet.
HandInv ==
    \A l, m \in Listens, c \in Conns :
      /\ acc[l] = c \/ pip[l] = c \/ lisPool[l] = c => c \in used /\ entry[c] = None
      /\ acc[l] = c /\ acc[m] = c => l = m
      /\ pip[l] = c /\ pip[m] = c => l = m
      /\ lisPool[l] = c /\ lisPool[m] = c => l = m
      /\ acc[l] = c => pip[m] # c /\ lisPool[m] # c
      /\ pip[l] = c => lisPool[m] # c

\* TCP connections are in pools of TCP, UDP sockets in pools of UDP.
EntryInv ==
    \A x \in Listens \cup Conns : entry[x] # None =>
      /\ Created(entry[x])
      /\ x \in Conns => x \in used /\ net[entry[x]] = "tcp"
      /\ x \in Listens => net[entry[x]] = "udp"

\* The socket of a Listen that succeeded is open only while a pool knows it.
SocketInv ==
    \A l \in Listens \cap open : lpc[l] = "ok" =>
      IF net[l] = "udp" THEN entry[l] = inst[l] /\ conPool[inst[l]] # "done"
                        ELSE l \in lisMap

\* Another Listen made a protocol of the same network.
Replaced(i) == \E j \in Listens \ {i} : inst[j] = j /\ net[j] = net[i]

\* A protocol whose connection pool runs is in protocolPool, or release waits for
\* it, or it was replaced; a handler of a listener pool that is done was put late.
RunningInv ==
    /\ \A i \in Listens : conPool[i] \in {"loop", "msg", "err"} =>
         Replaced(i) \/ protocols[net[i]] = i \/ layer = i
    /\ \A l \in Listens : HandlerRuns(l) /\ lisPool[inst[l]] = "done" => l \in lisMap
    /\ proc = "listenerHandler" => \E l \in Listens : LateListen(l)

IInv == /\ TypeOK /\ MoreTypes /\ ListenInv /\ ProtocolInv /\ CancelInv
        /\ HandInv /\ EntryInv /\ SocketInv /\ RunningInv /\ AcceptedServed


-----------------------------------------------------------------------------
(* Init and types.                                                         *)

\* A layer that has just been made satisfies the invariant.
LEMMA InitInv == Init => IInv
<1> SUFFICES ASSUME Init PROVE IInv
  OBVIOUS
<1> USE TransportAssumption DEF Init, Nets
<1>1. TypeOK /\ MoreTypes
  BY DEF TypeOK, MoreTypes
<1>2. ListenInv /\ ProtocolInv /\ CancelInv
  BY DEF ListenInv, ListenAt, ProtocolInv, CancelInv
<1>3. HandInv /\ EntryInv
  BY DEF HandInv, EntryInv
<1>4. SocketInv /\ RunningInv /\ AcceptedServed
  BY DEF SocketInv, RunningInv, AcceptedServed, HandlerRuns
<1> QED BY <1>1, <1>2, <1>3, <1>4 DEF IInv

\* The steps of a Listen keep the types ...
LEMMA ListenType ==
    ASSUME IInv, NEW l \in Listens, ListenSteps(l)
    PROVE  TypeOK' /\ MoreTypes'
<1> USE TransportAssumption
    DEF IInv, TypeOK, MoreTypes, Nets, layerVars, listenVars, sockVars, poolVars, handlerVars
<1>1. CASE ListenCheck(l)
  BY <1>1 DEF ListenCheck
<1>2. CASE ListenGet(l)
  BY <1>2 DEF ListenGet, ListenInv, ListenAt
<1>3. CASE ListenCreate(l)
  BY <1>3 DEF ListenCreate, ListenInv, ListenAt
<1>4. CASE ListenOpen(l)
  BY <1>4 DEF ListenOpen
<1>5. CASE ListenPutUdp(l)
  BY <1>5 DEF ListenPutUdp
<1>6. CASE ListenPutCheck(l)
  BY <1>6 DEF ListenPutCheck
<1>7. CASE ListenPutTcp(l)
  BY <1>7 DEF ListenPutTcp
<1> QED BY <1>1, <1>2, <1>3, <1>4, <1>5, <1>6, <1>7 DEF ListenSteps

\* ... and those of its handler, of the pools and of the layer.
LEMMA HandlerType ==
    ASSUME IInv, NEW l \in Listens,
           HandlerSteps(l) \/ AcceptFails(l) \/ \E c \in Conns : Accept(l, c)
    PROVE  TypeOK' /\ MoreTypes'
<1> USE TransportAssumption
    DEF IInv, TypeOK, MoreTypes, Nets, layerVars, listenVars, sockVars, poolVars, handlerVars
<1>1. CASE \E c \in Conns : Accept(l, c)
  BY <1>1 DEF Accept
<1>2. CASE AcceptFails(l)
  BY <1>2 DEF AcceptFails
<1>3. CASE HandOver(l) \/ HandOverError(l)
  BY <1>3 DEF HandOver, HandOverError
<1>4. CASE AcceptCanceled(l) \/ PipeEnds(l)
  BY <1>4 DEF AcceptCanceled, PipeEnds
<1>5. CASE PipeToPool(l)
  BY <1>5 DEF PipeToPool
<1>6. CASE PipePanics(l)
  BY <1>6 DEF PipePanics
<1>7. CASE ServerEnds(l)
  BY <1>7 DEF ServerEnds, CloseListeners
<1> QED BY <1>1, <1>2, <1>3, <1>4, <1>5, <1>6, <1>7 DEF HandlerSteps

LEMMA PoolType ==
    ASSUME IInv, NEW i \in Listens,
           PoolSteps(i) \/ PoolReceives(i) \/ LayerReceives(i) \/ SendOnClosed(i)
    PROVE  TypeOK' /\ MoreTypes'
<1> USE TransportAssumption
    DEF IInv, TypeOK, MoreTypes, Nets, layerVars, listenVars, sockVars, poolVars, handlerVars
<1>0. CASE NoticeListeners(i)
  BY <1>0 DEF NoticeListeners
<1>1. CASE NoticeConnections(i)
  BY <1>1 DEF NoticeConnections
<1>2. CASE ListenersCanceled(i)
  BY <1>2 DEF ListenersCanceled, CloseListeners
<1>3. CASE ListenersDone(i)
  BY <1>3 DEF ListenersDone
<1>4. CASE PipePools(i)
  BY <1>4 DEF PipePools
<1>5. CASE PoolReleases(i)
  BY <1>5 DEF PoolReleases
<1>6. CASE PoolReceives(i)
  BY <1>6 DEF PoolReceives
<1>7. CASE LayerReceives(i)
  BY <1>7 DEF LayerReceives
<1>8. CASE SendOnClosed(i)
  BY <1>8 DEF SendOnClosed
<1> QED BY <1>0, <1>1, <1>2, <1>3, <1>4, <1>5, <1>6, <1>7, <1>8 DEF PoolSteps

LEMMA TypeStep == IInv /\ [Next]_vars => TypeOK' /\ MoreTypes'
<1> SUFFICES ASSUME IInv, [Next]_vars PROVE TypeOK' /\ MoreTypes'
  OBVIOUS
<1> USE TransportAssumption
    DEF IInv, TypeOK, MoreTypes, Nets, layerVars, listenVars, sockVars, poolVars, handlerVars
<1>1. CASE \E c \in Conns : ConnEnds(c)
  BY <1>1 DEF ConnEnds
<1>2. CASE LayerCanceled
  BY <1>2 DEF LayerCanceled
<1>3. ASSUME NEW i \in Listens, ReleaseDel(i) \/ ReleaseDone(i) PROVE TypeOK' /\ MoreTypes'
  BY <1>3 DEF ReleaseDel, ReleaseDone
<1>4. CASE ReleaseClose \/ UpTaken \/ TpClose
  BY <1>4, ZenonT(60) DEF ReleaseClose, UpTaken, TpClose
<1>5. CASE UNCHANGED vars
  BY <1>5 DEF vars
<1> QED BY <1>1, <1>2, <1>3, <1>4, <1>5, ListenType, HandlerType, PoolType
        DEF Next, LayerSteps

-----------------------------------------------------------------------------
(* What stays as it is.                                                    *)

\* A Listen keeps its network and its protocol, and a protocol keeps its pools;
\* the connections and their addresses, and the cancel, stay too.
LEMMA Stable ==
    IInv /\ [Next]_vars =>
      /\ \A l \in Listens : /\ lpc[l] # "none" => net'[l] = net[l]
                            /\ inst[l] # None => inst'[l] = inst[l] /\ net'[l] = net[l]
                            /\ Created(l) => Created(l)'
                            /\ conPool[l] # "none" => conPool'[l] # "none"
      /\ cancel => cancel'
      /\ used \subseteq used' /\ peer' = peer
<1> SUFFICES ASSUME IInv, [Next]_vars
             PROVE  /\ \A l \in Listens :
                         /\ lpc[l] # "none" => net'[l] = net[l]
                         /\ inst[l] # None => inst'[l] = inst[l] /\ net'[l] = net[l]
                         /\ Created(l) => Created(l)'
                         /\ conPool[l] # "none" => conPool'[l] # "none"
                    /\ cancel => cancel'
                    /\ used \subseteq used' /\ peer' = peer
  OBVIOUS
<1> DEFINE Goal == /\ \A l \in Listens :
                         /\ lpc[l] # "none" => net'[l] = net[l]
                         /\ inst[l] # None => inst'[l] = inst[l] /\ net'[l] = net[l]
                         /\ Created(l) => Created(l)'
                         /\ conPool[l] # "none" => conPool'[l] # "none"
                   /\ cancel => cancel'
                   /\ used \subseteq used' /\ peer' = peer
<1> USE TransportAssumption DEF layerVars, listenVars, sockVars, poolVars, handlerVars
<1>t. /\ inst \in [Listens -> Listens \cup {None}] /\ net \in [Listens -> Nets \cup {None}]
      /\ conPool \in [Listens -> {"none", "loop", "msg", "err", "done"}]
      /\ \A l \in Listens : lpc[l] \in {"none", "get", "create"} => inst[l] = None
  BY DEF IInv, TypeOK, MoreTypes, ListenInv, ListenAt
<1>1. CASE UNCHANGED <<net, inst, peer, used, cancel>> /\ \A i \in Listens : conPool[i] # "none" => conPool'[i] # "none"
  BY <1>1 DEF Created
<1>2. ASSUME NEW l \in Listens, ListenSteps(l) PROVE Goal
  <2>1. CASE ListenCheck(l)
    BY <1>t, <2>1 DEF ListenCheck, Created
  <2>2. CASE ListenGet(l)
    BY <1>t, <2>2 DEF ListenGet, Created
  <2>3. CASE ListenCreate(l)
    BY <1>t, <2>3 DEF ListenCreate, Created
  <2>4. CASE ListenOpen(l) \/ ListenPutUdp(l) \/ ListenPutCheck(l) \/ ListenPutTcp(l)
    BY <1>1, <2>4 DEF ListenOpen, ListenPutUdp, ListenPutCheck, ListenPutTcp
  <2> QED BY <1>2, <2>1, <2>2, <2>3, <2>4 DEF ListenSteps
<1>3. ASSUME NEW l \in Listens, HandlerSteps(l) \/ AcceptFails(l) PROVE Goal
  BY <1>1, <1>3 DEF HandlerSteps, HandOver, HandOverError, AcceptCanceled, PipeEnds, PipeToPool,
                    PipePanics, ServerEnds, AcceptFails
<1>4. ASSUME NEW l \in Listens, NEW c \in Conns, Accept(l, c) PROVE Goal
  BY <1>4 DEF Accept, Created
<1>5. ASSUME NEW i \in Listens, PoolSteps(i) \/ PoolReceives(i) \/ LayerReceives(i) \/ SendOnClosed(i)
      PROVE  Goal
  <2>1. UNCHANGED <<net, inst, peer, used, cancel>>
    BY <1>5 DEF PoolSteps, NoticeListeners, NoticeConnections, ListenersCanceled, ListenersDone,
                PipePools, PoolReleases, PoolReceives, LayerReceives, SendOnClosed
  <2>2. conPool' = conPool \/ \E v \in {"loop", "msg", "err", "done"} :
                                conPool' = [conPool EXCEPT ![i] = v]
    BY <1>5 DEF PoolSteps, NoticeListeners, NoticeConnections, ListenersCanceled, ListenersDone,
                PipePools, PoolReleases, PoolReceives, LayerReceives, SendOnClosed
  <2> QED BY <1>1, <1>t, <2>1, <2>2
<1>6. CASE LayerSteps \/ UpTaken \/ \E c \in Conns : ConnEnds(c)
  BY <1>1, <1>6 DEF LayerSteps, LayerCanceled, ReleaseClose, ReleaseDel, ReleaseDone, UpTaken,
                    ConnEnds
<1>7. CASE TpClose
  BY <1>7 DEF TpClose, Created
<1>8. CASE UNCHANGED vars
  BY <1>1, <1>8 DEF vars
<1> QED BY <1>2, <1>3, <1>4, <1>5, <1>6, <1>7, <1>8 DEF Next

-----------------------------------------------------------------------------
(* Listens and protocols.                                                  *)

\* A Listen that does not move keeps what is said of it, whatever others do.
LEMMA ListenKept ==
    ASSUME IInv, [Next]_vars, NEW m \in Listens,
           lpc'[m] = lpc[m], net'[m] = net[m], inst'[m] = inst[m],
           m \in lisMap' => m \in lisMap, m \in open' => m \in open,
           acc'[m] # "none" <=> acc[m] # "none",
           hCancel'[m] \/ pip'[m] # "none" => acc[m] # "none"
    PROVE  ListenAt(m)'
<1>1. inst[m] # None => Created(inst[m]) /\ net[inst[m]] = net[m] /\ net[m] \in Nets
  BY DEF IInv, ListenInv, ListenAt
<1>2. inst[m] # None => Created(inst[m])' /\ net'[inst'[m]] = net'[m]
  <2> SUFFICES ASSUME inst[m] # None PROVE Created(inst[m])' /\ net'[inst'[m]] = net'[m]
    OBVIOUS
  <2>1. PICK i \in Listens : i = inst[m]
    BY <1>1 DEF Created
  <2>2. Created(i)' /\ net'[i] = net[i]
    BY <1>1, <2>1, Stable, TransportAssumption DEF Created
  <2> QED BY <1>1, <2>1, <2>2 DEF Created
<1>3. ListenAt(m)
  BY DEF IInv, ListenInv, ListenAt
<1> QED BY <1>1, <1>2, <1>3 DEF ListenAt

LEMMA ListenStep == IInv /\ [Next]_vars => ListenInv'
<1> SUFFICES ASSUME IInv, [Next]_vars PROVE ListenInv'
  OBVIOUS
<1> USE TransportAssumption DEF layerVars, listenVars, sockVars, poolVars, handlerVars, Nets
<1>t. TypeOK /\ MoreTypes /\ ListenInv /\ ProtocolInv
  BY DEF IInv
\* Steps of others than Listen.
<1>h. ASSUME UNCHANGED <<lpc, net, inst>>, lisMap' \subseteq lisMap, open' \cap Listens \subseteq open,
             \A m \in Listens : /\ acc'[m] # "none" <=> acc[m] # "none"
                                /\ hCancel'[m] \/ pip'[m] # "none" => acc[m] # "none"
      PROVE  ListenInv'
  BY <1>h, ListenKept DEF ListenInv, ListenAt
\* A Listen that goes on.
<1>l. ASSUME NEW l \in Listens, ListenAt(l)',
             \A m \in Listens \ {l} :
               /\ lpc'[m] = lpc[m] /\ net'[m] = net[m] /\ inst'[m] = inst[m] /\ acc'[m] = acc[m]
               /\ pip'[m] = pip[m] /\ hCancel'[m] = hCancel[m]
               /\ (m \in open' => m \in open) /\ (m \in lisMap' => m \in lisMap)
      PROVE  ListenInv'
  <2> SUFFICES ASSUME NEW m \in Listens PROVE ListenAt(m)'
    BY DEF ListenInv, ListenAt
  <2>1. CASE m # l
    <3>1. hCancel[m] \/ pip[m] # "none" => acc[m] # "none"
      BY <1>t DEF ListenInv, ListenAt
    <3> QED BY <1>l, <2>1, <3>1, ListenKept
  <2> QED BY <1>l, <2>1
<1>1. ASSUME NEW l \in Listens, ListenCheck(l) PROVE ListenInv'
  <2>1. ListenAt(l)'
    BY <1>1, <1>t DEF ListenCheck, ListenInv, ListenAt, TypeOK, MoreTypes
  <2> QED BY <1>1, <1>t, <1>l, <2>1 DEF ListenCheck, TypeOK, MoreTypes
<1>2. ASSUME NEW l \in Listens, ListenGet(l) PROVE ListenInv'
  <2>0. net[l] \in Nets /\ protocols[net[l]] \in Listens \cup {None} /\ inst[l] = None
    BY <1>2, <1>t DEF ListenGet, ListenInv, ListenAt, TypeOK
  <2>1. PICK i \in Listens \cup {None} : i = protocols[net[l]]
    BY <2>0
  <2>2. i # None => Created(i) /\ net[i] = net[l] /\ i # l
    BY <2>0, <2>1, <1>t DEF ProtocolInv, Created
  <2>3. inst'[l] = i /\ net' = net /\ lpc'[l] = (IF i = None THEN "create" ELSE "open")
        /\ conPool' = conPool /\ (i # None => inst'[i] = inst[i])
    BY <1>2, <1>t, <2>1, <2>2 DEF ListenGet, TypeOK
  <2>4. i # None => Created(i)'
    BY <2>2, <2>3 DEF Created
  <2>5. i # None => Created(inst[l])'
    BY <2>3, <2>4 DEF Created
  <2>6. ListenAt(l)'
    BY <1>2, <1>t, <2>0, <2>2, <2>3, <2>5 DEF ListenGet, ListenInv, ListenAt
  <2> QED BY <1>2, <1>t, <1>l, <2>6 DEF ListenGet, TypeOK, MoreTypes
<1>3. ASSUME NEW l \in Listens, ListenCreate(l) PROVE ListenInv'
  <2>1. /\ inst'[l] = l /\ conPool'[l] = "loop" /\ lpc'[l] = "open" /\ net' = net /\ l # None
        /\ lpc[l] = "create"
    BY <1>3, <1>t DEF ListenCreate, TypeOK
  <2>2. Created(inst[l])'
    BY <2>1 DEF Created
  <2>3. ListenAt(l)'
    BY <1>3, <1>t, <2>1, <2>2 DEF ListenCreate, ListenInv, ListenAt
  <2> QED BY <1>3, <1>t, <1>l, <2>3 DEF ListenCreate, TypeOK, MoreTypes
<1>4. ASSUME NEW l \in Listens,
             ListenOpen(l) \/ ListenPutUdp(l) \/ ListenPutCheck(l) \/ ListenPutTcp(l)
      PROVE  ListenInv'
  <2>1. /\ UNCHANGED <<net, inst, hCancel, conPool>> /\ lpc[l] \in {"open", "put", "serve"}
        /\ open' \cap Listens \subseteq open \cup {l}
    BY <1>4 DEF ListenOpen, ListenPutUdp, ListenPutCheck, ListenPutTcp
  <2>2. /\ inst[l] # None /\ Created(inst[l])' /\ net[inst[l]] = net[l] /\ net[l] \in Nets
        /\ acc[l] = "none" /\ ~hCancel[l] /\ pip[l] = "none" /\ l \notin lisMap
        /\ lpc[l] = "serve" => net[l] = "tcp"
    BY <1>t, <2>1 DEF ListenInv, ListenAt, Created
  <2>3. CASE ListenOpen(l) \/ ListenPutUdp(l) \/ ListenPutCheck(l)
    <3>1. /\ UNCHANGED <<lisMap, acc, pip>>
          /\ \E v \in {"put", "ok", "serve", "refused"} :
               lpc' = [lpc EXCEPT ![l] = v] /\ (v = "serve" => net[l] = "tcp")
      BY <2>3 DEF ListenOpen, ListenPutUdp, ListenPutCheck
    <3>2. ListenAt(l)'
      BY <1>t, <2>1, <2>2, <3>1 DEF ListenAt, TypeOK
    <3> QED BY <1>t, <1>l, <2>1, <3>1, <3>2 DEF TypeOK
  <2>4. CASE ListenPutTcp(l)
    <3>1. ListenAt(l)'
      BY <1>t, <2>1, <2>2, <2>4 DEF ListenPutTcp, ListenAt, TypeOK
    <3> QED BY <1>t, <1>l, <2>1, <2>4, <3>1 DEF ListenPutTcp, TypeOK
  <2> QED BY <1>4, <2>3, <2>4
<1>6. ASSUME NEW l \in Listens, HandlerSteps(l) \/ AcceptFails(l) \/ \E c \in Conns : Accept(l, c)
      PROVE  ListenInv'
  <2>1. CASE AcceptFails(l) \/ \E c \in Conns : Accept(l, c)
    BY <1>h, <1>t, <2>1 DEF AcceptFails, Accept, ListenInv, ListenAt, TypeOK
  <2>2. CASE HandOver(l) \/ HandOverError(l)
    BY <1>h, <1>t, <2>2 DEF HandOver, HandOverError, ListenInv, ListenAt, TypeOK
  <2>3. CASE AcceptCanceled(l) \/ PipeEnds(l) \/ PipeToPool(l) \/ PipePanics(l)
    BY <1>h, <1>t, <2>3 DEF AcceptCanceled, PipeEnds, PipeToPool, PipePanics, ListenInv, ListenAt, TypeOK
  <2>4. CASE ServerEnds(l)
    BY <1>h, <1>t, <2>4 DEF ServerEnds, CloseListeners, ListenInv, ListenAt
  <2> QED BY <1>6, <2>1, <2>2, <2>3, <2>4 DEF HandlerSteps
<1>7. ASSUME NEW i \in Listens, ListenersCanceled(i) PROVE ListenInv'
  BY <1>h, <1>t, <1>7 DEF ListenersCanceled, CloseListeners, ListenInv, ListenAt, Of
<1>8. CASE \/ \E i \in Listens : \/ NoticeListeners(i) \/ NoticeConnections(i) \/ ListenersDone(i)
                                 \/ PipePools(i) \/ PoolReleases(i)
                                 \/ PoolReceives(i) \/ LayerReceives(i) \/ SendOnClosed(i)
           \/ \E c \in Conns : ConnEnds(c)
           \/ LayerSteps \/ UpTaken \/ TpClose \/ UNCHANGED vars
  <2>1. UNCHANGED <<lpc, net, inst, lisMap, acc, hCancel, pip>> /\ open' \subseteq open
    BY <1>8 DEF NoticeListeners, NoticeConnections, ListenersDone, PipePools, PoolReleases,
         PoolReceives, LayerReceives, SendOnClosed, ConnEnds, LayerSteps, LayerCanceled,
         ReleaseClose, ReleaseDel, ReleaseDone, UpTaken, TpClose, vars
  <2> QED BY <1>h, <1>t, <2>1 DEF ListenInv, ListenAt
<1> QED BY <1>1, <1>2, <1>3, <1>4, <1>6, <1>7, <1>8 DEF Next, ListenSteps, PoolSteps

\* Only ListenCreate makes a protocol; it is new.
LEMMA ProtocolStep == IInv /\ [Next]_vars => ProtocolInv'
<1> SUFFICES ASSUME IInv, [Next]_vars PROVE ProtocolInv'
  OBVIOUS
<1> USE TransportAssumption DEF layerVars, listenVars, sockVars, poolVars, handlerVars
<1>t. TypeOK /\ MoreTypes /\ ListenInv /\ ProtocolInv
  BY DEF IInv
<1>s. \A i : Created(i) => Created(i)' /\ net'[i] = net[i]
  BY Stable DEF Created
<1>u. ASSUME \A n \in Nets : protocols'[n] \in {protocols[n], None},
             \A i \in waiting' : i \in waiting \/ \E n \in Nets : i = protocols[n] /\ i # None,
             layer' \in Listens => layer' = layer \/ layer' \in waiting,
             \A i \in Listens : /\ conPool'[i] # "none" => conPool[i] # "none"
                                /\ lisPool'[i] # "none" => lisPool[i] # "none"
      PROVE  ProtocolInv'
  <2>1. \A i \in Listens : /\ conPool'[i] # "none" => inst'[i] = i
                           /\ lisPool'[i] # "none" => Created(i)' /\ net'[i] = "tcp"
    BY <1>u, <1>t, <1>s DEF ProtocolInv, Created
  <2>2. \A n \in Nets : protocols'[n] # None => Created(protocols'[n]) /\ net[protocols'[n]] = n
    BY <1>u, <1>t DEF ProtocolInv
  <2>3. \A n \in Nets : protocols'[n] # None => Created(protocols[n])' /\ net'[protocols'[n]] = n
    BY <2>2, <1>s DEF Created
  <2>4. \A i \in waiting' : Created(i)'
    BY <1>u, <1>t, <1>s DEF ProtocolInv
  <2>5. layer' \in Listens => Created(layer)'
    <3>1. layer' \in Listens => Created(layer')
      BY <1>u, <1>t DEF ProtocolInv
    <3> QED BY <3>1, <1>s DEF Created
  <2> QED BY <2>1, <2>3, <2>4, <2>5 DEF ProtocolInv
<1>1. ASSUME NEW l \in Listens, ListenCreate(l) PROVE ProtocolInv'
  <2>1. /\ inst' = [inst EXCEPT ![l] = l] /\ protocols' = [protocols EXCEPT ![net[l]] = l]
        /\ conPool' = [conPool EXCEPT ![l] = "loop"] /\ net' = net /\ net[l] \in Nets
        /\ lisPool' = [lisPool EXCEPT ![l] = IF net[l] = "tcp" THEN "loop" ELSE "none"]
        /\ waiting' = waiting /\ layer' = layer
    BY <1>1, <1>t DEF ListenCreate, ListenInv, ListenAt
  <2>2. Created(l)'
    BY <1>t, <2>1 DEF Created, TypeOK
  <2>3. \A i \in Listens : /\ conPool'[i] # "none" => inst'[i] = i
                           /\ lisPool'[i] # "none" => Created(i)' /\ net'[i] = "tcp"
    BY <1>t, <1>s, <2>1, <2>2 DEF ProtocolInv, TypeOK
  <2>4. \A n \in Nets : protocols'[n] # None => Created(protocols[n])' /\ net'[protocols'[n]] = n
    <3> SUFFICES ASSUME NEW n \in Nets, protocols'[n] # None
                 PROVE  Created(protocols[n])' /\ net'[protocols'[n]] = n
      OBVIOUS
    <3>1. CASE n = net[l]
      BY <1>t, <2>1, <2>2, <3>1 DEF TypeOK, Created
    <3>2. CASE n # net[l]
      <4>1. protocols'[n] = protocols[n] /\ Created(protocols[n]) /\ net[protocols[n]] = n
        BY <1>t, <2>1, <3>2 DEF ProtocolInv, TypeOK
      <4> QED BY <4>1, <1>s DEF Created
    <3> QED BY <3>1, <3>2
  <2> QED BY <1>t, <1>s, <2>1, <2>3, <2>4 DEF ProtocolInv
<1>2. ASSUME NEW l \in Listens,
             \/ ListenCheck(l) \/ ListenGet(l) \/ ListenOpen(l) \/ ListenPutUdp(l)
             \/ ListenPutCheck(l) \/ ListenPutTcp(l) \/ AcceptFails(l) \/ \E c \in Conns : Accept(l, c)
      PROVE  ProtocolInv'
  BY <1>u, <1>2 DEF ListenCheck, ListenGet, ListenOpen, ListenPutUdp, ListenPutCheck,
                    ListenPutTcp, AcceptFails, Accept
<1>3. ASSUME NEW l \in Listens, HandlerSteps(l) PROVE ProtocolInv'
  <2>1. CASE PipeToPool(l)
    BY <1>u, <1>t, <2>1 DEF PipeToPool, TypeOK
  <2>2. CASE HandOver(l) \/ HandOverError(l) \/ AcceptCanceled(l) \/ PipeEnds(l)
             \/ PipePanics(l) \/ ServerEnds(l)
    BY <1>u, <2>2 DEF HandOver, HandOverError, AcceptCanceled, PipeEnds, PipePanics, ServerEnds
  <2> QED BY <1>3, <2>1, <2>2 DEF HandlerSteps
<1>4. ASSUME NEW i \in Listens, PoolSteps(i) \/ PoolReceives(i) \/ SendOnClosed(i) PROVE ProtocolInv'
  <2>1. UNCHANGED <<protocols, waiting, layer>>
    BY <1>4 DEF PoolSteps, NoticeListeners, NoticeConnections, ListenersCanceled, ListenersDone,
                PipePools, PoolReleases, PoolReceives, SendOnClosed
  <2>2. CASE NoticeListeners(i) \/ NoticeConnections(i) \/ SendOnClosed(i)
    BY <1>u, <2>1, <2>2 DEF NoticeListeners, NoticeConnections, SendOnClosed
  <2>3. CASE ListenersCanceled(i) \/ ListenersDone(i) \/ PipePools(i)
    BY <1>u, <1>t, <2>1, <2>3 DEF ListenersCanceled, ListenersDone, PipePools, TypeOK
  <2>4. CASE PoolReleases(i) \/ PoolReceives(i)
    BY <1>u, <1>t, <2>1, <2>4 DEF PoolReleases, PoolReceives, TypeOK
  <2> QED BY <1>4, <2>2, <2>3, <2>4 DEF PoolSteps
<1>5. ASSUME NEW i \in Listens, LayerReceives(i) PROVE ProtocolInv'
  BY <1>u, <1>t, <1>5 DEF LayerReceives, TypeOK
<1>6. ASSUME NEW i \in Listens, ReleaseDel(i) PROVE ProtocolInv'
  BY <1>u, <1>t, <1>6 DEF ReleaseDel, TypeOK
<1>7. ASSUME NEW i \in Listens, ReleaseDone(i) PROVE ProtocolInv'
  BY <1>u, <1>t, <1>7 DEF ReleaseDone, TypeOK
<1>8. CASE LayerCanceled \/ ReleaseClose \/ UpTaken
  BY <1>u, <1>t, <1>8 DEF LayerCanceled, ReleaseClose, UpTaken
<1>9. CASE TpClose \/ UNCHANGED vars \/ \E c \in Conns : ConnEnds(c)
  BY <1>u, <1>9 DEF TpClose, vars, ConnEnds
<1> QED BY <1>1, <1>2, <1>3, <1>4, <1>5, <1>6, <1>7, <1>8, <1>9 DEF Next, ListenSteps, LayerSteps

\* Nothing of the layer ends before Close.
LEMMA CancelStep == IInv /\ [Next]_vars => CancelInv'
<1> SUFFICES ASSUME IInv, [Next]_vars PROVE CancelInv'
  OBVIOUS
<1> USE TransportAssumption DEF layerVars, listenVars, sockVars, poolVars, handlerVars
<1>t. TypeOK /\ MoreTypes /\ ListenInv /\ CancelInv /\ (cancel => cancel')
  BY Stable DEF IInv
<1>u. ASSUME layer' \in Listens \cup {"release", "closed"} => cancel,
             \A i \in Listens :
               /\ conCancel'[i] = conCancel[i] \/ cancel
               /\ lisCancel'[i] = lisCancel[i] \/ cancel
               /\ (conCancel[i] => conCancel'[i]) /\ (lisCancel[i] => lisCancel'[i])
               /\ conPool'[i] = "done" => conPool[i] = "done" \/ conCancel[i]
               /\ lisPool'[i] \in {"wait", "done"} => lisPool[i] \in {"wait", "done"} \/ lisCancel[i]
               /\ hCancel'[i] => hCancel[i] \/ cancel \/ (acc[i] = "gone" /\ pip[i] = "gone")
               /\ acc[i] = "gone" => acc'[i] = "gone"
               /\ pip[i] = "gone" => pip'[i] = "gone"
      PROVE  CancelInv'
  BY <1>u, <1>t DEF CancelInv, MoreTypes
<1>1. ASSUME NEW l \in Listens, ListenSteps(l) PROVE CancelInv'
  <2>1. UNCHANGED <<layer, conCancel, lisCancel, hCancel>>
    BY <1>1 DEF ListenSteps, ListenCheck, ListenGet, ListenCreate, ListenOpen, ListenPutUdp,
                ListenPutCheck, ListenPutTcp
  <2>2. CASE ListenCreate(l)
    BY <1>u, <1>t, <2>1, <2>2 DEF ListenCreate, TypeOK, CancelInv
  <2>3. CASE ListenPutTcp(l)
    <3>1. acc[l] = "none" /\ pip[l] = "none"
      BY <1>t, <2>3 DEF ListenPutTcp, ListenInv, ListenAt
    <3> QED BY <1>u, <1>t, <2>1, <2>3, <3>1 DEF ListenPutTcp, TypeOK, CancelInv
  <2>4. CASE ListenCheck(l) \/ ListenGet(l) \/ ListenOpen(l) \/ ListenPutUdp(l) \/ ListenPutCheck(l)
    BY <1>u, <1>t, <2>1, <2>4 DEF ListenCheck, ListenGet, ListenOpen, ListenPutUdp,
                                  ListenPutCheck, CancelInv
  <2> QED BY <1>1, <2>2, <2>3, <2>4 DEF ListenSteps
<1>2. ASSUME NEW l \in Listens, HandlerSteps(l) \/ AcceptFails(l) \/ \E c \in Conns : Accept(l, c)
      PROVE  CancelInv'
  <2>1. UNCHANGED <<layer, conCancel, lisCancel, conPool>>
    BY <1>2 DEF HandlerSteps, HandOver, HandOverError, AcceptCanceled, PipeEnds, PipeToPool,
                PipePanics, ServerEnds, AcceptFails, Accept
  <2>2. CASE HandOver(l) \/ HandOverError(l) \/ AcceptFails(l) \/ \E c \in Conns : Accept(l, c)
    BY <1>u, <1>t, <2>1, <2>2 DEF HandOver, HandOverError, AcceptFails, Accept, TypeOK, CancelInv
  <2>3. CASE AcceptCanceled(l) \/ PipeEnds(l) \/ PipePanics(l)
    BY <1>u, <1>t, <2>1, <2>3 DEF AcceptCanceled, PipeEnds, PipePanics, TypeOK, CancelInv
  <2>4. CASE PipeToPool(l)
    BY <1>u, <1>t, <2>1, <2>4 DEF PipeToPool, TypeOK, CancelInv
  <2>5. CASE ServerEnds(l)
    BY <1>u, <1>t, <2>1, <2>5 DEF ServerEnds, CloseListeners, CancelInv
  <2> QED BY <1>2, <2>2, <2>3, <2>4, <2>5 DEF HandlerSteps
<1>3. ASSUME NEW i \in Listens, PoolSteps(i) \/ PoolReceives(i) \/ SendOnClosed(i) PROVE CancelInv'
  <2>1. CASE NoticeListeners(i)
    BY <1>u, <1>t, <2>1 DEF NoticeListeners, MoreTypes, CancelInv
  <2>2. CASE NoticeConnections(i)
    BY <1>u, <1>t, <2>2 DEF NoticeConnections, MoreTypes, CancelInv
  <2>3. CASE ListenersCanceled(i)
    BY <1>u, <1>t, <2>3 DEF ListenersCanceled, CloseListeners, TypeOK, CancelInv
  <2>4. CASE ListenersDone(i) \/ PipePools(i)
    BY <1>u, <1>t, <2>4 DEF ListenersDone, PipePools, TypeOK, CancelInv
  <2>5. CASE PoolReleases(i) \/ PoolReceives(i)
    BY <1>u, <1>t, <2>5 DEF PoolReleases, PoolReceives, TypeOK, CancelInv
  <2>6. CASE SendOnClosed(i)
    BY <1>u, <1>t, <2>6 DEF SendOnClosed, CancelInv
  <2> QED BY <1>3, <2>1, <2>2, <2>3, <2>4, <2>5, <2>6 DEF PoolSteps
<1>4. ASSUME NEW i \in Listens, LayerReceives(i) PROVE CancelInv'
  BY <1>u, <1>t, <1>4 DEF LayerReceives, TypeOK, CancelInv
<1>5. ASSUME LayerSteps \/ UpTaken \/ TpClose \/ UNCHANGED vars \/ \E c \in Conns : ConnEnds(c)
      PROVE  CancelInv'
  <2>1. /\ UNCHANGED <<conCancel, lisCancel, conPool, lisPool, hCancel, acc, pip>>
        /\ layer' \in Listens \cup {"release", "closed"} => cancel
    BY <1>5, <1>t DEF LayerSteps, LayerCanceled, ReleaseClose, ReleaseDel, ReleaseDone, UpTaken,
         TpClose, vars, ConnEnds, CancelInv, TypeOK
  <2> QED BY <1>u, <1>t, <2>1 DEF CancelInv
<1> QED BY <1>1, <1>2, <1>3, <1>4, <1>5 DEF Next

-----------------------------------------------------------------------------
(* Connections and their entries.                                          *)

\* A connection goes from hand to hand, and leaves the last one when it is put or
\* dropped.
LEMMA HandStep == IInv /\ [Next]_vars => HandInv'
<1> SUFFICES ASSUME IInv, [Next]_vars PROVE HandInv'
  OBVIOUS
<1> USE TransportAssumption DEF layerVars, listenVars, sockVars, poolVars, handlerVars
<1>t. TypeOK /\ ListenInv /\ HandInv /\ EntryInv /\ used \subseteq used'
  BY Stable DEF IInv
\* Nobody gets a connection in hand.
<1>u. ASSUME \A c \in Conns : entry'[c] \in {entry[c], None},
             \A l \in Listens, c \in Conns : /\ acc'[l] = c => acc[l] = c
                                             /\ pip'[l] = c => pip[l] = c
                                             /\ lisPool'[l] = c => lisPool[l] = c
      PROVE  HandInv'
  BY <1>u, <1>t DEF HandInv
<1>1. ASSUME NEW l \in Listens, ListenSteps(l) PROVE HandInv'
  <2>1. CASE ListenCreate(l)
    BY <1>u, <1>t, <2>1 DEF ListenCreate, TypeOK
  <2>2. CASE ListenPutUdp(l)
    BY <1>u, <1>t, <2>2 DEF ListenPutUdp, TypeOK
  <2>3. CASE ListenPutTcp(l)
    BY <1>u, <1>t, <2>3 DEF ListenPutTcp, TypeOK
  <2>4. CASE ListenCheck(l) \/ ListenGet(l) \/ ListenOpen(l) \/ ListenPutCheck(l)
    BY <1>u, <2>4 DEF ListenCheck, ListenGet, ListenOpen, ListenPutCheck
  <2> QED BY <1>1, <2>1, <2>2, <2>3, <2>4 DEF ListenSteps
<1>2. ASSUME NEW l \in Listens, NEW c \in Conns, Accept(l, c) PROVE HandInv'
  <2>1. /\ c \notin used /\ acc' = [acc EXCEPT ![l] = c] /\ UNCHANGED <<pip, lisPool, entry>>
        /\ used' = used \cup {c}
    BY <1>2 DEF Accept
  <2>2. \A m \in Listens : acc[m] # c /\ pip[m] # c /\ lisPool[m] # c
    BY <1>t, <2>1 DEF HandInv
  <2>3. entry[c] = None
    BY <1>t, <2>1 DEF EntryInv
  <2> QED BY <1>t, <2>1, <2>2, <2>3 DEF HandInv, TypeOK
<1>3. ASSUME NEW l \in Listens, AcceptFails(l) \/ HandOverError(l) \/ AcceptCanceled(l) PROVE HandInv'
  BY <1>u, <1>t, <1>3 DEF AcceptFails, HandOverError, AcceptCanceled, TypeOK
<1>4. ASSUME NEW l \in Listens, HandOver(l) PROVE HandInv'
  <2>1. /\ acc[l] \in Conns /\ pip' = [pip EXCEPT ![l] = acc[l]] /\ acc' = [acc EXCEPT ![l] = "accept"]
        /\ UNCHANGED <<lisPool, entry, used>>
    BY <1>4 DEF HandOver
  <2> QED BY <1>t, <2>1 DEF HandInv, TypeOK
<1>5. ASSUME NEW l \in Listens, PipeEnds(l) \/ PipePanics(l) \/ ServerEnds(l) PROVE HandInv'
  BY <1>u, <1>t, <1>5 DEF PipeEnds, PipePanics, ServerEnds, TypeOK
<1>6. ASSUME NEW l \in Listens, PipeToPool(l) PROVE HandInv'
  <2>1. PICK i : i = inst[l]
    OBVIOUS
  <2>2. /\ lisPool' = [lisPool EXCEPT ![i] = pip[l]] /\ pip' = [pip EXCEPT ![l] = "loop"]
        /\ UNCHANGED <<acc, entry, used>> /\ pip[l] # "none" /\ i \in Listens
    BY <1>6, <1>t, <2>1 DEF PipeToPool, ListenInv, ListenAt, Created
  <2> QED BY <1>t, <2>2 DEF HandInv, TypeOK
<1>7. ASSUME NEW i \in Listens, PipePools(i) PROVE HandInv'
  <2>1. PICK c \in Conns : c = lisPool[i]
    BY <1>7 DEF PipePools
  <2>2. /\ lisPool' = [lisPool EXCEPT ![i] = "loop"] /\ UNCHANGED <<acc, pip, used>>
        /\ \A d \in Conns \ {c} : entry'[d] = entry[d]
    BY <1>7, <1>t, <2>1 DEF PipePools, TypeOK
  <2>3. \A m \in Listens : acc[m] # c /\ pip[m] # c /\ (m # i => lisPool[m] # c)
    BY <1>t, <2>1 DEF HandInv
  <2> QED BY <1>t, <2>2, <2>3 DEF HandInv, TypeOK
<1>8. ASSUME NEW i \in Listens,
             \/ NoticeListeners(i) \/ NoticeConnections(i) \/ ListenersCanceled(i)
             \/ ListenersDone(i) \/ PoolReleases(i) \/ PoolReceives(i) \/ SendOnClosed(i)
             \/ LayerReceives(i)
      PROVE  HandInv'
  <2>1. UNCHANGED <<acc, pip>>
    BY <1>8 DEF NoticeListeners, NoticeConnections, ListenersCanceled, ListenersDone,
                PoolReleases, PoolReceives, SendOnClosed, LayerReceives
  <2>2. \A c \in Conns : entry'[c] \in {entry[c], None}
    BY <1>8 DEF NoticeListeners, NoticeConnections, ListenersCanceled, ListenersDone,
                PoolReleases, PoolReceives, SendOnClosed, LayerReceives
  <2>3. lisPool' = lisPool \/ \E v \in {"wait", "done", "loop"} : lisPool' = [lisPool EXCEPT ![i] = v]
    BY <1>8 DEF NoticeListeners, NoticeConnections, ListenersCanceled, ListenersDone,
                PoolReleases, PoolReceives, SendOnClosed, LayerReceives
  <2> QED BY <1>u, <1>t, <2>1, <2>2, <2>3 DEF TypeOK
<1>9. CASE LayerSteps \/ UpTaken \/ TpClose \/ UNCHANGED vars \/ \E c \in Conns : ConnEnds(c)
  <2>1. UNCHANGED <<acc, pip, lisPool, entry>>
    BY <1>9 DEF LayerSteps, LayerCanceled, ReleaseClose, ReleaseDel, ReleaseDone, UpTaken,
         TpClose, vars, ConnEnds
  <2> QED BY <1>u, <2>1
<1> QED BY <1>1, <1>2, <1>3, <1>4, <1>5, <1>6, <1>7, <1>8, <1>9
        DEF Next, HandlerSteps, PoolSteps

\* The steps that change entries, and what they enter.
LEMMA EntryStep == IInv /\ [Next]_vars => EntryInv'
<1> SUFFICES ASSUME IInv, [Next]_vars PROVE EntryInv'
  OBVIOUS
<1> USE TransportAssumption DEF layerVars, listenVars, sockVars, poolVars, handlerVars
<1>t. TypeOK /\ ListenInv /\ ProtocolInv /\ HandInv /\ EntryInv /\ used \subseteq used'
  BY Stable DEF IInv
<1>s. \A i : Created(i) => Created(i)' /\ net'[i] = net[i]
  BY Stable DEF Created
<1>u. ASSUME NEW y \in Listens \cup Conns,
             \A x \in (Listens \cup Conns) \ {y} : entry'[x] \in {entry[x], None},
             entry'[y] \in {entry[y], None} \/
               (/\ Created(entry'[y])
                /\ y \in Conns => y \in used /\ net[entry'[y]] = "tcp"
                /\ y \in Listens => net[entry'[y]] = "udp")
      PROVE  EntryInv'
  <2> SUFFICES ASSUME NEW x \in Listens \cup Conns, NEW i, i = entry'[x], i # None
               PROVE  /\ Created(i)'
                      /\ x \in Conns => x \in used' /\ net'[i] = "tcp"
                      /\ x \in Listens => net'[i] = "udp"
    BY DEF EntryInv, Created
  <2>1. /\ Created(i)
        /\ x \in Conns => x \in used /\ net[i] = "tcp"
        /\ x \in Listens => net[i] = "udp"
    BY <1>u, <1>t DEF EntryInv
  <2> QED BY <1>t, <1>s, <2>1
<1>0. ASSUME \A x \in Listens \cup Conns : entry'[x] \in {entry[x], None} PROVE EntryInv'
  <2>1. CASE Listens \cup Conns = {}
    BY <2>1 DEF EntryInv
  <2>2. CASE Listens \cup Conns # {}
    BY <1>0, <1>u, <2>2
  <2> QED BY <2>1, <2>2
<1>1. ASSUME NEW l \in Listens, ListenPutUdp(l) PROVE EntryInv'
  <2>1. \A x \in (Listens \cup Conns) \ {l} : entry'[x] = entry[x]
    BY <1>1, <1>t DEF ListenPutUdp, TypeOK
  <2>2. entry'[l] \in {entry[l], inst[l]} /\ inst[l] # None /\ net[l] = "udp"
    BY <1>1, <1>t DEF ListenPutUdp, TypeOK, ListenInv, ListenAt
  <2>3. Created(inst[l]) /\ net[inst[l]] = "udp"
    BY <1>t, <2>2 DEF ListenInv, ListenAt
  <2> QED BY <1>u, <2>1, <2>2, <2>3
<1>2. ASSUME NEW i \in Listens, PipePools(i) PROVE EntryInv'
  <2>1. PICK c \in Conns : c = lisPool[i]
    BY <1>2 DEF PipePools
  <2>2. entry'[c] \in {i, None} /\ \A x \in (Listens \cup Conns) \ {c} : entry'[x] = entry[x]
    BY <1>2, <1>t, <2>1 DEF PipePools, TypeOK
  <2>3. Created(i) /\ net[i] = "tcp" /\ c \in used
    BY <1>t, <2>1 DEF ProtocolInv, HandInv
  <2> QED BY <1>u, <2>2, <2>3
<1>3. ASSUME NEW i \in Listens, PoolReleases(i) PROVE EntryInv'
  BY <1>0, <1>3 DEF PoolReleases
<1>4. CASE entry' = entry
  BY <1>0, <1>4
<1>5. ASSUME NEW l \in Listens, ListenSteps(l), ~ListenPutUdp(l) PROVE entry' = entry
  BY <1>5 DEF ListenSteps, ListenCheck, ListenGet, ListenCreate, ListenOpen, ListenPutCheck,
              ListenPutTcp
<1>6. ASSUME NEW l \in Listens, HandlerSteps(l) \/ AcceptFails(l) \/ \E c \in Conns : Accept(l, c)
      PROVE  entry' = entry
  BY <1>6 DEF HandlerSteps, HandOver, HandOverError, AcceptCanceled, PipeEnds, PipeToPool,
              PipePanics, ServerEnds, AcceptFails, Accept
<1>7. ASSUME NEW i \in Listens,
             \/ NoticeListeners(i) \/ NoticeConnections(i) \/ ListenersCanceled(i)
             \/ ListenersDone(i) \/ PoolReceives(i) \/ SendOnClosed(i) \/ LayerReceives(i)
      PROVE  entry' = entry
  BY <1>7 DEF NoticeListeners, NoticeConnections, ListenersCanceled, ListenersDone,
              PoolReceives, SendOnClosed, LayerReceives
<1>8. ASSUME LayerSteps \/ UpTaken \/ TpClose \/ UNCHANGED vars \/ \E c \in Conns : ConnEnds(c)
      PROVE  entry' = entry
  BY <1>8 DEF LayerSteps, LayerCanceled, ReleaseClose, ReleaseDel, ReleaseDone, UpTaken,
       TpClose, vars, ConnEnds
<1> QED BY <1>1, <1>2, <1>3, <1>4, <1>5, <1>6, <1>7, <1>8 DEF Next, PoolSteps

\* Before Close a connection leaves a hand only for the next one or for a pool,
\* and an entry stays.
LEMMA AcceptedStep == IInv /\ [Next]_vars => AcceptedServed'
<1> SUFFICES ASSUME IInv, [Next]_vars, ~cancel' PROVE AcceptedServed'
  BY DEF AcceptedServed
<1> USE TransportAssumption DEF layerVars, listenVars, sockVars, poolVars, handlerVars
<1>t. TypeOK /\ ListenInv /\ ProtocolInv /\ HandInv /\ EntryInv /\ AcceptedServed
  BY DEF IInv
<1>0. /\ ~cancel /\ peer' = peer /\ used \subseteq used'
      /\ \A i \in Listens : /\ ~conCancel[i] /\ ~lisCancel[i]
                            /\ hCancel[i] => acc[i] = "gone" /\ pip[i] = "gone"
  BY Stable DEF IInv, CancelInv
<1> DEFINE Rival(c, e) == \E d \in used \ {c} : peer[d] = peer[c] /\ e[d] # None
<1>u. ASSUME \A c \in Conns : entry[c] # None => entry'[c] # None,
             \A c \in used : InHand(c) => InHand(c)' \/ entry'[c] # None \/ Rival(c, entry'),
             \A c \in used' \ used : InHand(c)'
      PROVE  AcceptedServed'
  <2> SUFFICES ASSUME NEW c \in used'
               PROVE  \/ InHand(c)' \/ entry'[c] # None
                      \/ \E d \in used' \ {c} : peer'[d] = peer'[c] /\ entry'[d] # None
    BY DEF AcceptedServed
  <2>1. used \subseteq Conns
    BY <1>t DEF TypeOK
  <2>2. CASE c \notin used
    BY <1>u, <2>2
  <2>3. CASE c \in used /\ InHand(c)
    <3>1. InHand(c)' \/ entry'[c] # None \/ Rival(c, entry')
      BY <1>u, <2>3
    <3> QED BY <1>0, <3>1
  <2>4. CASE c \in used /\ ~InHand(c)
    <3>1. entry[c] # None \/ \E d \in used \ {c} : peer[d] = peer[c] /\ entry[d] # None
      BY <1>0, <1>t, <2>4 DEF AcceptedServed
    <3> QED BY <1>0, <1>u, <2>1, <2>4, <3>1
  <2> QED BY <2>2, <2>3, <2>4
\* Nobody drops a connection.
<1>k. ASSUME UNCHANGED used, \A c \in Conns : entry[c] # None => entry'[c] # None,
             \A l \in Listens, c \in Conns : /\ acc[l] = c => acc'[l] = c
                                             /\ pip[l] = c => pip'[l] = c
                                             /\ lisPool[l] = c => lisPool'[l] = c
      PROVE  AcceptedServed'
  <2>1. \A c \in used : InHand(c) => InHand(c)'
    BY <1>k, <1>t DEF InHand, TypeOK
  <2> QED BY <1>k, <1>u, <2>1
<1>1. ASSUME NEW l \in Listens, ListenSteps(l) PROVE AcceptedServed'
  <2>1. CASE ListenCreate(l)
    <3>1. lisPool[l] = "none"
      BY <1>t, <2>1 DEF ListenCreate, ProtocolInv, ListenInv, ListenAt, Created
    <3> QED BY <1>k, <1>t, <2>1, <3>1 DEF ListenCreate, TypeOK
  <2>2. CASE ListenPutUdp(l)
    BY <1>k, <1>t, <2>2 DEF ListenPutUdp, TypeOK
  <2>3. CASE ListenPutTcp(l)
    <3>1. acc[l] = "none" /\ pip[l] = "none"
      BY <1>t, <2>3 DEF ListenPutTcp, ListenInv, ListenAt
    <3> QED BY <1>k, <1>t, <2>3, <3>1 DEF ListenPutTcp, TypeOK
  <2>4. CASE ListenCheck(l) \/ ListenGet(l) \/ ListenOpen(l) \/ ListenPutCheck(l)
    BY <1>k, <2>4 DEF ListenCheck, ListenGet, ListenOpen, ListenPutCheck
  <2> QED BY <1>1, <2>1, <2>2, <2>3, <2>4 DEF ListenSteps
<1>2. ASSUME NEW l \in Listens, NEW c \in Conns, Accept(l, c) PROVE AcceptedServed'
  <2>1. /\ acc[l] = "accept" /\ acc' = [acc EXCEPT ![l] = c]
        /\ UNCHANGED <<pip, lisPool, entry>> /\ used' = used \cup {c}
    BY <1>2 DEF Accept
  <2>2. \A d \in Conns : InHand(d) => InHand(d)'
    BY <1>t, <2>1 DEF InHand, TypeOK
  <2>3. InHand(c)'
    BY <1>t, <2>1 DEF InHand, TypeOK
  <2> QED BY <1>u, <1>t, <2>1, <2>2, <2>3 DEF TypeOK
<1>3. ASSUME NEW l \in Listens, AcceptFails(l) \/ HandOverError(l) PROVE AcceptedServed'
  BY <1>k, <1>t, <1>3 DEF AcceptFails, HandOverError, TypeOK
<1>4. ASSUME NEW l \in Listens, HandOver(l) PROVE AcceptedServed'
  <2>1. /\ acc[l] \in Conns /\ pip[l] = "loop" /\ pip' = [pip EXCEPT ![l] = acc[l]]
        /\ acc' = [acc EXCEPT ![l] = "accept"] /\ UNCHANGED <<lisPool, entry, used>>
    BY <1>4 DEF HandOver
  <2>2. \A c \in Conns : InHand(c) => InHand(c)'
    <3> SUFFICES ASSUME NEW c \in Conns, InHand(c) PROVE InHand(c)'
      OBVIOUS
    <3>1. CASE acc[l] = c
      BY <1>t, <2>1, <3>1 DEF InHand, TypeOK
    <3>2. CASE acc[l] # c
      BY <1>t, <2>1, <3>2 DEF InHand, TypeOK
    <3> QED BY <3>1, <3>2
  <2> QED BY <1>u, <1>t, <2>1, <2>2 DEF TypeOK
<1>5. ASSUME NEW l \in Listens, AcceptCanceled(l) \/ PipeEnds(l) \/ PipePanics(l) \/ ServerEnds(l)
      PROVE  AcceptedServed'
  BY <1>k, <1>t, <1>0, <1>5 DEF AcceptCanceled, PipeEnds, PipePanics, ServerEnds, TypeOK
<1>6. ASSUME NEW l \in Listens, PipeToPool(l) PROVE AcceptedServed'
  <2>1. PICK i : i = inst[l]
    OBVIOUS
  <2>2. /\ lisPool' = [lisPool EXCEPT ![i] = pip[l]] /\ pip' = [pip EXCEPT ![l] = "loop"]
        /\ lisPool[i] = "loop"
        /\ UNCHANGED <<acc, entry, used>> /\ pip[l] # "none" /\ i \in Listens
    BY <1>6, <1>t, <2>1 DEF PipeToPool, ListenInv, ListenAt, Created
  <2>3. \A c \in Conns : InHand(c) => InHand(c)'
    <3> SUFFICES ASSUME NEW c \in Conns, InHand(c) PROVE InHand(c)'
      OBVIOUS
    <3>1. CASE pip[l] = c
      <4>1. lisPool'[i] = c
        BY <1>t, <2>2, <3>1 DEF TypeOK
      <4> QED BY <2>2, <4>1 DEF InHand
    <3>2. CASE pip[l] # c
      BY <1>t, <2>2, <3>2 DEF InHand, TypeOK
    <3> QED BY <3>1, <3>2
  <2> QED BY <1>u, <1>t, <2>2, <2>3 DEF TypeOK
<1>7. ASSUME NEW i \in Listens, PipePools(i) PROVE AcceptedServed'
  <2>1. PICK c \in Conns : c = lisPool[i]
    BY <1>7 DEF PipePools
  <2>2. /\ lisPool' = [lisPool EXCEPT ![i] = "loop"] /\ UNCHANGED <<acc, pip, used>>
        /\ \A d \in Conns \ {c} : entry'[d] = entry[d]
        /\ entry'[c] = IF CanPut(i, c) THEN i ELSE None
    BY <1>7, <1>t, <2>1 DEF PipePools, TypeOK
  <2>3. c \in used /\ entry[c] = None /\ net[i] = "tcp" /\ i # None
    BY <1>t, <2>1 DEF ProtocolInv, HandInv
  <2>4. \A d \in Conns \ {c} : InHand(d) => InHand(d)'
    BY <1>t, <2>1, <2>2 DEF InHand, TypeOK
  <2>5. entry'[c] # None \/ Rival(c, entry')
    <3>1. CASE CanPut(i, c)
      BY <2>2, <2>3, <3>1
    <3>2. CASE ~CanPut(i, c)
      <4>1. PICK y \in Listens \cup Conns : entry[y] = i /\ KeyOf(y) = KeyOf(c)
        BY <1>0, <3>2 DEF CanPut, Entries
      <4>2. y \in Conns
        BY <1>t, <2>3, <4>1 DEF EntryInv
      <4>3. y \in used /\ y # c /\ peer[y] = peer[c] /\ entry'[y] # None
        BY <1>t, <2>2, <2>3, <4>1, <4>2 DEF EntryInv, KeyOf
      <4> QED BY <4>3
    <3> QED BY <3>1, <3>2
  <2> QED
    <3>1. \A d \in Conns : entry[d] # None => entry'[d] # None
      BY <2>2, <2>3
    <3>2. \A d \in used : InHand(d) => InHand(d)' \/ entry'[d] # None \/ Rival(d, entry')
      BY <1>t, <2>4, <2>5 DEF TypeOK
    <3> QED BY <1>u, <2>2, <3>1, <3>2
<1>8. ASSUME NEW i \in Listens,
             \/ NoticeListeners(i) \/ NoticeConnections(i) \/ ListenersCanceled(i)
             \/ ListenersDone(i) \/ PoolReleases(i) \/ PoolReceives(i) \/ SendOnClosed(i)
             \/ LayerReceives(i)
      PROVE  AcceptedServed'
  <2>1. UNCHANGED <<acc, pip, entry, used>>
    BY <1>8, <1>0 DEF NoticeListeners, NoticeConnections, ListenersCanceled, ListenersDone,
                PoolReleases, PoolReceives, SendOnClosed, LayerReceives
  <2>2. lisPool' = lisPool
        \/ \E v \in {"done", "loop"} : lisPool' = [lisPool EXCEPT ![i] = v] /\ lisPool[i] \in {"wait", "err"}
    BY <1>8, <1>0 DEF NoticeListeners, NoticeConnections, ListenersCanceled, ListenersDone,
                PoolReleases, PoolReceives, SendOnClosed, LayerReceives
  <2> QED BY <1>k, <1>t, <2>1, <2>2 DEF TypeOK
<1>9. CASE LayerSteps \/ UpTaken \/ TpClose \/ UNCHANGED vars \/ \E c \in Conns : ConnEnds(c)
  <2>1. UNCHANGED <<acc, pip, lisPool, entry, used>>
    BY <1>9 DEF LayerSteps, LayerCanceled, ReleaseClose, ReleaseDel, ReleaseDone, UpTaken,
         TpClose, vars, ConnEnds
  <2> QED BY <1>k, <2>1
<1> QED BY <1>1, <1>2, <1>3, <1>4, <1>5, <1>6, <1>7, <1>8, <1>9
        DEF Next, HandlerSteps, PoolSteps

-----------------------------------------------------------------------------
(* Sockets and pools.                                                      *)

\* What closes a pool's map closes the sockets in it.
LEMMA SocketStep == IInv /\ [Next]_vars => SocketInv'
<1> SUFFICES ASSUME IInv, [Next]_vars PROVE SocketInv'
  OBVIOUS
<1> USE TransportAssumption DEF layerVars, listenVars, sockVars, poolVars, handlerVars
<1>t. TypeOK /\ MoreTypes /\ ListenInv /\ CancelInv /\ SocketInv
  BY DEF IInv
<1>s. \A l \in Listens : lpc[l] = "ok" => inst'[l] = inst[l] /\ net'[l] = net[l] /\ inst[l] \in Listens
  BY <1>t, Stable DEF ListenInv, ListenAt, Created
\* No Listen succeeds, and what a socket loses it loses with the socket.
<1>u. ASSUME \A l \in Listens : lpc'[l] = "ok" => lpc[l] = "ok",
             \A l \in Listens \cap open' : lpc[l] = "ok" =>
               /\ l \in open
               /\ entry[l] = inst[l] => entry'[l] = entry[l]
               /\ entry[l] = inst[l] /\ conPool'[inst[l]] = "done" => conPool[inst[l]] = "done"
               /\ l \in lisMap => l \in lisMap'
      PROVE  SocketInv'
  BY <1>u, <1>t, <1>s DEF SocketInv
<1>1. ASSUME NEW l \in Listens,
             ListenCheck(l) \/ ListenGet(l) \/ ListenOpen(l) \/ ListenPutCheck(l)
      PROVE  SocketInv'
  <2>1. /\ UNCHANGED <<entry, conPool, lisMap>> /\ open' \cap Listens \subseteq open \cup {l}
        /\ lpc[l] # "ok"
        /\ \E v \in {"refused", "get", "create", "open", "put", "serve"} : lpc' = [lpc EXCEPT ![l] = v]
    BY <1>1 DEF ListenCheck, ListenGet, ListenOpen, ListenPutCheck
  <2> QED BY <1>u, <1>t, <2>1 DEF TypeOK
<1>2. ASSUME NEW l \in Listens, ListenCreate(l) PROVE SocketInv'
  BY <1>u, <1>t, <1>2 DEF ListenCreate, TypeOK
<1>3. ASSUME NEW l \in Listens, ListenPutUdp(l) PROVE SocketInv'
  <2>1. /\ UNCHANGED <<net, inst, conPool, lisMap, open>> /\ net[l] = "udp" /\ lpc[l] = "put"
    BY <1>3 DEF ListenPutUdp
  <2>2. CASE CanPut(inst[l], l)
    <3>1. inst[l] \in Listens /\ conPool[inst[l]] # "done"
      BY <1>t, <2>1, <2>2 DEF CanPut, CancelInv, ListenInv, ListenAt, Created
    <3>2. lpc' = [lpc EXCEPT ![l] = "ok"] /\ entry' = [entry EXCEPT ![l] = inst[l]]
      BY <1>3, <2>2 DEF ListenPutUdp
    <3> QED BY <1>t, <2>1, <3>1, <3>2 DEF SocketInv, TypeOK
  <2>3. CASE ~CanPut(inst[l], l)
    BY <1>3, <1>u, <1>t, <2>1, <2>3 DEF ListenPutUdp, TypeOK
  <2> QED BY <2>2, <2>3
<1>4. ASSUME NEW l \in Listens, ListenPutTcp(l) PROVE SocketInv'
  <2>1. /\ UNCHANGED <<net, inst, conPool, entry, open>> /\ net[l] = "tcp"
        /\ lpc' = [lpc EXCEPT ![l] = "ok"] /\ lisMap' = lisMap \cup {l}
    BY <1>4, <1>t DEF ListenPutTcp, ListenInv, ListenAt
  <2> QED BY <1>t, <2>1 DEF SocketInv, TypeOK
<1>5. ASSUME NEW l \in Listens, HandlerSteps(l) \/ AcceptFails(l) \/ \E c \in Conns : Accept(l, c)
      PROVE  SocketInv'
  <2>1. UNCHANGED <<lpc, entry, conPool, lisMap>> /\ open' \cap Listens \subseteq open
    BY <1>5 DEF HandlerSteps, HandOver, HandOverError, AcceptCanceled, PipeEnds, PipeToPool,
                PipePanics, ServerEnds, AcceptFails, Accept, CloseListeners
  <2> QED BY <1>u, <2>1
<1>6. ASSUME NEW i \in Listens, ListenersCanceled(i) PROVE SocketInv'
  BY <1>u, <1>6 DEF ListenersCanceled, CloseListeners
<1>7. ASSUME NEW i \in Listens, PoolReleases(i) PROVE SocketInv'
  BY <1>u, <1>t, <1>s, <1>7 DEF PoolReleases, Entries, TypeOK
<1>8. ASSUME NEW i \in Listens, PipePools(i) PROVE SocketInv'
  <2>1. \A l \in Listens : entry'[l] = entry[l]
    BY <1>t, <1>8 DEF PipePools, TypeOK
  <2> QED BY <1>u, <1>8, <2>1 DEF PipePools
<1>9. ASSUME NEW i \in Listens, PoolReceives(i) \/ LayerReceives(i) PROVE SocketInv'
  <2>1. UNCHANGED <<lpc, entry, lisMap, open>>
    BY <1>9 DEF PoolReceives, LayerReceives
  <2>2. \A j \in Listens : conPool'[j] = "done" => conPool[j] = "done"
    BY <1>t, <1>9 DEF PoolReceives, LayerReceives, TypeOK
  <2> QED BY <1>u, <1>s, <2>1, <2>2
<1>10. CASE \/ \E i \in Listens : NoticeListeners(i) \/ NoticeConnections(i) \/ ListenersDone(i)
                                  \/ SendOnClosed(i)
            \/ LayerSteps \/ UpTaken \/ TpClose \/ UNCHANGED vars \/ \E c \in Conns : ConnEnds(c)
  <2>1. UNCHANGED <<lpc, entry, conPool, lisMap>> /\ open' \subseteq open
    BY <1>10 DEF NoticeListeners, NoticeConnections, ListenersDone, SendOnClosed, LayerSteps,
         LayerCanceled, ReleaseClose, ReleaseDel, ReleaseDone, UpTaken, TpClose, vars, ConnEnds
  <2> QED BY <1>u, <2>1
<1> QED BY <1>1, <1>2, <1>3, <1>4, <1>5, <1>6, <1>7, <1>8, <1>9, <1>10
        DEF Next, ListenSteps, PoolSteps

\* A protocol leaves protocolPool when another one takes its place, or when
\* release goes on to wait for it or for one that had taken its place.
LEMMA PoolsStep ==
    IInv /\ [Next]_vars =>
      \A i \in Listens : conPool'[i] \in {"loop", "msg", "err"} =>
        Replaced(i)' \/ protocols'[net'[i]] = i \/ layer' = i
<1> SUFFICES ASSUME IInv, [Next]_vars, NEW i \in Listens, conPool'[i] \in {"loop", "msg", "err"}
             PROVE  Replaced(i)' \/ protocols'[net'[i]] = i \/ layer' = i
  OBVIOUS
<1> USE TransportAssumption DEF layerVars, listenVars, sockVars, poolVars, handlerVars
<1>t. TypeOK /\ MoreTypes /\ ListenInv /\ ProtocolInv /\ CancelInv /\ RunningInv
  BY DEF IInv
\* A protocol that was there before.
<1>u. ASSUME conPool[i] \in {"loop", "msg", "err"},
             protocols[net[i]] = i => protocols'[net[i]] = i \/ layer' = i \/ Replaced(i)',
             layer = i => layer' = i
      PROVE  Replaced(i)' \/ protocols'[net'[i]] = i \/ layer' = i
  <2>1. inst[i] = i /\ net'[i] = net[i] /\ i # None
    BY <1>u, <1>t, Stable DEF ProtocolInv
  <2>2. Replaced(i) => Replaced(i)'
    <3> SUFFICES ASSUME NEW j \in Listens \ {i}, inst[j] = j /\ net[j] = net[i]
                 PROVE  inst'[j] = j /\ net'[j] = net'[i]
      BY DEF Replaced
    <3> QED BY <2>1, Stable
  <2> QED BY <1>u, <1>t, <2>1, <2>2 DEF RunningInv
<1>1. ASSUME NEW l \in Listens, ListenCreate(l) PROVE Replaced(i)' \/ protocols'[net'[i]] = i \/ layer' = i
  <2>1. /\ inst'[l] = l /\ protocols' = [protocols EXCEPT ![net[l]] = l] /\ net' = net
        /\ net[l] \in Nets /\ layer' = layer /\ conPool' = [conPool EXCEPT ![l] = "loop"]
    BY <1>1, <1>t DEF ListenCreate, ListenInv, ListenAt, TypeOK
  <2>2. CASE i = l
    BY <1>t, <2>1, <2>2 DEF TypeOK
  <2>3. CASE i # l /\ net[i] = net[l]
    BY <2>1, <2>3 DEF Replaced
  <2>4. CASE i # l /\ net[i] # net[l]
    <3>1. conPool[i] \in {"loop", "msg", "err"} /\ protocols'[net[i]] = protocols[net[i]]
      BY <1>t, <2>1, <2>4 DEF TypeOK
    <3> QED BY <1>u, <2>1, <3>1
  <2> QED BY <2>2, <2>3, <2>4
<1>2. ASSUME NEW j \in Listens, ReleaseDel(j) PROVE Replaced(i)' \/ protocols'[net'[i]] = i \/ layer' = i
  <2>1. /\ layer = "release" /\ layer' = j /\ protocols' = [protocols EXCEPT ![net[j]] = None]
        /\ UNCHANGED <<inst, net, conPool>> /\ inst[j] = j
    BY <1>2, <1>t DEF ReleaseDel, ProtocolInv, Created
  <2>2. CASE net[i] = net[j]
    BY <2>1, <2>2 DEF Replaced
  <2>3. CASE net[i] # net[j]
    <3>1. protocols'[net[i]] = protocols[net[i]]
      BY <1>t, <2>1, <2>3 DEF TypeOK
    <3> QED BY <1>u, <2>1, <3>1
  <2> QED BY <2>2, <2>3
<1>3. ASSUME NEW j \in Listens, ReleaseDone(j) PROVE Replaced(i)' \/ protocols'[net'[i]] = i \/ layer' = i
  BY <1>3, <1>u DEF ReleaseDone
<1>4. ASSUME NEW j \in Listens, PoolReceives(j) \/ PoolReleases(j) \/ LayerReceives(j)
      PROVE  Replaced(i)' \/ protocols'[net'[i]] = i \/ layer' = i
  <2>2. UNCHANGED <<protocols, net>> /\ (layer' = layer \/ layer = "loop")
    BY <1>4 DEF PoolReceives, PoolReleases, LayerReceives
  <2>3. conPool[i] \in {"loop", "msg", "err"}
    BY <1>4, <1>t DEF PoolReceives, PoolReleases, LayerReceives, TypeOK
  <2> QED BY <1>u, <2>2, <2>3
<1>5. CASE LayerCanceled \/ ReleaseClose \/ UpTaken
  BY <1>5, <1>u DEF LayerCanceled, ReleaseClose, UpTaken
<1>6. ASSUME UNCHANGED <<protocols, layer, conPool>>
      PROVE  Replaced(i)' \/ protocols'[net'[i]] = i \/ layer' = i
  BY <1>6, <1>u
<1>7. ASSUME NEW l \in Listens,
             \/ ListenCheck(l) \/ ListenGet(l) \/ ListenOpen(l) \/ ListenPutUdp(l)
             \/ ListenPutCheck(l) \/ ListenPutTcp(l)
             \/ HandlerSteps(l) \/ AcceptFails(l) \/ \E c \in Conns : Accept(l, c)
             \/ NoticeListeners(l) \/ NoticeConnections(l) \/ ListenersCanceled(l)
             \/ ListenersDone(l) \/ PipePools(l) \/ SendOnClosed(l)
      PROVE  UNCHANGED <<protocols, layer, conPool>>
  BY <1>7 DEF ListenCheck, ListenGet, ListenOpen, ListenPutUdp, ListenPutCheck, ListenPutTcp,
       HandlerSteps, HandOver, HandOverError, AcceptCanceled, PipeEnds, PipeToPool, PipePanics,
       ServerEnds, AcceptFails, Accept, NoticeListeners, NoticeConnections, ListenersCanceled,
       ListenersDone, PipePools, SendOnClosed
<1>8. CASE TpClose \/ UNCHANGED vars \/ \E c \in Conns : ConnEnds(c)
  BY <1>8, <1>6 DEF TpClose, vars, ConnEnds
<1> QED BY <1>1, <1>2, <1>3, <1>4, <1>5, <1>6, <1>7, <1>8
        DEF Next, ListenSteps, PoolSteps, LayerSteps

\* The goroutines of a handler that the pool knew of have returned when the
\* listener pool is done; only a handler put later sends on its closed channels.
LEMMA RunningStep == IInv /\ [Next]_vars => RunningInv'
<1> SUFFICES ASSUME IInv, [Next]_vars PROVE RunningInv'
  OBVIOUS
<1> USE TransportAssumption DEF layerVars, listenVars, sockVars, poolVars, handlerVars
<1>t. TypeOK /\ MoreTypes /\ ListenInv /\ ProtocolInv /\ CancelInv /\ RunningInv
  BY DEF IInv
<1> DEFINE Late == \A l \in Listens : HandlerRuns(l) /\ lisPool[inst[l]] = "done" => l \in lisMap
<1>a. Late'
  <2>s. \A l \in Listens : acc[l] # "none" => inst'[l] = inst[l] /\ inst[l] \in Listens
    BY <1>t, Stable DEF ListenInv, ListenAt, Created
  <2>h. \A l \in Listens : HandlerRuns(l) => acc[l] # "none"
    BY <1>t DEF HandlerRuns, ListenInv, ListenAt
  <2>u. ASSUME \A l \in Listens : HandlerRuns(l)' => HandlerRuns(l),
               \A l \in Listens : acc[l] # "none" /\ l \in lisMap /\ lisPool[inst[l]] = "done" => l \in lisMap',
               \A i \in Listens : lisPool'[i] = "done" => lisPool[i] = "done"
        PROVE  Late'
    BY <2>u, <2>s, <2>h, <1>t DEF RunningInv
  <2>1. ASSUME NEW l \in Listens, ListenPutTcp(l) PROVE Late'
    <3>1. /\ UNCHANGED <<inst, lisPool>> /\ lisMap' = lisMap \cup {l}
          /\ \A m \in Listens \ {l} : acc'[m] = acc[m] /\ pip'[m] = pip[m]
      BY <1>t, <2>1 DEF ListenPutTcp, TypeOK
    <3> QED BY <1>t, <3>1 DEF RunningInv, HandlerRuns
  <2>2. ASSUME NEW l \in Listens, ListenCreate(l) PROVE Late'
    BY <1>t, <2>u, <2>2 DEF ListenCreate, TypeOK, HandlerRuns
  <2>3. ASSUME NEW l \in Listens,
               \/ ListenCheck(l) \/ ListenGet(l) \/ ListenOpen(l) \/ ListenPutUdp(l) \/ ListenPutCheck(l)
        PROVE  Late'
    BY <2>u, <2>3 DEF ListenCheck, ListenGet, ListenOpen, ListenPutUdp, ListenPutCheck, HandlerRuns
  <2>4. ASSUME NEW l \in Listens,
               \/ AcceptFails(l) \/ HandOver(l) \/ HandOverError(l) \/ \E c \in Conns : Accept(l, c)
        PROVE  Late'
    <3>1. UNCHANGED <<lisPool, lisMap>>
      BY <2>4 DEF AcceptFails, HandOver, HandOverError, Accept
    <3>2. HandlerRuns(l) /\ \A m \in Listens \ {l} : acc'[m] = acc[m] /\ pip'[m] = pip[m]
      BY <1>t, <2>4 DEF AcceptFails, HandOver, HandOverError, Accept, HandlerRuns, TypeOK
    <3> QED BY <2>u, <3>1, <3>2 DEF HandlerRuns
  <2>5. ASSUME NEW l \in Listens, AcceptCanceled(l) \/ PipeEnds(l) \/ PipePanics(l) \/ ServerEnds(l)
        PROVE  Late'
    <3>1. UNCHANGED <<lisPool, lisMap>>
      BY <2>5 DEF AcceptCanceled, PipeEnds, PipePanics, ServerEnds
    <3>2. \A m \in Listens : acc'[m] \in {acc[m], "gone"} /\ pip'[m] \in {pip[m], "gone"}
      BY <1>t, <2>5 DEF AcceptCanceled, PipeEnds, PipePanics, ServerEnds, TypeOK
    <3> QED BY <2>u, <3>1, <3>2 DEF HandlerRuns
  <2>6. ASSUME NEW l \in Listens, PipeToPool(l) PROVE Late'
    <3>1. /\ UNCHANGED <<lisMap, acc>> /\ HandlerRuns(l)
          /\ \A m \in Listens \ {l} : pip'[m] = pip[m]
      BY <1>t, <2>6 DEF PipeToPool, HandlerRuns, TypeOK
    <3>2. \A i \in Listens : lisPool'[i] = "done" => lisPool[i] = "done"
      BY <1>t, <2>6 DEF PipeToPool, TypeOK
    <3> QED BY <2>u, <3>1, <3>2 DEF HandlerRuns
  <2>7. ASSUME NEW i \in Listens, ListenersCanceled(i) PROVE Late'
    <3>1. UNCHANGED <<acc, pip>> /\ lisPool[i] # "done" /\ lisMap' = lisMap \ Of(i)
      BY <2>7 DEF ListenersCanceled
    <3>2. \A j \in Listens : lisPool'[j] = "done" => lisPool[j] = "done"
      BY <1>t, <2>7 DEF ListenersCanceled, TypeOK
    <3> QED BY <2>u, <3>1, <3>2 DEF HandlerRuns, Of
  <2>8. ASSUME NEW i \in Listens, ListenersDone(i) PROVE Late'
    <3>1. /\ UNCHANGED <<acc, pip, inst, lisMap>> /\ lisPool' = [lisPool EXCEPT ![i] = "done"]
          /\ \A l \in Listens : inst[l] = i => ~HandlerRuns(l)
      BY <2>8 DEF ListenersDone
    <3> QED BY <1>t, <2>s, <2>h, <3>1 DEF RunningInv, HandlerRuns, TypeOK
  <2>9. ASSUME NEW i \in Listens, PipePools(i) \/ LayerReceives(i) PROVE Late'
    <3>1. UNCHANGED <<acc, pip, lisMap>>
      BY <2>9 DEF PipePools, LayerReceives
    <3>2. \A j \in Listens : lisPool'[j] = "done" => lisPool[j] = "done"
      BY <1>t, <2>9 DEF PipePools, LayerReceives, TypeOK
    <3> QED BY <2>u, <3>1, <3>2 DEF HandlerRuns
  <2>10. ASSUME \/ \E i \in Listens : \/ NoticeListeners(i) \/ NoticeConnections(i) \/ PoolReleases(i)
                                      \/ PoolReceives(i) \/ SendOnClosed(i)
                \/ LayerSteps \/ UpTaken \/ TpClose \/ UNCHANGED vars \/ \E c \in Conns : ConnEnds(c)
         PROVE  Late'
    <3>1. UNCHANGED <<acc, pip, lisMap, lisPool>>
      BY <2>10 DEF NoticeListeners, NoticeConnections, PoolReleases, PoolReceives, SendOnClosed,
           LayerSteps, LayerCanceled, ReleaseClose, ReleaseDel, ReleaseDone, UpTaken, TpClose,
           vars, ConnEnds
    <3> QED BY <2>u, <3>1 DEF HandlerRuns
  <2> QED BY <2>1, <2>2, <2>3, <2>4, <2>5, <2>6, <2>7, <2>8, <2>9, <2>10
          DEF Next, ListenSteps, HandlerSteps, PoolSteps
<1>b. ASSUME proc' = "listenerHandler" PROVE \E l \in Listens : LateListen(l)'
  <2>1. ASSUME NEW l \in Listens, PipePanics(l) PROVE LateListen(l)'
    <3>1. /\ UNCHANGED <<lpc, lisMap, lisPool, inst>> /\ HandlerRuns(l) /\ lisPool[inst[l]] = "done"
      BY <1>t, <2>1 DEF PipePanics, HandlerRuns
    <3>2. lpc[l] = "ok" /\ l \in lisMap
      BY <1>t, <3>1 DEF RunningInv, HandlerRuns, ListenInv, ListenAt
    <3> QED BY <3>1, <3>2 DEF LateListen
  <2>2. CASE UNCHANGED vars
    <3>1. proc = "listenerHandler" /\ UNCHANGED <<lpc, lisMap, lisPool, inst>>
      BY <1>b, <2>2 DEF vars
    <3> QED BY <1>t, <3>1 DEF RunningInv, LateListen
  <2>3. CASE Next /\ \A l \in Listens : ~PipePanics(l)
    <3>1. ASSUME NEW l \in Listens, ListenSteps(l) PROVE FALSE
      BY <1>b, <3>1 DEF ListenSteps, ListenCheck, ListenGet, ListenCreate, ListenOpen,
           ListenPutUdp, ListenPutCheck, ListenPutTcp, Running
    <3>2. ASSUME NEW l \in Listens, HandlerSteps(l) \/ AcceptFails(l) \/ \E c \in Conns : Accept(l, c)
          PROVE  FALSE
      BY <1>b, <2>3, <3>2 DEF HandlerSteps, HandOver, HandOverError, AcceptCanceled, PipeEnds,
           PipeToPool, ServerEnds, AcceptFails, Accept, Running
    <3>3. ASSUME NEW i \in Listens, PoolSteps(i) \/ PoolReceives(i) \/ LayerReceives(i) \/ SendOnClosed(i)
          PROVE  FALSE
      BY <1>b, <3>3 DEF PoolSteps, NoticeListeners, NoticeConnections, ListenersCanceled,
           ListenersDone, PipePools, PoolReleases, PoolReceives, LayerReceives, SendOnClosed, Running
    <3>4. ASSUME LayerSteps \/ UpTaken \/ TpClose \/ \E c \in Conns : ConnEnds(c) PROVE FALSE
      BY <1>b, <3>4 DEF LayerSteps, LayerCanceled, ReleaseClose, ReleaseDel, ReleaseDone, UpTaken,
           TpClose, ConnEnds, Running
    <3> QED BY <2>3, <3>1, <3>2, <3>3, <3>4 DEF Next
  <2> QED BY <2>1, <2>2, <2>3
<1> QED BY <1>a, <1>b, PoolsStep DEF RunningInv

-----------------------------------------------------------------------------
(* The theorems.                                                           *)

\* The invariant holds in every reachable state.
THEOREM Inductive == Spec => []IInv
<1>1. IInv /\ [Next]_vars => IInv'
  BY TypeStep, ListenStep, ProtocolStep, CancelStep, HandStep, EntryStep, AcceptedStep,
     SocketStep, RunningStep DEF IInv
<1> QED BY <1>1, InitInv, PTL DEF Spec

\* What release, listenerPool and connectionPool leave behind is what a Listen
\* made that came late or was replaced: the types, SocketsClosed, DoneAfterPools.
THEOREM NothingIsLeft == Spec => []NothingLeft
<1>1. IInv => SocketsClosed
  BY DEF IInv, SocketsClosed, SocketInv, ListenInv, ListenAt, LateListen
<1>2. IInv => DoneAfterPools
  <2> SUFFICES ASSUME IInv, layer = "closed",
                      NEW i \in Listens, conPool[i] \in {"loop", "msg", "err"}
               PROVE  Unwaited(i) \/ MadeLate(i)
    BY DEF IInv, RunningInv, DoneAfterPools
  <2>1. inst[i] = i
    BY DEF IInv, ProtocolInv
  <2>2. Replaced(i) => Unwaited(i)
    BY <2>1 DEF Replaced, Unwaited
  <2> QED BY <2>1, <2>2, TransportAssumption DEF IInv, RunningInv, MadeLate
<1>3. IInv => NothingLeft
  BY <1>1, <1>2 DEF NothingLeft, IInv
<1> QED BY <1>3, Inductive, PTL

\* Before Close no accepted connection is forgotten by acceptConnections,
\* pipeOutputs, the listener pool or pipePools, but for a rival of the same peer.
THEOREM ConnectionsServed == Spec => []AcceptedServed
<1>1. IInv => AcceptedServed
  BY DEF IInv
<1> QED BY <1>1, Inductive, PTL

\* listenProtocolNotice, Close and release implement module Layer: offers one at
\* a time, Done only after Close and with nothing on offer, nothing afterwards.
THEOREM Implements == Spec => ImplementsLayer
<1> USE TransportAssumption DEF Contract!Next, Contract!vars, Contract!Offer, Contract!Take,
        Contract!Close, Contract!Finish
<1>1. Init => Contract!Init
  BY DEF Init, Contract!Init
<1>2. IInv /\ [Next]_vars => [Contract!Next]_(Contract!vars)
  <2> SUFFICES ASSUME IInv, [Next]_vars PROVE [Contract!Next]_(Contract!vars)
    OBVIOUS
  <2>t. layer \in Listens \cup {"release", "closed"} => cancel
    BY DEF IInv, CancelInv
  <2>u. ASSUME UNCHANGED <<cancel, layer>> PROVE [Contract!Next]_(Contract!vars)
    BY <2>u
  <2>1. ASSUME NEW l \in Listens, ListenSteps(l) PROVE UNCHANGED <<cancel, layer>>
    BY <2>1 DEF ListenSteps, ListenCheck, ListenGet, ListenCreate, ListenOpen, ListenPutUdp,
                ListenPutCheck, ListenPutTcp, layerVars
  <2>2. ASSUME NEW l \in Listens, HandlerSteps(l) \/ AcceptFails(l) \/ \E c \in Conns : Accept(l, c)
        PROVE  UNCHANGED <<cancel, layer>>
    BY <2>2 DEF HandlerSteps, HandOver, HandOverError, AcceptCanceled, PipeEnds, PipeToPool,
         PipePanics, ServerEnds, AcceptFails, Accept, layerVars
  <2>3. ASSUME NEW i \in Listens, PoolSteps(i) \/ PoolReceives(i) \/ SendOnClosed(i)
        PROVE  UNCHANGED <<cancel, layer>>
    BY <2>3 DEF PoolSteps, NoticeListeners, NoticeConnections, ListenersCanceled, ListenersDone,
         PipePools, PoolReleases, PoolReceives, SendOnClosed, layerVars
  <2>4. ASSUME NEW i \in Listens, LayerReceives(i) PROVE Contract!Offer
    BY <2>4 DEF LayerReceives
  <2>5. CASE UpTaken
    BY <2>5 DEF UpTaken
  <2>6. CASE TpClose
    BY <2>t, <2>6 DEF TpClose
  <2>7. CASE LayerCanceled
    BY <2>t, <2>7 DEF LayerCanceled
  <2>8. ASSUME NEW i \in Listens, ReleaseDel(i) \/ ReleaseDone(i) PROVE [Contract!Next]_(Contract!vars)
    BY <2>8 DEF ReleaseDel, ReleaseDone
  <2>9. CASE ReleaseClose
    BY <2>t, <2>9 DEF ReleaseClose
  <2>10. CASE UNCHANGED vars \/ \E c \in Conns : ConnEnds(c)
    BY <2>u, <2>10 DEF vars, ConnEnds, layerVars
  <2> QED BY <2>u, <2>1, <2>2, <2>3, <2>4, <2>5, <2>6, <2>7, <2>8, <2>9, <2>10
          DEF Next, LayerSteps
<1> QED BY <1>1, <1>2, Inductive, PTL DEF Spec, ImplementsLayer, Contract!Spec
=============================================================================
