------------------------------ MODULE Sending -------------------------------
(***************************************************************************)
(* Send of the transport layer (src/transport/transport.go) and of its     *)
(* protocols (udp.go, tcp.go), over the connection pools' maps.  The rest  *)
(* of the layer is what module Layer says of it (Transport implements      *)
(* that), with the sockets that Listen and accepted connections add.       *)
(* A Send looks at the protocols, the pools and the connections one after  *)
(* the other, while connections come and go and the layer closes.          *)
(***************************************************************************)
EXTENDS Naturals, Sequences

CONSTANTS Sends,        \* calls of Send
          Conns,        \* TCP connections, accepted or dialed
          Ports,        \* local UDP ports
          DefaultPort,  \* 5060
          Peers,        \* remote addresses, the keys of TCP connections
          None          \* no message, no port, no connection

ASSUME SendingAssumption ==
    /\ DefaultPort \in Ports
    /\ None \notin Ports \cup Conns

Nets == {"udp", "tcp"}

\* What Send is given: the kind, whether the text is longer than MTU - 200, the
\* network of the Via (of a response), the port of Source() and the remote
\* address.  A request has no source of its own, and Send writes the default
\* port into its Via; a response has what the Request-URI of its request said,
\* which may have no port.
Messages ==
    [kind : {"request"}, long : BOOLEAN, via : {None}, port : {DefaultPort}, to : Peers]
    \cup
    [kind : {"response"}, long : {FALSE}, via : Nets, port : Ports \cup {None}, to : Peers]

VARIABLES
    phase,    \* the layer, as in module Layer
    up,       \* what it passes up, as in module Layer
    made,     \* networks with a protocol in protocolPool
    noticed,  \* networks whose connection pool has heard of cancel
    udp,      \* ports of the UDP sockets in the UDP pool
    conn,     \* "none", "dialed", "served", "dead" (has an entry), "lost" (open), "closed"
    peer,     \* the remote address of each connection
    snd,      \* progress of each Send: "none", "try", "dial", "ended"
    msg,      \* its message
    nets,     \* the networks it still has to try
    dial,     \* the connection it dialed, or None
    proc      \* "up", or the panic that took the process down

layerVars == <<phase, up>>
tpVars    == <<made, noticed, udp, conn, peer>>
sendVars  == <<snd, msg, nets, dial>>
sending   == <<layerVars, tpVars, sendVars, proc>>

L == INSTANCE Layer

SendingInit ==
    /\ L!Init
    /\ made = {} /\ noticed = {} /\ udp = {}
    /\ conn = [c \in Conns |-> "none"] /\ peer \in [Conns -> Peers]
    /\ snd = [s \in Sends |-> "none"] /\ msg = [s \in Sends |-> None]
    /\ nets = [s \in Sends |-> <<>>] /\ dial = [s \in Sends |-> None]
    /\ proc = "up"

Running == proc = "up"

-----------------------------------------------------------------------------
(* The rest of the layer.                                                  *)

\* Listen: the protocol is made, and for UDP the socket is put into its pool.
Listen(n, p) ==
    /\ Running /\ phase = "open"
    /\ made' = made \cup {n}
    /\ udp' = IF n = "udp" THEN udp \cup {p} ELSE udp
    /\ UNCHANGED <<layerVars, noticed, conn, peer, sendVars, proc>>

\* The pool's map has an entry for the address, alive or dead.
Entry(a) == \E c \in Conns : peer[c] = a /\ conn[c] \in {"served", "dead"}

\* What connectionPool.Put makes of a connection.
PutConn(c) == IF "tcp" \in noticed \/ Entry(peer[c]) THEN "lost" ELSE "served"

\* A connection is accepted and put.
Accepted(c) ==
    /\ Running /\ "tcp" \in made /\ conn[c] = "none"
    /\ conn' = [conn EXCEPT ![c] = PutConn(c)]
    /\ UNCHANGED <<layerVars, made, noticed, udp, peer, sendVars, proc>>

\* A connection ends.  Its entry stays in the map.
ConnEnds(c) ==
    /\ Running /\ conn[c] = "served"
    /\ conn' = [conn EXCEPT ![c] = "dead"]
    /\ UNCHANGED <<layerVars, made, noticed, udp, peer, sendVars, proc>>

\* A pool hears of cancel, and closes its sockets.
Notice(n) ==
    /\ Running /\ phase # "open" /\ n \notin noticed
    /\ noticed' = noticed \cup {n}
    /\ IF n = "udp" THEN udp' = {} /\ UNCHANGED conn
       ELSE /\ conn' = [c \in Conns |-> IF conn[c] \in {"served", "dead"} THEN "closed"
                                        ELSE conn[c]]
            /\ UNCHANGED udp
    /\ UNCHANGED <<layerVars, made, peer, sendVars, proc>>

\* release removes a protocol.
Release(n) ==
    /\ Running /\ phase = "closing" /\ n \in made
    /\ made' = made \ {n}
    /\ UNCHANGED <<layerVars, noticed, udp, conn, peer, sendVars, proc>>

\* listenProtocolNotice passes up what it has from a pool, and ends when every
\* protocol is removed and done.
LayerOffers ==
    /\ Running /\ noticed # Nets
    /\ L!Offer
    /\ UNCHANGED <<tpVars, sendVars, proc>>

LayerFinishes ==
    /\ Running /\ made = {} /\ noticed = Nets
    /\ L!Finish
    /\ UNCHANGED <<tpVars, sendVars, proc>>

\* The layer closes and withdraws what it was passing up.
LayerWithdraws ==
    /\ Running /\ phase = "closing" /\ L!Take
    /\ UNCHANGED <<tpVars, sendVars, proc>>

-----------------------------------------------------------------------------
(* Send.                                                                   *)

\* RFC 3261 18.1.1: a long request tries TCP first.
Order(m) == IF m.kind = "response" THEN <<m.via>>
            ELSE IF m.long THEN <<"tcp", "udp">> ELSE <<"udp", "tcp">>

\* layer.Send checks cancel.
SendCheck(s, m) ==
    /\ Running /\ snd[s] = "none"
    /\ IF phase # "open"
         THEN snd' = [snd EXCEPT ![s] = "ended"] /\ UNCHANGED <<msg, nets>>
         ELSE /\ snd' = [snd EXCEPT ![s] = "try"]
              /\ msg' = [msg EXCEPT ![s] = m]
              /\ nets' = [nets EXCEPT ![s] = Order(m)]
    /\ UNCHANGED <<layerVars, tpVars, dial, proc>>

\* Send returns.
Ends(s) ==
    /\ snd' = [snd EXCEPT ![s] = "ended"]
    /\ nets' = [nets EXCEPT ![s] = <<>>]
    /\ UNCHANGED msg

\* This network failed: the next one, or the error is returned.
TryNext(s) ==
    IF Len(nets[s]) = 1
      THEN Ends(s)
      ELSE /\ snd' = [snd EXCEPT ![s] = "try"]
           /\ nets' = [nets EXCEPT ![s] = Tail(@)]
           /\ UNCHANGED msg

\* There is no protocol for the network.
SendNoProtocol(s) ==
    /\ Running /\ snd[s] = "try"
    /\ Head(nets[s]) \notin made
    /\ TryNext(s)
    /\ UNCHANGED <<layerVars, tpVars, dial, proc>>

\* udpProtocol.Send: the socket of the source port, or an error when the pool
\* is canceled or empty.  The write may fail.
SendUdp(s) ==
    /\ Running /\ snd[s] = "try" /\ Head(nets[s]) = "udp" /\ "udp" \in made
    /\ \/ "udp" \notin noticed /\ msg[s].port \in udp /\ (Ends(s) \/ TryNext(s))
       \/ ("udp" \in noticed \/ udp = {}) /\ TryNext(s)
    /\ UNCHANGED <<layerVars, tpVars, dial, proc>>

\* No socket has the source port, and All()[0] is one of the nil elements that
\* all() puts before the connections.
SendUdpNil(s) ==
    /\ Running /\ snd[s] = "try" /\ Head(nets[s]) = "udp" /\ "udp" \in made
    /\ "udp" \notin noticed /\ udp # {} /\ msg[s].port \notin udp
    /\ proc' = "nilConnection"
    /\ UNCHANGED <<layerVars, tpVars, sendVars>>

\* getOrCreateConnection finds the connection, and Write fails if it is dead.
SendTcp(s) ==
    /\ Running /\ snd[s] = "try" /\ Head(nets[s]) = "tcp" /\ "tcp" \in made \ noticed
    /\ \E c \in Conns :
         /\ peer[c] = msg[s].to
         /\ \/ conn[c] = "served" /\ (Ends(s) \/ TryNext(s))
            \/ conn[c] = "dead" /\ TryNext(s)
    /\ UNCHANGED <<layerVars, tpVars, dial, proc>>

\* No connection: DialTCP, which may fail.
SendDial(s) ==
    /\ Running /\ snd[s] = "try" /\ Head(nets[s]) = "tcp" /\ "tcp" \in made
    /\ "tcp" \in noticed \/ ~Entry(msg[s].to)
    /\ \/ \E c \in Conns :
            /\ conn[c] = "none" /\ peer[c] = msg[s].to
            /\ conn' = [conn EXCEPT ![c] = "dialed"]
            /\ dial' = [dial EXCEPT ![s] = c]
            /\ snd' = [snd EXCEPT ![s] = "dial"]
            /\ UNCHANGED <<msg, nets>>
       \/ TryNext(s) /\ UNCHANGED <<conn, dial>>
    /\ UNCHANGED <<layerVars, made, noticed, udp, peer, proc>>

\* Mutant of SendPut: the connection is written to and not put.
SendPut_NotPut(s) ==
    /\ Running /\ snd[s] = "dial"
    /\ conn' = [conn EXCEPT ![dial[s]] = "lost"]
    /\ Ends(s) \/ TryNext(s)
    /\ dial' = [dial EXCEPT ![s] = None]
    /\ UNCHANGED <<layerVars, made, noticed, udp, peer, proc>>

\* connections.Put, and the write.  Refused, the dialed connection stays open
\* and Send fails, although the address was reached.
SendPut(s) ==
    /\ Running /\ snd[s] = "dial"
    /\ conn' = [conn EXCEPT ![dial[s]] = PutConn(dial[s])]
    /\ TryNext(s) \/ (PutConn(dial[s]) = "served" /\ Ends(s))
    /\ dial' = [dial EXCEPT ![s] = None]
    /\ UNCHANGED <<layerVars, made, noticed, udp, peer, proc>>

SendSteps(s) ==
    \/ SendNoProtocol(s) \/ SendUdp(s) \/ SendUdpNil(s) \/ SendTcp(s) \/ SendDial(s)
    \/ SendPut(s)

SendingNext ==
    \/ \E n \in Nets : Notice(n) \/ Release(n) \/ \E p \in Ports : Listen(n, p)
    \/ \E c \in Conns : Accepted(c) \/ ConnEnds(c)
    \/ \E s \in Sends : SendSteps(s)
    \/ LayerOffers \/ LayerFinishes \/ LayerWithdraws

-----------------------------------------------------------------------------
(* Properties.                                                             *)

\* Who listens for UDP on the default port can send requests: the nil
\* connection is only written to by a request whose port nobody listens on, or
\* by a response whose request named another port, or none.
NilWithoutPort ==
    proc = "nilConnection" =>
        \/ DefaultPort \notin udp
        \/ \E s \in Sends : snd[s] = "try" /\ msg[s].kind = "response"
                            /\ msg[s].port \notin udp

\* A connection that was established while the layer is open is served, or in
\* the hands of its sender, unless another one to the same address is.
NoConnectionLost ==
    phase = "open" => \A c \in Conns : conn[c] = "lost" => Entry(peer[c])

=============================================================================
