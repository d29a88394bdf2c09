---------------------------- MODULE ServiceProofs ----------------------------
(***************************************************************************)
(* Proofs about Service over Sending, for any number of sends, of TCP      *)
(* connections, UDP ports and remote addresses, and of callers of Close.   *)
(***************************************************************************)
EXTENDS Service, FiniteSetTheorems, TLAPS

-----------------------------------------------------------------------------
(* The inductive invariant: its part about Sending ...                     *)

SendingType ==
    /\ phase \in {"open", "closing", "closed"} /\ up \in {"none", "msg", "err"}
    /\ made \subseteq Nets /\ noticed \subseteq Nets /\ udp \subseteq Ports
    /\ conn \in [Conns -> {"none", "dialed", "served", "dead", "lost", "closed"}]
    /\ peer \in [Conns -> Peers]
    /\ snd \in [Sends -> {"none", "try", "dial", "ended"}]
    /\ msg \in [Sends -> Messages \cup {None}]
    /\ dial \in [Sends -> Conns \cup {None}]
    /\ proc \in {"up", "nilConnection", "closeNil"}

\* A Send under way has a message, and has in hand, alone, the connection it
\* dialed, which no pool knows of.
DialInv ==
    \A s \in Sends :
      /\ snd[s] \in {"try", "dial"} => msg[s] \in Messages
      /\ snd[s] = "dial" =>
           /\ dial[s] \in Conns /\ conn[dial[s]] = "dialed"
           /\ \A t \in Sends \ {s} : snd[t] = "dial" => dial[t] # dial[s]

\* The pools hear of cancel only after Close of the transport layer.
NoticeInv == phase = "open" => noticed = {}

SendInv == SendingType /\ DialInv /\ NoticeInv /\ NilWithoutPort /\ NoConnectionLost

(* ... and its part about the service.                                     *)

\* The handlers hwg counts: added by start and not returned.
Counted == {s \in Sends : req[s] \in {"handle", "send"}}

\* service.hwg is the number of these handlers; the request that start holds is
\* not one of them yet.
CountInv ==
    /\ IsFiniteSet(Counted) /\ hwg = Cardinality(Counted)
    /\ \A s \in Sends : start = s => req[s] = "got"

\* stop goes on to the transport layer when the transaction layer refuses all
\* sends.
StopInv == stop \in {"tp", "hwg", "close", "panic"} => txl # "open"

IInv == TypeOK /\ SendInv /\ CountInv /\ StopInv /\ QuietAfterStop

-----------------------------------------------------------------------------
(* Sending.                                                                *)

\* What a step of the service is to the transport layer: a step of its own, a
\* Send that begins, something of module Layer, the panic of close, or nothing.
SendingStep ==
    \/ SendingNext
    \/ \E s \in Sends, m \in Messages : SendCheck(s, m)
    \/ (L!Take \/ L!Close) /\ UNCHANGED <<tpVars, sendVars, proc>> /\ Running
    \/ proc' = "closeNil" /\ UNCHANGED <<layerVars, tpVars, sendVars>>
    \/ UNCHANGED sending

LEMMA StepOfSending == [Next]_vars => SendingStep
<1> SUFFICES ASSUME [Next]_vars PROVE SendingStep
  OBVIOUS
<1> USE DEF SendingStep
<1>1. ASSUME NEW s \in Sends,
             \/ TxTakes(s) \/ TxPassesUp(s) \/ StartHandles(s)
             \/ HandlerReturns(s) \/ CallbackSends(s)
      PROVE  SendingStep
  BY <1>1 DEF TxTakes, TxPassesUp, StartHandles, HandlerReturns, Handled, NotAllowed,
              NotAllowedDone, CallbackSends
<1>2. CASE StartLogs \/ CloseBegins \/ CloseWaits
  BY <1>2 DEF StartLogs, CloseBegins, CloseWaits
<1>3. CASE ServiceSteps
  BY <1>3 DEF ServiceSteps, StartEnds, StopTx, StopTp, StopWait, StopClose, TxDone
<1>4. CASE UNCHANGED vars
  BY <1>4 DEF vars
<1> QED BY <1>1, <1>2, <1>3, <1>4 DEF Next


\* What Ends and TryNext do to a Send.
LEMMA SendMoves ==
    ASSUME SendingType, NEW s \in Sends, Ends(s) \/ TryNext(s)
    PROVE  /\ msg' = msg
           /\ snd' \in [Sends -> {"none", "try", "dial", "ended"}]
           /\ snd'[s] \in {"try", "ended"}
           /\ \A t \in Sends \ {s} : snd'[t] = snd[t]
BY DEF SendingType, Ends, TryNext

\* Every step keeps the types, the connections in the hands of their senders and
\* the order of Close and the pools' cancel.
LEMMA SendTypeStep == SendInv /\ SendingStep => SendingType' /\ DialInv' /\ NoticeInv'
<1> SUFFICES ASSUME SendInv, SendingStep PROVE SendingType' /\ DialInv' /\ NoticeInv'
  OBVIOUS
<1> DEFINE Goal == SendingType' /\ DialInv' /\ NoticeInv'
<1> USE SendingAssumption DEF SendInv, layerVars, tpVars, sendVars, Nets
<1>1. ASSUME NEW n \in Nets, Notice(n) PROVE Goal
  BY <1>1 DEF Notice, SendingType, DialInv, NoticeInv
<1>2. ASSUME NEW n \in Nets, Release(n) \/ \E p \in Ports : Listen(n, p) PROVE Goal
  BY <1>2, ZenonT(60) DEF Release, Listen, SendingType, DialInv, NoticeInv
<1>3. ASSUME NEW c \in Conns, Accepted(c) \/ ConnEnds(c) PROVE Goal
  <2>1. /\ UNCHANGED <<layerVars, made, noticed, udp, peer, sendVars, proc>>
        /\ conn[c] # "dialed"
        /\ \E v \in {"served", "dead", "lost"} : conn' = [conn EXCEPT ![c] = v]
    BY <1>3 DEF Accepted, ConnEnds, PutConn
  <2>2. SendingType' /\ NoticeInv'
    BY <2>1 DEF SendingType, NoticeInv
  <2>3. DialInv'
    BY <2>1 DEF SendingType, DialInv
  <2> QED BY <2>2, <2>3
<1>4. ASSUME NEW s \in Sends, SendNoProtocol(s) \/ SendUdp(s) \/ SendTcp(s) PROVE Goal
  <2>1. UNCHANGED <<layerVars, tpVars, dial, proc>> /\ snd[s] = "try" /\ (Ends(s) \/ TryNext(s))
    BY <1>4 DEF SendNoProtocol, SendUdp, SendTcp
  <2> QED BY <2>1, SendMoves DEF SendingType, DialInv, NoticeInv
<1>5. ASSUME NEW s \in Sends, SendUdpNil(s) PROVE Goal
  BY <1>5 DEF SendUdpNil, SendingType, DialInv, NoticeInv
<1>6. ASSUME NEW s \in Sends, SendDial(s) PROVE Goal
  <2>1. /\ UNCHANGED <<layerVars, made, noticed, udp, peer, proc>> /\ snd[s] = "try"
        /\ "tcp" \in noticed \/ ~Entry(msg[s].to)
    BY <1>6 DEF SendDial
  <2>2. CASE TryNext(s) /\ UNCHANGED <<conn, dial>>
    BY <2>1, <2>2, SendMoves DEF SendingType, DialInv, NoticeInv
  <2>3. ASSUME NEW c \in Conns,
               /\ conn[c] = "none" /\ conn' = [conn EXCEPT ![c] = "dialed"]
               /\ dial' = [dial EXCEPT ![s] = c] /\ snd' = [snd EXCEPT ![s] = "dial"]
               /\ UNCHANGED <<msg, nets>>
        PROVE  Goal
    <3>1. SendingType' /\ NoticeInv'
      BY <2>1, <2>3 DEF SendingType, NoticeInv
    <3>2. DialInv'
      BY <2>1, <2>3 DEF SendingType, DialInv
    <3> QED BY <3>1, <3>2
  <2> QED BY <1>6, <2>2, <2>3 DEF SendDial
<1>7. ASSUME NEW s \in Sends, SendPut(s) PROVE Goal
  <2>1. /\ UNCHANGED <<layerVars, made, noticed, udp, peer, proc>> /\ snd[s] = "dial"
        /\ dial[s] \in Conns /\ conn' = [conn EXCEPT ![dial[s]] = PutConn(dial[s])]
        /\ dial' = [dial EXCEPT ![s] = None] /\ (Ends(s) \/ TryNext(s))
    BY <1>7 DEF SendPut, DialInv
  <2>2. SendingType' /\ NoticeInv'
    BY <2>1, SendMoves DEF SendingType, NoticeInv, PutConn
  <2>3. DialInv'
    BY <2>1, SendMoves DEF SendingType, DialInv
  <2> QED BY <2>2, <2>3
<1>8. CASE LayerOffers \/ LayerFinishes \/ LayerWithdraws
  BY <1>8, ZenonT(60) DEF LayerOffers, LayerFinishes, LayerWithdraws, L!Offer, L!Finish,
                        L!Take, SendingType, DialInv, NoticeInv
<1>9. ASSUME NEW s \in Sends, NEW m \in Messages, SendCheck(s, m) PROVE Goal
  BY <1>9 DEF SendCheck, SendingType, DialInv, NoticeInv
<1>10. CASE (L!Take \/ L!Close) /\ UNCHANGED <<tpVars, sendVars, proc>>
  BY <1>10 DEF L!Take, L!Close, SendingType, DialInv, NoticeInv
<1>11. CASE proc' \in {proc, "closeNil"} /\ UNCHANGED <<layerVars, tpVars, sendVars>>
  BY <1>11 DEF SendingType, DialInv, NoticeInv
<1> QED BY <1>1, <1>2, <1>3, <1>4, <1>5, <1>6, <1>7, <1>8, <1>9, <1>10, <1>11
        DEF SendingStep, SendingNext, SendSteps, sending

\* Only a write to the socket of a port nobody listens on reaches the nil
\* connection, and nothing runs after it.
LEMMA NilStep == SendInv /\ SendingStep => NilWithoutPort'
<1> SUFFICES ASSUME SendInv, SendingStep, proc' = "nilConnection" PROVE NilWithoutPort'
  BY DEF NilWithoutPort
<1>1. ASSUME NEW s \in Sends, SendUdpNil(s) PROVE NilWithoutPort'
  <2>1. /\ snd[s] = "try" /\ msg[s] \in Messages /\ msg[s].port \notin udp
        /\ UNCHANGED <<udp, snd, msg>>
    BY <1>1 DEF SendUdpNil, SendInv, DialInv, tpVars, sendVars
  <2>2. msg[s].kind = "response" \/ msg[s].port = DefaultPort
    BY <2>1 DEF Messages
  <2> QED BY <2>1, <2>2 DEF NilWithoutPort
<1>2. CASE UNCHANGED sending
  BY <1>2 DEF SendInv, NilWithoutPort, sending, tpVars, sendVars
<1>3. CASE \A s \in Sends : ~SendUdpNil(s)
  <2>1. UNCHANGED sending
    BY <1>3 DEF SendingStep, SendingNext, SendSteps, Notice, Release, Listen, Accepted,
         ConnEnds, SendNoProtocol, SendUdp, SendTcp, SendDial, SendPut, LayerOffers,
         LayerFinishes, LayerWithdraws, SendCheck, Running
  <2> QED BY <2>1, <1>2
<1> QED BY <1>1, <1>3

\* An entry stays in the pool's map while the layer is open, and Put refuses a
\* connection then only for one that has the same address.
LEMMA LostStep == SendInv /\ SendingStep => NoConnectionLost'
<1> SUFFICES ASSUME SendInv, SendingStep, phase' = "open",
                    NEW c \in Conns, conn'[c] = "lost"
             PROVE  Entry(peer[c])'
  BY DEF NoConnectionLost
<1> USE DEF SendInv, layerVars, tpVars, sendVars
<1>0. /\ phase = "open" /\ noticed = {} /\ UNCHANGED peer
      /\ conn \in [Conns -> {"none", "dialed", "served", "dead", "lost", "closed"}]
  <2>1. UNCHANGED peer
    BY DEF SendingStep, SendingNext, SendSteps, Notice, Release, Listen, Accepted,
         ConnEnds, SendNoProtocol, SendUdp, SendUdpNil, SendTcp, SendDial, SendPut, LayerOffers,
         LayerFinishes, LayerWithdraws, SendCheck, sending
  <2>2. phase = "open"
    BY DEF SendingStep, SendingNext, SendSteps, Notice, Release, Listen, Accepted,
         ConnEnds, SendNoProtocol, SendUdp, SendUdpNil, SendTcp, SendDial, SendPut, LayerOffers,
         LayerFinishes, LayerWithdraws, SendCheck, sending, L!Offer, L!Finish, L!Take, L!Close
  <2> QED BY <2>1, <2>2 DEF NoticeInv, SendingType
<1> DEFINE Grows == \A d \in Conns : conn[d] \in {"served", "dead"} => conn'[d] \in {"served", "dead"}
<1>1. Grows => \A d \in Conns : Entry(peer[d]) => Entry(peer[d])'
  BY <1>0 DEF Entry
<1>u. ASSUME UNCHANGED conn PROVE Entry(peer[c])'
  BY <1>0, <1>1, <1>u DEF NoConnectionLost
<1>2. ASSUME NEW d \in Conns, conn[d] \in {"none", "dialed"},
             conn' = [conn EXCEPT ![d] = PutConn(d)]
      PROVE  Entry(peer[c])'
  <2>1. Grows
    BY <1>0, <1>2
  <2>2. conn[c] = "lost" \/ (c = d /\ Entry(peer[d]))
    BY <1>0, <1>2 DEF PutConn
  <2> QED BY <1>0, <1>1, <2>1, <2>2 DEF NoConnectionLost
<1>3. ASSUME NEW d \in Conns, Accepted(d) PROVE Entry(peer[c])'
  BY <1>2, <1>3 DEF Accepted
<1>4. ASSUME NEW d \in Conns, ConnEnds(d) PROVE Entry(peer[c])'
  BY <1>0, <1>1, <1>4 DEF ConnEnds, NoConnectionLost
<1>5. ASSUME NEW s \in Sends, SendPut(s) PROVE Entry(peer[c])'
  BY <1>2, <1>5 DEF SendPut, DialInv
<1>6. ASSUME NEW s \in Sends, SendDial(s) PROVE Entry(peer[c])'
  <2>1. ASSUME NEW d \in Conns, conn[d] = "none", conn' = [conn EXCEPT ![d] = "dialed"]
        PROVE  Entry(peer[c])'
    BY <1>0, <1>1, <2>1 DEF NoConnectionLost
  <2> QED BY <1>6, <1>u, <2>1 DEF SendDial
<1>7. ASSUME NEW n \in Nets, Notice(n) PROVE FALSE
  BY <1>0, <1>7 DEF Notice
<1>8. CASE /\ \A n \in Nets : ~Notice(n)
           /\ \A d \in Conns : ~Accepted(d) /\ ~ConnEnds(d)
           /\ \A s \in Sends : ~SendPut(s) /\ ~SendDial(s)
  BY <1>8, <1>u DEF SendingStep, SendingNext, SendSteps, Release, Listen, SendNoProtocol,
       SendUdp, SendUdpNil, SendTcp, LayerOffers, LayerFinishes, LayerWithdraws, SendCheck,
       sending
<1> QED BY <1>3, <1>4, <1>5, <1>6, <1>7, <1>8

LEMMA SendingPart == SendInv /\ SendingStep => SendInv'
BY SendTypeStep, NilStep, LostStep DEF SendInv

-----------------------------------------------------------------------------
(* The service.                                                            *)

\* A service that has just been made satisfies the invariant.
LEMMA InitInv == Init => IInv
<1> SUFFICES ASSUME Init PROVE IInv
  OBVIOUS
<1> USE SendingAssumption, ServiceAssumption DEF Init, SendingInit, L!Init
<1>1. TypeOK
  BY DEF TypeOK, Nets
<1>2. SendInv
  BY DEF SendInv, SendingType, DialInv, NoticeInv, NilWithoutPort, NoConnectionLost, Nets
<1>3. Counted = {}
  BY DEF Counted
<1> QED BY <1>1, <1>2, <1>3, FS_EmptySet DEF IInv, CountInv, StopInv, QuietAfterStop

\* The types of the service's own variables; hwg follows from CountStep.
LEMMA ServiceTypeStep ==
    IInv /\ [Next]_vars =>
      /\ txl' \in {"open", "canceled", "done"}
      /\ req' \in [Sends -> {"none", "tx", "got", "dropped", "handle", "send", "callback", "gone"}]
      /\ start' \in {"loop", "close", "wait"} \cup Sends
      /\ once' \in Closers \cup {"start", None}
      /\ stop' \in {"none", "tx", "tp", "hwg", "close", "panic"}
      /\ closer' \in [Closers -> {"none", "wait"}]
<1> SUFFICES ASSUME IInv, [Next]_vars
             PROVE  /\ txl' \in {"open", "canceled", "done"}
                    /\ req' \in [Sends -> {"none", "tx", "got", "dropped", "handle", "send",
                                           "callback", "gone"}]
                    /\ start' \in {"loop", "close", "wait"} \cup Sends
                    /\ once' \in Closers \cup {"start", None}
                    /\ stop' \in {"none", "tx", "tp", "hwg", "close", "panic"}
                    /\ closer' \in [Closers -> {"none", "wait"}]
  OBVIOUS
<1> USE DEF IInv, TypeOK, svcVars
<1>1. CASE SendingNext /\ UNCHANGED svcVars
  BY <1>1
<1>2. ASSUME NEW s \in Sends,
             \/ TxTakes(s) \/ TxPassesUp(s) \/ StartHandles(s)
             \/ HandlerReturns(s) \/ CallbackSends(s)
      PROVE  /\ UNCHANGED <<txl, once, stop, closer>> /\ start' \in {start, s, "loop"}
             /\ \E v \in {"tx", "got", "dropped", "handle", "send", "callback", "gone"} :
                  req' = req \/ req' = [req EXCEPT ![s] = v]
  BY <1>2 DEF TxTakes, TxPassesUp, StartHandles, HandlerReturns, Handled, NotAllowed,
              NotAllowedDone, CallbackSends
<1>3. CASE StartLogs \/ CloseBegins \/ CloseWaits
  BY <1>3 DEF StartLogs, CloseBegins, CloseWaits
<1>4. CASE ServiceSteps
  BY <1>4 DEF ServiceSteps, StartEnds, StopTx, StopTp, StopWait, StopClose, TxDone
<1>5. CASE UNCHANGED vars
  BY <1>5 DEF vars
<1> QED BY <1>1, <1>2, <1>3, <1>4, <1>5 DEF Next

\* Only StartHandles adds a handler, and it adds one that is not there; a handler
\* that returns takes itself off.
LEMMA CountStep == IInv /\ [Next]_vars => CountInv'
<1> SUFFICES ASSUME IInv, [Next]_vars PROVE CountInv'
  OBVIOUS
<1> USE ServiceAssumption DEF IInv, svcVars
<1>t. /\ req \in [Sends -> {"none", "tx", "got", "dropped", "handle", "send", "callback", "gone"}]
      /\ start \in {"loop", "close", "wait"} \cup Sends
  BY DEF TypeOK
\* A step that changes no counted request.
<1>u. ASSUME Counted' = Counted, hwg' = hwg,
             \A s \in Sends : start' = s => req'[s] = "got"
      PROVE  CountInv'
  BY <1>u DEF CountInv
\* A handler that returns.
<1>d. ASSUME NEW s \in Sends, req[s] \in {"handle", "send"}, UNCHANGED start, hwg' = hwg - 1,
             NEW v \in {"callback", "gone"}, req' = [req EXCEPT ![s] = v]
      PROVE  CountInv'
  <2>1. Counted' = Counted \ {s} /\ s \in Counted
    BY <1>d, <1>t DEF Counted
  <2>2. IsFiniteSet(Counted') /\ Cardinality(Counted') = Cardinality(Counted) - 1
    BY <2>1, FS_RemoveElement DEF CountInv
  <2>3. \A r \in Sends : start' = r => req'[r] = "got"
    BY <1>d, <1>t DEF CountInv
  <2> QED BY <1>d, <2>2, <2>3 DEF CountInv
<1>1. CASE SendingNext /\ UNCHANGED svcVars
  BY <1>1, <1>u DEF Counted, CountInv
<1>2. ASSUME NEW s \in Sends, TxTakes(s) PROVE CountInv'
  <2>1. UNCHANGED <<start, hwg>> /\ (UNCHANGED req \/ (req[s] = "none" /\ req' = [req EXCEPT ![s] = "tx"]))
    BY <1>2 DEF TxTakes
  <2>2. Counted' = Counted
    BY <1>t, <2>1 DEF Counted
  <2>3. \A r \in Sends : start' = r => req'[r] = "got"
    BY <1>t, <2>1 DEF CountInv
  <2> QED BY <1>u, <2>1, <2>2, <2>3
<1>3. ASSUME NEW s \in Sends, TxPassesUp(s) PROVE CountInv'
  <2>1. /\ hwg' = hwg /\ req[s] = "tx"
        /\ \/ start' = s /\ req' = [req EXCEPT ![s] = "got"]
           \/ start' = start /\ req' = [req EXCEPT ![s] = "dropped"]
    BY <1>3 DEF TxPassesUp
  <2>2. Counted' = Counted
    BY <1>t, <2>1 DEF Counted
  <2>3. \A r \in Sends : start' = r => req'[r] = "got"
    BY <1>t, <2>1 DEF CountInv
  <2> QED BY <1>u, <2>1, <2>2, <2>3
<1>4. ASSUME NEW s \in Sends, StartHandles(s) PROVE CountInv'
  <2>1. /\ req[s] = "got" /\ start' = "loop" /\ hwg' = hwg + 1
        /\ req' = [req EXCEPT ![s] = "handle"]
    BY <1>4 DEF StartHandles, CountInv
  <2>2. Counted' = Counted \cup {s} /\ s \notin Counted
    BY <1>t, <2>1 DEF Counted
  <2>3. IsFiniteSet(Counted') /\ Cardinality(Counted') = Cardinality(Counted) + 1
    BY <2>2, FS_AddElement DEF CountInv
  <2> QED BY <2>1, <2>3 DEF CountInv
<1>5. ASSUME NEW s \in Sends, HandlerReturns(s) PROVE CountInv'
  <2>1. CASE req[s] = "handle" /\ UNCHANGED <<start, hwg>> /\ req' = [req EXCEPT ![s] = "send"]
    <3>1. Counted' = Counted
      BY <1>t, <2>1 DEF Counted
    <3>2. \A r \in Sends : start' = r => req'[r] = "got"
      BY <1>t, <2>1 DEF CountInv
    <3> QED BY <1>u, <2>1, <3>1, <3>2
  <2> QED BY <1>5, <1>d, <2>1 DEF HandlerReturns, Handled, NotAllowed, NotAllowedDone
<1>6. ASSUME NEW s \in Sends, CallbackSends(s) PROVE CountInv'
  <2>1. /\ req[s] = "callback" /\ UNCHANGED <<start, hwg>> /\ req' = [req EXCEPT ![s] = "gone"]
    BY <1>6 DEF CallbackSends
  <2>2. Counted' = Counted
    BY <1>t, <2>1 DEF Counted
  <2>3. \A r \in Sends : start' = r => req'[r] = "got"
    BY <1>t, <2>1 DEF CountInv
  <2> QED BY <1>u, <2>1, <2>2, <2>3
<1>7. CASE StartLogs \/ CloseBegins \/ CloseWaits \/ ServiceSteps \/ UNCHANGED vars
  <2>1. UNCHANGED <<req, hwg>> /\ start' \in {start, "close", "wait"}
    BY <1>7 DEF StartLogs, CloseBegins, CloseWaits, ServiceSteps, StartEnds, StopTx, StopTp,
                StopWait, StopClose, TxDone, vars
  <2> QED BY <1>u, <2>1 DEF Counted, CountInv
<1> QED BY <1>1, <1>2, <1>3, <1>4, <1>5, <1>6, <1>7 DEF Next

\* No handler sends after hwg.Wait, which returned with none under way: the
\* transaction layer has been canceled by then.
LEMMA QuietStep == IInv /\ [Next]_vars => StopInv' /\ QuietAfterStop'
<1> SUFFICES ASSUME IInv, [Next]_vars PROVE StopInv' /\ QuietAfterStop'
  OBVIOUS
<1> USE ServiceAssumption DEF IInv, svcVars
<1>t. /\ req \in [Sends -> {"none", "tx", "got", "dropped", "handle", "send", "callback", "gone"}]
      /\ txl \in {"open", "canceled", "done"}
  BY DEF TypeOK
<1>1. ASSUME NEW s \in Sends,
             \/ TxTakes(s) \/ TxPassesUp(s) \/ StartHandles(s)
             \/ HandlerReturns(s) \/ CallbackSends(s)
      PROVE  /\ UNCHANGED <<txl, stop>>
             /\ req' = req \/ \/ \E v \in {"tx", "got", "dropped", "handle", "callback", "gone"} :
                                 req' = [req EXCEPT ![s] = v]
                              \/ txl = "open" /\ req' = [req EXCEPT ![s] = "send"]
  BY <1>1 DEF TxTakes, TxPassesUp, StartHandles, HandlerReturns, Handled, NotAllowed,
              NotAllowedDone, CallbackSends
<1>2. ASSUME NEW s \in Sends, UNCHANGED <<txl, stop>>,
             req' = req \/ \/ \E v \in {"tx", "got", "dropped", "handle", "callback", "gone"} :
                                 req' = [req EXCEPT ![s] = v]
                           \/ txl = "open" /\ req' = [req EXCEPT ![s] = "send"]
      PROVE  StopInv' /\ QuietAfterStop'
  BY <1>t, <1>2 DEF StopInv, QuietAfterStop
<1>3. CASE StopWait
  <2>1. Counted = {}
    BY <1>3, FS_EmptySet DEF StopWait, CountInv
  <2> QED BY <1>3, <2>1 DEF StopWait, StopInv, QuietAfterStop, Counted
<1>4. CASE StartEnds \/ StopTx \/ StopTp \/ StopClose \/ TxDone
  BY <1>4 DEF StartEnds, StopTx, StopTp, StopClose, TxDone, StopInv, QuietAfterStop
<1>5. CASE StartLogs \/ CloseBegins \/ CloseWaits \/ (SendingNext /\ UNCHANGED svcVars)
           \/ UNCHANGED vars
  BY <1>5 DEF StartLogs, CloseBegins, CloseWaits, vars, StopInv, QuietAfterStop
<1> QED BY <1>1, <1>2, <1>3, <1>4, <1>5 DEF Next, ServiceSteps

-----------------------------------------------------------------------------
(* The theorems.                                                           *)

\* The invariant holds in every reachable state.
THEOREM Inductive == Spec => []IInv
<1>1. IInv /\ [Next]_vars => IInv'
  <2> SUFFICES ASSUME IInv, [Next]_vars PROVE IInv'
    OBVIOUS
  <2>1. SendInv'
    BY StepOfSending, SendingPart DEF IInv
  <2>2. CountInv' /\ StopInv' /\ QuietAfterStop'
    BY CountStep, QuietStep
  <2>3. hwg' \in Nat
    BY <2>2, FS_CardinalityType DEF CountInv
  <2>4. TypeOK'
    BY <2>1, <2>3, ServiceTypeStep DEF TypeOK, SendInv, SendingType
  <2> QED BY <2>1, <2>2, <2>4 DEF IInv
<1> QED BY <1>1, InitInv, PTL DEF Spec

\* service.hwg never goes below zero, no handler sends after stop has waited, and
\* the nil element of All()[0] (udp.go) is only written to for a port nobody
\* listens on.
THEOREM ServiceIsSound == Spec => []ServiceSound
<1>1. IInv => ServiceSound
  BY DEF IInv, SendInv, ServiceSound
<1> QED BY <1>1, Inductive, PTL

\* While the transport layer is open, connectionPool.Put and tcpProtocol.Send
\* leave no connection without an entry for its address.
THEOREM ConnectionsKept == Spec => []NoConnectionLost
<1>1. IInv => NoConnectionLost
  BY DEF IInv, SendInv
<1> QED BY <1>1, Inductive, PTL

\* stop goes past hwg.Wait only when every handler that start added has returned.
THEOREM StopWaitsForHandlers == Spec => HandlersWaited
<1>1. IInv /\ [Next]_vars =>
        [stop = "hwg" /\ stop' = "close" => \A s \in Sends : req[s] \notin {"handle", "send"}]_vars
  <2> SUFFICES ASSUME IInv, Next, stop = "hwg", stop' = "close"
               PROVE  \A s \in Sends : req[s] \notin {"handle", "send"}
    OBVIOUS
  <2>1. StopWait
    BY DEF Next, svcVars, TxTakes, TxPassesUp, StartHandles, HandlerReturns, Handled,
           NotAllowed, NotAllowedDone, CallbackSends, StartLogs, CloseBegins, CloseWaits,
           ServiceSteps, StartEnds, StopTx, StopTp, StopClose, TxDone
  <2>2. Counted = {}
    BY <2>1, FS_EmptySet DEF StopWait, IInv, CountInv
  <2> QED BY <2>2 DEF Counted
<1> QED BY <1>1, Inductive, PTL DEF Spec, HandlersWaited
=============================================================================
