--------------------------- MODULE ServerTxProofs ---------------------------
(***************************************************************************)
(* Proofs about ServerTx, for every set of receivers and responders, every *)
(* buffer size and both kinds of transaction and of transport.             *)
(***************************************************************************)
EXTENDS ServerTx, TLAPS

Finals   == {"respondComplete", "final"}
Deleting == {"respondDelete", "delete"}
Closing  == Deleting \cup {"transErr"}
Inputs   == {"request", "ack", "cancel", "transErr", "delete"} \cup Classes \cup FsmTimers

-----------------------------------------------------------------------------
(* The inductive invariant.                                                *)

\* Which steps an action has.
StepOfAct ==
    /\ step = "idle" <=> act = "none"
    /\ step = "send" => act \in Finals \cup {"respond", "respondDelete"}
    /\ step = "arm" => act \in Finals
    /\ step = "stopGH" => act = "confirm"
    /\ step = "passUp" => act \in {"confirm", "cancel"}
    /\ step = "answer" => act \in {"cancel", "cancelNotExist"}
    /\ step = "err" => act = "transErr"
    /\ step \in {"check", "stop", "close"} => act \in Deleting

\* In which state an action runs, and which states the two FSMs have.
StateOfAct ==
    /\ act = "respond" => state \in {"Proceeding", "Completed"}
    /\ act \in Finals => state = "Completed" /\ (invite <=> act = "respondComplete")
    /\ act \in Closing => state = "Terminated"
    /\ act = "confirm" => state = "Confirmed"
    /\ act = "cancel" => state = "Proceeding"
    /\ act = "cancelNotExist" => state \in {"Completed", "Confirmed"}
    /\ state # (IF invite THEN "Trying" ELSE "Confirmed")

\* Done is closed by an FSM in Terminated, and there nothing follows but the
\* sending of the 2xx; Terminated without Done is on its way there, or was
\* reached by a second ACK.
DoneInv ==
    closer = "none" =>
      /\ done => /\ state = "Terminated"
                 /\ act = "none" \/ (act = "respondDelete" /\ step = "send")
      /\ act = "respondDelete" /\ step = "send" => done
      /\ state = "Terminated" => done \/ TwoAcks \/ act \in Closing

\* The timer that deletes the transaction is pending in Completed and Confirmed,
\* from the end of the action that led there.  actionRespondComplete starts timer
\* H if its field is nil: so the field is nil before, or H is pending.
PendingInv ==
    /\ state = "Proceeding" /\ invite => "timerH" \notin timer
    /\ closer = "none" =>
         /\ state = "Completed" /\ invite =>
              \/ "timerH" \in armed \cup fired
              \/ act = "respondComplete" /\ "timerH" \notin timer
         /\ state = "Completed" /\ ~invite => "timerJ" \in armed \cup fired \/ act = "final"
         /\ state = "Confirmed" => "timerI" \in armed \cup fired \/ step = "stopGH"

\* A timer G or H that runs has its field set, so that actionConfirm stops it;
\* after that none runs in Confirmed.
RunningInv ==
    closer = "none" =>
      /\ armed \cap {"timerG", "timerH"} \subseteq timer
      /\ state = "Confirmed" /\ step # "stopGH" => armed \cap {"timerG", "timerH"} = {}

\* tx.lastResp is the response of somebody who called SendResponse, is set in
\* Completed, and only such responses are sent.
ResponseInv ==
    /\ lastResp # Nil => rsp[lastResp] # "none"
    /\ \A p \in AllResponders : rsp[p] # "none" => lastResp # Nil
    /\ state = "Completed" => lastResp # Nil
    /\ \A p \in sent : rsp[p] # "none"

\* A CANCEL or ACK that is passed up was noted; Confirmed needs an ACK.
NotedInv ==
    /\ \A r \in Receivers : rcv[r] # "none" =>
         (kind[r] = "ack" => lastAck # Nil) /\ (kind[r] = "cancel" => lastCancel # Nil)
    /\ act = "confirm" => lastAck # Nil
    /\ act = "cancel" => lastCancel # Nil
    /\ state = "Confirmed" => \E r \in Receivers : rcv[r] = "spun" /\ kind[r] = "ack"

\* The ACK goes up at the end of actionConfirm, which runs once.
AckInv ==
    /\ acksUp \in {0, 1}
    /\ state \in {"Trying", "Proceeding", "Completed"} \/ act = "confirm" => acksUp = 0

\* A final response is on the wire.
Wired == \E p \in sent : class[p] # "user1xx"

\* Two responses were given at the same time.
Raced == \E p, q \in AllResponders : /\ p # q /\ rsp[p] = "acted" /\ class[p] # "user1xx"
                                     /\ rsp[q] # "none"

\* The action that is going to send the final response.
Sending == /\ step = "send" /\ act \in Finals /\ lastResp \in AllResponders
           /\ rsp[lastResp] = "acted" /\ class[lastResp] # "user1xx"

WireInv == state = "Completed" => Wired \/ Raced \/ Sending

Core == /\ StepOfAct /\ StateOfAct /\ DoneInv /\ PendingInv /\ RunningInv
        /\ ResponseInv /\ NotedInv /\ AckInv /\ WireInv

IInv == TypeOK /\ Core

-----------------------------------------------------------------------------
\* What one round of FSM.Spin does, whatever the input: the facts about the
\* two transition tables that the invariants rest on.
LEMMA RunFacts ==
    ASSUME invite \in BOOLEAN, state \in States, StateOfAct, NEW in \in Inputs, Run(in),
           in \in {"ack", "cancel"} => invite
    PROVE  /\ state' \in States /\ act' \in Actions /\ step' \in Steps
           /\ StepOfAct' /\ StateOfAct' /\ invite' = invite
           /\ step' # "passUp" /\ step' # "arm" /\ (act' = "confirm" => step' = "stopGH")
           /\ act' = "respondDelete" => step' = "check"
           /\ state = "Terminated" =>
                /\ state' = "Terminated" /\ act' \in {"none", "delete"}
                /\ act' = "delete" <=> in = "delete"
           /\ state # "Terminated" /\ state' = "Terminated" =>
                act' \in Closing \/ (state = "Confirmed" /\ in = "ack")
           /\ state' = "Proceeding" => state = "Proceeding" \/ ~invite
           /\ state' = "Trying" => state = "Trying"
           /\ state' = "Proceeding" => state \in {"Trying", "Proceeding"}
           /\ state' = "Completed" /\ state # "Completed" =>
                /\ in \in {"user2xx", "user300"} /\ act' \in Finals
                /\ state \in {"Trying", "Proceeding"}
           /\ state' = "Completed" /\ state = "Completed" =>
                in # (IF invite THEN "timerH" ELSE "timerJ")
           /\ state' = "Confirmed" /\ state # "Confirmed" =>
                state = "Completed" /\ in = "ack" /\ act' = "confirm"
           /\ state' = "Confirmed" /\ state = "Confirmed" =>
                in # "timerI" /\ act' # "confirm"
           /\ act' = "confirm" => state = "Completed" /\ in = "ack"
           /\ act' = "cancel" => in = "cancel"
           /\ in = "transErr" => state' # "Completed"
<1> USE DEF Inputs, Classes, FsmTimers, Run, States, Actions, Steps, FirstStep,
            StepOfAct, StateOfAct, Finals, Deleting, Closing, Table, To
<1>1. CASE invite /\ state = "Proceeding"
  BY <1>1 DEF InviteFSM
<1>2. CASE invite /\ state = "Completed"
  BY <1>2 DEF InviteFSM
<1>3. CASE invite /\ state = "Confirmed"
  BY <1>3 DEF InviteFSM
<1>4. CASE invite /\ state = "Terminated"
  BY <1>4 DEF InviteFSM
<1>5. CASE ~invite /\ state = "Trying"
  BY <1>5 DEF NonInviteFSM
<1>6. CASE ~invite /\ state = "Proceeding"
  BY <1>6 DEF NonInviteFSM
<1>7. CASE ~invite /\ state = "Completed"
  BY <1>7 DEF NonInviteFSM
<1>8. CASE ~invite /\ state = "Terminated"
  BY <1>8 DEF NonInviteFSM
<1> QED BY <1>1, <1>2, <1>3, <1>4, <1>5, <1>6, <1>7, <1>8

-----------------------------------------------------------------------------
(* Initial states.                                                         *)

\* The transaction NewServerTx makes satisfies the invariant.
LEMMA InitInv == Init => IInv
<1> SUFFICES ASSUME Init PROVE IInv
  OBVIOUS
<1> USE ServerTxAssumption DEF Init
<1>1. TypeOK
  <2>1. /\ state \in States /\ act \in Actions /\ step \in Steps
        /\ kind \in [Receivers -> Kinds] /\ class \in [AllResponders -> Classes]
    BY DEF States, Actions, Steps, FirstStep, Kinds, Classes
  <2>2. requests \in Seq(Receivers) /\ timeG \in 0..T2
    BY DEF T2
  <2> QED BY <2>1, <2>2 DEF TypeOK
<1>2. StepOfAct /\ StateOfAct /\ DoneInv /\ PendingInv /\ RunningInv
  BY DEF StepOfAct, StateOfAct, DoneInv, PendingInv, RunningInv, Finals, Deleting, Closing
<1>3. ResponseInv /\ NotedInv /\ AckInv /\ WireInv
  BY DEF ResponseInv, NotedInv, AckInv, WireInv
<1> QED BY <1>1, <1>2, <1>3 DEF IInv, Core

-----------------------------------------------------------------------------
(* Type correctness.                                                       *)

\* Every step of Init, Receive, SendResponse, the timers, the FSM actions and
\* Close keeps the types: timer G's period stays within T2, and a nil request is
\* never passed up.
LEMMA TypeStep == IInv /\ [Next]_vars => TypeOK'
<1> SUFFICES ASSUME IInv, [Next]_vars PROVE TypeOK'
  OBVIOUS
<1> USE ServerTxAssumption DEF TypeOK
<1>t. TypeOK /\ StepOfAct /\ StateOfAct /\ NotedInv
  BY DEF IInv, Core
<1>0. /\ Kinds \subseteq Inputs /\ Classes \subseteq Inputs /\ FsmTimers \subseteq Inputs
      /\ {"transErr", "delete", "request"} \subseteq Inputs
      /\ Classes \cap {"ack", "cancel"} = {} /\ FsmTimers \cap {"ack", "cancel"} = {}
      /\ \A k \in Kinds : k \in {"ack", "cancel"} => invite
  BY DEF Inputs, Kinds, Classes, FsmTimers
<1>s. ASSUME NEW in \in Inputs, Run(in), in \in {"ack", "cancel"} => invite
      PROVE  /\ state' \in States /\ act' \in Actions /\ step' \in Steps
             /\ invite' = invite /\ Kinds' = Kinds
  BY <1>t, <1>s, RunFacts DEF Kinds
<1>k. invite' = invite => Kinds' = Kinds
  BY DEF Kinds
<1>1. ASSUME InitSteps PROVE TypeOK'
  <2> USE DEF fsmVars, rcvVars, rspVars, timerVars, outVars
  <2>1. CASE InitFSM
    BY <1>t, <1>k, <2>1 DEF InitFSM, T2
  <2>2. CASE InitArm1xx
    BY <1>t, <1>k, <2>2 DEF InitArm1xx, Timers
  <2>3. CASE PassUpRequest
    BY <1>t, <1>k, <2>3 DEF PassUpRequest
  <2> QED BY <1>1, <2>1, <2>2, <2>3 DEF InitSteps
<1>2. ASSUME NEW r \in Receivers, NEW k \in Kinds, Receive(r, k) PROVE TypeOK'
  BY <1>t, <1>k, <1>2 DEF Receive, fsmVars, rspVars, outVars
<1>3. ASSUME NEW r \in Receivers, ReceiveSpin(r) PROVE TypeOK'
  <2>1. kind[r] \in Kinds
    BY <1>t
  <2>2. kind[r] \in Inputs /\ Run(kind[r]) /\ (kind[r] \in {"ack", "cancel"} => invite)
    BY <1>0, <1>3, <2>1 DEF ReceiveSpin, Spin
  <2> QED BY <1>t, <1>3, <2>2, <1>s DEF ReceiveSpin, rspVars, timerVars, outVars
<1>4. ASSUME NEW r \in Receivers, ReceiveNoFSM(r) PROVE TypeOK'
  BY <1>t, <1>k, <1>4 DEF ReceiveNoFSM, fsmVars, rcvVars, rspVars, timerVars, outVars
<1>5. ASSUME NEW p \in Responders, NEW c \in Classes, TuResponds(p, c) PROVE TypeOK'
  BY <1>t, <1>k, <1>5 DEF TuResponds, StoreResponse, fsmVars, rcvVars, outVars, AllResponders
<1>6. ASSUME Timer1xxResponds PROVE TypeOK'
  <2>1. "user1xx" \in Classes /\ Trying \in AllResponders
    BY DEF Classes, AllResponders
  <2> QED BY <1>t, <1>k, <1>6, <2>1 DEF Timer1xxResponds, StoreResponse, fsmVars, rcvVars,
                                        outVars
<1>7. ASSUME NEW p \in AllResponders, ResponseSpin(p) PROVE TypeOK'
  <2>1. class[p] \in Inputs /\ Run(class[p]) /\ class[p] \notin {"ack", "cancel"}
    BY <1>t, <1>0, <1>7 DEF ResponseSpin, Spin
  <2> QED BY <1>t, <1>7, <2>1, <1>s DEF ResponseSpin, rcvVars, timerVars, outVars
<1>8. ASSUME NEW t \in Timers, TimerFires(t) PROVE TypeOK'
  BY <1>t, <1>k, <1>8 DEF TimerFires, fsmVars, rcvVars, rspVars, outVars
<1>9. ASSUME NEW t \in FsmTimers, TimerSpin(t) PROVE TypeOK'
  <2>1. t \in Inputs /\ Run(t) /\ t \notin {"ack", "cancel"}
    BY <1>0, <1>9 DEF TimerSpin, Spin
  <2> QED BY <1>t, <1>9, <2>1, <1>s DEF TimerSpin, rcvVars, rspVars, outVars
<1>10. ASSUME ActionSteps PROVE TypeOK'
  <2> USE DEF Goto, Return, rcvVars, rspVars, timerVars, outVars
  <2>0. "none" \in Actions /\ Steps = {"idle", "send", "arm", "stopGH", "passUp",
                                       "answer", "err", "check", "stop", "close"}
    BY DEF Actions, FirstStep, Steps
  <2>1. CASE SendLast
    <3>1. sent' \subseteq AllResponders
      BY <1>t, <2>1 DEF SendLast
    <3>2. /\ state' \in States /\ act' \in Actions /\ step' \in Steps
          /\ invite' = invite /\ Kinds' = Kinds
      <4>1. CASE Run("transErr")
        BY <1>0, <1>s, <4>1
      <4>2. CASE ~Run("transErr")
        BY <1>t, <1>k, <2>0, <2>1, <4>2 DEF SendLast
      <4> QED BY <4>1, <4>2
    <3> QED BY <1>t, <2>1, <3>1, <3>2 DEF SendLast
  <2>2. CASE ArmTimers
    <3>1. timer' \subseteq Timers /\ armed' \subseteq Timers
      BY <1>t, <2>2 DEF ArmTimers, Timers, FsmTimers
    <3>2. timeG' \in 0..T2
      BY <1>t, <2>2 DEF ArmTimers, ArmG, T2
    <3> QED BY <1>t, <1>k, <2>0, <2>2, <3>1, <3>2 DEF ArmTimers
  <2>3. CASE StopGH
    <3>1. timer' \subseteq Timers /\ armed' \subseteq Timers
      BY <1>t, <2>3 DEF StopGH, Timers, FsmTimers
    <3> QED BY <1>t, <1>k, <2>0, <2>3, <3>1 DEF StopGH
  <2>4. CASE PassUp
    <3>1. act = "confirm" \/ act = "cancel"
      BY <1>t, <2>4 DEF PassUp, StepOfAct
    <3> DEFINE req == IF act = "confirm" THEN lastAck ELSE lastCancel
    <3>2. req \in Receivers
      BY <1>t, <3>1 DEF NotedInv
    <3>3. requests' \in Seq(Receivers) /\ acksUp' \in Nat
      <4>1. requests' = Append(requests, req) \/ requests' = requests
        BY <2>4 DEF PassUp
      <4>2. acksUp' = acksUp + 1 \/ acksUp' = acksUp
        BY <2>4 DEF PassUp
      <4> HIDE DEF req
      <4>3. requests \in Seq(Receivers) /\ acksUp \in Nat
        BY <1>t
      <4> QED BY ONLY <3>2, <4>1, <4>2, <4>3
    <3>4. /\ state' \in States /\ act' \in Actions /\ step' \in Steps
          /\ invite' = invite /\ Kinds' = Kinds
      BY <1>t, <1>0, <1>s, <1>k, <2>0, <2>4 DEF PassUp
    <3> QED BY <1>t, <2>4, <3>3, <3>4 DEF PassUp
  <2>5. CASE AnswerCancel
    BY <1>t, <1>k, <2>0, <2>5 DEF AnswerCancel
  <2>6. CASE ReportErr
    BY <1>t, <1>0, <1>s, <2>6 DEF ReportErr
  <2>7. CASE DeleteCheck
    BY <1>t, <1>k, <2>0, <2>7 DEF DeleteCheck, AfterDelete
  <2>8. CASE DeleteStop
    BY <1>t, <1>k, <2>0, <2>8 DEF DeleteStop, StopTimers
  <2>9. CASE DeleteClose
    BY <1>t, <1>k, <2>0, <2>9 DEF DeleteClose, AfterDelete
  <2> QED BY <1>10, <2>1, <2>2, <2>3, <2>4, <2>5, <2>6, <2>7, <2>8, <2>9 DEF ActionSteps
<1>11. ASSUME Consume \/ Close \/ CloseSteps PROVE TypeOK'
  <2> USE DEF fsmVars, rcvVars, rspVars, timerVars, outVars
  <2>1. CASE Consume
    BY <1>t, <1>k, <2>1 DEF Consume
  <2>2. CASE Close
    BY <1>t, <1>k, <2>2 DEF Close
  <2>3. CASE CloseSteps
    BY <1>t, <1>k, <2>3 DEF CloseSteps, CloseStop, CloseClose, StopTimers
  <2> QED BY <1>11, <2>1, <2>2, <2>3
<1>12. CASE UNCHANGED vars
  BY <1>t, <1>k, <1>12 DEF vars
<1> QED BY <1>1, <1>2, <1>3, <1>4, <1>5, <1>6, <1>7, <1>8, <1>9, <1>10, <1>11, <1>12
        DEF Next

-----------------------------------------------------------------------------
(* The safety core.                                                        *)

\* A round of the FSM, by a request, a response or a timer, or inside an action:
\* after a failed send, after the panic on closed channels, after the error.
LEMMA CoreRun ==
    ASSUME IInv, NEW in \in Inputs, Run(in), in \in {"ack", "cancel"} => invite,
           UNCHANGED <<timer, armed, closer, done, kind, class, lastResp, lastAck,
                       lastCancel, acksUp, sent>>,
           \/ /\ step = "idle" /\ UNCHANGED <<rsp, fired>>
              /\ \E r \in Receivers : /\ in = kind[r] /\ rcv[r] = "noted"
                                      /\ rcv' = [rcv EXCEPT ![r] = "spun"]
           \/ /\ step = "idle" /\ UNCHANGED <<rcv, fired>>
              /\ \E p \in AllResponders :
                    /\ in = class[p] /\ rsp[p] = "stored"
                    /\ rsp' = [rsp EXCEPT ![p] =
                                  IF act' = "none" THEN "ignored" ELSE "acted"]
           \/ /\ step = "idle" /\ UNCHANGED <<rcv, rsp>>
              /\ in \in FsmTimers /\ fired' = fired \ {in}
           \/ /\ \/ step = "send" /\ in = "transErr"
                 \/ step = "passUp" /\ done /\ in = "request"
                 \/ step = "err" /\ in = "delete"
              /\ UNCHANGED <<rcv, rsp, fired>>
    PROVE  Core'
<1> USE ServerTxAssumption DEF IInv, Core
<1>t. /\ invite \in BOOLEAN /\ state \in States /\ fired' \subseteq fired
      /\ rcv \in [Receivers -> {"none", "noted", "spun"}]
      /\ rsp \in [AllResponders -> {"none", "stored", "acted", "ignored"}]
      /\ kind \in [Receivers -> Kinds] /\ class \in [AllResponders -> Classes]
  BY DEF TypeOK
<1>1. StepOfAct' /\ StateOfAct' /\ invite' = invite
  BY <1>t, RunFacts
<1>2. \A r \in Receivers :
        /\ rcv[r] = "spun" => rcv'[r] = "spun"
        /\ rcv[r] = "none" <=> rcv'[r] = "none"
  BY <1>t
<1>3. \A p \in AllResponders :
        /\ rsp[p] = "acted" => rsp'[p] = "acted"
        /\ rsp[p] = "none" <=> rsp'[p] = "none"
  BY <1>t
<1>4. in = "ack" \/ in = "cancel" =>
        \E r \in Receivers : in = kind[r] /\ rcv[r] = "noted" /\ rcv'[r] = "spun"
  BY <1>t DEF Classes, FsmTimers
<1>5. DoneInv'
  <2> SUFFICES ASSUME closer = "none"
               PROVE  /\ done => /\ state' = "Terminated"
                                 /\ act' = "none" \/ (act' = "respondDelete" /\ step' = "send")
                      /\ act' = "respondDelete" /\ step' = "send" => done
                      /\ state' = "Terminated" => done \/ TwoAcks' \/ act' \in Closing
    BY DEF DoneInv
  <2>1. done => state = "Terminated" /\ in # "delete"
    BY DEF DoneInv, StepOfAct, FsmTimers, Classes, TypeOK, Kinds
  <2>2. done => state' = "Terminated" /\ act' = "none"
    BY <1>t, <2>1, RunFacts
  <2>3. ~(act' = "respondDelete" /\ step' = "send")
    BY <1>t, RunFacts
  <2>4. ASSUME state' = "Terminated", ~done PROVE TwoAcks' \/ act' \in Closing
    <3>1. CASE state = "Terminated" /\ TwoAcks
      BY <1>2, <3>1 DEF TwoAcks
    <3>2. CASE state = "Terminated" /\ act \in Closing
      <4>1. step = "err"
        BY <2>4, <3>2 DEF StepOfAct, DoneInv, Closing, Deleting, Finals
      <4>2. in = "delete"
        BY <4>1
      <4> QED BY <1>t, <3>2, <4>2, RunFacts DEF Closing, Deleting
    <3>3. CASE state = "Confirmed" /\ in = "ack"
      <4>1. PICK r \in Receivers : rcv[r] = "spun" /\ kind[r] = "ack"
        BY <3>3 DEF NotedInv
      <4>2. PICK q \in Receivers : kind[q] = "ack" /\ rcv[q] = "noted" /\ rcv'[q] = "spun"
        BY <1>4, <3>3
      <4> QED BY <1>2, <4>1, <4>2 DEF TwoAcks
    <3>4. CASE state # "Terminated" /\ ~(state = "Confirmed" /\ in = "ack")
      BY <1>t, <2>4, <3>4, RunFacts
    <3> QED BY <2>4, <3>1, <3>2, <3>3, <3>4 DEF DoneInv
  <2> QED BY <2>2, <2>3, <2>4
<1>6. PendingInv'
  <2>1. state' = "Proceeding" /\ invite' => "timerH" \notin timer'
    BY <1>1, <1>t, RunFacts DEF PendingInv
  <2> SUFFICES ASSUME closer = "none"
               PROVE  /\ state' = "Completed" /\ invite =>
                           \/ "timerH" \in armed \cup fired'
                           \/ act' = "respondComplete" /\ "timerH" \notin timer
                      /\ state' = "Completed" /\ ~invite =>
                           "timerJ" \in armed \cup fired' \/ act' = "final"
                      /\ state' = "Confirmed" =>
                           "timerI" \in armed \cup fired' \/ step' = "stopGH"
    BY <2>1, <1>1 DEF PendingInv
  <2>2. \A t \in fired : t \in fired' \/ (t = in /\ step = "idle")
    BY <1>t
  <2>3. ASSUME state' = "Completed", state # "Completed"
        PROVE  /\ act' \in Finals /\ state \in {"Trying", "Proceeding"}
               /\ invite => "timerH" \notin timer
    BY <1>t, <2>3, RunFacts DEF PendingInv, StateOfAct
  <2>4. ASSUME state' = "Completed", state = "Completed"
        PROVE  act \notin Finals /\ in # (IF invite THEN "timerH" ELSE "timerJ")
    <3>1. in # "transErr" /\ in # (IF invite THEN "timerH" ELSE "timerJ")
      BY <1>t, <2>4, RunFacts
    <3>2. step # "send"
      BY <3>1 DEF FsmTimers
    <3>3. step \in {"idle", "passUp", "err"}
      BY <3>2
    <3> QED BY <3>1, <3>3 DEF StepOfAct, Finals
  <2>5. ASSUME state' = "Confirmed", state # "Confirmed" PROVE step' = "stopGH"
    BY <1>t, <2>5, RunFacts
  <2>6. ASSUME state' = "Confirmed", state = "Confirmed" PROVE in # "timerI" /\ step # "stopGH"
    BY <1>t, <2>6, RunFacts
  <2>7. act' \in Finals /\ state' = "Completed" => act' = IF invite THEN "respondComplete" ELSE "final"
    BY <1>1 DEF StateOfAct, Finals
  <2> QED BY <2>2, <2>3, <2>4, <2>5, <2>6, <2>7 DEF PendingInv, Finals
<1>7. RunningInv'
  <2>1. state' = "Confirmed" /\ step' # "stopGH" => state = "Confirmed" /\ step # "stopGH"
    BY <1>t, RunFacts
  <2> QED BY <2>1 DEF RunningInv
<1>8. ResponseInv'
  <2>1. state' = "Completed" => lastResp # Nil
    BY <1>t, RunFacts DEF ResponseInv, Classes, FsmTimers, Kinds
  <2>2. lastResp # Nil => lastResp \in AllResponders
    BY DEF TypeOK
  <2>3. sent \subseteq AllResponders
    BY DEF TypeOK
  <2> QED BY <1>3, <2>1, <2>2, <2>3 DEF ResponseInv
<1>9. NotedInv'
  <2>1. act' = "confirm" => lastAck # Nil
    BY <1>t, <1>4, RunFacts DEF NotedInv
  <2>2. act' = "cancel" => lastCancel # Nil
    BY <1>t, <1>4, RunFacts DEF NotedInv
  <2>3. state' = "Confirmed" => \E r \in Receivers : rcv'[r] = "spun" /\ kind[r] = "ack"
    BY <1>t, <1>2, <1>4, RunFacts DEF NotedInv
  <2> QED BY <1>2, <2>1, <2>2, <2>3 DEF NotedInv
<1>10. AckInv'
  BY <1>t, RunFacts DEF AckInv, States
<1>11. WireInv'
  <2> SUFFICES ASSUME state' = "Completed" PROVE Wired' \/ Raced' \/ Sending'
    BY DEF WireInv
  <2>1. CASE state # "Completed"
    <3>1. in \in {"user2xx", "user300"} /\ act' \in Finals
      BY <1>t, <2>1, RunFacts
    <3>2. PICK p \in AllResponders : in = class[p] /\ rsp'[p] = "acted"
      BY <1>t, <3>1 DEF Finals, FsmTimers, Kinds
    <3>3. lastResp \in AllResponders /\ rsp[lastResp] # "none"
      <4>1. rsp[p] # "none"
        BY <1>3, <3>2
      <4> QED BY <4>1 DEF ResponseInv, TypeOK
    <3>4. CASE lastResp = p
      <4>1. step' = "send"
        BY <3>1 DEF Run, Finals, FirstStep, Actions, Table, InviteFSM, NonInviteFSM, To
      <4> QED BY <3>1, <3>2, <3>4, <4>1 DEF Sending
    <3>5. CASE lastResp # p
      BY <1>3, <3>1, <3>2, <3>3, <3>5 DEF Raced
    <3> QED BY <3>4, <3>5
  <2>2. CASE state = "Completed"
    <3>1. in # "transErr"
      BY <1>t, RunFacts
    <3>2. step # "send"
      BY <3>1
    <3>3. Wired \/ Raced
      BY <2>2, <3>2 DEF WireInv, Sending
    <3>4. CASE Wired
      BY <3>4 DEF Wired
    <3>5. CASE Raced
      BY <1>3, <3>5 DEF Raced
    <3> QED BY <3>3, <3>4, <3>5
  <2> QED BY <2>1, <2>2
<1> QED BY <1>1, <1>5, <1>6, <1>7, <1>8, <1>9, <1>10, <1>11

\* Every step preserves the core: one case per action of Next.
LEMMA CoreStep == IInv /\ [Next]_vars => Core'
<1> SUFFICES ASSUME IInv, [Next]_vars PROVE Core'
  OBVIOUS
<1> USE ServerTxAssumption DEF IInv, fsmVars, rcvVars, rspVars, timerVars, outVars
<1> DEFINE Fsm    == StepOfAct' /\ StateOfAct' /\ DoneInv'
           Clocks == PendingInv' /\ RunningInv'
           Rest   == ResponseInv' /\ NotedInv' /\ AckInv' /\ WireInv'
<1>0. Fsm /\ Clocks /\ Rest => Core'
  BY DEF Core
<1>a. /\ rcv \in [Receivers -> {"none", "noted", "spun"}]
      /\ rsp \in [AllResponders -> {"none", "stored", "acted", "ignored"}]
      /\ kind \in [Receivers -> Kinds] /\ class \in [AllResponders -> Classes]
      /\ lastResp \in AllResponders \cup {Nil} /\ sent \subseteq AllResponders
  BY DEF TypeOK
<1> USE DEF Core
<1>1. ASSUME InitSteps PROVE Core'
  <2> USE DEF InitSteps, InitFSM, InitArm1xx, PassUpRequest
  <2>1. Fsm
    BY <1>1 DEF StepOfAct, StateOfAct, DoneInv, TwoAcks
  <2>2. Clocks
    BY <1>1 DEF PendingInv, RunningInv
  <2>3. Rest
    BY <1>1 DEF ResponseInv, NotedInv, AckInv, WireInv, Wired, Raced, Sending
  <2> QED BY <1>0, <2>1, <2>2, <2>3
<1>2. ASSUME NEW r \in Receivers, NEW k \in Kinds, Receive(r, k) PROVE Core'
  <2> USE DEF Receive
  <2>1. Fsm
    BY <1>a, <1>2 DEF StepOfAct, StateOfAct, DoneInv, TwoAcks
  <2>2. Clocks
    BY <1>2 DEF PendingInv, RunningInv
  <2>3. ResponseInv' /\ AckInv' /\ WireInv'
    BY <1>2 DEF ResponseInv, AckInv, WireInv, Wired, Raced, Sending
  <2>4. NotedInv'
    BY <1>a, <1>2 DEF NotedInv
  <2> QED BY <1>0, <2>1, <2>2, <2>3, <2>4
<1>3. ASSUME NEW r \in Receivers, ReceiveSpin(r) PROVE Core'
  <2>1. kind[r] \in Inputs /\ (kind[r] \in {"ack", "cancel"} => invite)
    BY <1>a DEF Inputs, Kinds
  <2> QED BY <1>3, <2>1, CoreRun DEF ReceiveSpin, Spin
<1>4. ASSUME NEW r \in Receivers, ReceiveNoFSM(r) PROVE Core'
  <2> USE DEF ReceiveNoFSM
  <2>1. Fsm /\ Clocks
    BY <1>4 DEF StepOfAct, StateOfAct, DoneInv, TwoAcks, PendingInv, RunningInv
  <2>2. Rest
    BY <1>4 DEF ResponseInv, NotedInv, AckInv, WireInv, Wired, Raced, Sending
  <2> QED BY <1>0, <2>1, <2>2
<1>5. ASSUME NEW p \in AllResponders, NEW c \in Classes, StoreResponse(p, c),
             UNCHANGED <<fsmVars, rcvVars, closer, done, outVars>>,
             fired \ fired' \subseteq {"timer1xx"}
      PROVE  Core'
  <2> USE DEF StoreResponse
  <2>1. Fsm
    BY <1>5 DEF StepOfAct, StateOfAct, DoneInv, TwoAcks
  <2>2. Clocks
    BY <1>5 DEF PendingInv, RunningInv
  <2>3. ResponseInv'
    BY <1>a, <1>5 DEF ResponseInv, AllResponders
  <2>4. NotedInv' /\ AckInv'
    BY <1>5 DEF NotedInv, AckInv
  <2>5. WireInv'
    <3> SUFFICES ASSUME state = "Completed" PROVE Wired' \/ Raced' \/ Sending'
      BY <1>5 DEF WireInv
    <3>1. CASE Wired
      BY <1>a, <1>5, <3>1 DEF Wired, ResponseInv
    <3>2. CASE Raced
      BY <1>a, <1>5, <3>2 DEF Raced
    <3>3. CASE Sending
      <4>1. lastResp # p /\ rsp'[lastResp] = "acted" /\ class'[lastResp] # "user1xx"
        BY <1>a, <1>5, <3>3 DEF Sending
      <4>2. rsp'[p] # "none"
        BY <1>a, <1>5
      <4> QED BY <3>3, <4>1, <4>2 DEF Raced, Sending
    <3> QED BY <3>1, <3>2, <3>3 DEF WireInv
  <2> QED BY <1>0, <2>1, <2>2, <2>3, <2>4, <2>5
<1>6. ASSUME NEW p \in Responders, NEW c \in Classes, TuResponds(p, c) PROVE Core'
  BY <1>5, <1>6 DEF TuResponds, AllResponders
<1>7. ASSUME Timer1xxResponds PROVE Core'
  <2>1. Trying \in AllResponders /\ "user1xx" \in Classes
    BY DEF AllResponders, Classes
  <2>2. fired \ fired' \subseteq {"timer1xx"}
    BY <1>7 DEF Timer1xxResponds
  <2> QED BY <1>5, <1>7, <2>1, <2>2 DEF Timer1xxResponds
<1>8. ASSUME NEW p \in AllResponders, ResponseSpin(p) PROVE Core'
  <2>1. class[p] \in Inputs /\ class[p] \notin {"ack", "cancel"}
    BY <1>a DEF Inputs, Classes
  <2> QED BY <1>8, <2>1, CoreRun DEF ResponseSpin, Spin
<1>9. ASSUME NEW t \in Timers, TimerFires(t) PROVE Core'
  <2> USE DEF TimerFires
  <2>1. Fsm
    BY <1>9 DEF StepOfAct, StateOfAct, DoneInv, TwoAcks
  <2>2. Clocks
    BY <1>9 DEF PendingInv, RunningInv
  <2>3. Rest
    BY <1>9 DEF ResponseInv, NotedInv, AckInv, WireInv, Wired, Raced, Sending
  <2> QED BY <1>0, <2>1, <2>2, <2>3
<1>10. ASSUME NEW t \in FsmTimers, TimerSpin(t) PROVE Core'
  <2>1. t \in Inputs /\ t \notin {"ack", "cancel"}
    BY DEF Inputs, FsmTimers
  <2> QED BY <1>10, <2>1, CoreRun DEF TimerSpin, Spin
<1>11. ASSUME SendLast PROVE Core'
  <2> USE DEF SendLast, Return, Goto
  <2>1. CASE Run("transErr") /\ UNCHANGED sent
    <3>1. "transErr" \in Inputs
      BY DEF Inputs
    <3> QED BY <1>11, <2>1, <3>1, CoreRun
  <2>2. CASE ~(Run("transErr") /\ UNCHANGED sent)
    <3>1. /\ act \in Finals => lastResp # Nil
          /\ act \in Finals \cup {"respond", "respondDelete"}
      BY <1>11 DEF StepOfAct, StateOfAct, ResponseInv
    <3>2. StepOfAct' /\ StateOfAct'
      BY <1>11, <2>2, <3>1 DEF StepOfAct, StateOfAct, Finals, Closing, Deleting
    <3>3. DoneInv'
      BY <1>11, <2>2, <3>1 DEF DoneInv, StateOfAct, Finals, TwoAcks, Closing, Deleting
    <3>4. Clocks
      BY <1>11, <2>2, <3>1 DEF PendingInv, RunningInv, StateOfAct, Finals
    <3>5. ResponseInv' /\ NotedInv' /\ AckInv'
      BY <1>a, <1>11, <2>2, <3>1 DEF ResponseInv, NotedInv, AckInv, Finals
    <3>6. WireInv'
      <4> SUFFICES ASSUME state = "Completed" PROVE Wired' \/ Raced' \/ Sending'
        BY <1>11, <2>2 DEF WireInv
      <4>1. CASE Wired \/ Raced
        BY <1>11, <2>2, <4>1 DEF Wired, Raced
      <4>2. CASE Sending
        <5>1. lastResp # Nil
          BY <4>2 DEF Sending, AllResponders
        <5>2. sent' = sent \cup {lastResp} /\ class' = class
          BY <1>11, <2>2, <5>1
        <5> QED BY <4>2, <5>2 DEF Sending, Wired
      <4> QED BY <4>1, <4>2 DEF WireInv
    <3> QED BY <1>0, <3>2, <3>3, <3>4, <3>5, <3>6
  <2> QED BY <2>1, <2>2
<1>12. ASSUME ArmTimers PROVE Core'
  <2> USE DEF ArmTimers, Return
  <2>1. act \in Finals /\ state = "Completed" /\ (invite <=> act = "respondComplete")
    BY <1>12 DEF StepOfAct, StateOfAct
  <2>2. Fsm
    BY <1>12, <2>1 DEF StepOfAct, StateOfAct, DoneInv, TwoAcks, Finals, Closing, Deleting
  <2>3. PendingInv'
    BY <1>12, <2>1 DEF PendingInv, Finals
  <2>4. RunningInv'
    BY <1>12, <2>1 DEF RunningInv
  <2>5. Rest
    BY <1>12, <2>1 DEF ResponseInv, NotedInv, AckInv, WireInv, Wired, Raced, Sending
  <2> QED BY <1>0, <2>2, <2>3, <2>4, <2>5
<1>13. ASSUME StopGH PROVE Core'
  <2> USE DEF StopGH, Goto
  <2>1. act = "confirm" /\ state = "Confirmed"
    BY <1>13 DEF StepOfAct, StateOfAct
  <2>2. Fsm
    BY <1>13, <2>1 DEF StepOfAct, StateOfAct, DoneInv, TwoAcks, Finals, Closing, Deleting
  <2>3. Clocks
    BY <1>13, <2>1 DEF PendingInv, RunningInv
  <2>4. Rest
    BY <1>13, <2>1 DEF ResponseInv, NotedInv, AckInv, WireInv
  <2> QED BY <1>0, <2>2, <2>3, <2>4
<1>14. ASSUME PassUp PROVE Core'
  <2> USE DEF PassUp, Return
  <2>1. /\ act = "confirm" => state = "Confirmed"
        /\ act = "cancel" => state = "Proceeding"
        /\ act \in {"confirm", "cancel"}
        /\ done => closer # "none"
    BY <1>14 DEF StepOfAct, StateOfAct, DoneInv
  <2>2. CASE done /\ Run("request") /\ UNCHANGED <<requests, acksUp>>
    <3>1. "request" \in Inputs
      BY DEF Inputs
    <3> QED BY <1>14, <2>2, <3>1, CoreRun
  <2>3. CASE ~(done /\ Run("request") /\ UNCHANGED <<requests, acksUp>>)
    <3>1. /\ act' = "none" /\ step' = "idle" /\ UNCHANGED <<invite, state>>
          /\ acksUp' = acksUp \/ (act = "confirm" /\ acksUp' = acksUp + 1)
      BY <1>14, <2>3
    <3>2. UNCHANGED <<rcvVars, rspVars, timerVars, closer, done, sent>>
      BY <1>14
    <3>3. Fsm
      BY <2>1, <3>1, <3>2 DEF StepOfAct, StateOfAct, DoneInv, TwoAcks, Finals, Closing,
                              Deleting
    <3>4. Clocks
      BY <1>14, <2>1, <3>1, <3>2 DEF PendingInv, RunningInv
    <3>5. Rest
      BY <2>1, <3>1, <3>2 DEF ResponseInv, NotedInv, AckInv, WireInv
    <3> QED BY <1>0, <3>3, <3>4, <3>5
  <2> QED BY <2>2, <2>3
<1>15. ASSUME AnswerCancel PROVE Core'
  <2> USE DEF AnswerCancel, Return, Goto
  <2>1. /\ act = "cancel" => state = "Proceeding"
        /\ act \in {"cancel", "cancelNotExist"} /\ state # "Terminated"
    BY <1>15 DEF StepOfAct, StateOfAct
  <2>2. Fsm
    BY <1>15, <2>1 DEF StepOfAct, StateOfAct, DoneInv, TwoAcks, Finals, Closing, Deleting
  <2>3. Clocks
    BY <1>15, <2>1 DEF PendingInv, RunningInv
  <2>4. Rest
    BY <1>15, <2>1 DEF ResponseInv, NotedInv, AckInv, WireInv, Wired, Raced, Sending
  <2> QED BY <1>0, <2>2, <2>3, <2>4
<1>16. ASSUME ReportErr PROVE Core'
  <2>1. "delete" \in Inputs
    BY DEF Inputs
  <2> QED BY <1>16, <2>1, CoreRun DEF ReportErr
<1>17. ASSUME DeleteCheck \/ DeleteStop \/ DeleteClose PROVE Core'
  <2> USE DEF DeleteCheck, DeleteStop, DeleteClose, StopTimers, AfterDelete, Return, Goto
  <2>1. act \in Deleting /\ state = "Terminated" /\ state' = "Terminated"
    BY <1>17 DEF StepOfAct, StateOfAct, Closing
  <2>2. StepOfAct' /\ StateOfAct'
    BY <1>17, <2>1 DEF StepOfAct, StateOfAct, Finals, Closing, Deleting
  <2>3. DoneInv'
    BY <1>17, <2>1 DEF DoneInv, TwoAcks, Closing, Deleting
  <2>4. Clocks
    BY <1>17, <2>1 DEF PendingInv, RunningInv
  <2>5. Rest
    BY <1>17, <2>1 DEF ResponseInv, NotedInv, AckInv, WireInv, Deleting
  <2> QED BY <1>0, <2>2, <2>3, <2>4, <2>5
<1>18. ASSUME Consume PROVE Core'
  <2> USE DEF Consume
  <2>1. Fsm /\ Clocks
    BY <1>18 DEF StepOfAct, StateOfAct, DoneInv, TwoAcks, PendingInv, RunningInv
  <2>2. Rest
    BY <1>18 DEF ResponseInv, NotedInv, AckInv, WireInv, Wired, Raced, Sending
  <2> QED BY <1>0, <2>1, <2>2
<1>19. ASSUME Close \/ CloseSteps PROVE Core'
  <2> USE DEF Close, CloseSteps, CloseStop, CloseClose, StopTimers
  <2>1. Fsm
    BY <1>19 DEF StepOfAct, StateOfAct, DoneInv
  <2>2. Clocks
    BY <1>19 DEF PendingInv, RunningInv
  <2>3. Rest
    BY <1>19 DEF ResponseInv, NotedInv, AckInv, WireInv, Wired, Raced, Sending
  <2> QED BY <1>0, <2>1, <2>2, <2>3
<1>20. CASE UNCHANGED vars
  <2> USE DEF vars
  <2>1. Fsm /\ Clocks
    BY <1>20 DEF StepOfAct, StateOfAct, DoneInv, TwoAcks, PendingInv, RunningInv
  <2>2. Rest
    BY <1>20 DEF ResponseInv, NotedInv, AckInv, WireInv, Wired, Raced, Sending
  <2> QED BY <1>0, <2>1, <2>2
<1> QED BY <1>1, <1>2, <1>3, <1>4, <1>6, <1>7, <1>8, <1>9, <1>10, <1>11, <1>12, <1>13,
           <1>14, <1>15, <1>16, <1>17, <1>18, <1>19, <1>20 DEF Next, ActionSteps

-----------------------------------------------------------------------------
(* The theorems.                                                           *)

\* The inductive invariant holds in every reachable state.
THEOREM Inductive == Spec => []IInv
<1>1. IInv /\ [Next]_vars => IInv'
  BY TypeStep, CoreStep DEF IInv
<1> QED BY <1>1, InitInv, PTL DEF Spec

\* The transaction keeps its types (timer G's period its cap), runs no action
\* after the FSM deleted it but the sending of the 2xx, and after the ACK sends
\* nothing and runs neither timer G nor timer H.
THEOREM TransactionStaysSilent == Spec => []StaysSilent
<1>1. IInv => StaysSilent
  <2> SUFFICES ASSUME IInv PROVE StaysSilent
    OBVIOUS
  <2> USE DEF IInv, Core
  <2>1. QuietAfterDone
    BY DEF QuietAfterDone, DoneInv
  <2>2. AckSilences
    BY DEF AckSilences, StepOfAct, StateOfAct, RunningInv, Finals, Closing, Deleting
  <2> QED BY <2>1, <2>2 DEF StaysSilent
<1> QED BY <1>1, Inductive, PTL

\* An FSM at rest that nobody closed has the timer pending that deletes the
\* transaction, is deleted, or was terminated by a second ACK.
THEOREM TransactionNeverStranded == Spec => []NeverStranded
<1>1. IInv => NeverStranded
  <2> SUFFICES ASSUME IInv, step = "idle", closer = "none"
               PROVE  /\ state = "Completed" =>
                           (IF invite THEN "timerH" ELSE "timerJ") \in armed \cup fired
                      /\ state = "Confirmed" => "timerI" \in armed \cup fired
                      /\ state = "Terminated" => done \/ TwoAcks
    BY DEF NeverStranded
  <2>1. act = "none" /\ act \notin Closing
    BY DEF IInv, Core, StepOfAct, Closing, Deleting
  <2> QED BY <2>1 DEF IInv, Core, PendingInv, DoneInv, TypeOK
<1> QED BY <1>1, Inductive, PTL

\* The TU gets at most one ACK, whatever the retransmissions.
THEOREM AtMostOneAckUp == Spec => []OneAckUp
<1>1. IInv => OneAckUp
  BY DEF IInv, Core, AckInv, OneAckUp
<1> QED BY <1>1, Inductive, PTL

\* A completed transaction has its final response on the wire, unless two
\* responses were stored at the same time.
THEOREM FinalReachesWire == Spec => []FinalOnWire
<1>1. IInv => FinalOnWire
  BY DEF IInv, Core, WireInv, Wired, Raced, Sending, FinalOnWire
<1> QED BY <1>1, Inductive, PTL

=============================================================================
