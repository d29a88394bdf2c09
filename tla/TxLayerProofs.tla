--------------------------- MODULE TxLayerProofs ---------------------------
(***************************************************************************)
(* Proofs about the transaction layer.  First about TxLayer, for any sets  *)
(* of handlers, senders and keys; then about Exchange, the messages and    *)
(* the keys the layer finds its transactions by, for any names the TU      *)
(* edits and any bounds.                                                   *)
(***************************************************************************)
EXTENDS TxLayer, Exchange, FiniteSetTheorems, SequenceTheorems, TLAPS

-----------------------------------------------------------------------------
(* The inductive invariant.                                                *)

\* What a handler has done at each point of handleRequest.
HandlerInv ==
    \A h \in Handlers :
      /\ hpc[h] \in {"none", "start", "match", "passOther", "create"} => tx[h] = "none"
      /\ tx[h] = "created" <=> hpc[h] = "init"
      /\ hpc[h] \in {"check", "serve", "passUp"} => tx[h] # "none"
      /\ serve[h] # "none" => hpc[h] \in {"passUp", "end"}
      /\ hpc[h] = "create" \/ tx[h] # "none" => kind[h] = "request"
      /\ kind[h] # "response" => key[h] \in Keys

\* The same for a sender in sendRequest.
SenderInv ==
    \A s \in Senders :
      /\ spc[s] = "none" => tx[s] = "none"
      /\ tx[s] = "created" <=> spc[s] = "init"
      /\ spc[s] \in {"sent", "serve", "ok"} => tx[s] # "none"
      /\ serve[s] # "none" => spc[s] = "ok"

\* A transaction is served once it lives, and has ended when its entry goes.
LifeInv ==
    \A x \in Txs :
      /\ serve[x] # "none" => tx[x] \in {"live", "ended"}
      /\ serve[x] \in {"dropping", "dropped", "gone"} => tx[x] = "ended"

\* An entry of the pool is a transaction that was created, under its own key.
EntryInv ==
    \A k \in Keys \cup Senders :
      pool[k] # NoTx => KeyOf(pool[k]) = k /\ tx[pool[k]] # "none"

\* The goroutines that serve a transaction and have not called txWg.Done.
Serving == {x \in Txs : serve[x] \in {"running", "dropping", "dropped"}}

\* txWg counts them.
CountInv == IsFiniteSet(Serving) /\ wg = Cardinality(Serving)

IInv == /\ TypeOK /\ HandlerInv /\ SenderInv /\ LifeInv /\ EntryInv /\ CountInv
        /\ NoStaleEntry /\ LiveIsMatchable /\ ClosedAfterServing

\* The layer CreateLayer makes satisfies the invariant.
LEMMA InitInv == Init => IInv
<1> SUFFICES ASSUME Init PROVE IInv
  OBVIOUS
<1> USE TxLayerAssumption DEF Init
<1>1. TypeOK
  BY DEF TypeOK, Txs, Kinds
<1>2. HandlerInv /\ SenderInv /\ LifeInv /\ EntryInv
  BY DEF HandlerInv, SenderInv, LifeInv, EntryInv, Txs
<1>3. CountInv
  <2>1. Serving = {}
    BY DEF Serving
  <2> QED BY <2>1, FS_EmptySet DEF CountInv
<1>4. NoStaleEntry /\ LiveIsMatchable /\ ClosedAfterServing
  BY DEF NoStaleEntry, LiveIsMatchable, ClosedAfterServing, Closed
<1> QED BY <1>1, <1>2, <1>3, <1>4 DEF IInv

-----------------------------------------------------------------------------
(* Types.                                                                  *)

\* Every step of the listener, the handlers, the senders and the serving
\* goroutines keeps the types; txWg.Done never takes the wait group below zero,
\* since it counts the goroutine that calls it.
LEMMA TypeStep == IInv /\ [Next]_vars => TypeOK'
<1> SUFFICES ASSUME IInv, [Next]_vars PROVE TypeOK'
  OBVIOUS
<1> USE TxLayerAssumption DEF IInv, TypeOK, layerVars, msgVars, serveVars, txVars, Txs
<1>1. ASSUME NEW h \in Handlers, NEW kd \in Kinds, NEW k \in Keys \cup Senders,
             Arrive(h, kd, k)
      PROVE  TypeOK'
  BY <1>1 DEF Arrive, Step
<1>2. ASSUME StopListening \/ CloseChannels \/ Cancel PROVE TypeOK'
  BY <1>2 DEF StopListening, CloseChannels, Cancel
<1>3. ASSUME NEW h \in Handlers, Handle(h) PROVE TypeOK'
  <2> USE DEF Step
  <2>1. CASE HandleStart(h)
    BY <2>1 DEF HandleStart
  <2>2. CASE Match(h)
    <3>1. pool[key[h]] \in Handlers \cup Senders
      BY <2>2 DEF Match
    <3> QED BY <2>2, <3>1 DEF Match
  <2>3. CASE NoMatch(h)
    BY <2>3 DEF NoMatch, Kinds
  <2>4. CASE PassOther(h)
    BY <2>4 DEF PassOther
  <2>5. CASE Create(h)
    BY <2>5 DEF Create
  <2>6. CASE InitTx(h)
    BY <2>6 DEF InitTx
  <2>7. CASE CheckCanceled(h)
    BY <2>7 DEF CheckCanceled
  <2>8. CASE Serve(h)
    BY <2>8 DEF Serve, StartServing
  <2>9. CASE PassUp(h)
    BY <2>9 DEF PassUp
  <2> QED BY <1>3, <2>1, <2>2, <2>3, <2>4, <2>5, <2>6, <2>7, <2>8, <2>9 DEF Handle
<1>4. ASSUME NEW s \in Senders, Send(s) PROVE TypeOK'
  BY <1>4 DEF Send, SendPut, SendInit, SendReturn, SendServe, StartServing
<1>5. ASSUME NEW x \in Txs, TxEnds(x) \/ ServeEnds(x) \/ ServeDrop(x) PROVE TypeOK'
  BY <1>5 DEF TxEnds, ServeEnds, ServeDrop
<1>6. ASSUME NEW x \in Txs, ServeDone(x) PROVE TypeOK'
  <2>1. x \in Serving
    BY <1>6 DEF ServeDone, Serving
  <2>2. wg # 0
    BY <2>1, FS_EmptySet DEF CountInv
  <2> QED BY <1>6, <2>2 DEF ServeDone
<1>7. ASSUME NEW x \in Txs, ForwardRead(x) \/ ForwardSend(x) PROVE TypeOK'
  BY <1>7 DEF ForwardRead, ForwardSend
<1>8. CASE UNCHANGED vars
  BY <1>8 DEF vars
<1> QED BY <1>1, <1>2, <1>3, <1>4, <1>5, <1>6, <1>7, <1>8 DEF Next, ServeSteps

-----------------------------------------------------------------------------
(* The goroutines and their transactions.                                  *)

\* A creator's program counter says how far its transaction is: it is created
\* before it is initialised, served only when it was initialised, and has ended
\* when serveTransaction drops it.
LEMMA LocalStep == IInv /\ [Next]_vars => HandlerInv' /\ SenderInv' /\ LifeInv'
<1> SUFFICES ASSUME IInv, [Next]_vars PROVE HandlerInv' /\ SenderInv' /\ LifeInv'
  OBVIOUS
<1> USE TxLayerAssumption
    DEF IInv, TypeOK, layerVars, msgVars, serveVars, txVars, Txs,
        HandlerInv, SenderInv, LifeInv
<1> DEFINE Goal == HandlerInv' /\ SenderInv' /\ LifeInv'
<1>1. ASSUME NEW h \in Handlers, NEW kd \in Kinds, NEW k \in Keys \cup Senders,
             Arrive(h, kd, k)
      PROVE  Goal
  BY <1>1 DEF Arrive, Step
<1>2. ASSUME StopListening \/ CloseChannels \/ Cancel PROVE Goal
  BY <1>2 DEF StopListening, CloseChannels, Cancel
<1>3. ASSUME NEW h \in Handlers, Handle(h) PROVE Goal
  <2> USE DEF Step
  <2>1. CASE HandleStart(h)
    BY <2>1 DEF HandleStart
  <2>2. CASE Match(h)
    BY <2>2 DEF Match
  <2>3. CASE NoMatch(h)
    BY <2>3 DEF NoMatch, Kinds
  <2>4. CASE PassOther(h) \/ PassUp(h)
    BY <2>4 DEF PassOther, PassUp
  <2>5. CASE Create(h)
    BY <2>5 DEF Create
  <2>6. CASE InitTx(h)
    BY <2>6 DEF InitTx
  <2>7. CASE CheckCanceled(h)
    BY <2>7 DEF CheckCanceled
  <2>8. CASE Serve(h)
    BY <2>8 DEF Serve, StartServing
  <2> QED BY <1>3, <2>1, <2>2, <2>3, <2>4, <2>5, <2>6, <2>7, <2>8 DEF Handle
<1>4. ASSUME NEW s \in Senders, Send(s) PROVE Goal
  <2>1. CASE SendPut(s)
    BY <2>1 DEF SendPut
  <2>2. CASE SendInit(s)
    BY <2>2 DEF SendInit
  <2>3. CASE SendReturn(s)
    BY <2>3 DEF SendReturn
  <2>4. CASE SendServe(s)
    BY <2>4 DEF SendServe, StartServing
  <2> QED BY <1>4, <2>1, <2>2, <2>3, <2>4 DEF Send
<1>5. ASSUME NEW x \in Txs, TxEnds(x) PROVE Goal
  BY <1>5 DEF TxEnds
<1>6. ASSUME NEW x \in Txs, ServeSteps(x) PROVE Goal
  BY <1>6 DEF ServeSteps, ServeEnds, ServeDrop, ServeDone
<1>7. ASSUME NEW x \in Txs, ForwardRead(x) \/ ForwardSend(x) PROVE Goal
  BY <1>7 DEF ForwardRead, ForwardSend
<1>8. CASE UNCHANGED vars
  BY <1>8 DEF vars
<1> QED BY <1>1, <1>2, <1>3, <1>4, <1>5, <1>6, <1>7, <1>8 DEF Next

-----------------------------------------------------------------------------
(* The pool.                                                               *)

PoolInv == EntryInv /\ NoStaleEntry /\ LiveIsMatchable

\* A step that leaves the pool alone, creates no transaction, drops none and
\* changes no key of one that was created cannot disturb the pool.
LEMMA PoolUntouched ==
    ASSUME IInv, TypeOK', pool' = pool,
           \A x \in Txs : /\ tx[x] # "none" => tx'[x] # "none" /\ KeyOf(x)' = KeyOf(x)
                          /\ tx'[x] \in {"created", "live"} => tx[x] \in {"created", "live"}
                          /\ serve'[x] \in {"dropped", "gone"} =>
                               serve[x] \in {"dropped", "gone"}
    PROVE  PoolInv'
<1> USE TxLayerAssumption DEF IInv, TypeOK, Txs, PoolInv
<1>1. EntryInv'
  BY DEF EntryInv
<1>2. NoStaleEntry'
  <2> SUFFICES ASSUME NEW x \in Txs, serve'[x] \in {"dropped", "gone"}
               PROVE  pool'[KeyOf(x)'] # x
    BY DEF NoStaleEntry
  <2>1. tx[x] # "none"
    BY DEF LifeInv
  <2> QED BY <2>1 DEF NoStaleEntry
<1>3. LiveIsMatchable'
  <2> SUFFICES ASSUME NEW x \in Txs, tx'[x] \in {"created", "live"}
               PROVE  \/ pool'[KeyOf(x)'] = x
                      \/ \E y \in Handlers \ {x} : key'[y] = KeyOf(x)' /\ tx'[y] # "none"
    BY DEF LiveIsMatchable
  <2>1. KeyOf(x)' = KeyOf(x)
    OBVIOUS
  <2>2. CASE pool[KeyOf(x)] = x
    BY <2>1, <2>2
  <2>3. ASSUME NEW y \in Handlers \ {x}, key[y] = KeyOf(x), tx[y] # "none"
        PROVE  key'[y] = KeyOf(x)' /\ tx'[y] # "none"
    <3>1. KeyOf(y) = key[y] /\ KeyOf(y)' = key'[y]
      BY DEF KeyOf
    <3> QED BY <2>1, <2>3, <3>1
  <2> QED BY <2>2, <2>3 DEF LiveIsMatchable
<1> QED BY <1>1, <1>2, <1>3

\* Every step preserves the pool's invariant.  Only Create, SendPut and drop
\* write the pool.  Two handlers may hold copies of one request: the second
\* Create replaces the first's entry, and the drop of either, by key, takes the
\* other's; in both cases the other handler is the witness of LiveIsMatchable.
LEMMA PoolStep == IInv /\ [Next]_vars => PoolInv'
<1> SUFFICES ASSUME IInv, [Next]_vars PROVE PoolInv'
  OBVIOUS
<1>0. TypeOK'
  BY TypeStep
<1> USE <1>0, TxLayerAssumption DEF IInv, TypeOK, Txs
<1> USE DEF layerVars, msgVars, serveVars, txVars
<1>k. \A x \in Txs : key' = key => KeyOf(x)' = KeyOf(x)
  BY DEF KeyOf
<1>1. ASSUME NEW h \in Handlers, NEW kd \in Kinds, NEW k \in Keys \cup Senders,
             Arrive(h, kd, k)
      PROVE  PoolInv'
  <2>1. \A x \in Txs : tx[x] # "none" => KeyOf(x)' = KeyOf(x)
    BY <1>1 DEF Arrive, KeyOf, HandlerInv
  <2> QED BY <1>1, <2>1, PoolUntouched DEF Arrive
<1>2. ASSUME StopListening \/ CloseChannels \/ Cancel PROVE PoolInv'
  BY <1>2, <1>k, PoolUntouched DEF StopListening, CloseChannels, Cancel
<1>3. ASSUME NEW h \in Handlers, Handle(h), ~Create(h) PROVE PoolInv'
  <2>1. pool' = pool /\ key' = key
    BY <1>3 DEF Handle, HandleStart, Match, NoMatch, PassOther, InitTx, CheckCanceled,
                Serve, PassUp
  <2>2. \A x \in Txs : /\ tx[x] # "none" => tx'[x] # "none"
                       /\ tx'[x] \in {"created", "live"} => tx[x] \in {"created", "live"}
    <3>1. CASE InitTx(h)
      BY <3>1 DEF InitTx, HandlerInv
    <3>2. CASE ~InitTx(h)
      <4>1. tx' = tx
        BY <1>3, <3>2 DEF Handle, HandleStart, Match, NoMatch, PassOther, CheckCanceled,
                          Serve, PassUp
      <4> QED BY <4>1
    <3> QED BY <3>1, <3>2
  <2>3. \A x \in Txs : serve'[x] \in {"dropped", "gone"} => serve[x] \in {"dropped", "gone"}
    BY <1>3 DEF Handle, HandleStart, Match, NoMatch, PassOther, InitTx, CheckCanceled,
                Serve, PassUp, StartServing
  <2> QED BY <1>k, <2>1, <2>2, <2>3, PoolUntouched
<1>4. ASSUME NEW h \in Handlers, Create(h) PROVE PoolInv'
  <2>1. /\ pool' = [pool EXCEPT ![key[h]] = h] /\ tx' = [tx EXCEPT ![h] = "created"]
        /\ key' = key /\ serve' = serve /\ tx[h] = "none" /\ serve[h] = "none"
        /\ KeyOf(h) = key[h]
    BY <1>4 DEF Create, HandlerInv, LifeInv, KeyOf
  <2>2. EntryInv'
    BY <2>1, <1>k DEF EntryInv
  <2>3. NoStaleEntry'
    BY <2>1, <1>k DEF NoStaleEntry
  <2>4. LiveIsMatchable'
    <3> SUFFICES ASSUME NEW x \in Txs, tx'[x] \in {"created", "live"}
                 PROVE  \/ pool'[KeyOf(x)'] = x
                        \/ \E y \in Handlers \ {x} : key'[y] = KeyOf(x)' /\ tx'[y] # "none"
      BY DEF LiveIsMatchable
    <3>1. KeyOf(x)' = KeyOf(x) /\ KeyOf(x) \in Keys \cup Senders
      BY <2>1, <1>k DEF KeyOf
    <3>2. CASE x = h
      BY <2>1, <3>1, <3>2
    <3>3. CASE x # h /\ KeyOf(x) = key[h]
      BY <2>1, <3>1, <3>3
    <3>4. CASE x # h /\ KeyOf(x) # key[h]
      <4>1. CASE pool[KeyOf(x)] = x
        BY <2>1, <3>1, <3>4, <4>1
      <4>2. ASSUME NEW y \in Handlers \ {x}, key[y] = KeyOf(x), tx[y] # "none"
            PROVE  key'[y] = KeyOf(x)' /\ tx'[y] # "none"
        BY <2>1, <3>1, <4>2
      <4> QED BY <2>1, <3>4, <4>1, <4>2 DEF LiveIsMatchable
    <3> QED BY <3>2, <3>3, <3>4
  <2> QED BY <2>2, <2>3, <2>4 DEF PoolInv
<1>5. ASSUME NEW s \in Senders, SendPut(s), ~canceled PROVE PoolInv'
  <2>1. /\ pool' = [pool EXCEPT ![s] = s] /\ tx' = [tx EXCEPT ![s] = "created"]
        /\ key' = key /\ serve' = serve /\ tx[s] = "none" /\ serve[s] = "none"
        /\ KeyOf(s) = s
    BY <1>5 DEF SendPut, SenderInv, LifeInv, KeyOf
  <2>2. EntryInv'
    BY <2>1, <1>k DEF EntryInv
  <2>3. NoStaleEntry'
    BY <2>1, <1>k DEF NoStaleEntry
  <2>4. LiveIsMatchable'
    <3> SUFFICES ASSUME NEW x \in Txs, tx'[x] \in {"created", "live"}
                 PROVE  \/ pool'[KeyOf(x)'] = x
                        \/ \E y \in Handlers \ {x} : key'[y] = KeyOf(x)' /\ tx'[y] # "none"
      BY DEF LiveIsMatchable
    <3>1. KeyOf(x)' = KeyOf(x) /\ KeyOf(x) \in Keys \cup Senders
      BY <2>1, <1>k DEF KeyOf
    <3>2. CASE x = s
      BY <2>1, <3>1, <3>2
    <3>3. CASE x # s
      <4>1. KeyOf(x) # s
        BY <2>1, <3>3 DEF KeyOf, HandlerInv
      <4>2. CASE pool[KeyOf(x)] = x
        BY <2>1, <3>1, <4>1, <4>2
      <4>3. ASSUME NEW y \in Handlers \ {x}, key[y] = KeyOf(x), tx[y] # "none"
            PROVE  key'[y] = KeyOf(x)' /\ tx'[y] # "none"
        BY <2>1, <3>1, <4>3
      <4> QED BY <2>1, <3>3, <4>2, <4>3 DEF LiveIsMatchable
    <3> QED BY <3>2, <3>3
  <2> QED BY <2>2, <2>3, <2>4 DEF PoolInv
<1>6. ASSUME NEW s \in Senders, Send(s), ~(SendPut(s) /\ ~canceled) PROVE PoolInv'
  <2>1. pool' = pool /\ key' = key
    BY <1>6 DEF Send, SendPut, SendInit, SendReturn, SendServe
  <2>2. \A x \in Txs : /\ tx[x] # "none" => tx'[x] # "none"
                       /\ tx'[x] \in {"created", "live"} => tx[x] \in {"created", "live"}
    BY <1>6 DEF Send, SendPut, SendInit, SendReturn, SendServe, SenderInv
  <2>3. \A x \in Txs : serve'[x] \in {"dropped", "gone"} => serve[x] \in {"dropped", "gone"}
    BY <1>6 DEF Send, SendPut, SendInit, SendReturn, SendServe, StartServing
  <2> QED BY <1>k, <2>1, <2>2, <2>3, PoolUntouched
<1>7. ASSUME NEW x \in Txs, TxEnds(x) \/ ServeEnds(x) \/ ForwardRead(x) \/ ForwardSend(x)
      PROVE  PoolInv'
  <2>1. pool' = pool /\ key' = key
    BY <1>7 DEF TxEnds, ServeEnds, ForwardRead, ForwardSend
  <2>2. \A y \in Txs : tx'[y] = tx[y] \/ tx'[y] = "ended"
    BY <1>7 DEF TxEnds, ServeEnds, ForwardRead, ForwardSend
  <2>3. \A y \in Txs : serve'[y] \in {"dropped", "gone"} => serve[y] \in {"dropped", "gone"}
    BY <1>7 DEF TxEnds, ServeEnds, ForwardRead, ForwardSend
  <2> QED BY <1>k, <2>1, <2>2, <2>3, PoolUntouched
<1>8. ASSUME NEW x \in Txs, ServeDone(x) PROVE PoolInv'
  BY <1>8, <1>k, PoolUntouched DEF ServeDone
<1>9. ASSUME NEW d \in Txs, ServeDrop(d) PROVE PoolInv'
  <2>1. /\ pool' = [pool EXCEPT ![KeyOf(d)] = NoTx] /\ tx' = tx /\ key' = key
        /\ serve' = [serve EXCEPT ![d] = "dropped"]
        /\ tx[d] = "ended" /\ KeyOf(d) \in Keys \cup Senders
    BY <1>9 DEF ServeDrop, LifeInv, KeyOf
  <2>2. EntryInv'
    BY <2>1, <1>k DEF EntryInv
  <2>3. NoStaleEntry'
    BY <2>1, <1>k DEF NoStaleEntry
  <2>4. LiveIsMatchable'
    <3> SUFFICES ASSUME NEW x \in Txs, tx[x] \in {"created", "live"}
                 PROVE  \/ pool'[KeyOf(x)'] = x
                        \/ \E y \in Handlers \ {x} : key'[y] = KeyOf(x)' /\ tx'[y] # "none"
      BY <2>1 DEF LiveIsMatchable
    <3>1. KeyOf(x)' = KeyOf(x) /\ KeyOf(x) \in Keys \cup Senders /\ x # d
      BY <2>1, <1>k DEF KeyOf
    <3>2. CASE KeyOf(x) = KeyOf(d)
      <4>1. d \in Handlers \ {x} /\ key[d] = KeyOf(x)
        BY <2>1, <3>1, <3>2 DEF KeyOf, HandlerInv
      <4> QED BY <2>1, <3>1, <4>1
    <3>3. CASE KeyOf(x) # KeyOf(d)
      BY <2>1, <3>1, <3>3 DEF LiveIsMatchable
    <3> QED BY <3>2, <3>3
  <2> QED BY <2>2, <2>3, <2>4 DEF PoolInv
<1>10. CASE UNCHANGED vars
  BY <1>10, <1>k, PoolUntouched DEF vars
<1> QED BY <1>1, <1>2, <1>3, <1>4, <1>5, <1>6, <1>7, <1>8, <1>9, <1>10
        DEF Next, ServeSteps, Send

-----------------------------------------------------------------------------
(* The wait group.                                                         *)

\* txWg counts the serving goroutines, so that its Wait returns only when none
\* is left; one that a handler starts after that is recorded in late.
LEMMA CountStep == IInv /\ [Next]_vars => CountInv' /\ ClosedAfterServing'
<1> SUFFICES ASSUME IInv, [Next]_vars PROVE CountInv' /\ ClosedAfterServing'
  OBVIOUS
<1>0. TypeOK'
  BY TypeStep
<1> USE <1>0 DEF IInv, TypeOK, Txs, layerVars, msgVars, serveVars, txVars
<1> DEFINE Goal == CountInv' /\ ClosedAfterServing'
<1>1. ASSUME UNCHANGED <<listener, serveVars>> PROVE Goal
  <2>1. Serving' = Serving
    BY <1>1 DEF Serving
  <2> QED BY <1>1, <2>1 DEF CountInv, ClosedAfterServing, Closed
<1>2. ASSUME NEW x \in Txs, StartServing(x), listener' = listener, serve[x] = "none"
      PROVE  Goal
  <2>1. Serving' = Serving \cup {x} /\ x \notin Serving
    BY <1>2 DEF StartServing, Serving
  <2>2. IsFiniteSet(Serving') /\ Cardinality(Serving') = Cardinality(Serving) + 1
    BY <2>1, FS_AddElement DEF CountInv
  <2>3. CountInv'
    BY <1>2, <2>2 DEF StartServing, CountInv
  <2>4. ClosedAfterServing'
    BY <1>2 DEF StartServing, ClosedAfterServing, Closed
  <2> QED BY <2>3, <2>4
<1>3. ASSUME NEW h \in Handlers, NEW kd \in Kinds, NEW k \in Keys \cup Senders,
             Arrive(h, kd, k)
      PROVE  Goal
  BY <1>1, <1>3 DEF Arrive
<1>4. ASSUME StopListening PROVE Goal
  <2>1. Serving' = Serving
    BY <1>4 DEF Serving, StopListening
  <2> QED BY <1>4, <2>1 DEF StopListening, CountInv, ClosedAfterServing, Closed
<1>5. ASSUME CloseChannels PROVE Goal
  <2>1. Serving' = Serving /\ wg = 0 /\ UNCHANGED serveVars
    BY <1>5 DEF Serving, CloseChannels
  <2>2. Serving = {}
    BY <2>1, FS_EmptySet DEF CountInv
  <2>3. \A x \in Txs : serve'[x] \in {"none", "gone"}
    BY <2>1, <2>2 DEF Serving
  <2> QED BY <2>1, <2>3 DEF CountInv, ClosedAfterServing
<1>6. ASSUME Cancel PROVE Goal
  BY <1>1, <1>6 DEF Cancel
<1>7. ASSUME NEW h \in Handlers, Handle(h) PROVE Goal
  <2>1. CASE Serve(h)
    <3>1. serve[h] = "none"
      BY <2>1 DEF Serve, HandlerInv
    <3> QED BY <1>2, <2>1, <3>1 DEF Serve
  <2>2. CASE ~Serve(h)
    <3>1. UNCHANGED <<listener, serveVars>>
      BY <1>7, <2>2 DEF Handle, HandleStart, Match, NoMatch, PassOther, Create, InitTx,
                        CheckCanceled, PassUp
    <3> QED BY <1>1, <3>1
  <2> QED BY <2>1, <2>2
<1>8. ASSUME NEW s \in Senders, Send(s) PROVE Goal
  <2>1. CASE SendServe(s)
    <3>1. serve[s] = "none"
      BY <2>1 DEF SendServe, SenderInv
    <3> QED BY <1>2, <2>1, <3>1 DEF SendServe
  <2>2. CASE ~SendServe(s)
    <3>1. UNCHANGED <<listener, serveVars>>
      BY <1>8, <2>2 DEF Send, SendPut, SendInit, SendReturn
    <3> QED BY <1>1, <3>1
  <2> QED BY <2>1, <2>2
<1>9. ASSUME NEW x \in Txs, TxEnds(x) PROVE Goal
  BY <1>1, <1>9 DEF TxEnds
<1>10. ASSUME NEW x \in Txs, ServeEnds(x) \/ ServeDrop(x) PROVE Goal
  <2>1. Serving' = Serving
    BY <1>10 DEF ServeEnds, ServeDrop, Serving
  <2> QED BY <1>10, <2>1 DEF ServeEnds, ServeDrop, CountInv, ClosedAfterServing, Closed
<1>11. ASSUME NEW x \in Txs, ServeDone(x) PROVE Goal
  <2>1. Serving' = Serving \ {x} /\ x \in Serving
    BY <1>11 DEF ServeDone, Serving
  <2>2. IsFiniteSet(Serving') /\ Cardinality(Serving') = Cardinality(Serving) - 1
    BY <2>1, FS_RemoveElement DEF CountInv
  <2>3. CountInv'
    BY <1>11, <2>2 DEF ServeDone, CountInv
  <2>4. ClosedAfterServing'
    BY <1>11 DEF ServeDone, ClosedAfterServing, Closed
  <2> QED BY <2>3, <2>4
<1>12. ASSUME NEW x \in Txs, ForwardRead(x) \/ ForwardSend(x) PROVE Goal
  <2>1. Serving' = Serving
    BY <1>12 DEF ForwardRead, ForwardSend, Serving
  <2> QED BY <1>12, <2>1 DEF ForwardRead, ForwardSend, CountInv, ClosedAfterServing, Closed
<1>13. CASE UNCHANGED vars
  BY <1>1, <1>13 DEF vars
<1> QED BY <1>3, <1>4, <1>5, <1>6, <1>7, <1>8, <1>9, <1>10, <1>11, <1>12, <1>13
        DEF Next, ServeSteps

-----------------------------------------------------------------------------
(* The theorems.                                                           *)

\* The inductive invariant holds in every reachable state, for any number of
\* concurrent handleMessage, sendRequest and serveTransaction goroutines.
THEOREM Inductive == Spec => []IInv
<1>1. IInv /\ [Next]_vars => IInv'
  BY TypeStep, LocalStep, PoolStep, CountStep DEF IInv, PoolInv
<1> QED BY <1>1, InitInv, PTL DEF Spec

\* txWg never goes below zero, and no entry of the pool outlives the goroutine
\* that serves its transaction (serveTransaction drops before it calls Done).
THEOREM PoolIsSound == Spec => []PoolSound
<1>1. IInv => PoolSound
  BY DEF IInv, PoolSound
<1> QED BY <1>1, Inductive, PTL

\* A transaction that lives is found under its key, unless a handler of another
\* copy of its request put a transaction of its own under that key.
THEOREM LiveFound == Spec => []LiveIsMatchable
<1>1. IInv => LiveIsMatchable
  BY DEF IInv
<1> QED BY <1>1, Inductive, PTL

\* listenMessages closes the layer's channels after every serving goroutine has
\* dropped its transaction, but for those that start once the wait is over.
THEOREM ChannelsCloseLast == Spec => []ClosedAfterServing
<1>1. IInv => ClosedAfterServing
  BY DEF IInv
<1> QED BY <1>1, Inductive, PTL

-----------------------------------------------------------------------------
(* The order of a header list.                                             *)

\* InsertAt puts one element between the others.
LEMMA InsertElements ==
    ASSUME NEW S, NEW s \in Seq(S), NEW e \in S, NEW i \in 1 .. Len(s) + 1
    PROVE  /\ InsertAt(s, i, e) \in Seq(S)
           /\ Len(InsertAt(s, i, e)) = Len(s) + 1
           /\ \A j \in 1 .. Len(s) + 1 :
                InsertAt(s, i, e)[j] = IF j < i THEN s[j] ELSE IF j = i THEN e ELSE s[j - 1]
<1> DEFINE a == SubSeq(s, 1, i - 1)
           b == SubSeq(s, i, Len(s))
<1>1. Len(s) \in Nat /\ i \in Int
  OBVIOUS
<1>2. /\ a \in Seq(S) /\ Len(a) = i - 1
      /\ \A j \in 1 .. i - 1 : a[j] = s[j]
  BY <1>1
<1>3. /\ b \in Seq(S) /\ Len(b) = Len(s) - i + 1
      /\ \A j \in 1 .. Len(s) - i + 1 : b[j] = s[i + j - 1]
  BY <1>1
<1>4. InsertAt(s, i, e) = (a \o <<e>>) \o b
  BY DEF InsertAt
<1> HIDE DEF a, b
<1>5. /\ a \o <<e>> \in Seq(S) /\ Len(a \o <<e>>) = i
      /\ \A j \in 1 .. i : (a \o <<e>>)[j] = IF j < i THEN a[j] ELSE e
  BY <1>1, <1>2
<1> DEFINE t == (a \o <<e>>) \o b
<1>6. /\ t \in Seq(S) /\ Len(t) = Len(s) + 1
      /\ \A j \in 1 .. Len(s) + 1 : t[j] = IF j <= i THEN (a \o <<e>>)[j] ELSE b[j - i]
  BY <1>1, <1>3, <1>5
<1> HIDE DEF t
<1>7. ASSUME NEW j \in 1 .. Len(s) + 1
      PROVE  t[j] = IF j < i THEN s[j] ELSE IF j = i THEN e ELSE s[j - 1]
  <2>1. CASE j <= i
    BY <1>1, <1>2, <1>5, <1>6, <2>1
  <2>2. CASE j > i
    <3>1. j - i \in 1 .. Len(s) - i + 1 /\ i + (j - i) - 1 = j - 1
      BY <1>1, <2>2
    <3>2. b[j - i] = s[i + (j - i) - 1]
      BY <1>3, <3>1
    <3>3. t[j] = b[j - i]
      BY <1>1, <1>6, <2>2
    <3> QED BY <1>1, <2>2, <3>1, <3>2, <3>3
  <2> QED BY <1>1, <2>1, <2>2
<1> QED BY <1>4, <1>6, <1>7 DEF t

\* What is inserted is listed, and listed once if it was not there.
LEMMA InsertSet ==
    ASSUME NEW S, NEW s \in Seq(S), NEW e \in S, NEW i \in 1 .. Len(s) + 1
    PROVE  /\ InsertAt(s, i, e) \in Seq(S)
           /\ ToSet(InsertAt(s, i, e)) = ToSet(s) \cup {e}
           /\ IsInjective(s) /\ e \notin ToSet(s) => IsInjective(InsertAt(s, i, e))
<1> DEFINE t == InsertAt(s, i, e)
<1>1. /\ t \in Seq(S) /\ Len(t) = Len(s) + 1 /\ Len(s) \in Nat /\ i \in Int
      /\ \A j \in 1 .. Len(s) + 1 :
           t[j] = IF j < i THEN s[j] ELSE IF j = i THEN e ELSE s[j - 1]
  BY InsertElements
<1> HIDE DEF t
<1>2. DOMAIN t = 1 .. Len(s) + 1 /\ DOMAIN s = 1 .. Len(s)
  BY <1>1
<1>3. ToSet(t) \subseteq ToSet(s) \cup {e}
  <2> SUFFICES ASSUME NEW j \in 1 .. Len(s) + 1 PROVE t[j] \in ToSet(s) \cup {e}
    BY <1>2 DEF ToSet
  <2>1. CASE j < i
    BY <1>1, <1>2, <2>1 DEF ToSet
  <2>2. CASE j = i
    BY <1>1, <2>2
  <2>3. CASE j > i
    <3>1. j - 1 \in 1 .. Len(s) /\ t[j] = s[j - 1]
      BY <1>1, <2>3
    <3> QED BY <1>2, <3>1 DEF ToSet
  <2> QED BY <1>1, <2>1, <2>2, <2>3
<1>4. ToSet(s) \cup {e} \subseteq ToSet(t)
  <2>1. e \in ToSet(t)
    <3>1. i \in DOMAIN t /\ t[i] = e
      BY <1>1, <1>2
    <3> QED BY <3>1 DEF ToSet
  <2>2. ASSUME NEW j \in 1 .. Len(s) PROVE s[j] \in ToSet(t)
    <3>1. \E k \in DOMAIN t : t[k] = s[j]
      <4>1. CASE j < i
        BY <1>1, <1>2, <4>1
      <4>2. CASE j >= i
        <5>1. j + 1 \in 1 .. Len(s) + 1 /\ t[j + 1] = s[j]
          BY <1>1, <4>2
        <5> QED BY <1>2, <5>1
      <4> QED BY <1>1, <4>1, <4>2
    <3> QED BY <3>1 DEF ToSet
  <2> QED BY <1>2, <2>1, <2>2 DEF ToSet
<1>5. ASSUME IsInjective(s), e \notin ToSet(s) PROVE IsInjective(t)
  <2> SUFFICES ASSUME NEW j \in 1 .. Len(s) + 1, NEW k \in 1 .. Len(s) + 1, t[j] = t[k]
               PROVE  j = k
    BY <1>2 DEF IsInjective
  <2>1. \A x \in 1 .. Len(s) : s[x] # e
    BY <1>2, <1>5 DEF ToSet
  <2>2. \A x, y \in 1 .. Len(s) : s[x] = s[y] => x = y
    BY <1>2, <1>5 DEF IsInjective
  <2> DEFINE p(x) == IF x < i THEN x ELSE x - 1
  <2>3. \A x \in 1 .. Len(s) + 1 : x # i => p(x) \in 1 .. Len(s) /\ t[x] = s[p(x)]
    BY <1>1
  <2>4. \A x, y \in 1 .. Len(s) + 1 : x # i /\ y # i /\ p(x) = p(y) => x = y
    BY <1>1
  <2>5. t[i] = e
    BY <1>1
  <2> QED BY <2>1, <2>2, <2>3, <2>4, <2>5
<1> QED BY <1>1, <1>3, <1>4, <1>5 DEF t

\* The same at either end of the list.
LEMMA AppendSet ==
    ASSUME NEW S, NEW s \in Seq(S), NEW e \in S
    PROVE  /\ Append(s, e) \in Seq(S)
           /\ ToSet(Append(s, e)) = ToSet(s) \cup {e}
           /\ IsInjective(s) /\ e \notin ToSet(s) => IsInjective(Append(s, e))
<1>1. /\ Len(s) \in Nat /\ DOMAIN s = 1 .. Len(s) /\ Append(s, e) \in Seq(S)
      /\ DOMAIN Append(s, e) = 1 .. Len(s) + 1
      /\ \A j \in 1 .. Len(s) : Append(s, e)[j] = s[j]
      /\ Append(s, e)[Len(s) + 1] = e
  OBVIOUS
<1>2. \A j \in 1 .. Len(s) + 1 : j \in 1 .. Len(s) \/ j = Len(s) + 1
  BY <1>1
<1>3. 1 .. Len(s) \subseteq 1 .. Len(s) + 1 /\ Len(s) + 1 \in 1 .. Len(s) + 1
  BY <1>1
<1>4. ToSet(Append(s, e)) = ToSet(s) \cup {e}
  BY <1>1, <1>2, <1>3, Zenon DEF ToSet
<1>5. ASSUME IsInjective(s), e \notin ToSet(s) PROVE IsInjective(Append(s, e))
  BY <1>1, <1>2, <1>5 DEF IsInjective, ToSet
<1> QED BY <1>1, <1>4, <1>5

\* The same in front of the list.
LEMMA PrependSet ==
    ASSUME NEW S, NEW s \in Seq(S), NEW e \in S
    PROVE  /\ <<e>> \o s \in Seq(S)
           /\ ToSet(<<e>> \o s) = ToSet(s) \cup {e}
           /\ IsInjective(s) /\ e \notin ToSet(s) => IsInjective(<<e>> \o s)
<1>1. InsertAt(s, 1, e) = <<e>> \o s
  <2>1. /\ <<e>> \o s \in Seq(S) /\ Len(<<e>> \o s) = Len(s) + 1 /\ Len(s) \in Nat
        /\ \A j \in 1 .. Len(s) + 1 : (<<e>> \o s)[j] = IF j = 1 THEN e ELSE s[j - 1]
    OBVIOUS
  <2>2. /\ InsertAt(s, 1, e) \in Seq(S) /\ Len(InsertAt(s, 1, e)) = Len(s) + 1
        /\ \A j \in 1 .. Len(s) + 1 :
             InsertAt(s, 1, e)[j] = IF j < 1 THEN s[j] ELSE IF j = 1 THEN e ELSE s[j - 1]
    BY <2>1, InsertElements
  <2>3. \A j \in 1 .. Len(s) + 1 : InsertAt(s, 1, e)[j] = (<<e>> \o s)[j]
    BY <2>1, <2>2
  <2> QED BY <2>1, <2>2, <2>3, SeqEqual
<1>2. /\ InsertAt(s, 1, e) \in Seq(S)
      /\ ToSet(InsertAt(s, 1, e)) = ToSet(s) \cup {e}
      /\ IsInjective(s) /\ e \notin ToSet(s) => IsInjective(InsertAt(s, 1, e))
  <2>1. 1 \in 1 .. Len(s) + 1
    OBVIOUS
  <2> QED BY <2>1, InsertSet
<1> QED BY <1>1, <1>2, Zenon

\* RemoveFirst takes one name out of a list without repetitions.
LEMMA RemoveSet ==
    ASSUME NEW S, NEW s \in Seq(S), NEW e, IsInjective(s)
    PROVE  /\ RemoveFirst(s, e) \in Seq(S)
           /\ ToSet(RemoveFirst(s, e)) = ToSet(s) \ {e}
           /\ IsInjective(RemoveFirst(s, e))
<1>0. DOMAIN s = 1 .. Len(s) /\ Len(s) \in Nat
  OBVIOUS
<1>1. CASE e \notin ToSet(s)
  <2>1. RemoveFirst(s, e) = s
    BY <1>0, <1>1 DEF RemoveFirst, ToSet
  <2> QED BY <1>1, <2>1
<1>2. CASE e \in ToSet(s)
  <2>1. PICK i \in 1 .. Len(s) : s[i] = e
    BY <1>0, <1>2 DEF ToSet
  <2>2. \A x, y \in 1 .. Len(s) : s[x] = s[y] => x = y
    BY <1>0 DEF IsInjective
  <2>3. {j \in 1 .. Len(s) : s[j] = e} = {i}
    BY <2>1, <2>2
  <2>4. Min({i}) = i
    <3>1. i <= i
      BY <1>0
    <3> QED BY <3>1 DEF Min
  <2>5. SelectInSeq(s, LAMBDA v : v = e) = i
    BY <2>3, <2>4 DEF SelectInSeq
  <2>6. RemoveFirst(s, e) = RemoveAt(s, i)
    BY <2>1, <2>5 DEF RemoveFirst
  <2> DEFINE a == SubSeq(s, 1, i - 1)
             b == SubSeq(s, i + 1, Len(s))
             t == RemoveAt(s, i)
  <2>7. /\ a \in Seq(S) /\ Len(a) = i - 1
        /\ \A j \in 1 .. i - 1 : a[j] = s[j]
    BY <1>0
  <2>8. /\ b \in Seq(S) /\ Len(b) = Len(s) - i
        /\ \A j \in 1 .. Len(s) - i : b[j] = s[(i + 1) + j - 1]
    <3>1. i + 1 \in 1 .. Len(s) + 1 /\ Len(s) - (i + 1) + 1 = Len(s) - i
      BY <1>0
    <3>2. \A x \in i + 1 .. Len(s) : s[x] \in S
      BY <1>0
    <3>3. /\ b \in Seq(S) /\ Len(b) = IF i + 1 <= Len(s) THEN Len(s) - (i + 1) + 1 ELSE 0
          /\ \A j \in 1 .. Len(s) - (i + 1) + 1 : b[j] = s[(i + 1) + j - 1]
      BY <1>0, <3>1, <3>2, SubSeqProperties
    <3> HIDE DEF b
    <3>4. Len(b) = Len(s) - i
      <4>1. CASE i + 1 <= Len(s)
        BY <3>1, <3>3, <4>1
      <4>2. CASE ~(i + 1 <= Len(s))
        <5>1. Len(s) \in Int /\ i \in Int /\ i <= Len(s)
          BY <1>0
        <5>2. \A x, y \in Int : x <= y /\ ~(x + 1 <= y) => y - x = 0
          OBVIOUS
        <5>3. Len(s) - i = 0
          BY <4>2, <5>1, <5>2
        <5> QED BY <3>3, <4>2, <5>3
      <4> QED BY <4>1, <4>2
    <3> QED BY <3>1, <3>3, <3>4
  <2>9. t = a \o b
    BY DEF RemoveAt
  <2> HIDE DEF a, b, t
  <2>10. /\ t \in Seq(S) /\ Len(t) = Len(s) - 1
         /\ \A j \in 1 .. Len(s) - 1 : t[j] = IF j < i THEN a[j] ELSE b[j - i + 1]
    <3>1. /\ a \o b \in Seq(S) /\ Len(a \o b) = Len(a) + Len(b)
          /\ \A j \in 1 .. Len(a) + Len(b) :
               (a \o b)[j] = IF j <= Len(a) THEN a[j] ELSE b[j - Len(a)]
      BY <2>7, <2>8, ConcatProperties
    <3>2. Len(a) + Len(b) = Len(s) - 1
      BY <1>0, <2>7, <2>8
    <3>3. \A j \in 1 .. Len(s) - 1 :
            (j <= Len(a) <=> j < i) /\ j - Len(a) = j - i + 1
      BY <1>0, <2>7
    <3> QED BY <2>9, <3>1, <3>2, <3>3
  <2>11. \A j \in 1 .. Len(s) - 1 : t[j] = IF j < i THEN s[j] ELSE s[j + 1]
    <3> SUFFICES ASSUME NEW j \in 1 .. Len(s) - 1
                 PROVE  t[j] = IF j < i THEN s[j] ELSE s[j + 1]
      OBVIOUS
    <3>1. CASE j < i
      BY <1>0, <2>7, <2>10, <3>1
    <3>2. CASE j >= i
      <4>1. j - i + 1 \in 1 .. Len(s) - i /\ (i + 1) + (j - i + 1) - 1 = j + 1
        BY <1>0, <3>2
      <4>2. b[j - i + 1] = s[(i + 1) + (j - i + 1) - 1]
        BY <2>8, <4>1
      <4>3. t[j] = b[j - i + 1]
        BY <1>0, <2>10, <3>2
      <4> QED BY <1>0, <3>2, <4>1, <4>2, <4>3
    <3> QED BY <1>0, <3>1, <3>2
  <2>12. DOMAIN t = 1 .. Len(s) - 1
    BY <2>10
  <2> DEFINE p(x) == IF x < i THEN x ELSE x + 1
  <2>13. \A x \in 1 .. Len(s) - 1 : p(x) \in 1 .. Len(s) /\ p(x) # i /\ t[x] = s[p(x)]
    BY <1>0, <2>11
  <2>14. \A x, y \in 1 .. Len(s) - 1 : p(x) = p(y) => x = y
    BY <1>0
  <2>15. \A x \in 1 .. Len(s) : x # i => \E y \in 1 .. Len(s) - 1 : p(y) = x
    <3> SUFFICES ASSUME NEW x \in 1 .. Len(s), x # i
                 PROVE  \E y \in 1 .. Len(s) - 1 : p(y) = x
      OBVIOUS
    <3>1. CASE x < i
      BY <1>0, <3>1
    <3>2. CASE x > i
      <4>1. x - 1 \in 1 .. Len(s) - 1 /\ p(x - 1) = x
        BY <1>0, <3>2
      <4> QED BY <4>1
    <3> QED BY <1>0, <3>1, <3>2
  <2> HIDE DEF p
  <2>16. IsInjective(t)
    BY <2>2, <2>12, <2>13, <2>14 DEF IsInjective
  <2>17. ToSet(t) \subseteq ToSet(s) \ {e}
    BY <1>0, <2>1, <2>2, <2>12, <2>13 DEF ToSet
  <2>18. ToSet(s) \ {e} \subseteq ToSet(t)
    <3> SUFFICES ASSUME NEW x \in 1 .. Len(s), s[x] # e PROVE s[x] \in ToSet(t)
      BY <1>0 DEF ToSet
    <3>1. PICK y \in 1 .. Len(s) - 1 : p(y) = x
      BY <2>1, <2>15
    <3>2. y \in DOMAIN t /\ t[y] = s[x]
      BY <2>12, <2>13, <3>1
    <3> QED BY <3>2 DEF ToSet
  <2> QED BY <2>6, <2>10, <2>16, <2>17, <2>18 DEF t
<1> QED BY <1>1, <1>2

-----------------------------------------------------------------------------
(* The operations of a header list.                                        *)

\* The names of the transaction and of the dialog, and all others that are used.
Core   == {"via", "from", "to", "call-id", "cseq"}
Others == {"record-route", "max-forwards", "contact", "content-length", "allow", "supported",
           "user-agent", "authorization", "proxy-authorization", "www-authenticate",
           "proxy-authenticate"}
Names  == Core \cup Others \cup EditNames

Methods == {"INVITE", "REGISTER", "ACK", "BYE"}
Vias    == [branch : Nat, cookie : BOOLEAN, host : {"default", "local", "old"}, tp : {"UDP", "TCP"}]
CSeqs   == [no : Nat, method : Methods]
Values  == {"set", "nilParams"} \cup Nat \cup Vias \cup CSeqs
Lists   == Seq(Values) \ {<<>>}

\* The states of a header list: what is listed is stored, with a value at least.
HeaderList(hs) ==
    /\ hs = [map |-> hs.map, order |-> hs.order]
    /\ DOMAIN hs.map \subseteq Names /\ hs.map \in [DOMAIN hs.map -> Lists]
    /\ hs.order \in Seq(Names) /\ ToSet(hs.order) \subseteq DOMAIN hs.map

Shown(hs) == ToSet(hs.order)

\* Nothing but the headers of X is different.
Keeps(new, old, X) ==
    \A k \in Names \ X :
        /\ k \in DOMAIN new.map <=> k \in DOMAIN old.map
        /\ k \in Shown(new) <=> k \in Shown(old)
        /\ k \in DOMAIN old.map => new.map[k] = old.map[k]

\* No name is listed a second time, and none is stored without being listed that
\* was not before.
Tidy(new, old) ==
    /\ IsInjective(old.order) => IsInjective(new.order)
    /\ DOMAIN new.map \ Shown(new) \subseteq DOMAIN old.map \ Shown(old)

\* A list that is put together is a header list.
LEMMA MakeList ==
    ASSUME NEW D, D \subseteq Names, NEW map \in [D -> Lists],
           NEW order \in Seq(Names), ToSet(order) \subseteq D
    PROVE  HeaderList([map |-> map, order |-> order])
BY DEF HeaderList

\* The lists of values the operations make of one list and one value.
LEMMA ValueLists ==
    ASSUME NEW v \in Values, NEW vs \in Lists
    PROVE  /\ <<v>> \in Lists /\ Head(<<v>>) = v
           /\ Append(vs, v) \in Lists /\ Head(Append(vs, v)) = Head(vs)
           /\ <<v>> \o vs \in Lists /\ Head(<<v>> \o vs) = v
           /\ <<v>> \o Tail(vs) \in Lists /\ Head(<<v>> \o Tail(vs)) = v
           /\ Head(vs) \in Values /\ (Len(vs) = 1 => <<v>> \o Tail(vs) = <<v>>)
<1>1. Tail(vs) \in Seq(Values) /\ vs \in Seq(Values) /\ vs # <<>>
  BY DEF Lists
<1>2. <<v>> \in Lists /\ Head(<<v>>) = v
  BY DEF Lists
<1>3. Append(vs, v) \in Lists /\ Head(Append(vs, v)) = Head(vs)
  BY <1>1 DEF Lists
<1>4. \A s \in Seq(Values) : <<v>> \o s \in Lists /\ Head(<<v>> \o s) = v
  BY DEF Lists
<1>5. Head(vs) \in Values
  BY <1>1
<1>6. ASSUME Len(vs) = 1 PROVE <<v>> \o Tail(vs) = <<v>>
  <2>1. Tail(vs) = <<>>
    <3>1. Len(Tail(vs)) = 0
      BY <1>1, <1>6, HeadTailProperties
    <3> QED BY <1>1, <3>1, EmptySeq
  <2>2. <<v>> \o <<>> = <<v>>
    <3>1. <<v>> \in Seq(Values)
      OBVIOUS
    <3> QED BY <3>1, ConcatEmptySeq
  <2> QED BY <2>1, <2>2, Zenon
<1> QED BY <1>1, <1>2, <1>3, <1>4, <1>5, <1>6, Zenon

\* The values vs are stored under the name n, and the order is a new one.
Stored(new, hs, n, vs, order) == new = [map |-> Put(hs.map, n, vs), order |-> order]

\* What is known of the list then.
StoredFacts(new, hs, n, vs, order) ==
    /\ HeaderList(new) /\ Keeps(new, hs, {n})
    /\ n \in ToSet(order) \/ n \in DOMAIN hs.map \ Shown(hs) => Tidy(new, hs)
    /\ DOMAIN new.map = DOMAIN hs.map \cup {n} /\ Shown(new) = ToSet(order)
    /\ new.map[n] = vs /\ (IsInjective(hs.order) => IsInjective(new.order))

\* A list in which one name got other values, and at most its place in the order
\* changed.
LEMMA StoreList ==
    ASSUME NEW hs, HeaderList(hs), NEW n \in Names, NEW vs \in Lists, NEW order \in Seq(Names),
           ToSet(order) \ {n} = Shown(hs) \ {n},
           IsInjective(hs.order) => IsInjective(order),
           NEW new, Stored(new, hs, n, vs, order)
    PROVE  StoredFacts(new, hs, n, vs, order)
<1> DEFINE D == DOMAIN hs.map
           ms == Put(hs.map, n, vs)
<1>1. D \subseteq Names /\ hs.map \in [D -> Lists] /\ Shown(hs) \subseteq D
  BY DEF HeaderList, Shown
<1>2. /\ ms \in [D \cup {n} -> Lists] /\ ms[n] = vs
      /\ \A k \in D \ {n} : ms[k] = hs.map[k]
  BY <1>1 DEF Put
<1> HIDE DEF D, ms
<1>3. D \cup {n} \subseteq Names /\ ToSet(order) \subseteq D \cup {n}
  BY <1>1
<1>4. HeaderList(new)
  BY <1>2, <1>3, MakeList DEF ms, Stored
<1>5. DOMAIN new.map = D \cup {n} /\ Shown(new) = ToSet(order) /\ new.order = order /\ new.map = ms
  BY <1>2 DEF Shown, ms, Stored
<1>6. Keeps(new, hs, {n})
  BY <1>2, <1>5 DEF Keeps, D
<1>7. n \in ToSet(order) \/ n \in D \ Shown(hs) => Tidy(new, hs)
  BY <1>1, <1>5 DEF Tidy, D
<1> QED BY <1>2, <1>4, <1>5, <1>6, <1>7 DEF D, StoredFacts

\* An assignment to an entry of the map.
LEMMA ExceptIsPut ==
    ASSUME NEW hs, HeaderList(hs), NEW n \in DOMAIN hs.map, NEW vs
    PROVE  Stored([hs EXCEPT !.map[n] = vs], hs, n, vs, hs.order)
<1> DEFINE ms == hs.map
           os == hs.order
<1>1. hs = [map |-> ms, order |-> os] /\ ms = [k \in DOMAIN ms |-> ms[k]]
  BY DEF HeaderList
<1>2. [ms EXCEPT ![n] = vs] = Put(ms, n, vs)
  BY <1>1 DEF Put
<1>3. [hs EXCEPT !.map[n] = vs] = [hs EXCEPT !.map = [ms EXCEPT ![n] = vs]]
  OBVIOUS
<1> HIDE DEF ms, os
<1>4. [hs EXCEPT !.map = [ms EXCEPT ![n] = vs]] = [map |-> [ms EXCEPT ![n] = vs], order |-> os]
  BY <1>1
<1> QED BY <1>2, <1>3, <1>4 DEF ms, os, Stored

\* What the operations have in common.
LEMMA ListFacts ==
    ASSUME NEW hs, HeaderList(hs)
    PROVE  /\ hs.order \in Seq(Names) /\ Shown(hs) \subseteq DOMAIN hs.map
           /\ DOMAIN hs.map \subseteq Names /\ \A k \in DOMAIN hs.map : hs.map[k] \in Lists
BY DEF HeaderList, Shown

\* A value changed in place.
LEMMA SetFirstList ==
    ASSUME NEW hs, HeaderList(hs), NEW n \in DOMAIN hs.map, NEW v \in Values
    PROVE  LET new == SetFirst(hs, n, v)
           IN  /\ HeaderList(new) /\ Keeps(new, hs, {n}) /\ Tidy(new, hs)
               /\ DOMAIN new.map = DOMAIN hs.map /\ Shown(new) = Shown(hs)
               /\ First(new, n) = v
               /\ Len(hs.map[n]) = 1 => new.map[n] = <<v>>
<1> DEFINE vs == <<v>> \o Tail(hs.map[n])
           new == SetFirst(hs, n, v)
<1>1. hs.map[n] \in Lists /\ n \in Names /\ hs.order \in Seq(Names)
  BY ListFacts
<1>2. vs \in Lists /\ Head(vs) = v /\ (Len(hs.map[n]) = 1 => vs = <<v>>)
  BY <1>1, ValueLists
<1>3. SetFirst(hs, n, v) = [hs EXCEPT !.map[n] = vs]
  BY DEF SetFirst
<1> HIDE DEF vs
<1>4. Stored(new, hs, n, vs, hs.order) /\ ToSet(hs.order) = Shown(hs)
  <2>1. Stored([hs EXCEPT !.map[n] = vs], hs, n, vs, hs.order)
    BY ExceptIsPut, ZenonT(30)
  <2> QED BY <1>3, <2>1, ZenonT(30) DEF Shown
<1> HIDE DEF new
<1>5. StoredFacts(new, hs, n, vs, hs.order)
  BY <1>1, <1>2, <1>4, StoreList, ZenonT(30)
<1> QED BY <1>2, <1>4, <1>5 DEF First, new, StoredFacts

\* A value added behind the others.
LEMMA AddList ==
    ASSUME NEW hs, HeaderList(hs), NEW n \in Names, NEW v \in Values
    PROVE  LET new == AddHeader(hs, n, v)
           IN  /\ HeaderList(new) /\ Keeps(new, hs, {n}) /\ Tidy(new, hs)
               /\ DOMAIN new.map = DOMAIN hs.map \cup {n}
               /\ Shown(hs) \subseteq Shown(new)
               /\ n \notin DOMAIN hs.map => new.map[n] = <<v>> /\ n \in Shown(new)
<1> DEFINE new == AddHeader(hs, n, v)
<1>1. hs.order \in Seq(Names) /\ Shown(hs) \subseteq DOMAIN hs.map
  BY ListFacts
<1>2. CASE n \in DOMAIN hs.map
  <2> DEFINE vs == Append(hs.map[n], v)
  <2>1. vs \in Lists
    BY <1>2, ListFacts, ValueLists
  <2>2. AddHeader(hs, n, v) = [hs EXCEPT !.map[n] = vs]
    BY <1>2 DEF AddHeader, Has
  <2> HIDE DEF vs
  <2>3. Stored(new, hs, n, vs, hs.order) /\ ToSet(hs.order) = Shown(hs)
    <3>1. Stored([hs EXCEPT !.map[n] = vs], hs, n, vs, hs.order)
      BY <1>2, ExceptIsPut, ZenonT(30)
    <3> QED BY <2>2, <3>1, ZenonT(30) DEF Shown
  <2> HIDE DEF new
  <2>4. StoredFacts(new, hs, n, vs, hs.order)
    BY <1>1, <2>1, <2>3, StoreList, ZenonT(30)
  <2> QED BY <1>2, <2>3, <2>4 DEF new, StoredFacts
<1>3. CASE n \notin DOMAIN hs.map
  <2> DEFINE order == Append(hs.order, n)
  <2>1. Stored(new, hs, n, <<v>>, order)
    BY <1>3 DEF AddHeader, Has, Stored
  <2>2. <<v>> \in Lists
    BY DEF Lists
  <2>3. /\ order \in Seq(Names) /\ ToSet(order) = Shown(hs) \cup {n}
        /\ IsInjective(hs.order) => IsInjective(order)
    BY <1>1, <1>3, AppendSet DEF Shown
  <2> HIDE DEF order, new
  <2>4. ToSet(order) \ {n} = Shown(hs) \ {n}
    BY <2>3
  <2>5. StoredFacts(new, hs, n, <<v>>, order)
    BY <2>1, <2>2, <2>3, <2>4, StoreList, ZenonT(30)
  <2> QED BY <2>3, <2>5 DEF new, StoredFacts
<1> QED BY <1>2, <1>3

\* A value added before the others.
LEMMA PrependList ==
    ASSUME NEW hs, HeaderList(hs), NEW n \in Names, NEW v \in Values
    PROVE  LET new == PrependHeader(hs, n, v)
           IN  HeaderList(new) /\ Keeps(new, hs, {n}) /\ Tidy(new, hs)
<1> DEFINE new == PrependHeader(hs, n, v)
<1>1. hs.order \in Seq(Names) /\ Shown(hs) \subseteq DOMAIN hs.map
  BY ListFacts
<1>2. CASE n \in DOMAIN hs.map
  <2> DEFINE vs == <<v>> \o hs.map[n]
  <2>1. vs \in Lists
    BY <1>2, ListFacts, ValueLists
  <2>2. PrependHeader(hs, n, v) = [hs EXCEPT !.map[n] = vs]
    BY <1>2 DEF PrependHeader, Has
  <2> HIDE DEF vs
  <2>3. Stored(new, hs, n, vs, hs.order) /\ ToSet(hs.order) = Shown(hs)
    <3>1. Stored([hs EXCEPT !.map[n] = vs], hs, n, vs, hs.order)
      BY <1>2, ExceptIsPut, ZenonT(30)
    <3> QED BY <2>2, <3>1, ZenonT(30) DEF Shown
  <2> HIDE DEF new
  <2>4. StoredFacts(new, hs, n, vs, hs.order)
    BY <1>1, <2>1, <2>3, StoreList, ZenonT(30)
  <2> QED BY <1>2, <2>3, <2>4 DEF new, StoredFacts
<1>3. CASE n \notin DOMAIN hs.map
  <2> DEFINE order == <<n>> \o hs.order
  <2>1. Stored(new, hs, n, <<v>>, order)
    BY <1>3 DEF PrependHeader, Has, Stored
  <2>2. <<v>> \in Lists
    BY DEF Lists
  <2>3. /\ order \in Seq(Names) /\ ToSet(order) = Shown(hs) \cup {n}
        /\ IsInjective(hs.order) => IsInjective(order)
    BY <1>1, <1>3, PrependSet, ZenonT(30) DEF Shown
  <2> HIDE DEF order, new
  <2>4. ToSet(order) \ {n} = Shown(hs) \ {n}
    BY <2>3
  <2>5. StoredFacts(new, hs, n, <<v>>, order)
    BY <2>1, <2>2, <2>3, <2>4, StoreList, ZenonT(30)
  <2> QED BY <2>3, <2>5 DEF new, StoredFacts
<1> QED BY <1>2, <1>3

\* A value that takes the place of all others: a new name is not shown.
LEMMA ReplaceList ==
    ASSUME NEW hs, HeaderList(hs), NEW n \in Names, NEW v \in Values
    PROVE  LET new == ReplaceHeader(hs, n, v)
           IN  /\ HeaderList(new) /\ Keeps(new, hs, {n})
               /\ IsInjective(hs.order) => IsInjective(new.order)
               /\ n \in DOMAIN hs.map => Tidy(new, hs)
<1> DEFINE new == ReplaceHeader(hs, n, v)
<1>1. hs.order \in Seq(Names) /\ ToSet(hs.order) = Shown(hs)
  BY ListFacts DEF Shown
<1>2. <<v>> \in Lists
  BY DEF Lists
<1>3. Stored(new, hs, n, <<v>>, hs.order)
  <2>1. hs = [map |-> hs.map, order |-> hs.order]
    BY DEF HeaderList
  <2> QED BY <2>1 DEF ReplaceHeader, Stored
<1> HIDE DEF new
<1>4. StoredFacts(new, hs, n, <<v>>, hs.order)
  BY <1>1, <1>2, <1>3, StoreList, ZenonT(30)
<1> QED BY <1>1, <1>4 DEF new, StoredFacts

\* A name taken out.
LEMMA DelList ==
    ASSUME NEW hs, HeaderList(hs), NEW n, IsInjective(hs.order)
    PROVE  LET new == DelHeader(hs, n)
           IN  /\ HeaderList(new) /\ Keeps(new, hs, {n})
               /\ IsInjective(new.order) /\ n \notin DOMAIN new.map
<1> DEFINE D == DOMAIN hs.map \ {n}
           ms == [k \in D |-> hs.map[k]]
           order == RemoveFirst(hs.order, n)
           new == DelHeader(hs, n)
<1>1. new = [map |-> ms, order |-> order]
  BY DEF DelHeader
<1>2. order \in Seq(Names) /\ ToSet(order) = Shown(hs) \ {n} /\ IsInjective(order)
  BY ListFacts, RemoveSet DEF Shown
<1>3. D \subseteq Names /\ ms \in [D -> Lists] /\ Shown(hs) \ {n} \subseteq D
  BY ListFacts
<1>4. DOMAIN ms = D /\ \A k \in D : ms[k] = hs.map[k]
  OBVIOUS
<1> HIDE DEF ms, order, new
<1>5. HeaderList(new)
  BY <1>1, <1>2, <1>3, MakeList
<1>6. DOMAIN new.map = D /\ Shown(new) = Shown(hs) \ {n} /\ new.order = order /\ new.map = ms
  BY <1>1, <1>2, <1>4 DEF Shown
<1>7. Keeps(new, hs, {n})
  BY <1>4, <1>6 DEF Keeps
<1> QED BY <1>2, <1>5, <1>6, <1>7 DEF new

\* The place of a name, as SelectInSeq finds it.
Place(s, e) == LET I == {i \in 1 .. Len(s) : s[i] = e} IN IF I # {} THEN Min(I) ELSE 0

\* A name has its place in the list, or 0.
LEMMA PlaceOf ==
    ASSUME NEW S, NEW s \in Seq(S), NEW e, IsInjective(s)
    PROVE  Place(s, e) \in 0 .. Len(s)
<1> DEFINE I == {i \in 1 .. Len(s) : s[i] = e}
<1>1. Place(s, e) = IF I # {} THEN Min(I) ELSE 0
  BY DEF Place
<1>2. ASSUME NEW i \in I PROVE Min(I) = i
  <2>1. I = {i}
    BY DEF IsInjective
  <2>2. Min({i}) = i
    <3>1. i <= i
      OBVIOUS
    <3> QED BY <3>1 DEF Min
  <2> QED BY <2>1, <2>2, ZenonT(30)
<1> QED BY <1>1, <1>2

\* A value added before the others, behind another name.
LEMMA AfterList ==
    ASSUME NEW hs, HeaderList(hs), NEW n \in Names, NEW v \in Values, NEW after,
           IsInjective(hs.order)
    PROVE  LET new == PrependHeaderAfter(hs, n, v, after)
           IN  HeaderList(new) /\ Keeps(new, hs, {n}) /\ Tidy(new, hs)
<1> DEFINE rest == RemoveFirst(hs.order, n)
           at == SelectInSeq(rest, LAMBDA m : m = after)
           vs == IF IsShown(hs, n) THEN <<v>> \o hs.map[n] ELSE <<v>>
           order == IF n = after /\ IsShown(hs, n) THEN hs.order
                    ELSE InsertAt(rest, at + 1, n)
           new == PrependHeaderAfter(hs, n, v, after)
<1>1. CASE ~Has(hs, after)
  BY <1>1, PrependList DEF PrependHeaderAfter
<1>2. CASE Has(hs, after)
  <2>1. Stored(new, hs, n, vs, order)
    BY <1>2 DEF PrependHeaderAfter, Stored
  <2>2. /\ hs.order \in Seq(Names) /\ Shown(hs) \subseteq DOMAIN hs.map
        /\ IsShown(hs, n) <=> n \in Shown(hs)
    <3>1. hs.order \in Seq(Names) /\ Shown(hs) \subseteq DOMAIN hs.map
      BY ListFacts
    <3>2. DOMAIN hs.order = 1 .. Len(hs.order)
      BY <3>1
    <3>3. IsShown(hs, n) <=> n \in Shown(hs)
      BY <3>2, ZenonT(30) DEF IsShown, Shown, Contains, ToSet
    <3> QED BY <3>1, <3>3
  <2>3. vs \in Lists
    <3>1. <<v>> \in Lists
      BY DEF Lists
    <3>2. n \in Shown(hs) => <<v>> \o hs.map[n] \in Lists
      BY <2>2, ListFacts, ValueLists
    <3> QED BY <2>2, <3>1, <3>2, ZenonT(30)
  <2>4. rest \in Seq(Names) /\ ToSet(rest) = Shown(hs) \ {n} /\ IsInjective(rest)
    BY <2>2, RemoveSet DEF Shown
  <2>5. at \in 0 .. Len(rest)
    <3> HIDE DEF rest
    <3>1. at = Place(rest, after)
      BY DEF SelectInSeq, Place
    <3> QED BY <2>4, <3>1, PlaceOf
  <2>6. at + 1 \in 1 .. Len(rest) + 1
    BY <2>4, <2>5
  <2> HIDE DEF rest, at
  <2>7. /\ InsertAt(rest, at + 1, n) \in Seq(Names)
        /\ ToSet(InsertAt(rest, at + 1, n)) = ToSet(rest) \cup {n}
        /\ IsInjective(InsertAt(rest, at + 1, n))
    BY <2>4, <2>6, InsertSet
  <2>8. order \in Seq(Names) /\ ToSet(order) = Shown(hs) \cup {n} /\ IsInjective(order)
    BY <2>2, <2>4, <2>7 DEF Shown
  <2> HIDE DEF order, vs, new
  <2>9. ToSet(order) \ {n} = Shown(hs) \ {n}
    BY <2>8
  <2>10. StoredFacts(new, hs, n, vs, order)
    BY <2>1, <2>3, <2>8, <2>9, StoreList, ZenonT(30)
  <2> QED BY <2>8, <2>10 DEF new, StoredFacts
<1> QED BY <1>1, <1>2

\* A header copied from one list to another that lacks it.
Copy(new, from, to, n) ==
    /\ HeaderList(new) /\ Keeps(new, to, {n})
    /\ DOMAIN new.map = DOMAIN to.map \cup {n} /\ Shown(new) = Shown(to) \cup {n}
    /\ new.map[n] = from.map[n]

\* CopyHeaders of a name that is missing at the other end.
LEMMA CopyList ==
    ASSUME NEW from, HeaderList(from), NEW to, HeaderList(to),
           NEW n \in DOMAIN from.map, n \notin DOMAIN to.map
    PROVE  Copy(CopyHeaders(n, from, to), from, to, n)
<1> DEFINE vs == from.map[n]
           order == Append(to.order, n)
           new == CopyHeaders(n, from, to)
<1>1. vs \in Lists /\ n \in Names /\ to.order \in Seq(Names) /\ Shown(to) \subseteq DOMAIN to.map
  BY ListFacts
<1>2. <<>> \o vs = vs
  BY <1>1, ConcatEmptySeq DEF Lists
<1>3. CopyHeaders(n, from, to) = [map |-> Put(to.map, n, <<>> \o vs), order |-> order]
  BY DEF CopyHeaders, Has
<1>4. Stored(new, to, n, vs, order)
  BY <1>2, <1>3, ZenonT(30) DEF Stored
<1>5. /\ order \in Seq(Names) /\ ToSet(order) = Shown(to) \cup {n}
      /\ IsInjective(to.order) => IsInjective(order)
  BY <1>1, AppendSet DEF Shown
<1> HIDE DEF vs, order, new
<1>6. ToSet(order) \ {n} = Shown(to) \ {n}
  BY <1>5
<1>7. StoredFacts(new, to, n, vs, order)
  BY <1>1, <1>4, <1>5, <1>6, StoreList, ZenonT(30)
<1> QED BY <1>5, <1>7 DEF new, vs, StoredFacts, Copy

\* What travels of a list.
LEMMA RenderList ==
    ASSUME NEW hs, HeaderList(hs)
    PROVE  LET new == Render(hs)
           IN  /\ HeaderList(new) /\ DOMAIN new.map = Shown(hs) /\ Shown(new) = Shown(hs)
               /\ \A k \in Shown(hs) : new.map[k] = hs.map[k]
<1> DEFINE ms == [k \in Shown(hs) |-> hs.map[k]]
           new == Render(hs)
<1>1. new = [map |-> ms, order |-> hs.order]
  BY DEF Render, Shown
<1>2. /\ hs.order \in Seq(Names) /\ ToSet(hs.order) = Shown(hs) /\ Shown(hs) \subseteq Names
      /\ ms \in [Shown(hs) -> Lists]
  BY ListFacts DEF Shown
<1>3. DOMAIN ms = Shown(hs) /\ \A k \in Shown(hs) : ms[k] = hs.map[k]
  OBVIOUS
<1> HIDE DEF ms, new
<1>4. HeaderList(new)
  BY <1>1, <1>2, MakeList
<1>5. new.map = ms /\ Shown(new) = Shown(hs)
  BY <1>1 DEF Shown
<1> QED BY <1>3, <1>4, <1>5 DEF new

\* The five headers of the Core, copied one after the other.
LEMMA CopyAllList ==
    ASSUME NEW from, HeaderList(from), Core \subseteq DOMAIN from.map,
           NEW to, HeaderList(to), DOMAIN to.map \subseteq {"record-route"}
    PROVE  LET new == CopyAll(from, to)
           IN  /\ HeaderList(new)
               /\ DOMAIN new.map = DOMAIN to.map \cup Core /\ Shown(new) = Shown(to) \cup Core
               /\ \A k \in Core : new.map[k] = from.map[k]
<1> DEFINE via    == CopyHeaders("via", from, to)
           sender == CopyHeaders("from", from, via)
           target == CopyHeaders("to", from, sender)
           callId == CopyHeaders("call-id", from, target)
           all    == CopyHeaders("cseq", from, callId)
<1>1. Copy(via, from, to, "via")
  <2>1. "via" \in DOMAIN from.map /\ "via" \notin DOMAIN to.map
    BY DEF Core, Copy
  <2> QED BY <2>1, CopyList, ZenonT(30)
<1> HIDE DEF via
<1>2. Copy(sender, from, via, "from")
  <2>0. HeaderList(via)
    BY <1>1 DEF Copy
  <2>1. "from" \in DOMAIN from.map /\ "from" \notin DOMAIN via.map
    BY <1>1 DEF Core, Copy
  <2> QED BY <2>0, <1>1, <2>1, CopyList, ZenonT(30)
<1> HIDE DEF sender
<1>3. Copy(target, from, sender, "to")
  <2>0. HeaderList(sender)
    BY <1>2 DEF Copy
  <2>1. "to" \in DOMAIN from.map /\ "to" \notin DOMAIN sender.map
    BY <1>1, <1>2 DEF Core, Copy
  <2> QED BY <2>0, <1>2, <2>1, CopyList, ZenonT(30)
<1> HIDE DEF target
<1>4. Copy(callId, from, target, "call-id")
  <2>0. HeaderList(target)
    BY <1>3 DEF Copy
  <2>1. "call-id" \in DOMAIN from.map /\ "call-id" \notin DOMAIN target.map
    BY <1>1, <1>2, <1>3 DEF Core, Copy
  <2> QED BY <2>0, <1>3, <2>1, CopyList, ZenonT(30)
<1> HIDE DEF callId
<1>5. Copy(all, from, callId, "cseq")
  <2>0. HeaderList(callId)
    BY <1>4 DEF Copy
  <2>1. "cseq" \in DOMAIN from.map /\ "cseq" \notin DOMAIN callId.map
    BY <1>1, <1>2, <1>3, <1>4 DEF Core, Copy
  <2> QED BY <2>0, <1>4, <2>1, CopyList, ZenonT(30)
<1> HIDE DEF all
<1>6. CopyAll(from, to) = all
  BY ZenonT(30) DEF CopyAll, all, callId, target, sender, via
<1>7. Core \subseteq Names
  BY DEF Names
<1>8. \A k \in Core : all.map[k] = from.map[k]
  BY <1>1, <1>2, <1>3, <1>4, <1>5, <1>7 DEF Core, Keeps, Copy
<1>9. DOMAIN all.map = DOMAIN to.map \cup Core /\ Shown(all) = Shown(to) \cup Core
  BY <1>1, <1>2, <1>3, <1>4, <1>5 DEF Core, Copy
<1> QED BY <1>5, <1>6, <1>8, <1>9 DEF Copy

-----------------------------------------------------------------------------
(* The inductive invariant of the exchange.                                *)

Via(m)  == First(m.hs, "via")
CSeq(m) == First(m.hs, "cseq")
From(m) == First(m.hs, "from")

\* Copies of one request: one branch, one number, the same credentials.
Authorized(m) == "authorization" \in Shown(m.hs)

MessageOK(m) ==
    /\ m = [kind |-> m.kind, method |-> m.method, status |-> m.status, body |-> m.body,
            hs |-> m.hs]
    /\ m.kind \in {"request", "response"} /\ m.method \in Methods
    /\ m.status \in Nat /\ m.body \in Nat
    /\ HeaderList(m.hs) /\ Core \subseteq Shown(m.hs)
    /\ Via(m) \in Vias /\ CSeq(m) \in CSeqs

LengthOK(m) ==
    "content-length" \in DOMAIN m.hs.map => m.hs.map["content-length"] = <<m.body>>

\* The request object of the UAC: its headers are in order, its branch is not that
\* of an ACK of a 2xx, and only a challenge raises its number.
CallOK(m) ==
    /\ MessageOK(m) /\ LengthOK(m)
    /\ m.kind = "request" /\ m.method # "ACK" /\ CSeq(m).method = m.method
    /\ Via(m).cookie /\ "proxy-authorization" \notin DOMAIN m.hs.map

Ordered(m, unseen) ==
    IsInjective(m.hs.order) /\ DOMAIN m.hs.map \ Shown(m.hs) \subseteq unseen

CallInv ==
    call # None =>
        /\ CallOK(call) /\ Ordered(call, hidden) /\ Via(call).branch <= fresh
        /\ uac # "made" => From(call) # 0
        /\ call.method = "BYE" => /\ CSeq(call).no = 2 /\ DialogId(call) \in ids
                                  /\ uac \in {"sent", "over"}
        /\ call.method # "BYE" /\ ~Authorized(call) => CSeq(call).no = 1

\* What each state of the UAC says of the other variables.
UacInv ==
    /\ uac \in {"made", "sent", "challenged", "answered", "talking"} => call # None
    /\ uac = "sent" => MakeClientTxKey(call) \in DOMAIN ctx
    /\ uac = "challenged" => last \in Responses /\ last.status \in {401, 407}
    /\ uac = "answered" =>
          /\ last \in Responses /\ last.method = "INVITE" /\ last.status \in 200 .. 299
          /\ session # None /\ session.seq = 1 /\ session.id = DialogId(last)
    /\ uac = "talking" => session # None /\ session.seq = 2

\* A session is that of a dialog of the UAS.
SessionInv ==
    session # None =>
        /\ session = [kind |-> "session", id |-> session.id, seq |-> session.seq,
                      from |-> session.from, to |-> session.to]
        /\ session.seq \in Nat /\ session.from \in Values \ {0} /\ session.to \in Values
        /\ session.id = <<session.from, session.to>> /\ session.id \in ids

\* What is said of every message sent.
SentOK(m) ==
    /\ MessageOK(m) /\ DOMAIN m.hs.map = Shown(m.hs) /\ LengthOK(m)
    /\ From(m) # 0 /\ Via(m).branch <= fresh
    /\ ~Via(m).cookie => uac = "over"

RequestOK(m) ==
    /\ m.method # "ACK" => /\ CSeq(m).method = m.method
                           /\ Via(m).cookie => MakeClientTxKey(m) \in DOMAIN ctx
    /\ ~Via(m).cookie => CSeq(m).no = 1 /\ ~Authorized(m)
    /\ m.method = "INVITE" /\ ~Authorized(m) => CSeq(m).no = 1
    /\ m.method = "BYE" => CSeq(m).no = 2 /\ DialogId(m) \in ids
    /\ Via(m).cookie /\ call # None /\ Via(m).branch = Via(call).branch =>
          /\ uac # "made" /\ CSeq(m).no = CSeq(call).no
          /\ Authorized(m) <=> Authorized(call)

ResponseOK(m) ==
    /\ m.method # "ACK" /\ CSeq(m).method = m.method
    /\ Via(m).cookie => MakeClientTxKey(m) \in DOMAIN ctx
    /\ m.method = "INVITE" /\ m.status \in 200 .. 299 => DialogId(m) \in ids
    /\ m.method = "BYE" => m.status = 200
    /\ m.status = 401 => "www-authenticate" \in Shown(m.hs)
    /\ m.status = 407 => "proxy-authenticate" \in Shown(m.hs)

NetInv ==
    /\ \A m \in net : SentOK(m)
    /\ \A m \in Requests : RequestOK(m)
    /\ \A m \in Responses : ResponseOK(m)

\* Requests with one branch are copies of one.
BranchInv ==
    \A m, n \in Requests :
        Via(m).cookie /\ Via(n).cookie /\ Via(m).branch = Via(n).branch =>
            CSeq(m).no = CSeq(n).no /\ (Authorized(m) <=> Authorized(n))

\* A client transaction is busy as long as its request waits for an answer.
CtxInv ==
    /\ ctx = [k \in DOMAIN ctx |-> ctx[k]]
    /\ \A k \in DOMAIN ctx :
          /\ ctx[k] \in {"calling", "done"}
          /\ ctx[k] = "calling" => uac = "sent" /\ k = MakeClientTxKey(call)

\* A server transaction has the key of its request.
StxInv ==
    /\ stx = [k \in DOMAIN stx |-> stx[k]]
    /\ \A k \in DOMAIN stx :
          /\ stx[k] = [req |-> stx[k].req, st |-> stx[k].st]
          /\ stx[k].st \in {"trying", "ringing", "answered", "confirmed"}
          /\ stx[k].req \in Requests /\ stx[k].req.method # "ACK"
          /\ MakeServerTxKey(stx[k].req) = k

\* The ACK of a 2xx has a branch that no other request has.
AckOK(a) ==
    /\ Via(a.ack) \in Vias /\ Via(a.ack).cookie /\ Via(a.ack).branch <= fresh
    /\ DialogId(a.ack) \in ids
    /\ call # None => Via(call).branch # Via(a.ack).branch
    /\ \A m \in Requests :
          m.method # "ACK" /\ Via(m).cookie => Via(m).branch # Via(a.ack).branch

AckInv == \A a \in acked : a.res.status < 300 => AckOK(a)

StateInv ==
    /\ uac \in {"idle", "made", "sent", "challenged", "answered", "talking", "over"}
    /\ fresh \in 0 .. MaxFresh /\ edits \in 0 .. MaxEdits /\ hidden \subseteq EditNames

ExchangeInv ==
    /\ StateInv /\ CallInv /\ UacInv /\ SessionInv /\ NetInv /\ BranchInv
    /\ CtxInv /\ StxInv /\ AckInv

-----------------------------------------------------------------------------
(* The messages that the library builds.                                   *)

\* Headers kept by two operations are kept by both together.
LEMMA KeepsTransitive ==
    ASSUME NEW a, NEW b, NEW c, NEW X, NEW Y, Keeps(a, b, X), Keeps(b, c, Y)
    PROVE  Keeps(a, c, X \cup Y)
BY DEF Keeps

\* So is the order.
LEMMA TidyTransitive ==
    ASSUME NEW a, NEW b, NEW c, Tidy(a, b), Tidy(b, c)
    PROVE  Tidy(a, c)
BY DEF Tidy

\* Nothing but the headers is new.
SameStart(new, m) ==
    /\ new.kind = m.kind /\ new.method = m.method
    /\ new.status = m.status /\ new.body = m.body

\* A message is one still with another header list that has the Core.
LEMMA NewHeaders ==
    ASSUME NEW m, MessageOK(m), NEW hs, HeaderList(hs), Core \subseteq Shown(hs),
           First(hs, "via") \in Vias, First(hs, "cseq") \in CSeqs
    PROVE  LET new == [m EXCEPT !.hs = hs]
           IN  MessageOK(new) /\ SameStart(new, m) /\ new.hs = hs
<1> DEFINE new == [m EXCEPT !.hs = hs]
<1>1. new = [kind |-> m.kind, method |-> m.method, status |-> m.status, body |-> m.body,
             hs |-> hs]
  BY DEF MessageOK
<1>2. SameStart(new, m) /\ new.hs = hs
  BY <1>1 DEF SameStart
<1>3. new = [kind |-> new.kind, method |-> new.method, status |-> new.status,
             body |-> new.body, hs |-> new.hs]
  BY <1>1
<1> HIDE DEF new
<1>4. MessageOK(new)
  BY <1>2, <1>3 DEF MessageOK, SameStart, Via, CSeq
<1> QED BY <1>2, <1>4 DEF new

\* A message whose headers changed outside Via and CSeq.
Refilled(new, m, X) ==
    /\ MessageOK(new) /\ SameStart(new, m)
    /\ Keeps(new.hs, m.hs, X) /\ Tidy(new.hs, m.hs)

\* Headers other than Via and CSeq may change.
LEMMA RefillMessage ==
    ASSUME NEW m, MessageOK(m), NEW hs, HeaderList(hs), NEW X, "via" \notin X, "cseq" \notin X,
           Core \cap X \subseteq Shown(hs), Keeps(hs, m.hs, X), Tidy(hs, m.hs)
    PROVE  Refilled([m EXCEPT !.hs = hs], m, X)
<1>1. Core \subseteq Names /\ Core \subseteq Shown(m.hs) /\ Shown(m.hs) \subseteq DOMAIN m.hs.map
  BY ListFacts DEF MessageOK, Names
<1>2. Core \subseteq Shown(hs)
  BY <1>1 DEF Keeps
<1>3. hs.map["via"] = m.hs.map["via"] /\ hs.map["cseq"] = m.hs.map["cseq"]
  BY <1>1 DEF Keeps, Core
<1>4. First(hs, "via") \in Vias /\ First(hs, "cseq") \in CSeqs
  BY <1>3 DEF First, MessageOK, Via, CSeq
<1> QED BY <1>2, <1>4, NewHeaders DEF Refilled

\* The headers of the Core that were kept.
LEMMA KeptCore ==
    ASSUME NEW m, MessageOK(m), NEW new, NEW X, Keeps(new.hs, m.hs, X)
    PROVE  \A k \in Core \ X : /\ new.hs.map[k] = m.hs.map[k]
                               /\ First(new.hs, k) = First(m.hs, k)
<1>1. Core \subseteq Names /\ Core \subseteq DOMAIN m.hs.map
  BY ListFacts DEF MessageOK, Names
<1> QED BY <1>1 DEF Keeps, First

\* The kinds of values.
LEMMA ValueFacts ==
    /\ "set" \in Values /\ "nilParams" \in Values /\ Nat \subseteq Values
    /\ Vias \subseteq Values /\ CSeqs \subseteq Values
BY DEF Values

\* AddMissing leaves the other headers alone.
LEMMA MissingAdded ==
    ASSUME NEW hs, HeaderList(hs), NEW n \in Names, NEW v \in Values
    PROVE  LET new == AddMissing(hs, n, v)
           IN  HeaderList(new) /\ Keeps(new, hs, {n}) /\ Tidy(new, hs)
<1>1. Keeps(hs, hs, {n}) /\ Tidy(hs, hs)
  BY DEF Keeps, Tidy
<1> QED BY <1>1, AddList DEF AddMissing

Filled == {"allow", "supported", "user-agent", "from"}

\* autoFillMessageHeaderAndSend.
LEMMA AutoFillMessage ==
    ASSUME NEW m, MessageOK(m), NEW tag \in Nat \ {0}
    PROVE  LET new == AutoFill(m, tag)
           IN  /\ Refilled(new, m, Filled)
               /\ From(new) = IF From(m) = 0 THEN tag ELSE From(m)
<1> DEFINE lists  == m.method \in {"INVITE", "REGISTER"} /\ (m.kind = "request" \/ m.status >= 200)
           allow  == AddMissing(m.hs, "allow", "set")
           both   == AddMissing(allow, "supported", "set")
           listed == IF lists THEN both ELSE m.hs
           named  == AddMissing(listed, "user-agent", "set")
           hs     == IF First(named, "from") = 0 THEN SetFirst(named, "from", tag) ELSE named
           X      == {"allow", "supported", "user-agent"}
<1>1. AutoFill(m, tag) = [m EXCEPT !.hs = hs]
  BY DEF AutoFill
<1>2. /\ HeaderList(m.hs) /\ "set" \in Values /\ tag \in Values /\ Core \subseteq Names
      /\ X \subseteq Names /\ Core \subseteq Shown(m.hs) /\ Shown(m.hs) \subseteq DOMAIN m.hs.map
  BY ListFacts, ValueFacts DEF MessageOK, Names, Others
<1>3. HeaderList(allow) /\ Keeps(allow, m.hs, {"allow"}) /\ Tidy(allow, m.hs)
  BY <1>2, MissingAdded
<1> HIDE DEF allow
<1>4. HeaderList(both) /\ Keeps(both, allow, {"supported"}) /\ Tidy(both, allow)
  BY <1>2, <1>3, MissingAdded
<1> HIDE DEF both
<1>5. HeaderList(listed) /\ Keeps(listed, m.hs, {"allow", "supported"}) /\ Tidy(listed, m.hs)
  <2>1. Keeps(m.hs, m.hs, {"allow", "supported"}) /\ Tidy(m.hs, m.hs)
    BY DEF Keeps, Tidy
  <2>2. Keeps(both, m.hs, {"allow", "supported"})
    BY <1>3, <1>4 DEF Keeps
  <2>3. Tidy(both, m.hs)
    BY <1>3, <1>4, TidyTransitive
  <2> QED BY <1>2, <1>4, <2>1, <2>2, <2>3
<1> HIDE DEF listed
<1>6. HeaderList(named) /\ Keeps(named, m.hs, X) /\ Tidy(named, m.hs)
  <2>1. HeaderList(named) /\ Keeps(named, listed, {"user-agent"}) /\ Tidy(named, listed)
    BY <1>2, <1>5, MissingAdded
  <2> HIDE DEF named
  <2>2. Keeps(named, m.hs, X)
    BY <1>5, <2>1 DEF Keeps
  <2>3. Tidy(named, m.hs)
    BY <1>5, <2>1, TidyTransitive
  <2> QED BY <2>1, <2>2, <2>3
<1> HIDE DEF named
<1>7. "from" \in DOMAIN named.map /\ "from" \in Shown(named) /\ First(named, "from") = From(m)
  BY <1>2, <1>6 DEF Keeps, Core, First, From
<1>8. /\ HeaderList(hs) /\ Keeps(hs, m.hs, Filled) /\ Tidy(hs, m.hs) /\ "from" \in Shown(hs)
      /\ First(hs, "from") = IF From(m) = 0 THEN tag ELSE From(m)
  <2>1. CASE From(m) = 0
    <3> DEFINE new == SetFirst(named, "from", tag)
    <3>1. /\ HeaderList(new) /\ Keeps(new, named, {"from"}) /\ Tidy(new, named)
          /\ Shown(new) = Shown(named) /\ First(new, "from") = tag
      BY <1>2, <1>6, <1>7, SetFirstList
    <3>2. hs = new
      BY <1>7, <2>1
    <3> HIDE DEF new, hs
    <3>3. Keeps(new, m.hs, Filled)
      BY <1>6, <3>1 DEF Keeps, Filled
    <3>4. Tidy(new, m.hs)
      BY <1>6, <3>1, TidyTransitive
    <3> QED BY <1>7, <2>1, <3>1, <3>2, <3>3, <3>4
  <2>2. CASE From(m) # 0
    <3>1. hs = named
      BY <1>7, <2>2
    <3>2. Keeps(named, m.hs, Filled)
      BY <1>6 DEF Keeps, Filled
    <3> HIDE DEF hs
    <3> QED BY <1>6, <1>7, <2>2, <3>1, <3>2
  <2> QED BY <2>1, <2>2
<1> HIDE DEF hs
<1>9. Core \cap Filled \subseteq Shown(hs) /\ "via" \notin Filled /\ "cseq" \notin Filled
  BY <1>8 DEF Filled, Core
<1>10. Refilled([m EXCEPT !.hs = hs], m, Filled)
  BY <1>8, <1>9, RefillMessage
<1>11. [m EXCEPT !.hs = hs].hs = hs
  BY DEF MessageOK
<1> QED BY <1>1, <1>8, <1>10, <1>11 DEF From

To(m) == First(m.hs, "to")

\* What a message keeps on its way to the network, the From tag apart.
Carries(new, m) ==
    /\ MessageOK(new) /\ SameStart(new, m)
    /\ CSeq(new) = CSeq(m) /\ To(new) = To(m)
    /\ Via(new).branch = Via(m).branch /\ Via(new).cookie = Via(m).cookie
    /\ Authorized(new) <=> Authorized(m)
    /\ LengthOK(m) => LengthOK(new)

\* Outside Via, Contact and what AutoFill sets, nothing is lost on the way.
LEMMA KeepsCarries ==
    ASSUME NEW m, MessageOK(m), NEW new, MessageOK(new), SameStart(new, m),
           NEW X, Keeps(new.hs, m.hs, X),
           X \subseteq Filled \cup {"via", "contact"},
           Via(new).branch = Via(m).branch, Via(new).cookie = Via(m).cookie
    PROVE  Carries(new, m)
<1>1. /\ Core \cup Others \subseteq Names
      /\ {"to", "cseq"} \subseteq Core \ X
      /\ {"content-length", "authorization"} \subseteq Names \ X
  BY DEF Names, Core, Others, Filled
<1>2. CSeq(new) = CSeq(m) /\ To(new) = To(m)
  BY <1>1, KeptCore DEF CSeq, To
<1>3. Authorized(new) <=> Authorized(m)
  BY <1>1 DEF Keeps, Authorized
<1>4. LengthOK(m) => LengthOK(new)
  BY <1>1 DEF Keeps, LengthOK, SameStart
<1> QED BY <1>2, <1>3, <1>4 DEF Carries

\* AutoFill sets a From tag where there is none.
LEMMA AutoFillCarries ==
    ASSUME NEW m, MessageOK(m), NEW tag \in Nat \ {0}
    PROVE  LET new == AutoFill(m, tag)
           IN  /\ Carries(new, m) /\ Refilled(new, m, Filled)
               /\ From(new) = IF From(m) = 0 THEN tag ELSE From(m)
<1> DEFINE new == AutoFill(m, tag)
<1>1. Refilled(new, m, Filled) /\ From(new) = IF From(m) = 0 THEN tag ELSE From(m)
  BY AutoFillMessage
<1> HIDE DEF new
<1>2. Via(new) = Via(m)
  <2>1. "via" \in Core \ Filled
    BY DEF Core, Filled
  <2> QED BY <1>1, <2>1, KeptCore DEF Refilled, Via
<1>3. MessageOK(new) /\ SameStart(new, m) /\ Keeps(new.hs, m.hs, Filled)
  BY <1>1 DEF Refilled
<1>4. Carries(new, m)
  BY <1>2, <1>3, KeepsCarries
<1> QED BY <1>1, <1>4 DEF new

\* transport.Send on a request.
LEMMA RewriteMessage ==
    ASSUME NEW m, MessageOK(m), m.method = "INVITE" => IsInjective(m.hs.order),
           NEW tp \in {"UDP", "TCP"}
    PROVE  LET new == Rewrite(m, tp)
           IN  /\ Carries(new, m) /\ From(new) = From(m)
               /\ Keeps(new.hs, m.hs, {"via", "contact"}) /\ Tidy(new.hs, m.hs)
<1> DEFINE via == [First(m.hs, "via") EXCEPT !.host = "local", !.tp = tp]
           h1  == SetFirst(m.hs, "via", via)
           add == m.method = "INVITE" /\ ~Has(h1, "contact")
           hs  == IF add THEN PrependHeaderAfter(h1, "contact", "nilParams", "cseq") ELSE h1
           new == [m EXCEPT !.hs = hs]
<1>1. Rewrite(m, tp) = new
  BY DEF Rewrite
<1>2. /\ HeaderList(m.hs) /\ Core \subseteq Names /\ Core \subseteq Shown(m.hs)
      /\ Shown(m.hs) \subseteq DOMAIN m.hs.map /\ Via(m) \in Vias /\ "contact" \in Names
  BY ListFacts DEF MessageOK, Names, Others
<1>3. via \in Vias /\ via.branch = Via(m).branch /\ via.cookie = Via(m).cookie
  BY <1>2 DEF Via, Vias
<1> HIDE DEF via
<1>4. /\ HeaderList(h1) /\ Keeps(h1, m.hs, {"via"}) /\ Tidy(h1, m.hs)
      /\ Shown(h1) = Shown(m.hs) /\ First(h1, "via") = via
  <2>1. "via" \in DOMAIN m.hs.map /\ via \in Values
    BY <1>2, <1>3, ValueFacts DEF Core
  <2> QED BY <1>2, <2>1, SetFirstList
<1> HIDE DEF h1
<1>5. HeaderList(hs) /\ Keeps(hs, h1, {"contact"}) /\ Tidy(hs, h1)
  <2>1. CASE add
    <3>1. IsInjective(h1.order)
      BY <1>4, <2>1 DEF Tidy
    <3> QED BY <1>2, <1>4, <2>1, <3>1, AfterList, ValueFacts
  <2>2. CASE ~add
    BY <1>4, <2>2 DEF Keeps, Tidy
  <2> QED BY <2>1, <2>2
<1> HIDE DEF hs
<1>6. Keeps(hs, m.hs, {"via", "contact"}) /\ Tidy(hs, m.hs)
  <2>1. Keeps(hs, m.hs, {"via", "contact"})
    BY <1>4, <1>5 DEF Keeps
  <2> QED BY <1>4, <1>5, <2>1, TidyTransitive
<1>7. Core \subseteq Shown(hs) /\ First(hs, "via") = via /\ First(hs, "cseq") = CSeq(m)
  <2>1. Core \subseteq Shown(h1) /\ Shown(h1) \subseteq DOMAIN h1.map
    BY <1>2, <1>4, ListFacts
  <2>2. Core \subseteq Shown(hs) /\ hs.map["via"] = h1.map["via"]
    BY <1>2, <1>5, <2>1 DEF Keeps, Core
  <2>3. hs.map["cseq"] = m.hs.map["cseq"]
    BY <1>2, <1>6 DEF Keeps, Core
  <2> QED BY <1>4, <2>2, <2>3 DEF First, CSeq
<1>8. MessageOK(new) /\ SameStart(new, m) /\ new.hs = hs
  <2>1. First(hs, "via") \in Vias /\ First(hs, "cseq") \in CSeqs
    BY <1>3, <1>7 DEF MessageOK
  <2> QED BY <1>5, <1>7, <2>1, NewHeaders
<1> HIDE DEF new
<1>9. Via(new).branch = Via(m).branch /\ Via(new).cookie = Via(m).cookie
  BY <1>3, <1>7, <1>8 DEF Via
<1>10. Carries(new, m)
  BY <1>6, <1>8, <1>9, KeepsCarries
<1>11. From(new) = From(m)
  <2>1. "from" \in Core \ {"via", "contact"}
    BY DEF Core
  <2> QED BY <1>6, <1>8, <2>1, KeptCore DEF From
<1> QED BY <1>1, <1>6, <1>8, <1>10, <1>11

\* What arrives of a message.
LEMMA WireMessage ==
    ASSUME NEW m, MessageOK(m)
    PROVE  LET new == Wire(m)
           IN  /\ Carries(new, m) /\ From(new) = From(m)
               /\ DOMAIN new.hs.map = Shown(new.hs) /\ Shown(new.hs) = Shown(m.hs)
<1> DEFINE hs  == Render(m.hs)
           new == [m EXCEPT !.hs = hs]
<1>1. Wire(m) = new
  BY DEF Wire
<1>2. HeaderList(m.hs) /\ Core \subseteq Shown(m.hs)
  BY DEF MessageOK
<1>3. /\ HeaderList(hs) /\ DOMAIN hs.map = Shown(m.hs) /\ Shown(hs) = Shown(m.hs)
      /\ \A k \in Shown(m.hs) : hs.map[k] = m.hs.map[k]
  BY <1>2, RenderList
<1> HIDE DEF hs
<1>4. \A k \in Core : First(hs, k) = First(m.hs, k)
  BY <1>2, <1>3 DEF First
<1>5. MessageOK(new) /\ SameStart(new, m) /\ new.hs = hs
  <2>1. First(hs, "via") \in Vias /\ First(hs, "cseq") \in CSeqs
    BY <1>4 DEF MessageOK, Via, CSeq, Core
  <2> QED BY <1>2, <1>3, <2>1, NewHeaders
<1> HIDE DEF new
<1>6. /\ CSeq(new) = CSeq(m) /\ To(new) = To(m) /\ Via(new) = Via(m) /\ From(new) = From(m)
  BY <1>4, <1>5 DEF Core, CSeq, To, Via, From
<1>7. Authorized(new) <=> Authorized(m)
  BY <1>3, <1>5 DEF Authorized
<1>8. LengthOK(m) => LengthOK(new)
  BY <1>2, <1>3, <1>5, ListFacts DEF LengthOK, SameStart
<1> QED BY <1>1, <1>3, <1>5, <1>6, <1>7, <1>8 DEF Carries

\* The headers of a new request, and how they are listed.
RequestOrder == <<"via", "from", "to", "call-id", "cseq", "max-forwards">>
RequestNames == Core \cup {"max-forwards"}

\* The header list of a new request lists each of its six names once.
LEMMA RequestList ==
    ASSUME NEW ms \in [RequestNames -> Lists]
    PROVE  LET hs == [map |-> ms, order |-> RequestOrder]
           IN  /\ HeaderList(hs) /\ Shown(hs) = RequestNames /\ DOMAIN hs.map = RequestNames
               /\ IsInjective(hs.order)
<1>1. /\ DOMAIN RequestOrder = 1 .. 6 /\ Len(RequestOrder) = 6
      /\ RequestOrder[1] = "via" /\ RequestOrder[2] = "from" /\ RequestOrder[3] = "to"
      /\ RequestOrder[4] = "call-id" /\ RequestOrder[5] = "cseq"
      /\ RequestOrder[6] = "max-forwards"
  BY DEF RequestOrder
<1>2. RequestOrder \in Seq(Names)
  BY DEF RequestOrder, Names, Core, Others
<1> HIDE DEF RequestOrder
<1>3. 1 .. 6 = {1, 2, 3, 4, 5, 6}
  OBVIOUS
<1>4. ToSet(RequestOrder) = RequestNames
  BY <1>1, <1>3 DEF ToSet, RequestNames, Core
<1>5. IsInjective(RequestOrder)
  BY <1>1, <1>3 DEF IsInjective
<1>6. RequestNames \subseteq Names
  BY DEF RequestNames, Names, Others
<1>7. HeaderList([map |-> ms, order |-> RequestOrder])
  BY <1>2, <1>4, <1>6, MakeList
<1> QED BY <1>4, <1>5, <1>7 DEF Shown

\* A request of the library, or of the RFC 2543 peer, with these headers.
NewRequest(m, method, ms) ==
    m = [kind |-> "request", method |-> method, status |-> 0, body |-> 0,
         hs |-> [map |-> ms, order |-> RequestOrder]]

NewRequestOK(m, method, ms) ==
    /\ MessageOK(m) /\ m.kind = "request" /\ m.method = method /\ m.status = 0 /\ m.body = 0
    /\ Via(m) = Head(ms["via"]) /\ CSeq(m) = Head(ms["cseq"])
    /\ From(m) = Head(ms["from"]) /\ To(m) = Head(ms["to"])
    /\ DOMAIN m.hs.map = RequestNames /\ Shown(m.hs) = RequestNames /\ IsInjective(m.hs.order)

\* A request with a Via and a CSeq is a message.
LEMMA RequestMessage ==
    ASSUME NEW method \in Methods, NEW ms \in [RequestNames -> Lists],
           Head(ms["via"]) \in Vias, Head(ms["cseq"]) \in CSeqs,
           NEW m, NewRequest(m, method, ms)
    PROVE  NewRequestOK(m, method, ms)
<1> DEFINE hs == [map |-> ms, order |-> RequestOrder]
<1>1. /\ HeaderList(hs) /\ Shown(hs) = RequestNames /\ DOMAIN hs.map = RequestNames
      /\ IsInjective(hs.order)
  BY RequestList
<1>2. hs.map = ms
  OBVIOUS
<1>3. m = [kind |-> "request", method |-> method, status |-> 0, body |-> 0, hs |-> hs]
  BY DEF NewRequest
<1> HIDE DEF hs
<1>4. /\ m.kind = "request" /\ m.method = method /\ m.status = 0 /\ m.body = 0 /\ m.hs = hs
      /\ m = [kind |-> m.kind, method |-> m.method, status |-> m.status, body |-> m.body,
              hs |-> m.hs]
  BY <1>3
<1>5. /\ Via(m) = Head(ms["via"]) /\ CSeq(m) = Head(ms["cseq"])
      /\ From(m) = Head(ms["from"]) /\ To(m) = Head(ms["to"])
  BY <1>2, <1>4 DEF Via, CSeq, From, To, First
<1>6. MessageOK(m)
  BY <1>1, <1>4, <1>5 DEF MessageOK, RequestNames
<1> QED BY <1>1, <1>4, <1>5, <1>6 DEF NewRequestOK

\* CreateRequest: Via with the branch, no tags, CSeq 1.
LEMMA CreateRequestMessage ==
    ASSUME NEW method \in Methods, NEW branch \in Nat
    PROVE  \E ms \in [RequestNames -> Lists] :
             /\ NewRequest(CreateRequest(method, branch), method, ms)
             /\ ms["via"] = <<NewVia(branch)>> /\ ms["from"] = <<0>> /\ ms["to"] = <<0>>
             /\ ms["cseq"] = <<[no |-> 1, method |-> method]>>
<1> DEFINE value == [n \in ToSet(RequestOrder) |->
                       CASE n = "via" -> <<NewVia(branch)>>
                         [] n = "cseq" -> <<[no |-> 1, method |-> method]>>
                         [] n \in {"from", "to"} -> <<0>>
                         [] OTHER -> <<"set">>]
<1>1. NewRequest(CreateRequest(method, branch), method, value)
  BY DEF CreateRequest, NewRequest, RequestOrder
<1>2. ToSet(RequestOrder) = RequestNames
  <2>1. [n \in RequestNames |-> <<0>>] \in [RequestNames -> Lists]
    BY ValueFacts DEF Lists
  <2> QED BY <2>1, RequestList DEF Shown
<1>3. /\ value["via"] = <<NewVia(branch)>> /\ value["from"] = <<0>> /\ value["to"] = <<0>>
      /\ value["cseq"] = <<[no |-> 1, method |-> method]>>
  BY <1>2 DEF RequestNames, Core
<1>4. /\ <<NewVia(branch)>> \in Lists /\ <<[no |-> 1, method |-> method]>> \in Lists
      /\ <<0>> \in Lists /\ <<"set">> \in Lists
  <2>1. NewVia(branch) \in Values /\ [no |-> 1, method |-> method] \in Values
    BY DEF NewVia, Vias, CSeqs, Values
  <2>2. \A v \in Values : <<v>> \in Lists
    BY DEF Lists
  <2> QED BY <2>1, <2>2, ValueFacts
<1>5. value \in [RequestNames -> Lists]
  BY <1>2, <1>4
<1> QED BY <1>1, <1>3, <1>5, Zenon

\* session.CreateRequest: the tags and the number of the session.
LEMMA InDialogMessage ==
    ASSUME NEW method \in Methods, NEW branch \in Nat,
           session.from \in Values, session.to \in Values, session.seq \in Nat
    PROVE  LET m == InDialog(method, branch)
           IN  /\ MessageOK(m) /\ m.kind = "request" /\ m.method = method
               /\ Via(m) = NewVia(branch) /\ CSeq(m) = [no |-> session.seq, method |-> method]
               /\ From(m) = session.from /\ To(m) = session.to
               /\ DOMAIN m.hs.map = RequestNames /\ Shown(m.hs) = RequestNames
               /\ IsInjective(m.hs.order)
<1> DEFINE req == CreateRequest(method, branch)
           m == InDialog(method, branch)
           cseq == [no |-> session.seq, method |-> method]
<1>1. PICK ms \in [RequestNames -> Lists] :
        /\ NewRequest(req, method, ms) /\ ms["via"] = <<NewVia(branch)>>
  BY CreateRequestMessage, ZenonT(60)
<1> DEFINE new == [ms EXCEPT !["from"] = <<session.from>>, !["to"] = <<session.to>>,
                             !["cseq"] = <<cseq>>]
<1>2. m = [req EXCEPT !.hs.map["from"] = <<session.from>>, !.hs.map["to"] = <<session.to>>,
                      !.hs.map["cseq"] = <<cseq>>]
  BY DEF InDialog
<1> HIDE DEF req, m
<1>3. NewRequest(m, method, new)
  BY <1>1, <1>2 DEF NewRequest
<1>4. cseq \in CSeqs /\ NewVia(branch) \in Vias
  BY DEF CSeqs, NewVia, Vias
<1>5. \A v \in Values : <<v>> \in Lists /\ Head(<<v>>) = v
  BY DEF Lists
<1>6. cseq \in Values /\ NewVia(branch) \in Values
  BY <1>4, ValueFacts
<1>7. /\ new \in [RequestNames -> Lists] /\ new["via"] = <<NewVia(branch)>>
      /\ new["from"] = <<session.from>> /\ new["to"] = <<session.to>> /\ new["cseq"] = <<cseq>>
  <2>1. {"via", "from", "to", "cseq"} \subseteq RequestNames
    BY DEF RequestNames, Core
  <2>2. <<session.from>> \in Lists /\ <<session.to>> \in Lists /\ <<cseq>> \in Lists
    BY <1>5, <1>6
  <2> HIDE DEF cseq
  <2> QED BY <1>1, <2>1, <2>2
<1> HIDE DEF new, cseq
<1>8. /\ Head(new["via"]) = NewVia(branch) /\ Head(new["cseq"]) = cseq
      /\ Head(new["from"]) = session.from /\ Head(new["to"]) = session.to
  BY <1>5, <1>6, <1>7
<1>9. NewRequestOK(m, method, new)
  BY <1>3, <1>4, <1>7, <1>8, RequestMessage
<1> QED BY <1>8, <1>9 DEF NewRequestOK, cseq, m

\* The messages of the RFC 2543 peer.
LEMMA OldPeerMessage ==
    ASSUME NEW method \in Methods, NEW to \in Values
    PROVE  LET m == OldMessage(method, to)
           IN  /\ MessageOK(m) /\ m.kind = "request" /\ m.method = method
               /\ ~Via(m).cookie /\ Via(m).branch = 0
               /\ CSeq(m) = [no |-> 1, method |-> method] /\ From(m) = MaxFresh + 1
               /\ DOMAIN m.hs.map = RequestNames /\ Shown(m.hs) = RequestNames
<1> DEFINE req == CreateRequest(method, 0)
           m == OldMessage(method, to)
           via == [branch |-> 0, cookie |-> FALSE, host |-> "old", tp |-> "UDP"]
           cseq == [no |-> 1, method |-> method]
<1>1. PICK ms \in [RequestNames -> Lists] :
        NewRequest(req, method, ms) /\ ms["cseq"] = <<cseq>>
  BY CreateRequestMessage
<1> DEFINE new == [ms EXCEPT !["via"] = <<via>>, !["from"] = <<MaxFresh + 1>>, !["to"] = <<to>>]
<1>2. m = [req EXCEPT !.hs.map["via"] = <<via>>, !.hs.map["from"] = <<MaxFresh + 1>>,
                      !.hs.map["to"] = <<to>>]
  BY DEF OldMessage
<1>3. /\ via \in Vias /\ cseq \in CSeqs /\ MaxFresh + 1 \in Nat
      /\ ~via.cookie /\ via.branch = 0
  BY ExchangeAssumption DEF Vias, CSeqs
<1> HIDE DEF req, m, via
<1>4. NewRequest(m, method, new)
  BY <1>1, <1>2 DEF NewRequest
<1>5. \A v \in Values : <<v>> \in Lists /\ Head(<<v>>) = v
  BY DEF Lists
<1>6. via \in Values /\ cseq \in Values /\ MaxFresh + 1 \in Values
  BY <1>3, ValueFacts
<1> HIDE DEF cseq
<1>7. /\ new \in [RequestNames -> Lists] /\ new["via"] = <<via>>
      /\ new["from"] = <<MaxFresh + 1>> /\ new["cseq"] = <<cseq>>
  <2>1. {"via", "from", "to", "cseq"} \subseteq RequestNames
    BY DEF RequestNames, Core
  <2>2. <<via>> \in Lists /\ <<MaxFresh + 1>> \in Lists /\ <<to>> \in Lists
    BY <1>5, <1>6
  <2> QED BY <1>1, <2>1, <2>2
<1> HIDE DEF new
<1>8. Head(new["via"]) = via /\ Head(new["cseq"]) = cseq /\ Head(new["from"]) = MaxFresh + 1
  BY <1>5, <1>6, <1>7
<1>9. NewRequestOK(m, method, new)
  BY <1>3, <1>4, <1>7, <1>8, RequestMessage
<1> QED BY <1>3, <1>8, <1>9 DEF NewRequestOK, cseq, m

\* SetBody(body, true): one Content-Length, that of the new body.
LEMMA SetBodyMessage ==
    ASSUME NEW m, MessageOK(m), LengthOK(m), NEW len \in Nat
    PROVE  LET new == SetBody(m, len)
           IN  /\ MessageOK(new) /\ LengthOK(new) /\ new.kind = m.kind /\ new.method = m.method
               /\ Keeps(new.hs, m.hs, {"content-length"}) /\ Tidy(new.hs, m.hs)
<1> DEFINE n  == "content-length"
           hs == IF Has(m.hs, n) THEN SetFirst(m.hs, n, len) ELSE AddHeader(m.hs, n, len)
           new == SetBody(m, len)
           m2 == [m EXCEPT !.hs = hs]
<1>1. HeaderList(m.hs) /\ n \in Names /\ len \in Values
  BY ValueFacts DEF MessageOK, Names, Others
<1>2. /\ HeaderList(hs) /\ Keeps(hs, m.hs, {n}) /\ Tidy(hs, m.hs)
      /\ hs.map[n] = <<len>>
  <2>1. CASE Has(m.hs, n)
    <3>1. n \in DOMAIN m.hs.map
      BY <2>1 DEF Has
    <3>2. Len(m.hs.map[n]) = 1
      BY <3>1 DEF LengthOK
    <3> QED BY <1>1, <2>1, <3>1, <3>2, SetFirstList
  <2>2. CASE ~Has(m.hs, n)
    <3>1. n \notin DOMAIN m.hs.map
      BY <2>2 DEF Has
    <3>2. LET add == AddHeader(m.hs, n, len)
          IN  /\ HeaderList(add) /\ Keeps(add, m.hs, {n}) /\ Tidy(add, m.hs)
              /\ add.map[n] = <<len>>
      BY <1>1, <3>1, AddList
    <3> QED BY <2>2, <3>2
  <2> QED BY <2>1, <2>2
<1>3. new = [m2 EXCEPT !.body = len]
  BY DEF SetBody, MessageOK
<1> HIDE DEF hs, new
<1>4. MessageOK(m2) /\ SameStart(m2, m) /\ m2.hs = hs
  <2>1. Core \cap {n} = {} /\ "via" \notin {n} /\ "cseq" \notin {n}
    BY DEF Core
  <2>2. Refilled(m2, m, {n})
    BY <1>2, <2>1, RefillMessage
  <2>3. m2.hs = hs
    BY DEF MessageOK
  <2> QED BY <2>2, <2>3 DEF Refilled
<1> HIDE DEF m2
<1>5. /\ new.kind = m2.kind /\ new.method = m2.method /\ new.status = m2.status
      /\ new.body = len /\ new.hs = hs
      /\ new = [kind |-> new.kind, method |-> new.method, status |-> new.status,
                body |-> new.body, hs |-> new.hs]
  BY <1>3, <1>4 DEF MessageOK
<1>6. MessageOK(new)
  BY <1>4, <1>5 DEF MessageOK, Via, CSeq
<1>7. LengthOK(new)
  BY <1>2, <1>5 DEF LengthOK
<1> QED BY <1>2, <1>4, <1>5, <1>6, <1>7 DEF new, SameStart

\* The list a response or an ACK starts from.
LEMMA EmptyList ==
    HeaderList(NoHeaders) /\ DOMAIN NoHeaders.map = {} /\ Shown(NoHeaders) = {}
<1>1. ToSet(<<>>) = {}
  BY DEF ToSet
<1>2. [n \in {} |-> <<>>] \in [{} -> Lists] /\ <<>> \in Seq(Names)
  OBVIOUS
<1>3. {} \subseteq Names
  OBVIOUS
<1>4. HeaderList([map |-> [n \in {} |-> <<>>], order |-> <<>>])
  BY <1>1, <1>2, <1>3, MakeList
<1> QED BY <1>1, <1>4 DEF NoHeaders, Shown

\* CreateResponse: the headers of the Core, and Record-Route if there is one.
LEMMA CreateResponseMessage ==
    ASSUME NEW req, MessageOK(req), NEW status \in Nat, NEW tag \in Nat
    PROVE  LET new == CreateResponse(req, status, tag)
           IN  /\ MessageOK(new) /\ new.kind = "response" /\ new.method = req.method
               /\ new.status = status
               /\ Via(new) = Via(req) /\ CSeq(new) = CSeq(req) /\ From(new) = From(req)
               /\ DOMAIN new.hs.map \subseteq Core \cup {"record-route"}
<1> DEFINE rr  == CopyHeaders("record-route", req.hs, NoHeaders)
           all == CopyAll(req.hs, rr)
           hs  == IF status # 100 /\ First(all, "to") = 0 THEN SetFirst(all, "to", tag) ELSE all
           new == CreateResponse(req, status, tag)
<1>1. HeaderList(req.hs) /\ Core \subseteq DOMAIN req.hs.map /\ Core \subseteq Names
  BY ListFacts DEF MessageOK, Names
<1>2. HeaderList(rr) /\ DOMAIN rr.map \subseteq {"record-route"}
  <2>1. CASE "record-route" \in DOMAIN req.hs.map
    <3>1. Copy(rr, req.hs, NoHeaders, "record-route")
      BY <1>1, <2>1, EmptyList, CopyList
    <3> QED BY <3>1, EmptyList DEF Copy
  <2>2. CASE "record-route" \notin DOMAIN req.hs.map
    BY <2>2, EmptyList DEF CopyHeaders, Has
  <2> QED BY <2>1, <2>2
<1> HIDE DEF rr
<1>3. /\ HeaderList(all) /\ DOMAIN all.map = DOMAIN rr.map \cup Core
      /\ Shown(all) = Shown(rr) \cup Core /\ \A k \in Core : all.map[k] = req.hs.map[k]
  BY <1>1, <1>2, CopyAllList
<1>4. new = [kind |-> "response", method |-> req.method, status |-> status, body |-> req.body,
             hs |-> hs]
  BY DEF CreateResponse, rr
<1> HIDE DEF all, new
<1>5. /\ HeaderList(hs) /\ Shown(hs) = Shown(all) /\ DOMAIN hs.map = DOMAIN all.map
      /\ \A k \in Core \ {"to"} : hs.map[k] = all.map[k]
  <2>1. "to" \in DOMAIN all.map /\ tag \in Values
    BY <1>3, ValueFacts DEF Core
  <2>2. LET set == SetFirst(all, "to", tag)
        IN  /\ HeaderList(set) /\ Keeps(set, all, {"to"})
            /\ DOMAIN set.map = DOMAIN all.map /\ Shown(set) = Shown(all)
    BY <1>3, <2>1, SetFirstList
  <2>3. LET set == SetFirst(all, "to", tag)
        IN  \A k \in Core \ {"to"} : set.map[k] = all.map[k]
    BY <1>1, <1>3, <2>2 DEF Keeps
  <2> QED BY <1>3, <2>2, <2>3
<1> HIDE DEF hs
<1>6. \A k \in Core \ {"to"} : First(hs, k) = First(req.hs, k)
  BY <1>3, <1>5 DEF First
<1>7. First(hs, "via") = Via(req) /\ First(hs, "cseq") = CSeq(req) /\ First(hs, "from") = From(req)
  BY <1>6 DEF Core, Via, CSeq, From
<1>8. /\ new.kind = "response" /\ new.method = req.method /\ new.status = status
      /\ new.body = req.body /\ new.hs = hs
      /\ new = [kind |-> new.kind, method |-> new.method, status |-> new.status,
                body |-> new.body, hs |-> new.hs]
  BY <1>4
<1>9. MessageOK(new)
  BY <1>3, <1>5, <1>7, <1>8 DEF MessageOK, Via, CSeq
<1> QED BY <1>2, <1>3, <1>5, <1>7, <1>8, <1>9 DEF new, Via, CSeq, From

\* CreateAck: the headers of the Core under a branch of its own.
LEMMA CreateAckMessage ==
    ASSUME NEW res, MessageOK(res), NEW branch \in Nat
    PROVE  LET new == CreateAck(res, branch)
           IN  /\ MessageOK(new) /\ new.kind = "request" /\ new.method = "ACK"
               /\ Via(new).branch = branch /\ Via(new).cookie = Via(res).cookie
               /\ From(new) = From(res) /\ To(new) = To(res)
               /\ LengthOK(new)
<1> DEFINE all == CopyAll(res.hs, NoHeaders)
           via == [First(all, "via") EXCEPT !.branch = branch]
           h1  == SetFirst(all, "via", via)
           cseq == [First(all, "cseq") EXCEPT !.method = "ACK"]
           hs  == SetFirst(h1, "cseq", cseq)
           new == CreateAck(res, branch)
<1>1. HeaderList(res.hs) /\ Core \subseteq DOMAIN res.hs.map /\ Core \subseteq Names
  BY ListFacts DEF MessageOK, Names
<1>2. /\ HeaderList(all) /\ DOMAIN all.map = Core
      /\ Shown(all) = Core /\ \A k \in Core : all.map[k] = res.hs.map[k]
  <2>1. /\ HeaderList(all) /\ DOMAIN all.map = DOMAIN NoHeaders.map \cup Core
        /\ Shown(all) = Shown(NoHeaders) \cup Core
        /\ \A k \in Core : all.map[k] = res.hs.map[k]
    <3>1. HeaderList(NoHeaders) /\ DOMAIN NoHeaders.map \subseteq {"record-route"}
      BY EmptyList
    <3> QED BY <1>1, <3>1, CopyAllList
  <2> HIDE DEF all
  <2> QED BY <2>1, EmptyList
<1>3. new = [kind |-> "request", method |-> "ACK", status |-> 0, body |-> 0, hs |-> hs]
  BY DEF CreateAck
<1> HIDE DEF all, new
<1>4. \A k \in Core : First(all, k) = First(res.hs, k)
  BY <1>2 DEF First
<1>5. First(all, "via") = Via(res) /\ First(all, "cseq") = CSeq(res)
  BY <1>4 DEF Core, Via, CSeq
<1>6. /\ via \in Vias /\ via.branch = branch /\ via.cookie = Via(res).cookie
      /\ cseq \in CSeqs
  BY <1>5 DEF MessageOK, Vias, CSeqs, Methods
<1> HIDE DEF via, cseq
<1>7. /\ HeaderList(h1) /\ Keeps(h1, all, {"via"}) /\ DOMAIN h1.map = Core /\ Shown(h1) = Core
      /\ First(h1, "via") = via
  <2>1. "via" \in DOMAIN all.map /\ via \in Values
    BY <1>2, <1>6, ValueFacts DEF Core
  <2> QED BY <1>2, <2>1, SetFirstList
<1> HIDE DEF h1
<1>8. /\ HeaderList(hs) /\ Keeps(hs, h1, {"cseq"}) /\ DOMAIN hs.map = Core /\ Shown(hs) = Core
      /\ First(hs, "cseq") = cseq
  <2>1. "cseq" \in DOMAIN h1.map /\ cseq \in Values
    BY <1>6, <1>7, ValueFacts DEF Core
  <2> QED BY <1>7, <2>1, SetFirstList
<1> HIDE DEF hs
<1>9. First(hs, "via") = via /\ First(hs, "from") = From(res) /\ First(hs, "to") = To(res)
  <2>1. hs.map["via"] = h1.map["via"]
    BY <1>1, <1>7, <1>8 DEF Keeps, Core
  <2>2. hs.map["from"] = res.hs.map["from"] /\ hs.map["to"] = res.hs.map["to"]
    BY <1>1, <1>2, <1>7, <1>8 DEF Keeps, Core
  <2> QED BY <1>7, <2>1, <2>2 DEF First, From, To
<1>10. /\ new.kind = "request" /\ new.method = "ACK" /\ new.status = 0 /\ new.body = 0
       /\ new.hs = hs
       /\ new = [kind |-> new.kind, method |-> new.method, status |-> new.status,
                 body |-> new.body, hs |-> new.hs]
  BY <1>3
<1>11. MessageOK(new)
  BY <1>6, <1>8, <1>9, <1>10 DEF MessageOK, Via, CSeq, Methods
<1>12. LengthOK(new)
  BY <1>8, <1>10 DEF LengthOK, Core
<1> QED BY <1>6, <1>9, <1>10, <1>11, <1>12 DEF new, Via, From, To

Challenges == {"www-authenticate", "proxy-authenticate"}

\* The challenge of a 401 or a 407.
LEMMA ChallengedMessage ==
    ASSUME NEW m, MessageOK(m), DOMAIN m.hs.map \subseteq Core \cup {"record-route"},
           NEW nonce \in Nat
    PROVE  LET new == Challenged(m, nonce)
           IN  /\ Refilled(new, m, Challenges)
               /\ m.status = 401 => "www-authenticate" \in Shown(new.hs)
               /\ m.status = 407 => "proxy-authenticate" \in Shown(new.hs)
<1> DEFINE Out(n) == AddHeader(m.hs, n, nonce)
           new == Challenged(m, nonce)
<1>1. /\ HeaderList(m.hs) /\ Challenges \subseteq Names /\ nonce \in Values
      /\ \A n \in Challenges : n \notin DOMAIN m.hs.map
      /\ Core \cap Challenges = {} /\ "via" \notin Challenges /\ "cseq" \notin Challenges
  BY ValueFacts DEF MessageOK, Challenges, Names, Core, Others
<1>2. ASSUME NEW n \in Challenges
      PROVE  /\ Refilled([m EXCEPT !.hs = Out(n)], m, Challenges)
             /\ n \in Shown([m EXCEPT !.hs = Out(n)].hs)
  <2>1. /\ HeaderList(Out(n)) /\ Keeps(Out(n), m.hs, {n}) /\ Tidy(Out(n), m.hs)
        /\ n \in Shown(Out(n))
    BY <1>1, AddList
  <2> HIDE DEF Out
  <2>2. Keeps(Out(n), m.hs, Challenges)
    BY <2>1 DEF Keeps
  <2>3. [m EXCEPT !.hs = Out(n)].hs = Out(n)
    BY DEF MessageOK
  <2> QED BY <1>1, <2>1, <2>2, <2>3, RefillMessage
<1>3. Refilled(m, m, Challenges)
  BY DEF Refilled, SameStart, Keeps, Tidy
<1>4. CASE m.status = 401
  <2>1. new = [m EXCEPT !.hs = Out("www-authenticate")]
    BY <1>4 DEF Challenged
  <2> QED BY <1>2, <1>4, <2>1 DEF Challenges
<1>5. CASE m.status = 407
  <2>1. new = [m EXCEPT !.hs = Out("proxy-authenticate")]
    BY <1>5 DEF Challenged
  <2> QED BY <1>2, <1>5, <2>1 DEF Challenges
<1>6. CASE m.status # 401 /\ m.status # 407
  <2>1. new = m
    BY <1>6 DEF Challenged
  <2> QED BY <1>3, <1>6, <2>1
<1> QED BY <1>4, <1>5, <1>6

\* What the TU of the UAS answers, as it is sent.
Answer(req, status, tag) ==
    AutoFill(Challenged(CreateResponse(req, status, tag), tag), tag)

AnswerOK(new, req, status) ==
    /\ MessageOK(new) /\ LengthOK(new)
    /\ new.kind = "response" /\ new.method = req.method /\ new.status = status
    /\ Via(new) = Via(req) /\ CSeq(new) = CSeq(req) /\ From(new) = From(req)
    /\ status = 401 => "www-authenticate" \in Shown(new.hs)
    /\ status = 407 => "proxy-authenticate" \in Shown(new.hs)

\* CreateResponse, the challenge and AutoFill keep what names the transaction.
LEMMA AnswerMessage ==
    ASSUME NEW req, MessageOK(req), From(req) # 0, NEW status \in Nat, NEW tag \in Nat \ {0}
    PROVE  AnswerOK(Answer(req, status, tag), req, status)
<1> DEFINE a == CreateResponse(req, status, tag)
           b == Challenged(a, tag)
           c == AutoFill(b, tag)
<1>1. /\ MessageOK(a) /\ a.kind = "response" /\ a.method = req.method /\ a.status = status
      /\ Via(a) = Via(req) /\ CSeq(a) = CSeq(req) /\ From(a) = From(req)
      /\ DOMAIN a.hs.map \subseteq Core \cup {"record-route"}
  BY CreateResponseMessage
<1> HIDE DEF a
<1>2. /\ Refilled(b, a, Challenges)
      /\ status = 401 => "www-authenticate" \in Shown(b.hs)
      /\ status = 407 => "proxy-authenticate" \in Shown(b.hs)
  BY <1>1, ChallengedMessage
<1> HIDE DEF b
<1>3. MessageOK(b) /\ SameStart(b, a) /\ Keeps(b.hs, a.hs, Challenges)
  BY <1>2 DEF Refilled
<1>4. Via(b) = Via(a) /\ CSeq(b) = CSeq(a) /\ From(b) = From(a)
  <2>1. {"via", "cseq", "from"} \subseteq Core \ Challenges
    BY DEF Core, Challenges
  <2>2. \A k \in Core \ Challenges : First(b.hs, k) = First(a.hs, k)
    <3>1. MessageOK(a) /\ Keeps(b.hs, a.hs, Challenges)
      BY <1>1, <1>3
    <3> QED BY <3>1, KeptCore
  <2> QED BY <2>1, <2>2 DEF Via, CSeq, From
<1>5. Refilled(c, b, Filled) /\ From(c) = IF From(b) = 0 THEN tag ELSE From(b)
  BY <1>3, AutoFillMessage
<1> HIDE DEF c
<1>6. MessageOK(c) /\ SameStart(c, b) /\ Keeps(c.hs, b.hs, Filled)
  BY <1>5 DEF Refilled
<1>7. Via(c) = Via(b) /\ CSeq(c) = CSeq(b)
  <2>1. {"via", "cseq"} \subseteq Core \ Filled
    BY DEF Core, Filled
  <2> QED BY <1>3, <1>6, <2>1, KeptCore DEF Via, CSeq
<1>8. From(c) = From(req)
  BY <1>1, <1>4, <1>5
<1>9. /\ status = 401 => "www-authenticate" \in Shown(c.hs)
      /\ status = 407 => "proxy-authenticate" \in Shown(c.hs)
  BY <1>2, <1>6 DEF Keeps, Names, Others, Filled
<1>10. "content-length" \notin DOMAIN c.hs.map
  BY <1>1, <1>3, <1>6 DEF Keeps, Names, Others, Filled, Challenges, Core
<1>11. Answer(req, status, tag) = c
  BY DEF Answer, c, b, a
<1> QED BY <1>1, <1>3, <1>4, <1>6, <1>7, <1>8, <1>9, <1>10, <1>11 DEF AnswerOK, SameStart, LengthOK

\* A new Via and a new CSeq.
NewStart(new, hs, via, cseq) ==
    /\ HeaderList(new) /\ Keeps(new, hs, {"via", "cseq"}) /\ Tidy(new, hs)
    /\ DOMAIN new.map = DOMAIN hs.map /\ Shown(new) = Shown(hs)
    /\ First(new, "via") = via /\ First(new, "cseq") = cseq

\* Both values are changed in place, the rest stays.
LEMMA NewStartList ==
    ASSUME NEW hs, HeaderList(hs), Core \subseteq DOMAIN hs.map,
           NEW via \in Vias, NEW cseq \in CSeqs
    PROVE  NewStart(SetFirst(SetFirst(hs, "via", via), "cseq", cseq), hs, via, cseq)
<1> DEFINE h1 == SetFirst(hs, "via", via)
           new == SetFirst(h1, "cseq", cseq)
<1>1. /\ HeaderList(h1) /\ Keeps(h1, hs, {"via"}) /\ Tidy(h1, hs)
      /\ DOMAIN h1.map = DOMAIN hs.map /\ Shown(h1) = Shown(hs) /\ First(h1, "via") = via
  <2>1. "via" \in DOMAIN hs.map /\ via \in Values
    BY ValueFacts DEF Core
  <2> QED BY <2>1, SetFirstList
<1> HIDE DEF h1
<1>2. /\ HeaderList(new) /\ Keeps(new, h1, {"cseq"}) /\ Tidy(new, h1)
      /\ DOMAIN new.map = DOMAIN h1.map /\ Shown(new) = Shown(h1) /\ First(new, "cseq") = cseq
  <2>1. "cseq" \in DOMAIN h1.map /\ cseq \in Values
    BY <1>1, ValueFacts DEF Core
  <2> QED BY <1>1, <2>1, SetFirstList
<1> HIDE DEF new
<1>3. Keeps(new, hs, {"via", "cseq"}) /\ Tidy(new, hs)
  <2>1. Keeps(new, hs, {"via", "cseq"})
    BY <1>1, <1>2 DEF Keeps
  <2> QED BY <1>1, <1>2, <2>1, TidyTransitive
<1>4. First(new, "via") = via
  <2>1. "via" \in Names /\ "via" \in DOMAIN h1.map
    BY <1>1 DEF Names, Core
  <2> QED BY <1>1, <1>2, <2>1 DEF Keeps, First
<1> QED BY <1>1, <1>2, <1>3, <1>4 DEF NewStart, new, h1

\* The credentials are stored, or were before.
Credited(new, hs) ==
    /\ HeaderList(new) /\ Keeps(new, hs, {"authorization"}) /\ Tidy(new, hs)
    /\ "authorization" \in DOMAIN new.map

\* AddHeader stores the credentials; a header that was there stays.
LEMMA CreditedList ==
    ASSUME NEW hs, HeaderList(hs), NEW v \in Values
    PROVE  /\ Credited(AddHeader(hs, "authorization", v), hs)
           /\ "authorization" \in DOMAIN hs.map => Credited(hs, hs)
<1> DEFINE n == "authorization"
           new == AddHeader(hs, n, v)
<1>1. n \in Names
  BY DEF Names, Others
<1>2. /\ HeaderList(new) /\ Keeps(new, hs, {n}) /\ Tidy(new, hs)
      /\ DOMAIN new.map = DOMAIN hs.map \cup {n}
  BY <1>1, AddList
<1> HIDE DEF new
<1>3. Credited(new, hs)
  BY <1>2 DEF Credited
<1>4. "authorization" \in DOMAIN hs.map => Credited(hs, hs)
  BY DEF Credited, Keeps, Tidy
<1> QED BY <1>3, <1>4 DEF new

\* AuthorizeRequest: new branch, next number, credentials.
LEMMA AuthorizeMessage ==
    ASSUME NEW m, CallOK(m), NEW h, Ordered(m, h), "authorization" \notin h,
           NEW res, MessageOK(res), DOMAIN res.hs.map = Shown(res.hs),
           res.status \in {401, 407},
           res.status = 401 => "www-authenticate" \in Shown(res.hs),
           res.status = 407 => "proxy-authenticate" \in Shown(res.hs),
           NEW branch \in Nat
    PROVE  LET new == AuthorizeRequest(m, res, branch)
           IN  /\ CallOK(new) /\ Ordered(new, h) /\ new.method = m.method
               /\ Via(new).branch = branch /\ Authorized(new)
<1> DEFINE ok == res.status = 401
           nonce == First(res.hs, IF ok THEN "www-authenticate" ELSE "proxy-authenticate")
           found == Has(m.hs, IF ok THEN "authorization" ELSE "proxy-authorization")
           h0 == IF found THEN m.hs ELSE AddHeader(m.hs, "authorization", nonce)
           via == [First(h0, "via") EXCEPT !.branch = branch]
           h1 == SetFirst(h0, "via", via)
           cseq == [First(h0, "cseq") EXCEPT !.no = @ + 1]
           hs == SetFirst(h1, "cseq", cseq)
           new == AuthorizeRequest(m, res, branch)
<1>1. /\ MessageOK(m) /\ LengthOK(m) /\ HeaderList(m.hs)
      /\ Core \subseteq Shown(m.hs) /\ Shown(m.hs) \subseteq DOMAIN m.hs.map
      /\ Core \subseteq Names /\ "authorization" \in Names
      /\ "proxy-authorization" \notin DOMAIN m.hs.map
  BY ListFacts DEF CallOK, MessageOK, Names, Others
<1>2. nonce \in Values
  <2>1. \A k \in DOMAIN res.hs.map : res.hs.map[k] \in Lists
    BY ListFacts DEF MessageOK
  <2>2. \A vs \in Lists : Head(vs) \in Values
    BY DEF Lists
  <2> QED BY <2>1, <2>2 DEF First
<1>3. new = [m EXCEPT !.hs = hs]
  BY DEF AuthorizeRequest
<1> HIDE DEF nonce, new
<1>4. Credited(h0, m.hs)
  <2>1. CASE found
    <3>1. "authorization" \in DOMAIN m.hs.map
      BY <1>1, <2>1 DEF Has
    <3> QED BY <1>1, <1>2, <2>1, <3>1, CreditedList
  <2>2. CASE ~found
    BY <1>1, <1>2, <2>2, CreditedList
  <2> QED BY <2>1, <2>2
<1> HIDE DEF h0
<1>5. /\ First(h0, "via") = Via(m) /\ First(h0, "cseq") = CSeq(m)
      /\ Core \subseteq Shown(h0) /\ Core \subseteq DOMAIN h0.map
  <2>1. "authorization" \notin Core
    BY DEF Core
  <2>2. \A k \in Core : k \in Shown(h0) /\ k \in DOMAIN h0.map /\ h0.map[k] = m.hs.map[k]
    BY <1>1, <1>4, <2>1 DEF Keeps, Credited
  <2> QED BY <2>2 DEF First, Via, CSeq, Core
<1>6. /\ via \in Vias /\ via.branch = branch /\ via.cookie
      /\ cseq \in CSeqs /\ cseq.method = CSeq(m).method
  BY <1>5 DEF CallOK, MessageOK, Vias, CSeqs
<1> HIDE DEF via, cseq
<1>7. NewStart(hs, h0, via, cseq)
  BY <1>4, <1>5, <1>6, NewStartList DEF Credited
<1> HIDE DEF hs
<1>8. First(hs, "via") = via /\ First(hs, "cseq") = cseq /\ Core \subseteq Shown(hs) /\ HeaderList(hs)
  BY <1>5, <1>7 DEF NewStart
<1>9. MessageOK(new) /\ SameStart(new, m) /\ new.hs = hs
  <2>1. First(hs, "via") \in Vias /\ First(hs, "cseq") \in CSeqs /\ Core \subseteq Shown(hs)
    BY <1>6, <1>8
  <2> QED BY <1>1, <1>3, <1>8, <2>1, NewHeaders
<1>10. LengthOK(new)
  <2>1. "content-length" \in Names
    BY DEF Names, Others
  <2> QED BY <1>1, <1>4, <1>7, <1>9, <2>1 DEF LengthOK, Keeps, SameStart, Credited, NewStart
<1>11. "proxy-authorization" \notin DOMAIN hs.map
  <2>1. "proxy-authorization" \in Names
    BY DEF Names, Others
  <2> QED BY <1>1, <1>4, <1>7, <2>1 DEF Keeps, Credited, NewStart
<1>12. Ordered(new, h)
  <2>1. Tidy(hs, m.hs)
    BY <1>4, <1>7, TidyTransitive DEF Credited, NewStart
  <2> QED BY <1>9, <2>1 DEF Ordered, Tidy
<1>13. Authorized(new)
  BY <1>4, <1>7, <1>9, <1>12 DEF Authorized, Ordered, Credited, NewStart
<1>14. CallOK(new)
  BY <1>6, <1>8, <1>9, <1>10, <1>11 DEF CallOK, SameStart, Via, CSeq
<1> QED BY <1>6, <1>8, <1>9, <1>12, <1>13, <1>14 DEF SameStart, Via, new

\* The request object on its way: filled in by the service,
LEMMA FilledCall ==
    ASSUME NEW m, CallOK(m), NEW h, Ordered(m, h), NEW tag \in Nat \ {0}
    PROVE  LET new == AutoFill(m, tag)
           IN  /\ CallOK(new) /\ Ordered(new, h) /\ Carries(new, m) /\ From(new) # 0
               /\ From(m) # 0 => From(new) = From(m)
<1> DEFINE new == AutoFill(m, tag)
<1>1. MessageOK(m) /\ LengthOK(m)
  BY DEF CallOK
<1>2. /\ Carries(new, m) /\ Refilled(new, m, Filled)
      /\ From(new) = IF From(m) = 0 THEN tag ELSE From(m)
  BY <1>1, AutoFillCarries
<1> HIDE DEF new
<1>3. Keeps(new.hs, m.hs, Filled) /\ Tidy(new.hs, m.hs)
  BY <1>2 DEF Refilled
<1>4. CallOK(new)
  <2>1. "proxy-authorization" \notin DOMAIN new.hs.map
    BY <1>3 DEF Keeps, Names, Others, Filled, CallOK
  <2> QED BY <1>2, <2>1 DEF CallOK, Carries, SameStart
<1>5. Ordered(new, h)
  BY <1>3 DEF Ordered, Tidy
<1> QED BY <1>2, <1>4, <1>5 DEF new

\* rewritten by the transport,
LEMMA RewrittenCall ==
    ASSUME NEW m, CallOK(m), NEW h, Ordered(m, h), NEW tp \in {"UDP", "TCP"}
    PROVE  LET new == Rewrite(m, tp)
           IN  /\ CallOK(new) /\ Ordered(new, h) /\ Carries(new, m)
               /\ From(new) = From(m)
<1> DEFINE new == Rewrite(m, tp)
<1>1. MessageOK(m) /\ LengthOK(m) /\ IsInjective(m.hs.order)
  BY DEF CallOK, Ordered
<1>2. /\ Carries(new, m) /\ From(new) = From(m)
      /\ Keeps(new.hs, m.hs, {"via", "contact"}) /\ Tidy(new.hs, m.hs)
  BY <1>1, RewriteMessage
<1> HIDE DEF new
<1>3. CallOK(new)
  <2>1. "proxy-authorization" \notin DOMAIN new.hs.map
    BY <1>2 DEF Keeps, Names, Others, CallOK
  <2> QED BY <1>2, <2>1 DEF CallOK, Carries, SameStart
<1>4. Ordered(new, h)
  BY <1>2 DEF Ordered, Tidy
<1> QED BY <1>2, <1>3, <1>4 DEF new

\* and edited by the TU.
LEMMA EditedCall ==
    ASSUME NEW m, CallOK(m), NEW n \in EditNames, NEW hs, HeaderList(hs), Keeps(hs, m.hs, {n})
    PROVE  LET new == [m EXCEPT !.hs = hs]
           IN  CallOK(new) /\ Carries(new, m) /\ From(new) = From(m) /\ new.hs = hs
<1> DEFINE new == [m EXCEPT !.hs = hs]
<1>1. /\ n \notin Core /\ n # "content-length" /\ n # "authorization" /\ n # "proxy-authorization"
      /\ Core \subseteq Names /\ {"content-length", "authorization", "proxy-authorization"} \subseteq Names
  BY ExchangeAssumption DEF Core, Names, Others
<1>2. /\ MessageOK(m) /\ LengthOK(m) /\ Core \subseteq Shown(m.hs) /\ Core \subseteq DOMAIN m.hs.map
  BY ListFacts DEF CallOK, MessageOK
<1>3. Core \subseteq Shown(hs) /\ \A k \in Core : First(hs, k) = First(m.hs, k)
  BY <1>1, <1>2 DEF Keeps, First
<1>4. First(hs, "via") = Via(m) /\ First(hs, "cseq") = CSeq(m)
  BY <1>3 DEF Core, Via, CSeq
<1>5. MessageOK(new) /\ SameStart(new, m) /\ new.hs = hs
  <2>1. First(hs, "via") \in Vias /\ First(hs, "cseq") \in CSeqs
    BY <1>2, <1>4 DEF MessageOK
  <2> QED BY <1>2, <1>3, <2>1, NewHeaders
<1> HIDE DEF new
<1>6. From(new) = From(m) /\ To(new) = To(m) /\ Via(new) = Via(m) /\ CSeq(new) = CSeq(m)
  BY <1>3, <1>4, <1>5 DEF Core, From, To, Via, CSeq
<1>7. LengthOK(new)
  BY <1>1, <1>2, <1>5 DEF LengthOK, Keeps, SameStart
<1>8. Authorized(new) <=> Authorized(m)
  BY <1>1, <1>5 DEF Authorized, Keeps
<1>9. CallOK(new)
  <2>1. "proxy-authorization" \notin DOMAIN hs.map
    BY <1>1 DEF CallOK, Keeps
  <2> QED BY <1>5, <1>6, <1>7, <2>1 DEF CallOK, SameStart
<1> QED BY <1>5, <1>6, <1>7, <1>8, <1>9 DEF Carries, new

-----------------------------------------------------------------------------
(* What the steps have in common.                                          *)

Dialog(m) == <<From(m), To(m)>>

\* The keys, by the headers they are made of.
LEMMA KeyFacts ==
    ASSUME NEW m, NEW n
    PROVE  /\ DialogId(m) = Dialog(m)
           /\ Via(m).branch = Via(n).branch /\ CSeq(m).method = CSeq(n).method =>
                MakeClientTxKey(m) = MakeClientTxKey(n)
           /\ Via(m) = Via(n) /\ CSeq(m) = CSeq(n) /\ From(m) = From(n) =>
                MakeServerTxKey(m) = MakeServerTxKey(n)
<1>1. DialogId(m) = Dialog(m)
  BY DEF DialogId, Dialog, From, To
<1>2. \A x : MakeClientTxKey(x) =
        <<Via(x).branch, IF CSeq(x).method = "ACK" THEN "INVITE" ELSE CSeq(x).method>>
  BY DEF MakeClientTxKey, Via, CSeq
<1>3. ASSUME Via(m) = Via(n), CSeq(m) = CSeq(n), From(m) = From(n)
      PROVE  MakeServerTxKey(m) = MakeServerTxKey(n)
  BY <1>3, Zenon DEF MakeServerTxKey, Via, CSeq, From
<1> QED BY <1>1, <1>2, <1>3

\* A response has the key of its request.
LEMMA ResponseKey ==
    ASSUME NEW req, MessageOK(req), NEW status \in Nat, NEW tag \in Nat
    PROVE  MakeServerTxKey(CreateResponse(req, status, tag)) = MakeServerTxKey(req)
<1> DEFINE res == CreateResponse(req, status, tag)
<1>1. Via(res) = Via(req) /\ CSeq(res) = CSeq(req) /\ From(res) = From(req)
  BY CreateResponseMessage
<1> HIDE DEF res
<1>2. MakeServerTxKey(res) = MakeServerTxKey(req)
  BY <1>1, KeyFacts
<1> QED BY <1>2 DEF res

\* Server transactions of one key: the branches have the cookie, or none of them.
LEMMA ServerKeys ==
    ASSUME NEW m, NEW n, Via(m) \in Vias, Via(n) \in Vias,
           MakeServerTxKey(m) = MakeServerTxKey(n)
    PROVE  /\ Via(m).cookie = Via(n).cookie
           /\ Via(m).cookie => Via(m).branch = Via(n).branch
<1> DEFINE Method(x) == IF CSeq(x).method \in {"ACK", "CANCEL"} THEN "INVITE" ELSE CSeq(x).method
<1>1. \A x : MakeServerTxKey(x) = IF Via(x).cookie
                                  THEN <<Via(x).branch, Via(x).host, Method(x)>>
                                  ELSE <<From(x), Method(x), CSeq(x).no, Via(x)>>
  BY DEF MakeServerTxKey, Via, CSeq, From
<1>2. Via(m).cookie \in BOOLEAN /\ Via(n).cookie \in BOOLEAN
  BY DEF Vias
<1> HIDE DEF Method
<1>3. \A a, b, c, d, e, f, g : <<a, b, c>> # <<d, e, f, g>>
  OBVIOUS
<1>4. \A a, b, c, d, e, f : <<a, b, c>> = <<d, e, f>> => a = d
  OBVIOUS
<1> QED BY <1>1, <1>2, <1>3, <1>4

\* A client transaction belongs to one branch and one method.
LEMMA ClientKeys ==
    ASSUME NEW m, NEW n, MakeClientTxKey(m) = MakeClientTxKey(n),
           CSeq(m).method # "ACK", CSeq(n).method # "ACK"
    PROVE  Via(m).branch = Via(n).branch /\ CSeq(m).method = CSeq(n).method
BY DEF MakeClientTxKey, Via, CSeq

\* Nothing is taken back, and the TU that is through stays so.
Grows ==
    /\ fresh \in Nat /\ fresh' \in Nat /\ fresh <= fresh'
    /\ ids \subseteq ids' /\ DOMAIN ctx \subseteq DOMAIN ctx'
    /\ uac = "over" => uac' = "over"

\* The branch, the number and the credentials of two requests.
SameRequest(m, n) ==
    Via(m).branch = Via(n).branch /\ CSeq(m).no = CSeq(n).no /\ (Authorized(m) <=> Authorized(n))

\* The request object is the one it was, or has a branch nobody saw.
CallMoves ==
    call' # None =>
        \/ call # None /\ SameRequest(call', call) /\ (uac' = "made" => uac = "made")
        \/ Via(call').branch = fresh + 1

\* What was said of the messages sent before is still true.
LEMMA OldNet ==
    ASSUME Grows, CallMoves, NetInv
    PROVE  /\ \A m \in net : SentOK(m)'
           /\ \A m \in Requests : RequestOK(m)'
           /\ \A m \in Responses : ResponseOK(m)'
<1>1. ASSUME NEW m \in net PROVE SentOK(m)'
  <2>1. SentOK(m) /\ Via(m).branch \in Nat
    <3>1. SentOK(m)
      BY DEF NetInv
    <3> QED BY <3>1 DEF SentOK, MessageOK, Vias
  <2> QED BY <2>1 DEF SentOK, Grows
<1>2. ASSUME NEW m \in Requests PROVE RequestOK(m)'
  <2>1. m \in net /\ RequestOK(m) /\ SentOK(m) /\ Via(m).branch \in Nat
    <3>1. m \in net /\ SentOK(m) /\ RequestOK(m)
      BY DEF NetInv, Requests
    <3> QED BY <3>1 DEF SentOK, MessageOK, Vias
  <2>2. DOMAIN ctx \subseteq DOMAIN ctx' /\ ids \subseteq ids' /\ fresh \in Nat
    BY DEF Grows
  <2>3. ASSUME Via(m).cookie, call' # None, Via(m).branch = Via(call').branch
        PROVE  /\ uac' # "made" /\ CSeq(m).no = CSeq(call').no
               /\ Authorized(m) <=> Authorized(call')
    <3>1. Via(m).branch # fresh + 1
      BY <2>1, <2>2 DEF SentOK
    <3>2. call # None /\ SameRequest(call', call) /\ (uac' = "made" => uac = "made")
      BY <2>3, <3>1 DEF CallMoves
    <3> QED BY <2>1, <2>3, <3>2 DEF RequestOK, SameRequest
  <2> QED BY <2>1, <2>2, <2>3 DEF RequestOK
<1>3. ASSUME NEW m \in Responses PROVE ResponseOK(m)'
  <2>1. m \in net /\ ResponseOK(m)
    BY DEF NetInv, Responses
  <2> QED BY <2>1 DEF ResponseOK, Grows
<1> QED BY <1>1, <1>2, <1>3

\* A request that is sent is a copy of the request object, has a branch of its own, or
\* is one of the old peer.
Origin(x) ==
    \/ ~Via(x).cookie
    \/ Via(x).branch = fresh + 1
    \/ call # None /\ SameRequest(x, call) /\ Via(x).cookie

\* No step gives a request the branch of an ACK that was sent before.
LEMMA OldAcks ==
    ASSUME Grows, CallMoves, NetInv, AckInv,
           \A x \in net' : x \in net \/ x.method = "ACK" \/ x.kind = "response" \/ Origin(x)
    PROVE  \A a \in acked : a.res.status < 300 => AckOK(a)'
<1> SUFFICES ASSUME NEW a \in acked, a.res.status < 300
             PROVE  AckOK(a)'
  OBVIOUS
<1> DEFINE b == Via(a.ack).branch
<1>1. AckOK(a) /\ b \in Nat /\ b <= fresh /\ fresh \in Nat /\ fresh' \in Nat /\ fresh <= fresh'
  BY DEF AckInv, AckOK, Vias, Grows
<1>2. b <= fresh' /\ b # fresh + 1
  BY <1>1
<1>3. call' # None => Via(call').branch # b
  BY <1>1, <1>2 DEF CallMoves, SameRequest, AckOK
<1>4. ASSUME NEW m \in Requests', m.method # "ACK", Via(m).cookie
      PROVE  Via(m).branch # b
  <2>1. CASE m \in net
    BY <1>1, <1>4, <2>1 DEF Requests, AckOK
  <2>2. CASE m \notin net
    <3>1. m.kind = "request" /\ m \in net'
      BY <1>4 DEF Requests
    <3>2. Origin(m)
      BY <1>4, <2>2, <3>1
    <3> QED BY <1>1, <1>2, <1>4, <3>2 DEF Origin, SameRequest, AckOK
  <2> QED BY <2>1, <2>2 DEF Requests
<1>5. DialogId(a.ack) \in ids'
  BY <1>1 DEF AckOK, Grows
<1> QED BY <1>1, <1>2, <1>3, <1>4, <1>5 DEF AckOK

\* Nothing is sent.
LEMMA SilentStep ==
    ASSUME Grows, CallMoves, NetInv, BranchInv, AckInv, net' = net, acked' = acked
    PROVE  NetInv' /\ BranchInv' /\ AckInv'
<1>1. Requests' = Requests /\ Responses' = Responses
  BY DEF Requests, Responses
<1>2. NetInv'
  BY <1>1, OldNet DEF NetInv
<1>3. BranchInv'
  BY <1>1 DEF BranchInv
<1>4. AckInv'
  <2>1. \A x \in net' : x \in net \/ x.method = "ACK" \/ x.kind = "response" \/ Origin(x)
    OBVIOUS
  <2>2. \A a \in acked : a.res.status < 300 => AckOK(a)'
    BY <2>1, OldAcks
  <2> QED BY <2>2 DEF AckInv
<1> QED BY <1>2, <1>3, <1>4

\* A request is sent.
LEMMA RequestStep ==
    ASSUME Grows, CallMoves, NetInv, BranchInv, AckInv,
           NEW x, net' = net \cup {x}, x.kind = "request", SentOK(x)', RequestOK(x)', Origin(x),
           \A a \in acked' : a \in acked \/ (a.res.status < 300 => AckOK(a)')
    PROVE  NetInv' /\ BranchInv' /\ AckInv'
<1>1. Requests' = Requests \cup {x} /\ Responses' = Responses
  BY DEF Requests, Responses
<1>2. NetInv'
  BY <1>1, OldNet DEF NetInv
<1>3. ASSUME NEW m \in Requests, Via(m).cookie, Via(x).cookie, Via(m).branch = Via(x).branch
      PROVE  CSeq(m).no = CSeq(x).no /\ (Authorized(m) <=> Authorized(x))
  <2>1. m \in net /\ RequestOK(m) /\ SentOK(m) /\ Via(m).branch \in Nat /\ fresh \in Nat
    <3>1. m \in net /\ SentOK(m) /\ RequestOK(m) /\ fresh \in Nat
      BY DEF NetInv, Requests, Grows
    <3> QED BY <3>1 DEF SentOK, MessageOK, Vias
  <2>2. Via(m).branch # fresh + 1
    BY <2>1 DEF SentOK
  <2>3. call # None /\ SameRequest(x, call)
    BY <1>3, <2>2 DEF Origin
  <2> QED BY <1>3, <2>1, <2>3 DEF RequestOK, SameRequest
<1>4. \A m, n \in Requests : Via(m).cookie /\ Via(n).cookie /\ Via(m).branch = Via(n).branch =>
            CSeq(m).no = CSeq(n).no /\ (Authorized(m) <=> Authorized(n))
  BY DEF BranchInv
<1>5. ASSUME NEW m \in Requests \cup {x}, NEW n \in Requests \cup {x},
             Via(m).cookie, Via(n).cookie, Via(m).branch = Via(n).branch
      PROVE  CSeq(m).no = CSeq(n).no /\ (Authorized(m) <=> Authorized(n))
  BY <1>3, <1>4, <1>5, Zenon
<1>6. BranchInv'
  BY <1>1, <1>5, Zenon DEF BranchInv
<1>7. AckInv'
  <2>1. \A y \in net' : y \in net \/ y.method = "ACK" \/ y.kind = "response" \/ Origin(y)
    OBVIOUS
  <2>2. \A a \in acked : a.res.status < 300 => AckOK(a)'
    BY <2>1, OldAcks
  <2>3. \A a \in acked' : a.res.status < 300 => AckOK(a)'
    BY <2>2
  <2> QED BY <2>3 DEF AckInv
<1> QED BY <1>2, <1>6, <1>7

\* A response is sent.
LEMMA ResponseStep ==
    ASSUME Grows, CallMoves, NetInv, BranchInv, AckInv, acked' = acked,
           NEW x, net' = net \cup {x}, x.kind = "response", SentOK(x)', ResponseOK(x)'
    PROVE  NetInv' /\ BranchInv' /\ AckInv'
<1>1. Requests' = Requests /\ Responses' = Responses \cup {x}
  BY DEF Requests, Responses
<1>2. NetInv'
  BY <1>1, OldNet DEF NetInv
<1>3. BranchInv'
  BY <1>1 DEF BranchInv
<1>4. AckInv'
  <2>1. \A y \in net' : y \in net \/ y.method = "ACK" \/ y.kind = "response" \/ Origin(y)
    OBVIOUS
  <2>2. \A a \in acked : a.res.status < 300 => AckOK(a)'
    BY <2>1, OldAcks
  <2> QED BY <2>2 DEF AckInv
<1> QED BY <1>2, <1>3, <1>4

\* The server transactions are those of before.
LEMMA StxKept ==
    ASSUME StxInv, stx' = stx, net \subseteq net'
    PROVE  StxInv'
BY DEF StxInv, Requests

\* The session is the one of before.
LEMMA SessionKept ==
    ASSUME SessionInv, session' = session, ids \subseteq ids'
    PROVE  SessionInv'
BY DEF SessionInv

\* What the invariant says in numbers.
LEMMA Numbers ==
    ASSUME StateInv
    PROVE  /\ fresh \in Nat /\ edits \in Nat /\ MaxFresh \in Nat /\ MaxEdits \in Nat
           /\ fresh + 1 \in Nat \ {0} /\ hidden \subseteq EditNames
           /\ \A n \in Nat : Draw(n) => fresh' \in 0 .. MaxFresh /\ fresh' = fresh + n
BY ExchangeAssumption DEF StateInv, Draw

\* A message is an object.
LEMMA NotNone ==
    ASSUME NEW m, MessageOK(m)
    PROVE  m # None
BY DEF MessageOK, None

-----------------------------------------------------------------------------
(* One lemma for each action.                                              *)

\* Nothing was made and nothing was sent.
LEMMA InitStep == ExchangeInit => ExchangeInv
<1> SUFFICES ASSUME ExchangeInit PROVE ExchangeInv
  OBVIOUS
<1> USE DEF ExchangeInit
<1>1. StateInv
  BY ExchangeAssumption DEF StateInv
<1>2. CallInv /\ UacInv /\ SessionInv
  BY DEF CallInv, UacInv, SessionInv
<1>3. NetInv /\ BranchInv /\ AckInv
  BY DEF NetInv, BranchInv, AckInv, Requests, Responses
<1>4. CtxInv /\ StxInv
  BY DEF CtxInv, StxInv
<1> QED BY <1>1, <1>2, <1>3, <1>4 DEF ExchangeInv

\* CreateRequest draws a branch nobody has seen.
LEMMA MakeStep ==
    ASSUME ExchangeInv, NEW method \in {"INVITE", "REGISTER"}, Make(method)
    PROVE  ExchangeInv'
<1> DEFINE m == CreateRequest(method, fresh + 1)
<1>1. StateInv' /\ fresh' = fresh + 1 /\ fresh \in Nat
  BY Numbers DEF ExchangeInv, Make, StateInv
<1>2. PICK ms \in [RequestNames -> Lists] :
        /\ NewRequest(m, method, ms)
        /\ ms["via"] = <<NewVia(fresh + 1)>> /\ ms["from"] = <<0>> /\ ms["to"] = <<0>>
        /\ ms["cseq"] = <<[no |-> 1, method |-> method]>>
  <2>1. method \in Methods /\ fresh + 1 \in Nat
    BY <1>1 DEF Methods
  <2> QED BY <2>1, CreateRequestMessage
<1> HIDE DEF m
<1>3. /\ Head(ms["via"]) = NewVia(fresh + 1) /\ Head(ms["cseq"]) = [no |-> 1, method |-> method]
      /\ NewVia(fresh + 1) \in Vias /\ [no |-> 1, method |-> method] \in CSeqs
      /\ NewVia(fresh + 1).branch = fresh + 1 /\ NewVia(fresh + 1).cookie
  BY <1>1, <1>2 DEF NewVia, Vias, CSeqs, Methods
<1>4. NewRequestOK(m, method, ms)
  BY <1>2, <1>3, RequestMessage DEF Methods
<1>5. /\ CallOK(m) /\ Ordered(m, hidden) /\ Via(m).branch = fresh + 1 /\ CSeq(m).no = 1
      /\ m.method = method
  BY <1>3, <1>4 DEF NewRequestOK, CallOK, Ordered, LengthOK, RequestNames, Core
<1>6. CallInv' /\ call' = m
  BY <1>1, <1>5 DEF CallInv, Make, m
<1>7. call' # None
  BY <1>5, <1>6, NotNone DEF CallOK
<1>8. Grows /\ CallMoves
  BY <1>1, <1>5, <1>6 DEF Grows, CallMoves, Make
<1>9. NetInv' /\ BranchInv' /\ AckInv'
  BY <1>8, SilentStep DEF ExchangeInv, Make
<1>10. UacInv' /\ SessionInv'
  BY <1>7 DEF ExchangeInv, UacInv, SessionInv, Make
<1>11. CtxInv' /\ StxInv'
  <2>1. CtxInv'
    BY DEF ExchangeInv, CtxInv, Make
  <2> QED BY <2>1, StxKept DEF ExchangeInv, Make
<1> QED BY <1>1, <1>6, <1>9, <1>10, <1>11 DEF ExchangeInv

\* A step of the TU on the request object before it is sent.
LEMMA EditedStep ==
    ASSUME ExchangeInv, uac = "made", uac' = uac, edits < MaxEdits, edits' = edits + 1,
           UNCHANGED <<last, session, ctx, stx, ids, net, fresh, acked>>,
           hidden' \subseteq EditNames,
           CallOK(call'), Ordered(call', hidden'), call'.method = call.method,
           SameRequest(call', call)
    PROVE  ExchangeInv'
<1>1. call # None /\ call' # None /\ call.method # "BYE"
  BY NotNone DEF ExchangeInv, UacInv, CallInv, CallOK
<1>2. StateInv'
  BY Numbers DEF ExchangeInv, StateInv
<1>3. CallInv'
  BY <1>1 DEF ExchangeInv, CallInv, SameRequest
<1>4. UacInv' /\ SessionInv'
  BY <1>1 DEF ExchangeInv, UacInv, SessionInv
<1>5. Grows /\ CallMoves
  BY <1>1, Numbers DEF ExchangeInv, Grows, CallMoves
<1>6. NetInv' /\ BranchInv' /\ AckInv'
  BY <1>5, SilentStep DEF ExchangeInv
<1>7. CtxInv' /\ StxInv'
  <2>1. CtxInv'
    BY DEF ExchangeInv, CtxInv
  <2> QED BY <2>1, StxKept DEF ExchangeInv
<1> QED BY <1>2, <1>3, <1>4, <1>6, <1>7 DEF ExchangeInv

\* The five header operations keep the order and the map in step.
LEMMA EditStep ==
    ASSUME ExchangeInv, NEW n \in EditNames, Edit(n)
    PROVE  ExchangeInv'
<1> DEFINE hs == call.hs
<1>1. /\ CallOK(call) /\ Ordered(call, hidden) /\ HeaderList(hs) /\ IsInjective(hs.order)
      /\ n \in Names /\ "set" \in Values /\ hidden \subseteq EditNames /\ DOMAIN hs.map \subseteq Names
      /\ DOMAIN hs.map \ Shown(hs) \subseteq hidden
  <2>1. CallOK(call) /\ Ordered(call, hidden) /\ hidden \subseteq EditNames
    BY Numbers DEF ExchangeInv, UacInv, CallInv, Edit
  <2> QED BY <2>1, ListFacts, ValueFacts DEF CallOK, MessageOK, Ordered, Names
<1> DEFINE Good(new) == /\ HeaderList(new) /\ Keeps(new, hs, {n}) /\ IsInjective(new.order)
                        /\ DOMAIN new.map \ Shown(new) \subseteq hidden'
<1>2. ASSUME NEW new, HeaderList(new), Keeps(new, hs, {n}), Tidy(new, hs), hidden' = hidden
      PROVE  Good(new)
  BY <1>1, <1>2 DEF Tidy
<1>3. \E new : Good(new) /\ call' = [call EXCEPT !.hs = new] /\ hidden' \subseteq EditNames
  <2>1. CASE /\ call' = [call EXCEPT !.hs = AddHeader(@, n, "set")]
             /\ UNCHANGED hidden
    <3> DEFINE new == AddHeader(hs, n, "set")
    <3>1. HeaderList(new) /\ Keeps(new, hs, {n}) /\ Tidy(new, hs)
      BY <1>1, AddList
    <3> QED BY <1>1, <1>2, <2>1, <3>1
  <2>2. CASE /\ call' = [call EXCEPT !.hs = PrependHeader(@, n, "set")]
             /\ UNCHANGED hidden
    <3> DEFINE new == PrependHeader(hs, n, "set")
    <3>1. HeaderList(new) /\ Keeps(new, hs, {n}) /\ Tidy(new, hs)
      BY <1>1, PrependList
    <3> QED BY <1>1, <1>2, <2>2, <3>1
  <2>3. CASE /\ \E after \in EditNames \cup {"cseq"} :
                  call' = [call EXCEPT !.hs = PrependHeaderAfter(@, n, "set", after)]
             /\ UNCHANGED hidden
    <3>1. PICK after : call' = [call EXCEPT !.hs = PrependHeaderAfter(@, n, "set", after)]
      BY <2>3
    <3> DEFINE new == PrependHeaderAfter(hs, n, "set", after)
    <3>2. HeaderList(new) /\ Keeps(new, hs, {n}) /\ Tidy(new, hs)
      BY <1>1, AfterList
    <3> QED BY <1>1, <1>2, <2>3, <3>1, <3>2
  <2>4. CASE /\ call' = [call EXCEPT !.hs = ReplaceHeader(@, n, "set")]
             /\ hidden' = IF Has(call.hs, n) THEN hidden ELSE hidden \cup {n}
    <3> DEFINE new == ReplaceHeader(hs, n, "set")
    <3>1. /\ HeaderList(new) /\ Keeps(new, hs, {n}) /\ IsInjective(new.order)
          /\ n \in DOMAIN hs.map => Tidy(new, hs)
      BY <1>1, ReplaceList
    <3> HIDE DEF new
    <3>2. Good(new)
      <4>1. CASE n \in DOMAIN hs.map
        BY <1>2, <2>4, <3>1, <4>1 DEF Has
      <4>2. CASE n \notin DOMAIN hs.map
        <5>1. hidden' = hidden \cup {n}
          BY <2>4, <4>2 DEF Has
        <5>2. DOMAIN new.map \subseteq Names
          BY <3>1, ListFacts
        <5> QED BY <1>1, <3>1, <5>1, <5>2 DEF Keeps
      <4> QED BY <4>1, <4>2
    <3>3. call' = [call EXCEPT !.hs = new] /\ hidden' \subseteq EditNames
      BY <1>1, <2>4 DEF new
    <3> QED BY <3>2, <3>3
  <2>5. CASE /\ call' = [call EXCEPT !.hs = DelHeader(@, n)]
             /\ hidden' = hidden \ {n}
    <3> DEFINE new == DelHeader(hs, n)
    <3>1. /\ HeaderList(new) /\ Keeps(new, hs, {n}) /\ IsInjective(new.order)
          /\ n \notin DOMAIN new.map
      BY <1>1, DelList
    <3> HIDE DEF new
    <3>2. Good(new)
      <4>1. DOMAIN new.map \subseteq Names
        BY <3>1, ListFacts
      <4> QED BY <1>1, <2>5, <3>1, <4>1 DEF Keeps
    <3>3. call' = [call EXCEPT !.hs = new] /\ hidden' \subseteq EditNames
      BY <1>1, <2>5 DEF new
    <3> QED BY <3>2, <3>3
  <2> QED BY <2>1, <2>2, <2>3, <2>4, <2>5 DEF Edit
<1>4. PICK new : Good(new) /\ call' = [call EXCEPT !.hs = new] /\ hidden' \subseteq EditNames
  BY <1>3
<1>5. CallOK(call') /\ Carries(call', call) /\ call'.hs = new
  BY <1>1, <1>4, EditedCall
<1>6. Ordered(call', hidden') /\ SameRequest(call', call) /\ call'.method = call.method
  BY <1>4, <1>5 DEF Ordered, Carries, SameRequest, SameStart
<1> QED BY <1>4, <1>5, <1>6, EditedStep DEF Edit

\* SetBody keeps one Content-Length, the length of the body.
LEMMA EditBodyStep ==
    ASSUME ExchangeInv, NEW len \in 0 .. MaxBody, EditBody(len)
    PROVE  ExchangeInv'
<1>1. CallOK(call) /\ Ordered(call, hidden) /\ hidden \subseteq EditNames /\ len \in Nat
  BY Numbers, ExchangeAssumption DEF ExchangeInv, UacInv, CallInv, EditBody
<1> DEFINE new == SetBody(call, len)
<1>2. /\ MessageOK(new) /\ LengthOK(new) /\ new.kind = call.kind /\ new.method = call.method
      /\ Keeps(new.hs, call.hs, {"content-length"}) /\ Tidy(new.hs, call.hs)
  BY <1>1, SetBodyMessage DEF CallOK
<1>3. call' = new
  BY DEF EditBody
<1> HIDE DEF new
<1>4. Via(new) = Via(call) /\ CSeq(new) = CSeq(call)
  <2>1. {"via", "cseq"} \subseteq Core \ {"content-length"}
    BY DEF Core
  <2>2. \A k \in Core \ {"content-length"} : First(new.hs, k) = First(call.hs, k)
    BY <1>1, <1>2, KeptCore DEF CallOK
  <2> QED BY <2>1, <2>2 DEF Via, CSeq
<1>5. /\ Authorized(new) <=> Authorized(call)
      /\ "proxy-authorization" \in DOMAIN new.hs.map <=> "proxy-authorization" \in DOMAIN call.hs.map
  BY <1>2 DEF Keeps, Names, Others, Authorized
<1>6. CallOK(new) /\ SameRequest(new, call)
  BY <1>1, <1>2, <1>4, <1>5 DEF CallOK, SameRequest
<1>7. Ordered(new, hidden)
  BY <1>1, <1>2 DEF Ordered, Tidy
<1> QED BY <1>1, <1>2, <1>3, <1>6, <1>7, EditedStep DEF EditBody

\* The copy of the request object that is sent.
CopyOf(x, m) ==
    /\ MessageOK(x) /\ DOMAIN x.hs.map = Shown(x.hs) /\ LengthOK(x)
    /\ x.kind = "request" /\ x.method = m.method /\ SameRequest(x, m) /\ CSeq(x) = CSeq(m)
    /\ Via(x).cookie /\ Dialog(x) = Dialog(m) /\ From(x) = From(m)
    /\ MakeClientTxKey(x) = MakeClientTxKey(m)

\* What travels of the object is a copy of it.
LEMMA WireCopy ==
    ASSUME NEW m, CallOK(m)
    PROVE  CopyOf(Wire(m), m)
<1> DEFINE x == Wire(m)
<1>1. /\ Carries(x, m) /\ From(x) = From(m) /\ DOMAIN x.hs.map = Shown(x.hs)
  BY WireMessage DEF CallOK
<1> HIDE DEF x
<1>2. MakeClientTxKey(x) = MakeClientTxKey(m)
  BY <1>1, KeyFacts DEF Carries
<1>3. CopyOf(x, m)
  BY <1>1, <1>2 DEF CallOK, Carries, SameStart, SameRequest, CopyOf, Dialog
<1> QED BY <1>3 DEF x

\* It satisfies the invariant of the network once it is the object of the call.
LEMMA CopySent ==
    ASSUME CallInv', call' # None, uac' # "made", fresh' \in Nat,
           MakeClientTxKey(call') \in DOMAIN ctx',
           NEW x, CopyOf(x, call')
    PROVE  SentOK(x)' /\ RequestOK(x)'
<1>1. /\ CallOK(call') /\ Via(call').branch <= fresh' /\ From(call') # 0
      /\ call'.method = "BYE" => CSeq(call').no = 2 /\ DialogId(call') \in ids'
      /\ call'.method # "BYE" /\ ~Authorized(call') => CSeq(call').no = 1
  BY DEF CallInv
<1>2. DialogId(x) = DialogId(call')
  <2>1. \A m : DialogId(m) = <<From(m), To(m)>>
    BY DEF DialogId, From, To
  <2> QED BY <2>1 DEF CopyOf, Dialog
<1>3. SentOK(x)'
  BY <1>1 DEF CopyOf, SentOK, SameRequest
<1>4. RequestOK(x)'
  BY <1>1, <1>2 DEF CopyOf, RequestOK, SameRequest, CallOK
<1> QED BY <1>3, <1>4

\* Service.Send: no request with this branch was sent, and none waits for an answer.
LEMMA UacSendStep ==
    ASSUME ExchangeInv, UacSend
    PROVE  ExchangeInv'
<1> DEFINE filled == AutoFill(call, fresh + 1)
           sent   == Rewrite(filled, "UDP")
           txKey  == MakeClientTxKey(filled)
<1>1. /\ CallOK(call) /\ Ordered(call, hidden) /\ fresh \in Nat /\ fresh + 1 \in Nat \ {0}
      /\ call # None /\ call.method # "BYE" /\ Via(call).branch <= fresh
      /\ ~Authorized(call) => CSeq(call).no = 1
  BY Numbers DEF ExchangeInv, CallInv, UacInv, UacSend
<1>2. CallOK(filled) /\ Ordered(filled, hidden) /\ Carries(filled, call) /\ From(filled) # 0
  BY <1>1, FilledCall
<1> HIDE DEF filled
<1>3. CallOK(sent) /\ Ordered(sent, hidden) /\ Carries(sent, filled) /\ From(sent) = From(filled)
  BY <1>2, RewrittenCall
<1> HIDE DEF sent
<1> PICK x : x = Wire(sent)
  OBVIOUS
<1>4. CopyOf(x, sent)
  BY <1>3, WireCopy
<1>5. /\ ctx' = Put(ctx, txKey, "calling") /\ call' = sent /\ net' = net \cup {x}
      /\ uac = "made" /\ uac' = "sent" /\ fresh' = fresh + 1 /\ acked' = acked
      /\ UNCHANGED <<last, session, stx, ids, edits, hidden>> /\ StateInv'
  BY Numbers DEF UacSend, filled, sent, ExchangeInv, StateInv
<1>6. MakeClientTxKey(sent) = txKey
  BY <1>3, KeyFacts DEF Carries
<1> HIDE DEF txKey
<1>7. SameRequest(sent, call) /\ sent.method = call.method /\ CSeq(sent) = CSeq(call)
  BY <1>2, <1>3 DEF Carries, SameStart, SameRequest
<1>8. call' # None
  BY <1>3, <1>5, NotNone DEF CallOK
<1>9. CallInv'
  <2>1. Via(sent).branch <= fresh + 1
    <3>1. Via(call).branch \in Nat
      BY <1>1 DEF CallOK, MessageOK, Vias
    <3> QED BY <1>1, <1>7, <3>1 DEF SameRequest
  <2> QED BY <1>1, <1>2, <1>3, <1>5, <1>7, <2>1 DEF CallInv, SameRequest
<1>10. /\ DOMAIN ctx' = DOMAIN ctx \cup {txKey} /\ ctx' = [k \in DOMAIN ctx' |-> ctx'[k]]
       /\ ctx'[txKey] = "calling" /\ \A k \in DOMAIN ctx \ {txKey} : ctx'[k] = ctx[k]
  BY <1>5 DEF Put
<1>11. UacInv' /\ SessionInv'
  BY <1>5, <1>6, <1>8, <1>10 DEF ExchangeInv, UacInv, SessionInv
<1>12. Grows /\ CallMoves
  BY <1>1, <1>5, <1>7, <1>10 DEF Grows, CallMoves
<1>13. SentOK(x)' /\ RequestOK(x)'
  <2>1. /\ call' # None /\ uac' # "made" /\ fresh' \in Nat
        /\ MakeClientTxKey(call') \in DOMAIN ctx' /\ CopyOf(x, call')
    BY <1>1, <1>4, <1>5, <1>6, <1>8, <1>10
  <2> QED BY <1>9, <2>1, CopySent, Zenon
<1>14. Origin(x) /\ x.kind = "request"
  BY <1>1, <1>4, <1>7 DEF Origin, CopyOf, SameRequest
<1>15. NetInv' /\ BranchInv' /\ AckInv'
  <2>1. /\ NetInv /\ BranchInv /\ AckInv /\ net' = net \cup {x}
        /\ \A a \in acked' : a \in acked \/ (a.res.status < 300 => AckOK(a)')
    BY <1>5 DEF ExchangeInv
  <2> QED BY <1>12, <1>13, <1>14, <2>1, RequestStep, Zenon
<1>16. CtxInv' /\ StxInv'
  <2>1. CtxInv'
    BY <1>5, <1>6, <1>10 DEF ExchangeInv, CtxInv
  <2> QED BY <1>5, <2>1, StxKept DEF ExchangeInv
<1> QED BY <1>5, <1>9, <1>11, <1>15, <1>16 DEF ExchangeInv

\* A retransmission has the branch, the number and the credentials of the first copy.
LEMMA ResendStep ==
    ASSUME ExchangeInv, Resend
    PROVE  ExchangeInv'
<1> DEFINE sent == Rewrite(call, "TCP")
<1>1. /\ CallOK(call) /\ Ordered(call, hidden) /\ fresh \in Nat /\ call # None
      /\ MakeClientTxKey(call) \in DOMAIN ctx /\ From(call) # 0
  BY Numbers DEF ExchangeInv, CallInv, UacInv, Resend
<1>2. CallOK(sent) /\ Ordered(sent, hidden) /\ Carries(sent, call) /\ From(sent) = From(call)
  BY <1>1, RewrittenCall
<1> HIDE DEF sent
<1> PICK x : x = Wire(sent)
  OBVIOUS
<1>3. CopyOf(x, sent)
  BY <1>2, WireCopy
<1>4. /\ call' = sent /\ net' = net \cup {x} /\ uac = "sent" /\ acked' = acked
      /\ UNCHANGED <<uac, last, session, ctx, stx, ids, fresh, edits, hidden>> /\ StateInv'
  BY DEF Resend, sent, ExchangeInv, StateInv
<1>5. /\ MakeClientTxKey(sent) = MakeClientTxKey(call) /\ DialogId(sent) = DialogId(call)
      /\ SameRequest(sent, call) /\ sent.method = call.method /\ CSeq(sent) = CSeq(call)
  <2>1. DialogId(sent) = DialogId(call)
    BY <1>2, KeyFacts DEF Dialog, Carries
  <2> QED BY <1>2, <2>1, KeyFacts DEF Carries, SameStart, SameRequest
<1>6. call' # None
  BY <1>2, <1>4, NotNone DEF CallOK
<1>7. CallInv'
  BY <1>1, <1>2, <1>4, <1>5 DEF ExchangeInv, CallInv, SameRequest
<1>8. UacInv' /\ SessionInv'
  BY <1>1, <1>4, <1>5, <1>6 DEF ExchangeInv, UacInv, SessionInv
<1>9. Grows /\ CallMoves
  BY <1>1, <1>4, <1>5 DEF Grows, CallMoves
<1>10. SentOK(x)' /\ RequestOK(x)'
  <2>1. /\ call' # None /\ uac' # "made" /\ fresh' \in Nat
        /\ MakeClientTxKey(call') \in DOMAIN ctx' /\ CopyOf(x, call')
    BY <1>1, <1>3, <1>4, <1>5, <1>6
  <2> QED BY <1>7, <2>1, CopySent, Zenon
<1>11. Origin(x) /\ x.kind = "request"
  BY <1>1, <1>3, <1>5 DEF Origin, CopyOf, SameRequest
<1>12. NetInv' /\ BranchInv' /\ AckInv'
  <2>1. /\ NetInv /\ BranchInv /\ AckInv /\ net' = net \cup {x}
        /\ \A a \in acked' : a \in acked \/ (a.res.status < 300 => AckOK(a)')
    BY <1>4 DEF ExchangeInv
  <2> QED BY <1>9, <1>10, <1>11, <2>1, RequestStep, Zenon
<1>13. CtxInv' /\ StxInv'
  <2>1. CtxInv'
    BY <1>4, <1>5 DEF ExchangeInv, CtxInv
  <2> QED BY <1>4, <2>1, StxKept DEF ExchangeInv
<1> QED BY <1>4, <1>7, <1>8, <1>12, <1>13 DEF ExchangeInv

\* The ACK as it is sent, by the transaction or by the TU.
AckFor(x, res, branch) ==
    /\ MessageOK(x) /\ DOMAIN x.hs.map = Shown(x.hs) /\ LengthOK(x)
    /\ x.kind = "request" /\ x.method = "ACK" /\ Via(x).branch = branch /\ Via(x).cookie
    /\ Dialog(x) = Dialog(res) /\ From(x) = From(res)

\* transport.Send and the parser leave the ACK what it was.
LEMMA AckSent ==
    ASSUME NEW res, NEW m, MessageOK(m), LengthOK(m), m.kind = "request", m.method = "ACK",
           Via(m).cookie, From(m) = From(res), To(m) = To(res)
    PROVE  AckFor(Wire(Rewrite(m, "UDP")), res, Via(m).branch)
<1> DEFINE r == Rewrite(m, "UDP")
           x == Wire(r)
<1>1. Carries(r, m) /\ From(r) = From(m)
  BY RewriteMessage
<1> HIDE DEF r
<1>2. Carries(x, r) /\ From(x) = From(r) /\ DOMAIN x.hs.map = Shown(x.hs)
  BY <1>1, WireMessage DEF Carries
<1> HIDE DEF x
<1>3. AckFor(x, res, Via(m).branch)
  BY <1>1, <1>2 DEF Carries, SameStart, AckFor, Dialog
<1> QED BY <1>3 DEF x, r

\* CreateAck with and without AutoFill: the dialog of the response.
LEMMA AckMessages ==
    ASSUME NEW res, MessageOK(res), Via(res).cookie, From(res) # 0, NEW branch \in Nat \ {0}
    PROVE  /\ AckFor(Wire(Rewrite(CreateAck(res, branch), "UDP")), res, branch)
           /\ AckFor(Wire(Rewrite(AutoFill(CreateAck(res, branch), branch), "UDP")), res, branch)
           /\ Dialog(AutoFill(CreateAck(res, branch), branch)) = Dialog(res)
<1> DEFINE m == CreateAck(res, branch)
           f == AutoFill(m, branch)
<1>1. /\ MessageOK(m) /\ LengthOK(m) /\ m.kind = "request" /\ m.method = "ACK"
      /\ Via(m).branch = branch /\ Via(m).cookie = Via(res).cookie
      /\ From(m) = From(res) /\ To(m) = To(res)
  BY CreateAckMessage
<1> HIDE DEF m
<1>2. Carries(f, m) /\ From(f) = From(m)
  BY <1>1, AutoFillCarries
<1> HIDE DEF f
<1>3. /\ MessageOK(f) /\ LengthOK(f) /\ f.kind = "request" /\ f.method = "ACK"
      /\ Via(f).branch = branch /\ Via(f).cookie
      /\ From(f) = From(res) /\ To(f) = To(res)
  BY <1>1, <1>2 DEF Carries, SameStart
<1>4. AckFor(Wire(Rewrite(m, "UDP")), res, branch)
  BY <1>1, AckSent
<1>5. AckFor(Wire(Rewrite(f, "UDP")), res, branch)
  BY <1>3, AckSent
<1> QED BY <1>3, <1>4, <1>5 DEF m, f, Dialog

\* It satisfies the invariant of the network.
LEMMA AckKept ==
    ASSUME NEW x, NEW res, AckFor(x, res, fresh + 1), From(res) # 0,
           fresh \in Nat, fresh' = fresh + 1, call' = call, CallInv
    PROVE  SentOK(x)' /\ RequestOK(x)' /\ Origin(x)
<1>1. SentOK(x)'
  BY DEF AckFor, SentOK
<1>2. call' # None => Via(call').branch # fresh + 1
  <2>1. call # None => Via(call).branch \in Nat /\ Via(call).branch <= fresh
    BY DEF CallInv, CallOK, MessageOK, Vias
  <2> QED BY <2>1
<1>3. RequestOK(x)'
  BY <1>2 DEF AckFor, RequestOK
<1> QED BY <1>1, <1>3 DEF AckFor, Origin

\* The tags are values of a header.
LEMMA ValueOf ==
    ASSUME NEW m, MessageOK(m)
    PROVE  From(m) \in Values /\ To(m) \in Values
<1>1. {"from", "to"} \subseteq DOMAIN m.hs.map
  BY ListFacts DEF MessageOK, Core
<1>2. \A k \in DOMAIN m.hs.map : m.hs.map[k] \in Lists
  BY ListFacts DEF MessageOK
<1>3. \A vs \in Lists : Head(vs) \in Values
  BY DEF Lists
<1> QED BY <1>1, <1>2, <1>3 DEF From, To, First

\* The response is one to the request object: a BYE gets only a 200, so that neither
\* a challenge nor a session follows from it.
LEMMA UacReceiveStep ==
    ASSUME ExchangeInv, NEW res \in net, res.kind = "response", UacReceive(res)
    PROVE  ExchangeInv'
<1> DEFINE txKey == MakeClientTxKey(res)
           isInvite == CSeq(res).method = "INVITE"
<1>1. /\ res \in Responses /\ SentOK(res) /\ ResponseOK(res) /\ MessageOK(res)
      /\ From(res) # 0 /\ res.status \in Nat /\ fresh \in Nat /\ fresh + 1 \in Nat \ {0}
  <2>1. res \in Responses
    BY DEF Responses
  <2> QED BY <2>1, Numbers DEF ExchangeInv, NetInv, SentOK, MessageOK
<1>2. /\ uac = "sent" /\ txKey \in DOMAIN ctx /\ ctx[txKey] = "calling" /\ res.status >= 200
      /\ ctx' = [ctx EXCEPT ![txKey] = "done"] /\ last' = res
      /\ session' = IF isInvite /\ res.status < 300
                    THEN [kind |-> "session", id |-> DialogId(res), seq |-> 1,
                          from |-> From(res), to |-> To(res)]
                    ELSE session
      /\ uac' = IF res.status \in {401, 407} THEN "challenged"
                ELSE IF isInvite /\ res.status < 300 THEN "answered" ELSE "over"
      /\ UNCHANGED <<call, stx, ids, edits, hidden>>
  BY DEF UacReceive, CSeq, From, To
<1>3. /\ Via(res).cookie
      /\ call # None /\ CallOK(call) /\ From(call) # 0 /\ txKey = MakeClientTxKey(call)
      /\ res.method = CSeq(res).method /\ res.method = call.method
  <2>1. Via(res).cookie
    BY <1>1, <1>2 DEF SentOK
  <2>2. call # None /\ CallOK(call) /\ From(call) # 0
    BY <1>2 DEF ExchangeInv, UacInv, CallInv
  <2>3. txKey = MakeClientTxKey(call)
    BY <1>2 DEF ExchangeInv, CtxInv
  <2>4. CSeq(res).method = CSeq(call).method
    BY <1>1, <2>2, <2>3, ClientKeys DEF ResponseOK, CallOK
  <2> QED BY <1>1, <2>1, <2>2, <2>3, <2>4 DEF ResponseOK, CallOK
<1> HIDE DEF txKey
<1>4. /\ NetInv' /\ BranchInv' /\ AckInv' /\ StateInv' /\ fresh' \in Nat /\ fresh <= fresh'
      /\ net \subseteq net'
  <2>1. CASE ~(isInvite /\ res.status >= 300)
    <3>1. UNCHANGED <<fresh, net, acked>>
      BY <2>1 DEF UacReceive, CSeq
    <3>2. StateInv'
      BY <1>2, <3>1 DEF ExchangeInv, StateInv
    <3>3. Grows /\ CallMoves
      BY <1>1, <1>2, <3>1 DEF Grows, CallMoves, SameRequest
    <3> QED BY <1>1, <3>1, <3>2, <3>3, SilentStep DEF ExchangeInv
  <2>2. CASE isInvite /\ res.status >= 300
    <3> PICK x : x = Wire(Rewrite(CreateAck(res, fresh + 1), "UDP"))
      OBVIOUS
    <3>1. /\ Draw(1) /\ net' = net \cup {x}
          /\ acked' = acked \cup {[ack |-> x, res |-> res]}
      BY <2>2 DEF UacReceive, CSeq
    <3>2. fresh' = fresh + 1 /\ fresh' \in 0 .. MaxFresh
      BY <3>1, Numbers DEF ExchangeInv
    <3>3. StateInv'
      BY <1>2, <3>2 DEF ExchangeInv, StateInv
    <3>4. Grows /\ CallMoves
      BY <1>1, <1>2, <3>2 DEF Grows, CallMoves, SameRequest
    <3>5. AckFor(x, res, fresh + 1)
      BY <1>1, <1>3, AckMessages
    <3>6. SentOK(x)' /\ RequestOK(x)' /\ Origin(x) /\ x.kind = "request"
      <4>1. SentOK(x)' /\ RequestOK(x)' /\ Origin(x)
        BY <1>1, <1>2, <3>2, <3>5, AckKept DEF ExchangeInv
      <4> QED BY <3>5, <4>1 DEF AckFor
    <3>7. \A a \in acked' : a \in acked \/ (a.res.status < 300 => AckOK(a)')
      BY <1>1, <2>2, <3>1
    <3>8. NetInv /\ BranchInv /\ AckInv
      BY DEF ExchangeInv
    <3>9. NetInv' /\ BranchInv' /\ AckInv'
      BY <3>1, <3>4, <3>6, <3>7, <3>8, RequestStep
    <3> QED BY <1>1, <3>1, <3>2, <3>3, <3>9
  <2> QED BY <2>1, <2>2
<1>5. CallInv'
  <2>1. res.method = "BYE" => uac' = "over"
    BY <1>1, <1>2, <1>3 DEF ResponseOK
  <2>2. uac' # "made" /\ Via(call).branch \in Nat
    BY <1>2, <1>3 DEF CallOK, MessageOK, Vias
  <2> QED BY <1>1, <1>2, <1>3, <1>4, <2>1, <2>2 DEF ExchangeInv, CallInv
<1>6. isInvite /\ res.status < 300 => DialogId(res) \in ids /\ res.status \in 200 .. 299
  BY <1>1, <1>2 DEF ResponseOK
<1>7. SessionInv'
  <2>1. CASE isInvite /\ res.status < 300
    <3>1. DialogId(res) = <<From(res), To(res)>> /\ From(res) \in Values \ {0} /\ To(res) \in Values
      BY <1>1, ValueOf, KeyFacts DEF Dialog
    <3> QED BY <1>2, <1>6, <2>1, <3>1 DEF SessionInv
  <2>2. CASE ~(isInvite /\ res.status < 300)
    BY <1>2, <2>2, SessionKept DEF ExchangeInv
  <2> QED BY <2>1, <2>2
<1>8. UacInv'
  <2>1. res \in Responses'
    BY <1>1, <1>4 DEF Responses
  <2>2. /\ uac' = "answered" => isInvite /\ res.status < 300
        /\ uac' = "challenged" => res.status \in {401, 407}
        /\ uac' \in {"challenged", "answered", "over"}
    BY <1>2
  <2>3. uac' = "answered" => session' # None /\ session'.seq = 1 /\ session'.id = DialogId(res)
    BY <1>2, <2>2 DEF None
  <2> QED BY <1>2, <1>3, <1>6, <2>1, <2>2, <2>3 DEF UacInv
<1>9. CtxInv' /\ StxInv'
  <2>1. /\ DOMAIN ctx' = DOMAIN ctx /\ ctx' = [k \in DOMAIN ctx' |-> ctx'[k]] /\ ctx'[txKey] = "done"
        /\ \A k \in DOMAIN ctx \ {txKey} : ctx'[k] = ctx[k]
    BY <1>2 DEF ExchangeInv, CtxInv
  <2>2. \A k \in DOMAIN ctx' : ctx'[k] = "done"
    BY <1>3, <2>1 DEF ExchangeInv, CtxInv
  <2>3. CtxInv'
    BY <2>1, <2>2 DEF CtxInv
  <2> QED BY <1>2, <1>4, <2>3, StxKept DEF ExchangeInv
<1> QED BY <1>4, <1>5, <1>7, <1>8, <1>9 DEF ExchangeInv

\* The challenged request gets a new branch, the next number and credentials that are
\* shown, because the TU does not hide them.
LEMMA AuthorizeStep ==
    ASSUME ExchangeInv, Authorize
    PROVE  ExchangeInv'
<1> DEFINE new == AuthorizeRequest(call, last, fresh + 1)
<1>1. /\ uac = "challenged" /\ uac' = "made" /\ call' = new /\ edits' = MaxEdits
      /\ fresh' = fresh + 1 /\ fresh' \in 0 .. MaxFresh /\ fresh \in Nat /\ MaxEdits \in Nat
      /\ UNCHANGED <<last, session, ctx, stx, ids, net, hidden, acked>>
  BY Numbers DEF ExchangeInv, Authorize
<1>2. /\ CallOK(call) /\ Ordered(call, hidden) /\ call.method # "BYE"
      /\ "authorization" \notin hidden
  BY <1>1, ExchangeAssumption, Numbers DEF ExchangeInv, UacInv, CallInv
<1>3. /\ last \in Responses /\ last.status \in {401, 407} /\ SentOK(last) /\ ResponseOK(last)
  BY <1>1 DEF ExchangeInv, UacInv, NetInv, Responses
<1>4. /\ CallOK(new) /\ Ordered(new, hidden) /\ new.method = call.method
      /\ Via(new).branch = fresh + 1 /\ Authorized(new)
  <2>1. /\ MessageOK(last) /\ DOMAIN last.hs.map = Shown(last.hs) /\ fresh + 1 \in Nat
        /\ last.status = 401 => "www-authenticate" \in Shown(last.hs)
        /\ last.status = 407 => "proxy-authenticate" \in Shown(last.hs)
    BY <1>1, <1>3 DEF SentOK, ResponseOK
  <2> QED BY <1>2, <1>3, <2>1, AuthorizeMessage
<1> HIDE DEF new
<1>5. call' # None
  BY <1>1, <1>4, NotNone DEF CallOK
<1>6. StateInv'
  BY <1>1 DEF ExchangeInv, StateInv
<1>7. CallInv'
  BY <1>1, <1>2, <1>4 DEF CallInv
<1>8. UacInv' /\ SessionInv'
  BY <1>1, <1>5 DEF ExchangeInv, UacInv, SessionInv
<1>9. Grows /\ CallMoves
  BY <1>1, <1>4 DEF Grows, CallMoves
<1>10. NetInv' /\ BranchInv' /\ AckInv'
  BY <1>1, <1>9, SilentStep DEF ExchangeInv
<1>11. CtxInv' /\ StxInv'
  <2>1. CtxInv'
    BY <1>1 DEF ExchangeInv, CtxInv
  <2> QED BY <1>1, <2>1, StxKept DEF ExchangeInv
<1> QED BY <1>6, <1>7, <1>8, <1>10, <1>11 DEF ExchangeInv

\* The session counts a request of its dialog.
LEMMA CountedSession ==
    ASSUME SessionInv, session # None, NEW req, DialogId(req) = session.id
    PROVE  /\ Counted(req) = [session EXCEPT !.seq = session.seq + 1]
           /\ Counted(req).seq = session.seq + 1 /\ Counted(req).id = session.id
           /\ Counted(req).from = session.from /\ Counted(req).to = session.to
           /\ Counted(req) # None
           /\ Counted(req) = [kind |-> "session", id |-> session.id, seq |-> session.seq + 1,
                              from |-> session.from, to |-> session.to]
<1>1. Counted(req) = [session EXCEPT !.seq = session.seq + 1]
  BY DEF Counted
<1>2. Counted(req) = [kind |-> "session", id |-> session.id, seq |-> session.seq + 1,
                      from |-> session.from, to |-> session.to]
  BY <1>1 DEF SessionInv
<1> QED BY <1>1, <1>2 DEF None

\* The ACK has the id of the session, which counts it, and a branch of its own.
LEMMA AckOkStep ==
    ASSUME ExchangeInv, AckOk
    PROVE  ExchangeInv'
<1> DEFINE ack == AutoFill(CreateAck(last, fresh + 1), fresh + 1)
<1> PICK x : x = Wire(Rewrite(ack, "UDP"))
  OBVIOUS
<1>1. /\ uac = "answered" /\ uac' = "talking" /\ session' = Counted(ack) /\ net' = net \cup {x}
      /\ acked' = acked \cup {[ack |-> x, res |-> last]}
      /\ fresh' = fresh + 1 /\ fresh' \in 0 .. MaxFresh /\ fresh \in Nat /\ fresh + 1 \in Nat \ {0}
      /\ UNCHANGED <<call, last, ctx, stx, ids, edits, hidden>>
  BY Numbers DEF ExchangeInv, AckOk
<1>2. /\ last \in Responses /\ SentOK(last) /\ MessageOK(last) /\ From(last) # 0 /\ Via(last).cookie
      /\ session # None /\ session.seq = 1 /\ session.id = DialogId(last) /\ session.id \in ids
      /\ call # None /\ CallOK(call) /\ From(call) # 0 /\ call.method # "BYE"
  <2>1. /\ last \in Responses /\ session # None /\ session.seq = 1 /\ session.id = DialogId(last)
        /\ call # None
    BY <1>1 DEF ExchangeInv, UacInv
  <2> QED BY <1>1, <2>1 DEF ExchangeInv, NetInv, SentOK, SessionInv, CallInv, Responses
<1>3. AckFor(x, last, fresh + 1) /\ Dialog(ack) = Dialog(last)
  BY <1>1, <1>2, AckMessages
<1> HIDE DEF ack
<1>4. DialogId(ack) = session.id /\ DialogId(x) = session.id
  BY <1>2, <1>3, KeyFacts DEF AckFor
<1>5. /\ session'.seq = 2 /\ session' # None /\ session'.id = session.id
      /\ session'.from = session.from /\ session'.to = session.to
      /\ session' = [kind |-> "session", id |-> session.id, seq |-> 2,
                     from |-> session.from, to |-> session.to]
  BY <1>1, <1>2, <1>4, CountedSession DEF ExchangeInv
<1>6. StateInv'
  BY <1>1 DEF ExchangeInv, StateInv
<1>7. CallInv'
  <2>1. Via(call).branch \in Nat
    BY <1>2 DEF CallOK, MessageOK, Vias
  <2> QED BY <1>1, <1>2, <2>1 DEF ExchangeInv, CallInv
<1>8. UacInv'
  BY <1>1, <1>2, <1>5 DEF UacInv
<1>9. SessionInv'
  BY <1>1, <1>2, <1>5 DEF ExchangeInv, SessionInv
<1>10. Grows /\ CallMoves
  BY <1>1 DEF Grows, CallMoves, SameRequest
<1>11. SentOK(x)' /\ RequestOK(x)' /\ Origin(x) /\ x.kind = "request" /\ x.method = "ACK"
  <2>1. SentOK(x)' /\ RequestOK(x)' /\ Origin(x)
    BY <1>1, <1>2, <1>3, AckKept DEF ExchangeInv
  <2> QED BY <1>3, <2>1 DEF AckFor
<1>12. ASSUME NEW a, a = [ack |-> x, res |-> last] PROVE AckOK(a)'
  <2>1. a.ack = x /\ Via(x) \in Vias /\ Via(x).cookie /\ Via(x).branch = fresh + 1
    BY <1>3, <1>12 DEF AckFor, MessageOK
  <2>2. Via(call).branch # fresh + 1
    <3>1. Via(call).branch \in Nat /\ Via(call).branch <= fresh
      BY <1>2 DEF ExchangeInv, CallInv, CallOK, MessageOK, Vias
    <3> QED BY <1>1, <3>1
  <2>3. ASSUME NEW m \in Requests', m.method # "ACK" PROVE Via(m).branch # fresh + 1
    <3>1. m \in net
      BY <1>1, <1>11, <2>3 DEF Requests
    <3>2. SentOK(m)
      BY <3>1 DEF ExchangeInv, NetInv
    <3>3. Via(m).branch \in Nat /\ Via(m).branch <= fresh
      BY <3>2 DEF SentOK, MessageOK, Vias
    <3> QED BY <1>1, <3>3
  <2>4. DialogId(a.ack) \in ids'
    BY <1>1, <1>2, <1>4, <2>1
  <2> QED BY <1>1, <2>1, <2>2, <2>3, <2>4 DEF AckOK
<1>13. NetInv' /\ BranchInv' /\ AckInv'
  <2>1. /\ NetInv /\ BranchInv /\ AckInv /\ net' = net \cup {x}
    BY <1>1 DEF ExchangeInv
  <2>2. \A a \in acked' : a \in acked \/ (a.res.status < 300 => AckOK(a)')
    BY <1>1, <1>12
  <2> QED BY <1>10, <1>11, <2>1, <2>2, RequestStep
<1>14. CtxInv' /\ StxInv'
  <2>1. CtxInv'
    BY <1>1 DEF ExchangeInv, CtxInv
  <2> QED BY <1>1, <2>1, StxKept DEF ExchangeInv
<1> QED BY <1>6, <1>7, <1>8, <1>9, <1>13, <1>14 DEF ExchangeInv

\* The BYE has the id of the session, the number 2 and a branch of its own.
LEMMA ByeStep ==
    ASSUME ExchangeInv, Bye
    PROVE  ExchangeInv'
<1> DEFINE req  == InDialog("BYE", fresh + 1)
           bye  == AutoFill(req, fresh + 1)
           sent == Rewrite(bye, "UDP")
           txKey == MakeClientTxKey(bye)
<1> PICK x : x = Wire(sent)
  OBVIOUS
<1>1. /\ uac = "talking" /\ uac' = "sent" /\ session' = Counted(bye) /\ net' = net \cup {x}
      /\ ctx' = Put(ctx, txKey, "calling") /\ call' = sent
      /\ fresh' = fresh + 1 /\ fresh' \in 0 .. MaxFresh /\ fresh \in Nat /\ fresh + 1 \in Nat \ {0}
      /\ UNCHANGED <<last, stx, ids, edits, hidden, acked>>
  BY Numbers DEF ExchangeInv, Bye
<1>2. /\ session # None /\ session.seq = 2 /\ session.from \in Values \ {0}
      /\ session.to \in Values /\ session.id = <<session.from, session.to>> /\ session.id \in ids
  BY <1>1 DEF ExchangeInv, UacInv, SessionInv
<1>3. /\ MessageOK(req) /\ req.kind = "request" /\ req.method = "BYE"
      /\ Via(req) = NewVia(fresh + 1) /\ CSeq(req) = [no |-> session.seq, method |-> "BYE"]
      /\ From(req) = session.from /\ To(req) = session.to
      /\ DOMAIN req.hs.map = RequestNames /\ Shown(req.hs) = RequestNames
      /\ IsInjective(req.hs.order)
  <2>1. "BYE" \in Methods /\ fresh + 1 \in Nat /\ session.seq \in Nat
    BY <1>1, <1>2 DEF Methods
  <2> QED BY <1>2, <2>1, InDialogMessage
<1> HIDE DEF req
<1>4. CallOK(req) /\ Ordered(req, hidden) /\ Via(req).branch = fresh + 1 /\ CSeq(req).no = 2
  BY <1>2, <1>3 DEF CallOK, Ordered, LengthOK, RequestNames, Core, NewVia
<1>5. /\ CallOK(bye) /\ Ordered(bye, hidden) /\ Carries(bye, req) /\ From(bye) = session.from
  BY <1>1, <1>2, <1>3, <1>4, FilledCall
<1> HIDE DEF bye
<1>6. CallOK(sent) /\ Ordered(sent, hidden) /\ Carries(sent, bye) /\ From(sent) = From(bye)
  BY <1>5, RewrittenCall
<1> HIDE DEF sent
<1>7. CopyOf(x, sent)
  BY <1>6, WireCopy
<1>8. /\ DialogId(bye) = session.id /\ DialogId(sent) = session.id /\ MakeClientTxKey(sent) = txKey
      /\ sent.method = "BYE" /\ Via(sent).branch = fresh + 1 /\ CSeq(sent).no = 2
  <2>1. DialogId(bye) = <<From(bye), To(bye)>> /\ DialogId(sent) = <<From(sent), To(sent)>>
    BY KeyFacts DEF Dialog
  <2>2. MakeClientTxKey(sent) = txKey
    BY <1>6, KeyFacts DEF Carries
  <2> QED BY <1>2, <1>3, <1>4, <1>5, <1>6, <2>1, <2>2 DEF Carries, SameStart
<1> HIDE DEF txKey
<1>9. call' # None
  BY <1>1, <1>6, NotNone DEF CallOK
<1>10. StateInv'
  BY <1>1 DEF ExchangeInv, StateInv
<1>11. CallInv'
  BY <1>1, <1>2, <1>5, <1>6, <1>8 DEF CallInv
<1>12. /\ DOMAIN ctx' = DOMAIN ctx \cup {txKey} /\ ctx' = [k \in DOMAIN ctx' |-> ctx'[k]]
       /\ ctx'[txKey] = "calling" /\ \A k \in DOMAIN ctx \ {txKey} : ctx'[k] = ctx[k]
  BY <1>1 DEF Put
<1>13. UacInv'
  BY <1>1, <1>8, <1>9, <1>12 DEF UacInv
<1>14. SessionInv'
  <2>1. Counted(bye) = [kind |-> "session", id |-> session.id, seq |-> session.seq + 1,
                        from |-> session.from, to |-> session.to]
    BY <1>2, <1>8, CountedSession DEF ExchangeInv
  <2> QED BY <1>1, <1>2, <2>1 DEF SessionInv
<1>15. Grows /\ CallMoves
  BY <1>1, <1>8, <1>12 DEF Grows, CallMoves
<1>16. SentOK(x)' /\ RequestOK(x)'
  <2>1. /\ call' # None /\ uac' # "made" /\ fresh' \in Nat
        /\ MakeClientTxKey(call') \in DOMAIN ctx' /\ CopyOf(x, call')
    BY <1>1, <1>7, <1>8, <1>9, <1>12
  <2> QED BY <1>11, <2>1, CopySent, Zenon
<1>17. Origin(x) /\ x.kind = "request"
  BY <1>7, <1>8 DEF Origin, CopyOf, SameRequest
<1>18. NetInv' /\ BranchInv' /\ AckInv'
  <2>1. /\ NetInv /\ BranchInv /\ AckInv /\ net' = net \cup {x}
        /\ \A a \in acked' : a \in acked \/ (a.res.status < 300 => AckOK(a)')
    BY <1>1 DEF ExchangeInv
  <2> QED BY <1>15, <1>16, <1>17, <2>1, RequestStep, Zenon
<1>19. CtxInv' /\ StxInv'
  <2>1. CtxInv'
    BY <1>1, <1>8, <1>12 DEF ExchangeInv, CtxInv
  <2> QED BY <1>1, <2>1, StxKept DEF ExchangeInv
<1> QED BY <1>10, <1>11, <1>13, <1>14, <1>18, <1>19 DEF ExchangeInv

\* A message of the old peer satisfies the invariant of the network.
LEMMA OldSent ==
    ASSUME NEW method \in {"INVITE", "ACK"}, NEW to \in Values, NEW x, x = OldMessage(method, to),
           uac' = "over", fresh' \in Nat
    PROVE  SentOK(x)' /\ RequestOK(x)' /\ Origin(x) /\ x.kind = "request"
<1>1. /\ MessageOK(x) /\ x.kind = "request" /\ x.method = method
      /\ ~Via(x).cookie /\ Via(x).branch = 0
      /\ CSeq(x) = [no |-> 1, method |-> method] /\ From(x) = MaxFresh + 1
      /\ DOMAIN x.hs.map = RequestNames /\ Shown(x.hs) = RequestNames
  BY OldPeerMessage DEF Methods
<1>2. MaxFresh + 1 # 0
  BY ExchangeAssumption
<1>3. "content-length" \notin RequestNames /\ "authorization" \notin RequestNames
  BY DEF RequestNames, Core
<1>4. LengthOK(x) /\ ~Authorized(x)
  BY <1>1, <1>3 DEF LengthOK, Authorized
<1>5. SentOK(x)'
  BY <1>1, <1>2, <1>4 DEF SentOK
<1>6. RequestOK(x)'
  BY <1>1, <1>4 DEF RequestOK
<1> QED BY <1>1, <1>5, <1>6 DEF Origin

\* The old peer calls when there is no UAC.
LEMMA OldPeerStep ==
    ASSUME ExchangeInv, OldPeer
    PROVE  ExchangeInv'
<1> PICK x : x = OldRequest
  OBVIOUS
<1>1. /\ uac = "idle" /\ uac' = "over" /\ net' = net \cup {x} /\ fresh \in Nat
      /\ UNCHANGED <<call, last, session, ctx, edits, hidden, acked, stx, ids, fresh>>
  BY Numbers DEF ExchangeInv, OldPeer, uacVars
<1>2. SentOK(x)' /\ RequestOK(x)' /\ Origin(x) /\ x.kind = "request"
  BY <1>1, OldSent, ValueFacts DEF OldRequest
<1>3. StateInv' /\ CallInv' /\ UacInv' /\ SessionInv'
  BY <1>1 DEF ExchangeInv, StateInv, CallInv, UacInv, SessionInv
<1>4. Grows /\ CallMoves
  BY <1>1 DEF Grows, CallMoves, SameRequest
<1>5. NetInv' /\ BranchInv' /\ AckInv'
  <2>1. /\ NetInv /\ BranchInv /\ AckInv
        /\ \A a \in acked' : a \in acked \/ (a.res.status < 300 => AckOK(a)')
    BY <1>1 DEF ExchangeInv
  <2> QED BY <1>1, <1>2, <1>4, <2>1, RequestStep
<1>6. CtxInv' /\ StxInv'
  <2>1. CtxInv'
    BY <1>1 DEF ExchangeInv, CtxInv
  <2> QED BY <1>1, <2>1, StxKept DEF ExchangeInv
<1> QED BY <1>3, <1>5, <1>6 DEF ExchangeInv

\* Only a response without the cookie is acknowledged by the old peer.
LEMMA OldAckStep ==
    ASSUME ExchangeInv, NEW res \in net, res.kind = "response", OldAck(res)
    PROVE  ExchangeInv'
<1> PICK x : x = OldMessage("ACK", To(res))
  OBVIOUS
<1>1. /\ res.status >= 300 /\ ~Via(res).cookie /\ net' = net \cup {x} /\ fresh \in Nat
      /\ acked' = acked \cup {[ack |-> x, res |-> res]}
      /\ UNCHANGED <<uac, call, last, session, ctx, edits, hidden, stx, ids, fresh>>
  BY Numbers DEF ExchangeInv, OldAck, Via, To
<1>2. MessageOK(res) /\ uac = "over" /\ To(res) \in Values /\ res.status \in Nat
  <2>1. MessageOK(res) /\ uac = "over"
    BY <1>1 DEF ExchangeInv, NetInv, SentOK
  <2> QED BY <2>1, ValueOf DEF MessageOK
<1>3. SentOK(x)' /\ RequestOK(x)' /\ Origin(x) /\ x.kind = "request"
  BY <1>1, <1>2, OldSent
<1>4. StateInv' /\ CallInv' /\ UacInv' /\ SessionInv'
  BY <1>1, <1>2 DEF ExchangeInv, StateInv, CallInv, UacInv, SessionInv
<1>5. Grows /\ CallMoves
  BY <1>1 DEF Grows, CallMoves, SameRequest
<1>6. NetInv' /\ BranchInv' /\ AckInv'
  <2>1. /\ NetInv /\ BranchInv /\ AckInv
        /\ \A a \in acked' : a \in acked \/ (a.res.status < 300 => AckOK(a)')
    BY <1>1, <1>2 DEF ExchangeInv
  <2> QED BY <1>1, <1>3, <1>5, <2>1, RequestStep
<1>7. CtxInv' /\ StxInv'
  <2>1. CtxInv'
    BY <1>1 DEF ExchangeInv, CtxInv
  <2> QED BY <1>1, <2>1, StxKept DEF ExchangeInv
<1> QED BY <1>4, <1>6, <1>7 DEF ExchangeInv

\* A server transaction is filed under the key of its request.
LEMMA UasReceiveStep ==
    ASSUME ExchangeInv, NEW req \in net, req.kind = "request", UasReceive(req)
    PROVE  ExchangeInv'
<1> DEFINE txKey == MakeServerTxKey(req)
<1>1. /\ UNCHANGED <<uac, call, last, session, ctx, edits, hidden, acked, ids, net, fresh>>
      /\ fresh \in Nat
      /\ \/ /\ txKey \in DOMAIN stx
            /\ stx' = [stx EXCEPT ![txKey].st = "confirmed"]
         \/ /\ txKey \notin DOMAIN stx /\ req.method # "ACK"
            /\ stx' = Put(stx, txKey, [req |-> req, st |-> "trying"])
  BY Numbers DEF ExchangeInv, UasReceive, uacVars
<1>2. Requests' = Requests /\ req \in Requests
  BY <1>1 DEF Requests
<1>3. StxInv
  BY DEF ExchangeInv
<1>4. StxInv'
  <2>1. CASE txKey \in DOMAIN stx /\ stx' = [stx EXCEPT ![txKey].st = "confirmed"]
    <3>1. /\ DOMAIN stx' = DOMAIN stx /\ stx' = [k \in DOMAIN stx' |-> stx'[k]]
          /\ stx'[txKey] = [stx[txKey] EXCEPT !.st = "confirmed"]
          /\ \A k \in DOMAIN stx \ {txKey} : stx'[k] = stx[k]
      BY <1>3, <2>1 DEF StxInv
    <3>2. stx'[txKey].req = stx[txKey].req /\ stx'[txKey].st = "confirmed"
          /\ stx'[txKey] = [req |-> stx'[txKey].req, st |-> stx'[txKey].st]
      BY <1>3, <2>1, <3>1 DEF StxInv
    <3> HIDE DEF txKey
    <3> QED BY <1>2, <1>3, <2>1, <3>1, <3>2 DEF StxInv
  <2>2. CASE /\ txKey \notin DOMAIN stx /\ req.method # "ACK"
             /\ stx' = Put(stx, txKey, [req |-> req, st |-> "trying"])
    <3>1. /\ DOMAIN stx' = DOMAIN stx \cup {txKey} /\ stx' = [k \in DOMAIN stx' |-> stx'[k]]
          /\ stx'[txKey] = [req |-> req, st |-> "trying"]
          /\ \A k \in DOMAIN stx \ {txKey} : stx'[k] = stx[k]
      BY <2>2 DEF Put
    <3>2. stx'[txKey].req = req /\ stx'[txKey].st = "trying"
      BY <3>1
    <3>3. MakeServerTxKey(stx'[txKey].req) = txKey
      BY <3>2
    <3> HIDE DEF txKey
    <3> QED BY <1>2, <1>3, <2>2, <3>1, <3>2, <3>3 DEF StxInv
  <2> QED BY <1>1, <2>1, <2>2
<1>5. StateInv' /\ CallInv' /\ UacInv' /\ SessionInv' /\ CtxInv'
  BY <1>1 DEF ExchangeInv, StateInv, CallInv, UacInv, SessionInv, CtxInv, Responses
<1>6. Grows /\ CallMoves
  BY <1>1 DEF Grows, CallMoves, SameRequest
<1>7. NetInv' /\ BranchInv' /\ AckInv'
  BY <1>1, <1>6, SilentStep DEF ExchangeInv
<1> QED BY <1>4, <1>5, <1>7 DEF ExchangeInv

\* The response has both keys of its request, and a 2xx files its dialog.
LEMMA RespondStep ==
    ASSUME ExchangeInv, NEW k \in DOMAIN stx, NEW s \in Statuses(stx[k].req.method), Respond(k, s)
    PROVE  ExchangeInv'
<1> DEFINE req == stx[k].req
           res == Answer(req, s, fresh + 1)
<1>1. /\ req \in Requests /\ req.method # "ACK" /\ MakeServerTxKey(req) = k
      /\ stx[k] = [req |-> stx[k].req, st |-> stx[k].st]
      /\ SentOK(req) /\ RequestOK(req) /\ MessageOK(req) /\ From(req) # 0
  <2>1. StxInv /\ NetInv
    BY DEF ExchangeInv
  <2>2. req \in Requests /\ req.method # "ACK" /\ MakeServerTxKey(req) = k
        /\ stx[k] = [req |-> stx[k].req, st |-> stx[k].st]
    BY <2>1 DEF StxInv
  <2> QED BY <2>1, <2>2 DEF NetInv, SentOK, Requests
<1>2. s \in Nat /\ (req.method = "BYE" => s = 200)
  BY DEF Statuses
<1>3. /\ UNCHANGED <<uac, call, last, session, ctx, edits, hidden, acked>>
      /\ fresh \in Nat /\ fresh + 1 \in Nat \ {0} /\ fresh' = fresh + 1 /\ fresh' \in 0 .. MaxFresh
      /\ stx' = [stx EXCEPT ![MakeServerTxKey(res)].st = IF s < 200 THEN "ringing" ELSE "answered"]
      /\ ids' = IF req.method = "INVITE" /\ s \in 200 .. 299 THEN ids \cup {DialogId(res)} ELSE ids
      /\ net' = net \cup {Wire(res)}
  BY Numbers DEF ExchangeInv, Respond, uacVars, Answer
<1> HIDE DEF req
<1>4. AnswerOK(res, req, s)
  BY <1>1, <1>2, <1>3, AnswerMessage
<1> HIDE DEF res
<1> PICK x : x = Wire(res)
  OBVIOUS
<1>5. /\ Carries(x, res) /\ From(x) = From(res) /\ DOMAIN x.hs.map = Shown(x.hs)
      /\ Shown(x.hs) = Shown(res.hs)
  BY <1>4, WireMessage DEF AnswerOK
<1>6. MakeServerTxKey(res) = k
  BY <1>1, <1>4, KeyFacts DEF AnswerOK
<1>7. DialogId(x) = DialogId(res) /\ MakeClientTxKey(x) = MakeClientTxKey(req)
  <2>1. DialogId(x) = DialogId(res)
    BY <1>5, KeyFacts DEF Dialog, Carries
  <2>2. Via(x).branch = Via(req).branch /\ CSeq(x).method = CSeq(req).method
    BY <1>4, <1>5 DEF Carries, AnswerOK
  <2> QED BY <2>1, <2>2, KeyFacts
<1>8. x.kind = "response" /\ x.method = req.method /\ x.status = s /\ MessageOK(x) /\ LengthOK(x)
      /\ CSeq(x) = CSeq(req) /\ Via(x).branch = Via(req).branch /\ Via(x).cookie = Via(req).cookie
  BY <1>4, <1>5 DEF Carries, AnswerOK, SameStart
<1>9. SentOK(x)'
  <2>1. Via(req).branch \in Nat /\ Via(req).branch <= fresh + 1
    <3>1. Via(req).branch \in Nat
      BY <1>1 DEF MessageOK, Vias
    <3> QED BY <1>1, <1>3, <3>1 DEF SentOK
  <2> QED BY <1>1, <1>3, <1>4, <1>5, <1>8, <2>1 DEF SentOK, AnswerOK
<1>10. ResponseOK(x)'
  BY <1>1, <1>2, <1>3, <1>4, <1>5, <1>7, <1>8 DEF ResponseOK, RequestOK, AnswerOK
<1>11. Grows /\ CallMoves
  BY <1>3 DEF Grows, CallMoves, SameRequest
<1>12. NetInv' /\ BranchInv' /\ AckInv'
  <2>1. NetInv /\ BranchInv /\ AckInv /\ net' = net \cup {x} /\ acked' = acked
    BY <1>3 DEF ExchangeInv
  <2> QED BY <1>8, <1>9, <1>10, <1>11, <2>1, ResponseStep
<1>13. StxInv'
  <2> DEFINE st == IF s < 200 THEN "ringing" ELSE "answered"
  <2>1. StxInv /\ stx' = [stx EXCEPT ![k].st = st] /\ st \in {"ringing", "answered"}
    BY <1>3, <1>6 DEF ExchangeInv
  <2> HIDE DEF st
  <2>2. /\ DOMAIN stx' = DOMAIN stx /\ stx' = [j \in DOMAIN stx' |-> stx'[j]]
        /\ stx'[k] = [stx[k] EXCEPT !.st = st] /\ \A j \in DOMAIN stx \ {k} : stx'[j] = stx[j]
    BY <2>1 DEF StxInv
  <2>3. stx'[k].req = stx[k].req /\ stx'[k].st = st
        /\ stx'[k] = [req |-> stx'[k].req, st |-> stx'[k].st]
    BY <1>1, <2>2
  <2>4. Requests \subseteq Requests'
    BY <1>3 DEF Requests
  <2> QED BY <2>1, <2>2, <2>3, <2>4 DEF StxInv
<1>14. StateInv' /\ CallInv' /\ UacInv' /\ CtxInv'
  <2>1. ids \subseteq ids' /\ Responses \subseteq Responses'
    BY <1>3 DEF Responses
  <2>2. StateInv' /\ UacInv' /\ CtxInv'
    BY <1>3, <2>1 DEF ExchangeInv, StateInv, UacInv, CtxInv
  <2>3. CallInv'
    <3>1. call # None => Via(call).branch \in Nat
      BY DEF ExchangeInv, CallInv, CallOK, MessageOK, Vias
    <3> QED BY <1>3, <2>1, <3>1 DEF ExchangeInv, CallInv
  <2> QED BY <2>2, <2>3
<1>15. SessionInv'
  BY <1>3, SessionKept DEF ExchangeInv
<1> QED BY <1>12, <1>13, <1>14, <1>15 DEF ExchangeInv

-----------------------------------------------------------------------------
(* The theorems.                                                           *)

\* Nothing happens.
LEMMA StutterStep ==
    ASSUME ExchangeInv, UNCHANGED exchangeVars
    PROVE  ExchangeInv'
<1>1. UNCHANGED <<uac, call, last, session, ctx, stx, ids, net, fresh, edits, hidden, acked>>
  BY DEF exchangeVars
<1>2. StateInv' /\ CallInv' /\ UacInv' /\ SessionInv' /\ CtxInv'
  BY <1>1 DEF ExchangeInv, StateInv, CallInv, UacInv, SessionInv, CtxInv, Responses
<1>3. Grows /\ CallMoves
  BY <1>1, Numbers DEF ExchangeInv, Grows, CallMoves, SameRequest
<1>4. NetInv' /\ BranchInv' /\ AckInv' /\ StxInv'
  BY <1>1, <1>3, SilentStep, StxKept DEF ExchangeInv
<1> QED BY <1>2, <1>4 DEF ExchangeInv

\* The inductive invariant: headers in order, fresh branches, one busy client
\* transaction, one dialog.
THEOREM ExchangeInductive == ExchangeSpec => []ExchangeInv
<1>1. ExchangeInit => ExchangeInv
  BY InitStep
<1>2. ExchangeInv /\ [ExchangeNext]_exchangeVars => ExchangeInv'
  <2> SUFFICES ASSUME ExchangeInv, [ExchangeNext]_exchangeVars PROVE ExchangeInv'
    OBVIOUS
  <2>1. ASSUME NEW m \in {"INVITE", "REGISTER"}, Make(m) PROVE ExchangeInv'
    BY <2>1, MakeStep
  <2>2. ASSUME NEW n \in EditNames, Edit(n) PROVE ExchangeInv'
    BY <2>2, EditStep
  <2>3. ASSUME NEW len \in 0 .. MaxBody, EditBody(len) PROVE ExchangeInv'
    BY <2>3, EditBodyStep
  <2>4. CASE UacSend
    BY <2>4, UacSendStep
  <2>5. CASE Resend
    BY <2>5, ResendStep
  <2>6. CASE Authorize
    BY <2>6, AuthorizeStep
  <2>7. CASE AckOk
    BY <2>7, AckOkStep
  <2>8. CASE Bye
    BY <2>8, ByeStep
  <2>9. CASE OldPeer
    BY <2>9, OldPeerStep
  <2>10. ASSUME NEW m \in net, m.kind = "response", UacReceive(m) PROVE ExchangeInv'
    BY <2>10, UacReceiveStep
  <2>11. ASSUME NEW m \in net, m.kind = "response", OldAck(m) PROVE ExchangeInv'
    BY <2>11, OldAckStep
  <2>12. ASSUME NEW m \in net, m.kind = "request", UasReceive(m) PROVE ExchangeInv'
    BY <2>12, UasReceiveStep
  <2>13. ASSUME NEW k \in DOMAIN stx, NEW s \in Statuses(stx[k].req.method), Respond(k, s)
         PROVE  ExchangeInv'
    BY <2>13, RespondStep
  <2>14. CASE UNCHANGED exchangeVars
    BY <2>14, StutterStep
  <2> QED BY <2>1, <2>2, <2>3, <2>4, <2>5, <2>6, <2>7, <2>8, <2>9, <2>10, <2>11, <2>12,
             <2>13, <2>14, Zenon DEF ExchangeNext
<1> QED BY <1>1, <1>2, PTL DEF ExchangeSpec

\* Messages are well formed however they were built and edited: the order and the
\* map of headers.go stay in step, every Content-Length sent is that of the body.
THEOREM MessagesWellFormed == ExchangeSpec => []WellFormed
<1>1. ExchangeInv => WellFormed
  <2> SUFFICES ASSUME ExchangeInv PROVE WellFormed
    OBVIOUS
  <2>1. ASSUME NEW m, MessageOK(m)
        PROVE  /\ m.kind \in {"request", "response"}
               /\ \A n \in DOMAIN m.hs.map : m.hs.map[n] # <<>>
               /\ ToSet(m.hs.order) \subseteq DOMAIN m.hs.map
    <3>1. m.kind \in {"request", "response"} /\ Shown(m.hs) \subseteq DOMAIN m.hs.map
          /\ \A n \in DOMAIN m.hs.map : m.hs.map[n] \in Lists
      BY <2>1, ListFacts DEF MessageOK
    <3> QED BY <3>1 DEF Shown, Lists
  <2>2. \A m \in net \cup ({call} \ {None}) : MessageOK(m)
    BY DEF ExchangeInv, NetInv, SentOK, CallInv, CallOK
  <2>3. MessagesTyped
    <3>1. \A m \in net \cup ({call} \ {None}) :
            /\ m.kind \in {"request", "response"}
            /\ \A n \in DOMAIN m.hs.map : m.hs.map[n] # <<>>
            /\ ToSet(m.hs.order) \subseteq DOMAIN m.hs.map
      BY <2>1, <2>2
    <3>2. /\ \A k \in DOMAIN ctx : ctx[k] \in {"calling", "done"}
          /\ \A k \in DOMAIN stx : stx[k].st \in {"trying", "ringing", "answered", "confirmed"}
      BY DEF ExchangeInv, CtxInv, StxInv
    <3> QED BY <3>1, <3>2 DEF ExchangeInv, StateInv, MessagesTyped
  <2>4. HeadersShown
    BY DEF ExchangeInv, CallInv, Ordered, HeadersShown, Shown
  <2>5. LengthMatches
    BY DEF ExchangeInv, NetInv, SentOK, LengthOK, LengthMatches, Has
  <2> QED BY <2>3, <2>4, <2>5 DEF WellFormed
<1> QED BY <1>1, ExchangeInductive, PTL

\* A transaction txKey names one request, its copies and its answers: tx.go finds
\* both transactions of an answer again, and no request of another branch.
THEOREM KeysAreUnique == ExchangeSpec => []KeysIdentify
<1>1. ExchangeInv => KeysIdentify
  <2> SUFFICES ASSUME ExchangeInv PROVE KeysIdentify
    OBVIOUS
  <2>1. ResponseFindsTx
    <3>1. ASSUME NEW k \in DOMAIN stx, NEW s \in {100, 200}
          PROVE  MakeServerTxKey(CreateResponse(stx[k].req, s, fresh + 1)) = k
      <4>1. MessageOK(stx[k].req) /\ MakeServerTxKey(stx[k].req) = k /\ fresh + 1 \in Nat
        BY Numbers DEF ExchangeInv, StxInv, NetInv, SentOK, Requests
      <4>2. s \in Nat
        OBVIOUS
      <4> QED BY <4>1, <4>2, ResponseKey
    <3>2. \A m \in Responses : Via(m).cookie => MakeClientTxKey(m) \in DOMAIN ctx
      BY DEF ExchangeInv, NetInv, ResponseOK
    <3> QED BY <3>1, <3>2 DEF ResponseFindsTx, Via
  <2>2. ASSUME NEW m \in Requests, NEW n \in Requests, MakeServerTxKey(m) = MakeServerTxKey(n)
        PROVE  /\ First(m.hs, "cseq").no = First(n.hs, "cseq").no
               /\ Has(m.hs, "authorization") = Has(n.hs, "authorization")
    <3>1. SentOK(m) /\ SentOK(n) /\ RequestOK(m) /\ RequestOK(n) /\ MessageOK(m) /\ MessageOK(n)
      BY DEF ExchangeInv, NetInv, SentOK, Requests
    <3>2. /\ Via(m).cookie = Via(n).cookie
          /\ Via(m).cookie => Via(m).branch = Via(n).branch
      BY <2>2, <3>1, ServerKeys DEF MessageOK
    <3>3. CSeq(m).no = CSeq(n).no /\ (Authorized(m) <=> Authorized(n))
      BY <3>1, <3>2 DEF ExchangeInv, BranchInv, RequestOK
    <3> QED BY <3>1, <3>3 DEF CSeq, Has, Authorized, SentOK
  <2> QED BY <2>1, <2>2 DEF KeysIdentify, OneRequestPerBranch
<1> QED BY <1>1, ExchangeInductive, PTL

\* Both ends file the dialog under one id, the BYE has a number of its own, and the
\* ACK of a 2xx is nobody's retransmission.
THEOREM DialogsAgree == ExchangeSpec => []DialogAgrees
<1>1. ExchangeInv => DialogAgrees
  <2> SUFFICES ASSUME ExchangeInv PROVE DialogAgrees
    OBVIOUS
  <2>1. OneDialog
    <3>1. session # None => session.id \in ids
      BY DEF ExchangeInv, SessionInv
    <3>2. \A m \in Requests : m.method = "BYE" => DialogId(m) \in ids
      BY DEF ExchangeInv, NetInv, RequestOK
    <3>3. \A a \in acked : a.res.status < 300 => DialogId(a.ack) \in ids
      BY DEF ExchangeInv, AckInv, AckOK
    <3> QED BY <3>1, <3>2, <3>3 DEF OneDialog
  <2>2. ByeNumber
    <3> SUFFICES ASSUME NEW bye \in Requests, bye.method = "BYE", NEW inv \in Requests,
                        inv.method = "INVITE", ~Has(inv.hs, "authorization")
                 PROVE  CSeq(bye).no > CSeq(inv).no
      BY DEF ByeNumber, CSeq
    <3>1. RequestOK(bye) /\ RequestOK(inv) /\ SentOK(inv)
      BY DEF ExchangeInv, NetInv, Requests
    <3>2. CSeq(bye).no = 2
      BY <3>1 DEF RequestOK
    <3>3. CSeq(inv).no = 1
      BY <3>1 DEF RequestOK, Authorized, Has, SentOK
    <3> QED BY <3>2, <3>3
  <2>3. OkAckIsSeparate
    <3> SUFFICES ASSUME NEW a \in acked, a.res.status < 300, MakeServerTxKey(a.ack) \in DOMAIN stx
                 PROVE  FALSE
      BY DEF OkAckIsSeparate
    <3> DEFINE k == MakeServerTxKey(a.ack)
               req == stx[k].req
    <3>1. AckOK(a) /\ req \in Requests /\ req.method # "ACK" /\ MakeServerTxKey(req) = k
      BY DEF ExchangeInv, AckInv, StxInv
    <3> HIDE DEF req
    <3>2. MessageOK(req) /\ Via(a.ack) \in Vias /\ Via(a.ack).cookie
      BY <3>1 DEF ExchangeInv, NetInv, SentOK, Requests, AckOK
    <3>3. Via(req).cookie /\ Via(req).branch = Via(a.ack).branch
      BY <3>1, <3>2, ServerKeys DEF MessageOK
    <3> QED BY <3>1, <3>3 DEF AckOK
  <2> QED BY <2>1, <2>2, <2>3 DEF DialogAgrees
<1> QED BY <1>1, ExchangeInductive, PTL

=============================================================================
