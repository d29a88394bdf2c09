------------------------------ MODULE TxLayer ------------------------------
(***************************************************************************)
(* The transaction layer (src/transaction/transaction.go) and its pool     *)
(* (tx_pool.go): every message of the transport is handled by a goroutine  *)
(* of its own, which looks a transaction up, and creates one if there is   *)
(* none; every transaction is served by a goroutine that drops it from the *)
(* pool when it ends; Close cancels all of it, and the listener closes the *)
(* layer's channels when the serving goroutines are gone.                  *)
(* A transaction itself is abstract here (ClientTx, ServerTx): it is       *)
(* created, initialised, and ends on its own or by Close.                  *)
(***************************************************************************)
EXTENDS Naturals, FiniteSets

CONSTANTS Handlers,  \* goroutines of handleMessage, one message each
          Senders,   \* TU goroutines that send one request each
          Keys,      \* keys of server transactions
          NoTx       \* no entry in the pool

ASSUME TxLayerAssumption ==
    /\ NoTx \notin Handlers \cup Senders
    /\ Handlers \cap Senders = {} /\ Keys \cap Senders = {}

VARIABLES
    canceled,  \* the layer's canceled channel is closed
    listener,  \* listenMessages: "loop", "wait" (for txWg), "closed"
    wg,        \* txWg: serving goroutines that have not called Done
    pool,      \* the transaction pool: key -> the goroutine that created the tx
    tx,        \* life of the transaction each goroutine creates
    serve,     \* serveTransaction of that transaction
    fwd,       \* the goroutine serveTransaction starts to forward its messages
    items,     \* messages the transaction has for the forwarder
    hpc,       \* progress of each handler
    kind,      \* kind of the message of each handler
    key,       \* its transaction key; a client key is its sender
    spc,       \* progress of each sender
    late,      \* transactions served only after the channels were closed
    proc       \* "up", or the panic that took the process down

vars == <<canceled, listener, wg, pool, tx, serve, fwd, items, hpc, kind, key, spc,
          late, proc>>

Txs   == Handlers \cup Senders
Kinds == {"request", "ack", "cancel", "response"}

\* The key a transaction is stored under.
KeyOf(x) == IF x \in Senders THEN x ELSE key[x]

Init ==
    /\ canceled = FALSE /\ listener = "loop" /\ wg = 0
    /\ pool = [k \in Keys \cup Senders |-> NoTx]
    /\ tx = [x \in Txs |-> "none"]
    /\ serve = [x \in Txs |-> "none"]
    /\ fwd = [x \in Txs |-> "none"]
    /\ items = [x \in Txs |-> 0]
    /\ hpc = [h \in Handlers |-> "none"]
    /\ kind = [h \in Handlers |-> "request"]
    /\ key \in [Handlers -> Keys]
    /\ spc = [s \in Senders |-> "none"]
    /\ late = {}
    /\ proc = "up"

Running == proc = "up"
Closed  == listener = "closed"

Step(h, pc) == hpc' = [hpc EXCEPT ![h] = pc]

layerVars == <<canceled, listener>>
msgVars   == <<kind, key>>
serveVars == <<wg, serve, fwd, late>>
txVars    == <<pool, tx, items>>

-----------------------------------------------------------------------------
(* listenMessages.                                                         *)

\* A message arrives: "go txl.handleMessage(msg)".  A response can only come
\* back for a request that was sent.
Arrive(h, kd, k) ==
    /\ Running /\ listener = "loop" /\ hpc[h] = "none"
    /\ IF kd = "response" THEN k \in Senders /\ tx[k] \in {"live", "ended"}
                          ELSE k \in Keys
    /\ Step(h, "start")
    /\ kind' = [kind EXCEPT ![h] = kd]
    /\ key' = [key EXCEPT ![h] = k]
    /\ UNCHANGED <<layerVars, serveVars, txVars, spc, proc>>

\* The loop ends, and the deferred function waits for the serving goroutines
\* before it closes requests, responses, errs and done.
StopListening ==
    /\ Running /\ listener = "loop" /\ canceled
    /\ listener' = "wait"
    /\ UNCHANGED <<canceled, serveVars, txVars, hpc, msgVars, spc, proc>>

\* Mutant of CloseChannels: it does not wait for the serving goroutines.
CloseChannels_NoWait ==
    /\ Running /\ listener = "wait"
    /\ listener' = "closed"
    /\ UNCHANGED <<canceled, serveVars, txVars, hpc, msgVars, spc, proc>>

CloseChannels ==
    /\ Running /\ listener = "wait" /\ wg = 0
    /\ listener' = "closed"
    /\ UNCHANGED <<canceled, serveVars, txVars, hpc, msgVars, spc, proc>>

Cancel ==
    /\ Running /\ ~canceled
    /\ canceled' = TRUE
    /\ UNCHANGED <<listener, serveVars, txVars, hpc, msgVars, spc, proc>>

-----------------------------------------------------------------------------
(* handleMessage, handleRequest and handleResponse.                        *)

\* The checks of canceled at the top of the handlers.
HandleStart(h) ==
    /\ Running /\ hpc[h] = "start"
    /\ Step(h, IF canceled THEN "end" ELSE "match")
    /\ UNCHANGED <<layerVars, serveVars, txVars, msgVars, spc, proc>>

\* A transaction is found: Receive.  It may have a message for the TU (an ACK,
\* a CANCEL, a response).  A server transaction that is in the pool but not
\* initialised has no FSM yet, and Receive panics.
Match(h) ==
    /\ Running /\ hpc[h] = "match" /\ pool[key[h]] # NoTx
    /\ LET x == pool[key[h]] IN
         IF tx[x] = "created" /\ kind[h] # "response"
         THEN proc' = "nilFSM" /\ UNCHANGED <<hpc, items>>
         ELSE /\ Step(h, "end") /\ UNCHANGED proc
              /\ \/ UNCHANGED items
                 \/ /\ kind[h] # "request" /\ tx[x] = "live"
                    /\ items' = [items EXCEPT ![x] = @ + 1]
    /\ UNCHANGED <<layerVars, serveVars, pool, tx, msgVars, spc>>

\* No transaction: an ACK or a response goes to the TU, a CANCEL is answered
\* with 481, a request gets a transaction of its own.
NoMatch(h) ==
    /\ Running /\ hpc[h] = "match" /\ pool[key[h]] = NoTx
    /\ Step(h, [request |-> "create", ack |-> "passOther", response |-> "passOther",
                cancel |-> "end"][kind[h]])
    /\ UNCHANGED <<layerVars, serveVars, txVars, msgVars, spc, proc>>

\* select { <-canceled; requests <- req }: when the channel is closed the send
\* may still be chosen, and panics.  The TU is always ready to receive.
PassOther(h) ==
    /\ Running /\ hpc[h] = "passOther"
    /\ \/ (canceled \/ ~Closed) /\ Step(h, "end") /\ UNCHANGED proc
       \/ Closed /\ proc' = "sendOnClosed" /\ UNCHANGED hpc
    /\ UNCHANGED <<layerVars, serveVars, txVars, msgVars, spc>>

Create(h) ==
    /\ Running /\ hpc[h] = "create"
    /\ pool' = [pool EXCEPT ![key[h]] = h]
    /\ tx' = [tx EXCEPT ![h] = "created"]
    /\ Step(h, "init")
    /\ UNCHANGED <<layerVars, serveVars, items, msgVars, spc, proc>>

InitTx(h) ==
    /\ Running /\ hpc[h] = "init"
    /\ tx' = [tx EXCEPT ![h] = "live"]
    /\ Step(h, "check")
    /\ UNCHANGED <<layerVars, serveVars, pool, items, msgVars, spc, proc>>

CheckCanceled(h) ==
    /\ Running /\ hpc[h] = "check"
    /\ Step(h, IF canceled THEN "end" ELSE "serve")
    /\ UNCHANGED <<layerVars, serveVars, txVars, msgVars, spc, proc>>

\* txWg.Add(1); go serveTransaction(tx), which starts the forwarder.
StartServing(x) ==
    /\ wg' = wg + 1
    /\ serve' = [serve EXCEPT ![x] = "running"]
    /\ fwd' = [fwd EXCEPT ![x] = "reading"]
    /\ late' = IF Closed THEN late \cup {x} ELSE late

Serve(h) ==
    /\ Running /\ hpc[h] = "serve"
    /\ StartServing(h)
    /\ Step(h, "passUp")
    /\ UNCHANGED <<layerVars, txVars, msgVars, spc, proc>>

PassUp(h) ==
    /\ Running /\ hpc[h] = "passUp"
    /\ \/ (canceled \/ ~Closed) /\ Step(h, "end") /\ UNCHANGED proc
       \/ Closed /\ proc' = "sendOnClosed" /\ UNCHANGED hpc
    /\ UNCHANGED <<layerVars, serveVars, txVars, msgVars, spc>>

-----------------------------------------------------------------------------
(* sendRequest: the client transaction is put in the pool, initialised (the *)
(* request is sent, or Init fails and the entry stays), then served.        *)

SendPut(s) ==
    /\ Running /\ spc[s] = "none"
    /\ IF canceled
       THEN spc' = [spc EXCEPT ![s] = "err"] /\ UNCHANGED <<pool, tx>>
       ELSE /\ spc' = [spc EXCEPT ![s] = "init"]
            /\ pool' = [pool EXCEPT ![s] = s]
            /\ tx' = [tx EXCEPT ![s] = "created"]
    /\ UNCHANGED <<layerVars, serveVars, items, hpc, msgVars, proc>>

\* Init: the request is on the wire, and responses may come, before it returns.
SendInit(s) ==
    /\ Running /\ spc[s] = "init"
    /\ \/ /\ spc' = [spc EXCEPT ![s] = "sent"]
          /\ tx' = [tx EXCEPT ![s] = "live"]
       \/ /\ spc' = [spc EXCEPT ![s] = "err"]
          /\ tx' = [tx EXCEPT ![s] = "ended"]
    /\ UNCHANGED <<layerVars, serveVars, pool, items, hpc, msgVars, proc>>

\* The end of Init: it returns tx.lastErr, which a failed ACK may have set.
SendReturn(s) ==
    /\ Running /\ spc[s] = "sent"
    /\ spc' \in {[spc EXCEPT ![s] = pc] : pc \in {"serve", "err"}}
    /\ UNCHANGED <<layerVars, serveVars, txVars, hpc, msgVars, proc>>

SendServe(s) ==
    /\ Running /\ spc[s] = "serve"
    /\ spc' = [spc EXCEPT ![s] = "ok"]
    /\ StartServing(s)
    /\ UNCHANGED <<layerVars, txVars, hpc, msgVars, proc>>

-----------------------------------------------------------------------------
(* A transaction, and serveTransaction.                                    *)

\* The FSM deletes the transaction: Done and its message channel are closed.
TxEnds(x) ==
    /\ Running /\ tx[x] = "live"
    /\ tx' = [tx EXCEPT ![x] = "ended"]
    /\ UNCHANGED <<layerVars, serveVars, pool, items, hpc, msgVars, spc, proc>>

\* Mutants of ServeEnds: the transaction is not closed; canceled is ignored.
ServeEnds_NoClose(x) ==
    /\ Running /\ serve[x] = "running" /\ (canceled \/ tx[x] = "ended")
    /\ serve' = [serve EXCEPT ![x] = "dropping"]
    /\ UNCHANGED <<layerVars, wg, fwd, late, txVars, hpc, msgVars, spc, proc>>

ServeEnds_NoCancel(x) ==
    /\ Running /\ serve[x] = "running" /\ tx[x] = "ended"
    /\ serve' = [serve EXCEPT ![x] = "dropping"]
    /\ UNCHANGED <<layerVars, wg, fwd, late, txVars, hpc, msgVars, spc, proc>>

\* select { <-canceled: tx.Close(); <-tx.Done() }.
ServeEnds(x) ==
    /\ Running /\ serve[x] = "running" /\ (canceled \/ tx[x] = "ended")
    /\ tx' = [tx EXCEPT ![x] = "ended"]
    /\ serve' = [serve EXCEPT ![x] = "dropping"]
    /\ UNCHANGED <<layerVars, wg, fwd, late, pool, items, hpc, msgVars, spc, proc>>

\* Mutant of ServeDrop: a transaction that ended is left in the pool.
ServeDrop_Keeps(x) ==
    /\ Running /\ serve[x] = "dropping"
    /\ serve' = [serve EXCEPT ![x] = "dropped"]
    /\ UNCHANGED <<layerVars, wg, fwd, late, txVars, hpc, msgVars, spc, proc>>

\* transactions.drop(tx.Key()): whatever is stored under the key.
ServeDrop(x) ==
    /\ Running /\ serve[x] = "dropping"
    /\ pool' = [pool EXCEPT ![KeyOf(x)] = NoTx]
    /\ serve' = [serve EXCEPT ![x] = "dropped"]
    /\ UNCHANGED <<layerVars, wg, fwd, late, tx, items, hpc, msgVars, spc, proc>>

ServeDone(x) ==
    /\ Running /\ serve[x] = "dropped"
    /\ wg' = wg - 1
    /\ serve' = [serve EXCEPT ![x] = "gone"]
    /\ UNCHANGED <<layerVars, fwd, late, txVars, hpc, msgVars, spc, proc>>

\* The forwarder takes a message, or finds the channel closed and drained.
ForwardRead(x) ==
    /\ Running /\ fwd[x] = "reading"
    /\ \/ /\ items[x] > 0
          /\ items' = [items EXCEPT ![x] = @ - 1]
          /\ fwd' = [fwd EXCEPT ![x] = "sending"]
       \/ /\ items[x] = 0 /\ tx[x] = "ended"
          /\ fwd' = [fwd EXCEPT ![x] = "gone"]
          /\ UNCHANGED items
    /\ UNCHANGED <<layerVars, wg, serve, late, pool, tx, hpc, msgVars, spc, proc>>

\* "txl.requests <- res": no select around it.
ForwardSend(x) ==
    /\ Running /\ fwd[x] = "sending"
    /\ IF Closed THEN proc' = "sendOnClosed" /\ UNCHANGED fwd
                 ELSE fwd' = [fwd EXCEPT ![x] = "reading"] /\ UNCHANGED proc
    /\ UNCHANGED <<layerVars, wg, serve, late, txVars, hpc, msgVars, spc>>

-----------------------------------------------------------------------------
Handle(h) == \/ HandleStart(h) \/ Match(h) \/ NoMatch(h) \/ PassOther(h) \/ Create(h)
             \/ InitTx(h) \/ CheckCanceled(h) \/ Serve(h) \/ PassUp(h)

Send(s) == SendPut(s) \/ SendInit(s) \/ SendReturn(s) \/ SendServe(s)

ServeSteps(x) == ServeEnds(x) \/ ServeDrop(x) \/ ServeDone(x)

Next ==
    \/ \E h \in Handlers, kd \in Kinds, k \in Keys \cup Senders : Arrive(h, kd, k)
    \/ StopListening \/ CloseChannels \/ Cancel
    \/ \E h \in Handlers : Handle(h)
    \/ \E s \in Senders : Send(s)
    \/ \E x \in Txs : TxEnds(x) \/ ServeSteps(x) \/ ForwardRead(x) \/ ForwardSend(x)

\* The listener, the handlers, the serving goroutines and a sendRequest that
\* began run; nothing obliges a transaction to end, the TU to send or anybody to
\* call Close.
Fairness ==
    /\ WF_vars(StopListening) /\ WF_vars(CloseChannels)
    /\ \A h \in Handlers : WF_vars(Handle(h))
    /\ \A x \in Txs : WF_vars(ServeSteps(x))
    /\ \A s \in Senders : WF_vars(SendReturn(s)) /\ WF_vars(SendServe(s))

Spec == Init /\ [][Next]_vars /\ Fairness

-----------------------------------------------------------------------------
(* Properties.                                                             *)

\* The type invariant.
TypeOK ==
    /\ canceled \in BOOLEAN /\ listener \in {"loop", "wait", "closed"}
    /\ wg \in Nat
    /\ pool \in [Keys \cup Senders -> Txs \cup {NoTx}]
    /\ tx \in [Txs -> {"none", "created", "live", "ended"}]
    /\ serve \in [Txs -> {"none", "running", "dropping", "dropped", "gone"}]
    /\ fwd \in [Txs -> {"none", "reading", "sending", "gone"}]
    /\ items \in [Txs -> Nat]
    /\ hpc \in [Handlers -> {"none", "start", "match", "passOther", "create", "init",
                             "check", "serve", "passUp", "end"}]
    /\ kind \in [Handlers -> Kinds]
    /\ key \in [Handlers -> Keys \cup Senders]
    /\ spc \in [Senders -> {"none", "init", "sent", "serve", "ok", "err"}]
    /\ late \subseteq Txs
    /\ proc \in {"up", "nilFSM", "sendOnClosed"}

\* A live transaction stays in the pool, where retransmissions, ACKs and
\* CANCELs find it, unless another copy of its request was handled at the same
\* time and replaced or dropped the entry.
LiveIsMatchable ==
    \A x \in Txs : tx[x] \in {"created", "live"} =>
      \/ pool[KeyOf(x)] = x
      \/ \E y \in Handlers \ {x} : key[y] = KeyOf(x) /\ tx[y] # "none"

\* No entry outlives its transaction's serving goroutine, so a late message
\* is never given to a transaction that is gone.
NoStaleEntry ==
    \A x \in Txs : serve[x] \in {"dropped", "gone"} => pool[KeyOf(x)] # x

\* The types, with a wait group that never goes below zero, and no entry of a
\* transaction that is gone.
PoolSound == TypeOK /\ NoStaleEntry

\* When the layer's channels are closed every serving goroutine has dropped its
\* transaction, except those a handler started after that, having checked
\* canceled before.
ClosedAfterServing ==
    Closed => \A x \in Txs : serve[x] \in {"none", "gone"} \/ x \in late

\* Close completes: after a cancel the layer's Done channel is closed, or the
\* process has panicked.
CancelCompletes == canceled ~> (Closed \/ ~Running)

\* The creator of x returned without starting a goroutine that serves it: Init
\* failed (sendRequest), or the layer was canceled meanwhile (handleRequest).
NeverServed(x) == /\ serve[x] = "none"
                  /\ IF x \in Senders THEN spc[x] = "err" ELSE hpc[x] = "end"

\* The entry of a transaction that ended leaves the pool, however the transaction
\* ended and whoever else used its key; the exception is the entry of one that is
\* never served, which sendRequest and handleRequest leave behind when they
\* return early.
EndedLeavesPool ==
    \A x \in Txs : tx[x] = "ended" ~> (pool[KeyOf(x)] # x \/ NeverServed(x) \/ ~Running)

=============================================================================
