--------------------------- MODULE ConnPoolProofs ---------------------------
(***************************************************************************)
(* Proofs about ConnPool, for any set of connections, any keys, with and   *)
(* without an expiry.                                                      *)
(***************************************************************************)
EXTENDS ConnPool, FiniteSetTheorems, TLAPS

-----------------------------------------------------------------------------
(* The inductive invariant.                                                *)

\* Put has stored the handler of c.
Stored(c) == put[c] \in {"serve", "ok"}

\* Another connection was stored under the key of c.
Rivaled(c) == \E d \in Conns \ {c} : key[d] = key[c] /\ Stored(d)

\* The goroutines of a handler start with the last step of its Put; a handler
\* is late only when it was stored.
PutInv ==
    \A c \in Conns :
      /\ put[c] # "ok" => srv[c] = "none" /\ rdr[c] = "none"
      /\ ~Stored(c) => late[c] = "no"
      /\ late[c] = "served" => put[c] = "ok"

\* The reader ends only after it closed the handler, the server only after
\* somebody closed it.
CloseInv ==
    \A c \in Conns :
      /\ rdr[c] \in {"stop", "gone"} => closed[c]
      /\ srv[c] = "gone" => closed[c]

\* An entry is a stored handler, under its own key; so is the one Del closed.
EntryInv ==
    /\ \A k \in Keys : handleMap[k] # NoConn =>
         key[handleMap[k]] = k /\ Stored(handleMap[k])
    /\ del # NoConn => closed[del] /\ Stored(del)

\* A stored handler that is open has its entry, until another connection is
\* stored under its key; after delAll only a late one is still open.
OpenInv ==
    \A c \in Conns : Stored(c) /\ ~closed[c] /\ ~Rivaled(c) =>
      /\ handleMap[key[c]] = c
      /\ listener \in {"wait", "done"} => late[c] # "no"

\* handleWg counts the servers.
Servers  == {c \in Conns : Serving(c)}
CountInv == IsFiniteSet(Servers) /\ wg = Cardinality(Servers)

IInv == /\ TypeOK /\ PutInv /\ CloseInv /\ EntryInv /\ OpenInv /\ CountInv
        /\ ClosedAfterHandlers

\* An empty pool satisfies the invariant.
LEMMA InitInv == Init => IInv
<1> SUFFICES ASSUME Init PROVE IInv
  OBVIOUS
<1> USE ConnPoolAssumption DEF Init, Stored
<1>1. TypeOK
  BY DEF TypeOK
<1>2. PutInv /\ CloseInv /\ EntryInv /\ OpenInv
  BY DEF PutInv, CloseInv, EntryInv, OpenInv
<1>3. CountInv
  <2>1. Servers = {}
    BY DEF Servers, Serving, Passing
  <2> QED BY <2>1, FS_EmptySet DEF CountInv
<1>4. ClosedAfterHandlers
  BY DEF ClosedAfterHandlers, Released, Running
<1> QED BY <1>1, <1>2, <1>3, <1>4 DEF IInv

-----------------------------------------------------------------------------
(* Types and goroutines.                                                   *)

\* Every step keeps the types; handleWg.Done never takes the wait group below
\* zero, since it counts the server that calls it.
LEMMA TypeStep == IInv /\ [Next]_vars => TypeOK'
<1> SUFFICES ASSUME IInv, [Next]_vars PROVE TypeOK'
  OBVIOUS
<1> USE ConnPoolAssumption DEF IInv, TypeOK, poolVars, putVars, timeVars
<1>1. ASSUME NEW c \in Conns, Put(c) PROVE TypeOK'
  <2>1. CASE PutCheck(c) \/ PutGet(c)
    BY <2>1 DEF PutCheck, PutGet
  <2>2. CASE PutSet(c)
    BY <2>2 DEF PutSet
  <2>3. CASE PutServe(c)
    BY <2>3 DEF PutServe
  <2> QED BY <1>1, <2>1, <2>2, <2>3 DEF Put
<1>2. ASSUME NEW c \in Conns, ServerSteps(c) PROVE TypeOK'
  <2>1. CASE ServerCanceled(c) \/ ServerEOF(c)
    <3>1. c \in Servers
      BY <2>1 DEF ServerCanceled, ServerEOF, Servers, Serving
    <3>2. wg - 1 \in Nat
      BY <3>1, FS_EmptySet DEF CountInv
    <3> QED BY <2>1, <3>2 DEF ServerCanceled, ServerEOF, ServerStops
  <2>2. CASE ServerExpiry(c)
    BY <2>2 DEF ServerExpiry, Passing
  <2>3. CASE ServerPasses(c)
    BY <2>3 DEF ServerPasses
  <2>4. CASE ServerPanics(c)
    BY <2>4 DEF ServerPanics
  <2> QED BY <1>2, <2>1, <2>2, <2>3, <2>4 DEF ServerSteps
<1>3. ASSUME NEW c \in Conns, ExpiryFires(c) \/ Read(c) \/ ReadFails(c) PROVE TypeOK'
  BY <1>3 DEF ExpiryFires, Read, ReadFails
<1>4. ASSUME NEW c \in Conns, ReaderSteps(c) PROVE TypeOK'
  <2>1. CASE Parse(c) \/ StopFlushes(c) \/ ReaderStops(c)
    BY <2>1 DEF Parse, StopFlushes, ReaderStops
  <2>2. CASE Emit(c) \/ ReadErrorSent(c)
    BY <2>2 DEF Emit, ReadErrorSent, Passing
  <2>3. CASE ReaderCloses(c)
    BY <2>3 DEF ReaderCloses, CloseAll
  <2> QED BY <1>4, <2>1, <2>2, <2>3 DEF ReaderSteps
<1>5. ASSUME NEW k \in Keys, Del(k) PROVE TypeOK'
  BY <1>5 DEF Del, CloseAll
<1>6. ASSUME DelDelete \/ DelAll \/ Cancel PROVE TypeOK'
  BY <1>6 DEF DelDelete, DelAll, Cancel, delAll, CloseAll
<1>7. ASSUME ListenerSteps PROVE TypeOK'
  BY <1>7 DEF ListenerSteps, ListenerPasses, ListenerCanceled, ReleaseDelAll, ReleaseClose,
              delAll, CloseAll
<1>8. CASE UNCHANGED vars
  BY <1>8 DEF vars
<1> QED BY <1>1, <1>2, <1>3, <1>4, <1>5, <1>6, <1>7, <1>8 DEF Next

\* Server and reader start with the end of Put and end after a Close.
LEMMA LocalStep == IInv /\ [Next]_vars => PutInv' /\ CloseInv'
<1> SUFFICES ASSUME IInv, [Next]_vars PROVE PutInv' /\ CloseInv'
  OBVIOUS
<1> USE ConnPoolAssumption
    DEF IInv, TypeOK, PutInv, CloseInv, Stored, poolVars, putVars, timeVars
<1> DEFINE Goal == PutInv' /\ CloseInv'
<1>1. ASSUME NEW c \in Conns, Put(c) PROVE Goal
  <2>1. CASE PutCheck(c) \/ PutGet(c)
    BY <2>1 DEF PutCheck, PutGet
  <2>2. CASE PutSet(c)
    BY <2>2 DEF PutSet
  <2>3. CASE PutServe(c)
    BY <2>3 DEF PutServe
  <2> QED BY <1>1, <2>1, <2>2, <2>3 DEF Put
<1>2. ASSUME NEW c \in Conns, ServerSteps(c) PROVE Goal
  <2>1. CASE ServerCanceled(c) \/ ServerEOF(c)
    BY <2>1 DEF ServerCanceled, ServerEOF, ServerStops, Passing
  <2>2. CASE ServerExpiry(c) \/ ServerPasses(c) \/ ServerPanics(c)
    BY <2>2 DEF ServerExpiry, ServerPasses, ServerPanics, Passing
  <2> QED BY <1>2, <2>1, <2>2 DEF ServerSteps
<1>3. ASSUME NEW c \in Conns, ExpiryFires(c) \/ Read(c) \/ ReadFails(c) PROVE Goal
  BY <1>3 DEF ExpiryFires, Read, ReadFails
<1>4. ASSUME NEW c \in Conns, ReaderSteps(c) PROVE Goal
  <2>1. CASE Parse(c) \/ StopFlushes(c) \/ ReaderStops(c)
    BY <2>1 DEF Parse, StopFlushes, ReaderStops
  <2>2. CASE Emit(c) \/ ReadErrorSent(c)
    BY <2>2 DEF Emit, ReadErrorSent
  <2>3. CASE ReaderCloses(c)
    BY <2>3, ZenonT(60) DEF ReaderCloses, CloseAll
  <2> QED BY <1>4, <2>1, <2>2, <2>3 DEF ReaderSteps
<1>5. ASSUME NEW k \in Keys, Del(k) PROVE Goal
  BY <1>5 DEF Del, CloseAll
<1>6. ASSUME DelDelete \/ DelAll \/ Cancel PROVE Goal
  BY <1>6 DEF DelDelete, DelAll, Cancel, delAll, CloseAll
<1>7. ASSUME ListenerSteps PROVE Goal
  BY <1>7 DEF ListenerSteps, ListenerPasses, ListenerCanceled, ReleaseDelAll, ReleaseClose,
              delAll, CloseAll
<1>8. CASE UNCHANGED vars
  BY <1>8 DEF vars
<1> QED BY <1>1, <1>2, <1>3, <1>4, <1>5, <1>6, <1>7, <1>8 DEF Next

-----------------------------------------------------------------------------
(* The map.                                                                *)

MapInv == EntryInv /\ OpenInv

\* A step that touches neither the map nor Put or Del, and opens no handler.
LEMMA MapUntouched ==
    ASSUME IInv, UNCHANGED <<handleMap, key, put, late, del>>,
           \A c \in Conns : closed[c] => closed'[c],
           listener' \in {"wait", "done"} => listener \in {"wait", "done"}
    PROVE  MapInv'
<1> USE DEF IInv, TypeOK, MapInv, Stored
<1>1. EntryInv'
  BY DEF EntryInv
<1>2. OpenInv'
  BY DEF OpenInv, Rivaled
<1> QED BY <1>1, <1>2

\* delAll closes every handler that has an entry: the one that stays open had
\* none, so another connection was stored under its key.
LEMMA MapCleared ==
    ASSUME IInv, delAll, UNCHANGED <<key, put, late, del>>
    PROVE  MapInv'
<1> USE ConnPoolAssumption DEF IInv, TypeOK, MapInv, Stored, delAll, CloseAll
<1>1. EntryInv'
  BY DEF EntryInv
<1>2. OpenInv'
  <2> SUFFICES ASSUME NEW c \in Conns, Stored(c), ~closed'[c], ~Rivaled(c)
               PROVE  FALSE
    BY DEF OpenInv, Rivaled
  <2>1. ~closed[c]
    OBVIOUS
  <2>2. handleMap[key[c]] = c /\ key[c] \in Keys
    BY <2>1 DEF OpenInv
  <2> QED BY <2>2
<1> QED BY <1>1, <1>2

\* Put, Del and the release preserve the map's invariant.  Put looks the key up
\* and stores in two steps, Del closes and deletes in two: the connection that
\* came in between is the rival.
LEMMA MapStep == IInv /\ [Next]_vars => MapInv'
<1> SUFFICES ASSUME IInv, [Next]_vars PROVE MapInv'
  OBVIOUS
<1> USE ConnPoolAssumption DEF IInv, TypeOK, poolVars, putVars, timeVars
<1>1. ASSUME NEW c \in Conns, PutCheck(c) \/ PutGet(c) PROVE MapInv'
  <2>1. /\ UNCHANGED <<handleMap, key, late, del, closed, listener>>
        /\ \A d \in Conns : Stored(d)' <=> Stored(d)
    BY <1>1 DEF PutCheck, PutGet, Stored
  <2> QED BY <2>1 DEF MapInv, EntryInv, OpenInv, Rivaled
<1>2. ASSUME NEW c \in Conns, PutSet(c) PROVE MapInv'
  <2>1. /\ handleMap' = [handleMap EXCEPT ![key[c]] = c]
        /\ UNCHANGED <<key, del, closed, listener>>
        /\ Stored(c)' /\ \A d \in Conns \ {c} : Stored(d)' <=> Stored(d)
        /\ \A d \in Conns \ {c} : late'[d] = late[d]
        /\ listener \in {"wait", "done"} => late'[c] # "no"
        /\ key[c] \in Keys
    BY <1>2 DEF PutSet, Stored
  <2>2. EntryInv'
    BY <2>1 DEF EntryInv
  <2>3. OpenInv'
    <3> SUFFICES ASSUME NEW d \in Conns, Stored(d)', ~closed[d], ~Rivaled(d)'
                 PROVE  /\ handleMap'[key[d]] = d
                        /\ listener \in {"wait", "done"} => late'[d] # "no"
      BY <2>1 DEF OpenInv
    <3>1. CASE d = c
      BY <2>1, <3>1
    <3>2. CASE d # c
      <4>1. key[d] # key[c] /\ ~Rivaled(d)
        BY <2>1, <3>2 DEF Rivaled
      <4> QED BY <2>1, <3>2, <4>1 DEF OpenInv
    <3> QED BY <3>1, <3>2
  <2> QED BY <2>2, <2>3 DEF MapInv
<1>3. ASSUME NEW c \in Conns, PutServe(c) PROVE MapInv'
  <2>1. /\ UNCHANGED <<handleMap, key, del, closed, listener>>
        /\ \A d \in Conns : Stored(d)' <=> Stored(d)
        /\ \A d \in Conns : late[d] # "no" => late'[d] # "no"
    BY <1>3 DEF PutServe, Stored
  <2> QED BY <2>1 DEF MapInv, EntryInv, OpenInv, Rivaled
<1>4. ASSUME NEW c \in Conns, ServerSteps(c) \/ ExpiryFires(c) \/ Read(c) \/ ReadFails(c)
      PROVE  MapInv'
  BY <1>4, MapUntouched DEF ServerSteps, ServerCanceled, ServerEOF, ServerExpiry,
     ServerPasses, ServerPanics, ExpiryFires, Read, ReadFails
<1>5. ASSUME NEW c \in Conns, ReaderSteps(c) PROVE MapInv'
  <2>1. /\ UNCHANGED <<handleMap, key, put, late, del, listener>>
        /\ closed' = closed \/ CloseAll({c})
    BY <1>5 DEF ReaderSteps, Parse, Emit, ReadErrorSent, ReaderCloses, StopFlushes,
                ReaderStops
  <2>2. \A d \in Conns : closed[d] => closed'[d]
    BY <2>1 DEF CloseAll
  <2> QED BY <2>1, <2>2, MapUntouched
<1>6. ASSUME NEW k \in Keys, Del(k) PROVE MapInv'
  <2>1. /\ UNCHANGED <<handleMap, key, put, late, listener>>
        /\ handleMap[k] \in Conns /\ del' = handleMap[k]
        /\ closed'[handleMap[k]] /\ \A c \in Conns : closed[c] => closed'[c]
    BY <1>6 DEF Del, CloseAll
  <2>2. EntryInv'
    BY <2>1 DEF EntryInv, Stored
  <2>3. OpenInv'
    BY <2>1 DEF OpenInv, Rivaled, Stored
  <2> QED BY <2>2, <2>3 DEF MapInv
<1>7. ASSUME DelDelete PROVE MapInv'
  <2>1. /\ UNCHANGED <<key, put, late, closed, listener>> /\ del' = NoConn
        /\ del \in Conns /\ key[del] \in Keys /\ closed[del] /\ Stored(del)
        /\ handleMap' = [handleMap EXCEPT ![key[del]] = NoConn]
    BY <1>7 DEF DelDelete, EntryInv
  <2>2. EntryInv'
    BY <2>1 DEF EntryInv, Stored
  <2>3. OpenInv'
    <3> SUFFICES ASSUME NEW c \in Conns, Stored(c), ~closed[c], ~Rivaled(c)
                 PROVE  /\ handleMap'[key[c]] = c
                        /\ listener \in {"wait", "done"} => late[c] # "no"
      BY <2>1 DEF OpenInv, Rivaled, Stored
    <3>1. c # del /\ key[c] # key[del]
      BY <2>1 DEF Rivaled
    <3> QED BY <2>1, <3>1 DEF OpenInv
  <2> QED BY <2>2, <2>3 DEF MapInv
<1>8. ASSUME DelAll PROVE MapInv'
  BY <1>8, MapCleared DEF DelAll
<1>9. ASSUME Cancel PROVE MapInv'
  BY <1>9, MapUntouched DEF Cancel
<1>10. ASSUME ListenerSteps PROVE MapInv'
  <2>1. CASE ListenerPasses \/ ListenerCanceled \/ ReleaseClose
    BY <2>1, MapUntouched DEF ListenerPasses, ListenerCanceled, ReleaseClose
  <2>2. CASE ReleaseDelAll
    BY <2>2, MapCleared DEF ReleaseDelAll
  <2> QED BY <1>10, <2>1, <2>2 DEF ListenerSteps
<1>11. CASE UNCHANGED vars
  BY <1>11, MapUntouched DEF vars
<1> QED BY <1>1, <1>2, <1>3, <1>4, <1>5, <1>6, <1>7, <1>8, <1>9, <1>10, <1>11
        DEF Next, Put

-----------------------------------------------------------------------------
(* The wait group.                                                         *)

\* handleWg counts the servers, so that its Wait returns when none is left; one
\* that starts after that is late, and only such a one can hit closed channels.
LEMMA CountStep == IInv /\ [Next]_vars => CountInv' /\ ClosedAfterHandlers'
<1> SUFFICES ASSUME IInv, [Next]_vars PROVE CountInv' /\ ClosedAfterHandlers'
  OBVIOUS
<1> USE DEF IInv, TypeOK, poolVars, putVars, timeVars
<1> DEFINE Goal == CountInv' /\ ClosedAfterHandlers'
<1>1. ASSUME \A c \in Conns : Serving(c)' <=> Serving(c),
             \A c \in Conns : late[c] = "served" => late'[c] = "served",
             wg' = wg, Released' => Released, ~Running' => ~Running
      PROVE  Goal
  <2>1. Servers' = Servers
    BY <1>1 DEF Servers
  <2>2. CountInv'
    BY <1>1, <2>1 DEF CountInv
  <2>3. ClosedAfterHandlers'
    BY <1>1 DEF ClosedAfterHandlers
  <2> QED BY <2>2, <2>3
<1>2. ASSUME NEW c \in Conns, PutCheck(c) \/ PutGet(c) PROVE Goal
  BY <1>1, <1>2 DEF PutCheck, PutGet, Serving, Released, Running
<1>3. ASSUME NEW c \in Conns, PutSet(c) PROVE Goal
  BY <1>1, <1>3 DEF PutSet, Serving, Released, Running, PutInv
<1>4. ASSUME NEW c \in Conns, PutServe(c) PROVE Goal
  <2>1. Servers' = Servers \cup {c} /\ c \notin Servers
    BY <1>4 DEF PutServe, Servers, Serving, PutInv, Passing
  <2>2. IsFiniteSet(Servers') /\ Cardinality(Servers') = Cardinality(Servers) + 1
    BY <2>1, FS_AddElement DEF CountInv
  <2>3. CountInv'
    BY <1>4, <2>2 DEF PutServe, CountInv
  <2>4. ClosedAfterHandlers'
    BY <1>4 DEF PutServe, ClosedAfterHandlers, Serving, Released, Running, Passing
  <2> QED BY <2>3, <2>4
<1>5. ASSUME NEW c \in Conns, ServerCanceled(c) \/ ServerEOF(c) PROVE Goal
  <2>1. Servers' = Servers \ {c} /\ c \in Servers
    BY <1>5 DEF ServerCanceled, ServerEOF, ServerStops, Servers, Serving, Passing
  <2>2. IsFiniteSet(Servers') /\ Cardinality(Servers') = Cardinality(Servers) - 1
    BY <2>1, FS_RemoveElement DEF CountInv
  <2>3. CountInv'
    BY <1>5, <2>2 DEF ServerCanceled, ServerEOF, ServerStops, CountInv
  <2>4. ClosedAfterHandlers'
    BY <1>5 DEF ServerCanceled, ServerEOF, ServerStops, ClosedAfterHandlers, Serving,
                Released, Running, Passing
  <2> QED BY <2>3, <2>4
<1>6. ASSUME NEW c \in Conns, ServerExpiry(c) \/ ServerPasses(c) PROVE Goal
  BY <1>1, <1>6 DEF ServerExpiry, ServerPasses, Serving, Released, Running, Passing
<1>7. ASSUME NEW c \in Conns, ServerPanics(c) PROVE Goal
  <2>1. Servers' = Servers
    BY <1>7 DEF ServerPanics, Servers, Serving
  <2>2. Serving(c)
    BY <1>7 DEF ServerPanics, Serving
  <2>3. late'[c] = "served"
    BY <1>7, <2>2 DEF ServerPanics, ClosedAfterHandlers
  <2> QED BY <1>7, <2>1, <2>3 DEF ServerPanics, CountInv, ClosedAfterHandlers, Serving,
                                  Released
<1>8. ASSUME NEW c \in Conns, ExpiryFires(c) \/ Read(c) \/ ReadFails(c) PROVE Goal
  BY <1>1, <1>8 DEF ExpiryFires, Read, ReadFails, Serving, Released, Running
<1>9. ASSUME NEW c \in Conns, ReaderSteps(c) PROVE Goal
  <2>1. \A d \in Conns : Serving(d)' <=> Serving(d)
    BY <1>9 DEF ReaderSteps, Parse, Emit, ReadErrorSent, ReaderCloses, StopFlushes,
                ReaderStops, Serving, Passing
  <2> QED BY <1>1, <1>9, <2>1 DEF ReaderSteps, Parse, Emit, ReadErrorSent, ReaderCloses,
                                  StopFlushes, ReaderStops, Released, Running
<1>10. ASSUME NEW k \in Keys, Del(k) PROVE Goal
  BY <1>1, <1>10 DEF Del, Serving, Released, Running
<1>11. ASSUME DelDelete \/ DelAll \/ Cancel PROVE Goal
  BY <1>1, <1>11 DEF DelDelete, DelAll, Cancel, Serving, Released, Running
<1>12. ASSUME ListenerPasses \/ ListenerCanceled \/ ReleaseDelAll PROVE Goal
  BY <1>1, <1>12 DEF ListenerPasses, ListenerCanceled, ReleaseDelAll, Serving, Released,
                     Running
<1>13. ASSUME ReleaseClose PROVE Goal
  <2>1. Servers' = Servers /\ wg = 0
    BY <1>13 DEF ReleaseClose, Servers, Serving
  <2>2. Servers = {}
    BY <2>1, FS_EmptySet DEF CountInv
  <2>3. \A c \in Conns : ~Serving(c)'
    BY <2>1, <2>2 DEF Servers
  <2> QED BY <1>13, <2>1, <2>3 DEF ReleaseClose, CountInv, ClosedAfterHandlers, Running
<1>14. CASE UNCHANGED vars
  BY <1>1, <1>14 DEF vars, Serving, Released, Running
<1> QED BY <1>2, <1>3, <1>4, <1>5, <1>6, <1>7, <1>8, <1>9, <1>10, <1>11, <1>12, <1>13,
           <1>14 DEF Next, Put, ServerSteps, ListenerSteps

-----------------------------------------------------------------------------
(* The theorems.                                                           *)

\* The inductive invariant holds in every reachable state, for any number of
\* connections and whoever calls Put and Del at the same time.
THEOREM Inductive == Spec => []IInv
<1>1. IInv /\ [Next]_vars => IInv'
  BY TypeStep, LocalStep, MapStep, CountStep DEF IInv, MapInv
<1> QED BY <1>1, InitInv, PTL DEF Spec

\* handleWg never goes below zero, and ConnectionServer returns only from a
\* handler that was closed.
THEOREM HandlersAreSound == Spec => []HandlersSound
<1>1. IInv => HandlersSound
  BY DEF IInv, HandlersSound, ServedUntilClosed, CloseInv
<1> QED BY <1>1, Inductive, PTL

\* release closes the pool's channels after every server has returned, but for
\* a server that a Put started later; only that one can panic on them.
THEOREM ChannelsCloseLast == Spec => []ClosedAfterHandlers
<1>1. IInv => ClosedAfterHandlers
  BY DEF IInv
<1> QED BY <1>1, Inductive, PTL

\* release closes every handler that is served, but for one stored after delAll
\* and one whose key another connection used as well.
THEOREM ReleaseClosesAll == Spec => []ReleaseReachesAll
<1>1. IInv => ReleaseReachesAll
  <2> SUFFICES ASSUME IInv, listener \in {"wait", "done"},
                      NEW c \in Conns, Serving(c), ~closed[c], late[c] = "no"
               PROVE  Rivaled(c)
    BY DEF ReleaseReachesAll, Rivaled, Stored
  <2>1. Stored(c)
    BY DEF IInv, TypeOK, PutInv, Serving, Passing, Stored
  <2> QED BY <2>1 DEF IInv, OpenInv
<1> QED BY <1>1, Inductive, PTL

=============================================================================
