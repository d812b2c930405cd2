-------------------------- MODULE WebSocketProofs --------------------------
(***************************************************************************)
(* Proofs about the WebSocket registry, for every set of connections and   *)
(* HTTP sessions: what the run checks about them.                          *)
(*                                                                         *)
(* None of them is inductive.  The invariant adds where the maps belong    *)
(* (MapsOfSession), what a closed connection says of its session (Closed), *)
(* that a session no client has left keeps the map its connections are     *)
(* registered in until the destroyed event takes it (Kept), and that the   *)
(* handler of that event has not lost sight of a connection it owes a      *)
(* close (DueKept).                                                        *)
(***************************************************************************)
EXTENDS WebSocketRegistry, TLAPS

MapsOfSession ==
    /\ \A h \in HttpIds : registry[h] # NoMap => httpId[registry[h]] = h
    /\ \A h \in HttpIds : closing[h] # NoMap => httpId[closing[h]] = h
    /\ \A h \in HttpIds : ending[h] = "closing" => closing[h] # NoMap
    /\ \A h \in HttpIds : \A c \in pending[h] : httpId[c] = h
    /\ \A c \in Connections : sessions[c] # NoMap =>
           httpId[c] \in HttpIds /\ httpId[sessions[c]] = httpId[c]
    /\ \A m \in Connections : \A c \in content[m] :
           httpId[c] \in HttpIds /\ httpId[m] = httpId[c]
    /\ \A c \in Connections :
           /\ pc[c] = "new" => httpId[c] = NoHttpId
           /\ pc[c] \in ConnectStep \cup DisconnectStep => httpId[c] \in HttpIds

Closed ==
    \A c \in Connections :
        /\ pc[c] \in DisconnectStep \cup {"closed"} => closedBy[c] # "nobody"
        /\ closedBy[c] = "client" =>
               pc[c] # "new" /\ (httpId[c] \in HttpIds => httpId[c] \in left)
        /\ closedBy[c] = "listener" =>
               httpId[c] \in HttpIds /\ ending[httpId[c]] \in {"closing", "done"}

Kept ==
    /\ \A c \in registered : httpId[c] \in HttpIds
    /\ \A h \in HttpIds \ left : ending[h] \in {"live", "event"} =>
           \A c \in Connections : httpId[c] = h =>
               /\ pc[c] = "getAgain" => registry[h] # NoMap
               /\ pc[c] = "put" => sessions[c] = registry[h]
               /\ c \in registered => registry[h] # NoMap /\ c \in content[registry[h]]

DueKept ==
    \A c \in due :
        /\ httpId[c] \in HttpIds
        /\ ending[httpId[c]] \in {"closing", "done"}
        /\ httpId[c] \in left \/ closedBy[c] # "nobody"
               \/ /\ ending[httpId[c]] = "closing"
                  /\ c \in pending[httpId[c]]
                  /\ c \in content[closing[httpId[c]]]

IInv == TypeOK /\ MapsOfSession /\ Closed /\ Kept /\ DueKept

-----------------------------------------------------------------------------

\* The registry starts without maps and connections.
LEMMA InvInit == Init => IInv
  <1> SUFFICES ASSUME Init PROVE IInv
    OBVIOUS
  <1> USE RegistryAssumption DEF Init, ConnectStep, DisconnectStep, MaybeMap
  <1>1. TypeOK         BY DEF TypeOK
  <1>2. MapsOfSession  BY DEF MapsOfSession
  <1>3. Closed         BY DEF Closed
  <1>4. Kept           BY DEF Kept
  <1>5. DueKept        BY DEF DueKept
  <1> QED BY <1>1, <1>2, <1>3, <1>4, <1>5 DEF IInv

\* A handshake gives a new connection, which no map knows, its session.
LEMMA HandshakeInv ==
  ASSUME IInv, NEW c \in Connections, NEW h \in HttpIds \cup {NoHttpId}, NEW named \in BOOLEAN, Handshake(c, h, named)
  PROVE  IInv'
  <1> USE RegistryAssumption DEF IInv, Handshake, At, ConnectStep, DisconnectStep, MaybeMap,
          mapVars, handlerVars, closeVars, destroyVars
  <1>1. TypeOK'  BY DEF TypeOK
  <1>2. MapsOfSession'  BY DEF TypeOK, MapsOfSession
  <1>3. Closed'  BY DEF TypeOK, MapsOfSession, Closed
  <1>4. Kept'  BY DEF TypeOK, MapsOfSession, Closed, Kept
  <1>5. DueKept'  BY DEF TypeOK, MapsOfSession, Closed, DueKept
  <1> QED BY <1>1, <1>2, <1>3, <1>4, <1>5

\* Looking a map up yields the one of the connection's own session.
LEMMA GetSessionsInv ==
  ASSUME IInv, NEW c \in Connections, GetSessions(c)
  PROVE  IInv'
  <1> USE RegistryAssumption DEF IInv, GetSessions, Get, At, ConnectStep, DisconnectStep, MaybeMap,
          mapVars, handlerVars, closeVars, destroyVars
  <1>1. TypeOK'  BY DEF TypeOK, MapsOfSession
  <1>2. MapsOfSession'  BY DEF TypeOK, MapsOfSession
  <1>3. Closed'  BY DEF TypeOK, MapsOfSession, Closed
  <1>4. Kept'  BY DEF TypeOK, MapsOfSession, Closed, Kept
  <1>5. DueKept'  BY DEF TypeOK, MapsOfSession, Closed, DueKept
  <1> QED BY <1>1, <1>2, <1>3, <1>4, <1>5

\* putIfAbsent replaces no map.
LEMMA PutIfAbsentInv ==
  ASSUME IInv, NEW c \in Connections, PutIfAbsent(c)
  PROVE  IInv'
  <1> USE RegistryAssumption DEF IInv, PutIfAbsent, At, ConnectStep, DisconnectStep, MaybeMap,
          mapVars, handlerVars, closeVars, destroyVars
  <1>1. TypeOK'  BY DEF TypeOK
  <1>2. MapsOfSession'  BY DEF TypeOK, MapsOfSession
  <1>3. Closed'  BY DEF TypeOK, MapsOfSession, Closed
  <1>4. Kept'  BY DEF TypeOK, MapsOfSession, Closed, Kept
  <1>5. DueKept'  BY DEF TypeOK, MapsOfSession, Closed, DueKept
  <1> QED BY <1>1, <1>2, <1>3, <1>4, <1>5

\* The second look-up of a session no client left finds a map.
LEMMA GetAgainInv ==
  ASSUME IInv, NEW c \in Connections, GetAgain(c)
  PROVE  IInv'
  <1> USE RegistryAssumption DEF IInv, GetAgain, Get, At, ConnectStep, DisconnectStep, MaybeMap,
          mapVars, handlerVars, closeVars, destroyVars
  <1>1. TypeOK'  BY DEF TypeOK, MapsOfSession
  <1>2. MapsOfSession'  BY DEF TypeOK, MapsOfSession
  <1>3. Closed'  BY DEF TypeOK, MapsOfSession, Closed
  <1>4. Kept'  BY DEF TypeOK, MapsOfSession, Closed, Kept
  <1>5. DueKept'  BY DEF TypeOK, MapsOfSession, Closed, DueKept
  <1> QED BY <1>1, <1>2, <1>3, <1>4, <1>5

\* A connection is put into a map of its own session.
LEMMA PutInv ==
  ASSUME IInv, NEW c \in Connections, Put(c)
  PROVE  IInv'
  <1> USE RegistryAssumption DEF IInv, Put, At, ConnectStep, DisconnectStep, MaybeMap,
          mapVars, handlerVars, closeVars, destroyVars
  <1>1. TypeOK'  BY DEF TypeOK
  <1>2. MapsOfSession'  BY DEF TypeOK, MapsOfSession
  <1>3. Closed'  BY DEF TypeOK, MapsOfSession, Closed
  <1>4. Kept'  BY DEF TypeOK, MapsOfSession, Closed, Kept
  <1>5. DueKept'  BY DEF TypeOK, MapsOfSession, Closed, DueKept
  <1> QED BY <1>1, <1>2, <1>3, <1>4, <1>5

\* A client that leaves exempts its session.
LEMMA LeaveInv ==
  ASSUME IInv, NEW c \in Connections, Leave(c)
  PROVE  IInv'
  <1> USE RegistryAssumption DEF IInv, Leave, ConnectStep, DisconnectStep, MaybeMap,
          mapVars, handlerVars, closeVars, destroyVars
  <1>1. TypeOK'  BY DEF TypeOK
  <1>2. MapsOfSession'  BY DEF TypeOK, MapsOfSession
  <1>3. Closed'  BY DEF TypeOK, MapsOfSession, Closed
  <1>4. Kept'  BY DEF TypeOK, MapsOfSession, Closed, Kept
  <1>5. DueKept'  BY DEF TypeOK, MapsOfSession, Closed, DueKept
  <1> QED BY <1>1, <1>2, <1>3, <1>4, <1>5

\* A disconnect event follows a close.
LEMMA DisconnectInv ==
  ASSUME IInv, NEW c \in Connections, Disconnect(c)
  PROVE  IInv'
  <1> USE RegistryAssumption DEF IInv, Disconnect, At, ConnectStep, DisconnectStep, MaybeMap,
          mapVars, handlerVars, closeVars, destroyVars
  <1>1. TypeOK'  BY DEF TypeOK
  <1>2. MapsOfSession'  BY DEF TypeOK, MapsOfSession
  <1>3. Closed'  BY DEF TypeOK, MapsOfSession, Closed
  <1>4. Kept'  BY DEF TypeOK, MapsOfSession, Closed, Kept
  <1>5. DueKept'  BY DEF TypeOK, MapsOfSession, Closed, DueKept
  <1> QED BY <1>1, <1>2, <1>3, <1>4, <1>5

\* A disconnect event finds the map of the connection's own session.
LEMMA FindSessionsInv ==
  ASSUME IInv, NEW c \in Connections, FindSessions(c)
  PROVE  IInv'
  <1> USE RegistryAssumption DEF IInv, FindSessions, Get, At, ConnectStep, DisconnectStep, MaybeMap,
          mapVars, handlerVars, closeVars, destroyVars
  <1>1. TypeOK'  BY DEF TypeOK, MapsOfSession
  <1>2. MapsOfSession'  BY DEF TypeOK, MapsOfSession
  <1>3. Closed'  BY DEF TypeOK, MapsOfSession, Closed
  <1>4. Kept'  BY DEF TypeOK, MapsOfSession, Closed, Kept
  <1>5. DueKept'  BY DEF TypeOK, MapsOfSession, Closed, DueKept
  <1> QED BY <1>1, <1>2, <1>3, <1>4, <1>5

\* A disconnect event removes a closed connection only.
LEMMA RemoveInv ==
  ASSUME IInv, NEW c \in Connections, Remove(c)
  PROVE  IInv'
  <1> USE RegistryAssumption DEF IInv, Remove, At, ConnectStep, DisconnectStep, MaybeMap,
          mapVars, handlerVars, closeVars, destroyVars
  <1>1. TypeOK'  BY DEF TypeOK
  <1>2. MapsOfSession'  BY DEF TypeOK, MapsOfSession
  <1>3. Closed'  BY DEF TypeOK, MapsOfSession, Closed
  <1>4. Kept'  BY DEF TypeOK, MapsOfSession, Closed, Kept
  <1>5. DueKept'  BY DEF TypeOK, MapsOfSession, Closed, DueKept
  <1> QED BY <1>1, <1>2, <1>3, <1>4, <1>5

\* Only the handler of a closed connection finds a map empty.
LEMMA IsEmptyInv ==
  ASSUME IInv, NEW c \in Connections, IsEmpty(c)
  PROVE  IInv'
  <1> USE RegistryAssumption DEF IInv, IsEmpty, At, ConnectStep, DisconnectStep, MaybeMap,
          mapVars, handlerVars, closeVars, destroyVars
  <1>1. TypeOK'  BY DEF TypeOK
  <1>2. MapsOfSession'  BY DEF TypeOK, MapsOfSession
  <1>3. Closed'  BY DEF TypeOK, MapsOfSession, Closed
  <1>4. Kept'  BY DEF TypeOK, MapsOfSession, Closed, Kept
  <1>5. DueKept'  BY DEF TypeOK, MapsOfSession, Closed, DueKept
  <1> QED BY <1>1, <1>2, <1>3, <1>4, <1>5

\* Only the handler of a closed connection drops a map.
LEMMA DropInv ==
  ASSUME IInv, NEW c \in Connections, Drop(c)
  PROVE  IInv'
  <1> USE RegistryAssumption DEF IInv, Drop, At, ConnectStep, DisconnectStep, MaybeMap,
          mapVars, handlerVars, closeVars, destroyVars
  <1>1. TypeOK'  BY DEF TypeOK
  <1>2. MapsOfSession'  BY DEF TypeOK, MapsOfSession
  <1>3. Closed'  BY DEF TypeOK, MapsOfSession, Closed
  <1>4. Kept'  BY DEF TypeOK, MapsOfSession, Closed, Kept
  <1>5. DueKept'  BY DEF TypeOK, MapsOfSession, Closed, DueKept
  <1> QED BY <1>1, <1>2, <1>3, <1>4, <1>5

\* A session ends before its event is handled.
LEMMA DestroyInv ==
  ASSUME IInv, NEW h \in HttpIds, Destroy(h)
  PROVE  IInv'
  <1> USE RegistryAssumption DEF IInv, Destroy, ConnectStep, DisconnectStep, MaybeMap,
          mapVars, handlerVars, closeVars, destroyVars
  <1>1. TypeOK'  BY DEF TypeOK
  <1>2. MapsOfSession'  BY DEF TypeOK, MapsOfSession
  <1>3. Closed'  BY DEF TypeOK, MapsOfSession, Closed
  <1>4. Kept'  BY DEF TypeOK, MapsOfSession, Closed, Kept
  <1>5. DueKept'  BY DEF TypeOK, MapsOfSession, Closed, DueKept
  <1> QED BY <1>1, <1>2, <1>3, <1>4, <1>5

\* The destroyed event takes over the map with every registered connection.
LEMMA RemoveSessionsInv ==
  ASSUME IInv, NEW h \in HttpIds, RemoveSessions(h)
  PROVE  IInv'
  <1> USE RegistryAssumption DEF IInv, RemoveSessions, ConnectStep, DisconnectStep, MaybeMap,
          mapVars, handlerVars, closeVars, destroyVars
  <1>1. TypeOK'  BY DEF TypeOK
  <1>2. MapsOfSession'  BY DEF TypeOK, MapsOfSession
  <1>3. Closed'  BY DEF TypeOK, MapsOfSession, Closed
  <1>4. Kept'  BY DEF TypeOK, MapsOfSession, Closed, Kept
  <1>5. DueKept'  BY DEF TypeOK, MapsOfSession, Closed, DueKept, Kept
  <1> QED BY <1>1, <1>2, <1>3, <1>4, <1>5

\* The close loop ends when it has met all it must.
LEMMA CloseDoneInv ==
  ASSUME IInv, NEW h \in HttpIds, CloseDone(h)
  PROVE  IInv'
  <1> USE RegistryAssumption DEF IInv, CloseDone, ConnectStep, DisconnectStep, MaybeMap,
          mapVars, handlerVars, closeVars, destroyVars
  <1>1. TypeOK'  BY DEF TypeOK
  <1>2. MapsOfSession'  BY DEF TypeOK, MapsOfSession
  <1>3. Closed'  BY DEF TypeOK, MapsOfSession, Closed
  <1>4. Kept'  BY DEF TypeOK, MapsOfSession, Closed, Kept
  <1>5. DueKept'  BY DEF TypeOK, MapsOfSession, Closed, DueKept
  <1> QED BY <1>1, <1>2, <1>3, <1>4, <1>5

\* The close loop closes connections of its own session.
LEMMA CloseInv ==
  ASSUME IInv, NEW h \in HttpIds, NEW c \in Connections, Close(h, c)
  PROVE  IInv'
  <1> USE RegistryAssumption DEF IInv, Close, ConnectStep, DisconnectStep, MaybeMap,
          mapVars, handlerVars, closeVars, destroyVars
  <1>1. TypeOK'  BY DEF TypeOK
  <1>2. MapsOfSession'  BY DEF TypeOK, MapsOfSession
  <1>3. Closed'  BY DEF TypeOK, MapsOfSession, Closed
  <1>4. Kept'  BY DEF TypeOK, MapsOfSession, Closed, Kept
  <1>5. DueKept'  BY DEF TypeOK, MapsOfSession, Closed, DueKept
  <1> QED BY <1>1, <1>2, <1>3, <1>4, <1>5


\* Every step of every thread preserves the invariant.
LEMMA InvNext == IInv /\ [Next]_vars => IInv'
  <1> SUFFICES ASSUME IInv, [Next]_vars PROVE IInv'
    OBVIOUS
  <1>1. ASSUME NEW c \in Connections, OnConnect(c) PROVE IInv'
    BY <1>1, HandshakeInv, GetSessionsInv, PutIfAbsentInv, GetAgainInv, PutInv DEF OnConnect
  <1>2. ASSUME NEW c \in Connections, Leave(c) PROVE IInv'
    BY <1>2, LeaveInv
  <1>3. ASSUME NEW c \in Connections, OnDisconnect(c) PROVE IInv'
    BY <1>3, DisconnectInv, FindSessionsInv, RemoveInv, IsEmptyInv, DropInv DEF OnDisconnect
  <1>4. ASSUME NEW h \in HttpIds, Destroy(h) PROVE IInv'
    BY <1>4, DestroyInv
  <1>5. ASSUME NEW h \in HttpIds, OnDestroyed(h) PROVE IInv'
    BY <1>5, RemoveSessionsInv, CloseDoneInv, CloseInv DEF OnDestroyed
  <1>6. CASE UNCHANGED vars
    BY <1>6 DEF vars, mapVars, handlerVars, closeVars, destroyVars, IInv, TypeOK, MapsOfSession, Closed, Kept, DueKept
  <1> QED BY <1>1, <1>2, <1>3, <1>4, <1>5, <1>6 DEF Next

\* The invariant holds of every behaviour.
LEMMA InvariantHolds == Spec => []IInv
  BY InvInit, InvNext, PTL DEF Spec

-----------------------------------------------------------------------------

\* Type correctness: no handler uses a null map.
THEOREM TypeCorrect == Spec => []TypeOK
  <1>1. IInv => TypeOK
    BY DEF IInv
  <1> QED BY <1>1, InvariantHolds, PTL

\* The listener closes no connection of a live session.
THEOREM LiveStayOpen == Spec => []OnlyEndedAreClosed
  <1>1. IInv => OnlyEndedAreClosed
    BY DEF IInv, Closed, OnlyEndedAreClosed
  <1> QED BY <1>1, InvariantHolds, PTL

\* The connections registered when the destroyed event takes their map are all
\* closed by the end of its handling, unless a client of the session left.
THEOREM DestroyedAreClosed == Spec => []ClosedUnlessClientsLeft
  <1>1. IInv => ClosedUnlessClientsLeft
    BY DEF IInv, DueKept, ClosedUnlessClientsLeft
  <1> QED BY <1>1, InvariantHolds, PTL

-----------------------------------------------------------------------------
(* Nothing is kept of closed connections.  A map is registered once, by the    *)
(* connection that creates it, and as long as it is, somebody is going to      *)
(* look whether it is empty.                                                   *)

\* The map that a connection is to create is not in use yet.
Fresh ==
    \A m \in Connections : pc[m] \in {"new", "get", "putIfAbsent"} =>
        /\ content[m] = {}
        /\ \A c \in Connections : sessions[c] # m
        /\ \A h \in HttpIds : registry[h] # m

\* A connection in a registered map is open, or its handler is about to remove it.
InMap ==
    \A h \in HttpIds : registry[h] # NoMap =>
        \A c \in content[registry[h]] :
            \/ pc[c] \in {"open", "find"}
            \/ pc[c] = "remove" /\ sessions[c] = registry[h]

\* Connection c is in the map of session h, is about to be, or is about to drop it.
Keeper(h, c) ==
    /\ httpId[c] = h
    /\ \/ c \in content[registry[h]]
       \/ pc[c] \in {"getAgain", "drop"}
       \/ pc[c] \in {"put", "isEmpty"} /\ sessions[c] = registry[h]

HasKeeper ==
    \A h \in HttpIds : registry[h] # NoMap => \E c \in Connections : Keeper(h, c)

ForgetInv == Fresh /\ InMap /\ HasKeeper

\* A new connection is in no map.
LEMMA HandshakeForgets ==
  ASSUME IInv, ForgetInv, NEW c \in Connections, NEW h \in HttpIds \cup {NoHttpId},
         NEW named \in BOOLEAN, Handshake(c, h, named)
  PROVE  ForgetInv'
  <1> USE RegistryAssumption DEF IInv, TypeOK, MapsOfSession, ForgetInv, Handshake, At,
          ConnectStep, DisconnectStep, MaybeMap, mapVars, handlerVars, closeVars, destroyVars
  <1>1. Fresh'  BY DEF Fresh
  <1>2. InMap'  BY DEF Fresh, InMap
  <1>3. HasKeeper'
    <2> SUFFICES ASSUME NEW k \in HttpIds, registry'[k] # NoMap
                 PROVE  \E d \in Connections : Keeper(k, d)'
      BY DEF HasKeeper
    <2> QED BY DEF Fresh, InMap, HasKeeper, Keeper
  <1> QED BY <1>1, <1>2, <1>3

\* A handler that finds the map of its session is to put itself there, or to leave it.
LEMMA GetForgets ==
  ASSUME IInv, ForgetInv, NEW c \in Connections, GetSessions(c) \/ GetAgain(c) \/ FindSessions(c)
  PROVE  ForgetInv'
  <1> USE RegistryAssumption DEF IInv, TypeOK, MapsOfSession, ForgetInv, GetSessions, GetAgain, FindSessions, Get, At,
          ConnectStep, DisconnectStep, MaybeMap, mapVars, handlerVars, closeVars, destroyVars
  <1>1. Fresh'  BY DEF Fresh
  <1>2. InMap'  BY DEF Fresh, InMap
  <1>3. HasKeeper'
    <2> SUFFICES ASSUME NEW k \in HttpIds, registry'[k] # NoMap
                 PROVE  \E d \in Connections : Keeper(k, d)'
      BY DEF HasKeeper
    <2> QED BY DEF Fresh, InMap, HasKeeper, Keeper
  <1> QED BY <1>1, <1>2, <1>3

\* A new map is empty and has its creator for a keeper.
LEMMA PutIfAbsentForgets ==
  ASSUME IInv, ForgetInv, NEW c \in Connections, PutIfAbsent(c)
  PROVE  ForgetInv'
  <1> USE RegistryAssumption DEF IInv, TypeOK, MapsOfSession, ForgetInv, PutIfAbsent, At,
          ConnectStep, DisconnectStep, MaybeMap, mapVars, handlerVars, closeVars, destroyVars
  <1>1. Fresh'  BY DEF Fresh
  <1>2. InMap'  BY DEF Fresh, InMap
  <1>3. HasKeeper'
    <2> SUFFICES ASSUME NEW k \in HttpIds, registry'[k] # NoMap
                 PROVE  \E d \in Connections : Keeper(k, d)'
      BY DEF HasKeeper
    <2> QED BY DEF Fresh, InMap, HasKeeper, Keeper
  <1> QED BY <1>1, <1>2, <1>3

\* A connection that is put into a map stays its keeper.
LEMMA PutForgets ==
  ASSUME IInv, ForgetInv, NEW c \in Connections, Put(c)
  PROVE  ForgetInv'
  <1> USE RegistryAssumption DEF IInv, TypeOK, MapsOfSession, ForgetInv, Put, At,
          ConnectStep, DisconnectStep, MaybeMap, mapVars, handlerVars, closeVars, destroyVars
  <1>1. Fresh'  BY DEF Fresh
  <1>2. InMap'  BY DEF Fresh, InMap
  <1>3. HasKeeper'
    <2> SUFFICES ASSUME NEW k \in HttpIds, registry'[k] # NoMap
                 PROVE  \E d \in Connections : Keeper(k, d)'
      BY DEF HasKeeper
    <2> QED BY DEF Fresh, InMap, HasKeeper, Keeper
  <1> QED BY <1>1, <1>2, <1>3

\* A connection that leaves its map is its keeper until it has asked whether it is empty.
LEMMA RemoveForgets ==
  ASSUME IInv, ForgetInv, NEW c \in Connections, Remove(c)
  PROVE  ForgetInv'
  <1> USE RegistryAssumption DEF IInv, TypeOK, MapsOfSession, ForgetInv, Remove, At,
          ConnectStep, DisconnectStep, MaybeMap, mapVars, handlerVars, closeVars, destroyVars
  <1>1. Fresh'  BY DEF Fresh
  <1>2. InMap'  BY DEF Fresh, InMap
  <1>3. HasKeeper'
    <2> SUFFICES ASSUME NEW k \in HttpIds, registry'[k] # NoMap
                 PROVE  \E d \in Connections : Keeper(k, d)'
      BY DEF HasKeeper
    <2> QED BY DEF Fresh, InMap, HasKeeper, Keeper
  <1> QED BY <1>1, <1>2, <1>3

\* A map that is not empty has its connections for keepers.
LEMMA IsEmptyForgets ==
  ASSUME IInv, ForgetInv, NEW c \in Connections, IsEmpty(c)
  PROVE  ForgetInv'
  <1> USE RegistryAssumption DEF IInv, TypeOK, MapsOfSession, ForgetInv, IsEmpty, At,
          ConnectStep, DisconnectStep, MaybeMap, mapVars, handlerVars, closeVars, destroyVars
  <1>1. Fresh'  BY DEF Fresh
  <1>2. InMap'  BY DEF Fresh, InMap
  <1>3. HasKeeper'
    <2> SUFFICES ASSUME NEW k \in HttpIds, registry'[k] # NoMap
                 PROVE  \E d \in Connections : Keeper(k, d)'
      BY DEF HasKeeper
    <2> QED BY DEF Fresh, InMap, HasKeeper, Keeper
  <1> QED BY <1>1, <1>2, <1>3

\* Dropping a map needs no keeper any more.
LEMMA DropForgets ==
  ASSUME IInv, ForgetInv, NEW c \in Connections, Drop(c)
  PROVE  ForgetInv'
  <1> USE RegistryAssumption DEF IInv, TypeOK, MapsOfSession, ForgetInv, Drop, At,
          ConnectStep, DisconnectStep, MaybeMap, mapVars, handlerVars, closeVars, destroyVars
  <1>1. Fresh'  BY DEF Fresh
  <1>2. InMap'  BY DEF Fresh, InMap
  <1>3. HasKeeper'
    <2> SUFFICES ASSUME NEW k \in HttpIds, registry'[k] # NoMap
                 PROVE  \E d \in Connections : Keeper(k, d)'
      BY DEF HasKeeper
    <2> QED BY DEF Fresh, InMap, HasKeeper, Keeper
  <1> QED BY <1>1, <1>2, <1>3

\* A client that leaves, and its disconnect event, leave the maps alone.
LEMMA LeaveForgets ==
  ASSUME IInv, ForgetInv, NEW c \in Connections, Leave(c) \/ Disconnect(c)
  PROVE  ForgetInv'
  <1> USE RegistryAssumption DEF IInv, TypeOK, MapsOfSession, ForgetInv, Leave, Disconnect, At,
          ConnectStep, DisconnectStep, MaybeMap, mapVars, handlerVars, closeVars, destroyVars
  <1>1. Fresh'  BY DEF Fresh
  <1>2. InMap'  BY DEF Fresh, InMap
  <1>3. HasKeeper'
    <2> SUFFICES ASSUME NEW k \in HttpIds, registry'[k] # NoMap
                 PROVE  \E d \in Connections : Keeper(k, d)'
      BY DEF HasKeeper
    <2> QED BY DEF Fresh, InMap, HasKeeper, Keeper
  <1> QED BY <1>1, <1>2, <1>3

\* The destroyed event takes a map away, and its closes leave the others alone.
LEMMA DestroyedForgets ==
  ASSUME IInv, ForgetInv, NEW h \in HttpIds, Destroy(h) \/ OnDestroyed(h)
  PROVE  ForgetInv'
  <1> USE RegistryAssumption DEF IInv, TypeOK, MapsOfSession, ForgetInv, Destroy, OnDestroyed,
          RemoveSessions, CloseDone, Close,
          ConnectStep, DisconnectStep, MaybeMap, mapVars, handlerVars, closeVars, destroyVars
  <1>1. Fresh'  BY DEF Fresh
  <1>2. InMap'  BY DEF Fresh, InMap
  <1>3. HasKeeper'
    <2> SUFFICES ASSUME NEW k \in HttpIds, registry'[k] # NoMap
                 PROVE  \E d \in Connections : Keeper(k, d)'
      BY DEF HasKeeper
    <2> QED BY DEF Fresh, InMap, HasKeeper, Keeper
  <1> QED BY <1>1, <1>2, <1>3

\* Every step keeps it.
LEMMA ForgetNext == IInv /\ ForgetInv /\ [Next]_vars => ForgetInv'
  <1> SUFFICES ASSUME IInv, ForgetInv, [Next]_vars PROVE ForgetInv'
    OBVIOUS
  <1>1. ASSUME NEW c \in Connections, OnConnect(c) PROVE ForgetInv'
    BY <1>1, HandshakeForgets, GetForgets, PutIfAbsentForgets, PutForgets DEF OnConnect
  <1>2. ASSUME NEW c \in Connections, Leave(c) \/ OnDisconnect(c) PROVE ForgetInv'
    BY <1>2, LeaveForgets, GetForgets, RemoveForgets, IsEmptyForgets, DropForgets
    DEF OnDisconnect
  <1>3. CASE UNCHANGED vars
    BY <1>3 DEF vars, mapVars, handlerVars, ForgetInv, Fresh, InMap, HasKeeper, Keeper
  <1> QED BY <1>1, <1>2, <1>3, DestroyedForgets DEF Next

\* The registry keeps nothing of a session whose connections have all closed, for
\* any number of them and whatever order their handlers run in.
THEOREM ClosedAreForgotten == Spec => []ForgetsClosed
  <1>1. Init => ForgetInv
    BY RegistryAssumption DEF Init, ForgetInv, Fresh, InMap, HasKeeper
  <1>2. IInv /\ ForgetInv => ForgetsClosed
    BY DEF IInv, TypeOK, MaybeMap, MapsOfSession, ForgetInv, InMap, HasKeeper, Keeper, ForgetsClosed
  <1>3. Spec => []ForgetInv
    BY <1>1, ForgetNext, InvariantHolds, PTL DEF Spec
  <1> QED BY <1>2, <1>3, InvariantHolds, PTL
=============================================================================
