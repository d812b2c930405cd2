------------------------- MODULE WebSocketRegistry -------------------------
(***************************************************************************)
(* WebSocketRegistryListener: the map from HTTP session ids to the maps of *)
(* their WebSocket connections, as the threads that open, close and        *)
(* destroy see it.  Both levels are ConcurrentHashMaps: one operation on a *)
(* map is one step, and what happens between two operations is not         *)
(* excluded by any lock.                                                   *)
(*                                                                         *)
(* The events of one connection are handled one after another, those of    *)
(* different connections and of HTTP sessions concurrently.  The map that  *)
(* connection c creates is named c: it creates at most one.                *)
(***************************************************************************)
EXTENDS FiniteSets

CONSTANTS
    Connections,  \* WebSocketSessions
    HttpIds,      \* ids of HTTP sessions
    NoHttpId,     \* the null id, of a connection without HTTP session
    NoMap,        \* the null map
    ClientsLeave  \* whether clients close connections

ASSUME RegistryAssumption ==
    /\ NoHttpId \notin HttpIds
    /\ NoMap \notin Connections
    /\ ClientsLeave \in BOOLEAN

VARIABLES
    registry,  \* httpSessionIdToWsSessions: the map of each session, or NoMap
    content,   \* the connections in each inner map
    pc,        \* the next step of each connection's event handler
    httpId,    \* the session id among the connection's attributes
    sessions,  \* the map each handler has got hold of
    closedBy,  \* who closed the connection: "nobody", "client" or "listener"
    ending,    \* each HTTP session: "live", "event", "closing" or "done"
    closing,   \* the map whose connections the destroyed event is closing
    pending,   \* those of them it has not come to yet
    registered,\* history: connections whose registration is complete
    due,       \* history: those registered when their session's map was removed
    left       \* history: the sessions some client of which left

mapVars == <<registry, content, registered>>
handlerVars == <<pc, httpId, sessions>>
closeVars == <<closedBy, left>>
destroyVars == <<ending, closing, pending, due>>
vars == <<mapVars, handlerVars, closeVars, destroyVars>>

ConnectStep == {"get", "putIfAbsent", "getAgain", "put"}
DisconnectStep == {"find", "remove", "isEmpty", "drop"}
MaybeMap == Connections \cup {NoMap}

\* The types of the variables; a handler that uses a map holds one, never null.
TypeOK ==
    /\ registry \in [HttpIds -> MaybeMap]
    /\ content \in [Connections -> SUBSET Connections]
    /\ pc \in [Connections -> {"new", "open", "closed"} \cup ConnectStep
                                                        \cup DisconnectStep]
    /\ httpId \in [Connections -> HttpIds \cup {NoHttpId}]
    /\ sessions \in [Connections -> MaybeMap]
    /\ closedBy \in [Connections -> {"nobody", "client", "listener"}]
    /\ ending \in [HttpIds -> {"live", "event", "closing", "done"}]
    /\ closing \in [HttpIds -> MaybeMap]
    /\ pending \in [HttpIds -> SUBSET Connections]
    /\ registered \subseteq Connections
    /\ due \subseteq Connections
    /\ left \subseteq HttpIds
    /\ \A c \in Connections :
           pc[c] \in {"put", "remove", "isEmpty"} => sessions[c] # NoMap

Init ==
    /\ registry = [h \in HttpIds |-> NoMap]
    /\ content = [m \in Connections |-> {}]
    /\ pc = [c \in Connections |-> "new"]
    /\ httpId = [c \in Connections |-> NoHttpId]
    /\ sessions = [c \in Connections |-> NoMap]
    /\ closedBy = [c \in Connections |-> "nobody"]
    /\ ending = [h \in HttpIds |-> "live"]
    /\ closing = [h \in HttpIds |-> NoMap]
    /\ pending = [h \in HttpIds |-> {}]
    /\ registered = {} /\ due = {} /\ left = {}

-----------------------------------------------------------------------------
(* Opening a connection *)

\* The step of connection c's handler from step to next
At(c, step, next) ==
    /\ pc[c] = step
    /\ pc' = [pc EXCEPT ![c] = next]

\* Mutant: the map of any session is looked up
GetFromAny(c, step, ifNull, ifFound) ==
    \E h \in HttpIds :
        /\ At(c, step, IF registry[h] = NoMap THEN ifNull ELSE ifFound)
        /\ sessions' = [sessions EXCEPT ![c] = registry[h]]
        /\ UNCHANGED <<mapVars, httpId, closeVars, destroyVars>>

\* httpSessionIdToWsSessions.get(httpSessionId)
Get(c, step, ifNull, ifFound) ==
    LET found == registry[httpId[c]] IN
    /\ At(c, step, IF found = NoMap THEN ifNull ELSE ifFound)
    /\ sessions' = [sessions EXCEPT ![c] = found]
    /\ UNCHANGED <<mapVars, httpId, closeVars, destroyVars>>

\* beforeHandshake, which keeps the id of a live HTTP session among the
\* connection's attributes, and the connect event.  Only a connection with a
\* principal is registered; the null id fails in ConcurrentHashMap.get, and the
\* publisher of the event logs it.
Handshake(c, h, named) ==
    /\ h # NoHttpId => ending[h] = "live"
    /\ httpId' = [httpId EXCEPT ![c] = h]
    /\ At(c, "new", IF named /\ h # NoHttpId THEN "get" ELSE "open")
    /\ UNCHANGED <<mapVars, sessions, closeVars, destroyVars>>

GetSessions(c) == Get(c, "get", "putIfAbsent", "put")

\* Mutant: put for putIfAbsent
PutMap(c) ==
    /\ At(c, "putIfAbsent", "getAgain")
    /\ registry' = [registry EXCEPT ![httpId[c]] = c]
    /\ UNCHANGED <<content, registered, httpId, sessions, closeVars, destroyVars>>

PutIfAbsent(c) ==
    /\ At(c, "putIfAbsent", "getAgain")
    /\ registry' = [registry EXCEPT ![httpId[c]] = IF @ = NoMap THEN c ELSE @]
    /\ UNCHANGED <<content, registered, httpId, sessions, closeVars, destroyVars>>

\* The map may have been removed in the meantime: put then fails on null, which
\* the publisher of the event logs, and the connection stays open.
GetAgain(c) == Get(c, "getAgain", "open", "put")

Put(c) ==
    /\ At(c, "put", "open")
    /\ content' = [content EXCEPT ![sessions[c]] = @ \cup {c}]
    /\ registered' = registered \cup {c}
    /\ UNCHANGED <<registry, httpId, sessions, closeVars, destroyVars>>

-----------------------------------------------------------------------------
(* Closing a connection *)

Leave(c) ==
    /\ ClientsLeave
    /\ pc[c] # "new" /\ closedBy[c] = "nobody"
    /\ closedBy' = [closedBy EXCEPT ![c] = "client"]
    /\ left' = left \cup ({httpId[c]} \ {NoHttpId})
    /\ UNCHANGED <<mapVars, handlerVars, destroyVars>>

\* The disconnect event of a closed connection follows its connect event.
Disconnect(c) ==
    /\ closedBy[c] # "nobody"
    /\ At(c, "open", IF httpId[c] = NoHttpId THEN "closed" ELSE "find")
    /\ UNCHANGED <<mapVars, httpId, sessions, closeVars, destroyVars>>

\* Mutant: the map that was found is not checked for null
FindUnchecked(c) == Get(c, "find", "remove", "remove")

FindSessions(c) == Get(c, "find", "closed", "remove")

Remove(c) ==
    /\ At(c, "remove", "isEmpty")
    /\ content' = [content EXCEPT ![sessions[c]] = @ \ {c}]
    /\ UNCHANGED <<registry, registered, httpId, sessions, closeVars, destroyVars>>

\* Mutant: a map is dropped by the last but one connection
IsAlmostEmpty(c) ==
    /\ At(c, "isEmpty", IF Cardinality(content[sessions[c]]) = 1 THEN "drop" ELSE "closed")
    /\ UNCHANGED <<mapVars, httpId, sessions, closeVars, destroyVars>>

IsEmpty(c) ==
    /\ At(c, "isEmpty", IF content[sessions[c]] = {} THEN "drop" ELSE "closed")
    /\ UNCHANGED <<mapVars, httpId, sessions, closeVars, destroyVars>>

\* httpSessionIdToWsSessions.remove(httpSessionId), whatever map that is now
Drop(c) ==
    /\ At(c, "drop", "closed")
    /\ registry' = [registry EXCEPT ![httpId[c]] = NoMap]
    /\ UNCHANGED <<content, registered, httpId, sessions, closeVars, destroyVars>>

-----------------------------------------------------------------------------
(* closeWsSessions *)

\* The HTTP session is destroyed and its event is on the way.
Destroy(h) ==
    /\ ending[h] = "live"
    /\ ending' = [ending EXCEPT ![h] = "event"]
    /\ UNCHANGED <<mapVars, handlerVars, closeVars, closing, pending, due>>

RemoveSessions(h) ==
    LET m == registry[h] IN
    /\ ending[h] = "event"
    /\ registry' = [registry EXCEPT ![h] = NoMap]
    /\ closing' = [closing EXCEPT ![h] = m]
    /\ pending' = [pending EXCEPT ![h] = IF m = NoMap THEN {} ELSE content[m]]
    /\ ending' = [ending EXCEPT ![h] = IF m = NoMap THEN "done" ELSE "closing"]
    /\ due' = due \cup {c \in registered : httpId[c] = h}
    /\ UNCHANGED <<content, registered, handlerVars, closeVars>>

\* The iterator is weakly consistent: a connection that is put while it runs may
\* be met or not, and so may one that is removed.
Close(h, c) ==
    /\ ending[h] = "closing"
    /\ \/ c \in pending[h]
       \/ c \in content[closing[h]] /\ closedBy[c] = "nobody"
    /\ pending' = [pending EXCEPT ![h] = @ \ {c}]
    /\ closedBy' = [closedBy EXCEPT ![c] = IF @ = "nobody" THEN "listener" ELSE @]
    /\ UNCHANGED <<mapVars, handlerVars, left, ending, closing, due>>

CloseDone(h) ==
    /\ ending[h] = "closing"
    /\ pending[h] \cap content[closing[h]] = {}
    /\ ending' = [ending EXCEPT ![h] = "done"]
    /\ UNCHANGED <<mapVars, handlerVars, closeVars, closing, pending, due>>

-----------------------------------------------------------------------------

OnConnect(c) ==
    \/ \E h \in HttpIds \cup {NoHttpId}, named \in BOOLEAN : Handshake(c, h, named)
    \/ GetSessions(c) \/ PutIfAbsent(c) \/ GetAgain(c) \/ Put(c)

OnDisconnect(c) ==
    Disconnect(c) \/ FindSessions(c) \/ Remove(c) \/ IsEmpty(c) \/ Drop(c)

OnDestroyed(h) ==
    RemoveSessions(h) \/ CloseDone(h) \/ \E c \in Connections : Close(h, c)

Next ==
    \/ \E c \in Connections : OnConnect(c) \/ Leave(c) \/ OnDisconnect(c)
    \/ \E h \in HttpIds : Destroy(h) \/ OnDestroyed(h)

Spec == Init /\ [][Next]_vars

-----------------------------------------------------------------------------
(* Properties *)

\* The listener closes no connection of an HTTP session that has not ended.
OnlyEndedAreClosed ==
    \A c \in Connections : closedBy[c] = "listener" =>
        httpId[c] \in HttpIds /\ ending[httpId[c]] # "live"

\* When the destroyed event has been handled, every connection whose registration
\* was complete before is closed (unless some client of its session left,
\* and its disconnect event may have thrown away the map).
RegisteredAreClosed ==
    \A c \in due : ending[httpId[c]] = "done" => closedBy[c] # "nobody"
ClosedUnlessClientsLeft ==
    \A c \in due : ending[httpId[c]] = "done" /\ httpId[c] \notin left
                    => closedBy[c] # "nobody"

\* The registry keeps nothing of a session whose connections have all closed.
ForgetsClosed ==
    \A h \in HttpIds :
        (\A c \in Connections : httpId[c] = h => pc[c] = "closed")
            => registry[h] = NoMap
=============================================================================
