---------------------------- MODULE JdbcSessions ----------------------------
(***************************************************************************)
(* JdbcOperationsSessionRepository: threads that create, load, edit, save  *)
(* and delete sessions kept in the tables SPRING_SESSION and               *)
(* SPRING_SESSION_ATTRIBUTES, one SQL statement per step, with the cleanup *)
(* of expired sessions.                                                    *)
(*                                                                         *)
(* A session is known by its primary key, which never changes; its id may. *)
(* One of its attributes is told apart, the principal name or, if not      *)
(* Indexed, any other.  The tables hold what has been committed; tx[t] are *)
(* the rows of its session that the transaction of thread t has written    *)
(* and keeps locked until it ends.  pc names the next statement of a save; *)
(* in "edit" the thread is in no repository call.  A thread in deleteById  *)
(* is "idle", with doomed[t] the id to delete: a client that deletes its   *)
(* session has let go of it before (HttpSessionWrapper.invalidate).        *)
(***************************************************************************)
EXTENDS Integers

CONSTANTS
    Keys, Ids,      \* values of PRIMARY_ID and of SESSION_ID: random UUIDs
    NoKey, NoId,
    Threads,        \* request threads of all the JVMs
    Principals,     \* values of the attribute
    NoPrincipal,    \* null
    Intervals,      \* values of maxInactiveInterval
    DefaultInterval,
    Indexed,        \* whether the attribute is the principal name
    Touching,       \* FALSE is in it if some client loads a session without
                    \* setLastAccessedTime, TRUE if some client calls it
    SetPrincipals,  \* values the application gives the attribute
    MayRemove,      \* whether it calls removeAttribute
    SetIntervals,   \* intervals it gives a session
    MayChangeId,    \* whether it calls changeSessionId
    MaxTime         \* bound on the clock

MaybePrincipal == Principals \cup {NoPrincipal}

ASSUME JdbcAssumption ==
    /\ NoKey \notin Keys
    /\ NoId \notin Ids
    /\ NoPrincipal \notin Principals
    /\ Intervals \subseteq Int
    /\ DefaultInterval \in Intervals
    /\ {Indexed, MayRemove, MayChangeId} \subseteq BOOLEAN
    /\ Touching \subseteq BOOLEAN
    /\ SetPrincipals \subseteq Principals
    /\ SetIntervals \subseteq Intervals
    /\ MaxTime \in Nat

VARIABLES
    now,       \* the clock
    row,       \* SPRING_SESSION, by PRIMARY_ID
    attribute, \* the attribute's row of each session, NoPrincipal for none
    pc,        \* the next statement of each thread
    copy,      \* the JdbcSession each thread holds
    tx,        \* the uncommitted rows of each thread's transaction
    doomed,    \* the id that each thread's deleteById is for, NoId for none
    keys,      \* PRIMARY_IDs generated so far: they do not repeat
    owner      \* the session each SESSION_ID was generated for, NoKey for none

tables == <<row, attribute>>
local == <<pc, copy, tx>>
uuids == <<keys, owner>>
vars == <<now, tables, local, doomed, uuids>>

Statement == {"insert", "insertAttributes", "update", "attribute",
              "insertAttribute", "commit"}
Step == {"idle", "edit"} \cup Statement

Row == [id : Ids \cup {NoId}, last : Nat, max : Intervals, expiry : Int,
        indexed : MaybePrincipal]

NoRow == [id |-> NoId, last |-> 0, max |-> DefaultInterval, expiry |-> 0,
          indexed |-> NoPrincipal]

\* The delta is empty or, if dirty, has the attribute with its present value.
JdbcSession == [key : Keys \cup {NoKey}, id : Ids \cup {NoId}, last : Nat,
                max : Intervals, principal : MaybePrincipal,
                isNew : BOOLEAN, changed : BOOLEAN, dirty : BOOLEAN]

NoSession == [key |-> NoKey, id |-> NoId, last |-> 0, max |-> DefaultInterval,
              principal |-> NoPrincipal,
              isNew |-> FALSE, changed |-> FALSE, dirty |-> FALSE]

TypeOK ==
    /\ now \in Nat
    /\ row \in [Keys -> Row]
    /\ attribute \in [Keys -> MaybePrincipal]
    /\ pc \in [Threads -> Step]
    /\ copy \in [Threads -> JdbcSession]
    /\ tx \in [Threads -> SUBSET {"row", "attribute"}]
    /\ doomed \in [Threads -> Ids \cup {NoId}]
    /\ keys \subseteq Keys
    /\ owner \in [Ids -> Keys \cup {NoKey}]

Init ==
    /\ now = 0
    /\ row = [k \in Keys |-> NoRow]
    /\ attribute = [k \in Keys |-> NoPrincipal]
    /\ pc = [t \in Threads |-> "idle"]
    /\ copy = [t \in Threads |-> NoSession]
    /\ tx = [t \in Threads |-> {}]
    /\ doomed = [t \in Threads |-> NoId]
    /\ keys = {}
    /\ owner = [i \in Ids |-> NoKey]

-----------------------------------------------------------------------------
(* The tables *)

Stored(k) == row[k].id # NoId

\* A transaction that has written rows of session k keeps the others out.
Locked(k) == \E t \in Threads : copy[t].key = k /\ tx[t] # {}

\* Mutant: the schema without ON DELETE CASCADE
DeleteRowOnly(k) ==
    /\ row' = [row EXCEPT ![k] = NoRow]
    /\ UNCHANGED attribute

\* A DELETE of the session's row takes the attributes along (ON DELETE CASCADE).
DeleteRow(k) ==
    /\ row' = [row EXCEPT ![k] = NoRow]
    /\ attribute' = [attribute EXCEPT ![k] = NoPrincipal]

-----------------------------------------------------------------------------
(* The in-memory session *)

getExpiryTime(s) == s.last + s.max
isExpired(s) == s.max >= 0 /\ now - s.max >= s.last
getPrincipalName(s) == IF Indexed THEN s.principal ELSE NoPrincipal

\* The extractor fills the session with setAttribute: a session that has the
\* attribute is dirty as soon as it is loaded.
Load(k) ==
    [key |-> k, id |-> row[k].id, last |-> row[k].last, max |-> row[k].max,
     principal |-> attribute[k], isNew |-> FALSE,
     changed |-> Indexed /\ attribute[k] # NoPrincipal,
     dirty |-> attribute[k] # NoPrincipal]

Touched(s, touch) ==
    IF touch THEN [s EXCEPT !.last = now, !.changed = TRUE] ELSE s

Idle(t) == pc[t] = "idle" /\ doomed[t] = NoId

Goto(t, step) == pc' = [pc EXCEPT ![t] = step]
Hold(t, s) == copy' = [copy EXCEPT ![t] = s]

\* A new id for session k
generateId(i, k) ==
    /\ owner[i] = NoKey
    /\ owner' = [owner EXCEPT ![i] = k]

createSession(t, k, i) ==
    /\ Idle(t)
    /\ k \notin keys /\ keys' = keys \cup {k}
    /\ generateId(i, k)
    /\ Hold(t, [NoSession EXCEPT !.key = k, !.id = i, !.last = now,
                                 !.isNew = TRUE, !.changed = TRUE])
    /\ Goto(t, "edit")
    /\ UNCHANGED <<now, tables, tx, doomed>>

\* The application works on its session s.
Edit(t, s) ==
    /\ pc[t] = "edit"
    /\ Hold(t, s)
    /\ UNCHANGED <<now, tables, pc, tx, doomed, keys>>

setAttribute(t, p) ==
    /\ Edit(t, [copy[t] EXCEPT !.principal = p, !.dirty = TRUE,
                               !.changed = @ \/ Indexed])
    /\ UNCHANGED owner

\* The row is not marked as changed, even if its PRINCIPAL_NAME is at stake.
removeAttribute(t) ==
    /\ MayRemove
    /\ Edit(t, [copy[t] EXCEPT !.principal = NoPrincipal, !.dirty = TRUE])
    /\ UNCHANGED owner

setMaxInactiveInterval(t, max) ==
    /\ Edit(t, [copy[t] EXCEPT !.max = max, !.changed = TRUE])
    /\ UNCHANGED owner

changeSessionId(t, i) ==
    /\ MayChangeId
    /\ generateId(i, copy[t].key)
    /\ Edit(t, [copy[t] EXCEPT !.id = i, !.changed = TRUE])

\* The request is over.
EndRequest(t) ==
    /\ pc[t] = "edit"
    /\ Goto(t, "idle")
    /\ Hold(t, NoSession)
    /\ UNCHANGED <<now, tables, tx, doomed, uuids>>

-----------------------------------------------------------------------------
(* findById and deleteById *)

\* The SELECT sees the committed rows of a session as of one moment.
FindLive(t, k, touch) ==
    /\ Idle(t)
    /\ Stored(k) /\ ~isExpired(row[k])
    /\ Hold(t, Touched(Load(k), touch))
    /\ Goto(t, "edit")
    /\ UNCHANGED <<now, tables, tx, doomed, uuids>>

\* Thread t calls deleteById.
Doom(t, i) ==
    /\ Idle(t)
    /\ doomed' = [doomed EXCEPT ![t] = i]
    /\ UNCHANGED <<now, tables, local, uuids>>

\* findById(id) finds the session expired and deletes it.
FindExpired(t, k) ==
    /\ Stored(k) /\ isExpired(row[k])
    /\ Doom(t, row[k].id)

\* An id nobody has been given is not asked for.
deleteById(t, i) ==
    /\ owner[i] # NoKey
    /\ Doom(t, i)

\* The call of deleteById is over.
EndDelete(t) ==
    /\ doomed[t] # NoId
    /\ doomed' = [doomed EXCEPT ![t] = NoId]
    /\ UNCHANGED <<now, local, uuids>>

\* The DELETE by SESSION_ID, a transaction of its own
DeleteSession(t) ==
    /\ EndDelete(t)
    /\ IF \E k \in Keys : row[k].id = doomed[t]
       THEN \E k \in Keys : row[k].id = doomed[t] /\ ~Locked(k) /\ DeleteRow(k)
       ELSE UNCHANGED tables

\* The DELETE fails.
DeleteFails(t) ==
    /\ EndDelete(t)
    /\ UNCHANGED tables

\* Mutant: the interval is forgotten
CleanUpUntouched(k) ==
    /\ Stored(k) /\ row[k].last < now
    /\ ~Locked(k)
    /\ DeleteRow(k)
    /\ UNCHANGED <<now, local, doomed, uuids>>

\* cleanUpExpiredSessions.  Its statement takes the rows it finds one by one.
CleanUp(k) ==
    /\ Stored(k) /\ row[k].expiry < now
    /\ ~Locked(k)
    /\ DeleteRow(k)
    /\ UNCHANGED <<now, local, doomed, uuids>>

-----------------------------------------------------------------------------
(* save *)

AfterUpdate(s) == IF s.dirty THEN "attribute" ELSE "commit"

\* The transaction begins; its first statement depends on the session's flags.
Save(t) ==
    LET s == copy[t] IN
    /\ pc[t] = "edit"
    /\ Goto(t, IF s.isNew THEN "insert"
               ELSE IF s.changed THEN "update" ELSE AfterUpdate(s))
    /\ UNCHANGED <<now, tables, copy, tx, doomed, uuids>>

\* A statement of t that writes these rows, once nobody else has them
Write(t, step, next, rows) ==
    /\ pc[t] = step
    /\ rows # {} => \A u \in Threads \ {t} :
                       copy[u].key = copy[t].key => tx[u] = {}
    /\ tx' = [tx EXCEPT ![t] = @ \cup rows]
    /\ Goto(t, next)
    /\ UNCHANGED <<now, tables, copy, doomed, uuids>>

Insert(t) ==
    Write(t, "insert",
          IF copy[t].principal = NoPrincipal THEN "commit" ELSE "insertAttributes",
          {"row"})

InsertAttributes(t) == Write(t, "insertAttributes", "commit", {"attribute"})

\* Mutant: a session whose row is gone is inserted again (MERGE for UPDATE)
UpdateOrInsert(t) == Write(t, "update", AfterUpdate(copy[t]), {"row"})

\* The UPDATE finds no row if the session was deleted in the meantime.
Update(t) ==
    Write(t, "update", AfterUpdate(copy[t]),
          IF Stored(copy[t].key) THEN {"row"} ELSE {})

\* The DELETE of a removed attribute, or the UPDATE of one with a new value
ChangeAttribute(t) ==
    LET s == copy[t]
        found == attribute[s.key] # NoPrincipal
    IN  Write(t, "attribute",
              IF found \/ s.principal = NoPrincipal THEN "commit" ELSE "insertAttribute",
              IF found THEN {"attribute"} ELSE {})

\* The keys let a row in only if there is a session and no such row yet.
InsertAttribute(t) ==
    /\ pc[t] = "insertAttribute"
    /\ Stored(copy[t].key) /\ attribute[copy[t].key] = NoPrincipal
    /\ Write(t, "insertAttribute", "commit", {"attribute"})

RowOf(s) == [id |-> s.id, last |-> s.last, max |-> s.max,
             expiry |-> getExpiryTime(s), indexed |-> getPrincipalName(s)]

clearChangeFlags(s) == [s EXCEPT !.isNew = FALSE, !.changed = FALSE, !.dirty = FALSE]

Commit(t) ==
    LET s == copy[t] IN
    /\ pc[t] = "commit"
    /\ row' = IF "row" \in tx[t] THEN [row EXCEPT ![s.key] = RowOf(s)] ELSE row
    /\ attribute' = IF "attribute" \in tx[t]
                    THEN [attribute EXCEPT ![s.key] = s.principal] ELSE attribute
    /\ tx' = [tx EXCEPT ![t] = {}]
    /\ Hold(t, clearChangeFlags(s))
    /\ Goto(t, "edit")
    /\ UNCHANGED <<now, doomed, uuids>>

\* A statement fails: the transaction is undone, the flags stay and the caller
\* gets an exception.
Rollback(t) ==
    /\ pc[t] \in Statement
    /\ tx' = [tx EXCEPT ![t] = {}]
    /\ Goto(t, "edit")
    /\ UNCHANGED <<now, tables, copy, doomed, uuids>>

\* The session is gone, or another save has inserted the attribute meanwhile.
BreakKey(t) ==
    /\ pc[t] = "insertAttribute"
    /\ ~Stored(copy[t].key) \/ attribute[copy[t].key] # NoPrincipal
    /\ Rollback(t)

\* The thread dies with its connection: the database undoes what it did.
Crash(t) ==
    /\ pc[t] \in Statement \/ doomed[t] # NoId
    /\ tx' = [tx EXCEPT ![t] = {}]
    /\ Goto(t, "idle")
    /\ Hold(t, NoSession)
    /\ doomed' = [doomed EXCEPT ![t] = NoId]
    /\ UNCHANGED <<now, tables, uuids>>

-----------------------------------------------------------------------------

Tick ==
    /\ now < MaxTime
    /\ now' = now + 1
    /\ UNCHANGED <<tables, local, doomed, uuids>>

Request(t) ==
    \/ \E k \in Keys, i \in Ids : createSession(t, k, i)
    \/ \E k \in Keys, touch \in Touching : FindLive(t, k, touch)
    \/ \E k \in Keys : FindExpired(t, k)
    \/ \E i \in Ids : deleteById(t, i)
    \/ \E p \in SetPrincipals : setAttribute(t, p)
    \/ removeAttribute(t)
    \/ \E max \in SetIntervals : setMaxInactiveInterval(t, max)
    \/ \E i \in Ids : changeSessionId(t, i)
    \/ Save(t)
    \/ EndRequest(t)

\* The statements of a call
Execute(t) ==
    \/ Insert(t) \/ InsertAttributes(t) \/ Update(t) \/ ChangeAttribute(t)
    \/ InsertAttribute(t) \/ BreakKey(t) \/ Commit(t)
    \/ DeleteSession(t) \/ DeleteFails(t)

Next ==
    \/ \E t \in Threads : Request(t) \/ Execute(t) \/ Rollback(t) \/ Crash(t)
    \/ \E k \in Keys : CleanUp(k)
    \/ Tick

Spec == Init /\ [][Next]_vars

-----------------------------------------------------------------------------
(* Properties *)

\* findByIndexNameAndIndexValue selects by PRINCIPAL_NAME: to find the sessions
\* that have the principal name as their attribute, the column must agree with it.
PrincipalIndexed == \A k \in Keys : Stored(k) => row[k].indexed = attribute[k]
=============================================================================
