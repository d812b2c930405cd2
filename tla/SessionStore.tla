---------------------------- MODULE SessionStore ----------------------------
(***************************************************************************)
(* What a client of SessionRepository may count on, whatever the store: a  *)
(* session is one value that is created, loaded, written back and deleted  *)
(* in single steps.  Each client works on a copy of its own; a save writes *)
(* back exactly the fields the client has changed or, if WritesUnchanged,  *)
(* perhaps others with the values the copy has.                            *)
(*                                                                         *)
(* A session leaves the store in two ways: a call of deleteById is under   *)
(* way for it, or the store drops it, which it may only do with a session  *)
(* that has expired.  No save brings it back from there.  As long as an    *)
(* expired session is stored, though, a save may revive it, if it writes a *)
(* later access time or another interval.                                  *)
(*                                                                         *)
(* The methods are those of the interface.  An id stands for the session:  *)
(* changeSessionId is left out.                                            *)
(***************************************************************************)
EXTENDS Integers

CONSTANTS
    Ids, Threads, NoId, Principals, NoPrincipal, Intervals, DefaultInterval,
    WritesUnchanged  \* whether a save may write fields the client only read

VARIABLES
    now,    \* the clock
    store,  \* the stored value of each session
    copy,   \* the Session each client holds
    doomed, \* the id that each client's call of deleteById is for, NoId for none
    used    \* ids given so far

storeVars == <<now, store, copy, doomed, used>>

Whole == {"creation", "max", "last"}

\* The value of a session that is not in the store
NotStored == [stored |-> FALSE, last |-> 0, max |-> DefaultInterval,
              principal |-> NoPrincipal]

NoCopy == [id |-> NoId, last |-> 0, max |-> DefaultInterval,
           principal |-> NoPrincipal, edits |-> {}]

Field == Whole \cup {"principal"}
StoredValue == [stored : BOOLEAN, last : Nat, max : Intervals,
                principal : Principals \cup {NoPrincipal}]
Session == [id : Ids \cup {NoId}, last : Nat, max : Intervals,
            principal : Principals \cup {NoPrincipal}, edits : SUBSET Field]

TypeOK ==
    /\ now \in Nat
    /\ store \in [Ids -> StoredValue]
    /\ copy \in [Threads -> Session]
    /\ doomed \in [Threads -> Ids \cup {NoId}]
    /\ used \subseteq Ids

Init ==
    /\ now = 0
    /\ store = [id \in Ids |-> NotStored]
    /\ copy = [c \in Threads |-> NoCopy]
    /\ doomed = [c \in Threads |-> NoId]
    /\ used = {}

isExpired(v) == v.max >= 0 /\ now - v.max >= v.last
Live(id) == store[id].stored /\ ~isExpired(store[id])

Hold(c, s) == copy' = [copy EXCEPT ![c] = s]

createSession(c, id) ==
    /\ copy[c] = NoCopy
    /\ id \notin used
    /\ used' = used \cup {id}
    /\ Hold(c, [id |-> id, last |-> now, max |-> DefaultInterval,
                principal |-> NoPrincipal, edits |-> Whole])
    /\ UNCHANGED <<now, store, doomed>>

\* Fields that a save may write beside those the client has changed
Others == IF WritesUnchanged THEN {"max", "last", "principal"} ELSE {}

\* Client c holds s, of which a save is to write the fields in edits.
Edit(c, s, edits) ==
    LET written == copy'[c].edits IN
    /\ edits \subseteq written /\ written \subseteq edits \cup Others
    /\ Hold(c, [s EXCEPT !.edits = written])

\* findById, by a client that sets the access time at once or never does
findById(c, id, touch) ==
    /\ copy[c] = NoCopy
    /\ Live(id)
    /\ Edit(c, [id |-> id, last |-> IF touch THEN now ELSE store[id].last,
                max |-> store[id].max, principal |-> store[id].principal,
                edits |-> {}],
            IF touch THEN {"last"} ELSE {})
    /\ UNCHANGED <<now, store, doomed, used>>

\* Client c gives field f of its copy a new value: it holds s then.
Change(c, s, f) ==
    /\ copy[c] # NoCopy
    /\ Edit(c, s, s.edits \cup {f})
    /\ UNCHANGED <<now, store, doomed, used>>

setPrincipal(c, p) == Change(c, [copy[c] EXCEPT !.principal = p], "principal")
setMaxInactiveInterval(c, max) == Change(c, [copy[c] EXCEPT !.max = max], "max")

\* The stored value v with the fields that client's copy s has changed
Merge(v, s) ==
    [stored |-> TRUE,
     last |-> IF "last" \in s.edits THEN s.last ELSE v.last,
     max |-> IF "max" \in s.edits THEN s.max ELSE v.max,
     principal |-> IF "principal" \in s.edits THEN s.principal ELSE v.principal]

\* A save of a session that is not stored has no effect, unless it is the first.
Written(v, s) == IF v.stored \/ Whole \subseteq s.edits THEN Merge(v, s) ELSE v

save(c) ==
    /\ copy[c] # NoCopy
    /\ store' = [store EXCEPT ![copy[c].id] = Written(@, copy[c])]
    /\ Hold(c, [copy[c] EXCEPT !.edits = {}])
    /\ UNCHANGED <<now, doomed, used>>

\* Client c calls deleteById.
deleteById(c, id) ==
    /\ doomed[c] = NoId
    /\ doomed' = [doomed EXCEPT ![c] = id]
    /\ UNCHANGED <<now, store, copy, used>>

\* The call takes effect, on a session stored or not.
Delete(c) ==
    /\ doomed[c] # NoId
    /\ store' = [store EXCEPT ![doomed[c]] = NotStored]
    /\ doomed' = [doomed EXCEPT ![c] = NoId]
    /\ UNCHANGED <<now, copy, used>>

\* The call fails, or names the session by an id it no longer has.
Miss(c) ==
    /\ doomed[c] # NoId
    /\ doomed' = [doomed EXCEPT ![c] = NoId]
    /\ UNCHANGED <<now, store, copy, used>>

\* The store drops an expired session, never one that findById would return.
Evict(id) ==
    /\ ~Live(id)
    /\ store' = [store EXCEPT ![id] = NotStored]
    /\ UNCHANGED <<now, copy, doomed, used>>

\* The client's request is over, or its thread has died in a call.
Drop(c) ==
    /\ copy[c] # NoCopy \/ doomed[c] # NoId
    /\ Hold(c, NoCopy)
    /\ doomed' = [doomed EXCEPT ![c] = NoId]
    /\ UNCHANGED <<now, store, used>>

Tick ==
    /\ now' = now + 1
    /\ UNCHANGED <<store, copy, doomed, used>>

\* An implementation takes steps of its own in between, which no client sees.
Next ==
    \/ UNCHANGED storeVars
    \/ \E c \in Threads :
          \/ \E id \in Ids : createSession(c, id)
          \/ \E id \in Ids, touch \in BOOLEAN : findById(c, id, touch)
          \/ \E p \in Principals \cup {NoPrincipal} : setPrincipal(c, p)
          \/ \E max \in Intervals : setMaxInactiveInterval(c, max)
          \/ save(c)
          \/ \E id \in Ids : deleteById(c, id)
          \/ Delete(c) \/ Miss(c)
          \/ Drop(c)
    \/ \E id \in Ids : Evict(id)
    \/ Tick

Spec == Init /\ [][Next]_storeVars

-----------------------------------------------------------------------------
(* Properties *)

\* Session id has been saved or given up: no client is to save it first.
Settled(id) ==
    id \in used /\ \A c \in Threads : copy[c].id = id => "creation" \notin copy[c].edits

\* A session that was deleted or dropped is never stored again, whoever still holds
\* and saves a copy of it.
GoneStaysGone ==
    \A id \in Ids :
        [](Settled(id) /\ ~store[id].stored => [](~store[id].stored))

\* Only a settled session is in the store: with GoneStaysGone, an id is
\* stored over one stretch of time only.
StoredIsSettled == \A id \in Ids : store[id].stored => Settled(id)
=============================================================================
