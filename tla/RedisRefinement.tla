-------------------------- MODULE RedisRefinement --------------------------
(***************************************************************************)
(* RedisSessions implements SessionStore: the ten commands of a save look  *)
(* to the clients like one step, the HMSET, and the hash a deletion leaves *)
(* behind, with a zero interval, like no session at all.                   *)
(***************************************************************************)
EXTENDS RedisSessionsInv

\* A hash with a zero interval is what a deletion leaves for late saves.
storedValue(id) ==
    IF Exists(id) /\ hash[id].max # 0
    THEN [stored |-> TRUE, last |-> hash[id].last, max |-> hash[id].max,
          principal |-> hash[id].principal]
    ELSE [stored |-> FALSE, last |-> 0, max |-> DefaultInterval,
          principal |-> NoPrincipal]

\* deleteById's own session is not a client's copy: it is the call under way,
\* until the HMSET of the zero interval.
heldCopy(t) ==
    IF pc[t] = "idle" \/ Deleting(t)
    THEN [id |-> NoId, last |-> 0, max |-> DefaultInterval,
          principal |-> NoPrincipal, edits |-> {}]
    ELSE [id |-> session[t].id, last |-> session[t].last, max |-> session[t].max,
          principal |-> session[t].principal, edits |-> session[t].delta]

doomedId(t) ==
    IF pc[t] \in DeleteStep \/ (caller[t] = "delete" /\ pc[t] = "hmset")
    THEN session[t].id ELSE NoId

storedValues == [id \in Ids |-> storedValue(id)]
heldCopies == [t \in Threads |-> heldCopy(t)]
doomedIds == [t \in Threads |-> doomedId(t)]

Store == INSTANCE SessionStore WITH
            store <- storedValues, copy <- heldCopies, doomed <- doomedIds,
            WritesUnchanged <- FALSE

\* Every behaviour of the repository's commands is one of SessionStore: no save
\* of a request, however its commands are interleaved, writes a field that the
\* request did not change, brings back a session that was deleted or whose hash
\* is gone, or leaves a part of one; and a session that findById would return
\* goes only by the HMSET of a deleteById that some client has called: Redis
\* evicts no live session.  (One that has expired may be revived by a late save
\* as long as its hash is there.)
ImplementsStore == Store!Spec
=============================================================================
