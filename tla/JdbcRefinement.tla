--------------------------- MODULE JdbcRefinement ---------------------------
(***************************************************************************)
(* JdbcSessions implements SessionStore: the statements of a save look to  *)
(* the clients like one step, its commit or, if it writes no row, its last *)
(* statement.  Other than with Redis, a save may write back fields that    *)
(* its client only read.                                                   *)
(***************************************************************************)
EXTENDS JdbcSessions

-----------------------------------------------------------------------------
(* The inductive invariant *)

\* A row is that of a session created before, and its attribute goes with it.
RowInv ==
    \A k \in Keys :
        /\ Stored(k) => k \in keys /\ row[k].expiry = row[k].last + row[k].max
        /\ attribute[k] # NoPrincipal => Stored(k)

\* Uncommitted rows of a session are those of one transaction.
LockInv ==
    \A t, u \in Threads :
        t # u /\ tx[t] # {} /\ tx[u] # {} => copy[t].key # copy[u].key

\* A session that was never saved is known to its thread only.
NewInv ==
    \A t \in Threads : copy[t].isNew =>
        /\ copy[t].changed
        /\ copy[t].dirty \/ copy[t].principal = NoPrincipal
        /\ ~Stored(copy[t].key)
        /\ \A u \in Threads \ {t} : copy[u].key # copy[t].key

\* A thread without a session has an empty one, and writes only in a save.
IdleInv ==
    \A t \in Threads :
        /\ pc[t] = "idle" => copy[t].key = NoKey /\ ~copy[t].isNew
        /\ pc[t] # "idle" => copy[t].key \in keys /\ copy[t].id # NoId
        /\ tx[t] # {} => pc[t] \in Statement

\* The transaction of a session that is new, before each of its statements
InsertInv ==
    \A t \in Threads :
        LET s == copy[t] IN
        /\ s.isNew => pc[t] \in {"edit", "insert", "insertAttributes", "commit"}
        /\ pc[t] = "insert" => s.isNew /\ tx[t] = {}
        /\ pc[t] = "insertAttributes" =>
              s.isNew /\ tx[t] = {"row"} /\ s.principal # NoPrincipal
        /\ pc[t] = "commit" /\ s.isNew =>
              tx[t] = {"row"} \cup
                      IF s.principal = NoPrincipal THEN {} ELSE {"attribute"}

\* The transaction of a session loaded or saved before: it has written the row if
\* that was changed and is still there, and the attribute unless it was left
\* alone or is already gone.
UpdateInv ==
    \A t \in Threads :
        LET s == copy[t] IN
        /\ tx[t] # {} /\ ~s.isNew => Stored(s.key)
        /\ pc[t] = "update" => s.changed /\ tx[t] = {}
        /\ pc[t] \in {"attribute", "insertAttribute"} =>
              /\ s.dirty /\ tx[t] \subseteq {"row"}
              /\ tx[t] = {"row"} => s.changed
              /\ tx[t] = {} /\ s.changed => ~Stored(s.key)
        /\ pc[t] = "insertAttribute" => s.principal # NoPrincipal
        /\ pc[t] = "commit" /\ ~s.isNew /\ tx[t] # {} =>
              /\ "row" \in tx[t] <=> s.changed
              /\ IF "attribute" \in tx[t] THEN s.dirty
                 ELSE s.dirty => s.principal = NoPrincipal
                                 /\ attribute[s.key] = NoPrincipal

SaveInv ==
    TypeOK /\ RowInv /\ LockInv /\ NewInv /\ IdleInv /\ InsertInv /\ UpdateInv

\* An id is that of the session it was generated for, wherever it is used.
OwnerInv ==
    /\ \A k \in Keys : Stored(k) => owner[row[k].id] = k
    /\ \A t \in Threads :
        /\ pc[t] # "idle" => owner[copy[t].id] = copy[t].key
        /\ doomed[t] # NoId => pc[t] = "idle" /\ owner[doomed[t]] # NoKey

\* What the transactions keep to, however they are interleaved: the uncommitted
\* rows of a session belong to one save, which has found the session stored or
\* creates it, and has written what the flags of its copy ask for; and a DELETE
\* by an id, whichever changes of ids are committed first, takes no session but
\* the one the id was generated for.
JdbcInv == SaveInv /\ OwnerInv

-----------------------------------------------------------------------------
(* The refinement *)

storedValue(k) ==
    IF Stored(k)
    THEN [stored |-> TRUE, last |-> row[k].last, max |-> row[k].max,
          principal |-> attribute[k]]
    ELSE [stored |-> FALSE, last |-> 0, max |-> DefaultInterval,
          principal |-> NoPrincipal]

\* The fields that the flags of session s make save write
writtenFields(s) ==
    (IF s.isNew THEN {"creation", "max", "last"}
     ELSE IF s.changed THEN {"max", "last"} ELSE {})
    \cup IF s.dirty THEN {"principal"} ELSE {}

\* A save that is about to commit without having written anything is over.
heldCopy(t) ==
    IF pc[t] = "idle"
    THEN [id |-> NoKey, last |-> 0, max |-> DefaultInterval,
          principal |-> NoPrincipal, edits |-> {}]
    ELSE [id |-> copy[t].key, last |-> copy[t].last, max |-> copy[t].max,
          principal |-> copy[t].principal,
          edits |-> IF pc[t] = "commit" /\ tx[t] = {} THEN {} ELSE writtenFields(copy[t])]

storedValues == [k \in Keys |-> storedValue(k)]
heldCopies == [t \in Threads |-> heldCopy(t)]

\* The session that a thread in deleteById is to delete
doomedKeys ==
    [t \in Threads |-> IF doomed[t] = NoId THEN NoKey ELSE owner[doomed[t]]]

Store == INSTANCE SessionStore WITH
            Ids <- Keys, NoId <- NoKey, store <- storedValues,
            copy <- heldCopies, doomed <- doomedKeys, used <- keys,
            WritesUnchanged <- TRUE

\* Every behaviour of the repository's statements is one of SessionStore: however
\* saves, deletions, cleanups and failures are interleaved, no save brings back
\* a session whose row is gone, leaves a part of one, or mixes the fields of two
\* saves; one that fails leaves no trace; and a live session goes only by the
\* DELETE of a deleteById that was called for it, never by the cleanup.
ImplementsStore == Store!Spec
=============================================================================
