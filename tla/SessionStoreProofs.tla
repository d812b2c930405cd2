------------------------- MODULE SessionStoreProofs -------------------------
(***************************************************************************)
(* Proofs about SessionStore: the life of a session is one stretch of      *)
(* time.  Whatever implements SessionStore inherits it.                    *)
(***************************************************************************)
EXTENDS SessionStore, TLAPS

\* Client c is the one that creates the session it holds.
Creating(c) == "creation" \in copy[c].edits

\* What the constants are
Parameters == NoId \notin Ids /\ DefaultInterval \in Intervals

\* The invariant: a session that is being created is unknown to the store and to
\* the other clients.
StoreInv ==
    /\ TypeOK
    /\ StoredIsSettled
    /\ \A c \in Threads : copy[c].id \in used \cup {NoId}
    /\ \A c \in Threads : Creating(c) =>
          /\ copy[c].id \in used
          /\ \A d \in Threads : d # c => copy[d].id # copy[c].id

\* What Edit makes a client hold.
LEMMA EditHolds ==
    ASSUME NEW c, NEW s \in Session, NEW edits \in SUBSET Field, Edit(c, s, edits)
    PROVE  \E r \in Session :
              /\ Hold(c, r)
              /\ r.id = s.id
              /\ "creation" \in r.edits => "creation" \in edits
<1> DEFINE written == copy'[c].edits
           r == [s EXCEPT !.edits = written]
<1>1. written \subseteq edits \cup {"max", "last", "principal"} /\ Hold(c, r)
  BY DEF Edit, Others
<1> HIDE DEF written
<1>2. r \in Session /\ r.id = s.id /\ r.edits = written
  BY <1>1 DEF Session, Field, Whole
<1> HIDE DEF r
<1> QED
  BY <1>1, <1>2

\* Nothing is stored or held at first.
LEMMA StoreInvInit ==
    ASSUME Parameters, Init
    PROVE  StoreInv
  BY DEF Parameters, Init, StoreInv, TypeOK, StoredValue, Session, StoredIsSettled,
         Creating, NoCopy, NotStored

\* A client that changes its copy but becomes the creator of no session, and takes
\* none another client creates, keeps the invariant.
LEMMA HoldKeeps ==
    ASSUME StoreInv, NEW c \in Threads, NEW s \in Session, Hold(c, s),
           UNCHANGED <<now, store, used>>, doomed' \in [Threads -> Ids \cup {NoId}],
           s.id \in used \cup {NoId},
           "creation" \in s.edits => s.id = copy[c].id /\ Creating(c),
           s.id = copy[c].id \/ \A d \in Threads : Creating(d) => s.id # copy[d].id
    PROVE  /\ StoreInv'
           /\ \A id \in Ids : Settled(id) => Settled(id)'
<1>1. TypeOK'
  BY DEF StoreInv, TypeOK, Hold
<1>2. \A d \in Threads : copy'[d] = IF d = c THEN s ELSE copy[d]
  BY DEF StoreInv, TypeOK, Hold
<1> QED
  BY <1>1, <1>2 DEF StoreInv, StoredIsSettled, Settled, Creating

\* A step that stores no session anew and leaves the copies alone keeps it too.
LEMMA RemovalKeeps ==
    ASSUME StoreInv, UNCHANGED <<copy, used>>, TypeOK',
           \A id \in Ids : store'[id].stored => store[id].stored
    PROVE  /\ StoreInv'
           /\ \A id \in Ids : Settled(id) => Settled(id)'
  BY DEF StoreInv, StoredIsSettled, Settled, Creating

\* A save stores only the session its client creates, or one that is stored.
LEMMA SaveKeeps ==
    ASSUME StoreInv, NEW c \in Threads, save(c), NoId \notin Ids
    PROVE  /\ StoreInv'
           /\ \A id \in Ids : Settled(id) => Settled(id)'
           /\ \A id \in Ids : Settled(id) /\ ~store[id].stored => ~store'[id].stored
<1> DEFINE s == copy[c]
           r == [s EXCEPT !.edits = {}]
<1>1. s \in Session /\ UNCHANGED <<now, doomed, used>>
  BY DEF StoreInv, TypeOK, save
<1>2. r \in Session /\ r.id = s.id /\ r.edits = {}
  BY <1>1 DEF Session
<1>3. copy' = [copy EXCEPT ![c] = r]
  BY DEF save, Hold
<1> HIDE DEF r
<1>4. \A d \in Threads : copy'[d] = IF d = c THEN r ELSE copy[d]
  BY <1>3 DEF StoreInv, TypeOK
<1>5. store' = [id \in Ids |-> IF id = s.id THEN Written(store[id], s) ELSE store[id]]
  BY DEF save, StoreInv, TypeOK
<1>6. /\ \A id \in Ids : id # s.id => store'[id] = store[id]
      /\ \A id \in Ids : id = s.id => store'[id] = Written(store[id], s)
      /\ \A id \in Ids : store[id] \in StoredValue
  BY <1>5 DEF StoreInv, TypeOK
<1>7. ASSUME NEW v \in StoredValue
      PROVE  /\ Written(v, s) \in StoredValue
             /\ Written(v, s).stored => v.stored \/ Creating(c)
  BY <1>1, <1>7
  DEF Written, Merge, StoredValue, Session, Whole, Creating
<1>8. store' \in [Ids -> StoredValue]
  BY <1>5, <1>6, <1>7
<1>9. \A id \in Ids : store'[id].stored => store[id].stored \/ (Creating(c) /\ id = s.id)
  <2> SUFFICES ASSUME NEW id \in Ids, store'[id].stored
               PROVE  store[id].stored \/ (Creating(c) /\ id = s.id)
    OBVIOUS
  <2>1. CASE id = s.id
    <3>1. store'[id] = Written(store[id], s) /\ store[id] \in StoredValue
      BY <1>6, <2>1
    <3> QED
      BY <1>7, <2>1, <3>1
  <2>2. CASE id # s.id
    BY <1>6, <2>2
  <2> QED
    BY <2>1, <2>2
<1>10. \A id \in Ids : Settled(id) => Settled(id)'
  BY <1>1, <1>2, <1>4 DEF Settled
<1>11. Creating(c) => s.id \in used
  BY DEF StoreInv
<1>13. StoredIsSettled'
  <2> SUFFICES ASSUME NEW id \in Ids, store'[id].stored
               PROVE  Settled(id)'
    BY DEF StoredIsSettled
  <2>1. CASE store[id].stored
    BY <1>10, <2>1 DEF StoredIsSettled, StoreInv
  <2>2. CASE Creating(c) /\ id = s.id
    <3>1. PICK i : i = s.id
      OBVIOUS
    <3>2. copy'[c].id = i /\ \A d \in Threads : copy'[d].id = copy[d].id
      BY <1>2, <1>4, <3>1
    <3>3. id \in used' /\ \A d \in Threads : copy'[d].id = id => d = c
      BY <1>1, <1>11, <2>2, <3>2 DEF StoreInv
    <3> QED
      BY <1>2, <1>4, <3>3 DEF Settled
  <2> QED
    BY <1>9, <2>1, <2>2
<1>14. TypeOK'
  BY <1>1, <1>2, <1>3, <1>8 DEF StoreInv, TypeOK
<1>15. \A d \in Threads : Creating(d)' => d # c /\ Creating(d)
  BY <1>2, <1>4 DEF Creating
<1>16. \A d \in Threads : copy'[d].id = copy[d].id
  BY <1>2, <1>4
<1>17. StoreInv'
  BY <1>1, <1>13, <1>14, <1>15, <1>16 DEF StoreInv
<1>18. \A id \in Ids : Settled(id) /\ ~store[id].stored => ~store'[id].stored
  BY <1>9 DEF Settled, Creating
<1> QED
  BY <1>10, <1>17, <1>18

\* The invariant holds from each step to the next, a settled session stays
\* settled, and no step stores a settled session that is not in the store.
LEMMA StoreStep ==
    ASSUME Parameters, StoreInv, [Next]_storeVars
    PROVE  /\ StoreInv'
           /\ \A id \in Ids : Settled(id) => Settled(id)'
           /\ \A id \in Ids : Settled(id) /\ ~store[id].stored => ~store'[id].stored
<1> USE DEF Parameters
<1>0. /\ now \in Nat /\ copy \in [Threads -> Session]
      /\ store \in [Ids -> StoredValue] /\ used \subseteq Ids
      /\ doomed \in [Threads -> Ids \cup {NoId}]
  BY DEF StoreInv, TypeOK
<1>1. ASSUME NEW c \in Threads, NEW id \in Ids, createSession(c, id)
      PROVE  /\ StoreInv'
             /\ \A i \in Ids : Settled(i) => Settled(i)'
             /\ UNCHANGED store
  <2> DEFINE s == [id |-> id, last |-> now, max |-> DefaultInterval,
                   principal |-> NoPrincipal, edits |-> Whole]
  <2>1. s \in Session /\ copy' = [copy EXCEPT ![c] = s]
    BY <1>0, <1>1 DEF createSession, Hold, Session, Whole, Field
  <2>a. s.id = id /\ "creation" \in s.edits
    BY DEF Whole
  <2> HIDE DEF s
  <2>2. \A d \in Threads : copy'[d] = IF d = c THEN s ELSE copy[d]
    BY <1>0, <2>1
  <2>3. /\ copy[c].edits = {} /\ id \notin used /\ used' = used \cup {id}
        /\ UNCHANGED <<now, store, doomed>>
    BY <1>1 DEF createSession, NoCopy
  <2>4. TypeOK'
    BY <1>0, <2>1, <2>3 DEF TypeOK
  <2>5. \A i \in Ids : Settled(i) => Settled(i)'
    BY <2>2, <2>3, <2>a DEF Settled
  <2>6. StoredIsSettled'
    BY <2>3, <2>5 DEF StoreInv, StoredIsSettled
  <2>7. \A d \in Threads : copy[d].id # id
    BY <2>3 DEF StoreInv
  <2>8. \A d \in Threads : copy'[d].id \in used' \cup {NoId}
    BY <2>2, <2>3, <2>a DEF StoreInv
  <2>9. ASSUME NEW d \in Threads, Creating(d)'
        PROVE  /\ copy'[d].id \in used'
               /\ \A e \in Threads : e # d => copy'[e].id # copy'[d].id
    BY <2>2, <2>3, <2>7, <2>9, <2>a DEF StoreInv, Creating
  <2> QED
    BY <2>3, <2>4, <2>5, <2>6, <2>8, <2>9 DEF StoreInv
<1>2. ASSUME NEW c \in Threads, NEW id \in Ids, NEW touch \in BOOLEAN,
             findById(c, id, touch)
      PROVE  /\ StoreInv'
             /\ \A i \in Ids : Settled(i) => Settled(i)'
             /\ UNCHANGED store
  <2> DEFINE r == [id |-> id, last |-> IF touch THEN now ELSE store[id].last,
                   max |-> store[id].max, principal |-> store[id].principal,
                   edits |-> {}]
             edits == IF touch THEN {"last"} ELSE {}
  <2>1. /\ r \in Session /\ r.id = id
        /\ edits \in SUBSET Field /\ "creation" \notin edits
    BY <1>0 DEF Session, StoredValue, Field, Whole
  <2>a. Edit(c, r, edits) /\ UNCHANGED <<now, store, doomed, used>>
    BY <1>2 DEF findById
  <2> HIDE DEF r, edits
  <2>2. PICK s \in Session : Hold(c, s) /\ s.id = id /\ "creation" \notin s.edits
    BY <2>1, <2>a, EditHolds
  <2>3. id \in used /\ \A d \in Threads : Creating(d) => id # copy[d].id
    BY <1>2 DEF findById, Live, StoreInv, StoredIsSettled, Settled, Creating
  <2> QED
    BY <1>0, <2>2, <2>3, <2>a, HoldKeeps
<1>3. ASSUME NEW c \in Threads, NEW s \in Session, Hold(c, s),
             UNCHANGED <<now, store, used>>, doomed' \in [Threads -> Ids \cup {NoId}],
             s.id = copy[c].id, "creation" \in s.edits => Creating(c)
      PROVE  /\ StoreInv'
             /\ \A i \in Ids : Settled(i) => Settled(i)'
  <2>1. copy[c].id \in used \cup {NoId}
    BY DEF StoreInv
  <2> QED
    BY <1>3, <2>1, HoldKeeps
<1>4. ASSUME NEW c \in Threads, NEW p \in Principals \cup {NoPrincipal},
             setPrincipal(c, p)
      PROVE  /\ StoreInv'
             /\ \A i \in Ids : Settled(i) => Settled(i)'
             /\ UNCHANGED store
  <2> DEFINE r == [copy[c] EXCEPT !.principal = p]
  <2>1. r \in Session /\ r.id = copy[c].id /\ r.edits = copy[c].edits
    BY <1>0 DEF Session
  <2>2. Edit(c, r, r.edits \cup {"principal"}) /\ UNCHANGED <<now, store, doomed, used>>
    BY <1>4 DEF setPrincipal, Change
  <2> HIDE DEF r
  <2>3. r.edits \cup {"principal"} \in SUBSET Field
    BY <2>1 DEF Session, Field, Whole
  <2>4. PICK s \in Session : /\ Hold(c, s) /\ s.id = copy[c].id
                             /\ "creation" \in s.edits => Creating(c)
    BY <2>1, <2>2, <2>3, EditHolds DEF Creating
  <2> QED
    BY <1>0, <1>3, <2>2, <2>4
<1>5. ASSUME NEW c \in Threads, NEW max \in Intervals, setMaxInactiveInterval(c, max)
      PROVE  /\ StoreInv'
             /\ \A i \in Ids : Settled(i) => Settled(i)'
             /\ UNCHANGED store
  <2> DEFINE r == [copy[c] EXCEPT !.max = max]
  <2>1. r \in Session /\ r.id = copy[c].id /\ r.edits = copy[c].edits
    BY <1>0 DEF Session
  <2>2. Edit(c, r, r.edits \cup {"max"}) /\ UNCHANGED <<now, store, doomed, used>>
    BY <1>5 DEF setMaxInactiveInterval, Change
  <2> HIDE DEF r
  <2>3. r.edits \cup {"max"} \in SUBSET Field
    BY <2>1 DEF Session, Field, Whole
  <2>4. PICK s \in Session : /\ Hold(c, s) /\ s.id = copy[c].id
                             /\ "creation" \in s.edits => Creating(c)
    BY <2>1, <2>2, <2>3, EditHolds DEF Creating
  <2> QED
    BY <1>0, <1>3, <2>2, <2>4
<1>6. ASSUME NEW c \in Threads, Drop(c)
      PROVE  /\ StoreInv'
             /\ \A i \in Ids : Settled(i) => Settled(i)'
             /\ UNCHANGED store
  <2>1. /\ NoCopy \in Session /\ NoCopy.id = NoId /\ "creation" \notin NoCopy.edits
        /\ Hold(c, NoCopy) /\ UNCHANGED <<now, store, used>>
        /\ doomed' \in [Threads -> Ids \cup {NoId}]
    BY <1>0, <1>6 DEF NoCopy, Session, Drop
  <2>2. \A d \in Threads : Creating(d) => NoId # copy[d].id
    BY <1>0 DEF StoreInv
  <2> QED
    BY <2>1, <2>2, HoldKeeps
<1>7. ASSUME NEW id \in Ids, store' = [store EXCEPT ![id] = NotStored],
             doomed' \in [Threads -> Ids \cup {NoId}], UNCHANGED <<now, copy, used>>
      PROVE  /\ StoreInv'
             /\ \A i \in Ids : Settled(i) => Settled(i)'
             /\ \A i \in Ids : store'[i].stored => store[i].stored
  <2>1. NotStored \in StoredValue /\ ~NotStored.stored
    BY DEF NotStored, StoredValue
  <2>2. TypeOK' /\ \A i \in Ids : store'[i].stored => store[i].stored
    BY <1>0, <1>7, <2>1 DEF TypeOK
  <2> QED
    BY <1>7, <2>2, RemovalKeeps
<1>11. ASSUME NEW id \in Ids, Evict(id)
       PROVE  /\ StoreInv'
              /\ \A i \in Ids : Settled(i) => Settled(i)'
              /\ \A i \in Ids : store'[i].stored => store[i].stored
  BY <1>0, <1>7, <1>11 DEF Evict
<1>12. ASSUME NEW c \in Threads, Delete(c)
       PROVE  /\ StoreInv'
              /\ \A i \in Ids : Settled(i) => Settled(i)'
              /\ \A i \in Ids : store'[i].stored => store[i].stored
  <2>1. PICK id \in Ids : id = doomed[c]
    BY <1>0, <1>12 DEF Delete
  <2>2. doomed' \in [Threads -> Ids \cup {NoId}]
    BY <1>0, <1>12 DEF Delete
  <2>3. store' = [store EXCEPT ![id] = NotStored] /\ UNCHANGED <<now, copy, used>>
    BY <1>12, <2>1 DEF Delete
  <2> QED
    BY <1>7, <2>2, <2>3
<1>13. ASSUME NEW c \in Threads, Miss(c) \/ \E id \in Ids : deleteById(c, id)
       PROVE  /\ StoreInv'
              /\ \A i \in Ids : Settled(i) => Settled(i)'
              /\ UNCHANGED store
  <2>1. TypeOK' /\ UNCHANGED <<store, copy, used>>
    BY <1>0, <1>13 DEF Miss, deleteById, TypeOK
  <2> QED
    BY <2>1, RemovalKeeps
<1>8. CASE Tick
  <2>1. TypeOK' /\ UNCHANGED <<store, copy, used>>
    BY <1>0, <1>8 DEF Tick, TypeOK
  <2> QED
    BY <2>1, RemovalKeeps
<1>9. CASE UNCHANGED storeVars
  <2>1. TypeOK' /\ UNCHANGED <<store, copy, used>>
    BY <1>0, <1>9 DEF storeVars, TypeOK
  <2> QED
    BY <2>1, RemovalKeeps
<1> QED
  BY <1>1, <1>2, <1>4, <1>5, <1>6, <1>8, <1>9, <1>11, <1>12, <1>13, SaveKeeps
  DEF Next

\* A session is in the store only once its creator has saved it.
THEOREM OnlySettledAreStored == Parameters => (Spec => []StoredIsSettled)
<1>1. ASSUME Parameters
      PROVE  Spec => []StoredIsSettled
  <2>1. StoreInv /\ [Next]_storeVars => StoreInv'
    BY <1>1, StoreStep
  <2>2. Init => StoreInv
    BY <1>1, StoreInvInit
  <2>3. StoreInv => StoredIsSettled
    BY DEF StoreInv
  <2> QED
    BY <2>1, <2>2, <2>3, PTL DEF Spec
<1> QED
  BY <1>1

\* A session that was deleted, or dropped after it had expired, is not stored again
\* in any implementation of SessionStore, whatever copies of it are saved later.
THEOREM GoneSessionsStayGone == Parameters => (Spec => GoneStaysGone)
<1>1. ASSUME Parameters, NEW id \in Ids
      PROVE  Spec => [](Settled(id) /\ ~store[id].stored => [](~store[id].stored))
  <2>1. StoreInv /\ [Next]_storeVars => StoreInv'
    BY <1>1, StoreStep
  <2>2. Init => StoreInv
    BY <1>1, StoreInvInit
  <2>3. StoreInv /\ [Next]_storeVars /\ Settled(id) /\ ~store[id].stored
          => (Settled(id) /\ ~store[id].stored)'
    BY <1>1, StoreStep
  <2> QED
    BY <2>1, <2>2, <2>3, PTL DEF Spec
<1>2. ASSUME Parameters
      PROVE  Spec => \A id \in Ids :
               [](Settled(id) /\ ~store[id].stored => [](~store[id].stored))
  BY <1>1, <1>2
<1> QED
  BY <1>2 DEF GoneStaysGone
=============================================================================
