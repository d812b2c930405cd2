----------------------------- MODULE JdbcProofs -----------------------------
(***************************************************************************)
(* Proofs about JdbcSessions: its invariant, and that it implements        *)
(* SessionStore, for any number of sessions and threads.                   *)
(***************************************************************************)
EXTENDS JdbcRefinement, TLAPS

-----------------------------------------------------------------------------
(* Steps of one thread *)

\* Thread t goes to the given step with session s and uncommitted rows w; the
\* other threads stay where they are.
Moves(t, step, s, w) ==
    \A u \in Threads :
        /\ pc'[u] = IF u = t THEN step ELSE pc[u]
        /\ copy'[u] = IF u = t THEN s ELSE copy[u]
        /\ tx'[u] = IF u = t THEN w ELSE tx[u]

\* A thread moves to a step of the program: the types stay right.
LEMMA MovesType ==
    ASSUME TypeOK, NEW t \in Threads, NEW step \in Step, NEW s \in JdbcSession,
           NEW w \in SUBSET {"row", "attribute"},
           pc' = [pc EXCEPT ![t] = step], copy' = [copy EXCEPT ![t] = s],
           tx' = [tx EXCEPT ![t] = w]
    PROVE  /\ Moves(t, step, s, w)
           /\ pc' \in [Threads -> Step] /\ copy' \in [Threads -> JdbcSession]
           /\ tx' \in [Threads -> SUBSET {"row", "attribute"}]
  BY DEF Moves, TypeOK

\* What thread t may become while the tables stay as they are.
LEMMA MovesKeep ==
    ASSUME SaveInv, NEW t \in Threads, NEW step \in Step, NEW s \in JdbcSession,
           NEW w \in SUBSET {"row", "attribute"}, Moves(t, step, s, w), TypeOK',
           UNCHANGED tables, keys \subseteq keys',
           \* the session is that of the thread, none, one saved before, or a new one
           \/ s.key = copy[t].key /\ (s.isNew => copy[t].isNew)
           \/ s.key = NoKey /\ ~s.isNew
           \/ ~s.isNew /\ Stored(s.key)
           \/ ~Stored(s.key) /\ \A u \in Threads : copy[u].key # s.key,
           w # {} => \A u \in Threads \ {t} : copy[u].key = s.key => tx[u] = {},
           \* the thread's own part of the invariant
           s.isNew => s.changed /\ (s.dirty \/ s.principal = NoPrincipal),
           step = "idle" => s.key = NoKey /\ ~s.isNew,
           step # "idle" => s.key \in keys' /\ s.id # NoId,
           w # {} => step \in Statement,
           s.isNew => step \in {"edit", "insert", "insertAttributes", "commit"},
           step = "insert" => s.isNew /\ w = {},
           step = "insertAttributes" =>
              s.isNew /\ w = {"row"} /\ s.principal # NoPrincipal,
           step = "commit" /\ s.isNew =>
              w = {"row"} \cup IF s.principal = NoPrincipal THEN {} ELSE {"attribute"},
           w # {} /\ ~s.isNew => Stored(s.key),
           step = "update" => s.changed /\ w = {},
           step \in {"attribute", "insertAttribute"} =>
              /\ s.dirty /\ w \subseteq {"row"}
              /\ w = {"row"} => s.changed
              /\ w = {} /\ s.changed => ~Stored(s.key),
           step = "insertAttribute" => s.principal # NoPrincipal,
           step = "commit" /\ ~s.isNew /\ w # {} =>
              /\ "row" \in w <=> s.changed
              /\ IF "attribute" \in w THEN s.dirty
                 ELSE s.dirty => s.principal = NoPrincipal
                                 /\ attribute[s.key] = NoPrincipal
    PROVE  SaveInv'
<1> USE DEF SaveInv
<1>1. \A u \in Threads : /\ pc'[u] = IF u = t THEN step ELSE pc[u]
                         /\ copy'[u] = IF u = t THEN s ELSE copy[u]
                         /\ tx'[u] = IF u = t THEN w ELSE tx[u]
  BY DEF Moves
<1>2. UNCHANGED <<row, attribute>> /\ \A k : Stored(k)' <=> Stored(k)
  BY DEF tables, Stored
<1>3. RowInv'
  BY <1>2 DEF RowInv
<1>4. LockInv'
  BY <1>1 DEF LockInv
<1>5. NewInv'
  <2>1. NoKey \notin Keys /\ \A u \in Threads : pc[u] # "idle"
                                  => copy[u].key # NoKey
    BY JdbcAssumption DEF IdleInv, TypeOK
  <2>2. \A u \in Threads : copy[u].isNew => copy[u].key # NoKey
    BY <2>1 DEF IdleInv
  <2>3. \A u \in Threads \ {t} : copy[u].isNew => copy[u].key # s.key
    BY <2>2 DEF NewInv
  <2>4. s.isNew => ~Stored(s.key) /\ \A u \in Threads \ {t} : copy[u].key # s.key
    BY DEF NewInv
  <2> QED
    BY <1>1, <1>2, <2>3, <2>4 DEF NewInv
<1>6. IdleInv'
  BY <1>1 DEF IdleInv
<1>a. /\ pc'[t] = step /\ copy'[t] = s /\ tx'[t] = w
      /\ \A u \in Threads \ {t} :
            pc'[u] = pc[u] /\ copy'[u] = copy[u] /\ tx'[u] = tx[u]
  BY <1>1
<1>7. InsertInv'
  <2> SUFFICES ASSUME NEW u \in Threads
               PROVE  InsertInv!(u)'
    BY DEF InsertInv
  <2>1. CASE u = t
    BY <1>a, <2>1
  <2>2. CASE u # t
    BY <1>a, <2>2 DEF InsertInv
  <2> QED
    BY <2>1, <2>2
<1>8. UpdateInv'
  <2> SUFFICES ASSUME NEW u \in Threads
               PROVE  UpdateInv!(u)'
    BY DEF UpdateInv
  <2>1. CASE u = t
    BY <1>a, <1>2, <2>1
  <2>2. CASE u # t
    BY <1>a, <1>2, <2>2 DEF UpdateInv
  <2> QED
    BY <2>1, <2>2
<1> QED
  BY <1>3, <1>4, <1>5, <1>6, <1>7, <1>8

\* The calls that come and go without a statement.
LEMMA CallKeeps ==
    ASSUME SaveInv, NEW t \in Threads,
           \/ \E k \in Keys, i \in Ids : createSession(t, k, i)
           \/ \E k \in Keys, touch \in Touching : FindLive(t, k, touch)
           \/ EndRequest(t)
           \/ Save(t)
           \/ Rollback(t)
           \/ Crash(t)
    PROVE  SaveInv'
<1>0. TypeOK /\ RowInv /\ LockInv /\ NewInv /\ IdleInv /\ InsertInv /\ UpdateInv
  BY DEF SaveInv
<1>n. /\ NoSession \in JdbcSession /\ NoSession.key = NoKey /\ ~NoSession.isNew
      /\ NoSession.id = NoId /\ NoSession.last = 0 /\ NoSession.max = DefaultInterval
      /\ NoSession.principal = NoPrincipal /\ ~NoSession.changed /\ ~NoSession.dirty
  BY JdbcAssumption DEF NoSession, JdbcSession, MaybePrincipal
<1>1. ASSUME NEW k \in Keys, NEW i \in Ids, createSession(t, k, i)
      PROVE  SaveInv'
  <2> DEFINE s == [NoSession EXCEPT !.key = k, !.id = i, !.last = now,
                                    !.isNew = TRUE, !.changed = TRUE]
  <2>1. /\ s \in JdbcSession /\ s.key = k /\ s.id = i /\ s.isNew /\ s.changed
        /\ s.principal = NoPrincipal
    BY <1>0, <1>n DEF JdbcSession, TypeOK
  <2>2. /\ pc[t] = "idle" /\ k \notin keys /\ keys' = keys \cup {k}
        /\ owner' \in [Ids -> Keys \cup {NoKey}] /\ UNCHANGED doomed
        /\ copy' = [copy EXCEPT ![t] = s] /\ pc' = [pc EXCEPT ![t] = "edit"]
        /\ UNCHANGED <<now, tables, tx>>
    BY <1>0, <1>1 DEF createSession, Idle, generateId, Hold, Goto, TypeOK
  <2> HIDE DEF s
  <2>3. tx[t] = {} /\ tx' = [tx EXCEPT ![t] = {}]
    BY <1>0, <2>2 DEF IdleInv, Statement, TypeOK
  <2>4. Moves(t, "edit", s, {}) /\ TypeOK'
    BY <1>0, <2>1, <2>2, <2>3, MovesType DEF TypeOK, Step, tables
  <2>5. ~Stored(s.key) /\ \A u \in Threads : copy[u].key # s.key
    BY <1>0, <2>1, <2>2, JdbcAssumption DEF RowInv, IdleInv
  <2>6. s.id # NoId /\ "edit" \in Step
    BY <2>1, JdbcAssumption DEF Step
  <2> QED
    BY <2>1, <2>2, <2>4, <2>5, <2>6, MovesKeep
<1>2. ASSUME NEW k \in Keys, NEW touch \in Touching, FindLive(t, k, touch)
      PROVE  SaveInv'
  <2> DEFINE l == Load(k)
             s == Touched(l, touch)
  <2>1. /\ Stored(k) /\ pc[t] = "idle" /\ copy' = [copy EXCEPT ![t] = s]
        /\ pc' = [pc EXCEPT ![t] = "edit"] /\ UNCHANGED <<now, tables, tx, keys, doomed, owner>>
    BY <1>2 DEF FindLive, Idle, Hold, Goto, uuids
  <2>2. l \in JdbcSession /\ l.key = k /\ l.id = row[k].id /\ ~l.isNew
    BY <1>0, JdbcAssumption DEF Load, JdbcSession, TypeOK, Row
  <2> HIDE DEF l
  <2>3. s \in JdbcSession /\ s.key = k /\ s.id # NoId /\ ~s.isNew
    BY <1>0, <2>1, <2>2 DEF Touched, JdbcSession, TypeOK, Stored
  <2> HIDE DEF s
  <2>4. tx[t] = {} /\ tx' = [tx EXCEPT ![t] = {}]
    BY <1>0, <2>1 DEF IdleInv, Statement, TypeOK
  <2>5. Moves(t, "edit", s, {}) /\ TypeOK' /\ "edit" \in Step
    BY <1>0, <2>1, <2>3, <2>4, MovesType DEF TypeOK, Step, tables
  <2>6. k \in keys
    BY <1>0, <2>1 DEF RowInv
  <2> QED
    BY <2>1, <2>3, <2>5, <2>6, MovesKeep
<1>4. CASE EndRequest(t) \/ Crash(t)
  <2>1. /\ copy' = [copy EXCEPT ![t] = NoSession] /\ pc' = [pc EXCEPT ![t] = "idle"]
        /\ UNCHANGED <<now, tables, keys, owner>>
    BY <1>4 DEF EndRequest, Crash, Hold, Goto, uuids
  <2>d. doomed' \in [Threads -> Ids \cup {NoId}]
    BY <1>0, <1>4 DEF EndRequest, Crash, TypeOK
  <2>2. tx' = [tx EXCEPT ![t] = {}]
    BY <1>0, <1>4 DEF EndRequest, Crash, IdleInv, Statement, TypeOK
  <2>3. Moves(t, "idle", NoSession, {}) /\ TypeOK' /\ "idle" \in Step
    BY <1>0, <1>n, <2>1, <2>2, <2>d, MovesType DEF TypeOK, Step, tables
  <2> QED
    BY <1>n, <2>1, <2>3, MovesKeep
<1>5. CASE Rollback(t)
  <2> DEFINE s == copy[t]
  <2>1. /\ pc' = [pc EXCEPT ![t] = "edit"] /\ pc[t] \in Statement
        /\ tx' = [tx EXCEPT ![t] = {}] /\ UNCHANGED <<now, tables, copy, keys, doomed, owner>>
    BY <1>5 DEF Rollback, Goto, uuids
  <2>2. s \in JdbcSession /\ copy' = [copy EXCEPT ![t] = s]
    BY <1>0, <2>1 DEF TypeOK
  <2>3. Moves(t, "edit", s, {}) /\ TypeOK' /\ "edit" \in Step
    BY <1>0, <2>1, <2>2, MovesType DEF TypeOK, Step, tables
  <2>4. s.key \in keys /\ s.id # NoId
    BY <1>0, <2>1 DEF IdleInv, Statement
  <2>5. s.isNew => s.changed /\ (s.dirty \/ s.principal = NoPrincipal)
    BY <1>0 DEF NewInv
  <2> HIDE DEF s
  <2>6. s.key = copy[t].key /\ s.isNew = copy[t].isNew
    BY DEF s
  <2> QED
    BY <2>1, <2>2, <2>3, <2>4, <2>5, <2>6, MovesKeep
<1>6. CASE Save(t)
  <2> DEFINE s == copy[t]
             step == IF s.isNew THEN "insert"
                     ELSE IF s.changed THEN "update" ELSE AfterUpdate(s)
  <2>1. /\ pc' = [pc EXCEPT ![t] = step] /\ pc[t] = "edit"
        /\ UNCHANGED <<now, tables, copy, tx, keys, doomed, owner>>
    BY <1>6 DEF Save, Goto, uuids
  <2>2. /\ s \in JdbcSession /\ copy' = [copy EXCEPT ![t] = s]
        /\ tx[t] = {} /\ tx' = [tx EXCEPT ![t] = {}]
    BY <1>0, <2>1 DEF TypeOK, IdleInv, Statement
  <2>3. step \in {"insert", "update", "attribute", "commit"} /\ step \in Step
    BY DEF AfterUpdate, Step, Statement
  <2>4. Moves(t, step, s, {}) /\ TypeOK'
    BY <1>0, <2>1, <2>2, <2>3, MovesType DEF TypeOK, tables
  <2>5. s.key \in keys /\ s.id # NoId
    BY <1>0, <2>1 DEF IdleInv
  <2>6. s.isNew => s.changed /\ (s.dirty \/ s.principal = NoPrincipal)
    BY <1>0 DEF NewInv
  <2>7. /\ s.isNew <=> step = "insert"
        /\ step = "update" => s.changed
        /\ step = "attribute" => s.dirty /\ ~s.changed
    BY <2>2 DEF AfterUpdate, JdbcSession
  <2>8. s.key = copy[t].key /\ s.isNew = copy[t].isNew
    OBVIOUS
  <2> HIDE DEF s, step
  <2> QED
    BY <2>1, <2>2, <2>3, <2>4, <2>5, <2>6, <2>7, <2>8, MovesKeep DEF Statement
<1> QED
  BY <1>1, <1>2, <1>4, <1>5, <1>6

\* Every edit leaves a session of the same key, new or not as before, whose flags
\* tell what has changed.
LEMMA EditShape ==
    ASSUME SaveInv, NEW t \in Threads,
           \/ \E p \in SetPrincipals : setAttribute(t, p)
           \/ removeAttribute(t)
           \/ \E max \in SetIntervals : setMaxInactiveInterval(t, max)
           \/ \E i \in Ids : changeSessionId(t, i)
    PROVE  \E s \in JdbcSession :
              /\ Edit(t, s)
              /\ owner' \in [Ids -> Keys \cup {NoKey}]
              /\ s.key = copy[t].key /\ s.isNew = copy[t].isNew /\ s.id # NoId
              /\ s.last = copy[t].last
              /\ copy[t].changed => s.changed
              /\ copy[t].dirty => s.dirty
              /\ \/ s.max = copy[t].max /\ s.dirty
                 \/ s.principal = copy[t].principal /\ s.changed
<1>0. copy[t] \in JdbcSession /\ owner \in [Ids -> Keys \cup {NoKey}] /\ (pc[t] = "edit" => copy[t].id # NoId)
  BY DEF SaveInv, TypeOK, IdleInv
<1>1. ASSUME NEW p \in SetPrincipals, setAttribute(t, p)
      PROVE  \E s \in JdbcSession :
              /\ Edit(t, s) /\ owner' \in [Ids -> Keys \cup {NoKey}] /\ s.id = copy[t].id
              /\ s.key = copy[t].key /\ s.isNew = copy[t].isNew
              /\ s.last = copy[t].last /\ s.max = copy[t].max
              /\ copy[t].changed => s.changed
              /\ s.dirty
  <2> DEFINE s == [copy[t] EXCEPT !.principal = p, !.dirty = TRUE,
                                  !.changed = @ \/ Indexed]
  <2>1. /\ s \in JdbcSession /\ s.id = copy[t].id
        /\ s.key = copy[t].key /\ s.isNew = copy[t].isNew
        /\ s.last = copy[t].last /\ s.max = copy[t].max
        /\ copy[t].changed => s.changed
        /\ s.dirty
    BY <1>0, JdbcAssumption DEF JdbcSession, MaybePrincipal
  <2>2. Edit(t, s) /\ owner' \in [Ids -> Keys \cup {NoKey}]
    BY <1>0, <1>1 DEF setAttribute
  <2> QED
    BY <2>1, <2>2
<1>2. ASSUME removeAttribute(t)
      PROVE  \E s \in JdbcSession :
              /\ Edit(t, s) /\ owner' \in [Ids -> Keys \cup {NoKey}] /\ s.id = copy[t].id
              /\ s.key = copy[t].key /\ s.isNew = copy[t].isNew
              /\ s.last = copy[t].last /\ s.max = copy[t].max
              /\ s.changed = copy[t].changed
              /\ s.dirty
  <2> DEFINE s == [copy[t] EXCEPT !.principal = NoPrincipal, !.dirty = TRUE]
  <2>1. /\ s \in JdbcSession /\ s.id = copy[t].id
        /\ s.key = copy[t].key /\ s.isNew = copy[t].isNew
        /\ s.last = copy[t].last /\ s.max = copy[t].max
        /\ s.changed = copy[t].changed
        /\ s.dirty
    BY <1>0 DEF JdbcSession, MaybePrincipal
  <2>2. Edit(t, s) /\ owner' \in [Ids -> Keys \cup {NoKey}]
    BY <1>0, <1>2 DEF removeAttribute
  <2> QED
    BY <2>1, <2>2
<1>3. ASSUME NEW max \in SetIntervals, setMaxInactiveInterval(t, max)
      PROVE  \E s \in JdbcSession :
              /\ Edit(t, s) /\ owner' \in [Ids -> Keys \cup {NoKey}] /\ s.id = copy[t].id
              /\ s.key = copy[t].key /\ s.isNew = copy[t].isNew
              /\ s.last = copy[t].last
              /\ s.changed /\ s.dirty = copy[t].dirty
              /\ s.principal = copy[t].principal
  <2> DEFINE s == [copy[t] EXCEPT !.max = max, !.changed = TRUE]
  <2>1. /\ s \in JdbcSession /\ s.id = copy[t].id
        /\ s.key = copy[t].key /\ s.isNew = copy[t].isNew
        /\ s.last = copy[t].last
        /\ s.changed /\ s.dirty = copy[t].dirty
        /\ s.principal = copy[t].principal
    BY <1>0, JdbcAssumption DEF JdbcSession
  <2>2. Edit(t, s) /\ owner' \in [Ids -> Keys \cup {NoKey}]
    BY <1>0, <1>3 DEF setMaxInactiveInterval
  <2> QED
    BY <2>1, <2>2
<1>4. ASSUME NEW i \in Ids, changeSessionId(t, i)
      PROVE  \E s \in JdbcSession :
              /\ Edit(t, s) /\ owner' \in [Ids -> Keys \cup {NoKey}] /\ s.id = i
              /\ s.key = copy[t].key /\ s.isNew = copy[t].isNew
              /\ s.last = copy[t].last /\ s.max = copy[t].max
              /\ s.changed /\ s.dirty = copy[t].dirty
              /\ s.principal = copy[t].principal
  <2> DEFINE s == [copy[t] EXCEPT !.id = i, !.changed = TRUE]
  <2>1. /\ s \in JdbcSession /\ s.id = i
        /\ s.key = copy[t].key /\ s.isNew = copy[t].isNew
        /\ s.last = copy[t].last /\ s.max = copy[t].max
        /\ s.changed /\ s.dirty = copy[t].dirty
        /\ s.principal = copy[t].principal
    BY <1>0 DEF JdbcSession
  <2>2. Edit(t, s) /\ owner' \in [Ids -> Keys \cup {NoKey}]
    BY <1>0, <1>4 DEF changeSessionId, generateId, JdbcSession
  <2> QED
    BY <2>1, <2>2
<1>5. NoId \notin Ids /\ \A s : Edit(t, s) => pc[t] = "edit"
  BY JdbcAssumption DEF Edit
<1> QED
  BY <1>0, <1>1, <1>2, <1>3, <1>4, <1>5

\* An edit of the session a thread holds.
LEMMA EditKeeps ==
    ASSUME SaveInv, NEW t \in Threads, NEW s \in JdbcSession, Edit(t, s),
           owner' \in [Ids -> Keys \cup {NoKey}],
           s.key = copy[t].key, s.isNew = copy[t].isNew, s.id # NoId,
           copy[t].changed => s.changed, copy[t].dirty => s.dirty,
           s.principal = copy[t].principal \/ s.dirty
    PROVE  SaveInv'
<1>1. /\ pc[t] = "edit" /\ copy' = [copy EXCEPT ![t] = s]
      /\ UNCHANGED <<now, tables, pc, tx, keys, doomed>>
  BY DEF Edit, Hold
<1>2. /\ tx[t] = {} /\ tx' = [tx EXCEPT ![t] = {}] /\ pc' = [pc EXCEPT ![t] = "edit"]
      /\ "edit" \in Step
  BY <1>1 DEF SaveInv, TypeOK, IdleInv, Statement, Step
<1>3. Moves(t, "edit", s, {}) /\ TypeOK'
  BY <1>1, <1>2, MovesType DEF SaveInv, TypeOK, tables
<1>4. s.isNew => s.changed /\ (s.dirty \/ s.principal = NoPrincipal)
  BY DEF SaveInv, NewInv
<1>5. s.key \in keys'
  BY <1>1 DEF SaveInv, IdleInv
<1> QED
  BY <1>1, <1>2, <1>3, <1>4, <1>5, MovesKeep

\* A statement of a save writes rows that no other transaction has written.
LEMMA WriteKeeps ==
    ASSUME SaveInv, NEW t \in Threads,
           \/ Insert(t) \/ InsertAttributes(t) \/ Update(t)
           \/ ChangeAttribute(t) \/ InsertAttribute(t)
    PROVE  SaveInv'
<1> DEFINE s == copy[t]
<1>0. /\ TypeOK /\ s \in JdbcSession /\ tx[t] \in SUBSET {"row", "attribute"}
      /\ copy = [copy EXCEPT ![t] = s]
  BY DEF SaveInv, TypeOK
<1>1. ASSUME NEW step \in Statement, NEW next \in Statement,
             NEW rows \in SUBSET {"row", "attribute"}, Write(t, step, next, rows)
      PROVE  /\ pc[t] = step /\ Moves(t, next, s, tx[t] \cup rows) /\ TypeOK'
             /\ UNCHANGED <<now, tables, keys>>
             /\ s.key \in keys' /\ s.id # NoId
             /\ tx[t] \cup rows # {} =>
                   \A u \in Threads \ {t} : copy[u].key = s.key => tx[u] = {}
  <2>1. /\ pc[t] = step /\ pc' = [pc EXCEPT ![t] = next]
        /\ tx' = [tx EXCEPT ![t] = tx[t] \cup rows]
        /\ UNCHANGED <<now, tables, copy, keys, doomed, owner>>
    BY <1>1 DEF Write, Goto, uuids
  <2>2. copy' = [copy EXCEPT ![t] = s] /\ next \in Step
    BY <1>0, <1>1, <2>1 DEF Step
  <2>3. Moves(t, next, s, tx[t] \cup rows) /\ TypeOK'
    BY <1>0, <1>1, <2>1, <2>2, MovesType DEF TypeOK, tables
  <2>4. s.key \in keys' /\ s.id # NoId
    BY <1>1, <2>1 DEF SaveInv, IdleInv, Statement
  <2>5. tx[t] \cup rows # {} =>
           \A u \in Threads \ {t} : copy[u].key = s.key => tx[u] = {}
    BY <1>1 DEF Write, SaveInv, LockInv
  <2> QED
    BY <2>1, <2>3, <2>4, <2>5
<1>s. \A x \in {"insert", "insertAttributes", "update", "attribute",
               "insertAttribute", "commit"} : x \in Statement /\ x \in Step
  BY DEF Statement, Step
<1>n. s.isNew => s.changed /\ (s.dirty \/ s.principal = NoPrincipal)
  BY DEF SaveInv, NewInv
<1>i. /\ pc[t] = "insert" => s.isNew /\ tx[t] = {}
      /\ pc[t] = "insertAttributes" =>
            s.isNew /\ tx[t] = {"row"} /\ s.principal # NoPrincipal
      /\ s.isNew => pc[t] \in {"edit", "insert", "insertAttributes", "commit"}
  BY DEF SaveInv, InsertInv
<1>u. /\ tx[t] # {} /\ ~s.isNew => Stored(s.key)
      /\ pc[t] = "update" => s.changed /\ tx[t] = {}
      /\ pc[t] \in {"attribute", "insertAttribute"} =>
            /\ s.dirty /\ tx[t] \subseteq {"row"}
            /\ tx[t] = {"row"} => s.changed
            /\ tx[t] = {} /\ s.changed => ~Stored(s.key)
      /\ pc[t] = "insertAttribute" => s.principal # NoPrincipal
  BY DEF SaveInv, UpdateInv
<1>k. s.key \in keys => s.key \in Keys
  BY <1>0 DEF TypeOK
<1>2. CASE Insert(t)
  <2> DEFINE next == IF s.principal = NoPrincipal THEN "commit" ELSE "insertAttributes"
  <2>1. Write(t, "insert", next, {"row"}) /\ next \in Statement
    BY <1>2, <1>s DEF Insert
  <2>2. next = "commit" <=> s.principal = NoPrincipal
    OBVIOUS
  <2>3. next \in {"commit", "insertAttributes"}
    OBVIOUS
  <2> HIDE DEF next
  <2>4. /\ pc[t] = "insert" /\ Moves(t, next, s, {"row"}) /\ TypeOK'
        /\ UNCHANGED <<now, tables, keys>> /\ s.key \in keys' /\ s.id # NoId
        /\ \A u \in Threads \ {t} : copy[u].key = s.key => tx[u] = {}
    <3>1. pc[t] = "insert"
      BY <2>1 DEF Write
    <3>2. tx[t] \cup {"row"} = {"row"}
      BY <1>i, <3>1
    <3>3. /\ pc[t] = "insert" /\ Moves(t, next, s, tx[t] \cup {"row"}) /\ TypeOK'
          /\ UNCHANGED <<now, tables, keys>> /\ s.key \in keys' /\ s.id # NoId
          /\ \A u \in Threads \ {t} : copy[u].key = s.key => tx[u] = {}
      BY <1>1, <1>s, <2>1
    <3> QED
      BY <3>2, <3>3
  <2>5. s.isNew /\ s.key = copy[t].key
    BY <1>i, <2>4
  <2> HIDE DEF s
  <2> QED
    BY <1>0, <1>n, <1>s, <2>2, <2>3, <2>4, <2>5, MovesKeep DEF s
<1>3. CASE InsertAttributes(t)
  <2>1. Write(t, "insertAttributes", "commit", {"attribute"})
    BY <1>3 DEF InsertAttributes
  <2>2. /\ pc[t] = "insertAttributes" /\ TypeOK'
        /\ Moves(t, "commit", s, tx[t] \cup {"attribute"})
        /\ UNCHANGED <<now, tables, keys>> /\ s.key \in keys' /\ s.id # NoId
        /\ \A u \in Threads \ {t} : copy[u].key = s.key => tx[u] = {}
    BY <1>1, <1>s, <2>1
  <2>3. /\ s.isNew /\ s.key = copy[t].key /\ s.principal # NoPrincipal
        /\ Moves(t, "commit", s, {"row", "attribute"})
    <3>1. tx[t] \cup {"attribute"} = {"row", "attribute"}
      BY <1>i, <2>2
    <3> QED
      BY <1>i, <2>2, <3>1
  <2> HIDE DEF s
  <2> QED
    BY <1>0, <1>n, <1>s, <2>2, <2>3, MovesKeep DEF s
<1>4. CASE Update(t)
  <2> DEFINE next == AfterUpdate(s)
             rows == IF Stored(s.key) THEN {"row"} ELSE {}
  <2>1. /\ Write(t, "update", next, rows) /\ rows \in SUBSET {"row", "attribute"}
        /\ next \in {"attribute", "commit"} /\ (next = "attribute" <=> s.dirty)
        /\ rows \in {{}, {"row"}} /\ (rows = {"row"} <=> Stored(s.key))
    BY <1>0, <1>4 DEF Update, AfterUpdate, JdbcSession
  <2> HIDE DEF next, rows
  <2>2. /\ pc[t] = "update" /\ TypeOK' /\ Moves(t, next, s, tx[t] \cup rows)
        /\ UNCHANGED <<now, tables, keys>> /\ s.key \in keys' /\ s.id # NoId
        /\ tx[t] \cup rows # {} =>
              \A u \in Threads \ {t} : copy[u].key = s.key => tx[u] = {}
    BY <1>1, <1>s, <2>1
  <2>3. tx[t] = {} /\ tx[t] \cup rows = rows /\ s.changed /\ ~s.isNew
    BY <1>i, <1>u, <2>2
  <2>4. s.key = copy[t].key /\ s.isNew = copy[t].isNew
    OBVIOUS
  <2> HIDE DEF s
  <2> QED
    BY <1>0, <1>s, <2>1, <2>2, <2>3, <2>4, MovesKeep
<1>5. CASE ChangeAttribute(t)
  <2> DEFINE found == attribute[s.key] # NoPrincipal
             next == IF found \/ s.principal = NoPrincipal THEN "commit"
                     ELSE "insertAttribute"
             rows == IF found THEN {"attribute"} ELSE {}
             w == tx[t] \cup rows
  <2>1. Write(t, "attribute", next, rows) /\ next \in {"commit", "insertAttribute"}
        /\ rows \in SUBSET {"row", "attribute"}
    BY <1>5 DEF ChangeAttribute
  <2>2. /\ pc[t] = "attribute" /\ TypeOK' /\ Moves(t, next, s, w)
        /\ UNCHANGED <<now, tables, keys>> /\ s.key \in keys' /\ s.id # NoId
        /\ w # {} =>
              \A u \in Threads \ {t} : copy[u].key = s.key => tx[u] = {}
    BY <1>1, <1>s, <2>1
  <2>3. ~s.isNew
    BY <1>i, <2>2
  <2>4. found => Stored(s.key)
    BY <1>k, <2>2 DEF SaveInv, RowInv
  <2>5. /\ w \in SUBSET {"row", "attribute"}
        /\ w # {} => Stored(s.key)
        /\ "attribute" \in w <=> found
        /\ w # {} => ("row" \in w <=> s.changed)
        /\ next = "insertAttribute" => w = tx[t] /\ s.principal # NoPrincipal
        /\ next = "commit" /\ ~found => s.principal = NoPrincipal
    BY <1>0, <1>u, <2>2, <2>3, <2>4 DEF JdbcSession
  <2>6. s.key = copy[t].key /\ s.isNew = copy[t].isNew
    OBVIOUS
  <2>7. next = "insertAttribute" =>
          /\ s.dirty /\ w \subseteq {"row"}
          /\ w = {"row"} => s.changed
          /\ w = {} /\ s.changed => ~Stored(s.key)
    BY <1>u, <2>2, <2>5
  <2>8. next = "commit" /\ w # {} =>
          /\ "row" \in w <=> s.changed
          /\ IF "attribute" \in w THEN s.dirty
             ELSE s.dirty => s.principal = NoPrincipal
                             /\ attribute[s.key] = NoPrincipal
    BY <1>u, <2>2, <2>5
  <2> HIDE DEF s, next, w, rows
  <2> QED
    BY <1>0, <1>s, <2>1, <2>2, <2>3, <2>5, <2>6, <2>7, <2>8, MovesKeep
<1>6. CASE InsertAttribute(t)
  <2>1. /\ Write(t, "insertAttribute", "commit", {"attribute"})
        /\ Stored(s.key) /\ attribute[s.key] = NoPrincipal
    BY <1>6 DEF InsertAttribute
  <2> DEFINE w == tx[t] \cup {"attribute"}
  <2>2. /\ pc[t] = "insertAttribute" /\ TypeOK' /\ Moves(t, "commit", s, w)
        /\ UNCHANGED <<now, tables, keys>> /\ s.key \in keys' /\ s.id # NoId
        /\ \A u \in Threads \ {t} : copy[u].key = s.key => tx[u] = {}
    BY <1>1, <1>s, <2>1
  <2>3. /\ ~s.isNew /\ s.dirty /\ w \in SUBSET {"row", "attribute"}
        /\ "attribute" \in w /\ ("row" \in w <=> s.changed)
    BY <1>0, <1>i, <1>u, <2>1, <2>2 DEF JdbcSession
  <2>4. s.key = copy[t].key
    OBVIOUS
  <2> HIDE DEF s, w
  <2> QED
    BY <1>0, <1>s, <2>1, <2>2, <2>3, <2>4, MovesKeep
<1> QED
  BY <1>2, <1>3, <1>4, <1>5, <1>6

\* A session that no transaction has written is deleted, or none is; a thread may
\* end its call with that.
LEMMA DeleteKeeps ==
    ASSUME SaveInv, TypeOK', UNCHANGED keys,
           UNCHANGED tables \/ \E k \in Keys : ~Locked(k) /\ DeleteRow(k),
           \A u \in Threads :
              \/ pc'[u] = pc[u] /\ copy'[u] = copy[u] /\ tx'[u] = tx[u]
              \/ pc'[u] = "idle" /\ copy'[u] = NoSession /\ tx'[u] = {}
    PROVE  SaveInv'
<1> USE DEF SaveInv
<1>n. NoSession.key = NoKey /\ ~NoSession.isNew /\ NoRow.id = NoId
  BY DEF NoSession, NoRow
<1>1. /\ \A k \in Keys : \/ row'[k] = row[k] /\ attribute'[k] = attribute[k]
                         \/ /\ row'[k].id = NoId /\ attribute'[k] = NoPrincipal
                            /\ \A u \in Threads : copy[u].key = k => tx[u] = {}
  BY <1>n DEF tables, DeleteRow, Locked, TypeOK
<1>2. \A k \in Keys : Stored(k)' => Stored(k) /\ row'[k] = row[k]
  BY <1>1 DEF Stored
<1>3. RowInv'
  BY <1>1, <1>2 DEF RowInv, Stored
<1>4. LockInv'
  BY DEF LockInv
<1>5. NewInv'
  <2> SUFFICES ASSUME NEW u \in Threads, copy'[u].isNew
               PROVE  NewInv!(u)!2'
    BY DEF NewInv
  <2>1. copy'[u] = copy[u] /\ copy[u].isNew
    BY <1>n
  <2>2. copy[u].key \in Keys
    BY <2>1 DEF IdleInv, TypeOK
  <2>3. ~Stored(copy[u].key)'
    BY <1>2, <2>1, <2>2 DEF NewInv
  <2>4. \A v \in Threads \ {u} : copy'[v].key # copy'[u].key
    BY <1>n, <2>1, <2>2, JdbcAssumption DEF NewInv
  <2> QED
    BY <2>1, <2>3, <2>4 DEF NewInv, Stored
<1>6. IdleInv'
  BY <1>n DEF IdleInv
<1>7. InsertInv'
  <2> SUFFICES ASSUME NEW u \in Threads
               PROVE  InsertInv!(u)'
    BY DEF InsertInv
  <2>1. CASE pc'[u] = pc[u] /\ copy'[u] = copy[u] /\ tx'[u] = tx[u]
    BY <2>1 DEF InsertInv
  <2>2. CASE pc'[u] = "idle" /\ copy'[u] = NoSession /\ tx'[u] = {}
    BY <1>n, <2>2
  <2> QED
    BY <2>1, <2>2
<1>8. UpdateInv'
  <2> SUFFICES ASSUME NEW u \in Threads
               PROVE  UpdateInv!(u)'
    BY DEF UpdateInv
  <2>1. CASE pc'[u] = pc[u] /\ copy'[u] = copy[u] /\ tx'[u] = tx[u]
    <3>1. CASE pc[u] \in {"idle", "edit"}
      BY <2>1, <3>1 DEF UpdateInv, IdleInv, Statement
    <3>2. CASE pc[u] \notin {"idle", "edit"}
      <4>3. PICK k \in Keys : k = copy[u].key
        BY <3>2 DEF IdleInv, TypeOK
      <4>4. /\ Stored(k)' => Stored(k)
            /\ tx[u] # {} => /\ Stored(k)' <=> Stored(k)
                             /\ attribute'[k] = attribute[k]
        BY <1>1, <1>2, <4>3 DEF Stored
      <4> QED
        BY <2>1, <4>3, <4>4 DEF UpdateInv, Stored
    <3> QED
      BY <3>1, <3>2
  <2>2. CASE pc'[u] = "idle" /\ copy'[u] = NoSession /\ tx'[u] = {}
    BY <1>n, <2>2
  <2> QED
    BY <2>1, <2>2
<1> QED
  BY <1>3, <1>4, <1>5, <1>6, <1>7, <1>8

\* A transaction puts its rows into the tables.
LEMMA CommitKeeps ==
    ASSUME SaveInv, NEW t \in Threads, Commit(t)
    PROVE  SaveInv'
<1> USE DEF SaveInv
<1>s. PICK s : s = copy[t]
  OBVIOUS
<1>k. PICK k : k = s.key
  OBVIOUS
<1> DEFINE r == clearChangeFlags(s)
<1>0. /\ pc[t] = "commit" /\ s \in JdbcSession /\ k \in keys /\ k \in Keys /\ s.id # NoId
      /\ now \in Nat /\ row \in [Keys -> Row] /\ attribute \in [Keys -> MaybePrincipal]
      /\ tx[t] \in SUBSET {"row", "attribute"}
  BY <1>s, <1>k DEF Commit, IdleInv, TypeOK
<1>1. /\ r \in JdbcSession /\ r.key = k /\ r.id = s.id /\ ~r.isNew /\ ~r.changed /\ ~r.dirty
  BY <1>0, <1>k DEF clearChangeFlags, JdbcSession
<1>r. /\ RowOf(s) \in Row /\ RowOf(s).id = s.id /\ RowOf(s).last = s.last
      /\ RowOf(s).max = s.max /\ RowOf(s).expiry = s.last + s.max
  <2>1. /\ s.id \in Ids \cup {NoId} /\ s.last \in Nat /\ s.max \in Intervals /\ s.max \in Int
        /\ getPrincipalName(s) \in MaybePrincipal
    BY <1>0, JdbcAssumption DEF JdbcSession, getPrincipalName, MaybePrincipal
  <2>2. getExpiryTime(s) = s.last + s.max /\ s.last + s.max \in Int
    BY <2>1 DEF getExpiryTime
  <2> QED
    BY <2>1, <2>2 DEF RowOf, Row
<1>2. /\ pc' = [pc EXCEPT ![t] = "edit"] /\ copy' = [copy EXCEPT ![t] = r]
      /\ tx' = [tx EXCEPT ![t] = {}] /\ UNCHANGED <<now, keys, doomed, owner>>
  BY <1>s DEF Commit, Goto, Hold, uuids
<1>3. /\ \A j \in Keys : j # k => row'[j] = row[j] /\ attribute'[j] = attribute[j]
      /\ row'[k] = IF "row" \in tx[t] THEN RowOf(s) ELSE row[k]
      /\ attribute'[k] = IF "attribute" \in tx[t] THEN s.principal ELSE attribute[k]
      /\ row' \in [Keys -> Row] /\ attribute' \in [Keys -> MaybePrincipal]
  BY <1>0, <1>s, <1>k, <1>r DEF Commit, JdbcSession
<1>p. pc' \in [Threads -> Step] /\ copy' \in [Threads -> JdbcSession]
      /\ tx' \in [Threads -> SUBSET {"row", "attribute"}] /\ Moves(t, "edit", r, {})
  BY <1>1, <1>2, MovesType DEF Step
<1>4. TypeOK'
  BY <1>2, <1>3, <1>p DEF TypeOK
<1> HIDE DEF r
<1>5. /\ pc'[t] = "edit" /\ copy'[t] = r /\ tx'[t] = {}
      /\ \A u \in Threads \ {t} : pc'[u] = pc[u] /\ copy'[u] = copy[u] /\ tx'[u] = tx[u]
  BY <1>p DEF Moves
<1>6. \A u \in Threads \ {t} : copy[u].key = k => tx[u] = {} \/ tx[t] = {}
  BY <1>s, <1>k DEF LockInv
<1>7. \A u \in Threads \ {t} : copy[u].isNew => copy[u].key # k
  BY <1>s, <1>k DEF NewInv
\* The session is stored after this if it was before, or if it is new.
<1>8. /\ tx[t] # {} => s.isNew \/ Stored(k)
      /\ s.isNew => "row" \in tx[t]
      /\ tx[t] # {} => Stored(k)'
      /\ tx[t] = {} => row' = row /\ attribute' = attribute
      /\ ~s.isNew => (Stored(k)' <=> Stored(k))
  <2>1. /\ tx[t] # {} => s.isNew \/ Stored(k)
        /\ s.isNew => "row" \in tx[t]
    BY <1>0, <1>s, <1>k DEF UpdateInv, InsertInv
  <2>2. Stored(k)' <=> row'[k].id # NoId
    BY DEF Stored
  <2>3. tx[t] = {} => row' = row /\ attribute' = attribute
    BY <1>s, <1>k DEF Commit
  <2>4. tx[t] # {} => Stored(k)'
    BY <1>0, <1>r, <1>3, <2>1, <2>2 DEF Stored
  <2>5. ~s.isNew => (Stored(k)' <=> Stored(k))
    BY <1>0, <1>3, <2>1, <2>2, <2>3, <2>4 DEF Stored
  <2> QED
    BY <2>1, <2>3, <2>4, <2>5
<1>9. \A j \in Keys \ {k} : Stored(j)' <=> Stored(j)
  BY <1>3 DEF Stored
<1>10. RowInv'
  <2> SUFFICES ASSUME NEW j \in Keys
               PROVE  RowInv!(j)'
    BY DEF RowInv
  <2>1. CASE j # k
    BY <1>2, <1>3, <1>9, <2>1 DEF RowInv
  <2>2. CASE j = k /\ tx[t] = {}
    BY <1>2, <1>8, <2>2 DEF RowInv, Stored
  <2>3. CASE j = k /\ tx[t] # {}
    <3>1. CASE "row" \in tx[t]
      BY <1>0, <1>r, <1>2, <1>3, <1>8, <2>3, <3>1 DEF Stored
    <3>2. CASE "row" \notin tx[t]
      BY <1>0, <1>2, <1>3, <1>8, <2>3, <3>2 DEF RowInv, Stored
    <3> QED
      BY <3>1, <3>2
  <2> QED
    BY <2>1, <2>2, <2>3
<1>11. LockInv'
  BY <1>5 DEF LockInv
<1>12. NewInv'
  <2> SUFFICES ASSUME NEW u \in Threads, copy'[u].isNew
               PROVE  NewInv!(u)!2'
    BY DEF NewInv
  <2>1. u # t /\ copy'[u] = copy[u] /\ copy[u].isNew /\ copy[u].key # k
    BY <1>1, <1>5, <1>7
  <2>2. copy[u].key \in Keys
    BY <2>1 DEF IdleInv, TypeOK
  <2>3. PICK j \in Keys : j = copy[u].key
    BY <2>2
  <2>4. ~Stored(j)' /\ \A v \in Threads \ {u} : copy'[v].key # j
    BY <1>1, <1>5, <1>9, <2>1, <2>3 DEF NewInv
  <2> QED
    BY <2>1, <2>3, <2>4 DEF NewInv, Stored
<1>13. IdleInv'
  BY <1>0, <1>1, <1>2, <1>5 DEF IdleInv
<1>14. InsertInv'
  <2> SUFFICES ASSUME NEW u \in Threads
               PROVE  InsertInv!(u)'
    BY DEF InsertInv
  <2>1. CASE u = t
    BY <1>1, <1>5, <2>1
  <2>2. CASE u # t
    BY <1>5, <2>2 DEF InsertInv
  <2> QED
    BY <2>1, <2>2
<1>15. UpdateInv'
  <2> SUFFICES ASSUME NEW u \in Threads
               PROVE  UpdateInv!(u)'
    BY DEF UpdateInv
  <2>1. CASE u = t
    BY <1>1, <1>5, <2>1
  <2>2. CASE u # t /\ pc[u] \in {"idle", "edit"}
    BY <1>5, <2>2 DEF UpdateInv, IdleInv, Statement
  <2>3. CASE u # t /\ pc[u] \notin {"idle", "edit"}
    <3>1. PICK j \in Keys : j = copy[u].key
      BY <2>3 DEF IdleInv, TypeOK
    <3>2. /\ pc'[u] = pc[u] /\ copy'[u] = copy[u] /\ tx'[u] = tx[u]
      BY <1>5, <2>3
    <3>3. CASE j # k
      BY <1>3, <1>9, <3>1, <3>2, <3>3 DEF UpdateInv, Stored
    <3>4. CASE j = k /\ tx[t] = {}
      BY <1>8, <3>1, <3>2, <3>4 DEF UpdateInv, Stored
    <3>5. CASE j = k /\ tx[t] # {}
      <4>1. tx[u] = {}
        BY <1>6, <2>3, <3>1, <3>5
      <4>2. s.isNew => FALSE
        BY <1>s, <1>k, <2>3, <3>1, <3>5 DEF NewInv
      <4>3. Stored(j)' <=> Stored(j)
        BY <1>8, <3>5, <4>2
      <4> QED
        BY <3>1, <3>2, <4>1, <4>3 DEF UpdateInv, Stored
    <3> QED
      BY <3>3, <3>4, <3>5
  <2> QED
    BY <2>1, <2>2, <2>3
<1> QED
  BY <1>4, <1>10, <1>11, <1>12, <1>13, <1>14, <1>15

-----------------------------------------------------------------------------
(* The invariant *)

\* The tables are empty and no thread has begun.
LEMMA SaveInvInit ==
    ASSUME Init
    PROVE  SaveInv
<1>1. /\ NoSession \in JdbcSession /\ NoSession.key = NoKey /\ ~NoSession.isNew
      /\ NoRow \in Row /\ NoRow.id = NoId
  BY JdbcAssumption DEF NoSession, JdbcSession, MaybePrincipal, NoRow, Row
<1>2. TypeOK
  BY <1>1 DEF Init, TypeOK, Step, MaybePrincipal
<1>3. RowInv
  BY <1>1 DEF Init, RowInv, Stored
<1>4. LockInv /\ NewInv /\ IdleInv /\ InsertInv /\ UpdateInv
  BY <1>1 DEF Init, LockInv, NewInv, IdleInv, InsertInv, UpdateInv
<1> QED
  BY <1>2, <1>3, <1>4 DEF SaveInv

\* The calls of deleteById, until they have taken effect or failed.
DeleteStep(t) ==
    \/ \E k \in Keys : FindExpired(t, k)
    \/ \E i \in Ids : deleteById(t, i)
    \/ DeleteSession(t)
    \/ DeleteFails(t)

\* Every step keeps what the saves rely on.
LEMMA SaveInvStep ==
    ASSUME SaveInv, [Next]_vars
    PROVE  SaveInv'
<1>0. TypeOK
  BY DEF SaveInv
<1>d. ASSUME UNCHANGED tables \/ \E k \in Keys : ~Locked(k) /\ DeleteRow(k),
             now' \in Nat, UNCHANGED <<pc, copy, tx, keys, owner>>,
             doomed' \in [Threads -> Ids \cup {NoId}]
      PROVE  SaveInv'
  <2>1. NoRow \in Row
    BY JdbcAssumption DEF NoRow, Row, MaybePrincipal
  <2>2. TypeOK'
    BY <1>0, <1>d, <2>1 DEF TypeOK, DeleteRow, tables, MaybePrincipal
  <2> QED
    BY <1>d, <2>2, DeleteKeeps
<1>1. ASSUME NEW t \in Threads, DeleteStep(t)
      PROVE  SaveInv'
  <2>1. doomed' \in [Threads -> Ids \cup {NoId}]
    <3>1. CASE \E k \in Keys : FindExpired(t, k)
      BY <1>0, <3>1 DEF FindExpired, Doom, TypeOK, Row
    <3>2. CASE \E i \in Ids : deleteById(t, i)
      BY <1>0, <3>2 DEF deleteById, Doom, TypeOK
    <3>3. CASE DeleteSession(t) \/ DeleteFails(t)
      BY <1>0, <3>3 DEF DeleteSession, DeleteFails, EndDelete, TypeOK
    <3> QED
      BY <1>1, <3>1, <3>2, <3>3 DEF DeleteStep
  <2>2. UNCHANGED <<now, pc, copy, tx, keys, owner>>
    BY <1>1 DEF DeleteStep, FindExpired, deleteById, Doom, DeleteSession, DeleteFails,
                EndDelete, local, uuids
  <2>3. UNCHANGED tables \/ \E k \in Keys : ~Locked(k) /\ DeleteRow(k)
    BY <1>1 DEF DeleteStep, FindExpired, deleteById, Doom, DeleteSession, DeleteFails
  <2> QED
    BY <1>0, <1>d, <2>1, <2>2, <2>3 DEF TypeOK
<1>2. ASSUME NEW t \in Threads, Request(t)
      PROVE  SaveInv'
  <2>1. CASE \/ \E p \in SetPrincipals : setAttribute(t, p)
             \/ removeAttribute(t)
             \/ \E max \in SetIntervals : setMaxInactiveInterval(t, max)
             \/ \E i \in Ids : changeSessionId(t, i)
    BY <2>1, EditShape, EditKeeps
  <2> QED
    BY <1>1, <1>2, <2>1, CallKeeps DEF Request, DeleteStep
<1>3. ASSUME NEW t \in Threads, Execute(t)
      PROVE  SaveInv'
  BY <1>1, <1>3, WriteKeeps, CommitKeeps, CallKeeps DEF Execute, BreakKey, DeleteStep
<1>4. CASE \/ \E k \in Keys : CleanUp(k)
           \/ Tick
           \/ UNCHANGED vars
  <2>1. /\ UNCHANGED tables \/ \E k \in Keys : ~Locked(k) /\ DeleteRow(k)
        /\ now' \in Nat /\ UNCHANGED <<pc, copy, tx, doomed, keys, owner>>
    BY <1>0, <1>4 DEF CleanUp, Tick, vars, tables, local, uuids, TypeOK
  <2> QED
    BY <1>0, <1>d, <2>1 DEF TypeOK
<1> QED
  BY <1>2, <1>3, <1>4, CallKeeps DEF Next

-----------------------------------------------------------------------------
(* The ids *)

\* The id of a session never becomes that of another.
OwnersStay == \A i \in Ids : owner[i] # NoKey => owner'[i] = owner[i]

\* A step leaves the ids of the rows and of the threads alone, or puts ones of
\* the same session in their place.
LEMMA OwnerKept ==
    ASSUME SaveInv, OwnerInv, OwnersStay,
           \A k \in Keys : Stored(k)' => \/ row'[k] = row[k]
                                         \/ owner'[row'[k].id] = k,
           \A u \in Threads :
              \/ pc'[u] = "idle"
              \/ pc[u] # "idle" /\ copy'[u] = copy[u]
              \/ owner'[copy'[u].id] = copy'[u].key,
           \A u \in Threads : doomed'[u] # NoId =>
              /\ pc'[u] = "idle"
              /\ doomed'[u] = doomed[u] \/ owner'[doomed'[u]] # NoKey
    PROVE  OwnerInv'
<1>0. /\ row \in [Keys -> Row] /\ copy \in [Threads -> JdbcSession]
      /\ doomed \in [Threads -> Ids \cup {NoId}] /\ NoKey \notin Keys /\ NoId \notin Ids
  BY JdbcAssumption DEF SaveInv, TypeOK
<1>1. ASSUME NEW k \in Keys, Stored(k)'
      PROVE  owner'[row'[k].id] = k
  <2>1. CASE row'[k] = row[k]
    <3>1. row[k].id \in Ids /\ owner[row[k].id] = k
      BY <1>0, <1>1, <2>1 DEF OwnerInv, Stored, Row
    <3> QED
      BY <1>0, <2>1, <3>1 DEF OwnersStay
  <2> QED
    BY <1>1, <2>1
<1>2. ASSUME NEW u \in Threads, pc'[u] # "idle"
      PROVE  owner'[copy'[u].id] = copy'[u].key
  <2>1. CASE pc[u] # "idle" /\ copy'[u] = copy[u]
    <3>1. /\ copy[u].id \in Ids /\ owner[copy[u].id] = copy[u].key
          /\ copy[u].key # NoKey
      BY <1>0, <2>1 DEF OwnerInv, SaveInv, IdleInv, TypeOK, JdbcSession
    <3> QED
      BY <2>1, <3>1 DEF OwnersStay
  <2> QED
    BY <1>2, <2>1
<1>3. ASSUME NEW u \in Threads, doomed'[u] # NoId
      PROVE  pc'[u] = "idle" /\ owner'[doomed'[u]] # NoKey
  <2>1. CASE doomed'[u] = doomed[u]
    <3>1. doomed[u] \in Ids /\ owner[doomed[u]] # NoKey
      BY <1>0, <1>3, <2>1 DEF OwnerInv
    <3> QED
      BY <1>3, <2>1, <3>1 DEF OwnersStay
  <2> QED
    BY <1>3, <2>1
<1> QED
  BY <1>1, <1>2, <1>3 DEF OwnerInv

LEMMA OwnersStayStep ==
    ASSUME SaveInv, [Next]_vars
    PROVE  OwnersStay
<1>0. owner \in [Ids -> Keys \cup {NoKey}]
  BY DEF SaveInv, TypeOK
<1>1. ASSUME NEW k \in Keys \cup {NoKey}, NEW i \in Ids, generateId(i, k)
      PROVE  OwnersStay
  BY <1>0, <1>1 DEF generateId, OwnersStay
<1>2. ASSUME NEW t \in Threads, NEW k \in Keys, NEW i \in Ids, createSession(t, k, i)
      PROVE  OwnersStay
  BY <1>1, <1>2 DEF createSession
<1>3. ASSUME NEW t \in Threads, NEW i \in Ids, changeSessionId(t, i)
      PROVE  OwnersStay
  <2>1. copy[t].key \in Keys \cup {NoKey}
    BY DEF SaveInv, TypeOK, JdbcSession
  <2> QED
    BY <1>1, <1>3, <2>1 DEF changeSessionId
<1>4. ASSUME UNCHANGED owner
      PROVE  OwnersStay
  BY <1>4 DEF OwnersStay
<1>5. ASSUME NEW t \in Threads, Request(t)
      PROVE  OwnersStay
  <2>1. \/ \E k \in Keys, i \in Ids : createSession(t, k, i)
        \/ \E i \in Ids : changeSessionId(t, i)
        \/ UNCHANGED owner
    BY <1>5 DEF Request, FindLive, FindExpired, deleteById, Doom, setAttribute,
                removeAttribute, setMaxInactiveInterval, Save, EndRequest, uuids
  <2> QED
    BY <1>2, <1>3, <1>4, <2>1
<1>6. ASSUME NEW t \in Threads, Execute(t) \/ Rollback(t) \/ Crash(t)
      PROVE  UNCHANGED owner
  BY <1>6 DEF Execute, Insert, InsertAttributes, Update, ChangeAttribute,
              InsertAttribute, Write, BreakKey, Commit, DeleteSession, DeleteFails,
              EndDelete, Rollback, Crash, uuids
<1>7. (\E k \in Keys : CleanUp(k)) \/ Tick \/ UNCHANGED vars => UNCHANGED owner
  BY DEF CleanUp, Tick, vars, uuids
<1> QED
  BY <1>4, <1>5, <1>6, <1>7 DEF Next

\* The ids are given to one session each, saved with it and asked for later.
LEMMA OwnerInvStep ==
    ASSUME JdbcInv, [Next]_vars
    PROVE  OwnerInv'
<1>0. /\ SaveInv /\ OwnerInv /\ OwnersStay
      /\ pc \in [Threads -> Step] /\ copy \in [Threads -> JdbcSession]
      /\ row \in [Keys -> Row] /\ doomed \in [Threads -> Ids \cup {NoId}]
      /\ owner \in [Ids -> Keys \cup {NoKey}] /\ NoKey \notin Keys /\ NoId \notin Ids
  BY OwnersStayStep, JdbcAssumption DEF JdbcInv, SaveInv, TypeOK
<1>1. /\ \A k \in Keys : Stored(k) => owner[row[k].id] = k
      /\ \A u \in Threads : pc[u] # "idle" => owner[copy[u].id] = copy[u].key
      /\ \A u \in Threads : doomed[u] # NoId => pc[u] = "idle"
  BY <1>0 DEF OwnerInv
\* A thread goes on with a session and an id of that session.
<1>m. ASSUME NEW t \in Threads, NEW s, NEW step,
             pc' = [pc EXCEPT ![t] = step], copy' = [copy EXCEPT ![t] = s],
             \/ step = "idle"
             \/ pc[t] # "idle" /\ s = copy[t]
             \/ owner'[s.id] = s.key,
             UNCHANGED doomed, doomed[t] = NoId \/ step = "idle",
             \A k \in Keys : Stored(k)' => row'[k] = row[k] \/ owner'[row'[k].id] = k
      PROVE  OwnerInv'
  <2>1. \A u \in Threads :
              \/ pc'[u] = "idle"
              \/ pc[u] # "idle" /\ copy'[u] = copy[u]
              \/ owner'[copy'[u].id] = copy'[u].key
    BY <1>0, <1>m
  <2>2. \A u \in Threads : doomed'[u] # NoId => pc'[u] = "idle" /\ doomed'[u] = doomed[u]
    BY <1>0, <1>1, <1>m
  <2> QED
    BY <1>0, <1>m, <2>1, <2>2, OwnerKept
\* A call of deleteById begins or ends, or a row goes.
<1>d. ASSUME UNCHANGED <<pc, copy>>,
             \A k \in Keys : Stored(k)' => row'[k] = row[k],
             \A u \in Threads : doomed'[u] # NoId =>
                /\ pc[u] = "idle"
                /\ doomed'[u] = doomed[u] \/ owner'[doomed'[u]] # NoKey
      PROVE  OwnerInv'
  BY <1>0, <1>d, OwnerKept
<1>u. ASSUME NEW t \in Threads, pc[t] # "idle"
      PROVE  doomed[t] = NoId
  BY <1>1, <1>u
<1>r. UNCHANGED tables => \A k \in Keys : Stored(k)' => row'[k] = row[k]
  BY DEF tables
<1>2. ASSUME NEW t \in Threads, NEW k \in Keys, NEW i \in Ids, createSession(t, k, i)
      PROVE  OwnerInv'
  <2> DEFINE s == [NoSession EXCEPT !.key = k, !.id = i, !.last = now,
                                    !.isNew = TRUE, !.changed = TRUE]
  <2>1. s.key = k /\ s.id = i
    BY DEF NoSession
  <2> HIDE DEF s
  <2>2. /\ pc' = [pc EXCEPT ![t] = "edit"] /\ copy' = [copy EXCEPT ![t] = s]
        /\ UNCHANGED <<tables, doomed>> /\ doomed[t] = NoId /\ owner'[i] = k
    BY <1>0, <1>2 DEF createSession, Idle, generateId, Goto, Hold, s
  <2>3. owner'[s.id] = s.key
    BY <2>1, <2>2
  <2> QED
    BY <1>m, <1>r, <2>2, <2>3
<1>3. ASSUME NEW t \in Threads, NEW k \in Keys, NEW touch \in Touching,
             FindLive(t, k, touch)
      PROVE  OwnerInv'
  <2> DEFINE s == Touched(Load(k), touch)
  <2>1. s.key = k /\ s.id = row[k].id
    BY DEF Touched, Load
  <2> HIDE DEF s
  <2>2. /\ pc' = [pc EXCEPT ![t] = "edit"] /\ copy' = [copy EXCEPT ![t] = s]
        /\ UNCHANGED <<tables, doomed, owner>> /\ doomed[t] = NoId /\ Stored(k)
    BY <1>3 DEF FindLive, Idle, Goto, Hold, uuids, s
  <2>3. owner'[s.id] = s.key
    BY <1>1, <2>1, <2>2
  <2> QED
    BY <1>m, <1>r, <2>2, <2>3
<1>4. ASSUME NEW t \in Threads, DeleteStep(t)
      PROVE  OwnerInv'
  <2>1. ASSUME NEW i \in Ids, owner[i] # NoKey, Doom(t, i)
        PROVE  OwnerInv'
    <3>1. /\ UNCHANGED <<pc, copy, tables, owner>> /\ pc[t] = "idle"
          /\ doomed' = [doomed EXCEPT ![t] = i]
      BY <2>1 DEF Doom, Idle, local, uuids
    <3>2. \A u \in Threads : doomed'[u] # NoId =>
             /\ pc[u] = "idle"
             /\ doomed'[u] = doomed[u] \/ owner'[doomed'[u]] # NoKey
      BY <1>0, <1>1, <2>1, <3>1
    <3> QED
      BY <1>d, <1>r, <3>1, <3>2
  <2>2. CASE \E i \in Ids : deleteById(t, i)
    BY <2>1, <2>2 DEF deleteById
  <2>3. CASE \E k \in Keys : FindExpired(t, k)
    <3>1. PICK k \in Keys : FindExpired(t, k)
      BY <2>3
    <3>2. Stored(k) /\ Doom(t, row[k].id)
      BY <3>1 DEF FindExpired
    <3>3. row[k].id \in Ids /\ owner[row[k].id] # NoKey
      BY <1>0, <1>1, <3>2 DEF Stored, Row
    <3>4. PICK i \in Ids : i = row[k].id
      BY <3>3
    <3> QED
      BY <2>1, <3>2, <3>3, <3>4
  <2>4. CASE DeleteSession(t) \/ DeleteFails(t)
    <3>1. /\ UNCHANGED <<pc, copy, owner>> /\ doomed' = [doomed EXCEPT ![t] = NoId]
          /\ UNCHANGED tables \/ \E k \in Keys : DeleteRow(k)
      BY <2>4 DEF DeleteSession, DeleteFails, EndDelete, local, uuids
    <3>2. NoRow.id = NoId
      BY DEF NoRow
    <3>3. \A k \in Keys : Stored(k)' => row'[k] = row[k]
      BY <1>0, <3>1, <3>2 DEF DeleteRow, Stored, tables
    <3>4. \A u \in Threads : doomed'[u] # NoId => pc[u] = "idle" /\ doomed'[u] = doomed[u]
      BY <1>0, <1>1, <3>1
    <3> QED
      BY <1>d, <3>1, <3>3, <3>4
  <2> QED
    BY <1>4, <2>2, <2>3, <2>4 DEF DeleteStep
<1>5. ASSUME NEW t \in Threads, NEW i \in Ids, changeSessionId(t, i)
      PROVE  OwnerInv'
  <2> DEFINE s == [copy[t] EXCEPT !.id = i, !.changed = TRUE]
  <2>1. s.key = copy[t].key /\ s.id = i
    BY <1>0 DEF JdbcSession
  <2> HIDE DEF s
  <2>2. /\ pc[t] = "edit" /\ UNCHANGED pc /\ copy' = [copy EXCEPT ![t] = s]
        /\ UNCHANGED <<tables, doomed>> /\ owner'[i] = copy[t].key
    BY <1>0, <1>5 DEF changeSessionId, generateId, Edit, Hold, s
  <2>3. pc' = [pc EXCEPT ![t] = "edit"] /\ owner'[s.id] = s.key /\ doomed[t] = NoId
    BY <1>0, <1>u, <2>1, <2>2
  <2> QED
    BY <1>m, <1>r, <2>2, <2>3
<1>6. ASSUME NEW t \in Threads, NEW s, Edit(t, s), UNCHANGED owner,
             s.key = copy[t].key, s.id = copy[t].id
      PROVE  OwnerInv'
  <2>1. /\ pc[t] = "edit" /\ pc' = [pc EXCEPT ![t] = "edit"]
        /\ copy' = [copy EXCEPT ![t] = s] /\ UNCHANGED <<tables, doomed>>
    BY <1>0, <1>6 DEF Edit, Hold
  <2>2. owner'[s.id] = s.key /\ doomed[t] = NoId
    BY <1>1, <1>6, <1>u, <2>1
  <2> QED
    BY <1>m, <1>r, <2>1, <2>2
<1>7. ASSUME NEW t \in Threads,
             \/ \E p \in SetPrincipals : setAttribute(t, p)
             \/ removeAttribute(t)
             \/ \E max \in SetIntervals : setMaxInactiveInterval(t, max)
      PROVE  OwnerInv'
  <2>1. ASSUME NEW p \in SetPrincipals, setAttribute(t, p)
        PROVE  OwnerInv'
    BY <1>0, <1>6, <2>1 DEF setAttribute, JdbcSession
  <2>2. ASSUME removeAttribute(t)
        PROVE  OwnerInv'
    BY <1>0, <1>6, <2>2 DEF removeAttribute, JdbcSession
  <2>3. ASSUME NEW max \in SetIntervals, setMaxInactiveInterval(t, max)
        PROVE  OwnerInv'
    BY <1>0, <1>6, <2>3 DEF setMaxInactiveInterval, JdbcSession
  <2> QED
    BY <1>7, <2>1, <2>2, <2>3
<1>8. ASSUME NEW t \in Threads,
             Save(t) \/ Insert(t) \/ InsertAttributes(t) \/ Update(t)
                \/ ChangeAttribute(t) \/ InsertAttribute(t) \/ Rollback(t)
      PROVE  OwnerInv'
  <2>1. /\ pc[t] # "idle" /\ UNCHANGED <<tables, copy, doomed>>
        /\ \E step : pc' = [pc EXCEPT ![t] = step]
    BY <1>8 DEF Save, Insert, InsertAttributes, Update, ChangeAttribute,
                InsertAttribute, Write, Rollback, Goto, Statement
  <2>2. copy' = [copy EXCEPT ![t] = copy[t]]
    BY <1>0, <2>1
  <2>3. doomed[t] = NoId
    BY <1>u, <2>1
  <2>4. PICK step : pc' = [pc EXCEPT ![t] = step]
    BY <2>1
  <2> QED
    BY <1>m, <1>r, <2>1, <2>2, <2>3, <2>4
<1>9. ASSUME NEW t \in Threads, Commit(t)
      PROVE  OwnerInv'
  <2>s. PICK s \in JdbcSession : s = copy[t]
    BY <1>0
  <2> DEFINE r == clearChangeFlags(s)
  <2>1. r.key = s.key /\ r.id = s.id
    BY DEF clearChangeFlags, JdbcSession
  <2>2. /\ pc[t] = "commit" /\ pc' = [pc EXCEPT ![t] = "edit"]
        /\ copy' = [copy EXCEPT ![t] = r] /\ UNCHANGED <<doomed, owner>>
        /\ row' = IF "row" \in tx[t] THEN [row EXCEPT ![s.key] = RowOf(s)] ELSE row
    BY <1>9, <2>s DEF Commit, Goto, Hold, uuids
  <2> HIDE DEF r
  <2>3. owner[s.id] = s.key /\ doomed[t] = NoId
    BY <1>1, <1>u, <2>s, <2>2
  <2>4. owner'[r.id] = r.key
    BY <2>1, <2>2, <2>3
  <2>5. RowOf(s).id = s.id
    BY DEF RowOf
  <2>6. \A k \in Keys : Stored(k)' => row'[k] = row[k] \/ owner'[row'[k].id] = k
    BY <1>0, <2>2, <2>3, <2>5
  <2> QED
    BY <1>m, <2>2, <2>3, <2>4, <2>6
<1>10. ASSUME NEW t \in Threads, EndRequest(t)
      PROVE  OwnerInv'
  BY <1>m, <1>r, <1>10 DEF EndRequest, Goto, Hold
<1>11. ASSUME NEW t \in Threads, Crash(t)
      PROVE  OwnerInv'
  <2>1. /\ pc' = [pc EXCEPT ![t] = "idle"] /\ copy' = [copy EXCEPT ![t] = NoSession]
        /\ UNCHANGED tables /\ doomed' = [doomed EXCEPT ![t] = NoId]
    BY <1>11 DEF Crash, Goto, Hold
  <2>2. \A u \in Threads :
              \/ pc'[u] = "idle"
              \/ pc[u] # "idle" /\ copy'[u] = copy[u]
    BY <1>0, <2>1
  <2>3. \A u \in Threads : doomed'[u] # NoId => pc'[u] = "idle" /\ doomed'[u] = doomed[u]
    BY <1>0, <1>1, <2>1
  <2> QED
    BY <1>0, <1>r, <2>1, <2>2, <2>3, OwnerKept
<1>12. CASE (\E k \in Keys : CleanUp(k)) \/ Tick \/ UNCHANGED vars
  <2>1. /\ UNCHANGED <<pc, copy, doomed, owner>>
        /\ UNCHANGED tables \/ \E k \in Keys : DeleteRow(k)
    BY <1>12 DEF CleanUp, Tick, vars, local, uuids
  <2>2. NoRow.id = NoId
    BY DEF NoRow
  <2>3. \A k \in Keys : Stored(k)' => row'[k] = row[k]
    BY <1>0, <2>1, <2>2 DEF DeleteRow, Stored, tables
  <2> QED
    BY <1>1, <1>d, <2>1, <2>3
<1>13. ASSUME NEW t \in Threads, Request(t)
      PROVE  OwnerInv'
  BY <1>2, <1>3, <1>4, <1>5, <1>7, <1>8, <1>10, <1>13 DEF Request, DeleteStep
<1>14. ASSUME NEW t \in Threads, Execute(t)
      PROVE  OwnerInv'
  BY <1>4, <1>8, <1>9, <1>14 DEF Execute, BreakKey, DeleteStep
<1> QED
  BY <1>8, <1>11, <1>12, <1>13, <1>14 DEF Next

\* Initially no id has been given.
LEMMA JdbcInvInit ==
    ASSUME Init
    PROVE  JdbcInv
<1>1. NoRow.id = NoId
  BY DEF NoRow
<1>2. OwnerInv
  BY <1>1 DEF Init, OwnerInv, Stored
<1> QED
  BY <1>2, SaveInvInit DEF JdbcInv

\* Every step keeps the invariant.
LEMMA JdbcInvStep ==
    ASSUME JdbcInv, [Next]_vars
    PROVE  JdbcInv'
  BY SaveInvStep, OwnerInvStep DEF JdbcInv

\* The statements of concurrent saves, deletions and cleanups keep to the
\* invariant, for any number of sessions, threads and values.
THEOREM TransactionsAreSound == Spec => []JdbcInv
<1>1. JdbcInv /\ [Next]_vars => JdbcInv'
  BY JdbcInvStep
<1> QED
  BY <1>1, JdbcInvInit, PTL DEF Spec

-----------------------------------------------------------------------------
(* The refinement *)

\* EXPIRY_TIME is the time a session expires at only if its interval is not
\* negative: cleanUpExpiredSessions deletes the sessions that are never to expire.
NoneNegative == Intervals \subseteq Nat

-----------------------------------------------------------------------------
(* What the clients see *)

\* The copy shown by a thread at the given step
Shown(step, s, w) ==
    IF step = "idle" THEN Store!NoCopy
    ELSE [id |-> s.key, last |-> s.last, max |-> s.max, principal |-> s.principal,
          edits |-> IF step = "commit" /\ w = {} THEN {} ELSE writtenFields(s)]

\* What a thread shows depends on its step, its copy and its transaction alone.
LEMMA CopyShown ==
    ASSUME NEW t \in Threads
    PROVE  heldCopies[t] = Shown(pc[t], copy[t], tx[t])
  BY DEF heldCopies, heldCopy, Shown, Store!NoCopy

\* A step of one thread shows the change of its own copy only.
LEMMA CopyMoved ==
    ASSUME NEW t \in Threads, NEW step, NEW s, NEW w, Moves(t, step, s, w)
    PROVE  heldCopies' = [heldCopies EXCEPT ![t] = Shown(step, s, w)]
<1>1. heldCopies'[t] = Shown(step, s, w)
  BY DEF Moves, heldCopies, heldCopy, Shown, Store!NoCopy
<1>2. \A u \in Threads : u # t => heldCopies'[u] = heldCopies[u]
  BY DEF Moves, heldCopies, heldCopy
<1> QED
  BY <1>1, <1>2 DEF heldCopies

\* Nothing happens in the store while the tables stay.
LEMMA NothingShown ==
    ASSUME UNCHANGED tables
    PROVE  UNCHANGED storedValues
  BY DEF tables, storedValues, storedValue, Stored

\* A deletion called for is for the session of its id, whoever gets an id next.
LEMMA DoomKept ==
    ASSUME JdbcInv, OwnersStay, UNCHANGED doomed
    PROVE  UNCHANGED doomedKeys
<1>1. ASSUME NEW t \in Threads, doomed[t] # NoId
      PROVE  owner'[doomed[t]] = owner[doomed[t]]
  <2>1. doomed[t] \in Ids /\ owner[doomed[t]] # NoKey
    BY <1>1 DEF JdbcInv, SaveInv, OwnerInv, TypeOK
  <2> QED
    BY <2>1 DEF OwnersStay
<1> QED
  BY <1>1 DEF doomedKeys

\* A thread calls deleteById, or its call is over.
LEMMA DoomMoved ==
    ASSUME JdbcInv, NEW t \in Threads, NEW i \in Ids \cup {NoId}, UNCHANGED owner,
           doomed' = [doomed EXCEPT ![t] = i]
    PROVE  doomedKeys' = [doomedKeys EXCEPT ![t] =
                             IF i = NoId THEN NoKey ELSE owner[i]]
<1>1. doomed \in [Threads -> Ids \cup {NoId}]
  BY DEF JdbcInv, SaveInv, TypeOK
<1>k. PICK k : k = IF i = NoId THEN NoKey ELSE owner[i]
  OBVIOUS
<1>2. doomedKeys'[t] = k
  BY <1>1, <1>k DEF doomedKeys
<1>3. \A u \in Threads : u # t => doomedKeys'[u] = doomedKeys[u]
  BY <1>1 DEF doomedKeys
<1>4. /\ doomedKeys = [u \in Threads |-> doomedKeys[u]]
      /\ doomedKeys' = [u \in Threads |-> doomedKeys'[u]]
  BY DEF doomedKeys
<1>5. doomedKeys' = [doomedKeys EXCEPT ![t] = k]
  BY <1>2, <1>3, <1>4
<1> QED
  BY <1>k, <1>5

\* Its deletion is for the session the id was generated for.
LEMMA DoomShown ==
    ASSUME JdbcInv, NEW t \in Threads
    PROVE  /\ doomed[t] = NoId => doomedKeys[t] = NoKey
           /\ doomed[t] # NoId => /\ doomed[t] \in Ids /\ pc[t] = "idle"
                                  /\ doomedKeys[t] = owner[doomed[t]]
                                  /\ doomedKeys[t] \in Keys /\ doomedKeys[t] # NoKey
  BY JdbcAssumption DEF JdbcInv, SaveInv, OwnerInv, TypeOK, doomedKeys

\* A step that leaves what a thread shows as it is
LEMMA Unseen ==
    ASSUME NEW t \in Threads, NEW step, NEW s, NEW w, Moves(t, step, s, w),
           Shown(step, s, w) = Shown(pc[t], copy[t], tx[t]),
           UNCHANGED <<now, tables, keys, doomedKeys>>
    PROVE  Store!Next
<1>1. heldCopies' = [heldCopies EXCEPT ![t] = heldCopies[t]]
  BY CopyShown, CopyMoved
<1>2. heldCopies' = heldCopies
  BY <1>1 DEF heldCopies
<1> QED
  BY <1>2, NothingShown DEF Store!Next, Store!storeVars

\* What a save writes of a copy may be more than the client has changed.
LEMMA WrittenShown ==
    ASSUME NEW t \in Threads, NEW id, NEW last, NEW max, NEW principal, NEW old,
           NEW edits, NEW written,
           edits \subseteq written,
           written \subseteq edits \cup {"max", "last", "principal"},
           heldCopies' = [heldCopies EXCEPT ![t] =
              [id |-> id, last |-> last, max |-> max, principal |-> principal,
               edits |-> written]]
    PROVE  Store!Edit(t, [id |-> id, last |-> last, max |-> max,
                          principal |-> principal, edits |-> old], edits)
<1>1. heldCopies'[t].edits = written
  BY DEF heldCopies
<1>2. [[id |-> id, last |-> last, max |-> max, principal |-> principal,
        edits |-> old] EXCEPT !.edits = written]
        = [id |-> id, last |-> last, max |-> max, principal |-> principal,
           edits |-> written]
  OBVIOUS
<1> QED
  BY <1>1, <1>2 DEF Store!Edit, Store!Hold, Store!Others

\* Nobody holds or stores anything at first.
LEMMA InitShown ==
    ASSUME Init
    PROVE  Store!Init
<1>1. /\ now = 0 /\ keys = {}
      /\ \A k \in Keys : row[k].id = NoId
      /\ \A t \in Threads : pc[t] = "idle"
  BY DEF Init, NoRow
<1>2. storedValues = [k \in Keys |-> Store!NotStored]
  BY <1>1 DEF storedValues, storedValue, Stored, Store!NotStored
<1>3. heldCopies = [t \in Threads |-> Store!NoCopy]
  BY <1>1 DEF heldCopies, heldCopy, Store!NoCopy
<1>4. doomedKeys = [t \in Threads |-> NoKey]
  BY DEF Init, doomedKeys
<1> QED
  BY <1>1, <1>2, <1>3, <1>4 DEF Store!Init

-----------------------------------------------------------------------------
(* The steps of the clients *)

\* createSession is that of the store.
LEMMA CreateShown ==
    ASSUME JdbcInv, NEW t \in Threads, NEW k \in Keys, NEW i \in Ids,
           createSession(t, k, i), UNCHANGED doomedKeys
    PROVE  Store!Next
<1> DEFINE s == [NoSession EXCEPT !.key = k, !.id = i, !.last = now,
                                  !.isNew = TRUE, !.changed = TRUE]
<1>1. /\ s \in JdbcSession /\ s.key = k /\ s.last = now /\ s.max = DefaultInterval
      /\ s.principal = NoPrincipal /\ s.isNew /\ ~s.dirty
  BY JdbcAssumption DEF NoSession, JdbcSession, JdbcInv, SaveInv, TypeOK, MaybePrincipal
<1>2. /\ pc[t] = "idle" /\ k \notin keys /\ keys' = keys \cup {k}
      /\ copy' = [copy EXCEPT ![t] = s] /\ pc' = [pc EXCEPT ![t] = "edit"]
      /\ UNCHANGED <<now, tables, tx>>
  BY DEF createSession, Idle, Hold, Goto
<1> HIDE DEF s
<1>3. tx[t] = {} /\ tx' = [tx EXCEPT ![t] = {}] /\ "edit" \in Step
  BY <1>2 DEF JdbcInv, SaveInv, IdleInv, TypeOK, Statement, Step
<1>4. Moves(t, "edit", s, {})
  BY <1>1, <1>2, <1>3, MovesType DEF JdbcInv, SaveInv
<1>5. heldCopies' = [heldCopies EXCEPT ![t] = Shown("edit", s, {})]
  BY <1>4, CopyMoved
<1>6. Shown("edit", s, {}) =
         [id |-> k, last |-> now, max |-> DefaultInterval,
          principal |-> NoPrincipal, edits |-> Store!Whole]
  BY <1>1 DEF Shown, writtenFields, Store!Whole
<1>7. heldCopies[t] = Store!NoCopy
  BY <1>2, CopyShown DEF Shown
<1>8. Store!createSession(t, k)
  BY <1>2, <1>5, <1>6, <1>7, NothingShown DEF Store!createSession, Store!Hold
<1> QED
  BY <1>8 DEF Store!Next

\* The loading of a live session is findById; what is loaded may be written back.
LEMMA FindShown ==
    ASSUME JdbcInv, NEW t \in Threads, NEW k \in Keys, NEW touch \in Touching,
           FindLive(t, k, touch), UNCHANGED doomedKeys
    PROVE  Store!Next
<1> DEFINE l == Load(k)
           s == Touched(l, touch)
<1>0. TypeOK /\ touch \in BOOLEAN
  BY JdbcAssumption DEF JdbcInv, SaveInv
<1>1. /\ Stored(k) /\ ~isExpired(row[k]) /\ pc[t] = "idle"
      /\ copy' = [copy EXCEPT ![t] = s] /\ pc' = [pc EXCEPT ![t] = "edit"]
      /\ UNCHANGED <<now, tables, tx, keys>>
  BY DEF FindLive, Idle, Hold, Goto, uuids
<1>2. /\ l \in JdbcSession /\ l.key = k /\ l.last = row[k].last /\ l.max = row[k].max
      /\ l.principal = attribute[k] /\ ~l.isNew
  BY <1>0, JdbcAssumption DEF Load, JdbcSession, TypeOK, Row
<1> HIDE DEF l
<1>3. /\ s \in JdbcSession /\ s.key = k /\ s.max = row[k].max
      /\ s.last = IF touch THEN now ELSE row[k].last
      /\ s.principal = attribute[k] /\ ~s.isNew
      /\ touch => s.changed
  BY <1>0, <1>2 DEF Touched, JdbcSession, TypeOK
<1> HIDE DEF s
<1>4. tx[t] = {} /\ tx' = [tx EXCEPT ![t] = {}] /\ "edit" \in Step
  BY <1>0, <1>1 DEF JdbcInv, SaveInv, IdleInv, TypeOK, Statement, Step
<1>5. Moves(t, "edit", s, {})
  BY <1>0, <1>1, <1>3, <1>4, MovesType
<1>6. storedValues[k] = [stored |-> TRUE, last |-> row[k].last, max |-> row[k].max,
                         principal |-> attribute[k]]
  BY <1>1 DEF storedValues, storedValue
<1>7. Store!Live(k)
  BY <1>1, <1>6 DEF Store!Live, Store!isExpired, isExpired
<1> DEFINE last == IF touch THEN now ELSE storedValues[k].last
           edits == IF touch THEN {"last"} ELSE {}
           written == writtenFields(s)
<1>8. edits \subseteq written /\ written \subseteq {"max", "last", "principal"}
  BY <1>3 DEF writtenFields
<1>9. Shown("edit", s, {}) =
        [id |-> k, last |-> last, max |-> storedValues[k].max,
         principal |-> storedValues[k].principal, edits |-> written]
  BY <1>3, <1>6 DEF Shown
<1>10. heldCopies' = [heldCopies EXCEPT ![t] =
        [id |-> k, last |-> last, max |-> storedValues[k].max,
         principal |-> storedValues[k].principal, edits |-> written]]
  BY <1>5, <1>9, CopyMoved
<1> HIDE DEF written
<1>11. Store!Edit(t, [id |-> k, last |-> last, max |-> storedValues[k].max,
                      principal |-> storedValues[k].principal, edits |-> {}],
                  edits)
  BY <1>8, <1>10, WrittenShown
<1>12. heldCopies[t] = Store!NoCopy
  BY <1>1, CopyShown DEF Shown
<1>13. Store!findById(t, k, touch)
  BY <1>1, <1>7, <1>11, <1>12, NothingShown DEF Store!findById
<1> QED
  BY <1>0, <1>13 DEF Store!Next

\* What a busy thread shows is a session of its own.
LEMMA HeldShown ==
    ASSUME JdbcInv, NEW t \in Threads, pc[t] # "idle"
    PROVE  /\ copy[t] \in JdbcSession /\ copy[t].key \in Keys
           /\ heldCopies[t] # Store!NoCopy
           /\ heldCopies[t] =
                 [id |-> copy[t].key, last |-> copy[t].last, max |-> copy[t].max,
                  principal |-> copy[t].principal,
                  edits |-> IF pc[t] = "commit" /\ tx[t] = {} THEN {}
                            ELSE writtenFields(copy[t])]
<1>1. copy[t] \in JdbcSession /\ copy[t].key \in Keys
  BY DEF JdbcInv, SaveInv, TypeOK, IdleInv
<1> QED
  BY <1>1, CopyShown, JdbcAssumption DEF Shown, Store!NoCopy

\* A thread that gives its session's fields new values, or announces that it
\* writes more of them, shows a change of the attribute or of the interval.
LEMMA ChangeShown ==
    ASSUME JdbcInv, NEW t \in Threads, pc[t] # "idle",
           NEW s \in JdbcSession, NEW w, Moves(t, "edit", s, w),
           UNCHANGED <<now, tables, keys, doomedKeys>>,
           s.key = copy[t].key, s.last = copy[t].last,
           heldCopies[t].edits \subseteq writtenFields(s),
           "creation" \in writtenFields(s) => "creation" \in heldCopies[t].edits,
           \/ s.max = copy[t].max /\ s.dirty
           \/ s.principal = copy[t].principal /\ s.changed
    PROVE  Store!Next
<1>1. heldCopies' = [heldCopies EXCEPT ![t] =
         [id |-> s.key, last |-> s.last, max |-> s.max, principal |-> s.principal,
          edits |-> writtenFields(s)]]
  BY CopyMoved DEF Shown
<1>2. PICK h : h = heldCopies[t]
  OBVIOUS
<1>3. /\ h # Store!NoCopy
      /\ h = [id |-> copy[t].key, last |-> copy[t].last, max |-> copy[t].max,
              principal |-> copy[t].principal, edits |-> h.edits]
  <2>1. PICK e : h = [id |-> copy[t].key, last |-> copy[t].last, max |-> copy[t].max,
                      principal |-> copy[t].principal, edits |-> e]
    BY <1>2, HeldShown
  <2>2. h.edits = e
    BY <2>1
  <2>3. h # Store!NoCopy
    BY <1>2, HeldShown
  <2> QED
    BY <2>1, <2>2, <2>3
<1>4. PICK written : written = writtenFields(s)
  OBVIOUS
<1>5. /\ h.edits \subseteq written
      /\ written \subseteq h.edits \cup {"max", "last", "principal"}
      /\ s.dirty => "principal" \in written
      /\ s.changed => "max" \in written
  BY <1>2, <1>4 DEF writtenFields
<1>6. CASE s.max = copy[t].max /\ s.dirty
  <2> DEFINE r == [id |-> s.key, last |-> s.last, max |-> s.max,
                   principal |-> s.principal, edits |-> h.edits]
  <2>1. Store!Edit(t, r, h.edits \cup {"principal"})
    <3>1. h.edits \cup {"principal"} \subseteq written
      BY <1>5, <1>6
    <3>2. written \subseteq (h.edits \cup {"principal"}) \cup {"max", "last", "principal"}
      BY <1>5
    <3>3. PICK edits : edits = h.edits \cup {"principal"}
      OBVIOUS
    <3> QED
      BY <1>1, <1>4, <3>1, <3>2, <3>3, WrittenShown
  <2>2. r.edits = h.edits /\ [h EXCEPT !.principal = s.principal] = r
    BY <1>3, <1>6
  <2> HIDE DEF r
  <2>3. Store!Change(t, r, "principal")
    BY <1>2, <1>3, <2>1, <2>2, NothingShown DEF Store!Change
  <2>4. Store!setPrincipal(t, s.principal)
    BY <1>2, <2>2, <2>3 DEF Store!setPrincipal
  <2> QED
    BY <2>4 DEF Store!Next, JdbcSession, MaybePrincipal
<1>7. CASE s.principal = copy[t].principal /\ s.changed
  <2> DEFINE r == [id |-> s.key, last |-> s.last, max |-> s.max,
                   principal |-> s.principal, edits |-> h.edits]
  <2>1. Store!Edit(t, r, h.edits \cup {"max"})
    <3>1. h.edits \cup {"max"} \subseteq written
      BY <1>5, <1>7
    <3>2. written \subseteq (h.edits \cup {"max"}) \cup {"max", "last", "principal"}
      BY <1>5
    <3>3. PICK edits : edits = h.edits \cup {"max"}
      OBVIOUS
    <3> QED
      BY <1>1, <1>4, <3>1, <3>2, <3>3, WrittenShown
  <2>2. r.edits = h.edits /\ [h EXCEPT !.max = s.max] = r
    BY <1>3, <1>7
  <2> HIDE DEF r
  <2>3. Store!Change(t, r, "max")
    BY <1>2, <1>3, <2>1, <2>2, NothingShown DEF Store!Change
  <2>4. Store!setMaxInactiveInterval(t, s.max)
    BY <1>2, <2>2, <2>3 DEF Store!setMaxInactiveInterval
  <2> QED
    BY <2>4 DEF Store!Next, JdbcSession
<1> QED
  BY <1>6, <1>7

\* The edits of the application
LEMMA EditShown ==
    ASSUME JdbcInv, NEW t \in Threads,
           \/ \E p \in SetPrincipals : setAttribute(t, p)
           \/ removeAttribute(t)
           \/ \E max \in SetIntervals : setMaxInactiveInterval(t, max)
           \/ \E i \in Ids : changeSessionId(t, i),
           UNCHANGED doomedKeys
    PROVE  Store!Next
<1>1. PICK s \in JdbcSession :
              /\ Edit(t, s)
              /\ s.key = copy[t].key /\ s.isNew = copy[t].isNew
              /\ s.last = copy[t].last
              /\ copy[t].changed => s.changed
              /\ copy[t].dirty => s.dirty
              /\ \/ s.max = copy[t].max /\ s.dirty
                 \/ s.principal = copy[t].principal /\ s.changed
  BY EditShape DEF JdbcInv
<1>2. /\ pc[t] = "edit" /\ copy' = [copy EXCEPT ![t] = s]
      /\ UNCHANGED <<now, tables, pc, tx, keys>>
  BY <1>1 DEF Edit, Hold
<1>3. /\ tx[t] = {} /\ tx' = [tx EXCEPT ![t] = {}] /\ pc' = [pc EXCEPT ![t] = "edit"]
      /\ "edit" \in Step
  BY <1>2 DEF JdbcInv, SaveInv, TypeOK, IdleInv, Statement, Step
<1>4. Moves(t, "edit", s, {})
  BY <1>2, <1>3, MovesType DEF JdbcInv, SaveInv
<1>5. heldCopies[t].edits = writtenFields(copy[t])
  <2>1. pc[t] # "idle" /\ pc[t] # "commit"
    BY <1>2
  <2>2. PICK e : e = writtenFields(copy[t])
    OBVIOUS
  <2>3. heldCopies[t] =
          [id |-> copy[t].key, last |-> copy[t].last, max |-> copy[t].max,
           principal |-> copy[t].principal, edits |-> e]
    BY <2>1, <2>2, HeldShown
  <2> QED
    BY <2>2, <2>3
<1>6. /\ writtenFields(copy[t]) \subseteq writtenFields(s)
      /\ "creation" \in writtenFields(s) => "creation" \in writtenFields(copy[t])
  BY <1>1 DEF writtenFields
<1> QED
  BY <1>1, <1>2, <1>4, <1>5, <1>6, ChangeShown

\* A failed save leaves the store alone; what it had announced is to be saved again.
LEMMA RollbackShown ==
    ASSUME JdbcInv, NEW t \in Threads, Rollback(t), UNCHANGED doomedKeys
    PROVE  Store!Next
<1> DEFINE s == copy[t]
<1>1. /\ pc[t] \in Statement /\ UNCHANGED <<now, tables, copy, keys>>
      /\ pc[t] # "idle" /\ s \in JdbcSession
      /\ pc' = [pc EXCEPT ![t] = "edit"] /\ tx' = [tx EXCEPT ![t] = {}]
      /\ copy' = [copy EXCEPT ![t] = s] /\ "edit" \in Step
  BY DEF Rollback, Goto, uuids, Statement, Step, JdbcInv, SaveInv, TypeOK
<1>2. Moves(t, "edit", s, {})
  BY <1>1, MovesType DEF JdbcInv, SaveInv
<1>3. Shown("edit", s, {}) = [id |-> s.key, last |-> s.last, max |-> s.max,
                              principal |-> s.principal, edits |-> writtenFields(s)]
  BY DEF Shown
<1>4. CASE ~(pc[t] = "commit" /\ tx[t] = {}) \/ writtenFields(s) = {}
  BY <1>1, <1>2, <1>3, <1>4, HeldShown, CopyShown, Unseen
<1>5. CASE pc[t] = "commit" /\ tx[t] = {} /\ writtenFields(s) # {}
  <2>1. ~s.isNew
    BY <1>5 DEF JdbcInv, SaveInv, InsertInv
  <2>2. heldCopies[t].edits = {} /\ "creation" \notin writtenFields(s)
    <3>1. heldCopies[t] = [id |-> copy[t].key, last |-> copy[t].last,
                           max |-> copy[t].max, principal |-> copy[t].principal,
                           edits |-> {}]
      BY <1>1, <1>5, HeldShown
    <3>2. "creation" \notin writtenFields(s)
      BY <2>1 DEF writtenFields
    <3> QED
      BY <3>1, <3>2
  <2>3. s.changed \/ s.dirty
    BY <1>5, <2>1 DEF writtenFields
  <2>4. PICK r \in JdbcSession : r = s
    BY <1>1
  <2> QED
    BY <1>1, <1>2, <2>2, <2>3, <2>4, ChangeShown
<1> QED
  BY <1>4, <1>5

\* A request that is over, or dies, drops its copy.
LEMMA DropShown ==
    ASSUME JdbcInv, NEW t \in Threads, EndRequest(t) \/ Crash(t)
    PROVE  Store!Next
<1>0. NoSession \in JdbcSession
  BY JdbcAssumption DEF NoSession, JdbcSession, MaybePrincipal
<1>1. /\ copy' = [copy EXCEPT ![t] = NoSession] /\ pc' = [pc EXCEPT ![t] = "idle"]
      /\ UNCHANGED <<now, tables, keys>>
  BY DEF EndRequest, Crash, Hold, Goto, uuids
<1>2. tx' = [tx EXCEPT ![t] = {}] /\ "idle" \in Step
  BY DEF EndRequest, Crash, JdbcInv, SaveInv, IdleInv, Statement, TypeOK, Step
<1>3. Moves(t, "idle", NoSession, {})
  BY <1>0, <1>1, <1>2, MovesType DEF JdbcInv, SaveInv
<1>4. heldCopies' = [heldCopies EXCEPT ![t] = Store!NoCopy]
  BY <1>3, CopyMoved DEF Shown
<1>5. doomedKeys' = [doomedKeys EXCEPT ![t] = NoKey]
  <2>1. CASE EndRequest(t)
    <3>1. doomed[t] = NoId
      BY <2>1 DEF EndRequest, JdbcInv, OwnerInv
    <3>2. doomed' = [doomed EXCEPT ![t] = NoId] /\ UNCHANGED owner
      BY <2>1, <3>1 DEF EndRequest, uuids, JdbcInv, SaveInv, TypeOK
    <3> QED
      BY <3>2, DoomMoved
  <2>2. CASE Crash(t)
    BY <2>2, DoomMoved DEF Crash, uuids
  <2> QED
    BY <2>1, <2>2
<1>6. heldCopies[t] # Store!NoCopy \/ doomedKeys[t] # NoKey
  <2>1. pc[t] # "idle" \/ doomed[t] # NoId
    BY DEF EndRequest, Crash, Statement
  <2> QED
    BY <2>1, HeldShown, DoomShown
<1>7. Store!Drop(t)
  BY <1>1, <1>4, <1>5, <1>6, NothingShown DEF Store!Drop, Store!Hold
<1> QED
  BY <1>7 DEF Store!Next

-----------------------------------------------------------------------------
(* The steps of a save *)

\* A save that writes nothing is the save of a copy without changes, or of a
\* session no longer stored, or the removal of an attribute that is not there.
LEMMA EmptySaveShown ==
    ASSUME JdbcInv, NEW t \in Threads, pc[t] # "idle",
           ~(pc[t] = "commit" /\ tx[t] = {}), ~copy[t].isNew,
           Moves(t, "commit", copy[t], {}),
           UNCHANGED <<now, tables, keys, doomedKeys>>,
           \/ ~Stored(copy[t].key)
           \/ /\ ~copy[t].changed
              /\ copy[t].dirty => copy[t].principal = attribute[copy[t].key]
    PROVE  Store!Next
<1>1. PICK s \in JdbcSession : s = copy[t]
  BY DEF JdbcInv, SaveInv, TypeOK
<1>2. PICK h : h = heldCopies[t]
  OBVIOUS
<1>3. PICK e : e = writtenFields(s)
  OBVIOUS
<1>4. /\ s.key \in Keys /\ h # Store!NoCopy
      /\ h = [id |-> s.key, last |-> s.last, max |-> s.max,
              principal |-> s.principal, edits |-> e]
  BY <1>1, <1>2, <1>3, HeldShown
<1>5. heldCopies' = [heldCopies EXCEPT ![t] =
         [id |-> s.key, last |-> s.last, max |-> s.max, principal |-> s.principal,
          edits |-> {}]]
  BY <1>1, CopyMoved DEF Shown
<1>6. [h EXCEPT !.edits = {}] =
         [id |-> s.key, last |-> s.last, max |-> s.max, principal |-> s.principal,
          edits |-> {}]
  <2>1. ASSUME NEW id, NEW last, NEW max, NEW principal,
               h = [id |-> id, last |-> last, max |-> max, principal |-> principal,
                    edits |-> e]
        PROVE  [h EXCEPT !.edits = {}] =
                  [id |-> id, last |-> last, max |-> max, principal |-> principal,
                   edits |-> {}]
    BY <2>1
  <2> QED
    BY <1>4, <2>1
<1>7. PICK v : v = storedValues[s.key]
  OBVIOUS
<1>8. /\ "creation" \notin e
      /\ "last" \in e <=> s.changed
      /\ "max" \in e <=> s.changed
      /\ "principal" \in e <=> s.dirty
  BY <1>1, <1>3 DEF writtenFields
<1>9. Store!Written(v, h) = v
  <2>1. CASE ~Stored(s.key)
    <3>1. v.stored = FALSE
      BY <1>4, <1>7, <2>1 DEF storedValues, storedValue
    <3>2. h.edits = e
      BY <1>4
    <3> QED
      BY <1>8, <3>1, <3>2 DEF Store!Written, Store!Whole
  <2>2. CASE Stored(s.key) /\ ~s.changed /\ (s.dirty => s.principal = attribute[s.key])
    <3>1. v = [stored |-> TRUE, last |-> row[s.key].last, max |-> row[s.key].max,
               principal |-> attribute[s.key]]
      BY <1>4, <1>7, <2>2 DEF storedValues, storedValue
    <3>2. h.edits = e /\ h.principal = s.principal
      BY <1>4
    <3>3. Store!Merge(v, h) = v
      BY <1>8, <2>2, <3>1, <3>2 DEF Store!Merge
    <3>4. v.stored
      BY <3>1
    <3> QED
      BY <3>3, <3>4 DEF Store!Written
  <2> QED
    BY <1>1, <2>1, <2>2
<1>10. storedValues' = [storedValues EXCEPT ![h.id] = Store!Written(@, h)]
  <2>1. h.id = s.key
    BY <1>4
  <2>2. storedValues = [storedValues EXCEPT ![s.key] = v]
    BY <1>4, <1>7 DEF storedValues
  <2> QED
    BY <1>4, <1>7, <1>9, <2>1, <2>2, NothingShown
<1>11. Store!save(t)
  BY <1>2, <1>4, <1>5, <1>6, <1>10 DEF Store!save, Store!Hold
<1> QED
  BY <1>11 DEF Store!Next

\* A statement that does not end an empty save is not seen.
LEMMA StatementShown ==
    ASSUME JdbcInv, NEW t \in Threads,
           NEW step \in Statement \cup {"edit"}, NEW w, pc[t] # "idle",
           ~(pc[t] = "commit" /\ tx[t] = {}), Moves(t, step, copy[t], w),
           UNCHANGED <<now, tables, keys, doomedKeys>>, step = "commit" => w # {}
    PROVE  Store!Next
<1>1. PICK s : s = copy[t]
  OBVIOUS
<1>2. PICK e : e = writtenFields(s)
  OBVIOUS
<1>3. heldCopies[t] = [id |-> s.key, last |-> s.last, max |-> s.max,
                       principal |-> s.principal, edits |-> e]
  BY <1>1, <1>2, HeldShown
<1>4. Shown(step, s, w) = [id |-> s.key, last |-> s.last, max |-> s.max,
                           principal |-> s.principal, edits |-> e]
  BY <1>2 DEF Shown, Statement
<1> QED
  BY <1>1, <1>3, <1>4, CopyShown, Unseen

\* The beginning of a save; with nothing to write it is its end as well.
LEMMA SaveShown ==
    ASSUME JdbcInv, NEW t \in Threads, Save(t), UNCHANGED doomedKeys
    PROVE  Store!Next
<1> DEFINE s == copy[t]
           step == IF s.isNew THEN "insert"
                   ELSE IF s.changed THEN "update" ELSE AfterUpdate(s)
<1>1. /\ pc' = [pc EXCEPT ![t] = step] /\ pc[t] = "edit"
      /\ UNCHANGED <<now, tables, copy, tx, keys, doomed, owner>>
  BY DEF Save, Goto, uuids
<1>2. /\ s \in JdbcSession /\ copy' = [copy EXCEPT ![t] = s]
      /\ tx[t] = {} /\ tx' = [tx EXCEPT ![t] = {}]
  BY <1>1 DEF JdbcInv, SaveInv, TypeOK, IdleInv, Statement
<1>3. step \in Step /\ step \in Statement
  BY DEF AfterUpdate, Step, Statement
<1>4. step = "commit" => ~s.isNew /\ ~s.changed /\ ~s.dirty
  BY DEF AfterUpdate
<1> HIDE DEF step
<1>5. Moves(t, step, s, {})
  BY <1>1, <1>2, <1>3, MovesType DEF JdbcInv, SaveInv
<1>6. CASE step = "commit"
  BY <1>1, <1>2, <1>4, <1>5, <1>6, EmptySaveShown
<1>7. CASE step # "commit"
  BY <1>1, <1>2, <1>3, <1>5, <1>7, StatementShown
<1> QED
  BY <1>6, <1>7

\* What a statement does to its thread
LEMMA WriteMoves ==
    ASSUME JdbcInv, NEW t \in Threads, NEW step \in Statement, NEW next \in Statement,
           NEW rows \in SUBSET {"row", "attribute"}, Write(t, step, next, rows)
    PROVE  /\ pc[t] = step /\ Moves(t, next, copy[t], tx[t] \cup rows)
           /\ UNCHANGED <<now, tables, keys>>
<1>1. /\ pc[t] = step /\ pc' = [pc EXCEPT ![t] = next]
      /\ tx' = [tx EXCEPT ![t] = tx[t] \cup rows]
      /\ UNCHANGED <<now, tables, copy, keys, doomed, owner>>
  BY DEF Write, Goto, uuids
<1>2. copy' = [copy EXCEPT ![t] = copy[t]] /\ next \in Step /\ copy[t] \in JdbcSession
      /\ tx[t] \in SUBSET {"row", "attribute"}
  BY <1>1 DEF Step, JdbcInv, SaveInv, TypeOK
<1> QED
  BY <1>1, <1>2, MovesType DEF JdbcInv, SaveInv

\* The statements of a save
LEMMA WriteShown ==
    ASSUME JdbcInv, NEW t \in Threads,
           \/ Insert(t) \/ InsertAttributes(t) \/ Update(t)
           \/ ChangeAttribute(t) \/ InsertAttribute(t),
           UNCHANGED doomedKeys
    PROVE  Store!Next
<1> DEFINE s == copy[t]
<1>0. s \in JdbcSession /\ s.dirty \in BOOLEAN
  BY DEF JdbcInv, SaveInv, TypeOK, JdbcSession
<1>s. \A x \in {"insert", "insertAttributes", "update", "attribute",
               "insertAttribute", "commit"} : x \in Statement
  BY DEF Statement
<1>1. ASSUME NEW step \in {"insert", "insertAttributes", "update", "attribute",
                           "insertAttribute"},
             NEW next \in Statement, NEW rows \in SUBSET {"row", "attribute"},
             Write(t, step, next, rows), next = "commit" => tx[t] \cup rows # {}
      PROVE  Store!Next
  <2>1. PICK w : w = tx[t] \cup rows
    OBVIOUS
  <2>2. pc[t] = step /\ Moves(t, next, s, w) /\ UNCHANGED <<now, tables, keys>>
    BY <1>1, <1>s, <2>1, WriteMoves
  <2>3. next = "commit" => w # {}
    BY <1>1, <2>1
  <2>4. pc[t] # "idle" /\ pc[t] # "commit"
    BY <2>2
  <2> QED
    BY <1>1, <2>2, <2>3, <2>4, StatementShown
<1>2. CASE Insert(t)
  <2>1. PICK next \in Statement : Write(t, "insert", next, {"row"})
    BY <1>2, <1>s DEF Insert
  <2> QED
    BY <1>1, <2>1
<1>3. CASE InsertAttributes(t)
  BY <1>1, <1>3, <1>s DEF InsertAttributes
<1>4. CASE InsertAttribute(t)
  BY <1>1, <1>4, <1>s DEF InsertAttribute
<1>5. CASE Update(t)
  <2>1. CASE Stored(s.key)
    <3>1. PICK next \in Statement : Write(t, "update", next, {"row"})
      BY <1>5, <1>s, <2>1 DEF Update, AfterUpdate
    <3> QED
      BY <1>1, <3>1
  <2>2. CASE s.dirty
    <3>1. PICK rows \in SUBSET {"row", "attribute"} : Write(t, "update", "attribute", rows)
      BY <1>5, <2>2 DEF Update, AfterUpdate
    <3> QED
      BY <1>1, <1>s, <3>1
  <2>3. CASE ~Stored(s.key) /\ ~s.dirty
    <3>1. Write(t, "update", "commit", {})
      BY <1>5, <2>3 DEF Update, AfterUpdate
    <3>2. pc[t] = "update" /\ Moves(t, "commit", s, tx[t] \cup {})
          /\ UNCHANGED <<now, tables, keys>>
      BY <1>s, <3>1, WriteMoves
    <3>3. tx[t] \cup {} = {} /\ ~s.isNew
      BY <3>2 DEF JdbcInv, SaveInv, UpdateInv, InsertInv
    <3> QED
      BY <2>3, <3>2, <3>3, EmptySaveShown
  <2> QED
    BY <1>0, <2>1, <2>2, <2>3
<1>6. CASE ChangeAttribute(t)
  <2> DEFINE found == attribute[s.key] # NoPrincipal
  <2>1. CASE found
    <3>1. Write(t, "attribute", "commit", {"attribute"})
      BY <1>6, <2>1 DEF ChangeAttribute
    <3> QED
      BY <1>1, <1>s, <3>1
  <2>2. CASE ~found /\ s.principal # NoPrincipal
    <3>1. Write(t, "attribute", "insertAttribute", {})
      BY <1>6, <2>2 DEF ChangeAttribute
    <3> QED
      BY <1>1, <1>s, <3>1
  <2>3. CASE ~found /\ s.principal = NoPrincipal
    <3>1. Write(t, "attribute", "commit", {})
      BY <1>6, <2>3 DEF ChangeAttribute
    <3>2. pc[t] = "attribute" /\ Moves(t, "commit", s, tx[t] \cup {})
          /\ UNCHANGED <<now, tables, keys>>
      BY <1>s, <3>1, WriteMoves
    <3>3. /\ ~s.isNew /\ tx[t] \subseteq {"row"}
          /\ tx[t] = {} /\ s.changed => ~Stored(s.key)
      BY <3>2 DEF JdbcInv, SaveInv, UpdateInv, InsertInv
    <3>4. CASE tx[t] = {}
      <4>1. tx[t] \cup {} = {}
        BY <3>4
      <4> QED
        BY <2>3, <3>2, <3>3, <3>4, <4>1, EmptySaveShown
    <3>5. CASE tx[t] # {}
      <4>1. tx[t] \cup {} # {}
        BY <3>5
      <4> QED
        BY <1>1, <1>s, <3>1, <4>1
    <3> QED
      BY <3>4, <3>5
  <2> QED
    BY <2>1, <2>2, <2>3
<1> QED
  BY <1>2, <1>3, <1>4, <1>5, <1>6

\* What a commit leaves in the tables is what the store's save writes.
LEMMA CommittedShown ==
    ASSUME JdbcInv, NEW t \in Threads, Commit(t), tx[t] # {}
    PROVE  storedValues' = [storedValues EXCEPT ![heldCopies[t].id] =
                              Store!Written(@, heldCopies[t])]
<1>0. TypeOK
  BY DEF JdbcInv, SaveInv
<1>1. PICK s \in JdbcSession : s = copy[t]
  BY <1>0 DEF TypeOK
<1>2. PICK k : k = s.key
  OBVIOUS
<1>3. PICK w \in SUBSET {"row", "attribute"} : w = tx[t]
  BY <1>0 DEF TypeOK
<1>4. PICK e : e = writtenFields(s)
  OBVIOUS
<1>5. PICK h : h = heldCopies[t]
  OBVIOUS
<1>6. PICK v : v = storedValues[k]
  OBVIOUS
<1>7. /\ pc[t] = "commit" /\ w # {}
      /\ row' = IF "row" \in w THEN [row EXCEPT ![k] = RowOf(s)] ELSE row
      /\ attribute' = IF "attribute" \in w
                      THEN [attribute EXCEPT ![k] = s.principal] ELSE attribute
  BY <1>1, <1>2, <1>3 DEF Commit
<1>8. /\ k \in Keys /\ s.id # NoId
      /\ h = [id |-> k, last |-> s.last, max |-> s.max, principal |-> s.principal,
              edits |-> e]
  <2>1. pc[t] # "idle" /\ ~(pc[t] = "commit" /\ tx[t] = {})
    BY <1>3, <1>7
  <2> QED
    BY <1>1, <1>2, <1>4, <1>5, <2>1, HeldShown DEF JdbcInv, SaveInv, IdleInv
<1>9. \A j \in Keys \ {k} : storedValues'[j] = storedValues[j]
  <2>1. ASSUME NEW j \in Keys \ {k}
        PROVE  row'[j] = row[j] /\ attribute'[j] = attribute[j]
    BY <1>0, <1>7 DEF TypeOK
  <2> QED
    BY <2>1 DEF storedValues, storedValue, Stored
<1>10. RowOf(s).id = s.id /\ RowOf(s).last = s.last /\ RowOf(s).max = s.max
  BY DEF RowOf
<1>11. /\ "last" \in e <=> s.isNew \/ s.changed
       /\ "max" \in e <=> s.isNew \/ s.changed
       /\ "creation" \in e <=> s.isNew
       /\ "principal" \in e <=> s.dirty
  BY <1>4 DEF writtenFields
<1>12. storedValues'[k] = Store!Written(v, h)
  <2>1. CASE s.isNew
    <3>1. /\ ~Stored(k) /\ attribute[k] = NoPrincipal
          /\ s.dirty \/ s.principal = NoPrincipal
      BY <1>1, <1>2, <1>8, <2>1 DEF JdbcInv, SaveInv, NewInv, RowInv
    <3>2. /\ "row" \in w
          /\ "attribute" \in w \/ s.principal = NoPrincipal
      BY <1>1, <1>3, <1>7, <2>1 DEF JdbcInv, SaveInv, InsertInv
    <3>3. row'[k] = RowOf(s) /\ attribute'[k] = s.principal
      BY <1>0, <1>7, <1>8, <3>1, <3>2 DEF TypeOK
    <3>4. storedValues'[k] = [stored |-> TRUE, last |-> s.last, max |-> s.max,
                              principal |-> s.principal]
      BY <1>8, <1>10, <3>3 DEF storedValues, storedValue, Stored
    <3>5. v.principal = NoPrincipal
      BY <1>6, <1>8, <3>1 DEF storedValues, storedValue
    <3>6. Store!Whole \subseteq h.edits
      BY <1>8, <1>11, <2>1 DEF Store!Whole
    <3>7. Store!Merge(v, h) = [stored |-> TRUE, last |-> s.last, max |-> s.max,
                               principal |-> s.principal]
      BY <1>8, <1>11, <2>1, <3>1, <3>5 DEF Store!Merge
    <3> QED
      BY <3>4, <3>6, <3>7 DEF Store!Written
  <2>2. CASE ~s.isNew
    <3>1. /\ Stored(k)
          /\ "row" \in w <=> s.changed
          /\ IF "attribute" \in w THEN s.dirty
             ELSE s.dirty => s.principal = NoPrincipal /\ attribute[k] = NoPrincipal
      BY <1>1, <1>2, <1>3, <1>7, <2>2 DEF JdbcInv, SaveInv, UpdateInv
    <3>2. /\ row'[k].last = IF s.changed THEN s.last ELSE row[k].last
          /\ row'[k].max = IF s.changed THEN s.max ELSE row[k].max
          /\ row'[k].id # NoId
      BY <1>0, <1>7, <1>8, <1>10, <3>1 DEF TypeOK, Stored
    <3>3. attribute'[k] = IF s.dirty THEN s.principal ELSE attribute[k]
      BY <1>0, <1>7, <1>8, <3>1 DEF TypeOK, JdbcSession
    <3>4. storedValues'[k] =
             [stored |-> TRUE, last |-> IF s.changed THEN s.last ELSE row[k].last,
              max |-> IF s.changed THEN s.max ELSE row[k].max,
              principal |-> IF s.dirty THEN s.principal ELSE attribute[k]]
      BY <1>8, <3>2, <3>3 DEF storedValues, storedValue, Stored
    <3>5. v = [stored |-> TRUE, last |-> row[k].last, max |-> row[k].max,
               principal |-> attribute[k]]
      BY <1>6, <1>8, <3>1 DEF storedValues, storedValue
    <3>6. Store!Merge(v, h) = storedValues'[k]
      BY <1>8, <1>11, <2>2, <3>4, <3>5 DEF Store!Merge
    <3>7. v.stored
      BY <3>5
    <3> QED
      BY <3>6, <3>7 DEF Store!Written
  <2> QED
    BY <2>1, <2>2
<1>13. h.id = k
  BY <1>8
<1>14. storedValues' = [storedValues EXCEPT ![k] = Store!Written(@, h)]
  BY <1>6, <1>8, <1>9, <1>12 DEF storedValues
<1> QED
  BY <1>5, <1>13, <1>14

\* A commit is the save of the store, unless it has nothing to make visible.
LEMMA CommitShown ==
    ASSUME JdbcInv, NEW t \in Threads, Commit(t), UNCHANGED doomedKeys
    PROVE  Store!Next
<1> DEFINE s == copy[t]
           r == clearChangeFlags(s)
<1>0. TypeOK /\ s \in JdbcSession
  BY DEF JdbcInv, SaveInv, TypeOK
<1>1. /\ pc[t] = "commit" /\ copy' = [copy EXCEPT ![t] = r]
      /\ pc' = [pc EXCEPT ![t] = "edit"] /\ tx' = [tx EXCEPT ![t] = {}]
      /\ UNCHANGED <<now, keys>> /\ "edit" \in Step
  BY DEF Commit, Hold, Goto, uuids, Step
<1>2. /\ r \in JdbcSession /\ r.key = s.key /\ r.last = s.last /\ r.max = s.max
      /\ r.principal = s.principal /\ ~r.isNew /\ ~r.changed /\ ~r.dirty
  BY <1>0 DEF clearChangeFlags, JdbcSession
<1> HIDE DEF r
<1>3. Moves(t, "edit", r, {})
  BY <1>0, <1>1, <1>2, MovesType
<1>4. Shown("edit", r, {}) = [id |-> s.key, last |-> s.last, max |-> s.max,
                              principal |-> s.principal, edits |-> {}]
  BY <1>2 DEF Shown, writtenFields
<1>5. CASE tx[t] = {}
  <2>1. UNCHANGED tables
    BY <1>5 DEF Commit, tables
  <2>2. Shown(pc[t], copy[t], tx[t]) = Shown("edit", r, {})
    BY <1>1, <1>4, <1>5 DEF Shown
  <2> QED
    BY <1>1, <1>3, <2>1, <2>2, Unseen
<1>6. CASE tx[t] # {}
  <2>1. PICK h : h = heldCopies[t]
    OBVIOUS
  <2>2. PICK e : e = writtenFields(s)
    OBVIOUS
  <2>3. h # Store!NoCopy
    BY <1>1, <2>1, HeldShown
  <2>4. h = [id |-> s.key, last |-> s.last, max |-> s.max,
             principal |-> s.principal, edits |-> e]
    BY <1>1, <1>6, <2>1, <2>2, HeldShown
  <2>5. [h EXCEPT !.edits = {}] = Shown("edit", r, {})
    BY <1>4, <2>4
  <2>6. heldCopies' = [heldCopies EXCEPT ![t] = [h EXCEPT !.edits = {}]]
    BY <1>3, <2>5, CopyMoved
  <2>7. Store!save(t)
    BY <1>1, <1>6, <2>1, <2>3, <2>6, CommittedShown DEF Store!save, Store!Hold
  <2> QED
    BY <2>7 DEF Store!Next
<1> QED
  BY <1>5, <1>6

-----------------------------------------------------------------------------
(* The deletions *)

\* To delete the rows of a session is to take it out of the store.
LEMMA DeletedShown ==
    ASSUME TypeOK, NEW k \in Keys, DeleteRow(k)
    PROVE  storedValues' = [storedValues EXCEPT ![k] = Store!NotStored]
<1>1. NoRow.id = NoId
  BY DEF NoRow
<1>2. row'[k] = NoRow /\ \A j \in Keys \ {k} : row'[j] = row[j] /\ attribute'[j] = attribute[j]
  BY DEF DeleteRow, TypeOK
<1>3. storedValues'[k] = Store!NotStored
  BY <1>1, <1>2 DEF storedValues, storedValue, Stored, Store!NotStored
<1>4. \A j \in Keys \ {k} : storedValues'[j] = storedValues[j]
  BY <1>2 DEF storedValues, storedValue, Stored
<1> QED
  BY <1>3, <1>4 DEF storedValues

\* A thread calls deleteById, for the id of a session or for one whose session
\* findById has found expired.
LEMMA CallShown ==
    ASSUME JdbcInv, NEW t \in Threads, NEW i \in Ids, owner[i] # NoKey, Doom(t, i)
    PROVE  Store!Next
<1>1. /\ doomed[t] = NoId /\ doomed' = [doomed EXCEPT ![t] = i]
      /\ UNCHANGED <<now, tables, pc, copy, tx, keys, owner>>
  BY DEF Doom, Idle, local, uuids
<1>2. PICK k : k = owner[i]
  OBVIOUS
<1>3. k \in Keys
  BY <1>2 DEF JdbcInv, SaveInv, TypeOK
<1>4. i # NoId
  BY JdbcAssumption
<1>5. doomedKeys' = [doomedKeys EXCEPT ![t] = k]
  BY <1>1, <1>2, <1>4, DoomMoved
<1>6. doomedKeys[t] = NoKey
  BY <1>1, DoomShown
<1>7. UNCHANGED heldCopies
  BY <1>1 DEF heldCopies, heldCopy, writtenFields
<1>8. Store!deleteById(t, k)
  BY <1>1, <1>5, <1>6, <1>7, NothingShown DEF Store!deleteById
<1> QED
  BY <1>3, <1>8 DEF Store!Next

\* The DELETE takes the session it was called for, or finds that it has another
\* id by now or none.
LEMMA DeleteShown ==
    ASSUME JdbcInv, NEW t \in Threads, DeleteStep(t)
    PROVE  Store!Next
<1>0. TypeOK /\ SaveInv /\ OwnerInv
  BY DEF JdbcInv, SaveInv
<1>1. CASE \E i \in Ids : deleteById(t, i)
  BY <1>1, CallShown DEF deleteById
<1>2. CASE \E k \in Keys : FindExpired(t, k)
  <2>1. PICK k \in Keys : FindExpired(t, k)
    BY <1>2
  <2>2. Stored(k) /\ Doom(t, row[k].id)
    BY <2>1 DEF FindExpired
  <2>3. row[k].id \in Ids /\ owner[row[k].id] # NoKey
    BY <1>0, <2>2, JdbcAssumption DEF Stored, Row, TypeOK, OwnerInv
  <2>4. PICK i \in Ids : i = row[k].id
    BY <2>3
  <2> QED
    BY <2>2, <2>3, <2>4, CallShown
<1>3. CASE DeleteSession(t) \/ DeleteFails(t)
  <2>1. /\ doomed[t] # NoId /\ doomed' = [doomed EXCEPT ![t] = NoId]
        /\ UNCHANGED <<now, pc, copy, tx, keys, owner>>
    BY <1>3 DEF DeleteSession, DeleteFails, EndDelete, local, uuids
  <2>2. doomedKeys' = [doomedKeys EXCEPT ![t] = NoKey]
    BY <2>1, DoomMoved
  <2>3. doomedKeys[t] = owner[doomed[t]] /\ doomedKeys[t] # NoKey
    BY <2>1, DoomShown
  <2>4. UNCHANGED heldCopies
    BY <2>1 DEF heldCopies, heldCopy, writtenFields
  <2>5. CASE UNCHANGED tables
    <3>1. Store!Miss(t)
      BY <2>1, <2>2, <2>3, <2>4, <2>5, NothingShown DEF Store!Miss
    <3> QED
      BY <3>1 DEF Store!Next
  <2>6. CASE \E k \in Keys : row[k].id = doomed[t] /\ DeleteRow(k)
    <3>1. PICK k \in Keys : row[k].id = doomed[t] /\ DeleteRow(k)
      BY <2>6
    <3>2. doomedKeys[t] = k
      BY <1>0, <2>1, <2>3, <3>1 DEF OwnerInv, Stored
    <3>3. storedValues' = [storedValues EXCEPT ![k] = Store!NotStored]
      BY <1>0, <3>1, DeletedShown
    <3>4. Store!Delete(t)
      BY <2>1, <2>2, <2>3, <2>4, <3>2, <3>3 DEF Store!Delete
    <3> QED
      BY <3>4 DEF Store!Next
  <2> QED
    BY <1>3, <2>5, <2>6 DEF DeleteSession, DeleteFails
<1> QED
  BY <1>1, <1>2, <1>3 DEF DeleteStep

\* A cleanup takes expired sessions only: no interval is negative.
LEMMA CleanUpShown ==
    ASSUME NoneNegative, JdbcInv, NEW k \in Keys, CleanUp(k)
    PROVE  Store!Next
<1>1. /\ Stored(k) /\ row[k].expiry < now /\ DeleteRow(k)
      /\ UNCHANGED <<now, pc, copy, tx, keys, doomed, owner>>
  BY DEF CleanUp, local, uuids
<1>2. UNCHANGED <<heldCopies, doomedKeys>>
  BY <1>1 DEF heldCopies, heldCopy, writtenFields, doomedKeys
<1>3. /\ row[k].expiry = row[k].last + row[k].max /\ row[k].max >= 0
      /\ row[k].max \in Int /\ row[k].last \in Int /\ now \in Int
  <2>1. row[k] \in Row /\ now \in Int
    BY DEF JdbcInv, SaveInv, TypeOK
  <2>2. row[k].expiry = row[k].last + row[k].max
    BY <1>1 DEF JdbcInv, SaveInv, RowInv
  <2>3. row[k].max \in Nat /\ row[k].last \in Nat
    BY <2>1 DEF Row, NoneNegative
  <2> QED
    BY <2>1, <2>2, <2>3
<1>4. storedValues[k] = [stored |-> TRUE, last |-> row[k].last, max |-> row[k].max,
                         principal |-> attribute[k]]
  BY <1>1 DEF storedValues, storedValue
<1>5. ~Store!Live(k)
  BY <1>1, <1>3, <1>4 DEF Store!Live, Store!isExpired
<1>6. Store!Evict(k)
  BY <1>1, <1>2, <1>5, DeletedShown DEF Store!Evict, JdbcInv, SaveInv
<1> QED
  BY <1>6 DEF Store!Next

-----------------------------------------------------------------------------

\* Every step is a step of SessionStore.
LEMMA StepShown ==
    ASSUME NoneNegative, JdbcInv, [Next]_vars
    PROVE  Store!Next
<1>0. UNCHANGED doomed => UNCHANGED doomedKeys
  BY DoomKept, OwnersStayStep DEF JdbcInv
<1>1. ASSUME NEW t \in Threads, Request(t)
      PROVE  Store!Next
  <2>1. CASE DeleteStep(t) \/ EndRequest(t)
    BY <2>1, DeleteShown, DropShown
  <2>2. CASE ~DeleteStep(t) /\ ~EndRequest(t)
    <3>1. UNCHANGED doomed
      BY <1>1, <2>2
      DEF Request, DeleteStep, createSession, FindLive, setAttribute, removeAttribute,
          setMaxInactiveInterval, changeSessionId, Edit, Save
    <3> QED
      BY <1>0, <1>1, <2>2, <3>1, CreateShown, FindShown, EditShown, SaveShown
      DEF Request, DeleteStep
  <2> QED
    BY <2>1, <2>2
<1>2. ASSUME NEW t \in Threads, Execute(t) \/ Rollback(t)
      PROVE  Store!Next
  <2>1. CASE DeleteStep(t)
    BY <2>1, DeleteShown
  <2>2. CASE ~DeleteStep(t)
    <3>1. UNCHANGED doomed
      BY <1>2, <2>2
      DEF Execute, DeleteStep, Insert, InsertAttributes, Update, ChangeAttribute,
          InsertAttribute, Write, BreakKey, Commit, Rollback
    <3> QED
      BY <1>0, <1>2, <2>2, <3>1, WriteShown, RollbackShown, CommitShown
      DEF Execute, BreakKey, DeleteStep
  <2> QED
    BY <2>1, <2>2
<1>3. ASSUME UNCHANGED <<pc, copy, tx>>
      PROVE  UNCHANGED heldCopies
  BY <1>3 DEF heldCopies, heldCopy, writtenFields
<1>4. CASE Tick
  <2>1. now' = now + 1 /\ UNCHANGED <<tables, pc, copy, tx, doomed, keys>>
    BY <1>4 DEF Tick, local, uuids
  <2> QED
    BY <1>0, <1>3, <2>1, NothingShown DEF Store!Next, Store!Tick
<1>5. CASE UNCHANGED vars
  <2>1. UNCHANGED <<now, tables, pc, copy, tx, doomed, keys>>
    BY <1>5 DEF vars, local, uuids
  <2> QED
    BY <1>0, <1>3, <2>1, NothingShown DEF Store!Next, Store!storeVars
<1> QED
  BY <1>1, <1>2, <1>4, <1>5, CleanUpShown, DropShown DEF Next

\* The repository's transactions implement SessionStore, whatever the interleaving
\* of their statements, if no session is configured never to expire.
THEOREM TransactionsImplementStore == NoneNegative => (Spec => ImplementsStore)
<1>1. ASSUME NoneNegative
      PROVE  Spec => Store!Spec
  <2>1. JdbcInv /\ [Next]_vars => [Store!Next]_(Store!storeVars)
    BY <1>1, StepShown
  <2> QED
    BY <2>1, InitShown, TransactionsAreSound, PTL DEF Spec, Store!Spec
<1> QED
  BY <1>1 DEF ImplementsStore

Gone == INSTANCE SessionStoreProofs WITH
           Ids <- Keys, NoId <- NoKey, store <- storedValues,
           copy <- heldCopies, doomed <- doomedKeys, used <- keys,
           WritesUnchanged <- TRUE

\* A session whose row was deleted or cleaned up never comes back, whichever
\* request commits a save of its copy how much later.
THEOREM GoneSessionsOfJdbcStayGone ==
    NoneNegative => (Spec => Store!GoneStaysGone)
<1>1. Gone!Parameters
  BY JdbcAssumption DEF Gone!Parameters
<1>2. Gone!Spec => Gone!GoneStaysGone
  BY <1>1, Gone!GoneSessionsStayGone
<1>3. Store!Init <=> Gone!Init
  BY DEF Store!Init, Gone!Init, Store!NotStored, Gone!NotStored, Store!NoCopy, Gone!NoCopy
<1>4. [Store!Next]_(Store!storeVars) <=> [Gone!Next]_(Gone!storeVars)
  BY DEF Store!Next, Gone!Next, Store!storeVars, Gone!storeVars,
      Store!createSession, Gone!createSession, Store!findById,
      Gone!findById, Store!setPrincipal, Gone!setPrincipal,
      Store!setMaxInactiveInterval, Gone!setMaxInactiveInterval,
      Store!save, Gone!save, Store!deleteById, Gone!deleteById, Store!Delete, Gone!Delete,
      Store!Miss, Gone!Miss,
      Store!Evict, Gone!Evict, Store!Drop, Gone!Drop, Store!Tick,
      Gone!Tick, Store!Change, Gone!Change, Store!Edit, Gone!Edit,
      Store!Others, Gone!Others, Store!Hold, Gone!Hold,
      Store!Live, Gone!Live, Store!isExpired, Gone!isExpired, Store!Whole,
      Gone!Whole, Store!NoCopy, Gone!NoCopy, Store!NotStored, Gone!NotStored,
      Store!Written, Gone!Written, Store!Merge, Gone!Merge
<1>5. Store!GoneStaysGone <=> Gone!GoneStaysGone
  BY DEF Store!GoneStaysGone, Gone!GoneStaysGone, Store!Settled, Gone!Settled
<1>6. Store!Spec <=> Gone!Spec
  BY <1>3, <1>4, PTL DEF Store!Spec, Gone!Spec
<1> QED
  BY <1>2, <1>5, <1>6, TransactionsImplementStore DEF ImplementsStore
=============================================================================
