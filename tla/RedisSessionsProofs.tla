------------------------ MODULE RedisSessionsProofs ------------------------
(* Proofs about RedisSessions, for every value of the constants. *)
EXTENDS RedisSessionsInv, TLAPS

-----------------------------------------------------------------------------
(* Types *)

\* The type invariant made inductive: a thread in a call has a session with ids.
TypeInv ==
    /\ TypeOK
    /\ \A t \in Threads : pc[t] # "idle" =>
          session[t].id \in Ids /\ session[t].originalId \in Ids

\* Rounding to the minute yields integers.
LEMMA RoundType ==
    ASSUME NEW time \in Int
    PROVE  roundDownMinute(time) \in Int /\ roundUpToNextMinute(time) \in Int
  BY ConstantsAssumption DEF roundDownMinute, roundUpToNextMinute

\* What is loaded from a hash is a session.
LEMMA LoadType ==
    ASSUME TypeOK, NEW id \in Ids
    PROVE  /\ loadSession(id) \in RedisSession
           /\ loadSession(id).id = id /\ loadSession(id).originalId = id
  BY DEF TypeOK, RedisTypeOK, loadSession, RedisSession, HashValue

\* A new session is a session.
LEMMA NewType ==
    ASSUME TypeOK, NEW id \in Ids
    PROVE  newSession(id) \in RedisSession
  BY ConstantsAssumption
  DEF TypeOK, RedisTypeOK, newSession, RedisSession, MaybePrincipal, NoTime, Field

\* Going to a step with a session keeps the types of pc and session.
LEMMA GotoType ==
    ASSUME TypeInv, NEW t \in Threads, NEW step \in Step, NEW s \in RedisSession,
           Goto(t, step, s), step # "idle" => s.id \in Ids /\ s.originalId \in Ids
    PROVE  /\ pc' \in [Threads -> Step]
           /\ session' \in [Threads -> RedisSession]
           /\ \A u \in Threads : pc'[u] # "idle" =>
                 session'[u].id \in Ids /\ session'[u].originalId \in Ids
  BY DEF TypeInv, TypeOK, Goto

\* The first step of a save leaves the thread well typed.
LEMMA SaveDeltaType ==
    ASSUME TypeInv, NEW t \in Threads, NEW s \in RedisSession,
           NEW by \in {"setter", "save", "delete"}, saveDelta(t, s, by),
           s.id \in Ids, s.originalId \in Ids
    PROVE  /\ pc' \in [Threads -> Step]
           /\ session' \in [Threads -> RedisSession]
           /\ caller' \in [Threads -> {"setter", "save", "delete"}]
           /\ \A u \in Threads : pc'[u] # "idle" =>
                 session'[u].id \in Ids /\ session'[u].originalId \in Ids
  BY GotoType DEF TypeInv, TypeOK, saveDelta, afterRename, Step, SaveStep

\* Setting a field, flushed or not, leaves the thread well typed.
LEMMA PutType ==
    ASSUME TypeInv, NEW t \in Threads, NEW s \in RedisSession, NEW f \in Field,
           putAndFlush(t, s, f), s.id \in Ids, s.originalId \in Ids
    PROVE  /\ pc' \in [Threads -> Step]
           /\ session' \in [Threads -> RedisSession]
           /\ caller' \in [Threads -> {"setter", "save", "delete"}]
           /\ \A u \in Threads : pc'[u] # "idle" =>
                 session'[u].id \in Ids /\ session'[u].originalId \in Ids
<1> DEFINE put == [s EXCEPT !.delta = @ \cup {f}]
<1>1. put \in RedisSession /\ put.id \in Ids /\ put.originalId \in Ids
  BY DEF RedisSession
<1>2. CASE FlushMode = "IMMEDIATE"
  <2>1. saveDelta(t, put, "setter")
    BY <1>2 DEF putAndFlush
  <2> QED
    BY <1>1, <2>1, SaveDeltaType
<1>3. CASE FlushMode # "IMMEDIATE"
  <2>1. Goto(t, "edit", put) /\ UNCHANGED caller
    BY <1>3 DEF putAndFlush
  <2> QED
    BY <1>1, <2>1, GotoType DEF Step, TypeInv, TypeOK
<1> QED
  BY <1>2, <1>3

\* A thread that leaves its call is well typed.
LEMMA IdleType ==
    ASSUME TypeInv, NEW t \in Threads, GoIdle(t)
    PROVE  /\ pc' \in [Threads -> Step]
           /\ session' \in [Threads -> RedisSession]
           /\ caller' \in [Threads -> {"setter", "save", "delete"}]
           /\ start' \in [Threads -> Nat]
           /\ \A u \in Threads : pc'[u] # "idle" =>
                 session'[u].id \in Ids /\ session'[u].originalId \in Ids
<1>1. NoSession \in RedisSession /\ "idle" \in Step
  BY ConstantsAssumption DEF NoSession, RedisSession, MaybePrincipal, NoTime, Step
<1> QED
  BY <1>1, GotoType DEF GoIdle, TypeInv, TypeOK

\* Every initial state is well typed.
LEMMA TypeInit == Init => TypeInv
  BY ConstantsAssumption
  DEF Init, RedisInit, TypeInv, TypeOK, RedisTypeOK, NoHash, HashValue, Field,
      MaybePrincipal, NoTtl, Step, RedisSession, NoSession, NoTime

\* What a deletion or a save finds in its session.
LEMMA BusyType ==
    ASSUME TypeInv, NEW t \in Threads, pc[t] # "idle"
    PROVE  /\ session[t] \in RedisSession
           /\ session[t].id \in Ids /\ session[t].originalId \in Ids
  BY DEF TypeInv, TypeOK

\* The messages Redis and save publish are messages.
LEMMA PublishType ==
    ASSUME NEW type \in {"created", "del", "expired"}, NEW id \in Ids,
           NEW body \in SUBSET Field
    PROVE  Publish(type, id, body) \subseteq Message
  BY DEF Publish, Message

\* Starting a call keeps the types.
LEMMA BeginType ==
    ASSUME TypeInv, NEW t \in Threads, Begin(t)
    PROVE  pc[t] = "idle" /\ start' \in [Threads -> Nat] /\ calls' \in Nat
  BY DEF TypeInv, TypeOK, RedisTypeOK, Begin

\* The calls of the application keep the types.
LEMMA TypeCall ==
    ASSUME TypeInv, NEW t \in Threads, Call(t)
    PROVE  TypeInv'
<1> USE DEF redisVars, cronVars, listenerVars, historyVars
<1>1. ASSUME NEW id \in Ids, createSession(t, id)
      PROVE  TypeInv'
  BY <1>1, NewType, PutType
  DEF createSession, Begin, TypeInv, TypeOK, RedisTypeOK, newSession, Field
<1>2. ASSUME NEW id \in Ids, deleteById(t, id)
      PROVE  TypeInv'
  <2> DEFINE loaded == loadSession(id)
  <2>1. loaded \in RedisSession /\ loaded.id \in Ids /\ loaded.originalId \in Ids
    BY LoadType DEF TypeInv
  <2>2. Begin(t) /\ Goto(t, "delIndex", loaded) /\ "delIndex" \in Step
    BY <1>2 DEF deleteById, Step, DeleteStep
  <2> HIDE DEF loaded
  <2> QED
    BY <1>2, <2>1, <2>2, BeginType, GotoType
    DEF deleteById, TypeInv, TypeOK, RedisTypeOK
<1>3. ASSUME NEW id \in Ids, changeSessionId(t, id)
      PROVE  TypeInv'
  <2>1. session[t] \in RedisSession /\ session[t].originalId \in Ids
    BY <1>3, BusyType DEF changeSessionId, Editing
  <2>2. [session[t] EXCEPT !.id = id] \in RedisSession
    BY <2>1 DEF RedisSession
  <2> QED
    <3> DEFINE r == [session[t] EXCEPT !.id = id]
    <3>1. r.id \in Ids /\ r.originalId \in Ids
      BY <2>1 DEF RedisSession
    <3>2. Goto(t, "edit", r) /\ "edit" \in Step
      BY <1>3 DEF changeSessionId, Step
    <3>3. origin' \in [Ids -> Ids]
      BY <1>3, BusyType DEF changeSessionId, Editing, TypeInv, TypeOK
    <3>4. r \in RedisSession
      BY <2>2
    <3> HIDE DEF r
    <3> QED
      BY <1>3, <3>1, <3>2, <3>3, <3>4, GotoType
      DEF changeSessionId, Editing, TypeInv, TypeOK, RedisTypeOK
<1>4. ASSUME NEW id \in Ids, NEW touch \in Touching, findById(t, id, touch)
      PROVE  TypeInv'
  <2> DEFINE loaded == loadSession(id)
  <2>1. loaded \in RedisSession /\ loaded.id \in Ids /\ loaded.originalId \in Ids
    BY LoadType DEF TypeInv
  <2>2. now \in Nat
    BY DEF TypeInv, TypeOK, RedisTypeOK
  <2>3. [loaded EXCEPT !.last = now] \in RedisSession
    BY <2>1, <2>2 DEF RedisSession
  <2> HIDE DEF loaded
  <2>4. CASE touch
    <3>1. putAndFlush(t, [loaded EXCEPT !.last = now], "last")
      BY <1>4, <2>4 DEF findById, loaded
    <3>2. /\ [loaded EXCEPT !.last = now].id \in Ids
          /\ [loaded EXCEPT !.last = now].originalId \in Ids
          /\ "last" \in Field
      BY <2>1 DEF RedisSession, Field
    <3> QED
      <4> DEFINE r == [loaded EXCEPT !.last = now]
      <4>1. r \in RedisSession /\ putAndFlush(t, r, "last")
        BY <2>3, <3>1
      <4>2. r.id \in Ids /\ r.originalId \in Ids /\ "last" \in Field /\ Begin(t)
        BY <1>4, <3>2 DEF findById
      <4> HIDE DEF r
      <4> QED
        BY <1>4, <4>1, <4>2, BeginType, PutType
        DEF findById, TypeInv, TypeOK, RedisTypeOK
  <2>5. CASE ~touch
    <3>1. Goto(t, "edit", loaded) /\ UNCHANGED caller
      BY <1>4, <2>5 DEF findById, loaded
    <3> QED
      <4>1. Begin(t) /\ "edit" \in Step
        BY <1>4 DEF findById, Step
      <4> QED
        BY <1>4, <2>1, <3>1, <4>1, BeginType, GotoType
        DEF findById, TypeInv, TypeOK, RedisTypeOK
  <2> QED
    BY <2>4, <2>5
<1>5. ASSUME NEW p \in SetPrincipals, setPrincipal(t, p)
      PROVE  TypeInv'
  <2> DEFINE s == [session[t] EXCEPT !.principal = p]
  <2>1. s \in RedisSession /\ s.id \in Ids /\ s.originalId \in Ids
    BY <1>5, BusyType, RepositoryAssumption DEF setPrincipal, Editing, RedisSession
  <2>2. putAndFlush(t, s, "principal") /\ "principal" \in Field
    BY <1>5 DEF setPrincipal, Field
  <2> HIDE DEF s
  <2> QED
    BY <1>5, <2>1, <2>2, PutType
    DEF setPrincipal, Editing, TypeInv, TypeOK, RedisTypeOK
<1>6. ASSUME NEW max \in SetIntervals, setMaxInactiveInterval(t, max)
      PROVE  TypeInv'
  <2> DEFINE s == [session[t] EXCEPT !.max = max]
  <2>1. s \in RedisSession /\ s.id \in Ids /\ s.originalId \in Ids
    BY <1>6, BusyType, RepositoryAssumption
    DEF setMaxInactiveInterval, Editing, RedisSession
  <2>2. putAndFlush(t, s, "max") /\ "max" \in Field
    BY <1>6 DEF setMaxInactiveInterval, Field
  <2> HIDE DEF s
  <2> QED
    BY <1>6, <2>1, <2>2, PutType
    DEF setMaxInactiveInterval, Editing, TypeInv, TypeOK, RedisTypeOK
<1>7. CASE save(t)
  BY <1>7, BusyType, SaveDeltaType DEF save, Editing, TypeInv, TypeOK, RedisTypeOK
<1> QED
  BY <1>1, <1>2, <1>3, <1>4, <1>5, <1>6, <1>7 DEF Call

\* The commands of deleteById and saveDelta keep the types.
LEMMA TypeCommand ==
    ASSUME TypeInv, NEW t \in Threads, Command(t)
    PROVE  TypeInv'
<1> USE DEF cronVars, listenerVars, historyVars
<1> DEFINE s == session[t]
<1>a. pc[t] # "idle" /\ s \in RedisSession /\ s.id \in Ids /\ s.originalId \in Ids
  BY BusyType DEF Command, DeleteFromIndex, DeleteShadow, Rename, PutAll,
     RemoveOldPrincipal, AddNewPrincipal, LeaveOldBucket, EnterBucket, WriteShadow,
     ExtendShadow, ExtendHash, Return, Saving
<1>1. CASE DeleteFromIndex(t)
  BY <1>1, <1>a, GotoType
  DEF DeleteFromIndex, RemoveFromIndex, TypeInv, TypeOK, RedisTypeOK, Step, DeleteStep
<1>2. CASE DeleteShadow(t)
  <2> DEFINE d == [s EXCEPT !.max = 0, !.delta = {"max"}]
  <2>1. d \in RedisSession /\ d.id \in Ids /\ d.originalId \in Ids
    BY <1>a, ConstantsAssumption DEF RedisSession, Field
  <2>2. saveDelta(t, d, "delete")
    BY <1>2 DEF DeleteShadow
  <2>3. Publish("del", s.id, {}) \subseteq Message
    BY <1>a, PublishType
  <2> HIDE DEF d
  <2> QED
    BY <1>2, <1>a, <2>1, <2>2, <2>3, SaveDeltaType
    DEF DeleteShadow, DelShadow, TypeInv, TypeOK, RedisTypeOK
<1>3. CASE Rename(t)
  <2>1. CASE Exists(s.originalId)
    <3> DEFINE r == [s EXCEPT !.originalId = s.id]
    <3>1. r \in RedisSession /\ r.id \in Ids /\ r.originalId \in Ids
      BY <1>a DEF RedisSession
    <3>2. Goto(t, afterRename(s), r) /\ RenameHash(s.originalId, s.id)
      BY <1>3, <2>1 DEF Rename
    <3>3. afterRename(s) \in Step
      BY DEF afterRename, Step, SaveStep
    <3> HIDE DEF r
    <3> QED
      BY <1>3, <1>a, <3>1, <3>2, <3>3, GotoType, ConstantsAssumption
      DEF Rename, Saving, RenameHash, NoHash, HashValue, MaybePrincipal,
          TypeInv, TypeOK, RedisTypeOK
  <2>2. CASE ~Exists(s.originalId)
    <3>1. Goto(t, "failed", s) /\ "failed" \in Step
      BY <1>3, <2>2 DEF Rename, Step
    <3> QED
      BY <1>3, <2>2, <1>a, <3>1, GotoType DEF Rename, Saving, TypeInv, TypeOK, RedisTypeOK
  <2> QED
    BY <2>1, <2>2
<1>4. CASE PutAll(t)
  <2> DEFINE r == [s EXCEPT !.delta = {}]
             step == IF "principal" \in s.delta THEN "unindex" ELSE "unbucket"
  <2>1. r \in RedisSession /\ r.id \in Ids /\ r.originalId \in Ids
    BY <1>a DEF RedisSession
  <2>2. Goto(t, step, r) /\ step \in Step
    BY <1>4 DEF PutAll, Step, SaveStep
  <2>3. hash' \in [Ids -> HashValue]
    BY <1>4, <1>a DEF PutAll, Hmset, TypeInv, TypeOK, RedisTypeOK, HashValue, RedisSession
  <2> HIDE DEF r, step
  <2> QED
    BY <1>4, <1>a, <2>1, <2>2, <2>3, GotoType
    DEF PutAll, Saving, TypeInv, TypeOK, RedisTypeOK
<1>5. CASE RemoveOldPrincipal(t)
  <2> DEFINE r == [s EXCEPT !.originalPrincipal = s.principal]
  <2>1. r \in RedisSession /\ r.id \in Ids /\ r.originalId \in Ids
    BY <1>a DEF RedisSession
  <2>2. Goto(t, "index", r) /\ "index" \in Step
    BY <1>5 DEF RemoveOldPrincipal, Step, SaveStep
  <2> HIDE DEF r
  <2> QED
    BY <1>5, <1>a, <2>1, <2>2, GotoType
    DEF RemoveOldPrincipal, RemoveFromIndex, Saving, TypeInv, TypeOK, RedisTypeOK
<1>6. CASE AddNewPrincipal(t)
  BY <1>6, <1>a, GotoType
  DEF AddNewPrincipal, AddToIndex, Saving, TypeInv, TypeOK, RedisTypeOK, Step, SaveStep
<1>7. CASE LeaveOldBucket(t)
  <2> DEFINE step == IF s.max < 0 THEN "append" ELSE "bucket"
  <2>1. Goto(t, step, s) /\ step \in Step
    BY <1>7 DEF LeaveOldBucket, Step, SaveStep
  <2>2. bucket' \subseteq Int \X Ids /\ bucketTtl' \subseteq Int \X Int
    BY <1>7 DEF LeaveOldBucket, RemoveFromBucket, TypeInv, TypeOK, RedisTypeOK
  <2> HIDE DEF step
  <2> QED
    BY <1>7, <1>a, <2>1, <2>2, GotoType
    DEF LeaveOldBucket, Saving, TypeInv, TypeOK, RedisTypeOK
<1>8. CASE EnterBucket(t)
  <2>1. s.max \in Int /\ s.last \in Nat
    BY <1>a, ConstantsAssumption DEF RedisSession
  <2>2. roundUpToNextMinute(expiresInMillis(s)) \in Int
    BY <2>1, RoundType DEF expiresInMillis
  <2>3. bucket' \subseteq Int \X Ids /\ bucketTtl' \subseteq Int \X Int
    BY <1>8, <1>a, <2>1, <2>2, ConstantsAssumption
    DEF EnterBucket, AddToBucket, TypeInv, TypeOK, RedisTypeOK
  <2> QED
    BY <1>8, <1>a, <2>3, GotoType
    DEF EnterBucket, Saving, TypeInv, TypeOK, RedisTypeOK, Step, SaveStep
<1>9. CASE WriteShadow(t)
  <2>1. Publish("del", s.id, {}) \subseteq Message
    BY <1>a, PublishType
  <2>2. /\ shadow' \subseteq Ids
        /\ shadowTtl' \in [Ids -> Nat \cup {NoTtl}]
        /\ inbox' \subseteq Message
    BY <1>9, <1>a, <2>1
    DEF WriteShadow, DelShadow, AppendShadow, TypeInv, TypeOK, RedisTypeOK
  <2>3. PICK step \in {"hashTtl", "shadowTtl"} : Goto(t, step, s)
    BY <1>9 DEF WriteShadow
  <2>4. step \in Step
    BY DEF Step, SaveStep
  <2> QED
    BY <1>9, <1>a, <2>2, <2>3, <2>4, GotoType
    DEF WriteShadow, Saving, TypeInv, TypeOK, RedisTypeOK
<1>10. CASE ExtendShadow(t)
  <2>1. s.max \in Int /\ now \in Nat
    BY <1>a, ConstantsAssumption DEF RedisSession, TypeInv, TypeOK, RedisTypeOK
  <2>2. shadowTtl' \in [Ids -> Nat \cup {NoTtl}]
    BY <1>10, <1>a, <2>1 DEF ExtendShadow, SetShadowTtl, TypeInv, TypeOK, RedisTypeOK
  <2> QED
    BY <1>10, <1>a, <2>2, GotoType
    DEF ExtendShadow, Saving, TypeInv, TypeOK, RedisTypeOK, Step, SaveStep
<1>11. CASE ExtendHash(t)
  <2>1. s.max \in Int /\ now \in Nat /\ Grace \in Nat
    BY <1>a, ConstantsAssumption DEF RedisSession, TypeInv, TypeOK, RedisTypeOK
  <2>2. hashTtl' \in [Ids -> Nat \cup {NoTtl}]
    BY <1>11, <1>a, <2>1 DEF ExtendHash, SetHashTtl, TypeInv, TypeOK, RedisTypeOK
  <2> QED
    BY <1>11, <1>a, <2>2, GotoType
    DEF ExtendHash, Saving, TypeInv, TypeOK, RedisTypeOK, Step, SaveStep
<1>12. CASE Return(t)
  <2>1. CASE caller[t] = "delete"
    BY <1>12, <2>1, <1>a, IdleType DEF Return, TypeInv, TypeOK, RedisTypeOK
  <2>2. CASE caller[t] # "delete"
    <3> DEFINE r == [s EXCEPT !.isNew = @ /\ caller[t] = "setter"]
    <3>1. r \in RedisSession /\ r.id \in Ids /\ r.originalId \in Ids
      BY <1>a DEF RedisSession
    <3>2. Goto(t, "edit", r) /\ "edit" \in Step
      BY <1>12, <2>2 DEF Return, Step
    <3>3. Publish("created", s.id, s.delta) \subseteq Message
      BY <1>a, PublishType DEF RedisSession
    <3> HIDE DEF r
    <3> QED
      BY <1>12, <2>2, <1>a, <3>1, <3>2, <3>3, GotoType
      DEF Return, TypeInv, TypeOK, RedisTypeOK
  <2> QED
    BY <2>1, <2>2
<1> QED
  BY <1>1, <1>2, <1>3, <1>4, <1>5, <1>6, <1>7, <1>8, <1>9, <1>10, <1>11, <1>12
  DEF Command
\* The cleanup, the listener, Redis' expiry and the clock keep the types.
LEMMA TypeOthers ==
    ASSUME TypeInv, Clean \/ Listen \/ Expire \/ Tick
    PROVE  TypeInv'
<1> USE DEF redisVars, threadVars, cronVars, listenerVars, historyVars
<1>0. TypeOK /\ RedisTypeOK
  BY DEF TypeInv, TypeOK
<1>1. CASE CleanRead
  BY <1>1, RoundType DEF CleanRead, TypeInv, TypeOK, RedisTypeOK
<1>2. CASE CleanDelete
  BY <1>2 DEF CleanDelete, DelBucket, TypeInv, TypeOK, RedisTypeOK
<1>3. ASSUME NEW id \in Ids, CleanTouch(id)
      PROVE  TypeInv'
  BY <1>3 DEF CleanTouch, TypeInv, TypeOK, RedisTypeOK
<1>4. ASSUME NEW m \in inbox, Receive(m)
      PROVE  TypeInv'
  <2>1. m \in Message /\ m.id \in Ids
    BY <1>0 DEF RedisTypeOK, Message
  <2>2. hash[m.id].fields \subseteq Field /\ hash[m.id].principal \in MaybePrincipal
    BY <1>0, <2>1 DEF RedisTypeOK, HashValue
  <2>3. published' \subseteq Message
    BY <1>4, <1>0, <2>1, <2>2 DEF Receive, Message, TypeOK
  <2>4. handling' \subseteq [message : Message, principal : Principals,
                            body : SUBSET Field]
    BY <1>4, <1>0, <2>1, <2>2 DEF Receive, MaybePrincipal, TypeOK
  <2> QED
    BY <1>4, <2>3, <2>4 DEF Receive, TypeInv, TypeOK, RedisTypeOK
<1>5. ASSUME NEW m \in inbox, Lose(m)
      PROVE  TypeInv'
  BY <1>5 DEF Lose, TypeInv, TypeOK, RedisTypeOK
<1>6. ASSUME NEW h \in handling, CleanIndexAndPublish(h)
      PROVE  TypeInv'
  <2>1. h.message \in Message /\ h.body \subseteq Field
    BY <1>0 DEF TypeOK
  <2>2. published' \subseteq Message
    BY <1>6, <2>1 DEF CleanIndexAndPublish, Message
  <2>3. index' \in [Principals -> SUBSET Ids]
    BY <1>6, <1>0 DEF CleanIndexAndPublish, RemoveFromIndex, RedisTypeOK
  <2> QED
    BY <1>6, <2>2, <2>3 DEF CleanIndexAndPublish, TypeInv, TypeOK, RedisTypeOK
<1>7. CASE Expire
  <2>1. NoHash \in HashValue
    BY ConstantsAssumption DEF NoHash, HashValue, Field, MaybePrincipal
  <2>2. \A id \in Ids : Publish("expired", id, {}) \subseteq Message
    BY PublishType
  <2>3. ASSUME NEW id \in Ids, ExpireHash(id)
        PROVE  TypeInv'
    BY <1>7, <2>1, <2>3 DEF Expire, ExpireHash, TypeInv, TypeOK, RedisTypeOK
  <2>4. ASSUME NEW id \in Ids, ExpireShadow(id)
        PROVE  TypeInv'
    BY <1>7, <2>2, <2>4 DEF Expire, ExpireShadow, TypeInv, TypeOK, RedisTypeOK
  <2>5. ASSUME NEW p \in bucketTtl, ExpireBucket(p[1])
        PROVE  TypeInv'
    BY <1>7, <2>5 DEF Expire, ExpireBucket, TypeInv, TypeOK, RedisTypeOK
  <2> QED
    BY <1>7, <2>3, <2>4, <2>5 DEF Expire
<1>8. CASE Tick
  BY <1>8 DEF Tick, TypeInv, TypeOK, RedisTypeOK
<1> QED
  BY <1>1, <1>2, <1>3, <1>4, <1>5, <1>6, <1>7, <1>8 DEF Clean, Listen

\* Every step keeps the types.
LEMMA TypeNext == TypeInv /\ [Next]_vars => TypeInv'
<1> SUFFICES ASSUME TypeInv, [Next]_vars
             PROVE  TypeInv'
  OBVIOUS
<1>1. ASSUME NEW t \in Threads, EndRequest(t) \/ Crash(t)
      PROVE  TypeInv'
  <2>1. GoIdle(t)
    BY <1>1 DEF EndRequest, Crash
  <2> QED
    BY <1>1, <2>1, IdleType
    DEF EndRequest, Crash, TypeInv, TypeOK, RedisTypeOK, redisVars, cronVars,
        listenerVars, historyVars
<1>2. CASE UNCHANGED vars
  BY <1>2 DEF vars, redisVars, threadVars, cronVars, listenerVars, historyVars,
              TypeInv, TypeOK, RedisTypeOK
<1> QED
  BY <1>1, <1>2, TypeCall, TypeCommand, TypeOthers DEF Next

\* Every reachable state is well typed: RedisSessions' variables have the types
\* of its type invariant whatever the ids, threads, modes and bounds.
THEOREM TypeCorrect == Spec => []TypeOK
<1>1. TypeInv => TypeOK
  BY DEF TypeInv
<1> QED
  BY <1>1, TypeInit, TypeNext, PTL DEF Spec

=============================================================================
