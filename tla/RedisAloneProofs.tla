-------------------------- MODULE RedisAloneProofs --------------------------
(***************************************************************************)
(* Proofs about RedisSessions when each session is in one request at a     *)
(* time.                                                                   *)
(***************************************************************************)
EXTENDS RedisSessionsProofs, RedisAloneInv

-----------------------------------------------------------------------------
(* No session is alive under two ids. *)

\* HoldsKin of a thread that is at the given step with session s, called by by
KinHeld(step, s, by) ==
    /\ {s.id, s.originalId} \subseteq used
    /\ origin[s.originalId] = origin[s.id]
    /\ by # "setter"
    /\ step = "edit" /\ s.isNew => Kin(s.id) = {}
    /\ step \in SaveStep \ {"rename"} => Kin(s.id) \subseteq {s.id}
    /\ step = "edit" /\ s.id = s.originalId => Kin(s.id) \subseteq {s.id}
    /\ step \in DeleteStep =>
          s.id = s.originalId /\ ~s.isNew /\ Kin(s.id) \subseteq {s.id}

LEMMA LineageInit == Init => LineageInv
  BY DEF Init, RedisInit, LineageInv, NoTwins, OriginInv, Exists, NoHash

\* What a thread holds it holds whatever the step is called.
LEMMA KinHolds ==
    ASSUME LineageInv, NEW t \in Threads, pc[t] # "idle"
    PROVE  KinHeld(pc[t], session[t], caller[t])
  BY DEF LineageInv, HoldsKin, KinHeld

\* A step that moves no thread and writes no hash keeps the invariant, also if a
\* hash vanishes.
LEMMA LineageElsewhere ==
    ASSUME LineageInv, UNCHANGED <<pc, session, caller, used, origin>>,
           \A id \in Ids : Exists(id)' => Exists(id)
    PROVE  LineageInv'
<1>1. NoTwins' /\ OriginInv'
  BY DEF LineageInv, NoTwins, OriginInv
<1>2. \A id : Kin(id)' \subseteq Kin(id)
  BY DEF Kin
<1>3. ASSUME NEW t \in Threads, pc[t] # "idle"
      PROVE  HoldsKin(t)'
  <2>1. PICK id : id = session[t].id
    OBVIOUS
  <2>2. Kin(session[t].id)' \subseteq Kin(session[t].id)
    BY <1>2, <2>1
  <2> QED
    BY <1>3, <2>2 DEF LineageInv, HoldsKin
<1> QED
  BY <1>1, <1>3 DEF LineageInv

\* What the other threads hold they hold if a step of thread t makes no kin of theirs.
LEMMA LineageOthers ==
    ASSUME TypeInv, LineageInv, NEW t \in Threads, NEW step, NEW s, Goto(t, step, s),
           \A u \in Threads \ {t} : caller'[u] = caller[u],
           used \subseteq used', \A x \in used : origin'[x] = origin[x],
           \A u \in Threads \ {t}, x \in Ids :
              pc[u] # "idle" /\ Exists(x)' =>
                 \/ Exists(x) /\ origin'[x] = origin[x]
                 \/ origin'[x] # origin[session[u].id]
    PROVE  \A u \in Threads \ {t} :
              IF pc'[u] = "idle" THEN caller'[u] # "setter" ELSE HoldsKin(u)'
<1>1. ASSUME NEW u \in Threads \ {t}
      PROVE  pc'[u] = pc[u] /\ session'[u] = session[u] /\ caller'[u] = caller[u]
  BY <1>1 DEF TypeInv, TypeOK, Goto
<1>2. ASSUME NEW u \in Threads \ {t}, pc[u] # "idle"
      PROVE  HoldsKin(u)'
  <2>1. PICK n : n = session[u]
    OBVIOUS
  <2>2. KinHeld(pc[u], n, caller[u])
    BY <1>2, <2>1, KinHolds
  <2>3. {n.id, n.originalId} \subseteq used
    BY <2>2 DEF KinHeld
  <2>4. origin'[n.id] = origin[n.id] /\ origin'[n.originalId] = origin[n.originalId]
    BY <2>3
  <2>5. PICK id : id = n.id
    OBVIOUS
  <2>6. Kin(id)' \subseteq Kin(id)
    BY <1>2, <2>1, <2>4, <2>5 DEF Kin
  <2>7. session'[u] = n /\ session'[u].id = id
    BY <1>1, <2>1, <2>5
  <2>8. Kin(session[u].id)' \subseteq Kin(id)
    BY <2>6, <2>7 DEF Kin
  <2> QED
    BY <1>1, <2>2, <2>3, <2>4, <2>5, <2>7, <2>8 DEF HoldsKin, KinHeld
<1>3. \A u \in Threads \ {t} : pc[u] = "idle" => caller[u] # "setter"
  BY DEF LineageInv
<1> QED
  BY <1>1, <1>2, <1>3

\* A step of a thread that writes no hash keeps the invariant if the thread may hold
\* what it then holds.
LEMMA LineageMove ==
    ASSUME TypeInv, LineageInv, NEW t \in Threads, NEW step, NEW s, NEW by,
           Goto(t, step, s), caller' = [caller EXCEPT ![t] = by], by # "setter",
           UNCHANGED <<hash, used, origin>>,
           step # "idle" => KinHeld(step, s, by)
    PROVE  LineageInv'
<1>1. pc'[t] = step /\ session'[t] = s /\ caller'[t] = by
  BY DEF TypeInv, TypeOK, Goto
<1>2. NoTwins' /\ OriginInv'
  BY DEF LineageInv, NoTwins, OriginInv, Exists
<1>3. Kin(s.id)' = Kin(s.id)
  BY DEF Kin, Exists
<1>4. ASSUME step # "idle"
      PROVE  HoldsKin(t)'
  <2>1. Kin(session[t].id)' = Kin(s.id)
    BY <1>1, <1>3 DEF Kin, Exists
  <2> QED
    BY <1>1, <1>4, <2>1 DEF HoldsKin, KinHeld
<1>5. \A u \in Threads \ {t} : caller'[u] = caller[u]
  BY DEF TypeInv, TypeOK
<1>6. \A u \in Threads \ {t} :
         IF pc'[u] = "idle" THEN caller'[u] # "setter" ELSE HoldsKin(u)'
  BY <1>5, LineageOthers DEF Exists
<1> QED
  BY <1>1, <1>2, <1>4, <1>6 DEF LineageInv

\* The end of a request or of its thread
LEMMA LineageIdle ==
    ASSUME TypeInv, LineageInv, Renaming, NEW t \in Threads, EndRequest(t) \/ Crash(t)
    PROVE  LineageInv'
  BY LineageMove DEF EndRequest, Crash, GoIdle, Renaming, redisVars, historyVars

\* An existing hash has no kin but itself.
LEMMA LoneKin ==
    ASSUME LineageInv, NEW id \in Ids, Exists(id)
    PROVE  Kin(id) \subseteq {id} /\ id \in used
  BY DEF LineageInv, NoTwins, OriginInv, Kin

\* The calls that load a session or delete one
LEMMA LineageLoad ==
    ASSUME TypeInv, LineageInv, Renaming, NEW t \in Threads, NEW id \in Ids,
           (\E touch \in BOOLEAN : findById(t, id, touch)) \/ deleteById(t, id)
    PROVE  LineageInv'
<1>1. /\ Exists(id) /\ pc[t] = "idle" /\ caller' = caller
      /\ UNCHANGED <<hash, used, origin>>
      /\ \E step \in {"edit", "delIndex"}, s \in RedisSession :
            Goto(t, step, s) /\ s.id = id /\ s.originalId = id /\ ~s.isNew
  <2>1. CASE deleteById(t, id)
    <3>1. /\ loadSession(id) \in RedisSession /\ loadSession(id).id = id
          /\ loadSession(id).originalId = id /\ ~loadSession(id).isNew
      BY LoadType DEF TypeInv, loadSession
    <3> QED
      BY <2>1, <3>1 DEF deleteById, Begin, redisVars, historyVars
  <2>2. CASE \E touch \in BOOLEAN : findById(t, id, touch)
    <3>1. PICK l \in RedisSession : l = loadSession(id) /\ l.id = id
                                    /\ l.originalId = id /\ ~l.isNew
      BY LoadType DEF TypeInv, loadSession
    <3>2. PICK m : m = [l EXCEPT !.last = now]
      OBVIOUS
    <3>3. m \in RedisSession /\ m.id = id /\ m.originalId = id /\ ~m.isNew
      BY <3>1, <3>2 DEF RedisSession, TypeInv, TypeOK, RedisTypeOK
    <3>4. PICK n : n = [m EXCEPT !.delta = @ \cup {"last"}]
      OBVIOUS
    <3>5. n \in RedisSession /\ n.id = id /\ n.originalId = id /\ ~n.isNew
      BY <3>3, <3>4 DEF RedisSession, Field
    <3>6. \/ Goto(t, "edit", l) /\ caller' = caller
          \/ Goto(t, "edit", n) /\ caller' = caller
      BY <2>2, <3>1, <3>2, <3>4 DEF findById, putAndFlush, Renaming
    <3> QED
      BY <2>2, <3>1, <3>5, <3>6 DEF findById, Begin, Found, redisVars, historyVars
  <2> QED
    BY <2>1, <2>2
<1>2. PICK step \in {"edit", "delIndex"}, s \in RedisSession :
         Goto(t, step, s) /\ s.id = id /\ s.originalId = id /\ ~s.isNew
  BY <1>1
<1>3. Kin(id) \subseteq {id} /\ id \in used
  BY <1>1, LoneKin
<1>4. caller[t] # "setter" /\ caller' = [caller EXCEPT ![t] = caller[t]]
  BY <1>1 DEF LineageInv, TypeInv, TypeOK
<1>5. KinHeld(step, s, caller[t])
  BY <1>2, <1>3, <1>4 DEF KinHeld, SaveStep, DeleteStep
<1> QED
  BY <1>1, <1>2, <1>4, <1>5, LineageMove DEF Renaming
\* An id that is not in use has no kin, and none that it gets by the session it
\* names.
LEMMA LineageFresh ==
    ASSUME LineageInv, TypeInv, NEW id \in Ids, id \notin used, used' = used \cup {id},
           hash' = hash, NEW o \in Ids, o = id \/ o \in used,
           origin' = [origin EXCEPT ![id] = o]
    PROVE  /\ NoTwins' /\ OriginInv'
           /\ o = id => Kin(id)' = {}
           /\ o \in used => Kin(id)' = {x \in Ids : Exists(x) /\ origin[x] = o}
<1>1. \A x \in Ids : Exists(x) => x # id /\ origin'[x] = origin[x]
  BY DEF LineageInv, OriginInv, TypeInv, TypeOK
<1>2. \A x \in Ids : Exists(x)' = Exists(x)
  BY DEF Exists
<1>3. NoTwins'
  BY <1>1, <1>2 DEF LineageInv, NoTwins
<1>4. /\ \A x \in Ids : x # id => origin'[x] = origin[x]
      /\ origin'[id] = o
  BY DEF TypeInv, TypeOK
<1>5. OriginInv'
  BY <1>1, <1>2, <1>4 DEF LineageInv, OriginInv
<1>6. o = id => Kin(id)' = {}
  BY <1>1, <1>2, <1>4 DEF LineageInv, OriginInv, Kin
<1>7. o \in used => Kin(id)' = {x \in Ids : Exists(x) /\ origin[x] = o}
  BY <1>1, <1>2, <1>4 DEF Kin
<1> QED
  BY <1>3, <1>5, <1>6, <1>7

\* A new session
LEMMA LineageCreate ==
    ASSUME TypeInv, LineageInv, Renaming, NEW t \in Threads, NEW id \in Ids,
           createSession(t, id)
    PROVE  LineageInv'
<1>1. PICK s \in RedisSession : s = newSession(id) /\ s.id = id /\ s.originalId = id
                                /\ s.isNew
  BY NewType DEF TypeInv, newSession
<1>2. PICK n : n = [s EXCEPT !.delta = @ \cup {"last"}]
  OBVIOUS
<1>3. n.id = id /\ n.originalId = id
  BY <1>1, <1>2 DEF RedisSession
<1>4. /\ Goto(t, "edit", n) /\ caller' = caller /\ pc[t] = "idle"
      /\ id \notin used /\ used' = used \cup {id} /\ UNCHANGED <<hash, origin>>
  BY <1>1, <1>2
  DEF createSession, Begin, putAndFlush, Renaming, redisVars, historyVars
<1>5. origin[id] = id /\ origin' = [origin EXCEPT ![id] = id]
  BY <1>4 DEF LineageInv, OriginInv, TypeInv, TypeOK
<1>6. NoTwins' /\ OriginInv' /\ Kin(id)' = {}
  BY <1>4, <1>5, LineageFresh
<1>7. /\ pc'[t] = "edit" /\ session'[t] = n /\ caller'[t] # "setter"
  BY <1>4 DEF TypeInv, TypeOK, Goto, LineageInv
<1>8. Kin(session[t].id)' = {}
  BY <1>3, <1>6, <1>7 DEF Kin
<1>9. HoldsKin(t)'
  BY <1>3, <1>4, <1>7, <1>8 DEF HoldsKin, SaveStep, DeleteStep
<1>10. \A u \in Threads \ {t} :
          IF pc'[u] = "idle" THEN caller'[u] # "setter" ELSE HoldsKin(u)'
  BY <1>4, LineageOthers DEF Exists
<1> QED
  BY <1>6, <1>7, <1>9, <1>10 DEF LineageInv

\* A new id for a session that was saved is another one than it was loaded under.
LEMMA LineageRenamed ==
    ASSUME TypeInv, LineageInv, Renaming, NEW t \in Threads, NEW id \in Ids,
           changeSessionId(t, id)
    PROVE  LineageInv'
<1>1. PICK s \in RedisSession : s = session[t]
  BY DEF TypeInv, TypeOK
<1>2. PICK n : n = [s EXCEPT !.id = id]
  OBVIOUS
<1>3. n.id = id /\ n.originalId = s.originalId /\ n.isNew = s.isNew
  BY <1>1, <1>2 DEF RedisSession
<1>4. PICK o : o = origin[s.id]
  OBVIOUS
<1>5. /\ Goto(t, "edit", n) /\ caller' = caller /\ pc[t] = "edit" /\ hash' = hash
      /\ id \notin used /\ used' = used \cup {id}
      /\ origin' = [origin EXCEPT ![id] = o]
  BY <1>1, <1>2, <1>4 DEF changeSessionId, Editing, redisVars
<1>6. KinHeld("edit", s, caller[t])
  BY <1>1, <1>5, KinHolds
<1>7. s.id \in used /\ s.originalId \in used /\ o \in used /\ o \in Ids
      /\ s.id \in Ids /\ s.originalId \in Ids /\ origin[s.originalId] = o
  BY <1>4, <1>6 DEF KinHeld, LineageInv, OriginInv, TypeInv, TypeOK
<1>8. NoTwins' /\ OriginInv' /\ Kin(id)' = Kin(s.id)
  <2>1. NoTwins' /\ OriginInv'
        /\ Kin(id)' = {x \in Ids : Exists(x) /\ origin[x] = o}
    BY <1>5, <1>7, LineageFresh
  <2>2. Kin(s.id) = {x \in Ids : Exists(x) /\ origin[x] = o}
    BY <1>4 DEF Kin
  <2> QED
    BY <2>1, <2>2
<1>9. pc'[t] = "edit" /\ session'[t] = n /\ caller'[t] # "setter"
  BY <1>5 DEF TypeInv, TypeOK, Goto, LineageInv, HoldsKin
<1>10. Kin(session[t].id)' = Kin(s.id)
  BY <1>3, <1>8, <1>9 DEF Kin
<1>11. origin'[n.originalId] = origin'[n.id] /\ n.id # n.originalId
  BY <1>3, <1>5, <1>7 DEF TypeInv, TypeOK
<1>12. HoldsKin(t)'
  BY <1>3, <1>5, <1>6, <1>7, <1>9, <1>10, <1>11
  DEF HoldsKin, KinHeld, SaveStep, DeleteStep
<1>13. /\ \A x \in used : origin'[x] = origin[x]
       /\ \A x \in Ids : Exists(x)' => Exists(x) /\ origin'[x] = origin[x]
  BY <1>5 DEF LineageInv, OriginInv, TypeInv, TypeOK, Exists
<1>14. \A u \in Threads \ {t} :
          IF pc'[u] = "idle" THEN caller'[u] # "setter" ELSE HoldsKin(u)'
  BY <1>5, <1>13, LineageOthers
<1> QED
  BY <1>8, <1>9, <1>12, <1>14 DEF LineageInv

\* Setting a field, saving, and the commands that write no hash
LEMMA LineageHeld ==
    ASSUME TypeInv, LineageInv, Renaming, NEW t \in Threads,
           \/ \E p \in SetPrincipals : setPrincipal(t, p)
           \/ \E max \in SetIntervals : setMaxInactiveInterval(t, max)
           \/ save(t)
           \/ DeleteFromIndex(t) \/ DeleteShadow(t)
           \/ RemoveOldPrincipal(t) \/ AddNewPrincipal(t) \/ LeaveOldBucket(t)
           \/ EnterBucket(t) \/ WriteShadow(t) \/ ExtendShadow(t) \/ ExtendHash(t)
           \/ Return(t)
    PROVE  LineageInv'
<1> USE DEF redisVars, historyVars
<1>b. PICK by : by = caller[t]
  OBVIOUS
<1>c. PICK s \in RedisSession : s = session[t]
  BY DEF TypeInv, TypeOK
<1>0. s = session[t] /\ by = caller[t]
  BY <1>b, <1>c
<1>a. by # "setter" /\ caller = [caller EXCEPT ![t] = by]
  BY <1>0 DEF LineageInv, HoldsKin, TypeInv, TypeOK
<1>1. ASSUME NEW step, NEW n, NEW from, Goto(t, step, n),
             caller' = [caller EXCEPT ![t] = from], from # "setter",
             n.id = s.id, n.originalId = s.originalId, n.isNew => s.isNew,
             pc[t] # "idle", UNCHANGED <<hash, used, origin>>,
             step = "edit" /\ n.isNew => pc[t] = "edit",
             step = "edit" =>
                pc[t] = "edit" \/ pc[t] = "return" ,
             step \in SaveStep \ {"rename"} =>
                \/ pc[t] \in (SaveStep \ {"rename"}) \cup DeleteStep
                \/ pc[t] = "edit" /\ (n.isNew \/ n.id = n.originalId),
             step \in DeleteStep => pc[t] \in DeleteStep
      PROVE  LineageInv'
  <2>1. KinHeld(pc[t], s, by)
    BY <1>0, <1>1, KinHolds
  <2>2. KinHeld(step, n, from)
    BY <1>1, <2>1 DEF KinHeld, SaveStep, DeleteStep
  <2> QED
    BY <1>1, <2>2, LineageMove DEF Renaming
<1>2. ASSUME NEW n, NEW f, Editing(t), putAndFlush(t, n, f), n \in RedisSession,
             n.id = s.id, n.originalId = s.originalId, n.isNew = s.isNew, f \in Field,
             UNCHANGED <<used, origin>>
      PROVE  LineageInv'
  <2>1. PICK r : r = [n EXCEPT !.delta = @ \cup {f}]
    OBVIOUS
  <2>2. r.id = s.id /\ r.originalId = s.originalId /\ r.isNew = s.isNew
    BY <1>2, <2>1 DEF RedisSession
  <2>3. Goto(t, "edit", r) /\ caller' = [caller EXCEPT ![t] = by] /\ pc[t] = "edit"
    BY <1>a, <1>2, <2>1 DEF putAndFlush, Renaming, Editing
  <2>4. UNCHANGED <<hash, used, origin>>
    BY <1>2 DEF Editing
  <2> QED
    BY <1>1, <1>a, <2>2, <2>3, <2>4 DEF SaveStep, DeleteStep
<1>3. ASSUME NEW p \in SetPrincipals, setPrincipal(t, p)
      PROVE  LineageInv'
  <2>1. PICK n : n = [s EXCEPT !.principal = p]
    OBVIOUS
  <2>2. n \in RedisSession /\ n.id = s.id /\ n.originalId = s.originalId
        /\ n.isNew = s.isNew
    BY <2>1, RepositoryAssumption DEF RedisSession
  <2> QED
    BY <1>0, <1>2, <1>3, <2>1, <2>2 DEF setPrincipal, Field
<1>4. ASSUME NEW max \in SetIntervals, setMaxInactiveInterval(t, max)
      PROVE  LineageInv'
  <2>1. PICK n : n = [s EXCEPT !.max = max]
    OBVIOUS
  <2>2. n \in RedisSession /\ n.id = s.id /\ n.originalId = s.originalId
        /\ n.isNew = s.isNew
    BY <2>1, RepositoryAssumption DEF RedisSession
  <2> QED
    BY <1>0, <1>2, <1>4, <2>1, <2>2 DEF setMaxInactiveInterval, Field
<1>5. CASE save(t)
  <2>1. PICK step : /\ step = IF ~s.isNew /\ s.id # s.originalId THEN "rename"
                              ELSE afterRename(s)
                    /\ Goto(t, step, s) /\ caller' = [caller EXCEPT ![t] = "save"]
    BY <1>0, <1>5 DEF save, saveDelta
  <2>2. pc[t] = "edit" /\ UNCHANGED <<hash, used, origin>>
    BY <1>5 DEF save, Editing
  <2>3. step \in {"rename", "return", "hmset"}
        /\ (step # "rename" => s.isNew \/ s.id = s.originalId)
    BY <2>1 DEF afterRename
  <2> QED
    BY <1>1, <2>1, <2>2, <2>3 DEF SaveStep, DeleteStep
<1>6. CASE DeleteFromIndex(t)
  BY <1>0, <1>a, <1>1, <1>6 DEF DeleteFromIndex, DeleteStep, SaveStep
<1>7. CASE DeleteShadow(t)
  <2>1. PICK m : m = [s EXCEPT !.max = 0]
    OBVIOUS
  <2>2. m \in RedisSession /\ m.id = s.id /\ m.originalId = s.originalId
        /\ m.isNew = s.isNew
    BY <2>1, ConstantsAssumption DEF RedisSession
  <2>3. PICK n : n = [m EXCEPT !.delta = {"max"}]
    OBVIOUS
  <2>4. n.id = s.id /\ n.originalId = s.originalId /\ n.isNew = s.isNew
        /\ n.delta = {"max"}
    BY <2>2, <2>3 DEF RedisSession
  <2>5. saveDelta(t, n, "delete") /\ pc[t] = "delShadow"
        /\ UNCHANGED <<hash, used, origin>>
    BY <1>0, <1>7, <2>1, <2>3 DEF DeleteShadow
  <2>6. s.id = s.originalId
    BY <1>0, <2>5 DEF LineageInv, HoldsKin, DeleteStep
  <2>7. Goto(t, "hmset", n) /\ caller' = [caller EXCEPT ![t] = "delete"]
    BY <2>4, <2>5, <2>6 DEF saveDelta, afterRename
  <2> QED
    BY <1>1, <2>4, <2>5, <2>7 DEF SaveStep, DeleteStep
<1>8. CASE RemoveOldPrincipal(t)
  <2>1. PICK n : n = [s EXCEPT !.originalPrincipal = s.principal]
    OBVIOUS
  <2>2. n.id = s.id /\ n.originalId = s.originalId /\ n.isNew = s.isNew
    BY <2>1 DEF RedisSession
  <2>3. Goto(t, "index", n) /\ pc[t] = "unindex" /\ caller' = caller
        /\ UNCHANGED <<hash, used, origin>>
    BY <1>0, <1>8, <2>1 DEF RemoveOldPrincipal, Saving
  <2> QED
    BY <1>a, <1>1, <2>2, <2>3 DEF SaveStep, DeleteStep
<1>9. ASSUME \/ AddNewPrincipal(t) \/ LeaveOldBucket(t) \/ EnterBucket(t)
             \/ WriteShadow(t) \/ ExtendShadow(t) \/ ExtendHash(t)
      PROVE  LineageInv'
  <2>1. /\ caller' = caller /\ UNCHANGED <<hash, used, origin>>
        /\ pc[t] \in {"index", "unbucket", "bucket", "append", "shadowTtl", "hashTtl"}
        /\ \E step \in {"unbucket", "bucket", "append", "shadowTtl", "hashTtl",
                        "return"} : Goto(t, step, s)
    BY <1>0, <1>9 DEF AddNewPrincipal, LeaveOldBucket, EnterBucket, WriteShadow,
       ExtendShadow, ExtendHash, Saving
  <2> QED
    BY <1>a, <1>1, <2>1 DEF SaveStep, DeleteStep
<1>10. CASE Return(t)
  <2>1. CASE by = "delete"
    BY <1>0, <1>10, <2>1, LineageMove DEF Return, GoIdle, Renaming
  <2>2. CASE by # "delete"
    <3>1. PICK n : n = [s EXCEPT !.isNew = @ /\ by = "setter"]
      OBVIOUS
    <3>2. n.id = s.id /\ n.originalId = s.originalId /\ ~n.isNew
      BY <1>a, <3>1 DEF RedisSession
    <3>3. /\ Goto(t, "edit", n) /\ pc[t] = "return" /\ UNCHANGED <<hash, used, origin>>
          /\ caller' = [caller EXCEPT ![t] = "save"]
      BY <1>0, <1>10, <2>2, <3>1 DEF Return
    <3> QED
      BY <1>1, <3>2, <3>3 DEF SaveStep, DeleteStep
  <2> QED
    BY <2>1, <2>2
<1> QED
  BY <1>3, <1>4, <1>5, <1>6, <1>7, <1>8, <1>9, <1>10
\* RENAME moves the only hash of the session.
LEMMA LineageRename ==
    ASSUME TypeInv, LineageInv, Renaming, Alone, NEW t \in Threads, Rename(t)
    PROVE  LineageInv'
<1> USE DEF historyVars
<1>0. PICK s \in RedisSession : s = session[t]
  BY DEF TypeInv, TypeOK
<1>1. /\ pc[t] = "rename" /\ caller' = caller /\ UNCHANGED <<used, origin>>
      /\ s.id \in Ids /\ s.originalId \in Ids
  BY <1>0 DEF Rename, Saving, TypeInv
<1>2. KinHeld("rename", s, caller[t]) /\ caller' = [caller EXCEPT ![t] = caller[t]]
  BY <1>0, <1>1, KinHolds DEF TypeInv, TypeOK
<1>3. caller[t] # "setter" /\ {s.id, s.originalId} \subseteq used
      /\ origin[s.originalId] = origin[s.id]
  BY <1>2 DEF KinHeld
<1>4. CASE ~Exists(s.originalId)
  <2>1. Goto(t, "failed", s) /\ UNCHANGED hash
    BY <1>0, <1>4 DEF Rename
  <2>2. KinHeld("failed", s, caller[t])
    BY <1>3 DEF KinHeld, SaveStep, DeleteStep
  <2> QED
    BY <1>1, <1>2, <1>3, <2>1, <2>2, LineageMove DEF Renaming
<1>5. CASE Exists(s.originalId)
  <2>1. PICK n : n = [s EXCEPT !.originalId = s.id]
    OBVIOUS
  <2>2. n.id = s.id /\ n.originalId = s.id /\ n.isNew = s.isNew /\ n.delta = s.delta
    BY <2>1 DEF RedisSession
  <2>3. PICK step \in {"return", "hmset"} : Goto(t, step, n)
    BY <1>0, <1>5, <2>1 DEF Rename, afterRename
  <2>4. PICK old, new : old = s.originalId /\ new = s.id
    OBVIOUS
  <2>5. hash' = [hash EXCEPT ![old] = NoHash, ![new] = hash[old]]
    BY <1>0, <1>5, <2>4 DEF Rename, RenameHash
  <2>6. \A x \in Ids : Exists(x)' => x = new \/ (x # old /\ Exists(x))
    <3>1. PICK h : h = [hash EXCEPT ![old] = NoHash]
      OBVIOUS
    <3>2. h \in [Ids -> HashValue \cup {NoHash}] /\ hash \in [Ids -> HashValue]
      BY <3>1 DEF TypeInv, TypeOK, RedisTypeOK
    <3>3. hash' = [h EXCEPT ![new] = hash[old]]
      BY <2>5, <3>1
    <3>4. \A x \in Ids : x # new => hash'[x] = IF x = old THEN NoHash ELSE hash[x]
      BY <3>1, <3>2, <3>3
    <3>5. NoHash.fields = {}
      BY DEF NoHash
    <3>6. \A x \in Ids : x # new =>
             /\ x # old => hash'[x].fields = hash[x].fields
             /\ x = old => hash'[x].fields = {}
      BY <3>4, <3>5
    <3> QED
      BY <3>6 DEF Exists
  <2>7. \A x \in Ids : Exists(x) /\ origin[x] = origin[new] => x = old
    BY <1>1, <1>3, <1>5, <2>4 DEF LineageInv, NoTwins
  <2>8. \A x \in Ids : Exists(x)' /\ origin[x] = origin[new] => x = new
    BY <2>6, <2>7
  <2>9. NoTwins'
    BY <1>1, <2>6, <2>8 DEF LineageInv, NoTwins
  <2>10. OriginInv'
    BY <1>1, <1>3, <2>4, <2>6 DEF LineageInv, OriginInv
  <2>11. pc'[t] = step /\ session'[t] = n /\ caller'[t] # "setter"
    BY <1>1, <1>3, <2>3 DEF TypeInv, TypeOK, Goto
  <2>12. session'[t].id = new
    BY <2>2, <2>4, <2>11
  <2>13. Kin(session[t].id)' \subseteq {new}
    BY <1>1, <2>8, <2>12 DEF Kin
  <2>14. HoldsKin(t)'
    BY <1>1, <1>3, <2>2, <2>4, <2>11, <2>12, <2>13 DEF HoldsKin, DeleteStep
  <2>15. \A u \in Threads \ {t} : pc[u] # "idle" => origin[session[u].id] # origin[new]
    BY <1>0, <1>1, <2>4 DEF Alone
  <2>16. \A u \in Threads \ {t} :
            IF pc'[u] = "idle" THEN caller'[u] # "setter" ELSE HoldsKin(u)'
    BY <1>1, <2>3, <2>6, <2>15, LineageOthers
  <2> QED
    BY <2>3, <2>9, <2>10, <2>11, <2>14, <2>16 DEF LineageInv
<1> QED
  BY <1>4, <1>5

\* HMSET writes the hash under the only id that may have one.
LEMMA LineageHmset ==
    ASSUME TypeInv, LineageInv, Renaming, Alone, NEW t \in Threads, PutAll(t)
    PROVE  LineageInv'
<1> USE DEF historyVars
<1>0. PICK s \in RedisSession : s = session[t]
  BY DEF TypeInv, TypeOK
<1>1. /\ pc[t] = "hmset" /\ caller' = caller /\ UNCHANGED <<used, origin>>
      /\ s.id \in Ids
  BY <1>0 DEF PutAll, Saving, TypeInv
<1>2. KinHeld("hmset", s, caller[t])
  BY <1>0, <1>1, KinHolds
<1>3. /\ caller[t] # "setter" /\ {s.id, s.originalId} \subseteq used
      /\ origin[s.originalId] = origin[s.id] /\ Kin(s.id) \subseteq {s.id}
  BY <1>2 DEF KinHeld, SaveStep
<1>4. PICK n : n = [s EXCEPT !.delta = {}]
  OBVIOUS
<1>5. n.id = s.id /\ n.originalId = s.originalId
  BY <1>4 DEF RedisSession
<1>6. PICK step \in {"unindex", "unbucket"} : Goto(t, step, n)
  BY <1>0, <1>4 DEF PutAll
<1>7. PICK new : new = s.id
  OBVIOUS
<1>8. \A x \in Ids : Exists(x)' => x = new \/ Exists(x)
  BY <1>0, <1>7 DEF PutAll, Hmset, Exists, TypeInv, TypeOK, RedisTypeOK
<1>9. \A x \in Ids : Exists(x)' /\ origin[x] = origin[new] => x = new
  BY <1>3, <1>7, <1>8 DEF Kin
<1>10. NoTwins'
  BY <1>1, <1>8, <1>9 DEF LineageInv, NoTwins
<1>11. OriginInv'
  BY <1>1, <1>3, <1>7, <1>8 DEF LineageInv, OriginInv
<1>12. pc'[t] = step /\ session'[t] = n /\ caller'[t] # "setter"
  BY <1>1, <1>3, <1>6 DEF TypeInv, TypeOK, Goto
<1>13. session'[t].id = new
  BY <1>5, <1>7, <1>12
<1>14. Kin(session[t].id)' \subseteq {new}
  BY <1>1, <1>9, <1>13 DEF Kin
<1>15. HoldsKin(t)'
  BY <1>1, <1>3, <1>5, <1>6, <1>7, <1>12, <1>13, <1>14 DEF HoldsKin, DeleteStep
<1>16. \A u \in Threads \ {t} : pc[u] # "idle" => origin[session[u].id] # origin[new]
  BY <1>0, <1>1, <1>7 DEF Alone
<1>17. \A u \in Threads \ {t} :
          IF pc'[u] = "idle" THEN caller'[u] # "setter" ELSE HoldsKin(u)'
  BY <1>1, <1>6, <1>8, <1>16, LineageOthers
<1> QED
  BY <1>6, <1>10, <1>11, <1>12, <1>15, <1>17 DEF LineageInv

\* Every step keeps the invariant.
LEMMA LineageNext ==
    ASSUME Renaming, TypeInv, LineageInv, Alone, [Next]_vars
    PROVE  LineageInv'
<1> USE DEF redisVars, threadVars, historyVars
<1>1. ASSUME NEW t \in Threads, Call(t)
      PROVE  LineageInv'
  <2>1. \A id \in Ids, touch \in Touching : findById(t, id, touch) => LineageInv'
    BY LineageLoad, RepositoryAssumption
  <2>2. \A id \in Ids : createSession(t, id) \/ deleteById(t, id)
                        \/ changeSessionId(t, id) => LineageInv'
    BY LineageLoad, LineageCreate, LineageRenamed
  <2> QED
    BY <1>1, <2>1, <2>2, LineageHeld DEF Call
<1>2. ASSUME NEW t \in Threads, Command(t) \/ EndRequest(t) \/ Crash(t)
      PROVE  LineageInv'
  BY <1>2, LineageHeld, LineageRename, LineageHmset, LineageIdle DEF Command
<1>3. ASSUME UNCHANGED <<hash, pc, session, caller, used, origin>>
      PROVE  LineageInv'
  BY <1>3, LineageElsewhere DEF Exists
<1>4. CASE Clean
  BY <1>3, <1>4 DEF Clean, CleanRead, CleanDelete, CleanTouch
<1>5. CASE Listen
  BY <1>3, <1>5 DEF Listen, Receive, CleanIndexAndPublish, Lose
<1>6. CASE Expire
  <2>1. UNCHANGED <<pc, session, caller, used, origin>>
    BY <1>6 DEF Expire
  <2>2. \A id \in Ids : Exists(id)' => Exists(id)
    BY <1>6 DEF Expire, ExpireHash, ExpireShadow, ExpireBucket, Exists, NoHash,
                TypeInv, TypeOK, RedisTypeOK
  <2> QED
    BY <2>1, <2>2, LineageElsewhere
<1>7. CASE Tick
  BY <1>3, <1>7 DEF Tick
<1>8. CASE UNCHANGED vars
  BY <1>3, <1>8 DEF vars
<1> QED
  BY <1>1, <1>2, <1>4, <1>5, <1>6, <1>7, <1>8 DEF Next

\* No session is alive under two ids: at every moment at most one hash is that of
\* the session created as a given one, although any of the commands of a save may
\* be the last of its thread and ids change again and again.
THEOREM NoSessionHasTwoIds == Renaming => (Spec /\ []Alone => []OneLiveCopy)
<1>1. LineageInv => OneLiveCopy
  BY DEF LineageInv, NoTwins, OneLiveCopy, Found
<1>2. ASSUME Renaming
      PROVE  TypeInv /\ LineageInv /\ Alone /\ [Next]_vars => (TypeInv /\ LineageInv)'
  BY <1>2, LineageNext, TypeNext
<1>3. ASSUME Renaming
      PROVE  Spec /\ []Alone => []OneLiveCopy
  BY <1>1, <1>2, <1>3, TypeInit, LineageInit, PTL DEF Spec
<1> QED
  BY <1>3

-----------------------------------------------------------------------------
(* What findById returns is kept for as long as its interval says. *)

LEMMA InstantInit == Init => InstantInv
  BY ConstantsAssumption
  DEF Init, RedisInit, InstantInv, KeyInv, Exists, NoHash

\* What the clock, hashes, shadow keys and their deadlines say of an id they say
\* until one of them changes.
Untouched(id) ==
    /\ hash'[id] = hash[id] /\ hashTtl'[id] = hashTtl[id]
    /\ id \in shadow' <=> id \in shadow
    /\ shadowTtl'[id] = shadowTtl[id]

Keyed(id) ==
    /\ Exists(id) \/ id \in shadow => id \in used
    /\ ~Exists(id) => hash[id] = NoHash /\ hashTtl[id] = NoTtl
    /\ id \notin shadow => shadowTtl[id] = NoTtl
    /\ hash[id].last <= now

LEMMA UntouchedKept ==
    ASSUME NEW id \in Ids, now' = now, Untouched(id), used \subseteq used'
    PROVE  /\ Exists(id)' = Exists(id)
           /\ KeptHash(id) => KeptHash(id)'
           /\ Keyed(id) => Keyed(id)'
  BY DEF Untouched, KeptHash, Keyed, Exists

\* What a thread may hold it may hold until a key of its session changes.
LEMMA MayHoldStays ==
    ASSUME NEW step, NEW s, NEW by, MayHold(step, s, by), now' = now, NEW id,
           s.id = id, Untouched(id)
    PROVE  MayHold(step, s, by)'
  BY DEF MayHold, Agrees, Exists, HashReady, ShadowReady, Due, Untouched

\* A thread other than t is about to keep the hash of id.
OpenElsewhere(t, id) ==
    \E u \in Threads \ {t} : session[u].id = id /\ OpenStep(pc[u], caller[u])

\* A step of a thread keeps the invariant if the thread may hold what it then holds,
\* the sessions of other threads are untouched and every hash is kept but one that a
\* thread is about to keep.
LEMMA InstantMove ==
    ASSUME TypeInv, InstantInv, NEW t \in Threads, NEW step, NEW s, NEW by,
           Goto(t, step, s), caller' = [caller EXCEPT ![t] = by],
           now' = now, used \subseteq used',
           \A u \in Threads \ {t} : start'[u] = start[u],
           \A u \in Threads \ {t} : pc[u] # "idle" => Untouched(session[u].id),
           step # "idle" =>
              start'[t] = now' /\ s.id \in used' /\ MayHold(step, s, by)',
           step \in {"idle", "edit"} \cup DeleteStep => by = "save",
           \A id \in Ids : Keyed(id)',
           \A id \in Ids : Exists(id)' => \/ s.id = id /\ OpenStep(step, by)
                                          \/ OpenElsewhere(t, id)
                                          \/ KeptHash(id)'
    PROVE  InstantInv'
<1>1. pc'[t] = step /\ session'[t] = s /\ caller'[t] = by
  BY DEF TypeInv, TypeOK, Goto
<1>2. \A u \in Threads \ {t} :
         pc'[u] = pc[u] /\ session'[u] = session[u] /\ caller'[u] = caller[u]
  BY DEF TypeInv, TypeOK, Goto
<1>3. KeyInv'
  BY DEF KeyInv, Keyed
<1>4. \A id \in Ids : Exists(id)' => Open(id)' \/ KeptHash(id)'
  BY <1>1, <1>2 DEF Open, OpenElsewhere
<1>5. step # "idle" => MayHold(pc[t], session[t], caller[t])'
  BY <1>1 DEF MayHold, Agrees, Exists, HashReady, ShadowReady, Due
<1>6. ASSUME NEW u \in Threads \ {t}, pc[u] # "idle"
      PROVE  /\ start'[u] = now' /\ session'[u].id \in used'
             /\ MayHold(pc[u], session[u], caller[u])'
  <2>1. PICK n : n = session[u]
    OBVIOUS
  <2>2. PICK at, from : at = pc[u] /\ from = caller[u]
    OBVIOUS
  <2>3. start[u] = now /\ n.id \in used /\ MayHold(at, n, from)
    BY <1>6, <2>1, <2>2 DEF InstantInv
  <2>4. MayHold(at, n, from)'
    BY <1>6, <2>1, <2>3, MayHoldStays
  <2>5. pc'[u] = at /\ session'[u] = n /\ caller'[u] = from
    BY <1>2, <2>1, <2>2
  <2>6. MayHold(pc[u], session[u], caller[u])'
    BY <2>4, <2>5 DEF MayHold, Agrees, Exists, HashReady, ShadowReady, Due
  <2> QED
    BY <1>6, <2>3, <2>5, <2>6
<1>7. \A u \in Threads \ {t} : pc[u] \in {"idle", "edit"} \cup DeleteStep => caller[u] = "save"
  BY DEF InstantInv
<1> QED
  BY <1>1, <1>2, <1>3, <1>4, <1>5, <1>6, <1>7 DEF InstantInv

\* A step that changes no deadline
LEMMA InstantStill ==
    ASSUME TypeInv, InstantInv, NEW t \in Threads, NEW step, NEW s, NEW by,
           Goto(t, step, s), caller' = [caller EXCEPT ![t] = by],
           UNCHANGED <<now, hash, hashTtl, shadow, shadowTtl>>, used \subseteq used',
           \A u \in Threads \ {t} : start'[u] = start[u],
           step # "idle" => start'[t] = now /\ s.id \in used' /\ MayHold(step, s, by),
           step \in {"idle", "edit"} \cup DeleteStep => by = "save",
           OpenStep(pc[t], caller[t]) => s.id = session[t].id /\ OpenStep(step, by)
    PROVE  InstantInv'
<1>1. \A id : Untouched(id)
  BY DEF Untouched
<1>2. \A id \in Ids : Keyed(id)
  BY DEF InstantInv, KeyInv, Keyed
<1>3. \A id \in Ids : Keyed(id)'
  BY <1>1, <1>2, UntouchedKept
<1>4. \A id \in Ids : Exists(id)' => \/ s.id = id /\ OpenStep(step, by)
                                     \/ OpenElsewhere(t, id)
                                     \/ KeptHash(id)'
  <2>1. \A id \in Ids : Open(id) => \/ s.id = id /\ OpenStep(step, by)
                                    \/ OpenElsewhere(t, id)
    BY DEF Open, OpenElsewhere
  <2>2. \A id \in Ids : Exists(id) => Open(id) \/ KeptHash(id)
    BY DEF InstantInv
  <2> QED
    BY <1>1, <2>1, <2>2, UntouchedKept
<1>5. step # "idle" => MayHold(step, s, by)'
  BY DEF MayHold, Agrees, Exists, HashReady, ShadowReady, Due
<1> QED
  BY <1>1, <1>3, <1>4, <1>5, InstantMove

\* What other threads hold is not the session of thread t.
LEMMA NotTheirs ==
    ASSUME Alone, NEW t \in Threads, pc[t] # "idle", NEW id, session[t].id = id
    PROVE  \A u \in Threads \ {t} : pc[u] # "idle" => session[u].id # id
  BY DEF Alone

\* A step that changes what the keys of the thread's session say
LEMMA InstantKeyed ==
    ASSUME TypeInv, InstantInv, Alone, NEW t \in Threads, NEW step, NEW s, NEW by,
           Goto(t, step, s), caller' = [caller EXCEPT ![t] = by],
           UNCHANGED <<now, start, used>>, NEW id \in Ids, s.id = id,
           pc[t] # "idle", session[t].id = id, MayHold(step, s, by)',
           \A x \in Ids \ {id} : Untouched(x), Keyed(id)',
           step \notin {"idle", "edit"} \cup DeleteStep,
           OpenStep(step, by) \/ KeptHash(id)'
    PROVE  InstantInv'
<1>1. \A x \in Ids : Keyed(x)
  BY DEF InstantInv, KeyInv, Keyed
<1>2. \A x \in Ids : Keyed(x)'
  BY <1>1, UntouchedKept
<1>3. \A x \in Ids : Open(x) => x = id \/ OpenElsewhere(t, x)
  BY DEF Open, OpenElsewhere
<1>4. \A x \in Ids : Exists(x)' => \/ s.id = x /\ OpenStep(step, by)
                                   \/ OpenElsewhere(t, x)
                                   \/ KeptHash(x)'
  <2>1. ASSUME NEW x \in Ids, x # id, Exists(x)'
        PROVE  OpenElsewhere(t, x) \/ KeptHash(x)'
    <3>1. Exists(x) /\ (OpenElsewhere(t, x) \/ KeptHash(x))
      BY <1>3, <2>1, UntouchedKept DEF InstantInv
    <3> QED
      BY <2>1, <3>1, UntouchedKept
  <2> QED
    BY <2>1
<1>5. start'[t] = now' /\ s.id \in used'
  BY DEF InstantInv
<1>6. ASSUME NEW u \in Threads \ {t}, pc[u] # "idle"
      PROVE  Untouched(session[u].id)
  BY <1>6, BusyType, NotTheirs
<1> QED
  BY <1>2, <1>4, <1>5, <1>6, InstantMove

\* What a thread holds it may hold.
LEMMA InstantHeld ==
    ASSUME TypeInv, InstantInv, NEW t \in Threads, pc[t] # "idle", NEW s,
           s = session[t]
    PROVE  /\ s \in RedisSession /\ s.id \in Ids /\ s.id \in used /\ start[t] = now
           /\ MayHold(pc[t], s, caller[t])
           /\ pc[t] \in {"edit"} \cup DeleteStep => caller[t] = "save"
           /\ Keyed(s.id)
  BY DEF InstantInv, KeyInv, Keyed, TypeInv, TypeOK

\* The hash of a session that no other request has is kept.
LEMMA ShutKept ==
    ASSUME InstantInv, NEW t \in Threads, pc[t] = "idle", NEW id \in Ids, Exists(id),
           \A u \in Threads \ {t} : pc[u] # "idle" => session[u].id # id
    PROVE  KeptHash(id)
  BY DEF InstantInv, Open, OpenStep

\* No other request has the session that a thread loads.
LEMMA LoadAlone ==
    ASSUME TypeInv, Alone', NEW t \in Threads, NEW id \in Ids,
           deleteById(t, id) \/ \E touch \in BOOLEAN : findById(t, id, touch)
    PROVE  \A u \in Threads \ {t} : pc[u] # "idle" => session[u].id # id
<1>1. PICK l \in RedisSession : l = loadSession(id) /\ l.id = id
  BY LoadType DEF TypeInv
<1>2. \E step, s : step # "idle" /\ s.id = id /\ Goto(t, step, s)
  <2>1. CASE deleteById(t, id)
    BY <1>1, <2>1 DEF deleteById
  <2>2. ASSUME NEW touch \in BOOLEAN, findById(t, id, touch)
        PROVE  \E step, s : step # "idle" /\ s.id = id /\ Goto(t, step, s)
    <3>1. PICK m : m = [l EXCEPT !.last = now]
      OBVIOUS
    <3>2. m \in RedisSession /\ m.id = id
      BY <1>1, <3>1 DEF RedisSession, TypeInv, TypeOK, RedisTypeOK
    <3>3. PICK n : n = [m EXCEPT !.delta = @ \cup {"last"}]
      OBVIOUS
    <3>4. n.id = id
      BY <3>2, <3>3 DEF RedisSession
    <3>5. Goto(t, "edit", l) \/ putAndFlush(t, m, "last")
      BY <1>1, <2>2, <3>1 DEF findById
    <3>6. putAndFlush(t, m, "last") => \E step : step # "idle" /\ Goto(t, step, n)
      BY <3>3 DEF putAndFlush, saveDelta, afterRename
    <3> QED
      BY <1>1, <3>4, <3>5, <3>6
  <2> QED
    BY <2>1, <2>2
<1>3. PICK step, s : step # "idle" /\ s.id = id /\ Goto(t, step, s)
  BY <1>2
<1>4. pc'[t] # "idle" /\ session'[t].id = id
  BY <1>3 DEF TypeInv, TypeOK, Goto
<1>5. \A u \in Threads \ {t} : pc'[u] = pc[u] /\ session'[u] = session[u]
  BY <1>3 DEF TypeInv, TypeOK, Goto
<1> QED
  BY <1>4, <1>5 DEF Alone

\* The calls that load a session
LEMMA InstantFind ==
    ASSUME TypeInv, InstantInv, Alone', NEW t \in Threads, NEW id \in Ids,
           NEW touch \in BOOLEAN, findById(t, id, touch)
    PROVE  InstantInv'
<1> USE DEF redisVars
<1>1. /\ pc[t] = "idle" /\ caller[t] = "save" /\ Found(id)
      /\ UNCHANGED <<now, hash, hashTtl, shadow, shadowTtl, used>>
      /\ start' = [start EXCEPT ![t] = now]
  BY DEF findById, Begin, InstantInv
<1>2. Exists(id) /\ HashReady(id) /\ Keyed(id) /\ KeptHash(id) /\ id \in used
  <2>1. Exists(id) /\ HashReady(id) /\ Keyed(id)
    BY <1>1 DEF Found, InstantInv, KeyInv, Keyed
  <2> QED
    BY <1>1, <2>1, LoadAlone, ShutKept DEF Keyed
<1>3. PICK l \in RedisSession : l = loadSession(id) /\ l.id = id /\ l.originalId = id
                                /\ l.delta = {} /\ l.last = hash[id].last
                                /\ l.max = hash[id].max
  <2>1. "last" \in hash[id].fields
    BY <1>2 DEF KeptHash, Whole
  <2> QED
    BY <2>1, LoadType DEF TypeInv, loadSession
<1>4. Agrees(l) /\ l.last <= now
  BY <1>2, <1>3 DEF Agrees, KeptHash, Keyed
<1>5. ShadowReady(id)
  <2>1. ~(l.max >= 0 /\ now - l.max >= l.last)
    BY <1>1, <1>3 DEF Found, isExpired
  <2>2. now \in Nat /\ l.max \in Int /\ l.last \in Nat
        /\ shadowTtl[id] \in Nat \cup {NoTtl}
    BY ConstantsAssumption DEF TypeInv, TypeOK, RedisTypeOK, RedisSession
  <2>3. l.max >= 0 => now < l.last + l.max
    BY <2>1, <2>2
  <2>4. l.max >= 0 /\ id \in shadow => shadowTtl[id] >= l.last + l.max
    BY <1>2, <1>3 DEF KeptHash
  <2>5. l.max < 0 \/ id \notin shadow => shadowTtl[id] = NoTtl
    BY <1>2, <1>3 DEF KeptHash, Keyed
  <2> QED
    BY <2>2, <2>3, <2>4, <2>5 DEF ShadowReady, Due
<1>6. /\ ~OpenStep(pc[t], caller[t]) /\ start'[t] = now
      /\ caller = [caller EXCEPT ![t] = "save"]
      /\ \A u \in Threads \ {t} : start'[u] = start[u]
  BY <1>1 DEF OpenStep, TypeInv, TypeOK
<1>7. CASE ~touch
  <2>1. Goto(t, "edit", l) /\ caller' = [caller EXCEPT ![t] = "save"]
    BY <1>3, <1>6, <1>7 DEF findById
  <2>2. MayHold("edit", l, "save")
    BY <1>2, <1>3, <1>4, <1>5 DEF MayHold, SaveStep, DeleteStep
  <2> QED
    BY <1>1, <1>2, <1>3, <1>6, <2>1, <2>2, InstantStill
<1>8. CASE touch
  <2>1. PICK m : m = [l EXCEPT !.last = now]
    OBVIOUS
  <2>2. /\ m \in RedisSession /\ m.id = id /\ m.originalId = id /\ m.last = now
        /\ m.max = l.max /\ m.delta = {} /\ m.isNew = l.isNew
    BY <1>3, <2>1 DEF RedisSession, TypeInv, TypeOK, RedisTypeOK
  <2>3. PICK n : n = [m EXCEPT !.delta = @ \cup {"last"}]
    OBVIOUS
  <2>4. /\ n.id = id /\ n.originalId = id /\ n.last = now
        /\ n.max = l.max /\ n.delta = {"last"}
    BY <2>2, <2>3 DEF RedisSession
  <2>5. PICK step \in {"edit", "hmset"}, by \in {"save", "setter"} :
           /\ Goto(t, step, n) /\ caller' = [caller EXCEPT ![t] = by]
           /\ step = "edit" => by = "save"
    <3>1. putAndFlush(t, m, "last")
      BY <1>3, <1>8, <2>1 DEF findById
    <3>2. CASE FlushMode = "IMMEDIATE"
      BY <2>3, <2>4, <3>1, <3>2 DEF putAndFlush, saveDelta, afterRename
    <3>3. CASE FlushMode # "IMMEDIATE"
      BY <1>6, <2>3, <3>1, <3>3 DEF putAndFlush
    <3> QED
      BY <3>2, <3>3
  <2>6. Agrees(n) /\ n.last <= now
    BY <1>3, <1>4, <2>4 DEF Agrees, TypeInv, TypeOK, RedisTypeOK
  <2>7. MayHold(step, n, by)
    BY <1>2, <1>5, <2>4, <2>6 DEF MayHold, SaveStep, DeleteStep
  <2> QED
    BY <1>1, <1>2, <1>6, <2>4, <2>5, <2>7, InstantStill DEF DeleteStep
<1> QED
  BY <1>7, <1>8
\* A new session
LEMMA InstantCreate ==
    ASSUME TypeInv, InstantInv, NEW t \in Threads, NEW id \in Ids,
           createSession(t, id)
    PROVE  InstantInv'
<1> USE DEF redisVars
<1>1. /\ pc[t] = "idle" /\ caller[t] = "save" /\ used' = used \cup {id}
      /\ UNCHANGED <<now, hash, hashTtl, shadow, shadowTtl>>
      /\ start' = [start EXCEPT ![t] = now] /\ id \notin used
  BY DEF createSession, Begin, InstantInv
<1>2. /\ ~OpenStep(pc[t], caller[t]) /\ start'[t] = now
      /\ caller = [caller EXCEPT ![t] = "save"]
      /\ \A u \in Threads \ {t} : start'[u] = start[u]
  BY <1>1 DEF OpenStep, TypeInv, TypeOK
<1>3. ~Exists(id) /\ id \notin shadow /\ ShadowReady(id)
  BY <1>1 DEF InstantInv, KeyInv, ShadowReady, Due
<1>4. PICK l \in RedisSession : l = newSession(id)
  BY NewType DEF TypeInv
<1>5. /\ l.id = id /\ l.originalId = id /\ l.last = now /\ l.delta = Whole
      /\ l.isNew
  BY <1>4 DEF newSession, Whole
<1>6. PICK n : n = [l EXCEPT !.delta = @ \cup {"last"}]
  OBVIOUS
<1>7. /\ n.id = id /\ n.originalId = id /\ n.last = now /\ n.delta = Whole
  BY <1>5, <1>6 DEF RedisSession, Whole
<1>8. PICK step \in {"edit", "hmset"}, by \in {"save", "setter"} :
         /\ Goto(t, step, n) /\ caller' = [caller EXCEPT ![t] = by]
         /\ step = "edit" => by = "save"
  <2>1. putAndFlush(t, l, "last")
    BY <1>4 DEF createSession
  <2>2. CASE FlushMode = "IMMEDIATE"
    BY <1>6, <1>7, <2>1, <2>2 DEF putAndFlush, saveDelta, afterRename, Whole
  <2>3. CASE FlushMode # "IMMEDIATE"
    BY <1>2, <1>6, <2>1, <2>3 DEF putAndFlush
  <2> QED
    BY <2>2, <2>3
<1>9. MayHold(step, n, by)
  BY <1>3, <1>7, <1>8 DEF MayHold, SaveStep, DeleteStep, Whole, TypeInv, TypeOK,
     RedisTypeOK
<1> QED
  BY <1>1, <1>2, <1>7, <1>8, <1>9, InstantStill DEF DeleteStep

\* deleteById reads the hash.
LEMMA InstantDelete ==
    ASSUME TypeInv, InstantInv, Alone', NEW t \in Threads, NEW id \in Ids,
           deleteById(t, id)
    PROVE  InstantInv'
<1> USE DEF redisVars
<1>1. /\ pc[t] = "idle" /\ caller[t] = "save" /\ Exists(id) /\ HashReady(id)
      /\ UNCHANGED <<now, hash, hashTtl, shadow, shadowTtl, used>>
      /\ start' = [start EXCEPT ![t] = now] /\ caller' = caller
  BY DEF deleteById, Begin, InstantInv
<1>2. /\ ~OpenStep(pc[t], caller[t]) /\ start'[t] = now
      /\ caller' = [caller EXCEPT ![t] = "save"]
      /\ \A u \in Threads \ {t} : start'[u] = start[u]
  BY <1>1 DEF OpenStep, TypeInv, TypeOK
<1>3. Keyed(id) /\ KeptHash(id) /\ id \in used
  BY <1>1, LoadAlone, ShutKept DEF InstantInv, KeyInv, Keyed
<1>4. PICK l \in RedisSession : l = loadSession(id) /\ l.id = id /\ l.originalId = id
                                /\ l.delta = {} /\ l.last = hash[id].last
                                /\ l.max = hash[id].max
  <2>1. "last" \in hash[id].fields
    BY <1>3 DEF KeptHash, Whole
  <2> QED
    BY <2>1, LoadType DEF TypeInv, loadSession
<1>5. Agrees(l) /\ l.last <= now
  BY <1>3, <1>4 DEF Agrees, KeptHash, Keyed
<1>6. Goto(t, "delIndex", l)
  BY <1>4 DEF deleteById
<1>7. MayHold("delIndex", l, "save")
  BY <1>1, <1>4, <1>5 DEF MayHold, SaveStep, DeleteStep
<1> QED
  BY <1>1, <1>2, <1>3, <1>4, <1>6, <1>7, InstantStill

\* Setting a field, which flushes at once in IMMEDIATE mode
LEMMA InstantPut ==
    ASSUME TypeInv, InstantInv, NEW t \in Threads, Editing(t),
           NEW n \in RedisSession, NEW f \in {"max", "principal"},
           putAndFlush(t, n, f), used' = used, n.id = session[t].id, n.originalId = session[t].originalId,
           n.last = session[t].last, n.delta = session[t].delta,
           f = "max" \/ n.max = session[t].max
    PROVE  InstantInv'
<1>1. PICK s \in RedisSession : s = session[t]
  BY DEF TypeInv, TypeOK
<1>2. /\ pc[t] = "edit" /\ UNCHANGED <<now, hash, hashTtl, shadow, shadowTtl, start>>
  BY DEF Editing, redisVars
<1>3. /\ MayHold("edit", s, "save") /\ s.id \in used /\ start[t] = now
      /\ caller[t] = "save"
  BY <1>1, <1>2, InstantHeld
<1>4. PICK m : m = [n EXCEPT !.delta = @ \cup {f}]
  OBVIOUS
<1>5. /\ m.id = s.id /\ m.originalId = s.id /\ m.last = s.last
      /\ m.delta = s.delta \cup {f} /\ (f = "max" \/ m.max = s.max)
  BY <1>1, <1>3, <1>4 DEF RedisSession, MayHold
<1>6. PICK step \in {"edit", "hmset"}, by \in {"save", "setter"} :
         /\ Goto(t, step, m) /\ caller' = [caller EXCEPT ![t] = by]
         /\ step = "edit" => by = "save"
  <2>1. CASE FlushMode = "IMMEDIATE"
    BY <1>4, <1>5, <2>1 DEF putAndFlush, saveDelta, afterRename
  <2>2. CASE FlushMode # "IMMEDIATE"
    BY <1>3, <1>4, <2>2 DEF putAndFlush, TypeInv, TypeOK
  <2> QED
    BY <2>1, <2>2
<1>7. MayHold(step, m, by)
  <2>1. "creation" \in m.delta \/ Agrees(m)
    BY <1>3, <1>5 DEF MayHold, Agrees
  <2>2. "creation" \in s.delta => "creation" \in m.delta /\ Whole \subseteq m.delta
    BY <1>3, <1>5 DEF MayHold
  <2>3. "creation" \in m.delta <=> "creation" \in s.delta
    BY <1>5
  <2> QED
    BY <1>3, <1>5, <2>1, <2>2, <2>3 DEF MayHold, SaveStep, DeleteStep
<1> QED
  BY <1>1, <1>2, <1>3, <1>5, <1>6, <1>7, InstantStill DEF DeleteStep, OpenStep

LEMMA InstantSet ==
    ASSUME TypeInv, InstantInv, NEW t \in Threads,
           \/ \E p \in SetPrincipals : setPrincipal(t, p)
           \/ \E max \in SetIntervals : setMaxInactiveInterval(t, max)
    PROVE  InstantInv'
<1>0. PICK s \in RedisSession : s = session[t]
  BY DEF TypeInv, TypeOK
<1>1. ASSUME NEW p \in SetPrincipals, setPrincipal(t, p)
      PROVE  InstantInv'
  <2>1. PICK n : n = [s EXCEPT !.principal = p]
    OBVIOUS
  <2>2. n \in RedisSession /\ n.id = s.id /\ n.originalId = s.originalId
        /\ n.last = s.last /\ n.delta = s.delta /\ n.max = s.max
    BY <2>1, RepositoryAssumption DEF RedisSession
  <2>3. Editing(t) /\ putAndFlush(t, n, "principal") /\ used' = used
    BY <1>0, <1>1, <2>1 DEF setPrincipal
  <2> QED
    BY <1>0, <2>2, <2>3, InstantPut
<1>2. ASSUME NEW max \in SetIntervals, setMaxInactiveInterval(t, max)
      PROVE  InstantInv'
  <2>1. PICK n : n = [s EXCEPT !.max = max]
    OBVIOUS
  <2>2. n \in RedisSession /\ n.id = s.id /\ n.originalId = s.originalId
        /\ n.last = s.last /\ n.delta = s.delta
    BY <2>1, RepositoryAssumption DEF RedisSession
  <2>3. Editing(t) /\ putAndFlush(t, n, "max") /\ used' = used
    BY <1>0, <1>2, <2>1 DEF setMaxInactiveInterval
  <2> QED
    BY <1>0, <2>2, <2>3, InstantPut
<1> QED
  BY <1>1, <1>2

\* save, the end of a request, and the commands that change no deadline
LEMMA InstantCommand ==
    ASSUME TypeInv, InstantInv, NEW t \in Threads,
           \/ save(t) \/ EndRequest(t) \/ DeleteFromIndex(t)
           \/ RemoveOldPrincipal(t) \/ AddNewPrincipal(t)
           \/ LeaveOldBucket(t) \/ EnterBucket(t) \/ Return(t)
    PROVE  InstantInv'
<1> USE DEF redisVars
<1>a. PICK by : by = caller[t]
  OBVIOUS
<1>b. PICK s : s = session[t]
  OBVIOUS
<1>0. pc[t] # "idle"
  BY DEF save, Editing, EndRequest, DeleteFromIndex, RemoveOldPrincipal,
     AddNewPrincipal, LeaveOldBucket, EnterBucket, Return, Saving
<1>c. /\ s \in RedisSession /\ s.id \in Ids /\ s.id \in used /\ start[t] = now
      /\ MayHold(pc[t], s, by) /\ caller = [caller EXCEPT ![t] = by]
      /\ pc[t] \in {"edit"} \cup DeleteStep => by = "save"
  BY <1>0, <1>a, <1>b, InstantHeld DEF TypeInv, TypeOK
<1>d. UNCHANGED <<now, hash, hashTtl, shadow, shadowTtl, used>>
  BY DEF save, Editing, EndRequest, DeleteFromIndex, RemoveOldPrincipal,
     AddNewPrincipal, LeaveOldBucket, EnterBucket, Return, Saving
<1>1. ASSUME NEW n, NEW step, NEW from, Goto(t, step, n), start' = start,
             caller' = [caller EXCEPT ![t] = from],
             n.id = s.id, n.originalId = s.originalId, n.max = s.max,
             n.last = s.last, n.delta = s.delta, step \in Step,
             step \notin {"idle", "rename", "failed", "shadowTtl", "hashTtl"},
             s.delta # {} => step \in {"edit", "hmset"},
             step \in DeleteStep => pc[t] \in DeleteStep,
             step \notin DeleteStep => pc[t] \notin DeleteStep,
             from = "delete" => by = "delete" /\ step \in SaveStep,
             by = "delete" => from = "delete",
             step \in {"edit"} \cup DeleteStep => from = "save",
             OpenStep(pc[t], by) => OpenStep(step, from)
      PROVE  InstantInv'
  <2>1. MayHold(step, n, from)
    BY <1>1, <1>c DEF MayHold, Agrees
  <2> QED
    BY <1>1, <1>a, <1>b, <1>c, <1>d, <2>1, InstantStill
<1>2. CASE save(t)
  <2>1. pc[t] = "edit" /\ by = "save" /\ start' = start
        /\ s.originalId = s.id
    BY <1>2, <1>c DEF save, Editing, MayHold
  <2>2. Goto(t, afterRename(s), s) /\ caller' = [caller EXCEPT ![t] = "save"]
    BY <1>2, <1>b, <2>1 DEF save, saveDelta
  <2>3. PICK step : step = afterRename(s)
    OBVIOUS
  <2>4. step \in {"return", "hmset"} /\ (s.delta # {} => step = "hmset")
    BY <2>3 DEF afterRename
  <2> QED
    BY <1>1, <2>1, <2>2, <2>3, <2>4 DEF SaveStep, DeleteStep, OpenStep, Step
<1>3. ASSUME GoIdle(t), ~OpenStep(pc[t], caller[t])
      PROVE  InstantInv'
  <2>1. \A u \in Threads \ {t} : start'[u] = start[u]
    BY <1>3 DEF GoIdle, TypeInv, TypeOK
  <2> QED
    BY <1>3, <1>d, <2>1, InstantStill DEF GoIdle
<1>4. CASE EndRequest(t)
  <2>1. pc[t] = "edit" /\ by = "save"
    BY <1>4, <1>c DEF EndRequest, MayHold
  <2> QED
    BY <1>3, <1>4, <1>a, <2>1 DEF EndRequest, OpenStep
<1>5. CASE DeleteFromIndex(t)
  BY <1>1, <1>5, <1>a, <1>b, <1>c
  DEF DeleteFromIndex, SaveStep, DeleteStep, OpenStep, MayHold, Step
<1>6. CASE RemoveOldPrincipal(t)
  <2>1. PICK n : n = [s EXCEPT !.originalPrincipal = s.principal]
    OBVIOUS
  <2>2. /\ n.id = s.id /\ n.originalId = s.originalId /\ n.max = s.max
        /\ n.last = s.last /\ n.delta = s.delta
    BY <1>c, <2>1 DEF RedisSession
  <2>3. /\ Goto(t, "index", n) /\ pc[t] = "unindex" /\ caller' = caller
        /\ start' = start
    BY <1>6, <1>b, <2>1 DEF RemoveOldPrincipal, Saving
  <2>4. s.delta = {}
    BY <1>c, <2>3 DEF MayHold
  <2> QED
    BY <1>1, <1>c, <2>2, <2>3, <2>4 DEF SaveStep, DeleteStep, OpenStep, Step
<1>7. ASSUME AddNewPrincipal(t) \/ LeaveOldBucket(t) \/ EnterBucket(t)
      PROVE  InstantInv'
  <2>1. PICK step \in {"unbucket", "bucket", "append"} :
           /\ Goto(t, step, s) /\ pc[t] \in {"index", "unbucket", "bucket"}
           /\ caller' = caller /\ start' = start
    BY <1>7, <1>b DEF AddNewPrincipal, LeaveOldBucket, EnterBucket, Saving
  <2>2. s.delta = {}
    BY <1>c, <2>1 DEF MayHold
  <2> QED
    BY <1>1, <1>c, <2>1, <2>2 DEF SaveStep, DeleteStep, OpenStep, Step
<1>8. CASE Return(t)
  <2>1. pc[t] = "return" /\ ~OpenStep(pc[t], caller[t]) /\ s.delta = {}
    BY <1>8, <1>c DEF Return, OpenStep, MayHold
  <2>2. CASE by = "delete"
    BY <1>3, <1>8, <1>a, <2>1, <2>2 DEF Return
  <2>3. CASE by # "delete"
    <3>1. PICK n : n = [s EXCEPT !.isNew = @ /\ by = "setter"]
      OBVIOUS
    <3>2. /\ n.id = s.id /\ n.originalId = s.originalId /\ n.max = s.max
          /\ n.last = s.last /\ n.delta = s.delta
      BY <1>c, <3>1 DEF RedisSession
    <3>3. /\ Goto(t, "edit", n) /\ caller' = [caller EXCEPT ![t] = "save"]
          /\ start' = start
      BY <1>8, <1>a, <1>b, <2>3, <3>1 DEF Return
    <3> QED
      BY <1>1, <1>a, <2>1, <2>3, <3>2, <3>3
      DEF SaveStep, DeleteStep, OpenStep, Step
  <2> QED
    BY <2>2, <2>3
<1> QED
  BY <1>2, <1>4, <1>5, <1>6, <1>7, <1>8
\* deleteById takes the shadow key away before it shortens the interval.
LEMMA InstantDeleteShadow ==
    ASSUME TypeInv, InstantInv, Alone, NEW t \in Threads, DeleteShadow(t)
    PROVE  InstantInv'
<1>a. PICK s : s = session[t]
  OBVIOUS
<1>b. PICK id : id = s.id
  OBVIOUS
<1>1. pc[t] = "delShadow" /\ DelShadow(id) /\ start' = start /\ used' = used
      /\ UNCHANGED <<now, hash, hashTtl>>
  BY <1>a, <1>b DEF DeleteShadow
<1>2. /\ s \in RedisSession /\ id \in Ids /\ id \in used /\ MayHold("delShadow", s, "save")
      /\ caller[t] = "save" /\ Keyed(id)
  BY <1>1, <1>a, <1>b, InstantHeld DEF DeleteStep
<1>3. PICK m : m = [s EXCEPT !.max = 0]
  OBVIOUS
<1>4. PICK n : n = [m EXCEPT !.delta = {"max"}]
  OBVIOUS
<1>5. /\ n.id = id /\ n.originalId = id /\ n.last = s.last /\ n.max = 0
      /\ n.delta = {"max"}
  <2>1. m \in RedisSession /\ m.id = id /\ m.originalId = id /\ m.last = s.last
        /\ m.max = 0
    BY <1>2, <1>3, <1>b, ConstantsAssumption DEF RedisSession, MayHold
  <2> QED
    BY <1>4, <2>1 DEF RedisSession
<1>6. Goto(t, "hmset", n) /\ caller' = [caller EXCEPT ![t] = "delete"]
  <2>1. saveDelta(t, n, "delete")
    BY <1>a, <1>3, <1>4 DEF DeleteShadow
  <2> QED
    BY <1>5, <2>1 DEF saveDelta, afterRename
<1>7. /\ shadow' = shadow \ {id} /\ shadowTtl' = [shadowTtl EXCEPT ![id] = NoTtl]
      /\ shadowTtl \in [Ids -> Nat \cup {NoTtl}]
  BY <1>1 DEF DelShadow, TypeInv, TypeOK, RedisTypeOK
<1>8. \A x \in Ids \ {id} : Untouched(x)
  BY <1>1, <1>7 DEF Untouched
<1>9. Keyed(id)'
  BY <1>1, <1>2, <1>7 DEF Keyed, Exists
<1>10. /\ Agrees(s) /\ HashReady(id) /\ s.delta = {}
  BY <1>2, <1>b DEF MayHold, DeleteStep
<1>11. Agrees(n)'
  BY <1>1, <1>5, <1>10, <1>b DEF Agrees
<1>12. HashReady(id)'
  BY <1>1, <1>10 DEF HashReady, Due
<1>13. MayHold("hmset", n, "delete")'
  BY <1>1, <1>2, <1>5, <1>7, <1>11, <1>12 DEF MayHold, SaveStep, DeleteStep
<1> QED
  BY <1>1, <1>2, <1>5, <1>6, <1>8, <1>9, <1>13, <1>a, <1>b, InstantKeyed
  DEF DeleteStep, OpenStep

\* HMSET makes the hash agree with the session.
LEMMA InstantPutAll ==
    ASSUME TypeInv, InstantInv, Alone, NEW t \in Threads, PutAll(t)
    PROVE  InstantInv'
<1>a. PICK s : s = session[t]
  OBVIOUS
<1>b. PICK id : id = s.id
  OBVIOUS
<1>c. PICK by : by = caller[t]
  OBVIOUS
<1>1. /\ pc[t] = "hmset" /\ Hmset(id, s, s.delta)
      /\ UNCHANGED <<now, hashTtl, shadow, shadowTtl, start, used, caller>>
  BY <1>a, <1>b DEF PutAll, Saving
<1>2. /\ s \in RedisSession /\ id \in Ids /\ id \in used /\ MayHold("hmset", s, by)
      /\ Keyed(id)
  BY <1>1, <1>a, <1>b, <1>c, InstantHeld
<1>3. PICK n : n = [s EXCEPT !.delta = {}]
  OBVIOUS
<1>4. /\ n.id = id /\ n.originalId = id /\ n.last = s.last /\ n.max = s.max
      /\ n.delta = {}
  BY <1>2, <1>3, <1>b DEF RedisSession, MayHold
<1>5. PICK step \in {"unindex", "unbucket"} : Goto(t, step, n)
  BY <1>a, <1>3 DEF PutAll
<1>6. PICK h \in HashValue : h = hash[id]
  BY <1>2 DEF TypeInv, TypeOK, RedisTypeOK
<1>7. PICK k : k = [fields |-> h.fields \cup s.delta,
                    max |-> IF "max" \in s.delta THEN s.max ELSE h.max,
                    last |-> IF "last" \in s.delta THEN s.last ELSE h.last,
                    principal |-> IF "principal" \in s.delta THEN s.principal
                                                             ELSE h.principal]
  OBVIOUS
<1>8. hash' = [hash EXCEPT ![id] = k] /\ hash'[id] = k
      /\ \A x \in Ids \ {id} : hash'[x] = hash[x]
  <2>1. hash' = [hash EXCEPT ![id] = k]
    BY <1>1, <1>6, <1>7 DEF Hmset
  <2> QED
    BY <1>2, <2>1 DEF TypeInv, TypeOK, RedisTypeOK
<1>9. \A x \in Ids \ {id} : Untouched(x)
  BY <1>1, <1>8 DEF Untouched
<1>10. HashReady(id) /\ (by # "delete" => ShadowReady(id))
  BY <1>2, <1>b DEF MayHold, Keyed, HashReady, Due, DeleteStep
<1>11. Whole \subseteq k.fields /\ k.max = s.max /\ k.last = s.last /\ k.last <= now
  BY <1>2, <1>6, <1>7, <1>b DEF MayHold, Agrees, Whole
<1>12. Agrees(n)'
  BY <1>4, <1>8, <1>11 DEF Agrees
<1>13. Keyed(id)'
  <2>1. k.fields # {}
    BY <1>11 DEF Whole
  <2> QED
    BY <1>1, <1>2, <1>8, <1>11, <2>1 DEF Keyed, Exists
<1>14. HashReady(id)' /\ (by # "delete" => ShadowReady(id)')
  BY <1>1, <1>10 DEF HashReady, ShadowReady, Due
<1>15. MayHold(step, n, by)'
  BY <1>1, <1>2, <1>4, <1>5, <1>12, <1>14, <1>b DEF MayHold, SaveStep, DeleteStep
<1>16. caller' = [caller EXCEPT ![t] = by]
  BY <1>1, <1>c DEF TypeInv, TypeOK
<1> QED
  BY <1>1, <1>2, <1>4, <1>5, <1>9, <1>13, <1>15, <1>16, <1>a, <1>b, InstantKeyed
  DEF DeleteStep, OpenStep

\* The shadow key and its deadline
LEMMA InstantShadow ==
    ASSUME TypeInv, InstantInv, Alone, NEW t \in Threads,
           WriteShadow(t) \/ ExtendShadow(t)
    PROVE  InstantInv'
<1>a. PICK s : s = session[t]
  OBVIOUS
<1>b. PICK id : id = s.id
  OBVIOUS
<1>c. PICK by : by = caller[t]
  OBVIOUS
<1>1. /\ pc[t] \in {"append", "shadowTtl"}
      /\ UNCHANGED <<now, hash, hashTtl, start, used, caller>>
  BY DEF WriteShadow, ExtendShadow, Saving
<1>2. /\ s \in RedisSession /\ id \in Ids /\ id \in used /\ MayHold(pc[t], s, by)
      /\ Keyed(id)
  BY <1>1, <1>a, <1>b, <1>c, InstantHeld
<1>3. /\ s.id = id /\ s.originalId = id /\ s.delta = {} /\ Agrees(s) /\ HashReady(id)
      /\ s.last <= now /\ (by # "delete" => ShadowReady(id))
      /\ (by = "delete" => s.max = 0 /\ id \notin shadow)
  BY <1>1, <1>2, <1>b DEF MayHold, DeleteStep
<1>4. Agrees(s)' /\ HashReady(id)'
  BY <1>1, <1>3 DEF Agrees, HashReady, Due
<1>5. /\ shadowTtl \in [Ids -> Nat \cup {NoTtl}] /\ now \in Nat /\ s.max \in Int
  BY <1>2, ConstantsAssumption DEF TypeInv, TypeOK, RedisTypeOK, RedisSession
<1>6. caller' = [caller EXCEPT ![t] = by]
  BY <1>1, <1>c DEF TypeInv, TypeOK
<1>7. ASSUME NEW step \in {"shadowTtl", "hashTtl"}, Goto(t, step, s),
             \A x \in Ids \ {id} : Untouched(x), Keyed(id)', MayHold(step, s, by)'
      PROVE  InstantInv'
  BY <1>1, <1>2, <1>6, <1>7, <1>a, <1>b, InstantKeyed DEF DeleteStep, OpenStep
<1>8. CASE WriteShadow(t) /\ s.max = 0
  <2>1. DelShadow(id) /\ Goto(t, "hashTtl", s)
    BY <1>8, <1>a, <1>b DEF WriteShadow
  <2>2. /\ shadow' = shadow \ {id} /\ shadowTtl' = [shadowTtl EXCEPT ![id] = NoTtl]
        /\ shadowTtl'[id] = NoTtl /\ id \notin shadow'
    BY <1>2, <1>5, <2>1 DEF DelShadow
  <2>3. \A x \in Ids \ {id} : Untouched(x)
    BY <1>1, <1>5, <2>2 DEF Untouched
  <2>4. Keyed(id)'
    BY <1>1, <1>2, <2>2 DEF Keyed, Exists
  <2>5. ShadowReady(id)'
    BY <2>2 DEF ShadowReady, Due
  <2>6. MayHold("hashTtl", s, by)'
    BY <1>1, <1>3, <1>4, <1>8, <2>2, <2>5 DEF MayHold, SaveStep, DeleteStep
  <2> QED
    BY <1>7, <2>1, <2>3, <2>4, <2>6
<1>9. CASE WriteShadow(t) /\ s.max # 0
  <2>1. /\ shadow' = shadow \cup {id} /\ shadowTtl' = shadowTtl
        /\ Goto(t, "shadowTtl", s)
    BY <1>9, <1>a, <1>b DEF WriteShadow, AppendShadow
  <2>2. \A x \in Ids \ {id} : Untouched(x)
    BY <1>1, <2>1 DEF Untouched
  <2>3. Keyed(id)'
    BY <1>1, <1>2, <2>1 DEF Keyed, Exists
  <2>4. by # "delete" /\ ShadowReady(id)'
    BY <1>1, <1>3, <1>9, <2>1 DEF ShadowReady, Due
  <2>5. MayHold("shadowTtl", s, by)'
    BY <1>1, <1>3, <1>4, <1>9, <2>1, <2>4 DEF MayHold, SaveStep, DeleteStep
  <2> QED
    BY <1>7, <2>1, <2>2, <2>3, <2>5
<1>10. CASE ExtendShadow(t)
  <2>1. /\ pc[t] = "shadowTtl" /\ Goto(t, "hashTtl", s) /\ shadow' = shadow
        /\ SetShadowTtl(id, IF s.max < 0 THEN NoTtl ELSE now + s.max)
    BY <1>10, <1>a, <1>b DEF ExtendShadow, Saving
  <2>2. s.max # 0 /\ id \in shadow /\ by # "delete"
    BY <1>2, <1>3, <2>1, <1>b DEF MayHold
  <2>3. PICK ttl : ttl = IF s.max < 0 THEN NoTtl ELSE now + s.max
    OBVIOUS
  <2>4. shadowTtl' = [shadowTtl EXCEPT ![id] = ttl] /\ shadowTtl'[id] = ttl
    BY <1>2, <1>5, <2>1, <2>2, <2>3 DEF SetShadowTtl
  <2>5. \A x \in Ids \ {id} : Untouched(x)
    BY <1>1, <1>5, <2>1, <2>4 DEF Untouched
  <2>6. Keyed(id)'
    BY <1>1, <1>2, <2>1, <2>2 DEF Keyed, Exists
  <2>7. ShadowReady(id)'
    BY <1>1, <1>5, <2>2, <2>3, <2>4 DEF ShadowReady, Due, NoTtl
  <2>8. MayHold("hashTtl", s, by)'
    BY <1>1, <1>3, <1>4, <2>1, <2>2, <2>3, <2>4, <2>7
    DEF MayHold, SaveStep, DeleteStep
  <2> QED
    BY <1>7, <2>1, <2>5, <2>6, <2>8
<1> QED
  BY <1>8, <1>9, <1>10

\* The EXPIRE of the hash is the last command: now hash and shadow key are kept.
LEMMA InstantExtendHash ==
    ASSUME TypeInv, InstantInv, Alone, NEW t \in Threads, ExtendHash(t)
    PROVE  InstantInv'
<1>a. PICK s : s = session[t]
  OBVIOUS
<1>b. PICK id : id = s.id
  OBVIOUS
<1>c. PICK by : by = caller[t]
  OBVIOUS
<1>1. /\ pc[t] = "hashTtl" /\ Goto(t, "return", s)
      /\ UNCHANGED <<now, hash, shadow, shadowTtl, start, used, caller>>
      /\ SetHashTtl(id, IF s.max < 0 THEN NoTtl ELSE now + s.max + Grace)
  BY <1>a, <1>b DEF ExtendHash, Saving
<1>2. /\ s \in RedisSession /\ id \in Ids /\ id \in used /\ MayHold("hashTtl", s, by)
      /\ Keyed(id)
  BY <1>1, <1>a, <1>b, <1>c, InstantHeld
<1>3. /\ s.id = id /\ s.originalId = id /\ s.delta = {} /\ Agrees(s) /\ HashReady(id)
      /\ s.last <= now /\ (by # "delete" => ShadowReady(id))
      /\ (by = "delete" => s.max = 0 /\ id \notin shadow)
      /\ IF s.max = 0 THEN id \notin shadow
         ELSE id \in shadow /\ shadowTtl[id] = IF s.max < 0 THEN NoTtl ELSE now + s.max
  BY <1>2, <1>b DEF MayHold, DeleteStep
<1>4. /\ Whole \subseteq hash[id].fields /\ hash[id].max = s.max
      /\ hash[id].last = s.last /\ Exists(id)
  BY <1>3 DEF Agrees, Exists, Whole
<1>5. PICK ttl : ttl = IF s.max < 0 THEN NoTtl ELSE now + s.max + Grace
  OBVIOUS
<1>6. hashTtl' = [hashTtl EXCEPT ![id] = ttl] /\ hashTtl'[id] = ttl
  BY <1>1, <1>2, <1>4, <1>5 DEF SetHashTtl, TypeInv, TypeOK, RedisTypeOK
<1>7. /\ now \in Nat /\ s.max \in Int /\ s.last \in Nat /\ Grace \in Nat /\ Grace > 0
  <2>1. Grace \in Nat /\ Grace > 0
    BY ConstantsAssumption
  <2>2. now \in Nat /\ s.max \in Intervals /\ s.last \in Nat
    BY <1>2 DEF TypeInv, TypeOK, RedisTypeOK, RedisSession
  <2>3. Intervals \subseteq Int
    BY ConstantsAssumption
  <2> QED
    BY <2>1, <2>2, <2>3
<1>8. \A x \in Ids \ {id} : Untouched(x)
  BY <1>1, <1>6 DEF Untouched, TypeInv, TypeOK, RedisTypeOK
<1>9. Keyed(id)'
  BY <1>1, <1>2, <1>4 DEF Keyed, Exists
<1>10. HashReady(id)' /\ (by # "delete" => ShadowReady(id)') /\ Agrees(s)'
  <2>1. HashReady(id)'
    BY <1>1, <1>5, <1>6, <1>7 DEF HashReady, Due, NoTtl
  <2> QED
    BY <1>1, <1>3, <2>1 DEF ShadowReady, Due, Agrees
<1>11. MayHold("return", s, by)'
  BY <1>1, <1>3, <1>10 DEF MayHold, SaveStep, DeleteStep
<1>12. KeptHash(id)'
  <2>1. /\ hash'[id].max = s.max /\ hash'[id].last = s.last
        /\ Whole \subseteq hash'[id].fields
    BY <1>1, <1>4
  <2>2. s.max < 0 => id \in shadow' /\ shadowTtl'[id] = NoTtl /\ hashTtl'[id] = NoTtl
    BY <1>1, <1>3, <1>5, <1>6, <1>7
  <2>3. s.max >= 0 => hashTtl'[id] = now + s.max + Grace
    BY <1>5, <1>6, <1>7
  <2>4. s.max > 0 => id \in shadow' /\ shadowTtl'[id] = now + s.max
    BY <1>1, <1>3, <1>7
  <2>5. s.max = 0 => id \notin shadow'
    BY <1>1, <1>3
  <2>6. now' = now
    BY <1>1
  <2>7. s.max >= 0 =>
          /\ hashTtl'[id] # NoTtl /\ hashTtl'[id] >= s.last + s.max + Grace
          /\ IF id \in shadow'
             THEN /\ s.max # 0 /\ shadowTtl'[id] # NoTtl
                  /\ shadowTtl'[id] >= s.last + s.max
                  /\ hashTtl'[id] = shadowTtl'[id] + Grace
             ELSE now' >= s.last + s.max
    BY <1>3, <1>7, <2>3, <2>4, <2>5, <2>6 DEF NoTtl
  <2> QED
    BY <2>1, <2>2, <2>7 DEF KeptHash
<1>13. caller' = [caller EXCEPT ![t] = by]
  BY <1>1, <1>c DEF TypeInv, TypeOK
<1> QED
  BY <1>1, <1>2, <1>8, <1>9, <1>11, <1>12, <1>13, <1>a, <1>b, InstantKeyed
  DEF DeleteStep
\* The steps of the environment: Redis deletes no hash and no shadow key that the
\* request at work needs, and the clock waits for the request.
LEMMA InstantOthers ==
    ASSUME TypeInv, InstantInv, Instant,
           Clean \/ Listen \/ Expire \/ Tick \/ UNCHANGED vars
    PROVE  InstantInv'
<1> USE DEF redisVars, threadVars
<1>0. \A id \in Ids : Keyed(id)
  BY DEF InstantInv, KeyInv, Keyed
<1>1. ASSUME UNCHANGED <<now, hash, hashTtl, shadow, shadowTtl, pc, session, caller,
                         start, used>>
      PROVE  InstantInv'
  <2>1. KeyInv' /\ \A id \in Ids : Exists(id)' => Open(id)' \/ KeptHash(id)'
    BY <1>1 DEF InstantInv, KeyInv, Exists, Open, KeptHash
  <2>2. ASSUME NEW t \in Threads, pc[t] # "idle"
        PROVE  MayHold(pc[t], session[t], caller[t])'
    BY <1>1, <2>2
    DEF InstantInv, MayHold, Agrees, Exists, HashReady, ShadowReady, Due
  <2> QED
    BY <1>1, <2>1, <2>2 DEF InstantInv
<1>2. CASE Clean
  BY <1>1, <1>2 DEF Clean, CleanRead, CleanDelete, CleanTouch
<1>3. CASE Listen
  BY <1>1, <1>3 DEF Listen, Receive, CleanIndexAndPublish, Lose
<1>4. CASE UNCHANGED vars
  BY <1>1, <1>4 DEF vars
<1>5. ASSUME NEW id \in Ids, UNCHANGED <<now, pc, session, caller, start, used>>,
             \A x \in Ids \ {id} : Untouched(x), Keyed(id)',
             Exists(id)' => Exists(id) /\ (Open(id) \/ KeptHash(id)'),
             \A t \in Threads : pc[t] # "idle" /\ session[t].id = id =>
                MayHold(pc[t], session[t], caller[t])'
      PROVE  InstantInv'
  <2>1. \A x \in Ids : Keyed(x)'
    BY <1>0, <1>5, UntouchedKept
  <2>2. \A x \in Ids : Open(x)' = Open(x)
    BY <1>5 DEF Open
  <2>3. ASSUME NEW x \in Ids, Exists(x)'
        PROVE  Open(x)' \/ KeptHash(x)'
    <3>1. CASE x = id
      BY <1>5, <2>2, <2>3, <3>1
    <3>2. CASE x # id
      <4>1. Exists(x) /\ (KeptHash(x) => KeptHash(x)')
        BY <1>5, <2>3, <3>2, UntouchedKept
      <4> QED
        BY <2>2, <4>1 DEF InstantInv
    <3> QED
      BY <3>1, <3>2
  <2>4. ASSUME NEW t \in Threads, pc[t] # "idle"
        PROVE  MayHold(pc[t], session[t], caller[t])'
    <3>1. CASE session[t].id = id
      BY <1>5, <2>4, <3>1
    <3>2. CASE session[t].id # id
      <4>1. PICK s : s = session[t]
        OBVIOUS
      <4>2. PICK x \in Ids : x = s.id
        BY <2>4, <4>1, BusyType
      <4>3. MayHold(pc[t], s, caller[t]) /\ Untouched(x)
        BY <1>5, <2>4, <3>2, <4>1, <4>2 DEF InstantInv
      <4>4. MayHold(pc[t], s, caller[t])'
        BY <1>5, <4>2, <4>3
        DEF MayHold, Agrees, Exists, HashReady, ShadowReady, Due, Untouched
      <4>5. session'[t] = s
        BY <1>5, <4>1
      <4> QED
        BY <4>4, <4>5 DEF MayHold, Agrees, Exists, HashReady, ShadowReady
    <3> QED
      BY <3>1, <3>2
  <2>5. KeyInv'
    BY <2>1 DEF KeyInv, Keyed
  <2> QED
    BY <1>5, <2>3, <2>4, <2>5 DEF InstantInv
<1>6. ASSUME NEW id \in Ids, ExpireHash(id), UNCHANGED threadVars
      PROVE  InstantInv'
  <2>1. /\ hash' = [hash EXCEPT ![id] = NoHash]
        /\ hashTtl' = [hashTtl EXCEPT ![id] = NoTtl]
        /\ UNCHANGED <<now, shadow, shadowTtl>> /\ ~HashReady(id)
    BY <1>6 DEF ExpireHash, HashReady
  <2>2. /\ hash'[id] = NoHash /\ hashTtl'[id] = NoTtl
        /\ \A x \in Ids \ {id} : Untouched(x)
    BY <2>1 DEF Untouched, TypeInv, TypeOK, RedisTypeOK
  <2>3. Exists(id)
    BY <1>0, <2>1 DEF Keyed, HashReady, Due
  <2>4. Keyed(id)' /\ ~Exists(id)'
    <3>1. NoHash.fields = {} /\ NoHash.last = 0 /\ now \in Nat
      BY DEF NoHash, TypeInv, TypeOK, RedisTypeOK
    <3>2. ~Exists(id)'
      BY <2>2, <3>1 DEF Exists
    <3>3. hash'[id].last <= now'
      BY <2>1, <2>2, <3>1
    <3> QED
      BY <1>0, <1>6, <2>1, <2>2, <3>2, <3>3 DEF Keyed
  <2>5. \A t \in Threads : pc[t] # "idle" => session[t].id # id
    BY <2>1, <2>3 DEF InstantInv, MayHold
  <2> QED
    BY <1>5, <1>6, <2>1, <2>2, <2>4, <2>5
<1>7. ASSUME NEW id \in Ids, ExpireShadow(id), UNCHANGED threadVars
      PROVE  InstantInv'
  <2>1. /\ shadow' = shadow \ {id} /\ shadowTtl' = [shadowTtl EXCEPT ![id] = NoTtl]
        /\ UNCHANGED <<now, hash, hashTtl>> /\ ~ShadowReady(id)
        /\ shadowTtl[id] # NoTtl /\ shadowTtl[id] <= now
    BY <1>7 DEF ExpireShadow, ShadowReady, Due
  <2>2. /\ id \notin shadow' /\ shadowTtl'[id] = NoTtl
        /\ \A x \in Ids \ {id} : Untouched(x)
    BY <2>1 DEF Untouched, TypeInv, TypeOK, RedisTypeOK
  <2>3. id \in shadow /\ Keyed(id)'
    BY <1>0, <1>7, <2>1, <2>2 DEF Keyed, Exists
  <2>4. ASSUME NEW t \in Threads, pc[t] # "idle", session[t].id = id
        PROVE  MayHold(pc[t], session[t], caller[t])' /\ pc[t] \in DeleteStep
    <3>1. PICK s : s = session[t]
      OBVIOUS
    <3>2. MayHold(pc[t], s, caller[t])
      BY <2>4, <3>1 DEF InstantInv
    <3>3. caller[t] # "delete" /\ pc[t] \in DeleteStep /\ s.id = id
      BY <2>1, <2>3, <2>4, <3>1, <3>2 DEF MayHold
    <3>4. MayHold(pc[t], s, caller[t])'
      BY <1>7, <2>1, <2>3, <3>2, <3>3
      DEF MayHold, Agrees, Exists, HashReady, Due, DeleteStep
    <3>5. session'[t] = s
      BY <1>7, <3>1
    <3> QED
      BY <3>3, <3>4, <3>5 DEF MayHold, Agrees, Exists, HashReady, ShadowReady
  <2>5. ~Open(id)
    BY <2>4 DEF Open, OpenStep, DeleteStep
  <2>6. Exists(id)' => Exists(id) /\ KeptHash(id)'
    <3>1. Exists(id)' => Exists(id) /\ KeptHash(id)
      BY <2>1, <2>5 DEF Exists, InstantInv
    <3>2. /\ now \in Nat /\ shadowTtl[id] \in Nat \cup {NoTtl} /\ hash[id].max \in Int
          /\ hash[id].last \in Nat
      BY ConstantsAssumption DEF TypeInv, TypeOK, RedisTypeOK, HashValue
    <3> QED
      BY <2>1, <2>2, <2>3, <3>1, <3>2 DEF KeptHash
  <2> QED
    BY <1>5, <1>7, <2>1, <2>2, <2>3, <2>4, <2>6
<1>8. CASE Expire
  <2>1. \A p \in bucketTtl : ExpireBucket(p[1]) /\ UNCHANGED threadVars => InstantInv'
    BY <1>1 DEF ExpireBucket
  <2> QED
    BY <1>6, <1>7, <1>8, <2>1 DEF Expire
<1>9. CASE Tick
  <2>1. /\ now' = now + 1 /\ now \in Nat
        /\ UNCHANGED <<hash, hashTtl, shadow, shadowTtl, pc, session, caller, start,
                       used>>
    BY <1>9 DEF Tick, TypeInv, TypeOK, RedisTypeOK
  <2>2. \A t \in Threads : pc[t] = "idle"
    BY <1>9 DEF Tick, InstantInv, Instant, TypeInv, TypeOK
  <2>3. KeyInv'
    BY <2>1 DEF InstantInv, KeyInv, Exists, TypeInv, TypeOK, RedisTypeOK, HashValue
  <2>4. ASSUME NEW id \in Ids, Exists(id)'
        PROVE  KeptHash(id)'
    <3>1. KeptHash(id)
      BY <2>1, <2>2, <2>4 DEF Exists, Open, OpenStep, InstantInv
    <3>2. hash[id].max \in Int /\ hash[id].last \in Nat
      BY <2>4, ConstantsAssumption DEF TypeInv, TypeOK, RedisTypeOK, HashValue
    <3> QED
      BY <2>1, <3>1, <3>2 DEF KeptHash
  <2> QED
    BY <2>1, <2>2, <2>3, <2>4 DEF InstantInv
<1> QED
  BY <1>2, <1>3, <1>4, <1>8, <1>9

\* Every step keeps the invariant; no thread is ever about to RENAME, or dies.
LEMMA InstantNext ==
    ASSUME Instant, TypeInv, InstantInv, Alone, Alone', [Next]_vars
    PROVE  InstantInv'
<1>1. ASSUME NEW t \in Threads, Call(t)
      PROVE  InstantInv'
  <2>1. \A id \in Ids, touch \in Touching : findById(t, id, touch) => InstantInv'
    BY InstantFind, RepositoryAssumption
  <2>2. \A id \in Ids : ~changeSessionId(t, id)
    BY DEF changeSessionId, Instant
  <2>3. \A id \in Ids : createSession(t, id) \/ deleteById(t, id) => InstantInv'
    BY InstantCreate, InstantDelete
  <2> QED
    BY <1>1, <2>1, <2>2, <2>3, InstantSet, InstantCommand DEF Call
<1>2. ASSUME NEW t \in Threads, Command(t) \/ EndRequest(t) \/ Crash(t)
      PROVE  InstantInv'
  <2>1. ~Crash(t)
    BY DEF Crash, Instant, TypeInv, TypeOK
  <2>2. ~Rename(t)
    BY DEF Rename, Saving, InstantInv, MayHold
  <2> QED
    BY <1>2, <2>1, <2>2, InstantCommand, InstantDeleteShadow, InstantPutAll,
       InstantShadow, InstantExtendHash DEF Command
<1> QED
  BY <1>1, <1>2, InstantOthers DEF Next

\* A hash that is kept and found has its shadow key and a session that has not ended.
LEMMA FoundKept ==
    ASSUME TypeInv, NEW id \in Ids, KeptHash(id), Keyed(id), Found(id)
    PROVE  /\ id \in shadow /\ hash[id].max # 0
           /\ loadSession(id).last = hash[id].last
           /\ hash[id].max >= 0 => now < hash[id].last + hash[id].max
<1>1. hash[id].max \in Int /\ hash[id].last \in Nat /\ now \in Nat
  BY ConstantsAssumption DEF TypeInv, TypeOK, RedisTypeOK, HashValue
<1>2. loadSession(id).last = hash[id].last /\ loadSession(id).max = hash[id].max
  BY DEF loadSession, KeptHash, Whole
<1>3. hash[id].max >= 0 => now < hash[id].last + hash[id].max
  BY <1>1, <1>2 DEF Found, isExpired
<1> QED
  BY <1>1, <1>2, <1>3 DEF KeptHash, Keyed

\* A session that is at rest and not expired has its shadow key, and neither the
\* key nor the hash goes before the session ends, whatever the saves wrote and in
\* whatever order intervals were changed and sessions were touched, deleted and
\* expired before.
THEOREM LiveSessionsAreKept == Instant => (Spec /\ []Alone => []LiveIsKept)
<1>1. ASSUME TypeInv, InstantInv, Instant
      PROVE  LiveIsKept
  <2>1. ASSUME NEW id \in Ids, Found(id), AtRest(id)
        PROVE  LET ends == hash[id].last + hash[id].max IN
               /\ id \in shadow
               /\ IF hash[id].max < 0
                  THEN shadowTtl[id] = NoTtl /\ hashTtl[id] = NoTtl
                  ELSE shadowTtl[id] >= ends /\ hashTtl[id] >= ends + Grace
    <3>1. KeptHash(id) /\ Keyed(id)
      BY <1>1, <2>1 DEF InstantInv, KeyInv, Keyed, Open, OpenStep, AtRest, Found
    <3>2. id \in shadow /\ hash[id].max \in Int
      BY <1>1, <2>1, <3>1, FoundKept, ConstantsAssumption
      DEF TypeInv, TypeOK, RedisTypeOK, HashValue
    <3> QED
      BY <3>1, <3>2 DEF KeptHash
  <2> QED
    BY <2>1 DEF LiveIsKept
<1>2. ASSUME Instant
      PROVE  TypeInv /\ InstantInv /\ Alone /\ Alone' /\ [Next]_vars
             => (TypeInv /\ InstantInv)'
  BY <1>2, InstantNext, TypeNext
<1>3. ASSUME Instant
      PROVE  Spec /\ []Alone => []LiveIsKept
  BY <1>1, <1>2, <1>3, TypeInit, InstantInit, PTL DEF Spec
<1> QED
  BY <1>3

-----------------------------------------------------------------------------
(* No session's end goes unnoticed for more than a minute. *)

\* Minutes
LEMMA Rounding ==
    ASSUME NEW x \in Int
    PROVE  /\ roundDownMinute(x) \in Int /\ roundUpToNextMinute(x) \in Int
           /\ roundDownMinute(x) <= x /\ x < roundUpToNextMinute(x)
           /\ roundUpToNextMinute(x) <= x + Minute
<1>1. Minute \in Nat /\ Minute > 0
  BY ConstantsAssumption
<1>2. PICK k \in Int : k = x \div Minute
  BY <1>1
<1>3. k * Minute <= x /\ x < k * Minute + Minute /\ k * Minute \in Int
  BY <1>1, <1>2
<1> QED
  BY <1>1, <1>2, <1>3 DEF roundDownMinute, roundUpToNextMinute

LEMMA RoundedDown ==
    ASSUME NEW x \in Int
    PROVE  roundDownMinute(roundDownMinute(x)) = roundDownMinute(x)
<1>1. Minute \in Nat /\ Minute > 0
  BY ConstantsAssumption
<1>2. PICK k \in Int : k = x \div Minute
  BY <1>1
<1>3. (k * Minute) \div Minute = k
  BY <1>1
<1> QED
  BY <1>2, <1>3 DEF roundDownMinute

\* Whole minutes are a minute apart.
LEMMA WholeMinutes ==
    ASSUME NEW a \in Int, NEW x \in Int, a = roundDownMinute(a)
    PROVE  /\ a < roundUpToNextMinute(x) => a + Minute <= roundUpToNextMinute(x)
           /\ a < roundDownMinute(x) => a + Minute <= roundDownMinute(x)
<1>1. Minute \in Nat /\ Minute > 0
  BY ConstantsAssumption
<1>2. PICK i \in Int : i = a \div Minute
  BY <1>1
<1>3. PICK k \in Int : k = x \div Minute
  BY <1>1
<1>4. ASSUME NEW j \in Int, i * Minute < j * Minute
      PROVE  i * Minute + Minute <= j * Minute
  <2>1. i < j
    BY <1>1, <1>4
  <2>2. i + 1 <= j
    BY <2>1
  <2>3. (i + 1) * Minute <= j * Minute
    BY <1>1, <2>2
  <2> QED
    BY <1>1, <2>3
<1>5. a = i * Minute /\ roundDownMinute(x) = k * Minute
      /\ roundUpToNextMinute(x) = k * Minute + Minute
  BY <1>2, <1>3 DEF roundDownMinute, roundUpToNextMinute
<1>6. k * Minute + Minute = (k + 1) * Minute
  BY <1>1
<1> QED
  BY <1>4, <1>5, <1>6

LEMMA WatchInit == Init => WatchInv
<1>1. Minute \in Nat /\ Minute > 0
  BY ConstantsAssumption
<1>2. roundDownMinute(0) = 0
  BY <1>1 DEF roundDownMinute
<1> QED
  BY <1>1, <1>2
  DEF Init, RedisInit, WatchInv, CronInv, Entered, DeleteStep

\* What putAndFlush makes of a session under the id it was loaded with
LEMMA PutGoes ==
    ASSUME TypeInv, NEW t \in Threads, NEW n \in RedisSession, NEW f \in Field,
           putAndFlush(t, n, f), n.id = n.originalId, caller[t] = "save"
    PROVE  \E step \in {"edit", "hmset"}, by \in {"save", "setter"}, m \in RedisSession :
              /\ Goto(t, step, m) /\ caller' = [caller EXCEPT ![t] = by]
              /\ m.id = n.id /\ m.last = n.last /\ m.max = n.max
              /\ m.principal = n.principal
              /\ m.originalPrincipal = n.originalPrincipal
              /\ m.delta = n.delta \cup {f}
<1>1. PICK m : m = [n EXCEPT !.delta = @ \cup {f}]
  OBVIOUS
<1>2. /\ m \in RedisSession /\ m.id = n.id /\ m.originalId = n.id /\ m.last = n.last
      /\ m.max = n.max /\ m.principal = n.principal
      /\ m.originalPrincipal = n.originalPrincipal /\ m.delta = n.delta \cup {f}
  BY <1>1 DEF RedisSession
<1>3. CASE FlushMode = "IMMEDIATE"
  <2>1. Goto(t, "hmset", m) /\ caller' = [caller EXCEPT ![t] = "setter"]
    BY <1>1, <1>2, <1>3 DEF putAndFlush, saveDelta, afterRename
  <2> QED
    BY <1>2, <2>1
<1>4. CASE FlushMode # "IMMEDIATE"
  <2>1. Goto(t, "edit", m) /\ caller' = [caller EXCEPT ![t] = "save"]
    BY <1>1, <1>4 DEF putAndFlush, TypeInv, TypeOK
  <2> QED
    BY <1>2, <2>1
<1> QED
  BY <1>3, <1>4

\* A thread other than t is about to set the deadline of x.
RewatchedElsewhere(t, x) ==
    \E u \in Threads \ {t} : session[u].id = x /\ Rewatching(pc[u])

\* A step of a thread keeps the invariant if it takes no session of another thread out
\* of a bucket and every shadow key is watched but those whose deadline a thread is
\* about to set.
LEMMA WatchMove ==
    ASSUME TypeInv, WatchInv, NEW t \in Threads, NEW step, NEW s, NEW by,
           Goto(t, step, s), caller' = [caller EXCEPT ![t] = by],
           UNCHANGED <<now, cronPc, cronAt, cronIds>>,
           step \notin {"idle"} \cup DeleteStep /\ by # "delete" => s.last = now,
           Entered(step, s)', \A p \in bucketTtl' : p[1] < p[2],
           \A u \in Threads \ {t} : pc[u] # "idle" =>
              \A m : <<m, session[u].id>> \in bucket => <<m, session[u].id>> \in bucket',
           \A x \in shadow' : shadowTtl'[x] # NoTtl =>
              \/ s.id = x /\ Rewatching(step)
              \/ RewatchedElsewhere(t, x)
              \/ Watched(x)'
    PROVE  WatchInv'
<1>1. pc'[t] = step /\ session'[t] = s /\ caller'[t] = by
  BY DEF TypeInv, TypeOK, Goto
<1>2. \A u \in Threads \ {t} :
         pc'[u] = pc[u] /\ session'[u] = session[u] /\ caller'[u] = caller[u]
  BY DEF TypeInv, TypeOK, Goto
<1>3. CronInv'
  BY DEF WatchInv, CronInv, roundDownMinute
<1>4. Entered(pc[t], session[t])'
  BY <1>1 DEF Entered, InBucket
<1>5. \A x \in shadow' : shadowTtl'[x] # NoTtl =>
         Watched(x)' \/ \E u \in Threads : session'[u].id = x /\ Rewatching(pc'[u])
  BY <1>1, <1>2 DEF RewatchedElsewhere
<1>6. ASSUME NEW u \in Threads \ {t}
      PROVE  Entered(pc[u], session[u])'
  <2>1. PICK n : n = session[u]
    OBVIOUS
  <2>2. PICK at : at = pc[u]
    OBVIOUS
  <2>3. ASSUME at \in {"append", "shadowTtl"}, n.max > 0
        PROVE  InBucket(n.id, now + n.max)'
    <3>1. InBucket(n.id, now + n.max)
      BY <2>1, <2>2, <2>3 DEF WatchInv, Entered
    <3>2. \A m : <<m, n.id>> \in bucket => <<m, n.id>> \in bucket'
      BY <2>1, <2>2, <2>3
    <3> QED
      BY <3>1, <3>2 DEF InBucket
  <2>4. Entered(at, n)'
    BY <2>3 DEF Entered
  <2>5. pc'[u] = at /\ session'[u] = n
    BY <1>2, <2>1, <2>2
  <2> QED
    BY <2>4, <2>5 DEF Entered, InBucket
<1>7. \A u \in Threads : pc'[u] \notin {"idle"} \cup DeleteStep /\ caller'[u] # "delete"
                          => session'[u].last = now'
  BY <1>1, <1>2 DEF WatchInv
<1> QED
  BY <1>3, <1>4, <1>5, <1>6, <1>7 DEF WatchInv, Rewatching

\* The shadow keys that a thread is not about to watch again are watched.
LEMMA WatchedOrElsewhere ==
    ASSUME WatchInv, NEW t \in Threads, NEW x \in shadow, shadowTtl[x] # NoTtl,
           session[t].id # x \/ ~Rewatching(pc[t])
    PROVE  Watched(x) \/ RewatchedElsewhere(t, x)
  BY DEF WatchInv, RewatchedElsewhere

\* A step that has nothing to do with buckets and shadow keys
LEMMA WatchAside ==
    ASSUME TypeInv, WatchInv, NEW t \in Threads, NEW step, NEW s, NEW by,
           Goto(t, step, s), caller' = [caller EXCEPT ![t] = by],
           UNCHANGED <<now, cronPc, cronAt, cronIds, bucket, bucketTtl, shadow,
                       shadowTtl>>,
           step \notin {"idle"} \cup DeleteStep /\ by # "delete" => s.last = now,
           ~Rewatching(pc[t]), ~Rewatching(step)
    PROVE  WatchInv'
<1>1. Entered(step, s)'
  BY DEF Entered, Rewatching
<1>2. \A x \in shadow : shadowTtl[x] # NoTtl => Watched(x) \/ RewatchedElsewhere(t, x)
  BY WatchedOrElsewhere
<1>3. \A x : Watched(x)' = Watched(x)
  BY DEF Watched, InBucket
<1>4. \A p \in bucketTtl' : p[1] < p[2]
  BY DEF WatchInv
<1> QED
  BY <1>1, <1>2, <1>3, <1>4, WatchMove

\* What a thread has in its session
LEMMA WatchHeld ==
    ASSUME WatchInv, NEW t \in Threads, pc[t] \notin {"idle"} \cup DeleteStep,
           caller[t] # "delete"
    PROVE  session[t].last = now
  BY DEF WatchInv

\* The calls of the application
LEMMA WatchCall ==
    ASSUME TypeInv, InstantInv, WatchInv, Punctual, NEW t \in Threads, Call(t)
    PROVE  WatchInv'
<1> USE DEF redisVars, cronVars
<1>a. PICK s : s = session[t]
  OBVIOUS
<1>1. ASSUME NEW n \in RedisSession, NEW f \in Field, putAndFlush(t, n, f),
             n.id = n.originalId, pc[t] \in {"idle", "edit"}, n.last = now,
             UNCHANGED <<now, cronPc, cronAt, cronIds, bucket, bucketTtl, shadow,
                         shadowTtl>>
      PROVE  WatchInv'
  <2>1. caller[t] = "save"
    BY <1>1 DEF InstantInv
  <2>2. PICK step \in {"edit", "hmset"}, by \in {"save", "setter"},
             m \in RedisSession :
           /\ Goto(t, step, m) /\ caller' = [caller EXCEPT ![t] = by]
           /\ m.last = n.last
    BY <1>1, <2>1, PutGoes
  <2> QED
    BY <1>1, <2>2, WatchAside DEF Rewatching
<1>2. ASSUME NEW id \in Ids, NEW touch \in Touching, findById(t, id, touch)
      PROVE  WatchInv'
  <2>1. touch = TRUE
    BY DEF Punctual
  <2>2. PICK l \in RedisSession : l = loadSession(id) /\ l.id = id
                                  /\ l.originalId = id
    BY LoadType DEF TypeInv
  <2>3. PICK n : n = [l EXCEPT !.last = now]
    OBVIOUS
  <2>4. n \in RedisSession /\ n.id = id /\ n.originalId = id /\ n.last = now
    BY <2>2, <2>3 DEF RedisSession, TypeInv, TypeOK, RedisTypeOK
  <2>5. putAndFlush(t, n, "last") /\ pc[t] = "idle"
    BY <1>2, <2>1, <2>2, <2>3 DEF findById, Begin
  <2> QED
    BY <1>1, <1>2, <2>4, <2>5 DEF findById, Field
<1>3. ASSUME NEW id \in Ids, createSession(t, id)
      PROVE  WatchInv'
  <2>1. PICK n \in RedisSession : n = newSession(id)
    BY NewType DEF TypeInv
  <2>2. n.id = id /\ n.originalId = id /\ n.last = now
    BY <2>1 DEF newSession
  <2>3. putAndFlush(t, n, "last") /\ pc[t] = "idle"
    BY <1>3, <2>1 DEF createSession, Begin
  <2> QED
    BY <1>1, <1>3, <2>2, <2>3 DEF createSession, Field
<1>4. ASSUME NEW id \in Ids, deleteById(t, id)
      PROVE  WatchInv'
  <2>1. PICK l : l = loadSession(id)
    OBVIOUS
  <2>2. Goto(t, "delIndex", l) /\ caller' = [caller EXCEPT ![t] = caller[t]]
        /\ pc[t] = "idle"
    BY <1>4, <2>1 DEF deleteById, Begin, TypeInv, TypeOK
  <2> QED
    BY <1>4, <2>2, WatchAside DEF deleteById, Rewatching, DeleteStep
<1>5. ASSUME Editing(t)
      PROVE  /\ s \in RedisSession /\ s.id = s.originalId /\ s.last = now
             /\ pc[t] = "edit"
             /\ UNCHANGED <<now, cronPc, cronAt, cronIds, bucket, bucketTtl, shadow,
                            shadowTtl>>
  <2>1. pc[t] = "edit" /\ caller[t] = "save"
    BY <1>5 DEF Editing, InstantInv
  <2>2. s \in RedisSession /\ MayHold("edit", s, "save")
    BY <1>a, <2>1, InstantHeld
  <2>3. s.last = now
    BY <1>a, <2>1, WatchHeld DEF DeleteStep
  <2> QED
    BY <1>5, <2>1, <2>2, <2>3 DEF Editing, MayHold
<1>6. ASSUME NEW p \in SetPrincipals, setPrincipal(t, p)
      PROVE  WatchInv'
  <2>1. Editing(t)
    BY <1>6 DEF setPrincipal
  <2>2. PICK n : n = [s EXCEPT !.principal = p]
    OBVIOUS
  <2>3. n \in RedisSession /\ n.id = n.originalId /\ n.last = now
    BY <1>5, <2>1, <2>2, RepositoryAssumption DEF RedisSession
  <2>4. putAndFlush(t, n, "principal")
    BY <1>a, <1>6, <2>2 DEF setPrincipal
  <2> QED
    BY <1>1, <1>5, <2>1, <2>3, <2>4 DEF Field
<1>7. ASSUME NEW max \in SetIntervals, setMaxInactiveInterval(t, max)
      PROVE  WatchInv'
  <2>1. Editing(t)
    BY <1>7 DEF setMaxInactiveInterval
  <2>2. PICK n : n = [s EXCEPT !.max = max]
    OBVIOUS
  <2>3. n \in RedisSession /\ n.id = n.originalId /\ n.last = now
    BY <1>5, <2>1, <2>2, RepositoryAssumption DEF RedisSession
  <2>4. putAndFlush(t, n, "max")
    BY <1>a, <1>7, <2>2 DEF setMaxInactiveInterval
  <2> QED
    BY <1>1, <1>5, <2>1, <2>3, <2>4 DEF Field
<1>8. CASE save(t)
  <2>1. Editing(t) /\ saveDelta(t, s, "save")
    BY <1>a, <1>8 DEF save
  <2>2. PICK step \in {"return", "hmset"} :
           Goto(t, step, s) /\ caller' = [caller EXCEPT ![t] = "save"]
    BY <1>5, <2>1 DEF saveDelta, afterRename
  <2> QED
    BY <1>5, <2>1, <2>2, WatchAside DEF Rewatching
<1> QED
  BY <1>2, <1>3, <1>4, <1>6, <1>7, <1>8 DEF Call, Punctual, Instant, changeSessionId

\* The commands that have nothing to do with buckets and shadow keys
LEMMA WatchCommand ==
    ASSUME TypeInv, InstantInv, WatchInv, NEW t \in Threads,
           \/ EndRequest(t) \/ DeleteFromIndex(t) \/ PutAll(t)
           \/ RemoveOldPrincipal(t) \/ AddNewPrincipal(t) \/ ExtendHash(t) \/ Return(t)
    PROVE  WatchInv'
<1> USE DEF redisVars, cronVars
<1>a. PICK s : s = session[t]
  OBVIOUS
<1>b. PICK by : by = caller[t]
  OBVIOUS
<1>1. pc[t] \notin {"idle", "bucket", "append", "shadowTtl"}
      /\ UNCHANGED <<now, cronPc, cronAt, cronIds, bucket, bucketTtl, shadow, shadowTtl>>
  BY DEF EndRequest, DeleteFromIndex, PutAll, RemoveOldPrincipal, AddNewPrincipal,
     ExtendHash, Return, Saving
<1>2. /\ s \in RedisSession /\ caller = [caller EXCEPT ![t] = by]
      /\ pc[t] \notin DeleteStep /\ by # "delete" => s.last = now
  BY <1>1, <1>a, <1>b DEF WatchInv, TypeInv, TypeOK
<1>3. ASSUME NEW step, NEW n, NEW from, Goto(t, step, n),
             caller' = [caller EXCEPT ![t] = from], step = "idle" \/ n.last = s.last,
             step \notin {"bucket", "append", "shadowTtl"},
             step \in {"idle"} \cup DeleteStep \/ from = "delete"
                \/ (pc[t] \notin DeleteStep /\ by # "delete")
      PROVE  WatchInv'
  BY <1>1, <1>2, <1>3, WatchAside DEF Rewatching
<1>4. CASE EndRequest(t)
  BY <1>3, <1>4 DEF EndRequest, GoIdle
<1>5. CASE DeleteFromIndex(t)
  BY <1>2, <1>3, <1>5, <1>a DEF DeleteFromIndex, DeleteStep
<1>6. CASE PutAll(t)
  <2>1. PICK n : n = [s EXCEPT !.delta = {}]
    OBVIOUS
  <2>2. n.last = s.last
    BY <1>2, <2>1 DEF RedisSession
  <2>3. PICK step \in {"unindex", "unbucket"} : Goto(t, step, n)
    BY <1>6, <1>a, <2>1 DEF PutAll
  <2> QED
    BY <1>2, <1>3, <1>6, <2>2, <2>3 DEF PutAll, Saving, DeleteStep
<1>7. CASE RemoveOldPrincipal(t)
  <2>1. PICK n : n = [s EXCEPT !.originalPrincipal = s.principal]
    OBVIOUS
  <2>2. n.last = s.last
    BY <1>2, <2>1 DEF RedisSession
  <2>3. Goto(t, "index", n)
    BY <1>7, <1>a, <2>1 DEF RemoveOldPrincipal
  <2> QED
    BY <1>2, <1>3, <1>7, <2>2, <2>3 DEF RemoveOldPrincipal, Saving, DeleteStep
<1>8. CASE AddNewPrincipal(t)
  BY <1>2, <1>3, <1>8, <1>a DEF AddNewPrincipal, Saving, DeleteStep
<1>9. CASE ExtendHash(t)
  BY <1>2, <1>3, <1>9, <1>a DEF ExtendHash, Saving, DeleteStep
<1>10. CASE Return(t)
  <2>1. CASE by = "delete"
    BY <1>3, <1>10, <1>b, <2>1 DEF Return, GoIdle
  <2>2. CASE by # "delete"
    <3>1. PICK n : n = [s EXCEPT !.isNew = @ /\ by = "setter"]
      OBVIOUS
    <3>2. n.last = s.last
      BY <1>2, <3>1 DEF RedisSession
    <3>3. Goto(t, "edit", n) /\ caller' = [caller EXCEPT ![t] = "save"]
          /\ pc[t] = "return"
      BY <1>10, <1>a, <1>b, <2>2, <3>1 DEF Return
    <3> QED
      BY <1>3, <2>2, <3>2, <3>3 DEF DeleteStep
  <2> QED
    BY <2>1, <2>2
<1> QED
  BY <1>4, <1>5, <1>6, <1>7, <1>8, <1>9, <1>10

\* What is watched by the present bucket is while the bucket has it.
LEMMA WatchedStays ==
    ASSUME NEW x, UNCHANGED <<cronPc, cronAt, cronIds>>, shadowTtl'[x] = shadowTtl[x],
           \A m : <<m, x>> \in bucket => <<m, x>> \in bucket'
    PROVE  Watched(x) => Watched(x)'
  BY DEF Watched, InBucket

\* The shadow key that is gone needs no watch.
LEMMA WatchDelShadow ==
    ASSUME TypeInv, InstantInv, WatchInv, NEW t \in Threads,
           DeleteShadow(t) \/ (WriteShadow(t) /\ session[t].max = 0)
    PROVE  WatchInv'
<1> USE DEF cronVars
<1>a. PICK s : s = session[t]
  OBVIOUS
<1>b. PICK id : id = s.id
  OBVIOUS
<1>c. PICK by : by = caller[t]
  OBVIOUS
<1>1. /\ pc[t] \in {"delShadow", "append"} /\ DelShadow(id)
      /\ UNCHANGED <<now, cronPc, cronAt, cronIds, bucket, bucketTtl>>
  BY <1>a, <1>b DEF DeleteShadow, WriteShadow, Saving
<1>2. s \in RedisSession /\ id \in Ids /\ MayHold(pc[t], s, by)
  BY <1>1, <1>a, <1>b, <1>c, InstantHeld
<1>3. /\ shadow' = shadow \ {id} /\ shadowTtl' = [shadowTtl EXCEPT ![id] = NoTtl]
      /\ shadow \subseteq Ids
  BY <1>1 DEF DelShadow, TypeInv, TypeOK, RedisTypeOK
<1>4. \A x \in shadow' : shadowTtl'[x] # NoTtl => RewatchedElsewhere(t, x) \/ Watched(x)'
  <2>1. ASSUME NEW x \in shadow', shadowTtl'[x] # NoTtl
        PROVE  RewatchedElsewhere(t, x) \/ Watched(x)'
    <3>1. x # id /\ x \in shadow /\ shadowTtl'[x] = shadowTtl[x]
      BY <1>3, <2>1 DEF TypeInv, TypeOK, RedisTypeOK
    <3>2. Watched(x) \/ RewatchedElsewhere(t, x)
      BY <1>a, <1>b, <2>1, <3>1, WatchedOrElsewhere
    <3> QED
      BY <1>1, <3>1, <3>2, WatchedStays
  <2> QED
    BY <2>1
<1>5. \A p \in bucketTtl' : p[1] < p[2]
  BY <1>1 DEF WatchInv
<1>6. CASE DeleteShadow(t)
  <2>1. PICK m : m = [s EXCEPT !.max = 0]
    OBVIOUS
  <2>2. PICK n : n = [m EXCEPT !.delta = {"max"}]
    OBVIOUS
  <2>3. n.id = id /\ n.originalId = id /\ n.delta = {"max"}
    <3>1. m \in RedisSession /\ m.id = id /\ m.originalId = id
      BY <1>2, <1>b, <2>1, ConstantsAssumption DEF RedisSession, MayHold
    <3> QED
      BY <2>2, <3>1 DEF RedisSession
  <2>4. saveDelta(t, n, "delete")
    BY <1>6, <1>a, <2>1, <2>2 DEF DeleteShadow
  <2>5. Goto(t, "hmset", n) /\ caller' = [caller EXCEPT ![t] = "delete"]
    BY <2>3, <2>4 DEF saveDelta, afterRename
  <2>6. Entered("hmset", n)'
    BY DEF Entered
  <2> QED
    BY <1>1, <1>4, <1>5, <2>5, <2>6, WatchMove
<1>7. CASE WriteShadow(t) /\ s.max = 0
  <2>1. Goto(t, "hashTtl", s) /\ caller' = [caller EXCEPT ![t] = by]
        /\ pc[t] = "append"
    BY <1>7, <1>a, <1>c DEF WriteShadow, Saving, TypeInv, TypeOK
  <2>2. by # "delete" => s.last = now
    BY <1>a, <1>c, <2>1, WatchHeld DEF DeleteStep
  <2>3. Entered("hashTtl", s)'
    BY DEF Entered
  <2> QED
    BY <1>1, <1>4, <1>5, <2>1, <2>2, <2>3, WatchMove
<1> QED
  BY <1>6, <1>7, <1>a

\* The commands from the old bucket to the new deadline
LEMMA WatchSwitch ==
    ASSUME TypeInv, InstantInv, WatchInv, Alone, NEW t \in Threads,
           \/ LeaveOldBucket(t) \/ EnterBucket(t)
           \/ WriteShadow(t) /\ session[t].max # 0
           \/ ExtendShadow(t)
    PROVE  WatchInv'
<1> USE DEF cronVars
<1>a. PICK s : s = session[t]
  OBVIOUS
<1>b. PICK id : id = s.id
  OBVIOUS
<1>c. PICK by : by = caller[t]
  OBVIOUS
<1>1. /\ pc[t] \in {"unbucket", "bucket", "append", "shadowTtl"}
      /\ UNCHANGED <<now, cronPc, cronAt, cronIds>> /\ caller' = caller
  BY DEF LeaveOldBucket, EnterBucket, WriteShadow, ExtendShadow, Saving
<1>2. s \in RedisSession /\ id \in Ids /\ MayHold(pc[t], s, by)
  BY <1>1, <1>a, <1>b, <1>c, InstantHeld
<1>3. /\ caller' = [caller EXCEPT ![t] = by] /\ (by # "delete" => s.last = now)
      /\ (by = "delete" => s.max = 0) /\ s.last <= now
  <2>1. by # "delete" => s.last = now
    BY <1>1, <1>a, <1>c, WatchHeld DEF DeleteStep
  <2> QED
    BY <1>1, <1>2, <1>c, <2>1 DEF TypeInv, TypeOK, MayHold
<1>4. now \in Nat /\ s.max \in Int /\ s.last \in Nat /\ cronAt \in Int /\ cronAt <= now
      /\ shadow \subseteq Ids
  <2>1. s.max \in Intervals /\ s.last \in Nat
    BY <1>2 DEF RedisSession
  <2>2. Intervals \subseteq Int
    BY ConstantsAssumption
  <2> QED
    BY <2>1, <2>2 DEF TypeInv, TypeOK, RedisTypeOK, WatchInv, CronInv
<1>5. ASSUME NEW x \in shadow, x # id, shadowTtl[x] # NoTtl
      PROVE  Watched(x) \/ RewatchedElsewhere(t, x)
  BY <1>a, <1>b, <1>5, WatchedOrElsewhere
<1>6. Entered(pc[t], s) /\ \A p \in bucketTtl : p[1] < p[2]
  BY <1>a DEF WatchInv
<1>d. ASSUME NEW step \in {"bucket", "append", "shadowTtl"}, Goto(t, step, s),
             Entered(step, s)', \A p \in bucketTtl' : p[1] < p[2],
             \A u \in Threads \ {t} : pc[u] # "idle" =>
                \A m : <<m, session[u].id>> \in bucket
                      => <<m, session[u].id>> \in bucket',
             \A x \in shadow' : shadowTtl'[x] # NoTtl =>
                x = id \/ RewatchedElsewhere(t, x) \/ Watched(x)'
      PROVE  WatchInv'
  <2>1. step \notin {"idle"} \cup DeleteStep /\ by # "delete" => s.last = now
    BY <1>3
  <2>2. \A x \in shadow' : shadowTtl'[x] # NoTtl =>
           \/ s.id = x /\ Rewatching(step)
           \/ RewatchedElsewhere(t, x)
           \/ Watched(x)'
    BY <1>b, <1>d DEF Rewatching
  <2> QED
    BY <1>1, <1>3, <1>d, <2>1, <2>2, WatchMove
<1>7. CASE LeaveOldBucket(t)
  <2>1. PICK o : /\ bucket' \in {bucket, bucket \ {<<o, id>>}}
                 /\ bucketTtl' \subseteq bucketTtl
    <3>1. PICK o : o = roundUpToNextMinute(s.originalLast + s.max)
      OBVIOUS
    <3>2. RemoveFromBucket(o, id) \/ UNCHANGED <<bucket, bucketTtl>>
      BY <1>7, <1>a, <1>b, <3>1 DEF LeaveOldBucket
    <3> QED
      BY <3>2 DEF RemoveFromBucket
  <2>2. PICK step \in {"append", "bucket"} :
           Goto(t, step, s) /\ (step = "append" => s.max < 0)
    BY <1>7, <1>a DEF LeaveOldBucket
  <2>3. UNCHANGED <<shadow, shadowTtl>>
    BY <1>7 DEF LeaveOldBucket
  <2>4. Entered(step, s)'
    BY <1>4, <2>2 DEF Entered
  <2>5. \A x \in shadow' : shadowTtl'[x] # NoTtl =>
           x = id \/ RewatchedElsewhere(t, x) \/ Watched(x)'
    BY <1>1, <1>5, <2>1, <2>3, WatchedStays
  <2>6. ASSUME NEW u \in Threads \ {t}, pc[u] # "idle"
        PROVE  \A m : <<m, session[u].id>> \in bucket => <<m, session[u].id>> \in bucket'
    <3>1. session[u].id # id
      BY <1>1, <1>a, <1>b, <2>6, NotTheirs
    <3> QED
      BY <2>1, <3>1
  <2> QED
    BY <1>6, <1>d, <2>1, <2>2, <2>4, <2>5, <2>6
<1>8. CASE EnterBucket(t)
  <2>1. PICK m : m = roundUpToNextMinute(s.last + s.max)
    OBVIOUS
  <2>2. /\ bucket' = bucket \cup {<<m, id>>}
        /\ bucketTtl' = {p \in bucketTtl : p[1] # m} \cup {<<m, now + s.max + Grace>>}
    BY <1>8, <1>a, <1>b, <2>1 DEF EnterBucket, AddToBucket, expiresInMillis
  <2>3. Goto(t, "append", s) /\ UNCHANGED <<shadow, shadowTtl>>
    BY <1>8, <1>a DEF EnterBucket
  <2>4. m < now + s.max + Grace
    <3>1. m <= s.last + s.max + Minute /\ m \in Int
      BY <1>4, <2>1, Rounding
    <3>2. Minute \in Nat /\ Grace \in Nat /\ Minute < Grace
      BY ConstantsAssumption
    <3> QED
      BY <1>3, <1>4, <3>1, <3>2
  <2>5. \A p \in bucketTtl' : p[1] < p[2]
    BY <1>6, <2>2, <2>4
  <2>6. Entered("append", s)'
    <3>1. ASSUME s.max > 0
          PROVE  InBucket(id, now + s.max)'
      <4>1. m = roundUpToNextMinute(now + s.max)
        BY <1>3, <2>1, <3>1
      <4>2. now + s.max < m /\ m \in Int
        BY <1>4, <4>1, Rounding
      <4>3. cronAt < m
        BY <1>4, <3>1, <4>2
      <4>4. roundUpToNextMinute(now' + s.max) = m
        BY <1>1, <4>1
      <4> QED
        BY <1>1, <2>2, <4>1, <4>3 DEF InBucket
    <3> QED
      BY <1>b, <3>1 DEF Entered
  <2>7. \A x \in shadow' : shadowTtl'[x] # NoTtl =>
           x = id \/ RewatchedElsewhere(t, x) \/ Watched(x)'
    BY <1>1, <1>5, <2>2, <2>3, WatchedStays
  <2> QED
    BY <1>d, <2>2, <2>3, <2>5, <2>6, <2>7
<1>9. CASE WriteShadow(t) /\ s.max # 0
  <2>1. /\ shadow' = shadow \cup {id} /\ UNCHANGED <<shadowTtl, bucket, bucketTtl>>
        /\ Goto(t, "shadowTtl", s) /\ pc[t] = "append"
    BY <1>9, <1>a, <1>b DEF WriteShadow, AppendShadow, Saving
  <2>2. Entered("shadowTtl", s)'
    BY <1>1, <1>6, <2>1 DEF Entered, InBucket
  <2>3. \A x \in shadow' : shadowTtl'[x] # NoTtl =>
           x = id \/ RewatchedElsewhere(t, x) \/ Watched(x)'
    BY <1>1, <1>5, <2>1, WatchedStays
  <2> QED
    BY <1>6, <1>d, <2>1, <2>2, <2>3
<1>10. CASE ExtendShadow(t)
  <2>1. PICK ttl : ttl = IF s.max < 0 THEN NoTtl ELSE now + s.max
    OBVIOUS
  <2>2. /\ SetShadowTtl(id, ttl) /\ UNCHANGED <<shadow, bucket, bucketTtl>>
        /\ Goto(t, "hashTtl", s) /\ pc[t] = "shadowTtl"
    BY <1>10, <1>a, <1>b, <2>1 DEF ExtendShadow, Saving
  <2>3. s.max # 0 /\ id \in shadow
    BY <1>2, <1>b, <2>2 DEF MayHold
  <2>4. shadowTtl' = [shadowTtl EXCEPT ![id] = ttl]
    BY <2>2, <2>3 DEF SetShadowTtl
  <2>5. shadowTtl'[id] = ttl /\ \A x \in Ids \ {id} : shadowTtl'[x] = shadowTtl[x]
    BY <1>2, <2>4 DEF TypeInv, TypeOK, RedisTypeOK
  <2>6. ttl # NoTtl => Watched(id)'
    <3>1. ASSUME ttl # NoTtl
          PROVE  InBucket(id, ttl)
      BY <1>4, <1>6, <1>b, <2>1, <2>2, <2>3, <3>1 DEF Entered
    <3> QED
      BY <1>1, <2>2, <2>5, <3>1 DEF Watched, InBucket
  <2>7. \A x \in shadow' : shadowTtl'[x] # NoTtl =>
           RewatchedElsewhere(t, x) \/ Watched(x)'
    <3>1. ASSUME NEW x \in shadow', x # id, shadowTtl'[x] # NoTtl
          PROVE  RewatchedElsewhere(t, x) \/ Watched(x)'
      <4>1. x \in shadow /\ shadowTtl'[x] = shadowTtl[x]
        BY <1>4, <2>2, <2>5, <3>1
      <4> QED
        BY <1>1, <1>5, <2>2, <3>1, <4>1, WatchedStays
    <3> QED
      BY <2>5, <2>6, <3>1
  <2>8. Entered("hashTtl", s)'
    BY DEF Entered
  <2> QED
    BY <1>1, <1>3, <1>6, <2>2, <2>7, <2>8, WatchMove
<1> QED
  BY <1>7, <1>8, <1>9, <1>10, <1>a

\* A step of the environment in no time keeps the invariant if it keeps the cleanup
\* in order and takes nothing out of buckets that are not read yet.
LEMMA WatchElsewhere ==
    ASSUME TypeInv, WatchInv, UNCHANGED <<now, pc, session, caller>>, CronInv',
           bucketTtl' \subseteq bucketTtl,
           \A x \in Ids, d \in Int : d > now /\ InBucket(x, d) => InBucket(x, d)',
           \A x \in shadow' : shadowTtl'[x] # NoTtl =>
              /\ x \in shadow /\ shadowTtl'[x] = shadowTtl[x]
              /\ Watched(x) => Watched(x)'
    PROVE  WatchInv'
<1>1. ASSUME NEW t \in Threads
      PROVE  Entered(pc[t], session[t])'
  <2>1. PICK s : s = session[t]
    OBVIOUS
  <2>2. ASSUME pc[t] \in {"append", "shadowTtl"}, s.max > 0
        PROVE  InBucket(s.id, now + s.max)'
    <3>1. s \in RedisSession /\ s.id \in Ids
      BY <2>1, <2>2, BusyType
    <3>2. s.max \in Int /\ now \in Nat
      BY <3>1, ConstantsAssumption DEF RedisSession, TypeInv, TypeOK, RedisTypeOK
    <3>3. InBucket(s.id, now + s.max)
      BY <2>1, <2>2 DEF WatchInv, Entered
    <3>4. PICK d \in Int : d = now + s.max
      BY <3>2
    <3>5. InBucket(s.id, d)'
      BY <2>2, <3>1, <3>2, <3>3, <3>4
    <3> QED
      BY <3>4, <3>5 DEF InBucket
  <2>3. Entered(pc[t], s)'
    BY <2>2 DEF Entered
  <2> QED
    BY <2>1, <2>3 DEF Entered, InBucket
<1>2. \A x \in shadow' : shadowTtl'[x] # NoTtl =>
         \/ Watched(x)'
         \/ \E t \in Threads : session'[t].id = x /\ Rewatching(pc'[t])
  BY DEF WatchInv
<1> QED
  BY <1>1, <1>2 DEF WatchInv, Rewatching

\* A bucket that is to be read is not over: it lives longer than its minute.
LEMMA BucketAlive ==
    ASSUME TypeInv, WatchInv, NEW x \in Ids, NEW d \in Int, InBucket(x, d)
    PROVE  /\ now <= roundUpToNextMinute(d)
           /\ BucketReady(roundUpToNextMinute(d))
<1>1. PICK m \in Int : m = roundUpToNextMinute(d)
  BY Rounding
<1>2. /\ cronAt = roundDownMinute(cronAt) /\ cronAt \in Int /\ now \in Nat
      /\ now <= cronAt + Minute /\ cronAt < m
  BY <1>1 DEF WatchInv, CronInv, TypeInv, TypeOK, RedisTypeOK, InBucket
<1>3. cronAt + Minute <= m
  BY <1>1, <1>2, WholeMinutes
<1>4. now <= m
  BY <1>2, <1>3, ConstantsAssumption
<1>5. \A p \in bucketTtl : p[1] = m => p[2] > now
  BY <1>1, <1>2, <1>4 DEF WatchInv, TypeInv, TypeOK, RedisTypeOK
<1> QED
  BY <1>1, <1>2, <1>4, <1>5 DEF BucketReady, Due, TypeInv, TypeOK, RedisTypeOK

\* The cleanup
LEMMA WatchClean ==
    ASSUME TypeInv, WatchInv, Clean
    PROVE  WatchInv'
<1> USE DEF redisVars, threadVars
<1>0. /\ cronAt \in Int /\ now \in Nat /\ shadow \subseteq Ids
      /\ shadowTtl \in [Ids -> Nat \cup {NoTtl}] /\ Minute \in Nat /\ Minute > 0
      /\ \A x \in Ids : shadowTtl[x] \in Int
  <2>1. \A n \in Nat \cup {NoTtl} : n \in Int
    BY DEF NoTtl
  <2>2. Minute \in Nat /\ Minute > 0
    BY ConstantsAssumption
  <2> QED
    BY <2>1, <2>2 DEF TypeInv, TypeOK, RedisTypeOK
<1>1. /\ cronAt = roundDownMinute(cronAt) /\ cronAt <= now /\ now <= cronAt + Minute
      /\ cronPc # "idle" => now = cronAt
  BY DEF WatchInv, CronInv
<1>2. CASE CleanRead
  <2>1. /\ cronPc = "idle" /\ cronPc' = "del" /\ cronAt' = roundDownMinute(now)
        /\ cronIds' = {id \in Ids : <<cronAt', id>> \in bucket}
        /\ roundDownMinute(now) > cronAt
        /\ UNCHANGED <<now, bucket, bucketTtl, shadow, shadowTtl, pc, session, caller>>
    BY <1>2 DEF CleanRead, CronDue
  <2>2. now = cronAt + Minute /\ roundDownMinute(now) = now
    <3>1. cronAt + Minute <= roundDownMinute(now)
      BY <1>0, <1>1, <2>1, WholeMinutes
    <3>2. roundDownMinute(now) <= now /\ roundDownMinute(now) \in Int
      BY <1>0, Rounding
    <3> QED
      BY <1>0, <1>1, <3>1, <3>2
  <2>3. CronInv'
    <3>1. cronAt' = now /\ now' = now
      BY <2>1, <2>2
    <3>2. roundDownMinute(cronAt)' = cronAt'
      BY <2>2, <3>1 DEF roundDownMinute
    <3> QED
      BY <1>0, <3>1, <3>2 DEF CronInv
  <2>4. ASSUME NEW x \in Ids, NEW d \in Int, InBucket(x, d)
        PROVE  \/ InBucket(x, d)'
               \/ cronAt' = roundUpToNextMinute(d) /\ x \in cronIds' /\ d <= now
    <3>1. PICK m \in Int : m = roundUpToNextMinute(d) /\ d < m
      BY Rounding
    <3>2. now <= m /\ <<m, x>> \in bucket
      BY <2>4, <3>1, BucketAlive DEF InBucket
    <3>3. CASE now < m
      BY <2>1, <2>2, <3>1, <3>2, <3>3 DEF InBucket
    <3>4. CASE now = m
      BY <1>0, <2>1, <2>2, <3>1, <3>2, <3>4
    <3> QED
      BY <1>0, <3>2, <3>3, <3>4
  <2>5. \A x \in Ids, d \in Int : d > now /\ InBucket(x, d) => InBucket(x, d)'
    BY <1>0, <2>4
  <2>6. ASSUME NEW x \in shadow, Watched(x)
        PROVE  Watched(x)'
    <3>1. x \in Ids /\ InBucket(x, shadowTtl[x])
      BY <1>0, <2>1, <2>6 DEF Watched
    <3>2. PICK d \in Int : d = shadowTtl[x]
      BY <1>0, <3>1
    <3>3. InBucket(x, d)' \/ (cronAt' = roundUpToNextMinute(d) /\ x \in cronIds')
      BY <2>4, <3>1, <3>2
    <3>4. shadowTtl'[x] = d
      BY <2>1, <3>2
    <3> QED
      BY <2>1, <3>3, <3>4 DEF Watched, InBucket
  <2> QED
    BY <2>1, <2>3, <2>5, <2>6, WatchElsewhere
<1>3. CASE CleanDelete
  <2>1. /\ cronPc = "del" /\ cronPc' = IF cronIds = {} THEN "idle" ELSE "touch"
        /\ bucket' = {p \in bucket : p[1] # cronAt} /\ bucketTtl' \subseteq bucketTtl
        /\ UNCHANGED <<now, cronAt, cronIds, shadow, shadowTtl, pc, session, caller>>
    BY <1>3 DEF CleanDelete, DelBucket
  <2>2. CronInv'
    BY <1>1, <2>1 DEF CronInv, roundDownMinute
  <2>3. ASSUME NEW x \in Ids, NEW d \in Int, InBucket(x, d)
        PROVE  InBucket(x, d)'
    <3>1. PICK m \in Int : m = roundUpToNextMinute(d)
      BY Rounding
    <3>2. cronAt < m /\ <<m, x>> \in bucket
      BY <2>3, <3>1 DEF InBucket
    <3>3. <<m, x>> \in bucket'
      BY <1>0, <2>1, <3>2
    <3> QED
      BY <2>1, <3>1, <3>2, <3>3 DEF InBucket
  <2>4. ASSUME NEW x \in shadow, Watched(x)
        PROVE  Watched(x)'
    <3>1. PICK d \in Int : d = shadowTtl[x] /\ d = shadowTtl'[x]
      BY <1>0, <2>1
    <3>2. InBucket(x, d) => InBucket(x, d)'
      BY <1>0, <2>3
    <3>3. x \in cronIds => cronPc' # "idle"
      BY <2>1
    <3> QED
      BY <2>1, <2>4, <3>1, <3>2, <3>3 DEF Watched, InBucket
  <2> QED
    BY <2>1, <2>2, <2>3, <2>4, WatchElsewhere
<1>4. ASSUME NEW id \in Ids, CleanTouch(id)
      PROVE  WatchInv'
  <2>1. /\ cronPc = "touch" /\ id \in cronIds /\ ShadowReady(id)
        /\ cronIds' = cronIds \ {id}
        /\ cronPc' = IF cronIds' = {} THEN "idle" ELSE "touch"
        /\ UNCHANGED <<now, cronAt, bucket, bucketTtl, shadow, shadowTtl, pc, session,
                       caller>>
    BY <1>4 DEF CleanTouch
  <2>2. CronInv'
    BY <1>1, <2>1 DEF CronInv, roundDownMinute
  <2>3. \A x, d : InBucket(x, d) => InBucket(x, d)'
    BY <2>1 DEF InBucket
  <2>4. ASSUME NEW x \in shadow, shadowTtl[x] # NoTtl, Watched(x)
        PROVE  Watched(x)'
    <3>1. CASE InBucket(x, shadowTtl[x])
      BY <2>1, <3>1 DEF Watched, InBucket
    <3>2. CASE cronAt = roundUpToNextMinute(shadowTtl[x]) /\ x \in cronIds
      <4>1. shadowTtl[x] < cronAt
        BY <1>0, <3>2, Rounding
      <4>2. x # id
        BY <1>0, <1>1, <2>1, <2>4, <4>1 DEF ShadowReady, Due
      <4>3. x \in cronIds' /\ cronPc' # "idle"
        BY <2>1, <3>2, <4>2
      <4>4. cronAt' = roundUpToNextMinute(shadowTtl'[x])
        BY <2>1, <3>2
      <4> QED
        BY <4>3, <4>4 DEF Watched
    <3> QED
      BY <2>4, <3>1, <3>2 DEF Watched
  <2> QED
    BY <2>1, <2>2, <2>3, <2>4, WatchElsewhere
<1> QED
  BY <1>2, <1>3, <1>4 DEF Clean

\* Messages, the expiry of keys, and the clock
LEMMA WatchOthers ==
    ASSUME TypeInv, InstantInv, WatchInv, Punctual,
           Listen \/ Expire \/ Tick \/ UNCHANGED vars
    PROVE  WatchInv'
<1> USE DEF redisVars, threadVars, cronVars
<1>0. /\ now \in Nat /\ shadow \subseteq Ids /\ cronAt \in Int
      /\ shadowTtl \in [Ids -> Nat \cup {NoTtl}]
      /\ \A x \in Ids : shadowTtl[x] \in Int
  <2>1. \A n \in Nat \cup {NoTtl} : n \in Int
    BY DEF NoTtl
  <2> QED
    BY <2>1 DEF TypeInv, TypeOK, RedisTypeOK
<1>1. ASSUME UNCHANGED <<now, pc, session, caller, cronPc, cronAt, cronIds, bucket>>,
             bucketTtl' \subseteq bucketTtl,
             \A x \in shadow' : shadowTtl'[x] # NoTtl =>
                x \in shadow /\ shadowTtl'[x] = shadowTtl[x]
      PROVE  WatchInv'
  <2>1. CronInv'
    BY <1>1 DEF WatchInv, CronInv, roundDownMinute
  <2>2. \A x, d : InBucket(x, d) => InBucket(x, d)'
    BY <1>1 DEF InBucket
  <2>3. \A x \in shadow' : shadowTtl'[x] # NoTtl => (Watched(x) => Watched(x)')
    BY <1>1, WatchedStays
  <2> QED
    BY <1>1, <2>1, <2>2, <2>3, WatchElsewhere
<1>2. CASE Listen
  BY <1>1, <1>2 DEF Listen, Receive, CleanIndexAndPublish, Lose
<1>3. CASE UNCHANGED vars
  BY <1>1, <1>3 DEF vars
<1>4. ASSUME NEW id \in Ids, ExpireHash(id) \/ ExpireShadow(id),
             UNCHANGED <<threadVars, cronVars>>
      PROVE  WatchInv'
  BY <1>0, <1>1, <1>4 DEF ExpireHash, ExpireShadow
<1>5. ASSUME NEW e \in bucketTtl, ExpireBucket(e[1]), UNCHANGED <<threadVars, cronVars>>
      PROVE  WatchInv'
  <2>1. PICK m : m = e[1]
    OBVIOUS
  <2>2. /\ ~BucketReady(m) /\ bucket' = {p \in bucket : p[1] # m}
        /\ bucketTtl' \subseteq bucketTtl
        /\ UNCHANGED <<now, pc, session, caller, cronPc, cronAt, cronIds, shadow,
                       shadowTtl>>
    BY <1>5, <2>1 DEF ExpireBucket
  <2>3. CronInv'
    BY <2>2 DEF WatchInv, CronInv, roundDownMinute
  <2>4. ASSUME NEW x \in Ids, NEW d \in Int, InBucket(x, d)
        PROVE  InBucket(x, d)'
    <3>1. PICK k : k = roundUpToNextMinute(d)
      OBVIOUS
    <3>2. k # m
      BY <2>2, <2>4, <3>1, BucketAlive
    <3>3. <<k, x>> \in bucket'
      BY <2>2, <2>4, <3>1, <3>2 DEF InBucket
    <3> QED
      BY <2>2, <2>4, <3>1, <3>3 DEF InBucket
  <2>5. ASSUME NEW x \in shadow, Watched(x)
        PROVE  Watched(x)'
    <3>1. PICK d \in Int : d = shadowTtl[x] /\ d = shadowTtl'[x]
      BY <1>0, <2>2
    <3>2. InBucket(x, d) => InBucket(x, d)'
      BY <1>0, <2>4
    <3> QED
      BY <2>2, <2>5, <3>1, <3>2 DEF Watched, InBucket
  <2> QED
    BY <2>2, <2>3, <2>4, <2>5, WatchElsewhere
<1>6. CASE Expire
  BY <1>4, <1>5, <1>6 DEF Expire
<1>7. CASE Tick
  <2>1. /\ now' = now + 1 /\ ~CronDue /\ cronPc = "idle"
        /\ UNCHANGED <<pc, session, caller, cronPc, cronAt, cronIds, bucket, bucketTtl,
                       shadow, shadowTtl>>
    BY <1>7 DEF Tick, Punctual
  <2>2. \A t \in Threads : pc[t] = "idle"
    BY <1>0, <1>7 DEF Tick, InstantInv, Punctual, Instant
  <2>3. CronInv'
    <3>1. roundDownMinute(now) <= cronAt
      BY <1>0, <2>1, Rounding DEF CronDue, Punctual
    <3>2. now < roundUpToNextMinute(now) /\ roundDownMinute(now) \in Int
          /\ roundUpToNextMinute(now) = roundDownMinute(now) + Minute
          /\ Minute \in Nat
      BY <1>0, Rounding, ConstantsAssumption DEF roundUpToNextMinute
    <3>3. now + 1 <= cronAt + Minute
      BY <1>0, <3>1, <3>2
    <3> QED
      BY <1>0, <2>1, <3>3 DEF WatchInv, CronInv, roundDownMinute
  <2>4. \A t \in Threads : Entered(pc[t], session[t])'
    BY <2>1, <2>2 DEF Entered
  <2>5. \A x \in shadow' : shadowTtl'[x] # NoTtl => Watched(x)'
    BY <2>1, <2>2 DEF WatchInv, Rewatching, Watched, InBucket
  <2> QED
    BY <2>1, <2>2, <2>3, <2>4, <2>5 DEF WatchInv
<1> QED
  BY <1>2, <1>3, <1>6, <1>7

\* Every step keeps the invariant.
LEMMA WatchNext ==
    ASSUME Punctual, TypeInv, InstantInv, WatchInv, Alone, [Next]_vars
    PROVE  WatchInv'
<1>1. ASSUME NEW t \in Threads, Command(t) \/ EndRequest(t) \/ Crash(t)
      PROVE  WatchInv'
  <2>1. Instant /\ ~Crash(t)
    BY DEF Crash, Punctual, Instant, TypeInv, TypeOK
  <2>2. ~Rename(t)
    BY DEF Rename, Saving, InstantInv, MayHold
  <2> QED
    BY <1>1, <2>1, <2>2, WatchCommand, WatchDelShadow, WatchSwitch DEF Command
<1> QED
  BY <1>1, WatchCall, WatchClean, WatchOthers DEF Next

\* Even if Redis deletes no key by itself, no shadow key stays for more than a minute
\* after its deadline: while a session lives its name is in the bucket of the minute
\* that follows the deadline, whatever saves moved it there, and that bucket neither
\* expires nor is cleaned before the cleanup of that minute touches the key.
THEOREM ExpiryIsTimely == Punctual => (Spec /\ []Alone => []TimelyExpiry)
<1>1. ASSUME TypeInv, InstantInv, WatchInv
      PROVE  TimelyExpiry
  <2>1. ASSUME NEW id \in shadow, shadowTtl[id] # NoTtl
        PROVE  now <= shadowTtl[id] + Minute
    <3>1. PICK d \in Nat : d = shadowTtl[id]
      BY <1>1, <2>1 DEF TypeInv, TypeOK, RedisTypeOK
    <3>2. id \in Ids /\ now \in Nat /\ Minute \in Nat
      BY <1>1, <2>1, ConstantsAssumption DEF TypeInv, TypeOK, RedisTypeOK
    <3>3. PICK m \in Int : m = roundUpToNextMinute(d) /\ m <= d + Minute
      BY <3>1, Rounding
    <3>4. CASE InBucket(id, d)
      BY <1>1, <3>1, <3>2, <3>3, <3>4, BucketAlive
    <3>5. CASE cronAt = m /\ cronPc # "idle"
      BY <1>1, <3>1, <3>2, <3>3, <3>5 DEF WatchInv, CronInv
    <3>6. ASSUME NEW t \in Threads, session[t].id = id, Rewatching(pc[t])
          PROVE  now <= d + Minute
      <4>1. MayHold(pc[t], session[t], caller[t])
        BY <1>1, <3>6 DEF InstantInv, Rewatching
      <4>2. ShadowReady(id)
        BY <2>1, <3>6, <4>1 DEF MayHold, Rewatching, DeleteStep
      <4> QED
        BY <2>1, <3>1, <3>2, <4>2 DEF ShadowReady, Due
    <3> QED
      BY <1>1, <2>1, <3>1, <3>3, <3>4, <3>5, <3>6 DEF WatchInv, Watched
  <2> QED
    BY <2>1 DEF TimelyExpiry
<1>2. Init => TypeInv /\ InstantInv /\ WatchInv
  BY TypeInit, InstantInit, WatchInit
<1>3. ASSUME Punctual
      PROVE  TypeInv /\ InstantInv /\ WatchInv /\ Alone /\ Alone' /\ [Next]_vars
             => (TypeInv /\ InstantInv /\ WatchInv)'
  BY <1>3, InstantNext, WatchNext, TypeNext DEF Punctual
<1>4. ASSUME Punctual
      PROVE  Spec /\ []Alone => []TimelyExpiry
  BY <1>1, <1>2, <1>3, <1>4, PTL DEF Spec
<1> QED
  BY <1>4

-----------------------------------------------------------------------------
(* The index is exact. *)

LEMMA IndexInit == Init => IndexInv
  BY DEF Init, RedisInit, IndexInv, Doomed, Sent, Settled

\* Redis says the same of id and principals.
LEMMA SettledStays ==
    ASSUME NEW id \in Ids, hash'[id].principal = hash[id].principal,
           id \in shadow' <=> id \in shadow, HashReady(id) => HashReady(id)',
           \A p \in Principals : id \in index'[p] <=> id \in index[p],
           \A p \in Principals : Pending(id, p) => Pending(id, p)'
    PROVE  Settled(id) => Settled(id)'
  BY DEF Settled

\* What a thread holds it holds while Redis and the listeners leave it alone.
LEMMA HeldStays ==
    ASSUME NEW step, NEW s, NEW by, HeldIndex(step, s, by),
           hash'[s.id].principal = hash[s.id].principal,
           Settled(s.id) => Settled(s.id)',
           \A p \in Principals : s.id \in index'[p] => s.id \in index[p],
           by # "delete" /\ step \notin DeleteStep =>
              /\ ~Doomed(s.id)' /\ (s.id \in shadow => s.id \in shadow')
              /\ \A p \in Principals : s.id \in index[p] => s.id \in index'[p]
    PROVE  HeldIndex(step, s, by)'
<1>1. CASE by = "delete" \/ step = "delShadow"
  BY <1>1 DEF HeldIndex, DeleteStep
<1>2. CASE by # "delete" /\ step = "delIndex"
  BY <1>2 DEF HeldIndex, DeleteStep
<1>3. CASE by # "delete" /\ step \notin DeleteStep
  BY <1>3 DEF HeldIndex, DeleteStep
<1> QED
  BY <1>1, <1>2, <1>3 DEF DeleteStep

\* What the index, the hash and the messages say of id stays as it is.
Unmoved(id) ==
    /\ hash'[id].principal = hash[id].principal
    /\ id \in shadow => id \in shadow'
    /\ \A p \in Principals : id \in index'[p] <=> id \in index[p]
    /\ Doomed(id)' => Doomed(id)
    /\ Settled(id) => Settled(id)'

\* A thread other than t has id.
HeldElsewhere(t, id) == \E u \in Threads \ {t} : pc[u] # "idle" /\ session[u].id = id

\* A step of a thread keeps the invariant if the thread may hold what it then holds,
\* what the others hold is undisturbed and every id that nobody holds is settled.
LEMMA IndexMove ==
    ASSUME TypeInv, IndexInv, NEW t \in Threads, NEW step, NEW s, NEW by,
           Goto(t, step, s), caller' = [caller EXCEPT ![t] = by],
           \A id \in Ids : Doomed(id)' => id \notin shadow' /\ id \in used',
           step # "idle" => HeldIndex(step, s, by)',
           \A u \in Threads \ {t} : pc[u] # "idle" => Unmoved(session[u].id),
           \A id \in Ids : step = "idle" \/ s.id # id
                           => HeldElsewhere(t, id) \/ Settled(id)'
    PROVE  IndexInv'
<1>1. pc'[t] = step /\ session'[t] = s /\ caller'[t] = by
  BY DEF TypeInv, TypeOK, Goto
<1>2. \A u \in Threads \ {t} :
         pc'[u] = pc[u] /\ session'[u] = session[u] /\ caller'[u] = caller[u]
  BY DEF TypeInv, TypeOK, Goto
<1>3. step # "idle" => HeldIndex(pc[t], session[t], caller[t])'
  BY <1>1 DEF HeldIndex, Doomed, Sent, Settled, HashReady, Pending
<1>4. ASSUME NEW u \in Threads \ {t}, pc[u] # "idle"
      PROVE  HeldIndex(pc[u], session[u], caller[u])'
  <2>1. PICK n : n = session[u]
    OBVIOUS
  <2>2. PICK at, from : at = pc[u] /\ from = caller[u]
    OBVIOUS
  <2>3. HeldIndex(at, n, from)
    BY <1>4, <2>1, <2>2 DEF IndexInv
  <2>4. PICK id : id = n.id
    OBVIOUS
  <2>5. Unmoved(id)
    BY <1>4, <2>1, <2>4
  <2>6. from # "delete" /\ at \notin DeleteStep => ~Doomed(id)
    BY <2>3, <2>4 DEF HeldIndex
  <2>7. HeldIndex(at, n, from)'
    BY <2>3, <2>4, <2>5, <2>6, HeldStays DEF Unmoved
  <2>8. pc'[u] = at /\ session'[u] = n /\ caller'[u] = from
    BY <1>2, <2>1, <2>2
  <2> QED
    BY <2>7, <2>8 DEF HeldIndex, Settled, Doomed, Sent, Pending, HashReady
<1>5. \A u \in Threads : pc'[u] # "idle" => HeldIndex(pc[u], session[u], caller[u])'
  BY <1>1, <1>2, <1>3, <1>4
<1>6. \A id \in Ids : (\A u \in Threads : pc'[u] # "idle" => session'[u].id # id)
                      => Settled(id)'
  BY <1>1, <1>2 DEF HeldElsewhere
<1> QED
  BY <1>5, <1>6 DEF IndexInv

\* A step that sends no destroyed message and touches neither index nor hash
LEMMA IndexStill ==
    ASSUME TypeInv, IndexInv, NEW t \in Threads, NEW step, NEW s, NEW by,
           Goto(t, step, s), caller' = [caller EXCEPT ![t] = by],
           UNCHANGED <<now, hash, hashTtl, shadow, index, handling>>,
           used \subseteq used',
           \A m : m.type # "created" => (m \in inbox' <=> m \in inbox),
           step # "idle" => HeldIndex(step, s, by),
           \/ pc[t] = "idle"
           \/ step # "idle" /\ s.id = session[t].id
           \/ step = "idle" /\ Settled(session[t].id)
    PROVE  IndexInv'
<1>1. \A id : Sent(id)' = Sent(id)
  BY DEF Sent
<1>2. \A id : Doomed(id)' = Doomed(id)
  BY <1>1 DEF Doomed
<1>3. \A id, p : Pending(id, p)' = Pending(id, p)
  BY <1>1 DEF Pending
<1>4. \A id : HashReady(id)' = HashReady(id)
  BY DEF HashReady, Due
<1>5. \A id : Settled(id)' = Settled(id)
  BY <1>3, <1>4 DEF Settled
<1>6. step # "idle" => HeldIndex(step, s, by)'
  BY <1>2, <1>5 DEF HeldIndex
<1>7. \A id \in Ids : step = "idle" \/ s.id # id => HeldElsewhere(t, id) \/ Settled(id)
  BY DEF IndexInv, HeldElsewhere
<1>8. \A id : Unmoved(id)
  BY <1>2, <1>5 DEF Unmoved
<1>9. \A id \in Ids : Doomed(id)' => id \notin shadow' /\ id \in used'
  BY <1>2 DEF IndexInv
<1>10. \A id \in Ids : step = "idle" \/ s.id # id
                       => HeldElsewhere(t, id) \/ Settled(id)'
  BY <1>5, <1>7
<1> QED
  BY <1>6, <1>8, <1>9, <1>10, IndexMove

\* A step that touches what Redis has of the thread's session
LEMMA IndexKeyed ==
    ASSUME TypeInv, InstantInv, IndexInv, Alone, NEW t \in Threads, NEW step, NEW s,
           NEW by, Goto(t, step, s), caller' = [caller EXCEPT ![t] = by],
           UNCHANGED <<now, used, handling>>, NEW id \in Ids, s.id = id,
           pc[t] # "idle", session[t].id = id, step # "idle", HeldIndex(step, s, by)',
           \A x \in Ids \ {id} :
              Untouched(x) /\ \A p \in Principals : x \in index'[p] <=> x \in index[p],
           \A m : m.id # id => (m \in inbox' <=> m \in inbox),
           Doomed(id)' => id \notin shadow'
    PROVE  IndexInv'
<1>1. ASSUME NEW x \in Ids, x # id
      PROVE  /\ Unmoved(x)
             /\ HeldElsewhere(t, x) \/ Settled(x)'
             /\ Doomed(x)' => x \notin shadow' /\ x \in used
  <2>1. Sent(x)' = Sent(x)
    BY <1>1 DEF Sent
  <2>2. Doomed(x)' = Doomed(x) /\ \A p : Pending(x, p)' = Pending(x, p)
    BY <2>1 DEF Doomed, Pending
  <2>3. Untouched(x)
    BY <1>1
  <2>4. HeldElsewhere(t, x) \/ Settled(x)
    BY <1>1 DEF IndexInv, HeldElsewhere
  <2>5. HashReady(x) => HashReady(x)'
    BY <2>3 DEF HashReady, Due, Untouched
  <2>6. Settled(x) => Settled(x)'
    BY <1>1, <2>2, <2>3, <2>5, SettledStays DEF Untouched
  <2>7. Unmoved(x)
    BY <1>1, <2>2, <2>3, <2>6 DEF Unmoved, Untouched
  <2>8. Doomed(x)' => x \notin shadow' /\ x \in used
    BY <1>1, <2>2, <2>3 DEF Untouched, IndexInv
  <2> QED
    BY <2>4, <2>6, <2>7, <2>8
<1>2. id \in used
  BY DEF InstantInv
<1>3. ASSUME NEW u \in Threads \ {t}, pc[u] # "idle"
      PROVE  Unmoved(session[u].id)
  BY <1>1, <1>3, BusyType, NotTheirs
<1>4. \A x \in Ids : Doomed(x)' => x \notin shadow' /\ x \in used'
  BY <1>1, <1>2
<1> QED
  BY <1>1, <1>3, <1>4, IndexMove

\* What a thread holds
LEMMA IndexHeld ==
    ASSUME TypeInv, InstantInv, IndexInv, NEW t \in Threads, pc[t] # "idle", NEW s,
           s = session[t], NEW by, by = caller[t]
    PROVE  /\ s \in RedisSession /\ s.id \in Ids /\ s.id \in used /\ Keyed(s.id)
           /\ MayHold(pc[t], s, by) /\ HeldIndex(pc[t], s, by)
           /\ caller = [caller EXCEPT ![t] = by]
           /\ pc[t] \in {"edit"} \cup DeleteStep => by = "save"
  BY InstantHeld DEF IndexInv, TypeInv, TypeOK

\* An id that no other request has is settled.
LEMMA IdleSettled ==
    ASSUME IndexInv, NEW t \in Threads, pc[t] = "idle", NEW id \in Ids,
           \A u \in Threads \ {t} : pc[u] # "idle" => session[u].id # id
    PROVE  Settled(id)
  BY DEF IndexInv

\* A hash that is not there has no principal.
LEMMA NobodysHash ==
    ASSUME NEW id, Keyed(id), ~Exists(id)
    PROVE  hash[id].principal = NoPrincipal
  BY DEF Keyed, NoHash

\* The calls that load a session
LEMMA IndexLoad ==
    ASSUME TypeInv, InstantInv, IndexInv, Indexing, Alone', NEW t \in Threads, NEW id \in Ids,
           deleteById(t, id) \/ \E touch \in Touching : findById(t, id, touch)
    PROVE  IndexInv'
<1> USE DEF redisVars, listenerVars
<1>1. /\ pc[t] = "idle" /\ caller[t] = "save" /\ Exists(id)
      /\ UNCHANGED <<now, hash, hashTtl, shadow, index, inbox, handling, used>>
  BY DEF deleteById, findById, Begin, InstantInv, Found
<1>2. Settled(id) /\ KeptHash(id) /\ Keyed(id)
  <2>1. \A u \in Threads \ {t} : pc[u] # "idle" => session[u].id # id
    BY LoadAlone, RepositoryAssumption
  <2> QED
    BY <1>1, <2>1, IdleSettled, ShutKept DEF InstantInv, KeyInv, Keyed
<1>3. PICK l \in RedisSession :
         /\ l = loadSession(id) /\ l.id = id /\ l.originalId = id /\ l.delta = {}
         /\ l.max = hash[id].max /\ l.principal = hash[id].principal
         /\ l.originalPrincipal = hash[id].principal
  BY LoadType DEF TypeInv, loadSession
<1>4. CASE deleteById(t, id)
  <2>1. Goto(t, "delIndex", l) /\ caller' = [caller EXCEPT ![t] = "save"]
    BY <1>1, <1>3, <1>4 DEF deleteById, TypeInv, TypeOK
  <2>2. HeldIndex("delIndex", l, "save")
    BY <1>2, <1>3 DEF HeldIndex, DeleteStep
  <2> QED
    BY <1>1, <2>1, <2>2, IndexStill
<1>5. ASSUME NEW touch \in Touching, findById(t, id, touch)
      PROVE  IndexInv'
  <2>1. touch = TRUE /\ Found(id)
    BY <1>5 DEF Indexing, Punctual, findById
  <2>2. id \in shadow /\ l.max # 0
    BY <1>2, <1>3, <2>1, FoundKept
  <2>3. ~Doomed(id)
    BY <2>2 DEF IndexInv
  <2>4. \A p \in Principals : id \in index[p] <=> p = l.originalPrincipal
    BY <1>2, <1>3, <2>2 DEF Settled
  <2>5. PICK n : n = [l EXCEPT !.last = now]
    OBVIOUS
  <2>6. /\ n \in RedisSession /\ n.id = id /\ n.originalId = id /\ n.delta = {}
        /\ n.max = l.max /\ n.principal = l.principal
        /\ n.originalPrincipal = l.originalPrincipal
    BY <1>3, <2>5 DEF RedisSession, TypeInv, TypeOK, RedisTypeOK
  <2>7. putAndFlush(t, n, "last")
    BY <1>3, <1>5, <2>1, <2>5 DEF findById
  <2>8. PICK step \in {"edit", "hmset"}, by \in {"save", "setter"},
             m \in RedisSession :
           /\ Goto(t, step, m) /\ caller' = [caller EXCEPT ![t] = by]
           /\ m.id = id /\ m.max = l.max /\ m.principal = l.principal
           /\ m.originalPrincipal = l.originalPrincipal
    BY <1>1, <2>6, <2>7, PutGoes DEF Field
  <2>9. HeldIndex(step, m, by)
    BY <1>3, <2>2, <2>3, <2>4, <2>8 DEF HeldIndex, DeleteStep
  <2> QED
    BY <1>1, <2>8, <2>9, IndexStill
<1> QED
  BY <1>4, <1>5

\* A new session is in no index.
LEMMA IndexCreate ==
    ASSUME TypeInv, InstantInv, IndexInv, Indexing, NEW t \in Threads, NEW id \in Ids,
           createSession(t, id)
    PROVE  IndexInv'
<1> USE DEF redisVars, listenerVars
<1>1. /\ pc[t] = "idle" /\ caller[t] = "save" /\ id \notin used
      /\ UNCHANGED <<now, hash, hashTtl, shadow, index, inbox, handling>>
      /\ used' = used \cup {id}
  BY DEF createSession, Begin, InstantInv
<1>2. Settled(id) /\ Keyed(id) /\ ~Exists(id)
  <2>1. \A u \in Threads \ {t} : pc[u] # "idle" => session[u].id # id
    BY <1>1 DEF InstantInv
  <2> QED
    BY <1>1, <2>1, IdleSettled DEF InstantInv, KeyInv, Keyed
<1>3. hash[id].principal = NoPrincipal /\ ~Doomed(id)
      /\ \A p \in Principals : id \notin index[p]
  BY <1>1, <1>2, NobodysHash, ConstantsAssumption DEF Settled, IndexInv
<1>4. PICK n \in RedisSession :
         /\ n = newSession(id) /\ n.id = id /\ n.originalId = id
         /\ n.max = DefaultInterval /\ n.principal = NoPrincipal
         /\ n.originalPrincipal = NoPrincipal /\ "creation" \in n.delta
  BY NewType DEF TypeInv, newSession
<1>5. putAndFlush(t, n, "last")
  BY <1>4 DEF createSession
<1>6. PICK step \in {"edit", "hmset"}, by \in {"save", "setter"}, m \in RedisSession :
         /\ Goto(t, step, m) /\ caller' = [caller EXCEPT ![t] = by]
         /\ m.id = id /\ m.max = DefaultInterval /\ m.principal = NoPrincipal
         /\ m.originalPrincipal = NoPrincipal /\ "creation" \in m.delta
  BY <1>1, <1>4, <1>5, PutGoes DEF Field
<1>7. DefaultInterval # 0 /\ NoPrincipal \notin Principals
  BY ConstantsAssumption
<1>8. HeldIndex(step, m, by)
  BY <1>3, <1>6, <1>7 DEF HeldIndex, DeleteStep
<1> QED
  BY <1>1, <1>6, <1>8, IndexStill

\* Setting a field and saving
LEMMA IndexEdit ==
    ASSUME TypeInv, InstantInv, IndexInv, Indexing, NEW t \in Threads,
           \/ \E p \in SetPrincipals : setPrincipal(t, p)
           \/ \E max \in SetIntervals : setMaxInactiveInterval(t, max)
           \/ save(t)
    PROVE  IndexInv'
<1> USE DEF redisVars, listenerVars
<1>a. PICK s : s = session[t]
  OBVIOUS
<1>1. /\ pc[t] = "edit" /\ used' = used
      /\ UNCHANGED <<now, hash, hashTtl, shadow, index, inbox, handling>>
  BY DEF setPrincipal, setMaxInactiveInterval, save, Editing
<1>2. /\ s \in RedisSession /\ s.originalId = s.id /\ HeldIndex("edit", s, "save")
      /\ caller[t] = "save"
  BY <1>1, <1>a, IndexHeld DEF MayHold
<1>3. /\ ~Doomed(s.id) /\ s.max # 0
      /\ \A p \in Principals : s.id \in index[p] <=> p = s.originalPrincipal
      /\ s.originalPrincipal = hash[s.id].principal
      /\ "principal" \in s.delta \/ s.principal = hash[s.id].principal
      /\ s.id \in shadow \/ "creation" \in s.delta
  BY <1>2 DEF HeldIndex, DeleteStep
<1>4. ASSUME NEW n \in RedisSession, NEW f \in {"max", "principal"},
             putAndFlush(t, n, f), n.id = s.id, n.originalId = s.id, n.max # 0,
             n.delta = s.delta, n.originalPrincipal = s.originalPrincipal,
             f = "principal" \/ n.principal = s.principal
      PROVE  IndexInv'
  <2>1. PICK step \in {"edit", "hmset"}, by \in {"save", "setter"},
             m \in RedisSession :
           /\ Goto(t, step, m) /\ caller' = [caller EXCEPT ![t] = by]
           /\ m.id = s.id /\ m.max = n.max /\ m.principal = n.principal
           /\ m.originalPrincipal = s.originalPrincipal
           /\ m.delta = s.delta \cup {f}
    BY <1>2, <1>4, PutGoes DEF Field
  <2>2. HeldIndex(step, m, by)
    BY <1>3, <1>4, <2>1 DEF HeldIndex, DeleteStep
  <2> QED
    BY <1>a, <1>1, <2>1, <2>2, IndexStill
<1>5. ASSUME NEW p \in SetPrincipals, setPrincipal(t, p)
      PROVE  IndexInv'
  <2>1. PICK n : n = [s EXCEPT !.principal = p]
    OBVIOUS
  <2>2. /\ n \in RedisSession /\ n.id = s.id /\ n.originalId = s.id /\ n.max = s.max
        /\ n.delta = s.delta /\ n.originalPrincipal = s.originalPrincipal
    BY <1>2, <2>1, RepositoryAssumption DEF RedisSession
  <2>3. putAndFlush(t, n, "principal")
    BY <1>a, <1>5, <2>1 DEF setPrincipal
  <2> QED
    BY <1>3, <1>4, <2>2, <2>3
<1>6. ASSUME NEW max \in SetIntervals, setMaxInactiveInterval(t, max)
      PROVE  IndexInv'
  <2>1. PICK n : n = [s EXCEPT !.max = max]
    OBVIOUS
  <2>2. /\ n \in RedisSession /\ n.id = s.id /\ n.originalId = s.id /\ n.max = max
        /\ n.delta = s.delta /\ n.originalPrincipal = s.originalPrincipal
        /\ n.principal = s.principal
    BY <1>2, <2>1, RepositoryAssumption DEF RedisSession
  <2>3. putAndFlush(t, n, "max") /\ max # 0
    BY <1>a, <1>6, <2>1 DEF setMaxInactiveInterval, Indexing
  <2> QED
    BY <1>4, <2>2, <2>3
<1>7. CASE save(t)
  <2>1. PICK step \in {"return", "hmset"} :
           Goto(t, step, s) /\ caller' = [caller EXCEPT ![t] = "save"]
    BY <1>7, <1>a, <1>2 DEF save, saveDelta, afterRename
  <2>2. HeldIndex(step, s, "save")
    BY <1>3, <2>1 DEF HeldIndex, DeleteStep
  <2> QED
    BY <1>a, <1>1, <2>1, <2>2, IndexStill
<1> QED
  BY <1>5, <1>6, <1>7

\* The end of a request and the commands on buckets and shadow deadlines
LEMMA IndexAside ==
    ASSUME TypeInv, InstantInv, IndexInv, NEW t \in Threads,
           \/ EndRequest(t) \/ LeaveOldBucket(t) \/ EnterBucket(t) \/ ExtendShadow(t)
           \/ Return(t)
    PROVE  IndexInv'
<1> USE DEF redisVars, listenerVars
<1>a. PICK s : s = session[t]
  OBVIOUS
<1>b. PICK by : by = caller[t]
  OBVIOUS
<1>1. /\ pc[t] \notin {"idle", "delIndex", "delShadow", "unindex", "index"}
      /\ UNCHANGED <<now, hash, hashTtl, shadow, index, handling, used>>
  BY DEF EndRequest, LeaveOldBucket, EnterBucket, ExtendShadow, Return, Saving
<1>2. \A m : m.type # "created" => (m \in inbox' <=> m \in inbox)
  <2>1. CASE Return(t)
    <3>1. inbox' = inbox \/ inbox' = inbox \cup Publish("created", s.id, s.delta)
      BY <1>a, <2>1 DEF Return
    <3>2. \A m \in Publish("created", s.id, s.delta) : m.type = "created"
      BY DEF Publish
    <3> QED
      BY <3>1, <3>2
  <2>2. CASE ~Return(t)
    BY <2>2 DEF EndRequest, LeaveOldBucket, EnterBucket, ExtendShadow
  <2> QED
    BY <2>1, <2>2
<1>3. /\ s \in RedisSession /\ s.id \in Ids /\ MayHold(pc[t], s, by)
      /\ HeldIndex(pc[t], s, by) /\ caller = [caller EXCEPT ![t] = by] /\ Keyed(s.id)
      /\ pc[t] \in {"edit"} \cup DeleteStep => by = "save"
  BY <1>1, <1>a, <1>b, IndexHeld
<1>4. ASSUME NEW step \in {"bucket", "append", "hashTtl"}, Goto(t, step, s),
             caller' = caller, pc[t] \in {"unbucket", "bucket", "shadowTtl"},
             step = "hashTtl" => pc[t] = "shadowTtl"
      PROVE  IndexInv'
  <2>1. s.delta = {}
    BY <1>3, <1>4 DEF MayHold
  <2>2. by # "delete" => s.id \in shadow \/ step \in {"bucket", "append"}
                         \/ pc[t] # "shadowTtl"
    BY <1>3, <1>4, <2>1 DEF HeldIndex, DeleteStep
  <2>3. HeldIndex(step, s, by)
    BY <1>3, <1>4, <2>1, <2>2 DEF HeldIndex, DeleteStep
  <2> QED
    BY <1>1, <1>2, <1>3, <1>4, <1>a, <2>3, IndexStill
<1>5. CASE LeaveOldBucket(t) \/ EnterBucket(t) \/ ExtendShadow(t)
  BY <1>4, <1>5, <1>a DEF LeaveOldBucket, EnterBucket, ExtendShadow, Saving
<1>6. CASE EndRequest(t)
  <2>1. pc[t] = "edit" /\ by = "save"
    BY <1>3, <1>6 DEF EndRequest, MayHold
  <2>2. /\ \A p \in Principals : s.id \in index[p] <=> p = s.originalPrincipal
        /\ s.originalPrincipal = hash[s.id].principal
        /\ s.id \in shadow \/ "creation" \in s.delta
    BY <1>3, <2>1 DEF HeldIndex, DeleteStep
  <2>3. Settled(s.id)
    <3>1. CASE "creation" \in s.delta
      <4>1. hash[s.id].principal = NoPrincipal
        BY <1>3, <3>1, NobodysHash DEF MayHold
      <4> QED
        BY <2>2, <4>1, ConstantsAssumption DEF Settled
    <3>2. CASE "creation" \notin s.delta
      BY <1>3, <2>2, <3>2 DEF Settled, MayHold
    <3> QED
      BY <3>1, <3>2
  <2> QED
    BY <1>1, <1>2, <1>6, <1>a, <2>3, IndexStill DEF EndRequest, GoIdle
<1>7. CASE Return(t)
  <2>1. pc[t] = "return" /\ s.delta = {}
    BY <1>3, <1>7 DEF Return, MayHold
  <2>2. CASE by = "delete"
    <3>1. Settled(s.id)
      BY <1>3, <2>2 DEF HeldIndex, MayHold, Settled
    <3> QED
      BY <1>1, <1>2, <1>7, <1>a, <1>b, <2>2, <3>1, IndexStill DEF Return, GoIdle
  <2>3. CASE by # "delete"
    <3>1. PICK n : n = [s EXCEPT !.isNew = @ /\ by = "setter"]
      OBVIOUS
    <3>2. /\ n.id = s.id /\ n.max = s.max /\ n.delta = s.delta
          /\ n.principal = s.principal /\ n.originalPrincipal = s.originalPrincipal
      BY <1>3, <3>1 DEF RedisSession
    <3>3. Goto(t, "edit", n) /\ caller' = [caller EXCEPT ![t] = "save"]
      BY <1>7, <1>a, <1>b, <2>3, <3>1 DEF Return
    <3>4. HeldIndex("edit", n, "save")
      BY <1>3, <2>1, <2>3, <3>2 DEF HeldIndex, DeleteStep
    <3> QED
      BY <1>1, <1>2, <1>a, <3>2, <3>3, <3>4, IndexStill
  <2> QED
    BY <2>2, <2>3
<1> QED
  BY <1>5, <1>6, <1>7

\* The commands on the index
LEMMA IndexSwitch ==
    ASSUME TypeInv, InstantInv, IndexInv, Alone, NEW t \in Threads,
           DeleteFromIndex(t) \/ RemoveOldPrincipal(t) \/ AddNewPrincipal(t)
    PROVE  IndexInv'
<1> USE DEF listenerVars
<1>a. PICK s : s = session[t]
  OBVIOUS
<1>b. PICK by : by = caller[t]
  OBVIOUS
<1>c. PICK id : id = s.id
  OBVIOUS
<1>1. /\ pc[t] \in {"delIndex", "unindex", "index"} /\ used' = used /\ caller' = caller
      /\ UNCHANGED <<now, hash, hashTtl, shadow, shadowTtl, inbox, handling>>
  BY DEF DeleteFromIndex, RemoveOldPrincipal, AddNewPrincipal, Saving
<1>2. /\ s \in RedisSession /\ id \in Ids /\ MayHold(pc[t], s, by)
      /\ HeldIndex(pc[t], s, by) /\ caller' = [caller EXCEPT ![t] = by]
      /\ pc[t] \in DeleteStep => by = "save"
  BY <1>1, <1>a, <1>b, <1>c, IndexHeld DEF TypeInv, TypeOK
<1>3. index \in [Principals -> SUBSET Ids] /\ NoPrincipal \notin Principals
  BY ConstantsAssumption DEF TypeInv, TypeOK, RedisTypeOK
<1>4. /\ Sent(id)' = Sent(id) /\ Doomed(id)' = Doomed(id)
      /\ Doomed(id) => id \notin shadow
  BY <1>1, <1>2 DEF Sent, Doomed, IndexInv
<1>5. ASSUME NEW step, step # "idle", NEW n, n.id = id, Goto(t, step, n),
             HeldIndex(step, n, by)',
             \A x \in Ids \ {id}, p \in Principals : x \in index'[p] <=> x \in index[p]
      PROVE  IndexInv'
  <2>1. \A x \in Ids : Untouched(x)
    BY <1>1 DEF Untouched
  <2>2. pc[t] # "idle" /\ session[t].id = id
    BY <1>1, <1>a, <1>c
  <2> QED
    BY <1>1, <1>2, <1>4, <1>5, <2>1, <2>2, IndexKeyed
<1>6. ASSUME NEW q, RemoveFromIndex(q, id)
      PROVE  /\ \A x \in Ids \ {id}, p \in Principals : x \in index'[p] <=> x \in index[p]
             /\ \A p \in Principals : id \in index'[p] <=> id \in index[p] /\ p # q
  BY <1>3, <1>6 DEF RemoveFromIndex
<1>7. CASE DeleteFromIndex(t)
  <2>1. /\ pc[t] = "delIndex" /\ Goto(t, "delShadow", s)
        /\ RemoveFromIndex(s.principal, id)
    BY <1>7, <1>a, <1>c DEF DeleteFromIndex
  <2>2. by = "save" /\ Settled(id) /\ hash[id].principal = s.principal
    BY <1>2, <1>c, <2>1 DEF HeldIndex, DeleteStep
  <2>3. \A p \in Principals : id \notin index'[p]
    BY <1>6, <2>1, <2>2 DEF Settled
  <2>4. HeldIndex("delShadow", s, by)'
    BY <1>c, <2>2, <2>3 DEF HeldIndex, DeleteStep
  <2> QED
    BY <1>5, <1>6, <1>c, <2>1, <2>4
<1>8. ASSUME pc[t] \in {"unindex", "index"}
      PROVE  /\ by # "delete" /\ s.delta = {} /\ ~Doomed(id) /\ s.max # 0
             /\ s.principal = hash[id].principal
             /\ pc[t] = "unindex" \/ s.originalPrincipal = hash[id].principal
             /\ \A p \in Principals : id \in index[p] <=>
                                      p = s.originalPrincipal /\ pc[t] # "index"
  <2>1. by # "delete" /\ pc[t] \notin DeleteStep /\ s.delta = {}
    BY <1>2, <1>8 DEF HeldIndex, MayHold, DeleteStep
  <2> QED
    BY <1>2, <1>8, <1>c, <2>1 DEF HeldIndex
<1>9. CASE RemoveOldPrincipal(t)
  <2>1. PICK n : n = [s EXCEPT !.originalPrincipal = s.principal]
    OBVIOUS
  <2>2. /\ n.id = id /\ n.max = s.max /\ n.delta = s.delta
        /\ n.principal = s.principal /\ n.originalPrincipal = s.principal
    BY <1>2, <1>c, <2>1 DEF RedisSession
  <2>3. /\ pc[t] = "unindex" /\ Goto(t, "index", n)
        /\ RemoveFromIndex(s.originalPrincipal, id)
    BY <1>9, <1>a, <1>c, <2>1 DEF RemoveOldPrincipal, Saving
  <2>4. \A p \in Principals : id \notin index'[p]
    BY <1>6, <1>8, <2>3
  <2>5. HeldIndex("index", n, by)'
    BY <1>1, <1>4, <1>8, <2>2, <2>3, <2>4 DEF HeldIndex, DeleteStep
  <2> QED
    BY <1>5, <1>6, <2>2, <2>3, <2>5
<1>10. CASE AddNewPrincipal(t)
  <2>1. pc[t] = "index" /\ Goto(t, "unbucket", s) /\ AddToIndex(s.principal, id)
    BY <1>10, <1>a, <1>c DEF AddNewPrincipal, Saving
  <2>2. /\ \A x \in Ids \ {id}, p \in Principals : x \in index'[p] <=> x \in index[p]
        /\ \A p \in Principals : id \in index'[p] <=> id \in index[p] \/ p = s.principal
    BY <1>2, <1>3, <2>1 DEF AddToIndex
  <2>3. HeldIndex("unbucket", s, by)'
    BY <1>1, <1>4, <1>8, <1>c, <2>1, <2>2 DEF HeldIndex, DeleteStep
  <2> QED
    BY <1>5, <1>c, <2>1, <2>2, <2>3
<1> QED
  BY <1>7, <1>9, <1>10

\* deleteById takes the shadow key away: its del message is on its way.
LEMMA IndexDeleteShadow ==
    ASSUME TypeInv, InstantInv, IndexInv, Alone, NEW t \in Threads, DeleteShadow(t)
    PROVE  IndexInv'
<1> USE DEF listenerVars
<1>a. PICK s : s = session[t]
  OBVIOUS
<1>b. PICK id : id = s.id
  OBVIOUS
<1>1. /\ pc[t] = "delShadow" /\ DelShadow(id)
      /\ UNCHANGED <<now, hash, hashTtl, index, handling, used>>
  BY <1>a, <1>b DEF DeleteShadow
<1>2. /\ s \in RedisSession /\ id \in Ids /\ MayHold("delShadow", s, "save")
      /\ HeldIndex("delShadow", s, "save")
  BY <1>1, <1>a, <1>b, IndexHeld DEF DeleteStep
<1>3. PICK m : m = [s EXCEPT !.max = 0]
  OBVIOUS
<1>4. PICK n : n = [m EXCEPT !.delta = {"max"}]
  OBVIOUS
<1>5. n.id = id /\ n.originalId = id /\ n.delta = {"max"}
  <2>1. m \in RedisSession /\ m.id = id /\ m.originalId = id
    BY <1>2, <1>3, <1>b, ConstantsAssumption DEF RedisSession, MayHold
  <2> QED
    BY <1>4, <2>1 DEF RedisSession
<1>6. Goto(t, "hmset", n) /\ caller' = [caller EXCEPT ![t] = "delete"]
  <2>1. saveDelta(t, n, "delete")
    BY <1>a, <1>3, <1>4 DEF DeleteShadow
  <2> QED
    BY <1>5, <2>1 DEF saveDelta, afterRename
<1>7. /\ shadow' = shadow \ {id} /\ shadowTtl' = [shadowTtl EXCEPT ![id] = NoTtl]
      /\ inbox' \in {inbox, inbox \cup Publish("del", id, {})}
  BY <1>1 DEF DelShadow
<1>8. \A x \in Ids \ {id} : Untouched(x)
  BY <1>1, <1>7 DEF Untouched, TypeInv, TypeOK, RedisTypeOK
<1>9. \A k : k.id # id => (k \in inbox' <=> k \in inbox)
  BY <1>7 DEF Publish
<1>10. HeldIndex("hmset", n, "delete")'
  BY <1>1, <1>2, <1>5, <1>b DEF HeldIndex, DeleteStep
<1> QED
  BY <1>1, <1>2, <1>5, <1>6, <1>7, <1>8, <1>9, <1>10, <1>a, <1>b, IndexKeyed

\* HMSET writes the principal that the index is to have next.
LEMMA IndexPutAll ==
    ASSUME TypeInv, InstantInv, IndexInv, Alone, NEW t \in Threads, PutAll(t)
    PROVE  IndexInv'
<1> USE DEF listenerVars
<1>a. PICK s : s = session[t]
  OBVIOUS
<1>b. PICK id : id = s.id
  OBVIOUS
<1>c. PICK by : by = caller[t]
  OBVIOUS
<1>1. /\ pc[t] = "hmset" /\ Hmset(id, s, s.delta)
      /\ UNCHANGED <<now, hashTtl, shadow, shadowTtl, index, inbox, handling, used,
                     caller>>
  BY <1>a, <1>b DEF PutAll, Saving
<1>2. /\ s \in RedisSession /\ id \in Ids /\ HeldIndex("hmset", s, by)
      /\ caller' = [caller EXCEPT ![t] = by]
  BY <1>1, <1>a, <1>b, <1>c, IndexHeld
<1>3. PICK n : n = [s EXCEPT !.delta = {}]
  OBVIOUS
<1>4. /\ n.id = id /\ n.max = s.max /\ n.principal = s.principal
      /\ n.originalPrincipal = s.originalPrincipal /\ n.delta = {}
  BY <1>2, <1>3, <1>b DEF RedisSession
<1>5. PICK step : /\ step = IF "principal" \in s.delta THEN "unindex" ELSE "unbucket"
                  /\ Goto(t, step, n)
  BY <1>a, <1>3 DEF PutAll
<1>6. PICK q : q = IF "principal" \in s.delta THEN s.principal ELSE hash[id].principal
  OBVIOUS
<1>7. hash'[id].principal = q /\ \A x \in Ids \ {id} : hash'[x] = hash[x]
  <2>1. PICK h : h = hash[id]
    OBVIOUS
  <2>2. PICK k : k = [fields |-> h.fields \cup s.delta,
                      max |-> IF "max" \in s.delta THEN s.max ELSE h.max,
                      last |-> IF "last" \in s.delta THEN s.last ELSE h.last,
                      principal |-> IF "principal" \in s.delta THEN s.principal
                                                               ELSE h.principal]
    OBVIOUS
  <2>3. k.principal = q
    BY <1>6, <2>1, <2>2
  <2>4. hash' = [hash EXCEPT ![id] = k]
    BY <1>1, <2>1, <2>2 DEF Hmset
  <2> QED
    BY <1>2, <2>3, <2>4 DEF TypeInv, TypeOK, RedisTypeOK
<1>8. \A x \in Ids \ {id} : Untouched(x)
  BY <1>1, <1>7 DEF Untouched
<1>9. Sent(id)' = Sent(id) /\ Doomed(id)' = Doomed(id)
      /\ (Doomed(id) => id \notin shadow)
  BY <1>1, <1>2 DEF Sent, Doomed, IndexInv
<1>10. HeldIndex(step, n, by)'
  BY <1>1, <1>2, <1>4, <1>5, <1>6, <1>7, <1>9, <1>b DEF HeldIndex, DeleteStep
<1> QED
  BY <1>1, <1>2, <1>4, <1>5, <1>8, <1>9, <1>10, <1>a, <1>b, IndexKeyed

\* The shadow key of a save, and the deadline of the hash
LEMMA IndexShadow ==
    ASSUME TypeInv, InstantInv, IndexInv, Alone, NEW t \in Threads,
           WriteShadow(t) \/ ExtendHash(t)
    PROVE  IndexInv'
<1> USE DEF listenerVars
<1>a. PICK s : s = session[t]
  OBVIOUS
<1>b. PICK id : id = s.id
  OBVIOUS
<1>c. PICK by : by = caller[t]
  OBVIOUS
<1>1. /\ pc[t] \in {"append", "hashTtl"}
      /\ UNCHANGED <<now, hash, index, handling, used, caller>>
  BY DEF WriteShadow, ExtendHash, Saving
<1>2. /\ s \in RedisSession /\ id \in Ids /\ HeldIndex(pc[t], s, by)
      /\ MayHold(pc[t], s, by) /\ caller' = [caller EXCEPT ![t] = by]
  BY <1>1, <1>a, <1>b, <1>c, IndexHeld DEF TypeInv, TypeOK
<1>3. /\ by = "delete" => /\ s.max = 0 /\ id \notin shadow /\ "principal" \notin s.delta
                          /\ \A p \in Principals : id \notin index[p]
      /\ s.delta = {}
      /\ by # "delete" =>
            /\ ~Doomed(id) /\ s.max # 0
            /\ \A p \in Principals : id \in index[p] <=> p = s.originalPrincipal
            /\ s.originalPrincipal = hash[id].principal
            /\ s.principal = hash[id].principal
            /\ id \in shadow \/ pc[t] = "append"
  BY <1>1, <1>2, <1>b DEF HeldIndex, MayHold, DeleteStep
<1>4. ASSUME inbox' = inbox
      PROVE  Sent(id)' = Sent(id) /\ Doomed(id)' = Doomed(id)
             /\ (Doomed(id) => id \notin shadow)
  BY <1>1, <1>2, <1>4 DEF Sent, Doomed, IndexInv
<1>5. CASE WriteShadow(t) /\ s.max = 0
  <2>1. DelShadow(id) /\ Goto(t, "hashTtl", s) /\ hashTtl' = hashTtl
    BY <1>5, <1>a, <1>b DEF WriteShadow
  <2>2. /\ shadow' = shadow \ {id} /\ shadowTtl' = [shadowTtl EXCEPT ![id] = NoTtl]
        /\ inbox' = inbox /\ by = "delete"
    BY <1>3, <1>5, <2>1 DEF DelShadow
  <2>3. \A x \in Ids \ {id} : Untouched(x)
    BY <1>1, <2>1, <2>2 DEF Untouched, TypeInv, TypeOK, RedisTypeOK
  <2>4. HeldIndex("hashTtl", s, by)'
    BY <1>1, <1>3, <1>b, <2>2 DEF HeldIndex, DeleteStep
  <2> QED
    BY <1>1, <1>2, <2>1, <2>2, <2>3, <2>4, <1>a, <1>b, IndexKeyed
<1>6. CASE WriteShadow(t) /\ s.max # 0
  <2>1. /\ shadow' = shadow \cup {id} /\ Goto(t, "shadowTtl", s)
        /\ UNCHANGED <<shadowTtl, inbox, hashTtl>>
    BY <1>6, <1>a, <1>b DEF WriteShadow, AppendShadow
  <2>2. \A x \in Ids \ {id} : Untouched(x)
    BY <1>1, <2>1 DEF Untouched
  <2>3. by # "delete" /\ ~Doomed(id)'
    BY <1>3, <1>4, <1>6, <2>1
  <2>4. HeldIndex("shadowTtl", s, by)'
    BY <1>1, <1>3, <1>b, <2>1, <2>3 DEF HeldIndex, DeleteStep
  <2> QED
    BY <1>1, <1>2, <2>1, <2>2, <2>3, <2>4, <1>a, <1>b, IndexKeyed
<1>7. CASE ExtendHash(t)
  <2>1. /\ Goto(t, "return", s) /\ UNCHANGED <<shadow, shadowTtl, inbox>>
        /\ pc[t] = "hashTtl"
        /\ SetHashTtl(id, IF s.max < 0 THEN NoTtl ELSE now + s.max + Grace)
    BY <1>7, <1>a, <1>b DEF ExtendHash, Saving
  <2>2. \A x \in Ids \ {id} : hashTtl'[x] = hashTtl[x]
    BY <2>1 DEF SetHashTtl, TypeInv, TypeOK, RedisTypeOK
  <2>3. \A x \in Ids \ {id} : Untouched(x)
    BY <1>1, <2>1, <2>2 DEF Untouched
  <2>4. HeldIndex("return", s, by)'
    BY <1>1, <1>3, <1>4, <1>b, <2>1 DEF HeldIndex, DeleteStep
  <2> QED
    BY <1>1, <1>2, <1>4, <2>1, <2>3, <2>4, <1>a, <1>b, IndexKeyed
<1> QED
  BY <1>5, <1>6, <1>7

\* A step of the environment in no time keeps the invariant if what Redis and the
\* listeners say of an id still settles it, and dooms nobody's id.
LEMMA IndexElsewhere ==
    ASSUME TypeInv, InstantInv, IndexInv,
           UNCHANGED <<now, pc, session, caller, used>>,
           \A id \in Ids, t \in Threads : pc[t] # "idle" /\ session[t].id = id =>
              hash'[id].principal = hash[id].principal,
           \A id \in Ids : Settled(id) => Settled(id)',
           \A id \in Ids : Doomed(id)' => id \notin shadow' /\ id \in used,
           \A id \in Ids, p \in Principals : id \in index'[p] => id \in index[p],
           \A id \in Ids, t \in Threads :
              /\ pc[t] \notin {"idle"} \cup DeleteStep /\ caller[t] # "delete"
              /\ session[t].id = id
              => /\ ~Doomed(id)' /\ (id \in shadow => id \in shadow')
                 /\ \A p \in Principals : id \in index[p] => id \in index'[p]
    PROVE  IndexInv'
<1>1. ASSUME NEW t \in Threads, pc[t] # "idle"
      PROVE  HeldIndex(pc[t], session[t], caller[t])'
  <2>1. PICK s : s = session[t]
    OBVIOUS
  <2>2. PICK step, by : step = pc[t] /\ by = caller[t]
    OBVIOUS
  <2>3. PICK id \in Ids : id = s.id
    BY <1>1, <2>1, BusyType
  <2>4. HeldIndex(step, s, by)
    BY <1>1, <2>1, <2>2 DEF IndexInv
  <2>5. by # "delete" /\ step \notin DeleteStep =>
           /\ ~Doomed(id)' /\ (id \in shadow => id \in shadow')
           /\ \A p \in Principals : id \in index[p] => id \in index'[p]
    BY <1>1, <2>1, <2>2, <2>3
  <2>6. HeldIndex(step, s, by)'
    <3>1. hash'[id].principal = hash[id].principal
      BY <1>1, <2>1, <2>3
    <3> QED
      BY <2>3, <2>4, <2>5, <3>1, HeldStays
  <2>7. pc'[t] = step /\ session'[t] = s /\ caller'[t] = by
    BY <2>1, <2>2
  <2> QED
    BY <2>6, <2>7 DEF HeldIndex, Settled, Doomed, Sent, Pending, HashReady
<1> QED
  BY <1>1 DEF IndexInv

\* The id of a thread that deletes nothing is not doomed, and Redis keeps its keys.
LEMMA SafeId ==
    ASSUME TypeInv, InstantInv, IndexInv, NEW t \in Threads,
           pc[t] \notin {"idle"} \cup DeleteStep, caller[t] # "delete",
           NEW id, session[t].id = id
    PROVE  ~Doomed(id) /\ ShadowReady(id)
<1>1. PICK s : s = session[t]
  OBVIOUS
<1>2. HeldIndex(pc[t], s, caller[t]) /\ MayHold(pc[t], s, caller[t])
  BY <1>1 DEF IndexInv, InstantInv
<1> QED
  BY <1>1, <1>2 DEF HeldIndex, MayHold

\* The listener
LEMMA IndexListen ==
    ASSUME TypeInv, InstantInv, IndexInv, Indexing, Listen
    PROVE  IndexInv'
<1> USE DEF threadVars
<1>1. ASSUME NEW m \in inbox, Receive(m)
      PROVE  IndexInv'
  <2>1. /\ UNCHANGED <<now, hash, hashTtl, shadow, index, pc, session, caller, used>>
        /\ inbox' = inbox \ {m}
    BY <1>1 DEF Receive
  <2>2. PICK p0 : p0 = hash[m.id].principal
    OBVIOUS
  <2>3. \/ m.type = "created" /\ handling' = handling
        \/ m.type # "created" /\ p0 = NoPrincipal /\ handling' = handling
        \/ /\ m.type # "created"
           /\ handling' = handling \cup {[message |-> m, principal |-> p0,
                                          body |-> hash[m.id].fields]}
    BY <1>1, <2>2 DEF Receive
  <2>4. \A x : Doomed(x)' => Doomed(x)
    BY <2>1, <2>3 DEF Doomed, Sent
  <2>5. ASSUME NEW x \in Ids, Settled(x)
        PROVE  Settled(x)'
    <3>1. HashReady(x)' = HashReady(x)
      BY <2>1 DEF HashReady, Due
    <3>2. ASSUME NEW p \in Principals, x \in index[p], Pending(x, p)
          PROVE  Pending(x, p)'
      <4>1. hash[x].principal = p
        BY <2>5, <3>2 DEF Settled
      <4>2. CASE m.type = "created"
        BY <2>1, <2>3, <3>2, <4>2 DEF Pending, Sent
      <4>3. CASE m.type # "created" /\ m.id # x
        BY <2>1, <2>3, <3>2, <4>3 DEF Pending, Sent
      <4>4. CASE m.type # "created" /\ m.id = x
        <5>1. p0 = p /\ p0 # NoPrincipal
          BY <2>2, <4>1, <4>4, ConstantsAssumption
        <5>2. PICK h : h = [message |-> m, principal |-> p0,
                            body |-> hash[m.id].fields]
          OBVIOUS
        <5>3. h \in handling'
          BY <2>3, <4>4, <5>1, <5>2
        <5>4. h.message = m /\ h.principal = p0
          BY <5>2
        <5>5. h.message.id = x /\ h.principal = p
          BY <4>4, <5>1, <5>4
        <5> QED
          BY <5>3, <5>5 DEF Pending
      <4> QED
        BY <4>2, <4>3, <4>4
    <3> QED
      BY <2>1, <2>5, <3>1, <3>2 DEF Settled
  <2>6. \A x \in Ids : Doomed(x)' => x \notin shadow' /\ x \in used
    BY <2>1, <2>4 DEF IndexInv
  <2>7. \A x \in Ids, t \in Threads :
           /\ pc[t] \notin {"idle"} \cup DeleteStep /\ caller[t] # "delete"
           /\ session[t].id = x
           => ~Doomed(x)'
    BY <2>4, SafeId
  <2> QED
    BY <2>1, <2>5, <2>6, <2>7, IndexElsewhere
<1>2. ASSUME NEW h \in handling, CleanIndexAndPublish(h)
      PROVE  IndexInv'
  <2>1. PICK id : id = h.message.id
    OBVIOUS
  <2>2. /\ UNCHANGED <<now, hash, hashTtl, shadow, inbox, pc, session, caller, used>>
        /\ handling' = handling \ {h} /\ RemoveFromIndex(h.principal, id)
    BY <1>2, <2>1 DEF CleanIndexAndPublish
  <2>3. id \in Ids /\ Doomed(id) /\ id \notin shadow
    BY <2>1 DEF Doomed, IndexInv, TypeInv, TypeOK, Message
  <2>4. /\ \A x \in Ids \ {id}, p \in Principals : x \in index'[p] <=> x \in index[p]
        /\ \A p \in Principals : id \in index'[p] => id \in index[p] /\ p # h.principal
    <3>1. PICK q : q = h.principal
      OBVIOUS
    <3>2. index \in [Principals -> SUBSET Ids] /\ NoPrincipal \notin Principals
      BY ConstantsAssumption DEF TypeInv, TypeOK, RedisTypeOK
    <3>3. index' = IF q = NoPrincipal THEN index ELSE [index EXCEPT ![q] = @ \ {id}]
      BY <2>2, <3>1 DEF RemoveFromIndex
    <3>4. /\ \A x \in Ids \ {id}, p \in Principals : x \in index'[p] <=> x \in index[p]
          /\ \A p \in Principals : id \in index'[p] => id \in index[p] /\ p # q
      BY <3>2, <3>3
    <3> QED
      BY <3>1, <3>4
  <2>5. \A x : Sent(x)' = Sent(x) /\ (Doomed(x)' => Doomed(x))
    BY <2>2 DEF Doomed, Sent
  <2>6. ASSUME NEW x \in Ids, Settled(x)
        PROVE  Settled(x)'
    <3>1. HashReady(x)' = HashReady(x)
      BY <2>2 DEF HashReady, Due
    <3>2. CASE x = id
      <4>1. \A p \in Principals : p # h.principal /\ Pending(x, p) => Pending(x, p)'
        BY <2>2, <2>5 DEF Pending
      <4> QED
        BY <2>2, <2>3, <2>4, <2>6, <3>1, <3>2, <4>1 DEF Settled
    <3>3. CASE x # id
      <4>1. \A p \in Principals : Pending(x, p) => Pending(x, p)'
        BY <2>1, <2>2, <2>5, <3>3 DEF Pending
      <4> QED
        BY <2>2, <2>4, <2>6, <3>1, <3>3, <4>1 DEF Settled
    <3> QED
      BY <3>2, <3>3
  <2>7. \A x \in Ids : Doomed(x)' => x \notin shadow' /\ x \in used
    BY <2>2, <2>5 DEF IndexInv
  <2>8. \A x \in Ids, t \in Threads :
           /\ pc[t] \notin {"idle"} \cup DeleteStep /\ caller[t] # "delete"
           /\ session[t].id = x
           => ~Doomed(x)' /\ x # id
    BY <2>3, <2>5, SafeId
  <2> QED
    BY <2>2, <2>4, <2>6, <2>7, <2>8, IndexElsewhere
<1> QED
  BY <1>1, <1>2 DEF Listen, Lose, Indexing

\* Expiry takes no hash that is in the index, and sends word of the shadow key.
LEMMA IndexExpire ==
    ASSUME TypeInv, InstantInv, IndexInv, Indexing, Expire
    PROVE  IndexInv'
<1> USE DEF threadVars, listenerVars
<1>1. ASSUME NEW id \in Ids, ExpireHash(id), UNCHANGED <<threadVars, listenerVars>>
      PROVE  IndexInv'
  <2>1. /\ UNCHANGED <<now, shadow, index, inbox, handling, pc, session, caller, used>>
        /\ hash' = [hash EXCEPT ![id] = NoHash]
        /\ hashTtl' = [hashTtl EXCEPT ![id] = NoTtl] /\ ~HashReady(id)
    BY <1>1 DEF ExpireHash, HashReady
  <2>2. /\ hash'[id] = NoHash /\ \A x \in Ids \ {id} : hash'[x] = hash[x]
        /\ hashTtl'[id] = NoTtl /\ \A x \in Ids \ {id} : hashTtl'[x] = hashTtl[x]
    BY <2>1 DEF TypeInv, TypeOK, RedisTypeOK
  <2>3. \A x, p : Doomed(x)' = Doomed(x) /\ Pending(x, p)' = Pending(x, p)
    BY <2>1 DEF Doomed, Sent, Pending
  <2>4. ASSUME NEW x \in Ids, Settled(x)
        PROVE  Settled(x)'
    <3>1. CASE x = id
      <4>1. hash'[id].principal = NoPrincipal
        BY <2>2 DEF NoHash
      <4> QED
        BY <2>1, <2>4, <3>1, <4>1, ConstantsAssumption DEF Settled
    <3>2. CASE x # id
      <4>1. HashReady(x)' = HashReady(x)
        BY <2>1, <2>2, <3>2 DEF HashReady, Due
      <4> QED
        BY <2>1, <2>2, <2>3, <2>4, <3>2, <4>1 DEF Settled
    <3> QED
      BY <3>1, <3>2
  <2>5. \A t \in Threads : pc[t] # "idle" => session[t].id # id
    <3>1. Exists(id)
      BY <2>1 DEF InstantInv, KeyInv, HashReady, Due
    <3> QED
      BY <2>1, <3>1 DEF InstantInv, MayHold
  <2>6. \A x \in Ids : Doomed(x)' => x \notin shadow' /\ x \in used
    BY <2>1, <2>3 DEF IndexInv
  <2>7. \A x \in Ids, t \in Threads :
           /\ pc[t] \notin {"idle"} \cup DeleteStep /\ caller[t] # "delete"
           /\ session[t].id = x
           => ~Doomed(x)'
    BY <2>3, SafeId
  <2> QED
    BY <2>1, <2>2, <2>4, <2>5, <2>6, <2>7, IndexElsewhere
<1>2. ASSUME NEW id \in Ids, ExpireShadow(id), UNCHANGED <<threadVars, listenerVars>>
      PROVE  IndexInv'
  <2>1. /\ UNCHANGED <<now, hash, hashTtl, index, handling, pc, session, caller, used>>
        /\ shadow' = shadow \ {id} /\ inbox' = inbox \cup Publish("expired", id, {})
        /\ ~ShadowReady(id)
    BY <1>2 DEF ExpireShadow, ShadowReady
  <2>2. id \in used
    BY <2>1 DEF InstantInv, KeyInv, ShadowReady, Due
  <2>3. PICK n \in Nodes : TRUE
    BY DEF Indexing
  <2>4. Sent(id)'
    <3>1. PICK m : m = [node |-> n, type |-> "expired", id |-> id, body |-> {}]
      OBVIOUS
    <3>2. m \in inbox' /\ m.type # "created" /\ m.id = id
      BY <2>1, <3>1 DEF Publish
    <3> QED
      BY <3>2 DEF Sent
  <2>5. \A x : (Sent(x) => Sent(x)') /\ (Doomed(x)' => x = id \/ Doomed(x))
    BY <2>1 DEF Sent, Doomed, Publish
  <2>6. ASSUME NEW x \in Ids, Settled(x)
        PROVE  Settled(x)'
    <3>1. HashReady(x)' = HashReady(x)
      BY <2>1 DEF HashReady, Due
    <3>2. \A p : Pending(x, p) => Pending(x, p)'
      BY <2>1, <2>5 DEF Pending
    <3>3. \A p : x = id => Pending(x, p)'
      BY <2>4 DEF Pending
    <3> QED
      BY <2>1, <2>6, <3>1, <3>2, <3>3 DEF Settled
  <2>7. \A x \in Ids : Doomed(x)' => x \notin shadow' /\ x \in used
    BY <2>1, <2>2, <2>5 DEF IndexInv
  <2>8. \A x \in Ids, t \in Threads :
           /\ pc[t] \notin {"idle"} \cup DeleteStep /\ caller[t] # "delete"
           /\ session[t].id = x
           => ~Doomed(x)' /\ x # id
    BY <2>1, <2>5, SafeId
  <2> QED
    BY <2>1, <2>6, <2>7, <2>8, IndexElsewhere
<1>3. ASSUME UNCHANGED <<now, hash, hashTtl, shadow, index, inbox, threadVars,
                         listenerVars>>
      PROVE  IndexInv'
  <2>1. \A x, p : Doomed(x)' = Doomed(x) /\ Pending(x, p)' = Pending(x, p)
    BY <1>3 DEF Doomed, Sent, Pending
  <2>2. \A x : Settled(x)' = Settled(x)
    BY <1>3, <2>1 DEF Settled, HashReady, Due
  <2>3. \A x \in Ids : Doomed(x)' => x \notin shadow' /\ x \in used
    BY <1>3, <2>1 DEF IndexInv
  <2>4. \A x \in Ids, t \in Threads :
           /\ pc[t] \notin {"idle"} \cup DeleteStep /\ caller[t] # "delete"
           /\ session[t].id = x
           => ~Doomed(x)'
    BY <2>1, SafeId
  <2> QED
    BY <1>3, <2>2, <2>3, <2>4, IndexElsewhere
<1>4. \A e \in bucketTtl :
         ExpireBucket(e[1]) /\ UNCHANGED <<threadVars, listenerVars>> => IndexInv'
  BY <1>3 DEF ExpireBucket
<1> QED
  BY <1>1, <1>2, <1>4 DEF Expire

\* The clock moves on from a moment when every message is handled; the shadow keys
\* still there are less than a minute overdue, and their hashes have five.
LEMMA IndexTick ==
    ASSUME TypeInv, InstantInv, IndexInv, Indexing, Tick, TimelyExpiry'
    PROVE  IndexInv'
<1> USE DEF threadVars, listenerVars
<1>1. /\ now' = now + 1 /\ now \in Nat /\ inbox = {} /\ handling = {}
      /\ UNCHANGED <<hash, hashTtl, shadow, shadowTtl, index, inbox, handling, pc,
                     session, caller, used>>
  BY DEF Tick, Indexing, TypeInv, TypeOK, RedisTypeOK
<1>2. \A t \in Threads : pc[t] = "idle"
  BY DEF Tick, InstantInv, Indexing, Punctual, Instant, TypeInv, TypeOK, RedisTypeOK
<1>3. \A id : ~Doomed(id)' /\ \A p : ~Pending(id, p)
  BY <1>1 DEF Doomed, Sent, Pending
<1>4. ASSUME NEW id \in Ids
      PROVE  Settled(id)'
  <2>1. Settled(id)
    BY <1>2 DEF IndexInv
  <2>2. ASSUME NEW p \in Principals, id \in index[p]
        PROVE  hash[id].principal = p /\ id \in shadow /\ HashReady(id)'
    <3>1. hash[id].principal = p /\ id \in shadow
      BY <1>3, <2>1, <2>2 DEF Settled
    <3>2. Exists(id)
      BY <3>1, NobodysHash, ConstantsAssumption DEF InstantInv, KeyInv, Keyed
    <3>3. KeptHash(id)
      BY <1>2, <3>2 DEF InstantInv, Open, OpenStep
    <3>4. CASE hash[id].max < 0
      <4>1. hashTtl[id] = NoTtl
        BY <3>3, <3>4 DEF KeptHash
      <4>2. hashTtl'[id] = NoTtl
        BY <1>1, <4>1
      <4> QED
        BY <3>1, <4>2 DEF HashReady, Due
    <3>5. CASE hash[id].max >= 0
      <4>1. shadowTtl[id] # NoTtl /\ hashTtl[id] = shadowTtl[id] + Grace
        BY <3>1, <3>3, <3>5 DEF KeptHash
      <4>2. shadowTtl[id] \in Nat
        BY <4>1 DEF TypeInv, TypeOK, RedisTypeOK
      <4>3. now + 1 <= shadowTtl[id] + Minute
        BY <1>1, <3>1, <4>1 DEF TimelyExpiry
      <4>4. Minute \in Nat /\ Grace \in Nat /\ Minute < Grace
        BY ConstantsAssumption
      <4>5. hashTtl[id] > now + 1
        BY <1>1, <4>1, <4>2, <4>3, <4>4
      <4>6. hashTtl'[id] = hashTtl[id] /\ now' = now + 1
        BY <1>1
      <4>7. hashTtl[id] \in Nat
        BY <4>1, <4>2, <4>4
      <4>8. ~(hashTtl'[id] <= now')
        BY <1>1, <4>5, <4>6, <4>7
      <4> QED
        BY <3>1, <4>8 DEF HashReady, Due
    <3>6. hash[id].max \in Int
      BY ConstantsAssumption DEF TypeInv, TypeOK, RedisTypeOK, HashValue
    <3> QED
      BY <3>1, <3>4, <3>5, <3>6
  <2>3. \A p \in Principals : id \in shadow /\ hash[id].principal = p => id \in index[p]
    BY <2>1 DEF Settled
  <2> QED
    BY <1>1, <2>2, <2>3 DEF Settled
<1> QED
  BY <1>1, <1>2, <1>3, <1>4 DEF IndexInv

\* Every step keeps the invariant.
LEMMA IndexNext ==
    ASSUME Indexing, TypeInv, InstantInv, IndexInv, Alone, Alone', [Next]_vars,
           TimelyExpiry'
    PROVE  IndexInv'
<1>a. Instant
  BY DEF Indexing, Punctual
<1>1. ASSUME NEW t \in Threads, Call(t)
      PROVE  IndexInv'
  BY <1>a, <1>1, IndexLoad, IndexCreate, IndexEdit
  DEF Call, Instant, changeSessionId
<1>2. ASSUME NEW t \in Threads, Command(t) \/ EndRequest(t) \/ Crash(t)
      PROVE  IndexInv'
  <2>1. ~Crash(t)
    BY <1>a DEF Crash, Instant, TypeInv, TypeOK
  <2>2. ~Rename(t)
    BY DEF Rename, Saving, InstantInv, MayHold
  <2> QED
    BY <1>a, <1>2, <2>1, <2>2, IndexAside, IndexSwitch, IndexDeleteShadow, IndexPutAll,
       IndexShadow DEF Command
<1>3. ASSUME UNCHANGED <<now, hash, hashTtl, shadow, index, inbox, handling, pc,
                         session, caller, used>>
      PROVE  IndexInv'
  <2>1. \A x, p : Doomed(x)' = Doomed(x) /\ Pending(x, p)' = Pending(x, p)
    BY <1>3 DEF Doomed, Sent, Pending
  <2>2. \A x : Settled(x)' = Settled(x)
    BY <1>3, <2>1 DEF Settled, HashReady, Due
  <2>3. \A x \in Ids : Doomed(x)' => x \notin shadow' /\ x \in used
    BY <1>3, <2>1 DEF IndexInv
  <2>4. \A x \in Ids, t \in Threads :
           /\ pc[t] \notin {"idle"} \cup DeleteStep /\ caller[t] # "delete"
           /\ session[t].id = x
           => ~Doomed(x)'
    BY <2>1, SafeId
  <2> QED
    BY <1>3, <2>2, <2>3, <2>4, IndexElsewhere
<1>4. Clean \/ UNCHANGED vars => IndexInv'
  BY <1>3 DEF Clean, CleanRead, CleanDelete, CleanTouch, vars, redisVars, threadVars,
              listenerVars
<1> QED
  BY <1>1, <1>2, <1>4, IndexListen, IndexExpire, IndexTick DEF Next

\* Between calls the index has a session under the principal of its hash, and only
\* there, from its first save until its end has been handled: each save moves it,
\* deletion takes it out, and the message of its expiry finds the principal in the
\* hash, which is never gone before the cleanup has made Redis send that message.
THEOREM TheIndexIsExact == Indexing => (Spec /\ []Alone => []IndexExact)
<1>1. ASSUME TypeInv, InstantInv, IndexInv
      PROVE  IndexExact
  <2>1. ASSUME inbox = {}, handling = {}, NEW id \in Ids, NEW p \in Principals,
               AtRest(id)
        PROVE  id \in index[p] <=> id \in shadow /\ hash[id].principal = p
    <3>1. CASE \A t \in Threads : pc[t] # "idle" => session[t].id # id
      <4>1. ~Pending(id, p)
        BY <2>1 DEF Pending, Sent
      <4>2. Settled(id)
        BY <1>1, <3>1 DEF IndexInv
      <4> QED
        BY <4>1, <4>2 DEF Settled
    <3>2. ASSUME NEW t \in Threads, pc[t] # "idle", session[t].id = id
          PROVE  id \in index[p] <=> id \in shadow /\ hash[id].principal = p
      <4>1. PICK s : s = session[t]
        OBVIOUS
      <4>2. MayHold(pc[t], s, caller[t]) /\ HeldIndex(pc[t], s, caller[t])
        BY <1>1, <3>2, <4>1 DEF InstantInv, IndexInv
      <4>3. pc[t] = "edit" /\ s.delta = {} /\ s.id = id
        BY <2>1, <3>2, <4>1, <4>2 DEF AtRest, MayHold
      <4>4. caller[t] # "delete"
        BY <4>2, <4>3 DEF MayHold, SaveStep
      <4> QED
        BY <4>2, <4>3, <4>4 DEF HeldIndex, DeleteStep
    <3> QED
      BY <3>1, <3>2
  <2> QED
    BY <2>1 DEF IndexExact
<1>2. ASSUME Indexing
      PROVE  /\ TypeInv /\ InstantInv /\ Alone /\ Alone' /\ [Next]_vars
                => (TypeInv /\ InstantInv)'
             /\ TypeInv /\ InstantInv /\ IndexInv /\ Alone /\ Alone' /\ [Next]_vars
                /\ TimelyExpiry' => IndexInv'
  BY <1>2, InstantNext, IndexNext, TypeNext DEF Indexing, Punctual
<1>3. ASSUME Indexing
      PROVE  Spec /\ []Alone => []TimelyExpiry
  BY <1>3, ExpiryIsTimely DEF Indexing
<1>4. ASSUME Indexing
      PROVE  Spec /\ []Alone => []IndexExact
  BY <1>1, <1>2, <1>3, <1>4, TypeInit, InstantInit, IndexInit, PTL DEF Spec
<1> QED
  BY <1>4
=============================================================================
