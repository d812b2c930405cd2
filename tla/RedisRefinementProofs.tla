----------------------- MODULE RedisRefinementProofs -----------------------
(***************************************************************************)
(* RedisSessions implements SessionStore: the initial state is one of its  *)
(* initial states, and every step is one of its steps or changes nothing   *)
(* there.  Which sessions and threads there are, the commands that come in *)
(* between and the messages do not matter.                                 *)
(***************************************************************************)
EXTENDS RedisRefinement, RedisDeletionProofs

-----------------------------------------------------------------------------
(* What the mapping shows of a step *)

\* The parts of IInv as the lemmas about steps want them.
LEMMA Parts == IInv => TypeInv /\ Inv
<1> SUFFICES ASSUME IInv, NEW t \in Threads, pc[t] # "idle"
             PROVE  session[t].id \in Ids /\ session[t].originalId \in Ids
  BY DEF IInv, TypeInv, Inv
<1> QED
  BY DEF IInv, ThreadInv, Holds, TypeOK

\* A step of no thread shows no change of the copies, one that writes no hash
\* none of the values.
LEMMA NothingShown ==
    /\ UNCHANGED hash => UNCHANGED storedValues
    /\ UNCHANGED <<pc, session, caller>> => UNCHANGED <<heldCopies, doomedIds>>
  BY DEF storedValues, storedValue, Exists, heldCopies, heldCopy, Deleting, doomedIds,
     doomedId

\* A thread in no call shows no copy, and one in a request shows its session.
LEMMA CopyShown ==
    ASSUME NEW t \in Threads
    PROVE  /\ pc[t] = "idle" \/ Deleting(t) => heldCopies[t] = Store!NoCopy
           /\ pc[t] # "idle" /\ ~Deleting(t) =>
                heldCopies[t] =
                  [id |-> session[t].id, last |-> session[t].last,
                   max |-> session[t].max, principal |-> session[t].principal,
                   edits |-> session[t].delta]
  BY DEF heldCopies, heldCopy, Deleting, Store!NoCopy

\* A step of one thread shows the change of its own copy only.
LEMMA CopyMoved ==
    ASSUME TypeInv, NEW t \in Threads, NEW step, NEW s, NEW by, Goto(t, step, s),
           caller' = [caller EXCEPT ![t] = by]
    PROVE  heldCopies' = [heldCopies EXCEPT ![t] =
              IF step = "idle" \/ by = "delete" \/ step \in DeleteStep
              THEN Store!NoCopy
              ELSE [id |-> s.id, last |-> s.last, max |-> s.max,
                    principal |-> s.principal, edits |-> s.delta]]
<1>1. /\ pc' = [pc EXCEPT ![t] = step] /\ session' = [session EXCEPT ![t] = s]
      /\ pc'[t] = step /\ session'[t] = s /\ caller'[t] = by
  BY DEF Goto, TypeInv, TypeOK
<1>2. \A u \in Threads : u # t =>
        pc'[u] = pc[u] /\ session'[u] = session[u] /\ caller'[u] = caller[u]
  BY <1>1
<1>3. \A u \in Threads : u # t => heldCopy(u)' = heldCopy(u)
  BY <1>2 DEF heldCopy, Deleting
<1>4. heldCopy(t)' = IF step = "idle" \/ by = "delete" \/ step \in DeleteStep
                     THEN Store!NoCopy
                     ELSE [id |-> s.id, last |-> s.last, max |-> s.max,
                           principal |-> s.principal, edits |-> s.delta]
  BY <1>1 DEF heldCopy, Deleting, Store!NoCopy
<1> QED
  BY <1>3, <1>4 DEF heldCopies

\* Thread t, at this step and called by this one, is to write the zero interval.
Dooming(step, by) == step \in DeleteStep \/ (by = "delete" /\ step = "hmset")

\* A thread in a deletion shows the id to delete until its HMSET.
LEMMA DoomShown ==
    ASSUME NEW t \in Threads
    PROVE  doomedIds[t] = IF Dooming(pc[t], caller[t]) THEN session[t].id ELSE NoId
  BY DEF doomedIds, doomedId, Dooming

\* A step of one thread shows the change of its own deletion only.
LEMMA DoomMoved ==
    ASSUME TypeInv, NEW t \in Threads, NEW step, NEW s, NEW by, Goto(t, step, s),
           caller' = [caller EXCEPT ![t] = by]
    PROVE  doomedIds' = [doomedIds EXCEPT ![t] =
              IF Dooming(step, by) THEN s.id ELSE NoId]
<1>1. pc'[t] = step /\ session'[t] = s /\ caller'[t] = by
  BY DEF Goto, TypeInv, TypeOK
<1>2. \A u \in Threads : u # t =>
        pc'[u] = pc[u] /\ session'[u] = session[u] /\ caller'[u] = caller[u]
  BY DEF Goto, TypeInv, TypeOK
<1>3. \A u \in Threads : u # t => doomedId(u)' = doomedId(u)
  BY <1>2 DEF doomedId
<1>4. doomedId(t)' = IF Dooming(step, by) THEN s.id ELSE NoId
  BY <1>1 DEF doomedId, Dooming
<1> QED
  BY <1>3, <1>4 DEF doomedIds

\* A thread that was in no deletion and is in none shows none.
LEMMA DoomKept ==
    ASSUME TypeInv, NEW t \in Threads, NEW step, NEW s, NEW by, Goto(t, step, s),
           caller' = [caller EXCEPT ![t] = by], ~Dooming(step, by),
           ~Dooming(pc[t], caller[t])
    PROVE  UNCHANGED doomedIds
<1>1. doomedIds' = [doomedIds EXCEPT ![t] = NoId]
  BY DoomMoved
<1>2. doomedIds[t] = NoId
  BY DoomShown
<1> QED
  BY <1>1, <1>2 DEF doomedIds

-----------------------------------------------------------------------------
(* The calls of the application *)

\* A setter changes the thread's copy, written at once or not.
LEMMA PutShown ==
    ASSUME TypeInv, NEW t \in Threads, NEW s \in RedisSession, NEW f \in Field,
           putAndFlush(t, s, f), s.id = s.originalId, caller[t] # "delete",
           pc[t] \notin DeleteStep
    PROVE  /\ heldCopies' = [heldCopies EXCEPT ![t] =
                [id |-> s.id, last |-> s.last, max |-> s.max,
                 principal |-> s.principal, edits |-> s.delta \cup {f}]]
           /\ UNCHANGED doomedIds
<1> DEFINE put == [s EXCEPT !.delta = @ \cup {f}]
<1>1. /\ put.id = s.id /\ put.last = s.last /\ put.max = s.max
      /\ put.principal = s.principal /\ put.delta = s.delta \cup {f}
  BY DEF RedisSession
<1>2. PICK step \in {"edit", "hmset"}, by \in {"setter", "save"} :
        Goto(t, step, put) /\ caller' = [caller EXCEPT ![t] = by]
  BY PutShape
<1>3. step # "idle" /\ by # "delete" /\ step \notin DeleteStep
  BY DEF DeleteStep
<1>4. ~Dooming(step, by) /\ ~Dooming(pc[t], caller[t])
  BY <1>3 DEF Dooming
<1> HIDE DEF put
<1>5. UNCHANGED doomedIds
  BY <1>2, <1>4, DoomKept
<1>6. heldCopies' = [heldCopies EXCEPT ![t] =
         [id |-> put.id, last |-> put.last, max |-> put.max,
          principal |-> put.principal, edits |-> put.delta]]
  BY <1>2, <1>3, CopyMoved
<1> QED
  BY <1>1, <1>5, <1>6

\* createSession is the creation of a session the store does not have yet.
LEMMA CreateShown ==
    ASSUME TypeInv, Inv, NEW t \in Threads, NEW id \in Ids, createSession(t, id)
    PROVE  Store!Next
<1> DEFINE s == newSession(id)
<1>1. /\ s \in RedisSession /\ s.id = id /\ s.originalId = id /\ s.last = now
      /\ s.max = DefaultInterval /\ s.principal = NoPrincipal
      /\ s.delta = Store!Whole
  BY NewType DEF newSession, TypeInv, Store!Whole
<1>2. caller[t] # "delete" /\ pc[t] = "idle" /\ pc[t] \notin DeleteStep
  BY DEF createSession, Begin, Inv, ThreadInv, DeleteStep
<1>3. putAndFlush(t, s, "last") /\ "last" \in Field
  BY DEF createSession, Field
<1>4. Store!Whole \cup {"last"} = Store!Whole
  BY DEF Store!Whole
<1> HIDE DEF s
<1>5. /\ heldCopies' = [heldCopies EXCEPT ![t] =
        [id |-> id, last |-> now, max |-> DefaultInterval,
         principal |-> NoPrincipal, edits |-> Store!Whole]]
      /\ UNCHANGED doomedIds
  BY <1>1, <1>2, <1>3, <1>4, PutShown
<1>6. Store!createSession(t, id)
  BY <1>2, <1>5, CopyShown, NothingShown
  DEF createSession, redisVars, Store!createSession, Store!Hold
<1> QED
  BY <1>6 DEF Store!Next

\* Exactly the fields its client has changed are written of a copy.
LEMMA WrittenShown ==
    ASSUME NEW t \in Threads, NEW id, NEW last, NEW max, NEW principal, NEW old,
           NEW edits,
           heldCopies' = [heldCopies EXCEPT ![t] =
              [id |-> id, last |-> last, max |-> max, principal |-> principal,
               edits |-> edits]]
    PROVE  Store!Edit(t, [id |-> id, last |-> last, max |-> max,
                          principal |-> principal, edits |-> old], edits)
<1>1. heldCopies'[t].edits = edits
  BY DEF heldCopies
<1>2. [[id |-> id, last |-> last, max |-> max, principal |-> principal,
        edits |-> old] EXCEPT !.edits = edits]
        = [id |-> id, last |-> last, max |-> max, principal |-> principal,
           edits |-> edits]
  OBVIOUS
<1> QED
  BY <1>1, <1>2 DEF Store!Edit, Store!Hold

\* A session that findById returns is live in the store.
LEMMA FoundShown ==
    ASSUME IInv, NEW id \in Ids, Found(id)
    PROVE  /\ Store!Live(id)
           /\ loadSession(id).last = storedValues[id].last
           /\ loadSession(id).max = storedValues[id].max
           /\ loadSession(id).principal = storedValues[id].principal
<1>1. hash[id].max # 0 /\ Exists(id)
  BY ZeroIsExpired DEF Found
<1>2. "last" \in hash[id].fields
  BY <1>1 DEF IInv, HashInv, Whole
<1>3. storedValues[id] = [stored |-> TRUE, last |-> hash[id].last,
                          max |-> hash[id].max, principal |-> hash[id].principal]
  BY <1>1 DEF storedValues, storedValue
<1>4. /\ loadSession(id).last = hash[id].last /\ loadSession(id).max = hash[id].max
      /\ loadSession(id).principal = hash[id].principal
  BY <1>2 DEF loadSession
<1>5. ~(hash[id].max >= 0 /\ now - hash[id].max >= hash[id].last)
  BY <1>4 DEF Found, isExpired
<1> QED
  BY <1>3, <1>4, <1>5 DEF Store!Live, Store!isExpired

\* findById is the loading of a live session.
LEMMA FindShown ==
    ASSUME IInv, NEW t \in Threads, NEW id \in Ids, NEW touch \in Touching,
           findById(t, id, touch)
    PROVE  Store!Next
<1> DEFINE s == loadSession(id)
<1>0. TypeInv /\ Inv /\ touch \in BOOLEAN /\ now \in Nat
  BY Parts, RepositoryAssumption DEF IInv, TypeOK, RedisTypeOK
<1>1. /\ s \in RedisSession /\ s.id = id /\ s.originalId = id /\ s.delta = {}
      /\ s.last = storedValues[id].last /\ s.max = storedValues[id].max
      /\ s.principal = storedValues[id].principal /\ Store!Live(id)
  <2>1. Found(id)
    BY DEF findById
  <2>2. s.delta = {}
    BY DEF loadSession
  <2> QED
    BY <1>0, <2>1, <2>2, LoadType, FoundShown DEF IInv
<1>2. /\ caller[t] = "save" /\ pc[t] = "idle" /\ pc[t] \notin DeleteStep
      /\ UNCHANGED <<now, storedValues, used>>
      /\ IF touch THEN putAndFlush(t, [s EXCEPT !.last = now], "last")
                  ELSE Goto(t, "edit", s) /\ UNCHANGED caller
  BY <1>0, NothingShown DEF findById, Begin, Inv, ThreadInv, redisVars, DeleteStep
<1> HIDE DEF s
<1>3. /\ heldCopies' = [heldCopies EXCEPT ![t] =
        [id |-> id, last |-> IF touch THEN now ELSE storedValues[id].last,
         max |-> storedValues[id].max, principal |-> storedValues[id].principal,
         edits |-> IF touch THEN {"last"} ELSE {}]]
      /\ UNCHANGED doomedIds
  <2>1. CASE touch
    <3> DEFINE r == [s EXCEPT !.last = now]
    <3>1. /\ r \in RedisSession /\ r.id = id /\ r.originalId = id /\ r.last = now
          /\ r.max = s.max /\ r.principal = s.principal /\ r.delta = {}
          /\ "last" \in Field
      BY <1>0, <1>1 DEF RedisSession, Field
    <3>2. putAndFlush(t, r, "last")
      BY <1>2, <2>1
    <3> HIDE DEF r
    <3> QED
      BY <1>0, <1>1, <1>2, <2>1, <3>1, <3>2, PutShown
  <2>2. CASE ~touch
    <3>1. caller' = [caller EXCEPT ![t] = "save"]
      BY <1>0, <1>2, <2>2 DEF TypeInv, TypeOK
    <3>2. /\ "edit" \notin DeleteStep /\ "edit" # "idle" /\ "save" # "delete"
          /\ ~Dooming("edit", "save") /\ ~Dooming(pc[t], caller[t])
      BY <1>2 DEF DeleteStep, Dooming
    <3>3. Goto(t, "edit", s)
      BY <1>2, <2>2
    <3>4. heldCopies' = [heldCopies EXCEPT ![t] =
            [id |-> s.id, last |-> s.last, max |-> s.max, principal |-> s.principal,
             edits |-> s.delta]]
      BY <1>0, <3>1, <3>2, <3>3, CopyMoved
    <3>5. UNCHANGED doomedIds
      BY <1>0, <3>1, <3>2, <3>3, DoomKept
    <3> QED
      BY <1>1, <2>2, <3>4, <3>5
  <2> QED
    BY <2>1, <2>2
<1>4. Store!findById(t, id, touch)
  BY <1>1, <1>2, <1>3, CopyShown, WrittenShown DEF Store!findById
<1> QED
  BY <1>0, <1>4 DEF Store!Next

\* Editing, saving to the point of the first command, starting to delete and
\* ending a request change the thread's own copy or nothing.
LEMMA EditShown ==
    ASSUME IInv, NEW t \in Threads,
           \/ \E p \in SetPrincipals : setPrincipal(t, p)
           \/ save(t)
           \/ EndRequest(t)
           \/ \E id \in Ids : deleteById(t, id)
    PROVE  Store!Next
<1>0. TypeInv /\ Inv
  BY Parts
<1>1. UNCHANGED <<now, storedValues, used>>
  BY NothingShown
  DEF setPrincipal, save, EndRequest, deleteById, Editing, redisVars
<1>2. ASSUME pc[t] = "edit"
      PROVE  /\ session[t] \in RedisSession /\ session[t].id = session[t].originalId
             /\ caller[t] # "delete" /\ ~Deleting(t) /\ session[t].id \in Ids
             /\ heldCopies[t] = [id |-> session[t].id, last |-> session[t].last,
                                 max |-> session[t].max,
                                 principal |-> session[t].principal,
                                 edits |-> session[t].delta]
             /\ heldCopies[t] # Store!NoCopy
             /\ pc[t] \notin DeleteStep /\ ~Dooming(pc[t], caller[t])
  <2>1. /\ session[t] \in RedisSession /\ session[t].id = session[t].originalId
        /\ caller[t] # "delete" /\ session[t].id \in Ids
    BY <1>0, <1>2, BusyType DEF Inv, ThreadInv, Holds, SaveStep
  <2>2. ~Deleting(t) /\ pc[t] \notin DeleteStep /\ ~Dooming(pc[t], caller[t])
    BY <1>2, <2>1 DEF Deleting, DeleteStep, Dooming
  <2> QED
    BY <1>2, <2>1, <2>2, CopyShown, RepositoryAssumption DEF Store!NoCopy
<1>3. ASSUME NEW p \in SetPrincipals, setPrincipal(t, p)
      PROVE  Store!Next
  <2> DEFINE s == [session[t] EXCEPT !.principal = p]
  <2>1. /\ s \in RedisSession /\ s.id = session[t].id /\ s.id = s.originalId
        /\ s.last = session[t].last /\ s.max = session[t].max /\ s.principal = p
        /\ s.delta = session[t].delta /\ "principal" \in Field
    BY <1>2, <1>3, RepositoryAssumption DEF setPrincipal, Editing, RedisSession, Field
  <2>2. putAndFlush(t, s, "principal") /\ pc[t] = "edit"
    BY <1>3 DEF setPrincipal, Editing
  <2> HIDE DEF s
  <2>3. /\ heldCopies' = [heldCopies EXCEPT ![t] =
           [id |-> session[t].id, last |-> session[t].last, max |-> session[t].max,
            principal |-> p, edits |-> session[t].delta \cup {"principal"}]]
        /\ UNCHANGED doomedIds
    BY <1>0, <1>2, <2>1, <2>2, PutShown
  <2>a. [heldCopies[t] EXCEPT !.principal = p] =
          [id |-> session[t].id, last |-> session[t].last, max |-> session[t].max,
           principal |-> p, edits |-> session[t].delta]
    BY <1>2, <2>2
  <2>4. Store!setPrincipal(t, p)
    <3> DEFINE r == [id |-> session[t].id, last |-> session[t].last,
                     max |-> session[t].max, principal |-> p,
                     edits |-> session[t].delta]
    <3>1. Store!Edit(t, r, session[t].delta \cup {"principal"})
      BY <2>3, WrittenShown
    <3>2. r.edits = session[t].delta
      OBVIOUS
    <3> HIDE DEF r
    <3>3. Store!Change(t, r, "principal")
      BY <1>1, <1>2, <2>2, <2>3, <3>1, <3>2 DEF Store!Change
    <3> QED
      BY <2>a, <3>3 DEF Store!setPrincipal, r
  <2> QED
    BY <2>4, RepositoryAssumption DEF Store!Next, MaybePrincipal
<1>4. CASE save(t)
  <2>1. saveDelta(t, session[t], "save") /\ pc[t] = "edit"
    BY <1>4 DEF save, Editing
  <2>2. PICK step \in {"return", "hmset"} :
          Goto(t, step, session[t]) /\ caller' = [caller EXCEPT ![t] = "save"]
    BY <1>2, <2>1, SaveDeltaShape
  <2>3. step \notin DeleteStep /\ step # "idle" /\ "save" # "delete"
        /\ ~Dooming(step, "save")
    BY DEF DeleteStep, Dooming
  <2>4. heldCopies' = [heldCopies EXCEPT ![t] = heldCopies[t]]
    <3>1. heldCopies' = [heldCopies EXCEPT ![t] =
            [id |-> session[t].id, last |-> session[t].last, max |-> session[t].max,
             principal |-> session[t].principal, edits |-> session[t].delta]]
      BY <1>0, <2>2, <2>3, CopyMoved
    <3> QED
      BY <1>2, <2>1, <3>1
  <2>5. UNCHANGED doomedIds
    BY <1>0, <1>2, <2>1, <2>2, <2>3, DoomKept
  <2> QED
    BY <1>1, <2>4, <2>5 DEF heldCopies, Store!Next, Store!storeVars
<1>5. CASE EndRequest(t)
  <2>1. pc[t] = "edit"
    BY <1>0, <1>5 DEF EndRequest, Inv, ThreadInv, Holds
  <2>2. Goto(t, "idle", NoSession) /\ caller' = [caller EXCEPT ![t] = "save"]
    BY <1>5 DEF EndRequest, GoIdle
  <2>3. heldCopies' = [heldCopies EXCEPT ![t] = Store!NoCopy]
    BY <1>0, <2>2, CopyMoved
  <2>4. doomedIds' = [doomedIds EXCEPT ![t] = NoId]
    <3>1. ~Dooming("idle", "save")
      BY DEF Dooming, DeleteStep
    <3> QED
      BY <1>0, <2>2, <3>1, DoomMoved
  <2>5. Store!Drop(t)
    BY <1>1, <1>2, <2>1, <2>3, <2>4 DEF Store!Drop, Store!Hold
  <2> QED
    BY <2>5 DEF Store!Next
<1>6. ASSUME NEW id \in Ids, deleteById(t, id)
      PROVE  Store!Next
  <2>1. /\ pc[t] = "idle" /\ Goto(t, "delIndex", loadSession(id)) /\ caller' = caller
        /\ "delIndex" \in DeleteStep
    BY <1>6 DEF deleteById, Begin, DeleteStep
  <2>2. caller' = [caller EXCEPT ![t] = caller[t]]
    BY <1>0, <2>1 DEF TypeInv, TypeOK
  <2>3. heldCopies' = [heldCopies EXCEPT ![t] = Store!NoCopy]
    BY <1>0, <2>1, <2>2, CopyMoved
  <2>4. heldCopies[t] = Store!NoCopy
    BY <2>1, CopyShown
  <2>5. PICK s : s = loadSession(id)
    OBVIOUS
  <2>6. s.id = id /\ Dooming("delIndex", caller[t]) /\ ~Dooming(pc[t], caller[t])
    BY <2>1, <2>5 DEF loadSession, Dooming, DeleteStep
  <2>7. doomedIds' = [doomedIds EXCEPT ![t] = s.id] /\ doomedIds[t] = NoId
    BY <1>0, <2>1, <2>2, <2>5, <2>6, DoomMoved, DoomShown
  <2>8. Store!deleteById(t, id)
    BY <1>1, <2>3, <2>4, <2>6, <2>7 DEF heldCopies, Store!deleteById
  <2> QED
    BY <2>8 DEF Store!Next
<1> QED
  BY <1>3, <1>4, <1>5, <1>6

-----------------------------------------------------------------------------
(* The commands *)

\* The commands of a deletion before its save, and those of a save other than the
\* HMSET, show nothing.
LEMMA CommandShown ==
    ASSUME IInv, NEW t \in Threads, Command(t), ~PutAll(t)
    PROVE  UNCHANGED Store!storeVars
<1> USE DEF Store!storeVars
<1>0. /\ TypeInv /\ Inv /\ pc[t] # "idle" /\ Holds(t) /\ session[t] \in RedisSession
      /\ ~Rename(t)
  <2>1. TypeInv /\ Inv
    BY Parts
  <2>2. pc[t] # "idle"
    BY DEF Command, DeleteFromIndex, DeleteShadow, Rename, PutAll, RemoveOldPrincipal,
       AddNewPrincipal, LeaveOldBucket, EnterBucket, WriteShadow, ExtendShadow,
       ExtendHash, Return, Saving
  <2>3. Holds(t) /\ session[t] \in RedisSession
    BY <2>1, <2>2, BusyType DEF Inv, ThreadInv
  <2> QED
    BY <2>1, <2>2, <2>3 DEF Rename, Saving, Holds
<1>1. CASE DeleteFromIndex(t) \/ DeleteShadow(t)
  <2> DEFINE d == [session[t] EXCEPT !.max = 0, !.delta = {"max"}]
  <2>1. /\ UNCHANGED <<now, hash, used>> /\ pc[t] \in DeleteStep
        /\ \/ Goto(t, "delShadow", session[t]) /\ caller' = caller
           \/ saveDelta(t, d, "delete")
    BY <1>1 DEF DeleteFromIndex, DeleteShadow, DeleteStep
  <2>2. d.id = d.originalId /\ d.delta = {"max"}
    BY <1>0 DEF Holds, RedisSession
  <2>a. d.id = session[t].id
    BY <1>0 DEF RedisSession
  <2> HIDE DEF d
  <2>3. /\ "delShadow" \in DeleteStep /\ Dooming("delShadow", caller[t])
        /\ Dooming("hmset", "delete") /\ Dooming(pc[t], caller[t])
    BY <2>1 DEF DeleteStep, Dooming
  <2>4. caller' = caller => caller' = [caller EXCEPT ![t] = caller[t]]
    BY <1>0 DEF TypeInv, TypeOK
  <2>5. /\ heldCopies' = [heldCopies EXCEPT ![t] = Store!NoCopy]
        /\ doomedIds' = [doomedIds EXCEPT ![t] = session[t].id]
    <3>1. CASE Goto(t, "delShadow", session[t]) /\ caller' = caller
      <4>1. heldCopies' = [heldCopies EXCEPT ![t] = Store!NoCopy]
        BY <1>0, <2>3, <2>4, <3>1, CopyMoved
      <4>2. doomedIds' = [doomedIds EXCEPT ![t] = session[t].id]
        BY <1>0, <2>3, <2>4, <3>1, DoomMoved
      <4> QED
        BY <4>1, <4>2
    <3>2. CASE saveDelta(t, d, "delete")
      <4>1. Goto(t, "hmset", d) /\ caller' = [caller EXCEPT ![t] = "delete"]
        BY <2>2, <3>2, SaveDeltaShape
      <4>2. heldCopies' = [heldCopies EXCEPT ![t] = Store!NoCopy]
        BY <1>0, <4>1, CopyMoved
      <4>3. doomedIds' = [doomedIds EXCEPT ![t] = d.id]
        BY <1>0, <2>3, <4>1, DoomMoved
      <4> QED
        BY <2>a, <4>2, <4>3
    <3> QED
      BY <2>1, <3>1, <3>2
  <2>6. heldCopies[t] = Store!NoCopy /\ doomedIds[t] = session[t].id
    BY <2>1, <2>3, CopyShown, DoomShown DEF Deleting
  <2> QED
    BY <2>1, <2>5, <2>6, NothingShown DEF heldCopies, doomedIds
<1>2. ASSUME NEW step \in (SaveStep \cup {"edit"}) \ {"hmset"}, NEW s, Goto(t, step, s),
             s.id = session[t].id, s.last = session[t].last, s.max = session[t].max,
             s.principal = session[t].principal, s.delta = session[t].delta,
             NEW by, caller' = [caller EXCEPT ![t] = by],
             (by = "delete") = (caller[t] = "delete"),
             pc[t] \in SaveStep \ {"hmset"}, UNCHANGED <<now, hash, used>>
      PROVE  UNCHANGED <<now, storedValues, heldCopies, doomedIds, used>>
  <2>1. /\ step \notin DeleteStep /\ step # "idle" /\ pc[t] \notin DeleteStep
        /\ ~Dooming(step, by) /\ ~Dooming(pc[t], caller[t])
    BY <1>2 DEF SaveStep, DeleteStep, Dooming
  <2>2. heldCopies' = [heldCopies EXCEPT ![t] =
           IF by = "delete" THEN Store!NoCopy
           ELSE [id |-> s.id, last |-> s.last, max |-> s.max,
                 principal |-> s.principal, edits |-> s.delta]]
    <3>1. TypeInv
      BY <1>0
    <3>2. Goto(t, step, s) /\ caller' = [caller EXCEPT ![t] = by]
      BY <1>2
    <3>3. heldCopies' = [heldCopies EXCEPT ![t] =
             IF step = "idle" \/ by = "delete" \/ step \in DeleteStep
             THEN Store!NoCopy
             ELSE [id |-> s.id, last |-> s.last, max |-> s.max,
                   principal |-> s.principal, edits |-> s.delta]]
      BY <3>1, <3>2, CopyMoved
    <3> QED
      BY <2>1, <3>3
  <2>3. heldCopies[t] =
           IF by = "delete" THEN Store!NoCopy
           ELSE [id |-> s.id, last |-> s.last, max |-> s.max,
                 principal |-> s.principal, edits |-> s.delta]
    BY <1>0, <1>2, <2>1, CopyShown DEF Deleting
  <2>4. UNCHANGED doomedIds
    BY <1>0, <1>2, <2>1, DoomKept
  <2> QED
    BY <1>2, <2>2, <2>3, <2>4, NothingShown DEF heldCopies
<1>3. caller' = caller => caller' = [caller EXCEPT ![t] = caller[t]]
  BY <1>0 DEF TypeInv, TypeOK
<1>4. CASE RemoveOldPrincipal(t)
  <2> DEFINE r == [session[t] EXCEPT !.originalPrincipal = session[t].principal]
  <2>1. /\ r.id = session[t].id /\ r.last = session[t].last /\ r.max = session[t].max
        /\ r.principal = session[t].principal /\ r.delta = session[t].delta
    BY <1>0 DEF RedisSession
  <2>2. /\ Goto(t, "index", r) /\ "index" \in SaveStep \ {"hmset"}
        /\ pc[t] \in SaveStep \ {"hmset"} /\ caller' = caller /\ UNCHANGED <<now, hash, used>>
    BY <1>4 DEF RemoveOldPrincipal, Saving, SaveStep
  <2> HIDE DEF r
  <2> QED
    BY <1>2, <1>3, <2>1, <2>2
<1>5. CASE AddNewPrincipal(t) \/ LeaveOldBucket(t) \/ EnterBucket(t) \/ WriteShadow(t)
           \/ ExtendShadow(t) \/ ExtendHash(t)
  <2>1. PICK step \in {"unbucket", "append", "bucket", "shadowTtl", "hashTtl",
                       "return"} : Goto(t, step, session[t])
    BY <1>5 DEF AddNewPrincipal, LeaveOldBucket, EnterBucket, WriteShadow, ExtendShadow,
       ExtendHash
  <2>2. /\ step \in SaveStep \ {"hmset"} /\ pc[t] \in SaveStep \ {"hmset"}
        /\ caller' = caller /\ UNCHANGED <<now, hash, used>>
    BY <1>5 DEF AddNewPrincipal, LeaveOldBucket, EnterBucket, WriteShadow, ExtendShadow,
       ExtendHash, Saving, SaveStep
  <2> QED
    BY <1>2, <1>3, <2>1, <2>2
<1>6. CASE Return(t)
  <2>0. /\ pc[t] = "return" /\ pc[t] \in SaveStep \ {"hmset"}
        /\ UNCHANGED <<now, hash, used>>
    BY <1>6 DEF Return, SaveStep
  <2>1. CASE caller[t] = "delete"
    <3>1. Goto(t, "idle", NoSession) /\ caller' = [caller EXCEPT ![t] = "save"]
      BY <1>6, <2>1 DEF Return, GoIdle
    <3>2. heldCopies' = [heldCopies EXCEPT ![t] = Store!NoCopy]
      BY <1>0, <3>1, CopyMoved
    <3>3. heldCopies[t] = Store!NoCopy
      BY <2>1, CopyShown DEF Deleting
    <3>4. ~Dooming("idle", "save") /\ ~Dooming(pc[t], caller[t])
      BY <2>0 DEF Dooming, DeleteStep
    <3>5. UNCHANGED doomedIds
      BY <1>0, <3>1, <3>4, DoomKept
    <3> QED
      BY <2>0, <3>2, <3>3, <3>5, NothingShown DEF heldCopies
  <2>2. CASE caller[t] # "delete"
    <3> DEFINE r == [session[t] EXCEPT !.isNew = @ /\ caller[t] = "setter"]
    <3>1. /\ r.id = session[t].id /\ r.last = session[t].last
          /\ r.max = session[t].max /\ r.principal = session[t].principal
          /\ r.delta = session[t].delta
      BY <1>0 DEF RedisSession
    <3>2. Goto(t, "edit", r) /\ caller' = [caller EXCEPT ![t] = "save"]
      BY <1>6, <2>2 DEF Return
    <3> HIDE DEF r
    <3> QED
      BY <1>2, <2>0, <2>2, <3>1, <3>2
  <2> QED
    BY <2>1, <2>2
<1> QED
  BY <1>0, <1>1, <1>4, <1>5, <1>6 DEF Command

\* The HMSET is the whole save, or the whole deletion.
LEMMA HmsetShown ==
    ASSUME IInv, NEW t \in Threads, PutAll(t)
    PROVE  Store!Next
<1> DEFINE s == session[t]
<1>0. /\ TypeInv /\ Inv /\ pc[t] = "hmset" /\ Holds(t) /\ s \in RedisSession
      /\ s.id \in Ids /\ hash \in [Ids -> HashValue]
      /\ UNCHANGED <<now, used, caller>>
  BY Parts, BusyType
  DEF PutAll, Saving, Inv, ThreadInv, IInv, TypeOK, RedisTypeOK
<1>a. PICK id \in Ids : id = s.id
  BY <1>0
<1> DEFINE v == storedValues[id]
<1>1. PICK step \in {"unindex", "unbucket"} : Goto(t, step, [s EXCEPT !.delta = {}])
  BY DEF PutAll
<1>2. step \notin DeleteStep /\ step # "idle" /\ pc[t] \notin DeleteStep
  BY <1>0 DEF DeleteStep
<1>3. /\ heldCopies' = [heldCopies EXCEPT ![t] =
         IF caller[t] = "delete" THEN Store!NoCopy
         ELSE [id |-> s.id, last |-> s.last, max |-> s.max,
               principal |-> s.principal, edits |-> {}]]
      /\ doomedIds' = [doomedIds EXCEPT ![t] = NoId]
  <2>0. PICK r : r = [s EXCEPT !.delta = {}]
    OBVIOUS
  <2>1. /\ r.id = s.id /\ r.last = s.last /\ r.max = s.max
        /\ r.principal = s.principal /\ r.delta = {}
    BY <1>0, <2>0 DEF RedisSession
  <2>2. caller' = [caller EXCEPT ![t] = caller[t]]
    BY <1>0 DEF TypeInv, TypeOK
  <2>3. Goto(t, step, r)
    BY <1>1, <2>0
  <2> QED
    <3>1. PICK by : by = caller[t]
      OBVIOUS
    <3>2. caller' = [caller EXCEPT ![t] = by]
      BY <2>2, <3>1
    <3>3. heldCopies' = [heldCopies EXCEPT ![t] =
             IF step = "idle" \/ by = "delete" \/ step \in DeleteStep
             THEN Store!NoCopy
             ELSE [id |-> r.id, last |-> r.last, max |-> r.max,
                   principal |-> r.principal, edits |-> r.delta]]
      <4>1. TypeInv
        BY <1>0
      <4> QED
        BY <2>3, <3>2, <4>1, CopyMoved
    <3>4. ~Dooming(step, by)
      BY <1>2 DEF Dooming
    <3>5. doomedIds' = [doomedIds EXCEPT ![t] = NoId]
      BY <1>0, <2>3, <3>2, <3>4, DoomMoved
    <3> QED
      BY <1>2, <2>1, <3>1, <3>3, <3>5
<1>4. /\ hash'[id] = [fields |-> hash[id].fields \cup s.delta,
                        max |-> IF "max" \in s.delta THEN s.max ELSE hash[id].max,
                        last |-> IF "last" \in s.delta THEN s.last
                                                       ELSE hash[id].last,
                        principal |-> IF "principal" \in s.delta
                                      THEN s.principal ELSE hash[id].principal]
      /\ \A i \in Ids : i # id => hash'[i] = hash[i]
  BY <1>0, <1>a DEF PutAll, Hmset
<1>5. \A i \in Ids : i # id => storedValue(i)' = storedValue(i)
  BY <1>4 DEF storedValue, Exists
<1>6. ASSUME NEW w, storedValue(id)' = w
      PROVE  storedValues' = [storedValues EXCEPT ![id] = w]
  BY <1>0, <1>5, <1>6 DEF storedValues
<1>7. v = storedValue(id)
  BY <1>0 DEF storedValues
<1>8. CASE caller[t] = "delete"
  <2>1. hash'[id].max = 0
    BY <1>0, <1>a, <1>4, <1>8 DEF Holds
  <2>2. storedValue(id)' = Store!NotStored
    BY <2>1 DEF storedValue, Store!NotStored
  <2>3. storedValues' = [storedValues EXCEPT ![id] = Store!NotStored]
    BY <1>6, <2>2
  <2>4. heldCopies' = heldCopies
    BY <1>3, <1>8, CopyShown DEF Deleting, heldCopies
  <2>5. doomedIds[t] = id /\ id # NoId
    BY <1>0, <1>a, <1>8, DoomShown, RepositoryAssumption DEF Dooming
  <2>6. Store!Delete(t)
    BY <1>0, <1>3, <2>3, <2>4, <2>5 DEF Store!Delete
  <2> QED
    BY <2>6 DEF Store!Next
<1>9. CASE caller[t] # "delete"
  <2>1. ~Deleting(t) /\ s.max = DefaultInterval /\ DefaultInterval # 0
    BY <1>0, <1>2, <1>9, ConstantsAssumption DEF Deleting, Holds
  <2> DEFINE c == [id |-> s.id, last |-> s.last, max |-> s.max,
                   principal |-> s.principal, edits |-> s.delta]
  <2>2. heldCopies[t] = c /\ c # Store!NoCopy
    BY <1>0, <2>1, CopyShown, RepositoryAssumption DEF Store!NoCopy
  <2>3. storedValue(id)' = Store!Written(v, c)
    <3>1. CASE "max" \in s.delta
      <4>1. Whole \subseteq s.delta /\ hash[id] = NoHash /\ ~Exists(id)
        BY <1>0, <1>a, <2>1, <3>1 DEF Inv, UnwrittenInv, Unwritten, HashInv
      <4>2. v = Store!NotStored
        BY <1>7, <4>1 DEF storedValue, Store!NotStored
      <4>3. Exists(id)' /\ hash'[id].max # 0
        BY <1>4, <2>1, <3>1 DEF Exists
      <4>4. hash'[id].last = s.last /\ hash'[id].max = s.max
            /\ hash'[id].principal = IF "principal" \in s.delta THEN s.principal
                                       ELSE NoPrincipal
        BY <1>4, <4>1, <3>1 DEF Whole, NoHash
      <4>5. storedValue(id)' =
              [stored |-> TRUE, last |-> s.last, max |-> s.max,
               principal |-> IF "principal" \in s.delta THEN s.principal
                             ELSE NoPrincipal]
        BY <4>3, <4>4 DEF storedValue
      <4>6. Store!Written(v, c) = Store!Merge(v, c)
        BY <4>1 DEF Store!Written, Store!Whole, Whole
      <4>7. /\ "last" \in s.delta /\ "max" \in s.delta
            /\ v.principal = NoPrincipal
        BY <4>1, <4>2 DEF Whole, Store!NotStored
      <4>8. Store!Merge(v, c) =
              [stored |-> TRUE, last |-> s.last, max |-> s.max,
               principal |-> IF "principal" \in s.delta THEN s.principal
                             ELSE NoPrincipal]
        BY <4>7 DEF Store!Merge
      <4> QED
        BY <4>5, <4>6, <4>8
    <3>2. CASE "max" \notin s.delta
      <4>1. Exists(id)
        BY <1>0, <1>a, <2>1, <3>2 DEF Inv, InFlightInv, InFlight, Secured
      <4>2. Exists(id)'
        BY <1>4, <4>1 DEF Exists
      <4>3. hash'[id].max = hash[id].max
        BY <1>4, <3>2
      <4>4. CASE hash[id].max = 0
        <5>1. v = Store!NotStored /\ storedValue(id)' = Store!NotStored
          BY <1>7, <4>3, <4>4 DEF storedValue, Store!NotStored
        <5> QED
          BY <3>2, <5>1 DEF Store!Written, Store!Whole, Store!NotStored
      <4>5. CASE hash[id].max # 0
        <5>1. v = [stored |-> TRUE, last |-> hash[id].last,
                   max |-> hash[id].max, principal |-> hash[id].principal]
          BY <1>7, <4>1, <4>5 DEF storedValue
        <5>2. storedValue(id)' =
                [stored |-> TRUE, last |-> hash'[id].last,
                 max |-> hash'[id].max, principal |-> hash'[id].principal]
          BY <4>2, <4>3, <4>5 DEF storedValue
        <5> QED
          BY <1>4, <3>2, <5>1, <5>2 DEF Store!Written, Store!Merge
      <4> QED
        BY <4>4, <4>5
    <3> QED
      BY <3>1, <3>2
  <2>4. storedValues' = [storedValues EXCEPT ![id] = Store!Written(v, c)]
    BY <1>6, <2>3
  <2>5. heldCopies' = [heldCopies EXCEPT ![t] = [c EXCEPT !.edits = {}]]
    BY <1>3, <1>9
  <2>6. Store!save(t)
    <3>1. heldCopies[t].id = id
      BY <1>a, <2>2
    <3>2. UNCHANGED doomedIds
      <4>1. doomedIds[t] = NoId
        BY <1>2, <1>9, DoomShown DEF Dooming
      <4> QED
        BY <1>3, <4>1 DEF doomedIds
    <3> HIDE DEF c
    <3> QED
      BY <1>0, <2>2, <2>4, <2>5, <3>1, <3>2 DEF Store!save, Store!Hold
  <2> QED
    BY <2>6 DEF Store!Next
<1> QED
  BY <1>8, <1>9

-----------------------------------------------------------------------------
(* Redis and the clock *)

\* Redis evicts no hash of a session that findById would return: a live session
\* is kept, or about to be kept, for longer than its interval and the requests.
LEMMA EvictShown ==
    ASSUME Undisturbed, IInv, NEW id \in Ids, ExpireHash(id),
           UNCHANGED <<pc, session, caller, used>>
    PROVE  Store!Next
<1>0. /\ TypeInv /\ Inv /\ now \in Nat /\ hash \in [Ids -> HashValue]
      /\ hashTtl \in [Ids -> Nat \cup {NoTtl}] /\ start \in [Threads -> Nat]
      /\ Grace \in Nat /\ MaxRequest \in Nat /\ MaxRequest < Grace
      /\ DefaultInterval \in Int /\ DefaultInterval > 0
  BY Parts, ConstantsAssumption, RepositoryAssumption
  DEF IInv, TypeOK, RedisTypeOK, Undisturbed
<1>1. /\ storedValues' = [storedValues EXCEPT ![id] = Store!NotStored]
      /\ UNCHANGED <<now, heldCopies, doomedIds, used>>
  <2>1. hash' = [hash EXCEPT ![id] = NoHash]
    BY DEF ExpireHash
  <2>2. storedValue(id)' = Store!NotStored
    BY <1>0, <2>1 DEF storedValue, Exists, NoHash, Store!NotStored
  <2>3. \A i \in Ids : i # id => storedValue(i)' = storedValue(i)
    BY <1>0, <2>1 DEF storedValue, Exists
  <2> QED
    BY <2>2, <2>3, NothingShown DEF storedValues, ExpireHash
<1>2. ~Store!Live(id)
  <2> SUFFICES ASSUME Exists(id), hash[id].max # 0
               PROVE  /\ hash[id].max >= 0
                      /\ now - hash[id].max >= hash[id].last
    BY DEF Store!Live, Store!isExpired, storedValues, storedValue
  <2>1. hash[id].max = DefaultInterval /\ hash[id].last \in Nat
    BY <1>0 DEF Inv, HashInv, HashValue
  <2>2. hashTtl[id] # NoTtl /\ hashTtl[id] <= now /\ hashTtl[id] \in Nat
    BY <1>0 DEF ExpireHash, Due
  <2>3. ASSUME NEW w \in Threads, InWindow(w), Outlives(id, w)
        PROVE  FALSE
    <3>1. pc[w] # "idle"
      BY <2>3 DEF InWindow
    <3>2. now <= start[w] + MaxRequest /\ hashTtl[id] >= start[w] + Grace
      BY <1>0, <2>3, <3>1 DEF Inv, ThreadInv, Holds, Outlives
    <3> QED
      BY <1>0, <2>2, <3>2
  <2>4. hashTtl[id] >= hash[id].last + DefaultInterval + Grace
    BY <1>0, <2>2, <2>3 DEF Inv, KeptInv
  <2> QED
    BY <1>0, <2>1, <2>2, <2>4
<1>3. Store!Evict(id)
  BY <1>1, <1>2 DEF Store!Evict
<1> QED
  BY <1>3 DEF Store!Next

\* Every step is a step of SessionStore.
LEMMA StepShown ==
    ASSUME Undisturbed, IInv, [Next]_vars
    PROVE  Store!Next
<1>1. ASSUME NEW t \in Threads, Call(t)
      PROVE  Store!Next
  <2>1. \A id \in Ids : ~changeSessionId(t, id)
    BY DEF changeSessionId, Undisturbed
  <2>2. \A max \in SetIntervals : FALSE
    BY DEF Undisturbed
  <2> QED
    BY <1>1, <2>1, <2>2, Parts, CreateShown, FindShown, EditShown DEF Call
<1>2. ASSUME NEW t \in Threads, Command(t)
      PROVE  Store!Next
  BY <1>2, HmsetShown, CommandShown DEF Store!Next
<1>3. ASSUME NEW t \in Threads, EndRequest(t)
      PROVE  Store!Next
  BY <1>3, EditShown
<1>4. ASSUME NEW t \in Threads
      PROVE  ~Crash(t)
  BY DEF Crash, Undisturbed, IInv, TypeOK
<1>5. ASSUME UNCHANGED <<now, hash, pc, session, caller, used>>
      PROVE  Store!Next
  BY <1>5, NothingShown DEF Store!Next, Store!storeVars
<1>6. CASE Clean
  BY <1>5, <1>6
  DEF Clean, CleanRead, CleanDelete, CleanTouch, redisVars, threadVars
<1>7. CASE Listen
  BY <1>5, <1>7
  DEF Listen, Receive, CleanIndexAndPublish, Lose, redisVars, threadVars
<1>8. CASE Expire
  <2>1. UNCHANGED <<pc, session, caller, used>>
    BY <1>8 DEF Expire, threadVars
  <2> QED
    BY <1>5, <1>8, <2>1, EvictShown DEF Expire, ExpireShadow, ExpireBucket
<1>9. CASE Tick
  <2>1. now' = now + 1 /\ UNCHANGED <<hash, pc, session, caller, used>>
    BY <1>9 DEF Tick, threadVars
  <2> QED
    BY <2>1, NothingShown DEF Store!Next, Store!Tick
<1>10. CASE UNCHANGED vars
  BY <1>5, <1>10 DEF vars, redisVars, threadVars
<1> QED
  BY <1>1, <1>2, <1>3, <1>4, <1>6, <1>7, <1>8, <1>9, <1>10 DEF Next

\* No session is stored or held at first.
LEMMA InitShown == Init => Store!Init
  BY DEF Init, RedisInit, Store!Init, Store!NotStored, Store!NoCopy, storedValues,
         storedValue, Exists, NoHash, heldCopies, heldCopy, Deleting, doomedIds,
         doomedId, DeleteStep

\* The repository implements SessionStore: seen by the requests, sessions are
\* loaded, saved field by field, deleted and expired in single steps, whatever
\* the interleaving of the Redis commands these steps really take.
THEOREM RepositoryImplementsStore == Undisturbed => (Spec => ImplementsStore)
<1>1. ASSUME Undisturbed
      PROVE  IInv /\ [Next]_vars => [Store!Next]_(Store!storeVars)
  BY <1>1, StepShown
<1>2. ASSUME Undisturbed
      PROVE  Spec => Store!Spec
  <2>1. Spec => []IInv
    BY <1>2, InvariantHolds
  <2>2. IInv /\ [Next]_vars => [Store!Next]_(Store!storeVars)
    BY <1>1, <1>2
  <2> QED
    BY <2>1, <2>2, InitShown, PTL DEF Spec, Store!Spec
<1> QED
  BY <1>2 DEF ImplementsStore

Gone == INSTANCE SessionStoreProofs WITH
           store <- storedValues, copy <- heldCopies, doomed <- doomedIds,
           WritesUnchanged <- FALSE

\* The hash of a session that has been saved before is gone, or has the zero interval
\* of a deletion.
IsGone(id) == Store!Settled(id) /\ ~storedValues[id].stored

\* A session that was deleted, or whose hash Redis has evicted, never comes back:
\* whichever request saves a copy of it how much later, findById does not return
\* it again.  Nothing of the kind holds of a session that has only expired: during
\* the five minutes that its hash stays, the save of a request that had loaded and
\* touched it makes findById return it again.
THEOREM GoneSessionsOfRedisStayGone ==
    Undisturbed => (Spec => \A id \in Ids : [](IsGone(id) => []~Found(id)))
<1>1. Gone!Parameters
  BY RepositoryAssumption, ConstantsAssumption DEF Gone!Parameters
<1>2. Gone!Spec => Gone!GoneStaysGone
  BY <1>1, Gone!GoneSessionsStayGone
<1>3. Store!Init <=> Gone!Init
  BY DEF Store!Init, Gone!Init, Store!NotStored, Gone!NotStored, Store!NoCopy, Gone!NoCopy
<1>4. [Store!Next]_(Store!storeVars) <=> [Gone!Next]_(Gone!storeVars)
  BY DEF Store!Next, Gone!Next, Store!storeVars, Gone!storeVars,
      Store!createSession, Gone!createSession, Store!findById,
      Gone!findById, Store!setPrincipal, Gone!setPrincipal,
      Store!setMaxInactiveInterval, Gone!setMaxInactiveInterval,
      Store!save, Gone!save, Store!deleteById, Gone!deleteById,
      Store!Delete, Gone!Delete, Store!Miss, Gone!Miss, Store!Evict, Gone!Evict, Store!Drop, Gone!Drop, Store!Tick,
      Gone!Tick, Store!Change, Gone!Change, Store!Edit, Gone!Edit, Store!Others, Gone!Others, Store!Hold, Gone!Hold,
      Store!Live, Gone!Live, Store!isExpired, Gone!isExpired, Store!Whole,
      Gone!Whole, Store!NoCopy, Gone!NoCopy, Store!NotStored, Gone!NotStored,
      Store!Written, Gone!Written, Store!Merge, Gone!Merge
<1>5. Store!GoneStaysGone <=> Gone!GoneStaysGone
  BY DEF Store!GoneStaysGone, Gone!GoneStaysGone, Store!Settled, Gone!Settled
<1>6. Store!Spec <=> Gone!Spec
  BY <1>3, <1>4, PTL DEF Store!Spec, Gone!Spec
<1>7. Undisturbed /\ Spec => Store!GoneStaysGone
  BY <1>2, <1>5, <1>6, RepositoryImplementsStore DEF ImplementsStore
<1>8. ASSUME Undisturbed, NEW id \in Ids
      PROVE  Spec => [](IsGone(id) => []~Found(id))
  <2>1. Spec => [](IsGone(id) => [](~storedValues[id].stored))
    BY <1>7, <1>8 DEF Store!GoneStaysGone, IsGone
  <2>2. IInv /\ ~storedValues[id].stored => ~Found(id)
    BY FoundShown DEF Store!Live
  <2>3. Spec => []IInv
    BY <1>8, InvariantHolds
  <2> QED
    BY <2>1, <2>2, <2>3, PTL
<1>9. ASSUME Undisturbed
      PROVE  Spec => \A id \in Ids : [](IsGone(id) => []~Found(id))
  BY <1>8, <1>9
<1> QED
  BY <1>9
=============================================================================
