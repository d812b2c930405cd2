------------------------ MODULE RedisDeletionProofs ------------------------
(***************************************************************************)
(* A deleted session stays dead, and no session is born from a late save:  *)
(* the invariant IInv of RedisSessionsInv is inductive.                    *)
(***************************************************************************)
EXTENDS RedisSessionsProofs

\* The parts of IInv that are not about types.
Inv == ThreadInv /\ HashInv /\ UnwrittenInv /\ InFlightInv /\ KeptInv /\ TombstoneInv

\* Nothing is stored, held or deleted at first.
LEMMA InvInit == Init => Inv
  BY DEF Init, RedisInit, Inv, ThreadInv, HashInv, UnwrittenInv, InFlightInv, KeptInv,
         TombstoneInv, Unwritten, InFlight, Exists, NoHash, NoSession

\* A step that touches neither threads nor hashes keeps the invariant.
LEMMA Elsewhere ==
    ASSUME Inv, UNCHANGED <<now, hash, hashTtl, pc, session, caller, start, used,
                            deleted>>
    PROVE  Inv'
  BY DEF Inv, ThreadInv, Holds, HashInv, UnwrittenInv, InFlightInv, KeptInv, TombstoneInv,
         Unwritten, InFlight, Exists, Deleting, InWindow, Outlives, Holds, Secured

\* A step of one thread that leaves the hashes alone, keeps what the thread holds
\* and stays in the window keeps the invariant.
LEMMA WithinWindow ==
    ASSUME TypeInv, Inv, NEW t \in Threads, InWindow(t),
           UNCHANGED <<now, hash, hashTtl, caller, start, used, deleted>>,
           NEW step \in {"index", "unbucket", "bucket", "append", "shadowTtl",
                         "hashTtl"},
           NEW s \in RedisSession, Goto(t, step, s),
           s.id = session[t].id, s.originalId = session[t].originalId,
           s.last = session[t].last, s.max = session[t].max,
           s.delta = session[t].delta
    PROVE  Inv'
<1>1. \A u \in Threads :
        /\ session'[u].id = session[u].id
        /\ session'[u].originalId = session[u].originalId
        /\ session'[u].last = session[u].last
        /\ session'[u].max = session[u].max
        /\ session'[u].delta = session[u].delta
        /\ (pc'[u] = "idle") = (pc[u] = "idle")
        /\ (pc'[u] = "hmset") = (pc[u] = "hmset")
        /\ (pc'[u] \in {"edit", "hmset"}) = (pc[u] \in {"edit", "hmset"})
        /\ (pc'[u] \in {"rename", "failed"}) = (pc[u] \in {"rename", "failed"})
        /\ (pc'[u] \in SaveStep) = (pc[u] \in SaveStep)
        /\ (pc'[u] \in DeleteStep) = (pc[u] \in DeleteStep)
        /\ InWindow(u)' = InWindow(u)
        /\ caller'[u] = caller[u]
  BY DEF TypeInv, TypeOK, Goto, InWindow, SaveStep, DeleteStep
<1>2. \A u \in Threads :
        /\ Deleting(u)' = Deleting(u)
        /\ InFlight(u)' = InFlight(u)
        /\ Unwritten(u)' = Unwritten(u)
        /\ \A id \in Ids : Outlives(id, u)' = Outlives(id, u)
  BY <1>1 DEF Deleting, InFlight, Unwritten, Outlives
<1>3. ThreadInv' /\ HashInv'
  BY <1>1, <1>2 DEF Inv, ThreadInv, Holds, HashInv, Exists
<1>4. UnwrittenInv'
  BY <1>1, <1>2 DEF Inv, UnwrittenInv, Exists
<1>5. \A u \in Threads : InFlight(u) => session[u].id \in Ids
  BY DEF InFlight, TypeInv
<1>6. InFlightInv'
  BY <1>1, <1>2, <1>5 DEF Inv, InFlightInv, Secured, Exists
<1>7. KeptInv'
  BY <1>1, <1>2 DEF Inv, KeptInv, Exists
<1>8. TombstoneInv'
  BY <1>1 DEF Inv, TombstoneInv, Exists
<1> QED
  BY <1>3, <1>4, <1>6, <1>7, <1>8 DEF Inv

\* The commands between the HMSET and the EXPIRE of the hash touch the index, the
\* buckets and the shadow key only: the hashes stay as they are.
LEMMA WindowSteps ==
    ASSUME TypeInv, Inv, NEW t \in Threads,
           \/ RemoveOldPrincipal(t) \/ AddNewPrincipal(t) \/ LeaveOldBucket(t)
           \/ EnterBucket(t) \/ WriteShadow(t) \/ ExtendShadow(t)
    PROVE  Inv'
<1> DEFINE s == session[t]
<1>1. /\ InWindow(t) /\ s \in RedisSession
      /\ UNCHANGED <<now, hash, hashTtl, caller, start, used, deleted>>
  BY DEF RemoveOldPrincipal, AddNewPrincipal, LeaveOldBucket, EnterBucket, WriteShadow,
         ExtendShadow, Saving, InWindow, historyVars, TypeInv, TypeOK
<1>2. CASE RemoveOldPrincipal(t)
  <2> DEFINE r == [s EXCEPT !.originalPrincipal = s.principal]
  <2>1. r \in RedisSession /\ Goto(t, "index", r)
    BY <1>1, <1>2 DEF RemoveOldPrincipal, RedisSession
  <2>2. /\ r.id = s.id /\ r.originalId = s.originalId
        /\ r.last = s.last /\ r.max = s.max /\ r.delta = s.delta
    BY <1>1 DEF RedisSession
  <2> HIDE DEF r
  <2> QED
    BY <1>1, <2>1, <2>2, WithinWindow
<1>3. CASE AddNewPrincipal(t)
  BY <1>1, <1>3, WithinWindow DEF AddNewPrincipal
<1>4. CASE LeaveOldBucket(t)
  <2>1. PICK step \in {"append", "bucket"} : Goto(t, step, s)
    BY <1>4 DEF LeaveOldBucket
  <2> QED
    BY <1>1, <2>1, WithinWindow
<1>5. CASE EnterBucket(t)
  BY <1>1, <1>5, WithinWindow DEF EnterBucket
<1>6. CASE WriteShadow(t)
  <2>1. PICK step \in {"hashTtl", "shadowTtl"} : Goto(t, step, s)
    BY <1>6 DEF WriteShadow
  <2> QED
    BY <1>1, <2>1, WithinWindow
<1>7. CASE ExtendShadow(t)
  BY <1>1, <1>7, WithinWindow DEF ExtendShadow
<1> QED
  BY <1>2, <1>3, <1>4, <1>5, <1>6, <1>7
\* Editing a session or starting to save it keeps the invariant.
LEMMA EditStep ==
    ASSUME TypeInv, Inv, NEW t \in Threads, pc[t] \in {"edit", "return"},
           caller[t] # "delete",
           UNCHANGED <<now, hash, hashTtl, start, used, deleted>>,
           NEW step \in {"edit", "hmset", "return"},
           NEW s \in RedisSession, Goto(t, step, s),
           NEW by, by # "delete", caller' = [caller EXCEPT ![t] = by],
           s.id = session[t].id, s.originalId = session[t].originalId,
           s.last = session[t].last, s.max = session[t].max,
           session[t].delta \subseteq s.delta,
           "max" \in s.delta => "max" \in session[t].delta /\ pc[t] = "edit",
           step = "return" => s.delta = {}
    PROVE  Inv'
<1>1. \A u \in Threads :
        /\ session'[u].id = session[u].id
        /\ session'[u].originalId = session[u].originalId
        /\ session'[u].last = session[u].last
        /\ session'[u].max = session[u].max
        /\ session[u].delta \subseteq session'[u].delta
        /\ ("max" \in session'[u].delta) = ("max" \in session[u].delta)
        /\ (pc'[u] = "idle") = (pc[u] = "idle")
        /\ InWindow(u)' = InWindow(u)
  BY DEF TypeInv, TypeOK, Goto, InWindow
<1>2. \A u \in Threads : u # t =>
        pc'[u] = pc[u] /\ session'[u] = session[u] /\ caller'[u] = caller[u]
  BY DEF TypeInv, TypeOK, Goto
<1>3. pc'[t] = step /\ session'[t] = s /\ caller'[t] = by
  BY DEF TypeInv, TypeOK, Goto
<1>4. caller[t] # "delete"
  OBVIOUS
<1>5. \A u \in Threads :
        /\ Deleting(u)' = Deleting(u)
        /\ InFlight(u)' = InFlight(u)
        /\ Unwritten(u)' = Unwritten(u)
        /\ \A id \in Ids : Outlives(id, u)' = Outlives(id, u)
  BY <1>1, <1>2, <1>3, <1>4 DEF Deleting, InFlight, Unwritten, Outlives, DeleteStep
<1>6. ThreadInv'
  BY <1>1, <1>2, <1>3, <1>4, <1>5 DEF Inv, ThreadInv, Holds, DeleteStep
<1>7. HashInv' /\ KeptInv'
  BY <1>1, <1>5 DEF Inv, HashInv, KeptInv, Exists
<1>8. UnwrittenInv'
  BY <1>1, <1>5 DEF Inv, UnwrittenInv, Exists
<1>9. \A u \in Threads : InFlight(u) => session[u].id \in Ids
  BY DEF InFlight, TypeInv
<1>10. InFlightInv'
  BY <1>1, <1>5, <1>9 DEF Inv, InFlightInv, Secured, Exists
<1>11. TombstoneInv'
  BY <1>2, <1>3, <1>1 DEF Inv, TombstoneInv, Exists
<1> QED
  BY <1>6, <1>7, <1>8, <1>10, <1>11 DEF Inv

\* A save of a session whose id is its original one goes on with the HMSET or,
\* if there is nothing to write, returns.
LEMMA SaveDeltaShape ==
    ASSUME NEW t, NEW s, NEW by, saveDelta(t, s, by), s.id = s.originalId
    PROVE  /\ Goto(t, IF s.delta = {} THEN "return" ELSE "hmset", s)
           /\ caller' = [caller EXCEPT ![t] = by]
  BY DEF saveDelta, afterRename

\* Setting a field adds it to the delta, and flushes it at once or goes on editing.
LEMMA PutShape ==
    ASSUME TypeInv, NEW t \in Threads, NEW s \in RedisSession, NEW f \in Field,
           putAndFlush(t, s, f), s.id = s.originalId, caller[t] # "delete"
    PROVE  \E step \in {"edit", "hmset"}, by \in {"setter", "save"} :
              /\ Goto(t, step, [s EXCEPT !.delta = @ \cup {f}])
              /\ caller' = [caller EXCEPT ![t] = by]
<1> DEFINE put == [s EXCEPT !.delta = @ \cup {f}]
<1>1. put.id = put.originalId /\ put.delta # {}
  BY DEF RedisSession
<1>2. CASE FlushMode = "IMMEDIATE"
  <2>1. saveDelta(t, put, "setter")
    BY <1>2 DEF putAndFlush
  <2> HIDE DEF put
  <2>2. Goto(t, "hmset", put) /\ caller' = [caller EXCEPT ![t] = "setter"]
    BY <1>1, <2>1, SaveDeltaShape
  <2> QED
    BY <2>2 DEF put
<1>3. CASE FlushMode # "IMMEDIATE"
  <2>1. Goto(t, "edit", put) /\ caller' = caller
    BY <1>3 DEF putAndFlush
  <2>2. caller[t] \in {"setter", "save"} /\ caller = [caller EXCEPT ![t] = caller[t]]
    BY DEF TypeInv, TypeOK
  <2> QED
    BY <2>1, <2>2
<1> QED
  BY <1>2, <1>3

\* The application edits a session or calls save: no hash changes yet.
LEMMA EditSteps ==
    ASSUME TypeInv, Inv, NEW t \in Threads,
           (\E p \in SetPrincipals : setPrincipal(t, p)) \/ save(t)
    PROVE  Inv'
<1>1. /\ pc[t] = "edit" /\ session[t] \in RedisSession
      /\ UNCHANGED <<now, hash, hashTtl, start, used, deleted>>
  BY DEF setPrincipal, save, Editing, redisVars, TypeInv, TypeOK
<1>2. /\ session[t].id = session[t].originalId
      /\ caller[t] # "delete"
      /\ "max" \in session[t].delta => "max" \in session[t].delta
  BY <1>1 DEF Inv, ThreadInv, Holds, SaveStep
<1>3. ASSUME NEW p \in SetPrincipals, setPrincipal(t, p)
      PROVE  Inv'
  <2> DEFINE s == [session[t] EXCEPT !.principal = p]
             r == [s EXCEPT !.delta = @ \cup {"principal"}]
  <2>1. s \in RedisSession /\ s.id = s.originalId /\ "principal" \in Field
    BY <1>1, <1>2, RepositoryAssumption DEF RedisSession, Field
  <2>2. putAndFlush(t, s, "principal")
    BY <1>3 DEF setPrincipal
  <2>3. /\ r \in RedisSession
        /\ r.id = session[t].id /\ r.originalId = session[t].originalId
        /\ r.last = session[t].last /\ r.max = session[t].max
        /\ r.delta = session[t].delta \cup {"principal"}
    BY <1>1, RepositoryAssumption DEF RedisSession, Field
  <2> HIDE DEF s
  <2>4. PICK step \in {"edit", "hmset"}, by \in {"setter", "save"} :
          Goto(t, step, r) /\ caller' = [caller EXCEPT ![t] = by]
    BY <1>2, <2>1, <2>2, PutShape
  <2> HIDE DEF r
  <2> QED
    BY <1>1, <1>2, <2>3, <2>4, EditStep
<1>4. CASE save(t)
  <2>1. saveDelta(t, session[t], "save")
    BY <1>4 DEF save
  <2>2. PICK step \in {"hmset", "return"} :
          /\ Goto(t, step, session[t]) /\ caller' = [caller EXCEPT ![t] = "save"]
          /\ step = "return" => session[t].delta = {}
    BY <1>2, <2>1, SaveDeltaShape
  <2> QED
    BY <1>1, <1>2, <2>2, EditStep
<1> QED
  BY <1>3, <1>4

\* A thread that is in no window and ends its request keeps the invariant, also if
\* it has deleted a session whose hash, if any, has a zero interval.
LEMMA LeaveStep ==
    ASSUME TypeInv, Inv, NEW t \in Threads, ~InWindow(t),
           UNCHANGED <<now, hash, hashTtl, used>>,
           pc' = [pc EXCEPT ![t] = "idle"],
           session' = [session EXCEPT ![t] = NoSession],
           caller' = [caller EXCEPT ![t] = "save"],
           start' = [start EXCEPT ![t] = 0],
           \/ deleted' = deleted
           \/ \E id \in used :
                /\ deleted' = deleted \cup {id}
                /\ Exists(id) => hash[id].max = 0
                /\ \A u \in Threads : Unwritten(u) => session[u].id # id
    PROVE  Inv'
<1>1. /\ \A id \in deleted' : Exists(id) => hash[id].max = 0
      /\ deleted' \subseteq used
      /\ \A u \in Threads : Unwritten(u) => session[u].id \notin deleted'
  BY DEF Inv, HashInv, TombstoneInv, UnwrittenInv, TypeInv, TypeOK
<1>2. \A u \in Threads : u # t =>
        /\ pc'[u] = pc[u] /\ session'[u] = session[u]
        /\ caller'[u] = caller[u] /\ start'[u] = start[u]
  OBVIOUS
<1>3. pc'[t] = "idle" /\ caller'[t] = "save" /\ ~InWindow(t) /\ ~InWindow(t)'
      /\ session'[t] = NoSession
  BY DEF TypeInv, TypeOK, InWindow
<1>4. \A u \in Threads : u # t =>
        /\ InWindow(u)' = InWindow(u) /\ Deleting(u)' = Deleting(u)
        /\ InFlight(u)' = InFlight(u) /\ Unwritten(u)' = Unwritten(u)
        /\ \A id \in Ids : Outlives(id, u)' = Outlives(id, u)
  BY <1>2 DEF InWindow, Deleting, InFlight, Unwritten, Outlives
<1>5. ~InFlight(t)' /\ ~Unwritten(t)'
  BY <1>3 DEF InFlight, Unwritten
<1>6. ThreadInv'
  <2>1. ASSUME NEW u \in Threads, u # t, Holds(u)
        PROVE  Holds(u)'
    BY <1>1, <1>2, <1>4, <2>1 DEF Holds
  <2>2. session'[t].id = NoId /\ caller'[t] = "save"
    BY <1>3 DEF NoSession
  <2> QED
    BY <1>2, <1>3, <2>1, <2>2 DEF Inv, ThreadInv
<1>7. HashInv'
  BY <1>1 DEF Inv, HashInv, Exists
<1>8. UnwrittenInv'
  BY <1>1, <1>2, <1>3, <1>4, <1>5, RepositoryAssumption
  DEF Inv, UnwrittenInv, Exists, NoSession, TypeInv, Unwritten
<1>9. \A u \in Threads : InFlight(u) => session[u].id \in Ids
  BY DEF InFlight, TypeInv
<1>10. InFlightInv'
  BY <1>2, <1>3, <1>4, <1>5, <1>9 DEF Inv, InFlightInv, Secured, Exists
<1>11. KeptInv'
  BY <1>1, <1>2, <1>3, <1>4 DEF Inv, KeptInv, Exists
<1>12. TombstoneInv'
  BY <1>1, <1>2, <1>3 DEF Inv, TombstoneInv, Exists
<1> QED
  BY <1>6, <1>7, <1>8, <1>10, <1>11, <1>12 DEF Inv

\* A request that ends gives up its copy of the session.
LEMMA EndStep ==
    ASSUME TypeInv, Inv, NEW t \in Threads, EndRequest(t)
    PROVE  Inv'
  BY LeaveStep
  DEF EndRequest, GoIdle, Goto, redisVars, historyVars, InWindow

\* A thread that starts keeps the invariant if it takes either a new id or a
\* session that findById or deleteById has found.
LEMMA StartStep ==
    ASSUME Undisturbed, TypeInv, Inv, NEW t \in Threads, Begin(t),
           UNCHANGED <<now, hash, hashTtl, deleted>>,
           NEW step \in {"edit", "hmset", "delIndex"},
           NEW s \in RedisSession, Goto(t, step, s), s.id \in Ids,
           NEW by \in {"setter", "save"}, caller' = [caller EXCEPT ![t] = by],
           s.originalId = s.id, s.last <= now,
           used \subseteq used', s.id \in used', used' \subseteq used \cup {s.id},
           \/ s.id \notin used /\ Whole \subseteq s.delta /\ step # "delIndex"
              /\ s.max = DefaultInterval
           \/ step # "delIndex" /\ Found(s.id) /\ "max" \notin s.delta
              /\ s.max = DefaultInterval
           \/ step = "delIndex" /\ Exists(s.id) /\ s.delta = {}
    PROVE  Inv'
<1>0. /\ now \in Nat /\ Grace \in Nat /\ MaxRequest \in Nat
      /\ DefaultInterval \in Int /\ DefaultInterval > 0
      /\ hash \in [Ids -> HashValue] /\ hashTtl \in [Ids -> Nat \cup {NoTtl}]
  BY ConstantsAssumption, RepositoryAssumption DEF TypeInv, TypeOK, RedisTypeOK
<1>1. /\ pc[t] = "idle"
      /\ pc'[t] = step /\ session'[t] = s /\ caller'[t] = by /\ start'[t] = now
      /\ ~InWindow(t) /\ ~InWindow(t)'
  BY DEF Begin, Goto, TypeInv, TypeOK, InWindow
<1>2. \A u \in Threads : u # t =>
        /\ pc'[u] = pc[u] /\ session'[u] = session[u]
        /\ caller'[u] = caller[u] /\ start'[u] = start[u]
  BY DEF Begin, Goto, TypeInv, TypeOK
<1>3. \A u \in Threads : u # t =>
        /\ InWindow(u)' = InWindow(u) /\ Deleting(u)' = Deleting(u)
        /\ InFlight(u)' = InFlight(u) /\ Unwritten(u)' = Unwritten(u)
        /\ \A id \in Ids : Outlives(id, u)' = Outlives(id, u)
  BY <1>2 DEF InWindow, Deleting, InFlight, Unwritten, Outlives
<1>4. Deleting(t)' = (step = "delIndex")
  BY <1>1 DEF Deleting, DeleteStep
<1>5. ThreadInv'
  <2>1. s.max = DefaultInterval \/ step = "delIndex"
    OBVIOUS
  <2>2. s.delta = {} \/ step \in {"edit", "hmset"}
    OBVIOUS
  <2>3. Holds(t)'
    <3>1. pc'[t] = step /\ session'[t] = s /\ caller'[t] = by /\ start'[t] = now
      BY <1>1
    <3>2. /\ by # "delete" /\ step \notin {"rename", "failed"} /\ now' = now
          /\ now <= now + MaxRequest
      BY <1>0
    <3>3. "max" \in s.delta => step \in {"edit", "hmset"}
      BY <2>2
    <3>4. step \in DeleteStep => step = "delIndex" /\ s.delta = {}
      BY <2>2 DEF DeleteStep
    <3>5. ~Deleting(t)' => s.max = DefaultInterval
      BY <1>4, <2>1
    <3> QED
      BY <1>0, <3>1, <3>2, <3>3, <3>4, <3>5 DEF Holds
  <2>4. ASSUME NEW u \in Threads, u # t, Holds(u)
        PROVE  Holds(u)'
    BY <1>0, <1>2, <1>3, <2>4 DEF Holds
  <2> QED
    BY <1>1, <1>2, <2>3, <2>4 DEF Inv, ThreadInv
<1>6. HashInv'
  BY DEF Inv, HashInv, Exists
<1>7. \A u \in Threads : pc[u] # "idle" => session[u].id \in used
  BY DEF Inv, ThreadInv, Holds
<1>8. \A u \in Threads : Unwritten(u) => pc[u] # "idle"
  BY DEF Unwritten
<1>9. Unwritten(t)' => s.id \notin used /\ Whole \subseteq s.delta
  BY <1>1, <1>4 DEF Unwritten
<1>10. UnwrittenInv'
  <2>1. \A u \in Threads : pc[u] = "idle" => session[u].id = NoId
    BY DEF Inv, ThreadInv
  <2>2. \A u \in Threads : Unwritten(u) => Exists(session[u].id) = FALSE
    BY DEF Inv, UnwrittenInv
  <2>3. \A u \in Threads \ {t} : Unwritten(u) => session[u].id # s.id
    BY <1>7, <1>8, <2>2 DEF Found
  <2>4. s.id \notin used => ~Exists(s.id) /\ s.id \notin deleted
    BY DEF Inv, HashInv
  <2> SUFFICES ASSUME NEW u \in Threads, Unwritten(u)'
               PROVE  /\ Whole \subseteq session'[u].delta
                      /\ ~Exists(session[u].id)'
                      /\ session'[u].id \notin deleted'
                      /\ \A v \in Threads : v # u => session'[v].id # session'[u].id
    BY DEF UnwrittenInv
  <2>5. CASE u = t
    BY <2>5, <1>1, <1>2, <1>7, <1>9, <2>1, <2>4, RepositoryAssumption DEF Exists
  <2>6. CASE u # t
    BY <2>6, <1>1, <1>2, <1>3, <2>3 DEF Inv, UnwrittenInv, Exists
  <2> QED
    BY <2>5, <2>6
<1>11. Found(s.id) =>
         \/ hashTtl[s.id] = NoTtl
         \/ hashTtl[s.id] >= now + Grace
         \/ \E w \in Threads : InWindow(w) /\ Outlives(s.id, w)
  <2> SUFFICES ASSUME Found(s.id), hashTtl[s.id] # NoTtl,
                      ~\E w \in Threads : InWindow(w) /\ Outlives(s.id, w)
               PROVE  hashTtl[s.id] >= now + Grace
    OBVIOUS
  <2>1. Exists(s.id) /\ ~(hash[s.id].max >= 0 /\ now - hash[s.id].max >= hash[s.id].last)
    BY <1>0 DEF Found, isExpired, loadSession, Inv, HashInv, Whole
  <2>2. hash[s.id].max = DefaultInterval /\ hash[s.id].last \in Nat
    BY <1>0, <2>1 DEF Inv, HashInv, HashValue
  <2>3. hashTtl[s.id] >= hash[s.id].last + DefaultInterval + Grace
    BY <1>0, <2>1, <2>2 DEF Inv, KeptInv
  <2> QED
    BY <1>0, <2>1, <2>2, <2>3 DEF NoTtl
<1>12. \A u \in Threads : InFlight(u) => session[u].id \in Ids
  BY DEF InFlight, TypeInv
<1>13. InFlight(t)' => Found(s.id)
  BY <1>1, <1>4 DEF InFlight, Whole
<1>14. InFlightInv'
  <2> SUFFICES ASSUME NEW u \in Threads, InFlight(u)'
               PROVE  Secured(u)'
    BY DEF InFlightInv
  <2>1. CASE u = t
    <3>1. Exists(s.id) /\ hashTtl' = hashTtl /\ hash' = hash
      BY <2>1, <1>13 DEF Found
    <3>2. hashTtl[s.id] >= now + Grace => Outlives(s.id, t)'
      BY <1>1 DEF Outlives
    <3>3. \A w \in Threads : InWindow(w) /\ Outlives(s.id, w)
                          => InWindow(w)' /\ Outlives(s.id, w)'
      BY <1>1, <1>3
    <3> QED
      BY <2>1, <1>1, <1>11, <1>13, <3>1, <3>2, <3>3 DEF Secured, Exists
  <2>2. CASE u # t
    BY <2>2, <1>1, <1>2, <1>3, <1>12 DEF Inv, InFlightInv, Secured, Exists
  <2> QED
    BY <2>1, <2>2
<1>15. KeptInv'
  BY <1>1, <1>3 DEF Inv, KeptInv, Exists
<1>16. TombstoneInv'
  BY <1>1, <1>2 DEF Inv, TombstoneInv, Exists
<1> QED
  BY <1>5, <1>6, <1>10, <1>14, <1>15, <1>16 DEF Inv

\* What findById and deleteById load from a hash
LEMMA LoadShape ==
    ASSUME TypeInv, Inv, NEW id \in Ids
    PROVE  /\ loadSession(id) \in RedisSession
           /\ loadSession(id).id = id /\ loadSession(id).originalId = id
           /\ loadSession(id).last <= now /\ loadSession(id).delta = {}
           /\ Exists(id) => id \in used
           /\ Found(id) => Exists(id) /\ loadSession(id).max = DefaultInterval
<1>1. /\ hash \in [Ids -> HashValue] /\ now \in Nat
      /\ hash[id].last <= now
      /\ Exists(id) => id \in used /\ hash[id].max \in {0, DefaultInterval}
  BY DEF TypeInv, TypeOK, RedisTypeOK, Inv, HashInv
<1>2. /\ loadSession(id).last <= now /\ loadSession(id).delta = {}
      /\ loadSession(id).max = hash[id].max
  BY <1>1 DEF loadSession
<1>3. hash[id].max = 0 => isExpired(loadSession(id))
  BY <1>1, <1>2 DEF isExpired, loadSession, HashValue
<1> QED
  BY <1>1, <1>2, <1>3, LoadType DEF Found, TypeInv

\* A thread that creates, finds or deletes a session starts with a copy of a live
\* session or of one nobody knows.
LEMMA StartSteps ==
    ASSUME Undisturbed, TypeInv, Inv, NEW t \in Threads, NEW id \in Ids,
           \/ createSession(t, id)
           \/ \E touch \in Touching : findById(t, id, touch)
           \/ deleteById(t, id)
    PROVE  Inv'
<1>1. /\ Begin(t) /\ UNCHANGED <<now, hash, hashTtl, deleted>>
      /\ pc[t] = "idle" /\ caller[t] = "save" /\ now \in Nat
      /\ caller = [caller EXCEPT ![t] = "save"]
  BY DEF createSession, findById, deleteById, redisVars, historyVars, Inv, ThreadInv, Begin,
         TypeInv, TypeOK, RedisTypeOK
<1>2. CASE createSession(t, id)
  <2> DEFINE s == newSession(id)
             r == [s EXCEPT !.delta = @ \cup {"last"}]
  <2>1. /\ s \in RedisSession /\ s.id = id /\ s.originalId = id /\ "last" \in Field
        /\ s.last = now /\ s.max = DefaultInterval /\ Whole \subseteq s.delta
    BY NewType DEF TypeInv, newSession, Field, Whole
  <2>2. /\ r \in RedisSession /\ r.id = id /\ r.originalId = id /\ r.last <= now
        /\ r.max = DefaultInterval /\ Whole \subseteq r.delta
    <3> HIDE DEF s
    <3> QED
      BY <1>1, <2>1 DEF RedisSession
  <2>3. putAndFlush(t, s, "last") /\ id \notin used /\ used' = used \cup {id}
    BY <1>2 DEF createSession
  <2> HIDE DEF s
  <2>4. PICK step \in {"edit", "hmset"}, by \in {"setter", "save"} :
          Goto(t, step, r) /\ caller' = [caller EXCEPT ![t] = by]
    BY <1>1, <2>1, <2>3, PutShape
  <2> HIDE DEF r
  <2> QED
    BY <1>1, <2>2, <2>3, <2>4, StartStep
<1>3. ASSUME NEW touch \in Touching, findById(t, id, touch)
      PROVE  Inv'
  <2>1. Found(id) /\ used' = used /\ id \in used
    BY <1>3, LoadShape DEF findById
  <2>2. CASE touch
    <3> DEFINE s == [loadSession(id) EXCEPT !.last = now]
               r == [s EXCEPT !.delta = @ \cup {"last"}]
    <3>1. /\ s \in RedisSession /\ s.id = s.originalId /\ "last" \in Field
          /\ s.delta = {} /\ s.id = id /\ s.last = now
          /\ s.max = DefaultInterval
      BY <1>1, <2>1, LoadShape DEF RedisSession, Field
    <3>2. putAndFlush(t, s, "last")
      BY <1>3, <2>2 DEF findById
    <3> HIDE DEF s
    <3>3. /\ r \in RedisSession /\ r.id = id /\ r.originalId = id /\ r.last <= now
          /\ r.max = DefaultInterval /\ "max" \notin r.delta
      <4>1. r.delta = s.delta \cup {"last"} /\ r \in RedisSession
        BY <3>1 DEF RedisSession
      <4>2. r.id = s.id /\ r.originalId = s.originalId /\ r.last = s.last /\ r.max = s.max
        BY <3>1 DEF RedisSession
      <4> QED
        BY <1>1, <3>1, <4>1, <4>2
    <3>4. PICK step \in {"edit", "hmset"}, by \in {"setter", "save"} :
            Goto(t, step, r) /\ caller' = [caller EXCEPT ![t] = by]
      BY <1>1, <3>1, <3>2, PutShape
    <3> HIDE DEF r
    <3> QED
      BY <1>1, <2>1, <3>3, <3>4, StartStep
  <2>3. CASE ~touch
    <3>1. Goto(t, "edit", loadSession(id)) /\ caller' = caller
      BY <1>3, <2>3 DEF findById
    <3> QED
      BY <1>1, <2>1, <3>1, LoadShape, StartStep
  <2> QED
    BY <2>2, <2>3
<1>4. CASE deleteById(t, id)
  <2>1. /\ Exists(id) /\ used' = used /\ caller' = caller
        /\ Goto(t, "delIndex", loadSession(id))
    BY <1>4 DEF deleteById
  <2> QED
    BY <1>1, <2>1, LoadShape, StartStep
<1> QED
  BY <1>2, <1>3, <1>4

\* A step of a deletion before its HMSET keeps the invariant.
LEMMA DeleteSteps ==
    ASSUME TypeInv, Inv, NEW t \in Threads, DeleteFromIndex(t) \/ DeleteShadow(t)
    PROVE  Inv'
<1>0. /\ pc[t] \in DeleteStep /\ session[t] \in RedisSession /\ Holds(t)
      /\ UNCHANGED <<now, hash, hashTtl, start, used, deleted>>
  BY BusyType DEF DeleteFromIndex, DeleteShadow, historyVars, Inv, ThreadInv, DeleteStep
<1>1. PICK step \in {"delShadow", "hmset"}, by \in {caller[t], "delete"},
           s \in RedisSession :
        /\ pc' = [pc EXCEPT ![t] = step]
        /\ session' = [session EXCEPT ![t] = s]
        /\ caller' = [caller EXCEPT ![t] = by]
        /\ s.id = session[t].id /\ s.originalId = session[t].originalId
        /\ s.last = session[t].last
        /\ \/ step = "delShadow" /\ s = session[t] /\ by = caller[t]
           \/ step = "hmset" /\ s.max = 0 /\ s.delta = {"max"} /\ by = "delete"
  <2>1. CASE DeleteFromIndex(t)
    <3>1. caller = [caller EXCEPT ![t] = caller[t]]
      BY DEF TypeInv, TypeOK
    <3> QED
      BY <1>0, <2>1, <3>1 DEF DeleteFromIndex, Goto
  <2>2. CASE DeleteShadow(t)
    <3> DEFINE s == [session[t] EXCEPT !.max = 0, !.delta = {"max"}]
    <3>1. /\ s \in RedisSession /\ s.id = session[t].id
          /\ s.originalId = session[t].originalId /\ s.last = session[t].last
          /\ s.max = 0 /\ s.delta = {"max"}
      BY <1>0, ConstantsAssumption DEF RedisSession, Field
    <3>2. saveDelta(t, s, "delete") /\ s.id = s.originalId
      BY <1>0, <2>2, <3>1 DEF DeleteShadow, Holds
    <3> HIDE DEF s
    <3>3. Goto(t, "hmset", s) /\ caller' = [caller EXCEPT ![t] = "delete"]
      BY <3>1, <3>2, SaveDeltaShape
    <3> QED
      BY <3>1, <3>3 DEF Goto
  <2> QED
    BY <2>1, <2>2
<1>2. \A u \in Threads :
        /\ u # t => pc'[u] = pc[u] /\ session'[u] = session[u] /\ caller'[u] = caller[u]
        /\ session'[u].id = session[u].id
        /\ InWindow(u)' = InWindow(u)
  BY <1>0, <1>1 DEF TypeInv, TypeOK, InWindow, DeleteStep
<1>3. pc'[t] = step /\ session'[t] = s /\ caller'[t] = by
  BY <1>1 DEF TypeInv, TypeOK
<1>4. caller[t] # "delete" /\ Deleting(t) /\ Deleting(t)'
  BY <1>0, <1>1, <1>3 DEF Holds, SaveStep, DeleteStep, Deleting
<1>5. \A u \in Threads :
        /\ Deleting(u)' = Deleting(u)
        /\ InFlight(u)' = InFlight(u)
        /\ Unwritten(u)' = Unwritten(u)
        /\ \A id \in Ids : Outlives(id, u)' = Outlives(id, u)
  BY <1>0, <1>2, <1>4 DEF Deleting, InFlight, Unwritten, Outlives
<1>6. ThreadInv'
  <2>1. Holds(t)'
    BY <1>0, <1>1, <1>3, <1>4 DEF Holds, DeleteStep, SaveStep
  <2>2. ASSUME NEW u \in Threads, u # t, Holds(u)
        PROVE  Holds(u)'
    BY <1>0, <1>2, <1>5, <2>2 DEF Holds
  <2> QED
    BY <1>1, <1>2, <1>3, <2>1, <2>2 DEF Inv, ThreadInv
<1>7. HashInv' /\ KeptInv'
  BY <1>0, <1>2, <1>5 DEF Inv, HashInv, KeptInv, Exists
<1>8. UnwrittenInv'
  BY <1>0, <1>2, <1>4, <1>5 DEF Inv, UnwrittenInv, Exists, Unwritten
<1>9. \A u \in Threads : InFlight(u) => session[u].id \in Ids
  BY DEF InFlight, TypeInv
<1>10. InFlightInv'
  BY <1>0, <1>2, <1>5, <1>9 DEF Inv, InFlightInv, Secured, Exists
<1>11. TombstoneInv'
  BY <1>0, <1>1, <1>2, <1>3, <1>4 DEF Inv, TombstoneInv, Exists
<1> QED
  BY <1>6, <1>7, <1>8, <1>10, <1>11 DEF Inv

\* The end of a call keeps the invariant: a deletion leaves a zero interval.
LEMMA ReturnStep ==
    ASSUME TypeInv, Inv, NEW t \in Threads, Return(t)
    PROVE  Inv'
<1> DEFINE s == session[t]
<1>1. /\ pc[t] = "return" /\ s \in RedisSession /\ s.id \in Ids /\ Holds(t)
      /\ ~InWindow(t) /\ UNCHANGED <<now, hash, hashTtl, used>>
  BY BusyType DEF Return, Inv, ThreadInv, InWindow
<1>2. CASE caller[t] # "delete"
  <2> DEFINE r == [s EXCEPT !.isNew = @ /\ caller[t] = "setter"]
  <2>1. /\ r \in RedisSession /\ r.id = s.id /\ r.originalId = s.originalId
        /\ r.last = s.last /\ r.max = s.max /\ r.delta = s.delta
        /\ "max" \notin s.delta
    BY <1>1 DEF RedisSession, Holds
  <2>2. /\ Goto(t, "edit", r) /\ caller' = [caller EXCEPT ![t] = "save"]
        /\ UNCHANGED <<start, deleted>>
    BY <1>2 DEF Return
  <2> HIDE DEF r
  <2> QED
    BY <1>1, <1>2, <2>1, <2>2, EditStep
<1>3. CASE caller[t] = "delete"
  <2>1. /\ pc' = [pc EXCEPT ![t] = "idle"]
        /\ session' = [session EXCEPT ![t] = NoSession]
        /\ caller' = [caller EXCEPT ![t] = "save"]
        /\ start' = [start EXCEPT ![t] = 0]
        /\ deleted' = deleted \cup {s.id}
    BY <1>3 DEF Return, GoIdle, Goto
  <2>2. Exists(s.id) => hash[s.id].max = 0
    BY <1>1, <1>3 DEF Inv, TombstoneInv
  <2>3. s.id \in used /\ \A u \in Threads : Unwritten(u) => session[u].id # s.id
    BY <1>1, <1>3 DEF Holds, Inv, UnwrittenInv, Unwritten, Deleting
  <2> QED
    BY <1>1, <2>1, <2>2, <2>3, LeaveStep
<1> QED
  BY <1>2, <1>3

\* The HMSET keeps the invariant: it creates a whole session, adds to one that is
\* secured, or writes the zero interval of a deletion.
LEMMA PutStep ==
    ASSUME TypeInv, Inv, NEW t \in Threads, PutAll(t)
    PROVE  Inv'
<1> DEFINE s == session[t]
<1>0. /\ hash \in [Ids -> HashValue] /\ hashTtl \in [Ids -> Nat \cup {NoTtl}]
      /\ now \in Nat
  BY DEF TypeInv, TypeOK, RedisTypeOK
<1>1. /\ pc[t] = "hmset" /\ s \in RedisSession /\ s.id \in Ids /\ Holds(t)
      /\ ~InWindow(t) /\ UNCHANGED <<now, hashTtl, caller, start, used, deleted>>
  BY BusyType DEF PutAll, Saving, historyVars, Inv, ThreadInv, InWindow
<1>2. PICK step \in {"unindex", "unbucket"}, r \in RedisSession :
        /\ pc' = [pc EXCEPT ![t] = step]
        /\ session' = [session EXCEPT ![t] = r]
        /\ r.id = s.id /\ r.originalId = s.originalId
        /\ r.last = s.last /\ r.max = s.max /\ r.delta = {}
  <2> DEFINE r == [s EXCEPT !.delta = {}]
  <2>1. /\ r \in RedisSession /\ r.id = s.id /\ r.originalId = s.originalId
        /\ r.last = s.last /\ r.max = s.max /\ r.delta = {}
    BY <1>1 DEF RedisSession
  <2>2. \E step \in {"unindex", "unbucket"} : Goto(t, step, r)
    BY DEF PutAll
  <2> HIDE DEF r
  <2> QED
    BY <2>1, <2>2 DEF Goto
<1>3. /\ hash'[s.id].fields = hash[s.id].fields \cup s.delta
      /\ hash'[s.id].max = IF "max" \in s.delta THEN s.max ELSE hash[s.id].max
      /\ hash'[s.id].last \in {s.last, hash[s.id].last}
      /\ \A id \in Ids : id # s.id => hash'[id] = hash[id]
  BY <1>0, <1>1 DEF PutAll, Hmset
<1>4. /\ pc'[t] = step /\ session'[t] = r /\ caller'[t] = caller[t] /\ InWindow(t)'
      /\ \A u \in Threads : u # t => pc'[u] = pc[u] /\ session'[u] = session[u]
  BY <1>1, <1>2 DEF TypeInv, TypeOK, InWindow
<1>5. /\ \A u \in Threads : u # t =>
            /\ InWindow(u)' = InWindow(u) /\ Deleting(u)' = Deleting(u)
            /\ InFlight(u)' = InFlight(u) /\ Unwritten(u)' = Unwritten(u)
      /\ \A u \in Threads : session'[u].id = session[u].id /\ start'[u] = start[u]
  BY <1>1, <1>2, <1>4 DEF InWindow, Deleting, InFlight, Unwritten
<1>6. \A id \in Ids, u \in Threads : Outlives(id, u)' = Outlives(id, u)
  BY <1>1, <1>5 DEF Outlives
<1>7. Deleting(t)' = Deleting(t) /\ Deleting(t) = (caller[t] = "delete")
  BY <1>1, <1>2, <1>4 DEF Deleting, DeleteStep
<1>8. \A id \in Ids : Exists(id) => Exists(id)'
  BY <1>3 DEF Exists
<1>9. /\ Deleting(t) \/ Unwritten(t) \/ InFlight(t)
      /\ Deleting(t) => ~Unwritten(t) /\ ~InFlight(t)
      /\ ~(Unwritten(t) /\ InFlight(t))
      /\ Unwritten(t) \/ InFlight(t) => ~Deleting(t) /\ s.max = DefaultInterval
      /\ Unwritten(t) <=> ~Deleting(t) /\ "max" \in s.delta
      /\ Deleting(t) => s.max = 0 /\ s.delta = {"max"}
  BY <1>1, <1>7 DEF Unwritten, InFlight, Holds
<1>10. Unwritten(t) => /\ Whole \subseteq s.delta /\ ~Exists(s.id) /\ s.id \notin deleted
                       /\ hashTtl[s.id] = NoTtl
                       /\ \A u \in Threads : u # t => session[u].id # s.id
  BY <1>1 DEF Inv, UnwrittenInv, HashInv
<1>11. InFlight(t) => Secured(t) /\ Exists(s.id)
  BY DEF Inv, InFlightInv, Secured
<1>12. ThreadInv'
  <2>1. Holds(t)'
    <3>1. /\ step \in SaveStep /\ step \notin {"rename", "failed", "hmset"}
          /\ step \notin DeleteStep
      BY DEF SaveStep, DeleteStep
    <3>2. /\ session'[t].id = s.id /\ session'[t].originalId = s.originalId
          /\ session'[t].last = s.last /\ session'[t].max = s.max
          /\ session'[t].delta = {} /\ start'[t] = start[t]
          /\ used' = used /\ now' = now
      BY <1>1, <1>2, <1>4, <1>5
    <3>3. ~Deleting(t)' => s.max = DefaultInterval
      BY <1>7, <1>9
    <3>4. caller[t] = "delete" => s.max = 0
      BY <1>1 DEF Holds
    <3>5. /\ s.id \in used /\ s.originalId = s.id /\ s.last <= now
          /\ start[t] <= now /\ now <= start[t] + MaxRequest
      BY <1>1 DEF Holds
    <3> QED
      BY <1>4, <3>1, <3>2, <3>3, <3>4, <3>5 DEF Holds
  <2>2. ASSUME NEW u \in Threads, u # t, Holds(u)
        PROVE  Holds(u)'
    BY <1>1, <1>4, <1>5, <2>2 DEF Holds
  <2> QED
    BY <1>1, <1>4, <2>1, <2>2 DEF Inv, ThreadInv
<1>13. HashInv'
  <2>1. /\ hash'[s.id].fields # {} => s.id \in used
        /\ hash'[s.id].last <= now
    BY <1>0, <1>1, <1>3 DEF Holds, Inv, HashInv
  <2>2. ASSUME hash'[s.id].fields = {}
        PROVE  s.delta = {} /\ ~Exists(s.id)
    <3>1. \A f : f \notin s.delta /\ f \notin hash[s.id].fields
      BY <1>3, <2>2
    <3> QED
      BY <3>1 DEF Exists
  <2>3. s.delta = {} => hash' = hash
    <3>1. /\ s.delta = {} => Hmset(s.id, s, {})
          /\ hash[s.id] = [fields |-> hash[s.id].fields, max |-> hash[s.id].max,
                           last |-> hash[s.id].last, principal |-> hash[s.id].principal]
      BY <1>0, <1>1 DEF PutAll, HashValue
    <3> QED
      BY <1>0, <1>1, <3>1 DEF Hmset
  <2>4. hash'[s.id].max = 0 \/ /\ hash'[s.id].max = DefaultInterval
                               /\ Whole \subseteq hash'[s.id].fields
    BY <1>1, <1>3, <1>9, <1>10, <1>11 DEF Inv, HashInv
  <2>5. \A id \in Ids : id # s.id => Exists(id)' = Exists(id)
    BY <1>3 DEF Exists
  <2>6. hash'[s.id].fields = {} => hash'[s.id] = NoHash /\ hashTtl'[s.id] = NoTtl
    BY <1>1, <2>2, <2>3 DEF Inv, HashInv
  <2>7. /\ deleted \subseteq used
        /\ \A id \in Ids :
            /\ Exists(id) => id \in used
            /\ ~Exists(id) => hash[id] = NoHash /\ hashTtl[id] = NoTtl
            /\ hash[id].last <= now
            /\ Exists(id) => \/ hash[id].max = 0
                             \/ /\ hash[id].max = DefaultInterval
                                /\ Whole \subseteq hash[id].fields
    BY DEF Inv, HashInv
  <2> SUFFICES ASSUME NEW id \in Ids
               PROVE  /\ Exists(id)' => id \in used
                      /\ ~Exists(id)' => hash'[id] = NoHash /\ hashTtl[id] = NoTtl
                      /\ hash'[id].last <= now
                      /\ Exists(id)' => \/ hash'[id].max = 0
                                        \/ /\ hash'[id].max = DefaultInterval
                                           /\ Whole \subseteq hash'[id].fields
    BY <1>1, <2>7 DEF HashInv
  <2>8. CASE id = s.id
    BY <1>1, <2>1, <2>4, <2>6, <2>8 DEF Exists
  <2>9. CASE id # s.id
    BY <1>3, <2>5, <2>7, <2>9
  <2> QED
    BY <2>8, <2>9
<1>14. UnwrittenInv'
  <2> SUFFICES ASSUME NEW u \in Threads, Unwritten(u)'
               PROVE  /\ Whole \subseteq session'[u].delta
                      /\ ~Exists(session[u].id)'
                      /\ session[u].id \notin deleted
                      /\ \A v \in Threads : v # u => session[v].id # session[u].id
    BY <1>1, <1>5 DEF UnwrittenInv, Exists
  <2>1. u # t
    BY <1>2, <1>4 DEF Unwritten
  <2>2. Unwritten(u) /\ session'[u] = session[u] /\ session[u].id \in Ids
    BY <1>4, <1>5, <2>1 DEF TypeInv, Unwritten
  <2>3. session[u].id # s.id
    BY <2>1, <2>2 DEF Inv, UnwrittenInv
  <2> QED
    BY <1>3, <2>2, <2>3 DEF Inv, UnwrittenInv, Exists
<1>15. InFlightInv'
  <2> SUFFICES ASSUME NEW u \in Threads, InFlight(u)'
               PROVE  Secured(u)'
    BY DEF InFlightInv
  <2>1. session[u].id \in Ids
    BY <1>4, <1>1, <1>5 DEF InFlight, TypeInv
  <2>2. ASSUME Secured(u)
        PROVE  Secured(u)'
    BY <1>1, <1>4, <1>5, <1>6, <1>8, <2>1, <2>2 DEF Secured
  <2>3. CASE u # t
    BY <1>5, <2>2, <2>3 DEF Inv, InFlightInv
  <2>4. CASE u = t /\ InFlight(t)
    BY <1>11, <2>2, <2>4
  <2>5. CASE u = t /\ Unwritten(t)
    <3>1. "creation" \in hash'[s.id].fields
      BY <1>3, <1>10, <2>5 DEF Whole
    <3> QED
      BY <1>1, <1>5, <1>10, <2>5, <3>1 DEF Secured, Exists
  <2> QED
    BY <1>7, <1>9, <2>3, <2>4, <2>5 DEF InFlight
<1>16. KeptInv'
  <2> SUFFICES ASSUME NEW id \in Ids, Exists(id)', hash'[id].max # 0
               PROVE  \/ hashTtl[id] = NoTtl
                      \/ hashTtl[id] >= hash'[id].last + DefaultInterval + Grace
                      \/ \E w \in Threads : InWindow(w)' /\ Outlives(id, w)
    BY <1>1, <1>6 DEF KeptInv, Outlives
  <2>1. CASE id # s.id
    BY <1>3, <1>4, <1>5, <2>1 DEF Inv, KeptInv, Exists
  <2>2. CASE id = s.id
    <3>1. ~Deleting(t)
      BY <1>3, <1>9, <2>2
    <3>2. CASE Unwritten(t)
      BY <1>10, <2>2, <3>2
    <3>3. CASE InFlight(t)
      BY <1>4, <1>5, <1>11, <2>2, <3>3 DEF Secured
    <3> QED
      BY <1>9, <3>1, <3>2, <3>3
  <2> QED
    BY <2>1, <2>2
<1>17. TombstoneInv'
  <2>1. s.id \in deleted => hash'[s.id].max = 0
    BY <1>1, <1>3, <1>9, <1>10, <1>11 DEF Inv, TombstoneInv
  <2>2. ASSUME NEW u \in Threads, u # t, caller[u] = "delete", pc[u] # "hmset"
        PROVE  session[u].id = s.id => hash'[s.id].max = 0
    BY <1>1, <1>3, <1>9, <1>10, <1>11, <2>2 DEF Inv, TombstoneInv
  <2>3. caller[t] = "delete" => hash'[s.id].max = 0
    BY <1>3, <1>7, <1>9
  <2>4. /\ \A id \in deleted : Exists(id) => hash[id].max = 0
        /\ \A u \in Threads : caller[u] = "delete" /\ pc[u] # "hmset" =>
              (Exists(session[u].id) => hash[session[u].id].max = 0)
        /\ deleted \subseteq Ids
    BY DEF Inv, TombstoneInv, TypeInv, TypeOK
  <2>5. \A u \in Threads : caller[u] = "delete" => session[u].id \in Ids
    BY DEF Inv, ThreadInv, TypeInv
  <2>6. \A id \in Ids : id # s.id => Exists(id)' = Exists(id) /\ hash'[id] = hash[id]
    BY <1>3 DEF Exists
  <2>7. \A id \in deleted : Exists(id)' => hash'[id].max = 0
    BY <2>1, <2>4, <2>6
  <2>8. ASSUME NEW u \in Threads, caller[u] = "delete", pc'[u] # "hmset",
               Exists(session[u].id)'
        PROVE  hash'[session[u].id].max = 0
    BY <1>4, <2>2, <2>3, <2>4, <2>5, <2>6, <2>8
  <2> QED
    BY <1>1, <1>5, <2>7, <2>8 DEF TombstoneInv, Exists
<1> QED
  BY <1>12, <1>13, <1>14, <1>15, <1>16, <1>17 DEF Inv

\* The EXPIRE of the hash keeps the invariant: every thread that works with the
\* session may end its request before the new deadline.
LEMMA ExtendStep ==
    ASSUME TypeInv, Inv, NEW t \in Threads, ExtendHash(t)
    PROVE  Inv'
<1> DEFINE id0 == session[t].id
<1>0. /\ hash \in [Ids -> HashValue] /\ hashTtl \in [Ids -> Nat \cup {NoTtl}]
      /\ now \in Nat /\ start \in [Threads -> Nat]
      /\ Grace \in Nat /\ DefaultInterval \in Int /\ DefaultInterval > 0
  BY ConstantsAssumption DEF TypeInv, TypeOK, RedisTypeOK
<1>1. /\ pc[t] = "hashTtl" /\ id0 \in Ids /\ Holds(t)
      /\ pc' = [pc EXCEPT ![t] = "return"]
      /\ UNCHANGED <<now, hash, caller, start, used, deleted>>
  BY BusyType DEF ExtendHash, Goto, Saving, historyVars, Inv, ThreadInv
<1>2. session' = session
  BY DEF ExtendHash, Goto, TypeInv, TypeOK
<1>3. /\ session[t].max \in {0, DefaultInterval}
      /\ caller[t] # "delete" => session[t].max = DefaultInterval
      /\ "max" \notin session[t].delta
  BY <1>1 DEF Holds, Deleting, DeleteStep
<1>4. PICK d \in Nat : /\ d = now + session[t].max + Grace
                       /\ Exists(id0) => hashTtl'[id0] = d
                       /\ ~Exists(id0) => hashTtl' = hashTtl
                       /\ \A id \in Ids : id # id0 => hashTtl'[id] = hashTtl[id]
  BY <1>0, <1>1, <1>3 DEF ExtendHash, SetHashTtl
<1>5. \A u \in Threads :
        /\ u # t => pc'[u] = pc[u] /\ InWindow(u)' = InWindow(u)
        /\ Deleting(u)' = Deleting(u) /\ InFlight(u)' = InFlight(u)
        /\ Unwritten(u)' = Unwritten(u)
  BY <1>1, <1>2 DEF TypeInv, TypeOK, InWindow, Deleting, DeleteStep, InFlight, Unwritten
<1>6. ThreadInv'
  <2>1. pc'[t] = "return"
    BY <1>1 DEF TypeInv, TypeOK
  <2>2. Holds(t)'
    BY <1>0, <1>1, <1>2, <1>3, <1>5, <2>1 DEF Holds, SaveStep, DeleteStep
  <2>3. ASSUME NEW u \in Threads, u # t, Holds(u)
        PROVE  Holds(u)'
    BY <1>1, <1>2, <1>5, <2>3 DEF Holds
  <2> QED
    BY <1>1, <1>2, <1>5, <2>1, <2>2, <2>3 DEF Inv, ThreadInv
<1>7. HashInv'
  <2>1. \A id \in Ids : ~Exists(id) => hashTtl'[id] = hashTtl[id]
    BY <1>4
  <2> QED
    BY <1>1, <2>1 DEF Inv, HashInv, Exists
<1>8. UnwrittenInv'
  BY <1>1, <1>2, <1>5 DEF Inv, UnwrittenInv, Exists
<1>9. \A u \in Threads, id \in Ids : id # id0 =>
        /\ Outlives(id, u)' = Outlives(id, u)
        /\ ~Outlives(id, t)
  BY <1>1, <1>2, <1>4 DEF Outlives
<1>10. \A u \in Threads : pc[u] # "idle" /\ session[u].id = id0 /\ Exists(id0)
                            => Outlives(id0, u)'
  BY <1>0, <1>1, <1>2, <1>3, <1>4 DEF Inv, ThreadInv, Holds, Outlives
<1>11. InFlightInv'
  <2> SUFFICES ASSUME NEW u \in Threads, InFlight(u)
               PROVE  Secured(u)'
    BY <1>5 DEF InFlightInv
  <2>1. Secured(u) /\ session[u].id \in Ids /\ pc[u] # "idle"
    BY DEF Inv, InFlightInv, InFlight, TypeInv
  <2>2. CASE session[u].id = id0
    BY <1>1, <1>2, <1>10, <2>1, <2>2 DEF Secured, Exists
  <2>3. CASE session[u].id # id0
    <3>1. hashTtl'[session[u].id] = hashTtl[session[u].id]
      BY <1>4, <2>1, <2>3
    <3>2. \A w \in Threads : (w = u \/ InWindow(w)) /\ Outlives(session[u].id, w)
            => (w = u \/ InWindow(w)') /\ Outlives(session[u].id, w)'
      BY <1>2, <1>5, <1>9, <2>1, <2>3
    <3> QED
      BY <1>1, <1>2, <2>1, <3>1, <3>2 DEF Secured, Exists
  <2> QED
    BY <2>2, <2>3
<1>12. KeptInv'
  <2> SUFFICES ASSUME NEW id \in Ids, Exists(id), hash[id].max # 0
               PROVE  \/ hashTtl'[id] = NoTtl
                      \/ hashTtl'[id] >= hash[id].last + DefaultInterval + Grace
                      \/ \E w \in Threads : InWindow(w)' /\ Outlives(id, w)'
    BY <1>1 DEF KeptInv, Exists
  <2>1. CASE id = id0
    <3>1. caller[t] # "delete"
      BY <1>1, <2>1 DEF Inv, TombstoneInv
    <3>2. hash[id].last <= now /\ hash[id].last \in Nat
      BY <1>0 DEF Inv, HashInv, HashValue
    <3> QED
      BY <1>0, <1>3, <1>4, <2>1, <3>1, <3>2
  <2>2. CASE id # id0
    BY <1>4, <1>5, <1>9, <2>2 DEF Inv, KeptInv
  <2> QED
    BY <2>1, <2>2
<1>13. TombstoneInv'
  BY <1>1, <1>2, <1>5 DEF Inv, TombstoneInv, Exists
<1> QED
  BY <1>6, <1>7, <1>8, <1>11, <1>12, <1>13 DEF Inv

\* Redis evicts no hash that a running request needs.
LEMMA EvictStep ==
    ASSUME Undisturbed, TypeInv, Inv, NEW id \in Ids, ExpireHash(id),
           UNCHANGED <<pc, session, caller, start, used, deleted>>
    PROVE  Inv'
<1>0. /\ hash \in [Ids -> HashValue] /\ hashTtl \in [Ids -> Nat \cup {NoTtl}]
      /\ now \in Nat /\ Grace \in Nat /\ MaxRequest \in Nat /\ MaxRequest < Grace
      /\ start \in [Threads -> Nat]
  BY ConstantsAssumption, RepositoryAssumption DEF TypeInv, TypeOK, RedisTypeOK, Undisturbed
<1>1. /\ hashTtl[id] # NoTtl /\ hashTtl[id] <= now
      /\ hash' = [hash EXCEPT ![id] = NoHash]
      /\ hashTtl' = [hashTtl EXCEPT ![id] = NoTtl]
      /\ now' = now
  BY DEF ExpireHash, Due
<1>2. /\ hash'[id] = NoHash /\ hashTtl'[id] = NoTtl /\ ~Exists(id)'
      /\ \A i \in Ids : i # id => /\ hash'[i] = hash[i] /\ hashTtl'[i] = hashTtl[i]
                                 /\ Exists(i)' = Exists(i)
  BY <1>0, <1>1 DEF Exists, NoHash
<1>3. /\ \A u \in Threads :
            /\ InWindow(u)' = InWindow(u) /\ Deleting(u)' = Deleting(u)
            /\ InFlight(u)' = InFlight(u) /\ Unwritten(u)' = Unwritten(u)
      /\ \A i \in Ids, u \in Threads : i # id => Outlives(i, u)' = Outlives(i, u)
  BY <1>2 DEF InWindow, Deleting, InFlight, Unwritten, Outlives
<1>4. \A w \in Threads : pc[w] # "idle" => ~Outlives(id, w)
  BY <1>0, <1>1 DEF Inv, ThreadInv, Holds, Outlives, NoTtl
<1>5. \A u \in Threads : InFlight(u) => session[u].id \in Ids /\ session[u].id # id
  <2> SUFFICES ASSUME NEW u \in Threads, InFlight(u)
               PROVE  session[u].id \in Ids /\ session[u].id # id
    OBVIOUS
  <2>1. Secured(u) /\ session[u].id \in Ids /\ pc[u] # "idle"
    BY DEF Inv, InFlightInv, InFlight, TypeInv
  <2>2. \A w \in Threads : InWindow(w) => pc[w] # "idle"
    BY DEF InWindow
  <2> QED
    BY <1>1, <1>4, <2>1, <2>2 DEF Secured
<1>6. ThreadInv'
  BY <1>1, <1>3 DEF Inv, ThreadInv, Holds
<1>7. HashInv'
  <2>1. hash'[id].last = 0
    BY <1>2 DEF NoHash
  <2> QED
    BY <1>0, <1>1, <1>2, <2>1 DEF Inv, HashInv
<1>8. UnwrittenInv'
  <2>1. \A u \in Threads : Unwritten(u) => session[u].id \in Ids
    BY DEF Unwritten, TypeInv
  <2> QED
    BY <1>2, <1>3, <2>1 DEF Inv, UnwrittenInv, Exists
<1>9. InFlightInv'
  <2> SUFFICES ASSUME NEW u \in Threads, InFlight(u)
               PROVE  Secured(u)'
    BY <1>3 DEF InFlightInv
  <2>1. Secured(u)
    BY DEF Inv, InFlightInv
  <2> QED
    BY <1>2, <1>3, <1>5, <2>1 DEF Secured, Exists
<1>10. KeptInv'
  <2> SUFFICES ASSUME NEW i \in Ids, Exists(i)', hash'[i].max # 0
               PROVE  \/ hashTtl'[i] = NoTtl
                      \/ hashTtl'[i] >= hash'[i].last + DefaultInterval + Grace
                      \/ \E w \in Threads : InWindow(w)' /\ Outlives(i, w)'
    BY DEF KeptInv
  <2> QED
    BY <1>2, <1>3 DEF Inv, KeptInv
<1>11. TombstoneInv'
  <2>1. \A u \in Threads : caller[u] = "delete" => session[u].id \in Ids
    BY DEF Inv, ThreadInv, TypeInv
  <2>2. deleted \subseteq Ids
    BY DEF TypeInv, TypeOK
  <2> QED
    BY <1>2, <2>1, <2>2 DEF Inv, TombstoneInv, Exists
<1> QED
  BY <1>6, <1>7, <1>8, <1>9, <1>10, <1>11 DEF Inv

\* The clock does not move past the bound of a request.
LEMMA TickStep ==
    ASSUME TypeInv, Inv, Tick
    PROVE  Inv'
<1>0. /\ hash \in [Ids -> HashValue] /\ now \in Nat /\ MaxRequest \in Nat
      /\ session \in [Threads -> RedisSession] /\ start \in [Threads -> Nat]
      /\ now' = now + 1
      /\ UNCHANGED <<hash, hashTtl, pc, session, caller, start, used, deleted>>
      /\ \A t \in Threads : pc[t] # "idle" => now < start[t] + MaxRequest
  BY RepositoryAssumption DEF TypeInv, TypeOK, RedisTypeOK, Tick, threadVars, historyVars
<1>1. ThreadInv'
  <2>1. ASSUME NEW t \in Threads, pc[t] # "idle", Holds(t)
        PROVE  Holds(t)'
    <3>1. /\ start[t] <= now + 1 /\ now + 1 <= start[t] + MaxRequest
          /\ session[t].last <= now + 1
      BY <1>0, <2>1 DEF Holds, RedisSession
    <3>2. Deleting(t)' = Deleting(t)
      BY <1>0 DEF Deleting
    <3> QED
      BY <1>0, <2>1, <3>1, <3>2 DEF Holds
  <2> QED
    BY <1>0, <2>1 DEF Inv, ThreadInv
<1>2. HashInv'
  <2>1. \A id \in Ids : hash[id].last <= now + 1
    BY <1>0 DEF Inv, HashInv, HashValue
  <2> QED
    BY <1>0, <2>1 DEF Inv, HashInv, Exists
<1>3. UnwrittenInv' /\ TombstoneInv'
  BY <1>0 DEF Inv, UnwrittenInv, TombstoneInv, Unwritten, Deleting, Exists
<1>4. InFlightInv' /\ KeptInv'
  BY <1>0 DEF Inv, InFlightInv, KeptInv, InFlight, Secured, InWindow, Outlives, Deleting,
             Exists
<1> QED
  BY <1>1, <1>2, <1>3, <1>4 DEF Inv

\* Every step keeps the invariant.
LEMMA InvNext ==
    ASSUME Undisturbed, TypeInv, Inv, [Next]_vars
    PROVE  Inv'
<1>1. ASSUME NEW t \in Threads, Call(t)
      PROVE  Inv'
  <2>1. \A id \in Ids : ~changeSessionId(t, id)
    BY DEF changeSessionId, Undisturbed
  <2>2. \A max \in SetIntervals : FALSE
    BY DEF Undisturbed
  <2> QED
    BY <1>1, <2>1, <2>2, StartSteps, EditSteps DEF Call
<1>2. ASSUME NEW t \in Threads, Command(t)
      PROVE  Inv'
  <2>1. ~Rename(t)
    BY DEF Rename, Saving, Inv, ThreadInv, Holds
  <2> QED
    BY <1>2, <2>1, DeleteSteps, PutStep, WindowSteps, ExtendStep, ReturnStep DEF Command
<1>3. ASSUME NEW t \in Threads
      PROVE  ~Crash(t)
  BY DEF Crash, Undisturbed, TypeInv, TypeOK
<1>4. CASE Clean
  BY <1>4, Elsewhere
  DEF Clean, CleanRead, CleanDelete, CleanTouch, redisVars, threadVars, historyVars
<1>5. CASE Listen
  BY <1>5, Elsewhere
  DEF Listen, Receive, CleanIndexAndPublish, Lose, redisVars, threadVars, historyVars
<1>6. CASE Expire
  <2>1. UNCHANGED <<pc, session, caller, start, used, deleted>>
    BY <1>6 DEF Expire, threadVars, historyVars
  <2>2. ASSUME NEW id \in Ids, ExpireShadow(id)
        PROVE  Inv'
    BY <2>1, <2>2, Elsewhere DEF ExpireShadow
  <2>3. ASSUME NEW p \in bucketTtl, ExpireBucket(p[1])
        PROVE  Inv'
    BY <2>1, <2>3, Elsewhere DEF ExpireBucket
  <2> QED
    BY <1>6, <2>1, <2>2, <2>3, EvictStep DEF Expire
<1>7. CASE Tick
  BY <1>7, TickStep
<1>8. CASE UNCHANGED vars
  BY <1>8, Elsewhere DEF vars, redisVars, threadVars, historyVars
<1> QED
  BY <1>1, <1>2, <1>3, <1>4, <1>5, <1>6, <1>7, <1>8, EndStep DEF Next

\* The conjunction of TypeOK and the parts of the invariant is inductive, and so
\* holds in every run without changes of interval or id and without crashes.
THEOREM InvariantHolds == Undisturbed => (Spec => []IInv)
<1>1. Undisturbed /\ TypeInv /\ Inv /\ [Next]_vars => TypeInv' /\ Inv'
  BY InvNext, TypeNext
<1>2. TypeInv /\ Inv => IInv
  BY DEF TypeInv, Inv, IInv
<1>3. ASSUME Undisturbed
      PROVE  TypeInv /\ Inv /\ [Next]_vars => (TypeInv /\ Inv)'
  BY <1>1, <1>3
<1>4. ASSUME Undisturbed
      PROVE  Spec => []IInv
  BY <1>2, <1>3, <1>4, TypeInit, InvInit, PTL DEF Spec
<1> QED
  BY <1>4

\* findById takes a hash with a zero interval for an expired session.
LEMMA ZeroIsExpired ==
    ASSUME IInv, NEW id \in Ids, hash[id].max = 0
    PROVE  ~Found(id)
<1>1. hash[id].last <= now /\ hash[id] \in HashValue /\ now \in Nat
  BY DEF IInv, HashInv, TypeOK, RedisTypeOK
<1> QED
  BY <1>1 DEF Found, isExpired, loadSession, HashValue

\* A session whose deleteById has returned is never found again, whatever the
\* requests that had loaded it do and however their commands interleave.
THEOREM DeletedSessionsStayDead == Undisturbed => (Spec => []DeletedStaysDead)
<1>1. ASSUME IInv
      PROVE  DeletedStaysDead
  <2> SUFFICES ASSUME NEW id \in deleted, Found(id)
               PROVE  FALSE
    BY DEF DeletedStaysDead
  <2>1. id \in Ids /\ hash[id].max = 0
    BY <1>1 DEF IInv, TypeOK, TombstoneInv, Found
  <2> QED
    BY <1>1, <2>1, ZeroIsExpired
<1>2. IInv => DeletedStaysDead
  BY <1>1
<1> QED
  BY <1>2, InvariantHolds, PTL

\* findById never returns a session that a late save has brought back with its
\* delta only.
THEOREM LiveSessionsAreComplete == Undisturbed => (Spec => []LiveIsComplete)
<1>1. ASSUME IInv
      PROVE  LiveIsComplete
  <2> SUFFICES ASSUME NEW id \in Ids, Found(id)
               PROVE  Whole \subseteq hash[id].fields
    BY DEF LiveIsComplete, Whole
  <2>1. hash[id].max # 0 /\ Exists(id)
    BY <1>1, ZeroIsExpired DEF Found
  <2> QED
    BY <1>1, <2>1 DEF IInv, HashInv
<1>2. IInv => LiveIsComplete
  BY <1>1
<1> QED
  BY <1>2, InvariantHolds, PTL

-----------------------------------------------------------------------------
(* The destroyed event carries the session. *)

\* What a thread in a call holds, and the numbers that are compared
LEMMA NoticeTypes ==
    ASSUME Noticed, TypeInv, Inv
    PROVE  /\ now \in Nat /\ Grace \in Nat /\ MaxRequest \in Nat /\ MaxExpiryLag \in Nat
           /\ MaxRequest < Grace /\ MaxExpiryLag < Grace /\ Grace > 0
           /\ DefaultInterval \in Int /\ DefaultInterval > 0
           /\ hash \in [Ids -> HashValue] /\ shadow \subseteq Ids /\ deleted \subseteq Ids
           /\ hashTtl \in [Ids -> Nat \cup {NoTtl}]
           /\ shadowTtl \in [Ids -> Nat \cup {NoTtl}]
           /\ inbox \subseteq Message
           /\ \A t \in Threads : pc[t] # "idle" =>
                 /\ Holds(t) /\ session[t].id \in Ids /\ session[t] \in RedisSession
                 /\ start[t] \in Nat
<1>1. /\ Grace \in Nat /\ MaxRequest \in Nat /\ MaxExpiryLag \in Nat
      /\ MaxRequest < Grace /\ MaxExpiryLag < Grace /\ Grace > 0
      /\ DefaultInterval \in Int /\ DefaultInterval > 0
  <2>1. Grace \in Nat /\ Minute \in Nat \ {0} /\ Minute < Grace /\ DefaultInterval > 0
        /\ DefaultInterval \in Intervals /\ Intervals \subseteq Int
    BY ConstantsAssumption
  <2>2. MaxRequest \in Nat /\ MaxExpiryLag \in Nat
    BY RepositoryAssumption
  <2>3. MaxRequest < Grace /\ MaxExpiryLag < Grace
    BY DEF Noticed, Undisturbed
  <2>4. Grace > 0
    BY <2>1
  <2> QED
    BY <2>1, <2>2, <2>3, <2>4
<1>2. /\ now \in Nat
      /\ hash \in [Ids -> HashValue] /\ shadow \subseteq Ids /\ deleted \subseteq Ids
      /\ hashTtl \in [Ids -> Nat \cup {NoTtl}]
      /\ shadowTtl \in [Ids -> Nat \cup {NoTtl}]
      /\ inbox \subseteq Message
  BY DEF TypeInv, TypeOK, RedisTypeOK
<1>3. \A t \in Threads : pc[t] # "idle" =>
        /\ Holds(t) /\ session[t].id \in Ids /\ session[t] \in RedisSession
        /\ start[t] \in Nat
  BY DEF TypeInv, TypeOK, Inv, ThreadInv
<1> QED
  BY <1>1, <1>2, <1>3

\* A hash stays covered if it, its deadline and that of its shadow key stay, and so
\* do the threads that mind it.
LEMMA CoveredStays ==
    ASSUME NEW id \in Ids, Covered(id), Exists(id)', hashTtl'[id] = hashTtl[id],
           shadowTtl'[id] = shadowTtl[id],
           \A w \in Threads : Minds(w) /\ session[w].id = id =>
              Minds(w)' /\ session'[w].id = id /\ start'[w] = start[w]
    PROVE  Covered(id)'
  BY DEF Covered, Outlives

\* A hash that a thread in a call outlives can be read.
LEMMA OutlivedIsReady ==
    ASSUME Noticed, TypeInv, Inv, NEW id \in Ids, NEW w \in Threads, pc[w] # "idle",
           Outlives(id, w)
    PROVE  HashReady(id)
<1>1. start[w] \in Nat /\ now <= start[w] + MaxRequest /\ hashTtl[id] >= start[w] + Grace
  BY NoticeTypes DEF Holds, Outlives
<1>2. now \in Nat /\ MaxRequest \in Nat /\ Grace \in Nat /\ MaxRequest < Grace
      /\ hashTtl[id] \in Nat \cup {NoTtl}
  BY NoticeTypes
<1> QED
  BY <1>1, <1>2 DEF HashReady, Due, NoTtl

\* A covered hash can be read.
LEMMA CoveredIsReadable ==
    ASSUME Noticed, TypeInv, Inv, ShadowInv, NEW id \in shadow
    PROVE  id \in Ids /\ Readable(id)
<1>0. id \in Ids
  BY NoticeTypes
<1> SUFFICES ASSUME id \notin deleted
             PROVE  Exists(id) /\ HashReady(id)
  BY <1>0 DEF Readable
<1>1. Covered(id) /\ (shadowTtl[id] # NoTtl => now <= shadowTtl[id] + MaxExpiryLag)
  BY <1>0 DEF ShadowInv
<1>2. ASSUME NEW w \in Threads, Minds(w), Outlives(id, w)
      PROVE  HashReady(id)
  <2>1. pc[w] # "idle"
    BY <1>2 DEF Minds, InWindow
  <2> QED
    BY <1>0, <1>2, <2>1, OutlivedIsReady
<1>3. CASE shadowTtl[id] # NoTtl /\ hashTtl[id] >= shadowTtl[id] + Grace
  <2>1. /\ now \in Nat /\ Grace \in Nat /\ MaxExpiryLag \in Nat /\ MaxExpiryLag < Grace
        /\ hashTtl[id] \in Nat \cup {NoTtl} /\ shadowTtl[id] \in Nat \cup {NoTtl}
    BY <1>0, NoticeTypes
  <2>2. PICK h, e : h = hashTtl[id] /\ e = shadowTtl[id]
    OBVIOUS
  <2>3. e \in Nat /\ h \in Int /\ now <= e + MaxExpiryLag /\ h >= e + Grace
    BY <1>1, <1>3, <2>1, <2>2 DEF NoTtl
  <2>4. h > now
    BY <2>1, <2>3
  <2>5. ~(h <= now)
    BY <2>1, <2>3, <2>4
  <2> QED
    BY <1>1, <2>2, <2>5 DEF Covered, HashReady, Due
<1> QED
  BY <1>0, <1>1, <1>2, <1>3 DEF Covered, HashReady, Due

\* A thread that writes on has a hash that somebody minds, itself included.
LEMMA SecuredIsMinded ==
    ASSUME NEW t \in Threads, InFlight(t), InFlightInv, NEW id, session[t].id = id
    PROVE  /\ Exists(id)
           /\ hashTtl[id] = NoTtl
              \/ \E w \in Threads : (w = t \/ InWindow(w)) /\ Outlives(id, w)
  BY DEF InFlightInv, Secured

LEMMA NoticeInit == Init => NoticeInv
  BY DEF Init, RedisInit, NoticeInv, ShadowInv, DestroyedEventCarriesSession

\* A step of a thread that minds nothing yet, or goes on minding the same, and
\* leaves Redis' deadlines and the events alone keeps the invariant.
LEMMA NoticeThread ==
    ASSUME Noticed, TypeInv, Inv, NoticeInv,
           UNCHANGED <<now, hashTtl, shadow, shadowTtl, handling, published, deleted>>,
           \A m \in inbox' : m \in inbox \/ m.type = "created",
           \A id \in Ids : Exists(id) => Exists(id)',
           \A w \in Threads : Minds(w) =>
              Minds(w)' /\ session'[w].id = session[w].id /\ start'[w] = start[w],
           \A w \in Threads : pc[w] = "shadowTtl" =>
              pc'[w] = "shadowTtl" /\ session'[w].id = session[w].id
    PROVE  NoticeInv'
<1>1. ASSUME NEW id \in Ids, Covered(id)
      PROVE  Covered(id)'
  <2>1. Exists(id)'
    BY <1>1 DEF Covered
  <2> QED
    BY <1>1, <2>1, CoveredStays
<1>2. ShadowInv'
  <2> SUFFICES ASSUME NEW id \in Ids
               PROVE  /\ id \in shadow => id \in deleted \/ Covered(id)'
                      /\ id \in shadow /\ shadowTtl[id] = NoTtl =>
                           \E w \in Threads : pc'[w] = "shadowTtl" /\ session'[w].id = id
                      /\ id \notin shadow => shadowTtl[id] = NoTtl
                      /\ shadowTtl[id] # NoTtl => shadowTtl[id] <= now + DefaultInterval
                      /\ id \in shadow /\ shadowTtl[id] # NoTtl =>
                           now <= shadowTtl[id] + MaxExpiryLag
    BY DEF ShadowInv
  <2> QED
    BY <1>1 DEF NoticeInv, ShadowInv
<1>3. \A m \in inbox : Readable(m.id) => Readable(m.id)'
  BY NoticeTypes DEF Readable, HashReady, Due, Message
<1> QED
  BY <1>2, <1>3 DEF NoticeInv, DestroyedEventCarriesSession

\* Steps that change none of the invariant's variables
LEMMA NoticeElsewhere ==
    ASSUME Noticed, TypeInv, Inv, NoticeInv,
           UNCHANGED <<now, hash, hashTtl, shadow, shadowTtl, inbox, handling, published,
                       deleted, pc, session, caller, start>>
    PROVE  NoticeInv'
  BY NoticeThread DEF Exists, Minds, InWindow

\* Steps of one thread that leave all of Redis alone but the index, the buckets and
\* the fields of hashes
LEMMA NoticeGoto ==
    ASSUME Noticed, TypeInv, Inv, NoticeInv, NEW t \in Threads,
           UNCHANGED <<now, hashTtl, shadow, shadowTtl, handling, published, deleted>>,
           \A m \in inbox' : m \in inbox \/ m.type = "created",
           \A id \in Ids : Exists(id) => Exists(id)',
           NEW step, NEW s, Goto(t, step, s),
           \A u \in Threads : u # t => caller'[u] = caller[u] /\ start'[u] = start[u],
           pc[t] # "shadowTtl",
           \/ ~Minds(t)
           \/ /\ step \in {"index", "unbucket", "bucket", "append", "shadowTtl"}
              /\ s.id = session[t].id /\ start' = start
    PROVE  NoticeInv'
<1>1. /\ pc'[t] = step /\ session'[t] = s
      /\ \A u \in Threads : u # t => pc'[u] = pc[u] /\ session'[u] = session[u]
  BY DEF Goto, TypeInv, TypeOK
<1> QED
  BY <1>1, NoticeThread DEF Minds, InWindow

\* The calls of the application, the end of a request and the commands on the index,
\* the buckets and the fields of the hash keep the invariant.
LEMMA NoticeCall ==
    ASSUME Noticed, TypeInv, Inv, NoticeInv, NEW t \in Threads, Call(t)
    PROVE  NoticeInv'
<1>0. /\ \A id \in Ids : ~changeSessionId(t, id)
      /\ \A max \in SetIntervals : FALSE
  BY DEF changeSessionId, Noticed, Undisturbed
<1>1. /\ pc[t] \in {"idle", "edit"} /\ redisVars' = redisVars
      /\ UNCHANGED <<handling, published, deleted>>
      /\ \A u \in Threads : u # t => caller'[u] = caller[u] /\ start'[u] = start[u]
      /\ \E step, s : Goto(t, step, s)
  <2>0. TypeOK
    BY DEF TypeInv
  <2>1. CASE \E id \in Ids : createSession(t, id) \/ deleteById(t, id)
    BY <2>0, <2>1 DEF createSession, deleteById, Begin, putAndFlush, saveDelta, TypeOK,
       listenerVars, historyVars
  <2>2. CASE \E id \in Ids, touch \in Touching : findById(t, id, touch)
    BY <2>0, <2>2 DEF findById, Begin, putAndFlush, saveDelta, TypeOK, listenerVars,
       historyVars
  <2>3. CASE (\E p \in SetPrincipals : setPrincipal(t, p)) \/ save(t)
    BY <2>0, <2>3 DEF setPrincipal, save, Editing, putAndFlush, saveDelta, TypeOK,
       listenerVars, historyVars
  <2> QED
    BY <1>0, <2>1, <2>2, <2>3 DEF Call
<1>2. UNCHANGED <<now, hash, hashTtl, shadow, shadowTtl, inbox>>
  BY <1>1 DEF redisVars
<1>3. ~Minds(t)
  BY <1>1 DEF Minds, InWindow
<1>4. PICK step, s : Goto(t, step, s)
  BY <1>1
<1> QED
  BY <1>1, <1>2, <1>3, <1>4, NoticeGoto DEF Exists

LEMMA NoticeEnd ==
    ASSUME Noticed, TypeInv, Inv, NoticeInv, NEW t \in Threads, EndRequest(t)
    PROVE  NoticeInv'
<1>1. /\ UNCHANGED <<now, hash, hashTtl, shadow, shadowTtl, inbox, handling, published,
                     deleted>>
      /\ pc[t] \in {"edit", "failed"} /\ Goto(t, "idle", NoSession)
      /\ \A u \in Threads : u # t => caller'[u] = caller[u] /\ start'[u] = start[u]
  BY DEF EndRequest, GoIdle, redisVars, listenerVars, historyVars
<1> QED
  BY <1>1, NoticeGoto DEF Minds, InWindow, Exists

LEMMA NoticeCommand ==
    ASSUME Noticed, TypeInv, Inv, NoticeInv, NEW t \in Threads,
           \/ DeleteFromIndex(t) \/ PutAll(t) \/ RemoveOldPrincipal(t)
           \/ AddNewPrincipal(t) \/ LeaveOldBucket(t) \/ EnterBucket(t)
    PROVE  NoticeInv'
<1>0. /\ UNCHANGED <<now, hashTtl, shadow, shadowTtl, inbox, handling, published,
                     deleted>>
      /\ UNCHANGED <<caller, start>>
  BY DEF DeleteFromIndex, PutAll, RemoveOldPrincipal, AddNewPrincipal, LeaveOldBucket,
         EnterBucket, Saving, listenerVars, historyVars
<1>1. CASE DeleteFromIndex(t)
  BY <1>0, <1>1, NoticeGoto DEF DeleteFromIndex, Minds, InWindow, Exists
<1>2. CASE PutAll(t)
  <2>1. pc[t] = "hmset" /\ \E step, s : Goto(t, step, s)
    BY <1>2 DEF PutAll, Saving
  <2>2. session[t].id \in Ids /\ hash \in [Ids -> HashValue]
    BY <2>1, NoticeTypes
  <2>3. \A id \in Ids : Exists(id) => Exists(id)'
    BY <1>2, <2>2 DEF PutAll, Hmset, Exists
  <2>4. PICK step, s : Goto(t, step, s)
    BY <2>1
  <2> QED
    BY <1>0, <2>1, <2>3, <2>4, NoticeGoto DEF Minds, InWindow
<1>3. CASE RemoveOldPrincipal(t)
  <2> DEFINE r == [session[t] EXCEPT !.originalPrincipal = session[t].principal]
  <2>1. pc[t] = "unindex" /\ Goto(t, "index", r) /\ hash' = hash
    BY <1>3 DEF RemoveOldPrincipal, Saving
  <2>2. session[t] \in RedisSession
    BY <2>1, NoticeTypes
  <2>3. r.id = session[t].id
    BY <2>2 DEF RedisSession
  <2> HIDE DEF r
  <2> QED
    BY <1>0, <2>1, <2>3, NoticeGoto DEF Exists
<1>4. CASE AddNewPrincipal(t)
  BY <1>0, <1>4, NoticeGoto DEF AddNewPrincipal, Saving, Exists
<1>5. CASE LeaveOldBucket(t)
  BY <1>0, <1>5, NoticeGoto DEF LeaveOldBucket, Saving, Exists
<1>6. CASE EnterBucket(t)
  BY <1>0, <1>6, NoticeGoto DEF EnterBucket, Saving, Exists
<1> QED
  BY <1>1, <1>2, <1>3, <1>4, <1>5, <1>6

\* The DEL of the shadow key is announced while the hash can be read.
LEMMA NoticeDel ==
    ASSUME Noticed, TypeInv, Inv, NoticeInv, NEW t \in Threads, NEW id0 \in Ids,
           DelShadow(id0),
           UNCHANGED <<now, hash, hashTtl, handling, published, deleted, start>>,
           NEW step, NEW s, Goto(t, step, s),
           \A u \in Threads : u # t => caller'[u] = caller[u],
           pc[t] # "shadowTtl",
           ~Minds(t) \/ (step = "hashTtl" /\ s.id = session[t].id)
    PROVE  NoticeInv'
<1>0. /\ shadow' = shadow \ {id0} /\ \A id \in Ids : id # id0 => shadowTtl'[id] = shadowTtl[id]
      /\ shadowTtl'[id0] = NoTtl
  BY NoticeTypes DEF DelShadow
<1>1. \A u \in Threads :
        /\ Minds(u) => Minds(u)' /\ session'[u].id = session[u].id
        /\ pc[u] = "shadowTtl" => pc'[u] = "shadowTtl" /\ session'[u].id = session[u].id
  BY DEF Goto, TypeInv, TypeOK, Minds, InWindow
<1>2. ASSUME NEW id \in Ids, id # id0, Covered(id)
      PROVE  Covered(id)'
  <2>1. Exists(id)'
    BY <1>2 DEF Covered, Exists
  <2> QED
    BY <1>0, <1>1, <1>2, <2>1, CoveredStays
<1>3. ShadowInv'
  <2> SUFFICES ASSUME NEW id \in Ids
               PROVE  /\ id \in shadow' => id \in deleted \/ Covered(id)'
                      /\ id \in shadow' /\ shadowTtl'[id] = NoTtl =>
                           \E w \in Threads : pc'[w] = "shadowTtl" /\ session'[w].id = id
                      /\ id \notin shadow' => shadowTtl'[id] = NoTtl
                      /\ shadowTtl'[id] # NoTtl => shadowTtl'[id] <= now + DefaultInterval
                      /\ id \in shadow' /\ shadowTtl'[id] # NoTtl =>
                           now <= shadowTtl'[id] + MaxExpiryLag
    BY DEF ShadowInv
  <2> QED
    BY <1>0, <1>1, <1>2 DEF NoticeInv, ShadowInv
<1>4. \A id \in Ids : Readable(id) = Readable(id)'
  BY DEF Readable, HashReady, Due, Exists
<1>5. ASSUME NEW m \in inbox', m.type # "created"
      PROVE  Readable(m.id)'
  <2>1. CASE m \in inbox
    BY <1>4, <1>5, <2>1, NoticeTypes DEF NoticeInv, Message
  <2>2. CASE m \notin inbox
    <3>1. id0 \in shadow /\ m \in Publish("del", id0, {})
      BY <2>2 DEF DelShadow
    <3>2. m.id = id0
      BY <3>1 DEF Publish
    <3>3. Readable(id0)
      BY <3>1, CoveredIsReadable DEF NoticeInv
    <3> QED
      BY <1>4, <3>2, <3>3
  <2> QED
    BY <2>1, <2>2
<1> QED
  BY <1>3, <1>5 DEF NoticeInv, DestroyedEventCarriesSession

LEMMA NoticeDeleteShadow ==
    ASSUME Noticed, TypeInv, Inv, NoticeInv, NEW t \in Threads, DeleteShadow(t)
    PROVE  NoticeInv'
<1>1. /\ pc[t] = "delShadow" /\ DelShadow(session[t].id) /\ session[t].id \in Ids
      /\ UNCHANGED <<now, hash, hashTtl, handling, published, deleted, start>>
      /\ \A u \in Threads : u # t => caller'[u] = caller[u]
      /\ \E step, s : Goto(t, step, s)
  BY NoticeTypes
  DEF DeleteShadow, saveDelta, listenerVars, historyVars, TypeInv, TypeOK
<1>2. PICK step, s : Goto(t, step, s)
  BY <1>1
<1> QED
  BY <1>1, <1>2, NoticeDel DEF Minds, InWindow

\* A shadow key is appended to only while its hash has the five minutes to live.
LEMMA NoticeWriteShadow ==
    ASSUME Noticed, TypeInv, Inv, NoticeInv, NEW t \in Threads, WriteShadow(t)
    PROVE  NoticeInv'
<1> DEFINE id0 == session[t].id
<1>0. /\ pc[t] = "append" /\ id0 \in Ids /\ Holds(t)
      /\ UNCHANGED <<now, hash, hashTtl, handling, published, deleted, start, caller>>
  BY NoticeTypes DEF WriteShadow, Saving, historyVars
<1>1. CASE session[t].max = 0
  <2>1. DelShadow(id0) /\ Goto(t, "hashTtl", session[t])
    BY <1>1 DEF WriteShadow
  <2> QED
    BY <1>0, <2>1, NoticeDel
<1>2. CASE session[t].max # 0
  <2>1. /\ shadow' = shadow \cup {id0} /\ UNCHANGED <<shadowTtl, inbox>>
        /\ Goto(t, "shadowTtl", session[t])
    BY <1>2 DEF WriteShadow, AppendShadow
  <2>2. /\ pc'[t] = "shadowTtl" /\ session' = session
        /\ \A u \in Threads : u # t => pc'[u] = pc[u]
    BY <2>1 DEF Goto, TypeInv, TypeOK
  <2>3. \A u \in Threads : Minds(u) => Minds(u)'
    BY <1>0, <2>2 DEF Minds, InWindow
  <2>4. InFlight(t)
    BY <1>0, <1>2 DEF Holds, InFlight, Deleting, DeleteStep
  <2>5. Secured(t) /\ Minds(t)'
    BY <2>2, <2>4 DEF Inv, InFlightInv, Minds, InWindow
  <2>6. \A w \in Threads : (w = t \/ InWindow(w)) => Minds(w)'
    BY <2>3, <2>5 DEF Minds
  <2>7. Covered(id0)'
    BY <1>0, <2>1, <2>2, <2>5, <2>6 DEF Secured, Covered, Exists, Outlives
  <2>8. ASSUME NEW id \in Ids, Covered(id)
        PROVE  Covered(id)'
    <3>1. Exists(id)'
      BY <1>0, <2>8 DEF Covered, Exists
    <3> QED
      BY <1>0, <2>1, <2>2, <2>3, <2>8, <3>1, CoveredStays
  <2>9. ShadowInv'
    <3> SUFFICES ASSUME NEW id \in Ids
                 PROVE  /\ id \in shadow' => id \in deleted \/ Covered(id)'
                        /\ id \in shadow' /\ shadowTtl[id] = NoTtl =>
                             \E w \in Threads : pc'[w] = "shadowTtl" /\ session[w].id = id
                        /\ id \notin shadow' => shadowTtl[id] = NoTtl
                        /\ shadowTtl[id] # NoTtl => shadowTtl[id] <= now + DefaultInterval
                        /\ id \in shadow' /\ shadowTtl[id] # NoTtl =>
                             now <= shadowTtl[id] + MaxExpiryLag
      BY <1>0, <2>1, <2>2 DEF ShadowInv
    <3>1. CASE id = id0 /\ id0 \notin shadow
      BY <2>1, <2>2, <2>7, <3>1 DEF NoticeInv, ShadowInv
    <3>2. CASE ~(id = id0 /\ id0 \notin shadow)
      <4>1. \A w \in Threads : pc[w] = "shadowTtl" => pc'[w] = "shadowTtl"
        BY <1>0, <2>2
      <4>2. id \in shadow' <=> id \in shadow
        BY <2>1, <3>2
      <4> QED
        BY <2>8, <4>1, <4>2 DEF NoticeInv, ShadowInv
    <3> QED
      BY <3>1, <3>2
  <2>10. \A id \in Ids : Readable(id) = Readable(id)'
    BY <1>0 DEF Readable, HashReady, Due, Exists
  <2>11. \A m \in inbox' : m.type # "created" => Readable(m.id)'
    BY <2>1, <2>10, NoticeTypes DEF NoticeInv, Message
  <2> QED
    BY <1>0, <2>9, <2>11 DEF NoticeInv, DestroyedEventCarriesSession
<1> QED
  BY <1>1, <1>2

\* The shadow key gets a deadline that the one of the hash, now or in two commands,
\* is five minutes after.
LEMMA NoticeExtendShadow ==
    ASSUME Noticed, TypeInv, Inv, NoticeInv, NEW t \in Threads, ExtendShadow(t)
    PROVE  NoticeInv'
<1>a. pc[t] = "shadowTtl"
  BY DEF ExtendShadow, Saving
<1>b. PICK id0 \in Ids : id0 = session[t].id
  BY <1>a, NoticeTypes
<1>0. /\ pc[t] = "shadowTtl" /\ session[t].id = id0 /\ Holds(t)
      /\ Goto(t, "hashTtl", session[t])
      /\ UNCHANGED <<now, hash, hashTtl, shadow, inbox, handling, published, deleted,
                     start, caller>>
      /\ ShadowReady(id0)
  BY <1>b, NoticeTypes DEF ExtendShadow, Saving, SetShadowTtl, historyVars
<1>1. /\ pc'[t] = "hashTtl" /\ session' = session
      /\ \A u \in Threads : u # t => pc'[u] = pc[u]
  BY <1>0 DEF Goto, TypeInv, TypeOK
<1>2. session[t].max \in {0, DefaultInterval}
  BY <1>0 DEF Holds, Deleting, DeleteStep
<1>3. PICK d \in Nat : /\ d = now + session[t].max
                       /\ id0 \in shadow => shadowTtl' = [shadowTtl EXCEPT ![id0] = d]
                       /\ id0 \notin shadow => shadowTtl' = shadowTtl
  <2>1. PICK m : m = session[t].max
    OBVIOUS
  <2>2. now \in Nat /\ DefaultInterval \in Int /\ DefaultInterval > 0
    BY NoticeTypes
  <2>3. m \in Nat /\ ~(m < 0) /\ now + m \in Nat
    BY <1>2, <2>1, <2>2
  <2> QED
    BY <1>0, <2>1, <2>3 DEF ExtendShadow, SetShadowTtl
<1>4. /\ \A id \in Ids : id # id0 => shadowTtl'[id] = shadowTtl[id]
      /\ id0 \in shadow => shadowTtl'[id0] = d
      /\ now <= d /\ d <= now + DefaultInterval /\ d # NoTtl
  BY <1>0, <1>2, <1>3, NoticeTypes DEF NoTtl
<1>5. \A u \in Threads : Minds(u) => Minds(u)'
  BY <1>0, <1>1 DEF Minds, InWindow
<1>6. ASSUME NEW id \in Ids, id # id0 \/ id0 \notin shadow, Covered(id)
      PROVE  Covered(id)'
  <2>1. Exists(id)' /\ shadowTtl'[id] = shadowTtl[id]
    BY <1>0, <1>3, <1>4, <1>6 DEF Covered, Exists
  <2> QED
    BY <1>0, <1>1, <1>5, <1>6, <2>1, CoveredStays
<1>7. ASSUME id0 \in shadow, Covered(id0)
      PROVE  Covered(id0)'
  <2>1. Exists(id0)'
    BY <1>0, <1>7 DEF Covered, Exists
  <2>2. CASE hashTtl[id0] = NoTtl
    BY <1>0, <2>1, <2>2 DEF Covered
  <2>3. CASE shadowTtl[id0] # NoTtl /\ hashTtl[id0] >= shadowTtl[id0] + Grace
    <3> DEFINE h == hashTtl[id0]
               e == shadowTtl[id0]
    <3>1. /\ now \in Nat /\ Grace \in Nat /\ e \in Nat \cup {NoTtl} /\ h \in Nat \cup {NoTtl}
          /\ start[t] \in Nat /\ start[t] <= now
      BY <1>0, NoticeTypes DEF Holds
    <3>2. now < e
      BY <1>0, <2>3, <3>1 DEF ShadowReady, Due, NoTtl
    <3>3. h >= start[t] + Grace
      BY <2>3, <3>1, <3>2 DEF NoTtl
    <3>4. Outlives(id0, t)' /\ Minds(t)'
      BY <1>0, <1>1, <3>3 DEF Outlives, Minds, InWindow
    <3> QED
      BY <2>1, <3>4 DEF Covered
  <2>4. CASE \E w \in Threads : Minds(w) /\ Outlives(id0, w)
    BY <1>0, <1>1, <1>5, <2>1, <2>4 DEF Covered, Outlives
  <2> QED
    BY <1>7, <2>2, <2>3, <2>4 DEF Covered
<1>8. ShadowInv'
  <2> SUFFICES ASSUME NEW id \in Ids
               PROVE  /\ id \in shadow => id \in deleted \/ Covered(id)'
                      /\ id \in shadow /\ shadowTtl'[id] = NoTtl =>
                           \E w \in Threads : pc'[w] = "shadowTtl" /\ session[w].id = id
                      /\ id \notin shadow => shadowTtl'[id] = NoTtl
                      /\ shadowTtl'[id] # NoTtl => shadowTtl'[id] <= now + DefaultInterval
                      /\ id \in shadow /\ shadowTtl'[id] # NoTtl =>
                           now <= shadowTtl'[id] + MaxExpiryLag
    BY <1>0, <1>1 DEF ShadowInv
  <2>1. CASE id # id0 \/ id0 \notin shadow
    <3>1. shadowTtl'[id] = shadowTtl[id]
      BY <1>3, <1>4, <2>1
    <3>2. id \in shadow => \A w \in Threads :
            pc[w] = "shadowTtl" /\ session[w].id = id => pc'[w] = "shadowTtl"
      BY <1>0, <1>1, <2>1
    <3> QED
      BY <1>6, <2>1, <3>1, <3>2 DEF NoticeInv, ShadowInv
  <2>2. CASE id = id0 /\ id0 \in shadow
    <3>1. now \in Nat /\ MaxExpiryLag \in Nat
      BY NoticeTypes
    <3> QED
      BY <1>4, <1>7, <2>2, <3>1 DEF NoticeInv, ShadowInv
  <2> QED
    BY <2>1, <2>2
<1>9. \A m \in inbox : Readable(m.id) = Readable(m.id)'
  BY <1>0 DEF Readable, HashReady, Due, Exists
<1> QED
  BY <1>0, <1>8, <1>9 DEF NoticeInv, DestroyedEventCarriesSession

\* The EXPIRE of the hash covers the shadow key for good, or until the deletion ends.
LEMMA NoticeExtendHash ==
    ASSUME Noticed, TypeInv, Inv, NoticeInv, NEW t \in Threads, ExtendHash(t)
    PROVE  NoticeInv'
<1>a. pc[t] = "hashTtl"
  BY DEF ExtendHash, Saving
<1>b. PICK id0 \in Ids : id0 = session[t].id
  BY <1>a, NoticeTypes
<1>0. /\ pc[t] = "hashTtl" /\ session[t].id = id0 /\ Holds(t)
      /\ Goto(t, "return", session[t])
      /\ UNCHANGED <<now, hash, shadow, shadowTtl, inbox, handling, published, deleted,
                     start, caller>>
  BY <1>b, NoticeTypes DEF ExtendHash, Saving, historyVars
<1>1. /\ pc'[t] = "return" /\ session' = session
      /\ \A u \in Threads : u # t => pc'[u] = pc[u]
  BY <1>0 DEF Goto, TypeInv, TypeOK
<1>2. /\ session[t].max \in {0, DefaultInterval}
      /\ caller[t] # "delete" => session[t].max = DefaultInterval
  BY <1>0 DEF Holds, Deleting, DeleteStep
<1>3. PICK d \in Nat : /\ d = now + session[t].max + Grace
                       /\ Exists(id0) => hashTtl' = [hashTtl EXCEPT ![id0] = d]
                       /\ ~Exists(id0) => hashTtl' = hashTtl
  <2>1. PICK m : m = session[t].max
    OBVIOUS
  <2>2. now \in Nat /\ Grace \in Nat /\ DefaultInterval \in Int /\ DefaultInterval > 0
    BY NoticeTypes
  <2>3. m \in Nat /\ ~(m < 0) /\ now + m + Grace \in Nat
    BY <1>2, <2>1, <2>2
  <2> QED
    BY <1>0, <2>1, <2>3 DEF ExtendHash, SetHashTtl
<1>4. /\ \A id \in Ids : id # id0 => hashTtl'[id] = hashTtl[id]
      /\ Exists(id0) => hashTtl'[id0] = d
      /\ now < d /\ d # NoTtl
      /\ \A id \in Ids : Exists(id)' = Exists(id)
  BY <1>0, <1>2, <1>3, NoticeTypes DEF NoTtl, Exists
<1>5. ASSUME NEW id \in Ids, id # id0, Covered(id)
      PROVE  Covered(id)'
  <2>1. \A u \in Threads : Minds(u) /\ session[u].id = id => Minds(u)'
    BY <1>0, <1>1, <1>5 DEF Minds, InWindow
  <2> QED
    BY <1>0, <1>1, <1>4, <1>5, <2>1, CoveredStays DEF Covered
<1>6. ASSUME NEW w \in Threads, pc[w] # "idle", session[w].id = id0, Exists(id0)
      PROVE  Outlives(id0, w)'
  <2>1. start[w] \in Nat /\ start[w] <= now /\ now \in Nat /\ Grace \in Nat /\ DefaultInterval \in Int
        /\ DefaultInterval > 0
    BY <1>6, NoticeTypes DEF Holds
  <2>2. d >= start[w] + Grace
    BY <1>2, <1>3, <2>1
  <2> QED
    BY <1>0, <1>1, <1>4, <1>6, <2>2 DEF Outlives
<1>7. ASSUME id0 \in shadow, Covered(id0)
      PROVE  Covered(id0)'
  <2>1. Exists(id0) /\ Exists(id0)'
    BY <1>4, <1>7, <1>0 DEF Covered
  <2>2. CASE caller[t] = "delete"
    <3>1. Minds(t)' /\ Outlives(id0, t)'
      BY <1>0, <1>1, <1>6, <2>1, <2>2 DEF Minds
    <3> QED
      BY <2>1, <3>1 DEF Covered
  <2>3. CASE caller[t] # "delete" /\ shadowTtl[id0] # NoTtl
    <3> DEFINE e == shadowTtl[id0]
    <3>1. e \in Nat \cup {NoTtl} /\ now \in Nat /\ Grace \in Nat /\ DefaultInterval \in Int
      BY <1>0, NoticeTypes
    <3>2. e <= now + DefaultInterval
      BY <1>0, <2>3 DEF NoticeInv, ShadowInv
    <3>3. d >= e + Grace
      BY <1>2, <1>3, <2>3, <3>1, <3>2 DEF NoTtl
    <3>4. hashTtl'[id0] >= shadowTtl'[id0] + Grace /\ shadowTtl'[id0] # NoTtl
      BY <1>0, <1>4, <2>1, <2>3, <3>3
    <3> QED
      BY <2>1, <3>4 DEF Covered
  <2>4. CASE shadowTtl[id0] = NoTtl
    <3>1. PICK w \in Threads : pc[w] = "shadowTtl" /\ session[w].id = id0
      BY <1>0, <1>7, <2>4 DEF NoticeInv, ShadowInv
    <3>2. Minds(w)' /\ Outlives(id0, w)'
      BY <1>0, <1>1, <1>6, <2>1, <3>1 DEF Minds, InWindow
    <3> QED
      BY <2>1, <3>2 DEF Covered
  <2> QED
    BY <2>2, <2>3, <2>4
<1>8. ShadowInv'
  <2> SUFFICES ASSUME NEW id \in Ids
               PROVE  /\ id \in shadow => id \in deleted \/ Covered(id)'
                      /\ id \in shadow /\ shadowTtl[id] = NoTtl =>
                           \E w \in Threads : pc'[w] = "shadowTtl" /\ session[w].id = id
                      /\ id \notin shadow => shadowTtl[id] = NoTtl
                      /\ shadowTtl[id] # NoTtl => shadowTtl[id] <= now + DefaultInterval
                      /\ id \in shadow /\ shadowTtl[id] # NoTtl =>
                           now <= shadowTtl[id] + MaxExpiryLag
    BY <1>0, <1>1 DEF ShadowInv
  <2>1. \A w \in Threads : pc[w] = "shadowTtl" => pc'[w] = "shadowTtl"
    BY <1>0, <1>1
  <2> QED
    BY <1>5, <1>7, <2>1 DEF NoticeInv, ShadowInv
<1>9. ASSUME NEW id \in Ids, Readable(id)
      PROVE  Readable(id)'
  <2>1. CASE id = id0 /\ Exists(id0)
    BY <1>0, <1>4, <2>1, NoticeTypes DEF Readable, HashReady, Due
  <2>2. CASE id # id0
    BY <1>0, <1>4, <1>9, <2>2 DEF Readable, HashReady, Due
  <2>3. CASE ~Exists(id)
    BY <1>0, <1>9, <2>3 DEF Readable
  <2> QED
    BY <2>1, <2>2, <2>3
<1>10. \A m \in inbox : m.type # "created" => Readable(m.id)'
  BY <1>9, NoticeTypes DEF NoticeInv, Message
<1> QED
  BY <1>0, <1>8, <1>10 DEF NoticeInv, DestroyedEventCarriesSession

\* A deletion that returns leaves a session nobody is told about with its fields.
LEMMA NoticeReturn ==
    ASSUME Noticed, TypeInv, Inv, NoticeInv, NEW t \in Threads, Return(t)
    PROVE  NoticeInv'
<1> DEFINE id0 == session[t].id
<1>0. /\ pc[t] = "return" /\ id0 \in Ids
      /\ UNCHANGED <<now, hash, hashTtl, shadow, shadowTtl, handling, published>>
  BY NoticeTypes DEF Return, listenerVars
<1>1. CASE caller[t] # "delete"
  <2>1. /\ UNCHANGED <<deleted, start>>
        /\ \A u \in Threads : u # t => caller'[u] = caller[u]
        /\ \E step, s : Goto(t, step, s)
        /\ inbox' \subseteq inbox \cup Publish("created", id0, session[t].delta)
    BY <1>1 DEF Return, TypeInv, TypeOK
  <2>2. \A m \in inbox' : m \in inbox \/ m.type = "created"
    BY <2>1 DEF Publish
  <2>3. PICK step, s : Goto(t, step, s)
    BY <2>1
  <2> QED
    BY <1>0, <1>1, <2>1, <2>2, <2>3, NoticeGoto DEF Minds, InWindow, Exists
<1>2. CASE caller[t] = "delete"
  <2>1. /\ deleted' = deleted \cup {id0} /\ inbox' = inbox
        /\ \A u \in Threads : u # t => /\ pc'[u] = pc[u] /\ session'[u] = session[u]
                                       /\ caller'[u] = caller[u] /\ start'[u] = start[u]
    BY <1>2 DEF Return, GoIdle, Goto, TypeInv, TypeOK
  <2>2. ASSUME NEW id \in Ids, id # id0, Covered(id)
        PROVE  Covered(id)'
    <3>1. \A u \in Threads : Minds(u) /\ session[u].id = id =>
            Minds(u)' /\ session'[u].id = id /\ start'[u] = start[u]
      BY <2>1, <2>2 DEF Minds, InWindow
    <3>2. Exists(id)'
      BY <1>0, <2>2 DEF Covered, Exists
    <3> QED
      BY <1>0, <2>2, <3>1, <3>2, CoveredStays
  <2>3. ShadowInv'
    <3> SUFFICES ASSUME NEW id \in Ids
                 PROVE  /\ id \in shadow => id \in deleted' \/ Covered(id)'
                        /\ id \in shadow /\ shadowTtl[id] = NoTtl =>
                             \E w \in Threads : pc'[w] = "shadowTtl" /\ session'[w].id = id
                        /\ id \notin shadow => shadowTtl[id] = NoTtl
                        /\ shadowTtl[id] # NoTtl => shadowTtl[id] <= now + DefaultInterval
                        /\ id \in shadow /\ shadowTtl[id] # NoTtl =>
                             now <= shadowTtl[id] + MaxExpiryLag
      BY <1>0 DEF ShadowInv
    <3>1. \A w \in Threads : pc[w] = "shadowTtl" =>
            pc'[w] = "shadowTtl" /\ session'[w] = session[w]
      BY <1>0, <2>1
    <3> QED
      BY <2>1, <2>2, <3>1 DEF NoticeInv, ShadowInv
  <2>4. \A id \in Ids : Readable(id) => Readable(id)'
    BY <1>0, <2>1 DEF Readable, HashReady, Due, Exists
  <2>5. \A m \in inbox' : m.type # "created" => Readable(m.id)'
    BY <2>1, <2>4, NoticeTypes DEF NoticeInv, Message
  <2> QED
    BY <1>0, <2>1, <2>3, <2>5 DEF NoticeInv, DestroyedEventCarriesSession
<1> QED
  BY <1>1, <1>2

\* The listener reads a hash that is there, and publishes what it has read.
LEMMA NoticeListen ==
    ASSUME Noticed, TypeInv, Inv, NoticeInv, Listen
    PROVE  NoticeInv'
<1>0. /\ UNCHANGED <<now, hash, hashTtl, shadow, shadowTtl, pc, session, caller, start,
                     deleted>>
      /\ inbox' \subseteq inbox
  BY DEF Listen, Receive, CleanIndexAndPublish, Lose, threadVars, historyVars
<1>1. ShadowInv' /\ \A m \in inbox' : m.type # "created" => Readable(m.id)'
  BY <1>0 DEF NoticeInv, ShadowInv, Covered, Minds, InWindow, Outlives, Exists, Readable,
              HashReady, Due
<1>2. ASSUME NEW m \in inbox, Receive(m), m.type = "created"
      PROVE  handling' = handling /\ published' = {m}
  BY <1>2 DEF Receive
<1>3. ASSUME NEW m \in inbox, Receive(m), m.type # "created"
      PROVE  \/ /\ handling' = handling
                /\ \E e : published' = {e} /\ e.id = m.id /\ (m.id \in deleted \/ e.body # {})
             \/ /\ published' = published
                /\ \E h : /\ handling' = handling \cup {h} /\ h.message = m
                          /\ h.message.id \in deleted \/ h.body # {}
  <2> DEFINE e == [m EXCEPT !.body = hash[m.id].fields]
             h == [message |-> m, principal |-> hash[m.id].principal,
                   body |-> hash[m.id].fields]
  <2>1. m.id \in deleted \/ hash[m.id].fields # {}
    BY <1>3 DEF NoticeInv, Readable, Exists
  <2>2. e.id = m.id /\ e.body = hash[m.id].fields
    BY NoticeTypes DEF Message
  <2>3. h.message = m /\ h.body = hash[m.id].fields
    OBVIOUS
  <2>4. \/ published' = {e} /\ handling' = handling
        \/ published' = published /\ handling' = handling \cup {h}
    BY <1>3 DEF Receive
  <2> HIDE DEF e, h
  <2> QED
    BY <2>1, <2>2, <2>3, <2>4
<1>4. ASSUME NEW h \in handling, CleanIndexAndPublish(h)
      PROVE  /\ handling' \subseteq handling
             /\ \E e : /\ published' = {e} /\ e.id = h.message.id
                       /\ h.message.id \in deleted \/ e.body # {}
  <2> DEFINE e == [h.message EXCEPT !.body = h.body]
  <2>1. h.message \in Message
    BY DEF TypeInv, TypeOK
  <2>2. e.id = h.message.id /\ e.body = h.body
    BY <2>1 DEF Message
  <2>3. published' = {e} /\ handling' \subseteq handling
    BY <1>4 DEF CleanIndexAndPublish
  <2>4. h.message.id \in deleted \/ h.body # {}
    BY DEF NoticeInv
  <2> HIDE DEF e
  <2> QED
    BY <2>2, <2>3, <2>4
<1>5. ASSUME NEW m \in inbox, Lose(m)
      PROVE  UNCHANGED <<handling, published>>
  BY <1>5 DEF Lose, listenerVars
<1>6. /\ \A h \in handling' :
           h.message.type # "created" /\ (h.message.id \in deleted' \/ h.body # {})
      /\ DestroyedEventCarriesSession'
  BY <1>0, <1>2, <1>3, <1>4, <1>5 DEF Listen, NoticeInv, DestroyedEventCarriesSession
<1> QED
  BY <1>1, <1>6 DEF NoticeInv

\* Redis evicts no hash that has a shadow key or a message to be read, but those of
\* deleted sessions.
LEMMA NoticeEvict ==
    ASSUME Noticed, TypeInv, Inv, NoticeInv, NEW id0 \in Ids, ExpireHash(id0),
           UNCHANGED <<pc, session, caller, start, handling, published, deleted>>
    PROVE  NoticeInv'
<1>0. /\ ~HashReady(id0)
      /\ UNCHANGED <<now, shadow, shadowTtl, inbox>>
      /\ \A id \in Ids : id # id0 => hash'[id] = hash[id] /\ hashTtl'[id] = hashTtl[id]
  BY NoticeTypes DEF ExpireHash, HashReady
<1>1. id0 \in shadow => id0 \in deleted
  BY <1>0, CoveredIsReadable DEF NoticeInv, Readable
<1>2. ASSUME NEW id \in Ids, id # id0, Covered(id)
      PROVE  Covered(id)'
  <2>1. \A u \in Threads : Minds(u) /\ session[u].id = id =>
          Minds(u)' /\ session'[u].id = id /\ start'[u] = start[u]
    BY DEF Minds, InWindow
  <2>2. Exists(id)'
    BY <1>0, <1>2 DEF Covered, Exists
  <2> QED
    BY <1>0, <1>2, <2>1, <2>2, CoveredStays
<1>3. ShadowInv'
  BY <1>0, <1>1, <1>2 DEF NoticeInv, ShadowInv
<1>4. ASSUME NEW id \in Ids, Readable(id)
      PROVE  Readable(id)'
  <2>1. CASE id = id0
    BY <1>0, <1>4, <2>1 DEF Readable
  <2>2. CASE id # id0
    BY <1>0, <1>4, <2>2 DEF Readable, HashReady, Due, Exists
  <2> QED
    BY <2>1, <2>2
<1>5. \A m \in inbox' : m.type # "created" => Readable(m.id)'
  BY <1>0, <1>4, NoticeTypes DEF NoticeInv, Message
<1> QED
  BY <1>3, <1>5 DEF NoticeInv, DestroyedEventCarriesSession

\* The expiry of a shadow key is announced while the hash can be read.
LEMMA NoticeExpire ==
    ASSUME Noticed, TypeInv, Inv, NoticeInv, NEW id0 \in Ids, ExpireShadow(id0),
           UNCHANGED <<pc, session, caller, start, handling, published, deleted>>
    PROVE  NoticeInv'
<1>0. /\ id0 \in shadow
      /\ UNCHANGED <<now, hash, hashTtl>>
      /\ shadow' = shadow \ {id0} /\ shadowTtl'[id0] = NoTtl
      /\ \A id \in Ids : id # id0 => shadowTtl'[id] = shadowTtl[id]
  BY NoticeTypes DEF ExpireShadow, Due, NoticeInv, ShadowInv
<1>2. ASSUME NEW id \in Ids, id # id0, Covered(id)
      PROVE  Covered(id)'
  <2>1. \A u \in Threads : Minds(u) /\ session[u].id = id =>
          Minds(u)' /\ session'[u].id = id /\ start'[u] = start[u]
    BY DEF Minds, InWindow
  <2>2. Exists(id)'
    BY <1>0, <1>2 DEF Covered, Exists
  <2> QED
    BY <1>0, <1>2, <2>1, <2>2, CoveredStays
<1>3. ShadowInv'
  BY <1>0, <1>2 DEF NoticeInv, ShadowInv
<1>4. \A id \in Ids : Readable(id) = Readable(id)'
  BY <1>0 DEF Readable, HashReady, Due, Exists
<1>5. ASSUME NEW m \in inbox', m.type # "created"
      PROVE  Readable(m.id)'
  <2>1. CASE m \in inbox
    BY <1>4, <1>5, <2>1, NoticeTypes DEF NoticeInv, Message
  <2>2. CASE m \notin inbox
    <3>1. m.id = id0
      BY <2>2 DEF ExpireShadow, Publish
    <3> QED
      BY <1>0, <1>4, <3>1, CoveredIsReadable DEF NoticeInv
  <2> QED
    BY <2>1, <2>2
<1> QED
  BY <1>3, <1>5 DEF NoticeInv, DestroyedEventCarriesSession

\* The clock waits for the listener, and for Redis to delete the expired shadow keys.
LEMMA NoticeTick ==
    ASSUME Noticed, TypeInv, Inv, NoticeInv, Tick
    PROVE  NoticeInv'
<1>0. /\ UNCHANGED <<hash, hashTtl, shadow, shadowTtl, inbox, pc, session, caller, start,
                     handling, published, deleted>>
      /\ now' = now + 1 /\ inbox = {} /\ handling = {}
      /\ \A id \in shadow : shadowTtl[id] # NoTtl => now < shadowTtl[id] + MaxExpiryLag
  BY DEF Tick, Noticed, threadVars, listenerVars, historyVars
<1>1. /\ now \in Nat /\ MaxExpiryLag \in Nat /\ DefaultInterval \in Int
      /\ shadowTtl \in [Ids -> Nat \cup {NoTtl}]
  BY NoticeTypes
<1>2. \A id \in Ids : Covered(id) => Covered(id)'
  BY <1>0 DEF Covered, Minds, InWindow, Outlives, Exists
<1>3. ShadowInv'
  <2> SUFFICES ASSUME NEW id \in Ids
               PROVE  /\ id \in shadow => id \in deleted \/ Covered(id)'
                      /\ id \in shadow /\ shadowTtl[id] = NoTtl =>
                           \E w \in Threads : pc[w] = "shadowTtl" /\ session[w].id = id
                      /\ id \notin shadow => shadowTtl[id] = NoTtl
                      /\ shadowTtl[id] # NoTtl => shadowTtl[id] <= now + 1 + DefaultInterval
                      /\ id \in shadow /\ shadowTtl[id] # NoTtl =>
                           now + 1 <= shadowTtl[id] + MaxExpiryLag
    BY <1>0 DEF ShadowInv
  <2>1. shadowTtl[id] # NoTtl => shadowTtl[id] <= now + 1 + DefaultInterval
    BY <1>1 DEF NoticeInv, ShadowInv
  <2>2. id \in shadow /\ shadowTtl[id] # NoTtl => now + 1 <= shadowTtl[id] + MaxExpiryLag
    BY <1>0, <1>1
  <2> QED
    BY <1>2, <2>1, <2>2 DEF NoticeInv, ShadowInv
<1> QED
  BY <1>0, <1>3 DEF NoticeInv, DestroyedEventCarriesSession

\* Every step keeps the invariant.
LEMMA NoticeNext ==
    ASSUME Noticed, TypeInv, Inv, NoticeInv, [Next]_vars
    PROVE  NoticeInv'
<1>1. ASSUME NEW t \in Threads, Command(t)
      PROVE  NoticeInv'
  <2>1. ~Rename(t)
    BY DEF Rename, Saving, Inv, ThreadInv, Holds
  <2> QED
    BY <1>1, <2>1, NoticeCommand, NoticeDeleteShadow, NoticeWriteShadow,
       NoticeExtendShadow, NoticeExtendHash, NoticeReturn DEF Command
<1>2. ASSUME NEW t \in Threads
      PROVE  ~Crash(t)
  BY DEF Crash, Noticed, Undisturbed, TypeInv, TypeOK
<1>3. CASE Clean
  BY <1>3, NoticeElsewhere
  DEF Clean, CleanRead, CleanDelete, CleanTouch, redisVars, threadVars, listenerVars,
      historyVars
<1>4. CASE Expire
  <2>1. UNCHANGED <<pc, session, caller, start, handling, published, deleted>>
    BY <1>4 DEF Expire, threadVars, listenerVars, historyVars
  <2>2. ASSUME NEW p \in bucketTtl, ExpireBucket(p[1])
        PROVE  NoticeInv'
    BY <2>1, <2>2, NoticeElsewhere DEF ExpireBucket
  <2> QED
    BY <1>4, <2>1, <2>2, NoticeEvict, NoticeExpire DEF Expire
<1>5. CASE UNCHANGED vars
  BY <1>5, NoticeElsewhere DEF vars, redisVars, threadVars, listenerVars, historyVars
<1> QED
  BY <1>1, <1>2, <1>3, <1>4, <1>5, NoticeCall, NoticeEnd, NoticeListen, NoticeTick
  DEF Next

\* Where the listener keeps up and Redis deletes expired keys within the five minutes,
\* every destroyed event of a session that was not deleted carries what the hash had.
THEOREM DestroyedEventsCarrySessions ==
    Noticed => (Spec => []DestroyedEventCarriesSession)
<1>1. Noticed => Undisturbed
  BY DEF Noticed
<1>2. TypeInv /\ Inv /\ NoticeInv => DestroyedEventCarriesSession
  BY DEF NoticeInv
<1>3. ASSUME Noticed
      PROVE  TypeInv /\ Inv /\ NoticeInv /\ [Next]_vars => (TypeInv /\ Inv /\ NoticeInv)'
  BY <1>1, <1>3, TypeNext, InvNext, NoticeNext
<1>4. ASSUME Noticed
      PROVE  Spec => []DestroyedEventCarriesSession
  BY <1>2, <1>3, <1>4, TypeInit, InvInit, NoticeInit, PTL DEF Spec
<1> QED
  BY <1>4
=============================================================================
