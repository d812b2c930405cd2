--------------------------- MODULE RedisAloneInv ----------------------------
(***************************************************************************)
(* The inductive invariants behind the properties of RedisSessions that    *)
(* hold when no two requests have one session at the same time (Alone):    *)
(* OneLiveCopy, LiveIsKept, TimelyExpiry and IndexExact.                   *)
(***************************************************************************)
EXTENDS RedisSessionsInv

\* Each session is in one request at a time, whichever of its ids the request knows.
Alone ==
    \A t, u \in Threads :
        /\ pc[t] # "idle" /\ pc[u] # "idle"
        /\ origin[session[t].id] = origin[session[u].id]
        => t = u

-----------------------------------------------------------------------------
(* Changes of the id, in requests that may die at any command and flush on *)
(* save.  (Flushed at once, a new session leaves a hash under its first id *)
(* when it changes the id before save.)                                    *)

Renaming == FlushMode = "ON_SAVE"

\* The hashes of the session that was created as the one named id
Kin(id) == {x \in Ids : Exists(x) /\ origin[x] = origin[id]}

NoTwins == \A a, b \in Ids : Exists(a) /\ Exists(b) /\ origin[a] = origin[b] => a = b

\* An id that is not used yet is nobody's, and origins are ids in use.
OriginInv ==
    \A id \in Ids :
        /\ Exists(id) => id \in used
        /\ id \in used => origin[id] \in used
        /\ id \notin used => origin[id] = id

\* What thread t may write creates no twin: what it holds is unwritten, was loaded
\* and has its hash under the same id, or is to be renamed first.
HoldsKin(t) ==
    LET s == session[t] IN
    /\ {s.id, s.originalId} \subseteq used
    /\ origin[s.originalId] = origin[s.id]
    /\ caller[t] # "setter"
    /\ pc[t] = "edit" /\ s.isNew => Kin(s.id) = {}
    /\ pc[t] \in SaveStep \ {"rename"} => Kin(s.id) \subseteq {s.id}
    /\ pc[t] = "edit" /\ s.id = s.originalId => Kin(s.id) \subseteq {s.id}
    /\ pc[t] \in DeleteStep =>
          s.id = s.originalId /\ ~s.isNew /\ Kin(s.id) \subseteq {s.id}

LineageInv ==
    /\ NoTwins
    /\ OriginInv
    /\ \A t \in Threads : IF pc[t] = "idle" THEN caller[t] # "setter" ELSE HoldsKin(t)

-----------------------------------------------------------------------------
(* Deadlines, in requests that take no time.  (In longer ones the shadow   *)
(* key may expire while a save goes on, or stay for more than a minute.)   *)

Instant ==
    /\ MaxRequest = 0
    /\ MaxCrashes = 0
    /\ MayChangeId = FALSE

\* The hash of session s has what s has not changed.
Agrees(s) ==
    LET h == hash[s.id] IN
    /\ Whole \subseteq h.fields
    /\ "max" \in s.delta \/ h.max = s.max
    /\ "last" \in s.delta \/ h.last = s.last

\* What a thread may have at a step of a call that caller made: a session it has
\* created and not written yet, or one that agrees with the hash; no shadow key
\* if it deletes, and the deadlines it has set so far.
MayHold(step, s, by) ==
    /\ step \notin {"idle", "rename", "failed"}
    /\ s.originalId = s.id /\ s.last <= now
    /\ IF "creation" \in s.delta
       THEN ~Exists(s.id) /\ s.id \notin shadow /\ Whole \subseteq s.delta
            /\ by # "delete"
       ELSE Agrees(s) /\ HashReady(s.id)
    /\ s.delta # {} => step \in {"edit", "hmset"}
    /\ by # "delete" /\ step \notin DeleteStep => ShadowReady(s.id)
    /\ by = "delete" => step \in SaveStep /\ s.max = 0 /\ s.id \notin shadow
    /\ step = "shadowTtl" => s.max # 0 /\ s.id \in shadow
    /\ step = "hashTtl" =>
          IF s.max = 0 THEN s.id \notin shadow
          ELSE /\ s.id \in shadow
               /\ shadowTtl[s.id] = IF s.max < 0 THEN NoTtl ELSE now + s.max

\* The save a thread is in has not set the deadlines yet.
OpenStep(step, by) ==
    \/ step \in {"unindex", "index", "unbucket", "bucket", "append", "shadowTtl",
                 "hashTtl"}
    \/ by = "delete" /\ step = "hmset"

Open(id) == \E t \in Threads : session[t].id = id /\ OpenStep(pc[t], caller[t])

\* The hash outlives the session by the five minutes, and its shadow key by as much,
\* which is there until the session's end.
KeptHash(id) ==
    LET ends == hash[id].last + hash[id].max IN
    /\ Whole \subseteq hash[id].fields
    /\ hash[id].max < 0 => id \in shadow /\ shadowTtl[id] = NoTtl /\ hashTtl[id] = NoTtl
    /\ hash[id].max >= 0 =>
          /\ hashTtl[id] # NoTtl /\ hashTtl[id] >= ends + Grace
          /\ IF id \in shadow
             THEN /\ hash[id].max # 0 /\ shadowTtl[id] # NoTtl
                  /\ shadowTtl[id] >= ends /\ hashTtl[id] = shadowTtl[id] + Grace
             ELSE now >= ends

\* What is known of every id
KeyInv ==
    \A id \in Ids :
        /\ Exists(id) \/ id \in shadow => id \in used
        /\ ~Exists(id) => hash[id] = NoHash /\ hashTtl[id] = NoTtl
        /\ id \notin shadow => shadowTtl[id] = NoTtl
        /\ hash[id].last <= now

InstantInv ==
    /\ KeyInv
    /\ \A t \in Threads :
          /\ pc[t] # "idle" => /\ start[t] = now
                              /\ session[t].id \in used
                              /\ MayHold(pc[t], session[t], caller[t])
          /\ pc[t] \in {"idle", "edit"} \cup DeleteStep => caller[t] = "save"
    /\ \A id \in Ids : Exists(id) => Open(id) \/ KeptHash(id)

-----------------------------------------------------------------------------
(* The cleanup, in requests that take no time and set the time of the last *)
(* access.  (A session loaded without that is in the bucket of its old     *)
(* last access, while its shadow key counts from now.)                     *)

Punctual == Instant /\ CronMode = "prompt" /\ Touching \subseteq {TRUE}

\* The cleanup has read the bucket of every minute so far, or is about to read that
\* of the one that has just begun.
CronInv ==
    /\ cronAt = roundDownMinute(cronAt)
    /\ cronAt <= now /\ now <= cronAt + Minute
    /\ cronPc # "idle" => now = cronAt

\* The cleanup will find id in the bucket of the deadline d.
InBucket(id, d) ==
    /\ cronAt < roundUpToNextMinute(d)
    /\ <<roundUpToNextMinute(d), id>> \in bucket

\* The cleanup will touch the shadow key of id, or is about to.
Watched(id) ==
    \/ InBucket(id, shadowTtl[id])
    \/ /\ cronAt = roundUpToNextMinute(shadowTtl[id])
       /\ cronPc # "idle" /\ id \in cronIds

\* A save that has left the old bucket and not set the new deadline
Rewatching(step) == step \in {"bucket", "append", "shadowTtl"}

\* What thread t knows of the bucket it has entered
Entered(step, s) ==
    step \in {"append", "shadowTtl"} /\ s.max > 0 => InBucket(s.id, now + s.max)

WatchInv ==
    /\ CronInv
    /\ \A p \in bucketTtl : p[1] < p[2]
    /\ \A t \in Threads :
          /\ pc[t] \notin {"idle"} \cup DeleteStep /\ caller[t] # "delete" =>
                session[t].last = now
          /\ Entered(pc[t], session[t])
    /\ \A id \in shadow : shadowTtl[id] # NoTtl =>
          \/ Watched(id)
          \/ \E t \in Threads : session[t].id = id /\ Rewatching(pc[t])

-----------------------------------------------------------------------------
(* The index, with listeners that lose no message and handle it before the *)
(* clock moves.  (A session whose interval is set to zero before its first *)
(* save is indexed without a shadow key, so nothing ever takes it out.)    *)

Indexing ==
    /\ Punctual
    /\ PromptListeners = TRUE /\ MayLose = FALSE
    /\ Nodes # {}
    /\ 0 \notin SetIntervals

\* A destroyed message of id is on its way, or its listener has read the hash.
Sent(id) == \E m \in inbox : m.type # "created" /\ m.id = id
Doomed(id) == Sent(id) \/ \E h \in handling : h.message.id = id

\* The listener will take id from the index of p.
Pending(id, p) ==
    Sent(id) \/ \E h \in handling : h.message.id = id /\ h.principal = p

\* The index has id under the principal of its hash from its first save until its
\* destroyed message is handled, which finds the hash.
Settled(id) ==
    \A p \in Principals :
        /\ id \in shadow /\ hash[id].principal = p => id \in index[p]
        /\ id \in index[p] => /\ hash[id].principal = p /\ HashReady(id)
                              /\ id \in shadow \/ Pending(id, p)

\* The session of a thread: a deletion has taken its id from the index; a save has
\* it there under the original principal, the one of the hash until HMSET writes a
\* new one, and in no index between the commands that take it out and put it back.
HeldIndex(step, s, by) ==
    /\ by = "delete" \/ step = "delShadow" =>
          /\ \A p \in Principals : s.id \notin index[p]
          /\ step \notin {"unindex", "index"}
    /\ by = "delete" => "principal" \notin s.delta
    /\ step = "delIndex" => Settled(s.id) /\ hash[s.id].principal = s.principal
    /\ by # "delete" /\ step \notin DeleteStep =>
          /\ ~Doomed(s.id) /\ s.max # 0
          /\ \A p \in Principals : s.id \in index[p] <=>
                                   p = s.originalPrincipal /\ step # "index"
          /\ step = "unindex" \/ s.originalPrincipal = hash[s.id].principal
          /\ "principal" \in s.delta \/ s.principal = hash[s.id].principal
          /\ \/ s.id \in shadow \/ "creation" \in s.delta
             \/ step \in {"unindex", "index", "unbucket", "bucket", "append"}

IndexInv ==
    /\ \A id \in Ids : Doomed(id) => id \notin shadow /\ id \in used
    /\ \A t \in Threads : pc[t] # "idle" => HeldIndex(pc[t], session[t], caller[t])
    /\ \A id \in Ids : (\A t \in Threads : pc[t] # "idle" => session[t].id # id)
                       => Settled(id)
=============================================================================
