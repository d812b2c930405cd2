--------------------------- MODULE RedisSessions ---------------------------
(***************************************************************************)
(* RedisOperationsSessionRepository and RedisSessionExpirationPolicy: the  *)
(* threads that create, load, edit, save and delete sessions, one Redis    *)
(* command per step, together with the minute-by-minute cleanup and the    *)
(* listener of Redis' messages.                                            *)
(*                                                                         *)
(* A thread holds at most one RedisSession, the in-memory copy it loaded   *)
(* or created.  pc names the next Redis command of the call it is in; in   *)
(* "edit" it is in no repository call and the application may use the      *)
(* session.                                                                *)
(***************************************************************************)
EXTENDS RedisServer

CONSTANTS
    Threads,        \* request threads of all the JVMs
    NoId,           \* not an id
    FlushMode,      \* RedisFlushMode: "ON_SAVE" or "IMMEDIATE"
    Touching,       \* FALSE is in it if some client loads a session without
                    \* setLastAccessedTime, TRUE if some client calls it
    SetPrincipals,  \* principals the application may store in a session
    SetIntervals,   \* intervals the application may give a session
    MayChangeId,    \* whether the application calls changeSessionId
    CronMode,       \* cleanup: "off", "prompt" (every minute) or "late"
    PromptListeners,\* whether messages are handled before the clock moves
    MayLose,        \* whether Redis may drop a message (pub/sub is at most once)
    MaxRequest,     \* bound on the duration of a request
    MaxExpiryLag,   \* bound on Redis' delay to delete an expired shadow key
    MaxCrashes,     \* bound on the threads that die in the middle of a call
    MaxCalls,       \* bound on the requests and deletions started
    LastStart,      \* bound on the time a request or a deletion starts
    MaxTime         \* bound on the clock

ASSUME RepositoryAssumption ==
    /\ NoId \notin Ids
    /\ FlushMode \in {"ON_SAVE", "IMMEDIATE"}
    /\ Touching \subseteq BOOLEAN
    /\ SetPrincipals \subseteq MaybePrincipal
    /\ SetIntervals \subseteq Intervals
    /\ {MayChangeId, PromptListeners, MayLose} \subseteq BOOLEAN
    /\ CronMode \in {"off", "prompt", "late"}
    /\ {MaxRequest, MaxExpiryLag, MaxCrashes, MaxCalls, LastStart, MaxTime}
          \subseteq Nat

VARIABLES
    pc,        \* the next command of each thread
    session,   \* the RedisSession each thread holds
    caller,    \* who called saveDelta: a setter, save, or deleteById
    start,     \* when the thread's request started
    calls,     \* requests and deletions started so far
    used,      \* ids generated so far: UUIDs do not repeat
    crashes,   \* threads that died so far
    cronPc, cronAt, cronIds,  \* the cleanup: its step, minute, ids to touch
    handling,  \* destroyed messages whose session the listener has read
    published, \* the last application event published
    deleted,   \* history: ids whose deleteById found the session and returned
    origin     \* history: the id the session was created with, for each id

threadVars == <<pc, session, caller, start, calls, used>>
cronVars == <<cronPc, cronAt, cronIds>>
listenerVars == <<handling, published>>
historyVars == <<deleted, origin>>
vars == <<redisVars, threadVars, crashes, cronVars, listenerVars, historyVars>>

SaveStep == {"rename", "hmset", "unindex", "index", "unbucket", "bucket",
             "append", "shadowTtl", "hashTtl", "return"}
DeleteStep == {"delIndex", "delShadow"}
Step == {"idle", "edit", "failed"} \cup SaveStep \cup DeleteStep

NoTime == -1

RedisSession ==
    [id : Ids \cup {NoId}, originalId : Ids \cup {NoId}, isNew : BOOLEAN,
     last : Nat, max : Intervals, principal : MaybePrincipal,
     delta : SUBSET Field, originalLast : Nat \cup {NoTime},
     originalPrincipal : MaybePrincipal]

NoSession ==
    [id |-> NoId, originalId |-> NoId, isNew |-> FALSE, last |-> 0,
     max |-> DefaultInterval, principal |-> NoPrincipal, delta |-> {},
     originalLast |-> NoTime, originalPrincipal |-> NoPrincipal]

TypeOK ==
    /\ RedisTypeOK
    /\ pc \in [Threads -> Step]
    /\ session \in [Threads -> RedisSession]
    /\ caller \in [Threads -> {"setter", "save", "delete"}]
    /\ start \in [Threads -> Nat]
    /\ calls \in Nat
    /\ used \subseteq Ids
    /\ crashes \in Nat
    /\ cronPc \in {"idle", "del", "touch"}
    /\ cronAt \in Int
    /\ cronIds \subseteq Ids
    /\ handling \subseteq [message : Message, principal : Principals,
                           body : SUBSET Field]
    /\ published \subseteq Message
    /\ deleted \subseteq Ids
    /\ origin \in [Ids -> Ids]

Init ==
    /\ RedisInit
    /\ pc = [t \in Threads |-> "idle"]
    /\ session = [t \in Threads |-> NoSession]
    /\ caller = [t \in Threads |-> "save"]
    /\ start = [t \in Threads |-> 0]
    /\ calls = 0
    /\ used = {}
    /\ crashes = 0
    /\ cronPc = "idle" /\ cronAt = 0 /\ cronIds = {}
    /\ handling = {}
    /\ published = {}
    /\ deleted = {}
    /\ origin = [id \in Ids |-> id]

-----------------------------------------------------------------------------
(* Minutes *)

roundDownMinute(time) == (time \div Minute) * Minute

\* Mutant: the minute a session expires in, which is cleaned before it expires
roundUpWithin(time) == roundDownMinute(time)

roundUpToNextMinute(time) == roundDownMinute(time) + Minute
expiresInMillis(s) == s.last + s.max

-----------------------------------------------------------------------------
(* The in-memory session *)

loadSession(id) ==
    LET h == hash[id]
        last == IF "last" \in h.fields THEN h.last ELSE now
    IN  [id |-> id, originalId |-> id, isNew |-> FALSE,
         last |-> last, max |-> h.max, principal |-> h.principal,
         delta |-> {}, originalLast |-> last, originalPrincipal |-> h.principal]

\* Mutant: a new session without the time of its last access
newSessionUntouched(id) ==
    [id |-> id, originalId |-> id, isNew |-> TRUE, last |-> NoTime,
     max |-> DefaultInterval, principal |-> NoPrincipal,
     delta |-> {"creation", "max", "last"}, originalLast |-> NoTime,
     originalPrincipal |-> NoPrincipal]

newSession(id) ==
    [id |-> id, originalId |-> id, isNew |-> TRUE, last |-> now,
     max |-> DefaultInterval, principal |-> NoPrincipal,
     delta |-> {"creation", "max", "last"}, originalLast |-> NoTime,
     originalPrincipal |-> NoPrincipal]

isExpired(s) == s.max >= 0 /\ now - s.max >= s.last

\* What findById(id) would return if it were called now is a session.
Found(id) == Exists(id) /\ HashReady(id) /\ ~isExpired(loadSession(id))

\* Thread t goes to step with session s.
Goto(t, step, s) ==
    /\ pc' = [pc EXCEPT ![t] = step]
    /\ session' = [session EXCEPT ![t] = s]

\* The call or the request of thread t is over.
GoIdle(t) ==
    /\ Goto(t, "idle", NoSession)
    /\ caller' = [caller EXCEPT ![t] = "save"]
    /\ start' = [start EXCEPT ![t] = 0]

afterRename(s) == IF s.delta = {} THEN "return" ELSE "hmset"

\* Mutant: saveChangeSessionId is forgotten
saveDeltaOnly(t, s, by) ==
    /\ caller' = [caller EXCEPT ![t] = by]
    /\ Goto(t, afterRename(s), s)

saveDelta(t, s, by) ==
    /\ caller' = [caller EXCEPT ![t] = by]
    /\ Goto(t, IF ~s.isNew /\ s.id # s.originalId THEN "rename"
                                                  ELSE afterRename(s), s)

putAndFlush(t, s, f) ==
    LET put == [s EXCEPT !.delta = @ \cup {f}] IN
    IF FlushMode = "IMMEDIATE" THEN saveDelta(t, put, "setter")
                               ELSE Goto(t, "edit", put) /\ UNCHANGED caller

-----------------------------------------------------------------------------
(* Calls of the application *)

Begin(t) ==
    /\ pc[t] = "idle"
    /\ now <= LastStart
    /\ calls < MaxCalls
    /\ calls' = calls + 1
    /\ start' = [start EXCEPT ![t] = now]

\* createSession, then the client's setLastAccessedTime in the same instant
createSession(t, id) ==
    /\ Begin(t)
    /\ id \notin used
    /\ used' = used \cup {id}
    /\ putAndFlush(t, newSession(id), "last")
    /\ UNCHANGED <<redisVars, crashes, cronVars, listenerVars, historyVars>>

\* findById, then setLastAccessedTime by the clients that do
findById(t, id, touch) ==
    /\ Begin(t)
    /\ HashReady(id)
    /\ Found(id)
    /\ IF touch THEN putAndFlush(t, [loadSession(id) EXCEPT !.last = now], "last")
                ELSE Goto(t, "edit", loadSession(id)) /\ UNCHANGED caller
    /\ UNCHANGED <<redisVars, used, crashes, cronVars, listenerVars, historyVars>>

Editing(t) ==
    /\ pc[t] = "edit"
    /\ UNCHANGED <<redisVars, start, calls, crashes, cronVars, listenerVars, deleted>>

setPrincipal(t, p) ==
    /\ Editing(t)
    /\ putAndFlush(t, [session[t] EXCEPT !.principal = p], "principal")
    /\ UNCHANGED <<used, origin>>

setMaxInactiveInterval(t, max) ==
    /\ Editing(t)
    /\ putAndFlush(t, [session[t] EXCEPT !.max = max], "max")
    /\ UNCHANGED <<used, origin>>

changeSessionId(t, id) ==
    /\ MayChangeId
    /\ Editing(t)
    /\ id \notin used
    /\ used' = used \cup {id}
    /\ origin' = [origin EXCEPT ![id] = origin[session[t].id]]
    /\ Goto(t, "edit", [session[t] EXCEPT !.id = id])
    /\ UNCHANGED caller

save(t) ==
    /\ Editing(t)
    /\ saveDelta(t, session[t], "save")
    /\ UNCHANGED <<used, origin>>

\* The request is over and drops its session, also after an exception.
EndRequest(t) ==
    /\ pc[t] \in {"edit", "failed"}
    /\ GoIdle(t)
    /\ UNCHANGED <<redisVars, calls, used, crashes, cronVars, listenerVars, historyVars>>

\* deleteById up to its first write; it does nothing if there is no hash
deleteById(t, id) ==
    /\ Begin(t)
    /\ HashReady(id)
    /\ Exists(id)
    /\ Goto(t, "delIndex", loadSession(id))
    /\ UNCHANGED <<redisVars, caller, used, crashes, cronVars, listenerVars,
                   historyVars>>

-----------------------------------------------------------------------------
(* The commands of deleteById *)

\* cleanupPrincipalIndex; onDelete, which removes "<id>" from the bucket, whose
\* members are all "expires:<id>", and so leaves the bucket as it is
DeleteFromIndex(t) ==
    /\ pc[t] = "delIndex"
    /\ RemoveFromIndex(session[t].principal, session[t].id)
    /\ Goto(t, "delShadow", session[t])
    /\ UNCHANGED <<now, hash, hashTtl, shadow, shadowTtl, bucket, bucketTtl, inbox,
                   caller, start, calls, used, crashes, cronVars, listenerVars, historyVars>>

\* delete(expireKey), setMaxInactiveInterval(ZERO) and save
DeleteShadow(t) ==
    /\ pc[t] = "delShadow"
    /\ DelShadow(session[t].id)
    /\ saveDelta(t, [session[t] EXCEPT !.max = 0, !.delta = {"max"}], "delete")
    /\ UNCHANGED <<now, hash, hashTtl, bucket, bucketTtl, index, start, calls,
                   used, crashes, cronVars, listenerVars, historyVars>>

-----------------------------------------------------------------------------
(* The commands of saveDelta *)

\* Each saving step is a step of thread t that leaves these alone.
Saving(t, step) ==
    /\ pc[t] = step
    /\ UNCHANGED <<now, caller, start, calls, used, crashes, cronVars, handling>>

\* saveChangeSessionId; RENAME fails if the hash is gone
Rename(t) ==
    LET s == session[t] IN
    /\ Saving(t, "rename")
    /\ HashReady(s.originalId)
    /\ IF Exists(s.originalId)
       THEN /\ RenameHash(s.originalId, s.id)
            /\ Goto(t, afterRename(s), [s EXCEPT !.originalId = s.id])
       ELSE /\ UNCHANGED <<hash, hashTtl>>
            /\ Goto(t, "failed", s)
    /\ UNCHANGED <<shadow, shadowTtl, bucket, bucketTtl, index, inbox, published,
                   historyVars>>

\* Mutant: the whole session is written
PutAllFields(t) ==
    LET s == session[t] IN
    /\ Saving(t, "hmset")
    /\ Hmset(s.id, s, Field)
    /\ Goto(t, IF "principal" \in s.delta THEN "unindex" ELSE "unbucket",
               [s EXCEPT !.delta = {}])
    /\ UNCHANGED <<hashTtl, shadow, shadowTtl, bucket, bucketTtl, index, inbox,
                   published, historyVars>>

\* The delta is emptied a few commands later in the code; nothing reads it in
\* between but the branch taken here.
PutAll(t) ==
    LET s == session[t] IN
    /\ Saving(t, "hmset")
    /\ Hmset(s.id, s, s.delta)
    /\ Goto(t, IF "principal" \in s.delta THEN "unindex" ELSE "unbucket",
               [s EXCEPT !.delta = {}])
    /\ UNCHANGED <<hashTtl, shadow, shadowTtl, bucket, bucketTtl, index, inbox,
                   published, historyVars>>

\* Mutant: the principal the index now has is not remembered
RemoveLoadedPrincipal(t) ==
    LET s == session[t] IN
    /\ Saving(t, "unindex")
    /\ RemoveFromIndex(s.originalPrincipal, s.id)
    /\ Goto(t, "index", s)
    /\ UNCHANGED <<hash, hashTtl, shadow, shadowTtl, bucket, bucketTtl, inbox,
                   published, historyVars>>

RemoveOldPrincipal(t) ==
    LET s == session[t] IN
    /\ Saving(t, "unindex")
    /\ RemoveFromIndex(s.originalPrincipal, s.id)
    /\ Goto(t, "index", [s EXCEPT !.originalPrincipal = s.principal])
    /\ UNCHANGED <<hash, hashTtl, shadow, shadowTtl, bucket, bucketTtl, inbox,
                   published, historyVars>>

AddNewPrincipal(t) ==
    LET s == session[t] IN
    /\ Saving(t, "index")
    /\ AddToIndex(s.principal, s.id)
    /\ Goto(t, "unbucket", s)
    /\ UNCHANGED <<hash, hashTtl, shadow, shadowTtl, bucket, bucketTtl, inbox,
                   published, historyVars>>

\* onExpirationUpdated: leave the bucket of the expiry found when loading
LeaveOldBucket(t) ==
    LET s == session[t]
        original == roundUpToNextMinute(s.originalLast + s.max)
        toExpire == roundUpToNextMinute(expiresInMillis(s))
    IN
    /\ Saving(t, "unbucket")
    /\ IF s.originalLast # NoTime /\ toExpire # original
       THEN RemoveFromBucket(original, s.id)
       ELSE UNCHANGED <<bucket, bucketTtl>>
    /\ Goto(t, IF s.max < 0 THEN "append" ELSE "bucket", s)
    /\ UNCHANGED <<hash, hashTtl, shadow, shadowTtl, index, inbox, published,
                   historyVars>>

\* SADD and EXPIRE of the new bucket.  They are one step: a cleanup between them
\* would delete the bucket, as one after them does.
EnterBucket(t) ==
    LET s == session[t]
        toExpire == roundUpToNextMinute(expiresInMillis(s))
    IN
    /\ Saving(t, "bucket")
    /\ AddToBucket(toExpire, s.id, now + s.max + Grace)
    /\ Goto(t, "append", s)
    /\ UNCHANGED <<hash, hashTtl, shadow, shadowTtl, index, inbox, published,
                   historyVars>>

\* APPEND of "" to the shadow key, which creates it; DEL for a zero interval
WriteShadow(t) ==
    LET s == session[t] IN
    /\ Saving(t, "append")
    /\ IF s.max = 0
       THEN DelShadow(s.id) /\ Goto(t, "hashTtl", s)
       ELSE AppendShadow(s.id) /\ Goto(t, "shadowTtl", s)
                               /\ UNCHANGED <<shadowTtl, inbox>>
    /\ UNCHANGED <<hash, hashTtl, bucket, bucketTtl, index, published, historyVars>>

\* Mutant: a negative interval does not PERSIST the shadow key
ExtendShadowOnly(t) ==
    LET s == session[t] IN
    /\ Saving(t, "shadowTtl")
    /\ IF s.max < 0 THEN UNCHANGED shadowTtl
                    ELSE SetShadowTtl(s.id, now + s.max)
    /\ Goto(t, "hashTtl", s)
    /\ UNCHANGED <<hash, hashTtl, shadow, bucket, bucketTtl, index, inbox,
                   published, historyVars>>

ExtendShadow(t) ==
    LET s == session[t] IN
    /\ Saving(t, "shadowTtl")
    /\ SetShadowTtl(s.id, IF s.max < 0 THEN NoTtl ELSE now + s.max)
    /\ Goto(t, "hashTtl", s)
    /\ UNCHANGED <<hash, hashTtl, shadow, bucket, bucketTtl, index, inbox,
                   published, historyVars>>

\* Mutant: the hash goes together with the shadow key
ExtendHashNoGrace(t) ==
    LET s == session[t] IN
    /\ Saving(t, "hashTtl")
    /\ SetHashTtl(s.id, IF s.max < 0 THEN NoTtl ELSE now + s.max)
    /\ Goto(t, "return", s)
    /\ UNCHANGED <<hash, shadow, shadowTtl, bucket, bucketTtl, index, inbox,
                   published, historyVars>>

ExtendHash(t) ==
    LET s == session[t] IN
    /\ Saving(t, "hashTtl")
    /\ SetHashTtl(s.id, IF s.max < 0 THEN NoTtl ELSE now + s.max + Grace)
    /\ Goto(t, "return", s)
    /\ UNCHANGED <<hash, shadow, shadowTtl, bucket, bucketTtl, index, inbox,
                   published, historyVars>>

\* Back in the caller: save announces a new session with the delta as body.
Return(t) ==
    LET s == session[t] IN
    /\ pc[t] = "return"
    /\ IF caller[t] = "delete"
       THEN GoIdle(t) /\ deleted' = deleted \cup {s.id} /\ UNCHANGED inbox
       ELSE /\ Goto(t, "edit", [s EXCEPT !.isNew = @ /\ caller[t] = "setter"])
            /\ inbox' = IF caller[t] = "save" /\ s.isNew
                        THEN inbox \cup Publish("created", s.id, s.delta)
                        ELSE inbox
            /\ UNCHANGED <<deleted, start>>
            /\ caller' = [caller EXCEPT ![t] = "save"]
    /\ UNCHANGED <<now, hash, hashTtl, shadow, shadowTtl, bucket, bucketTtl, index,
                   calls, used, crashes, cronVars, listenerVars, origin>>

\* The thread's JVM dies.
Crash(t) ==
    /\ pc[t] # "idle"
    /\ crashes < MaxCrashes
    /\ crashes' = crashes + 1
    /\ GoIdle(t)
    /\ UNCHANGED <<redisVars, calls, used, cronVars, listenerVars, historyVars>>

-----------------------------------------------------------------------------
(* cleanExpiredSessions *)

CronDue == CronMode # "off" /\ roundDownMinute(now) > cronAt

CleanRead ==
    /\ CronDue
    /\ cronPc = "idle"
    /\ BucketReady(roundDownMinute(now))
    /\ cronAt' = roundDownMinute(now)
    /\ cronIds' = {id \in Ids : <<cronAt', id>> \in bucket}
    /\ cronPc' = "del"
    /\ UNCHANGED <<redisVars, threadVars, crashes, listenerVars, historyVars>>

CleanDelete ==
    /\ cronPc = "del"
    /\ DelBucket(cronAt)
    /\ cronPc' = IF cronIds = {} THEN "idle" ELSE "touch"
    /\ UNCHANGED <<now, hash, hashTtl, shadow, shadowTtl, index, inbox, threadVars,
                   crashes, cronAt, cronIds, listenerVars, historyVars>>

\* hasKey: a due shadow key is first expired by ExpireShadow
CleanTouch(id) ==
    /\ cronPc = "touch"
    /\ id \in cronIds
    /\ ShadowReady(id)
    /\ cronIds' = cronIds \ {id}
    /\ cronPc' = IF cronIds' = {} THEN "idle" ELSE "touch"
    /\ UNCHANGED <<redisVars, threadVars, crashes, cronAt, listenerVars, historyVars>>

-----------------------------------------------------------------------------
(* onMessage *)

\* A created message is published at once; a destroyed one after a look at the
\* hash, which tells the principal to remove from the index.
Receive(m) ==
    LET h == hash[m.id] IN
    /\ m \in inbox
    /\ inbox' = inbox \ {m}
    /\ \/ /\ m.type = "created"
          /\ published' = {m}
          /\ UNCHANGED handling
       \/ /\ m.type # "created"
          /\ HashReady(m.id)
          /\ IF h.principal = NoPrincipal
             THEN published' = {[m EXCEPT !.body = h.fields]} /\ UNCHANGED handling
             ELSE /\ handling' = handling \cup
                        {[message |-> m, principal |-> h.principal,
                          body |-> h.fields]}
                  /\ UNCHANGED published
    /\ UNCHANGED <<now, hash, hashTtl, shadow, shadowTtl, bucket, bucketTtl, index,
                   threadVars, crashes, cronVars, historyVars>>

CleanIndexAndPublish(h) ==
    /\ h \in handling
    /\ handling' = handling \ {h}
    /\ RemoveFromIndex(h.principal, h.message.id)
    /\ published' = {[h.message EXCEPT !.body = h.body]}
    /\ UNCHANGED <<now, hash, hashTtl, shadow, shadowTtl, bucket, bucketTtl, inbox,
                   threadVars, crashes, cronVars, historyVars>>

Lose(m) ==
    /\ MayLose
    /\ m \in inbox
    /\ inbox' = inbox \ {m}
    /\ UNCHANGED <<now, hash, hashTtl, shadow, shadowTtl, bucket, bucketTtl, index,
                   threadVars, crashes, cronVars, listenerVars, historyVars>>

-----------------------------------------------------------------------------
(* Time.  The clock waits for what the bounds of the environment say has   *)
(* happened by now.                                                        *)

Tick ==
    /\ now < MaxTime
    /\ \A t \in Threads : pc[t] # "idle" => now < start[t] + MaxRequest
    /\ \A id \in shadow :
          shadowTtl[id] # NoTtl => now < shadowTtl[id] + MaxExpiryLag
    /\ PromptListeners => inbox = {} /\ handling = {}
    /\ CronMode = "prompt" => ~CronDue /\ cronPc = "idle"
    /\ now' = now + 1
    /\ UNCHANGED <<hash, hashTtl, shadow, shadowTtl, bucket, bucketTtl, index, inbox,
                   threadVars, crashes, cronVars, listenerVars, historyVars>>

Expire ==
    /\ \/ \E id \in Ids : ExpireHash(id) \/ ExpireShadow(id)
       \/ \E p \in bucketTtl : ExpireBucket(p[1])
    /\ UNCHANGED <<threadVars, crashes, cronVars, listenerVars, historyVars>>

Call(t) ==
    \/ \E id \in Ids : createSession(t, id) \/ deleteById(t, id)
                       \/ changeSessionId(t, id)
    \/ \E id \in Ids, touch \in Touching : findById(t, id, touch)
    \/ \E p \in SetPrincipals : setPrincipal(t, p)
    \/ \E max \in SetIntervals : setMaxInactiveInterval(t, max)
    \/ save(t)

Command(t) ==
    \/ DeleteFromIndex(t) \/ DeleteShadow(t)
    \/ Rename(t) \/ PutAll(t) \/ RemoveOldPrincipal(t) \/ AddNewPrincipal(t)
    \/ LeaveOldBucket(t) \/ EnterBucket(t)
    \/ WriteShadow(t) \/ ExtendShadow(t) \/ ExtendHash(t) \/ Return(t)

Clean == CleanRead \/ CleanDelete \/ \E id \in Ids : CleanTouch(id)

Listen ==
    \/ \E m \in inbox : Receive(m) \/ Lose(m)
    \/ \E h \in handling : CleanIndexAndPublish(h)

Next ==
    \/ \E t \in Threads : Call(t) \/ Command(t) \/ EndRequest(t) \/ Crash(t)
    \/ Clean
    \/ Listen
    \/ Expire
    \/ Tick

Spec == Init /\ [][Next]_vars

\* The JVMs keep running their threads, the listener and the cleanup; requests
\* end; Redis deletes due keys sooner or later; the clock moves.
Fairness ==
    /\ \A t \in Threads : WF_vars(Command(t)) /\ SF_vars(EndRequest(t))
    /\ WF_vars(Clean)
    /\ WF_vars(Listen)
    /\ WF_vars(Expire)
    /\ WF_vars(Tick)

FairSpec == Spec /\ Fairness

-----------------------------------------------------------------------------
(* Properties *)

\* No thread is in the middle of a repository call on id.
AtRest(id) ==
    \A t \in Threads : session[t].id = id =>
        pc[t] \in {"idle", "edit", "failed"} /\ session[t].delta = {}

\* Once deleteById(id) has returned, findById(id) never returns the session
\* again, whatever other requests that had loaded it before save afterwards:
\* the hash stays behind with a zero maxInactiveInterval for longer than any
\* request lasts.
DeletedStaysDead == \A id \in deleted : ~Found(id)

\* findById returns no session reduced to the delta of a late save: a hash
\* evicted while a request was running is not born again from what that
\* request writes.
LiveIsComplete ==
    \A id \in Ids : Found(id) => {"creation", "max", "last"} \subseteq hash[id].fields

\* What findById returns is kept for as long as its interval says, and watched:
\* the hash outlives the session by the five minutes, and the shadow key, whose
\* end is the only notice of the session's end, does not go before the session;
\* a session with a negative interval has no deadline at all.
LiveIsKept ==
    \A id \in Ids : Found(id) /\ AtRest(id) =>
        LET ends == hash[id].last + hash[id].max IN
        /\ id \in shadow
        /\ IF hash[id].max < 0
           THEN shadowTtl[id] = NoTtl /\ hashTtl[id] = NoTtl
           ELSE shadowTtl[id] >= ends /\ hashTtl[id] >= ends + Grace

\* No session's end goes unnoticed for more than a minute, even if Redis deletes
\* no key by itself: the bucket that has the session is the one the cleanup
\* reads after the shadow key's deadline.
TimelyExpiry ==
    \A id \in shadow : shadowTtl[id] # NoTtl => now <= shadowTtl[id] + Minute

\* Between calls the index has a session under its present principal, and only
\* there, from its first save until its destroyed event has been handled.
IndexExact ==
    inbox = {} /\ handling = {} =>
        \A id \in Ids, p \in Principals : AtRest(id) =>
            (id \in index[p] <=> id \in shadow /\ hash[id].principal = p)

\* A session is not alive under two ids: once changeSessionId is saved, the id
\* it had is gone.
OneLiveCopy ==
    \A a, b \in Ids : Found(a) /\ Found(b) /\ origin[a] = origin[b] => a = b

\* The created event's session is the session that was created.
CreatedEventCarriesSession ==
    \A e \in published :
        e.type = "created" => {"creation", "max", "last"} \subseteq e.body

\* The destroyed event carries the session, unless the session was deleted (a
\* save that races with deleteById may write the shadow key again with the
\* session's own interval and leave the hash with the five minutes of the
\* deletion): when the shadow key goes, the hash is there for the listener.
DestroyedEventCarriesSession ==
    \A e \in published :
        e.type # "created" /\ e.id \notin deleted => e.body # {}

\* A session that ends by expiry leaves the principal index in the end: the
\* expired event reaches the listener while the hash still tells the principal,
\* whatever the saves that ran around the expiry put back.
ExpiredLeavesIndex ==
    <>[](\A id \in Ids \ deleted, p \in Principals : id \in index[p] => Found(id))
=============================================================================
