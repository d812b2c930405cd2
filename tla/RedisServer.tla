---------------------------- MODULE RedisServer ----------------------------
(***************************************************************************)
(* The Redis server as spring-session-data-redis uses it: the keys of a    *)
(* session, the commands the repository sends, key expiry and the keyspace *)
(* notifications published for the shadow key `sessions:expires:<id>'.     *)
(* Redis runs one command at a time, so every operator here is atomic.     *)
(* Only the use the code under spring-session-data-redis makes of Redis is *)
(* modelled; the server itself is external to the repository.              *)
(*                                                                         *)
(* A key whose deadline has passed is deleted either by the server's own   *)
(* background cycle or by the first command that touches it.  Here it is   *)
(* always deleted by ExpireHash, ExpireShadow or ExpireBucket, and a       *)
(* command on a due key waits for that step (HashReady, ShadowReady,       *)
(* BucketReady): the interleavings are the same.                           *)
(***************************************************************************)
EXTENDS Integers, FiniteSets

CONSTANTS
    Ids,              \* session ids a UUID generator may return
    Nodes,            \* JVMs subscribed to the keyspace notifications
    Principals,       \* principal names
    NoPrincipal,      \* the null principal
    Intervals,        \* values a session's maxInactiveInterval may have
    DefaultInterval,  \* MapSession.DEFAULT_MAX_INACTIVE_INTERVAL_SECONDS
    Minute,           \* length of a minute in clock ticks
    Grace             \* the five minutes the data outlives the session

ASSUME ConstantsAssumption ==
    /\ NoPrincipal \notin Principals
    /\ Intervals \subseteq Int
    /\ {0, DefaultInterval} \subseteq Intervals
    /\ DefaultInterval > 0
    /\ Minute \in Nat \ {0}
    /\ Grace \in Nat
    /\ Minute < Grace

VARIABLES
    now,        \* the clock, shared by Redis and the JVMs
    hash,       \* sessions:<id>, the session's hash; no fields: no key
    hashTtl,    \* its deadline, or NoTtl
    shadow,     \* the ids whose key sessions:expires:<id> exists
    shadowTtl,  \* its deadline, or NoTtl
    bucket,     \* <<m, id>>: the set expirations:<m> has member "expires:<id>"
    bucketTtl,  \* <<m, d>>: the set expirations:<m> expires at d
    index,      \* index:...PRINCIPAL_NAME_INDEX_NAME:<p>, ids of principal p
    inbox       \* messages published and not yet received, in no order

redisVars == <<now, hash, hashTtl, shadow, shadowTtl, bucket, bucketTtl, index,
               inbox>>

NoTtl == -1
MaybePrincipal == Principals \cup {NoPrincipal}
Field == {"creation", "max", "last", "principal"}

\* A hash with the set of its fields; a field it lacks has a fixed value.
HashValue == [fields : SUBSET Field, max : Intervals, last : Nat,
              principal : MaybePrincipal]
NoHash == [fields |-> {}, max |-> DefaultInterval, last |-> 0,
           principal |-> NoPrincipal]

\* created: the body is the set of fields serialized into the message.
Message == [node : Nodes, type : {"created", "del", "expired"}, id : Ids,
            body : SUBSET Field]

RedisTypeOK ==
    /\ now \in Nat
    /\ hash \in [Ids -> HashValue]
    /\ hashTtl \in [Ids -> Nat \cup {NoTtl}]
    /\ shadow \subseteq Ids
    /\ shadowTtl \in [Ids -> Nat \cup {NoTtl}]
    /\ bucket \subseteq Int \X Ids
    /\ bucketTtl \subseteq Int \X Int
    /\ index \in [Principals -> SUBSET Ids]
    /\ inbox \subseteq Message

RedisInit ==
    /\ now = 0
    /\ hash = [id \in Ids |-> NoHash]
    /\ hashTtl = [id \in Ids |-> NoTtl]
    /\ shadow = {}
    /\ shadowTtl = [id \in Ids |-> NoTtl]
    /\ bucket = {}
    /\ bucketTtl = {}
    /\ index = [p \in Principals |-> {}]
    /\ inbox = {}

-----------------------------------------------------------------------------
(* Expiry *)

Exists(id) == hash[id].fields # {}

Due(ttl) == ttl # NoTtl /\ ttl <= now
HashReady(id) == ~Due(hashTtl[id])
ShadowReady(id) == ~Due(shadowTtl[id])
BucketReady(m) == \A p \in bucketTtl : p[1] = m => ~Due(p[2])

Publish(type, id, body) ==
    {[node |-> n, type |-> type, id |-> id, body |-> body] : n \in Nodes}

ExpireHash(id) ==
    /\ Due(hashTtl[id])
    /\ hash' = [hash EXCEPT ![id] = NoHash]
    /\ hashTtl' = [hashTtl EXCEPT ![id] = NoTtl]
    /\ UNCHANGED <<now, shadow, shadowTtl, bucket, bucketTtl, index, inbox>>

\* The shadow key's expiry is the notification `:expired' of the session.
ExpireShadow(id) ==
    /\ Due(shadowTtl[id])
    /\ shadow' = shadow \ {id}
    /\ shadowTtl' = [shadowTtl EXCEPT ![id] = NoTtl]
    /\ inbox' = inbox \cup Publish("expired", id, {})
    /\ UNCHANGED <<now, hash, hashTtl, bucket, bucketTtl, index>>

ExpireBucket(m) ==
    /\ ~BucketReady(m)
    /\ bucket' = {p \in bucket : p[1] # m}
    /\ bucketTtl' = {p \in bucketTtl : p[1] # m}
    /\ UNCHANGED <<now, hash, hashTtl, shadow, shadowTtl, index, inbox>>

-----------------------------------------------------------------------------
(* Commands.  Each states the new values of the keys it may change; the    *)
(* caller leaves the others alone.                                         *)

\* HMSET of the fields D of session s
Hmset(id, s, D) ==
    /\ HashReady(id)
    /\ hash' = [hash EXCEPT ![id] =
                 [fields |-> @.fields \cup D,
                  max |-> IF "max" \in D THEN s.max ELSE @.max,
                  last |-> IF "last" \in D THEN s.last ELSE @.last,
                  principal |-> IF "principal" \in D THEN s.principal
                                                     ELSE @.principal]]

\* RENAME, which moves the time to live with the value
RenameHash(old, new) ==
    /\ hash' = [hash EXCEPT ![old] = NoHash, ![new] = hash[old]]
    /\ hashTtl' = [hashTtl EXCEPT ![old] = NoTtl, ![new] = hashTtl[old]]

\* EXPIRE, or PERSIST when ttl is NoTtl; neither creates a key
SetHashTtl(id, ttl) ==
    /\ HashReady(id)
    /\ hashTtl' = IF Exists(id) THEN [hashTtl EXCEPT ![id] = ttl] ELSE hashTtl

AppendShadow(id) == ShadowReady(id) /\ shadow' = shadow \cup {id}

SetShadowTtl(id, ttl) ==
    /\ ShadowReady(id)
    /\ shadowTtl' = IF id \in shadow THEN [shadowTtl EXCEPT ![id] = ttl]
                                     ELSE shadowTtl

\* DEL, which publishes the notification `:del' if there was a key
DelShadow(id) ==
    /\ ShadowReady(id)
    /\ shadow' = shadow \ {id}
    /\ shadowTtl' = [shadowTtl EXCEPT ![id] = NoTtl]
    /\ inbox' = IF id \in shadow THEN inbox \cup Publish("del", id, {})
                                 ELSE inbox

\* SADD with EXPIRE, SREM (an emptied set is no key) and DEL on a bucket
AddToBucket(m, id, ttl) ==
    /\ BucketReady(m)
    /\ bucket' = bucket \cup {<<m, id>>}
    /\ bucketTtl' = {p \in bucketTtl : p[1] # m} \cup {<<m, ttl>>}
RemoveFromBucket(m, id) ==
    /\ BucketReady(m)
    /\ bucket' = bucket \ {<<m, id>>}
    /\ bucketTtl' = {p \in bucketTtl : p[1] = m => \E q \in bucket' : q[1] = m}
DelBucket(m) ==
    /\ bucket' = {p \in bucket : p[1] # m}
    /\ bucketTtl' = {p \in bucketTtl : p[1] # m}

AddToIndex(p, id) ==
    index' = IF p = NoPrincipal THEN index ELSE [index EXCEPT ![p] = @ \cup {id}]
RemoveFromIndex(p, id) ==
    index' = IF p = NoPrincipal THEN index ELSE [index EXCEPT ![p] = @ \ {id}]
=============================================================================
