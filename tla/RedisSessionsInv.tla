-------------------------- MODULE RedisSessionsInv --------------------------
(***************************************************************************)
(* The inductive invariant behind DeletedStaysDead and LiveIsComplete.     *)
(* It holds when the application neither changes intervals nor ids, no     *)
(* thread dies in the middle of a call, and requests are shorter than the  *)
(* five minutes the hash outlives its session (Undisturbed).               *)
(***************************************************************************)
EXTENDS RedisSessions

Undisturbed ==
    /\ SetIntervals = {}
    /\ MayChangeId = FALSE
    /\ MaxCrashes = 0
    /\ MaxRequest < Grace

Whole == {"creation", "max", "last"}

\* Thread t is between the HMSET and the EXPIRE of the hash of its session.
InWindow(t) == pc[t] \in {"unindex", "index", "unbucket", "bucket", "append",
                          "shadowTtl", "hashTtl"}

Deleting(t) == caller[t] = "delete" \/ pc[t] \in DeleteStep

\* Thread t holds a session of which a save writes something but the interval.
InFlight(t) == pc[t] # "idle" /\ ~Deleting(t) /\ "max" \notin session[t].delta

\* Thread t holds a session it has created and not written yet.
Unwritten(t) == pc[t] # "idle" /\ ~Deleting(t) /\ "max" \in session[t].delta

\* The hash of id will not be evicted before thread w's request is over.
Outlives(id, w) == session[w].id = id /\ hashTtl[id] >= start[w] + Grace

\* The hash of thread t's session stays while t needs it: t came when the hash had
\* the five minutes to live, or a thread that did is about to extend it.
Secured(t) ==
    /\ Exists(session[t].id)
    /\ \/ hashTtl[session[t].id] = NoTtl
       \/ \E w \in Threads : (w = t \/ InWindow(w)) /\ Outlives(session[t].id, w)

\* What a thread holds while it works
Holds(t) ==
    /\ session[t].id \in used
    /\ session[t].originalId = session[t].id
    /\ pc[t] \notin {"rename", "failed"}
    /\ start[t] <= now /\ now <= start[t] + MaxRequest
    /\ session[t].last <= now
    /\ caller[t] = "delete" =>
         /\ pc[t] \in SaveStep
         /\ session[t].max = 0
         /\ session[t].delta = IF pc[t] = "hmset" THEN {"max"} ELSE {}
    /\ ~Deleting(t) => session[t].max = DefaultInterval
    /\ "max" \in session[t].delta => pc[t] \in {"edit", "hmset"}
    /\ pc[t] \in DeleteStep => session[t].delta = {}

ThreadInv ==
    \A t \in Threads : IF pc[t] = "idle"
                       THEN session[t].id = NoId /\ caller[t] = "save"
                       ELSE Holds(t)

\* What the hashes are
HashInv ==
    /\ deleted \subseteq used
    /\ \A id \in Ids :
        /\ Exists(id) => id \in used
        /\ ~Exists(id) => hash[id] = NoHash /\ hashTtl[id] = NoTtl
        /\ hash[id].last <= now
        /\ Exists(id) => \/ hash[id].max = 0
                         \/ /\ hash[id].max = DefaultInterval
                            /\ Whole \subseteq hash[id].fields

\* A new session is known to nobody but its creator until it is written.
UnwrittenInv ==
    \A t \in Threads : Unwritten(t) =>
        /\ Whole \subseteq session[t].delta
        /\ ~Exists(session[t].id)
        /\ session[t].id \notin deleted
        /\ \A u \in Threads : u # t => session[u].id # session[t].id

InFlightInv == \A t \in Threads : InFlight(t) => Secured(t)

\* The hash of a live session is kept for the five minutes beyond its end,
\* or a thread that will see to it is about to extend it.
KeptInv ==
    \A id \in Ids : Exists(id) /\ hash[id].max # 0 =>
        \/ hashTtl[id] = NoTtl
        \/ hashTtl[id] >= hash[id].last + DefaultInterval + Grace
        \/ \E w \in Threads : InWindow(w) /\ Outlives(id, w)

\* The zero interval stays once a deletion has written it.
TombstoneInv ==
    /\ \A id \in deleted : Exists(id) => hash[id].max = 0
    /\ \A t \in Threads : caller[t] = "delete" /\ pc[t] # "hmset" =>
          (Exists(session[t].id) => hash[session[t].id].max = 0)

IInv == /\ TypeOK /\ ThreadInv /\ HashInv /\ UnwrittenInv /\ InFlightInv
        /\ KeptInv /\ TombstoneInv

-----------------------------------------------------------------------------
(* The invariant behind DestroyedEventCarriesSession: the messages are     *)
(* handled, and the shadow keys expire, before the five minutes are over.  *)

Noticed == Undisturbed /\ PromptListeners /\ MaxExpiryLag < Grace

\* Thread w is about to extend the hash, or to end the deletion, of its session.
Minds(w) == InWindow(w) \/ (pc[w] = "return" /\ caller[w] = "delete")

\* The hash of id outlives its shadow key: it has the five minutes more to live, or
\* somebody still minds it.
Covered(id) ==
    /\ Exists(id)
    /\ \/ hashTtl[id] = NoTtl
       \/ shadowTtl[id] # NoTtl /\ hashTtl[id] >= shadowTtl[id] + Grace
       \/ \E w \in Threads : Minds(w) /\ Outlives(id, w)

\* Every shadow key is covered, and without a deadline only while a save that has
\* appended to it goes on.
ShadowInv ==
    \A id \in Ids :
        /\ id \in shadow => id \in deleted \/ Covered(id)
        /\ id \in shadow /\ shadowTtl[id] = NoTtl =>
              \E w \in Threads : pc[w] = "shadowTtl" /\ session[w].id = id
        /\ id \notin shadow => shadowTtl[id] = NoTtl
        /\ shadowTtl[id] # NoTtl => shadowTtl[id] <= now + DefaultInterval
        /\ id \in shadow /\ shadowTtl[id] # NoTtl => now <= shadowTtl[id] + MaxExpiryLag

\* A hash that the listener can still read
Readable(id) == id \in deleted \/ (Exists(id) /\ HashReady(id))

NoticeInv ==
    /\ ShadowInv
    /\ \A m \in inbox : m.type # "created" => Readable(m.id)
    /\ \A h \in handling :
          h.message.type # "created" /\ (h.message.id \in deleted \/ h.body # {})
    /\ DestroyedEventCarriesSession
=============================================================================
