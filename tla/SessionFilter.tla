--------------------------- MODULE SessionFilter ----------------------------
(***************************************************************************)
(* SessionRepositoryFilter with the cookies of CookieHttpSessionStrategy,  *)
(* over a MapSessionRepository: concurrent requests of one browser, from   *)
(* the cookie each is sent with to the one its response sets.              *)
(*                                                                         *)
(* "chain" is the time that the application runs in, between two calls to  *)
(* the request; the other steps of a request are inside such a call, or in *)
(* commitSession, which runs when the response is about to be committed    *)
(* and again when the filter chain is done.  Of a session's data its last  *)
(* access time is kept; Interval is the timeout of all of them.            *)
(***************************************************************************)
EXTENDS CookieSessions, Integers

CONSTANTS
    Requests,  \* the requests that may be under way at a time
    Ids,       \* the UUIDs of sessions
    NoId,
    Interval,  \* maxInactiveInterval
    MaxAlias,  \* bound on the aliases
    MaxTime    \* bound on the clock

ASSUME FilterAssumption ==
    /\ NoId \notin Ids
    /\ Interval \in Int
    /\ MaxAlias \in Nat /\ MaxTime \in Nat

VARIABLES
    now,       \* the clock
    sessions,  \* the repository's map: the access time of each saved session, by id
    cookie,    \* the browser's cookie
    pc,        \* what each request does next
    sent,      \* the cookie it came with
    alias,     \* its session alias (parameter _s)
    session,   \* its current session, the repository's copy
    valid,     \* requestedSessionIdValid: "yes", "no" or "unknown" (null)
    invalidated, \* requestedSessionInvalidated
    missing,   \* whether INVALID_SESSION_ID_ATTR is set
    written,   \* SESSION_IDS_WRITTEN_ATTR
    finishing, \* whether the filter chain is done
    committed, \* whether the response is
    header,    \* the cookie it sets, if any: a sequence of at most one value
    received,  \* whether the browser has got that
    \* What has happened, for the properties
    used,      \* ids generated so far
    gone,      \* ids replaced by a save, or deleted as invalidated, while no other
               \* request had them
    timedOut,  \* ids of the sessions deleted as expired
    late,      \* whether the request ended up with another session than it had
               \* when its response was committed
    calm       \* no requests have overlapped, been late or lost their response

store == <<now, sessions>>
request == <<sent, alias, finishing>>
wrapper == <<session, valid, invalidated, missing>>
response == <<written, committed, header, received>>
history == <<used, gone, timedOut, late, calm>>
vars == <<store, cookie, pc, request, wrapper, response, history>>

NoSession == [id |-> NoId, originalId |-> NoId, last |-> 0]
MapSession == [id : Ids \cup {NoId}, originalId : Ids \cup {NoId}, last : Nat]

Step == {"free", "chain", "expire", "expireAsked", "put", "check", "expireChecked",
         "done"}

TypeOK ==
    /\ now \in Nat
    /\ DOMAIN sessions \subseteq Ids
    /\ \A id \in DOMAIN sessions : sessions[id] \in Nat
    /\ pc \in [Requests -> Step]
    /\ session \in [Requests -> MapSession]
    /\ valid \in [Requests -> {"yes", "no", "unknown"}]
    /\ invalidated \in [Requests -> BOOLEAN]
    /\ missing \in [Requests -> BOOLEAN]
    /\ finishing \in [Requests -> BOOLEAN]
    /\ committed \in [Requests -> BOOLEAN]
    /\ alias \in [Requests -> 0..MaxAlias]
    /\ written \in [Requests -> SUBSET Ids]
    /\ received \in [Requests -> BOOLEAN]
    /\ used \subseteq Ids /\ gone \subseteq Ids /\ timedOut \subseteq Ids
    /\ late \in [Requests -> BOOLEAN] /\ calm \in BOOLEAN

Init ==
    /\ now = 0
    /\ sessions = <<>>
    /\ cookie = <<>>
    /\ pc = [t \in Requests |-> "free"]
    /\ sent = [t \in Requests |-> <<>>]
    /\ alias = [t \in Requests |-> DEFAULT_ALIAS]
    /\ session = [t \in Requests |-> NoSession]
    /\ valid = [t \in Requests |-> "unknown"]
    /\ invalidated = [t \in Requests |-> FALSE]
    /\ missing = [t \in Requests |-> FALSE]
    /\ written = [t \in Requests |-> {}]
    /\ finishing = [t \in Requests |-> FALSE]
    /\ committed = [t \in Requests |-> FALSE]
    /\ header = [t \in Requests |-> <<>>]
    /\ received = [t \in Requests |-> FALSE]
    /\ used = {} /\ gone = {} /\ timedOut = {}
    /\ late = [t \in Requests |-> FALSE]
    /\ calm = TRUE

-----------------------------------------------------------------------------
(* MapSessionRepository *)

Saved(id) == id \in DOMAIN sessions
isExpired(last) == Interval >= 0 /\ now - Interval >= last

put(s) ==
    sessions' = [id \in DOMAIN sessions \cup {s.id} |->
                    IF id = s.id THEN s.last ELSE sessions[id]]
remove(i) == sessions' = [id \in DOMAIN sessions \ {i} |-> sessions[id]]

-----------------------------------------------------------------------------
(* The request *)

requestedSessionId(t) ==
    LET ids == getSessionIds(sent[t]) IN
    IF alias[t] \in DOMAIN ids THEN ids[alias[t]] ELSE NoId

Goto(t, step) == pc' = [pc EXCEPT ![t] = step]
SetSession(t, s) == session' = [session EXCEPT ![t] = s]

Has(t, id) == session[t].id = id \/ session[t].originalId = id

\* No session is to be found under this id any more.
Gone(t, id) ==
    gone' = gone \cup IF \E u \in Requests \ {t} : Has(u, id) THEN {} ELSE {id}

\* The application does what the response cannot tell the browser any more.
Late(t, isLate) ==
    /\ late' = [late EXCEPT ![t] = @ \/ isLate]
    /\ calm' = (calm /\ ~isLate)

\* The browser sends a request for one of its sessions, the default or a new one.
Begin(t, a) ==
    LET ids == getSessionIds(cookie) IN
    /\ pc[t] = "free"
    /\ a \in {DEFAULT_ALIAS, getNewSessionAlias(ids)} \cup DOMAIN ids
    /\ Goto(t, "chain")
    /\ sent' = [sent EXCEPT ![t] = cookie]
    /\ alias' = [alias EXCEPT ![t] = a]
    /\ calm' = (calm /\ \A u \in Requests : pc[u] = "free")
    /\ UNCHANGED <<store, cookie, finishing, wrapper, response,
                   used, gone, timedOut, late>>

\* getSession as far as the repository is asked for the requested session: at
\* most once if it has none.  A session found expired is deleted in a next step.
FindSession(t) ==
    LET id == requestedSessionId(t) IN
    /\ pc[t] = "chain"
    /\ session[t] = NoSession /\ id # NoId /\ ~missing[t]
    /\ \/ /\ Saved(id) /\ ~isExpired(sessions[id])
          /\ SetSession(t, [id |-> id, originalId |-> id, last |-> now])
          /\ valid' = [valid EXCEPT ![t] = "yes"]
          /\ Late(t, committed[t] /\ invalidated[t])
          /\ UNCHANGED <<pc, missing>>
       \/ /\ ~Saved(id)
          /\ missing' = [missing EXCEPT ![t] = TRUE]
          /\ UNCHANGED <<pc, session, valid, late, calm>>
       \/ /\ Saved(id) /\ isExpired(sessions[id])
          /\ Goto(t, "expire")
          /\ UNCHANGED <<session, valid, missing, late, calm>>
    /\ UNCHANGED <<store, cookie, request, invalidated, response, used, gone, timedOut>>

\* findById deletes what it found expired, whatever has been put there since.
DeleteExpired(t) ==
    /\ remove(requestedSessionId(t))
    /\ timedOut' = IF calm THEN timedOut \cup ({requestedSessionId(t)} \cap DOMAIN sessions)
                  ELSE timedOut

Expire(t) ==
    /\ pc[t] = "expire"
    /\ DeleteExpired(t)
    /\ missing' = [missing EXCEPT ![t] = TRUE]
    /\ Goto(t, "chain")
    /\ UNCHANGED <<now, cookie, request, session, valid, invalidated, response,
                   used, gone, late, calm>>

\* getSession(true) goes on if there is no requested session.
createSession(t, id) ==
    /\ pc[t] = "chain"
    /\ session[t] = NoSession
    /\ requestedSessionId(t) = NoId \/ missing[t]
    /\ id \notin used /\ used' = used \cup {id}
    /\ SetSession(t, [id |-> id, originalId |-> id, last |-> now])
    /\ Late(t, committed[t])
    /\ UNCHANGED <<store, cookie, pc, request, valid, invalidated, missing, response,
                   gone, timedOut>>

changeSessionId(t, id) ==
    /\ pc[t] = "chain"
    /\ session[t] # NoSession
    /\ id \notin used /\ used' = used \cup {id}
    /\ SetSession(t, [session[t] EXCEPT !.id = id])
    /\ Late(t, committed[t])
    /\ UNCHANGED <<store, cookie, pc, request, valid, invalidated, missing, response,
                   gone, timedOut>>

\* Mutant: the invalidated session stays the current one
KeepSession(t) == UNCHANGED session

DropSession(t) == SetSession(t, NoSession)

\* deleteById gets the id of now: what the repository has of a session that changed
\* its id since it was saved stays there, under the old id.
invalidate(t) ==
    LET s == session[t] IN
    /\ pc[t] = "chain"
    /\ s # NoSession
    /\ invalidated' = [invalidated EXCEPT ![t] = TRUE]
    /\ DropSession(t)
    /\ remove(s.id)
    /\ Gone(t, s.id)
    /\ Late(t, committed[t])
    /\ UNCHANGED <<now, cookie, pc, request, valid, missing, response, used, timedOut>>

-----------------------------------------------------------------------------
(* commitSession *)

\* The headers of a committed response are ignored.
SetCookie(t, ids) ==
    header' = IF committed[t] THEN header
              ELSE [header EXCEPT ![t] = <<createSessionCookieValue(ids)>>]

\* Mutant: the cookie is written as it came
KeepAlias(t) == SetCookie(t, getSessionIds(sent[t]))

onInvalidateSession(t) == SetCookie(t, WithoutId(getSessionIds(sent[t]), alias[t]))

onNewSession(t) ==
    LET id == session[t].id IN
    IF id \in written[t] THEN UNCHANGED <<header, written>>
    ELSE /\ SetCookie(t, WithId(getSessionIds(sent[t]), alias[t], id))
         /\ written' = [written EXCEPT ![t] = @ \cup {id}]

\* The end of commitSession: the response is committed, by its first one at the
\* latest when the filter chain is done.
Committed(t, isFinishing) ==
    /\ committed' = [committed EXCEPT ![t] = TRUE]
    /\ Goto(t, IF isFinishing THEN "done" ELSE "chain")

\* commitSession up to the first thing it does in the repository
commitSession(t, isFinishing) ==
    LET s == session[t] IN
    /\ pc[t] = "chain"
    /\ isFinishing \/ ~committed[t]
    /\ finishing' = [finishing EXCEPT ![t] = isFinishing]
    /\ \/ /\ s = NoSession
          /\ IF invalidated[t] THEN onInvalidateSession(t) ELSE UNCHANGED header
          /\ Committed(t, isFinishing)
          /\ UNCHANGED <<sessions, session, gone>>
       \/ /\ s # NoSession /\ s.id = s.originalId
          /\ put(s)
          /\ Goto(t, "check")
          /\ UNCHANGED <<session, gone, committed, header>>
       \/ /\ s # NoSession /\ s.id # s.originalId
          /\ remove(s.originalId)
          /\ Gone(t, s.originalId)
          /\ SetSession(t, [s EXCEPT !.originalId = s.id])
          /\ Goto(t, "put")
          /\ UNCHANGED <<committed, header>>
    /\ UNCHANGED <<now, cookie, sent, alias, valid, invalidated, missing, written,
                   received, used, timedOut, late, calm>>

Put(t) ==
    /\ pc[t] = "put"
    /\ put(session[t])
    /\ Goto(t, "check")
    /\ UNCHANGED <<now, cookie, request, wrapper, response, history>>

\* Mutant: a browser is told of a new session only, not of a new id
TellOfNew(t, isValid) ==
    /\ IF ~isValid THEN onNewSession(t) ELSE UNCHANGED <<header, written>>
    /\ Committed(t, finishing[t])

\* The rest of commitSession: a browser that does not know the id yet is told.
Tell(t, isValid) ==
    /\ IF ~isValid \/ session[t].id # requestedSessionId(t)
       THEN onNewSession(t) ELSE UNCHANGED <<header, written>>
    /\ Committed(t, finishing[t])

\* isRequestedSessionIdValid asks the repository once.
RequestedExpired(t) ==
    LET id == requestedSessionId(t) IN
    valid[t] = "unknown" /\ id # NoId /\ Saved(id) /\ isExpired(sessions[id])

isRequestedSessionIdValid(t) ==
    LET id == requestedSessionId(t) IN
    IF valid[t] = "unknown" THEN id # NoId /\ Saved(id) ELSE valid[t] = "yes"

SetValid(t, isValid) ==
    valid' = [valid EXCEPT ![t] = IF isValid THEN "yes" ELSE "no"]

\* The application asks for it.
Ask(t) ==
    /\ pc[t] = "chain"
    /\ valid[t] = "unknown"
    /\ IF RequestedExpired(t) THEN Goto(t, "expireAsked") /\ UNCHANGED valid
       ELSE SetValid(t, isRequestedSessionIdValid(t)) /\ UNCHANGED pc
    /\ UNCHANGED <<store, cookie, request, session, invalidated, missing, response,
                   history>>

\* commitSession asks when it has saved the session.
Check(t) ==
    /\ pc[t] = "check"
    /\ IF RequestedExpired(t)
       THEN /\ Goto(t, "expireChecked")
            /\ UNCHANGED <<valid, written, committed, header>>
       ELSE /\ SetValid(t, isRequestedSessionIdValid(t))
            /\ Tell(t, isRequestedSessionIdValid(t))
    /\ UNCHANGED <<store, cookie, request, session, invalidated, missing, received,
                   history>>

\* The requested session had expired.
ExpireAsked(t) ==
    /\ \/ /\ pc[t] = "expireAsked"
          /\ Goto(t, "chain")
          /\ UNCHANGED <<written, committed, header>>
       \/ /\ pc[t] = "expireChecked"
          /\ Tell(t, FALSE)
    /\ DeleteExpired(t)
    /\ SetValid(t, FALSE)
    /\ UNCHANGED <<now, cookie, request, session, invalidated, missing, received,
                   used, gone, late, calm>>

-----------------------------------------------------------------------------
(* The browser *)

\* The head of the response comes as soon as it is committed.
Receive(t) ==
    /\ committed[t] /\ header[t] # <<>> /\ ~received[t]
    /\ cookie' = header[t][1]
    /\ received' = [received EXCEPT ![t] = TRUE]
    /\ UNCHANGED <<store, pc, request, wrapper, written, committed, header, history>>

\* The request is over; a response that has not arrived by now is lost.
End(t) ==
    /\ pc[t] = "done"
    /\ Goto(t, "free")
    /\ sent' = [sent EXCEPT ![t] = <<>>]
    /\ alias' = [alias EXCEPT ![t] = DEFAULT_ALIAS]
    /\ finishing' = [finishing EXCEPT ![t] = FALSE]
    /\ SetSession(t, NoSession)
    /\ valid' = [valid EXCEPT ![t] = "unknown"]
    /\ invalidated' = [invalidated EXCEPT ![t] = FALSE]
    /\ missing' = [missing EXCEPT ![t] = FALSE]
    /\ written' = [written EXCEPT ![t] = {}]
    /\ committed' = [committed EXCEPT ![t] = FALSE]
    /\ header' = [header EXCEPT ![t] = <<>>]
    /\ received' = [received EXCEPT ![t] = FALSE]
    /\ late' = [late EXCEPT ![t] = FALSE]
    /\ calm' = (calm /\ (header[t] = <<>> \/ received[t]))
    /\ UNCHANGED <<store, cookie, used, gone, timedOut>>

Tick ==
    /\ now < MaxTime
    /\ now' = now + 1
    /\ UNCHANGED <<sessions, cookie, pc, request, wrapper, response, history>>

Next ==
    \/ \E t \in Requests :
          \/ \E a \in 0..MaxAlias : Begin(t, a)
          \/ FindSession(t) \/ Expire(t)
          \/ \E id \in Ids : createSession(t, id) \/ changeSessionId(t, id)
          \/ invalidate(t)
          \/ \E isFinishing \in BOOLEAN : commitSession(t, isFinishing)
          \/ Ask(t) \/ Put(t) \/ Check(t) \/ ExpireAsked(t)
          \/ Receive(t) \/ End(t)
    \/ Tick

Spec == Init /\ [][Next]_vars

-----------------------------------------------------------------------------
(* Properties *)

\* An id under which a session was invalidated, or which a save has replaced by a new
\* one, names no session from then on, unless another request had it at that time:
\* no later commitSession of the same request saves it again, and no later request
\* finds it.
GoneStayGone == \A id \in gone : ~Saved(id)

\* The inductive invariant.  Whoever had an id that is gone has lost it.
FilterInv ==
    /\ TypeOK
    /\ DOMAIN sessions \cup gone \subseteq used
    /\ \A t \in Requests :
          /\ session[t] = NoSession \/ {session[t].id, session[t].originalId} \subseteq used
          /\ pc[t] \in {"put", "check", "expireChecked"} => session[t] # NoSession
          /\ \A id \in gone : ~Has(t, id)
    /\ GoneStayGone

\* What the browser has of its sessions after the response, other responses aside
Told(t) == getSessionIds(IF header[t] = <<>> THEN sent[t] ELSE header[t][1])

\* Whatever a request does to its session, once or in turns, before and after its
\* response is committed: if it ends with the session it had at that moment, the
\* browser knows that session by its alias, and if it ends without because it was
\* invalidated, the browser has forgotten the alias.
ClientIsTold ==
    \A t \in Requests : pc[t] = "done" /\ ~late[t] =>
        /\ session[t] # NoSession =>
              alias[t] \in DOMAIN Told(t) /\ Told(t)[alias[t]] = session[t].id
        /\ session[t] = NoSession /\ invalidated[t] => alias[t] \notin DOMAIN Told(t)

\* A response leaves the sessions that the browser has under other aliases alone.
OtherAliasesKept ==
    \A t \in Requests :
        WithoutId(Told(t), alias[t]) = WithoutId(getSessionIds(sent[t]), alias[t])

\* A browser that waits for each response has only sessions in its cookie that the
\* repository has, or had until they expired.
CookieIsGood ==
    calm /\ (\A t \in Requests : pc[t] = "free") =>
        \A a \in DOMAIN getSessionIds(cookie) :
            LET id == getSessionIds(cookie)[a] IN Saved(id) \/ id \in timedOut
=============================================================================
