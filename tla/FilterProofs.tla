---------------------------- MODULE FilterProofs ----------------------------
(***************************************************************************)
(* Proofs that SessionFilter saves no session again under an id that a     *)
(* request has replaced or invalidated, and that the cookies it writes     *)
(* tell the browser what it has.                                           *)
(***************************************************************************)
EXTENDS SessionFilterInv, FiniteSetTheorems, TLAPS

\* The types of what is told apart about a request, but for its session
Flags ==
    /\ valid \in [Requests -> {"yes", "no", "unknown"}]
    /\ invalidated \in [Requests -> BOOLEAN]
    /\ missing \in [Requests -> BOOLEAN]
    /\ finishing \in [Requests -> BOOLEAN]
    /\ committed \in [Requests -> BOOLEAN]
    /\ received \in [Requests -> BOOLEAN]
    /\ written \in [Requests -> SUBSET Ids]
    /\ alias \in [Requests -> 0..MaxAlias]
    /\ late \in [Requests -> BOOLEAN] /\ calm \in BOOLEAN

\* Steps in which a request has a session
Saving == {"put", "check", "expireChecked"}

\* A step of one request keeps the invariant if it takes no session that is gone,
\* saves none, and lets go what nobody else has.
LEMMA RequestKeeps ==
    ASSUME FilterInv, NEW t \in Requests, NEW step \in Step, NEW s \in MapSession,
           pc' = [pc EXCEPT ![t] = step], session' = [session EXCEPT ![t] = s],
           Flags', now' = now,
           timedOut' \subseteq Ids, used \subseteq used', used' \subseteq Ids,
           DOMAIN sessions' \subseteq used,
           \A id \in DOMAIN sessions' : sessions'[id] \in Nat,
           gone \subseteq gone', gone' \subseteq used,
           s = NoSession \/ {s.id, s.originalId} \subseteq used',
           step \in Saving => s # NoSession,
           \A id \in gone' : id # s.id /\ id # s.originalId /\ id \notin DOMAIN sessions',
           \A id \in gone' \ gone : \A u \in Requests \ {t} : ~Has(u, id)
    PROVE  FilterInv'
<1>1. TypeOK'
  BY DEF FilterInv, TypeOK, Flags
<1>2. ASSUME NEW u \in Requests
      PROVE  /\ session'[u] = NoSession
                \/ {session'[u].id, session'[u].originalId} \subseteq used'
             /\ pc'[u] \in Saving => session'[u] # NoSession
             /\ \A id \in gone' : session'[u].id # id /\ session'[u].originalId # id
  <2>1. CASE u = t
    BY <2>1 DEF FilterInv, TypeOK
  <2>2. CASE u # t
    <3>1. session'[u] = session[u] /\ pc'[u] = pc[u]
      BY <2>2 DEF FilterInv, TypeOK
    <3> QED
      BY <2>2, <3>1 DEF FilterInv, Has, Saving
  <2> QED
    BY <2>1, <2>2
<1>3. GoneStayGone'
  BY DEF GoneStayGone, Saved
<1> QED
  BY <1>1, <1>2, <1>3 DEF FilterInv, Has, Saving

\* Nothing is known at first.
LEMMA FilterInvInit ==
    ASSUME Init
    PROVE  FilterInv
  BY FilterAssumption
  DEF Init, FilterInv, TypeOK, Step, NoSession, MapSession, GoneStayGone, Saved,
      DEFAULT_ALIAS

\* The end of a commit
LEMMA TellTypes ==
    ASSUME TypeOK, NEW t \in Requests, NEW isValid \in BOOLEAN,
           session[t].id \in Ids, Tell(t, isValid)
    PROVE  /\ written' \in [Requests -> SUBSET Ids]
           /\ committed' \in [Requests -> BOOLEAN]
           /\ \E step \in {"chain", "done"} : pc' = [pc EXCEPT ![t] = step]
<1>1. written' = written \/ written' = [written EXCEPT ![t] = @ \cup {session[t].id}]
  BY DEF Tell, onNewSession
<1>2. written' \in [Requests -> SUBSET Ids]
  BY <1>1 DEF TypeOK
<1> QED
  BY <1>2 DEF Tell, Committed, Goto, TypeOK

\* A request that only asks the repository, or is told about its session, or goes
\* on with its commit
LEMMA AskKeeps ==
    ASSUME FilterInv, NEW t \in Requests,
           \/ \E a \in 0..MaxAlias : Begin(t, a)
           \/ Ask(t) \/ Check(t) \/ Receive(t)
    PROVE  FilterInv'
<1>0. TypeOK /\ session[t] \in MapSession /\ pc[t] \in Step
  BY DEF FilterInv, TypeOK
<1>1. /\ UNCHANGED <<now, sessions, session, used, gone, timedOut>>
      /\ session' = [session EXCEPT ![t] = session[t]]
  BY <1>0 DEF Begin, Ask, Check, Receive, store, wrapper, history, TypeOK
<1>2. PICK step \in Step : /\ pc' = [pc EXCEPT ![t] = step]
                           /\ step \in Saving => session[t] # NoSession
  <2>1. CASE \E a \in 0..MaxAlias : Begin(t, a)
    BY <2>1 DEF Begin, Goto, Step, Saving
  <2>2. CASE Ask(t)
    BY <1>0, <2>2 DEF Ask, Goto, Step, Saving, TypeOK
  <2>3. CASE Check(t)
    BY <1>0, <2>3 DEF Check, Tell, Committed, Goto, Step, Saving, FilterInv
  <2>4. CASE Receive(t)
    BY <1>0, <2>4 DEF Receive, FilterInv, Saving, TypeOK
  <2> QED
    BY <2>1, <2>2, <2>3, <2>4
<1>3. Flags'
  <2>1. CASE \E a \in 0..MaxAlias : Begin(t, a)
    BY <1>0, <2>1 DEF Begin, Flags, TypeOK, wrapper, response
  <2>2. CASE Ask(t)
    BY <1>0, <2>2 DEF Ask, SetValid, Flags, TypeOK, request, response, history
  <2>3. CASE Check(t)
    <3>1. session[t] # NoSession
      BY <2>3 DEF Check, FilterInv
    <3>2. session[t].id \in Ids
      BY <1>0, <3>1 DEF FilterInv, TypeOK
    <3>3. /\ written' \in [Requests -> SUBSET Ids]
          /\ committed' \in [Requests -> BOOLEAN]
      <4>1. isRequestedSessionIdValid(t) \in BOOLEAN
        BY DEF isRequestedSessionIdValid, Saved
      <4> QED
        BY <1>0, <2>3, <3>2, <4>1, TellTypes DEF Check, TypeOK
    <3>4. valid' \in [Requests -> {"yes", "no", "unknown"}]
      BY <1>0, <2>3 DEF Check, SetValid, TypeOK
    <3> QED
      BY <1>0, <2>3, <3>3, <3>4 DEF Check, Flags, TypeOK, request, history
  <2>4. CASE Receive(t)
    BY <1>0, <2>4 DEF Receive, Flags, TypeOK, request, wrapper, history
  <2> QED
    BY <2>1, <2>2, <2>3, <2>4
<1>4. session[t] = NoSession \/ {session[t].id, session[t].originalId} \subseteq used
  BY DEF FilterInv
<1>5. \A id \in gone : /\ id # session[t].id /\ id # session[t].originalId
                       /\ id \notin DOMAIN sessions
  BY DEF FilterInv, Has, GoneStayGone, Saved
<1> QED
  BY <1>0, <1>1, <1>2, <1>3, <1>4, <1>5, RequestKeeps DEF FilterInv, TypeOK

\* Dropping an expired session
LEMMA ExpireKeeps ==
    ASSUME FilterInv, NEW t \in Requests, Expire(t) \/ ExpireAsked(t)
    PROVE  FilterInv'
<1>0. TypeOK /\ session[t] \in MapSession
  BY DEF FilterInv, TypeOK
<1>1. /\ UNCHANGED <<now, session, used, gone>> /\ DeleteExpired(t)
      /\ session' = [session EXCEPT ![t] = session[t]]
  BY <1>0 DEF Expire, ExpireAsked, TypeOK
<1>2. /\ DOMAIN sessions' \subseteq DOMAIN sessions
      /\ \A id \in DOMAIN sessions' : sessions'[id] \in Nat
      /\ timedOut' \subseteq Ids
  BY <1>0, <1>1 DEF DeleteExpired, remove, TypeOK
<1>3. PICK step \in Step : /\ pc' = [pc EXCEPT ![t] = step]
                           /\ step \notin Saving
  <2>1. CASE Expire(t)
    BY <2>1 DEF Expire, Goto, Step, Saving
  <2>2. CASE ExpireAsked(t)
    BY <2>2 DEF ExpireAsked, Tell, Committed, Goto, Step, Saving
  <2> QED
    BY <2>1, <2>2
<1>4. Flags'
  <2>1. CASE Expire(t)
    BY <1>0, <2>1 DEF Expire, Flags, TypeOK, request, response
  <2>2. CASE ExpireAsked(t)
    <3>1. /\ written' \in [Requests -> SUBSET Ids]
          /\ committed' \in [Requests -> BOOLEAN]
      <4>1. CASE pc[t] = "expireAsked"
        BY <1>0, <2>2, <4>1 DEF ExpireAsked, TypeOK
      <4>2. CASE pc[t] = "expireChecked"
        <5>1. session[t].id \in Ids
          BY <1>0, <4>2 DEF FilterInv, TypeOK
        <5> QED
          BY <1>0, <2>2, <4>2, <5>1, TellTypes DEF ExpireAsked
      <4> QED
        BY <2>2, <4>1, <4>2 DEF ExpireAsked
    <3> QED
      BY <1>0, <2>2, <3>1 DEF ExpireAsked, SetValid, Flags, TypeOK, request
  <2> QED
    BY <2>1, <2>2
<1>5. session[t] = NoSession \/ {session[t].id, session[t].originalId} \subseteq used
  BY DEF FilterInv
<1>6. \A id \in gone : /\ id # session[t].id /\ id # session[t].originalId
                       /\ id \notin DOMAIN sessions
  BY DEF FilterInv, Has, GoneStayGone, Saved
<1> QED
  BY <1>0, <1>1, <1>2, <1>3, <1>4, <1>5, <1>6, RequestKeeps DEF FilterInv, TypeOK

\* Getting a session: a saved one is not gone, and a new id is new.
LEMMA GetKeeps ==
    ASSUME FilterInv, NEW t \in Requests,
           \/ FindSession(t)
           \/ \E id \in Ids : createSession(t, id) \/ changeSessionId(t, id)
    PROVE  FilterInv'
<1>0. TypeOK /\ session[t] \in MapSession /\ pc[t] \in Step /\ session[t].last \in Nat
  BY DEF FilterInv, TypeOK, MapSession
<1>1. UNCHANGED <<now, sessions, gone, timedOut>>
  BY DEF FindSession, createSession, changeSessionId, store
<1>2. Flags'
  BY <1>0 DEF FindSession, createSession, changeSessionId, Late, Flags, TypeOK,
              request, response
<1>3. PICK s \in MapSession, step \in Step :
         /\ session' = [session EXCEPT ![t] = s] /\ pc' = [pc EXCEPT ![t] = step]
         /\ used \subseteq used' /\ used' \subseteq Ids
         /\ s = NoSession \/ {s.id, s.originalId} \subseteq used'
         /\ step \notin Saving
         /\ \A id \in gone : id # s.id /\ id # s.originalId
  <2>1. CASE FindSession(t)
    <3>1. PICK id : id = requestedSessionId(t)
      OBVIOUS
    <3>2. /\ pc[t] = "chain" /\ session[t] = NoSession /\ used' = used
          /\ \/ /\ Saved(id) /\ pc' = pc
                /\ session' = [session EXCEPT ![t] =
                      [id |-> id, originalId |-> id, last |-> now]]
             \/ /\ session' = session
                /\ pc' = pc \/ pc' = [pc EXCEPT ![t] = "expire"]
      BY <2>1, <3>1 DEF FindSession, SetSession, Goto
    <3>3. "chain" \in Step \ Saving /\ "expire" \in Step \ Saving
      BY DEF Step, Saving
    <3>4. CASE session' = session
      <4>1. session' = [session EXCEPT ![t] = session[t]]
        BY <1>0, <3>4 DEF TypeOK
      <4>2. PICK step \in Step \ Saving : pc' = [pc EXCEPT ![t] = step]
        BY <1>0, <3>2, <3>3 DEF TypeOK
      <4> QED
        BY <1>0, <3>2, <4>1, <4>2 DEF FilterInv, Has, TypeOK
    <3>5. CASE session' # session
      <4>1. PICK s : s = [id |-> id, originalId |-> id, last |-> now]
        OBVIOUS
      <4>2. id \in used /\ id \in Ids /\ id \notin gone
        BY <1>0, <3>2, <3>5 DEF FilterInv, GoneStayGone, Saved, TypeOK
      <4>3. s \in MapSession /\ s.id = id /\ s.originalId = id
        BY <1>0, <4>1, <4>2 DEF MapSession, TypeOK
      <4>4. session' = [session EXCEPT ![t] = s] /\ pc' = [pc EXCEPT ![t] = "chain"]
        BY <1>0, <3>2, <3>5, <4>1 DEF TypeOK
      <4>5. used \subseteq used' /\ used' \subseteq Ids /\ {s.id, s.originalId} \subseteq used'
        BY <1>0, <3>2, <4>2, <4>3 DEF TypeOK
      <4>6. \A i \in gone : i # s.id /\ i # s.originalId
        BY <4>2, <4>3
      <4> QED
        BY <3>3, <4>3, <4>4, <4>5, <4>6
    <3> QED
      BY <3>4, <3>5
  <2>2. ASSUME NEW id \in Ids, createSession(t, id) \/ changeSessionId(t, id)
        PROVE  \E s \in MapSession, step \in Step :
         /\ session' = [session EXCEPT ![t] = s] /\ pc' = [pc EXCEPT ![t] = step]
         /\ used \subseteq used' /\ used' \subseteq Ids
         /\ s = NoSession \/ {s.id, s.originalId} \subseteq used'
         /\ step \notin Saving
         /\ \A i \in gone : i # s.id /\ i # s.originalId
    <3>1. /\ pc[t] = "chain" /\ id \notin used /\ used' = used \cup {id}
          /\ pc' = [pc EXCEPT ![t] = "chain"]
      BY <1>0, <2>2 DEF createSession, changeSessionId, TypeOK
    <3>2. id \notin gone /\ "chain" \in Step \ Saving
      BY <3>1 DEF FilterInv, Step, Saving
    <3>3. PICK s \in MapSession :
             /\ session' = [session EXCEPT ![t] = s] /\ s.id = id
             /\ \/ s.originalId = id
                \/ s.originalId = session[t].originalId /\ session[t] # NoSession
      <4>1. CASE createSession(t, id)
        <5>1. PICK s : s = [id |-> id, originalId |-> id, last |-> now]
          OBVIOUS
        <5>2. s \in MapSession /\ s.id = id /\ s.originalId = id
          BY <1>0, <5>1 DEF MapSession, TypeOK
        <5>3. session' = [session EXCEPT ![t] = s]
          BY <4>1, <5>1 DEF createSession, SetSession
        <5> QED
          BY <5>2, <5>3
      <4>2. CASE changeSessionId(t, id)
        <5>1. /\ [session[t] EXCEPT !.id = id] \in MapSession
              /\ [session[t] EXCEPT !.id = id].id = id
              /\ [session[t] EXCEPT !.id = id].originalId = session[t].originalId
          BY <1>0 DEF MapSession
        <5> QED
          BY <4>2, <5>1 DEF changeSessionId, SetSession
      <4> QED
        BY <2>2, <4>1, <4>2
    <3>4. session[t] # NoSession =>
             session[t].originalId \in used /\ session[t].originalId \notin gone
      BY DEF FilterInv, Has
    <3> QED
      BY <1>0, <3>1, <3>2, <3>3, <3>4 DEF TypeOK
  <2> QED
    BY <2>1, <2>2
<1>4. \A id \in gone : id \notin DOMAIN sessions
  BY DEF FilterInv, GoneStayGone, Saved
<1> QED
  BY <1>0, <1>1, <1>2, <1>3, <1>4, RequestKeeps DEF FilterInv, TypeOK

\* Letting a session go
LEMMA InvalidateKeeps ==
    ASSUME FilterInv, NEW t \in Requests, invalidate(t)
    PROVE  FilterInv'
<1>0. TypeOK /\ NoSession \in MapSession /\ NoSession.id = NoId /\ NoSession.originalId = NoId
  BY DEF FilterInv, MapSession, NoSession
<1>1. PICK s \in MapSession : s = session[t]
  BY <1>0 DEF TypeOK
<1>2. PICK i : i = s.id
  OBVIOUS
<1>3. /\ pc[t] = "chain" /\ s # NoSession
      /\ session' = [session EXCEPT ![t] = NoSession]
      /\ sessions' = [id \in DOMAIN sessions \ {i} |-> sessions[id]]
      /\ gone' = gone \cup IF \E u \in Requests \ {t} : Has(u, i) THEN {} ELSE {i}
      /\ UNCHANGED <<now, pc, used, timedOut>>
  BY <1>1, <1>2 DEF invalidate, DropSession, SetSession, remove, Gone
<1>4. i \in used /\ used \subseteq Ids /\ i # NoId
  BY <1>0, <1>1, <1>2, <1>3, FilterAssumption DEF FilterInv, TypeOK
<1>5. Flags'
  BY <1>0 DEF invalidate, Late, Flags, TypeOK, request, response
<1>6. pc' = [pc EXCEPT ![t] = "chain"] /\ "chain" \in Step \ Saving
  BY <1>0, <1>3 DEF TypeOK, Step, Saving
<1>7. /\ DOMAIN sessions' = DOMAIN sessions \ {i}
      /\ \A id \in DOMAIN sessions' : sessions'[id] \in Nat
  BY <1>0, <1>3 DEF TypeOK
<1>8. \A id \in gone' : id \notin DOMAIN sessions' /\ id # NoId /\ id \in used
  BY <1>3, <1>4, <1>7, FilterAssumption DEF FilterInv, GoneStayGone, Saved
<1>9. \A id \in gone' \ gone : \A u \in Requests \ {t} : ~Has(u, id)
  BY <1>3
<1>10. /\ gone \subseteq gone' /\ gone' \subseteq used
       /\ DOMAIN sessions' \subseteq used
  BY <1>3, <1>4, <1>7 DEF FilterInv
<1>11. /\ now' = now /\ used \subseteq used' /\ used' \subseteq Ids
       /\ timedOut' \subseteq Ids
  BY <1>0, <1>3 DEF TypeOK
<1>12. \A id \in gone' : /\ id # NoSession.id /\ id # NoSession.originalId
                         /\ id \notin DOMAIN sessions'
  BY <1>0, <1>8
<1>13. session' = [session EXCEPT ![t] = NoSession]
  BY <1>3
<1>14. \A id \in DOMAIN sessions' : sessions'[id] \in Nat
  BY <1>7
<1> QED
  BY <1>0, <1>5, <1>6, <1>9, <1>10, <1>11, <1>12, <1>13, <1>14, RequestKeeps

\* A commit saves a session that its request has, under the id it has now.
LEMMA CommitKeeps ==
    ASSUME FilterInv, NEW t \in Requests,
           (\E isFinishing \in BOOLEAN : commitSession(t, isFinishing)) \/ Put(t)
    PROVE  FilterInv'
<1>0. TypeOK
  BY DEF FilterInv
<1>1. PICK s \in MapSession : s = session[t]
  BY <1>0 DEF TypeOK
<1>2. UNCHANGED <<now, used, timedOut>>
  BY DEF commitSession, Put, store, history
<1>3. Flags'
  BY <1>0 DEF commitSession, Put, Committed, Flags, TypeOK, request, response, wrapper,
              history
<1>4. /\ s = NoSession \/ {s.id, s.originalId} \subseteq used
      /\ \A id \in gone : /\ id # s.id /\ id # s.originalId
                          /\ id \notin DOMAIN sessions
  BY <1>1 DEF FilterInv, Has, GoneStayGone, Saved
<1>5. ASSUME s = NoSession, UNCHANGED <<sessions, session, gone>>,
             NEW step \in {"chain", "done"}, pc' = [pc EXCEPT ![t] = step]
      PROVE  FilterInv'
  <2>1. session' = [session EXCEPT ![t] = s]
    BY <1>0, <1>1, <1>5 DEF TypeOK
  <2>2. step \in Step \ Saving
    BY DEF Step, Saving
  <2> QED
    BY <1>0, <1>2, <1>3, <1>4, <1>5, <2>1, <2>2, RequestKeeps DEF FilterInv, TypeOK
<1>6. ASSUME s # NoSession, put(s), pc' = [pc EXCEPT ![t] = "check"],
             UNCHANGED <<session, gone>>
      PROVE  FilterInv'
  <2>1. session' = [session EXCEPT ![t] = s] /\ "check" \in Step
    BY <1>0, <1>1, <1>6 DEF TypeOK, Step
  <2>2. /\ DOMAIN sessions' = DOMAIN sessions \cup {s.id}
        /\ \A id \in DOMAIN sessions' : sessions'[id] \in Nat
    BY <1>0, <1>6 DEF put, TypeOK, MapSession
  <2> QED
    BY <1>0, <1>2, <1>3, <1>4, <1>6, <2>1, <2>2, RequestKeeps DEF FilterInv, TypeOK
<1>7. ASSUME s # NoSession, s.id # s.originalId, remove(s.originalId),
             Gone(t, s.originalId), SetSession(t, [s EXCEPT !.originalId = s.id]),
             pc' = [pc EXCEPT ![t] = "put"]
      PROVE  FilterInv'
  <2>0. /\ [s EXCEPT !.originalId = s.id] \in MapSession
        /\ [s EXCEPT !.originalId = s.id].id = s.id
        /\ [s EXCEPT !.originalId = s.id].originalId = s.id
    BY DEF MapSession
  <2>1. PICK r \in MapSession : /\ r = [s EXCEPT !.originalId = s.id]
                                /\ r.id = s.id /\ r.originalId = s.id
    BY <2>0
  <2>2. session' = [session EXCEPT ![t] = r] /\ "put" \in Step
    BY <1>7, <2>1 DEF SetSession, Step
  <2>3. /\ DOMAIN sessions' = DOMAIN sessions \ {s.originalId}
        /\ \A id \in DOMAIN sessions' : sessions'[id] \in Nat
    BY <1>0, <1>7 DEF remove, TypeOK
  <2>4. /\ gone \subseteq gone' /\ gone' \subseteq gone \cup {s.originalId}
        /\ \A id \in gone' \ gone : \A u \in Requests \ {t} : ~Has(u, id)
    BY <1>7 DEF Gone
  <2>5. r # NoSession
    BY <1>4, <1>7, <2>1, FilterAssumption DEF NoSession, FilterInv, TypeOK
  <2>6. /\ {r.id, r.originalId} \subseteq used' /\ used' \subseteq Ids
        /\ DOMAIN sessions' \subseteq used /\ gone' \subseteq used
    BY <1>0, <1>2, <1>4, <1>7, <2>1, <2>3, <2>4 DEF FilterInv, TypeOK
  <2>7. \A id \in gone' : id # r.id /\ id # r.originalId /\ id \notin DOMAIN sessions'
    BY <1>4, <1>7, <2>1, <2>3, <2>4
  <2>8. now' = now /\ used \subseteq used' /\ timedOut' \subseteq Ids
    BY <1>0, <1>2 DEF TypeOK
  <2> QED
    BY <1>3, <1>7, <2>2, <2>3, <2>4, <2>5, <2>6, <2>7, <2>8, RequestKeeps
<1>8. CASE \E isFinishing \in BOOLEAN : commitSession(t, isFinishing)
  BY <1>1, <1>5, <1>6, <1>7, <1>8 DEF commitSession, Committed, Goto
<1>9. CASE Put(t)
  <2>1. s # NoSession
    BY <1>1, <1>9 DEF Put, FilterInv
  <2> QED
    BY <1>1, <1>6, <1>9, <2>1 DEF Put, Goto, wrapper, history
<1> QED
  BY <1>8, <1>9

\* The request is over.
LEMMA EndKeeps ==
    ASSUME FilterInv, NEW t \in Requests, End(t)
    PROVE  FilterInv'
<1>0. /\ TypeOK /\ NoSession \in MapSession
      /\ NoSession.id = NoId /\ NoSession.originalId = NoId /\ "free" \in Step \ Saving
  BY DEF FilterInv, MapSession, NoSession, Step, Saving
<1>1. /\ session' = [session EXCEPT ![t] = NoSession] /\ pc' = [pc EXCEPT ![t] = "free"]
      /\ UNCHANGED <<now, sessions, used, gone, timedOut>>
  BY DEF End, SetSession, Goto, store
<1>2. Flags'
  BY <1>0, FilterAssumption DEF End, Flags, TypeOK, DEFAULT_ALIAS
<1>3. \A id \in gone : id # NoId /\ id \notin DOMAIN sessions
  BY <1>0, FilterAssumption DEF FilterInv, TypeOK, GoneStayGone, Saved
<1> QED
  BY <1>0, <1>1, <1>2, <1>3, RequestKeeps DEF FilterInv, TypeOK

\* Every step keeps the invariant.
LEMMA FilterInvStep ==
    ASSUME FilterInv, [Next]_vars
    PROVE  FilterInv'
<1>1. CASE Tick
  BY <1>1 DEF Tick, FilterInv, TypeOK, request, wrapper, response, history, Has,
              GoneStayGone, Saved
<1>2. CASE UNCHANGED vars
  BY <1>2 DEF vars, store, FilterInv, TypeOK, request, wrapper, response, history, Has,
              GoneStayGone, Saved
<1> QED
  BY <1>1, <1>2, AskKeeps, ExpireKeeps, GetKeeps, InvalidateKeeps, CommitKeeps, EndKeeps
  DEF Next

\* The invariant of the web run holds for every number of requests and sessions: the
\* id of a session that was replaced or invalidated names none again.
THEOREM IdsStayGone == Spec => [](FilterInv /\ GoneStayGone)
<1>1. FilterInv /\ [Next]_vars => FilterInv'
  BY FilterInvStep
<1>2. FilterInv => GoneStayGone
  BY DEF FilterInv
<1> QED
  BY <1>1, <1>2, FilterInvInit, PTL DEF Spec

-----------------------------------------------------------------------------
(* Cookies *)

\* The sequence of a finite set has each element once.
LEMMA SeqOfSet ==
    ASSUME NEW S, IsFiniteSet(S)
    PROVE  /\ Cardinality(S) \in Nat
           /\ SetToSeq(S) \in [1..Cardinality(S) -> S] /\ IsInjective(SetToSeq(S))
           /\ \A a \in S : \E n \in 1..Cardinality(S) : SetToSeq(S)[n] = a
<1> DEFINE N == Cardinality(S)
<1>1. N \in Nat /\ ExistsBijection(1..N, S)
  BY FS_CardinalityType
<1>2. \E f \in [1..N -> S] : IsInjective(f)
  BY <1>1 DEF ExistsBijection, Bijection, Injection
<1>3. SetToSeq(S) \in [1..N -> S] /\ IsInjective(SetToSeq(S))
  BY <1>2 DEF SetToSeq
<1>4. IsFiniteSet(1..N) /\ Cardinality(1..N) = N
  BY <1>1, FS_Interval
<1>5. SetToSeq(S) \in Surjection(1..N, S)
  <2>1. SetToSeq(S) \in Injection(1..N, S)
    BY <1>3 DEF Injection
  <2> QED
    BY <1>4, <2>1, FS_Injection
<1> QED
  BY <1>1, <1>3, <1>5 DEF Surjection

\* Tokens read by twos are the entries they were written for.
LEMMA TokensRoundTrip ==
    ASSUME NEW A, IsFiniteSet(A), NEW ids, ids = [a \in A |-> ids[a]], A # {DEFAULT_ALIAS}
    PROVE  getSessionIds(Tokens(ids)) = ids
<1> DEFINE N == Cardinality(A)
           f == SetToSeq(A)
           v == Tokens(ids)
           Entry == 1..(Len(v) \div 2)
<1>1. /\ DOMAIN ids = A /\ N \in Nat /\ f \in [1..N -> A]
      /\ \A m, n \in 1..N : f[m] = f[n] => m = n
      /\ \A a \in A : \E n \in 1..N : f[n] = a
  BY SeqOfSet DEF IsInjective
<1>2. v = [k \in 1..2 * N |-> IF k % 2 = 1 THEN f[(k + 1) \div 2]
                                           ELSE ids[f[(k + 1) \div 2]]]
  BY <1>1 DEF Tokens
<1> HIDE DEF f, v
<1>3. Len(v) = 2 * N
  BY <1>1, <1>2
<1>4. Len(v) # 1 /\ Entry = 1..N
  BY <1>1, <1>3
<1>5. ASSUME NEW n \in 1..N
      PROVE  v[2 * n - 1] = f[n] /\ v[2 * n] = ids[f[n]]
  <2>1. n \in Nat /\ N \in Nat /\ 1 <= n /\ n <= N
    BY <1>1
  <2>2. 2 * n - 1 \in 1..2 * N /\ 2 * n \in 1..2 * N
    BY <2>1
  <2>3. (2 * n - 1) % 2 = 1 /\ (2 * n - 1 + 1) \div 2 = n
    BY <2>1
  <2>4. (2 * n) % 2 = 0 /\ (2 * n + 1) \div 2 = n
    BY <2>1
  <2> QED
    BY <1>2, <2>2, <2>3, <2>4
<1>6. {v[2 * n - 1] : n \in Entry} = A
  <2>1. \A n \in Entry : v[2 * n - 1] = f[n] /\ f[n] \in A
    BY <1>1, <1>4, <1>5
  <2>2. \A a \in A : \E n \in Entry : v[2 * n - 1] = a
    <3>1. \A a \in A : \E n \in 1..N : f[n] = a
      BY <1>1
    <3> HIDE DEF Entry
    <3> QED
      BY <1>4, <2>1, <3>1
  <2> HIDE DEF Entry
  <2> QED
    BY <2>1, <2>2
<1>7. ASSUME NEW a \in A
      PROVE  v[2 * (CHOOSE n \in Entry :
                      v[2 * n - 1] = a
                      /\ \A later \in Entry : later > n => v[2 * later - 1] # a)] = ids[a]
  <2> DEFINE P(n) == v[2 * n - 1] = a
                     /\ \A later \in Entry : later > n => v[2 * later - 1] # a
  <2>1. PICK m \in 1..N : f[m] = a
    BY <1>1
  <2>2. \A n \in Entry : v[2 * n - 1] = a => n = m
    <3>1. \A n \in 1..N : v[2 * n - 1] = f[n]
      BY <1>5
    <3>2. \A n \in 1..N : f[n] = f[m] => n = m
      BY <1>1, <2>1
    <3> HIDE DEF Entry, N
    <3> QED
      BY <1>4, <2>1, <3>1, <3>2
  <2>3. m \in Entry /\ P(m)
    <3>1. m \in Entry /\ v[2 * m - 1] = a
      BY <1>4, <1>5, <2>1
    <3>2. \A later \in Entry : later > m => v[2 * later - 1] # a
      BY <2>2
    <3> QED
      BY <3>1, <3>2
  <2>4. (CHOOSE n \in Entry : P(n)) = m
    <3>1. (CHOOSE n \in Entry : P(n)) \in Entry /\ P(CHOOSE n \in Entry : P(n))
      BY <2>3
    <3> QED
      BY <2>2, <3>1
  <2> QED
    BY <1>5, <2>1, <2>4
<1>8. getSessionIds(v) = [a \in A |-> ids[a]]
  BY <1>4, <1>6, <1>7 DEF getSessionIds
<1> QED
  BY <1>8 DEF v

\* The browser's cookie says what the filter wrote into it.
LEMMA RoundTrip ==
    ASSUME NEW ids \in IdMap
    PROVE  getSessionIds(createSessionCookieValue(ids)) = ids
<1>1. PICK A \in SUBSET (0..MaxAlias) : ids \in [A -> used]
  BY DEF IdMap
<1>2. IsFiniteSet(A)
  <2>1. 0 \in Int /\ MaxAlias \in Int
    BY FilterAssumption
  <2>2. IsFiniteSet(0..MaxAlias)
    BY <2>1, FS_Interval
  <2> QED
    BY <2>2, FS_Subset
<1>3. CASE A = {DEFAULT_ALIAS}
  <2>1. createSessionCookieValue(ids) = <<ids[DEFAULT_ALIAS]>>
    BY <1>1, <1>3 DEF createSessionCookieValue
  <2>2. getSessionIds(<<ids[DEFAULT_ALIAS]>>) = [a \in {DEFAULT_ALIAS} |-> ids[DEFAULT_ALIAS]]
    BY DEF getSessionIds
  <2> QED
    BY <1>1, <1>3, <2>1, <2>2
<1>4. CASE A # {DEFAULT_ALIAS}
  <2>1. createSessionCookieValue(ids) = Tokens(ids)
    BY <1>1, <1>4 DEF createSessionCookieValue
  <2>2. ids = [a \in A |-> ids[a]]
    BY <1>1
  <2> QED
    BY <1>2, <1>4, <2>1, <2>2, TokensRoundTrip
<1> QED
  BY <1>3, <1>4

\* The maps of a browser's sessions, with one more or one less
LEMMA MapFacts ==
    ASSUME NEW ids \in IdMap, NEW a \in 0..MaxAlias
    PROVE  /\ WithoutId(ids, a) \in IdMap
           /\ DOMAIN WithoutId(ids, a) = DOMAIN ids \ {a}
           /\ \A b \in DOMAIN ids \ {a} : WithoutId(ids, a)[b] = ids[b]
           /\ WithoutId(WithoutId(ids, a), a) = WithoutId(ids, a)
           /\ \A b \in DOMAIN ids : b \in 0..MaxAlias /\ ids[b] \in used
           /\ \A id \in used :
                 /\ WithId(ids, a, id) \in IdMap
                 /\ DOMAIN WithId(ids, a, id) = DOMAIN ids \cup {a}
                 /\ WithId(ids, a, id)[a] = id
                 /\ \A b \in DOMAIN ids \ {a} : WithId(ids, a, id)[b] = ids[b]
                 /\ WithoutId(WithId(ids, a, id), a) = WithoutId(ids, a)
<1>1. PICK A \in SUBSET (0..MaxAlias) : ids \in [A -> used]
  BY DEF IdMap
<1>2. WithoutId(ids, a) \in [A \ {a} -> used]
  BY <1>1 DEF WithoutId
<1>3. \A id \in used : WithId(ids, a, id) \in [A \cup {a} -> used]
  BY <1>1 DEF WithId
<1>4. A \ {a} \in SUBSET (0..MaxAlias) /\ A \cup {a} \in SUBSET (0..MaxAlias)
  OBVIOUS
<1>5. WithoutId(ids, a) \in IdMap /\ \A id \in used : WithId(ids, a, id) \in IdMap
  BY <1>2, <1>3, <1>4 DEF IdMap
<1>6. \A id \in used : /\ DOMAIN WithId(ids, a, id) = DOMAIN ids \cup {a}
                       /\ WithId(ids, a, id)[a] = id
                       /\ \A b \in DOMAIN ids \ {a} : WithId(ids, a, id)[b] = ids[b]
                       /\ WithoutId(WithId(ids, a, id), a) = WithoutId(ids, a)
  BY <1>1 DEF WithId, WithoutId
<1>7. /\ DOMAIN WithoutId(ids, a) = DOMAIN ids \ {a}
      /\ \A b \in DOMAIN ids \ {a} : WithoutId(ids, a)[b] = ids[b]
      /\ WithoutId(WithoutId(ids, a), a) = WithoutId(ids, a)
  BY <1>1 DEF WithoutId
<1> QED
  BY <1>1, <1>5, <1>6, <1>7

\* An alias more or less leaves no session under two aliases.
LEMMA InjectiveMaps ==
    ASSUME NEW ids \in IdMap, NEW a \in 0..MaxAlias, IsInjective(ids)
    PROVE  /\ IsInjective(WithoutId(ids, a))
           /\ \A id \in used : (\A b \in DOMAIN ids \ {a} : ids[b] # id) =>
                 IsInjective(WithId(ids, a, id))
<1>1. \A m, n \in DOMAIN ids : ids[m] = ids[n] => m = n
  BY DEF IsInjective
<1>2. IsInjective(WithoutId(ids, a))
  <2>1. PICK less : less = WithoutId(ids, a)
    OBVIOUS
  <2>2. DOMAIN less = DOMAIN ids \ {a} /\ \A b \in DOMAIN ids \ {a} : less[b] = ids[b]
    BY <2>1 DEF WithoutId
  <2> QED
    BY <1>1, <2>1, <2>2 DEF IsInjective
<1>3. ASSUME NEW id \in used, \A b \in DOMAIN ids \ {a} : ids[b] # id
      PROVE  IsInjective(WithId(ids, a, id))
  <2>1. PICK more : more = WithId(ids, a, id)
    OBVIOUS
  <2>2. /\ DOMAIN more = DOMAIN ids \cup {a} /\ more[a] = id
        /\ \A b \in DOMAIN ids \ {a} : more[b] = ids[b]
    BY <2>1 DEF WithId
  <2> QED
    BY <1>1, <1>3, <2>1, <2>2 DEF IsInjective
<1> QED
  BY <1>2, <1>3

\* A cookie has a map of sessions that have been.
LEMMA CookieMap ==
    ASSUME NEW value, IsCookie(value)
    PROVE  getSessionIds(value) \in IdMap
  BY RoundTrip DEF IsCookie

LEMMA NoCookie == IsCookie(<<>>)
<1> DEFINE none == [a \in {} |-> NoId]
<1>1. none \in IdMap /\ DOMAIN none = {} /\ {} # {DEFAULT_ALIAS}
  <2>1. none \in [{} -> used] /\ {} \in SUBSET (0..MaxAlias)
    OBVIOUS
  <2> QED
    BY <2>1 DEF IdMap
<1>2. Tokens(none) = <<>>
  <2>1. Cardinality(DOMAIN none) = 0
    BY <1>1, FS_EmptySet
  <2>2. 1..2 * Cardinality(DOMAIN none) = {}
    BY <2>1
  <2> QED
    BY <2>2 DEF Tokens
<1> QED
  BY <1>1, <1>2 DEF IsCookie, createSessionCookieValue

\* What the request came with and what its response tells
LEMMA RequestMaps ==
    ASSUME FilterInv, CookieInv, NEW t \in Requests
    PROVE  /\ Sent(t) \in IdMap /\ Told(t) \in IdMap /\ alias[t] \in 0..MaxAlias
           /\ header[t] = <<>> => Told(t) = Sent(t)
           /\ requestedSessionId(t) # NoId =>
                 /\ alias[t] \in DOMAIN Sent(t)
                 /\ Sent(t)[alias[t]] = requestedSessionId(t)
           /\ alias[t] \in DOMAIN Sent(t) =>
                 Sent(t)[alias[t]] = requestedSessionId(t) /\ requestedSessionId(t) # NoId
<1>1. Sent(t) \in IdMap /\ Told(t) \in IdMap /\ alias[t] \in 0..MaxAlias
  BY CookieMap DEF CookieInv, FilterInv, TypeOK, Sent, Told
<1>2. header[t] = <<>> => Told(t) = Sent(t)
  BY DEF Sent, Told
<1>3. alias[t] \in DOMAIN Sent(t) => Sent(t)[alias[t]] \in used /\ used \subseteq Ids
  BY <1>1, MapFacts DEF FilterInv, TypeOK
<1>4. requestedSessionId(t) = IF alias[t] \in DOMAIN Sent(t) THEN Sent(t)[alias[t]] ELSE NoId
  BY DEF requestedSessionId, Sent
<1> QED
  BY <1>1, <1>2, <1>3, <1>4, FilterAssumption

\* What is told about each request
Same(u) ==
    /\ pc'[u] = pc[u] /\ sent'[u] = sent[u] /\ alias'[u] = alias[u]
    /\ session'[u] = session[u] /\ invalidated'[u] = invalidated[u]
    /\ written'[u] = written[u] /\ committed'[u] = committed[u]
    /\ header'[u] = header[u] /\ received'[u] = received[u] /\ late'[u] = late[u]

\* The steps of request t
RequestStep(t) ==
    \/ \E a \in 0..MaxAlias : Begin(t, a)
    \/ FindSession(t) \/ Expire(t)
    \/ \E id \in Ids : createSession(t, id) \/ changeSessionId(t, id)
    \/ invalidate(t)
    \/ \E isFinishing \in BOOLEAN : commitSession(t, isFinishing)
    \/ Ask(t) \/ Put(t) \/ Check(t) \/ ExpireAsked(t)
    \/ Receive(t) \/ End(t)

\* A request's step is about that request only.
LEMMA OthersSame ==
    ASSUME FilterInv, CookieInv, NEW t \in Requests, RequestStep(t),
           NEW u \in Requests, u # t
    PROVE  Same(u)
<1>0. TypeOK /\ DOMAIN sent = Requests /\ DOMAIN header = Requests
  BY DEF FilterInv, CookieInv
<1> USE DEF request, wrapper, response, history, Goto, TypeOK, Same
<1>1. CASE \E a \in 0..MaxAlias : Begin(t, a)
  BY <1>0, <1>1 DEF Begin
<1>2. CASE FindSession(t)
  BY <1>0, <1>2 DEF FindSession, SetSession, Late
<1>3. CASE Expire(t) \/ Ask(t) \/ Put(t) \/ Receive(t)
  BY <1>0, <1>3 DEF Expire, Ask, Put, Receive
<1>4. CASE \E id \in Ids : createSession(t, id) \/ changeSessionId(t, id)
  BY <1>0, <1>4 DEF createSession, changeSessionId, SetSession, Late
<1>5. CASE invalidate(t)
  BY <1>0, <1>5 DEF invalidate, DropSession, SetSession, Late
<1>6. CASE \E isFinishing \in BOOLEAN : commitSession(t, isFinishing)
  BY <1>0, <1>6 DEF commitSession, SetSession, onInvalidateSession, SetCookie, Committed
<1>7. CASE Check(t) \/ ExpireAsked(t)
  <2>1. UNCHANGED <<sent, alias, session, invalidated, received, late>>
    BY <1>7 DEF Check, ExpireAsked
  <2>2. CASE UNCHANGED <<written, committed, header>> /\ pc'[u] = pc[u]
    BY <2>1, <2>2
  <2>3. ASSUME NEW isValid \in BOOLEAN, Tell(t, isValid)
        PROVE  Same(u)
    BY <1>0, <2>1, <2>3 DEF Tell, onNewSession, SetCookie, Committed
  <2>4. isRequestedSessionIdValid(t) \in BOOLEAN
    BY DEF isRequestedSessionIdValid, Saved
  <2> QED
    BY <1>0, <1>7, <2>2, <2>3, <2>4 DEF Check, ExpireAsked
<1>8. CASE End(t)
  BY <1>0, <1>8 DEF End, SetSession
<1> QED
  BY <1>1, <1>2, <1>3, <1>4, <1>5, <1>6, <1>7, <1>8 DEF RequestStep

\* What the end of a commit tells the browser
LEMMA TellEffect ==
    ASSUME FilterInv, CookieInv, NEW t \in Requests, NEW isValid \in BOOLEAN,
           Tell(t, isValid), session[t].id \in used
    PROVE  /\ DOMAIN header' = Requests
           /\ committed[t] => header' = header
           /\ \/ header'[t] = header[t]
              \/ header'[t] = <<createSessionCookieValue(
                                  WithId(Sent(t), alias[t], session[t].id))>>
           /\ \/ committed[t] \/ written[t] # {}
              \/ isValid /\ session[t].id = requestedSessionId(t) /\ header' = header
              \/ header'[t] = <<createSessionCookieValue(
                                  WithId(Sent(t), alias[t], session[t].id))>>
<1>1. DOMAIN header = Requests
  BY DEF CookieInv
<1>2. CASE ~isValid \/ session[t].id # requestedSessionId(t)
  <2>1. onNewSession(t)
    BY <1>2 DEF Tell
  <2>2. CASE session[t].id \in written[t]
    BY <1>1, <2>1, <2>2 DEF onNewSession
  <2>3. CASE session[t].id \notin written[t]
    BY <1>1, <2>1, <2>3 DEF onNewSession, SetCookie, Sent
  <2> QED
    BY <2>2, <2>3
<1>3. CASE ~(~isValid \/ session[t].id # requestedSessionId(t))
  BY <1>1, <1>3 DEF Tell
<1> QED
  BY <1>2, <1>3

\* A session in the middle of a commit has an id that has been used.
LEMMA HeldIsUsed ==
    ASSUME FilterInv, NEW t \in Requests, session[t] # NoSession
    PROVE  session[t].id \in used /\ session[t].originalId \in used
  BY DEF FilterInv

\* What a step may do to the cookies
LEMMA CookieEffect ==
    ASSUME FilterInv, CookieInv, NEW t \in Requests, RequestStep(t)
    PROVE  /\ used \subseteq used'
           /\ cookie' = cookie \/ (header[t] # <<>> /\ cookie' = header[t][1])
           /\ DOMAIN sent' = Requests /\ DOMAIN header' = Requests
           /\ sent'[t] \in {sent[t], cookie, <<>>}
           /\ \/ header'[t] \in {header[t], <<>>}
              \/ \E ids \in IdMap : header'[t] = <<createSessionCookieValue(ids)>>
<1>0. DOMAIN sent = Requests /\ DOMAIN header = Requests
  BY DEF CookieInv
<1>1. CASE \/ \E a \in 0..MaxAlias : Begin(t, a)
           \/ FindSession(t) \/ Expire(t) \/ Ask(t) \/ Put(t) \/ Receive(t) \/ invalidate(t)
  BY <1>0, <1>1 DEF Begin, FindSession, Expire, Ask, Put, Receive, invalidate, request,
                    response, history
<1>2. CASE \E id \in Ids : createSession(t, id) \/ changeSessionId(t, id)
  BY <1>0, <1>2 DEF createSession, changeSessionId, request, response
<1>3. CASE End(t)
  BY <1>0, <1>3 DEF End
<1>4. CASE \E isFinishing \in BOOLEAN : commitSession(t, isFinishing)
  <2>1. UNCHANGED <<used, cookie, sent>>
    BY <1>4 DEF commitSession
  <2>2. header' = header \/ onInvalidateSession(t)
    BY <1>4 DEF commitSession
  <2>3. CASE onInvalidateSession(t)
    <3>1. WithoutId(Sent(t), alias[t]) \in IdMap
      BY RequestMaps, MapFacts
    <3> QED
      BY <1>0, <2>1, <2>3, <3>1 DEF onInvalidateSession, SetCookie, Sent
  <2> QED
    BY <1>0, <2>1, <2>2, <2>3
<1>5. CASE Check(t) \/ ExpireAsked(t)
  <2>1. UNCHANGED <<used, cookie, sent>>
    BY <1>5 DEF Check, ExpireAsked, request, history
  <2>2. CASE header' = header
    BY <1>0, <2>1, <2>2
  <2>3. CASE header' # header
    <3>1. PICK isValid \in BOOLEAN : Tell(t, isValid)
      <4>1. isRequestedSessionIdValid(t) \in BOOLEAN
        BY DEF isRequestedSessionIdValid, Saved
      <4> QED
        BY <1>5, <2>3, <4>1 DEF Check, ExpireAsked
    <3>2. session[t] # NoSession
      BY <1>5, <2>3 DEF Check, ExpireAsked, FilterInv
    <3>3. session[t].id \in used
      BY <3>2, HeldIsUsed
    <3>4. WithId(Sent(t), alias[t], session[t].id) \in IdMap
      BY <3>3, RequestMaps, MapFacts
    <3> QED
      BY <2>1, <1>0, <3>1, <3>3, <3>4, TellEffect
  <2> QED
    BY <2>2, <2>3
<1> QED
  BY <1>1, <1>2, <1>3, <1>4, <1>5 DEF RequestStep

\* Ids do not get unused.
LEMMA CookieGrows ==
    ASSUME used \subseteq used', NEW value, IsCookie(value)
    PROVE  \E ids \in IdMap' : value = createSessionCookieValue(ids)
<1>1. IdMap \subseteq IdMap'
  BY DEF IdMap
<1> QED
  BY <1>1 DEF IsCookie

\* Every cookie there is stays one that the filter has written.
LEMMA CookieStep ==
    ASSUME FilterInv, CookieInv, NEW t \in Requests, RequestStep(t)
    PROVE  CookieInv'
<1> DEFINE Written(value) == \E ids \in IdMap' : value = createSessionCookieValue(ids)
<1>0. \A u \in Requests : u # t => sent'[u] = sent[u] /\ header'[u] = header[u]
  BY OthersSame DEF Same
<1>1. used \subseteq used'
  BY CookieEffect
<1>2. Written(cookie) /\ Written(<<>>) /\ \A u \in Requests : Written(sent[u])
  BY <1>1, NoCookie, CookieGrows DEF CookieInv
<1>3. \A u \in Requests : header[u] # <<>> => /\ header[u] = <<header[u][1]>>
                                             /\ Written(header[u][1])
  BY <1>1, CookieGrows DEF CookieInv
<1>4. \A ids \in IdMap : Written(createSessionCookieValue(ids))
  BY <1>1, CookieGrows DEF IsCookie
<1>5. Written(cookie')
  BY <1>2, <1>3, CookieEffect
<1>6. \A u \in Requests : Written(sent'[u])
  BY <1>0, <1>2, CookieEffect
<1>7. \A u \in Requests : header'[u] # <<>> => /\ header'[u] = <<header'[u][1]>>
                                              /\ Written(header'[u][1])
  <2>1. CASE header'[t] \in {header[t], <<>>}
    BY <1>0, <1>3, <2>1
  <2>2. ASSUME NEW ids \in IdMap, header'[t] = <<createSessionCookieValue(ids)>>
        PROVE  header'[t] = <<header'[t][1]>> /\ Written(header'[t][1])
    BY <1>4, <2>2
  <2> QED
    BY <1>0, <1>3, <2>1, <2>2, CookieEffect
<1> QED
  BY <1>5, <1>6, <1>7, CookieEffect DEF CookieInv, IsCookie

\* A request that told nothing tells its browser a map of sessions.
LEMMA ToldMap ==
    ASSUME NEW t \in Requests, NEW ids \in IdMap,
           header'[t] = <<createSessionCookieValue(ids)>>
    PROVE  Told(t)' = ids
<1>1. header'[t] # <<>> /\ header'[t][1] = createSessionCookieValue(ids)
  OBVIOUS
<1>2. Told(t)' = getSessionIds(createSessionCookieValue(ids))
  BY <1>1 DEF Told
<1> QED
  BY <1>2, RoundTrip

-----------------------------------------------------------------------------
(* What the browser is told *)

\* A response whose header and request stay tells what it told.
LEMMA ToldStays ==
    ASSUME NEW t \in Requests, sent'[t] = sent[t], header'[t] = header[t]
    PROVE  Told(t)' = Told(t) /\ Sent(t)' = Sent(t)
  BY DEF Told, Sent

\* Before the response is committed, the request may get, change and let go sessions;
\* afterwards such a request is late.
LEMMA ToldSession ==
    ASSUME FilterInv, CookieInv, ToldInv, NEW t \in Requests,
           (\E id \in Ids : createSession(t, id) \/ changeSessionId(t, id)) \/ invalidate(t)
    PROVE  ToldOf(t)'
<1>1. /\ UNCHANGED <<sent, alias, header, committed, written, received>>
      /\ pc[t] = "chain" /\ pc' = pc
      /\ late'[t] = (late[t] \/ committed[t])
  BY DEF createSession, changeSessionId, invalidate, Late, request, response, FilterInv,
         TypeOK
<1>2. ToldOf(t)
  BY DEF ToldInv
<1>3. Told(t)' = Told(t) /\ Sent(t)' = Sent(t)
  BY <1>1, ToldStays
<1> QED
  BY <1>1, <1>2, <1>3 DEF ToldOf

\* The requested session is the one that the browser knows, unless a response that is
\* committed has told it to forget it.
LEMMA ToldFind ==
    ASSUME FilterInv, CookieInv, ToldInv, NEW t \in Requests, FindSession(t)
    PROVE  ToldOf(t)'
<1> DEFINE id == requestedSessionId(t)
<1>1. /\ UNCHANGED <<sent, alias, header, committed, written, received, invalidated>>
      /\ pc'[t] \in {"chain", "expire"}
      /\ session[t] = NoSession /\ id # NoId
  BY DEF FindSession, Goto, request, response, FilterInv, TypeOK
<1>2. ToldOf(t)
  BY DEF ToldInv
<1>3. Told(t)' = Told(t) /\ Sent(t)' = Sent(t)
  BY <1>1, ToldStays
<1>4. CASE session' = session /\ late' = late
  BY <1>1, <1>2, <1>3, <1>4 DEF ToldOf
<1>5. CASE ~(session' = session /\ late' = late)
  <2>1. /\ late'[t] = (late[t] \/ (committed[t] /\ invalidated[t]))
        /\ session' = [session EXCEPT ![t] = [id |-> id, originalId |-> id, last |-> now]]
    BY <1>5 DEF FindSession, Late, SetSession, FilterInv, TypeOK
  <2>2. session'[t].id = id
    BY <2>1 DEF FilterInv, TypeOK
  <2>3. header[t] = <<>> => alias[t] \in DOMAIN Told(t) /\ Told(t)[alias[t]] = id
    BY <1>1, RequestMaps
  <2>4. session'[t] # NoSession
    BY <1>1, <2>2 DEF NoSession
  <2>5. committed[t] /\ ~late'[t] => header[t] = <<>>
    BY <1>1, <1>2, <2>1 DEF ToldOf
  <2>6. ~committed[t] => ~late'[t]
    BY <1>2, <2>1 DEF ToldOf
  <2> QED
    BY <1>1, <1>2, <1>3, <2>2, <2>3, <2>4, <2>5, <2>6 DEF ToldOf
<1> QED
  BY <1>4, <1>5

\* The end of a commit tells the browser of the session, by its alias.
LEMMA ToldTell ==
    ASSUME FilterInv, CookieInv, ToldInv, NEW t \in Requests, NEW isValid \in BOOLEAN,
           Tell(t, isValid), session[t] # NoSession,
           UNCHANGED <<sent, alias, session, invalidated, received, late>>
    PROVE  ToldOf(t)'
<1> DEFINE new == WithId(Sent(t), alias[t], session[t].id)
<1>1. committed'[t] /\ pc'[t] \in {"chain", "done"} /\ session[t].id \in used
  BY HeldIsUsed DEF Tell, Committed, Goto, FilterInv, TypeOK
<1>2. ToldOf(t) /\ Sent(t)' = Sent(t)
  BY DEF ToldInv, Sent
<1>3. new \in IdMap
  BY <1>1, RequestMaps, MapFacts
<1>4. CASE committed[t]
  <2>1. header' = header
    BY <1>1, <1>4, TellEffect
  <2>2. Told(t)' = Told(t)
    BY <2>1, ToldStays
  <2> QED
    BY <1>1, <1>2, <1>4, <2>1, <2>2 DEF ToldOf
<1>5. CASE ~committed[t]
  <2>1. header[t] = <<>> /\ written[t] = {} /\ ~late[t]
    BY <1>2, <1>5 DEF ToldOf
  <2>2. CASE session[t].id = requestedSessionId(t) /\ header' = header
    <3>1. requestedSessionId(t) # NoId
      BY <1>1, <2>2, FilterAssumption DEF FilterInv, TypeOK
    <3>2. Told(t)' = Sent(t) /\ alias[t] \in DOMAIN Sent(t)
          /\ Sent(t)[alias[t]] = session[t].id
      BY <2>1, <2>2, <3>1, RequestMaps, ToldStays
    <3> QED
      BY <1>1, <1>2, <2>1, <2>2, <3>2 DEF ToldOf
  <2>3. CASE header'[t] = <<createSessionCookieValue(new)>>
    <3>1. Told(t)' = new
      BY <1>3, <2>3, ToldMap
    <3>2. /\ alias[t] \in DOMAIN new /\ new[alias[t]] = session[t].id
          /\ WithoutId(new, alias[t]) = WithoutId(Sent(t), alias[t])
      BY DEF WithId, WithoutId
    <3>3. header'[t] # <<>>
      BY <2>3
    <3> QED
      BY <1>1, <1>2, <2>1, <3>1, <3>2, <3>3 DEF ToldOf
  <2> QED
    BY <1>1, <1>5, <2>1, <2>2, <2>3, TellEffect
<1> QED
  BY <1>4, <1>5

\* Asking and saving tell nothing before the end of the commit.
LEMMA ToldSame ==
    ASSUME FilterInv, ToldInv, NEW t \in Requests,
           UNCHANGED <<sent, alias, invalidated, written, committed, header, received,
                       late>>,
           session'[t].id = session[t].id,
           session'[t] = NoSession <=> session[t] = NoSession,
           pc'[t] \notin {"free", "done"}
    PROVE  ToldOf(t)'
<1>1. ToldOf(t) /\ Told(t)' = Told(t) /\ Sent(t)' = Sent(t)
  BY ToldStays DEF ToldInv
<1> QED
  BY <1>1 DEF ToldOf

LEMMA ToldAsk ==
    ASSUME FilterInv, CookieInv, ToldInv, NEW t \in Requests,
           Expire(t) \/ Ask(t) \/ Put(t) \/ Check(t) \/ ExpireAsked(t)
    PROVE  ToldOf(t)'
<1>1. UNCHANGED <<sent, alias, session, invalidated, received, late>>
  BY DEF Expire, Ask, Put, Check, ExpireAsked, request, response, wrapper, history
<1>2. ASSUME NEW isValid \in BOOLEAN, Tell(t, isValid),
             pc[t] \in {"check", "expireChecked"}
      PROVE  ToldOf(t)'
  <2>1. session[t] # NoSession
    BY <1>2 DEF FilterInv
  <2> QED
    BY <1>1, <1>2, <2>1, ToldTell
<1>3. CASE UNCHANGED <<written, committed, header>> /\ pc'[t] \notin {"free", "done"}
  BY <1>1, <1>3, ToldSame
<1>4. isRequestedSessionIdValid(t) \in BOOLEAN
  BY DEF isRequestedSessionIdValid, Saved
<1>5. CASE Expire(t) \/ Ask(t) \/ Put(t)
  BY <1>3, <1>5 DEF Expire, Ask, Put, Goto, response, FilterInv, TypeOK
<1>6. CASE Check(t)
  BY <1>2, <1>3, <1>4, <1>6 DEF Check, Goto, FilterInv, TypeOK
<1>7. CASE ExpireAsked(t)
  BY <1>2, <1>3, <1>7 DEF ExpireAsked, Goto, FilterInv, TypeOK
<1> QED
  BY <1>5, <1>6, <1>7

\* The start of a commit tells the browser to forget a session that was invalidated.
LEMMA ToldCommit ==
    ASSUME FilterInv, CookieInv, ToldInv, NEW t \in Requests, NEW isFinishing \in BOOLEAN,
           commitSession(t, isFinishing)
    PROVE  ToldOf(t)'
<1> DEFINE less == WithoutId(Sent(t), alias[t])
<1>0. DOMAIN header = Requests
  BY DEF CookieInv
<1>1. UNCHANGED <<sent, alias, invalidated, written, received, late>>
  BY DEF commitSession
<1>2. ToldOf(t) /\ Sent(t)' = Sent(t)
  BY <1>1 DEF ToldInv, Sent
<1>3. CASE session[t] = NoSession
  <2>1. /\ session' = session /\ committed'[t] /\ pc'[t] \in {"chain", "done"}
        /\ IF invalidated[t] THEN onInvalidateSession(t) ELSE header' = header
    BY <1>3 DEF commitSession, Committed, Goto, FilterInv, TypeOK
  <2>2. CASE header' = header
    <3>1. Told(t)' = Told(t)
      BY <1>1, <2>2, ToldStays
    <3>2. committed[t] \/ ~invalidated[t]
      BY <1>0, <1>2, <2>1, <2>2 DEF onInvalidateSession, SetCookie, ToldOf
    <3>3. ~committed[t] => header[t] = <<>> /\ ~late[t]
      BY <1>2 DEF ToldOf
    <3> QED
      BY <1>1, <1>2, <1>3, <2>1, <2>2, <3>1, <3>2, <3>3 DEF ToldOf
  <2>3. CASE header' # header
    <3>1. /\ ~committed[t] /\ invalidated[t]
          /\ header'[t] = <<createSessionCookieValue(less)>>
      BY <1>0, <2>1, <2>3 DEF onInvalidateSession, SetCookie, Sent
    <3>2. /\ less \in IdMap /\ alias[t] \notin DOMAIN less
          /\ WithoutId(less, alias[t]) = less
      <4>1. less \in IdMap
        BY RequestMaps, MapFacts
      <4> QED
        BY <4>1 DEF WithoutId
    <3>3. Told(t)' = less
      BY <3>1, <3>2, ToldMap
    <3>4. header'[t] # <<>> /\ ~late[t]
      BY <1>2, <3>1 DEF ToldOf
    <3> QED
      BY <1>1, <1>2, <1>3, <2>1, <3>1, <3>2, <3>3, <3>4 DEF ToldOf
  <2> QED
    BY <2>2, <2>3
<1>4. CASE session[t] # NoSession
  <2>1. /\ UNCHANGED <<committed, header>> /\ pc'[t] \notin {"free", "done"}
        /\ \/ session' = session
           \/ session' = [session EXCEPT ![t] = [@ EXCEPT !.originalId = session[t].id]]
    BY <1>4 DEF commitSession, Goto, SetSession, FilterInv, TypeOK
  <2>2. session[t] \in MapSession /\ session[t].id # NoId
    BY <1>4, HeldIsUsed, FilterAssumption DEF FilterInv, TypeOK
  <2>3. session'[t].id = session[t].id
    <3>1. [session[t] EXCEPT !.originalId = session[t].id].id = session[t].id
      BY <2>2 DEF MapSession
    <3> QED
      BY <2>1, <2>2, <3>1 DEF FilterInv, TypeOK
  <2>4. session'[t] # NoSession
    BY <2>2, <2>3 DEF NoSession
  <2> QED
    BY <1>1, <1>4, <2>1, <2>3, <2>4, ToldSame
<1> QED
  BY <1>3, <1>4

\* The browser gets what it is told.
LEMMA ToldReceive ==
    ASSUME FilterInv, CookieInv, ToldInv, NEW t \in Requests,
           Receive(t) \/ End(t) \/ \E a \in 0..MaxAlias : Begin(t, a)
    PROVE  ToldOf(t)'
<1>0. ToldOf(t) /\ DOMAIN header = Requests
  BY DEF ToldInv, CookieInv
<1>1. CASE Receive(t)
  <2>1. UNCHANGED <<pc, sent, alias, session, invalidated, written, committed, header, late>>
    BY <1>1 DEF Receive, request, wrapper, history
  <2>2. Told(t)' = Told(t) /\ Sent(t)' = Sent(t) /\ header[t] # <<>>
    BY <1>1, <2>1, ToldStays DEF Receive
  <2> QED
    BY <1>0, <2>1, <2>2 DEF ToldOf
<1>2. CASE End(t)
  <2>1. /\ pc'[t] = "free" /\ ~committed'[t] /\ ~invalidated'[t] /\ session'[t] = NoSession
        /\ header'[t] = <<>> /\ written'[t] = {} /\ ~late'[t] /\ ~received'[t]
    BY <1>0, <1>2 DEF End, Goto, SetSession, FilterInv, TypeOK
  <2>2. Told(t)' = Sent(t)'
    BY <2>1 DEF Told, Sent
  <2> QED
    BY <2>1, <2>2 DEF ToldOf
<1>3. CASE \E a \in 0..MaxAlias : Begin(t, a)
  <2>1. /\ UNCHANGED <<session, invalidated, written, committed, header, received, late>>
        /\ pc'[t] = "chain" /\ pc[t] = "free"
    BY <1>3 DEF Begin, Goto, wrapper, response, FilterInv, TypeOK
  <2>2. ~committed[t] /\ header[t] = <<>>
    BY <1>0, <2>1 DEF ToldOf
  <2>3. Told(t)' = Sent(t)'
    BY <2>1, <2>2 DEF Told, Sent
  <2> QED
    BY <1>0, <2>1, <2>2, <2>3 DEF ToldOf
<1> QED
  BY <1>1, <1>2, <1>3

LEMMA ToldStep ==
    ASSUME FilterInv, CookieInv, ToldInv, NEW t \in Requests, RequestStep(t)
    PROVE  ToldInv'
<1>1. ToldOf(t)'
  BY ToldSession, ToldFind, ToldAsk, ToldCommit, ToldReceive DEF RequestStep
<1>2. ASSUME NEW u \in Requests, u # t
      PROVE  ToldOf(u)'
  <2>1. Same(u)
    BY <1>2, OthersSame
  <2>2. ToldOf(u) /\ Told(u)' = Told(u) /\ Sent(u)' = Sent(u)
    BY <2>1, ToldStays DEF ToldInv, Same
  <2> QED
    BY <2>1, <2>2 DEF ToldOf, Same
<1> QED
  BY <1>1, <1>2 DEF ToldInv

-----------------------------------------------------------------------------
(* What the browser has *)

\* Whether an id is good after a step
GoodNext(id) == id \in DOMAIN sessions' \/ id \in timedOut'

\* What makes the invariant of request t hold after a step of it
LEMMA CalmKeep ==
    ASSUME FilterInv, CookieInv, ToldInv, NEW t \in Requests, CalmOf(t),
           UNCHANGED <<sent, alias>>, ~late'[t],
           cookie' = IF received'[t] THEN header'[t][1] ELSE sent'[t],
           IsInjective(Told(t)'),
           \A a \in DOMAIN Sent(t) \ {alias[t]} :
              session'[t].id # Sent(t)[a] /\ session'[t].originalId # Sent(t)[a],
           \A id \in Ids : Good(id) /\ ~Has(t, id) => GoodNext(id),
           session'[t] = NoSession /\ ~invalidated'[t] /\ alias[t] \in DOMAIN Sent(t) =>
              GoodNext(Sent(t)[alias[t]]),
           session'[t] # NoSession
              /\ (committed'[t] \/ pc'[t] \in {"check", "expireChecked"}) =>
              GoodNext(session'[t].id),
           session'[t] # NoSession
              /\ (committed'[t] \/ pc'[t] \notin {"chain", "expire", "expireAsked"}) =>
              session'[t].originalId = session'[t].id
    PROVE  CalmOf(t)'
<1>1. Sent(t)' = Sent(t)
  BY DEF Sent
<1>2. \A a \in DOMAIN Sent(t) : Sent(t)[a] \in Ids
  BY RequestMaps, MapFacts DEF FilterInv, TypeOK
<1>3. ASSUME NEW a \in DOMAIN Sent(t) \ {alias[t]}
      PROVE  GoodNext(Sent(t)[a])
  <2>1. PICK id \in Ids : id = Sent(t)[a]
    BY <1>2
  <2>2. Good(id) /\ ~Has(t, id)
    BY <2>1 DEF CalmOf
  <2>3. GoodNext(id)
    BY <2>2
  <2> QED
    BY <1>1, <2>1, <2>3
<1> QED
  BY <1>1, <1>3 DEF CalmOf, Good, GoodNext, Has, Saved

\* A browser that waits for each response has at most one request under way.
LEMMA CalmAlone ==
    ASSUME FilterInv, CookieInv, CalmInv, calm, NEW t \in Requests, pc[t] # "free",
           RequestStep(t),
           pc'[t] # "free" => CalmOf(t)',
           pc'[t] = "free" =>
              /\ IsInjective(getSessionIds(cookie'))
              /\ \A a \in DOMAIN getSessionIds(cookie') : GoodNext(getSessionIds(cookie')[a])
    PROVE  CalmInv'
<1>1. \A u \in Requests : u # t => pc'[u] = "free"
  BY OthersSame DEF CalmInv, Same
<1> QED
  BY <1>1 DEF CalmInv, Good, GoodNext, Saved

\* The id of a session that request t has
LEMMA SentFacts ==
    ASSUME FilterInv, CookieInv, NEW t \in Requests, CalmOf(t)
    PROVE  /\ \A a \in DOMAIN Sent(t) : Sent(t)[a] \in used /\ Sent(t)[a] \in Ids
                                        /\ Sent(t)[a] # NoId
           /\ requestedSessionId(t) # NoId =>
                \A a \in DOMAIN Sent(t) \ {alias[t]} : Sent(t)[a] # requestedSessionId(t)
<1>1. \A a \in DOMAIN Sent(t) : Sent(t)[a] \in used /\ Sent(t)[a] \in Ids
  BY RequestMaps, MapFacts DEF FilterInv, TypeOK
<1> QED
  BY <1>1, RequestMaps, FilterAssumption DEF CalmOf, IsInjective

LEMMA CalmFind ==
    ASSUME FilterInv, CookieInv, ToldInv, NEW t \in Requests, CalmOf(t), calm',
           FindSession(t)
    PROVE  CalmOf(t)'
<1> DEFINE id == requestedSessionId(t)
<1>1. /\ UNCHANGED <<cookie, sent, alias, header, committed, received, invalidated,
                     sessions, timedOut>>
      /\ pc'[t] \in {"chain", "expire"}
      /\ session[t] = NoSession /\ id # NoId
  BY DEF FindSession, Goto, store, request, response, FilterInv, TypeOK
<1>2. Told(t)' = Told(t) /\ Sent(t)' = Sent(t)
  BY <1>1, ToldStays
<1>3. \A i : Good(i) <=> GoodNext(i)
  BY <1>1 DEF Good, GoodNext, Saved
<1>4. CASE session' = session /\ late' = late
  BY <1>1, <1>2, <1>3, <1>4, CalmKeep DEF CalmOf, Has
<1>5. CASE ~(session' = session /\ late' = late)
  <2>1. /\ late'[t] = (late[t] \/ (committed[t] /\ invalidated[t]))
        /\ calm' = (calm /\ ~(committed[t] /\ invalidated[t])) /\ Saved(id)
        /\ session' = [session EXCEPT ![t] = [id |-> id, originalId |-> id, last |-> now]]
    BY <1>5 DEF FindSession, Late, SetSession, FilterInv, TypeOK
  <2>2. session'[t].id = id /\ session'[t].originalId = id
    BY <2>1 DEF FilterInv, TypeOK
  <2>3. ~late'[t] /\ GoodNext(id) /\ session'[t] # NoSession
    <3>1. ~late'[t]
      BY <2>1 DEF CalmOf
    <3>2. GoodNext(id)
      BY <1>1, <2>1 DEF Saved, GoodNext
    <3>3. session'[t] # NoSession
      BY <1>1, <2>2 DEF NoSession
    <3> QED
      BY <3>1, <3>2, <3>3
  <2>4. \A a \in DOMAIN Sent(t) \ {alias[t]} :
           session'[t].id # Sent(t)[a] /\ session'[t].originalId # Sent(t)[a]
    BY <1>1, <2>2, SentFacts
  <2> QED
    BY <1>1, <1>2, <1>3, <2>2, <2>3, <2>4, CalmKeep DEF CalmOf
<1> QED
  BY <1>4, <1>5

\* A new id is none of the other sessions' in the cookie, and an invalidated one is
\* not either.
LEMMA CalmSession ==
    ASSUME FilterInv, CookieInv, ToldInv, NEW t \in Requests, CalmOf(t), calm',
           (\E id \in Ids : createSession(t, id) \/ changeSessionId(t, id)) \/ invalidate(t)
    PROVE  CalmOf(t)'
<1>1. /\ UNCHANGED <<cookie, sent, alias, header, committed, received, timedOut>>
      /\ pc[t] = "chain" /\ pc' = pc
      /\ ~committed[t] /\ late'[t] = (late[t] \/ committed[t])
  BY DEF createSession, changeSessionId, invalidate, Late, request, response, FilterInv,
         TypeOK
<1>2. Told(t)' = Told(t) /\ Sent(t)' = Sent(t)
  BY <1>1, ToldStays
<1>3. session[t] \in MapSession
  BY DEF FilterInv, TypeOK
<1>4. ASSUME NEW id \in Ids, createSession(t, id) \/ changeSessionId(t, id)
      PROVE  CalmOf(t)'
  <2>1. sessions' = sessions /\ id \notin used /\ session'[t].id = id
        /\ session'[t].originalId \in {id, session[t].originalId}
    <3>1. CASE createSession(t, id)
      BY <3>1 DEF createSession, SetSession, store, FilterInv, TypeOK
    <3>2. CASE changeSessionId(t, id)
      <4>1. /\ [session[t] EXCEPT !.id = id].id = id
            /\ [session[t] EXCEPT !.id = id].originalId = session[t].originalId
        BY <1>3 DEF MapSession
      <4> QED
        BY <3>2, <4>1 DEF changeSessionId, SetSession, store, FilterInv, TypeOK
    <3> QED
      BY <1>4, <3>1, <3>2
  <2>2. session'[t] # NoSession
    BY <2>1, FilterAssumption DEF NoSession
  <2>3. \A a \in DOMAIN Sent(t) \ {alias[t]} :
           session'[t].id # Sent(t)[a] /\ session'[t].originalId # Sent(t)[a]
    BY <2>1, SentFacts DEF Has, CalmOf
  <2>4. \A i : Good(i) <=> GoodNext(i)
    BY <1>1, <2>1 DEF Good, GoodNext, Saved
  <2> QED
    BY <1>1, <1>2, <2>2, <2>3, <2>4, CalmKeep DEF CalmOf
<1>5. CASE invalidate(t)
  <2>1. PICK i : i = session[t].id
    OBVIOUS
  <2>2. /\ session'[t] = NoSession /\ invalidated'[t]
        /\ DOMAIN sessions' = DOMAIN sessions \ {i}
    BY <1>5, <2>1 DEF invalidate, DropSession, SetSession, remove, FilterInv, TypeOK
  <2>3. \A id \in Ids : Good(id) /\ ~Has(t, id) => GoodNext(id)
    BY <1>1, <2>1, <2>2 DEF Good, GoodNext, Saved, Has
  <2>4. \A a \in DOMAIN Sent(t) \ {alias[t]} :
           session'[t].id # Sent(t)[a] /\ session'[t].originalId # Sent(t)[a]
    BY <2>2, SentFacts DEF NoSession
  <2> QED
    BY <1>1, <1>2, <2>2, <2>3, <2>4, CalmKeep DEF CalmOf
<1> QED
  BY <1>4, <1>5

\* A session deleted as expired was good, and stays so.
LEMMA ExpiredStaysGood ==
    ASSUME NEW t \in Requests, DeleteExpired(t), calm, NEW id, Good(id)
    PROVE  GoodNext(id)
  BY DEF DeleteExpired, remove, Good, GoodNext, Saved

\* Requests that ask the repository and get nothing
LEMMA CalmExpire ==
    ASSUME FilterInv, CookieInv, ToldInv, NEW t \in Requests, CalmOf(t), calm,
           \/ Expire(t) \/ (ExpireAsked(t) /\ pc[t] = "expireAsked")
           \/ Ask(t) \/ (Check(t) /\ RequestedExpired(t))
    PROVE  CalmOf(t)'
<1>1. /\ UNCHANGED <<cookie, sent, alias, session, header, committed, received,
                     invalidated, late>>
  BY DEF Expire, ExpireAsked, Ask, Check, request, response, wrapper, history
<1>2. Told(t)' = Told(t) /\ Sent(t)' = Sent(t)
  BY <1>1, ToldStays
<1>3. \A id \in Ids : Good(id) => GoodNext(id)
  <2>1. CASE DeleteExpired(t)
    BY <2>1, ExpiredStaysGood
  <2>2. CASE UNCHANGED <<sessions, timedOut>>
    BY <2>2 DEF Good, GoodNext, Saved
  <2> QED
    BY <2>1, <2>2 DEF Expire, ExpireAsked, Ask, Check, store, history
<1>4. \/ pc'[t] \in {"chain", "expireAsked"} /\ pc[t] \in {"chain", "expire", "expireAsked"}
      \/ pc'[t] = "expireChecked" /\ pc[t] = "check"
  BY DEF Expire, ExpireAsked, Ask, Check, Goto, FilterInv, TypeOK
<1>5. \A a \in DOMAIN Sent(t) : Sent(t)[a] \in Ids
  BY SentFacts
<1>6. session[t] # NoSession => session[t].id \in Ids
  BY HeldIsUsed DEF FilterInv, TypeOK
<1>7. \A a \in DOMAIN Sent(t) \ {alias[t]} :
           session'[t].id # Sent(t)[a] /\ session'[t].originalId # Sent(t)[a]
  BY <1>1 DEF CalmOf, Has
<1>8. session'[t] # NoSession
           /\ (committed'[t] \/ pc'[t] \in {"check", "expireChecked"}) =>
        GoodNext(session'[t].id)
  BY <1>1, <1>3, <1>4, <1>6 DEF CalmOf
<1> QED
  BY <1>1, <1>2, <1>3, <1>4, <1>5, <1>7, <1>8, CalmKeep DEF CalmOf

\* The end of a commit tells of a session that is saved, and that is none of the
\* others in the cookie.
LEMMA CalmTell ==
    ASSUME FilterInv, CookieInv, ToldInv, NEW t \in Requests, CalmOf(t), calm,
           NEW isValid \in BOOLEAN, Tell(t, isValid), pc[t] \in {"check", "expireChecked"},
           UNCHANGED <<cookie, sent, alias, session, received, invalidated, late>>,
           \A id \in Ids : Good(id) => GoodNext(id)
    PROVE  CalmOf(t)'
<1>1. PICK i : i = session[t].id
  OBVIOUS
<1>2. session[t] # NoSession
  BY DEF FilterInv
<1>3. i \in used /\ i \in Ids
  BY <1>1, <1>2, HeldIsUsed DEF FilterInv, TypeOK
<1>4. Good(i) /\ session[t].originalId = i
  BY <1>1, <1>2 DEF CalmOf
<1>5. \A a \in DOMAIN Sent(t) \ {alias[t]} :
           session'[t].id # Sent(t)[a] /\ session'[t].originalId # Sent(t)[a]
  BY DEF CalmOf, Has
<1>6. IsInjective(Told(t)')
  <2>1. CASE header'[t] = header[t]
    BY <2>1, ToldStays DEF CalmOf
  <2>2. CASE header'[t] = <<createSessionCookieValue(WithId(Sent(t), alias[t], i))>>
    <3>1. PICK ids \in IdMap : ids = WithId(Sent(t), alias[t], i)
      BY <1>3, RequestMaps, MapFacts
    <3>2. Told(t)' = ids
      BY <2>2, <3>1, ToldMap
    <3>3. \A a \in DOMAIN Sent(t) \ {alias[t]} : Sent(t)[a] # i
      BY <1>1, <1>5
    <3> QED
      BY <1>3, <3>1, <3>2, <3>3, RequestMaps, InjectiveMaps DEF CalmOf
  <2> QED
    BY <1>1, <1>3, <2>1, <2>2, TellEffect
<1>7. cookie' = IF received'[t] THEN header'[t][1] ELSE sent'[t]
  <2>1. received[t] => header' = header
    BY <1>1, <1>3, TellEffect DEF ToldInv, ToldOf
  <2> QED
    BY <2>1 DEF CalmOf
<1>8. \A j \in Ids : j = session[t].id => (GoodNext(j) => GoodNext(session'[t].id))
  BY DEF Good, GoodNext, Saved
<1> QED
  BY <1>1, <1>2, <1>3, <1>4, <1>5, <1>6, <1>7, <1>8, CalmKeep DEF CalmOf

LEMMA CalmCheck ==
    ASSUME FilterInv, CookieInv, ToldInv, NEW t \in Requests, CalmOf(t), calm,
           Check(t) \/ ExpireAsked(t)
    PROVE  CalmOf(t)'
<1>1. UNCHANGED <<cookie, sent, alias, session, received, invalidated, late>>
  BY DEF ExpireAsked, Check, request, history
<1>2. CASE Check(t) /\ ~RequestedExpired(t)
  <2>1. isRequestedSessionIdValid(t) \in BOOLEAN
    BY DEF isRequestedSessionIdValid, Saved
  <2>2. \A id \in Ids : Good(id) => GoodNext(id)
    BY <1>2 DEF Check, store, history, Good, GoodNext, Saved
  <2> QED
    BY <1>1, <1>2, <2>1, <2>2, CalmTell DEF Check
<1>3. CASE ExpireAsked(t) /\ pc[t] # "expireAsked"
  BY <1>1, <1>3, ExpiredStaysGood, CalmTell DEF ExpireAsked
<1> QED
  BY <1>2, <1>3, CalmExpire

\* The start of a commit saves the session, or deletes it under the id it had.
LEMMA CalmCommit ==
    ASSUME FilterInv, CookieInv, ToldInv, NEW t \in Requests, CalmOf(t), calm,
           NEW isFinishing \in BOOLEAN, commitSession(t, isFinishing)
    PROVE  CalmOf(t)'
<1> DEFINE less == WithoutId(Sent(t), alias[t])
           s == session[t]
<1>0. DOMAIN header = Requests /\ s \in MapSession
  BY DEF CookieInv, FilterInv, TypeOK
<1>1. UNCHANGED <<cookie, sent, alias, invalidated, received, late, timedOut>>
  BY DEF commitSession
<1>2. \A a \in DOMAIN Sent(t) \ {alias[t]} : s.id # Sent(t)[a] /\ s.originalId # Sent(t)[a]
  BY DEF CalmOf, Has
<1>3. CASE s = NoSession
  <2>1. /\ UNCHANGED <<session, sessions>>
        /\ IF invalidated[t] THEN onInvalidateSession(t) ELSE header' = header
    BY <1>3 DEF commitSession
  <2>2. \A id : Good(id) <=> GoodNext(id)
    BY <1>1, <2>1 DEF Good, GoodNext, Saved
  <2>3. received[t] => header' = header
    BY <1>0, <2>1 DEF onInvalidateSession, SetCookie, ToldInv, ToldOf
  <2>4. IsInjective(Told(t)')
    <3>1. CASE header' = header
      BY <1>1, <3>1, ToldStays DEF CalmOf
    <3>2. CASE header' # header
      <4>1. header'[t] = <<createSessionCookieValue(less)>>
        BY <1>0, <2>1, <3>2 DEF onInvalidateSession, SetCookie, Sent
      <4>2. less \in IdMap /\ IsInjective(less)
        BY RequestMaps, MapFacts, InjectiveMaps DEF CalmOf
      <4> QED
        BY <4>1, <4>2, ToldMap
    <3> QED
      BY <3>1, <3>2
  <2>5. session'[t] = NoSession
    BY <1>3, <2>1
  <2> QED
    BY <1>1, <1>2, <2>1, <2>2, <2>3, <2>4, <2>5, CalmKeep, SentFacts DEF CalmOf
<1>4. CASE s # NoSession /\ s.id = s.originalId
  <2>1. UNCHANGED <<session, committed, header>> /\ put(s)
    BY <1>4 DEF commitSession
  <2>2. Told(t)' = Told(t)
    BY <1>1, <2>1, ToldStays
  <2>3. PICK i : i = s.id
    OBVIOUS
  <2>4. DOMAIN sessions' = DOMAIN sessions \cup {i}
    BY <2>1, <2>3 DEF put
  <2>5. \A id : Good(id) => GoodNext(id)
    BY <1>1, <2>4 DEF Good, GoodNext, Saved
  <2>6. GoodNext(session'[t].id)
    BY <2>1, <2>3, <2>4 DEF Good, GoodNext, Saved
  <2> QED
    BY <1>1, <1>2, <1>4, <2>1, <2>2, <2>5, <2>6, CalmKeep, SentFacts DEF CalmOf
<1>5. CASE s # NoSession /\ s.id # s.originalId
  <2>1. /\ UNCHANGED <<committed, header>> /\ remove(s.originalId) /\ pc'[t] = "put"
        /\ session' = [session EXCEPT ![t] = [s EXCEPT !.originalId = s.id]]
    BY <1>5 DEF commitSession, SetSession, Goto, FilterInv, TypeOK
  <2>2. Told(t)' = Told(t)
    BY <1>1, <2>1, ToldStays
  <2>3. PICK i : i = s.originalId
    OBVIOUS
  <2>4. DOMAIN sessions' = DOMAIN sessions \ {i}
    BY <2>1, <2>3 DEF remove
  <2>5. \A id \in Ids : Good(id) /\ ~Has(t, id) => GoodNext(id)
    BY <1>1, <2>3, <2>4 DEF Good, GoodNext, Saved, Has
  <2>6. session'[t].id = s.id /\ session'[t].originalId = s.id
    <3>1. /\ [s EXCEPT !.originalId = s.id].id = s.id
          /\ [s EXCEPT !.originalId = s.id].originalId = s.id
      BY <1>0 DEF MapSession
    <3> QED
      BY <2>1, <3>1 DEF FilterInv, TypeOK
  <2>7. session'[t] # NoSession
    BY <1>5, <2>6, HeldIsUsed, FilterAssumption DEF NoSession, FilterInv, TypeOK
  <2>8. ~committed'[t]
    BY <1>5, <2>1 DEF CalmOf
  <2> QED
    BY <1>1, <1>2, <2>1, <2>2, <2>5, <2>6, <2>7, <2>8, CalmKeep DEF CalmOf
<1> QED
  BY <1>3, <1>4, <1>5

\* The session is saved under its new id.
LEMMA CalmPut ==
    ASSUME FilterInv, CookieInv, ToldInv, NEW t \in Requests, CalmOf(t), Put(t)
    PROVE  CalmOf(t)'
<1>1. /\ UNCHANGED <<cookie, sent, alias, session, invalidated, committed, header, received,
                     late, timedOut>>
      /\ pc[t] = "put" /\ put(session[t]) /\ session[t] # NoSession
  BY DEF Put, request, wrapper, response, history, FilterInv
<1>2. Told(t)' = Told(t)
  BY <1>1, ToldStays
<1>3. PICK i : i = session[t].id
  OBVIOUS
<1>4. DOMAIN sessions' = DOMAIN sessions \cup {i}
  BY <1>1, <1>3 DEF put
<1>5. \A id : Good(id) => GoodNext(id)
  BY <1>1, <1>4 DEF Good, GoodNext, Saved
<1>6. GoodNext(session'[t].id)
  BY <1>1, <1>3, <1>4 DEF Good, GoodNext, Saved
<1>7. \A a \in DOMAIN Sent(t) \ {alias[t]} :
           session[t].id # Sent(t)[a] /\ session[t].originalId # Sent(t)[a]
  BY DEF CalmOf, Has
<1> QED
  BY <1>1, <1>2, <1>5, <1>6, <1>7, CalmKeep, SentFacts DEF CalmOf

LEMMA CalmReceive ==
    ASSUME FilterInv, CookieInv, ToldInv, NEW t \in Requests, CalmOf(t), Receive(t)
    PROVE  CalmOf(t)'
<1>1. /\ UNCHANGED <<sessions, pc, sent, alias, session, invalidated, committed, header,
                     late, timedOut>>
      /\ cookie' = header[t][1] /\ received'[t]
  BY DEF Receive, store, request, wrapper, history, FilterInv, TypeOK
<1>2. Told(t)' = Told(t) /\ Sent(t)' = Sent(t)
  BY <1>1, ToldStays
<1> QED
  BY <1>1, <1>2 DEF CalmOf, Good, GoodNext, Saved, Has

\* The browser has what it was told when the request is over.
LEMMA CalmEnd ==
    ASSUME FilterInv, CookieInv, ToldInv, NEW t \in Requests, CalmOf(t), calm', End(t)
    PROVE  /\ IsInjective(getSessionIds(cookie'))
           /\ \A a \in DOMAIN getSessionIds(cookie') : GoodNext(getSessionIds(cookie')[a])
<1> DEFINE told == Told(t)
           sentIds == Sent(t)
<1>1. /\ UNCHANGED <<cookie, sessions, timedOut>>
      /\ header[t] = <<>> \/ received[t]
      /\ pc[t] = "done" /\ committed[t] /\ ~late[t]
  BY DEF End, store, ToldInv, ToldOf, CalmOf
<1>2. getSessionIds(cookie) = told
  BY <1>1 DEF Told, CalmOf, ToldInv, ToldOf
<1>3. told \in IdMap /\ sentIds \in IdMap /\ alias[t] \in 0..MaxAlias
  BY RequestMaps
<1>4. WithoutId(told, alias[t]) = WithoutId(sentIds, alias[t])
  BY DEF ToldInv, ToldOf
<1>5. ASSUME NEW a \in DOMAIN told
      PROVE  Good(told[a])
  <2>1. CASE a # alias[t]
    <3>1. a \in DOMAIN sentIds \ {alias[t]} /\ told[a] = sentIds[a]
      <4>1. PICK less : less = WithoutId(told, alias[t])
        OBVIOUS
      <4>2. DOMAIN less = DOMAIN told \ {alias[t]} /\ less[a] = told[a]
        BY <2>1, <4>1 DEF WithoutId
      <4>3. /\ DOMAIN less = DOMAIN sentIds \ {alias[t]}
            /\ \A b \in DOMAIN less : less[b] = sentIds[b]
        BY <1>4, <4>1 DEF WithoutId
      <4> QED
        BY <2>1, <4>2, <4>3
    <3> QED
      BY <3>1 DEF CalmOf
  <2>2. CASE a = alias[t] /\ session[t] # NoSession
    <3>1. told[a] = session[t].id
      BY <1>1, <2>2 DEF ToldInv, ToldOf
    <3> QED
      BY <1>1, <2>2, <3>1 DEF CalmOf
  <2>3. CASE a = alias[t] /\ session[t] = NoSession
    <3>1. ~invalidated[t] /\ header[t] = <<>>
      BY <1>1, <2>3 DEF ToldInv, ToldOf
    <3>2. told = sentIds
      BY <3>1, RequestMaps
    <3> QED
      BY <2>3, <3>1, <3>2 DEF CalmOf
  <2> QED
    BY <2>1, <2>2, <2>3
<1>6. \A a \in DOMAIN getSessionIds(cookie) : Good(getSessionIds(cookie)[a])
  BY <1>2, <1>5
<1> QED
  BY <1>1, <1>2, <1>6 DEF CalmOf, Good, GoodNext, Saved

\* A request that is the only one finds what the last one left.
LEMMA CalmBegin ==
    ASSUME FilterInv, CookieInv, ToldInv, CalmInv, NEW t \in Requests, calm',
           NEW a \in 0..MaxAlias, Begin(t, a)
    PROVE  CalmInv'
<1> DEFINE ids == getSessionIds(cookie)
<1>1. /\ calm /\ \A u \in Requests : pc[u] = "free"
      /\ pc' = [pc EXCEPT ![t] = "chain"] /\ sent' = [sent EXCEPT ![t] = cookie]
      /\ UNCHANGED <<cookie, sessions, session, invalidated, committed, header, received,
                     late, timedOut>>
  BY DEF Begin, Goto, store, wrapper, response
<1>2. /\ ~committed[t] /\ session[t] = NoSession
      /\ header[t] = <<>> /\ ~late[t] /\ ~received[t]
  BY <1>1 DEF ToldInv, ToldOf
<1>3. sent'[t] = cookie
  BY <1>1 DEF CookieInv
<1>4. Sent(t)' = ids /\ Told(t)' = ids
  BY <1>1, <1>2, <1>3 DEF Sent, Told
<1>5. IsInjective(ids) /\ \A b \in DOMAIN ids : Good(ids[b])
  BY <1>1 DEF CalmInv
<1>6. \A b \in DOMAIN ids : ids[b] # NoId
  <2>1. ids \in IdMap
    BY CookieMap DEF CookieInv
  <2> QED
    BY <2>1, MapFacts, FilterAssumption DEF IdMap, FilterInv, TypeOK
<1>7. /\ \A b \in DOMAIN ids : GoodNext(ids[b])
      /\ \A b \in DOMAIN ids : session'[t].id # ids[b] /\ session'[t].originalId # ids[b]
  <2>1. NoSession.id = NoId /\ NoSession.originalId = NoId
    BY DEF NoSession
  <2> QED
    BY <1>1, <1>2, <1>5, <1>6, <2>1 DEF Good, GoodNext, Saved
<1>8. CalmOf(t)'
  BY <1>1, <1>2, <1>3, <1>4, <1>5, <1>7 DEF CalmOf, Good, GoodNext, Saved, Has
<1>9. pc'[t] # "free" /\ \A u \in Requests : u # t => pc'[u] = "free"
  BY <1>1 DEF FilterInv, TypeOK
<1> QED
  BY <1>8, <1>9 DEF CalmInv

\* Whatever a request does
LEMMA CalmStep ==
    ASSUME FilterInv, CookieInv, ToldInv, CalmInv, NEW t \in Requests, RequestStep(t)
    PROVE  CalmInv'
<1>1. CASE ~calm'
  BY <1>1 DEF CalmInv
<1>2. CASE calm' /\ \E a \in 0..MaxAlias : Begin(t, a)
  BY <1>2, CalmBegin
<1>3. CASE calm' /\ ~\E a \in 0..MaxAlias : Begin(t, a)
  <2>1. calm
    <3>1. calm' = calm \/ calm
      BY <1>3 DEF RequestStep, FindSession, Expire, createSession, changeSessionId,
                  invalidate, commitSession, Ask, Put, Check, ExpireAsked, Receive, End,
                  Late, history
    <3> QED
      BY <1>3, <3>1
  <2>2. pc[t] # "free"
    <3>1. CASE Receive(t)
      BY <3>1 DEF Receive, ToldInv, ToldOf
    <3>2. CASE ~Receive(t)
      BY <1>3, <3>2 DEF RequestStep, FindSession, Expire, createSession, changeSessionId,
                        invalidate, commitSession, Ask, Put, Check, ExpireAsked, End
    <3> QED
      BY <3>1, <3>2
  <2>3. CalmOf(t)
    BY <2>1, <2>2 DEF CalmInv
  <2>4. CASE End(t)
    <3>1. pc'[t] = "free"
      BY <2>4 DEF End, Goto, FilterInv, TypeOK
    <3> QED
      BY <1>3, <2>1, <2>2, <2>3, <2>4, <3>1, CalmEnd, CalmAlone
  <2>5. CASE ~End(t)
    <3>1. CalmOf(t)'
      BY <1>3, <2>1, <2>3, <2>5, CalmFind, CalmSession, CalmExpire, CalmCheck, CalmCommit,
         CalmPut, CalmReceive DEF RequestStep
    <3>2. pc'[t] # "free"
      <4>1. CASE Receive(t)
        BY <2>2, <4>1 DEF Receive
      <4>2. CASE Check(t) \/ ExpireAsked(t)
        BY <4>2 DEF Check, ExpireAsked, Tell, Committed, Goto, FilterInv, TypeOK
      <4>3. CASE ~(Receive(t) \/ Check(t) \/ ExpireAsked(t))
        BY <1>3, <2>5, <4>3
        DEF RequestStep, FindSession, Expire, createSession, changeSessionId, invalidate,
            commitSession, Ask, Put, Committed, Goto, FilterInv, TypeOK
      <4> QED
        BY <4>1, <4>2, <4>3
    <3> QED
      BY <2>1, <2>2, <3>1, <3>2, CalmAlone
  <2> QED
    BY <2>4, <2>5
<1> QED
  BY <1>1, <1>2, <1>3

-----------------------------------------------------------------------------
(* The theorems *)

\* What is true of every browser and its requests
Inv == FilterInv /\ CookieInv /\ ToldInv /\ CalmInv

\* The browser has no cookie at first.
LEMMA InvInit ==
    ASSUME Init
    PROVE  Inv
<1>1. FilterInv
  BY FilterInvInit
<1>2. CookieInv
  BY NoCookie DEF Init, CookieInv
<1>3. \A t \in Requests : Told(t) = Sent(t)
  BY DEF Init, Told, Sent
<1>4. ToldInv
  BY <1>3 DEF Init, ToldInv, ToldOf
<1>5. getSessionIds(<<>>) \in IdMap /\ used = {}
  BY NoCookie, CookieMap DEF Init
<1>6. DOMAIN getSessionIds(<<>>) = {}
  BY <1>5 DEF IdMap
<1>7. CalmInv
  BY <1>6 DEF Init, CalmInv, IsInjective
<1> QED
  BY <1>1, <1>2, <1>4, <1>7 DEF Inv

LEMMA InvStep ==
    ASSUME Inv, [Next]_vars
    PROVE  Inv'
<1>1. FilterInv'
  BY FilterInvStep DEF Inv
<1>2. CASE \E t \in Requests : RequestStep(t)
  BY <1>1, <1>2, CookieStep, ToldStep, CalmStep DEF Inv
<1>3. CASE Tick \/ UNCHANGED vars
  <2>1. UNCHANGED <<sessions, cookie, pc, sent, alias, session, invalidated, written,
                    committed, header, received, used, timedOut, late, calm>>
    BY <1>3 DEF Tick, vars, store, request, wrapper, response, history
  <2>2. CookieInv'
    <3>1. IdMap' = IdMap
      BY <2>1 DEF IdMap
    <3> QED
      BY <2>1, <3>1 DEF Inv, CookieInv, IsCookie
  <2>3. \A t \in Requests : Told(t)' = Told(t) /\ Sent(t)' = Sent(t)
    BY <2>1 DEF Told, Sent
  <2>4. ToldInv'
    BY <2>1, <2>3 DEF Inv, ToldInv, ToldOf
  <2>5. CalmInv'
    BY <2>1, <2>3 DEF Inv, CalmInv, CalmOf, Good, Saved, Has
  <2> QED
    BY <1>1, <2>2, <2>4, <2>5 DEF Inv
<1> QED
  BY <1>2, <1>3 DEF Next, RequestStep

THEOREM InvHolds == Spec => []Inv
<1>1. Init => Inv
  BY InvInit
<1>2. Inv /\ [Next]_vars => Inv'
  BY InvStep
<1> QED
  BY <1>1, <1>2, PTL DEF Spec

\* A request that ends with the session it had when its response was committed has
\* told the browser its id, and one whose session was invalidated has told it to forget
\* that: SessionRepositoryRequestWrapper.commitSession, for any number of requests,
\* sessions and aliases.
THEOREM ClientsAreTold == Spec => []ClientIsTold
<1>1. Inv => ClientIsTold
  BY DEF Inv, ToldInv, ToldOf, ClientIsTold
<1> QED
  BY <1>1, InvHolds, PTL

\* CookieHttpSessionStrategy writes back what the request came with under the other
\* aliases, through the string of tokens that a cookie value is.
THEOREM OtherAliasesAreKept == Spec => []OtherAliasesKept
<1>1. Inv => OtherAliasesKept
  BY DEF Inv, ToldInv, ToldOf, OtherAliasesKept, Sent
<1> QED
  BY <1>1, InvHolds, PTL

\* The cookie of a browser that waits for each response names sessions that the
\* repository has, or had until they expired.
THEOREM CookiesAreGood == Spec => []CookieIsGood
<1>1. Inv => CookieIsGood
  BY DEF Inv, CalmInv, CookieIsGood, Good
<1> QED
  BY <1>1, InvHolds, PTL
=============================================================================
