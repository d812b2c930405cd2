-------------------------- MODULE SessionFilterInv --------------------------
(***************************************************************************)
(* The inductive invariants behind what SessionFilter promises of cookies: *)
(* ClientIsTold, OtherAliasesKept and CookieIsGood.                        *)
(***************************************************************************)
EXTENDS SessionFilter

\* The sessions a browser may have, by alias
IdMap == UNION {[A -> used] : A \in SUBSET (0..MaxAlias)}

\* A cookie is what the filter has written.
IsCookie(value) == \E ids \in IdMap : value = createSessionCookieValue(ids)

\* What the browser sent with request t
Sent(t) == getSessionIds(sent[t])

\* Every cookie is one that the filter has written, or none.
CookieInv ==
    /\ DOMAIN sent = Requests /\ DOMAIN header = Requests
    /\ IsCookie(cookie)
    /\ \A t \in Requests :
          /\ IsCookie(sent[t])
          /\ header[t] # <<>> => header[t] = <<header[t][1]>> /\ IsCookie(header[t][1])

\* Nothing is told before the response is committed, and then what request t has
\* unless it ends up with another session.
ToldOf(t) ==
    /\ pc[t] = "free" => ~committed[t] /\ ~invalidated[t] /\ session[t] = NoSession
    /\ pc[t] = "done" => committed[t]
    /\ ~committed[t] => header[t] = <<>> /\ written[t] = {} /\ ~late[t]
    /\ received[t] => header[t] # <<>>
    /\ WithoutId(Told(t), alias[t]) = WithoutId(Sent(t), alias[t])
    /\ committed[t] /\ ~late[t] /\ session[t] # NoSession =>
          alias[t] \in DOMAIN Told(t) /\ Told(t)[alias[t]] = session[t].id
    /\ committed[t] /\ ~late[t] /\ session[t] = NoSession =>
          IF invalidated[t] THEN alias[t] \notin DOMAIN Told(t) ELSE header[t] = <<>>

ToldInv == \A t \in Requests : ToldOf(t)

\* The repository has the session, or had it until it expired.
Good(id) == Saved(id) \/ id \in timedOut

\* What a browser that waits for each response knows while request t is under way:
\* the other sessions in the cookie are good, and so is the one request t is about
\* unless it has been invalidated or is about to be saved under a new id.
CalmOf(t) ==
    /\ ~late[t]
    /\ cookie = IF received[t] THEN header[t][1] ELSE sent[t]
    /\ IsInjective(Sent(t)) /\ IsInjective(Told(t))
    /\ \A a \in DOMAIN Sent(t) \ {alias[t]} : Good(Sent(t)[a]) /\ ~Has(t, Sent(t)[a])
    /\ session[t] = NoSession /\ ~invalidated[t] /\ alias[t] \in DOMAIN Sent(t) =>
          Good(Sent(t)[alias[t]])
    /\ session[t] # NoSession /\ (committed[t] \/ pc[t] \in {"check", "expireChecked"}) =>
          Good(session[t].id)
    /\ session[t] # NoSession /\ (committed[t] \/ pc[t] \notin {"chain", "expire",
                                                               "expireAsked"}) =>
          session[t].originalId = session[t].id

CalmInv ==
    calm =>
        /\ \A t, u \in Requests : pc[t] # "free" /\ pc[u] # "free" => t = u
        /\ \A t \in Requests : pc[t] # "free" => CalmOf(t)
        /\ (\A t \in Requests : pc[t] = "free") =>
              /\ IsInjective(getSessionIds(cookie))
              /\ \A a \in DOMAIN getSessionIds(cookie) : Good(getSessionIds(cookie)[a])
=============================================================================
