# Spring Session: a verification project

The repository is a collection of demo projects around one real program,
`spring-session-master` (Spring Session 2.0): it replaces the servlet
container's `HttpSession` by sessions in an external store. This directory
holds TLA+ models of that program, the configurations TLC checks them with, and
proofs that TLAPS checks. Paths below are under `src/spring-session-master/`;
the Java package prefix `org.springframework.session` is left out.

## 1. Inventory

| Component | State | Operations | What is hard |
|---|---|---|---|
| **Redis repository** `data.redis.RedisOperationsSessionRepository` | per session: hash `sessions:<id>`, shadow key `sessions:expires:<id>`, entry in `expirations:<minute>`, entry in the index of its principal; in memory: `RedisSession` with delta, original id, original principal, original access time | `createSession`, `findById`, setters, `changeSessionId`, `save`, `deleteById`, `onMessage` | every save is up to ten separate Redis commands; requests hold copies; keys expire between commands; messages are lost or late |
| **Redis expiration policy** `RedisSessionExpirationPolicy` | the buckets of each minute, the deadlines | `onExpirationUpdated`, `onDelete`, `cleanExpiredSessions` | rounding to minutes; cleanup and requests race; a minute may be skipped |
| **Reactive Redis repository** | one hash with a deadline | `createSession`, `save`, `findById`, `deleteById` | commands chained asynchronously, no events |
| **JDBC repository** `jdbc.JdbcOperationsSessionRepository` | rows of two tables; in memory: delta, changed flag | `createSession`, `save` (transaction), `findById`, `deleteById`, `cleanUpExpiredSessions` | lost updates, a cleanup beside live requests, a row that has gone |
| **Hazelcast repository** | a distributed map of whole sessions | `save`, `findById`, `deleteById`, entry listeners | whole-value put over concurrent changes; events of an id change |
| **Map repositories** `MapSessionRepository`, `MapReactorSessionRepository` | a concurrent map | as above | copies on load and save |
| **Filter** `web.http.SessionRepositoryFilter` and wrappers | session wrapper of one request, commit flags | get, create, invalidate, change id, commit | the response may be committed first; nested dispatches |
| **Cookie and header strategies** | ids by alias in one cookie | new session, invalidate, alias | concurrent responses overwrite the cookie |
| **WebSocket registry** `web.socket.handler.WebSocketRegistryListener` | connections by session id | connect, disconnect, session destroyed | check-then-act on concurrent maps |
| **WebFlux store** `web.server.session.SpringSessionWebSessionStore` | state of one `WebSession` | create, retrieve, save, change id | state transitions of an asynchronous request |
| **Security registry** `security.SpringSessionBackedSession*` | attribute of the session | `expireNow` | find, modify, save beside live requests |

They meet in the store: the filter calls the repository at the start and the end
of a request, the WebSocket interceptor calls it per message (with an access
time but nothing else), the security registry calls it without touching the
access time. The repositories publish created, deleted and expired events,
which the WebSocket registry and the HttpSession listener adapter consume.

What makes each correct: a session that was deleted, or has left the store after
its interval, is gone for good; a live session is complete and stays until its
interval is over or somebody deletes it; its end is announced once it comes, with
its data; indexes and expiry buckets agree with the
sessions; requests of one session do not undo each other's changes; the browser
holds the id of the session the server saved; no WebSocket connection outlives
its session.

`PROJECT.json` lists the components, the ones that are not modelled too, and the
hazards with the properties that cover them.

## 2. Modules

| Module | What it is |
|---|---|
| `SessionStore` | What a client of `SessionRepository` may count on, whatever the store: sessions as single values, clients with copies, one step per call. The abstract specification of the two repositories below. |
| `SessionStoreProofs` | Proof that in it a session that was deleted or dropped is never stored again. |
| `RedisServer` | Redis as this code uses it: keys, commands, deadlines, keyspace notifications. External code; one operator per command. |
| `RedisSessions` | The repository and the expiration policy: threads with their `RedisSession`, one action per call of the application and one per Redis command, the cleanup, the listener, the clock. Properties at the end. |
| `RedisSessionsInv` | The inductive invariants of concurrent requests, with the conditions under which they hold: `IInv` (`Undisturbed`) and `NoticeInv` (`Noticed`). |
| `RedisAloneInv` | Those of concurrent requests that have different sessions (`Alone`): `LineageInv` (`Renaming`), `InstantInv` (`Instant`), `WatchInv` (`Punctual`), `IndexInv` (`Indexing`). |
| `RedisRefinement` | The mapping from its state to that of `SessionStore`, `ImplementsStore`. |
| `RedisSessionsProofs` | Proof of the type invariant. |
| `RedisDeletionProofs` | Proofs of `IInv`, `NoticeInv` and the three properties they were made for. |
| `RedisAloneProofs` | Proofs of the invariants of `RedisAloneInv` and their four properties. |
| `RedisRefinementProofs` | Proof of the refinement. |
| `JdbcSessions` | The JDBC repository: threads with their `JdbcSession`, one action per call and one per SQL statement, commit, rollback and crash, the cleanup, the two tables. |
| `JdbcRefinement` | Its inductive invariant `JdbcInv` and the mapping to `SessionStore`. |
| `JdbcProofs` | Proofs of `JdbcInv` and of the refinement. |
| `CookieSessions` | Pure: how `CookieHttpSessionStrategy` reads and writes the sessions of a browser, by alias, in one cookie. |
| `SessionFilter` | The filter with its request wrapper, over `CookieSessions` and a `MapSessionRepository`: concurrent requests of a browser, one action per repository call. Properties and `FilterInv` at the end. |
| `SessionFilterInv` | The inductive invariants of what it promises of cookies. |
| `FilterProofs` | Proofs of `FilterInv`, these invariants and their three properties. |
| `WebSocketRegistry` | The WebSocket listener: the handlers of connect, disconnect and destroyed events, one operation on a concurrent map per step. |
| `WebSocketProofs` | Its inductive invariants and four theorems. |
| `MC_Redis`, `MC_Jdbc`, `MC_Filter`, `MC_WebSocket` | Constants and symmetry for TLC. |

### Correspondence: Redis

* `pc[t]` is the next Redis command of the call thread `t` is in: `edit` is
  outside any call, `rename` is `saveChangeSessionId`, `hmset` to `index` are
  `saveDelta`, `unbucket` to `hashTtl` are `onExpirationUpdated`, `return` is
  the rest of the caller (`save` publishes the created message), `delIndex` and
  `delShadow` are `deleteById`.
* `session[t]` is the `RedisSession`: `id` of the cached session and
  `originalId`, `isNew`, access time, interval, principal, and the three
  remembered values. `delta` is the set of changed fields; their values are
  those of the session.
* A hash is the set of its fields with their values. A field that is missing
  has the value `loadSession` gives it (the defaults of `MapSession`).
* `Found(id)` is "`findById(id)` would return a session now".
* Two commands are merged where nothing can come between them that does not
  also come after: SADD and EXPIRE of a bucket; the PERSIST of a key is the
  EXPIRE of a negative interval. In IMMEDIATE mode the flushes of
  `createSession` and of the first access time are one.
* Attributes other than the principal are not told apart: they are written like
  the others and no code path depends on them. Serialization, key names and
  logging are left out.
* A key that is due is deleted by an `Expire` step, and a command on a due key
  waits for that step: Redis deletes it on access.
* Time is one clock for Redis and the JVMs. A tick is a fraction of a minute;
  only the order of the interval, the minute, the five minutes (`Grace`) and the
  length of a request (`MaxRequest`) matters.

### Correspondence: the abstract store

`SessionStore` has one step for each method of `SessionRepository`, and for the
setters of `Session`. A client works on a copy, with the set of fields it has
edited. A save writes the edited fields; with `WritesUnchanged` it may also write
back fields the client only read, at their old values: JDBC does that, Redis does
not, so lost updates are told apart from what is never allowed. `Written` is the
promise that matters: a save of a session that is not stored has no effect, unless
it is its first save.

A session leaves the store in two ways. `deleteById(c, id)` is the call of client
`c`, recorded in `doomed[c]`; `Delete(c)` is the moment it takes effect, once, on
the session it was called for, and `Miss(c)` its failure. Or the store drops the
session (`Evict`), which it may do only if `findById` would not return it. So an
implementation in which a cleanup or an eviction takes a live session, or a DELETE
takes another one, is none of `SessionStore`. An expired session that is still
stored is not gone: a save that writes a later access time or another interval
makes `findById` return it again, in the model as in both repositories. In Redis
that is possible for the five minutes that the hash outlives the session, in JDBC
until the next cleanup.

For Redis (`RedisRefinement`) the moment of a save is its HMSET, and a hash with a
zero interval, which `deleteById` leaves behind, is no session; a deletion is under
way until its own HMSET. For JDBC (`JdbcRefinement`) the moment of a save is the
commit, or the last statement of a save that writes no row; a session is known by its
primary key, and a deletion is for the session its id was generated for, even if
that has another id by the time of the DELETE, which then finds none.

### Correspondence: JDBC

* `row` and `attribute` are the committed rows of the two tables. `tx[t]` says
  which rows of its session the transaction of `t` has written: their values are
  those of the copy, which does not change during `save`, so `Commit` can apply
  them at once.
* One attribute is told apart. In `jdbc` it is any one; in `jdbc_index`
  (`Indexed`) it is the principal name, with its column `PRINCIPAL_NAME`.
* A copy is `changed` and `dirty` (a non-empty delta) as in the code: a loaded
  session is dirty at once if it has the attribute, as the extractor fills it with
  `setAttribute`; `removeAttribute` does not set `changed`.
* Transactions read what is committed. A transaction that has written a row of a
  session keeps all writers of that session waiting, where a database would lock
  row by row: a writer that would get through commutes with the other one or waits
  at the next row. Deadlocks, which a database ends by a rollback, are among the
  rollbacks at any statement.
* `BreakKey` is the INSERT of an attribute that violates the foreign or the
  primary key. `Crash` loses the connection in a call.
* `doomed[t]` is the id of a `deleteById` that has been called and not yet done its
  DELETE. `findById` calls it with the id of a session it has found expired
  (`FindExpired`), a client with any id that was generated (`deleteById`). A client
  has let go of its copy before: `HttpSessionWrapper.invalidate` clears the current
  session first. `owner` remembers which session an id was generated for.
* The cleanup's DELETE takes the rows it finds one after another (`CleanUp`).

### Correspondence: filter and cookies

* A cookie is the sequence of its tokens. `getSessionIds` and
  `createSessionCookieValue` are each other's conversion, with the special case of
  a lone token. Aliases are numbers.
* `pc[t] = "chain"` is the application between two calls to the request. `put`,
  `check` and `expire...` are the points inside a call at which the repository is
  asked again. `sent` and `alias` are what the browser sent; `session` is the
  current session, the copy that `MapSessionRepository` returned or created;
  `valid`, `invalidated`, `missing` and `written` are the cached answers and
  attributes of the request.
* `commitSession` runs when the response is committed, at any time in the chain,
  and again at its end (`isFinishing`). Headers set later are ignored, as the
  container does.
* The access time is all the data of a session that matters here; attributes are
  written with the whole copy.
* The browser takes the cookie of a response as soon as that is committed, or
  loses it (`End` without `Receive`). `used`, `gone`, `timedOut`, `late` and `calm`
  are history for the properties.

### Correspondence: WebSocket

In `WebSocketRegistry`, `pc[c]` is the next map operation of the handler of
connection `c`. The events of one connection come one after another, as its
container delivers them; those of different connections, and the destroyed
event, run concurrently. `registry` is `httpSessionIdToWsSessions`, `content`
the inner maps; an inner map is named by the connection whose handler created
it. Where the code calls a method of a null map or passes a null key, the
publisher of the event catches the exception (`WebSocketConnectHandlerDecoratorFactory`)
and the handler is over. The close loop iterates over a `ConcurrentHashMap`,
which shows some of the changes made meanwhile: `Close` may take a connection
that was put late. A session is destroyed once; the variables `registered`,
`due` and `left` are history for the properties.

## 3. Runs

All runs bound the clock (`MaxTime`), the requests and deletions (`MaxCalls`,
`LastStart`) and the length of a request (`MaxRequest`), or the ids, which are
used once. The clock stops at its bound, so the runs do not check for deadlock.

| Run | Shows | Bounds |
|---|---|---|
| `redis_concurrent` | `IInv`, `DeletedStaysDead`, `LiveIsComplete`, `DestroyedEventCarriesSession`, `ImplementsStore`: two threads on one session, three requests or deletions, every interleaving of their commands with expiry and the listener. | interval 1, five minutes 2, request 1: requests start before and after the session expires, and evictions fall into requests if the five minutes are left out (the mutants show it) |
| `redis_expiry` | `TypeOK`, `TimelyExpiry`, `LiveIsKept`, `IndexExact`: one thread changes principal (two of them, or none) and interval (negative too), cleanup every minute. | two ticks a minute, four requests; `MaxExpiryLag` 20 is beyond the end: Redis need not delete a shadow key by itself |
| `redis_change_id` | `OneLiveCopy`: ids change up to twice, one crash anywhere, lost messages, late cleanup. | three ids |
| `redis_index_end` | `ExpiredLeavesIndex`, a liveness property, in IMMEDIATE mode, where every set is a save. | three requests |
| `websocket` | `TypeOK`, `OnlyEndedAreClosed`, `ClosedUnlessClientsLeft`, `ForgetsClosed`: what the registry promises that holds. | three connections, two HTTP sessions: two handlers race for one map while a third closes |
| `jdbc` | `JdbcInv`, `ImplementsStore`: two threads load, edit, rename and save one session, statement by statement, with rollbacks, crashes, deletions and cleanups in between. A cleanup of a live session, or a DELETE nobody called for, would be no step of `SessionStore`. | one key, as sessions do not touch each other; two ids, so that it is renamed; intervals 1 and 2, so that a copy with a stale interval can be written; clock 2: it expires, and is cleaned up, while copies are held |
| `jdbc_index` | violates `PrincipalIndexed`: a request that began before the login and ends after it clears `PRINCIPAL_NAME`. | |
| `web` | `FilterInv`, `ClientIsTold`, `OtherAliasesKept`, `CookieIsGood`: two requests of a browser, each with any calls before and after the commit of its response. | two ids and two aliases: a second session, or a changed id; interval 1, clock 1: a session expires between two calls. A third id adds only a second change of an id, and multiplies the states by more than TLC finishes in minutes |
| `websocket_leave` | violates `RegisteredAreClosed`: `isEmpty` and `remove` of a disconnect are two steps. | two connections, one session |
| `redis_straddle` | violates `TimelyExpiry`: the request lasts over the end of a minute. | request 2, minute 2 |
| `redis_unwatched` | violates `LiveIsKept`: the shadow key expires between APPEND and EXPIRE. | request 1 |
| `redis_created` | violates `CreatedEventCarriesSession`: the created event is empty. | |

The five violations are disagreements between the code and its own
documentation, quoted in `PROJECT.json` under `findings`. `redis_expiry` has
`MaxRequest = 0` for the reason `redis_straddle` and `redis_unwatched` show: `TimelyExpiry` and
`LiveIsKept` hold for requests within an instant, which separates the
bookkeeping (right) from its use of two readings of the clock (not right).

What the properties of `web` leave out, because the code does not do it:
`ClientIsTold` is not about sessions created or renamed after the response was
committed, and `CookieIsGood` asks for a browser that waits for its responses,
gets them and keeps to one request at a time: responses that overlap write the
cookie with the aliases each of them knows, and the last one wins. An id counts as
`gone` only if no other request has it: a `MapSessionRepository` stores whatever
copy comes last. A session invalidated right after its id changed is deleted under
its new id; its entry under the old one stays in the repository (`invalidate`).

Fairness (`FairSpec`, used by `redis_index_end`): a thread in a call goes on, a
request ends (strongly, as it may be in and out of calls for ever), the cleanup
and the listener run, Redis deletes due keys, the clock moves. The listener
container and the scheduler of the repository are threads of their own, and
Redis' background cycle deletes due keys sooner or later. Nothing makes the
application start requests.

## 4. Proofs

`tlapm` checks all theorems for every value of the constants that satisfies the
named assumptions of the modules; where a theorem needs more, its statement has it
as a condition.

### Redis: concurrent requests

The Redis proofs rest on `ConstantsAssumption` and `RepositoryAssumption` (the
intervals are integers with 0 and the default among them, the default is positive,
a minute is shorter than the five minutes; ids are not the null id).

* `TypeCorrect`: `Spec => []TypeOK`. The induction needs one more fact, that a
  thread in a call holds a session with ids (`TypeInv`).
* `InvariantHolds`: `Undisturbed => (Spec => []IInv)`.
* `DeletedSessionsStayDead` and `LiveSessionsAreComplete` follow from `IInv`.
* `DestroyedEventsCarrySessions`: `Noticed => (Spec => []DestroyedEventCarriesSession)`.

`Undisturbed` says what the code relies on: the application changes neither
intervals nor ids, no thread dies inside a call, and a request takes less than
the five minutes. Each condition is needed: TLC finds a deleted session alive
again if a request sets the interval while another deletes the session, if a
RENAME moves the zero interval away before a late HMSET, if a thread dies
between HMSET and EXPIRE, or if a request outlasts the hash.

The argument for `IInv`. `deleteById` does not delete the hash: it writes a zero
interval, with which `findById` takes the session for expired. A late save writes
only its delta, which has no interval, so the zero stays (`TombstoneInv`), as long
as the hash does. If the hash were evicted, the late HMSET would create a hash with
its delta only, and the default interval. So the hash of a session must stay while
a request holds it (`InFlightInv`): whoever finds a live session finds a hash
with five minutes to live after the session's end, or one a saving thread is
about to give these five minutes (`Secured`, `KeptInv`). A created session is not
written yet, but known to its creator only (`UnwrittenInv`). The lemmas follow the
code: one per action that touches hashes or threads, `Elsewhere` for the rest.

The argument for the destroyed event. The listener reads the hash when it handles
the message, and needs it whole. `ShadowInv` compares the two deadlines: as long as
a session that was not deleted has a shadow key, its hash has the five minutes more
to live, or no deadline, or a thread is about to extend it that came when the hash
had enough to outlast the request (`Covered`). `Noticed` therefore asks that Redis
deletes the key and the listener reads the hash within the five minutes. Deleted
sessions are left out of the property: a save that races with `deleteById` may append
the shadow key again with the session's own interval, while the hash keeps the five
minutes of the deletion.

### Redis: each session in one request at a time

The bookkeeping of ids, deadlines, buckets and index is a sequence of up to ten
commands that no lock protects. The theorems say that the sequence is right, for
any number of threads, as long as no two of them have the same session at the same
time, by whatever id (`Alone`). Between any two commands other requests take their
steps on other sessions, and the cleanup, the expiry of keys, the listener and Redis
on this one. `Alone` speaks of the state, as the application decides who asks for
which session: the theorems are `Spec /\ []Alone => []P`, and a single thread, as in
the runs, satisfies it always. It is needed: with two threads on one session TLC
finds the session under two ids, when an HMSET under the old id comes after the
RENAME; deadlines that belong to different intervals, when two saves interleave; and
a shadow key without index entry, when a save overtakes a deletion.

The induction is per thread, with one lemma that says what the step of a thread
leaves alone: a command touches the keys of its own session only, its members of the
shared sets of buckets and index included. So what the other threads hold stays as it
is (`LineageOthers`, `MayHoldStays`, `HeldStays`), and an id in an intermediate state
is in the hands of one thread, which is the one to finish (`OpenElsewhere`,
`RewatchedElsewhere`, `HeldElsewhere`).

* `NoSessionHasTwoIds`: `Renaming => (Spec /\ []Alone => []OneLiveCopy)`. Threads may die at
  any command, messages get lost, hashes expire at any time. `LineageInv` follows
  a session through its ids: at most one hash stems from a creation (`NoTwins`),
  and a thread about to write under an id holds the only one, has it renamed first,
  or has nothing written yet (`HoldsKin`). `Renaming` excludes IMMEDIATE mode: there
  a new session is written under its first id already when `createSession` sets the
  access time, and a `changeSessionId` before `save` does not know it (the hazard is
  in `PROJECT.json`).
* `LiveSessionsAreKept`: `Instant => (Spec /\ []Alone => []LiveIsKept)`, in both flush modes.
  `InstantInv` says of every step of every call what the thread has in hand and
  which deadlines it has set (`MayHold`), and of every hash that no call is at work
  on that it outlives its session by five minutes and its shadow key by as much, the
  key being there until the session ends (`KeptHash`). Requests take no time in it
  (`MaxRequest = 0`): `redis_unwatched` shows the shadow key expire between APPEND
  and EXPIRE otherwise. No thread may die in a call, and ids do not change, since
  RENAME moves the hash and leaves deadlines and shadow key to the next command.
* `ExpiryIsTimely`: `Punctual => (Spec /\ []Alone => []TimelyExpiry)`. `WatchInv` follows the
  cleanup: it has read the bucket of every minute so far, or is about to read that
  of the minute that has just begun (`CronInv`), and each shadow key is in the
  bucket of its own deadline, which is still to be read (`InBucket`), among the ids
  read but not yet touched (`Watched`), or in the hands of a save that has left the
  old bucket and not set the new deadline (`Rewatching`). The set of a bucket has
  five minutes beyond the last one added to it, and a minute is shorter, so it is
  there when the cleanup comes. `Punctual` asks for a cleanup at each
  minute, and for requests that set the last access: the security registry saves
  without, and leaves a session in the bucket of the old access while its shadow
  key counts from now.
* `TheIndexIsExact`: `Indexing => (Spec /\ []Alone => []IndexExact)`. Outside calls the index
  has an id under the principal of its hash while the shadow key is there or the
  message of its end is on its way, and the hash is there for the listener to read
  the principal from (`Settled`); inside, `HeldIndex` says which commands of the save
  or deletion have taken it out and put it back. No message may be on its way about
  a session that a request still holds (`Doomed`). `ExpiryIsTimely` is used in the
  step of the clock: a shadow key is at most a minute late, so its hash is there.
  `Indexing` asks for a listener that handles its messages before the clock moves,
  loses none and is there at all, as a lost message leaves an entry for ever; and
  for no interval set to zero, since the first save of such a session writes the
  index entry and no shadow key, and no event takes the entry out.

### The refinements

`SessionStoreProofs`: in `SessionStore` only settled sessions are stored, that is,
sessions no client is still to save for the first time, and a settled session that
is not stored stays so (`GoneSessionsStayGone`). The induction needs that a new
session is known to its creator only (`StoreInv`).

`RedisRefinementProofs` shows each command of `RedisSessions` to be a step of
`SessionStore` or a stutter (`RepositoryImplementsStore`, under `Undisturbed`), with
`IInv` for the HMSET of a session that was deleted or is not stored: its hash is
there and has a zero interval, or the save writes the whole of it; and for the
eviction of a hash, which comes only when its session is no longer live.
`JdbcProofs` does the same for the statements of `JdbcSessions`
(`TransactionsImplementStore`) under `NoneNegative`: no interval is negative, as
`cleanUpExpiredSessions` compares an expiry time that a negative interval puts
before the last access, and so deletes live sessions, which `Evict` may not. Both then
inherit `GoneStaysGone`. `GoneSessionsOfJdbcStayGone` says it of the store's values;
`GoneSessionsOfRedisStayGone` says it of `Found`: once a session is settled and
deleted, or its hash evicted, `findById` never returns it again. Neither speaks of a
session that has merely expired.

### JDBC

`TransactionsAreSound`: `Spec => []JdbcInv`, from `JdbcAssumption`. `JdbcInv` is
inductive: the expiry column agrees with the others and no attribute is without a
session (`RowInv`), the uncommitted rows of a session belong to one transaction
(`LockInv`), a session that is new is known to its thread only (`NewInv`), and at
each statement `tx` and the tables are what the flags of the copy and the
statements before have made them (`InsertInv`, `UpdateInv`). The last two are what
the commit needs to be one step of the store. `OwnerInv` is what a DELETE needs: the
ids in rows, copies and pending deletions are those generated for their sessions,
so that the DELETE by an id takes the session it was called for or none.

### Filter

All four from `FilterAssumption`, for any number of requests, sessions and aliases.

* `IdsStayGone`: `Spec => [](FilterInv /\ GoneStayGone)`. The invariant adds to
  `GoneStayGone` that no request has an id that is gone and that the steps of a
  commit have a session. `RequestKeeps` says what a step of one request may do
  without breaking it; the other lemmas show each action to be such a step.
* `ClientsAreTold`, `OtherAliasesAreKept`: `Spec => []ClientIsTold` and
  `Spec => []OtherAliasesKept`, from `CookieInv` (every cookie is one the filter has
  written) and `ToldInv`: nothing is told before the response is committed, and then
  what the browser sent, except for the alias of the request, which has the session
  of the moment.
* `CookiesAreGood`: `Spec => []CookieIsGood`. `CalmInv` says of a browser that waits
  for its responses what it knows at each point of its one request: the other
  sessions of the cookie are good and nobody holds them, and the one of the request
  is good unless it has been invalidated or is to be saved under a new id.

All of them rest on a lemma about the cookie: `getSessionIds` reads back from
`createSessionCookieValue(ids)` what `ids` is, for any aliases, with the lone
default alias written without its name. The tokens are a function of the position
(`Tokens`), so this needs no induction.

### WebSocket

`WebSocketProofs` proves `TypeOK`, `OnlyEndedAreClosed` and
`ClosedUnlessClientsLeft` from `RegistryAssumption` (null is neither an id nor a
map). Its invariant adds that every map holds connections of one session
(`MapsOfSession`), that only closed connections are in a disconnect handler
(`Closed`), that a session no client of which left keeps the map its connections
are in (`Kept`), and that the close loop has each connection it must close
before it (`DueKept`). `ForgetsClosed` has an invariant of its own, `ForgetInv`: a
map is registered once, the connections in a registered map have not left it, and
one of them, or of those on the way in or out, is going to look whether it is
empty (`HasKeeper`).

### Only model-checked

Every safety property and both refinements that a passing run checks are proved, the
properties of `redis_expiry`, `redis_change_id` and `redis_concurrent` under the
conditions above, which the constants of these runs meet. Left to TLC:

* `ExpiredLeavesIndex` (`redis_index_end`), a liveness property: the rules for
  fairness and `ENABLED` are out of the prover's reach. `IndexExact` is what can be
  said of it without fairness.
* The runs that expect a violation: a counterexample is a run.

## 5. Plan

1. Redis repository and expiration policy, WebSocket registry: done.
2. `SessionStore`, implemented by `RedisSessions` and `JdbcSessions`: done.
3. `JdbcSessions`: done. Left: a property on the ids of a session, which the code
   does not keep (a save of an old copy undoes `changeSessionId`).
4. `SessionFilter` and `CookieSessions`: done for one container and
   `MapSessionRepository`. Left: nested dispatches, the header strategy.
5. Proofs: all safety properties of the passing runs. Left: weaker conditions on
   time, so that requests of a session that do not overlap may last.
6. Not begun: the Hazelcast listeners, the reactive Redis repository with the
   WebFlux store, the security registry.

## 6. Not modelled

* Hazelcast: as a store it is `MapSessionRepository` with a changed flag and a time
  to live. Its events follow the entries of the map, so that an id change is
  announced as an end and a creation: a model of its own.
* The reactive repositories and the WebFlux store: `MapReactorSessionRepository`
  does the steps of `MapSessionRepository`; the reactive Redis repository keeps one
  hash per session, without events, and chains its commands in a reactive library
  whose scheduling is not in this repository.
* The security registry: a client of the store that loads a session without
  touching it, sets an attribute and saves it. `SessionStore` has such clients
  (`findById` without `touch`), and so has the run `jdbc`.
* `OncePerRequestFilter` (nested dispatches), `HeaderHttpSessionStrategy`, the
  counting of response bytes in `OnCommittedResponseWrapper`: `SessionFilter` lets
  the response be committed at any moment, after `commitSession`.
* Serialization, key names, cookie syntax and attributes, logging.
* Start-up configuration, the samples, the documentation and the demo projects
  beside `spring-session-master`. The JavaScript in the repository is the libraries
  of the demo pages (editors, calendars, charts); no part of Spring Session runs in it.
