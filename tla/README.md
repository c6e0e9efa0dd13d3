# pytbak: specifications, model checking and proofs

pytbak is a FastAPI service: a CRUD store of *contexts* over PostgreSQL, Redis
and a per-process dict, with debug endpoints, health probes, a dashboard and an
MCP mount.  This directory holds TLA+ models of the parts of it where the order
of events matters, the TLC configurations that check them, and theorems about
them that TLAPS checks.  Paths below are relative to the repository.

## 1. The system

| Component | State | Operations | Who interacts |
|---|---|---|---|
| Local cache, `app/services/cache.py` | one dict per process: value, deadline, last access | `get`, `set`, `delete`, `clear`, `len` | the context store; threads and coroutines of one process |
| Context store, `app/services/storage.py`, `redis_client.py`, `models/database.py` | table `contexts`, Redis keys `context:<id>`, a dict and the cache per process | `get_all`, `get`, `create`, `update`, `delete` | REST routes and MCP tools; processes share PostgreSQL and Redis |
| Counter, `GET /api/count` | Redis key `hits` | `INCR` under `redis_op_with_retry` | every client |
| Start-up, shutdown and health, `main.py`, `services/health.py`, `routers/mgmt.py` | whether each backend was reachable at start-up | lifespan, `/health`, `/ready` | Kubernetes probes, which restart the process |
| Login backoff, `app/auth.py`, `middleware/mcp_auth.py` | failures per client address | check, record, clear | thread-pool threads (REST) and the event loop (MCP) share it |
| CPU spike, `routers/debug.py` | child processes and the list of active ones | start, clean up | requests; a background task for each; the event loop they all share |
| Network diagnostics, `routers/debug.py` | subprocesses of a request, its report | scan, ping, lookup, curl, TCP check, the SSRF guard | the same event loop; programs of the operating system |
| Request pipeline, `middleware/error_injection.py`, `mcp/tools.py` | none | inject, delay, pass on; turn exceptions into results | every request |
| Dashboard, `static/js/realtime.js`, `routers/home.py` | what the page shows | poll every 5 s | `/api/status` of a process that starts, stops and loses backends |
| CI scripts, `gh-workflow-nofw/` | comments of an issue | find, update or create the marker comment | concurrent workflow runs |
| Deployment files, generated CI workflows | none of their own | — | parameters of the models |

What is hard: requests are coroutines that interleave at every `await`, and a
value read before one is used after it; every backend call can fail on its own,
with or without having taken effect; several processes keep caches of shared
rows; a restarted process loses its dict and may find other backends.  The
`hazards` of `PROJECT.json` list the places, each with the properties that cover it.

## 2. Modules

| Module | Models | Extends / instances |
|---|---|---|
| `LossyCache` | abstract: a map that may forget, and never makes anything up | |
| `TTLCache` | `cache.py` | instances `LossyCache` as its abstract view |
| `Storage` | `storage.py` with `redis_op_with_retry`, start-up and restart, any number of processes and requests | uses its caches as `LossyCache` allows |
| `ContextStore` | abstract: an atomic map behind `/api/contexts` | |
| `StorageAtomic` | the refinement mapping from `Storage` to `ContextStore` | extends `Storage` |
| `RedisCounter` | `GET /api/count`: `INCR` sent again by `redis_op_with_retry` | |
| `Lifecycle` | start-up beside other processes, health answer, probes and restarts of one process | |
| `Dashboard` | the page's polls over the life of the process that answers them | extends `Lifecycle` |
| `LoginBackoff` | `auth.py` under the logins of several threads | |
| `RequestPipeline` | the injection middleware, and the event loop that one request holds at a time | |
| `CpuSpike` | `POST /api/debug/cpu/spike` and its clean-up | extends `RequestPipeline` |
| `NetworkTools` | the network diagnostics | extends `RequestPipeline` |
| `DebugTools` | spikes and diagnoses on one event loop, and time | extends `CpuSpike`, `NetworkTools` |
| `TTLCacheProofs`, `StorageProofs`, `StorageDurability`, `StorageAtomicity`, `RedisCounterProofs`, `LifecycleProofs` (with the dashboard), `LoginBackoffProofs`, `DebugToolsProofs` | theorems | extend the above and `TLAPS` |
| `MCTTLCache`, `MCStorage`, `MCRedisCounter`, `MCLifecycle`, `MCLoginBackoff`, `MCDebugTools`, `MCDashboard` | instances for TLC | |

### TTLCache

`store` is `_store`; `now` is `time.monotonic()`.  Each method takes `_lock`
around all it does, so each is one action; `get` is `Hit` or `Miss`.  A method
reads the clock once or twice; the model gives it one instant.  `Evictions(k)`
is the set of evictions `set` may perform: none when there is room, what has
expired, and then one entry used longest ago.  Ties in `last_access`, which the
dict's insertion order breaks, are a choice.  A `ttl` of 0 is `None`
(`ttl or self._ttl`).  `due` and `lastUse` are history: what callers put and
have not taken back, and when a key was used last.

### Storage

One action is what a coroutine does between two suspensions.  A backend call is
an action of its own (`PgRead`, `PgWrite`, `RdWrite`, ...), at which the backend
answers or takes effect; the coroutine goes on at `Resume`, `Finish` or the next
call.  A `get` is split after the backend's answer (`got`), since its refill of
the cache happens later than the read; after a write nothing happens between the
reply and the next call but the check of `is_available()`, so these are one.

* `Read` is `StorageService.get` up to its first suspension; `Proceed` is what
  follows once the context is there: answering, or the cache update and the
  first write of `update` and `delete`, which call `self.get`.
* `PgSelect`/`PgWrite` are the two statements of `merge()` and of
  `session.get` + `session.delete`.  `Merged` is what the second leaves:
  SQLAlchemy updates only the columns that differ from the row it selected, an
  insert of a row that exists and an update of one that is gone raise, and a
  null title violates `nullable=False`.
* `...Fails` is the same call raising.  A Redis write that fails may have taken
  effect; the retry counts in `tries`.  A PostgreSQL commit whose reply is lost
  goes on as a success does, and is `PgWrite`.
* `Restart` kills a process with its requests, its cache and its dict.
  `Connected` is what the lifespan can find at start-up: a configured backend
  that does not answer is never tried again.
* `seen` is history, what clients know of an id: `new` (creation under way),
  `live` (acknowledged), `dying` (a deletion was requested), `dead` (confirmed).

Left out: `description` (a second field that behaves as `title`), timestamps
(written, never read), logging.  The cache is the map of `LossyCache`: its entries
may go at any time, which is sound for every capacity and ttl because
`TTLCache` is proved to implement it.  Ids are `uuid4`: a client names only ids
some response or listing could have shown it (`Known`).  A request whose client
goes away is not modelled; nor is a commit of a killed process that reaches
PostgreSQL after the restart.

### ContextStore

Every request takes effect at one instant between arrival and response.
A `Crash` takes the requests under way and none of the contexts; `Crashes` says
whether there may be one.  `StorageAtomic` maps the store to the first backend in
the read path, lets a request take effect when that backend is written (a listing
when it is read), and maps `Restart` to `Crash`.  This holds for one process and
clients that do not overlap two requests for one context, in two settings: no call
fails and nobody restarts (`Alone`, any set of backends), or PostgreSQL is there and
does not fail (`Sturdy`), while Redis fails as it likes and the process dies
at any suspension.  The violation runs show what the other conditions are for.

### RedisCounter

`Incr` is an attempt that Redis carries out and answers; `IncrFails` one that
fails, whether Redis carried it out or not, after which the retry loop sends it
again until `redis_retry_attempts` is reached.  `Ask` covers a process without
Redis, which answers `None` at once.  An attempt is one step: the
answer's way back changes nothing, since the number is fixed when Redis executes
the command, and `Reply` comes any time later.  `above` and `given` are history:
what clients had been given before a request began, and so far.

### Lifecycle

One process and the kubelet that probes it, while each backend goes `down`
(refuses), falls silent (`hung`) and recovers as it likes.  `Connect`, `LookForTable`,
`CreateTable` and `InitRedis` are the awaits of the lifespan; `have` is what they
found, which is `_session_factory` and `_available` for the rest of the process's
life.  `Connect` is the first use of the lazy engine, `LookForTable` the first
statements on the connection (what server it is, which tables are missing), and the
missing table is created by a statement of its own; `SiblingCreates` is another
process that gets in between (or before), and the `CREATE TABLE` that fails then is
taken by `init_db` for a missing database.  `Connect` is enabled while PostgreSQL is
silent, for asyncpg gives up connecting after 60 s, before the startup probe does
(20 periods of 5 s).  `LookForTable` and `CreateTable` are not, as statements on
an open connection have no timeout, and nor is `InitRedis` while Redis is silent (no
command timeout): there `StartupKill` is the startup probe losing patience.  `Starts`
excepts a backend that stays silent at one of these awaits.  A liveness probe is `Probe`, a `Check` per backend,
`Answer`, or `Timeout` when a check hangs.  `initialDelaySeconds` and the periods
are not timed: the kubelet may probe at any time, which includes its schedule.
The readiness probe asks `/ready`, which always says yes and changes nothing.
`upAll`, `downAll`, `steady`, `silent` and `tripped` are history: what the
backends did while a probe, a row of failed probes, or the start-up lasted.

### Dashboard

`Poll` is the timer of `realtime.js`, which fires whether or not earlier polls were
answered; `CheckInfra` are the two awaits of `_get_infra_status`, `Show` is the
code after the fetch, `Lose` the `null` that `fetchJSON` makes of any failure.  The
page comes with an answer of the same kind, and stands for a first poll.  The
process lives as in `Lifecycle`, but may be restarted at any time; an answer that
is on its way survives that.  Polls are slots, so that there is a bound on those
under way and none on their number.

### RequestPipeline, CpuSpike, NetworkTools, DebugTools

`gate[r]` is where the middleware has a request; `Sleeps` is what becomes of
`delay_ms`.  `loop` is the request that holds the event loop: between its awaits a
coroutine runs alone, so an action of another is only enabled while the loop is
`Free`.  Most stretches between two awaits take no time and are one action.  Three
do take time, because they call something that blocks: `join` in the clean-up
of a spike, `getaddrinfo` in the SSRF guard, and `connect` (with the lookup it
begins with) in the TCP check.  These hold the loop over several actions, during
which time passes, children and subprocesses end, and nothing else happens.

* `StartSpike` forks up to `Cores` children and leaves the clean-up task asleep
  for the duration and `Grace`.  `StartFails` is `start()` raising: the children
  before it run and are listed, and there is no task for them.
* Each child has a clock of its own, which it reads only when it gets to its loop
  (`Begins`), any time after its start: `lag` is how late that is, `burn` what it has
  left to burn from then on.  The task's sleep (`timer`) runs from the start of
  the children.  A child later than `Grace` is told to end with time left to burn:
  `NothingCutShort` bounds what it loses by what it was late beyond that.
* The task goes through its children: `Close` when one is over, else `Terminate`
  and `join`; `Kill` when the join gave up.  `kill()` is followed at once by
  `close()`, which raises for a child that is not reaped yet (`Raise`) or
  does not (`Exit`, then `Close`): which of them is the operating system's affair.
* `Exit` is a child that ends, for any reason and at any time: nothing is assumed
  of it, not even that it obeys (a child forked by uvicorn inherits a handler
  for SIGTERM that does not end it).
* `Ask` covers the scan, with or without a port, and the single requests, with the
  guard on and off; `Begin` starts one check, `After` is their order in a scan.
  `ToolFails` is a program that is missing or a `wait_for` that ran out, even if the
  subprocess has ended by now; the subprocess is left to itself.
* `LookupEnds` is a lookup that answers or raises `gaierror`, which the scan reports
  as an error and goes on.  `LookupRaises` is one that raises anything else
  (`debug.py:115` catches nothing else): the exception is the middleware's, the
  request is `broken` (a 500), without traceroute or report.
* `CurlEnds` may never come: the `timeout=5` of httpx is one for each operation, so a
  server that sends its answer in pieces keeps the request open.

`timer` is the time left to whatever a request waits for, and `held` how long the loop
has been held; like `burn` and `lag` they are in ticks.  Left out: what the
tools print, the response size limits, the header and body echo, `random-error`.

### LoginBackoff

The failures of one address (addresses share nothing).  `verify_credentials` is
a plain function, so it runs in the thread pool; `/api/mcp` calls the same
functions on the event loop; nothing locks the dict.  CPython can switch
threads at calls and loop iterations, and an action is what a thread does in
between.  `_cleanup_old` reads the clock in the step before, then is `Fetch` (the
list its comprehension goes over) and `Assign` (the copy, put in its place, or
removed when empty): a list iterator sees what is appended until it ends, and
nothing comes between that and the assignment.  `check_rate_limit` goes on with `Look`, `Measure`, `Reckon` (the
length again, which may have grown), `Decide`; `record_failure` with `Grab`,
`AppendTime`, `Count`.

Lists are objects: a thread may hold one that the tracker has replaced, and
append to it in vain.  A failure is its number in the order of recording, `at`
its time, and since lists are only appended to and filtered, a list is the
set of its failures.  `Leave` empties the objects nobody refers to, so
`Cardinality(Threads) + 2` of them are always enough (`FreshIsFree`).

Overlapping logins do lose failures, and put back ones that a success has just
cleared.  What holds regardless is that a denial is earned by failures that were
made, enough and recent, and that it ends; for one login at a time the
answer is exact.  Left out: the seconds in `Retry-After`, and the parsing of headers.

## 3. What is checked

| Run | Question | Bounds |
|---|---|---|
| `cache` | size bound, least-recently-used eviction, no deadline moved, nothing stale answered, implements `LossyCache` | 3 keys, 2 values, size 2, 4 instants: fills, evictions of both kinds, expiry and re-use all occur |
| `atomic` | does the service behave as an atomic map, does a deleted context stay gone, and do backends agree when it is quiet | 1 process, 2 requests, 2 contexts, 2 titles; every set of backends |
| `durable` | is an acknowledged context ever denied | 2 processes, 2 requests, 1 context, Redis faulty, 1 restart |
| `faults` | does any failure reach a client, does every request end | 2 requests, 1 context, all calls may fail, 2 attempts, every set of backends |
| `caches` | do caches catch up with PostgreSQL, and drop what was deleted | 2 processes, 2 requests, 1 context |
| `counter` | are numbers unique, is the overcount bounded, is every request answered | 2 requests at once, 4 in all, 3 attempts |
| `life` | does a process start, and with all that was there, is it restarted when and only when it should, are health answers about the present | 2 backends, failure threshold 3 (the default of Kubernetes) |
| `backoff` | is every wait earned, is a login alone treated exactly, does whoever goes on trying get in | 2 logins at once, 2 mistakes with the threshold at 1, waits of 1 and 2, window 3, 5 instants |
| `tools` | how long is the loop held, is a spike cut short or left behind, is every report complete and true, does everything end | 1 spike of up to 2 children, 1 diagnosis of any kind, durations 1 and 2, every timeout 1 or 2 ticks, delays -1, 1 and 3 with the cap at 1 and the longest random one at 2 |
| `dashboard` | is an answer shown whole, does the page catch up | 2 polls under way, 2 backends, both ways to fail, any number of restarts |
| `refill`, `lost_update` | disagreements between the code and what it says, see section 5 | the smallest instance that shows each |

Two requests are enough for each interleaving of one suspended coroutine and
another that runs to its end, which every property here is about; the tasks come
back to idle, so behaviours have any number of requests in sequence.  One
context is enough where contexts do not interact (only listings and evictions
relate them; `atomic` has two contexts and `cache` three).  `MaxRestarts`, `MaxNow`
and `MaxAsked` are the only bounds on counters, with `Mistakes` and `LastMistake`
in `LoginBackoff`: two wrong logins reach the threshold, the doubled wait and
its cap, and an append to a list that was replaced; none comes after `LastMistake`,
so that the longest wait is over before the clock stops at `MaxNow`.

In `tools` a request is made once.  One spike and one diagnosis are enough for the
clean-up and a check to hold the loop in turn and to come due while the other
holds it; two children are enough for each pair of one that is over, one that obeys,
one that has to be killed and one that has yet to begin, in either order.  Two spikes or two diagnoses are out
of TLC's reach; the theorems are about any number of both.  In `dashboard` two
polls under way are what it takes for one answer to overtake another.

Deadlock is not checked for `Storage` and `RedisCounter`: they may stop when all
ids, or all requests, are used and no client asks for more; nor for `DebugTools`,
where each request is made once.

Fairness: `WF(Step(t))`: the event loop runs each coroutine that can run,
and each backend call is answered or fails in the end.  The second half is a
premise on the network, for `redis_client.py:25` sets a connect timeout and no
command timeout and `database.py` none at all.  `WF(Forget(p, i))`: an entry's
deadline passes and the next `get` deletes it; `TTLCache` proves that no read
moves a deadline (`NoResurrection`).  Nothing is assumed of clients.  In
`Lifecycle` the process runs, the kubelet goes on probing and restarts what is
due (that is what it is for); nothing is assumed of the backends, which is why
`Starts` speaks of backends that do not stay silent where they are awaited.  In `LoginBackoff`
threads run, time passes, and clients go on trying: the last is a premise of
`LetIn`, which is about them.  In `DebugTools` the loop runs what can run, time
passes, and lookups end (the resolver has its own timeout); neither children nor
subprocesses nor HTTP exchanges need end, nor need anybody ask, so `EverythingEnds`
excepts a request for a URL, and a clean-up that had to kill a child, which
`close()` may end.  In `Dashboard` only the page and the answering of its polls are fair; what
`PageCatchesUp` assumes is in its premise: in the end backends and process stay
as they are, none that the process uses is silent, and no more answers are lost.

## 4. What is proved

For every value of the constants, from the assumption each module names for its own:

* `TTLCacheProofs`: all six properties of the cache.  `CapacityBound` needs the
  finiteness of `Keys` and a lemma for each kind of eviction; `LruOnly` needs
  the strengthening that `last_access` equals `lastUse` for stored keys and that
  whoever was evicted has `MaxSize` later users.
* `StorageProofs`: `TypeOK`, and `NoErrorSurfaces` for clients that null no title
  (`TitlesKept`).  The invariant of the second is that every context anywhere, in
  a cache, a dict, a backend or the locals of a coroutine, has a title:
  what `merge()` leaves has one whichever of two writers each column is from.
  `RequestsRunOut` is the half of `Answered` that needs no fairness: a measure
  (`Left`: the suspensions and attempts a request still has before it) that every
  step of the request decreases, so that no fallback leads back, no retry starts
  over and a listing that goes through Redis finds no new keys.
* `StorageDurability`: `Spec => []AckedIsFound` when PostgreSQL is configured,
  answers at start-up and does not fail.  The inductive invariant says where an
  acknowledged context is: its row is in PostgreSQL as soon as its creation has
  passed `PgWrite`, so while it is `live` every request that began after that
  either has yet to read PostgreSQL or holds a found context.  Redis, the caches
  and the restarts do not matter to it: that is the argument for PostgreSQL
  being first in both paths.
* `StorageDurability` also has `Spec => ImplementsContextStore` in the second setting
  (`Sturdy`: the premise above, one process, no two requests at one context, no
  nulled title), listings and crashes included (`CrashesAreAtomic`).  Here rows are
  the contexts, and the invariant (`Steady`) relates to the row what a request holds
  and what the cache has, at each suspension; dict and Redis may be stale and do not
  matter.  A request that a crash interrupts before `PgWrite` did nothing, and one
  interrupted after it did everything: the crash takes a request, never a context.
  This setting has no run of its own; `Alone` is the one `atomic` checks.
* `DeletedStaysGone` and `PatchesOnlyPassed` (no commit of an update touches a field
  its body leaves out) hold in both settings.  The first is
  proved once for both, on the atomic map: `Buried` says that a dead context is not
  there and that no request under way brings it back, which every
  step of `ContextStore` preserves.  Section 5 shows what becomes of deletions and
  patches elsewhere: what the findings need is overlapping requests or a second process.
* `DeletedLeavesCaches` is the half of `DeletionReachesCaches` that needs no fairness,
  where PostgreSQL does not fail, for any number of processes and overlapping
  requests: after a confirmed deletion a cache is refilled only by a
  `get` that began before and resumes with the row it had read.  The invariant
  (`WInv`) says that the row of a deleted context is gone (nobody can
  delete what its creator has not yet written anywhere, `Nowhere`), and that a request
  which began after the confirmation resumes with nothing.  Entries expire and old
  requests run out; what follows from that under fairness is TLC's part.
* `StorageAtomicity`: `Spec => []BackendsAgree` and `Spec => ImplementsContextStore`,
  the refinement, for any number of requests and contexts.  The premises
  (`Alone`) are those of the `atomic` run and each is needed: one process, no
  restart, no failing call and no two requests at one context, besides no listing
  (a Redis listing fetches its keys one by one) and no nulled title.  The inductive
  invariant (`AInv`, first checked by TLC) says of a request at each of its
  suspensions what PostgreSQL, Redis, dict and cache hold of its context
  (`Fine`): the old behind the point it has reached, the new before it, and the
  old is what it decided on (`Intends`).  Every piece of coroutine is then shown
  to be no step of `ContextStore` or the instant at which the request takes effect
  (`Follows`): where it writes the first backend it has, or answers a read.
* `RedisCounterProofs`: `TypeOK`, `Unique` and `Bounded`.  The invariant of the second
  adds that every number given, or on its way to a client, is at most `hits`;
  that of the third gives each request in flight the attempts it has left, and
  counts them as a cardinality.
* `LifecycleProofs`: `TypeOK`, `NoNeedlessRestart`, `ChecksAreLive` and
  `UndisturbedIsUsed`, for every threshold and configuration.  The invariant relates the checks of the probe under way to
  the history: a check that says `DOWN` is of a backend that is not in `steady`,
  what is checked and not `NOT_CONFIGURED` is what the process has, and as soon
  as there is a failure on record all of that is excused (`Excused`).  For
  `UndisturbedIsUsed` it says at each phase which backends can be missing from
  `have` and why.
* `LoginBackoffProofs`: `TypeOK`, `DenialIsEarned` and `ExactAlone`, for any number of
  threads.
  The invariant adds that a thread past `Measure` holds a list with failures
  enough, which no other thread can take from it: the tracker's lists are replaced,
  never shortened.  `FreshIsFree` counts the list objects in use.  For `ExactAlone`
  the invariant (`Alone`) says that as long as logins have not overlapped one thread
  at most is at work, that the tracker has every failure since the last success
  but those too old to count, and that what the thread holds and counts is what the
  tracker has; `Held` that list objects nobody holds are empty.
* `DebugToolsProofs`: all six invariants of the `tools` run, for any number of
  spikes, diagnoses and children and for any timeouts.  `SpikeInv` says what the
  clean-up has done with each child before the one it is at, and relates each
  child's clock to the task's (what it has left to burn is within what the sleep
  has left, up to its own lag), so that a task that wakes finds the duration of
  every child over that was not late by more than the grace; `HoldInv` what the
  holder of the loop has spent of its allowance (`Spent`); `ToldInv` that at each
  check of a request those before it (`Rank`) are reported on.
* `LifecycleProofs` also has the dashboard's `PageTypeOK`, for any number of polls.

Only model-checked: liveness.  Fairness and `ENABLED` are out of the prover's reach;
of `Answered` and `DeletionReachesCaches` the parts above that need neither are proved.

## 5. Disagreements found

* `refill`: a `get` suspended while its context is deleted refills the cache with
  it (`storage.py:237`), and `update` then writes it back to the backends.
* `lost_update`: `update` writes back all fields (`storage.py:283`).  In TLC's trace two
  overlapping `PUT`s of one context, of `done` and of `title`, have both read it; the
  first commits and is answered with its `done`; the second then commits the `done`
  it had read, which its own body does not have (`NoUpdateLost`).

Seen while modelling, and not given a run of their own: writes are best-effort
while "not found" is trusted (`storage.py:261`, `:235`), so that a context PostgreSQL
failed to store is acknowledged and then denied (`AckedIsFound` fails when
`Faulty` has `"pg"`); a repeated `INCR` counts
one call up to `redis_retry_attempts` times (`Bounded`), where the docstring of the
`count` tool and `tests/integration/test_api.py:71` have it count once; `PUT
{"title": null}` makes every listing of the in-memory backend raise from then on
(`storage.py:75`); a backend that was away at start-up is `NOT_CONFIGURED` for
ever (`health.py:25`), and the process is `UP` without it, and so is the process that
lost the race for `CREATE TABLE`; a failed start of a spike, or a clean-up that
`close()` ends, leaves processes on `_active_cpu_procs` for good (`debug.py:186`,
`:167`); a lookup that fails otherwise than by `gaierror` makes a 500 of a whole scan
(`debug.py:115`), where every other failure of a check is a line of its report; a server
that answers slowly keeps `curl` open beyond its `timeout=5`; and with 16 of them the joins can hold the loop, and the liveness probe's
answers, for 80 s; `"Not Configured"` is none of the names that `_status_dot` and
`statusColor` know (it is shown gray, then red); the rate limiter is configured without the
middleware that would apply it (`main.py:126`); the `ping` tool passes its count
by without the check the route declares (`tools.py:168`); and Redis is never
disabled by leaving out `REDIS_URL` (`.env.example:27`), because
`effective_redis_url` falls back to `localhost` (`InitRedis`).

## 6. Plan, and what is not modelled

Left of the plan: `Storage` with the timed cache of `TTLCache`, to bound staleness in
seconds rather than to show that it ends.

Not modelled, and why:

* Settings: read once at start and never written; they are the constants here.
* Deployment files and generated CI workflows: declarative, or run by a hosted
  service; what they say of processes and probes is a parameter of `Lifecycle`.
* The marker comment script: a read and a write of a hosted service, whose
  race (`upsert-marker-comment.sh:54`) a model would only restate.
* Metrics, logging, compression, CORS: no later request reads what they keep.
* The fib, sleep, webdis, echo and `/info` routes: they compute or wait, and leave
  nothing behind.
* Clients that disconnect, the size of the thread pool that lookups share, and
  the end of children when the server exits, which is `multiprocessing`'s.
* In `Lifecycle`, a PostgreSQL that goes away between two awaits of the start-up and is
  back before the next statement is sent: the broken connection is then noticed only
  by the statement.
