# A TLA+ model of fedbot

fedbot (`src/federationbot`) is a maubot plugin that inspects Matrix federation
from a chat room: it discovers servers, asks many of them for events, keys and
versions, walks the history of rooms and repairs holes in it.  Everything runs
on one asyncio event loop, so a race of this program is a race between the code
before an `await` and what other coroutines did before it was resumed.  The
repository has no tests and no separate documentation: docstrings and comments
are what the findings quote.  A run shows four of them, the others are read off the
models (see Findings).

All actions of the modules are the code between two awaits.

## Inventory

| Component | State | Operations | Interacts with | Hard parts | What makes it correct |
|---|---|---|---|---|---|
| Reaction task controller, `controllers.py` | `tracked_reactions` (message to control entry: status, reactions of the bot), `tasks_sets` (key to tasks) | set up controls, set up a task set, add tasks, poll the status, cancel, shutdown, the reaction handler, removal of a message | every long command; the Matrix client | handlers, commands and shutdown change the same dictionaries across awaits | a running task can always be found and cancelled; cancel leaves nothing; Stop ends a command |
| Plugin life cycle, `commands/common.py` | the handlers and controllers | `start`, `pre_stop` | controller, federation handler | stops while commands run | shutdown comes to an end and clears every set |
| Fan-out over events, `federation.py` | a queue, worker tasks, the result mapping, the events cache, the room version cache | `get_events_from_server`, `get_event_from_server`, `find_event_on_servers` | controller (task set), api | workers that raise, `join()`, duplicates | each requested event has an answer when the call returns |
| Federation requests, `api.py`, `server_result.py` | the discovery cache of shared, mutable `ServerResult`s | `federation_request`, `_federation_request`, endpoint wrappers | discovery, the HTTP client | a result is marked unhealthy under other requests; 429 and retries | a ban does not outlast the last request by more than its time; results stay on their host |
| Caches, `cache.py` | LRU and TTL entries with time stamps | get, set, background cleanup | everything | expired entries that are still returned, use that prolongs | an entry is not served longer than it says (which no TTL cache keeps, see below) |
| Server discovery, `delegation.py` (legacy), `resolver/` (new) | caches of DNS, well-known and discovery results | the six steps of the Matrix specification, well-known redirects, DNS | requests | two implementations of one specification, error caching, redirect loops | both find what the six steps say |
| Outgoing requests, `requests/` | none between calls | a request raced over the addresses of a result, redirects, backoff | resolver | first completed wins, cancellations | one answer or one error, no task left |
| Room version, `federation.py` 540-606 | `room_version_cache` | `discover_room_version` | make_join, events | check, await, check again | a version once found is never lost |
| Signing keys, `federation.py` 69-181, `types.py`, `events.py` | `_server_keys_cache`, the verdicts of an `Event` | fetch by server or notary, merge key sets, verify | api, room walk | key ids that servers share, answers that replace cached keys, two verifications of one object | the verdict on a server is that of its own key |
| Room walk and repair, `__init__.py` 277-1075, `commands/room_walk.py`, `repairs.py` | fetch queue, error queue, working flags, sets of seen and failed events | fetcher, repair worker, retry workers, render loop | controller, fan-out | three kinds of worker hand events to each other; the end is a guess from idleness | every missing event is repaired or reported, and the walk ends |
| Multi-server commands, `__init__.py` 1741-4242 | a queue of servers, a mapping of results | delegation, versions, keys, notary, well-known, DNS, discovery | controller, api, resolver | as the fan-out, seven times, with differences | an answer for each server, no task left |
| Progress bar, `utils/bitmap_progress.py` | bit map, buckets | update, render | room walk | rounding at bucket boundaries | each bit counts in one bucket |
| Events, display, tracing, data classes | none | parsing, layout, time stamps | all | none for a model checker | - |

## Modules

| Module | Models | Source |
|---|---|---|
| `TaskController` | the controller, a status command or a room walk per message, the users, shutdown | `controllers.py`, `__init__.py` (loops), `commands/common.py` |
| `TaskController_proofs` | its theorems | |
| `Gather` | the promise of `get_events_from_server`: any order of answers, a complete mapping at return | docstring and code of `federation.py` 253-309 |
| `WorkerPool` | queue, workers, caches, room version and task set of `get_events_from_server`; refines `Gather` | `federation.py` 183-309, 540-606 |
| `WorkerPool_proofs` | its theorems, the refinement included | |
| `ServerHealth` | `federation_request`, its shared results and the LRU cache with its cleanup | `api.py`, `cache.py`, `server_result.py` |
| `ServerHealth_proofs` | its theorems | |
| `Delegation` | where a server name leads: the six steps as a reference, and what the newer and the older implementation make of them | `resolver/resolver.py`, `resolver/dns.py`, `delegation.py` |
| `Discovery` | callers that look up and ask one server: TTL caches, well-known redirects, the race over addresses | `resolver/resolver.py`, `requests/requests.py`, `cache.py` |
| `Discovery_proofs` | the theorems of `Discovery`, and that the newer implementation equals the reference | |
| `SigningKeys` | key cache, server, notary and the verdicts on events | `federation.py` 69-181, `types.py` 99-226 |
| `SigningKeys_proofs` | its theorems, and what merging key sets computes | |
| `RoomWalk` | fetcher, repair worker, retry workers, render loop; `repair_event_command` | `__init__.py` 277-1261 |
| `RoomWalk_proofs` | its theorems | |
| `Commands` | thirty commands as scripts of their steps | `__init__.py`, `commands/common.py` |
| `Commands_proofs` | its theorems, and what every script observes | |
| `MC...` | the instances TLC checks | |

`Discovery` extends `Delegation`; `WorkerPool` instantiates `Gather`.  The others
meet at their edges: `RoomWalk` reads the status that `TaskController` sets and
takes an answer of `WorkerPool` as one step (`Found`); `Commands` takes
`ServerHealth` and `Discovery` as a request that answers or fails.

Operators whose comment begins with "Mutant" are plausible bugs.  No
specification uses them; a property is only kept when replacing the definition
below by its mutant violates it.

### TaskController

`pc[m]` follows the command whose pinned message is `m`: `new`, `reacting`
(inside `ReactionControlEntry.setup`), `loop`, `lastRound`, `redacting` and
`cleanup` (inside `cancel`), `gathering` (inside `clear_all_tasks`), then `done`
or `failed` (an exception left the command).  `tracked`, `status` and
`collection` are `tracked_reactions` and the attributes of its entries;
`collection` is one set object that the iterations of `cancel()` and
`shutdown()` share, which is why clearing it in one makes the other raise.
`live` and `cancelled` are the tasks of `tasks_sets[m]`.  `sd` is the frame of
`shutdown()`: the entry it works on, the entries its iterator has passed, and
the size the dictionary had, since Python raises when the size has changed at
the next step of the iteration.  A walk's tasks are a first group (fetcher and
repair worker) and retry workers, which the repair worker adds while it runs;
a task may end at any time, of an exception too.

Abstracted: the order of a dictionary (any order), the kind of the reactions
(two sets of symbols), what the tasks do, the rendering.  One removal per
message is modelled; more of them change nothing.

### WorkerPool

`at[w]` is where a worker waits: for an id, for the server's answer, for the
room version.  Everything from an answer to the next `queue.get()` runs without
an await and is one action, `task_done` included.  The caches start with any
content.  A worker that needs the room version asks for it unless it is cached
(`AskRoomVersion`); when the answer is there it looks into the cache again and
stores only into an empty slot (`Stored`), since another worker may have stored
in between.  `Faults` chooses whether a worker may raise (no PDU in a 200, a PDU
without a room id, no room version) and whether the plugin may stop.

### ServerHealth

A `ServerResult` is an identity in `Results` with a record in `object`: the
cache and several requests may hold the same one.  An object nobody holds is
garbage and may be used for a new result.  A request samples `now` when it
begins (`began`), and its failure bans the result until `began + Ban`, exactly as
`now` is sampled before the awaits in the code.  The check of the mark and the
request on the wire are two steps: a request that passed the check is `ready`
while it sleeps for the stagger or waits for the connection of its endpoint, and
`Send` checks nothing.  `access` is the access time of each cache entry, which a
lookup refreshes too (`Looked`), also that of a request that is then `Blocked`.
The names are cache keys: a result for `host:port` is stored under `host`.
`asked` is a history variable.  `Discovered` abstracts the whole discovery,
`Raises` the exceptions that leave `federation_request`.  The cleanup task is one
action per iteration.

### Delegation and Discovery

A `world` is what DNS (addresses of both families, aliases, SRV records, errors)
and the well-known endpoints answer.  `Reference` is the list of steps that the
comment of `handle_delegation` gives, its last resort for a delegated name without
CNAME included; `ModernStepTwo` to `ModernUndelegated` and `LegacyDelegation` are
the two implementations, as operators over the same world, so that their
differences are differences of results.  The reference works with the name as it
is written, the implementations with what `Split` makes of it: a name in brackets
(`Bracketed`) is torn at its first colon.

`Discovery` runs the newer one as it suspends: `call[c].pc` is the await a caller
stands at, `running[c]` and `done[c]` its address tasks.  `RaceOver` is the code
after `asyncio.wait`: the first task decides, the others are cancelled.
`discovered` and `delegations` are the slots of the two `TTLCache`s for the one
name all callers ask; an expired slot is popped and still served (`Kept`).
Address lookups end after their lifetime and are part of the step that makes them.
The SRV query has no timeout and runs on the event loop: `QueryLost` sets
`blocked`, and no other step is taken after it.  `Stuck` is a race in which no
task ever ends, since no limit is set to the whole of a request.

`FollowsTheSteps` compares the newer implementation with the reference.  The four
places where they differ have names, and the property says what happens there
instead: a name that is `TornApart` or `Unresolvable` ends in an error where the
steps find an address, an alias is followed where they do not (`BehindAlias`,
`Expected`), and a lookup that is needed and `TimesOut` raises, which nothing else
does.

### SigningKeys

A key is a value, a key set maps ids to keys with times.  `Update` and `Merged`
translate how `ServerVerifyKeys` is extended by the notary's list, the latter as
a function over the list's prefixes; `Names` is whether keys name the one of a
signature.  The loop over
an event's signatures is only interrupted at a key that is not cached, so
`Proceed` judges everything up to that one in one step; `ServerAnswers` and
`NotaryAnswers` are the two awaits.  `verdict[e]` belongs to the `Event` object,
which the events cache gives to several commands.  Cryptography is the comparison
of the key a signature was made with; redaction and encoding are the library's.
Keys that cannot be used (a wrong length, an unknown algorithm) are in no world:
they raise in `decode_verify_key_bytes`, when they are already in the cache.

### RoomWalk

`fetchQueue` and `errorQueue` are the two queues, `okList`, `errorList`,
`resolvedList` and `attempted` the sets of the walk, `working` the names with
`bot_working` set.  `Fetcher`, `Repair` and `Retry(e)` are the coroutines, each
with its locals and the await it stands at; `Render` is one round of the render
loop, which ends the walk after enough rounds without work.  The destination
digests what it was sent before it returns it (`DestinationDigests`).  `overdue`
is the event loop: a task that was created starts before the next round, which
sleeps.  The search for a missing event and its ancestors is `Follow`, one event
of the list to try after the other, for the walk and the command alike; what is
not among `Events` is no event of the room (`IsRoom`).

The fetcher parses an event in three steps: it marks it (`FetcherTakes`), awaits
its prev events (`FetcherParsesPrev`), awaits its auth events and reports and
queues those of both (`FetcherParsesAuth`).  `fetcher.at` is the event at hand.
`WorkerStuck` is an exception in, or no return from, an await of the fetcher, the
repair worker or a retry worker: `bot_working` stays set, and what the worker had
in its hands is lost, which `NothingLost` limits to just that.  In mode "command"
the same state carries `repair_event_command`, which searches and sends by itself and may
send an event twice to have it before all that need it.

### Commands

`Script` gives each command as the sequence of its steps; `at` is the step it
stands at.  A step is a call, a message, a request, a pool or its join, a table
page, a control.  The differences between the nine pools are the parameters of
`Worker`: whether there is one task per server, whether an exception is
swallowed, whether the server is crossed off a list.  A request that
`get_events_from_server` makes for many events may leave its command waiting in
`join()` for ever (`WaitForEver`), as `WorkerPool` shows.  `user` (command, argument,
key) is chosen once; every client call and request may raise, `StopPlugin` is
`shutdown()`.

## Runs

| Run | Shows |
|---|---|
| `controller_safety` | a status command and a walk with a late retry worker, users, client faults anywhere, shutdown: `RunningTasksAreRegistered`, `GatherMissesNoTask`, `CancelLeavesNothing`, `ShutdownClearsEverySet` |
| `controller_liveness` | one walk under fairness: `StopEndsCommand`, `ShutdownEnds` |
| `controller_orphans` | violated `NoOrphans`: finding |
| `pool` | four requests for three events, one event twice, three workers: the pool's invariants, `VersionIsKept`, `PoolDrains`, and the refinement of `Gather` |
| `health` | two requests sharing results over a host, the same host with a port and its delegate: `BanFollowsLastAsking`, `RequestsStayOnTheirHost` |
| `health_ported` | violated `RequestsUseTheirOwnResult`: finding |
| `discovery` | two callers and one name in every world of two hosts: `FollowsTheSteps`, `RaceLeavesNothing`, `LookupEnds` |
| `discovery_legacy` | violated `LegacyFollowsTheSteps`: finding |
| `signing` | two coroutines, two events, two servers with a common key id, every cache and a failing answer: `VerdictsAreRight`, `NotaryKeepsTheLatest` |
| `signing_send` | violated `OnlyVerifiedEventsAreSent`: finding |
| `room_walk` | a diamond, a line and an auth chain with several sets of missing events, a failing request, a worker or retry task that never comes back, two reactions, and the repair of one event: `NothingLost`, `EndMeansDone`, `CommandSendsOldestFirst`, `WalkEnds`, `CommandOver` |
| `commands` | each command with every argument, with and without a key, errors everywhere: `NoTaskOutlivesItsCommand`, `OnlyTheseLeaveTasks`, `TableIsComplete`, `MessagesCanBeCleared`, `NeverSilent`, `CommandEnds` |

Bounds.  *Controller*: the conflicts are between one command, one shutdown and
the users, or between two commands and the size check of one iteration; a third
command adds an entry of a kind that is there already.  One first worker and one
retry worker give the two kinds of task.  The safety properties are also proved
for any number.  *Pool*: one request more than workers and one duplicate make
a worker take a second id and find it in the cache.  *Health*: two requests are
enough for one to mark what the other holds; four objects are one more than the
two host keys and the other request can hold; `Ban = 1`, `Expire = 1` and
`MaxTime = 2` leave time for a ban to end, for an entry to expire and for a failure
to be noticed late (414,821 states; the theorems are for any durations).  *Discovery*: two hosts are
what a delegation and a circle of redirects need, each with every kind of
answer; three requests use a slot that was filled, expired and filled again;
two addresses make a race; a torn name, a lookup that times out, an alias and
a name without an address each occur at the name and, where it matters, at its
delegate (510,160 states).  *Signing*: two signatures of one server, the later one bad,
and one of the other server with the same key id; two callers overwrite each
other.  *Room walk*: four events are the smallest graph where an event is
reached twice and something needs it, and a line in which two events are missing
apart from each other; `RoundsToFinish = 1` for 5, `MaxTries = 2` for 10 and
`BatchSize = 2` for 50 keep the cases "once more" and "no more", and
`MaxFaults = 1`, `MaxStuck = 1`, `MaxPresses = 2` (a stop, a pause or both); 457,682
states.
*Commands*: two servers with pools of at most two workers, two pages, two
batches; the four retries are the code's.

Deadlock is not checked where the system really stops: when the command ended,
the call returned, all requests were placed or the plugin is down.

Fairness.  In `TaskController`, the steps of a command, of a removal and of a
running shutdown are weakly fair, since the event loop resumes whatever can go
on and a call to the homeserver ends; a cancelled task gets its CancelledError.
Nothing obliges a user to react, a walk to finish or the plugin to stop.  In
`WorkerPool`, the caller and each worker are weakly fair: requests have
timeouts, after which they count as errors.  A worker's exception is never
obliged to happen.  In `Discovery`, each caller and each address task, unless a
lost query blocks the event loop or a server never lets go of a connection
(`LookupEnds` excepts both); expiry is not.  In `RoomWalk`, every coroutine except a
stuck one, retry tasks included; `WalkEnds` assumes that none is stuck and that the
user does not leave the walk paused.  In `Commands`, the command and its workers; the plugin need not
stop.

## Findings

- `controller_orphans`: `cancel()` looks the entry up again after its
  redactions; a removal of the message in between makes it raise and leaves the
  tasks of the walk running.
- `health_ported`: discovery results are looked up by server name and stored by
  host, so a request to `host` uses the result of `host:port`.
- `discovery_legacy`: the missing port is the string "0", which is true, so the
  older discovery never gets past the step for explicit ports.
- `signing_send`: both repairs ask whether the dictionary of verdicts is true; it
  has an entry per signer, so events that could not be verified are sent.

The models show more that no run is spent on.  Against a comment of the code:

- The mark of a shared result is checked before the stagger's sleep and the wait for
  the one connection of an endpoint (api.py:121, 182, 57) and not again: a request
  goes out to a server that was found to have failed meanwhile, in which "there is
  no point" (api.py:309-310; `Send`).
- "Errors will be cached for 10 minutes" (api.py:341), but asking for a banned
  server is one more error, which begins its ten minutes anew although nothing was
  sent (api.py:342; `Blocked`).
- Step 3e of the steps resolves "with A or AAAA but not CNAME record"
  (delegation.py:741-743); resolver.py:257 follows aliases (`BehindAlias`).
- A literal IP is used with its port or 8448 (delegation.py:728-729), but a
  bracketed IPv6 name is split at its first colon (resolver/\_\_init\_\_.py:113) and
  never taken for a literal (`TornApart`).
- Without a well-known answer SRV records are checked (delegation.py:744), but a
  name without an address is given up before (resolver.py:148-149;
  `Unresolvable`).
- A request is to "retrieve the result, including errors" (requests.py:127), but when
  both address lookups time out, taking the first of no error texts raises
  IndexError (resolver.py:149, 261; `TimesOut`).
- "DNS timeout for a request default is 2 seconds" (dns.py:88), but the SRV query
  has none (dns.py:228) and blocks the event loop (`QueryLost`).
- "add new prev_events(but not auth_events) to Queue" (\_\_init\_\_.py:342-343, likewise
  572 and 588-589), but line 596 queues the auth events that were found
  (`FetcherParsesAuth`).

And where no comment says otherwise:

- `shutdown()` iterates over dictionaries that commands change across its
  awaits, and raises (`ShutdownFails`); the federation handler is not stopped.
- A worker that raises skips `task_done`; `get_events_from_server` then waits in
  `join()` until the plugin stops (`WorkerRaises`, excepted in `PoolDrains`), and so
  do the state and event commands.  The workers of the well-known, DNS and notary
  commands raise in the same way (all six are excepted in `CommandEnds`).
- A removed message's command cannot be stopped any more.
- A request that notices its failure late marks and caches its own old result over
  a newer healthy one (`Failed`), a success does not clear the mark (`Answered`),
  and a timeout is cached like any error, though api.py:339 says it should not
  count.
- A worker of the walk that dies between marking an event and its awaits keeps the
  ancestors of that event (`fetcher.at`), and any worker that never comes back, a
  retry worker too, keeps the walk running (`Crippled`).
- A room version of None that was stored once stays, and later answers are not
  cached (`Stored`).
- The well-known command asks no address, so it always fails, and its failure
  stays in the cache that requests read (`WellKnownCommand`).
- The repair worker of the walk sends the reversed breadth-first order, in which
  an event that is reached twice may come after one that needs it; the command
  does not have that (`CommandSendsOldestFirst`, which is why it is not stated of
  the walk).
- A retry worker that was created and has not begun is not waited for by the
  last round of the render loop, whose idle count only looks at queues and
  working flags: the walk ends before its event came back.  `EndMeansDone` speaks
  of the answers that did come back.
- An answer for one key id replaces all keys of its server in the cache, an empty
  answer too, and the bad signature of a server is forgotten when a later one of
  it is good.
- An error that is first in the race over the addresses beats an answer.

## Proofs

Checked by TLAPS for every value of the constants that satisfies the named
assumptions: `TaskControllerAssumption`, `WorkerPoolAssumption`,
`ServerHealthAssumption`, `DiscoveryAssumption`, `SigningKeysAssumption` with
`WorldsAssumption`, `RoomWalkAssumption` and `CommandsAssumption`.  They say that
bounds are numbers and that worlds, rooms and lists have the shape the code is
given; TLC evaluates each of them.  One says more: `WorldsAssumption` lets a
server and the notary name the same key for an id they both know, since with
two keys for one id no verdict is right or wrong.  Every safety invariant and
action property of a passing run is a theorem of the specification.

*TaskController.*  The inductive invariant adds to the properties what connects
shutdown's frame with the sets: a set that shutdown has passed has no running
task as long as it is registered (the first worker that would add one was
cancelled and ended), a set that exists belongs to a command that has started,
a gathering command's set is registered, and a redacting command has something
left.  From it follow `RunningTasksAreRegistered`, `GatherMissesNoTask`,
`CancelLeavesNothing`, and, as an action property, `ShutdownClearsEverySet`.

*WorkerPool.*  `UnfinishedIsOutstanding` needs the cardinality of the set of
busy workers, so each step has a lemma about how that set grows or shrinks by
one.  With it, `unfinished = 0` means an empty queue and no busy worker, hence
a complete mapping and idle workers; this gives `Return` of `Gather` and the
refinement.  `VersionIsKept` is an action property of its own: only the two steps
that store a version touch the slot, and they leave a full one alone.

*ServerHealth.*  The invariant says that no clock lies ahead of `now`, that a
cached object has its key as its host and was discovered for it, that a
request holds an object of its host, and that it began no later than its host was
last asked for.  `BanFollowsLastAsking` follows: whoever marks an object counts
from when it began itself.  A new object must be one that nobody
holds; a lemma says what survives the collection of the others.

*Discovery.*  `ModernFollowsTheSteps` is a lemma about constants: in every world
the newer implementation, as an operator, gives the result of the six steps
for every delegation to a name DNS knows, with the alias followed, unless a name is
torn apart or given up or a lookup times out; what happens then is
`ModernLeavesTheSteps`, so that every world is covered.  The Host header of a literal
without a port is excepted (`Agrees`).  The invariant then says what a lookup has
found out at each await (`LookupOK`), that a result a caller found itself is that
of the operator for the delegation it carries (`FreshOK`), what the two slots may
hold, and that a caller has address tasks only where it waits for them (`RaceOK`).

*SigningKeys.*  `Merged` is a recursive function over the prefixes of the
notary's list.  What it computes for a list of any length is proved through a
least counterexample: the prefixes at which the claim fails are a set of numbers,
and a set of numbers has a least member (`Least`, from the well-foundedness of
the order).  So `NotaryKeepsTheLatest` holds for every list.  For the verdicts the
invariant says that a cached key is one its server or the notary named, that a
caller waits at a signature of its event, that the server was asked before the
notary, and that once a caller is past the last signature of a server that can be
checked the verdict is that signature's, unless another caller was sent back to
an earlier one of the same event and still has to pass it (`LastJudged`).

*RoomWalk.*  `Reported` and `Searched` are what `NothingLost` says, at every await:
it holds in the steps between which a worker may die because the event at hand is
the only one whose ancestors nobody has.
`EndMeansDone` needs that whoever works says so (`Awake`), that an event handed to
the fetcher was found and stays cached, so that it is found again (`Handed`), that
the start event, which nobody found, was walked, is in the fetcher's hands, or
nothing else has happened yet (`Begun`), and that a repaired event which came back
is in the fetcher's queue, its hands, or done (`Returning`).
`CommandSendsOldestFirst` follows from `Behind`: in the list of events to send each
missing prev event that somebody has stands after the event that needs it, or is
still to be looked for; when the search is over the second case is gone, and the
reversed list sends it first.

*Commands.*  Thirty scripts share what the proof needs: tasks are created once and
for servers that no longer change, the table comes after a wait, a `Cancel`
follows each set-up with nothing in between that returns, what is kept has its
controls later, a signature has a key check before it (`WellMade`).  Each is a
fact about a constant, proved script by script (`ScriptsAreWellMade`).  The
invariant relates the position `at` with the state: the pool exists from the
`Spawn` on and splits the servers (`Pooled`), nobody has anything to do after the
wait (`Waited`), a registered task set has its `Cancel` ahead (`Registered`), and
so on.  The steps are grouped by what they may do to each part of the state
(`Quietly`, `Tells`, `Authorised`), so that each part of the invariant is
proved once per group and not once per action.

What stays with TLC: the liveness properties (`StopEndsCommand`, `ShutdownEnds`,
`PoolDrains`, `LookupEnds`, `WalkEnds`, `CommandOver`, `CommandEnds`), since the
prover has no rules for fairness, and the four runs that show a violation.

## Plan

All modules of the plan are written except the progress bar, and every safety
property that a run checks is proved.  What is worth adding:

1. That the *older* discovery agrees with the six steps wherever the name has an
   explicit port (`LegacyDelegation` against `Reference`), as a lemma about
   constants: without one it is known to differ.
2. An abstract promise of the room walk, as `Gather` is one of the pool: which
   events are reported at the end, with `RoomWalk` shown to implement it.
3. What a run of `repair_event_command` leaves missing, a safety property stronger
   than the order in which it sends.

## Not modelled

Event parsing, hashing and canonical JSON, display, formatting, tracing and the
data classes (no state a checker can explore); the progress bar (sequential, for
display only); the walk over the history of the client API
(`commands/room_walk.py`), whose two phases repeat one request until it answers;
the thread pool of the controller (no command uses it); the library's cache of
addresses; the TTL caches of SRV answers (dns.py:218, 263-266) and of the older
discovery (delegation.py:112, 143), which store an expired entry again when they
serve it once more, so that it may be served for ever, while the two caches of
`Discovery` are not refilled from themselves; `requests/backoff.py`; the task sets with a random key of
`get_events_from_server`, which a cancelled worker of a walk leaves registered
(federation.py 299-308 has no `finally`) and which `TaskController`, with one key
per message, does not have;
the HTTP, DNS and Matrix client libraries, which appear as the answers and errors
the code handles.
