------------------------------- MODULE Commands -------------------------------
(***************************************************************************)
(* The commands of __init__.py that end by themselves, one at a time.      *)
(*                                                                         *)
(* A command is a script: the sequence of its steps that await something,  *)
(* change shared state or may end it. Layout and wording are left out. The *)
(* actions of this module are what the steps do: the check for a signing   *)
(* key, get_room_data, messages, requests, a pool of workers over a queue  *)
(* or one task per server, the table, the cleanup controls.                *)
(*                                                                         *)
(* Every call to the homeserver and every request may raise, a user may    *)
(* name a server, a room or nothing, and the plugin may stop at any time.  *)
(***************************************************************************)
EXTENDS Naturals, FiniteSets, Sequences

CONSTANTS
    Servers,        \* servers in a room
    Itself,         \* what the user named, taken as a server name
    Limit,          \* workers of a pool: 400, or 100
    MaxPages,       \* bound on the messages a table takes
    MaxBatches,     \* bound on the batches of a public room directory
    MaxRetries      \* errors the directory survives: 4

ASSUME CommandsAssumption ==
    /\ Itself \notin Servers
    /\ {Limit, MaxPages} \subseteq Nat \ {0}
    /\ {MaxBatches, MaxRetries} \subseteq Nat

-----------------------------------------------------------------------------
(***************************************************************************)
(* The steps                                                               *)
(***************************************************************************)

\* The key is checked always, or only for a room ("room").
Key(when) == <<[op |-> "key", when |-> when]>>

\* get_room_data, with or without the hosts, always or only for a room.
Room(when, hosts, fallback) ==
    <<[op |-> "room", when |-> when, hosts |-> hosts, fallback |-> fallback]>>

\* resolve_room_id_or_alias and the members of the room, when it is a room.
Members == <<[op |-> "members"]>>

\* An argument that is refused, or one ("any") that may be.
Valid(refused) == <<[op |-> "valid", refused |-> refused]>>

\* What the user named is the only server when there is no list.
Targets == <<[op |-> "targets"]>>

\* More than one server ends the command.
OnlyOne == <<[op |-> "onlyOne"]>>

\* A message that gets a cleanup control later, one that does not.
Say == <<[op |-> "say", kept |-> TRUE]>>
Remark == <<[op |-> "say", kept |-> FALSE]>>

\* A call to the client that shows nothing.
Client == <<[op |-> "client"]>>

\* A federation request. What a failure does: it leaves the command ("raises"),
\* is told and ends it ("ends"), is shown in place of the answer ("shown"), or ends
\* a worker of get_events_from_server, whose join() then never returns ("waits").
Ask(signed, failure) == <<[op |-> "ask", signed |-> signed, failure |-> failure]>>

\* setup_task_set on its own; add_tasks, which is preceded by it in one go.
Setup == <<[op |-> "setup"]>>
Spawn(worker) == <<[op |-> "spawn", worker |-> worker]>>

\* queue.join(); get_task_results with and without return_exceptions; cancel().
Join == <<[op |-> "join"]>>
Results(patient) == <<[op |-> "results", patient |-> patient]>>
Cancel == <<[op |-> "cancel"]>>

\* The table in pages, at least one of them (TRUE) or perhaps none; a control on
\* each message that was kept.
Pages(some) == <<[op |-> "pages", some |-> some]>>
Controls == <<[op |-> "controls"]>>

\* The batches of a public room directory.
Batches == <<[op |-> "batches"]>>

\* The workers: one per server or a pool, whether an exception is swallowed,
\* whether the server leaves a set of servers to contact after its answer,
\* whether the request is signed.
Worker(each, swallows, notes, signed) ==
    [each |-> each, swallows |-> swallows, notes |-> notes, signed |-> signed]

-----------------------------------------------------------------------------
(***************************************************************************)
(* The scripts, in the order of __init__.py                                *)
(***************************************************************************)

TestCommand == Remark
FedCommand == <<>>
ColorCommand == Client \o Remark \o Remark
ContextCommand == Client \o Remark
AliasCommand == Valid("room") \o Ask(TRUE, "shown") \o Remark

RoomHosts ==
    Client \o Key("always") \o Room("always", TRUE, TRUE) \o Say \o Pages(TRUE) \o Controls

DemoBar == Say \o Say \o Client \o Controls

RoomVersion ==
    Client \o Key("always") \o Room("always", FALSE, FALSE) \o Say \o Controls

DiscoverEventId ==
    Client \o Key("always") \o Ask(TRUE, "ends") \o Ask(TRUE, "raises")
    \o Say \o Say \o Say \o Controls

HeadSingle ==
    Client \o Key("always") \o Room("always", FALSE, TRUE) \o Ask(TRUE, "shown")
    \o Pages(TRUE) \o Controls

\* One task per server. A MatrixError is an answer, anything else leaves the task.
HeadTask == Worker(TRUE, FALSE, FALSE, TRUE)

Head_ ==
    Client \o Key("always") \o Room("always", TRUE, TRUE) \o Remark
    \o Spawn(HeadTask) \o Results(FALSE) \o Cancel

\* Each page gets its control as soon as it is posted.
HeadTable == Pages(TRUE) \o Controls

\* Mutant: a failure leaves the worker.
DelegationWorkerRaises == Worker(FALSE, FALSE, FALSE, FALSE)

DelegationWorker == Worker(FALSE, TRUE, FALSE, FALSE)

Delegation == Client \o Members \o Say \o Spawn(DelegationWorker) \o Join \o Cancel

\* Mutant: the table is not cleaned up.
DelegationTableLeft == Pages(TRUE)

DelegationTable == Pages(TRUE) \o Controls

EventRaw == Client \o Key("always") \o Say \o Ask(TRUE, "shown") \o Say \o Controls

\* The event, its ancestors, the keys of its signatures.
EventPretty ==
    Client \o Key("always") \o Say \o Ask(TRUE, "shown") \o Ask(TRUE, "waits")
    \o Ask(FALSE, "raises") \o Say \o Controls

State ==
    Client \o Key("always") \o Room("always", FALSE, TRUE) \o Say \o Ask(TRUE, "raises")
    \o Say \o Ask(TRUE, "waits") \o Pages(TRUE) \o Controls

VersionWorker == Worker(FALSE, TRUE, FALSE, FALSE)

GetVersions == Spawn(VersionWorker) \o Join \o Cancel

Ping ==
    Client \o Key("room") \o Room("room", TRUE, FALSE) \o Targets \o Say \o GetVersions
    \o Pages(TRUE) \o Controls

Version ==
    Client \o Key("room") \o Room("room", TRUE, FALSE) \o Targets \o Say \o GetVersions
    \o Pages(TRUE) \o Controls

ServerKeysWorker == Worker(FALSE, TRUE, FALSE, FALSE)

\* The raw form of the command takes one server.
ServerKeys(raw) ==
    Client \o Key("room") \o Room("room", TRUE, FALSE) \o Targets
    \o (IF raw THEN OnlyOne ELSE <<>>) \o Say \o Spawn(ServerKeysWorker) \o Join \o Cancel

ServerKeysTable == Pages(TRUE) \o Controls

\* No handler at all: every exception leaves the worker.
NotaryWorker == Worker(FALSE, FALSE, FALSE, FALSE)

NotaryKeys(raw) ==
    Client \o Key("room") \o Room("room", TRUE, FALSE) \o Targets
    \o (IF raw THEN OnlyOne ELSE <<>>) \o Say \o Spawn(NotaryWorker) \o Join \o Cancel

NotaryKeysTable == Pages(TRUE) \o Controls

\* The limit may not be a number. The event is asked for when it was given.
Backfill ==
    Client \o Valid("any") \o Key("always") \o Room("always", FALSE, TRUE)
    \o Ask(TRUE, "raises") \o Say \o Ask(TRUE, "raises") \o Pages(FALSE) \o Controls

EventAuth ==
    Client \o Key("always") \o Ask(TRUE, "ends") \o Say \o Ask(TRUE, "ends")
    \o Pages(TRUE) \o Controls

UserDevices == Client \o Key("always") \o Say \o Ask(TRUE, "ends") \o Say \o Controls

\* find_event_on_servers: gather hands out the exceptions, the first is raised.
FindEventTask == Worker(TRUE, FALSE, FALSE, TRUE)

FindEvent ==
    Client \o Key("always") \o Room("always", TRUE, FALSE) \o Say
    \o Spawn(FindEventTask) \o Results(TRUE) \o Cancel \o Pages(TRUE) \o Controls

PublicRoomsRaw == Client \o Ask(TRUE, "shown") \o Remark
PublicRooms == Client \o Batches \o Pages(FALSE) \o Controls

\* Any exception is logged and raised again.
WellKnownWorker == Worker(FALSE, FALSE, TRUE, FALSE)

WellKnown == Client \o Members \o Say \o Spawn(WellKnownWorker) \o Join \o Cancel
WellKnownTable == Pages(TRUE) \o Controls

DnsWorker == Worker(FALSE, FALSE, TRUE, FALSE)

\* Mutant: the workers are cancelled after the table.
DnsCancelsLast ==
    Client \o Key("room") \o Room("room", TRUE, FALSE) \o Targets \o Say
    \o Spawn(DnsWorker) \o Join \o Pages(TRUE) \o Controls \o Cancel

Dns ==
    Client \o Key("room") \o Room("room", TRUE, FALSE) \o Targets \o Say
    \o Spawn(DnsWorker) \o Join \o Cancel \o Pages(TRUE) \o Controls

DiscoverWorker == Worker(FALSE, TRUE, TRUE, FALSE)

\* Mutant: the workers are left alone when the queue is done.
DiscoverUncancelled ==
    Client \o Key("room") \o Room("room", TRUE, FALSE) \o Targets \o Say
    \o Setup \o Client \o Spawn(DiscoverWorker) \o Join \o Client

\* The typing notice lies between setup_task_set and add_tasks.
Discover ==
    Client \o Key("room") \o Room("room", TRUE, FALSE) \o Targets \o Say
    \o Setup \o Client \o Spawn(DiscoverWorker) \o Join \o Cancel \o Client

DiscoverTable == Pages(TRUE) \o Controls

Script ==
    [test |-> TestCommand, fed |-> FedCommand, color |-> ColorCommand,
     context |-> ContextCommand, alias |-> AliasCommand, room_hosts |-> RoomHosts,
     demo_bar |-> DemoBar, room_version |-> RoomVersion,
     discover_event_id |-> DiscoverEventId, head_single |-> HeadSingle,
     head |-> Head_ \o HeadTable, delegation |-> Delegation \o DelegationTable,
     event_raw |-> EventRaw, event |-> EventPretty, state |-> State, ping |-> Ping,
     version |-> Version, server_keys |-> ServerKeys(FALSE) \o ServerKeysTable,
     server_keys_raw |-> ServerKeys(TRUE) \o ServerKeysTable,
     notary |-> NotaryKeys(FALSE) \o NotaryKeysTable,
     notary_raw |-> NotaryKeys(TRUE) \o NotaryKeysTable,
     backfill |-> Backfill, event_auth |-> EventAuth, user_devices |-> UserDevices,
     find_event |-> FindEvent, publicrooms_raw |-> PublicRoomsRaw,
     publicrooms |-> PublicRooms, wellknown |-> WellKnown \o WellKnownTable,
     dns |-> Dns, discover |-> Discover \o DiscoverTable]

\* What the argument parsers let through: a server, a room id, an alias, nothing.
OptionalRoom == {"room_hosts", "head_single", "head", "state", "backfill"}
NeedsRoom == {"alias", "room_version", "find_event"}
ServerOrRoom == {"delegation", "version", "server_keys", "server_keys_raw", "notary",
                 "notary_raw", "wellknown", "dns", "discover"}

Arguments(c) ==
    CASE c \in OptionalRoom -> {"none", "room", "alias"}
      [] c \in NeedsRoom -> {"room", "alias"}
      [] c \in ServerOrRoom -> {"server", "room", "alias"}
      [] c = "ping" -> {"none", "server", "room", "alias"}
      [] OTHER -> {"none"}

-----------------------------------------------------------------------------
VARIABLES
    command, argument, \* what the user sent
    hasKey,         \* the bot's server has a signing key in the configuration
    at,             \* the index of the step; phase: where in get_room_data
    phase,
    servers,        \* list_of_servers_to_check
    kept, loose,    \* messages in list_of_message_ids, and the others
    controls,       \* how many of the kept messages have their control
    queue,          \* the servers nobody took yet
    held,           \* the servers a worker or task asks
    dead,           \* taken by a worker that then died: task_done never came
    got, failed,    \* answers, and failures that were swallowed
    toContact,      \* servers_to_contact
    taskSet,        \* setup_task_set registered it, cancel() popped it
    workers,        \* "none", "running", or "cancelled" by cancel or shutdown
    batches, retries,
    outcome,        \* "running", "returned", "raised", "waiting" for ever;
    cause,          \* why it raised
    stopped         \* shutdown() has gone by

script == Script[command]
room == <<phase, servers>>
messages == <<kept, loose, controls>>
pool == <<queue, held, dead, got, failed, toContact>>
tasks == <<taskSet, workers>>
directory == <<batches, retries>>
end == <<outcome, cause>>
user == <<command, argument, hasKey>>
vars == <<user, at, room, messages, pool, tasks, directory, end, stopped>>

Init ==
    /\ command \in DOMAIN Script
    /\ argument \in Arguments(command)
    /\ hasKey \in BOOLEAN
    /\ at = 1 /\ phase = "start"
    /\ servers = {}
    /\ kept = 0 /\ loose = 0 /\ controls = 0
    /\ queue = {} /\ held = {} /\ dead = {} /\ got = {} /\ failed = {} /\ toContact = {}
    /\ taskSet = "none" /\ workers = "none"
    /\ batches = 0 /\ retries = 0
    /\ outcome = "running" /\ cause = "none"
    /\ stopped = FALSE

Running == outcome = "running" /\ at <= Len(script)
On(op) == Running /\ script[at].op = op
Here == script[at]
ARoom == argument \in {"room", "alias"} \/ (command = "ping" /\ argument = "none")

Advance == at' = at + 1 /\ UNCHANGED end

\* An early return, and an exception that nobody in the command catches.
Return == outcome' = "returned" /\ UNCHANGED <<at, cause>>
Raise(why) == outcome' = "raised" /\ cause' = why /\ UNCHANGED at

\* A join() nobody will end.
WaitForEver == outcome' = "waiting" /\ UNCHANGED <<at, cause>>

\* Without a key the request is not even sent.
Refusal == IF hasKey THEN "server" ELSE "noKey"

\* A step that is not for this argument.
Skipped == Here.when = "room" /\ ~ARoom

-----------------------------------------------------------------------------
(***************************************************************************)
(* Messages, the key, requests                                             *)
(***************************************************************************)

CommandReturns ==
    /\ outcome = "running"
    /\ at = Len(script) + 1
    /\ Return
    /\ UNCHANGED <<user, room, messages, pool, tasks, directory, stopped>>

Speak ==
    /\ On("say")
    /\ kept' = IF Here.kept THEN kept + 1 ELSE kept
    /\ loose' = IF Here.kept THEN loose ELSE loose + 1
    /\ Advance
    /\ UNCHANGED <<user, room, controls, pool, tasks, directory, stopped>>

CallClient ==
    /\ On("client")
    /\ Advance
    /\ UNCHANGED <<user, room, messages, pool, tasks, directory, stopped>>

\* The homeserver refuses a message, a reaction or a call.
ClientRaises ==
    /\ \E op \in {"say", "client", "pages", "controls"} : On(op)
    /\ Raise("client")
    /\ UNCHANGED <<user, room, messages, pool, tasks, directory, stopped>>

\* One argument of alias is refused always, the limit of backfill perhaps.
CheckArgument ==
    /\ On("valid")
    /\ \/ /\ argument # Here.refused
          /\ Advance
          /\ UNCHANGED loose
       \/ /\ Here.refused \in {argument, "any"}
          /\ loose' = loose + 1
          /\ Return
    /\ UNCHANGED <<user, room, kept, controls, pool, tasks, directory, stopped>>

CheckKey ==
    /\ On("key")
    /\ \/ /\ hasKey \/ Skipped
          /\ Advance
          /\ UNCHANGED loose
       \/ /\ ~hasKey /\ ~Skipped
          /\ loose' = loose + 1
          /\ Return
    /\ UNCHANGED <<user, room, kept, controls, pool, tasks, directory, stopped>>

\* A request without key ends in a KeyError, whatever the command does about
\* failures.
Request ==
    /\ On("ask")
    /\ \/ /\ ~Here.signed \/ hasKey
          /\ \/ Advance /\ UNCHANGED loose
             \/ /\ Here.failure = "ends"
                /\ loose' = loose + 1
                /\ Return
             \/ Raise("server") /\ UNCHANGED loose
             \/ Here.failure = "waits" /\ WaitForEver /\ UNCHANGED loose
       \/ /\ Here.signed /\ ~hasKey
          /\ Raise("noKey")
          /\ UNCHANGED loose
    /\ UNCHANGED <<user, room, kept, controls, pool, tasks, directory, stopped>>

-----------------------------------------------------------------------------
(***************************************************************************)
(* get_room_data                                                           *)
(***************************************************************************)

\* Mutant: the user hears nothing of it.
NoRoomUntold(told) ==
    /\ Return
    /\ UNCHANGED <<room, messages>>

\* It returned None after telling the user once or twice. Backfill goes on with
\* the event it was given, or asserts that it was given one.
NoRoom(told) ==
    /\ loose' = loose + told
    /\ IF command = "backfill"
       THEN phase' = "start" /\ (Advance \/ Raise("assertion"))
       ELSE Return /\ UNCHANGED phase
    /\ UNCHANGED <<servers, kept, controls>>

SkipRoom ==
    /\ On("room")
    /\ Skipped
    /\ Advance
    /\ UNCHANGED <<user, room, messages, pool, tasks, directory, stopped>>

\* The alias is resolved, or not: told, once more without the fallback, or an error
\* other than MUnknown. A missing argument is the room of the command.
ResolveRoom ==
    /\ On("room") /\ ~Skipped /\ phase = "start"
    /\ \/ /\ phase' = IF Here.hosts THEN "hosts" ELSE "last"
          /\ UNCHANGED <<at, servers, messages, end>>
       \/ argument = "alias" /\ NoRoom(IF Here.fallback THEN 1 ELSE 2)
       \/ argument = "alias" /\ Raise("client") /\ UNCHANGED <<room, messages>>
    /\ UNCHANGED <<user, pool, tasks, directory, stopped>>

\* get_current_hosts_in_room_client: the hosts, or MForbidden, which is told
\* twice, or another error.
HostsFromClient ==
    /\ On("room") /\ phase = "hosts"
    /\ \/ /\ servers' \in (SUBSET Servers) \ {{}}
          /\ phase' = "last"
          /\ UNCHANGED <<at, messages, end>>
       \/ /\ phase' = "join"
          /\ loose' = loose + 2
          /\ UNCHANGED <<at, servers, kept, controls, end>>
       \/ Raise("client") /\ UNCHANGED <<room, messages>>
    /\ UNCHANGED <<user, pool, tasks, directory, stopped>>

\* make_join, its newest prev event and the hosts in the state before it. The
\* version comes with the join.
HostsFromState ==
    /\ On("room") /\ phase = "join"
    /\ \/ /\ hasKey
          /\ servers' \in SUBSET Servers
          /\ phase' = "start"
          /\ Advance
          /\ UNCHANGED messages
       \/ hasKey /\ NoRoom(1)
       \/ Raise(Refusal) /\ UNCHANGED <<room, messages>>
    /\ UNCHANGED <<user, pool, tasks, directory, stopped>>

\* get_last_event_id_in_room from the bot's own server; a MatrixError is
\* told.
LastEvent ==
    /\ On("room") /\ phase = "last"
    /\ \/ /\ hasKey
          /\ phase' = "version"
          /\ UNCHANGED <<at, servers, messages, end>>
       \/ hasKey /\ NoRoom(1)
       \/ Raise(Refusal) /\ UNCHANGED <<room, messages>>
    /\ UNCHANGED <<user, pool, tasks, directory, stopped>>

\* From the client, or discover_room_version, which may raise.
VersionOfRoom ==
    /\ On("room") /\ phase = "version"
    /\ \/ phase' = "start" /\ Advance /\ UNCHANGED <<servers, messages>>
       \/ Raise("server") /\ UNCHANGED <<room, messages>>
    /\ UNCHANGED <<user, pool, tasks, directory, stopped>>

\* The two commands that ask the client for the members themselves.
AskMembers ==
    /\ On("members")
    /\ \/ /\ ~ARoom
          /\ servers' = {Itself}
          /\ Advance
          /\ UNCHANGED loose
       \/ /\ ARoom
          /\ servers' \in (SUBSET Servers) \ {{}}
          /\ Advance
          /\ UNCHANGED loose
       \/ /\ ARoom
          /\ loose' = loose + 1
          /\ Return
          /\ UNCHANGED servers
       \/ ARoom /\ Raise("client") /\ UNCHANGED <<servers, loose>>
    /\ UNCHANGED <<user, phase, kept, controls, pool, tasks, directory, stopped>>

TakeTargets ==
    /\ On("targets")
    /\ servers' = IF servers = {} THEN {Itself} ELSE servers
    /\ Advance
    /\ UNCHANGED <<user, phase, messages, pool, tasks, directory, stopped>>

RefuseMany ==
    /\ On("onlyOne")
    /\ \/ Cardinality(servers) <= 1 /\ Advance /\ UNCHANGED loose
       \/ Cardinality(servers) > 1 /\ Return /\ loose' = loose + 1
    /\ UNCHANGED <<user, room, kept, controls, pool, tasks, directory, stopped>>

-----------------------------------------------------------------------------
(***************************************************************************)
(* Workers and one-off tasks                                               *)
(***************************************************************************)

Worker_ == LET i == CHOOSE i \in DOMAIN script : script[i].op = "spawn" IN script[i].worker

SetUp ==
    /\ On("setup")
    /\ taskSet' = "registered"
    /\ Advance
    /\ UNCHANGED <<user, room, messages, pool, workers, directory, stopped>>

\* The queue is filled and the tasks are created without an await.
SpawnWorkers ==
    /\ On("spawn")
    /\ taskSet' = "registered"
    /\ workers' = "running"
    /\ toContact' = servers
    /\ queue' = IF Here.worker.each THEN {} ELSE servers
    /\ held' = IF Here.worker.each THEN servers ELSE {}
    /\ Advance
    /\ UNCHANGED <<user, room, messages, dead, got, failed, directory, stopped>>

WorkerTakes ==
    /\ workers = "running"
    /\ Cardinality(held \cup dead) < Limit
    /\ \E s \in queue :
        /\ queue' = queue \ {s}
        /\ held' = held \cup {s}
    /\ UNCHANGED <<user, at, room, messages, dead, got, failed, toContact, tasks, directory, end,
                   stopped>>

\* Mutant: the server is crossed off before its answer came.
CrossedOffEarly(s, answered) == toContact \ {s}

\* A server is crossed off when its answer is stored.
CrossedOff(s, answered) == IF answered /\ Worker_.notes THEN toContact \ {s} ELSE toContact

WorkerAnswered ==
    /\ workers = "running"
    /\ \E s \in held :
        /\ ~Worker_.signed \/ hasKey
        /\ got' = got \cup {s}
        /\ toContact' = CrossedOff(s, TRUE)
        /\ held' = held \ {s}
    /\ UNCHANGED <<user, at, room, messages, queue, dead, failed, tasks, directory, end, stopped>>

\* An exception: logged and task_done, or the end of the worker.
WorkerFails ==
    /\ workers = "running"
    /\ \E s \in held :
        /\ held' = held \ {s}
        /\ toContact' = CrossedOff(s, FALSE)
        /\ failed' = IF Worker_.swallows THEN failed \cup {s} ELSE failed
        /\ dead' = IF Worker_.swallows THEN dead ELSE dead \cup {s}
    /\ UNCHANGED <<user, at, room, messages, queue, got, tasks, directory, end, stopped>>

Joined ==
    /\ On("join")
    /\ queue \cup held \cup dead = {}
    /\ Advance
    /\ UNCHANGED <<user, room, messages, pool, tasks, directory, stopped>>

\* gather: without return_exceptions the first exception comes at once.
Gathered ==
    /\ On("results")
    /\ \/ held = {} /\ dead = {} /\ Advance
       \/ /\ dead # {}
          /\ Here.patient => held = {}
          /\ Raise(IF hasKey THEN "task" ELSE "noKey")
    /\ UNCHANGED <<user, room, messages, pool, tasks, directory, stopped>>

\* cancel(): the idle workers end, then the set is popped.
CancelTasks ==
    /\ On("cancel")
    /\ workers' = "cancelled"
    /\ taskSet' = "popped"
    /\ Advance
    /\ UNCHANGED <<user, room, messages, pool, directory, stopped>>

\* shutdown() cancels the tasks of the sets it finds; a one-off task that was
\* cancelled counts as an exception. The command itself goes on.
StopPlugin ==
    /\ ~stopped
    /\ stopped' = TRUE
    /\ IF workers = "running" /\ taskSet = "registered"
       THEN /\ workers' = "cancelled"
            /\ dead' = dead \cup held
            /\ held' = {}
       ELSE UNCHANGED <<workers, dead, held>>
    /\ UNCHANGED <<user, at, room, messages, queue, got, failed, toContact, taskSet, directory, end>>

-----------------------------------------------------------------------------
(***************************************************************************)
(* The table and the directory                                             *)
(***************************************************************************)

ShowPages ==
    /\ On("pages")
    /\ \E n \in (IF Here.some THEN 1 ELSE 0) .. MaxPages : kept' = kept + n
    /\ Advance
    /\ UNCHANGED <<user, room, loose, controls, pool, tasks, directory, stopped>>

AddControl ==
    /\ On("controls")
    /\ \/ /\ controls < kept
          /\ controls' = controls + 1
          /\ UNCHANGED <<at, end>>
       \/ /\ controls = kept
          /\ Advance
          /\ UNCHANGED controls
    /\ UNCHANGED <<user, room, kept, loose, pool, tasks, directory, stopped>>

\* A batch that names a next one, or the last.
NextBatch ==
    /\ On("batches")
    /\ hasKey
    /\ \/ /\ batches < MaxBatches
          /\ batches' = batches + 1
          /\ UNCHANGED <<at, end>>
       \/ Advance /\ UNCHANGED batches
    /\ UNCHANGED <<user, room, messages, pool, tasks, retries, stopped>>

\* Mutant: one retry more.
PatientOnceMore(n) == n <= MaxRetries

Patient(n) == n < MaxRetries

\* An error is retried after a while; the count is never taken back.
BatchFails ==
    /\ On("batches")
    /\ \/ /\ hasKey
          /\ Patient(retries)
          /\ retries' = retries + 1
          /\ UNCHANGED <<at, loose, end>>
       \/ /\ hasKey
          /\ ~Patient(retries)
          /\ loose' = loose + 1
          /\ Return
          /\ UNCHANGED retries
       \/ Raise(Refusal) /\ UNCHANGED <<retries, loose>>
    /\ UNCHANGED <<user, room, kept, controls, pool, tasks, batches, stopped>>

-----------------------------------------------------------------------------
CommandStep ==
    \/ CommandReturns \/ Speak \/ CallClient \/ ClientRaises \/ CheckArgument \/ CheckKey \/ Request
    \/ SkipRoom \/ ResolveRoom \/ HostsFromClient \/ HostsFromState \/ LastEvent
    \/ VersionOfRoom \/ AskMembers \/ TakeTargets \/ RefuseMany
    \/ SetUp \/ SpawnWorkers \/ Joined \/ Gathered \/ CancelTasks
    \/ ShowPages \/ AddControl \/ NextBatch \/ BatchFails

WorkerStep == WorkerTakes \/ WorkerAnswered \/ WorkerFails

Next == CommandStep \/ WorkerStep \/ StopPlugin

\* The event loop resumes what can go on, and requests end.
Spec == Init /\ [][Next]_vars /\ WF_vars(CommandStep) /\ WF_vars(WorkerStep)

-----------------------------------------------------------------------------
TypeOK ==
    /\ at \in 1 .. Len(script) + 1
    /\ phase \in {"start", "hosts", "join", "last", "version"}
    /\ servers \subseteq Servers \cup {Itself}
    /\ queue \cup held \cup dead \cup got \cup failed \cup toContact \subseteq servers
    /\ controls <= kept
    /\ retries <= MaxRetries /\ batches <= MaxBatches
    /\ taskSet \in {"none", "registered", "popped"}
    /\ workers \in {"none", "running", "cancelled"}
    /\ outcome \in {"running", "returned", "raised", "waiting"}
    /\ (outcome = "raised") = (cause # "none")

\* A command that returned has popped its task set and has no task running.
NoTaskOutlivesItsCommand ==
    outcome = "returned" => taskSet # "registered" /\ workers # "running"

\* An exception leaves tasks behind in three commands only: in head, where gather
\* raises before cancel() while the other servers are still being asked, in
\* discover, where the typing notice is awaited between setup and cancel(), and a
\* registered but finished set in find_event.
OnlyTheseLeaveTasks ==
    outcome = "raised" /\ taskSet = "registered" =>
        /\ command \in {"head", "find_event", "discover"}
        /\ command # "head" => held = {}

\* When the table is made every server has been asked: it is shown with its
\* answer, or its failure was swallowed; and where the table names the servers to
\* contact those are the failures, neither more nor less.
TableIsComplete ==
    On("pages") /\ workers # "none" =>
        /\ got \cup failed = servers
        /\ got \cap failed = {}
        /\ Worker_.notes => toContact = failed

\* Of a command that came to its last step, every message in its list has a
\* cleanup control; an early return leaves those that were posted before it.
MessagesCanBeCleared ==
    outcome = "returned" /\ at = Len(script) + 1 => controls = kept

\* Whatever happens the user hears something, or the command raised. Except for
\* "fed", which does nothing, and an empty directory, whose table has no page. And
\* a missing key is told and never raises, except in the commands that sign in
\* the name of the hosting server without a check.
NeverSilent ==
    /\ outcome = "returned" => kept + loose > 0 \/ command \in {"fed", "publicrooms"}
    /\ cause = "noKey" => command \in {"alias", "publicrooms", "publicrooms_raw"}

\* Every command comes to an end, unless the plugin stopped or a worker died. That
\* happens where the worker lets the exception go on: in four commands with workers
\* of their own, and in the two that get many events from one server.
CommandEnds ==
    outcome = "running" ~>
        \/ outcome \in {"returned", "raised"}
        \/ stopped
        \/ dead # {} /\ command \in {"wellknown", "dns", "notary", "notary_raw"}
        \/ outcome = "waiting" /\ command \in {"event", "state"}
=============================================================================
