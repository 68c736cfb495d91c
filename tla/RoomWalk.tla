------------------------------- MODULE RoomWalk -------------------------------
(***************************************************************************)
(* The repairing room walk (room_walk_2_command) and the single repair     *)
(* (repair_event_command).                                                 *)
(*                                                                         *)
(* The walk is four coroutines around two queues: the fetcher walks the    *)
(* room backwards on the destination server and reports the events that    *)
(* are missing there; the repair worker looks for those on other servers   *)
(* and sends them, ancestors first; a retry task per repaired event waits  *)
(* until the destination has it and hands it back to the fetcher; and the  *)
(* render loop ends the walk when nobody has had work for several rounds.  *)
(***************************************************************************)
EXTENDS Naturals, FiniteSets, Sequences, SequencesExt

CONSTANTS
    Events,
    Start,          \* the newest event of the room
    Rooms,          \* event graphs, what the destination lacks, who has copies
    RoundsToFinish, \* idle rounds the render loop tolerates: 5
    MaxTries,       \* checks of one retry task: 10
    BatchSize,      \* events per send: 50
    MaxFaults,      \* bound on requests that fail although the event is there
    MaxStuck,       \* bound on workers and retry tasks that never come back
    MaxPresses      \* bound on the user's reactions

IsRoom(r) ==
    /\ {"prev", "auth", "missing", "copies"} \subseteq DOMAIN r
    /\ r.prev \in [Events -> SUBSET Events]
    /\ r.auth \in [Events -> SUBSET Events]
    /\ r.missing \subseteq Events
    /\ r.copies \in [Events -> Nat]

ASSUME RoomWalkAssumption ==
    /\ IsFiniteSet(Events)
    /\ Start \in Events
    /\ {"fetcher", "repair"} \cap Events = {}
    /\ \A r \in Rooms : IsRoom(r)
    /\ RoundsToFinish \in Nat
    /\ {MaxTries, BatchSize} \subseteq Nat \ {0}
    /\ {MaxFaults, MaxStuck, MaxPresses} \subseteq Nat

VARIABLES
    room,           \* prev and auth events, missing events, usable copies
    mode,           \* "walk" or "command"
    target,         \* events the destination returns
    digesting,      \* events the destination accepted and does not return yet
    cached,         \* events of the destination in the bot's event cache
    fetchQueue,     \* roomwalk_fetch_queue
    errorQueue,     \* roomwalk_error_queue
    okList,         \* event_id_ok_list
    errorList,      \* event_id_error_list
    resolvedList,   \* event_id_resolved_error_list
    attempted,      \* event_id_attempted_once
    tried,          \* local_set_of_events_already_tried
    working,        \* the names whose bot_working is True; a retry task's name
                    \* is the event it waits for
    fetcher,        \* locals of _event_walking_fetcher
    repair,         \* locals of _room_repair_worker, or of repair_event_command
    retries,        \* per event: its _waiting_retry_worker
    status,         \* the control reaction in force
    walk,           \* the render loop; natural: ended for lack of work;
                    \* stopped: the stop reaction was ever pressed
    overdue,        \* retry tasks the event loop must start before a new round
    stuck, faults, presses

lists == <<okList, errorList, resolvedList, attempted>>
queues == <<fetchQueue, errorQueue>>
server == <<room, mode, target, digesting>>
limits == <<stuck, faults, presses>>
loop == <<status, walk, overdue>>
vars == <<server, cached, queues, lists, tried, working, fetcher, repair, retries,
          loop, limits>>

Ancestors(e) == room.prev[e] \cup room.auth[e]

\* The fetcher's batch (ids), the event at hand (at), its prev events that were
\* found (good), and what it goes on to (next_list_to_get).
IdleFetcher == [pc |-> "idle", ids |-> {}, retry |-> FALSE, at |-> {}, good |-> {}, next |-> {}]
IdleRepair == [pc |-> "idle", root |-> Start, toTry |-> <<>>, searching |-> {},
               toSend |-> <<>>, at |-> 0]

Init ==
    /\ room \in Rooms
    /\ mode \in {"walk", "command"}
    /\ target = Events \ room.missing
    /\ digesting = {}
    /\ cached = {}
    /\ fetchQueue = IF mode = "walk" THEN <<[retry |-> FALSE, ids |-> {Start}]>> ELSE <<>>
    /\ errorQueue = <<>>
    /\ okList = {} /\ errorList = {} /\ resolvedList = {} /\ attempted = {}
    /\ tried = {}
    /\ working = {}
    /\ fetcher = IdleFetcher
    /\ repair = IdleRepair
    /\ retries = [e \in Events |-> [pc |-> "none", tries |-> 0]]
    /\ status = "START"
    /\ walk = [pc |-> "running", idle |-> 0, natural |-> FALSE, stopped |-> FALSE]
    /\ overdue = {}
    /\ stuck = {} /\ faults = 0 /\ presses = 0

Walking == mode = "walk" /\ walk.pc = "running"

\* What get_events_from_server finds: cached events for sure, the others when
\* the destination has them and the request does not fail.
Found(ids, got) ==
    LET here == ids \cap (target \cup cached)
    IN  \/ /\ got = here
           /\ UNCHANGED faults
        \/ /\ faults < MaxFaults
           /\ \E e \in here \ cached : got = here \ {e}
           /\ faults' = faults + 1

\* A worker's loop checks the stop reaction only at its top.
NextRound == IF status = "STOP" THEN "gone" ELSE "idle"

-----------------------------------------------------------------------------
(***************************************************************************)
(* _event_walking_fetcher                                                  *)
(***************************************************************************)

\* Mutant: events handed back by a retry task are filtered like the others.
FilteredAlways(item) == item.ids \ attempted

\* A retry goes through although its event was attempted before.
Filtered(item) == IF item.retry THEN item.ids ELSE item.ids \ attempted

FetcherGets ==
    /\ Walking
    /\ fetcher.pc = "idle"
    /\ fetchQueue # <<>>
    /\ LET item == Head(fetchQueue)
           ids == Filtered(item)
       IN  /\ attempted' = attempted \cup ids
           /\ IF ids = {}
              THEN /\ fetcher' = [fetcher EXCEPT !.pc = NextRound]
                   /\ UNCHANGED working
              ELSE /\ fetcher' = [IdleFetcher EXCEPT !.pc = "pulling", !.ids = ids, !.retry = item.retry]
                   /\ working' = working \cup {"fetcher"}
    /\ fetchQueue' = Tail(fetchQueue)
    /\ UNCHANGED <<server, cached, errorQueue, okList, errorList, resolvedList, tried,
                   repair, retries, loop, limits>>

\* An event that is not there is passed over without a trace.
FetcherPulls ==
    /\ Walking
    /\ fetcher.pc = "pulling"
    /\ \E got \in SUBSET fetcher.ids :
        /\ Found(fetcher.ids, got)
        /\ cached' = cached \cup got
        /\ fetcher' = [fetcher EXCEPT !.pc = "parsing", !.ids = got]
    /\ UNCHANGED <<server, queues, lists, tried, working, repair, retries, loop, stuck, presses>>

\* An event of the batch is walked: it is marked before its ancestors are known.
FetcherTakes ==
    /\ Walking
    /\ fetcher.pc = "parsing"
    /\ \E e \in fetcher.ids :
        /\ okList' = okList \cup {e}
        /\ resolvedList' = resolvedList \cup (IF fetcher.retry THEN {e} ELSE {})
        /\ fetcher' = [fetcher EXCEPT !.pc = "prev", !.ids = @ \ {e}, !.at = {e}]
    /\ UNCHANGED <<server, cached, queues, errorList, attempted, tried, working, repair, retries,
                   loop, limits>>

\* _parse_ancestor_events on its prev events: nothing is reported yet.
FetcherParsesPrev ==
    /\ Walking
    /\ fetcher.pc = "prev"
    /\ \E e \in fetcher.at : \E good \in SUBSET room.prev[e] :
        /\ Found(room.prev[e], good)
        /\ cached' = cached \cup good
        /\ fetcher' = [fetcher EXCEPT !.pc = "auth", !.good = good]
    /\ UNCHANGED <<server, queues, lists, tried, working, repair, retries, loop, stuck, presses>>

\* Mutant: the list of an event replaces that of the events before it.
LastOnly(next, good) == good

\* next_list_to_get, extended by what was found.
Extended(next, good) == next \cup good

\* The same on its auth events; then those of both that were not found are reported,
\* once each, and those of both that were found lead the walk on. (Three comments say
\* that auth events do not: __init__.py:343 "(but not auth_events)", 572 and 588-589.)
FetcherParsesAuth ==
    /\ Walking
    /\ fetcher.pc = "auth"
    /\ \E e \in fetcher.at : \E good \in SUBSET room.auth[e] :
        /\ Found(room.auth[e], good)
        /\ cached' = cached \cup good
        /\ LET bad == ((room.prev[e] \ fetcher.good) \cup (room.auth[e] \ good)) \ errorList
           IN  /\ errorList' = errorList \cup bad
               /\ \E new \in SetToSeqs(bad) : errorQueue' = errorQueue \o new
        /\ fetcher' = [fetcher EXCEPT !.pc = "parsing", !.at = {}, !.good = {},
                                      !.next = Extended(@, fetcher.good \cup good)]
    /\ UNCHANGED <<server, fetchQueue, okList, resolvedList, attempted, tried, working, repair,
                   retries, loop, stuck, presses>>

\* Mutant: the worker forgets to say that it is done.
StillWorking(worker) == working

Done(worker) == working \ {worker}

FetcherFinishes ==
    /\ Walking
    /\ fetcher.pc = "parsing"
    /\ fetcher.ids = {}
    /\ fetchQueue' = IF fetcher.next = {} THEN fetchQueue
                     ELSE Append(fetchQueue, [retry |-> FALSE, ids |-> fetcher.next])
    /\ working' = Done("fetcher")
    /\ fetcher' = [IdleFetcher EXCEPT !.pc = NextRound]
    /\ UNCHANGED <<server, cached, errorQueue, lists, tried, repair, retries, loop, limits>>

-----------------------------------------------------------------------------
(***************************************************************************)
(* _room_repair_worker                                                     *)
(***************************************************************************)

RepairGets ==
    /\ Walking
    /\ repair.pc = "idle"
    /\ errorQueue # <<>>
    /\ errorQueue' = Tail(errorQueue)
    /\ repair' = [IdleRepair EXCEPT !.pc = "searching", !.root = Head(errorQueue),
                                    !.toTry = <<Head(errorQueue)>>]
    /\ working' = working \cup {"repair"}
    /\ UNCHANGED <<server, cached, fetchQueue, lists, tried, fetcher, retries, loop, limits>>

\* Every usable copy of e is kept, and its missing ancestors are looked for.
Follow(e, more) ==
    repair' = [repair EXCEPT !.toTry = Tail(@) \o more,
                             !.searching = @ \cup ToSet(more),
                             !.toSend = @ \o [i \in 1..room.copies[e] |-> e]]

\* One event of the local queue: ask the good hosts for it, and queue the
\* ancestors the destination lacks and nobody queued yet.
RepairSearches ==
    /\ Walking
    /\ repair.pc = "searching"
    /\ status # "STOP"
    /\ repair.toTry # <<>>
    /\ LET e == Head(repair.toTry)
       IN  IF e \in tried
           THEN /\ repair' = [repair EXCEPT !.toTry = Tail(@)]
                /\ UNCHANGED <<cached, tried, faults>>
           ELSE /\ tried' = tried \cup {e}
                /\ IF room.copies[e] = 0
                   THEN /\ repair' = [repair EXCEPT !.toTry = Tail(@)]
                        /\ UNCHANGED <<cached, faults>>
                   ELSE \E good \in SUBSET Ancestors(e) :
                        /\ Found(Ancestors(e), good)
                        /\ cached' = cached \cup good
                        /\ \E prevs \in SetToSeqs((room.prev[e] \ good) \ repair.searching),
                              auths \in SetToSeqs((room.auth[e] \ good)
                                                  \ (repair.searching \cup room.prev[e])) :
                            Follow(e, prevs \o auths)
    /\ UNCHANGED <<server, queues, lists, working, fetcher, retries, loop, stuck, presses>>

OldestLast(list) == Reverse(list)

\* Nothing more to search, or the stop reaction: what was found is turned round.
RepairSearched ==
    /\ Walking
    /\ repair.pc = "searching"
    /\ repair.toTry = <<>> \/ status = "STOP"
    /\ repair' = [repair EXCEPT !.pc = "sending", !.toSend = OldestLast(@)]
    /\ UNCHANGED <<server, cached, queues, lists, tried, working, fetcher, retries, loop, limits>>

\* The destination takes the events of a transaction one after the other, each
\* only when it has (or is about to have) all its ancestors.
Accepted(batch) ==
    LET has == target \cup digesting
        taken[i \in DOMAIN batch] ==
            \A d \in Ancestors(batch[i]) \ has : \E j \in 1..(i - 1) : batch[j] = d /\ taken[j]
    IN  has \cup {batch[i] : i \in {j \in DOMAIN batch : taken[j]}}

RepairSends ==
    /\ Walking
    /\ repair.pc = "sending"
    /\ repair.at < Len(repair.toSend)
    /\ LET last == IF Len(repair.toSend) < repair.at + BatchSize THEN Len(repair.toSend)
                   ELSE repair.at + BatchSize
       IN  /\ digesting' = Accepted(SubSeq(repair.toSend, repair.at + 1, last)) \ target
           /\ repair' = [repair EXCEPT !.at = last]
    /\ UNCHANGED <<room, mode, target, cached, queues, lists, tried, working, fetcher, retries,
                   loop, limits>>

\* A task that waits for the repaired event is created when anything was sent.
RepairFinishes ==
    /\ Walking
    /\ repair.pc = "sending"
    /\ repair.at = Len(repair.toSend)
    /\ retries' = IF repair.toSend # <<>> THEN [retries EXCEPT ![repair.root].pc = "created"] ELSE retries
    /\ working' = Done("repair")
    /\ repair' = [IdleRepair EXCEPT !.pc = NextRound]
    /\ UNCHANGED <<server, cached, queues, lists, tried, fetcher, loop, limits>>

DestinationDigests ==
    /\ \E e \in digesting :
        /\ target' = target \cup {e}
        /\ digesting' = digesting \ {e}
    /\ UNCHANGED <<room, mode, cached, queues, lists, tried, working, fetcher, repair, retries,
                   loop, limits>>

-----------------------------------------------------------------------------
(***************************************************************************)
(* _waiting_retry_worker                                                   *)
(***************************************************************************)

RetryBegins(e) ==
    /\ Walking
    /\ retries[e].pc = "created"
    /\ working' = working \cup {e}
    /\ retries' = [retries EXCEPT ![e].pc = IF status = "STOP" THEN "gone" ELSE "sleeping"]
    /\ overdue' = overdue \ {e}
    /\ UNCHANGED <<server, cached, queues, lists, tried, fetcher, repair, status, walk, limits>>

\* Mutant: the bound is tested before the check is counted.
TriesLeftUncounted(tries) == tries <= MaxTries

TriesLeft(tries) == tries + 1 < MaxTries

\* The sleep is over: hand the event back, or look at the reaction and sleep
\* again, or give up. A stop leaves bot_working as it is.
RetryChecks(e) ==
    /\ Walking
    /\ retries[e].pc = "sleeping"
    /\ \E got \in SUBSET {e} :
        /\ Found({e}, got)
        /\ cached' = cached \cup got
        /\ \/ /\ got = {e}
              /\ fetchQueue' = Append(fetchQueue, [retry |-> TRUE, ids |-> {e}])
              /\ retries' = [retries EXCEPT ![e].pc = "found"]
              /\ working' = Done(e)
           \/ /\ got = {}
              /\ TriesLeft(retries[e].tries)
              /\ retries' = [retries EXCEPT ![e].tries = @ + 1,
                                ![e].pc = IF status = "STOP" THEN "gone" ELSE "sleeping"]
              /\ UNCHANGED <<fetchQueue, working>>
           \/ /\ got = {}
              /\ ~TriesLeft(retries[e].tries)
              /\ retries' = [retries EXCEPT ![e].pc = "gaveUp"]
              /\ working' = Done(e)
              /\ UNCHANGED fetchQueue
    /\ UNCHANGED <<server, errorQueue, lists, tried, fetcher, repair, loop, stuck, presses>>

\* An await that never returns or an exception: bot_working stays True.
WorkerStuck ==
    /\ Walking
    /\ Cardinality(stuck) < MaxStuck
    /\ \/ /\ fetcher.pc \in {"pulling", "prev", "auth"}
          /\ fetcher' = [fetcher EXCEPT !.pc = "stuck"]
          /\ stuck' = stuck \cup {"fetcher"}
          /\ UNCHANGED <<repair, retries>>
       \/ /\ repair.pc \in {"searching", "sending"}
          /\ repair' = [repair EXCEPT !.pc = "stuck"]
          /\ stuck' = stuck \cup {"repair"}
          /\ UNCHANGED <<fetcher, retries>>
       \/ \E e \in Events :
          /\ retries[e].pc = "sleeping"
          /\ retries' = [retries EXCEPT ![e].pc = "stuck"]
          /\ stuck' = stuck \cup {e}
          /\ UNCHANGED <<fetcher, repair>>
    /\ UNCHANGED <<server, cached, queues, lists, tried, working, loop, faults, presses>>

-----------------------------------------------------------------------------
(***************************************************************************)
(* The render loop and the user                                            *)
(***************************************************************************)

Created == {e \in Events : retries[e].pc = "created"}

OutOfWork(idle) == idle > RoundsToFinish

\* The count goes back only when the queues are empty and somebody works.
IdleRounds ==
    IF fetchQueue # <<>> \/ errorQueue # <<>> THEN walk.idle
    ELSE IF working = {} THEN walk.idle + 1
    ELSE 0

\* A round. Tasks created before the last round have begun by now: the loop
\* slept in between.
Render ==
    /\ Walking
    /\ status # "PAUSE"
    /\ overdue = {}
    /\ walk' = [pc |-> IF status = "STOP" \/ OutOfWork(IdleRounds) THEN "ended" ELSE "running",
                idle |-> IdleRounds,
                natural |-> OutOfWork(IdleRounds) /\ status # "STOP",
                stopped |-> walk.stopped]
    /\ overdue' = Created
    /\ UNCHANGED <<server, cached, queues, lists, tried, working, fetcher, repair, retries,
                   status, limits>>

UserPresses ==
    /\ Walking
    /\ presses < MaxPresses
    /\ presses' = presses + 1
    /\ \E s \in {"START", "PAUSE", "STOP"} \ {status} :
        /\ status' = s
        /\ walk' = [walk EXCEPT !.stopped = @ \/ s = "STOP"]
    /\ UNCHANGED <<server, cached, queues, lists, tried, working, fetcher, repair, retries,
                   overdue, stuck, faults>>

-----------------------------------------------------------------------------
(***************************************************************************)
(* repair_event_command: the same search for one event, without the worker *)
(***************************************************************************)

Commanding == mode = "command"

\* Step 1: the event must be missing.
CommandBegins ==
    /\ Commanding
    /\ repair.pc = "idle"
    /\ \E e \in Events : \E got \in SUBSET {e} :
        /\ Found({e}, got)
        /\ cached' = cached \cup got
        /\ repair' = IF got = {e} THEN [repair EXCEPT !.pc = "over"]
                     ELSE [repair EXCEPT !.pc = "searching", !.root = e, !.toTry = <<e>>]
    /\ UNCHANGED <<server, queues, lists, tried, working, fetcher, retries, loop, stuck, presses>>

\* Mutant: an event that is queued or was found is not queued again.
WantedOnce(e, good) ==
    room.prev[e] \ (good \cup ToSet(repair.toTry) \cup ToSet(repair.toSend))

\* The ancestors to look for next, whether or not they were seen before.
Wanted(e, good) == room.prev[e] \ good

\* Mutant: an event nobody has is put back in the queue.
TryAgain(list) == Append(Tail(list), Head(list))

GiveUp(list) == Tail(list)

\* Steps 3 to 6: the first usable copy is kept, and only its prev events count.
CommandSearches ==
    /\ Commanding
    /\ repair.pc = "searching"
    /\ repair.toTry # <<>>
    /\ LET e == Head(repair.toTry)
       IN  IF room.copies[e] = 0
           THEN /\ repair' = [repair EXCEPT !.toTry = GiveUp(@)]
                /\ UNCHANGED <<cached, faults>>
           ELSE \E good \in SUBSET room.prev[e] :
                /\ Found(room.prev[e], good)
                /\ cached' = cached \cup good
                /\ \E more \in SetToSeqs(Wanted(e, good)) :
                    repair' = [repair EXCEPT !.toTry = Tail(@) \o more,
                                             !.toSend = Append(@, e)]
    /\ UNCHANGED <<server, queues, lists, tried, working, fetcher, retries, loop, stuck, presses>>

CommandSearched ==
    /\ Commanding
    /\ repair.pc = "searching"
    /\ repair.toTry = <<>>
    /\ repair' = [repair EXCEPT !.pc = "sending", !.toSend = OldestLast(@)]
    /\ UNCHANGED <<server, cached, queues, lists, tried, working, fetcher, retries, loop, limits>>

\* Step 7: one event per transaction.
CommandSends ==
    /\ Commanding
    /\ repair.pc = "sending"
    /\ repair.at < Len(repair.toSend)
    /\ digesting' = Accepted(<<repair.toSend[repair.at + 1]>>) \ target
    /\ repair' = [repair EXCEPT !.at = @ + 1]
    /\ UNCHANGED <<room, mode, target, cached, queues, lists, tried, working, fetcher, retries,
                   loop, limits>>

CommandEnds ==
    /\ Commanding
    /\ repair.pc = "sending"
    /\ repair.at = Len(repair.toSend)
    /\ repair' = [repair EXCEPT !.pc = "over"]
    /\ UNCHANGED <<server, cached, queues, lists, tried, working, fetcher, retries, loop, limits>>

-----------------------------------------------------------------------------
Fetcher ==
    \/ FetcherGets \/ FetcherPulls \/ FetcherTakes \/ FetcherParsesPrev \/ FetcherParsesAuth
    \/ FetcherFinishes
Repair == RepairGets \/ RepairSearches \/ RepairSearched \/ RepairSends \/ RepairFinishes
Retry(e) == RetryBegins(e) \/ RetryChecks(e)
Command == CommandBegins \/ CommandSearches \/ CommandSearched \/ CommandSends \/ CommandEnds

Next ==
    \/ Fetcher
    \/ Repair
    \/ \E e \in Events : Retry(e)
    \/ DestinationDigests
    \/ WorkerStuck
    \/ Render
    \/ UserPresses
    \/ Command

\* Every coroutine the event loop can resume is resumed; requests and sleeps
\* end, except those of a worker that is stuck.
Fairness ==
    /\ WF_vars(Fetcher)
    /\ WF_vars(Repair)
    /\ \A e \in Events : WF_vars(Retry(e))
    /\ WF_vars(Render)
    /\ WF_vars(Command)

Spec == Init /\ [][Next]_vars /\ Fairness

-----------------------------------------------------------------------------
TypeOK ==
    /\ mode \in {"walk", "command"}
    /\ target \cup digesting \cup cached \cup tried \subseteq Events
    /\ okList \cup errorList \cup resolvedList \cup attempted \subseteq Events
    /\ working \subseteq Events \cup {"fetcher", "repair"}
    /\ \A i \in DOMAIN fetchQueue : fetchQueue[i].ids \subseteq Events
    /\ ToSet(errorQueue) \cup ToSet(repair.toTry) \cup ToSet(repair.toSend) \subseteq Events
    /\ fetcher.pc \in {"idle", "pulling", "parsing", "prev", "auth", "stuck", "gone"}
    /\ repair.pc \in {"idle", "searching", "sending", "stuck", "gone", "over"}
    /\ \A e \in Events :
        /\ retries[e].pc \in {"none", "created", "sleeping", "found", "gaveUp", "stuck", "gone"}
        /\ retries[e].tries \in 0..MaxTries
    /\ status \in {"START", "PAUSE", "STOP"}
    /\ walk.idle \in 0..(RoundsToFinish + 1)

Queued == UNION {fetchQueue[i].ids : i \in DOMAIN fetchQueue}

\* The walk loses nothing it does not hold: of an event that was walked, but for the
\* one at hand, every prev event has been attempted, is on its way to the fetcher or
\* in its list, or was reported as missing, and every auth event was found at the
\* destination or reported. What was reported is searched for, unless the user
\* stopped the walk in between. (A worker that never comes back keeps the event at
\* hand, the rest of its batch, its list and its root for good: just these are lost.)
NothingLost ==
    /\ \A e \in okList \ fetcher.at :
        /\ room.prev[e] \subseteq attempted \cup Queued \cup fetcher.next \cup errorList
        /\ room.auth[e] \subseteq cached \cup errorList
    /\ ~walk.stopped =>
        errorList \subseteq tried \cup ToSet(errorQueue)
            \cup (IF repair.pc \in {"searching", "stuck"} THEN {repair.root} ELSE {})

\* When the walk ends by itself the work really is over: no queue holds anything,
\* no worker and no retry task has work. So all that was reached was walked or
\* reported, all reports were searched for, and all repaired events that came back
\* were walked. (A stop that was taken back before the next round may have cut the
\* search short. And a retry task that has not begun yet is not waited for: nothing
\* of it shows in bot_working.)
EndMeansDone ==
    walk.natural /\ ~walk.stopped =>
        /\ fetchQueue = <<>> /\ errorQueue = <<>> /\ working = {}
        /\ \A e \in okList : Ancestors(e) \subseteq okList \cup errorList
        /\ errorList \subseteq tried
        /\ {e \in Events : retries[e].pc = "found"} \subseteq resolvedList

\* The list repair_event sends has every event after those of its prev events that
\* the destination lacks and somebody has, so that the destination can take one
\* after the other ("or the destination server will barf").
CommandSendsOldestFirst ==
    Commanding /\ repair.pc = "sending" =>
        \A i \in DOMAIN repair.toSend :
            \A d \in room.prev[repair.toSend[i]] \cap room.missing :
                room.copies[d] = 0 \/ \E k \in 1..(i - 1) : repair.toSend[k] = d

\* A worker that is stuck, or that may have left because of a stop that was
\* taken back.
Crippled == stuck # {} \/ (walk.stopped /\ status # "STOP")

\* The walk ends when no worker is stuck and the user does not leave it paused
\* or restart it after a stop.
WalkEnds ==
    mode = "walk" /\ [](~Crippled) /\ <>[](status # "PAUSE") => <>(walk.pc = "ended")

\* repair_event ends, however often an ancestor is queued.
CommandOver == Commanding => <>(repair.pc = "over")
=============================================================================
