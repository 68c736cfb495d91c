----------------------------- MODULE WorkerPool -----------------------------
(***************************************************************************)
(* FederationHandler.get_events_from_server: an asyncio.Queue of event     *)
(* ids, at most three worker tasks in a task set of their own, a caller    *)
(* that waits in queue.join() and then cancels the workers.  The worker's  *)
(* body, get_event_from_server, is modelled with its events cache, its     *)
(* request and the discovery of the room version (all events are of one    *)
(* room), as far as they decide whether the worker reaches                 *)
(* queue.task_done().                                                      *)
(*                                                                         *)
(* The commands of __init__.py that ask many servers are built in the same *)
(* way.                                                                    *)
(***************************************************************************)
EXTENDS Integers, Sequences, FiniteSets

CONSTANTS
    Events,      \* event ids
    Requested,   \* events_list, a sequence that may name an event twice
    NoEvent,     \* a worker that holds no event id
    Faults       \* what may go wrong: a worker raises, the plugin is stopped

ASSUME WorkerPoolAssumption ==
    /\ Requested \in Seq(Events)
    /\ NoEvent \notin Events
    /\ Faults \subseteq {"raise", "stop"}

Workers == 1 .. IF Len(Requested) < 3 THEN Len(Requested) ELSE 3

Wanted == {Requested[i] : i \in 1 .. Len(Requested)}

VARIABLES
    caller,         \* where get_events_from_server is
    queue,          \* event_queue
    unfinished,     \* its count of unfinished tasks, what join() waits on
    at,             \* where each worker is
    held,           \* the event id each worker has taken and not finished
    result,         \* event_to_event_base
    cached,         \* events in _events_cache for this server
    versionCached,  \* room_version_cache for the room: empty, a None or a version
    taskSet         \* the task set: registered, cancelled or popped

pool == <<queue, unfinished, at, held>>
caches == <<cached, versionCached>>
vars == <<caller, pool, result, caches, taskSet>>

Init ==
    /\ caller = "start"
    /\ queue = <<>> /\ unfinished = 0
    /\ at = [w \in Workers |-> "notStarted"]
    /\ held = [w \in Workers |-> NoEvent]
    /\ result = [e \in Wanted |-> "none"]
    /\ cached \in SUBSET Wanted /\ versionCached \in {"empty", "none", "known"}
    /\ taskSet = "none"

\* Putting into an unbounded queue and creating tasks never suspends.
Start ==
    /\ caller = "start"
    /\ queue' = Requested /\ unfinished' = Len(Requested)
    /\ at' = [w \in Workers |-> "get"]
    /\ taskSet' = "registered"
    /\ caller' = "joining"
    /\ UNCHANGED <<held, result, caches>>

\* Mutants: the answer is not stored; task_done is forgotten; or called twice.
FinishForgets(w, e, answer) ==
    /\ unfinished' = unfinished - 1
    /\ at' = [at EXCEPT ![w] = "get"]
    /\ held' = [held EXCEPT ![w] = NoEvent]
    /\ UNCHANGED <<caller, result, taskSet>>

FinishNotDone(w, e, answer) ==
    /\ result' = [result EXCEPT ![e] = answer]
    /\ at' = [at EXCEPT ![w] = "get"]
    /\ held' = [held EXCEPT ![w] = NoEvent]
    /\ UNCHANGED <<caller, unfinished, taskSet>>

FinishTwice(w, e, answer) ==
    /\ result' = [result EXCEPT ![e] = answer]
    /\ unfinished' = unfinished - 2
    /\ at' = [at EXCEPT ![w] = "get"]
    /\ held' = [held EXCEPT ![w] = NoEvent]
    /\ UNCHANGED <<caller, taskSet>>

\* The worker stores its answer, calls task_done and waits for the next id.
Finish(w, e, answer) ==
    /\ result' = [result EXCEPT ![e] = answer]
    /\ unfinished' = unfinished - 1
    /\ at' = [at EXCEPT ![w] = "get"]
    /\ held' = [held EXCEPT ![w] = NoEvent]
    /\ UNCHANGED <<caller, taskSet>>

Awaiting(w, where) == at[w] = where /\ taskSet = "registered"

\* A cached event is answered without an await.
ServeFromCache(w) ==
    /\ Awaiting(w, "get") /\ queue # <<>> /\ Head(queue) \in cached
    /\ queue' = Tail(queue)
    /\ Finish(w, Head(queue), "event")
    /\ UNCHANGED caches

RequestEvent(w) ==
    /\ Awaiting(w, "get") /\ queue # <<>> /\ Head(queue) \notin cached
    /\ queue' = Tail(queue)
    /\ held' = [held EXCEPT ![w] = Head(queue)]
    /\ at' = [at EXCEPT ![w] = "request"]
    /\ UNCHANGED <<caller, unfinished, result, caches, taskSet>>

\* Mutant: the refusal is cached as an answer.
ResponseErrorCached(w) ==
    /\ Awaiting(w, "request")
    /\ cached' = cached \cup {held[w]}
    /\ Finish(w, held[w], "error")
    /\ UNCHANGED <<queue, versionCached>>

\* The server refused: an EventError, which is not cached.
ResponseError(w) ==
    /\ Awaiting(w, "request")
    /\ Finish(w, held[w], "error")
    /\ UNCHANGED <<queue, caches>>

\* A PDU arrived and the version of its room is known.
ResponsePDU(w) ==
    /\ Awaiting(w, "request") /\ versionCached = "known"
    /\ cached' = cached \cup {held[w]}
    /\ Finish(w, held[w], "event")
    /\ UNCHANGED <<queue, versionCached>>

\* A PDU arrived and the version of its room has to be asked for: a cached None
\* counts as nothing.
AskRoomVersion(w) ==
    /\ Awaiting(w, "request") /\ versionCached # "known"
    /\ at' = [at EXCEPT ![w] = "version"]
    /\ UNCHANGED <<caller, queue, unfinished, held, result, caches, taskSet>>

\* Mutant: what was found, or not found, is stored in any case.
StoredAnyway(found) == found

\* The cache is looked at again after the awaits: what another worker stored in
\* the meantime stays, also when it is a None.
Stored(found) == IF versionCached = "empty" THEN found ELSE versionCached

\* make_join names the version, or an auth event of the newest event does.
RoomVersionFound(w) ==
    /\ Awaiting(w, "version") \/ Awaiting(w, "past")
    /\ versionCached' = Stored("known")
    /\ cached' = cached \cup {held[w]}
    /\ Finish(w, held[w], "event")
    /\ UNCHANGED queue

\* make_join was refused: go through the auth events of the newest event.
JoinRefused(w) ==
    /\ Awaiting(w, "version")
    /\ at' = [at EXCEPT ![w] = "past"]
    /\ UNCHANGED <<caller, queue, unfinished, held, result, caches, taskSet>>

\* None of them names a version: the None is stored, and then asserted away.
NoVersionFound(w) ==
    /\ "raise" \in Faults
    /\ Awaiting(w, "past")
    /\ versionCached' = Stored("none")
    /\ at' = [at EXCEPT ![w] = "dead"]
    /\ UNCHANGED <<caller, queue, unfinished, held, result, cached, taskSet>>

\* No PDU in a 200, a PDU without room id, no room version anywhere, a
\* redirect: an exception that ends the worker before task_done.
WorkerRaises(w) ==
    /\ "raise" \in Faults
    /\ \E where \in {"request", "version", "past"} : Awaiting(w, where)
    /\ at' = [at EXCEPT ![w] = "dead"]
    /\ UNCHANGED <<caller, queue, unfinished, held, result, caches, taskSet>>

\* The CancelledError reaches a worker, wherever it waits.
WorkerCancelled(w) ==
    /\ taskSet = "cancelled" /\ at[w] \in {"get", "request", "version", "past"}
    /\ at' = [at EXCEPT ![w] = "cancelled"]
    /\ UNCHANGED <<caller, queue, unfinished, held, result, caches, taskSet>>

\* shutdown() of the controller cancels every task set it finds.
StopPlugin ==
    /\ "stop" \in Faults /\ taskSet = "registered"
    /\ taskSet' = "cancelled"
    /\ UNCHANGED <<caller, pool, result, caches>>

\* Mutant: the caller waits until the queue is empty.
JoinedOnEmptyQueue ==
    /\ caller = "joining" /\ queue = <<>>
    /\ taskSet' = "cancelled"
    /\ caller' = "cancelling"
    /\ UNCHANGED <<pool, result, caches>>

\* join() returns; cancel(reference_key) cancels the workers.
Joined ==
    /\ caller = "joining" /\ unfinished = 0
    /\ taskSet' = "cancelled"
    /\ caller' = "cancelling"
    /\ UNCHANGED <<pool, result, caches>>

\* gather has seen every worker end; the set is popped and the call returns.
Return ==
    /\ caller = "cancelling"
    /\ \A w \in Workers : at[w] \in {"dead", "cancelled"}
    /\ taskSet' = "popped"
    /\ caller' = "returned"
    /\ UNCHANGED <<pool, result, caches>>

WorkerStep(w) ==
    \/ ServeFromCache(w) \/ RequestEvent(w)
    \/ ResponseError(w) \/ ResponsePDU(w)
    \/ AskRoomVersion(w) \/ RoomVersionFound(w) \/ JoinRefused(w)
    \/ WorkerCancelled(w)

CallerStep == Start \/ Joined \/ Return

Next ==
    \/ CallerStep \/ StopPlugin
    \/ \E w \in Workers : WorkerStep(w) \/ NoVersionFound(w) \/ WorkerRaises(w)

Spec == Init /\ [][Next]_vars

\* Every coroutine that can go on is resumed, and a request ends: each has a
\* timeout, after which it counts as an error.
FairSpec ==
    /\ Spec /\ WF_vars(CallerStep)
    /\ \A w \in Workers : WF_vars(WorkerStep(w))

-----------------------------------------------------------------------------
InQueue == {queue[i] : i \in 1 .. Len(queue)}
Busy == {w \in Workers : held[w] # NoEvent}

TypeOK ==
    /\ caller \in {"start", "joining", "cancelling", "returned"}
    /\ queue \in Seq(Wanted)
    /\ unfinished \in Nat
    /\ at \in [Workers -> {"notStarted", "get", "request", "version", "past", "dead", "cancelled"}]
    /\ held \in [Workers -> Wanted \cup {NoEvent}]
    /\ result \in [Wanted -> {"none", "event", "error"}]
    /\ cached \subseteq Wanted
    /\ versionCached \in {"empty", "none", "known"}
    /\ taskSet \in {"none", "registered", "cancelled", "popped"}

\* join() counts exactly the ids that are queued or in the hands of a worker,
\* the hands of a dead one included: task_done runs once per id, never twice.
UnfinishedIsOutstanding == unfinished = Len(queue) + Cardinality(Busy)

\* No requested event is dropped on the way: it is queued, held or answered.
NoEventIsDropped ==
    caller # "start" =>
        \A e \in Wanted :
            \/ e \in InQueue
            \/ \E w \in Workers : held[w] = e
            \/ result[e] # "none"

\* When join() has returned the mapping is complete, and the cancel() that follows
\* interrupts no work: every worker waits for an id, and none has died, since a
\* dead one would have kept join() from returning.
JoinedIsComplete ==
    caller \in {"cancelling", "returned"} =>
        /\ \A e \in Wanted : result[e] # "none"
        /\ \A w \in Workers : at[w] \in {"get", "cancelled"}

\* "Only successful events are cached": an id enters the cache only together
\* with an Event in the mapping, never with an EventError.
OnlyEventsAreCached ==
    [][\A e \in Wanted : e \in cached' \ cached => result'[e] = "event"]_vars

\* A version that one worker found is not lost to another worker that asked at
\* the same time and found none.
VersionIsKept ==
    [][versionCached = "known" => versionCached' = "known"]_versionCached

\* Unless the plugin stops, the call returns, or a worker's exception keeps
\* join() from returning: then nothing is left that could still be asked for,
\* so a raise costs the event it was raised for and no other one, as long as
\* one worker survives.
PoolDrains ==
    caller = "joining" ~>
        \/ caller = "returned"
        \/ caller = "joining" /\ taskSet = "cancelled"
        \/ \A w \in Workers : at[w] = "dead"
        \/ queue = <<>> /\ Busy # {} /\ \A w \in Busy : at[w] = "dead"

\* get_events_from_server as its callers see it.
Promise == INSTANCE Gather WITH
    Answers <- {"event", "error"}, NoAnswer <- "none",
    answer <- result, returned <- (caller = "returned")

GatherSpec == Promise!Spec
=============================================================================
