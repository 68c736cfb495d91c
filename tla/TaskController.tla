--------------------------- MODULE TaskController ---------------------------
(***************************************************************************)
(* The ReactionTaskController of controllers.py and the two long-running   *)
(* commands that live under its control: the status loop and the room walk *)
(* (room_walk_2).  A command shows one message, pins three control         *)
(* reactions to it, runs tasks in a task set keyed by that message, polls  *)
(* the status the users set by reacting, and finally cancels everything.   *)
(*                                                                         *)
(* Everything runs on one asyncio event loop, so a step of the model is    *)
(* the code between two awaits.  Users react at any moment, a user may     *)
(* remove the message ("Remove "), and the plugin may be stopped           *)
(* (pre_stop), which runs shutdown beside the commands.                    *)
(***************************************************************************)
EXTENDS Naturals, FiniteSets

CONSTANTS
    Messages,      \* event ids of the pinned messages, one per command
    Walks,         \* the messages of room walks; the others are status commands
    Workers,       \* names of the tasks of a walk
    FirstWorkers,  \* the ones started with the walk (fetcher and repair worker)
    NoMessage,     \* no message: what shutdown is looking at between two entries
    ClientFaults   \* whether a call to the bot's own homeserver may raise

ASSUME TaskControllerAssumption ==
    /\ IsFiniteSet(Messages) /\ NoMessage \notin Messages
    /\ Walks \subseteq Messages
    /\ FirstWorkers \subseteq Workers
    /\ ClientFaults \in BOOLEAN

VARIABLES
    pc,          \* where each command is
    tracked,     \* keys of tracked_reactions
    status,      \* current_status of each entry
    collection,  \* reaction_collection_of_event_ids of each entry
    onScreen,    \* reactions of the bot that the homeserver still shows
    left,        \* what a command's own entry.cancel() has yet to redact
    tasksSets,   \* keys of tasks_sets
    live,        \* tasks of each set that have not ended
    cancelled,   \* tasks on which task.cancel() was called
    removing,    \* messages a handler is about to remove (awaiting the redaction)
    redacted,    \* messages a user had removed
    sd           \* the progress of shutdown()

entryVars == <<tracked, status, collection>>
taskVars  == <<tasksSets, live, cancelled>>
userVars  == <<removing, redacted>>
vars == <<pc, entryVars, onScreen, left, taskVars, userVars, sd>>

Controls == {"start", "pause", "stop"}

SdAt(where) == [pc |-> where, key |-> NoMessage, seen |-> {}, size |-> 0, left |-> {}]

Init ==
    /\ pc = [m \in Messages |-> "new"]
    /\ tracked = {}
    /\ status = [m \in Messages |-> "start"]
    /\ collection = [m \in Messages |-> {}]
    /\ onScreen = [m \in Messages |-> {}]
    /\ left = [m \in Messages |-> {}]
    /\ tasksSets = {}
    /\ live = [m \in Messages |-> {}]
    /\ cancelled = [m \in Messages |-> {}]
    /\ removing = {} /\ redacted = {}
    /\ sd = SdAt("up")

Goto(m, where) == pc' = [pc EXCEPT ![m] = where]

IsStopped(m) == m \in tracked /\ status[m] = "stop"
IsPaused(m)  == m \in tracked /\ status[m] = "pause"

-----------------------------------------------------------------------------
(* The command: set up, poll, render. *)

\* The message is fresh, so MessageAlreadyHasReactions cannot be raised here.
SetupControlReactions(m) ==
    /\ pc[m] = "new" /\ m \notin tracked
    /\ Goto(m, "reacting")
    /\ UNCHANGED <<entryVars, onScreen, left, taskVars, userVars, sd>>

\* One of the first two reacts has returned.
PlaceControl(m, c) ==
    /\ pc[m] = "reacting"
    /\ <<onScreen[m], c>> \in {<<{}, "stop">>, <<{"stop"}, "pause">>}
    /\ onScreen' = [onScreen EXCEPT ![m] = @ \cup {c}]
    /\ UNCHANGED <<pc, entryVars, left, taskVars, userVars, sd>>

\* The last react has returned: the entry is stored and, without another
\* await, a walk creates its task set and its first workers.
TrackAndStart(m) ==
    /\ pc[m] = "reacting" /\ onScreen[m] = {"stop", "pause"}
    /\ onScreen' = [onScreen EXCEPT ![m] = Controls]
    /\ collection' = [collection EXCEPT ![m] = Controls]
    /\ tracked' = tracked \cup {m}
    /\ Goto(m, "loop")
    /\ IF m \in Walks
         THEN /\ tasksSets' = tasksSets \cup {m}
              /\ live' = [live EXCEPT ![m] = FirstWorkers]
         ELSE UNCHANGED <<tasksSets, live>>
    /\ UNCHANGED <<status, left, cancelled, userVars, sd>>

\* Mutant: only the status loop polls the status.
StatusSeesStop(m) ==
    /\ pc[m] = "loop" /\ IsStopped(m) /\ m \notin Walks
    /\ Goto(m, "lastRound")
    /\ UNCHANGED <<entryVars, onScreen, left, taskVars, userVars, sd>>

\* A round of the loop finds the command stopped: this is the last round.
SeeStop(m) ==
    /\ pc[m] = "loop" /\ IsStopped(m)
    /\ Goto(m, "lastRound")
    /\ UNCHANGED <<entryVars, onScreen, left, taskVars, userVars, sd>>

\* A round of a walk that is not paused finds no work for the sixth time.
WorkDone(m) ==
    /\ pc[m] = "loop" /\ m \in Walks /\ ~IsPaused(m)
    /\ Goto(m, "lastRound")
    /\ UNCHANGED <<entryVars, onScreen, left, taskVars, userVars, sd>>

-----------------------------------------------------------------------------
(* ReactionTaskController.cancel(m, add_cleanup_control=True), run by the   *)
(* command when its last render has returned.                               *)

\* Mutant: the tasks that were added after the start are forgotten.
CancelFirst(m) == cancelled' = [cancelled EXCEPT ![m] = @ \cup (live[m] \cap FirstWorkers)]

\* clear_all_tasks up to its gather ...
CancelAll(m) == cancelled' = [cancelled EXCEPT ![m] = @ \cup live[m]]

\* Mutant: clear_all_tasks without its gather.
NotGathered(m) == m \in tasksSets

\* ... and what the gather waits for.
Gathered(m) == live[m] \cap cancelled[m] = {}

\* cancel() does nothing here when the command has no task set.
ClearTasks(m) ==
    \/ /\ m \in tasksSets
       /\ CancelAll(m)
       /\ Goto(m, "gathering")
    \/ /\ m \notin tasksSets
       /\ Goto(m, "done")
       /\ UNCHANGED cancelled

CancelTracked(m) ==
    /\ pc[m] = "lastRound" /\ m \in tracked
    /\ status' = [status EXCEPT ![m] = "stop"]
    /\ left' = [left EXCEPT ![m] = collection[m]]
    /\ Goto(m, IF collection[m] = {} THEN "cleanup" ELSE "redacting")
    /\ UNCHANGED <<tracked, collection, onScreen, taskVars, userVars, sd>>

CancelUntracked(m) ==
    /\ pc[m] = "lastRound" /\ m \notin tracked
    /\ ClearTasks(m)
    /\ UNCHANGED <<entryVars, onScreen, left, tasksSets, live, userVars, sd>>

\* A redaction of entry.cancel() has returned and the iteration goes on.
\* Meanwhile shutdown may have cleared the set that is iterated over: then
\* the iterator raises RuntimeError.  After the last one the set is cleared
\* and the entry looked up again: KeyError when a handler has deleted it.
RedactControl(m, r) ==
    /\ pc[m] = "redacting" /\ r \in left[m]
    /\ onScreen' = [onScreen EXCEPT ![m] = @ \ {r}]
    /\ \/ /\ collection[m] = {}
          /\ left' = [left EXCEPT ![m] = {}]
          /\ Goto(m, "failed")
          /\ UNCHANGED collection
       \/ /\ collection[m] # {} /\ left[m] # {r}
          /\ left' = [left EXCEPT ![m] = @ \ {r}]
          /\ UNCHANGED <<pc, collection>>
       \/ /\ collection[m] # {} /\ left[m] = {r}
          /\ left' = [left EXCEPT ![m] = {}]
          /\ collection' = [collection EXCEPT ![m] = {}]
          /\ Goto(m, IF m \in tracked THEN "cleanup" ELSE "failed")
    /\ UNCHANGED <<tracked, status, taskVars, userVars, sd>>

\* Mutant: the entry is not popped.
AddCleanupKeepEntry(m) ==
    /\ pc[m] = "cleanup"
    /\ onScreen' = [onScreen EXCEPT ![m] = @ \cup {"cleanup"}]
    /\ ClearTasks(m)
    /\ UNCHANGED <<entryVars, left, tasksSets, live, userVars, sd>>

\* The cleanup reaction is placed, the entry popped and the tasks cancelled.
AddCleanupControl(m) ==
    /\ pc[m] = "cleanup"
    /\ onScreen' = [onScreen EXCEPT ![m] = @ \cup {"cleanup"}]
    /\ tracked' = tracked \ {m}
    /\ ClearTasks(m)
    /\ UNCHANGED <<status, collection, left, tasksSets, live, userVars, sd>>

\* gather has seen every task it was given end.
TasksGathered(m) ==
    /\ pc[m] = "gathering" /\ Gathered(m)
    /\ tasksSets' = tasksSets \ {m}
    /\ Goto(m, "done")
    /\ UNCHANGED <<entryVars, onScreen, left, live, cancelled, userVars, sd>>

\* A react, a redact or an edit of the message raises: nothing catches it.
ClientFails(m) ==
    /\ ClientFaults
    /\ pc[m] \in {"reacting", "loop", "lastRound", "redacting", "cleanup"}
    /\ Goto(m, "failed")
    /\ left' = [left EXCEPT ![m] = {}]
    /\ UNCHANGED <<entryVars, onScreen, taskVars, userVars, sd>>

-----------------------------------------------------------------------------
(* The tasks of a walk. *)

\* Mutant: a worker catches its CancelledError and goes on.
TaskEndsUncancelled(m, w) ==
    /\ w \in live[m] \ cancelled[m]
    /\ live' = [live EXCEPT ![m] = @ \ {w}]
    /\ UNCHANGED <<pc, entryVars, onScreen, left, tasksSets, cancelled, userVars, sd>>

\* A task ends: cancelled, or stopped at the top of its loop, or through with
\* its retries, or of an exception that no one caught.
TaskEnds(m, w) ==
    /\ w \in live[m]
    /\ live' = [live EXCEPT ![m] = @ \ {w}]
    /\ UNCHANGED <<pc, entryVars, onScreen, left, tasksSets, cancelled, userVars, sd>>

\* The repair worker adds a retry worker to the set it belongs to.
AddRetryWorker(m, w) ==
    /\ m \in tasksSets
    /\ FirstWorkers \cap (live[m] \ cancelled[m]) # {}
    /\ w \in Workers \ (FirstWorkers \cup live[m] \cup cancelled[m])
    /\ live' = [live EXCEPT ![m] = @ \cup {w}]
    /\ UNCHANGED <<pc, entryVars, onScreen, left, tasksSets, cancelled, userVars, sd>>

-----------------------------------------------------------------------------
(* react_control_handler: registered until pre_stop removes it. *)

\* Mutant: the bot's own cleanup reaction is taken for a control.
UserReactsUnfiltered(m, c) ==
    /\ sd.pc = "up" /\ m \in tracked /\ c \in Controls
    /\ \E k \in onScreen[m] \cup {"cleanup"} : status' = [status EXCEPT ![m] = k]
    /\ UNCHANGED <<pc, tracked, collection, onScreen, left, taskVars, userVars, sd>>

UserReacts(m, c) ==
    /\ sd.pc = "up" /\ m \in tracked /\ c \in Controls
    /\ status' = [status EXCEPT ![m] = c]
    /\ UNCHANGED <<pc, tracked, collection, onScreen, left, taskVars, userVars, sd>>

\* Any user may ask for the removal; one removal per message is enough here.
UserRemoves(m) ==
    /\ sd.pc = "up" /\ m \notin removing \cup redacted
    /\ removing' = removing \cup {m}
    /\ UNCHANGED <<pc, entryVars, onScreen, left, taskVars, redacted, sd>>

\* remove_last_display_of: the redaction has returned.
MessageRemoved(m) ==
    /\ m \in removing
    /\ removing' = removing \ {m}
    /\ redacted' = redacted \cup {m}
    /\ tracked' = tracked \ {m}
    /\ UNCHANGED <<pc, status, collection, onScreen, left, taskVars, sd>>

\* The homeserver refused the redaction, the handler raises.
RemovalFails(m) ==
    /\ ClientFaults /\ m \in removing
    /\ removing' = removing \ {m}
    /\ UNCHANGED <<pc, entryVars, onScreen, left, taskVars, redacted, sd>>

-----------------------------------------------------------------------------
(* shutdown(), from pre_stop: iterates over both dictionaries with awaits   *)
(* between the entries; an iterator raises RuntimeError when the number of  *)
(* entries has changed.                                                     *)

VisitSet(k, seen) ==
    /\ CancelAll(k)
    /\ sd' = [sd EXCEPT !.pc = "clearing", !.key = k,
                        !.seen = seen \cup {k}, !.size = Cardinality(tasksSets)]
    /\ UNCHANGED <<status>>

\* entry.cancel() on the next entry with something to redact; the entries
\* with nothing to redact are stopped on the way, without an await.
VisitEntry(seen) ==
    LET todo  == {k \in tracked \ seen : collection[k] # {}}
        empty == {k \in tracked \ seen : collection[k] = {}}
    IN  \/ /\ todo = {}
           /\ status' = [k \in Messages |-> IF k \in empty THEN "stop" ELSE status[k]]
           /\ sd' = SdAt("down")
        \/ \E k \in todo :
           /\ status' = [j \in Messages |-> IF j \in empty \cup {k} THEN "stop" ELSE status[j]]
           /\ sd' = [pc |-> "redacting", key |-> k, seen |-> seen \cup empty \cup {k},
                     size |-> Cardinality(tracked), left |-> collection[k]]

ShutdownBegins ==
    /\ sd.pc = "up"
    /\ \/ \E k \in tasksSets : VisitSet(k, {})
       \/ tasksSets = {} /\ VisitEntry({}) /\ UNCHANGED cancelled
    /\ UNCHANGED <<pc, tracked, collection, onScreen, left, tasksSets, live, userVars>>

ShutdownSetCleared ==
    /\ sd.pc = "clearing" /\ Gathered(sd.key)
    /\ \/ /\ Cardinality(tasksSets) # sd.size
          /\ sd' = SdAt("failed")
          /\ UNCHANGED <<status, cancelled>>
       \/ /\ Cardinality(tasksSets) = sd.size
          /\ \E k \in tasksSets \ sd.seen : VisitSet(k, sd.seen)
       \/ /\ Cardinality(tasksSets) = sd.size /\ tasksSets \subseteq sd.seen
          /\ VisitEntry({}) /\ UNCHANGED cancelled
    /\ UNCHANGED <<pc, tracked, collection, onScreen, left, tasksSets, live, userVars>>

ShutdownRedacts(r) ==
    /\ sd.pc = "redacting" /\ r \in sd.left
    /\ onScreen' = [onScreen EXCEPT ![sd.key] = @ \ {r}]
    /\ \/ /\ collection[sd.key] = {}
          /\ sd' = SdAt("failed")
          /\ UNCHANGED <<status, collection>>
       \/ /\ collection[sd.key] # {} /\ sd.left # {r}
          /\ sd' = [sd EXCEPT !.left = @ \ {r}]
          /\ UNCHANGED <<status, collection>>
       \/ /\ collection[sd.key] # {} /\ sd.left = {r}
          /\ collection' = [collection EXCEPT ![sd.key] = {}]
          /\ \/ /\ Cardinality(tracked) # sd.size
                /\ sd' = SdAt("failed")
                /\ UNCHANGED status
             \/ Cardinality(tracked) = sd.size /\ VisitEntry(sd.seen)
    /\ UNCHANGED <<pc, tracked, left, taskVars, userVars>>

ShutdownFails ==
    /\ ClientFaults /\ sd.pc = "redacting"
    /\ sd' = SdAt("failed")
    /\ UNCHANGED <<pc, entryVars, onScreen, left, taskVars, userVars>>

-----------------------------------------------------------------------------
CommandStep(m) ==
    \/ SetupControlReactions(m) \/ TrackAndStart(m)
    \/ \E c \in Controls : PlaceControl(m, c) \/ RedactControl(m, c)
    \/ SeeStop(m)
    \/ CancelTracked(m) \/ CancelUntracked(m)
    \/ AddCleanupControl(m) \/ TasksGathered(m)

UserStep(m) ==
    \/ \E c \in Controls : UserReacts(m, c)
    \/ UserRemoves(m)

Shutdown ==
    \/ ShutdownBegins \/ ShutdownSetCleared
    \/ \E r \in Controls : ShutdownRedacts(r)

Next ==
    \/ \E m \in Messages :
        \/ CommandStep(m) \/ WorkDone(m) \/ ClientFails(m)
        \/ UserStep(m) \/ MessageRemoved(m) \/ RemovalFails(m)
        \/ \E w \in Workers : TaskEnds(m, w) \/ AddRetryWorker(m, w)
    \/ Shutdown \/ ShutdownFails

Spec == Init /\ [][Next]_vars

\* The event loop resumes every coroutine that can go on; a task that was
\* cancelled gets its CancelledError.  Nobody is obliged to react, to stop
\* the plugin or to finish a walk.
Fairness ==
    /\ \A m \in Messages :
        /\ WF_vars(CommandStep(m))
        /\ WF_vars(MessageRemoved(m))
        /\ \A w \in Workers : WF_vars(w \in cancelled[m] /\ TaskEnds(m, w))
    /\ WF_vars(sd.pc # "up" /\ Shutdown)

FairSpec == Spec /\ Fairness

-----------------------------------------------------------------------------
Places == {"new", "reacting", "loop", "lastRound", "redacting", "cleanup",
           "gathering", "done", "failed"}

TypeOK ==
    /\ pc \in [Messages -> Places]
    /\ tracked \subseteq Messages
    /\ status \in [Messages -> Controls]
    /\ collection \in [Messages -> {{}, Controls}]
    /\ onScreen \in [Messages -> SUBSET (Controls \cup {"cleanup"})]
    /\ left \in [Messages -> SUBSET Controls]
    /\ tasksSets \subseteq Walks
    /\ live \in [Messages -> SUBSET Workers]
    /\ cancelled \in [Messages -> SUBSET Workers]
    /\ removing \subseteq Messages /\ redacted \subseteq Messages
    /\ sd \in [pc : {"up", "clearing", "redacting", "down", "failed"},
               key : Messages \cup {NoMessage}, seen : SUBSET Messages,
               size : Nat, left : SUBSET Controls]

\* A running task is always in a task set that shutdown() and cancel() can
\* still find: the set is popped only after its last task ended, although
\* the repair worker may add tasks until it is cancelled.
RunningTasksAreRegistered ==
    \A m \in Messages : live[m] # {} => m \in tasksSets

\* While clear_all_tasks waits in gather, in cancel() or in shutdown(), no
\* task of the set escapes it: each running one was cancelled.
GatherMissesNoTask ==
    \A m \in Messages :
        pc[m] = "gathering" \/ (sd.pc = "clearing" /\ sd.key = m)
            => live[m] \subseteq cancelled[m]

\* A command whose cancel() returned has left nothing behind, whatever
\* shutdown and the users did meanwhile: no entry, no task set, no task, and
\* no control on a message that still exists.
CancelLeavesNothing ==
    \A m \in Messages :
        pc[m] = "done" =>
            /\ m \notin tracked \cup tasksSets
            /\ live[m] = {}
            /\ onScreen[m] \cap Controls = {} \/ m \in redacted

\* shutdown() goes on to the reactions only when no registered set has a task
\* running any more, including sets that were created or popped meanwhile.
ShutdownClearsEverySet ==
    [][sd.pc = "clearing" /\ sd'.pc \in {"redacting", "down"}
         => \A m \in tasksSets : live[m] = {}]_vars

Ended(m) == pc[m] \in {"done", "failed"}

\* A Stop that nobody takes back ends the command, also when users remove
\* the message or shutdown() works on the same entry at the same time; and once
\* a command began its last round, for whatever reason, its cancel() comes to an
\* end: no gather waits for ever, no iteration over the reactions restarts.
StopEndsCommand ==
    \A m \in Messages :
        /\ pc[m] = "loop" /\ IsStopped(m)
            ~> Ended(m) \/ (pc[m] = "loop" /\ ~IsStopped(m))
        /\ pc[m] = "lastRound" ~> Ended(m)

\* shutdown() comes to an end, by returning or by raising.
ShutdownEnds == sd.pc = "clearing" ~> sd.pc \in {"down", "failed"}

-----------------------------------------------------------------------------
(* What the documentation says and the code does not keep: see the findings. *)

\* A command that is over has no task running (docstring of clear_all_tasks:
\* "Mostly used when finished with a command or on restart to avoid orphans").
NoOrphans == \A m \in Messages : Ended(m) => live[m] = {}
=============================================================================
