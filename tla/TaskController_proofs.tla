------------------------ MODULE TaskController_proofs ------------------------
(***************************************************************************)
(* Invariance proofs for TaskController, for any set of commands, any set  *)
(* of tasks and with or without failing calls to the homeserver.           *)
(***************************************************************************)
EXTENDS TaskController, FiniteSetTheorems, TLAPS

Started(m) == pc[m] \notin {"new", "reacting"}

\* A command that is still placing its reactions owns nothing yet.
FreshCommandsOwnNothing ==
    \A m \in Messages : ~Started(m) =>
        /\ m \notin tracked \cup tasksSets
        /\ live[m] = {} /\ cancelled[m] = {} /\ collection[m] = {}

\* What shutdown has visited is a started command, and it is always somewhere.
ShutdownIsSomewhere ==
    /\ sd.pc \in {"clearing", "redacting"} => sd.key \in Messages /\ Started(sd.key)
    /\ sd.pc \in {"clearing", "redacting"} => sd.key \in sd.seen
    /\ sd.pc = "clearing" => \A m \in sd.seen : Started(m)
    /\ sd.pc = "clearing" => \A m \in sd.seen \ {sd.key} : live[m] = {}

\* From the moment clear_all_tasks has cancelled a set every task of it that
\* still runs is a cancelled one; only a task that is not cancelled adds more.
ClearedSetsStayCancelled ==
    \A m \in Messages :
        pc[m] = "gathering" \/ (sd.pc = "clearing" /\ m \in sd.seen)
            => live[m] \subseteq cancelled[m]

\* A command loses its entry only to a user who removed its message, until
\* its own cancel pops the entry.
EntryLostMeansRemoved ==
    \A m \in Messages :
        /\ pc[m] \in {"loop", "lastRound", "redacting", "cleanup"}
             => m \in tracked \cup redacted
        /\ pc[m] \in {"gathering", "done"} => m \notin tracked

\* The reactions on the screen are those that remain to be redacted, for
\* every actor that is iterating over the collection of the entry.
ScreenMatchesEntry ==
    \A m \in Messages :
        /\ Started(m) /\ pc[m] # "failed" /\ collection[m] = {}
             => onScreen[m] \cap Controls = {}
        /\ pc[m] = "redacting" /\ collection[m] # {}
             => onScreen[m] \cap Controls \subseteq left[m]
        /\ sd.pc = "redacting" /\ sd.key = m /\ collection[m] # {}
             => onScreen[m] \cap Controls \subseteq sd.left
        /\ pc[m] = "cleanup" => collection[m] = {}
        /\ pc[m] \in {"gathering", "done"}
             => onScreen[m] \cap Controls = {} \/ m \in redacted

DoneMeansPopped == \A m \in Messages : pc[m] = "done" => m \notin tasksSets

IInv ==
    /\ TypeOK
    /\ FreshCommandsOwnNothing
    /\ ShutdownIsSomewhere
    /\ RunningTasksAreRegistered
    /\ ClearedSetsStayCancelled
    /\ EntryLostMeansRemoved
    /\ ScreenMatchesEntry
    /\ DoneMeansPopped

LEMMA InitIInv == Init => IInv
  BY TaskControllerAssumption
  DEF IInv, Init, TypeOK, SdAt, Controls, Places, FreshCommandsOwnNothing, ShutdownIsSomewhere,
      RunningTasksAreRegistered, ClearedSetsStayCancelled, EntryLostMeansRemoved,
      ScreenMatchesEntry, DoneMeansPopped, Started

\* The numbers of entries that shutdown remembers are natural numbers.
LEMMA SizesAreNat ==
    ASSUME IInv
    PROVE  Cardinality(tracked) \in Nat /\ Cardinality(tasksSets) \in Nat
<1>1. tracked \subseteq Messages /\ tasksSets \subseteq Messages
  BY TaskControllerAssumption DEF IInv, TypeOK
<1> QED
  BY <1>1, TaskControllerAssumption, FS_Subset, FS_CardinalityType

\* The command sets up its reactions and starts, or fails.
LEMMA SetUpIInv ==
    ASSUME IInv, NEW m \in Messages,
           \/ SetupControlReactions(m)
           \/ \E c \in Controls : PlaceControl(m, c)
           \/ TrackAndStart(m)
           \/ SeeStop(m) \/ WorkDone(m)
           \/ ClientFails(m)
    PROVE  IInv'
<1> USE TaskControllerAssumption
    DEF IInv, TypeOK, Controls, Places, Goto, Started, entryVars, taskVars, userVars,
        FreshCommandsOwnNothing, ShutdownIsSomewhere, RunningTasksAreRegistered,
        ClearedSetsStayCancelled, EntryLostMeansRemoved, ScreenMatchesEntry, DoneMeansPopped
<1>1. CASE SetupControlReactions(m)
  BY <1>1 DEF SetupControlReactions
<1>2. CASE \E c \in Controls : PlaceControl(m, c)
  BY <1>2 DEF PlaceControl
<1>3. CASE TrackAndStart(m)
  <2> USE <1>3 DEF TrackAndStart
  <2>1. /\ m \notin tasksSets
        /\ m \in sd.seen => sd.pc # "clearing"
        /\ sd.key = m => sd.pc \notin {"clearing", "redacting"}
    OBVIOUS
  <2>2. TypeOK'
    OBVIOUS
  <2>3. FreshCommandsOwnNothing' /\ RunningTasksAreRegistered'
    OBVIOUS
  <2>4. ShutdownIsSomewhere' /\ ClearedSetsStayCancelled'
    BY <2>1
  <2>5. EntryLostMeansRemoved' /\ DoneMeansPopped'
    OBVIOUS
  <2>6. ScreenMatchesEntry'
    BY <2>1
  <2> QED
    BY <2>2, <2>3, <2>4, <2>5, <2>6
<1>4. CASE SeeStop(m) \/ WorkDone(m)
  BY <1>4 DEF SeeStop, WorkDone
<1>5. CASE ClientFails(m)
  BY <1>5 DEF ClientFails
<1> QED
  BY <1>1, <1>2, <1>3, <1>4, <1>5

\* The command cancels: the entry, the cleanup reaction, the tasks.
LEMMA CancelIInv ==
    ASSUME IInv, NEW m \in Messages,
           \/ CancelTracked(m)
           \/ CancelUntracked(m)
           \/ \E r \in Controls : RedactControl(m, r)
           \/ AddCleanupControl(m)
           \/ TasksGathered(m)
    PROVE  IInv'
<1> USE TaskControllerAssumption
    DEF IInv, TypeOK, Controls, Places, Goto, Started, entryVars, taskVars, userVars,
        FreshCommandsOwnNothing, ShutdownIsSomewhere, RunningTasksAreRegistered,
        ClearedSetsStayCancelled, EntryLostMeansRemoved, ScreenMatchesEntry, DoneMeansPopped
<1>1. CASE CancelTracked(m)
  BY <1>1 DEF CancelTracked
<1>2. CASE CancelUntracked(m)
  BY <1>2 DEF CancelUntracked, ClearTasks, CancelAll
<1>3. CASE \E r \in Controls : RedactControl(m, r)
  <2>1. PICK r \in Controls : RedactControl(m, r)
    BY <1>3
  <2> USE DEF RedactControl
  <2>2. CASE collection[m] = {}
    BY <2>1, <2>2
  <2>3. CASE collection[m] # {} /\ left[m] # {r}
    BY <2>1, <2>3
  <2>4. CASE collection[m] # {} /\ left[m] = {r}
    <3>1. onScreen'[m] \cap Controls = {} /\ collection'[m] = {}
      BY <2>1, <2>4
    <3>2. TypeOK' /\ ScreenMatchesEntry'
      BY <2>1, <2>4, <3>1
    <3>3. FreshCommandsOwnNothing' /\ ShutdownIsSomewhere' /\ RunningTasksAreRegistered'
      BY <2>1, <2>4
    <3>4. ClearedSetsStayCancelled' /\ EntryLostMeansRemoved' /\ DoneMeansPopped'
      BY <2>1, <2>4
    <3> QED
      BY <3>2, <3>3, <3>4
  <2> QED
    BY <2>1, <2>2, <2>3, <2>4
<1>4. CASE AddCleanupControl(m)
  BY <1>4 DEF AddCleanupControl, ClearTasks, CancelAll
<1>5. CASE TasksGathered(m)
  BY <1>5 DEF TasksGathered, Gathered
<1> QED
  BY <1>1, <1>2, <1>3, <1>4, <1>5

\* Tasks end or are added; users react or have the message removed.
LEMMA TasksAndUsersIInv ==
    ASSUME IInv, NEW m \in Messages,
           \/ \E w \in Workers : TaskEnds(m, w)
           \/ \E w \in Workers : AddRetryWorker(m, w)
           \/ UserStep(m)
           \/ MessageRemoved(m) \/ RemovalFails(m)
    PROVE  IInv'
<1> USE TaskControllerAssumption
    DEF IInv, TypeOK, Controls, Places, Goto, Started, entryVars, taskVars, userVars,
        FreshCommandsOwnNothing, ShutdownIsSomewhere, RunningTasksAreRegistered,
        ClearedSetsStayCancelled, EntryLostMeansRemoved, ScreenMatchesEntry, DoneMeansPopped
<1>1. CASE \E w \in Workers : TaskEnds(m, w)
  BY <1>1 DEF TaskEnds
<1>2. CASE \E w \in Workers : AddRetryWorker(m, w)
  BY <1>2 DEF AddRetryWorker
<1>3. CASE UserStep(m)
  BY <1>3 DEF UserStep, UserReacts, UserRemoves
<1>4. CASE MessageRemoved(m) \/ RemovalFails(m)
  BY <1>4 DEF MessageRemoved, RemovalFails
<1> QED
  BY <1>1, <1>2, <1>3, <1>4

\* shutdown() goes from one entry to the next, or to its end; it may have
\* redacted the last reaction of the one before.
LEMMA VisitEntryIInv ==
    ASSUME IInv, NEW seen \in SUBSET Messages, VisitEntry(seen),
           UNCHANGED <<pc, tracked, left, taskVars, userVars>>,
           \/ UNCHANGED <<collection, onScreen>>
           \/ \E r \in Controls :
                /\ sd.pc = "redacting" /\ sd.left = {r} /\ sd.key \in seen
                /\ collection[sd.key] # {}
                /\ collection' = [collection EXCEPT ![sd.key] = {}]
                /\ onScreen' = [onScreen EXCEPT ![sd.key] = @ \ {r}]
    PROVE  IInv'
<1> USE TaskControllerAssumption
    DEF IInv, TypeOK, Controls, Places, Goto, Started, entryVars, taskVars, userVars,
        FreshCommandsOwnNothing, ShutdownIsSomewhere, RunningTasksAreRegistered,
        ClearedSetsStayCancelled, EntryLostMeansRemoved, ScreenMatchesEntry, DoneMeansPopped
<1> DEFINE empty == {k \in tracked \ seen : collection[k] = {}}
           visited == {m \in Messages : collection'[m] # collection[m]}
<1>1. Cardinality(tracked) \in Nat
  BY SizesAreNat
<1>2. /\ collection' \in [Messages -> {{}, Controls}]
      /\ onScreen' \in [Messages -> SUBSET (Controls \cup {"cleanup"})]
      /\ \A m \in Messages : onScreen'[m] \subseteq onScreen[m]
      /\ \A m \in Messages : collection'[m] \subseteq collection[m]
      /\ \A m \in visited : m \in seen /\ collection'[m] = {} /\ onScreen'[m] \cap Controls = {}
  OBVIOUS
<1>3. /\ FreshCommandsOwnNothing' /\ RunningTasksAreRegistered'
      /\ EntryLostMeansRemoved' /\ DoneMeansPopped'
  BY <1>2
<1>4. CASE /\ status' = [k \in Messages |-> IF k \in empty THEN "stop" ELSE status[k]]
           /\ sd' = SdAt("down")
  <2>1. TypeOK' /\ ShutdownIsSomewhere' /\ ClearedSetsStayCancelled'
    BY <1>2, <1>4 DEF SdAt
  <2>2. ScreenMatchesEntry'
    BY <1>2, <1>4 DEF SdAt
  <2> QED
    BY <1>3, <2>1, <2>2
<1>5. ASSUME NEW k \in tracked \ seen, collection[k] # {},
             status' = [j \in Messages |-> IF j \in empty \cup {k} THEN "stop" ELSE status[j]],
             sd' = [pc |-> "redacting", key |-> k, seen |-> seen \cup empty \cup {k},
                    size |-> Cardinality(tracked), left |-> collection[k]]
      PROVE  IInv'
  <2>1. /\ k \in Messages /\ Started(k) /\ k \notin visited
        /\ collection[k] = Controls /\ collection'[k] = Controls
    BY <1>2, <1>5
  <2>2. status' \in [Messages -> Controls]
    BY <1>5
  <2>3. sd' \in [pc : {"up", "clearing", "redacting", "down", "failed"},
                key : Messages \cup {NoMessage}, seen : SUBSET Messages,
                size : Nat, left : SUBSET Controls]
    BY <1>1, <1>5, <2>1
  <2>4. TypeOK'
    BY <1>2, <2>2, <2>3
  <2>5. ShutdownIsSomewhere' /\ ClearedSetsStayCancelled'
    BY <1>5, <2>1
  <2>6. ScreenMatchesEntry'
    BY <1>2, <1>5, <2>1
  <2> QED
    BY <1>3, <2>4, <2>5, <2>6
<1> QED
  BY <1>4, <1>5 DEF VisitEntry

\* shutdown() cancels the tasks of one more set.
LEMMA VisitSetIInv ==
    ASSUME IInv, NEW k \in tasksSets, NEW seen \in SUBSET Messages, VisitSet(k, seen),
           \A m \in seen : Started(m) /\ live[m] = {},
           UNCHANGED <<pc, tracked, collection, onScreen, left, tasksSets, live, userVars>>
    PROVE  IInv'
<1> USE TaskControllerAssumption
    DEF IInv, TypeOK, Controls, Places, Goto, Started, entryVars, taskVars, userVars,
        FreshCommandsOwnNothing, ShutdownIsSomewhere, RunningTasksAreRegistered,
        ClearedSetsStayCancelled, EntryLostMeansRemoved, ScreenMatchesEntry, DoneMeansPopped
<1>1. Cardinality(tasksSets) \in Nat
  BY SizesAreNat
<1>2. k \in Messages /\ Started(k)
  OBVIOUS
<1>3. TypeOK'
  BY <1>1, <1>2 DEF VisitSet, CancelAll
<1>4. FreshCommandsOwnNothing' /\ ShutdownIsSomewhere' /\ ClearedSetsStayCancelled'
  BY <1>2 DEF VisitSet, CancelAll
<1>5. ScreenMatchesEntry'
  BY DEF VisitSet, CancelAll
<1>6. RunningTasksAreRegistered' /\ EntryLostMeansRemoved' /\ DoneMeansPopped'
  BY DEF VisitSet, CancelAll
<1> QED
  BY <1>3, <1>4, <1>5, <1>6

\* shutdown() ends with an exception.
LEMMA ShutdownFailedIInv ==
    ASSUME IInv, sd' = SdAt("failed"), UNCHANGED <<pc, tracked, status, left, taskVars, userVars>>,
           \/ UNCHANGED <<collection, onScreen>>
           \/ \E r \in Controls :
                /\ sd.pc = "redacting"
                /\ onScreen' = [onScreen EXCEPT ![sd.key] = @ \ {r}]
                /\ \/ collection' = collection
                   \/ /\ sd.left = {r} /\ collection[sd.key] # {}
                      /\ collection' = [collection EXCEPT ![sd.key] = {}]
    PROVE  IInv'
<1> USE TaskControllerAssumption
    DEF IInv, TypeOK, Controls, Places, Goto, Started, entryVars, taskVars, userVars,
        FreshCommandsOwnNothing, ShutdownIsSomewhere, RunningTasksAreRegistered,
        ClearedSetsStayCancelled, EntryLostMeansRemoved, ScreenMatchesEntry, DoneMeansPopped
<1>1. /\ collection' \in [Messages -> {{}, Controls}]
      /\ onScreen' \in [Messages -> SUBSET (Controls \cup {"cleanup"})]
      /\ \A m \in Messages : onScreen'[m] \subseteq onScreen[m]
      /\ \A m \in Messages : collection'[m] \subseteq collection[m]
      /\ \A m \in Messages : collection'[m] # collection[m] => onScreen'[m] \cap Controls = {}
  OBVIOUS
<1>2. TypeOK'
  BY <1>1 DEF SdAt
<1>3. ScreenMatchesEntry'
  BY <1>1 DEF SdAt
<1>4. FreshCommandsOwnNothing' /\ ShutdownIsSomewhere' /\ ClearedSetsStayCancelled'
  BY <1>1 DEF SdAt
<1>5. RunningTasksAreRegistered' /\ EntryLostMeansRemoved' /\ DoneMeansPopped'
  OBVIOUS
<1> QED
  BY <1>2, <1>3, <1>4, <1>5

\* When gather returns to shutdown() no set that it visited runs a task.
LEMMA VisitedSetsAreIdle ==
    ASSUME IInv, sd.pc = "clearing", live[sd.key] \cap cancelled[sd.key] = {}
    PROVE  sd.seen \subseteq Messages /\ \A m \in sd.seen : Started(m) /\ live[m] = {}
<1>1. sd.key \in sd.seen /\ sd.seen \subseteq Messages
  BY DEF IInv, TypeOK, ShutdownIsSomewhere
<1>2. live[sd.key] = {}
  BY <1>1 DEF IInv, ClearedSetsStayCancelled
<1> QED
  BY <1>1, <1>2 DEF IInv, ShutdownIsSomewhere

LEMMA ShutdownIInv == IInv /\ (Shutdown \/ ShutdownFails) => IInv'
<1> SUFFICES ASSUME IInv, Shutdown \/ ShutdownFails PROVE IInv'
  OBVIOUS
<1>1. CASE ShutdownBegins
  <2>1. CASE \E k \in tasksSets : VisitSet(k, {})
    BY <1>1, <2>1, VisitSetIInv DEF ShutdownBegins
  <2>2. CASE tasksSets = {} /\ VisitEntry({}) /\ UNCHANGED cancelled
    BY <1>1, <2>2, VisitEntryIInv DEF ShutdownBegins, taskVars
  <2> QED
    BY <1>1, <2>1, <2>2 DEF ShutdownBegins
<1>2. CASE ShutdownSetCleared
  <2>1. sd.seen \subseteq Messages /\ \A m \in sd.seen : Started(m) /\ live[m] = {}
    BY <1>2, VisitedSetsAreIdle DEF ShutdownSetCleared, Gathered
  <2>2. CASE sd' = SdAt("failed") /\ UNCHANGED <<status, cancelled>>
    BY <1>2, <2>2, ShutdownFailedIInv DEF ShutdownSetCleared, Gathered, entryVars, taskVars
  <2>3. CASE \E k \in tasksSets \ sd.seen : VisitSet(k, sd.seen)
    BY <1>2, <2>1, <2>3, VisitSetIInv DEF ShutdownSetCleared, Gathered
  <2>4. CASE VisitEntry({}) /\ UNCHANGED cancelled
    BY <1>2, <2>4, VisitEntryIInv DEF ShutdownSetCleared, Gathered, taskVars
  <2> QED
    BY <1>2, <2>2, <2>3, <2>4 DEF ShutdownSetCleared, Gathered
<1>3. CASE \E r \in Controls : ShutdownRedacts(r)
  <2>1. PICK r \in Controls : ShutdownRedacts(r)
    BY <1>3
  <2>2. CASE sd' = SdAt("failed") /\ UNCHANGED <<status, collection>>
    BY <2>1, <2>2, ShutdownFailedIInv DEF ShutdownRedacts, entryVars
  <2>3. CASE sd.left # {r} /\ sd' = [sd EXCEPT !.left = @ \ {r}] /\ UNCHANGED <<status, collection>>
    <3> USE DEF IInv, ShutdownRedacts, taskVars, userVars, Started
    <3>1. TypeOK' /\ ShutdownIsSomewhere' /\ ScreenMatchesEntry'
      BY <2>1, <2>3 DEF TypeOK, ShutdownIsSomewhere, ScreenMatchesEntry
    <3>2. FreshCommandsOwnNothing' /\ ClearedSetsStayCancelled' /\ RunningTasksAreRegistered'
      BY <2>1, <2>3 DEF FreshCommandsOwnNothing, ClearedSetsStayCancelled, RunningTasksAreRegistered
    <3>3. EntryLostMeansRemoved' /\ DoneMeansPopped'
      BY <2>1, <2>3 DEF EntryLostMeansRemoved, DoneMeansPopped
    <3> QED
      BY <3>1, <3>2, <3>3
  <2>4. CASE /\ collection[sd.key] # {} /\ sd.left = {r}
             /\ collection' = [collection EXCEPT ![sd.key] = {}]
    <3>1. CASE VisitEntry(sd.seen)
      <4>1. sd.seen \in SUBSET Messages /\ sd.key \in sd.seen
        BY <2>1 DEF ShutdownRedacts, IInv, TypeOK, ShutdownIsSomewhere
      <4> QED
        BY <2>1, <2>4, <3>1, <4>1, VisitEntryIInv DEF ShutdownRedacts
    <3>2. CASE sd' = SdAt("failed") /\ UNCHANGED status
      BY <2>1, <2>4, <3>2, ShutdownFailedIInv DEF ShutdownRedacts
    <3> QED
      BY <2>1, <2>4, <3>1, <3>2 DEF ShutdownRedacts
  <2> QED
    BY <2>1, <2>2, <2>3, <2>4 DEF ShutdownRedacts
<1>4. CASE ShutdownFails
  BY <1>4, ShutdownFailedIInv DEF ShutdownFails, entryVars
<1> QED
  BY <1>1, <1>2, <1>3, <1>4 DEF Shutdown

LEMMA NextIInv == IInv /\ [Next]_vars => IInv'
<1> SUFFICES ASSUME IInv, [Next]_vars PROVE IInv'
  OBVIOUS
<1>1. ASSUME NEW m \in Messages,
             \/ CommandStep(m) \/ WorkDone(m) \/ ClientFails(m)
             \/ UserStep(m) \/ MessageRemoved(m) \/ RemovalFails(m)
             \/ \E w \in Workers : TaskEnds(m, w) \/ AddRetryWorker(m, w)
      PROVE  IInv'
  BY <1>1, SetUpIInv, CancelIInv, TasksAndUsersIInv DEF CommandStep
<1>2. CASE Shutdown \/ ShutdownFails
  BY <1>2, ShutdownIInv
<1>3. CASE UNCHANGED vars
  BY <1>3 DEF vars, IInv, TypeOK, Started, entryVars, taskVars, userVars,
        FreshCommandsOwnNothing, ShutdownIsSomewhere, RunningTasksAreRegistered,
        ClearedSetsStayCancelled, EntryLostMeansRemoved, ScreenMatchesEntry, DoneMeansPopped
<1> QED
  BY <1>1, <1>2, <1>3 DEF Next

-----------------------------------------------------------------------------
\* The inductive invariant holds in every state.
THEOREM Inductive == Spec => []IInv
  BY InitIInv, NextIInv, PTL DEF Spec

\* Every variable keeps its type.
THEOREM TypeCorrect == Spec => []TypeOK
<1>1. IInv => TypeOK
  BY DEF IInv
<1> QED
  BY <1>1, Inductive, PTL

\* A running task is in a task set that cancel() and shutdown() can find.
THEOREM TasksAreRegistered == Spec => []RunningTasksAreRegistered
<1>1. IInv => RunningTasksAreRegistered
  BY DEF IInv
<1> QED
  BY <1>1, Inductive, PTL

\* The gather of clear_all_tasks waits for every task that is running.
THEOREM GatherIsComplete == Spec => []GatherMissesNoTask
<1>1. IInv => GatherMissesNoTask
  BY DEF IInv, GatherMissesNoTask, ClearedSetsStayCancelled, ShutdownIsSomewhere
<1> QED
  BY <1>1, Inductive, PTL

\* A cancel() that returned has left no entry, task set, task or control.
THEOREM CancelIsComplete == Spec => []CancelLeavesNothing
<1>1. IInv => CancelLeavesNothing
  BY DEF IInv, CancelLeavesNothing, RunningTasksAreRegistered, EntryLostMeansRemoved,
         ScreenMatchesEntry, DoneMeansPopped
<1> QED
  BY <1>1, Inductive, PTL

\* shutdown() leaves no registered set with a running task behind.
THEOREM ShutdownIsThorough == Spec => ShutdownClearsEverySet
<1>1. IInv /\ [Next]_vars =>
        [sd.pc = "clearing" /\ sd'.pc \in {"redacting", "down"}
           => \A m \in tasksSets : live[m] = {}]_vars
  <2> SUFFICES ASSUME IInv, Next, sd.pc = "clearing", sd'.pc \in {"redacting", "down"}
               PROVE  \A m \in tasksSets : live[m] = {}
    OBVIOUS
  <2>1. sd' # sd /\ sd' # SdAt("failed")
    BY DEF SdAt
  <2>2. ShutdownSetCleared
    BY <2>1 DEF Next, CommandStep, UserStep, Shutdown, ShutdownFails, ShutdownBegins,
         ShutdownRedacts, SetupControlReactions, TrackAndStart, PlaceControl, RedactControl,
         SeeStop, CancelTracked, CancelUntracked, AddCleanupControl, TasksGathered, WorkDone,
         ClientFails, UserReacts, UserRemoves, MessageRemoved, RemovalFails, TaskEnds,
         AddRetryWorker
  <2>3. ~ \E k \in tasksSets \ sd.seen : VisitSet(k, sd.seen)
    BY DEF VisitSet, CancelAll, IInv, TypeOK
  <2>4. tasksSets \subseteq sd.seen
    BY <2>1, <2>2, <2>3 DEF ShutdownSetCleared, Gathered
  <2> QED
    BY <2>2, <2>4, VisitedSetsAreIdle DEF ShutdownSetCleared, Gathered
<1> QED
  BY <1>1, Inductive, PTL DEF Spec, ShutdownClearsEverySet
=============================================================================
