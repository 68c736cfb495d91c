-------------------------- MODULE WorkerPool_proofs --------------------------
(***************************************************************************)
(* Invariance proofs for WorkerPool, for any events and any requested      *)
(* sequence, and the proof that it implements Gather.                      *)
(***************************************************************************)
EXTENDS WorkerPool, FiniteSetTheorems, SequenceTheorems, TLAPS

\* A worker holds an event id exactly from taking it to finishing it; a
\* cancelled worker may have been interrupted at any place.
HandsMatchPlaces ==
    \A w \in Workers :
        /\ at[w] \in {"notStarted", "get"} => held[w] = NoEvent
        /\ at[w] \in {"request", "version", "past", "dead"} => held[w] # NoEvent

\* The phases of the call: the set is registered only while it waits in join,
\* and after join nothing is outstanding any more.
PhasesMatch ==
    /\ caller = "start" =>
          /\ taskSet = "none" /\ queue = <<>>
          /\ \A w \in Workers : at[w] = "notStarted"
    /\ caller # "start" => \A w \in Workers : at[w] # "notStarted"
    /\ taskSet = "registered" => caller = "joining"
    /\ caller \in {"cancelling", "returned"} => unfinished = 0

IInv ==
    /\ TypeOK
    /\ HandsMatchPlaces
    /\ PhasesMatch
    /\ UnfinishedIsOutstanding
    /\ NoEventIsDropped

-----------------------------------------------------------------------------
LEMMA WorkersFinite == IsFiniteSet(Workers) /\ Workers \subseteq Nat
<1>1. Len(Requested) \in Nat
  BY WorkerPoolAssumption, LenProperties
<1>2. (IF Len(Requested) < 3 THEN Len(Requested) ELSE 3) \in Int
  BY <1>1
<1> QED
  BY <1>1, <1>2, FS_Interval DEF Workers

\* The requested sequence is a sequence of wanted events.
LEMMA RequestedType ==
    /\ Requested \in Seq(Wanted)
    /\ NoEvent \notin Wanted
    /\ Wanted \subseteq Events
<1>1. /\ Len(Requested) \in Nat
      /\ Requested \in [1 .. Len(Requested) -> Events]
  BY WorkerPoolAssumption, LenProperties
<1>2. Requested \in [1 .. Len(Requested) -> Wanted]
  BY <1>1 DEF Wanted
<1>3. Requested \in Seq(Wanted)
  BY <1>1, <1>2
<1> QED
  BY <1>1, <1>3, WorkerPoolAssumption DEF Wanted

\* Taking the head of the queue: what it is, and what is left.
LEMMA HeadTail ==
    ASSUME NEW S, NEW q \in Seq(S), q # <<>>
    PROVE  /\ Head(q) \in S
           /\ Tail(q) \in Seq(S)
           /\ Len(Tail(q)) = Len(q) - 1
           /\ \A i \in 1 .. Len(q) :
                 q[i] = Head(q) \/ \E j \in 1 .. Len(Tail(q)) : Tail(q)[j] = q[i]
<1>1. Len(q) \in Nat \ {0} /\ q \in [1 .. Len(q) -> S]
  BY EmptySeq, LenProperties
<1>2. Head(q) = q[1] /\ Head(q) \in S /\ Tail(q) \in Seq(S) /\ Len(Tail(q)) = Len(q) - 1
  BY <1>1
<1>3. \A j \in 1 .. Len(q) - 1 : Tail(q)[j] = q[j + 1]
  BY <1>1
<1>4. ASSUME NEW i \in 1 .. Len(q), i # 1
      PROVE  \E j \in 1 .. Len(Tail(q)) : Tail(q)[j] = q[i]
  <2>1. i - 1 \in 1 .. Len(q) - 1 /\ (i - 1) + 1 = i
    BY <1>1, <1>4
  <2> QED
    BY <2>1, <1>2, <1>3
<1> QED
  BY <1>2, <1>4

\* The workers with an event in hand form a finite set.
LEMMA BusyFinite == IsFiniteSet(Busy) /\ Cardinality(Busy) \in Nat
  BY WorkersFinite, FS_Subset, FS_CardinalityType DEF Busy

-----------------------------------------------------------------------------
LEMMA InitIInv == Init => IInv
<1> SUFFICES ASSUME Init PROVE IInv
  OBVIOUS
<1> USE DEF Init
<1>1. TypeOK
  BY EmptySeq DEF TypeOK
<1>2. HandsMatchPlaces
  BY DEF HandsMatchPlaces
<1>3. PhasesMatch
  BY DEF PhasesMatch
<1>4. UnfinishedIsOutstanding
  <2>1. Busy = {}
    BY DEF Busy
  <2> QED
    BY <2>1, FS_EmptySet, EmptySeq DEF UnfinishedIsOutstanding
<1>5. NoEventIsDropped
  BY DEF NoEventIsDropped
<1> QED
  BY <1>1, <1>2, <1>3, <1>4, <1>5 DEF IInv

LEMMA StartIInv == IInv /\ Start => IInv'
<1> SUFFICES ASSUME IInv, Start PROVE IInv'
  OBVIOUS
<1>1. /\ Len(Requested) \in Nat /\ Requested \in Seq(Wanted)
      /\ TypeOK /\ Busy = {}
  BY RequestedType, LenProperties DEF IInv, Start, PhasesMatch, HandsMatchPlaces, Busy
<1>2. TypeOK'
  BY <1>1 DEF TypeOK, Start, caches
<1>3. HandsMatchPlaces'
  BY DEF IInv, HandsMatchPlaces, PhasesMatch, Start
<1>4. PhasesMatch'
  BY DEF PhasesMatch, Start
<1>5. UnfinishedIsOutstanding'
  <2>1. Busy' = {}
    BY <1>1 DEF Busy, Start
  <2> QED
    BY <2>1, <1>1, FS_EmptySet DEF UnfinishedIsOutstanding, Start
<1>6. NoEventIsDropped'
  BY DEF NoEventIsDropped, InQueue, Wanted, Start
<1> QED
  BY <1>2, <1>3, <1>4, <1>5, <1>6 DEF IInv

\* A worker that finishes the event in its hands: one held event less, one
\* unfinished event less, and the event has an answer.
LEMMA FinishHeldIInv ==
    ASSUME IInv, NEW w \in Workers,
           Awaiting(w, "request") \/ Awaiting(w, "version") \/ Awaiting(w, "past"),
           NEW a \in {"event", "error"}, Finish(w, held[w], a),
           queue' = queue, cached' \subseteq Wanted, versionCached' \in {"empty", "none", "known"}
    PROVE  IInv'
<1>1. held[w] \in Wanted /\ held[w] # NoEvent /\ w \in Busy
  BY DEF IInv, TypeOK, HandsMatchPlaces, Awaiting, Busy
<1>2. Busy' = Busy \ {w}
  BY DEF Busy, Finish, IInv, TypeOK
<1>3. /\ Cardinality(Busy') = Cardinality(Busy) - 1
      /\ Cardinality(Busy') \in Nat
  BY <1>1, <1>2, BusyFinite, FS_RemoveElement, FS_CardinalityType
<1>4. UnfinishedIsOutstanding' /\ unfinished' \in Nat
  <2>1. Len(queue) \in Nat
    BY LenProperties DEF IInv, TypeOK
  <2>2. unfinished = Len(queue) + Cardinality(Busy) /\ unfinished' = unfinished - 1
    BY DEF IInv, UnfinishedIsOutstanding, Finish
  <2>3. unfinished' = Len(queue') + Cardinality(Busy')
    BY <2>1, <2>2, <1>3, BusyFinite
  <2> QED
    BY <2>1, <2>3, <1>3 DEF UnfinishedIsOutstanding
<1>5. TypeOK'
  BY <1>1, <1>4 DEF IInv, TypeOK, Finish
<1>6. HandsMatchPlaces'
  BY DEF IInv, TypeOK, HandsMatchPlaces, Finish
<1>7. PhasesMatch'
  BY DEF IInv, TypeOK, PhasesMatch, Finish, Awaiting
<1>8. NoEventIsDropped'
  BY <1>1 DEF IInv, TypeOK, NoEventIsDropped, InQueue, Finish
<1> QED
  BY <1>4, <1>5, <1>6, <1>7, <1>8 DEF IInv

LEMMA ServeFromCacheIInv ==
    ASSUME IInv, NEW w \in Workers, ServeFromCache(w)
    PROVE  IInv'
<1> DEFINE e == Head(queue)
<1>1. /\ e \in Wanted /\ Tail(queue) \in Seq(Wanted)
      /\ Len(queue) \in Nat /\ Len(Tail(queue)) = Len(queue) - 1 /\ Len(Tail(queue)) \in Nat
      /\ \A i \in 1 .. Len(queue) :
            queue[i] = e \/ \E j \in 1 .. Len(Tail(queue)) : Tail(queue)[j] = queue[i]
  BY HeadTail, LenProperties DEF IInv, TypeOK, ServeFromCache
<1>2. held[w] = NoEvent /\ Busy' = Busy
  BY DEF IInv, TypeOK, HandsMatchPlaces, ServeFromCache, Awaiting, Finish, Busy
<1>3. UnfinishedIsOutstanding' /\ unfinished' \in Nat
  <2>1. unfinished' = Len(queue') + Cardinality(Busy')
    BY <1>1, <1>2, BusyFinite DEF IInv, UnfinishedIsOutstanding, ServeFromCache, Finish
  <2> QED
    BY <2>1, <1>1, <1>2, BusyFinite DEF UnfinishedIsOutstanding, ServeFromCache
<1>4. TypeOK'
  BY <1>1, <1>3 DEF IInv, TypeOK, ServeFromCache, Finish, caches
<1>5. HandsMatchPlaces'
  BY DEF IInv, TypeOK, HandsMatchPlaces, ServeFromCache, Finish
<1>6. PhasesMatch'
  BY DEF IInv, TypeOK, PhasesMatch, ServeFromCache, Finish, Awaiting
<1>7. NoEventIsDropped'
  BY <1>1, <1>2 DEF IInv, TypeOK, NoEventIsDropped, InQueue, ServeFromCache, Finish
<1> QED
  BY <1>3, <1>4, <1>5, <1>6, <1>7 DEF IInv

LEMMA RequestEventIInv ==
    ASSUME IInv, NEW w \in Workers, RequestEvent(w)
    PROVE  IInv'
<1> DEFINE e == Head(queue)
<1>1. /\ e \in Wanted /\ Tail(queue) \in Seq(Wanted) /\ e # NoEvent
      /\ Len(queue) \in Nat /\ Len(Tail(queue)) = Len(queue) - 1
      /\ \A i \in 1 .. Len(queue) :
            queue[i] = e \/ \E j \in 1 .. Len(Tail(queue)) : Tail(queue)[j] = queue[i]
  BY HeadTail, LenProperties, RequestedType DEF IInv, TypeOK, RequestEvent
<1>2. w \notin Busy /\ Busy' = Busy \cup {w}
  BY <1>1 DEF IInv, TypeOK, HandsMatchPlaces, RequestEvent, Awaiting, Busy
<1>3. Cardinality(Busy') = Cardinality(Busy) + 1
  BY <1>2, BusyFinite, FS_AddElement
<1>4. UnfinishedIsOutstanding'
  BY <1>1, <1>3, BusyFinite DEF IInv, UnfinishedIsOutstanding, RequestEvent
<1>5. TypeOK'
  BY <1>1 DEF IInv, TypeOK, RequestEvent, caches
<1>6. HandsMatchPlaces'
  BY <1>1 DEF IInv, TypeOK, HandsMatchPlaces, RequestEvent
<1>7. PhasesMatch'
  BY DEF IInv, TypeOK, PhasesMatch, RequestEvent, Awaiting
<1>8. NoEventIsDropped'
  <2>1. \A v \in Workers : held[v] # NoEvent => held'[v] = held[v]
    BY <1>2 DEF IInv, TypeOK, RequestEvent, Busy
  <2>2. held'[w] = e
    BY DEF IInv, TypeOK, RequestEvent
  <2> QED
    BY <1>1, <2>1, <2>2, RequestedType DEF IInv, NoEventIsDropped, InQueue, RequestEvent
<1> QED
  BY <1>4, <1>5, <1>6, <1>7, <1>8 DEF IInv

\* Steps that leave the queue, the hands and the mapping alone.
LEMMA QuietIInv ==
    ASSUME IInv, UNCHANGED <<queue, unfinished, held, result>>,
           TypeOK', HandsMatchPlaces', PhasesMatch', caller # "start"
    PROVE  IInv'
<1>1. Busy' = Busy
  BY DEF Busy
<1>2. UnfinishedIsOutstanding'
  BY <1>1 DEF IInv, UnfinishedIsOutstanding
<1>3. NoEventIsDropped'
  BY DEF IInv, NoEventIsDropped, InQueue
<1> QED
  BY <1>2, <1>3 DEF IInv

LEMMA NextIInv == IInv /\ [Next]_vars => IInv'
<1> SUFFICES ASSUME IInv, [Next]_vars PROVE IInv'
  OBVIOUS
<1>1. CASE Start
  BY <1>1, StartIInv
<1>2. CASE StopPlugin
  <2>1. TypeOK' /\ HandsMatchPlaces' /\ PhasesMatch' /\ caller # "start"
    BY <1>2 DEF IInv, TypeOK, HandsMatchPlaces, PhasesMatch, StopPlugin, pool, caches
  <2> QED
    BY <1>2, <2>1, QuietIInv DEF StopPlugin, pool
<1>3. CASE Joined
  <2>1. TypeOK' /\ HandsMatchPlaces' /\ PhasesMatch' /\ caller # "start"
    BY <1>3 DEF IInv, TypeOK, HandsMatchPlaces, PhasesMatch, Joined, pool, caches
  <2> QED
    BY <1>3, <2>1, QuietIInv DEF Joined, pool
<1>4. CASE Return
  <2>1. TypeOK' /\ HandsMatchPlaces' /\ PhasesMatch' /\ caller # "start"
    BY <1>4 DEF IInv, TypeOK, HandsMatchPlaces, PhasesMatch, Return, pool, caches
  <2> QED
    BY <1>4, <2>1, QuietIInv DEF Return, pool
<1>5. ASSUME NEW w \in Workers, WorkerStep(w) \/ NoVersionFound(w) \/ WorkerRaises(w)
      PROVE  IInv'
  <2>1. CASE ServeFromCache(w)
    BY <2>1, ServeFromCacheIInv
  <2>2. CASE RequestEvent(w)
    BY <2>2, RequestEventIInv
  <2>3. CASE ResponseError(w)
    <3>1. cached' \subseteq Wanted /\ versionCached' \in {"empty", "none", "known"}
      BY <2>3 DEF ResponseError, caches, IInv, TypeOK
    <3> QED
      BY <2>3, <3>1, FinishHeldIInv DEF ResponseError
  <2>4. CASE ResponsePDU(w)
    <3>1. cached' \subseteq Wanted /\ versionCached' \in {"empty", "none", "known"}
      BY <2>4 DEF ResponsePDU, IInv, TypeOK, HandsMatchPlaces, Awaiting
    <3> QED
      BY <2>4, <3>1, FinishHeldIInv DEF ResponsePDU
  <2>5. CASE RoomVersionFound(w)
    <3>1. cached' \subseteq Wanted /\ versionCached' \in {"empty", "none", "known"}
      BY <2>5 DEF RoomVersionFound, Stored, IInv, TypeOK, HandsMatchPlaces, Awaiting
    <3> QED
      BY <2>5, <3>1, FinishHeldIInv DEF RoomVersionFound
  <2>6. CASE AskRoomVersion(w)
    <3>1. TypeOK' /\ HandsMatchPlaces' /\ PhasesMatch' /\ caller # "start"
      BY <2>6 DEF IInv, TypeOK, HandsMatchPlaces, PhasesMatch, AskRoomVersion, Awaiting, caches
    <3> QED
      BY <2>6, <3>1, QuietIInv DEF AskRoomVersion
  <2>7. CASE WorkerRaises(w)
    <3>1. TypeOK' /\ HandsMatchPlaces' /\ PhasesMatch' /\ caller # "start"
      BY <2>7 DEF IInv, TypeOK, HandsMatchPlaces, PhasesMatch, WorkerRaises, Awaiting, caches
    <3> QED
      BY <2>7, <3>1, QuietIInv DEF WorkerRaises
  <2>8. CASE WorkerCancelled(w)
    <3>1. TypeOK' /\ HandsMatchPlaces' /\ PhasesMatch' /\ caller # "start"
      BY <2>8 DEF IInv, TypeOK, HandsMatchPlaces, PhasesMatch, WorkerCancelled, caches
    <3> QED
      BY <2>8, <3>1, QuietIInv DEF WorkerCancelled
  <2>9. CASE JoinRefused(w)
    <3>1. TypeOK' /\ HandsMatchPlaces' /\ PhasesMatch' /\ caller # "start"
      BY <2>9 DEF IInv, TypeOK, HandsMatchPlaces, PhasesMatch, JoinRefused, Awaiting, caches
    <3> QED
      BY <2>9, <3>1, QuietIInv DEF JoinRefused
  <2>10. CASE NoVersionFound(w)
    <3>1. TypeOK' /\ HandsMatchPlaces' /\ PhasesMatch' /\ caller # "start"
      BY <2>10 DEF IInv, TypeOK, HandsMatchPlaces, PhasesMatch, NoVersionFound, Stored, Awaiting
    <3> QED
      BY <2>10, <3>1, QuietIInv DEF NoVersionFound
  <2> QED
    BY <1>5, <2>1, <2>2, <2>3, <2>4, <2>5, <2>6, <2>7, <2>8, <2>9, <2>10 DEF WorkerStep
<1>6. CASE UNCHANGED vars
  BY <1>6 DEF IInv, TypeOK, HandsMatchPlaces, PhasesMatch, UnfinishedIsOutstanding,
              NoEventIsDropped, InQueue, Busy, vars, pool, caches
<1> QED
  BY <1>1, <1>2, <1>3, <1>4, <1>5, <1>6 DEF Next, CallerStep

-----------------------------------------------------------------------------
\* The type invariant and the bookkeeping of the pool hold in every state.
THEOREM Inductive == Spec => []IInv
<1>1. Init => IInv
  BY InitIInv
<1>2. IInv /\ [Next]_vars => IInv'
  BY NextIInv
<1> QED
  BY <1>1, <1>2, PTL DEF Spec

\* Every variable keeps its type (the queue only ever holds requested ids).
THEOREM TypeCorrect == Spec => []TypeOK
<1>1. IInv => TypeOK
  BY DEF IInv
<1> QED
  BY <1>1, Inductive, PTL

\* queue.join() counts exactly what is queued or in the hands of a worker.
THEOREM JoinCounts == Spec => []UnfinishedIsOutstanding
<1>1. IInv => UnfinishedIsOutstanding
  BY DEF IInv
<1> QED
  BY <1>1, Inductive, PTL

\* A requested event is queued, held or answered: none is dropped.
THEOREM NothingDropped == Spec => []NoEventIsDropped
<1>1. IInv => NoEventIsDropped
  BY DEF IInv
<1> QED
  BY <1>1, Inductive, PTL

\* When nothing is unfinished the queue and all hands are empty.
LEMMA NothingOutstanding ==
    ASSUME IInv, unfinished = 0
    PROVE  Len(queue) = 0 /\ \A w \in Workers : held[w] = NoEvent
<1>1. Len(queue) \in Nat /\ IsFiniteSet(Busy) /\ Cardinality(Busy) \in Nat
  BY LenProperties, BusyFinite DEF IInv, TypeOK
<1>2. Len(queue) = 0 /\ Cardinality(Busy) = 0
  BY <1>1 DEF IInv, UnfinishedIsOutstanding
<1>3. Busy = {}
  BY <1>1, <1>2, FS_EmptySet
<1> QED
  BY <1>2, <1>3 DEF Busy

LEMMA JoinedFacts ==
    ASSUME IInv, caller \in {"cancelling", "returned"}
    PROVE  /\ \A e \in Wanted : result[e] # "none"
           /\ \A w \in Workers : at[w] \in {"get", "cancelled"}
<1>1. unfinished = 0 /\ \A w \in Workers : at[w] # "notStarted"
  BY DEF IInv, PhasesMatch
<1>2. Len(queue) = 0 /\ \A w \in Workers : held[w] = NoEvent
  BY <1>1, NothingOutstanding
<1>3. ASSUME NEW e \in Wanted PROVE result[e] # "none"
  <2>1. e \notin InQueue
    BY <1>2 DEF InQueue
  <2>2. e # NoEvent
    BY RequestedType
  <2> QED
    BY <1>2, <2>1, <2>2 DEF IInv, NoEventIsDropped
<1>4. \A w \in Workers : at[w] \in {"get", "cancelled"}
  BY <1>1, <1>2 DEF IInv, TypeOK, HandsMatchPlaces
<1> QED
  BY <1>3, <1>4

\* join() returns only when every requested event has an answer, and cancel() finds
\* the workers with nothing in hand.
THEOREM JoinIsComplete == Spec => []JoinedIsComplete
<1>1. IInv => JoinedIsComplete
  BY JoinedFacts DEF JoinedIsComplete
<1> QED
  BY <1>1, Inductive, PTL

\* Only Events enter the events cache, never an EventError.
THEOREM CacheHoldsEvents == Spec => OnlyEventsAreCached
<1>1. IInv /\ [Next]_vars =>
        [\A e \in Wanted : e \in cached' \ cached => result'[e] = "event"]_vars
  <2> SUFFICES ASSUME IInv, Next, NEW e \in Wanted, e \in cached' \ cached
               PROVE  result'[e] = "event"
    OBVIOUS
  <2>1. PICK w \in Workers : ResponsePDU(w) \/ RoomVersionFound(w)
    BY DEF Next, CallerStep, Start, Joined, Return, StopPlugin, WorkerStep, WorkerRaises,
           ServeFromCache, RequestEvent, ResponseError, AskRoomVersion, JoinRefused,
           NoVersionFound, WorkerCancelled, caches
  <2>2. e = held[w]
    BY <2>1 DEF ResponsePDU, RoomVersionFound
  <2> QED
    BY <2>1, <2>2 DEF IInv, TypeOK, ResponsePDU, RoomVersionFound, Finish
<1> QED
  BY <1>1, Inductive, PTL DEF Spec, OnlyEventsAreCached

\* A version in the cache is never replaced by the None of another worker.
THEOREM VersionsAreKept == Spec => VersionIsKept
<1>1. IInv /\ [Next]_vars =>
        [versionCached = "known" => versionCached' = "known"]_versionCached
  <2> SUFFICES ASSUME Next, versionCached = "known"
               PROVE  versionCached' = "known"
    BY DEF vars, caches
  <2>1. ASSUME NEW w \in Workers, RoomVersionFound(w) \/ NoVersionFound(w)
        PROVE  versionCached' = "known"
    BY <2>1 DEF RoomVersionFound, NoVersionFound, Stored
  <2>2. ASSUME NEW w \in Workers, WorkerStep(w) \/ WorkerRaises(w), ~RoomVersionFound(w)
        PROVE  versionCached' = "known"
    BY <2>2 DEF WorkerStep, WorkerRaises, ServeFromCache, RequestEvent, ResponseError,
                ResponsePDU, AskRoomVersion, JoinRefused, WorkerCancelled, caches
  <2> QED
    BY <2>1, <2>2 DEF Next, CallerStep, Start, Joined, Return, StopPlugin, caches
<1> QED
  BY <1>1, Inductive, PTL DEF Spec, VersionIsKept

-----------------------------------------------------------------------------
LEMMA FinishIsAnswer ==
    ASSUME IInv, NEW w \in Workers, taskSet = "registered",
           NEW e \in Wanted, NEW a \in {"event", "error"}, Finish(w, e, a)
    PROVE  Promise!Answer(e, a)
  BY DEF IInv, PhasesMatch, Finish, Promise!Answer

\* Every step of the pool is a step of Gather or leaves its state alone.
LEMMA StepRefines ==
    IInv /\ [Next]_vars => [Promise!Next]_<<result, caller = "returned">>
<1> SUFFICES ASSUME IInv, [Next]_vars
             PROVE  Promise!Next \/ UNCHANGED <<result, caller = "returned">>
  OBVIOUS
<1>1. CASE Return
  <2>1. \A e \in Wanted : result[e] # "none"
    BY <1>1, JoinedFacts DEF Return
  <2>2. Promise!Return
    BY <1>1, <2>1 DEF Return, Promise!Return
  <2> QED
    BY <2>2 DEF Promise!Next
<1>2. CASE Start \/ Joined \/ StopPlugin \/ UNCHANGED vars
  BY <1>2 DEF Start, Joined, StopPlugin, vars
<1>3. ASSUME NEW w \in Workers, WorkerStep(w) \/ NoVersionFound(w) \/ WorkerRaises(w)
      PROVE  Promise!Next \/ UNCHANGED <<result, caller = "returned">>
  <2>1. CASE ServeFromCache(w)
    <3>1. Head(queue) \in Wanted
      BY <2>1, HeadTail DEF IInv, TypeOK, ServeFromCache
    <3>2. Promise!Answer(Head(queue), "event")
      BY <2>1, <3>1, FinishIsAnswer DEF ServeFromCache, Awaiting
    <3> QED
      BY <3>1, <3>2 DEF Promise!Next
  <2>2. CASE ResponseError(w) \/ ResponsePDU(w) \/ RoomVersionFound(w)
    <3>1. held[w] \in Wanted /\ taskSet = "registered"
      BY <2>2 DEF IInv, TypeOK, HandsMatchPlaces, ResponseError, ResponsePDU,
                  RoomVersionFound, Awaiting
    <3>2. PICK a \in {"event", "error"} : Finish(w, held[w], a)
      BY <2>2 DEF ResponseError, ResponsePDU, RoomVersionFound
    <3>3. Promise!Answer(held[w], a)
      BY <3>1, <3>2, FinishIsAnswer
    <3> QED
      BY <3>1, <3>3 DEF Promise!Next
  <2>3. CASE \/ RequestEvent(w) \/ AskRoomVersion(w) \/ JoinRefused(w)
             \/ NoVersionFound(w) \/ WorkerRaises(w) \/ WorkerCancelled(w)
    BY <2>3 DEF RequestEvent, AskRoomVersion, JoinRefused, NoVersionFound, WorkerRaises,
                WorkerCancelled
  <2> QED
    BY <1>3, <2>1, <2>2, <2>3 DEF WorkerStep
<1> QED
  BY <1>1, <1>2, <1>3 DEF Next, CallerStep

\* get_events_from_server implements Gather: its answers arrive one by one, it
\* returns a complete mapping and that mapping does not change afterwards.
THEOREM ImplementsGather == Spec => GatherSpec
<1>1. Init => Promise!Init
  BY DEF Init, Promise!Init
<1>2. IInv /\ [Next]_vars => [Promise!Next]_<<result, caller = "returned">>
  BY StepRefines
<1> QED
  BY <1>1, <1>2, Inductive, PTL DEF Spec, GatherSpec, Promise!Spec
=============================================================================
