---------------------------- MODULE RoomWalk_proofs ----------------------------
(***************************************************************************)
(* Invariants of RoomWalk for rooms of any shape and size.                 *)
(***************************************************************************)
EXTENDS RoomWalk, FiniteSetTheorems, SequenceTheorems, TLAPS

-----------------------------------------------------------------------------
(***************************************************************************)
(* Queues as sets of what they hold.                                       *)
(***************************************************************************)
LEMMA EmptyHolds == ToSet(<<>>) = {}
BY DEF ToSet

LEMMA AppendHolds ==
    ASSUME NEW S, NEW q \in Seq(S), NEW x \in S
    PROVE  Append(q, x) \in Seq(S) /\ ToSet(Append(q, x)) = ToSet(q) \cup {x}
<1>1. /\ Len(q) \in Nat /\ DOMAIN q = 1..Len(q)
      /\ Append(q, x) \in Seq(S) /\ Len(Append(q, x)) = Len(q) + 1
      /\ \A i \in 1..Len(q) : Append(q, x)[i] = q[i]
      /\ Append(q, x)[Len(q) + 1] = x
  BY LenProperties, AppendProperties
<1>2. DOMAIN Append(q, x) = 1..(Len(q) + 1)
  BY <1>1, LenProperties
<1>3. ASSUME NEW y \in ToSet(Append(q, x)) PROVE y \in ToSet(q) \cup {x}
  <2>1. PICK i \in 1..(Len(q) + 1) : y = Append(q, x)[i]
    BY <1>2, <1>3 DEF ToSet
  <2>2. i \in 1..Len(q) \/ i = Len(q) + 1
    BY <1>1
  <2> QED
    BY <1>1, <2>1, <2>2 DEF ToSet
<1>4. ASSUME NEW y \in ToSet(q) \cup {x} PROVE y \in ToSet(Append(q, x))
  <2>1. CASE y = x
    BY <1>1, <1>2, <2>1 DEF ToSet
  <2>2. CASE y \in ToSet(q)
    <3>1. PICK i \in 1..Len(q) : y = q[i]
      BY <1>1, <2>2 DEF ToSet
    <3>2. i \in 1..(Len(q) + 1)
      BY <1>1
    <3> QED
      BY <1>1, <1>2, <3>1, <3>2 DEF ToSet
  <2> QED
    BY <1>4, <2>1, <2>2
<1> QED
  BY <1>1, <1>3, <1>4

LEMMA ConcatHolds ==
    ASSUME NEW S, NEW p \in Seq(S), NEW q \in Seq(S)
    PROVE  p \o q \in Seq(S) /\ ToSet(p \o q) = ToSet(p) \cup ToSet(q)
<1>1. /\ Len(p) \in Nat /\ DOMAIN p = 1..Len(p) /\ Len(q) \in Nat /\ DOMAIN q = 1..Len(q)
      /\ p \o q \in Seq(S) /\ Len(p \o q) = Len(p) + Len(q)
      /\ \A i \in 1..Len(p) + Len(q) : (p \o q)[i] = IF i <= Len(p) THEN p[i] ELSE q[i - Len(p)]
  BY LenProperties, ConcatProperties
<1>2. DOMAIN (p \o q) = 1..(Len(p) + Len(q))
  BY <1>1, LenProperties
<1>3. ASSUME NEW y \in ToSet(p \o q) PROVE y \in ToSet(p) \cup ToSet(q)
  <2>1. PICK i \in 1..(Len(p) + Len(q)) : y = (p \o q)[i]
    BY <1>2, <1>3 DEF ToSet
  <2>2. CASE i <= Len(p)
    <3>1. i \in 1..Len(p)
      BY <1>1, <2>2
    <3> QED
      BY <1>1, <2>1, <2>2, <3>1 DEF ToSet
  <2>3. CASE ~(i <= Len(p))
    <3>1. i - Len(p) \in 1..Len(q)
      BY <1>1, <2>3
    <3> QED
      BY <1>1, <2>1, <2>3, <3>1 DEF ToSet
  <2> QED
    BY <2>2, <2>3
<1>4. ASSUME NEW y \in ToSet(p) PROVE y \in ToSet(p \o q)
  <2>1. PICK i \in 1..Len(p) : y = p[i]
    BY <1>1, <1>4 DEF ToSet
  <2>2. i \in 1..(Len(p) + Len(q)) /\ i <= Len(p)
    BY <1>1
  <2> QED
    BY <1>1, <1>2, <2>1, <2>2 DEF ToSet
<1>5. ASSUME NEW y \in ToSet(q) PROVE y \in ToSet(p \o q)
  <2>1. PICK i \in 1..Len(q) : y = q[i]
    BY <1>1, <1>5 DEF ToSet
  <2>2. /\ i + Len(p) \in 1..(Len(p) + Len(q)) /\ ~(i + Len(p) <= Len(p))
        /\ (i + Len(p)) - Len(p) = i
    BY <1>1
  <2>3. (p \o q)[i + Len(p)] = y
    BY <1>1, <2>1, <2>2
  <2> QED
    BY <1>2, <2>2, <2>3 DEF ToSet
<1> QED
  BY <1>1, <1>3, <1>4, <1>5

LEMMA TailHolds ==
    ASSUME NEW S, NEW q \in Seq(S), q # <<>>
    PROVE  /\ Head(q) \in S /\ Tail(q) \in Seq(S)
           /\ ToSet(q) = {Head(q)} \cup ToSet(Tail(q))
<1>1. Len(q) \in Nat \ {0} /\ q \in [1..Len(q) -> S] /\ DOMAIN q = 1..Len(q)
  BY EmptySeq, LenProperties
<1>2. Head(q) = q[1] /\ Head(q) \in S /\ Tail(q) \in Seq(S) /\ Len(Tail(q)) = Len(q) - 1
  BY <1>1
<1>3. \A j \in 1..(Len(q) - 1) : Tail(q)[j] = q[j + 1]
  BY <1>1
<1>4. DOMAIN Tail(q) = 1..(Len(q) - 1)
  BY <1>2, LenProperties
<1>5. ASSUME NEW y \in ToSet(q) PROVE y \in {Head(q)} \cup ToSet(Tail(q))
  <2>1. PICK i \in 1..Len(q) : y = q[i]
    BY <1>1, <1>5 DEF ToSet
  <2>2. i = 1 \/ (i - 1 \in 1..(Len(q) - 1) /\ (i - 1) + 1 = i)
    BY <1>1
  <2> QED
    BY <1>2, <1>3, <1>4, <2>1, <2>2 DEF ToSet
<1>6. ASSUME NEW y \in ToSet(Tail(q)) PROVE y \in ToSet(q)
  <2>1. PICK j \in 1..(Len(q) - 1) : y = Tail(q)[j]
    BY <1>4, <1>6 DEF ToSet
  <2>2. j + 1 \in 1..Len(q)
    BY <1>1
  <2> QED
    BY <1>1, <1>3, <2>1, <2>2 DEF ToSet
<1>7. Head(q) \in ToSet(q)
  BY <1>1, <1>2 DEF ToSet
<1> QED
  BY <1>2, <1>5, <1>6, <1>7

\* An order of a set's elements holds them all.
LEMMA OrderHolds ==
    ASSUME NEW S, IsFiniteSet(S), NEW q \in SetToSeqs(S)
    PROVE  q \in Seq(S) /\ ToSet(q) = S
<1> DEFINE D == 1..Cardinality(S)
<1>1. Cardinality(S) \in Nat
  BY FS_CardinalityType
<1>2. q \in [D -> S] /\ \A i, j \in D : i # j => q[i] # q[j]
  BY DEF SetToSeqs
<1>3. q \in Injection(D, S)
  BY <1>2 DEF Injection, IsInjective
<1>4. Cardinality(D) = Cardinality(S)
  BY <1>1, FS_Interval
<1>5. q \in Surjection(D, S)
  <2> HIDE DEF D
  <2> QED
    BY <1>3, <1>4, FS_Injection
<1>6. q \in Seq(S)
  BY <1>1, <1>2
<1> QED
  BY <1>2, <1>5, <1>6 DEF Surjection, ToSet

-----------------------------------------------------------------------------
Items == [retry : BOOLEAN, ids : SUBSET Events]

Fetchers == [pc : {"idle", "pulling", "parsing", "prev", "auth", "stuck", "gone"},
             ids : SUBSET Events, retry : BOOLEAN,
             at : SUBSET Events, good : SUBSET Events, next : SUBSET Events]

Repairs == [pc : {"idle", "searching", "sending", "stuck", "gone", "over"},
            root : Events, toTry : Seq(Events), searching : SUBSET Events,
            toSend : Seq(Events), at : Nat]

Retries == [pc : {"none", "created", "sleeping", "found", "gaveUp", "stuck", "gone"},
            tries : 0..MaxTries]

Walks == [pc : {"running", "ended"}, idle : 0..(RoundsToFinish + 1),
          natural : BOOLEAN, stopped : BOOLEAN]

Shape ==
    /\ room \in Rooms
    /\ mode \in {"walk", "command"}
    /\ target \subseteq Events /\ digesting \subseteq Events
    /\ cached \subseteq Events /\ tried \subseteq Events
    /\ okList \subseteq Events /\ errorList \subseteq Events
    /\ resolvedList \subseteq Events /\ attempted \subseteq Events
    /\ fetchQueue \in Seq(Items)
    /\ errorQueue \in Seq(Events)
    /\ working \subseteq Events \cup {"fetcher", "repair"}
    /\ fetcher \in Fetchers
    /\ repair \in Repairs
    /\ retries \in [Events -> Retries]
    /\ status \in {"START", "PAUSE", "STOP"}
    /\ walk \in Walks

\* Only the walk has lists, an end, and a fetcher that moves.
ModeOK ==
    mode = "command" =>
        okList = {} /\ errorList = {} /\ ~walk.natural /\ fetcher = IdleFetcher

\* Who is at work says so, and who left was stopped.
Awake ==
    /\ fetcher.pc \in {"pulling", "parsing", "prev", "auth", "stuck"} => "fetcher" \in working
    /\ mode = "walk" /\ repair.pc \in {"searching", "sending", "stuck"} => "repair" \in working
    /\ status = "STOP" \/ fetcher.pc = "gone" \/ repair.pc = "gone" => walk.stopped

\* What the fetcher holds.
Held ==
    /\ fetcher.pc \in {"idle", "gone"} => fetcher.ids = {}
    /\ fetcher.pc \in {"idle", "gone", "pulling"} => fetcher.next = {}
    /\ fetcher.pc \in {"idle", "gone", "pulling", "parsing"} => fetcher.at = {} /\ fetcher.good = {}
    /\ fetcher.at \subseteq okList
    /\ \A e, d \in fetcher.at : e = d

\* Both kinds of ancestors are looked for, and what is found leads the walk on.
Reported ==
    \A e \in okList \ fetcher.at :
        /\ Ancestors(e) \subseteq attempted \cup Queued \cup fetcher.next \cup errorList
        /\ Ancestors(e) \subseteq cached \cup errorList

\* The event a repair began with is the first it looks for.
Searched ==
    mode = "walk" /\ ~walk.stopped =>
        /\ errorList \subseteq tried \cup ToSet(errorQueue)
            \cup (IF repair.pc \in {"searching", "stuck"} THEN {repair.root} ELSE {})
        /\ repair.pc = "searching" =>
            repair.root \in tried \/ (repair.toTry # <<>> /\ Head(repair.toTry) = repair.root)
        /\ repair.pc = "sending" => repair.root \in tried

\* What is handed to the fetcher was found and stays in the cache, so that it is
\* found again: only the first event of the walk may be passed over.
Handed ==
    /\ fetcher.next \cup fetcher.good \subseteq cached
    /\ \A item \in ToSet(fetchQueue) : item.ids \subseteq cached \cup {Start}
    /\ fetcher.pc = "pulling" => fetcher.ids \subseteq cached \cup {Start}
    /\ attempted \subseteq okList \cup fetcher.ids \cup {Start}

\* Then nothing else happens.
Blank ==
    /\ okList = {} /\ errorList = {} /\ errorQueue = <<>> /\ fetcher.next = {}
    /\ repair.pc = "idle"
    /\ \A e \in Events : retries[e].pc = "none"
    /\ \/ fetcher.ids = {} /\ attempted = {} /\ fetchQueue = <<[retry |-> FALSE, ids |-> {Start}]>>
       \/ fetcher.ids \subseteq {Start} /\ fetchQueue = <<>>

Begun ==
    mode = "walk" =>
        \/ Start \in okList
        \/ fetcher.pc \in {"parsing", "prev", "auth", "stuck"} /\ Start \in fetcher.ids
        \/ Blank

\* A repaired event that came back is on its way through the fetcher.
Returning ==
    \A e \in Events : retries[e].pc = "found" =>
        /\ e \in cached
        /\ \/ e \in resolvedList
           \/ fetcher.retry /\ e \in fetcher.ids
           \/ [retry |-> TRUE, ids |-> {e}] \in ToSet(fetchQueue)

Ending ==
    /\ walk.pc = "running" => walk.idle <= RoundsToFinish /\ ~walk.natural
    /\ walk.natural => fetchQueue = <<>> /\ errorQueue = <<>> /\ working = {}

\* repair_event: nothing the destination lacks turns up while it searches, and a
\* prev event that is missing is behind its event, or still to be looked for.
Behind ==
    \A i \in DOMAIN repair.toSend :
        \A d \in room.prev[repair.toSend[i]] \cap room.missing :
            \/ room.copies[d] = 0
            \/ d \in ToSet(repair.toTry)
            \/ \E k \in DOMAIN repair.toSend : i < k /\ repair.toSend[k] = d

Commanded ==
    mode = "command" =>
        /\ repair.pc \in {"idle", "searching"} =>
            /\ digesting = {}
            /\ (target \cup cached) \cap room.missing = {}
            /\ Behind
        /\ repair.pc = "idle" => repair = IdleRepair
        /\ CommandSendsOldestFirst

IInv ==
    /\ Shape /\ ModeOK /\ Awake /\ Held /\ Reported /\ Searched
    /\ Handed /\ Begun /\ Returning /\ Ending /\ Commanded

USE DEF server, queues, lists, limits, loop

-----------------------------------------------------------------------------
\* A request finds what is cached, and nothing that is not there.
LEMMA FoundFacts ==
    ASSUME NEW ids, NEW got, Found(ids, got)
    PROVE  got \subseteq ids \cap (target \cup cached) /\ ids \cap cached \subseteq got
BY DEF Found

LEMMA AncestorsType == ASSUME Shape, NEW e \in Events PROVE Ancestors(e) \subseteq Events
BY RoomWalkAssumption DEF Shape, IsRoom, Ancestors

LEMMA QueuedIs == Queued = UNION {item.ids : item \in ToSet(fetchQueue)}
BY DEF Queued, ToSet

LEMMA QueuedIsNext == Queued' = UNION {item.ids : item \in ToSet(fetchQueue')}
BY DEF Queued, ToSet

LEMMA InitIInv == Init => IInv
<1> SUFFICES ASSUME Init PROVE IInv
  OBVIOUS
<1>1. room \in Rooms /\ IsRoom(room)
  BY RoomWalkAssumption DEF Init
<1>2. fetchQueue = <<[retry |-> FALSE, ids |-> {Start}]>> \/ (fetchQueue = <<>> /\ mode = "command")
  BY DEF Init
<1>3. fetchQueue \in Seq(Items) /\ errorQueue \in Seq(Events)
  <2>1. [retry |-> FALSE, ids |-> {Start}] \in Items
    BY RoomWalkAssumption DEF Items
  <2>2. <<>> \in Seq(Items) /\ <<>> \in Seq(Events)
    BY EmptySeq
  <2>3. <<[retry |-> FALSE, ids |-> {Start}]>> \in Seq(Items)
    <3> HIDE DEF Items
    <3> QED
      BY <2>1
  <2> QED
    BY <1>2, <2>2, <2>3 DEF Init
<1>4. Shape
  <2>1. fetcher \in Fetchers /\ walk \in Walks
    BY RoomWalkAssumption DEF Init, IdleFetcher, Fetchers, Walks
  <2>2. repair \in Repairs
    BY RoomWalkAssumption, EmptySeq DEF Init, IdleRepair, Repairs
  <2>3. retries \in [Events -> Retries]
    BY RoomWalkAssumption DEF Init, Retries
  <2> QED
    BY <1>1, <1>3, <2>1, <2>2, <2>3 DEF Init, Shape, IsRoom
<1>5. ModeOK /\ Awake /\ Held /\ Reported /\ Searched /\ Ending /\ Returning
  BY RoomWalkAssumption DEF Init, ModeOK, Awake, Held, Reported, Searched, Ending, Returning, IdleFetcher, IdleRepair
<1>6. Handed
  BY <1>2, EmptyHolds DEF Init, Handed, IdleFetcher, ToSet
<1>7. Begun
  BY DEF Init, Begun, Blank, IdleFetcher, IdleRepair
<1>8. Commanded
  BY <1>1 DEF Init, Commanded, Behind, CommandSendsOldestFirst, IdleRepair, IsRoom
<1> QED
  BY <1>4, <1>5, <1>6, <1>7, <1>8 DEF IInv

\* The walk's own steps leave repair_event alone.
LEMMA WalkIsNotCommand ==
    ASSUME Walking, mode' = mode
    PROVE  ModeOK' /\ Commanded'
BY DEF Walking, ModeOK, Commanded

LEMMA FetcherGetsIInv == ASSUME IInv, FetcherGets PROVE IInv'
<1>1. PICK item : item = Head(fetchQueue)
  OBVIOUS
<1>2. PICK ids : ids = Filtered(item)
  OBVIOUS
<1>3. /\ item \in Items /\ fetchQueue' = Tail(fetchQueue) /\ fetchQueue' \in Seq(Items)
      /\ ToSet(fetchQueue) = {item} \cup ToSet(fetchQueue')
  BY <1>1, TailHolds DEF IInv, Shape, FetcherGets
<1>4. /\ ids \subseteq item.ids /\ item.ids \subseteq attempted \cup ids
      /\ item.retry => ids = item.ids
      /\ ids \subseteq Events
  BY <1>2, <1>3 DEF Filtered, Items
<1>5. /\ mode = "walk" /\ fetcher.pc = "idle" /\ fetcher.ids = {} /\ fetcher.next = {}
      /\ fetcher.at = {} /\ fetcher.good = {}
      /\ attempted' = attempted \cup ids
  BY <1>1, <1>2 DEF IInv, Held, FetcherGets, Walking
<1>6. \/ /\ ids = {} /\ working' = working
         /\ fetcher' = [fetcher EXCEPT !.pc = NextRound]
      \/ /\ ids # {} /\ working' = working \cup {"fetcher"}
         /\ fetcher' = [IdleFetcher EXCEPT !.pc = "pulling", !.ids = ids, !.retry = item.retry]
  BY <1>1, <1>2 DEF FetcherGets
<1>7. /\ fetcher' \in Fetchers
      /\ fetcher'.ids = ids /\ fetcher'.next = {} /\ fetcher'.at = {} /\ fetcher'.good = {}
      /\ fetcher'.pc = "pulling" \/ (ids = {} /\ fetcher'.pc = NextRound)
      /\ ids # {} => fetcher'.retry = item.retry
  <2>1. CASE ids = {}
    BY <1>5, <1>6, <2>1 DEF IInv, Shape, Fetchers, NextRound
  <2>2. CASE ids # {}
    BY <1>3, <1>4, <1>6, <2>2 DEF Items, Fetchers, IdleFetcher
  <2> QED
    BY <2>1, <2>2
<1>8. Shape'
  BY <1>3, <1>4, <1>5, <1>6, <1>7 DEF IInv, Shape, FetcherGets
<1>9. ModeOK' /\ Commanded'
  BY WalkIsNotCommand DEF FetcherGets
<1>10. Awake'
  <2>1. working \subseteq working'
    BY <1>6
  <2>2. fetcher'.pc \in {"pulling", "parsing", "prev", "auth", "stuck"} => "fetcher" \in working'
    <3>1. ids = {} => fetcher'.pc = NextRound
      BY <1>6, <1>5 DEF IInv, Shape, Fetchers
    <3> QED
      BY <1>6, <3>1 DEF NextRound, IdleFetcher
  <2>3. fetcher'.pc = "gone" => status = "STOP"
    BY <1>7 DEF NextRound
  <2>4. UNCHANGED <<mode, repair, status, walk>>
    BY DEF FetcherGets
  <2> QED
    BY <2>1, <2>2, <2>3, <2>4 DEF IInv, Awake
<1>11. Held'
  BY <1>7 DEF Held, NextRound
<1>12. Reported'
  <2>1. Queued \subseteq item.ids \cup Queued'
    BY <1>3, QueuedIs, QueuedIsNext
  <2> QED
    BY <1>4, <1>5, <1>7, <2>1 DEF IInv, Reported, FetcherGets, Ancestors
<1>13. Searched'
  BY DEF IInv, Searched, FetcherGets
<1>14. Handed'
  BY <1>3, <1>4, <1>5, <1>7 DEF IInv, Handed, FetcherGets
<1>15. Begun'
  <2>1. CASE Start \in okList
    BY <2>1 DEF Begun, FetcherGets
  <2>2. CASE Blank
    <3>1. fetchQueue = <<[retry |-> FALSE, ids |-> {Start}]>>
      BY <2>2 DEF Blank, FetcherGets
    <3>2. item = [retry |-> FALSE, ids |-> {Start}] /\ fetchQueue' = <<>>
      BY <1>1, <1>3, <3>1
    <3>3. ids \subseteq {Start}
      BY <1>4, <3>2
    <3> QED
      BY <1>7, <2>2, <3>2, <3>3 DEF Begun, Blank, FetcherGets
  <2> QED
    BY <1>5, <2>1, <2>2 DEF IInv, Begun
<1>16. Returning'
  <2> SUFFICES ASSUME NEW e \in Events, retries[e].pc = "found"
               PROVE  /\ e \in cached
                      /\ \/ e \in resolvedList
                         \/ fetcher'.retry /\ e \in fetcher'.ids
                         \/ [retry |-> TRUE, ids |-> {e}] \in ToSet(fetchQueue')
    BY DEF Returning, FetcherGets
  <2>1. CASE item = [retry |-> TRUE, ids |-> {e}]
    <3>1. ids = {e}
      BY <1>4, <2>1
    <3> QED
      BY <1>7, <2>1, <3>1 DEF IInv, Returning
  <2> QED
    BY <1>3, <1>5, <2>1 DEF IInv, Returning
<1>17. Ending'
  BY DEF IInv, Ending, FetcherGets, Walking
<1> QED
  BY <1>8, <1>9, <1>10, <1>11, <1>12, <1>13, <1>14, <1>15, <1>16, <1>17 DEF IInv

LEMMA FetcherPullsIInv == ASSUME IInv, FetcherPulls PROVE IInv'
<1>1. PICK got \in SUBSET fetcher.ids :
        /\ Found(fetcher.ids, got)
        /\ cached' = cached \cup got
        /\ fetcher' = [fetcher EXCEPT !.pc = "parsing", !.ids = got]
  BY DEF FetcherPulls
<1>2. UNCHANGED <<server, queues, lists, tried, working, repair, retries, loop, stuck, presses>>
  BY DEF FetcherPulls
<1>3. /\ mode = "walk" /\ walk.pc = "running" /\ fetcher.pc = "pulling" /\ fetcher.next = {}
      /\ fetcher.at = {} /\ fetcher.good = {}
      /\ fetcher.ids \subseteq Events /\ fetcher.retry \in BOOLEAN
  BY DEF IInv, Held, Shape, Fetchers, FetcherPulls, Walking
<1>4. fetcher' = [pc |-> "parsing", ids |-> got, retry |-> fetcher.retry,
                  at |-> {}, good |-> {}, next |-> {}]
  BY <1>1, <1>3 DEF IInv, Shape, Fetchers
<1>5. fetcher.ids \cap cached \subseteq got
  BY <1>1, FoundFacts
<1>6. fetcher.ids \subseteq got \cup {Start}
  BY <1>3, <1>5 DEF IInv, Handed
<1>7. Shape'
  <2>1. fetcher' \in Fetchers
    BY <1>3, <1>4 DEF Fetchers
  <2> QED
    BY <1>1, <1>2, <1>3, <2>1 DEF IInv, Shape
<1>8. ModeOK' /\ Commanded'
  BY WalkIsNotCommand DEF FetcherPulls
<1>9. Awake' /\ Held'
  BY <1>2, <1>3, <1>4 DEF IInv, Awake, Held
<1>10. Queued' = Queued
  BY <1>2 DEF Queued
<1>11. Reported'
  BY <1>1, <1>2, <1>3, <1>4, <1>10 DEF IInv, Reported, Ancestors
<1>12. Searched' /\ Ending'
  BY <1>2 DEF IInv, Searched, Ending
<1>13. Handed'
  BY <1>1, <1>2, <1>3, <1>4, <1>6 DEF IInv, Handed
<1>14. Begun'
  <2>1. Start \in okList \/ Blank
    BY <1>3 DEF IInv, Begun
  <2>2. CASE Blank /\ Start \notin got
    BY <1>2, <1>4, <2>2 DEF Blank, Begun
  <2> QED
    BY <1>2, <1>4, <2>1, <2>2 DEF Begun
<1>15. Returning'
  BY <1>1, <1>2, <1>4, <1>5 DEF IInv, Returning
<1> QED
  BY <1>7, <1>8, <1>9, <1>11, <1>12, <1>13, <1>14, <1>15 DEF IInv

LEMMA FetcherTakesIInv == ASSUME IInv, FetcherTakes PROVE IInv'
<1>1. PICK e \in fetcher.ids :
        /\ okList' = okList \cup {e}
        /\ resolvedList' = resolvedList \cup (IF fetcher.retry THEN {e} ELSE {})
        /\ fetcher' = [fetcher EXCEPT !.pc = "prev", !.ids = @ \ {e}, !.at = {e}]
  BY DEF FetcherTakes
<1>2. UNCHANGED <<server, cached, queues, errorList, attempted, tried, working, repair, retries,
                  loop, limits>>
  BY DEF FetcherTakes
<1>3. /\ mode = "walk" /\ walk.pc = "running" /\ fetcher.pc = "parsing"
      /\ fetcher \in Fetchers /\ fetcher.at = {} /\ fetcher.good = {}
  BY DEF IInv, Shape, Held, FetcherTakes, Walking
<1>4. fetcher' = [pc |-> "prev", ids |-> fetcher.ids \ {e}, retry |-> fetcher.retry,
                  at |-> {e}, good |-> {}, next |-> fetcher.next]
  BY <1>1, <1>3 DEF Fetchers
<1>5. e \in Events
  BY <1>3 DEF Fetchers
<1>6. Shape'
  <2>1. fetcher' \in Fetchers
    BY <1>3, <1>4, <1>5 DEF Fetchers
  <2> QED
    BY <1>1, <1>2, <1>5, <2>1 DEF IInv, Shape
<1>7. ModeOK' /\ Commanded'
  BY <1>2, WalkIsNotCommand DEF FetcherTakes
<1>8. Awake' /\ Held' /\ Searched' /\ Ending'
  BY <1>1, <1>2, <1>3, <1>4 DEF IInv, Awake, Held, Searched, Ending
<1>9. Reported'
  <2>1. okList' \ fetcher'.at \subseteq okList \ fetcher.at
    BY <1>1, <1>3, <1>4
  <2>2. Queued' = Queued /\ fetcher'.next = fetcher.next
    BY <1>2, <1>4 DEF Queued
  <2> QED
    BY <1>2, <2>1, <2>2 DEF IInv, Reported, Ancestors
<1>10. Handed'
  BY <1>1, <1>2, <1>4 DEF IInv, Handed
<1>11. Begun'
  <2>1. CASE Start \in okList \/ Start = e
    BY <1>1, <2>1 DEF Begun
  <2>2. CASE Start \in fetcher.ids /\ Start # e
    BY <1>4, <2>2 DEF Begun
  <2>3. CASE Blank
    BY <2>1, <2>3 DEF Blank
  <2> QED
    BY <1>3, <2>1, <2>2, <2>3 DEF IInv, Begun
<1>12. Returning'
  <2> SUFFICES ASSUME NEW f \in Events, retries[f].pc = "found"
               PROVE  /\ f \in cached
                      /\ \/ f \in resolvedList'
                         \/ fetcher.retry /\ f \in fetcher.ids \ {e}
                         \/ [retry |-> TRUE, ids |-> {f}] \in ToSet(fetchQueue)
    BY <1>2, <1>4 DEF Returning
  <2>1. resolvedList \subseteq resolvedList' /\ (fetcher.retry => e \in resolvedList')
    BY <1>1
  <2> QED
    BY <2>1 DEF IInv, Returning
<1> QED
  BY <1>6, <1>7, <1>8, <1>9, <1>10, <1>11, <1>12 DEF IInv

LEMMA FetcherParsesPrevIInv == ASSUME IInv, FetcherParsesPrev PROVE IInv'
<1>1. PICK e \in fetcher.at : \E good \in SUBSET room.prev[e] :
        /\ cached' = cached \cup good
        /\ fetcher' = [fetcher EXCEPT !.pc = "auth", !.good = good]
  BY DEF FetcherParsesPrev
<1>2. PICK good \in SUBSET room.prev[e] :
        /\ cached' = cached \cup good
        /\ fetcher' = [fetcher EXCEPT !.pc = "auth", !.good = good]
  BY <1>1
<1>3. UNCHANGED <<server, queues, lists, tried, working, repair, retries, loop, stuck, presses>>
      /\ Walking /\ fetcher.pc = "prev"
  BY DEF FetcherParsesPrev
<1>4. e \in Events /\ e \in okList /\ good \subseteq Events
  BY RoomWalkAssumption DEF IInv, Held, Shape, IsRoom
<1>5. fetcher' = [pc |-> "auth", ids |-> fetcher.ids, retry |-> fetcher.retry,
                  at |-> fetcher.at, good |-> good, next |-> fetcher.next]
  BY <1>2 DEF IInv, Shape, Fetchers
<1>6. Shape'
  <2>1. fetcher' \in Fetchers
    BY <1>4, <1>5 DEF IInv, Shape, Fetchers
  <2> QED
    BY <1>2, <1>3, <1>4, <2>1 DEF IInv, Shape
<1>7. ModeOK' /\ Commanded'
  BY <1>3, WalkIsNotCommand
<1>8. Awake' /\ Held' /\ Searched' /\ Ending'
  BY <1>3, <1>5 DEF IInv, Awake, Held, Searched, Ending
<1>9. Reported'
  <2>1. Queued' = Queued /\ cached \subseteq cached'
    BY <1>2, <1>3 DEF Queued
  <2> QED
    BY <1>3, <1>5, <2>1 DEF IInv, Reported, Ancestors
<1>10. Handed'
  <2>1. \A item \in ToSet(fetchQueue') : item.ids \subseteq cached' \cup {Start}
    BY <1>2, <1>3 DEF IInv, Handed
  <2> QED
    BY <1>2, <1>3, <1>5, <2>1 DEF IInv, Handed
<1>11. Begun'
  BY <1>3, <1>4, <1>5 DEF IInv, Begun, Blank
<1>12. Returning'
  BY <1>2, <1>3, <1>5 DEF IInv, Returning
<1> QED
  BY <1>6, <1>7, <1>8, <1>9, <1>10, <1>11, <1>12 DEF IInv

\* The end of one event: what was not found of its ancestors is reported, what was
\* found leads the walk on.
ParsedTo(e, good) ==
    /\ cached' = cached \cup good
    /\ LET bad == ((room.prev[e] \ fetcher.good) \cup (room.auth[e] \ good)) \ errorList
       IN  /\ errorList' = errorList \cup bad
           /\ \E new \in SetToSeqs(bad) : errorQueue' = errorQueue \o new
    /\ fetcher' = [fetcher EXCEPT !.pc = "parsing", !.at = {}, !.good = {},
                                  !.next = Extended(@, fetcher.good \cup good)]

LEMMA FetcherParsesAuthIInv == ASSUME IInv, FetcherParsesAuth PROVE IInv'
<1>a. PICK e \in fetcher.at : \E good \in SUBSET room.auth[e] : ParsedTo(e, good)
  BY DEF FetcherParsesAuth, ParsedTo
<1>b. PICK good \in SUBSET room.auth[e] : ParsedTo(e, good)
  BY <1>a
<1>1. PICK bad : bad = ((room.prev[e] \ fetcher.good) \cup (room.auth[e] \ good)) \ errorList
  OBVIOUS
<1>2. /\ cached' = cached \cup good /\ errorList' = errorList \cup bad
      /\ \E new \in SetToSeqs(bad) : errorQueue' = errorQueue \o new
      /\ fetcher' = [fetcher EXCEPT !.pc = "parsing", !.at = {}, !.good = {},
                                    !.next = fetcher.next \cup (fetcher.good \cup good)]
  BY <1>b, <1>1 DEF ParsedTo, Extended
<1>3. PICK new \in SetToSeqs(bad) : errorQueue' = errorQueue \o new
  BY <1>2
<1>4. UNCHANGED <<server, fetchQueue, okList, resolvedList, attempted, tried, working, repair,
                  retries, loop, stuck, presses>>
      /\ Walking /\ fetcher.pc = "auth"
  BY DEF FetcherParsesAuth
<1>5. /\ mode = "walk" /\ walk.pc = "running" /\ fetcher \in Fetchers
      /\ fetcher.at = {e} /\ e \in okList /\ e \in Events
      /\ errorQueue \in Seq(Events) /\ errorList \subseteq Events
  BY <1>4 DEF IInv, Shape, Held, Walking
<1>6. /\ room.prev[e] \subseteq Events /\ room.auth[e] \subseteq Events
      /\ Ancestors(e) = room.prev[e] \cup room.auth[e]
  BY <1>5, RoomWalkAssumption DEF IInv, Shape, IsRoom, Ancestors
<1>7. new \in Seq(Events) /\ ToSet(new) = bad /\ bad \in SUBSET Events
  <2>1. bad \in SUBSET Events
    BY <1>1, <1>6
  <2>2. IsFiniteSet(bad)
    BY <2>1, FS_Subset, RoomWalkAssumption
  <2>3. new \in Seq(bad) /\ ToSet(new) = bad
    BY <2>2, OrderHolds
  <2> QED
    BY <2>1, <2>3, SeqMonotonic
<1>8. errorQueue' \in Seq(Events) /\ ToSet(errorQueue') = ToSet(errorQueue) \cup bad
  BY <1>3, <1>5, <1>7, ConcatHolds
<1>9. fetcher' = [pc |-> "parsing", ids |-> fetcher.ids, retry |-> fetcher.retry,
                  at |-> {}, good |-> {}, next |-> fetcher.next \cup (fetcher.good \cup good)]
  BY <1>2, <1>5 DEF Fetchers
<1>10. Shape'
  <2>1. fetcher' \in Fetchers
    BY <1>5, <1>6, <1>9 DEF Fetchers
  <2>2. cached' \subseteq Events /\ errorList' \subseteq Events
    BY <1>2, <1>5, <1>6, <1>7 DEF IInv, Shape
  <2> QED
    BY <1>4, <1>8, <2>1, <2>2 DEF IInv, Shape
<1>11. ModeOK' /\ Commanded'
  BY <1>4, WalkIsNotCommand
<1>12. Awake' /\ Held'
  BY <1>4, <1>9 DEF IInv, Awake, Held
<1>13. Queued' = Queued /\ \A f : Ancestors(f)' = Ancestors(f)
  BY <1>4 DEF Queued, Ancestors
<1>14. fetcher.good \subseteq cached /\ fetcher.next \subseteq cached
  BY DEF IInv, Handed
<1>15. Reported'
  <2> SUFFICES ASSUME NEW f \in okList
               PROVE  /\ Ancestors(f) \subseteq attempted \cup Queued
                           \cup (fetcher.next \cup (fetcher.good \cup good)) \cup (errorList \cup bad)
                      /\ Ancestors(f) \subseteq (cached \cup good) \cup (errorList \cup bad)
    <3>1. okList' = okList /\ attempted' = attempted
      BY <1>4
    <3>2. fetcher'.at = {} /\ fetcher'.next = fetcher.next \cup (fetcher.good \cup good)
      BY <1>9
    <3> QED
      BY <1>2, <1>13, <3>1, <3>2 DEF Reported
  <2>1. CASE f = e
    <3>1. Ancestors(e) \subseteq fetcher.good \cup good \cup errorList \cup bad
      BY <1>1, <1>6
    <3> QED
      BY <1>14, <2>1, <3>1
  <2>2. CASE f # e
    <3>1. f \in okList \ fetcher.at
      BY <1>5, <2>2
    <3> QED
      BY <3>1 DEF IInv, Reported
  <2> QED
    BY <2>1, <2>2
<1>16. Searched'
  BY <1>2, <1>4, <1>8 DEF IInv, Searched
<1>17. Ending'
  BY <1>4, <1>5 DEF IInv, Ending
<1>18. Handed'
  <2>1. fetcher'.next \cup fetcher'.good \subseteq cached'
    BY <1>2, <1>9, <1>14
  <2>2. \A item \in ToSet(fetchQueue') : item.ids \subseteq cached' \cup {Start}
    BY <1>2, <1>4 DEF IInv, Handed
  <2>3. fetcher'.pc # "pulling" /\ fetcher'.ids = fetcher.ids
    BY <1>9
  <2>4. attempted' \subseteq okList' \cup fetcher'.ids \cup {Start}
    BY <1>4, <2>3 DEF IInv, Handed
  <2> QED
    BY <2>1, <2>2, <2>3, <2>4 DEF Handed
<1>19. Begun'
  <2>1. ~Blank
    BY <1>5 DEF Blank
  <2> QED
    BY <1>4, <1>5, <1>9, <2>1 DEF IInv, Begun
<1>20. Returning'
  <2>1. cached \subseteq cached' /\ fetcher'.ids = fetcher.ids /\ fetcher'.retry = fetcher.retry
    BY <1>2, <1>9
  <2> QED
    BY <1>4, <2>1 DEF IInv, Returning
<1> QED
  BY <1>10, <1>11, <1>12, <1>15, <1>16, <1>17, <1>18, <1>19, <1>20 DEF IInv

LEMMA FetcherFinishesIInv == ASSUME IInv, FetcherFinishes PROVE IInv'
<1>1. PICK next : next = fetcher.next
  OBVIOUS
<1>2. /\ mode = "walk" /\ walk.pc = "running" /\ fetcher.pc = "parsing" /\ fetcher.ids = {}
      /\ next \subseteq Events
      /\ fetcher.at = {} /\ fetcher.good = {}
      /\ fetcher' = [pc |-> NextRound, ids |-> {}, retry |-> FALSE, at |-> {}, good |-> {}, next |-> {}]
      /\ working' = working \ {"fetcher"}
      /\ UNCHANGED <<server, cached, errorQueue, lists, tried, repair, retries, loop, limits>>
  BY <1>1 DEF IInv, Held, Shape, Fetchers, FetcherFinishes, Walking, Done, IdleFetcher
<1>3. /\ fetchQueue' \in Seq(Items)
      /\ \/ next = {} /\ fetchQueue' = fetchQueue
         \/ ToSet(fetchQueue') = ToSet(fetchQueue) \cup {[retry |-> FALSE, ids |-> next]}
  <2>1. CASE next = {}
    BY <1>1, <2>1 DEF IInv, Shape, FetcherFinishes
  <2>2. CASE next # {}
    <3>1. [retry |-> FALSE, ids |-> next] \in Items
      BY <1>2 DEF Items
    <3>2. fetchQueue \in Seq(Items) /\ fetchQueue' = Append(fetchQueue, [retry |-> FALSE, ids |-> next])
      BY <1>1, <2>2 DEF IInv, Shape, FetcherFinishes
    <3> QED
      BY <3>1, <3>2, AppendHolds
  <2> QED
    BY <2>1, <2>2
<1>4. ToSet(fetchQueue) \subseteq ToSet(fetchQueue')
  BY <1>3
<1>5. Shape'
  <2>1. fetcher' \in Fetchers
    BY <1>2 DEF Fetchers, NextRound
  <2> QED
    BY <1>2, <1>3, <2>1 DEF IInv, Shape
<1>6. ModeOK' /\ Commanded'
  BY WalkIsNotCommand DEF FetcherFinishes
<1>7. Awake' /\ Held'
  BY <1>2 DEF IInv, Awake, Held, NextRound
<1>8. Queued \cup next \subseteq Queued'
  <2>1. Queued \subseteq Queued'
    BY <1>4, QueuedIs, QueuedIsNext
  <2>2. CASE next # {}
    <3>1. PICK item : item = [retry |-> FALSE, ids |-> next]
      OBVIOUS
    <3>2. item \in ToSet(fetchQueue') /\ item.ids = next
      BY <1>3, <2>2, <3>1
    <3> QED
      BY <2>1, <3>2, QueuedIsNext
  <2> QED
    BY <2>1, <2>2
<1>9. Reported'
  BY <1>1, <1>2, <1>8 DEF IInv, Reported, Ancestors
<1>10. Searched' /\ Ending'
  BY <1>2 DEF IInv, Searched, Ending
<1>11. Handed'
  <2>1. next \subseteq cached
    BY <1>1 DEF IInv, Handed
  <2> QED
    BY <1>2, <1>3, <2>1 DEF IInv, Handed
<1>12. Begun'
  <2>1. CASE Blank
    <3>1. fetchQueue' = fetchQueue
      BY <1>1, <2>1 DEF Blank, FetcherFinishes
    <3> QED
      BY <1>2, <2>1, <3>1 DEF Blank, Begun
  <2> QED
    BY <1>2, <2>1 DEF IInv, Begun
<1>13. Returning'
  BY <1>2, <1>4 DEF IInv, Returning
<1> QED
  BY <1>5, <1>6, <1>7, <1>9, <1>10, <1>11, <1>12, <1>13 DEF IInv

-----------------------------------------------------------------------------
\* What a step of the repair worker keeps, as long as it goes on with what it
\* was asked for.
LEMMA RepairStep ==
    ASSUME IInv, Walking,
           repair.pc # "idle" \/ errorQueue # <<>>,
           UNCHANGED <<room, mode, target, fetchQueue, lists, fetcher, loop>>,
           digesting' \subseteq Events,
           cached \subseteq cached', cached' \subseteq Events,
           tried' \subseteq Events,
           errorQueue' \in Seq(Events),
           repair' \in Repairs,
           retries' \in [Events -> Retries],
           \A e \in Events : retries'[e].pc = "found" => retries[e].pc = "found",
           working' \subseteq working \cup {"repair"},
           working \subseteq working' \cup {"repair"},
           repair'.pc \in {"searching", "sending", "stuck"} => "repair" \in working',
           repair'.pc = "gone" => walk.stopped,
           Searched'
    PROVE  IInv'
<1>1. mode = "walk" /\ walk.pc = "running"
  BY DEF Walking
<1>2. Shape'
  BY DEF IInv, Shape
<1>3. ModeOK' /\ Commanded'
  BY WalkIsNotCommand
<1>4. Awake'
  BY DEF IInv, Awake
<1>5. Held' /\ Ending'
  BY <1>1 DEF IInv, Held, Ending
<1>6. Reported'
  BY DEF IInv, Reported, Queued, Ancestors
<1>7. Handed'
  <2>1. \A item \in ToSet(fetchQueue') : item.ids \subseteq cached' \cup {Start}
    BY DEF IInv, Handed
  <2> QED
    BY <2>1 DEF IInv, Handed
<1>8. Begun'
  <2>1. ~Blank
    BY DEF Blank
  <2> QED
    BY <1>1, <2>1 DEF IInv, Begun
<1>9. Returning'
  BY DEF IInv, Returning
<1> QED
  BY <1>2, <1>3, <1>4, <1>5, <1>6, <1>7, <1>8, <1>9 DEF IInv

LEMMA RepairGetsIInv == ASSUME IInv, RepairGets PROVE IInv'
<1>1. PICK e : e = Head(errorQueue)
  OBVIOUS
<1>2. /\ e \in Events /\ errorQueue' = Tail(errorQueue) /\ errorQueue' \in Seq(Events)
      /\ ToSet(errorQueue) = {e} \cup ToSet(errorQueue')
  BY <1>1, TailHolds DEF IInv, Shape, RepairGets
<1>3. repair' = [pc |-> "searching", root |-> e, toTry |-> <<e>>, searching |-> {},
                 toSend |-> <<>>, at |-> 0]
  BY <1>1 DEF RepairGets, IdleRepair
<1>4. UNCHANGED <<server, cached, fetchQueue, lists, tried, fetcher, retries, loop, limits>>
      /\ working' = working \cup {"repair"} /\ Walking /\ errorQueue # <<>> /\ repair.pc = "idle"
  BY DEF RepairGets
<1>5. repair' \in Repairs
  <2>1. <<e>> \in Seq(Events) /\ <<>> \in Seq(Events)
    BY <1>2
  <2> QED
    BY <1>2, <1>3, <2>1 DEF Repairs
<1>6. Searched'
  <2>1. <<e>> # <<>> /\ Head(<<e>>) = e
    OBVIOUS
  <2>2. repair'.pc = "searching" /\ repair'.root = e /\ repair'.toTry = <<e>>
    BY <1>3
  <2> QED
    BY <1>2, <1>4, <2>1, <2>2 DEF IInv, Searched
<1>7. digesting' \subseteq Events /\ cached' \subseteq Events /\ tried' \subseteq Events
      /\ retries' \in [Events -> Retries]
  BY <1>4 DEF IInv, Shape
<1> QED
  BY <1>2, <1>3, <1>4, <1>5, <1>6, <1>7, RepairStep

LEMMA FollowType ==
    ASSUME Shape, NEW e \in Events, NEW more \in Seq(Events), Follow(e, more), repair.toTry # <<>>
    PROVE  repair' \in Repairs /\ repair'.pc = repair.pc /\ repair'.root = repair.root
<1>1. PICK copies : copies = [i \in 1..room.copies[e] |-> e]
  OBVIOUS
<1>2. copies \in Seq(Events)
  <2>1. room.copies[e] \in Nat
    BY RoomWalkAssumption DEF Shape, IsRoom
  <2>2. copies \in [1..room.copies[e] -> Events]
    BY <1>1
  <2> QED
    BY <2>1, <2>2
<1>3. /\ Tail(repair.toTry) \in Seq(Events) /\ repair.toSend \in Seq(Events)
      /\ repair.searching \subseteq Events
  BY TailHolds DEF Shape, Repairs
<1>4. Tail(repair.toTry) \o more \in Seq(Events) /\ repair.toSend \o copies \in Seq(Events)
  BY <1>2, <1>3, ConcatProperties
<1>5. ToSet(more) \subseteq Events
  BY LenProperties DEF ToSet
<1>6. repair' = [pc |-> repair.pc, root |-> repair.root, toTry |-> Tail(repair.toTry) \o more,
                 searching |-> repair.searching \cup ToSet(more),
                 toSend |-> repair.toSend \o copies, at |-> repair.at]
  BY <1>1 DEF Shape, Repairs, Follow
<1> QED
  BY <1>3, <1>4, <1>5, <1>6 DEF Shape, Repairs

\* The orders of the missing ancestors are lists of events.
LEMMA OrdersType ==
    ASSUME NEW P \in SUBSET Events, NEW A \in SUBSET Events,
           NEW p \in SetToSeqs(P), NEW a \in SetToSeqs(A)
    PROVE  /\ p \in Seq(Events) /\ ToSet(p) = P
           /\ p \o a \in Seq(Events)
<1>1. ASSUME NEW T \in SUBSET Events, NEW q \in SetToSeqs(T) PROVE q \in Seq(Events) /\ ToSet(q) = T
  <2>1. q \in Seq(T) /\ ToSet(q) = T
    BY <1>1, FS_Subset, OrderHolds, RoomWalkAssumption
  <2> QED
    BY <2>1, SeqMonotonic
<1> QED
  BY <1>1, ConcatProperties

\* The three ways to go on with the head of the local queue.
LEMMA RepairSearchesTo ==
    ASSUME Shape, RepairSearches
    PROVE  /\ Head(repair.toTry) \in tried'
           /\ tried \subseteq tried' /\ tried' \subseteq Events
           /\ cached \subseteq cached' /\ cached' \subseteq Events
           /\ repair' \in Repairs /\ repair'.pc = "searching" /\ repair'.root = repair.root
<1> DEFINE e == Head(repair.toTry)
<1>1. repair.pc = "searching" /\ repair.toTry # <<>>
  BY DEF RepairSearches
<1>2. e \in Events /\ Tail(repair.toTry) \in Seq(Events)
  BY <1>1, TailHolds DEF Shape, Repairs
<1>3. CASE repair' = [repair EXCEPT !.toTry = Tail(@)] /\ cached' = cached
  <2>1. repair' = [pc |-> "searching", root |-> repair.root, toTry |-> Tail(repair.toTry),
                   searching |-> repair.searching, toSend |-> repair.toSend, at |-> repair.at]
    BY <1>1, <1>3 DEF Shape, Repairs
  <2>2. repair' \in Repairs
    BY <1>2, <2>1 DEF Shape, Repairs
  <2>3. e \in tried' /\ tried \subseteq tried' /\ tried' \subseteq tried \cup {e}
    BY DEF RepairSearches
  <2> QED
    BY <1>2, <1>3, <2>1, <2>2, <2>3 DEF Shape
<1>4. CASE e \in tried \/ room.copies[e] = 0
  BY <1>3, <1>4 DEF RepairSearches
<1>5. CASE e \notin tried /\ room.copies[e] # 0
  <2>1. tried' = tried \cup {e}
    BY <1>5 DEF RepairSearches
  <2>2. PICK good \in SUBSET Ancestors(e) :
            /\ cached' = cached \cup good
            /\ \E prevs \in SetToSeqs((room.prev[e] \ good) \ repair.searching),
                  auths \in SetToSeqs((room.auth[e] \ good) \ (repair.searching \cup room.prev[e])) :
                Follow(e, prevs \o auths)
    BY <1>5 DEF RepairSearches
  <2>3. PICK prevs \in SetToSeqs((room.prev[e] \ good) \ repair.searching),
             auths \in SetToSeqs((room.auth[e] \ good) \ (repair.searching \cup room.prev[e])) :
                Follow(e, prevs \o auths)
    BY <2>2
  <2>4. room.prev[e] \subseteq Events /\ room.auth[e] \subseteq Events /\ Ancestors(e) \subseteq Events
    BY <1>2, RoomWalkAssumption DEF Shape, IsRoom, Ancestors
  <2>5. prevs \o auths \in Seq(Events)
    BY <2>4, OrdersType
  <2>6. repair' \in Repairs /\ repair'.pc = repair.pc /\ repair'.root = repair.root
    BY <1>1, <1>2, <2>3, <2>5, FollowType
  <2> QED
    BY <1>1, <1>2, <2>1, <2>2, <2>4, <2>6 DEF Shape
<1> QED
  BY <1>4, <1>5

LEMMA RepairSearchesIInv == ASSUME IInv, RepairSearches PROVE IInv'
<1>1. /\ Head(repair.toTry) \in tried'
      /\ tried \subseteq tried' /\ tried' \subseteq Events
      /\ cached \subseteq cached' /\ cached' \subseteq Events
      /\ repair' \in Repairs /\ repair'.pc = "searching" /\ repair'.root = repair.root
  BY RepairSearchesTo DEF IInv
<1>2. /\ UNCHANGED <<server, queues, lists, working, fetcher, retries, loop, stuck, presses>>
      /\ Walking /\ repair.pc = "searching"
  BY DEF RepairSearches
<1>3. Searched'
  BY <1>1, <1>2 DEF IInv, Searched
<1>4. /\ digesting' \subseteq Events /\ errorQueue' \in Seq(Events) /\ retries' \in [Events -> Retries]
      /\ "repair" \in working'
  BY <1>2 DEF IInv, Shape, Awake, Walking
<1> QED
  BY <1>1, <1>2, <1>3, <1>4, RepairStep

LEMMA ReverseType ==
    ASSUME NEW S, NEW q \in Seq(S)
    PROVE  /\ Reverse(q) \in Seq(S) /\ Len(Reverse(q)) = Len(q)
           /\ \A i \in 1..Len(q) : Reverse(q)[i] = q[(Len(q) - i) + 1]
<1>1. Len(q) \in Nat /\ q \in [1..Len(q) -> S]
  BY LenProperties
<1>2. \A i \in 1..Len(q) : (Len(q) - i) + 1 \in 1..Len(q)
  BY <1>1
<1>3. Reverse(q) \in [1..Len(q) -> S]
  BY <1>1, <1>2 DEF Reverse
<1>4. Reverse(q) \in Seq(S) /\ Len(Reverse(q)) = Len(q)
  BY <1>1, <1>3
<1> QED
  BY <1>4 DEF Reverse

LEMMA RepairSearchedIInv == ASSUME IInv, RepairSearched PROVE IInv'
<1>1. PICK list : list = OldestLast(repair.toSend)
  OBVIOUS
<1>2. /\ UNCHANGED <<server, cached, queues, lists, tried, working, fetcher, retries, loop, limits>>
      /\ Walking /\ repair.pc = "searching" /\ (repair.toTry = <<>> \/ status = "STOP")
  BY DEF RepairSearched
<1>3. repair' = [pc |-> "sending", root |-> repair.root, toTry |-> repair.toTry,
                 searching |-> repair.searching, toSend |-> list, at |-> repair.at]
  BY <1>1 DEF IInv, Shape, Repairs, RepairSearched
<1>4. repair' \in Repairs
  <2>1. list \in Seq(Events)
    BY <1>1, ReverseType DEF IInv, Shape, Repairs, OldestLast
  <2> QED
    BY <1>3, <2>1 DEF IInv, Shape, Repairs
<1>5. Searched'
  <2>1. walk.stopped \/ status # "STOP"
    BY DEF IInv, Awake
  <2>2. repair'.pc = "sending" /\ repair'.root = repair.root
    BY <1>3
  <2> QED
    BY <1>2, <2>1, <2>2 DEF IInv, Searched
<1>6. /\ digesting' \subseteq Events /\ errorQueue' \in Seq(Events) /\ retries' \in [Events -> Retries]
      /\ cached' \subseteq Events /\ tried' \subseteq Events
      /\ "repair" \in working'
  BY <1>2 DEF IInv, Shape, Awake, Walking
<1> QED
  BY <1>2, <1>3, <1>4, <1>5, <1>6, RepairStep

\* The destination takes none but events that were sent.
LEMMA AcceptedType ==
    ASSUME target \subseteq Events, digesting \subseteq Events, NEW batch \in Seq(Events)
    PROVE  Accepted(batch) \subseteq Events
<1>1. \A i \in DOMAIN batch : batch[i] \in Events
  BY LenProperties, ElementOfSeq
<1> QED
  BY <1>1 DEF Accepted

LEMMA RepairSendsIInv == ASSUME IInv, RepairSends PROVE IInv'
<1>1. PICK last :
        /\ last = IF Len(repair.toSend) < repair.at + BatchSize THEN Len(repair.toSend)
                  ELSE repair.at + BatchSize
        /\ digesting' = Accepted(SubSeq(repair.toSend, repair.at + 1, last)) \ target
        /\ repair' = [repair EXCEPT !.at = last]
  BY DEF RepairSends
<1>2. /\ UNCHANGED <<room, mode, target, cached, queues, lists, tried, working, fetcher, retries,
                     loop, limits>>
      /\ Walking /\ repair.pc = "sending"
  BY DEF RepairSends
<1>3. repair.toSend \in Seq(Events) /\ repair.at \in Nat /\ Len(repair.toSend) \in Nat
      /\ BatchSize \in Nat
  BY LenProperties, RoomWalkAssumption DEF IInv, Shape, Repairs
<1>4. last \in Nat /\ last <= Len(repair.toSend)
  BY <1>1, <1>3
<1>5. repair' = [pc |-> "sending", root |-> repair.root, toTry |-> repair.toTry,
                 searching |-> repair.searching, toSend |-> repair.toSend, at |-> last]
  BY <1>1, <1>2 DEF IInv, Shape, Repairs
<1>6. repair' \in Repairs
  BY <1>4, <1>5 DEF IInv, Shape, Repairs
<1>7. SubSeq(repair.toSend, repair.at + 1, last) \in Seq(Events)
  <2>1. \A i \in (repair.at + 1)..last : repair.toSend[i] \in Events
    BY <1>3, <1>4, ElementOfSeq
  <2>2. repair.at + 1 \in Int /\ last \in Int
    BY <1>3, <1>4
  <2> QED
    BY <2>1, <2>2, SubSeqProperties
<1>8. digesting' \subseteq Events
  BY <1>1, <1>7, AcceptedType DEF IInv, Shape
<1>9. Searched'
  <2>1. repair'.pc = "sending" /\ repair'.root = repair.root
    BY <1>5
  <2> QED
    BY <1>2, <2>1 DEF IInv, Searched
<1>10. /\ errorQueue' \in Seq(Events) /\ retries' \in [Events -> Retries]
       /\ cached' \subseteq Events /\ tried' \subseteq Events
       /\ "repair" \in working'
  BY <1>2 DEF IInv, Shape, Awake, Walking
<1> QED
  BY <1>2, <1>5, <1>6, <1>8, <1>9, <1>10, RepairStep

LEMMA RepairFinishesIInv == ASSUME IInv, RepairFinishes PROVE IInv'
<1>1. /\ UNCHANGED <<server, cached, queues, lists, tried, fetcher, loop, limits>>
      /\ Walking /\ repair.pc = "sending"
      /\ working' = working \ {"repair"}
  BY DEF RepairFinishes, Done
<1>2. repair' = [pc |-> NextRound, root |-> Start, toTry |-> <<>>, searching |-> {},
                 toSend |-> <<>>, at |-> 0]
  BY DEF RepairFinishes, IdleRepair
<1>3. repair' \in Repairs
  BY <1>2, EmptySeq, RoomWalkAssumption DEF Repairs, NextRound
<1>4. /\ retries' \in [Events -> Retries]
      /\ \A e \in Events : retries'[e].pc = "found" => retries[e].pc = "found"
  <2>1. retries \in [Events -> Retries] /\ repair.root \in Events
    BY DEF IInv, Shape, Repairs
  <2>2. CASE retries' = [retries EXCEPT ![repair.root].pc = "created"]
    <3>1. PICK r : r = [retries[repair.root] EXCEPT !.pc = "created"]
      OBVIOUS
    <3>2. r \in Retries /\ r.pc = "created"
      BY <2>1, <3>1 DEF Retries
    <3>3. retries' = [retries EXCEPT ![repair.root] = r]
      BY <2>1, <2>2, <3>1
    <3> QED
      BY <2>1, <3>2, <3>3
  <2> QED
    BY <2>1, <2>2 DEF RepairFinishes
<1>5. Searched'
  <2>1. repair'.pc \in {"idle", "gone"}
    BY <1>2 DEF NextRound
  <2> QED
    BY <1>1, <2>1 DEF IInv, Searched
<1>6. /\ digesting' \subseteq Events /\ errorQueue' \in Seq(Events)
      /\ cached' \subseteq Events /\ tried' \subseteq Events
      /\ repair'.pc = "gone" => walk.stopped
      /\ repair'.pc \notin {"searching", "sending", "stuck"}
  BY <1>1, <1>2 DEF IInv, Shape, Awake, NextRound
<1> QED
  BY <1>1, <1>3, <1>4, <1>5, <1>6, RepairStep

LEMMA DestinationDigestsIInv == ASSUME IInv, DestinationDigests PROVE IInv'
<1>1. PICK e \in digesting : target' = target \cup {e} /\ digesting' = digesting \ {e}
  BY DEF DestinationDigests
<1>2. UNCHANGED <<room, mode, cached, queues, lists, tried, working, fetcher, repair, retries,
                  loop, limits>>
  BY DEF DestinationDigests
<1>3. Shape'
  BY <1>1, <1>2 DEF IInv, Shape
<1>4. ModeOK' /\ Awake' /\ Held' /\ Searched' /\ Ending'
  BY <1>2 DEF IInv, ModeOK, Awake, Held, Searched, Ending, IdleFetcher
<1>5. Reported' /\ Handed' /\ Returning'
  BY <1>2 DEF IInv, Reported, Handed, Returning, Queued, Ancestors
<1>6. Begun'
  BY <1>2 DEF IInv, Begun, Blank
<1>7. Commanded'
  <2>1. mode = "command" => repair.pc \notin {"idle", "searching"}
    BY <1>1 DEF IInv, Commanded
  <2> QED
    BY <1>2, <2>1 DEF IInv, Commanded, CommandSendsOldestFirst, Commanding
<1> QED
  BY <1>3, <1>4, <1>5, <1>6, <1>7 DEF IInv

LEMMA WorkerStuckIInv == ASSUME IInv, WorkerStuck PROVE IInv'
<1>1. /\ UNCHANGED <<server, cached, queues, lists, tried, working, loop, faults, presses>>
      /\ Walking
  BY DEF WorkerStuck
<1>2. CASE /\ fetcher.pc \in {"pulling", "prev", "auth"}
           /\ fetcher' = [fetcher EXCEPT !.pc = "stuck"]
           /\ UNCHANGED <<repair, retries>>
  <2>1. fetcher' = [pc |-> "stuck", ids |-> fetcher.ids, retry |-> fetcher.retry,
                    at |-> fetcher.at, good |-> fetcher.good, next |-> fetcher.next]
    BY <1>2 DEF IInv, Shape, Fetchers
  <2>2. fetcher' \in Fetchers
    BY <2>1 DEF IInv, Shape, Fetchers
  <2>3. Shape'
    BY <1>1, <1>2, <2>2 DEF IInv, Shape
  <2>4. ModeOK' /\ Commanded'
    BY <1>1, WalkIsNotCommand
  <2>5. Awake' /\ Held' /\ Searched' /\ Ending'
    BY <1>1, <1>2, <2>1 DEF IInv, Awake, Held, Searched, Ending
  <2>6. Reported' /\ Handed' /\ Returning'
    BY <1>1, <1>2, <2>1 DEF IInv, Reported, Handed, Returning, Queued, Ancestors
  <2>7. Begun'
    BY <1>1, <1>2, <2>1 DEF IInv, Begun, Blank
  <2> QED
    BY <2>3, <2>4, <2>5, <2>6, <2>7 DEF IInv
<1>3. CASE /\ repair.pc \in {"searching", "sending"}
           /\ repair' = [repair EXCEPT !.pc = "stuck"]
           /\ UNCHANGED <<fetcher, retries>>
  <2>1. repair' = [pc |-> "stuck", root |-> repair.root, toTry |-> repair.toTry,
                   searching |-> repair.searching, toSend |-> repair.toSend, at |-> repair.at]
    BY <1>3 DEF IInv, Shape, Repairs
  <2>2. repair' \in Repairs
    BY <2>1 DEF IInv, Shape, Repairs
  <2>3. Searched'
    <3>1. repair'.pc = "stuck" /\ repair'.root = repair.root
      BY <2>1
    <3> QED
      BY <1>1, <1>3, <3>1 DEF IInv, Searched
  <2>4. /\ digesting' \subseteq Events /\ errorQueue' \in Seq(Events) /\ retries' \in [Events -> Retries]
        /\ cached' \subseteq Events /\ tried' \subseteq Events
        /\ "repair" \in working'
    BY <1>1, <1>3 DEF IInv, Shape, Awake, Walking
  <2> QED
    BY <1>1, <1>3, <2>1, <2>2, <2>3, <2>4, RepairStep
<1>4. ASSUME NEW e \in Events, retries[e].pc = "sleeping",
             retries' = [retries EXCEPT ![e].pc = "stuck"], UNCHANGED <<fetcher, repair>>
      PROVE  IInv'
  <2>1. retries \in [Events -> Retries] /\ retries[e] \in Retries
    BY DEF IInv, Shape
  <2>2. PICK r : r = [retries[e] EXCEPT !.pc = "stuck"]
    OBVIOUS
  <2>3. r \in Retries /\ r.pc = "stuck"
    BY <2>1, <2>2 DEF Retries
  <2>4. retries' = [retries EXCEPT ![e] = r]
    BY <1>4, <2>1, <2>2
  <2>5. /\ retries' \in [Events -> Retries]
        /\ \A d \in Events : retries'[d].pc = "found" => retries[d].pc = "found"
    BY <2>1, <2>3, <2>4
  <2>6. Shape'
    BY <1>1, <1>4, <2>5 DEF IInv, Shape
  <2>7. ModeOK' /\ Commanded'
    BY <1>1, WalkIsNotCommand
  <2>8. Awake' /\ Held' /\ Searched' /\ Ending'
    BY <1>1, <1>4 DEF IInv, Awake, Held, Searched, Ending
  <2>9. Reported' /\ Handed'
    BY <1>1, <1>4 DEF IInv, Reported, Handed, Queued, Ancestors
  <2>10. Begun'
    <3>1. ~Blank
      BY <1>4 DEF Blank
    <3> QED
      BY <1>1, <1>4, <3>1 DEF IInv, Begun
  <2>11. Returning'
    BY <1>1, <1>4, <2>5 DEF IInv, Returning
  <2> QED
    BY <2>6, <2>7, <2>8, <2>9, <2>10, <2>11 DEF IInv
<1> QED
  BY <1>2, <1>3, <1>4 DEF WorkerStuck

LEMMA RetryBeginsIInv == ASSUME IInv, NEW e \in Events, RetryBegins(e) PROVE IInv'
<1>1. /\ UNCHANGED <<server, cached, queues, lists, tried, fetcher, repair, status, walk, limits>>
      /\ Walking /\ retries[e].pc = "created"
      /\ working' = working \cup {e}
  BY DEF RetryBegins
<1>2. PICK r : r = [retries[e] EXCEPT !.pc = IF status = "STOP" THEN "gone" ELSE "sleeping"]
  OBVIOUS
<1>3. retries \in [Events -> Retries] /\ retries' = [retries EXCEPT ![e] = r]
  BY <1>2 DEF IInv, Shape, RetryBegins
<1>4. r \in Retries /\ r.pc # "found"
  BY <1>2, <1>3 DEF Retries
<1>5. /\ retries' \in [Events -> Retries]
      /\ \A d \in Events : retries'[d].pc = "found" => retries[d].pc = "found"
  BY <1>3, <1>4
<1>6. Shape'
  BY <1>1, <1>5 DEF IInv, Shape
<1>7. ModeOK' /\ Commanded'
  BY <1>1, WalkIsNotCommand
<1>8. Awake' /\ Held' /\ Searched'
  BY <1>1 DEF IInv, Awake, Held, Searched
<1>9. Reported' /\ Handed'
  BY <1>1 DEF IInv, Reported, Handed, Queued, Ancestors
<1>10. Ending'
  BY <1>1 DEF IInv, Ending, Walking
<1>11. Begun'
  <2>1. ~Blank
    BY <1>1 DEF Blank
  <2> QED
    BY <1>1, <2>1 DEF IInv, Begun
<1>12. Returning'
  BY <1>1, <1>5 DEF IInv, Returning
<1> QED
  BY <1>6, <1>7, <1>8, <1>9, <1>10, <1>11, <1>12 DEF IInv

\* A check leaves the worker asleep, gone, or done; only a found event is queued.
LEMMA RetryChecksTo ==
    ASSUME Shape, NEW e \in Events, RetryChecks(e)
    PROVE  /\ cached \subseteq cached' /\ cached' \subseteq Events
           /\ retries' \in [Events -> Retries]
           /\ \A d \in Events \ {e} : retries'[d] = retries[d]
           /\ \/ /\ e \in cached'
                 /\ fetchQueue' = Append(fetchQueue, [retry |-> TRUE, ids |-> {e}])
                 /\ working' = working \ {e}
              \/ /\ retries'[e].pc # "found" /\ fetchQueue' = fetchQueue
                 /\ working' \in {working, working \ {e}}
<1>1. PICK got \in SUBSET {e} :
        /\ cached' = cached \cup got
        /\ \/ /\ got = {e}
              /\ fetchQueue' = Append(fetchQueue, [retry |-> TRUE, ids |-> {e}])
              /\ retries' = [retries EXCEPT ![e].pc = "found"]
              /\ working' = Done(e)
           \/ /\ got = {}
              /\ TriesLeft(retries[e].tries)
              /\ retries' = [retries EXCEPT ![e].tries = @ + 1,
                                ![e].pc = IF status = "STOP" THEN "gone" ELSE "sleeping"]
              /\ UNCHANGED <<fetchQueue, working>>
           \/ /\ got = {}
              /\ ~TriesLeft(retries[e].tries)
              /\ retries' = [retries EXCEPT ![e].pc = "gaveUp"]
              /\ working' = Done(e)
              /\ UNCHANGED fetchQueue
  BY DEF RetryChecks
<1>2. cached \subseteq cached' /\ cached' \subseteq Events
  BY <1>1 DEF Shape
<1>3. retries \in [Events -> Retries] /\ retries[e] \in Retries
  BY DEF Shape
<1>4. CASE /\ got = {e}
           /\ fetchQueue' = Append(fetchQueue, [retry |-> TRUE, ids |-> {e}])
           /\ retries' = [retries EXCEPT ![e].pc = "found"]
           /\ working' = Done(e)
  <2>1. PICK r : r = [retries[e] EXCEPT !.pc = "found"]
    OBVIOUS
  <2>2. r \in Retries
    BY <1>3, <2>1 DEF Retries
  <2>3. retries' = [retries EXCEPT ![e] = r]
    BY <1>3, <1>4, <2>1
  <2>4. retries' \in [Events -> Retries] /\ \A d \in Events \ {e} : retries'[d] = retries[d]
    BY <1>3, <2>2, <2>3
  <2>5. e \in cached'
    BY <1>1, <1>4
  <2> QED
    BY <1>2, <1>4, <2>4, <2>5 DEF Done
<1>5. CASE /\ got = {}
           /\ TriesLeft(retries[e].tries)
           /\ retries' = [retries EXCEPT ![e].tries = @ + 1,
                             ![e].pc = IF status = "STOP" THEN "gone" ELSE "sleeping"]
           /\ UNCHANGED <<fetchQueue, working>>
  <2>1. PICK r : r = [retries[e] EXCEPT !.tries = @ + 1,
                                        !.pc = IF status = "STOP" THEN "gone" ELSE "sleeping"]
    OBVIOUS
  <2>2. retries[e].tries \in Nat /\ retries[e].tries + 1 < MaxTries /\ MaxTries \in Nat
    BY <1>3, <1>5, RoomWalkAssumption DEF Retries, TriesLeft
  <2>3. r \in Retries /\ r.pc # "found"
    <3>1. r = [pc |-> IF status = "STOP" THEN "gone" ELSE "sleeping", tries |-> retries[e].tries + 1]
      BY <1>3, <2>1 DEF Retries
    <3>2. retries[e].tries + 1 \in 0..MaxTries
      BY <2>2
    <3>3. (IF status = "STOP" THEN "gone" ELSE "sleeping") \in {"gone", "sleeping"}
      OBVIOUS
    <3> QED
      BY <3>1, <3>2, <3>3 DEF Retries
  <2>4. retries' = [retries EXCEPT ![e] = r]
    BY <1>3, <1>5, <2>1
  <2>5. retries' \in [Events -> Retries] /\ \A d \in Events \ {e} : retries'[d] = retries[d]
        /\ retries'[e].pc # "found"
    BY <1>3, <2>3, <2>4
  <2> QED
    BY <1>2, <1>5, <2>5
<1>6. CASE /\ got = {}
           /\ ~TriesLeft(retries[e].tries)
           /\ retries' = [retries EXCEPT ![e].pc = "gaveUp"]
           /\ working' = Done(e)
           /\ UNCHANGED fetchQueue
  <2>1. PICK r : r = [retries[e] EXCEPT !.pc = "gaveUp"]
    OBVIOUS
  <2>2. r \in Retries /\ r.pc # "found"
    BY <1>3, <2>1 DEF Retries
  <2>3. retries' = [retries EXCEPT ![e] = r]
    BY <1>3, <1>6, <2>1
  <2>4. retries' \in [Events -> Retries] /\ \A d \in Events \ {e} : retries'[d] = retries[d]
        /\ retries'[e].pc # "found"
    BY <1>3, <2>2, <2>3
  <2> QED
    BY <1>2, <1>6, <2>4 DEF Done
<1> QED
  BY <1>1, <1>4, <1>5, <1>6

LEMMA RetryChecksIInv == ASSUME IInv, NEW e \in Events, RetryChecks(e) PROVE IInv'
<1>1. /\ UNCHANGED <<server, errorQueue, lists, tried, fetcher, repair, loop, stuck, presses>>
      /\ Walking /\ retries[e].pc = "sleeping"
  BY DEF RetryChecks
<1>2. /\ cached \subseteq cached' /\ cached' \subseteq Events
      /\ retries' \in [Events -> Retries]
      /\ \A d \in Events \ {e} : retries'[d] = retries[d]
      /\ \/ /\ e \in cached'
            /\ fetchQueue' = Append(fetchQueue, [retry |-> TRUE, ids |-> {e}])
         \/ retries'[e].pc # "found" /\ fetchQueue' = fetchQueue
      /\ working' \in {working, working \ {e}}
  BY RetryChecksTo DEF IInv
<1>3. PICK back : back = [retry |-> TRUE, ids |-> {e}]
  OBVIOUS
<1>4. back \in Items /\ back.ids = {e}
  BY <1>3 DEF Items
<1>5. /\ fetchQueue' \in Seq(Items) /\ ToSet(fetchQueue) \subseteq ToSet(fetchQueue')
      /\ \/ ToSet(fetchQueue') = ToSet(fetchQueue)
         \/ e \in cached' /\ ToSet(fetchQueue') = ToSet(fetchQueue) \cup {back}
      /\ back \in ToSet(fetchQueue') \/ retries'[e].pc # "found"
  <2>1. fetchQueue \in Seq(Items)
    BY DEF IInv, Shape
  <2>2. CASE e \in cached' /\ fetchQueue' = Append(fetchQueue, back)
    BY <1>4, <2>1, <2>2, AppendHolds
  <2>3. CASE retries'[e].pc # "found" /\ fetchQueue' = fetchQueue
    BY <2>1, <2>3
  <2> QED
    BY <1>2, <1>3, <2>2, <2>3
<1>6. e \notin {"fetcher", "repair"}
  BY RoomWalkAssumption
<1>7. Shape'
  BY <1>1, <1>2, <1>5 DEF IInv, Shape
<1>8. ModeOK' /\ Commanded'
  BY <1>1, WalkIsNotCommand
<1>9. Awake' /\ Held' /\ Searched'
  BY <1>1, <1>2, <1>6 DEF IInv, Awake, Held, Searched
<1>10. Reported'
  <2>1. Queued \subseteq Queued'
    BY <1>5, QueuedIs, QueuedIsNext
  <2> QED
    BY <1>1, <1>2, <2>1 DEF IInv, Reported, Ancestors
<1>11. Handed'
  <2>1. \A item \in ToSet(fetchQueue') : item.ids \subseteq cached' \cup {Start}
    BY <1>2, <1>4, <1>5 DEF IInv, Handed
  <2> QED
    BY <1>1, <1>2, <2>1 DEF IInv, Handed
<1>12. Begun'
  <2>1. ~Blank
    BY <1>1 DEF Blank
  <2> QED
    BY <1>1, <2>1 DEF IInv, Begun
<1>13. Returning'
  <2> SUFFICES ASSUME NEW d \in Events, retries'[d].pc = "found"
               PROVE  /\ d \in cached'
                      /\ \/ d \in resolvedList
                         \/ fetcher.retry /\ d \in fetcher.ids
                         \/ [retry |-> TRUE, ids |-> {d}] \in ToSet(fetchQueue')
    BY <1>1 DEF Returning
  <2>1. CASE d = e
    <3>1. e \in cached'
      BY <1>2, <2>1
    <3> QED
      BY <1>3, <1>5, <2>1, <3>1
  <2>2. CASE d # e
    BY <1>2, <1>5, <2>2 DEF IInv, Returning
  <2> QED
    BY <2>1, <2>2
<1>14. Ending'
  BY <1>1 DEF IInv, Ending, Walking
<1> QED
  BY <1>7, <1>8, <1>9, <1>10, <1>11, <1>12, <1>13, <1>14 DEF IInv

LEMMA RenderIInv == ASSUME IInv, Render PROVE IInv'
<1>1. /\ UNCHANGED <<server, cached, queues, lists, tried, working, fetcher, repair, retries,
                     status, limits>>
      /\ Walking
      /\ walk' = [pc |-> IF status = "STOP" \/ OutOfWork(IdleRounds) THEN "ended" ELSE "running",
                  idle |-> IdleRounds,
                  natural |-> OutOfWork(IdleRounds) /\ status # "STOP",
                  stopped |-> walk.stopped]
  BY DEF Render
<1>2. walk.idle \in Nat /\ walk.idle <= RoundsToFinish /\ RoundsToFinish \in Nat
      /\ walk.stopped \in BOOLEAN
  BY <1>1, RoomWalkAssumption DEF IInv, Shape, Walks, Ending, Walking
<1>3. IdleRounds \in 0..(RoundsToFinish + 1)
  BY <1>2 DEF IdleRounds
<1>4. OutOfWork(IdleRounds) => fetchQueue = <<>> /\ errorQueue = <<>> /\ working = {}
  BY <1>2 DEF IdleRounds, OutOfWork
<1>5. ~OutOfWork(IdleRounds) => IdleRounds <= RoundsToFinish
  BY <1>2, <1>3 DEF OutOfWork
<1>6. OutOfWork(IdleRounds) \in BOOLEAN
  BY DEF OutOfWork
<1>7. walk' \in Walks
  <2>1. (OutOfWork(IdleRounds) /\ status # "STOP") \in BOOLEAN
    OBVIOUS
  <2>2. (IF status = "STOP" \/ OutOfWork(IdleRounds) THEN "ended" ELSE "running") \in {"running", "ended"}
    OBVIOUS
  <2> QED
    BY <1>1, <1>2, <1>3, <2>1, <2>2 DEF Walks
<1>8. walk'.stopped = walk.stopped
  BY <1>1
<1>9. Ending'
  <2>1. walk'.natural => fetchQueue = <<>> /\ errorQueue = <<>> /\ working = {}
    BY <1>1, <1>4
  <2>2. walk'.pc = "running" => ~OutOfWork(IdleRounds)
    BY <1>1
  <2>3. walk'.pc = "running" => walk'.idle <= RoundsToFinish /\ ~walk'.natural
    BY <1>1, <1>5, <2>2
  <2> QED
    BY <1>1, <2>1, <2>3 DEF Ending
<1>10. Shape'
  BY <1>1, <1>7 DEF IInv, Shape
<1>11. ModeOK' /\ Commanded'
  BY <1>1, WalkIsNotCommand
<1>12. Awake' /\ Held' /\ Searched'
  BY <1>1, <1>8 DEF IInv, Awake, Held, Searched
<1>13. Reported' /\ Handed' /\ Returning'
  BY <1>1 DEF IInv, Reported, Handed, Returning, Queued, Ancestors
<1>14. Begun'
  BY <1>1 DEF IInv, Begun, Blank
<1> QED
  BY <1>9, <1>10, <1>11, <1>12, <1>13, <1>14 DEF IInv

LEMMA UserPressesIInv == ASSUME IInv, UserPresses PROVE IInv'
<1>1. /\ UNCHANGED <<server, cached, queues, lists, tried, working, fetcher, repair, retries>>
      /\ Walking
  BY DEF UserPresses
<1>2. PICK s \in {"START", "PAUSE", "STOP"} :
        status' = s /\ walk' = [walk EXCEPT !.stopped = @ \/ s = "STOP"]
  BY DEF UserPresses
<1>3. walk' = [pc |-> walk.pc, idle |-> walk.idle, natural |-> walk.natural,
               stopped |-> walk.stopped \/ s = "STOP"]
  BY <1>2 DEF IInv, Shape, Walks
<1>4. walk' \in Walks
  <2>1. (walk.stopped \/ s = "STOP") \in BOOLEAN
    OBVIOUS
  <2> QED
    BY <1>3, <2>1 DEF IInv, Shape, Walks
<1>5. (walk.stopped => walk'.stopped) /\ (status' = "STOP" => walk'.stopped)
      /\ walk'.pc = walk.pc /\ walk'.natural = walk.natural /\ walk'.idle = walk.idle
  BY <1>2, <1>3
<1>6. Shape'
  BY <1>1, <1>2, <1>4 DEF IInv, Shape
<1>7. ModeOK' /\ Commanded'
  BY <1>1, WalkIsNotCommand
<1>8. Awake' /\ Held' /\ Searched' /\ Ending'
  BY <1>1, <1>5 DEF IInv, Awake, Held, Searched, Ending
<1>9. Reported' /\ Handed' /\ Returning'
  BY <1>1 DEF IInv, Reported, Handed, Returning, Queued, Ancestors
<1>10. Begun'
  BY <1>1 DEF IInv, Begun, Blank
<1> QED
  BY <1>6, <1>7, <1>8, <1>9, <1>10 DEF IInv
-----------------------------------------------------------------------------
(***************************************************************************)
(* repair_event's own steps leave the walk alone.                          *)
(***************************************************************************)
LEMMA CommandStep ==
    ASSUME IInv, Commanding,
           UNCHANGED <<room, mode, target, queues, lists, tried, working, fetcher, retries, loop>>,
           digesting' \subseteq Events,
           cached \subseteq cached', cached' \subseteq Events,
           repair' \in Repairs, repair'.pc # "gone",
           Commanded'
    PROVE  IInv'
<1>1. mode = "command"
  BY DEF Commanding
<1>2. Shape'
  BY DEF IInv, Shape
<1>3. ModeOK'
  BY DEF IInv, ModeOK, IdleFetcher
<1>4. Awake' /\ Held' /\ Searched' /\ Ending'
  BY <1>1 DEF IInv, Awake, Held, Searched, Ending
<1>5. Reported'
  BY DEF IInv, Reported, Queued, Ancestors
<1>6. Handed'
  <2>1. \A item \in ToSet(fetchQueue') : item.ids \subseteq cached' \cup {Start}
    BY DEF IInv, Handed
  <2> QED
    BY <2>1 DEF IInv, Handed
<1>7. Begun'
  BY <1>1 DEF Begun
<1>8. Returning'
  BY DEF IInv, Returning
<1> QED
  BY <1>2, <1>3, <1>4, <1>5, <1>6, <1>7, <1>8 DEF IInv

LEMMA CommandBeginsIInv == ASSUME IInv, CommandBegins PROVE IInv'
<1>1. /\ UNCHANGED <<server, queues, lists, tried, working, fetcher, retries, loop, stuck, presses>>
      /\ Commanding /\ repair.pc = "idle" /\ mode = "command" /\ repair = IdleRepair
  BY DEF CommandBegins, Commanding, IInv, Commanded
<1>2. PICK e \in Events, got \in SUBSET Events :
        /\ got \subseteq target \cup cached
        /\ cached' = cached \cup got
        /\ repair' = IF got = {e} THEN [repair EXCEPT !.pc = "over"]
                     ELSE [repair EXCEPT !.pc = "searching", !.root = e, !.toTry = <<e>>]
  <2>1. PICK e \in Events : \E got \in SUBSET {e} :
          /\ Found({e}, got)
          /\ cached' = cached \cup got
          /\ repair' = IF got = {e} THEN [repair EXCEPT !.pc = "over"]
                       ELSE [repair EXCEPT !.pc = "searching", !.root = e, !.toTry = <<e>>]
    BY DEF CommandBegins
  <2>2. PICK got \in SUBSET {e} :
          /\ Found({e}, got)
          /\ cached' = cached \cup got
          /\ repair' = IF got = {e} THEN [repair EXCEPT !.pc = "over"]
                       ELSE [repair EXCEPT !.pc = "searching", !.root = e, !.toTry = <<e>>]
    BY <2>1
  <2>3. got \subseteq target \cup cached
    BY <2>2, FoundFacts
  <2> QED
    BY <2>2, <2>3
<1>3. /\ cached \subseteq cached' /\ cached' \subseteq Events /\ digesting' \subseteq Events
      /\ (target' \cup cached') \cap room'.missing = {} /\ digesting' = {}
  BY <1>1, <1>2 DEF IInv, Shape, Commanded
<1>4. \/ repair' = [pc |-> "over", root |-> Start, toTry |-> <<>>, searching |-> {},
                    toSend |-> <<>>, at |-> 0]
      \/ repair' = [pc |-> "searching", root |-> e, toTry |-> <<e>>, searching |-> {},
                    toSend |-> <<>>, at |-> 0]
  BY <1>1, <1>2 DEF IdleRepair
<1>5. /\ repair' \in Repairs /\ repair'.toSend = <<>> /\ repair'.pc \in {"searching", "over"}
  <2>1. <<e>> \in Seq(Events) /\ <<>> \in Seq(Events)
    BY EmptySeq
  <2>2. CASE repair' = [pc |-> "over", root |-> Start, toTry |-> <<>>, searching |-> {},
                        toSend |-> <<>>, at |-> 0]
    BY <2>1, <2>2, RoomWalkAssumption DEF Repairs
  <2>3. CASE repair' = [pc |-> "searching", root |-> e, toTry |-> <<e>>, searching |-> {},
                        toSend |-> <<>>, at |-> 0]
    BY <2>1, <2>3 DEF Repairs
  <2> QED
    BY <1>4, <2>2, <2>3
<1>6. Behind'
  BY <1>5 DEF Behind
<1>7. Commanded'
  BY <1>3, <1>5, <1>6 DEF Commanded, CommandSendsOldestFirst
<1> QED
  BY <1>1, <1>3, <1>5, <1>7, CommandStep

\* Nobody has the event, or the first usable copy of it is kept.
LEMMA CommandSearchesTo ==
    ASSUME IInv, CommandSearches
    PROVE  /\ repair' \in Repairs /\ repair'.pc = "searching"
           /\ cached \subseteq cached' /\ cached' \subseteq Events
           /\ cached' \cap room.missing = {}
           /\ \/ /\ room.copies[Head(repair.toTry)] = 0
                 /\ repair'.toTry = Tail(repair.toTry)
                 /\ repair'.toSend = repair.toSend
              \/ /\ ToSet(Tail(repair.toTry)) \subseteq ToSet(repair'.toTry)
                 /\ room.prev[Head(repair.toTry)] \cap room.missing \subseteq ToSet(repair'.toTry)
                 /\ repair'.toSend = Append(repair.toSend, Head(repair.toTry))
<1> DEFINE e == Head(repair.toTry)
<1>1. repair.pc = "searching" /\ repair.toTry # <<>> /\ mode = "command"
  BY DEF CommandSearches, Commanding
<1>2. /\ repair.toTry \in Seq(Events) /\ repair.toSend \in Seq(Events)
      /\ e \in Events /\ Tail(repair.toTry) \in Seq(Events)
  BY <1>1, TailHolds DEF IInv, Shape, Repairs
<1>3. room.prev[e] \subseteq Events /\ cached \subseteq Events
      /\ (target \cup cached) \cap room.missing = {}
  BY <1>1, <1>2, RoomWalkAssumption DEF IInv, Shape, IsRoom, Commanded
<1>4. CASE room.copies[e] = 0
  <2>1. repair' = [pc |-> "searching", root |-> repair.root, toTry |-> Tail(repair.toTry),
                   searching |-> repair.searching, toSend |-> repair.toSend, at |-> repair.at]
    BY <1>1, <1>4 DEF IInv, Shape, Repairs, CommandSearches, GiveUp
  <2>2. cached' = cached
    BY <1>4 DEF CommandSearches
  <2>3. repair' \in Repairs
    BY <1>2, <2>1 DEF IInv, Shape, Repairs
  <2> QED
    BY <1>3, <1>4, <2>1, <2>2, <2>3
<1>5. CASE room.copies[e] # 0
  <2>1. PICK good \in SUBSET room.prev[e] :
          /\ Found(room.prev[e], good)
          /\ cached' = cached \cup good
          /\ \E more \in SetToSeqs(Wanted(e, good)) :
              repair' = [repair EXCEPT !.toTry = Tail(@) \o more, !.toSend = Append(@, e)]
    BY <1>5 DEF CommandSearches
  <2>2. PICK more \in SetToSeqs(Wanted(e, good)) :
          repair' = [repair EXCEPT !.toTry = Tail(@) \o more, !.toSend = Append(@, e)]
    BY <2>1
  <2>3. good \subseteq target \cup cached
    BY <2>1, FoundFacts
  <2>4. more \in Seq(Events) /\ ToSet(more) = room.prev[e] \ good
    BY <1>3, OrdersType DEF Wanted
  <2>5. /\ Tail(repair.toTry) \o more \in Seq(Events)
        /\ ToSet(Tail(repair.toTry) \o more) = ToSet(Tail(repair.toTry)) \cup ToSet(more)
        /\ Append(repair.toSend, e) \in Seq(Events)
    BY <1>2, <2>4, ConcatHolds, AppendProperties
  <2>6. repair' = [pc |-> "searching", root |-> repair.root, toTry |-> Tail(repair.toTry) \o more,
                   searching |-> repair.searching, toSend |-> Append(repair.toSend, e),
                   at |-> repair.at]
    BY <1>1, <2>2 DEF IInv, Shape, Repairs
  <2>7. repair' \in Repairs
    BY <2>5, <2>6 DEF IInv, Shape, Repairs
  <2>8. room.prev[e] \cap room.missing \subseteq ToSet(more)
    BY <1>3, <2>3, <2>4
  <2>9. cached \subseteq cached' /\ cached' \subseteq Events /\ cached' \cap room.missing = {}
    BY <1>3, <2>1, <2>3
  <2>10. /\ ToSet(Tail(repair.toTry)) \subseteq ToSet(repair'.toTry)
         /\ room.prev[e] \cap room.missing \subseteq ToSet(repair'.toTry)
         /\ repair'.toSend = Append(repair.toSend, e)
         /\ repair'.pc = "searching"
    BY <2>5, <2>6, <2>8
  <2> QED
    BY <2>7, <2>9, <2>10
<1> QED
  BY <1>4, <1>5

LEMMA CommandSearchesIInv == ASSUME IInv, CommandSearches PROVE IInv'
<1> DEFINE e == Head(repair.toTry)
           n == Len(repair.toSend)
<1>1. /\ UNCHANGED <<server, queues, lists, tried, working, fetcher, retries, loop, stuck, presses>>
      /\ Commanding /\ repair.pc = "searching" /\ repair.toTry # <<>> /\ mode = "command"
  BY DEF CommandSearches, Commanding
<1>2. /\ repair' \in Repairs /\ repair'.pc = "searching"
      /\ cached \subseteq cached' /\ cached' \subseteq Events
      /\ cached' \cap room.missing = {}
      /\ \/ /\ room.copies[e] = 0
            /\ repair'.toTry = Tail(repair.toTry)
            /\ repair'.toSend = repair.toSend
         \/ /\ ToSet(Tail(repair.toTry)) \subseteq ToSet(repair'.toTry)
            /\ room.prev[e] \cap room.missing \subseteq ToSet(repair'.toTry)
            /\ repair'.toSend = Append(repair.toSend, e)
  BY CommandSearchesTo
<1>3. ToSet(repair.toTry) = {e} \cup ToSet(Tail(repair.toTry)) /\ e \in Events
  BY <1>1, TailHolds DEF IInv, Shape, Repairs
<1>4. repair.toSend \in Seq(Events) /\ n \in Nat /\ DOMAIN repair.toSend = 1..n
  BY LenProperties DEF IInv, Shape, Repairs
<1>5. \A i \in 1..n : \A d \in room.prev[repair.toSend[i]] \cap room.missing :
        \/ room.copies[d] = 0
        \/ d \in ToSet(repair.toTry)
        \/ \E k \in 1..n : i < k /\ repair.toSend[k] = d
  BY <1>1, <1>4 DEF IInv, Commanded, Behind
<1>6. Behind'
  <2>1. CASE room.copies[e] = 0 /\ repair'.toTry = Tail(repair.toTry)
             /\ repair'.toSend = repair.toSend
    <3> SUFFICES ASSUME NEW i \in 1..n, NEW d \in room.prev[repair.toSend[i]] \cap room.missing
                 PROVE  \/ room.copies[d] = 0
                        \/ d \in ToSet(Tail(repair.toTry))
                        \/ \E k \in 1..n : i < k /\ repair.toSend[k] = d
      BY <1>1, <1>4, <2>1 DEF Behind
    <3> QED
      BY <1>3, <1>5, <2>1
  <2>2. CASE /\ ToSet(Tail(repair.toTry)) \subseteq ToSet(repair'.toTry)
             /\ room.prev[e] \cap room.missing \subseteq ToSet(repair'.toTry)
             /\ repair'.toSend = Append(repair.toSend, e)
    <3>1. /\ DOMAIN repair'.toSend = 1..(n + 1)
          /\ \A i \in 1..n : repair'.toSend[i] = repair.toSend[i]
          /\ repair'.toSend[n + 1] = e
      BY <1>3, <1>4, <2>2, AppendProperties, LenProperties
    <3> SUFFICES ASSUME NEW i \in 1..(n + 1),
                        NEW d \in room.prev[repair'.toSend[i]] \cap room.missing
                 PROVE  \/ room.copies[d] = 0
                        \/ d \in ToSet(repair'.toTry)
                        \/ \E k \in 1..(n + 1) : i < k /\ repair'.toSend[k] = d
      BY <1>1, <3>1 DEF Behind
    <3>2. CASE i = n + 1
      BY <2>2, <3>1, <3>2
    <3>3. CASE i \in 1..n
      <4>1. d \in room.prev[repair.toSend[i]] \cap room.missing
        BY <3>1, <3>3
      <4>2. CASE d = e
        <5>1. n + 1 \in 1..(n + 1) /\ i < n + 1
          BY <1>4, <3>3
        <5> QED
          BY <3>1, <4>2, <5>1
      <4>3. CASE d \in ToSet(Tail(repair.toTry))
        BY <2>2, <4>3
      <4>4. CASE \E k \in 1..n : i < k /\ repair.toSend[k] = d
        <5>1. PICK k \in 1..n : i < k /\ repair.toSend[k] = d
          BY <4>4
        <5>2. k \in 1..(n + 1) /\ repair'.toSend[k] = d
          BY <1>4, <3>1, <5>1
        <5> QED
          BY <5>1, <5>2
      <4> QED
        BY <1>3, <1>5, <3>3, <4>1, <4>2, <4>3, <4>4
    <3>4. i = n + 1 \/ i \in 1..n
      BY <1>4
    <3> QED
      BY <3>2, <3>3, <3>4
  <2> QED
    BY <1>2, <2>1, <2>2
<1>7. Commanded'
  <2>1. digesting' = {} /\ (target' \cup cached') \cap room'.missing = {}
    BY <1>1, <1>2 DEF IInv, Commanded
  <2> QED
    BY <1>2, <1>6, <2>1 DEF Commanded, CommandSendsOldestFirst
<1>8. digesting' \subseteq Events
  BY <1>1 DEF IInv, Shape
<1> QED
  BY <1>1, <1>2, <1>7, <1>8, CommandStep

LEMMA CommandSearchedIInv == ASSUME IInv, CommandSearched PROVE IInv'
<1> DEFINE n == Len(repair.toSend)
<1>1. /\ UNCHANGED <<server, cached, queues, lists, tried, working, fetcher, retries, loop, limits>>
      /\ Commanding /\ repair.pc = "searching" /\ repair.toTry = <<>> /\ mode = "command"
  BY DEF CommandSearched, Commanding
<1>2. PICK list : list = OldestLast(repair.toSend)
  OBVIOUS
<1>3. repair' = [pc |-> "sending", root |-> repair.root, toTry |-> repair.toTry,
                 searching |-> repair.searching, toSend |-> list, at |-> repair.at]
  BY <1>2 DEF IInv, Shape, Repairs, CommandSearched
<1>4. /\ repair.toSend \in Seq(Events) /\ n \in Nat /\ DOMAIN repair.toSend = 1..n
      /\ list \in Seq(Events) /\ DOMAIN list = 1..n
      /\ \A i \in 1..n : list[i] = repair.toSend[(n - i) + 1]
  <2>1. repair.toSend \in Seq(Events)
    BY DEF IInv, Shape, Repairs
  <2> QED
    BY <1>2, <2>1, ReverseType, LenProperties DEF OldestLast
<1>5. repair' \in Repairs /\ repair'.pc = "sending" /\ repair'.toSend = list
  BY <1>3, <1>4 DEF IInv, Shape, Repairs
<1>6. \A i \in 1..n : \A d \in room.prev[repair.toSend[i]] \cap room.missing :
        \/ room.copies[d] = 0
        \/ \E k \in 1..n : i < k /\ repair.toSend[k] = d
  <2>1. ToSet(repair.toTry) = {}
    BY <1>1, EmptyHolds
  <2>2. Behind
    BY <1>1 DEF IInv, Commanded
  <2>3. DOMAIN repair.toSend = 1..n
    BY <1>4
  <2> HIDE DEF n
  <2> QED
    BY <2>1, <2>2, <2>3 DEF Behind
<1>7. CommandSendsOldestFirst'
  <2> SUFFICES ASSUME NEW i \in 1..n, NEW d \in room.prev[list[i]] \cap room.missing,
                      room.copies[d] # 0
               PROVE  \E k \in 1..(i - 1) : list[k] = d
    <3>1. DOMAIN list = 1..n /\ repair'.toSend = list /\ room' = room
      BY <1>1, <1>4, <1>5
    <3> HIDE DEF n
    <3> QED
      BY <3>1 DEF CommandSendsOldestFirst
  <2>1. (n - i) + 1 \in 1..n /\ list[i] = repair.toSend[(n - i) + 1]
    BY <1>4
  <2>2. PICK k \in 1..n : (n - i) + 1 < k /\ repair.toSend[k] = d
    BY <1>6, <2>1
  <2>3. /\ (n - k) + 1 \in 1..n /\ (n - k) + 1 \in 1..(i - 1)
        /\ (n - ((n - k) + 1)) + 1 = k
    BY <1>4, <2>2
  <2>4. list[(n - k) + 1] = d
    BY <1>4, <2>2, <2>3
  <2> QED
    BY <2>3, <2>4
<1>8. Commanded'
  BY <1>5, <1>7 DEF Commanded
<1>9. digesting' \subseteq Events /\ cached' \subseteq Events /\ cached \subseteq cached'
  BY <1>1 DEF IInv, Shape
<1> QED
  BY <1>1, <1>5, <1>8, <1>9, CommandStep

LEMMA CommandSendsIInv == ASSUME IInv, CommandSends PROVE IInv'
<1>1. /\ UNCHANGED <<room, mode, target, cached, queues, lists, tried, working, fetcher, retries,
                     loop, limits>>
      /\ Commanding /\ repair.pc = "sending" /\ mode = "command"
      /\ repair.at < Len(repair.toSend)
      /\ digesting' = Accepted(<<repair.toSend[repair.at + 1]>>) \ target
  BY DEF CommandSends, Commanding
<1>2. repair' = [pc |-> "sending", root |-> repair.root, toTry |-> repair.toTry,
                 searching |-> repair.searching, toSend |-> repair.toSend, at |-> repair.at + 1]
  BY <1>1 DEF IInv, Shape, Repairs, CommandSends
<1>3. repair' \in Repairs /\ repair'.pc = "sending" /\ repair'.toSend = repair.toSend
  BY <1>2 DEF IInv, Shape, Repairs
<1>4. repair.toSend[repair.at + 1] \in Events
  <2>1. repair.toSend \in Seq(Events) /\ repair.at \in Nat /\ Len(repair.toSend) \in Nat
    BY LenProperties DEF IInv, Shape, Repairs
  <2>2. repair.at + 1 \in 1..Len(repair.toSend)
    BY <1>1, <2>1
  <2> QED
    BY <2>1, <2>2, ElementOfSeq
<1>5. digesting' \subseteq Events /\ cached' \subseteq Events /\ cached \subseteq cached'
  <2>1. <<repair.toSend[repair.at + 1]>> \in Seq(Events)
    BY <1>4
  <2> QED
    BY <1>1, <2>1, AcceptedType DEF IInv, Shape
<1>6. CommandSendsOldestFirst'
  BY <1>1, <1>3 DEF IInv, Commanded, CommandSendsOldestFirst, Commanding
<1>7. Commanded'
  BY <1>3, <1>6 DEF Commanded
<1> QED
  BY <1>1, <1>3, <1>5, <1>7, CommandStep

LEMMA CommandEndsIInv == ASSUME IInv, CommandEnds PROVE IInv'
<1>1. /\ UNCHANGED <<server, cached, queues, lists, tried, working, fetcher, retries, loop, limits>>
      /\ Commanding /\ repair.pc = "sending"
  BY DEF CommandEnds
<1>2. repair' = [pc |-> "over", root |-> repair.root, toTry |-> repair.toTry,
                 searching |-> repair.searching, toSend |-> repair.toSend, at |-> repair.at]
  BY <1>1 DEF IInv, Shape, Repairs, CommandEnds
<1>3. repair' \in Repairs /\ repair'.pc = "over"
  BY <1>2 DEF IInv, Shape, Repairs
<1>4. Commanded'
  BY <1>3 DEF Commanded, CommandSendsOldestFirst
<1>5. digesting' \subseteq Events /\ cached' \subseteq Events /\ cached \subseteq cached'
  BY <1>1 DEF IInv, Shape
<1> QED
  BY <1>1, <1>3, <1>4, <1>5, CommandStep

-----------------------------------------------------------------------------
LEMMA StutterIInv == ASSUME IInv, UNCHANGED vars PROVE IInv'
<1>1. /\ Shape' /\ ModeOK' /\ Awake' /\ Held' /\ Searched' /\ Ending'
  BY DEF vars, IInv, Shape, ModeOK, Awake, Held, Searched, Ending, IdleFetcher
<1>2. Reported' /\ Handed' /\ Returning'
  BY DEF vars, IInv, Reported, Handed, Returning, Queued, Ancestors
<1>3. Begun'
  BY DEF vars, IInv, Begun, Blank
<1>4. Commanded'
  BY DEF vars, IInv, Commanded, Behind, CommandSendsOldestFirst, Commanding, IdleRepair
<1> QED
  BY <1>1, <1>2, <1>3, <1>4 DEF IInv

LEMMA NextIInv == IInv /\ [Next]_vars => IInv'
<1> SUFFICES ASSUME IInv, [Next]_vars PROVE IInv'
  OBVIOUS
<1>1. CASE Fetcher
  BY <1>1, FetcherGetsIInv, FetcherPullsIInv, FetcherTakesIInv, FetcherParsesPrevIInv,
     FetcherParsesAuthIInv, FetcherFinishesIInv DEF Fetcher
<1>2. CASE Repair
  BY <1>2, RepairGetsIInv, RepairSearchesIInv, RepairSearchedIInv, RepairSendsIInv,
     RepairFinishesIInv DEF Repair
<1>3. CASE \E e \in Events : Retry(e)
  BY <1>3, RetryBeginsIInv, RetryChecksIInv DEF Retry
<1>4. CASE DestinationDigests \/ WorkerStuck
  BY <1>4, DestinationDigestsIInv, WorkerStuckIInv
<1>5. CASE Render \/ UserPresses
  BY <1>5, RenderIInv, UserPressesIInv
<1>6. CASE Command
  BY <1>6, CommandBeginsIInv, CommandSearchesIInv, CommandSearchedIInv, CommandSendsIInv,
     CommandEndsIInv DEF Command
<1>7. CASE UNCHANGED vars
  BY <1>7, StutterIInv
<1> QED
  BY <1>1, <1>2, <1>3, <1>4, <1>5, <1>6, <1>7 DEF Next

LEMMA IInvIsInvariant == Spec => []IInv
BY InitIInv, NextIInv, PTL DEF Spec

-----------------------------------------------------------------------------
(* Every variable of the walk and of repair_event keeps its type: the queues  *)
(* hold sets of known events, the workers and retry tasks are in one of their *)
(* states, and neither the tries nor the idle rounds pass their bounds.       *)
THEOREM TypeCorrect == Spec => []TypeOK
<1>1. IInv => TypeOK
  <2> SUFFICES ASSUME IInv PROVE TypeOK
    OBVIOUS
  <2>1. \A i \in DOMAIN fetchQueue : fetchQueue[i].ids \subseteq Events
    <3>1. \A i \in DOMAIN fetchQueue : fetchQueue[i] \in Items
      BY LenProperties, ElementOfSeq DEF IInv, Shape
    <3> QED
      BY <3>1 DEF Items
  <2>2. ASSUME NEW q \in Seq(Events) PROVE ToSet(q) \subseteq Events
    BY LenProperties, ElementOfSeq DEF ToSet
  <2>3. ToSet(errorQueue) \cup ToSet(repair.toTry) \cup ToSet(repair.toSend) \subseteq Events
    BY <2>2 DEF IInv, Shape, Repairs
  <2>4. \A e \in Events : retries[e] \in Retries
    BY DEF IInv, Shape
  <2>5. /\ fetcher.pc \in {"idle", "pulling", "parsing", "prev", "auth", "stuck", "gone"}
        /\ repair.pc \in {"idle", "searching", "sending", "stuck", "gone", "over"}
        /\ walk.idle \in 0..(RoundsToFinish + 1)
    BY DEF IInv, Shape, Fetchers, Repairs, Walks
  <2>6. \A e \in Events :
          /\ retries[e].pc \in {"none", "created", "sleeping", "found", "gaveUp", "stuck", "gone"}
          /\ retries[e].tries \in 0..MaxTries
    BY <2>4 DEF Retries
  <2> QED
    BY <2>1, <2>3, <2>5, <2>6 DEF IInv, Shape, TypeOK
<1> QED
  BY <1>1, IInvIsInvariant, PTL

(* The walk loses nothing it does not hold: but for the event the fetcher has *)
(* at hand, the prev events of what it walked are walked, queued or reported, *)
(* the auth events found or reported, and what is reported is searched for    *)
(* while nobody stopped the walk. A worker that raises or hangs between two   *)
(* requests takes with it only what it held.                                  *)
THEOREM LosesNothing == Spec => []NothingLost
<1>1. IInv => NothingLost
  <2> SUFFICES ASSUME IInv PROVE NothingLost
    OBVIOUS
  <2>1. \A e \in okList \ fetcher.at :
          /\ room.prev[e] \subseteq attempted \cup Queued \cup fetcher.next \cup errorList
          /\ room.auth[e] \subseteq cached \cup errorList
    BY DEF IInv, Reported, Ancestors
  <2>2. CASE mode = "command"
    BY <2>1, <2>2 DEF IInv, ModeOK, NothingLost
  <2>3. CASE mode = "walk"
    BY <2>1, <2>3 DEF IInv, Searched, NothingLost
  <2> QED
    BY <2>2, <2>3 DEF IInv, Shape
<1> QED
  BY <1>1, IInvIsInvariant, PTL

(* A walk that ends for lack of work, and that nobody stopped, is done: the   *)
(* idle rounds of the render loop cannot hide an event in a queue, in a       *)
(* worker or with a repaired event that came back.                            *)
THEOREM EndIsDone == Spec => []EndMeansDone
<1>1. IInv => EndMeansDone
  <2> SUFFICES ASSUME IInv, walk.natural, ~walk.stopped
               PROVE  /\ fetchQueue = <<>> /\ errorQueue = <<>> /\ working = {}
                      /\ \A e \in okList : Ancestors(e) \subseteq okList \cup errorList
                      /\ errorList \subseteq tried
                      /\ {e \in Events : retries[e].pc = "found"} \subseteq resolvedList
    BY DEF EndMeansDone
  <2>1. fetchQueue = <<>> /\ errorQueue = <<>> /\ working = {} /\ mode = "walk"
    BY DEF IInv, Ending, ModeOK, Shape
  <2>2. fetcher.pc \in {"idle", "gone"} /\ fetcher.ids = {} /\ fetcher.next = {} /\ fetcher.at = {}
    BY <2>1 DEF IInv, Awake, Held, Shape, Fetchers
  <2>3. repair.pc \notin {"searching", "sending", "stuck"}
    BY <2>1 DEF IInv, Awake
  <2>4. ToSet(fetchQueue) = {} /\ ToSet(errorQueue) = {} /\ Queued = {}
    BY <2>1, EmptyHolds, QueuedIs
  <2>5. errorList \subseteq tried
    BY <2>1, <2>3, <2>4 DEF IInv, Searched
  <2>6. Start \in okList \/ okList = {}
    BY <2>1, <2>2 DEF IInv, Begun, Blank
  <2>7. attempted \subseteq okList \cup {Start}
    BY <2>2 DEF IInv, Handed
  <2>8. \A e \in okList : Ancestors(e) \subseteq okList \cup errorList
    BY <2>2, <2>4, <2>6, <2>7 DEF IInv, Reported
  <2>9. {e \in Events : retries[e].pc = "found"} \subseteq resolvedList
    BY <2>2, <2>4 DEF IInv, Returning
  <2> QED
    BY <2>1, <2>5, <2>8, <2>9
<1> QED
  BY <1>1, IInvIsInvariant, PTL

(* repair_event sends every event after those of its prev events that the     *)
(* destination lacks and somebody has, in a room of any shape: an ancestor    *)
(* that is reached on several ways is queued once for each of them.           *)
THEOREM OldestFirst == Spec => []CommandSendsOldestFirst
<1>1. IInv => CommandSendsOldestFirst
  BY DEF IInv, Commanded, CommandSendsOldestFirst, Commanding
<1> QED
  BY <1>1, IInvIsInvariant, PTL
=============================================================================
