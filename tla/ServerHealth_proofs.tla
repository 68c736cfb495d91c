------------------------ MODULE ServerHealth_proofs ------------------------
(***************************************************************************)
(* Invariants of ServerHealth for any set of names, requests and results,  *)
(* any delegation and any durations.                                       *)
(***************************************************************************)
EXTENDS ServerHealth, TLAPS

\* Clocks: nothing was asked for in the future, and a request began no later
\* than its host was last asked for.
Past ==
    /\ \A n \in Names : asked[n] <= now
    /\ \A q \in Requests :
        request[q].pc # "idle" => request[q].began <= asked[HostOf[request[q].name]]

\* Identity: an object in use belongs to the host it was discovered for, it is
\* cached under that host, and a request holds one from the check to its end.
Belongs ==
    /\ \A n \in Names :
        cache[n] # NoResult =>
            object[cache[n]].host = n /\ HostOf[object[cache[n]].for] = n
    /\ \A q \in Requests :
        request[q].result # NoResult =>
            LET o == object[request[q].result]
            IN  o.host = HostOf[o.for] /\ o.host = HostOf[request[q].name]
    /\ \A q \in Requests :
        (request[q].pc \in {"ready", "sent", "waiting"}) <=> (request[q].result # NoResult)

IInv == TypeOK /\ Past /\ Belongs /\ BanFollowsLastAsking

LEMMA NameExists == AnyName \in Names
  BY ServerHealthAssumption DEF AnyName

LEMMA InitIInv == Init => IInv
<1> SUFFICES ASSUME Init PROVE IInv
  OBVIOUS
<1>1. TypeOK
  BY NameExists DEF Init, Idle, Blank, NewResult, TypeOK
<1>2. Past
  BY ServerHealthAssumption DEF Init, Idle, Past
<1>3. Belongs
  BY DEF Init, Idle, Belongs
<1>4. BanFollowsLastAsking
  BY DEF Init, Blank, NewResult, BanFollowsLastAsking
<1> QED
  BY <1>1, <1>2, <1>3, <1>4 DEF IInv

\* The except branch, for a result in use whose new ban counts from the last
\* asking at the latest.
LEMMA MarkIInv ==
    ASSUME IInv, NEW q \in Requests, NEW r \in Results, NEW until \in Nat,
           NEW seen \in [Names -> Nat], MarkUnhealthy(q, r, until, seen), now' = now,
           object[r].host = HostOf[object[r].for], asked' \in [Names -> Nat],
           \A n \in Names : asked[n] <= asked'[n] /\ asked'[n] <= now,
           until <= asked'[object[r].host] + Ban
    PROVE  IInv'
<1> DEFINE o == Marked(r, until)
<1>1. /\ cache' = [cache EXCEPT ![object[r].host] = r]
      /\ access' = [seen EXCEPT ![object[r].host] = now]
      /\ request' = [request EXCEPT ![q] = Idle]
      /\ object' = [x \in Results |-> IF InUse(x)' THEN o[x] ELSE Blank]
  BY DEF MarkUnhealthy, CacheResult, Finish, Objects
<1>2. TypeOK
  BY DEF IInv
<1>3. /\ o \in [Results -> [for : Names, host : Names, unhealthy : BOOLEAN, retryAt : Nat]]
      /\ \A x \in Results : o[x].for = object[x].for /\ o[x].host = object[x].host
      /\ \A x \in Results : o[x].retryAt = IF x = r THEN until ELSE object[x].retryAt
      /\ \A x \in Results : x # r => o[x] = object[x]
  BY <1>2 DEF Marked, TypeOK
<1>4. \A x \in Results : object'[x] \in {o[x], Blank}
  BY <1>1
<1>5. TypeOK'
  BY <1>1, <1>2, <1>3, NameExists DEF TypeOK, Blank, NewResult, Idle
<1>6. /\ \A n \in Names : cache'[n] # NoResult => object'[cache'[n]] = o[cache'[n]]
      /\ \A p \in Requests :
            request'[p].result # NoResult => object'[request'[p].result] = o[request'[p].result]
  BY <1>1, <1>5 DEF InUse, TypeOK
<1> HIDE DEF o
<1>7. Past'
  BY <1>1, <1>2, ServerHealthAssumption DEF IInv, Past, TypeOK, Idle
<1>8. Belongs'
  <2>1. /\ cache'[object[r].host] = r /\ object[r].host \in Names
        /\ \A n \in Names : n # object[r].host => cache'[n] = cache[n]
        /\ request'[q].pc = "idle" /\ request'[q].result = NoResult
        /\ \A p \in Requests : p # q => request'[p] = request[p]
    BY <1>1, <1>2 DEF TypeOK, Idle
  <2>2. ASSUME NEW n \in Names, cache'[n] # NoResult
        PROVE  object'[cache'[n]].host = n /\ HostOf[object'[cache'[n]].for] = n
    <3>1. cache'[n] \in Results /\ object'[cache'[n]] = o[cache'[n]]
      BY <1>5, <1>6, <2>2 DEF TypeOK
    <3>2. object'[cache'[n]].host = object[cache'[n]].host
          /\ object'[cache'[n]].for = object[cache'[n]].for
      BY <1>3, <3>1
    <3>3. CASE n = object[r].host
      BY <2>1, <3>2, <3>3
    <3>4. CASE n # object[r].host
      BY <2>1, <2>2, <3>2, <3>4 DEF IInv, Belongs
    <3> QED
      BY <3>3, <3>4
  <2>3. ASSUME NEW p \in Requests, request'[p].result # NoResult
        PROVE  /\ object'[request'[p].result].host = HostOf[object'[request'[p].result].for]
               /\ object'[request'[p].result].host = HostOf[request'[p].name]
    <3>1. request'[p] = request[p] /\ request[p].result \in Results
      BY <1>2, <2>1, <2>3 DEF TypeOK
    <3>2. object'[request'[p].result].host = object[request[p].result].host
          /\ object'[request'[p].result].for = object[request[p].result].for
      BY <1>3, <1>6, <2>3, <3>1
    <3> QED
      BY <2>3, <3>1, <3>2 DEF IInv, Belongs
  <2>4. \A p \in Requests :
          (request'[p].pc \in {"ready", "sent", "waiting"}) <=> (request'[p].result # NoResult)
    BY <2>1 DEF IInv, Belongs
  <2> QED
    BY <2>2, <2>3, <2>4 DEF Belongs
<1>9. BanFollowsLastAsking'
  <2> SUFFICES ASSUME NEW x \in Results, object'[x].unhealthy
               PROVE  object'[x].retryAt <= asked'[object'[x].host] + Ban
    BY DEF BanFollowsLastAsking
  <2>1. object'[x] = o[x]
    BY <1>4 DEF Blank, NewResult
  <2>2. CASE x = r
    BY <1>3, <2>1, <2>2
  <2>3. CASE x # r
    BY <1>2, <1>3, <2>1, <2>3, ServerHealthAssumption DEF IInv, BanFollowsLastAsking, TypeOK
  <2> QED
    BY <2>2, <2>3
<1> QED
  BY <1>5, <1>7, <1>8, <1>9 DEF IInv

\* Steps that leave the objects as they are, the abandoned ones apart.
LEMMA ObjectsKept ==
    ASSUME TypeOK, TypeOK', Objects(object)
    PROVE  /\ \A x \in Results : object'[x] \in {object[x], Blank}
           /\ \A n \in Names : cache'[n] # NoResult => object'[cache'[n]] = object[cache'[n]]
           /\ \A q \in Requests :
                request'[q].result # NoResult =>
                    object'[request'[q].result] = object[request'[q].result]
  BY DEF Objects, InUse, TypeOK

\* Bans stay bounded when no object is marked and nobody begins.
LEMMA BansKept ==
    ASSUME BanFollowsLastAsking, asked' = asked,
           \A x \in Results : object'[x] = object[x] \/ object'[x].unhealthy = FALSE
    PROVE  BanFollowsLastAsking'
  BY DEF BanFollowsLastAsking

LEMMA BansKeptByCleaning ==
    ASSUME TypeOK, TypeOK', Objects(object), BanFollowsLastAsking, asked' = asked
    PROVE  BanFollowsLastAsking'
<1>1. Blank.unhealthy = FALSE
  BY DEF Blank, NewResult
<1>2. \A x \in Results : object'[x] = object[x] \/ object'[x].unhealthy = FALSE
  BY <1>1, ObjectsKept
<1> QED
  BY <1>2, BansKept

\* The start of a request that passes the check or goes to discover.
LEMMA BeginIInv ==
    ASSUME IInv, NEW q \in Requests, NEW n \in Names, NEW pc, NEW r,
           Begin(q, n, pc, r),
           \/ pc = "discovering" /\ r = NoResult
           \/ pc = "ready" /\ r = cache[n] /\ r # NoResult
    PROVE  IInv'
<1>1. /\ request' = [request EXCEPT ![q] = [pc |-> pc, name |-> n, began |-> now, result |-> r]]
      /\ access' = Looked(n)
      /\ asked' = [asked EXCEPT ![HostOf[n]] = now]
      /\ UNCHANGED <<now, cache, object>>
  BY DEF Begin
<1>2. HostOf[n] \in Names
  BY ServerHealthAssumption
<1>3. TypeOK'
  <2>1. request' \in [Requests -> [pc : {"idle", "discovering", "ready", "sent", "waiting"},
                                   name : Names, began : Nat, result : Results \cup {NoResult}]]
    BY <1>1 DEF IInv, TypeOK
  <2>2. access' \in [Names -> Nat] /\ asked' \in [Names -> Nat]
    BY <1>1, <1>2 DEF Looked, IInv, TypeOK
  <2> QED
    BY <1>1, <2>1, <2>2 DEF IInv, TypeOK
<1>4. Past'
  BY <1>1, <1>2, ServerHealthAssumption DEF IInv, Past, TypeOK
<1>5. Belongs'
  BY <1>1, ServerHealthAssumption DEF IInv, Belongs, TypeOK
<1>6. BanFollowsLastAsking'
  <2> SUFFICES ASSUME NEW x \in Results, object[x].unhealthy
               PROVE  object[x].retryAt <= asked'[object[x].host] + Ban
    BY <1>1 DEF BanFollowsLastAsking
  <2>1. object[x].host \in Names /\ object[x].retryAt \in Nat
    BY DEF IInv, TypeOK
  <2>2. asked[object[x].host] <= asked'[object[x].host] /\ asked'[object[x].host] \in Nat
    BY <1>1, <1>2, <2>1 DEF IInv, Past, TypeOK
  <2> QED
    BY <2>1, <2>2, ServerHealthAssumption DEF IInv, BanFollowsLastAsking, TypeOK
<1> QED
  BY <1>3, <1>4, <1>5, <1>6 DEF IInv

LEMMA NextIInv == IInv /\ [Next]_vars => IInv'
<1> SUFFICES ASSUME IInv, [Next]_vars PROVE IInv'
  OBVIOUS
<1> USE ServerHealthAssumption
<1>1. ASSUME NEW q \in Requests, NEW n \in Names, NEW force \in BOOLEAN, Rediscover(q, n, force)
      PROVE  IInv'
  BY <1>1, BeginIInv DEF Rediscover
<1>2. ASSUME NEW q \in Requests, NEW n \in Names, UseCached(q, n)
      PROVE  IInv'
  BY <1>2, BeginIInv DEF UseCached
<1>3. ASSUME NEW q \in Requests, NEW n \in Names, Blocked(q, n)
      PROVE  IInv'
  <2>1. /\ cache[n] \in Results /\ object[cache[n]].host = HostOf[object[cache[n]].for]
        /\ object[cache[n]].host = n /\ HostOf[n] = n
    BY <1>3 DEF Blocked, IInv, TypeOK, Belongs
  <2>2. now + Ban \in Nat /\ Looked(n) \in [Names -> Nat]
    BY DEF Looked, IInv, TypeOK
  <2>3. /\ asked' = [asked EXCEPT ![n] = now] /\ now' = now
        /\ MarkUnhealthy(q, cache[n], now + Ban, Looked(n))
    BY <1>3, <2>1 DEF Blocked
  <2>4. /\ asked' \in [Names -> Nat] /\ asked'[n] = now
        /\ \A m \in Names : asked[m] <= asked'[m] /\ asked'[m] <= now
    BY <2>3 DEF IInv, TypeOK, Past
  <2>5. now + Ban <= asked'[object[cache[n]].host] + Ban
    BY <2>1, <2>4 DEF IInv, TypeOK
  <2> QED
    BY <2>1, <2>2, <2>3, <2>4, <2>5, MarkIInv
<1>4. ASSUME NEW q \in Requests, NEW r \in Results, Discovered(q, r)
      PROVE  IInv'
  <2> DEFINE new == NewResult(request[q].name, HostOf[request[q].name])
             o == [object EXCEPT ![r] = new]
  <2>1. new \in [for : Names, host : Names, unhealthy : BOOLEAN, retryAt : Nat]
    BY DEF NewResult, IInv, TypeOK
  <2>2. /\ \A x \in Results : o[x] = IF x = r THEN new ELSE object[x]
        /\ o \in [Results -> [for : Names, host : Names, unhealthy : BOOLEAN, retryAt : Nat]]
    BY <2>1 DEF IInv, TypeOK
  <2>3. /\ object' = [x \in Results |-> IF InUse(x)' THEN o[x] ELSE Blank]
        /\ request' = [request EXCEPT ![q].pc = "ready", ![q].result = r]
        /\ now' = now /\ cache' = cache /\ access' = access /\ asked' = asked
        /\ request[q].pc = "discovering" /\ ~InUse(r)
    BY <1>4 DEF Discovered, Objects
  <2>4. /\ new.for = request[q].name /\ new.host = HostOf[request[q].name]
        /\ new.unhealthy = FALSE /\ new.retryAt = 0
    BY DEF NewResult
  <2> HIDE DEF new, o
  <2>5. TypeOK'
    <3>1. object' \in [Results -> [for : Names, host : Names, unhealthy : BOOLEAN, retryAt : Nat]]
      <4>1. Blank \in [for : Names, host : Names, unhealthy : BOOLEAN, retryAt : Nat]
        BY NameExists DEF Blank, NewResult
      <4>2. \A x \in Results : o[x] \in [for : Names, host : Names, unhealthy : BOOLEAN, retryAt : Nat]
        BY <2>2
      <4> QED
        BY <2>3, <4>1, <4>2
    <3>2. request' \in [Requests -> [pc : {"idle", "discovering", "ready", "sent", "waiting"},
                                    name : Names, began : Nat, result : Results \cup {NoResult}]]
      <4>1. request' = [request EXCEPT ![q] = [@ EXCEPT !.pc = "ready", !.result = r]]
        BY <2>3
      <4>2. [request[q] EXCEPT !.pc = "ready", !.result = r]
              \in [pc : {"idle", "discovering", "ready", "sent", "waiting"},
                   name : Names, began : Nat, result : Results \cup {NoResult}]
        BY DEF IInv, TypeOK
      <4> QED
        BY <4>1, <4>2 DEF IInv, TypeOK
    <3> QED
      BY <2>3, <3>1, <3>2 DEF IInv, TypeOK
  <2>6. /\ \A n \in Names : cache[n] # NoResult => cache[n] # r /\ object'[cache[n]] = object[cache[n]]
        /\ \A p \in Requests :
              p # q /\ request[p].result # NoResult =>
                /\ request[p].result # r
                /\ object'[request[p].result] = object[request[p].result]
        /\ object'[r] = new
    BY <2>2, <2>3, <2>5 DEF InUse, IInv, TypeOK
  <2>7. Past'
    BY <2>3 DEF IInv, TypeOK, Past
  <2>8. Belongs'
    BY <2>3, <2>4, <2>5, <2>6 DEF IInv, TypeOK, Belongs
  <2>9. BanFollowsLastAsking'
    <3>1. \A x \in Results : object'[x] = object[x] \/ object'[x].unhealthy = FALSE
      BY <2>2, <2>3, <2>4 DEF Blank, NewResult
    <3> QED
      BY <2>3, <3>1, BansKept DEF IInv
  <2> QED
    BY <2>5, <2>7, <2>8, <2>9 DEF IInv
<1>5. ASSUME NEW q \in Requests, Answered(q)
      PROVE  IInv'
  <2>1. TypeOK'
    BY <1>5, NameExists
    DEF Answered, CacheResult, Finish, Objects, IInv, TypeOK, Belongs, Idle, Blank, NewResult
  <2>2. TypeOK /\ Objects(object)
    BY <1>5 DEF IInv, Answered
  <2>3. Past'
    BY <1>5 DEF Answered, Finish, IInv, TypeOK, Past, Idle
  <2>4. Belongs'
    BY <1>5, <2>1, <2>2, ObjectsKept DEF Answered, CacheResult, Finish, IInv, TypeOK, Belongs, Idle
  <2>5. BanFollowsLastAsking'
    BY <1>5, <2>1, <2>2, BansKeptByCleaning DEF Answered, IInv
  <2> QED
    BY <2>1, <2>3, <2>4, <2>5 DEF IInv
<1>6. ASSUME NEW q \in Requests, Failed(q) \/ ResendBlocked(q)
      PROVE  IInv'
  <2>1. /\ request[q].result \in Results
        /\ object[request[q].result].host = HostOf[object[request[q].result].for]
        /\ object[request[q].result].host = HostOf[request[q].name]
    BY <1>6 DEF Failed, ResendBlocked, IInv, TypeOK, Belongs
  <2>2. /\ request[q].began + Ban \in Nat
        /\ request[q].began + Ban <= asked[object[request[q].result].host] + Ban
    BY <1>6, <2>1 DEF Failed, ResendBlocked, IInv, TypeOK, Past
  <2>3. /\ asked' = asked /\ now' = now /\ access \in [Names -> Nat]
        /\ MarkUnhealthy(q, request[q].result, request[q].began + Ban, access)
    BY <1>6 DEF Failed, ResendBlocked, IInv, TypeOK
  <2>4. asked' \in [Names -> Nat] /\ \A n \in Names : asked[n] <= asked'[n] /\ asked'[n] <= now
    BY <2>3 DEF IInv, TypeOK, Past
  <2> QED
    BY <2>1, <2>2, <2>3, <2>4, MarkIInv
<1>7. ASSUME NEW q \in Requests, Send(q) \/ TooManyRequests(q) \/ Resend(q)
      PROVE  IInv'
  <2>1. /\ \E pc \in {"ready", "sent", "waiting"} : request' = [request EXCEPT ![q].pc = pc]
        /\ request[q].pc \in {"ready", "sent", "waiting"}
        /\ UNCHANGED <<now, cache, access, object, asked>>
    BY <1>7 DEF Send, TooManyRequests, Resend
  <2> QED
    BY <2>1 DEF IInv, TypeOK, Past, Belongs, BanFollowsLastAsking
<1>8. ASSUME NEW q \in Requests, Raises(q)
      PROVE  IInv'
  <2>1. TypeOK'
    BY <1>8, NameExists DEF Raises, Finish, Objects, IInv, TypeOK, Idle, Blank, NewResult
  <2>2. TypeOK /\ Objects(object)
    BY <1>8 DEF IInv, Raises
  <2>3. BanFollowsLastAsking'
    BY <1>8, <2>1, <2>2, BansKeptByCleaning DEF Raises, IInv
  <2> QED
    BY <1>8, <2>1, <2>2, <2>3, ObjectsKept DEF Raises, Finish, IInv, TypeOK, Past, Belongs, Idle
<1>9. CASE Tick
  BY <1>9 DEF Tick, IInv, TypeOK, Past, Belongs, BanFollowsLastAsking
<1>10. CASE Cleanup
  <2>1. TypeOK'
    BY <1>10, NameExists DEF Cleanup, Objects, IInv, TypeOK, Blank, NewResult
  <2>2. TypeOK /\ Objects(object)
    BY <1>10 DEF IInv, Cleanup
  <2>3. BanFollowsLastAsking'
    BY <1>10, <2>1, <2>2, BansKeptByCleaning DEF Cleanup, IInv
  <2> QED
    BY <1>10, <2>1, <2>2, <2>3, ObjectsKept DEF Cleanup, IInv, TypeOK, Past, Belongs
<1>11. CASE UNCHANGED vars
  BY <1>11 DEF vars, IInv, TypeOK, Past, Belongs, BanFollowsLastAsking
<1> QED
  BY <1>1, <1>2, <1>3, <1>4, <1>5, <1>6, <1>7, <1>8, <1>9, <1>10, <1>11
  DEF Next, Ask, Proceed

\* The inductive invariant holds in every reachable state.
THEOREM Inductive == Spec => []IInv
  BY InitIInv, NextIInv, PTL DEF Spec

\* Type correctness of federation_request's state.
THEOREM TypeCorrect == Spec => []TypeOK
  BY Inductive, PTL DEF IInv

\* A ban outlasts the last asking for its host by Ban at most, for any
\* durations and any number of requests that share results (retry_time_s).
THEOREM BansAreBounded == Spec => []BanFollowsLastAsking
  BY Inductive, PTL DEF IInv

\* Results never cross hosts, whatever the delegation.
THEOREM HostsAreKeptApart == Spec => []RequestsStayOnTheirHost
<1>1. IInv => RequestsStayOnTheirHost
  BY ServerHealthAssumption DEF IInv, Belongs, TypeOK, RequestsStayOnTheirHost
<1> QED
  BY <1>1, Inductive, PTL
=============================================================================
