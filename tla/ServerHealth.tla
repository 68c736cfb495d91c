---------------------------- MODULE ServerHealth ----------------------------
(***************************************************************************)
(* FederationApi.federation_request (api.py) with its cache of discovery   *)
(* results, an LRUCache (cache.py) with its background cleanup.            *)
(*                                                                         *)
(* A ServerResult is one mutable object: the cache and every request that  *)
(* took it from there share it, and a failing request marks it unhealthy   *)
(* under the feet of the others.  Objects are therefore modelled by        *)
(* identity.  Between the check of the mark and the request on the wire    *)
(* lie awaits of their own: the stagger's sleep and the wait for the one   *)
(* connection that the pool grants an endpoint.  Time is counted in a unit *)
(* the configuration chooses.                                              *)
(***************************************************************************)
EXTENDS Naturals

CONSTANTS
    Names,       \* server names, with or without a port; also the cache's keys
    HostOf,      \* a server name without its port
    DelegateOf,  \* the host that the well-known of a host points to
    Requests,    \* the coroutines that call federation_request
    Results,     \* ServerResult objects
    NoResult,
    Ban,         \* an unhealthy server is left alone that long (10 minutes)
    Expire,      \* an entry that is not used lives that long (30 minutes)
    MaxTime      \* bound of the model on the clock

ASSUME ServerHealthAssumption ==
    /\ Names # {} /\ NoResult \notin Results
    /\ HostOf \in [Names -> Names] /\ DelegateOf \in [Names -> Names]
    /\ \A n \in Names : HostOf[HostOf[n]] = HostOf[n]
    /\ Ban \in Nat /\ Expire \in Nat /\ MaxTime \in Nat

VARIABLES
    now,      \* time.time()
    cache,    \* server_discovery_cache: the result cached under each key
    access,   \* last_access_time of each key
    object,   \* the ServerResult objects
    request,  \* where each request is, what for, since when, with which result
    asked     \* history: when a request for each host last began

vars == <<now, cache, access, object, request, asked>>

AnyName == CHOOSE n \in Names : TRUE

Idle  == [pc |-> "idle", name |-> AnyName, began |-> 0, result |-> NoResult]

NewResult(n, host) == [for |-> n, host |-> host, unhealthy |-> FALSE, retryAt |-> 0]

Blank == NewResult(AnyName, AnyName)

Init ==
    /\ now = 0
    /\ cache = [n \in Names |-> NoResult]
    /\ access = [n \in Names |-> 0]
    /\ object = [r \in Results |-> Blank]
    /\ request = [q \in Requests |-> Idle]
    /\ asked = [n \in Names |-> 0]

InUse(r) ==
    \/ \E n \in Names : cache[n] = r
    \/ \E q \in Requests : request[q].result = r

\* The objects become o; one that nobody refers to any more is gone.
Objects(o) == object' = [r \in Results |-> IF InUse(r)' THEN o[r] ELSE Blank]

Finish(q) == request' = [request EXCEPT ![q] = Idle]

Marked(r, until) == [object EXCEPT ![r].unhealthy = TRUE, ![r].retryAt = until]

Looked(n) == [access EXCEPT ![n] = IF cache[n] # NoResult THEN now ELSE @]

\* server_discovery_cache.set(server_result.host, server_result)
CacheResult(r, seen) ==
    /\ cache' = [cache EXCEPT ![object[r].host] = r]
    /\ access' = [seen EXCEPT ![object[r].host] = now]

\* Mutant: the ban is subtracted from the time.
MarkInThePast(q, r, until, seen) ==
    /\ CacheResult(r, seen)
    /\ Finish(q)
    /\ Objects(Marked(r, until - Ban - Ban))

\* The except branch: the result is marked and cached, the request is over.
MarkUnhealthy(q, r, until, seen) ==
    /\ CacheResult(r, seen)
    /\ Finish(q)
    /\ Objects(Marked(r, until))

-----------------------------------------------------------------------------
(* What a request does as it starts: the lookup and, with a result in hand, *)
(* the check of its mark, without an await.                                 *)

Begin(q, n, pc, r) ==
    /\ request[q].pc = "idle"
    /\ request' = [request EXCEPT ![q] = [pc |-> pc, name |-> n, began |-> now, result |-> r]]
    /\ access' = Looked(n)
    /\ asked' = [asked EXCEPT ![HostOf[n]] = now]
    /\ UNCHANGED <<now, cache, object>>

BanIsOver(n) ==
    /\ cache[n] # NoResult /\ object[cache[n]].unhealthy
    /\ object[cache[n]].retryAt < now

\* No entry, a forced rediscovery or a ban that is over: discover the server.
Rediscover(q, n, force) ==
    /\ force \/ cache[n] = NoResult \/ BanIsOver(n)
    /\ Begin(q, n, "discovering", NoResult)

\* A healthy entry is used: the request passes the check.
UseCached(q, n) ==
    /\ cache[n] # NoResult /\ ~object[cache[n]].unhealthy
    /\ Begin(q, n, "ready", cache[n])

\* An unhealthy entry raises ServerUnreachable before anything is sent, which
\* counts as one more failure: what is to be "cached for 10 minutes" (api.py:341)
\* begins its ten minutes anew.
Blocked(q, n) ==
    /\ request[q].pc = "idle" /\ cache[n] # NoResult
    /\ object[cache[n]].unhealthy /\ ~BanIsOver(n)
    /\ MarkUnhealthy(q, cache[n], now + Ban, Looked(n))
    /\ asked' = [asked EXCEPT ![HostOf[n]] = now]
    /\ UNCHANGED now

-----------------------------------------------------------------------------
(* The awaits: discovery, the wait before sending, the request itself, the *)
(* wait a 429 asks for.                                                    *)

\* Mutant: the result carries the delegated host as its own.
DiscoveredDelegate(q, r) ==
    /\ request[q].pc = "discovering" /\ ~InUse(r)
    /\ request' = [request EXCEPT ![q].pc = "ready", ![q].result = r]
    /\ UNCHANGED <<now, cache, access, asked>>
    /\ Objects([object EXCEPT ![r] =
                  NewResult(request[q].name, DelegateOf[HostOf[request[q].name]])])

\* discover_server returned a new result, which passes the check; its host is
\* the name without the port, also when the well-known delegates to another
\* host.
Discovered(q, r) ==
    /\ request[q].pc = "discovering" /\ ~InUse(r)
    /\ request' = [request EXCEPT ![q].pc = "ready", ![q].result = r]
    /\ UNCHANGED <<now, cache, access, asked>>
    /\ Objects([object EXCEPT ![r] = NewResult(request[q].name, HostOf[request[q].name])])

\* The stagger's sleep is over and the pool has a connection.  Nothing checks
\* the mark again, so the request may go out through a result that was marked
\* meanwhile, in which "there is no point" (api.py:309).  Which results share an
\* endpoint is left open.
Send(q) ==
    /\ request[q].pc = "ready"
    /\ request' = [request EXCEPT ![q].pc = "sent"]
    /\ UNCHANGED <<now, cache, access, object, asked>>

\* Any answer but a 429.  The result is cached, but not marked healthy.
Answered(q) ==
    /\ request[q].pc = "sent"
    /\ CacheResult(request[q].result, access)
    /\ Finish(q)
    /\ Objects(object)
    /\ UNCHANGED <<now, asked>>

\* Mutant: the time is taken when the failure is noticed.
FailedLate(q) ==
    /\ request[q].pc = "sent"
    /\ MarkUnhealthy(q, request[q].result, now + Ban, access)
    /\ UNCHANGED <<now, asked>>

\* An exception of the request, timeouts included; a result without an address
\* counts as one.  The ban is counted from the time the request began.
Failed(q) ==
    /\ request[q].pc = "sent"
    /\ MarkUnhealthy(q, request[q].result, request[q].began + Ban, access)
    /\ UNCHANGED <<now, asked>>

\* A 429: _federation_request is called again when Retry-After has passed.
TooManyRequests(q) ==
    /\ request[q].pc = "sent"
    /\ request' = [request EXCEPT ![q].pc = "waiting"]
    /\ UNCHANGED <<now, cache, access, object, asked>>

\* The repeated call passes the check.
Resend(q) ==
    /\ request[q].pc = "waiting" /\ ~object[request[q].result].unhealthy
    /\ request' = [request EXCEPT ![q].pc = "ready"]
    /\ UNCHANGED <<now, cache, access, object, asked>>

\* Another request has marked the result while this one was waiting.
ResendBlocked(q) ==
    /\ request[q].pc = "waiting" /\ object[request[q].result].unhealthy
    /\ MarkUnhealthy(q, request[q].result, request[q].began + Ban, access)
    /\ UNCHANGED <<now, asked>>

\* Discovery raises, a 429 has no Retry-After, or the task is cancelled in one
\* of the awaits: nothing is cached.
Raises(q) ==
    /\ request[q].pc # "idle"
    /\ Finish(q)
    /\ UNCHANGED <<now, cache, access, asked>>
    /\ Objects(object)

-----------------------------------------------------------------------------
Tick ==
    /\ now < MaxTime
    /\ now' = now + 1
    /\ UNCHANGED <<cache, access, object, request, asked>>

Expired(n) == cache[n] # NoResult /\ now > access[n] + Expire

\* One iteration of _cleanup_cache_task that finds something to evict.
Cleanup ==
    /\ \E n \in Names : Expired(n)
    /\ cache' = [n \in Names |-> IF Expired(n) THEN NoResult ELSE cache[n]]
    /\ UNCHANGED <<now, access, request, asked>>
    /\ Objects(object)

Ask(q, n) ==
    \/ \E force \in BOOLEAN : Rediscover(q, n, force)
    \/ UseCached(q, n)
    \/ Blocked(q, n)

Proceed(q) ==
    \/ \E r \in Results : Discovered(q, r)
    \/ Send(q) \/ Answered(q) \/ Failed(q)
    \/ TooManyRequests(q) \/ Resend(q) \/ ResendBlocked(q)
    \/ Raises(q)

Next ==
    \/ \E q \in Requests : Proceed(q) \/ \E n \in Names : Ask(q, n)
    \/ Tick \/ Cleanup

Spec == Init /\ [][Next]_vars
-----------------------------------------------------------------------------
TypeOK ==
    /\ now \in Nat
    /\ cache \in [Names -> Results \cup {NoResult}]
    /\ access \in [Names -> Nat]
    /\ object \in [Results -> [for : Names, host : Names, unhealthy : BOOLEAN, retryAt : Nat]]
    /\ request \in [Requests -> [pc : {"idle", "discovering", "ready", "sent", "waiting"},
                                name : Names, began : Nat, result : Results \cup {NoResult}]]
    /\ asked \in [Names -> Nat]

\* A host that nobody asks for during Ban is asked again by the next request
\* (retry_time_s, federation_request): no failure of a shared result, however
\* late it is noticed, sets a ban that outlasts the last asking by more.
BanFollowsLastAsking ==
    \A r \in Results :
        object[r].unhealthy => object[r].retryAt <= asked[object[r].host] + Ban

\* However hosts delegate to each other, a request goes out with a result that
\* was discovered for the host it asks for.
RequestsStayOnTheirHost ==
    \A q \in Requests :
        request[q].result # NoResult
            => HostOf[object[request[q].result].for] = HostOf[request[q].name]

-----------------------------------------------------------------------------
(* What the documentation says and the code does not keep: see the findings.  *)

\* The cache maps a server name to its result (comment of the attribute: "Map
\* this cache to server_name -> ServerResult"), so a request goes out with a
\* result that was discovered for the very name it asks for, port included.
RequestsUseTheirOwnResult ==
    \A q \in Requests :
        request[q].result # NoResult => object[request[q].result].for = request[q].name
=============================================================================
