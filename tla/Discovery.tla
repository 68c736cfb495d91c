------------------------------- MODULE Discovery -------------------------------
(***************************************************************************)
(* Federation requests to one server name through the newer stack:         *)
(* FederationRequests.request, ServerDiscoveryResolver with its two        *)
(* TTL caches, the well-known request with its redirects, and the race of  *)
(* one task per address.  A caller may also use the older                  *)
(* DelegationHandler.discover_server, which tests every address.           *)
(*                                                                         *)
(* A and AAAA lookups end after their lifetime and share nothing with      *)
(* other callers, so such a lookup and what follows it up to the next      *)
(* await on the network are one action.  The SRV query is different: it    *)
(* blocks the event loop and has no timeout (blocked).  DNS answers do not *)
(* change while callers run, so the caches of DNS answers are left out.    *)
(***************************************************************************)
EXTENDS Delegation, FiniteSets

CONSTANTS
    Callers,        \* command coroutines that place a request
    Worlds,         \* the answers DNS and the well-known endpoints may give,
                    \* with a bound on the requests all callers place together
    NoEntry,        \* an empty cache slot
    MaxExpiries     \* bound on how often a cached entry passes its TTL

\* DNS knows of every host that is not a literal, and nothing of the torn piece of
\* one; a redirect's target is looked up whatever it is.
IsWorld(w) ==
    /\ {"name", "dns", "srv", "deprecated", "srvLost", "wellKnown", "requests"} \subseteq DOMAIN w
    /\ w.requests \in Nat
    /\ w.name.host \in DOMAIN w.dns \cup Literals
    /\ DOMAIN w.srv = DOMAIN w.dns
    /\ DOMAIN w.deprecated = DOMAIN w.dns
    /\ DOMAIN w.wellKnown = DOMAIN w.dns
    /\ Torn \in DOMAIN w.dns
    /\ w.dns[Torn] = "none" /\ w.srv[Torn] = {} /\ w.deprecated[Torn] = {}
    /\ \A h \in DOMAIN w.dns :
        LET outcome == w.wellKnown[h] IN
        /\ w.dns[h] \in DnsKinds
        /\ outcome.kind = "answer" => outcome.name.host \in DOMAIN w.dns \cup Literals
        /\ outcome.kind = "redirect" => outcome.to \in DOMAIN w.dns

ASSUME DiscoveryAssumption ==
    /\ \A w \in Worlds : IsWorld(w)
    /\ MaxExpiries \in Nat

VARIABLES
    world,          \* the answers in force
    discovered,     \* server_discovery_cache: one TTL slot for the name
    delegations,    \* _well_known_cache: one TTL slot for the name
    blocked,        \* the event loop waits for the answer to a lost query
    call,           \* per caller: the locals of its current call
    running,        \* per caller: addresses whose task is not done
    done,           \* per caller: the outcomes of the tasks that are done
    asks, expiries  \* the bounded counters

vars == <<world, discovered, delegations, blocked, call, running, done, asks, expiries>>
caches == <<discovered, delegations>>
counters == <<asks, expiries>>

\* What one task may end with: a RequestError, another exception, an answer.
Error == [kind |-> "error"]
Exception == [kind |-> "exception"]
Response == [kind |-> "response"]
Absent == [kind |-> "absent"]
Unusable == [kind |-> "unusable"]
Redirect(host) == [kind |-> "redirect", to |-> host]
Answer(name) == [kind |-> "answer", name |-> name]

Entry(value) == [value |-> value, expired |-> FALSE]

\* The name as the discovery works with it.
ServerName == Split(world.name)

Idle == [pc |-> "idle", diagnose |-> FALSE, host |-> ServerName.host, tried |-> {},
         wellKnown |-> NoDelegation, fresh |-> FALSE,
         result |-> Nowhere("none")]

Racing == {"wellKnown", "connecting", "testing"}
Busy == Racing \cup {"resolving", "redirected", "delegating"}

\* The call is over and its locals are gone.
Over(pc) == [Idle EXCEPT !.pc = pc]

Init ==
    /\ world \in Worlds
    /\ discovered = NoEntry
    /\ delegations = NoEntry
    /\ blocked = FALSE
    /\ call = [c \in Callers |-> Idle]
    /\ running = [c \in Callers |-> {}]
    /\ done = [c \in Callers |-> {}]
    /\ asks = 0
    /\ expiries = 0

-----------------------------------------------------------------------------
(***************************************************************************)
(* TTLCache: __getitem__ drops an expired entry and still returns it.      *)
(***************************************************************************)

Kept(slot) == IF slot # NoEntry /\ slot.expired THEN NoEntry ELSE slot

\* The TTL of one of the two entries passes.
Expire ==
    /\ expiries < MaxExpiries
    /\ expiries' = expiries + 1
    /\ \/ /\ discovered # NoEntry
          /\ ~discovered.expired
          /\ discovered' = [discovered EXCEPT !.expired = TRUE]
          /\ UNCHANGED delegations
       \/ /\ delegations # NoEntry
          /\ ~delegations.expired
          /\ delegations' = [delegations EXCEPT !.expired = TRUE]
          /\ UNCHANGED discovered
    /\ UNCHANGED <<world, call, running, done, asks>>

-----------------------------------------------------------------------------
(***************************************************************************)
(* The race: one task per IPv4 address, the first to finish decides, the   *)
(* others are cancelled.                                                   *)
(***************************************************************************)

\* The tasks of one address each.
Tasks(places) == {p.address : p \in places}

V4(host) == {a \in Addresses(world, host, TRUE) : a.family # "v6"}

\* The well-known request and the request proper. All that goes wrong with a
\* connection becomes RequestError; a 301 to the request proper and a signing
\* key that is missing, looked up before the connection is tried, do not.
Outcomes(c, a) ==
    IF call[c].pc = "wellKnown" THEN {Error, world.wellKnown[a.host]}
    ELSE {Error, Exception, Response}

TaskEnds(c) ==
    /\ call[c].pc \in {"wellKnown", "connecting"}
    /\ \E a \in running[c] :
        /\ running' = [running EXCEPT ![c] = @ \ {a}]
        /\ \E outcome \in Outcomes(c, a) :
            done' = [done EXCEPT ![c] = @ \cup {outcome}]
    /\ UNCHANGED <<world, caches, call, counters>>

\* A task whose outcome nobody reads.
TaskEndsUnread(c) ==
    /\ call[c].pc \in {"testing", "cancelled"}
    /\ \E a \in running[c] : running' = [running EXCEPT ![c] = @ \ {a}]
    /\ UNCHANGED <<world, caches, call, done, counters>>

\* Mutant: the pending tasks are left to run.
RaceOverWithoutCancel(c, outcome) ==
    /\ outcome \in done[c]
    /\ done' = [done EXCEPT ![c] = {}]
    /\ UNCHANGED running

\* The end of the wait: any of the finished tasks is popped, the pending ones
\* are cancelled.
RaceOver(c, outcome) ==
    /\ outcome \in done[c]
    /\ running' = [running EXCEPT ![c] = {}]
    /\ done' = [done EXCEPT ![c] = {}]

\* asyncio.wait refuses an empty list: no IPv4 address is a request error.
RaceEmpty(c) == running[c] = {} /\ done[c] = {}

\* No limit is set to the whole of a request, nor to the wait for a connection
\* of the pool: a server that sends a byte now and then keeps its task going
\* for ever, and the caller with it when no other task ends.
Stuck(c) ==
    /\ call[c].pc \in Racing
    /\ running[c] # {}
    /\ done[c] = {}
    /\ call' = [call EXCEPT ![c].pc = "stuck"]
    /\ UNCHANGED <<world, caches, running, done, counters>>

\* The awaiting command is cancelled: the exception leaves asyncio.wait before
\* the loop that cancels, so the tasks go on until they end by themselves.
Cancelled(c) ==
    /\ call[c].pc \in Busy \cup {"stuck"}
    /\ call' = [call EXCEPT ![c] = Over("cancelled")]
    /\ done' = [done EXCEPT ![c] = {}]
    /\ UNCHANGED <<world, caches, running, counters>>

-----------------------------------------------------------------------------
(***************************************************************************)
(* request and discover_server                                             *)
(***************************************************************************)

\* The connection tasks of request(), started as soon as the discovery is known.
Connect(c, new) ==
    /\ call' = [call EXCEPT ![c] =
                  [new EXCEPT !.pc = IF new.result.outcome = "found" THEN "connecting"
                                     ELSE "ended"]]
    /\ running' = [running EXCEPT ![c] = Tasks(OnlyV4(new.result.at))]

\* Mutant: whatever came out of the discovery is stored.
DiscoverStoresAll(c, new) ==
    /\ Connect(c, [new EXCEPT !.fresh = TRUE])
    /\ discovered' = Entry(new.result)

\* discover_server stores what _discover_server returned, errors included; an
\* exception passes it by and leaves request() as well.
Discover(c, new) ==
    IF new.result.outcome = "raised"
    THEN /\ call' = [call EXCEPT ![c] = [new EXCEPT !.pc = "raised", !.fresh = TRUE]]
         /\ UNCHANGED <<discovered, running>>
    ELSE /\ Connect(c, [new EXCEPT !.fresh = TRUE])
         /\ discovered' = Entry(new.result)

\* A caller begins. Diagnostics make both caches write-only.
Begin(c) ==
    /\ call[c].pc \in {"idle", "ended", "raised"}
    /\ running[c] = {}
    /\ asks < world.requests
    /\ asks' = asks + 1

AskCached(c) ==
    /\ Begin(c)
    /\ discovered # NoEntry
    /\ discovered' = Kept(discovered)
    /\ Connect(c, [Idle EXCEPT !.result = discovered.value])
    /\ UNCHANGED <<world, delegations, done, expiries>>

\* Not cached, or diagnostics, which look the slot up all the same.
AskFresh(c) ==
    /\ Begin(c)
    /\ \E diagnose \in BOOLEAN :
        /\ discovered = NoEntry \/ diagnose
        /\ LET new == [Idle EXCEPT !.diagnose = diagnose]
           IN  IF ServerName.host \in Literals
               THEN Discover(c, [new EXCEPT !.result = ModernLiteral(ServerName)])
               ELSE /\ call' = [call EXCEPT ![c] = [new EXCEPT !.pc = "resolving"]]
                    /\ discovered' = Kept(discovered)
                    /\ UNCHANGED running
    /\ UNCHANGED <<world, delegations, done, expiries>>

\* Step 2 ends the lookup.
StepTwo(c) ==
    /\ call[c].pc = "resolving"
    /\ ModernStepTwoEnds(world, ServerName)
    /\ Discover(c, [call[c] EXCEPT !.result = ModernStepTwo(world, ServerName)])
    /\ UNCHANGED <<world, delegations, done, counters>>

\* get_well_known finds a cached answer, good or bad.
WellKnownCached(c) ==
    /\ call[c].pc = "resolving"
    /\ ~ModernStepTwoEnds(world, ServerName)
    /\ ~call[c].diagnose
    /\ delegations # NoEntry
    /\ call' = [call EXCEPT ![c].pc = "delegating", ![c].wellKnown = delegations.value]
    /\ delegations' = Kept(delegations)
    /\ UNCHANGED <<world, discovered, running, done, counters>>

\* The well-known request starts on the addresses step 2 found.
AskWellKnown(c) ==
    /\ call[c].pc = "resolving"
    /\ ~ModernStepTwoEnds(world, ServerName)
    /\ call[c].diagnose \/ delegations = NoEntry
    /\ call' = [call EXCEPT ![c].pc = "wellKnown"]
    /\ running' = [running EXCEPT ![c] = V4(ServerName.host)]
    /\ UNCHANGED <<world, caches, done, counters>>

\* get_well_known stores answers and failures; "there is none" is not stored.
StoreDelegation(outcome, wellKnown) ==
    IF outcome = "absent"
    THEN UNCHANGED delegations
    ELSE delegations' = Entry(wellKnown)

\* The first task answered: an m.server, a 404 or something unusable.
WellKnownAnswered(c) ==
    /\ call[c].pc = "wellKnown"
    /\ \E outcome \in done[c] :
        /\ outcome.kind \in {"answer", "absent", "unusable"}
        /\ RaceOver(c, outcome)
        /\ LET name == IF outcome.kind = "answer" THEN outcome.name ELSE NoDelegation
           IN  /\ StoreDelegation(outcome.kind, name)
               /\ call' = [call EXCEPT ![c].pc = "delegating", ![c].wellKnown = name]
    /\ UNCHANGED <<world, discovered, counters>>

WellKnownFails(c) ==
    /\ StoreDelegation("unusable", NoDelegation)
    /\ call' = [call EXCEPT ![c].pc = "delegating"]

\* The first task failed, whatever the other addresses would have said.
WellKnownError(c) ==
    /\ call[c].pc = "wellKnown"
    /\ \/ RaceEmpty(c) /\ UNCHANGED <<running, done>>
       \/ RaceOver(c, Error)
    /\ WellKnownFails(c)
    /\ UNCHANGED <<world, discovered, counters>>

\* Mutant: the redirect targets are not remembered.
RedirectNotSeen(c, host) == FALSE

RedirectSeen(c, host) == host \in call[c].tried

\* A 301 to a host that was already tried is an error; to a new host, its
\* addresses are resolved and asked in turn.
WellKnownRedirected(c) ==
    /\ call[c].pc = "wellKnown"
    /\ \E outcome \in done[c] :
        /\ outcome.kind = "redirect"
        /\ RaceOver(c, outcome)
        /\ \/ /\ RedirectSeen(c, outcome.to)
              /\ WellKnownFails(c)
           \/ /\ ~RedirectSeen(c, outcome.to)
              /\ call' = [call EXCEPT ![c].pc = "redirected", ![c].host = outcome.to]
              /\ UNCHANGED delegations
    /\ UNCHANGED <<world, discovered, counters>>

\* DNS for the redirect's target came back.
RedirectResolved(c) ==
    /\ call[c].pc = "redirected"
    /\ \/ /\ Addresses(world, call[c].host, TRUE) # {}
          /\ call' = [call EXCEPT ![c].pc = "wellKnown", ![c].tried = @ \cup {call[c].host}]
          /\ running' = [running EXCEPT ![c] = V4(call[c].host)]
          /\ UNCHANGED delegations
       \/ /\ Unresolved(world, call[c].host).outcome = "error"
          /\ Addresses(world, call[c].host, TRUE) = {}
          /\ WellKnownFails(c)
          /\ UNCHANGED running
       \/ /\ Unresolved(world, call[c].host).outcome = "raised"
          /\ call' = [call EXCEPT ![c].pc = "raised"]
          /\ UNCHANGED <<delegations, running>>
    /\ UNCHANGED <<world, discovered, done, counters>>

\* The command "test wellknown" calls get_well_known without any address: what
\* is not cached counts as a failed request, and the failure is stored.
WellKnownCommand(c) ==
    /\ Begin(c)
    /\ call' = [call EXCEPT ![c] = Over("ended")]
    /\ \/ /\ delegations = NoEntry
          /\ StoreDelegation("unusable", NoDelegation)
       \/ /\ delegations # NoEntry
          /\ delegations' = Kept(delegations)
    /\ UNCHANGED <<world, discovered, running, done, expiries>>

\* Steps 3.1 to 6.
Delegated(c) ==
    /\ call[c].pc = "delegating"
    /\ Discover(c, [call[c] EXCEPT
           !.result = ModernAfterWellKnown(world, ServerName, call[c].wellKnown)])
    /\ UNCHANGED <<world, delegations, done, counters>>

\* request(): no address, the first task's response or error, or its exception.
Connected(c) ==
    /\ call[c].pc = "connecting"
    /\ \/ /\ RaceEmpty(c)
          /\ UNCHANGED <<running, done>>
          /\ call' = [call EXCEPT ![c] = Over("ended")]
       \/ /\ \E outcome \in {Error, Response} : RaceOver(c, outcome)
          /\ call' = [call EXCEPT ![c] = Over("ended")]
       \/ /\ RaceOver(c, Exception)
          /\ call' = [call EXCEPT ![c] = Over("raised")]
    /\ UNCHANGED <<world, caches, counters>>

-----------------------------------------------------------------------------
(***************************************************************************)
(* DelegationHandler.discover_server: one version request per address, and *)
(* all of them are waited for.                                             *)
(***************************************************************************)

LegacyAsk(c) ==
    /\ Begin(c)
    /\ LET result == LegacyDelegation(world, world.name, NoDelegation)
       IN  /\ call' = [call EXCEPT ![c] = [Idle EXCEPT !.pc = "testing", !.result = result]]
           /\ running' = [running EXCEPT ![c] = Tasks(result.at)]
    /\ UNCHANGED <<world, caches, done, expiries>>

LegacyTested(c) ==
    /\ call[c].pc = "testing"
    /\ running[c] = {}
    /\ call' = [call EXCEPT ![c] = Over("ended")]
    /\ UNCHANGED <<world, caches, running, done, counters>>

-----------------------------------------------------------------------------
\* The SRV query of steps 3.3 and 4.
AsksSrv(name, wellKnown) ==
    LET target == IF wellKnown = NoDelegation THEN name ELSE Split(wellKnown)
    IN  target.host \notin Literals /\ target.port = 0

\* The query or its answer is lost.  udp_with_fallback is called without a
\* timeout and outside any thread: nothing in the program runs any more.  The
\* older discovery asks for its addresses in the same way.
QueryLost(c) ==
    /\ \/ /\ call[c].pc = "delegating"
          /\ AsksSrv(ServerName, call[c].wellKnown)
          /\ UNCHANGED counters
       \/ /\ Begin(c)
          /\ ServerName.host \notin Literals
          /\ UNCHANGED expiries
    /\ blocked' = TRUE
    /\ UNCHANGED <<world, caches, call, running, done>>

-----------------------------------------------------------------------------
Lookup(c) ==
    \/ StepTwo(c)
    \/ WellKnownCached(c)
    \/ AskWellKnown(c)
    \/ WellKnownAnswered(c)
    \/ WellKnownError(c)
    \/ WellKnownRedirected(c)
    \/ RedirectResolved(c)
    \/ Delegated(c)
    \/ Connected(c)
    \/ LegacyTested(c)

\* The steps of the event loop, which a lost query stops.
Run(step) == ~blocked /\ step /\ UNCHANGED blocked

Next ==
    \/ \E c \in Callers :
        \/ Run(AskCached(c))
        \/ Run(AskFresh(c))
        \/ Run(LegacyAsk(c))
        \/ Run(WellKnownCommand(c))
        \/ Run(Lookup(c))
        \/ Run(TaskEnds(c))
        \/ Run(TaskEndsUnread(c))
        \/ Run(Stuck(c))
        \/ Run(Cancelled(c))
        \/ ~blocked /\ QueryLost(c)
    \/ Run(Expire)

\* The event loop resumes what can be resumed, and a connection attempt ends by
\* its connect and read timeouts, unless its server keeps it going (Stuck).
Fairness ==
    \A c \in Callers :
        /\ WF_vars(Run(Lookup(c)))
        /\ WF_vars(Run(TaskEnds(c) \/ TaskEndsUnread(c)))

Spec == Init /\ [][Next]_vars /\ Fairness

-----------------------------------------------------------------------------
\* Only results are cached, never an exception; a cached delegation is a name.
TypeOK ==
    /\ \A slot \in {discovered, delegations} \ {NoEntry} : slot.expired \in BOOLEAN
    /\ discovered # NoEntry => discovered.value.outcome \in {"found", "error"}
    /\ delegations # NoEntry =>
        delegations.value.host \in DOMAIN world.dns \cup Literals \cup {NoDelegation.host}
    /\ blocked \in BOOLEAN
    /\ \A c \in Callers :
        /\ call[c].pc \in Busy \cup {"idle", "stuck", "ended", "raised", "cancelled"}
        /\ call[c].result.outcome \in {"none", "found", "error", "raised"}
    /\ asks \in 0..world.requests
    /\ expiries \in 0..MaxExpiries

WithoutSrv(w) ==
    [w EXCEPT !.srv = [h \in DOMAIN @ |-> {}], !.deprecated = [h \in DOMAIN @ |-> {}]]

\* The world as the discovery sees it.
Seen(w) == IF w.srvLost THEN WithoutSrv(w) ELSE w

Agrees(result, reference, literalWithoutPort) ==
    IF reference.at = {} THEN result.outcome = "error"
    ELSE /\ result.outcome = "found"
         /\ result.at = reference.at
         /\ result.sni = reference.sni
         /\ result.header = reference.header \/ literalWithoutPort

\* Step 3 is reached, which a name without an address never does.
AsksDelegate(w, wellKnown) ==
    Delegates(w.name, wellKnown) /\ Addresses(w, w.name.host, TRUE) # {}

\* Where the newer discovery leaves the six steps.
\* delegation.py:728-732 use a literal IP with its port or 8448: in brackets it is
\* torn at its first colon and never gets as far as the check for a literal.
TornApart(w, wellKnown) ==
    \/ w.name.host \in Bracketed
    \/ AsksDelegate(w, wellKnown) /\ wellKnown.host \in Bracketed

\* delegation.py:744-745 check the SRV records of a name without a well-known answer:
\* one that has no address besides is given up in step 2.
Unresolvable(w, wellKnown) ==
    /\ w.name.host \notin Literals
    /\ Addresses(w, w.name.host, TRUE) = {}
    /\ Reference(w, w.name, wellKnown).at # {}

\* The delegated name's own address is needed: no SRV record leads anywhere.
OwnAddress(w, wellKnown) ==
    /\ AsksDelegate(w, wellKnown)
    /\ wellKnown.host \notin Literals
    /\ wellKnown.port # 0 \/ Preferred(w, wellKnown.host) = {}

\* delegation.py:741-743 ("Resolve with A or AAAA but not CNAME record"): step 3.5
\* resolves the delegated name as step 6 does the server name, through aliases.
BehindAlias(w, wellKnown) ==
    OwnAddress(w, wellKnown) /\ wellKnown.port = 0 /\ w.dns[wellKnown.host] = "alias"

\* requests.py:127 ("retrieve the result, including errors"): when both address
\* lookups time out there is no error text, and the first of none is asked for.
TimesOut(w, wellKnown) ==
    \/ w.name.host \notin Literals /\ w.dns[w.name.host] = "timeout"
    \/ OwnAddress(w, wellKnown) /\ w.dns[wellKnown.host] = "timeout"

\* The six steps, with the alias followed.
Expected(w, wellKnown) ==
    LET reference == Reference(w, w.name, wellKnown)
    IN  IF BehindAlias(w, wellKnown)
        THEN [reference EXCEPT !.at = At(Addresses(w, wellKnown.host, TRUE), DefaultPort)]
        ELSE reference

\* The newer discovery ends where the six steps end, for the answers it got: with
\* the same addresses, ports, TLS name and Host header, and with an error exactly
\* when the steps lead to no address. A literal without a port gets the default
\* port in its Host header. The only other differences are the four above: two end
\* in an error where the steps find an address, one finds an address where the
\* steps find none, and one raises, which nothing else does.
FollowsTheSteps ==
    \A c \in Callers :
        LET result == call[c].result
            wellKnown == call[c].wellKnown
            w == Seen(world)
        IN  call[c].fresh =>
                IF TimesOut(w, wellKnown) THEN result.outcome = "raised"
                ELSE IF TornApart(w, wellKnown) \/ Unresolvable(w, wellKnown)
                THEN result.outcome = "error"
                ELSE Agrees(result, Expected(w, wellKnown),
                            world.name.host \in Literals /\ world.name.port = 0)

\* Whatever a caller goes on to do, a race it decided has no task left; only a
\* caller that was cancelled in the middle of one, or waits for ever, has any.
RaceLeavesNothing ==
    \A c \in Callers :
        call[c].pc \notin Racing \cup {"stuck", "cancelled"} => running[c] = {}

\* Every request ends, also when servers redirect in a circle, unless the whole
\* program waits for a lost answer or the request for a server that never lets
\* go of its connection.
LookupEnds == \A c \in Callers : call[c].pc \in Busy ~> (call[c].pc \notin Busy \/ blocked)

\* delegation.py:727-746 lists the steps handle_delegation follows. It does
\* not: the missing port is the string "0", so every host name is taken for one
\* with an explicit port, and no well-known or SRV record is ever asked for.
LegacyFollowsTheSteps ==
    \A c \in Callers :
        call[c].pc = "testing" /\ ~TornApart(world, NoDelegation) =>
            LET reference == Reference(world, world.name, NoDelegation)
            IN  reference.at # {} => Agrees(call[c].result, reference, FALSE)
=============================================================================
