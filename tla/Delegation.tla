------------------------------ MODULE Delegation ------------------------------
(***************************************************************************)
(* Where a Matrix server name leads: which addresses and ports a request   *)
(* goes to, with which Host header and which TLS server name.              *)
(*                                                                         *)
(* The module holds pure operators over a "world" (what DNS and the        *)
(* well-known endpoint would answer) and states three things:              *)
(*   Reference   the six steps the comment of handle_delegation lists;     *)
(*   Modern...   ServerDiscoveryResolver._discover_server;                 *)
(*   Legacy...   DelegationHandler.handle_delegation.                      *)
(* Discovery.tla runs the last two as the steps of concurrent lookups.     *)
(***************************************************************************)
EXTENDS Naturals

CONSTANTS
    Literals,       \* the hosts that are literal IP addresses
    Bracketed,      \* those of them that are written in brackets, as IPv6 is
    Torn,           \* what stands before the first colon of a bracketed one
    DefaultPort     \* 8448

ASSUME DelegationAssumption ==
    /\ DefaultPort \in Nat \ {0}
    /\ Bracketed \subseteq Literals
    /\ Torn \notin Literals

\* A server name or the "m.server" of a well-known answer: port 0 means that
\* none is written.
Name(host, port) == [host |-> host, port |-> port]

\* check_and_maybe_split_server_name splits at the first colon, also in an IPv6
\* address: the rest is no number, so the host is a torn piece without a port.
Split(name) == IF name.host \in Bracketed THEN Name(Torn, 0) ELSE name

\* Nothing usable came from the well-known endpoint.
NoDelegation == Name("none", 0)

\* str(port), as a sequence so that <<>> is the empty string; and the Host
\* header, whose port is a string that may be empty.
Str(port) == <<port>>
IntOf(str) == str[1]
IfAny(port) == IF port = 0 THEN <<>> ELSE Str(port)
Header(host, str) == [host |-> host, port |-> str]

\* What a lookup of A and AAAA records can come back with. An "alias" has its
\* address behind a CNAME; on "timeout" neither query leaves an error text.
DnsKinds == {"one", "two", "six", "alias", "none", "timeout"}

Families(kind, followCname) ==
    [one |-> {"v4a"}, two |-> {"v4a", "v4b"}, six |-> {"v6"},
     alias |-> IF followCname THEN {"v4a"} ELSE {},
     none |-> {}, timeout |-> {}][kind]

Addresses(world, host, followCname) ==
    {[host |-> host, family |-> f] : f \in Families(world.dns[host], followCname)}

LiteralAddress(host) ==
    [host |-> host, family |-> IF host \in Bracketed THEN "v6" ELSE "v4a"]

\* The same addresses, each with the port a request would use.
At(addresses, port) == {[address |-> a, port |-> port] : a \in addresses}

\* SRV targets are resolved one by one, without following CNAME records.
SrvAt(world, records) ==
    UNION {At(Addresses(world, r.host, FALSE), r.port) : r \in records}

OnlyV4(places) == {p \in places : p.address.family # "v6"}

Found(places, header, sni) ==
    [outcome |-> "found", at |-> places, header |-> header, sni |-> sni]

Nowhere(outcome) ==
    [outcome |-> outcome, at |-> {}, header |-> Header("none", <<>>), sni |-> NoDelegation]

-----------------------------------------------------------------------------
(***************************************************************************)
(* The reference: delegation.py:727-746.  Step 3 is "the same again" for   *)
(* the delegated name, with no further well-known request, except that the *)
(* last resort, step 3e, does not follow a CNAME record where step 6 does. *)
(***************************************************************************)

Preferred(world, host) ==
    IF SrvAt(world, world.srv[host]) # {} THEN SrvAt(world, world.srv[host])
    ELSE SrvAt(world, world.deprecated[host])

Places(world, name, delegated) ==
    CASE name.host \in Literals ->
            At({LiteralAddress(name.host)}, IF name.port = 0 THEN DefaultPort ELSE name.port)
      [] name.host \notin Literals /\ name.port # 0 ->
            At(Addresses(world, name.host, TRUE), name.port)
      [] name.host \notin Literals /\ name.port = 0 /\ Preferred(world, name.host) # {} ->
            Preferred(world, name.host)
      [] OTHER -> At(Addresses(world, name.host, ~delegated), DefaultPort)

\* The well-known endpoint only has a say for a host name without a port.
Delegates(name, wellKnown) ==
    name.host \notin Literals /\ name.port = 0 /\ wellKnown # NoDelegation

\* The name the request finally goes to.
Target(name, wellKnown) == IF Delegates(name, wellKnown) THEN wellKnown ELSE name

Reference(world, name, wellKnown) ==
    LET target == Target(name, wellKnown)
    IN  Found(Places(world, target, Delegates(name, wellKnown)),
              Header(target.host, IfAny(target.port)), Name(target.host, 0))

-----------------------------------------------------------------------------
(***************************************************************************)
(* ServerDiscoveryResolver._discover_server, for names that were split.    *)
(***************************************************************************)

\* Mutant: the deprecated record wins over the new one.
ModernSrvDeprecatedFirst(world, host) ==
    IF world.srvLost THEN {}
    ELSE LET old == SrvAt(world, world.deprecated[host])
         IN  IF old # {} THEN old ELSE SrvAt(world, world.srv[host])

\* resolve_srv_records: the deprecated record is asked only when the new one
\* led to no address.  The query may raise (srvLost): that counts as no record.
ModernSrv(world, host) ==
    IF world.srvLost THEN {}
    ELSE LET fed == SrvAt(world, world.srv[host])
         IN  IF fed # {} THEN fed ELSE SrvAt(world, world.deprecated[host])

\* No address for the host: the first error text is the answer, and taking it
\* raises an IndexError when neither query left one.
Unresolved(world, host) ==
    Nowhere(IF world.dns[host] = "timeout" THEN "raised" ELSE "error")

ModernResolve(world, name, port) ==
    IF Addresses(world, name.host, TRUE) = {} THEN Unresolved(world, name.host)
    ELSE Found(At(Addresses(world, name.host, TRUE), port),
               Header(name.host, IfAny(name.port)), Name(name.host, 0))

\* Step 1: the default port also gets into the Host header.
ModernLiteral(name) ==
    LET port == IF name.port = 0 THEN DefaultPort ELSE name.port
    IN  Found(At({LiteralAddress(name.host)}, port), Header(name.host, Str(port)), Name(name.host, 0))

\* Step 2 is over when the host does not resolve or the name has a port.
ModernStepTwoEnds(world, name) ==
    name.port # 0 \/ Addresses(world, name.host, TRUE) = {}

ModernStepTwo(world, name) == ModernResolve(world, name, name.port)

\* Steps 3.1 to 3.5, for the name the well-known endpoint gave.
ModernDelegated(world, delegated) ==
    LET srv == ModernSrv(world, delegated.host)
    IN  IF delegated.host \in Literals
        THEN [ModernLiteral(delegated) EXCEPT !.header = Header(delegated.host, IfAny(delegated.port))]
        ELSE IF delegated.port # 0
        THEN ModernResolve(world, delegated, delegated.port)
        ELSE IF srv # {}
        THEN Found(srv, Header(delegated.host, <<>>), Name(delegated.host, 0))
        ELSE ModernResolve(world, delegated, DefaultPort)

\* Steps 4 to 6, for the server name itself.
ModernUndelegated(world, name) ==
    LET srv == ModernSrv(world, name.host)
    IN  Found(IF srv # {} THEN srv ELSE At(Addresses(world, name.host, TRUE), DefaultPort),
              Header(name.host, <<>>), Name(name.host, 0))

ModernAfterWellKnown(world, name, wellKnown) ==
    IF wellKnown # NoDelegation
    THEN ModernDelegated(world, Split(wellKnown))
    ELSE ModernUndelegated(world, name)

-----------------------------------------------------------------------------
(***************************************************************************)
(* DelegationHandler.handle_delegation.  A port is a string here.          *)
(***************************************************************************)

\* "a or b" on strings.
Or(str, default) == IF str # <<>> THEN str ELSE default

LegacyPlaces(world, host, str) == At(Addresses(world, host, TRUE), IntOf(str))

\* Both kinds of SRV records, joined in one set.
LegacySrv(world, host) ==
    SrvAt(world, world.srv[host] \cup world.deprecated[host])

LegacyLiteral(host, str, sni) ==
    Found(At({LiteralAddress(host)}, IntOf(Or(str, Str(DefaultPort)))),
          Header(host, str), sni)

LegacyWithPort(world, host, str) ==
    Found(LegacyPlaces(world, host, str), Header(host, str), Name(host, 0))

LegacyWithoutPort(world, host) ==
    LET srv == LegacySrv(world, host)
    IN  Found(IF srv # {} THEN srv ELSE LegacyPlaces(world, host, Str(DefaultPort)),
              Header(host, <<>>), Name(host, 0))

\* handle_well_known_delegation: steps 3.1 to 3.5.
LegacyDelegated(world, host, str) ==
    IF host \in Literals THEN LegacyLiteral(host, str, Name(host, 0))
    ELSE IF str # <<>> THEN LegacyWithPort(world, host, str)
    ELSE LegacyWithoutPort(world, host)

\* Steps 1 and 2, then 3 when the well-known endpoint answered, else 4 to 6.
\* The TLS server name of a literal is the whole server name, port and all.
LegacyDelegation(world, name, wellKnown) ==
    LET host == Split(name).host
        str == Str(Split(name).port)
    IN  IF host \in Literals THEN LegacyLiteral(host, str, name)
        ELSE IF str # <<>> THEN LegacyWithPort(world, host, str)
        ELSE IF wellKnown # NoDelegation
        THEN LegacyDelegated(world, Split(wellKnown).host, Str(Split(wellKnown).port))
        ELSE LegacyWithoutPort(world, host)
=============================================================================
