------------------------------ MODULE MCDiscovery ------------------------------
(* Instances of Discovery: many worlds with one request, few with three.      *)
EXTENDS Discovery, TLC

CONSTANTS h, d, ip, ip6, c1, c2

Hosts == {h, d}

\* SRV records, new and deprecated, of both hosts: each leads to the other one.
SrvTables(port) == {t \in [Hosts -> {{}, {Name(h, port)}, {Name(d, port)}}] :
                      /\ t[h] # {Name(h, port)}
                      /\ t[d] # {Name(d, port)}}

\* Nobody knows of the torn piece of an IPv6 address.
World(requests, name, dns, srv, deprecated, wellKnown) ==
    [name |-> name, dns |-> dns @@ (Torn :> "none"), srv |-> srv @@ (Torn :> {}),
     deprecated |-> deprecated @@ (Torn :> {}), srvLost |-> FALSE,
     wellKnown |-> wellKnown @@ (Torn :> Absent), requests |-> requests]

NoSrv == [x \in Hosts |-> {}]

\* Every combination of addresses, SRV records and delegations.
Wide ==
    {World(1, name, (h :> dh @@ d :> dd), srv, deprecated, (h :> w @@ d :> Absent)) :
        name \in {Name(h, 0)},
        dh \in DnsKinds \ {"two"}, dd \in DnsKinds \ {"two", "six"},
        srv \in SrvTables(3), deprecated \in SrvTables(4),
        w \in {Absent, Unusable} \cup {Answer(Name(x, p)) : x \in {d, ip}, p \in {0, 5}}
              \cup {Answer(Name(ip6, 5))}}

\* The names that need no well-known request.
Direct ==
    {World(1, name, (h :> dh @@ d :> "one"), NoSrv, NoSrv, [x \in Hosts |-> Absent]) :
        name \in {Name(h, 5), Name(ip, 0), Name(ip, 5), Name(ip6, 0)}, dh \in DnsKinds}

\* The SRV queries raise: the records that are there do not help.
Lost == {[w EXCEPT !.srvLost = TRUE] : w \in {v \in Wide : v.dns[h] = "one"}}

\* Redirects that circle or lead nowhere, addresses that race, and delegations
\* that expire.
Loop(requests, dh, dd, w, v) ==
    World(requests, Name(h, 0), (h :> dh @@ d :> dd), NoSrv, NoSrv, (h :> w @@ d :> v))

Deep ==
    {Loop(requests, dh, "one", w, v) :
        <<requests, dh>> \in {<<1, "two">>, <<2, "one">>},
        w \in {Redirect(d), Redirect(h)}, v \in {Redirect(h), Answer(Name(ip, 0)), Unusable}}
    \cup {Loop(1, "two", dd, Redirect(d), Absent) : dd \in {"none", "timeout"}}
    \cup {Loop(3, "one", "one", w, Absent) : w \in {Answer(Name(d, 0)), Unusable}}

MCWorlds == Wide \cup Lost \cup Direct \cup Deep
=============================================================================
