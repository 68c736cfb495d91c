--------------------------- MODULE Discovery_proofs ---------------------------
(***************************************************************************)
(* Invariants of Discovery for any callers and any answers of DNS and of   *)
(* the well-known endpoints, and the comparison of the newer discovery     *)
(* with the six steps, for every name and every answer.                    *)
(***************************************************************************)
EXTENDS Discovery, TLAPS

-----------------------------------------------------------------------------
(***************************************************************************)
(* The newer discovery as one operator, and what it returns.               *)
(***************************************************************************)
Modern(w, wellKnown) ==
    IF Split(w.name).host \in Literals THEN ModernLiteral(Split(w.name))
    ELSE IF ModernStepTwoEnds(w, Split(w.name)) THEN ModernStepTwo(w, Split(w.name))
    ELSE ModernAfterWellKnown(w, Split(w.name), wellKnown)

\* A result: no address unless one was found.
IsResult(result) ==
    /\ result.outcome \in {"none", "found", "error", "raised"}
    /\ result.outcome # "found" => result.at = {}

LEMMA ModernIsResult ==
    ASSUME NEW w, NEW wellKnown
    PROVE  /\ IsResult(Modern(w, wellKnown))
           /\ Modern(w, wellKnown).outcome # "none"
<1>1. \A name, port : /\ IsResult(ModernResolve(w, name, port))
                      /\ ModernResolve(w, name, port).outcome # "none"
  BY DEF IsResult, ModernResolve, Unresolved, Nowhere, Found
<1>2. \A name : IsResult(ModernLiteral(name)) /\ ModernLiteral(name).outcome # "none"
  BY DEF IsResult, ModernLiteral, Found
<1>3. \A name, header : /\ IsResult([ModernLiteral(name) EXCEPT !.header = header])
                        /\ [ModernLiteral(name) EXCEPT !.header = header].outcome # "none"
  BY DEF IsResult, ModernLiteral, Found
<1>4. \A at, header, sni : IsResult(Found(at, header, sni)) /\ Found(at, header, sni).outcome # "none"
  BY DEF IsResult, Found
<1>5. \A name : IsResult(ModernDelegated(w, name)) /\ ModernDelegated(w, name).outcome # "none"
  BY <1>1, <1>3, <1>4 DEF ModernDelegated
<1>6. \A name : IsResult(ModernUndelegated(w, name)) /\ ModernUndelegated(w, name).outcome # "none"
  BY <1>4 DEF ModernUndelegated
<1> QED
  BY <1>1, <1>2, <1>5, <1>6 DEF Modern, ModernStepTwo, ModernAfterWellKnown

\* A name the well-known endpoint gave, or none.
IsDelegation(w, name) == name = NoDelegation \/ name.host \in DOMAIN w.dns \cup Literals

LEMMA SeenFacts ==
    ASSUME NEW w, IsWorld(w)
    PROVE  /\ \A host, follow : Addresses(Seen(w), host, follow) = Addresses(w, host, follow)
           /\ Seen(w).name = w.name /\ Seen(w).dns = w.dns
           /\ \A host \in DOMAIN w.dns : Preferred(Seen(w), host) = ModernSrv(w, host)
<1>1. Seen(w).dns = w.dns /\ Seen(w).name = w.name
  BY DEF Seen, WithoutSrv, IsWorld
<1>2. w.srvLost => /\ \A host \in DOMAIN w.dns : Seen(w).srv[host] = {}
                   /\ \A host \in DOMAIN w.dns : Seen(w).deprecated[host] = {}
  BY DEF Seen, WithoutSrv, IsWorld
<1>3. \A x : SrvAt(x, {}) = {}
  BY DEF SrvAt
<1>4. \A host, follow : Addresses(Seen(w), host, follow) = Addresses(w, host, follow)
  BY <1>1 DEF Addresses
<1>5. ASSUME NEW host \in DOMAIN w.dns PROVE Preferred(Seen(w), host) = ModernSrv(w, host)
  <2>1. CASE w.srvLost
    BY <1>2, <1>3, <2>1 DEF Preferred, ModernSrv
  <2>2. CASE ~w.srvLost
    BY <2>2 DEF Preferred, ModernSrv, Seen
  <2> QED
    BY <2>1, <2>2
<1> QED
  BY <1>1, <1>4, <1>5

LEMMA AtEmpty == \A places, port : At(places, port) = {} <=> places = {}
  BY DEF At

\* Following aliases makes a difference only to an alias.
LEMMA OnlyAliasesDiffer ==
    ASSUME NEW w, NEW host, w.dns[host] \in DnsKinds \ {"alias"}
    PROVE  \A follow \in BOOLEAN : Addresses(w, host, follow) = Addresses(w, host, TRUE)
<1>1. \A follow \in BOOLEAN : Families(w.dns[host], follow) = Families(w.dns[host], TRUE)
  BY DEF Families, DnsKinds
<1> QED
  BY <1>1 DEF Addresses

\* For every name, every DNS and every answer of the well-known endpoint, the newer
\* discovery ends where the six steps end, an alias followed, unless a name is torn
\* apart or given up or a lookup times out.
LEMMA ModernFollowsTheSteps ==
    ASSUME NEW w, IsWorld(w), NEW wellKnown, IsDelegation(w, wellKnown),
           ~TornApart(Seen(w), wellKnown), ~Unresolvable(Seen(w), wellKnown),
           ~TimesOut(Seen(w), wellKnown)
    PROVE  Agrees(Modern(w, wellKnown), Expected(Seen(w), wellKnown),
                  w.name.host \in Literals /\ w.name.port = 0)
<1> SUFFICES ASSUME NEW name, name = w.name,
                    NEW target, target = Target(name, wellKnown),
                    NEW reference, reference = Expected(Seen(w), wellKnown),
                    NEW flag \in BOOLEAN, flag <=> name.host \in Literals /\ name.port = 0
             PROVE  Agrees(Modern(w, wellKnown), reference, flag)
  OBVIOUS
<1>1. Split(name) = name
  BY SeenFacts DEF TornApart, Split
<1>2. PICK delegated \in BOOLEAN : delegated = Delegates(name, wellKnown)
  BY DEF Delegates
<1>3. PICK follow \in BOOLEAN : follow = ~delegated
  OBVIOUS
<1>4. \A n : Places(Seen(w), n, delegated) =
            IF n.host \in Literals
            THEN At({LiteralAddress(n.host)}, IF n.port = 0 THEN DefaultPort ELSE n.port)
            ELSE IF n.port # 0 THEN At(Addresses(w, n.host, TRUE), n.port)
            ELSE IF Preferred(Seen(w), n.host) # {} THEN Preferred(Seen(w), n.host)
            ELSE At(Addresses(w, n.host, follow), DefaultPort)
  <2>1. \A host, any : Addresses(Seen(w), host, any) = Addresses(w, host, any)
    BY SeenFacts
  <2> QED
    BY <1>3, <2>1 DEF Places
<1>5. /\ ~BehindAlias(Seen(w), wellKnown) => reference.at = Places(Seen(w), target, delegated)
      /\ BehindAlias(Seen(w), wellKnown) =>
            reference.at = At(Addresses(w, wellKnown.host, TRUE), DefaultPort)
      /\ reference.header = Header(target.host, IfAny(target.port))
      /\ reference.sni = Name(target.host, 0)
  BY <1>2, SeenFacts DEF Expected, Reference, Found
<1>0. /\ ~AsksDelegate(Seen(w), wellKnown) => ~BehindAlias(Seen(w), wellKnown)
      /\ AsksDelegate(Seen(w), wellKnown) <=>
            Delegates(name, wellKnown) /\ Addresses(w, name.host, TRUE) # {}
  BY SeenFacts DEF AsksDelegate, BehindAlias, OwnAddress
<1>6. \A places, header, sni :
        /\ Found(places, header, sni).outcome = "found"
        /\ Found(places, header, sni).at = places
        /\ Found(places, header, sni).header = header
        /\ Found(places, header, sni).sni = sni
  BY DEF Found
\* A name that resolves, or does not, on the way.
<1>7. ASSUME NEW n, NEW port, target = n, w.dns[n.host] # "timeout",
             reference.at = At(Addresses(w, n.host, TRUE), port)
      PROVE  Agrees(ModernResolve(w, n, port), reference, flag)
  <2>1. CASE Addresses(w, n.host, TRUE) = {}
    <3>1. reference.at = {}
      BY <1>7, <2>1, AtEmpty
    <3>2. ModernResolve(w, n, port).outcome = "error"
      BY <1>7, <2>1 DEF ModernResolve, Unresolved, Nowhere
    <3> QED
      BY <3>1, <3>2 DEF Agrees
  <2>2. CASE Addresses(w, n.host, TRUE) # {}
    <3>1. ModernResolve(w, n, port) =
            Found(At(Addresses(w, n.host, TRUE), port), Header(n.host, IfAny(n.port)), Name(n.host, 0))
      BY <2>2 DEF ModernResolve
    <3>2. reference.at = At(Addresses(w, n.host, TRUE), port) /\ reference.at # {}
      BY <1>7, <2>2, AtEmpty
    <3>3. /\ ModernResolve(w, n, port).outcome = "found"
          /\ ModernResolve(w, n, port).at = At(Addresses(w, n.host, TRUE), port)
          /\ ModernResolve(w, n, port).header = Header(n.host, IfAny(n.port))
          /\ ModernResolve(w, n, port).sni = Name(n.host, 0)
      BY <3>1 DEF Found
    <3>4. /\ ModernResolve(w, n, port).header = reference.header
          /\ ModernResolve(w, n, port).sni = reference.sni
      BY <1>5, <1>7, <3>3
    <3> QED
      BY <3>2, <3>3, <3>4, Zenon DEF Agrees
  <2> QED
    BY <2>1, <2>2
<1>8. CASE name.host \in Literals
  <2> DEFINE port == IF name.port = 0 THEN DefaultPort ELSE name.port
  <2>1. target = name /\ ~BehindAlias(Seen(w), wellKnown)
    BY <1>0, <1>8 DEF Target, Delegates
  <2>2. Modern(w, wellKnown) =
            Found(At({LiteralAddress(name.host)}, port), Header(name.host, Str(port)), Name(name.host, 0))
    BY <1>1, <1>8 DEF Modern, ModernLiteral
  <2>3. reference.at = At({LiteralAddress(name.host)}, port) /\ reference.at # {}
    <3>1. At({LiteralAddress(name.host)}, port) # {}
      BY AtEmpty
    <3> QED
      BY <1>5, <1>8, <2>1, <3>1, <1>4
  <2>4. name.port # 0 => IfAny(name.port) = Str(port)
    BY DEF IfAny
  <2>5. flag \/ IfAny(name.port) = Str(port)
    BY <1>8, <2>4
  <2> HIDE DEF port
  <2>6. /\ Modern(w, wellKnown).outcome = "found"
        /\ Modern(w, wellKnown).at = reference.at
        /\ Modern(w, wellKnown).header = Header(name.host, Str(port))
        /\ Modern(w, wellKnown).sni = reference.sni
    <3>1. reference.sni = Name(name.host, 0)
      BY <1>5, <2>1
    <3> QED
      BY <2>2, <2>3, <3>1 DEF Found
  <2>7. flag \/ Modern(w, wellKnown).header = reference.header
    <3>1. reference.header = Header(name.host, IfAny(name.port))
      BY <1>5, <2>1
    <3> QED
      BY <2>5, <2>6, <3>1
  <2> QED
    BY <2>3, <2>6, <2>7, Zenon DEF Agrees
\* The name does not resolve, and no SRV record would have helped.
<1>9. CASE name.host \notin Literals /\ Addresses(w, name.host, TRUE) = {}
  <2>1. Modern(w, wellKnown) = ModernResolve(w, name, name.port)
    BY <1>1, <1>9 DEF Modern, ModernStepTwoEnds, ModernStepTwo
  <2>2. w.dns[name.host] # "timeout"
    BY <1>9, SeenFacts DEF TimesOut
  <2>3. Modern(w, wellKnown).outcome = "error"
    BY <1>9, <2>1, <2>2 DEF ModernResolve, Unresolved, Nowhere
  <2>4. reference.at = {}
    BY <1>0, <1>9, SeenFacts DEF Unresolvable, Expected
  <2> QED
    BY <2>3, <2>4 DEF Agrees
<1>10. CASE name.host \notin Literals /\ name.port # 0
  <2>1. target = name /\ ~BehindAlias(Seen(w), wellKnown)
    BY <1>0, <1>10 DEF Target, Delegates
  <2>2. Modern(w, wellKnown) = ModernResolve(w, name, name.port)
    BY <1>1, <1>10 DEF Modern, ModernStepTwoEnds, ModernStepTwo
  <2>3. reference.at = At(Addresses(w, name.host, TRUE), name.port)
    BY <1>5, <1>10, <2>1, <1>4
  <2>4. w.dns[name.host] # "timeout"
    BY <1>10, SeenFacts DEF TimesOut
  <2> QED
    BY <1>7, <2>1, <2>2, <2>3, <2>4
<1>11. CASE /\ name.host \notin Literals /\ name.port = 0 /\ wellKnown = NoDelegation
           /\ Addresses(w, name.host, TRUE) # {}
  <2>1. target = name /\ ~Delegates(name, wellKnown) /\ ~BehindAlias(Seen(w), wellKnown)
    BY <1>0, <1>11 DEF Target, Delegates
  <2>2. Modern(w, wellKnown) = ModernUndelegated(w, name)
    BY <1>1, <1>11 DEF Modern, ModernStepTwoEnds, ModernAfterWellKnown
  <2>3. name.host \in DOMAIN w.dns
    BY <1>11 DEF IsWorld
  <2>4. IfAny(name.port) = << >>
    BY <1>11 DEF IfAny
  <2>5. reference.at = (IF ModernSrv(w, name.host) # {} THEN ModernSrv(w, name.host)
                        ELSE At(Addresses(w, name.host, TRUE), DefaultPort))
    <3>2. reference.at = Places(Seen(w), name, delegated) /\ follow = TRUE
      BY <1>2, <1>3, <1>5, <2>1
    <3>3. Preferred(Seen(w), name.host) = ModernSrv(w, name.host)
      BY <2>3, SeenFacts
    <3> QED
      BY <1>4, <1>11, <3>2, <3>3
  <2>6. reference.at # {}
    BY <1>11, <2>5, AtEmpty
  <2>7. /\ ModernUndelegated(w, name).outcome = "found"
        /\ ModernUndelegated(w, name).at =
                IF ModernSrv(w, name.host) # {} THEN ModernSrv(w, name.host)
                ELSE At(Addresses(w, name.host, TRUE), DefaultPort)
        /\ ModernUndelegated(w, name).header = Header(name.host, << >>)
        /\ ModernUndelegated(w, name).sni = Name(name.host, 0)
    BY DEF ModernUndelegated, Found
  <2>8. /\ ModernUndelegated(w, name).header = reference.header
        /\ ModernUndelegated(w, name).sni = reference.sni
    BY <1>5, <2>1, <2>4, <2>7
  <2> QED
    BY <2>2, <2>5, <2>6, <2>7, <2>8, Zenon DEF Agrees
<1>12. CASE /\ name.host \notin Literals /\ name.port = 0 /\ wellKnown # NoDelegation
           /\ Addresses(w, name.host, TRUE) # {}
  <2>1. target = wellKnown /\ Delegates(name, wellKnown) /\ AsksDelegate(Seen(w), wellKnown)
    BY <1>0, <1>12 DEF Target, Delegates
  <2>0. Split(wellKnown) = wellKnown
    BY <2>1 DEF TornApart, Split
  <2>2. Modern(w, wellKnown) = ModernDelegated(w, wellKnown)
    BY <1>1, <1>12, <2>0 DEF Modern, ModernStepTwoEnds, ModernAfterWellKnown
  <2>3. CASE wellKnown.host \in Literals
    <3> DEFINE port == IF wellKnown.port = 0 THEN DefaultPort ELSE wellKnown.port
    <3>1. reference.at = At({LiteralAddress(wellKnown.host)}, port) /\ reference.at # {}
      <4>1. At({LiteralAddress(wellKnown.host)}, port) # {}
        BY AtEmpty
      <4> QED
        BY <1>5, <2>1, <2>3, <4>1, <1>4 DEF BehindAlias, OwnAddress
    <3>2. Modern(w, wellKnown) =
            Found(At({LiteralAddress(wellKnown.host)}, port),
                  Header(wellKnown.host, IfAny(wellKnown.port)), Name(wellKnown.host, 0))
      BY <2>2, <2>3 DEF ModernDelegated, ModernLiteral, Found
    <3> HIDE DEF port
    <3>3. /\ reference.sni = Name(wellKnown.host, 0)
          /\ reference.header = Header(wellKnown.host, IfAny(wellKnown.port))
      BY <1>5, <2>1
    <3>4. /\ Modern(w, wellKnown).outcome = "found"
          /\ Modern(w, wellKnown).at = reference.at
          /\ Modern(w, wellKnown).header = reference.header
          /\ Modern(w, wellKnown).sni = reference.sni
      BY <3>1, <3>2, <3>3 DEF Found
    <3> QED
      BY <3>1, <3>4, Zenon DEF Agrees
  <2>4. CASE wellKnown.host \notin Literals /\ wellKnown.port # 0
    <3>1. Modern(w, wellKnown) = ModernResolve(w, wellKnown, wellKnown.port)
      BY <2>2, <2>4 DEF ModernDelegated
    <3>2. reference.at = At(Addresses(w, wellKnown.host, TRUE), wellKnown.port)
      BY <1>5, <2>1, <2>4, <1>4 DEF BehindAlias
    <3>3. w.dns[wellKnown.host] # "timeout"
      BY <2>1, <2>4, SeenFacts DEF TimesOut, OwnAddress
    <3> QED
      BY <1>7, <2>1, <3>1, <3>2, <3>3
  <2>5. CASE wellKnown.host \notin Literals /\ wellKnown.port = 0
    <3>0. wellKnown.host \in DOMAIN w.dns
      BY <1>12, <2>5 DEF IsDelegation
    <3>1. Preferred(Seen(w), wellKnown.host) = ModernSrv(w, wellKnown.host)
      BY <3>0, SeenFacts
    <3>2. CASE ModernSrv(w, wellKnown.host) # {}
      <4>1. reference.at = ModernSrv(w, wellKnown.host)
        BY <1>5, <2>1, <2>5, <3>1, <3>2, <1>4 DEF BehindAlias, OwnAddress
      <4>2. Modern(w, wellKnown) =
                Found(ModernSrv(w, wellKnown.host), Header(wellKnown.host, << >>),
                      Name(wellKnown.host, 0))
        BY <2>2, <2>5, <3>2 DEF ModernDelegated
      <4>3. IfAny(wellKnown.port) = << >>
        BY <2>5 DEF IfAny
      <4> QED
        BY <1>5, <1>6, <2>1, <3>2, <4>1, <4>2, <4>3 DEF Agrees
    <3>3. CASE ModernSrv(w, wellKnown.host) = {}
      <4>1. Modern(w, wellKnown) = ModernResolve(w, wellKnown, DefaultPort)
        BY <2>2, <2>5, <3>3 DEF ModernDelegated
      <4>2. OwnAddress(Seen(w), wellKnown)
        BY <2>1, <2>5, <3>1, <3>3, SeenFacts DEF OwnAddress
      <4>3. w.dns[wellKnown.host] \in DnsKinds \ {"timeout"}
        BY <2>5, <3>0, <4>2, SeenFacts DEF TimesOut, IsWorld
      <4>4. CASE BehindAlias(Seen(w), wellKnown)
        BY <1>5, <1>7, <2>1, <4>1, <4>3, <4>4
      <4>5. CASE ~BehindAlias(Seen(w), wellKnown)
        <5>1. w.dns[wellKnown.host] # "alias"
          BY <2>5, <4>2, <4>5, SeenFacts DEF BehindAlias
        <5>2. Addresses(w, wellKnown.host, follow) = Addresses(w, wellKnown.host, TRUE)
          BY <4>3, <5>1, OnlyAliasesDiffer
        <5>3. reference.at = At(Addresses(w, wellKnown.host, TRUE), DefaultPort)
          BY <1>5, <2>1, <2>5, <3>1, <3>3, <4>5, <5>2, <1>4
        <5> QED
          BY <1>7, <2>1, <4>1, <4>3, <5>3
      <4> QED
        BY <4>4, <4>5
    <3> QED
      BY <3>2, <3>3
  <2> QED
    BY <2>3, <2>4, <2>5
<1> QED
  BY <1>8, <1>9, <1>10, <1>11, <1>12

\* And how it ends there: it raises when a lookup that it needs times out, and gives
\* up a name that it has torn apart or cannot resolve.
LEMMA ModernLeavesTheSteps ==
    ASSUME NEW w, IsWorld(w), NEW wellKnown, IsDelegation(w, wellKnown)
    PROVE  /\ TimesOut(Seen(w), wellKnown) => Modern(w, wellKnown).outcome = "raised"
           /\ /\ ~TimesOut(Seen(w), wellKnown)
              /\ TornApart(Seen(w), wellKnown) \/ Unresolvable(Seen(w), wellKnown)
              => Modern(w, wellKnown).outcome = "error"
<1> SUFFICES ASSUME NEW name, name = w.name PROVE
           /\ TimesOut(Seen(w), wellKnown) => Modern(w, wellKnown).outcome = "raised"
           /\ /\ ~TimesOut(Seen(w), wellKnown)
              /\ TornApart(Seen(w), wellKnown) \/ Unresolvable(Seen(w), wellKnown)
              => Modern(w, wellKnown).outcome = "error"
  OBVIOUS
<1>1. ASSUME NEW n, NEW port, Addresses(w, n.host, TRUE) = {}
      PROVE  ModernResolve(w, n, port).outcome =
                IF w.dns[n.host] = "timeout" THEN "raised" ELSE "error"
  BY <1>1 DEF ModernResolve, Unresolved, Nowhere
<1>2. ASSUME NEW host, w.dns[host] = "none" \/ w.dns[host] = "timeout"
      PROVE  Addresses(w, host, TRUE) = {}
  <2>1. Families(w.dns[host], TRUE) = {}
    BY <1>2 DEF Families
  <2> QED
    BY <2>1 DEF Addresses
<1>3. Name(Torn, 0).host = Torn /\ Name(Torn, 0).port = 0 /\ Torn \notin Literals
      /\ w.dns[Torn] = "none" /\ Torn \in DOMAIN w.dns
  BY DelegationAssumption DEF Name, IsWorld
<1>4. Addresses(w, Torn, TRUE) = {}
  BY <1>2, <1>3
<1>5. CASE name.host \in Bracketed
  <2>1. name.host \in Literals /\ Split(name) = Name(Torn, 0)
    BY <1>5, DelegationAssumption DEF Split
  <2>2. Modern(w, wellKnown) = ModernResolve(w, Name(Torn, 0), 0)
    BY <1>3, <1>4, <2>1 DEF Modern, ModernStepTwoEnds, ModernStepTwo
  <2>3. Modern(w, wellKnown).outcome = "error"
    BY <1>1, <1>3, <1>4, <2>2
  <2>4. ~TimesOut(Seen(w), wellKnown)
    BY <2>1, SeenFacts DEF TimesOut, OwnAddress, AsksDelegate, Delegates
  <2> QED
    BY <2>3, <2>4
<1>6. CASE name.host \in Literals \ Bracketed
  BY <1>6, SeenFacts DEF TimesOut, OwnAddress, AsksDelegate, Delegates, TornApart, Unresolvable
<1>7. CASE name.host \notin Literals /\ Addresses(w, name.host, TRUE) = {}
  <2>1. Split(name) = name
    BY <1>7, DelegationAssumption DEF Split
  <2>2. Modern(w, wellKnown) = ModernResolve(w, name, name.port)
    BY <1>7, <2>1 DEF Modern, ModernStepTwoEnds, ModernStepTwo
  <2>3. TimesOut(Seen(w), wellKnown) <=> w.dns[name.host] = "timeout"
    BY <1>7, SeenFacts DEF TimesOut, OwnAddress, AsksDelegate
  <2> QED
    BY <1>1, <1>7, <2>2, <2>3
<1>8. CASE name.host \notin Literals /\ Addresses(w, name.host, TRUE) # {}
  <2>1. Split(name) = name
    BY <1>8, DelegationAssumption DEF Split
  <2>2. /\ TimesOut(Seen(w), wellKnown) <=>
              OwnAddress(Seen(w), wellKnown) /\ w.dns[wellKnown.host] = "timeout"
        /\ ~Unresolvable(Seen(w), wellKnown)
    <3>1. w.dns[name.host] # "timeout"
      BY <1>2, <1>8
    <3> QED
      BY <1>8, <3>1, SeenFacts DEF TimesOut, Unresolvable
  <2>3. TornApart(Seen(w), wellKnown) <=>
            Delegates(name, wellKnown) /\ wellKnown.host \in Bracketed
    <3>1. w.name.host \notin Bracketed
      BY <1>8, DelegationAssumption
    <3>2. Seen(w).name = w.name /\ Addresses(Seen(w), w.name.host, TRUE) # {}
      BY <1>8, SeenFacts
    <3> QED
      BY <3>1, <3>2 DEF TornApart, AsksDelegate
  <2>4. CASE ~Delegates(name, wellKnown)
    BY <2>2, <2>3, <2>4, SeenFacts DEF OwnAddress, AsksDelegate
  <2>5. CASE Delegates(name, wellKnown)
    <3>1. Modern(w, wellKnown) = ModernDelegated(w, Split(wellKnown))
      BY <1>8, <2>1, <2>5 DEF Modern, ModernStepTwoEnds, ModernAfterWellKnown, Delegates
    <3>2. CASE wellKnown.host \in Bracketed
      <4>1. wellKnown.host \in Literals /\ Split(wellKnown) = Name(Torn, 0)
        BY <3>2, DelegationAssumption DEF Split
      <4>2. ModernSrv(w, Torn) = {}
        BY DEF ModernSrv, SrvAt, IsWorld
      <4>3. Modern(w, wellKnown) = ModernResolve(w, Name(Torn, 0), DefaultPort)
        BY <1>3, <3>1, <4>1, <4>2 DEF ModernDelegated
      <4>4. Modern(w, wellKnown).outcome = "error"
        BY <1>1, <1>3, <1>4, <4>3
      <4> QED
        BY <2>2, <4>1, <4>4 DEF OwnAddress
    <3>3. CASE wellKnown.host \notin Bracketed
      <4>1. Split(wellKnown) = wellKnown /\ ~TornApart(Seen(w), wellKnown)
        BY <2>3, <3>3 DEF Split
      <4>2. SUFFICES ASSUME OwnAddress(Seen(w), wellKnown), w.dns[wellKnown.host] = "timeout"
                     PROVE  Modern(w, wellKnown).outcome = "raised"
        BY <2>2, <4>1
      <4>3. wellKnown.host \in DOMAIN w.dns /\ wellKnown.host \notin Literals
        BY <2>5, <4>2 DEF OwnAddress, IsDelegation, Delegates
      <4>4. wellKnown.port # 0 \/ ModernSrv(w, wellKnown.host) = {}
        BY <4>2, <4>3, SeenFacts DEF OwnAddress
      <4>5. \E port : Modern(w, wellKnown) = ModernResolve(w, wellKnown, port)
        BY <3>1, <4>1, <4>3, <4>4 DEF ModernDelegated
      <4>6. Addresses(w, wellKnown.host, TRUE) = {}
        BY <1>2, <4>2
      <4> QED
        BY <1>1, <4>2, <4>5, <4>6
    <3> QED
      BY <3>2, <3>3
  <2> QED
    BY <2>4, <2>5
<1> QED
  BY <1>5, <1>6, <1>7, <1>8

-----------------------------------------------------------------------------
(***************************************************************************)
(* The invariant: what a caller's locals r, its tasks and their outcomes   *)
(* may be.                                                                 *)
(***************************************************************************)
IsCall(r) ==
    /\ r = [pc |-> r.pc, diagnose |-> r.diagnose, host |-> r.host, tried |-> r.tried,
            wellKnown |-> r.wellKnown, fresh |-> r.fresh, result |-> r.result]
    /\ r.pc \in Busy \cup {"idle", "stuck", "ended", "raised", "cancelled"}
    /\ IsResult(r.result)

\* A lookup that is under way has no result yet; what it found out so far.
LookupOK(r) ==
    /\ r.pc \in {"resolving", "wellKnown", "redirected", "delegating"} =>
        ~r.fresh /\ ServerName.host \notin Literals
    /\ r.pc \in {"resolving", "wellKnown", "redirected"} => r.wellKnown = NoDelegation
    /\ r.pc \in {"wellKnown", "redirected", "delegating"} => ~ModernStepTwoEnds(world, ServerName)
    /\ r.pc = "delegating" => IsDelegation(world, r.wellKnown)
    /\ r.pc = "redirected" => r.host \in DOMAIN world.dns

\* A result that this call found itself, not in the cache.
FreshOK(r) ==
    r.fresh => r.result = Modern(world, r.wellKnown) /\ IsDelegation(world, r.wellKnown)

IsOutcome(o) == o \in {Error, Exception, Response} \cup {world.wellKnown[h] : h \in DOMAIN world.dns}

RaceOK(r, tasks, outcomes) ==
    /\ r.pc \notin Racing \cup {"stuck", "cancelled"} => tasks = {}
    /\ r.pc \notin {"wellKnown", "connecting"} => outcomes = {}
    /\ r.pc = "wellKnown" => /\ \A a \in tasks : a.host \in DOMAIN world.dns
                             /\ \A o \in outcomes : IsOutcome(o)

CallOK(r, tasks, outcomes) == IsCall(r) /\ LookupOK(r) /\ FreshOK(r) /\ RaceOK(r, tasks, outcomes)

SlotsOK ==
    /\ discovered # NoEntry =>
        /\ discovered = [value |-> discovered.value, expired |-> discovered.expired]
        /\ discovered.expired \in BOOLEAN
        /\ IsResult(discovered.value) /\ discovered.value.outcome \in {"found", "error"}
    /\ delegations # NoEntry =>
        /\ delegations = [value |-> delegations.value, expired |-> delegations.expired]
        /\ delegations.expired \in BOOLEAN
        /\ IsDelegation(world, delegations.value)

Shape ==
    /\ world \in Worlds
    /\ call = [c \in Callers |-> call[c]]
    /\ running = [c \in Callers |-> running[c]]
    /\ done = [c \in Callers |-> done[c]]
    /\ asks \in 0..world.requests
    /\ expiries \in 0..MaxExpiries

IInv == Shape /\ SlotsOK /\ \A c \in Callers : CallOK(call[c], running[c], done[c])

-----------------------------------------------------------------------------
(***************************************************************************)
(* What the steps have in common.                                          *)
(***************************************************************************)
LEMMA OverOK ==
    ASSUME NEW pc \in {"idle", "stuck", "ended", "raised", "cancelled"}, NEW tasks, pc # "cancelled" => tasks = {}
    PROVE  CallOK(Over(pc), tasks, {})
<1>1. PICK r : r = Over(pc)
  OBVIOUS
<1>2. r = [pc |-> pc, diagnose |-> FALSE, host |-> ServerName.host, tried |-> {},
           wellKnown |-> NoDelegation, fresh |-> FALSE, result |-> Nowhere("none")]
  BY <1>1 DEF Over, Idle
<1>3. r.pc = pc /\ r.fresh = FALSE /\ r.result.outcome = "none" /\ r.result.at = {}
  BY <1>2 DEF Nowhere
<1>4. IsCall(r)
  BY <1>2, <1>3 DEF IsCall, IsResult
<1>5. LookupOK(r) /\ FreshOK(r) /\ RaceOK(r, tasks, {})
  BY <1>3 DEF LookupOK, FreshOK, RaceOK
<1> QED
  BY <1>1, <1>4, <1>5 DEF CallOK

LEMMA IdleOK == CallOK(Idle, {}, {})
  BY DEF CallOK, IsCall, IsResult, LookupOK, FreshOK, RaceOK, Idle, Nowhere, Busy, Racing

LEMMA InitIInv == Init => IInv
<1> SUFFICES ASSUME Init PROVE IInv
  OBVIOUS
<1>1. Shape
  BY DiscoveryAssumption DEF Init, Shape, IsWorld
<1>2. SlotsOK
  BY DEF Init, SlotsOK
<1>3. ASSUME NEW c \in Callers PROVE call[c] = Idle /\ running[c] = {} /\ done[c] = {}
  BY DEF Init
<1>4. \A c \in Callers : CallOK(call[c], running[c], done[c])
  BY <1>3, IdleOK
<1> QED
  BY <1>1, <1>2, <1>4 DEF IInv

\* A step of one caller: the invariant follows from what it does to the caller's
\* own state and to the slots.
LEMMA StepIInv ==
    ASSUME IInv, world' = world, NEW c \in Callers, NEW r, NEW tasks, NEW outcomes,
           call' = [call EXCEPT ![c] = r] \/ (r = call[c] /\ call' = call),
           running' = [running EXCEPT ![c] = tasks] \/ (tasks = running[c] /\ running' = running),
           done' = [done EXCEPT ![c] = outcomes] \/ (outcomes = done[c] /\ done' = done),
           CallOK(r, tasks, outcomes), SlotsOK',
           asks' = asks \/ (asks < world.requests /\ asks' = asks + 1),
           expiries' = expiries
    PROVE  IInv'
<1>1. Shape'
  BY DiscoveryAssumption DEF IInv, Shape, IsWorld
<1>2. ASSUME NEW d \in Callers
      PROVE  CallOK(call'[d], running'[d], done'[d])
  BY DEF IInv, Shape
<1>3. ASSUME NEW s, NEW t, NEW o PROVE CallOK(s, t, o)' = CallOK(s, t, o)
  BY DEF CallOK, IsCall, LookupOK, FreshOK, RaceOK, IsOutcome, ServerName
<1>4. \A d \in Callers : CallOK(call[d], running[d], done[d])'
  BY <1>2 DEF CallOK, LookupOK, FreshOK, RaceOK, IsOutcome, ServerName
<1> QED
  BY <1>1, <1>4 DEF IInv

LEMMA SlotsUnchanged ==
    ASSUME IInv, world' = world, UNCHANGED caches
    PROVE  SlotsOK'
  BY DEF IInv, caches, SlotsOK

LEMMA DelegationStored ==
    ASSUME IInv, world' = world, NEW outcome, NEW wellKnown, IsDelegation(world, wellKnown),
           StoreDelegation(outcome, wellKnown), discovered' = discovered
    PROVE  SlotsOK'
<1>1. CASE outcome = "absent"
  BY <1>1 DEF IInv, SlotsOK, StoreDelegation
<1>2. CASE outcome # "absent"
  <2>1. delegations' = Entry(wellKnown)
    BY <1>2 DEF StoreDelegation
  <2> QED
    BY <2>1 DEF IInv, SlotsOK, Entry
<1> QED
  BY <1>1, <1>2

LEMMA DelegationServed ==
    ASSUME IInv, world' = world, delegations' = Kept(delegations), discovered' = discovered
    PROVE  SlotsOK'
  BY DEF IInv, SlotsOK, Kept

LEMMA DiscoveryServed ==
    ASSUME IInv, world' = world, discovered' = Kept(discovered), delegations' = delegations
    PROVE  SlotsOK'
  BY DEF IInv, SlotsOK, Kept

\* The connection tasks start on what was found, and on nothing else.
LEMMA ConnectOK ==
    ASSUME NEW new, IsCall(new), FreshOK(new), NEW r,
           r = [new EXCEPT !.pc = IF new.result.outcome = "found" THEN "connecting" ELSE "ended"]
    PROVE  CallOK(r, Tasks(OnlyV4(new.result.at)), {})
<1>1. r = [pc |-> r.pc, diagnose |-> new.diagnose, host |-> new.host, tried |-> new.tried,
           wellKnown |-> new.wellKnown, fresh |-> new.fresh, result |-> new.result]
  BY DEF IsCall
<1>2. r.pc = IF new.result.outcome = "found" THEN "connecting" ELSE "ended"
  BY DEF IsCall
<1>3. IsCall(r)
  BY <1>1, <1>2 DEF IsCall, Busy, Racing
<1>4. LookupOK(r) /\ FreshOK(r)
  BY <1>1, <1>2 DEF LookupOK, FreshOK
<1>5. r.pc = "ended" => Tasks(OnlyV4(new.result.at)) = {}
  BY <1>2 DEF IsCall, IsResult, Tasks, OnlyV4
<1>6. RaceOK(r, Tasks(OnlyV4(new.result.at)), {})
  BY <1>2, <1>5 DEF RaceOK, Racing
<1> QED
  BY <1>3, <1>4, <1>6 DEF CallOK

LEMMA DiscoverIInv ==
    ASSUME IInv, world' = world, NEW c \in Callers, NEW new, IsCall(new),
           new.result = Modern(world, new.wellKnown), IsDelegation(world, new.wellKnown),
           running[c] = {}, done[c] = {}, done' = done, delegations' = delegations,
           Discover(c, new),
           asks' = asks \/ (asks < world.requests /\ asks' = asks + 1),
           expiries' = expiries
    PROVE  IInv'
<1>1. PICK found : found = [new EXCEPT !.fresh = TRUE]
  OBVIOUS
<1>2. /\ found = [pc |-> new.pc, diagnose |-> new.diagnose, host |-> new.host, tried |-> new.tried,
                  wellKnown |-> new.wellKnown, fresh |-> TRUE, result |-> new.result]
      /\ IsCall(found) /\ FreshOK(found)
  BY <1>1 DEF IsCall, FreshOK
<1>3. CASE new.result.outcome = "raised"
  <2>1. PICK r : r = [new EXCEPT !.pc = "raised", !.fresh = TRUE]
    OBVIOUS
  <2>2. r = [pc |-> "raised", diagnose |-> new.diagnose, host |-> new.host, tried |-> new.tried,
             wellKnown |-> new.wellKnown, fresh |-> TRUE, result |-> new.result]
    BY <2>1 DEF IsCall
  <2>3. CallOK(r, {}, {})
    BY <2>2 DEF CallOK, IsCall, LookupOK, FreshOK, RaceOK
  <2>4. call' = [call EXCEPT ![c] = r] /\ UNCHANGED <<discovered, running>>
    BY <1>3, <2>1 DEF Discover
  <2>5. SlotsOK'
    BY <2>4, SlotsUnchanged DEF caches
  <2> QED
    BY <2>3, <2>4, <2>5, StepIInv
<1>4. CASE new.result.outcome # "raised"
  <2>1. PICK r : r = [found EXCEPT !.pc = IF found.result.outcome = "found" THEN "connecting"
                                         ELSE "ended"]
    OBVIOUS
  <2>2. CallOK(r, Tasks(OnlyV4(found.result.at)), {})
    BY <1>2, <2>1, ConnectOK
  <2>3. /\ call' = [call EXCEPT ![c] = r]
        /\ running' = [running EXCEPT ![c] = Tasks(OnlyV4(found.result.at))]
        /\ discovered' = Entry(new.result)
    BY <1>1, <1>4, <2>1 DEF Discover, Connect
  <2>4. new.result.outcome \in {"found", "error"} /\ IsResult(new.result)
    BY <1>4, ModernIsResult DEF IsResult
  <2>5. SlotsOK'
    BY <2>3, <2>4 DEF IInv, SlotsOK, Entry
  <2> QED
    BY <2>2, <2>3, <2>5, StepIInv
<1> QED
  BY <1>3, <1>4

\* A lookup goes on, with what it knows by then.
LEMMA MovedOK ==
    ASSUME IInv, NEW c \in Callers, call[c].pc \in {"resolving", "wellKnown", "redirected"},
           ~ModernStepTwoEnds(world, ServerName),
           NEW pc \in {"wellKnown", "redirected", "delegating", "raised"},
           NEW wellKnown, IsDelegation(world, wellKnown),
           pc # "delegating" => wellKnown = NoDelegation,
           NEW host, pc = "redirected" => host \in DOMAIN world.dns,
           NEW tried, NEW tasks, pc # "wellKnown" => tasks = {},
           \A a \in tasks : a.host \in DOMAIN world.dns,
           NEW r, r = [pc |-> pc, diagnose |-> call[c].diagnose, host |-> host, tried |-> tried,
                       wellKnown |-> wellKnown, fresh |-> call[c].fresh,
                       result |-> call[c].result]
    PROVE  CallOK(r, tasks, {})
<1>1. CallOK(call[c], running[c], done[c])
  BY DEF IInv
<1>2. ~call[c].fresh /\ ServerName.host \notin Literals /\ IsResult(call[c].result)
  BY <1>1 DEF CallOK, LookupOK, IsCall
<1>3. /\ r.pc = pc /\ r.wellKnown = wellKnown /\ r.host = host
      /\ r.fresh = call[c].fresh /\ r.result = call[c].result
  OBVIOUS
<1>4. IsCall(r)
  BY <1>2, <1>3 DEF IsCall, Busy, Racing
<1>5. LookupOK(r) /\ FreshOK(r)
  BY <1>2, <1>3 DEF LookupOK, FreshOK
<1>6. RaceOK(r, tasks, {})
  BY <1>3 DEF RaceOK, Racing
<1> QED
  BY <1>4, <1>5, <1>6 DEF CallOK

LEMMA HostsOfTasks == \A host : \A a \in V4(host) : a.host = host
<1> SUFFICES ASSUME NEW host, NEW a \in V4(host) PROVE a.host = host
  OBVIOUS
<1>1. PICK f : a = [host |-> host, family |-> f]
  BY DEF V4, Addresses
<1> QED
  BY <1>1

LEMMA NameIsInDns == IInv /\ ServerName.host \notin Literals => ServerName.host \in DOMAIN world.dns
  BY DiscoveryAssumption DEF IInv, Shape, IsWorld, ServerName, Split, Name

LEMMA LegacyIsResult == \A w, name, wellKnown : IsResult(LegacyDelegation(w, name, wellKnown))
<1>1. /\ \A host, str, sni : IsResult(LegacyLiteral(host, str, sni))
      /\ \A w, host, str : IsResult(LegacyWithPort(w, host, str))
      /\ \A w, host : IsResult(LegacyWithoutPort(w, host))
  <2>1. \A host, str, sni : IsResult(LegacyLiteral(host, str, sni))
    BY DEF LegacyLiteral, IsResult, Found
  <2>2. \A w, host, str : IsResult(LegacyWithPort(w, host, str))
    BY DEF LegacyWithPort, IsResult, Found
  <2>3. \A w, host : IsResult(LegacyWithoutPort(w, host))
    BY DEF LegacyWithoutPort, IsResult, Found
  <2> QED
    BY <2>1, <2>2, <2>3
<1>2. \A w, host, str : IsResult(LegacyDelegated(w, host, str))
  BY <1>1 DEF LegacyDelegated
<1> QED
  BY <1>1, <1>2 DEF LegacyDelegation

-----------------------------------------------------------------------------
(***************************************************************************)
(* One lemma per action.                                                   *)
(***************************************************************************)
LEMMA AskCachedIInv == ASSUME IInv, NEW c \in Callers, AskCached(c) PROVE IInv'
<1>1. PICK new : new = [Idle EXCEPT !.result = discovered.value]
  OBVIOUS
<1>2. new = [pc |-> "idle", diagnose |-> FALSE, host |-> ServerName.host, tried |-> {},
             wellKnown |-> NoDelegation, fresh |-> FALSE, result |-> discovered.value]
  BY <1>1 DEF Idle
<1>3. /\ discovered # NoEntry /\ discovered' = Kept(discovered)
      /\ Connect(c, new) /\ UNCHANGED <<world, delegations, done, expiries>>
      /\ call[c].pc \in {"idle", "ended", "raised"}
      /\ asks < world.requests /\ asks' = asks + 1
  BY <1>1 DEF AskCached, Begin
<1>4. IsCall(new) /\ FreshOK(new)
  BY <1>2, <1>3 DEF IInv, SlotsOK, IsCall, FreshOK
<1>5. PICK r : r = [new EXCEPT !.pc = IF new.result.outcome = "found" THEN "connecting" ELSE "ended"]
  OBVIOUS
<1>6. CallOK(r, Tasks(OnlyV4(new.result.at)), {})
  BY <1>4, <1>5, ConnectOK
<1>7. /\ call' = [call EXCEPT ![c] = r]
      /\ running' = [running EXCEPT ![c] = Tasks(OnlyV4(new.result.at))]
  BY <1>3, <1>5 DEF Connect
<1>8. done[c] = {}
  BY <1>3 DEF IInv, CallOK, RaceOK
<1>9. SlotsOK'
  BY <1>3, DiscoveryServed
<1> QED
  BY <1>3, <1>6, <1>7, <1>8, <1>9, StepIInv

LEMMA AskFreshIInv == ASSUME IInv, NEW c \in Callers, AskFresh(c) PROVE IInv'
<1>1. PICK diagnose \in BOOLEAN :
        /\ discovered = NoEntry \/ diagnose
        /\ LET new == [Idle EXCEPT !.diagnose = diagnose]
           IN  IF ServerName.host \in Literals
               THEN Discover(c, [new EXCEPT !.result = ModernLiteral(ServerName)])
               ELSE /\ call' = [call EXCEPT ![c] = [new EXCEPT !.pc = "resolving"]]
                    /\ discovered' = Kept(discovered)
                    /\ UNCHANGED running
  BY DEF AskFresh
<1>2. /\ UNCHANGED <<world, delegations, done, expiries>>
      /\ call[c].pc \in {"idle", "ended", "raised"} /\ running[c] = {}
      /\ asks < world.requests /\ asks' = asks + 1
  BY DEF AskFresh, Begin
<1>3. done[c] = {}
  BY <1>2 DEF IInv, CallOK, RaceOK
<1>4. CASE ServerName.host \in Literals
  <2>1. PICK new : new = [[Idle EXCEPT !.diagnose = diagnose] EXCEPT !.result = ModernLiteral(ServerName)]
    OBVIOUS
  <2>2. new = [pc |-> "idle", diagnose |-> diagnose, host |-> ServerName.host, tried |-> {},
               wellKnown |-> NoDelegation, fresh |-> FALSE, result |-> ModernLiteral(ServerName)]
    BY <2>1 DEF Idle
  <2>3. new.result = Modern(world, new.wellKnown) /\ IsDelegation(world, new.wellKnown)
    BY <1>4, <2>2 DEF Modern, IsDelegation, ServerName
  <2>4. IsCall(new)
    BY <2>2, <2>3, ModernIsResult DEF IsCall
  <2>5. Discover(c, new)
    BY <1>1, <1>4, <2>1
  <2> QED
    BY <1>2, <1>3, <2>3, <2>4, <2>5, DiscoverIInv
<1>5. CASE ServerName.host \notin Literals
  <2>1. PICK r : r = [[Idle EXCEPT !.diagnose = diagnose] EXCEPT !.pc = "resolving"]
    OBVIOUS
  <2>2. r = [pc |-> "resolving", diagnose |-> diagnose, host |-> ServerName.host, tried |-> {},
             wellKnown |-> NoDelegation, fresh |-> FALSE, result |-> Nowhere("none")]
    BY <2>1 DEF Idle
  <2>3. CallOK(r, {}, {})
    <3>1. IsCall(r)
      BY <2>2 DEF IsCall, IsResult, Nowhere, Busy, Racing
    <3> QED
      BY <1>5, <2>2, <3>1 DEF CallOK, LookupOK, FreshOK, RaceOK
  <2>4. /\ call' = [call EXCEPT ![c] = r] /\ discovered' = Kept(discovered)
        /\ UNCHANGED running
    BY <1>1, <1>5, <2>1
  <2>5. SlotsOK'
    BY <1>2, <2>4 DEF IInv, SlotsOK, Kept
  <2> QED
    BY <1>2, <1>3, <2>3, <2>4, <2>5, StepIInv
<1> QED
  BY <1>4, <1>5

\* The two ends of _discover_server after an await: step 2, and steps 3.1 to 6.
LEMMA EndOfDiscoveryIInv ==
    ASSUME IInv, NEW c \in Callers, StepTwo(c) \/ Delegated(c)
    PROVE  IInv'
<1>1. PICK result : /\ Discover(c, [call[c] EXCEPT !.result = result])
                    /\ result = Modern(world, call[c].wellKnown)
                    /\ IsDelegation(world, call[c].wellKnown)
                    /\ call[c].pc \in {"resolving", "delegating"}
                    /\ UNCHANGED <<world, delegations, done, counters>>
  <2>1. CASE StepTwo(c)
    <3>1. /\ call[c].pc = "resolving" /\ ModernStepTwoEnds(world, ServerName)
          /\ Discover(c, [call[c] EXCEPT !.result = ModernStepTwo(world, ServerName)])
          /\ UNCHANGED <<world, delegations, done, counters>>
      BY <2>1 DEF StepTwo
    <3>2. ServerName.host \notin Literals /\ call[c].wellKnown = NoDelegation
      BY <3>1 DEF IInv, CallOK, LookupOK
    <3>3. ModernStepTwo(world, ServerName) = Modern(world, call[c].wellKnown)
      BY <3>1, <3>2 DEF Modern, ServerName
    <3> QED
      BY <3>1, <3>2, <3>3 DEF IsDelegation
  <2>2. CASE Delegated(c)
    <3>1. /\ call[c].pc = "delegating"
          /\ Discover(c, [call[c] EXCEPT
                !.result = ModernAfterWellKnown(world, ServerName, call[c].wellKnown)])
          /\ UNCHANGED <<world, delegations, done, counters>>
      BY <2>2 DEF Delegated
    <3>2. /\ ServerName.host \notin Literals /\ ~ModernStepTwoEnds(world, ServerName)
          /\ IsDelegation(world, call[c].wellKnown)
      BY <3>1 DEF IInv, CallOK, LookupOK
    <3>3. ModernAfterWellKnown(world, ServerName, call[c].wellKnown) = Modern(world, call[c].wellKnown)
      BY <3>2 DEF Modern, ServerName
    <3> QED
      BY <3>1, <3>2, <3>3
  <2> QED
    BY <2>1, <2>2
<1>2. IsCall(call[c]) /\ running[c] = {} /\ done[c] = {}
  BY <1>1 DEF IInv, CallOK, RaceOK, Racing
<1>3. PICK new : new = [call[c] EXCEPT !.result = result]
  OBVIOUS
<1>4. new = [pc |-> call[c].pc, diagnose |-> call[c].diagnose, host |-> call[c].host,
             tried |-> call[c].tried, wellKnown |-> call[c].wellKnown, fresh |-> call[c].fresh,
             result |-> result]
  BY <1>2, <1>3 DEF IsCall
<1>5. IsCall(new)
  BY <1>1, <1>2, <1>4, ModernIsResult DEF IsCall
<1> QED
  BY <1>1, <1>2, <1>3, <1>4, <1>5, DiscoverIInv DEF counters

LEMMA WellKnownCachedIInv == ASSUME IInv, NEW c \in Callers, WellKnownCached(c) PROVE IInv'
<1>1. /\ call[c].pc = "resolving" /\ ~ModernStepTwoEnds(world, ServerName)
      /\ delegations # NoEntry /\ delegations' = Kept(delegations)
      /\ call' = [call EXCEPT ![c].pc = "delegating", ![c].wellKnown = delegations.value]
      /\ UNCHANGED <<world, discovered, running, done, counters>>
  BY DEF WellKnownCached
<1>2. IsCall(call[c]) /\ running[c] = {} /\ done[c] = {}
  BY <1>1 DEF IInv, CallOK, RaceOK, Racing
<1>3. PICK r : r = [call[c] EXCEPT !.pc = "delegating", !.wellKnown = delegations.value]
  OBVIOUS
<1>4. call' = [call EXCEPT ![c] = r]
  BY <1>1, <1>2, <1>3 DEF IInv, Shape, IsCall
<1>5. r = [pc |-> "delegating", diagnose |-> call[c].diagnose, host |-> call[c].host,
           tried |-> call[c].tried, wellKnown |-> delegations.value, fresh |-> call[c].fresh,
           result |-> call[c].result]
  BY <1>2, <1>3 DEF IsCall
<1>6. IsDelegation(world, delegations.value)
  BY <1>1 DEF IInv, SlotsOK
<1>7. CallOK(r, {}, {})
  BY <1>1, <1>5, <1>6, MovedOK
<1>8. SlotsOK'
  BY <1>1, DelegationServed
<1> QED
  BY <1>1, <1>2, <1>4, <1>7, <1>8, StepIInv DEF counters

LEMMA AskWellKnownIInv == ASSUME IInv, NEW c \in Callers, AskWellKnown(c) PROVE IInv'
<1>1. /\ call[c].pc = "resolving" /\ ~ModernStepTwoEnds(world, ServerName)
      /\ call' = [call EXCEPT ![c].pc = "wellKnown"]
      /\ running' = [running EXCEPT ![c] = V4(ServerName.host)]
      /\ UNCHANGED <<world, caches, done, counters>>
  BY DEF AskWellKnown
<1>2. /\ IsCall(call[c]) /\ done[c] = {} /\ call[c].wellKnown = NoDelegation
      /\ ServerName.host \notin Literals
  BY <1>1 DEF IInv, CallOK, RaceOK, LookupOK
<1>3. PICK r : r = [call[c] EXCEPT !.pc = "wellKnown"]
  OBVIOUS
<1>4. call' = [call EXCEPT ![c] = r]
  BY <1>1, <1>2, <1>3 DEF IInv, Shape, IsCall
<1>5. r = [pc |-> "wellKnown", diagnose |-> call[c].diagnose, host |-> call[c].host,
           tried |-> call[c].tried, wellKnown |-> NoDelegation, fresh |-> call[c].fresh,
           result |-> call[c].result]
  BY <1>2, <1>3 DEF IsCall
<1>6. \A a \in V4(ServerName.host) : a.host \in DOMAIN world.dns
  BY <1>2, HostsOfTasks, NameIsInDns
<1>7. CallOK(r, V4(ServerName.host), {})
  BY <1>1, <1>5, <1>6, MovedOK DEF IsDelegation
<1>8. SlotsOK'
  BY <1>1, SlotsUnchanged
<1> QED
  BY <1>1, <1>2, <1>4, <1>7, <1>8, StepIInv DEF counters

LEMMA WellKnownAnsweredIInv == ASSUME IInv, NEW c \in Callers, WellKnownAnswered(c) PROVE IInv'
<1>1. PICK outcome \in done[c] :
        /\ call[c].pc = "wellKnown"
        /\ RaceOver(c, outcome)
        /\ LET name == IF outcome.kind = "answer" THEN outcome.name ELSE NoDelegation
           IN  /\ StoreDelegation(outcome.kind, name)
               /\ call' = [call EXCEPT ![c].pc = "delegating", ![c].wellKnown = name]
        /\ UNCHANGED <<world, discovered, counters>>
  BY DEF WellKnownAnswered
<1>2. PICK name : /\ name = (IF outcome.kind = "answer" THEN outcome.name ELSE NoDelegation)
                  /\ StoreDelegation(outcome.kind, name)
                  /\ call' = [call EXCEPT ![c].pc = "delegating", ![c].wellKnown = name]
  BY <1>1
<1>3. IsCall(call[c]) /\ ~ModernStepTwoEnds(world, ServerName) /\ IsOutcome(outcome)
  BY <1>1 DEF IInv, CallOK, LookupOK, RaceOK
<1>4. IsDelegation(world, name)
  <2>1. CASE outcome.kind = "answer"
    <3>1. PICK h \in DOMAIN world.dns : outcome = world.wellKnown[h]
      BY <1>3, <2>1 DEF IsOutcome, Error, Exception, Response
    <3> QED
      BY <1>2, <2>1, <3>1, DiscoveryAssumption DEF IInv, Shape, IsWorld, IsDelegation
  <2>2. CASE outcome.kind # "answer"
    BY <1>2, <2>2 DEF IsDelegation
  <2> QED
    BY <2>1, <2>2
<1>5. PICK r : r = [call[c] EXCEPT !.pc = "delegating", !.wellKnown = name]
  OBVIOUS
<1>6. call' = [call EXCEPT ![c] = r]
  BY <1>2, <1>3, <1>5 DEF IInv, Shape, IsCall
<1>7. r = [pc |-> "delegating", diagnose |-> call[c].diagnose, host |-> call[c].host,
           tried |-> call[c].tried, wellKnown |-> name, fresh |-> call[c].fresh,
           result |-> call[c].result]
  BY <1>3, <1>5 DEF IsCall
<1>8. CallOK(r, {}, {})
  BY <1>1, <1>3, <1>4, <1>7, MovedOK
<1>9. SlotsOK'
  BY <1>1, <1>2, <1>4, DelegationStored
<1> QED
  BY <1>1, <1>6, <1>8, <1>9, StepIInv DEF RaceOver, counters

\* The well-known request fails, by an error, a circle of redirects or a target
\* that does not resolve: the failure is stored and the lookup goes on.
LEMMA WellKnownFailsIInv ==
    ASSUME IInv, NEW c \in Callers, call[c].pc \in {"wellKnown", "redirected"}, WellKnownFails(c),
           running' = [running EXCEPT ![c] = {}] \/ (running[c] = {} /\ running' = running),
           done' = [done EXCEPT ![c] = {}] \/ (done[c] = {} /\ done' = done),
           UNCHANGED <<world, discovered, counters>>
    PROVE  IInv'
<1>1. /\ StoreDelegation("unusable", NoDelegation)
      /\ call' = [call EXCEPT ![c].pc = "delegating"]
  BY DEF WellKnownFails
<1>2. /\ IsCall(call[c]) /\ ~ModernStepTwoEnds(world, ServerName)
      /\ call[c].wellKnown = NoDelegation
  BY DEF IInv, CallOK, LookupOK
<1>3. PICK r : r = [call[c] EXCEPT !.pc = "delegating"]
  OBVIOUS
<1>4. call' = [call EXCEPT ![c] = r]
  BY <1>1, <1>2, <1>3 DEF IInv, Shape, IsCall
<1>5. r = [pc |-> "delegating", diagnose |-> call[c].diagnose, host |-> call[c].host,
           tried |-> call[c].tried, wellKnown |-> NoDelegation, fresh |-> call[c].fresh,
           result |-> call[c].result]
  BY <1>2, <1>3 DEF IsCall
<1>6. CallOK(r, {}, {})
  BY <1>2, <1>5, MovedOK DEF IsDelegation
<1>7. SlotsOK'
  BY <1>1, DelegationStored DEF IsDelegation
<1> QED
  BY <1>4, <1>6, <1>7, StepIInv DEF counters

LEMMA WellKnownErrorIInv == ASSUME IInv, NEW c \in Callers, WellKnownError(c) PROVE IInv'
<1>1. /\ call[c].pc = "wellKnown" /\ WellKnownFails(c)
      /\ UNCHANGED <<world, discovered, counters>>
      /\ running' = [running EXCEPT ![c] = {}] \/ (running[c] = {} /\ running' = running)
      /\ done' = [done EXCEPT ![c] = {}] \/ (done[c] = {} /\ done' = done)
  BY DEF WellKnownError, RaceOver, RaceEmpty
<1> QED
  BY <1>1, WellKnownFailsIInv

LEMMA WellKnownRedirectedIInv == ASSUME IInv, NEW c \in Callers, WellKnownRedirected(c) PROVE IInv'
<1>1. PICK outcome \in done[c] :
        /\ call[c].pc = "wellKnown" /\ outcome.kind = "redirect" /\ RaceOver(c, outcome)
        /\ \/ WellKnownFails(c)
           \/ /\ call' = [call EXCEPT ![c].pc = "redirected", ![c].host = outcome.to]
              /\ UNCHANGED delegations
        /\ UNCHANGED <<world, discovered, counters>>
  BY DEF WellKnownRedirected
<1>2. /\ IsCall(call[c]) /\ ~ModernStepTwoEnds(world, ServerName) /\ IsOutcome(outcome)
      /\ call[c].wellKnown = NoDelegation
  BY <1>1 DEF IInv, CallOK, LookupOK, RaceOK
<1>3. CASE WellKnownFails(c)
  BY <1>1, <1>3, WellKnownFailsIInv DEF RaceOver
<1>4. CASE /\ call' = [call EXCEPT ![c].pc = "redirected", ![c].host = outcome.to]
           /\ UNCHANGED delegations
  <2>1. outcome.to \in DOMAIN world.dns
    <3>1. PICK h \in DOMAIN world.dns : outcome = world.wellKnown[h]
      BY <1>1, <1>2 DEF IsOutcome, Error, Exception, Response
    <3> QED
      BY <1>1, <3>1, DiscoveryAssumption DEF IInv, Shape, IsWorld
  <2>2. PICK r : r = [call[c] EXCEPT !.pc = "redirected", !.host = outcome.to]
    OBVIOUS
  <2>3. call' = [call EXCEPT ![c] = r]
    BY <1>2, <1>4, <2>2 DEF IInv, Shape, IsCall
  <2>4. r = [pc |-> "redirected", diagnose |-> call[c].diagnose, host |-> outcome.to,
             tried |-> call[c].tried, wellKnown |-> NoDelegation, fresh |-> call[c].fresh,
             result |-> call[c].result]
    BY <1>2, <2>2 DEF IsCall
  <2>5. CallOK(r, {}, {})
    BY <1>1, <1>2, <2>1, <2>4, MovedOK DEF IsDelegation
  <2>6. SlotsOK'
    BY <1>1, <1>4, SlotsUnchanged DEF caches
  <2> QED
    BY <1>1, <2>3, <2>5, <2>6, StepIInv DEF RaceOver, counters
<1> QED
  BY <1>1, <1>3, <1>4

LEMMA RedirectResolvedIInv == ASSUME IInv, NEW c \in Callers, RedirectResolved(c) PROVE IInv'
<1>1. /\ call[c].pc = "redirected" /\ UNCHANGED <<world, discovered, done, counters>>
      /\ \/ /\ call' = [call EXCEPT ![c].pc = "wellKnown", ![c].tried = @ \cup {call[c].host}]
            /\ running' = [running EXCEPT ![c] = V4(call[c].host)]
            /\ UNCHANGED delegations
         \/ WellKnownFails(c) /\ UNCHANGED running
         \/ /\ call' = [call EXCEPT ![c].pc = "raised"]
            /\ UNCHANGED <<delegations, running>>
  BY DEF RedirectResolved
<1>2. /\ IsCall(call[c]) /\ ~ModernStepTwoEnds(world, ServerName)
      /\ call[c].wellKnown = NoDelegation /\ call[c].host \in DOMAIN world.dns
      /\ running[c] = {} /\ done[c] = {}
  BY <1>1 DEF IInv, CallOK, LookupOK, RaceOK, Racing
<1>3. CASE /\ call' = [call EXCEPT ![c].pc = "wellKnown", ![c].tried = @ \cup {call[c].host}]
           /\ running' = [running EXCEPT ![c] = V4(call[c].host)]
           /\ UNCHANGED delegations
  <2>1. PICK tried : tried = call[c].tried \cup {call[c].host}
    OBVIOUS
  <2>2. PICK r : r = [call[c] EXCEPT !.pc = "wellKnown", !.tried = tried]
    OBVIOUS
  <2>3. call' = [call EXCEPT ![c] = r]
    BY <1>2, <1>3, <2>1, <2>2 DEF IInv, Shape, IsCall
  <2>4. r = [pc |-> "wellKnown", diagnose |-> call[c].diagnose, host |-> call[c].host,
             tried |-> tried, wellKnown |-> NoDelegation, fresh |-> call[c].fresh,
             result |-> call[c].result]
    BY <1>2, <2>2 DEF IsCall
  <2>5. \A a \in V4(call[c].host) : a.host \in DOMAIN world.dns
    BY <1>2, HostsOfTasks
  <2>6. CallOK(r, V4(call[c].host), {})
    BY <1>1, <1>2, <2>4, <2>5, MovedOK DEF IsDelegation
  <2>7. SlotsOK'
    BY <1>1, <1>3, SlotsUnchanged DEF caches
  <2> QED
    BY <1>1, <1>2, <1>3, <2>3, <2>6, <2>7, StepIInv DEF counters
<1>4. CASE WellKnownFails(c) /\ UNCHANGED running
  BY <1>1, <1>2, <1>4, WellKnownFailsIInv
<1>5. CASE /\ call' = [call EXCEPT ![c].pc = "raised"]
           /\ UNCHANGED <<delegations, running>>
  <2>1. PICK r : r = [call[c] EXCEPT !.pc = "raised"]
    OBVIOUS
  <2>2. call' = [call EXCEPT ![c] = r]
    BY <1>2, <1>5, <2>1 DEF IInv, Shape, IsCall
  <2>3. r = [pc |-> "raised", diagnose |-> call[c].diagnose, host |-> call[c].host,
             tried |-> call[c].tried, wellKnown |-> NoDelegation, fresh |-> call[c].fresh,
             result |-> call[c].result]
    BY <1>2, <2>1 DEF IsCall
  <2>4. CallOK(r, {}, {})
    BY <1>1, <1>2, <2>3, MovedOK DEF IsDelegation
  <2>5. SlotsOK'
    BY <1>1, <1>5, SlotsUnchanged DEF caches
  <2> QED
    BY <1>1, <1>2, <1>5, <2>2, <2>4, <2>5, StepIInv DEF counters
<1> QED
  BY <1>1, <1>3, <1>4, <1>5

LEMMA WellKnownCommandIInv == ASSUME IInv, NEW c \in Callers, WellKnownCommand(c) PROVE IInv'
<1>1. /\ call[c].pc \in {"idle", "ended", "raised"} /\ running[c] = {}
      /\ asks < world.requests /\ asks' = asks + 1
      /\ call' = [call EXCEPT ![c] = Over("ended")]
      /\ UNCHANGED <<world, discovered, running, done, expiries>>
  BY DEF WellKnownCommand, Begin
<1>2. done[c] = {}
  BY <1>1 DEF IInv, CallOK, RaceOK
<1>3. CallOK(Over("ended"), {}, {})
  BY OverOK
<1>4. SlotsOK'
  <2>1. CASE StoreDelegation("unusable", NoDelegation)
    BY <1>1, <2>1, DelegationStored DEF IsDelegation
  <2>2. CASE /\ delegations # NoEntry /\ delegations' = Kept(delegations)
    BY <1>1, <2>2, DelegationServed
  <2> QED
    BY <2>1, <2>2 DEF WellKnownCommand
<1> QED
  BY <1>1, <1>2, <1>3, <1>4, StepIInv

\* The ends of a race, of the tests of the older discovery, and a cancellation:
\* the locals are gone, and the tasks too unless the caller was cancelled.
LEMMA OverIInv ==
    ASSUME IInv, NEW c \in Callers, Connected(c) \/ LegacyTested(c) \/ Cancelled(c)
    PROVE  IInv'
<1>1. UNCHANGED <<world, caches, counters>>
  BY DEF Connected, LegacyTested, Cancelled
<1>2. PICK pc \in {"ended", "raised", "cancelled"} : \E tasks :
        /\ call' = [call EXCEPT ![c] = Over(pc)]
        /\ running' = [running EXCEPT ![c] = tasks] \/ (tasks = running[c] /\ running' = running)
        /\ done' = [done EXCEPT ![c] = {}] \/ (done[c] = {} /\ done' = done)
        /\ pc # "cancelled" => tasks = {}
  <2>1. CASE Connected(c)
    BY <2>1 DEF Connected, RaceOver, RaceEmpty
  <2>2. CASE LegacyTested(c)
    BY <2>2 DEF LegacyTested, IInv, CallOK, RaceOK
  <2>3. CASE Cancelled(c)
    BY <2>3 DEF Cancelled
  <2> QED
    BY <2>1, <2>2, <2>3
<1>3. PICK tasks :
        /\ call' = [call EXCEPT ![c] = Over(pc)]
        /\ running' = [running EXCEPT ![c] = tasks] \/ (tasks = running[c] /\ running' = running)
        /\ done' = [done EXCEPT ![c] = {}] \/ (done[c] = {} /\ done' = done)
        /\ pc # "cancelled" => tasks = {}
  BY <1>2
<1>4. CallOK(Over(pc), tasks, {})
  BY <1>3, OverOK
<1>5. SlotsOK'
  BY <1>1, SlotsUnchanged
<1> QED
  BY <1>1, <1>3, <1>4, <1>5, StepIInv DEF counters

LEMMA StuckIInv == ASSUME IInv, NEW c \in Callers, Stuck(c) PROVE IInv'
<1>1. /\ call[c].pc \in Racing /\ done[c] = {}
      /\ call' = [call EXCEPT ![c].pc = "stuck"]
      /\ UNCHANGED <<world, caches, running, done, counters>>
  BY DEF Stuck
<1>2. CallOK(call[c], running[c], done[c])
  BY DEF IInv
<1>3. PICK r : r = [call[c] EXCEPT !.pc = "stuck"]
  OBVIOUS
<1>4. call' = [call EXCEPT ![c] = r]
  BY <1>1, <1>2, <1>3 DEF IInv, Shape, CallOK, IsCall
<1>5. r = [pc |-> "stuck", diagnose |-> call[c].diagnose, host |-> call[c].host,
           tried |-> call[c].tried, wellKnown |-> call[c].wellKnown, fresh |-> call[c].fresh,
           result |-> call[c].result]
  BY <1>2, <1>3 DEF CallOK, IsCall
<1>6. IsCall(r) /\ LookupOK(r) /\ FreshOK(r)
  BY <1>2, <1>5 DEF CallOK, IsCall, LookupOK, FreshOK
<1>7. RaceOK(r, running[c], {})
  BY <1>5 DEF RaceOK
<1>8. SlotsOK'
  BY <1>1, SlotsUnchanged
<1> QED
  BY <1>1, <1>4, <1>6, <1>7, <1>8, StepIInv DEF CallOK, counters

LEMMA QueryLostIInv == ASSUME IInv, NEW c \in Callers, QueryLost(c) PROVE IInv'
<1>1. /\ UNCHANGED <<world, caches, call, running, done>> /\ expiries' = expiries
      /\ asks' = asks \/ (asks < world.requests /\ asks' = asks + 1)
  BY DEF QueryLost, Begin, counters
<1>2. CallOK(call[c], running[c], done[c])
  BY DEF IInv
<1>3. SlotsOK'
  BY <1>1, SlotsUnchanged
<1> QED
  BY <1>1, <1>2, <1>3, StepIInv

LEMMA LegacyAskIInv == ASSUME IInv, NEW c \in Callers, LegacyAsk(c) PROVE IInv'
<1>1. PICK result : result = LegacyDelegation(world, world.name, NoDelegation)
  OBVIOUS
<1>2. PICK r : r = [Idle EXCEPT !.pc = "testing", !.result = result]
  OBVIOUS
<1>3. /\ call[c].pc \in {"idle", "ended", "raised"}
      /\ asks < world.requests /\ asks' = asks + 1
      /\ call' = [call EXCEPT ![c] = r]
      /\ running' = [running EXCEPT ![c] = Tasks(result.at)]
      /\ UNCHANGED <<world, caches, done, expiries>>
  BY <1>1, <1>2 DEF LegacyAsk, Begin
<1>4. r = [pc |-> "testing", diagnose |-> FALSE, host |-> ServerName.host, tried |-> {},
           wellKnown |-> NoDelegation, fresh |-> FALSE, result |-> result]
  BY <1>2 DEF Idle
<1>5. IsCall(r)
  BY <1>1, <1>4, LegacyIsResult DEF IsCall, Busy, Racing
<1>6. CallOK(r, Tasks(result.at), {})
  BY <1>4, <1>5 DEF CallOK, LookupOK, FreshOK, RaceOK, Racing
<1>7. done[c] = {}
  BY <1>3 DEF IInv, CallOK, RaceOK
<1>8. SlotsOK'
  BY <1>3, SlotsUnchanged
<1> QED
  BY <1>3, <1>6, <1>7, <1>8, StepIInv

LEMMA TaskEndsIInv ==
    ASSUME IInv, NEW c \in Callers, TaskEnds(c) \/ TaskEndsUnread(c)
    PROVE  IInv'
<1>1. UNCHANGED <<world, caches, call, counters>>
  BY DEF TaskEnds, TaskEndsUnread
<1>2. CallOK(call[c], running[c], done[c])
  BY DEF IInv
<1>3. PICK tasks, outcomes :
        /\ running' = [running EXCEPT ![c] = tasks] /\ tasks \subseteq running[c]
        /\ done' = [done EXCEPT ![c] = outcomes] \/ (outcomes = done[c] /\ done' = done)
        /\ CallOK(call[c], tasks, outcomes)
  <2>1. CASE TaskEnds(c)
    <3>1. PICK a \in running[c] : \E outcome \in Outcomes(c, a) :
            /\ running' = [running EXCEPT ![c] = @ \ {a}]
            /\ done' = [done EXCEPT ![c] = @ \cup {outcome}]
      BY <2>1 DEF TaskEnds
    <3>2. PICK outcome \in Outcomes(c, a) :
            /\ running' = [running EXCEPT ![c] = running[c] \ {a}]
            /\ done' = [done EXCEPT ![c] = done[c] \cup {outcome}]
      BY <3>1
    <3>3. call[c].pc \in {"wellKnown", "connecting"}
      BY <2>1 DEF TaskEnds
    <3>4. call[c].pc = "wellKnown" => IsOutcome(outcome)
      BY <1>2, <3>2 DEF CallOK, RaceOK, Outcomes, IsOutcome
    <3>5. RaceOK(call[c], running[c] \ {a}, done[c] \cup {outcome})
      BY <1>2, <3>3, <3>4 DEF CallOK, RaceOK
    <3> QED
      BY <1>2, <3>2, <3>5 DEF CallOK
  <2>2. CASE TaskEndsUnread(c)
    <3>1. PICK a \in running[c] : running' = [running EXCEPT ![c] = running[c] \ {a}]
      BY <2>2 DEF TaskEndsUnread
    <3>2. done' = done
      BY <2>2 DEF TaskEndsUnread
    <3>3. RaceOK(call[c], running[c] \ {a}, done[c])
      BY <1>2 DEF CallOK, RaceOK
    <3> QED
      BY <1>2, <3>1, <3>2, <3>3 DEF CallOK
  <2> QED
    BY <2>1, <2>2
<1>4. SlotsOK'
  BY <1>1, SlotsUnchanged
<1> QED
  BY <1>1, <1>3, <1>4, StepIInv DEF counters

LEMMA SameCalls ==
    ASSUME IInv, UNCHANGED <<world, call, running, done>>
    PROVE  \A c \in Callers : CallOK(call[c], running[c], done[c])'
  BY DEF IInv, CallOK, IsCall, LookupOK, FreshOK, RaceOK, IsOutcome, ServerName

LEMMA ExpireIInv == ASSUME IInv, Expire PROVE IInv'
<1>1. /\ UNCHANGED <<world, call, running, done, asks>>
      /\ expiries < MaxExpiries /\ expiries' = expiries + 1
  BY DEF Expire
<1>2. Shape'
  BY <1>1, DiscoveryAssumption DEF IInv, Shape
<1>3. SlotsOK'
  <2>1. CASE /\ discovered # NoEntry /\ ~discovered.expired
             /\ discovered' = [discovered EXCEPT !.expired = TRUE] /\ UNCHANGED delegations
    BY <1>1, <2>1 DEF IInv, SlotsOK
  <2>2. CASE /\ delegations # NoEntry /\ ~delegations.expired
             /\ delegations' = [delegations EXCEPT !.expired = TRUE] /\ UNCHANGED discovered
    BY <1>1, <2>2 DEF IInv, SlotsOK
  <2> QED
    BY <2>1, <2>2 DEF Expire
<1> QED
  BY <1>1, <1>2, <1>3, SameCalls DEF IInv

LEMMA NextIInv == IInv /\ [Next]_vars => IInv'
<1> SUFFICES ASSUME IInv, [Next]_vars PROVE IInv'
  OBVIOUS
<1>1. ASSUME NEW c \in Callers, Lookup(c) PROVE IInv'
  BY <1>1, EndOfDiscoveryIInv, WellKnownCachedIInv, AskWellKnownIInv, WellKnownAnsweredIInv,
     WellKnownErrorIInv, WellKnownRedirectedIInv, RedirectResolvedIInv, OverIInv DEF Lookup
<1>2. ASSUME UNCHANGED vars PROVE IInv'
  <2>1. UNCHANGED <<world, call, running, done, asks, expiries>> /\ UNCHANGED caches
    BY <1>2 DEF vars, caches
  <2>2. Shape'
    BY <2>1 DEF IInv, Shape
  <2> QED
    BY <2>1, <2>2, SlotsUnchanged, SameCalls DEF IInv
<1> QED
  BY <1>1, <1>2, AskCachedIInv, AskFreshIInv, LegacyAskIInv, WellKnownCommandIInv, TaskEndsIInv,
     StuckIInv, QueryLostIInv, OverIInv, ExpireIInv DEF Next, Run

LEMMA IInvIsInvariant == Spec => []IInv
  BY InitIInv, NextIInv, PTL DEF Spec

-----------------------------------------------------------------------------
(***************************************************************************)
(* The theorems.                                                           *)
(***************************************************************************)

\* Only results are cached, never an exception; a cached delegation is a name.
THEOREM TypeCorrect == Spec => []TypeOK
<1>1. IInv /\ blocked \in BOOLEAN => TypeOK
  <2> SUFFICES ASSUME IInv, blocked \in BOOLEAN PROVE TypeOK
    OBVIOUS
  <2>1. \A slot \in {discovered, delegations} \ {NoEntry} : slot.expired \in BOOLEAN
    BY DEF IInv, SlotsOK
  <2>2. /\ discovered # NoEntry => discovered.value.outcome \in {"found", "error"}
        /\ delegations # NoEntry =>
            delegations.value.host \in DOMAIN world.dns \cup Literals \cup {NoDelegation.host}
    BY DEF IInv, SlotsOK, IsDelegation
  <2>3. \A c \in Callers :
            /\ call[c].pc \in Busy \cup {"idle", "stuck", "ended", "raised", "cancelled"}
            /\ call[c].result.outcome \in {"none", "found", "error", "raised"}
    BY DEF IInv, CallOK, IsCall, IsResult
  <2> QED
    BY <2>1, <2>2, <2>3 DEF IInv, Shape, TypeOK
<1>2. Init => blocked \in BOOLEAN
  BY DEF Init
<1>3. blocked \in BOOLEAN /\ [Next]_vars => (blocked \in BOOLEAN)'
  BY DEF Next, Run, QueryLost, vars
<1> QED
  BY <1>1, <1>2, <1>3, IInvIsInvariant, PTL DEF Spec

\* The newer discovery ends where the six steps end, for every server name, every
\* DNS and every well-known answer, whatever other callers put into the caches,
\* and for the four exceptions where the property says.
THEOREM StepsFollowed == Spec => []FollowsTheSteps
<1>1. IInv => FollowsTheSteps
  <2> SUFFICES ASSUME IInv, NEW c \in Callers, call[c].fresh,
                      NEW wellKnown, wellKnown = call[c].wellKnown
               PROVE  IF TimesOut(Seen(world), wellKnown) THEN call[c].result.outcome = "raised"
                      ELSE IF TornApart(Seen(world), wellKnown) \/ Unresolvable(Seen(world), wellKnown)
                      THEN call[c].result.outcome = "error"
                      ELSE Agrees(call[c].result, Expected(Seen(world), wellKnown),
                                  world.name.host \in Literals /\ world.name.port = 0)
    BY DEF FollowsTheSteps
  <2>1. /\ call[c].result = Modern(world, wellKnown)
        /\ IsDelegation(world, wellKnown)
    BY DEF IInv, CallOK, FreshOK
  <2>2. IsWorld(world)
    BY DiscoveryAssumption DEF IInv, Shape
  <2> QED
    BY <2>1, <2>2, ModernFollowsTheSteps, ModernLeavesTheSteps
<1> QED
  BY <1>1, IInvIsInvariant, PTL

\* A race that was decided leaves no task behind, unless its caller was cancelled.
THEOREM RaceIsOver == Spec => []RaceLeavesNothing
<1>1. IInv => RaceLeavesNothing
  BY DEF IInv, CallOK, RaceOK, RaceLeavesNothing
<1> QED
  BY <1>1, IInvIsInvariant, PTL
=============================================================================
