---------------------------- MODULE Commands_proofs ----------------------------
(***************************************************************************)
(* Invariants of Commands for any room, any pool, any table and any        *)
(* directory.                                                              *)
(*                                                                         *)
(* What the scripts have in common is stated once as predicates on a       *)
(* script, and proved of each of them; the invariants only use those.      *)
(***************************************************************************)
EXTENDS Commands, TLAPS

-----------------------------------------------------------------------------
(***************************************************************************)
(* What every script observes                                              *)
(***************************************************************************)
\* Tasks are created once, and for servers that do not change any more.
SpawnsOnce(s) ==
    \A i, j \in 1..Len(s) :
        s[i].op \in {"room", "members", "targets", "spawn"} /\ j < i => s[j].op # "spawn"

\* One-off tasks are what gather waits for.
GathersTasks(s) ==
    \A i, j \in 1..Len(s) : s[i].op = "results" /\ s[j].op = "spawn" => s[j].worker.each

\* The table is made after the tasks were waited for.
WaitsFirst(s) ==
    \A i, j \in 1..Len(s) :
        s[i].op = "pages" /\ s[j].op = "spawn" /\ j < i =>
            \E k \in 1..Len(s) : j < k /\ k < i /\ s[k].op \in {"join", "results"}

\* From the set-up of a task set to its cancel() there are only these steps, and
\* there are tasks to cancel.
Cancels(s) ==
    /\ \A i \in 1..Len(s) : s[i].op \in {"setup", "spawn"} =>
        \E k \in 1..Len(s) :
            /\ i < k /\ s[k].op = "cancel"
            /\ \A j \in 1..Len(s) : i < j /\ j < k => s[j].op \in {"client", "spawn", "join", "results"}
    /\ \A k \in 1..Len(s) : s[k].op = "cancel" => \E j \in 1..Len(s) : j < k /\ s[j].op = "spawn"

\* A gather that may raise is in two commands, the patient one in one of them; a
\* client call between set-up and cancel() in a third, before its workers exist.
RaisesInBetween(c, s) ==
    \A i \in 1..Len(s) :
        /\ s[i].op = "results" => c = "head" \/ (c = "find_event" /\ s[i].patient)
        /\ s[i].op = "client" => \A j \in 1..Len(s) :
            j < i /\ s[j].op \in {"setup", "spawn"} =>
                \/ \E k \in 1..Len(s) : j < k /\ k < i /\ s[k].op = "cancel"
                \/ c = "discover" /\ \A k \in 1..Len(s) : k < i => s[k].op # "spawn"

\* What is kept gets a control later.
Keeps(step) == step.op = "pages" \/ (step.op = "say" /\ step.kept)

CleansUp(s) ==
    \A i \in 1..Len(s) : Keeps(s[i]) =>
        \E k \in 1..Len(s) : i < k /\ s[k].op = "controls"

\* Something is said for sure.
Says(step) == step.op = "say" \/ (step.op = "pages" /\ step.some)

Speaks(c, s) == c \in {"fed", "publicrooms"} \/ \E i \in 1..Len(s) : Says(s[i])

\* What signs comes after a check for the key that is made whenever it is.
Signs(step) ==
    \/ step.op \in {"room", "results", "batches"}
    \/ step.op = "ask" /\ step.signed

ChecksKey(c, s) ==
    \/ c \in {"alias", "publicrooms", "publicrooms_raw"}
    \/ \A i \in 1..Len(s) : Signs(s[i]) =>
        \E j \in 1..Len(s) :
            /\ j < i /\ s[j].op = "key"
            /\ s[j].when = "always" \/ (s[i].op = "room" /\ s[i].when = s[j].when)

WellMade(c, s) ==
    /\ Len(s) \in Nat
    /\ SpawnsOnce(s) /\ GathersTasks(s) /\ WaitsFirst(s)
    /\ Cancels(s) /\ RaisesInBetween(c, s)
    /\ CleansUp(s) /\ Speaks(c, s) /\ ChecksKey(c, s)

-----------------------------------------------------------------------------
(***************************************************************************)
(* Most scripts observe it by the kinds of their steps alone.              *)
(***************************************************************************)
Orderly(c, s) == SpawnsOnce(s) /\ WaitsFirst(s) /\ Cancels(s) /\ RaisesInBetween(c, s)

\* No gather, and what was posted gets its controls, whether or not it is kept.
Plain(s) ==
    /\ \A i \in 1..Len(s) :
        /\ s[i].op # "results"
        /\ s[i].op \in {"say", "pages"} => \E k \in 1..Len(s) : i < k /\ s[k].op = "controls"
    /\ \E i \in 1..Len(s) : s[i].op = "say"

Signing == {"ask", "room", "results", "batches"}

\* The key is checked at k, before anything is signed.
KeyFirst(s, k) ==
    /\ k \in 1..Len(s) /\ s[k].op = "key" /\ s[k].when = "always"
    /\ \A i \in 1..Len(s) : s[i].op \in Signing => k < i

\* Only get_room_data signs, right after the check at k, both for a room only.
KeyForRoom(s, k) ==
    /\ k \in 1..Len(s) /\ s[k].op = "key" /\ s[k].when = "room"
    /\ s[k + 1].op = "room" /\ s[k + 1].when = "room"
    /\ \A i \in 1..Len(s) : s[i].op \in Signing => i = k + 1

NothingSigned(s) == \A i \in 1..Len(s) : s[i].op \notin Signing

\* Each of the three ways to sign only after a check for the key.
LEMMA KeyIsChecked ==
    ASSUME NEW c, NEW s, NEW k \in Nat, Len(s) \in Nat,
           KeyFirst(s, k) \/ KeyForRoom(s, k) \/ NothingSigned(s)
    PROVE  ChecksKey(c, s)
<1>1. CASE KeyFirst(s, k)
  BY <1>1 DEF KeyFirst, ChecksKey, Signs, Signing
<1>2. CASE KeyForRoom(s, k)
  BY <1>2 DEF KeyForRoom, ChecksKey, Signs, Signing
<1>3. CASE NothingSigned(s)
  BY <1>3 DEF NothingSigned, ChecksKey, Signs, Signing
<1> QED
  BY <1>1, <1>2, <1>3

\* A plain script observes all of it.
LEMMA PlainIsWellMade ==
    ASSUME NEW c, NEW s, NEW k \in Nat, Len(s) \in Nat, Orderly(c, s), Plain(s),
           KeyFirst(s, k) \/ KeyForRoom(s, k) \/ NothingSigned(s)
    PROVE  WellMade(c, s)
<1>1. GathersTasks(s)
  BY DEF Plain, GathersTasks
<1>2. CleansUp(s)
  BY DEF Plain, CleansUp, Keeps
<1>3. Speaks(c, s)
  BY DEF Plain, Speaks, Says
<1>4. ChecksKey(c, s)
  BY KeyIsChecked
<1> QED
  BY <1>1, <1>2, <1>3, <1>4 DEF WellMade, Orderly

USE DEF Key, Room, Members, Valid, Targets, OnlyOne, Say, Remark, Client, Ask, Setup,
        Spawn, Join, Results, Cancel, Pages, Controls, Batches, Worker

\* The scripts of a few steps, all of it at once.
LEMMA ShortScripts ==
    /\ WellMade("test", TestCommand)
    /\ WellMade("fed", FedCommand)
    /\ WellMade("color", ColorCommand)
    /\ WellMade("context", ContextCommand)
    /\ WellMade("alias", AliasCommand)
    /\ WellMade("room_hosts", RoomHosts)
    /\ WellMade("demo_bar", DemoBar)
    /\ WellMade("room_version", RoomVersion)
    /\ WellMade("head_single", HeadSingle)
    /\ WellMade("event_raw", EventRaw)
    /\ WellMade("user_devices", UserDevices)
    /\ WellMade("publicrooms_raw", PublicRoomsRaw)
    /\ WellMade("publicrooms", PublicRooms)
<1>1. WellMade("test", TestCommand)
  BY DEF TestCommand, WellMade, SpawnsOnce, GathersTasks, WaitsFirst, Cancels, RaisesInBetween,
     Keeps, CleansUp, Says, Speaks, Signs, ChecksKey
<1>2. WellMade("fed", FedCommand)
  BY DEF FedCommand, WellMade, SpawnsOnce, GathersTasks, WaitsFirst, Cancels, RaisesInBetween,
     Keeps, CleansUp, Says, Speaks, Signs, ChecksKey
<1>3. WellMade("color", ColorCommand)
  BY DEF ColorCommand, WellMade, SpawnsOnce, GathersTasks, WaitsFirst, Cancels,
     RaisesInBetween, Keeps, CleansUp, Says, Speaks, Signs, ChecksKey
<1>4. WellMade("context", ContextCommand)
  BY DEF ContextCommand, WellMade, SpawnsOnce, GathersTasks, WaitsFirst, Cancels,
     RaisesInBetween, Keeps, CleansUp, Says, Speaks, Signs, ChecksKey
<1>5. WellMade("alias", AliasCommand)
  BY DEF AliasCommand, WellMade, SpawnsOnce, GathersTasks, WaitsFirst, Cancels,
     RaisesInBetween, Keeps, CleansUp, Says, Speaks, Signs, ChecksKey
<1>6. WellMade("room_hosts", RoomHosts)
  BY DEF RoomHosts, WellMade, SpawnsOnce, GathersTasks, WaitsFirst, Cancels, RaisesInBetween,
     Keeps, CleansUp, Says, Speaks, Signs, ChecksKey
<1>7. WellMade("demo_bar", DemoBar)
  BY DEF DemoBar, WellMade, SpawnsOnce, GathersTasks, WaitsFirst, Cancels, RaisesInBetween,
     Keeps, CleansUp, Says, Speaks, Signs, ChecksKey
<1>8. WellMade("room_version", RoomVersion)
  BY DEF RoomVersion, WellMade, SpawnsOnce, GathersTasks, WaitsFirst, Cancels, RaisesInBetween,
     Keeps, CleansUp, Says, Speaks, Signs, ChecksKey
<1>9. WellMade("head_single", HeadSingle)
  BY DEF HeadSingle, WellMade, SpawnsOnce, GathersTasks, WaitsFirst, Cancels, RaisesInBetween,
     Keeps, CleansUp, Says, Speaks, Signs, ChecksKey
<1>10. WellMade("event_raw", EventRaw)
  BY DEF EventRaw, WellMade, SpawnsOnce, GathersTasks, WaitsFirst, Cancels, RaisesInBetween,
     Keeps, CleansUp, Says, Speaks, Signs, ChecksKey
<1>11. WellMade("user_devices", UserDevices)
  BY DEF UserDevices, WellMade, SpawnsOnce, GathersTasks, WaitsFirst, Cancels, RaisesInBetween,
     Keeps, CleansUp, Says, Speaks, Signs, ChecksKey
<1>12. WellMade("publicrooms_raw", PublicRoomsRaw)
  BY DEF PublicRoomsRaw, WellMade, SpawnsOnce, GathersTasks, WaitsFirst, Cancels,
     RaisesInBetween, Keeps, CleansUp, Says, Speaks, Signs, ChecksKey
<1>13. WellMade("publicrooms", PublicRooms)
  BY DEF PublicRooms, WellMade, SpawnsOnce, GathersTasks, WaitsFirst, Cancels, RaisesInBetween,
     Keeps, CleansUp, Says, Speaks, Signs, ChecksKey
<1> QED
  BY <1>1, <1>2, <1>3, <1>4, <1>5, <1>6, <1>7, <1>8, <1>9, <1>10, <1>11, <1>12, <1>13

\* The longer ones without a gather.
LEMMA PlainScripts ==
    /\ WellMade("discover_event_id", DiscoverEventId)
    /\ WellMade("delegation", Delegation \o DelegationTable)
    /\ WellMade("event", EventPretty)
    /\ WellMade("state", State)
    /\ WellMade("ping", Ping)
    /\ WellMade("version", Version)
    /\ WellMade("server_keys", ServerKeys(FALSE) \o ServerKeysTable)
    /\ WellMade("server_keys_raw", ServerKeys(TRUE) \o ServerKeysTable)
    /\ WellMade("notary", NotaryKeys(FALSE) \o NotaryKeysTable)
    /\ WellMade("notary_raw", NotaryKeys(TRUE) \o NotaryKeysTable)
    /\ WellMade("backfill", Backfill)
    /\ WellMade("event_auth", EventAuth)
    /\ WellMade("wellknown", WellKnown \o WellKnownTable)
    /\ WellMade("dns", Dns)
    /\ WellMade("discover", Discover \o DiscoverTable)
<1>1. WellMade("discover_event_id", DiscoverEventId)
  <2>1. Orderly("discover_event_id", DiscoverEventId)
    BY DEF DiscoverEventId, Orderly, SpawnsOnce, WaitsFirst, Cancels, RaisesInBetween
  <2>2. Len(DiscoverEventId) \in Nat /\ Plain(DiscoverEventId) /\ KeyFirst(DiscoverEventId, 2)
    BY DEF DiscoverEventId, Plain, KeyFirst, Signing
  <2> QED
    BY <2>1, <2>2, PlainIsWellMade
<1>2. WellMade("delegation", Delegation \o DelegationTable)
  <2>1. Orderly("delegation", Delegation \o DelegationTable)
    <3>1. SpawnsOnce(Delegation \o DelegationTable) /\ WaitsFirst(Delegation \o DelegationTable)
      BY DEF Delegation, DelegationWorker, DelegationTable, SpawnsOnce, WaitsFirst
    <3>2. Cancels(Delegation \o DelegationTable)
      BY DEF Delegation, DelegationWorker, DelegationTable, Cancels
    <3>3. RaisesInBetween("delegation", Delegation \o DelegationTable)
      BY DEF Delegation, DelegationWorker, DelegationTable, RaisesInBetween
    <3> QED
      BY <3>1, <3>2, <3>3 DEF Orderly
  <2>2. /\ Len(Delegation \o DelegationTable) \in Nat
        /\ Plain(Delegation \o DelegationTable)
        /\ NothingSigned(Delegation \o DelegationTable)
    BY DEF Delegation, DelegationWorker, DelegationTable, Plain, NothingSigned, Signing
  <2> QED
    BY <2>1, <2>2, PlainIsWellMade
<1>3. WellMade("event", EventPretty)
  <2>1. Orderly("event", EventPretty)
    BY DEF EventPretty, Orderly, SpawnsOnce, WaitsFirst, Cancels, RaisesInBetween
  <2>2. Len(EventPretty) \in Nat /\ Plain(EventPretty) /\ KeyFirst(EventPretty, 2)
    BY DEF EventPretty, Plain, KeyFirst, Signing
  <2> QED
    BY <2>1, <2>2, PlainIsWellMade
<1>4. WellMade("state", State)
  <2>1. Orderly("state", State)
    BY DEF State, Orderly, SpawnsOnce, WaitsFirst, Cancels, RaisesInBetween
  <2>2. Len(State) \in Nat /\ Plain(State) /\ KeyFirst(State, 2)
    BY DEF State, Plain, KeyFirst, Signing
  <2> QED
    BY <2>1, <2>2, PlainIsWellMade
<1>5. WellMade("ping", Ping)
  <2>1. Orderly("ping", Ping)
    <3>1. SpawnsOnce(Ping) /\ WaitsFirst(Ping)
      BY DEF Ping, GetVersions, VersionWorker, SpawnsOnce, WaitsFirst
    <3>2. Cancels(Ping)
      BY DEF Ping, GetVersions, VersionWorker, Cancels
    <3>3. RaisesInBetween("ping", Ping)
      BY DEF Ping, GetVersions, VersionWorker, RaisesInBetween
    <3> QED
      BY <3>1, <3>2, <3>3 DEF Orderly
  <2>2. Len(Ping) \in Nat /\ Plain(Ping) /\ KeyForRoom(Ping, 2)
    BY DEF Ping, GetVersions, VersionWorker, Plain, KeyForRoom, Signing
  <2> QED
    BY <2>1, <2>2, PlainIsWellMade
<1>6. WellMade("version", Version)
  <2>1. Orderly("version", Version)
    <3>1. SpawnsOnce(Version) /\ WaitsFirst(Version)
      BY DEF Version, GetVersions, VersionWorker, SpawnsOnce, WaitsFirst
    <3>2. Cancels(Version)
      BY DEF Version, GetVersions, VersionWorker, Cancels
    <3>3. RaisesInBetween("version", Version)
      BY DEF Version, GetVersions, VersionWorker, RaisesInBetween
    <3> QED
      BY <3>1, <3>2, <3>3 DEF Orderly
  <2>2. Len(Version) \in Nat /\ Plain(Version) /\ KeyForRoom(Version, 2)
    BY DEF Version, GetVersions, VersionWorker, Plain, KeyForRoom, Signing
  <2> QED
    BY <2>1, <2>2, PlainIsWellMade
<1>7. WellMade("server_keys", ServerKeys(FALSE) \o ServerKeysTable)
  <2>1. Orderly("server_keys", ServerKeys(FALSE) \o ServerKeysTable)
    <3>1. /\ SpawnsOnce(ServerKeys(FALSE) \o ServerKeysTable)
          /\ WaitsFirst(ServerKeys(FALSE) \o ServerKeysTable)
      BY DEF ServerKeys, ServerKeysWorker, ServerKeysTable, SpawnsOnce, WaitsFirst
    <3>2. Cancels(ServerKeys(FALSE) \o ServerKeysTable)
      BY DEF ServerKeys, ServerKeysWorker, ServerKeysTable, Cancels
    <3>3. RaisesInBetween("server_keys", ServerKeys(FALSE) \o ServerKeysTable)
      BY DEF ServerKeys, ServerKeysWorker, ServerKeysTable, RaisesInBetween
    <3> QED
      BY <3>1, <3>2, <3>3 DEF Orderly
  <2>2. /\ Len(ServerKeys(FALSE) \o ServerKeysTable) \in Nat
        /\ Plain(ServerKeys(FALSE) \o ServerKeysTable)
        /\ KeyForRoom(ServerKeys(FALSE) \o ServerKeysTable, 2)
    BY DEF ServerKeys, ServerKeysWorker, ServerKeysTable, Plain, KeyForRoom, Signing
  <2> QED
    BY <2>1, <2>2, PlainIsWellMade
<1>8. WellMade("server_keys_raw", ServerKeys(TRUE) \o ServerKeysTable)
  <2>1. Orderly("server_keys_raw", ServerKeys(TRUE) \o ServerKeysTable)
    <3>1. /\ SpawnsOnce(ServerKeys(TRUE) \o ServerKeysTable)
          /\ WaitsFirst(ServerKeys(TRUE) \o ServerKeysTable)
      BY DEF ServerKeys, ServerKeysWorker, ServerKeysTable, SpawnsOnce, WaitsFirst
    <3>2. Cancels(ServerKeys(TRUE) \o ServerKeysTable)
      BY DEF ServerKeys, ServerKeysWorker, ServerKeysTable, Cancels
    <3>3. RaisesInBetween("server_keys_raw", ServerKeys(TRUE) \o ServerKeysTable)
      BY DEF ServerKeys, ServerKeysWorker, ServerKeysTable, RaisesInBetween
    <3> QED
      BY <3>1, <3>2, <3>3 DEF Orderly
  <2>2. /\ Len(ServerKeys(TRUE) \o ServerKeysTable) \in Nat
        /\ Plain(ServerKeys(TRUE) \o ServerKeysTable)
        /\ KeyForRoom(ServerKeys(TRUE) \o ServerKeysTable, 2)
    BY DEF ServerKeys, ServerKeysWorker, ServerKeysTable, Plain, KeyForRoom, Signing
  <2> QED
    BY <2>1, <2>2, PlainIsWellMade
<1>9. WellMade("notary", NotaryKeys(FALSE) \o NotaryKeysTable)
  <2>1. Orderly("notary", NotaryKeys(FALSE) \o NotaryKeysTable)
    <3>1. /\ SpawnsOnce(NotaryKeys(FALSE) \o NotaryKeysTable)
          /\ WaitsFirst(NotaryKeys(FALSE) \o NotaryKeysTable)
      BY DEF NotaryKeys, NotaryWorker, NotaryKeysTable, SpawnsOnce, WaitsFirst
    <3>2. Cancels(NotaryKeys(FALSE) \o NotaryKeysTable)
      BY DEF NotaryKeys, NotaryWorker, NotaryKeysTable, Cancels
    <3>3. RaisesInBetween("notary", NotaryKeys(FALSE) \o NotaryKeysTable)
      BY DEF NotaryKeys, NotaryWorker, NotaryKeysTable, RaisesInBetween
    <3> QED
      BY <3>1, <3>2, <3>3 DEF Orderly
  <2>2. /\ Len(NotaryKeys(FALSE) \o NotaryKeysTable) \in Nat
        /\ Plain(NotaryKeys(FALSE) \o NotaryKeysTable)
        /\ KeyForRoom(NotaryKeys(FALSE) \o NotaryKeysTable, 2)
    BY DEF NotaryKeys, NotaryWorker, NotaryKeysTable, Plain, KeyForRoom, Signing
  <2> QED
    BY <2>1, <2>2, PlainIsWellMade
<1>10. WellMade("notary_raw", NotaryKeys(TRUE) \o NotaryKeysTable)
  <2>1. Orderly("notary_raw", NotaryKeys(TRUE) \o NotaryKeysTable)
    <3>1. /\ SpawnsOnce(NotaryKeys(TRUE) \o NotaryKeysTable)
          /\ WaitsFirst(NotaryKeys(TRUE) \o NotaryKeysTable)
      BY DEF NotaryKeys, NotaryWorker, NotaryKeysTable, SpawnsOnce, WaitsFirst
    <3>2. Cancels(NotaryKeys(TRUE) \o NotaryKeysTable)
      BY DEF NotaryKeys, NotaryWorker, NotaryKeysTable, Cancels
    <3>3. RaisesInBetween("notary_raw", NotaryKeys(TRUE) \o NotaryKeysTable)
      BY DEF NotaryKeys, NotaryWorker, NotaryKeysTable, RaisesInBetween
    <3> QED
      BY <3>1, <3>2, <3>3 DEF Orderly
  <2>2. /\ Len(NotaryKeys(TRUE) \o NotaryKeysTable) \in Nat
        /\ Plain(NotaryKeys(TRUE) \o NotaryKeysTable)
        /\ KeyForRoom(NotaryKeys(TRUE) \o NotaryKeysTable, 2)
    BY DEF NotaryKeys, NotaryWorker, NotaryKeysTable, Plain, KeyForRoom, Signing
  <2> QED
    BY <2>1, <2>2, PlainIsWellMade
<1>11. WellMade("backfill", Backfill)
  <2>1. Orderly("backfill", Backfill)
    BY DEF Backfill, Orderly, SpawnsOnce, WaitsFirst, Cancels, RaisesInBetween
  <2>2. Len(Backfill) \in Nat /\ Plain(Backfill) /\ KeyFirst(Backfill, 3)
    BY DEF Backfill, Plain, KeyFirst, Signing
  <2> QED
    BY <2>1, <2>2, PlainIsWellMade
<1>12. WellMade("event_auth", EventAuth)
  <2>1. Orderly("event_auth", EventAuth)
    BY DEF EventAuth, Orderly, SpawnsOnce, WaitsFirst, Cancels, RaisesInBetween
  <2>2. Len(EventAuth) \in Nat /\ Plain(EventAuth) /\ KeyFirst(EventAuth, 2)
    BY DEF EventAuth, Plain, KeyFirst, Signing
  <2> QED
    BY <2>1, <2>2, PlainIsWellMade
<1>13. WellMade("wellknown", WellKnown \o WellKnownTable)
  <2>1. Orderly("wellknown", WellKnown \o WellKnownTable)
    <3>1. SpawnsOnce(WellKnown \o WellKnownTable) /\ WaitsFirst(WellKnown \o WellKnownTable)
      BY DEF WellKnown, WellKnownWorker, WellKnownTable, SpawnsOnce, WaitsFirst
    <3>2. Cancels(WellKnown \o WellKnownTable)
      BY DEF WellKnown, WellKnownWorker, WellKnownTable, Cancels
    <3>3. RaisesInBetween("wellknown", WellKnown \o WellKnownTable)
      BY DEF WellKnown, WellKnownWorker, WellKnownTable, RaisesInBetween
    <3> QED
      BY <3>1, <3>2, <3>3 DEF Orderly
  <2>2. /\ Len(WellKnown \o WellKnownTable) \in Nat
        /\ Plain(WellKnown \o WellKnownTable)
        /\ NothingSigned(WellKnown \o WellKnownTable)
    BY DEF WellKnown, WellKnownWorker, WellKnownTable, Plain, NothingSigned, Signing
  <2> QED
    BY <2>1, <2>2, PlainIsWellMade
<1>14. WellMade("dns", Dns)
  <2>1. Orderly("dns", Dns)
    <3>1. SpawnsOnce(Dns) /\ WaitsFirst(Dns)
      BY DEF Dns, DnsWorker, SpawnsOnce, WaitsFirst
    <3>2. Cancels(Dns)
      BY DEF Dns, DnsWorker, Cancels
    <3>3. RaisesInBetween("dns", Dns)
      BY DEF Dns, DnsWorker, RaisesInBetween
    <3> QED
      BY <3>1, <3>2, <3>3 DEF Orderly
  <2>2. Len(Dns) \in Nat /\ Plain(Dns) /\ KeyForRoom(Dns, 2)
    BY DEF Dns, DnsWorker, Plain, KeyForRoom, Signing
  <2> QED
    BY <2>1, <2>2, PlainIsWellMade
<1>15. WellMade("discover", Discover \o DiscoverTable)
  <2>1. Orderly("discover", Discover \o DiscoverTable)
    <3>1. SpawnsOnce(Discover \o DiscoverTable) /\ WaitsFirst(Discover \o DiscoverTable)
      BY DEF Discover, DiscoverWorker, DiscoverTable, SpawnsOnce, WaitsFirst
    <3>2. Cancels(Discover \o DiscoverTable)
      BY DEF Discover, DiscoverWorker, DiscoverTable, Cancels
    <3>3. RaisesInBetween("discover", Discover \o DiscoverTable)
      BY DEF Discover, DiscoverWorker, DiscoverTable, RaisesInBetween
    <3> QED
      BY <3>1, <3>2, <3>3 DEF Orderly
  <2>2. /\ Len(Discover \o DiscoverTable) \in Nat
        /\ Plain(Discover \o DiscoverTable)
        /\ KeyForRoom(Discover \o DiscoverTable, 2)
    BY DEF Discover, DiscoverWorker, DiscoverTable, Plain, KeyForRoom, Signing
  <2> QED
    BY <2>1, <2>2, PlainIsWellMade
<1> QED
  BY <1>1, <1>2, <1>3, <1>4, <1>5, <1>6, <1>7, <1>8, <1>9, <1>10, <1>11, <1>12, <1>13, <1>14,
     <1>15

\* The two that gather one-off tasks.
LEMMA GatheringScripts ==
    WellMade("head", Head_ \o HeadTable) /\ WellMade("find_event", FindEvent)
<1>1. WellMade("head", Head_ \o HeadTable)
  <2> DEFINE s == Head_ \o HeadTable
  <2>1. Orderly("head", s)
    BY DEF Head_, HeadTask, HeadTable, Orderly, SpawnsOnce, WaitsFirst, Cancels,
       RaisesInBetween
  <2>2. Len(s) \in Nat /\ KeyFirst(s, 2)
    BY DEF Head_, HeadTask, HeadTable, KeyFirst, Signing
  <2>3. \A i \in 1..Len(s) : s[i].op = "spawn" => i = 5
    BY DEF Head_, HeadTask, HeadTable
  <2>4. s[5].worker.each
    BY DEF Head_, HeadTask, HeadTable
  <2>5. \A i \in 1..Len(s) : s[i].op \in {"say", "pages"} =>
            \E j \in 1..Len(s) : i < j /\ s[j].op = "controls"
    BY DEF Head_, HeadTask, HeadTable
  <2>6. 8 \in 1..Len(s) /\ s[8].op = "pages" /\ s[8].some
    BY DEF Head_, HeadTask, HeadTable
  <2> HIDE DEF s
  <2>7. GathersTasks(s)
    BY <2>3, <2>4 DEF GathersTasks
  <2>8. CleansUp(s) /\ Speaks("head", s)
    BY <2>5, <2>6 DEF CleansUp, Keeps, Speaks, Says
  <2>9. ChecksKey("head", s)
    BY <2>2, KeyIsChecked
  <2>10. WellMade("head", s)
    BY <2>1, <2>2, <2>7, <2>8, <2>9 DEF WellMade, Orderly
  <2> QED
    BY <2>10 DEF s
<1>2. WellMade("find_event", FindEvent)
  <2> DEFINE s == FindEvent
  <2>1. Orderly("find_event", s)
    BY DEF FindEvent, FindEventTask, Orderly, SpawnsOnce, WaitsFirst, Cancels, RaisesInBetween
  <2>2. Len(s) \in Nat /\ KeyFirst(s, 2)
    BY DEF FindEvent, FindEventTask, KeyFirst, Signing
  <2>3. \A i \in 1..Len(s) : s[i].op = "spawn" => i = 5
    BY DEF FindEvent, FindEventTask
  <2>4. s[5].worker.each
    BY DEF FindEvent, FindEventTask
  <2>5. \A i \in 1..Len(s) : s[i].op \in {"say", "pages"} =>
            \E j \in 1..Len(s) : i < j /\ s[j].op = "controls"
    BY DEF FindEvent, FindEventTask
  <2>6. 8 \in 1..Len(s) /\ s[8].op = "pages" /\ s[8].some
    BY DEF FindEvent, FindEventTask
  <2> HIDE DEF s
  <2>7. GathersTasks(s)
    BY <2>3, <2>4 DEF GathersTasks
  <2>8. CleansUp(s) /\ Speaks("find_event", s)
    BY <2>5, <2>6 DEF CleansUp, Keeps, Speaks, Says
  <2>9. ChecksKey("find_event", s)
    BY <2>2, KeyIsChecked
  <2>10. WellMade("find_event", s)
    BY <2>1, <2>2, <2>7, <2>8, <2>9 DEF WellMade, Orderly
  <2> QED
    BY <2>10 DEF s
<1> QED
  BY <1>1, <1>2

\* Every script of the program observes all of it.
LEMMA ScriptsAreWellMade == \A c \in DOMAIN Script : WellMade(c, Script[c])
<1>1. DOMAIN Script =
        {"test", "fed", "color", "context", "alias", "room_hosts", "demo_bar",
         "room_version", "discover_event_id", "head_single", "head", "delegation",
         "event_raw", "event", "state", "ping", "version", "server_keys",
         "server_keys_raw", "notary", "notary_raw", "backfill", "event_auth",
         "user_devices", "find_event", "publicrooms_raw", "publicrooms", "wellknown",
         "dns", "discover"}
  BY DEF Script
<1>2. /\ Script["test"] = TestCommand
      /\ Script["fed"] = FedCommand
      /\ Script["color"] = ColorCommand
      /\ Script["context"] = ContextCommand
      /\ Script["alias"] = AliasCommand
      /\ Script["room_hosts"] = RoomHosts
      /\ Script["demo_bar"] = DemoBar
      /\ Script["room_version"] = RoomVersion
      /\ Script["discover_event_id"] = DiscoverEventId
      /\ Script["head_single"] = HeadSingle
      /\ Script["head"] = Head_ \o HeadTable
      /\ Script["delegation"] = Delegation \o DelegationTable
      /\ Script["event_raw"] = EventRaw
      /\ Script["event"] = EventPretty
      /\ Script["state"] = State
      /\ Script["ping"] = Ping
      /\ Script["version"] = Version
      /\ Script["server_keys"] = ServerKeys(FALSE) \o ServerKeysTable
      /\ Script["server_keys_raw"] = ServerKeys(TRUE) \o ServerKeysTable
      /\ Script["notary"] = NotaryKeys(FALSE) \o NotaryKeysTable
      /\ Script["notary_raw"] = NotaryKeys(TRUE) \o NotaryKeysTable
      /\ Script["backfill"] = Backfill
      /\ Script["event_auth"] = EventAuth
      /\ Script["user_devices"] = UserDevices
      /\ Script["find_event"] = FindEvent
      /\ Script["publicrooms_raw"] = PublicRoomsRaw
      /\ Script["publicrooms"] = PublicRooms
      /\ Script["wellknown"] = WellKnown \o WellKnownTable
      /\ Script["dns"] = Dns
      /\ Script["discover"] = Discover \o DiscoverTable
  BY DEF Script
<1> SUFFICES ASSUME NEW c \in DOMAIN Script PROVE WellMade(c, Script[c])
  OBVIOUS
<1> QED
  BY <1>1, <1>2, ShortScripts, PlainScripts, GatheringScripts

HIDE DEF Key, Room, Members, Valid, Targets, OnlyOne, Say, Remark, Client, Ask, Setup,
         Spawn, Join, Results, Cancel, Pages, Controls, Batches, Worker

-----------------------------------------------------------------------------
(***************************************************************************)
(* The inductive invariant                                                 *)
(***************************************************************************)
Typed ==
    /\ command \in DOMAIN Script
    /\ hasKey \in BOOLEAN
    /\ at \in 1..(Len(script) + 1)
    /\ phase \in {"start", "hosts", "join", "last", "version"}
    /\ servers \subseteq Servers \cup {Itself}
    /\ kept \in Nat /\ loose \in Nat /\ controls \in Nat /\ controls <= kept
    /\ retries \in Nat /\ retries <= MaxRetries
    /\ batches \in Nat /\ batches <= MaxBatches
    /\ taskSet \in {"none", "registered", "popped"}
    /\ workers \in {"none", "running", "cancelled"}
    /\ outcome \in {"running", "returned", "raised", "waiting"}
    /\ (outcome = "raised") = (cause # "none")

\* Every server is in one place of the pool, or the pool does not exist yet.
Pooled ==
    /\ workers = "none" => queue \cup held \cup dead \cup got \cup failed \cup toContact = {}
    /\ (workers # "none") = (\E j \in 1..Len(script) : j < at /\ script[j].op = "spawn")
    /\ workers # "none" =>
        /\ queue \cup held \cup dead \cup got \cup failed = servers
        /\ toContact \subseteq servers
        /\ Worker_.notes => toContact = servers \ got
    /\ queue \cap (held \cup got \cup failed) = {}
    /\ held \cap (got \cup failed) = {}
    /\ got \cap failed = {}
    /\ (\E i \in 1..Len(script) : script[i].op = "results") => queue = {}

\* After the tasks were waited for nobody has anything to do.
Waited ==
    (\E j, k \in 1..Len(script) :
        j < k /\ k < at /\ script[j].op = "spawn" /\ script[k].op \in {"join", "results"})
        => queue \cup held \cup dead = {}

\* A task set that is registered was set up before and will be cancelled.
Registered ==
    /\ workers = "running" => taskSet = "registered"
    /\ taskSet = "registered" =>
        /\ outcome # "returned"
        /\ \E k \in 1..Len(script) :
            /\ at <= k /\ script[k].op = "cancel"
            /\ \A j \in 1..Len(script) :
                at <= j /\ j < k => script[j].op \in {"client", "spawn", "join", "results"}
        /\ \E j \in 1..Len(script) :
            /\ j < at /\ script[j].op \in {"setup", "spawn"}
            /\ \A k \in 1..Len(script) : j < k /\ k < at => script[k].op # "cancel"

Left ==
    outcome = "raised" /\ taskSet = "registered" =>
        \/ command = "head"
        \/ command = "find_event" /\ queue = {} /\ held = {}
        \/ command = "discover" /\ workers = "none"

\* What was kept so far has its control, if the step that gives it is over.
Controlled ==
    (\A i \in 1..Len(script) : i < at /\ Keeps(script[i]) =>
        \E k \in 1..Len(script) : i < k /\ k < at /\ script[k].op = "controls")
        => controls = kept

Heard ==
    /\ (\E i \in 1..Len(script) : i < at /\ Says(script[i])) => kept + loose > 0
    /\ outcome = "returned" => kept + loose > 0 \/ at = Len(script) + 1

\* Inside get_room_data.
Inside ==
    outcome = "running" /\ phase # "start" =>
        at <= Len(script) /\ script[at].op = "room" /\ ~Skipped

Keyed ==
    /\ \A j \in 1..Len(script) : j < at /\ script[j].op = "key" =>
        hasKey \/ (script[j].when = "room" /\ ~ARoom)
    /\ cause = "noKey" => command \in {"alias", "publicrooms", "publicrooms_raw"}

IInv ==
    /\ Typed /\ Pooled /\ Waited /\ Registered /\ Left
    /\ Controlled /\ Heard /\ Inside /\ Keyed

\* So does the one that runs.
LEMMA ScriptFacts == Typed => WellMade(command, script)
BY ScriptsAreWellMade DEF Typed, script

\* The script and its worker stay while the command does.
LEMMA SameScript ==
    ASSUME command' = command
    PROVE  script' = script /\ Worker_' = Worker_
BY DEF script, Worker_

-----------------------------------------------------------------------------
(***************************************************************************)
(* What a step of the command does to each part of the state               *)
(***************************************************************************)
\* The steps that end a command early after they told the user why.
Telling == {"valid", "key", "ask", "room", "members", "onlyOne", "batches"}

\* The steps that may raise.
Raising == {"say", "client", "pages", "controls", "ask", "room", "members", "results", "batches"}

\* To tasks and pool: nothing. The servers come from a room before the pool does.
Quietly ==
    /\ outcome = "running"
    /\ UNCHANGED <<command, pool, tasks>>
    /\ \/ servers' = servers
       \/ /\ at <= Len(script) /\ script[at].op \in {"room", "members", "targets"}
          /\ servers' \subseteq Servers \cup {Itself}
    /\ \/ /\ at <= Len(script) /\ at' = at + 1 /\ outcome' = outcome
          /\ script[at].op \notin {"setup", "spawn", "cancel"}
          /\ script[at].op = "join" => queue \cup held \cup dead = {}
          /\ script[at].op = "results" => held = {} /\ dead = {}
       \/ at <= Len(script) /\ at' = at /\ outcome' = outcome
       \/ /\ at' = at /\ outcome' = "returned"
          /\ at <= Len(script) => script[at].op \in Telling
       \/ /\ at' = at /\ outcome' \in {"raised", "waiting"}
          /\ at <= Len(script) /\ script[at].op \in Raising
          /\ script[at].op = "results" /\ script[at].patient => held = {}

\* To the messages: they grow, and the list of the kept ones in these steps only.
Tells ==
    /\ outcome = "running" /\ command' = command
    /\ kept' \in Nat /\ loose' \in Nat /\ controls' \in Nat /\ controls' <= kept'
    /\ loose' >= loose
    /\ \/ /\ at <= Len(script) /\ at' = at + 1 /\ outcome' = outcome
          /\ kept' >= kept /\ controls' = controls
          /\ Keeps(script[at]) \/ kept' = kept
          /\ Says(script[at]) => kept' + loose' > 0
          /\ script[at].op = "controls" => controls = kept
       \/ /\ at <= Len(script) /\ at' = at /\ outcome' = outcome
          /\ kept' = kept /\ (controls' = controls \/ controls < kept)
       \/ /\ at' = at /\ kept' = kept /\ controls' = controls
          /\ outcome' \in {"returned", "raised", "waiting"}
          /\ outcome' = "returned" => loose' > 0 \/ at = Len(script) + 1

\* To the key: it is missed only where something is signed.
Authorised ==
    /\ outcome = "running" /\ UNCHANGED user
    /\ phase' \in {"start", "hosts", "join", "last", "version"}
    /\ \/ /\ at <= Len(script) /\ at' = at + 1
          /\ outcome' = outcome /\ cause' = cause /\ phase' = "start"
          /\ script[at].op = "key" => hasKey \/ Skipped
       \/ /\ at' = at /\ outcome' = outcome /\ cause' = cause
          /\ phase' = phase \/ (at <= Len(script) /\ script[at].op = "room" /\ ~Skipped)
       \/ /\ at' = at /\ outcome' \in {"returned", "waiting"} /\ cause' = cause
       \/ /\ at' = at /\ outcome' = "raised" /\ cause' # "none"
          /\ cause' = "noKey" =>
                /\ at <= Len(script) /\ ~hasKey /\ Signs(script[at])
                /\ script[at].op = "room" => ~Skipped

\* Every step but the three that change tasks.
Talk ==
    \/ CommandReturns \/ Speak \/ CallClient \/ ClientRaises \/ CheckArgument \/ CheckKey \/ Request
    \/ TakeTargets \/ AskMembers \/ RefuseMany \/ ShowPages \/ AddControl \/ NextBatch \/ BatchFails

RoomData ==
    SkipRoom \/ ResolveRoom \/ HostsFromClient \/ HostsFromState \/ LastEvent \/ VersionOfRoom

Wait == Joined \/ Gathered

Tasking == SetUp \/ SpawnWorkers \/ CancelTasks

USE DEF Advance, Return, Raise, On, Running, Here, user, room, messages, pool, tasks, directory, end

\* No step but the three of Tasking touches tasks or pool.
LEMMA QuietSteps == ASSUME Typed, Talk \/ RoomData \/ Wait PROVE Quietly
<1>1. CASE CommandReturns
  BY <1>1 DEF CommandReturns, Typed, Quietly, Telling, Raising
<1>2. CASE Speak
  BY <1>2 DEF Speak, Typed, Quietly, Telling, Raising
<1>3. CASE CallClient
  BY <1>3 DEF CallClient, Typed, Quietly, Telling, Raising
<1>4. CASE ClientRaises
  BY <1>4 DEF ClientRaises, Typed, Quietly, Telling, Raising
<1>5. CASE CheckArgument
  BY <1>5 DEF CheckArgument, Typed, Quietly, Telling, Raising
<1>6. CASE CheckKey
  BY <1>6 DEF CheckKey, Typed, Quietly, Telling, Raising
<1>7. CASE Request
  BY <1>7 DEF Request, WaitForEver, Typed, Quietly, Telling, Raising
<1>8. CASE TakeTargets
  BY <1>8 DEF TakeTargets, Typed, Quietly, Telling, Raising
<1>9. CASE AskMembers
  BY <1>9 DEF AskMembers, Typed, Quietly, Telling, Raising
<1>10. CASE RefuseMany
  BY <1>10 DEF RefuseMany, Typed, Quietly, Telling, Raising
<1>11. CASE ShowPages
  BY <1>11 DEF ShowPages, Typed, Quietly, Telling, Raising
<1>12. CASE AddControl
  BY <1>12 DEF AddControl, Typed, Quietly, Telling, Raising
<1>13. CASE NextBatch
  BY <1>13 DEF NextBatch, Typed, Quietly, Telling, Raising
<1>14. CASE BatchFails
  BY <1>14 DEF BatchFails, Refusal, Typed, Quietly, Telling, Raising
<1>15. CASE SkipRoom
  BY <1>15 DEF SkipRoom, Typed, Quietly, Telling, Raising
<1>16. CASE ResolveRoom
  BY <1>16 DEF ResolveRoom, NoRoom, Typed, Quietly, Telling, Raising
<1>17. CASE HostsFromClient
  BY <1>17 DEF HostsFromClient, Typed, Quietly, Telling, Raising
<1>18. CASE HostsFromState
  BY <1>18 DEF HostsFromState, NoRoom, Refusal, Typed, Quietly, Telling, Raising
<1>19. CASE LastEvent
  BY <1>19 DEF LastEvent, NoRoom, Refusal, Typed, Quietly, Telling, Raising
<1>20. CASE VersionOfRoom
  BY <1>20 DEF VersionOfRoom, Typed, Quietly, Telling, Raising
<1>21. CASE Joined
  BY <1>21 DEF Joined, Typed, Quietly, Telling, Raising
<1>22. CASE Gathered
  BY <1>22 DEF Gathered, Typed, Quietly, Telling, Raising
<1> QED
  BY <1>1, <1>2, <1>3, <1>4, <1>5, <1>6, <1>7, <1>8, <1>9, <1>10, <1>11, <1>12, <1>13, <1>14,
     <1>15, <1>16, <1>17, <1>18, <1>19, <1>20, <1>21, <1>22 DEF Talk, RoomData, Wait

\* No step takes a message back, and each that ends early tells why.
LEMMA TellingSteps == ASSUME Typed, Talk \/ RoomData \/ Wait \/ Tasking PROVE Tells
<1>1. CASE CommandReturns
  BY <1>1 DEF CommandReturns, Typed, Tells, Keeps, Says
<1>2. CASE Speak
  BY <1>2 DEF Speak, Typed, Tells, Keeps, Says
<1>3. CASE CallClient
  BY <1>3 DEF CallClient, Typed, Tells, Keeps, Says
<1>4. CASE ClientRaises
  BY <1>4 DEF ClientRaises, Typed, Tells, Keeps, Says
<1>5. CASE CheckArgument
  BY <1>5 DEF CheckArgument, Typed, Tells, Keeps, Says
<1>6. CASE CheckKey
  BY <1>6 DEF CheckKey, Typed, Tells, Keeps, Says
<1>7. CASE Request
  BY <1>7 DEF Request, WaitForEver, Typed, Tells, Keeps, Says
<1>8. CASE TakeTargets
  BY <1>8 DEF TakeTargets, Typed, Tells, Keeps, Says
<1>9. CASE AskMembers
  BY <1>9 DEF AskMembers, Typed, Tells, Keeps, Says
<1>10. CASE RefuseMany
  BY <1>10 DEF RefuseMany, Typed, Tells, Keeps, Says
<1>11. CASE ShowPages
  BY <1>11 DEF ShowPages, Typed, Tells, Keeps, Says
<1>12. CASE AddControl
  BY <1>12 DEF AddControl, Typed, Tells, Keeps, Says
<1>13. CASE NextBatch
  BY <1>13 DEF NextBatch, Typed, Tells, Keeps, Says
<1>14. CASE BatchFails
  BY <1>14 DEF BatchFails, Refusal, Typed, Tells, Keeps, Says
<1>15. CASE SkipRoom
  BY <1>15 DEF SkipRoom, Typed, Tells, Keeps, Says
<1>16. CASE ResolveRoom
  BY <1>16 DEF ResolveRoom, NoRoom, Typed, Tells, Keeps, Says
<1>17. CASE HostsFromClient
  BY <1>17 DEF HostsFromClient, Typed, Tells, Keeps, Says
<1>18. CASE HostsFromState
  BY <1>18 DEF HostsFromState, NoRoom, Refusal, Typed, Tells, Keeps, Says
<1>19. CASE LastEvent
  BY <1>19 DEF LastEvent, NoRoom, Refusal, Typed, Tells, Keeps, Says
<1>20. CASE VersionOfRoom
  BY <1>20 DEF VersionOfRoom, Typed, Tells, Keeps, Says
<1>21. CASE Joined
  BY <1>21 DEF Joined, Typed, Tells, Keeps, Says
<1>22. CASE Gathered
  BY <1>22 DEF Gathered, Typed, Tells, Keeps, Says
<1>23. CASE SetUp
  BY <1>23 DEF SetUp, Typed, Tells, Keeps, Says
<1>24. CASE SpawnWorkers
  BY <1>24 DEF SpawnWorkers, Typed, Tells, Keeps, Says
<1>25. CASE CancelTasks
  BY <1>25 DEF CancelTasks, Typed, Tells, Keeps, Says
<1> QED
  BY <1>1, <1>2, <1>3, <1>4, <1>5, <1>6, <1>7, <1>8, <1>9, <1>10, <1>11, <1>12, <1>13, <1>14,
     <1>15, <1>16, <1>17, <1>18, <1>19, <1>20, <1>21, <1>22, <1>23, <1>24, <1>25 DEF Talk,
     RoomData, Wait, Tasking

\* Only where something is signed is the key missed.
LEMMA SigningSteps == ASSUME Typed, Inside, Talk \/ RoomData \/ Wait \/ Tasking PROVE Authorised
<1>1. CASE CommandReturns
  BY <1>1 DEF CommandReturns, Typed, Inside, Authorised, Signs, Skipped
<1>2. CASE Speak
  BY <1>2 DEF Speak, Typed, Inside, Authorised, Signs, Skipped
<1>3. CASE CallClient
  BY <1>3 DEF CallClient, Typed, Inside, Authorised, Signs, Skipped
<1>4. CASE ClientRaises
  BY <1>4 DEF ClientRaises, Typed, Inside, Authorised, Signs, Skipped
<1>5. CASE CheckArgument
  BY <1>5 DEF CheckArgument, Typed, Inside, Authorised, Signs, Skipped
<1>6. CASE CheckKey
  BY <1>6 DEF CheckKey, Typed, Inside, Authorised, Signs, Skipped
<1>7. CASE Request
  BY <1>7 DEF Request, WaitForEver, Typed, Inside, Authorised, Signs, Skipped
<1>8. CASE TakeTargets
  BY <1>8 DEF TakeTargets, Typed, Inside, Authorised, Signs, Skipped
<1>9. CASE AskMembers
  BY <1>9 DEF AskMembers, Typed, Inside, Authorised, Signs, Skipped
<1>10. CASE RefuseMany
  BY <1>10 DEF RefuseMany, Typed, Inside, Authorised, Signs, Skipped
<1>11. CASE ShowPages
  BY <1>11 DEF ShowPages, Typed, Inside, Authorised, Signs, Skipped
<1>12. CASE AddControl
  BY <1>12 DEF AddControl, Typed, Inside, Authorised, Signs, Skipped
<1>13. CASE NextBatch
  BY <1>13 DEF NextBatch, Typed, Inside, Authorised, Signs, Skipped
<1>14. CASE BatchFails
  BY <1>14 DEF BatchFails, Refusal, Typed, Inside, Authorised, Signs, Skipped
<1>15. CASE SkipRoom
  BY <1>15 DEF SkipRoom, Typed, Inside, Authorised, Signs, Skipped
<1>16. CASE ResolveRoom
  BY <1>16 DEF ResolveRoom, NoRoom, Typed, Inside, Authorised, Signs, Skipped
<1>17. CASE HostsFromClient
  BY <1>17 DEF HostsFromClient, Typed, Inside, Authorised, Signs, Skipped
<1>18. CASE HostsFromState
  BY <1>18 DEF HostsFromState, NoRoom, Refusal, Typed, Inside, Authorised, Signs, Skipped
<1>19. CASE LastEvent
  BY <1>19 DEF LastEvent, NoRoom, Refusal, Typed, Inside, Authorised, Signs, Skipped
<1>20. CASE VersionOfRoom
  BY <1>20 DEF VersionOfRoom, Typed, Inside, Authorised, Signs, Skipped
<1>21. CASE Joined
  BY <1>21 DEF Joined, Typed, Inside, Authorised, Signs, Skipped
<1>22. CASE Gathered
  BY <1>22 DEF Gathered, Typed, Inside, Authorised, Signs, Skipped
<1>23. CASE SetUp
  BY <1>23 DEF SetUp, Typed, Inside, Authorised, Signs, Skipped
<1>24. CASE SpawnWorkers
  BY <1>24 DEF SpawnWorkers, Typed, Inside, Authorised, Signs, Skipped
<1>25. CASE CancelTasks
  BY <1>25 DEF CancelTasks, Typed, Inside, Authorised, Signs, Skipped
<1> QED
  BY <1>1, <1>2, <1>3, <1>4, <1>5, <1>6, <1>7, <1>8, <1>9, <1>10, <1>11, <1>12, <1>13, <1>14,
     <1>15, <1>16, <1>17, <1>18, <1>19, <1>20, <1>21, <1>22, <1>23, <1>24, <1>25 DEF Talk,
     RoomData, Wait, Tasking

-----------------------------------------------------------------------------
(***************************************************************************)
(* Messages and key                                                        *)
(***************************************************************************)
\* Counts that grow stay above nothing.
LEMMA MoreIsHeard ==
    ASSUME NEW a \in Nat, NEW b \in Nat, NEW c \in Nat, NEW d \in Nat, c >= a, d >= b, a + b > 0
    PROVE  c + d > 0
OBVIOUS

\* What is kept gets its control, what is said is heard.
LEMMA MessagesIInv ==
    ASSUME Typed, Controlled, Heard, Tells
    PROVE  Controlled' /\ Heard'
<1>1. /\ Len(script) \in Nat /\ script' = script /\ at \in 1..(Len(script) + 1)
      /\ kept \in Nat /\ loose \in Nat /\ kept' \in Nat /\ loose' \in Nat /\ loose' >= loose
      /\ outcome = "running"
  BY ScriptFacts, SameScript DEF Typed, WellMade, Tells
<1>2. CASE /\ at <= Len(script) /\ at' = at + 1 /\ outcome' = outcome
           /\ kept' >= kept /\ controls' = controls
           /\ Keeps(script[at]) \/ kept' = kept
           /\ Says(script[at]) => kept' + loose' > 0
           /\ script[at].op = "controls" => controls = kept
  <2>1. at \in 1..Len(script)
    BY <1>1, <1>2
  <2>2. Heard'
    <3> SUFFICES ASSUME NEW i \in 1..Len(script), i < at + 1, Says(script[i])
                 PROVE  kept' + loose' > 0
      BY <1>1, <1>2 DEF Heard
    <3>1. i < at \/ i = at
      BY <1>1
    <3>2. i < at => kept + loose > 0
      BY DEF Heard
    <3>3. kept' >= kept
      BY <1>2
    <3> QED
      BY <1>1, <1>2, <3>1, <3>2, <3>3, MoreIsHeard
  <2>3. Controlled'
    <3> SUFFICES ASSUME \A i \in 1..Len(script) : i < at + 1 /\ Keeps(script[i]) =>
                          \E k \in 1..Len(script) : i < k /\ k < at + 1 /\ script[k].op = "controls"
                 PROVE  controls' = kept'
      BY <1>1, <1>2 DEF Controlled
    <3>1. ~Keeps(script[at])
      BY <1>1, <2>1
    <3>2. kept' = kept /\ controls' = controls
      BY <1>2, <3>1
    <3>3. CASE script[at].op = "controls"
      BY <1>2, <3>2, <3>3
    <3>4. CASE script[at].op # "controls"
      <4>1. \A i \in 1..Len(script) : i < at /\ Keeps(script[i]) =>
              \E k \in 1..Len(script) : i < k /\ k < at /\ script[k].op = "controls"
        <5> SUFFICES ASSUME NEW i \in 1..Len(script), i < at, Keeps(script[i])
                     PROVE  \E k \in 1..Len(script) : i < k /\ k < at /\ script[k].op = "controls"
          OBVIOUS
        <5>1. PICK k \in 1..Len(script) : i < k /\ k < at + 1 /\ script[k].op = "controls"
          BY <1>1
        <5>2. k # at
          BY <3>4, <5>1
        <5> QED
          BY <1>1, <5>1, <5>2
      <4> QED
        BY <3>2, <4>1 DEF Controlled
    <3> QED
      BY <3>3, <3>4
  <2> QED
    BY <2>2, <2>3
<1>3. CASE /\ at <= Len(script) /\ at' = at /\ outcome' = outcome
           /\ kept' = kept /\ (controls' = controls \/ controls < kept)
  <2>1. kept + loose > 0 => kept' + loose' > 0
    <3>1. kept' >= kept
      BY <1>1, <1>3
    <3> QED
      BY <1>1, <3>1, MoreIsHeard
  <2>2. Heard'
    BY <1>1, <1>3, <2>1 DEF Heard
  <2>3. Controlled'
    BY <1>1, <1>3 DEF Controlled, Typed
  <2> QED
    BY <2>2, <2>3
<1>4. CASE /\ at' = at /\ kept' = kept /\ controls' = controls
           /\ outcome' \in {"returned", "raised", "waiting"}
           /\ outcome' = "returned" => loose' > 0 \/ at = Len(script) + 1
  <2>1. kept + loose > 0 => kept' + loose' > 0
    <3>1. kept' >= kept
      BY <1>1, <1>4
    <3> QED
      BY <1>1, <3>1, MoreIsHeard
  <2>2. ASSUME loose' > 0 PROVE kept' + loose' > 0
    <3> DEFINE k == kept'
               l == loose'
    <3>1. k \in Nat /\ l \in Nat /\ l > 0
      BY <1>1, <2>2
    <3> HIDE DEF k, l
    <3>2. k + l > 0
      BY <3>1
    <3> QED
      BY <3>2 DEF k, l
  <2>3. Heard'
    BY <1>1, <1>4, <2>1, <2>2 DEF Heard
  <2>4. Controlled'
    BY <1>1, <1>4 DEF Controlled
  <2> QED
    BY <2>3, <2>4
<1> QED
  BY <1>2, <1>3, <1>4 DEF Tells

\* Once past its check the key is there, and get_room_data runs inside its step.
LEMMA KeyIInv ==
    ASSUME Typed, Inside, Keyed, Authorised
    PROVE  Inside' /\ Keyed'
<1>1. /\ Len(script) \in Nat /\ script' = script /\ at \in 1..(Len(script) + 1)
      /\ command' = command /\ hasKey' = hasKey /\ argument' = argument
      /\ outcome = "running" /\ cause = "none"
      /\ ChecksKey(command, script)
  BY ScriptFacts, SameScript DEF Typed, WellMade, Authorised
<1>2. ARoom' = ARoom /\ (at' = at => Skipped' = Skipped)
  BY <1>1 DEF ARoom, Skipped
<1>3. CASE /\ at <= Len(script) /\ at' = at + 1
           /\ outcome' = outcome /\ cause' = cause /\ phase' = "start"
           /\ script[at].op = "key" => hasKey \/ Skipped
  <2>1. Inside'
    BY <1>3 DEF Inside
  <2>2. ASSUME NEW j \in 1..Len(script), j < at + 1, script[j].op = "key"
        PROVE  hasKey \/ (script[j].when = "room" /\ ~ARoom)
    <3>1. j < at \/ j = at
      BY <1>1, <2>2
    <3> QED
      BY <1>3, <2>2, <3>1 DEF Keyed, Skipped
  <2>3. Keyed'
    BY <1>1, <1>2, <1>3, <2>2 DEF Keyed
  <2> QED
    BY <2>1, <2>3
<1>4. CASE /\ at' = at /\ outcome' = outcome /\ cause' = cause
           /\ phase' = phase \/ (at <= Len(script) /\ script[at].op = "room" /\ ~Skipped)
  BY <1>1, <1>2, <1>4 DEF Inside, Keyed
<1>5. CASE at' = at /\ outcome' \in {"returned", "waiting"} /\ cause' = cause
  BY <1>1, <1>2, <1>5 DEF Inside, Keyed
<1>6. CASE /\ at' = at /\ outcome' = "raised" /\ cause' # "none"
           /\ cause' = "noKey" =>
                 /\ at <= Len(script) /\ ~hasKey /\ Signs(script[at])
                 /\ script[at].op = "room" => ~Skipped
  <2>1. Inside'
    BY <1>6 DEF Inside
  <2>2. ASSUME cause' = "noKey" PROVE command \in {"alias", "publicrooms", "publicrooms_raw"}
    <3>1. SUFFICES ASSUME command \notin {"alias", "publicrooms", "publicrooms_raw"} PROVE FALSE
      OBVIOUS
    <3>2. at \in 1..Len(script) /\ Signs(script[at]) /\ ~hasKey
      BY <1>1, <1>6, <2>2
    <3>3. PICK j \in 1..Len(script) :
            /\ j < at /\ script[j].op = "key"
            /\ script[j].when = "always" \/ (script[at].op = "room" /\ script[at].when = script[j].when)
      BY <1>1, <3>1, <3>2 DEF ChecksKey
    <3>4. script[j].when = "room" /\ ~ARoom
      BY <3>2, <3>3 DEF Keyed
    <3>5. script[at].op = "room" /\ script[at].when = "room"
      BY <3>3, <3>4
    <3> QED
      BY <1>6, <2>2, <3>4, <3>5 DEF Skipped
  <2>3. Keyed'
    BY <1>1, <1>2, <1>6, <2>2 DEF Keyed
  <2> QED
    BY <2>1, <2>3
<1> QED
  BY <1>3, <1>4, <1>5, <1>6 DEF Authorised

-----------------------------------------------------------------------------
(***************************************************************************)
(* Tasks and pool                                                          *)
(***************************************************************************)
\* A step that asks for servers comes before the pool.
LEMMA NoPoolYet ==
    ASSUME Typed, Pooled, at <= Len(script),
           script[at].op \in {"room", "members", "targets", "spawn"}
    PROVE  workers = "none"
<1>1. SpawnsOnce(script) /\ at \in 1..Len(script)
  BY ScriptFacts DEF Typed, WellMade
<1> QED
  BY <1>1 DEF SpawnsOnce, Pooled, Typed

\* Such a step moves no server within the pool.
LEMMA QuietPool == ASSUME Typed, Pooled, Quietly PROVE Pooled'
<1>1. /\ Len(script) \in Nat /\ script' = script /\ Worker_' = Worker_
      /\ at \in 1..(Len(script) + 1) /\ at' \in {at, at + 1}
      /\ UNCHANGED <<pool, workers>>
  BY ScriptFacts, SameScript DEF Typed, WellMade, Quietly
<1>2. workers # "none" => servers' = servers
  BY NoPoolYet DEF Quietly
<1>3. (\E j \in 1..Len(script) : j < at' /\ script[j].op = "spawn")
        = (\E j \in 1..Len(script) : j < at /\ script[j].op = "spawn")
  <2>1. at' # at => script[at].op # "spawn"
    BY <1>1 DEF Quietly
  <2>2. \A j \in 1..Len(script) : (j < at' /\ script[j].op = "spawn") = (j < at /\ script[j].op = "spawn")
    <3> TAKE j \in 1..Len(script)
    <3>1. CASE j = at
      BY <1>1, <2>1, <3>1
    <3>2. CASE j # at
      BY <1>1, <3>2
    <3> QED
      BY <3>1, <3>2
  <2> QED
    BY <2>2
<1>4. /\ (workers # "none") = (\E j \in 1..Len(script) : j < at /\ script[j].op = "spawn")
      /\ workers = "none" => queue \cup held \cup dead \cup got \cup failed \cup toContact = {}
      /\ queue \cap (held \cup got \cup failed) = {}
      /\ held \cap (got \cup failed) = {}
      /\ got \cap failed = {}
      /\ (\E i \in 1..Len(script) : script[i].op = "results") => queue = {}
  BY DEF Pooled
<1>5. workers # "none" =>
        /\ queue \cup held \cup dead \cup got \cup failed = servers
        /\ toContact \subseteq servers
        /\ Worker_.notes => toContact = servers \ got
  BY DEF Pooled
<1> QED
  BY <1>1, <1>2, <1>3, <1>4, <1>5 DEF Pooled

\* It passes a wait only when nobody has anything to do.
LEMMA QuietWaited == ASSUME Typed, Pooled, Waited, Quietly PROVE Waited'
<1>1. /\ Len(script) \in Nat /\ script' = script
      /\ at \in 1..(Len(script) + 1) /\ at' \in {at, at + 1}
      /\ UNCHANGED pool
  BY ScriptFacts, SameScript DEF Typed, WellMade, Quietly
<1> SUFFICES ASSUME NEW j \in 1..Len(script), NEW k \in 1..Len(script),
                    j < k, k < at', script[j].op = "spawn", script[k].op \in {"join", "results"}
             PROVE  queue \cup held \cup dead = {}
  BY <1>1 DEF Waited
<1>2. CASE k < at
  BY <1>2 DEF Waited
<1>3. CASE ~(k < at)
  <2>1. at' = at + 1 /\ k = at
    BY <1>1, <1>3
  <2>2. at # at'
    BY <1>1, <2>1
  <2>3. /\ script[at].op = "join" => queue \cup held \cup dead = {}
        /\ script[at].op = "results" => held = {} /\ dead = {}
    BY <2>2 DEF Quietly
  <2>4. script[at].op = "results" => queue = {}
    BY <2>1 DEF Pooled
  <2> QED
    BY <2>1, <2>3, <2>4
<1> QED
  BY <1>2, <1>3

\* It never returns between set-up and cancel(), and raises there in three commands.
LEMMA QuietRegistered ==
    ASSUME Typed, Pooled, Registered, Left, Quietly
    PROVE  Registered' /\ Left'
<1>1. /\ Len(script) \in Nat /\ script' = script /\ command' = command
      /\ at \in 1..(Len(script) + 1)
      /\ UNCHANGED <<pool, tasks>> /\ outcome = "running"
      /\ RaisesInBetween(command, script)
  BY ScriptFacts, SameScript DEF Typed, WellMade, Quietly
<1>2. CASE taskSet # "registered"
  BY <1>1, <1>2 DEF Registered, Left
<1>3. CASE taskSet = "registered"
  <2>1. PICK k \in 1..Len(script) :
          /\ at <= k /\ script[k].op = "cancel"
          /\ \A i \in 1..Len(script) :
              at <= i /\ i < k => script[i].op \in {"client", "spawn", "join", "results"}
    BY <1>3 DEF Registered
  <2>2. PICK j \in 1..Len(script) :
          /\ j < at /\ script[j].op \in {"setup", "spawn"}
          /\ \A i \in 1..Len(script) : j < i /\ i < at => script[i].op # "cancel"
    BY <1>3 DEF Registered
  <2>3. at \in 1..Len(script)
    BY <1>1, <2>1
  <2>4. script[at].op \in {"client", "spawn", "join", "results", "cancel"}
    <3>1. at = k \/ at < k
      BY <1>1, <2>1
    <3> QED
      BY <2>1, <2>3, <3>1
  <2>5. CASE /\ at' = at + 1 /\ outcome' = outcome
             /\ script[at].op \notin {"setup", "spawn", "cancel"}
    <3>1. at + 1 <= k
      <4>1. at # k
        BY <2>1, <2>5
      <4> QED
        BY <1>1, <2>1, <4>1
    <3>2. \A i \in 1..Len(script) :
            at' <= i /\ i < k => script[i].op \in {"client", "spawn", "join", "results"}
      BY <1>1, <2>1, <2>5
    <3>3. j < at' /\ \A i \in 1..Len(script) : j < i /\ i < at' => script[i].op # "cancel"
      <4>1. \A i \in 1..Len(script) : i < at + 1 => i < at \/ i = at
        BY <1>1
      <4> QED
        BY <1>1, <2>2, <2>5, <4>1
    <3>4. Registered'
      BY <1>1, <1>3, <2>1, <2>2, <2>5, <3>1, <3>2, <3>3 DEF Registered
    <3>5. Left'
      BY <1>1, <2>5 DEF Left
    <3> QED
      BY <3>4, <3>5
  <2>6. CASE at' = at /\ outcome' = outcome
    BY <1>1, <2>6 DEF Registered, Left
  <2>7. CASE outcome' = "returned" /\ script[at].op \in Telling
    BY <2>4, <2>7 DEF Telling
  <2>8. CASE /\ at' = at /\ outcome' \in {"raised", "waiting"} /\ script[at].op \in Raising
             /\ script[at].op = "results" /\ script[at].patient => held = {}
    <3>1. Registered'
      BY <1>1, <2>8 DEF Registered
    <3>2. script[at].op \in {"client", "results"}
      BY <2>4, <2>8 DEF Raising
    <3>3. CASE script[at].op = "results"
      <4>1. command = "head" \/ (command = "find_event" /\ script[at].patient)
        BY <1>1, <2>3, <3>3 DEF RaisesInBetween
      <4>2. queue = {}
        BY <2>3, <3>3 DEF Pooled
      <4> QED
        BY <1>1, <2>8, <3>1, <3>3, <4>1, <4>2 DEF Left
    <3>4. CASE script[at].op = "client"
      <4>1. command = "discover" /\ \A i \in 1..Len(script) : i < at => script[i].op # "spawn"
        BY <1>1, <2>2, <2>3, <3>4 DEF RaisesInBetween
      <4>2. workers = "none"
        BY <4>1 DEF Pooled
      <4> QED
        BY <1>1, <3>1, <4>1, <4>2 DEF Left
    <3> QED
      BY <3>2, <3>3, <3>4
  <2>9. outcome' = "returned" => script[at].op \in Telling
    BY <1>1, <2>3 DEF Quietly
  <2> QED
    BY <1>1, <2>3, <2>5, <2>6, <2>7, <2>8, <2>9 DEF Quietly
<1> QED
  BY <1>2, <1>3

\* The task set is set up, on its own.
LEMMA SetUpIInv ==
    ASSUME IInv, SetUp
    PROVE  Pooled' /\ Waited' /\ Registered' /\ Left'
<1>1. /\ Len(script) \in Nat /\ script' = script /\ Worker_' = Worker_ /\ command' = command
      /\ at \in 1..Len(script) /\ at' = at + 1 /\ outcome = "running" /\ outcome' = "running"
      /\ script[at].op = "setup"
      /\ taskSet' = "registered" /\ UNCHANGED <<pool, workers, servers>>
      /\ Cancels(script)
  BY ScriptFacts, SameScript DEF IInv, Typed, WellMade, SetUp
<1>2. Pooled'
  <2>1. \A j \in 1..Len(script) : (j < at + 1 /\ script[j].op = "spawn") = (j < at /\ script[j].op = "spawn")
    <3> TAKE j \in 1..Len(script)
    <3>1. CASE j = at
      BY <1>1, <3>1
    <3>2. CASE j # at
      BY <1>1, <3>2
    <3> QED
      BY <3>1, <3>2
  <2>2. (\E j \in 1..Len(script) : j < at + 1 /\ script[j].op = "spawn")
          = (\E j \in 1..Len(script) : j < at /\ script[j].op = "spawn")
    BY <2>1
  <2> QED
    BY <1>1, <2>2 DEF IInv, Pooled
<1>3. Waited'
  <2> SUFFICES ASSUME NEW j \in 1..Len(script), NEW k \in 1..Len(script),
                      j < k, k < at + 1, script[j].op = "spawn", script[k].op \in {"join", "results"}
               PROVE  queue \cup held \cup dead = {}
    BY <1>1 DEF Waited
  <2>1. k # at
    BY <1>1
  <2>2. k < at
    BY <1>1, <2>1
  <2> QED
    BY <2>2 DEF IInv, Waited
<1>4. PICK k \in 1..Len(script) :
        /\ at < k /\ script[k].op = "cancel"
        /\ \A j \in 1..Len(script) : at < j /\ j < k => script[j].op \in {"client", "spawn", "join", "results"}
  BY <1>1 DEF Cancels
<1>5. Registered'
  <2>1. at + 1 <= k /\ \A j \in 1..Len(script) :
            at + 1 <= j /\ j < k => script[j].op \in {"client", "spawn", "join", "results"}
    BY <1>1, <1>4
  <2>2. at < at + 1 /\ \A i \in 1..Len(script) : at < i /\ i < at + 1 => script[i].op # "cancel"
    BY <1>1
  <2> QED
    BY <1>1, <1>4, <2>1, <2>2 DEF IInv, Registered
<1>6. Left'
  BY <1>1 DEF Left
<1> QED
  BY <1>2, <1>3, <1>5, <1>6

\* The tasks are created, for all servers of the command.
LEMMA SpawnIInv ==
    ASSUME IInv, SpawnWorkers
    PROVE  Pooled' /\ Waited' /\ Registered' /\ Left'
<1>1. /\ Len(script) \in Nat /\ script' = script /\ Worker_' = Worker_ /\ command' = command
      /\ at \in 1..Len(script) /\ at' = at + 1 /\ outcome = "running" /\ outcome' = "running"
      /\ script[at].op = "spawn"
      /\ Cancels(script) /\ GathersTasks(script) /\ SpawnsOnce(script)
  BY ScriptFacts, SameScript DEF IInv, Typed, WellMade, SpawnWorkers
<1>2. /\ taskSet' = "registered" /\ workers' = "running" /\ servers' = servers
      /\ toContact' = servers
      /\ UNCHANGED <<dead, got, failed>>
      /\ \/ queue' = {} /\ held' = servers
         \/ queue' = servers /\ held' = {} /\ ~script[at].worker.each
  BY DEF SpawnWorkers
<1>3. dead = {} /\ got = {} /\ failed = {}
  <2>1. workers = "none"
    BY <1>1, NoPoolYet DEF IInv
  <2> QED
    BY <2>1 DEF IInv, Pooled
<1>4. Pooled'
  <2>1. (\E i \in 1..Len(script) : script[i].op = "results") => queue' = {}
    BY <1>1, <1>2 DEF GathersTasks
  <2>2. at < at + 1
    BY <1>1
  <2>3. queue' \cup held' \cup dead' \cup got' \cup failed' = servers'
    BY <1>2, <1>3
  <2>4. /\ queue' \cap (held' \cup got' \cup failed') = {}
        /\ held' \cap (got' \cup failed') = {} /\ got' \cap failed' = {}
        /\ toContact' = servers' \ got'
    BY <1>2, <1>3
  <2>5. \E j \in 1..Len(script) : j < at + 1 /\ script[j].op = "spawn"
    BY <1>1, <2>2
  <2> QED
    BY <1>1, <1>2, <2>1, <2>3, <2>4, <2>5 DEF Pooled
<1>5. Waited'
  <2> SUFFICES ASSUME NEW j \in 1..Len(script), NEW k \in 1..Len(script),
                      j < k, k < at + 1, script[j].op = "spawn", script[k].op \in {"join", "results"}
               PROVE  FALSE
    BY <1>1 DEF Waited
  <2>1. j < at
    BY <1>1
  <2> QED
    BY <1>1, <2>1 DEF SpawnsOnce
<1>6. PICK k \in 1..Len(script) :
        /\ at < k /\ script[k].op = "cancel"
        /\ \A j \in 1..Len(script) : at < j /\ j < k => script[j].op \in {"client", "spawn", "join", "results"}
  BY <1>1 DEF Cancels
<1>7. Registered'
  <2>1. at + 1 <= k /\ \A j \in 1..Len(script) :
            at + 1 <= j /\ j < k => script[j].op \in {"client", "spawn", "join", "results"}
    BY <1>1, <1>6
  <2>2. at < at + 1 /\ \A i \in 1..Len(script) : at < i /\ i < at + 1 => script[i].op # "cancel"
    BY <1>1
  <2> QED
    BY <1>1, <1>2, <1>6, <2>1, <2>2 DEF Registered
<1>8. Left'
  BY <1>1 DEF Left
<1> QED
  BY <1>4, <1>5, <1>7, <1>8

\* cancel() pops the set, and there were tasks to cancel.
LEMMA CancelIInv ==
    ASSUME IInv, CancelTasks
    PROVE  Pooled' /\ Waited' /\ Registered' /\ Left'
<1>1. /\ Len(script) \in Nat /\ script' = script /\ Worker_' = Worker_ /\ command' = command
      /\ at \in 1..Len(script) /\ at' = at + 1 /\ outcome = "running" /\ outcome' = "running"
      /\ script[at].op = "cancel"
      /\ taskSet' = "popped" /\ workers' = "cancelled" /\ UNCHANGED <<pool, servers>>
      /\ Cancels(script)
  BY ScriptFacts, SameScript DEF IInv, Typed, WellMade, CancelTasks
<1>2. Pooled'
  <2>1. workers # "none"
    BY <1>1 DEF IInv, Pooled, Cancels
  <2>2. \E j \in 1..Len(script) : j < at + 1 /\ script[j].op = "spawn"
    <3>1. PICK j \in 1..Len(script) : j < at /\ script[j].op = "spawn"
      BY <1>1 DEF Cancels
    <3>2. j < at + 1
      BY <1>1, <3>1
    <3> QED
      BY <3>1, <3>2
  <2> QED
    BY <1>1, <2>1, <2>2 DEF IInv, Pooled
<1>3. Waited'
  <2> SUFFICES ASSUME NEW j \in 1..Len(script), NEW k \in 1..Len(script),
                      j < k, k < at + 1, script[j].op = "spawn", script[k].op \in {"join", "results"}
               PROVE  queue \cup held \cup dead = {}
    BY <1>1 DEF Waited
  <2>1. k # at
    BY <1>1
  <2>2. k < at
    BY <1>1, <2>1
  <2> QED
    BY <2>2 DEF IInv, Waited
<1>4. Registered' /\ Left'
  BY <1>1 DEF Registered, Left
<1> QED
  BY <1>2, <1>3, <1>4

-----------------------------------------------------------------------------
(***************************************************************************)
(* Workers and shutdown(), beside the command                              *)
(***************************************************************************)
\* Nothing the command changes but its pool, whose workers may be cancelled.
Beside ==
    /\ UNCHANGED <<user, at, room, messages, taskSet, directory, end>>
    /\ workers' \in {workers, "cancelled"}

\* A step beside the command leaves what only the command changes.
LEMMA BesideSteps ==
    ASSUME IInv, Beside, Pooled', Waited', Left'
    PROVE  IInv'
<1>1. /\ script' = script /\ ARoom' = ARoom /\ Skipped' = Skipped
      /\ UNCHANGED <<at, command, hasKey, phase, servers, kept, loose, controls, retries, batches,
                     taskSet, outcome, cause>>
      /\ workers' \in {workers, "cancelled"}
  BY SameScript DEF Beside, ARoom, Skipped
<1>2. Typed'
  BY <1>1 DEF IInv, Typed
<1>3. Registered'
  BY <1>1 DEF IInv, Registered
<1>4. Controlled' /\ Heard'
  BY <1>1 DEF IInv, Controlled, Heard
<1>5. Inside'
  BY <1>1 DEF IInv, Inside
<1>6. Keyed'
  BY <1>1 DEF IInv, Keyed
<1> QED
  BY <1>2, <1>3, <1>4, <1>5, <1>6 DEF IInv

\* A worker takes a server from the queue.
LEMMA WorkerTakesIInv == ASSUME IInv, WorkerTakes PROVE IInv'
<1>1. PICK s \in queue : queue' = queue \ {s} /\ held' = held \cup {s}
  BY DEF WorkerTakes
<1>2. /\ workers = "running" /\ script' = script /\ Worker_' = Worker_
      /\ UNCHANGED <<command, at, servers, dead, got, failed, toContact, workers, taskSet, outcome>>
  BY SameScript DEF WorkerTakes
<1>3. Pooled'
  BY <1>1, <1>2 DEF IInv, Pooled
<1>4. Waited'
  BY <1>1, <1>2 DEF IInv, Waited
<1>5. Left'
  BY <1>1, <1>2 DEF IInv, Left
<1>6. Beside
  BY DEF WorkerTakes, Beside
<1> QED
  BY <1>3, <1>4, <1>5, <1>6, BesideSteps

\* An answer is stored, and its server crossed off.
LEMMA WorkerAnsweredIInv == ASSUME IInv, WorkerAnswered PROVE IInv'
<1>1. PICK s \in held :
        got' = got \cup {s} /\ toContact' = CrossedOff(s, TRUE) /\ held' = held \ {s}
  BY DEF WorkerAnswered
<1>2. /\ workers = "running" /\ script' = script /\ Worker_' = Worker_
      /\ UNCHANGED <<command, at, servers, queue, dead, failed, workers, taskSet, outcome>>
  BY SameScript DEF WorkerAnswered
<1>3. Pooled'
  <2>1. /\ toContact' \subseteq servers
        /\ Worker_.notes => toContact' = servers \ got'
    BY <1>1, <1>2 DEF IInv, Pooled, CrossedOff
  <2>2. /\ queue \cup held' \cup dead \cup got' \cup failed = servers
        /\ queue \cap (held' \cup got' \cup failed) = {}
        /\ held' \cap (got' \cup failed) = {}
        /\ got' \cap failed = {}
    BY <1>1, <1>2 DEF IInv, Pooled
  <2> QED
    BY <1>2, <2>1, <2>2 DEF IInv, Pooled
<1>4. Waited'
  BY <1>1, <1>2 DEF IInv, Waited
<1>5. Left'
  BY <1>1, <1>2 DEF IInv, Left
<1>6. Beside
  BY DEF WorkerAnswered, Beside
<1> QED
  BY <1>3, <1>4, <1>5, <1>6, BesideSteps

\* A failure is swallowed, or it is the end of the worker.
LEMMA WorkerFailsIInv == ASSUME IInv, WorkerFails PROVE IInv'
<1>1. PICK s \in held :
        /\ held' = held \ {s} /\ toContact' = CrossedOff(s, FALSE)
        /\ \/ failed' = failed \cup {s} /\ dead' = dead
           \/ failed' = failed /\ dead' = dead \cup {s}
  BY DEF WorkerFails
<1>2. /\ workers = "running" /\ script' = script /\ Worker_' = Worker_
      /\ UNCHANGED <<command, at, servers, queue, got, workers, taskSet, outcome>>
  BY SameScript DEF WorkerFails
<1>3. Pooled'
  <2>1. toContact' = toContact
    BY <1>1 DEF CrossedOff
  <2>2. /\ queue \cup held' \cup dead' \cup got \cup failed' = servers
        /\ queue \cap (held' \cup got \cup failed') = {}
        /\ held' \cap (got \cup failed') = {}
        /\ got \cap failed' = {}
    BY <1>1, <1>2 DEF IInv, Pooled
  <2> QED
    BY <1>2, <2>1, <2>2 DEF IInv, Pooled
<1>4. Waited'
  BY <1>1, <1>2 DEF IInv, Waited
<1>5. Left'
  BY <1>1, <1>2 DEF IInv, Left
<1>6. Beside
  BY DEF WorkerFails, Beside
<1> QED
  BY <1>3, <1>4, <1>5, <1>6, BesideSteps

\* shutdown() ends the tasks that ask a server.
LEMMA StopPluginIInv == ASSUME IInv, StopPlugin PROVE IInv'
<1>1. /\ script' = script /\ Worker_' = Worker_
      /\ UNCHANGED <<command, at, servers, queue, got, failed, toContact, taskSet, outcome>>
      /\ \/ workers = "running" /\ workers' = "cancelled" /\ dead' = dead \cup held /\ held' = {}
         \/ UNCHANGED <<workers, dead, held>>
  BY SameScript DEF StopPlugin
<1>2. Pooled'
  <2>1. held' \cup dead' = held \cup dead /\ held' \subseteq held
    BY <1>1
  <2>2. workers' # "none" <=> workers # "none"
    BY <1>1
  <2> QED
    BY <1>1, <2>1, <2>2 DEF IInv, Pooled
<1>3. Waited'
  BY <1>1 DEF IInv, Waited
<1>4. Left'
  BY <1>1 DEF IInv, Left
<1>5. Beside
  BY DEF StopPlugin, Beside
<1> QED
  BY <1>2, <1>3, <1>4, <1>5, BesideSteps

-----------------------------------------------------------------------------
(***************************************************************************)
(* Every step                                                              *)
(***************************************************************************)
\* The directory survives its errors so often and no more.
LEMMA DirectorySteps ==
    ASSUME Typed, Talk \/ RoomData \/ Wait \/ Tasking
    PROVE  retries' \in Nat /\ retries' <= MaxRetries /\ batches' \in Nat /\ batches' <= MaxBatches
<1>1. /\ retries \in Nat /\ retries <= MaxRetries /\ batches \in Nat /\ batches <= MaxBatches
      /\ MaxRetries \in Nat /\ MaxBatches \in Nat
  BY CommandsAssumption DEF Typed
<1>2. CASE NextBatch
  BY <1>1, <1>2 DEF NextBatch
<1>3. CASE BatchFails
  BY <1>1, <1>3 DEF BatchFails, Patient
<1>4. CASE ~NextBatch /\ ~BatchFails
  <2>1. directory' = directory
    <3>1. CASE Talk
      BY <1>4, <3>1 DEF Talk, CommandReturns, Speak, CallClient, ClientRaises, CheckArgument,
         CheckKey, Request, TakeTargets, AskMembers, RefuseMany, ShowPages, AddControl
    <3>2. CASE RoomData
      BY <3>2 DEF RoomData, SkipRoom, ResolveRoom, HostsFromClient, HostsFromState, LastEvent,
         VersionOfRoom
    <3>3. CASE Wait
      BY <3>3 DEF Wait, Joined, Gathered
    <3>4. CASE Tasking
      BY <3>4 DEF Tasking, SetUp, SpawnWorkers, CancelTasks
    <3> QED
      BY <3>1, <3>2, <3>3, <3>4
  <2> QED
    BY <1>1, <2>1
<1> QED
  BY <1>2, <1>3, <1>4

\* The steps on tasks leave the servers.
LEMMA TaskingServers ==
    ASSUME Tasking
    PROVE  /\ servers' = servers
           /\ taskSet' \in {"registered", "popped"} /\ workers' \in {workers, "running", "cancelled"}
BY DEF Tasking, SetUp, SpawnWorkers, CancelTasks

\* Every step of the command keeps the types.
LEMMA TypedIInv ==
    ASSUME Typed, Inside, Talk \/ RoomData \/ Wait \/ Tasking
    PROVE  Typed'
<1>1. Tells /\ Authorised
  BY TellingSteps, SigningSteps
<1>2. retries' \in Nat /\ retries' <= MaxRetries /\ batches' \in Nat /\ batches' <= MaxBatches
  BY DirectorySteps
<1>3. /\ servers' \subseteq Servers \cup {Itself}
      /\ taskSet' \in {"none", "registered", "popped"}
      /\ workers' \in {"none", "running", "cancelled"}
  <2>1. CASE Tasking
    BY <2>1, TaskingServers DEF Typed
  <2>2. CASE Talk \/ RoomData \/ Wait
    BY <2>2, QuietSteps DEF Quietly, Typed
  <2> QED
    BY <2>1, <2>2
<1>4. /\ command' = command /\ hasKey' = hasKey /\ script' = script
      /\ phase' \in {"start", "hosts", "join", "last", "version"}
  BY <1>1, SameScript DEF Authorised
<1>5. at' \in 1..(Len(script) + 1)
  <2>1. Len(script) \in Nat /\ at \in 1..(Len(script) + 1)
    BY ScriptFacts DEF Typed, WellMade
  <2>2. at' = at \/ (at' = at + 1 /\ at <= Len(script))
    BY <1>1 DEF Tells
  <2> QED
    BY <2>1, <2>2
<1>6. /\ outcome' \in {"running", "returned", "raised", "waiting"}
      /\ (outcome' = "raised") = (cause' # "none")
  BY <1>1 DEF Typed, Authorised
<1>7. kept' \in Nat /\ loose' \in Nat /\ controls' \in Nat /\ controls' <= kept'
  BY <1>1 DEF Tells
<1> QED
  BY <1>2, <1>3, <1>4, <1>5, <1>6, <1>7 DEF Typed

\* A step of the command keeps the invariant.
LEMMA CommandStepIInv == ASSUME IInv, CommandStep PROVE IInv'
<1>1. Talk \/ RoomData \/ Wait \/ Tasking
  BY DEF CommandStep, Talk, RoomData, Wait, Tasking
<1>2. Typed'
  BY <1>1, TypedIInv DEF IInv
<1>3. Controlled' /\ Heard'
  BY <1>1, TellingSteps, MessagesIInv DEF IInv
<1>4. Inside' /\ Keyed'
  BY <1>1, SigningSteps, KeyIInv DEF IInv
<1>5. Pooled' /\ Waited' /\ Registered' /\ Left'
  <2>1. CASE Talk \/ RoomData \/ Wait
    BY <2>1, QuietSteps, QuietPool, QuietWaited, QuietRegistered DEF IInv
  <2>2. CASE Tasking
    BY <2>2, SetUpIInv, SpawnIInv, CancelIInv DEF Tasking
  <2> QED
    BY <1>1, <2>1, <2>2
<1> QED
  BY <1>2, <1>3, <1>4, <1>5 DEF IInv

\* It holds at first,
LEMMA InitIInv == Init => IInv
<1> SUFFICES ASSUME Init PROVE IInv
  OBVIOUS
<1>1. Typed
  <2>1. command \in DOMAIN Script
    BY DEF Init
  <2>2. Len(script) \in Nat
    BY <2>1, ScriptsAreWellMade DEF WellMade, script
  <2> QED
    BY <2>1, <2>2, CommandsAssumption DEF Init, Typed
<1>2. Len(script) \in Nat /\ \A j \in 1..Len(script) : ~(j < 1)
  BY <1>1, ScriptFacts DEF WellMade
<1>3. Pooled /\ Waited
  BY <1>2 DEF Init, Pooled, Waited
<1>4. Registered /\ Left /\ Controlled /\ Heard /\ Inside /\ Keyed
  BY <1>2 DEF Init, Registered, Left, Controlled, Heard, Inside, Keyed
<1> QED
  BY <1>1, <1>3, <1>4 DEF IInv

\* every step keeps it,
LEMMA NextIInv == IInv /\ [Next]_vars => IInv'
<1> SUFFICES ASSUME IInv, [Next]_vars PROVE IInv'
  OBVIOUS
<1>1. CASE CommandStep
  BY <1>1, CommandStepIInv
<1>2. CASE WorkerStep
  BY <1>2, WorkerTakesIInv, WorkerAnsweredIInv, WorkerFailsIInv DEF WorkerStep
<1>3. CASE StopPlugin
  BY <1>3, StopPluginIInv
<1>4. CASE UNCHANGED vars
  <2>1. /\ Beside /\ UNCHANGED <<pool, workers>> /\ script' = script /\ Worker_' = Worker_
    BY <1>4, SameScript DEF vars, Beside
  <2>2. Pooled' /\ Waited' /\ Left'
    BY <2>1 DEF Beside, IInv, Pooled, Waited, Left
  <2> QED
    BY <2>1, <2>2, BesideSteps
<1> QED
  BY <1>1, <1>2, <1>3, <1>4 DEF Next

\* and so it always holds.
LEMMA Invariant == Spec => []IInv
BY InitIInv, NextIInv, PTL DEF Spec

-----------------------------------------------------------------------------
(***************************************************************************)
(* What follows                                                            *)
(***************************************************************************)
\* In every command the variables keep their types, the pool holds servers of the
\* command only, and no message has two controls.
THEOREM TypeCorrect == Spec => []TypeOK
<1>1. IInv => TypeOK
  <2> SUFFICES ASSUME IInv PROVE TypeOK
    OBVIOUS
  <2>1. queue \cup held \cup dead \cup got \cup failed \cup toContact \subseteq servers
    BY DEF IInv, Pooled
  <2> QED
    BY <2>1 DEF TypeOK, IInv, Typed
<1> QED
  BY <1>1, Invariant, PTL

\* A command that returned popped its task set and left no task running: between
\* the set-up and the cancel() of every script no step returns.
THEOREM NoTaskOutlives == Spec => []NoTaskOutlivesItsCommand
<1>1. IInv => NoTaskOutlivesItsCommand
  BY DEF IInv, Registered, NoTaskOutlivesItsCommand
<1> QED
  BY <1>1, Invariant, PTL

\* An exception leaves a registered task set behind in head, find_event and
\* discover only, and tasks that still ask a server in head only.
THEOREM OnlyTheseLeave == Spec => []OnlyTheseLeaveTasks
<1>1. IInv => OnlyTheseLeaveTasks
  BY DEF IInv, Left, Pooled, OnlyTheseLeaveTasks
<1> QED
  BY <1>1, Invariant, PTL

\* When the table is made every server was asked and is in it once, with its answer
\* or as a swallowed failure, and the servers to contact are the failures.
THEOREM TablesAreComplete == Spec => []TableIsComplete
<1>1. IInv => TableIsComplete
  <2> SUFFICES ASSUME IInv, On("pages"), workers # "none"
               PROVE  /\ got \cup failed = servers /\ got \cap failed = {}
                      /\ Worker_.notes => toContact = failed
    BY DEF TableIsComplete
  <2>1. at \in 1..Len(script) /\ script[at].op = "pages" /\ WaitsFirst(script) /\ Len(script) \in Nat
    BY ScriptFacts DEF IInv, Typed, WellMade
  <2>2. PICK j \in 1..Len(script) : j < at /\ script[j].op = "spawn"
    BY DEF IInv, Pooled
  <2>3. PICK k \in 1..Len(script) : j < k /\ k < at /\ script[k].op \in {"join", "results"}
    BY <2>1, <2>2 DEF WaitsFirst
  <2>4. queue \cup held \cup dead = {}
    BY <2>2, <2>3 DEF IInv, Waited
  <2> QED
    BY <2>4 DEF IInv, Pooled
<1> QED
  BY <1>1, Invariant, PTL

\* Of a command that came to its last step every message in its list has its
\* cleanup control.
THEOREM MessagesAreCleared == Spec => []MessagesCanBeCleared
<1>1. IInv => MessagesCanBeCleared
  <2> SUFFICES ASSUME IInv, at = Len(script) + 1 PROVE controls = kept
    BY DEF MessagesCanBeCleared
  <2>1. Len(script) \in Nat /\ CleansUp(script)
    BY ScriptFacts DEF IInv, WellMade
  <2>2. \A k \in 1..Len(script) : k < at
    BY <2>1
  <2> QED
    BY <2>1, <2>2 DEF CleansUp, IInv, Controlled
<1> QED
  BY <1>1, Invariant, PTL

\* No command but "fed" and an empty directory returns without a word, and a
\* missing signing key is an exception in three commands only: everywhere else the
\* check for it comes before the first request that is signed.
THEOREM NeverIsSilent == Spec => []NeverSilent
<1>1. IInv => NeverSilent
  <2> SUFFICES ASSUME IInv PROVE NeverSilent
    OBVIOUS
  <2>1. Len(script) \in Nat /\ Speaks(command, script)
    BY ScriptFacts DEF IInv, WellMade
  <2>2. ASSUME outcome = "returned", command \notin {"fed", "publicrooms"}
        PROVE  kept + loose > 0
    <3>1. CASE at = Len(script) + 1
      <4>1. PICK i \in 1..Len(script) : Says(script[i])
        BY <2>1, <2>2 DEF Speaks
      <4>2. i < at
        BY <2>1, <3>1
      <4> QED
        BY <4>1, <4>2 DEF IInv, Heard
    <3>2. CASE at # Len(script) + 1
      BY <2>2, <3>2 DEF IInv, Heard
    <3> QED
      BY <3>1, <3>2
  <2> QED
    BY <2>2 DEF NeverSilent, IInv, Keyed
<1> QED
  BY <1>1, Invariant, PTL
=============================================================================
