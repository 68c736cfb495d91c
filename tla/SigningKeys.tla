------------------------------ MODULE SigningKeys ------------------------------
(***************************************************************************)
(* verify_signatures_and_annotate_event and the keys it looks up: from the *)
(* cache, from the server that signed, from the hosting server as notary.  *)
(* Several commands verify at the same time, and may hold the same Event,  *)
(* since the events cache hands out one object.                            *)
(***************************************************************************)
EXTENDS Naturals, SequencesExt

CONSTANTS
    Servers,        \* servers that sign
    Callers,        \* coroutines that verify
    Events,         \* Event objects
    SignaturesOf,   \* their signatures, in order: server, key id, the key it was made with
    Notary,         \* the server of the bot, which is asked for keys of others
    Worlds,         \* what servers and notary answer: direct, notary
    NoKeys,         \* no entry in the cache
    MaxFaults       \* bound on the requests that fail

ASSUME SigningKeysAssumption ==
    /\ \A e \in Events :
        /\ Len(SignaturesOf[e]) \in Nat
        /\ DOMAIN SignaturesOf[e] = 1..Len(SignaturesOf[e])
        /\ \A i \in DOMAIN SignaturesOf[e] : SignaturesOf[e][i].server \in Servers
    /\ Notary \in Servers
    /\ MaxFaults \in Nat

VARIABLES
    world,          \* direct: server -> key set, notary: server -> list of key sets
    cache,          \* _server_keys_cache: server -> verify_keys
    verdict,        \* event -> its signatures_verified
    call,           \* caller -> [pc, event, i]: the signature whose key it waits for
    faults

vars == <<world, cache, verdict, call, faults>>

-----------------------------------------------------------------------------
(***************************************************************************)
(* ServerVerifyKeys: key id -> [key, until]. A key set has current keys,   *)
(* the time until which they are valid (0 when it is missing), and old     *)
(* keys with their own.                                                    *)
(***************************************************************************)
Empty == [current |-> << >>, until |-> 0, old |-> << >>]

\* An id among both is an old key.
ServerVerifyKeys(set) ==
    [k \in DOMAIN set.current \cup DOMAIN set.old |->
        IF k \in DOMAIN set.old THEN set.old[k]
        ELSE [key |-> set.current[k], until |-> set.until]]

\* A known key keeps its bytes and gets the later time, a new one is added.
Extended(keys, more) ==
    [k \in DOMAIN keys \cup DOMAIN more |->
        IF k \notin DOMAIN keys THEN more[k]
        ELSE IF k \notin DOMAIN more THEN keys[k]
        ELSE [keys[k] EXCEPT !.until = Max({more[k].until, @})]]

Currents(set) == [k \in DOMAIN set.current |-> [key |-> set.current[k], until |-> set.until]]

\* Mutant: a known key takes the time of the set that was read last.
UpdateLast(keys, set) == ServerVerifyKeys(set) @@ keys

\* update_key_data_from_dict: the current keys, then the old ones.
Update(keys, set) == Extended(Extended(keys, Currents(set)), set.old)

\* update_key_data_from_list, on no keys: what the first n of the sets leave.
Merged(sets) ==
    LET first[n \in 0..Len(sets)] ==
            IF n = 0 THEN ServerVerifyKeys(Empty) ELSE Update(first[n - 1], sets[n])
    IN  first[Len(sets)]

IsKeySet(set) ==
    /\ set.until \in Nat
    /\ \A k \in DOMAIN set.old : set.old[k] = [key |-> set.old[k].key, until |-> set.old[k].until]
    /\ \A k \in DOMAIN set.old : set.old[k].until \in Nat

\* A server does not use the id of a key for another key, so server and notary
\* name the same one. Nothing else is assumed of what they answer.
ASSUME WorldsAssumption ==
    \A w \in Worlds, s \in Servers :
        /\ IsKeySet(w.direct[s])
        /\ Len(w.notary[s]) \in Nat /\ DOMAIN w.notary[s] = 1..Len(w.notary[s])
        /\ \A i \in 1..Len(w.notary[s]) : IsKeySet(w.notary[s][i])
        /\ \A k \in DOMAIN ServerVerifyKeys(w.direct[s]) \cap DOMAIN Merged(w.notary[s]) :
                ServerVerifyKeys(w.direct[s])[k].key = Merged(w.notary[s])[k].key

-----------------------------------------------------------------------------
Signatures(v) == SignaturesOf[call[v].event]
Waiting(v) == Signatures(v)[call[v].i]
Signers(e) == {SignaturesOf[e][i].server : i \in DOMAIN SignaturesOf[e]}

\* Whether the keys name the one of the signature; whether a cache entry does.
Names(keys, signature) == signature.key \in DOMAIN keys
Has(entry, signature) == entry # NoKeys /\ Names(entry, signature)

Result(signature, keys) ==
    IF keys[signature.key].key = signature.by THEN "SUCCESS" ELSE "FAIL"

Init ==
    /\ world \in Worlds
    /\ cache \in {[s \in Servers |-> NoKeys],
                  [s \in Servers |-> ServerVerifyKeys(world.direct[s])],
                  [s \in Servers |-> Merged(world.notary[s])]}
    /\ verdict = [e \in Events |-> [s \in Signers(e) |-> "UNKNOWN"]]
    /\ call \in [Callers -> [pc : {"idle"}, event : Events, i : {1}]]
    /\ faults = 0

Uncached(e, i, keys) ==
    {j \in i..Len(SignaturesOf[e]) : ~Has(keys[SignaturesOf[e][j].server], SignaturesOf[e][j])}

\* Mutant: one iteration more.
StopBeyond(e, i, keys) == Min(Uncached(e, i, keys) \cup {Len(SignaturesOf[e]) + 2})

Stop(e, i, keys) == Min(Uncached(e, i, keys) \cup {Len(SignaturesOf[e]) + 1})

\* The loop from signature i on, up to the first whose key is not cached: nothing
\* interrupts it, and of two signatures of a server the later one counts.
Proceed(v, i, verdicts, keys) ==
    LET e == call[v].event
        stop == Stop(e, i, keys)
        judged(s) == {j \in DOMAIN SignaturesOf[e] :
                        i <= j /\ j < stop /\ SignaturesOf[e][j].server = s}
    IN  /\ verdict' = [verdict EXCEPT ![e] =
                [s \in DOMAIN @ |->
                    IF judged(s) = {} THEN verdicts[s]
                    ELSE Result(SignaturesOf[e][Max(judged(s))], keys[s])]]
        /\ call' = [call EXCEPT ![v] =
                [pc |-> IF Uncached(e, i, keys) = {} THEN "verified" ELSE "server",
                 event |-> e, i |-> stop]]

Verify(v) ==
    /\ call[v].pc = "idle"
    /\ Proceed(v, 1, verdict[call[v].event], cache)
    /\ UNCHANGED <<world, cache, faults>>

\* Mutant: what the notary says is kept under the notary's name.
StoreForNotary(v, keys) ==
    cache' = [cache EXCEPT ![IF call[v].pc = "notary" THEN Notary ELSE Waiting(v).server] = keys]

\* The last answer replaces what was cached, even when it is empty.
Store(v, keys) == cache' = [cache EXCEPT ![Waiting(v).server] = keys]

\* get_server_key_by_id returns the answer. The signature is judged with it, or
\* left alone when the key is not there.
KeysReturned(v, keys) ==
    LET verdicts == verdict[call[v].event]
        signature == Waiting(v)
    IN  /\ Store(v, keys)
        /\ Proceed(v, call[v].i + 1,
                   IF Names(keys, signature)
                   THEN [verdicts EXCEPT ![signature.server] = Result(signature, keys)]
                   ELSE verdicts,
                   cache')

\* A request that fails is an answer without keys.
ServerAnswers(v) ==
    /\ call[v].pc = "server"
    /\ \E fault \in {0, 1} :
        /\ faults + fault <= MaxFaults
        /\ faults' = faults + fault
        /\ LET keys == ServerVerifyKeys(IF fault = 1 THEN Empty ELSE world.direct[Waiting(v).server])
           IN  IF Names(keys, Waiting(v)) THEN KeysReturned(v, keys)
               ELSE call' = [call EXCEPT ![v].pc = "notary"] /\ UNCHANGED <<cache, verdict>>
    /\ UNCHANGED world

NotaryAnswers(v) ==
    /\ call[v].pc = "notary"
    /\ \E fault \in {0, 1} :
        /\ faults + fault <= MaxFaults
        /\ faults' = faults + fault
        /\ KeysReturned(v, IF fault = 1 THEN ServerVerifyKeys(Empty)
                           ELSE Merged(world.notary[Waiting(v).server]))
    /\ UNCHANGED world

\* A request, or an answer that cannot be parsed, raises before anything is cached:
\* the event keeps the verdicts it has. The keys of an answer that can are usable
\* (one of a wrong length or an unknown algorithm is in no world; it would raise
\* only after it was stored, or when it is found in the cache).
LookupRaises(v) ==
    /\ call[v].pc \in {"server", "notary"}
    /\ call' = [call EXCEPT ![v].pc = "raised"]
    /\ UNCHANGED <<world, cache, verdict, faults>>

\* The cleanup of the cache drops keys nobody used for a while.
CleanupForgets(s) ==
    /\ cache[s] # NoKeys
    /\ cache' = [cache EXCEPT ![s] = NoKeys]
    /\ UNCHANGED <<world, verdict, call, faults>>

Next ==
    \/ \E v \in Callers :
        Verify(v) \/ ServerAnswers(v) \/ NotaryAnswers(v) \/ LookupRaises(v)
    \/ \E s \in Servers : CleanupForgets(s)

Spec == Init /\ [][Next]_vars

\* What the two repairs ask before they put an event on the list they send: a
\* dictionary is true when it has entries, whatever the verdicts in it.
GoodToSend(e) == DOMAIN verdict[e] # {}

-----------------------------------------------------------------------------
KeySet(keys) ==
    \A k \in DOMAIN keys :
        /\ keys[k] = [key |-> keys[k].key, until |-> keys[k].until]
        /\ keys[k].until \in Nat

TypeOK ==
    /\ \A s \in Servers : cache[s] = NoKeys \/ KeySet(cache[s])
    /\ \A e \in Events : verdict[e] \in [Signers(e) -> {"SUCCESS", "FAIL", "UNKNOWN"}]
    /\ \A v \in Callers :
        /\ call[v].pc \in {"idle", "server", "notary", "verified", "raised"}
        /\ call[v].i \in 1..Len(Signatures(v)) + 1
    /\ faults \in 0..MaxFaults

\* What server and notary together know of a server's keys.
Known(s) == Extended(ServerVerifyKeys(world.direct[s]), Merged(world.notary[s]))

\* The signatures of s on e that somebody has the key of.
Checkable(e, s) ==
    {i \in DOMAIN SignaturesOf[e] :
        SignaturesOf[e][i].server = s /\ Names(Known(s), SignaturesOf[e][i])}

\* Nobody else is, or got stuck, in the middle of the event.
Settled(e) == \A v \in Callers : call[v].event = e => call[v].pc \in {"idle", "verified"}

\* The verdict on a server is that of its last signature whose key the server or
\* the notary has, whatever was cached, replaced or forgotten meanwhile; it is
\* unknown only if neither has any, or a request failed. And a verdict is always
\* that of one of the server's own keys, never of another server's key of the
\* same id. That holds also for an Event object that several callers verified at
\* once, as soon as all of them are through.
VerdictsAreRight ==
    \A v \in Callers : call[v].pc = "verified" =>
        LET e == call[v].event IN
        \A s \in Signers(e) :
            LET verdictOf(i) == Result(SignaturesOf[e][i], Known(s)) IN
            /\ faults = 0 /\ Settled(e) =>
                verdict[e][s] = IF Checkable(e, s) = {} THEN "UNKNOWN"
                                ELSE verdictOf(Max(Checkable(e, s)))
            /\ verdict[e][s] \in {"UNKNOWN"} \cup {verdictOf(i) : i \in Checkable(e, s)}

Times(set, k) ==
    {set.until : x \in {k} \cap DOMAIN set.current} \cup {set.old[x].until : x \in {k} \cap DOMAIN set.old}

\* "For existing keys, takes the maximum validity timestamp": of a key that several
\* sets of the notary's answer name, the latest time is kept, in whatever order
\* they come.
NotaryKeepsTheLatest ==
    \A s \in Servers :
        LET sets == world.notary[s]
            keys == Merged(sets)
        IN  \A k \in DOMAIN keys :
                LET times == UNION {Times(sets[i], k) : i \in DOMAIN sets}
                IN  keys[k].until = Max(times)

-----------------------------------------------------------------------------
\* __init__.py:717 says of the repaired event "Only use it if it's verified,
\* otherwise it will fail on send". An event that was verified, and none of whose
\* signatures could be confirmed, passes.
OnlyVerifiedEventsAreSent ==
    \A v \in Callers : call[v].pc = "verified" /\ GoodToSend(call[v].event) =>
        \E s \in Signers(call[v].event) : verdict[call[v].event][s] = "SUCCESS"
=============================================================================
