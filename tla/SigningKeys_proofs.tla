-------------------------- MODULE SigningKeys_proofs --------------------------
(***************************************************************************)
(* Invariants of SigningKeys for any servers, events, callers and answers, *)
(* and what Merged computes for lists of key sets of any length.           *)
(***************************************************************************)
EXTENDS SigningKeys, WellFoundedInduction, TLAPS

-----------------------------------------------------------------------------
(***************************************************************************)
(* Least and greatest elements: CHOOSE finds them.                         *)
(***************************************************************************)
LEMMA NoDescent == ~ \E f \in [Nat -> Nat] : \A n \in Nat : f[n + 1] < f[n]
<1>1. ASSUME NEW f \in [Nat -> Nat], \A n \in Nat : f[n + 1] < f[n]
      PROVE  FALSE
  <2>1. \A n \in Nat : n + 1 \in Nat
    OBVIOUS
  <2> QED
    BY <1>1, <2>1, NatLessThanWellFounded, Zenon DEF IsWellFoundedOn, OpToRel
<1> QED
  BY <1>1

LEMMA Least ==
    ASSUME NEW S \in SUBSET Nat, S # {}
    PROVE  Min(S) \in S /\ \A n \in S : Min(S) <= n
<1> DEFINE R == {ss \in Nat \X Nat : ss[1] < ss[2]}
<1>1. IsWellFoundedOn(R, Nat)
  BY NoDescent DEF IsWellFoundedOn
<1>2. PICK m \in S : \A n \in S : ~ (<<n, m>> \in R)
  <2> HIDE DEF R
  <2> QED
    BY <1>1, WFMin
<1>3. ASSUME NEW n \in S PROVE m <= n
  <2>1. m \in Nat /\ n \in Nat
    OBVIOUS
  <2>2. n < m => <<n, m>> \in R
    BY <2>1
  <2> QED
    BY <1>2, <2>1, <2>2
<1> QED
  BY <1>3 DEF Min

LEMMA Greatest ==
    ASSUME NEW S \in SUBSET Nat, S # {}, NEW b \in Nat, \A n \in S : n <= b
    PROVE  Max(S) \in S /\ \A n \in S : n <= Max(S)
<1> DEFINE T == {b - n : n \in S}
<1>1. T \in SUBSET Nat /\ T # {}
  <2>1. \A n \in S : b - n \in Nat
    OBVIOUS
  <2> QED
    BY <2>1
<1>2. PICK m \in S : Min(T) = b - m
  BY <1>1, Least
<1>3. \A n \in S : b - m <= b - n
  BY <1>1, <1>2, Least
<1>4. \A n \in S : n <= m
  BY <1>3
<1> QED
  BY <1>4 DEF Max

-----------------------------------------------------------------------------
(***************************************************************************)
(* Merged: the function its definition chooses exists.                     *)
(***************************************************************************)
Step(g, sets, n) == IF n = 0 THEN ServerVerifyKeys(Empty) ELSE Update(g[n - 1], sets[n])

IsMerge(g, sets, N) == g = [n \in 0..N |-> Step(g, sets, n)]

Merges(sets) == CHOOSE g : IsMerge(g, sets, Len(sets))

LEMMA MergesExist ==
    ASSUME NEW sets, Len(sets) \in Nat
    PROVE  IsMerge(Merges(sets), sets, Len(sets))
<1> DEFINE Bad == {N \in 0..Len(sets) : ~ \E g : IsMerge(g, sets, N)}
<1>1. ASSUME Bad # {} PROVE FALSE
  <2>1. Min(Bad) \in Bad /\ \A n \in Bad : Min(Bad) <= n
    <3>1. Bad \in SUBSET Nat
      OBVIOUS
    <3> HIDE DEF Bad
    <3> QED
      BY <1>1, <3>1, Least
  <2>2. PICK m \in 0..Len(sets) : m = Min(Bad)
    BY <2>1
  <2>3. CASE m = 0
    <3> DEFINE h == [n \in 0..0 |-> ServerVerifyKeys(Empty)]
    <3>1. \A n \in 0..0 : Step(h, sets, n) = ServerVerifyKeys(Empty)
      BY DEF Step
    <3>2. IsMerge(h, sets, 0)
      BY <3>1 DEF IsMerge
    <3> QED
      BY <2>1, <2>2, <2>3, <3>2
  <2>4. CASE m # 0
    <3>1. m - 1 \in 0..Len(sets) /\ m - 1 \notin Bad
      <4>1. m - 1 \in 0..Len(sets) /\ ~ (m <= m - 1)
        BY <2>4
      <4> HIDE DEF Bad
      <4> QED
        BY <2>1, <2>2, <4>1
    <3>2. PICK g : IsMerge(g, sets, m - 1)
      BY <3>1
    <3> DEFINE h == [n \in 0..m |-> IF n = m THEN Update(g[m - 1], sets[m]) ELSE g[n]]
    <3>3. ASSUME NEW n \in 0..m PROVE h[n] = Step(h, sets, n)
      <4>1. n # m => g[n] = Step(g, sets, n)
        BY <3>2 DEF IsMerge
      <4>2. n # 0 => h[n - 1] = g[n - 1]
        OBVIOUS
      <4> QED
        BY <2>4, <4>1, <4>2 DEF Step
    <3>4. IsMerge(h, sets, m)
      BY <3>3 DEF IsMerge
    <3> QED
      BY <2>1, <2>2, <3>4
  <2> QED
    BY <2>3, <2>4
<1>2. \E g : IsMerge(g, sets, Len(sets))
  BY <1>1
<1> QED
  BY <1>2 DEF Merges

LEMMA MergedByMerges == ASSUME NEW sets PROVE Merged(sets) = Merges(sets)[Len(sets)]
  BY DEF Merged, Merges, IsMerge, Step

LEMMA PrefixZero ==
    ASSUME NEW sets, Len(sets) \in Nat
    PROVE  Merges(sets)[0] = ServerVerifyKeys(Empty)
  BY MergesExist DEF IsMerge, Step

LEMMA PrefixStep ==
    ASSUME NEW sets, Len(sets) \in Nat, NEW n \in 1..Len(sets)
    PROVE  Merges(sets)[n] = Update(Merges(sets)[n - 1], sets[n])
<1>1. n \in 0..Len(sets) /\ n # 0
  OBVIOUS
<1> QED
  BY <1>1, MergesExist DEF IsMerge, Step

\* Induction over the prefixes, for a property that is given as the set of the
\* places where it holds.
LEMMA PrefixInduction ==
    ASSUME NEW N \in Nat, NEW S, 0 \in S, \A n \in 1..N : n - 1 \in S => n \in S
    PROVE  \A n \in 0..N : n \in S
<1> DEFINE Bad == (0..N) \ S
<1>1. ASSUME Bad # {} PROVE FALSE
  <2>1. Bad \in SUBSET Nat
    OBVIOUS
  <2>2. Min(Bad) \in Bad /\ \A n \in Bad : Min(Bad) <= n
    <3> HIDE DEF Bad
    <3> QED
      BY <1>1, <2>1, Least
  <2>3. PICK m \in 1..N : m = Min(Bad)
    BY <2>2
  <2>4. m - 1 \in 0..N /\ ~ (m <= m - 1)
    OBVIOUS
  <2> QED
    BY <2>2, <2>3, <2>4
<1> QED
  BY <1>1

-----------------------------------------------------------------------------
(***************************************************************************)
(* Key sets: what an update adds and what it keeps.                        *)
(***************************************************************************)
LEMMA MaxOfTwo ==
    ASSUME NEW m \in Nat, NEW n \in Nat
    PROVE  Max({m, n}) = IF m <= n THEN n ELSE m
<1>1. {m, n} \in SUBSET Nat /\ {m, n} # {}
  OBVIOUS
<1>2. \A x \in {m, n} : x <= m + n
  OBVIOUS
<1>3. Max({m, n}) \in {m, n} /\ \A x \in {m, n} : x <= Max({m, n})
  BY <1>1, <1>2, Greatest, m + n \in Nat
<1> QED
  BY <1>3

\* Every key of either, under the bytes and at the later of the times it had.
IsExtension(new, keys, more) ==
    /\ KeySet(new)
    /\ DOMAIN new = DOMAIN keys \cup DOMAIN more
    /\ \A k \in DOMAIN keys : new[k].key = keys[k].key
    /\ \A k \in DOMAIN new :
        /\ k \notin DOMAIN more => new[k] = keys[k]
        /\ k \notin DOMAIN keys => new[k] = more[k]
        /\ k \in DOMAIN keys /\ k \in DOMAIN more =>
            /\ new[k].until = keys[k].until \/ new[k].until = more[k].until
            /\ keys[k].until <= new[k].until
            /\ more[k].until <= new[k].until

LEMMA ExtendedFacts ==
    ASSUME NEW keys, NEW more, KeySet(keys), KeySet(more)
    PROVE  IsExtension(Extended(keys, more), keys, more)
<1> DEFINE new == Extended(keys, more)
<1>1. DOMAIN new = DOMAIN keys \cup DOMAIN more
  BY DEF Extended
<1>2. ASSUME NEW k \in DOMAIN new, k \notin DOMAIN keys
      PROVE  new[k] = more[k] /\ k \in DOMAIN more
  BY <1>2, <1>1 DEF Extended
<1>3. ASSUME NEW k \in DOMAIN new, k \notin DOMAIN more
      PROVE  new[k] = keys[k] /\ k \in DOMAIN keys
  BY <1>3, <1>1 DEF Extended
<1>4. ASSUME NEW k \in DOMAIN keys, k \in DOMAIN more
      PROVE  /\ new[k] = [key |-> new[k].key, until |-> new[k].until]
             /\ new[k].key = keys[k].key
             /\ new[k].until = keys[k].until \/ new[k].until = more[k].until
             /\ keys[k].until <= new[k].until
             /\ more[k].until <= new[k].until
             /\ new[k].until \in Nat
  <2>1. more[k].until \in Nat /\ keys[k].until \in Nat
    BY <1>4 DEF KeySet
  <2>2. new[k] = [keys[k] EXCEPT !.until = Max({more[k].until, @})]
    BY <1>4, <1>1 DEF Extended
  <2>3. new[k] = [key |-> keys[k].key, until |-> Max({more[k].until, keys[k].until})]
    BY <2>2 DEF KeySet
  <2> QED
    BY <2>1, <2>3, MaxOfTwo
<1>5. KeySet(new)
  BY <1>1, <1>2, <1>3, <1>4 DEF KeySet
<1>6. \A k \in DOMAIN keys : new[k].key = keys[k].key
  BY <1>1, <1>3, <1>4
<1> QED
  BY <1>1, <1>2, <1>3, <1>4, <1>5, <1>6 DEF IsExtension

LEMMA ServerVerifyKeysType ==
    ASSUME NEW set, IsKeySet(set)
    PROVE  KeySet(ServerVerifyKeys(set))
  BY DEF IsKeySet, KeySet, ServerVerifyKeys

LEMMA NoKeysInEmpty == DOMAIN ServerVerifyKeys(Empty) = {} /\ KeySet(ServerVerifyKeys(Empty))
  BY DEF ServerVerifyKeys, Empty, KeySet

LEMMA CurrentsType == ASSUME NEW set, IsKeySet(set) PROVE KeySet(Currents(set)) /\ KeySet(set.old)
  BY DEF IsKeySet, KeySet, Currents

LEMMA UpdateType ==
    ASSUME NEW keys, NEW set, KeySet(keys), IsKeySet(set)
    PROVE  KeySet(Update(keys, set))
<1>1. KeySet(Extended(keys, Currents(set)))
  BY CurrentsType, ExtendedFacts DEF IsExtension
<1> QED
  BY <1>1, CurrentsType, ExtendedFacts DEF Update, IsExtension

IsKeySets(sets) ==
    /\ Len(sets) \in Nat /\ DOMAIN sets = 1..Len(sets)
    /\ \A i \in 1..Len(sets) : IsKeySet(sets[i])

LEMMA PrefixType ==
    ASSUME NEW sets, IsKeySets(sets)
    PROVE  \A n \in 0..Len(sets) : KeySet(Merges(sets)[n])
<1> DEFINE S == {n \in 0..Len(sets) : KeySet(Merges(sets)[n])}
<1>1. Len(sets) \in Nat
  BY DEF IsKeySets
<1>2. 0 \in S
  BY <1>1, PrefixZero, NoKeysInEmpty
<1>3. ASSUME NEW n \in 1..Len(sets), n - 1 \in S PROVE n \in S
  <2>1. n \in 0..Len(sets)
    BY <1>1
  <2>2. KeySet(Update(Merges(sets)[n - 1], sets[n]))
    BY <1>3, UpdateType DEF IsKeySets
  <2> QED
    BY <1>1, <2>1, <2>2, PrefixStep
<1>4. \A n \in 0..Len(sets) : n \in S
  <2> HIDE DEF S
  <2> QED
    BY <1>1, <1>2, <1>3, PrefixInduction
<1> QED
  BY <1>4

LEMMA MergedType == ASSUME NEW sets, IsKeySets(sets) PROVE KeySet(Merged(sets))
<1>1. Len(sets) \in 0..Len(sets)
  BY DEF IsKeySets
<1> QED
  BY <1>1, PrefixType, MergedByMerges

-----------------------------------------------------------------------------
(***************************************************************************)
(* The latest time: of every key, what a prefix of the sets leaves is a    *)
(* time one of them names, and none of them names a later one.             *)
(***************************************************************************)
LEMMA TimesFacts ==
    ASSUME NEW set, IsKeySet(set), NEW k
    PROVE  /\ Times(set, k) \subseteq Nat
           /\ k \in DOMAIN set.current => set.until \in Times(set, k)
           /\ k \in DOMAIN set.old => set.old[k].until \in Times(set, k)
           /\ \A t \in Times(set, k) :
                \/ k \in DOMAIN set.current /\ t = set.until
                \/ k \in DOMAIN set.old /\ t = set.old[k].until
  BY DEF Times, IsKeySet

LEMMA ExtensionLatest ==
    ASSUME NEW keys, NEW more, KeySet(keys), KeySet(more), NEW k,
           NEW new, IsExtension(new, keys, more)
    PROVE  /\ k \in DOMAIN new =>
                \/ k \in DOMAIN keys /\ new[k].until = keys[k].until
                \/ k \in DOMAIN more /\ new[k].until = more[k].until
           /\ k \in DOMAIN keys => k \in DOMAIN new /\ keys[k].until <= new[k].until
           /\ k \in DOMAIN more => k \in DOMAIN new /\ more[k].until <= new[k].until
<1>1. /\ k \in DOMAIN keys => keys[k].until \in Nat
      /\ k \in DOMAIN more => more[k].until \in Nat
  BY DEF KeySet
<1> QED
  BY <1>1 DEF IsExtension

LEMMA UpdateLatest ==
    ASSUME NEW keys, NEW set, KeySet(keys), IsKeySet(set), NEW k
    PROVE  LET new == Update(keys, set) IN
           /\ k \in DOMAIN new =>
                \/ k \in DOMAIN keys /\ new[k].until = keys[k].until
                \/ new[k].until \in Times(set, k)
           /\ k \in DOMAIN keys => k \in DOMAIN new /\ keys[k].until <= new[k].until
           /\ \A t \in Times(set, k) : k \in DOMAIN new /\ t <= new[k].until
<1>1. KeySet(Currents(set)) /\ KeySet(set.old)
  BY CurrentsType
<1>2. PICK half : /\ half = Extended(keys, Currents(set))
                  /\ IsExtension(half, keys, Currents(set))
                  /\ KeySet(half)
  <2>1. IsExtension(Extended(keys, Currents(set)), keys, Currents(set))
    BY <1>1, ExtendedFacts
  <2> QED
    BY <2>1 DEF IsExtension
<1>3. PICK new : new = Extended(half, set.old) /\ IsExtension(new, half, set.old)
  BY <1>1, <1>2, ExtendedFacts
<1>4. /\ k \in DOMAIN half =>
            \/ k \in DOMAIN keys /\ half[k].until = keys[k].until
            \/ k \in DOMAIN Currents(set) /\ half[k].until = Currents(set)[k].until
      /\ k \in DOMAIN keys => k \in DOMAIN half /\ keys[k].until <= half[k].until
      /\ k \in DOMAIN Currents(set) =>
            k \in DOMAIN half /\ Currents(set)[k].until <= half[k].until
  <2>1. KeySet(Currents(set)) /\ IsExtension(half, keys, Currents(set))
    BY <1>1, <1>2
  <2> QED
    BY <2>1, ExtensionLatest
<1>5. /\ k \in DOMAIN new =>
            \/ k \in DOMAIN half /\ new[k].until = half[k].until
            \/ k \in DOMAIN set.old /\ new[k].until = set.old[k].until
      /\ k \in DOMAIN half => k \in DOMAIN new /\ half[k].until <= new[k].until
      /\ k \in DOMAIN set.old => k \in DOMAIN new /\ set.old[k].until <= new[k].until
  <2>1. KeySet(half) /\ KeySet(set.old) /\ IsExtension(new, half, set.old)
    BY <1>1, <1>2, <1>3
  <2> QED
    BY <2>1, ExtensionLatest
<1>6. /\ DOMAIN Currents(set) = DOMAIN set.current
      /\ k \in DOMAIN set.current => Currents(set)[k].until = set.until
  BY DEF Currents
<1>7. /\ k \in DOMAIN keys => keys[k].until \in Nat
      /\ k \in DOMAIN half => half[k].until \in Nat
      /\ k \in DOMAIN new => new[k].until \in Nat
      /\ k \in DOMAIN set.old => set.old[k].until \in Nat
      /\ set.until \in Nat
  BY <1>1, <1>2, <1>3 DEF KeySet, IsKeySet, IsExtension
<1>8. new = Update(keys, set)
  BY <1>2, <1>3 DEF Update
<1> QED
  BY <1>4, <1>5, <1>6, <1>7, <1>8, TimesFacts

TimesUpTo(sets, n, k) == UNION {Times(sets[i], k) : i \in 1..n}

Latest(sets, n) ==
    \A k : /\ k \in DOMAIN Merges(sets)[n] =>
                Merges(sets)[n][k].until \in TimesUpTo(sets, n, k)
           /\ \A t \in TimesUpTo(sets, n, k) :
                k \in DOMAIN Merges(sets)[n] /\ t <= Merges(sets)[n][k].until

LEMMA PrefixLatest ==
    ASSUME NEW sets, IsKeySets(sets)
    PROVE  \A n \in 0..Len(sets) : Latest(sets, n)
<1> DEFINE S == {n \in 0..Len(sets) : Latest(sets, n)}
<1>1. Len(sets) \in Nat
  BY DEF IsKeySets
<1>2. 0 \in S
  <2>1. \A k : TimesUpTo(sets, 0, k) = {}
    BY DEF TimesUpTo
  <2> QED
    BY <1>1, <2>1, PrefixZero, NoKeysInEmpty DEF Latest
<1>3. ASSUME NEW n \in 1..Len(sets), n - 1 \in S PROVE n \in S
  <2> DEFINE keys == Merges(sets)[n - 1]
             new == Merges(sets)[n]
  <2>1. n \in 0..Len(sets) /\ n - 1 \in 0..Len(sets)
    BY <1>1
  <2>2. KeySet(keys) /\ KeySet(new) /\ IsKeySet(sets[n])
    BY <2>1, PrefixType DEF IsKeySets
  <2>3. new = Update(keys, sets[n])
    BY <1>1, PrefixStep
  <2>4. ASSUME NEW k
        PROVE  TimesUpTo(sets, n, k) = TimesUpTo(sets, n - 1, k) \cup Times(sets[n], k)
    <3>1. 1..n = (1..(n - 1)) \cup {n}
      OBVIOUS
    <3> QED
      BY <3>1 DEF TimesUpTo
  <2>5. ASSUME NEW k
        PROVE  /\ k \in DOMAIN new => new[k].until \in TimesUpTo(sets, n, k)
               /\ \A t \in TimesUpTo(sets, n, k) : k \in DOMAIN new /\ t <= new[k].until
    <3>1. /\ k \in DOMAIN keys => keys[k].until \in TimesUpTo(sets, n - 1, k)
          /\ \A t \in TimesUpTo(sets, n - 1, k) : k \in DOMAIN keys /\ t <= keys[k].until
      BY <1>3 DEF Latest
    <3>2. /\ k \in DOMAIN new =>
                \/ k \in DOMAIN keys /\ new[k].until = keys[k].until
                \/ new[k].until \in Times(sets[n], k)
          /\ k \in DOMAIN keys => k \in DOMAIN new /\ keys[k].until <= new[k].until
          /\ \A t \in Times(sets[n], k) : k \in DOMAIN new /\ t <= new[k].until
      <4> HIDE DEF keys, new
      <4> QED
        BY <2>2, <2>3, UpdateLatest
    <3>3. ASSUME NEW t \in TimesUpTo(sets, n - 1, k)
          PROVE  t \in Nat
      <4>1. PICK i \in 1..(n - 1) : t \in Times(sets[i], k)
        BY DEF TimesUpTo
      <4>2. i \in 1..Len(sets)
        BY <1>1
      <4> QED
        BY <4>1, <4>2, TimesFacts DEF IsKeySets
    <3>4. /\ k \in DOMAIN keys => keys[k].until \in Nat
          /\ k \in DOMAIN new => new[k].until \in Nat
      BY <2>2 DEF KeySet
    <3> HIDE DEF keys, new
    <3> QED
      BY <2>4, <3>1, <3>2, <3>3, <3>4
  <2> QED
    BY <2>1, <2>5 DEF Latest
<1>4. \A n \in 0..Len(sets) : n \in S
  <2> HIDE DEF S
  <2> QED
    BY <1>1, <1>2, <1>3, PrefixInduction
<1> QED
  BY <1>4

\* Of a key that several of the notary's sets name, Merged keeps the latest time,
\* however many sets there are and in whatever order they come.
LEMMA MergedKeepsTheLatest ==
    ASSUME NEW sets, IsKeySets(sets), NEW k \in DOMAIN Merged(sets)
    PROVE  Merged(sets)[k].until = Max(UNION {Times(sets[i], k) : i \in DOMAIN sets})
<1> DEFINE times == TimesUpTo(sets, Len(sets), k)
           until == Merged(sets)[k].until
<1>1. Len(sets) \in 0..Len(sets)
  BY DEF IsKeySets
<1>2. until \in times /\ \A t \in times : t <= until
  BY <1>1, PrefixLatest, MergedByMerges DEF Latest
<1>3. times = UNION {Times(sets[i], k) : i \in DOMAIN sets}
  BY DEF TimesUpTo, IsKeySets
<1>4. times \in SUBSET Nat
  BY TimesFacts DEF TimesUpTo, IsKeySets
<1>5. Max(times) \in times /\ \A t \in times : t <= Max(times)
  <2>1. until \in Nat /\ times # {}
    BY <1>2, <1>4
  <2> HIDE DEF times, until
  <2> QED
    BY <1>2, <1>4, <2>1, Greatest
<1>6. Max(times) = until
  <2>1. until \in Nat /\ Max(times) \in Nat
    BY <1>2, <1>4, <1>5
  <2>2. until <= Max(times) /\ Max(times) <= until
    BY <1>2, <1>5
  <2> HIDE DEF times, until
  <2> QED
    BY <2>1, <2>2
<1> QED
  BY <1>3, <1>6

-----------------------------------------------------------------------------
(***************************************************************************)
(* The invariant.                                                          *)
(***************************************************************************)

\* What a cache entry of s may be: each is part of what is known of s.
SoundKeys(s) ==
    {ServerVerifyKeys(world.direct[s]), ServerVerifyKeys(Empty), Merged(world.notary[s])}

CacheSound == \A s \in Servers : cache[s] \in SoundKeys(s) \cup {NoKeys}

Shape ==
    /\ world \in Worlds
    /\ cache = [s \in Servers |-> cache[s]]
    /\ verdict = [e \in Events |-> verdict[e]]
    /\ \A e \in Events : verdict[e] \in [Signers(e) -> {"SUCCESS", "FAIL", "UNKNOWN"}]
    /\ call \in [Callers -> [pc : {"idle", "server", "notary", "verified", "raised"},
                            event : Events, i : Nat]]
    /\ faults \in 0..MaxFaults

\* Where a caller is in the list of signatures.
Places ==
    \A v \in Callers :
        /\ call[v].pc = "idle" => call[v].i = 1
        /\ call[v].pc \in {"server", "notary", "raised"} => call[v].i \in 1..Len(Signatures(v))
        /\ call[v].pc = "verified" => call[v].i = Len(Signatures(v)) + 1

\* The notary is asked when the server does not have the key.
ServerWasAsked ==
    \A v \in Callers :
        call[v].pc = "notary" /\ faults = 0 =>
            ~Names(ServerVerifyKeys(world.direct[Waiting(v).server]), Waiting(v))

VerdictOf(e, i) == Result(SignaturesOf[e][i], Known(SignaturesOf[e][i].server))

OwnKeys ==
    \A e \in Events : \A s \in Signers(e) :
        verdict[e][s] \in {"UNKNOWN"} \cup {VerdictOf(e, i) : i \in Checkable(e, s)}

\* Caller v is, or got stuck, in event e and no further than signature m.
Before(v, e, m) ==
    call[v].event = e /\ call[v].pc \in {"server", "notary", "raised"} /\ call[v].i <= m

\* When a caller is past the last signature of a server that can be checked, the
\* verdict is that signature's, unless another caller was sent back to an
\* earlier one of the same event: that one still has to pass it.
LastJudged ==
    faults = 0 =>
        \A v \in Callers : \A e \in Events : \A s \in Signers(e) : \A m \in Checkable(e, s) :
            /\ call[v].event = e /\ call[v].pc # "idle" /\ call[v].i > m
            /\ \A j \in Checkable(e, s) : j <= m
            => verdict[e][s] = VerdictOf(e, m) \/ \E u \in Callers : Before(u, e, m)

IInv == Shape /\ CacheSound /\ Places /\ ServerWasAsked /\ OwnKeys /\ LastJudged

LEMMA WorldsAreKeySets ==
    ASSUME world \in Worlds, NEW s \in Servers
    PROVE  IsKeySet(world.direct[s]) /\ IsKeySets(world.notary[s])
  BY WorldsAssumption DEF IsKeySets

\* What the server, the notary or nobody answers agrees with what is known.
LEMMA SoundKeysAreKnown ==
    ASSUME world \in Worlds, NEW s \in Servers, NEW keys \in SoundKeys(s)
    PROVE  /\ KeySet(keys)
           /\ \A k \in DOMAIN keys : k \in DOMAIN Known(s) /\ keys[k].key = Known(s)[k].key
<1> DEFINE direct == ServerVerifyKeys(world.direct[s])
           merged == Merged(world.notary[s])
<1>1. KeySet(direct) /\ KeySet(merged)
  BY WorldsAreKeySets, ServerVerifyKeysType, MergedType
<1>2. \A k \in DOMAIN direct \cap DOMAIN merged : direct[k].key = merged[k].key
  BY WorldsAssumption
<1>3. IsExtension(Known(s), direct, merged)
  BY <1>1, ExtendedFacts DEF Known
<1> HIDE DEF direct, merged
<1>4. /\ \A k \in DOMAIN direct : k \in DOMAIN Known(s) /\ direct[k].key = Known(s)[k].key
      /\ \A k \in DOMAIN merged : k \in DOMAIN Known(s) /\ merged[k].key = Known(s)[k].key
  BY <1>2, <1>3 DEF IsExtension
<1> QED
  BY <1>1, <1>4, NoKeysInEmpty DEF SoundKeys, direct, merged

LEMMA KnownBySomebody ==
    ASSUME world \in Worlds, NEW s \in Servers, NEW k \in DOMAIN Known(s)
    PROVE  \/ k \in DOMAIN ServerVerifyKeys(world.direct[s])
           \/ k \in DOMAIN Merged(world.notary[s])
  BY DEF Known, Extended

LEMMA ResultAgrees ==
    ASSUME world \in Worlds, NEW e \in Events, NEW j \in DOMAIN SignaturesOf[e],
           NEW keys \in SoundKeys(SignaturesOf[e][j].server), Names(keys, SignaturesOf[e][j])
    PROVE  /\ j \in Checkable(e, SignaturesOf[e][j].server)
           /\ Result(SignaturesOf[e][j], keys) = VerdictOf(e, j)
<1>1. SignaturesOf[e][j].server \in Servers
  BY SigningKeysAssumption
<1> QED
  BY <1>1, SoundKeysAreKnown DEF Checkable, Names, Result, VerdictOf

LEMMA StopFacts ==
    ASSUME NEW e \in Events, NEW i \in 1..Len(SignaturesOf[e]) + 1, NEW keys
    PROVE  LET stop == Stop(e, i, keys) IN
           /\ stop \in i..Len(SignaturesOf[e]) + 1
           /\ Uncached(e, i, keys) = {} <=> stop = Len(SignaturesOf[e]) + 1
           /\ \A j \in DOMAIN SignaturesOf[e] :
                i <= j /\ j < stop => Has(keys[SignaturesOf[e][j].server], SignaturesOf[e][j])
<1> DEFINE S == Uncached(e, i, keys) \cup {Len(SignaturesOf[e]) + 1}
<1>1. Len(SignaturesOf[e]) \in Nat /\ DOMAIN SignaturesOf[e] = 1..Len(SignaturesOf[e])
  BY SigningKeysAssumption
<1>2. /\ Uncached(e, i, keys) \subseteq i..Len(SignaturesOf[e])
      /\ \A j \in i..Len(SignaturesOf[e]) : j \notin Uncached(e, i, keys) =>
            Has(keys[SignaturesOf[e][j].server], SignaturesOf[e][j])
  BY <1>1 DEF Uncached
<1>3. S \in SUBSET Nat /\ S # {}
  BY <1>1, <1>2
<1>4. Min(S) \in S /\ \A n \in S : Min(S) <= n
  <2> HIDE DEF S
  <2> QED
    BY <1>3, Least
<1>5. Stop(e, i, keys) = Min(S)
  BY DEF Stop
<1>6. \A n \in S : n = Len(SignaturesOf[e]) + 1 \/ n \in Uncached(e, i, keys)
  OBVIOUS
<1>7. Len(SignaturesOf[e]) + 1 \in S /\ Uncached(e, i, keys) \subseteq S
  OBVIOUS
<1> HIDE DEF S
<1>8. PICK stop \in Nat : stop = Stop(e, i, keys) /\ stop \in S /\ \A n \in S : stop <= n
  BY <1>3, <1>4, <1>5
<1>9. stop \in i..Len(SignaturesOf[e]) + 1
  BY <1>1, <1>2, <1>6, <1>8
<1>10. Uncached(e, i, keys) = {} <=> stop = Len(SignaturesOf[e]) + 1
  BY <1>1, <1>2, <1>6, <1>7, <1>8
<1>11. ASSUME NEW j \in DOMAIN SignaturesOf[e], i <= j, j < stop
       PROVE  j \in i..Len(SignaturesOf[e]) /\ j \notin Uncached(e, i, keys)
  BY <1>1, <1>7, <1>8, <1>11
<1> QED
  BY <1>2, <1>8, <1>9, <1>10, <1>11

\* What the loop leaves when it goes from signature i to stop.
LoopLeaves(v, e, i, verdicts, stop) ==
    /\ call' = [call EXCEPT ![v] =
            [pc |-> IF stop = Len(SignaturesOf[e]) + 1 THEN "verified" ELSE "server",
             event |-> e, i |-> stop]]
    /\ verdict' = [verdict EXCEPT ![e] = verdict'[e]]
    /\ verdict'[e] \in [Signers(e) -> {"SUCCESS", "FAIL", "UNKNOWN"}]
    /\ \A s \in Signers(e) :
        \/ /\ verdict'[e][s] = verdicts[s]
           /\ \A x \in Checkable(e, s) : ~ (i <= x /\ x < stop)
        \/ \E j \in Checkable(e, s) :
            /\ i <= j /\ j < stop
            /\ verdict'[e][s] = VerdictOf(e, j)
            /\ \A x \in Checkable(e, s) : i <= x /\ x < stop => x <= j

\* The loop: how far it gets, and the verdicts it leaves.
LEMMA ProceedFacts ==
    ASSUME Shape, NEW v \in Callers, NEW e, e = call[v].event,
           NEW i \in 1..Len(SignaturesOf[e]) + 1,
           NEW keys, \A s \in Servers : keys[s] \in SoundKeys(s) \cup {NoKeys},
           NEW verdicts \in [Signers(e) -> {"SUCCESS", "FAIL", "UNKNOWN"}],
           Proceed(v, i, verdicts, keys)
    PROVE  \E stop \in i..Len(SignaturesOf[e]) + 1 : LoopLeaves(v, e, i, verdicts, stop)
<1> DEFINE stop == Stop(e, i, keys)
           judged(s) == {j \in DOMAIN SignaturesOf[e] :
                            i <= j /\ j < stop /\ SignaturesOf[e][j].server = s}
           new == [s \in Signers(e) |->
                    IF judged(s) = {} THEN verdicts[s]
                    ELSE Result(SignaturesOf[e][Max(judged(s))], keys[s])]
<1>1. /\ e \in Events
      /\ Len(SignaturesOf[e]) \in Nat /\ DOMAIN SignaturesOf[e] = 1..Len(SignaturesOf[e])
      /\ Signers(e) \subseteq Servers
  BY SigningKeysAssumption DEF Shape, Signers
<1>2. /\ stop \in i..Len(SignaturesOf[e]) + 1
      /\ Uncached(e, i, keys) = {} <=> stop = Len(SignaturesOf[e]) + 1
      /\ \A j \in DOMAIN SignaturesOf[e] :
            i <= j /\ j < stop => Has(keys[SignaturesOf[e][j].server], SignaturesOf[e][j])
  BY <1>1, StopFacts
<1>3. call' = [call EXCEPT ![v] =
            [pc |-> IF stop = Len(SignaturesOf[e]) + 1 THEN "verified" ELSE "server",
             event |-> e, i |-> stop]]
  BY <1>2 DEF Proceed
<1>4. verdict' = [verdict EXCEPT ![e] = new] /\ verdict'[e] = new
  <2>1. DOMAIN verdict[e] = Signers(e) /\ verdict = [f \in Events |-> verdict[f]]
    BY <1>1 DEF Shape
  <2>2. verdict' = [verdict EXCEPT ![e] =
            [s \in DOMAIN verdict[e] |->
                IF judged(s) = {} THEN verdicts[s]
                ELSE Result(SignaturesOf[e][Max(judged(s))], keys[s])]]
    BY DEF Proceed
  <2>3. verdict' = [verdict EXCEPT ![e] = new]
    BY <2>1, <2>2
  <2> HIDE DEF new
  <2>4. verdict'[e] = new
    BY <1>1, <2>1, <2>3
  <2> QED
    BY <2>3, <2>4
<1>5. ASSUME NEW s \in Signers(e), judged(s) # {}
      PROVE  \E j \in Checkable(e, s) :
                /\ i <= j /\ j < stop
                /\ new[s] = VerdictOf(e, j)
                /\ \A x \in Checkable(e, s) : i <= x /\ x < stop => x <= j
  <2> DEFINE j == Max(judged(s))
  <2>1. j \in judged(s) /\ \A x \in judged(s) : x <= j
    <3>1. judged(s) \in SUBSET Nat /\ \A x \in judged(s) : x <= Len(SignaturesOf[e])
      BY <1>1
    <3> HIDE DEF judged
    <3> QED
      BY <1>1, <1>5, <3>1, Greatest
  <2>2. j \in DOMAIN SignaturesOf[e] /\ i <= j /\ j < stop /\ SignaturesOf[e][j].server = s
    BY <2>1
  <2>3. keys[s] \in SoundKeys(s) /\ Names(keys[s], SignaturesOf[e][j])
    BY <1>1, <1>2, <2>2 DEF Has
  <2>4. j \in Checkable(e, s) /\ Result(SignaturesOf[e][j], keys[s]) = VerdictOf(e, j)
    <3> HIDE DEF j, stop
    <3> QED
      BY <1>1, <2>2, <2>3, ResultAgrees DEF Shape
  <2>5. new[s] = VerdictOf(e, j)
    BY <1>5, <2>4
  <2>6. \A x \in Checkable(e, s) : i <= x /\ x < stop => x \in judged(s)
    BY DEF Checkable
  <2> QED
    BY <2>1, <2>2, <2>4, <2>5, <2>6
<1>6. ASSUME NEW s \in Signers(e), judged(s) = {}
      PROVE  new[s] = verdicts[s] /\ \A x \in Checkable(e, s) : ~ (i <= x /\ x < stop)
  BY <1>6 DEF Checkable
<1>7. new \in [Signers(e) -> {"SUCCESS", "FAIL", "UNKNOWN"}]
  BY <1>5, <1>6 DEF VerdictOf, Result
<1>8. ASSUME NEW s \in Signers(e)
      PROVE  \/ /\ new[s] = verdicts[s]
                /\ \A x \in Checkable(e, s) : ~ (i <= x /\ x < stop)
             \/ \E j \in Checkable(e, s) :
                    /\ i <= j /\ j < stop
                    /\ new[s] = VerdictOf(e, j)
                    /\ \A x \in Checkable(e, s) : i <= x /\ x < stop => x <= j
  <2> HIDE DEF stop, judged, new
  <2> QED
    BY <1>5, <1>6
<1> HIDE DEF stop, judged, new
<1>9. verdict' = [verdict EXCEPT ![e] = verdict'[e]]
  BY <1>4
<1>10. PICK last \in i..Len(SignaturesOf[e]) + 1 : last = stop
  BY <1>2
<1> WITNESS last \in i..Len(SignaturesOf[e]) + 1
<1> QED
  BY <1>3, <1>4, <1>7, <1>8, <1>9, <1>10 DEF LoopLeaves

-----------------------------------------------------------------------------
(***************************************************************************)
(* The invariant holds of every reachable state.                           *)
(***************************************************************************)
Verdicts(e, s) == {"UNKNOWN"} \cup {VerdictOf(e, i) : i \in Checkable(e, s)}

LEMMA InitIInv == Init => IInv
<1> SUFFICES ASSUME Init PROVE IInv
  OBVIOUS
<1>1. Shape
  BY SigningKeysAssumption DEF Init, Shape
<1>2. CacheSound
  BY DEF Init, CacheSound, SoundKeys
<1>3. Places /\ ServerWasAsked
  BY DEF Init, Places, ServerWasAsked
<1>4. OwnKeys
  BY DEF Init, OwnKeys
<1>5. LastJudged
  BY DEF Init, LastJudged
<1> QED
  BY <1>1, <1>2, <1>3, <1>4, <1>5 DEF IInv

\* A caller goes on from signature i with the verdicts it has by then: those of
\* last signatures it is past are right, or somebody still has to pass them.
LEMMA ProceedIInv ==
    ASSUME IInv, NEW v \in Callers, NEW e, e = call[v].event,
           NEW i \in 1..Len(SignaturesOf[e]) + 1,
           NEW verdicts \in [Signers(e) -> {"SUCCESS", "FAIL", "UNKNOWN"}],
           \A s \in Signers(e) : verdicts[s] \in Verdicts(e, s),
           faults' = 0 =>
                \A s \in Signers(e) : \A m \in Checkable(e, s) :
                    m < i /\ (\A j \in Checkable(e, s) : j <= m) =>
                        \/ verdicts[s] = VerdictOf(e, m)
                        \/ \E u \in Callers \ {v} : Before(u, e, m),
           Proceed(v, i, verdicts, cache'),
           world' = world,
           cache' = [s \in Servers |-> cache'[s]],
           \A s \in Servers : cache'[s] \in SoundKeys(s) \cup {NoKeys},
           faults' \in 0..MaxFaults, faults' = 0 => faults = 0
    PROVE  IInv'
<1>1. PICK stop \in i..Len(SignaturesOf[e]) + 1 : LoopLeaves(v, e, i, verdicts, stop)
  BY ProceedFacts DEF IInv
<1>2. /\ Shape /\ e \in Events
      /\ Len(SignaturesOf[e]) \in Nat /\ DOMAIN SignaturesOf[e] = 1..Len(SignaturesOf[e])
  BY SigningKeysAssumption DEF IInv, Shape
<1>3. /\ \A u \in Callers : call'[u].event = call[u].event
      /\ \A u \in Callers : u # v => call'[u] = call[u]
      /\ call'[v].i = stop
      /\ call'[v].pc = IF stop = Len(SignaturesOf[e]) + 1 THEN "verified" ELSE "server"
      /\ call' \in [Callers -> [pc : {"idle", "server", "notary", "verified", "raised"},
                               event : Events, i : Nat]]
  <2>1. stop \in Nat
    BY <1>2
  <2> QED
    BY <1>1, <1>2, <2>1 DEF Shape, LoopLeaves
<1>4. \A f \in Events : f # e => verdict'[f] = verdict[f]
  BY <1>1, <1>2 DEF Shape, LoopLeaves
<1>5. /\ \A s \in Servers : Known(s)' = Known(s) /\ SoundKeys(s)' = SoundKeys(s)
      /\ \A f \in Events, s \in Servers : Checkable(f, s)' = Checkable(f, s)
      /\ \A f \in Events : \A j \in DOMAIN SignaturesOf[f] : VerdictOf(f, j)' = VerdictOf(f, j)
      /\ \A f \in Events : Signers(f) \subseteq Servers
      /\ \A f \in Events, s \in Servers : Checkable(f, s) \subseteq DOMAIN SignaturesOf[f]
      /\ \A f \in Events : DOMAIN SignaturesOf[f] = 1..Len(SignaturesOf[f])
      /\ \A f \in Events : Len(SignaturesOf[f]) \in Nat
  BY SigningKeysAssumption DEF Known, SoundKeys, Checkable, VerdictOf, Signers
<1>6. Shape'
  <2>1. verdict' = [f \in Events |-> verdict'[f]]
    BY <1>1, <1>2 DEF Shape, LoopLeaves
  <2>2. \A f \in Events : verdict'[f] \in [Signers(f) -> {"SUCCESS", "FAIL", "UNKNOWN"}]
    BY <1>1, <1>2, <1>4 DEF Shape, LoopLeaves
  <2> QED
    BY <1>2, <1>3, <2>1, <2>2 DEF Shape
<1>7. CacheSound'
  BY <1>5 DEF CacheSound
<1>8. Places'
  <2>1. ASSUME NEW u \in Callers, u # v
        PROVE  /\ call'[u].pc = "idle" => call'[u].i = 1
               /\ call'[u].pc \in {"server", "notary", "raised"} =>
                    call'[u].i \in 1..Len(SignaturesOf[call'[u].event])
               /\ call'[u].pc = "verified" =>
                    call'[u].i = Len(SignaturesOf[call'[u].event]) + 1
    BY <1>3, <2>1 DEF IInv, Places, Signatures
  <2>2. /\ stop # Len(SignaturesOf[e]) + 1 => stop \in 1..Len(SignaturesOf[e])
        /\ call'[v].event = e
    BY <1>2, <1>3
  <2> QED
    BY <1>3, <2>1, <2>2 DEF Places, Signatures
<1>9. ServerWasAsked'
  <2>1. \A u \in Callers : u # v =>
            Waiting(u)' = Waiting(u)
    BY <1>3 DEF Waiting, Signatures
  <2>2. ASSUME NEW u \in Callers, call'[u].pc = "notary", faults' = 0
        PROVE  ~Names(ServerVerifyKeys(world'.direct[Waiting(u)'.server]), Waiting(u)')
    <3>1. u # v /\ call[u].pc = "notary" /\ faults = 0
      BY <1>3, <2>2
    <3> QED
      BY <2>1, <3>1 DEF IInv, ServerWasAsked
  <2> QED
    BY <2>2 DEF ServerWasAsked
<1>10. OwnKeys'
  <2>1. ASSUME NEW s \in Signers(e)
        PROVE  verdict'[e][s] \in Verdicts(e, s)
    BY <1>1 DEF Verdicts, LoopLeaves
  <2>2. ASSUME NEW f \in Events, f # e, NEW s \in Signers(f)
        PROVE  verdict'[f][s] \in Verdicts(f, s)
    BY <1>4, <2>2 DEF IInv, OwnKeys, Verdicts
  <2>3. ASSUME NEW f \in Events, NEW s \in Signers(f)
        PROVE  verdict'[f][s] \in Verdicts(f, s)'
    BY <1>5, <2>1, <2>2, <2>3 DEF Verdicts
  <2> QED
    BY <2>3 DEF OwnKeys, Verdicts
<1>11. LastJudged'
  <2> SUFFICES ASSUME faults' = 0, NEW w \in Callers, NEW f \in Events, NEW s \in Signers(f),
                      NEW m \in Checkable(f, s),
                      call'[w].event = f, call'[w].pc # "idle", call'[w].i > m,
                      \A j \in Checkable(f, s) : j <= m
               PROVE  verdict'[f][s] = VerdictOf(f, m) \/ \E u \in Callers : Before(u, f, m)'
    BY <1>5 DEF LastJudged
  <2>1. \A u \in Callers : u # v => (Before(u, f, m)' <=> Before(u, f, m))
    BY <1>3 DEF Before
  <2>2. ASSUME f # e
        PROVE  verdict'[f][s] = VerdictOf(f, m) \/ \E u \in Callers : Before(u, f, m)'
    <3>1. w # v /\ call[w] = call'[w] /\ faults = 0
      BY <1>3, <2>2
    <3>2. verdict[f][s] = VerdictOf(f, m) \/ \E u \in Callers : Before(u, f, m)
      BY <3>1 DEF IInv, LastJudged
    <3>3. ~Before(v, f, m)
      BY <2>2 DEF Before
    <3> QED
      BY <1>4, <2>1, <2>2, <3>2, <3>3
  <2>3. ASSUME f = e, stop <= m
        PROVE  Before(v, f, m)'
    <3>1. m <= Len(SignaturesOf[e])
      BY <1>5, <2>3
    <3>2. stop # Len(SignaturesOf[e]) + 1
      BY <1>2, <1>5, <2>3, <3>1
    <3> QED
      BY <1>3, <2>3, <3>2 DEF Before
  <2>4. ASSUME f = e, m < stop, i <= m
        PROVE  verdict'[f][s] = VerdictOf(f, m)
    <3>1. PICK j \in Checkable(e, s) :
            /\ verdict'[e][s] = VerdictOf(e, j)
            /\ m <= j
      BY <1>1, <2>4 DEF LoopLeaves
    <3>2. j = m
      BY <1>5, <2>4, <3>1
    <3> QED
      BY <2>4, <3>1, <3>2
  <2>5. ASSUME f = e, m < stop, m < i
        PROVE  verdict'[f][s] = VerdictOf(f, m) \/ \E u \in Callers : Before(u, f, m)'
    <3>1. \A j \in Checkable(e, s) : ~ (i <= j)
      BY <1>2, <1>5, <2>5
    <3>2. verdict'[e][s] = verdicts[s]
      BY <1>1, <2>5, <3>1 DEF LoopLeaves
    <3>3. verdicts[s] = VerdictOf(e, m) \/ \E u \in Callers \ {v} : Before(u, e, m)
      BY <2>5
    <3> QED
      BY <2>1, <2>5, <3>2, <3>3
  <2>6. m \in Nat
    BY <1>5
  <2> QED
    BY <1>2, <2>2, <2>3, <2>4, <2>5, <2>6
<1> QED
  BY <1>6, <1>7, <1>8, <1>9, <1>10, <1>11 DEF IInv

LEMMA KeysReturnedIInv ==
    ASSUME IInv, NEW v \in Callers, call[v].pc \in {"server", "notary"},
           NEW keys \in SoundKeys(Waiting(v).server),
           faults' = 0 /\ ~Names(keys, Waiting(v)) =>
                call[v].i \notin Checkable(call[v].event, Waiting(v).server),
           KeysReturned(v, keys), world' = world,
           faults' \in 0..MaxFaults, faults' = 0 => faults = 0
    PROVE  IInv'
<1> DEFINE e == call[v].event
           i == call[v].i
           signature == SignaturesOf[e][i]
           t == signature.server
           verdicts == IF Names(keys, signature)
                       THEN [verdict[e] EXCEPT ![t] = Result(signature, keys)]
                       ELSE verdict[e]
<1>1. /\ e \in Events /\ i \in 1..Len(SignaturesOf[e])
      /\ Len(SignaturesOf[e]) \in Nat /\ DOMAIN SignaturesOf[e] = 1..Len(SignaturesOf[e])
      /\ Waiting(v) = signature /\ t \in Servers /\ t \in Signers(e)
      /\ world \in Worlds /\ cache = [s \in Servers |-> cache[s]]
      /\ verdict[e] \in [Signers(e) -> {"SUCCESS", "FAIL", "UNKNOWN"}]
      /\ \A s \in Signers(e) : verdict[e][s] \in Verdicts(e, s)
  BY SigningKeysAssumption
     DEF IInv, Shape, Places, Waiting, Signatures, Signers, OwnKeys, Verdicts
<1>2. Proceed(v, i + 1, verdicts, cache') /\ cache' = [cache EXCEPT ![t] = keys]
  BY <1>1 DEF KeysReturned, Store
<1>3. Names(keys, signature) =>
        i \in Checkable(e, t) /\ Result(signature, keys) = VerdictOf(e, i)
  BY <1>1, ResultAgrees
<1>4. \A s \in Signers(e) :
        verdicts[s] = IF Names(keys, signature) /\ s = t THEN VerdictOf(e, i) ELSE verdict[e][s]
  BY <1>1, <1>3
<1>5. /\ verdicts \in [Signers(e) -> {"SUCCESS", "FAIL", "UNKNOWN"}]
      /\ \A s \in Signers(e) : verdicts[s] \in Verdicts(e, s)
  <2>1. Result(signature, keys) \in {"SUCCESS", "FAIL", "UNKNOWN"}
    BY DEF Result
  <2>2. verdicts \in [Signers(e) -> {"SUCCESS", "FAIL", "UNKNOWN"}]
    BY <1>1, <2>1
  <2>3. \A s \in Signers(e) : verdicts[s] \in Verdicts(e, s)
    BY <1>1, <1>3, <1>4 DEF Verdicts
  <2> QED
    BY <2>2, <2>3
<1>6. /\ cache' = [s \in Servers |-> cache'[s]]
      /\ \A s \in Servers : cache'[s] \in SoundKeys(s) \cup {NoKeys}
  BY <1>1, <1>2 DEF IInv, CacheSound
<1>7. ASSUME faults' = 0, NEW s \in Signers(e), NEW m \in Checkable(e, s),
             m < i + 1, \A j \in Checkable(e, s) : j <= m
      PROVE  verdicts[s] = VerdictOf(e, m) \/ \E u \in Callers \ {v} : Before(u, e, m)
  <2>1. m \in DOMAIN SignaturesOf[e] /\ SignaturesOf[e][m].server = s
    BY DEF Checkable
  <2>2. CASE m = i
    <3>1. s = t /\ Names(keys, signature)
      BY <1>1, <1>7, <2>1, <2>2
    <3> QED
      BY <1>4, <2>2, <3>1
  <2>3. CASE m < i
    <3>1. ~ (Names(keys, signature) /\ s = t)
      BY <1>1, <1>3, <1>7, <2>1, <2>3
    <3>2. verdicts[s] = verdict[e][s]
      BY <1>4, <3>1
    <3>3. verdict[e][s] = VerdictOf(e, m) \/ \E u \in Callers : Before(u, e, m)
      BY <1>1, <1>7, <2>3 DEF IInv, LastJudged
    <3>4. ~Before(v, e, m)
      BY <1>1, <2>1, <2>3 DEF Before
    <3> QED
      BY <3>2, <3>3, <3>4
  <2> QED
    BY <1>1, <1>7, <2>1, <2>2, <2>3
<1>8. i + 1 \in 1..Len(SignaturesOf[e]) + 1
  BY <1>1
<1> HIDE DEF verdicts, i
<1> QED
  BY <1>2, <1>5, <1>6, <1>7, <1>8, ProceedIInv

\* A step after which only callers differ, and of one of them only the place it
\* is in the lookup.
LEMMA LookupIInv ==
    ASSUME IInv, NEW v \in Callers, call[v].pc \in {"server", "notary"},
           NEW pc \in {"notary", "raised"}, call' = [call EXCEPT ![v].pc = pc],
           UNCHANGED <<world, cache, verdict>>,
           faults' \in 0..MaxFaults, faults' = 0 => faults = 0,
           pc = "notary" /\ faults' = 0 =>
                ~Names(ServerVerifyKeys(world.direct[Waiting(v).server]), Waiting(v))
    PROVE  IInv'
<1>1. /\ \A u \in Callers : call'[u].event = call[u].event /\ call'[u].i = call[u].i
      /\ \A u \in Callers : u # v => call'[u].pc = call[u].pc
      /\ call'[v].pc = pc
      /\ call' \in [Callers -> [pc : {"idle", "server", "notary", "verified", "raised"},
                               event : Events, i : Nat]]
  BY DEF IInv, Shape
<1>2. \A u \in Callers : Waiting(u)' = Waiting(u) /\ Signatures(u)' = Signatures(u)
  BY <1>1 DEF Waiting, Signatures
<1>3. /\ \A s : Known(s)' = Known(s) /\ SoundKeys(s)' = SoundKeys(s)
      /\ \A f, s : Checkable(f, s)' = Checkable(f, s)
      /\ \A f, j : VerdictOf(f, j)' = VerdictOf(f, j)
  BY DEF Known, SoundKeys, Checkable, VerdictOf
<1>4. Shape'
  BY <1>1 DEF IInv, Shape
<1>5. CacheSound' /\ OwnKeys'
  BY <1>3 DEF IInv, CacheSound, OwnKeys
<1>6. Places'
  BY <1>1, <1>2 DEF IInv, Places
<1>7. ServerWasAsked'
  BY <1>1, <1>2 DEF IInv, ServerWasAsked
<1>8. LastJudged'
  <2>1. \A u \in Callers : \A f, m : Before(u, f, m)' <=> Before(u, f, m)
    BY <1>1 DEF Before
  <2>2. \A u \in Callers : call'[u].pc # "idle" => call[u].pc # "idle"
    BY <1>1
  <2> QED
    BY <1>1, <1>3, <2>1, <2>2 DEF IInv, LastJudged
<1> QED
  BY <1>4, <1>5, <1>6, <1>7, <1>8 DEF IInv

LEMMA NextIInv == IInv /\ [Next]_vars => IInv'
<1> SUFFICES ASSUME IInv, [Next]_vars PROVE IInv'
  OBVIOUS
<1> USE DEF IInv
<1>0. faults \in 0..MaxFaults /\ MaxFaults \in Nat
  BY SigningKeysAssumption DEF Shape
<1>1. ASSUME NEW v \in Callers, Verify(v) PROVE IInv'
  <2> DEFINE e == call[v].event
  <2>1. /\ e \in Events
        /\ Len(SignaturesOf[e]) \in Nat /\ DOMAIN SignaturesOf[e] = 1..Len(SignaturesOf[e])
        /\ verdict[e] \in [Signers(e) -> {"SUCCESS", "FAIL", "UNKNOWN"}]
        /\ \A s \in Signers(e) : verdict[e][s] \in Verdicts(e, s)
    BY SigningKeysAssumption DEF Shape, OwnKeys, Verdicts
  <2>2. /\ Proceed(v, 1, verdict[e], cache')
        /\ UNCHANGED <<world, cache, faults>>
    BY <1>1 DEF Verify
  <2>3. \A s \in Signers(e) : \A m \in Checkable(e, s) : ~ (m < 1)
    BY <2>1 DEF Checkable
  <2>4. 1 \in 1..Len(SignaturesOf[e]) + 1
    BY <2>1
  <2>5. /\ cache' = [s \in Servers |-> cache'[s]]
        /\ \A s \in Servers : cache'[s] \in SoundKeys(s) \cup {NoKeys}
    BY <2>2 DEF Shape, CacheSound
  <2> HIDE DEF IInv
  <2> QED
    BY <1>0, <2>1, <2>2, <2>3, <2>4, <2>5, ProceedIInv
<1>2. ASSUME NEW v \in Callers, ServerAnswers(v) PROVE IInv'
  <2> DEFINE direct == world.direct[Waiting(v).server]
  <2>1. call[v].pc = "server" /\ world' = world
    BY <1>2 DEF ServerAnswers
  <2>2. PICK fault \in {0, 1}, keys \in SoundKeys(Waiting(v).server) :
            /\ faults + fault <= MaxFaults /\ faults' = faults + fault
            /\ fault = 0 => keys = ServerVerifyKeys(direct)
            /\ IF Names(keys, Waiting(v)) THEN KeysReturned(v, keys)
               ELSE call' = [call EXCEPT ![v].pc = "notary"] /\ UNCHANGED <<cache, verdict>>
    <3>1. PICK fault \in {0, 1} :
            /\ faults + fault <= MaxFaults /\ faults' = faults + fault
            /\ LET keys == ServerVerifyKeys(IF fault = 1 THEN Empty ELSE direct)
               IN  IF Names(keys, Waiting(v)) THEN KeysReturned(v, keys)
                   ELSE call' = [call EXCEPT ![v].pc = "notary"] /\ UNCHANGED <<cache, verdict>>
      BY <1>2 DEF ServerAnswers
    <3>2. ServerVerifyKeys(IF fault = 1 THEN Empty ELSE direct) \in SoundKeys(Waiting(v).server)
      BY DEF SoundKeys
    <3> QED
      BY <3>1, <3>2
  <2>3. /\ faults' \in 0..MaxFaults /\ (faults' = 0 => faults = 0 /\ fault = 0)
    BY <1>0, <2>2
  <2> HIDE DEF IInv
  <2>4. CASE Names(keys, Waiting(v))
    BY <2>1, <2>2, <2>3, <2>4, KeysReturnedIInv
  <2>5. CASE ~Names(keys, Waiting(v))
    BY <2>1, <2>2, <2>3, <2>5, LookupIInv
  <2> QED
    BY <2>4, <2>5
<1>3. ASSUME NEW v \in Callers, NotaryAnswers(v) PROVE IInv'
  <2> DEFINE s == Waiting(v).server
             e == call[v].event
             i == call[v].i
  <2>1. call[v].pc = "notary" /\ world' = world
    BY <1>3 DEF NotaryAnswers
  <2>2. PICK fault \in {0, 1}, keys \in SoundKeys(s) :
            /\ faults + fault <= MaxFaults /\ faults' = faults + fault
            /\ fault = 0 => keys = Merged(world.notary[s])
            /\ KeysReturned(v, keys)
    <3>1. PICK fault \in {0, 1} :
            /\ faults + fault <= MaxFaults /\ faults' = faults + fault
            /\ KeysReturned(v, IF fault = 1 THEN ServerVerifyKeys(Empty)
                               ELSE Merged(world.notary[s]))
      BY <1>3 DEF NotaryAnswers
    <3> QED
      BY <3>1 DEF SoundKeys
  <2>3. /\ faults' \in 0..MaxFaults /\ (faults' = 0 => faults = 0 /\ fault = 0)
    BY <1>0, <2>2
  <2>4. ASSUME faults' = 0, ~Names(keys, Waiting(v))
        PROVE  i \notin Checkable(e, s)
    <3>1. /\ ~Names(ServerVerifyKeys(world.direct[s]), Waiting(v))
          /\ ~Names(Merged(world.notary[s]), Waiting(v))
      BY <2>1, <2>2, <2>3, <2>4 DEF ServerWasAsked
    <3>2. s \in Servers /\ world \in Worlds
      BY <2>1, SigningKeysAssumption DEF Places, Shape, Waiting, Signatures
    <3>3. ~Names(Known(s), Waiting(v))
      BY <3>1, <3>2, KnownBySomebody DEF Names
    <3> QED
      BY <3>3 DEF Checkable, Waiting, Signatures
  <2> HIDE DEF IInv
  <2> QED
    BY <2>1, <2>2, <2>3, <2>4, KeysReturnedIInv
<1>4. ASSUME NEW v \in Callers, LookupRaises(v) PROVE IInv'
  <2>1. /\ call[v].pc \in {"server", "notary"}
        /\ call' = [call EXCEPT ![v].pc = "raised"]
        /\ UNCHANGED <<world, cache, verdict, faults>>
    BY <1>4 DEF LookupRaises
  <2> HIDE DEF IInv
  <2> QED
    BY <1>0, <2>1, LookupIInv
<1>5. ASSUME NEW t \in Servers, CleanupForgets(t) PROVE IInv'
  <2>1. cache' = [cache EXCEPT ![t] = NoKeys] /\ UNCHANGED <<world, verdict, call, faults>>
    BY <1>5 DEF CleanupForgets
  <2>2. \A s : Known(s)' = Known(s) /\ SoundKeys(s)' = SoundKeys(s)
    BY <2>1 DEF Known, SoundKeys
  <2>3. Shape'
    BY <2>1 DEF Shape
  <2>4. CacheSound'
    BY <2>1, <2>2 DEF CacheSound, Shape
  <2>5. Places' /\ ServerWasAsked' /\ OwnKeys' /\ LastJudged'
    BY <2>1, <2>2
       DEF Places, ServerWasAsked, OwnKeys, LastJudged, Signatures, Waiting, Checkable,
           VerdictOf, Before
  <2> QED
    BY <2>3, <2>4, <2>5
<1>6. CASE UNCHANGED vars
  <2>1. \A s : Known(s)' = Known(s) /\ SoundKeys(s)' = SoundKeys(s)
    BY <1>6 DEF vars, Known, SoundKeys
  <2> QED
    BY <1>6, <2>1
       DEF vars, Shape, CacheSound, Places, ServerWasAsked, OwnKeys, LastJudged, Signatures,
           Waiting, Checkable, VerdictOf, Before
<1> QED
  BY <1>1, <1>2, <1>3, <1>4, <1>5, <1>6 DEF Next

LEMMA IInvIsInvariant == Spec => []IInv
  BY InitIInv, NextIInv, PTL DEF Spec

\* Every cache entry is a well-formed set of keys, every verdict one of the three,
\* and a caller is inside the list of its event's signatures or right behind it,
\* whatever the servers answer and however many callers there are.
THEOREM TypeCorrect == Spec => []TypeOK
<1>1. IInv => TypeOK
  <2> SUFFICES ASSUME IInv PROVE TypeOK
    OBVIOUS
  <2>1. \A s \in Servers : cache[s] = NoKeys \/ KeySet(cache[s])
    BY SoundKeysAreKnown DEF IInv, Shape, CacheSound
  <2>2. ASSUME NEW v \in Callers
        PROVE  /\ call[v].pc \in {"idle", "server", "notary", "verified", "raised"}
               /\ call[v].i \in 1..Len(Signatures(v)) + 1
    <3>1. /\ Len(Signatures(v)) \in Nat
          /\ call[v].pc \in {"idle", "server", "notary", "verified", "raised"}
      BY SigningKeysAssumption DEF IInv, Shape, Signatures
    <3> QED
      BY <3>1 DEF IInv, Places
  <2> QED
    BY <2>1, <2>2 DEF IInv, Shape, TypeOK
<1> QED
  BY <1>1, IInvIsInvariant, PTL

\* The verdict on a server is that of its last signature whose key the server or
\* the notary has, for any number of callers on the same Event, of signatures and
\* of keys, whatever the cache forgets meanwhile.
THEOREM VerdictsCorrect == Spec => []VerdictsAreRight
<1>1. IInv => VerdictsAreRight
  <2> SUFFICES ASSUME IInv, NEW v \in Callers, call[v].pc = "verified",
                      NEW e, e = call[v].event, NEW s \in Signers(e)
               PROVE  /\ faults = 0 /\ Settled(e) =>
                            verdict[e][s] =
                                IF Checkable(e, s) = {} THEN "UNKNOWN"
                                ELSE Result(SignaturesOf[e][Max(Checkable(e, s))], Known(s))
                      /\ verdict[e][s] \in {"UNKNOWN"} \cup
                            {Result(SignaturesOf[e][i], Known(s)) : i \in Checkable(e, s)}
    BY DEF VerdictsAreRight
  <2>1. /\ e \in Events /\ Len(SignaturesOf[e]) \in Nat
        /\ DOMAIN SignaturesOf[e] = 1..Len(SignaturesOf[e])
        /\ call[v].i = Len(SignaturesOf[e]) + 1
    BY SigningKeysAssumption DEF IInv, Shape, Places, Signatures
  <2>2. \A i \in Checkable(e, s) : VerdictOf(e, i) = Result(SignaturesOf[e][i], Known(s))
    BY DEF VerdictOf, Checkable
  <2>3. verdict[e][s] \in Verdicts(e, s)
    BY <2>1 DEF IInv, OwnKeys, Verdicts
  <2>4. ASSUME faults = 0, Settled(e), Checkable(e, s) # {}
        PROVE  verdict[e][s] = Result(SignaturesOf[e][Max(Checkable(e, s))], Known(s))
    <3> DEFINE m == Max(Checkable(e, s))
    <3>1. Checkable(e, s) \in SUBSET Nat /\ \A i \in Checkable(e, s) : i <= Len(SignaturesOf[e])
      BY <2>1 DEF Checkable
    <3>2. m \in Checkable(e, s) /\ \A i \in Checkable(e, s) : i <= m
      BY <2>1, <2>4, <3>1, Greatest
    <3>3. call[v].i > m
      BY <2>1, <3>1, <3>2
    <3>4. verdict[e][s] = VerdictOf(e, m) \/ \E u \in Callers : Before(u, e, m)
      <4> HIDE DEF m
      <4> QED
        BY <2>1, <2>4, <3>2, <3>3 DEF IInv, LastJudged
    <3>5. ~ \E u \in Callers : Before(u, e, m)
      BY <2>4 DEF Settled, Before
    <3> QED
      BY <2>2, <3>2, <3>4, <3>5
  <2>5. Checkable(e, s) = {} => verdict[e][s] = "UNKNOWN"
    BY <2>3 DEF Verdicts
  <2> QED
    BY <2>2, <2>3, <2>4, <2>5 DEF Verdicts
<1> QED
  BY <1>1, IInvIsInvariant, PTL

\* "For existing keys, takes the maximum validity timestamp": for an answer of any
\* number of key sets, in any order, by induction over the sets.
THEOREM NotaryCorrect == Spec => []NotaryKeepsTheLatest
<1>1. IInv => NotaryKeepsTheLatest
  BY WorldsAreKeySets, MergedKeepsTheLatest DEF IInv, Shape, NotaryKeepsTheLatest
<1> QED
  BY <1>1, IInvIsInvariant, PTL
=============================================================================
