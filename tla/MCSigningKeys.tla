---------------------------- MODULE MCSigningKeys ----------------------------
(* An instance of SigningKeys: two servers that name their keys alike, events *)
(* signed by both, by a key the notary has alone, by a key nobody has.        *)
EXTENDS SigningKeys, TLC

CONSTANTS a, b, auto, lost, e1, e2, v1, v2

Signed(server, key, by) == [server |-> server, key |-> key, by |-> by]

\* Of e1's two signatures of a the second is bad. b's key has the id of a's.
MCSignaturesOf ==
    (e1 :> <<Signed(a, auto, "a1"), Signed(a, lost, "forged"), Signed(b, auto, "b1")>>)
    @@ (e2 :> <<Signed(b, lost, "b2"), Signed(a, auto, "a1")>>)

Set(current, until, old) == [current |-> current, until |-> until, old |-> old]
Key(key, until) == [key |-> key, until |-> until]

\* What a answers, and what the notary answers about a.
OfA == {Set(auto :> "a1", 2, <<>>), Set(auto :> "a1", 0, lost :> Key("a2", 1)), Empty}
AboutA == {<<>>, <<Set(auto :> "a1", 2, <<>>), Set(auto :> "a1", 1, lost :> Key("a2", 1))>>,
           <<Set(lost :> "a2", 1, <<>>), Set(<<>>, 0, lost :> Key("a2", 2))>>}

OfB == {Set(auto :> "b1", 1, <<>>), Empty}
AboutB == {<<>>, <<Set(lost :> "b2", 2, <<>>)>>}

MCWorlds ==
    {[direct |-> (a :> da @@ b :> db), notary |-> (a :> na @@ b :> nb)] :
        da \in OfA, na \in AboutA, db \in OfB, nb \in AboutB}
=============================================================================
