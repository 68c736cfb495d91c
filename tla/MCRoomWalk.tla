------------------------------ MODULE MCRoomWalk ------------------------------
(* Rooms for RoomWalk: a diamond, a line and an auth chain of four events,     *)
(* with several sets of them missing, and copies that are rejected.            *)
EXTENDS RoomWalk, TLC

CONSTANTS s, a, b, c

Room(prev, auth, missing, copies) ==
    [prev |-> prev, auth |-> auth, missing |-> missing, copies |-> copies]

None == [e \in Events |-> {}]
Each(n) == [e \in Events |-> n]

\* s after b, b after a and c, c after a: a is needed twice.
Diamond == (s :> {b} @@ b :> {a, c} @@ c :> {a} @@ a :> {})

\* The same with a as the auth event of everything.
Chain == (s :> {b} @@ b :> {c} @@ c :> {} @@ a :> {})
Auth == (s :> {a} @@ b :> {a} @@ c :> {a} @@ a :> {})

\* One after the other, so that two may be missing apart from each other.
Line == (s :> {b} @@ b :> {c} @@ c :> {a} @@ a :> {})

MCRooms ==
    {Room(Diamond, None, missing, Each(1)) : missing \in {{b}, {a, b}, {b, c}, {a, b, c}, {s}}}
    \cup {Room(Chain, Auth, missing, Each(1)) : missing \in {{}, {a, b}}}
    \cup {Room(Line, None, {a, b}, Each(1))}
    \cup {Room(Diamond, None, {a, b}, [Each(1) EXCEPT ![a] = n]) : n \in {0, 2}}
=============================================================================
