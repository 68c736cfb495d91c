--------------------------- MODULE MCServerHealth ---------------------------
(***************************************************************************)
(* Instances of ServerHealth for TLC: the host a, the same host with a     *)
(* port, and the host b that a delegates to.                               *)
(***************************************************************************)
EXTENDS ServerHealth, TLC

CONSTANTS a, aPort, b

MCNames == {a, aPort, b}
MCHostOf == (a :> a) @@ (aPort :> a) @@ (b :> b)
MCDelegateOf == (a :> b) @@ (aPort :> aPort) @@ (b :> b)

Interchangeable == Permutations(Results) \cup Permutations(Requests)
=============================================================================
