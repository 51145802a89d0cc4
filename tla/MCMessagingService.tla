-------------------------- MODULE MCMessagingService --------------------------
(* Instances of MessagingService small enough for TLC.                     *)
EXTENDS MessagingService, TLC

CONSTANTS alice, bob, carol, c1, c2

OneGroup == {{alice, bob}}
SeededOne == (c1 :> {alice, bob})
SeededTwo == (c1 :> {alice, bob} @@ c2 :> {})
NoSkew == {0}
SkewedHosts == {0, 1}

Symmetry == Permutations(Request) \cup Permutations(Message)
\* Where the one conversation is between alice and bob, they are interchangeable too.
SymmetryOfTwo == Symmetry \cup Permutations({alice, bob})
=============================================================================
