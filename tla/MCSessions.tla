----------------------------- MODULE MCSessions -----------------------------
(* Two users of one device, who are interchangeable, and so are tokens.       *)
EXTENDS Sessions, TLC

CONSTANTS alice, bob, x1, x2, x3

Users  == {alice, bob}
Tokens == {x1, x2, x3}
Symmetry == Permutations(Users) \cup Permutations(Tokens)
=============================================================================
