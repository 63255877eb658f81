------------------------------ MODULE MCWallets ------------------------------
(* Two names, one of them spelled in two ways, and a name that is refused. *)
EXTENDS Wallets

CONSTANTS k1, k2, k3, words, alice, bob, Alice, bad, backup

MCKeyOf == [m \in {words} |-> k3]

MCNormalized ==
    [n \in {alice, bob, Alice, bad} |->
        CASE n = bad -> Invalid [] n = bob -> bob [] OTHER -> alice]
==============================================================================
