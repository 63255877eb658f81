------------------------------ MODULE Accounts ------------------------------
(***************************************************************************)
(* What a node promises the holders of its accounts: a transaction is      *)
(* admitted only against money that is there, a block gives nobody less    *)
(* than what was admitted, and so no account is ever overdrawn.            *)
(* Blockchain.tla is shown to implement it.                                *)
(***************************************************************************)
EXTENDS Integers

CONSTANT Address

VARIABLES
    balance,    \* what the chain gives each address
    reserved    \* what its pending transactions will take of it

vars == <<balance, reserved>>

Nothing == [a \in Address |-> 0]

Init == balance = Nothing /\ reserved = Nothing

(* A transaction of a is admitted, or replaces one that was. *)
Reserve(a) ==
    /\ \E r \in 0 .. balance[a] : reserved' = [reserved EXCEPT ![a] = r]
    /\ UNCHANGED balance

(* A block confirms some of what was promised; nobody is left with less    *)
(* than the promises already made would have left.                         *)
Settle ==
    /\ balance' \in [Address -> Int]
    /\ reserved' \in [Address -> Nat]
    /\ \A a \in Address :
          /\ reserved'[a] <= reserved[a]
          /\ balance'[a] - reserved'[a] >= balance[a] - reserved[a]

(* The saved file was refused at startup: everybody starts again. *)
Reset == balance' = Nothing /\ reserved' = Nothing

Next == (\E a \in Address : Reserve(a)) \/ Settle \/ Reset

Spec == Init /\ [][Next]_vars

TypeOK == balance \in [Address -> Int] /\ reserved \in [Address -> Nat]

(* No account is overdrawn: the chain gives each address at least what its *)
(* pending transactions take.                                              *)
Covered == \A a \in Address : reserved[a] <= balance[a]
=============================================================================
