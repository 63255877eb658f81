---------------------------- MODULE MCBlockchain ----------------------------
(* The instances of Blockchain.tla that TLC checks: which transactions the *)
(* wallets may sign.                                                       *)
EXTENDS Blockchain, TLC

CONSTANTS a, b, MCAmounts, MCFees, MCMaxNonce, MCBytes

(* Transfers between the accounts. *)
MCTransfers ==
    {t \in [from : Address, to : Address, amount : MCAmounts, fee : MCFees,
            nonce : 0 .. MCMaxNonce, timestamp : {1}, type : {"transfer"}, bytes : {0}] :
        t.from # t.to}

(* Data transactions, sent to oneself as the application routes send them. *)
MCData ==
    {t \in [from : Address, to : Address, amount : {0}, fee : MCFees,
            nonce : 0 .. MCMaxNonce, timestamp : {1}, type : {"data"}, bytes : MCBytes] :
        t.from = t.to}

MCTransactions == MCTransfers \cup MCData
=============================================================================
