------------------------------- MODULE Reports -------------------------------
(***************************************************************************)
(* What a node tells about its ledger (src/core/blockchain.js): receipts,  *)
(* the activity of an address, supply and fees.  The routes that answer    *)
(* with these change nothing; they are here because what they say relates  *)
(* one state to another, and one count to another.                         *)
(***************************************************************************)
EXTENDS Ledger, SequencesExt

(* Where t stands in the chain: a set of one position or none.             *)
BlocksWith(chain, t) == {i \in DOMAIN chain : t \in Range(chain[i].transactions)}

(* getTransactionReceipt and findTransaction: the chain is searched first. *)
Receipt(led, t) ==
    LET blocks == BlocksWith(led.chain, t)
    IN  IF blocks # {}
        THEN [status |-> "confirmed", blockHeight |-> Min(blocks) - 1,
              confirmations |-> Len(led.chain) - Min(blocks) + 1]
        ELSE IF t \in Range(led.pendingTransactions)
        THEN [status |-> "pending", confirmations |-> 0]
        ELSE [status |-> "not_found", confirmations |-> 0]

(* getAddressActivity, for the transactions of a block or for the pending  *)
(* ones: what an address sends to itself is listed once, as incoming.      *)
Activity(txs, a) ==
    LET touching == Subsequence(txs, {t \in Range(txs) : a \in {t.from, t.to}})
    IN  [j \in DOMAIN touching |->
            [direction |-> IF touching[j].to = a THEN "incoming" ELSE "outgoing",
             transaction |-> touching[j]]]

(* effectiveDebit and effectiveCredit of a receipt, for one line of it.    *)
Effect(line, a) ==
    LET t == line.transaction
    IN  (IF line.direction = "incoming" THEN t.amount ELSE 0)
            - (IF t.from = a THEN t.amount + t.fee ELSE 0)

(* getTotalSupply: what the reward transactions pay, the fees among it.    *)
TotalSupply(chain) ==
    SumSeq([i \in DOMAIN chain |->
        SumSeq([j \in DOMAIN chain[i].transactions |->
            IF chain[i].transactions[j].from = Coinbase
            THEN chain[i].transactions[j].amount ELSE 0])])

(* getTotalFeesCollected; the fee of a reward is 0. *)
TotalFeesCollected(chain) ==
    SumSeq([i \in DOMAIN chain |-> Fees(chain[i].transactions)])
==============================================================================
