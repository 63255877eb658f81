----------------------------- MODULE MCNetwork -----------------------------
(* The instances of Network.tla that TLC checks: who dials whom, and what  *)
(* the wallets sign.                                                       *)
EXTENDS Network, TLC

CONSTANTS a, b, n1, n2, n3, MCAmounts, MCNonces, MCClockOfSigning

(* A pair, and the star of docker-compose.yml. *)
MCPair == {<<n1, n2>>}
MCStar == {<<n2, n1>>, <<n3, n1>>}

(* From a to b.  A later nonce pays more; signing times tell transactions  *)
(* of one nonce apart.                                                     *)
MCTransactions ==
    {t \in [from : {a}, to : {b}, amount : MCAmounts, fee : MCNonces, nonce : MCNonces,
            timestamp : MCClockOfSigning, type : {"transfer"}, bytes : {0}] :
        t.fee = t.nonce}
=============================================================================
