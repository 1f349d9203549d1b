---------------------------- MODULE MCEthSender ----------------------------
(* An instance of EthSender with faults that is rich in two directions: one *)
(* block with several gas prices, and several blocks with a single price.   *)

EXTENDS EthSender

LowPrice == CHOOSE p \in Prices : \A q \in Prices : p <= q

(* The transactions signed at a higher price. *)
PricedUp ==
    {tx \in mempool \cup {m.tx : m \in ToSet(mined)}
            \cup UNION {ToSet(row.hashes) : row \in Rows \cup ToSet(open.ops)} :
        tx.price # LowPrice}

(* The states explored: one transaction at a higher price, or operations of *)
(* more than one block, not both.                                           *)
BlocksOrPrices ==
    IF \A op \in ToSet(aggregateOps) : op.last = 1
    THEN Cardinality(PricedUp) <= 1
    ELSE PricedUp = {}
=============================================================================
