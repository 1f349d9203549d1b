---------------------------- MODULE GasAdjuster -----------------------------
(***************************************************************************)
(* The gas adjuster of the Ethereum sender: the price for a new            *)
(* transaction, the price for the replacement of a stuck one, and the      *)
(* limit on both, which follows the average of the last samples.           *)
(***************************************************************************)
EXTENDS Integers, Sequences

CONSTANTS
    SamplesAmount,      \* GAS_PRICE_SAMPLES_AMOUNT
    NetworkPrices,      \* what the Ethereum client may suggest
    InitialLimit,       \* the limit in the database at the first start
    ScalePercent,       \* limit_scale_factor * 100
    MaxPrice            \* bound: prices and limits explored

VARIABLES
    samples, currentSum, currentMaxPrice,   \* GasStatistics
    storedLimit,                            \* gas_price_limit in the database
    lastUsedPrice,                          \* of the sent transaction, -1: none
    startLimit                              \* history: the limit at the start

statistics == <<samples, currentSum, currentMaxPrice>>
vars == <<statistics, storedLimit, lastUsedPrice, startLimit>>

Smaller(a, b) == IF a <= b THEN a ELSE b
Larger(a, b) == IF a >= b THEN a ELSE b

(* Mutant: one sample more is kept.                                         *)
AddSample_OneMore(price) ==
    LET full == Len(samples) > SamplesAmount
    IN  /\ samples' = Append(IF full THEN Tail(samples) ELSE samples, price)
        /\ currentSum' = currentSum + price - IF full THEN Head(samples) ELSE 0

AddSample(price) ==
    LET full == Len(samples) >= SamplesAmount
    IN  /\ samples' = Append(IF full THEN Tail(samples) ELSE samples, price)
        /\ currentSum' = currentSum + price - IF full THEN Head(samples) ELSE 0

HasAverage == Len(samples) >= SamplesAmount
AveragePrice == currentSum \div SamplesAmount

ScaleUp(old, network) == Larger(network, (old * 115) \div 100)

(* The average once there is one, else the network's price, scaled for a    *)
(* stuck transaction.                                                       *)
SuggestedPrice(isStuck, network) ==
    IF HasAverage THEN AveragePrice
    ELSE IF isStuck THEN ScaleUp(lastUsedPrice, network)
    ELSE network

(* Mutant: the price is not cut.                                            *)
LimitMax_Off(price) == price

LimitMax(price) == Smaller(price, currentMaxPrice)

Init ==
    /\ samples = <<>> /\ currentSum = 0
    /\ currentMaxPrice = InitialLimit /\ storedLimit = InitialLimit
    /\ lastUsedPrice = -1
    /\ startLimit = InitialLimit

GetGasPrice(isStuck) ==
    /\ \E network \in NetworkPrices :
          /\ lastUsedPrice' = LimitMax(SuggestedPrice(isStuck, network))
          /\ AddSample(lastUsedPrice')
    /\ UNCHANGED <<currentMaxPrice, storedLimit, startLimit>>

NewTransaction == GetGasPrice(FALSE)
ReplaceStuck == lastUsedPrice >= 0 /\ GetGasPrice(TRUE)

(* keep_updated: first a sample of the network, when it is time ... *)
SampleNetwork ==
    /\ \E network \in NetworkPrices : AddSample(network)
    /\ UNCHANGED <<currentMaxPrice, storedLimit, lastUsedPrice, startLimit>>

(* ... then the limit, which is stored unless the database fails. *)
UpdateLimit ==
    /\ HasAverage
    /\ currentMaxPrice' = ((currentSum \div Len(samples)) * ScalePercent) \div 100
    /\ currentMaxPrice' <= MaxPrice
    /\ storedLimit' \in {storedLimit, currentMaxPrice'}
    /\ UNCHANGED <<samples, currentSum, lastUsedPrice, startLimit>>

(* The statistics are lost; the limit and the sent transaction are stored. *)
Restart ==
    /\ samples' = <<>> /\ currentSum' = 0
    /\ currentMaxPrice' = storedLimit
    /\ startLimit' = storedLimit
    /\ UNCHANGED <<storedLimit, lastUsedPrice>>

Next == NewTransaction \/ ReplaceStuck \/ SampleNetwork \/ UpdateLimit \/ Restart

Spec == Init /\ [][Next]_vars

-----------------------------------------------------------------------------
TypeOK ==
    /\ Len(samples) <= SamplesAmount
    /\ {currentMaxPrice, storedLimit, startLimit} \subseteq 0..MaxPrice

(* The limit is computed from prices that were themselves cut by it, and the *)
(* prices of new and stuck transactions from the samples they leave.  The    *)
(* two do not drive each other up: while the process runs the limit stays    *)
(* within the scale factor of the network's prices and of the limit that     *)
(* was loaded at the start.                                                  *)
LimitFollowsNetwork ==
    \E base \in NetworkPrices \cup {startLimit} :
        currentMaxPrice * 100 <= Larger(base * ScalePercent, base * 100)

(* The price of a replacement is 15% higher, up to the limit.               *)
ReplacementPrice == Smaller((lastUsedPrice * 115) \div 100, currentMaxPrice)

(* The doc comment of GasAdjuster: a stuck transaction is always replaced   *)
(* by one that pays more, unless the limit forbids it.                      *)
ReplacementPaysMore ==
    [][ReplaceStuck => lastUsedPrice' >= ReplacementPrice]_vars
=============================================================================
