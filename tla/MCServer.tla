------------------------------ MODULE MCServer ------------------------------
(* Instances of Server for TLC. *)
EXTENDS Server

(* A transaction and a batch that continues it.  Each needs a deposit.     *)
MCTxs == {"a", "b", "c"}
MCNonce == [a |-> 0, b |-> 1, c |-> 2]
MCFee == [a |-> 1, b |-> 0, c |-> 1]
MCFastTxs == {"b"}
MCSubmissions == {<<"a">>, <<"b", "c">>}
=============================================================================
