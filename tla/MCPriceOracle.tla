---------------------------- MODULE MCPriceOracle ----------------------------
(* Small instances of PriceOracle for TLC. *)
EXTENDS PriceOracle, TLC

\* A negative answer, none and a usable one.
SomeAnswers == {-1, 0, 3}

\* Nothing tells the accounts apart, nor the implementations.
Alike == Permutations(Senders) \cup Permutations(Implementations)
=============================================================================
