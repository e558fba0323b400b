---------------------------- MODULE MCOrderLines ----------------------------
(* OrderLines on small instances: clients are interchangeable, and so are   *)
(* the ids of lines that are still to be inserted.                          *)
EXTENDS OrderLines, TLC

CONSTANTS soup, rice

\* Odd prices, so that half of a line is rounded.
MenuPrice == soup :> 3 @@ rice :> 5

HalfPrice == [mode |-> "percent", value |-> 5000]
TwoOff == [mode |-> "amount", value |-> 2]

NoChoices == {}
OneChoice == {HalfPrice}
BothChoices == {HalfPrice, TwoOff}

NetTax == [vat |-> 1000, inclusive |-> FALSE, service |-> 2000]

Interchangeable == Permutations(Client) \cup Permutations(Line \ Kept)

=============================================================================
