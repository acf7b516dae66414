------------------------------ MODULE MCMinter ------------------------------
(* Small instances of Minter for TLC. *)
EXTENDS Minter

line(boxType, amount) == [boxType |-> boxType, amount |-> amount]
semi(boxType, accessoryType, amount) ==
    [boxType |-> boxType, accessoryType |-> accessoryType, amount |-> amount]
cart(portraits, semiRandom, fullRandom) ==
    [portraits |-> portraits, semiRandom |-> semiRandom, fullRandom |-> fullRandom]

\* Carts of one paid and one free box type: every list in use, lists of
\* several lines, nothing at all, a line of amount zero and a mixture of
\* paid and free lines.
MixedCarts ==
    {cart(<<line("Bronze", 1)>>, <<>>, <<>>),
     cart(<<line("Bronze", 1), line("Bronze", 2)>>, <<semi("Bronze", 2, 1)>>, <<line("Bronze", 2)>>),
     cart(<<line("Virtual", 2)>>, <<>>, <<line("Virtual", 1)>>),
     cart(<<>>, <<semi("Virtual", 1, 1)>>, <<>>),
     cart(<<>>, <<>>, <<>>),
     cart(<<line("Bronze", 0)>>, <<>>, <<>>),
     cart(<<line("Virtual", 1)>>, <<>>, <<line("Bronze", 1)>>)}

\* Carts that only a paid mint accepts, and the one that is empty.
PaidCarts ==
    {cart(<<line("Bronze", 1)>>, <<>>, <<>>),
     cart(<<>>, <<semi("Bronze", 0, 1)>>, <<line("Bronze", 1)>>),
     cart(<<>>, <<>>, <<>>)}

\* Carts with something to pay for.
PricedCarts ==
    {cart(<<line("Bronze", 1)>>, <<>>, <<>>),
     cart(<<>>, <<semi("Bronze", 0, 1)>>, <<line("Bronze", 1)>>)}

PortraitPrices(prices) ==
    {[price |-> p, tierChances |-> <<5000, 8000, 9000, 10000>>, holoProbability |-> 200] : p \in prices}
AccessoryPrices(prices) ==
    {[randomPrice |-> p, semiRandomPrice |-> p + 1, tierChances |-> <<5000, 8000, 9000, 10000>>] : p \in prices}

NoInfos == {}
SomePortraitInfo ==
    PortraitPrices({1})
    \cup {[price |-> 0, tierChances |-> <<5000, 4000, 9000, 10000>>, holoProbability |-> 0]}
SomeAccessoryInfo ==
    AccessoryPrices({1})
    \cup {[randomPrice |-> 0, semiRandomPrice |-> 0, tierChances |-> <<0, 0, 0, 10001>>]}
=============================================================================
