---------------------------- MODULE MCMintResult ----------------------------
(* Small instances of MintResult for TLC. *)
EXTENDS MintResult, MCMinter

\* Carts of several lines with several items each, of paid and of free boxes.
ResultCarts ==
    {cart(<<line("Bronze", 2), line("Diamond", 1)>>, <<>>, <<>>),
     cart(<<line("Diamond", 1)>>,
          <<semi("Bronze", 2, 2), semi("Diamond", 4, 1)>>, <<line("Bronze", 2), line("Bronze", 1)>>),
     cart(<<line("Virtual", 2)>>, <<semi("Virtual", 1, 1)>>, <<line("Virtual", 1)>>)}

\* Draws at the edges of the tables and inside them.
EdgeRandoms ==
    {[i \in 1 .. 8 |-> 0],
     [i \in 1 .. 8 |-> MAX_CHANCE - 1],
     <<4999, 9998, 7, 1, 1, 9, 7999, 201>>,
     <<5000, 4499, 5, 3, 2, 7, 8000, 200>>,
     <<9500, 7999, 4, 5, 3, 4, 4999, 202>>}

tables(chances) == {[price |-> 0, tierChances |-> c, holoProbability |-> 200] : c \in chances}
accessoryTables(chances) ==
    {[randomPrice |-> 0, semiRandomPrice |-> 0, tierChances |-> c] : c \in chances}

BronzeChances == {<<8000, 9700, 9930, 9980>>}
DeployedPortraits == tables(BronzeChances)
DeployedAccessories == accessoryTables({<<8100, 9200, 9700, 9900>>})
=============================================================================
