------------------------------ MODULE BnUtils ------------------------------
(***************************************************************************)
(* The arithmetic of scripts/include/bn_utils.js: random numbers of a      *)
(* range and the drawings of amounts the tests print.  A drawing is the    *)
(* positions of its bars, from 1, and its width.                           *)
(***************************************************************************)
EXTENDS Integers, Sequences, SequencesExt

CONSTANT TWO256     \* 2^256

ASSUME BnUtilsAssumption == TWO256 \in Nat \ {0}

\* Mutant of random_bn: the range is taken to include its end.
randomBnToEnd(from, to, rnd256) == ((to - from + 1) * rnd256) \div TWO256 + from

\* rnd256 is 256 bits of randomness.
random_bn(from, to, rnd256) == ((to - from) * rnd256) \div TWO256 + from

sum_bn(array) == FoldLeft(LAMBDA accumulator, currentVal : accumulator + currentVal, 0, array)

-----------------------------------------------------------------------------
(* Drawings.                                                               *)

\* Mutant of carriedOver: what is left of a character is dropped.
nothingCarriedOver(amount, skip, total_amount) == 0

\* What remains of the amounts when skip characters are drawn for them.
carriedOver(amount, skip, total_amount) == amount - (skip * total_amount) \div 100

\* skip characters are drawn for an amount, the last of them a bar.
drawAmount(drawn, amount, total_amount) ==
    LET due == amount + drawn.remainder
        skip == (due * 100) \div total_amount
    IN  [width |-> drawn.width + skip,
         bars |-> IF skip = 0 THEN drawn.bars ELSE drawn.bars \cup {drawn.width + skip},
         remainder |-> carriedOver(due, skip, total_amount)]

draw_amounts(amounts) ==
    LET total_amount == sum_bn(amounts)
        nothing == [width |-> 0, bars |-> {}, remainder |-> 0]
    IN  IF total_amount = 0 THEN [nothing EXCEPT !.width = 100]
        ELSE FoldLeft(LAMBDA drawn, amount : drawAmount(drawn, amount, total_amount), nothing, amounts)

\* a/b in hundredths of a percent.
to_percent(a, b) == (a * 10000) \div b

\* Mutant of round: what is left is cut off.
cutOff(percent) == percent \div 100

\* Math.round.
round(percent) == (percent + 50) \div 100

\* Dots before the bar, of which there are none for 0 %, and after it.
draw_percent(percent) ==
    LET before == IF round(percent) > 1 THEN round(percent) - 1 ELSE 0
        after == IF round(percent) < 100 THEN 100 - round(percent) ELSE 0
    IN  [width |-> before + 1 + after, bars |-> {before + 1}]
=============================================================================
