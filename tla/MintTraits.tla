----------------------------- MODULE MintTraits -----------------------------
(***************************************************************************)
(* What the Minter makes of a random number: the tables of chances and the *)
(* traits of one portrait or accessory.  Pure operators, no state.         *)
(*                                                                         *)
(* The code draws traits from one 256-bit number by dividing it again and  *)
(* again and using the remainders.  Such a number is represented by the    *)
(* sequence of the values that are left at each division: the first trait  *)
(* uses the remainder of the first of them, the next trait that of the     *)
(* second, and so on.                                                      *)
(***************************************************************************)
EXTENDS Integers, Sequences, FiniteSets, FiniteSetsExt, SequencesExt

CONSTANT Virtual    \* the box type of free items

MAX_CHANCE == 10000
TIER_CHANCE_LEN == 4
PORTRAIT_MASK == 6
VIRTUAL_HOLO == 200
ACCESSORY_TYPES == 5

\* Mutant of validTierChances: entries in any order.
boundedTierChances(chances) == \A i \in 1 .. TIER_CHANCE_LEN : chances[i] <= MAX_CHANCE

validTierChances(chances) ==
    /\ \A i \in 1 .. TIER_CHANCE_LEN - 1 : chances[i] <= chances[i + 1]
    /\ chances[TIER_CHANCE_LEN] <= MAX_CHANCE

expressionProbability == <<5000, 8000, 10000>>
stageProbability == <<4500, 8000, 10000>>
illuvialCounts == [tier \in 0 .. 5 |-> <<3, 6, 5, 4, 4, 3>>[tier + 1]]

backgroundTierChances ==
    << [Bronze |-> <<6457, 9201, 9758, 9919>>, Silver |-> <<3948, 7443, 9191, 9838>>,
        Gold |-> <<1067, 4800, 7733, 9333>>, Platinum |-> <<143, 1000, 2929, 7500>>,
        Diamond |-> <<48, 435, 1525, 3946>>],
       [Bronze |-> <<8700, 9624, 9874, 9956>>, Silver |-> <<6912, 8442, 9462, 9887>>,
        Gold |-> <<2775, 5203, 7746, 9307>>, Platinum |-> <<385, 962, 2693, 7308>>,
        Diamond |-> <<126, 378, 1324, 3690>>],
       [Bronze |-> <<8636, 9859, 9942, 9978>>, Silver |-> <<7248, 9387, 9743, 9941>>,
        Gold |-> <<3512, 7610, 8683, 9561>>, Platinum |-> <<750, 2250, 3375, 7375>>,
        Diamond |-> <<253, 928, 1561, 3671>>],
       [Bronze |-> <<8499, 9854, 9976, 9989>>, Silver |-> <<7042, 9380, 9899, 9971>>,
        Gold |-> <<3416, 7900, 9466, 9786>>, Platinum |-> <<1081, 3513, 5945, 8107>>,
        Diamond |-> <<428, 1711, 3315, 4652>>],
       [Bronze |-> <<8402, 9830, 9975, 9996>>, Silver |-> <<6846, 9270, 9876, 9988>>,
        Gold |-> <<3200, 7680, 9440, 9920>>, Platinum |-> <<1000, 3400, 6100, 9300>>,
        Diamond |-> <<535, 2246, 4652, 7326>>] >>

\* backgrounds[tier][line][stage] is a number of variations: the arrays
\* backgroundLines and backgroundStages and the mapping backgroundVariations.
background(line, stages, variations) == [line |-> line, stages |-> stages, variations |-> variations]
backgrounds ==
    [tier \in 0 .. 5 |->
      << << background("Dots", <<1>>, <<10>>) >>,
         << background("Flash", <<1>>, <<10>>) >>,
         << background("Hex", <<2>>, <<8>>), background("Rain", <<3>>, <<8>>) >>,
         << background("Spotlight", <<3>>, <<5>>), background("Mozart", <<2>>, <<8>>) >>,
         << background("Affinity", <<1>>, <<5>>), background("Arena", <<1>>, <<2>>) >>,
         << background("Token", <<1, 2>>, <<1, 1>>), background("Encounter", <<3>>, <<2>>) >>
      >>[tier + 1]]

-----------------------------------------------------------------------------
(***************************************************************************)
(* A cart has three lists of lines [boxType, amount]: portraits, semi-     *)
(* random and fully random accessories.  A semi-random line also carries   *)
(* the accessoryType wanted.  A request is a cart and what was stored with *)
(* it: the totals and the first token id of each kind.                     *)
(***************************************************************************)
total(amount, S) == MapThenSumSet(LAMBDA x : amount[x], S)
Amount(lines) == total([i \in DOMAIN lines |-> lines[i].amount], DOMAIN lines)
PortraitAmount(cart) == Amount(cart.portraits)
AccessoryAmount(cart) == Amount(cart.semiRandom) + Amount(cart.fullRandom)

-----------------------------------------------------------------------------
(* Looking a value up in a table of cumulated chances.                     *)

\* The first entry above the value; 0 when there is none.
firstAbove(table, value) ==
    LET above == {k \in DOMAIN table : value < table[k]}
    IN  IF above = {} THEN 0 ELSE Min(above)

\* Mutant of getTier: tiers counted from zero.
getTierFromZero(tierChances, value) ==
    LET k == firstAbove(tierChances, value % MAX_CHANCE)
    IN  IF k = 0 THEN 0 ELSE k - 1

getTier(tierChances, value) ==
    LET k == firstAbove(tierChances, value % MAX_CHANCE)
    IN  IF k = 0 THEN TIER_CHANCE_LEN + 1 ELSE k

\* The loop finds an entry of backgroundTierChances and breaks, and then
\* the statement after it overwrites what was found.
getBackgroundTier(boxType) == IF boxType = Virtual THEN 0 ELSE TIER_CHANCE_LEN + 1

\* 0 Normal, 1 ExpressionA, 2 ExpressionB.
getExpression(value) ==
    LET k == firstAbove(expressionProbability, value % MAX_CHANCE)
    IN  IF k = 0 THEN 0 ELSE k - 1

getFinish(value, holoProbability) ==
    IF value % MAX_CHANCE <= holoProbability THEN "Holo" ELSE "Normal"

getAccessoryStage(value) == firstAbove(stageProbability, value % MAX_CHANCE)

\* The type is a remainder of the number the stage is then drawn from, too.
getAccessoryType(value) == value % ACCESSORY_TYPES

-----------------------------------------------------------------------------
(* One item.                                                               *)

isVirtual(line) == line.boxType = Virtual

tierOf(rand, line, mintInfo) ==
    IF isVirtual(line) THEN 0 ELSE getTier(mintInfo[line.boxType].tierChances, rand[1])

\* What is left of the number once the tiers have been drawn from it.
afterTier(rand, line) == IF isVirtual(line) THEN rand ELSE Tail(rand)
afterTiers(rand, line) == IF isVirtual(line) THEN rand ELSE Tail(Tail(rand))

getPortraitInfo(rand, line, tokenId, mintInfo) ==
    LET tier == tierOf(rand, line, mintInfo)
        rest == afterTiers(rand, line)
        backgroundTier == getBackgroundTier(line.boxType)
        lines == backgrounds[backgroundTier]
        chosen == lines[1 + (rest[2] % Len(lines))]
        stage == 1 + (rest[3] % Len(chosen.stages))
    IN  [tokenId |-> tokenId, boxType |-> line.boxType, tier |-> tier,
         illuvial |-> rest[1] % illuvialCounts[tier],
         backgroundTier |-> backgroundTier,
         backgroundLine |-> chosen.line,
         backgroundStage |-> chosen.stages[stage],
         backgroundVariation |-> rest[4] % chosen.variations[stage],
         expression |-> getExpression(rest[5]),
         finish |-> getFinish(rest[6], IF isVirtual(line) THEN VIRTUAL_HOLO
                                       ELSE mintInfo[line.boxType].holoProbability)]

getSemiAccessoryInfo(rand, line, tokenId, mintInfo) ==
    [tokenId |-> tokenId, boxType |-> line.boxType,
     accessoryType |-> line.accessoryType,
     tier |-> tierOf(rand, line, mintInfo),
     stage |-> getAccessoryStage(afterTier(rand, line)[1])]

getFullAccessoryInfo(rand, line, tokenId, mintInfo) ==
    LET rest == afterTier(rand, line)
    IN  [tokenId |-> tokenId, boxType |-> line.boxType,
         accessoryType |-> getAccessoryType(rest[1]),
         tier |-> tierOf(rand, line, mintInfo),
         stage |-> getAccessoryStage(rest[1])]

-----------------------------------------------------------------------------
(* A whole request.                                                        *)

\* Mutant of eachItem: the line index does not advance.
eachItemOfFirstLine(lines) == [j \in 1 .. Amount(lines) |-> lines[1]]

\* A line that asks for several items, once for each item.
eachItem(lines) == FlattenSeq([i \in DOMAIN lines |-> [j \in 1 .. lines[i].amount |-> lines[i]]])

\* Mutants of portraitTokenId and accessoryTokenId: the id advances before
\* it is used.
portraitTokenIdLate(request, n) == request.portraitStartTokenId + PORTRAIT_MASK * n
accessoryTokenIdLate(request, n) == request.accessoryStartTokenId + n

\* The token id of the n-th portrait and of the n-th accessory.
portraitTokenId(request, n) == request.portraitStartTokenId + PORTRAIT_MASK * (n - 1)
accessoryTokenId(request, n) == request.accessoryStartTokenId + n - 1

\* randoms[n] is the number of the n-th item: the request's seed, its hash,
\* the hash of that, and so on.  The loops fill an array of the stored size.
getPortraitsInfo(request, randoms, mintInfo) ==
    LET items == eachItem(request.cart.portraits)
    IN  [n \in 1 .. request.portraitAmount |->
            getPortraitInfo(randoms[n], items[n], portraitTokenId(request, n), mintInfo)]

\* Accessories go on where the portraits have stopped, semi-random first.
getAccessoriesInfo(request, randoms, mintInfo) ==
    LET semi == eachItem(request.cart.semiRandom)
        full == eachItem(request.cart.fullRandom)
    IN  [n \in 1 .. Len(semi) + Len(full) |->
            LET rand == randoms[request.portraitAmount + n]
                tokenId == accessoryTokenId(request, n)
            IN  IF n <= Len(semi)
                THEN getSemiAccessoryInfo(rand, semi[n], tokenId, mintInfo)
                ELSE getFullAccessoryInfo(rand, full[n - Len(semi)], tokenId, mintInfo)]
=============================================================================
