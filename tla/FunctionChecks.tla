--------------------------- MODULE FunctionChecks ---------------------------
(***************************************************************************)
(* The parsers of Blueprint, the arithmetic of BnUtils, the permissions of *)
(* FeaturesRoles, the queries of ImxQueries and the tables of MintTraits   *)
(* against what they are for.  The behaviours spell out every input up to  *)
(* a length, element by element.                                           *)
(***************************************************************************)
EXTENDS Blueprint, BnUtils, FeaturesRoles, ImxQueries

CONSTANTS MaxDigits,    \* bound: longest run of digits in a blueprint
          MaxLength,    \* bounds: [kind of input -> its longest inputs]
          Elements      \* [kind of input -> what inputs are made of]

Traits == INSTANCE MintTraits WITH Virtual <- Null

Kinds == {"blueprint", "tables", "amounts", "random", "roles", "paging", "plots", "transfers"}

ASSUME InputAssumption ==
    /\ MaxDigits \in Nat
    /\ DOMAIN MaxLength = Kinds /\ DOMAIN Elements = Kinds
    /\ Elements["blueprint"] = Chars
    /\ \A k \in {"tables", "amounts", "random", "paging"} : Elements[k] \subseteq Nat
    /\ \A k \in {"plots", "transfers"} : \A e \in Elements[k] : e.blockNumber \in Nat

VARIABLES kind, input

Init == kind \in Kinds /\ input = <<>>

\* Digits of a blueprint come in short runs, the plots that were bought in
\* the order of blocks; transfers come in any order, for they are sorted.
mayFollow(e) ==
    /\ kind = "blueprint" /\ isDecimal(e) =>
        \/ Len(input) < MaxDigits
        \/ \E p \in DOMAIN input : p > Len(input) - MaxDigits /\ input[p] = Separator
    /\ kind = "plots" /\ input # <<>> => Last(input).blockNumber <= e.blockNumber

Next ==
    /\ Len(input) < MaxLength[kind]
    /\ \E e \in Elements[kind] : mayFollow(e) /\ input' = Append(input, e)
    /\ UNCHANGED kind

Spec == Init /\ [][Next]_<<kind, input>>

-----------------------------------------------------------------------------
(* The parser of portraits.  The reference: a blueprint is a list of       *)
(* fields, its runs of digits.                                             *)

digitPositions == {p \in DOMAIN input : isDecimal(input[p])}
starts == {p \in digitPositions : p - 1 \notin digitPositions}
ends == {p \in digitPositions : p + 1 \notin digitPositions}

startOf(k) == CHOOSE p \in starts : Cardinality({q \in starts : q <= p}) = k
endOf(k) == CHOOSE p \in ends : Cardinality({q \in ends : q <= p}) = k

\* As many powers of ten as an input may have places.
powersOfTen[n \in 0 .. Len(input)] == IF n = 0 THEN 1 ELSE 10 * powersOfTen[n - 1]

valueBetween(first, last) ==
    LET worth == [p \in first .. last |-> input[p] * powersOfTen[last - p]]
    IN  MapThenSumSet(LAMBDA p : worth[p], first .. last)

field(k) == IF k <= Cardinality(starts) THEN valueBetween(startOf(k), endOf(k)) ELSE 0

skinId == valueBetween(startOf(1) + 1, endOf(1))

wellFormed ==
    /\ starts # {} /\ startOf(1) < endOf(1)
    /\ Len(input) <= MaxPosition
    /\ skinId <= MaxNumber /\ \A k \in 2 .. 5 : field(k) <= MaxNumber

\* Of the blueprints of up to five fields PortraitLayer accepts those whose
\* first field has two digits or more, if neither the length nor a number is
\* too large; that first field is the tier and the skin id run together, the
\* others are the remaining ids in their order, and a field that is missing
\* is zero.  Blueprints of six fields, which the comment of _mint and the
\* tests ask for, are another matter: see PortraitsAreMinted.
PortraitFieldsAreRead ==
    kind = "blueprint" /\ Cardinality(starts) <= 5 =>
        parsePortrait(input) =
            IF wellFormed
            THEN [tier |-> input[startOf(1)],
                  skinId |-> skinId,
                  bodyId |-> field(2), eyeId |-> field(3), headId |-> field(4), propsId |-> field(5)]
            ELSE Revert

-----------------------------------------------------------------------------
(* Tables of chances.                                                      *)

Values == 0 .. Traits!MAX_CHANCE - 1

\* In every table the setters of the Minter let pass, entry k is the chance
\* out of MAX_CHANCE of tier k or a lower one: exactly that many remainders
\* lead there.  The validation and the search must fit together.
TiersFollowTables ==
    kind = "tables" /\ Len(input) = Traits!TIER_CHANCE_LEN /\ Traits!validTierChances(input) =>
        \A value \in Values :
            LET tier == Traits!getTier(input, value)
            IN  \A k \in 1 .. Traits!TIER_CHANCE_LEN : tier <= k <=> value < input[k]

-----------------------------------------------------------------------------
(* Drawings and random numbers.                                            *)

sumOfFirst(k) == MapThenSumSet(LAMBDA i : input[i], 1 .. k)

\* Amounts whose total is a multiple of 100 are drawn to scale, 100 wide:
\* there is a bar exactly where the sum of the first amounts is, for every
\* number of them, rounded down.  Whatever is rounded off must be carried
\* over from amount to amount for that.
AmountsAreDrawnToScale ==
    kind = "amounts" /\ sumOfFirst(Len(input)) % 100 = 0 =>
        LET total == sumOfFirst(Len(input))
            drawn == draw_amounts(input)
        IN  /\ drawn.width = 100
            /\ total > 0 =>
                drawn.bars = {(100 * sumOfFirst(k)) \div total : k \in DOMAIN input} \ {0}

\* The bar of a share is drawn within half a character of where it belongs,
\* although the share is rounded twice, and 100 wide; only a share that rounds
\* to nothing is drawn wider.
PercentsAreDrawnToScale ==
    kind = "amounts" /\ Len(input) = 2 /\ input[2] > 0 /\ input[1] <= input[2] =>
        LET part == input[1]
            whole == input[2]
            percent == to_percent(part, whole)
            drawn == draw_percent(percent)
            bar == CHOOSE k \in drawn.bars : TRUE
        IN  round(percent) > 0 =>
                /\ drawn.width = 100
                /\ 100 * (100 * part - bar * whole) \in -50 * whole .. 50 * whole

\* r \in [from, to), for every outcome of the generator.
RandomsAreInRange ==
    kind = "random" /\ Len(input) = 3 /\ input[1] < input[2] /\ input[3] < TWO256 =>
        random_bn(input[1], input[2], input[3]) \in input[1] .. input[2] - 1

-----------------------------------------------------------------------------
(* Permissions.                                                            *)

\* not takes away the roles it is given, however often, and no other
\* permission of any contract: all that two contracts' permissions share is
\* between contracts.
contracts == {tokenPermissions, salePermissions, oraclePermissions}
managers == [ROLE_ACCESS_MANAGER |-> ROLE_ACCESS_MANAGER, ROLE_UPGRADE_MANAGER |-> ROLE_UPGRADE_MANAGER]
permissionsOf(contract) ==
    [name \in DOMAIN contract \cup DOMAIN managers |->
        IF name \in DOMAIN contract THEN contract[name] ELSE managers[name]]
NotKeepsTheRest ==
    kind = "roles" =>
        \A contract \in contracts :
            LET permissions == permissionsOf(contract)
                left == not([i \in DOMAIN input |-> permissions[input[i]]])
            IN  ToSet(input) \subseteq DOMAIN permissions =>
                    \A name \in DOMAIN permissions :
                        IF name \in ToSet(input) THEN permissions[name] \cap left = {}
                        ELSE permissions[name] \subseteq left

-----------------------------------------------------------------------------
(* Queries.                                                                *)

\* min(totalNumberOfTrades, loopNTimes * pageSize) trades are returned, as the
\* comment of get_all_trades says, and they are the newest, without gaps.
PagesAreTheNewest ==
    kind = "paging" /\ Len(input) = 4 /\ input[2] > 0 =>
        LET total == input[1]
            wanted == IF input[3] = NoLimit THEN total ELSE Min({total, input[3] * input[2]})
            newest == [i \in 1 .. wanted |-> total - i + 1]
        IN  /\ get_all_transfers(total, input[2], input[3]) = newest
            /\ get_all_trades(total, input[2], input[3], input[4]) \in {newest, Null}

\* verify finds blueprints consistent only if IMX has for every token what
\* every event of the blocks asked for says of it: it never passes over a token
\* that is not there, or over two events that contradict each other.
minted == [t1 |-> "plot1", t2 |-> "plot2", t3 |-> Null]
ConsistentMeansEqual ==
    kind = "plots" =>
        \A from_block, to_block \in {Null, 1, 2} :
            LET events == get_plot_bought_l2_events(input, from_block, to_block)
                agrees(e) == e._tokenId \in DOMAIN minted /\ minted[e._tokenId] = e._plotPacked
            IN  verify(events, minted) = <<>> <=>
                    \A i \in DOMAIN input :
                        \/ from_block # Null /\ input[i].blockNumber < from_block
                        \/ to_block # Null /\ input[i].blockNumber > to_block
                        \/ agrees(input[i])

transfersOf(token_id) == {i \in DOMAIN input : input[i].tokenId = token_id}
isLater(i, j) ==
    \/ input[i].blockNumber > input[j].blockNumber
    \/ input[i].blockNumber = input[j].blockNumber /\ i > j

\* The owner of token_id by the events is the receiver of its latest transfer,
\* in whatever order the events come, as long as no other token of the layer
\* has been transferred since.  That condition is in no doc of the function:
\* without it the code returns the owner of some other token.
SnapshotIsLatestOwner ==
    kind = "transfers" =>
        \A token_id \in {input[i].tokenId : i \in DOMAIN input} :
            (\A j \in DOMAIN input \ transfersOf(token_id) :
                \E i \in transfersOf(token_id) : isLater(i, j))
            => \E i \in transfersOf(token_id) :
                    /\ \A j \in transfersOf(token_id) \ {i} : isLater(i, j)
                    /\ get_owner_of_snapshot_l1(input, token_id) = input[i].to
=============================================================================
