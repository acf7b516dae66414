----------------------------- MODULE MintResult -----------------------------
(***************************************************************************)
(* The Minter together with the views that tell a requester what to mint,  *)
(* getPaidMintResult and getFreeMintResult.  The views keep no state: they *)
(* compute the items from the stored request, its random number and the    *)
(* chances in force at the time of the call.                               *)
(***************************************************************************)
EXTENDS Minter

CONSTANT Randoms    \* random numbers an item is drawn from

ASSUME RandomsAssumption == \A rand \in Randoms : Len(rand) = 8 /\ rand \in Seq(Nat)

result(request, rand) ==
    LET randoms == [n \in 1 .. request.portraitAmount + request.accessoryAmount |-> rand]
    IN  [portraits |-> getPortraitsInfo(request, randoms, portraitMintInfo),
         accessories |-> getAccessoriesInfo(request, randoms, accessoryMintInfo)]

\* getPaidMintResult reverts while there is no random number, and
\* getFreeMintResult for an index not used so far.
hasPaidResult(id) == mintRequests[id].randomNumber # 0
hasFreeResult(i) == freeRequests[i].requester # NoAddress

\* The requests that have a result, under the names MintService gives them.
requestsWithResult ==
    ({"paid"} \X {id \in RequestIds : hasPaidResult(id)})
    \cup ({"free"} \X {i \in FreeIds : hasFreeResult(i)})
requestOf(o) == IF o[1] = "paid" THEN mintRequests[o[2]] ELSE freeRequests[o[2]]

-----------------------------------------------------------------------------
(* Token ids.                                                              *)

\* The six forms of a portrait, and the one form of an accessory.
formsOf(portrait) == portrait.tokenId .. portrait.tokenId + PORTRAIT_MASK - 1
formOf(accessory) == {accessory.tokenId}

idsIn(items, ids(_)) == UNION {ids(items[n]) : n \in DOMAIN items}
disjointIds(items, ids(_)) ==
    \A m, n \in DOMAIN items : m # n => ids(items[m]) \cap ids(items[n]) = {}

\* Whatever the random number, the items of a result use up exactly the
\* token ids that were reserved when the request was made, each id once.
\* The getter finds its ids by stepping from the start ids, the request
\* reserved them by its totals: the two must agree on every cart.
ResultsFillReservations ==
    \A o \in requestsWithResult, rand \in Randoms :
        LET r == requestOf(o)
            items == result(r, rand)
        IN  /\ disjointIds(items.portraits, formsOf)
            /\ disjointIds(items.accessories, formOf)
            /\ idsIn(items.portraits, formsOf) = portraitIds(r)
            /\ idsIn(items.accessories, formOf) = accessoryIds(r)

-----------------------------------------------------------------------------
(* Items.                                                                  *)

bought(lines, field, value) ==
    total([i \in DOMAIN lines |-> lines[i].amount], {i \in DOMAIN lines : lines[i][field] = value})
drawn(items, field, value) == Cardinality({n \in DOMAIN items : items[n][field] = value})

\* A result has as many items of each box type as were paid for, and at
\* least as many accessories of each type as were asked for by type.
ResultsAreWhatWasOrdered ==
    \A o \in requestsWithResult, rand \in Randoms :
        LET r == requestOf(o)
            items == result(r, rand)
        IN  /\ \A b \in BoxTypes :
                /\ drawn(items.portraits, "boxType", b) = bought(r.cart.portraits, "boxType", b)
                /\ drawn(items.accessories, "boxType", b)
                     = bought(r.cart.semiRandom, "boxType", b) + bought(r.cart.fullRandom, "boxType", b)
            /\ \A t \in 0 .. ACCESSORY_TYPES - 1 :
                drawn(items.accessories, "accessoryType", t)
                  >= bought(r.cart.semiRandom, "accessoryType", t)

existingBackground(p) ==
    \E b \in DOMAIN backgrounds[p.backgroundTier] :
        LET chosen == backgrounds[p.backgroundTier][b]
        IN  \E s \in DOMAIN chosen.stages :
                /\ p.backgroundLine = chosen.line
                /\ p.backgroundStage = chosen.stages[s]
                /\ p.backgroundVariation < chosen.variations[s]

\* The traits of every portrait name an illuvial, a background line, stage
\* and variation that exist for its tiers, an expression and a finish; those
\* of every accessory a type and a stage that exist.  Only items of virtual
\* boxes are of tier 0.
TraitsExist ==
    \A o \in requestsWithResult, rand \in Randoms :
        LET items == result(requestOf(o), rand)
        IN  /\ \A n \in DOMAIN items.portraits :
                LET p == items.portraits[n]
                IN  /\ p.tier \in IF isVirtual(p) THEN {0} ELSE 1 .. 5
                    /\ p.illuvial < illuvialCounts[p.tier]
                    /\ existingBackground(p)
                    /\ p.expression \in 0 .. 2
            /\ \A n \in DOMAIN items.accessories :
                LET a == items.accessories[n]
                IN  /\ a.tier \in IF isVirtual(a) THEN {0} ELSE 1 .. 5
                    /\ a.accessoryType \in 0 .. ACCESSORY_TYPES - 1
                    /\ a.stage \in 1 .. 3

-----------------------------------------------------------------------------
(* Chances.                                                                *)

Values == 0 .. MAX_CHANCE - 1

\* What the setters let pass: see TiersFollowTables of FunctionChecks for
\* every table there is.
storedTables ==
    {portraitMintInfo[b].tierChances : b \in BoxTypes} \cup {accessoryMintInfo[b].tierChances : b \in BoxTypes}

\* The tables in storage, before and after the owner sets them, are exact:
\* entry k is the chance out of MAX_CHANCE of tier k or a lower one.
StoredTablesAreExact ==
    \A chances \in storedTables, value \in Values, k \in 1 .. TIER_CHANCE_LEN :
        getTier(chances, value) <= k <=> value < chances[k]

\* What test/include/illuvitars_mint_results.ts says of a portrait from a
\* paid box: whenever the table of background tier chances has an entry for
\* the number drawn, that entry is the portrait's background tier.
BackgroundTiersFollowTable ==
    \A o \in requestsWithResult, rand \in Randoms :
        LET items == result(requestOf(o), rand)
        IN  \A n \in DOMAIN items.portraits :
                LET p == items.portraits[n]
                    k == firstAbove(backgroundTierChances[p.tier][p.boxType], rand[2] % MAX_CHANCE)
                IN  ~isVirtual(p) /\ k # 0 => p.backgroundTier = k
=============================================================================
