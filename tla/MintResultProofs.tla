-------------------------- MODULE MintResultProofs --------------------------
(***************************************************************************)
(* Theorems about MintResult, for every value of its constants: about the  *)
(* chances items are drawn by, and about the items of every result.        *)
(***************************************************************************)
EXTENDS MintResult, MinterProofs

-----------------------------------------------------------------------------
(* Chances.                                                                *)

\* In a table of growing chances the search finds tier k or a lower one iff
\* the remainder is below entry k.
LEMMA TierFollowsTable ==
    ASSUME NEW chances \in [1 .. TIER_CHANCE_LEN -> Nat], validTierChances(chances),
           NEW value \in Values, NEW k \in 1 .. TIER_CHANCE_LEN
    PROVE  getTier(chances, value) <= k <=> value < chances[k]
  <1> DEFINE above == {i \in DOMAIN chances : value < chances[i]}
  <1>1. /\ chances[1] <= chances[2] /\ chances[2] <= chances[3] /\ chances[3] <= chances[4]
        /\ chances[1] \in Nat /\ chances[2] \in Nat /\ chances[3] \in Nat /\ chances[4] \in Nat
    BY DEF validTierChances, TIER_CHANCE_LEN
  <1>2. value % MAX_CHANCE = value /\ value \in Nat
    <2>1. value \in 0 .. 9999
      BY DEF Values, MAX_CHANCE
    <2> QED
      BY <2>1 DEF MAX_CHANCE
  <1>3. above \in SUBSET (1 .. 4) /\ k \in 1 .. 4
    BY DEF TIER_CHANCE_LEN
  <1>4. \A i \in 1 .. 4 : i \in above <=> value < chances[i]
    BY DEF TIER_CHANCE_LEN
  <1>5. getTier(chances, value) = IF above = {} THEN 5 ELSE Min(above)
    <2>1. firstAbove(chances, value) = IF above = {} THEN 0 ELSE Min(above)
      BY DEF firstAbove
    <2>2. above # {} => Min(above) \in 1 .. 4
      BY <1>3, LeastIndex
    <2> HIDE DEF above
    <2> QED
      BY <1>2, <2>1, <2>2 DEF getTier, TIER_CHANCE_LEN
  <1> HIDE DEF above
  <1>6. CASE above = {}
    BY <1>3, <1>4, <1>5, <1>6
  <1>7. CASE above # {}
    <2>1. Min(above) \in above /\ \A i \in above : Min(above) <= i
      BY <1>3, <1>7, LeastIndex
    <2>2. ASSUME Min(above) <= k PROVE k \in above
      <3>1. value < chances[Min(above)] /\ Min(above) \in 1 .. 4
        BY <1>3, <1>4, <2>1
      <3>2. \A i, j \in 1 .. 4 : i <= j => chances[i] <= chances[j]
        BY <1>1
      <3>3. chances[Min(above)] <= chances[k]
        BY <1>3, <2>2, <3>1, <3>2
      <3>4. chances[Min(above)] \in Nat /\ chances[k] \in Nat
        BY <1>3, <3>1 DEF TIER_CHANCE_LEN
      <3> QED
        BY <1>2, <1>3, <1>4, <3>1, <3>3, <3>4
    <2> QED
      BY <1>3, <1>4, <1>5, <1>7, <2>1, <2>2
  <1> QED
    BY <1>6, <1>7

\* Every table in storage is one that a setter has validated, or is empty.
TablesInv ==
    \A b \in BoxTypes :
        /\ portraitMintInfo[b].tierChances \in [1 .. TIER_CHANCE_LEN -> Nat]
        /\ validTierChances(portraitMintInfo[b].tierChances)
        /\ accessoryMintInfo[b].tierChances \in [1 .. TIER_CHANCE_LEN -> Nat]
        /\ validTierChances(accessoryMintInfo[b].tierChances)

\* The tables before the owner has set any: all chances are zero.
LEMMA TablesInit == Init => TablesInv
  BY DEF Init, TablesInv, NoPortraitInfo, NoAccessoryInfo, validTierChances, TIER_CHANCE_LEN,
         MAX_CHANCE

\* A uint16 value is a natural number.
LEMMA EntryIsNatural == ASSUME NEW entry \in uint16 PROVE entry \in Nat
  BY DEF uint16

\* A table of uint16 values is a table of natural numbers.
LEMMA TableEntries ==
    ASSUME NEW S, NEW table \in [S -> uint16]
    PROVE  table \in [S -> Nat]
  <1>1. \A i \in S : table[i] \in Nat
    BY EntryIsNatural
  <1>2. table = [i \in S |-> table[i]]
    OBVIOUS
  <1> QED
    BY <1>1, <1>2, Zenon

\* Only the two setters touch a table, and they validate what they store.
LEMMA TablesStep == TypeOK /\ TablesInv /\ [Next]_vars => TablesInv'
  <1> SUFFICES ASSUME TypeOK, TablesInv, [Next]_vars
               PROVE  TablesInv'
    OBVIOUS
  <1>1. CASE UNCHANGED <<portraitMintInfo, accessoryMintInfo>>
    BY <1>1 DEF TablesInv
  <1>2. ASSUME NEW boxType \in BoxTypes, NEW info \in PortraitInfos,
               setPortraitMintInfo(boxType, info)
        PROVE  TablesInv'
    <2>1. info.tierChances \in [1 .. TIER_CHANCE_LEN -> Nat] /\ validTierChances(info.tierChances)
      <3>1. info.tierChances \in [1 .. TIER_CHANCE_LEN -> uint16]
        BY TableAssumption DEF PortraitMintInfo
      <3>2. info.tierChances \in [1 .. TIER_CHANCE_LEN -> Nat]
        BY <3>1, TableEntries
      <3>3. validTierChances(info.tierChances)
        BY <1>2 DEF setPortraitMintInfo
      <3> QED
        BY <3>2, <3>3
    <2>2. \A b \in BoxTypes :
            /\ portraitMintInfo'[b] = IF b = boxType THEN info ELSE portraitMintInfo[b]
            /\ accessoryMintInfo'[b] = accessoryMintInfo[b]
      <3>1. portraitMintInfo \in [BoxTypes -> PortraitInfos \cup {NoPortraitInfo}]
        BY DEF TypeOK, PortraitTables
      <3> QED
        BY <1>2, <3>1 DEF setPortraitMintInfo
    <2> QED
      BY <2>1, <2>2 DEF TablesInv
  <1>3. ASSUME NEW boxType \in BoxTypes, NEW info \in AccessoryInfos,
               setAccessoryMintInfo(boxType, info)
        PROVE  TablesInv'
    <2>1. info.tierChances \in [1 .. TIER_CHANCE_LEN -> Nat] /\ validTierChances(info.tierChances)
      <3>1. info.tierChances \in [1 .. TIER_CHANCE_LEN -> uint16]
        BY TableAssumption DEF AccessoryMintInfo
      <3>2. info.tierChances \in [1 .. TIER_CHANCE_LEN -> Nat]
        BY <3>1, TableEntries
      <3>3. validTierChances(info.tierChances)
        BY <1>3 DEF setAccessoryMintInfo
      <3> QED
        BY <3>2, <3>3
    <2>2. \A b \in BoxTypes :
            /\ accessoryMintInfo'[b] = IF b = boxType THEN info ELSE accessoryMintInfo[b]
            /\ portraitMintInfo'[b] = portraitMintInfo[b]
      <3>1. accessoryMintInfo \in [BoxTypes -> AccessoryInfos \cup {NoAccessoryInfo}]
        BY DEF TypeOK, AccessoryTables
      <3> QED
        BY <1>3, <3>1 DEF setAccessoryMintInfo
    <2> QED
      BY <2>1, <2>2 DEF TablesInv
  <1>4. ASSUME NEW user \in Users, NEW c \in Carts,
               \/ \E useSIlv \in BOOLEAN, msgValue \in MsgValues, ilvRate \in IlvRates :
                      paidMint(user, c, useSIlv, msgValue, ilvRate)
               \/ freeMint(user, c)
        PROVE  UNCHANGED <<portraitMintInfo, accessoryMintInfo>>
    BY <1>4 DEF paidMint, freeMint, configVars
  <1>5. ASSUME NEW id \in RequestIds, NEW randomNumber, rawFulfillRandomness(id, randomNumber)
        PROVE  UNCHANGED <<portraitMintInfo, accessoryMintInfo>>
    BY <1>5 DEF rawFulfillRandomness, configVars
  <1>6. CASE FundMinterWithLink \/ NextBlock \/ UNCHANGED vars
    BY <1>1, <1>6 DEF FundMinterWithLink, NextBlock, configVars, vars
  <1>7. CASE OwnerStep
    BY <1>1, <1>2, <1>3, <1>7
    DEF OwnerStep, setPortraitSaleWindow, setFreeMintLimitPerTx, setTreasury, withdraw,
        passOwnership, configVars
  <1> QED
    BY <1>1, <1>4, <1>5, <1>6, <1>7 DEF Next, UserStep, Callback

\* Whatever tables the owner sets, the chances of the tiers are the ones in
\* the tables: nothing is stored that the search could not follow.
THEOREM TierChancesAreExact == Spec => []StoredTablesAreExact
  <1>1. TablesInv => StoredTablesAreExact
    BY TierFollowsTable DEF TablesInv, StoredTablesAreExact, storedTables
  <1> QED
    BY <1>1, TypeCorrect, TablesInit, TablesStep, PTL DEF Spec

-----------------------------------------------------------------------------
(* Stored amounts.                                                         *)

\* The totals stored with a request are those of its cart.
wellCounted(request) ==
    /\ request.cart \in Cart
    /\ request.portraitAmount = PortraitAmount(request.cart)
    /\ request.accessoryAmount = AccessoryAmount(request.cart)

\* So it is for every request, the empty ones that wait for their turn too.
AmountsInv ==
    /\ \A id \in RequestIds : wellCounted(mintRequests[id])
    /\ \A i \in FreeIds : wellCounted(freeRequests[i])

\* A request that is not there counts nothing.
LEMMA NoRequestCounts == ASSUME NEW noSeed PROVE wellCounted(NoRequest(noSeed))
  <1> DEFINE f == [i \in DOMAIN <<>> |-> <<>>[i].amount]
  <1>1. SumOf(f, {}) = 0
    BY SumOfNothing
  <1>2. Amount(<<>>) = 0
    <2>1. DOMAIN <<>> = {}
      OBVIOUS
    <2>2. Amount(<<>>) = SumOf(f, DOMAIN <<>>)
      BY TotalIsSum DEF Amount
    <2> HIDE DEF f
    <2> QED
      BY <1>1, <2>1, <2>2
  <1>3. EmptyCart \in Cart
    BY DEF EmptyCart, Cart
  <1> QED
    BY <1>2, <1>3 DEF wellCounted, NoRequest, EmptyCart, PortraitAmount, AccessoryAmount

\* What is stored in a free slot is counted from its cart, which then is all
\* that the slot's arrays hold.
LEMMA StoredRequestCounts ==
    ASSUME NEW user, NEW cart \in Carts, NEW noSeed
    PROVE  wellCounted(storedRequest(NoRequest(noSeed), user, cart))
  <1> DEFINE new == storedRequest(NoRequest(noSeed), user, cart)
  <1>1. cart \in Cart
    BY CartAssumption
  <1>2. /\ <<>> \o cart.portraits = cart.portraits
        /\ <<>> \o cart.semiRandom = cart.semiRandom
        /\ <<>> \o cart.fullRandom = cart.fullRandom
    BY <1>1 DEF Cart
  <1>3. /\ new.cart = [portraits |-> <<>> \o cart.portraits, semiRandom |-> <<>> \o cart.semiRandom,
                       fullRandom |-> <<>> \o cart.fullRandom]
        /\ new.portraitAmount = PortraitAmount(cart)
        /\ new.accessoryAmount = AccessoryAmount(cart)
    BY DEF storedRequest, NoRequest, EmptyCart
  <1> HIDE DEF new
  <1>4. new.cart = cart
    BY <1>1, <1>2, <1>3 DEF Cart
  <1> QED
    BY <1>1, <1>3, <1>4 DEF wellCounted, new

\* Nothing is stored after deployment.
LEMMA AmountsInit == Init => AmountsInv
  BY NoRequestCounts DEF Init, AmountsInv

\* A request is stored with its totals, and they are never written again.
LEMMA AmountsStep == TypeOK /\ StoreInv /\ AmountsInv /\ [Next]_vars => AmountsInv'
  <1> SUFFICES ASSUME TypeOK, StoreInv, AmountsInv, [Next]_vars
               PROVE  AmountsInv'
    OBVIOUS
  <1>1. RequestTypeOK /\ VRFTypeOK
    BY TypeParts
  <1>2. ASSUME NEW user \in Users, NEW cart \in Carts, NEW useSIlv \in BOOLEAN,
               NEW msgValue \in MsgValues, NEW ilvRate \in IlvRates,
               paidMint(user, cart, useSIlv, msgValue, ilvRate)
        PROVE  AmountsInv'
    <2>1. /\ requestId \in RequestIds
          /\ mintRequests[requestId].requester = NoAddress
          /\ mintRequests'[requestId] = storedRequest(mintRequests[requestId], user, cart)
          /\ \A i \in RequestIds : i # requestId => mintRequests'[i] = mintRequests[i]
          /\ UNCHANGED freeRequests
      BY <1>1, <1>2, PaidMintStores
    <2>2. mintRequests[requestId] = NoRequest(0)
      BY <2>1 DEF StoreInv, SlotsInv, placed
    <2>3. wellCounted(mintRequests'[requestId])
      BY <2>1, <2>2, StoredRequestCounts
    <2> QED
      BY <2>1, <2>3 DEF AmountsInv, wellCounted
  <1>3. ASSUME NEW user \in Users, NEW cart \in Carts, freeMint(user, cart)
        PROVE  AmountsInv'
    <2> DEFINE stored == storedRequest(freeRequests[freeRequestCount], user, cart)
    <2>1. /\ freeRequestCount \in FreeIds
          /\ freeRequests'[freeRequestCount]
               = [stored EXCEPT !.randomNumber = <<freeRequestCount + 1, now>>]
          /\ \A i \in FreeIds : i # freeRequestCount => freeRequests'[i] = freeRequests[i]
          /\ UNCHANGED mintRequests
      BY <1>1, <1>3, FreeMintStores
    <2>2. freeRequests[freeRequestCount] = NoRequest(NoFreeSeed)
      BY <1>1, <2>1 DEF StoreInv, SlotsInv, RequestTypeOK
    <2>3. wellCounted(stored)
      BY <2>2, StoredRequestCounts
    <2>4. stored \in MintRequest(FreeSeeds)
      BY <1>1, <2>1, StoredRequestType DEF RequestTypeOK
    <2> HIDE DEF stored
    <2>5. wellCounted(freeRequests'[freeRequestCount])
      BY <2>1, <2>3, <2>4 DEF wellCounted, MintRequest
    <2> QED
      BY <2>1, <2>5 DEF AmountsInv, wellCounted
  <1>4. ASSUME NEW id \in RequestIds, NEW randomNumber \in RandomWords,
               rawFulfillRandomness(id, randomNumber)
        PROVE  AmountsInv'
    <2>1. UNCHANGED freeRequests
      BY <1>4 DEF rawFulfillRandomness
    <2>2. \A i \in RequestIds : /\ mintRequests'[i].cart = mintRequests[i].cart
                                /\ mintRequests'[i].portraitAmount = mintRequests[i].portraitAmount
                                /\ mintRequests'[i].accessoryAmount = mintRequests[i].accessoryAmount
      <3>1. mintRequests \in [RequestIds -> MintRequest(RandomWords \cup {0})]
        BY <1>1 DEF RequestTypeOK
      <3> QED
        BY <1>1, <1>4, <3>1, CallbackStores DEF MintRequest
    <2> QED
      BY <2>1, <2>2 DEF AmountsInv, wellCounted
  <1>5. CASE OtherStep
    BY <1>5, OtherStepRequests DEF AmountsInv, requestVars
  <1> QED
    BY <1>2, <1>3, <1>4, <1>5 DEF Next, UserStep, Callback, OtherStep

\* The totals of every stored request stay those of its cart.
LEMMA AmountsInvariant == Spec => []AmountsInv
  BY AmountsInit, AmountsStep, TypeCorrect, StoreInvariant, PTL DEF Spec

-----------------------------------------------------------------------------
(* The items of a result.                                                  *)

\* A list of lines in full: as many items as the amounts say in total, and
\* as many of a kind as the amounts of the lines of that kind.
LEMMA EachItem ==
    ASSUME NEW L, \A l \in L : l.amount \in Nat, NEW lines \in Seq(L)
    PROVE  /\ eachItem(lines) \in Seq(L)
           /\ Len(eachItem(lines)) = Amount(lines)
           /\ \A P : countIn(eachItem(lines), P)
                        = total([i \in DOMAIN lines |-> lines[i].amount],
                                {i \in DOMAIN lines : lines[i] \in P})
  <1> DEFINE amount == [i \in DOMAIN lines |-> lines[i].amount]
             all == FlattenSeq([i \in DOMAIN lines |-> [j \in 1 .. amount[i] |-> lines[i]]])
  <1>1. amount \in [DOMAIN lines -> Nat]
    OBVIOUS
  <1>2. eachItem(lines) = all
    <2>1. \A i \in DOMAIN lines : amount[i] = lines[i].amount
      OBVIOUS
    <2>2. [i \in DOMAIN lines |-> [j \in 1 .. amount[i] |-> lines[i]]]
            = [i \in DOMAIN lines |-> [j \in 1 .. lines[i].amount |-> lines[i]]]
      BY <2>1
    <2> QED
      BY <2>2 DEF eachItem
  <1> HIDE DEF amount
  <1>3. /\ all \in Seq(L)
        /\ \A P : countIn(all, P) = SumOf(amount, {i \in DOMAIN lines : lines[i] \in P})
        /\ Len(all) = SumOf(amount, DOMAIN lines)
    BY <1>1, CountOfEachItem
  <1> HIDE DEF all
  <1>4. Amount(lines) = SumOf(amount, DOMAIN lines)
    BY TotalIsSum DEF Amount, amount
  <1>5. \A P : total(amount, {i \in DOMAIN lines : lines[i] \in P})
                 = SumOf(amount, {i \in DOMAIN lines : lines[i] \in P})
    BY TotalIsSum
  <1> QED
    BY <1>2, <1>3, <1>4, <1>5 DEF amount

\* The items of a result: what the two getters return for each place.
itemsAre(request, rand, portraits, semiRandom, fullRandom) ==
    LET items == result(request, rand)
    IN  /\ portraits \in Seq(Line) /\ Len(portraits) = request.portraitAmount
        /\ semiRandom \in Seq(SemiRandomLine) /\ fullRandom \in Seq(Line)
        /\ Len(semiRandom) + Len(fullRandom) = request.accessoryAmount
        /\ DOMAIN items.portraits = 1 .. Len(portraits)
        /\ \A n \in 1 .. Len(portraits) :
             items.portraits[n] = getPortraitInfo(rand, portraits[n], portraitTokenId(request, n), portraitMintInfo)
        /\ DOMAIN items.accessories = 1 .. Len(semiRandom) + Len(fullRandom)
        /\ \A n \in 1 .. Len(semiRandom) :
             items.accessories[n]
               = getSemiAccessoryInfo(rand, semiRandom[n], accessoryTokenId(request, n), accessoryMintInfo)
        /\ \A n \in 1 .. Len(fullRandom) :
             items.accessories[Len(semiRandom) + n]
               = getFullAccessoryInfo(rand, fullRandom[n], accessoryTokenId(request, Len(semiRandom) + n),
                                      accessoryMintInfo)

\* A counted request has a number for every item and an item for every
\* place, the semi-random accessories before the fully random ones.
LEMMA ResultItems ==
    ASSUME NEW request, wellCounted(request), NEW rand \in Randoms
    PROVE  itemsAre(request, rand, eachItem(request.cart.portraits),
                    eachItem(request.cart.semiRandom), eachItem(request.cart.fullRandom))
  <1> DEFINE P == eachItem(request.cart.portraits)
             S == eachItem(request.cart.semiRandom)
             F == eachItem(request.cart.fullRandom)
             randoms == [n \in 1 .. request.portraitAmount + request.accessoryAmount |-> rand]
             items == result(request, rand)
  <1>1. /\ request.cart.portraits \in Seq(Line) /\ request.cart.fullRandom \in Seq(Line)
        /\ request.cart.semiRandom \in Seq(SemiRandomLine)
    BY DEF wellCounted, Cart
  <1>2. (\A l \in Line : l.amount \in Nat) /\ \A l \in SemiRandomLine : l.amount \in Nat
    BY DEF Line, SemiRandomLine
  <1>3. /\ P \in Seq(Line) /\ Len(P) = Amount(request.cart.portraits)
        /\ F \in Seq(Line) /\ Len(F) = Amount(request.cart.fullRandom)
    BY <1>1, <1>2, EachItem
  <1>4. S \in Seq(SemiRandomLine) /\ Len(S) = Amount(request.cart.semiRandom)
    BY <1>1, <1>2, EachItem
  <1>5. request.portraitAmount = Len(P) /\ request.accessoryAmount = Len(S) + Len(F)
    BY <1>3, <1>4 DEF wellCounted, PortraitAmount, AccessoryAmount
  <1>6. Len(P) \in Nat /\ Len(S) \in Nat /\ Len(F) \in Nat
    BY <1>3, <1>4
  <1>7. \A n \in 1 .. Len(P) + (Len(S) + Len(F)) : randoms[n] = rand
    BY <1>5
  <1>8. items.portraits = [n \in 1 .. Len(P) |->
            getPortraitInfo(randoms[n], P[n], portraitTokenId(request, n), portraitMintInfo)]
    BY <1>5 DEF result, getPortraitsInfo
  <1>9. items.accessories = [n \in 1 .. Len(S) + Len(F) |->
            IF n <= Len(S)
            THEN getSemiAccessoryInfo(randoms[Len(P) + n], S[n], accessoryTokenId(request, n), accessoryMintInfo)
            ELSE getFullAccessoryInfo(randoms[Len(P) + n], F[n - Len(S)], accessoryTokenId(request, n),
                                      accessoryMintInfo)]
    BY <1>5 DEF result, getAccessoriesInfo
  <1> HIDE DEF P, S, F, randoms, items
  <1>10. \A n \in 1 .. Len(P) :
            items.portraits[n] = getPortraitInfo(rand, P[n], portraitTokenId(request, n), portraitMintInfo)
    <2>1. \A n \in 1 .. Len(P) : randoms[n] = rand
      BY <1>6, <1>7
    <2> QED
      BY <1>8, <2>1
  <1>11. \A n \in 1 .. Len(S) :
            items.accessories[n]
              = getSemiAccessoryInfo(rand, S[n], accessoryTokenId(request, n), accessoryMintInfo)
    <2> SUFFICES ASSUME NEW n \in 1 .. Len(S)
                 PROVE  items.accessories[n]
                          = getSemiAccessoryInfo(rand, S[n], accessoryTokenId(request, n), accessoryMintInfo)
      OBVIOUS
    <2>1. n \in 1 .. Len(S) + Len(F) /\ n <= Len(S) /\ Len(P) + n \in 1 .. Len(P) + (Len(S) + Len(F))
      BY <1>6
    <2>2. randoms[Len(P) + n] = rand
      BY <1>7, <2>1
    <2> QED
      BY <1>9, <2>1, <2>2
  <1>12. \A n \in 1 .. Len(F) :
            items.accessories[Len(S) + n]
              = getFullAccessoryInfo(rand, F[n], accessoryTokenId(request, Len(S) + n), accessoryMintInfo)
    <2> SUFFICES ASSUME NEW n \in 1 .. Len(F)
                 PROVE  items.accessories[Len(S) + n]
                          = getFullAccessoryInfo(rand, F[n], accessoryTokenId(request, Len(S) + n),
                                                 accessoryMintInfo)
      OBVIOUS
    <2>1. /\ Len(S) + n \in 1 .. Len(S) + Len(F) /\ ~(Len(S) + n <= Len(S))
          /\ Len(P) + (Len(S) + n) \in 1 .. Len(P) + (Len(S) + Len(F))
          /\ (Len(S) + n) - Len(S) = n
      BY <1>6
    <2>2. randoms[Len(P) + (Len(S) + n)] = rand
      BY <1>7, <2>1
    <2> QED
      BY <1>9, <2>1, <2>2
  <1> QED
    BY <1>3, <1>4, <1>5, <1>8, <1>9, <1>10, <1>11, <1>12 DEF itemsAre, items, P, S, F

\* The requests with a result are stored ones.
LEMMA RequestsOfResults ==
    ASSUME TypeOK, AmountsInv, NEW o \in requestsWithResult
    PROVE  /\ wellCounted(requestOf(o))
           /\ requestOf(o).portraitStartTokenId \in Nat
           /\ requestOf(o).accessoryStartTokenId \in Nat
  <1>1. RequestTypeOK
    BY TypeParts
  <1>2. CASE o[1] = "paid" /\ o[2] \in RequestIds
    BY <1>1, <1>2 DEF requestOf, AmountsInv, RequestTypeOK, MintRequest
  <1>3. CASE o[1] = "free" /\ o[2] \in FreeIds
    BY <1>1, <1>3 DEF requestOf, AmountsInv, RequestTypeOK, MintRequest
  <1> QED
    BY <1>2, <1>3 DEF requestsWithResult

-----------------------------------------------------------------------------
(* Token ids of a result.                                                  *)

\* Blocks of PORTRAIT_MASK ids, one after the other, fill an interval.
LEMMA BlocksFill ==
    ASSUME NEW start \in Nat, NEW k \in Nat, NEW ids,
           \A n \in 1 .. k : ids[n] = start + 6 * (n - 1) .. start + 6 * (n - 1) + 5
    PROVE  /\ UNION {ids[n] : n \in 1 .. k} = start .. start + 6 * k - 1
           /\ \A m, n \in 1 .. k : m # n => ids[m] \cap ids[n] = {}
  <1>1. ASSUME NEW n \in 1 .. k, NEW x \in ids[n]
        PROVE  x \in start .. start + 6 * k - 1
    BY <1>1
  <1>2. ASSUME NEW x \in start .. start + 6 * k - 1
        PROVE  \E n \in 1 .. k : x \in ids[n]
    <2> DEFINE d == (x - start) \div 6
    <2>1. d \in Int /\ 6 * d <= x - start /\ x - start < 6 * d + 6
      OBVIOUS
    <2> HIDE DEF d
    <2>2. d + 1 \in 1 .. k
      BY <2>1
    <2>3. x \in ids[d + 1]
      BY <2>1, <2>2
    <2> QED
      BY <2>2, <2>3
  <1>3. ASSUME NEW m \in 1 .. k, NEW n \in 1 .. k, m # n
        PROVE  ids[m] \cap ids[n] = {}
    <2> SUFFICES ASSUME NEW x \in ids[m], x \in ids[n]
                 PROVE  FALSE
      OBVIOUS
    <2>1. /\ x \in Int
          /\ start + 6 * (m - 1) <= x /\ x <= start + 6 * (m - 1) + 5
          /\ start + 6 * (n - 1) <= x /\ x <= start + 6 * (n - 1) + 5
      OBVIOUS
    <2> QED
      BY <1>3, <2>1
  <1>4. UNION {ids[n] : n \in 1 .. k} \subseteq start .. start + 6 * k - 1
    BY <1>1
  <1>5. start .. start + 6 * k - 1 \subseteq UNION {ids[n] : n \in 1 .. k}
    BY <1>2
  <1> QED
    BY <1>3, <1>4, <1>5

\* What an item has its token id and its box type from.
LEMMA ItemFields ==
    ASSUME NEW rand, NEW line, NEW id, NEW mintInfo
    PROVE  /\ getPortraitInfo(rand, line, id, mintInfo).tokenId = id
           /\ getPortraitInfo(rand, line, id, mintInfo).boxType = line.boxType
           /\ getSemiAccessoryInfo(rand, line, id, mintInfo).tokenId = id
           /\ getSemiAccessoryInfo(rand, line, id, mintInfo).boxType = line.boxType
           /\ getSemiAccessoryInfo(rand, line, id, mintInfo).accessoryType = line.accessoryType
           /\ getFullAccessoryInfo(rand, line, id, mintInfo).tokenId = id
           /\ getFullAccessoryInfo(rand, line, id, mintInfo).boxType = line.boxType
  BY DEF getPortraitInfo, getSemiAccessoryInfo, getFullAccessoryInfo

\* The portraits of a result use up the reserved portrait ids.
LEMMA PortraitsFill ==
    ASSUME NEW request, request.portraitStartTokenId \in Nat,
           NEW rand, NEW P, NEW S, NEW F, itemsAre(request, rand, P, S, F)
    PROVE  /\ disjointIds(result(request, rand).portraits, formsOf)
           /\ idsIn(result(request, rand).portraits, formsOf) = portraitIds(request)
  <1> DEFINE items == result(request, rand).portraits
             start == request.portraitStartTokenId
             k == Len(P)
             ids == [n \in 1 .. k |-> formsOf(items[n])]
  <1>1. k \in Nat /\ DOMAIN items = 1 .. k /\ request.portraitAmount = k
    BY DEF itemsAre
  <1>2. \A n \in 1 .. k : items[n].tokenId = start + 6 * (n - 1)
    BY ItemFields DEF itemsAre, portraitTokenId, PORTRAIT_MASK
  <1> HIDE DEF items, k, start
  <1>3. \A n \in 1 .. k : ids[n] = start + 6 * (n - 1) .. start + 6 * (n - 1) + 5
    <2> SUFFICES ASSUME NEW n \in 1 .. k
                 PROVE  ids[n] = start + 6 * (n - 1) .. start + 6 * (n - 1) + 5
      OBVIOUS
    <2>1. ids[n] = start + 6 * (n - 1) .. start + 6 * (n - 1) + 6 - 1
      BY <1>2 DEF formsOf, PORTRAIT_MASK
    <2>2. start + 6 * (n - 1) + 6 - 1 = start + 6 * (n - 1) + 5
      BY <1>1 DEF start
    <2> QED
      BY <2>1, <2>2
  <1>4. \A n \in 1 .. k : ids[n] = formsOf(items[n])
    OBVIOUS
  <1> HIDE DEF ids
  <1>5. /\ UNION {ids[n] : n \in 1 .. k} = start .. start + 6 * k - 1
        /\ \A m, n \in 1 .. k : m # n => ids[m] \cap ids[n] = {}
    BY <1>1, <1>3, BlocksFill DEF start
  <1>6. disjointIds(items, formsOf)
    BY <1>1, <1>4, <1>5 DEF disjointIds
  <1>7. idsIn(items, formsOf) = start .. start + 6 * k - 1
    BY <1>1, <1>4, <1>5 DEF idsIn
  <1>8. portraitIds(request) = start .. start + 6 * k - 1
    BY <1>1 DEF portraitIds, PORTRAIT_MASK, start
  <1> QED
    BY <1>6, <1>7, <1>8 DEF items

\* The accessories of a result use up the reserved accessory ids.
LEMMA AccessoriesFill ==
    ASSUME NEW request, request.accessoryStartTokenId \in Nat,
           NEW rand, NEW P, NEW S, NEW F, itemsAre(request, rand, P, S, F)
    PROVE  /\ disjointIds(result(request, rand).accessories, formOf)
           /\ idsIn(result(request, rand).accessories, formOf) = accessoryIds(request)
  <1> DEFINE items == result(request, rand).accessories
             start == request.accessoryStartTokenId
             k == Len(S) + Len(F)
  <1>1. /\ k \in Nat /\ DOMAIN items = 1 .. k /\ request.accessoryAmount = k
        /\ Len(S) \in Nat /\ Len(F) \in Nat
    BY DEF itemsAre
  <1>2. \A n \in 1 .. k : items[n].tokenId = start + n - 1
    <2> SUFFICES ASSUME NEW n \in 1 .. k
                 PROVE  items[n].tokenId = start + n - 1
      OBVIOUS
    <2>1. CASE n <= Len(S)
      <3>1. n \in 1 .. Len(S)
        BY <1>1, <2>1
      <3> QED
        BY <3>1, ItemFields DEF itemsAre, accessoryTokenId
    <2>2. CASE ~(n <= Len(S))
      <3>1. PICK m \in 1 .. Len(F) : n = Len(S) + m
        <4>1. n - Len(S) \in 1 .. Len(F) /\ n = Len(S) + (n - Len(S))
          BY <1>1, <2>2
        <4> QED
          BY <4>1
      <3>2. items[Len(S) + m]
              = getFullAccessoryInfo(rand, F[m], accessoryTokenId(request, Len(S) + m), accessoryMintInfo)
        BY <3>1 DEF itemsAre
      <3>3. items[n].tokenId = accessoryTokenId(request, n)
        BY <3>1, <3>2, ItemFields
      <3> QED
        BY <3>3 DEF accessoryTokenId
    <2> QED
      BY <2>1, <2>2
  <1>3. start \in Nat
    OBVIOUS
  <1> HIDE DEF items, k, start
  <1>4. \A n \in 1 .. k : formOf(items[n]) = {start + n - 1}
    BY <1>2 DEF formOf
  <1>5. disjointIds(items, formOf)
    BY <1>1, <1>3, <1>4 DEF disjointIds
  <1>6. idsIn(items, formOf) = start .. start + k - 1
    <2>1. \A x \in start .. start + k - 1 : x - start + 1 \in 1 .. k /\ start + (x - start + 1) - 1 = x
      BY <1>1, <1>3
    <2>2. \A n \in 1 .. k : start + n - 1 \in start .. start + k - 1
      BY <1>1, <1>3
    <2>3. idsIn(items, formOf) = UNION {{start + n - 1} : n \in 1 .. k}
      BY <1>1, <1>4 DEF idsIn
    <2> QED
      BY <2>1, <2>2, <2>3
  <1>7. accessoryIds(request) = start .. start + k - 1
    BY <1>1 DEF accessoryIds, start
  <1> QED
    BY <1>5, <1>6, <1>7 DEF items

\* The items of every result have exactly the token ids reserved for the
\* request, each id once.
THEOREM ResultsFillTheirReservations == Spec => []ResultsFillReservations
  <1>1. TypeOK /\ AmountsInv => ResultsFillReservations
    <2> SUFFICES ASSUME TypeOK, AmountsInv, NEW o \in requestsWithResult, NEW rand \in Randoms
                 PROVE  LET r == requestOf(o)
                            items == result(r, rand)
                        IN  /\ disjointIds(items.portraits, formsOf)
                            /\ disjointIds(items.accessories, formOf)
                            /\ idsIn(items.portraits, formsOf) = portraitIds(r)
                            /\ idsIn(items.accessories, formOf) = accessoryIds(r)
      BY DEF ResultsFillReservations
    <2> DEFINE r == requestOf(o)
    <2>1. PICK P, S, F : itemsAre(r, rand, P, S, F)
      BY RequestsOfResults, ResultItems
    <2>2. r.portraitStartTokenId \in Nat /\ r.accessoryStartTokenId \in Nat
      BY RequestsOfResults
    <2> HIDE DEF r
    <2>3. /\ disjointIds(result(r, rand).portraits, formsOf)
          /\ idsIn(result(r, rand).portraits, formsOf) = portraitIds(r)
      BY <2>1, <2>2, PortraitsFill
    <2>4. /\ disjointIds(result(r, rand).accessories, formOf)
          /\ idsIn(result(r, rand).accessories, formOf) = accessoryIds(r)
      BY <2>1, <2>2, AccessoriesFill
    <2> QED
      BY <2>3, <2>4 DEF r
  <1> QED
    BY <1>1, TypeCorrect, AmountsInvariant, PTL

-----------------------------------------------------------------------------
(* Orders and results.                                                     *)

\* Items that come each from one line are counted by their lines.
LEMMA DrawnIsCount ==
    ASSUME NEW L, NEW all \in Seq(L), NEW field, NEW value,
           NEW items, DOMAIN items = 1 .. Len(all),
           \A n \in 1 .. Len(all) : items[n][field] = all[n][field]
    PROVE  drawn(items, field, value) = countIn(all, {l \in L : l[field] = value})
  <1>1. {n \in DOMAIN items : items[n][field] = value}
           = {n \in DOMAIN all : all[n] \in {l \in L : l[field] = value}}
    OBVIOUS
  <1> QED
    BY <1>1 DEF drawn, countIn

\* What was bought of a kind is in the list of all items, line by line.
LEMMA BoughtIsCount ==
    ASSUME NEW L, \A l \in L : l.amount \in Nat, NEW lines \in Seq(L), NEW field, NEW value
    PROVE  countIn(eachItem(lines), {l \in L : l[field] = value}) = bought(lines, field, value)
  <1> DEFINE P == {l \in L : l[field] = value}
  <1>1. {i \in DOMAIN lines : lines[i] \in P} = {i \in DOMAIN lines : lines[i][field] = value}
    OBVIOUS
  <1>2. countIn(eachItem(lines), P)
          = total([i \in DOMAIN lines |-> lines[i].amount], {i \in DOMAIN lines : lines[i] \in P})
    BY EachItem
  <1> QED
    BY <1>1, <1>2 DEF bought

\* Both kinds of accessory lines.
AccessoryLines == SemiRandomLine \cup Line

\* The portraits of a result are the ones ordered.
LEMMA PortraitsAsOrdered ==
    ASSUME NEW request, wellCounted(request), NEW rand \in Randoms, NEW b
    PROVE  drawn(result(request, rand).portraits, "boxType", b)
             = bought(request.cart.portraits, "boxType", b)
  <1> DEFINE P == eachItem(request.cart.portraits)
             items == result(request, rand).portraits
             Kind == {l \in Line : l["boxType"] = b}
  <1>1. itemsAre(request, rand, P, eachItem(request.cart.semiRandom), eachItem(request.cart.fullRandom))
    BY ResultItems
  <1>2. request.cart.portraits \in Seq(Line) /\ \A l \in Line : l.amount \in Nat
    BY DEF wellCounted, Cart, Line
  <1>3. countIn(P, Kind) = bought(request.cart.portraits, "boxType", b)
    BY <1>2, BoughtIsCount
  <1> HIDE DEF P
  <1>4. P \in Seq(Line) /\ DOMAIN items = 1 .. Len(P)
    BY <1>1 DEF itemsAre
  <1>5. \A n \in 1 .. Len(P) : items[n]["boxType"] = P[n]["boxType"]
    BY <1>1, ItemFields DEF itemsAre
  <1> HIDE DEF items
  <1>6. drawn(items, "boxType", b) = countIn(P, Kind)
    BY <1>4, <1>5, DrawnIsCount
  <1> QED
    BY <1>3, <1>6 DEF items

\* The accessories of a result are the ones ordered, and among them are the
\* types that were asked for.
LEMMA AccessoriesAsOrdered ==
    ASSUME NEW request, wellCounted(request), NEW rand \in Randoms
    PROVE  /\ \A b : drawn(result(request, rand).accessories, "boxType", b)
                       = bought(request.cart.semiRandom, "boxType", b)
                           + bought(request.cart.fullRandom, "boxType", b)
           /\ \A t : drawn(result(request, rand).accessories, "accessoryType", t)
                       >= bought(request.cart.semiRandom, "accessoryType", t)
  <1> DEFINE S == eachItem(request.cart.semiRandom)
             F == eachItem(request.cart.fullRandom)
             items == result(request, rand).accessories
             Kind(field, value) == {l \in AccessoryLines : l[field] = value}
  <1>1. itemsAre(request, rand, eachItem(request.cart.portraits), S, F)
    BY ResultItems
  <1>2. /\ request.cart.semiRandom \in Seq(AccessoryLines)
        /\ request.cart.fullRandom \in Seq(AccessoryLines)
        /\ \A l \in AccessoryLines : l.amount \in Nat
    <2>1. request.cart.semiRandom \in Seq(SemiRandomLine) /\ request.cart.fullRandom \in Seq(Line)
      BY DEF wellCounted, Cart
    <2>2. SemiRandomLine \subseteq AccessoryLines /\ Line \subseteq AccessoryLines
      BY DEF AccessoryLines
    <2>3. \A l \in AccessoryLines : l.amount \in Nat
      BY DEF AccessoryLines, SemiRandomLine, Line
    <2> QED
      BY <2>1, <2>2, <2>3, SeqMonotonic
  <1>3. /\ \A field, value : countIn(S, Kind(field, value))
                               = bought(request.cart.semiRandom, field, value)
        /\ \A field, value : countIn(F, Kind(field, value))
                               = bought(request.cart.fullRandom, field, value)
    BY <1>2, BoughtIsCount
  <1>4. S \in Seq(AccessoryLines) /\ F \in Seq(AccessoryLines)
    BY <1>2, EachItem
  <1> HIDE DEF S, F
  <1>5. Len(S) \in Nat /\ Len(F) \in Nat /\ DOMAIN items = 1 .. Len(S) + Len(F)
    BY <1>1, <1>4 DEF itemsAre
  <1>6. /\ \A n \in 1 .. Len(S) : items[n]["boxType"] = S[n]["boxType"]
        /\ \A n \in 1 .. Len(S) : items[n]["accessoryType"] = S[n]["accessoryType"]
        /\ \A n \in 1 .. Len(F) : items[Len(S) + n]["boxType"] = F[n]["boxType"]
    BY <1>1, ItemFields DEF itemsAre
  <1> HIDE DEF items
  <1>7. ASSUME NEW b
        PROVE  drawn(items, "boxType", b) = bought(request.cart.semiRandom, "boxType", b)
                                              + bought(request.cart.fullRandom, "boxType", b)
    <2> DEFINE all == S \o F
    <2>1. /\ all \in Seq(AccessoryLines) /\ Len(all) = Len(S) + Len(F)
          /\ \A n \in 1 .. Len(S) : all[n] = S[n]
          /\ \A n \in 1 .. Len(F) : all[Len(S) + n] = F[n]
      BY <1>4, <1>5
    <2>2. countIn(all, Kind("boxType", b)) = countIn(S, Kind("boxType", b)) + countIn(F, Kind("boxType", b))
      BY <1>4, CountOfConcat
    <2> HIDE DEF all
    <2>3. \A n \in 1 .. Len(all) : items[n]["boxType"] = all[n]["boxType"]
      <3> SUFFICES ASSUME NEW n \in 1 .. Len(all)
                   PROVE  items[n]["boxType"] = all[n]["boxType"]
        OBVIOUS
      <3>1. CASE n <= Len(S)
        <4>1. n \in 1 .. Len(S)
          BY <1>5, <2>1, <3>1
        <4> QED
          BY <1>6, <2>1, <4>1
      <3>2. CASE ~(n <= Len(S))
        <4>1. PICK m \in 1 .. Len(F) : n = Len(S) + m
          <5>1. n - Len(S) \in 1 .. Len(F) /\ n = Len(S) + (n - Len(S))
            BY <1>5, <2>1, <3>2
          <5> QED
            BY <5>1
        <4> QED
          BY <1>6, <2>1, <4>1
      <3> QED
        BY <3>1, <3>2
    <2>4. DOMAIN items = 1 .. Len(all)
      BY <1>5, <2>1
    <2>5. drawn(items, "boxType", b) = countIn(all, Kind("boxType", b))
      BY <2>1, <2>3, <2>4, DrawnIsCount
    <2> HIDE DEF Kind
    <2> QED
      BY <1>3, <2>2, <2>5
  <1>8. ASSUME NEW t
        PROVE  drawn(items, "accessoryType", t) >= bought(request.cart.semiRandom, "accessoryType", t)
    <2> DEFINE D == {n \in DOMAIN items : items[n]["accessoryType"] = t}
               C == {n \in DOMAIN S : S[n] \in Kind("accessoryType", t)}
    <2>1. C \in SUBSET D
      BY <1>4, <1>5, <1>6
    <2>2. IsFiniteSet(D)
      <3>1. IsFiniteSet(1 .. Len(S) + Len(F))
        BY <1>5, IntervalSize
      <3> QED
        BY <1>5, <3>1, FS_Subset
    <2>3. drawn(items, "accessoryType", t) = Cardinality(D)
      BY DEF drawn
    <2>4. bought(request.cart.semiRandom, "accessoryType", t) = Cardinality(C)
      BY <1>3 DEF countIn
    <2> HIDE DEF C, D
    <2>5. Cardinality(C) <= Cardinality(D) /\ IsFiniteSet(C)
      BY <2>1, <2>2, FS_Subset
    <2>6. Cardinality(C) \in Nat /\ Cardinality(D) \in Nat
      BY <2>2, <2>5, FS_CardinalityType
    <2> QED
      BY <2>3, <2>4, <2>5, <2>6
  <1> QED
    BY <1>7, <1>8 DEF items

\* Every result has the items that were ordered: as many of each box type
\* as the cart says, whatever its lines, and the accessory types chosen.
THEOREM ResultsAreAsOrdered == Spec => []ResultsAreWhatWasOrdered
  <1>1. TypeOK /\ AmountsInv => ResultsAreWhatWasOrdered
    BY RequestsOfResults, PortraitsAsOrdered, AccessoriesAsOrdered DEF ResultsAreWhatWasOrdered
  <1> QED
    BY <1>1, TypeCorrect, AmountsInvariant, PTL

-----------------------------------------------------------------------------
(* Traits.                                                                 *)

\* A search ends at a place of the table or finds none, and it finds one if
\* there is one.
LEMMA FirstAbove ==
    ASSUME NEW table, DOMAIN table \subseteq 1 .. 4, NEW value
    PROVE  /\ firstAbove(table, value) \in {0} \cup DOMAIN table
           /\ (\E k \in DOMAIN table : value < table[k]) => firstAbove(table, value) \in DOMAIN table
  <1> DEFINE above == {k \in DOMAIN table : value < table[k]}
  <1>1. above \in SUBSET (1 .. 4) /\ above \subseteq DOMAIN table
    OBVIOUS
  <1>2. (\E k \in DOMAIN table : value < table[k]) => above # {}
    OBVIOUS
  <1>3. firstAbove(table, value) = IF above = {} THEN 0 ELSE Min(above)
    BY DEF firstAbove
  <1> HIDE DEF above
  <1>4. above # {} => Min(above) \in DOMAIN table
    BY <1>1, LeastIndex
  <1> QED
    BY <1>2, <1>3, <1>4

\* The rest of a sequence of numbers is one number shorter.
LEMMA TailOfNumbers ==
    ASSUME NEW s \in Seq(Nat), NEW n \in Nat, Len(s) = n + 1
    PROVE  Tail(s) \in Seq(Nat) /\ Len(Tail(s)) = n
  <1>1. s # <<>>
    BY n + 1 # 0, EmptySeq, Zenon
  <1>2. Tail(s) \in Seq(Nat) /\ Len(Tail(s)) = Len(s) - 1
    BY <1>1, HeadTailProperties
  <1> QED
    BY <1>2

\* The numbers left at each division are there for every trait.
LEMMA RandomParts ==
    ASSUME NEW rand \in Randoms, NEW line
    PROVE  /\ rand[1] \in Nat /\ afterTier(rand, line)[1] \in Nat
           /\ afterTiers(rand, line)[1] \in Nat /\ afterTiers(rand, line)[2] \in Nat
           /\ afterTiers(rand, line)[3] \in Nat /\ afterTiers(rand, line)[4] \in Nat
           /\ afterTiers(rand, line)[5] \in Nat
  <1>1. rand \in Seq(Nat) /\ Len(rand) = 8
    BY RandomsAssumption
  <1> DEFINE rest == Tail(rand)
  <1>2. rest \in Seq(Nat) /\ Len(rest) = 7
    BY <1>1, 8 = 7 + 1, TailOfNumbers
  <1>3. Tail(rest) \in Seq(Nat) /\ Len(Tail(rest)) = 6
    <2> HIDE DEF rest
    <2> QED
      BY <1>2, 7 = 6 + 1, TailOfNumbers
  <1>4. \A s \in Seq(Nat) : Len(s) >= 6 =>
          s[1] \in Nat /\ s[2] \in Nat /\ s[3] \in Nat /\ s[4] \in Nat /\ s[5] \in Nat
    OBVIOUS
  <1> HIDE DEF rest
  <1>5. /\ rand \in Seq(Nat) /\ Len(rand) >= 6 /\ rest \in Seq(Nat) /\ Len(rest) >= 6
        /\ Tail(rest) \in Seq(Nat) /\ Len(Tail(rest)) >= 6
    BY <1>1, <1>2, <1>3, 8 >= 6, 7 >= 6, 6 >= 6, Zenon
  <1>6. afterTier(rand, line) = rand \/ afterTier(rand, line) = rest
    BY DEF afterTier, rest
  <1>7. afterTiers(rand, line) = rand \/ afterTiers(rand, line) = Tail(rest)
    BY DEF afterTiers, rest
  <1> DEFINE one == afterTier(rand, line)
             all == afterTiers(rand, line)
  <1>8. one \in Seq(Nat) /\ Len(one) >= 6 /\ all \in Seq(Nat) /\ Len(all) >= 6
    BY <1>5, <1>6, <1>7
  <1> HIDE DEF one, all
  <1>9. rand[1] \in Nat /\ one[1] \in Nat
    BY <1>4, <1>5, <1>8
  <1>10. all[1] \in Nat /\ all[2] \in Nat /\ all[3] \in Nat /\ all[4] \in Nat /\ all[5] \in Nat
    BY <1>4, <1>8
  <1> QED
    BY <1>9, <1>10 DEF one, all

\* Items of virtual boxes are of tier 0, the others of tier 1 to 5.
LEMMA TierRange ==
    ASSUME NEW rand, NEW line, NEW mintInfo,
           mintInfo[line.boxType].tierChances \in [1 .. TIER_CHANCE_LEN -> Nat]
    PROVE  tierOf(rand, line, mintInfo) \in IF isVirtual(line) THEN {0} ELSE 1 .. 5
  <1> DEFINE table == mintInfo[line.boxType].tierChances
             k == firstAbove(table, rand[1] % MAX_CHANCE)
  <1>1. DOMAIN table = 1 .. 4
    BY DEF TIER_CHANCE_LEN
  <1>2. k \in {0} \cup 1 .. 4
    <2> HIDE DEF table
    <2> QED
      BY <1>1, FirstAbove
  <1>3. getTier(table, rand[1]) = IF k = 0 THEN 5 ELSE k
    BY DEF getTier, TIER_CHANCE_LEN
  <1> HIDE DEF k
  <1>4. getTier(table, rand[1]) \in 1 .. 5
    BY <1>2, <1>3
  <1> QED
    BY <1>4 DEF tierOf

\* A remainder is below a divisor that is not zero.
LEMMA Remainder == ASSUME NEW n \in Nat, NEW m \in Nat \ {0} PROVE n % m \in 0 .. m - 1
  OBVIOUS

\* Every tier has some illuvials.
LEMMA IlluvialCounts == ASSUME NEW tier \in 0 .. 5 PROVE illuvialCounts[tier] \in Nat \ {0}
  <1>1. illuvialCounts[tier] = <<3, 6, 5, 4, 4, 3>>[tier + 1]
    BY DEF illuvialCounts
  <1>2. tier = 0 \/ tier = 1 \/ tier = 2 \/ tier = 3 \/ tier = 4 \/ tier = 5
    OBVIOUS
  <1> QED
    BY <1>1, <1>2

\* A list of backgrounds one of which can be drawn in every case: none of
\* the numbers a remainder is taken of is zero.
drawable(lines) ==
    /\ Len(lines) \in Nat \ {0} /\ DOMAIN lines = 1 .. Len(lines)
    /\ \A b \in DOMAIN lines :
        /\ Len(lines[b].stages) \in Nat \ {0}
        /\ DOMAIN lines[b].stages = 1 .. Len(lines[b].stages)
        /\ \A s \in DOMAIN lines[b].stages : lines[b].variations[s] \in Nat \ {0}

\* The backgrounds of the two tiers the code ends up with.
LEMMA BackgroundsAreDrawable == drawable(backgrounds[0]) /\ drawable(backgrounds[5])
  <1>1. drawable(backgrounds[0])
    <2>1. backgrounds[0] = << background("Dots", <<1>>, <<10>>) >>
      BY DEF backgrounds
    <2> QED
      BY <2>1 DEF drawable, background
  <1>2. drawable(backgrounds[5])
    <2>1. backgrounds[5] = << background("Token", <<1, 2>>, <<1, 1>>), background("Encounter", <<3>>, <<2>>) >>
      BY DEF backgrounds
    <2>2. /\ Len(backgrounds[5]) = 2 /\ DOMAIN backgrounds[5] = 1 .. 2
          /\ backgrounds[5][1].stages = <<1, 2>> /\ backgrounds[5][1].variations = <<1, 1>>
          /\ backgrounds[5][2].stages = <<3>> /\ backgrounds[5][2].variations = <<2>>
      BY <2>1 DEF background
    <2>3. \A b \in 1 .. 2 : b = 1 \/ b = 2
      OBVIOUS
    <2> HIDE DEF backgrounds
    <2> QED
      BY <2>2, <2>3 DEF drawable
  <1> QED
    BY <1>1, <1>2

\* A portrait's traits exist.
LEMMA PortraitTraitsExist ==
    ASSUME NEW rand \in Randoms, NEW line, NEW tokenId, NEW mintInfo, NEW p,
           p = getPortraitInfo(rand, line, tokenId, mintInfo),
           mintInfo[line.boxType].tierChances \in [1 .. TIER_CHANCE_LEN -> Nat]
    PROVE  /\ p.tier \in IF isVirtual(p) THEN {0} ELSE 1 .. 5
           /\ p.illuvial < illuvialCounts[p.tier]
           /\ existingBackground(p)
           /\ p.expression \in 0 .. 2
  <1> DEFINE tier == tierOf(rand, line, mintInfo)
             rest == afterTiers(rand, line)
             backgroundTier == getBackgroundTier(line.boxType)
             lines == backgrounds[backgroundTier]
             b == 1 + (rest[2] % Len(lines))
             chosen == lines[b]
             stage == 1 + (rest[3] % Len(chosen.stages))
  <1>1. /\ p.boxType = line.boxType /\ p.tier = tier
        /\ p.illuvial = rest[1] % illuvialCounts[tier]
        /\ p.backgroundTier = backgroundTier
        /\ p.backgroundLine = chosen.line
        /\ p.backgroundStage = chosen.stages[stage]
        /\ p.backgroundVariation = rest[4] % chosen.variations[stage]
        /\ p.expression = getExpression(rest[5])
    BY DEF getPortraitInfo
  <1>2. rest[1] \in Nat /\ rest[2] \in Nat /\ rest[3] \in Nat /\ rest[4] \in Nat /\ rest[5] \in Nat
    BY RandomParts
  <1>3. tier \in IF isVirtual(line) THEN {0} ELSE 1 .. 5
    BY TierRange
  <1>4. drawable(lines)
    BY BackgroundsAreDrawable DEF getBackgroundTier, TIER_CHANCE_LEN
  <1> HIDE DEF tier, rest, lines
  <1>5. p.tier \in IF isVirtual(p) THEN {0} ELSE 1 .. 5
    BY <1>1, <1>3 DEF isVirtual
  <1>6. p.illuvial < illuvialCounts[p.tier]
    <2>1. illuvialCounts[tier] \in Nat \ {0}
      BY <1>3, IlluvialCounts
    <2>2. rest[1] % illuvialCounts[tier] \in 0 .. illuvialCounts[tier] - 1
      BY <1>2, <2>1, Remainder, Zenon
    <2> QED
      BY <1>1, <2>1, <2>2
  <1>7. existingBackground(p)
    <2>1. b \in DOMAIN lines
      <3>1. Len(lines) \in Nat \ {0} /\ DOMAIN lines = 1 .. Len(lines)
        BY <1>4 DEF drawable
      <3>2. rest[2] % Len(lines) \in 0 .. Len(lines) - 1
        BY <1>2, <3>1, Remainder, Zenon
      <3> QED
        BY <3>1, <3>2
    <2> HIDE DEF b
    <2>2. /\ Len(chosen.stages) \in Nat \ {0}
          /\ DOMAIN chosen.stages = 1 .. Len(chosen.stages)
          /\ \A s \in DOMAIN chosen.stages : chosen.variations[s] \in Nat \ {0}
      BY <1>4, <2>1 DEF drawable
    <2> HIDE DEF chosen
    <2>3. stage \in DOMAIN chosen.stages
      <3>1. rest[3] % Len(chosen.stages) \in 0 .. Len(chosen.stages) - 1
        BY <1>2, <2>2, Remainder, Zenon
      <3> QED
        BY <2>2, <3>1
    <2> HIDE DEF stage
    <2>4. p.backgroundVariation < chosen.variations[stage]
      <3>1. chosen.variations[stage] \in Nat \ {0}
        BY <2>2, <2>3
      <3>2. rest[4] % chosen.variations[stage] \in 0 .. chosen.variations[stage] - 1
        BY <1>2, <3>1, Remainder, Zenon
      <3> QED
        BY <1>1, <3>1, <3>2
    <2> HIDE DEF backgroundTier
    <2>5. \E s \in DOMAIN backgrounds[p.backgroundTier][b].stages :
            /\ p.backgroundLine = backgrounds[p.backgroundTier][b].line
            /\ p.backgroundStage = backgrounds[p.backgroundTier][b].stages[s]
            /\ p.backgroundVariation < backgrounds[p.backgroundTier][b].variations[s]
      BY <1>1, <2>3, <2>4 DEF chosen, lines
    <2> QED
      BY <1>1, <2>1, <2>5 DEF existingBackground, lines
  <1>8. p.expression \in 0 .. 2
    <2> DEFINE k == firstAbove(expressionProbability, rest[5] % MAX_CHANCE)
    <2>1. DOMAIN expressionProbability = 1 .. 3
      BY DEF expressionProbability
    <2>2. k \in {0} \cup 1 .. 3
      BY <2>1, FirstAbove
    <2>3. getExpression(rest[5]) = IF k = 0 THEN 0 ELSE k - 1
      BY DEF getExpression
    <2> HIDE DEF k
    <2> QED
      BY <1>1, <2>2, <2>3
  <1> QED
    BY <1>5, <1>6, <1>7, <1>8

\* Every number leads to one of the three stages.
LEMMA StageExists == ASSUME NEW value \in Nat PROVE getAccessoryStage(value) \in 1 .. 3
  <1>1. DOMAIN stageProbability = 1 .. 3 /\ stageProbability[3] = 10000
    BY DEF stageProbability
  <1>2. value % 10000 < 10000
    OBVIOUS
  <1>3. \E k \in DOMAIN stageProbability : value % 10000 < stageProbability[k]
    BY <1>1, <1>2
  <1>4. firstAbove(stageProbability, value % 10000) \in DOMAIN stageProbability
    BY <1>1, <1>3, FirstAbove
  <1> QED
    BY <1>1, <1>4 DEF getAccessoryStage, MAX_CHANCE

\* A semi-random accessory's traits exist, and so do a fully random one's.
LEMMA AccessoryTraitsExist ==
    ASSUME NEW rand \in Randoms, NEW line, NEW tokenId, NEW mintInfo, NEW a,
           \/ /\ line.accessoryType \in 0 .. ACCESSORY_TYPES - 1
              /\ a = getSemiAccessoryInfo(rand, line, tokenId, mintInfo)
           \/ a = getFullAccessoryInfo(rand, line, tokenId, mintInfo),
           mintInfo[line.boxType].tierChances \in [1 .. TIER_CHANCE_LEN -> Nat]
    PROVE  /\ a.tier \in IF isVirtual(a) THEN {0} ELSE 1 .. 5
           /\ a.accessoryType \in 0 .. ACCESSORY_TYPES - 1
           /\ a.stage \in 1 .. 3
  <1> DEFINE tier == tierOf(rand, line, mintInfo)
             value == afterTier(rand, line)[1]
  <1>1. a.boxType = line.boxType /\ a.tier = tier /\ a.stage = getAccessoryStage(value)
    BY DEF getSemiAccessoryInfo, getFullAccessoryInfo
  <1>2. \/ a.accessoryType = line.accessoryType /\ line.accessoryType \in 0 .. ACCESSORY_TYPES - 1
        \/ a.accessoryType = value % 5
    BY DEF getSemiAccessoryInfo, getFullAccessoryInfo, getAccessoryType, ACCESSORY_TYPES
  <1>3. value \in Nat
    BY RandomParts
  <1>4. tier \in IF isVirtual(line) THEN {0} ELSE 1 .. 5
    BY TierRange
  <1> HIDE DEF tier, value
  <1>5. a.tier \in IF isVirtual(a) THEN {0} ELSE 1 .. 5
    BY <1>1, <1>4 DEF isVirtual
  <1>6. a.accessoryType \in 0 .. ACCESSORY_TYPES - 1
    BY <1>2, <1>3 DEF ACCESSORY_TYPES
  <1>7. a.stage \in 1 .. 3
    BY <1>1, <1>3, StageExists
  <1> QED
    BY <1>5, <1>6, <1>7

\* Every item of every result has traits that exist: no division of the
\* random number, no table and no order leads beyond the lists of names.
THEOREM TraitsAlwaysExist == Spec => []TraitsExist
  <1>1. TypeOK /\ AmountsInv /\ TablesInv => TraitsExist
    <2> SUFFICES ASSUME TypeOK, AmountsInv, TablesInv, NEW o \in requestsWithResult, NEW rand \in Randoms
                 PROVE  LET items == result(requestOf(o), rand)
                        IN  /\ \A n \in DOMAIN items.portraits :
                                LET p == items.portraits[n]
                                IN  /\ p.tier \in IF isVirtual(p) THEN {0} ELSE 1 .. 5
                                    /\ p.illuvial < illuvialCounts[p.tier]
                                    /\ existingBackground(p)
                                    /\ p.expression \in 0 .. 2
                            /\ \A n \in DOMAIN items.accessories :
                                LET a == items.accessories[n]
                                IN  /\ a.tier \in IF isVirtual(a) THEN {0} ELSE 1 .. 5
                                    /\ a.accessoryType \in 0 .. ACCESSORY_TYPES - 1
                                    /\ a.stage \in 1 .. 3
      BY DEF TraitsExist
    <2> DEFINE r == requestOf(o)
               items == result(r, rand)
    <2>1. PICK P, S, F : itemsAre(r, rand, P, S, F)
      BY RequestsOfResults, ResultItems
    <2> HIDE DEF r
    <2>2. /\ P \in Seq(Line) /\ S \in Seq(SemiRandomLine) /\ F \in Seq(Line)
          /\ DOMAIN items.portraits = 1 .. Len(P)
          /\ DOMAIN items.accessories = 1 .. Len(S) + Len(F)
          /\ Len(S) \in Nat /\ Len(F) \in Nat
      BY <2>1 DEF itemsAre
    <2>3. /\ \A n \in 1 .. Len(P) : P[n].boxType \in BoxTypes
          /\ \A n \in 1 .. Len(S) : S[n].boxType \in BoxTypes /\ S[n].accessoryType \in 0 .. ACCESSORY_TYPES - 1
          /\ \A n \in 1 .. Len(F) : F[n].boxType \in BoxTypes
      <3>1. \A l \in Line : l.boxType \in BoxTypes
        BY DEF Line
      <3>2. \A l \in SemiRandomLine : l.boxType \in BoxTypes /\ l.accessoryType \in 0 .. ACCESSORY_TYPES - 1
        BY DEF SemiRandomLine
      <3>3. /\ \A n \in 1 .. Len(P) : P[n] \in Line
            /\ \A n \in 1 .. Len(S) : S[n] \in SemiRandomLine
            /\ \A n \in 1 .. Len(F) : F[n] \in Line
        BY <2>2, ElementOfSeq
      <3> QED
        BY <3>1, <3>2, <3>3
    <2>4. ASSUME NEW n \in 1 .. Len(P)
          PROVE  LET p == items.portraits[n]
                 IN  /\ p.tier \in IF isVirtual(p) THEN {0} ELSE 1 .. 5
                     /\ p.illuvial < illuvialCounts[p.tier]
                     /\ existingBackground(p)
                     /\ p.expression \in 0 .. 2
      <3>1. items.portraits[n] = getPortraitInfo(rand, P[n], portraitTokenId(r, n), portraitMintInfo)
        BY <2>1 DEF itemsAre
      <3>2. portraitMintInfo[P[n].boxType].tierChances \in [1 .. TIER_CHANCE_LEN -> Nat]
        BY <2>3 DEF TablesInv
      <3> HIDE DEF items
      <3> QED
        BY <3>1, <3>2, PortraitTraitsExist
    <2>5. ASSUME NEW n \in 1 .. Len(S) + Len(F)
          PROVE  LET a == items.accessories[n]
                 IN  /\ a.tier \in IF isVirtual(a) THEN {0} ELSE 1 .. 5
                     /\ a.accessoryType \in 0 .. ACCESSORY_TYPES - 1
                     /\ a.stage \in 1 .. 3
      <3>1. CASE n <= Len(S)
        <4>1. n \in 1 .. Len(S)
          BY <2>2, <3>1
        <4>2. items.accessories[n]
                = getSemiAccessoryInfo(rand, S[n], accessoryTokenId(r, n), accessoryMintInfo)
          BY <2>1, <4>1 DEF itemsAre
        <4>3. /\ accessoryMintInfo[S[n].boxType].tierChances \in [1 .. TIER_CHANCE_LEN -> Nat]
              /\ S[n].accessoryType \in 0 .. ACCESSORY_TYPES - 1
          BY <2>3, <4>1 DEF TablesInv
        <4> HIDE DEF items
        <4> QED
          BY <4>2, <4>3, AccessoryTraitsExist
      <3>2. CASE ~(n <= Len(S))
        <4>1. PICK m \in 1 .. Len(F) : n = Len(S) + m
          <5>1. n - Len(S) \in 1 .. Len(F) /\ n = Len(S) + (n - Len(S))
            BY <2>2, <3>2
          <5> QED
            BY <5>1
        <4>2. items.accessories[n]
                = getFullAccessoryInfo(rand, F[m], accessoryTokenId(r, n), accessoryMintInfo)
          BY <2>1, <4>1 DEF itemsAre
        <4>3. accessoryMintInfo[F[m].boxType].tierChances \in [1 .. TIER_CHANCE_LEN -> Nat]
          BY <2>3 DEF TablesInv
        <4> HIDE DEF items
        <4> QED
          BY <4>2, <4>3, AccessoryTraitsExist
      <3> QED
        BY <3>1, <3>2
    <2> QED
      BY <2>2, <2>4, <2>5 DEF r
  <1>2. Spec => []TablesInv
    BY TypeCorrect, TablesInit, TablesStep, PTL DEF Spec
  <1> QED
    BY <1>1, <1>2, TypeCorrect, AmountsInvariant, PTL
=============================================================================
