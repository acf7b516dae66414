---------------------------- MODULE MinterProofs ----------------------------
(***************************************************************************)
(* Theorems about Minter, for every value of its constants.                *)
(***************************************************************************)
EXTENDS Minter, DataLemmas

-----------------------------------------------------------------------------
(* Types.                                                                  *)

\* The parts of TypeOK, so that a step can leave the ones it does not touch
\* to one argument.
ConfigTypeOK ==
    /\ owner \in Owners \cup {NoAddress}
    /\ portraitMintInfo \in PortraitTables
    /\ accessoryMintInfo \in AccessoryTables
    /\ portraitSaleWindow \in [start: Nat, end: Nat]
    /\ freePortraitLimitPerTx \in Nat
    /\ freeAccessoryLimitPerTx \in Nat
    /\ treasury \in Treasuries
    /\ now \in 0 .. MaxTime

RequestTypeOK ==
    /\ mintRequests \in [RequestIds -> MintRequest(RandomWords \cup {0})]
    /\ freeRequests \in [FreeIds -> MintRequest(FreeSeeds)]
    /\ freeRequestCount \in 0 .. MaxFree
    /\ nextPortraitTokenId \in Nat \ {0}
    /\ nextAccessoryTokenId \in Nat \ {0}
    /\ requestFulfilled \in [RequestIds -> Seq(RandomWords)]

MoneyTypeOK ==
    /\ etherBalance \in [Accounts -> Nat]
    /\ sIlvBalance \in [Accounts -> Nat]
    /\ receipts \in [RequestIds -> Receipt]
    /\ withdrawnUpTo \in 0 .. MaxNonce

\* The type invariant, by the part of the state it is about.
LEMMA TypeParts == TypeOK <=> VRFTypeOK /\ ConfigTypeOK /\ RequestTypeOK /\ MoneyTypeOK
  BY DEF TypeOK, ConfigTypeOK, RequestTypeOK, MoneyTypeOK

\* A transfer that the sender can afford keeps balances natural numbers.
LEMMA TransferType ==
    ASSUME NEW balance \in [Accounts -> Nat],
           NEW from \in Accounts, NEW to \in Accounts,
           NEW amount \in Nat, amount <= balance[from]
    PROVE  transfer(balance, from, to, amount) \in [Accounts -> Nat]
  BY DEF transfer

\* The sums of the model are those DataLemmas is about.
LEMMA TotalIsSum == ASSUME NEW amount, NEW S PROVE total(amount, S) = SumOf(amount, S)
  BY DEF total, SumOf

\* The amounts of the lines of a cart add up to a natural number, and so
\* do their prices.
LEMMA LinesAmount ==
    ASSUME NEW L, \A l \in L : l.amount \in Nat, NEW lines \in Seq(L)
    PROVE  Amount(lines) \in Nat
  <1> DEFINE f == [i \in DOMAIN lines |-> lines[i].amount]
  <1>1. IsFiniteSet(DOMAIN lines)
    BY IntervalSize
  <1>2. \A i \in DOMAIN lines : f[i] \in Nat
    OBVIOUS
  <1> HIDE DEF f
  <1>3. SumOf(f, DOMAIN lines) \in Nat
    BY <1>1, <1>2, SumOfNat
  <1> QED
    BY <1>3, TotalIsSum DEF Amount, f

LEMMA LinesPrice ==
    ASSUME NEW unitPrice \in [BoxTypes -> Nat],
           NEW L, \A l \in L : l.amount \in Nat /\ l.boxType \in BoxTypes,
           NEW lines \in Seq(L)
    PROVE  Price(lines, unitPrice) \in Nat
  <1> DEFINE f == [i \in DOMAIN lines |-> lines[i].amount * unitPrice[lines[i].boxType]]
  <1>1. IsFiniteSet(DOMAIN lines)
    BY IntervalSize
  <1>2. \A i \in DOMAIN lines : f[i] \in Nat
    <2> SUFFICES ASSUME NEW i \in DOMAIN lines
                 PROVE  f[i] \in Nat
      OBVIOUS
    <2>1. lines[i].amount \in Nat /\ unitPrice[lines[i].boxType] \in Nat
      OBVIOUS
    <2>2. \A a, b \in Nat : a * b \in Nat
      OBVIOUS
    <2> QED
      BY <2>1, <2>2
  <1> HIDE DEF f
  <1>3. SumOf(f, DOMAIN lines) \in Nat
    BY <1>1, <1>2, SumOfNat
  <1> QED
    BY <1>3, TotalIsSum DEF Price, f

\* The amounts of a cart are natural numbers.
LEMMA CartAmounts ==
    ASSUME NEW cart \in Carts
    PROVE  PortraitAmount(cart) \in Nat /\ AccessoryAmount(cart) \in Nat
  <1>1. /\ cart.portraits \in Seq(Line) /\ cart.fullRandom \in Seq(Line)
        /\ cart.semiRandom \in Seq(SemiRandomLine)
    BY CartAssumption DEF Cart
  <1>2. (\A l \in Line : l.amount \in Nat) /\ \A l \in SemiRandomLine : l.amount \in Nat
    BY DEF Line, SemiRandomLine
  <1>3. Amount(cart.portraits) \in Nat /\ Amount(cart.fullRandom) \in Nat
    BY <1>1, <1>2, LinesAmount
  <1>4. Amount(cart.semiRandom) \in Nat
    BY <1>1, <1>2, LinesAmount
  <1> QED
    BY <1>3, <1>4 DEF PortraitAmount, AccessoryAmount

\* So is its price, whatever the tables of prices.
LEMMA CartPrice ==
    ASSUME NEW cart \in Carts, NEW p \in PortraitTables, NEW a \in AccessoryTables
    PROVE  EtherPrice(cart, p, a) \in Nat
  <1> DEFINE unit(info, field) == [b \in BoxTypes |-> info[b][field]]
  <1>1. /\ cart.portraits \in Seq(Line) /\ cart.fullRandom \in Seq(Line)
        /\ cart.semiRandom \in Seq(SemiRandomLine)
    BY CartAssumption DEF Cart
  <1>2. /\ \A l \in Line : l.amount \in Nat /\ l.boxType \in BoxTypes
        /\ \A l \in SemiRandomLine : l.amount \in Nat /\ l.boxType \in BoxTypes
    BY DEF Line, SemiRandomLine
  <1>3. unit(p, "price") \in [BoxTypes -> Nat]
    <2>1. \A info \in PortraitInfos \cup {NoPortraitInfo} : info["price"] \in Nat
      BY TableAssumption DEF PortraitMintInfo, NoPortraitInfo
    <2> QED
      BY <2>1 DEF PortraitTables
  <1>4. /\ unit(a, "semiRandomPrice") \in [BoxTypes -> Nat]
        /\ unit(a, "randomPrice") \in [BoxTypes -> Nat]
    <2>1. \A info \in AccessoryInfos \cup {NoAccessoryInfo} :
            info["semiRandomPrice"] \in Nat /\ info["randomPrice"] \in Nat
      BY TableAssumption DEF AccessoryMintInfo, NoAccessoryInfo
    <2> QED
      BY <2>1 DEF AccessoryTables
  <1> HIDE DEF unit
  <1>5. /\ Price(cart.portraits, unit(p, "price")) \in Nat
        /\ Price(cart.fullRandom, unit(a, "randomPrice")) \in Nat
    BY <1>1, <1>2, <1>3, <1>4, LinesPrice
  <1>6. Price(cart.semiRandom, unit(a, "semiRandomPrice")) \in Nat
    BY <1>1, <1>2, <1>4, LinesPrice
  <1>7. EtherPrice(cart, p, a) = Price(cart.portraits, unit(p, "price"))
            + Price(cart.semiRandom, unit(a, "semiRandomPrice"))
            + Price(cart.fullRandom, unit(a, "randomPrice"))
    BY DEF EtherPrice, unit
  <1> QED
    BY <1>5, <1>6, <1>7

\* What _storePortraitRequest and _storeAccessoryRequest leave in a slot is
\* a request.
LEMMA StoredRequestType ==
    ASSUME RequestTypeOK, NEW user \in Users, NEW cart \in Carts,
           NEW seeds, NEW request \in MintRequest(seeds)
    PROVE  storedRequest(request, user, cart) \in MintRequest(seeds)
  <1> DEFINE added == [portraits |-> request.cart.portraits \o cart.portraits,
                       semiRandom |-> request.cart.semiRandom \o cart.semiRandom,
                       fullRandom |-> request.cart.fullRandom \o cart.fullRandom]
  <1>1. cart \in Cart /\ request.cart \in Cart
    BY CartAssumption DEF MintRequest
  <1>2. added \in Cart
    BY <1>1 DEF Cart
  <1>3. storedRequest(request, user, cart) =
          [request EXCEPT !.requester = user, !.cart = added,
             !.portraitAmount = PortraitAmount(cart), !.accessoryAmount = AccessoryAmount(cart),
             !.portraitStartTokenId = nextPortraitTokenId,
             !.accessoryStartTokenId = nextAccessoryTokenId]
    BY DEF storedRequest
  <1> HIDE DEF added
  <1> QED
    BY <1>2, <1>3, CartAmounts DEF RequestTypeOK, MintRequest

\* A record as a mint of the cart leaves it, as far as the slot it was
\* stored in does not matter.
isNew(new, user, cart) ==
    /\ new.requester = user
    /\ new.portraitAmount = PortraitAmount(cart)
    /\ new.accessoryAmount = AccessoryAmount(cart)
    /\ new.portraitStartTokenId = nextPortraitTokenId
    /\ new.accessoryStartTokenId = nextAccessoryTokenId

\* The record left in a slot is such a record, and keeps its random number.
LEMMA StoredFields ==
    ASSUME NEW user, NEW cart, NEW seeds, NEW request \in MintRequest(seeds)
    PROVE  /\ isNew(storedRequest(request, user, cart), user, cart)
           /\ storedRequest(request, user, cart).randomNumber = request.randomNumber
  BY DEF isNew, storedRequest, MintRequest

\* The token counters only grow.
LEMMA ReserveType ==
    ASSUME RequestTypeOK, NEW cart \in Carts, reserveTokenIds(cart)
    PROVE  /\ nextPortraitTokenId' \in Nat \ {0}
           /\ nextAccessoryTokenId' \in Nat \ {0}
           /\ nextPortraitTokenId <= nextPortraitTokenId'
           /\ nextAccessoryTokenId <= nextAccessoryTokenId'
  BY CartAmounts DEF RequestTypeOK, reserveTokenIds, PORTRAIT_MASK

\* A request is only made within the bound and while there is LINK for it.
LEMMA RequestType ==
    ASSUME VRFTypeOK, requestRandomness
    PROVE  VRFTypeOK' /\ requestId \in RequestIds
  <1>1. coordNonces' \in Nat /\ callbacks' \subseteq Nat
    <2>1. \/ coordNonces' = coordNonces /\ callbacks' = callbacks
          \/ coordNonces' = coordNonces + 1 /\ callbacks' = callbacks \cup {coordNonces}
      BY Zenon DEF requestRandomness, randomnessRequest
    <2>2. coordNonces \in Nat /\ callbacks \subseteq Nat
      BY DEF VRFTypeOK
    <2>3. coordNonces + 1 \in Nat /\ callbacks \cup {coordNonces} \subseteq Nat
      BY <2>2
    <2> QED
      BY <2>1, <2>2, <2>3, Zenon
  <1>2. /\ nonces \in 0 .. MaxNonce - 1 /\ nonces' = nonces + 1
        /\ linkBalance' \in Nat /\ linkFunded' = linkFunded
    BY VRFAssumption DEF requestRandomness, VRFTypeOK
  <1> QED
    BY <1>1, <1>2, VRFAssumption DEF requestId, RequestIds, VRFTypeOK

\* A paid mint changes the one slot its id names.
LEMMA PaidMintStores ==
    ASSUME RequestTypeOK, VRFTypeOK, NEW user \in Users, NEW cart \in Carts, NEW useSIlv,
           NEW msgValue, NEW ilvRate, paidMint(user, cart, useSIlv, msgValue, ilvRate)
    PROVE  LET slot == mintRequests[requestId]
               new == mintRequests'[requestId]
           IN  /\ requestId \in RequestIds
               /\ slot.requester = NoAddress
               /\ new = storedRequest(slot, user, cart)
               /\ isNew(new, user, cart)
               /\ new.randomNumber = slot.randomNumber
               /\ \A i \in RequestIds : i # requestId => mintRequests'[i] = mintRequests[i]
               /\ freeRequests' = freeRequests /\ freeRequestCount' = freeRequestCount
               /\ reserveTokenIds(cart)
               /\ requestRandomness
  <1>1. /\ mintRequests' = [mintRequests EXCEPT
                ![requestId] = storedRequest(mintRequests[requestId], user, cart)]
        /\ mintRequests[requestId].requester = NoAddress
        /\ freeRequests' = freeRequests /\ freeRequestCount' = freeRequestCount
        /\ reserveTokenIds(cart)
        /\ requestRandomness
    BY DEF paidMint
  <1>2. requestId \in RequestIds
    BY <1>1, RequestType
  <1>3. mintRequests[requestId] \in MintRequest(RandomWords \cup {0})
    BY <1>2 DEF RequestTypeOK
  <1>4. mintRequests'[requestId] = storedRequest(mintRequests[requestId], user, cart)
    BY <1>1, <1>2 DEF RequestTypeOK
  <1>5. \A i \in RequestIds : i # requestId => mintRequests'[i] = mintRequests[i]
    BY <1>1 DEF RequestTypeOK
  <1> QED
    BY <1>1, <1>2, <1>3, <1>4, <1>5, StoredFields

\* So does a free mint, which writes the number too.
LEMMA FreeMintStores ==
    ASSUME RequestTypeOK, NEW user \in Users, NEW cart \in Carts, freeMint(user, cart)
    PROVE  LET slot == freeRequests[freeRequestCount]
               new == freeRequests'[freeRequestCount]
               seed == <<freeRequestCount + 1, now>>
           IN  /\ freeRequestCount \in FreeIds
               /\ freeRequestCount' = freeRequestCount + 1
               /\ new = [storedRequest(slot, user, cart) EXCEPT !.randomNumber = seed]
               /\ isNew(new, user, cart)
               /\ new.randomNumber = seed
               /\ \A i \in FreeIds : i # freeRequestCount => freeRequests'[i] = freeRequests[i]
               /\ mintRequests' = mintRequests
               /\ reserveTokenIds(cart)
  <1> DEFINE seed == <<freeRequestCount + 1, now>>
             stored == storedRequest(freeRequests[freeRequestCount], user, cart)
  <1>1. /\ freeRequests' = [freeRequests EXCEPT
                ![freeRequestCount] = [stored EXCEPT !.randomNumber = seed]]
        /\ freeRequestCount < MaxFree
        /\ freeRequestCount' = freeRequestCount + 1
        /\ mintRequests' = mintRequests
        /\ reserveTokenIds(cart)
    BY DEF freeMint
  <1>2. freeRequestCount \in FreeIds
    BY <1>1, MinterAssumption DEF RequestTypeOK, FreeIds
  <1>3. stored \in MintRequest(FreeSeeds) /\ isNew(stored, user, cart)
    BY <1>2, StoredRequestType, StoredFields DEF RequestTypeOK
  <1> HIDE DEF seed, stored
  <1>4. freeRequests'[freeRequestCount] = [stored EXCEPT !.randomNumber = seed]
    BY <1>1, <1>2 DEF RequestTypeOK
  <1>5. \A i \in FreeIds : i # freeRequestCount => freeRequests'[i] = freeRequests[i]
    BY <1>1 DEF RequestTypeOK
  <1>6. /\ isNew([stored EXCEPT !.randomNumber = seed], user, cart)
        /\ [stored EXCEPT !.randomNumber = seed].randomNumber = seed
    BY <1>3 DEF isNew, MintRequest
  <1> QED
    BY <1>1, <1>2, <1>4, <1>5, <1>6 DEF seed, stored

\* A callback writes one random number, if it is accepted.
LEMMA CallbackStores ==
    ASSUME RequestTypeOK, NEW id \in RequestIds, NEW randomNumber,
           rawFulfillRandomness(id, randomNumber)
    PROVE  /\ \A i \in RequestIds :
                mintRequests'[i] = IF i = id /\ fulfillable(id)
                                   THEN [mintRequests[i] EXCEPT !.randomNumber = randomNumber]
                                   ELSE mintRequests[i]
           /\ mintRequests' \in [RequestIds -> MintRequest(RandomWords \cup {0, randomNumber})]
           /\ UNCHANGED <<freeRequests, freeRequestCount, nextPortraitTokenId, nextAccessoryTokenId>>
  <1>1. mintRequests \in [RequestIds -> MintRequest(RandomWords \cup {0})]
    BY DEF RequestTypeOK
  <1>2. /\ mintRequests' = IF fulfillable(id)
                           THEN [mintRequests EXCEPT ![id].randomNumber = randomNumber]
                           ELSE mintRequests
        /\ UNCHANGED <<freeRequests, freeRequestCount, nextPortraitTokenId, nextAccessoryTokenId>>
    BY DEF rawFulfillRandomness, fulfillRandomness
  <1> QED
    BY <1>1, <1>2 DEF MintRequest

\* A paid mint keeps the types: the price is no negative number, and the
\* sender can afford what it pays.
LEMMA PaidMintType ==
    ASSUME TypeOK, NEW user \in Users, NEW cart \in Carts, NEW useSIlv \in BOOLEAN,
           NEW msgValue \in MsgValues, NEW ilvRate \in IlvRates,
           paidMint(user, cart, useSIlv, msgValue, ilvRate)
    PROVE  TypeOK'
  <1> DEFINE etherPrice == EtherPrice(cart, portraitMintInfo, accessoryMintInfo)
             tokenAmount == IF etherPrice # 0 /\ useSIlv THEN etherPrice * ilvRate ELSE 0
  <1>1. VRFTypeOK /\ ConfigTypeOK /\ RequestTypeOK /\ MoneyTypeOK
    BY TypeParts
  <1>2. VRFTypeOK' /\ requestId \in RequestIds
    <2>1. requestRandomness
      BY DEF paidMint
    <2> QED
      BY <1>1, <2>1, RequestType
  <1>3. ConfigTypeOK'
    BY <1>1 DEF paidMint, ConfigTypeOK, configVars
  <1>4. RequestTypeOK'
    <2>1. storedRequest(mintRequests[requestId], user, cart) \in MintRequest(RandomWords \cup {0})
      BY <1>1, <1>2, StoredRequestType DEF RequestTypeOK
    <2>2. reserveTokenIds(cart)
      BY DEF paidMint
    <2>3. mintRequests' \in [RequestIds -> MintRequest(RandomWords \cup {0})]
      BY <1>1, <1>2, <2>1 DEF paidMint, RequestTypeOK
    <2> QED
      BY <1>1, <2>2, <2>3, ReserveType DEF paidMint, RequestTypeOK
  <1>5. MoneyTypeOK'
    <2>1. etherPrice \in Nat
      BY <1>1, CartPrice DEF ConfigTypeOK
    <2>2. tokenAmount \in Nat /\ msgValue \in Nat
      BY <2>1, MinterAssumption
    <2>3. /\ user \in Accounts /\ Minter \in Accounts
          /\ msgValue <= etherBalance[user]
          /\ tokenAmount <= sIlvBalance[user]
          /\ etherBalance' = transfer(etherBalance, user, Minter, msgValue)
          /\ sIlvBalance' = transfer(sIlvBalance, user, Minter, tokenAmount)
      BY MinterAssumption DEF paidMint, Accounts
    <2>4. etherBalance' \in [Accounts -> Nat] /\ sIlvBalance' \in [Accounts -> Nat]
      BY <1>1, <2>2, <2>3, TransferType DEF MoneyTypeOK
    <2>5. [owed |-> etherPrice, useSIlv |-> useSIlv, ether |-> msgValue,
           sIlv |-> tokenAmount] \in Receipt
      BY <2>1, <2>2 DEF Receipt
    <2>6. receipts' \in [RequestIds -> Receipt]
      BY <1>1, <1>2, <2>5 DEF paidMint, MoneyTypeOK
    <2>7. withdrawnUpTo' \in 0 .. MaxNonce
      BY <1>1 DEF paidMint, MoneyTypeOK
    <2> QED
      BY <2>4, <2>6, <2>7 DEF MoneyTypeOK
  <1> QED
    BY <1>2, <1>3, <1>4, <1>5 DEF TypeOK, ConfigTypeOK, RequestTypeOK, MoneyTypeOK

\* A free mint keeps the types.
LEMMA FreeMintType ==
    ASSUME TypeOK, NEW user \in Users, NEW cart \in Carts, freeMint(user, cart)
    PROVE  TypeOK'
  <1>1. VRFTypeOK /\ ConfigTypeOK /\ RequestTypeOK /\ MoneyTypeOK
    BY TypeParts
  <1>2. VRFTypeOK' /\ ConfigTypeOK' /\ MoneyTypeOK'
    BY <1>1 DEF freeMint, VRFTypeOK, ConfigTypeOK, MoneyTypeOK, configVars, moneyVars, vrfVars
  <1>3. freeRequestCount \in FreeIds /\ freeRequestCount' \in 0 .. MaxFree
    BY <1>1, MinterAssumption DEF freeMint, RequestTypeOK, FreeIds
  <1>4. <<freeRequestCount + 1, now>> \in FreeSeeds
    BY <1>1 DEF FreeSeeds, RequestTypeOK, ConfigTypeOK
  <1>5. [storedRequest(freeRequests[freeRequestCount], user, cart)
             EXCEPT !.randomNumber = <<freeRequestCount + 1, now>>] \in MintRequest(FreeSeeds)
    <2>1. storedRequest(freeRequests[freeRequestCount], user, cart) \in MintRequest(FreeSeeds)
      BY <1>1, <1>3, StoredRequestType DEF RequestTypeOK
    <2> QED
      BY <1>4, <2>1 DEF MintRequest
  <1>6. reserveTokenIds(cart)
    BY DEF freeMint
  <1>7. RequestTypeOK'
    BY <1>1, <1>3, <1>5, <1>6, ReserveType DEF freeMint, RequestTypeOK
  <1> QED
    BY <1>2, <1>7 DEF TypeOK, ConfigTypeOK, RequestTypeOK, MoneyTypeOK

\* So does a random word, accepted or refused.
LEMMA CallbackType ==
    ASSUME TypeOK, NEW id \in RequestIds, NEW randomNumber \in RandomWords,
           rawFulfillRandomness(id, randomNumber)
    PROVE  TypeOK'
  <1>1. VRFTypeOK /\ ConfigTypeOK /\ RequestTypeOK /\ MoneyTypeOK
    BY TypeParts
  <1>2. VRFTypeOK' /\ ConfigTypeOK' /\ MoneyTypeOK'
    BY <1>1 DEF rawFulfillRandomness, takeCallback, mockCallback, VRFTypeOK, ConfigTypeOK,
                MoneyTypeOK, configVars, moneyVars, vrfVars
  <1>3. mintRequests' \in [RequestIds -> MintRequest(RandomWords \cup {0})]
    <2>1. RandomWords \cup {0, randomNumber} = RandomWords \cup {0}
      OBVIOUS
    <2> QED
      BY <1>1, <2>1, CallbackStores
  <1>4. requestFulfilled' \in [RequestIds -> Seq(RandomWords)]
    <2>1. \/ requestFulfilled' = requestFulfilled
          \/ requestFulfilled' = [requestFulfilled EXCEPT ![id] = Append(@, randomNumber)]
      BY DEF rawFulfillRandomness, fulfillRandomness
    <2>2. requestFulfilled \in [RequestIds -> Seq(RandomWords)]
      BY <1>1 DEF RequestTypeOK
    <2>3. Append(requestFulfilled[id], randomNumber) \in Seq(RandomWords)
      BY <2>2
    <2> QED
      BY <2>1, <2>2, <2>3
  <1>5. RequestTypeOK'
    BY <1>1, <1>3, <1>4 DEF rawFulfillRandomness, RequestTypeOK
  <1> QED
    BY <1>2, <1>5 DEF TypeOK, ConfigTypeOK, RequestTypeOK, MoneyTypeOK

\* So do the owner's transactions.
LEMMA OwnerStepType ==
    ASSUME TypeOK, OwnerStep
    PROVE  TypeOK'
  <1>1. VRFTypeOK /\ ConfigTypeOK /\ RequestTypeOK /\ MoneyTypeOK
    BY TypeParts
  <1>2. VRFTypeOK' /\ RequestTypeOK'
    BY <1>1 DEF OwnerStep, setPortraitSaleWindow, setFreeMintLimitPerTx, setTreasury,
                setPortraitMintInfo, setAccessoryMintInfo, withdraw, passOwnership, notConfig,
                VRFTypeOK, RequestTypeOK, requestVars, vrfVars
  <1>3. ConfigTypeOK'
    <2>1. ASSUME NEW start \in WindowBounds, NEW end \in WindowBounds,
                 setPortraitSaleWindow(start, end)
          PROVE  ConfigTypeOK'
      BY <1>1, <2>1, MinterAssumption DEF setPortraitSaleWindow, notConfig, ConfigTypeOK
    <2>2. ASSUME NEW p \in FreeLimits, NEW a \in FreeLimits, setFreeMintLimitPerTx(p, a)
          PROVE  ConfigTypeOK'
      BY <1>1, <2>2, MinterAssumption DEF setFreeMintLimitPerTx, notConfig, ConfigTypeOK
    <2>3. ASSUME NEW account \in Treasuries \cup {NoAddress}, setTreasury(account)
          PROVE  ConfigTypeOK'
      BY <1>1, <2>3 DEF setTreasury, notConfig, ConfigTypeOK
    <2>4. ASSUME NEW boxType \in BoxTypes, NEW info \in PortraitInfos,
                 setPortraitMintInfo(boxType, info)
          PROVE  ConfigTypeOK'
      BY <1>1, <2>4 DEF setPortraitMintInfo, notConfig, ConfigTypeOK, PortraitTables
    <2>5. ASSUME NEW boxType \in BoxTypes, NEW info \in AccessoryInfos,
                 setAccessoryMintInfo(boxType, info)
          PROVE  ConfigTypeOK'
      BY <1>1, <2>5 DEF setAccessoryMintInfo, notConfig, ConfigTypeOK, AccessoryTables
    <2>6. ASSUME NEW newOwner \in Owners \cup {NoAddress}, withdraw \/ passOwnership(newOwner)
          PROVE  ConfigTypeOK'
      BY <1>1, <2>6 DEF withdraw, passOwnership, ConfigTypeOK, configVars
    <2> QED
      BY <2>1, <2>2, <2>3, <2>4, <2>5, <2>6 DEF OwnerStep
  <1>4. MoneyTypeOK'
    <2>1. CASE withdraw
      <3>1. Minter \in Accounts /\ treasury \in Accounts
        BY <1>1, MinterAssumption DEF ConfigTypeOK, Accounts
      <3>2. etherBalance[Minter] \in Nat /\ sIlvBalance[Minter] \in Nat
        BY <1>1, <3>1 DEF MoneyTypeOK
      <3>3. etherBalance' \in [Accounts -> Nat] /\ sIlvBalance' \in [Accounts -> Nat]
        <4>1. /\ etherBalance \in [Accounts -> Nat] /\ sIlvBalance \in [Accounts -> Nat]
              /\ etherBalance' = transfer(etherBalance, Minter, treasury, etherBalance[Minter])
              /\ sIlvBalance' = transfer(sIlvBalance, Minter, treasury, sIlvBalance[Minter])
          BY <1>1, <2>1 DEF withdraw, MoneyTypeOK
        <4> QED
          BY <3>1, <3>2, <4>1, TransferType
      <3> QED
        BY <1>1, <2>1, <3>3 DEF withdraw, noteWithdrawal, MoneyTypeOK, VRFTypeOK
    <2>2. CASE ~withdraw
      BY <1>1, <2>2
      DEF OwnerStep, setPortraitSaleWindow, setFreeMintLimitPerTx, setTreasury,
          setPortraitMintInfo, setAccessoryMintInfo, passOwnership, notConfig,
          MoneyTypeOK, moneyVars
    <2> QED
      BY <2>1, <2>2
  <1> QED
    BY <1>2, <1>3, <1>4 DEF TypeOK, ConfigTypeOK, RequestTypeOK, MoneyTypeOK

\* So do a new block and LINK sent to the Minter.
LEMMA ChainStepType ==
    ASSUME TypeOK, FundMinterWithLink \/ NextBlock
    PROVE  TypeOK'
  <1>1. VRFTypeOK /\ ConfigTypeOK /\ RequestTypeOK /\ MoneyTypeOK
    BY TypeParts
  <1>2. RequestTypeOK' /\ MoneyTypeOK'
    BY <1>1 DEF FundMinterWithLink, NextBlock, RequestTypeOK, MoneyTypeOK, requestVars, moneyVars
  <1>3. ConfigTypeOK'
    BY <1>1, MinterAssumption DEF FundMinterWithLink, NextBlock, ConfigTypeOK, configVars
  <1>4. VRFTypeOK'
    <2>1. CASE FundMinterWithLink
      BY <1>1, <2>1, VRFAssumption DEF FundMinterWithLink, FundLink, VRFTypeOK
    <2>2. CASE NextBlock
      BY <1>1, <2>2 DEF NextBlock, VRFTypeOK, vrfVars
    <2> QED
      BY <2>1, <2>2
  <1> QED
    BY <1>2, <1>3, <1>4 DEF TypeOK, ConfigTypeOK, RequestTypeOK, MoneyTypeOK

\* The state after deployment has the right types.
LEMMA InitType == Init => TypeOK
  BY VRFAssumption, MinterAssumption
  DEF Init, VRFInit, TypeOK, VRFTypeOK, PortraitTables, AccessoryTables, MintRequest, NoRequest,
      EmptyCart, Cart, FreeSeeds, NoFreeSeed, Receipt, NoReceipt, RequestIds, FreeIds

\* Storage, balances and counters keep their types: no balance goes below
\* zero, no token counter falls to zero, the Minter never runs ahead of its
\* LINK.
THEOREM TypeCorrect == Spec => []TypeOK
  <1>1. TypeOK /\ [Next]_vars => TypeOK'
    <2> SUFFICES ASSUME TypeOK, [Next]_vars
                 PROVE  TypeOK'
      OBVIOUS
    <2>1. CASE UserStep
      BY <2>1, PaidMintType, FreeMintType DEF UserStep
    <2>2. CASE OwnerStep
      BY <2>2, OwnerStepType
    <2>3. CASE \E id \in RequestIds : Callback(id)
      BY <2>3, CallbackType DEF Callback
    <2>4. CASE FundMinterWithLink \/ NextBlock
      BY <2>4, ChainStepType
    <2>5. CASE UNCHANGED vars
      BY <2>5 DEF TypeOK, VRFTypeOK, vars, configVars, requestVars, moneyVars, vrfVars
    <2> QED
      BY <2>1, <2>2, <2>3, <2>4, <2>5 DEF Next
  <1> QED
    BY <1>1, InitType, PTL DEF Spec

-----------------------------------------------------------------------------
(* Token ids.                                                              *)

\* Everything a request reserved lies below the counters p and a.
reservedBelow(r, p, a) ==
    /\ 1 <= r.portraitStartTokenId
    /\ r.portraitStartTokenId + PORTRAIT_MASK * r.portraitAmount <= p
    /\ r.portraitStartTokenId % PORTRAIT_MASK = 1
    /\ 1 <= r.accessoryStartTokenId
    /\ r.accessoryStartTokenId + r.accessoryAmount <= a

reservesNothing(r) ==
    /\ r.portraitStartTokenId = 0 /\ r.portraitAmount = 0
    /\ r.accessoryStartTokenId = 0 /\ r.accessoryAmount = 0

\* One request's ids end before the other's begin.
apart(r, s) ==
    /\ \/ r.portraitStartTokenId + PORTRAIT_MASK * r.portraitAmount <= s.portraitStartTokenId
       \/ s.portraitStartTokenId + PORTRAIT_MASK * s.portraitAmount <= r.portraitStartTokenId
    /\ \/ r.accessoryStartTokenId + r.accessoryAmount <= s.accessoryStartTokenId
       \/ s.accessoryStartTokenId + s.accessoryAmount <= r.accessoryStartTokenId

wellPlaced(r, p, a) ==
    IF placed(r) THEN reservedBelow(r, p, a) ELSE reservesNothing(r)

TokenInv ==
    /\ nextPortraitTokenId % PORTRAIT_MASK = 1
    /\ \A i \in RequestIds : wellPlaced(mintRequests[i], nextPortraitTokenId, nextAccessoryTokenId)
    /\ \A j \in FreeIds : wellPlaced(freeRequests[j], nextPortraitTokenId, nextAccessoryTokenId)
    /\ \A i, j \in RequestIds : i # j => apart(mintRequests[i], mintRequests[j])
    /\ \A i, j \in FreeIds : i # j => apart(freeRequests[i], freeRequests[j])
    /\ \A i \in RequestIds, j \in FreeIds : apart(mintRequests[i], freeRequests[j])

\* A request as far as its token ids are concerned.
hasFootprint(r) ==
    /\ r.portraitStartTokenId \in Nat /\ r.portraitAmount \in Nat
    /\ r.accessoryStartTokenId \in Nat /\ r.accessoryAmount \in Nat

\* Stored requests have numbers for token ids and amounts.
LEMMA Footprints ==
    RequestTypeOK => /\ \A i \in RequestIds : hasFootprint(mintRequests[i])
                     /\ \A j \in FreeIds : hasFootprint(freeRequests[j])
  BY DEF RequestTypeOK, MintRequest, hasFootprint

\* Intervals that are apart have no id in common.
LEMMA ApartDisjoint ==
    ASSUME NEW r, NEW s, hasFootprint(r), hasFootprint(s), apart(r, s)
    PROVE  shareNoTokenId(r, s)
  BY DEF hasFootprint, apart, shareNoTokenId, portraitIds, accessoryIds, PORTRAIT_MASK

\* Ids below the counters are ids that later requests cannot be given.
LEMMA BelowIsReserved ==
    ASSUME RequestTypeOK, NEW r, hasFootprint(r),
           reservedBelow(r, nextPortraitTokenId, nextAccessoryTokenId)
    PROVE  idsAreReserved(r)
  <1>1. nextPortraitTokenId \in Nat /\ nextAccessoryTokenId \in Nat
    BY DEF RequestTypeOK
  <1> QED
    BY <1>1 DEF hasFootprint, reservedBelow, idsAreReserved, portraitIds, accessoryIds,
           PORTRAIT_MASK

\* A new request lies below the new counters and apart from every request
\* that was in place before, and those stay below the counters.
LEMMA NewRequestIsApart ==
    ASSUME RequestTypeOK, nextPortraitTokenId % PORTRAIT_MASK = 1,
           NEW user \in Users, NEW cart \in Carts, reserveTokenIds(cart),
           NEW new, isNew(new, user, cart)
    PROVE  /\ hasFootprint(new)
           /\ wellPlaced(new, nextPortraitTokenId', nextAccessoryTokenId')
           /\ nextPortraitTokenId' % PORTRAIT_MASK = 1
           /\ \A r : hasFootprint(r) /\ wellPlaced(r, nextPortraitTokenId, nextAccessoryTokenId)
                => /\ wellPlaced(r, nextPortraitTokenId', nextAccessoryTokenId')
                   /\ apart(r, new)
                   /\ apart(new, r)
  <1> DEFINE p == PortraitAmount(cart)
             a == AccessoryAmount(cart)
  <1>1. p \in Nat /\ a \in Nat
    BY CartAmounts
  <1>2. /\ nextPortraitTokenId \in Nat \ {0} /\ nextAccessoryTokenId \in Nat \ {0}
        /\ nextPortraitTokenId' = nextPortraitTokenId + 6 * p
        /\ nextAccessoryTokenId' = nextAccessoryTokenId + a
    BY DEF RequestTypeOK, reserveTokenIds, PORTRAIT_MASK
  <1>3. /\ new.requester = user /\ new.portraitAmount = p /\ new.accessoryAmount = a
        /\ new.portraitStartTokenId = nextPortraitTokenId
        /\ new.accessoryStartTokenId = nextAccessoryTokenId
    BY DEF isNew
  <1>4. hasFootprint(new)
    BY <1>1, <1>2, <1>3 DEF hasFootprint
  <1>5. wellPlaced(new, nextPortraitTokenId', nextAccessoryTokenId')
    BY <1>1, <1>2, <1>3, MinterAssumption
    DEF wellPlaced, placed, reservedBelow, PORTRAIT_MASK
  <1>6. nextPortraitTokenId' % PORTRAIT_MASK = 1
    BY <1>1, <1>2 DEF PORTRAIT_MASK
  <1>7. ASSUME NEW r, hasFootprint(r),
               wellPlaced(r, nextPortraitTokenId, nextAccessoryTokenId)
        PROVE  /\ wellPlaced(r, nextPortraitTokenId', nextAccessoryTokenId')
               /\ apart(r, new)
               /\ apart(new, r)
    <2> HIDE DEF p, a
    <2>1. CASE placed(r)
      BY <1>1, <1>2, <1>3, <1>7, <2>1
      DEF hasFootprint, wellPlaced, reservedBelow, apart, PORTRAIT_MASK
    <2>2. CASE ~placed(r)
      <3>1. reservesNothing(r)
        BY <1>7, <2>2 DEF wellPlaced
      <3>2. wellPlaced(r, nextPortraitTokenId', nextAccessoryTokenId')
        BY <2>2, <3>1 DEF wellPlaced
      <3>3. apart(r, new) /\ apart(new, r)
        BY <1>1, <1>2, <1>3, <3>1 DEF reservesNothing, apart, PORTRAIT_MASK
      <3> QED
        BY <3>2, <3>3
    <2> QED
      BY <2>1, <2>2
  <1> QED
    BY <1>4, <1>5, <1>6, <1>7

\* A paid mint keeps the ids of requests apart.
LEMMA PaidMintTokens ==
    ASSUME TypeOK, TokenInv, NEW user \in Users, NEW cart \in Carts, NEW useSIlv \in BOOLEAN,
           NEW msgValue \in MsgValues, NEW ilvRate \in IlvRates,
           paidMint(user, cart, useSIlv, msgValue, ilvRate)
    PROVE  TokenInv'
  <1> DEFINE new == mintRequests'[requestId]
  <1>1. RequestTypeOK /\ VRFTypeOK
    BY TypeParts
  <1>2. /\ requestId \in RequestIds
        /\ isNew(new, user, cart)
        /\ \A i \in RequestIds : i # requestId => mintRequests'[i] = mintRequests[i]
        /\ freeRequests' = freeRequests
        /\ reserveTokenIds(cart)
    BY <1>1, PaidMintStores
  <1>3. \A i \in RequestIds : mintRequests'[i] = IF i = requestId THEN new ELSE mintRequests[i]
    BY <1>2
  <1> HIDE DEF new
  <1>4. /\ hasFootprint(new)
        /\ wellPlaced(new, nextPortraitTokenId', nextAccessoryTokenId')
        /\ nextPortraitTokenId' % PORTRAIT_MASK = 1
        /\ \A r : hasFootprint(r) /\ wellPlaced(r, nextPortraitTokenId, nextAccessoryTokenId)
             => /\ wellPlaced(r, nextPortraitTokenId', nextAccessoryTokenId')
                /\ apart(r, new)
                /\ apart(new, r)
    BY <1>1, <1>2, NewRequestIsApart DEF TokenInv
  <1> QED
    BY <1>1, <1>2, <1>3, <1>4, Footprints DEF TokenInv

\* So does a free mint.
LEMMA FreeMintTokens ==
    ASSUME TypeOK, TokenInv, NEW user \in Users, NEW cart \in Carts, freeMint(user, cart)
    PROVE  TokenInv'
  <1> DEFINE new == freeRequests'[freeRequestCount]
  <1>1. RequestTypeOK
    BY TypeParts
  <1>2. /\ isNew(new, user, cart)
        /\ \A i \in FreeIds : i # freeRequestCount => freeRequests'[i] = freeRequests[i]
        /\ mintRequests' = mintRequests
        /\ reserveTokenIds(cart)
    BY <1>1, FreeMintStores
  <1>3. \A j \in FreeIds : freeRequests'[j] = IF j = freeRequestCount THEN new ELSE freeRequests[j]
    BY <1>2
  <1> HIDE DEF new
  <1>4. /\ hasFootprint(new)
        /\ wellPlaced(new, nextPortraitTokenId', nextAccessoryTokenId')
        /\ nextPortraitTokenId' % PORTRAIT_MASK = 1
        /\ \A r : hasFootprint(r) /\ wellPlaced(r, nextPortraitTokenId, nextAccessoryTokenId)
             => /\ wellPlaced(r, nextPortraitTokenId', nextAccessoryTokenId')
                /\ apart(r, new)
                /\ apart(new, r)
    BY <1>1, <1>2, NewRequestIsApart DEF TokenInv
  <1> QED
    BY <1>1, <1>2, <1>3, <1>4, Footprints DEF TokenInv

\* A callback moves no token id.
LEMMA CallbackTokens ==
    ASSUME TypeOK, TokenInv, NEW id \in RequestIds, NEW randomNumber \in RandomWords,
           rawFulfillRandomness(id, randomNumber)
    PROVE  TokenInv'
  <1>1. RequestTypeOK
    BY TypeParts
  <1>2. \A i \in RequestIds :
            /\ mintRequests'[i].requester = mintRequests[i].requester
            /\ mintRequests'[i].portraitAmount = mintRequests[i].portraitAmount
            /\ mintRequests'[i].accessoryAmount = mintRequests[i].accessoryAmount
            /\ mintRequests'[i].portraitStartTokenId = mintRequests[i].portraitStartTokenId
            /\ mintRequests'[i].accessoryStartTokenId = mintRequests[i].accessoryStartTokenId
    <2>1. mintRequests \in [RequestIds -> MintRequest(RandomWords \cup {0})]
      BY <1>1 DEF RequestTypeOK
    <2> QED
      BY <1>1, <2>1, CallbackStores DEF MintRequest
  <1>3. UNCHANGED <<freeRequests, nextPortraitTokenId, nextAccessoryTokenId>>
    BY DEF rawFulfillRandomness
  <1> QED
    BY <1>2, <1>3 DEF TokenInv, wellPlaced, placed, reservedBelow, reservesNothing, apart

\* Before the first mint no id is reserved.
LEMMA InitTokens == Init => TokenInv
  BY DEF Init, TokenInv, wellPlaced, placed, reservesNothing, apart, NoRequest, PORTRAIT_MASK

\* The steps that neither mint nor settle leave the requests alone.
OtherStep == OwnerStep \/ FundMinterWithLink \/ NextBlock \/ UNCHANGED vars

\* Such steps leave the requests and the counters alone.
LEMMA OtherStepRequests == OtherStep => UNCHANGED requestVars
  BY DEF OtherStep, OwnerStep, setPortraitSaleWindow, setFreeMintLimitPerTx, setTreasury,
         setPortraitMintInfo, setAccessoryMintInfo, withdraw, passOwnership, notConfig,
         FundMinterWithLink, NextBlock, vars

\* The ids of requests are apart and below the counters, always.
LEMMA TokenInvariant == Spec => []TokenInv
  <1>1. TypeOK /\ TokenInv /\ [Next]_vars => TokenInv'
    <2> SUFFICES ASSUME TypeOK, TokenInv, [Next]_vars
                 PROVE  TokenInv'
      OBVIOUS
    <2>1. CASE UserStep
      BY <2>1, PaidMintTokens, FreeMintTokens DEF UserStep
    <2>2. CASE \E id \in RequestIds : Callback(id)
      BY <2>2, CallbackTokens DEF Callback
    <2>3. CASE OtherStep
      <3>1. UNCHANGED <<mintRequests, freeRequests, nextPortraitTokenId, nextAccessoryTokenId>>
        BY <2>3, OtherStepRequests DEF requestVars
      <3> QED
        BY <3>1 DEF TokenInv, wellPlaced, placed, reservedBelow, reservesNothing, apart
    <2> QED
      BY <2>1, <2>2, <2>3 DEF Next, OtherStep
  <1> QED
    BY <1>1, InitTokens, TypeCorrect, PTL DEF Spec

\* No token id is ever reserved by two requests, and none is handed out
\* again later.
THEOREM TokenIdsAreExclusive == Spec => []TokenIdsExclusive
  <1>1. TypeOK /\ TokenInv => TokenIdsExclusive
    BY TypeParts, Footprints, ApartDisjoint, BelowIsReserved DEF TokenInv, TokenIdsExclusive, wellPlaced
  <1> QED
    BY <1>1, TypeCorrect, TokenInvariant, PTL

-----------------------------------------------------------------------------
(* The store of requests and the coordinator's books.                      *)

\* Ids are used in order, so the slot a new request goes to is a free one,
\* with empty arrays and no random number; the two nonces agree, so a callback that is owed names a stored request
\* whose number has not been drawn.
SlotsInv ==
    /\ \A id \in RequestIds : placed(mintRequests[id]) <=> id < nonces
    /\ \A i \in FreeIds : placed(freeRequests[i]) <=> i < freeRequestCount
    /\ \A id \in RequestIds : ~placed(mintRequests[id]) => mintRequests[id] = NoRequest(0)
    /\ \A i \in FreeIds : ~placed(freeRequests[i]) => freeRequests[i] = NoRequest(NoFreeSeed)
    /\ \A i \in FreeIds : placed(freeRequests[i]) => freeRequests[i].randomNumber # NoFreeSeed

BooksInv ==
    /\ coordNonces = nonces
    /\ \A id \in callbacks : id \in RequestIds /\ fulfillable(id)

StoreInv == SlotsInv /\ (~MockCoordinator => BooksInv)

\* After deployment no request is stored and no callback owed.
LEMMA InitStore == Init => StoreInv
  BY VRFAssumption, MinterAssumption
  DEF Init, VRFInit, StoreInv, SlotsInv, BooksInv, placed, NoRequest, NoFreeSeed, RequestIds, FreeIds

\* A paid mint stores its request in a free slot and leaves the others alone;
\* Minter and coordinator count it alike.
LEMMA PaidMintStore ==
    ASSUME TypeOK, StoreInv, NEW user \in Users, NEW cart \in Carts, NEW useSIlv \in BOOLEAN,
           NEW msgValue \in MsgValues, NEW ilvRate \in IlvRates,
           paidMint(user, cart, useSIlv, msgValue, ilvRate)
    PROVE  StoreInv' /\ requestsKept
  <1> DEFINE new == mintRequests'[requestId]
  <1>1. RequestTypeOK /\ VRFTypeOK
    BY TypeParts
  <1>2. /\ requestId \in RequestIds
        /\ mintRequests[requestId].requester = NoAddress
        /\ isNew(new, user, cart)
        /\ new.randomNumber = mintRequests[requestId].randomNumber
        /\ \A i \in RequestIds : i # requestId => mintRequests'[i] = mintRequests[i]
        /\ UNCHANGED <<freeRequests, freeRequestCount>>
        /\ requestRandomness
    BY <1>1, PaidMintStores
  <1>3. requestId = nonces /\ nonces' = nonces + 1 /\ nonces \in Nat
    BY <1>1, <1>2 DEF requestId, requestRandomness, VRFTypeOK
  <1>4. \A i \in RequestIds : mintRequests'[i] = IF i = requestId THEN new ELSE mintRequests[i]
    BY <1>2
  <1>5. placed(new) /\ new.randomNumber = 0
    <2>1. mintRequests[requestId] = NoRequest(0)
      BY <1>2 DEF StoreInv, SlotsInv, placed
    <2> QED
      BY <1>2, <2>1, MinterAssumption DEF placed, isNew, NoRequest
  <1> HIDE DEF new
  <1>6. \A id \in RequestIds : placed(mintRequests[id])' <=> id < nonces'
    <2>1. \A id \in RequestIds :
            placed(mintRequests[id])' <=> id = requestId \/ placed(mintRequests[id])
      BY <1>4, <1>5 DEF placed
    <2>2. \A id \in RequestIds : id < nonces' <=> id = requestId \/ id < nonces
      BY <1>3, VRFAssumption DEF RequestIds
    <2> QED
      BY <2>1, <2>2 DEF StoreInv, SlotsInv
  <1>7. \A id \in RequestIds : ~placed(mintRequests[id])' => mintRequests'[id] = NoRequest(0)
    BY <1>4, <1>5 DEF StoreInv, SlotsInv, placed
  <1>8. SlotsInv'
    BY <1>2, <1>6, <1>7 DEF StoreInv, SlotsInv, placed
  <1>9. ASSUME ~MockCoordinator
        PROVE  BooksInv'
    <2>1. coordNonces' = coordNonces + 1 /\ callbacks' = callbacks \cup {coordNonces}
      BY <1>2, <1>9, Zenon DEF requestRandomness, randomnessRequest
    <2>2. BooksInv
      BY <1>9, Zenon DEF StoreInv
    <2>3. \A id \in RequestIds : id = requestId => fulfillable(id)'
      BY <1>4, <1>5 DEF fulfillable, placed
    <2>4. \A id \in callbacks : id \in RequestIds /\ fulfillable(id) /\ id # requestId
      BY <1>2, <2>2 DEF BooksInv, fulfillable
    <2>5. \A id \in RequestIds : id # requestId /\ fulfillable(id) => fulfillable(id)'
      BY <1>4 DEF fulfillable
    <2>6. coordNonces = requestId /\ coordNonces' = nonces'
      BY <1>3, <2>1, <2>2 DEF BooksInv
    <2>7. \A id \in callbacks' : id \in RequestIds /\ fulfillable(id)'
      BY <1>2, <2>1, <2>3, <2>4, <2>5, <2>6
    <2> QED
      BY <2>6, <2>7 DEF BooksInv
  <1>10. requestsKept
    BY <1>1, <1>2, <1>4 DEF requestsKept, placed, RequestTypeOK, MintRequest
  <1> QED
    BY <1>8, <1>9, <1>10, Zenon DEF StoreInv

\* So does a free mint, which the coordinator does not hear of.
LEMMA FreeMintStore ==
    ASSUME TypeOK, StoreInv, NEW user \in Users, NEW cart \in Carts, freeMint(user, cart)
    PROVE  StoreInv' /\ requestsKept
  <1> DEFINE new == freeRequests'[freeRequestCount]
  <1>1. RequestTypeOK
    BY TypeParts
  <1>2. /\ isNew(new, user, cart)
        /\ new.randomNumber = <<freeRequestCount + 1, now>>
        /\ \A i \in FreeIds : i # freeRequestCount => freeRequests'[i] = freeRequests[i]
        /\ freeRequestCount' = freeRequestCount + 1
        /\ mintRequests' = mintRequests
    BY <1>1, FreeMintStores
  <1>3. UNCHANGED <<nonces, coordNonces, callbacks>>
    BY DEF freeMint, vrfVars
  <1>4. placed(new) /\ new.randomNumber # NoFreeSeed
    BY <1>2, MinterAssumption DEF placed, isNew, NoFreeSeed
  <1>5. \A j \in FreeIds : freeRequests'[j] = IF j = freeRequestCount THEN new ELSE freeRequests[j]
    BY <1>2
  <1> HIDE DEF new
  <1>6. freeRequestCount \in Nat
    BY <1>1, MinterAssumption DEF RequestTypeOK
  <1>7. \A i \in FreeIds : placed(freeRequests[i])' <=> i < freeRequestCount'
    BY <1>2, <1>4, <1>5, <1>6, MinterAssumption DEF StoreInv, SlotsInv, placed, FreeIds
  <1>8. /\ \A i \in FreeIds : ~placed(freeRequests[i])' => freeRequests'[i] = NoRequest(NoFreeSeed)
        /\ \A i \in FreeIds : placed(freeRequests[i])' => freeRequests'[i].randomNumber # NoFreeSeed
    BY <1>4, <1>5 DEF StoreInv, SlotsInv, placed
  <1>9. StoreInv'
    <2>1. SlotsInv'
      BY <1>2, <1>3, <1>7, <1>8 DEF StoreInv, SlotsInv, placed
    <2>2. ASSUME BooksInv
          PROVE  BooksInv'
      BY <1>2, <1>3, <2>2 DEF BooksInv, fulfillable
    <2> QED
      BY <2>1, <2>2, Zenon DEF StoreInv
  <1>10. requestsKept
    BY <1>1, <1>2, <1>5, <1>6 DEF requestsKept, StoreInv, SlotsInv, placed, RequestTypeOK, MintRequest
  <1> QED
    BY <1>9, <1>10

\* A random word changes one request, and settles it.
LEMMA CallbackStore ==
    ASSUME TypeOK, StoreInv, NEW id \in RequestIds, NEW randomNumber \in RandomWords,
           rawFulfillRandomness(id, randomNumber)
    PROVE  StoreInv' /\ requestsKept
  <1>1. RequestTypeOK
    BY TypeParts
  <1>2. UNCHANGED <<freeRequests, freeRequestCount, nonces, coordNonces>>
    BY DEF rawFulfillRandomness, takeCallback, mockCallback, vrfVars
  <1>3. \A i \in RequestIds :
            mintRequests'[i] = IF i = id /\ fulfillable(id)
                               THEN [mintRequests[i] EXCEPT !.randomNumber = randomNumber]
                               ELSE mintRequests[i]
    BY <1>1 DEF rawFulfillRandomness, fulfillRandomness, RequestTypeOK
  <1>4. \A i \in RequestIds : mintRequests'[i].requester = mintRequests[i].requester
    BY <1>1, <1>3 DEF RequestTypeOK, MintRequest
  <1>5. \A i \in RequestIds : ~placed(mintRequests[i])' => mintRequests'[i] = NoRequest(0)
    BY <1>3, <1>4 DEF StoreInv, SlotsInv, placed, fulfillable
  <1>6. ASSUME ~MockCoordinator
        PROVE  BooksInv'
    <2>1. callbacks' = callbacks \ {id}
      BY <1>6, Zenon DEF rawFulfillRandomness, takeCallback, mockCallback
    <2>2. BooksInv
      BY <1>6, Zenon DEF StoreInv
    <2> QED
      BY <1>2, <1>3, <2>1, <2>2 DEF BooksInv, fulfillable
  <1>7. StoreInv'
    <2>1. SlotsInv'
      BY <1>2, <1>4, <1>5 DEF StoreInv, SlotsInv, placed
    <2> QED
      BY <1>6, <2>1, Zenon DEF StoreInv
  <1>8. requestsKept
    BY <1>1, <1>2, <1>3 DEF requestsKept, fulfillable, RequestTypeOK, MintRequest
  <1> QED
    BY <1>7, <1>8

\* Other steps make no request and no callback.
LEMMA OtherStepBooks == OtherStep => UNCHANGED <<nonces, coordNonces, callbacks>>
  BY DEF OtherStep, OwnerStep, setPortraitSaleWindow, setFreeMintLimitPerTx, setTreasury,
         setPortraitMintInfo, setAccessoryMintInfo, withdraw, passOwnership, notConfig,
         FundMinterWithLink, FundLink, NextBlock, vars, vrfVars

\* Every step keeps what is stored, but for a random number drawn once.
LEMMA StoreStep == TypeOK /\ StoreInv /\ [Next]_vars => StoreInv' /\ [requestsKept]_vars
  <1> SUFFICES ASSUME TypeOK, StoreInv, [Next]_vars
               PROVE  StoreInv' /\ requestsKept
    OBVIOUS
  <1>1. CASE UserStep
    BY <1>1, PaidMintStore, FreeMintStore DEF UserStep
  <1>2. CASE \E id \in RequestIds : Callback(id)
    BY <1>2, CallbackStore DEF Callback
  <1>3. CASE OtherStep
    <2>1. UNCHANGED <<mintRequests, freeRequests, freeRequestCount, nonces, coordNonces, callbacks>>
      BY <1>3, OtherStepRequests, OtherStepBooks DEF requestVars
    <2>2. StoreInv'
      BY <2>1 DEF StoreInv, SlotsInv, BooksInv, placed, fulfillable
    <2>3. \A id \in RequestIds :
             mintRequests[id] = [mintRequests[id] EXCEPT !.randomNumber = mintRequests[id].randomNumber]
      BY TypeParts DEF RequestTypeOK, MintRequest
    <2>4. requestsKept
      BY <2>1, <2>3 DEF requestsKept
    <2> QED
      BY <2>2, <2>4
  <1> QED
    BY <1>1, <1>2, <1>3 DEF Next, OtherStep

\* Free slots stay empty and the books of Minter and coordinator agree.
LEMMA StoreInvariant == Spec => []StoreInv
  BY StoreStep, InitStore, TypeCorrect, PTL DEF Spec

\* A callback the coordinator owes is never refused.
THEOREM CallbacksAlwaysAccepted == Spec => []CallbacksAreAccepted
  <1>1. StoreInv => CallbacksAreAccepted
    BY DEF StoreInv, BooksInv, CallbacksAreAccepted
  <1> QED
    BY <1>1, StoreInvariant, PTL

\* No step changes a placed request, but for drawing its number once.
THEOREM RequestsStayFinal == Spec => RequestsAreFinal
  BY StoreStep, StoreInvariant, TypeCorrect, PTL DEF Spec, RequestsAreFinal

\* A step that announces nothing, draws no number and removes no request
\* leaves events and numbers in agreement.
LEMMA QuietStep ==
    ASSUME FulfilledOnce, UNCHANGED requestFulfilled,
           \A id \in RequestIds :
               /\ mintRequests'[id].randomNumber = mintRequests[id].randomNumber
               /\ placed(mintRequests[id]) => placed(mintRequests'[id])
    PROVE  FulfilledOnce'
  BY DEF FulfilledOnce, placed

\* Events and numbers stay in agreement: a number is announced when it is
\* written and at no other time.
LEMMA EventStep ==
    ASSUME 0 \notin RandomWords, TypeOK, FulfilledOnce, [Next]_vars
    PROVE  FulfilledOnce'
  <1>1. RequestTypeOK /\ VRFTypeOK
    BY TypeParts
  <1>2. ASSUME NEW user \in Users, NEW cart \in Carts, NEW useSIlv, NEW msgValue, NEW ilvRate,
               paidMint(user, cart, useSIlv, msgValue, ilvRate)
        PROVE  FulfilledOnce'
    <2>1. UNCHANGED requestFulfilled
      BY <1>2 DEF paidMint
    <2>2. /\ requestId \in RequestIds
          /\ isNew(mintRequests'[requestId], user, cart)
          /\ mintRequests'[requestId].randomNumber = mintRequests[requestId].randomNumber
          /\ \A i \in RequestIds : i # requestId => mintRequests'[i] = mintRequests[i]
      BY <1>1, <1>2, PaidMintStores
    <2>3. placed(mintRequests'[requestId])
      BY <2>2, MinterAssumption DEF isNew, placed
    <2> QED
      BY <2>1, <2>2, <2>3, QuietStep
  <1>3. ASSUME NEW id \in RequestIds, NEW randomNumber \in RandomWords,
               rawFulfillRandomness(id, randomNumber)
        PROVE  FulfilledOnce'
    <2>1. CASE fulfillable(id)
      <3>1. /\ requestFulfilled' = [requestFulfilled EXCEPT ![id] = Append(@, randomNumber)]
            /\ mintRequests' = [mintRequests EXCEPT ![id].randomNumber = randomNumber]
        BY <1>3, <2>1 DEF rawFulfillRandomness, fulfillRandomness
      <3>2. /\ placed(mintRequests'[id])
            /\ mintRequests'[id].randomNumber = randomNumber
            /\ \A i \in RequestIds \ {id} : mintRequests'[i] = mintRequests[i]
        BY <1>1, <2>1, <3>1 DEF placed, fulfillable, RequestTypeOK, MintRequest
      <3>3. requestFulfilled[id] = <<>>
        BY <2>1 DEF FulfilledOnce, fulfillable
      <3>4. /\ requestFulfilled'[id] = <<randomNumber>>
            /\ \A i \in RequestIds \ {id} : requestFulfilled'[i] = requestFulfilled[i]
        BY <1>1, <3>1, <3>3 DEF RequestTypeOK
      <3> QED
        BY <1>3, <3>2, <3>4 DEF FulfilledOnce, placed
    <2>2. CASE ~fulfillable(id)
      BY <1>3, <2>2, QuietStep DEF rawFulfillRandomness, fulfillRandomness
    <2> QED
      BY <2>1, <2>2
  <1>4. ASSUME NEW user \in Users, NEW cart \in Carts, freeMint(user, cart)
        PROVE  FulfilledOnce'
    BY <1>4, QuietStep DEF freeMint
  <1>5. CASE OtherStep
    BY <1>5, OtherStepRequests, QuietStep DEF requestVars
  <1> QED
    BY <1>2, <1>3, <1>4, <1>5 DEF Next, UserStep, Callback, OtherStep

\* With random words that are never zero, RequestFulfilled is announced
\* exactly once for each number written, whichever coordinator is used.
THEOREM RequestsFulfilledOnce ==
    ASSUME 0 \notin RandomWords
    PROVE  Spec => []FulfilledOnce
  <1>1. Init => FulfilledOnce
    BY DEF Init, FulfilledOnce, NoRequest
  <1>2. TypeOK /\ FulfilledOnce /\ [Next]_vars => FulfilledOnce'
    BY EventStep
  <1> QED
    BY <1>1, <1>2, TypeCorrect, PTL DEF Spec

-----------------------------------------------------------------------------
(* Money.                                                                  *)

\* No money has come in yet for an id that has not been used, so that a new
\* request changes no amount but its own, and nothing that a withdrawal
\* cannot have seen counts as withdrawn.
MoneyInv ==
    /\ \A id \in RequestIds : id >= nonces => receipts[id] = NoReceipt
    /\ withdrawnUpTo <= nonces
    /\ TakingsAreWithdrawnWhole

\* The requests that have not been withdrawn, and what each brought.
since(id) == {i \in RequestIds : i >= id}
brought(field) == [i \in RequestIds |-> receipts[i][field]]

LEMMA TakingsIsSum ==
    ASSUME NEW field \in {"ether", "sIlv"}
    PROVE  takings(field) = SumOf(brought(field), since(withdrawnUpTo))
  BY TotalIsSum DEF takings, brought, since

LEMMA FiniteSince == ASSUME NEW id PROVE IsFiniteSet(since(id)) /\ since(id) \subseteq RequestIds
  <1>1. IsFiniteSet(RequestIds)
    BY VRFAssumption, FS_Interval DEF RequestIds
  <1>2. since(id) \subseteq RequestIds
    BY DEF since
  <1> QED
    BY <1>1, <1>2, FS_Subset

\* Ids that have no receipt have brought nothing.
LEMMA NothingSince ==
    ASSUME NEW id, \A i \in since(id) : receipts[i] = NoReceipt, NEW field \in {"ether", "sIlv"}
    PROVE  SumOf(brought(field), since(id)) = 0
  <1>1. \A i \in since(id) : brought(field)[i] = 0
    BY FiniteSince DEF brought, NoReceipt
  <1> QED
    BY <1>1, FiniteSince, SumOfZeros

\* A receipt for an id that had none adds its amount to the takings.
LEMMA ReceiptAdds ==
    ASSUME MoneyTypeOK, NEW field \in {"ether", "sIlv"}, NEW id \in since(withdrawnUpTo),
           receipts[id] = NoReceipt, NEW receipt \in Receipt,
           receipts' = [receipts EXCEPT ![id] = receipt], withdrawnUpTo' = withdrawnUpTo
    PROVE  takings(field)' = takings(field) + receipt[field]
  <1> DEFINE before == brought(field)
             after == [i \in RequestIds |-> receipts'[i][field]]
             S == since(withdrawnUpTo)
  <1>1. IsFiniteSet(S) /\ S \subseteq RequestIds /\ id \in S
    BY FiniteSince
  <1>2. \A i \in S : before[i] \in Int
    BY <1>1 DEF MoneyTypeOK, Receipt, brought
  <1>3. before[id] = 0
    BY <1>1 DEF NoReceipt, brought
  <1>4. after[id] = receipt[field] /\ \A i \in S \ {id} : after[i] = before[i]
    BY <1>1 DEF MoneyTypeOK, brought
  <1>5. receipt[field] \in Int
    BY DEF Receipt
  <1>6. takings(field) = SumOf(before, S)
    BY TakingsIsSum
  <1>7. takings(field)' = SumOf(after, S)
    BY TotalIsSum DEF takings, since
  <1> HIDE DEF before, after, S
  <1>8. SumOf(before, S) \in Int
    BY <1>1, <1>2, SumOfInt
  <1>9. SumOf(after, S) = SumOf(before, S) - before[id] + after[id]
    BY <1>1, <1>2, <1>4, <1>5, SumOfChange
  <1> QED
    BY <1>3, <1>4, <1>5, <1>6, <1>7, <1>8, <1>9

\* After deployment nothing has been paid and nothing is held.
LEMMA InitMoney == Init => MoneyInv
  <1> SUFFICES ASSUME Init
               PROVE  MoneyInv
    OBVIOUS
  <1>1. /\ \A id \in RequestIds : receipts[id] = NoReceipt
        /\ withdrawnUpTo = 0 /\ nonces = 0
        /\ etherBalance[Minter] = 0 /\ sIlvBalance[Minter] = 0
    BY MinterAssumption DEF Init, VRFInit, Accounts
  <1>2. \A i \in since(withdrawnUpTo) : receipts[i] = NoReceipt
    BY <1>1, FiniteSince
  <1>3. takings("ether") = 0 /\ takings("sIlv") = 0
    BY <1>2, NothingSince, TakingsIsSum
  <1> QED
    BY <1>1, <1>3 DEF MoneyInv, TakingsAreWithdrawnWhole

\* A paid mint moves what it brought from the user to the Minter and enters
\* it in its receipt.
LEMMA PaidMintMoney ==
    ASSUME TypeOK, MoneyInv, NEW user \in Users, NEW cart \in Carts,
           NEW useSIlv \in BOOLEAN, NEW msgValue \in MsgValues, NEW ilvRate \in IlvRates,
           paidMint(user, cart, useSIlv, msgValue, ilvRate)
    PROVE  MoneyInv'
  <1> DEFINE etherPrice == EtherPrice(cart, portraitMintInfo, accessoryMintInfo)
             tokenAmount == IF etherPrice # 0 /\ useSIlv THEN etherPrice * ilvRate ELSE 0
             receipt == [owed |-> etherPrice, useSIlv |-> useSIlv, ether |-> msgValue, sIlv |-> tokenAmount]
  <1>1. VRFTypeOK /\ MoneyTypeOK /\ ConfigTypeOK
    BY TypeParts
  <1>2. /\ requestRandomness
        /\ etherBalance' = transfer(etherBalance, user, Minter, msgValue)
        /\ sIlvBalance' = transfer(sIlvBalance, user, Minter, tokenAmount)
        /\ receipts' = [receipts EXCEPT ![requestId] = receipt]
        /\ withdrawnUpTo' = withdrawnUpTo
    BY DEF paidMint
  <1>3. requestId \in RequestIds
    BY <1>1, <1>2, RequestType
  <1>4. etherPrice \in Nat
    BY <1>1, CartPrice DEF ConfigTypeOK
  <1>5. tokenAmount \in Nat /\ msgValue \in Nat
    BY <1>4, MinterAssumption
  <1>6. receipt \in Receipt /\ receipt["ether"] = msgValue /\ receipt["sIlv"] = tokenAmount
    BY <1>4, <1>5 DEF Receipt
  <1>7. nonces \in Nat /\ requestId = nonces /\ nonces' = nonces + 1 /\ withdrawnUpTo \in Nat
    BY <1>1, <1>2, VRFAssumption DEF VRFTypeOK, MoneyTypeOK, requestRandomness, requestId
  <1> HIDE DEF etherPrice, tokenAmount, receipt
  <1>8. receipts[requestId] = NoReceipt /\ requestId \in since(withdrawnUpTo)
    BY <1>3, <1>7 DEF MoneyInv, since
  <1>9. /\ etherBalance'[Minter] = etherBalance[Minter] + msgValue
        /\ sIlvBalance'[Minter] = sIlvBalance[Minter] + tokenAmount
    <2>1. Minter \in Accounts /\ user \in Accounts /\ user # Minter
      BY MinterAssumption DEF Accounts
    <2> QED
      BY <1>1, <1>2, <2>1 DEF MoneyTypeOK, transfer
  <1>10. /\ takings("ether")' = takings("ether") + msgValue
         /\ takings("sIlv")' = takings("sIlv") + tokenAmount
    BY <1>1, <1>2, <1>6, <1>8, ReceiptAdds
  <1>11. \A id \in RequestIds : id >= nonces' => receipts'[id] = NoReceipt
    <2>1. \A id \in RequestIds : id >= nonces' => id \in Int /\ id # requestId /\ id >= nonces
      BY <1>7, VRFAssumption DEF RequestIds
    <2> QED
      BY <1>1, <1>2, <2>1 DEF MoneyInv, MoneyTypeOK
  <1>12. withdrawnUpTo' <= nonces'
    BY <1>2, <1>7 DEF MoneyInv
  <1> QED
    BY <1>9, <1>10, <1>11, <1>12 DEF MoneyInv, TakingsAreWithdrawnWhole

\* A withdrawal takes everything out, unless the Minter is its own treasury:
\* then it holds no ether, and the sILV stays where it is.
LEMMA WithdrawMoney ==
    ASSUME TypeOK, MoneyInv, withdraw
    PROVE  MoneyInv'
  <1>1. MoneyTypeOK /\ ConfigTypeOK /\ VRFTypeOK
    BY TypeParts
  <1>2. /\ etherBalance' = transfer(etherBalance, Minter, treasury, etherBalance[Minter])
        /\ sIlvBalance' = transfer(sIlvBalance, Minter, treasury, sIlvBalance[Minter])
        /\ withdrawnUpTo' = IF treasury = Minter THEN withdrawnUpTo ELSE nonces
        /\ receipts' = receipts /\ nonces' = nonces
    BY DEF withdraw, noteWithdrawal, vrfVars
  <1>3. Minter \in Accounts /\ treasury \in Accounts
    BY <1>1 DEF ConfigTypeOK, Accounts
  <1>4. etherBalance[Minter] \in Nat /\ sIlvBalance[Minter] \in Nat /\ nonces \in Nat
    BY <1>1, <1>3, VRFAssumption DEF MoneyTypeOK, VRFTypeOK
  <1>5. CASE treasury = Minter
    <2>1. etherBalance'[Minter] = etherBalance[Minter] /\ sIlvBalance'[Minter] = sIlvBalance[Minter]
      BY <1>1, <1>2, <1>3, <1>4, <1>5 DEF transfer, MoneyTypeOK
    <2>2. takings("ether")' = takings("ether") /\ takings("sIlv")' = takings("sIlv")
      BY <1>2, <1>5 DEF takings
    <2> QED
      BY <1>2, <1>5, <2>1, <2>2 DEF MoneyInv, TakingsAreWithdrawnWhole
  <1>6. CASE treasury # Minter
    <2>1. etherBalance'[Minter] = 0 /\ sIlvBalance'[Minter] = 0
      BY <1>1, <1>2, <1>3, <1>4, <1>6 DEF transfer, MoneyTypeOK
    <2>2. withdrawnUpTo' = nonces
      BY <1>2, <1>6
    <2>3. \A i \in since(nonces) : receipts[i] = NoReceipt
      BY DEF MoneyInv, since
    <2>4. \A field \in {"ether", "sIlv"} : takings(field)' = SumOf(brought(field), since(nonces))
      BY <1>2, <2>2, TotalIsSum DEF takings, brought, since
    <2>5. takings("ether")' = 0 /\ takings("sIlv")' = 0
      BY <2>3, <2>4, NothingSince
    <2> QED
      BY <1>2, <1>4, <2>1, <2>2, <2>5 DEF MoneyInv, TakingsAreWithdrawnWhole
  <1> QED
    BY <1>5, <1>6

\* No other step moves money or makes a request.
LEMMA OtherStepMoney ==
    ASSUME \/ \E user \in Users, cart \in Carts : freeMint(user, cart)
           \/ \E id \in RequestIds : Callback(id)
           \/ OwnerStep /\ ~withdraw
           \/ FundMinterWithLink
           \/ NextBlock
           \/ UNCHANGED vars
    PROVE  UNCHANGED <<moneyVars, nonces>>
  BY DEF freeMint, Callback, rawFulfillRandomness, takeCallback, mockCallback, OwnerStep,
         setPortraitSaleWindow, setFreeMintLimitPerTx, setTreasury, setPortraitMintInfo,
         setAccessoryMintInfo, passOwnership, notConfig, FundMinterWithLink, FundLink, NextBlock,
         vars, moneyVars, vrfVars

LEMMA MoneyStep == TypeOK /\ MoneyInv /\ [Next]_vars => MoneyInv'
  <1> SUFFICES ASSUME TypeOK, MoneyInv, [Next]_vars
               PROVE  MoneyInv'
    OBVIOUS
  <1>1. ASSUME UNCHANGED <<moneyVars, nonces>>
        PROVE  MoneyInv'
    BY <1>1 DEF MoneyInv, TakingsAreWithdrawnWhole, moneyVars, takings
  <1>2. CASE UserStep
    BY <1>1, <1>2, PaidMintMoney, OtherStepMoney DEF UserStep
  <1>3. CASE OwnerStep
    BY <1>1, <1>3, WithdrawMoney, OtherStepMoney
  <1>4. CASE (\E id \in RequestIds : Callback(id)) \/ FundMinterWithLink \/ NextBlock \/ UNCHANGED vars
    BY <1>1, <1>4, OtherStepMoney
  <1> QED
    BY <1>2, <1>3, <1>4 DEF Next

\* Whoever the treasuries are, users or the Minter itself among them, the
\* contract holds what the mints since the last withdrawal brought, and
\* nothing else: a withdrawal leaves neither ether nor sILV behind.
THEOREM TakingsAreAlwaysWithdrawnWhole == Spec => []TakingsAreWithdrawnWhole
  <1>1. MoneyInv => TakingsAreWithdrawnWhole
    BY DEF MoneyInv
  <1> QED
    BY <1>1, InitMoney, MoneyStep, TypeCorrect, PTL DEF Spec

-----------------------------------------------------------------------------
(* Refinement.                                                             *)

\* The order a request stands for.
LEMMA OrderFields ==
    ASSUME NEW r, NEW seed
    PROVE  /\ asOrder(r, seed).owner = r.requester
           /\ asOrder(r, seed).portraitIds = portraitIds(r)
           /\ asOrder(r, seed).accessoryIds = accessoryIds(r)
           /\ asOrder(r, seed).seed = seed
  BY DEF asOrder

\* The orders, by the kind of request they stand for.
LEMMA OrderOf ==
    ASSUME NEW paid, NEW free
    PROVE  /\ \A id \in RequestIds :
               /\ <<"paid", id>> \in Orders
               /\ ordersOf(paid, free)[<<"paid", id>>] = asOrder(paid[id], seedOf(paid[id]))
           /\ \A i \in FreeIds :
               /\ <<"free", i>> \in Orders
               /\ ordersOf(paid, free)[<<"free", i>>] = asOrder(free[i], free[i].randomNumber)
           /\ \A o \in Orders :
               (\E id \in RequestIds : o = <<"paid", id>>) \/ (\E i \in FreeIds : o = <<"free", i>>)
  <1>1. ASSUME NEW id \in RequestIds
        PROVE  /\ <<"paid", id>> \in Orders
               /\ ordersOf(paid, free)[<<"paid", id>>] = asOrder(paid[id], seedOf(paid[id]))
    <2> DEFINE o == <<"paid", id>>
    <2>1. o \in Orders /\ o[1] = "paid" /\ o[2] = id
      BY DEF Orders
    <2> QED
      BY <2>1 DEF ordersOf
  <1>2. ASSUME NEW i \in FreeIds
        PROVE  /\ <<"free", i>> \in Orders
               /\ ordersOf(paid, free)[<<"free", i>>] = asOrder(free[i], free[i].randomNumber)
    <2> DEFINE o == <<"free", i>>
    <2>1. o \in Orders /\ o[1] = "free" /\ o[2] = i
      BY DEF Orders
    <2> QED
      BY <2>1 DEF ordersOf
  <1>3. \A o \in Orders :
            (\E id \in RequestIds : o = <<"paid", id>>) \/ (\E i \in FreeIds : o = <<"free", i>>)
    BY DEF Orders
  <1> QED
    BY <1>1, <1>2, <1>3

\* The initial state maps to one of the service.
LEMMA InitRefines == Init => Service!Init
  <1> SUFFICES ASSUME Init, NEW o \in Orders
               PROVE  /\ orders[o].owner = NoAddress
                      /\ orders[o].portraitIds = {}
                      /\ orders[o].accessoryIds = {}
                      /\ orders[o].seed = <<>>
    BY DEF Service!Init
  <1>1. ASSUME NEW noSeed
        PROVE  LET r == NoRequest(noSeed)
               IN  /\ r.requester = NoAddress /\ r.randomNumber = noSeed
                   /\ portraitIds(r) = {} /\ accessoryIds(r) = {}
    BY DEF NoRequest, portraitIds, accessoryIds, PORTRAIT_MASK
  <1>2. \A id \in RequestIds : mintRequests[id] = NoRequest(0)
    BY DEF Init
  <1>3. \A i \in FreeIds : freeRequests[i] = NoRequest(<<>>)
    BY DEF Init, NoFreeSeed
  <1>4. ASSUME NEW id \in RequestIds, o = <<"paid", id>>
        PROVE  orders[o] = asOrder(NoRequest(0), <<>>)
    <2>1. orders[o] = asOrder(mintRequests[id], seedOf(mintRequests[id]))
      BY <1>4, OrderOf DEF orders
    <2>2. mintRequests[id] = NoRequest(0)
      BY <1>2
    <2>3. seedOf(NoRequest(0)) = <<>>
      BY <1>1 DEF seedOf
    <2> QED
      BY <2>1, <2>2, <2>3
  <1>5. ASSUME NEW i \in FreeIds, o = <<"free", i>>
        PROVE  orders[o] = asOrder(NoRequest(<<>>), <<>>)
    BY <1>1, <1>3, <1>5, OrderOf DEF orders
  <1> QED
    BY <1>1, <1>4, <1>5, OrderOf, OrderFields

\* A request stored in a slot that was free, with ids apart from those of
\* every other request, is an order placed.
LEMMA StoringPlaces ==
    ASSUME NEW o \in Orders,
           orders[o].owner = NoAddress,
           orders'[o].owner # NoAddress,
           \A q \in Orders \ {o} :
               /\ orders'[q] = orders[q]
               /\ orders'[o].portraitIds \cap orders[q].portraitIds = {}
               /\ orders'[o].accessoryIds \cap orders[q].accessoryIds = {}
    PROVE  Service!Next
  BY DEF Service!Next, Service!Place, Service!Placed, Service!OthersUnchanged

\* A paid mint places an order.
LEMMA PaidMintRefines ==
    ASSUME TypeOK, TokenInv, NEW user \in Users, NEW cart \in Carts, NEW useSIlv \in BOOLEAN,
           NEW msgValue \in MsgValues, NEW ilvRate \in IlvRates,
           paidMint(user, cart, useSIlv, msgValue, ilvRate)
    PROVE  Service!Next
  <1> DEFINE new == mintRequests'[requestId]
  <1>1. RequestTypeOK /\ VRFTypeOK
    BY TypeParts
  <1>2. /\ isNew(new, user, cart)
        /\ mintRequests[requestId].requester = NoAddress
        /\ \A i \in RequestIds : i # requestId => mintRequests'[i] = mintRequests[i]
        /\ freeRequests' = freeRequests
        /\ reserveTokenIds(cart)
        /\ requestId \in RequestIds
    BY <1>1, PaidMintStores
  <1>3. PICK id \in RequestIds : id = requestId
    BY <1>2
  <1>4. \A i \in RequestIds : mintRequests'[i] = IF i = id THEN new ELSE mintRequests[i]
    BY <1>2, <1>3
  <1>5. new.requester # NoAddress
    BY <1>2, MinterAssumption DEF isNew
  <1>6. /\ \A i \in RequestIds : shareNoTokenId(new, mintRequests[i])
        /\ \A j \in FreeIds : shareNoTokenId(new, freeRequests[j])
    BY <1>1, <1>2, NewRequestIsApart, Footprints, ApartDisjoint DEF TokenInv
  <1> HIDE DEF new
  <1> DEFINE o == <<"paid", id>>
  <1>7. /\ o \in Orders
        /\ orders[o].owner = NoAddress
        /\ orders'[o] = asOrder(new, seedOf(new))
    <2>1. /\ o \in Orders
          /\ orders[o] = asOrder(mintRequests[id], seedOf(mintRequests[id]))
          /\ orders'[o] = asOrder(mintRequests'[id], seedOf(mintRequests'[id]))
      BY <1>3, OrderOf DEF orders
    <2>2. mintRequests'[id] = new
      BY <1>3, <1>4
    <2>3. mintRequests[id].requester = NoAddress
      BY <1>2, <1>3
    <2> QED
      BY <2>1, <2>2, <2>3, OrderFields
  <1>8. ASSUME NEW q \in Orders \ {o}
        PROVE  /\ orders'[q] = orders[q]
               /\ orders'[o].portraitIds \cap orders[q].portraitIds = {}
               /\ orders'[o].accessoryIds \cap orders[q].accessoryIds = {}
    <2>1. ASSUME NEW i \in RequestIds, q = <<"paid", i>>
          PROVE  /\ orders'[q] = orders[q]
                 /\ orders[q].portraitIds = portraitIds(mintRequests[i])
                 /\ orders[q].accessoryIds = accessoryIds(mintRequests[i])
      BY <1>4, <1>8, <2>1, OrderOf, OrderFields DEF orders
    <2>2. ASSUME NEW j \in FreeIds, q = <<"free", j>>
          PROVE  /\ orders'[q] = orders[q]
                 /\ orders[q].portraitIds = portraitIds(freeRequests[j])
                 /\ orders[q].accessoryIds = accessoryIds(freeRequests[j])
      BY <1>2, <2>2, OrderOf, OrderFields DEF orders
    <2> QED
      BY <1>6, <1>7, <2>1, <2>2, OrderOf, OrderFields DEF shareNoTokenId
  <1> QED
    BY <1>5, <1>7, <1>8, OrderFields, StoringPlaces

\* A free mint places an order and draws its seed with it.
LEMMA FreeMintRefines ==
    ASSUME TypeOK, TokenInv, StoreInv, NEW user \in Users, NEW cart \in Carts,
           freeMint(user, cart)
    PROVE  Service!Next
  <1> DEFINE new == freeRequests'[freeRequestCount]
  <1>1. RequestTypeOK
    BY TypeParts
  <1>2. /\ isNew(new, user, cart)
        /\ \A i \in FreeIds : i # freeRequestCount => freeRequests'[i] = freeRequests[i]
        /\ freeRequestCount \in FreeIds
        /\ mintRequests' = mintRequests
        /\ reserveTokenIds(cart)
    BY <1>1, FreeMintStores
  <1>3. PICK id \in FreeIds : id = freeRequestCount
    BY <1>2
  <1>4. \A i \in FreeIds : freeRequests'[i] = IF i = id THEN new ELSE freeRequests[i]
    BY <1>2, <1>3
  <1>5. new.requester # NoAddress /\ freeRequests[id].requester = NoAddress
    BY <1>1, <1>2, <1>3, MinterAssumption DEF isNew, StoreInv, SlotsInv, placed, RequestTypeOK
  <1>6. /\ \A i \in RequestIds : shareNoTokenId(new, mintRequests[i])
        /\ \A j \in FreeIds : shareNoTokenId(new, freeRequests[j])
    BY <1>1, <1>2, NewRequestIsApart, Footprints, ApartDisjoint DEF TokenInv
  <1> HIDE DEF new
  <1> DEFINE o == <<"free", id>>
  <1>7. /\ o \in Orders
        /\ orders[o].owner = NoAddress
        /\ orders'[o] = asOrder(new, new.randomNumber)
    BY <1>4, <1>5, OrderOf, OrderFields DEF orders
  <1>8. ASSUME NEW q \in Orders \ {o}
        PROVE  /\ orders'[q] = orders[q]
               /\ orders'[o].portraitIds \cap orders[q].portraitIds = {}
               /\ orders'[o].accessoryIds \cap orders[q].accessoryIds = {}
    <2>1. ASSUME NEW i \in RequestIds, q = <<"paid", i>>
          PROVE  /\ orders'[q] = orders[q]
                 /\ orders[q].portraitIds = portraitIds(mintRequests[i])
                 /\ orders[q].accessoryIds = accessoryIds(mintRequests[i])
      BY <1>2, <2>1, OrderOf, OrderFields DEF orders
    <2>2. ASSUME NEW j \in FreeIds, q = <<"free", j>>
          PROVE  /\ orders'[q] = orders[q]
                 /\ orders[q].portraitIds = portraitIds(freeRequests[j])
                 /\ orders[q].accessoryIds = accessoryIds(freeRequests[j])
      BY <1>4, <1>8, <2>2, OrderOf, OrderFields DEF orders
    <2> QED
      BY <1>6, <1>7, <2>1, <2>2, OrderOf, OrderFields DEF shareNoTokenId
  <1> QED
    BY <1>5, <1>7, <1>8, OrderFields, StoringPlaces

\* A callback that is accepted draws the order's seed; one that is refused,
\* or that brings the number zero, changes no order.
LEMMA CallbackRefines ==
    ASSUME TypeOK, StoreInv, NEW id \in RequestIds, NEW randomNumber \in RandomWords,
           rawFulfillRandomness(id, randomNumber)
    PROVE  Service!Next \/ UNCHANGED orders
  <1> DEFINE r == mintRequests[id]
             s == [r EXCEPT !.randomNumber = randomNumber]
             o == <<"paid", id>>
  <1>1. RequestTypeOK /\ freeRequests' = freeRequests
    BY TypeParts DEF rawFulfillRandomness
  <1>2. CASE ~fulfillable(id) \/ randomNumber = 0
    <2>1. mintRequests' = mintRequests
      BY <1>1, <1>2 DEF rawFulfillRandomness, fulfillRandomness, fulfillable, RequestTypeOK, MintRequest
    <2> QED
      BY <1>1, <2>1 DEF orders
  <1>3. CASE fulfillable(id) /\ randomNumber # 0
    <2>1. \A i \in RequestIds : mintRequests'[i] = IF i = id THEN s ELSE mintRequests[i]
      BY <1>1, <1>3 DEF rawFulfillRandomness, fulfillRandomness, RequestTypeOK
    <2>2. /\ o \in Orders
          /\ orders[o] = asOrder(r, <<>>)
          /\ orders'[o] = asOrder(s, seedOf(s))
      <3>1. /\ o \in Orders
            /\ orders[o] = asOrder(mintRequests[id], seedOf(mintRequests[id]))
            /\ orders'[o] = asOrder(mintRequests'[id], seedOf(mintRequests'[id]))
        BY OrderOf DEF orders
      <3>2. mintRequests'[id] = s
        BY <2>1
      <3>3. seedOf(r) = <<>>
        BY <1>3 DEF fulfillable, seedOf
      <3> QED
        BY <3>1, <3>2, <3>3
    <2>3. /\ s.randomNumber = randomNumber /\ s.requester = r.requester /\ s.cart = r.cart
          /\ portraitIds(s) = portraitIds(r) /\ accessoryIds(s) = accessoryIds(r)
      BY <1>1 DEF RequestTypeOK, MintRequest, portraitIds, accessoryIds
    <2>4. seedOf(s) = <<randomNumber>>
      BY <1>3, <2>3 DEF seedOf
    <2>5. /\ orders[o].owner # NoAddress
          /\ orders[o].seed = <<>>
          /\ orders'[o].seed # <<>>
          /\ orders'[o] = [orders[o] EXCEPT !.seed = orders'[o].seed]
      BY <1>3, <2>2, <2>3, <2>4 DEF asOrder, fulfillable
    <2>6. \A q \in Orders \ {o} : orders'[q] = orders[q]
      <3>1. ASSUME NEW i \in RequestIds, <<"paid", i>> # o
            PROVE  orders'[<<"paid", i>>] = orders[<<"paid", i>>]
        BY <2>1, <3>1, OrderOf DEF orders
      <3>2. ASSUME NEW j \in FreeIds
            PROVE  orders'[<<"free", j>>] = orders[<<"free", j>>]
        BY <1>1, OrderOf DEF orders
      <3> QED
        BY <3>1, <3>2, OrderOf
    <2> QED
      BY <2>2, <2>5, <2>6
      DEF Service!Next, Service!Reveal, Service!Placed, Service!OthersUnchanged
  <1> QED
    BY <1>2, <1>3

\* The Minter implements MintService.
THEOREM Refinement == Spec => ImplementsService
  <1>1. TypeOK /\ TokenInv /\ StoreInv /\ [Next]_vars => [Service!Next]_orders
    <2> SUFFICES ASSUME TypeOK, TokenInv, StoreInv, [Next]_vars
                 PROVE  Service!Next \/ UNCHANGED orders
      OBVIOUS
    <2>1. CASE UserStep
      BY <2>1, PaidMintRefines, FreeMintRefines DEF UserStep
    <2>2. CASE \E id \in RequestIds : Callback(id)
      BY <2>2, CallbackRefines DEF Callback
    <2>3. CASE OtherStep
      BY <2>3, OtherStepRequests DEF requestVars, orders
    <2> QED
      BY <2>1, <2>2, <2>3 DEF Next, OtherStep
  <1> QED
    BY <1>1, InitRefines, TypeCorrect, TokenInvariant, StoreInvariant, PTL
    DEF Spec, ImplementsService, Service!Spec
=============================================================================
