------------------------------- MODULE Minter -------------------------------
(***************************************************************************)
(* The Minter contract: paid and free mint requests, the random word that  *)
(* settles a paid one, the money they bring in and the owner's settings.   *)
(*                                                                         *)
(* An action is a transaction: it takes effect as a whole, and one that    *)
(* would revert is simply not enabled.  The exception is the coordinator's *)
(* callback, which uses up the coordinator's record of the request even    *)
(* when the Minter reverts it.                                             *)
(***************************************************************************)
EXTENDS VRFConsumer, MintTraits

CONSTANTS Users,            \* accounts that mint
          Treasuries,       \* accounts the owner may name as treasury
          Owners,           \* accounts that may own the contract
          Minter,           \* the contract's own address
          NoAddress,        \* address(0)
          PaidBoxes,        \* box types Bronze .. Diamond
          Carts,            \* the item lists users send
          PortraitInfos,    \* values setPortraitMintInfo is called with
          AccessoryInfos,   \* values setAccessoryMintInfo is called with
          WindowBounds,     \* timestamps setPortraitSaleWindow is called with
          FreeLimits,       \* limits setFreeMintLimitPerTx is called with
          MsgValues,        \* amounts of ether sent along with paidMint
          IlvRates,         \* sILV for one unit of ether, as the oracle says
          UserFunds,        \* ether and sILV a user starts with
          MaxFree,          \* bound: how many free requests are made
          MaxTime           \* bound: last block timestamp

BoxTypes == PaidBoxes \cup {Virtual}
Accounts == Users \cup Treasuries \cup {Minter}
FreeIds == 0 .. MaxFree - 1

Price(lines, unitPrice) ==
    total([i \in DOMAIN lines |-> lines[i].amount * unitPrice[lines[i].boxType]], DOMAIN lines)

EtherPrice(cart, portraitInfo, accessoryInfo) ==
    LET unit(info, field) == [b \in BoxTypes |-> info[b][field]]
    IN  Price(cart.portraits, unit(portraitInfo, "price"))
        + Price(cart.semiRandom, unit(accessoryInfo, "semiRandomPrice"))
        + Price(cart.fullRandom, unit(accessoryInfo, "randomPrice"))

EmptyCart == [portraits |-> <<>>, semiRandom |-> <<>>, fullRandom |-> <<>>]
NoPortraitInfo == [price |-> 0, tierChances |-> <<0, 0, 0, 0>>, holoProbability |-> 0]
NoAccessoryInfo == [randomPrice |-> 0, semiRandomPrice |-> 0, tierChances |-> <<0, 0, 0, 0>>]
PortraitTables == [BoxTypes -> PortraitInfos \cup {NoPortraitInfo}]
AccessoryTables == [BoxTypes -> AccessoryInfos \cup {NoAccessoryInfo}]

ASSUME MinterAssumption ==
    /\ MaxFree \in Nat /\ MaxTime \in Nat /\ UserFunds \in Nat
    /\ NoAddress \notin Users \cup Treasuries \cup Owners \cup {Minter}
    /\ Minter \notin Users
    /\ Treasuries # {} /\ Owners # {}
    /\ Virtual \notin PaidBoxes
    /\ WindowBounds \subseteq Nat /\ FreeLimits \subseteq Nat
    /\ MsgValues \subseteq Nat /\ IlvRates \subseteq Nat

uint16 == 0 .. 65535

\* The types of what the owner and the users send: amounts are uint64,
\* prices uint256 and the entries of tierChances uint16.
PortraitMintInfo == [price: Nat, tierChances: [1 .. TIER_CHANCE_LEN -> uint16], holoProbability: uint16]
AccessoryMintInfo ==
    [randomPrice: Nat, semiRandomPrice: Nat, tierChances: [1 .. TIER_CHANCE_LEN -> uint16]]
ASSUME TableAssumption ==
    PortraitInfos \subseteq PortraitMintInfo /\ AccessoryInfos \subseteq AccessoryMintInfo

Line == [boxType: BoxTypes, amount: Nat]
SemiRandomLine == [boxType: BoxTypes, accessoryType: 0 .. ACCESSORY_TYPES - 1, amount: Nat]
Cart == [portraits: Seq(Line), semiRandom: Seq(SemiRandomLine), fullRandom: Seq(Line)]
ASSUME CartAssumption == Carts \subseteq Cart

VARIABLES
    owner,
    portraitMintInfo, accessoryMintInfo,
    portraitSaleWindow,
    freePortraitLimitPerTx, freeAccessoryLimitPerTx,
    treasury,
    mintRequests,           \* paid requests by request id
    freeRequests,           \* free requests by index
    freeRequestCount,
    nextPortraitTokenId, nextAccessoryTokenId,
    etherBalance, sIlvBalance,
    now,                    \* block.timestamp
    requestFulfilled,       \* history: the numbers RequestFulfilled announced
    receipts,               \* history: what each paid request cost and brought
    withdrawnUpTo           \* history: requests before this one were withdrawn

configVars == <<portraitMintInfo, accessoryMintInfo, portraitSaleWindow,
                freePortraitLimitPerTx, freeAccessoryLimitPerTx, treasury>>
requestVars == <<mintRequests, freeRequests, freeRequestCount,
                 nextPortraitTokenId, nextAccessoryTokenId, requestFulfilled>>
moneyVars == <<etherBalance, sIlvBalance, receipts, withdrawnUpTo>>
vars == <<owner, now, configVars, requestVars, moneyVars, vrfVars>>

-----------------------------------------------------------------------------
(* The contents of storage.                                                *)

\* keccak256(count, timestamp) is an injective, never-zero function of its
\* arguments, represented by the pair itself; <<>> stands for zero.
NoFreeSeed == <<>>
FreeSeeds == {NoFreeSeed} \cup (Nat \X Nat)

MintRequest(seeds) ==
    [requester: Users \cup {NoAddress}, cart: Cart,
     portraitAmount: Nat, accessoryAmount: Nat, randomNumber: seeds,
     portraitStartTokenId: Nat, accessoryStartTokenId: Nat]

NoRequest(noSeed) ==
    [requester |-> NoAddress, cart |-> EmptyCart,
     portraitAmount |-> 0, accessoryAmount |-> 0, randomNumber |-> noSeed,
     portraitStartTokenId |-> 0, accessoryStartTokenId |-> 0]

Receipt == [owed: Nat, useSIlv: BOOLEAN, ether: Nat, sIlv: Nat]
NoReceipt == [owed |-> 0, useSIlv |-> FALSE, ether |-> 0, sIlv |-> 0]

TypeOK ==
    /\ VRFTypeOK
    /\ owner \in Owners \cup {NoAddress}
    /\ portraitMintInfo \in PortraitTables
    /\ accessoryMintInfo \in AccessoryTables
    /\ portraitSaleWindow \in [start: Nat, end: Nat]
    /\ freePortraitLimitPerTx \in Nat
    /\ freeAccessoryLimitPerTx \in Nat
    /\ treasury \in Treasuries
    /\ mintRequests \in [RequestIds -> MintRequest(RandomWords \cup {0})]
    /\ freeRequests \in [FreeIds -> MintRequest(FreeSeeds)]
    /\ freeRequestCount \in 0 .. MaxFree
    /\ nextPortraitTokenId \in Nat \ {0}
    /\ nextAccessoryTokenId \in Nat \ {0}
    /\ etherBalance \in [Accounts -> Nat]
    /\ sIlvBalance \in [Accounts -> Nat]
    /\ receipts \in [RequestIds -> Receipt]
    /\ withdrawnUpTo \in 0 .. MaxNonce
    /\ now \in 0 .. MaxTime
    /\ requestFulfilled \in [RequestIds -> Seq(RandomWords)]

Init ==
    /\ VRFInit
    /\ owner \in Owners
    /\ portraitMintInfo = [b \in BoxTypes |-> NoPortraitInfo]
    /\ accessoryMintInfo = [b \in BoxTypes |-> NoAccessoryInfo]
    /\ portraitSaleWindow = [start |-> 0, end |-> 0]
    /\ freePortraitLimitPerTx = 0
    /\ freeAccessoryLimitPerTx = 0
    /\ treasury \in Treasuries
    /\ mintRequests = [id \in RequestIds |-> NoRequest(0)]
    /\ freeRequests = [i \in FreeIds |-> NoRequest(NoFreeSeed)]
    /\ freeRequestCount = 0
    /\ nextPortraitTokenId = 1
    /\ nextAccessoryTokenId = 1
    /\ etherBalance = [a \in Accounts |-> IF a \in Users THEN UserFunds ELSE 0]
    /\ sIlvBalance = [a \in Accounts |-> IF a \in Users THEN UserFunds ELSE 0]
    /\ now = 0
    /\ requestFulfilled = [id \in RequestIds |-> <<>>]
    /\ receipts = [id \in RequestIds |-> NoReceipt]
    /\ withdrawnUpTo = 0

-----------------------------------------------------------------------------
(* Minting.                                                                *)

Lines(cart) ==
    {cart.portraits[i] : i \in DOMAIN cart.portraits}
    \cup {cart.semiRandom[i] : i \in DOMAIN cart.semiRandom}
    \cup {cart.fullRandom[i] : i \in DOMAIN cart.fullRandom}

\* The checks both kinds of request make on every line, and on the time
\* when there are portraits.
validCart(cart, isFree) ==
    /\ \A line \in Lines(cart) :
        /\ line.amount # 0
        /\ isFree <=> line.boxType = Virtual
    /\ cart.portraits # <<>> =>
        now \in portraitSaleWindow.start .. portraitSaleWindow.end

\* What paidMint and freeMint, with _storePortraitRequest and
\* _storeAccessoryRequest, make of the record in a slot: the lines are
\* pushed onto its arrays and its random number is not written.
storedRequest(request, user, cart) ==
    [request EXCEPT
        !.requester = user,
        !.cart = [portraits |-> @.portraits \o cart.portraits,
                  semiRandom |-> @.semiRandom \o cart.semiRandom,
                  fullRandom |-> @.fullRandom \o cart.fullRandom],
        !.portraitAmount = PortraitAmount(cart),
        !.accessoryAmount = AccessoryAmount(cart),
        !.portraitStartTokenId = nextPortraitTokenId,
        !.accessoryStartTokenId = nextAccessoryTokenId]

\* Mutants of reserveTokenIds: one id for each portrait, not PORTRAIT_MASK;
\* fully random accessories forgotten.
reserveOneIdPerPortrait(cart) ==
    /\ nextPortraitTokenId' = nextPortraitTokenId + PortraitAmount(cart)
    /\ nextAccessoryTokenId' = nextAccessoryTokenId + AccessoryAmount(cart)
reserveSemiRandomOnly(cart) ==
    /\ nextPortraitTokenId' = nextPortraitTokenId + PORTRAIT_MASK * PortraitAmount(cart)
    /\ nextAccessoryTokenId' = nextAccessoryTokenId + Amount(cart.semiRandom)

reserveTokenIds(cart) ==
    /\ nextPortraitTokenId' = nextPortraitTokenId + PORTRAIT_MASK * PortraitAmount(cart)
    /\ nextAccessoryTokenId' = nextAccessoryTokenId + AccessoryAmount(cart)

\* What the EVM and an ERC-20 token do with balances.
transfer(balance, from, to, amount) ==
    [balance EXCEPT ![from] = @ - amount, ![to] = @ + amount]

\* msg.value is kept whatever the price; only the sILV price is collected.
paidMint(user, cart, useSIlv, msgValue, ilvRate) ==
    LET etherPrice == EtherPrice(cart, portraitMintInfo, accessoryMintInfo)
        tokenAmount == IF etherPrice # 0 /\ useSIlv THEN etherPrice * ilvRate ELSE 0
    IN  /\ requestRandomness
        /\ mintRequests[requestId].requester = NoAddress
        /\ validCart(cart, FALSE)
        /\ msgValue <= etherBalance[user]
        /\ tokenAmount <= sIlvBalance[user]
        /\ mintRequests' = [mintRequests EXCEPT ![requestId] = storedRequest(@, user, cart)]
        /\ reserveTokenIds(cart)
        /\ etherBalance' = transfer(etherBalance, user, Minter, msgValue)
        /\ sIlvBalance' = transfer(sIlvBalance, user, Minter, tokenAmount)
        /\ receipts' = [receipts EXCEPT ![requestId] =
                [owed |-> etherPrice, useSIlv |-> useSIlv, ether |-> msgValue, sIlv |-> tokenAmount]]
        /\ UNCHANGED <<owner, now, configVars, freeRequests, freeRequestCount, requestFulfilled,
                       withdrawnUpTo>>

freeMint(user, cart) ==
    /\ freeRequestCount < MaxFree
    /\ validCart(cart, TRUE)
    /\ PortraitAmount(cart) <= freePortraitLimitPerTx
    /\ AccessoryAmount(cart) <= freeAccessoryLimitPerTx
    /\ freeRequests' = [freeRequests EXCEPT ![freeRequestCount] =
            [storedRequest(@, user, cart) EXCEPT !.randomNumber = <<freeRequestCount + 1, now>>]]
    /\ reserveTokenIds(cart)
    /\ freeRequestCount' = freeRequestCount + 1
    /\ UNCHANGED <<owner, now, configVars, mintRequests, requestFulfilled, moneyVars, vrfVars>>

-----------------------------------------------------------------------------
(* The random word arrives.                                                *)

\* Mutant of fulfillable: a number that is there already is not looked at.
requestKnown(id) == mintRequests[id].requester # NoAddress

fulfillable(id) ==
    /\ mintRequests[id].requester # NoAddress
    /\ mintRequests[id].randomNumber = 0

fulfillRandomness(id, randomNumber) ==
    IF fulfillable(id)
    THEN /\ mintRequests' = [mintRequests EXCEPT ![id].randomNumber = randomNumber]
         /\ requestFulfilled' = [requestFulfilled EXCEPT ![id] = Append(@, randomNumber)]
    ELSE UNCHANGED <<mintRequests, requestFulfilled>>

rawFulfillRandomness(id, randomNumber) ==
    /\ takeCallback(id) \/ mockCallback
    /\ fulfillRandomness(id, randomNumber)
    /\ UNCHANGED <<owner, now, configVars, moneyVars, freeRequests, freeRequestCount,
                   nextPortraitTokenId, nextAccessoryTokenId>>

-----------------------------------------------------------------------------
(* The owner's transactions.                                               *)

onlyOwner == owner # NoAddress
notConfig == UNCHANGED <<owner, now, requestVars, moneyVars, vrfVars>>

setPortraitSaleWindow(start, end) ==
    /\ onlyOwner
    /\ start < end
    /\ portraitSaleWindow' = [start |-> start, end |-> end]
    /\ notConfig
    /\ UNCHANGED <<portraitMintInfo, accessoryMintInfo, freePortraitLimitPerTx,
                   freeAccessoryLimitPerTx, treasury>>

setFreeMintLimitPerTx(portraitLimit, accessoryLimit) ==
    /\ onlyOwner
    /\ freePortraitLimitPerTx' = portraitLimit
    /\ freeAccessoryLimitPerTx' = accessoryLimit
    /\ notConfig
    /\ UNCHANGED <<portraitMintInfo, accessoryMintInfo, portraitSaleWindow, treasury>>

\* Mutant of setTreasury: address(0) is accepted.
setTreasuryUnchecked(account) ==
    /\ onlyOwner
    /\ treasury' = account
    /\ notConfig
    /\ UNCHANGED <<portraitMintInfo, accessoryMintInfo, portraitSaleWindow,
                   freePortraitLimitPerTx, freeAccessoryLimitPerTx>>

setTreasury(account) ==
    /\ onlyOwner
    /\ account # NoAddress
    /\ treasury' = account
    /\ notConfig
    /\ UNCHANGED <<portraitMintInfo, accessoryMintInfo, portraitSaleWindow,
                   freePortraitLimitPerTx, freeAccessoryLimitPerTx>>

setPortraitMintInfo(boxType, info) ==
    /\ onlyOwner
    /\ boxType # Virtual
    /\ validTierChances(info.tierChances)
    /\ portraitMintInfo' = [portraitMintInfo EXCEPT ![boxType] = info]
    /\ notConfig
    /\ UNCHANGED <<accessoryMintInfo, portraitSaleWindow, freePortraitLimitPerTx,
                   freeAccessoryLimitPerTx, treasury>>

setAccessoryMintInfo(boxType, info) ==
    /\ onlyOwner
    /\ boxType # Virtual
    /\ validTierChances(info.tierChances)
    /\ accessoryMintInfo' = [accessoryMintInfo EXCEPT ![boxType] = info]
    /\ notConfig
    /\ UNCHANGED <<portraitMintInfo, portraitSaleWindow, freePortraitLimitPerTx,
                   freeAccessoryLimitPerTx, treasury>>

\* The owner may name the Minter itself as treasury.  It refuses ether that
\* comes without a mint, and a transaction whose transfer of ether the
\* treasury refuses reverts.
etherIsAccepted == treasury = Minter => etherBalance[Minter] = 0
noteWithdrawal == withdrawnUpTo' = IF treasury = Minter THEN withdrawnUpTo ELSE nonces

\* Mutant of withdraw: sILV is only looked at when there is ether.
withdrawNested ==
    /\ onlyOwner
    /\ etherIsAccepted
    /\ etherBalance' = transfer(etherBalance, Minter, treasury, etherBalance[Minter])
    /\ sIlvBalance' = IF etherBalance[Minter] = 0 THEN sIlvBalance
                      ELSE transfer(sIlvBalance, Minter, treasury, sIlvBalance[Minter])
    /\ noteWithdrawal
    /\ UNCHANGED <<owner, now, configVars, requestVars, receipts, vrfVars>>

withdraw ==
    /\ onlyOwner
    /\ etherIsAccepted
    /\ etherBalance' = transfer(etherBalance, Minter, treasury, etherBalance[Minter])
    /\ sIlvBalance' = transfer(sIlvBalance, Minter, treasury, sIlvBalance[Minter])
    /\ noteWithdrawal
    /\ UNCHANGED <<owner, now, configVars, requestVars, receipts, vrfVars>>

\* OwnableUpgradeable: transferOwnership and renounceOwnership.
passOwnership(newOwner) ==
    /\ onlyOwner
    /\ owner' = newOwner
    /\ UNCHANGED <<now, configVars, requestVars, moneyVars, vrfVars>>

-----------------------------------------------------------------------------
(* The chain, and the specification.                                       *)

NextBlock ==
    /\ now < MaxTime
    /\ now' = now + 1
    /\ UNCHANGED <<owner, configVars, requestVars, moneyVars, vrfVars>>

FundMinterWithLink ==
    /\ \E amount \in 1 .. MaxLink : FundLink(amount)
    /\ UNCHANGED <<owner, now, configVars, requestVars, moneyVars>>

UserStep ==
    \E user \in Users, cart \in Carts :
        \/ \E useSIlv \in BOOLEAN, msgValue \in MsgValues, ilvRate \in IlvRates :
              paidMint(user, cart, useSIlv, msgValue, ilvRate)
        \/ freeMint(user, cart)

Callback(id) == \E randomNumber \in RandomWords : rawFulfillRandomness(id, randomNumber)

OwnerStep ==
    \/ \E start, end \in WindowBounds : setPortraitSaleWindow(start, end)
    \/ \E portraitLimit, accessoryLimit \in FreeLimits :
          setFreeMintLimitPerTx(portraitLimit, accessoryLimit)
    \/ \E account \in Treasuries \cup {NoAddress} : setTreasury(account)
    \/ \E boxType \in BoxTypes, info \in PortraitInfos : setPortraitMintInfo(boxType, info)
    \/ \E boxType \in BoxTypes, info \in AccessoryInfos : setAccessoryMintInfo(boxType, info)
    \/ withdraw
    \/ \E newOwner \in Owners \cup {NoAddress} : passOwnership(newOwner)

Next ==
    \/ UserStep
    \/ OwnerStep
    \/ \E id \in RequestIds : Callback(id)
    \/ FundMinterWithLink
    \/ NextBlock

Spec == Init /\ [][Next]_vars

\* A VRF node answers every request the real coordinator accepted.
FairSpec == Spec /\ \A id \in RequestIds : WF_vars(Callback(id))

-----------------------------------------------------------------------------
(* Token ids.                                                              *)

placed(request) == request.requester # NoAddress

portraitIds(request) ==
    request.portraitStartTokenId
        .. request.portraitStartTokenId + PORTRAIT_MASK * request.portraitAmount - 1
accessoryIds(request) ==
    request.accessoryStartTokenId
        .. request.accessoryStartTokenId + request.accessoryAmount - 1

shareNoTokenId(r, s) ==
    /\ portraitIds(r) \cap portraitIds(s) = {}
    /\ accessoryIds(r) \cap accessoryIds(s) = {}

idsAreReserved(request) ==
    /\ portraitIds(request) \subseteq 1 .. nextPortraitTokenId - 1
    /\ accessoryIds(request) \subseteq 1 .. nextAccessoryTokenId - 1
    /\ request.portraitStartTokenId % PORTRAIT_MASK = 1

\* No two requests, paid or free, reserve a common portrait or accessory id,
\* no reserved id is one a later request can still be given, and a portrait
\* always starts a block of PORTRAIT_MASK ids, the other five being its
\* forms with bonded accessories.
TokenIdsExclusive ==
    /\ \A i, j \in RequestIds : i # j => shareNoTokenId(mintRequests[i], mintRequests[j])
    /\ \A i, j \in FreeIds : i # j => shareNoTokenId(freeRequests[i], freeRequests[j])
    /\ \A i \in RequestIds, j \in FreeIds : shareNoTokenId(mintRequests[i], freeRequests[j])
    /\ \A i \in RequestIds : placed(mintRequests[i]) => idsAreReserved(mintRequests[i])
    /\ \A j \in FreeIds : placed(freeRequests[j]) => idsAreReserved(freeRequests[j])

-----------------------------------------------------------------------------
(* Random words.                                                           *)

\* The Minter and the real coordinator count requests alike, so that every
\* callback the coordinator still owes names a request the Minter has
\* stored and not settled: the callback is accepted, never reverted and
\* lost.  Nonces in sync is what the comment in requestRandomness demands.
CallbacksAreAccepted ==
    ~MockCoordinator =>
        /\ coordNonces = nonces
        /\ \A id \in callbacks : fulfillable(id)

requestsKept ==
    /\ \A id \in RequestIds :
        LET r == mintRequests[id]
            s == mintRequests'[id]
        IN  placed(r) => /\ s = [r EXCEPT !.randomNumber = s.randomNumber]
                         /\ r.randomNumber # 0 => s = r
    /\ \A i \in FreeIds : placed(freeRequests[i]) => freeRequests'[i] = freeRequests[i]

\* A placed request never changes but for its random number, and that
\* changes at most once: fulfillRandomness refuses a second word and a
\* later mint never writes over an earlier one.
RequestsAreFinal == [][requestsKept]_vars

\* RequestFulfilled is announced exactly when the number of a placed request
\* is written, once for each, and announces the number the request keeps.
FulfilledOnce ==
    \A id \in RequestIds :
        LET r == mintRequests[id]
        IN  /\ requestFulfilled[id] = IF r.randomNumber = 0 THEN <<>> ELSE <<r.randomNumber>>
            /\ requestFulfilled[id] # <<>> => placed(r)

\* With a coordinator that answers, every paid request gets its number.
PaidRequestsAreSettled ==
    \A id \in RequestIds : placed(mintRequests[id]) ~> mintRequests[id].randomNumber # 0

-----------------------------------------------------------------------------
(* Money.                                                                  *)

\* What the paid mints since the last withdrawal brought.
takings(field) ==
    total([id \in RequestIds |-> receipts[id][field]], {id \in RequestIds : id >= withdrawnUpTo})

\* A withdrawal takes out all the ether and all the sILV that mints brought
\* since the last one, each whether or not there is any of the other, and
\* nothing else takes any out: however mints, withdrawals and changes of
\* treasury follow each other, what the contract holds is what the mints
\* since the last withdrawal brought.
TakingsAreWithdrawnWhole ==
    /\ etherBalance[Minter] = takings("ether")
    /\ sIlvBalance[Minter] = takings("sIlv")

\* What test/Minter.test.ts asks of a mint paid in ether: the ether sent is
\* the price.  paidMint never compares the two.
EtherSentIsThePrice ==
    \A id \in RequestIds :
        placed(mintRequests[id]) /\ ~receipts[id].useSIlv =>
            receipts[id].ether = receipts[id].owed

-----------------------------------------------------------------------------
(* Refinement.                                                             *)

Orders == ({"paid"} \X RequestIds) \cup ({"free"} \X FreeIds)

asOrder(request, seed) ==
    [owner |-> request.requester, items |-> request.cart,
     portraitIds |-> portraitIds(request), accessoryIds |-> accessoryIds(request),
     seed |-> seed]

seedOf(r) == IF r.randomNumber = 0 THEN <<>> ELSE <<r.randomNumber>>

ordersOf(paid, free) ==
    [o \in Orders |->
        IF o[1] = "paid"
        THEN asOrder(paid[o[2]], seedOf(paid[o[2]]))
        ELSE asOrder(free[o[2]], free[o[2]].randomNumber)]

orders == ordersOf(mintRequests, freeRequests)

Service == INSTANCE MintService WITH order <- orders, NoOwner <- NoAddress, NoSeed <- <<>>

\* The Minter implements MintService: orders are placed once, own their
\* token ids and are settled at most once.
ImplementsService == Service!Spec
=============================================================================
