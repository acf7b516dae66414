# Illuvium illuvitars: specifications, model checking and proofs

This directory specifies the contracts of this repository (the Minter with its
Chainlink VRF consumer, the price oracle with its access control, the portrait
and accessory layers), the scripts that put them on a network and onto Immutable
X (IMX), and the scripts that take tokens through IMX and query it. TLC checks
small instances; TLAPS proves the main results for every value of the constants.
`PROJECT.json` lists runs, mutants, findings, hazards and theorems, and maps each
definition to the lines it models.

    tlc -workers 2 -config MCMinterTokens.cfg MCMinter
    tlapm MinterProofs.tla

## The system

| Component | State | Operations | Talks to |
|---|---|---|---|
| Minter (`contracts/protocol/Minter.sol`) | paid and free requests, next token ids, tables of prices and chances, sale window, limits, treasury, its ether and sILV | `paidMint`, `freeMint`, `fulfillRandomness`, `withdraw`, setters, `getPaidMintResult`, `getFreeMintResult` | VRF coordinator (call out, callback later), price oracle and sILV (calls) |
| VRF consumer (`contracts/chainlink`) | nonce per key hash | `requestRandomness`, `rawFulfillRandomness` | LINK token and coordinator, in the same transaction |
| Price oracle (`IlluvitarsPriceOracleV1.sol`) | threshold for old answers | `ethToIlv`, `setOldAnswerThreshold` | Chainlink feed (read) |
| Access control (`UpgradeableAccessControl.sol`) | a role for each address, the implementation | `updateRole`, `updateFeatures`, `upgradeTo` | base of the oracle |
| Layers (`BaseIlluvitar.sol`, `PortraitLayer.sol`, `AccessoryLayer.sol`) | ERC-721 tokens, approvals, operators, metadata, sale marks | `mintFor`, `markForSale`, `approve`, `setApprovalForAll`, `transferFrom` | IMX contract (caller), recipients (called back) |
| IMX scripts (`scripts/imx/common.ts`, `mint.ts`, `prepareWithdraw.ts`, `completeWithdraw.ts`) | none; IMX keeps a status per token | `mint_l2`, `burn`, `prepare_withdraw`, `complete_withdraw` | IMX API, chain |
| Deployment (`deploy/`, `deployment_routines.ts`, `hardhat.config.ts`) | hardhat-deploy's records of what is deployed; transactions that are sent | the four scripts `01` to `04`, run again after a crash or a change of code | chain, hardhat-deploy |
| Onboarding (`scripts/imx/onboarding`, `scripts/imx/config.ts`) | none but `config.ts`, which the operator edits; IMX keeps users, projects, collections, schemas | the five scripts | IMX API, the layers that Deployment recorded |
| IMX queries (`scripts/imx/common.ts`) | none | `get_all_trades`, `get_all_transfers`, `get_mint`, `verify`, `get_owner_of_snapshot_l1`, ... | IMX API, event logs |
| Helpers (`scripts/include/bn_utils.js`, `features_roles.js`) | none | random numbers, drawings, permission sets | the other scripts and the tests |
| Land sale data (`sale_data_utils.js`), mocks | none | | files |

What is hard, and what makes each part right:

- **Minter.** Users, the coordinator and the owner interleave freely between a
  request and its random word. Two counters hand out token ids to two kinds of
  requests, by totals; the getters recompute the ids by stepping, six ids to a
  portrait. Right: no id twice, results use up exactly what was reserved, a
  request is settled at most once, and is settled if the coordinator answers, and
  a withdrawal takes out all of both currencies that came in since the last one.
- **VRF consumer.** Two contracts count requests separately, and the coordinator
  forgets a callback even when the consumer refuses it. Right: the counts agree,
  and an owed callback is acceptable whenever it comes.
- **Tables.** Results depend on cumulated chances that the owner sets. Right:
  every remainder leads to the tier its table says, and to traits that exist.
- **Oracle.** The feed may be late, carry over rounds or answer nonsense. Right:
  no stale price; a timely feed is usable.
- **Access control.** Managers act on each other and on themselves over several
  steps. Right: nobody grants or revokes what it does not have; what everyone
  has lost stays lost.
- **Layers.** A mint calls the recipient half-way and can still fail after that.
  Right: tokens and metadata exist together, and a failed mint leaves nothing.
- **Scripts.** They act on a status that is old by then, and wait for
  transactions that may be mined late or never. Right: no claim too early,
  nothing returned as waited for without a receipt, every script ends.
- **Deployment.** A run can die at any step, is repeated, and meets records of an
  earlier run and transactions still pending. Right: the Minter keeps its address
  unless code has changed, uses the oracle on record, and gets all its tables.
- **Onboarding.** Each script depends on what the one before has left on IMX, but
  learns of it from an answer that may be lost and from a file edited by hand.
  Right: a script that returns has done what it is for, with the project, the
  collection and the schema address that were in the file when it ran.
- **Queries and helpers** are functions of their inputs: off-by-ones of paging and
  rounding. Right: what they return is what their comments and names say.

## Modules

| Module | Models |
|---|---|
| `MintService` | abstract: orders placed once, with token ids of their own, settled at most once |
| `VRFConsumer` | `VRFConsumerBaseUpgradeable`, and the coordinator (real or mock) behind it |
| `MintTraits` | pure operators: chance tables, traits of an item, items of a request |
| `Minter` | the contract: one action per external function; implements `MintService` |
| `MintResult` | `Minter` with the views that compute results |
| `AccessControl` | roles as sets of bits |
| `PriceOracle` | the oracle, composed with `AccessControl`, and its feed |
| `Blueprint` | both parsers |
| `IlluvitarLayer` | a layer contract (constant `Layer` says which), with `Blueprint` |
| `ImxWithdrawal` | one token between IMX and the chain, with overlapping script runs |
| `Deployment` | the scripts of `deploy/` as sequences of steps, and hardhat-deploy |
| `Onboarding` | `Deployment` with the onboarding scripts and IMX |
| `BnUtils`, `FeaturesRoles`, `ImxQueries` | pure operators: the helpers and the queries |
| `FunctionChecks` | the portrait parser, the tables of tiers, helpers and queries against what they are for |
| `MC*` | small instances for TLC |
| `*Proofs` | theorems and proofs |
| `DataLemmas` | induction over data, for the proofs: sums, folds, flattened sequences, places |

State and actions carry the names of the code. The choices worth knowing:

- **Transactions.** A transaction is one step, and one that would revert is not
  enabled. Two exceptions keep what a revert does not undo: the coordinator
  drops its record of a callback even when `fulfillRandomness` reverts, so that
  callback is a step that changes `callbacks` only; and a mint of a layer token
  takes two steps, `BeginMint` and `EndMint`, between which only the recipient
  acts; a failing `EndMint` restores what was there at `BeginMint`. (A recipient
  that is a contract can make other holders act inside its callback, too, if these
  are contracts that let it: that is left out, and concerns other tokens only.)
- **Money.** Treasuries are any addresses but zero, users and the Minter itself
  among them. The Minter has neither `receive` nor `fallback`, so a withdrawal of
  ether to itself reverts; ether comes in by `paidMint` only. That nobody sends
  sILV to the Minter but by minting is assumed. `transfer` is the EVM's and the
  token's, not the Minter's, and no property is about it.
- **Request ids** are hashes of key hash and nonce. The key hash never changes,
  and the hash is taken to be injective, so an id is its nonce. A free seed,
  `keccak256(count, timestamp)`, is likewise the pair; 0 is `<<>>`.
- **Random numbers.** An item's traits come from one number that is divided
  again and again. It is represented by the values left at each division,
  so that TLC can put every single draw at an edge of its table. In the code
  the number of an item is the hash of the one before; here every item of a
  result gets the same representative, and the check is over all of them.
- **Free lines** of a cart are priced by a virtual box, which costs nothing.
- **The oracle, seen from the Minter,** is any rate of `IlvRates`, chosen anew
  for each mint. `PriceOracle` says which answers it accepts.
- **Roles** are sets of bits, a role mask is a set, `FULL_PRIVILEGES_MASK` is
  all `Permissions`; the features are the role of the contract's own address.
- **Blueprints** are sequences of digits and of one `Separator`, which stands
  for every other byte. Positions count from 0 as in the code; the largest uint8 and
  the largest uint256 are constants, and what exceeds them reverts.
- **Deployment.** The address of a contract is its position in `chain`, 0 is none.
  A script is the sequence of its steps, a run has the steps of the scripts whose
  tags were asked for `todo`, and an exception ends it. hardhat-deploy deploys
  unless it has the same code and arguments on record under the same name
  (`onRecord`). Between a contract's deployment and its record a run can die
  (`DeployUnrecorded`). `Settings` bundles a network with what is done on it and
  with the bounds, so that one run can check several. Prices are in 10^15 wei.
  Records are empty at first; the ones of Ropsten that the repository has are
  consistently wired, like those a finished run leaves. The treasury, which is the
  deployer, is left out of the arguments: the mnemonic is taken to stay the same,
  another one would give a new Minter like a change of code does. `Deploy` is one
  step with the mining of its transaction, for which hardhat-deploy waits.
- **Onboarding.** A call of IMX works, is refused, or works and loses its answer.
  `EditConfig` is the operator, who between runs copies ids that were logged and
  addresses that are on record, nothing else. The address of the collection and
  that of the schema are copied separately and may differ: nothing compares them,
  and each script is held to its own.
- **Functions.** `FunctionChecks` has no behaviour of the code: its states are the
  inputs, spelled out element by element, and each invariant compares a function
  with a definition of its result. A loop that collects is a fold; a request of a
  page is a pair of cursor and `loop_n_times`. What is drawn is a width and the positions of
  the bars. Pages and mint events are sequences in the order IMX and the chain have;
  transfers carry their token id and come in any order, since the code sorts them.
- **History variables.** `requestFulfilled` has the numbers announced for each
  request, in order, `receipts` what each request cost and brought, `withdrawnUpTo`
  up to which request a withdrawal has taken the money out, and `changed` whose code
  has changed since the Minter on record was deployed; nothing reads them but properties.
- **Abstract actions.** The actions of `MintService` only constrain the next
  order; with `Service == INSTANCE MintService WITH order <- orders`, the
  property `ImplementsService` asks that each step of the Minter places one
  order, settles one, or leaves all of them as they were.

## What the runs check

| Run (module, cfg) | Properties | Bounds | States |
|---|---|---|---|
| `minter_tokens` (`MCMinter`, `MCMinterTokens.cfg`) | `TypeOK`, `TokenIdsExclusive`, `CallbacksAreAccepted`, `ImplementsService`, `PaidRequestsAreSettled` | 2 paid and 2 free requests, 7 carts (every list in use, several lines, nothing, amount zero, mixtures), real coordinator | 374k |
| `minter_money` (`MCMinter`, `MCMinterMoney.cfg`) | `TakingsAreWithdrawnWhole`, `FulfilledOnce`, `RequestsAreFinal` | 2 requests; an account, the user or the Minter as treasury; ether 0 or 1, rates 0 and 2, 2 random words, mock coordinator | 672k |
| `mint_result_items` (`MCMintResult`, `MCMintResultItems.cfg`) | `ResultsFillReservations`, `ResultsAreWhatWasOrdered`, `TraitsExist` | carts of up to 3 lines and 5 accessories, 2 paid box types and the virtual one, 5 random numbers at the edges of the tables | 143k |
| `price_oracle` (`MCPriceOracle`, `MCPriceOracle.cfg`) | `NoStalePrice`, `TimelyFeedIsUsable`, `SplittingSavesLittle`, `ChangesAreAuthorized`, `LostPermissionsStayLost` | 2 senders, 2 permissions, thresholds at both bounds, 2 rounds, open, answered, or with a time an hour ahead, ages 0 to 168 hours in steps that meet 24 and 168 exactly, answers negative, zero and positive; senders and implementations are interchangeable (symmetry) | 279k |
| `functions` (`MCFunctionChecks`, `MCFunctionChecks.cfg`) | `PortraitFieldsAreRead`, `TiersFollowTables`, `AmountsAreDrawnToScale`, `PercentsAreDrawnToScale`, `RandomsAreInRange`, `NotKeepsTheRest`, `PagesAreTheNewest`, `ConsistentMeansEqual`, `SnapshotIsLatestOwner` | blueprints of up to 12 characters, one more than fits, over two digits and a separator, fields of up to 3 digits, some too large; up to 4 amounts out of 9; ranges and draws for a generator of 4 bits; every paging of up to 7 items; every table of entries 0, 1, 4999, 5000, 9999, 10000, 10001; up to 3 mint events and 4 transfers of 2 tokens | 354k |
| `portrait_layer` (`MCIlluvitarLayer`, `MCPortraitLayer.cfg`) | `LayerTypeOK`, `TokensHaveMetadata`, `SaleMarksNeedTokens`, `ApprovalsNeedTokens`, `MetadataIsFinal` | 2 accounts, 2 tokens, 3 blueprints, one of which does not parse | 74k |
| `imx_withdrawal` (`ImxWithdrawal`, `MCImxWithdrawal.cfg`) | `ReceiptsExist`, `ClaimsAreNotEarly`, `ScriptsEnd` | 4 script runs, patience 1 | 84k |
| `rollout` (`MCOnboarding`, `MCOnboarding.cfg`) | `MinterIsWired`, `TablesReachMinter`, `DearerBoxesAreBetter`, `ScriptsDoWhatTheyReturnFor`, `CollectionsCanBeWithdrawn`, `RerunsKeepMinter`, `RunsEnd` | Ropsten: 3 runs of `03` and `04`, 1 change of code, 2 failures; Ropsten: 2 runs of `01` with 2 projects and all onboarding scripts; main network and hardhat: everything once, with one failure | 333k |

Why these bounds are enough: the token-id properties are about pairs of requests
and the request still to come, so two requests of each kind with carts that
differ in every list meet all the cases; the callback properties need one
request settled while another waits; the money property needs a withdrawal that
meets one currency without the other, and a mint after it. A round that is open
or ahead of the block takes one round, one that carries over an answer two. A
blueprint of six fields, one more than the parser reads, takes 11 characters with
one digit each. A claim in vain takes two runs that
complete, one that prepares and one that mints: four. A Minter wired to the
wrong oracle takes one run that fails half-way, a change of code and a second
run; the third run sets tables twice, or sets those of the second Minter. Two
projects are what a lost answer and its repetition make. Rounding is at its edges
with amounts that leave each kind of remainder of 100. In the oracle run
the permission to upgrade and the one to set the threshold are one, which keeps
the roles few; the theorems keep them apart. The theorems cover the rest. Runs say
`CHECK_DEADLOCK FALSE` where the bounds, or a renounced owner and lost roles, or a
finished script, or the longest input, let the model stop; the layer run does not.

The thresholds of the oracle run are among those the code allows, but
`TimelyFeedIsUsable` is about those above 24 hours, which the comment at lines 90-91
asks for: what a lower threshold does is excluded. A blueprint of six fields is
excluded from `PortraitFieldsAreRead`; it has a run of its own (below).
`SnapshotIsLatestOwner` excludes transfers of another token after the last one of the
token that is asked for, where the code returns the wrong owner (below).

**Fairness.** `Minter!FairSpec` has weak fairness of the callback for each
request: the VRF service answers what it was paid for. It is used with the real
coordinator only, and nothing else is assumed: not that the contract has LINK,
not that the owner acts. `ImxWithdrawal!FairSpec` has weak fairness of the steps
of a script that has been started: a process that runs goes on, and a call is
answered or fails. Nothing is assumed of IMX or the chain, so a transaction may
never be mined. `Onboarding!FairSpec` has weak fairness of the steps that a run of
the deployment or onboarding scripts takes by itself, for the same reason. A
deployment that has to be mined is not among them: `deploy` waits for its receipt
without a limit (`deployment_routines.ts:13` and `24`), and the transaction may never be
mined. So a run may hang there, and `RunsEnd` says that it hangs nowhere else: a run
that goes on for ever ends up waiting for such a receipt. Nothing is assumed of
mining, of failures or of the operator.

**Mutants.** Definitions marked `Mutant of ...` are plausible bugs of the
definition after them; each property of a passing run is violated with one of
them in its place.

## Where the code differs from what is said of it

Four runs end in a violation, each of something the repository says:

- `minter_ether`: `paidMint` never compares `msg.value` with the price
  (`Minter.sol:299`); `test/Minter.test.ts:567` expects a revert.
- `background_tiers`: line 860 of `Minter.sol` overwrites the background tier the
  loop has found, so it is 5 for every paid portrait; the tests' reference
  computation (`test/include/illuvitars_mint_results.ts:354`) keeps it.
- `accessory_layer`: `AccessoryLayer` indexes an array of length 2 with 2
  (lines 60-70): no accessory can be minted at all, against the comment at 38 and
  the tests. (`CollectionsCanBeWithdrawn` is about addresses only: of a collection
  of accessories, nothing can be withdrawn for this reason.)
- `portrait_blueprints`: `test/PortraitLayer.test.ts:24-35`, with the blob of
  `test/include/utils.ts:164-178`, mints `{1}:{53,20,31,42,53,68}` and expects success, and
  the comment at `PortraitLayer.sol:44` has the format `a,b,c,d,e,f` with the tier `a`.
  The parser takes one digit for the tier and the rest of that field for the skin,
  so that five fields are all it reads and a sixth makes line 105 revert; a tier of
  one digit followed by a comma fails at line 97.

Met while reading, and in the models as the code has it, without a run: sILV
stays in the Minter until `withdraw`, where `test/Minter.test.ts:326` looks for
it in the treasury; "Price and tier chances are constant" (`Minter.sol:742`,
`751`), but the setters change them, and the results of settled requests with
them; `updateRole`'s comment says that the zero address stands for the features
and the full mask copies a role, which the code does not do; the oracle's
threshold may be set below the 24 hours its comment asks for; `complete_withdraw`
calls a withdrawal successful whatever the receipt's status; and `mint.ts`, `prepareWithdraw.ts` and `completeWithdraw.ts`
import names that `common.ts` and its configuration do not export, so that as
committed each throws at once: `ImxWithdrawal` has them with the imports mended. Further, not all of it in the
models:

- a negative answer of the feed makes `ethToIlv` return zero
  (`IlluvitarsPriceOracleV1.sol:133`), where `PriceOracleSpec.sol:72` demands never to
  return zero; `SplittingSavesLittle` has such answers among its cases;
- the test `value <= holoProbability` (`Minter.sol:880`) gives one chance in 10000 more
  than the setting says, and one even when it is 0;
- the comments of `print_symbol` (`bn_utils.js:139-145`) give "." more than 10 % and
  "+" more than 50 %; the code gives them at most that;
- `draw_amounts` is 100 wide only if the total is a multiple of 100, and
  `draw_percent` is 101 wide for a share that rounds to 0 %;
- `get_owner_of_snapshot_l1` filters by `token_id` (`common.ts:773`), which the event
  calls `tokenId`: the filter is without effect, the events of all tokens are sorted
  together, and the function returns the receiver of whichever token moved last, where
  the comment at 753-759 promises the latest owner of `token_id`;
- `get_all_assets` never sends its cursor (`common.ts:586`), so every page is the first;
- `04_init_Minter` awaits that its transactions are sent, not that they are mined:
  when it returns the Minter may still sell at price zero;
- the hardhat network has no `imxMinter`: `01` and `02` throw there, after having
  deployed the implementation;
- after a change of the Minter's or the oracle's code `03` deploys a new Minter with
  empty state instead of upgrading the old one;
- a project whose creation was answered by nothing stays on IMX, without anyone
  knowing its id;
- `approve_illuvitar_operator` passes a receipt where `getTransaction` takes a hash.

## What is proved

All proofs hold for every value of the constants, under the named assumptions of
the modules (types of the constants, distinct addresses, non-negative prices).

- `MinterProofs!TypeCorrect`: the type invariant, one lemma per kind of step.
- `TokenIdsAreExclusive`: `TokenIdsExclusive` is not inductive: that two sets of ids
  are disjoint does not say that the counters are beyond both. `TokenInv` says
  that every stored request's ids lie below the counters, in whole blocks of six,
  that empty slots reserve nothing, and that of two requests one ends before the
  other starts. `NewRequestIsApart` is the step; `ApartDisjoint` and
  `BelowIsReserved` lead back to the property.
- `CallbacksAlwaysAccepted`: `StoreInv`: exactly the ids below the nonce, and the free
  indices below the count, are stored; consumer and coordinator count alike; each
  owed callback's request is stored and unsettled. It needs the first part to know
  that a new id is not among the old ones.
- `RequestsStayFinal`: each step under `StoreInv` keeps what is stored.
- `RequestsFulfilledOnce`: with `EventInv`, and the assumption that no random word
  is zero. The code takes zero for "no number": with a zero word a fulfilment would be
  announced of a request that has none.
- `Refinement`: `Minter` implements `MintService`. Stores place an order in a free
  slot, with ids apart by `TokenInv`; an accepted callback reveals a seed; all
  other steps stutter.
- `TakingsAreAlwaysWithdrawnWhole`: `TakingsAreWithdrawnWhole` sums over the requests since the
  last withdrawal. `MoneyInv` adds what makes a new receipt count: a request that is
  still to come has none, and withdrawals are only noted up to the requests there are.
  A mint adds one to the sum, a withdrawal empties it, unless the treasury is the
  Minter, which then has no ether and passes sILV to itself. Treasuries are any set.
- `MintResultProofs!TierChancesAreExact`: the tables in storage are always valid
  (`TablesInv`), and in a valid table the first entry above a value is at most k iff
  the value is below entry k. `FunctionChecksProofs!TiersAlwaysFollowTables` says the
  latter of every table the setters let pass, which is what the run checks.
- `ResultsFillTheirReservations`, `ResultsAreAsOrdered`, `TraitsAlwaysExist`: of a result of
  any number of lines and items. `AmountsInv`: the totals stored with a request are
  those of its cart, which the getters rely on when they size their arrays. Then
  `EachItem` counts the items of a flattened list, `BlocksFill` shows that ids that
  step by six, or by one, fill a reserved interval, and `TokenIdsAreExclusive` keeps
  those of two requests apart. Traits exist since `TierRange` bounds the tier, and
  each remainder is taken by the number of what there is to choose from. Assumed of
  carts and tables are their Solidity types only.
- `PriceOracleProofs`: `RolesTypeCorrect`, `OnlyOwnPermissionsChange`,
  `NoPermissionComesBack` (what a step adds, its sender held), of the contract of
  `AccessControl` alone. By `OracleKeepsRoles` they apply to the oracle contract.
- `PriceOracleProofs!PricesAreRecent`, `TimelyFeedSuffices`: from `FeedInv` (the
  threshold is validated; nothing is assumed of the feed's times). The second assumes thresholds above the update interval, which the
  code's comment asks of the managers and the code does not enforce.
- `PriceOracleProofs!SplitPricesAddUp`: `SplittingSavesLittle` for all answers and
  amounts, from the bounds of a quotient (`Quotient`) and that `answer` is an
  integer (`FeedInv`). It needs no sign: a quotient of zero splits like any other.
- `IlluvitarLayerProofs`: `LayerIsTyped`, `MetadataGoesWithTokens`,
  `SaleMarksGoWithTokens`, `ApprovalsGoWithTokens`, `MetadataStays`. That a failed mint
  leaves nothing is not inductive as stated, since inside a mint a token without
  metadata exists. `LayerInv` says of the current state that every token has
  metadata except the one being minted, and the same without exception of the
  state that a revert would bring back (`MintInProgressOK`); what is written in
  between does not touch metadata, which is why both stay true together.
- `ImxWithdrawalProofs`: `NoClaimIsEarly`, `WaitsEndWithReceipts`. `WithdrawalInv` relates
  what each run last read to what is true now: a token that is withdrawable for
  IMX is ready on the chain and stays so, hence an answer "withdrawable", a run
  that is about to claim, and a claim that is sent all mean that it is claimable
  or already on the chain. A stale answer is safe because readiness is never lost
  but to a claim.
- `FunctionChecksProofs`, for inputs of every length and size (an input has the
  Solidity or JavaScript type of its parameter, and the plots that were bought come in
  the order of their blocks):
  - `RandomsStayInRange`: `random_bn`, for every width of the generator, from the bounds
    of the quotient alone.
  - `PortraitFieldsAreAlwaysRead`: `isPast(k, offset)` says that the parser has gone over k
    fields, or over the last of fewer. One call of `atoi` keeps it for k + 1 and returns
    the value of that field (`FieldIsRead`); what is read so far, times the power of ten
    of the digits left, plus what these are worth, does not change (`DigitsAreRead`).
    Fields are found by their place among all of them in the reference and one after
    the other in the code: `NextField` brings the two together. What is longer than
    a uint8 can count, or has a number beyond uint256, is refused.
  - `AmountsAreAlwaysDrawnToScale`: after k amounts, the width times the scale plus the
    remainder is their sum, and the remainder is less than a character.
    `PercentsAreAlwaysDrawnToScale`: two roundings err by half a character at most.
  - `NotAlwaysKeepsTheRest`: no two permissions of a contract share a bit
    (`PermissionsAreApart`), and the join of a list is the union of its elements.
  - `PagesAreAlwaysTheNewest`: by induction over the cursor, which each further page lowers.
    `ConsistentAlwaysMeansEqual`. `SnapshotIsAlwaysLatestOwner`, for events of any tokens in
    any order: one event is later than all others (`LatestExists`), it is what the sort
    leaves last (`LastIsLatest`), and the condition makes it one of the token asked for.
- `DearerBoxesAreAlwaysBetter`: of all pairs of tables of `deploy/config.ts`.
- `OnboardingProofs`, for any networks, tags, box types, numbers of runs, failures and
  changes of code. `MinterIsAlwaysWired` and `RerunsAlwaysKeepMinter` from `RolloutInv`:
  what a run holds in `locals` is what is on record with the code there is
  (`HeldIsRecorded`); the steps left come in an order in which a proxy finds what it
  needs (`Ordered`); the Minter is still to be deployed or is wired and left alone from
  then on (`WiredOrPending`); and as long as no code has changed, all that a Minter is
  made of is on record (`MinterStays`), so that deploying it finds it there. The
  properties speak of runs that have ended and of the Minter only; they are not
  inductive, since a run that dies half-way leaves records of the oracle without it.
- `TablesAlwaysReachMinter` from `TablesInv`: a table is in a step to come, in the pool,
  or set; before `get` all are in the steps to come, and after it nothing is deployed
  any more, so that what was looked up stays on record. `TablesAreValid`: no table of
  `deploy/config.ts` is one the Minter refuses when it is mined.
- `CollectionsCanAlwaysBeWithdrawn` from `CollectionInv`: layers on record, the address
  in the configuration and those of collections are contracts that have the contract
  of IMX as their minter. A network without one has no layers, since `01` throws there.
- `ScriptsAlwaysDoWhatTheyReturnFor`, of the step in which a run ends, from `ScriptsInv`:
  the call a script is for is the last of its steps, a check that is no longer to come
  has left what it is for, and the configuration is not edited while a run is under
  way, so that project and addresses are still those that were checked and used.

Many of these need induction over data: over the receipts, the lines of a cart, the
items of a result, the characters of a text. `DataLemmas` has it in a form that
needs no theorem with an operator for a parameter: a property is the set of the
numbers that have it, and a set that has 0 and all successors has every number
(`SetInduction`, from the least element of a set of numbers). From it follow that a
recursion with a falling rank defines a function (`Recursion`), and what the
library's sums, folds and flattened sequences are. The power of ten of a digit is a
recursive function in `FunctionChecks` (`powersOfTen`) for that reason: the provers know
nothing of `^`.

Only model-checked: liveness (`PaidRequestsAreSettled`, `ScriptsEnd`, `RunsEnd`), since
fairness and ENABLED are beyond the prover. The four runs that end in a violation
have a property that is false. All other properties of the runs are theorems.

## Not modelled

- Gas (a large request can be stored whose result is too long to compute in a
  call), hash collisions, whether seeds can be foreseen, overflow of 256-bit counters, several key hashes.
- Upgrades of the Minter and the layers, which replace the code; ownership and
  the base URI of the layers, which no modelled operation reads.
- Re-entry of the treasury or of tokens into `withdraw` and `paidMint` (sILV is a
  fixed ERC-20, and the treasury is named by the owner).
- `sale_data_utils.js`: it requires `test/protocol/include/merkle_tree_utils`, which
  the repository does not have, so it cannot be loaded.
- `get_all_assets`, which need not end, and `get_order`, a single request. The
  land-sale contract that the plot queries read is not in the repository: its
  events are inputs.
- Deposits, `rollback` and `get_owner_of_snapshot_l2`, which are commented out.
- `update_collection_metadata`, which no script calls, and
  `approve_illuvitar_operator`, which only sends an approval.
- Provider, wallet and gas price helpers, raw sources of randomness: nothing in
  them depends on state. The printing of amounts and symbols, which is wording.
- Mocks, which stand for the environment the modules model, and the package
  manager's bundles under `.yarn`, which are third-party.

## Plan

The order was: `VRFConsumer`, `MintTraits`, `Minter` with `MintService`, `MintResult`,
then `AccessControl` and `PriceOracle`, then `Blueprint` and `IlluvitarLayer`, then
`ImxWithdrawal`, then `Deployment` and `Onboarding`, then the helpers and queries;
proofs of each once its runs had passed. All of it is done. What is left:

1. Compose `Minter` with `PriceOracle`, so that a mint in sILV takes its rate from
   the feed instead of from `IlvRates`, and ask what it may cost.
2. Put the layer with `ImxWithdrawal` in place of `Mined`'s summary of `mintFor`.
3. Prove the safety part of the liveness properties: that what a paid request, a
   script or a run still waits for is always there to happen.
