----------------------------- MODULE Deployment -----------------------------
(***************************************************************************)
(* hardhat-deploy with the scripts of deploy/: what is deployed on one     *)
(* network, run after run.  A run executes the scripts its tags select, in *)
(* the order of their file names, and may throw or die at any step; the    *)
(* next run starts over, and between runs somebody may change the code of  *)
(* a contract.  hardhat-deploy deploys what differs from what it has on    *)
(* record under the same name and returns the recorded address otherwise.  *)
(*                                                                         *)
(* An address is the position of a contract in the order of deployment; 0  *)
(* is none.  Steps of a run are tuples whose first component says what is  *)
(* done.                                                                   *)
(***************************************************************************)
EXTENDS Integers, Sequences, SequencesExt

CONSTANTS Undefined,    \* undefined
          Settings      \* networks, what is done there, and bounds, see below

\* hardhat.config.ts.
chainIds == [hardhat |-> 31337, mainnet |-> 1, ropsten |-> 3]

namedAccounts ==
    [mainnet |->
        [imxMinter |-> "0x5FDC", linkToken |-> "0x5149", vrfCoordinator |-> "0x2716",
         sIlvAddress |-> "0x7E77", chainlinkAggregator |-> "0xf600"],
     ropsten |->
        [imxMinter |-> "0x4527", linkToken |-> "0x2731", vrfCoordinator |-> "0x943c",
         sIlvAddress |-> "0x3Dbd", chainlinkAggregator |-> "0x7302"],
     hardhat |->
        [imxMinter |-> Undefined, linkToken |-> Undefined, vrfCoordinator |-> Undefined,
         sIlvAddress |-> Undefined, chainlinkAggregator |-> Undefined]]

\* deploy/config.ts; prices are in units of 10^15 wei.
BoxType == <<"Bronze", "Silver", "Gold", "Platinum", "Diamond">>

portraitInfo(price, tierChances, holoProbability) ==
    [price |-> price, tierChances |-> tierChances, holoProbability |-> holoProbability]
accessoryInfo(randomPrice, semiRandomPrice, tierChances) ==
    [randomPrice |-> randomPrice, semiRandomPrice |-> semiRandomPrice, tierChances |-> tierChances]

PORTRAIT_MINT_INFO ==
    [Bronze   |-> portraitInfo(50, <<8000, 9700, 9930, 9980>>, 200),
     Silver   |-> portraitInfo(100, <<6100, 8800, 9700, 9950>>, 200),
     Gold     |-> portraitInfo(250, <<2400, 6600, 8800, 9700>>, 200),
     Platinum |-> portraitInfo(750, <<500, 2000, 4250, 8250>>, 300),
     Diamond  |-> portraitInfo(2500, <<200, 1000, 2500, 5000>>, 500)]

\* Mutant of ACCESSORY_MINT_INFO: the chances of two box types are swapped.
silverAndGoldSwapped ==
    [Bronze   |-> accessoryInfo(50, 100, <<8100, 9200, 9700, 9900>>),
     Silver   |-> accessoryInfo(100, 200, <<1500, 4700, 7200, 9000>>),
     Gold     |-> accessoryInfo(150, 300, <<3000, 7600, 8800, 9700>>),
     Platinum |-> accessoryInfo(200, 400, <<500, 2000, 5300, 8000>>),
     Diamond  |-> accessoryInfo(250, 500, <<100, 600, 2800, 6000>>)]

ACCESSORY_MINT_INFO ==
    [Bronze   |-> accessoryInfo(50, 100, <<8100, 9200, 9700, 9900>>),
     Silver   |-> accessoryInfo(100, 200, <<3000, 7600, 8800, 9700>>),
     Gold     |-> accessoryInfo(150, 300, <<1500, 4700, 7200, 9000>>),
     Platinum |-> accessoryInfo(200, 400, <<500, 2000, 5300, 8000>>),
     Diamond  |-> accessoryInfo(250, 500, <<100, 600, 2800, 6000>>)]

mintInfo(setter, boxType) ==
    IF setter = "setPortraitMintInfo" THEN PORTRAIT_MINT_INFO[boxType] ELSE ACCESSORY_MINT_INFO[boxType]

\* Minter._validateTierChances.
validateTierChances(tierChances) ==
    /\ \A i \in 1 .. Len(tierChances) - 1 : tierChances[i] <= tierChances[i + 1]
    /\ tierChances[Len(tierChances)] <= 10000

\* Names under which contracts are recorded.
Proxies == {"PortraitLayer", "AccessoryLayer", "PriceOracle", "Minter"}
Mockable == {"sIlvAddress", "chainlinkAggregator", "linkToken", "vrfCoordinator"}

implementation(p) == <<p, "Implementation">>
proxy(p) == <<p, "Proxy">>
mock(account) == <<account, "Mock">>
Names ==
    {implementation(p) : p \in Proxies} \cup {proxy(p) : p \in Proxies}
        \cup {mock(account) : account \in Mockable}

(***************************************************************************)
(* A setting is a network, the sets of tags runs are asked for, the box     *)
(* types there are, the onboarding scripts that are used, the contracts     *)
(* whose code may change, and the bounds: runs of the scripts of deploy/,   *)
(* changes of code, steps that fail, projects of IMX.                      *)
(***************************************************************************)
Tags == {"PortraitLayer", "AccessoryLayer", "Minter", "InitMinter"}
ASSUME DeploymentAssumption ==
    /\ \A net \in {"mainnet", "ropsten"} :
        \A account \in DOMAIN namedAccounts[net] : namedAccounts[net][account] # Undefined
    /\ \A s \in Settings :
        /\ s.network \in DOMAIN chainIds
        /\ s.tagSets \subseteq SUBSET Tags
        /\ s.boxTypes \in Seq(ToSet(BoxType))
        /\ s.changing \subseteq Proxies
        /\ {s.runs, s.changes, s.failures, s.projects} \subseteq Nat

VARIABLES
    setting,        \* one of Settings, never changed
    code,           \* [Proxies -> version of the contract behind the proxy]
    changed,        \* contracts whose code has changed since the Minter on
                    \* record was deployed; nothing but properties reads it
    changes,        \* how often code has changed
    chain,          \* contracts deployed: [name, code, args]
    deployments,    \* [Names -> address on record]
    pool,           \* transactions of 04_init_Minter that are sent, in order
    infoSet,        \* such transactions that are mined
    status,         \* of the last run: "idle", "running", "ended", "thrown"
    scripts,        \* the scripts of the run that is under way or has ended
    runs,           \* how many runs of the scripts of deploy/ were started
    todo,           \* steps the run still has to take
    locals,         \* [Names -> address this run holds in a variable]
    failures

chainVars == <<chain, deployments, pool, infoSet>>
runVars == <<status, scripts, todo, locals, runs, failures>>
codeVars == <<code, changed, changes>>
deploymentVars == <<setting, codeVars, chainVars, runVars>>

network == setting.network
NoLocals == [n \in Names |-> 0]

\* A network this code was never deployed on.  The records that are in the
\* repository, of Ropsten, are such as a run leaves that has ended.
DeploymentInit ==
    /\ setting \in Settings
    /\ code = [p \in Proxies |-> 0] /\ changed = {} /\ changes = 0
    /\ chain = <<>> /\ deployments = NoLocals
    /\ pool = <<>> /\ infoSet = {}
    /\ status = "idle" /\ scripts = {} /\ todo = <<>> /\ locals = NoLocals
    /\ runs = 0 /\ failures = 0

-----------------------------------------------------------------------------
(* The scripts as sequences of steps.                                      *)

\* deployProxy.
deployProxy(p) == << <<"deploy", implementation(p)>>, <<"deploy", proxy(p)>> >>

\* 03_deploy_Minter stands in for what a network lacks, mainnet excepted:
\* the LINK token only for the coordinator's sake.
lacks(account) == namedAccounts[network][account] = Undefined
mockIfNeeded(account) ==
    IF chainIds[network] > 1 /\ lacks(account) /\ (account = "linkToken" => lacks("vrfCoordinator"))
    THEN << <<"deploy", mock(account)>> >> ELSE <<>>
mocks ==
    mockIfNeeded("sIlvAddress") \o mockIfNeeded("chainlinkAggregator") \o
        mockIfNeeded("linkToken") \o mockIfNeeded("vrfCoordinator")

\* The steps for the first n box types, two for each.
setInfo(n) ==
    [i \in 1 .. 2 * n |->
        <<IF i % 2 = 1 THEN "setPortraitMintInfo" ELSE "setAccessoryMintInfo", setting.boxTypes[(i + 1) \div 2]>>]

\* Mutant of initMinter: the loop ends before the last box type.
initMinterShort == << <<"get", "Minter">> >> \o setInfo(Len(setting.boxTypes) - 1)

\* 04_init_Minter.
initMinter == << <<"get", "Minter">> >> \o setInfo(Len(setting.boxTypes))

\* 01_deploy_PortraitLayer, 02_deploy_AccessoryLayer and 03_deploy_Minter.
deployPortraitLayer == deployProxy("PortraitLayer")
deployAccessoryLayer == deployProxy("AccessoryLayer")
deployMinter == mocks \o deployProxy("PriceOracle") \o deployProxy("Minter")

steps(tags) ==
    LET ifTagged(tag, script) == IF tag \in tags THEN script ELSE <<>>
    IN  ifTagged("PortraitLayer", deployPortraitLayer) \o
        ifTagged("AccessoryLayer", deployAccessoryLayer) \o
        ifTagged("Minter", deployMinter) \o ifTagged("InitMinter", initMinter)

-----------------------------------------------------------------------------
(* hardhat-deploy.                                                         *)

\* The hardhat network and what is deployed there last for one run.
mayStart == status # "running" /\ (network = "hardhat" => status = "idle")

begin(names, first) ==
    /\ mayStart
    /\ status' = "running" /\ scripts' = names /\ todo' = first
    /\ UNCHANGED <<setting, codeVars, chainVars, locals, failures>>

StartDeploy(tags) ==
    /\ runs < setting.runs /\ runs' = runs + 1
    /\ begin(tags, steps(tags))

account(name) ==
    IF ~lacks(name) THEN namedAccounts[network][name]
    ELSE IF name \in Mockable /\ locals[mock(name)] # 0 THEN locals[mock(name)]
    ELSE Undefined

\* Mutant of priceOracleAddress: an address taken from another network.
priceOracleElsewhere == 0

\* The Minter is given the oracle that is on record.
priceOracleAddress == deployments[proxy("PriceOracle")]

\* The treasury is left out, and the zeros before it: it is the deployer,
\* whose mnemonic is taken to stay the same.
args(name) ==
    CASE name = proxy("PriceOracle") ->
            <<locals[implementation("PriceOracle")], account("chainlinkAggregator")>>
      [] name = proxy("Minter") ->
            <<locals[implementation("Minter")], account("vrfCoordinator"), account("linkToken"),
              account("sIlvAddress"), priceOracleAddress>>
      [] name \in {proxy("PortraitLayer"), proxy("AccessoryLayer")} ->
            <<locals[implementation(name[1])], account("imxMinter")>>
      [] name = mock("vrfCoordinator") -> <<account("linkToken")>>
      [] OTHER -> <<>>

\* encodeFunctionData throws on an argument that is undefined.
encodes(values) == \A i \in DOMAIN values : values[i] # Undefined

\* Proxies and mocks are contracts of libraries.
version(name) == IF name[2] = "Implementation" THEN code[name[1]] ELSE 0
contract(name) == [name |-> name, code |-> version(name), args |-> args(name)]

\* Mutant of onRecord: whatever is asked for is deployed.
nothingOnRecord(name) == FALSE

onRecord(name) == deployments[name] # 0 /\ chain[deployments[name]] = contract(name)

next == Head(todo)
running(action) == status = "running" /\ todo # <<>> /\ next[1] = action
stepDone == todo' = Tail(todo) /\ UNCHANGED <<status, scripts, runs, failures>>
throws ==
    /\ status' = "thrown" /\ scripts' = {} /\ todo' = <<>> /\ locals' = NoLocals
    /\ UNCHANGED runs

newAddress == Len(chain) + 1

Deploy ==
    LET name == next[2]
        address == IF onRecord(name) THEN deployments[name] ELSE newAddress
    IN  /\ running("deploy")
        /\ encodes(args(name))
        /\ chain' = IF onRecord(name) THEN chain ELSE Append(chain, contract(name))
        /\ deployments' = [deployments EXCEPT ![name] = address]
        /\ locals' = [locals EXCEPT ![name] = address]
        /\ changed' = IF name = proxy("Minter") /\ ~onRecord(name) THEN {} ELSE changed
        /\ stepDone
        /\ UNCHANGED <<setting, code, changes, pool, infoSet>>

EncodeFails ==
    /\ running("deploy") /\ ~encodes(args(next[2]))
    /\ throws
    /\ UNCHANGED <<setting, codeVars, chainVars, failures>>

\* The run dies when the contract is on the chain and not yet on record.
DeployUnrecorded ==
    /\ running("deploy") /\ encodes(args(next[2])) /\ ~onRecord(next[2])
    /\ failures < setting.failures
    /\ chain' = Append(chain, contract(next[2]))
    /\ failures' = failures + 1
    /\ throws
    /\ UNCHANGED <<setting, codeVars, deployments, pool, infoSet>>

-----------------------------------------------------------------------------
(* 04_init_Minter.                                                         *)

\* get throws when there is no Minter on record.
GetMinter ==
    /\ running("get")
    /\ IF deployments[proxy("Minter")] # 0
       THEN locals' = [locals EXCEPT ![proxy("Minter")] = deployments[proxy("Minter")]] /\ stepDone
       ELSE throws /\ UNCHANGED failures
    /\ UNCHANGED <<setting, codeVars, chainVars>>

setters == {"setPortraitMintInfo", "setAccessoryMintInfo"}
transaction == [to |-> locals[proxy("Minter")], setter |-> next[1], boxType |-> next[2]]

\* await is for the transaction to be sent, not for it to be mined; the
\* answer may be lost.
SendSetter ==
    /\ \E setter \in setters : running(setter)
    /\ pool' = Append(pool, transaction)
    /\ \/ stepDone /\ UNCHANGED locals
       \/ failures < setting.failures /\ failures' = failures + 1 /\ throws
    /\ UNCHANGED <<setting, codeVars, chain, deployments, infoSet>>

\* A step that fails and leaves nothing behind.
StepFails ==
    /\ status = "running" /\ todo # <<>> /\ failures < setting.failures
    /\ failures' = failures + 1
    /\ throws
    /\ UNCHANGED <<setting, codeVars, chainVars>>

RunEnds ==
    /\ status = "running" /\ todo = <<>>
    /\ status' = "ended" /\ locals' = NoLocals
    /\ UNCHANGED <<setting, codeVars, chainVars, scripts, todo, runs, failures>>

\* Transactions of one sender are mined in the order of their nonces.  The
\* deployer owns every Minter.
reverts(tx) == ~validateTierChances(mintInfo(tx.setter, tx.boxType).tierChances)
Mined ==
    /\ pool # <<>>
    /\ infoSet' = IF reverts(Head(pool)) THEN infoSet ELSE infoSet \cup {Head(pool)}
    /\ pool' = Tail(pool)
    /\ UNCHANGED <<setting, codeVars, chain, deployments, runVars>>

\* The code of a contract changes between runs, or changes back.
ChangeCode(p) ==
    /\ status # "running" /\ changes < setting.changes
    /\ code' = [code EXCEPT ![p] = 1 - @]
    /\ changed' = changed \cup {p}
    /\ changes' = changes + 1
    /\ UNCHANGED <<setting, chainVars, runVars>>

\* deploy of hardhat-deploy waits for the receipt, without a limit.
awaitsMining == running("deploy") /\ encodes(args(next[2])) /\ ~onRecord(next[2])

\* The steps of a run; those a run takes by itself, without waiting for the
\* chain.
DeployStep == Deploy \/ EncodeFails \/ GetMinter \/ SendSetter \/ RunEnds
FairDeployStep ==
    (Deploy /\ onRecord(next[2])) \/ EncodeFails \/ GetMinter \/ SendSetter \/ RunEnds

DeploymentNext ==
    \/ \E tags \in setting.tagSets : StartDeploy(tags)
    \/ DeployStep \/ DeployUnrecorded \/ StepFails
    \/ Mined
    \/ \E p \in setting.changing : ChangeCode(p)

-----------------------------------------------------------------------------
(* Properties.                                                             *)

minterOnRecord == deployments[proxy("Minter")]
minterArgs == chain[minterOnRecord].args

\* After a run of 03_deploy_Minter that has ended, the Minter on record uses
\* the implementation and the price oracle that are on record, however many
\* runs before it threw half-way and whatever code has changed since.
MinterIsWired ==
    status = "ended" /\ "Minter" \in scripts =>
        /\ minterOnRecord # 0
        /\ minterArgs[1] = deployments[implementation("Minter")]
        /\ minterArgs[5] = deployments[proxy("PriceOracle")]
        /\ minterArgs[5] # 0

\* The Minter on record, with all its requests and its token ids, is only
\* given up for a new one when the code of the Minter or of the oracle has
\* changed since: no crash and no repetition of a script does it.
RerunsKeepMinter ==
    [][minterOnRecord # 0 /\ minterOnRecord' # minterOnRecord
        => changed \cap {"Minter", "PriceOracle"} # {}]_deploymentVars

allInfo(address) ==
    {[to |-> address, setter |-> s, boxType |-> setting.boxTypes[i]] : s \in setters, i \in 1 .. Len(setting.boxTypes)}

\* When a run of 04_init_Minter ends, every price and every chance of the
\* Minter on record is set or in a transaction that is sent to it and that it
\* will accept: whichever runs failed before, and whichever Minters there were.
TablesReachMinter ==
    status = "ended" /\ "InitMinter" \in scripts
        => allInfo(minterOnRecord) \subseteq infoSet \cup {tx \in ToSet(pool) : ~reverts(tx)}

\* One table against another: every price and every probability is at least
\* as high and every chance to stay in a low tier at most as high.
atLeast(better, worse) ==
    \A f \in DOMAIN better :
        IF f = "tierChances" THEN \A k \in DOMAIN better[f] : better[f][k] <= worse[f][k]
        ELSE better[f] >= worse[f]

\* Of two tables that a Minter has, that of the dearer box is never worse for
\* the buyer in any tier, half-way through 04_init_Minter included.
DearerBoxesAreBetter ==
    \A t, u \in infoSet :
        \A i, j \in DOMAIN BoxType :
            t.to = u.to /\ t.setter = u.setter /\ t.boxType = BoxType[i] /\ u.boxType = BoxType[j] /\ i < j
                => atLeast(mintInfo(u.setter, u.boxType), mintInfo(t.setter, t.boxType))
=============================================================================
