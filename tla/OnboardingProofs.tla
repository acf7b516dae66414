-------------------------- MODULE OnboardingProofs --------------------------
(***************************************************************************)
(* Proofs about Deployment and Onboarding, which are one specification.     *)
(* RolloutInv: a run that ends leaves a Minter that is wired as recorded,   *)
(* and only a change of code makes a new one.  CollectionInv: collections   *)
(* are of layers that IMX mints on.  TablesInv: what is to be sent, sent or *)
(* mined makes up all the tables.  ScriptsInv: what is left of an           *)
(* onboarding script is its checks and the call it is for.                  *)
(***************************************************************************)
EXTENDS Onboarding, SequenceTheorems, TLAPS

\* What a Minter is made of.
Wiring ==
    {implementation("PriceOracle"), proxy("PriceOracle"), implementation("Minter"), proxy("Minter")}

deploys(s, i, name) == s[i][1] = "deploy" /\ s[i][2] = name

\* When step i of s is taken the run holds the address of name.
HeldBefore(s, l, i, name) == l[name] # 0 \/ \E j \in 1 .. i - 1 : deploys(s, j, name)

\* The steps a run with addresses l has before it come in an order in which
\* each proxy finds what it needs, and the Minter comes last.
Ordered(s, l) ==
    \A i \in 1 .. Len(s) :
        /\ s[i][1] = "deploy" => s[i][2] \in Names
        /\ deploys(s, i, proxy("PriceOracle")) => HeldBefore(s, l, i, implementation("PriceOracle"))
        /\ deploys(s, i, proxy("Minter")) =>
            /\ HeldBefore(s, l, i, implementation("Minter"))
            /\ HeldBefore(s, l, i, proxy("PriceOracle"))
            /\ \A j \in i + 1 .. Len(s) : s[j][1] = "deploy" => s[j][2] \notin Wiring

DeploysMinter(s) == \E i \in 1 .. Len(s) : deploys(s, i, proxy("Minter"))
LeavesWiring(s) == \A i \in 1 .. Len(s) : s[i][1] = "deploy" => s[i][2] \notin Wiring

RolloutTypeOK ==
    /\ setting \in Settings
    /\ code \in [Proxies -> Int]
    /\ \E S : chain \in Seq(S)
    /\ \E S : todo \in Seq(S)
    /\ deployments \in [Names -> 0 .. Len(chain)]
    /\ locals \in [Names -> Nat]
    /\ status # "running" => locals = NoLocals /\ todo = <<>>

ImplementationRecorded(p) ==
    /\ deployments[implementation(p)] # 0
    /\ chain[deployments[implementation(p)]] =
        [name |-> implementation(p), code |-> code[p], args |-> <<>>]
OracleRecorded ==
    /\ ImplementationRecorded("PriceOracle")
    /\ deployments[proxy("PriceOracle")] # 0
    /\ chain[deployments[proxy("PriceOracle")]] =
        [name |-> proxy("PriceOracle"), code |-> 0,
         args |-> <<deployments[implementation("PriceOracle")], namedAccounts[network]["chainlinkAggregator"]>>]
MinterRecorded ==
    /\ ImplementationRecorded("Minter") /\ OracleRecorded
    /\ chain[deployments[proxy("Minter")]] =
        [name |-> proxy("Minter"), code |-> 0,
         args |-> <<deployments[implementation("Minter")], namedAccounts[network]["vrfCoordinator"],
                    namedAccounts[network]["linkToken"], namedAccounts[network]["sIlvAddress"],
                    deployments[proxy("PriceOracle")]>>]

\* What a run holds is on record, with the code there is.
HeldIsRecorded ==
    /\ \A name \in Wiring \ {proxy("Minter")} : locals[name] # 0 => deployments[name] = locals[name]
    /\ \A p \in {"PriceOracle", "Minter"} : locals[implementation(p)] # 0 => ImplementationRecorded(p)
    /\ network # "hardhat" /\ locals[proxy("PriceOracle")] # 0 => OracleRecorded

\* As long as no code has changed since the Minter was deployed, deploying it
\* again finds everything on record.
MinterStays ==
    network # "hardhat" /\ minterOnRecord # 0 /\ changed \cap {"Minter", "PriceOracle"} = {} => MinterRecorded

\* On the hardhat network there is one run.
OneMinterOnHardhat ==
    network = "hardhat" /\ (status = "idle" \/ DeploysMinter(todo)) => minterOnRecord = 0

Wired ==
    /\ minterOnRecord # 0
    /\ minterArgs[1] = deployments[implementation("Minter")]
    /\ minterArgs[5] = deployments[proxy("PriceOracle")]
    /\ minterArgs[5] # 0

\* A run of 03_deploy_Minter has the Minter still to deploy, or has wired it
\* and leaves it alone from then on.
WiredOrPending ==
    "Minter" \in scripts /\ status \in {"running", "ended"} =>
        DeploysMinter(todo) \/ (Wired /\ LeavesWiring(todo))

\* Only a run of register_user ends early without an exception.
EarlyEndsElsewhere ==
    \A i \in 1 .. Len(todo) : todo[i][1] = "getUser" => "Minter" \notin scripts

RolloutInv ==
    /\ RolloutTypeOK
    /\ Ordered(todo, locals)
    /\ HeldIsRecorded
    /\ MinterStays
    /\ OneMinterOnHardhat
    /\ WiredOrPending
    /\ EarlyEndsElsewhere

-----------------------------------------------------------------------------
(* What a run sets out to do.                                              *)

PlainStep(e) == e[1] # "getUser" /\ (e[1] = "deploy" => e[2] \in Names \ Wiring)
Plain(s) == (\E S : s \in Seq(S)) /\ \A i \in 1 .. Len(s) : PlainStep(s[i])

\* s deploys the oracle and the Minter from position k + 1 on and nothing
\* else of them.
DeploysWiring(s, k) ==
    /\ \E S : s \in Seq(S)
    /\ k \in Nat /\ k + 4 <= Len(s)
    /\ s[k + 1] = <<"deploy", implementation("PriceOracle")>>
    /\ s[k + 2] = <<"deploy", proxy("PriceOracle")>>
    /\ s[k + 3] = <<"deploy", implementation("Minter")>>
    /\ s[k + 4] = <<"deploy", proxy("Minter")>>
    /\ \A i \in 1 .. Len(s) : i \notin k + 1 .. k + 4 => PlainStep(s[i])

LEMMA WiringNames ==
    /\ Wiring \subseteq Names
    /\ implementation("PriceOracle") # proxy("PriceOracle")
    /\ implementation("PriceOracle") # implementation("Minter")
    /\ implementation("PriceOracle") # proxy("Minter")
    /\ proxy("PriceOracle") # implementation("Minter")
    /\ proxy("PriceOracle") # proxy("Minter")
    /\ implementation("Minter") # proxy("Minter")
  BY DEF Wiring, Names, implementation, proxy, Proxies

LEMMA CommonSeq ==
    ASSUME NEW s, NEW t, \E S : s \in Seq(S), \E S : t \in Seq(S)
    PROVE  \E S : s \in Seq(S) /\ t \in Seq(S) /\ s \o t \in Seq(S)
  <1>1. PICK S : s \in Seq(S)
    OBVIOUS
  <1>2. PICK T : t \in Seq(T)
    OBVIOUS
  <1>3. s \in Seq(S \cup T) /\ t \in Seq(S \cup T)
    BY <1>1, <1>2
  <1> QED
    BY <1>3, ConcatProperties

LEMMA PlainConcat ==
    ASSUME NEW s, NEW t, Plain(s), Plain(t)
    PROVE  Plain(s \o t)
  <1>1. PICK S : s \in Seq(S) /\ t \in Seq(S) /\ s \o t \in Seq(S)
    BY CommonSeq DEF Plain
  <1>2. ASSUME NEW i \in 1 .. Len(s \o t)
        PROVE  PlainStep((s \o t)[i])
    <2>1. (s \o t)[i] = IF i <= Len(s) THEN s[i] ELSE t[i - Len(s)]
      BY <1>1, ConcatProperties
    <2>2. Len(s \o t) = Len(s) + Len(t) /\ Len(s) \in Nat /\ Len(t) \in Nat
      BY <1>1, ConcatProperties
    <2>3. CASE i <= Len(s)
      BY <2>1, <2>2, <2>3 DEF Plain
    <2>4. CASE i > Len(s)
      BY <2>1, <2>2, <2>4 DEF Plain
    <2> QED
      BY <2>2, <2>3, <2>4
  <1> QED
    BY <1>1, <1>2 DEF Plain

LEMMA WiringAfterPlain ==
    ASSUME NEW s, NEW t, NEW k, Plain(s), DeploysWiring(t, k)
    PROVE  DeploysWiring(s \o t, Len(s) + k)
  <1>1. PICK S : s \in Seq(S) /\ t \in Seq(S) /\ s \o t \in Seq(S)
    BY CommonSeq DEF Plain, DeploysWiring
  <1>2. Len(s \o t) = Len(s) + Len(t) /\ Len(s) \in Nat /\ Len(t) \in Nat
    BY <1>1, ConcatProperties
  <1>3. \A i \in 1 .. Len(s \o t) : (s \o t)[i] = IF i <= Len(s) THEN s[i] ELSE t[i - Len(s)]
    BY <1>1, ConcatProperties
  <1>4. \A j \in 1 .. Len(t) : (s \o t)[Len(s) + j] = t[j]
    BY <1>2, <1>3
  <1>5. ASSUME NEW i \in 1 .. Len(s \o t), i \notin Len(s) + k + 1 .. Len(s) + k + 4
        PROVE  PlainStep((s \o t)[i])
    <2>1. CASE i <= Len(s)
      BY <1>2, <1>3, <2>1 DEF Plain
    <2>2. CASE i > Len(s)
      <3>1. i - Len(s) \in 1 .. Len(t) /\ i - Len(s) \notin k + 1 .. k + 4
        BY <1>2, <1>5, <2>2 DEF DeploysWiring
      <3> QED
        BY <1>3, <2>2, <1>2, <3>1 DEF DeploysWiring
    <2> QED
      BY <1>2, <2>1, <2>2
  <1>5a. k \in Nat
    BY DEF DeploysWiring
  <1>6. /\ k + 1 \in 1 .. Len(t) /\ k + 2 \in 1 .. Len(t)
        /\ k + 3 \in 1 .. Len(t) /\ k + 4 \in 1 .. Len(t)
    BY <1>2 DEF DeploysWiring
  <1>7. /\ Len(s) + k + 1 = Len(s) + (k + 1) /\ Len(s) + k + 2 = Len(s) + (k + 2)
        /\ Len(s) + k + 3 = Len(s) + (k + 3) /\ Len(s) + k + 4 = Len(s) + (k + 4)
        /\ Len(s) + k \in Nat /\ Len(s) + k + 4 <= Len(s \o t)
    BY <1>2 DEF DeploysWiring
  <1>8. /\ (s \o t)[Len(s) + k + 1] = t[k + 1] /\ (s \o t)[Len(s) + k + 2] = t[k + 2]
        /\ (s \o t)[Len(s) + k + 3] = t[k + 3] /\ (s \o t)[Len(s) + k + 4] = t[k + 4]
    <2>1. /\ (s \o t)[Len(s) + (k + 1)] = t[k + 1] /\ (s \o t)[Len(s) + (k + 2)] = t[k + 2]
          /\ (s \o t)[Len(s) + (k + 3)] = t[k + 3] /\ (s \o t)[Len(s) + (k + 4)] = t[k + 4]
      BY <1>4, <1>6, Zenon
    <2> QED
      BY <1>7, <2>1, Zenon
  <1> QED
    BY <1>1, <1>5, <1>7, <1>8 DEF DeploysWiring

LEMMA WiringBeforePlain ==
    ASSUME NEW s, NEW t, NEW k, DeploysWiring(s, k), Plain(t)
    PROVE  DeploysWiring(s \o t, k)
  <1>1. PICK S : s \in Seq(S) /\ t \in Seq(S) /\ s \o t \in Seq(S)
    BY CommonSeq DEF Plain, DeploysWiring
  <1>2. Len(s \o t) = Len(s) + Len(t) /\ Len(s) \in Nat /\ Len(t) \in Nat
    BY <1>1, ConcatProperties
  <1>3. \A i \in 1 .. Len(s \o t) : (s \o t)[i] = IF i <= Len(s) THEN s[i] ELSE t[i - Len(s)]
    BY <1>1, ConcatProperties
  <1>4. ASSUME NEW i \in 1 .. Len(s \o t), i \notin k + 1 .. k + 4
        PROVE  PlainStep((s \o t)[i])
    <2>1. CASE i <= Len(s)
      BY <1>2, <1>3, <1>4, <2>1 DEF DeploysWiring
    <2>2. CASE i > Len(s)
      BY <1>2, <1>3, <2>2 DEF Plain
    <2> QED
      BY <1>2, <2>1, <2>2
  <1>5. /\ k \in Nat /\ k + 4 <= Len(s)
    BY DEF DeploysWiring
  <1>6. /\ (s \o t)[k + 1] = s[k + 1] /\ (s \o t)[k + 2] = s[k + 2]
        /\ (s \o t)[k + 3] = s[k + 3] /\ (s \o t)[k + 4] = s[k + 4]
    BY <1>2, <1>3, <1>5
  <1> QED
    BY <1>1, <1>2, <1>4, <1>5, <1>6 DEF DeploysWiring

LEMMA WiringIsOrdered ==
    ASSUME NEW s, NEW k, DeploysWiring(s, k)
    PROVE  Ordered(s, NoLocals) /\ DeploysMinter(s)
  <1> USE WiringNames
  <1>1. /\ k \in Nat /\ k + 4 <= Len(s) /\ Len(s) \in Nat
    BY LenProperties DEF DeploysWiring
  <1>2. ASSUME NEW i \in 1 .. Len(s), s[i][1] = "deploy", s[i][2] \in Wiring
        PROVE  i \in k + 1 .. k + 4
    BY <1>2 DEF DeploysWiring, PlainStep
  <1>3. /\ deploys(s, k + 1, implementation("PriceOracle")) /\ deploys(s, k + 2, proxy("PriceOracle"))
        /\ deploys(s, k + 3, implementation("Minter")) /\ deploys(s, k + 4, proxy("Minter"))
    BY DEF DeploysWiring, deploys
  <1>4. ASSUME NEW i \in 1 .. Len(s)
        PROVE  /\ s[i][1] = "deploy" => s[i][2] \in Names
               /\ deploys(s, i, proxy("PriceOracle")) => i = k + 2
               /\ deploys(s, i, proxy("Minter")) => i = k + 4
    <2>1. CASE i \notin k + 1 .. k + 4
      BY <2>1, <1>2 DEF DeploysWiring, PlainStep, Wiring, deploys
    <2>2. CASE i \in k + 1 .. k + 4
      <3>1. i \in {k + 1, k + 2, k + 3, k + 4}
        BY <1>1, <2>2
      <3> QED
        BY <1>3, <3>1 DEF deploys, Wiring
    <2> QED
      BY <2>1, <2>2
  <1>5. /\ k + 1 \in 1 .. (k + 2) - 1 /\ k + 3 \in 1 .. (k + 4) - 1 /\ k + 2 \in 1 .. (k + 4) - 1
        /\ k + 4 \in 1 .. Len(s)
    BY <1>1
  <1>6. \A j \in (k + 4) + 1 .. Len(s) : s[j][1] = "deploy" => s[j][2] \notin Wiring
    BY <1>1, <1>2
  <1> QED
    BY <1>3, <1>4, <1>5, <1>6 DEF Ordered, HeldBefore, DeploysMinter

LEMMA PlainIsOrdered ==
    ASSUME NEW s, Plain(s)
    PROVE  Ordered(s, NoLocals)
  BY DEF Plain, PlainStep, Ordered, deploys, Wiring

LEMMA PlainPair ==
    ASSUME NEW p \in {"PortraitLayer", "AccessoryLayer"}
    PROVE  Plain(deployProxy(p))
  <1>1. deployProxy(p) \in Seq({"deploy"} \X Names)
    BY DEF deployProxy, Names, Proxies, implementation, proxy
  <1>2. Len(deployProxy(p)) = 2
    BY DEF deployProxy
  <1>3. ASSUME NEW i \in 1 .. 2
        PROVE  PlainStep(deployProxy(p)[i])
    BY DEF deployProxy, PlainStep, Names, Wiring, Proxies, implementation, proxy
  <1> QED
    BY <1>1, <1>2, <1>3 DEF Plain

LEMMA PlainSingle ==
    ASSUME NEW e, PlainStep(e)
    PROVE  Plain(<<e>>)
  <1>1. <<e>> \in Seq({e}) /\ Len(<<e>>) = 1 /\ <<e>>[1] = e
    OBVIOUS
  <1>2. \A i \in 1 .. Len(<<e>>) : PlainStep(<<e>>[i])
    BY <1>1
  <1> QED
    BY <1>1, <1>2 DEF Plain

LEMMA PlainMock ==
    ASSUME NEW name \in Mockable
    PROVE  Plain(mockIfNeeded(name))
  <1> DEFINE one == << <<"deploy", mock(name)>> >>
  <1>1. PlainStep(<<"deploy", mock(name)>>)
    BY DEF PlainStep, Names, Wiring, Proxies, implementation, proxy, mock
  <1>2. Plain(one)
    BY <1>1, PlainSingle
  <1>3. Plain(<<>>)
    BY DEF Plain
  <1> QED
    BY <1>2, <1>3 DEF mockIfNeeded

LEMMA FunctionIsSeq ==
    ASSUME NEW n \in Nat, NEW S, NEW f \in [1 .. n -> S]
    PROVE  f \in Seq(S) /\ Len(f) = n
  <1>1. f \in Seq(S)
    BY SeqDef
  <1> QED
    BY <1>1, LenProperties

LEMMA PlainInit ==
    ASSUME setting \in Settings
    PROVE  Plain(initMinter)
  <1>1. Plain(<< <<"get", "Minter">> >>)
    BY PlainSingle DEF PlainStep
  <1>2. Len(setting.boxTypes) \in Nat
    BY DeploymentAssumption, LenProperties
  <1>3. ASSUME NEW n \in Nat
        PROVE  Plain(setInfo(n))
    <2> DEFINE S == {setInfo(n)[i] : i \in 1 .. 2 * n}
    <2>1. setInfo(n) \in [1 .. 2 * n -> S]
      BY DEF setInfo
    <2>2. 2 * n \in Nat
      OBVIOUS
    <2>3. setInfo(n) \in Seq(S) /\ Len(setInfo(n)) = 2 * n
      BY <2>1, <2>2, FunctionIsSeq
    <2>4. \A i \in 1 .. 2 * n : PlainStep(setInfo(n)[i])
      BY <1>3 DEF setInfo, PlainStep
    <2> QED
      BY <2>3, <2>4 DEF Plain
  <1> QED
    BY <1>1, <1>2, <1>3, PlainConcat DEF initMinter

LEMMA MinterScript ==
    \E k : DeploysWiring(deployMinter, k)
  <1> DEFINE oracle == deployProxy("PriceOracle")
             minter == deployProxy("Minter")
  <1>1. Plain(mocks)
    BY PlainMock, PlainConcat DEF mocks, Mockable
  <1>2. DeploysWiring(oracle \o minter, 0)
    <2>1. oracle \in Seq({"deploy"} \X Names) /\ minter \in Seq({"deploy"} \X Names)
      BY DEF deployProxy, Names, Proxies, implementation, proxy
    <2>2. oracle \o minter \in Seq({"deploy"} \X Names) /\ Len(oracle) = 2 /\ Len(minter) = 2
      BY <2>1, ConcatProperties DEF deployProxy
    <2>3. /\ Len(oracle \o minter) = 4
          /\ \A i \in 1 .. 4 : (oracle \o minter)[i] = IF i <= 2 THEN oracle[i] ELSE minter[i - 2]
      BY <2>1, <2>2, ConcatProperties
    <2>4. /\ (oracle \o minter)[1] = oracle[1] /\ (oracle \o minter)[2] = oracle[2]
          /\ (oracle \o minter)[3] = minter[1] /\ (oracle \o minter)[4] = minter[2]
      BY <2>3
    <2>5. /\ oracle[1] = <<"deploy", implementation("PriceOracle")>>
          /\ oracle[2] = <<"deploy", proxy("PriceOracle")>>
          /\ minter[1] = <<"deploy", implementation("Minter")>>
          /\ minter[2] = <<"deploy", proxy("Minter")>>
      BY DEF deployProxy
    <2>6. 1 .. 4 = 0 + 1 .. 0 + 4 /\ 0 + 1 = 1 /\ 0 + 2 = 2 /\ 0 + 3 = 3 /\ 0 + 4 = 4
      OBVIOUS
    <2> HIDE DEF oracle, minter
    <2> QED
      BY <2>2, <2>3, <2>4, <2>5, <2>6 DEF DeploysWiring
  <1>3. PICK S : mocks \in Seq(S) /\ oracle \in Seq(S) /\ minter \in Seq(S)
    <2>1. PICK S : mocks \in Seq(S)
      BY <1>1 DEF Plain
    <2>2. oracle \in Seq({"deploy"} \X Names) /\ minter \in Seq({"deploy"} \X Names)
      BY DEF deployProxy, Names, Proxies, implementation, proxy
    <2>3. mocks \in Seq(S \cup ({"deploy"} \X Names))
      BY <2>1
    <2>4. oracle \in Seq(S \cup ({"deploy"} \X Names)) /\ minter \in Seq(S \cup ({"deploy"} \X Names))
      BY <2>2
    <2> QED
      BY <2>3, <2>4
  <1>4. deployMinter = mocks \o (oracle \o minter)
    BY <1>3, ConcatAssociative DEF deployMinter
  <1> QED
    BY <1>1, <1>2, <1>4, WiringAfterPlain

LEMMA StepsAreOrdered ==
    ASSUME setting \in Settings, NEW tags
    PROVE  /\ \E S : steps(tags) \in Seq(S)
           /\ Ordered(steps(tags), NoLocals)
           /\ \A i \in 1 .. Len(steps(tags)) : steps(tags)[i][1] # "getUser"
           /\ "Minter" \in tags => DeploysMinter(steps(tags))
  <1> DEFINE portrait == IF "PortraitLayer" \in tags THEN deployPortraitLayer ELSE <<>>
             accessory == IF "AccessoryLayer" \in tags THEN deployAccessoryLayer ELSE <<>>
             minter == IF "Minter" \in tags THEN deployMinter ELSE <<>>
             initialization == IF "InitMinter" \in tags THEN initMinter ELSE <<>>
  <1>1. steps(tags) = ((portrait \o accessory) \o minter) \o initialization
    BY DEF steps
  <1>2. Plain(<<>>)
    BY DEF Plain
  <1>3. Plain(portrait \o accessory)
    BY <1>2, PlainPair, PlainConcat DEF deployPortraitLayer, deployAccessoryLayer
  <1>4. Plain(initialization)
    BY <1>2, PlainInit
  <1> HIDE DEF portrait, accessory, initialization
  <1>5. CASE "Minter" \in tags
    <2>1. PICK k : DeploysWiring(minter, k)
      BY <1>5, MinterScript
    <2> HIDE DEF minter
    <2>2. PICK l : DeploysWiring(steps(tags), l)
      BY <1>1, <1>3, <1>4, <2>1, WiringAfterPlain, WiringBeforePlain
    <2>3. \A i \in 1 .. Len(steps(tags)) : steps(tags)[i][1] # "getUser"
      <3> TAKE i \in 1 .. Len(steps(tags))
      <3>1. CASE i \notin l + 1 .. l + 4
        BY <2>2, <3>1 DEF DeploysWiring, PlainStep
      <3>2. CASE i \in l + 1 .. l + 4
        <4>1. i \in {l + 1, l + 2, l + 3, l + 4}
          BY <2>2, <3>2 DEF DeploysWiring
        <4> QED
          BY <2>2, <4>1 DEF DeploysWiring
      <3> QED
        BY <3>1, <3>2
    <2> QED
      BY <2>2, <2>3, WiringIsOrdered DEF DeploysWiring
  <1>6. CASE "Minter" \notin tags
    <2>1. Plain(minter)
      BY <1>2, <1>6
    <2> HIDE DEF minter
    <2>2. Plain(steps(tags))
      BY <1>1, <1>3, <1>4, <2>1, PlainConcat
    <2> QED
      BY <1>6, <2>2, PlainIsOrdered DEF Plain, PlainStep
  <1> QED
    BY <1>5, <1>6

-----------------------------------------------------------------------------
(* The steps, by what they do to a run.                                    *)

LEMMA TailFacts ==
    ASSUME NEW s, \E S : s \in Seq(S), s # <<>>
    PROVE  /\ \E S : Tail(s) \in Seq(S)
           /\ Len(s) \in Nat /\ Len(Tail(s)) = Len(s) - 1 /\ 1 \in 1 .. Len(s)
           /\ Head(s) = s[1]
           /\ \A i \in 1 .. Len(Tail(s)) : i + 1 \in 1 .. Len(s) /\ Tail(s)[i] = s[i + 1]
  <1>1. PICK S : s \in Seq(S)
    OBVIOUS
  <1> QED
    BY <1>1, HeadTailProperties, LenProperties, EmptySeq

LEMMA TailIsOrdered ==
    ASSUME NEW s, \E S : s \in Seq(S), s # <<>>, NEW l, NEW m, Ordered(s, l),
           \A name \in Names : l[name] # 0 => m[name] # 0,
           s[1][1] = "deploy" => m[s[1][2]] # 0
    PROVE  Ordered(Tail(s), m)
  <1> DEFINE t == Tail(s)
  <1>1. /\ Len(s) \in Nat /\ Len(t) = Len(s) - 1
        /\ \A i \in 1 .. Len(t) : i + 1 \in 1 .. Len(s) /\ t[i] = s[i + 1]
    BY TailFacts
  <1> HIDE DEF t
  <1>2. ASSUME NEW i \in 1 .. Len(t), NEW name \in Names, HeldBefore(s, l, i + 1, name)
        PROVE  HeldBefore(t, m, i, name)
    <2>1. CASE l[name] # 0
      BY <2>1 DEF HeldBefore
    <2>2. ASSUME NEW j \in 1 .. (i + 1) - 1, deploys(s, j, name)
          PROVE  HeldBefore(t, m, i, name)
      <3>1. CASE j = 1
        BY <2>2, <3>1 DEF HeldBefore, deploys
      <3>2. CASE j # 1
        <4>1. j - 1 \in 1 .. i - 1 /\ j - 1 \in 1 .. Len(t) /\ (j - 1) + 1 = j
          BY <1>1, <3>2
        <4>2. t[j - 1] = s[j]
          BY <1>1, <4>1
        <4> QED
          BY <2>2, <4>1, <4>2 DEF HeldBefore, deploys
      <3> QED
        BY <3>1, <3>2
    <2> QED
      BY <1>2, <2>1, <2>2 DEF HeldBefore
  <1>3. ASSUME NEW i \in 1 .. Len(t), deploys(t, i, proxy("Minter")),
               NEW j \in i + 1 .. Len(t), t[j][1] = "deploy"
        PROVE  t[j][2] \notin Wiring
    <2>1. /\ i + 1 \in 1 .. Len(s) /\ t[i] = s[i + 1]
          /\ j + 1 \in (i + 1) + 1 .. Len(s) /\ t[j] = s[j + 1]
      BY <1>1
    <2> QED
      BY <1>3, <2>1 DEF Ordered, deploys
  <1>4. ASSUME NEW i \in 1 .. Len(t)
        PROVE  /\ t[i][1] = "deploy" => t[i][2] \in Names
               /\ deploys(t, i, proxy("PriceOracle")) =>
                    HeldBefore(t, m, i, implementation("PriceOracle"))
               /\ deploys(t, i, proxy("Minter")) =>
                    /\ HeldBefore(t, m, i, implementation("Minter"))
                    /\ HeldBefore(t, m, i, proxy("PriceOracle"))
    <2>1. i + 1 \in 1 .. Len(s) /\ t[i] = s[i + 1]
      BY <1>1
    <2>2. {implementation("PriceOracle"), implementation("Minter"), proxy("PriceOracle")} \subseteq Names
      BY WiringNames DEF Wiring
    <2> QED
      BY <1>2, <2>1, <2>2 DEF Ordered, deploys
  <1> QED
    BY <1>3, <1>4 DEF Ordered, t

LEMMA NoneHeld == NoLocals \in [Names -> Nat] /\ \A name \in Names : NoLocals[name] = 0
  BY DEF NoLocals

LEMMA RecordsStay ==
    ASSUME UNCHANGED <<setting, code, chain, deployments>>
    PROVE  /\ \A p : ImplementationRecorded(p)' <=> ImplementationRecorded(p)
           /\ OracleRecorded' <=> OracleRecorded
           /\ MinterRecorded' <=> MinterRecorded
           /\ Wired' <=> Wired
           /\ minterOnRecord' = minterOnRecord
           /\ network' = network
  BY DEF ImplementationRecorded, OracleRecorded, MinterRecorded, Wired, minterOnRecord, minterArgs, network

\* A step is done that deploys nothing; get may look up the Minter.
LEMMA AdvanceKeeps ==
    ASSUME RolloutInv, status = "running", todo # <<>>, next[1] # "deploy",
           locals' = locals \/
             (minterOnRecord # 0 /\ locals' = [locals EXCEPT ![proxy("Minter")] = minterOnRecord]),
           todo' = Tail(todo),
           UNCHANGED <<setting, code, changed, chain, deployments, status, scripts>>
    PROVE  RolloutInv'
  <1> USE WiringNames DEF RolloutInv
  <1>1. /\ \E S : todo' \in Seq(S)
        /\ Len(todo) \in Nat /\ Len(todo') = Len(todo) - 1 /\ 1 \in 1 .. Len(todo)
        /\ todo[1][1] # "deploy"
        /\ \A i \in 1 .. Len(todo') : i + 1 \in 1 .. Len(todo) /\ todo'[i] = todo[i + 1]
    BY TailFacts DEF RolloutTypeOK, next
  <1>2. /\ locals' \in [Names -> Nat]
        /\ \A name \in Names : locals[name] # 0 => locals'[name] # 0
        /\ \A name \in Names \ {proxy("Minter")} : locals'[name] = locals[name]
    <2>1. minterOnRecord \in Nat /\ proxy("Minter") \in Names /\ locals \in [Names -> Nat]
      <3>1. proxy("Minter") \in Names
        BY DEF Wiring
      <3>2. Len(chain) \in Nat
        BY LenProperties DEF RolloutTypeOK
      <3> QED
        BY <3>1, <3>2 DEF RolloutTypeOK, minterOnRecord
    <2> QED
      BY <2>1
  <1>3. RolloutTypeOK'
    BY <1>1, <1>2 DEF RolloutTypeOK
  <1>4. Ordered(todo', locals')
    BY <1>1, <1>2, TailIsOrdered DEF RolloutTypeOK
  <1>5. HeldIsRecorded'
    BY <1>2, RecordsStay DEF HeldIsRecorded, Wiring
  <1>6. MinterStays'
    BY RecordsStay DEF MinterStays
  <1>7. DeploysMinter(todo') <=> DeploysMinter(todo)
    <2>1. ASSUME DeploysMinter(todo) PROVE DeploysMinter(todo')
      <3>1. PICK i \in 1 .. Len(todo) : deploys(todo, i, proxy("Minter"))
        BY <2>1 DEF DeploysMinter
      <3>2. i # 1
        BY <1>1, <3>1 DEF deploys
      <3>3. i - 1 \in 1 .. Len(todo') /\ (i - 1) + 1 = i
        BY <1>1, <3>2
      <3>4. todo'[i - 1] = todo[i]
        BY <1>1, <3>3
      <3> QED
        BY <3>1, <3>3, <3>4 DEF DeploysMinter, deploys
    <2>2. ASSUME DeploysMinter(todo') PROVE DeploysMinter(todo)
      BY <1>1, <2>2 DEF DeploysMinter, deploys
    <2> QED
      BY <2>1, <2>2
  <1>8. OneMinterOnHardhat'
    BY <1>7, RecordsStay DEF OneMinterOnHardhat
  <1>9. WiredOrPending'
    BY <1>1, <1>7, RecordsStay DEF WiredOrPending, LeavesWiring
  <1>10. EarlyEndsElsewhere'
    BY <1>1 DEF EarlyEndsElsewhere
  <1> QED
    BY <1>3, <1>4, <1>5, <1>6, <1>8, <1>9, <1>10

LEMMA EmptyIsFine ==
    /\ \E S : <<>> \in Seq(S)
    /\ Len(<<>>) = 0
    /\ \A l : Ordered(<<>>, l)
    /\ ~DeploysMinter(<<>>)
    /\ LeavesWiring(<<>>)
  BY DEF Ordered, DeploysMinter, LeavesWiring

\* A run of register_user ends early.
LEMMA EarlyEndKeeps ==
    ASSUME RolloutInv, status = "running", "Minter" \notin scripts, todo' = <<>>,
           UNCHANGED <<setting, code, changed, chain, deployments, status, scripts, locals>>
    PROVE  RolloutInv'
  <1> USE EmptyIsFine DEF RolloutInv
  <1>1. RolloutTypeOK'
    BY DEF RolloutTypeOK
  <1>2. HeldIsRecorded' /\ MinterStays'
    BY RecordsStay DEF HeldIsRecorded, MinterStays
  <1>3. OneMinterOnHardhat' /\ WiredOrPending' /\ EarlyEndsElsewhere'
    BY DEF OneMinterOnHardhat, WiredOrPending, EarlyEndsElsewhere
  <1> QED
    BY <1>1, <1>2, <1>3

\* Whatever is of no concern.
LEMMA OthersKeep ==
    ASSUME RolloutInv,
           UNCHANGED <<setting, code, changed, chain, deployments, status, scripts, todo, locals>>
    PROVE  RolloutInv'
  <1>1. HeldIsRecorded' /\ MinterStays' /\ OneMinterOnHardhat' /\ WiredOrPending'
    BY RecordsStay DEF RolloutInv, HeldIsRecorded, MinterStays, OneMinterOnHardhat, WiredOrPending
  <1> QED
    BY <1>1 DEF RolloutInv, RolloutTypeOK, EarlyEndsElsewhere

\* A run ends.
LEMMA EndKeeps ==
    ASSUME RolloutInv, status = "running", todo = <<>>,
           status' = "ended", locals' = NoLocals,
           UNCHANGED <<setting, code, changed, chain, deployments, scripts, todo>>
    PROVE  RolloutInv'
  <1> USE EmptyIsFine, NoneHeld DEF RolloutInv
  <1>1. RolloutTypeOK' /\ EarlyEndsElsewhere'
    BY DEF RolloutTypeOK, EarlyEndsElsewhere
  <1>2. HeldIsRecorded'
    BY WiringNames DEF HeldIsRecorded, Wiring
  <1>3. MinterStays' /\ OneMinterOnHardhat' /\ WiredOrPending'
    BY RecordsStay DEF MinterStays, OneMinterOnHardhat, WiredOrPending
  <1> QED
    BY <1>1, <1>2, <1>3

LEMMA ChainGrows ==
    ASSUME RolloutTypeOK, NEW c, chain' = Append(chain, c)
    PROVE  /\ \E S : chain' \in Seq(S)
           /\ Len(chain) \in Nat /\ Len(chain') = Len(chain) + 1
           /\ \A k \in 1 .. Len(chain) : chain'[k] = chain[k]
           /\ chain'[Len(chain) + 1] = c
  <1>1. PICK S : chain \in Seq(S)
    BY DEF RolloutTypeOK
  <1>2. chain \in Seq(S \cup {c}) /\ c \in S \cup {c}
    BY <1>1
  <1> QED
    BY <1>2, AppendProperties, LenProperties

\* What is on record stays, whatever else is deployed.
LEMMA RecordsStayOnGrowth ==
    ASSUME RolloutTypeOK, UNCHANGED <<setting, code>>,
           \A k \in 1 .. Len(chain) : chain'[k] = chain[k]
    PROVE  /\ \A p \in {"PriceOracle", "Minter"} :
                deployments'[implementation(p)] = deployments[implementation(p)] =>
                    (ImplementationRecorded(p) => ImplementationRecorded(p)')
           /\ (\A name \in Wiring \ {implementation("Minter"), proxy("Minter")} :
                    deployments'[name] = deployments[name]) =>
                (OracleRecorded => OracleRecorded')
           /\ (\A name \in Wiring : deployments'[name] = deployments[name]) =>
                (minterOnRecord # 0 /\ MinterRecorded => MinterRecorded')
           /\ (\A name \in Wiring : deployments'[name] = deployments[name]) => (Wired => Wired')
  <1> USE WiringNames
  <1>1. \A name \in Wiring : deployments[name] # 0 => chain'[deployments[name]] = chain[deployments[name]]
    <2>1. Len(chain) \in Nat
      BY LenProperties DEF RolloutTypeOK
    <2> QED
      BY <2>1 DEF RolloutTypeOK
  <1>2. \A p \in {"PriceOracle", "Minter"} :
            deployments'[implementation(p)] = deployments[implementation(p)] =>
                (ImplementationRecorded(p) => ImplementationRecorded(p)')
    BY <1>1 DEF ImplementationRecorded, Wiring
  <1>3. ASSUME \A name \in Wiring \ {implementation("Minter"), proxy("Minter")} :
                    deployments'[name] = deployments[name],
               OracleRecorded
        PROVE  OracleRecorded'
    <2>1. /\ deployments'[implementation("PriceOracle")] = deployments[implementation("PriceOracle")]
          /\ deployments'[proxy("PriceOracle")] = deployments[proxy("PriceOracle")]
      BY <1>3 DEF Wiring
    <2>2. chain'[deployments[proxy("PriceOracle")]] = chain[deployments[proxy("PriceOracle")]]
      BY <1>1, <1>3 DEF OracleRecorded, Wiring
    <2> QED
      BY <1>2, <1>3, <2>1, <2>2 DEF OracleRecorded, network
  <1>4. ASSUME \A name \in Wiring : deployments'[name] = deployments[name], minterOnRecord # 0
        PROVE  (MinterRecorded => MinterRecorded') /\ (Wired => Wired')
    <2>1. \A name \in {implementation("PriceOracle"), proxy("PriceOracle"),
                        implementation("Minter"), proxy("Minter")} : deployments'[name] = deployments[name]
      BY <1>4 DEF Wiring
    <2>2. chain'[deployments[proxy("Minter")]] = chain[deployments[proxy("Minter")]]
      BY <1>1, <1>4 DEF minterOnRecord, Wiring
    <2>3. MinterRecorded => MinterRecorded'
      BY <1>2, <1>3, <1>4, <2>1, <2>2 DEF MinterRecorded, network
    <2>4. Wired => Wired'
      BY <2>1, <2>2 DEF Wired, minterOnRecord, minterArgs
    <2> QED
      BY <2>3, <2>4
  <1> QED
    BY <1>2, <1>3, <1>4 DEF Wired

\* A run throws; it may have deployed something that is not on record.
LEMMA ThrowKeeps ==
    ASSUME RolloutInv, throws, UNCHANGED <<setting, code, changed, deployments>>,
           chain' = chain \/ \E c : chain' = Append(chain, c)
    PROVE  RolloutInv'
  <1> USE EmptyIsFine, NoneHeld DEF RolloutInv, throws
  <1>1. /\ \E S : chain' \in Seq(S)
        /\ Len(chain) \in Nat /\ Len(chain') \in Nat /\ Len(chain) <= Len(chain')
        /\ \A k \in 1 .. Len(chain) : chain'[k] = chain[k]
    <2>1. (\E S : chain \in Seq(S)) /\ Len(chain) \in Nat
      BY LenProperties DEF RolloutTypeOK
    <2>2. CASE chain' = chain
      BY <2>1, <2>2
    <2>3. CASE \E c : chain' = Append(chain, c)
      BY <2>1, <2>3, ChainGrows
    <2> QED
      BY <2>2, <2>3
  <1>2. RolloutTypeOK' /\ EarlyEndsElsewhere'
    BY <1>1 DEF RolloutTypeOK, EarlyEndsElsewhere
  <1>3. HeldIsRecorded'
    BY WiringNames DEF HeldIsRecorded, Wiring
  <1>4. MinterStays'
    BY <1>1, RecordsStayOnGrowth DEF MinterStays, minterOnRecord, network
  <1>5. OneMinterOnHardhat' /\ WiredOrPending'
    BY DEF OneMinterOnHardhat, WiredOrPending
  <1> QED
    BY <1>2, <1>3, <1>4, <1>5

\* A run starts.
LEMMA StartKeeps ==
    ASSUME RolloutInv, NEW names, NEW first, begin(names, first),
           \E S : first \in Seq(S),
           Ordered(first, NoLocals),
           \A i \in 1 .. Len(first) : first[i][1] = "getUser" => "Minter" \notin names,
           "Minter" \in names => DeploysMinter(first)
    PROVE  RolloutInv'
  <1> USE DEF RolloutInv, begin, codeVars, chainVars
  <1>1. status # "running" /\ locals = NoLocals
    BY DEF mayStart, RolloutTypeOK
  <1>2. RolloutTypeOK' /\ EarlyEndsElsewhere' /\ Ordered(todo', locals')
    BY <1>1 DEF RolloutTypeOK, EarlyEndsElsewhere
  <1>3. HeldIsRecorded' /\ MinterStays'
    BY RecordsStay DEF HeldIsRecorded, MinterStays
  <1>4. OneMinterOnHardhat'
    BY DEF OneMinterOnHardhat, mayStart, minterOnRecord, network
  <1>5. WiredOrPending'
    BY DEF WiredOrPending
  <1> QED
    BY <1>2, <1>3, <1>4, <1>5

\* Code changes between runs.
LEMMA ChangeKeeps ==
    ASSUME RolloutInv, NEW p \in setting.changing, ChangeCode(p)
    PROVE  RolloutInv'
  <1> USE WiringNames, NoneHeld DEF RolloutInv, ChangeCode, chainVars, runVars
  <1>1. p \in Proxies
    BY DeploymentAssumption DEF RolloutTypeOK
  <1>2. status # "running" /\ locals = NoLocals /\ code' \in [Proxies -> Int]
    BY <1>1 DEF RolloutTypeOK
  <1>3. RolloutTypeOK' /\ EarlyEndsElsewhere'
    BY <1>2 DEF RolloutTypeOK, EarlyEndsElsewhere
  <1>4. HeldIsRecorded'
    BY <1>2 DEF HeldIsRecorded, Wiring
  <1>5. MinterStays'
    <2>1. CASE p \in {"Minter", "PriceOracle"}
      BY <2>1 DEF MinterStays
    <2>2. CASE p \notin {"Minter", "PriceOracle"}
      <3>1. code'["Minter"] = code["Minter"] /\ code'["PriceOracle"] = code["PriceOracle"]
        BY <1>1, <2>2 DEF RolloutTypeOK, Proxies
      <3>2. MinterRecorded => MinterRecorded'
        BY <3>1 DEF MinterRecorded, OracleRecorded, ImplementationRecorded, network
      <3> QED
        BY <2>2, <3>2 DEF MinterStays, minterOnRecord, network
    <2> QED
      BY <2>1, <2>2
  <1>6. OneMinterOnHardhat' /\ WiredOrPending'
    BY DEF OneMinterOnHardhat, WiredOrPending, Wired, minterOnRecord, minterArgs, network
  <1> QED
    BY <1>3, <1>4, <1>5, <1>6

-----------------------------------------------------------------------------
(* A contract is deployed, or found on record.                             *)

\* What is deployed under the names that matter.
LEMMA Contracts ==
    ASSUME setting \in Settings
    PROVE  /\ \A p \in {"PriceOracle", "Minter"} :
                contract(implementation(p)) = [name |-> implementation(p), code |-> code[p], args |-> <<>>]
           /\ contract(proxy("PriceOracle")).args[1] = locals[implementation("PriceOracle")]
           /\ contract(proxy("Minter")).args[1] = locals[implementation("Minter")]
           /\ contract(proxy("Minter")).args[5] = deployments[proxy("PriceOracle")]
           /\ network # "hardhat" =>
                /\ contract(proxy("PriceOracle")) =
                    [name |-> proxy("PriceOracle"), code |-> 0,
                     args |-> <<locals[implementation("PriceOracle")],
                                namedAccounts[network]["chainlinkAggregator"]>>]
                /\ contract(proxy("Minter")) =
                    [name |-> proxy("Minter"), code |-> 0,
                     args |-> <<locals[implementation("Minter")], namedAccounts[network]["vrfCoordinator"],
                                namedAccounts[network]["linkToken"], namedAccounts[network]["sIlvAddress"],
                                deployments[proxy("PriceOracle")]>>]
  <1>1. \A p \in {"PriceOracle", "Minter"} :
            contract(implementation(p)) = [name |-> implementation(p), code |-> code[p], args |-> <<>>]
    BY DEF contract, version, args, implementation, proxy, mock
  <1>2. args(proxy("PriceOracle")) = <<locals[implementation("PriceOracle")], account("chainlinkAggregator")>>
    BY DEF args, implementation, proxy, mock
  <1>3. args(proxy("Minter")) =
            <<locals[implementation("Minter")], account("vrfCoordinator"), account("linkToken"),
              account("sIlvAddress"), deployments[proxy("PriceOracle")]>>
    BY DEF args, implementation, proxy, mock, priceOracleAddress
  <1>4. ASSUME network # "hardhat",
               NEW a \in {"chainlinkAggregator", "vrfCoordinator", "linkToken", "sIlvAddress"}
        PROVE  account(a) = namedAccounts[network][a]
    <2>1. network \in {"mainnet", "ropsten"}
      BY <1>4, DeploymentAssumption DEF network, chainIds
    <2>2. a \in DOMAIN namedAccounts[network]
      BY <1>4, <2>1 DEF namedAccounts
    <2> QED
      BY <2>1, <2>2, DeploymentAssumption DEF account, lacks
  <1>5. \A p \in {"PriceOracle", "Minter"} :
            contract(proxy(p)) = [name |-> proxy(p), code |-> 0, args |-> args(proxy(p))]
    BY DEF contract, version, proxy
  <1> QED
    BY <1>1, <1>2, <1>3, <1>4, <1>5

LEMMA DeployFacts ==
    ASSUME RolloutInv, Deploy, NEW name, name = next[2]
    PROVE  /\ name \in Names /\ status = "running" /\ todo # <<>>
           /\ todo[1][1] = "deploy" /\ todo[1][2] = name
           /\ \E S : chain' \in Seq(S)
           /\ Len(chain) \in Nat /\ Len(chain') \in Nat /\ Len(chain) <= Len(chain')
           /\ \A k \in 1 .. Len(chain) : chain'[k] = chain[k]
           /\ deployments' \in [Names -> 0 .. Len(chain')]
           /\ locals' \in [Names -> Nat]
           /\ deployments'[name] # 0 /\ locals'[name] = deployments'[name]
           /\ chain'[deployments'[name]] = contract(name)
           /\ \A other \in Names \ {name} :
                deployments'[other] = deployments[other] /\ locals'[other] = locals[other]
           /\ onRecord(name) => deployments'[name] = deployments[name]
           /\ changed' = IF name = proxy("Minter") /\ ~onRecord(name) THEN {} ELSE changed
  <1> USE DEF RolloutInv
  <1>1. /\ Len(todo) \in Nat /\ 1 \in 1 .. Len(todo) /\ todo # <<>> /\ status = "running"
        /\ todo[1][1] = "deploy" /\ todo[1][2] = name
    BY TailFacts DEF Deploy, running, next, RolloutTypeOK
  <1>2. name \in Names
    BY <1>1 DEF Ordered
  <1>3. (\E S : chain \in Seq(S)) /\ Len(chain) \in Nat
    BY LenProperties DEF RolloutTypeOK
  <1> DEFINE address == IF onRecord(name) THEN deployments[name] ELSE newAddress
  <1>4. /\ chain' = IF onRecord(name) THEN chain ELSE Append(chain, contract(name))
        /\ deployments' = [deployments EXCEPT ![name] = address]
        /\ locals' = [locals EXCEPT ![name] = address]
        /\ changed' = IF name = proxy("Minter") /\ ~onRecord(name) THEN {} ELSE changed
    BY DEF Deploy
  <1>5. /\ deployments \in [Names -> 0 .. Len(chain)] /\ locals \in [Names -> Nat]
    BY DEF RolloutTypeOK
  <1>6. CASE onRecord(name)
    <2>1. address \in 0 .. Len(chain) /\ address = deployments[name] /\ address # 0
          /\ chain[address] = contract(name)
      BY <1>2, <1>5, <1>6 DEF onRecord
    <2> HIDE DEF address
    <2> QED
      BY <1>1, <1>2, <1>3, <1>4, <1>5, <1>6, <2>1
  <1>7. CASE ~onRecord(name)
    <2>1. address = Len(chain) + 1
      BY <1>7 DEF newAddress
    <2>2. /\ \E S : chain' \in Seq(S)
          /\ Len(chain') = Len(chain) + 1
          /\ \A k \in 1 .. Len(chain) : chain'[k] = chain[k]
          /\ chain'[Len(chain) + 1] = contract(name)
      BY <1>4, <1>7, ChainGrows
    <2> HIDE DEF address
    <2> QED
      BY <1>1, <1>2, <1>3, <1>4, <1>5, <1>7, <2>1, <2>2
  <1> QED
    BY <1>6, <1>7

\* While no code has changed, a Minter that is deployed is the one on record.
LEMMA MinterIsOnRecord ==
    ASSUME RolloutInv, Deploy, next[2] = proxy("Minter"), minterOnRecord # 0,
           changed \cap {"Minter", "PriceOracle"} = {}
    PROVE  onRecord(proxy("Minter"))
  <1> USE WiringNames DEF RolloutInv
  <1> DEFINE name == proxy("Minter")
  <1>1. /\ status = "running" /\ deploys(todo, 1, name)
        /\ 1 \in 1 .. Len(todo)
    <2>1. todo # <<>> /\ todo[1][1] = "deploy" /\ todo[1][2] = name /\ status = "running"
      BY DeployFacts
    <2> QED
      BY <2>1, TailFacts DEF deploys, RolloutTypeOK
  <1>2. network # "hardhat"
    BY <1>1 DEF OneMinterOnHardhat, DeploysMinter
  <1>3. MinterRecorded
    BY <1>2 DEF MinterStays
  <1>4. locals[implementation("Minter")] # 0
    BY <1>1 DEF Ordered, HeldBefore
  <1>5. locals[implementation("Minter")] = deployments[implementation("Minter")]
    BY <1>4 DEF HeldIsRecorded, Wiring
  <1>6. contract(name) = chain[deployments[name]]
    BY <1>2, <1>3, <1>5, Contracts DEF MinterRecorded, RolloutTypeOK
  <1> QED
    BY <1>6 DEF onRecord, minterOnRecord

LEMMA DeployKeeps ==
    ASSUME RolloutInv, Deploy
    PROVE  RolloutInv'
  <1> USE WiringNames DEF RolloutInv
  <1> DEFINE name == next[2]
  <1>1. /\ name \in Names /\ status = "running" /\ todo # <<>>
        /\ todo[1][1] = "deploy" /\ todo[1][2] = name
        /\ \E S : chain' \in Seq(S)
        /\ Len(chain) \in Nat /\ Len(chain') \in Nat /\ Len(chain) <= Len(chain')
        /\ \A k \in 1 .. Len(chain) : chain'[k] = chain[k]
        /\ deployments' \in [Names -> 0 .. Len(chain')]
        /\ locals' \in [Names -> Nat]
    BY DeployFacts
  <1>2. /\ deployments'[name] # 0 /\ locals'[name] = deployments'[name]
        /\ chain'[deployments'[name]] = contract(name)
        /\ \A other \in Names \ {name} :
             deployments'[other] = deployments[other] /\ locals'[other] = locals[other]
        /\ onRecord(name) => deployments'[name] = deployments[name]
        /\ changed' = IF name = proxy("Minter") /\ ~onRecord(name) THEN {} ELSE changed
    BY DeployFacts
  <1>3. /\ todo' = Tail(todo)
        /\ UNCHANGED <<setting, code, status, scripts>>
    BY DEF Deploy, stepDone
  <1>4. /\ \E S : todo' \in Seq(S)
        /\ Len(todo) \in Nat /\ Len(todo') = Len(todo) - 1 /\ 1 \in 1 .. Len(todo)
        /\ \A i \in 1 .. Len(todo') : i + 1 \in 1 .. Len(todo) /\ todo'[i] = todo[i + 1]
    BY <1>1, <1>3, TailFacts DEF RolloutTypeOK
  <1> HIDE DEF name
  <1>5. RolloutTypeOK'
    BY <1>1, <1>3, <1>4 DEF RolloutTypeOK
  <1>6. Ordered(todo', locals')
    <2>1. \A other \in Names : locals[other] # 0 => locals'[other] # 0
      BY <1>1, <1>2
    <2>2. locals'[todo[1][2]] # 0
      BY <1>1, <1>2
    <2>3. (\E S : todo \in Seq(S)) /\ todo # <<>> /\ Ordered(todo, locals)
      BY <1>1 DEF RolloutTypeOK
    <2> HIDE DEF RolloutInv
    <2>4. Ordered(Tail(todo), locals')
      BY <2>1, <2>2, <2>3, TailIsOrdered
    <2> QED
      BY <1>3, <2>4
  <1>7. /\ name = proxy("PriceOracle") => locals[implementation("PriceOracle")] # 0
        /\ name = proxy("Minter") =>
            /\ locals[implementation("Minter")] # 0 /\ locals[proxy("PriceOracle")] # 0
            /\ \A j \in 2 .. Len(todo) : todo[j][1] = "deploy" => todo[j][2] \notin Wiring
    <2> HIDE DEF RolloutInv
    <2>1. Ordered(todo, locals)
      BY DEF RolloutInv
    <2>2. \A other : HeldBefore(todo, locals, 1, other) => locals[other] # 0
      BY DEF HeldBefore
    <2>3. ASSUME name = proxy("PriceOracle")
          PROVE  locals[implementation("PriceOracle")] # 0
      BY <1>1, <1>4, <2>1, <2>2, <2>3 DEF Ordered, deploys
    <2>4. ASSUME name = proxy("Minter")
          PROVE  /\ locals[implementation("Minter")] # 0 /\ locals[proxy("PriceOracle")] # 0
                 /\ \A j \in 2 .. Len(todo) : todo[j][1] = "deploy" => todo[j][2] \notin Wiring
      <3>1. deploys(todo, 1, proxy("Minter"))
        BY <1>1, <2>4 DEF deploys
      <3> QED
        BY <1>4, <2>1, <2>2, <3>1 DEF Ordered
    <2> QED
      BY <2>3, <2>4
  <1>8. EarlyEndsElsewhere'
    BY <1>3, <1>4 DEF EarlyEndsElsewhere
  <1>9. DeploysMinter(todo') => DeploysMinter(todo) /\ name # proxy("Minter")
    <2>1. ASSUME NEW i \in 1 .. Len(todo'), deploys(todo', i, proxy("Minter"))
          PROVE  DeploysMinter(todo) /\ name # proxy("Minter")
      <3>1. i + 1 \in 1 .. Len(todo) /\ i + 1 \in 2 .. Len(todo) /\ deploys(todo, i + 1, proxy("Minter"))
        BY <1>4, <2>1 DEF deploys
      <3> QED
        BY <1>7, <3>1 DEF DeploysMinter, deploys, Wiring
    <2> QED
      BY <2>1 DEF DeploysMinter
  <1>10. OneMinterOnHardhat'
    <2>1. name # proxy("Minter") => minterOnRecord' = minterOnRecord
      BY <1>2 DEF minterOnRecord, Wiring
    <2> QED
      BY <1>1, <1>3, <1>9, <2>1 DEF OneMinterOnHardhat, network
  <1>11. DeploysMinter(todo) => DeploysMinter(todo') \/ name = proxy("Minter")
    <2>1. ASSUME NEW i \in 1 .. Len(todo), deploys(todo, i, proxy("Minter")), name # proxy("Minter")
          PROVE  DeploysMinter(todo')
      <3>1. i # 1
        BY <1>1, <2>1 DEF deploys
      <3>2. i - 1 \in 1 .. Len(todo') /\ (i - 1) + 1 = i
        BY <1>4, <3>1
      <3>3. todo'[i - 1] = todo[i]
        BY <1>4, <3>2
      <3> QED
        BY <2>1, <3>2, <3>3 DEF DeploysMinter, deploys
    <2> QED
      BY <2>1 DEF DeploysMinter
  <1>12. ASSUME NEW p \in {"PriceOracle", "Minter"}, name = implementation(p), ImplementationRecorded(p)
         PROVE  onRecord(name)
    BY <1>12, Contracts DEF onRecord, ImplementationRecorded, RolloutTypeOK
  <1>13. ASSUME network # "hardhat", name = proxy("PriceOracle"), OracleRecorded
         PROVE  onRecord(name)
    <2>1. locals[implementation("PriceOracle")] = deployments[implementation("PriceOracle")]
      BY <1>7, <1>13 DEF HeldIsRecorded, Wiring
    <2> QED
      BY <1>13, <2>1, Contracts DEF onRecord, OracleRecorded, RolloutTypeOK
  <1>14. ASSUME NEW p \in {"PriceOracle", "Minter"}, locals'[implementation(p)] # 0
         PROVE  ImplementationRecorded(p)'
    <2>1. CASE name = implementation(p)
      BY <1>2, <1>3, <2>1, Contracts DEF ImplementationRecorded, RolloutTypeOK
    <2>2. CASE name # implementation(p)
      <3>1. locals[implementation(p)] # 0 /\ deployments'[implementation(p)] = deployments[implementation(p)]
        BY <1>2, <1>14, <2>2 DEF Wiring
      <3> QED
        BY <1>1, <1>3, <3>1, RecordsStayOnGrowth DEF HeldIsRecorded
    <2> QED
      BY <2>1, <2>2
  <1>15. ASSUME network # "hardhat", OracleRecorded
         PROVE  \A n \in Wiring \ {implementation("Minter"), proxy("Minter")} : deployments'[n] = deployments[n]
    BY <1>2, <1>12, <1>13, <1>15 DEF OracleRecorded, Wiring
  <1>16. ASSUME network # "hardhat", locals'[proxy("PriceOracle")] # 0
         PROVE  OracleRecorded'
    <2>1. CASE name = proxy("PriceOracle")
      <3>1. /\ locals[implementation("PriceOracle")] # 0
            /\ locals[implementation("PriceOracle")] = deployments[implementation("PriceOracle")]
        BY <1>7, <2>1 DEF HeldIsRecorded, Wiring
      <3>2. /\ locals'[implementation("PriceOracle")] = locals[implementation("PriceOracle")]
            /\ deployments'[implementation("PriceOracle")] = deployments[implementation("PriceOracle")]
        BY <1>2, <2>1 DEF Wiring
      <3>3. ImplementationRecorded("PriceOracle")'
        BY <1>14, <3>1, <3>2
      <3> QED
        BY <1>2, <1>3, <1>16, <2>1, <3>1, <3>2, <3>3, Contracts DEF OracleRecorded, RolloutTypeOK, network
    <2>2. CASE name # proxy("PriceOracle")
      <3>1. OracleRecorded
        BY <1>2, <1>16, <2>2 DEF HeldIsRecorded, Wiring
      <3> QED
        BY <1>1, <1>3, <1>15, <1>16, <3>1, RecordsStayOnGrowth
    <2> QED
      BY <2>1, <2>2
  <1>17. HeldIsRecorded'
    <2>1. ASSUME NEW n \in Wiring \ {proxy("Minter")}, locals'[n] # 0
          PROVE  deployments'[n] = locals'[n]
      <3>1. CASE n = name
        BY <1>2, <3>1
      <3>2. CASE n # name
        BY <1>2, <2>1, <3>2 DEF HeldIsRecorded
      <3> QED
        BY <3>1, <3>2
    <2>2. network' = network
      BY <1>3 DEF network
    <2> QED
      BY <1>14, <1>16, <2>1, <2>2 DEF HeldIsRecorded
  <1>18. MinterStays'
    <2> SUFFICES ASSUME network # "hardhat", minterOnRecord' # 0, changed' \cap {"Minter", "PriceOracle"} = {}
                 PROVE  MinterRecorded'
      BY <1>3 DEF MinterStays, network
    <2>1. CASE name = proxy("Minter")
      <3>1. /\ \A n \in Wiring \ {proxy("Minter")} : deployments'[n] = deployments[n] /\ locals'[n] = locals[n]
        BY <1>2, <2>1
      <3>2. ImplementationRecorded("Minter")' /\ OracleRecorded'
        BY <1>7, <1>14, <1>16, <2>1, <3>1 DEF Wiring
      <3>3. locals[implementation("Minter")] = deployments[implementation("Minter")]
        BY <1>7, <2>1 DEF HeldIsRecorded, Wiring
      <3>4. /\ deployments'[implementation("Minter")] = deployments[implementation("Minter")]
            /\ deployments'[proxy("PriceOracle")] = deployments[proxy("PriceOracle")]
        BY <3>1 DEF Wiring
      <3>5. chain'[deployments'[proxy("Minter")]] = contract(proxy("Minter"))
        BY <1>2, <2>1
      <3> QED
        BY <1>3, <3>2, <3>3, <3>4, <3>5, Contracts DEF MinterRecorded, RolloutTypeOK, network
    <2>2. CASE name # proxy("Minter")
      <3>1. minterOnRecord' = minterOnRecord /\ changed' = changed
        BY <1>2, <2>2 DEF minterOnRecord, Wiring
      <3>2. MinterRecorded
        BY <3>1 DEF MinterStays
      <3>3. \A n \in Wiring : deployments'[n] = deployments[n]
        BY <1>2, <1>12, <1>15, <2>2, <3>2 DEF MinterRecorded, Wiring
      <3> QED
        BY <1>1, <1>3, <3>1, <3>2, <3>3, RecordsStayOnGrowth
    <2> QED
      BY <2>1, <2>2
  <1>19. WiredOrPending'
    <2> SUFFICES ASSUME "Minter" \in scripts, ~DeploysMinter(todo')
                 PROVE  Wired' /\ LeavesWiring(todo')
      BY <1>3 DEF WiredOrPending
    <2>1. CASE name = proxy("Minter")
      <3>1. LeavesWiring(todo')
        <4> SUFFICES ASSUME NEW i \in 1 .. Len(todo'), todo'[i][1] = "deploy"
                     PROVE  todo'[i][2] \notin Wiring
          BY DEF LeavesWiring
        <4>1. i + 1 \in 2 .. Len(todo) /\ todo'[i] = todo[i + 1]
          BY <1>4
        <4> QED
          BY <1>7, <2>1, <4>1
      <3>2. /\ deployments'[implementation("Minter")] = deployments[implementation("Minter")]
            /\ deployments'[proxy("PriceOracle")] = deployments[proxy("PriceOracle")]
        BY <1>2, <2>1 DEF Wiring
      <3>3. /\ locals[implementation("Minter")] = deployments[implementation("Minter")]
            /\ deployments[proxy("PriceOracle")] # 0
        BY <1>7, <2>1 DEF HeldIsRecorded, Wiring
      <3>4. minterArgs' = contract(proxy("Minter")).args /\ minterOnRecord' # 0
        BY <1>2, <2>1 DEF minterArgs, minterOnRecord
      <3> QED
        BY <3>1, <3>2, <3>3, <3>4, Contracts DEF Wired, RolloutTypeOK
    <2>2. CASE name # proxy("Minter")
      <3>1. Wired /\ LeavesWiring(todo)
        BY <1>1, <1>11, <2>2 DEF WiredOrPending
      <3>2. name \notin Wiring
        BY <1>1, <1>4, <3>1 DEF LeavesWiring
      <3>3. \A n \in Wiring : deployments'[n] = deployments[n]
        BY <1>2, <3>2
      <3> QED
        BY <1>1, <1>3, <1>4, <3>1, <3>3, RecordsStayOnGrowth DEF LeavesWiring
    <2> QED
      BY <2>1, <2>2
  <1> QED
    BY <1>5, <1>6, <1>8, <1>10, <1>17, <1>18, <1>19

-----------------------------------------------------------------------------
(* Every step keeps the invariant.                                         *)

LEMMA InitHolds == Init => RolloutInv
  <1> SUFFICES ASSUME Init
               PROVE  RolloutInv
    OBVIOUS
  <1> USE EmptyIsFine, NoneHeld, WiringNames DEF Init, DeploymentInit
  <1>1. RolloutTypeOK
    <2>1. \A n \in Names : deployments[n] = 0
      BY DEF NoLocals
    <2>2. deployments \in [Names -> 0 .. Len(chain)]
      BY DEF NoLocals
    <2> QED
      BY <2>2 DEF RolloutTypeOK
  <1>2. minterOnRecord = 0
    BY DEF minterOnRecord, Wiring
  <1>3. HeldIsRecorded
    BY DEF HeldIsRecorded, Wiring
  <1> QED
    BY <1>1, <1>2, <1>3
    DEF RolloutInv, MinterStays, OneMinterOnHardhat, WiredOrPending, EarlyEndsElsewhere

LEMMA DeploymentKeeps ==
    ASSUME RolloutInv, DeploymentNext
    PROVE  RolloutInv'
  <1> USE DEF codeVars, chainVars, runVars
  <1>1. ASSUME NEW tags \in setting.tagSets, StartDeploy(tags)
        PROVE  RolloutInv'
    BY <1>1, StartKeeps, StepsAreOrdered DEF StartDeploy, RolloutInv, RolloutTypeOK
  <1>2. CASE Deploy
    BY <1>2, DeployKeeps
  <1>3. CASE EncodeFails
    BY <1>3, ThrowKeeps DEF EncodeFails
  <1>4. CASE GetMinter
    <2>1. status = "running" /\ todo # <<>> /\ next[1] # "deploy"
      BY <1>4 DEF GetMinter, running
    <2>2. CASE minterOnRecord # 0
      BY <1>4, <2>1, <2>2, AdvanceKeeps DEF GetMinter, stepDone, minterOnRecord
    <2>3. CASE minterOnRecord = 0
      BY <1>4, <2>3, ThrowKeeps DEF GetMinter, minterOnRecord
    <2> QED
      BY <2>2, <2>3
  <1>5. CASE SendSetter
    <2>1. status = "running" /\ todo # <<>> /\ next[1] # "deploy"
      BY <1>5 DEF SendSetter, running, setters
    <2>2. CASE stepDone /\ UNCHANGED locals
      BY <1>5, <2>1, <2>2, AdvanceKeeps DEF SendSetter, stepDone
    <2>3. CASE throws
      BY <1>5, <2>3, ThrowKeeps DEF SendSetter
    <2> QED
      BY <1>5, <2>2, <2>3 DEF SendSetter
  <1>6. CASE RunEnds
    BY <1>6, EndKeeps DEF RunEnds
  <1>7. CASE DeployUnrecorded
    BY <1>7, ThrowKeeps DEF DeployUnrecorded
  <1>8. CASE StepFails
    BY <1>8, ThrowKeeps DEF StepFails
  <1>9. CASE Mined
    BY <1>9, OthersKeep DEF Mined
  <1>10. ASSUME NEW p \in setting.changing, ChangeCode(p)
         PROVE  RolloutInv'
    BY <1>10, ChangeKeeps
  <1> QED
    BY <1>1, <1>2, <1>3, <1>4, <1>5, <1>6, <1>7, <1>8, <1>9, <1>10 DEF DeploymentNext, DeployStep

LEMMA OnboardingKeeps ==
    ASSUME RolloutInv, OnboardingStep \/ AnswerLost
    PROVE  RolloutInv'
  <1> USE DEF unchangedButRun, codeVars, chainVars
  <1>1. ASSUME throws, unchangedButRun PROVE RolloutInv'
    BY <1>1, ThrowKeeps
  <1>2. ASSUME status = "running", todo # <<>>, next[1] # "deploy", todo' = Tail(todo),
               UNCHANGED <<status, scripts>>, unchangedButRun
        PROVE  RolloutInv'
    BY <1>2, AdvanceKeeps
  <1>3. CASE BuildClient
    BY <1>1, <1>2, <1>3 DEF BuildClient, running, stepDone
  <1>4. CASE GetUser
    <2>1. /\ status = "running" /\ todo # <<>> /\ next[1] = "getUser"
          /\ UNCHANGED <<status, scripts>> /\ unchangedButRun
          /\ todo' = <<>> \/ todo' = Tail(todo)
      BY <1>4 DEF GetUser, onGetUserError, running
    <2>2. "Minter" \notin scripts
      BY <2>1, TailFacts DEF RolloutInv, RolloutTypeOK, EarlyEndsElsewhere, next
    <2> QED
      BY <1>2, <2>1, <2>2, EarlyEndKeeps
  <1>5. CASE CheckFirst
    BY <1>1, <1>2, <1>5 DEF CheckFirst, running, stepDone
  <1>6. CASE CallImx
    BY <1>2, <1>6 DEF CallImx, request, running, stepDone
  <1>7. CASE CallRefused
    BY <1>1, <1>7 DEF CallRefused
  <1>8. CASE AnswerLost
    BY <1>1, <1>8 DEF AnswerLost
  <1> QED
    BY <1>3, <1>4, <1>5, <1>6, <1>7, <1>8 DEF OnboardingStep

Undeploying(s) == (\E S : s \in Seq(S)) /\ \A i \in 1 .. Len(s) : s[i][1] # "deploy"

LEMMA StartOnboardingKeeps ==
    ASSUME RolloutInv, NEW s \in setting.onboarding, StartOnboarding(s)
    PROVE  RolloutInv'
  <1>1. s \in DOMAIN onboarding
    BY OnboardingAssumption DEF RolloutInv, RolloutTypeOK
  <1>2. s \in {"register_user", "register_user_onchain", "create_project", "create_collection",
               "add_metadata_schema"}
    BY <1>1 DEF onboarding
  <1>3. ASSUME NEW a, NEW b, a # "deploy", b # "deploy"
        PROVE  Undeploying(<< <<a>>, <<b>> >>)
    <2>1. << <<a>>, <<b>> >> \in Seq({<<a>>, <<b>>})
      OBVIOUS
    <2>2. \A i \in 1 .. Len(<< <<a>>, <<b>> >>) : << <<a>>, <<b>> >>[i][1] \in {a, b}
      OBVIOUS
    <2> QED
      BY <1>3, <2>1, <2>2 DEF Undeploying
  <1>7. ASSUME NEW a, NEW b, NEW c, a # "deploy", b # "deploy", c # "deploy"
         PROVE  Undeploying(<< <<a>>, <<b>>, <<c>> >>)
    <2>1. << <<a>>, <<b>>, <<c>> >> \in Seq({<<a>>, <<b>>, <<c>>})
      OBVIOUS
    <2>2. \A i \in 1 .. Len(<< <<a>>, <<b>>, <<c>> >>) : << <<a>>, <<b>>, <<c>> >>[i][1] \in {a, b, c}
      OBVIOUS
    <2> QED
      BY <1>7, <2>1, <2>2 DEF Undeploying
  <1>4. Undeploying(onboarding[s])
    <2>1. Undeploying(<< <<"client">>, <<"getUser">>, <<"registerImx">> >>)
      BY <1>7
    <2>2. Undeploying(<< <<"client">>, <<"getSignableRegistration">>, <<"registerStark">> >>)
      BY <1>7
    <2>3. Undeploying(<< <<"client">>, <<"createProject">> >>)
      BY <1>3
    <2>4. Undeploying(<< <<"client">>, <<"getProject">>, <<"createCollection">> >>)
      BY <1>7
    <2>5. Undeploying(<< <<"client">>, <<"getCollection">>, <<"addMetadataSchema">> >>)
      BY <1>7
    <2> QED
      BY <1>2, <2>1, <2>2, <2>3, <2>4, <2>5
      DEF onboarding, register_user, register_user_onchain, create_project, create_collection,
          add_metadata_schema
  <1>5. Ordered(onboarding[s], NoLocals)
    BY <1>4 DEF Undeploying, Ordered, deploys
  <1>6. begin({s}, onboarding[s]) /\ "Minter" \notin {s}
    BY <1>2 DEF StartOnboarding
  <1> QED
    BY <1>4, <1>5, <1>6, StartKeeps DEF Undeploying

LEMMA RolloutInvHolds == Spec => []RolloutInv
  <1>1. ASSUME RolloutInv, [Next]_vars
        PROVE  RolloutInv'
    <2>1. CASE DeploymentNext
      BY <1>1, <2>1, DeploymentKeeps
    <2>2. ASSUME NEW s \in setting.onboarding, StartOnboarding(s)
          PROVE  RolloutInv'
      BY <1>1, <2>2, StartOnboardingKeeps
    <2>3. CASE EditConfig
      BY <1>1, <2>3, OthersKeep DEF EditConfig, deploymentVars, codeVars, chainVars, runVars
    <2>4. CASE OnboardingStep \/ AnswerLost
      BY <1>1, <2>4, OnboardingKeeps
    <2>5. CASE UNCHANGED vars
      BY <1>1, <2>5, OthersKeep DEF vars, deploymentVars, codeVars, chainVars, runVars
    <2> QED
      BY <1>1, <2>1, <2>2, <2>3, <2>4, <2>5 DEF Next
  <1> QED
    BY <1>1, InitHolds, PTL DEF Spec

-----------------------------------------------------------------------------
(* Collections.                                                            *)

\* A contract that accepts mints from the contract of IMX of its network.
MintedByImx(address) ==
    /\ address \in 1 .. Len(chain)
    /\ chain[address].args[2] = imxConfig[network].stark_contract_address

Layers == {"PortraitLayer", "AccessoryLayer"}

CollectionInv ==
    /\ \A p \in Layers : deployments[proxy(p)] # 0 => MintedByImx(deployments[proxy(p)])
    /\ config.contract_address # Placeholder => MintedByImx(config.contract_address)
    /\ \A c \in collections : MintedByImx(c.contract)
    /\ DOMAIN config = {"project_id", "contract_address", "schema_address"}

\* A layer that can be deployed at all is given that contract.
LEMMA LayersAreMintedByImx ==
    ASSUME setting \in Settings, NEW p \in Layers, encodes(args(proxy(p)))
    PROVE  contract(proxy(p)).args[2] = imxConfig[network].stark_contract_address
  <1>1. args(proxy(p)) = <<locals[implementation(p)], account("imxMinter")>>
    BY DEF args, Layers, implementation, proxy, mock
  <1>2. account("imxMinter") # Undefined
    BY <1>1 DEF encodes
  <1>3. ~lacks("imxMinter") /\ account("imxMinter") = namedAccounts[network]["imxMinter"]
    BY <1>2 DEF account, Mockable
  <1>4. network \in {"hardhat", "mainnet", "ropsten"}
    BY DeploymentAssumption DEF network, chainIds
  <1>5. network # "hardhat"
    BY <1>3 DEF lacks, namedAccounts
  <1>6. namedAccounts[network]["imxMinter"] = imxConfig[network].stark_contract_address
    BY <1>4, <1>5 DEF namedAccounts, imxConfig
  <1> QED
    BY <1>1, <1>3, <1>6 DEF contract

LEMMA ChainOnlyGrows ==
    ASSUME RolloutInv, [Next]_vars
    PROVE  /\ Len(chain) \in Nat /\ Len(chain') \in Nat /\ Len(chain) <= Len(chain')
           /\ \A k \in 1 .. Len(chain) : chain'[k] = chain[k]
           /\ network' = network
  <1>1. UNCHANGED chain \/ Deploy \/ DeployUnrecorded
    BY DEF Next, DeploymentNext, DeployStep, StartDeploy, begin, EncodeFails, GetMinter, SendSetter,
        RunEnds, StepFails, Mined, ChangeCode, StartOnboarding, EditConfig, OnboardingStep, BuildClient,
        GetUser, CheckFirst, CallImx, CallRefused, AnswerLost, unchangedButRun, vars, deploymentVars,
        chainVars
  <1>2. UNCHANGED setting
    BY DEF Next, DeploymentNext, DeployStep, StartDeploy, begin, EncodeFails, GetMinter, SendSetter,
        RunEnds, StepFails, Mined, ChangeCode, StartOnboarding, EditConfig, OnboardingStep, BuildClient,
        GetUser, CheckFirst, CallImx, CallRefused, AnswerLost, unchangedButRun, vars, deploymentVars,
        Deploy, DeployUnrecorded
  <1>3. Len(chain) \in Nat
    BY LenProperties DEF RolloutInv, RolloutTypeOK
  <1> QED
    BY <1>1, <1>2, <1>3, DeployFacts, ChainGrows DEF RolloutInv, DeployUnrecorded, network

LEMMA CollectionInvKept ==
    ASSUME RolloutInv, CollectionInv, [Next]_vars
    PROVE  CollectionInv'
  <1>1. /\ Len(chain) \in Nat /\ Len(chain') \in Nat /\ Len(chain) <= Len(chain')
        /\ \A k \in 1 .. Len(chain) : chain'[k] = chain[k]
        /\ network' = network
    BY ChainOnlyGrows
  <1>2. \A address : MintedByImx(address) => MintedByImx(address)'
    BY <1>1 DEF MintedByImx
  <1>3. ASSUME NEW p \in Layers, deployments'[proxy(p)] # 0
        PROVE  MintedByImx(deployments[proxy(p)])'
    <2>1. proxy(p) \in Names
      BY DEF Layers, Names, Proxies
    <2>2. CASE UNCHANGED deployments
      BY <1>2, <1>3, <2>2 DEF CollectionInv
    <2>3. CASE Deploy
      <3>1. CASE next[2] = proxy(p)
        <4>1. encodes(args(proxy(p))) /\ setting \in Settings
          BY <2>3, <3>1 DEF Deploy, RolloutInv, RolloutTypeOK
        <4>2. /\ chain'[deployments'[proxy(p)]] = contract(proxy(p))
              /\ deployments' \in [Names -> 0 .. Len(chain')]
          BY <2>3, <3>1, DeployFacts
        <4> QED
          BY <1>1, <1>3, <2>1, <4>1, <4>2, LayersAreMintedByImx DEF MintedByImx
      <3>2. CASE next[2] # proxy(p)
        BY <1>2, <1>3, <2>1, <2>3, <3>2, DeployFacts DEF CollectionInv
      <3> QED
        BY <3>1, <3>2
    <2>4. UNCHANGED deployments \/ Deploy
      BY DEF Next, DeploymentNext, DeployStep, StartDeploy, begin, EncodeFails, GetMinter, SendSetter,
          RunEnds, DeployUnrecorded, StepFails, Mined, ChangeCode, StartOnboarding, EditConfig,
          OnboardingStep, BuildClient, GetUser, CheckFirst, CallImx, CallRefused, AnswerLost,
          unchangedButRun, vars, deploymentVars, chainVars
    <2> QED
      BY <2>2, <2>3, <2>4
  <1>4. \/ UNCHANGED config
        \/ EditConfig
    BY DEF Next, StartOnboarding, OnboardingStep, BuildClient, GetUser, CheckFirst, CallImx, CallRefused,
        AnswerLost, unchangedButRun, vars
  <1>5. /\ config'.contract_address # Placeholder => MintedByImx(config.contract_address)'
        /\ DOMAIN config' = {"project_id", "contract_address", "schema_address"}
    <2>1. CASE UNCHANGED config
      BY <1>2, <2>1 DEF CollectionInv
    <2>2. CASE EditConfig
      <3>1. /\ DOMAIN config' = DOMAIN config
            /\ \/ config'.contract_address = config.contract_address
               \/ config'.contract_address \in layersOnRecord
        BY <2>2 DEF EditConfig, CollectionInv
      <3>2. \A address \in layersOnRecord : MintedByImx(address)
        BY DEF layersOnRecord, CollectionInv, Layers
      <3> QED
        BY <1>2, <3>1, <3>2 DEF CollectionInv
    <2> QED
      BY <1>4, <2>1, <2>2
  <1>6. UNCHANGED collections \/ createCollection
    BY DEF Next, StartOnboarding, EditConfig, OnboardingStep, BuildClient, GetUser, CheckFirst, CallImx,
        CallRefused, AnswerLost, request, registerImx, registerStark, createProject, addMetadataSchema,
        vars, imxVars
  <1>7. \A c \in collections' : MintedByImx(c.contract)'
    BY <1>2, <1>6 DEF CollectionInv, createCollection
  <1> QED
    BY <1>3, <1>5, <1>7 DEF CollectionInv

LEMMA CollectionInvHolds == Spec => []CollectionInv
  <1>1. Init => CollectionInv
    <2> SUFFICES ASSUME Init
                 PROVE  CollectionInv
      OBVIOUS
    <2>1. \A p \in Layers : deployments[proxy(p)] = 0
      BY DEF Init, DeploymentInit, NoLocals, Names, Proxies, Layers
    <2> QED
      BY <2>1 DEF Init, CollectionInv
  <1> QED
    BY <1>1, CollectionInvKept, RolloutInvHolds, PTL DEF Spec

-----------------------------------------------------------------------------
(* Tables.                                                                 *)

BoxTypes == 1 .. Len(setting.boxTypes)
infoFor(setter, k) == [to |-> minterOnRecord, setter |-> setter, boxType |-> setting.boxTypes[k]]
sent(tx) == tx \in infoSet \/ \E i \in 1 .. Len(pool) : pool[i] = tx

\* What is to be sent once the Minter is looked up by step g, the contracts
\* having been deployed before that.
TablesAhead(s, g) ==
    /\ g \in 1 .. Len(s)
    /\ \A j \in 1 .. g - 1 : s[j][1] = "deploy"
    /\ s[g][1] = "get"
    /\ \A j \in g + 1 .. Len(s) : s[j][1] \in setters
    /\ \A setter \in setters, k \in BoxTypes :
        \E j \in g + 1 .. Len(s) : s[j] = <<setter, setting.boxTypes[k]>>

\* What is sent already, or is to be sent to the Minter that was looked up.
TablesOnTheirWay(s) ==
    /\ locals[proxy("Minter")] = minterOnRecord
    /\ \A j \in 1 .. Len(s) : s[j][1] \in setters
    /\ \A setter \in setters, k \in BoxTypes :
        sent(infoFor(setter, k)) \/ \E j \in 1 .. Len(s) : s[j] = <<setter, setting.boxTypes[k]>>

TablesInv ==
    /\ \E S : pool \in Seq(S)
    /\ "InitMinter" \in scripts =>
        /\ status = "running" => (\E g : TablesAhead(todo, g)) \/ TablesOnTheirWay(todo)
        /\ status = "ended" => \A setter \in setters, k \in BoxTypes : sent(infoFor(setter, k))

\* The Minter accepts every table of deploy/config.ts.
LEMMA TablesAreValid ==
    ASSUME setting \in Settings, NEW setter \in setters, NEW k \in BoxTypes
    PROVE  ~reverts(infoFor(setter, k))
  <1>1. setting.boxTypes[k] \in {"Bronze", "Silver", "Gold", "Platinum", "Diamond"}
    <2>1. setting.boxTypes \in Seq(ToSet(BoxType))
      BY DeploymentAssumption
    <2>2. ToSet(BoxType) = {"Bronze", "Silver", "Gold", "Platinum", "Diamond"}
      BY DEF ToSet, BoxType
    <2>3. setting.boxTypes[k] \in ToSet(BoxType)
      BY <2>1, ElementOfSeq DEF BoxTypes
    <2> QED
      BY <2>2, <2>3
  <1>2. ASSUME NEW a \in Nat, NEW b \in Nat, NEW c \in Nat, NEW d \in Nat, a <= b, b <= c, c <= d, d <= 10000
        PROVE  validateTierChances(<<a, b, c, d>>)
    <2>1. Len(<<a, b, c, d>>) = 4
      OBVIOUS
    <2>2. \A i \in 1 .. 4 - 1 : i \in {1, 2, 3}
      OBVIOUS
    <2> QED
      BY <1>2, <2>1, <2>2 DEF validateTierChances
  <1>3. CASE setter = "setPortraitMintInfo"
    <2>1. mintInfo(setter, setting.boxTypes[k]).tierChances \in
            {<<8000, 9700, 9930, 9980>>, <<6100, 8800, 9700, 9950>>, <<2400, 6600, 8800, 9700>>,
             <<500, 2000, 4250, 8250>>, <<200, 1000, 2500, 5000>>}
      BY <1>1, <1>3 DEF mintInfo, PORTRAIT_MINT_INFO, portraitInfo
    <2> QED
      BY <1>2, <2>1 DEF reverts, infoFor
  <1>4. CASE setter = "setAccessoryMintInfo"
    <2>1. mintInfo(setter, setting.boxTypes[k]).tierChances \in
            {<<8100, 9200, 9700, 9900>>, <<3000, 7600, 8800, 9700>>, <<1500, 4700, 7200, 9000>>,
             <<500, 2000, 5300, 8000>>, <<100, 600, 2800, 6000>>}
      BY <1>1, <1>4 DEF mintInfo, ACCESSORY_MINT_INFO, accessoryInfo
    <2> QED
      BY <1>2, <2>1 DEF reverts, infoFor
  <1> QED
    BY <1>3, <1>4 DEF setters

\* All steps of s deploy.
Deploying(s) == (\E S : s \in Seq(S)) /\ \A i \in 1 .. Len(s) : s[i][1] = "deploy"

LEMMA DeployingOne ==
    ASSUME NEW a
    PROVE  Deploying(<< <<"deploy", a>> >>)
  <1> DEFINE one == << <<"deploy", a>> >>
  <1>1. one \in Seq({<<"deploy", a>>}) /\ Len(one) = 1 /\ one[1] = <<"deploy", a>>
    OBVIOUS
  <1> HIDE DEF one
  <1>2. Deploying(one)
    BY <1>1 DEF Deploying
  <1> QED
    BY <1>2 DEF one

LEMMA DeployingTwo ==
    ASSUME NEW a, NEW b
    PROVE  Deploying(<< <<"deploy", a>>, <<"deploy", b>> >>)
  <1> DEFINE two == << <<"deploy", a>>, <<"deploy", b>> >>
  <1>1. /\ two \in Seq({<<"deploy", a>>, <<"deploy", b>>}) /\ Len(two) = 2
        /\ two[1] = <<"deploy", a>> /\ two[2] = <<"deploy", b>>
    OBVIOUS
  <1> HIDE DEF two
  <1>2. \A i \in 1 .. 2 : i = 1 \/ i = 2
    OBVIOUS
  <1>3. Deploying(two)
    BY <1>1, <1>2 DEF Deploying
  <1> QED
    BY <1>3 DEF two

LEMMA DeployingConcat ==
    ASSUME NEW s, NEW t, Deploying(s), Deploying(t)
    PROVE  Deploying(s \o t)
  <1>1. PICK S : s \in Seq(S) /\ t \in Seq(S) /\ s \o t \in Seq(S)
    BY CommonSeq DEF Deploying
  <1>2. /\ Len(s \o t) = Len(s) + Len(t) /\ Len(s) \in Nat /\ Len(t) \in Nat
        /\ \A i \in 1 .. Len(s \o t) : (s \o t)[i] = IF i <= Len(s) THEN s[i] ELSE t[i - Len(s)]
    BY <1>1, ConcatProperties
  <1>3. ASSUME NEW i \in 1 .. Len(s \o t)
        PROVE  (s \o t)[i][1] = "deploy"
    <2>1. CASE i <= Len(s)
      BY <1>2, <2>1 DEF Deploying
    <2>2. CASE i > Len(s)
      BY <1>2, <2>2 DEF Deploying
    <2> QED
      BY <1>2, <2>1, <2>2
  <1> QED
    BY <1>1, <1>3 DEF Deploying

\* What a run that initializes the Minter sets out to do.
LEMMA StepsHaveTables ==
    ASSUME setting \in Settings, NEW tags, "InitMinter" \in tags
    PROVE  \E g : TablesAhead(steps(tags), g)
  <1> DEFINE portrait == IF "PortraitLayer" \in tags THEN deployPortraitLayer ELSE <<>>
             accessory == IF "AccessoryLayer" \in tags THEN deployAccessoryLayer ELSE <<>>
             minter == IF "Minter" \in tags THEN deployMinter ELSE <<>>
             deployed == (portrait \o accessory) \o minter
             n == Len(setting.boxTypes)
             tables == setInfo(n)
  <1>1. steps(tags) = deployed \o (<< <<"get", "Minter">> >> \o tables)
    BY DEF steps, initMinter
  <1>2. Deploying(deployed)
    <2>1. Deploying(<<>>)
      BY DEF Deploying
    <2>2. \A p : Deploying(deployProxy(p))
      BY DeployingTwo DEF deployProxy
    <2>3. \A a \in Mockable : Deploying(mockIfNeeded(a))
      BY <2>1, DeployingOne DEF mockIfNeeded
    <2>4. Deploying(mocks)
      BY <2>3, DeployingConcat DEF mocks, Mockable
    <2>5. Deploying(deployMinter)
      BY <2>2, <2>4, DeployingConcat DEF deployMinter
    <2> QED
      BY <2>1, <2>2, <2>5, DeployingConcat DEF deployPortraitLayer, deployAccessoryLayer
  <1>3. n \in Nat
    BY DeploymentAssumption, LenProperties
  <1>4. /\ \E S : tables \in Seq(S)
        /\ Len(tables) = 2 * n
        /\ \A i \in 1 .. 2 * n : tables[i][1] \in setters
    <2> DEFINE S == {tables[i] : i \in 1 .. 2 * n}
    <2>1. tables \in [1 .. 2 * n -> S]
      BY DEF setInfo
    <2>2. 2 * n \in Nat
      BY <1>3
    <2> HIDE DEF S
    <2>3. tables \in Seq(S) /\ Len(tables) = 2 * n
      BY <2>1, <2>2, FunctionIsSeq
    <2>4. \A i \in 1 .. 2 * n : tables[i][1] \in setters
      BY <1>3 DEF setInfo, setters
    <2> QED
      BY <2>3, <2>4
  <1>5. ASSUME NEW setter \in setters, NEW k \in BoxTypes
        PROVE  \E i \in 1 .. 2 * n : tables[i] = <<setter, setting.boxTypes[k]>>
    <2>1. /\ 2 * k \in 1 .. 2 * n /\ (2 * k) % 2 = 0 /\ (2 * k + 1) \div 2 = k
          /\ 2 * k - 1 \in 1 .. 2 * n /\ (2 * k - 1) % 2 = 1 /\ (2 * k - 1 + 1) \div 2 = k
      BY <1>3 DEF BoxTypes
    <2>2. CASE setter = "setAccessoryMintInfo"
      <3>1. tables[2 * k] = <<"setAccessoryMintInfo", setting.boxTypes[(2 * k + 1) \div 2]>>
        BY <2>1 DEF setInfo
      <3> QED
        BY <2>1, <2>2, <3>1
    <2>3. CASE setter = "setPortraitMintInfo"
      BY <2>1, <2>3 DEF setInfo
    <2> QED
      BY <2>2, <2>3 DEF setters
  <1> HIDE DEF deployed, tables, n
  <1> DEFINE get == << <<"get", "Minter">> >>
             g == Len(deployed) + 1
  <1>6. /\ \E S : get \in Seq(S)
        /\ Len(get) = 1 /\ get[1] = <<"get", "Minter">>
    <2>1. get \in Seq({<<"get", "Minter">>})
      OBVIOUS
    <2> QED
      BY <2>1
  <1> HIDE DEF get
  <1>7. /\ \E S : get \o tables \in Seq(S)
        /\ Len(get \o tables) = 1 + 2 * n
        /\ (get \o tables)[1] = <<"get", "Minter">>
        /\ \A i \in 1 .. 2 * n : (get \o tables)[1 + i] = tables[i]
    <2>1. PICK S : get \in Seq(S) /\ tables \in Seq(S) /\ get \o tables \in Seq(S)
      BY <1>4, <1>6, CommonSeq
    <2>2. /\ Len(get \o tables) = Len(get) + Len(tables)
          /\ \A i \in 1 .. Len(get \o tables) :
                (get \o tables)[i] = IF i <= Len(get) THEN get[i] ELSE tables[i - Len(get)]
      BY <2>1, ConcatProperties
    <2>3. /\ Len(get \o tables) = 1 + 2 * n
          /\ \A i \in 1 .. 1 + 2 * n : (get \o tables)[i] = IF i <= 1 THEN get[i] ELSE tables[i - 1]
      <3>1. Len(get) = 1 /\ Len(tables) = 2 * n
        BY <1>4, <1>6
      <3>2. Len(get \o tables) = 1 + 2 * n
        BY <2>2, <3>1
      <3> QED
        BY <2>2, <3>1, <3>2
    <2>4. 1 \in 1 .. 1 + 2 * n /\ \A i \in 1 .. 2 * n : 1 + i \in 1 .. 1 + 2 * n
      BY <1>3
    <2>5. ASSUME NEW i \in 1 .. 2 * n
          PROVE  (get \o tables)[1 + i] = tables[i]
      <3>1. (get \o tables)[1 + i] = IF 1 + i <= 1 THEN get[1 + i] ELSE tables[(1 + i) - 1]
        BY <2>3, <2>4
      <3>2. ~(1 + i <= 1) /\ (1 + i) - 1 = i
        BY <1>3
      <3> QED
        BY <3>1, <3>2
    <2>6. (get \o tables)[1] = get[1]
      BY <2>3, <2>4
    <2> QED
      BY <1>6, <2>1, <2>3, <2>5, <2>6
  <1> DEFINE rest == get \o tables
  <1>8. rest = << <<"get", "Minter">> >> \o tables
    BY DEF get
  <1> HIDE DEF rest
  <1>9. /\ Len(deployed) \in Nat
        /\ Len(steps(tags)) = Len(deployed) + 1 + 2 * n
        /\ \A j \in 1 .. Len(deployed) : steps(tags)[j] = deployed[j]
        /\ \A i \in 1 .. 1 + 2 * n : steps(tags)[Len(deployed) + i] = rest[i]
    <2>1. PICK S : deployed \in Seq(S) /\ rest \in Seq(S) /\ deployed \o rest \in Seq(S)
      BY <1>2, <1>7, CommonSeq DEF Deploying, rest
    <2>2. Len(rest) = 1 + 2 * n
      BY <1>7 DEF rest
    <2> QED
      BY <1>1, <1>3, <1>8, <2>1, <2>2, ConcatProperties, LenProperties
  <1>10. /\ rest[1] = <<"get", "Minter">>
         /\ \A i \in 1 .. 2 * n : rest[1 + i] = tables[i]
    BY <1>7 DEF rest
  <1>11. \A i \in 1 .. 2 * n : g + i \in g + 1 .. Len(steps(tags)) /\ steps(tags)[g + i] = tables[i]
    <2> TAKE i \in 1 .. 2 * n
    <2>1. 1 + i \in 1 .. 1 + 2 * n /\ Len(deployed) + (1 + i) = g + i
      BY <1>3, <1>9
    <2>2. steps(tags)[Len(deployed) + (1 + i)] = rest[1 + i]
      BY <1>9, <2>1
    <2> QED
      BY <1>3, <1>9, <1>10, <2>1, <2>2
  <1>12. ASSUME NEW j \in g + 1 .. Len(steps(tags))
         PROVE  steps(tags)[j][1] \in setters
    <2>1. j - g \in 1 .. 2 * n /\ g + (j - g) = j
      BY <1>3, <1>9
    <2>2. steps(tags)[g + (j - g)] = tables[j - g]
      BY <1>11, <2>1
    <2> QED
      BY <1>4, <2>1, <2>2
  <1>13. /\ g \in 1 .. Len(steps(tags)) /\ 1 \in 1 .. 1 + 2 * n
         /\ \A j \in 1 .. g - 1 : j \in 1 .. Len(deployed)
    BY <1>3, <1>9
  <1>14. steps(tags)[g] = <<"get", "Minter">>
    BY <1>9, <1>10, <1>13
  <1>15. \A j \in 1 .. g - 1 : steps(tags)[j][1] = "deploy"
    BY <1>2, <1>9, <1>13 DEF Deploying
  <1>16. \A setter \in setters, k \in BoxTypes :
            \E j \in g + 1 .. Len(steps(tags)) : steps(tags)[j] = <<setter, setting.boxTypes[k]>>
    <2> TAKE setter \in setters, k \in BoxTypes
    <2>1. PICK i \in 1 .. 2 * n : tables[i] = <<setter, setting.boxTypes[k]>>
      BY <1>5
    <2>2. g + i \in g + 1 .. Len(steps(tags)) /\ steps(tags)[g + i] = tables[i]
      BY <1>11
    <2> QED
      BY <2>1, <2>2
  <1> HIDE DEF g
  <1>17. steps(tags)[g][1] = "get"
    BY <1>14
  <1>18. TablesAhead(steps(tags), g)
    BY <1>12, <1>13, <1>15, <1>16, <1>17 DEF TablesAhead
  <1> QED
    BY <1>18

\* The Minter of the run and what is sent to it are left alone.
MinterLeft == UNCHANGED <<setting, deployments, locals, infoSet, pool>>

\* What the next step is tells how far the run is.
LEMMA TablesHead ==
    ASSUME RolloutInv, TablesInv, "InitMinter" \in scripts, status = "running", todo # <<>>
    PROVE  /\ next[1] \in {"deploy", "get"} \cup setters
           /\ next[1] = "deploy" => \E g : g # 1 /\ TablesAhead(todo, g)
           /\ next[1] = "get" => TablesAhead(todo, 1)
           /\ next[1] \in setters => TablesOnTheirWay(todo)
  <1>1. next = todo[1] /\ Len(todo) \in Nat /\ 1 \in 1 .. Len(todo)
    BY TailFacts DEF RolloutInv, RolloutTypeOK, next
  <1>2. ASSUME NEW g, TablesAhead(todo, g)
        PROVE  next[1] = IF g = 1 THEN "get" ELSE "deploy"
    <2>1. g \in 1 .. Len(todo)
      BY <1>2 DEF TablesAhead
    <2>2. g # 1 => 1 \in 1 .. g - 1
      BY <1>1, <2>1
    <2> QED
      BY <1>1, <1>2, <2>2 DEF TablesAhead
  <1>3. ASSUME TablesOnTheirWay(todo)
        PROVE  next[1] \in setters
    BY <1>1, <1>3 DEF TablesOnTheirWay
  <1>4. (\E g : TablesAhead(todo, g)) \/ TablesOnTheirWay(todo)
    BY DEF TablesInv
  <1>5. "deploy" \notin setters /\ "get" \notin setters
    BY DEF setters
  <1> QED
    BY <1>2, <1>3, <1>4, <1>5

LEMMA AheadAdvances ==
    ASSUME NEW s, \E S : s \in Seq(S), s # <<>>, NEW g, g # 1, TablesAhead(s, g)
    PROVE  TablesAhead(Tail(s), g - 1)
  <1> DEFINE t == Tail(s)
  <1>1. /\ Len(s) \in Nat /\ Len(t) = Len(s) - 1
        /\ \A i \in 1 .. Len(t) : i + 1 \in 1 .. Len(s) /\ t[i] = s[i + 1]
    BY TailFacts
  <1> HIDE DEF t
  <1>2. g \in 2 .. Len(s) /\ (g - 1) + 1 = g /\ g - 1 \in 1 .. Len(t)
    BY <1>1 DEF TablesAhead
  <1>3. \A j \in 1 .. (g - 1) - 1 : j \in 1 .. Len(t) /\ j + 1 \in 1 .. g - 1
    BY <1>1, <1>2
  <1>4. \A j \in (g - 1) + 1 .. Len(t) : j \in 1 .. Len(t) /\ j + 1 \in g + 1 .. Len(s)
    BY <1>1, <1>2
  <1>5. \A j \in g + 1 .. Len(s) : j - 1 \in (g - 1) + 1 .. Len(t) /\ (j - 1) + 1 = j
    BY <1>1, <1>2
  <1>6. t[g - 1][1] = "get"
    BY <1>1, <1>2 DEF TablesAhead
  <1>7. \A j \in 1 .. (g - 1) - 1 : t[j][1] = "deploy"
    BY <1>1, <1>3 DEF TablesAhead
  <1>8. \A j \in (g - 1) + 1 .. Len(t) : t[j][1] \in setters
    BY <1>1, <1>4 DEF TablesAhead
  <1>9. \A setter \in setters, k \in BoxTypes :
            \E j \in (g - 1) + 1 .. Len(t) : t[j] = <<setter, setting.boxTypes[k]>>
    <2> TAKE setter \in setters, k \in BoxTypes
    <2>1. PICK j \in g + 1 .. Len(s) : s[j] = <<setter, setting.boxTypes[k]>>
      BY DEF TablesAhead
    <2>2. j - 1 \in (g - 1) + 1 .. Len(t) /\ (j - 1) + 1 = j
      BY <1>5
    <2>3. t[j - 1] = s[j]
      BY <1>1, <1>4, <2>2
    <2> QED
      BY <2>1, <2>2, <2>3
  <1>10. TablesAhead(t, g - 1)
    BY <1>2, <1>6, <1>7, <1>8, <1>9 DEF TablesAhead
  <1> QED
    BY <1>10 DEF t

LEMMA DeployKeepsTables ==
    ASSUME RolloutInv, TablesInv, Deploy
    PROVE  TablesInv'
  <1>1. /\ status = "running" /\ todo # <<>> /\ next[1] = "deploy"
        /\ todo' = Tail(todo)
        /\ UNCHANGED <<setting, status, scripts, pool>>
    BY DEF Deploy, running, stepDone
  <1>2. ASSUME "InitMinter" \in scripts
        PROVE  \E g : TablesAhead(todo, g)'
    <2>1. PICK g : g # 1 /\ TablesAhead(todo, g)
      BY <1>1, <1>2, TablesHead
    <2>2. TablesAhead(Tail(todo), g - 1)
      BY <1>1, <2>1, AheadAdvances DEF RolloutInv, RolloutTypeOK
    <2>3. TablesAhead(todo, g - 1)'
      BY <1>1, <2>2 DEF TablesAhead, BoxTypes
    <2> QED
      BY <2>3
  <1> QED
    BY <1>1, <1>2 DEF TablesInv

LEMMA GetKeepsTables ==
    ASSUME RolloutInv, TablesInv, GetMinter, stepDone,
           locals' = [locals EXCEPT ![proxy("Minter")] = minterOnRecord]
    PROVE  TablesInv'
  <1>1. /\ status = "running" /\ todo # <<>> /\ next[1] = "get"
        /\ todo' = Tail(todo)
        /\ UNCHANGED <<setting, deployments, status, scripts, pool, infoSet>>
    BY DEF GetMinter, running, stepDone, chainVars
  <1>2. ASSUME "InitMinter" \in scripts
        PROVE  TablesOnTheirWay(todo)'
    <2>1. TablesAhead(todo, 1)
      BY <1>1, <1>2, TablesHead
    <2>2. /\ Len(todo) \in Nat /\ Len(todo') = Len(todo) - 1
          /\ \A i \in 1 .. Len(todo') : i + 1 \in 1 .. Len(todo) /\ todo'[i] = todo[i + 1]
      BY <1>1, TailFacts DEF RolloutInv, RolloutTypeOK
    <2>3. locals'[proxy("Minter")] = minterOnRecord'
      BY <1>1, WiringNames DEF RolloutInv, RolloutTypeOK, minterOnRecord, Wiring
    <2>4. \A j \in 1 .. Len(todo') : todo'[j][1] \in setters
      <3>1. \A j \in 1 .. Len(todo') : j + 1 \in 1 + 1 .. Len(todo)
        BY <2>2
      <3> QED
        BY <2>1, <2>2, <3>1 DEF TablesAhead
    <2>5. ASSUME NEW setter \in setters, NEW k \in BoxTypes
          PROVE  \E j \in 1 .. Len(todo') : todo'[j] = <<setter, setting.boxTypes[k]>>
      <3>1. PICK j \in 1 + 1 .. Len(todo) : todo[j] = <<setter, setting.boxTypes[k]>>
        BY <2>1 DEF TablesAhead
      <3>2. j - 1 \in 1 .. Len(todo') /\ (j - 1) + 1 = j
        BY <2>2
      <3>3. todo'[j - 1] = todo[j]
        BY <2>2, <3>2
      <3> QED
        BY <3>1, <3>2, <3>3
    <2>6. setting' = setting /\ BoxTypes' = BoxTypes
      BY <1>1 DEF BoxTypes
    <2> QED
      BY <2>3, <2>4, <2>5, <2>6 DEF TablesOnTheirWay
  <1> QED
    BY <1>1, <1>2 DEF TablesInv

\* A transaction is sent and the run goes on.
LEMMA SendKeepsTables ==
    ASSUME RolloutInv, TablesInv, SendSetter, stepDone, UNCHANGED locals
    PROVE  TablesInv'
  <1>1. /\ status = "running" /\ todo # <<>> /\ next[1] \in setters
        /\ todo' = Tail(todo) /\ pool' = Append(pool, transaction)
        /\ UNCHANGED <<setting, deployments, status, scripts, infoSet, locals>>
    BY DEF SendSetter, running, stepDone, setters
  <1>2. /\ \E S : pool' \in Seq(S)
        /\ Len(pool) \in Nat /\ Len(pool') = Len(pool) + 1
        /\ \A i \in 1 .. Len(pool) : pool'[i] = pool[i]
        /\ pool'[Len(pool) + 1] = transaction
    <2>1. PICK S : pool \in Seq(S)
      BY DEF TablesInv
    <2>2. pool \in Seq(S \cup {transaction}) /\ transaction \in S \cup {transaction}
      BY <2>1
    <2> QED
      BY <1>1, <2>2, AppendProperties, LenProperties
  <1>3. \A tx : sent(tx) \/ tx = transaction => sent(tx)'
    <2>1. \A i \in 1 .. Len(pool) : i \in 1 .. Len(pool')
      BY <1>2
    <2>2. Len(pool) + 1 \in 1 .. Len(pool')
      BY <1>2
    <2> QED
      BY <1>1, <1>2, <2>1, <2>2 DEF sent
  <1>4. ASSUME "InitMinter" \in scripts
        PROVE  TablesOnTheirWay(todo)'
    <2>1. TablesOnTheirWay(todo)
      BY <1>1, <1>4, TablesHead
    <2>2. /\ Len(todo) \in Nat /\ Len(todo') = Len(todo) - 1
          /\ \A i \in 1 .. Len(todo') : i + 1 \in 1 .. Len(todo) /\ todo'[i] = todo[i + 1]
          /\ next = todo[1]
      BY <1>1, TailFacts DEF RolloutInv, RolloutTypeOK, next
    <2>3. \A j \in 1 .. Len(todo') : todo'[j][1] \in setters
      BY <2>1, <2>2 DEF TablesOnTheirWay
    <2>4. setting' = setting /\ BoxTypes' = BoxTypes /\ minterOnRecord' = minterOnRecord
      BY <1>1 DEF BoxTypes, minterOnRecord
    <2>5. ASSUME NEW setter \in setters, NEW k \in BoxTypes
          PROVE  sent(infoFor(setter, k))' \/ \E j \in 1 .. Len(todo') : todo'[j] = <<setter, setting.boxTypes[k]>>
      <3>1. infoFor(setter, k)' = infoFor(setter, k)
        BY <2>4 DEF infoFor
      <3>2. CASE sent(infoFor(setter, k))
        BY <1>1, <1>3, <3>1, <3>2 DEF sent
      <3>3. ASSUME NEW j \in 1 .. Len(todo), todo[j] = <<setter, setting.boxTypes[k]>>
            PROVE  \/ sent(infoFor(setter, k))'
                   \/ \E i \in 1 .. Len(todo') : todo'[i] = <<setter, setting.boxTypes[k]>>
        <4>1. CASE j = 1
          <5>1. transaction = infoFor(setter, k)
            BY <2>1, <2>2, <3>3, <4>1 DEF transaction, infoFor, TablesOnTheirWay
          <5> QED
            BY <1>2, <3>1, <5>1 DEF sent
        <4>2. CASE j # 1
          <5>1. j - 1 \in 1 .. Len(todo') /\ (j - 1) + 1 = j
            BY <2>2, <4>2
          <5>2. todo'[j - 1] = todo[j]
            BY <2>2, <5>1
          <5> QED
            BY <3>3, <5>1, <5>2
        <4> QED
          BY <4>1, <4>2
      <3> QED
        BY <2>1, <3>2, <3>3 DEF TablesOnTheirWay
    <2>6. locals'[proxy("Minter")] = minterOnRecord'
      BY <1>1, <2>1, <2>4 DEF TablesOnTheirWay
    <2> QED
      BY <2>3, <2>4, <2>5, <2>6 DEF TablesOnTheirWay, sent, infoFor
  <1> QED
    BY <1>1, <1>2, <1>4 DEF TablesInv

LEMMA EndKeepsTables ==
    ASSUME RolloutInv, TablesInv, RunEnds
    PROVE  TablesInv'
  <1>1. /\ status = "running" /\ todo = <<>> /\ status' = "ended" /\ scripts' = scripts
        /\ UNCHANGED <<setting, deployments, infoSet, pool>>
    BY DEF RunEnds, chainVars
  <1>2. \A setter, k : sent(infoFor(setter, k)) => sent(infoFor(setter, k))'
    BY <1>1 DEF sent, infoFor, minterOnRecord
  <1>3. ASSUME "InitMinter" \in scripts, NEW setter \in setters, NEW k \in BoxTypes
        PROVE  sent(infoFor(setter, k))
    <2>1. Len(todo) = 0
      BY <1>1
    <2>2. ~\E g : TablesAhead(todo, g)
      BY <2>1 DEF TablesAhead
    <2> QED
      BY <1>1, <1>3, <2>1, <2>2 DEF TablesInv, TablesOnTheirWay
  <1>4. BoxTypes' = BoxTypes
    BY <1>1 DEF BoxTypes
  <1> QED
    BY <1>1, <1>2, <1>3, <1>4 DEF TablesInv

LEMMA MinedKeepsTables ==
    ASSUME RolloutInv, TablesInv, Mined
    PROVE  TablesInv'
  <1>1. /\ pool # <<>> /\ pool' = Tail(pool)
        /\ infoSet' = IF reverts(Head(pool)) THEN infoSet ELSE infoSet \cup {Head(pool)}
        /\ UNCHANGED <<setting, deployments, status, scripts, todo, locals>>
    BY DEF Mined, runVars
  <1>2. /\ \E S : pool' \in Seq(S)
        /\ Len(pool) \in Nat /\ Len(pool') = Len(pool) - 1
        /\ Head(pool) = pool[1]
        /\ \A i \in 1 .. Len(pool') : i + 1 \in 1 .. Len(pool) /\ pool'[i] = pool[i + 1]
    BY <1>1, TailFacts DEF TablesInv
  <1>3. BoxTypes' = BoxTypes
    BY <1>1 DEF BoxTypes
  <1>4. ASSUME NEW setter \in setters, NEW k \in BoxTypes, sent(infoFor(setter, k))
        PROVE  sent(infoFor(setter, k))'
    <2> DEFINE tx == infoFor(setter, k)
    <2>1. tx' = tx /\ ~reverts(tx)
      BY <1>1, TablesAreValid DEF infoFor, minterOnRecord, RolloutInv, RolloutTypeOK
    <2>2. CASE tx \in infoSet
      BY <1>1, <2>1, <2>2 DEF sent
    <2>3. ASSUME NEW i \in 1 .. Len(pool), pool[i] = tx
          PROVE  tx \in infoSet' \/ \E j \in 1 .. Len(pool') : pool'[j] = tx
      <3>1. CASE i = 1
        BY <1>1, <1>2, <2>1, <2>3, <3>1
      <3>2. CASE i # 1
        <4>1. i - 1 \in 1 .. Len(pool') /\ (i - 1) + 1 = i
          BY <1>2, <3>2
        <4>2. pool'[i - 1] = pool[i]
          BY <1>2, <4>1
        <4> QED
          BY <2>3, <4>1, <4>2
      <3> QED
        BY <3>1, <3>2
    <2> QED
      BY <1>4, <2>1, <2>2, <2>3 DEF sent
  <1>5. ASSUME TablesOnTheirWay(todo)
        PROVE  TablesOnTheirWay(todo)'
    <2>1. \A j \in 1 .. Len(todo') : todo'[j][1] \in setters
      BY <1>1, <1>5 DEF TablesOnTheirWay
    <2>2. locals'[proxy("Minter")] = minterOnRecord'
      BY <1>1, <1>5 DEF TablesOnTheirWay, minterOnRecord
    <2>3. ASSUME NEW setter \in setters, NEW k \in BoxTypes
          PROVE  \/ sent(infoFor(setter, k))'
                 \/ \E j \in 1 .. Len(todo') : todo'[j] = <<setter, setting.boxTypes[k]>>
      BY <1>1, <1>4, <1>5 DEF TablesOnTheirWay
    <2> QED
      BY <1>1, <1>3, <2>1, <2>2, <2>3 DEF TablesOnTheirWay, sent, infoFor
  <1>6. ASSUME NEW g, TablesAhead(todo, g)
        PROVE  TablesAhead(todo, g)'
    BY <1>1, <1>3, <1>6 DEF TablesAhead
  <1> QED
    BY <1>1, <1>2, <1>3, <1>4, <1>5, <1>6 DEF TablesInv

LEMMA StartKeepsTables ==
    ASSUME RolloutInv, TablesInv, NEW names, NEW first, begin(names, first),
           "InitMinter" \in names => \E g : TablesAhead(first, g)
    PROVE  TablesInv'
  <1>1. /\ status' = "running" /\ scripts' = names /\ todo' = first
        /\ UNCHANGED <<setting, pool>>
    BY DEF begin, chainVars
  <1>2. \A g : TablesAhead(first, g) => TablesAhead(todo, g)'
    BY <1>1 DEF TablesAhead, BoxTypes
  <1> QED
    BY <1>1, <1>2 DEF TablesInv

\* What does not go on with a run that has tables to send.
LEMMA OthersKeepTables ==
    ASSUME TablesInv, MinterLeft, UNCHANGED <<status, scripts>>,
           todo' = todo \/ "InitMinter" \notin scripts
    PROVE  TablesInv'
  <1>1. \E S : pool' \in Seq(S)
    BY DEF TablesInv, MinterLeft
  <1>2. CASE "InitMinter" \notin scripts
    BY <1>1, <1>2 DEF TablesInv
  <1>3. CASE todo' = todo
    <2>1. TablesOnTheirWay(todo) => TablesOnTheirWay(todo)'
      BY <1>3 DEF MinterLeft, TablesOnTheirWay, sent, infoFor, minterOnRecord, BoxTypes
    <2>2. \A g : TablesAhead(todo, g) => TablesAhead(todo, g)'
      BY <1>3 DEF MinterLeft, TablesAhead, BoxTypes
    <2>3. \A setter, k : sent(infoFor(setter, k)) => sent(infoFor(setter, k))'
      BY DEF MinterLeft, sent, infoFor, minterOnRecord
    <2>4. BoxTypes' = BoxTypes
      BY DEF MinterLeft, BoxTypes
    <2> QED
      BY <1>1, <2>1, <2>2, <2>3, <2>4 DEF TablesInv
  <1> QED
    BY <1>2, <1>3

LEMMA ThrowKeepsTables ==
    ASSUME TablesInv, throws, pool' = pool \/ \E tx : pool' = Append(pool, tx)
    PROVE  TablesInv'
  <1>1. PICK S : pool \in Seq(S)
    BY DEF TablesInv
  <1>2. \E T : pool' \in Seq(T)
    <2>1. CASE pool' = pool
      BY <1>1, <2>1
    <2>2. ASSUME NEW tx, pool' = Append(pool, tx)
          PROVE  \E T : pool' \in Seq(T)
      <3>1. pool \in Seq(S \cup {tx}) /\ tx \in S \cup {tx}
        BY <1>1
      <3> QED
        BY <2>2, <3>1, AppendProperties
    <2> QED
      BY <2>1, <2>2
  <1> QED
    BY <1>2 DEF TablesInv, throws

LEMMA TablesInvKept ==
    ASSUME RolloutInv, TablesInv, [Next]_vars
    PROVE  TablesInv'
  <1> USE DEF codeVars, chainVars, runVars, unchangedButRun
  <1>1. ASSUME NEW tags \in setting.tagSets, StartDeploy(tags)
        PROVE  TablesInv'
    BY <1>1, StartKeepsTables, StepsHaveTables DEF StartDeploy, RolloutInv, RolloutTypeOK
  <1>2. ASSUME NEW s \in setting.onboarding, StartOnboarding(s)
        PROVE  TablesInv'
    <2>1. "InitMinter" \notin {s}
      BY OnboardingAssumption DEF RolloutInv, RolloutTypeOK, onboarding
    <2> QED
      BY <1>2, <2>1, StartKeepsTables DEF StartOnboarding
  <1>3. ASSUME throws, pool' = pool \/ \E tx : pool' = Append(pool, tx)
        PROVE  TablesInv'
    BY <1>3, ThrowKeepsTables
  <1>4. CASE EncodeFails \/ DeployUnrecorded \/ StepFails
    BY <1>3, <1>4 DEF EncodeFails, DeployUnrecorded, StepFails
  <1>5. CASE GetMinter
    <2>1. CASE deployments[proxy("Minter")] # 0
      BY <1>5, <2>1, GetKeepsTables DEF GetMinter, minterOnRecord
    <2>2. CASE deployments[proxy("Minter")] = 0
      BY <1>3, <1>5, <2>2 DEF GetMinter
    <2> QED
      BY <2>1, <2>2
  <1>6. CASE SendSetter
    <2>1. CASE stepDone /\ UNCHANGED locals
      BY <1>6, <2>1, SendKeepsTables
    <2>2. CASE throws
      BY <1>3, <1>6, <2>2 DEF SendSetter
    <2> QED
      BY <1>6, <2>1, <2>2 DEF SendSetter
  <1>7. CASE Deploy \/ RunEnds \/ Mined
    BY <1>7, DeployKeepsTables, EndKeepsTables, MinedKeepsTables
  <1>8. ASSUME NEW p \in setting.changing, ChangeCode(p)
        PROVE  TablesInv'
    BY <1>8, OthersKeepTables DEF ChangeCode, MinterLeft
  <1>9. CASE EditConfig \/ UNCHANGED vars
    BY <1>9, OthersKeepTables DEF EditConfig, vars, deploymentVars, MinterLeft
  <1>10. ASSUME status = "running", todo # <<>>, next[1] \notin {"deploy", "get"} \cup setters,
                unchangedButRun, UNCHANGED <<status, scripts>>
         PROVE  TablesInv'
    BY <1>10, TablesHead, OthersKeepTables DEF MinterLeft
  <1>11. CASE BuildClient \/ CheckFirst
    <2>1. /\ status = "running" /\ todo # <<>> /\ next[1] \notin {"deploy", "get"} \cup setters
          /\ unchangedButRun
      BY <1>11 DEF BuildClient, CheckFirst, running, setters
    <2>2. throws \/ UNCHANGED <<status, scripts>>
      BY <1>11 DEF BuildClient, CheckFirst, stepDone
    <2> QED
      BY <1>3, <1>10, <2>1, <2>2
  <1>12. CASE GetUser \/ CallImx
    <2>1. /\ status = "running" /\ todo # <<>> /\ next[1] \notin {"deploy", "get"} \cup setters
          /\ unchangedButRun /\ UNCHANGED <<status, scripts>>
      BY <1>12 DEF GetUser, CallImx, request, stepDone, running, setters
    <2> QED
      BY <1>10, <2>1
  <1>13. CASE CallRefused \/ AnswerLost
    BY <1>3, <1>13 DEF CallRefused, AnswerLost
  <1> QED
    BY <1>1, <1>2, <1>4, <1>5, <1>6, <1>7, <1>8, <1>9, <1>11, <1>12, <1>13
    DEF Next, DeploymentNext, DeployStep, OnboardingStep

-----------------------------------------------------------------------------
(* Onboarding scripts.                                                     *)

checks == {"client", "getUser", "getProject", "getCollection", "getSignableRegistration"}
lastCall ==
    [register_user |-> "registerImx", register_user_onchain |-> "registerStark",
     create_project |-> "createProject", create_collection |-> "createCollection",
     add_metadata_schema |-> "addMetadataSchema"]

\* What is left of script s: checks and, last of all, the call it is for.
Rest(s, t) ==
    /\ t[Len(t)][1] = lastCall[s]
    /\ \A i \in 1 .. Len(t) - 1 : t[i][1] \in checks
    /\ \A i \in 1 .. Len(t) : t[i][1] = "getUser" => s = "register_user"

\* What a check is for holds unless the check is still to come.
Checked(s, t) ==
    /\ s = "create_collection" =>
        config.project_id \in logged \/ \E i \in 1 .. Len(t) : t[i][1] = "getProject"
    /\ s = "add_metadata_schema" =>
        (\E c \in collections : c.contract = config.schema_address)
            \/ \E i \in 1 .. Len(t) : t[i][1] = "getCollection"

InHand(s) == IF todo = <<>> THEN done(s) ELSE Rest(s, todo) /\ Checked(s, todo)
ScriptsInv ==
    /\ config.project_id \in logged \cup {Placeholder}
    /\ status = "running" => \A s \in scripts \cap DOMAIN onboarding : InHand(s)

LEMMA LastCalls ==
    /\ DOMAIN onboarding = {"register_user", "register_user_onchain", "create_project", "create_collection",
                            "add_metadata_schema"}
    /\ \A s \in DOMAIN onboarding : lastCall[s] \in calls /\ s \notin Tags
    /\ calls \cap checks = {}
    /\ ({"deploy", "get"} \cup setters) \cap (calls \cup checks) = {}
  <1>1. DOMAIN onboarding = {"register_user", "register_user_onchain", "create_project", "create_collection",
                             "add_metadata_schema"}
    BY DEF onboarding
  <1>2. \A s \in DOMAIN onboarding : lastCall[s] \in calls /\ s \notin Tags
    BY <1>1 DEF lastCall, calls, Tags
  <1>3. calls \cap checks = {}
    BY DEF calls, checks
  <1>4. ({"deploy", "get"} \cup setters) \cap (calls \cup checks) = {}
    BY DEF calls, checks, setters
  <1> QED
    BY <1>1, <1>2, <1>3, <1>4

LEMMA RestAdvances ==
    ASSUME NEW t, \E S : t \in Seq(S), t # <<>>, NEW s \in DOMAIN onboarding, Rest(s, t),
           t[1][1] \in checks
    PROVE  Tail(t) # <<>> /\ Rest(s, Tail(t))
  <1> DEFINE u == Tail(t)
  <1>1. /\ Len(t) \in Nat /\ Len(u) = Len(t) - 1 /\ 1 \in 1 .. Len(t)
        /\ \A i \in 1 .. Len(u) : i + 1 \in 1 .. Len(t) /\ u[i] = t[i + 1]
    BY TailFacts
  <1>2. Len(t) # 1
    BY LastCalls DEF Rest
  <1>3. u # <<>>
    BY <1>1, <1>2
  <1> HIDE DEF u
  <1>4. Len(u) \in 1 .. Len(u) /\ Len(u) + 1 = Len(t)
    BY <1>1, <1>2
  <1>5. u[Len(u)][1] = lastCall[s]
    BY <1>1, <1>4 DEF Rest
  <1>6. \A i \in 1 .. Len(u) - 1 : i \in 1 .. Len(u) /\ i + 1 \in 1 .. Len(t) - 1
    BY <1>1
  <1>7. \A i \in 1 .. Len(u) - 1 : u[i][1] \in checks
    BY <1>1, <1>6 DEF Rest
  <1>8. \A i \in 1 .. Len(u) : u[i][1] = "getUser" => s = "register_user"
    BY <1>1 DEF Rest
  <1>9. Rest(s, u)
    BY <1>5, <1>7, <1>8 DEF Rest
  <1> QED
    BY <1>3, <1>9 DEF u

\* A run of an onboarding script takes no step of deployment.
LEMMA ScriptsHead ==
    ASSUME RolloutInv, ScriptsInv, NEW s \in scripts \cap DOMAIN onboarding, todo # <<>>
    PROVE  /\ next = todo[1] /\ Rest(s, todo) /\ Checked(s, todo)
           /\ next[1] \in checks \cup {lastCall[s]}
           /\ next[1] \notin {"deploy", "get"} \cup setters
           /\ next[1] \in calls => next[1] = lastCall[s] /\ Tail(todo) = <<>>
  <1>1. /\ next = todo[1] /\ Len(todo) \in Nat /\ 1 \in 1 .. Len(todo)
        /\ \E S : Tail(todo) \in Seq(S)
        /\ Len(Tail(todo)) = Len(todo) - 1
    BY TailFacts DEF RolloutInv, RolloutTypeOK, next
  <1>2. Rest(s, todo) /\ Checked(s, todo)
    <2>1. status = "running"
      BY DEF RolloutInv, RolloutTypeOK
    <2> QED
      BY <2>1 DEF ScriptsInv, InHand
  <1>3. CASE Len(todo) = 1
    <2>1. Tail(todo) = <<>>
      <3>1. Len(Tail(todo)) = 0
        BY <1>1, <1>3
      <3>2. PICK S : Tail(todo) \in Seq(S)
        BY <1>1
      <3> QED
        BY <3>1, <3>2, EmptySeq
    <2>2. next[1] = lastCall[s]
      BY <1>1, <1>2, <1>3 DEF Rest
    <2> QED
      BY <1>1, <1>2, <2>1, <2>2, LastCalls
  <1>4. CASE Len(todo) # 1
    <2>1. 1 \in 1 .. Len(todo) - 1
      BY <1>1, <1>4
    <2> QED
      BY <1>1, <1>2, <2>1, LastCalls DEF Rest
  <1> QED
    BY <1>3, <1>4

\* What is left alone by all but the calls themselves.
ImxLeft == UNCHANGED <<imxUser, starkUser, projects, logged, collections, schemas, config>>

LEMMA DoneStays ==
    ASSUME ImxLeft
    PROVE  \A s : done(s) <=> done(s)'
  BY DEF ImxLeft, done

\* Nothing of the run changes, or nothing that an onboarding script is about.
LEMMA OthersKeepScripts ==
    ASSUME ScriptsInv, ImxLeft, UNCHANGED scripts, status' = "running" => status = "running",
           UNCHANGED todo \/ scripts \cap DOMAIN onboarding = {}
    PROVE  ScriptsInv'
  <1>1. config'.project_id \in logged' \cup {Placeholder}
    BY DEF ScriptsInv, ImxLeft
  <1>2. ASSUME status' = "running", NEW s \in scripts \cap DOMAIN onboarding
        PROVE  InHand(s)'
    <2>1. todo' = todo /\ InHand(s)
      BY <1>2 DEF ScriptsInv
    <2>2. Rest(s, todo) => Rest(s, todo)'
      BY <2>1 DEF Rest
    <2>3. Checked(s, todo) => Checked(s, todo)'
      BY <2>1 DEF Checked, ImxLeft
    <2> QED
      BY <2>1, <2>2, <2>3, DoneStays DEF InHand
  <1> QED
    BY <1>1, <1>2 DEF ScriptsInv

LEMMA ThrowKeepsScripts ==
    ASSUME ScriptsInv, throws, UNCHANGED <<config, logged>>
    PROVE  ScriptsInv'
  BY DEF ScriptsInv, throws

\* A check is passed.
LEMMA CheckKeepsScripts ==
    ASSUME RolloutInv, ScriptsInv, ImxLeft, UNCHANGED scripts,
           todo # <<>>, next[1] \in checks, todo' = Tail(todo),
           next[1] = "getProject" => config.project_id \in 1 .. projects,
           next[1] = "getCollection" => \E c \in collections : c.contract = config.schema_address
    PROVE  ScriptsInv'
  <1>1. config'.project_id \in logged' \cup {Placeholder}
    BY DEF ScriptsInv, ImxLeft
  <1>2. ASSUME NEW s \in scripts \cap DOMAIN onboarding
        PROVE  InHand(s)'
    <2>1. next = todo[1] /\ Rest(s, todo) /\ Checked(s, todo)
      BY <1>2, ScriptsHead
    <2>2. todo' # <<>> /\ Rest(s, todo')
      BY <2>1, RestAdvances DEF RolloutInv, RolloutTypeOK
    <2>3. /\ Len(todo) \in Nat /\ Len(todo') = Len(todo) - 1
          /\ \A i \in 1 .. Len(todo') : i + 1 \in 1 .. Len(todo) /\ todo'[i] = todo[i + 1]
      BY TailFacts DEF RolloutInv, RolloutTypeOK
    <2>4. ASSUME NEW i \in 1 .. Len(todo), i # 1
          PROVE  i - 1 \in 1 .. Len(todo') /\ todo'[i - 1] = todo[i]
      <3>1. i - 1 \in 1 .. Len(todo') /\ (i - 1) + 1 = i
        BY <2>3, <2>4
      <3> QED
        BY <2>3, <3>1
    <2>5. ASSUME s = "create_collection"
          PROVE  config.project_id \in logged \/ \E i \in 1 .. Len(todo') : todo'[i][1] = "getProject"
      <3>1. CASE config.project_id \in logged
        BY <3>1
      <3>2. ASSUME NEW i \in 1 .. Len(todo), todo[i][1] = "getProject"
            PROVE  config.project_id \in logged \/ \E j \in 1 .. Len(todo') : todo'[j][1] = "getProject"
        <4>1. CASE i = 1
          <5>1. config.project_id \in 1 .. projects
            BY <2>1, <3>2, <4>1
          <5>2. config.project_id # Placeholder
            BY <5>1 DEF Placeholder
          <5> QED
            BY <5>2 DEF ScriptsInv
        <4>2. CASE i # 1
          BY <2>4, <3>2, <4>2
        <4> QED
          BY <4>1, <4>2
      <3> QED
        BY <2>1, <2>5, <3>1, <3>2 DEF Checked
    <2>6. ASSUME s = "add_metadata_schema"
          PROVE  \/ \E c \in collections : c.contract = config.schema_address
                 \/ \E i \in 1 .. Len(todo') : todo'[i][1] = "getCollection"
      <3>1. ASSUME NEW i \in 1 .. Len(todo), todo[i][1] = "getCollection"
            PROVE  \/ \E c \in collections : c.contract = config.schema_address
                   \/ \E j \in 1 .. Len(todo') : todo'[j][1] = "getCollection"
        <4>1. CASE i = 1
          BY <2>1, <3>1, <4>1
        <4>2. CASE i # 1
          BY <2>4, <3>1, <4>2
        <4> QED
          BY <4>1, <4>2
      <3> QED
        BY <2>1, <2>6, <3>1 DEF Checked
    <2>7. Checked(s, todo)'
      BY <2>5, <2>6 DEF Checked, ImxLeft
    <2>8. Rest(s, todo)'
      BY <2>2 DEF Rest
    <2> QED
      BY <2>2, <2>7, <2>8 DEF InHand
  <1> QED
    BY <1>1, <1>2 DEF ScriptsInv

\* A script makes the call it is for.
LEMMA CallKeepsScripts ==
    ASSUME RolloutInv, ScriptsInv, CallImx
    PROVE  ScriptsInv'
  <1>1. /\ status = "running" /\ todo # <<>> /\ next[1] \in calls
        /\ todo' = Tail(todo) /\ UNCHANGED <<scripts, config>> /\ logged \subseteq logged'
    BY DEF CallImx, request, running, stepDone, unchangedButRun, calls
  <1>2. config'.project_id \in logged' \cup {Placeholder}
    BY <1>1 DEF ScriptsInv
  <1>3. ASSUME NEW s \in scripts \cap DOMAIN onboarding
        PROVE  InHand(s)'
    <2>1. /\ next[1] = lastCall[s] /\ todo' = <<>>
          /\ next = todo[1] /\ Rest(s, todo) /\ Checked(s, todo)
          /\ Tail(todo) = <<>>
      BY <1>1, <1>3, ScriptsHead
    <2>2. \A i \in 1 .. Len(todo) : todo[i][1] = lastCall[s]
      <3>1. Len(todo) = 1
        <4>1. Len(Tail(todo)) = Len(todo) - 1 /\ Len(todo) \in Nat
          BY <1>1, TailFacts DEF RolloutInv, RolloutTypeOK
        <4>2. Len(Tail(todo)) = 0
          BY <2>1, EmptyIsFine, Zenon
        <4> QED
          BY <4>1, <4>2
      <3> QED
        BY <2>1, <3>1
    <2>3. CASE s = "register_user"
      BY <2>1, <2>3, LastCalls DEF InHand, done, lastCall, CallImx, request, running, registerImx
    <2>4. CASE s = "register_user_onchain"
      BY <2>1, <2>4 DEF InHand, done, lastCall, CallImx, request, running, registerStark
    <2>5. CASE s = "create_project"
      <3>1. next[1] = "createProject"
        BY <2>1, <2>5 DEF lastCall
      <3>2. projects' \in logged'
        BY <3>1 DEF CallImx
      <3> QED
        BY <2>1, <2>5, <3>2 DEF InHand, done
    <2>6. CASE s = "create_collection"
      <3>1. createCollection
        BY <2>1, <2>6 DEF lastCall, CallImx, request, running
      <3>2. config.project_id \in logged
        BY <2>1, <2>2, <2>6 DEF Checked, lastCall
      <3>3. [contract |-> config.contract_address, project |-> config.project_id] \in collections'
        BY <3>1 DEF createCollection
      <3>4. config'.project_id \in logged'
        BY <1>1, <3>2
      <3>5. \E c \in collections' : c.contract = config'.contract_address /\ c.project = config'.project_id
        BY <1>1, <3>3
      <3> QED
        BY <2>1, <2>6, <3>4, <3>5 DEF InHand, done
    <2>7. CASE s = "add_metadata_schema"
      <3>1. addMetadataSchema
        BY <2>1, <2>7 DEF lastCall, CallImx, request, running
      <3>2. \E c \in collections : c.contract = config.schema_address
        BY <2>1, <2>2, <2>7 DEF Checked, lastCall
      <3>3. PICK kind : [contract |-> config.schema_address, kind |-> kind] \in schemas'
        BY <3>1 DEF addMetadataSchema
      <3>4. \E c \in collections' : c.contract = config'.schema_address
        BY <1>1, <3>1, <3>2 DEF addMetadataSchema
      <3>5. \E d \in schemas' : d.contract = config'.schema_address
        BY <1>1, <3>3
      <3> QED
        BY <2>1, <2>7, <3>4, <3>5 DEF InHand, done
    <2> QED
      BY <2>3, <2>4, <2>5, <2>6, <2>7, LastCalls
  <1> QED
    BY <1>1, <1>2, <1>3 DEF ScriptsInv

LEMMA StartKeepsScripts ==
    ASSUME ScriptsInv, NEW s \in DOMAIN onboarding, StartOnboarding(s)
    PROVE  ScriptsInv'
  <1>1. /\ scripts' = {s} /\ todo' = onboarding[s]
        /\ UNCHANGED <<imxUser, starkUser, projects, logged, collections, schemas, config>>
    BY DEF StartOnboarding, begin, imxVars
  <1>2. /\ onboarding[s] # <<>> /\ Rest(s, onboarding[s])
        /\ s = "create_collection" => \E i \in 1 .. Len(onboarding[s]) : onboarding[s][i][1] = "getProject"
        /\ s = "add_metadata_schema" => \E i \in 1 .. Len(onboarding[s]) : onboarding[s][i][1] = "getCollection"
    <2>1. CASE s = "register_user"
      BY <2>1, LastCalls DEF onboarding, register_user, Rest, lastCall, checks
    <2>2. CASE s = "register_user_onchain"
      BY <2>2, LastCalls DEF onboarding, register_user_onchain, Rest, lastCall, checks
    <2>3. CASE s = "create_project"
      BY <2>3, LastCalls DEF onboarding, create_project, Rest, lastCall, checks
    <2>4. CASE s = "create_collection"
      BY <2>4, LastCalls DEF onboarding, create_collection, Rest, lastCall, checks
    <2>5. CASE s = "add_metadata_schema"
      BY <2>5, LastCalls DEF onboarding, add_metadata_schema, Rest, lastCall, checks
    <2> QED
      BY <2>1, <2>2, <2>3, <2>4, <2>5, LastCalls
  <1>3. InHand(s)'
    BY <1>1, <1>2 DEF InHand, Rest, Checked
  <1> QED
    BY <1>1, <1>3 DEF ScriptsInv

\* The operator edits the configuration between runs.
LEMMA EditKeepsScripts ==
    ASSUME RolloutInv, CollectionInv, ScriptsInv, EditConfig
    PROVE  ScriptsInv'
  <1>1. status' # "running" /\ UNCHANGED logged
    BY DEF EditConfig, deploymentVars, runVars, imxVars
  <1>2. config'.project_id \in logged \cup {Placeholder}
    BY DEF EditConfig, CollectionInv, ScriptsInv
  <1> QED
    BY <1>1, <1>2 DEF ScriptsInv

LEMMA ScriptsInvKept ==
    ASSUME RolloutInv, CollectionInv, ScriptsInv, [Next]_vars
    PROVE  ScriptsInv'
  <1> USE DEF codeVars, chainVars, runVars, deploymentVars, imxVars, unchangedButRun, ImxLeft
  <1>1. ASSUME throws, UNCHANGED <<config, logged>>
        PROVE  ScriptsInv'
    BY <1>1, ThrowKeepsScripts
  <1>2. ASSUME NEW tags \in setting.tagSets, StartDeploy(tags), UNCHANGED <<imxVars, config>>
        PROVE  ScriptsInv'
    <2>1. scripts' \cap DOMAIN onboarding = {}
      BY <1>2, LastCalls, DeploymentAssumption DEF StartDeploy, begin, RolloutInv, RolloutTypeOK
    <2> QED
      BY <1>2, <2>1 DEF ScriptsInv
  <1>3. CASE (EncodeFails \/ DeployUnrecorded \/ StepFails) /\ UNCHANGED <<imxVars, config>>
    BY <1>1, <1>3 DEF EncodeFails, DeployUnrecorded, StepFails
  <1>4. CASE (Deploy \/ GetMinter \/ SendSetter) /\ UNCHANGED <<imxVars, config>>
    <2>1. todo # <<>> /\ next[1] \in {"deploy", "get"} \cup setters
      BY <1>4 DEF Deploy, GetMinter, SendSetter, running
    <2>2. scripts \cap DOMAIN onboarding = {}
      BY <2>1, ScriptsHead
    <2>3. throws \/ UNCHANGED <<scripts, status>>
      BY <1>4 DEF Deploy, GetMinter, SendSetter, stepDone
    <2> QED
      BY <1>1, <1>4, <2>2, <2>3, OthersKeepScripts
  <1>5. CASE (RunEnds \/ Mined \/ \E p \in setting.changing : ChangeCode(p)) /\ UNCHANGED <<imxVars, config>>
    BY <1>5, OthersKeepScripts DEF RunEnds, Mined, ChangeCode
  <1>6. ASSUME NEW s \in setting.onboarding, StartOnboarding(s)
        PROVE  ScriptsInv'
    <2>1. s \in DOMAIN onboarding
      BY OnboardingAssumption DEF RolloutInv, RolloutTypeOK
    <2> QED
      BY <1>6, <2>1, StartKeepsScripts
  <1>7. CASE EditConfig
    BY <1>7, EditKeepsScripts
  <1>8. CASE BuildClient \/ CheckFirst
    <2>1. /\ todo # <<>> /\ next[1] \in checks /\ UNCHANGED <<imxVars, config>>
          /\ next[1] # "getUser"
      BY <1>8 DEF BuildClient, CheckFirst, running, checks
    <2>2. CASE throws
      BY <1>1, <2>1, <2>2
    <2>3. CASE stepDone
      <3>1. /\ next[1] = "getProject" => config.project_id \in 1 .. projects
            /\ next[1] = "getCollection" => \E c \in collections : c.contract = config.schema_address
        <4>1. CASE BuildClient
          BY <4>1 DEF BuildClient, running
        <4>2. CASE CheckFirst
          <5>1. found \/ throws
            BY <4>2 DEF CheckFirst
          <5>2. throws => todo' = <<>> /\ status' = "thrown"
            BY DEF throws
          <5>3. status' = "running"
            BY <2>3, <4>2 DEF CheckFirst, running, stepDone
          <5> QED
            BY <5>1, <5>2, <5>3 DEF found
        <4> QED
          BY <1>8, <4>1, <4>2
      <3> QED
        BY <2>1, <2>3, <3>1, CheckKeepsScripts DEF stepDone
    <2> QED
      BY <1>8, <2>2, <2>3 DEF BuildClient, CheckFirst
  <1>9. CASE GetUser
    <2>1. /\ todo # <<>> /\ next[1] = "getUser" /\ UNCHANGED <<imxVars, config, scripts>>
      BY <1>9 DEF GetUser, running
    <2>2. CASE todo' = Tail(todo)
      BY <2>1, <2>2, CheckKeepsScripts DEF checks
    <2>3. CASE todo' = <<>> /\ imxUser
      <3>1. ASSUME NEW s \in scripts \cap DOMAIN onboarding
            PROVE  s = "register_user"
        <4>1. next = todo[1] /\ Rest(s, todo)
          BY <2>1, <3>1, ScriptsHead
        <4>2. 1 \in 1 .. Len(todo)
          BY <2>1, TailFacts DEF RolloutInv, RolloutTypeOK
        <4> QED
          BY <2>1, <4>1, <4>2 DEF Rest
      <3>2. \A s \in scripts' \cap DOMAIN onboarding : InHand(s)'
        BY <2>1, <2>3, <3>1 DEF InHand, done
      <3> QED
        BY <2>1, <3>2 DEF ScriptsInv
    <2> QED
      BY <1>9, <2>2, <2>3 DEF GetUser, onGetUserError
  <1>10. CASE CallImx
    BY <1>10, CallKeepsScripts
  <1>11. CASE CallRefused \/ AnswerLost
    BY <1>1, <1>11 DEF CallRefused, AnswerLost
  <1>12. CASE UNCHANGED vars
    BY <1>12, OthersKeepScripts DEF vars
  <1> QED
    BY <1>2, <1>3, <1>4, <1>5, <1>6, <1>7, <1>8, <1>9, <1>10, <1>11, <1>12
    DEF Next, DeploymentNext, DeployStep, OnboardingStep

-----------------------------------------------------------------------------
(* The theorems.                                                           *)

\* After every run of 03_deploy_Minter that ends, whatever has failed, been
\* repeated or changed before, the Minter on record has the implementation
\* and the oracle that are on record.
THEOREM MinterIsAlwaysWired == Spec => []MinterIsWired
  <1>1. RolloutInv => MinterIsWired
    BY DEF RolloutInv, RolloutTypeOK, WiredOrPending, Wired, MinterIsWired, DeploysMinter
  <1> QED
    BY <1>1, RolloutInvHolds, PTL

\* Crashes and repetitions never give up a Minter for a new one.
THEOREM RerunsAlwaysKeepMinter == Spec => RerunsKeepMinter
  <1> DEFINE kept == minterOnRecord # 0 /\ minterOnRecord' # minterOnRecord
                        => changed \cap {"Minter", "PriceOracle"} # {}
  <1>1. ASSUME RolloutInv, [Next]_vars
        PROVE  [kept]_deploymentVars
    <2> SUFFICES ASSUME minterOnRecord' # minterOnRecord, minterOnRecord # 0,
                        changed \cap {"Minter", "PriceOracle"} = {}
                 PROVE  FALSE
      OBVIOUS
    <2>1. UNCHANGED deployments \/ Deploy
      BY <1>1
      DEF Next, DeploymentNext, DeployStep, StartDeploy, begin, EncodeFails, GetMinter, SendSetter,
          RunEnds, DeployUnrecorded, StepFails, Mined, ChangeCode, StartOnboarding, EditConfig,
          OnboardingStep, BuildClient, GetUser, CheckFirst, CallImx, CallRefused, AnswerLost,
          unchangedButRun, vars, deploymentVars, chainVars
    <2>2. Deploy /\ next[2] = proxy("Minter")
      <3>1. Deploy
        BY <2>1 DEF minterOnRecord
      <3>2. proxy("Minter") # next[2] => minterOnRecord' = minterOnRecord
        BY <1>1, <3>1, DeployFacts, WiringNames DEF minterOnRecord, Wiring
      <3> QED
        BY <3>1, <3>2
    <2> QED
      BY <1>1, <2>2, MinterIsOnRecord, DeployFacts DEF minterOnRecord
  <1> QED
    BY <1>1, RolloutInvHolds, PTL DEF Spec, RerunsKeepMinter

\* Every collection of IMX is of a layer on which the contract that tokens
\* are withdrawn through can mint, on every network and for any runs.
THEOREM CollectionsCanAlwaysBeWithdrawn == Spec => []CollectionsCanBeWithdrawn
  <1>1. CollectionInv => CollectionsCanBeWithdrawn
    BY DEF CollectionInv, MintedByImx, CollectionsCanBeWithdrawn
  <1> QED
    BY <1>1, CollectionInvHolds, PTL

\* When a run of 04_init_Minter ends, the tables of every box type are set in
\* the Minter on record or on their way to it, and it will accept them.
THEOREM TablesAlwaysReachMinter == Spec => []TablesReachMinter
  <1>1. Init => TablesInv
    BY EmptyIsFine DEF Init, DeploymentInit, TablesInv
  <1>2. ASSUME RolloutInv, TablesInv
        PROVE  TablesReachMinter
    <2> SUFFICES ASSUME status = "ended", "InitMinter" \in scripts,
                        NEW setter \in setters, NEW k \in BoxTypes
                 PROVE  infoFor(setter, k) \in infoSet \cup {tx \in ToSet(pool) : ~reverts(tx)}
      BY DEF TablesReachMinter, allInfo, infoFor, BoxTypes
    <2>1. sent(infoFor(setter, k))
      BY <1>2 DEF TablesInv
    <2>2. ~reverts(infoFor(setter, k))
      BY <1>2, TablesAreValid DEF RolloutInv, RolloutTypeOK
    <2>3. \A i \in 1 .. Len(pool) : pool[i] \in ToSet(pool)
      BY <1>2 DEF TablesInv, ToSet
    <2> QED
      BY <2>1, <2>2, <2>3 DEF sent
  <1> QED
    BY <1>1, <1>2, TablesInvKept, RolloutInvHolds, PTL DEF Spec

\* An onboarding script that returns has brought about what it is for, with
\* the ids and addresses it was configured with: its call is the last of its
\* steps, the checks before it hold when it is made, and nobody edits the
\* configuration of a run that is under way.
THEOREM ScriptsAlwaysDoWhatTheyReturnFor == Spec => ScriptsDoWhatTheyReturnFor
  <1> DEFINE brought == status = "running" /\ status' = "ended"
                            => \A s \in scripts \cap DOMAIN onboarding : done(s)
  <1>1. Init => ScriptsInv
    BY DEF Init, DeploymentInit, ScriptsInv
  <1>2. ASSUME RolloutInv, ScriptsInv, [Next]_vars
        PROVE  [brought]_vars
    <2> SUFFICES ASSUME status = "running", status' = "ended", NEW s \in scripts \cap DOMAIN onboarding
                 PROVE  done(s)
      OBVIOUS
    <2>1. todo = <<>>
      BY <1>2
      DEF Next, DeploymentNext, DeployStep, StartDeploy, begin, mayStart, Deploy, EncodeFails, GetMinter,
          SendSetter, RunEnds, DeployUnrecorded, StepFails, Mined, ChangeCode, StartOnboarding, EditConfig,
          OnboardingStep, BuildClient, GetUser, CheckFirst, CallImx, CallRefused, AnswerLost,
          stepDone, throws, unchangedButRun, vars, deploymentVars, runVars
    <2> QED
      BY <1>2, <2>1 DEF ScriptsInv, InHand
  <1> QED
    BY <1>1, <1>2, ScriptsInvKept, RolloutInvHolds, CollectionInvHolds, PTL
    DEF Spec, ScriptsDoWhatTheyReturnFor

-----------------------------------------------------------------------------
(* One table of deploy/config.ts against another.                          *)

\* A table with at least the same prices and probabilities and at most the
\* same chances.
LEMMA AtLeast ==
    ASSUME NEW b, NEW w, NEW prices, DOMAIN b = prices \cup {"tierChances"},
           \A f \in prices : b[f] >= w[f],
           DOMAIN b.tierChances = 1 .. 4,
           b.tierChances[1] <= w.tierChances[1], b.tierChances[2] <= w.tierChances[2],
           b.tierChances[3] <= w.tierChances[3], b.tierChances[4] <= w.tierChances[4]
    PROVE  atLeast(b, w)
  <1>1. \A k \in 1 .. 4 : k = 1 \/ k = 2 \/ k = 3 \/ k = 4
    OBVIOUS
  <1>2. \A k \in DOMAIN b["tierChances"] : b["tierChances"][k] <= w["tierChances"][k]
    BY <1>1
  <1> QED
    BY <1>2 DEF atLeast

\* The portraits of the dearer of two boxes.
LEMMA DearerPortraits ==
    ASSUME NEW i \in 1 .. 5, NEW j \in 1 .. 5, i < j
    PROVE  atLeast(PORTRAIT_MINT_INFO[BoxType[j]], PORTRAIT_MINT_INFO[BoxType[i]])
  <1> DEFINE row == [n \in 1 .. 5 |-> PORTRAIT_MINT_INFO[BoxType[n]]]
  <1>1. /\ row[1].price = 50 /\ row[1].holoProbability = 200 /\ row[1].tierChances = <<8000, 9700, 9930, 9980>>
        /\ DOMAIN row[1] = {"price", "holoProbability"} \cup {"tierChances"}
    BY DEF PORTRAIT_MINT_INFO, BoxType, portraitInfo
  <1>2. /\ row[2].price = 100 /\ row[2].holoProbability = 200 /\ row[2].tierChances = <<6100, 8800, 9700, 9950>>
        /\ DOMAIN row[2] = {"price", "holoProbability"} \cup {"tierChances"}
    BY DEF PORTRAIT_MINT_INFO, BoxType, portraitInfo
  <1>3. /\ row[3].price = 250 /\ row[3].holoProbability = 200 /\ row[3].tierChances = <<2400, 6600, 8800, 9700>>
        /\ DOMAIN row[3] = {"price", "holoProbability"} \cup {"tierChances"}
    BY DEF PORTRAIT_MINT_INFO, BoxType, portraitInfo
  <1>4. /\ row[4].price = 750 /\ row[4].holoProbability = 300 /\ row[4].tierChances = <<500, 2000, 4250, 8250>>
        /\ DOMAIN row[4] = {"price", "holoProbability"} \cup {"tierChances"}
    BY DEF PORTRAIT_MINT_INFO, BoxType, portraitInfo
  <1>5. /\ row[5].price = 2500 /\ row[5].holoProbability = 500 /\ row[5].tierChances = <<200, 1000, 2500, 5000>>
        /\ DOMAIN row[5] = {"price", "holoProbability"} \cup {"tierChances"}
    BY DEF PORTRAIT_MINT_INFO, BoxType, portraitInfo
  <1>6. row[i] = PORTRAIT_MINT_INFO[BoxType[i]] /\ row[j] = PORTRAIT_MINT_INFO[BoxType[j]]
    OBVIOUS
  <1> HIDE DEF row
  <1>7. \/ i = 1 /\ j \in 2 .. 5
        \/ i = 2 /\ j \in 3 .. 5
        \/ i = 3 /\ j \in 4 .. 5
        \/ i = 4 /\ j = 5
    OBVIOUS
  <1>8. row[j].price >= row[i].price /\ row[j].holoProbability >= row[i].holoProbability
    BY <1>1, <1>2, <1>3, <1>4, <1>5, <1>7
  <1>9. /\ row[j].tierChances[1] <= row[i].tierChances[1] /\ row[j].tierChances[2] <= row[i].tierChances[2]
        /\ row[j].tierChances[3] <= row[i].tierChances[3] /\ row[j].tierChances[4] <= row[i].tierChances[4]
    BY <1>1, <1>2, <1>3, <1>4, <1>5, <1>7
  <1>10. DOMAIN row[j] = {"price", "holoProbability"} \cup {"tierChances"} /\ DOMAIN row[j].tierChances = 1 .. 4
    BY <1>1, <1>2, <1>3, <1>4, <1>5, <1>7
  <1>11. \A f \in {"price", "holoProbability"} : row[j][f] >= row[i][f]
    BY <1>8
  <1>12. atLeast(row[j], row[i])
    <2> DEFINE prices == {"price", "holoProbability"}
    <2>1. DOMAIN row[j] = prices \cup {"tierChances"} /\ (\A f \in prices : row[j][f] >= row[i][f])
      BY <1>10, <1>11
    <2> HIDE DEF prices
    <2> QED
      BY <1>9, <1>10, <2>1, AtLeast
  <1> QED
    BY <1>6, <1>12

\* The accessories of the dearer of two boxes.
LEMMA DearerAccessories ==
    ASSUME NEW i \in 1 .. 5, NEW j \in 1 .. 5, i < j
    PROVE  atLeast(ACCESSORY_MINT_INFO[BoxType[j]], ACCESSORY_MINT_INFO[BoxType[i]])
  <1> DEFINE row == [n \in 1 .. 5 |-> ACCESSORY_MINT_INFO[BoxType[n]]]
  <1>1. /\ row[1].randomPrice = 50 /\ row[1].semiRandomPrice = 100 /\ row[1].tierChances = <<8100, 9200, 9700, 9900>>
        /\ DOMAIN row[1] = {"randomPrice", "semiRandomPrice"} \cup {"tierChances"}
    BY DEF ACCESSORY_MINT_INFO, BoxType, accessoryInfo
  <1>2. /\ row[2].randomPrice = 100 /\ row[2].semiRandomPrice = 200 /\ row[2].tierChances = <<3000, 7600, 8800, 9700>>
        /\ DOMAIN row[2] = {"randomPrice", "semiRandomPrice"} \cup {"tierChances"}
    BY DEF ACCESSORY_MINT_INFO, BoxType, accessoryInfo
  <1>3. /\ row[3].randomPrice = 150 /\ row[3].semiRandomPrice = 300 /\ row[3].tierChances = <<1500, 4700, 7200, 9000>>
        /\ DOMAIN row[3] = {"randomPrice", "semiRandomPrice"} \cup {"tierChances"}
    BY DEF ACCESSORY_MINT_INFO, BoxType, accessoryInfo
  <1>4. /\ row[4].randomPrice = 200 /\ row[4].semiRandomPrice = 400 /\ row[4].tierChances = <<500, 2000, 5300, 8000>>
        /\ DOMAIN row[4] = {"randomPrice", "semiRandomPrice"} \cup {"tierChances"}
    BY DEF ACCESSORY_MINT_INFO, BoxType, accessoryInfo
  <1>5. /\ row[5].randomPrice = 250 /\ row[5].semiRandomPrice = 500 /\ row[5].tierChances = <<100, 600, 2800, 6000>>
        /\ DOMAIN row[5] = {"randomPrice", "semiRandomPrice"} \cup {"tierChances"}
    BY DEF ACCESSORY_MINT_INFO, BoxType, accessoryInfo
  <1>6. row[i] = ACCESSORY_MINT_INFO[BoxType[i]] /\ row[j] = ACCESSORY_MINT_INFO[BoxType[j]]
    OBVIOUS
  <1> HIDE DEF row
  <1>7. \/ i = 1 /\ j \in 2 .. 5
        \/ i = 2 /\ j \in 3 .. 5
        \/ i = 3 /\ j \in 4 .. 5
        \/ i = 4 /\ j = 5
    OBVIOUS
  <1>8. row[j].randomPrice >= row[i].randomPrice /\ row[j].semiRandomPrice >= row[i].semiRandomPrice
    BY <1>1, <1>2, <1>3, <1>4, <1>5, <1>7
  <1>9. /\ row[j].tierChances[1] <= row[i].tierChances[1] /\ row[j].tierChances[2] <= row[i].tierChances[2]
        /\ row[j].tierChances[3] <= row[i].tierChances[3] /\ row[j].tierChances[4] <= row[i].tierChances[4]
    BY <1>1, <1>2, <1>3, <1>4, <1>5, <1>7
  <1>10. DOMAIN row[j] = {"randomPrice", "semiRandomPrice"} \cup {"tierChances"} /\ DOMAIN row[j].tierChances = 1 .. 4
    BY <1>1, <1>2, <1>3, <1>4, <1>5, <1>7
  <1>11. \A f \in {"randomPrice", "semiRandomPrice"} : row[j][f] >= row[i][f]
    BY <1>8
  <1>12. atLeast(row[j], row[i])
    <2> DEFINE prices == {"randomPrice", "semiRandomPrice"}
    <2>1. DOMAIN row[j] = prices \cup {"tierChances"} /\ (\A f \in prices : row[j][f] >= row[i][f])
      BY <1>10, <1>11
    <2> HIDE DEF prices
    <2> QED
      BY <1>9, <1>10, <2>1, AtLeast
  <1> QED
    BY <1>6, <1>12

\* Whatever has been set so far, of two boxes of a Minter the dearer one is
\* never worse for the buyer: the tables of deploy/config.ts are in order.
THEOREM DearerBoxesAreAlwaysBetter == Spec => []DearerBoxesAreBetter
  <1>1. DearerBoxesAreBetter
    <2> SUFFICES ASSUME NEW t \in infoSet, NEW u \in infoSet,
                        NEW i \in DOMAIN BoxType, NEW j \in DOMAIN BoxType,
                        t.setter = u.setter, t.boxType = BoxType[i], u.boxType = BoxType[j], i < j
                 PROVE  atLeast(mintInfo(u.setter, u.boxType), mintInfo(t.setter, t.boxType))
      BY DEF DearerBoxesAreBetter
    <2>1. i \in 1 .. 5 /\ j \in 1 .. 5
      BY DEF BoxType
    <2>2. /\ atLeast(PORTRAIT_MINT_INFO[BoxType[j]], PORTRAIT_MINT_INFO[BoxType[i]])
          /\ atLeast(ACCESSORY_MINT_INFO[BoxType[j]], ACCESSORY_MINT_INFO[BoxType[i]])
      BY <2>1, DearerPortraits, DearerAccessories
    <2> QED
      BY <2>2 DEF mintInfo
  <1> QED
    BY <1>1, PTL
=============================================================================
