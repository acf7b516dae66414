---------------------------- MODULE MCOnboarding ----------------------------
(* Onboarding and Deployment: the Minter set up on Ropsten with crashes and *)
(* changes of code, layers deployed and onboarded there, everything once on *)
(* the main network and in a hardhat process.                              *)
EXTENDS Onboarding

layerTags == {"PortraitLayer", "AccessoryLayer"}
minterRuns ==
    [network |-> "ropsten", boxTypes |-> <<"Bronze", "Diamond">>,
     tagSets |-> {{"Minter"}, {"InitMinter"}, {"Minter", "InitMinter"}},
     onboarding |-> {}, changing |-> {"Minter", "PriceOracle"},
     runs |-> 3, changes |-> 1, failures |-> 2, projects |-> 0]
layerRuns ==
    [network |-> "ropsten", boxTypes |-> <<"Bronze", "Diamond">>, tagSets |-> {{"PortraitLayer"}},
     onboarding |-> DOMAIN onboarding, changing |-> {"PortraitLayer"},
     runs |-> 2, changes |-> 1, failures |-> 1, projects |-> 2]
allAtOnce(net) ==
    [network |-> net, boxTypes |-> BoxType,
     tagSets |-> {Tags, Tags \ layerTags},
     onboarding |-> DOMAIN onboarding \ {"register_user_onchain"}, changing |-> {},
     runs |-> 1, changes |-> 0, failures |-> 1, projects |-> 1]
MCSettings == {minterRuns, layerRuns, allAtOnce("mainnet"), allAtOnce("hardhat")}
=============================================================================
