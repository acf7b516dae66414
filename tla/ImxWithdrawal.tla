---------------------------- MODULE ImxWithdrawal ----------------------------
(***************************************************************************)
(* The life of one token between IMX and the chain, and the scripts that   *)
(* move it: mint_l2, burn, prepare_withdraw and complete_withdraw of       *)
(* scripts/imx/common.ts, started by mint.ts, prepareWithdraw.ts and       *)
(* completeWithdraw.ts beside it.  Several runs of the scripts may be      *)
(* under way at a time.  A script asks for the token's status, acts on the *)
(* answer when things may have changed, and may wait for a transaction     *)
(* until it loses patience; the transaction does not.                      *)
(*                                                                         *)
(* IMX and its contract on the chain are not part of the repository: what  *)
(* is said of them here is what the scripts count on.                      *)
(***************************************************************************)
EXTENDS Integers

CONSTANTS Runs,             \* runs of the scripts
          Patience          \* how often _wait_for_transaction asks at most

ASSUME WithdrawalAssumption == Patience \in Nat

VARIABLES
    status,     \* IMX: the asset's status, "none" when there is no asset
    claimable,  \* the IMX contract holds the token ready for withdrawal
    onChain,    \* the layer contract has minted the token
    script,     \* [Runs -> the script a run executes]
    pc,         \* [Runs -> how far the run has come]
    asset,      \* [Runs -> the status get_asset returned; NoAsset for null]
    polls,      \* [Runs -> how often _wait_for_transaction has asked]
    tx          \* [Runs -> state of the transaction the run has sent]

runVars == <<script, pc, asset, polls, tx>>
vars == <<status, claimable, onChain, runVars>>

\* Where the scripts begin.  completeWithdraw.ts looks the token up before it
\* calls complete_withdraw; burn has no script of its own and is called by
\* whoever imports it.
entry ==
    [mint_l2 |-> "call", burn |-> "call",
     prepare_withdraw |-> "get_asset", complete_withdraw |-> "main"]
Scripts == DOMAIN entry
NoAsset == "null"
txMined == {"succeeded", "reverted"}

Init ==
    /\ status = "none" /\ claimable = FALSE /\ onChain = FALSE
    /\ script = [r \in Runs |-> "none"]
    /\ pc = [r \in Runs |-> "idle"]
    /\ asset = [r \in Runs |-> NoAsset]
    /\ polls = [r \in Runs |-> 0]
    /\ tx = [r \in Runs |-> "none"]

goto(r, label) == pc' = [pc EXCEPT ![r] = label]

Start(r) ==
    /\ pc[r] = "idle"
    /\ \E s \in Scripts :
        /\ script' = [script EXCEPT ![r] = s]
        /\ goto(r, entry[s])
    /\ UNCHANGED <<status, claimable, onChain, asset, polls, tx>>

\* main of completeWithdraw.ts: it only matters that the call may fail, and
\* does when there is no token; the answer is not used.
LookUp(r) ==
    /\ pc[r] = "main"
    /\ \/ status # "none" /\ goto(r, "get_asset")
       \/ goto(r, "thrown")
    /\ UNCHANGED <<status, claimable, onChain, script, asset, polls, tx>>

\* get_asset takes any error for a token that does not exist.
GetAsset(r) ==
    /\ pc[r] = "get_asset"
    /\ \E answer \in {status, NoAsset} :
        /\ answer # "none"
        /\ asset' = [asset EXCEPT ![r] = answer]
    /\ goto(r, "check")
    /\ UNCHANGED <<status, claimable, onChain, script, polls, tx>>

\* Mutant of expected: a withdrawal is completed as soon as it is prepared.
expectedTooEarly(r) == IF script[r] = "prepare_withdraw" THEN "imx" ELSE "preparing"

expected(r) == IF script[r] = "prepare_withdraw" THEN "imx" ELSE "withdrawable"

Check(r) ==
    /\ pc[r] = "check"
    /\ goto(r, IF asset[r] = expected(r) THEN "call" ELSE "thrown")
    /\ UNCHANGED <<status, claimable, onChain, script, asset, polls, tx>>

\* client.mintV2, client.burn and client.prepareWithdrawal: IMX goes by the
\* status it has now.  A token that is burned does not come back.
mintV2(r) ==
    /\ script[r] = "mint_l2" /\ status = "none"
    /\ status' = "imx"
burn(r) ==
    /\ script[r] = "burn" /\ status = "imx"
    /\ status' = "burned"
prepareWithdrawal(r) ==
    /\ script[r] = "prepare_withdraw" /\ status = "imx"
    /\ status' = "preparing"

CallImx(r) ==
    /\ pc[r] = "call"
    /\ mintV2(r) \/ burn(r) \/ prepareWithdrawal(r)
    /\ goto(r, "returned")
    /\ UNCHANGED <<claimable, onChain, script, asset, polls, tx>>

\* client.completeWithdrawal sends a transaction and knows its hash at once.
\* wait_for_tx decides whether the run waits for it.
CompleteWithdrawal(r) ==
    /\ pc[r] = "call" /\ script[r] = "complete_withdraw"
    /\ tx' = [tx EXCEPT ![r] = "pending"]
    /\ \E wait_for_tx \in BOOLEAN : goto(r, IF wait_for_tx THEN "wait" ELSE "returned")
    /\ UNCHANGED <<status, claimable, onChain, script, asset, polls>>

\* A call that is refused, or that is lost, makes the script throw.
CallFails(r) ==
    /\ pc[r] = "call"
    /\ goto(r, "thrown")
    /\ UNCHANGED <<status, claimable, onChain, script, asset, polls, tx>>

-----------------------------------------------------------------------------
(* _wait_for_transaction.                                                  *)

hasReceipt(r) == tx[r] \in txMined

\* Mutant of outOfPatience: max_interval is not looked at.
endlessPatience(r) == FALSE

outOfPatience(r) == polls[r] > Patience

\* A transaction that has reverted has a receipt, too.
ReceiptFound(r) ==
    /\ pc[r] = "wait" /\ hasReceipt(r)
    /\ goto(r, "received")
    /\ UNCHANGED <<status, claimable, onChain, script, asset, polls, tx>>

\* Mutant of waitEnds: patience runs out without an exception.
waitEndsQuietly == "received"
waitEnds == "thrown"

Poll(r) ==
    /\ pc[r] = "wait" /\ ~hasReceipt(r)
    /\ IF outOfPatience(r)
       THEN goto(r, waitEnds) /\ UNCHANGED polls
       ELSE polls' = [polls EXCEPT ![r] = IF @ > Patience THEN @ ELSE @ + 1] /\ UNCHANGED pc
    /\ UNCHANGED <<status, claimable, onChain, script, asset, tx>>

PollFails(r) ==
    /\ pc[r] = "wait"
    /\ goto(r, "thrown")
    /\ UNCHANGED <<status, claimable, onChain, script, asset, polls, tx>>

-----------------------------------------------------------------------------
(* IMX and the chain.                                                      *)

\* A batch with the withdrawal reaches the chain.
BatchCommitted ==
    /\ status = "preparing"
    /\ status' = "withdrawable" /\ claimable' = TRUE
    /\ UNCHANGED <<onChain, runVars>>

\* The IMX contract gives the token out once, by calling mintFor, and not at
\* all when that reverts: on the blueprint, or on the recipient.
Mined(r) ==
    /\ tx[r] = "pending"
    /\ \E accepted \in BOOLEAN :
       LET succeeds == claimable /\ ~onChain /\ accepted
       IN  /\ tx' = [tx EXCEPT ![r] = IF succeeds THEN "succeeded" ELSE "reverted"]
           /\ onChain' = (onChain \/ succeeds)
           /\ claimable' = (claimable /\ ~succeeds)
    /\ UNCHANGED <<status, script, pc, asset, polls>>

\* IMX learns of what happened on the chain some time later.
WithdrawalSeen ==
    /\ onChain /\ status = "withdrawable"
    /\ status' = "eth"
    /\ UNCHANGED <<claimable, onChain, runVars>>

ScriptStep(r) ==
    \/ LookUp(r) \/ GetAsset(r) \/ Check(r)
    \/ CallImx(r) \/ CompleteWithdrawal(r) \/ CallFails(r)
    \/ ReceiptFound(r) \/ Poll(r)

Next ==
    \/ \E r \in Runs : Start(r) \/ ScriptStep(r) \/ PollFails(r) \/ Mined(r)
    \/ BatchCommitted \/ WithdrawalSeen

Spec == Init /\ [][Next]_vars

\* A script that has been started runs on, and a call to IMX is answered or
\* fails; nothing is said of the chain.
FairSpec == Spec /\ \A r \in Runs : WF_vars(ScriptStep(r))

-----------------------------------------------------------------------------
(* Properties.                                                             *)

ended == {"idle", "returned", "received", "thrown"}

\* A script that has been started ends, if only with an exception: the chain
\* may never mine its transaction.
ScriptsEnd == \A r \in Runs : pc[r] \notin ended ~> pc[r] \in ended

\* A run that has waited for its transaction and got to the end of it holds
\* the receipt of a transaction that is mined, however late that was; when
\* it is not, the run throws.
ReceiptsExist == \A r \in Runs : pc[r] = "received" => hasReceipt(r)

\* However the runs overlap and however old the status is that they go by, no
\* transaction claims the token before IMX has it ready on the chain: the
\* claims that come too late are the only ones that are sent in vain.
ClaimsAreNotEarly ==
    \A r \in Runs : tx[r] # "none" => claimable \/ onChain
=============================================================================
