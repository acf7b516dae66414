-------------------------- MODULE ImxWithdrawalProofs --------------------------
(***************************************************************************)
(* Proofs about ImxWithdrawal, for any number of runs and any patience.    *)
(* A run goes by the status it was told, which may be old; what makes that *)
(* safe is that the one status complete_withdraw asks for says something   *)
(* that stays true.                                                        *)
(***************************************************************************)
EXTENDS ImxWithdrawal, TLAPS

\* The token has been ready for withdrawal on the chain.
ready == claimable \/ onChain

RunTypeOK ==
    /\ script \in [Runs -> Scripts \cup {"none"}]
    /\ pc \in [Runs -> {"idle", "main", "get_asset", "check", "call", "wait",
                        "returned", "received", "thrown"}]
    /\ asset \in [Runs -> {"none", "imx", "burned", "preparing", "withdrawable", "eth", NoAsset}]
    /\ tx \in [Runs -> {"none", "pending"} \cup txMined]

\* What a run of complete_withdraw knows, and what is known of its
\* transaction.
RunOK(r) ==
    /\ asset[r] = "withdrawable" => ready
    /\ pc[r] = "call" /\ script[r] = "complete_withdraw" => ready
    /\ tx[r] # "none" => ready
    /\ pc[r] = "received" => hasReceipt(r)

WithdrawalInv ==
    /\ status \in {"none", "imx", "burned", "preparing", "withdrawable", "eth"}
    /\ status \in {"withdrawable", "eth"} => ready
    /\ RunTypeOK
    /\ \A r \in Runs : RunOK(r)

LEMMA WithdrawalInvInit == Init => WithdrawalInv
  BY DEF Init, WithdrawalInv, RunTypeOK, RunOK, hasReceipt, NoAsset

-----------------------------------------------------------------------------
(* The steps, by what they change.                                         *)

\* IMX and the chain: what is ready stays so, and a receipt stays a receipt.
LEMMA ChainKeeps ==
    ASSUME WithdrawalInv, BatchCommitted \/ WithdrawalSeen \/ \E r \in Runs : Mined(r)
    PROVE  WithdrawalInv'
  <1>1. CASE BatchCommitted
    BY <1>1 DEF WithdrawalInv, RunTypeOK, RunOK, hasReceipt, BatchCommitted, runVars, ready
  <1>2. CASE WithdrawalSeen
    BY <1>2 DEF WithdrawalInv, RunTypeOK, RunOK, hasReceipt, WithdrawalSeen, runVars, ready
  <1>3. ASSUME NEW r \in Runs, Mined(r)
        PROVE  WithdrawalInv'
    <2>1. ready /\ ready'
      BY <1>3 DEF WithdrawalInv, RunOK, Mined, ready
    <2>2. /\ tx'[r] \in txMined
          /\ \A q \in Runs : tx'[q] \in txMined \/ tx'[q] = tx[q]
          /\ tx' \in [Runs -> {"none", "pending"} \cup txMined]
      BY <1>3 DEF WithdrawalInv, RunTypeOK, Mined, txMined
    <2> QED
      BY <1>3, <2>1, <2>2 DEF WithdrawalInv, RunTypeOK, RunOK, hasReceipt, Mined
  <1> QED
    BY <1>1, <1>2, <1>3

\* The steps of a run that send nothing.
LEMMA QuietStepKeeps ==
    ASSUME WithdrawalInv, NEW r \in Runs,
           \/ Start(r) \/ LookUp(r) \/ GetAsset(r) \/ Check(r)
           \/ CallFails(r) \/ ReceiptFound(r) \/ Poll(r) \/ PollFails(r)
    PROVE  WithdrawalInv'
  <1> USE DEF WithdrawalInv, RunTypeOK, RunOK, hasReceipt, goto, ready
  <1>1. CASE Start(r)
    <2>1. PICK s \in Scripts : script' = [script EXCEPT ![r] = s] /\ pc' = [pc EXCEPT ![r] = entry[s]]
      BY <1>1 DEF Start
    <2>2. entry[s] \in {"call", "get_asset", "main"} /\ (s = "complete_withdraw" => entry[s] = "main")
      BY DEF entry, Scripts
    <2> QED
      BY <1>1, <2>1, <2>2 DEF Start
  <1>2. CASE LookUp(r)
    BY <1>2 DEF LookUp
  <1>3. CASE GetAsset(r)
    BY <1>3 DEF GetAsset, NoAsset
  <1>4. CASE Check(r)
    BY <1>4 DEF Check, expected
  <1>5. CASE CallFails(r) \/ PollFails(r)
    BY <1>5 DEF CallFails, PollFails
  <1>6. CASE ReceiptFound(r)
    BY <1>6 DEF ReceiptFound
  <1>7. CASE Poll(r)
    BY <1>7 DEF Poll, waitEnds
  <1> QED
    BY <1>1, <1>2, <1>3, <1>4, <1>5, <1>6, <1>7

\* The calls: IMX makes no token ready by itself, and complete_withdraw gets
\* here only with a status that says the token is.
LEMMA CallKeeps ==
    ASSUME WithdrawalInv, NEW r \in Runs, CallImx(r) \/ CompleteWithdrawal(r)
    PROVE  WithdrawalInv'
  <1> USE DEF WithdrawalInv, RunTypeOK, RunOK, hasReceipt, goto, ready
  <1>1. CASE CallImx(r)
    BY <1>1 DEF CallImx, mintV2, burn, prepareWithdrawal
  <1>2. CASE CompleteWithdrawal(r)
    BY <1>2 DEF CompleteWithdrawal, txMined
  <1> QED
    BY <1>1, <1>2

LEMMA WithdrawalInvStep == WithdrawalInv /\ [Next]_vars => WithdrawalInv'
  <1> SUFFICES ASSUME WithdrawalInv, [Next]_vars
               PROVE  WithdrawalInv'
    OBVIOUS
  <1>1. CASE UNCHANGED vars
    BY <1>1 DEF WithdrawalInv, RunTypeOK, RunOK, hasReceipt, vars, runVars, ready
  <1>2. CASE Next
    BY <1>2, ChainKeeps, QuietStepKeeps, CallKeeps DEF Next, ScriptStep
  <1> QED
    BY <1>1, <1>2

LEMMA WithdrawalInvariant == Spec => []WithdrawalInv
  BY WithdrawalInvInit, WithdrawalInvStep, PTL DEF Spec

-----------------------------------------------------------------------------
(* The properties.                                                         *)

\* A run that got to the end of _wait_for_transaction holds a receipt.
THEOREM WaitsEndWithReceipts == Spec => []ReceiptsExist
  <1>1. WithdrawalInv => ReceiptsExist
    BY DEF WithdrawalInv, RunOK, ReceiptsExist
  <1> QED
    BY <1>1, WithdrawalInvariant, PTL

\* The check of complete_withdraw is enough, although what it looks at may be
\* old by the time it counts: no claim is sent before its time.
THEOREM NoClaimIsEarly == Spec => []ClaimsAreNotEarly
  <1>1. WithdrawalInv => ClaimsAreNotEarly
    BY DEF WithdrawalInv, RunOK, ClaimsAreNotEarly, ready
  <1> QED
    BY <1>1, WithdrawalInvariant, PTL
=============================================================================
