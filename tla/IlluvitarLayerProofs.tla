------------------------ MODULE IlluvitarLayerProofs ------------------------
(***************************************************************************)
(* Proofs about IlluvitarLayer.  What the properties say outside a mint    *)
(* must be kept up during one, for the state there is and for the state    *)
(* that a mint which reverts brings back: a recipient can be called between *)
(* the two.                                                                *)
(***************************************************************************)
EXTENDS IlluvitarLayer, TLAPS

Recipients == Accounts \cup {NoAddress}

Snapshots ==
    [active : {TRUE}, to : Accounts, id : TokenIds, blueprint : Blueprints,
     tokenOwner : [TokenIds -> Recipients], tokenApprovals : [TokenIds -> Recipients],
     operatorApprovals : SUBSET (Accounts \X Accounts), openForSale : [TokenIds -> BOOLEAN]]

MintingOK == minting = NoMint \/ minting \in Snapshots

\* Sale marks and approvals belong to tokens that exist.
MarksNeedTokens(holders, approvals, sale) ==
    \A id \in TokenIds :
        /\ sale[id] => holders[id] # NoAddress
        /\ approvals[id] # NoAddress => holders[id] # NoAddress /\ approvals[id] # holders[id]

\* The tokens that have metadata are those of holders, that of a mint in
\* progress excepted.
OthersHaveMetadata(holders) ==
    \A id \in TokenIds : ~(minting.active /\ id = minting.id)
        => (holders[id] # NoAddress <=> metadataInitialized[id])

MintInProgressOK ==
    minting.active =>
        /\ MarksNeedTokens(minting.tokenOwner, minting.tokenApprovals, minting.openForSale)
        /\ OthersHaveMetadata(minting.tokenOwner)
        /\ minting.tokenOwner[minting.id] = NoAddress
        /\ exists(minting.id)
        /\ ~metadataInitialized[minting.id]

LayerInv ==
    /\ LayerTypeOK
    /\ MintingOK
    /\ MarksNeedTokens(tokenOwner, tokenApprovals, openForSale)
    /\ OthersHaveMetadata(tokenOwner)
    /\ MintInProgressOK

LEMMA LayerInvInit == Init => LayerInv
  BY LayerAssumption
  DEF Init, LayerInv, LayerTypeOK, MintingOK, NoMint, MarksNeedTokens, OthersHaveMetadata,
      MintInProgressOK, Metadata, exists

LEMMA MintInProgress == LayerInv /\ minting.active => minting \in Snapshots
  <1>1. ~NoMint.active
    BY DEF NoMint
  <1> QED
    BY <1>1 DEF LayerInv, MintingOK

-----------------------------------------------------------------------------
(* One lemma for each action.                                              *)

\* The state that a mint begins in is kept for its end.
LEMMA BeginMintKeeps ==
    ASSUME LayerInv,
           NEW sender, NEW to \in Accounts \cup {ImxMinter, NoAddress}, NEW quantity,
           NEW id \in TokenIds, NEW blueprint \in Blueprints,
           to # ImxMinter, BeginMint(sender, to, quantity, id, blueprint)
    PROVE  LayerInv'
  <1> USE DEF LayerInv, BeginMint, canMint
  <1>1. to \in Accounts /\ tokenOwner[id] = NoAddress /\ ~minting.active
    BY DEF exists
  <1>2. to # NoAddress
    OBVIOUS
  <1>3. LayerTypeOK'
    BY <1>1 DEF LayerTypeOK, approvalVars, metadataVars
  <1>4. minting' \in Snapshots
    <2>1. minting' = Mint(to, id, blueprint)
      OBVIOUS
    <2>2. to \in Accounts
      BY <1>2
    <2> QED
      BY <2>1, <2>2, SMTT(30) DEF Mint, Snapshots, LayerTypeOK, Recipients
  <1>5. MarksNeedTokens(tokenOwner, tokenApprovals, openForSale)'
    BY <1>1, <1>2 DEF MarksNeedTokens, LayerTypeOK, approvalVars
  <1>6. /\ minting'.active /\ minting'.id = id
        /\ minting'.tokenOwner = tokenOwner
        /\ minting'.tokenApprovals = tokenApprovals
        /\ minting'.openForSale = openForSale
    BY DEF Mint
  <1>7. /\ OthersHaveMetadata(tokenOwner)'
        /\ OthersHaveMetadata(minting.tokenOwner)'
        /\ ~metadataInitialized'[id]
    BY <1>1, <1>6 DEF OthersHaveMetadata, LayerTypeOK, metadataVars
  <1>8. exists(id)'
    BY <1>2 DEF exists, LayerTypeOK
  <1>9. MintInProgressOK'
    BY <1>1, <1>6, <1>7, <1>8 DEF MintInProgressOK, MarksNeedTokens, exists
  <1> QED
    BY <1>3, <1>4, <1>5, <1>7, <1>9 DEF MintingOK

\* A mint that succeeds writes the metadata it lacked, one that reverts
\* brings back a state in which everything was in order.
LEMMA EndMintKeeps ==
    ASSUME LayerInv, NEW accepted \in BOOLEAN, EndMint(accepted)
    PROVE  LayerInv'
  <1> USE DEF LayerInv, EndMint
  <1>1. minting \in Snapshots /\ minting.active
    BY MintInProgress
  <1>2. minting' = NoMint /\ ~minting'.active
    BY DEF NoMint
  <1>3. CASE accepted /\ parseBlueprint(minting.blueprint) # Revert
    <2>1. storeMetadata(minting.id, parseBlueprint(minting.blueprint)) /\ UNCHANGED tokenVars
      BY <1>3
    <2>2. parseBlueprint(minting.blueprint) \in Metadata
      BY <1>1, <1>3 DEF Metadata, Snapshots
    <2>3. LayerTypeOK'
      BY <2>1, <2>2, <1>1 DEF storeMetadata, LayerTypeOK, tokenVars, approvalVars, Snapshots
    <2>4. MarksNeedTokens(tokenOwner, tokenApprovals, openForSale)'
      BY <2>1 DEF MarksNeedTokens, tokenVars, approvalVars
    <2>5. OthersHaveMetadata(tokenOwner)'
      BY <2>1, <1>1, <1>2
      DEF OthersHaveMetadata, storeMetadata, tokenVars, approvalVars, MintInProgressOK, exists,
          LayerTypeOK, Snapshots
    <2> QED
      BY <2>3, <2>4, <2>5, <1>2 DEF MintingOK, MintInProgressOK
  <1>4. CASE ~(accepted /\ parseBlueprint(minting.blueprint) # Revert)
    <2>1. revertMint
      BY <1>4
    <2>2. LayerTypeOK'
      BY <2>1, <1>1 DEF revertMint, LayerTypeOK, Snapshots, Recipients, metadataVars
    <2>3. MarksNeedTokens(tokenOwner, tokenApprovals, openForSale)'
      BY <2>1, <1>1 DEF revertMint, MarksNeedTokens, MintInProgressOK
    <2>4. OthersHaveMetadata(tokenOwner)'
      BY <2>1, <1>1, <1>2
      DEF revertMint, OthersHaveMetadata, metadataVars, MintInProgressOK, LayerTypeOK, Snapshots
    <2> QED
      BY <2>2, <2>3, <2>4, <1>2 DEF MintingOK, MintInProgressOK
  <1> QED
    BY <1>3, <1>4

\* What holders do leaves the mint in progress and the metadata alone; it is
\* enough that no token comes into being or goes, and that marks stay with
\* tokens.
LEMMA HoldersKeep ==
    ASSUME LayerInv, LayerTypeOK', UNCHANGED <<metadataVars, minting>>,
           \A id \in TokenIds : (tokenOwner'[id] # NoAddress <=> tokenOwner[id] # NoAddress),
           MarksNeedTokens(tokenOwner, tokenApprovals, openForSale)'
    PROVE  LayerInv'
  <1>1. MintingOK' /\ OthersHaveMetadata(tokenOwner)' /\ (minting.active => ~metadataInitialized[minting.id])'
    BY DEF LayerInv, MintingOK, OthersHaveMetadata, MintInProgressOK, metadataVars
  <1>2. ASSUME minting.active
        PROVE  MintInProgressOK'
    <2>1. minting.id \in TokenIds
      BY <1>2, MintInProgress DEF Snapshots
    <2>2. exists(minting.id)'
      BY <1>2, <2>1 DEF LayerInv, MintInProgressOK, exists
    <2> QED
      BY <1>1, <1>2, <2>2
      DEF LayerInv, MintInProgressOK, MarksNeedTokens, OthersHaveMetadata, metadataVars
  <1> QED
    BY <1>1, <1>2 DEF LayerInv, MintInProgressOK

LEMMA MarkForSaleKeeps ==
    ASSUME LayerInv, NEW sender \in Accounts, NEW id \in TokenIds, NEW sale \in BOOLEAN,
           markForSale(sender, id, sale)
    PROVE  LayerInv'
  <1>1. LayerTypeOK'
    BY DEF LayerInv, LayerTypeOK, markForSale, approvalVars, metadataVars
  <1>2. MarksNeedTokens(tokenOwner, tokenApprovals, openForSale)'
    BY LayerAssumption DEF LayerInv, LayerTypeOK, MarksNeedTokens, markForSale, approvalVars
  <1> QED
    BY <1>1, <1>2, HoldersKeep DEF markForSale, approvalVars

LEMMA ApproveKeeps ==
    ASSUME LayerInv, NEW sender \in Accounts, NEW to \in Accounts \cup {NoAddress},
           NEW id \in TokenIds, approve(sender, to, id)
    PROVE  LayerInv'
  <1>1. LayerTypeOK'
    BY DEF LayerInv, LayerTypeOK, approve, metadataVars
  <1>2. MarksNeedTokens(tokenOwner, tokenApprovals, openForSale)'
    BY DEF LayerInv, LayerTypeOK, MarksNeedTokens, approve, exists
  <1> QED
    BY <1>1, <1>2, HoldersKeep DEF approve

LEMMA SetApprovalForAllKeeps ==
    ASSUME LayerInv, NEW sender \in Accounts, NEW operator \in Accounts, NEW approved \in BOOLEAN,
           setApprovalForAll(sender, operator, approved)
    PROVE  LayerInv'
  <1>1. LayerTypeOK'
    BY DEF LayerInv, LayerTypeOK, setApprovalForAll, metadataVars
  <1>2. MarksNeedTokens(tokenOwner, tokenApprovals, openForSale)'
    BY DEF LayerInv, MarksNeedTokens, setApprovalForAll
  <1> QED
    BY <1>1, <1>2, HoldersKeep DEF setApprovalForAll

LEMMA TransferFromKeeps ==
    ASSUME LayerInv, NEW sender \in Accounts, NEW from \in Accounts, NEW to \in Accounts,
           NEW id \in TokenIds, transferFrom(sender, from, to, id)
    PROVE  LayerInv'
  <1>1. from # NoAddress /\ to # NoAddress
    BY LayerAssumption
  <1>2. LayerTypeOK'
    BY DEF LayerInv, LayerTypeOK, transferFrom, approvalsAfterTransfer, metadataVars
  <1>3. MarksNeedTokens(tokenOwner, tokenApprovals, openForSale)'
    BY <1>1 DEF LayerInv, LayerTypeOK, MarksNeedTokens, transferFrom, approvalsAfterTransfer
  <1>4. \A i \in TokenIds : (tokenOwner'[i] # NoAddress <=> tokenOwner[i] # NoAddress)
    BY <1>1 DEF LayerInv, LayerTypeOK, transferFrom
  <1> QED
    BY <1>2, <1>3, <1>4, HoldersKeep DEF transferFrom

LEMMA LayerInvStep == LayerInv /\ [Next]_vars => LayerInv'
  <1> SUFFICES ASSUME LayerInv, [Next]_vars
               PROVE  LayerInv'
    OBVIOUS
  <1>1. CASE UNCHANGED vars
    <2>1. LayerTypeOK' /\ MarksNeedTokens(tokenOwner, tokenApprovals, openForSale)'
      BY <1>1
      DEF LayerInv, LayerTypeOK, MarksNeedTokens, vars, tokenVars, approvalVars, metadataVars
    <2> QED
      BY <1>1, <2>1, HoldersKeep DEF vars, tokenVars, approvalVars, metadataVars
  <1>2. CASE Next
    BY <1>2, BeginMintKeeps, EndMintKeeps, MarkForSaleKeeps, ApproveKeeps, SetApprovalForAllKeeps,
       TransferFromKeeps
    DEF Next
  <1> QED
    BY <1>1, <1>2

LEMMA LayerInvariant == Spec => []LayerInv
  BY LayerInvInit, LayerInvStep, PTL DEF Spec

-----------------------------------------------------------------------------
(* The properties.                                                         *)

\* Type correctness, for every layer and every set of blueprints.
THEOREM LayerIsTyped == Spec => []LayerTypeOK
  <1>1. LayerInv => LayerTypeOK
    BY DEF LayerInv
  <1> QED
    BY <1>1, LayerInvariant, PTL

\* No recipient, by whatever it does during a mint, makes a token without
\* metadata or leaves metadata without a token.
THEOREM MetadataGoesWithTokens == Spec => []TokensHaveMetadata
  <1>1. LayerInv => TokensHaveMetadata
    BY DEF LayerInv, TokensHaveMetadata, OthersHaveMetadata, exists
  <1> QED
    BY <1>1, LayerInvariant, PTL

\* Nor a sale mark without a token.
THEOREM SaleMarksGoWithTokens == Spec => []SaleMarksNeedTokens
  <1>1. LayerInv => SaleMarksNeedTokens
    BY DEF LayerInv, SaleMarksNeedTokens, MarksNeedTokens, exists
  <1> QED
    BY <1>1, LayerInvariant, PTL

\* Nor an approval.
THEOREM ApprovalsGoWithTokens == Spec => []ApprovalsNeedTokens
  <1>1. LayerInv => ApprovalsNeedTokens
    BY DEF LayerInv, ApprovalsNeedTokens, MarksNeedTokens, exists
  <1> QED
    BY <1>1, LayerInvariant, PTL

\* The metadata of a token is never written again: a token whose metadata
\* is initialised exists, and mintFor refuses it.
THEOREM MetadataStays == Spec => MetadataIsFinal
  <1> DEFINE Final == \A id \in TokenIds :
                metadataInitialized[id] => metadataInitialized'[id] /\ metadata'[id] = metadata[id]
  <1>1. LayerInv /\ [Next]_vars => [Final]_vars
    <2> SUFFICES ASSUME LayerInv, Next
                 PROVE  Final
      OBVIOUS
    <2>1. CASE UNCHANGED metadataVars
      BY <2>1 DEF metadataVars
    <2>2. ASSUME NEW accepted \in BOOLEAN, EndMint(accepted)
          PROVE  Final
      <3>1. minting.active /\ ~metadataInitialized[minting.id]
        BY <2>2 DEF EndMint, LayerInv, MintInProgressOK
      <3>2. metadata \in [TokenIds -> Metadata] /\ metadataInitialized \in [TokenIds -> BOOLEAN]
        BY DEF LayerInv, LayerTypeOK
      <3> QED
        BY <2>2, <3>1, <3>2, <2>1 DEF EndMint, storeMetadata, revertMint
    <2> QED
      BY <2>1, <2>2
      DEF Next, BeginMint, markForSale, approve, setApprovalForAll, transferFrom, metadataVars
  <1> QED
    BY <1>1, LayerInvariant, PTL DEF Spec, MetadataIsFinal
=============================================================================
