--------------------------- MODULE IlluvitarLayer ---------------------------
(***************************************************************************)
(* BaseIlluvitar with either of the contracts derived from it: the ERC-721 *)
(* tokens that IMX mints when a customer withdraws them from its layer 2.  *)
(*                                                                         *)
(* Minting calls the recipient, when that is a contract, after the token   *)
(* exists and before its metadata is written; the recipient may send       *)
(* transactions of its own then.  So a mint takes two steps, BeginMint and *)
(* EndMint, between which nobody but the recipient acts, and a mint that   *)
(* reverts undoes all that has happened since it began.                    *)
(***************************************************************************)
EXTENDS Blueprint

CONSTANTS Layer,            \* "PortraitLayer" or "AccessoryLayer"
          Accounts,         \* accounts that can hold tokens
          ImxMinter,        \* the IMX contract
          NoAddress,        \* address(0)
          TokenIds,
          Blueprints,       \* blueprints IMX is asked to mint
          Quantities        \* quantities IMX is asked to mint

Layers == {"PortraitLayer", "AccessoryLayer"}

ASSUME LayerAssumption ==
    /\ Layer \in Layers
    /\ NoAddress \notin Accounts \cup {ImxMinter}
    /\ Blueprints \subseteq Seq(Chars)

parseBlueprint(a) == IF Layer = "PortraitLayer" THEN parsePortrait(a) ELSE parseAccessory(a)

NoMetadata ==
    IF Layer = "PortraitLayer"
    THEN [tier |-> 0, skinId |-> 0, bodyId |-> 0, eyeId |-> 0, headId |-> 0, propsId |-> 0]
    ELSE [tier |-> 0, accessoryType |-> 0]
Metadata == ({parseBlueprint(b) : b \in Blueprints} \ {Revert}) \cup {NoMetadata}

VARIABLES
    tokenOwner,             \* [TokenIds -> owner, or NoAddress]
    tokenApprovals,         \* [TokenIds -> who is approved, or NoAddress]
    operatorApprovals,      \* pairs <<account, who may move all its tokens>>
    openForSale,
    metadataInitialized,
    metadata,
    minting                 \* the mint in progress, or NoMint

approvalVars == <<tokenApprovals, operatorApprovals>>
tokenVars == <<tokenOwner, approvalVars, openForSale>>
metadataVars == <<metadataInitialized, metadata>>
vars == <<tokenVars, metadataVars, minting>>

NoMint == [active |-> FALSE]
Mint(to, id, blueprint) ==
    [active |-> TRUE, to |-> to, id |-> id, blueprint |-> blueprint,
     tokenOwner |-> tokenOwner, tokenApprovals |-> tokenApprovals,
     operatorApprovals |-> operatorApprovals, openForSale |-> openForSale]

exists(id) == tokenOwner[id] # NoAddress

LayerTypeOK ==
    /\ tokenOwner \in [TokenIds -> Accounts \cup {NoAddress}]
    /\ tokenApprovals \in [TokenIds -> Accounts \cup {NoAddress}]
    /\ operatorApprovals \subseteq Accounts \X Accounts
    /\ openForSale \in [TokenIds -> BOOLEAN]
    /\ metadataInitialized \in [TokenIds -> BOOLEAN]
    /\ metadata \in [TokenIds -> Metadata]

Init ==
    /\ tokenOwner = [id \in TokenIds |-> NoAddress]
    /\ tokenApprovals = [id \in TokenIds |-> NoAddress] /\ operatorApprovals = {}
    /\ openForSale = [id \in TokenIds |-> FALSE]
    /\ metadataInitialized = [id \in TokenIds |-> FALSE]
    /\ metadata = [id \in TokenIds |-> NoMetadata]
    /\ minting = NoMint

\* Whose transactions can take effect now.
mayAct(account) == minting.active => account = minting.to

-----------------------------------------------------------------------------
(* mintFor.                                                                *)

\* Mutant of canMint: nothing asks whether the token exists.
canMintAgain(sender, to, quantity, id) ==
    /\ quantity = 1
    /\ sender = ImxMinter
    /\ to # NoAddress

\* The checks of mintFor and those of ERC721Upgradeable._mint.
canMint(sender, to, quantity, id) ==
    /\ quantity = 1
    /\ sender = ImxMinter
    /\ to # NoAddress
    /\ ~exists(id)

BeginMint(sender, to, quantity, id, blueprint) ==
    /\ ~minting.active
    /\ canMint(sender, to, quantity, id)
    /\ minting' = Mint(to, id, blueprint)
    /\ tokenOwner' = [tokenOwner EXCEPT ![id] = to]
    /\ UNCHANGED <<approvalVars, openForSale, metadataVars>>

\* Mutant of storeMetadata: the flag is forgotten.
storeMetadataOnly(id, data) ==
    /\ metadata' = [metadata EXCEPT ![id] = data]
    /\ UNCHANGED metadataInitialized

storeMetadata(id, data) ==
    /\ metadata' = [metadata EXCEPT ![id] = data]
    /\ metadataInitialized' = [metadataInitialized EXCEPT ![id] = TRUE]

revertMint ==
    /\ tokenOwner' = minting.tokenOwner
    /\ tokenApprovals' = minting.tokenApprovals
    /\ operatorApprovals' = minting.operatorApprovals
    /\ openForSale' = minting.openForSale
    /\ UNCHANGED metadataVars

\* Mutant of EndMint: a blueprint that does not parse is stored.
EndMintUnchecked(accepted) ==
    /\ minting.active
    /\ minting' = NoMint
    /\ IF accepted
       THEN storeMetadata(minting.id, parseBlueprint(minting.blueprint)) /\ UNCHANGED tokenVars
       ELSE revertMint

\* The recipient may refuse the token, and the blueprint may not parse.
EndMint(accepted) ==
    LET data == parseBlueprint(minting.blueprint)
    IN  /\ minting.active
        /\ minting' = NoMint
        /\ IF accepted /\ data # Revert
           THEN storeMetadata(minting.id, data) /\ UNCHANGED tokenVars
           ELSE revertMint

-----------------------------------------------------------------------------
(* Holding tokens.                                                         *)

\* Mutant of markForSale: nothing asks whose token it is.
markForSaleByAnyone(sender, id, sale) ==
    /\ mayAct(sender)
    /\ openForSale' = [openForSale EXCEPT ![id] = sale]
    /\ UNCHANGED <<tokenOwner, approvalVars, metadataVars, minting>>

markForSale(sender, id, sale) ==
    /\ mayAct(sender)
    /\ tokenOwner[id] = sender
    /\ openForSale' = [openForSale EXCEPT ![id] = sale]
    /\ UNCHANGED <<tokenOwner, approvalVars, metadataVars, minting>>

\* ERC721Upgradeable.  A transfer leaves the sale mark as it is.
approve(sender, to, id) ==
    /\ mayAct(sender)
    /\ exists(id) /\ to # tokenOwner[id]
    /\ sender = tokenOwner[id] \/ <<tokenOwner[id], sender>> \in operatorApprovals
    /\ tokenApprovals' = [tokenApprovals EXCEPT ![id] = to]
    /\ UNCHANGED <<tokenOwner, operatorApprovals, openForSale, metadataVars, minting>>

setApprovalForAll(sender, operator, approved) ==
    /\ mayAct(sender)
    /\ operator # sender
    /\ operatorApprovals' = IF approved THEN operatorApprovals \cup {<<sender, operator>>}
                            ELSE operatorApprovals \ {<<sender, operator>>}
    /\ UNCHANGED <<tokenOwner, tokenApprovals, openForSale, metadataVars, minting>>

\* Mutant of approvalsAfterTransfer: the approval stays.
approvalsKept(id) == tokenApprovals
approvalsAfterTransfer(id) == [tokenApprovals EXCEPT ![id] = NoAddress]

transferFrom(sender, from, to, id) ==
    /\ mayAct(sender)
    /\ tokenOwner[id] = from
    /\ sender \in {from, tokenApprovals[id]} \/ <<from, sender>> \in operatorApprovals
    /\ tokenApprovals' = approvalsAfterTransfer(id)
    /\ tokenOwner' = [tokenOwner EXCEPT ![id] = to]
    /\ UNCHANGED <<operatorApprovals, openForSale, metadataVars, minting>>

Next ==
    \/ \E sender, to \in Accounts \cup {ImxMinter, NoAddress}, quantity \in Quantities,
          id \in TokenIds, blueprint \in Blueprints :
            /\ sender # NoAddress /\ to # ImxMinter
            /\ BeginMint(sender, to, quantity, id, blueprint)
    \/ \E accepted \in BOOLEAN : EndMint(accepted)
    \/ \E account \in Accounts, id \in TokenIds :
        \/ \E sale \in BOOLEAN : markForSale(account, id, sale)
        \/ \E to \in Accounts \cup {NoAddress} : approve(account, to, id)
        \/ \E operator \in Accounts, approved \in BOOLEAN :
                setApprovalForAll(account, operator, approved)
        \/ \E from, to \in Accounts : transferFrom(account, from, to, id)

Spec == Init /\ [][Next]_vars

-----------------------------------------------------------------------------
(* Properties.                                                             *)

\* Outside a mint a token exists iff its metadata is initialised, however
\* the mints so far have ended and whatever the recipients did during them.
TokensHaveMetadata ==
    ~minting.active => \A id \in TokenIds : exists(id) <=> metadataInitialized[id]

\* Outside a mint only tokens that exist are marked for sale, so no mark
\* waits for a token that IMX has yet to mint: nobody but a holder makes a
\* mark, and a recipient that marks its new token and then makes the mint
\* fail leaves none.
SaleMarksNeedTokens ==
    ~minting.active => \A id \in TokenIds : openForSale[id] => exists(id)

\* Outside a mint only tokens that exist are approved to anybody, and never to
\* their own holder: an approval does not outlive the holding it was given
\* under, nor a mint that failed after the recipient gave it.
ApprovalsNeedTokens ==
    ~minting.active => \A id \in TokenIds :
        tokenApprovals[id] # NoAddress => exists(id) /\ tokenApprovals[id] # tokenOwner[id]

\* Metadata is written once: no later mint, transfer or sale changes it.
MetadataIsFinal ==
    [][\A id \in TokenIds :
        metadataInitialized[id] => metadataInitialized'[id] /\ metadata'[id] = metadata[id]]_vars

\* What test/AccessoryLayer.test.ts and test/BaseIlluvitar.test.ts ask: an
\* accessory that is minted with a blueprint of box type, tier and accessory
\* type, by the IMX minter and to an account that takes it, is there
\* afterwards.
AccessoriesAreMinted ==
    [][minting.active /\ Len(minting.blueprint) = 3 /\ EndMint(TRUE)
        => metadataInitialized'[minting.id]]_vars

\* What test/PortraitLayer.test.ts and test/include/utils.ts ask, and the
\* comment of PortraitLayer._mint: a portrait that is minted with a blueprint
\* of six fields, by the IMX minter and to an account that takes it, is there
\* afterwards.
fieldCount(a) == Cardinality({p \in DOMAIN a : isDecimal(a[p]) /\ (p > 1 => ~isDecimal(a[p - 1]))})
PortraitsAreMinted ==
    [][minting.active /\ fieldCount(minting.blueprint) = 6 /\ EndMint(TRUE)
        => metadataInitialized'[minting.id]]_vars
=============================================================================
