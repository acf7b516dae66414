---------------------------- MODULE FeaturesRoles ----------------------------
(***************************************************************************)
(* The permissions of scripts/include/features_roles.js, as sets of the    *)
(* bits that are one, by the contracts that give them a meaning.           *)
(***************************************************************************)
EXTENDS Integers, Sequences, SequencesExt

ROLE_ACCESS_MANAGER == {255}
ROLE_UPGRADE_MANAGER == {254}
FULL_PRIVILEGES_MASK == 0 .. 255
FEATURE_ALL == 0 .. 15

\* ERC20/ERC721.
tokenPermissions ==
    [FEATURE_TRANSFERS |-> {0}, FEATURE_TRANSFERS_ON_BEHALF |-> {1}, FEATURE_OWN_BURNS |-> {3},
     FEATURE_BURNS_ON_BEHALF |-> {4}, ROLE_TOKEN_CREATOR |-> {16}, ROLE_TOKEN_DESTROYER |-> {17},
     ROLE_URI_MANAGER |-> {18}, ROLE_RESCUE_MANAGER |-> {19}, ROLE_ROYALTY_MANAGER |-> {20},
     ROLE_OWNER_MANAGER |-> {21}, ROLE_METADATA_PROVIDER |-> {22}]

\* Mutant of salePermissions: two roles share a bit.
salePermissionsOverlapping ==
    [FEATURE_L1_SALE_ACTIVE |-> {0}, FEATURE_L2_SALE_ACTIVE |-> {1}, ROLE_PAUSE_MANAGER |-> {16},
     ROLE_DATA_MANAGER |-> {17}, ROLE_SALE_MANAGER |-> {18}, ROLE_RESCUE_MANAGER |-> {19},
     ROLE_WITHDRAWAL_MANAGER |-> {19}]

\* Land sale.
salePermissions ==
    [FEATURE_L1_SALE_ACTIVE |-> {0}, FEATURE_L2_SALE_ACTIVE |-> {1}, ROLE_PAUSE_MANAGER |-> {16},
     ROLE_DATA_MANAGER |-> {17}, ROLE_SALE_MANAGER |-> {18}, ROLE_RESCUE_MANAGER |-> {19},
     ROLE_WITHDRAWAL_MANAGER |-> {20}]

\* Price oracle.
oraclePermissions == [ROLE_PRICE_ORACLE_MANAGER |-> {16}]

xor(x, y) == (x \ y) \cup (y \ x)

\* Mutant of join: permissions are joined by exclusive or.
joinByXor(roles_sum, role) == xor(roles_sum, role)

join(roles_sum, role) == roles_sum \cup role

not(roles) == xor(FULL_PRIVILEGES_MASK, FoldLeft(join, {}, roles))
=============================================================================
