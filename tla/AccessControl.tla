---------------------------- MODULE AccessControl ----------------------------
(***************************************************************************)
(* UpgradeableAccessControl: every address has a role, a set of            *)
(* permissions, and access managers change the roles.  The code keeps a    *)
(* role as a 256-bit mask; here it is the set of its bits.  The features   *)
(* of the contract are the role of its own address.                        *)
(***************************************************************************)
CONSTANTS Senders,              \* accounts that send transactions
          This,                 \* the contract's own address
          ZeroAddress,          \* address(0)
          Permissions,          \* all bits: FULL_PRIVILEGES_MASK
          ROLE_ACCESS_MANAGER,
          ROLE_UPGRADE_MANAGER,
          Implementations       \* implementation contracts to upgrade to

Addresses == Senders \cup {This, ZeroAddress}

ASSUME AccessAssumption ==
    /\ This \notin Senders /\ ZeroAddress \notin Senders /\ This # ZeroAddress
    /\ ROLE_ACCESS_MANAGER \in Permissions
    /\ ROLE_UPGRADE_MANAGER \in Permissions

VARIABLES userRoles,        \* [Addresses -> SUBSET Permissions]
          implementation    \* what the proxy delegates to

roleVars == <<userRoles, implementation>>

RolesTypeOK ==
    /\ userRoles \in [Addresses -> SUBSET Permissions]
    /\ implementation \in Implementations

\* _postConstruct, which the proxy's constructor calls.
RolesInit ==
    /\ \E owner \in Senders :
        userRoles = [a \in Addresses |-> IF a = owner THEN Permissions ELSE {}]
    /\ implementation \in Implementations

features == userRoles[This]

isOperatorInRole(operator, required) == required \subseteq userRoles[operator]

\* Mutants of evaluateBy: the wish is granted whole; whatever is not wished
\* for is revoked.
evaluateAsDesired(operator, target, desired) == desired
evaluateByRevoking(operator, target, desired) ==
    (target \cup (userRoles[operator] \cap desired)) \cap desired

\* What an operator can make of a role it wants to be `desired'.
evaluateBy(operator, target, desired) ==
    LET p == userRoles[operator]
    IN  (target \cup (p \cap desired)) \ (p \ desired)

updateRole(sender, operator, role) ==
    /\ isOperatorInRole(sender, {ROLE_ACCESS_MANAGER})
    /\ userRoles' = [userRoles EXCEPT ![operator] = evaluateBy(sender, @, role)]
    /\ UNCHANGED implementation

updateFeatures(sender, mask) == updateRole(sender, This, mask)

\* UUPSUpgradeable.upgradeTo, guarded by _authorizeUpgrade.
upgradeTo(sender, newImplementation) ==
    /\ isOperatorInRole(sender, {ROLE_UPGRADE_MANAGER})
    /\ implementation' = newImplementation
    /\ UNCHANGED userRoles

RolesNext ==
    \E sender \in Senders :
        \/ \E operator \in Addresses, role \in SUBSET Permissions :
              updateRole(sender, operator, role)
        \/ \E mask \in SUBSET Permissions : updateFeatures(sender, mask)
        \/ \E new \in Implementations : upgradeTo(sender, new)

RolesSpec == RolesInit /\ [][RolesNext]_roleVars

-----------------------------------------------------------------------------
(* Properties.                                                             *)

changed(a) == (userRoles'[a] \ userRoles[a]) \cup (userRoles[a] \ userRoles'[a])

\* Whatever a step adds to roles or takes from them, one access manager
\* held all of it when the step was taken.
changeIsAuthorized ==
    userRoles' = userRoles
    \/ \E manager \in Senders :
        /\ ROLE_ACCESS_MANAGER \in userRoles[manager]
        /\ \A a \in Addresses : changed(a) \subseteq userRoles[manager]

\* Whoever sent the step held what it changed.
changeIsSenders ==
    \A sender \in Senders, operator \in Addresses, role \in SUBSET Permissions :
        updateRole(sender, operator, role) =>
            \A a \in Addresses : changed(a) \subseteq userRoles[sender]

\* "Access managers can only grant/revoke permissions which they have
\* themselves": nothing but an access manager's transaction changes a role,
\* and it neither grants nor revokes what its sender does not have.
ChangesAreAuthorized == [][changeIsAuthorized /\ changeIsSenders]_roleVars

heldBySender(p) == \E s \in Senders : p \in userRoles[s]

\* A permission no account holds any more can never be held again, by
\* anyone, through any sequence of grants; so without an access manager the
\* roles, and without an upgrade manager the code, are frozen for good.
lostStaysLost ==
    \A p \in Permissions : heldBySender(p)' => heldBySender(p)
LostPermissionsStayLost == [][lostStaysLost]_roleVars
=============================================================================
