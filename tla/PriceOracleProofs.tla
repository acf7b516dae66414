-------------------------- MODULE PriceOracleProofs --------------------------
(* Proofs about AccessControl, for any accounts and any permissions, and   *)
(* about PriceOracle, which it guards, for any feed and any thresholds.    *)
EXTENDS PriceOracle, TLAPS

-----------------------------------------------------------------------------
(* Access control.                                                         *)

\* Roles are sets of permissions of the addresses there are.
THEOREM RolesTypeCorrect == RolesSpec => []RolesTypeOK
  <1>1. RolesInit => RolesTypeOK
    BY DEF RolesInit, RolesTypeOK
  <1>2. RolesTypeOK /\ [RolesNext]_roleVars => RolesTypeOK'
    BY DEF RolesTypeOK, RolesNext, updateRole, updateFeatures, evaluateBy, upgradeTo, roleVars,
           Addresses
  <1> QED
    BY <1>1, <1>2, PTL DEF RolesSpec

\* What evaluateBy makes of a role differs from it only in permissions the
\* operator has, and within these it is what was desired.
LEMMA EvaluateByOwnPermissions ==
    ASSUME NEW operator, NEW target, NEW desired
    PROVE  LET new == evaluateBy(operator, target, desired)
               p == userRoles[operator]
           IN  /\ new \ target \subseteq p
               /\ target \ new \subseteq p
               /\ new \cap p = desired \cap p
  BY DEF evaluateBy

\* A change of a role is within the sender's own role, and the sender is an
\* access manager.
LEMMA UpdateIsAuthorized ==
    ASSUME RolesTypeOK, NEW sender \in Senders, NEW operator \in Addresses, NEW role,
           updateRole(sender, operator, role)
    PROVE  /\ changeIsAuthorized
           /\ \A a \in Addresses : changed(a) \subseteq userRoles[sender]
  <1>1. \A a \in Addresses :
            userRoles'[a] = IF a = operator THEN evaluateBy(sender, userRoles[operator], role)
                                            ELSE userRoles[a]
    BY DEF updateRole, RolesTypeOK
  <1>2. \A a \in Addresses : changed(a) \subseteq userRoles[sender]
    BY <1>1, EvaluateByOwnPermissions DEF changed
  <1>3. ROLE_ACCESS_MANAGER \in userRoles[sender]
    BY DEF updateRole, isOperatorInRole
  <1> QED
    BY <1>2, <1>3 DEF changeIsAuthorized

\* Whatever a step changes in the roles, its sender is allowed to.
LEMMA StepIsAuthorized == RolesTypeOK /\ [RolesNext]_roleVars => changeIsAuthorized
  <1> SUFFICES ASSUME RolesTypeOK, [RolesNext]_roleVars
               PROVE  changeIsAuthorized
    OBVIOUS
  <1>1. CASE UNCHANGED roleVars
    BY <1>1 DEF roleVars, changeIsAuthorized
  <1>2. ASSUME NEW sender \in Senders, NEW operator \in Addresses, NEW role,
               updateRole(sender, operator, role)
        PROVE  changeIsAuthorized
    BY <1>2, UpdateIsAuthorized
  <1>3. ASSUME NEW sender \in Senders, NEW mask, updateFeatures(sender, mask)
        PROVE  changeIsAuthorized
    BY <1>3, UpdateIsAuthorized DEF updateFeatures, Addresses
  <1>4. ASSUME NEW sender \in Senders, NEW new, upgradeTo(sender, new)
        PROVE  changeIsAuthorized
    BY <1>4 DEF upgradeTo, changeIsAuthorized
  <1> QED
    BY <1>1, <1>2, <1>3, <1>4 DEF RolesNext

\* "Access managers can only grant/revoke permissions which they have
\* themselves."
THEOREM OnlyOwnPermissionsChange == RolesSpec => ChangesAreAuthorized
  <1>1. RolesTypeOK => changeIsSenders
    BY UpdateIsAuthorized DEF changeIsSenders
  <1> QED
    BY <1>1, RolesTypeCorrect, StepIsAuthorized, PTL DEF RolesSpec, ChangesAreAuthorized

\* A permission that no account holds any more is never held again.
THEOREM NoPermissionComesBack == RolesSpec => LostPermissionsStayLost
  <1>1. changeIsAuthorized => lostStaysLost
    <2> SUFFICES ASSUME changeIsAuthorized, NEW p \in Permissions, NEW s \in Senders,
                        p \in userRoles'[s]
                 PROVE  heldBySender(p)
      BY DEF lostStaysLost, heldBySender
    <2>1. CASE p \in userRoles[s]
      BY <2>1 DEF heldBySender
    <2>2. CASE p \notin userRoles[s]
      <3>1. p \in changed(s) /\ userRoles' # userRoles
        BY <2>2 DEF changed
      <3> QED
        BY <3>1 DEF changeIsAuthorized, heldBySender, Addresses
    <2> QED
      BY <2>1, <2>2
  <1> QED
    BY <1>1, RolesTypeCorrect, StepIsAuthorized, PTL DEF RolesSpec, LostPermissionsStayLost

-----------------------------------------------------------------------------
(* The oracle.                                                             *)

\* The threshold in force has been validated, or is the one initialize
\* sets; of the feed's times no more is known than that they are times.
FeedInv ==
    /\ validThreshold(oldAnswerThreshold)
    /\ oldAnswerThreshold \in Nat
    /\ oldAnswerThreshold = 30 * Hour \/ oldAnswerThreshold \in Thresholds
    /\ latestRoundData.answer \in Int
    /\ latestRoundData.updatedAt \in Nat /\ latestRoundData.startedAt \in Nat
    /\ now \in Nat

LEMMA FeedInit == Init => FeedInv
  <1> SUFFICES ASSUME Init
               PROVE  FeedInv
    OBVIOUS
  <1>1. latestRoundData \in Rounds
    BY DEF Init
  <1>2. latestRoundData.answer \in Int
    <2>1. latestRoundData.answer \in Answers
      BY <1>1 DEF Rounds
    <2> QED
      BY <2>1, OracleAssumption
  <1> QED
    BY <1>2, OracleAssumption DEF Init, FeedInv, validThreshold, Hour, Day

\* The threshold changes through setOldAnswerThreshold only, the round
\* through the feed only, and time does not run backwards.
LEMMA FeedStep == FeedInv /\ [Next]_vars => FeedInv'
  <1> SUFFICES ASSUME FeedInv, [Next]_vars
               PROVE  FeedInv'
    OBVIOUS
  <1> USE DEF FeedInv
  <1>1. CASE UNCHANGED oracleVars
    BY <1>1 DEF oracleVars, validThreshold
  <1>2. ASSUME NEW sender \in Senders, NEW threshold \in Thresholds,
               setOldAnswerThreshold(sender, threshold)
        PROVE  FeedInv'
    BY <1>2, OracleAssumption DEF setOldAnswerThreshold, validThreshold
  <1>3. ASSUME NEW answer \in Answers, NEW times \in roundTimes,
               NEW answeredInRound \in 1 .. MaxRound,
               newRound(answer, times[1], times[2], answeredInRound)
        PROVE  FeedInv'
    <2>1. times[1] \in Nat /\ times[2] \in Nat
      BY DEF roundTimes, Hour
    <2> QED
      BY <1>3, <2>1, OracleAssumption DEF newRound, validThreshold
  <1>4. CASE NextBlock
    BY <1>4, OracleAssumption DEF NextBlock, validThreshold
  <1> QED
    BY <1>1, <1>2, <1>3, <1>4 DEF Next, Feed, vars, oracleVars

LEMMA FeedInvariant == Spec => []FeedInv
  BY FeedInit, FeedStep, PTL DEF Spec

\* No price is ever made from an answer a week old, one of a time to come or
\* one of an open round, whatever thresholds the oracle managers set and in
\* whatever order, and whatever times the feed gives.
THEOREM PricesAreRecent == Spec => []NoStalePrice
  <1>1. FeedInv => NoStalePrice
    BY DEF FeedInv, NoStalePrice, ethToIlvReturns, validAnswer, recentAnswer, validThreshold, Hour, Day
  <1> QED
    BY <1>1, FeedInvariant, PTL

\* If the managers only set thresholds above the feed's update interval, a
\* feed that keeps to the interval never leaves the Minter without a price.
THEOREM TimelyFeedSuffices ==
    ASSUME \A threshold \in Thresholds : threshold > UpdateInterval
    PROVE  Spec => []TimelyFeedIsUsable
  <1>1. FeedInv => TimelyFeedIsUsable
    BY OracleAssumption
    DEF FeedInv, TimelyFeedIsUsable, ethToIlvReturns, recentAnswer, validAnswer, completeRound,
        UpdateInterval, Hour, Day
  <1> QED
    BY <1>1, FeedInvariant, PTL

LEMMA QuotientOfSum ==
    ASSUME NEW a \in Nat, NEW b \in Nat, NEW n \in Nat \ {0}
    PROVE  (a + b) \div n - (a \div n + b \div n) \in {0, 1}
  BY Z3

\* For whatever the feed answers and whatever amounts are paid, a price is
\* lower when paid in parts by a unit at most.
THEOREM SplitPricesAddUp == Spec => []SplittingSavesLittle
  <1>1. FeedInv => SplittingSavesLittle
    <2> SUFFICES ASSUME FeedInv, ethToIlvReturns,
                        NEW part \in EthAmounts, NEW rest \in EthAmounts
                 PROVE  ethToIlv(part + rest) - (ethToIlv(part) + ethToIlv(rest)) \in {0, 1}
      BY DEF SplittingSavesLittle
    <2> DEFINE answer == latestRoundData.answer
    <2>1. answer \in Int /\ answer # 0
      BY OracleAssumption DEF FeedInv, ethToIlvReturns
    <2>2. CASE answer < 0
      BY <2>2 DEF ethToIlv
    <2>3. CASE answer > 0
      <3>1. part * Unit \in Nat /\ rest * Unit \in Nat /\ (part + rest) * Unit = part * Unit + rest * Unit
        BY OracleAssumption
      <3>2. answer \in Nat \ {0}
        BY <2>1, <2>3
      <3> HIDE DEF answer
      <3>3. (part * Unit + rest * Unit) \div answer
              - ((part * Unit) \div answer + (rest * Unit) \div answer) \in {0, 1}
        BY <3>1, <3>2, QuotientOfSum
      <3> QED
        BY <2>3, <3>1, <3>2, <3>3 DEF ethToIlv, answer
    <2> QED
      BY <2>1, <2>2, <2>3
  <1> QED
    BY <1>1, FeedInvariant, PTL

\* The oracle does nothing to its roles and to its implementation but what
\* access control does, so what is shown above of RolesSpec is true of the
\* oracle contract.
THEOREM OracleKeepsRoles == Spec => RolesSpec
  <1>1. Init => RolesInit
    BY DEF Init
  <1>2. [Next]_vars => [RolesNext]_roleVars
    BY DEF Next, vars, setOldAnswerThreshold, Feed, newRound, NextBlock
  <1> QED
    BY <1>1, <1>2, PTL DEF Spec, RolesSpec
=============================================================================
