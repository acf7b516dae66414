----------------------------- MODULE PriceOracle -----------------------------
(***************************************************************************)
(* IlluvitarsPriceOracleV1: converts a price in ether to sILV with the     *)
(* latest round of a Chainlink feed, if that is recent enough.  The feed   *)
(* is outside the contract and may publish anything at any time; time is   *)
(* counted in hours.                                                       *)
(***************************************************************************)
EXTENDS AccessControl, Integers

CONSTANTS ROLE_PRICE_ORACLE_MANAGER,
          Thresholds,       \* values setOldAnswerThreshold is called with
          Answers,          \* ILV/ETH answers the feed publishes
          Unit,             \* 10 ** aggregator.decimals()
          EthAmounts,       \* arguments of ethToIlv
          StartTime,        \* block timestamp of the deployment
          Elapses,          \* how far a block's timestamp is from the last one
          MaxTime,          \* bound: last block timestamp
          MaxRound          \* bound: last round of the feed

Hour == 1
Day == 24 * Hour
UpdateInterval == Day  \* "Chainlink is expected to update at least once per day"

ASSUME OracleAssumption ==
    /\ ROLE_PRICE_ORACLE_MANAGER \in Permissions
    /\ Thresholds \subseteq Nat /\ EthAmounts \subseteq Nat /\ Elapses \subseteq Nat
    /\ Answers \subseteq Int
    /\ Unit \in Nat \ {0}
    /\ StartTime \in Nat /\ StartTime > 7 * Day
    /\ MaxTime \in Nat /\ MaxTime >= StartTime
    /\ MaxRound \in Nat

VARIABLES oldAnswerThreshold,
          latestRoundData,      \* aggregator.latestRoundData()
          now                   \* now256()

oracleVars == <<oldAnswerThreshold, latestRoundData, now>>
vars == <<roleVars, oracleVars>>

\* The latest round may have been answered by an earlier one, may still be
\* open, which is what an updatedAt of 0 says, and may carry times to come.
Rounds ==
    [roundId: 1 .. MaxRound, answer: Answers, startedAt: 0 .. MaxTime + Hour,
     updatedAt: 0 .. MaxTime + Hour, answeredInRound: 1 .. MaxRound]

OracleTypeOK ==
    /\ RolesTypeOK
    /\ oldAnswerThreshold \in Nat
    /\ latestRoundData \in Rounds
    /\ now \in StartTime .. MaxTime

\* initialize refuses a feed that answers nothing sensible.
Init ==
    /\ RolesInit
    /\ oldAnswerThreshold = 30 * Hour
    /\ latestRoundData \in {r \in Rounds :
            /\ r.roundId = 1 /\ r.answeredInRound = 1
            /\ r.answer > 0
            /\ r.startedAt = StartTime /\ r.updatedAt = StartTime}
    /\ now = StartTime

\* Mutant of validThreshold: the upper bound is a day off.
thresholdUpToAWeek(threshold) == threshold > Hour /\ threshold <= 8 * Day

validThreshold(threshold) == threshold > Hour /\ threshold < 7 * Day

setOldAnswerThreshold(sender, threshold) ==
    /\ isOperatorInRole(sender, {ROLE_PRICE_ORACLE_MANAGER})
    /\ validThreshold(threshold)
    /\ oldAnswerThreshold' = threshold
    /\ UNCHANGED <<roleVars, latestRoundData, now>>

-----------------------------------------------------------------------------
(* ethToIlv.                                                               *)

validAnswer(r) ==
    /\ r.roundId = r.answeredInRound
    /\ r.startedAt <= r.updatedAt
    /\ r.updatedAt <= now

\* Mutant of recentAnswer: measured from the start of the round.
recentlyStarted(r) == r.startedAt > now - oldAnswerThreshold

recentAnswer(r) == r.updatedAt > now - oldAnswerThreshold

\* Otherwise ethToIlv throws; an answer of zero divides by zero.
ethToIlvReturns ==
    LET r == latestRoundData IN validAnswer(r) /\ recentAnswer(r) /\ r.answer # 0

\* Mutant of ethToIlv: it divides first.
ethToIlvDividingFirst(ethOut) ==
    LET answer == latestRoundData.answer
    IN  IF answer < 0 THEN 0 ELSE (ethOut \div answer) * Unit

\* Converted to uint256, a negative answer is larger than any dividend.
ethToIlv(ethOut) ==
    LET answer == latestRoundData.answer
    IN  IF answer < 0 THEN 0 ELSE (ethOut * Unit) \div answer

-----------------------------------------------------------------------------
(* The feed, the chain and the specification.                              *)

\* A round is opened, and answered at once, later or not at all, or it
\* carries over the answer of an earlier round.  Its times are the feed's,
\* which may be ahead of the block's and in any order.
newRound(answer, startedAt, updatedAt, answeredInRound) ==
    /\ latestRoundData.roundId < MaxRound
    /\ answeredInRound <= latestRoundData.roundId + 1
    /\ latestRoundData' =
        [roundId |-> latestRoundData.roundId + 1, answer |-> answer,
         startedAt |-> startedAt, updatedAt |-> updatedAt, answeredInRound |-> answeredInRound]
    /\ UNCHANGED <<roleVars, oldAnswerThreshold, now>>

NextBlock ==
    \E hours \in Elapses :
        /\ now + hours <= MaxTime
        /\ now' = now + hours
        /\ UNCHANGED <<roleVars, oldAnswerThreshold, latestRoundData>>

\* The times <<startedAt, updatedAt>> of a round: started when the last one
\* was answered; still open; started in an hour, or answered then.
roundTimes ==
    {<<latestRoundData.updatedAt, now>>, <<now, 0>>, <<now + Hour, now>>, <<now, now + Hour>>}

Feed ==
    \E answer \in Answers, times \in roundTimes, answeredInRound \in 1 .. MaxRound :
        newRound(answer, times[1], times[2], answeredInRound)

Next ==
    \/ RolesNext /\ UNCHANGED oracleVars
    \/ \E sender \in Senders, threshold \in Thresholds : setOldAnswerThreshold(sender, threshold)
    \/ Feed
    \/ NextBlock

Spec == Init /\ [][Next]_vars

-----------------------------------------------------------------------------
(* Properties.                                                             *)

\* Through any sequence of threshold changes and whatever times the feed
\* gives, no price is made from an answer that is a week old or older, from
\* one of a time to come, or from a round that is still open.
NoStalePrice ==
    ethToIlvReturns =>
        /\ now - latestRoundData.updatedAt \in 0 .. 7 * Day - 1
        /\ latestRoundData.startedAt <= latestRoundData.updatedAt

\* Chainlink's rounds, once answered in their turn.
completeRound(r) ==
    /\ r.roundId = r.answeredInRound /\ r.answer # 0
    /\ r.startedAt <= r.updatedAt /\ r.updatedAt <= now

\* While the feed keeps to its update interval the price is available.
\* This is why "oldAnswerThreshold should be kept bigger than 24 hours".
TimelyFeedIsUsable ==
    LET r == latestRoundData
    IN  completeRound(r) /\ now - r.updatedAt <= UpdateInterval => ethToIlvReturns

\* Paying for a cart in two requests costs at most one unit of sILV less than
\* paying for it in one: nothing but the last digit is lost in the conversion,
\* because it multiplies before it divides.
SplittingSavesLittle ==
    ethToIlvReturns =>
        \A part, rest \in EthAmounts :
            ethToIlv(part + rest) - (ethToIlv(part) + ethToIlv(rest)) \in {0, 1}
=============================================================================
