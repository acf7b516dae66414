---------------------------- MODULE VRFConsumer ----------------------------
(***************************************************************************)
(* VRFConsumerBaseUpgradeable and the Chainlink VRF coordinator behind it. *)
(* The consumer pays LINK and asks for a random word; the coordinator owes *)
(* one callback for it.  Consumer and coordinator each keep a nonce from   *)
(* which they compute the request id on their own, so the two must agree.  *)
(*                                                                         *)
(* A request id is the hash of the key hash and of a seed that contains    *)
(* the nonce.  The key hash never changes after deployment and the hash is *)
(* taken to be injective, so an id is represented by its nonce.            *)
(*                                                                         *)
(* The coordinator is either the real one, or the VRFCoordinatorMock that  *)
(* the tests and the Ropsten deployment use, which keeps no books at all   *)
(* and calls back with whatever id and number anyone hands it.             *)
(***************************************************************************)
EXTENDS Integers

CONSTANTS MaxNonce,         \* bound: how many requests the consumer makes
          MaxLink,          \* bound: how much LINK the consumer is ever given
          VrfFee,           \* LINK paid for a request
          RandomWords,      \* random words the coordinator can deliver
          MockCoordinator   \* TRUE iff the coordinator is VRFCoordinatorMock

ASSUME VRFAssumption ==
    /\ MaxNonce \in Nat /\ MaxLink \in Nat /\ VrfFee \in Nat
    /\ RandomWords \subseteq Nat
    /\ MockCoordinator \in BOOLEAN

VARIABLES nonces,       \* consumer: nonces[keyHash]
          linkBalance,  \* LINK held by the consumer
          linkFunded,   \* LINK the consumer has received so far
          coordNonces,  \* coordinator: nonces[keyHash][consumer]
          callbacks     \* coordinator: ids whose callback is still owed

vrfVars == <<nonces, linkBalance, linkFunded, coordNonces, callbacks>>

RequestIds == 0 .. MaxNonce - 1

VRFTypeOK ==
    /\ nonces \in 0 .. MaxNonce
    /\ linkBalance \in Nat
    /\ linkFunded \in 0 .. MaxLink
    /\ coordNonces \in Nat
    /\ callbacks \subseteq Nat

\* Mutant of VRFInit: the coordinator has served this consumer before.
VRFInitOutOfSync ==
    /\ nonces = 0
    /\ linkBalance = 0
    /\ linkFunded = 0
    /\ coordNonces = 1
    /\ callbacks = {}

VRFInit ==
    /\ nonces = 0
    /\ linkBalance = 0
    /\ linkFunded = 0
    /\ coordNonces = 0
    /\ callbacks = {}

\* LINK.transferAndCall reaches the coordinator in the same transaction.
randomnessRequest ==
    IF MockCoordinator
    THEN UNCHANGED <<coordNonces, callbacks>>
    ELSE /\ coordNonces' = coordNonces + 1
         /\ callbacks' = callbacks \cup {coordNonces}

\* The id that requestRandomness returns is that of the nonce it consumes.
requestId == nonces

\* Mutant of requestRandomness: the consumer's nonce stays behind.
requestRandomnessSameNonce ==
    /\ nonces < MaxNonce
    /\ linkBalance >= VrfFee
    /\ linkBalance' = linkBalance - VrfFee
    /\ randomnessRequest
    /\ UNCHANGED <<nonces, linkFunded>>

requestRandomness ==
    /\ nonces < MaxNonce
    /\ linkBalance >= VrfFee
    /\ linkBalance' = linkBalance - VrfFee
    /\ randomnessRequest
    /\ nonces' = nonces + 1
    /\ UNCHANGED linkFunded

\* The coordinator forgets a callback before it makes it, whether or not
\* the consumer then accepts the random word.
takeCallback(id) ==
    /\ ~MockCoordinator
    /\ id \in callbacks
    /\ callbacks' = callbacks \ {id}
    /\ UNCHANGED <<nonces, linkBalance, linkFunded, coordNonces>>

\* VRFCoordinatorMock.callBackWithRandomness: any id, at any time.
mockCallback ==
    /\ MockCoordinator
    /\ UNCHANGED vrfVars

\* Anyone may send LINK to the consumer; nothing ever takes it out again
\* except a request.
FundLink(amount) ==
    /\ linkFunded + amount <= MaxLink
    /\ linkBalance' = linkBalance + amount
    /\ linkFunded' = linkFunded + amount
    /\ UNCHANGED <<nonces, coordNonces, callbacks>>
=============================================================================
