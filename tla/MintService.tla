---------------------------- MODULE MintService ----------------------------
(***************************************************************************)
(* What the Minter promises its customers, without saying how: an order is *)
(* placed once, by one requester, for a fixed list of items; the token ids *)
(* it is given belong to it alone; and its random seed is drawn at most    *)
(* once, after which everything about the order is settled for good.       *)
(*                                                                         *)
(* The actions constrain the next value of `order' and choose nothing, so  *)
(* that Minter can be checked against them under a refinement mapping.     *)
(***************************************************************************)
CONSTANTS Orders,    \* names an order can have
          NoOwner,   \* the owner of an order that has not been placed
          NoSeed     \* the seed of an order whose seed has not been drawn

VARIABLE order  \* [Orders -> [owner, items, portraitIds, accessoryIds, seed]]

Placed(o) == order[o].owner # NoOwner

Init ==
    \A o \in Orders :
        /\ order[o].owner = NoOwner
        /\ order[o].portraitIds = {}
        /\ order[o].accessoryIds = {}
        /\ order[o].seed = NoSeed

OthersUnchanged(o) == \A p \in Orders \ {o} : order'[p] = order[p]

\* A new order takes token ids that no other order holds.
Place(o) ==
    /\ ~Placed(o)
    /\ order'[o].owner # NoOwner
    /\ \A p \in Orders \ {o} :
        /\ order'[o].portraitIds \cap order[p].portraitIds = {}
        /\ order'[o].accessoryIds \cap order[p].accessoryIds = {}
    /\ OthersUnchanged(o)

\* The seed of a placed order is drawn; nothing else about it changes.
Reveal(o) ==
    /\ Placed(o)
    /\ order[o].seed = NoSeed
    /\ order'[o].seed # NoSeed
    /\ order'[o] = [order[o] EXCEPT !.seed = order'[o].seed]
    /\ OthersUnchanged(o)

Next == \E o \in Orders : Place(o) \/ Reveal(o)

Spec == Init /\ [][Next]_order
=============================================================================
