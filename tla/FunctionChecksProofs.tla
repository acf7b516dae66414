------------------------- MODULE FunctionChecksProofs -------------------------
(***************************************************************************)
(* The functions of the scripts for every input: TLC can try short lists   *)
(* and small numbers only.  random_bn for every range and every width of   *)
(* the generator; the snapshot, the verification of the plots and the      *)
(* pages of the exchange for lists of any length; the drawings of          *)
(* bn_utils.js for any number of values; the permission tables; and the    *)
(* parser of portraits for blueprints of any length.                       *)
(***************************************************************************)
EXTENDS FunctionChecks, DataLemmas

\* A quotient is that many times in what is divided.
LEMMA QuotientIs ==
    ASSUME NEW a \in Nat, NEW n \in Nat, n > 0
    PROVE  /\ a \div n \in Nat
           /\ (a \div n) * n <= a /\ a < (a \div n) * n + n
           /\ a - (a \div n) * n \in Nat
  <1>1. /\ a \div n \in Nat
        /\ (a \div n) * n <= a /\ a < (a \div n) * n + n
    BY Z3
  <1>2. a - (a \div n) * n \in Nat
    BY <1>1, Z3
  <1> QED
    BY <1>1, <1>2

\* Nothing else is.
LEMMA IsQuotient ==
    ASSUME NEW a \in Nat, NEW n \in Nat, n > 0, NEW q \in Nat, q * n <= a, a < q * n + n
    PROVE  a \div n = q
  <1> DEFINE d == a \div n
  <1>1. d \in Nat /\ d * n <= a /\ a < d * n + n
    BY QuotientIs
  <1> HIDE DEF d
  <1>2. \A x, y \in Nat : x + 1 <= y => x * n + n <= y * n
    BY Z3
  <1>3. ~(q + 1 <= d) /\ ~(d + 1 <= q)
    <2>1. q + 1 <= d => q * n + n <= d * n
      BY <1>1, <1>2
    <2>2. d + 1 <= q => d * n + n <= q * n
      BY <1>1, <1>2
    <2>3. q * n \in Nat /\ d * n \in Nat
      BY <1>1
    <2> QED
      BY <1>1, <2>1, <2>2, <2>3
  <1> QED
    BY <1>1, <1>3 DEF d

\* A random number of a range is in it.
LEMMA RandomBnInRange ==
    ASSUME NEW from \in Int, NEW to \in Int, NEW rnd256 \in Nat,
           from < to, rnd256 < TWO256
    PROVE  random_bn(from, to, rnd256) \in from .. to - 1
  <1> DEFINE width == to - from
             q == (width * rnd256) \div TWO256
  <1>1. width \in Nat /\ width > 0
    OBVIOUS
  <1>2. width * rnd256 \in Nat
    BY <1>1
  <1>3. q \in Nat /\ q * TWO256 <= width * rnd256
    BY <1>2, QuotientIs, BnUtilsAssumption
  <1>4. width * rnd256 < width * TWO256
    BY <1>1, BnUtilsAssumption
  <1>5. ~(q >= width)
    <2> HIDE DEF width, q
    <2> SUFFICES ASSUME q >= width
                 PROVE  FALSE
      OBVIOUS
    <2>1. q * TWO256 >= width * TWO256
      BY <1>1, <1>3, BnUtilsAssumption
    <2> QED
      BY <2>1, <1>1, <1>2, <1>3, <1>4, BnUtilsAssumption
  <1> QED
    BY <1>3, <1>5 DEF random_bn

-----------------------------------------------------------------------------
(* The inputs.                                                             *)

\* Inputs are sequences of the elements of their kind.
LEMMA InputTyped == Spec => [](kind \in Kinds /\ input \in Seq(Elements[kind]))
  <1> DEFINE Inv == kind \in Kinds /\ input \in Seq(Elements[kind])
  <1>1. Init => Inv
    BY DEF Init
  <1>2. Inv /\ [Next]_<<kind, input>> => Inv'
    BY DEF Next
  <1> QED
    BY <1>1, <1>2, PTL DEF Spec

-----------------------------------------------------------------------------
(* Random numbers.                                                         *)

\* r \in [from, to): multiplying before dividing loses nothing at either end.
THEOREM RandomsStayInRange == Spec => []RandomsAreInRange
  <1>1. input \in Seq(Elements[kind]) => RandomsAreInRange
    <2> SUFFICES ASSUME kind = "random", input \in Seq(Elements[kind]), Len(input) = 3,
                        input[1] < input[2], input[3] < TWO256
                 PROVE  random_bn(input[1], input[2], input[3]) \in input[1] .. input[2] - 1
      BY DEF RandomsAreInRange
    <2>1. input \in Seq(Nat)
      BY InputAssumption
    <2>2. input[1] \in Nat /\ input[2] \in Nat /\ input[3] \in Nat
      BY <2>1
    <2> QED
      BY <2>2, RandomBnInRange
  <1> QED
    BY <1>1, InputTyped, PTL

-----------------------------------------------------------------------------
(* Tables of chances.                                                      *)

\* In a table of growing chances the search finds tier k or a lower one iff
\* the remainder is below entry k.
LEMMA TierFollowsTable ==
    ASSUME NEW chances \in [1 .. Traits!TIER_CHANCE_LEN -> Nat], Traits!validTierChances(chances),
           NEW value \in Values, NEW k \in 1 .. Traits!TIER_CHANCE_LEN
    PROVE  Traits!getTier(chances, value) <= k <=> value < chances[k]
  <1> DEFINE above == {i \in DOMAIN chances : value < chances[i]}
  <1>1. /\ chances[1] <= chances[2] /\ chances[2] <= chances[3] /\ chances[3] <= chances[4]
        /\ chances[1] \in Nat /\ chances[2] \in Nat /\ chances[3] \in Nat /\ chances[4] \in Nat
    BY DEF Traits!validTierChances, Traits!TIER_CHANCE_LEN
  <1>2. value % Traits!MAX_CHANCE = value /\ value \in Nat
    <2>1. value \in 0 .. 9999
      BY DEF Values, Traits!MAX_CHANCE
    <2> QED
      BY <2>1 DEF Traits!MAX_CHANCE
  <1>3. above \in SUBSET (1 .. 4) /\ k \in 1 .. 4
    BY DEF Traits!TIER_CHANCE_LEN
  <1>4. \A i \in 1 .. 4 : i \in above <=> value < chances[i]
    BY DEF Traits!TIER_CHANCE_LEN
  <1>5. Traits!getTier(chances, value) = IF above = {} THEN 5 ELSE Min(above)
    <2>1. Traits!firstAbove(chances, value) = IF above = {} THEN 0 ELSE Min(above)
      BY DEF Traits!firstAbove, Traits!Min, Min
    <2>2. above # {} => Min(above) \in 1 .. 4
      BY <1>3, LeastIndex
    <2> HIDE DEF above
    <2> QED
      BY <1>2, <2>1, <2>2 DEF Traits!getTier, Traits!TIER_CHANCE_LEN
  <1> HIDE DEF above
  <1>6. CASE above = {}
    BY <1>3, <1>4, <1>5, <1>6
  <1>7. CASE above # {}
    <2>1. Min(above) \in above /\ \A i \in above : Min(above) <= i
      BY <1>3, <1>7, LeastIndex
    <2>2. ASSUME Min(above) <= k PROVE k \in above
      <3>1. value < chances[Min(above)] /\ Min(above) \in 1 .. 4
        BY <1>3, <1>4, <2>1
      <3>2. \A i, j \in 1 .. 4 : i <= j => chances[i] <= chances[j]
        BY <1>1
      <3>3. chances[Min(above)] <= chances[k]
        BY <1>3, <2>2, <3>1, <3>2
      <3>4. chances[Min(above)] \in Nat /\ chances[k] \in Nat
        BY <1>3, <3>1 DEF Traits!TIER_CHANCE_LEN
      <3> QED
        BY <1>2, <1>3, <1>4, <3>1, <3>3, <3>4
    <2> QED
      BY <1>3, <1>4, <1>5, <1>7, <2>1, <2>2
  <1> QED
    BY <1>6, <1>7

\* Whatever table the setters let pass, the chances of the tiers are the ones
\* in the table: for every table of natural numbers.
THEOREM TiersAlwaysFollowTables == Spec => []TiersFollowTables
  <1>1. input \in Seq(Elements[kind]) => TiersFollowTables
    <2> SUFFICES ASSUME kind = "tables", input \in Seq(Elements[kind]),
                        Len(input) = Traits!TIER_CHANCE_LEN, Traits!validTierChances(input),
                        NEW value \in Values, NEW k \in 1 .. Traits!TIER_CHANCE_LEN
                 PROVE  Traits!getTier(input, value) <= k <=> value < input[k]
      BY DEF TiersFollowTables
    <2>1. input \in Seq(Nat)
      BY InputAssumption
    <2>2. input \in [1 .. Traits!TIER_CHANCE_LEN -> Nat]
      BY <2>1
    <2> QED
      BY <2>2, TierFollowsTable
  <1> QED
    BY <1>1, InputTyped, PTL

-----------------------------------------------------------------------------
(* Events.                                                                 *)

\* Of the first n events, one is later than all others.
LEMMA LatestExists ==
    ASSUME NEW N \in Nat, DOMAIN input = 1 .. N, N > 0,
           \A i \in 1 .. N : input[i].blockNumber \in Nat
    PROVE  \E i \in 1 .. N : \A j \in (1 .. N) \ {i} : isLater(i, j)
  <1> DEFINE hasLatest(m) == \E i \in 1 .. m : \A j \in (1 .. m) \ {i} : isLater(i, j)
             Good == {n \in Nat : n + 1 <= N => hasLatest(n + 1)}
  <1>1. 0 \in Good
    <2>1. hasLatest(1)
      OBVIOUS
    <2> HIDE DEF hasLatest
    <2> QED
      BY <2>1
  <1>2. ASSUME NEW n \in Nat, n \in Good
        PROVE  n + 1 \in Good
    <2> DEFINE m == n + 1
               e == n + 2
    <2> SUFFICES ASSUME e <= N
                 PROVE  hasLatest(e)
      <3>1. (n + 1) + 1 = e
        OBVIOUS
      <3> HIDE DEF hasLatest
      <3> QED
        BY <3>1
    <2>1. PICK i \in 1 .. m : \A j \in (1 .. m) \ {i} : isLater(i, j)
      <3>1. m <= N
        OBVIOUS
      <3>2. hasLatest(m)
        <4> HIDE DEF hasLatest
        <4> QED
          BY <1>2, <3>1
      <3> QED
        BY <3>2
    <2>2. i \in 1 .. N /\ e \in 1 .. N /\ i < e /\ input[i].blockNumber \in Nat /\ input[e].blockNumber \in Nat
      OBVIOUS
    <2>3. \A j \in 1 .. e : j = e \/ j \in 1 .. m
      OBVIOUS
    <2>4. CASE input[i].blockNumber > input[e].blockNumber
      <3>1. isLater(i, e) /\ i \in 1 .. e
        BY <2>2, <2>4 DEF isLater
      <3> HIDE DEF m, e
      <3> QED
        BY <2>1, <2>3, <3>1
    <2>5. CASE ~(input[i].blockNumber > input[e].blockNumber)
      <3>1. isLater(e, i)
        BY <2>2, <2>5 DEF isLater
      <3>2. ASSUME NEW j \in 1 .. m
            PROVE  isLater(e, j)
        <4>1. j \in 1 .. N /\ j < e /\ input[j].blockNumber \in Nat
          OBVIOUS
        <4>2. j = i \/ isLater(i, j)
          BY <2>1
        <4> QED
          BY <2>2, <3>1, <4>1, <4>2 DEF isLater
      <3>3. e \in 1 .. e
        OBVIOUS
      <3> HIDE DEF m, e
      <3> QED
        BY <2>3, <3>2, <3>3
    <2> QED
      BY <2>4, <2>5
  <1>3. Nat \subseteq Good
    <2> HIDE DEF Good
    <2> QED
      BY <1>1, <1>2, SetInduction
  <1>4. N - 1 \in Nat /\ (N - 1) + 1 = N
    OBVIOUS
  <1>5. hasLatest(N)
    <2> HIDE DEF hasLatest
    <2> QED
      BY <1>3, <1>4
  <1> QED
    BY <1>5

\* The event the sort leaves last is the latest one.
LEMMA LastIsLatest ==
    ASSUME NEW N \in Nat, DOMAIN input = 1 .. N, \A i \in 1 .. N : input[i].blockNumber \in Nat,
           NEW i \in 1 .. N, \A j \in (1 .. N) \ {i} : isLater(i, j)
    PROVE  last_transfer_event(input) = input[i]
  <1> DEFINE isLast(k) == \A j \in (1 .. N) \ {k} :
                              /\ ~isSortedBefore(input[k], input[j])
                              /\ isSortedBefore(input[j], input[k]) \/ j < k
  <1>1. isLast(i)
    BY DEF isLater, isSortedBefore
  <1>2. ASSUME NEW k \in 1 .. N, isLast(k)
        PROVE  k = i
    <2> SUFFICES ASSUME k # i PROVE FALSE
      OBVIOUS
    <2>1. isLater(i, k)
      OBVIOUS
    <2>2. ~isSortedBefore(input[k], input[i]) /\ (isSortedBefore(input[i], input[k]) \/ i < k)
      BY <1>2
    <2>3. input[i].blockNumber \in Nat /\ input[k].blockNumber \in Nat
      OBVIOUS
    <2> QED
      BY <2>1, <2>2, <2>3 DEF isLater, isSortedBefore
  <1>3. (CHOOSE k \in 1 .. N : isLast(k)) = i
    <2> HIDE DEF isLast
    <2> QED
      BY <1>1, <1>2
  <1>4. (CHOOSE k \in DOMAIN input : \A j \in DOMAIN input \ {k} :
            /\ ~isSortedBefore(input[k], input[j])
            /\ isSortedBefore(input[j], input[k]) \/ j < k) = i
    BY <1>3
  <1> QED
    BY <1>4 DEF last_transfer_event

\* The owner by the events is the receiver of the token's latest transfer, for
\* any number of transfers of any tokens in any order, unless another token was
\* transferred since.
THEOREM SnapshotIsAlwaysLatestOwner == Spec => []SnapshotIsLatestOwner
  <1>1. input \in Seq(Elements[kind]) => SnapshotIsLatestOwner
    <2> DEFINE T(token_id) == transfersOf(token_id)
    <2> SUFFICES ASSUME kind = "transfers", input \in Seq(Elements[kind]),
                        NEW token_id \in {input[i].tokenId : i \in DOMAIN input},
                        \A j \in DOMAIN input \ T(token_id) : \E i \in T(token_id) : isLater(i, j)
                 PROVE  \E i \in T(token_id) :
                            /\ \A j \in T(token_id) \ {i} : isLater(i, j)
                            /\ get_owner_of_snapshot_l1(input, token_id) = input[i].to
      BY DEF SnapshotIsLatestOwner
    <2> DEFINE n == Len(input)
    <2>1. DOMAIN input = 1 .. n /\ n \in Nat /\ n > 0
      OBVIOUS
    <2>2. \A i \in 1 .. n : input[i].blockNumber \in Nat
      BY <2>1, InputAssumption
    <2>3. T(token_id) \subseteq DOMAIN input
      BY DEF transfersOf
    <2> HIDE DEF n, T
    <2>4. PICK i \in 1 .. n : \A j \in (1 .. n) \ {i} : isLater(i, j)
      BY <2>1, <2>2, LatestExists
    <2>5. i \in T(token_id)
      <3> SUFFICES ASSUME i \notin T(token_id) PROVE FALSE
        OBVIOUS
      <3>1. PICK k \in T(token_id) : isLater(k, i)
        BY <2>1
      <3>2. k \in 1 .. n /\ k # i /\ isLater(i, k)
        BY <2>1, <2>3, <2>4, <3>1
      <3>3. input[i].blockNumber \in Nat /\ input[k].blockNumber \in Nat /\ i \in Nat /\ k \in Nat
        BY <2>1, <2>2, <3>2
      <3> QED
        BY <3>1, <3>2, <3>3 DEF isLater
    <2>6. get_owner_of_snapshot_l1(input, token_id) = input[i].to
      <3>1. last_transfer_event(input) = input[i]
        BY <2>1, <2>2, <2>4, LastIsLatest
      <3>2. input # <<>>
        BY <2>1
      <3> QED
        BY <3>1, <3>2 DEF get_owner_of_snapshot_l1, getPastEvents
    <2>7. \A j \in T(token_id) \ {i} : isLater(i, j)
      BY <2>1, <2>3, <2>4
    <2> QED
      BY <2>5, <2>6, <2>7
  <1> QED
    BY <1>1, InputTyped, PTL

formattedFrom(E) == {formatted(e) : e \in E}

\* The events are those of the range, formatted.
areOfRange(events, objs, from_block, to_block) ==
    {events[k] : k \in DOMAIN events}
        = {formatted(objs[k]) : k \in {i \in DOMAIN objs : isInRange(objs[i], from_block, to_block)}}

\* The events of a range of blocks are those that are in it, formatted.
LEMMA EventsOfRange ==
    ASSUME NEW E, NEW objs \in Seq(E), NEW from_block, NEW to_block,
           NEW events, events = get_plot_bought_l2_events(objs, from_block, to_block)
    PROVE  events \in Seq(formattedFrom(E)) /\ areOfRange(events, objs, from_block, to_block)
  <1> DEFINE N == Len(objs)
             V == Seq(formattedFrom(E))
             push(v, i) == pushed(v, objs[i], from_block, to_block)
             step == [p \in (1 .. N) \X V |-> push(p[2], p[1])]
             folds(F) == F = [s \in SUBSET (1 .. N) |-> IF s = {} THEN <<>> ELSE push(F[s \ {Max(s)}], Max(s))]
             F0 == CHOOSE F : folds(F)
             passed(n) == {formatted(objs[k]) : k \in {i \in 1 .. n : isInRange(objs[i], from_block, to_block)}}
             elements(v) == {v[k] : k \in DOMAIN v}
  <1>1. N \in Nat /\ DOMAIN objs = 1 .. N /\ <<>> \in V
    OBVIOUS
  <1>2. \A i \in 1 .. N, v \in V : push(v, i) \in V
    BY DEF pushed, formattedFrom
  <1>3. /\ step \in [(1 .. N) \X V -> V]
        /\ \A i \in 1 .. N, v \in V : step[<<i, v>>] = push(v, i)
    BY <1>2
  <1>4. \A s \in SUBSET (1 .. N) : s # {} => Max(s) \in 1 .. N
    BY <1>1, MaxElement
  <1>5. events = (CHOOSE F : folds(F))[1 .. N]
    BY <1>1 DEF get_plot_bought_l2_events, FoldLeft, MapThenFoldSet
  <1>6. \A i \in 1 .. N, v \in V : elements(push(v, i)) =
            IF isInRange(objs[i], from_block, to_block) THEN elements(v) \cup {formatted(objs[i])} ELSE elements(v)
    <2> SUFFICES ASSUME NEW i \in 1 .. N, NEW v \in V, isInRange(objs[i], from_block, to_block)
                 PROVE  elements(push(v, i)) = elements(v) \cup {formatted(objs[i])}
      BY DEF pushed
    <2> DEFINE w == Append(v, formatted(objs[i]))
    <2>1. push(v, i) = w
      BY DEF pushed
    <2>2. /\ DOMAIN w = 1 .. Len(v) + 1 /\ DOMAIN v = 1 .. Len(v) /\ Len(v) \in Nat
          /\ w[Len(v) + 1] = formatted(objs[i])
          /\ \A k \in 1 .. Len(v) : w[k] = v[k]
      OBVIOUS
    <2>3. DOMAIN w = DOMAIN v \cup {Len(v) + 1}
      BY <2>2
    <2> HIDE DEF w
    <2> QED
      BY <2>1, <2>2, <2>3
  <1> HIDE DEF N, V, step, push
  <1>7. \E F : folds(F)
    <2>1. PICK F \in [SUBSET (1 .. N) -> V] : isFold(F, N, <<>>, step)
      BY <1>1, <1>3, FoldExists
    <2>2. \A s \in SUBSET (1 .. N) : s # {} => F[s \ {Max(s)}] \in V
      OBVIOUS
    <2>3. \A s \in SUBSET (1 .. N) : s # {} => step[<<Max(s), F[s \ {Max(s)}]>>] = push(F[s \ {Max(s)}], Max(s))
      BY <1>3, <1>4, <2>2
    <2>4. folds(F)
      BY <2>1, <2>3 DEF isFold
    <2> QED
      BY <2>4
  <1>8. folds(F0)
    BY <1>7
  <1>9. events = F0[1 .. N]
    BY <1>5
  <1> HIDE DEF F0
  <1>10. PICK G : foldsByIndex(G, F0, N, V, <<>>, step)
    <2>1. F0[{}] = <<>>
      BY <1>8
    <2>2. ASSUME NEW s \in SUBSET (1 .. N), s # {}, F0[s \ {Max(s)}] \in V
          PROVE  F0[s] = step[<<Max(s), F0[s \ {Max(s)}]>>]
      <3>1. F0[s] = push(F0[s \ {Max(s)}], Max(s))
        BY <1>8, <2>2
      <3> QED
        BY <1>3, <1>4, <2>2, <3>1
    <2>3. foldsBySets(F0, N, V, <<>>, step)
      BY <2>1, <2>2 DEF foldsBySets
    <2> QED
      BY <1>1, <1>3, <2>3, FoldSteps
  <1> DEFINE Good == {n \in Nat : n <= N => elements(G[n]) = passed(n)}
  <1>11. 0 \in Good
    BY <1>10 DEF foldsByIndex
  <1>12. ASSUME NEW n \in Nat, n \in Good
         PROVE  n + 1 \in Good
    <2> HIDE DEF elements, passed
    <2> SUFFICES ASSUME n + 1 <= N
                 PROVE  elements(G[n + 1]) = passed(n + 1)
      OBVIOUS
    <2>1. n + 1 \in 1 .. N /\ (n + 1) - 1 = n /\ elements(G[n]) = passed(n) /\ G[n] \in V
      BY <1>1, <1>10, <1>12 DEF foldsByIndex
    <2>2. G[n + 1] = push(G[n], n + 1)
      BY <1>3, <1>10, <2>1 DEF foldsByIndex
    <2>3. 1 .. n + 1 = (1 .. n) \cup {n + 1}
      OBVIOUS
    <2>4. passed(n + 1) = IF isInRange(objs[n + 1], from_block, to_block)
                          THEN passed(n) \cup {formatted(objs[n + 1])} ELSE passed(n)
      BY <2>3 DEF passed
    <2> QED
      BY <1>6, <2>1, <2>2, <2>4
  <1>13. Nat \subseteq Good
    <2> HIDE DEF Good
    <2> QED
      BY <1>11, <1>12, SetInduction
  <1>14. elements(G[N]) = passed(N)
    <2> HIDE DEF elements, passed
    <2> QED
      BY <1>1, <1>13
  <1>15. G[N] \in V /\ G[N] = events
    BY <1>1, <1>9, <1>10 DEF foldsByIndex
  <1> QED
    BY <1>1, <1>14, <1>15 DEF V, areOfRange

\* No difference is found iff every token is known and as its event says.
LEMMA NoDifference ==
    ASSUME NEW E, NEW events \in Seq(E), NEW m
    PROVE  verify(events, m) = <<>> <=>
                \A k \in DOMAIN events : hasMint(m, events[k].token_id) /\ ~differs(events[k], m)
  <1> DEFINE N == Len(events)
             diff(e) == [token_id |-> e.token_id, event |-> e.plot_packed, l2 |-> m[e.token_id]]
             V == Seq({diff(e) : e \in E}) \cup {Throws}
             compare(v, i) == compared(v, events[i], m)
             step == [p \in (1 .. N) \X V |-> compare(p[2], p[1])]
             folds(F) == F = [s \in SUBSET (1 .. N) |-> IF s = {} THEN <<>> ELSE compare(F[s \ {Max(s)}], Max(s))]
             F0 == CHOOSE F : folds(F)
             same(i) == hasMint(m, events[i].token_id) /\ ~differs(events[i], m)
  <1>1. N \in Nat /\ DOMAIN events = 1 .. N /\ <<>> \in V /\ \A i \in 1 .. N : events[i] \in E
    OBVIOUS
  <1>2. \A i \in 1 .. N, v \in V : v # Throws => Append(v, diff(events[i])) \in V
    BY <1>1
  <1>3. \A i \in 1 .. N, v \in V : compare(v, i) \in V
    BY <1>2 DEF compared
  <1>4. /\ step \in [(1 .. N) \X V -> V]
        /\ \A i \in 1 .. N, v \in V : step[<<i, v>>] = compare(v, i)
    BY <1>3
  <1>5. \A s \in SUBSET (1 .. N) : s # {} => Max(s) \in 1 .. N
    BY <1>1, MaxElement
  <1>6. verify(events, m) = (CHOOSE F : folds(F))[1 .. N]
    BY <1>1 DEF verify, FoldLeft, MapThenFoldSet
  <1>7. \A i \in 1 .. N, v \in V : compare(v, i) = <<>> <=> v = <<>> /\ same(i)
    <2> SUFFICES ASSUME NEW i \in 1 .. N, NEW v \in V
                 PROVE  compare(v, i) = <<>> <=> v = <<>> /\ same(i)
      OBVIOUS
    <2>1. CASE v = Throws
      BY <2>1, QueriesAssumption DEF compared
    <2>2. CASE v # Throws
      <3> DEFINE S == {diff(e) : e \in E}
                 d == diff(events[i])
      <3>1. v \in Seq(S) /\ d \in S
        BY <1>1, <2>2
      <3> HIDE DEF S, d
      <3>2. Len(Append(v, d)) = Len(v) + 1 /\ Len(v) \in Nat
        BY <3>1, AppendProperties, LenProperties
      <3>3. Append(v, d) # <<>>
        BY <3>2
      <3> USE DEF d
      <3> QED
        BY <2>2, <3>3, QueriesAssumption DEF compared
    <2> QED
      BY <2>1, <2>2
  <1> HIDE DEF N, V, step, compare
  <1>8. \E F : folds(F)
    <2>1. PICK F \in [SUBSET (1 .. N) -> V] : isFold(F, N, <<>>, step)
      BY <1>1, <1>4, FoldExists
    <2>2. \A s \in SUBSET (1 .. N) : s # {} => F[s \ {Max(s)}] \in V
      OBVIOUS
    <2>3. \A s \in SUBSET (1 .. N) : s # {} => step[<<Max(s), F[s \ {Max(s)}]>>] = compare(F[s \ {Max(s)}], Max(s))
      BY <1>4, <1>5, <2>2
    <2>4. folds(F)
      BY <2>1, <2>3 DEF isFold
    <2> QED
      BY <2>4
  <1>9. folds(F0) /\ verify(events, m) = F0[1 .. N]
    BY <1>6, <1>8
  <1> HIDE DEF F0
  <1>10. PICK G : foldsByIndex(G, F0, N, V, <<>>, step)
    <2>1. F0[{}] = <<>>
      BY <1>9
    <2>2. ASSUME NEW s \in SUBSET (1 .. N), s # {}, F0[s \ {Max(s)}] \in V
          PROVE  F0[s] = step[<<Max(s), F0[s \ {Max(s)}]>>]
      <3>1. F0[s] = compare(F0[s \ {Max(s)}], Max(s))
        BY <1>9, <2>2
      <3> QED
        BY <1>4, <1>5, <2>2, <3>1
    <2>3. foldsBySets(F0, N, V, <<>>, step)
      BY <2>1, <2>2 DEF foldsBySets
    <2> QED
      BY <1>1, <1>4, <2>3, FoldSteps
  <1> DEFINE Good == {n \in Nat : n <= N => (G[n] = <<>> <=> \A i \in 1 .. n : same(i))}
  <1>11. 0 \in Good
    BY <1>10 DEF foldsByIndex
  <1>12. ASSUME NEW n \in Nat, n \in Good
         PROVE  n + 1 \in Good
    <2> HIDE DEF same
    <2> SUFFICES ASSUME n + 1 <= N
                 PROVE  G[n + 1] = <<>> <=> \A i \in 1 .. n + 1 : same(i)
      OBVIOUS
    <2>1. n + 1 \in 1 .. N /\ (n + 1) - 1 = n /\ G[n] \in V /\ (G[n] = <<>> <=> \A i \in 1 .. n : same(i))
      BY <1>1, <1>10, <1>12 DEF foldsByIndex
    <2>2. G[n + 1] = compare(G[n], n + 1)
      BY <1>4, <1>10, <2>1 DEF foldsByIndex
    <2>3. 1 .. n + 1 = (1 .. n) \cup {n + 1}
      OBVIOUS
    <2> QED
      BY <1>7, <2>1, <2>2, <2>3
  <1>13. Nat \subseteq Good
    <2> HIDE DEF Good
    <2> QED
      BY <1>11, <1>12, SetInduction
  <1>14. G[N] = <<>> <=> \A i \in 1 .. N : same(i)
    <2> HIDE DEF same
    <2> QED
      BY <1>1, <1>13
  <1>15. G[N] = verify(events, m)
    BY <1>9, <1>10 DEF foldsByIndex
  <1> QED
    BY <1>1, <1>14, <1>15

\* verify calls the events of a range of blocks consistent only if IMX has
\* every token of theirs as they say, for any number of events.
THEOREM ConsistentAlwaysMeansEqual == Spec => []ConsistentMeansEqual
  <1>1. input \in Seq(Elements[kind]) => ConsistentMeansEqual
    <2> DEFINE agrees(e) == e._tokenId \in DOMAIN minted /\ minted[e._tokenId] = e._plotPacked
    <2> SUFFICES ASSUME kind = "plots", input \in Seq(Elements[kind]),
                        NEW from_block \in {Null, 1, 2}, NEW to_block \in {Null, 1, 2},
                        NEW events, events = get_plot_bought_l2_events(input, from_block, to_block)
                 PROVE  verify(events, minted) = <<>> <=>
                            \A i \in DOMAIN input :
                                \/ from_block # Null /\ input[i].blockNumber < from_block
                                \/ to_block # Null /\ input[i].blockNumber > to_block
                                \/ agrees(input[i])
      BY DEF ConsistentMeansEqual
    <2> DEFINE E == Elements["plots"]
               same(e) == hasMint(minted, e.token_id) /\ ~differs(e, minted)
    <2>1. input \in Seq(E) /\ \A i \in DOMAIN input : input[i].blockNumber \in Nat
      BY InputAssumption
    <2>2. events \in Seq(formattedFrom(E)) /\ areOfRange(events, input, from_block, to_block)
      <3>1. input \in Seq(E)
        BY <2>1
      <3> HIDE DEF E
      <3> QED
        BY <3>1, EventsOfRange
    <2>3. verify(events, minted) = <<>> <=> \A k \in DOMAIN events : same(events[k])
      BY <2>2, NoDifference
    <2>4. \A i \in DOMAIN input : same(formatted(input[i])) <=> agrees(input[i])
      BY DEF hasMint, differs, formatted
    <2>5. \A i \in DOMAIN input : ~isInRange(input[i], from_block, to_block) <=>
                \/ from_block # Null /\ input[i].blockNumber < from_block
                \/ to_block # Null /\ input[i].blockNumber > to_block
      BY <2>1 DEF isInRange
    <2> HIDE DEF same, agrees, E
    <2>6. (\A k \in DOMAIN events : same(events[k])) <=>
                \A i \in DOMAIN input : isInRange(input[i], from_block, to_block) => same(formatted(input[i]))
      BY <2>2 DEF areOfRange
    <2> QED
      BY <2>3, <2>4, <2>5, <2>6
  <1> QED
    BY <1>1, InputTyped, PTL

-----------------------------------------------------------------------------
(* Pages.                                                                  *)

\* The lesser of two numbers.
LEMMA MinOfTwo ==
    ASSUME NEW a \in Nat, NEW b \in Nat
    PROVE  Min({a, b}) = IF a <= b THEN a ELSE b
  <1> DEFINE m == IF a <= b THEN a ELSE b
             isLeast(x) == \A y \in {a, b} : x <= y
  <1>1. m \in {a, b} /\ isLeast(m)
    OBVIOUS
  <1>2. \A x \in {a, b} : isLeast(x) => x = m
    OBVIOUS
  <1>3. (CHOOSE x \in {a, b} : isLeast(x)) = m
    <2> HIDE DEF m, isLeast
    <2> QED
      BY <1>1, <1>2
  <1> QED
    BY <1>3 DEF Min

\* The newest n records up to a cursor.
newestFrom(cursor, n) == [i \in 1 .. n |-> cursor - i + 1]

\* As many as are asked for, if there are as many.
wantedFrom(cursor, page_size, n) ==
    IF n = NoLimit \/ cursor <= n * page_size THEN cursor ELSE n * page_size

\* Whether there is another request.
goesOn(cursor, page_size, n) == cursor > page_size /\ loopsOn(n)

\* What the recursion of get_all_transfers defines.
isFrom(F, total, page_size, loop_n_times) ==
    F = [request \in (0 .. total) \X (0 .. loop_n_times) |->
            LET cursor == request[1]
                n == request[2]
                rest == cursorAfter(cursor, page_size)
            IN  page(cursor, page_size) \o
                    (IF rest # NoCursor /\ loopsOn(n) THEN F[<<rest, loopsLeft(n)>>] ELSE <<>>)]

\* It defines something.
LEMMA FromExists ==
    ASSUME NEW total \in Nat, NEW P \in Nat, P > 0, NEW L \in Nat
    PROVE  \E F : isFrom(F, total, P, L)
  <1> DEFINE D == (0 .. total) \X (0 .. L)
             V == Seq(Int)
             more(d) == goesOn(d[1], P, d[2])
             rank == [d \in D |-> IF more(d) THEN d[1] ELSE 0]
             prev == [d \in D |-> IF more(d) THEN <<d[1] - P, loopsLeft(d[2])>> ELSE d]
             base == [d \in D |-> page(d[1], P) \o <<>>]
             step == [p \in D \X V |-> page(p[1][1], P) \o p[2]]
  <1>1. \A d \in D : d[1] \in 0 .. total /\ d[2] \in 0 .. L /\ d = <<d[1], d[2]>>
    OBVIOUS
  <1>2. \A c \in 0 .. total : page(c, P) \in V
    <2> SUFFICES ASSUME NEW c \in 0 .. total
                 PROVE  page(c, P) \in V
      OBVIOUS
    <2> DEFINE k == IF P < c THEN P ELSE c
    <2>1. k \in Nat /\ page(c, P) = [i \in 1 .. k |-> c - i + 1]
      BY DEF page
    <2> HIDE DEF k
    <2>2. \A i \in 1 .. k : c - i + 1 \in Int
      BY <2>1
    <2> QED
      BY <2>1, <2>2
  <1>3. \A n \in 0 .. L : loopsOn(n) => loopsLeft(n) \in 0 .. L
    BY DEF loopsOn, loopsLeft, NoLimit
  <1>4. rank \in [D -> Nat]
    BY <1>1
  <1>5. \A d \in D : more(d) => <<d[1] - P, loopsLeft(d[2])>> \in D /\ d[1] - P < d[1] /\ d[1] - P \in Nat /\ d[1] # 0
    BY <1>1, <1>3 DEF goesOn
  <1>6. prev \in [D -> D]
    BY <1>5
  <1>7. base \in [D -> V]
    BY <1>1, <1>2
  <1>8. step \in [D \X V -> V]
    <2> SUFFICES ASSUME NEW p \in D \X V
                 PROVE  page(p[1][1], P) \o p[2] \in V
      OBVIOUS
    <2>1. page(p[1][1], P) \in V /\ p[2] \in V
      BY <1>1, <1>2
    <2> QED
      BY <2>1, ConcatProperties
  <1>9. \A d \in D : rank[d] # 0 => rank[prev[d]] < rank[d]
    <2> SUFFICES ASSUME NEW d \in D, more(d)
                 PROVE  rank[prev[d]] < rank[d]
      OBVIOUS
    <2> DEFINE e == <<d[1] - P, loopsLeft(d[2])>>
    <2>1. e \in D /\ e[1] < d[1] /\ e[1] \in Nat /\ d[1] # 0 /\ d[1] \in Nat /\ prev[d] = e /\ rank[d] = d[1]
      BY <1>1, <1>5
    <2>2. rank[e] = e[1] \/ rank[e] = 0
      BY <2>1
    <2> HIDE DEF rank, prev, e
    <2> QED
      BY <2>1, <2>2
  <1>10. \A d \in D : rank[d] <= total
    BY <1>1
  <1>11. \A d \in D : /\ rank[d] = 0 <=> ~more(d)
                      /\ more(d) => prev[d] = <<d[1] - P, loopsLeft(d[2])>>
                      /\ base[d] = page(d[1], P) \o <<>>
    BY <1>1, <1>5
  <1>12. \A d \in D, v \in V : step[<<d, v>>] = page(d[1], P) \o v
    OBVIOUS
  <1> HIDE DEF rank, prev, base, step, more
  <1>13. PICK F \in [D -> V] : isRecursive(F, D, rank, prev, base, step)
    BY <1>4, <1>6, <1>7, <1>8, <1>9, <1>10, Recursion
  <1>14. \A d \in D : F[d] = page(d[1], P) \o (IF more(d) THEN F[<<d[1] - P, loopsLeft(d[2])>>] ELSE <<>>)
    <2> SUFFICES ASSUME NEW d \in D
                 PROVE  F[d] = page(d[1], P) \o (IF more(d) THEN F[<<d[1] - P, loopsLeft(d[2])>>] ELSE <<>>)
      OBVIOUS
    <2>1. CASE more(d)
      <3>1. F[d] = step[<<d, F[prev[d]]>>] /\ prev[d] \in D
        BY <2>1, <1>6, <1>11, <1>13 DEF isRecursive
      <3>2. F[prev[d]] \in V
        BY <3>1
      <3> QED
        BY <2>1, <3>1, <3>2, <1>11, <1>12
    <2>2. CASE ~more(d)
      BY <2>2, <1>11, <1>13 DEF isRecursive
    <2> QED
      BY <2>1, <2>2
  <1>15. \A d \in D :
            F[d] = page(d[1], P) \o (IF cursorAfter(d[1], P) # NoCursor /\ loopsOn(d[2])
                                     THEN F[<<cursorAfter(d[1], P), loopsLeft(d[2])>>] ELSE <<>>)
    <2> SUFFICES ASSUME NEW d \in D
                 PROVE  F[d] = page(d[1], P) \o (IF cursorAfter(d[1], P) # NoCursor /\ loopsOn(d[2])
                                                 THEN F[<<cursorAfter(d[1], P), loopsLeft(d[2])>>] ELSE <<>>)
      OBVIOUS
    <2>1. more(d) <=> d[1] > P /\ loopsOn(d[2])
      BY DEF more, goesOn
    <2>2. /\ cursorAfter(d[1], P) # NoCursor <=> d[1] > P
          /\ d[1] > P => cursorAfter(d[1], P) = d[1] - P
      BY <1>1 DEF cursorAfter, NoCursor
    <2> QED
      BY <1>14, <2>1, <2>2
  <1>16. isFrom(F, total, P, L)
    BY <1>15 DEF isFrom
  <1> QED
    BY <1>16

\* A page and what is older is what is newest.
LEMMA PageAndOlder ==
    ASSUME NEW c \in Nat, NEW P \in Nat, c > P, NEW w \in Nat
    PROVE  page(c, P) \o newestFrom(c - P, w) = newestFrom(c, P + w)
  <1> DEFINE s == page(c, P)
             t == newestFrom(c - P, w)
             u == newestFrom(c, P + w)
  <1>1. s = [i \in 1 .. P |-> c - i + 1] /\ t = [i \in 1 .. w |-> (c - P) - i + 1] /\ u = [i \in 1 .. P + w |-> c - i + 1]
    BY DEF page, newestFrom
  <1> HIDE DEF s, t, u
  <1>2. s \in Seq(Int) /\ t \in Seq(Int) /\ u \in Seq(Int)
    BY <1>1
  <1>3. Len(s) = P /\ Len(t) = w /\ Len(u) = P + w
    BY <1>1, <1>2
  <1>4. s \o t \in Seq(Int) /\ Len(s \o t) = P + w
    BY <1>2, <1>3, ConcatProperties
  <1>5. \A i \in 1 .. P + w : (s \o t)[i] = u[i]
    <2> SUFFICES ASSUME NEW i \in 1 .. P + w
                 PROVE  (s \o t)[i] = u[i]
      OBVIOUS
    <2>1. (s \o t)[i] = IF i <= P THEN s[i] ELSE t[i - P]
      BY <1>2, <1>3, ConcatProperties
    <2>2. CASE i <= P
      BY <1>1, <2>1, <2>2
    <2>3. CASE i > P
      <3>1. i - P \in 1 .. w /\ i \in 1 .. P + w
        BY <2>3
      <3>2. t[i - P] = (c - P) - (i - P) + 1 /\ u[i] = c - i + 1
        BY <1>1, <3>1
      <3> QED
        BY <2>1, <2>3, <3>2
    <2>4. i <= P \/ i > P
      OBVIOUS
    <2> QED
      BY <2>2, <2>3, <2>4, Zenon
  <1>6. s \o t = u
    BY <1>2, <1>3, <1>4, <1>5, SeqEqual
  <1> QED
    BY <1>6 DEF s, t, u

\* A page with nothing after it.
LEMMA LastPage ==
    ASSUME NEW c \in Nat, NEW P \in Nat
    PROVE  page(c, P) \o <<>> = newestFrom(c, IF P < c THEN P ELSE c)
  <1> DEFINE k == IF P < c THEN P ELSE c
             s == page(c, P)
  <1>1. k \in Nat /\ s = [i \in 1 .. k |-> c - i + 1]
    BY DEF page
  <1>2. s = newestFrom(c, k)
    BY <1>1 DEF newestFrom
  <1> HIDE DEF k, s
  <1>3. s \in Seq(Int)
    BY <1>1
  <1>4. s \o <<>> = s
    BY <1>3, ConcatEmptySeq
  <1> QED
    BY <1>2, <1>4 DEF k, s

\* The transfers of an asset: as many as are asked for, the newest first.
LEMMA TransfersAreNewest ==
    ASSUME NEW total \in Nat, NEW P \in Nat, P > 0, NEW L \in Nat
    PROVE  get_all_transfers(total, P, L) = newestFrom(total, wantedFrom(total, P, L))
  <1> DEFINE D == (0 .. total) \X (0 .. L)
             F == CHOOSE F : isFrom(F, total, P, L)
             isNewest(d) == F[d] = newestFrom(d[1], wantedFrom(d[1], P, d[2]))
  <1>1. isFrom(F, total, P, L)
    BY FromExists
  <1>2. get_all_transfers(total, P, L) = F[<<total, L>>]
    BY DEF get_all_transfers, isFrom
  <1> HIDE DEF F
  <1>3. \A d \in D : d[1] \in Nat /\ d[1] <= total /\ d[2] \in Nat /\ d[2] <= L
    OBVIOUS
  <1>4. \A d \in D :
            F[d] = page(d[1], P) \o (IF cursorAfter(d[1], P) # NoCursor /\ loopsOn(d[2])
                                     THEN F[<<cursorAfter(d[1], P), loopsLeft(d[2])>>] ELSE <<>>)
    BY <1>1 DEF isFrom
  <1>5. ASSUME NEW d \in D, \A e \in D : e[1] < d[1] => isNewest(e)
        PROVE  isNewest(d)
    <2> DEFINE c == d[1]
               n == d[2]
    <2>1. c \in Nat /\ c <= total /\ n \in Nat /\ n <= L
      BY <1>3
    <2>2. n * P \in Nat /\ (n - 1) * P = n * P - P
      BY <2>1, Z3
    <2>3. n >= 1 => n * P >= P
      BY <2>1, Z3
    <2>4. /\ cursorAfter(c, P) # NoCursor <=> c > P
          /\ c > P => cursorAfter(c, P) = c - P
      BY <2>1 DEF cursorAfter, NoCursor
    <2>5. CASE c > P /\ loopsOn(n)
      <3> DEFINE e == <<c - P, loopsLeft(n)>>
                 w == wantedFrom(c - P, P, loopsLeft(n))
      <3>1. loopsLeft(n) \in 0 .. L /\ (n = 0 => loopsLeft(n) = 0) /\ (n # 0 => loopsLeft(n) = n - 1 /\ n > 1)
        BY <2>1, <2>5 DEF loopsOn, loopsLeft, NoLimit
      <3>2. e \in D /\ e[1] = c - P /\ e[2] = loopsLeft(n) /\ e[1] < c
        BY <2>1, <2>5, <3>1
      <3>3. F[e] = newestFrom(c - P, w)
        BY <1>5, <3>2
      <3>4. w \in Nat /\ P + w = wantedFrom(c, P, n)
        <4>1. CASE n = 0
          BY <2>1, <2>5, <3>1, <4>1 DEF wantedFrom, NoLimit
        <4>2. CASE n # 0
          <5>1. w = IF c - P <= n * P - P THEN c - P ELSE n * P - P
            BY <2>2, <3>1, <4>2 DEF wantedFrom, NoLimit
          <5>2. wantedFrom(c, P, n) = IF c <= n * P THEN c ELSE n * P
            BY <4>2 DEF wantedFrom, NoLimit
          <5>3. n * P >= P
            BY <2>1, <2>3, <4>2
          <5> HIDE DEF c, n, w
          <5> QED
            BY <2>1, <2>2, <2>5, <5>1, <5>2, <5>3
        <4> QED
          BY <4>1, <4>2
      <3>5. F[d] = page(c, P) \o F[e]
        BY <1>4, <2>4, <2>5
      <3> HIDE DEF c, e, w
      <3>6. F[d] = newestFrom(c, P + w)
        <4>1. page(c, P) \o newestFrom(c - P, w) = newestFrom(c, P + w)
          BY <2>1, <2>5, <3>4, PageAndOlder
        <4> QED
          BY <3>3, <3>5, <4>1
      <3> QED
        BY <3>4, <3>6 DEF c
    <2>6. CASE ~(c > P /\ loopsOn(n))
      <3>1. F[d] = page(c, P) \o <<>>
        BY <1>4, <2>4, <2>6
      <3>2. (IF P < c THEN P ELSE c) = wantedFrom(c, P, n)
        <4>1. CASE c > P
          <5>1. n = 1
            BY <2>1, <2>6, <4>1 DEF loopsOn, NoLimit
          <5>2. 1 * P = P
            OBVIOUS
          <5> QED
            BY <2>1, <4>1, <5>1, <5>2 DEF wantedFrom, NoLimit
        <4>2. CASE c <= P
          <5>1. n = 0 \/ c <= n * P
            BY <2>1, <2>2, <2>3, <4>2
          <5> QED
            BY <2>1, <4>2, <5>1 DEF wantedFrom, NoLimit
        <4> QED
          BY <2>1, <4>1, <4>2
      <3>3. F[d] = newestFrom(c, IF P < c THEN P ELSE c)
        BY <2>1, <3>1, LastPage
      <3> QED
        BY <3>2, <3>3
    <2> QED
      BY <2>5, <2>6
  <1> DEFINE Good == {k \in Nat : \A d \in D : d[1] < k => isNewest(d)}
  <1> HIDE DEF D, isNewest
  <1>6. 0 \in Good
    BY <1>3
  <1>7. ASSUME NEW k \in Nat, k \in Good
        PROVE  k + 1 \in Good
    <2>1. \A d \in D : d[1] < k + 1 => d[1] < k \/ d[1] = k
      BY <1>3
    <2>2. \A d \in D : d[1] = k => isNewest(d)
      BY <1>5, <1>7
    <2> QED
      BY <1>7, <2>1, <2>2
  <1>8. Nat \subseteq Good
    <2> HIDE DEF Good
    <2> QED
      BY <1>6, <1>7, SetInduction
  <1>9. isNewest(<<total, L>>)
    <2>1. <<total, L>> \in D /\ <<total, L>>[1] = total /\ total < total + 1 /\ total + 1 \in Nat
      BY DEF D
    <2> QED
      BY <1>8, <2>1
  <1> QED
    BY <1>2, <1>9 DEF isNewest

\* What four numbers are handed over is four numbers.
LEMMA FourNumbers ==
    ASSUME NEW s, s \in Seq(Nat), Len(s) = 4
    PROVE  s[1] \in Nat /\ s[2] \in Nat /\ s[3] \in Nat
  <1>1. \A i \in 1 .. Len(s) : s[i] \in Nat
    BY ElementOfSeq
  <1>2. 1 \in 1 .. Len(s) /\ 2 \in 1 .. Len(s) /\ 3 \in 1 .. Len(s)
    OBVIOUS
  <1> QED
    BY <1>1, <1>2

\* min(totalNumberOfTrades, loopNTimes * pageSize) records are returned, the
\* newest without gaps, for every total, page size and number of loops.
THEOREM PagesAreAlwaysTheNewest == Spec => []PagesAreTheNewest
  <1>1. input \in Seq(Elements[kind]) => PagesAreTheNewest
    <2> SUFFICES ASSUME kind = "paging", input \in Seq(Elements[kind]), Len(input) = 4, input[2] > 0,
                        NEW wanted,
                        wanted = IF input[3] = NoLimit THEN input[1] ELSE Min({input[1], input[3] * input[2]}),
                        NEW newest, newest = [i \in 1 .. wanted |-> input[1] - i + 1]
                 PROVE  /\ get_all_transfers(input[1], input[2], input[3]) = newest
                        /\ get_all_trades(input[1], input[2], input[3], input[4]) \in {newest, Null}
      BY DEF PagesAreTheNewest
    <2>1. input \in Seq(Nat)
      BY InputAssumption
    <2> DEFINE total == input[1]
               P == input[2]
               L == input[3]
    <2>2. total \in Nat /\ P \in Nat /\ L \in Nat /\ P > 0
      BY <2>1, FourNumbers
    <2> HIDE DEF total, P, L
    <2>3. L * P \in Nat
      BY <2>2
    <2>4. Min({total, L * P}) = IF total <= L * P THEN total ELSE L * P
      BY <2>2, <2>3, MinOfTwo
    <2>5. wanted = wantedFrom(total, P, L)
      BY <2>4 DEF wantedFrom, total, P, L
    <2>6. newest = newestFrom(total, wanted)
      BY DEF newestFrom, total
    <2>7. get_all_transfers(total, P, L) = newest
      BY <2>2, <2>5, <2>6, TransfersAreNewest
    <2> QED
      BY <2>7 DEF get_all_trades, total, P, L
  <1> QED
    BY <1>1, InputTyped, PTL

-----------------------------------------------------------------------------
(* Drawings.                                                               *)

\* One amount more.
LEMMA NextSum ==
    ASSUME NEW N \in Nat, NEW f, \A i \in 1 .. N : f[i] \in Nat,
           NEW n \in Nat, n + 1 <= N
    PROVE  SumOf(f, 1 .. n + 1) = f[n + 1] + SumOf(f, 1 .. n)
  <1>1. n + 1 \in 1 .. n + 1 /\ (1 .. n + 1) \ {n + 1} = 1 .. n
    OBVIOUS
  <1>2. \A i \in 1 .. n + 1 : f[i] \in Int
    OBVIOUS
  <1>3. IsFiniteSet(1 .. n + 1)
    BY IntervalSize
  <1> QED
    BY <1>1, <1>2, <1>3, SumOfRest

\* The sum of some amounts.
LEMMA SumBn ==
    ASSUME NEW amounts \in Seq(Nat)
    PROVE  sum_bn(amounts) = SumOf(amounts, 1 .. Len(amounts))
  <1> DEFINE N == Len(amounts)
             step == [p \in (1 .. N) \X Nat |-> p[2] + amounts[p[1]]]
             folds(F) == F = [s \in SUBSET (1 .. N) |-> IF s = {} THEN 0 ELSE F[s \ {Max(s)}] + amounts[Max(s)]]
             F0 == CHOOSE F : folds(F)
  <1>1. N \in Nat /\ DOMAIN amounts = 1 .. N /\ \A i \in 1 .. N : amounts[i] \in Nat
    OBVIOUS
  <1>2. /\ step \in [(1 .. N) \X Nat -> Nat]
        /\ \A i \in 1 .. N, v \in Nat : step[<<i, v>>] = v + amounts[i]
    OBVIOUS
  <1>3. \A s \in SUBSET (1 .. N) : s # {} => Max(s) \in 1 .. N
    BY <1>1, MaxElement
  <1>4. sum_bn(amounts) = (CHOOSE F : folds(F))[1 .. N]
    BY <1>1 DEF sum_bn, FoldLeft, MapThenFoldSet
  <1> HIDE DEF N, step
  <1>5. \E F : folds(F)
    <2>1. PICK F \in [SUBSET (1 .. N) -> Nat] : isFold(F, N, 0, step)
      BY <1>1, <1>2, FoldExists
    <2>2. \A s \in SUBSET (1 .. N) : s # {} => F[s \ {Max(s)}] \in Nat
      OBVIOUS
    <2>3. \A s \in SUBSET (1 .. N) : s # {} => step[<<Max(s), F[s \ {Max(s)}]>>] = F[s \ {Max(s)}] + amounts[Max(s)]
      BY <1>2, <1>3, <2>2
    <2>4. folds(F)
      BY <2>1, <2>3 DEF isFold
    <2> QED
      BY <2>4
  <1>6. folds(F0) /\ sum_bn(amounts) = F0[1 .. N]
    BY <1>4, <1>5
  <1> HIDE DEF F0
  <1>7. PICK G : foldsByIndex(G, F0, N, Nat, 0, step)
    <2>1. F0[{}] = 0
      BY <1>6
    <2>2. ASSUME NEW s \in SUBSET (1 .. N), s # {}, F0[s \ {Max(s)}] \in Nat
          PROVE  F0[s] = step[<<Max(s), F0[s \ {Max(s)}]>>]
      <3>1. F0[s] = F0[s \ {Max(s)}] + amounts[Max(s)]
        BY <1>6, <2>2
      <3> QED
        BY <1>2, <1>3, <2>2, <3>1
    <2>3. foldsBySets(F0, N, Nat, 0, step)
      BY <2>1, <2>2 DEF foldsBySets
    <2> QED
      BY <1>1, <1>2, <2>3, FoldSteps
  <1> DEFINE Good == {n \in Nat : n <= N => G[n] = SumOf(amounts, 1 .. n)}
  <1>8. 0 \in Good
    <2>1. 1 .. 0 = {}
      OBVIOUS
    <2> QED
      BY <1>7, <2>1, SumOfNothing DEF foldsByIndex
  <1>9. ASSUME NEW n \in Nat, n \in Good
        PROVE  n + 1 \in Good
    <2> SUFFICES ASSUME n + 1 <= N
                 PROVE  G[n + 1] = SumOf(amounts, 1 .. n + 1)
      OBVIOUS
    <2>1. n + 1 \in 1 .. N /\ (n + 1) - 1 = n /\ G[n] = SumOf(amounts, 1 .. n) /\ G[n] \in Nat
      BY <1>1, <1>7, <1>9 DEF foldsByIndex
    <2> HIDE DEF Good
    <2>2. G[n + 1] = G[n] + amounts[n + 1]
      BY <1>2, <1>7, <2>1 DEF foldsByIndex
    <2>3. SumOf(amounts, 1 .. n + 1) = amounts[n + 1] + SumOf(amounts, 1 .. n)
      BY <1>1, <2>1, NextSum
    <2> QED
      BY <1>1, <2>1, <2>2, <2>3
  <1>10. Nat \subseteq Good
    <2> HIDE DEF Good
    <2> QED
      BY <1>8, <1>9, SetInduction
  <1>11. G[N] = SumOf(amounts, 1 .. N)
    BY <1>1, <1>10
  <1> QED
    BY <1>6, <1>7, <1>11 DEF foldsByIndex, N

Drawing == [width : Nat, bars : SUBSET Nat, remainder : Nat]

\* What is drawn further for an amount, T to a character: nothing is lost.
isDrawnOn(next, drawn, amount, T) ==
    /\ next \in Drawing
    /\ amount + (drawn.width * T + drawn.remainder) = next.width * T + next.remainder
    /\ next.remainder < T
    /\ next.width >= drawn.width
    /\ next.bars = IF next.width = drawn.width THEN drawn.bars ELSE drawn.bars \cup {next.width}

\* One amount drawn to the scale of T to a character, T a hundredth of all.
LEMMA DrawnAmount ==
    ASSUME NEW T \in Nat, T > 0, NEW drawn \in Drawing, NEW amount \in Nat
    PROVE  isDrawnOn(drawAmount(drawn, amount, 100 * T), drawn, amount, T)
  <1> DEFINE width == drawn.width
             remainder == drawn.remainder
             next == drawAmount(drawn, amount, 100 * T)
  <1>0. width \in Nat /\ remainder \in Nat /\ drawn.bars \in SUBSET Nat
    BY DEF Drawing
  <1> DEFINE due == amount + remainder
             skip == (due * 100) \div (100 * T)
             left == due - skip * T
  <1>1. skip \in Nat /\ skip * (100 * T) <= due * 100 /\ due * 100 < skip * (100 * T) + 100 * T
    <2>1. due * 100 \in Nat /\ 100 * T \in Nat /\ 100 * T > 0
      BY <1>0
    <2> QED
      BY <2>1, QuotientIs
  <1> HIDE DEF skip, width, remainder
  <1>2. skip * (100 * T) = 100 * (skip * T) /\ skip * T \in Nat
    BY <1>1, Z3
  <1>3. skip * T <= due /\ due < skip * T + T
    BY <1>0, <1>1, <1>2
  <1>4. (skip * (100 * T)) \div 100 = skip * T
    BY <1>2, Z3
  <1>5. left \in Nat /\ left < T
    BY <1>0, <1>2, <1>3
  <1>6. /\ next = [width |-> width + skip, bars |-> next.bars, remainder |-> left]
        /\ next.bars = IF skip = 0 THEN drawn.bars ELSE drawn.bars \cup {width + skip}
    BY <1>4 DEF drawAmount, carriedOver, skip, width, remainder
  <1>7. amount + (width * T + remainder) = (width + skip) * T + left
    <2>1. (width + skip) * T = width * T + skip * T /\ width * T \in Nat
      BY <1>0, <1>1, Z3
    <2> QED
      BY <1>0, <1>2, <2>1
  <1> HIDE DEF next, left
  <1>8. next.width = width + skip /\ next.remainder = left /\ width + skip \in Nat
    BY <1>0, <1>1, <1>6
  <1>9. next.width = width <=> skip = 0
    BY <1>0, <1>1, <1>8
  <1>10. next.bars = IF next.width = width THEN drawn.bars ELSE drawn.bars \cup {next.width}
    BY <1>6, <1>8, <1>9
  <1>11. next \in Drawing
    <2>1. next.bars \in SUBSET Nat
      BY <1>0, <1>6, <1>8
    <2> QED
      BY <1>5, <1>6, <1>8, <2>1 DEF Drawing
  <1>12. isDrawnOn(next, drawn, amount, T)
    <2>1. next.width >= width
      BY <1>0, <1>1, <1>8
    <2> QED
      BY <1>5, <1>7, <1>8, <1>10, <1>11, <2>1 DEF isDrawnOn, width, remainder
  <1> QED
    BY <1>12 DEF next

\* A drawing of amounts of which every sum has a bar, T to a character.
isScaled(drawn, amounts, n, T) ==
    /\ drawn \in Drawing
    /\ SumOf(amounts, 1 .. n) = drawn.width * T + drawn.remainder /\ drawn.remainder < T
    /\ drawn.width \in drawn.bars \cup {0}
    /\ drawn.bars = {SumOf(amounts, 1 .. k) \div T : k \in 1 .. n} \ {0}

\* Amounts of T to a character are drawn to scale.
LEMMA DrawnAmounts ==
    ASSUME NEW amounts \in Seq(Nat), NEW T \in Nat, T > 0,
           sum_bn(amounts) = 100 * T
    PROVE  isScaled(draw_amounts(amounts), amounts, Len(amounts), T)
  <1> DEFINE N == Len(amounts)
             V == Drawing
             nothing == [width |-> 0, bars |-> {}, remainder |-> 0]
             draw(v, i) == drawAmount(v, amounts[i], 100 * T)
             step == [p \in (1 .. N) \X V |-> draw(p[2], p[1])]
             folds(F) == F = [s \in SUBSET (1 .. N) |-> IF s = {} THEN nothing ELSE draw(F[s \ {Max(s)}], Max(s))]
             F0 == CHOOSE F : folds(F)
  <1>1. N \in Nat /\ DOMAIN amounts = 1 .. N /\ nothing \in V /\ \A i \in 1 .. N : amounts[i] \in Nat
    BY DEF Drawing
  <1>2. \A i \in 1 .. N, v \in V : isDrawnOn(draw(v, i), v, amounts[i], T)
    BY <1>1, DrawnAmount
  <1>3. /\ step \in [(1 .. N) \X V -> V]
        /\ \A i \in 1 .. N, v \in V : step[<<i, v>>] = draw(v, i)
    BY <1>2 DEF isDrawnOn
  <1>4. \A s \in SUBSET (1 .. N) : s # {} => Max(s) \in 1 .. N
    BY <1>1, MaxElement
  <1>5. draw_amounts(amounts) = (CHOOSE F : folds(F))[1 .. N]
    <2>1. 100 * T # 0
      OBVIOUS
    <2> QED
      BY <1>1, <2>1 DEF draw_amounts, FoldLeft, MapThenFoldSet
  <1> HIDE DEF N, V, nothing, draw, step
  <1>6. \E F : folds(F)
    <2>1. PICK F \in [SUBSET (1 .. N) -> V] : isFold(F, N, nothing, step)
      BY <1>1, <1>3, FoldExists
    <2>2. \A s \in SUBSET (1 .. N) : s # {} => F[s \ {Max(s)}] \in V
      OBVIOUS
    <2>3. \A s \in SUBSET (1 .. N) : s # {} => step[<<Max(s), F[s \ {Max(s)}]>>] = draw(F[s \ {Max(s)}], Max(s))
      BY <1>3, <1>4, <2>2
    <2>4. folds(F)
      BY <2>1, <2>3 DEF isFold
    <2> QED
      BY <2>4
  <1>7. folds(F0) /\ draw_amounts(amounts) = F0[1 .. N]
    BY <1>5, <1>6
  <1> HIDE DEF F0
  <1>8. PICK G : foldsByIndex(G, F0, N, V, nothing, step)
    <2>1. F0[{}] = nothing
      BY <1>7
    <2>2. ASSUME NEW s \in SUBSET (1 .. N), s # {}, F0[s \ {Max(s)}] \in V
          PROVE  F0[s] = step[<<Max(s), F0[s \ {Max(s)}]>>]
      <3>1. F0[s] = draw(F0[s \ {Max(s)}], Max(s))
        BY <1>7, <2>2
      <3> QED
        BY <1>3, <1>4, <2>2, <3>1
    <2>3. foldsBySets(F0, N, V, nothing, step)
      BY <2>1, <2>2 DEF foldsBySets
    <2> QED
      BY <1>1, <1>3, <2>3, FoldSteps
  <1> DEFINE Good == {n \in Nat : n <= N => isScaled(G[n], amounts, n, T)}
  <1>9. 0 \in Good
    <2>1. 1 .. 0 = {}
      OBVIOUS
    <2>2. SumOf(amounts, 1 .. 0) = 0
      BY <2>1, SumOfNothing
    <2>3. G[0] = [width |-> 0, bars |-> {}, remainder |-> 0]
      BY <1>8 DEF foldsByIndex, nothing
    <2> QED
      BY <2>1, <2>2, <2>3 DEF isScaled, Drawing
  <1>10. ASSUME NEW n \in Nat, n \in Good
         PROVE  n + 1 \in Good
    <2> SUFFICES ASSUME n + 1 <= N
                 PROVE  isScaled(G[n + 1], amounts, n + 1, T)
      OBVIOUS
    <2> DEFINE v == G[n]
               next == G[n + 1]
               total(k) == SumOf(amounts, 1 .. k)
    <2>1. n + 1 \in 1 .. N /\ (n + 1) - 1 = n /\ isScaled(v, amounts, n, T) /\ v \in V
      BY <1>1, <1>8, <1>10 DEF foldsByIndex
    <2> HIDE DEF Good
    <2>2. isDrawnOn(next, v, amounts[n + 1], T)
      BY <1>2, <1>3, <1>8, <2>1 DEF foldsByIndex
    <2>3. v.width \in Nat /\ v.bars \in SUBSET Nat /\ v.remainder \in Nat /\ amounts[n + 1] \in Nat
      BY <1>1, <2>1 DEF V, Drawing
    <2>4. total(n + 1) = amounts[n + 1] + total(n) /\ \A k \in 1 .. n + 1 : total(k) \in Nat
      <3>1. \A k \in 0 .. n + 1 : IsFiniteSet(1 .. k) /\ \A i \in 1 .. k : amounts[i] \in Nat
        BY <1>1, <2>1, IntervalSize
      <3>2. \A k \in 1 .. n + 1 : total(k) \in Nat
        BY <3>1, SumOfNat
      <3> QED
        BY <1>1, <2>1, <3>2, NextSum
    <2>5. total(n) = v.width * T + v.remainder
      BY <2>1 DEF isScaled
    <2> HIDE DEF v, next, total
    <2>6. /\ next.width \in Nat /\ next.remainder \in Nat /\ next.bars \in SUBSET Nat
          /\ total(n + 1) = next.width * T + next.remainder
          /\ next.remainder < T
          /\ next.width >= v.width
          /\ next.bars = IF next.width = v.width THEN v.bars ELSE v.bars \cup {next.width}
      BY <2>2, <2>4, <2>5 DEF isDrawnOn, Drawing
    <2>7. total(n + 1) \div T = next.width
      <3> DEFINE w == next.width
                 t == total(n + 1)
      <3>1. w \in Nat /\ t \in Nat
        BY <2>4, <2>6
      <3>2. t = w * T + next.remainder /\ next.remainder \in Nat /\ next.remainder < T
        BY <2>6
      <3> HIDE DEF w, t
      <3>3. w * T <= t /\ t < w * T + T
        BY <3>1, <3>2
      <3>4. t \div T = w
        BY <3>1, <3>3, IsQuotient
      <3> QED
        BY <3>4 DEF w, t
    <2> DEFINE scaled(k) == {total(i) \div T : i \in 1 .. k}
    <2>8. scaled(n + 1) = scaled(n) \cup {next.width}
      <3>1. 1 .. n + 1 = (1 .. n) \cup {n + 1}
        OBVIOUS
      <3> QED
        BY <2>7, <3>1
    <2>9. v.width \in v.bars \cup {0} /\ v.bars = scaled(n) \ {0}
      BY <2>1 DEF isScaled, total
    <2> HIDE DEF scaled
    <2>10. next.width \in next.bars \cup {0} /\ next.bars = scaled(n + 1) \ {0}
      <3>1. CASE next.width = v.width
        BY <2>6, <2>8, <2>9, <3>1
      <3>2. CASE next.width # v.width
        <4>1. next.bars = v.bars \cup {next.width}
          BY <2>6, <3>2
        <4>2. next.width # 0
          <5> DEFINE before == v.width
                     after == next.width
          <5>1. before \in Nat /\ after \in Nat /\ after >= before /\ after # before
            BY <2>3, <2>6, <3>2
          <5> HIDE DEF before, after
          <5>2. after # 0
            BY <5>1
          <5> QED
            BY <5>2 DEF after
        <4> QED
          BY <2>8, <2>9, <4>1, <4>2
      <3> QED
        BY <3>1, <3>2
    <2> QED
      BY <2>2, <2>6, <2>10 DEF isScaled, isDrawnOn, next, scaled, total
  <1>11. Nat \subseteq Good
    <2> HIDE DEF Good
    <2> QED
      BY <1>9, <1>10, SetInduction
  <1>12. isScaled(G[N], amounts, N, T)
    BY <1>1, <1>11
  <1> QED
    BY <1>7, <1>8, <1>12 DEF foldsByIndex, N

\* Amounts whose total is a multiple of 100 are drawn to scale, any number of
\* them and however large: what is rounded off is carried over in full.
THEOREM AmountsAreAlwaysDrawnToScale == Spec => []AmountsAreDrawnToScale
  <1>1. input \in Seq(Elements[kind]) => AmountsAreDrawnToScale
    <2> DEFINE N == Len(input)
               total == SumOf(input, 1 .. N)
               T == total \div 100
               drawn == draw_amounts(input)
    <2> SUFFICES ASSUME kind = "amounts", input \in Seq(Elements[kind]), total % 100 = 0
                 PROVE  /\ drawn.width = 100
                        /\ total > 0 =>
                            drawn.bars = {(100 * SumOf(input, 1 .. k)) \div total : k \in DOMAIN input} \ {0}
      BY DEF AmountsAreDrawnToScale, sumOfFirst, SumOf
    <2>1. input \in Seq(Nat)
      BY InputAssumption
    <2>2. N \in Nat /\ DOMAIN input = 1 .. N /\ \A i \in 1 .. N : input[i] \in Nat
      BY <2>1
    <2>3. \A k \in 0 .. N : SumOf(input, 1 .. k) \in Nat
      <3>1. \A k \in 0 .. N : IsFiniteSet(1 .. k) /\ \A i \in 1 .. k : input[i] \in Nat
        BY <2>2, IntervalSize
      <3> QED
        BY <3>1, SumOfNat
    <2>4. sum_bn(input) = total
      BY <2>1, SumBn
    <2>5. CASE total = 0
      BY <2>4, <2>5 DEF draw_amounts
    <2>6. CASE total > 0
      <3>1. T \in Nat /\ T > 0 /\ total = 100 * T
        <4>1. total \in Nat
          BY <2>2, <2>3
        <4> HIDE DEF total
        <4> QED
          BY <2>6, <4>1, Z3
      <3> HIDE DEF T, total, drawn
      <3>2. isScaled(drawn, input, N, T)
        BY <2>1, <2>4, <3>1, DrawnAmounts DEF drawn
      <3>3. drawn.width = 100
        <4> DEFINE w == drawn.width
        <4>1. w \in Nat /\ drawn.remainder \in Nat
          BY <3>2 DEF isScaled, Drawing
        <4>2. w * T \in Nat /\ 100 * T = w * T + drawn.remainder /\ drawn.remainder < T
          BY <3>1, <3>2, <4>1 DEF isScaled, total
        <4>3. 100 * T \in Nat /\ 100 * T <= 100 * T /\ 100 * T < 100 * T + T
          BY <3>1
        <4>4. (100 * T) \div T = 100
          BY <3>1, <4>3, IsQuotient
        <4> HIDE DEF w
        <4>5. w * T <= 100 * T /\ 100 * T < w * T + T
          BY <3>1, <4>1, <4>2
        <4>6. (100 * T) \div T = w
          BY <3>1, <4>1, <4>3, <4>5, IsQuotient
        <4> QED
          BY <4>4, <4>6 DEF w
      <3>4. \A k \in 1 .. N : (100 * SumOf(input, 1 .. k)) \div total = SumOf(input, 1 .. k) \div T
        <4> SUFFICES ASSUME NEW k \in 1 .. N, NEW a \in Nat, a = SumOf(input, 1 .. k)
                     PROVE  (100 * a) \div total = a \div T
          BY <2>2, <2>3
        <4> DEFINE q == a \div T
        <4>1. q \in Nat /\ q * T <= a /\ a < q * T + T
          BY <3>1, QuotientIs
        <4> HIDE DEF q
        <4>2. /\ q * (100 * T) = 100 * (q * T) /\ q * T \in Nat
              /\ q * (100 * T) <= 100 * a /\ 100 * a < q * (100 * T) + 100 * T
          BY <3>1, <4>1, Z3
        <4>3. 100 * a \in Nat /\ 100 * T \in Nat /\ 100 * T > 0
          BY <3>1
        <4> QED
          BY <3>1, <4>1, <4>2, <4>3, IsQuotient DEF q
      <3> QED
        BY <2>2, <3>2, <3>3, <3>4 DEF isScaled
    <2> QED
      BY <2>2, <2>3, <2>5, <2>6
  <1> QED
    BY <1>1, InputTyped, PTL

\* A bar that is not rounded to nothing, for any two amounts.
LEMMA DrawnPercent ==
    ASSUME NEW part \in Nat, NEW whole \in Nat, whole > 0, part <= whole,
           NEW r, r = round(to_percent(part, whole)), r > 0
    PROVE  /\ draw_percent(to_percent(part, whole)) = [width |-> 100, bars |-> {r}]
           /\ 100 * (100 * part - r * whole) \in -50 * whole .. 50 * whole
  <1> DEFINE p == to_percent(part, whole)
  <1>1. part * 10000 \in Nat /\ part * 10000 <= 10000 * whole
    BY Z3
  <1>2. p \in Nat /\ p * whole <= part * 10000 /\ part * 10000 < p * whole + whole
    BY <1>1, QuotientIs DEF to_percent
  <1> HIDE DEF p
  <1>3. p <= 10000
    <2> SUFFICES ASSUME p >= 10001
                 PROVE  FALSE
      BY <1>2
    <2>1. p * whole >= 10001 * whole
      BY <1>2, Z3
    <2> QED
      BY <1>1, <1>2, <2>1
  <1>4. r \in Nat /\ 100 * r <= p + 50 /\ p + 50 < 100 * r + 100
    BY <1>2, QuotientIs DEF p, round
  <1>5. r \in 1 .. 100
    BY <1>2, <1>3, <1>4
  <1>6. draw_percent(p) = [width |-> 100, bars |-> {r}]
    <2>1. round(p) = r
      BY DEF p
    <2>2. (IF r > 1 THEN r - 1 ELSE 0) + 1 = r
      BY <1>5
    <2>3. r + (IF r < 100 THEN 100 - r ELSE 0) = 100
      BY <1>5
    <2> QED
      BY <2>1, <2>2, <2>3 DEF draw_percent
  <1>7. /\ 100 * (100 * part - r * whole) \in Int
        /\ 100 * (100 * part - r * whole) >= -50 * whole
        /\ 100 * (100 * part - r * whole) <= 50 * whole
    <2>1. r * whole \in Nat /\ p * whole \in Nat
      BY <1>2, <1>5
    <2>2. (100 * r) * whole <= (p + 50) * whole
      BY <1>2, <1>4
    <2>3. (p + 1) * whole <= (100 * r + 50) * whole
      BY <1>2, <1>4
    <2>4. /\ 100 * (r * whole) <= p * whole + 50 * whole
          /\ p * whole + whole <= 100 * (r * whole) + 50 * whole
      BY <1>2, <1>5, <2>2, <2>3, Z3
    <2> QED
      BY <1>2, <2>1, <2>4
  <1> QED
    BY <1>6, <1>7 DEF p

\* The bar of a share is within half a character of where it belongs, for any
\* two amounts.
THEOREM PercentsAreAlwaysDrawnToScale == Spec => []PercentsAreDrawnToScale
  <1>1. input \in Seq(Elements[kind]) => PercentsAreDrawnToScale
    <2> SUFFICES ASSUME input \in Seq(Elements["amounts"]), Len(input) = 2, input[2] > 0, input[1] <= input[2],
                        NEW percent, percent = to_percent(input[1], input[2]), round(percent) > 0,
                        NEW drawn, drawn = draw_percent(percent),
                        NEW bar, bar = CHOOSE k \in drawn.bars : TRUE
                 PROVE  /\ drawn.width = 100
                        /\ 100 * (100 * input[1] - bar * input[2]) \in -50 * input[2] .. 50 * input[2]
      BY DEF PercentsAreDrawnToScale
    <2>1. input[1] \in Nat /\ input[2] \in Nat
      <3>1. input \in Seq(Nat)
        BY InputAssumption
      <3> QED
        BY <3>1
    <2>2. /\ drawn = [width |-> 100, bars |-> {round(percent)}]
          /\ 100 * (100 * input[1] - round(percent) * input[2]) \in -50 * input[2] .. 50 * input[2]
      BY <2>1, DrawnPercent
    <2>3. bar = round(percent)
      BY <2>2
    <2> QED
      BY <2>2, <2>3
  <1> QED
    BY <1>1, InputTyped, PTL

-----------------------------------------------------------------------------
(* Permissions.                                                            *)

\* What not joins, in any order and however often.
LEMMA JoinedRoles ==
    ASSUME NEW roles \in Seq(SUBSET FULL_PRIVILEGES_MASK)
    PROVE  not(roles) = xor(FULL_PRIVILEGES_MASK, UNION {roles[i] : i \in DOMAIN roles})
  <1> DEFINE N == Len(roles)
             V == SUBSET FULL_PRIVILEGES_MASK
             step == [p \in (1 .. N) \X V |-> join(p[2], roles[p[1]])]
             folds(F) == F = [s \in SUBSET (1 .. N) |->
                                IF s = {} THEN {} ELSE join(F[s \ {Max(s)}], roles[Max(s)])]
             F0 == CHOOSE F : folds(F)
             grantedBy(i) == UNION {roles[k] : k \in 1 .. i}
  <1>1. N \in Nat /\ DOMAIN roles = 1 .. N /\ {} \in V
    OBVIOUS
  <1>2. step \in [(1 .. N) \X V -> V]
    BY DEF join
  <1>3. \A i \in 1 .. N, v \in V : step[<<i, v>>] = join(v, roles[i])
    OBVIOUS
  <1>4. \A s \in SUBSET (1 .. N) : s # {} => Max(s) \in 1 .. N
    BY <1>1, MaxElement
  <1> HIDE DEF N, V, step
  <1>5. \E F : folds(F)
    <2>1. PICK F \in [SUBSET (1 .. N) -> V] : isFold(F, N, {}, step)
      BY <1>1, <1>2, FoldExists
    <2>2. \A s \in SUBSET (1 .. N) : s # {} => F[s \ {Max(s)}] \in V
      OBVIOUS
    <2>3. \A s \in SUBSET (1 .. N) : s # {} => step[<<Max(s), F[s \ {Max(s)}]>>] = join(F[s \ {Max(s)}], roles[Max(s)])
      BY <1>3, <1>4, <2>2
    <2>4. folds(F)
      BY <2>1, <2>3 DEF isFold
    <2> QED
      BY <2>4
  <1>6. folds(F0)
    BY <1>5
  <1>7. not(roles) = xor(FULL_PRIVILEGES_MASK, F0[1 .. N])
    BY <1>1 DEF not, FoldLeft, MapThenFoldSet
  <1> HIDE DEF F0
  <1>8. PICK G : foldsByIndex(G, F0, N, V, {}, step)
    <2>1. F0[{}] = {}
      BY <1>6
    <2>2. ASSUME NEW s \in SUBSET (1 .. N), s # {}, F0[s \ {Max(s)}] \in V
          PROVE  F0[s] = step[<<Max(s), F0[s \ {Max(s)}]>>]
      <3>1. F0[s] = join(F0[s \ {Max(s)}], roles[Max(s)])
        BY <1>6, <2>2
      <3> QED
        BY <1>3, <1>4, <2>2, <3>1
    <2>3. foldsBySets(F0, N, V, {}, step)
      BY <2>1, <2>2 DEF foldsBySets
    <2> QED
      BY <1>1, <1>2, <2>3, FoldSteps
  <1> DEFINE Good == {n \in Nat : n <= N => G[n] = grantedBy(n)}
  <1>9. 0 \in Good
    BY <1>8 DEF foldsByIndex
  <1>10. ASSUME NEW n \in Nat, n \in Good
         PROVE  n + 1 \in Good
    <2> SUFFICES ASSUME n + 1 <= N
                 PROVE  G[n + 1] = grantedBy(n + 1)
      OBVIOUS
    <2>1. n + 1 \in 1 .. N /\ (n + 1) - 1 = n /\ G[n] = grantedBy(n) /\ G[n] \in V
      BY <1>1, <1>8, <1>10 DEF foldsByIndex
    <2>2. G[n + 1] = G[n] \cup roles[n + 1]
      BY <1>3, <1>8, <2>1 DEF foldsByIndex, join
    <2>3. 1 .. n + 1 = (1 .. n) \cup {n + 1}
      OBVIOUS
    <2>4. grantedBy(n + 1) = grantedBy(n) \cup roles[n + 1]
      BY <2>3
    <2> QED
      BY <2>1, <2>2, <2>4
  <1>11. Nat \subseteq Good
    <2> HIDE DEF Good
    <2> QED
      BY <1>9, <1>10, SetInduction
  <1>12. G[N] = grantedBy(N) /\ G[N] = F0[1 .. N]
    BY <1>1, <1>8, <1>11 DEF foldsByIndex
  <1>13. grantedBy(N) = UNION {roles[i] : i \in DOMAIN roles}
    BY <1>1
  <1> HIDE DEF grantedBy
  <1> QED
    BY <1>7, <1>12, <1>13, Zenon

\* Every bit belongs to at most one permission of a contract.
areApart(permissions) ==
    /\ \A name \in DOMAIN permissions : permissions[name] \subseteq FULL_PRIVILEGES_MASK
    /\ \A name, other \in DOMAIN permissions :
            name # other => permissions[name] \cap permissions[other] = {}

\* Permissions of one contract have no bit in common.
LEMMA PermissionsAreApart ==
    ASSUME NEW contract \in contracts
    PROVE  areApart(permissionsOf(contract))
  <1> DEFINE manager(x) == IF x = 255 THEN "ROLE_ACCESS_MANAGER" ELSE "ROLE_UPGRADE_MANAGER"
  <1>1. CASE contract = tokenPermissions
    <2> DEFINE owner(x) ==
                IF x = 0 THEN "FEATURE_TRANSFERS" ELSE IF x = 1 THEN "FEATURE_TRANSFERS_ON_BEHALF"
                ELSE IF x = 3 THEN "FEATURE_OWN_BURNS" ELSE IF x = 4 THEN "FEATURE_BURNS_ON_BEHALF"
                ELSE IF x = 16 THEN "ROLE_TOKEN_CREATOR" ELSE IF x = 17 THEN "ROLE_TOKEN_DESTROYER"
                ELSE IF x = 18 THEN "ROLE_URI_MANAGER" ELSE IF x = 19 THEN "ROLE_RESCUE_MANAGER"
                ELSE IF x = 20 THEN "ROLE_ROYALTY_MANAGER" ELSE IF x = 21 THEN "ROLE_OWNER_MANAGER"
                ELSE IF x = 22 THEN "ROLE_METADATA_PROVIDER" ELSE manager(x)
    <2>1. \A name \in DOMAIN permissionsOf(contract) : \A x \in permissionsOf(contract)[name] :
                x \in FULL_PRIVILEGES_MASK /\ owner(x) = name
      BY <1>1 DEF permissionsOf, tokenPermissions, managers, ROLE_ACCESS_MANAGER, ROLE_UPGRADE_MANAGER, FULL_PRIVILEGES_MASK
    <2> HIDE DEF owner
    <2> QED
      BY <2>1 DEF areApart
  <1>2. CASE contract = salePermissions
    <2> DEFINE owner(x) ==
                IF x = 0 THEN "FEATURE_L1_SALE_ACTIVE" ELSE IF x = 1 THEN "FEATURE_L2_SALE_ACTIVE"
                ELSE IF x = 16 THEN "ROLE_PAUSE_MANAGER" ELSE IF x = 17 THEN "ROLE_DATA_MANAGER"
                ELSE IF x = 18 THEN "ROLE_SALE_MANAGER" ELSE IF x = 19 THEN "ROLE_RESCUE_MANAGER"
                ELSE IF x = 20 THEN "ROLE_WITHDRAWAL_MANAGER" ELSE manager(x)
    <2>1. \A name \in DOMAIN permissionsOf(contract) : \A x \in permissionsOf(contract)[name] :
                x \in FULL_PRIVILEGES_MASK /\ owner(x) = name
      BY <1>2 DEF permissionsOf, salePermissions, managers, ROLE_ACCESS_MANAGER, ROLE_UPGRADE_MANAGER, FULL_PRIVILEGES_MASK
    <2> HIDE DEF owner
    <2> QED
      BY <2>1 DEF areApart
  <1>3. CASE contract = oraclePermissions
    <2> DEFINE owner(x) == IF x = 16 THEN "ROLE_PRICE_ORACLE_MANAGER" ELSE manager(x)
    <2>1. \A name \in DOMAIN permissionsOf(contract) : \A x \in permissionsOf(contract)[name] :
                x \in FULL_PRIVILEGES_MASK /\ owner(x) = name
      BY <1>3 DEF permissionsOf, oraclePermissions, managers, ROLE_ACCESS_MANAGER, ROLE_UPGRADE_MANAGER, FULL_PRIVILEGES_MASK
    <2> HIDE DEF owner
    <2> QED
      BY <2>1 DEF areApart
  <1> QED
    BY <1>1, <1>2, <1>3 DEF contracts

\* not takes away what it is given and nothing else, however many roles it is
\* given and however often.
THEOREM NotAlwaysKeepsTheRest == Spec => []NotKeepsTheRest
  <1>1. input \in Seq(Elements[kind]) => NotKeepsTheRest
    <2> SUFFICES ASSUME input \in Seq(Elements[kind]), NEW contract \in contracts,
                        NEW permissions, permissions = permissionsOf(contract),
                        ToSet(input) \subseteq DOMAIN permissions,
                        NEW roles, roles = [i \in DOMAIN input |-> permissions[input[i]]],
                        NEW name \in DOMAIN permissions
                 PROVE  IF name \in ToSet(input) THEN permissions[name] \cap not(roles) = {}
                        ELSE permissions[name] \subseteq not(roles)
      BY DEF NotKeepsTheRest
    <2> DEFINE given == UNION {roles[i] : i \in DOMAIN roles}
    <2>1. areApart(permissions)
      BY PermissionsAreApart
    <2>2. DOMAIN input = 1 .. Len(input) /\ Len(input) \in Nat /\ DOMAIN roles = DOMAIN input
      OBVIOUS
    <2>3. \A i \in DOMAIN input : input[i] \in DOMAIN permissions /\ roles[i] = permissions[input[i]]
      BY DEF ToSet
    <2>4. roles \in Seq(SUBSET FULL_PRIVILEGES_MASK)
      BY <2>1, <2>2, <2>3 DEF areApart
    <2>5. given \subseteq FULL_PRIVILEGES_MASK
      BY <2>1, <2>2, <2>3 DEF areApart
    <2>6. not(roles) = FULL_PRIVILEGES_MASK \ given
      <3>1. not(roles) = xor(FULL_PRIVILEGES_MASK, given)
        BY <2>4, JoinedRoles
      <3> HIDE DEF given
      <3> QED
        BY <2>5, <3>1 DEF xor
    <2>7. CASE name \in ToSet(input)
      <3>1. PICK i \in DOMAIN input : input[i] = name
        BY <2>7 DEF ToSet
      <3>2. permissions[name] \subseteq given
        BY <2>2, <2>3, <3>1
      <3> QED
        BY <2>6, <2>7, <3>2
    <2>8. CASE name \notin ToSet(input)
      <3>1. \A i \in DOMAIN input : permissions[name] \cap roles[i] = {}
        BY <2>1, <2>3, <2>8 DEF areApart, ToSet
      <3>2. permissions[name] \cap given = {}
        BY <2>2, <3>1
      <3>3. permissions[name] \subseteq FULL_PRIVILEGES_MASK
        BY <2>1 DEF areApart
      <3> QED
        BY <2>6, <2>8, <3>2, <3>3
    <2> QED
      BY <2>7, <2>8
  <1> QED
    BY <1>1, InputTyped, PTL

-----------------------------------------------------------------------------
(* The parser of portraits.                                                *)

isText == input \in Seq(Chars)

\* Where the digits of a blueprint are, and that they are numbers.
LEMMA DigitsOfText ==
    ASSUME isText
    PROVE  /\ Len(input) \in Nat
           /\ digitPositions \subseteq 1 .. Len(input)
           /\ \A p \in digitPositions : input[p] \in Nat
           /\ \A p \in 0 .. Len(input) - 1 : isDecimal(at(input, p)) <=> p + 1 \in digitPositions
  <1>1. Len(input) \in Nat /\ DOMAIN input = 1 .. Len(input)
    BY DEF isText
  <1>2. \A p \in 1 .. Len(input) : input[p] \in Chars
    BY ElementOfSeq DEF isText
  <1>3. \A c \in Chars : isDecimal(c) => c \in Nat
    BY BlueprintAssumption DEF Chars, isDecimal
  <1> QED
    BY <1>1, <1>2, <1>3 DEF digitPositions, at

noDigit(first, last) == \A p \in first .. last : p \notin digitPositions
allDigits(first, last) == \A p \in first .. last : p \in digitPositions

\* Where the code stops that passes over what is no digit, ...
LEMMA SkipNonDecimal ==
    ASSUME isText, NEW offset \in 0 .. Len(input)
    PROVE  /\ noDigit(offset + 1, Len(input)) => skipNonDecimal(input, offset) = Len(input)
           /\ \A s \in digitPositions :
                s > offset /\ noDigit(offset + 1, s - 1) => skipNonDecimal(input, offset) = s - 1
  <1> DEFINE n == Len(input)
             T == {n} \cup {p \in offset .. n - 1 : isDecimal(at(input, p))}
  <1>1. n \in Nat /\ offset \in Nat /\ offset <= n /\ digitPositions \subseteq 1 .. n
    BY DigitsOfText
  <1>2. \A p \in offset .. n - 1 : isDecimal(at(input, p)) <=> p + 1 \in digitPositions
    BY <1>1, DigitsOfText
  <1>3. T = {n} \cup {p \in offset .. n - 1 : p + 1 \in digitPositions}
    BY <1>2
  <1>4. skipNonDecimal(input, offset) = Min(T)
    BY DEF skipNonDecimal
  <1> HIDE DEF T, n
  <1>5. T \in SUBSET Nat
    BY <1>1, <1>3
  <1>6. ASSUME noDigit(offset + 1, n)
        PROVE  Min(T) = n
    <2>1. T = {n}
      BY <1>1, <1>3, <1>6 DEF noDigit
    <2> QED
      BY <1>1, <1>5, <2>1, MinElement
  <1>7. ASSUME NEW s \in digitPositions, s > offset, noDigit(offset + 1, s - 1)
        PROVE  Min(T) = s - 1
    <2>1. s \in 1 .. n
      BY <1>1
    <2>2. s - 1 \in T
      BY <1>1, <1>3, <1>7, <2>1
    <2>3. \A y \in T : s - 1 <= y
      <3> SUFFICES ASSUME NEW y \in T, y < s - 1
                   PROVE  FALSE
        BY <1>5, <2>1
      <3>1. y \in offset .. n - 1 /\ y + 1 \in digitPositions
        BY <1>1, <1>3, <2>1
      <3>2. y + 1 \in offset + 1 .. s - 1
        BY <1>1, <2>1, <3>1
      <3> QED
        BY <1>7, <3>1, <3>2 DEF noDigit
    <2> QED
      BY <1>5, <2>2, <2>3, MinElement
  <1> QED
    BY <1>4, <1>6, <1>7 DEF n

\* ... and over digits.
LEMMA SkipDecimal ==
    ASSUME isText, NEW offset \in 0 .. Len(input), NEW e \in offset .. Len(input),
           allDigits(offset + 1, e), e + 1 \notin digitPositions
    PROVE  skipDecimal(input, offset) = e
  <1> DEFINE n == Len(input)
             T == {n} \cup {p \in offset .. n - 1 : ~isDecimal(at(input, p))}
  <1>1. n \in Nat /\ offset \in Nat /\ e \in Nat /\ offset <= e /\ e <= n
    BY DigitsOfText
  <1>2. \A p \in offset .. n - 1 : isDecimal(at(input, p)) <=> p + 1 \in digitPositions
    BY <1>1, DigitsOfText
  <1>3. T = {n} \cup {p \in offset .. n - 1 : p + 1 \notin digitPositions}
    BY <1>2
  <1>4. skipDecimal(input, offset) = Min(T)
    BY DEF skipDecimal
  <1> HIDE DEF T, n
  <1>5. T \in SUBSET Nat
    BY <1>1, <1>3
  <1>6. e \in T
    BY <1>1, <1>3
  <1>7. \A y \in T : e <= y
    <2> SUFFICES ASSUME NEW y \in T, y < e
                 PROVE  FALSE
      BY <1>1, <1>5
    <2>1. y \in offset .. n - 1 /\ y + 1 \notin digitPositions
      BY <1>1, <1>3
    <2>2. y + 1 \in offset + 1 .. e
      BY <1>1, <2>1
    <2> QED
      BY <2>1, <2>2 DEF allDigits
  <1> QED
    BY <1>4, <1>5, <1>6, <1>7, MinElement

arePowersOfTen(T, N) == \A n \in 0 .. N : T[n] \in Nat /\ T[n] = IF n = 0 THEN 1 ELSE 10 * T[n - 1]

\* The powers of ten are defined, and each is ten times the one before.
LEMMA PowersOfTen ==
    ASSUME isText
    PROVE  arePowersOfTen(powersOfTen, Len(input))
  <1> DEFINE N == Len(input)
             D == 0 .. N
             rank == [n \in D |-> n]
             prev == [n \in D |-> IF n = 0 THEN 0 ELSE n - 1]
             base == [n \in D |-> 1]
             step == [p \in D \X Nat |-> 10 * p[2]]
             recurs(F) == F = [n \in D |-> IF n = 0 THEN 1 ELSE 10 * F[n - 1]]
  <1>1. N \in Nat
    BY DigitsOfText
  <1>2. /\ rank \in [D -> Nat] /\ prev \in [D -> D] /\ base \in [D -> Nat] /\ step \in [D \X Nat -> Nat]
        /\ \A d \in D : rank[d] # 0 => rank[prev[d]] < rank[d]
        /\ \A d \in D : rank[d] <= N
    BY <1>1
  <1>3. /\ \A n \in D : rank[n] = n /\ base[n] = 1 /\ (n # 0 => prev[n] = n - 1)
        /\ \A n \in D, v \in Nat : step[<<n, v>>] = 10 * v
    OBVIOUS
  <1> HIDE DEF rank, prev, base, step, N
  <1>4. PICK F \in [D -> Nat] : isRecursive(F, D, rank, prev, base, step)
    BY <1>1, <1>2, Recursion
  <1>5. \A n \in D : F[n] = IF n = 0 THEN 1 ELSE 10 * F[n - 1]
    <2> SUFFICES ASSUME NEW n \in D
                 PROVE  F[n] = IF n = 0 THEN 1 ELSE 10 * F[n - 1]
      OBVIOUS
    <2>1. CASE n = 0
      BY <1>3, <1>4, <2>1 DEF isRecursive
    <2>2. CASE n # 0
      <3>1. n - 1 \in D /\ F[n - 1] \in Nat
        BY <1>1, <2>2
      <3>2. F[n] = step[<<n, F[n - 1]>>]
        BY <1>3, <1>4, <2>2 DEF isRecursive
      <3> QED
        BY <1>3, <2>2, <3>1, <3>2
    <2> QED
      BY <2>1, <2>2
  <1>6. recurs(F)
    BY <1>5
  <1>7. powersOfTen = CHOOSE G : recurs(G)
    BY DEF powersOfTen, N
  <1> DEFINE P == powersOfTen
  <1>8. recurs(P)
    BY <1>6, <1>7
  <1> HIDE DEF P
  <1>9. \A n \in D : P[n] = IF n = 0 THEN 1 ELSE 10 * P[n - 1]
    BY <1>8
  <1> DEFINE Good == {n \in Nat : n <= N => P[n] \in Nat}
  <1>10. 0 \in Good
    BY <1>1, <1>9
  <1>11. ASSUME NEW n \in Nat, n \in Good
         PROVE  n + 1 \in Good
    <2> SUFFICES ASSUME n + 1 <= N
                 PROVE  P[n + 1] \in Nat
      OBVIOUS
    <2>1. P[n] \in Nat /\ n + 1 \in D /\ (n + 1) - 1 = n /\ n + 1 # 0
      BY <1>1, <1>11
    <2>2. P[n + 1] = 10 * P[n]
      BY <1>9, <2>1
    <2> QED
      BY <2>1, <2>2
  <1>12. Nat \subseteq Good
    <2> HIDE DEF Good
    <2> QED
      BY <1>10, <1>11, SetInduction
  <1>13. \A n \in D : P[n] \in Nat
    BY <1>1, <1>12
  <1> QED
    BY <1>9, <1>13 DEF arePowersOfTen, P, N

\* The recursion of atoi.
isAtoi(F, first, end) ==
    F = [p \in first .. end |-> IF p = first THEN 0 ELSE 10 * F[p - 1] + at(input, p - 1)]

\* The recursion of atoi over some digits defines something.
LEMMA AtoiExists ==
    ASSUME isText, NEW first \in Nat, NEW end \in Nat, first <= end, end <= Len(input), allDigits(first + 1, end)
    PROVE  \E F : F \in [first .. end -> Int] /\ isAtoi(F, first, end)
  <1> DEFINE D == first .. end
             rank == [p \in D |-> p - first]
             prev == [p \in D |-> IF p = first THEN first ELSE p - 1]
             base == [p \in D |-> 0]
             step == [x \in D \X Int |-> IF x[1] = first THEN 0 ELSE 10 * x[2] + at(input, x[1] - 1)]
  <1>1. \A p \in D : p # first => at(input, p - 1) \in Int
    <2> SUFFICES ASSUME NEW p \in D, p # first
                 PROVE  input[p] \in Int
      BY DEF at
    <2>1. p \in digitPositions
      BY DEF allDigits
    <2> QED
      BY <2>1, DigitsOfText
  <1>2. /\ rank \in [D -> Nat] /\ prev \in [D -> D] /\ base \in [D -> Int]
        /\ \A d \in D : rank[d] # 0 => rank[prev[d]] < rank[d]
        /\ \A d \in D : rank[d] <= end
    OBVIOUS
  <1>3. step \in [D \X Int -> Int]
    <2> SUFFICES ASSUME NEW x \in D \X Int, x[1] # first
                 PROVE  10 * x[2] + at(input, x[1] - 1) \in Int
      OBVIOUS
    <2> DEFINE c == at(input, x[1] - 1)
    <2>1. c \in Int /\ x[2] \in Int
      BY <1>1
    <2> HIDE DEF c
    <2>2. 10 * x[2] + c \in Int
      BY <2>1
    <2> QED
      BY <2>2 DEF c
  <1>4. /\ \A p \in D : /\ rank[p] = 0 <=> p = first
                        /\ base[p] = 0
                        /\ p # first => prev[p] = p - 1 /\ p - 1 \in D
        /\ \A p \in D, v \in Int : p # first => step[<<p, v>>] = 10 * v + at(input, p - 1)
    OBVIOUS
  <1> HIDE DEF rank, prev, base, step
  <1>5. PICK F \in [D -> Int] : isRecursive(F, D, rank, prev, base, step)
    BY <1>2, <1>3, Recursion
  <1>6. \A p \in D : F[p] = IF p = first THEN 0 ELSE 10 * F[p - 1] + at(input, p - 1)
    <2> SUFFICES ASSUME NEW p \in D
                 PROVE  F[p] = IF p = first THEN 0 ELSE 10 * F[p - 1] + at(input, p - 1)
      OBVIOUS
    <2>1. CASE p = first
      BY <1>4, <1>5, <2>1 DEF isRecursive
    <2>2. CASE p # first
      <3>1. F[p - 1] \in Int /\ F[p] = step[<<p, F[p - 1]>>]
        BY <1>4, <1>5, <2>2 DEF isRecursive
      <3> QED
        BY <1>4, <2>2, <3>1
    <2> QED
      BY <2>1, <2>2
  <1>7. isAtoi(F, first, end)
    BY <1>6 DEF isAtoi
  <1> QED
    BY <1>7

\* What is read from the digits up to a position, and what the others are
\* worth, is what all of them are worth.
LEMMA DigitsAreRead ==
    ASSUME isText, NEW first \in Nat, NEW end \in Nat, first <= end, end <= Len(input), allDigits(first + 1, end),
           NEW F \in [first .. end -> Int], isAtoi(F, first, end)
    PROVE  F[end] = valueBetween(first + 1, end)
  <1> DEFINE P == powersOfTen
             N == Len(input)
             worth == [p \in first + 1 .. end |-> input[p] * P[end - p]]
             restOf(p) == SumOf(worth, p + 1 .. end)
  <1>1. N \in Nat /\ arePowersOfTen(P, N)
    BY DigitsOfText, PowersOfTen
  <1>2. valueBetween(first + 1, end) = restOf(first)
    BY DEF valueBetween, SumOf
  <1>3. \A p \in first + 1 .. end : input[p] \in Nat
    BY DigitsOfText DEF allDigits
  <1> HIDE DEF P, N
  <1>4. /\ \A n \in 0 .. N : P[n] \in Nat
        /\ \A n \in 1 .. N : P[n] = 10 * P[n - 1]
        /\ P[0] = 1
    BY <1>1 DEF arePowersOfTen
  <1>5. \A p \in first + 1 .. end : P[end - p] \in Nat
    BY <1>1, <1>4 DEF N
  <1>6. \A p \in first + 1 .. end : worth[p] = input[p] * P[end - p] /\ worth[p] \in Nat
    <2> SUFFICES ASSUME NEW p \in first + 1 .. end
                 PROVE  input[p] * P[end - p] \in Nat
      OBVIOUS
    <2>1. \A x, y \in Nat : x * y \in Nat
      OBVIOUS
    <2> QED
      BY <1>3, <1>5, <2>1
  <1> HIDE DEF worth
  <1>7. \A p \in first .. end : restOf(p) \in Nat
    <2> SUFFICES ASSUME NEW p \in first .. end
                 PROVE  SumOf(worth, p + 1 .. end) \in Nat
      OBVIOUS
    <2>1. IsFiniteSet(p + 1 .. end)
      BY FS_Interval
    <2>2. \A q \in p + 1 .. end : worth[q] \in Nat
      BY <1>6
    <2> QED
      BY <2>1, <2>2, SumOfNat
  <1>8. \A p \in first + 1 .. end : restOf(p - 1) = worth[p] + restOf(p)
    <2> SUFFICES ASSUME NEW p \in first + 1 .. end
                 PROVE  SumOf(worth, (p - 1) + 1 .. end) = worth[p] + SumOf(worth, p + 1 .. end)
      OBVIOUS
    <2>1. (p - 1) + 1 .. end = p .. end /\ p \in p .. end /\ (p .. end) \ {p} = p + 1 .. end
      OBVIOUS
    <2>2. IsFiniteSet(p .. end)
      BY FS_Interval
    <2>3. \A q \in p .. end : worth[q] \in Int
      BY <1>6
    <2> DEFINE S == p .. end
    <2>4. SumOf(worth, S) = worth[p] + SumOf(worth, S \ {p})
      <3>1. p \in S /\ IsFiniteSet(S) /\ \A q \in S : worth[q] \in Int
        BY <2>1, <2>2, <2>3
      <3> HIDE DEF S
      <3> QED
        BY <3>1, SumOfRest
    <2> QED
      BY <2>1, <2>4
  <1>9. /\ F[first] = 0
        /\ \A p \in first + 1 .. end : F[p] = 10 * F[p - 1] + input[p]
    BY DEF isAtoi, at
  <1> DEFINE read(p) == F[p] * P[end - p] + restOf(p) = restOf(first)
             Good == {n \in Nat : first + n <= end => read(first + n)}
  <1>10. 0 \in Good
    <2>1. P[end - first] \in Nat
      BY <1>1, <1>4 DEF N
    <2>2. 0 * P[end - first] = 0
      BY <2>1
    <2>3. restOf(first) \in Nat
      BY <1>7
    <2> HIDE DEF restOf
    <2> QED
      BY <1>9, <2>2, <2>3
  <1>11. ASSUME NEW n \in Nat, n \in Good
         PROVE  n + 1 \in Good
    <2> DEFINE q == first + n
               p == first + (n + 1)
    <2> SUFFICES ASSUME p <= end
                 PROVE  read(p)
      OBVIOUS
    <2>1. q \in first .. end /\ p \in first + 1 .. end /\ p - 1 = q /\ read(q) /\ end - q = (end - p) + 1 /\ end - p \in Nat
      BY <1>11
    <2>2. F[p] = 10 * F[q] + input[p] /\ F[q] \in Int /\ input[p] \in Nat
      BY <1>3, <1>9, <2>1
    <2>3. end - q \in 1 .. N /\ (end - q) - 1 = end - p
      BY <1>1, <2>1 DEF N
    <2>4. P[end - q] = 10 * P[end - p] /\ P[end - p] \in Nat
      BY <1>4, <1>5, <2>1, <2>3
    <2>5. restOf(q) = input[p] * P[end - p] + restOf(p) /\ restOf(p) \in Nat
      <3>1. p \in first .. end
        BY <2>1
      <3> HIDE DEF restOf, p, q
      <3> QED
        BY <1>6, <1>7, <1>8, <2>1, <3>1
    <2>6. restOf(first) \in Nat
      BY <1>7
    <2>7. \A f, i, t, r, z \in Int :
             f * (10 * t) + (i * t + r) = z => (10 * f + i) * t + r = z
      BY Z3
    <2> HIDE DEF restOf, p, q
    <2>8. F[q] * (10 * P[end - p]) + (input[p] * P[end - p] + restOf(p)) = restOf(first)
      BY <2>1, <2>4, <2>5
    <2>9. (10 * F[q] + input[p]) * P[end - p] + restOf(p) = restOf(first)
      <3> DEFINE f == F[q]
                 i == input[p]
                 t == P[end - p]
                 r == restOf(p)
                 z == restOf(first)
      <3>1. f \in Int /\ i \in Int /\ t \in Int /\ r \in Int /\ z \in Int /\ f * (10 * t) + (i * t + r) = z
        BY <2>2, <2>4, <2>5, <2>6, <2>8
      <3> HIDE DEF f, i, t, r, z
      <3>2. (10 * f + i) * t + r = z
        BY <2>7, <3>1
      <3> QED
        BY <3>2 DEF f, i, t, r, z
    <2> QED
      BY <2>2, <2>9
  <1>12. Nat \subseteq Good
    <2> HIDE DEF Good
    <2> QED
      BY <1>10, <1>11, SetInduction
  <1>13. read(end)
    <2>1. PICK n \in Nat : first + n = end
      <3>1. end - first \in Nat /\ first + (end - first) = end
        OBVIOUS
      <3> QED
        BY <3>1
    <2> HIDE DEF read
    <2>2. n \in Good /\ first + n <= end
      BY <1>12, <2>1
    <2>3. read(first + n)
      BY <2>2
    <2> QED
      BY <2>1, <2>3
  <1>14. restOf(end) = 0 /\ F[end] \in Int
    <2>1. end + 1 .. end = {}
      OBVIOUS
    <2> QED
      BY <2>1, SumOfNothing
  <1>15. F[end] * P[end - end] = F[end]
    <2>1. P[end - end] = 1 /\ F[end] \in Int
      BY <1>4
    <2>2. \A x \in Int : x * 1 = x
      OBVIOUS
    <2> QED
      BY <2>1, <2>2
  <1>16. F[end] = restOf(first)
    <2>1. F[end] * P[end - end] + restOf(end) = restOf(first) /\ restOf(first) \in Nat
      BY <1>7, <1>13
    <2> HIDE DEF restOf
    <2> QED
      BY <1>14, <1>15, <2>1
  <1> QED
    BY <1>2, <1>16

\* Digits with no digit after them.
isRun(s, e) == s \in 1 .. e /\ e \in 1 .. Len(input) /\ allDigits(s, e) /\ e + 1 \notin digitPositions

\* A number is read from the next digits, ...
LEMMA Atoi ==
    ASSUME isText, NEW offset \in 0 .. Len(input), NEW s, NEW e, isRun(s, e),
           s > offset, noDigit(offset + 1, s - 1)
    PROVE  atoi(input, offset) = [value |-> valueBetween(s, e), next |-> e]
  <1> DEFINE first == skipNonDecimal(input, offset)
             end == skipDecimal(input, first)
             F == CHOOSE F : isAtoi(F, first, end)
  <1>1. /\ Len(input) \in Nat /\ s \in Nat /\ e \in Nat /\ 1 <= s /\ s <= e /\ e <= Len(input)
        /\ s \in digitPositions
    BY DigitsOfText DEF isRun, allDigits
  <1>2. first = s - 1
    BY <1>1, SkipNonDecimal
  <1>3. first \in 0 .. Len(input) /\ e \in first .. Len(input) /\ first + 1 = s
    BY <1>1, <1>2
  <1>4. end = e
    <2>1. allDigits(first + 1, e) /\ e + 1 \notin digitPositions
      BY <1>3 DEF isRun
    <2> HIDE DEF first
    <2> QED
      BY <1>3, <2>1, SkipDecimal
  <1>5. atoi(input, offset) = [value |-> F[end], next |-> end]
    BY DEF atoi, isAtoi
  <1> HIDE DEF first, end, F
  <1>6. allDigits(first + 1, end)
    BY <1>3, <1>4 DEF isRun
  <1>7. first \in Nat /\ end \in Nat /\ first <= end /\ end <= Len(input)
    BY <1>1, <1>3, <1>4
  <1>8. isAtoi(F, first, end)
    BY <1>6, <1>7, AtoiExists DEF F
  <1>9. PICK G \in [first .. end -> Int] : isAtoi(G, first, end)
    BY <1>6, <1>7, AtoiExists
  <1>10. F = G
    <2>1. DOMAIN F = first .. end /\ DOMAIN G = first .. end /\ F = [p \in first .. end |-> F[p]] /\ G = [p \in first .. end |-> G[p]]
      BY <1>8 DEF isAtoi
    <2> DEFINE Good == {n \in Nat : first + n <= end => F[first + n] = G[first + n]}
    <2>2. /\ F[first] = 0 /\ G[first] = 0
          /\ \A p \in first + 1 .. end : F[p] = 10 * F[p - 1] + at(input, p - 1)
          /\ \A p \in first + 1 .. end : G[p] = 10 * G[p - 1] + at(input, p - 1)
      BY <1>7, <1>8, <1>9 DEF isAtoi
    <2>3. 0 \in Good
      BY <1>7, <2>2
    <2>4. ASSUME NEW n \in Nat, n \in Good
          PROVE  n + 1 \in Good
      BY <1>7, <2>2, <2>4
    <2>5. Nat \subseteq Good
      <3> HIDE DEF Good
      <3> QED
        BY <2>3, <2>4, SetInduction
    <2>6. \A p \in first .. end : F[p] = G[p]
      <3> SUFFICES ASSUME NEW p \in first .. end
                   PROVE  F[p] = G[p]
        OBVIOUS
      <3>1. \A n \in Nat : first + n <= end => F[first + n] = G[first + n]
        BY <2>5
      <3>2. p - first \in Nat /\ first + (p - first) = p /\ p <= end
        BY <1>7
      <3> QED
        BY <3>1, <3>2
    <2> QED
      BY <2>1, <2>6
  <1>11. F[end] = valueBetween(s, e)
    BY <1>3, <1>4, <1>6, <1>7, <1>9, <1>10, DigitsAreRead
  <1> QED
    BY <1>4, <1>5, <1>11

\* ... and zero when there are none.
LEMMA AtoiOfNothing ==
    ASSUME isText, NEW offset \in 0 .. Len(input), noDigit(offset + 1, Len(input))
    PROVE  atoi(input, offset) = [value |-> 0, next |-> Len(input)]
  <1> DEFINE n == Len(input)
  <1>1. n \in Nat /\ n \in 0 .. n /\ n \in n .. n
    BY DigitsOfText
  <1>2. skipNonDecimal(input, offset) = n
    BY SkipNonDecimal
  <1>3. allDigits(n + 1, n) /\ n + 1 \notin digitPositions
    BY <1>1, DigitsOfText DEF allDigits
  <1>4. skipDecimal(input, n) = n
    BY <1>1, <1>3, SkipDecimal
  <1> DEFINE F == CHOOSE F : isAtoi(F, n, n)
  <1>5. atoi(input, offset) = [value |-> F[n], next |-> n]
    BY <1>2, <1>4 DEF atoi, isAtoi
  <1>6. isAtoi(F, n, n)
    BY <1>1, <1>3, AtoiExists
  <1>7. F[n] = 0
    <2> HIDE DEF F, n
    <2> QED
      BY <1>1, <1>6 DEF isAtoi
  <1> QED
    BY <1>5, <1>7


-----------------------------------------------------------------------------
(* Fields.                                                                 *)

\* The k-th run of digits.
isField(k, s, e) ==
    /\ isRun(s, e) /\ s \in starts /\ e \in ends
    /\ placeIn(starts, s) = k /\ placeIn(ends, e) = k

\* The parser has gone over k fields, or over the last one.
isPast(k, offset) ==
    /\ offset \in 0 .. Len(input)
    /\ \/ \E s : isField(k, s, offset)
       \/ noDigit(offset + 1, Len(input)) /\ Cardinality(starts) < k

\* Fields begin and end at positions of the blueprint.
LEMMA Boundaries ==
    ASSUME isText
    PROVE  /\ Len(input) \in Nat
           /\ starts \in SUBSET (1 .. Len(input)) /\ ends \in SUBSET (1 .. Len(input))
           /\ IsFiniteSet(starts) /\ Cardinality(starts) \in Nat
  <1>1. Len(input) \in Nat /\ starts \in SUBSET (1 .. Len(input)) /\ ends \in SUBSET (1 .. Len(input))
    BY DigitsOfText DEF starts, ends
  <1> QED
    BY <1>1, Places

\* A field is where the reference looks for it.
LEMMA FieldIsField ==
    ASSUME isText, NEW k \in Nat, NEW s, NEW e, isField(k, s, e)
    PROVE  startOf(k) = s /\ endOf(k) = e /\ k <= Cardinality(starts)
  <1>1. s \in starts /\ e \in ends /\ placeIn(starts, s) = k /\ placeIn(ends, e) = k
    BY DEF isField
  <1>2. startOf(k) = s
    BY <1>1, Boundaries, ElementAt DEF startOf
  <1>3. endOf(k) = e
    BY <1>1, Boundaries, ElementAt DEF endOf
  <1>4. k <= Cardinality(starts)
    <2>1. \A r \in starts : placeIn(starts, r) <= Cardinality(starts)
      BY Boundaries, Places
    <2> QED
      BY <1>1, <2>1
  <1> QED
    BY <1>2, <1>3, <1>4

\* The digits that come next after a position.
isNextRun(s, e, offset) == isRun(s, e) /\ s > offset /\ noDigit(offset + 1, s - 1)

\* If a digit comes after a position, digits come next.
LEMMA NextRun ==
    ASSUME isText, NEW offset \in 0 .. Len(input), ~noDigit(offset + 1, Len(input))
    PROVE  \E s, e : isNextRun(s, e, offset)
  <1> DEFINE n == Len(input)
             T == {p \in digitPositions : p > offset}
  <1>1. n \in Nat /\ offset \in Nat /\ digitPositions \in SUBSET (1 .. n)
    BY DigitsOfText
  <1>2. T \subseteq Nat /\ T # {}
    <2>1. PICK p \in offset + 1 .. n : p \in digitPositions
      BY DEF noDigit
    <2>2. p \in T
      BY <1>1, <2>1
    <2>3. \A q \in digitPositions : q \in Nat
      BY <1>1
    <2> QED
      BY <2>2, <2>3
  <1>3. PICK s \in T : \A y \in T : s <= y
    BY <1>2, LeastElement
  <1>4. s \in 1 .. n /\ s \in digitPositions /\ s > offset
    BY <1>1, <1>3
  <1>5. noDigit(offset + 1, s - 1)
    BY <1>1, <1>3, <1>4 DEF noDigit
  <1> DEFINE R == {p \in Nat : p >= s /\ p + 1 \notin digitPositions}
  <1>6. n \in R
    BY <1>1, <1>4
  <1>7. PICK e \in R : \A y \in R : e <= y
    BY <1>6, LeastElement
  <1>8. e \in Nat /\ s <= e /\ e <= n /\ e + 1 \notin digitPositions
    BY <1>6, <1>7
  <1> DEFINE Good == {m \in Nat : s + m <= e => s + m \in digitPositions}
  <1>9. 0 \in Good
    BY <1>4
  <1>10. ASSUME NEW m \in Nat, m \in Good
         PROVE  m + 1 \in Good
    <2> SUFFICES ASSUME s + (m + 1) <= e
                 PROVE  s + (m + 1) \in digitPositions
      OBVIOUS
    <2>1. s + m \in Nat /\ s + m >= s /\ s + m < e /\ (s + m) + 1 = s + (m + 1)
      BY <1>4, <1>8
    <2>2. s + m \notin R
      BY <1>7, <1>8, <2>1
    <2> QED
      BY <2>1, <2>2
  <1>11. Nat \subseteq Good
    <2> HIDE DEF Good
    <2> QED
      BY <1>9, <1>10, SetInduction
  <1>12. allDigits(s, e)
    <2> SUFFICES ASSUME NEW p \in s .. e
                 PROVE  p \in digitPositions
      BY DEF allDigits
    <2>1. PICK m \in Nat : p = s + m
      <3>1. p - s \in Nat /\ p = s + (p - s)
        BY <1>4, <1>8
      <3> QED
        BY <3>1
    <2>2. m \in Good
      BY <1>11
    <2> QED
      BY <1>4, <1>8, <2>1, <2>2
  <1>13. isRun(s, e)
    <2>1. s \in 1 .. e /\ e \in 1 .. n
      BY <1>1, <1>4, <1>8
    <2> QED
      BY <1>8, <1>12, <2>1 DEF isRun
  <1>14. isNextRun(s, e, offset)
    BY <1>4, <1>5, <1>13 DEF isNextRun
  <1> QED
    BY <1>14

\* What comes next after k fields, or from the beginning, is the next field.
LEMMA NextField ==
    ASSUME isText, NEW k \in Nat, NEW offset,
           (offset = 0 /\ k = 0) \/ (\E s : isField(k, s, offset)),
           NEW s, NEW e, isNextRun(s, e, offset)
    PROVE  isField(k + 1, s, e)
  <1> DEFINE n == Len(input)
  <1>1. n \in Nat /\ digitPositions \in SUBSET (1 .. n)
    BY DigitsOfText
  <1>2. s \in Nat /\ e \in Nat /\ 1 <= s /\ s <= e /\ e <= n /\ isRun(s, e) /\ allDigits(s, e)
        /\ e + 1 \notin digitPositions
    BY <1>1 DEF isNextRun, isRun
  <1>3. offset \in Nat /\ offset < s /\ (offset = 0 \/ offset + 1 \notin digitPositions)
    BY <1>1, <1>2 DEF isNextRun, isField, isRun
  <1>4. \A p \in offset + 1 .. s - 1 : p \notin digitPositions
    BY DEF isNextRun, noDigit
  <1>5. \A p \in s .. e : p \in digitPositions
    BY <1>2 DEF allDigits
  <1>6. s - 1 \notin digitPositions
    <2>1. CASE s - 1 = offset
      <3>1. offset + 1 = s /\ s \in digitPositions
        BY <1>2, <1>3, <1>5, <2>1
      <3>2. offset = 0
        BY <1>3, <3>1
      <3> QED
        BY <1>1, <2>1, <3>2
    <2>2. CASE s - 1 # offset
      BY <1>2, <1>3, <1>4, <2>2
    <2> QED
      BY <2>1, <2>2
  <1>7. s \in starts /\ e \in ends
    BY <1>2, <1>5, <1>6 DEF starts, ends
  <1>8. \A r \in offset + 1 .. s - 1 : r \notin starts
    BY <1>4 DEF starts
  <1>9. \A r \in offset + 1 .. e - 1 : r \notin ends
    <2> SUFFICES ASSUME NEW r \in offset + 1 .. e - 1, r \in ends
                 PROVE  FALSE
      OBVIOUS
    <2>1. r \in digitPositions /\ r + 1 \notin digitPositions
      BY DEF ends
    <2>2. r \in Nat /\ offset < r /\ r < e
      BY <1>2, <1>3
    <2>3. ~(r < s)
      BY <1>2, <1>3, <1>4, <2>1, <2>2
    <2>4. r + 1 \in s .. e
      BY <1>2, <2>2, <2>3
    <2> QED
      BY <1>5, <2>1, <2>4
  <1>10. placeIn(ends, e) = placeIn(ends, offset) + 1
    <2>1. offset \in 0 .. e - 1
      BY <1>2, <1>3
    <2> QED
      BY <1>7, <1>9, <2>1, Boundaries, NextPlace
  <1>11. placeIn(starts, s) = placeIn(starts, offset) + 1
    <2>1. offset \in 0 .. s - 1
      BY <1>2, <1>3
    <2> QED
      BY <1>7, <1>8, <2>1, Boundaries, NextPlace
  <1>12. placeIn(starts, offset) = k /\ placeIn(ends, offset) = k
    <2>1. CASE offset = 0 /\ k = 0
      <3>1. upTo(starts, 0) = {} /\ upTo(ends, 0) = {}
        BY Boundaries DEF upTo
      <3> QED
        BY <2>1, <3>1, FS_EmptySet DEF placeIn
    <2>2. CASE \E r : isField(k, r, offset)
      <3>1. PICK r : isField(k, r, offset)
        BY <2>2
      <3>2. placeIn(starts, r) = k /\ placeIn(ends, offset) = k
        BY <3>1 DEF isField
      <3>3. r \in Nat /\ r <= offset /\ allDigits(r, offset)
        BY <1>3, <3>1 DEF isField, isRun
      <3>4. upTo(starts, offset) = upTo(starts, r)
        <4>1. \A q \in starts : q \in Nat /\ q \in digitPositions /\ q - 1 \notin digitPositions
          BY <1>1 DEF starts
        <4>2. \A q \in starts : q <= offset => q <= r
          <5> SUFFICES ASSUME NEW q \in starts, q <= offset, ~(q <= r)
                       PROVE  FALSE
            OBVIOUS
          <5>1. q - 1 \in r .. offset
            BY <1>3, <3>3, <4>1
          <5> QED
            BY <3>3, <4>1, <5>1 DEF allDigits
        <4>3. \A q \in starts : q <= r => q <= offset
          BY <1>3, <3>3, <4>1
        <4> QED
          BY <4>2, <4>3 DEF upTo
      <3> QED
        BY <3>2, <3>4 DEF placeIn
    <2> QED
      BY <2>1, <2>2
  <1> QED
    BY <1>2, <1>7, <1>10, <1>11, <1>12 DEF isField

\* Without more digits there are no more fields.
LEMMA NoNextField ==
    ASSUME isText, NEW k \in Nat, NEW s, NEW offset, isField(k, s, offset), noDigit(offset + 1, Len(input))
    PROVE  Cardinality(starts) = k
  <1>1. Len(input) \in Nat /\ digitPositions \in SUBSET (1 .. Len(input))
    BY DigitsOfText
  <1>2. s \in Nat /\ offset \in Nat /\ s <= offset /\ allDigits(s, offset) /\ placeIn(starts, s) = k
    BY <1>1 DEF isField, isRun
  <1>3. \A q \in starts : q <= s
    <2> SUFFICES ASSUME NEW q \in starts, ~(q <= s)
                 PROVE  FALSE
      OBVIOUS
    <2>1. q \in 1 .. Len(input) /\ q \in digitPositions /\ q - 1 \notin digitPositions
      BY <1>1 DEF starts
    <2>2. ~(q > offset)
      BY <1>1, <1>2, <2>1 DEF noDigit
    <2>3. q - 1 \in s .. offset
      BY <1>2, <2>1, <2>2
    <2> QED
      BY <1>2, <2>1, <2>3 DEF allDigits
  <1> QED
    BY <1>2, <1>3, Boundaries, LastPlace

\* One field more.
LEMMA FieldIsRead ==
    ASSUME isText, NEW k \in Nat, NEW offset, isPast(k, offset)
    PROVE  atoi(input, offset).value = field(k + 1) /\ isPast(k + 1, atoi(input, offset).next)
  <1> DEFINE n == Len(input)
             C == Cardinality(starts)
  <1>1. n \in Nat /\ C \in Nat /\ offset \in 0 .. n /\ n \in 0 .. n
    BY Boundaries DEF isPast
  <1>2. CASE noDigit(offset + 1, n)
    <2>1. C < k + 1
      BY <1>1, <1>2, NoNextField DEF isPast
    <2>2. field(k + 1) = 0
      BY <1>1, <2>1 DEF field
    <2>3. atoi(input, offset).value = 0 /\ atoi(input, offset).next = n
      BY <1>1, <1>2, AtoiOfNothing
    <2>4. noDigit(n + 1, n)
      BY <1>1 DEF noDigit
    <2>5. isPast(k + 1, n)
      BY <1>1, <2>1, <2>4 DEF isPast
    <2> QED
      BY <2>2, <2>3, <2>5
  <1>3. CASE ~noDigit(offset + 1, n)
    <2>1. PICK s, e : isNextRun(s, e, offset)
      BY <1>1, <1>3, NextRun
    <2>2. \E r : isField(k, r, offset)
      BY <1>3 DEF isPast
    <2>3. isField(k + 1, s, e)
      BY <2>1, <2>2, NextField
    <2>4. startOf(k + 1) = s /\ endOf(k + 1) = e /\ k + 1 <= C
      BY <2>3, FieldIsField
    <2>5. field(k + 1) = valueBetween(s, e)
      BY <2>4 DEF field
    <2>6. atoi(input, offset) = [value |-> valueBetween(s, e), next |-> e]
      BY <1>1, <2>1, Atoi DEF isNextRun
    <2>7. e \in 0 .. n
      BY <1>1, <2>3 DEF isField, isRun
    <2>8. isPast(k + 1, e)
      BY <2>3, <2>7 DEF isPast
    <2> QED
      BY <2>5, <2>6, <2>8
  <1> QED
    BY <1>2, <1>3

\* Nothing is left iff there are as many fields as were read, or fewer.
LEMMA NothingLeft ==
    ASSUME isText, NEW k \in Nat, NEW offset, isPast(k, offset)
    PROVE  skipNonDecimal(input, offset) = Len(input) <=> Cardinality(starts) <= k
  <1> DEFINE n == Len(input)
             C == Cardinality(starts)
  <1>1. n \in Nat /\ C \in Nat /\ offset \in 0 .. n
    BY Boundaries DEF isPast
  <1>2. CASE noDigit(offset + 1, n)
    <2>1. C <= k
      BY <1>1, <1>2, NoNextField DEF isPast
    <2>2. skipNonDecimal(input, offset) = n
      BY <1>1, <1>2, SkipNonDecimal
    <2> QED
      BY <2>1, <2>2
  <1>3. CASE ~noDigit(offset + 1, n)
    <2>1. PICK s, e : isNextRun(s, e, offset)
      BY <1>1, <1>3, NextRun
    <2>2. \E r : isField(k, r, offset)
      BY <1>3 DEF isPast
    <2>3. isField(k + 1, s, e)
      BY <2>1, <2>2, NextField
    <2>4. k + 1 <= C
      BY <2>3, FieldIsField
    <2>5. s \in Nat /\ 1 <= s /\ s <= n /\ s \in digitPositions
      BY <1>1, <2>1 DEF isNextRun, isRun, allDigits
    <2>6. skipNonDecimal(input, offset) = s - 1
      BY <1>1, <2>1, <2>5, SkipNonDecimal DEF isNextRun
    <2> QED
      BY <1>1, <2>4, <2>5, <2>6
  <1> QED
    BY <1>2, <1>3

\* Of the blueprints of up to five fields PortraitLayer accepts the ones it
\* should, whatever the width of its integers, and reads each field from its
\* place.
THEOREM PortraitFieldsAreAlwaysRead == Spec => []PortraitFieldsAreRead
  <1>1. input \in Seq(Elements[kind]) => PortraitFieldsAreRead
    <2> SUFFICES ASSUME kind = "blueprint", Cardinality(starts) <= 5, input \in Seq(Elements[kind])
                 PROVE  parsePortrait(input) =
                            IF wellFormed
                            THEN [tier |-> input[startOf(1)],
                                  skinId |-> skinId,
                                  bodyId |-> field(2), eyeId |-> field(3), headId |-> field(4), propsId |-> field(5)]
                            ELSE Revert
      BY DEF PortraitFieldsAreRead
    <2>1. isText
      BY InputAssumption DEF isText
    <2> DEFINE p == skipNonDecimal(input, 0)
               skin == atoi(input, p + 1)
               body == atoi(input, skin.next)
               eye == atoi(input, body.next)
               head == atoi(input, eye.next)
               props == atoi(input, head.next)
               n == Len(input)
               C == Cardinality(starts)
               allFit == fits(skin) /\ fits(body) /\ fits(eye) /\ fits(head) /\ fits(props)
               accepted == /\ n <= MaxPosition /\ tierIsFollowed(input, p)
                           /\ allFit
                           /\ skipNonDecimal(input, props.next) = n
    <2>2. parsePortrait(input) =
            IF accepted
            THEN [tier |-> at(input, p), skinId |-> skin.value, bodyId |-> body.value,
                  eyeId |-> eye.value, headId |-> head.value, propsId |-> props.value]
            ELSE Revert
      BY DEF parsePortrait
    <2> HIDE DEF p, skin, body, eye, head, props
    <2>3. n \in Nat /\ C \in Nat /\ 0 \in 0 .. n /\ digitPositions \in SUBSET (1 .. n)
      BY <2>1, Boundaries, DigitsOfText
    <2>4. CASE noDigit(0 + 1, n)
      <3>1. p = n
        BY <2>1, <2>3, <2>4, SkipNonDecimal DEF p
      <3>2. ~accepted
        BY <2>3, <3>1 DEF tierIsFollowed
      <3>3. starts = {}
        BY <2>3, <2>4 DEF starts, noDigit
      <3>4. ~wellFormed
        BY <3>3 DEF wellFormed
      <3> QED
        BY <2>2, <3>2, <3>4
    <2>5. CASE ~noDigit(0 + 1, n)
      <3>1. PICK s, e : isNextRun(s, e, 0)
        BY <2>1, <2>3, <2>5, NextRun
      <3>2. isField(1, s, e)
        <4>1. isField(0 + 1, s, e)
          BY <2>1, <3>1, NextField
        <4> QED
          BY <4>1
      <3>3. startOf(1) = s /\ endOf(1) = e /\ 1 <= C
        BY <2>1, <3>2, FieldIsField
      <3>4. s \in Nat /\ e \in Nat /\ 1 <= s /\ s <= e /\ e <= n /\ s \in digitPositions /\ isRun(s, e)
        BY <2>3, <3>1 DEF isNextRun, isRun, allDigits
      <3>5. p = s - 1
        BY <2>1, <2>3, <3>1, <3>4, SkipNonDecimal DEF isNextRun, p
      <3>6. at(input, p) = input[s]
        BY <3>4, <3>5 DEF at
      <3>7. tierIsFollowed(input, p) <=> s < e
        <4>1. tierIsFollowed(input, p) <=> s < n /\ s + 1 \in digitPositions
          <5>1. p + 1 = s
            BY <3>4, <3>5
          <5>2. s < n => (isDecimal(at(input, s)) <=> s + 1 \in digitPositions)
            BY <2>1, <2>3, <3>4, DigitsOfText
          <5> QED
            BY <5>1, <5>2 DEF tierIsFollowed
        <4>2. s < e => s + 1 \in s .. e /\ s < n
          BY <2>3, <3>4
        <4>3. s < e => s + 1 \in digitPositions
          BY <3>4, <4>2 DEF isRun, allDigits
        <4>4. s = e => s + 1 \notin digitPositions
          BY <3>4 DEF isRun
        <4> QED
          BY <3>4, <4>1, <4>2, <4>3, <4>4
      <3>8. wellFormed <=> /\ s < e /\ n <= MaxPosition
                           /\ skinId <= MaxNumber /\ \A k \in 2 .. 5 : field(k) <= MaxNumber
        <4>1. starts # {}
          <5>1. starts = {} => C = 0
            BY FS_EmptySet
          <5> HIDE DEF C
          <5> QED
            BY <2>3, <3>3, <5>1
        <4> QED
          BY <3>3, <4>1 DEF wellFormed
      <3>9. CASE ~(s < e)
        BY <2>2, <3>7, <3>8, <3>9
      <3>10. CASE s < e
        <4>1. skin = [value |-> valueBetween(s + 1, e), next |-> e]
          <5>1. p + 1 = s /\ s \in 0 .. n /\ s + 1 > s
            BY <2>3, <3>4, <3>5
          <5>2. isRun(s + 1, e)
            <6>1. s + 1 \in 1 .. e /\ \A q \in s + 1 .. e : q \in s .. e
              BY <3>4, <3>10
            <6> QED
              BY <3>4, <6>1 DEF isRun, allDigits
          <5>3. noDigit(s + 1, (s + 1) - 1)
            BY <3>4 DEF noDigit
          <5> QED
            BY <2>1, <5>1, <5>2, <5>3, Atoi DEF skin
        <4>2. isPast(1, skin.next)
          <5>1. e \in 0 .. n
            BY <2>3, <3>4
          <5> QED
            BY <3>2, <4>1, <5>1 DEF isPast
        <4>3. body.value = field(2) /\ isPast(2, body.next)
          BY <2>1, <4>2, FieldIsRead, 1 + 1 = 2 DEF body
        <4>4. eye.value = field(3) /\ isPast(3, eye.next)
          BY <2>1, <4>3, FieldIsRead, 2 + 1 = 3 DEF eye
        <4>5. head.value = field(4) /\ isPast(4, head.next)
          BY <2>1, <4>4, FieldIsRead, 3 + 1 = 4 DEF head
        <4>6. props.value = field(5) /\ isPast(5, props.next)
          BY <2>1, <4>5, FieldIsRead, 4 + 1 = 5 DEF props
        <4>7. skipNonDecimal(input, props.next) = n <=> C <= 5
          BY <2>1, <4>6, NothingLeft
        <4>8. skin.value = skinId
          BY <3>3, <4>1 DEF skinId
        <4>9. allFit <=> skinId <= MaxNumber /\ \A k \in 2 .. 5 : field(k) <= MaxNumber
          <5>1. 2 .. 5 = {2, 3, 4, 5}
            OBVIOUS
          <5> QED
            BY <4>3, <4>4, <4>5, <4>6, <4>8, <5>1 DEF fits
        <4>10. accepted <=> wellFormed
          <5> HIDE DEF allFit
          <5> QED
            BY <3>7, <3>8, <3>10, <4>7, <4>9
        <4> HIDE DEF accepted
        <4> QED
          BY <2>2, <3>3, <3>6, <4>3, <4>4, <4>5, <4>6, <4>8, <4>10
      <3> QED
        BY <3>9, <3>10
    <2> QED
      BY <2>4, <2>5
  <1>2. Spec => [](kind \in Kinds /\ input \in Seq(Elements[kind]))
    BY InputTyped
  <1> QED
    BY <1>1, <1>2, PTL
=============================================================================
