----------------------------- MODULE ImxQueries -----------------------------
(***************************************************************************)
(* The queries of scripts/imx/common.ts, which change nothing: pages of    *)
(* trades and transfers, the comparison of events with what IMX has, and   *)
(* the owner by the events of a layer.  None of them is exported so far.   *)
(*                                                                         *)
(* IMX has records 1, 2, ... in the order in which they came to be.  It is *)
(* external: it sends the newest record first, at most page_size at a time, *)
(* and a cursor when there are older ones; a cursor names the record to go  *)
(* on from, so that records that are added meanwhile are not seen.         *)
(***************************************************************************)
EXTENDS Integers, Sequences, SequencesExt

CONSTANTS Null,         \* null
          Throws        \* the outcome of a function that throws

ASSUME QueriesAssumption == Throws # <<>>

\* loop_n_times: 0 is also what stands for undefined.
NoLimit == 0
NoCursor == 0

page(cursor, page_size) ==
    [i \in 1 .. (IF page_size < cursor THEN page_size ELSE cursor) |-> cursor - i + 1]
cursorAfter(cursor, page_size) == IF page_size < cursor THEN cursor - page_size ELSE NoCursor

\* Mutant of loopsOn: one request too many.
loopsOnce(loop_n_times) == loop_n_times = NoLimit \/ loop_n_times > 0

\* !loop_n_times || loop_n_times-- > 1.
loopsOn(loop_n_times) == loop_n_times = NoLimit \/ loop_n_times > 1
loopsLeft(loop_n_times) == IF loop_n_times = NoLimit THEN NoLimit ELSE loop_n_times - 1

\* get_all_transfers of an asset with that many transfers; a request is made
\* with a cursor when loop_n_times has come down to n.
get_all_transfers(total, page_size, loop_n_times) ==
    LET from[request \in (0 .. total) \X (0 .. loop_n_times)] ==
            LET cursor == request[1]
                n == request[2]
                rest == cursorAfter(cursor, page_size)
            IN  page(cursor, page_size) \o
                    (IF rest # NoCursor /\ loopsOn(n) THEN from[<<rest, loopsLeft(n)>>] ELSE <<>>)
    IN  from[<<total, loop_n_times>>]

\* get_all_trades gives up at an answer that is no error and yet not a 200:
\* at the request of that number, if there is one.
requests(total, page_size, loop_n_times) ==
    LET pages == IF total = 0 THEN 1 ELSE (total + page_size - 1) \div page_size
    IN  IF loop_n_times # NoLimit /\ loop_n_times < pages THEN loop_n_times ELSE pages
get_all_trades(total, page_size, loop_n_times, not200) ==
    IF not200 \in 1 .. requests(total, page_size, loop_n_times) THEN Null
    ELSE get_all_transfers(total, page_size, loop_n_times)

-----------------------------------------------------------------------------
(* verify.                                                                 *)

\* The events of a range of blocks, up to the latest when to_block is null.
isInRange(e, from_block, to_block) ==
    /\ from_block = Null \/ from_block <= e.blockNumber
    /\ to_block = Null \/ e.blockNumber <= to_block

formatted(e) == [block_number |-> e.blockNumber, token_id |-> e._tokenId, plot_packed |-> e._plotPacked]

pushed(events_metadata, e, from_block, to_block) ==
    IF isInRange(e, from_block, to_block) THEN Append(events_metadata, formatted(e)) ELSE events_metadata

get_plot_bought_l2_events(plot_bought_l2_objs, from_block, to_block) ==
    FoldLeft(LAMBDA events_metadata, e : pushed(events_metadata, e, from_block, to_block), <<>>, plot_bought_l2_objs)

\* get_mint: IMX answers 404 to an unknown token, which axios throws.
hasMint(minted, token_id) == token_id \in DOMAIN minted

\* Mutant of differs: only tokens without any blueprint are reported.
differsByAbsence(event, minted) == minted[event.token_id] = Null
differs(event, minted) == event.plot_packed # minted[event.token_id]

\* One event more; the first unknown token ends the loop.
compared(asset_diff, event, minted) ==
    IF asset_diff = Throws \/ ~hasMint(minted, event.token_id) THEN Throws
    ELSE IF differs(event, minted)
    THEN Append(asset_diff, [token_id |-> event.token_id, event |-> event.plot_packed,
                             l2 |-> minted[event.token_id]])
    ELSE asset_diff

verify(events, minted) ==
    FoldLeft(LAMBDA asset_diff, event : compared(asset_diff, event, minted), <<>>, events)

-----------------------------------------------------------------------------
(* get_owner_of_snapshot_l1.                                               *)

\* Mutant of isSortedBefore: newest blocks first.
isSortedAfter(left, right) == left.blockNumber > right.blockNumber
isSortedBefore(left, right) == left.blockNumber < right.blockNumber

\* getPastEvents is external.  The filter {token_id} names no parameter of
\* Transfer, whose third is tokenId, and web3 passes over such a name: the
\* events are those of all tokens of the layer.
getPastEvents(transfers, token_id) == transfers

\* The last event when they are sorted, and in their order where the sort
\* leaves it open.
last_transfer_event(transfer_events) ==
    transfer_events[CHOOSE i \in DOMAIN transfer_events :
        \A j \in DOMAIN transfer_events \ {i} :
            /\ ~isSortedBefore(transfer_events[i], transfer_events[j])
            /\ isSortedBefore(transfer_events[j], transfer_events[i]) \/ j < i]

get_owner_of_snapshot_l1(transfers, token_id) ==
    LET transfer_events == getPastEvents(transfers, token_id)
    IN  IF transfer_events = <<>> THEN Null ELSE last_transfer_event(transfer_events).to
=============================================================================
