-------------------------- MODULE MCFunctionChecks --------------------------
(* FunctionChecks for TLC: what inputs are made of, and how long they get. *)
EXTENDS FunctionChecks

MCMaxLength ==
    [blueprint |-> 12, tables |-> 4, amounts |-> 4, random |-> 3, roles |-> 3, paging |-> 4,
     plots |-> 3, transfers |-> 4]

MCElements ==
    [blueprint |-> Chars,
     tables |-> {0, 1, 4999, 5000, 9999, 10000, 10001},
     amounts |-> {0, 1, 7, 30, 33, 50, 67, 99, 100},
     random |-> 0 .. TWO256 + 3,
     roles |-> DOMAIN tokenPermissions \cup DOMAIN salePermissions \cup DOMAIN managers,
     paging |-> 0 .. 7,
     plots |-> [blockNumber : 1 .. 2, _tokenId : {"t1", "t2", "t3", "t4"}, _plotPacked : {"plot1", "plot2"}],
     transfers |-> [blockNumber : 1 .. 3, tokenId : {"t1", "t2"}, to : {"a", "b"}]]
=============================================================================
