--------------------------- MODULE MCIndexerRest ---------------------------
(* A small instance of IndexerRest: one workload that exercises every call  *)
(* of the repositories on the tables, three that serve requests meanwhile.  *)
EXTENDS IndexerRest

CONSTANTS a1, a2, t1, t2, x1, x2, c1, c2

MCHeight == {1, 2}
MCAddress == {a1, a2}
MCToken == {t1, t2}
MCHash == {x1, x2}
MCName == {"transfer", "Mint"}
MCClients == {c1, c2}

Block(h) == [height |-> h, hash |-> "hash", time |-> "time", total_txs |-> 1, num_txs |-> 1]
Tx(x, i, h) ==
    [index |-> i, hash |-> x, success |-> TRUE, block_height |-> h, gas_wanted |-> 2,
     gas_used |-> 1, memo |-> "", gas_fee |-> "fee",
     messages |-> <<[route |-> "vm", typeUrl |-> "exec", value |-> "value"]>>,
     response |-> [log |-> "", info |-> "", error |-> "", data |-> "",
                   events |-> <<[type |-> "Transfer", func |-> "Transfer", pkg_path |-> t1,
                                 attrs |-> << >>]>>]]
Account(a, t) == [address |-> a, token |-> t, amount |-> 0]
Transfer(f, from, to, n) ==
    [func |-> f, from_address |-> from, to_address |-> to, token |-> t1, amount |-> n,
     denom |-> "gnot"]

NoCalls == [blocks |-> {}, blockBatches |-> {}, heights |-> {}, transactions |-> {},
            transactionBatches |-> {}, accounts |-> {}, amounts |-> {}, transfers |-> {},
            transferBatches |-> {}, starts |-> {}]

\* Every call, in any order, with inputs that are refused among them.
Writing ==
    [calls |->
        [blocks |-> {Block(1), Block(2)},
         blockBatches |-> {<<Block(1), Block(2)>>},
         heights |-> {1},
         transactions |-> {Tx(x1, 1, 1)},
         transactionBatches |-> {<<Tx(x2, 1, 1), Tx(x1, 0, 1)>>},
         accounts |-> {Account(a1, t1), Account(a1, t2), Account(a2, t1)},
         amounts |-> {1, 4, -4},
         transfers |-> {[hash |-> x1, transfer |-> Transfer("Mint", NoAddress, a1, 2)]},
         transferBatches |->
            {[hash |-> x1, transfers |-> <<Transfer("Transfer", a1, a2, 1),
                                           Transfer("Transfer", NoAddress, a1, 1)>>],
             [hash |-> x2, transfers |-> <<Transfer("Transfer", a1, NoAddress, 1),
                                           Transfer("Transfer", a1, NoAddress, 0)>>]},
         starts |-> {1, 2}],
     writes |-> 4,
     requests |-> {}]

Get(path, query) == [method |-> "GET", path |-> path, query |-> query]
Post(path) == [method |-> "POST", path |-> path, query |-> << >>]
AddressIs(a) == <<"address=", a>>

\* Balances under two query strings, and a token's accounts.
Serving ==
    [calls |-> [NoCalls EXCEPT !.accounts = {Account(a1, t1)}, !.amounts = {1}],
     writes |-> 2,
     requests |-> {Get(<<"/balances">>, << >>), Get(<<"/balances">>, AddressIs(a2)),
                   Get(<<"/", t1, "/balances">>, AddressIs(a1))}]

\* The other routes, and the token's accounts under the empty token.
ServingTransfers ==
    [calls |-> [NoCalls EXCEPT !.accounts = {Account(a1, t1)},
                               !.transfers = {[hash |-> x1, transfer |->
                                               Transfer("Transfer", NoAddress, a1, 1)]}],
     writes |-> 3,
     requests |-> {Get(<<"/transfer-history">>, AddressIs(a2)),
                   Get(<<"/", "/balances">>, AddressIs(a1)), Post(<<"/balances">>)}]

\* /balances?address=a1&?/balances? and /balances%3Faddress=a1&%3F/balances: one key;
\* and a path that is no endpoint.
ServingOneKey ==
    [calls |-> [NoCalls EXCEPT !.accounts = {Account(a1, t1)}],
     writes |-> 1,
     requests |-> {Get(<<"/balances">>, AddressIs(a1) \o <<"&", "?", "/balances", "?">>),
                   Get(<<"/balances", "?">> \o AddressIs(a1) \o <<"&", "?", "/balances">>, << >>),
                   Get(<<"/other">>, << >>)}]

MCLoads == {Writing, Serving, ServingTransfers, ServingOneKey}
=============================================================================
