------------------------------- MODULE MCTpcc -------------------------------
(***************************************************************************)
(* Two warehouses, one of them with two districts, one customer in each    *)
(* district, two items.                                                    *)
(***************************************************************************)
EXTENDS Tpcc

District == {<<1, 1>>, <<1, 2>>, <<2, 1>>}

Pay(w, d, remote, selected, amount, byName) ==
    [trx |-> "payment", w |-> w, d |-> d, c |-> 1, byName |-> byName,
     remote |-> remote, remoteSelected |-> selected, amount |-> amount]
Order(items) == [trx |-> "new_order", w |-> 1, d |-> 1, c |-> 1, items |-> items]

\* near: a home customer; next: in the other district of the warehouse, bad
\* credit and chosen by name; far: the input selects a customer of another
\* warehouse (when tpcc_input.cpp is built without USE_ONLY_LOCAL_WHS).
MCInput ==
    [near   |-> Pay(1, 1, <<1, 1>>, FALSE, 3, TRUE),
     next   |-> Pay(1, 2, <<1, 2>>, FALSE, 5, TRUE),
     far    |-> Pay(2, 1, <<1, 1>>, TRUE, 7, FALSE),
     order  |-> Order(<<[i |-> 1, qty |-> 6], [i |-> 1, qty |-> 2]>>),
     rbk    |-> Order(<<[i |-> 2, qty |-> 4], [i |-> 0, qty |-> 1]>>),
     status |-> [trx |-> "order_status", w |-> 1, d |-> 1, c |-> 1, byName |-> TRUE],
     level  |-> [trx |-> "stock_level", w |-> 1, d |-> 1, threshold |-> 15]]

MCMix == {{"near", "next"}, {"near", "far"}, {"near", "order", "status"},
          {"order", "rbk"}, {"order", "level"}}

MCBadCredit == {<<1, 2, 1>>}

\* Each district has one order of one line, which is delivered.
MCLoaded ==
    [r \in {<<"wh", w>> : w \in 1 .. 2} |->
        [ytd |-> IF r[2] = 1 THEN 60 ELSE 30]]
    @@ [r \in {<<"dist">> \o di : di \in District} |-> [ytd |-> 30, next |-> 2]]
    @@ [r \in {<<"cust">> \o di \o <<1>> : di \in District} |->
            [balance |-> -10, ytd |-> 10, cnt |-> 1]]
    @@ [r \in {<<"ord">> \o di \o <<1>> : di \in District} |-> [c |-> 1, cnt |-> 1]]
    @@ [r \in {<<"ol">> \o di \o <<1, 1>> : di \in District} |-> [i |-> 2, qty |-> 5]]
    @@ [r \in {<<"stock", w, i>> : w \in 1 .. 2, i \in 1 .. 2} |->
            [quantity |-> 12 + r[3], ytd |-> 0, cnt |-> 0]]
=============================================================================
