-------------------------------- MODULE Tpcc --------------------------------
(***************************************************************************)
(* The TPC-C transactions as DORA runs them (src/src/dora/tpcc), over the  *)
(* strict executions that DORA promises: what each action reads and writes,*)
(* what it hands on to later phases in its RVP, and the key it is queued   *)
(* under.  The actions use the tables without the locks of the storage     *)
(* manager (the functions ending in _nl), which only logs what they write  *)
(* and takes it back when the transaction aborts; the keys, which are      *)
(* coarser than the rows, must make up for it.                             *)
(*                                                                         *)
(* The database is a function from rows to values: a row is named by its   *)
(* table and primary key.  Left out are columns nobody computes with,      *)
(* prices and amounts of items (the item table never changes), and         *)
(* Delivery, which is not implemented under DORA.                          *)
(***************************************************************************)
EXTENDS StrictExecution, SequencesExt

CONSTANTS
    Input,      \* per transaction: its type and its input
    Mix,        \* the sets of transactions that run together
    Loaded,     \* the database before the run
    BadCredit,  \* the customers with bad credit
    Item,       \* the items there are
    NoRow       \* not a row

VARIABLES
    submitted,  \* the transactions that run
    db,         \* the database
    rvp,        \* per transaction: what its actions found for later phases
    before      \* per transaction: the rows it wrote, as they were (the log)

store == <<submitted, db, rvp, before>>

-----------------------------------------------------------------------------
(***************************************************************************)
(* Flows: the phases of a transaction, each with its actions and the key   *)
(* calc_keys() gives them.  No key names a customer, an order or an item.  *)
(***************************************************************************)
Reads(name, key)  == [name |-> name, key |-> key, dlm |-> "shared"]
Writes(name, key) == [name |-> name, key |-> key, dlm |-> "exclusive"]

\* Slip: the warehouse is queued under the key of its district.
PaymentPerDistrict(w, d) ==
    <<<<Writes("upd_wh_pay",   <<"wh", w, d>>),
        Writes("upd_dist_pay", <<"dist", w, d>>),
        Writes("upd_cust_pay", <<"cust", w, d>>)>>,
      <<Writes("ins_hist_pay", <<"hist", w>>)>>>>

Payment(w, d) ==
    <<<<Writes("upd_wh_pay",   <<"wh", w>>),
        Writes("upd_dist_pay", <<"dist", w, d>>),
        Writes("upd_cust_pay", <<"cust", w, d>>)>>,
      <<Writes("ins_hist_pay", <<"hist", w>>)>>>>

NewOrder(w, d) ==
    <<<<Reads("r_wh_nord",         <<"wh", w>>),
        Writes("upd_dist_nord",    <<"dist", w, d>>),
        Reads("r_cust_nord",       <<"cust", w, d>>),
        Reads("r_item_nord",       <<"item", w>>)>>,
      <<Writes("ins_nord_nord",    <<"nord", w, d>>),
        Writes("ins_ord_nord",     <<"ord", w, d>>)>>,
      <<Writes("ins_ol_nord",      <<"ol", w, d>>)>>,
      <<Writes("upd_sto_nord",     <<"stock", w>>)>>>>

OrderStatus(w, d) ==
    <<<<Reads("r_cust_ordst", <<"cust", w, d>>)>>,
      <<Reads("r_ord_ordst",  <<"ord", w, d>>)>>,
      <<Reads("r_ol_ordst",   <<"ol", w, d>>)>>>>

StockLevel(w, d) ==
    <<<<Reads("r_dist_stock", <<"dist", w, d>>)>>,
      <<Reads("r_ol_stock",   <<"ol", w, d>>)>>,
      <<Reads("r_st_stock",   <<"stock", w>>)>>>>

FlowOf == [x \in DOMAIN Input |->
    LET w == Input[x].w
        d == Input[x].d
    IN  CASE Input[x].trx = "payment"      -> Payment(w, d)
          [] Input[x].trx = "new_order"    -> NewOrder(w, d)
          [] Input[x].trx = "order_status" -> OrderStatus(w, d)
          [] Input[x].trx = "stock_level"  -> StockLevel(w, d)]

\* The steps of StrictExecution, and its other parameters.
StepsOf(x) ==
    FlattenSeq([i \in DOMAIN FlowOf[x] |-> [j \in DOMAIN FlowOf[x][i] |-> <<x, i, j>>]])
Action(s) == FlowOf[s[1]][s[2]][s[3]]

TpccXct    == DOMAIN Input
TpccStep   ==
    UNION {UNION {{<<x, i, j>> : j \in DOMAIN FlowOf[x][i]} : i \in DOMAIN FlowOf[x]} : x \in TpccXct}
TpccXctOf  == [s \in TpccStep |-> s[1]]
TpccBefore == {p \in TpccStep \X TpccStep : p[1][1] = p[2][1] /\ p[1][2] < p[2][2]}
TpccClash  == {p \in TpccStep \X TpccStep :
                  /\ p[1][1] # p[2][1]
                  /\ Action(p[1]).key = Action(p[2]).key
                  /\ "exclusive" \in {Action(p[1]).dlm, Action(p[2]).dlm}}

ASSUME FlowAssumption ==
    /\ Xct = TpccXct
    /\ Step = TpccStep
    /\ XctOf = TpccXctOf
    /\ Clash = TpccClash
    /\ Before = TpccBefore

\* create_payment_input(): an input that selects no remote customer names the
\* home district twice.
ASSUME InputAssumption ==
    \A x \in DOMAIN Input :
        /\ Input[x].trx \in {"payment", "new_order", "order_status", "stock_level"}
        /\ Input[x].trx = "payment" /\ ~Input[x].remoteSelected =>
              Input[x].remote = <<Input[x].w, Input[x].d>>

-----------------------------------------------------------------------------
(***************************************************************************)
(* Payment.  The test of v_cust_wh_selection is the reverse of the one     *)
(* that makes the input (tpcc_input.cpp:348), so that a customer of        *)
(* another warehouse is never paid for: the customer is that of the home   *)
(* district, whose key the action has.                                     *)
(***************************************************************************)
\* Slip: the test as the input means it.
CustomerMeant(in) == IF in.remoteSelected THEN in.remote ELSE <<in.w, in.d>>

CustomerDistrict(in) == IF in.remoteSelected THEN <<in.w, in.d>> ELSE in.remote

Row(row, value) == [row |-> row, value |-> value]

upd_wh_pay(in, d) ==
    LET r == <<"wh", in.w>> IN Row(r, [d[r] EXCEPT !.ytd = @ + in.amount])

upd_dist_pay(in, d) ==
    LET r == <<"dist", in.w, in.d>> IN Row(r, [d[r] EXCEPT !.ytd = @ + in.amount])

upd_cust_pay(in, d) ==
    LET r == <<"cust">> \o CustomerDistrict(in) \o <<in.c>>
    IN  Row(r, [d[r] EXCEPT !.balance = @ - in.amount,
                            !.ytd     = @ + in.amount,
                            !.cnt     = @ + 1])

\* A history row has no key; it is named by its transaction.
ins_hist_pay(in, x, m) ==
    Row(<<"hist", x>>, [c |-> m.c, cust |-> CustomerDistrict(in), w |-> in.w, amount |-> in.amount])

(***************************************************************************)
(* NewOrder.  The id of the order is the next id after the increment.      *)
(***************************************************************************)
upd_dist_nord(in, d) ==
    LET r == <<"dist", in.w, in.d>> IN Row(r, [d[r] EXCEPT !.next = @ + 1])

ins_nord_nord(in, m) == Row(<<"nord", in.w, in.d, m.o>>, [new |-> TRUE])
ins_ord_nord(in, m)  == Row(<<"ord", in.w, in.d, m.o>>, [c |-> in.c, cnt |-> Len(in.items)])
ins_ol_nord(in, m, n) == Row(<<"ol", in.w, in.d, m.o, n>>, in.items[n])

upd_sto_nord(in, d, n) ==
    LET r == <<"stock", in.w, in.items[n].i>>
        q == d[r].quantity - in.items[n].qty
    IN  Row(r, [d[r] EXCEPT !.quantity = IF q < 10 THEN q + 91 ELSE q,
                            !.ytd      = @ + in.items[n].qty,
                            !.cnt      = @ + 1])

-----------------------------------------------------------------------------
(***************************************************************************)
(* What the actions that look something up leave in the RVP.  The customer *)
(* of a Payment is left there only if he has good credit: the history of   *)
(* one with bad credit who was chosen by name names customer 0.            *)
(***************************************************************************)
RowsOf(table, w, d, dbase) ==
    {r \in DOMAIN dbase : r[1] = table /\ r[2] = w /\ r[3] = d}

found_by_dist_nord(in, d) == [o |-> d[<<"dist", in.w, in.d>>].next + 1]

found_by_cust_pay(in) ==
    IF CustomerDistrict(in) \o <<in.c>> \in BadCredit THEN << >> ELSE [c |-> in.c]

found_by_cust_ordst(in, d) ==
    [c |-> in.c, balance |-> d[<<"cust", in.w, in.d, in.c>>].balance]

\* The last order of the customer in the index scan, and its number of lines.
found_by_ord_ordst(in, d, m) ==
    LET last == Max({r[4] : r \in {q \in RowsOf("ord", in.w, in.d, d) : d[q].c = m.c}})
    IN  [o |-> last, cnt |-> d[<<"ord", in.w, in.d, last>>].cnt]

found_by_ol_ordst(in, d, m) ==
    [lines |-> {r \in RowsOf("ol", in.w, in.d, d) : r[4] = m.o}]

found_by_dist_stock(in, d) == [next |-> d[<<"dist", in.w, in.d>>].next]

\* The range includes both of its ends (ol_get_range_iter_by_index()).
found_by_ol_stock(in, d, m) ==
    [items |-> {d[r].i : r \in {q \in RowsOf("ol", in.w, in.d, d) : q[4] \in m.next - 20 .. m.next}}]

found_by_st_stock(in, d, m) ==
    [low |-> Cardinality({i \in m.items : d[<<"stock", in.w, i>>].quantity < in.threshold})]

-----------------------------------------------------------------------------
(***************************************************************************)
(* trx_exec() of a step, on database d with what RVP m holds: the rows it  *)
(* writes one after the other, and what it finds.                          *)
(***************************************************************************)
Name(s) == Action(s).name
In(s)   == Input[s[1]]

WriteCount(s) ==
    IF Name(s) \in {"ins_ol_nord", "upd_sto_nord"} THEN Len(In(s).items)
    ELSE IF Action(s).dlm = "exclusive" THEN 1 ELSE 0

\* The n-th write.
Write(s, n, d, m) ==
    CASE Name(s) = "upd_wh_pay"    -> upd_wh_pay(In(s), d)
      [] Name(s) = "upd_dist_pay"  -> upd_dist_pay(In(s), d)
      [] Name(s) = "upd_cust_pay"  -> upd_cust_pay(In(s), d)
      [] Name(s) = "ins_hist_pay"  -> ins_hist_pay(In(s), s[1], m)
      [] Name(s) = "upd_dist_nord" -> upd_dist_nord(In(s), d)
      [] Name(s) = "ins_nord_nord" -> ins_nord_nord(In(s), m)
      [] Name(s) = "ins_ord_nord"  -> ins_ord_nord(In(s), m)
      [] Name(s) = "ins_ol_nord"   -> ins_ol_nord(In(s), m, n)
      [] Name(s) = "upd_sto_nord"  -> upd_sto_nord(In(s), d, n)

Found(s, d, m) ==
    CASE Name(s) = "upd_cust_pay"  -> found_by_cust_pay(In(s))
      [] Name(s) = "upd_dist_nord" -> found_by_dist_nord(In(s), d)
      [] Name(s) = "r_cust_ordst"  -> found_by_cust_ordst(In(s), d)
      [] Name(s) = "r_ord_ordst"   -> found_by_ord_ordst(In(s), d, m)
      [] Name(s) = "r_ol_ordst"    -> found_by_ol_ordst(In(s), d, m)
      [] Name(s) = "r_dist_stock"  -> found_by_dist_stock(In(s), d)
      [] Name(s) = "r_ol_stock"    -> found_by_ol_stock(In(s), d, m)
      [] Name(s) = "r_st_stock"    -> found_by_st_stock(In(s), d, m)
      [] OTHER -> << >>

Put(d, w) == [r \in DOMAIN d \cup {w.row} |-> IF r = w.row THEN w.value ELSE d[r]]

\* Slip: the rows are all read before the first is written.
ReadAheadOf(s, n, d, m) ==
    FoldLeft(Put, d, [k \in 1 .. n |-> Write(s, k, d, m)])

\* The database after n writes of step s; a row may be written twice.
After(s, n, d, m) ==
    LET f[k \in 0 .. n] == IF k = 0 THEN d ELSE Put(f[k - 1], Write(s, k, f[k - 1], m))
    IN  f[n]

Written(s, n, d, m) == {Write(s, k, d, m).row : k \in 1 .. n}

\* A roll-back input of NewOrder names an item that does not exist.
MustFail(s) ==
    Name(s) = "r_item_nord" /\ \E k \in DOMAIN In(s).items : In(s).items[k].i \notin Item

\* A Payment or OrderStatus that names its customer by last name has no id yet.
NewRvp(x) ==
    IF Input[x].trx \in {"payment", "order_status"}
    THEN [c |-> IF Input[x].byName THEN 0 ELSE Input[x].c]
    ELSE << >>

-----------------------------------------------------------------------------
TpccInit ==
    /\ Init
    /\ submitted \in Mix
    /\ db = Loaded
    /\ rvp = [x \in TpccXct |-> NewRvp(x)]
    /\ before = [x \in TpccXct |-> << >>]

\* The log keeps the first value of each row.
Logged(log, d, rows) ==
    [r \in DOMAIN log \cup rows |->
        IF r \in DOMAIN log THEN log[r] ELSE IF r \in DOMAIN d THEN d[r] ELSE NoRow]

\* A step that fails may have done some of its writes; other actions of the
\* phase may still run then, but the phases after it do not.
Exec(s) ==
    LET x == s[1] IN
    /\ x \in submitted
    /\ x \in doomed => \E t \in ran : t[1] = x /\ t[2] = s[2]
    /\ Run(s)
    /\ \E n \in 0 .. WriteCount(s), ok \in BOOLEAN :
          /\ IF ok THEN n = WriteCount(s) /\ doomed' = doomed /\ ~MustFail(s)
             ELSE x \in doomed'
          /\ db' = After(s, n, db, rvp[x])
          /\ before' = [before EXCEPT ![x] = Logged(@, db, Written(s, n, db, rvp[x]))]
          /\ rvp' = [rvp EXCEPT ![x] = IF ok THEN Found(s, db, @) @@ @ ELSE @]
    /\ UNCHANGED submitted

CommitXct(x) ==
    /\ x \in submitted
    /\ Commit(x)
    /\ before' = [before EXCEPT ![x] = << >>]
    /\ UNCHANGED <<submitted, db, rvp>>

\* abort_xct(): the storage manager undoes what x wrote.
Undone(d, log) ==
    [r \in {q \in DOMAIN d : q \in DOMAIN log => log[q] # NoRow} |->
        IF r \in DOMAIN log THEN log[r] ELSE d[r]]

AbortXct(x) ==
    /\ x \in submitted
    /\ Abort(x)
    /\ db' = Undone(db, before[x])
    /\ before' = [before EXCEPT ![x] = << >>]
    /\ rvp' = [rvp EXCEPT ![x] = << >>]
    /\ UNCHANGED submitted

TpccNext ==
    \/ \E s \in TpccStep : Exec(s)
    \/ \E x \in TpccXct : CommitXct(x) \/ AbortXct(x)

TpccSpec == TpccInit /\ [][TpccNext]_<<vars, store>>

-----------------------------------------------------------------------------
\* The database without the writes of transactions that have not ended.
Settled ==
    FoldSet(LAMBDA x, d : Undone(d, before[x]), db, {y \in TpccXct : before[y] # << >>})

\* Transaction x alone, on database d.
Alone(x, d) ==
    LET todo == StepsOf(x)
        f[k \in 0 .. Len(todo)] ==
            IF k = 0 THEN [db |-> d, rvp |-> NewRvp(x)]
            ELSE LET s == todo[k]
                     p == f[k - 1]
                 IN  [db  |-> After(s, WriteCount(s), p.db, p.rvp),
                      rvp |-> Found(s, p.db, p.rvp) @@ p.rvp]
    IN  f[Len(todo)]

(***************************************************************************)
(* Isolation and rollback, on the data: at every moment, the database      *)
(* without the writes of unfinished transactions is what the committed     *)
(* ones leave when they run alone, one after the other in the order they   *)
(* ended, and each of them found what it finds there.  No action holds a   *)
(* lock of the storage manager: this rests on the keys that calc_keys()    *)
(* chooses.  It says of OrderStatus that the order it found has all its    *)
(* lines, and of two NewOrders that they never use one order id.           *)
(***************************************************************************)
AsIfSerial ==
    LET done == SelectSeq(ended, LAMBDA x : x \in committed)
        serial[k \in 0 .. Len(done)] ==
            IF k = 0 THEN Loaded ELSE Alone(done[k], serial[k - 1]).db
    IN  /\ Settled = serial[Len(done)]
        /\ \A k \in DOMAIN done : rvp[done[k]] = Alone(done[k], serial[k - 1]).rvp

(***************************************************************************)
(* The tables agree with each other, with what was loaded, and with the    *)
(* history: money received, orders with all their lines and nothing else,  *)
(* stock sold.  The history of a customer with bad credit may lack his     *)
(* name (found_by_cust_pay).                                               *)
(***************************************************************************)
Table(name, d) == {r \in DOMAIN d : r[1] = name}
Paid(d, rows)  == MapThenSumSet(LAMBDA r : d[r].amount, rows)
Gained(d, r)   == d[r].ytd - Loaded[r].ytd

MoneyAgrees(d) ==
    /\ \A wh \in Table("wh", d) :
          /\ d[wh].ytd = MapThenSumSet(LAMBDA r : d[r].ytd, {r \in Table("dist", d) : r[2] = wh[2]})
          /\ Gained(d, wh) = Paid(d, {h \in Table("hist", d) : d[h].w = wh[2]})
    /\ \A cu \in Table("cust", d) :
          LET mine == {h \in Table("hist", d) : d[h].cust \o <<d[h].c>> = Tail(cu)}
          IN  /\ d[cu].balance + d[cu].ytd = Loaded[cu].balance + Loaded[cu].ytd
              /\ Tail(cu) \notin BadCredit =>
                    /\ Gained(d, cu) = Paid(d, mine)
                    /\ d[cu].cnt = Loaded[cu].cnt + Cardinality(mine)

OrdersAgree(d) ==
    /\ \A di \in Table("dist", d) :
          LET Ids(table) == {r[4] : r \in RowsOf(table, di[2], di[3], d)}
              new == Loaded[di].next + 1 .. d[di].next
          IN  /\ Ids("ord") \ {r[4] : r \in RowsOf("ord", di[2], di[3], Loaded)} = new
              /\ Ids("nord") \ {r[4] : r \in RowsOf("nord", di[2], di[3], Loaded)} = new
    /\ {Tail(r) : r \in Table("ol", d)} =
          UNION {{Tail(r) \o <<n>> : n \in 1 .. d[r].cnt} : r \in Table("ord", d)}

StockAgrees(d) ==
    \A st \in Table("stock", d) :
        LET sold == {r \in Table("ol", d) \ DOMAIN Loaded : r[2] = st[2] /\ d[r].i = st[3]}
        IN  /\ d[st].quantity \in 10 .. 100
            /\ Gained(d, st) = MapThenSumSet(LAMBDA r : d[r].qty, sold)
            /\ d[st].cnt = Loaded[st].cnt + Cardinality(sold)

Consistent == MoneyAgrees(Settled) /\ OrdersAgree(Settled) /\ StockAgrees(Settled)

\* The value of row r without the writes of unfinished transactions, given the
\* logs and the database; NoRow when there is none (Settled, row by row).
SettledIn(logs, d, r) ==
    LET wrote == {x \in TpccXct : r \in DOMAIN logs[x]}
    IN  IF wrote # {} THEN logs[CHOOSE x \in wrote : TRUE][r]
        ELSE IF r \in DOMAIN d THEN d[r] ELSE NoRow

(***************************************************************************)
(* Atomicity of the data: the settled value of a row changes only when a   *)
(* transaction that wrote the row commits.  Writes of an action that       *)
(* failed half-way, those of the actions of its phase that run after it,   *)
(* and the rollback (rvp.cpp:248-268) among the unlocked writes of other   *)
(* transactions never show.                                                *)
(***************************************************************************)
OnlyCommitsShow ==
    [][\A r \in DOMAIN db \cup DOMAIN db' :
          SettledIn(before', db', r) # SettledIn(before, db, r) =>
              \E x \in committed' \ committed : r \in DOMAIN before[x]]_<<vars, store>>
=============================================================================
