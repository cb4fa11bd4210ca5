----------------------------- MODULE TpccProofs -----------------------------
(***************************************************************************)
(* What holds of the TPC-C transactions of module Tpcc for all inputs,     *)
(* mixes and databases: their histories are strict executions; the keys of *)
(* the actions cover the rows they read and write; and that is enough for  *)
(* reads to be repeatable, for actions without conflict to commute, and    *)
(* for rollbacks to take back their own writes and nothing else.           *)
(***************************************************************************)
EXTENDS Tpcc, StrictExecutionProofs, FiniteSetTheorems

(***************************************************************************)
(* Every step of TpccNext is a step of StrictExecution: an action that     *)
(* writes is a Run, and what the log does is invisible there.              *)
(***************************************************************************)
LEMMA StepIsStrict == [TpccNext]_<<vars, store>> => [Next]_vars
<1> SUFFICES ASSUME [TpccNext]_<<vars, store>> PROVE [Next]_vars
  OBVIOUS
<1>1. ASSUME NEW s \in TpccStep, Exec(s) PROVE Next
  BY <1>1, FlowAssumption DEF Exec, Next
<1>2. ASSUME NEW x \in TpccXct, CommitXct(x) PROVE Next
  BY <1>2, FlowAssumption DEF CommitXct, Next
<1>3. ASSUME NEW x \in TpccXct, AbortXct(x) PROVE Next
  BY <1>3, FlowAssumption DEF AbortXct, Next
<1>4. CASE UNCHANGED <<vars, store>>
  BY <1>4
<1> QED BY <1>1, <1>2, <1>3, <1>4 DEF TpccNext

(***************************************************************************)
(* The TPC-C transactions implement the abstract promise of DORA.          *)
(***************************************************************************)
THEOREM TpccIsStrict == TpccSpec => Spec
<1>1. TpccInit => Init
  BY DEF TpccInit
<1>2. [TpccNext]_<<vars, store>> => [Next]_vars
  BY StepIsStrict
<1> QED BY <1>1, <1>2, PTL DEF TpccSpec, Spec

(***************************************************************************)
(* The order in which Payments, NewOrders, OrderStatus and StockLevels end *)
(* (rvp.cpp:237-320) is a serial order.                                    *)
(***************************************************************************)
THEOREM TpccSerializable == TpccSpec => []EndOrderSerializes
<1> QED BY TpccIsStrict, Serializable, PTL

-----------------------------------------------------------------------------
(***************************************************************************)
(* The key under which the writers of a row are queued.                    *)
(***************************************************************************)
KeyOfRow(r) ==
    IF r[1] \in {"wh", "stock"} THEN <<r[1], r[2]>> ELSE <<r[1], r[2], r[3]>>

Writer == {"upd_wh_pay", "upd_dist_pay", "upd_cust_pay", "upd_dist_nord",
           "ins_nord_nord", "ins_ord_nord", "ins_ol_nord", "upd_sto_nord"}
Reader == {"r_wh_nord", "r_cust_nord", "r_item_nord", "r_cust_ordst", "r_ord_ordst",
           "r_ol_ordst", "r_dist_stock", "r_ol_stock", "r_st_stock"}

\* What calc_keys() gives the actions.
calc_keys(name, w, d) ==
    CASE name = "upd_wh_pay"    -> <<"wh", w>>
      [] name = "r_wh_nord"     -> <<"wh", w>>
      [] name = "upd_dist_pay"  -> <<"dist", w, d>>
      [] name = "upd_dist_nord" -> <<"dist", w, d>>
      [] name = "r_dist_stock"  -> <<"dist", w, d>>
      [] name = "upd_cust_pay"  -> <<"cust", w, d>>
      [] name = "r_cust_nord"   -> <<"cust", w, d>>
      [] name = "r_cust_ordst"  -> <<"cust", w, d>>
      [] name = "ins_hist_pay"  -> <<"hist", w>>
      [] name = "r_item_nord"   -> <<"item", w>>
      [] name = "ins_nord_nord" -> <<"nord", w, d>>
      [] name = "ins_ord_nord"  -> <<"ord", w, d>>
      [] name = "r_ord_ordst"   -> <<"ord", w, d>>
      [] name = "ins_ol_nord"   -> <<"ol", w, d>>
      [] name = "r_ol_ordst"    -> <<"ol", w, d>>
      [] name = "r_ol_stock"    -> <<"ol", w, d>>
      [] name = "upd_sto_nord"  -> <<"stock", w>>
      [] name = "r_st_stock"    -> <<"stock", w>>

\* An action of a transaction at district d of warehouse w is queued under
\* that key, and a writer locks it exclusively.
Keyed(action, w, d) ==
    /\ action.name \in Writer \cup Reader \cup {"ins_hist_pay"}
    /\ action.key = calc_keys(action.name, w, d)
    /\ action.dlm = IF action.name \in Reader THEN "shared" ELSE "exclusive"

\* The actions of Payment, all phases.
LEMMA PaymentActions ==
    ASSUME NEW w, NEW d, NEW i \in DOMAIN Payment(w, d), NEW j \in DOMAIN Payment(w, d)[i]
    PROVE  Payment(w, d)[i][j] \in
              {Writes("upd_wh_pay", <<"wh", w>>),
               Writes("upd_dist_pay", <<"dist", w, d>>),
               Writes("upd_cust_pay", <<"cust", w, d>>),
               Writes("ins_hist_pay", <<"hist", w>>)}
<1>1. i \in 1 .. 2
  BY DEF Payment
<1>2. CASE i = 1
  BY <1>2 DEF Payment
<1>3. CASE i = 2
  BY <1>3 DEF Payment
<1> QED BY <1>1, <1>2, <1>3

\* The actions of NewOrder, all phases.
LEMMA NewOrderActions ==
    ASSUME NEW w, NEW d, NEW i \in DOMAIN NewOrder(w, d), NEW j \in DOMAIN NewOrder(w, d)[i]
    PROVE  NewOrder(w, d)[i][j] \in
              {Reads("r_wh_nord", <<"wh", w>>),
               Writes("upd_dist_nord", <<"dist", w, d>>),
               Reads("r_cust_nord", <<"cust", w, d>>),
               Reads("r_item_nord", <<"item", w>>),
               Writes("ins_nord_nord", <<"nord", w, d>>),
               Writes("ins_ord_nord", <<"ord", w, d>>),
               Writes("ins_ol_nord", <<"ol", w, d>>),
               Writes("upd_sto_nord", <<"stock", w>>)}
<1>1. i \in 1 .. 4
  BY DEF NewOrder
<1>2. CASE i = 1
  BY <1>2 DEF NewOrder
<1>3. CASE i = 2
  BY <1>3 DEF NewOrder
<1>4. CASE i = 3
  BY <1>4 DEF NewOrder
<1>5. CASE i = 4
  BY <1>5 DEF NewOrder
<1> QED BY <1>1, <1>2, <1>3, <1>4, <1>5

\* The actions of OrderStatus, all phases.
LEMMA OrderStatusActions ==
    ASSUME NEW w, NEW d, NEW i \in DOMAIN OrderStatus(w, d), NEW j \in DOMAIN OrderStatus(w, d)[i]
    PROVE  OrderStatus(w, d)[i][j] \in
              {Reads("r_cust_ordst", <<"cust", w, d>>),
               Reads("r_ord_ordst", <<"ord", w, d>>),
               Reads("r_ol_ordst", <<"ol", w, d>>)}
<1>1. i \in 1 .. 3
  BY DEF OrderStatus
<1>2. CASE i = 1
  BY <1>2 DEF OrderStatus
<1>3. CASE i = 2
  BY <1>3 DEF OrderStatus
<1>4. CASE i = 3
  BY <1>4 DEF OrderStatus
<1> QED BY <1>1, <1>2, <1>3, <1>4

\* The actions of StockLevel, all phases.
LEMMA StockLevelActions ==
    ASSUME NEW w, NEW d, NEW i \in DOMAIN StockLevel(w, d), NEW j \in DOMAIN StockLevel(w, d)[i]
    PROVE  StockLevel(w, d)[i][j] \in
              {Reads("r_dist_stock", <<"dist", w, d>>),
               Reads("r_ol_stock", <<"ol", w, d>>),
               Reads("r_st_stock", <<"stock", w>>)}
<1>1. i \in 1 .. 3
  BY DEF StockLevel
<1>2. CASE i = 1
  BY <1>2 DEF StockLevel
<1>3. CASE i = 2
  BY <1>3 DEF StockLevel
<1>4. CASE i = 3
  BY <1>4 DEF StockLevel
<1> QED BY <1>1, <1>2, <1>3, <1>4

\* They are queued under the keys above.
LEMMA PaymentKeyed ==
    ASSUME NEW w, NEW d, NEW i \in DOMAIN Payment(w, d), NEW j \in DOMAIN Payment(w, d)[i]
    PROVE  Keyed(Payment(w, d)[i][j], w, d)
<1>1. PICK a : a = Payment(w, d)[i][j]
  OBVIOUS
<1>2. CASE a = Writes("upd_wh_pay", <<"wh", w>>)
  BY <1>1, <1>2 DEF Keyed, calc_keys, Writer, Reader, Writes, Reads
<1>3. CASE a = Writes("upd_dist_pay", <<"dist", w, d>>)
  BY <1>1, <1>3 DEF Keyed, calc_keys, Writer, Reader, Writes, Reads
<1>4. CASE a = Writes("upd_cust_pay", <<"cust", w, d>>)
  BY <1>1, <1>4 DEF Keyed, calc_keys, Writer, Reader, Writes, Reads
<1>5. CASE a = Writes("ins_hist_pay", <<"hist", w>>)
  BY <1>1, <1>5 DEF Keyed, calc_keys, Writer, Reader, Writes, Reads
<1> QED BY <1>1, <1>2, <1>3, <1>4, <1>5, PaymentActions, Zenon

\* They are queued under the keys above.
LEMMA NewOrderKeyed ==
    ASSUME NEW w, NEW d, NEW i \in DOMAIN NewOrder(w, d), NEW j \in DOMAIN NewOrder(w, d)[i]
    PROVE  Keyed(NewOrder(w, d)[i][j], w, d)
<1>1. PICK a : a = NewOrder(w, d)[i][j]
  OBVIOUS
<1>2. CASE a = Reads("r_wh_nord", <<"wh", w>>)
  BY <1>1, <1>2 DEF Keyed, calc_keys, Writer, Reader, Writes, Reads
<1>3. CASE a = Writes("upd_dist_nord", <<"dist", w, d>>)
  BY <1>1, <1>3 DEF Keyed, calc_keys, Writer, Reader, Writes, Reads
<1>4. CASE a = Reads("r_cust_nord", <<"cust", w, d>>)
  BY <1>1, <1>4 DEF Keyed, calc_keys, Writer, Reader, Writes, Reads
<1>5. CASE a = Reads("r_item_nord", <<"item", w>>)
  BY <1>1, <1>5 DEF Keyed, calc_keys, Writer, Reader, Writes, Reads
<1>6. CASE a = Writes("ins_nord_nord", <<"nord", w, d>>)
  BY <1>1, <1>6 DEF Keyed, calc_keys, Writer, Reader, Writes, Reads
<1>7. CASE a = Writes("ins_ord_nord", <<"ord", w, d>>)
  BY <1>1, <1>7 DEF Keyed, calc_keys, Writer, Reader, Writes, Reads
<1>8. CASE a = Writes("ins_ol_nord", <<"ol", w, d>>)
  BY <1>1, <1>8 DEF Keyed, calc_keys, Writer, Reader, Writes, Reads
<1>9. CASE a = Writes("upd_sto_nord", <<"stock", w>>)
  BY <1>1, <1>9 DEF Keyed, calc_keys, Writer, Reader, Writes, Reads
<1> QED BY <1>1, <1>2, <1>3, <1>4, <1>5, <1>6, <1>7, <1>8, <1>9, NewOrderActions, Zenon

\* They are queued under the keys above.
LEMMA OrderStatusKeyed ==
    ASSUME NEW w, NEW d, NEW i \in DOMAIN OrderStatus(w, d), NEW j \in DOMAIN OrderStatus(w, d)[i]
    PROVE  Keyed(OrderStatus(w, d)[i][j], w, d)
<1>1. PICK a : a = OrderStatus(w, d)[i][j]
  OBVIOUS
<1>2. CASE a = Reads("r_cust_ordst", <<"cust", w, d>>)
  BY <1>1, <1>2 DEF Keyed, calc_keys, Writer, Reader, Writes, Reads
<1>3. CASE a = Reads("r_ord_ordst", <<"ord", w, d>>)
  BY <1>1, <1>3 DEF Keyed, calc_keys, Writer, Reader, Writes, Reads
<1>4. CASE a = Reads("r_ol_ordst", <<"ol", w, d>>)
  BY <1>1, <1>4 DEF Keyed, calc_keys, Writer, Reader, Writes, Reads
<1> QED BY <1>1, <1>2, <1>3, <1>4, OrderStatusActions, Zenon

\* They are queued under the keys above.
LEMMA StockLevelKeyed ==
    ASSUME NEW w, NEW d, NEW i \in DOMAIN StockLevel(w, d), NEW j \in DOMAIN StockLevel(w, d)[i]
    PROVE  Keyed(StockLevel(w, d)[i][j], w, d)
<1>1. PICK a : a = StockLevel(w, d)[i][j]
  OBVIOUS
<1>2. CASE a = Reads("r_dist_stock", <<"dist", w, d>>)
  BY <1>1, <1>2 DEF Keyed, calc_keys, Writer, Reader, Writes, Reads
<1>3. CASE a = Reads("r_ol_stock", <<"ol", w, d>>)
  BY <1>1, <1>3 DEF Keyed, calc_keys, Writer, Reader, Writes, Reads
<1>4. CASE a = Reads("r_st_stock", <<"stock", w>>)
  BY <1>1, <1>4 DEF Keyed, calc_keys, Writer, Reader, Writes, Reads
<1> QED BY <1>1, <1>2, <1>3, <1>4, StockLevelActions, Zenon

\* Whatever the transaction, its actions are.
LEMMA StepKeyed ==
    ASSUME NEW s \in TpccStep
    PROVE  Keyed(Action(s), In(s).w, In(s).d)
<1>1. PICK x, i, j : x = s[1] /\ i = s[2] /\ j = s[3]
  OBVIOUS
<1>2. x \in DOMAIN Input /\ i \in DOMAIN FlowOf[x] /\ j \in DOMAIN FlowOf[x][i]
  BY <1>1 DEF TpccStep, TpccXct
<1>3. Action(s) = FlowOf[x][i][j] /\ In(s) = Input[x]
  BY <1>1 DEF Action, In
<1>4. Input[x].trx \in {"payment", "new_order", "order_status", "stock_level"}
  BY <1>2, InputAssumption
<1>5. CASE Input[x].trx = "payment"
  <2>1. FlowOf[x] = Payment(Input[x].w, Input[x].d)
    BY <1>2, <1>5 DEF FlowOf
  <2> QED BY <1>2, <1>3, <2>1, PaymentKeyed, Zenon
<1>6. CASE Input[x].trx = "new_order"
  <2>1. FlowOf[x] = NewOrder(Input[x].w, Input[x].d)
    BY <1>2, <1>6 DEF FlowOf
  <2> QED BY <1>2, <1>3, <2>1, NewOrderKeyed, Zenon
<1>7. CASE Input[x].trx = "order_status"
  <2>1. FlowOf[x] = OrderStatus(Input[x].w, Input[x].d)
    BY <1>2, <1>7 DEF FlowOf
  <2> QED BY <1>2, <1>3, <2>1, OrderStatusKeyed, Zenon
<1>8. CASE Input[x].trx = "stock_level"
  <2>1. FlowOf[x] = StockLevel(Input[x].w, Input[x].d)
    BY <1>2, <1>8 DEF FlowOf
  <2> QED BY <1>2, <1>3, <2>1, StockLevelKeyed, Zenon
<1> QED BY <1>4, <1>5, <1>6, <1>7, <1>8

\* A Payment pays for a customer of its home district: the test in the action
\* is the reverse of the one that makes the input.
LEMMA PaysAtHome ==
    ASSUME NEW s \in TpccStep, Name(s) = "upd_cust_pay"
    PROVE  CustomerDistrict(In(s)) = <<In(s).w, In(s).d>>
<1>1. PICK x, i, j : x = s[1] /\ i = s[2] /\ j = s[3]
  OBVIOUS
<1>2. x \in DOMAIN Input /\ i \in DOMAIN FlowOf[x] /\ j \in DOMAIN FlowOf[x][i]
  BY <1>1 DEF TpccStep, TpccXct
<1>3. FlowOf[x][i][j].name = "upd_cust_pay" /\ In(s) = Input[x]
  BY <1>1 DEF Name, Action, In
<1>4. Input[x].trx = "payment"
  <2>1. CASE Input[x].trx = "new_order"
    <3>1. FlowOf[x] = NewOrder(Input[x].w, Input[x].d)
      BY <1>2, <2>1 DEF FlowOf
    <3>2. FlowOf[x][i][j].name # "upd_cust_pay"
      BY <1>2, <3>1, NewOrderActions DEF Writes, Reads
    <3> QED BY <1>3, <3>2
  <2>2. CASE Input[x].trx = "order_status"
    <3>1. FlowOf[x] = OrderStatus(Input[x].w, Input[x].d)
      BY <1>2, <2>2 DEF FlowOf
    <3>2. FlowOf[x][i][j].name # "upd_cust_pay"
      BY <1>2, <3>1, OrderStatusActions DEF Reads
    <3> QED BY <1>3, <3>2
  <2>3. CASE Input[x].trx = "stock_level"
    <3>1. FlowOf[x] = StockLevel(Input[x].w, Input[x].d)
      BY <1>2, <2>3 DEF FlowOf
    <3>2. FlowOf[x][i][j].name # "upd_cust_pay"
      BY <1>2, <3>1, StockLevelActions DEF Reads
    <3> QED BY <1>3, <3>2
  <2> QED BY <1>2, <2>1, <2>2, <2>3, InputAssumption, Zenon
<1> QED BY <1>2, <1>3, <1>4, InputAssumption DEF CustomerDistrict

\* The front of a concatenation.
LEMMA ConcatFront ==
    ASSUME NEW T, NEW p \in Seq(T), NEW q \in Seq(T), NEW i \in 1 .. Len(p)
    PROVE  (p \o q)[i] = p[i]
  OBVIOUS

\* The key of a row whose name is put together from three parts.
LEMMA RowOfFour ==
    ASSUME NEW a, NEW b, NEW c, NEW e
    PROVE  LET r == (<<a>> \o <<b, c>>) \o <<e>>
           IN  KeyOfRow(r) = KeyOfRow(<<a, b, c, e>>) /\ r[1] = a
<1> DEFINE T == {a, b, c, e}
<1>1. <<a>> \in Seq(T) /\ <<b, c>> \in Seq(T) /\ <<e>> \in Seq(T)
  OBVIOUS
<1> DEFINE p == <<a>> \o <<b, c>>
<1>2. /\ p \in Seq(T) /\ Len(p) = 3
      /\ p[1] = a /\ p[2] = b /\ p[3] = c
  BY <1>1
<1>3. (p \o <<e>>)[1] = a /\ (p \o <<e>>)[2] = b /\ (p \o <<e>>)[3] = c
  <2>1. PICK q, r : q = p /\ r = <<e>> /\ q \in Seq(T) /\ r \in Seq(T)
    BY <1>1, <1>2
  <2>2. 1 \in 1 .. Len(q) /\ 2 \in 1 .. Len(q) /\ 3 \in 1 .. Len(q)
    BY <1>2, <2>1
  <2> HIDE DEF p, T
  <2>3. (q \o r)[1] = q[1] /\ (q \o r)[2] = q[2] /\ (q \o r)[3] = q[3]
    BY <2>1, <2>2, ConcatFront
  <2> QED BY <1>2, <2>1, <2>3, Zenon
<1> QED BY <1>3 DEF KeyOfRow

\* The rows a writer writes are in the tables with keys, under the key of the
\* action; a history row is the transaction's own.
LEMMA RowsHaveKeys ==
    ASSUME NEW s \in TpccStep, NEW n, NEW d, NEW m, Name(s) \in Writer
    PROVE  LET r == Write(s, n, d, m).row
           IN  KeyOfRow(r) = calc_keys(Name(s), In(s).w, In(s).d) /\ r[1] # "hist"
<1>1. CASE Name(s) = "upd_wh_pay"
  BY <1>1 DEF Write, upd_wh_pay, Row, KeyOfRow, calc_keys
<1>2. CASE Name(s) = "upd_dist_pay"
  BY <1>2 DEF Write, upd_dist_pay, Row, KeyOfRow, calc_keys
<1>3. CASE Name(s) = "upd_cust_pay"
  <2> DEFINE r == (<<"cust">> \o <<In(s).w, In(s).d>>) \o <<In(s).c>>
  <2>1. Write(s, n, d, m).row = r
    BY <1>3, PaysAtHome DEF Write, upd_cust_pay, Row
  <2>2. KeyOfRow(r) = KeyOfRow(<<"cust", In(s).w, In(s).d, In(s).c>>) /\ r[1] = "cust"
    BY RowOfFour
  <2>3. KeyOfRow(<<"cust", In(s).w, In(s).d, In(s).c>>) = <<"cust", In(s).w, In(s).d>>
    BY DEF KeyOfRow
  <2> QED BY <1>3, <2>1, <2>2, <2>3 DEF calc_keys
<1>4. CASE Name(s) = "upd_dist_nord"
  BY <1>4 DEF Write, upd_dist_nord, Row, KeyOfRow, calc_keys
<1>5. CASE Name(s) = "ins_nord_nord"
  BY <1>5 DEF Write, ins_nord_nord, Row, KeyOfRow, calc_keys
<1>6. CASE Name(s) = "ins_ord_nord"
  BY <1>6 DEF Write, ins_ord_nord, Row, KeyOfRow, calc_keys
<1>7. CASE Name(s) = "ins_ol_nord"
  BY <1>7, Zenon DEF Write, ins_ol_nord, Row, KeyOfRow, calc_keys
<1>8. CASE Name(s) = "upd_sto_nord"
  BY <1>8, Zenon DEF Write, upd_sto_nord, Row, KeyOfRow, calc_keys
<1> QED BY <1>1, <1>2, <1>3, <1>4, <1>5, <1>6, <1>7, <1>8 DEF Writer

\* The lock of a step that writes is that of its row.
LEMMA StepKey ==
    ASSUME NEW s \in TpccStep, Name(s) \in Writer, NEW n, NEW d, NEW m
    PROVE  /\ Action(s).key = KeyOfRow(Write(s, n, d, m).row)
           /\ Action(s).dlm = "exclusive"
           /\ Write(s, n, d, m).row[1] # "hist"
<1>1. Action(s).key = calc_keys(Name(s), In(s).w, In(s).d) /\ Action(s).dlm = "exclusive"
  BY StepKeyed DEF Keyed, Name, Writer, Reader
<1> QED BY <1>1, RowsHaveKeys

(***************************************************************************)
(* The keys that calc_keys() computes protect the rows: for all inputs,    *)
(* two actions of different transactions that update or insert one row,    *)
(* whatever they found before, conflict, so that a transaction that wrote  *)
(* a row ends before another one writes it.  The key of a Payment's        *)
(* customer action fits by InputAssumption only (dora_payment.cpp:242).    *)
(***************************************************************************)
THEOREM WritersOfARowClash ==
    ASSUME NEW s \in TpccStep, NEW t \in TpccStep, s[1] # t[1],
           Name(s) \in Writer, Name(t) \in Writer,
           NEW n, NEW d, NEW m, NEW k, NEW e, NEW o,
           Write(s, n, d, m).row = Write(t, k, e, o).row
    PROVE  <<s, t>> \in Clash
<1>1. Action(s).key = KeyOfRow(Write(s, n, d, m).row) /\ Action(s).dlm = "exclusive"
  BY StepKey
<1>2. Action(t).key = KeyOfRow(Write(t, k, e, o).row)
  BY StepKey
<1>3. Action(s).key = Action(t).key
  BY <1>1, <1>2
<1> QED BY <1>1, <1>3, FlowAssumption DEF TpccClash

-----------------------------------------------------------------------------
(***************************************************************************)
(* Isolation of the data.  No action holds a lock of the storage manager   *)
(* (the functions ending in _nl), so that nothing but the keys keeps a     *)
(* transaction off the rows another one wrote and may take back, or has    *)
(* read and relies on.                                                     *)
(***************************************************************************)
\* Row r is in a table with keys, and under key k.
Under(r, k) == r[1] # "hist" /\ KeyOfRow(r) = k

\* A row in the log of a transaction was written by a step of it that ran,
\* under the key of that step; a history row is the transaction's own.
LogInv ==
    /\ DOMAIN before = TpccXct
    /\ \A x \in TpccXct : \A r \in DOMAIN before[x] :
          /\ ~HasEnded(x)
          /\ \/ r = <<"hist", x>>
             \/ \E s \in ran : s[1] = x /\ Action(s).dlm = "exclusive" /\ Under(r, Action(s).key)

\* What an unfinished transaction read or wrote under the key of a step, no
\* other unfinished transaction has written.
NoDirtyData ==
    \A s \in ran, y \in TpccXct : s[1] # y /\ ~HasEnded(s[1]) =>
        \A r \in DOMAIN before[y] : ~Under(r, Action(s).key)

\* Two transactions that have not ended wrote different rows: whichever the
\* storage manager rolls back, it restores no row that the other one wrote.
LogsApart ==
    \A x, y \in TpccXct : x # y => DOMAIN before[x] \cap DOMAIN before[y] = {}

\* The rows that a step writes.
LEMMA RowsOfStep ==
    ASSUME NEW s \in TpccStep, NEW n \in 0 .. WriteCount(s), NEW d, NEW m,
           NEW r \in Written(s, n, d, m)
    PROVE  /\ Action(s).dlm = "exclusive"
           /\ r = <<"hist", s[1]>> \/ Under(r, Action(s).key)
<1>1. PICK k \in 1 .. n : r = Write(s, k, d, m).row
  BY DEF Written
<1>2. Keyed(Action(s), In(s).w, In(s).d)
  BY StepKeyed
<1>3. CASE Name(s) \in Writer
  BY <1>1, <1>3, StepKey DEF Under
<1>4. CASE Name(s) = "ins_hist_pay"
  <2>1. Write(s, k, d, m).row = <<"hist", s[1]>>
    BY <1>4 DEF Write, ins_hist_pay, Row
  <2>2. Action(s).dlm = "exclusive"
    BY <1>2, <1>4 DEF Keyed, Reader, Name
  <2> QED BY <1>1, <2>1, <2>2
<1>5. CASE Name(s) \in Reader
  <2>1. Action(s).dlm = "shared" /\ Name(s) \notin {"ins_ol_nord", "upd_sto_nord"}
    BY <1>2, <1>5 DEF Keyed, Reader, Name
  <2>2. n = 0
    BY <2>1 DEF WriteCount
  <2> QED BY <2>2
<1> QED BY <1>2, <1>3, <1>4, <1>5 DEF Keyed, Name

\* Who ended stays ended, and nobody else ends with x.
LEMMA EndsAlone ==
    ASSUME TypeOK, NEW x \in Xct, ended' = Append(ended, x)
    PROVE  \A y : HasEnded(y)' <=> HasEnded(y) \/ y = x
<1>1. /\ Len(ended) \in Nat /\ DOMAIN ended = 1 .. Len(ended)
      /\ DOMAIN ended' = 1 .. Len(ended) + 1
      /\ ended'[Len(ended) + 1] = x
      /\ \A j \in 1 .. Len(ended) : ended'[j] = ended[j]
  BY DEF TypeOK
<1>2. \A j \in 1 .. Len(ended) + 1 : j \in 1 .. Len(ended) \/ j = Len(ended) + 1
  BY <1>1
<1>3. \A j \in 1 .. Len(ended) : j \in 1 .. Len(ended) + 1
  BY <1>1
<1>4. Len(ended) + 1 \in 1 .. Len(ended) + 1
  BY <1>1
<1> QED BY <1>1, <1>2, <1>3, <1>4, Zenon DEF HasEnded

\* A step that runs logs the rows it writes, for its own transaction.
LEMMA LogExec ==
    ASSUME TypeOK, LogInv, NEW s \in TpccStep, Exec(s)
    PROVE  LogInv'
<1>1. PICK x : x = s[1] /\ x \in TpccXct
  BY DEF TpccStep
<1>2. PICK n \in 0 .. WriteCount(s) :
         before' = [before EXCEPT ![x] = Logged(@, db, Written(s, n, db, rvp[x]))]
  BY <1>1 DEF Exec
<1>3. /\ ran' = ran \cup {s} /\ ended' = ended
      /\ ~HasEnded(x)
  BY <1>1, FlowAssumption DEF Exec, Run, TpccXctOf
<1>4. PICK rows : rows = Written(s, n, db, rvp[x])
  OBVIOUS
<1>5. DOMAIN before'[x] = DOMAIN before[x] \cup rows
  BY <1>1, <1>2, <1>4 DEF LogInv, Logged
<1>6. \A y \in TpccXct : y # x => before'[y] = before[y]
  BY <1>2 DEF LogInv
<1>7. DOMAIN before' = TpccXct
  BY <1>2 DEF LogInv
<1>8. \A y : HasEnded(y)' <=> HasEnded(y)
  BY <1>3 DEF HasEnded
<1>9. \A r \in rows : /\ Action(s).dlm = "exclusive"
                      /\ r = <<"hist", x>> \/ Under(r, Action(s).key)
  BY <1>1, <1>4, RowsOfStep
<1>10. ASSUME NEW y \in TpccXct, NEW r \in DOMAIN before'[y]
       PROVE  /\ ~HasEnded(y)
              /\ \/ r = <<"hist", y>>
                 \/ \E t \in ran' : /\ t[1] = y /\ Action(t).dlm = "exclusive"
                                    /\ Under(r, Action(t).key)
  <2>1. CASE r \in DOMAIN before[y]
    <3>1. /\ ~HasEnded(y)
          /\ \/ r = <<"hist", y>>
             \/ \E t \in ran : t[1] = y /\ Action(t).dlm = "exclusive" /\ Under(r, Action(t).key)
      BY <2>1, Zenon DEF LogInv
    <3> QED BY <1>3, <3>1
  <2>2. CASE r \notin DOMAIN before[y]
    <3>1. y = x /\ r \in rows
      BY <1>5, <1>6, <1>10, <2>2
    <3> QED BY <1>1, <1>3, <1>9, <3>1
  <2> QED BY <2>1, <2>2
<1> QED BY <1>7, <1>8, <1>10 DEF LogInv

\* A transaction that ends, by commit or rollback, leaves an empty log.
LEMMA LogEnds ==
    ASSUME TypeOK, LogInv, NEW x \in TpccXct, ended' = Append(ended, x), ran' = ran,
           before' = [before EXCEPT ![x] = << >>]
    PROVE  LogInv'
<1>1. \A y : HasEnded(y)' <=> HasEnded(y) \/ y = x
  BY EndsAlone, FlowAssumption
<1>2. DOMAIN before' = TpccXct /\ DOMAIN before'[x] = {}
  BY DEF LogInv
<1>3. \A y \in TpccXct : y # x => before'[y] = before[y]
  BY DEF LogInv
<1>4. ASSUME NEW y \in TpccXct, NEW r \in DOMAIN before'[y]
      PROVE  /\ y # x /\ ~HasEnded(y)
             /\ \/ r = <<"hist", y>>
                \/ \E t \in ran : /\ t[1] = y /\ Action(t).dlm = "exclusive"
                                  /\ Under(r, Action(t).key)
  <2>1. y # x
    BY <1>2, <1>4
  <2>2. r \in DOMAIN before[y]
    BY <1>3, <1>4, <2>1
  <2> QED BY <2>1, <2>2, Zenon DEF LogInv
<1> QED BY <1>1, <1>2, <1>4 DEF LogInv

\* LogInv is inductive.
LEMMA LogStep == TypeOK /\ LogInv /\ [TpccNext]_<<vars, store>> => LogInv'
<1> SUFFICES ASSUME TypeOK, LogInv, [TpccNext]_<<vars, store>> PROVE LogInv'
  OBVIOUS
<1>1. ASSUME NEW s \in TpccStep, Exec(s) PROVE LogInv'
  BY <1>1, LogExec
<1>2. ASSUME NEW x \in TpccXct, CommitXct(x) \/ AbortXct(x) PROVE LogInv'
  BY <1>2, LogEnds DEF CommitXct, AbortXct, Commit, Abort
<1>3. CASE UNCHANGED <<vars, store>>
  BY <1>3 DEF vars, store, LogInv, HasEnded
<1> QED BY <1>1, <1>2, <1>3 DEF TpccNext

\* The log holds what it should of every reachable state.
LEMMA LogHolds == TpccSpec => [](TypeOK /\ Strict /\ LogInv)
<1>1. TpccInit => LogInv
  BY DEF TpccInit, LogInv
<1>2. TypeOK /\ LogInv /\ [TpccNext]_<<vars, store>> => LogInv'
  BY LogStep
<1>3. TpccSpec => [](TypeOK /\ Strict)
  BY TpccIsStrict, TypeCorrect, StrictHolds, PTL
<1> QED BY <1>1, <1>2, <1>3, PTL DEF TpccSpec

\* Two steps of unfinished transactions that ran, one of them a writer, have
\* different keys.
LEMMA KeysApart ==
    ASSUME TypeOK, Strict, NEW s \in ran, NEW t \in ran, s[1] # t[1],
           ~HasEnded(s[1]), ~HasEnded(t[1]), Action(t).dlm = "exclusive"
    PROVE  Action(s).key # Action(t).key
<1>1. /\ s \in TpccStep /\ t \in TpccStep
      /\ XctOf[s] = s[1] /\ XctOf[t] = t[1]
  BY FlowAssumption DEF TypeOK, TpccXctOf
<1>2. <<s, t>> \notin Clash \/ <<t, s>> \notin Clash
  BY <1>1 DEF Strict
<1> QED BY <1>1, <1>2, FlowAssumption DEF TpccClash

(***************************************************************************)
(* No action reads or overwrites what another transaction may still take   *)
(* back, and none writes what an unfinished one relies on: the rows in the *)
(* log of a transaction and the keys of all other unfinished ones that ran *)
(* are apart.  The key of an action is returned after the end of its       *)
(* transaction only (rvp.cpp:237-320).                                     *)
(***************************************************************************)
THEOREM NoDirtyDataHolds == TpccSpec => []NoDirtyData
<1>1. TypeOK /\ Strict /\ LogInv => NoDirtyData
  <2> SUFFICES ASSUME TypeOK, Strict, LogInv,
                      NEW s \in ran, NEW y \in TpccXct, s[1] # y, ~HasEnded(s[1]),
                      NEW r \in DOMAIN before[y], Under(r, Action(s).key)
               PROVE  FALSE
    BY Zenon DEF NoDirtyData
  <2>1. /\ ~HasEnded(y)
        /\ \/ r = <<"hist", y>>
           \/ \E t \in ran : t[1] = y /\ Action(t).dlm = "exclusive" /\ Under(r, Action(t).key)
    BY Zenon DEF LogInv
  <2>2. r # <<"hist", y>>
    BY DEF Under
  <2>3. PICK t \in ran : t[1] = y /\ Action(t).dlm = "exclusive" /\ Under(r, Action(t).key)
    BY <2>1, <2>2
  <2>4. Action(s).key = Action(t).key
    BY <2>3 DEF Under
  <2> QED BY <2>1, <2>3, <2>4, KeysApart
<1> QED BY <1>1, LogHolds, PTL

(***************************************************************************)
(* The rollback of a transaction (abort_xct() of the storage manager,      *)
(* called by the terminal rendezvous point, rvp.cpp:252)     undoes its    *)
(* own writes and nobody else's.                                           *)
(***************************************************************************)
THEOREM LogsApartHolds == TpccSpec => []LogsApart
<1>1. TypeOK /\ Strict /\ LogInv => LogsApart
  <2> SUFFICES ASSUME TypeOK, Strict, LogInv, NEW x \in TpccXct, NEW y \in TpccXct, x # y,
                      NEW r \in DOMAIN before[x], r \in DOMAIN before[y]
               PROVE  FALSE
    BY DEF LogsApart
  <2>1. /\ ~HasEnded(x)
        /\ \/ r = <<"hist", x>>
           \/ \E t \in ran : t[1] = x /\ Action(t).dlm = "exclusive" /\ Under(r, Action(t).key)
    BY Zenon DEF LogInv
  <2>2. /\ ~HasEnded(y)
        /\ \/ r = <<"hist", y>>
           \/ \E t \in ran : t[1] = y /\ Action(t).dlm = "exclusive" /\ Under(r, Action(t).key)
    BY Zenon DEF LogInv
  <2>3. CASE r = <<"hist", x>>
    <3>1. r # <<"hist", y>>
      BY <2>3
    <3>2. \A k : ~Under(r, k)
      BY <2>3 DEF Under
    <3> QED BY <2>2, <3>1, <3>2
  <2>4. CASE r # <<"hist", x>>
    <3>1. PICK s \in ran : s[1] = x /\ Action(s).dlm = "exclusive" /\ Under(r, Action(s).key)
      BY <2>1, <2>4
    <3>2. r # <<"hist", y>>
      BY <3>1 DEF Under
    <3>3. PICK t \in ran : t[1] = y /\ Action(t).dlm = "exclusive" /\ Under(r, Action(t).key)
      BY <2>2, <3>2
    <3>4. Action(s).key = Action(t).key
      BY <3>1, <3>3 DEF Under
    <3> QED BY <2>1, <2>2, <3>1, <3>3, <3>4, KeysApart
  <2> QED BY <2>3, <2>4
<1> QED BY <1>1, LogHolds, PTL

-----------------------------------------------------------------------------
(***************************************************************************)
(* What a step writes, row after row.  After() is defined by recursion on  *)
(* the number of writes; that the recursion has a value, and what it       *)
(* leaves alone, follow from a least number of writes where it fails.      *)
(***************************************************************************)
\* A set of numbers has a least one.
LEMMA LeastNatural ==
    ASSUME NEW S \in SUBSET Nat, S # {}
    PROVE  \E n \in S : \A m \in S : n <= m
<1> DEFINE Upto == {0 .. n : n \in S}
<1>1. Upto \subseteq FiniteSubsetsOf(Nat) /\ Upto # {}
  <2>1. ASSUME NEW n \in S PROVE 0 .. n \in FiniteSubsetsOf(Nat)
    <3>1. n \in Int /\ 0 \in Int /\ 0 .. n \in SUBSET Nat
      OBVIOUS
    <3>2. IsFiniteSet(0 .. n)
      BY <3>1, FS_Interval
    <3> QED
      BY <3>1, <3>2 DEF FiniteSubsetsOf
  <2> QED
    BY <2>1
<1>2. \E X \in Upto : \A Y \in Upto : ~(<<Y, X>> \in StrictSubsetOrdering(Nat))
  BY <1>1, WFMin, FS_StrictSubsetOrderingWellFounded
<1>3. PICK n \in S : \A m \in S : ~(<<0 .. m, 0 .. n>> \in StrictSubsetOrdering(Nat))
  BY <1>2
<1>4. ASSUME NEW m \in S, ~(n <= m) PROVE FALSE
  <2>1. 0 .. m \subseteq 0 .. n /\ n \in 0 .. n /\ n \notin 0 .. m
    BY <1>4
  <2>2. 0 .. m \in SUBSET Nat /\ 0 .. n \in SUBSET Nat
    BY <1>4
  <2> QED
    BY <1>3, <2>1, <2>2 DEF StrictSubsetOrdering
<1> QED
  BY <1>4

\* The database after n writes is the last of a chain of databases.
LEMMA AfterRuns ==
    ASSUME NEW s, NEW n \in Nat, NEW d, NEW m
    PROVE  \E f : /\ f[0] = d
                  /\ \A k \in 1 .. n : f[k] = Put(f[k - 1], Write(s, k, f[k - 1], m))
                  /\ After(s, n, d, m) = f[n]
<1> DEFINE Next1(k, e)  == Put(e, Write(s, k, e, m))
           Chain(k, g)  == g = [i \in 0 .. k |-> IF i = 0 THEN d ELSE Next1(i, g[i - 1])]
           Broken       == {k \in 0 .. n : ~\E g : Chain(k, g)}
<1>1. Broken = {}
  <2>1. SUFFICES ASSUME Broken # {} PROVE FALSE
    OBVIOUS
  <2>2. Broken \in SUBSET Nat
    OBVIOUS
  <2>3. PICK k \in Broken : \A j \in Broken : k <= j
    BY <2>1, <2>2, LeastNatural
  <2>4. k \in Nat /\ k \in 0 .. n /\ ~\E g : Chain(k, g)
    OBVIOUS
  <2>5. CASE k = 0
    <3>1. Chain(0, [i \in 0 .. 0 |-> d])
      OBVIOUS
    <3> QED BY <2>4, <2>5, <3>1
  <2>6. CASE k > 0
    <3>1. k - 1 \in 0 .. n /\ ~(k <= k - 1)
      BY <2>4, <2>6
    <3>2. PICK g : Chain(k - 1, g)
      BY <2>3, <3>1
    <3> DEFINE h == [i \in 0 .. k |-> IF i = k THEN Next1(k, g[k - 1]) ELSE g[i]]
    <3> HIDE DEF Next1
    <3>3. \A i \in 0 .. k : i # 0 => i - 1 \in 0 .. k - 1 /\ h[i - 1] = g[i - 1]
      BY <2>4, <2>6
    <3>4. \A i \in 0 .. k - 1 : g[i] = IF i = 0 THEN d ELSE Next1(i, g[i - 1])
      BY <3>2
    <3>5. \A i \in 0 .. k : h[i] = IF i = 0 THEN d ELSE Next1(i, h[i - 1])
      <4> SUFFICES ASSUME NEW i \in 0 .. k
                   PROVE  h[i] = IF i = 0 THEN d ELSE Next1(i, h[i - 1])
        OBVIOUS
      <4>1. CASE i = k
        BY <2>4, <2>6, <3>3, <4>1
      <4>2. CASE i # k
        <5>1. i \in 0 .. k - 1 /\ h[i] = g[i]
          BY <2>4, <4>2
        <5> HIDE DEF h
        <5> QED BY <3>3, <3>4, <5>1
      <4> QED BY <4>1, <4>2
    <3>6. h = [i \in 0 .. k |-> h[i]]
      OBVIOUS
    <3> HIDE DEF h
    <3>7. Chain(k, h)
      BY <3>5, <3>6
    <3> QED BY <2>4, <3>7
  <2> QED BY <2>4, <2>5, <2>6
<1>2. n \in 0 .. n
  OBVIOUS
<1>3. \E g : Chain(n, g)
  BY <1>1, <1>2
<1> DEFINE F == CHOOSE g : Chain(n, g)
<1>4. Chain(n, F)
  BY <1>3
<1>5. After(s, n, d, m) = F[n]
  BY DEF After
<1> HIDE DEF F, Next1
<1>6. \A k \in 0 .. n : F[k] = IF k = 0 THEN d ELSE Next1(k, F[k - 1])
  BY <1>4
<1>7. F[0] = d /\ \A k \in 1 .. n : F[k] = Next1(k, F[k - 1])
  BY <1>6
<1> QED BY <1>5, <1>7 DEF Next1

\* Row r is the same in databases d and e.
Same(d, e, r) ==
    /\ r \in DOMAIN d <=> r \in DOMAIN e
    /\ r \in DOMAIN d => e[r] = d[r]

\* What a step does not write stays as it was.
LEMMA AfterSame ==
    ASSUME NEW s, NEW n \in Nat, NEW d, NEW m, NEW r,
           \A k \in 1 .. n : \A e : Write(s, k, e, m).row # r
    PROVE  Same(d, After(s, n, d, m), r)
<1>1. PICK f : /\ f[0] = d
               /\ \A k \in 1 .. n : f[k] = Put(f[k - 1], Write(s, k, f[k - 1], m))
               /\ After(s, n, d, m) = f[n]
  BY AfterRuns
<1> DEFINE Differ == {k \in 0 .. n : ~Same(d, f[k], r)}
<1>2. SUFFICES ASSUME Differ # {} PROVE FALSE
  <2>1. n \in 0 .. n
    OBVIOUS
  <2> QED BY <1>1, <2>1
<1>3. Differ \in SUBSET Nat
  OBVIOUS
<1>4. PICK k \in Differ : \A j \in Differ : k <= j
  BY <1>2, <1>3, LeastNatural
<1>5. k # 0
  BY <1>1 DEF Same
<1>6. k \in 1 .. n /\ k - 1 \in 0 .. n /\ ~(k <= k - 1)
  BY <1>5
<1>7. Same(d, f[k - 1], r)
  BY <1>4, <1>6
<1>8. ~Same(d, f[k], r)
  OBVIOUS
<1>9. PICK w : w = Write(s, k, f[k - 1], m) /\ w.row # r
  BY <1>6
<1>10. f[k] = Put(f[k - 1], w)
  BY <1>1, <1>6, <1>9
<1> HIDE DEF Differ
<1> QED BY <1>7, <1>8, <1>9, <1>10 DEF Same, Put

-----------------------------------------------------------------------------
\* What a transaction read or wrote under the key of a step stays as it was
\* until it ends, unless it changes it itself.
Repeatable ==
    [][\A s \in ran : ~HasEnded(s[1])' =>
          \/ \E t \in ran' \ ran : t[1] = s[1]
          \/ \A r : Under(r, Action(s).key) => Same(db, db', r)]_<<vars, store>>

\* A step of another transaction changes nothing under the key of a step of
\* an unfinished one.
LEMMA ExecRepeats ==
    ASSUME TypeOK, NEW s \in ran, ~HasEnded(s[1]), NEW t \in TpccStep, Exec(t), t[1] # s[1],
           NEW r, Under(r, Action(s).key)
    PROVE  Same(db, db', r)
<1>1. PICK n \in 0 .. WriteCount(t) : db' = After(t, n, db, rvp[t[1]])
  BY Zenon DEF Exec
<1>2. n \in Nat
  OBVIOUS
<1>3. s \in TpccStep /\ XctOf[s] = s[1] /\ XctOf[t] = t[1]
  BY FlowAssumption DEF TypeOK, TpccXctOf
<1>4. <<s, t>> \notin Clash
  BY <1>3 DEF Exec, Run
<1>5. ~(Action(s).key = Action(t).key /\ Action(t).dlm = "exclusive")
  BY <1>3, <1>4, FlowAssumption DEF TpccClash
<1>6. ASSUME NEW k \in 1 .. n, NEW e, Write(t, k, e, rvp[t[1]]).row = r PROVE FALSE
  <2>1. r \in Written(t, n, e, rvp[t[1]])
    BY <1>6 DEF Written
  <2>2. Action(t).dlm = "exclusive" /\ (r = <<"hist", t[1]>> \/ Under(r, Action(t).key))
    BY <2>1, RowsOfStep
  <2>3. r # <<"hist", t[1]>>
    BY DEF Under
  <2>4. Action(s).key = Action(t).key
    BY <2>2, <2>3 DEF Under
  <2> QED BY <1>5, <2>2, <2>4
<1> QED BY <1>1, <1>2, <1>6, AfterSame

\* The rollback of another transaction changes nothing there either.
LEMMA AbortRepeats ==
    ASSUME TypeOK, NoDirtyData, NEW s \in ran, ~HasEnded(s[1]),
           NEW x \in TpccXct, AbortXct(x), x # s[1], NEW r, Under(r, Action(s).key)
    PROVE  Same(db, db', r)
<1>1. r \notin DOMAIN before[x]
  BY DEF NoDirtyData
<1>2. db' = Undone(db, before[x])
  BY DEF AbortXct
<1> QED BY <1>1, <1>2 DEF Undone, Same

(***************************************************************************)
(* Reads are repeatable, and writes stay: from the moment an action used   *)
(* the rows under its key, without a lock of the storage manager, until    *)
(* its transaction ends, no other transaction changes them, be it by its   *)
(* own actions or by its rollback.                                         *)
(***************************************************************************)
THEOREM RepeatableReads == TpccSpec => Repeatable
<1>1. TypeOK /\ NoDirtyData /\ [TpccNext]_<<vars, store>> =>
        [\A s \in ran : ~HasEnded(s[1])' =>
           \/ \E t \in ran' \ ran : t[1] = s[1]
           \/ \A r : Under(r, Action(s).key) => Same(db, db', r)]_<<vars, store>>
  <2> SUFFICES ASSUME TypeOK, NoDirtyData, TpccNext, NEW s \in ran, ~HasEnded(s[1])',
                      \A t \in ran' \ ran : t[1] # s[1],
                      NEW r, Under(r, Action(s).key)
               PROVE  Same(db, db', r)
    BY Zenon
  <2>1. ASSUME NEW t \in TpccStep, Exec(t) PROVE Same(db, db', r)
    <3>1. t \notin ran /\ ran' = ran \cup {t} /\ ended' = ended
      BY <2>1 DEF Exec, Run
    <3>2. t[1] # s[1] /\ ~HasEnded(s[1])
      BY <3>1 DEF HasEnded
    <3> QED BY <2>1, <3>2, ExecRepeats
  <2>2. ASSUME NEW x \in TpccXct, CommitXct(x) PROVE Same(db, db', r)
    BY <2>2 DEF CommitXct, Same
  <2>3. ASSUME NEW x \in TpccXct, AbortXct(x) PROVE Same(db, db', r)
    <3>1. ended' = Append(ended, x)
      BY <2>3 DEF AbortXct, Abort
    <3>2. \A y : HasEnded(y)' <=> HasEnded(y) \/ y = x
      BY <3>1, EndsAlone, FlowAssumption
    <3>3. ~HasEnded(s[1]) /\ x # s[1]
      BY <3>2
    <3> QED BY <2>3, <3>3, AbortRepeats
  <2> QED BY <2>1, <2>2, <2>3 DEF TpccNext
<1>2. TpccSpec => []TypeOK
  BY LogHolds, PTL
<1> QED BY <1>1, <1>2, NoDirtyDataHolds, PTL DEF TpccSpec, Repeatable

-----------------------------------------------------------------------------
(***************************************************************************)
(* What an action writes and finds depends on rows under its key only.     *)
(***************************************************************************)
\* The rows that an action looks up by their primary keys, for its n-th write
\* or for what it finds.
LookedUp(s, n, d, m) ==
    LET w == In(s).w
        D == In(s).d
    IN  CASE Name(s) = "upd_wh_pay"   -> {<<"wh", w>>}
          [] Name(s) \in {"upd_dist_pay", "upd_dist_nord", "r_dist_stock"} -> {<<"dist", w, D>>}
          [] Name(s) = "upd_cust_pay" -> {<<"cust">> \o CustomerDistrict(In(s)) \o <<In(s).c>>}
          [] Name(s) = "r_cust_ordst" -> {<<"cust", w, D, In(s).c>>}
          [] Name(s) = "r_ord_ordst"  -> {<<"ord", w, D, found_by_ord_ordst(In(s), d, m).o>>}
          [] Name(s) = "upd_sto_nord" -> {<<"stock", w, In(s).items[n].i>>}
          [] Name(s) = "r_st_stock"   -> {<<"stock", w, i>> : i \in m.items}
          [] OTHER -> {}

\* Databases d and e agree under key k.
Agree(d, e, k) == \A r : Under(r, k) => Same(d, e, r)

\* A row that is there and the same has the same value.
LEMMA AgreeOnRow ==
    ASSUME NEW d, NEW e, NEW k, Agree(d, e, k), NEW r \in DOMAIN d, Under(r, k)
    PROVE  e[r] = d[r]
BY DEF Agree, Same

\* A scan of a district's orders yields the same rows.
LEMMA AgreeOnOrders ==
    ASSUME NEW d, NEW e, NEW w, NEW D, Agree(d, e, <<"ord", w, D>>)
    PROVE  /\ RowsOf("ord", w, D, d) = RowsOf("ord", w, D, e)
           /\ \A r \in RowsOf("ord", w, D, d) : e[r] = d[r]
<1>1. ASSUME NEW r, r[1] = "ord", r[2] = w, r[3] = D PROVE Same(d, e, r)
  <2>1. Under(r, <<"ord", w, D>>)
    BY <1>1 DEF Under, KeyOfRow
  <2> QED BY <2>1 DEF Agree
<1>2. \A r : r \in RowsOf("ord", w, D, d) <=> r \in RowsOf("ord", w, D, e)
  BY <1>1 DEF RowsOf, Same
<1>3. \A r \in RowsOf("ord", w, D, d) : e[r] = d[r]
  BY <1>1 DEF RowsOf, Same
<1> QED BY <1>2, <1>3

\* A scan of a district's order lines yields the same rows.
LEMMA AgreeOnLines ==
    ASSUME NEW d, NEW e, NEW w, NEW D, Agree(d, e, <<"ol", w, D>>)
    PROVE  /\ RowsOf("ol", w, D, d) = RowsOf("ol", w, D, e)
           /\ \A r \in RowsOf("ol", w, D, d) : e[r] = d[r]
<1>1. ASSUME NEW r, r[1] = "ol", r[2] = w, r[3] = D PROVE Same(d, e, r)
  <2>1. Under(r, <<"ol", w, D>>)
    BY <1>1 DEF Under, KeyOfRow
  <2> QED BY <2>1 DEF Agree
<1>2. \A r : r \in RowsOf("ol", w, D, d) <=> r \in RowsOf("ol", w, D, e)
  BY <1>1 DEF RowsOf, Same
<1>3. \A r \in RowsOf("ol", w, D, d) : e[r] = d[r]
  BY <1>1 DEF RowsOf, Same
<1> QED BY <1>2, <1>3

\* The key of the action of a step.
LEMMA KeyOfStep ==
    ASSUME NEW s \in TpccStep
    PROVE  Action(s).key = calc_keys(Name(s), In(s).w, In(s).d)
BY StepKeyed DEF Keyed, Name

\* A step finds the same in databases that agree under its key.
LEMMA SameFound ==
    ASSUME NEW s \in TpccStep, NEW n, NEW d, NEW e, NEW m,
           Agree(d, e, Action(s).key), LookedUp(s, n, d, m) \subseteq DOMAIN d
    PROVE  Found(s, e, m) = Found(s, d, m)
<1> DEFINE w == In(s).w
           D == In(s).d
<1>1. Action(s).key = calc_keys(Name(s), w, D)
  BY KeyOfStep
<1>2. CASE Name(s) = "upd_dist_nord"
  <2>1. Action(s).key = <<"dist", w, D>> /\ <<"dist", w, D>> \in DOMAIN d
    BY <1>1, <1>2 DEF calc_keys, LookedUp
  <2>2. Under(<<"dist", w, D>>, <<"dist", w, D>>)
    BY DEF Under, KeyOfRow
  <2>3. e[<<"dist", w, D>>] = d[<<"dist", w, D>>]
    BY <2>1, <2>2, AgreeOnRow
  <2> QED BY <1>2, <2>3 DEF Found, found_by_dist_nord
<1>3. CASE Name(s) = "r_dist_stock"
  <2>1. Action(s).key = <<"dist", w, D>> /\ <<"dist", w, D>> \in DOMAIN d
    BY <1>1, <1>3 DEF calc_keys, LookedUp
  <2>2. Under(<<"dist", w, D>>, <<"dist", w, D>>)
    BY DEF Under, KeyOfRow
  <2>3. e[<<"dist", w, D>>] = d[<<"dist", w, D>>]
    BY <2>1, <2>2, AgreeOnRow
  <2> QED BY <1>3, <2>3 DEF Found, found_by_dist_stock
<1>4. CASE Name(s) = "r_cust_ordst"
  <2> DEFINE r == <<"cust", w, D, In(s).c>>
  <2>1. Action(s).key = <<"cust", w, D>> /\ r \in DOMAIN d
    BY <1>1, <1>4 DEF calc_keys, LookedUp
  <2>2. Under(r, <<"cust", w, D>>)
    BY DEF Under, KeyOfRow
  <2>3. e[r] = d[r]
    BY <2>1, <2>2, AgreeOnRow
  <2> QED BY <1>4, <2>3 DEF Found, found_by_cust_ordst
<1>5. CASE Name(s) = "r_ord_ordst"
  <2> DEFINE Mine(b) == {r[4] : r \in {q \in RowsOf("ord", w, D, b) : b[q].c = m.c}}
             last    == <<"ord", w, D, Max(Mine(d))>>
  <2>1. Action(s).key = <<"ord", w, D>>
    BY <1>1, <1>5 DEF calc_keys
  <2>2. Mine(e) = Mine(d)
    <3>1. Agree(d, e, <<"ord", w, D>>)
      BY <2>1
    <3>2. /\ RowsOf("ord", w, D, d) = RowsOf("ord", w, D, e)
          /\ \A r \in RowsOf("ord", w, D, d) : e[r] = d[r]
      BY <3>1, AgreeOnOrders
    <3> QED BY <3>2
  <2>3. found_by_ord_ordst(In(s), d, m).o = Max(Mine(d))
    BY DEF found_by_ord_ordst
  <2>4. last \in DOMAIN d
    BY <1>5, <2>3 DEF LookedUp
  <2>5. Under(last, <<"ord", w, D>>)
    BY DEF Under, KeyOfRow
  <2>6. e[last] = d[last]
    BY <2>1, <2>4, <2>5, AgreeOnRow
  <2>7. found_by_ord_ordst(In(s), e, m) = found_by_ord_ordst(In(s), d, m)
    BY <2>2, <2>6 DEF found_by_ord_ordst
  <2> QED BY <1>5, <2>7 DEF Found
<1>6. CASE Name(s) = "r_ol_ordst"
  <2>1. Action(s).key = <<"ol", w, D>>
    BY <1>1, <1>6 DEF calc_keys
  <2>2. RowsOf("ol", w, D, d) = RowsOf("ol", w, D, e)
    <3>1. Agree(d, e, <<"ol", w, D>>)
      BY <2>1
    <3> QED BY <3>1, AgreeOnLines
  <2>3. found_by_ol_ordst(In(s), e, m) = found_by_ol_ordst(In(s), d, m)
    BY <2>2, Zenon DEF found_by_ol_ordst
  <2> QED BY <1>6, <2>3 DEF Found
<1>7. CASE Name(s) = "r_ol_stock"
  <2>1. Action(s).key = <<"ol", w, D>>
    BY <1>1, <1>7 DEF calc_keys
  <2>2. /\ RowsOf("ol", w, D, d) = RowsOf("ol", w, D, e)
        /\ \A r \in RowsOf("ol", w, D, d) : e[r] = d[r]
    <3>1. Agree(d, e, <<"ol", w, D>>)
      BY <2>1
    <3> QED BY <3>1, AgreeOnLines
  <2>3. PICK recent : recent = {q \in RowsOf("ol", w, D, d) : q[4] \in m.next - 20 .. m.next}
    OBVIOUS
  <2>4. recent = {q \in RowsOf("ol", w, D, e) : q[4] \in m.next - 20 .. m.next}
    BY <2>2, <2>3, Zenon
  <2>5. \A r \in recent : e[r] = d[r]
    BY <2>2, <2>3
  <2>6. {e[r].i : r \in recent} = {d[r].i : r \in recent}
    BY <2>5
  <2>7. found_by_ol_stock(In(s), e, m) = found_by_ol_stock(In(s), d, m)
    BY <2>3, <2>4, <2>6, Zenon DEF found_by_ol_stock
  <2> QED BY <1>7, <2>7 DEF Found
<1>8. CASE Name(s) = "r_st_stock"
  <2>1. Action(s).key = <<"stock", w>>
    BY <1>1, <1>8 DEF calc_keys
  <2>2. ASSUME NEW i \in m.items PROVE e[<<"stock", w, i>>] = d[<<"stock", w, i>>]
    <3>1. <<"stock", w, i>> \in DOMAIN d
      BY <1>8, Zenon DEF LookedUp
    <3>2. Under(<<"stock", w, i>>, <<"stock", w>>)
      BY DEF Under, KeyOfRow
    <3> QED BY <2>1, <3>1, <3>2, AgreeOnRow
  <2>3. found_by_st_stock(In(s), e, m) = found_by_st_stock(In(s), d, m)
    BY <2>2 DEF found_by_st_stock
  <2> QED BY <1>8, <2>3 DEF Found
<1>9. CASE Name(s) \notin {"upd_dist_nord", "r_cust_ordst", "r_ord_ordst", "r_ol_ordst",
                           "r_dist_stock", "r_ol_stock", "r_st_stock"}
  BY <1>9 DEF Found
<1> QED BY <1>2, <1>3, <1>4, <1>5, <1>6, <1>7, <1>8, <1>9

\* What a step that writes looks up does not depend on the database.
LEMMA WritersLookUp ==
    ASSUME NEW s \in TpccStep, Name(s) \in Writer \cup {"ins_hist_pay"},
           NEW n, NEW d, NEW e, NEW m
    PROVE  LookedUp(s, n, d, m) = LookedUp(s, n, e, m)
BY DEF LookedUp, Writer

\* A step writes the same in databases that agree under its key.
LEMMA SameWrite ==
    ASSUME NEW s \in TpccStep, Name(s) \in Writer \cup {"ins_hist_pay"},
           NEW n, NEW d, NEW e, NEW m,
           Agree(d, e, Action(s).key), LookedUp(s, n, d, m) \subseteq DOMAIN d
    PROVE  Write(s, n, e, m) = Write(s, n, d, m)
<1> DEFINE w == In(s).w
           D == In(s).d
<1>1. Action(s).key = calc_keys(Name(s), w, D)
  BY KeyOfStep
<1>2. CASE Name(s) = "upd_wh_pay"
  <2>1. Action(s).key = <<"wh", w>> /\ <<"wh", w>> \in DOMAIN d
    BY <1>1, <1>2 DEF calc_keys, LookedUp
  <2>2. Under(<<"wh", w>>, <<"wh", w>>)
    BY DEF Under, KeyOfRow
  <2>3. e[<<"wh", w>>] = d[<<"wh", w>>]
    BY <2>1, <2>2, AgreeOnRow
  <2> QED BY <1>2, <2>3 DEF Write, upd_wh_pay
<1>3. CASE Name(s) \in {"upd_dist_pay", "upd_dist_nord"}
  <2>1. Action(s).key = <<"dist", w, D>> /\ <<"dist", w, D>> \in DOMAIN d
    BY <1>1, <1>3 DEF calc_keys, LookedUp
  <2>2. Under(<<"dist", w, D>>, <<"dist", w, D>>)
    BY DEF Under, KeyOfRow
  <2>3. e[<<"dist", w, D>>] = d[<<"dist", w, D>>]
    BY <2>1, <2>2, AgreeOnRow
  <2> QED BY <1>3, <2>3 DEF Write, upd_dist_pay, upd_dist_nord
<1>4. CASE Name(s) = "upd_cust_pay"
  <2> DEFINE r == <<"cust">> \o CustomerDistrict(In(s)) \o <<In(s).c>>
  <2>1. r \in DOMAIN d
    BY <1>4 DEF LookedUp
  <2>2. /\ Write(s, n, d, m).row = r
        /\ Under(r, Action(s).key)
    <3>1. Write(s, n, d, m).row = r
      BY <1>4 DEF Write, upd_cust_pay, Row
    <3>2. Name(s) \in Writer
      BY <1>4 DEF Writer
    <3> HIDE DEF r
    <3> QED BY <3>1, <3>2, StepKey DEF Under
  <2>3. e[r] = d[r]
    BY <2>1, <2>2, AgreeOnRow
  <2> QED BY <1>4, <2>3 DEF Write, upd_cust_pay
<1>5. CASE Name(s) = "upd_sto_nord"
  <2> DEFINE r == <<"stock", w, In(s).items[n].i>>
  <2>1. Action(s).key = <<"stock", w>> /\ r \in DOMAIN d
    BY <1>1, <1>5, Zenon DEF calc_keys, LookedUp
  <2>2. Under(r, <<"stock", w>>)
    BY DEF Under, KeyOfRow
  <2>3. e[r] = d[r]
    BY <2>1, <2>2, AgreeOnRow
  <2> QED BY <1>5, <2>3 DEF Write, upd_sto_nord
<1>6. CASE Name(s) \in {"ins_hist_pay", "ins_nord_nord", "ins_ord_nord", "ins_ol_nord"}
  BY <1>6 DEF Write
<1> QED BY <1>2, <1>3, <1>4, <1>5, <1>6 DEF Writer

\* Only writers write.
LEMMA OnlyWritersWrite ==
    ASSUME NEW s \in TpccStep, NEW n \in 0 .. WriteCount(s), n # 0
    PROVE  Name(s) \in Writer \cup {"ins_hist_pay"} /\ Action(s).dlm = "exclusive"
<1>1. Keyed(Action(s), In(s).w, In(s).d)
  BY StepKeyed
<1>2. Name(s) \notin Reader
  <2> SUFFICES ASSUME Name(s) \in Reader PROVE FALSE
    OBVIOUS
  <2>1. Action(s).dlm = "shared" /\ Name(s) \notin {"ins_ol_nord", "upd_sto_nord"}
    BY <1>1 DEF Keyed, Reader, Name
  <2> QED BY <2>1 DEF WriteCount
<1> QED BY <1>1, <1>2 DEF Keyed, Name

\* The rows that the first n writes of a step look up are there.
Finds(s, n, d, m) == \A j \in 1 .. n : LookedUp(s, j, d, m) \subseteq DOMAIN d

\* What is the same before a step stays the same after it, in databases that
\* agree under its key.
LEMMA SameAfter ==
    ASSUME NEW s \in TpccStep, NEW n \in 0 .. WriteCount(s), NEW d, NEW e, NEW m,
           Agree(d, e, Action(s).key), Finds(s, n, d, m),
           NEW r, Same(d, e, r)
    PROVE  Same(After(s, n, d, m), After(s, n, e, m), r)
<1>1. n \in Nat
  OBVIOUS
<1>2. PICK f : /\ f[0] = d
               /\ \A k \in 1 .. n : f[k] = Put(f[k - 1], Write(s, k, f[k - 1], m))
               /\ After(s, n, d, m) = f[n]
  BY <1>1, AfterRuns
<1>3. PICK g : /\ g[0] = e
               /\ \A k \in 1 .. n : g[k] = Put(g[k - 1], Write(s, k, g[k - 1], m))
               /\ After(s, n, e, m) = g[n]
  BY <1>1, AfterRuns
<1> DEFINE Good(k) == /\ DOMAIN d \subseteq DOMAIN f[k]
                      /\ \A q : Same(d, e, q) => Same(f[k], g[k], q)
           Bad     == {k \in 0 .. n : ~Good(k)}
<1>4. SUFFICES ASSUME Bad # {} PROVE FALSE
  <2>1. n \in 0 .. n
    BY <1>1
  <2> QED BY <1>2, <1>3, <2>1
<1>5. Bad \in SUBSET Nat
  OBVIOUS
<1>6. PICK k \in Bad : \A j \in Bad : k <= j
  BY <1>4, <1>5, LeastNatural
<1>7. Good(0)
  BY <1>2, <1>3
<1>8. ~Good(k) /\ k \in 0 .. n
  OBVIOUS
<1>9. k \in 1 .. n /\ k - 1 \in 0 .. n /\ ~(k <= k - 1)
  BY <1>7, <1>8
<1>10. Good(k - 1)
  BY <1>6, <1>9
<1> HIDE DEF Bad
<1>11. Agree(f[k - 1], g[k - 1], Action(s).key)
  BY <1>10 DEF Agree
<1>12. Name(s) \in Writer \cup {"ins_hist_pay"}
  BY <1>9, OnlyWritersWrite
<1>13. LookedUp(s, k, f[k - 1], m) \subseteq DOMAIN f[k - 1]
  <2>1. LookedUp(s, k, d, m) = LookedUp(s, k, f[k - 1], m)
    BY <1>12, WritersLookUp
  <2>2. LookedUp(s, k, d, m) \subseteq DOMAIN d
    BY <1>9 DEF Finds
  <2> QED BY <1>10, <2>1, <2>2
<1>14. PICK w : w = Write(s, k, f[k - 1], m) /\ w = Write(s, k, g[k - 1], m)
  BY <1>11, <1>12, <1>13, SameWrite
<1>15. f[k] = Put(f[k - 1], w) /\ g[k] = Put(g[k - 1], w)
  BY <1>2, <1>3, <1>9, <1>14
<1>16. DOMAIN d \subseteq DOMAIN f[k]
  BY <1>10, <1>15 DEF Put
<1>17. ASSUME NEW q, Same(d, e, q) PROVE Same(f[k], g[k], q)
  <2>1. Same(f[k - 1], g[k - 1], q)
    BY <1>10, <1>17
  <2> QED BY <1>15, <2>1 DEF Same, Put
<1> QED BY <1>8, <1>16, <1>17

\* A step changes nothing under the key of another transaction's step that it
\* does not conflict with, unless neither of them writes.
LEMMA NoConflictNoChange ==
    ASSUME NEW s \in TpccStep, NEW t \in TpccStep, s[1] # t[1], <<s, t>> \notin Clash,
           NEW k \in 0 .. WriteCount(t), NEW d, NEW o
    PROVE  Agree(d, After(t, k, d, o), Action(s).key)
<1> SUFFICES ASSUME NEW r, Under(r, Action(s).key) PROVE Same(d, After(t, k, d, o), r)
  BY DEF Agree
<1>1. ~(Action(s).key = Action(t).key /\ Action(t).dlm = "exclusive")
  BY FlowAssumption DEF TpccClash
<1>2. ASSUME NEW j \in 1 .. k, NEW e, Write(t, j, e, o).row = r PROVE FALSE
  <2>1. r \in Written(t, k, e, o)
    BY <1>2 DEF Written
  <2>2. Action(t).dlm = "exclusive" /\ (r = <<"hist", t[1]>> \/ Under(r, Action(t).key))
    BY <2>1, RowsOfStep
  <2>3. r # <<"hist", t[1]>>
    BY DEF Under
  <2> QED BY <1>1, <2>2, <2>3 DEF Under
<1>3. k \in Nat
  OBVIOUS
<1> QED BY <1>2, <1>3, AfterSame

\* No row is written by two steps of different transactions that do not conflict.
LEMMA WritesApart ==
    ASSUME NEW s \in TpccStep, NEW t \in TpccStep, s[1] # t[1], <<s, t>> \notin Clash,
           NEW n \in 0 .. WriteCount(s), NEW k \in 0 .. WriteCount(t), NEW m, NEW o,
           NEW i \in 1 .. n, NEW j \in 1 .. k, NEW d, NEW e
    PROVE  Write(s, i, d, m).row # Write(t, j, e, o).row
<1> SUFFICES ASSUME NEW r, r = Write(s, i, d, m).row, r = Write(t, j, e, o).row PROVE FALSE
  OBVIOUS
<1>1. r \in Written(s, n, d, m) /\ r \in Written(t, k, e, o)
  BY DEF Written
<1>2. Action(s).dlm = "exclusive" /\ (r = <<"hist", s[1]>> \/ Under(r, Action(s).key))
  BY <1>1, RowsOfStep
<1>3. r = <<"hist", t[1]>> \/ Under(r, Action(t).key)
  BY <1>1, RowsOfStep
<1>4. CASE r = <<"hist", s[1]>>
  <2>1. ~Under(r, Action(t).key) /\ r # <<"hist", t[1]>>
    BY <1>4 DEF Under
  <2> QED BY <1>3, <2>1
<1>5. CASE r # <<"hist", s[1]>>
  <2>1. Under(r, Action(s).key) /\ Under(r, Action(t).key)
    BY <1>2, <1>3, <1>5 DEF Under
  <2>2. Action(s).key = Action(t).key
    BY <2>1 DEF Under
  <2> QED BY <1>2, <2>2, FlowAssumption DEF TpccClash
<1> QED BY <1>4, <1>5

(***************************************************************************)
(* Actions of different transactions whose keys do not conflict commute,   *)
(* on any database in which the rows they look up are there: run in either *)
(* order they leave the same database, and each finds what it finds alone. *)
(* What DORA does not order (worker.cpp:200-305) needs no order: trading   *)
(* places with such steps turns a strict history into the serial one that  *)
(* AsIfSerial compares it with.                                            *)
(***************************************************************************)
THEOREM StepsCommute ==
    ASSUME NEW s \in TpccStep, NEW t \in TpccStep, s[1] # t[1],
           <<s, t>> \notin Clash, <<t, s>> \notin Clash,
           NEW n \in 0 .. WriteCount(s), NEW k \in 0 .. WriteCount(t), NEW d, NEW m, NEW o,
           Finds(s, n, d, m), Finds(t, k, d, o), LookedUp(s, n, d, m) \subseteq DOMAIN d
    PROVE  /\ Found(s, After(t, k, d, o), m) = Found(s, d, m)
           /\ \A r : Same(After(s, n, After(t, k, d, o), m), After(t, k, After(s, n, d, m), o), r)
<1> DEFINE dt == After(t, k, d, o)
           ds == After(s, n, d, m)
           A  == After(s, n, dt, m)
           B  == After(t, k, ds, o)
<1>1. Agree(d, dt, Action(s).key) /\ Agree(d, ds, Action(t).key)
  BY NoConflictNoChange
<1>2. Found(s, dt, m) = Found(s, d, m)
  BY <1>1, SameFound
<1>3. n \in Nat /\ k \in Nat
  OBVIOUS
<1>4. ASSUME NEW r PROVE Same(A, B, r)
  <2>1. CASE \A j \in 1 .. k : \A e : Write(t, j, e, o).row # r
    <3>1. Same(d, dt, r) /\ Same(ds, B, r)
      BY <1>3, <2>1, AfterSame
    <3>2. Same(ds, A, r)
      BY <1>1, <3>1, SameAfter
    <3> HIDE DEF ds, A, B
    <3> QED BY <3>1, <3>2 DEF Same
  <2>2. CASE \A j \in 1 .. n : \A e : Write(s, j, e, m).row # r
    <3>1. Same(d, ds, r) /\ Same(dt, A, r)
      BY <1>3, <2>2, AfterSame
    <3>2. Same(dt, B, r)
      BY <1>1, <3>1, SameAfter
    <3> HIDE DEF dt, A, B
    <3> QED BY <3>1, <3>2 DEF Same
  <2> QED BY <2>1, <2>2, WritesApart
<1> QED BY <1>2, <1>4

-----------------------------------------------------------------------------
(***************************************************************************)
(* What the log makes of all this: the value of a row without the writes   *)
(* of unfinished transactions, which is what a rollback returns to.        *)
(***************************************************************************)
\* Logged rows are in the database: no rollback loses the row of another.
LogHere == \A x \in TpccXct : DOMAIN before[x] \subseteq DOMAIN db

\* Which row the j-th write of a step is to does not depend on the database.
LEMMA RowFixed ==
    ASSUME NEW s \in TpccStep, NEW n \in 0 .. WriteCount(s), NEW j \in 1 .. n,
           NEW d, NEW e, NEW m
    PROVE  Write(s, j, d, m).row = Write(s, j, e, m).row
<1>1. Name(s) \in Writer \cup {"ins_hist_pay"}
  BY OnlyWritersWrite
<1>2. CASE Name(s) \in {"upd_wh_pay", "upd_dist_pay", "upd_cust_pay"}
  BY <1>2 DEF Write, upd_wh_pay, upd_dist_pay, upd_cust_pay, Row
<1>3. CASE Name(s) \in {"upd_dist_nord", "upd_sto_nord"}
  BY <1>3 DEF Write, upd_dist_nord, upd_sto_nord, Row
<1>4. CASE Name(s) \in {"ins_hist_pay", "ins_nord_nord", "ins_ord_nord", "ins_ol_nord"}
  BY <1>4 DEF Write
<1> QED BY <1>1, <1>2, <1>3, <1>4 DEF Writer

\* Writes only add rows, and a written row is there.
LEMMA AfterHere ==
    ASSUME NEW s \in TpccStep, NEW n \in 0 .. WriteCount(s), NEW d, NEW m
    PROVE  /\ DOMAIN d \subseteq DOMAIN After(s, n, d, m)
           /\ Written(s, n, d, m) \subseteq DOMAIN After(s, n, d, m)
<1>1. n \in Nat
  OBVIOUS
<1>2. PICK f : /\ f[0] = d
               /\ \A k \in 1 .. n : f[k] = Put(f[k - 1], Write(s, k, f[k - 1], m))
               /\ After(s, n, d, m) = f[n]
  BY <1>1, AfterRuns
<1> DEFINE Good(k) == /\ DOMAIN d \subseteq DOMAIN f[k]
                      /\ \A j \in 1 .. k : Write(s, j, d, m).row \in DOMAIN f[k]
           Bad     == {k \in 0 .. n : ~Good(k)}
<1>3. SUFFICES ASSUME Bad # {} PROVE FALSE
  <2>1. n \in 0 .. n
    BY <1>1
  <2> QED BY <1>2, <2>1 DEF Written
<1>4. Bad \in SUBSET Nat
  OBVIOUS
<1>5. PICK k \in Bad : \A j \in Bad : k <= j
  BY <1>3, <1>4, LeastNatural
<1>6. Good(0)
  BY <1>2
<1>7. ~Good(k) /\ k \in 0 .. n
  OBVIOUS
<1>8. k \in 1 .. n /\ k - 1 \in 0 .. n /\ ~(k <= k - 1)
  BY <1>6, <1>7
<1>9. Good(k - 1)
  BY <1>5, <1>8
<1> HIDE DEF Bad
<1>10. PICK w : f[k] = Put(f[k - 1], w) /\ w.row = Write(s, k, d, m).row
  BY <1>2, <1>8, RowFixed
<1>11. DOMAIN f[k] = DOMAIN f[k - 1] \cup {w.row}
  BY <1>10 DEF Put
<1>12. \A j \in 1 .. k : j = k \/ j \in 1 .. k - 1
  BY <1>8
<1>13. \A j \in 1 .. k : Write(s, j, d, m).row \in DOMAIN f[k]
  BY <1>9, <1>10, <1>11, <1>12
<1> QED BY <1>7, <1>9, <1>11, <1>13

\* A step that runs leaves what it logged in the database.
LEMMA HereExec ==
    ASSUME LogInv, LogHere, NEW s \in TpccStep, Exec(s)
    PROVE  LogHere'
<1>1. PICK x : x = s[1] /\ x \in TpccXct
  BY DEF TpccStep
<1>2. PICK n \in 0 .. WriteCount(s) :
         /\ db' = After(s, n, db, rvp[x])
         /\ before' = [before EXCEPT ![x] = Logged(@, db, Written(s, n, db, rvp[x]))]
  BY <1>1 DEF Exec
<1>3. PICK rows : rows = Written(s, n, db, rvp[x])
  OBVIOUS
<1>4. DOMAIN db \subseteq DOMAIN db' /\ rows \subseteq DOMAIN db'
  BY <1>2, <1>3, AfterHere
<1>5. DOMAIN before'[x] = DOMAIN before[x] \cup rows
  BY <1>1, <1>2, <1>3 DEF LogInv, Logged
<1>6. \A y \in TpccXct : y # x => before'[y] = before[y]
  BY <1>2 DEF LogInv
<1> QED BY <1>1, <1>4, <1>5, <1>6 DEF LogHere

\* A rollback takes away none of the rows that others logged.
LEMMA HereAbort ==
    ASSUME LogInv, LogHere, LogsApart, NEW x \in TpccXct, AbortXct(x)
    PROVE  LogHere'
<1>1. db' = Undone(db, before[x]) /\ before' = [before EXCEPT ![x] = << >>]
  BY DEF AbortXct
<1>2. DOMAIN before'[x] = {} /\ \A y \in TpccXct : y # x => before'[y] = before[y]
  BY <1>1 DEF LogInv
<1>3. ASSUME NEW y \in TpccXct, y # x, NEW r \in DOMAIN before[y] PROVE r \in DOMAIN db'
  <2>1. r \in DOMAIN db /\ r \notin DOMAIN before[x]
    BY <1>3 DEF LogHere, LogsApart
  <2> QED BY <1>1, <2>1 DEF Undone
<1> QED BY <1>2, <1>3 DEF LogHere

\* The log and the database fit in every reachable state.
LEMMA LogHereHolds == TpccSpec => []LogHere
<1>1. TpccInit => LogHere
  BY DEF TpccInit, LogHere
<1>2. LogInv /\ LogsApart /\ LogHere /\ [TpccNext]_<<vars, store>> => LogHere'
  <2> SUFFICES ASSUME LogInv, LogsApart, LogHere, [TpccNext]_<<vars, store>> PROVE LogHere'
    OBVIOUS
  <2>1. ASSUME NEW s \in TpccStep, Exec(s) PROVE LogHere'
    BY <2>1, HereExec
  <2>2. ASSUME NEW x \in TpccXct, CommitXct(x) PROVE LogHere'
    <3>1. before' = [before EXCEPT ![x] = << >>] /\ db' = db
      BY <2>2 DEF CommitXct
    <3>2. DOMAIN before'[x] = {} /\ \A y \in TpccXct : y # x => before'[y] = before[y]
      BY <3>1 DEF LogInv
    <3> QED BY <3>1, <3>2 DEF LogHere
  <2>3. ASSUME NEW x \in TpccXct, AbortXct(x) PROVE LogHere'
    BY <2>3, HereAbort
  <2>4. CASE UNCHANGED <<vars, store>>
    BY <2>4 DEF store, LogHere
  <2> QED BY <2>1, <2>2, <2>3, <2>4 DEF TpccNext
<1> QED BY <1>1, <1>2, LogHolds, LogsApartHolds, PTL DEF TpccSpec

\* A logged row has one settled value, that of its log.
LEMMA SettledLogged ==
    ASSUME NEW logs, NEW d, NEW x \in TpccXct, NEW r \in DOMAIN logs[x],
           \A y \in TpccXct : y # x => r \notin DOMAIN logs[y]
    PROVE  SettledIn(logs, d, r) = logs[x][r]
<1>1. PICK wrote : wrote = {y \in TpccXct : r \in DOMAIN logs[y]}
  OBVIOUS
<1>2. wrote = {x}
  BY <1>1
<1>3. SettledIn(logs, d, r) = logs[CHOOSE y \in wrote : TRUE][r]
  BY <1>1, <1>2 DEF SettledIn
<1> QED BY <1>2, <1>3

\* The settled value of a row that nobody logged is in the database.
LEMMA SettledUnlogged ==
    ASSUME NEW logs, NEW d, NEW r, \A y \in TpccXct : r \notin DOMAIN logs[y]
    PROVE  SettledIn(logs, d, r) = IF r \in DOMAIN d THEN d[r] ELSE NoRow
<1>1. PICK wrote : wrote = {y \in TpccXct : r \in DOMAIN logs[y]}
  OBVIOUS
<1>2. wrote = {}
  BY <1>1
<1> QED BY <1>1, <1>2 DEF SettledIn

\* A row keeps its settled value when neither the database nor a log changes it.
LEMMA SettledSame ==
    ASSUME NEW logs, NEW others, NEW d, NEW e, NEW r, Same(d, e, r),
           \A y \in TpccXct : /\ r \in DOMAIN others[y] <=> r \in DOMAIN logs[y]
                              /\ r \in DOMAIN logs[y] => others[y] = logs[y]
    PROVE  SettledIn(others, e, r) = SettledIn(logs, d, r)
<1>1. PICK wrote : wrote = {y \in TpccXct : r \in DOMAIN logs[y]}
  OBVIOUS
<1>2. wrote = {y \in TpccXct : r \in DOMAIN others[y]}
  BY <1>1
<1>3. CASE wrote # {}
  <2>1. PICK y \in wrote : y = CHOOSE z \in wrote : TRUE
    BY <1>3
  <2>2. others[y][r] = logs[y][r]
    BY <1>1, <2>1
  <2>3. SettledIn(logs, d, r) = logs[y][r]
    BY <1>1, <1>3, <2>1 DEF SettledIn
  <2>4. SettledIn(others, e, r) = others[y][r]
    BY <1>2, <1>3, <2>1 DEF SettledIn
  <2> QED BY <2>2, <2>3, <2>4
<1>4. CASE wrote = {}
  <2>1. SettledIn(logs, d, r) = IF r \in DOMAIN d THEN d[r] ELSE NoRow
    BY <1>1, <1>4 DEF SettledIn
  <2>2. SettledIn(others, e, r) = IF r \in DOMAIN e THEN e[r] ELSE NoRow
    BY <1>2, <1>4 DEF SettledIn
  <2> QED BY <2>1, <2>2 DEF Same
<1> QED BY <1>3, <1>4

\* What a step writes is not settled.
LEMMA ExecShowsNothing ==
    ASSUME LogInv, LogsApart, LogsApart', NEW s \in TpccStep, Exec(s), NEW r
    PROVE  SettledIn(before', db', r) = SettledIn(before, db, r)
<1>1. PICK x : x = s[1] /\ x \in TpccXct
  BY DEF TpccStep
<1>2. PICK n \in 0 .. WriteCount(s) :
         /\ db' = After(s, n, db, rvp[x])
         /\ before' = [before EXCEPT ![x] = Logged(@, db, Written(s, n, db, rvp[x]))]
  BY <1>1 DEF Exec
<1>3. PICK rows : rows = Written(s, n, db, rvp[x])
  OBVIOUS
<1>4. PICK log : log = before[x]
  OBVIOUS
<1>5. before'[x] = Logged(log, db, rows) /\ \A y \in TpccXct : y # x => before'[y] = before[y]
  BY <1>1, <1>2, <1>3, <1>4 DEF LogInv
<1>6. DOMAIN before'[x] = DOMAIN log \cup rows
  BY <1>5 DEF Logged
<1>7. CASE r \in DOMAIN log
  <2>1. before'[x][r] = log[r] /\ r \in DOMAIN before'[x]
    BY <1>5, <1>6, <1>7 DEF Logged
  <2>2. \A y \in TpccXct : y # x => r \notin DOMAIN before[y] /\ r \notin DOMAIN before'[y]
    BY <1>1, <1>4, <1>5, <1>7 DEF LogsApart
  <2>3. SettledIn(before, db, r) = log[r]
    BY <1>1, <1>4, <1>7, <2>2, SettledLogged
  <2>4. SettledIn(before', db', r) = log[r]
    BY <1>1, <2>1, <2>2, SettledLogged
  <2> QED BY <2>3, <2>4
<1>8. CASE r \notin DOMAIN log /\ r \in rows
  <2>1. r \in DOMAIN before'[x]
    BY <1>6, <1>8
  <2>2. \A y \in TpccXct : y # x => r \notin DOMAIN before'[y]
    BY <1>1, <2>1 DEF LogsApart
  <2>3. \A y \in TpccXct : r \notin DOMAIN before[y]
    BY <1>4, <1>5, <1>8, <2>2
  <2>4. SettledIn(before, db, r) = IF r \in DOMAIN db THEN db[r] ELSE NoRow
    BY <2>3, SettledUnlogged
  <2>5. SettledIn(before', db', r) = before'[x][r]
    <3>1. x \in TpccXct
      BY <1>1
    <3> QED BY <2>1, <2>2, <3>1, SettledLogged
  <2>6. before'[x][r] = IF r \in DOMAIN db THEN db[r] ELSE NoRow
    BY <1>5, <1>8 DEF Logged
  <2> QED BY <2>4, <2>5, <2>6
<1>9. CASE r \notin DOMAIN log /\ r \notin rows
  <2>1. \A y \in TpccXct : /\ r \in DOMAIN before'[y] <=> r \in DOMAIN before[y]
                           /\ r \in DOMAIN before[y] => before'[y] = before[y]
    BY <1>4, <1>5, <1>6, <1>9
  <2>2. Same(db, db', r)
    <3>1. ASSUME NEW j \in 1 .. n, NEW e PROVE Write(s, j, e, rvp[x]).row # r
      <4>1. Write(s, j, db, rvp[x]).row # r
        BY <1>3, <1>9 DEF Written
      <4> QED BY <4>1, RowFixed
    <3>2. n \in Nat
      OBVIOUS
    <3> QED BY <1>2, <3>1, <3>2, AfterSame
  <2> QED BY <2>1, <2>2, SettledSame
<1> QED BY <1>7, <1>8, <1>9

\* A rollback gives every row it touches its settled value.
LEMMA AbortShowsNothing ==
    ASSUME LogInv, LogsApart, LogHere, NEW x \in TpccXct, AbortXct(x), NEW r
    PROVE  SettledIn(before', db', r) = SettledIn(before, db, r)
<1>1. db' = Undone(db, before[x]) /\ before' = [before EXCEPT ![x] = << >>]
  BY DEF AbortXct
<1>2. DOMAIN before'[x] = {} /\ \A y \in TpccXct : y # x => before'[y] = before[y]
  BY <1>1 DEF LogInv
<1>3. CASE r \in DOMAIN before[x]
  <2>1. \A y \in TpccXct : y # x => r \notin DOMAIN before[y]
    BY <1>3 DEF LogsApart
  <2>2. SettledIn(before, db, r) = before[x][r]
    BY <1>3, <2>1, SettledLogged
  <2>3. \A y \in TpccXct : r \notin DOMAIN before'[y]
    BY <1>2, <2>1
  <2>4. SettledIn(before', db', r) = IF r \in DOMAIN db' THEN db'[r] ELSE NoRow
    BY <2>3, SettledUnlogged
  <2>5. r \in DOMAIN db
    BY <1>3 DEF LogHere
  <2>6. before[x][r] = IF r \in DOMAIN db' THEN db'[r] ELSE NoRow
    BY <1>1, <1>3, <2>5 DEF Undone
  <2> QED BY <2>2, <2>4, <2>6
<1>4. CASE r \notin DOMAIN before[x]
  <2>1. Same(db, db', r)
    BY <1>1, <1>4 DEF Undone, Same
  <2>2. \A y \in TpccXct : /\ r \in DOMAIN before'[y] <=> r \in DOMAIN before[y]
                           /\ r \in DOMAIN before[y] => before'[y] = before[y]
    BY <1>2, <1>4
  <2> QED BY <2>1, <2>2, SettledSame
<1> QED BY <1>3, <1>4

\* A commit shows what the transaction wrote, and nothing else.
LEMMA CommitShowsOwn ==
    ASSUME LogInv, CommittedEnded, NEW x \in TpccXct, CommitXct(x), NEW r,
           SettledIn(before', db', r) # SettledIn(before, db, r)
    PROVE  \E y \in committed' \ committed : r \in DOMAIN before[y]
<1>1. /\ before' = [before EXCEPT ![x] = << >>] /\ db' = db
      /\ committed' = committed \cup {x} /\ ~HasEnded(x)
  BY DEF CommitXct, Commit
<1>2. x \in committed' \ committed
  BY <1>1 DEF CommittedEnded
<1>3. DOMAIN before'[x] = {} /\ \A y \in TpccXct : y # x => before'[y] = before[y]
  BY <1>1 DEF LogInv
<1>4. Same(db, db', r)
  BY <1>1 DEF Same
<1>5. CASE r \notin DOMAIN before[x]
  <2>1. \A y \in TpccXct : /\ r \in DOMAIN before'[y] <=> r \in DOMAIN before[y]
                           /\ r \in DOMAIN before[y] => before'[y] = before[y]
    BY <1>3, <1>5
  <2> QED BY <1>4, <2>1, SettledSame
<1> QED BY <1>2, <1>5

(***************************************************************************)
(* Atomicity and isolation of the data: what an unfinished transaction     *)
(* writes can be taken back row by row, whatever the others do meanwhile,  *)
(* and a rollback (rvp.cpp:252) takes back exactly that.  The value of a   *)
(* row without the writes of unfinished transactions changes only when a   *)
(* transaction that wrote the row commits.                                 *)
(***************************************************************************)
THEOREM OnlyCommitsShowHolds == TpccSpec => OnlyCommitsShow
<1>1. LogInv /\ LogsApart /\ LogsApart' /\ LogHere /\ CommittedEnded
      /\ [TpccNext]_<<vars, store>> =>
        [\A r \in DOMAIN db \cup DOMAIN db' :
            SettledIn(before', db', r) # SettledIn(before, db, r) =>
                \E x \in committed' \ committed : r \in DOMAIN before[x]]_<<vars, store>>
  <2> SUFFICES ASSUME LogInv, LogsApart, LogsApart', LogHere, CommittedEnded, TpccNext,
                      NEW r, SettledIn(before', db', r) # SettledIn(before, db, r)
               PROVE  \E x \in committed' \ committed : r \in DOMAIN before[x]
    BY Zenon
  <2>1. ASSUME NEW s \in TpccStep, Exec(s) PROVE FALSE
    BY <2>1, ExecShowsNothing
  <2>2. ASSUME NEW x \in TpccXct, AbortXct(x) PROVE FALSE
    BY <2>2, AbortShowsNothing
  <2>3. ASSUME NEW x \in TpccXct, CommitXct(x)
        PROVE  \E y \in committed' \ committed : r \in DOMAIN before[y]
    BY <2>3, CommitShowsOwn
  <2> QED BY <2>1, <2>2, <2>3, Zenon DEF TpccNext
<1>2. TpccSpec => []CommittedEnded
  <2>1. IInv => CommittedEnded
    BY DEF IInv
  <2> QED BY <2>1, TpccIsStrict, IInvHolds, PTL
<1> QED BY <1>1, <1>2, LogHolds, LogsApartHolds, LogHereHolds, PTL DEF TpccSpec, OnlyCommitsShow
=============================================================================
