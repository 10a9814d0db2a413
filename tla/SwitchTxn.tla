----------------------------- MODULE SwitchTxn ------------------------------
(***************************************************************************)
(* The switch path of the YCSB and SmallBank transactions.  A transaction  *)
(* with on_switch set (benchmarks/ycsb/txn/multi.cpp,                      *)
(* benchmarks/smallbank/txn/*.cpp) calls atomic() (db/transaction.hpp),    *)
(* which encodes it with the workload's make_txn (txn/switch.cpp) into one *)
(* packet, sends it to the switch, and decodes the reply with parse_txn.  *)
(*                                                                         *)
(* YCSB's make_txn is the multi-pass planner: a tuple lives in one         *)
(* register stage of the pipeline, and a pass visits stages in ascending   *)
(* order, so the operations are sorted into passes and an instruction that *)
(* cannot join the current pass carries the stop bit (the packet           *)
(* recirculates).  SmallBank's make_txn writes a fixed instruction list    *)
(* per transaction type, the two-account ones with an egress instruction   *)
(* that finishes the transfer in a second pass.                            *)
(*                                                                         *)
(* The switch program itself is not in the repository.  The switch is     *)
(* modelled from the spec and from the comments of the encoders and of the *)
(* switch test (switch_src/03_tests): it applies a packet atomically, in   *)
(* instruction order.  YCSB registers start at zero; SmallBank accounts at *)
(* a given balance.                                                        *)
(***************************************************************************)
EXTENDS Integers, Sequences, SequencesExt, FiniteSets, TLC

CONSTANTS
    Worker,     \* worker threads, each with its own YCSBSwitchInfo
    HotKey,     \* hot tuple ids (the switch-resident rows)
    Value,      \* values a WRITE op carries (rnd.value<uint32_t>())
    Junk,       \* what a READ op's uninitialised value field can hold
    NUM_OPS,    \* NUM_OPS = YCSBDeclusteredLayout::NUM_INSTRS (8 in the code)
    NUM_REGS,   \* YCSBDeclusteredLayout::NUM_REGS (20 in the code)
    MaxTxns,    \* bound on the transactions each worker runs
    SBCustomer, \* hot SmallBank customer ids (rnd.hot_cid())
    SBInitBal,  \* the balance of every account when the model starts
    TPWarehouse,   \* TPC-C warehouse ids
    TP_DISTRICTS,  \* DISTRICTS_PER_WAREHOUSE (10 in the code)
    TP_NUM_ITEMS,  \* NUM_ITEMS (100000 in the code)
    TP_NUM_REGS,   \* TPCCDeclusteredLayout::NUM_REGS (10 in the code)
    TPHot,         \* the hot <<w_id, i_id>> stock tuples (TPCCHotInfo::is_hot)
    TPMaxLines,    \* ORDER_CNT_MAX (10 in the code; ORDER_CNT_MIN is 5)
    TPQty,         \* ol_quantity values (1..10 in the code)
    TPInitQty,     \* s_quantity of every stock when the model starts (10..100)
    TPAmount,      \* h_amount values (100..500000 in the code)
    NUM_FUTURES,   \* MessageHandler::NUM_FUTURES, the registry's buckets (1024)
    NUM_SLOTS,     \* Bucket::NUM_SLOTS = 64 / sizeof(Entry) (4 in the code)
    NoFuture       \* the nullptr a registry slot holds when it is free

ASSUME /\ HotKey \subseteq Nat /\ Value \subseteq Nat /\ Junk \subseteq Nat
       /\ NUM_OPS \in Nat \ {0} /\ NUM_REGS \in Nat \ {0}
       /\ Cardinality(HotKey) >= NUM_OPS
       /\ SBCustomer \subseteq Nat /\ SBInitBal \in Int
       /\ TPWarehouse \subseteq Nat /\ TPHot \subseteq TPWarehouse \X (0..TP_NUM_ITEMS-1)
       /\ TPMaxLines \in 1..15 /\ TPAmount \subseteq 1..2147483647
       /\ NUM_FUTURES \in Nat \ {0} /\ NUM_SLOTS \in Nat \ {0} /\ NoFuture \notin Worker

STOP_BIT == 128       \* InstrType_t::STOP().value
IDX_RANGE == 65536    \* reg_array_idx is a uint16_t

(***************************************************************************)
(* YCSBDeclusteredLayout::get_location: the "random layout" by modulo.     *)
(***************************************************************************)
GetLocationOffByOne(idx) ==
    LET stage == idx % (NUM_REGS + 1)
    IN  [stage_id      |-> stage,
         reg_array_id  |-> 0,
         reg_array_idx |-> idx % IDX_RANGE,
         lock_bit      |-> IF stage < NUM_REGS \div 2 THEN 1 ELSE 0]

GetLocation(idx) ==
    LET stage == idx % NUM_REGS
    IN  [stage_id      |-> stage,
         reg_array_id  |-> 0,
         reg_array_idx |-> idx % IDX_RANGE,
         lock_bit      |-> IF stage < NUM_REGS \div 2 THEN 1 ELSE 0]

(***************************************************************************)
(* The arguments ycsb_worker builds for a multi-op transaction: NUM_OPS    *)
(* distinct ids (a duplicate draw is retried), each op a READ or a WRITE   *)
(* (YCSB_MULTI_MIX_RW).  A READ op's value is never assigned.             *)
(***************************************************************************)
Op == [id : HotKey, mode : {"READ"}, value : Junk]
        \cup [id : HotKey, mode : {"WRITE"}, value : Value]

Args == {a \in [1..NUM_OPS -> Op] : IsInjective([i \in 1..NUM_OPS |-> a[i].id])}

(***************************************************************************)
(* make_txn, first loop: the per-stage counter gives each access its       *)
(* occurrence number id in its stage; then std::sort by (id, stage_id).    *)
(***************************************************************************)
UniqInstr(a) ==
    [i \in 1..NUM_OPS |->
        LET tl == GetLocation(a[i].id)
        IN  [id |-> Cardinality({j \in 1..i-1 :
                                    GetLocation(a[j].id).stage_id = tl.stage_id}),
             tl |-> tl, op |-> a[i]]]

AccessLess(x, y) ==
    IF x.id = y.id THEN x.tl.stage_id < y.tl.stage_id ELSE x.id < y.id

AccessesUnsorted(a) == UniqInstr(a)

Accesses(a) == SortSeq(UniqInstr(a), AccessLess)

(***************************************************************************)
(* make_txn, second loop: `is_conflict = stage_id <= last`, with last the  *)
(* previous access's stage (-1 before the first).                         *)
(***************************************************************************)

IsConflict(acc, j) == j > 1 /\ acc[j].tl.stage_id <= acc[j-1].tl.stage_id

InstrIdxRegArrayId(x) == x.tl.reg_array_id

InstrIdx(x) == x.tl.reg_array_idx

(***************************************************************************)
(* make_txn as a whole: info_t, one instr_t per access (REG(stage) with    *)
(* the stop bit on a conflict, the opcode, reg_array_idx and op.value),    *)
(* the closing STOP, then the header: multipass and the locks only when    *)
(* nb_conflict > 0 (SWITCH_NO_CONFLICT and YCSB_OPTI_TEST are false).      *)
(***************************************************************************)
MakeTxn(a) ==
    LET acc == Accesses(a)
        conflicts == {j \in 1..NUM_OPS : IsConflict(acc, j)}
        multi == conflicts # {}
        left == IF \E j \in 1..NUM_OPS : acc[j].tl.lock_bit = 0 THEN 1 ELSE 0
        right == IF \E j \in 1..NUM_OPS : acc[j].tl.lock_bit = 1 THEN 1 ELSE 0
    IN  [multipass |-> IF multi THEN 1 ELSE 0,
         recircs   |-> 0,
         left      |-> IF multi THEN left ELSE 0,
         right     |-> IF multi THEN right ELSE 0,
         instrs    |-> [j \in 1..NUM_OPS |->
                          [stage |-> acc[j].tl.stage_id,
                           stop  |-> j \in conflicts,
                           op    |-> acc[j].op.mode,
                           idx   |-> InstrIdx(acc[j]),
                           data  |-> acc[j].op.value]]]
(***************************************************************************)
(* The bytes of a packet: the packed, big-endian info_t (multipass,        *)
(* recircs, locks.left, locks.right), each packed instr_t (type, opcode,   *)
(* idx, data) and the one-byte STOP.                                       *)
(***************************************************************************)
Be16(x) == <<(x \div 256) % 256, x % 256>>
Be32(x) == <<(x \div 16777216) % 256, (x \div 65536) % 256, (x \div 256) % 256, x % 256>>

InstrType(ins) == 1 + ins.stage + (IF ins.stop THEN STOP_BIT ELSE 0)
OPCode(ins) == IF ins.op = "WRITE" THEN 1 ELSE 0

InstrBytes(ins) == <<InstrType(ins), OPCode(ins)>> \o Be16(ins.idx) \o Be32(ins.data)

Bytes(pkt) ==
    <<pkt.multipass>> \o Be32(pkt.recircs) \o <<pkt.left, pkt.right>>
        \o FoldLeft(LAMBDA b, ins : b \o InstrBytes(ins), <<>>, pkt.instrs)
        \o <<STOP_BIT>>

(***************************************************************************)
(* parse_txn(MultiOp): read NUM_OPS instr_t from the start of the reply    *)
(* and return each one's data field.  BufferReader::read hands out the     *)
(* bytes at its cursor as the type it is asked for.                        *)
(***************************************************************************)
InstrTSize == 8

ReadInstrData(bytes, i) ==
    SubSeq(bytes, (i - 1) * InstrTSize + 5, i * InstrTSize)

ParseTxn(bytes) == [i \in 1..NUM_OPS |-> ReadInstrData(bytes, i)]

(***************************************************************************)
(* The switch (from the spec): the whole packet in one step, instruction   *)
(* after instruction, each pass in ascending stage order.                  *)
(***************************************************************************)
Slot == (0..NUM_REGS-1) \X ({k % IDX_RANGE : k \in HotKey} \cup {0})

ApplyInstr(st, ins) ==
    LET s == <<ins.stage, ins.idx>>
    IN  IF ins.op = "WRITE"
          THEN [reg |-> [st.reg EXCEPT ![s] = ins.data],
                out |-> Append(st.out, ins)]
          ELSE [reg |-> st.reg,
                out |-> Append(st.out, [ins EXCEPT !.data = st.reg[s]])]

RunPacket(reg, pkt) == FoldLeft(ApplyInstr, [reg |-> reg, out |-> <<>>], pkt.instrs)

Passes(pkt) == 1 + Cardinality({j \in DOMAIN pkt.instrs : pkt.instrs[j].stop})

-----------------------------------------------------------------------------
(***************************************************************************)
(* SmallBank.  The generator's amounts (smallbank.cpp) and the layout's    *)
(* stage count (SmallbankDeclusteredLayout::NUM_REGS).                     *)
(***************************************************************************)
SB_NUM_REGS == 10
DEPOSIT_VAL == 130
PAYMENT_VAL == 500
SAVING_VAL == 2020
CHECK_VAL == 500

(***************************************************************************)
(* The arguments smallbank_worker draws for a hot transaction: the two     *)
(* accounts of Amalgamate and SendPayment are distinct.                    *)
(***************************************************************************)
SBArgs ==
    LET pair(k, v) == {[kind |-> k, c0 |-> x, c1 |-> y, val |-> v] :
                          <<x, y>> \in {p \in SBCustomer \X SBCustomer : p[1] # p[2]}}
        one(k, v) == {[kind |-> k, c0 |-> x, c1 |-> x, val |-> v] : x \in SBCustomer}
    IN  pair("Amalgamate", 0) \cup one("Balance", 0) \cup one("DepositChecking", DEPOSIT_VAL)
          \cup pair("SendPayment", PAYMENT_VAL) \cup one("TransactSaving", SAVING_VAL)
          \cup one("WriteCheck", CHECK_VAL)

(***************************************************************************)
(* SmallbankDeclusteredLayout::get_location(idx), the location it stores   *)
(* in its member tl.                                                       *)
(***************************************************************************)
SBLoc(idx) ==
    [stage_id |-> idx % SB_NUM_REGS,
     reg_array_idx |-> idx % IDX_RANGE,
     lock_bit |-> IF idx % SB_NUM_REGS < SB_NUM_REGS \div 2 THEN 1 ELSE 0]

(***************************************************************************)
(* get_location returns a reference to that member, and make_txn binds it  *)
(* with `auto&`: after the calls for ids[1], ids[2], ..., every reference  *)
(* names the one member, which holds the location of the last id.          *)
(***************************************************************************)
SBLocRefs(ids) == [i \in DOMAIN ids |-> SBLoc(ids[Len(ids)])]

(***************************************************************************)
(* lock_bits: a left lock for a location with lock_bit 0, else a right.    *)
(***************************************************************************)
SBLockBits(tls) ==
    [left |-> IF \E i \in DOMAIN tls : tls[i].lock_bit = 0 THEN 1 ELSE 0,
     right |-> IF \E i \in DOMAIN tls : tls[i].lock_bit # 0 THEN 1 ELSE 0]

(***************************************************************************)
(* One instruction: its type, the stop bit, the stage (the type's num), a  *)
(* second stage (c_type of the egress instructions), the c_id index and    *)
(* the amount.                                                             *)
(***************************************************************************)
SBIns(type, stop, stage, stage1, idx, v) ==
    [type |-> type, stop |-> stop, stage |-> stage, stage1 |-> stage1, idx |-> idx, v |-> v]

SBMakeAmalgamate(a) ==
    LET tl == SBLocRefs(<<a.c0, a.c1>>)
    IN  [multipass |-> 1, locks |-> SBLockBits(tl),
         instrs |-> << SBIns("AMALGAMATE", FALSE, tl[1].stage_id, 0, tl[1].reg_array_idx, 0),
                       SBIns("AMALGAMATE_EGRESS", TRUE, 0, tl[2].stage_id, tl[2].reg_array_idx, 0) >>]

SBMakeSendPaymentDeposit(a) ==
    LET tl == SBLocRefs(<<a.c0, a.c1>>)
    IN  [multipass |-> 1, locks |-> SBLockBits(tl),
         instrs |-> << SBIns("DEPOSIT_CHECKING", FALSE, tl[1].stage_id, 0, tl[1].reg_array_idx, a.val),
                       SBIns("SEND_PAYMENT_EGRESS", TRUE, tl[1].stage_id, tl[2].stage_id,
                             tl[2].reg_array_idx, a.val) >>]

SBMakeSendPayment(a) ==
    LET tl == SBLocRefs(<<a.c0, a.c1>>)
    IN  [multipass |-> 1, locks |-> SBLockBits(tl),
         instrs |-> << SBIns("DEPOSIT_CHECKING", FALSE, tl[1].stage_id, 0, tl[1].reg_array_idx, 0),
                       SBIns("SEND_PAYMENT_EGRESS", TRUE, tl[1].stage_id, tl[2].stage_id,
                             tl[2].reg_array_idx, a.val) >>]

SBMakeWriteCheck(a) ==
    LET tl == SBLoc(a.c0)
    IN  [multipass |-> 1, locks |-> SBLockBits(<<tl>>),
         instrs |-> << SBIns("BALANCE", FALSE, tl.stage_id, 0, tl.reg_array_idx, 0),
                       SBIns("WRITE_CHECK_EGRESS", TRUE, 0, 0, tl.reg_array_idx, a.val) >>]

(***************************************************************************)
(* SmallbankSwitchInfo::make_txn, one overload per transaction type; the   *)
(* single-instruction ones leave info_t at its defaults.                   *)
(***************************************************************************)
SBMakeTxn(a) ==
    LET tl == SBLoc(a.c0)
        single(type, v) == [multipass |-> 0, locks |-> [left |-> 0, right |-> 0],
                            instrs |-> << SBIns(type, FALSE, tl.stage_id, 0, tl.reg_array_idx, v) >>]
    IN  CASE a.kind = "Amalgamate"      -> SBMakeAmalgamate(a)
          [] a.kind = "Balance"         -> single("BALANCE", 0)
          [] a.kind = "DepositChecking" -> single("DEPOSIT_CHECKING", a.val)
          [] a.kind = "SendPayment"     -> SBMakeSendPayment(a)
          [] a.kind = "TransactSaving"  -> single("TRANSACT_SAVING", a.val)
          [] a.kind = "WriteCheck"      -> SBMakeWriteCheck(a)

(***************************************************************************)
(* The switch's SmallBank instructions, from the comments of the encoders  *)
(* and of switch_src/03_tests/smallbank.cpp.  An account is one register   *)
(* slot (stage, index) holding its saving and checking balances.  `carry`  *)
(* is what the packet carries to its egress instruction: the sum BALANCE   *)
(* or AMALGAMATE read, or the checking balance a deposit returned ("deposit *)
(* 0 returns current value"); `loc` is the slot that instruction used.     *)
(* SEND_PAYMENT_EGRESS "aborts if (x1 < V)", x1 being the payer's checking *)
(* balance, else moves V from that slot to the payee; WRITE_CHECK_EGRESS   *)
(* takes V, or V + 1 when the balance read falls short (the host body's    *)
(* rule).  After an abort nothing more changes.                            *)
(***************************************************************************)
SBApply(st, ins) ==
    LET s == <<ins.stage, ins.idx>>
        bal == st.reg[s]
    IN  IF st.abort THEN st
        ELSE CASE ins.type = "BALANCE" ->
                    [st EXCEPT !.carry = bal.saving + bal.checking, !.loc = s]
               [] ins.type = "DEPOSIT_CHECKING" ->
                    [st EXCEPT !.reg[s].checking = @ + ins.v,
                               !.carry = bal.checking + ins.v, !.loc = s]
               [] ins.type = "TRANSACT_SAVING" ->
                    [st EXCEPT !.reg[s].saving = @ + ins.v, !.loc = s]
               [] ins.type = "AMALGAMATE" ->
                    [st EXCEPT !.reg[s] = [saving |-> 0, checking |-> 0],
                               !.carry = bal.saving + bal.checking, !.loc = s]
               [] ins.type = "AMALGAMATE_EGRESS" ->
                    [st EXCEPT !.reg[<<ins.stage1, ins.idx>>].checking = @ + st.carry]
               [] ins.type = "SEND_PAYMENT_EGRESS" ->
                    IF st.carry < ins.v
                      THEN [st EXCEPT !.abort = TRUE]
                      ELSE LET paid == [st.reg EXCEPT ![st.loc].checking = @ - ins.v]
                           IN  [st EXCEPT !.reg = [paid EXCEPT ![<<ins.stage1, ins.idx>>].checking
                                                                   = @ + ins.v]]
               [] ins.type = "WRITE_CHECK_EGRESS" ->
                    [st EXCEPT !.reg[<<st.loc[1], ins.idx>>].checking =
                                   @ - (IF st.carry < ins.v THEN ins.v + 1 ELSE ins.v)]

SBRunPacket(reg, pkt) ==
    FoldLeft(SBApply, [reg |-> reg, carry |-> 0, loc |-> <<0, 0>>, abort |-> FALSE], pkt.instrs)

(***************************************************************************)
(* What the transaction does on the host path (the body of each            *)
(* Smallbank::operator() after its on_switch branch), on the balances of   *)
(* the customers: a rollback leaves them unchanged.                        *)
(***************************************************************************)
SBAmalgamate(bal, a) ==
    [bal EXCEPT ![a.c1].checking = @ + bal[a.c0].saving + bal[a.c0].checking,
                ![a.c0] = [saving |-> 0, checking |-> 0]]

SBDepositChecking(bal, a) ==
    IF a.val < 0 THEN bal ELSE [bal EXCEPT ![a.c0].checking = @ + a.val]

SBSendPayment(bal, a) ==
    IF bal[a.c0].checking < a.val THEN bal
    ELSE [bal EXCEPT ![a.c0].checking = @ - a.val, ![a.c1].checking = @ + a.val]

SBTransactSaving(bal, a) ==
    IF bal[a.c0].saving + a.val < 0 THEN bal ELSE [bal EXCEPT ![a.c0].saving = @ + a.val]

SBWriteCheck(bal, a) ==
    LET x == a.c0
    IN  [bal EXCEPT ![x].checking =
            @ - (IF bal[x].saving + bal[x].checking < a.val THEN a.val + 1 ELSE a.val)]

SBHost(bal, a) ==
    CASE a.kind = "Amalgamate"      -> SBAmalgamate(bal, a)
      [] a.kind = "Balance"         -> bal
      [] a.kind = "DepositChecking" -> SBDepositChecking(bal, a)
      [] a.kind = "SendPayment"     -> SBSendPayment(bal, a)
      [] a.kind = "TransactSaving"  -> SBTransactSaving(bal, a)
      [] a.kind = "WriteCheck"      -> SBWriteCheck(bal, a)

(***************************************************************************)
(* The register slot of customer c.                                        *)
(***************************************************************************)
SBSlot(c) == <<SBLoc(c).stage_id, SBLoc(c).reg_array_idx>>

-----------------------------------------------------------------------------
(***************************************************************************)
(* TPC-C.  The table keys (tpcc/table.hpp) and the layout.                 *)
(***************************************************************************)
TPStockPk(w, i) == w * TP_NUM_ITEMS + i

TPDistrictPk(w, d) == w * TP_DISTRICTS + d

TPGetLocation(idx) ==
    LET stage == idx % TP_NUM_REGS
    IN  [stage_id      |-> stage,
         reg_array_id  |-> 0,
         reg_array_idx |-> idx % IDX_RANGE,
         lock_bit      |-> IF stage < TP_NUM_REGS \div 2 THEN 1 ELSE 0]

(***************************************************************************)
(* tpcc_worker's NewOrder: 1..TPMaxLines order lines of the home           *)
(* warehouse or, rarely, another one; a duplicate (i_id, supply warehouse) *)
(* is drawn again, and the lines are sorted by i_id (std::sort, so lines   *)
(* with equal i_id come in either order).  The 1% of orders with an        *)
(* invalid last item roll back at the item read, before the switch is      *)
(* involved, and are left out.  Payment: a district of the home warehouse  *)
(* and an amount.                                                          *)
(***************************************************************************)
TPLine == [i_id : 0..TP_NUM_ITEMS-1, supply_w : TPWarehouse, qty : TPQty]

TPLines ==
    UNION {{ls \in [1..n -> TPLine] :
               /\ \A j, k \in 1..n : j < k => ls[j].i_id <= ls[k].i_id
               /\ IsInjective([j \in 1..n |-> <<ls[j].i_id, ls[j].supply_w>>])} :
           n \in 1..TPMaxLines}

TPNewOrderArgs ==
    {[kind |-> "NewOrder", w_id |-> w, d_id |-> d, lines |-> ls, h |-> 0] :
        w \in TPWarehouse, d \in 0..TP_DISTRICTS-1, ls \in TPLines}

TPPaymentArgs ==
    {[kind |-> "Payment", w_id |-> w, d_id |-> d, lines |-> <<>>, h |-> h] :
        w \in TPWarehouse, d \in 0..TP_DISTRICTS-1, h \in TPAmount}

TPArgs == TPNewOrderArgs \cup TPPaymentArgs

(***************************************************************************)
(* make_txn(NewOrder), first loop and sort: the same planner as YCSB's,    *)
(* over the stock keys of the order lines.                                 *)
(***************************************************************************)
TPUniqInstr(a) ==
    [i \in DOMAIN a.lines |->
        LET loc(l) == TPGetLocation(TPStockPk(l.supply_w, l.i_id))
        IN  [id |-> Cardinality({j \in 1..i-1 :
                                    loc(a.lines[j]).stage_id = loc(a.lines[i]).stage_id}),
             tl |-> loc(a.lines[i]), op |-> a.lines[i]]]

TPAccesses(a) == SortSeq(TPUniqInstr(a), AccessLess)

TPStockIdxRegArrayId(x) == x.tl.reg_array_id

TPStockIdx(x) == x.tl.reg_array_idx

(***************************************************************************)
(* make_txn(NewOrder): info_t, one no_stock_t per line (NO_STOCK(stage)    *)
(* with the stop bit on a conflict, s_id, ol_quantity and is_remote, which *)
(* is written as the constant 1), new_order_t with the district key "always *)
(* last", STOP; multipass and locks only when nb_conflict > 0.             *)
(***************************************************************************)
TPMakeNewOrder(a) ==
    LET acc == TPAccesses(a)
        n == Len(acc)
        conflicts == {j \in 1..n : IsConflict(acc, j)}
        multi == conflicts # {}
    IN  [kind      |-> "NEW_ORDER",
         multipass |-> IF multi THEN 1 ELSE 0,
         left      |-> IF multi /\ \E j \in 1..n : acc[j].tl.lock_bit = 0 THEN 1 ELSE 0,
         right     |-> IF multi /\ \E j \in 1..n : acc[j].tl.lock_bit # 0 THEN 1 ELSE 0,
         instrs    |-> [j \in 1..n |->
                          [stage |-> acc[j].tl.stage_id, stop |-> j \in conflicts,
                           idx |-> TPStockIdx(acc[j]), qty |-> acc[j].op.qty,
                           is_remote |-> 1]],
         w_idx     |-> 0,
         d_idx     |-> TPDistrictPk(a.w_id, a.d_id) % IDX_RANGE,
         h         |-> 0]

(***************************************************************************)
(* Payment::get_h_amount: memcpy of the low four bytes of the int64.       *)
(***************************************************************************)

TPLow32(h) == (h % 65536) + 65536 * ((h \div 65536) % 65536)

(***************************************************************************)
(* make_txn(Payment): one payment_t with the uint16 warehouse and district *)
(* keys and the amount.                                                    *)
(***************************************************************************)
TPMakePayment(a) ==
    [kind |-> "PAYMENT", multipass |-> 0, left |-> 0, right |-> 0, instrs |-> <<>>,
     w_idx |-> a.w_id % IDX_RANGE,
     d_idx |-> TPDistrictPk(a.w_id, a.d_id) % IDX_RANGE,
     h |-> TPLow32(a.h)]

(***************************************************************************)
(* The initial rows (tpcc.cpp): w_ytd, d_ytd, d_next_o_id; stock rows have *)
(* s_ytd, s_order_cnt and s_remote_cnt 0.                                  *)
(***************************************************************************)
W_YTD_INIT == 30000000
D_YTD_INIT == 3000000
D_NEXT_O_ID_INIT == 3001

TPDistrictInit == [d_next_o_id |-> D_NEXT_O_ID_INIT, d_ytd |-> D_YTD_INIT]

TPSlot(p) == LET tl == TPGetLocation(TPStockPk(p[1], p[2]))
             IN  <<tl.stage_id, tl.reg_array_idx>>

TPStockInit == [s_ytd |-> 0, s_quantity |-> TPInitQty, s_order_cnt |-> 0, s_remote_cnt |-> 0]

(***************************************************************************)
(* The switch's TPC-C registers, from the comment of tpcc/txn/switch.cpp:  *)
(* PAYMENT adds h_amount to w_ytd (reg_0) and d_ytd (reg_1); NEW_ORDER     *)
(* adds 1 to d_next_o_id (reg_2); NO_STOCK updates the stock slot: s_ytd   *)
(* += ol_quantity, s_quantity by the TPC-C rule, s_order_cnt += 1 and      *)
(* s_remote_cnt += is_remote.                                              *)
(***************************************************************************)
TPApplyStock(stock, ins) ==
    LET s == <<ins.stage, ins.idx>>
        q == stock[s].s_quantity
    IN  [stock EXCEPT ![s] = [s_ytd |-> @.s_ytd + ins.qty,
                              s_quantity |-> IF q >= ins.qty + 10 THEN q - ins.qty
                                                                  ELSE q + 91 - ins.qty,
                              s_order_cnt |-> @.s_order_cnt + 1,
                              s_remote_cnt |-> @.s_remote_cnt + ins.is_remote]]

TPRunPacket(reg, pkt) ==
    IF pkt.kind = "PAYMENT"
      THEN [reg EXCEPT !.warehouse[pkt.w_idx] = @ + pkt.h,
                       !.district[pkt.d_idx].d_ytd = @ + pkt.h]
      ELSE [reg EXCEPT !.stock = FoldLeft(TPApplyStock, reg.stock, pkt.instrs),
                       !.district[pkt.d_idx].d_next_o_id = @ + 1]

(***************************************************************************)
(* The host path's updates of the same rows: TPCC::operator()(NewOrder&)    *)
(* with on_switch false (d_next_o_id += 1, and per line s_ytd, s_quantity, *)
(* s_order_cnt, and s_remote_cnt when the supply warehouse is not the home *)
(* one), and operator()(Payment&) (w_ytd and d_ytd += h_amount).  Stock is *)
(* kept per <<w_id, i_id>>, districts per <<w_id, d_id>>.                   *)
(***************************************************************************)
TPStockUpdate(s, l, w_id) ==
    [s_ytd |-> s.s_ytd + l.qty,
     s_quantity |-> IF s.s_quantity >= l.qty + 10 THEN s.s_quantity - l.qty
                                                   ELSE s.s_quantity + 91 - l.qty,
     s_order_cnt |-> s.s_order_cnt + 1,
     s_remote_cnt |-> s.s_remote_cnt + (IF l.supply_w # w_id THEN 1 ELSE 0)]

TPHostNewOrder(abs, a) ==
    [abs EXCEPT
        !.stock = [p \in DOMAIN abs.stock |->
                     IF \E j \in DOMAIN a.lines : <<a.lines[j].supply_w, a.lines[j].i_id>> = p
                       THEN TPStockUpdate(abs.stock[p],
                              a.lines[CHOOSE j \in DOMAIN a.lines :
                                         <<a.lines[j].supply_w, a.lines[j].i_id>> = p], a.w_id)
                       ELSE abs.stock[p]],
        !.district[<<a.w_id, a.d_id>>].d_next_o_id = @ + 1]

TPHostPayment(abs, a) ==
    [abs EXCEPT !.warehouse[a.w_id] = @ + a.h,
                !.district[<<a.w_id, a.d_id>>].d_ytd = @ + a.h]

TPHost(abs, a) == IF a.kind = "NewOrder" THEN TPHostNewOrder(abs, a) ELSE TPHostPayment(abs, a)

-----------------------------------------------------------------------------
(***************************************************************************)
(* The future registry of a node (comm/msg_handler.cpp and                 *)
(* datastructures/stupid_hashmap.hpp).  set_new_id draws the packet's      *)
(* msg_id from the node's counter; add_future inserts the future into      *)
(* open_futures, a StupidHashMap of NUM_FUTURES buckets of NUM_SLOTS       *)
(* entries; the message handler erases the entry of the reply's msg_id     *)
(* and hands the packet to the future it held.  A future is named by the   *)
(* worker that waits on it: a worker has at most one switch future         *)
(* outstanding.                                                            *)
(***************************************************************************)
Bucket(id) == id % NUM_FUTURES

\* Entry{}: k is value-initialised to 0, v is nullptr.
NoEntry == [k |-> 0, v |-> NoFuture]

NextIdStale(id) == id

\* set_new_id: next_id.fetch_add(1).
NextId(id) == id + 1

\* insert(): the slots whose compare_exchange from nullptr can succeed.
FreeSlots(t, id) == {i \in 1..NUM_SLOTS : t[Bucket(id)][i].v = NoFuture}

\* erase(): the first slot of the bucket whose k equals the id has its v
\* exchanged with nullptr; no such slot throws "Key not found".
Erase(t, id) ==
    LET b   == Bucket(id)
        hit == {i \in 1..NUM_SLOTS : t[b][i].k = id}
    IN  IF hit = {} THEN [found |-> FALSE, v |-> NoFuture, ht |-> t]
        ELSE [found |-> TRUE, v |-> t[b][Min(hit)].v,
              ht |-> [t EXCEPT ![b][Min(hit)].v = NoFuture]]

-----------------------------------------------------------------------------
VARIABLES
    pc,      \* pc[w]: "idle", "sent"/"sb_sent" (awaiting the reply), "replied"/"sb_replied"
    arg,     \* arg[w]: the MultiOp being run (the last one once idle)
    req,     \* req[w]: the packet make_txn wrote
    reply,   \* reply[w]: the packet the switch sent back
    out,     \* out[w]: MultiOpOut::values, as the bytes decoded
    ntxns,   \* ntxns[w]: transactions worker w committed
    reg,     \* the switch registers, by (stage, index)
    kv,      \* kv[k]: the value last written to tuple k on the switch
    seen,    \* seen[w]: kv when the switch ran w's packet
    sbArg,   \* sbArg[w]: the SmallBank transaction being run (the last one once idle)
    sbReq,   \* sbReq[w]: the packet SmallbankSwitchInfo::make_txn wrote
    sbAbort, \* sbAbort[w]: the reply began with ABORT
    sbReg,   \* sbReg[s]: the saving and checking balances in slot s
    sbAbs,   \* sbAbs[c]: customer c's balances had every transaction run its host body
    tpArg,   \* tpArg[w]: the TPC-C transaction being run (the last one once idle)
    tpReq,   \* tpReq[w]: the packet TPCCSwitchInfo::make_txn wrote
    tpReg,   \* the switch's TPC-C registers: stock slots, districts, warehouses
    tpAbs,   \* the same rows had every transaction run its host-path updates
    tpHist,  \* the history rows Payment inserted, in commit order
    next_id, \* MessageHandler::next_id of the workers' node
    ht,      \* open_futures.ht[b][i]: the entry [k, v] of slot i of bucket b
    myid,    \* myid[w]: the msg_id set_new_id gave w's current packet
    wire,    \* the switch's replies not yet handled: [id, owner of the packet]
    got,     \* got[w]: owner of the packet set_pkt gave w's future, or NoFuture
    fault    \* an exception escaped a thread ("Bucket full", "Key not found")

yvars == <<arg, req, reply, out, kv, seen>>
sbvars == <<sbArg, sbReq, sbAbort, sbReg, sbAbs>>
tpvars == <<tpArg, tpReq, tpReg, tpAbs, tpHist>>
regvars == <<next_id, ht, myid, wire, got, fault>>
vars == <<pc, ntxns, reg, yvars, sbvars, tpvars, regvars>>

NoPkt == [multipass |-> 0, recircs |-> 0, left |-> 0, right |-> 0, instrs |-> <<>>]
NoSBArg == [kind |-> "None", c0 |-> 0, c1 |-> 0, val |-> 0]
NoSBPkt == [multipass |-> 0, locks |-> [left |-> 0, right |-> 0], instrs |-> <<>>]
NoTPArg == [kind |-> "None", w_id |-> 0, d_id |-> 0, lines |-> <<>>, h |-> 0]
NoTPPkt == [kind |-> "None", multipass |-> 0, left |-> 0, right |-> 0, instrs |-> <<>>,
            w_idx |-> 0, d_idx |-> 0, h |-> 0]

Init ==
    /\ pc = [w \in Worker |-> "idle"]
    /\ arg = [w \in Worker |-> <<>>]
    /\ req = [w \in Worker |-> NoPkt]
    /\ reply = [w \in Worker |-> NoPkt]
    /\ out = [w \in Worker |-> <<>>]
    /\ ntxns = [w \in Worker |-> 0]
    /\ reg = [s \in Slot |-> 0]
    /\ kv = [k \in HotKey |-> 0]
    /\ seen = [w \in Worker |-> [k \in HotKey |-> 0]]
    /\ sbArg = [w \in Worker |-> NoSBArg]
    /\ sbReq = [w \in Worker |-> NoSBPkt]
    /\ sbAbort = [w \in Worker |-> FALSE]
    /\ sbReg = [s \in {SBSlot(c) : c \in SBCustomer} |-> [saving |-> SBInitBal, checking |-> SBInitBal]]
    /\ sbAbs = [c \in SBCustomer |-> [saving |-> SBInitBal, checking |-> SBInitBal]]
    /\ tpArg = [w \in Worker |-> NoTPArg]
    /\ tpReq = [w \in Worker |-> NoTPPkt]
    /\ tpReg = [stock |-> [s \in {TPSlot(p) : p \in TPWarehouse \X (0..TP_NUM_ITEMS-1)} |-> TPStockInit],
                district |-> [i \in {TPDistrictPk(w, d) % IDX_RANGE :
                                        w \in TPWarehouse, d \in 0..TP_DISTRICTS-1} |->
                                TPDistrictInit],
                warehouse |-> [i \in {w % IDX_RANGE : w \in TPWarehouse} |-> W_YTD_INIT]]
    /\ tpAbs = [stock |-> [p \in TPWarehouse \X (0..TP_NUM_ITEMS-1) |-> TPStockInit],
                district |-> [p \in TPWarehouse \X (0..TP_DISTRICTS-1) |->
                                TPDistrictInit],
                warehouse |-> [w \in TPWarehouse |-> W_YTD_INIT]]
    /\ tpHist = <<>>
    /\ next_id = 0
    /\ ht = [b \in 0..NUM_FUTURES-1 |-> [i \in 1..NUM_SLOTS |-> NoEntry]]
    /\ myid = [w \in Worker |-> 0]
    /\ wire = {}
    /\ got = [w \in Worker |-> NoFuture]
    /\ fault = FALSE

(***************************************************************************)
(* atomic(), after make_txn: set_new_id stamps the packet with the node's  *)
(* next msg_id, add_future's insert() puts the future into the first slot  *)
(* of the id's bucket whose v it can compare_exchange from nullptr, and    *)
(* stores k, and the packet is sent; `sent` is where the transaction then  *)
(* waits.  With no free slot insert throws "Bucket full" out of the worker *)
(* thread.  One step: the calls run in one worker, and the CAS and the     *)
(* store of k could only be told apart by a second id of the same bucket,  *)
(* which the configurations, drawing fewer ids than there are buckets,     *)
(* never have.                                                             *)
(***************************************************************************)
SetNewId(w, sent) ==
    LET id   == next_id
        free == FreeSlots(ht, id)
    IN  /\ myid' = [myid EXCEPT ![w] = id]
        /\ next_id' = NextId(next_id)
        /\ IF free = {}
             THEN /\ fault' = TRUE
                  /\ pc' = [pc EXCEPT ![w] = "crashed"]
                  /\ UNCHANGED ht
             ELSE /\ ht' = [ht EXCEPT ![Bucket(id)][Min(free)] = [k |-> id, v |-> w]]
                  /\ pc' = [pc EXCEPT ![w] = sent]
                  /\ UNCHANGED fault

\* The switch answers to the sender node with the packet's msg_id.
Reply(w) == wire' = wire \cup {[id |-> myid[w], owner |-> w]}

\* SwitchFuture::get: get_pkt spins until set_pkt has stored a packet,
\* which parse_fn decodes and free() returns; the future is spent.
FutureGet(w, waiting) ==
    /\ pc[w] \in waiting
    /\ got[w] # NoFuture
    /\ got' = [got EXCEPT ![w] = NoFuture]

(***************************************************************************)
(* MessageHandler::handle(SwitchTxn): erase the reply's msg_id and         *)
(* set_pkt on the future the slot held.  A missing id rethrows out of the  *)
(* handler thread; a matching slot whose v is already nullptr has set_pkt  *)
(* called on a null future.  Either ends the process.                      *)
(***************************************************************************)
HandleSwitchTxn ==
    \E m \in wire :
        LET e == Erase(ht, m.id)
        IN  /\ wire' = wire \ {m}
            /\ ht' = e.ht
            /\ IF e.found /\ e.v # NoFuture
                 THEN got' = [got EXCEPT ![e.v] = m.owner] /\ UNCHANGED fault
                 ELSE fault' = TRUE /\ UNCHANGED got
            /\ UNCHANGED <<pc, ntxns, reg, yvars, sbvars, tpvars, next_id, myid>>

(***************************************************************************)
(* YCSB::operator()(Multi&) with on_switch: atomic() encodes the ops with  *)
(* make_txn into a SwitchTxn packet, registers its future and sends it.    *)
(***************************************************************************)
Atomic(w) ==
    /\ pc[w] = "idle"
    /\ ntxns[w] < MaxTxns
    /\ \E a \in Args :
         /\ arg' = [arg EXCEPT ![w] = a]
         /\ req' = [req EXCEPT ![w] = MakeTxn(a)]
    /\ SetNewId(w, "sent")
    /\ UNCHANGED <<reply, out, ntxns, reg, kv, seen, sbvars, tpvars, wire, got>>

(***************************************************************************)
(* The switch runs one waiting packet and answers it.  Packets of          *)
(* different workers are run in any order.                                 *)
(***************************************************************************)
SwitchRun(w) ==
    LET r == RunPacket(reg, req[w])
    IN  /\ pc[w] = "sent"
        /\ reg' = r.reg
        /\ reply' = [reply EXCEPT ![w] = [req[w] EXCEPT !.instrs = r.out,
                                                        !.recircs = Passes(req[w]) - 1]]
        /\ seen' = [seen EXCEPT ![w] = kv]
        /\ kv' = [k \in HotKey |->
                    IF \E i \in 1..NUM_OPS : arg[w][i].id = k /\ arg[w][i].mode = "WRITE"
                      THEN arg[w][CHOOSE i \in 1..NUM_OPS : arg[w][i].id = k].value
                      ELSE kv[k]]
        /\ pc' = [pc EXCEPT ![w] = "replied"]
        /\ Reply(w)
        /\ UNCHANGED <<arg, req, out, ntxns, sbvars, tpvars, next_id, ht, myid, got, fault>>

(***************************************************************************)
(* multi_f->get() decodes the reply with parse_txn; the values are only   *)
(* passed to do_not_optimize and the transaction commits (its undo log is  *)
(* empty: the switch path takes no locks on the host).                     *)
(***************************************************************************)
GetAndCommit(w) ==
    /\ FutureGet(w, {"sent", "replied"})
    /\ out' = [out EXCEPT ![w] = ParseTxn(Bytes(reply[got[w]]))]
    /\ ntxns' = [ntxns EXCEPT ![w] = @ + 1]
    /\ pc' = [pc EXCEPT ![w] = "idle"]
    /\ UNCHANGED <<arg, req, reply, reg, kv, seen, sbvars, tpvars, next_id, ht, myid, wire, fault>>

(***************************************************************************)
(* Smallbank::operator() with on_switch: atomic() encodes the transaction *)
(* with make_txn and sends it.  DepositChecking's `val < 0` rollback comes *)
(* first, but the generator's val is 130.                                  *)
(***************************************************************************)
SBAtomic(w) ==
    /\ pc[w] = "idle"
    /\ ntxns[w] < MaxTxns
    /\ \E a \in SBArgs :
         /\ a.kind = "DepositChecking" => a.val >= 0
         /\ sbArg' = [sbArg EXCEPT ![w] = a]
         /\ sbReq' = [sbReq EXCEPT ![w] = SBMakeTxn(a)]
    /\ SetNewId(w, "sb_sent")
    /\ UNCHANGED <<ntxns, reg, yvars, sbAbort, sbReg, sbAbs, tpvars, wire, got>>

(***************************************************************************)
(* The switch runs a waiting SmallBank packet.  sbAbs records what the     *)
(* transaction's host body would have done to the customers' balances.    *)
(***************************************************************************)
SBSwitchRun(w) ==
    LET r == SBRunPacket(sbReg, sbReq[w])
    IN  /\ pc[w] = "sb_sent"
        /\ sbReg' = r.reg
        /\ sbAbort' = [sbAbort EXCEPT ![w] = r.abort]
        /\ sbAbs' = SBHost(sbAbs, sbArg[w])
        /\ pc' = [pc EXCEPT ![w] = "sb_replied"]
        /\ Reply(w)
        /\ UNCHANGED <<ntxns, reg, yvars, sbArg, sbReq, tpvars, next_id, ht, myid, got, fault>>

(***************************************************************************)
(* txn_f->get() and parse_txn; SendPayment rolls back when the reply       *)
(* starts with ABORT, every other transaction commits.  Neither touches    *)
(* the balances: the switch path logs no undo.                             *)
(***************************************************************************)
SBGetAndCommit(w) ==
    /\ FutureGet(w, {"sb_sent", "sb_replied"})
    /\ ntxns' = [ntxns EXCEPT ![w] = @ + 1]
    /\ pc' = [pc EXCEPT ![w] = "idle"]
    /\ UNCHANGED <<reg, yvars, sbvars, tpvars, next_id, ht, myid, wire, fault>>

(***************************************************************************)
(* TPCC::operator()(NewOrder&) with on_switch: it reads the items,         *)
(* warehouse, district and customer, takes the stock rows (read locks for  *)
(* hot lines), then, with "no ABORT from here on", calls atomic().  The    *)
(* host-side locks are Engine's subject and left out here.                 *)
(***************************************************************************)
TPNewOrderAtomic(w) ==
    /\ pc[w] = "idle"
    /\ ntxns[w] < MaxTxns
    /\ \E a \in TPNewOrderArgs :
         /\ tpArg' = [tpArg EXCEPT ![w] = a]
         /\ tpReq' = [tpReq EXCEPT ![w] = TPMakeNewOrder(a)]
    /\ SetNewId(w, "tp_sent")
    /\ UNCHANGED <<ntxns, reg, yvars, sbvars, tpReg, tpAbs, tpHist, wire, got>>

(***************************************************************************)
(* TPCC::operator()(Payment&) with on_switch: it reads the warehouse and   *)
(* district, write-locks the customer and calls atomic(); the host-side    *)
(* w_ytd and d_ytd updates are commented out in favour of the switch.      *)
(***************************************************************************)
TPPaymentAtomic(w) ==
    /\ pc[w] = "idle"
    /\ ntxns[w] < MaxTxns
    /\ \E a \in TPPaymentArgs :
         /\ tpArg' = [tpArg EXCEPT ![w] = a]
         /\ tpReq' = [tpReq EXCEPT ![w] = TPMakePayment(a)]
    /\ SetNewId(w, "tp_sent")
    /\ UNCHANGED <<ntxns, reg, yvars, sbvars, tpReg, tpAbs, tpHist, wire, got>>

(***************************************************************************)
(* The switch runs a waiting TPC-C packet; tpAbs applies the host-path     *)
(* updates of the same transaction.                                        *)
(***************************************************************************)
TPSwitchRun(w) ==
    /\ pc[w] = "tp_sent"
    /\ tpReg' = TPRunPacket(tpReg, tpReq[w])
    /\ tpAbs' = TPHost(tpAbs, tpArg[w])
    /\ pc' = [pc EXCEPT ![w] = "tp_replied"]
    /\ Reply(w)
    /\ UNCHANGED <<ntxns, reg, yvars, sbvars, tpArg, tpReq, tpHist, next_id, ht, myid, got, fault>>

(***************************************************************************)
(* NewOrder after get(): it takes d_next_o_id from the reply, inserts its  *)
(* order and new-order rows, updates the cold stock rows (done by tpAbs    *)
(* for every row), inserts the order lines and commits.                    *)
(***************************************************************************)
TPNewOrderCommit(w) ==
    /\ FutureGet(w, {"tp_sent", "tp_replied"})
    /\ tpArg[w].kind = "NewOrder"
    /\ ntxns' = [ntxns EXCEPT ![w] = @ + 1]
    /\ pc' = [pc EXCEPT ![w] = "idle"]
    /\ UNCHANGED <<reg, yvars, sbvars, tpvars, next_id, ht, myid, wire, fault>>

(***************************************************************************)
(* Payment after get(): it updates the customer, inserts the history row   *)
(* with the full int64 h_amount and commits.                               *)
(***************************************************************************)
TPPaymentCommit(w) ==
    /\ FutureGet(w, {"tp_sent", "tp_replied"})
    /\ tpArg[w].kind = "Payment"
    /\ tpHist' = Append(tpHist, [w_id |-> tpArg[w].w_id, d_id |-> tpArg[w].d_id,
                                 h |-> tpArg[w].h])
    /\ ntxns' = [ntxns EXCEPT ![w] = @ + 1]
    /\ pc' = [pc EXCEPT ![w] = "idle"]
    /\ UNCHANGED <<reg, yvars, sbvars, tpArg, tpReq, tpReg, tpAbs, next_id, ht, myid, wire, fault>>

Next ==
    \E w \in Worker :
        \/ Atomic(w) \/ SwitchRun(w) \/ GetAndCommit(w)
        \/ SBAtomic(w) \/ SBSwitchRun(w) \/ SBGetAndCommit(w)
        \/ TPNewOrderAtomic(w) \/ TPPaymentAtomic(w) \/ TPSwitchRun(w)
        \/ TPNewOrderCommit(w) \/ TPPaymentCommit(w)
    \/ HandleSwitchTxn

Spec == Init /\ [][Next]_vars

-----------------------------------------------------------------------------
(***************************************************************************)
(* Types, and every instruction names a stage InstrType_t::REG accepts     *)
(* (the layout has NUM_REGS stages).                                       *)
(***************************************************************************)
TypeOK ==
    /\ pc \in [Worker -> {"idle", "crashed", "sent", "replied",
                          "sb_sent", "sb_replied", "tp_sent", "tp_replied"}]
    /\ next_id \in Nat /\ myid \in [Worker -> Nat]
    /\ ht \in [0..NUM_FUTURES-1 -> [1..NUM_SLOTS -> [k : Nat, v : Worker \cup {NoFuture}]]]
    /\ wire \subseteq [id : Nat, owner : Worker]
    /\ got \in [Worker -> Worker \cup {NoFuture}]
    /\ \A w \in Worker : arg[w] \in Args \cup {<<>>}
    /\ \A w \in Worker : \A j \in DOMAIN req[w].instrs :
          req[w].instrs[j].stage \in 0..NUM_REGS-1
    /\ ntxns \in [Worker -> 0..MaxTxns]
    /\ reg \in [Slot -> Nat]
    /\ kv \in [HotKey -> Nat]
    /\ \A w \in Worker : out[w] \in Seq(Seq(0..255))
    /\ sbArg \in [Worker -> SBArgs \cup {NoSBArg}]
    /\ sbAbort \in [Worker -> BOOLEAN]
    /\ sbReg \in [{SBSlot(c) : c \in SBCustomer} -> [saving : Int, checking : Int]]
    /\ tpArg \in [Worker -> TPArgs \cup {NoTPArg}]
    /\ tpHist \in Seq([w_id : TPWarehouse, d_id : 0..TP_DISTRICTS-1, h : TPAmount])

(***************************************************************************)
(* make_txn recirculates no more than it must: the passes of a packet are  *)
(* as many as the most accesses any one register stage receives.           *)
(***************************************************************************)
MaxPerStage(a) ==
    LET per(s) == Cardinality({i \in 1..NUM_OPS : GetLocation(a[i].id).stage_id = s})
    IN  CHOOSE m \in {per(s) : s \in 0..NUM_REGS-1} :
            \A s \in 0..NUM_REGS-1 : per(s) <= m

MinimalPasses ==
    \A w \in Worker : arg[w] # <<>> =>
        Passes(req[w]) = MaxPerStage(arg[w])

(***************************************************************************)
(* Each tuple has a register of its own: every READ the switch answers     *)
(* returns the value the last switch transaction wrote to that tuple (0    *)
(* if none did).  This holds only if get_location and the instruction's    *)
(* index field keep distinct hot ids in distinct (stage, index) slots.     *)
(***************************************************************************)
SwitchReadsLatest ==
    \A w \in Worker : pc[w] = "replied" =>
        LET acc == Accesses(arg[w])
            ins == reply[w].instrs
        IN  \A j \in 1..NUM_OPS :
                ins[j].op = "READ" => ins[j].data = seen[w][acc[j].op.id]

(***************************************************************************)
(* The hot stock rows and the districts' order counters live on the        *)
(* switch: for every hot <<w_id, i_id>>, the switch's s_ytd, s_quantity and *)
(* s_order_cnt are what the host path's updates (new_order.cpp) would have *)
(* made of the same NewOrders in the same order, and every district's     *)
(* d_next_o_id counts its NewOrders.  This needs each order line routed to *)
(* its own stock slot with its own quantity.  s_remote_cnt is left out:    *)
(* make_txn sends is_remote = 1 for every line (see PROJECT.json).         *)
(***************************************************************************)
TPCCStockAgreesWithHost ==
    /\ \A p \in TPHot :
          LET sw == tpReg.stock[TPSlot(p)]
              host == tpAbs.stock[p]
          IN  /\ sw.s_ytd = host.s_ytd
              /\ sw.s_quantity = host.s_quantity
              /\ sw.s_order_cnt = host.s_order_cnt
    /\ \A p \in DOMAIN tpAbs.district :
          tpReg.district[TPDistrictPk(p[1], p[2]) % IDX_RANGE].d_next_o_id
              = tpAbs.district[p].d_next_o_id

(***************************************************************************)
(* Every switch reply reaches the future of the transaction whose packet   *)
(* it answers, and no thread dies on the registry: atomic()'s set_new_id,  *)
(* add_future and send, run by several workers of a node at once, and the *)
(* message handler's erase and set_pkt on the reply's msg_id, must pair    *)
(* each reply with the one future registered under its id before the      *)
(* packet left.                                                            *)
(***************************************************************************)
RepliesReachTheirFutures ==
    /\ ~fault
    /\ \A w \in Worker : got[w] \in {NoFuture, w}

(***************************************************************************)
(* SmallBank's transfers neither create nor destroy money on the switch:   *)
(* when the switch runs the packet of an Amalgamate, a SendPayment         *)
(* (aborted or not) or a Balance, the total over all accounts is           *)
(* unchanged; DepositChecking and TransactSaving add their amount, and     *)
(* WriteCheck takes V or V + 1.  This is what the encoders' instruction    *)
(* lists and the egress instructions' slots must achieve together.         *)
(***************************************************************************)
SBTotal(r) == FoldFunction(LAMBDA b, acc : acc + b.saving + b.checking, 0, r)

SBTransfersConserveMoney ==
    [][\A w \in Worker :
         pc[w] = "sb_sent" /\ pc'[w] = "sb_replied" =>
            LET d == SBTotal(sbReg') - SBTotal(sbReg)
                v == sbArg[w].val
            IN  CASE sbArg[w].kind \in {"Amalgamate", "SendPayment", "Balance"} -> d = 0
                  [] sbArg[w].kind \in {"DepositChecking", "TransactSaving"} -> d = v
                  [] sbArg[w].kind = "WriteCheck" -> d \in {-v, -(v + 1)}]_vars

(***************************************************************************)
(* The switch path runs the same transactions as the host path: after any  *)
(* sequence of SmallBank transactions on the switch, every customer's      *)
(* saving and checking balances are those the host bodies (amalgamate.cpp, *)
(* send_payment.cpp, ...) would have produced in the same order.           *)
(***************************************************************************)
SBSwitchAgreesWithHost ==
    \A c \in SBCustomer : sbReg[SBSlot(c)] = sbAbs[c]
=============================================================================
