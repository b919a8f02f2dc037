---------------------------- MODULE LedgerProofs ----------------------------
(***************************************************************************)
(* Theorems about the ledger for every set of accounts, transfers, scales  *)
(* and inputs, every u128 bound and both builds (debug and release).       *)
(***************************************************************************)
EXTENDS Ledger, TLAPS

\* The balance changes of one movement keep every balance a u128 when the two
\* debit and the two credit balances it writes are.
LEMMA MoveTyped ==
    ASSUME NEW acc, IsAccounts(acc),
           NEW t, t.debit_account_id \in DOMAIN acc, t.credit_account_id \in DOMAIN acc,
           NEW posted \in Int, NEW pending \in Int,
           acc[t.debit_account_id].balance.debits_posted + posted \in Amount,
           acc[t.debit_account_id].balance.debits_pending + pending \in Amount,
           acc[t.credit_account_id].balance.credits_posted + posted \in Amount,
           acc[t.credit_account_id].balance.credits_pending + pending \in Amount
    PROVE  /\ IsAccounts(Move(acc, t, posted, pending))
           /\ DOMAIN Move(acc, t, posted, pending) = DOMAIN acc
<1> DEFINE M == Move(acc, t, posted, pending)
<1>1. M = [a \in DOMAIN acc |-> M[a]] /\ DOMAIN M = DOMAIN acc
  BY DEF Move
<1>2. ASSUME NEW a \in DOMAIN acc PROVE M[a] \in Account
  <2>1. acc[a] \in Account
    BY DEF IsAccounts
  <2>2. acc[a].flags \in AccountFlags /\ acc[a].balance \in Balance
    BY <2>1 DEF Account
  <2>3. acc[a].balance.debits_posted \in Amount /\ acc[a].balance.credits_posted \in Amount
        /\ acc[a].balance.debits_pending \in Amount /\ acc[a].balance.credits_pending \in Amount
    BY <2>2 DEF Balance
  <2>4. M[a].flags = acc[a].flags
    BY DEF Move
  <2>5. M[a].balance \in Balance
    BY <2>3, AmountAssumption DEF Move, Balance, Amount
  <2> QED BY <2>2, <2>4, <2>5 DEF Move, Account
<1> QED BY <1>1, <1>2 DEF IsAccounts

\* A movement keeps both limits of every account when it keeps the debit limit
\* of the debited account and the credit limit of the credited one: posting
\* only ever widens the other side's limit.
LEMMA MoveLimits ==
    ASSUME NEW acc, IsAccounts(acc), \A a \in DOMAIN acc : WithinLimits(acc[a]),
           NEW t, t.debit_account_id \in DOMAIN acc, t.credit_account_id \in DOMAIN acc,
           NEW posted \in Nat, NEW pending \in Int,
           LET d == acc[t.debit_account_id]
           IN  d.flags.debits_must_not_exceed_credits =>
                 d.balance.debits_posted + posted + d.balance.debits_pending + pending
                     <= d.balance.credits_posted,
           LET c == acc[t.credit_account_id]
           IN  c.flags.credits_must_not_exceed_debits =>
                 c.balance.credits_posted + posted + c.balance.credits_pending + pending
                     <= c.balance.debits_posted
    PROVE  \A a \in DOMAIN acc : WithinLimits(Move(acc, t, posted, pending)[a])
<1> SUFFICES ASSUME NEW a \in DOMAIN acc PROVE WithinLimits(Move(acc, t, posted, pending)[a])
  OBVIOUS
<1> DEFINE b == acc[a].balance
<1>1. /\ b.debits_posted \in Int /\ b.credits_posted \in Int
      /\ b.debits_pending \in Int /\ b.credits_pending \in Int
  BY AmountAssumption DEF IsAccounts, Account, Balance, Amount
<1>2. WithinLimits(acc[a])
  OBVIOUS
<1> QED BY <1>1, <1>2 DEF Move, WithinLimits

\* A ledger that is well typed and within its limits.
GoodLedger(L) ==
    /\ IsLedger(L)
    /\ \A a \in DOMAIN L.accounts : WithinLimits(L.accounts[a])

\* The tail every mutation shares: journal entry and watermark.
LEMMA RecordTyped ==
    ASSUME NEW L, IsLedger(L), NEW acc, IsAccounts(acc), NEW tr, IsTransfers(tr),
           NEW ts \in Timestamp, NEW event \in LedgerEvent
    PROVE  IsLedger(Record(L, acc, tr, ts, event))
<1>1. Append(L.journal, event) \in Seq(LedgerEvent)
  BY DEF IsLedger
<1>2. advance_timestamp(L, ts) \in Timestamp
  BY DEF IsLedger, advance_timestamp
<1> QED BY <1>1, <1>2 DEF Record, IsLedger

\* Filing a transfer under its own, unused id.
LEMMA InsertTyped ==
    ASSUME NEW tr, IsTransfers(tr), NEW t \in Transfer
    PROVE  IsTransfers(MapInsert(tr, t.id, t))
BY DEF IsTransfers, MapInsert, Transfer

\* A change of state keeps a transfer filed and typed.
LEMMA StateTyped ==
    ASSUME NEW tr, IsTransfers(tr), NEW i \in DOMAIN tr, NEW s \in TransferState
    PROVE  /\ IsTransfers([tr EXCEPT ![i].state = s])
           /\ DOMAIN [tr EXCEPT ![i].state = s] = DOMAIN tr
<1> DEFINE T == [tr EXCEPT ![i].state = s]
<1>1. tr[i] \in Transfer /\ tr[i].id = i
  BY DEF IsTransfers
<1>2. T[i] = [tr[i] EXCEPT !.state = s]
  BY DEF IsTransfers
<1>3. T[i] \in Transfer /\ T[i].id = i
  BY <1>1, <1>2 DEF Transfer
<1>4. \A j \in DOMAIN tr : j # i => T[j] = tr[j]
  OBVIOUS
<1> QED BY <1>3, <1>4 DEF IsTransfers

\* The balances of an account are integers between 0 and MaxAmount.
LEMMA BalanceTyped ==
    ASSUME NEW acc, IsAccounts(acc), NEW a \in DOMAIN acc
    PROVE  /\ acc[a].balance.debits_posted \in Amount
           /\ acc[a].balance.credits_posted \in Amount
           /\ acc[a].balance.debits_pending \in Amount
           /\ acc[a].balance.credits_pending \in Amount
BY DEF IsAccounts, Account, Balance

-----------------------------------------------------------------------------
(* History *)

\* Adding nothing never overflows.
LEMMA AddZero == \A n \in Amount : checked_add_ok(n, 0)
  BY AmountAssumption DEF checked_add_ok, Amount

\* The amount of a transfer is a natural number, and its negation an integer.
LEMMA AmountTyped ==
    ASSUME NEW t \in Transfer
    PROVE  t.amount \in Amount /\ t.amount \in Nat /\ 0 - t.amount \in Int /\ 0 <= t.amount
<1>1. t.amount \in Amount
  BY DEF Transfer
<1> QED BY <1>1, AmountAssumption DEF Amount

\* A movement that posts a non-negative amount keeps every account.
LEMMA MoveKept ==
    ASSUME NEW acc, IsAccounts(acc), NEW t, NEW posted \in Nat, NEW pending \in Int
    PROVE  AccountsKept(Move(acc, t, posted, pending), acc)
<1> SUFFICES ASSUME NEW a \in DOMAIN acc
             PROVE  LET m == Move(acc, t, posted, pending)
                    IN  /\ a \in DOMAIN m
                        /\ m[a].flags = acc[a].flags
                        /\ m[a].balance.debits_posted >= acc[a].balance.debits_posted
                        /\ m[a].balance.credits_posted >= acc[a].balance.credits_posted
  BY DEF AccountsKept
<1>1. acc[a].balance.debits_posted \in Int /\ acc[a].balance.credits_posted \in Int
  BY BalanceTyped, AmountAssumption DEF Amount
<1> QED BY <1>1 DEF Move

\* An account map extends itself.
LEMMA AccountsSame ==
    ASSUME NEW acc, IsAccounts(acc) PROVE AccountsKept(acc, acc)
BY BalanceTyped, AmountAssumption DEF AccountsKept, Amount

\* The watermark and the journal only grow when a mutation is recorded.
LEMMA RecordExtends ==
    ASSUME NEW L, IsLedger(L), NEW acc, AccountsKept(acc, L.accounts),
           NEW tr, TransfersKept(tr, L.transfers), NEW ts \in Timestamp, NEW event
    PROVE  Extends(Record(L, acc, tr, ts, event), L)
<1> DEFINE M == Record(L, acc, tr, ts, event)
<1>1. /\ M.accounts = acc /\ M.transfers = tr /\ M.journal = Append(L.journal, event)
      /\ M.last_timestamp = advance_timestamp(L, ts)
  BY DEF Record
<1>2. M.last_timestamp >= L.last_timestamp
  BY <1>1, TimestampAssumption DEF advance_timestamp, IsLedger, Timestamp
<1>3. \A n \in 1 .. Len(L.journal) : Append(L.journal, event)[n] = L.journal[n]
  <2>1. L.journal \in Seq(LedgerEvent)
    BY DEF IsLedger
  <2> QED BY <2>1
<1> QED BY <1>1, <1>2, <1>3 DEF Extends

\* A ledger extends itself: the steps that reject a call.
LEMMA ExtendsItself ==
    ASSUME NEW L, IsLedger(L) PROVE Extends(L, L)
<1>1. AccountsKept(L.accounts, L.accounts)
  BY AccountsSame DEF IsLedger
<1>2. TransfersKept(L.transfers, L.transfers)
  BY DEF TransfersKept
<1>3. L.last_timestamp >= L.last_timestamp
  BY TimestampAssumption DEF IsLedger, Timestamp
<1> QED BY <1>1, <1>2, <1>3 DEF Extends

\* Filing a transfer under an unused id keeps the others.
LEMMA InsertKept ==
    ASSUME NEW tr, NEW id, id \notin DOMAIN tr, NEW t
    PROVE  TransfersKept(MapInsert(tr, id, t), tr)
BY DEF TransfersKept, MapInsert

\* So does taking a hold out of Pending.
LEMMA StateKept ==
    ASSUME NEW tr, IsTransfers(tr), NEW i \in DOMAIN tr, tr[i].state = "Pending",
           NEW s \in {"Posted", "Voided"}
    PROVE  TransfersKept([tr EXCEPT ![i].state = s], tr)
<1> DEFINE T == [tr EXCEPT ![i].state = s]
<1>1. DOMAIN T = DOMAIN tr
  OBVIOUS
<1>2. T[i] = [tr[i] EXCEPT !.state = s]
  BY DEF IsTransfers
<1>3. \A j \in DOMAIN tr : j # i => T[j] = tr[j]
  OBVIOUS
<1> HIDE DEF T
<1> SUFFICES ASSUME NEW j \in DOMAIN tr
             PROVE  /\ j \in DOMAIN T
                    /\ \/ T[j] = tr[j]
                       \/ /\ tr[j].state = "Pending"
                          /\ \E x \in {"Posted", "Voided"} : T[j] = [tr[j] EXCEPT !.state = x]
  BY DEF TransfersKept, T
<1>4. CASE j = i
  BY <1>1, <1>2, <1>4
<1>5. CASE j # i
  BY <1>1, <1>3, <1>5
<1> QED BY <1>4, <1>5

\* M is a good ledger that extends L.
GoodStep(L, M) == GoodLedger(M) /\ Extends(M, L)

-----------------------------------------------------------------------------
(* Each mutation, once its checks passed, leaves a good ledger that extends the old one *)

\* create_account opens an empty account, which is within any limit.
LEMMA CreateAccountGood ==
    ASSUME NEW L, GoodLedger(L), NEW id \in AccountId, NEW flags \in AccountFlags,
           NEW scale \in Scale, NEW ts \in Timestamp,
           id \notin DOMAIN L.accounts
    PROVE  GoodStep(L, create_account_write(L, [id |-> id, flags |-> flags, scale |-> scale,
                                                timestamp |-> ts]))
<1> DEFINE op == [id |-> id, flags |-> flags, scale |-> scale, timestamp |-> ts]
           new == [flags |-> flags, balance |-> Balance_new]
           acc == MapInsert(L.accounts, id, new)
           event == [type |-> "AccountCreated", id |-> id, flags |-> flags, scale |-> scale,
                     timestamp |-> ts]
<1>1. new \in Account /\ WithinLimits(new)
  BY AmountAssumption DEF Account, Balance, Balance_new, Amount, WithinLimits
<1>2. IsAccounts(acc) /\ \A a \in DOMAIN acc : WithinLimits(acc[a])
  BY <1>1 DEF GoodLedger, IsLedger, IsAccounts, MapInsert
<1>3. event \in LedgerEvent
  BY DEF LedgerEvent
<1>4. IsLedger(Record(L, acc, L.transfers, ts, event))
  BY <1>2, <1>3, RecordTyped, Zenon DEF GoodLedger, IsLedger
<1>5. create_account_write(L, op) = Record(L, acc, L.transfers, ts, event)
  BY DEF create_account_write
<1>6. Record(L, acc, L.transfers, ts, event).accounts = acc
  BY DEF Record
<1>7. Extends(Record(L, acc, L.transfers, ts, event), L)
  <2>1. AccountsKept(acc, L.accounts)
    BY AccountsSame DEF GoodLedger, IsLedger, AccountsKept, MapInsert
  <2>2. TransfersKept(L.transfers, L.transfers)
    BY DEF TransfersKept
  <2> QED BY <2>1, <2>2, RecordExtends DEF GoodLedger
<1> QED BY <1>7, <1>2, <1>4, <1>5, <1>6 DEF GoodLedger, GoodStep

\* close_account changes no balance.
LEMMA CloseAccountGood ==
    ASSUME NEW L, GoodLedger(L), NEW id \in DOMAIN L.accounts, NEW ts \in Timestamp
    PROVE  GoodStep(L, close_account_write(L, [id |-> id, timestamp |-> ts]))
<1> DEFINE op == [id |-> id, timestamp |-> ts]
           acc == Closed(L.accounts, id)
           event == [type |-> "AccountClosed", id |-> id, timestamp |-> ts]
<1>1. L.accounts[id] \in Account /\ WithinLimits(L.accounts[id]) /\ id \in AccountId
  BY DEF GoodLedger, IsLedger, IsAccounts
<1>2. acc[id] \in Account /\ WithinLimits(acc[id])
  BY <1>1, Zenon DEF Closed, Account, AccountFlags, WithinLimits
<1>3. IsAccounts(acc) /\ \A a \in DOMAIN acc : WithinLimits(acc[a])
  BY <1>2, Zenon DEF GoodLedger, IsLedger, IsAccounts, Closed
<1>4. event \in LedgerEvent
  BY <1>1 DEF LedgerEvent
<1>5. IsLedger(Record(L, acc, L.transfers, ts, event))
  BY <1>3, <1>4, RecordTyped DEF GoodLedger, IsLedger
<1>6. close_account_write(L, op) = Record(L, acc, L.transfers, ts, event)
  BY DEF close_account_write
<1>7. Record(L, acc, L.transfers, ts, event).accounts = acc
  BY DEF Record
<1>8. Extends(Record(L, acc, L.transfers, ts, event), L)
  <2>1. acc[id].flags.is_closed /\ acc[id].balance = L.accounts[id].balance
    BY <1>1 DEF Closed, Account, AccountFlags
  <2>2. AccountsKept(acc, L.accounts)
    BY <2>1, AccountsSame DEF GoodLedger, IsLedger, AccountsKept, Closed
  <2>3. TransfersKept(L.transfers, L.transfers)
    BY DEF TransfersKept
  <2> QED BY <2>2, <2>3, RecordExtends DEF GoodLedger
<1> QED BY <1>8, <1>3, <1>5, <1>6, <1>7 DEF GoodLedger, GoodStep

\* create_transfer: ensure_can_debit and ensure_can_credit are exactly what
\* MoveLimits asks for, the checked_adds what MoveTyped asks for.
LEMMA CreateTransferGood ==
    ASSUME NEW L, GoodLedger(L), NEW t \in Transfer, create_transfer_ok(L, t)
    PROVE  GoodStep(L, create_transfer_write(L, t))
<1> DEFINE acc == Move(L.accounts, t, t.amount, 0)
           event == [type |-> "TransferPosted", transfer |-> t]
<1>1. IsAccounts(L.accounts) /\ IsTransfers(L.transfers)
  BY DEF GoodLedger, IsLedger
<1>2. t.debit_account_id \in DOMAIN L.accounts /\ t.credit_account_id \in DOMAIN L.accounts
  BY DEF create_transfer_ok
<1>3. t.amount \in Amount /\ t.amount \in Nat
  BY AmountAssumption DEF Transfer, Amount
<1>4. IsAccounts(acc) /\ DOMAIN acc = DOMAIN L.accounts
  <2>1. /\ L.accounts[t.debit_account_id].balance.debits_posted + t.amount \in Amount
        /\ L.accounts[t.credit_account_id].balance.credits_posted + t.amount \in Amount
        /\ L.accounts[t.debit_account_id].balance.debits_pending + 0 \in Amount
        /\ L.accounts[t.credit_account_id].balance.credits_pending + 0 \in Amount
    BY <1>1, <1>2, <1>3, BalanceTyped, AmountAssumption
       DEF create_transfer_ok, checked_add_ok, Amount
  <2> QED BY <1>1, <1>2, <1>3, <2>1, MoveTyped, SMTT(30)
<1>5. \A a \in DOMAIN acc : WithinLimits(acc[a])
  <2>1. LET d == L.accounts[t.debit_account_id]
        IN  d.flags.debits_must_not_exceed_credits =>
              d.balance.debits_posted + t.amount + d.balance.debits_pending + 0
                  <= d.balance.credits_posted
    BY <1>1, <1>2, <1>3, BalanceTyped, AmountAssumption, SMTT(30)
       DEF create_transfer_ok, ensure_can_debit, Amount
  <2>2. LET c == L.accounts[t.credit_account_id]
        IN  c.flags.credits_must_not_exceed_debits =>
              c.balance.credits_posted + t.amount + c.balance.credits_pending + 0
                  <= c.balance.debits_posted
    BY <1>1, <1>2, <1>3, BalanceTyped, AmountAssumption
       DEF create_transfer_ok, ensure_can_credit, Amount
  <2> QED BY <1>1, <1>2, <1>3, <1>4, <2>1, <2>2, MoveLimits, SMTT(30) DEF GoodLedger
<1>6. IsTransfers(MapInsert(L.transfers, t.id, t))
  BY <1>1, InsertTyped
<1>7. event \in LedgerEvent /\ t.timestamp \in Timestamp
  BY DEF LedgerEvent, Transfer
<1>8. IsLedger(create_transfer_write(L, t))
  BY <1>4, <1>6, <1>7, RecordTyped DEF GoodLedger, create_transfer_write
<1>9. create_transfer_write(L, t).accounts = acc
  BY DEF create_transfer_write, Record
<1>10. Extends(create_transfer_write(L, t), L)
  <2>1. AccountsKept(acc, L.accounts)
    BY <1>1, <1>3, MoveKept
  <2>2. TransfersKept(MapInsert(L.transfers, t.id, t), L.transfers)
    BY InsertKept DEF create_transfer_ok, validate_new_transfer
  <2> QED BY <1>7, <2>1, <2>2, RecordExtends DEF GoodLedger, create_transfer_write
<1> QED BY <1>10, <1>5, <1>8, <1>9 DEF GoodLedger, GoodStep

\* create_pending reserves the amount under the same two checks.
LEMMA CreatePendingGood ==
    ASSUME NEW L, GoodLedger(L), NEW t \in Transfer, create_pending_ok(L, t)
    PROVE  GoodStep(L, create_pending_write(L, t))
<1> DEFINE acc == Move(L.accounts, t, 0, t.amount)
           event == [type |-> "TransferPendingCreated", transfer |-> t]
<1>1. IsAccounts(L.accounts) /\ IsTransfers(L.transfers)
  BY DEF GoodLedger, IsLedger
<1>2. t.debit_account_id \in DOMAIN L.accounts /\ t.credit_account_id \in DOMAIN L.accounts
  BY DEF create_pending_ok
<1>3. t.amount \in Amount /\ t.amount \in Nat
  BY AmountAssumption DEF Transfer, Amount
<1>4. IsAccounts(acc) /\ DOMAIN acc = DOMAIN L.accounts
  <2>1. /\ L.accounts[t.debit_account_id].balance.debits_posted + 0 \in Amount
        /\ L.accounts[t.credit_account_id].balance.credits_posted + 0 \in Amount
        /\ L.accounts[t.debit_account_id].balance.debits_pending + t.amount \in Amount
        /\ L.accounts[t.credit_account_id].balance.credits_pending + t.amount \in Amount
    BY <1>1, <1>2, <1>3, BalanceTyped, AmountAssumption, SMTT(30)
       DEF create_pending_ok, checked_add_ok, Amount
  <2> QED BY <1>1, <1>2, <1>3, <2>1, MoveTyped, SMTT(30)
<1>5. \A a \in DOMAIN acc : WithinLimits(acc[a])
  <2>1. LET d == L.accounts[t.debit_account_id]
        IN  d.flags.debits_must_not_exceed_credits =>
              d.balance.debits_posted + 0 + d.balance.debits_pending + t.amount
                  <= d.balance.credits_posted
    BY <1>1, <1>2, <1>3, BalanceTyped, AmountAssumption, SMTT(30)
       DEF create_pending_ok, ensure_can_debit, Amount
  <2>2. LET c == L.accounts[t.credit_account_id]
        IN  c.flags.credits_must_not_exceed_debits =>
              c.balance.credits_posted + 0 + c.balance.credits_pending + t.amount
                  <= c.balance.debits_posted
    BY <1>1, <1>2, <1>3, BalanceTyped, AmountAssumption
       DEF create_pending_ok, ensure_can_credit, Amount
  <2> QED BY <1>1, <1>2, <1>3, <1>4, <2>1, <2>2, MoveLimits, SMTT(30) DEF GoodLedger
<1>6. IsTransfers(MapInsert(L.transfers, t.id, t))
  BY <1>1, InsertTyped
<1>7. event \in LedgerEvent /\ t.timestamp \in Timestamp
  BY DEF LedgerEvent, Transfer
<1>8. IsLedger(create_pending_write(L, t))
  BY <1>4, <1>6, <1>7, RecordTyped DEF GoodLedger, create_pending_write
<1>9. create_pending_write(L, t).accounts = acc
  BY DEF create_pending_write, Record
<1>10. Extends(create_pending_write(L, t), L)
  <2>1. AccountsKept(acc, L.accounts)
    BY <1>1, <1>3, MoveKept
  <2>2. TransfersKept(MapInsert(L.transfers, t.id, t), L.transfers)
    BY InsertKept DEF create_pending_ok, validate_new_transfer
  <2> QED BY <1>7, <2>1, <2>2, RecordExtends DEF GoodLedger, create_pending_write
<1> QED BY <1>10, <1>5, <1>8, <1>9 DEF GoodLedger, GoodStep

\* Releasing a hold of amount held and posting at most that much keeps the
\* balances typed and the limits: a capture needs no limit check of its own,
\* because the reservation it consumes was counted against the limit.
LEMMA ReleaseGood ==
    ASSUME NEW L, GoodLedger(L), NEW t \in Transfer, release_ok(L, t),
           NEW posted \in Nat, posted <= t.amount,
           checked_add_ok(L.accounts[t.debit_account_id].balance.debits_posted, posted),
           checked_add_ok(L.accounts[t.credit_account_id].balance.credits_posted, posted)
    PROVE  LET acc == Move(L.accounts, t, posted, 0 - t.amount)
           IN  IsAccounts(acc) /\ \A a \in DOMAIN acc : WithinLimits(acc[a])
<1> DEFINE acc == Move(L.accounts, t, posted, 0 - t.amount)
           d == L.accounts[t.debit_account_id]
           c == L.accounts[t.credit_account_id]
<1>1. IsAccounts(L.accounts) /\ t.amount \in Amount /\ 0 - t.amount \in Int
  BY AmountTyped, Zenon DEF GoodLedger, IsLedger
<1>2. t.debit_account_id \in DOMAIN L.accounts /\ t.credit_account_id \in DOMAIN L.accounts
  BY DEF release_ok
<1>3. /\ d.balance.debits_posted \in Amount /\ d.balance.credits_posted \in Amount
      /\ d.balance.debits_pending \in Amount /\ d.balance.credits_pending \in Amount
      /\ c.balance.debits_posted \in Amount /\ c.balance.credits_posted \in Amount
      /\ c.balance.debits_pending \in Amount /\ c.balance.credits_pending \in Amount
  BY <1>1, <1>2, BalanceTyped, SMTT(30)
<1>4. /\ d.balance.debits_posted + posted \in Amount
      /\ d.balance.debits_pending + (0 - t.amount) \in Amount
      /\ c.balance.credits_posted + posted \in Amount
      /\ c.balance.credits_pending + (0 - t.amount) \in Amount
  BY <1>1, <1>3, AmountAssumption DEF release_ok, checked_add_ok, checked_sub_ok, Amount
<1>5. IsAccounts(acc) /\ DOMAIN acc = DOMAIN L.accounts
  BY <1>1, <1>2, <1>4, MoveTyped
<1>6. WithinLimits(d) /\ WithinLimits(c)
  BY <1>2, SMTT(30) DEF GoodLedger
<1>7. d.flags.debits_must_not_exceed_credits =>
        d.balance.debits_posted + posted + d.balance.debits_pending + (0 - t.amount)
            <= d.balance.credits_posted
  BY <1>1, <1>3, <1>6, AmountAssumption, SMTT(30) DEF WithinLimits, Amount
<1>8. c.flags.credits_must_not_exceed_debits =>
        c.balance.credits_posted + posted + c.balance.credits_pending + (0 - t.amount)
            <= c.balance.debits_posted
  BY <1>1, <1>3, <1>6, AmountAssumption, SMTT(30) DEF WithinLimits, Amount
<1>9. \A a \in DOMAIN acc : WithinLimits(acc[a])
  BY <1>1, <1>2, <1>5, <1>7, <1>8, MoveLimits DEF GoodLedger
<1> QED BY <1>5, <1>9

\* The settlement a capture files is a transfer under the new id.
LEMMA SettlementTyped ==
    ASSUME NEW L, IsLedger(L), NEW op, op.pending_id \in DOMAIN L.transfers,
           op.post_transfer_id \in TransferId, op.amount \in Amount, op.timestamp \in Timestamp
    PROVE  /\ new_settlement(L, op) \in Transfer
           /\ new_settlement(L, op).id = op.post_transfer_id
<1>1. L.transfers[op.pending_id] \in Transfer /\ op.pending_id \in TransferId
  BY DEF IsLedger, IsTransfers
<1> QED BY <1>1, Zenon DEF new_settlement, Transfer, TransferState

\* post_pending moves the captured part of a hold from pending to posted.
LEMMA PostPendingGood ==
    ASSUME NEW L, GoodLedger(L), NEW pid \in TransferId, NEW sid \in TransferId,
           NEW amount \in Amount, NEW ts \in Timestamp,
           post_pending_ok(L, [pending_id |-> pid, post_transfer_id |-> sid,
                               amount |-> amount, timestamp |-> ts])
    PROVE  GoodStep(L, post_pending_write(L, [pending_id |-> pid, post_transfer_id |-> sid,
                                              amount |-> amount, timestamp |-> ts]))
<1> DEFINE op == [pending_id |-> pid, post_transfer_id |-> sid, amount |-> amount,
                  timestamp |-> ts]
           t == L.transfers[pid]
           acc == Move(L.accounts, t, amount, 0 - t.amount)
           posted == [L.transfers EXCEPT ![pid].state = "Posted"]
           tr == MapInsert(posted, sid, new_settlement(L, op))
           event == [type |-> "TransferPendingPosted", pending_id |-> pid,
                     post_transfer_id |-> sid, amount |-> amount, timestamp |-> ts]
<1>1. IsLedger(L) /\ pid \in DOMAIN L.transfers /\ t \in Transfer
  BY Zenon DEF GoodLedger, IsLedger, IsTransfers, post_pending_ok
<1>2. /\ amount \in Nat /\ amount <= t.amount /\ release_ok(L, t)
      /\ checked_add_ok(L.accounts[t.debit_account_id].balance.debits_posted, amount)
      /\ checked_add_ok(L.accounts[t.credit_account_id].balance.credits_posted, amount)
  <2>1. amount \in Nat
    BY AmountAssumption DEF Amount
  <2> QED BY <2>1, Zenon DEF post_pending_ok
<1>3. IsAccounts(acc) /\ \A a \in DOMAIN acc : WithinLimits(acc[a])
  BY <1>1, <1>2, ReleaseGood, Zenon
<1>4. IsTransfers(posted)
  <2>1. IsTransfers(L.transfers) /\ "Posted" \in TransferState
    BY <1>1 DEF IsLedger, TransferState
  <2> QED BY <1>1, <2>1, StateTyped
<1>5. new_settlement(L, op) \in Transfer /\ new_settlement(L, op).id = sid
  BY <1>1, SettlementTyped
<1>6. IsTransfers(tr)
  BY <1>4, <1>5, InsertTyped
<1>7. event \in LedgerEvent
  BY DEF LedgerEvent
<1>8. IsLedger(Record(L, acc, tr, ts, event))
  BY <1>1, <1>3, <1>6, <1>7, RecordTyped
<1>9. post_pending_write(L, op) = Record(L, acc, tr, ts, event)
  BY DEF post_pending_write, CaptureWrite
<1>10. Record(L, acc, tr, ts, event).accounts = acc
  BY DEF Record
<1>11. Extends(Record(L, acc, tr, ts, event), L)
  <2>1. AccountsKept(acc, L.accounts)
    <3>1. IsAccounts(L.accounts)
      BY <1>1 DEF IsLedger
    <3>2. 0 - t.amount \in Int
      BY <1>1, AmountTyped, ZenonT(60)
    <3>3. amount \in Nat
      BY <1>2, Zenon
    <3> QED BY <3>1, <3>2, <3>3, MoveKept, Zenon
  <2>2. t.state = "Pending" /\ sid \notin DOMAIN L.transfers
    BY DEF post_pending_ok
  <2>3. TransfersKept(posted, L.transfers) /\ DOMAIN posted = DOMAIN L.transfers
    BY <1>1, <2>2, StateKept, Zenon DEF IsLedger
  <2>4. \A i \in DOMAIN posted : tr[i] = posted[i] /\ i \in DOMAIN tr
    BY <2>2, <2>3 DEF MapInsert
  <2>5. TransfersKept(tr, L.transfers)
    BY <2>3, <2>4 DEF TransfersKept
  <2> QED BY <1>1, <2>1, <2>5, RecordExtends
<1> QED BY <1>11, <1>3, <1>8, <1>9, <1>10 DEF GoodLedger, GoodStep

\* void_pending releases the reservation and posts nothing.
LEMMA VoidPendingGood ==
    ASSUME NEW L, GoodLedger(L), NEW pid \in TransferId, NEW ts \in Timestamp,
           void_pending_ok(L, [pending_id |-> pid, timestamp |-> ts])
    PROVE  GoodStep(L, void_pending_write(L, [pending_id |-> pid, timestamp |-> ts]))
<1> DEFINE op == [pending_id |-> pid, timestamp |-> ts]
           t == L.transfers[pid]
           acc == Move(L.accounts, t, 0, 0 - t.amount)
           tr == [L.transfers EXCEPT ![pid].state = "Voided"]
           event == [type |-> "TransferPendingVoided", pending_id |-> pid,
                     amount |-> t.amount, timestamp |-> ts]
<1>1. IsLedger(L) /\ pid \in DOMAIN L.transfers /\ t \in Transfer /\ release_ok(L, t)
  <2>1. pid \in DOMAIN L.transfers /\ release_ok(L, t)
    BY Zenon DEF void_pending_ok
  <2> QED BY <2>1 DEF GoodLedger, IsLedger, IsTransfers
<1>2. t.amount \in Amount /\ 0 <= t.amount /\ 0 - t.amount \in Int
  BY <1>1, AmountTyped, ZenonT(60)
<1>3. /\ checked_add_ok(L.accounts[t.debit_account_id].balance.debits_posted, 0)
      /\ checked_add_ok(L.accounts[t.credit_account_id].balance.credits_posted, 0)
  <2>1. t.debit_account_id \in DOMAIN L.accounts /\ t.credit_account_id \in DOMAIN L.accounts
    BY <1>1, SMTT(30) DEF release_ok
  <2>2. /\ L.accounts[t.debit_account_id].balance.debits_posted \in Amount
        /\ L.accounts[t.credit_account_id].balance.credits_posted \in Amount
    BY <1>1, <2>1, BalanceTyped DEF IsLedger
  <2> QED BY <2>2, AddZero, ZenonT(60)
<1>4. IsAccounts(acc) /\ \A a \in DOMAIN acc : WithinLimits(acc[a])
  BY <1>1, <1>2, <1>3, ReleaseGood, Zenon
<1>5. IsTransfers(tr)
  <2>1. IsTransfers(L.transfers) /\ "Voided" \in TransferState
    BY <1>1 DEF IsLedger, TransferState
  <2> QED BY <1>1, <2>1, StateTyped
<1>6. event \in LedgerEvent
  BY <1>2 DEF LedgerEvent
<1>7. IsLedger(Record(L, acc, tr, ts, event))
  BY <1>1, <1>4, <1>5, <1>6, RecordTyped
<1>8. void_pending_write(L, op) = Record(L, acc, tr, ts, event)
  BY DEF void_pending_write
<1>9. Record(L, acc, tr, ts, event).accounts = acc
  BY DEF Record
<1>10. Extends(Record(L, acc, tr, ts, event), L)
  <2>1. AccountsKept(acc, L.accounts)
    <3>1. IsAccounts(L.accounts) /\ 0 \in Nat
      BY <1>1 DEF IsLedger
    <3> QED BY <1>2, <3>1, MoveKept, Zenon
  <2>2. t.state = "Pending"
    BY DEF void_pending_ok
  <2>3. TransfersKept(tr, L.transfers)
    BY <1>1, <2>2, StateKept, Zenon DEF IsLedger
  <2> QED BY <1>1, <2>1, <2>3, RecordExtends
<1> QED BY <1>10, <1>4, <1>7, <1>8, <1>9 DEF GoodLedger, GoodStep

-----------------------------------------------------------------------------
(* The invariant *)

\* A call leaves a good ledger, extending the old one, whether its checks pass or not, and whatever the
\* audit of a debug build says of it.
LEMMA AttemptGood ==
    ASSUME NEW L, GoodLedger(L), NEW ok \in BOOLEAN, NEW written,
           ok => GoodStep(L, written)
    PROVE  GoodStep(L, Attempt(L, ok, written).ledger)
<1>1. CASE ok
  BY <1>1 DEF Attempt
<1>2. CASE ~ ok
  BY <1>2, ExtendsItself DEF Attempt, GoodStep, GoodLedger
<1> QED BY <1>1, <1>2

Inv == GoodLedger(ledger)

\* An empty ledger is good.
LEMMA InitInv == Init => Inv
<1> SUFFICES ASSUME NEW scale \in Scale, ledger = Ledger_new(scale) PROVE Inv
  BY DEF Init
<1>1. /\ ledger.scale = scale /\ ledger.accounts = EmptyMap /\ ledger.transfers = EmptyMap
      /\ ledger.journal = << >> /\ ledger.last_timestamp = 0
  BY DEF Ledger_new
<1>2. IsAccounts(ledger.accounts) /\ DOMAIN ledger.accounts = {}
  BY <1>1 DEF IsAccounts, EmptyMap
<1>3. IsTransfers(ledger.transfers)
  BY <1>1 DEF IsTransfers, EmptyMap
<1>4. ledger.journal \in Seq(LedgerEvent)
  BY <1>1
<1>5. ledger.last_timestamp \in Timestamp
  BY <1>1, TimestampAssumption DEF Timestamp
<1> QED BY <1>1, <1>2, <1>3, <1>4, <1>5 DEF Inv, GoodLedger, IsLedger

\* Every call, whatever its arguments, keeps the ledger good and its history.
LEMMA NextInv == Inv /\ [Next]_ledger => Inv' /\ Extends(ledger', ledger)
<1> SUFFICES ASSUME Inv, [Next]_ledger PROVE GoodStep(ledger, ledger')
  BY DEF GoodStep, Inv
<1>0. GoodLedger(ledger)
  BY DEF Inv
<1>1. CASE CreateAccount
  <2>1. PICK id \in AccountId, flags \in InputFlags, scale \in Scale, ts \in Timestamp :
          Return(create_account(ledger, [id |-> id, flags |-> flags, scale |-> scale,
                                         timestamp |-> ts]))
    BY <1>1 DEF CreateAccount
  <2> DEFINE op == [id |-> id, flags |-> flags, scale |-> scale, timestamp |-> ts]
  <2>2. create_account_ok(ledger, op) => GoodStep(ledger, create_account_write(ledger, op))
    BY <1>0, CreateAccountGood, InputAssumption DEF create_account_ok
  <2>3. create_account_ok(ledger, op) \in BOOLEAN
    BY Zenon DEF create_account_ok
  <2>4. GoodStep(ledger, create_account(ledger, op).ledger)
    BY <1>0, <2>2, <2>3, AttemptGood DEF create_account
  <2> QED BY <2>1, <2>4 DEF Return
<1>2. CASE CloseAccount
  <2>1. PICK id \in AccountId, ts \in Timestamp :
          Return(close_account(ledger, [id |-> id, timestamp |-> ts]))
    BY <1>2 DEF CloseAccount
  <2> DEFINE op == [id |-> id, timestamp |-> ts]
  <2>2. close_account_ok(ledger, op) => id \in DOMAIN ledger.accounts
    BY DEF close_account_ok
  <2>3. close_account_ok(ledger, op) => GoodStep(ledger, close_account_write(ledger, op))
    BY <1>0, <2>2, CloseAccountGood
  <2>4. close_account_ok(ledger, op) \in BOOLEAN
    BY Zenon DEF close_account_ok
  <2>5. GoodStep(ledger, close_account(ledger, op).ledger)
    BY <1>0, <2>3, <2>4, AttemptGood DEF close_account
  <2> QED BY <2>1, <2>5 DEF Return
<1>3. CASE CreateTransfer
  <2>1. PICK id \in TransferId, debit \in AccountId, credit \in AccountId,
             amount \in InputAmount, link \in InputLink, ts \in Timestamp :
          Return(create_transfer(ledger,
                     LinkedTransfer(id, debit, credit, amount, "Posted", link, ts)))
    BY <1>3 DEF CreateTransfer
  <2> DEFINE t == LinkedTransfer(id, debit, credit, amount, "Posted", link, ts)
  <2>2. t \in Transfer
    BY InputAssumption DEF LinkedTransfer, NewTransfer, Transfer, TransferState
  <2>3. create_transfer_ok(ledger, t) => GoodStep(ledger, create_transfer_write(ledger, t))
    BY <1>0, <2>2, CreateTransferGood
  <2>4. create_transfer_ok(ledger, t) \in BOOLEAN
    BY Zenon DEF create_transfer_ok
  <2>5. GoodStep(ledger, create_transfer(ledger, t).ledger)
    BY <1>0, <2>3, <2>4, AttemptGood DEF create_transfer
  <2> QED BY <2>1, <2>5 DEF Return
<1>4. CASE CreatePending
  <2>1. PICK id \in TransferId, debit \in AccountId, credit \in AccountId,
             amount \in InputAmount, link \in InputLink, ts \in Timestamp :
          Return(create_pending(ledger,
                     LinkedTransfer(id, debit, credit, amount, "Pending", link, ts)))
    BY <1>4 DEF CreatePending
  <2> DEFINE t == LinkedTransfer(id, debit, credit, amount, "Pending", link, ts)
  <2>2. t \in Transfer
    BY InputAssumption DEF LinkedTransfer, NewTransfer, Transfer, TransferState
  <2>3. create_pending_ok(ledger, t) => GoodStep(ledger, create_pending_write(ledger, t))
    BY <1>0, <2>2, CreatePendingGood
  <2>4. create_pending_ok(ledger, t) \in BOOLEAN
    BY Zenon DEF create_pending_ok
  <2>5. GoodStep(ledger, create_pending(ledger, t).ledger)
    BY <1>0, <2>3, <2>4, AttemptGood DEF create_pending
  <2> QED BY <2>1, <2>5 DEF Return
<1>5. CASE PostPending
  <2>1. PICK pid \in TransferId, sid \in TransferId, amount \in InputAmount,
             ts \in Timestamp :
          Return(post_pending(ledger, [pending_id |-> pid, post_transfer_id |-> sid,
                                       amount |-> amount, timestamp |-> ts]))
    BY <1>5 DEF PostPending
  <2> DEFINE op == [pending_id |-> pid, post_transfer_id |-> sid, amount |-> amount,
                    timestamp |-> ts]
  <2>2. amount \in Amount
    BY InputAssumption
  <2>3. post_pending_ok(ledger, op) => GoodStep(ledger, post_pending_write(ledger, op))
    BY <1>0, <2>2, PostPendingGood
  <2>4. post_pending_ok(ledger, op) \in BOOLEAN
    BY Zenon DEF post_pending_ok
  <2>5. GoodStep(ledger, post_pending(ledger, op).ledger)
    BY <1>0, <2>3, <2>4, AttemptGood DEF post_pending
  <2> QED BY <2>1, <2>5 DEF Return
<1>6. CASE VoidPending
  <2>1. PICK pid \in TransferId, ts \in Timestamp :
          Return(void_pending(ledger, [pending_id |-> pid, timestamp |-> ts]))
    BY <1>6 DEF VoidPending
  <2> DEFINE op == [pending_id |-> pid, timestamp |-> ts]
  <2>2. void_pending_ok(ledger, op) => GoodStep(ledger, void_pending_write(ledger, op))
    BY <1>0, VoidPendingGood
  <2>3. void_pending_ok(ledger, op) \in BOOLEAN
    BY Zenon DEF void_pending_ok
  <2>4. GoodStep(ledger, void_pending(ledger, op).ledger)
    BY <1>0, <2>2, <2>3, AttemptGood DEF void_pending
  <2> QED BY <2>1, <2>4 DEF Return
<1>7. CASE UNCHANGED ledger
  BY <1>0, <1>7, ExtendsItself DEF GoodStep, GoodLedger
<1> QED BY <1>1, <1>2, <1>3, <1>4, <1>5, <1>6, <1>7 DEF Next

\* Type correctness for every instance: balances stay u128 values.
THEOREM TypeCorrect == Spec => []TypeOK
<1>1. Inv => TypeOK
  BY DEF Inv, GoodLedger, TypeOK
<1> QED BY <1>1, InitInv, NextInv, PTL DEF Spec

\* No sequence of transfers, holds, captures, voids and closes takes an account
\* past the limit its flags set.
THEOREM LimitsAlwaysRespected == Spec => []LimitsRespected
<1>1. Inv => LimitsRespected
  BY DEF Inv, GoodLedger, LimitsRespected, accounts
<1> QED BY <1>1, InitInv, NextInv, PTL DEF Spec

\* No call rewrites history.
THEOREM HistoryAlwaysKept == Spec => HistoryKept
<1>1. Inv /\ [Next]_ledger => [Extends(ledger', ledger)]_ledger
  BY NextInv
<1> QED BY <1>1, InitInv, NextInv, PTL DEF Spec, HistoryKept
=============================================================================
