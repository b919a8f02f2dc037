----------------------------- MODULE LedgerCore -----------------------------
(***************************************************************************)
(* The double-entry ledger of crates/ledger-core as operators on a ledger  *)
(* value.  A ledger is the record of the Rust struct: scale, accounts,     *)
(* transfers, journal and last_timestamp; the two BTreeMaps are functions  *)
(* on the identifiers in use.                                              *)
(*                                                                         *)
(* Every mutation F of the Rust type is a pair: F_ok(L, ...), the          *)
(* conjunction of its checks in the order the code makes them, each        *)
(* followed by the error it returns, and F_write(L, ...), the ledger after *)
(* its writes.  Attempt puts the two together.                             *)
(***************************************************************************)
EXTENDS Integers, Sequences, FiniteSets, FiniteSetsExt

CONSTANTS AccountId,        \* account identifiers (u128)
          TransferId,       \* transfer identifiers (u128)
          NoTransfer,       \* pending_id = None
          Scale,            \* decimal scales
          MaxAmount,        \* u128::MAX, the largest Amount
          MaxTimestamp,     \* u64::MAX, the largest timestamp
          DebugAssertions   \* TRUE: built with cfg(debug_assertions)

ASSUME AmountAssumption == MaxAmount \in Nat
ASSUME TimestampAssumption == MaxTimestamp \in Nat
ASSUME NoTransferAssumption == NoTransfer \notin TransferId
ASSUME BuildAssumption == DebugAssertions \in BOOLEAN

Amount == 0 .. MaxAmount
Timestamp == 0 .. MaxTimestamp
TransferState == {"Pending", "Posted", "Voided"}

AccountFlags == [debits_must_not_exceed_credits : BOOLEAN,
                 credits_must_not_exceed_debits : BOOLEAN,
                 is_closed : BOOLEAN]

Balance == [debits_posted : Amount, credits_posted : Amount,
            debits_pending : Amount, credits_pending : Amount]

\* The account type only steers reports (net_settled) and the account's scale
\* always equals the ledger's, so neither is kept.
Account == [flags : AccountFlags, balance : Balance]

Transfer == [id : TransferId, debit_account_id : AccountId,
             credit_account_id : AccountId, amount : Amount,
             state : TransferState, pending_id : TransferId \cup {NoTransfer},
             timestamp : Timestamp]

LedgerEvent ==
    [type : {"AccountCreated"}, id : AccountId, flags : AccountFlags, scale : Scale,
     timestamp : Timestamp]
    \cup [type : {"AccountClosed"}, id : AccountId, timestamp : Timestamp]
    \cup [type : {"TransferPosted", "TransferPendingCreated"}, transfer : Transfer]
    \cup [type : {"TransferPendingPosted"}, pending_id : TransferId,
          post_transfer_id : TransferId, amount : Amount, timestamp : Timestamp]
    \cup [type : {"TransferPendingVoided"}, pending_id : TransferId, amount : Amount,
          timestamp : Timestamp]

Balance_new == [debits_posted |-> 0, credits_posted |-> 0,
                debits_pending |-> 0, credits_pending |-> 0]

\* AccountFlags::customer, bank_asset and fee_revenue.
customer_flags == [debits_must_not_exceed_credits |-> TRUE,
                   credits_must_not_exceed_debits |-> FALSE, is_closed |-> FALSE]
bank_asset_flags == [debits_must_not_exceed_credits |-> FALSE,
                     credits_must_not_exceed_debits |-> TRUE, is_closed |-> FALSE]
fee_revenue_flags == [debits_must_not_exceed_credits |-> FALSE,
                      credits_must_not_exceed_debits |-> FALSE, is_closed |-> FALSE]

\* Transfer::new_immediate (state Posted) and new_pending (state Pending).  Their
\* checks are made again, with the same outcome, by validate_new_transfer.
NewTransfer(id, from, to, amount, state, ts) ==
    [id |-> id, debit_account_id |-> from, credit_account_id |-> to, amount |-> amount,
     state |-> state, pending_id |-> NoTransfer, timestamp |-> ts]

EmptyMap == [x \in {} |-> x]

MapInsert(map, k, v) == [x \in DOMAIN map \cup {k} |-> IF x = k THEN v ELSE map[x]]

Ledger_new(scale) ==
    [scale |-> scale, accounts |-> EmptyMap, transfers |-> EmptyMap,
     journal |-> << >>, last_timestamp |-> 0]

\* L is a Ledger: maps on identifiers in use, every transfer filed under its id.
IsAccounts(accounts) ==
    /\ accounts = [a \in DOMAIN accounts |-> accounts[a]]
    /\ DOMAIN accounts \subseteq AccountId
    /\ \A a \in DOMAIN accounts : accounts[a] \in Account

IsTransfers(transfers) ==
    /\ transfers = [i \in DOMAIN transfers |-> transfers[i]]
    /\ DOMAIN transfers \subseteq TransferId
    /\ \A i \in DOMAIN transfers : transfers[i] \in Transfer /\ transfers[i].id = i

IsLedger(L) ==
    /\ L.scale \in Scale
    /\ IsAccounts(L.accounts)
    /\ IsTransfers(L.transfers)
    /\ L.journal \in Seq(LedgerEvent)
    /\ L.last_timestamp \in Timestamp

checked_add_ok(x, y) == x + y <= MaxAmount
checked_sub_ok(x, y) == y <= x

-----------------------------------------------------------------------------
(* Account limits *)
\* Deviation: reserved debits do not count against the limit.
Bug_debit_ignores_pending(acc, amount) ==
    /\ ~ acc.flags.is_closed
    /\ acc.flags.debits_must_not_exceed_credits =>
         acc.balance.debits_posted + amount <= acc.balance.credits_posted

ensure_can_debit(acc, amount) ==
    /\ ~ acc.flags.is_closed                                  \* AccountClosed
    /\ acc.flags.debits_must_not_exceed_credits =>
         LET total == acc.balance.debits_posted + acc.balance.debits_pending + amount
         IN  /\ total <= MaxAmount                            \* ArithmeticOverflow
             /\ total <= acc.balance.credits_posted           \* InsufficientFunds

ensure_can_credit(acc, amount) ==
    /\ ~ acc.flags.is_closed                                  \* AccountClosed
    /\ acc.flags.credits_must_not_exceed_debits =>
         LET total == acc.balance.credits_posted + acc.balance.credits_pending + amount
         IN  /\ total <= MaxAmount                            \* ArithmeticOverflow
             /\ total <= acc.balance.debits_posted            \* InsufficientFunds

-----------------------------------------------------------------------------
(* verify_invariants: the ledger's audit of itself *)

Total(L, field) ==
    MapThenSumSet(LAMBDA a : L.accounts[a].balance[field], DOMAIN L.accounts)

Held(L, side, a) ==
    MapThenSumSet(LAMBDA t : L.transfers[t].amount,
                  {t \in DOMAIN L.transfers : /\ L.transfers[t].state = "Pending"
                                              /\ L.transfers[t][side] = a})

validate_pending_link(L, t) ==
    t.pending_id # NoTransfer =>
        /\ t.pending_id \in DOMAIN L.transfers                \* PendingLinkMissing
        /\ L.transfers[t.pending_id].state = "Posted"         \* InvalidPendingLink

\* A sum of the audit exceeds u128: checked_add returns ArithmeticOverflow.
TotalsOverflow(L) ==
    \E field \in DOMAIN Balance_new : Total(L, field) > MaxAmount

verify_structure(L) ==
    /\ \A i \in DOMAIN L.transfers :
         LET t == L.transfers[i]
         IN  /\ t.debit_account_id \in DOMAIN L.accounts      \* AccountNotFound
             /\ t.credit_account_id \in DOMAIN L.accounts     \* AccountNotFound
             /\ t.state = "Posted" => validate_pending_link(L, t)
             /\ t.state = "Voided" => t.pending_id = NoTransfer
    /\ \A a \in DOMAIN L.accounts :                           \* PendingBalanceMismatch
         /\ L.accounts[a].balance.debits_pending = Held(L, "debit_account_id", a)
         /\ L.accounts[a].balance.credits_pending = Held(L, "credit_account_id", a)

verify_invariants(L) ==
    /\ ~ TotalsOverflow(L)
    /\ Total(L, "debits_posted") = Total(L, "credits_posted")
    /\ Total(L, "debits_pending") = Total(L, "credits_pending")
    /\ verify_structure(L)

-----------------------------------------------------------------------------
(* Steps shared by the mutations *)
check_timestamp(L, timestamp) == timestamp >= L.last_timestamp

advance_timestamp(L, timestamp) ==
    IF timestamp > L.last_timestamp THEN timestamp ELSE L.last_timestamp

\* The outcome of a call: its Result and the ledger it leaves.  A debug build
\* audits the ledger after the writes and returns the audit's error.
Attempt(L, ok, written) ==
    IF ok THEN [ok |-> DebugAssertions => verify_invariants(written), ledger |-> written]
          ELSE [ok |-> FALSE, ledger |-> L]

\* Add to the posted and pending debits of t's debit account and, the same
\* quantities, to the credits of its credit account.
Move(accounts, t, posted, pending) ==
    LET debit(a, x) == IF a = t.debit_account_id THEN x ELSE 0
        credit(a, x) == IF a = t.credit_account_id THEN x ELSE 0
    IN  [a \in DOMAIN accounts |->
          LET b == accounts[a].balance
          IN  [flags |-> accounts[a].flags,
               balance |-> [debits_posted   |-> b.debits_posted + debit(a, posted),
                            credits_posted  |-> b.credits_posted + credit(a, posted),
                            debits_pending  |-> b.debits_pending + debit(a, pending),
                            credits_pending |-> b.credits_pending + credit(a, pending)]]]

Record(L, accounts, transfers, timestamp, event) ==
    [scale |-> L.scale, accounts |-> accounts, transfers |-> transfers,
     journal |-> Append(L.journal, event),
     last_timestamp |-> advance_timestamp(L, timestamp)]

-----------------------------------------------------------------------------
(* Accounts *)

create_account_ok(L, op) ==
    /\ check_timestamp(L, op.timestamp)                       \* TimestampBehindPrior
    /\ op.id \notin DOMAIN L.accounts                         \* AccountAlreadyExists
    /\ op.scale = L.scale                                     \* ScaleMismatch

create_account_write(L, op) ==
    Record(L, MapInsert(L.accounts, op.id, [flags |-> op.flags, balance |-> Balance_new]),
           L.transfers, op.timestamp,
           [type |-> "AccountCreated", id |-> op.id, flags |-> op.flags,
            scale |-> op.scale, timestamp |-> op.timestamp])

close_account_ok(L, op) ==
    /\ check_timestamp(L, op.timestamp)                       \* TimestampBehindPrior
    /\ op.id \in DOMAIN L.accounts                            \* AccountNotFound
    /\ ~ L.accounts[op.id].flags.is_closed                    \* AccountClosed
\* Deviation: closing starts the balance afresh.
Bug_close_clears_balance(accounts, id) ==
    [accounts EXCEPT ![id] = [flags |-> [accounts[id].flags EXCEPT !.is_closed = TRUE],
                              balance |-> Balance_new]]

Closed(accounts, id) ==
    [accounts EXCEPT ![id] = [flags |-> [accounts[id].flags EXCEPT !.is_closed = TRUE],
                              balance |-> accounts[id].balance]]
close_account_write(L, op) ==
    Record(L, Closed(L.accounts, op.id),
           L.transfers, op.timestamp,
           [type |-> "AccountClosed", id |-> op.id, timestamp |-> op.timestamp])

-----------------------------------------------------------------------------
(* New transfers *)
\* Deviation: an identifier in use is accepted again.
Bug_id_reused(L, t) ==
    /\ t.debit_account_id # t.credit_account_id
    /\ t.amount # 0
    /\ t.state = "Pending" => t.pending_id = NoTransfer

validate_new_transfer(L, t) ==
    /\ t.id \notin DOMAIN L.transfers                         \* TransferAlreadyExists
    /\ t.debit_account_id # t.credit_account_id               \* DebitCreditAccountSame
    /\ t.amount # 0                                           \* ZeroAmountTransfer
    /\ t.state = "Pending" => t.pending_id = NoTransfer       \* InvalidPendingLink
\* Deviation: the link to a hold is not validated.
Bug_link_unchecked(L, t) ==
    /\ check_timestamp(L, t.timestamp) /\ t.state = "Posted"
    /\ validate_new_transfer(L, t)
    /\ {t.debit_account_id, t.credit_account_id} \subseteq DOMAIN L.accounts
    /\ ensure_can_debit(L.accounts[t.debit_account_id], t.amount)
    /\ ensure_can_credit(L.accounts[t.credit_account_id], t.amount)

create_transfer_ok(L, t) ==
    /\ check_timestamp(L, t.timestamp)                        \* TimestampBehindPrior
    /\ t.state = "Posted"                                     \* InvalidTransferState
    /\ validate_new_transfer(L, t)
    /\ validate_pending_link(L, t)
    /\ t.debit_account_id \in DOMAIN L.accounts               \* AccountNotFound
    /\ ensure_can_debit(L.accounts[t.debit_account_id], t.amount)
    /\ checked_add_ok(L.accounts[t.debit_account_id].balance.debits_posted, t.amount)
    /\ t.credit_account_id \in DOMAIN L.accounts              \* AccountNotFound
    /\ ensure_can_credit(L.accounts[t.credit_account_id], t.amount)
    /\ checked_add_ok(L.accounts[t.credit_account_id].balance.credits_posted, t.amount)
\* Deviation: the journal loses the link.
Bug_link_not_journaled(L, t) ==
    Record(L, Move(L.accounts, t, t.amount, 0), MapInsert(L.transfers, t.id, t), t.timestamp,
           [type |-> "TransferPosted", transfer |-> [t EXCEPT !.pending_id = NoTransfer]])

create_transfer_write(L, t) ==
    Record(L, Move(L.accounts, t, t.amount, 0), MapInsert(L.transfers, t.id, t),
           t.timestamp, [type |-> "TransferPosted", transfer |-> t])

create_pending_ok(L, t) ==
    /\ check_timestamp(L, t.timestamp)                        \* TimestampBehindPrior
    /\ t.state = "Pending"                                    \* InvalidTransferState
    /\ validate_new_transfer(L, t)
    /\ t.debit_account_id \in DOMAIN L.accounts               \* AccountNotFound
    /\ ensure_can_debit(L.accounts[t.debit_account_id], t.amount)
    /\ checked_add_ok(L.accounts[t.debit_account_id].balance.debits_pending, t.amount)
    /\ t.credit_account_id \in DOMAIN L.accounts              \* AccountNotFound
    /\ ensure_can_credit(L.accounts[t.credit_account_id], t.amount)
    /\ checked_add_ok(L.accounts[t.credit_account_id].balance.credits_pending, t.amount)

create_pending_write(L, t) ==
    Record(L, Move(L.accounts, t, 0, t.amount), MapInsert(L.transfers, t.id, t),
           t.timestamp, [type |-> "TransferPendingCreated", transfer |-> t])

-----------------------------------------------------------------------------
(* Settling and releasing holds *)
\* Deviation: holds on closed accounts cannot be released.
Bug_release_needs_open(L, t) ==
    /\ {t.debit_account_id, t.credit_account_id} \subseteq DOMAIN L.accounts
    /\ ~ L.accounts[t.debit_account_id].flags.is_closed
    /\ checked_sub_ok(L.accounts[t.debit_account_id].balance.debits_pending, t.amount)
    /\ checked_sub_ok(L.accounts[t.credit_account_id].balance.credits_pending, t.amount)

\* The two account lookups and checked_subs that release hold t.
release_ok(L, t) ==
    /\ t.debit_account_id \in DOMAIN L.accounts               \* AccountNotFound
    /\ checked_sub_ok(L.accounts[t.debit_account_id].balance.debits_pending, t.amount)
    /\ t.credit_account_id \in DOMAIN L.accounts              \* AccountNotFound
    /\ checked_sub_ok(L.accounts[t.credit_account_id].balance.credits_pending, t.amount)
\* Deviation: the capture is not compared with the hold.
Bug_capture_unbounded(L, op) ==
    /\ check_timestamp(L, op.timestamp)
    /\ op.post_transfer_id \notin DOMAIN L.transfers
    /\ op.pending_id \in DOMAIN L.transfers
    /\ L.transfers[op.pending_id].state = "Pending"
    /\ op.amount # 0
    /\ release_ok(L, L.transfers[op.pending_id])

post_pending_ok(L, op) ==
    /\ check_timestamp(L, op.timestamp)                       \* TimestampBehindPrior
    /\ op.post_transfer_id \notin DOMAIN L.transfers          \* TransferAlreadyExists
    /\ op.pending_id \in DOMAIN L.transfers                   \* TransferNotFound
    /\ LET t == L.transfers[op.pending_id]
       IN  /\ t.state = "Pending"                             \* InvalidTransferState
           /\ op.amount <= t.amount                           \* PartialAmountExceedsPending
           /\ op.amount # 0                                   \* ZeroAmountTransfer
           /\ release_ok(L, t)
           /\ checked_add_ok(L.accounts[t.debit_account_id].balance.debits_posted, op.amount)
           /\ checked_add_ok(L.accounts[t.credit_account_id].balance.credits_posted, op.amount)
\* Deviation: the settlement keeps the identifier of its hold.
Bug_settlement_keeps_id(L, op) ==
    [L.transfers[op.pending_id] EXCEPT !.amount = op.amount, !.state = "Posted",
        !.pending_id = op.pending_id, !.timestamp = op.timestamp]

new_settlement(L, op) ==
    [L.transfers[op.pending_id] EXCEPT
        !.id = op.post_transfer_id, !.amount = op.amount, !.state = "Posted",
        !.pending_id = op.pending_id, !.timestamp = op.timestamp]
\* Capturing: posted is what reaches the balances, journaled what the event says.
CaptureWrite(L, op, posted, journaled) ==
    LET t == L.transfers[op.pending_id]
    IN  Record(L, Move(L.accounts, t, posted, 0 - t.amount),
               MapInsert([L.transfers EXCEPT ![op.pending_id].state = "Posted"],
                         op.post_transfer_id, new_settlement(L, op)),
               op.timestamp,
               [type |-> "TransferPendingPosted", pending_id |-> op.pending_id,
                post_transfer_id |-> op.post_transfer_id, amount |-> journaled,
                timestamp |-> op.timestamp])

\* Deviation: a partial capture posts the whole hold.
Bug_capture_posts_hold(L, op) ==
    CaptureWrite(L, op, L.transfers[op.pending_id].amount, op.amount)

post_pending_write(L, op) == CaptureWrite(L, op, op.amount, op.amount)

void_pending_ok(L, op) ==
    /\ check_timestamp(L, op.timestamp)                       \* TimestampBehindPrior
    /\ op.pending_id \in DOMAIN L.transfers                   \* TransferNotFound
    /\ L.transfers[op.pending_id].state = "Pending"           \* InvalidTransferState
    /\ release_ok(L, L.transfers[op.pending_id])

void_pending_write(L, op) ==
    LET t == L.transfers[op.pending_id]
    IN  Record(L, Move(L.accounts, t, 0, 0 - t.amount),
               [L.transfers EXCEPT ![op.pending_id].state = "Voided"],
               op.timestamp,
               [type |-> "TransferPendingVoided", pending_id |-> op.pending_id,
                amount |-> t.amount, timestamp |-> op.timestamp])

-----------------------------------------------------------------------------
(* Calls, batch operations and journal events *)

create_account(L, op)  == Attempt(L, create_account_ok(L, op), create_account_write(L, op))
close_account(L, op)   == Attempt(L, close_account_ok(L, op), close_account_write(L, op))
create_transfer(L, t)  == Attempt(L, create_transfer_ok(L, t), create_transfer_write(L, t))
create_pending(L, t)   == Attempt(L, create_pending_ok(L, t), create_pending_write(L, t))
post_pending(L, op)    == Attempt(L, post_pending_ok(L, op), post_pending_write(L, op))
void_pending(L, op)    == Attempt(L, void_pending_ok(L, op), void_pending_write(L, op))

apply_batch_op(L, op) ==
    CASE op.type = "CreateAccount" -> create_account(L, op)
      [] op.type = "CloseAccount"  -> close_account(L, op)
      [] op.type = "Transfer"      -> create_transfer(L, op.transfer)
      [] op.type = "Pending"       -> create_pending(L, op.transfer)
      [] op.type = "PostPending"   -> post_pending(L, op)
      [] op.type = "VoidPending"   -> void_pending(L, op)
\* Deviation: a void in the journal must release less than the hold.
Bug_void_event_partial(L, event) ==
    /\ event.pending_id \in DOMAIN L.transfers
    /\ event.amount < L.transfers[event.pending_id].amount

\* The event of a void carries the amount it released; it must be the hold's.
void_event_ok(L, event) ==
    /\ event.pending_id \in DOMAIN L.transfers                \* TransferNotFound
    /\ L.transfers[event.pending_id].amount = event.amount    \* JournalVoidedAmountMismatch

apply_event(L, event) ==
    CASE event.type = "AccountCreated"         -> create_account(L, event)
      [] event.type = "AccountClosed"          -> close_account(L, event)
      [] event.type = "TransferPosted"         -> create_transfer(L, event.transfer)
      [] event.type = "TransferPendingCreated" -> create_pending(L, event.transfer)
      [] event.type = "TransferPendingPosted"  -> post_pending(L, event)
      [] event.type = "TransferPendingVoided"  ->
             IF void_event_ok(L, event) THEN void_pending(L, event)
                                        ELSE [ok |-> FALSE, ledger |-> L]

\* replay: apply the events in order to an empty ledger, stopping at an error.
replay(scale, events) ==
    LET after[n \in 0 .. Len(events)] ==
          IF n = 0 THEN [ok |-> TRUE, ledger |-> Ledger_new(scale)]
          ELSE IF after[n - 1].ok THEN apply_event(after[n - 1].ledger, events[n])
          ELSE after[n - 1]
    IN  after[Len(events)]
=============================================================================
