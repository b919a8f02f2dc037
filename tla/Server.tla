------------------------------- MODULE Server -------------------------------
(***************************************************************************)
(* The gRPC service of crates/ingest: what each method makes of its        *)
(* message before it submits a command, and of the entity the engine       *)
(* answers with.  A u128 travels as two words, written <<low, high>>; an   *)
(* optional field is a sequence of at most one element.                    *)
(***************************************************************************)
EXTENDS LedgerCore

CONSTANTS Word,         \* values of a word, 2^64 in the code
          ServerScale   \* LedgerServer::scale

ASSUME ServerAssumption == /\ Word \in Nat \ {0} /\ MaxAmount = Word * Word - 1
                           /\ ServerScale \in Scale

\* Deviation: the high word is lost.
Bug_join_low(words) == words[1]

join_u128(words) == words[2] * Word + words[1]

split_u128(val) == <<val % Word, val \div Word>>

\* A scale of 0 is an unset one and passes; another must be the server's.
parse_amount_ok(amount) ==
    amount # << >> /\ (Head(amount).scale = 0 \/ Head(amount).scale = ServerScale)

parse_amount(amount) == join_u128(Head(amount).units)

AccountTypes == {"Asset", "Liability", "Equity", "Revenue", "Expense"}

\* proto_to_flags: no flags are the default ones.
proto_to_flags(flags) ==
    IF flags = << >> THEN [flag \in DOMAIN customer_flags |-> FALSE] ELSE Head(flags)

-----------------------------------------------------------------------------
(* Requests *)

\* An operation that one of the conversions refuses never reaches the queue.
op_ok(m) ==
    /\ m.type # "Empty"
    /\ m.type = "CreateAccount" => m.account_type \in AccountTypes /\ m.scale \in Scale
    /\ m.type \in {"Transfer", "Pending", "PostPending"} => parse_amount_ok(m.amount)

TransferOf(m, state) ==
    NewTransfer(join_u128(m.id), join_u128(m.debit_account_id), join_u128(m.credit_account_id),
                parse_amount(m.amount), state, m.timestamp)

\* The operation of a message, the transfer constructors left to into_batch_op.
IngestOp(m) ==
    CASE m.type = "CreateAccount" ->
           [type |-> m.type, id |-> join_u128(m.id), flags |-> proto_to_flags(m.flags),
            scale |-> m.scale, timestamp |-> m.timestamp]
      [] m.type = "Transfer" -> [type |-> m.type, transfer |-> TransferOf(m, "Posted")]
      [] m.type = "Pending"  -> [type |-> m.type, transfer |-> TransferOf(m, "Pending")]
      [] m.type = "PostPending" ->
           [type |-> m.type, pending_id |-> join_u128(m.pending_id),
            post_transfer_id |-> join_u128(m.post_transfer_id),
            amount |-> parse_amount(m.amount), timestamp |-> m.timestamp]
      [] m.type = "VoidPending" ->
           [type |-> m.type, pending_id |-> join_u128(m.pending_id), timestamp |-> m.timestamp]

IsQuery(r) == r.rpc \in {"get_account", "get_transfer"}

\* A single mutation and a batch differ in how they are answered.
request_ok(r) == ~ IsQuery(r) => \A k \in DOMAIN r.ops : op_ok(r.ops[k])

Operations(r) == [k \in DOMAIN r.ops |-> IngestOp(r.ops[k])]

\* The entity the answer to an operation shows.
target(op) ==
    CASE op.type = "CreateAccount" -> op.id
      [] op.type \in {"Transfer", "Pending"} -> op.transfer.id
      [] op.type = "PostPending" -> op.post_transfer_id
      [] op.type = "VoidPending" -> op.pending_id

-----------------------------------------------------------------------------
(* Responses *)

amount_to_proto(amount) == [units |-> split_u128(amount), scale |-> ServerScale]

balance_to_proto(balance) == [side \in DOMAIN balance |-> amount_to_proto(balance[side])]

account_to_proto(id, account) ==
    [id |-> split_u128(id), flags |-> account.flags, balance |-> balance_to_proto(account.balance)]

transfer_to_proto(t) ==
    [id |-> split_u128(t.id), debit_account_id |-> split_u128(t.debit_account_id),
     credit_account_id |-> split_u128(t.credit_account_id), amount |-> amount_to_proto(t.amount),
     state |-> t.state, timestamp |-> t.timestamp,
     pending_id |-> IF t.pending_id = NoTransfer THEN << >> ELSE <<split_u128(t.pending_id)>>]

NoResponse == [found |-> FALSE]

\* What a method returns for an entity of the ledger, if it is there.
AccountResponse(L, id) ==
    IF id \in DOMAIN L.accounts
    THEN [found |-> TRUE, entity |-> "account", body |-> account_to_proto(id, L.accounts[id])]
    ELSE NoResponse

TransferResponse(L, id) ==
    IF id \in DOMAIN L.transfers
    THEN [found |-> TRUE, entity |-> "transfer", body |-> transfer_to_proto(L.transfers[id])]
    ELSE NoResponse
=============================================================================
