------------------------------ MODULE MCEngine ------------------------------
(* Small instances of Engine for TLC. *)
EXTENDS Engine, TLC

CONSTANTS c1, c2, c3, c4, c5

\* A word has two values: ids and amounts have two bits.
Words(val) == <<val % Word, val \div Word>>

bank == Words(1)
cust == Words(3)
pay1 == Words(2)
hold1 == Words(0)
post1 == Words(3)

Amounts(units, scale) == <<[units |-> Words(units), scale |-> scale]>>

Open(id, flags) ==
    [type |-> "CreateAccount", id |-> id, account_type |-> "Liability", flags |-> flags,
     scale |-> ServerScale, timestamp |-> 0]
Tr(type, id, debit, credit, amount) ==
    [type |-> type, id |-> id, debit_account_id |-> debit, credit_account_id |-> credit,
     amount |-> amount, timestamp |-> 0]
Capture(id, post, amount) ==
    [type |-> "PostPending", pending_id |-> id, post_transfer_id |-> post, amount |-> amount,
     timestamp |-> 0]
Release(id) == [type |-> "VoidPending", pending_id |-> id, timestamp |-> 0]

Mutate(op) == [rpc |-> "mutate", ops |-> <<op>>]
Batch(ops) == [rpc |-> "apply_batch", ops |-> ops]

Accounts == Batch(<<Open(bank, << >>), Open(cust, <<customer_flags>>)>>)
Payment == Mutate(Tr("Transfer", pay1, bank, cust, Amounts(2, 0)))
Hold(debit, credit) == Tr("Pending", hold1, debit, credit, Amounts(1, ServerScale))

\* Clients that hold and capture in one batch, or send one too large for a record;
\* that repeat a payment and ask for it; that capture and void one hold; each time
\* among requests that the service or the transfer constructors refuse.
MCTraffic ==
    { c1 :> Accounts
      @@ c2 :> Payment
      @@ c3 :> Batch(<<Hold(cust, bank), Capture(hold1, post1, Amounts(1, 0))>>)
      @@ c4 :> Batch(<<Tr("Transfer", hold1, bank, cust, Amounts(1, 0)),
                       Tr("Transfer", post1, bank, cust, Amounts(1, 0)),
                       Tr("Transfer", pay1, bank, cust, Amounts(1, 0))>>)
      @@ c5 :> Mutate(Capture(hold1, post1, << >>)),
      c1 :> Accounts
      @@ c2 :> Payment
      @@ c3 :> [Payment EXCEPT !.ops[1].timestamp = 3]
      @@ c4 :> [rpc |-> "get_transfer", id |-> pay1]
      @@ c5 :> Mutate(Tr("Transfer", post1, bank, cust, Amounts(1, ServerScale + 1))),
      c1 :> Accounts
      @@ c2 :> Mutate(Hold(bank, cust))
      @@ c3 :> Mutate(Capture(hold1, post1, Amounts(1, 0)))
      @@ c4 :> Mutate(Release(hold1))
      @@ c5 :> [rpc |-> "get_transfer", id |-> hold1],
      c1 :> Mutate(Open(cust, <<customer_flags>>))
      @@ c2 :> Batch(<<Open(bank, << >>), [type |-> "Empty"]>>)
      @@ c3 :> Mutate(Tr("Transfer", pay1, bank, bank, Amounts(1, 0)))
      @@ c4 :> [rpc |-> "get_account", id |-> cust]
      @@ c5 :> Mutate([Open(bank, << >>) EXCEPT !.account_type = "Unspecified"]) }
=============================================================================
