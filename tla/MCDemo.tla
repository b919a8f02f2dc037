------------------------------- MODULE MCDemo -------------------------------
(* Small instances of Demo for TLC. *)
EXTENDS Demo

CONSTANT operator

MCCustomers == <<1>>
MCMerchants == <<1>>

MCSeed(target) == [customer_id |-> 1, merchant_id |-> 1, amount |-> 1, target |-> target]
MCSeeds == <<MCSeed("captured"), MCSeed("authorized"), MCSeed("voided")>>

Authorize(key, amount) ==
    [kind |-> "authorize", key |-> key, customer_id |-> 1, merchant_id |-> 1, amount |-> amount]
On(kind, payment_id) == [kind |-> kind, payment_id |-> payment_id]
Deposit(amount) == [kind |-> "deposit", customer_id |-> 1, amount |-> amount]
Webhook(event_id, event_type, ts) ==
    [kind |-> "webhook", signed |-> TRUE, event_id |-> event_id, event_type |-> event_type,
     payment_id |-> 9, customer_id |-> 1, merchant_id |-> 1, amount |-> 1, timestamp |-> ts]
Settle(name) == [kind |-> "settle", rail |-> name]
Plain(kind) == [kind |-> kind]

\* Retries of one key, with an amount the customer has and one they have not,
\* against a capture and a void of the payment.
Retries == <<Authorize("k", 1), Authorize("k", 1), Authorize("k", 3), On("capture", 1), On("void", 1)>>

\* Two batches on the chain while a payment of the first is verified.
Receipts == <<Plain("seed"), Settle("Solana-USDC"), On("capture", 2), Settle("Solana-USDC"),
              On("verify", 1)>>

\* Both rails, and reconciliation.
Rails == <<Plain("seed"), Settle("Mock-ACH"), On("capture", 2), Settle("Solana-USDC"),
           Plain("reconcile")>>

\* The three ways to an audit.
Audits == <<Plain("seed"), Plain("dashboard"), Plain("drift_simulate"), Plain("drift_heal")>>

\* A charge authorized and captured by webhooks, one of them delivered twice, an
\* event of a type that is not handled, and one that is not signed.
Webhooks == <<Webhook("e1", "charge.authorized", 2), Webhook("e1", "charge.authorized", 2),
              Webhook("e2", "charge.captured", 3), Webhook("e3", "charge.refunded", 2),
              [Webhook("e4", "charge.captured", 3) EXCEPT !.signed = FALSE],
              Deposit(1)>>

\* A batch the account's total has no room for.
Overflow == <<Plain("seed"), Authorize("k", 2), On("capture", 4), Settle("Solana-USDC")>>

\* Requests whose timestamps reach the ledger out of order.
Clocks == <<Plain("seed"), Deposit(1), Webhook("e1", "charge.authorized", 3),
            On("verify", 2)>>

MCScenario == {Retries, Receipts, Rails, Audits, Webhooks, Overflow, Clocks}

\* One event, delivered again after it failed.
MCRedelivery == {<<Webhook("e1", "charge.authorized", 1), Webhook("e1", "charge.authorized", 1),
                   Deposit(1)>>}
=============================================================================
