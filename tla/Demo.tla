-------------------------------- MODULE Demo --------------------------------
(***************************************************************************)
(* The payment application of apps/demo: its HTTP handlers run on worker   *)
(* threads over shared state behind separate locks.  A request is a        *)
(* process; a handler is cut into steps wherever another handler's writes  *)
(* can come in between, which is where it takes or releases a lock or      *)
(* draws from an atomic counter it uses later.                             *)
(*                                                                         *)
(* Every request is sent once, when a worker is free.  Customers,          *)
(* merchants and payments are small numbers; metrics and pages are left    *)
(* out.                                                                    *)
(***************************************************************************)
EXTENDS LedgerCore, SettlementProgram

CONSTANTS Scenario,        \* sets of concurrent requests, each a sequence
          Workers,         \* tokio worker threads
          Customers, Merchants,   \* ids of the sample accounts, as sequences
          InitialDeposit,  \* initial_customer_deposit
          FreshnessWindow, \* max_allowed_seconds of webhooks
          SeedDeposit, Seeds,     \* what quick_seed deposits and creates
          SimulatedDrift,  \* what drift_simulate stores
          RailKey          \* the authority of the Solana rail

ASSUME DemoAssumption == RailKey \in Key /\ Workers \in Nat \ {0}

VARIABLES ledger, payments, idempotency, seen_events,
          ids,             \* next_payment_id, next_transfer_id, next_timestamp
          batch_seq, simulated_drift,
          rail,            \* SolanaUsdcRail: its account, latest_mmr, settled_transfers, batch_seq
          locks,           \* the locks and who holds them
          reqs,            \* requests: input, where the handler is, its locals, its answer
          batches          \* batches the rails accepted, a history

money == <<ledger, payments>>
gates == <<idempotency, seen_events>>
settlement == <<batch_seq, rail, batches>>
vars == <<money, gates, ids, settlement, simulated_drift, locks, reqs>>

-----------------------------------------------------------------------------
(* AppState::new *)

VAULT_ASSET == 1
FEE_REVENUE == 2
customer(c) == 100 + c
merchant(m) == 200 + m

setup_accounts ==
    LET scale == CHOOSE s \in Scale : TRUE
        opened(L, id, flags) ==
            create_account(L, [id |-> id, flags |-> flags, scale |-> scale,
                               timestamp |-> 0]).ledger
        funded(L, k) ==
            IF InitialDeposit = 0 THEN L
            ELSE create_transfer(L, NewTransfer(100 + k, VAULT_ASSET, customer(Customers[k]),
                                                InitialDeposit, "Posted", 0)).ledger
        base == opened(opened(Ledger_new(scale), VAULT_ASSET, bank_asset_flags),
                       FEE_REVENUE, fee_revenue_flags)
        with_merchants == FoldLeft(LAMBDA L, m : opened(L, merchant(m), customer_flags),
                                   base, Merchants)
    IN  FoldLeftDomain(LAMBDA L, k : funded(opened(L, customer(Customers[k]), customer_flags), k),
                       with_merchants, Customers)

Rail_new ==
    [pda |-> process_initialize_write(initialize(RailKey)), mmr |-> Mmr_new,
     settled_transfers |-> << >>, batch_seq |-> 0]

Lock == {"settlement", "payments", "ledger", "pda", "settled_transfers"}

NoAnswer == [status |-> "none"]

Init ==
    /\ ledger = setup_accounts
    /\ payments = EmptyMap
    /\ idempotency = EmptyMap
    /\ seen_events = {}
    /\ ids = [payment |-> 1, transfer |-> 1, timestamp |-> 1]
    /\ batch_seq = 0
    /\ simulated_drift = 0
    /\ rail = Rail_new
    /\ locks = [l \in Lock |-> [write |-> {}, read |-> {}]]
    /\ \E sc \in Scenario :
         reqs = [i \in DOMAIN sc |-> [in |-> sc[i], pc |-> "new", loc |-> NoAnswer,
                                      answer |-> NoAnswer]]
    /\ batches = << >>

-----------------------------------------------------------------------------
(* Handlers as processes *)

Running == {i \in DOMAIN reqs : reqs[i].pc \notin {"new", "done"}}

Start(i, kind) ==
    reqs[i].pc = "new" /\ reqs[i].in.kind = kind /\ Cardinality(Running) < Workers

At(i, kind, pc) == reqs[i].pc = pc /\ reqs[i].in.kind = kind

Goto(i, pc, loc) == reqs' = [reqs EXCEPT ![i].pc = pc, ![i].loc = loc]

Respond(i, answer) == reqs' = [reqs EXCEPT ![i].pc = "done", ![i].answer = answer]

Error == [status |-> "error"]

CanRead(l) == locks[l].write = {}
CanWrite(l) == locks[l].write = {} /\ locks[l].read = {}

Take(l, mode, i) == locks' = [locks EXCEPT ![l][mode] = @ \cup {i}]

Released(held, i) == [held EXCEPT !.write = @ \ {i}, !.read = @ \ {i}]

\* Returning from a handler drops its guards.
ReleaseAll(i) == locks' = [l \in Lock |-> Released(locks[l], i)]

-----------------------------------------------------------------------------
(* Payments *)

new_authorized(r, transfer_id) ==
    [merchant_id |-> r.merchant_id, customer_id |-> r.customer_id, amount |-> r.amount,
     state |-> "Authorized", pending_transfer_id |-> transfer_id,
     posted_transfer_id |-> NoTransfer, settlement_batch_seq |-> 0]

transition_to_captured(p, post_id) ==
    [p EXCEPT !.state = "Captured", !.posted_transfer_id = post_id]

transition_to_voided(p) == [p EXCEPT !.state = "Voided"]

HoldFor(r, id, ts) ==
    NewTransfer(id, customer(r.customer_id), merchant(r.merchant_id), r.amount, "Pending", ts)

PostOf(p, post_id, ts) ==
    [pending_id |-> p.pending_transfer_id, post_transfer_id |-> post_id, amount |-> p.amount,
     timestamp |-> ts]

\* IdempotencyStore: a key is absent, InProgress, or Completed with a response.
InProgress == [status |-> "InProgress"]
Completed(response) == [status |-> "Completed", response |-> response]

\* Deviation: a key in progress does not stop a second request.
Bug_acquire_in_progress(key) ==
    IF key \in DOMAIN idempotency /\ idempotency[key] # InProgress
    THEN idempotency[key] ELSE NoAnswer

\* try_acquire: NoAnswer when the key was absent and is now acquired.
try_acquire(key) ==
    IF key \in DOMAIN idempotency THEN idempotency[key] ELSE NoAnswer

\* Deviation: a failed request keeps its key.
Bug_key_kept(key) == idempotency

release_on_failure(key) == [k \in DOMAIN idempotency \ {key} |-> idempotency[k]]

AuthorizeBegin(i) ==
    /\ Start(i, "authorize")
    /\ \E found \in {try_acquire(reqs[i].in.key)} :
         \/ /\ found = InProgress                             \* ConcurrentRequest
            /\ Respond(i, Error)
            /\ UNCHANGED <<idempotency, ids>>
         \/ /\ found.status = "Completed"
            /\ Respond(i, [status |-> "ok", payment_id |-> found.response])
            /\ UNCHANGED <<idempotency, ids>>
         \/ /\ found = NoAnswer
            /\ idempotency' = MapInsert(idempotency, reqs[i].in.key, InProgress)
            /\ ids' = [payment |-> ids.payment + 1, transfer |-> ids.transfer + 1,
                       timestamp |-> ids.timestamp + 1]
            /\ Goto(i, "hold", [payment_id |-> ids.payment, transfer_id |-> ids.transfer,
                                now |-> ids.timestamp])
    /\ UNCHANGED <<money, seen_events, settlement, simulated_drift, locks>>

AuthorizeHold(i) ==
    /\ At(i, "authorize", "hold") /\ CanWrite("ledger")
    /\ LET loc == reqs[i].loc
       IN  \E out \in {create_pending(ledger, HoldFor(reqs[i].in, loc.transfer_id, loc.now))} :
             IF out.ok
             THEN ledger' = out.ledger /\ Goto(i, "insert", loc) /\ UNCHANGED idempotency
             ELSE /\ idempotency' = release_on_failure(reqs[i].in.key)
                  /\ Respond(i, Error) /\ UNCHANGED ledger
    /\ UNCHANGED <<payments, seen_events, ids, settlement, simulated_drift, locks>>

AuthorizeInsert(i) ==
    /\ At(i, "authorize", "insert") /\ CanWrite("payments")
    /\ LET loc == reqs[i].loc
       IN  /\ payments' = MapInsert(payments, loc.payment_id,
                                    new_authorized(reqs[i].in, loc.transfer_id))
           /\ Goto(i, "complete", loc)
    /\ UNCHANGED <<ledger, gates, ids, settlement, simulated_drift, locks>>

AuthorizeComplete(i) ==
    /\ At(i, "authorize", "complete")
    /\ idempotency' = MapInsert(idempotency, reqs[i].in.key, Completed(reqs[i].loc.payment_id))
    /\ Respond(i, [status |-> "ok", payment_id |-> reqs[i].loc.payment_id])
    /\ UNCHANGED <<money, seen_events, ids, settlement, simulated_drift, locks>>

\* handle_capture and handle_void keep the payments lock while they call the ledger.
SettleHoldBegin(i) ==
    /\ Start(i, "capture") \/ Start(i, "void")
    /\ CanWrite("payments")
    /\ IF reqs[i].in.payment_id \notin DOMAIN payments        \* 404
       THEN Respond(i, Error) /\ UNCHANGED <<ids, locks>>
       ELSE /\ Take("payments", "write", i)
            /\ ids' = [ids EXCEPT !.timestamp = @ + 1,
                                  !.transfer = IF reqs[i].in.kind = "capture" THEN @ + 1 ELSE @]
            /\ Goto(i, "ledger", [transfer_id |-> ids.transfer, now |-> ids.timestamp])
    /\ UNCHANGED <<money, gates, settlement, simulated_drift>>

\* Deviation: a hold the ledger refuses to settle is recorded as settled.
Bug_transition_regardless(id, settled, next) ==
    IF payments[id].state = "Authorized" THEN [payments EXCEPT ![id] = next] ELSE payments

\* The payment follows the ledger when the ledger settled its hold.
Transitioned(id, settled, next) ==
    IF settled /\ payments[id].state = "Authorized"           \* InvalidStateTransition
    THEN [payments EXCEPT ![id] = next] ELSE payments

SettleHoldLedger(i) ==
    /\ At(i, "capture", "ledger") \/ At(i, "void", "ledger")
    /\ CanWrite("ledger")
    /\ LET id  == reqs[i].in.payment_id
           p   == payments[id]
           loc == reqs[i].loc
           captures == reqs[i].in.kind = "capture"
       IN  \E out \in {IF captures THEN post_pending(ledger, PostOf(p, loc.transfer_id, loc.now))
                       ELSE void_pending(ledger, [pending_id |-> p.pending_transfer_id,
                                                  timestamp |-> loc.now])} :
             /\ ledger' = out.ledger
             /\ payments' = Transitioned(id, out.ok, IF captures
                                                     THEN transition_to_captured(p, loc.transfer_id)
                                                     ELSE transition_to_voided(p))
             /\ Respond(i, IF payments' = payments THEN Error
                           ELSE [status |-> "ok", payment_id |-> id])
    /\ ReleaseAll(i)
    /\ UNCHANGED <<gates, ids, settlement, simulated_drift>>

DepositBegin(i) ==
    /\ Start(i, "deposit")
    /\ ids' = [ids EXCEPT !.timestamp = @ + 1, !.transfer = @ + 1]
    /\ Goto(i, "ledger", [transfer_id |-> ids.transfer, now |-> ids.timestamp])
    /\ UNCHANGED <<money, gates, settlement, simulated_drift, locks>>

DepositLedger(i) ==
    /\ At(i, "deposit", "ledger") /\ CanWrite("ledger")
    /\ LET loc == reqs[i].loc
           r   == reqs[i].in
       IN  \E out \in {create_transfer(ledger, NewTransfer(loc.transfer_id, VAULT_ASSET,
                                   customer(r.customer_id), r.amount, "Posted", loc.now))} :
             /\ ledger' = out.ledger
             /\ Respond(i, IF out.ok THEN [status |-> "ok"] ELSE Error)
    /\ UNCHANGED <<payments, gates, ids, settlement, simulated_drift, locks>>

-----------------------------------------------------------------------------
(* Webhooks *)

verify_freshness(event_time, current_time) ==
    /\ event_time - current_time <= FreshnessWindow
    /\ current_time - event_time <= FreshnessWindow

\* The event is recorded as seen before it is processed.
WebhookReceive(i) ==
    /\ Start(i, "webhook")
    /\ LET r == reqs[i].in
           fresh == verify_freshness(r.timestamp, ids.timestamp)
           accepted == r.signed /\ fresh /\ r.event_id \notin seen_events
       IN  /\ seen_events' = IF accepted THEN seen_events \cup {r.event_id} ELSE seen_events
           /\ ids' = [ids EXCEPT
                        !.timestamp = IF r.signed THEN @ + 1 ELSE @,
                        !.transfer = IF accepted /\ r.event_type = "charge.authorized"
                                     THEN @ + 1 ELSE @]
           /\ \/ accepted /\ r.event_type = "charge.authorized"
                          /\ Goto(i, "hold", [transfer_id |-> ids.transfer])
              \/ accepted /\ r.event_type = "charge.captured" /\ Goto(i, "post", NoAnswer)
              \/ /\ accepted /\ r.event_type \notin {"charge.authorized", "charge.captured"}
                 /\ Respond(i, Error)                         \* unknown event type
              \/ /\ ~ accepted                                \* 401, ExpiredTimestamp, 409
                 /\ Respond(i, IF r.signed /\ fresh THEN [status |-> "duplicate"] ELSE Error)
    /\ UNCHANGED <<money, idempotency, settlement, simulated_drift, locks>>

WebhookHold(i) ==
    /\ At(i, "webhook", "hold") /\ CanWrite("ledger")
    /\ LET r == reqs[i].in
       IN  \E out \in {create_pending(ledger, HoldFor(r, reqs[i].loc.transfer_id, r.timestamp))} :
             /\ ledger' = out.ledger
             /\ IF out.ok THEN Goto(i, "insert", reqs[i].loc) ELSE Respond(i, Error)
    /\ UNCHANGED <<payments, gates, ids, settlement, simulated_drift, locks>>

WebhookInsert(i) ==
    /\ At(i, "webhook", "insert") /\ CanWrite("payments")
    /\ payments' = MapInsert(payments, reqs[i].in.payment_id,
                             new_authorized(reqs[i].in, reqs[i].loc.transfer_id))
    /\ Respond(i, [status |-> "ok"])
    /\ UNCHANGED <<ledger, gates, ids, settlement, simulated_drift, locks>>

\* A capture of a payment that is not there is acknowledged.
WebhookPost(i) ==
    /\ At(i, "webhook", "post") /\ CanWrite("payments") /\ CanWrite("ledger")
    /\ LET r  == reqs[i].in
           id == r.payment_id
       IN  IF id \notin DOMAIN payments
           THEN Respond(i, [status |-> "ok"]) /\ UNCHANGED <<money, ids>>
           ELSE \E out \in {post_pending(ledger, PostOf(payments[id], ids.transfer, r.timestamp))} :
                  /\ ids' = [ids EXCEPT !.transfer = @ + 1]
                  /\ ledger' = out.ledger
                  /\ payments' = Transitioned(id, out.ok,
                                     transition_to_captured(payments[id], ids.transfer))
                  /\ Respond(i, IF payments' = payments THEN Error ELSE [status |-> "ok"])
    /\ UNCHANGED <<gates, settlement, simulated_drift, locks>>

-----------------------------------------------------------------------------
(* Settlement *)

\* Deviation: batches are gathered without looking whether a payment was settled.
Bug_unsettled_all ==
    {id \in DOMAIN ledger.transfers :
        \E p \in DOMAIN payments : /\ payments[p].state = "Captured"
                                   /\ payments[p].posted_transfer_id = id}

\* The posted transfers of the captured payments that no batch holds yet.
unsettled ==
    {id \in DOMAIN ledger.transfers :
        \E p \in DOMAIN payments : /\ payments[p].state = "Captured"
                                   /\ payments[p].settlement_batch_seq = 0
                                   /\ payments[p].posted_transfer_id = id}

TransferSeq(S) == LET order == SetToSortSeq(S, <)
                  IN  [k \in DOMAIN order |-> ledger.transfers[order[k]]]

\* The handler holds settlement_lock to its end.
SettleGather(i) ==
    /\ Start(i, "settle")
    /\ CanWrite("settlement") /\ CanRead("payments") /\ CanRead("ledger") /\ CanRead("pda")
    /\ IF unsettled = {}                                      \* no transfers to settle
       THEN Respond(i, Error) /\ UNCHANGED locks
       ELSE /\ Take("settlement", "write", i)
            /\ Goto(i, "submit", [transfers |-> TransferSeq(unsettled),
                                  seq |-> (IF reqs[i].in.rail = "Mock-ACH" THEN batch_seq
                                           ELSE rail.pda.batch_seq) + 1])
    /\ UNCHANGED <<money, gates, ids, settlement, simulated_drift>>

Accepted(i, root) ==
    batches' = Append(batches, [rail |-> reqs[i].in.rail, seq |-> reqs[i].loc.seq,
                                transfers |-> reqs[i].loc.transfers, root |-> root])

\* MockAchRail::submit_batch
SettleAch(i) ==
    /\ At(i, "settle", "submit") /\ reqs[i].in.rail = "Mock-ACH"
    /\ Accepted(i, Hash32_ZERO)
    /\ Goto(i, "mark", reqs[i].loc)
    /\ UNCHANGED <<money, gates, ids, batch_seq, rail, simulated_drift, locks>>

CommitOf(loc) ==
    commit_settlement(RailKey,
        [batch_seq |-> loc.seq, merkle_root |-> mmr_root(mmr_of(loc.transfers)),
         previous_root |-> rail.pda.merkle_root, transfer_count |-> Len(loc.transfers),
         total_settled_amount |-> total_of(loc.transfers)])

\* SolanaUsdcRail::submit_batch: the account is locked from the commit until the
\* receipts have been switched to the new batch, one field at a time.
SettleSolana(i) ==
    /\ At(i, "settle", "submit") /\ reqs[i].in.rail = "Solana-USDC" /\ CanWrite("pda")
    /\ \E ix \in {CommitOf(reqs[i].loc)} :
         IF process_commit_settlement_ok(rail.pda, ix)
         THEN /\ rail' = [rail EXCEPT !.pda = process_commit_settlement_write(@, ix)]
              /\ Accepted(i, ix.params.merkle_root)
              /\ Take("pda", "write", i)
              /\ Goto(i, "mmr", reqs[i].loc)
         ELSE Respond(i, Error) /\ ReleaseAll(i) /\ UNCHANGED <<rail, batches>>
    /\ UNCHANGED <<money, gates, ids, batch_seq, simulated_drift>>

SettleMmr(i) ==
    /\ At(i, "settle", "mmr")
    /\ rail' = [rail EXCEPT !.mmr = mmr_of(reqs[i].loc.transfers)]
    /\ Goto(i, "transfers", reqs[i].loc)
    /\ UNCHANGED <<money, gates, ids, batch_seq, batches, simulated_drift, locks>>

SettleTransfers(i) ==
    /\ At(i, "settle", "transfers") /\ CanWrite("settled_transfers")
    /\ rail' = [rail EXCEPT !.settled_transfers = reqs[i].loc.transfers]
    /\ Goto(i, "store", reqs[i].loc)
    /\ UNCHANGED <<money, gates, ids, batch_seq, batches, simulated_drift, locks>>

SettleStore(i) ==
    /\ At(i, "settle", "store")
    /\ rail' = [rail EXCEPT !.batch_seq = reqs[i].loc.seq]
    /\ locks' = [locks EXCEPT !["pda"] = Released(@, i)]
    /\ Goto(i, "mark", reqs[i].loc)
    /\ UNCHANGED <<money, gates, ids, batch_seq, batches, simulated_drift>>

\* Only the payments whose transfer is in the batch are marked.
SettleMark(i) ==
    /\ At(i, "settle", "mark") /\ CanWrite("payments")
    /\ LET settled == {t.id : t \in ToSet(reqs[i].loc.transfers)}
       IN  payments' = [id \in DOMAIN payments |->
               LET p == payments[id]
               IN  IF /\ p.state = "Captured" /\ p.settlement_batch_seq = 0
                      /\ p.posted_transfer_id \in settled
                   THEN [p EXCEPT !.settlement_batch_seq = reqs[i].loc.seq] ELSE p]
    /\ batch_seq' = batch_seq + 1
    /\ Respond(i, [status |-> "ok", batch_seq |-> reqs[i].loc.seq])
    /\ ReleaseAll(i)
    /\ UNCHANGED <<ledger, gates, ids, rail, batches, simulated_drift>>

-----------------------------------------------------------------------------
(* Receipts *)

Unverified == [status |-> "ok", verified |-> FALSE]

VerifyRead(i) ==
    /\ Start(i, "verify") /\ CanRead("payments")
    /\ LET id == reqs[i].in.payment_id
       IN  IF id \notin DOMAIN payments THEN Respond(i, Error)          \* 404
           ELSE IF payments[id].posted_transfer_id = NoTransfer THEN Respond(i, Unverified)
           ELSE Goto(i, "receipt", [transfer_id |-> payments[id].posted_transfer_id])
    /\ UNCHANGED <<money, gates, ids, settlement, simulated_drift, locks>>

\* receipt_for_transfer keeps settled_transfers locked until the proof is made.
VerifyReceipt(i) ==
    /\ At(i, "verify", "receipt") /\ CanRead("settled_transfers")
    /\ LET at == {k \in DOMAIN rail.settled_transfers :
                    rail.settled_transfers[k].id = reqs[i].loc.transfer_id}
       IN  IF rail.batch_seq = 0 \/ at = {}
           THEN Respond(i, Unverified) /\ UNCHANGED locks
           ELSE /\ Take("settled_transfers", "read", i)
                /\ Goto(i, "proof", [index |-> Min(at), batch_seq |-> rail.batch_seq])
    /\ UNCHANGED <<money, gates, ids, settlement, simulated_drift>>

\* generate_receipt, with the range that is there by now, and TransferReceipt::verify.
VerifyProof(i) ==
    /\ At(i, "verify", "proof")
    /\ LET k == reqs[i].loc.index
           root == mmr_root(rail.mmr)
           verified == /\ k <= leaf_count(rail.mmr)           \* LeafIndexOutOfBounds
                       /\ proof_verify(generate_proof(rail.mmr, k - 1), root,
                                       hash_leaf(rail.settled_transfers[k]))
       IN  Respond(i, IF ~ verified THEN Unverified
                      ELSE [status |-> "ok", verified |-> TRUE, root |-> root,
                            transfer_id |-> rail.settled_transfers[k].id,
                            batch_seq |-> reqs[i].loc.batch_seq])
    /\ ReleaseAll(i)
    /\ UNCHANGED <<money, gates, ids, settlement, simulated_drift>>

-----------------------------------------------------------------------------
(* Reconciliation and the dashboard *)

AppTotal(ps) ==
    MapThenSumSet(LAMBDA id : ps[id].amount, {id \in DOMAIN ps : ps[id].state = "Captured"})

LedgerTotal ==
    MapThenSumSet(LAMBDA m : ledger.accounts[merchant(m)].balance.credits_posted,
                  ToSet(Merchants))

\* The report of ReconciliationEngine::audit with the simulated drift added to it.
audit(app_total, chain) ==
    LET drift == LedgerTotal - app_total
        is_clean == drift = 0 /\ (chain.batch_seq = 0
                                  \/ chain.total_settled_amount = LedgerTotal)
    IN  [status |-> "ok", drift |-> drift + simulated_drift,
         clean |-> is_clean /\ simulated_drift = 0]

\* handle_simulate_drift and handle_heal_drift store and then reconcile.
DriftStore(i) ==
    /\ Start(i, "drift_simulate") \/ Start(i, "drift_heal")
    /\ simulated_drift' = IF reqs[i].in.kind = "drift_simulate" THEN SimulatedDrift ELSE 0
    /\ Goto(i, "payments", NoAnswer)
    /\ UNCHANGED <<money, gates, ids, settlement, locks>>

\* The payments stay locked while the ledger and the account are read.
ReconcilePayments(i) ==
    /\ Start(i, "reconcile") \/ reqs[i].pc = "payments"
    /\ CanRead("payments")
    /\ Take("payments", "read", i)
    /\ Goto(i, "read_ledger", NoAnswer)
    /\ UNCHANGED <<money, gates, ids, settlement, simulated_drift>>

ReconcileLedger(i) ==
    /\ reqs[i].pc = "read_ledger" /\ CanRead("ledger")
    /\ Take("ledger", "read", i)
    /\ Goto(i, "audit", NoAnswer)
    /\ UNCHANGED <<money, gates, ids, settlement, simulated_drift>>

ReconcileAudit(i) ==
    /\ reqs[i].pc = "audit" /\ CanRead("pda")
    /\ ids' = [ids EXCEPT !.timestamp = @ + 1]
    /\ Respond(i, audit(AppTotal(payments), rail.pda))
    /\ ReleaseAll(i)
    /\ UNCHANGED <<money, gates, settlement, simulated_drift>>

\* handle_dashboard_data copies the payments, then the root, then reads the ledger.
DashboardPayments(i) ==
    /\ Start(i, "dashboard") /\ CanRead("payments")
    /\ Goto(i, "root", [app_total |-> AppTotal(payments)])
    /\ UNCHANGED <<money, gates, ids, settlement, simulated_drift, locks>>

DashboardRoot(i) ==
    /\ At(i, "dashboard", "root") /\ CanRead("pda")
    /\ Goto(i, "report", [app_total |-> reqs[i].loc.app_total, pda |-> rail.pda])
    /\ UNCHANGED <<money, gates, ids, settlement, simulated_drift, locks>>

DashboardReport(i) ==
    /\ At(i, "dashboard", "report") /\ CanRead("ledger")
    /\ ids' = [ids EXCEPT !.timestamp = @ + 1]
    /\ Respond(i, audit(reqs[i].loc.app_total, reqs[i].loc.pda))
    /\ UNCHANGED <<money, gates, settlement, simulated_drift, locks>>

-----------------------------------------------------------------------------
(* Sample data *)

\* The deposits are made under one lock of the ledger; the first error ends it.
SeedDeposits(i) ==
    /\ Start(i, "seed") /\ CanWrite("ledger")
    /\ LET step(acc, c) ==
             LET out == create_transfer(acc.ledger,
                            NewTransfer(acc.ids.transfer, VAULT_ASSET, customer(c), SeedDeposit,
                                        "Posted", acc.ids.timestamp))
             IN  IF ~ acc.ok THEN acc
                 ELSE [ok |-> out.ok, ledger |-> out.ledger,
                       ids |-> [acc.ids EXCEPT !.transfer = @ + 1, !.timestamp = @ + 1]]
       IN  \E out \in {FoldLeft(step, [ok |-> TRUE, ledger |-> ledger, ids |-> ids], Customers)} :
             /\ ledger' = out.ledger
             /\ ids' = out.ids
             /\ IF out.ok THEN Goto(i, "alloc", [k |-> 1]) ELSE Respond(i, Error)
    /\ UNCHANGED <<payments, gates, settlement, simulated_drift, locks>>

SeedAlloc(i) ==
    /\ At(i, "seed", "alloc")
    /\ ids' = [payment |-> ids.payment + 1, transfer |-> ids.transfer + 1,
               timestamp |-> ids.timestamp + 1]
    /\ Goto(i, "hold", [k |-> reqs[i].loc.k, payment_id |-> ids.payment, now |-> ids.timestamp,
                        payment |-> new_authorized(Seeds[reqs[i].loc.k], ids.transfer),
                        post_id |-> NoTransfer])
    /\ UNCHANGED <<money, gates, settlement, simulated_drift, locks>>

\* The hold, and what the transition that follows it draws from the counters.
SeedHold(i) ==
    /\ At(i, "seed", "hold") /\ CanWrite("ledger")
    /\ LET loc == reqs[i].loc
           target == Seeds[loc.k].target
       IN  \E out \in {create_pending(ledger, HoldFor(loc.payment, loc.payment.pending_transfer_id,
                                                      loc.now))} :
             /\ ledger' = out.ledger
             /\ IF out.ok /\ target # "authorized"
                THEN /\ ids' = [ids EXCEPT !.timestamp = @ + 1,
                                           !.transfer = IF target = "captured" THEN @ + 1 ELSE @]
                     /\ Goto(i, "settle", [loc EXCEPT !.now = ids.timestamp,
                                                      !.post_id = ids.transfer])
                ELSE /\ UNCHANGED ids
                     /\ IF out.ok THEN Goto(i, "insert", loc) ELSE Respond(i, Error)
    /\ UNCHANGED <<payments, gates, settlement, simulated_drift, locks>>

SeedSettle(i) ==
    /\ At(i, "seed", "settle") /\ CanWrite("ledger")
    /\ LET loc == reqs[i].loc
           p   == loc.payment
           captures == Seeds[loc.k].target = "captured"
       IN  \E out \in {IF captures
                       THEN post_pending(ledger, PostOf(p, loc.post_id, loc.now))
                       ELSE void_pending(ledger, [pending_id |-> p.pending_transfer_id,
                                                  timestamp |-> loc.now])} :
             /\ ledger' = out.ledger
             /\ IF ~ out.ok THEN Respond(i, Error)
                ELSE Goto(i, "insert",
                          [loc EXCEPT !.payment =
                              IF captures THEN transition_to_captured(p, loc.post_id)
                              ELSE transition_to_voided(p)])
    /\ UNCHANGED <<payments, gates, ids, settlement, simulated_drift, locks>>

SeedInsert(i) ==
    /\ At(i, "seed", "insert") /\ CanWrite("payments")
    /\ LET loc == reqs[i].loc
       IN  /\ payments' = MapInsert(payments, loc.payment_id, loc.payment)
           /\ IF loc.k = Len(Seeds) THEN Respond(i, [status |-> "ok"])
              ELSE Goto(i, "alloc", [k |-> loc.k + 1])
    /\ UNCHANGED <<ledger, gates, ids, settlement, simulated_drift, locks>>

-----------------------------------------------------------------------------

Step(i) ==
    \/ AuthorizeBegin(i) \/ AuthorizeHold(i) \/ AuthorizeInsert(i) \/ AuthorizeComplete(i)
    \/ SettleHoldBegin(i) \/ SettleHoldLedger(i) \/ DepositBegin(i) \/ DepositLedger(i)
    \/ WebhookReceive(i) \/ WebhookHold(i) \/ WebhookInsert(i) \/ WebhookPost(i)
    \/ SettleGather(i) \/ SettleAch(i) \/ SettleSolana(i) \/ SettleMmr(i)
    \/ SettleTransfers(i) \/ SettleStore(i) \/ SettleMark(i)
    \/ VerifyRead(i) \/ VerifyReceipt(i) \/ VerifyProof(i)
    \/ DriftStore(i) \/ ReconcilePayments(i) \/ ReconcileLedger(i) \/ ReconcileAudit(i)
    \/ DashboardPayments(i) \/ DashboardRoot(i) \/ DashboardReport(i)
    \/ SeedDeposits(i) \/ SeedAlloc(i) \/ SeedHold(i) \/ SeedSettle(i) \/ SeedInsert(i)

\* Every request has been answered and no more come.
Idle == (\A i \in DOMAIN reqs : reqs[i].pc = "done") /\ UNCHANGED vars

Next == (\E i \in DOMAIN reqs : Step(i)) \/ Idle

Spec == Init /\ [][Next]_vars

\* A handler that has started and can go on does: it awaits nothing that suspends and
\* runs to its end on the worker thread that picked it up.
FairSpec ==
    /\ Spec
    /\ \A i \in UNION {DOMAIN sc : sc \in Scenario} :
         WF_vars(i \in DOMAIN reqs /\ reqs[i].pc # "new" /\ Step(i))

-----------------------------------------------------------------------------
(* What the application promises *)

\* Captured by quick_seed in the ledger and not yet among the payments.
Seeding ==
    MapThenSumSet(LAMBDA i : reqs[i].loc.payment.amount,
                  {i \in DOMAIN reqs : At(i, "seed", "insert")
                                       /\ reqs[i].loc.payment.state = "Captured"})

\* Whoever can lock the payments finds that the captured ones add up to what the
\* ledger has credited the merchants, but for a sample payment on its way from the
\* one to the other: reconciliation reports no drift that is not there, whatever
\* captures, voids, webhooks and settlements run beside it (handle_capture keeps
\* the payments lock across the ledger call, handle_reconciliation across both reads).
NoDrift == CanRead("payments") => LedgerTotal = AppTotal(payments) + Seeding

\* A capture is settled by at most one batch of either rail, the payments marked
\* are exactly those in accepted batches once the settlement lock is free, and the
\* account's total is the sum of the batches of its rail (handle_settlement_batch).
SettlementExact ==
    LET inBatch(n) == {t.id : t \in ToSet(batches[n].transfers)}
        marked == {payments[p].posted_transfer_id :
                     p \in {q \in DOMAIN payments : payments[q].settlement_batch_seq # 0}}
        onChain == SelectSeq(batches, LAMBDA b : b.rail = "Solana-USDC")
    IN  /\ \A m, n \in DOMAIN batches : m # n => inBatch(m) \cap inBatch(n) = {}
        /\ CanRead("settlement") => marked = UNION {inBatch(n) : n \in DOMAIN batches}
        /\ rail.pda.batch_seq = Len(onChain)
        /\ rail.pda.total_settled_amount
             = FoldLeft(LAMBDA sum, b : sum + total_of(b.transfers), 0, onChain)

\* Requests with one idempotency key make at most one hold between them, and all
\* that succeed name the same payment (try_acquire, complete, release_on_failure).
OneHoldPerKey ==
    \A i, j \in DOMAIN reqs :
        /\ i # j
        /\ reqs[i].in.kind = "authorize" /\ reqs[j].in.kind = "authorize"
        /\ reqs[i].in.key = reqs[j].in.key
        => /\ ~ (reqs[i].pc \in {"insert", "complete"} /\ reqs[j].pc \in {"insert", "complete"})
           /\ reqs[i].answer.status = "ok" /\ reqs[j].answer.status = "ok"
                => reqs[i].answer.payment_id = reqs[j].answer.payment_id

\* A payment reported as verified is in a batch committed on the chain under the
\* root its receipt shows, even if the next batch was being published meanwhile
\* (receipt_for_transfer against submit_batch).
VerifiedIsSettled ==
    \A i \in DOMAIN reqs :
        (reqs[i].in.kind = "verify" /\ reqs[i].pc = "done" /\ reqs[i].answer.status = "ok"
           /\ reqs[i].answer.verified)
        => \E n \in DOMAIN batches :
             /\ batches[n].rail = "Solana-USDC"
             /\ batches[n].root = reqs[i].answer.root
             /\ reqs[i].answer.transfer_id \in {t.id : t \in ToSet(batches[n].transfers)}

\* No idempotency key stays in progress: every request that acquires one ends by
\* completing or releasing it, so a client can always retry.
KeysResolved ==
    \A key \in {r.key : r \in {q \in UNION {ToSet(sc) : sc \in Scenario} :
                                 q.kind = "authorize"}} :
        []<>(key \in DOMAIN idempotency => idempotency[key] # InProgress)

\* An event is refused as a duplicate only when another delivery of it was, or is
\* being, processed ("if this `event_id` has already been processed").
RefusedWasProcessed ==
    \A i \in DOMAIN reqs :
        reqs[i].answer.status = "duplicate" =>
            \E j \in DOMAIN reqs : /\ reqs[j].in.kind = "webhook"
                                   /\ reqs[j].in.event_id = reqs[i].in.event_id
                                   /\ j # i
                                   /\ reqs[j].pc # "new"
                                   /\ reqs[j].answer.status \in {"none", "ok"}
=============================================================================
