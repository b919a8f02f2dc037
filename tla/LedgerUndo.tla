----------------------------- MODULE LedgerUndo -----------------------------
(***************************************************************************)
(* The batch interface of the ledger as operators: speculative             *)
(* preparation, commit of journal events and the undo log both rest on.    *)
(* The code mutates the live ledger and reverts it from recorded           *)
(* pre-images; the model does the same, pre-image by pre-image, so that    *)
(* what a rollback misses stays visible.                                   *)
(***************************************************************************)
EXTENDS LedgerCore, SequencesExt

-----------------------------------------------------------------------------
(* The undo log *)

push_balance_before(L, id) ==
    <<[type |-> "AccountBalanceBefore", id |-> id, balance |-> L.accounts[id].balance]>>

TransferPreImages(L, t) ==
    push_balance_before(L, t.debit_account_id)
    \o push_balance_before(L, t.credit_account_id)

HoldPreImages(L, id) ==
    TransferPreImages(L, L.transfers[id])
    \o <<[type |-> "TransferStateBefore", id |-> id, state |-> L.transfers[id].state]>>

LegsExist(L, t) == {t.debit_account_id, t.credit_account_id} \subseteq DOMAIN L.accounts

pre_images_ok(L, event) ==
    CASE event.type = "AccountCreated" -> TRUE
      [] event.type = "AccountClosed" -> event.id \in DOMAIN L.accounts
      [] event.type \in {"TransferPosted", "TransferPendingCreated"} ->
             LegsExist(L, event.transfer)
      [] event.type \in {"TransferPendingPosted", "TransferPendingVoided"} ->
             /\ event.pending_id \in DOMAIN L.transfers
             /\ LegsExist(L, L.transfers[event.pending_id])

pre_images(L, event) ==
    CASE event.type = "AccountCreated" -> <<[type |-> "RemoveAccount", id |-> event.id]>>
      [] event.type = "AccountClosed" ->
             <<[type |-> "AccountFlagsBefore", id |-> event.id,
                flags |-> L.accounts[event.id].flags]>>
      [] event.type \in {"TransferPosted", "TransferPendingCreated"} ->
             TransferPreImages(L, event.transfer)
             \o <<[type |-> "RemoveTransfer", id |-> event.transfer.id]>>
      [] event.type = "TransferPendingPosted" ->
             HoldPreImages(L, event.pending_id)
             \o <<[type |-> "RemoveTransfer", id |-> event.post_transfer_id]>>
      [] event.type = "TransferPendingVoided" -> HoldPreImages(L, event.pending_id)

\* A BatchOp touches what the event it emits touches.
EventType == [CreateAccount |-> "AccountCreated", CloseAccount |-> "AccountClosed",
              Transfer |-> "TransferPosted", Pending |-> "TransferPendingCreated",
              PostPending |-> "TransferPendingPosted", VoidPending |-> "TransferPendingVoided"]

AsEvent(op) == [op EXCEPT !.type = EventType[op.type]]

op_pre_images_ok(L, op) ==
    /\ op.type = "CreateAccount" => op.id \notin DOMAIN L.accounts   \* AccountAlreadyExists
    /\ pre_images_ok(L, AsEvent(op))

op_pre_images(L, op) == pre_images(L, AsEvent(op))

MapRemove(map, k) == [x \in DOMAIN map \ {k} |-> map[x]]

\* EXCEPT on a missing key leaves the map as it is: the guarded get_mut.
revert(undo, L) ==
    CASE undo.type = "RemoveAccount" ->
             [L EXCEPT !.accounts = MapRemove(@, undo.id)]
      [] undo.type = "AccountFlagsBefore" ->
             [L EXCEPT !.accounts[undo.id].flags = undo.flags]
      [] undo.type = "AccountBalanceBefore" ->
             [L EXCEPT !.accounts[undo.id].balance = undo.balance]
      [] undo.type = "RemoveTransfer" ->
             [L EXCEPT !.transfers = MapRemove(@, undo.id)]
      [] undo.type = "TransferStateBefore" ->
             [L EXCEPT !.transfers[undo.id].state = undo.state]
\* Deviation: the undo log is applied oldest entry first.
Bug_rollback_forward(L, undo, base) ==
    [FoldLeft(LAMBDA M, u : revert(u, M), L, undo) EXCEPT
        !.journal = SubSeq(@, 1, Len(base.journal)),
        !.last_timestamp = base.last_timestamp]

\* Deviation: the journal keeps what was rolled back.
Bug_rollback_keeps_journal(L, undo, base) ==
    [FoldRight(revert, undo, L) EXCEPT !.last_timestamp = base.last_timestamp]

\* Deviation: the watermark stays advanced.
Bug_rollback_keeps_watermark(L, undo, base) ==
    [FoldRight(revert, undo, L) EXCEPT !.journal = SubSeq(@, 1, Len(base.journal))]

\* Undo log newest first, then journal length and watermark of base.
rollback(L, undo, base) ==
    [FoldRight(revert, undo, L) EXCEPT
        !.journal = SubSeq(@, 1, Len(base.journal)),
        !.last_timestamp = base.last_timestamp]

-----------------------------------------------------------------------------
(* Applying a batch in place *)

\* One element of a batch: its pre-images are taken first and kept only when it
\* applies.  A run that has failed does not go on.
Tried(run, pre_ok, pre, outcome) ==
    CASE ~ run.ok -> run
      [] run.ok /\ ~ pre_ok -> [run EXCEPT !.ok = FALSE]
      [] run.ok /\ pre_ok ->
             [ok |-> outcome.ok, ledger |-> outcome.ledger,
              undo |-> IF outcome.ok THEN run.undo \o pre ELSE run.undo]

RunOp(run, op) ==
    Tried(run, op_pre_images_ok(run.ledger, op), op_pre_images(run.ledger, op),
          apply_batch_op(run.ledger, op))

RunEvent(run, event) ==
    Tried(run, pre_images_ok(run.ledger, event), pre_images(run.ledger, event),
          apply_event(run.ledger, event))

Start(L) == [ok |-> TRUE, ledger |-> L, undo |-> << >>]

\* A run is reverted to base.
Reverted(run, base) == rollback(run.ledger, run.undo, base)

NewEvents(L, base) == SubSeq(L.journal, Len(base.journal) + 1, Len(L.journal))

\* The audit a debug build makes before a call returns Ok.
check_after_mutation(L) == DebugAssertions => verify_invariants(L)

prepare_batch(L, ops) ==
    LET run == FoldLeft(RunOp, Start(L), ops)
        back == Reverted(run, L)
    IN  [ok |-> run.ok /\ check_after_mutation(back), ledger |-> back,
         events |-> NewEvents(run.ledger, L)]
\* Deviation: a failed transaction is not rolled back before the next one.
Bug_tx_not_isolated(all, tx) ==
    LET run == FoldLeft(RunOp, Start(all.ledger), tx)
    IN  [ledger |-> run.ledger, undo |-> all.undo \o run.undo,
         results |-> Append(all.results,
             [ok |-> run.ok, events |-> IF run.ok THEN NewEvents(run.ledger, all.ledger)
                                                  ELSE << >>])]

\* One transaction on top of those before it: a failed one is rolled back at
\* once, the undo log of a successful one is kept for the final rollback.
RunTx(all, tx) ==
    LET run == FoldLeft(RunOp, Start(all.ledger), tx)
    IN  IF run.ok
        THEN [ledger |-> run.ledger, undo |-> all.undo \o run.undo,
              results |-> Append(all.results,
                  [ok |-> TRUE, events |-> NewEvents(run.ledger, all.ledger)])]
        ELSE [all EXCEPT !.ledger = Reverted(run, all.ledger),
                         !.results = Append(@, [ok |-> FALSE, events |-> << >>])]
\* Deviation: every transaction is prepared on the ledger as it is.
Bug_prepare_independently(L, txs) ==
    [ledger |-> L,
     results |-> [n \in DOMAIN txs |->
                    LET out == prepare_batch(L, txs[n])
                    IN  [ok |-> out.ok, events |-> IF out.ok THEN out.events ELSE << >>]]]

prepare_transactions(L, txs) ==
    LET all == FoldLeft(RunTx, [ledger |-> L, undo |-> << >>, results |-> << >>], txs)
    IN  [ledger |-> Reverted(all, L), results |-> all.results]

\* apply_with_undo and the debug audit after it.
commit_events(L, events) ==
    LET run == FoldLeft(RunEvent, Start(L), events)
    IN  IF run.ok THEN [ok |-> check_after_mutation(run.ledger), ledger |-> run.ledger]
                  ELSE [ok |-> FALSE, ledger |-> Reverted(run, L)]

apply_batch(L, ts) ==
    commit_events(L, [n \in DOMAIN ts |-> [type |-> "TransferPosted", transfer |-> ts[n]]])

\* The events of every transaction that succeeded.
OkEvents(results) == FlattenSeq([n \in DOMAIN results |-> results[n].events])
=============================================================================
