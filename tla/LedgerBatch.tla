---------------------------- MODULE LedgerBatch -----------------------------
(***************************************************************************)
(* The batch calls of the ledger as a state machine.  One caller: every    *)
(* call is one step (&mut self).                                           *)
(***************************************************************************)
EXTENDS LedgerUndo

CONSTANTS Batch,          \* sequences of BatchOps handed to prepare_batch
          TxBatch,        \* sequences of such sequences, for prepare_transactions
          TransferBatch,  \* sequences of transfers, for apply_batch
          MaxJournal      \* bound: the number of events a behaviour may record

VARIABLES ledger,     \* the Ledger value
          prepared,   \* events of the last successful prepare, the ledger they
                      \* were prepared on, and whether they have been committed
          result      \* the last call and whether it returned Ok

vars == <<ledger, prepared, result>>

-----------------------------------------------------------------------------
(* The state machine *)

Init ==
    /\ \E scale \in Scale : ledger = Ledger_new(scale)
    /\ prepared = [events |-> << >>, on |-> ledger, committed |-> FALSE]
    /\ result = [call |-> "new", ok |-> TRUE]

PrepareBatch ==
    \E ops \in Batch : LET out == prepare_batch(ledger, ops) IN
        /\ ledger' = out.ledger
        /\ prepared' = IF out.ok
                       THEN [events |-> out.events, on |-> ledger, committed |-> FALSE]
                       ELSE prepared
        /\ result' = [call |-> "prepare_batch", ok |-> out.ok]

\* The events of the transactions that succeeded, as the engine keeps them.
PrepareTransactions ==
    \E txs \in TxBatch : LET out == prepare_transactions(ledger, txs) IN
        /\ ledger' = out.ledger
        /\ prepared' = [events |-> OkEvents(out.results), on |-> ledger, committed |-> FALSE]
        /\ result' = [call |-> "prepare_transactions", ok |-> TRUE]

\* Commit what was prepared, fresh, stale or already committed.
CommitEvents ==
    LET out == commit_events(ledger, prepared.events) IN
        /\ Len(out.ledger.journal) <= MaxJournal
        /\ ledger' = out.ledger
        /\ prepared' = [prepared EXCEPT !.committed = @ \/ out.ok]
        /\ result' = [call |-> "commit_events", ok |-> out.ok]

ApplyBatch ==
    \E ts \in TransferBatch : LET out == apply_batch(ledger, ts) IN
        /\ Len(out.ledger.journal) <= MaxJournal
        /\ ledger' = out.ledger
        /\ result' = [call |-> "apply_batch", ok |-> out.ok]
        /\ UNCHANGED prepared

Next == PrepareBatch \/ PrepareTransactions \/ CommitEvents \/ ApplyBatch

Spec == Init /\ [][Next]_vars

-----------------------------------------------------------------------------
(* Properties *)

\* The reference: apply to a copy, keep it only if every element applies.
Copied(L, apply(_, _), xs) ==
    FoldLeft(LAMBDA out, x : IF out.ok THEN apply(out.ledger, x) ELSE out,
             [ok |-> TRUE, ledger |-> L], xs)

\* commit_events and apply_batch are all or nothing and preparing is invisible:
\* whatever the undo log does, a call either leaves the ledger exactly as it
\* was, or succeeds and leaves it as the new journal entries, applied one after
\* the other to a copy, would.
BatchIsAtomic ==
    [][ \/ ledger' = ledger
        \/ /\ result'.ok
           /\ result'.call \in {"commit_events", "apply_batch"}
           /\ Copied(ledger, apply_event, NewEvents(ledger', ledger))
                  = [ok |-> TRUE, ledger |-> ledger'] ]_vars

\* prepare_transactions agrees with running each transaction on a copy of what
\* the successful ones before it left: a failed transaction leaves no trace in
\* the results of those after it.
TransactionsIsolated ==
    LET reference(all, tx) ==
          LET out == Copied(all.ledger, apply_batch_op, tx)
          IN  IF out.ok
              THEN [ledger |-> out.ledger,
                    results |-> Append(all.results,
                        [ok |-> TRUE, events |-> NewEvents(out.ledger, all.ledger)])]
              ELSE [all EXCEPT !.results = Append(@, [ok |-> FALSE, events |-> << >>])]
    IN  \A txs \in TxBatch :
          prepare_transactions(ledger, txs).results
              = FoldLeft(reference, [ledger |-> ledger, results |-> << >>], txs).results

\* Events prepared on the current ledger commit: once they are in the log, the
\* engine can rely on commit_events succeeding.
FreshEventsCommit ==
    prepared.on = ledger => commit_events(ledger, prepared.events).ok

\* "a stale or duplicated batch cannot be applied twice": events that were
\* committed are refused for ever, whatever was committed in between.
CommittedOnce ==
    prepared.committed /\ prepared.events # << >> =>
        ~ commit_events(ledger, prepared.events).ok

\* Batches keep the journal the source of truth: replay rebuilds the ledger.
ReplayRebuilds ==
    replay(ledger.scale, ledger.journal) = [ok |-> TRUE, ledger |-> ledger]
=============================================================================
