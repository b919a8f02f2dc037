------------------------------- MODULE Ledger -------------------------------
(***************************************************************************)
(* The public mutations of the in-memory ledger as a state machine: one    *)
(* caller (the ledger is &mut self, single-writer) makes any sequence of   *)
(* calls, with any arguments, stale timestamps and reused identifiers      *)
(* included.                                                               *)
(***************************************************************************)
EXTENDS LedgerCore

CONSTANTS InputAmount,   \* amounts callers pass
          InputFlags,    \* flags callers open accounts with
          InputLink,     \* pending_id values a transfer handed in may carry
          MaxJournal     \* bound: the number of events a behaviour may record

ASSUME InputAssumption ==
    /\ InputAmount \subseteq Amount
    /\ InputFlags \subseteq AccountFlags
    /\ InputLink \subseteq TransferId \cup {NoTransfer}
    /\ MaxJournal \in Nat

VARIABLE ledger   \* the Ledger value

Init == \E scale \in Scale : ledger = Ledger_new(scale)

Return(outcome) ==
    /\ Len(outcome.ledger.journal) <= MaxJournal
    /\ ledger' = outcome.ledger

CreateAccount ==
    \E id \in AccountId, flags \in InputFlags, scale \in Scale, ts \in Timestamp :
        Return(create_account(ledger, [id |-> id, flags |-> flags, scale |-> scale,
                                       timestamp |-> ts]))

CloseAccount ==
    \E id \in AccountId, ts \in Timestamp :
        Return(close_account(ledger, [id |-> id, timestamp |-> ts]))

\* A transfer as the constructors build it (link = NoTransfer) or as
\* deserialization may produce it.
LinkedTransfer(id, debit, credit, amount, state, link, ts) ==
    [NewTransfer(id, debit, credit, amount, state, ts) EXCEPT !.pending_id = link]

CreateTransfer ==
    \E id \in TransferId, debit, credit \in AccountId, amount \in InputAmount,
       link \in InputLink, ts \in Timestamp :
        Return(create_transfer(ledger,
                   LinkedTransfer(id, debit, credit, amount, "Posted", link, ts)))

CreatePending ==
    \E id \in TransferId, debit, credit \in AccountId, amount \in InputAmount,
       link \in InputLink, ts \in Timestamp :
        Return(create_pending(ledger,
                   LinkedTransfer(id, debit, credit, amount, "Pending", link, ts)))

PostPending ==
    \E pending_id, post_id \in TransferId, amount \in InputAmount, ts \in Timestamp :
        Return(post_pending(ledger, [pending_id |-> pending_id, post_transfer_id |-> post_id,
                                     amount |-> amount, timestamp |-> ts]))

VoidPending ==
    \E pending_id \in TransferId, ts \in Timestamp :
        Return(void_pending(ledger, [pending_id |-> pending_id, timestamp |-> ts]))

Next == \/ CreateAccount
        \/ CloseAccount
        \/ CreateTransfer
        \/ CreatePending
        \/ PostPending
        \/ VoidPending

Spec == Init /\ [][Next]_ledger

-----------------------------------------------------------------------------
(* Properties *)

accounts == ledger.accounts
transfers == ledger.transfers

\* Every balance is a u128, every map key is an identifier in use, every
\* transfer is filed under its own id and the journal holds events only.
TypeOK == IsLedger(ledger)

\* acc keeps within the limits its flags set.
WithinLimits(acc) ==
    /\ acc.flags.debits_must_not_exceed_credits =>
         acc.balance.debits_posted + acc.balance.debits_pending <= acc.balance.credits_posted
    /\ acc.flags.credits_must_not_exceed_debits =>
         acc.balance.credits_posted + acc.balance.credits_pending <= acc.balance.debits_posted

\* Account limits (AccountFlags): an account opened without overdraft never has
\* posted plus reserved debits above its posted credits, whatever mix of
\* immediate transfers, holds, captures and voids ran; symmetrically for asset
\* accounts.  Captures make no limit check of their own.
LimitsRespected == \A a \in DOMAIN accounts : WithinLimits(accounts[a])

\* The ledger's own audit, verify_invariants, accepts every reachable ledger
\* unless one of its u128 totals overflows: debits equal credits, posted and
\* pending, reservations equal the open holds, hold links are legal.
AuditPasses == TotalsOverflow(ledger) \/ verify_invariants(ledger)

\* Every transfer handed in was built by the constructors, which leave pending_id empty.
Constructed ==
    \A n \in DOMAIN ledger.journal :
        ledger.journal[n].type \in {"TransferPosted", "TransferPendingCreated"} =>
            ledger.journal[n].transfer.pending_id = NoTransfer

Settlements(i) == {s \in DOMAIN transfers : transfers[s].pending_id = i}

\* A hold is settled at most once, for at most its amount and between the same
\* accounts; an open or voided hold has no settlement (post_pending,
\* void_pending).  Claimed for transfers built by the constructors.
HoldSettledOnce ==
    Constructed => \A i \in DOMAIN transfers :
        /\ Cardinality(Settlements(i)) <= 1
        /\ transfers[i].state # "Posted" => Settlements(i) = {}
        /\ \A s \in Settlements(i) :
             /\ transfers[s].amount \in 1 .. transfers[i].amount
             /\ transfers[s].debit_account_id = transfers[i].debit_account_id
             /\ transfers[s].credit_account_id = transfers[i].credit_account_id

\* Balances are a view over the transfers: an account's posted debits and
\* credits are the sums of the Posted transfers on it, a settled hold counting
\* through its settlement only.
PostedBacked ==
    LET moved(side, a) ==
          MapThenSumSet(LAMBDA i : transfers[i].amount,
              {i \in DOMAIN transfers : /\ transfers[i].state = "Posted"
                                        /\ transfers[i][side] = a
                                        /\ Settlements(i) = {}})
    IN  Constructed => \A a \in DOMAIN accounts :
          /\ accounts[a].balance.debits_posted = moved("debit_account_id", a)
          /\ accounts[a].balance.credits_posted = moved("credit_account_id", a)

\* No hold is ever stuck: an open hold can be voided at the current watermark,
\* and captured in full unless a posted u128 total would overflow, even when
\* its accounts have been closed since.
HoldsReleasable ==
    \A i \in DOMAIN transfers : transfers[i].state = "Pending" =>
        LET t == transfers[i]
        IN  /\ void_pending_ok(ledger, [pending_id |-> i, timestamp |-> ledger.last_timestamp])
            /\ \A s \in TransferId \ DOMAIN transfers :
                 \/ post_pending_ok(ledger, [pending_id |-> i, post_transfer_id |-> s,
                        amount |-> t.amount, timestamp |-> ledger.last_timestamp])
                 \/ accounts[t.debit_account_id].balance.debits_posted + t.amount > MaxAmount
                 \/ accounts[t.credit_account_id].balance.credits_posted + t.amount > MaxAmount

\* The journal is the source of truth: replaying it from an empty ledger
\* succeeds and rebuilds the live ledger exactly, watermark and journal included.
ReplayRebuilds ==
    replay(ledger.scale, ledger.journal) = [ok |-> TRUE, ledger |-> ledger]

\* Accounts only accumulate: none goes, none reopens, no posted total shrinks.
AccountsKept(new, old) ==
    \A a \in DOMAIN old :
        /\ a \in DOMAIN new
        /\ old[a].flags.is_closed => new[a].flags.is_closed
        /\ new[a].balance.debits_posted >= old[a].balance.debits_posted
        /\ new[a].balance.credits_posted >= old[a].balance.credits_posted

\* A transfer changes only by leaving Pending.
TransfersKept(new, old) ==
    \A i \in DOMAIN old :
        /\ i \in DOMAIN new
        /\ \/ new[i] = old[i]
           \/ /\ old[i].state = "Pending"
              /\ \E s \in {"Posted", "Voided"} : new[i] = [old[i] EXCEPT !.state = s]

\* M extends the history of L.
Extends(M, L) ==
    /\ AccountsKept(M.accounts, L.accounts)
    /\ TransfersKept(M.transfers, L.transfers)
    /\ M.last_timestamp >= L.last_timestamp
    /\ \A n \in 1 .. Len(L.journal) : M.journal[n] = L.journal[n]

\* No step rewrites history: accounts and transfers are never removed, a
\* transfer changes only by leaving Pending for Posted or Voided, a closed
\* account stays closed, posted totals and the watermark never decrease, and
\* the journal only grows at its end.
HistoryKept == [][Extends(ledger', ledger)]_ledger
=============================================================================
