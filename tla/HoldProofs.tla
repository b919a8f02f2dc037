----------------------------- MODULE HoldProofs -----------------------------
(***************************************************************************)
(* The life of a hold, for every set of accounts, transfers and amounts    *)
(* and both builds: it is settled at most once, for at most its amount and *)
(* between its own accounts, and not at all while it is open or once it is *)
(* voided.                                                                 *)
(***************************************************************************)
EXTENDS LedgerProofs, FiniteSetTheorems

-----------------------------------------------------------------------------
(* The invariant *)

\* s is a legal settlement of the hold it names.
LinkOK(tr, s) ==
    LET i == tr[s].pending_id
    IN  /\ i \in DOMAIN tr
        /\ tr[i].state = "Posted"
        /\ tr[s].amount \in 1 .. tr[i].amount
        /\ tr[s].debit_account_id = tr[i].debit_account_id
        /\ tr[s].credit_account_id = tr[i].credit_account_id

\* Every link is legal and no two transfers settle one hold.
LinksOK(tr) ==
    /\ \A s \in DOMAIN tr : tr[s].pending_id # NoTransfer => LinkOK(tr, s)
    /\ \A r, s \in DOMAIN tr :
         tr[r].pending_id = tr[s].pending_id /\ tr[r].pending_id # NoTransfer => r = s

HandedIn == {"TransferPosted", "TransferPendingCreated"}

\* Constructed, of a journal.
NoLinks(journal) ==
    \A n \in DOMAIN journal :
        journal[n].type \in HandedIn => journal[n].transfer.pending_id = NoTransfer

HoldInv == Inv /\ (NoLinks(ledger.journal) => LinksOK(ledger.transfers))

-----------------------------------------------------------------------------
(* What the mutations do to the links *)

\* A transfer without a link changes none: its identifier is new, so nothing
\* names it.
LEMMA InsertLinks ==
    ASSUME NEW tr, LinksOK(tr), NEW id, id \notin DOMAIN tr, NEW t, t.pending_id = NoTransfer
    PROVE  LinksOK(MapInsert(tr, id, t))
<1> DEFINE T == MapInsert(tr, id, t)
<1>1. DOMAIN T = DOMAIN tr \cup {id} /\ T[id] = t /\ \A s \in DOMAIN tr : T[s] = tr[s]
  BY DEF MapInsert
<1> SUFFICES LinksOK(T)
  OBVIOUS
<1> HIDE DEF T
<1> QED  BY <1>1 DEF LinksOK, LinkOK

\* What a change of state leaves alone.
LEMMA StateFields ==
    ASSUME NEW tr, IsTransfers(tr), NEW i \in DOMAIN tr, NEW state
    PROVE  LET T == [tr EXCEPT ![i].state = state]
           IN  /\ DOMAIN T = DOMAIN tr
               /\ T[i].state = state
               /\ \A s \in DOMAIN tr :
                    /\ s # i => T[s].state = tr[s].state
                    /\ T[s].pending_id = tr[s].pending_id /\ T[s].amount = tr[s].amount
                    /\ T[s].debit_account_id = tr[s].debit_account_id
                    /\ T[s].credit_account_id = tr[s].credit_account_id
<1> DEFINE T == [tr EXCEPT ![i].state = state]
<1>1. tr[i] \in Transfer
  BY DEF IsTransfers
<1>2. DOMAIN T = DOMAIN tr /\ T[i] = [tr[i] EXCEPT !.state = state]
  BY DEF IsTransfers
<1>3. \A s \in DOMAIN tr : s # i => T[s] = tr[s]
  BY DEF IsTransfers
<1>4. /\ T[i].state = state
      /\ T[i].pending_id = tr[i].pending_id /\ T[i].amount = tr[i].amount
      /\ T[i].debit_account_id = tr[i].debit_account_id
      /\ T[i].credit_account_id = tr[i].credit_account_id
  BY <1>1, <1>2 DEF Transfer
<1> HIDE DEF T
<1> QED  BY <1>2, <1>3, <1>4 DEF T

\* An open hold has no settlement, so closing it breaks none.
LEMMA StateLinks ==
    ASSUME NEW tr, IsTransfers(tr), LinksOK(tr), NEW i \in DOMAIN tr, tr[i].state = "Pending",
           NEW state
    PROVE  LinksOK([tr EXCEPT ![i].state = state])
<1> DEFINE T == [tr EXCEPT ![i].state = state]
<1>1. /\ DOMAIN T = DOMAIN tr
      /\ \A s \in DOMAIN tr :
           /\ s # i => T[s].state = tr[s].state
           /\ T[s].pending_id = tr[s].pending_id /\ T[s].amount = tr[s].amount
           /\ T[s].debit_account_id = tr[s].debit_account_id
           /\ T[s].credit_account_id = tr[s].credit_account_id
  BY StateFields
<1> HIDE DEF T
<1>2. \A s \in DOMAIN tr : tr[s].pending_id # NoTransfer => tr[s].pending_id # i
  BY DEF LinksOK, LinkOK
<1> QED  BY <1>1, <1>2 DEF LinksOK, LinkOK

\* A capture files the one settlement of a hold that was open until then.
LEMMA CaptureLinks ==
    ASSUME NEW tr, IsTransfers(tr), LinksOK(tr), NEW i \in DOMAIN tr, tr[i].state = "Pending",
           NEW id, id \notin DOMAIN tr, NEW t, t.pending_id = i,
           t.amount \in 1 .. tr[i].amount,
           t.debit_account_id = tr[i].debit_account_id,
           t.credit_account_id = tr[i].credit_account_id
    PROVE  LinksOK(MapInsert([tr EXCEPT ![i].state = "Posted"], id, t))
<1>0. PICK posted : posted = "Posted"
  OBVIOUS
<1> DEFINE S == [tr EXCEPT ![i].state = posted]
           T == MapInsert(S, id, t)
<1>1. /\ DOMAIN S = DOMAIN tr
      /\ S[i].state = posted
      /\ \A s \in DOMAIN tr :
           /\ s # i => S[s].state = tr[s].state
           /\ S[s].pending_id = tr[s].pending_id /\ S[s].amount = tr[s].amount
           /\ S[s].debit_account_id = tr[s].debit_account_id
           /\ S[s].credit_account_id = tr[s].credit_account_id
  BY StateFields
<1> HIDE DEF S
<1>2. DOMAIN T = DOMAIN tr \cup {id} /\ T[id] = t /\ \A s \in DOMAIN tr : T[s] = S[s]
  <2>1. DOMAIN T = DOMAIN S \cup {id} /\ T[id] = t /\ \A s \in DOMAIN S : s # id => T[s] = S[s]
    BY DEF MapInsert
  <2> HIDE DEF T
  <2> QED  BY <1>1, <2>1
<1> SUFFICES LinksOK(T)
  BY <1>0 DEF S
<1> HIDE DEF T
<1>3. \A s \in DOMAIN tr : tr[s].pending_id # NoTransfer => tr[s].pending_id # i
  BY DEF LinksOK, LinkOK
<1>4. ASSUME NEW s \in DOMAIN T, T[s].pending_id # NoTransfer
      PROVE  LinkOK(T, s)
  <2>1. CASE s = id
    BY <1>0, <1>1, <1>2, <2>1 DEF LinkOK
  <2>2. CASE s # id
    <3>1. s \in DOMAIN tr /\ tr[s].pending_id = T[s].pending_id /\ LinkOK(tr, s)
      BY <1>1, <1>2, <1>4, <2>2 DEF LinksOK
    <3>2. tr[s].pending_id # i
      BY <1>3, <1>4, <3>1
    <3> QED  BY <1>1, <1>2, <3>1, <3>2 DEF LinkOK
  <2> QED  BY <2>1, <2>2
<1>5. ASSUME NEW r \in DOMAIN T, NEW s \in DOMAIN T,
             T[r].pending_id = T[s].pending_id, T[r].pending_id # NoTransfer
      PROVE  r = s
  BY <1>1, <1>2, <1>3, <1>5 DEF LinksOK
<1> QED  BY <1>4, <1>5 DEF LinksOK

\* An event that joins the journal: what was there stays without links, and a
\* transfer handed in is without one.
LEMMA JournalLinks ==
    ASSUME NEW journal \in Seq(LedgerEvent), NEW event \in LedgerEvent,
           NoLinks(Append(journal, event))
    PROVE  /\ NoLinks(journal)
           /\ event.type \in HandedIn => event.transfer.pending_id = NoTransfer
<1> DEFINE J == Append(journal, event)
<1>1. /\ Len(journal) \in Nat /\ DOMAIN journal = 1 .. Len(journal)
      /\ DOMAIN J = 1 .. Len(journal) + 1
      /\ J[Len(journal) + 1] = event /\ \A n \in 1 .. Len(journal) : J[n] = journal[n]
  OBVIOUS
<1> HIDE DEF J
<1>2. NoLinks(J)
  BY DEF J
<1>3. NoLinks(journal)
  BY <1>1, <1>2 DEF NoLinks
<1>4. event.type \in HandedIn => event.transfer.pending_id = NoTransfer
  BY <1>1, <1>2 DEF NoLinks
<1> QED  BY <1>3, <1>4

-----------------------------------------------------------------------------
(* The steps *)

\* A call either leaves the ledger alone or passes its checks and writes.
LEMMA AttemptCases ==
    ASSUME NEW L, NEW ok, NEW written
    PROVE  \/ Attempt(L, ok, written).ledger = L
           \/ ok /\ Attempt(L, ok, written).ledger = written
BY DEF Attempt

\* The links after a mutation that records event and leaves the transfers tr.
LEMMA RecordLinks ==
    ASSUME IsLedger(ledger), NoLinks(ledger.journal) => LinksOK(ledger.transfers),
           NEW acc, NEW tr, NEW ts, NEW event \in LedgerEvent,
           ledger' = Record(ledger, acc, tr, ts, event),
           LinksOK(ledger.transfers)
               /\ (event.type \in HandedIn => event.transfer.pending_id = NoTransfer)
               => LinksOK(tr)
    PROVE  NoLinks(ledger'.journal) => LinksOK(ledger'.transfers)
<1>1. ledger'.journal = Append(ledger.journal, event) /\ ledger'.transfers = tr
  BY DEF Record
<1>2. ledger.journal \in Seq(LedgerEvent)
  BY DEF IsLedger
<1> QED  BY <1>1, <1>2, JournalLinks

LEMMA HoldInit == Init => HoldInv
<1> SUFFICES ASSUME NEW scale \in Scale, ledger = Ledger_new(scale)
             PROVE  LinksOK(ledger.transfers)
  BY InitInv DEF Init, HoldInv
<1>1. ledger.transfers = EmptyMap
  BY DEF Ledger_new
<1>2. DOMAIN ledger.transfers = {}
  BY <1>1 DEF EmptyMap
<1> QED  BY <1>2 DEF LinksOK

LEMMA HoldStep == HoldInv /\ [Next]_ledger => HoldInv'
<1> SUFFICES ASSUME HoldInv, [Next]_ledger
             PROVE  NoLinks(ledger'.journal) => LinksOK(ledger'.transfers)
  BY NextInv DEF HoldInv
<1> DEFINE tr == ledger.transfers
<1>0. /\ IsLedger(ledger) /\ IsTransfers(tr)
      /\ NoLinks(ledger.journal) => LinksOK(tr)
      /\ DOMAIN tr \subseteq TransferId
  BY DEF HoldInv, Inv, GoodLedger, IsLedger, IsTransfers
<1>1. CASE UNCHANGED ledger
  BY <1>0, <1>1
<1>2. CASE CreateAccount
  <2>1. PICK id \in AccountId, flags \in InputFlags, scale \in Scale, ts \in Timestamp :
          ledger' = create_account(ledger, [id |-> id, flags |-> flags, scale |-> scale,
                                            timestamp |-> ts]).ledger
    BY <1>2 DEF CreateAccount, Return
  <2> DEFINE op == [id |-> id, flags |-> flags, scale |-> scale, timestamp |-> ts]
             acc == MapInsert(ledger.accounts, id, [flags |-> flags, balance |-> Balance_new])
             event == [type |-> "AccountCreated", id |-> id, flags |-> flags,
                       scale |-> scale, timestamp |-> ts]
  <2>2. CASE ledger' = ledger
    BY <1>1, <2>2
  <2>3. CASE ledger' = create_account_write(ledger, op)
    <3>1. ledger' = Record(ledger, acc, tr, ts, event)
      BY <2>3 DEF create_account_write
    <3>2. event \in LedgerEvent
      BY InputAssumption DEF LedgerEvent
    <3> HIDE DEF acc, event
    <3> QED  BY <1>0, <3>1, <3>2, RecordLinks
  <2> QED  BY <2>1, <2>2, <2>3, AttemptCases DEF create_account
<1>3. CASE CloseAccount
  <2>1. PICK id \in AccountId, ts \in Timestamp :
          ledger' = close_account(ledger, [id |-> id, timestamp |-> ts]).ledger
    BY <1>3 DEF CloseAccount, Return
  <2> DEFINE op == [id |-> id, timestamp |-> ts]
             acc == Closed(ledger.accounts, id)
             event == [type |-> "AccountClosed", id |-> id, timestamp |-> ts]
  <2>2. CASE ledger' = ledger
    BY <1>1, <2>2
  <2>3. CASE ledger' = close_account_write(ledger, op)
    <3>1. ledger' = Record(ledger, acc, tr, ts, event)
      BY <2>3 DEF close_account_write
    <3>2. event \in LedgerEvent
      BY DEF LedgerEvent
    <3> HIDE DEF acc, event
    <3> QED  BY <1>0, <3>1, <3>2, RecordLinks
  <2> QED  BY <2>1, <2>2, <2>3, AttemptCases DEF close_account
<1>4. CASE CreateTransfer
  <2>1. PICK id \in TransferId, debit \in AccountId, credit \in AccountId,
             amount \in InputAmount, link \in InputLink, ts \in Timestamp :
          ledger' = create_transfer(ledger,
                        LinkedTransfer(id, debit, credit, amount, "Posted", link, ts)).ledger
    BY <1>4 DEF CreateTransfer, Return
  <2> DEFINE t == LinkedTransfer(id, debit, credit, amount, "Posted", link, ts)
             acc == Move(ledger.accounts, t, t.amount, 0)
             event == [type |-> "TransferPosted", transfer |-> t]
  <2>2. CASE ledger' = ledger
    BY <1>1, <2>2
  <2>3. CASE create_transfer_ok(ledger, t) /\ ledger' = create_transfer_write(ledger, t)
    <3>1. t \in Transfer
      BY InputAssumption DEF LinkedTransfer, NewTransfer, Transfer, TransferState
    <3> HIDE DEF t
    <3>2. ledger' = Record(ledger, acc, MapInsert(tr, t.id, t), t.timestamp, event)
      BY <2>3 DEF create_transfer_write
    <3>3. event \in LedgerEvent /\ event.type \in HandedIn /\ event.transfer = t
      BY <3>1 DEF LedgerEvent, HandedIn
    <3>4. t.id \notin DOMAIN tr
      BY <2>3 DEF create_transfer_ok, validate_new_transfer
    <3>5. LinksOK(tr) /\ t.pending_id = NoTransfer => LinksOK(MapInsert(tr, t.id, t))
      BY <3>4, InsertLinks
    <3> HIDE DEF acc, event
    <3> QED  BY <1>0, <3>2, <3>3, <3>5, RecordLinks
  <2> QED  BY <2>1, <2>2, <2>3, AttemptCases DEF create_transfer
<1>5. CASE CreatePending
  <2>1. PICK id \in TransferId, debit \in AccountId, credit \in AccountId,
             amount \in InputAmount, link \in InputLink, ts \in Timestamp :
          ledger' = create_pending(ledger,
                        LinkedTransfer(id, debit, credit, amount, "Pending", link, ts)).ledger
    BY <1>5 DEF CreatePending, Return
  <2> DEFINE t == LinkedTransfer(id, debit, credit, amount, "Pending", link, ts)
             acc == Move(ledger.accounts, t, 0, t.amount)
             event == [type |-> "TransferPendingCreated", transfer |-> t]
  <2>2. CASE ledger' = ledger
    BY <1>1, <2>2
  <2>3. CASE create_pending_ok(ledger, t) /\ ledger' = create_pending_write(ledger, t)
    <3>1. t \in Transfer
      BY InputAssumption DEF LinkedTransfer, NewTransfer, Transfer, TransferState
    <3> HIDE DEF t
    <3>2. ledger' = Record(ledger, acc, MapInsert(tr, t.id, t), t.timestamp, event)
      BY <2>3 DEF create_pending_write
    <3>3. event \in LedgerEvent /\ event.type \in HandedIn /\ event.transfer = t
      BY <3>1 DEF LedgerEvent, HandedIn
    <3>4. t.id \notin DOMAIN tr
      BY <2>3 DEF create_pending_ok, validate_new_transfer
    <3>5. LinksOK(tr) /\ t.pending_id = NoTransfer => LinksOK(MapInsert(tr, t.id, t))
      BY <3>4, InsertLinks
    <3> HIDE DEF acc, event
    <3> QED  BY <1>0, <3>2, <3>3, <3>5, RecordLinks
  <2> QED  BY <2>1, <2>2, <2>3, AttemptCases DEF create_pending
<1>6. CASE PostPending
  <2>1. PICK pid \in TransferId, sid \in TransferId, amount \in InputAmount,
             ts \in Timestamp :
          ledger' = post_pending(ledger, [pending_id |-> pid, post_transfer_id |-> sid,
                                          amount |-> amount, timestamp |-> ts]).ledger
    BY <1>6 DEF PostPending, Return
  <2> DEFINE op == [pending_id |-> pid, post_transfer_id |-> sid, amount |-> amount,
                    timestamp |-> ts]
             t == tr[pid]
             n == new_settlement(ledger, op)
             acc == Move(ledger.accounts, t, amount, 0 - t.amount)
             T == MapInsert([tr EXCEPT ![pid].state = "Posted"], sid, n)
             event == [type |-> "TransferPendingPosted", pending_id |-> pid,
                       post_transfer_id |-> sid, amount |-> amount, timestamp |-> ts]
  <2>2. CASE ledger' = ledger
    BY <1>1, <2>2
  <2>3. CASE post_pending_ok(ledger, op) /\ ledger' = post_pending_write(ledger, op)
    <3>1. ledger' = Record(ledger, acc, T, ts, event)
      BY <2>3 DEF post_pending_write, CaptureWrite
    <3>2. amount \in Amount /\ event \in LedgerEvent
      BY InputAssumption DEF LedgerEvent
    <3>3. /\ pid \in DOMAIN tr /\ sid \notin DOMAIN tr /\ t.state = "Pending"
          /\ amount <= t.amount /\ amount # 0
      BY <2>3 DEF post_pending_ok
    <3>4. t \in Transfer /\ t.amount \in Amount
      BY <1>0, <3>3 DEF IsTransfers, Transfer
    <3>5. amount \in 1 .. t.amount
      BY <3>2, <3>3, <3>4, AmountAssumption DEF Amount
    <3>6. /\ n.pending_id = pid /\ n.amount = amount
          /\ n.debit_account_id = t.debit_account_id
          /\ n.credit_account_id = t.credit_account_id
      BY <3>4 DEF new_settlement, Transfer
    <3> HIDE DEF n
    <3>7. LinksOK(tr) => LinksOK(T)
      BY <1>0, <3>3, <3>5, <3>6, CaptureLinks
    <3> HIDE DEF acc, event, T
    <3> QED  BY <1>0, <3>1, <3>2, <3>7, RecordLinks
  <2> QED  BY <2>1, <2>2, <2>3, AttemptCases DEF post_pending
<1>7. CASE VoidPending
  <2>1. PICK pid \in TransferId, ts \in Timestamp :
          ledger' = void_pending(ledger, [pending_id |-> pid, timestamp |-> ts]).ledger
    BY <1>7 DEF VoidPending, Return
  <2> DEFINE op == [pending_id |-> pid, timestamp |-> ts]
             t == tr[pid]
             acc == Move(ledger.accounts, t, 0, 0 - t.amount)
             T == [tr EXCEPT ![pid].state = "Voided"]
             event == [type |-> "TransferPendingVoided", pending_id |-> pid,
                       amount |-> t.amount, timestamp |-> ts]
  <2>2. CASE ledger' = ledger
    BY <1>1, <2>2
  <2>3. CASE void_pending_ok(ledger, op) /\ ledger' = void_pending_write(ledger, op)
    <3>1. ledger' = Record(ledger, acc, T, ts, event)
      BY <2>3 DEF void_pending_write
    <3>2. pid \in DOMAIN tr /\ t.state = "Pending"
      BY <2>3 DEF void_pending_ok
    <3>3. t.amount \in Amount
      BY <1>0, <3>2 DEF IsTransfers, Transfer
    <3>4. event \in LedgerEvent
      BY <3>3 DEF LedgerEvent
    <3>5. LinksOK(tr) => LinksOK(T)
      BY <1>0, <3>2, StateLinks
    <3> HIDE DEF acc, event, T
    <3> QED  BY <1>0, <3>1, <3>4, <3>5, RecordLinks
  <2> QED  BY <2>1, <2>2, <2>3, AttemptCases DEF void_pending
<1> QED  BY <1>1, <1>2, <1>3, <1>4, <1>5, <1>6, <1>7 DEF Next

-----------------------------------------------------------------------------
(* The theorem *)

LEMMA HoldSafe == HoldInv => HoldSettledOnce
<1> SUFFICES ASSUME HoldInv, Constructed, NEW i \in DOMAIN transfers
             PROVE  /\ Cardinality(Settlements(i)) <= 1
                    /\ transfers[i].state # "Posted" => Settlements(i) = {}
                    /\ \A s \in Settlements(i) :
                         /\ transfers[s].amount \in 1 .. transfers[i].amount
                         /\ transfers[s].debit_account_id = transfers[i].debit_account_id
                         /\ transfers[s].credit_account_id = transfers[i].credit_account_id
  BY DEF HoldSettledOnce
<1>1. LinksOK(transfers) /\ i # NoTransfer
  BY NoTransferAssumption
     DEF HoldInv, Constructed, NoLinks, HandedIn, transfers, Inv, GoodLedger, IsLedger,
         IsTransfers
<1>2. \A s \in Settlements(i) : s \in DOMAIN transfers /\ transfers[s].pending_id = i
  BY DEF Settlements
<1>3. \A s \in Settlements(i) : LinkOK(transfers, s)
  BY <1>1, <1>2 DEF LinksOK
<1>4. Cardinality(Settlements(i)) <= 1
  <2>1. CASE Settlements(i) = {}
    BY <2>1, FS_EmptySet
  <2>2. ASSUME NEW s \in Settlements(i)
        PROVE  Settlements(i) = {s}
    BY <1>1, <1>2 DEF LinksOK
  <2>3. ASSUME NEW s \in Settlements(i)
        PROVE  Cardinality(Settlements(i)) = 1
    BY <2>2, FS_Singleton
  <2> QED  BY <2>1, <2>3
<1> QED  BY <1>2, <1>3, <1>4 DEF LinkOK

\* Whatever calls are made in whatever order, a hold is settled at most once, for
\* at most its amount and between its own accounts, and an open or voided hold is
\* not settled (post_pending, void_pending).
THEOREM HoldsAlwaysSettledOnce == Spec => []HoldSettledOnce
<1> QED  BY HoldInit, HoldStep, HoldSafe, PTL DEF Spec
=============================================================================
