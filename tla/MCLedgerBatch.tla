--------------------------- MODULE MCLedgerBatch ----------------------------
(* Small instances of LedgerBatch for TLC: a customer account cust that may not *)
(* be overdrawn, an unrestricted account bank, and operations on them that      *)
(* succeed or fail depending on what came before.                            *)
EXTENDS LedgerBatch

CONSTANTS bank, cust, t1, t2, hold1, s1

Open(id, limited) ==
    [type |-> "CreateAccount", id |-> id, scale |-> s1, timestamp |-> 0,
     flags |-> [debits_must_not_exceed_credits |-> limited,
                credits_must_not_exceed_debits |-> FALSE, is_closed |-> FALSE]]
Close(id, ts) == [type |-> "CloseAccount", id |-> id, timestamp |-> ts]
Tr(id, debit, credit, state) ==
    [id |-> id, debit_account_id |-> debit, credit_account_id |-> credit, amount |-> 1,
     state |-> state, pending_id |-> NoTransfer, timestamp |-> 0]
Pay(id, debit, credit) == [type |-> "Transfer", transfer |-> Tr(id, debit, credit, "Posted")]
Hold(id, debit, credit) == [type |-> "Pending", transfer |-> Tr(id, debit, credit, "Pending")]
Capture(id, post, ts) ==
    [type |-> "PostPending", pending_id |-> id, post_transfer_id |-> post, amount |-> 1,
     timestamp |-> ts]
Void(id, ts) == [type |-> "VoidPending", pending_id |-> id, timestamp |-> ts]

MCOps == {Open(bank, FALSE), Open(cust, TRUE), Close(cust, 1), Pay(t1, bank, cust), Pay(t2, cust, bank),
          Hold(hold1, cust, bank), Capture(hold1, t2, 0), Void(hold1, 1)}

MCBatch == BoundedSeq(MCOps, 2)
           \cup {<<Open(bank, FALSE), Open(cust, TRUE), Pay(t1, bank, cust), Hold(hold1, cust, bank)>>,
                 <<Pay(t1, bank, cust), Hold(hold1, cust, bank), Capture(hold1, t2, 0)>>,
                 <<Pay(t1, bank, cust), Pay(t2, cust, bank), Close(cust, 1)>>}

MCTx == {<<Open(bank, FALSE), Open(cust, TRUE)>>, <<Pay(t1, bank, cust)>>, <<Pay(t1, bank, cust), Pay(t2, cust, bank)>>,
         <<Hold(hold1, cust, bank), Capture(hold1, t2, 0)>>, <<Hold(hold1, cust, bank), Pay(t2, cust, bank)>>,
         <<Void(hold1, 1)>>, <<Close(cust, 1)>>}
MCTxBatch == [1 .. 2 -> MCTx] \cup [1 .. 3 -> {<<Pay(t1, bank, cust)>>, <<Hold(hold1, cust, bank), Pay(t2, cust, bank)>>,
                                               <<Hold(hold1, cust, bank), Capture(hold1, t2, 0)>>}]

MCTransferBatch == {<<Tr(t1, bank, cust, "Posted")>>,
                    <<Tr(t1, bank, cust, "Posted"), Tr(t2, cust, bank, "Posted")>>}
=============================================================================
