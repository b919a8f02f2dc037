---------------------------- MODULE MCSettlement -----------------------------
(* A small instance of Settlement for TLC. *)
EXTENDS Settlement

CONSTANTS operator, stranger, MaxBatch

MCTransfer(i) == [id |-> i, amount |-> i]

\* Batches of every size up to MaxBatch, and some that differ only in order or extent.
MCBatch == {[i \in 1 .. n |-> MCTransfer(i)] : n \in 1 .. MaxBatch}
           \cup {[i \in DOMAIN ids |-> MCTransfer(ids[i])] :
                    ids \in {<<2>>, <<2, 1>>, <<4, 3, 2, 1>>, <<2, 3, 4>>}}
=============================================================================
