------------------------------ MODULE MCLedger ------------------------------
(* Small instances of Ledger for TLC. *)
EXTENDS Ledger, TLC

Flags(debits, credits) == [debits_must_not_exceed_credits |-> debits,
                           credits_must_not_exceed_debits |-> credits,
                           is_closed |-> FALSE]

\* AccountFlags::customer, ::bank_asset and ::unrestricted
MCPresetFlags == {Flags(TRUE, FALSE), Flags(FALSE, TRUE), Flags(FALSE, FALSE)}
MCAnyLink == TransferId \cup {NoTransfer}

Symmetry == Permutations(AccountId) \cup Permutations(TransferId) \cup Permutations(Scale)
=============================================================================
