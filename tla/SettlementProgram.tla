-------------------------- MODULE SettlementProgram --------------------------
(***************************************************************************)
(* The on-chain program of crates/solana-settle as operators on the root   *)
(* it keeps in an authority's account: the three instructions, each as the *)
(* conjunction of its checks and, where it writes, the root it leaves.     *)
(* The epoch, the chain tip, the confirmation time and the bump are only   *)
(* stored and are left out.                                                *)
(***************************************************************************)
EXTENDS Mmr

CONSTANTS Key,          \* public keys
          NoKey,        \* Pubkey::default(), what a zeroed account holds
          MaxSettled    \* u128::MAX, the largest total_settled_amount

ASSUME KeyAssumption == NoKey \notin Key
ASSUME SettledAssumption == MaxSettled \in Nat

\* The account as it is allocated: zeroes, which deserialize.
ZeroedAccount ==
    [authority |-> NoKey, batch_seq |-> 0, merkle_root |-> Hash32_ZERO,
     previous_root |-> Hash32_ZERO, transfer_count |-> 0, total_settled_amount |-> 0]

\* The account at the address derived from an authority is named by its key.
initialize(authority) ==
    [type |-> "Initialize", authority |-> authority, is_signer |-> TRUE, pda |-> authority]

commit_settlement(authority, params) ==
    [type |-> "CommitSettlement", authority |-> authority, is_signer |-> TRUE,
     pda |-> authority, params |-> params]

total_of(transfers) == FoldLeft(LAMBDA sum, t : sum + t.amount, 0, transfers)

\* SolanaUsdcRail::submit_batch up to the call of the program; the sequence
\* number is the one after that of the root read.
CommitParams(root, transfers) ==
    [batch_seq |-> root.batch_seq + 1, merkle_root |-> mmr_root(mmr_of(transfers)),
     previous_root |-> root.merkle_root, transfer_count |-> Len(transfers),
     total_settled_amount |-> total_of(transfers)]

process_initialize_ok(ix) ==
    /\ ix.is_signer                                           \* UnauthorizedSigner
    /\ ix.pda = ix.authority                                  \* InvalidPda

process_initialize_write(ix) == [ZeroedAccount EXCEPT !.authority = ix.authority]

\* Deviation: the batch need not continue from the root in the account.
Bug_commit_unchained(root, ix) ==
    /\ ix.is_signer /\ ix.params.transfer_count # 0 /\ root.authority = ix.authority
    /\ ix.params.batch_seq = root.batch_seq + 1
    /\ root.total_settled_amount + ix.params.total_settled_amount <= MaxSettled

process_commit_settlement_ok(root, ix) ==
    /\ ix.is_signer                                           \* UnauthorizedSigner
    /\ ix.params.transfer_count # 0                           \* EmptyBatch
    /\ root.authority = ix.authority                          \* UnauthorizedSigner
    /\ ix.params.batch_seq = root.batch_seq + 1               \* InvalidBatchSequence
    /\ root.batch_seq > 0 =>
         ix.params.previous_root = root.merkle_root           \* PreviousRootMismatch
    /\ root.total_settled_amount + ix.params.total_settled_amount <= MaxSettled
                                                       \* TotalSettledAmountOverflow

\* Deviation: the total is that of the batch.
Bug_total_of_batch(root, ix) ==
    [authority |-> root.authority, batch_seq |-> ix.params.batch_seq,
     merkle_root |-> ix.params.merkle_root, previous_root |-> ix.params.previous_root,
     transfer_count |-> ix.params.transfer_count,
     total_settled_amount |-> ix.params.total_settled_amount]

process_commit_settlement_write(root, ix) ==
    [authority |-> root.authority,
     batch_seq |-> ix.params.batch_seq,
     merkle_root |-> ix.params.merkle_root,
     previous_root |-> ix.params.previous_root,
     transfer_count |-> ix.params.transfer_count,
     total_settled_amount |-> root.total_settled_amount + ix.params.total_settled_amount]

process_verify_inclusion(root, leaf_hash, proof) ==
    proof_verify(proof, root.merkle_root, leaf_hash)          \* InclusionProofFailed
=============================================================================
