----------------------------- MODULE Settlement ------------------------------
(***************************************************************************)
(* The settlement program on its chain.  Operators of an authority build   *)
(* an instruction from the root they read, send it, and may send it again; *)
(* it lands at any later time, any number of times, in any order, when the *)
(* root may have moved on.                                                 *)
(***************************************************************************)
EXTENDS SettlementProgram

CONSTANTS Authority,    \* the keys operators sign with
          Batch,        \* batches of transfers an operator may settle
          MaxBuilt      \* bound on the batches built

ASSUME AuthorityAssumption == Authority \subseteq Key

VARIABLES pda,      \* the account of each authority
          sent,     \* instructions sent
          built,    \* batches built, by the instruction's root
          history   \* commits accepted since the account was initialized

vars == <<pda, sent, built, history>>

Init ==
    /\ pda = [k \in Authority |-> ZeroedAccount]
    /\ sent = {}
    /\ built = << >>
    /\ history = [k \in Authority |-> << >>]

SendInitialize(k) ==
    /\ initialize(k) \notin sent
    /\ sent' = sent \cup {initialize(k)}
    /\ UNCHANGED <<pda, built, history>>

SendCommit(k, transfers) ==
    /\ Len(built) < MaxBuilt
    /\ transfers # << >>                                      \* cannot settle empty batch
    /\ total_of(transfers) <= MaxSettled                      \* AmountOverflow
    /\ sent' = sent \cup {commit_settlement(k, CommitParams(pda[k], transfers))}
    /\ built' = Append(built, transfers)
    /\ UNCHANGED <<pda, history>>

LandInitialize(ix) ==
    /\ ix.type = "Initialize"
    /\ process_initialize_ok(ix)
    /\ pda' = [pda EXCEPT ![ix.pda] = process_initialize_write(ix)]
    /\ history' = [history EXCEPT ![ix.pda] = << >>]
    /\ UNCHANGED <<sent, built>>

LandCommit(ix) ==
    /\ ix.type = "CommitSettlement"
    /\ process_commit_settlement_ok(pda[ix.pda], ix)
    /\ pda' = [pda EXCEPT ![ix.pda] = process_commit_settlement_write(@, ix)]
    /\ history' = [history EXCEPT ![ix.pda] = Append(@, ix.params)]
    /\ UNCHANGED <<sent, built>>

Next ==
    \/ \E k \in Authority : SendInitialize(k)
    \/ \E k \in Authority, transfers \in Batch : SendCommit(k, transfers)
    \/ \E ix \in sent : LandInitialize(ix) \/ LandCommit(ix)

Spec == Init /\ [][Next]_vars

-----------------------------------------------------------------------------
(* What the account of an authority says *)

\* The accepted batches are numbered 1, 2, ... without gap or repetition, each
\* names the root of the one before it, and the account holds the last of them,
\* however late, often or out of order instructions land
\* (process_commit_settlement, checks 2 and 3).
ChainIntact ==
    \A k \in Authority :
        LET accepted == history[k]
            n == Len(accepted)
        IN  /\ pda[k].batch_seq = n
            /\ n > 0 => pda[k].merkle_root = accepted[n].merkle_root
            /\ \A i \in 1 .. n : accepted[i].batch_seq = i
            /\ \A i \in 2 .. n : accepted[i].previous_root = accepted[i - 1].merkle_root

\* The cumulative total is the sum over the accepted batches: nothing is counted
\* twice or lost, and it never passes u128::MAX (checked_add on the total).
TotalExact ==
    \A k \in Authority :
        /\ pda[k].total_settled_amount
             = FoldLeft(LAMBDA sum, p : sum + p.total_settled_amount, 0, history[k])
        /\ pda[k].total_settled_amount <= MaxSettled

\* A proof made for leaf i of any batch built so far is accepted by
\* VerifyInclusion exactly when that batch is the one the account holds, and
\* only for the transfer that is leaf i: proofs of earlier or rejected batches,
\* and of other transfers, are refused (process_verify_inclusion, MmrProof::verify).
InclusionExact ==
    \A k \in Authority, b \in DOMAIN built :
        \E mmr \in {mmr_of(built[b])} :
        \E current \in {pda[k].batch_seq > 0 /\ mmr_root(mmr) = pda[k].merkle_root} :
            \A i \in DOMAIN built[b] : \E proof \in {generate_proof(mmr, i - 1)} :
                \A c \in DOMAIN built : \A j \in DOMAIN built[c] :
                    process_verify_inclusion(pda[k], hash_leaf(built[c][j]), proof)
                    <=> current /\ built[c][j] = built[b][i]

\* Two batches have one root only if they are the same transfers in the same
\* order, and the range built leaf by leaf has the peaks of the perfect trees
\* over its leaves (append_leaf_hash, bag_peaks).
MountainsPerfect ==
    \A b \in DOMAIN built :
        \E mmr \in {mmr_of(built[b])} :
            /\ peak_hashes(mmr) = ReferencePeaks([i \in DOMAIN built[b] |-> hash_leaf(built[b][i])])
            /\ \A c \in DOMAIN built : mmr_root(mmr_of(built[c])) = mmr_root(mmr)
                                          => built[c] = built[b]
=============================================================================
