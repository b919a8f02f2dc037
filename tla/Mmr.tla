-------------------------------- MODULE Mmr ---------------------------------
(***************************************************************************)
(* The Merkle Mountain Range of crates/merkle as operators: appending a    *)
(* leaf, the root, inclusion proofs and their verification.  A hash is the *)
(* term it was computed from, so that two hashes are equal exactly when    *)
(* what was hashed is: SHA-256 without collisions, and with the domain     *)
(* prefixes of the code.  Positions in the node array count from 1, and 0  *)
(* is None; leaf indices count from 0, as in the code.                     *)
(***************************************************************************)
EXTENDS Integers, Sequences, SequencesExt

CONSTANT MaxHeight   \* 63, the height of the tallest mountain a leaf count can have

ASSUME HeightAssumption == MaxHeight \in Nat

-----------------------------------------------------------------------------
(* Hashes *)

Hash32_ZERO == <<"zero">>
hash_leaf(data) == <<"leaf", data>>
combine_nodes(left, right) == <<"node", left, right>>
combine_peaks(left, right) == <<"peak", left, right>>

\* Right to left: the last peak is combined into the one before it, and so on.
bag_peaks(peaks) ==
    IF peaks = << >> THEN Hash32_ZERO
    ELSE FoldRight(combine_peaks, Front(peaks), Last(peaks))

-----------------------------------------------------------------------------
(* The range *)

Mmr_new == [nodes |-> << >>, peaks |-> << >>, leaf_positions |-> << >>]

leaf_count(mmr) == Len(mmr.leaf_positions)

peak_hashes(mmr) == [k \in DOMAIN mmr.peaks |-> mmr.nodes[mmr.peaks[k]].hash]

mmr_root(mmr) == bag_peaks(peak_hashes(mmr))

NewNode(hash, height, left, right) ==
    [hash |-> hash, height |-> height, left_child |-> left, right_child |-> right, parent |-> 0]

\* Deviation: the new node becomes the left child.
Bug_merge_swapped(mmr) ==
    LET new == Last(mmr.peaks)
        old == Last(Front(mmr.peaks))
        up  == Len(mmr.nodes) + 1
        h   == mmr.nodes[new].height
    IN  IF Len(mmr.peaks) < 2 \/ mmr.nodes[Last(Front(mmr.peaks))].height # h THEN mmr
        ELSE [mmr EXCEPT
               !.nodes = Append([@ EXCEPT ![new].parent = up, ![old].parent = up],
                                NewNode(combine_nodes(@[new].hash, @[old].hash), h + 1, new, old)),
               !.peaks = Append(Front(Front(@)), up)]

\* One turn of the loop: while the last two mountains are of one height, the
\* older is the left child of a new parent.
merge_peaks(mmr) ==
    LET new == Last(mmr.peaks)
        old == Last(Front(mmr.peaks))
        up  == Len(mmr.nodes) + 1
        h   == mmr.nodes[new].height
    IN  IF Len(mmr.peaks) < 2 \/ mmr.nodes[Last(Front(mmr.peaks))].height # h THEN mmr
        ELSE [mmr EXCEPT
               !.nodes = Append([@ EXCEPT ![old].parent = up, ![new].parent = up],
                                NewNode(combine_nodes(@[old].hash, @[new].hash), h + 1, old, new)),
               !.peaks = Append(Front(Front(@)), up)]

append_leaf_hash(mmr, leaf) ==
    LET at == Len(mmr.nodes) + 1
    IN  FoldLeft(LAMBDA m, k : merge_peaks(m),
                 [nodes |-> Append(mmr.nodes, NewNode(leaf, 0, 0, 0)),
                  peaks |-> Append(mmr.peaks, at),
                  leaf_positions |-> Append(mmr.leaf_positions, at)],
                 mmr.peaks)

append_transfer(mmr, t) == append_leaf_hash(mmr, hash_leaf(t))

mmr_of(transfers) == FoldLeft(append_transfer, Mmr_new, transfers)

-----------------------------------------------------------------------------
(* Inclusion proofs *)

\* The sibling at every parent link from the leaf up to its peak.
generate_proof(mmr, leaf_index) ==
    LET sibling(p) ==
          LET up == mmr.nodes[mmr.nodes[p].parent]
          IN  IF up.left_child = p THEN up.right_child ELSE up.left_child
        siblings[p \in DOMAIN mmr.nodes] ==
          IF mmr.nodes[p].parent = 0 THEN << >>
          ELSE <<mmr.nodes[sibling(p)].hash>> \o siblings[mmr.nodes[p].parent]
    IN  [leaf_index |-> leaf_index, leaf_count |-> leaf_count(mmr),
         siblings |-> siblings[mmr.leaf_positions[leaf_index + 1]],
         peaks |-> peak_hashes(mmr)]

\* The sizes of the mountains of n leaves, the set bits of n, tallest first.
Mountains(n) ==
    SelectSeq([k \in 1 .. MaxHeight + 1 |-> 2 ^ (MaxHeight + 1 - k)],
              LAMBDA size : (n \div size) % 2 = 1)

\* The leaves before mountain k.
offset(sizes, k) == FoldLeft(+, 0, SubSeq(sizes, 1, k - 1))

\* Deviation: the path is climbed as if the leaf were the first of its mountain.
Bug_climb_left(leaf_hash, siblings, local_index) ==
    FoldLeft(combine_nodes, leaf_hash, siblings)

\* The peak a leaf and its siblings lead to: bit h of the index within the
\* mountain says on which side the sibling of height h is.
climb(leaf_hash, siblings, local_index) ==
    FoldLeftDomain(LAMBDA curr, k : IF (local_index \div 2 ^ (k - 1)) % 2 = 1
                                    THEN combine_nodes(siblings[k], curr)
                                    ELSE combine_nodes(curr, siblings[k]),
                   leaf_hash, siblings)

\* Deviation: the peak the leaf leads to is never compared with the proof's.
Bug_verify_any_leaf(proof, expected_root, leaf_hash) ==
    /\ proof.leaf_index < proof.leaf_count
    /\ Len(proof.peaks) = Len(Mountains(proof.leaf_count))
    /\ bag_peaks(proof.peaks) = expected_root

proof_verify(proof, expected_root, leaf_hash) ==
    LET sizes == Mountains(proof.leaf_count)
    IN  /\ proof.leaf_count # 0                               \* EmptyTree
        /\ proof.leaf_index < proof.leaf_count                \* LeafIndexOutOfBounds
        /\ Len(proof.peaks) = Len(sizes)                      \* PeakCountMismatch
        /\ \E k \in DOMAIN sizes :
             LET local_index == proof.leaf_index - offset(sizes, k)
             IN  /\ local_index \in 0 .. sizes[k] - 1
                 /\ 2 ^ Len(proof.siblings) = sizes[k]        \* SiblingCountMismatch
                 /\ climb(leaf_hash, proof.siblings, local_index) = proof.peaks[k]
                                                              \* PeakMismatch
        /\ bag_peaks(proof.peaks) = expected_root             \* RootMismatch

-----------------------------------------------------------------------------
(* The reference: what the range of a list of leaves should be *)

\* The root of the perfect tree over the 2 ^ h leaves from position i.
PerfectRoot(leaves, i, h) ==
    LET tree[d \in 0 .. h] ==
          [j \in 0 .. 2 ^ (h - d) - 1 |->
              IF d = 0 THEN leaves[i + j]
              ELSE combine_nodes(tree[d - 1][2 * j], tree[d - 1][2 * j + 1])]
    IN  tree[h][0]

ReferencePeaks(leaves) ==
    LET sizes == Mountains(Len(leaves))
    IN  [k \in DOMAIN sizes |->
            PerfectRoot(leaves, offset(sizes, k) + 1,
                        CHOOSE h \in 0 .. MaxHeight : 2 ^ h = sizes[k])]
=============================================================================
