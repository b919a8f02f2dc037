-------------------------- MODULE SettlementProofs ---------------------------
(***************************************************************************)
(* Proof that the chain of accepted settlements stays intact, for any      *)
(* operators, batches and order of landing.                                *)
(***************************************************************************)
EXTENDS Settlement, TLAPS

\* The parameters of the commits sent so far.
SentParams == {ix.params : ix \in {x \in sent : x.type = "CommitSettlement"}}

StateTyped ==
    /\ pda = [k \in Authority |-> pda[k]]
    /\ history = [k \in Authority |-> history[k]]
    /\ \A k \in Authority : history[k] \in Seq(SentParams)
    /\ \A ix \in sent : ix.pda \in Authority

IInv == StateTyped /\ ChainIntact

\* What ChainIntact says of one account and the commits it accepted.
Intact(root, accepted) ==
    /\ root.batch_seq = Len(accepted)
    /\ Len(accepted) > 0 => root.merkle_root = accepted[Len(accepted)].merkle_root
    /\ \A i \in 1 .. Len(accepted) : accepted[i].batch_seq = i
    /\ \A i \in 2 .. Len(accepted) : accepted[i].previous_root = accepted[i - 1].merkle_root

LEMMA IntactEach == ChainIntact <=> \A k \in Authority : Intact(pda[k], history[k])
BY DEF ChainIntact, Intact

\* A sequence over a set is one over any larger set.
LEMMA SeqMonotone ==
    ASSUME NEW S, NEW T, S \subseteq T, NEW s \in Seq(S)
    PROVE  s \in Seq(T)
OBVIOUS

\* The account as initialize leaves it, with no commit accepted
\* (process_initialize).
LEMMA InitializedIntact ==
    ASSUME NEW root, root.batch_seq = 0
    PROVE  Intact(root, << >>)
BY DEF Intact

\* The checks of process_commit_settlement extend an intact chain to an intact one.
LEMMA CommitExtends ==
    ASSUME NEW S, NEW root, NEW accepted \in Seq(S), NEW ix, ix.params \in S,
           Intact(root, accepted), process_commit_settlement_ok(root, ix)
    PROVE  Intact(process_commit_settlement_write(root, ix), Append(accepted, ix.params))
<1> DEFINE n == Len(accepted)
           longer == Append(accepted, ix.params)
           after == process_commit_settlement_write(root, ix)
<1>1. n \in Nat /\ Len(longer) = n + 1 /\ longer[n + 1] = ix.params
  OBVIOUS
<1>2. \A i \in 1 .. n : longer[i] = accepted[i]
  OBVIOUS
<1>3. root.batch_seq = n /\ ix.params.batch_seq = n + 1
  BY DEF Intact, process_commit_settlement_ok
<1>4. n > 0 => ix.params.previous_root = accepted[n].merkle_root
  BY <1>1, <1>3 DEF Intact, process_commit_settlement_ok
<1>5. after.batch_seq = n + 1 /\ after.merkle_root = ix.params.merkle_root
  BY <1>3 DEF process_commit_settlement_write
<1> HIDE DEF n, longer, after
<1>6. \A i \in 1 .. n + 1 : longer[i].batch_seq = i
  <2> SUFFICES ASSUME NEW i \in 1 .. n + 1 PROVE longer[i].batch_seq = i
    OBVIOUS
  <2>1. CASE i = n + 1
    BY <2>1, <1>1, <1>3
  <2>2. CASE i # n + 1
    BY <2>2, <1>1, <1>2 DEF Intact, n
  <2> QED BY <2>1, <2>2
<1>7. \A i \in 2 .. n + 1 : longer[i].previous_root = longer[i - 1].merkle_root
  <2> SUFFICES ASSUME NEW i \in 2 .. n + 1
               PROVE  longer[i].previous_root = longer[i - 1].merkle_root
    OBVIOUS
  <2>1. CASE i = n + 1
    BY <2>1, <1>1, <1>2, <1>4
  <2>2. CASE i # n + 1
    <3>1. i \in 2 .. n /\ i \in 1 .. n /\ i - 1 \in 1 .. n
      BY <2>2, <1>1
    <3>2. accepted[i].previous_root = accepted[i - 1].merkle_root
      BY <3>1 DEF Intact, n
    <3> QED BY <3>1, <3>2, <1>2
  <2> QED BY <2>1, <2>2
<1> QED BY <1>1, <1>5, <1>6, <1>7 DEF Intact, longer, after

LEMMA InitIntact == Init => IInv
<1> SUFFICES ASSUME Init PROVE IInv
  OBVIOUS
<1>1. StateTyped
  BY DEF Init, StateTyped, SentParams
<1>2. \A k \in Authority : Intact(pda[k], history[k])
  BY InitializedIntact DEF Init, ZeroedAccount
<1> QED BY <1>1, <1>2, IntactEach DEF IInv

\* Sending adds to the commits sent and leaves the accounts alone.
LEMMA SendKeeps ==
    ASSUME IInv, NEW ix, ix.pda \in Authority,
           sent' = sent \cup {ix}, UNCHANGED <<pda, history>>
    PROVE  IInv'
<1>1. SentParams \subseteq SentParams'
  BY DEF SentParams
<1>2. \A k \in Authority : history[k] \in Seq(SentParams')
  BY <1>1, SeqMonotone DEF IInv, StateTyped
<1>3. StateTyped'
  BY <1>2 DEF IInv, StateTyped
<1>4. ChainIntact'
  BY DEF IInv, ChainIntact
<1> QED BY <1>3, <1>4 DEF IInv

\* Every step keeps the chain of every account intact.
LEMMA NextKeeps == IInv /\ [Next]_vars => IInv'
<1> SUFFICES ASSUME IInv, [Next]_vars PROVE IInv'
  OBVIOUS
<1>1. ASSUME NEW k \in Authority, SendInitialize(k) PROVE IInv'
  <2>1. initialize(k).pda \in Authority
    BY DEF initialize
  <2> QED BY <1>1, <2>1, SendKeeps DEF SendInitialize
<1>2. ASSUME NEW k \in Authority, NEW transfers \in Batch, SendCommit(k, transfers)
      PROVE  IInv'
  <2> DEFINE ix == commit_settlement(k, CommitParams(pda[k], transfers))
  <2>1. ix.pda \in Authority
    BY DEF commit_settlement
  <2> QED BY <1>2, <2>1, SendKeeps DEF SendCommit
<1>3. ASSUME NEW ix \in sent, LandInitialize(ix) PROVE IInv'
  <2>1. ix.pda \in Authority /\ SentParams' = SentParams
    BY <1>3 DEF IInv, StateTyped, LandInitialize, SentParams
  <2> DEFINE cleared == [k \in Authority |-> IF k = ix.pda THEN << >> ELSE history[k]]
  <2>a. history' = cleared
    BY <1>3, Zenon DEF IInv, StateTyped, LandInitialize
  <2>b. pda' = [k \in Authority |-> IF k = ix.pda THEN process_initialize_write(ix) ELSE pda[k]]
    BY <1>3, Zenon DEF IInv, StateTyped, LandInitialize
  <2>2. StateTyped'
    <3>1. \A k \in Authority : history'[k] \in Seq(SentParams)
      BY <2>a DEF IInv, StateTyped
    <3>2. pda' = [k \in Authority |-> pda'[k]] /\ history' = [k \in Authority |-> history'[k]]
      BY <2>a, <2>b
    <3> QED BY <1>3, <2>1, <3>1, <3>2 DEF IInv, StateTyped, LandInitialize
  <2>3. process_initialize_write(ix).batch_seq = 0
    BY DEF process_initialize_write, ZeroedAccount
  <2>4. \A k \in Authority : Intact(pda'[k], history'[k])
    BY <2>1, <2>3, <2>a, <2>b, InitializedIntact, IntactEach DEF IInv
  <2> QED BY <2>2, <2>4, IntactEach DEF IInv, ChainIntact, Intact
<1>4. ASSUME NEW ix \in sent, LandCommit(ix) PROVE IInv'
  <2>1. ix.pda \in Authority /\ SentParams' = SentParams /\ ix.params \in SentParams
    BY <1>4 DEF IInv, StateTyped, LandCommit, SentParams
  <2> DEFINE written == process_commit_settlement_write(pda[ix.pda], ix)
             extended == Append(history[ix.pda], ix.params)
  <2>a. history' = [k \in Authority |-> IF k = ix.pda THEN extended ELSE history[k]]
    BY <1>4, Zenon DEF IInv, StateTyped, LandCommit
  <2>b. pda' = [k \in Authority |-> IF k = ix.pda THEN written ELSE pda[k]]
    BY <1>4, Zenon DEF IInv, StateTyped, LandCommit
  <2>2. StateTyped'
    <3>1. extended \in Seq(SentParams)
      BY <2>1 DEF IInv, StateTyped
    <3>2. \A k \in Authority : history'[k] \in Seq(SentParams)
      BY <3>1, <2>a DEF IInv, StateTyped
    <3>3. pda' = [k \in Authority |-> pda'[k]] /\ history' = [k \in Authority |-> history'[k]]
      BY <2>a, <2>b
    <3> QED BY <1>4, <2>1, <3>2, <3>3 DEF IInv, StateTyped, LandCommit
  <2>3. Intact(process_commit_settlement_write(pda[ix.pda], ix),
               Append(history[ix.pda], ix.params))
    BY <1>4, <2>1, CommitExtends, IntactEach DEF IInv, StateTyped, LandCommit
  <2>4. \A k \in Authority : Intact(pda'[k], history'[k])
    BY <2>3, <2>a, <2>b, IntactEach DEF IInv
  <2> QED BY <2>2, <2>4 DEF IInv, ChainIntact, Intact
<1>5. ASSUME UNCHANGED vars PROVE IInv'
  BY <1>5 DEF IInv, StateTyped, SentParams, ChainIntact, vars
<1> QED BY <1>1, <1>2, <1>3, <1>4, <1>5 DEF Next

\* However instructions are duplicated, delayed and reordered, the accepted
\* batches are numbered without a gap and each continues from the root of the one
\* before (process_commit_settlement).
THEOREM ChainAlwaysIntact == Spec => []ChainIntact
<1>1. IInv => ChainIntact
  BY DEF IInv
<1> QED BY <1>1, InitIntact, NextKeeps, PTL DEF Spec
=============================================================================
