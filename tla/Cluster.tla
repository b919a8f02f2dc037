------------------------------ MODULE Cluster -------------------------------
(***************************************************************************)
(* The replicated cluster of simulator/: three nodes that elect a leader,  *)
(* replicate operations with proposals, acknowledgements and commits over  *)
(* a network that drops, duplicates, delays and partitions, apply them to  *)
(* a ledger and a disk of checksummed frames, crash and reboot.            *)
(*                                                                         *)
(* Virtual time is the variable now, which stamps commits.  The timers are *)
(* left out: an election timeout may expire, and a heartbeat be due, at    *)
(* any moment, as latencies and timeouts are random.  So are partitions    *)
(* and isolation: any packet may be lost.                                  *)
(***************************************************************************)
EXTENDS LedgerCore, SequencesExt

CONSTANTS Node,           \* node ids
          First,          \* node 1, which leads at the start
          Vault,          \* the account that funds the others
          Customers,      \* the sequence of accounts tracked
          InitialBalance, \* initial_balance
          Route,          \* pairs of accounts the workload moves money between
          Kinds,          \* kinds of operation the workload draws
          SeedId,         \* seed transfers are SeedId + 1, SeedId + 2, ...
          Epoch,          \* the constant added to the clock in commit timestamps
          None,           \* voted_for = None
          Torn,           \* the fragment a torn write leaves
          Candidates,     \* nodes whose election timeouts may expire
          Deposed,        \* leaders trigger_election is called for
          Victims,        \* nodes that may crash or be rebooted
          MaxHolds, MaxIndex, MaxTerm, MaxRestarts, MaxNow  \* bounds

ASSUME ClusterAssumption ==
    /\ IsFiniteSet(Node) /\ First \in Node /\ None \notin Node
    /\ Epoch > 2 * Len(Customers) /\ Epoch + MaxNow <= MaxTimestamp

VARIABLES nodes,           \* SimCluster::nodes
          packets,         \* SimNetwork::queue and what it has delivered
          next_log_index,  \* SimCluster::next_log_index
          active_holds,    \* WorkloadGenerator::active_holds
          now,             \* SimClock
          restarts         \* crashes, and reboots of live nodes, so far

vars == <<nodes, packets, next_log_index, active_holds, now, restarts>>

quorum_size == (Cardinality(Node) \div 2) + 1

Peers(n) == Node \ {n}

-----------------------------------------------------------------------------
(* SimDisk *)

disk_new == [buffered |-> << >>, flushed |-> << >>]

disk_write(disk, frame) == [disk EXCEPT !.buffered = Append(@, frame)]

disk_sync(disk) == [buffered |-> << >>, flushed |-> disk.flushed \o disk.buffered]

\* What a power cut may leave: with torn_write a strict prefix of the buffer, or,
\* when all is flushed, bytes of garbage after it.
disk_crash(disk, torn_write) ==
    LET Left(tail) == [buffered |-> << >>, flushed |-> disk.flushed \o tail]
    IN  IF ~ torn_write \/ disk.buffered \o disk.flushed = << >> THEN {Left(<< >>)}
        ELSE IF disk.buffered = << >> THEN {Left(<<Torn>>)}
        ELSE {Left(SubSeq(disk.buffered, 1, k) \o <<Torn>>) : k \in 0 .. Len(disk.buffered) - 1}

\* The frames that verify, up to the first that does not.
ValidFrames(disk) ==
    LET bad == {k \in DOMAIN disk.flushed : disk.flushed[k] = Torn}
    IN  IF bad = {} THEN disk.flushed ELSE SubSeq(disk.flushed, 1, Min(bad) - 1)

-----------------------------------------------------------------------------
(* SimNode: the state machine *)

\* Deviation: the seeds carry the timestamp of the vault.
Bug_seed_timestamp(k) == 0

seed_timestamp(k) == 2 * k

\* reinit_base_state: the vault, then each account and its seed; errors are ignored.
Genesis ==
    LET scale == CHOOSE s \in Scale : TRUE
        opened(L, id, flags, ts) ==
            create_account(L, [id |-> id, flags |-> flags, scale |-> scale,
                               timestamp |-> ts]).ledger
        seeded(L, k) ==
            IF InitialBalance = 0 THEN L
            ELSE create_transfer(L, NewTransfer(SeedId + k, Vault, Customers[k], InitialBalance,
                                                "Posted", seed_timestamp(k))).ledger
    IN  FoldLeft(LAMBDA L, k : seeded(opened(L, Customers[k], customer_flags,
                                             2 * k - 1), k),
                 opened(Ledger_new(scale), Vault, bank_asset_flags, 0),
                 [k \in DOMAIN Customers |-> k])

\* The ledger after an operation, whose Result is ignored.
ledger_after(L, frame) ==
    LET op == frame.op
        ts == frame.timestamp
    IN
    CASE op.type = "DirectTransfer" ->
             create_transfer(L, NewTransfer(op.id, op.from, op.to, op.amount, "Posted", ts)).ledger
      [] op.type = "CreatePending" ->
             create_pending(L, NewTransfer(op.id, op.from, op.to, op.amount, "Pending", ts)).ledger
      [] op.type = "PostPending" ->
             post_pending(L, [pending_id |-> op.pending_id, post_transfer_id |-> op.id,
                              amount |-> op.amount, timestamp |-> ts]).ledger
      [] op.type = "VoidPending" ->
             void_pending(L, [pending_id |-> op.pending_id, timestamp |-> ts]).ledger

\* The ledger is kept as the calls made on it since the base state.
apply_op_in_memory(v, frame) ==
    [v EXCEPT !.ledger = Append(@, frame),
              !.committed_ops = MapInsert(@, frame.index,
                                          [op |-> frame.op, timestamp |-> frame.timestamp]),
              !.commit_index = IF frame.index > @ THEN frame.index ELSE @]

apply_op(v, frame) ==
    [apply_op_in_memory(v, frame) EXCEPT !.disk = disk_sync(disk_write(@, frame))]

\* Deviation: the torn tail stays on the disk.
Bug_recover_keeps_tail(v) ==
    FoldLeft(apply_op_in_memory,
             [v EXCEPT !.ledger = << >>, !.committed_ops = EmptyMap,
                       !.pending_commits = EmptyMap, !.uncommitted = EmptyMap,
                       !.commit_index = 0],
             ValidFrames(v.disk))

\* Replay the frames that verify over the base state and cut the rest off.
recover(v) ==
    FoldLeft(apply_op_in_memory,
             [v EXCEPT !.ledger = << >>, !.committed_ops = EmptyMap,
                       !.pending_commits = EmptyMap, !.uncommitted = EmptyMap,
                       !.commit_index = 0, !.disk.flushed = ValidFrames(v.disk)],
             ValidFrames(v.disk))

\* The ledger those calls leave.
LedgerAfter(frames) == FoldLeft(ledger_after, Genesis, frames)

MapRemove(map, k) == [x \in DOMAIN map \ {k} |-> map[x]]

\* One turn of the loop that applies the pending commit that comes next.
drain_one(v) ==
    LET k == v.commit_index + 1
    IN  IF k \notin DOMAIN v.pending_commits THEN v
        ELSE apply_op([v EXCEPT !.pending_commits = MapRemove(@, k),
                                !.uncommitted = MapRemove(@, k)],
                      [index |-> k, op |-> v.pending_commits[k].op,
                       timestamp |-> v.pending_commits[k].timestamp])

\* The whole loop: it moves what is due from the pending commits to the log and the
\* disk and touches nothing else.
drain(v) ==
    LET w == FoldLeft(LAMBDA u, k : drain_one(u), v,
                      [k \in 1 .. Cardinality(DOMAIN v.pending_commits) |-> k])
    IN  [v EXCEPT !.pending_commits = w.pending_commits, !.uncommitted = w.uncommitted,
                  !.ledger = w.ledger, !.committed_ops = w.committed_ops,
                  !.commit_index = w.commit_index, !.disk = w.disk]

\* The entries the node has not committed yet join its pending commits.
Buffer(v, entries) ==
    [v EXCEPT !.pending_commits =
        [k \in DOMAIN @ \cup (DOMAIN entries \ DOMAIN v.committed_ops) |->
            IF k \in DOMAIN entries \ DOMAIN v.committed_ops THEN entries[k] ELSE @[k]]]

SimNode_new(n) ==
    [status |-> "Active", role |-> IF n = First THEN "Leader" ELSE "Follower", term |-> 1,
     voted_for |-> IF n = First THEN n ELSE None, votes_received |-> {},
     committed_ops |-> EmptyMap, pending_commits |-> EmptyMap, uncommitted |-> EmptyMap,
     commit_index |-> 0, ledger |-> << >>, disk |-> disk_new]

-----------------------------------------------------------------------------
(* SimNetwork *)

\* m can no longer make a difference to v: its term is over, or what it brings
\* is there.
Stale(v, m) ==
    CASE m.type \in {"Propose", "Commit"} ->
             m.term < v.term \/ (m.term = v.term /\ m.index \in DOMAIN v.committed_ops)
      [] m.type = "Ack" -> m.term < v.term \/ m.index \notin DOMAIN v.uncommitted
      [] m.type = "Heartbeat" ->
             m.term < v.term \/ (m.term = v.term /\ v.role = "Follower"
                                  /\ m.commit_index <= v.commit_index)
      [] m.type = "RequestVote" ->
             m.term < v.term \/ (m.term = v.term /\ m.last_index < v.commit_index)
      [] m.type = "VoteGranted" ->
             m.term < v.term \/ (m.term = v.term /\ (v.role # "Candidate"
                                                        \/ m.from \in v.votes_received))
      [] m.type = "CatchupRequest" -> FALSE
      [] m.type = "CatchupResponse" -> DOMAIN m.entries \subseteq DOMAIN v.committed_ops

\* The queue when out is sent and the nodes are ns.  A packet stays in it while it
\* can make a difference: one that is never delivered was dropped, at random or at
\* a partition or an isolated node, or is late; one delivered again was duplicated.
\* A request for entries the sender has got since is dropped.
send(ns, out) ==
    {p \in packets \cup out :
        /\ ~ Stale(ns[p.to], p.msg)
        /\ p.msg.type = "CatchupRequest" => p.msg.last_index = ns[p.from].commit_index}

Broadcast(n, msg) == {[from |-> n, to |-> peer, msg |-> msg] : peer \in Peers(n)}

-----------------------------------------------------------------------------
(* process_packet: what a node makes of a message, and the packets it sends *)

\* A message of a later term makes the node a follower in it.
adopt(v, term) ==
    IF term > v.term THEN [v EXCEPT !.term = term, !.role = "Follower", !.voted_for = None]
    ELSE v

Reaction(v, out) == [node |-> v, out |-> out]

\* The copy a follower files in its own uncommitted map is left out: only an
\* acknowledgement makes a node look there, and those go to the proposer.
on_propose(v, n, from, m) ==
    IF m.term < v.term THEN Reaction(v, {})
    ELSE Reaction(adopt(v, m.term),
                  {[from |-> n, to |-> from,
                    msg |-> [type |-> "Ack", from |-> n, term |-> m.term, index |-> m.index]]})

\* The leader after it counted an acknowledgement.
Counted(v, m) ==
    IF v.role = "Leader" /\ v.term = m.term /\ m.index \in DOMAIN v.uncommitted
    THEN [v EXCEPT !.uncommitted[m.index].acks = @ \cup {m.from}] ELSE v

\* A quorum has acknowledged what the leader has not committed.
HasQuorum(v, m) ==
    /\ v.role = "Leader" /\ v.term = m.term
    /\ m.index \in DOMAIN v.uncommitted \ DOMAIN v.committed_ops
    /\ Cardinality(v.uncommitted[m.index].acks) >= quorum_size

\* The Commit packets for what v committed after index done.
Commits(n, v, term, done) ==
    UNION {Broadcast(n, [type |-> "Commit", term |-> term, index |-> k,
                         op |-> v.committed_ops[k].op,
                         timestamp |-> v.committed_ops[k].timestamp]) :
             k \in done + 1 .. v.commit_index}

on_ack(v, n, from, m, time) ==
    IF ~ HasQuorum(Counted(v, m), m) THEN Reaction(Counted(v, m), {})
    ELSE LET committed == drain([Counted(v, m) EXCEPT !.pending_commits =
                                    MapInsert(@, m.index, [op |-> v.uncommitted[m.index].op,
                                                           timestamp |-> Epoch + time])])
         IN  Reaction(committed, Commits(n, committed, m.term, v.commit_index))

on_commit(v, n, from, m) ==
    IF m.term < v.term THEN Reaction(v, {})
    ELSE Reaction(drain(Buffer(adopt(v, m.term),
                               [k \in {m.index} |-> [op |-> m.op, timestamp |-> m.timestamp]])),
                  {})

on_heartbeat(v, n, from, m) ==
    IF m.term < v.term THEN Reaction(v, {})
    ELSE Reaction([adopt(v, m.term) EXCEPT !.role = "Follower"],
                  IF m.commit_index <= v.commit_index THEN {}
                  ELSE {[from |-> n, to |-> from,
                         msg |-> [type |-> "CatchupRequest", last_index |-> v.commit_index]]})
\* Deviation: a vote is given to every candidate of the term.
Bug_votes_twice(v, m) == v.term = m.term /\ m.last_index >= v.commit_index

MayVote(v, m) ==
    /\ v.term = m.term
    /\ v.voted_for \in {None, m.candidate_id}
    /\ m.last_index >= v.commit_index

on_request_vote(v, n, from, m) ==
    IF ~ MayVote(adopt(v, m.term), m) THEN Reaction(adopt(v, m.term), {})
    ELSE Reaction([adopt(v, m.term) EXCEPT !.voted_for = m.candidate_id],
                  {[from |-> n, to |-> m.candidate_id,
                    msg |-> [type |-> "VoteGranted", from |-> n, term |-> m.term]]})

on_vote_granted(v, n, from, m) ==
    IF v.term # m.term \/ v.role # "Candidate" THEN Reaction(v, {})
    ELSE IF Cardinality(v.votes_received \cup {m.from}) < quorum_size
         THEN Reaction([v EXCEPT !.votes_received = @ \cup {m.from}], {})
         ELSE Reaction([v EXCEPT !.votes_received = @ \cup {m.from}, !.role = "Leader"],
                       Broadcast(n, [type |-> "Heartbeat", term |-> m.term,
                                     commit_index |-> v.commit_index]))

on_catchup_request(v, n, from, m) ==
    LET entries == [k \in {k \in DOMAIN v.committed_ops : k > m.last_index} |->
                        v.committed_ops[k]]
    IN  Reaction(v, IF DOMAIN entries = {} THEN {}
                    ELSE {[from |-> n, to |-> from,
                           msg |-> [type |-> "CatchupResponse", entries |-> entries]]})

on_catchup_response(v, n, from, m) == Reaction(drain(Buffer(v, m.entries)), {})

process_packet(v, p, time) ==
    CASE p.msg.type = "Propose"         -> on_propose(v, p.to, p.from, p.msg)
      [] p.msg.type = "Ack"             -> on_ack(v, p.to, p.from, p.msg, time)
      [] p.msg.type = "Commit"          -> on_commit(v, p.to, p.from, p.msg)
      [] p.msg.type = "Heartbeat"       -> on_heartbeat(v, p.to, p.from, p.msg)
      [] p.msg.type = "RequestVote"     -> on_request_vote(v, p.to, p.from, p.msg)
      [] p.msg.type = "VoteGranted"     -> on_vote_granted(v, p.to, p.from, p.msg)
      [] p.msg.type = "CatchupRequest"  -> on_catchup_request(v, p.to, p.from, p.msg)
      [] p.msg.type = "CatchupResponse" -> on_catchup_response(v, p.to, p.from, p.msg)
-----------------------------------------------------------------------------
(* Actions *)

Init ==
    /\ nodes = [n \in Node |-> SimNode_new(n)]
    /\ packets = {}
    /\ next_log_index = 0
    /\ active_holds = {}
    /\ now = 0
    /\ restarts = 0

Active(n) == nodes[n].status = "Active"

\* When p may arrive: nobody looks at the clock but the leader that commits, so it
\* is advanced there.
Times(p) ==
    IF p.msg.type = "Ack" /\ HasQuorum(Counted(nodes[p.to], p.msg), p.msg) THEN now .. MaxNow
    ELSE {now}

\* A packet arrives at a live node.
Deliver(p) ==
    /\ Active(p.to)
    /\ \E time \in Times(p) : \E r \in {process_packet(nodes[p.to], p, time)} :
         /\ nodes' = [nodes EXCEPT ![p.to] = r.node]
         /\ packets' = send(nodes', r.out)
         /\ now' = time
    /\ UNCHANGED <<next_log_index, active_holds, restarts>>

\* The operations next_op may generate, and the holds it tracks after each.  The
\* identifier of an operation is its index, which is as fresh as a counter's.
next_op(id, holds) ==
    {[op |-> [type |-> kind, id |-> id, pending_id |-> h, amount |-> 1],
      holds |-> holds \ {h}] : h \in holds, kind \in Kinds \cap {"PostPending", "VoidPending"}}
    \cup
    {[op |-> [type |-> kind, id |-> id, from |-> r[1], to |-> r[2], amount |-> 1],
      holds |-> IF kind = "CreatePending" THEN holds \cup {id} ELSE holds] :
        r \in Route,
        kind \in Kinds \cap ({"DirectTransfer"} \cup
                           IF Cardinality(holds) < MaxHolds THEN {"CreatePending"} ELSE {})}

Leaders == {n \in Node : nodes[n].role = "Leader" /\ Active(n)}

\* Deviation: the index follows the leader's own log.
Bug_index_from_leader(l) ==
    1 + Cardinality(DOMAIN nodes[l].committed_ops \cup DOMAIN nodes[l].uncommitted)

log_index(l) == next_log_index + 1

\* propose of the next operation through a live leader (find_leader_id takes the
\* first of them); without one it returns false and changes nothing.
Propose ==
    /\ next_log_index < MaxIndex
    /\ \E g \in next_op(next_log_index + 1, active_holds), l \in Leaders :
         /\ active_holds' = g.holds
         /\ nodes' = [nodes EXCEPT ![l].uncommitted =
                          MapInsert(@, log_index(l), [op |-> g.op, acks |-> {l}])]
         /\ packets' = send(nodes', Broadcast(l, [type |-> "Propose", term |-> nodes[l].term,
                                                    index |-> log_index(l), op |-> g.op]))
    /\ next_log_index' = next_log_index + 1
    /\ UNCHANGED <<now, restarts>>

\* tick_nodes: a leader's heartbeat is due.
Heartbeat(n) ==
    /\ Active(n) /\ nodes[n].role = "Leader"
    /\ packets' = send(nodes, Broadcast(n, [type |-> "Heartbeat", term |-> nodes[n].term,
                                               commit_index |-> nodes[n].commit_index]))
    /\ UNCHANGED <<nodes, next_log_index, active_holds, now, restarts>>

\* n as a candidate of the next term, for which it has voted.
candidate(v, n) ==
    [v EXCEPT !.term = v.term + 1, !.role = "Candidate", !.voted_for = n,
              !.votes_received = {n}]

\* n asks for votes in the term that follows its own.
Campaign(n) ==
    /\ Active(n)
    /\ nodes[n].term < MaxTerm
    /\ nodes' = [nodes EXCEPT ![n] = candidate(nodes[n], n)]
    /\ packets' = send(nodes', Broadcast(n, [type |-> "RequestVote", candidate_id |-> n,
                                               term |-> nodes[n].term + 1,
                                               last_index |-> nodes[n].commit_index]))
    /\ UNCHANGED <<next_log_index, active_holds, now, restarts>>

\* tick_nodes: an election timeout expires.
Timeout(n) == n \in Candidates /\ nodes[n].role # "Leader" /\ Campaign(n)

\* trigger_election makes any live node campaign, a leader included.
trigger_election(n) == n \in Deposed /\ nodes[n].role = "Leader" /\ Campaign(n)

crash_node(n) ==
    /\ n \in Victims /\ restarts < MaxRestarts
    /\ \E disk \in disk_crash(nodes[n].disk, TRUE) :
         nodes' = [nodes EXCEPT ![n] =
                      [@ EXCEPT !.status = "Crashed", !.role = "Follower", !.voted_for = None,
                                !.votes_received = {}, !.uncommitted = EmptyMap,
                                !.pending_commits = EmptyMap, !.disk = disk]]
    /\ restarts' = restarts + 1
    /\ UNCHANGED <<packets, next_log_index, active_holds, now>>

\* The scenarios also reboot nodes that are up.
reboot_node(n) ==
    /\ Active(n) => n \in Victims /\ restarts < MaxRestarts
    /\ \E v \in {recover(nodes[n])} :
         nodes' = [nodes EXCEPT ![n] = [v EXCEPT !.status = "Active", !.role = "Follower",
                                                 !.voted_for = None, !.votes_received = {}]]
    /\ packets' = send(nodes', Broadcast(n, [type |-> "CatchupRequest",
                                       last_index |-> nodes'[n].commit_index]))
    /\ restarts' = restarts + (IF Active(n) THEN 1 ELSE 0)
    /\ UNCHANGED <<next_log_index, active_holds, now>>

Next == \/ \E p \in packets : Deliver(p)
        \/ Propose
        \/ \E n \in Node : \/ Heartbeat(n) \/ Timeout(n) \/ trigger_election(n)
                           \/ crash_node(n) \/ reboot_node(n)

Spec == Init /\ [][Next]_vars

DeliverKind(n, kind) == \E p \in packets : p.to = n /\ p.msg.type = kind /\ Deliver(p)

Restart(n) == ~ Active(n) /\ reboot_node(n)

\* A network without loss (drop_rate 0) delivers what is sent to a live node, the
\* timers of leaders keep firing and a crashed node is rebooted.
FairSpec ==
    /\ Spec
    /\ \A n \in Node :
         /\ \A kind \in {"Propose", "Ack", "Commit", "Heartbeat", "RequestVote", "VoteGranted",
                          "CatchupRequest", "CatchupResponse"} : WF_vars(DeliverKind(n, kind))
         /\ WF_vars(Heartbeat(n))
         /\ WF_vars(Restart(n))

-----------------------------------------------------------------------------
(* Properties *)

\* The calls made on the nodes' ledgers.
Ledgers == {v.ledger : v \in Range(nodes)}

\* Oracle::assert_log_agreement and more: no two nodes, up or down, have committed
\* different operations or timestamps at an index, and their journals agree
\* wherever both reach, though a term may have two leaders (crash_node keeps the
\* term and forgets the vote).
LogAgreement ==
    /\ \A v, w \in Range(nodes) : \A k \in DOMAIN v.committed_ops \cap DOMAIN w.committed_ops :
         v.committed_ops[k] = w.committed_ops[k]
    /\ \A x, y \in Ledgers : x # y => LET jx == LedgerAfter(x).journal
                                          jy == LedgerAfter(y).journal
                                      IN  IsPrefix(jx, jy) \/ IsPrefix(jy, jx)

\* "Sequential Commit Invariant" and durability: what a node has committed is
\* 1 .. commit_index, and a crash at any moment, however the last write was torn,
\* costs nothing of it: recover rebuilds the same log and the same ledger.
RecoveryExact ==
    \A v \in Range(nodes) :
        /\ DOMAIN v.committed_ops = 1 .. v.commit_index
        /\ \A torn_write \in BOOLEAN : \A disk \in disk_crash(v.disk, torn_write) :
             LET w == recover([v EXCEPT !.disk = disk])
             IN  <<w.committed_ops, w.commit_index, w.ledger>>
                     = <<v.committed_ops, v.commit_index, v.ledger>>

Posted(L, id) == L.accounts[id].balance.credits_posted - L.accounts[id].balance.debits_posted

\* Oracle::assert_conservation: on every node the ledger passes its audit, no
\* tracked account is negative and together they hold the money they started with.
Conservation ==
    \A frames \in Ledgers :
        LET L == LedgerAfter(frames)
        IN  /\ verify_invariants(L)
            /\ \A k \in DOMAIN Customers : Customers[k] \in DOMAIN L.accounts
            /\ \A k \in DOMAIN Customers : Posted(L, Customers[k]) >= 0
            /\ FoldLeft(LAMBDA sum, id : sum + Posted(L, id), 0, Customers)
                 = InitialBalance * Len(Customers)

\* Until some node has forgotten its vote in a reboot, a term has one leader.
OneLeaderPerTerm ==
    restarts = 0 =>
        \A n, m \in Node : nodes[n].role = "Leader" /\ nodes[m].role = "Leader"
                            /\ nodes[n].term = nodes[m].term => n = m

\* "Cluster must continue after election": an operation for which a live leader has
\* the acknowledgements of a quorum does not wait there for ever.
QuorumCommits ==
    \A k \in 1 .. MaxIndex :
        []<>(\A n \in Leaders : k \notin DOMAIN nodes[n].pending_commits)
=============================================================================
