---------------------------- MODULE ClusterProofs ---------------------------
(***************************************************************************)
(* The election of the simulated cluster, for any number of nodes and any  *)
(* bounds: as long as no node has been restarted, a term has one leader.   *)
(*                                                                         *)
(* A vote is cast when VoteGranted is on its way or counted.  The          *)
(* invariant says that the voter still remembers it, or has left the term, *)
(* so that two quorums of one term, which share a node, elected the same   *)
(* candidate.  Nothing is claimed once a node restarted: crash_node and    *)
(* reboot_node forget the vote and keep the term.                          *)
(***************************************************************************)
EXTENDS Cluster, FiniteSetTheorems, TLAPS

-----------------------------------------------------------------------------
(* The invariant *)

\* A node has the fields of SimNode.
Fields == {"status", "role", "term", "voted_for", "votes_received", "committed_ops",
           "pending_commits", "uncommitted", "commit_index", "ledger", "disk"}

Shaped(v) == v = [f \in Fields |-> v[f]]

Election == {"RequestVote", "VoteGranted"}

Replication == {"Propose", "Ack", "Commit", "Heartbeat"}

Catchup == {"CatchupRequest", "CatchupResponse"}

\* A packet between nodes; a vote is for a term somebody campaigned in.
PacketOK(p) ==
    /\ p.from \in Node /\ p.to \in Node
    /\ p.msg.type \in Election \cup Replication \cup Catchup
    /\ p.msg.type \notin Catchup => p.msg.term \in Nat
    /\ p.msg.type \in Election => p.msg.term >= 2
    /\ p.msg.type = "RequestVote" => p.msg.candidate_id \in Node
    /\ p.msg.type = "VoteGranted" => p.msg.from \in Node

\* A leader is the first node in the first term or was elected by a quorum.
NodeOK(n) ==
    /\ Shaped(nodes[n])
    /\ nodes[n].status = "Active"
    /\ nodes[n].term \in Nat \ {0}
    /\ nodes[n].role \in {"Follower", "Candidate", "Leader"}
    /\ nodes[n].votes_received \subseteq Node
    /\ nodes[n].role = "Candidate" => nodes[n].term >= 2
    /\ nodes[n].role = "Leader" =>
         \/ nodes[n].term = 1 /\ n = First
         \/ nodes[n].term >= 2 /\ Cardinality(nodes[n].votes_received) >= quorum_size

\* x has voted for n in term t: the vote is on its way, or n has counted it.
Cast(x, n, t) ==
    \/ \E p \in packets : /\ p.msg.type = "VoteGranted" /\ p.msg.from = x
                          /\ p.to = n /\ p.msg.term = t
    \/ /\ nodes[n].role \in {"Candidate", "Leader"} /\ nodes[n].term = t
       /\ x \in nodes[n].votes_received

\* x cannot vote for another than n in term t any more.
Recorded(x, n, t) ==
    \/ nodes[x].term > t
    \/ nodes[x].term = t /\ nodes[x].voted_for = n

TypesOK ==
    /\ nodes = [n \in Node |-> nodes[n]]
    /\ \A n \in Node : NodeOK(n)
    /\ \A p \in packets : PacketOK(p)

VotesOK ==
    /\ \A x, n \in Node : \A t \in Nat : Cast(x, n, t) => Recorded(x, n, t)
    /\ \A x, n, m \in Node : \A t \in Nat : Cast(x, n, t) /\ Cast(x, m, t) => n = m

ElectionInv ==
    /\ restarts \in Nat
    /\ restarts = 0 => TypesOK /\ VotesOK

-----------------------------------------------------------------------------
(* Replication leaves the election alone *)

\* w is v but for its log, its ledger and its disk.
SameElection(v, w) ==
    /\ Shaped(w)
    /\ w.status = v.status /\ w.role = v.role /\ w.term = v.term
    /\ w.voted_for = v.voted_for /\ w.votes_received = v.votes_received

\* Draining the pending commits touches no field of the election.
LEMMA DrainKeeps ==
    ASSUME NEW v, Shaped(v)
    PROVE  SameElection(v, drain(v))
<1> DEFINE w == FoldLeft(LAMBDA u, k : drain_one(u), v,
                         [k \in 1 .. Cardinality(DOMAIN v.pending_commits) |-> k])
<1>1. drain(v) = [v EXCEPT !.pending_commits = w.pending_commits, !.uncommitted = w.uncommitted,
                           !.ledger = w.ledger, !.committed_ops = w.committed_ops,
                           !.commit_index = w.commit_index, !.disk = w.disk]
  BY DEF drain
<1> HIDE DEF w
<1> QED  BY <1>1 DEF Shaped, Fields, SameElection

\* Nor does filing entries among the pending commits.
LEMMA BufferKeeps ==
    ASSUME NEW v, Shaped(v), NEW entries
    PROVE  SameElection(v, Buffer(v, entries))
<1> DEFINE pending == [k \in DOMAIN v.pending_commits
                               \cup (DOMAIN entries \ DOMAIN v.committed_ops) |->
                          IF k \in DOMAIN entries \ DOMAIN v.committed_ops
                          THEN entries[k] ELSE v.pending_commits[k]]
<1>1. Buffer(v, entries) = [v EXCEPT !.pending_commits = pending]
  BY DEF Buffer, Shaped, Fields
<1> HIDE DEF pending
<1> QED  BY <1>1 DEF Shaped, Fields, SameElection

\* Nor does counting an acknowledgement.
LEMMA CountedKeeps ==
    ASSUME NEW v, Shaped(v), NEW m
    PROVE  SameElection(v, Counted(v, m))
<1>1. CASE Counted(v, m) = v
  BY <1>1 DEF SameElection
<1>2. CASE Counted(v, m) = [v EXCEPT !.uncommitted[m.index].acks = @ \cup {m.from}]
  <2> DEFINE u == [v.uncommitted EXCEPT ![m.index].acks = @ \cup {m.from}]
  <2>1. Counted(v, m) = [v EXCEPT !.uncommitted = u]
    BY <1>2 DEF Shaped, Fields
  <2> HIDE DEF u
  <2> QED  BY <2>1 DEF Shaped, Fields, SameElection
<1> QED  BY <1>1, <1>2 DEF Counted

\* w is v after a message that is not about an election: the same, or a follower,
\* possibly of a later term.
Quiet(v, w) ==
    /\ Shaped(w)
    /\ w.status = v.status /\ w.votes_received = v.votes_received
    /\ \/ w.term = v.term /\ w.voted_for = v.voted_for /\ w.role \in {v.role, "Follower"}
       \/ w.term \in Nat \ {0} /\ w.term > v.term /\ w.role = "Follower"

LEMMA SameIsQuiet ==
    ASSUME NEW u, NEW v, NEW w, Quiet(u, v), SameElection(v, w)
    PROVE  Quiet(u, w)
BY DEF Quiet, SameElection

LEMMA AdoptIsQuiet ==
    ASSUME NEW v, Shaped(v), v.term \in Nat, NEW term \in Nat
    PROVE  Quiet(v, adopt(v, term))
<1>1. CASE term > v.term
  <2>1. term \in Nat \ {0}
    BY <1>1
  <2>2. adopt(v, term) = [v EXCEPT !.term = term, !.role = "Follower", !.voted_for = None]
    BY <1>1 DEF adopt
  <2> QED  BY <1>1, <2>1, <2>2 DEF Quiet, Shaped, Fields
<1>2. CASE ~ (term > v.term)
  BY <1>2 DEF Quiet, adopt
<1> QED  BY <1>1, <1>2

\* Packets that carry no vote and ask for none.
NoVotes(out) == \A q \in out : PacketOK(q) /\ q.msg.type \notin Election

LEMMA BroadcastPackets ==
    ASSUME NEW n \in Node, NEW msg, NEW q \in Broadcast(n, msg)
    PROVE  q.from = n /\ q.to \in Node /\ q.msg = msg
BY DEF Broadcast, Peers

\* A heartbeat that is broadcast carries no vote.
LEMMA HeartbeatIsQuiet ==
    ASSUME NEW n \in Node, NEW term \in Nat, NEW index
    PROVE  NoVotes(Broadcast(n, [type |-> "Heartbeat", term |-> term, commit_index |-> index]))
<1> DEFINE msg == [type |-> "Heartbeat", term |-> term, commit_index |-> index]
<1> SUFFICES ASSUME NEW q \in Broadcast(n, msg)
             PROVE  PacketOK(q) /\ q.msg.type \notin Election
  BY DEF NoVotes
<1>1. q.from = n /\ q.to \in Node /\ q.msg = msg
  BY BroadcastPackets
<1> QED  BY <1>1 DEF PacketOK, Election, Replication, Catchup

\* Nor does a commit.
LEMMA CommitsAreQuiet ==
    ASSUME NEW n \in Node, NEW v, NEW term \in Nat, NEW done
    PROVE  NoVotes(Commits(n, v, term, done))
<1> DEFINE msg(k) == [type |-> "Commit", term |-> term, index |-> k,
                      op |-> v.committed_ops[k].op, timestamp |-> v.committed_ops[k].timestamp]
<1> SUFFICES ASSUME NEW q \in Commits(n, v, term, done)
             PROVE  PacketOK(q) /\ q.msg.type \notin Election
  BY DEF NoVotes
<1>1. PICK k \in done + 1 .. v.commit_index : q \in Broadcast(n, msg(k))
  BY DEF Commits
<1>2. q.from = n /\ q.to \in Node /\ q.msg = msg(k)
  BY <1>1, BroadcastPackets
<1> QED  BY <1>2 DEF PacketOK, Election, Replication, Catchup

\* A message that is not about an election makes its receiver at most a follower,
\* and no vote is sent in answer (process_packet, all arms but the two of elections).
LEMMA QuietMessage ==
    ASSUME NEW v, Shaped(v), v.term \in Nat,
           NEW p, PacketOK(p), p.msg.type \notin Election, NEW time
    PROVE  /\ Quiet(v, process_packet(v, p, time).node)
           /\ NoVotes(process_packet(v, p, time).out)
<1> DEFINE m == p.msg
           n == p.to
<1> USE DEF Reaction
<1>0. n \in Node /\ p.from \in Node /\ Quiet(v, v)
  BY DEF PacketOK, Quiet
<1>1. CASE m.type = "Propose"
  <2>1. process_packet(v, p, time) = on_propose(v, n, p.from, m)
    BY <1>1 DEF process_packet
  <2>2. m.term \in Nat
    BY <1>1 DEF PacketOK, Catchup
  <2>3. CASE m.term < v.term
    BY <1>0, <2>1, <2>3 DEF on_propose, NoVotes
  <2>4. CASE ~ (m.term < v.term)
    <3> DEFINE q == [from |-> n, to |-> p.from, msg |-> [type |-> "Ack", from |-> n,
                                                       term |-> m.term, index |-> m.index]]
    <3>1. process_packet(v, p, time) = [node |-> adopt(v, m.term), out |-> {q}]
      BY <2>1, <2>4 DEF on_propose
    <3>2. PacketOK(q) /\ q.msg.type \notin Election
      BY <1>0, <2>2 DEF PacketOK, Election, Replication, Catchup
    <3> QED  BY <3>1, <3>2, <2>2, AdoptIsQuiet DEF NoVotes
  <2> QED  BY <2>3, <2>4
<1>2. CASE m.type = "Ack"
  <2>1. process_packet(v, p, time) = on_ack(v, n, p.from, m, time)
    BY <1>2 DEF process_packet
  <2>2. m.term \in Nat
    BY <1>2 DEF PacketOK, Catchup
  <2>3. SameElection(v, Counted(v, m)) /\ Shaped(Counted(v, m))
    BY CountedKeeps DEF SameElection
  <2>4. CASE ~ HasQuorum(Counted(v, m), m)
    BY <1>0, <2>1, <2>3, <2>4, SameIsQuiet DEF on_ack, NoVotes
  <2>5. CASE HasQuorum(Counted(v, m), m)
    <3> DEFINE filed == MapInsert(Counted(v, m).pending_commits, m.index,
                                  [op |-> v.uncommitted[m.index].op, timestamp |-> Epoch + time])
               u == [Counted(v, m) EXCEPT !.pending_commits = filed]
    <3>1. process_packet(v, p, time)
            = [node |-> drain(u), out |-> Commits(n, drain(u), m.term, v.commit_index)]
      BY <2>1, <2>5 DEF on_ack
    <3>2. SameElection(Counted(v, m), u) /\ Shaped(u)
      <4> HIDE DEF filed
      <4> QED  BY <2>3 DEF Shaped, Fields, SameElection
    <3> HIDE DEF u
    <3>3. Quiet(v, drain(u))
      BY <1>0, <2>3, <3>2, DrainKeeps, SameIsQuiet
    <3>4. NoVotes(Commits(n, drain(u), m.term, v.commit_index))
      BY <1>0, <2>2, CommitsAreQuiet
    <3> QED  BY <3>1, <3>3, <3>4
  <2> QED  BY <2>4, <2>5
<1>3. CASE m.type = "Commit"
  <2>1. process_packet(v, p, time) = on_commit(v, n, p.from, m)
    BY <1>3 DEF process_packet
  <2>2. m.term \in Nat
    BY <1>3 DEF PacketOK, Catchup
  <2>3. CASE m.term < v.term
    BY <1>0, <2>1, <2>3 DEF on_commit, NoVotes
  <2>4. CASE ~ (m.term < v.term)
    <3> DEFINE entry == [k \in {m.index} |-> [op |-> m.op, timestamp |-> m.timestamp]]
               u == Buffer(adopt(v, m.term), entry)
    <3>1. process_packet(v, p, time) = [node |-> drain(u), out |-> {}]
      BY <2>1, <2>4 DEF on_commit
    <3>2. Quiet(v, adopt(v, m.term)) /\ Shaped(adopt(v, m.term))
      BY <2>2, AdoptIsQuiet DEF Quiet
    <3>3. Quiet(v, u) /\ Shaped(u)
      BY <3>2, BufferKeeps, SameIsQuiet DEF SameElection
    <3> HIDE DEF u
    <3> QED  BY <3>1, <3>3, DrainKeeps, SameIsQuiet DEF NoVotes
  <2> QED  BY <2>3, <2>4
<1>4. CASE m.type = "Heartbeat"
  <2>1. process_packet(v, p, time) = on_heartbeat(v, n, p.from, m)
    BY <1>4 DEF process_packet
  <2>2. m.term \in Nat
    BY <1>4 DEF PacketOK, Catchup
  <2>3. CASE m.term < v.term
    BY <1>0, <2>1, <2>3 DEF on_heartbeat, NoVotes
  <2>4. CASE ~ (m.term < v.term)
    <3> DEFINE q == [from |-> n, to |-> p.from,
                     msg |-> [type |-> "CatchupRequest", last_index |-> v.commit_index]]
               u == [adopt(v, m.term) EXCEPT !.role = "Follower"]
    <3>1. /\ process_packet(v, p, time).node = u
          /\ process_packet(v, p, time).out \in {{}, {q}}
      BY <2>1, <2>4 DEF on_heartbeat
    <3>2. PacketOK(q) /\ q.msg.type \notin Election
      BY <1>0 DEF PacketOK, Election, Replication, Catchup
    <3>3. Quiet(v, adopt(v, m.term))
      BY <2>2, AdoptIsQuiet
    <3>4. Quiet(v, u)
      BY <3>3 DEF Quiet, Shaped, Fields
    <3> QED  BY <3>1, <3>2, <3>4 DEF NoVotes
  <2> QED  BY <2>3, <2>4
<1>5. CASE m.type = "CatchupRequest"
  <2> DEFINE entries == [k \in {k \in DOMAIN v.committed_ops : k > m.last_index} |->
                            v.committed_ops[k]]
             q == [from |-> n, to |-> p.from,
                   msg |-> [type |-> "CatchupResponse", entries |-> entries]]
  <2>1. process_packet(v, p, time) = on_catchup_request(v, n, p.from, m)
    BY <1>5 DEF process_packet
  <2>2. /\ process_packet(v, p, time).node = v
        /\ process_packet(v, p, time).out \in {{}, {q}}
    BY <2>1 DEF on_catchup_request
  <2> HIDE DEF entries
  <2>3. PacketOK(q) /\ q.msg.type \notin Election
    BY <1>0 DEF PacketOK, Election, Replication, Catchup
  <2> QED  BY <1>0, <2>2, <2>3 DEF NoVotes
<1>6. CASE m.type = "CatchupResponse"
  <2>1. process_packet(v, p, time) = on_catchup_response(v, n, p.from, m)
    BY <1>6 DEF process_packet
  <2>2. process_packet(v, p, time) = [node |-> drain(Buffer(v, m.entries)), out |-> {}]
    BY <2>1 DEF on_catchup_response
  <2>3. Quiet(v, Buffer(v, m.entries)) /\ Shaped(Buffer(v, m.entries))
    BY <1>0, BufferKeeps, SameIsQuiet DEF SameElection
  <2> QED  BY <2>2, <2>3, DrainKeeps, SameIsQuiet DEF NoVotes
<1> QED  BY <1>1, <1>2, <1>3, <1>4, <1>5, <1>6 DEF PacketOK, Election, Replication, Catchup

-----------------------------------------------------------------------------
(* The steps *)

\* Votes stay recorded in a step in which no node goes back to an earlier term or
\* changes its vote, and only votes recorded and given to no other are cast.
LEMMA VotesStep ==
    ASSUME TypesOK, VotesOK,
           \A x \in Node :
               /\ nodes'[x].term \in Nat
               /\ \/ nodes'[x].term > nodes[x].term
                  \/ /\ nodes'[x].term = nodes[x].term
                     /\ nodes[x].voted_for \in {None, nodes'[x].voted_for},
           \A x, n \in Node : \A t \in Nat : Cast(x, n, t)' =>
               \/ Cast(x, n, t)
               \/ /\ nodes'[x].term = t /\ nodes'[x].voted_for = n
                  /\ \A m \in Node : Cast(x, m, t) => m = n
    PROVE  VotesOK'
<1>1. ASSUME NEW x \in Node, NEW n \in Node, NEW t \in Nat, Recorded(x, n, t)
      PROVE  Recorded(x, n, t)'
  <2>1. nodes[x].term \in Nat /\ n # None
    BY ClusterAssumption DEF TypesOK, NodeOK
  <2> QED  BY <1>1, <2>1 DEF Recorded
<1>2. ASSUME NEW x \in Node, NEW n \in Node, NEW t \in Nat, Cast(x, n, t)'
      PROVE  Recorded(x, n, t)'
  <2>1. CASE Cast(x, n, t)
    BY <1>1, <2>1 DEF VotesOK
  <2>2. CASE nodes'[x].term = t /\ nodes'[x].voted_for = n
    BY <2>2 DEF Recorded
  <2> QED  BY <1>2, <2>1, <2>2
<1>3. ASSUME NEW x \in Node, NEW n \in Node, NEW m \in Node, NEW t \in Nat,
             Cast(x, n, t)', Cast(x, m, t)'
      PROVE  n = m
  BY <1>3 DEF VotesOK
<1> QED  BY <1>2, <1>3 DEF VotesOK

\* A step that is quiet at one node, and sends no vote, preserves the invariant.
LEMMA QuietStep ==
    ASSUME TypesOK, VotesOK,
           NEW y \in Node, NEW w, Quiet(nodes[y], w), nodes' = [nodes EXCEPT ![y] = w],
           NEW out, NoVotes(out), packets' \subseteq packets \cup out
    PROVE  TypesOK' /\ VotesOK'
<1>1. nodes' = [n \in Node |-> nodes'[n]] /\ nodes'[y] = w
  BY DEF TypesOK
<1>2. \A n \in Node : n # y => nodes'[n] = nodes[n]
  BY DEF TypesOK
<1>3. ASSUME NEW n \in Node
      PROVE  NodeOK(n)'
  <2>1. NodeOK(n)
    BY DEF TypesOK
  <2>2. CASE n = y
    BY <1>1, <2>1, <2>2 DEF NodeOK, Quiet, quorum_size
  <2>3. CASE n # y
    BY <1>2, <2>1, <2>3 DEF NodeOK, Shaped, Fields, quorum_size
  <2> QED  BY <2>2, <2>3
<1>4. \A p \in packets' : PacketOK(p)
  BY DEF TypesOK, NoVotes
<1>5. TypesOK'
  BY <1>1, <1>3, <1>4 DEF TypesOK, PacketOK
<1>6. ASSUME NEW x \in Node
      PROVE  /\ nodes'[x].term \in Nat
             /\ \/ nodes'[x].term > nodes[x].term
                \/ /\ nodes'[x].term = nodes[x].term
                   /\ nodes[x].voted_for = nodes'[x].voted_for
  BY <1>1, <1>2, <1>3 DEF NodeOK, Quiet
<1>7. ASSUME NEW x \in Node, NEW n \in Node, NEW t \in Nat, Cast(x, n, t)'
      PROVE  Cast(x, n, t)
  <2>1. CASE \E p \in packets' : /\ p.msg.type = "VoteGranted" /\ p.msg.from = x
                                 /\ p.to = n /\ p.msg.term = t
    BY <2>1 DEF Cast, NoVotes, Election
  <2>2. CASE /\ nodes'[n].role \in {"Candidate", "Leader"} /\ nodes'[n].term = t
             /\ x \in nodes'[n].votes_received
    <3>1. CASE n = y
      BY <1>1, <2>2, <3>1 DEF Cast, Quiet
    <3>2. CASE n # y
      BY <1>2, <2>2, <3>2 DEF Cast
    <3> QED  BY <3>1, <3>2
  <2> QED  BY <1>7, <2>1, <2>2 DEF Cast
<1>8. VotesOK'
  BY <1>6, <1>7, VotesStep
<1> QED  BY <1>5, <1>8

\* What a node sends is all that joins the queue.
LEMMA SendAdds ==
    ASSUME NEW ns, NEW out
    PROVE  send(ns, out) \subseteq packets \cup out
BY DEF send

\* A node asked for its vote gives it to one candidate of a term (MayVote).
LEMMA RequestVoteStep ==
    ASSUME TypesOK, VotesOK, NEW p \in packets, p.msg.type = "RequestVote", Deliver(p)
    PROVE  TypesOK' /\ VotesOK'
<1> DEFINE y == p.to
           v == nodes[y]
           m == p.msg
           c == m.candidate_id
           u == adopt(v, m.term)
           w == [u EXCEPT !.voted_for = c]
           q == [from |-> y, to |-> c, msg |-> [type |-> "VoteGranted", from |-> y,
                                                term |-> m.term]]
<1>1. y \in Node /\ c \in Node /\ m.term \in Nat /\ m.term >= 2
  BY DEF TypesOK, PacketOK, Election, Catchup
<1>2. NodeOK(y) /\ v.term \in Nat /\ Shaped(v)
  BY <1>1 DEF TypesOK, NodeOK
<1>3. Quiet(v, u)
  BY <1>1, <1>2, AdoptIsQuiet
<1>4. PICK time : LET r == process_packet(v, p, time)
                  IN  nodes' = [nodes EXCEPT ![y] = r.node] /\ packets' = send(nodes', r.out)
  BY DEF Deliver
<1>5. process_packet(v, p, time) = on_request_vote(v, y, p.from, m)
  BY DEF process_packet
<1>6. CASE ~ MayVote(u, m)
  <2>1. process_packet(v, p, time) = [node |-> u, out |-> {}]
    BY <1>5, <1>6 DEF on_request_vote, Reaction
  <2>2. nodes' = [nodes EXCEPT ![y] = u] /\ packets' \subseteq packets \cup {}
    BY <1>4, <2>1, SendAdds
  <2>3. NoVotes({})
    BY DEF NoVotes
  <2> QED  BY <1>1, <1>3, <2>2, <2>3, QuietStep
<1>7. CASE MayVote(u, m)
  <2>1. process_packet(v, p, time) = [node |-> w, out |-> {q}]
    BY <1>5, <1>7 DEF on_request_vote, Reaction
  <2>2. nodes' = [nodes EXCEPT ![y] = w] /\ packets' \subseteq packets \cup {q}
    BY <1>4, <2>1, SendAdds
  <2>3. /\ Shaped(w) /\ w.status = v.status /\ w.votes_received = v.votes_received
        /\ w.term = m.term /\ w.voted_for = c /\ w.role \in {v.role, "Follower"}
        /\ \/ w.term > v.term /\ w.role = "Follower"
           \/ w.term = v.term /\ v.voted_for \in {None, c}
    BY <1>1, <1>2, <1>3, <1>7 DEF Quiet, Shaped, Fields, MayVote, adopt
  <2> HIDE DEF w, u
  <2>4. nodes' = [n \in Node |-> nodes'[n]] /\ nodes'[y] = w
    BY <1>1, <2>2 DEF TypesOK
  <2>5. \A n \in Node : n # y => nodes'[n] = nodes[n]
    BY <2>2 DEF TypesOK
  <2>6. ASSUME NEW n \in Node
        PROVE  NodeOK(n)'
    <3>1. NodeOK(n)
      BY DEF TypesOK
    <3>2. CASE n = y
      BY <1>1, <2>3, <2>4, <3>1, <3>2 DEF NodeOK, quorum_size
    <3>3. CASE n # y
      BY <2>5, <3>1, <3>3 DEF NodeOK, Shaped, Fields, quorum_size
    <3> QED  BY <3>2, <3>3
  <2>7. PacketOK(q)
    BY <1>1 DEF PacketOK, Election, Replication, Catchup
  <2>8. TypesOK'
    BY <2>2, <2>4, <2>6, <2>7 DEF TypesOK, PacketOK
  <2>9. ASSUME NEW x \in Node
        PROVE  /\ nodes'[x].term \in Nat
               /\ \/ nodes'[x].term > nodes[x].term
                  \/ /\ nodes'[x].term = nodes[x].term
                     /\ nodes[x].voted_for \in {None, nodes'[x].voted_for}
    BY <1>1, <2>3, <2>4, <2>5, <2>6 DEF NodeOK
  <2>10. ASSUME NEW x \in Node, NEW n \in Node, NEW t \in Nat, Cast(x, n, t)'
         PROVE  \/ Cast(x, n, t)
                \/ /\ nodes'[x].term = t /\ nodes'[x].voted_for = n
                   /\ \A k \in Node : Cast(x, k, t) => k = n
    <3>1. CASE \E k \in packets : /\ k.msg.type = "VoteGranted" /\ k.msg.from = x
                                  /\ k.to = n /\ k.msg.term = t
      BY <3>1 DEF Cast
    <3>2. CASE x = y /\ n = c /\ t = m.term
      <4>1. ASSUME NEW k \in Node, Cast(x, k, t)
            PROVE  k = n
        <5>1. Recorded(x, k, t)
          BY <4>1 DEF VotesOK
        <5> QED  BY <1>1, <1>2, <2>3, <3>2, <5>1, ClusterAssumption DEF Recorded
      <4> QED  BY <2>3, <2>4, <3>2, <4>1
    <3>3. CASE /\ nodes'[n].role \in {"Candidate", "Leader"} /\ nodes'[n].term = t
               /\ x \in nodes'[n].votes_received
      <4>1. CASE n = y
        BY <2>3, <2>4, <3>3, <4>1 DEF Cast
      <4>2. CASE n # y
        BY <2>5, <3>3, <4>2 DEF Cast
      <4> QED  BY <4>1, <4>2
    <3> QED  BY <2>2, <2>10, <3>1, <3>2, <3>3 DEF Cast
  <2>11. VotesOK'
    BY <2>9, <2>10, VotesStep
  <2> QED  BY <2>8, <2>11
<1> QED  BY <1>6, <1>7

\* Sets of nodes are finite, and two quorums share a node.
LEMMA Quorums ==
    /\ quorum_size \in Nat
    /\ \A Q \in SUBSET Node : IsFiniteSet(Q) /\ Cardinality(Q) \in Nat
    /\ \A Q, R \in SUBSET Node :
         Cardinality(Q) >= quorum_size /\ Cardinality(R) >= quorum_size => Q \cap R # {}
<1>1. IsFiniteSet(Node) /\ Cardinality(Node) \in Nat
  BY ClusterAssumption, FS_CardinalityType
<1>2. quorum_size \in Nat /\ quorum_size + quorum_size > Cardinality(Node)
  BY <1>1 DEF quorum_size
<1>3. ASSUME NEW Q \in SUBSET Node
      PROVE  IsFiniteSet(Q) /\ Cardinality(Q) \in Nat
  BY <1>1, FS_Subset, FS_CardinalityType
<1>4. ASSUME NEW Q \in SUBSET Node, NEW R \in SUBSET Node,
             Cardinality(Q) >= quorum_size, Cardinality(R) >= quorum_size
      PROVE  Q \cap R # {}
  <2>1. Cardinality(Q) + Cardinality(R) > Cardinality(Node)
    BY <1>1, <1>2, <1>3, <1>4
  <2> QED  BY <1>1, <2>1, FS_MajoritiesIntersect
<1> QED  BY <1>2, <1>3, <1>4

\* A candidate counts a vote once it was cast for it, and leads with a quorum.
LEMMA VoteGrantedStep ==
    ASSUME TypesOK, VotesOK, NEW p \in packets, p.msg.type = "VoteGranted", Deliver(p)
    PROVE  TypesOK' /\ VotesOK'
<1> DEFINE y == p.to
           v == nodes[y]
           m == p.msg
           votes == v.votes_received \cup {m.from}
<1>1. y \in Node /\ m.from \in Node /\ m.term \in Nat /\ m.term >= 2
  BY DEF TypesOK, PacketOK, Election, Catchup
<1>2. NodeOK(y) /\ v.term \in Nat /\ Shaped(v)
  BY <1>1 DEF TypesOK, NodeOK
<1>3. PICK time : LET r == process_packet(v, p, time)
                  IN  nodes' = [nodes EXCEPT ![y] = r.node] /\ packets' = send(nodes', r.out)
  BY DEF Deliver
<1>4. process_packet(v, p, time) = on_vote_granted(v, y, p.from, m)
  BY DEF process_packet
<1>5. CASE v.term # m.term \/ v.role # "Candidate"
  <2>1. process_packet(v, p, time) = [node |-> v, out |-> {}]
    BY <1>4, <1>5 DEF on_vote_granted, Reaction
  <2>2. nodes' = [nodes EXCEPT ![y] = v] /\ packets' \subseteq packets \cup {}
    BY <1>3, <2>1, SendAdds
  <2>3. NoVotes({}) /\ Quiet(v, v)
    BY <1>2 DEF NoVotes, Quiet
  <2> QED  BY <1>1, <2>2, <2>3, QuietStep
<1>6. CASE v.term = m.term /\ v.role = "Candidate"
  <2> DEFINE beat == Broadcast(y, [type |-> "Heartbeat", term |-> m.term,
                                   commit_index |-> v.commit_index])
             still == [v EXCEPT !.votes_received = votes]
             elected == [v EXCEPT !.votes_received = votes, !.role = "Leader"]
  <2>1. \/ process_packet(v, p, time) = [node |-> still, out |-> {}]
        \/ /\ ~ (Cardinality(votes) < quorum_size)
           /\ process_packet(v, p, time) = [node |-> elected, out |-> beat]
    BY <1>4, <1>6 DEF on_vote_granted, Reaction
  <2>2. PICK w, out : /\ process_packet(v, p, time) = [node |-> w, out |-> out]
                      /\ \/ w = still /\ out = {}
                         \/ w = elected /\ out = beat /\ ~ (Cardinality(votes) < quorum_size)
    BY <2>1
  <2>3. NoVotes(out)
    BY <1>1, <2>2, HeartbeatIsQuiet DEF NoVotes
  <2>4. nodes' = [nodes EXCEPT ![y] = w] /\ packets' \subseteq packets \cup out
    BY <1>3, <2>2, SendAdds
  <2>5. votes \subseteq Node /\ Cardinality(votes) \in Nat /\ quorum_size \in Nat
    BY <1>1, <1>2, Quorums DEF NodeOK
  <2>6. /\ Shaped(w) /\ w.status = v.status /\ w.term = v.term /\ w.voted_for = v.voted_for
        /\ w.votes_received = votes
        /\ \/ w.role = "Candidate"
           \/ w.role = "Leader" /\ Cardinality(votes) >= quorum_size
    <3>1. CASE w = still
      BY <1>2, <1>6, <3>1 DEF Shaped, Fields
    <3>2. CASE w = elected /\ ~ (Cardinality(votes) < quorum_size)
      <4>1. Cardinality(votes) >= quorum_size
        BY <2>5, <3>2
      <4> QED  BY <1>2, <1>6, <3>2, <4>1 DEF Shaped, Fields
    <3> QED  BY <2>2, <3>1, <3>2
  <2> HIDE DEF beat, still, elected
  <2>7. nodes' = [n \in Node |-> nodes'[n]] /\ nodes'[y] = w
    BY <1>1, <2>4 DEF TypesOK
  <2>8. \A n \in Node : n # y => nodes'[n] = nodes[n]
    BY <2>4 DEF TypesOK
  <2>9. ASSUME NEW n \in Node
        PROVE  NodeOK(n)'
    <3>1. NodeOK(n)
      BY DEF TypesOK
    <3>2. CASE n = y
      <4> HIDE DEF votes
      <4> QED  BY <1>1, <1>6, <2>5, <2>6, <2>7, <3>1, <3>2 DEF NodeOK, quorum_size
    <3>3. CASE n # y
      BY <2>8, <3>1, <3>3 DEF NodeOK, Shaped, Fields, quorum_size
    <3> QED  BY <3>2, <3>3
  <2>10. TypesOK'
    BY <2>3, <2>4, <2>7, <2>9 DEF TypesOK, PacketOK, NoVotes
  <2>11. ASSUME NEW x \in Node
         PROVE  /\ nodes'[x].term \in Nat /\ nodes'[x].term = nodes[x].term
                /\ nodes'[x].voted_for = nodes[x].voted_for
    BY <1>2, <2>6, <2>7, <2>8, <2>9 DEF NodeOK
  <2>12. ASSUME NEW x \in Node, NEW n \in Node, NEW t \in Nat, Cast(x, n, t)'
         PROVE  Cast(x, n, t)
    <3>1. CASE \E k \in packets' : /\ k.msg.type = "VoteGranted" /\ k.msg.from = x
                                   /\ k.to = n /\ k.msg.term = t
      BY <2>3, <2>4, <3>1 DEF Cast, NoVotes, Election
    <3>2. CASE /\ nodes'[n].role \in {"Candidate", "Leader"} /\ nodes'[n].term = t
               /\ x \in nodes'[n].votes_received
      <4>1. CASE n = y
        BY <1>6, <2>6, <2>7, <3>2, <4>1 DEF Cast
      <4>2. CASE n # y
        BY <2>8, <3>2, <4>2 DEF Cast
      <4> QED  BY <4>1, <4>2
    <3> QED  BY <2>12, <3>1, <3>2 DEF Cast
  <2>13. VotesOK'
    BY <2>11, <2>12, VotesStep
  <2> QED  BY <2>10, <2>13
<1> QED  BY <1>5, <1>6

\* A node that campaigns votes for itself in a term it has not voted in.
LEMMA CampaignStep ==
    ASSUME TypesOK, VotesOK, NEW y \in Node, Campaign(y)
    PROVE  TypesOK' /\ VotesOK'
<1> DEFINE v == nodes[y]
           w == candidate(v, y)
           ask == [type |-> "RequestVote", candidate_id |-> y, term |-> v.term + 1,
                   last_index |-> v.commit_index]
<1>1. NodeOK(y) /\ v.term \in Nat /\ Shaped(v)
  BY DEF TypesOK, NodeOK
<1>2. nodes' = [nodes EXCEPT ![y] = w] /\ packets' \subseteq packets \cup Broadcast(y, ask)
  <2>1. nodes' = [nodes EXCEPT ![y] = w]
    BY DEF Campaign
  <2>2. packets' = send(nodes', Broadcast(y, ask))
    BY DEF Campaign
  <2> QED  BY <2>1, <2>2, SendAdds
<1>3. /\ Shaped(w) /\ w.status = v.status /\ w.term = v.term + 1 /\ w.voted_for = y
      /\ w.votes_received = {y} /\ w.role = "Candidate"
  <2>1. Shaped(w)
    BY <1>1, Zenon DEF candidate, Shaped
  <2>2. /\ w.status = v.status /\ w.term = v.term + 1 /\ w.voted_for = y
        /\ w.votes_received = {y} /\ w.role = "Candidate"
    BY <1>1 DEF candidate, Shaped, Fields
  <2> QED  BY <2>1, <2>2
<1> HIDE DEF w
<1>4. nodes' = [n \in Node |-> nodes'[n]] /\ nodes'[y] = w
  BY <1>2 DEF TypesOK
<1>5. \A n \in Node : n # y => nodes'[n] = nodes[n]
  BY <1>2 DEF TypesOK
<1>6. v.term >= 1
  BY <1>1 DEF NodeOK
<1>7. ASSUME NEW n \in Node
      PROVE  NodeOK(n)'
  <2>1. NodeOK(n)
    BY DEF TypesOK
  <2>2. CASE n = y
    BY <1>1, <1>3, <1>4, <1>6, <2>1, <2>2 DEF NodeOK, quorum_size
  <2>3. CASE n # y
    BY <1>5, <2>1, <2>3 DEF NodeOK, Shaped, Fields, quorum_size
  <2> QED  BY <2>2, <2>3
<1>8. ASSUME NEW q \in Broadcast(y, ask)
      PROVE  PacketOK(q) /\ q.msg.type = "RequestVote"
  <2>1. q.from = y /\ q.to \in Node /\ q.msg = ask
    BY BroadcastPackets
  <2> QED  BY <1>1, <1>6, <2>1 DEF PacketOK, Election, Replication, Catchup
<1>9. TypesOK'
  BY <1>2, <1>4, <1>7, <1>8 DEF TypesOK, PacketOK
<1>10. ASSUME NEW x \in Node
       PROVE  /\ nodes'[x].term \in Nat
              /\ \/ nodes'[x].term > nodes[x].term
                 \/ /\ nodes'[x].term = nodes[x].term
                    /\ nodes[x].voted_for = nodes'[x].voted_for
  BY <1>1, <1>3, <1>4, <1>5, <1>7 DEF NodeOK
<1>11. ASSUME NEW x \in Node, NEW n \in Node, NEW t \in Nat, Cast(x, n, t)'
       PROVE  \/ Cast(x, n, t)
              \/ /\ nodes'[x].term = t /\ nodes'[x].voted_for = n
                 /\ \A k \in Node : Cast(x, k, t) => k = n
  <2>1. CASE \E k \in packets' : /\ k.msg.type = "VoteGranted" /\ k.msg.from = x
                                 /\ k.to = n /\ k.msg.term = t
    BY <1>2, <1>8, <2>1 DEF Cast
  <2>2. CASE /\ nodes'[n].role \in {"Candidate", "Leader"} /\ nodes'[n].term = t
             /\ x \in nodes'[n].votes_received
    <3>1. CASE n = y
      <4>1. x = y /\ t = v.term + 1 /\ nodes'[x].term = t /\ nodes'[x].voted_for = n
        BY <1>3, <1>4, <2>2, <3>1
      <4>2. ASSUME NEW k \in Node, Cast(x, k, t)
            PROVE  FALSE
        <5>1. Recorded(x, k, t)
          BY <4>2 DEF VotesOK
        <5> QED  BY <1>1, <4>1, <5>1 DEF Recorded
      <4> QED  BY <4>1, <4>2
    <3>2. CASE n # y
      BY <1>5, <2>2, <3>2 DEF Cast
    <3> QED  BY <3>1, <3>2
  <2> QED  BY <1>11, <2>1, <2>2 DEF Cast
<1>12. VotesOK'
  BY <1>10, <1>11, VotesStep
<1> QED  BY <1>9, <1>12

\* A packet that arrives, whatever it is.
LEMMA DeliverStep ==
    ASSUME TypesOK, VotesOK, NEW p \in packets, Deliver(p)
    PROVE  TypesOK' /\ VotesOK'
<1>1. CASE p.msg.type = "RequestVote"
  BY <1>1, RequestVoteStep
<1>2. CASE p.msg.type = "VoteGranted"
  BY <1>2, VoteGrantedStep
<1>3. CASE p.msg.type \notin Election
  <2> DEFINE y == p.to
  <2>1. PacketOK(p) /\ y \in Node
    BY DEF TypesOK, PacketOK
  <2>2. Shaped(nodes[y]) /\ nodes[y].term \in Nat
    BY <2>1 DEF TypesOK, NodeOK
  <2>3. PICK time : LET r == process_packet(nodes[y], p, time)
                    IN  nodes' = [nodes EXCEPT ![y] = r.node] /\ packets' = send(nodes', r.out)
    BY DEF Deliver
  <2> DEFINE r == process_packet(nodes[y], p, time)
  <2>4. Quiet(nodes[y], r.node) /\ NoVotes(r.out)
    BY <1>3, <2>1, <2>2, QuietMessage
  <2>5. nodes' = [nodes EXCEPT ![y] = r.node] /\ packets' \subseteq packets \cup r.out
    BY <2>3, SendAdds
  <2> HIDE DEF r
  <2> QED  BY <2>1, <2>4, <2>5, QuietStep
<1> QED  BY <1>1, <1>2, <1>3 DEF Election

\* A proposal is filed by its leader and sent to the others.
LEMMA ProposeStep ==
    ASSUME TypesOK, VotesOK, Propose
    PROVE  TypesOK' /\ VotesOK'
<1>1. PICK g \in next_op(next_log_index + 1, active_holds), l \in Leaders :
        /\ nodes' = [nodes EXCEPT ![l].uncommitted =
                         MapInsert(@, log_index(l), [op |-> g.op, acks |-> {l}])]
        /\ packets' = send(nodes', Broadcast(l, [type |-> "Propose", term |-> nodes[l].term,
                                                   index |-> log_index(l), op |-> g.op]))
  BY DEF Propose
<1> DEFINE filed == MapInsert(nodes[l].uncommitted, log_index(l), [op |-> g.op, acks |-> {l}])
           w == [nodes[l] EXCEPT !.uncommitted = filed]
           msg == [type |-> "Propose", term |-> nodes[l].term, index |-> log_index(l),
                   op |-> g.op]
<1>2. l \in Node
  BY DEF Leaders
<1>3. Shaped(nodes[l]) /\ nodes[l].term \in Nat
  BY <1>2 DEF TypesOK, NodeOK
<1>4. nodes' = [nodes EXCEPT ![l] = w]
  BY <1>1
<1>5. packets' \subseteq packets \cup Broadcast(l, msg)
  BY <1>1, SendAdds
<1>6. Quiet(nodes[l], w)
  <2> HIDE DEF filed
  <2> QED  BY <1>3 DEF Quiet, Shaped, Fields
<1>7. NoVotes(Broadcast(l, msg))
  <2> SUFFICES ASSUME NEW q \in Broadcast(l, msg)
               PROVE  PacketOK(q) /\ q.msg.type \notin Election
    BY DEF NoVotes
  <2>1. q.from = l /\ q.to \in Node /\ q.msg = msg
    BY <1>2, BroadcastPackets
  <2> QED  BY <1>2, <1>3, <2>1 DEF PacketOK, Election, Replication, Catchup
<1> HIDE DEF w, msg
<1> QED  BY <1>2, <1>4, <1>5, <1>6, <1>7, QuietStep

\* A leader's heartbeat goes out.
LEMMA HeartbeatStep ==
    ASSUME TypesOK, VotesOK, NEW n \in Node, Heartbeat(n)
    PROVE  TypesOK' /\ VotesOK'
<1> DEFINE out == Broadcast(n, [type |-> "Heartbeat", term |-> nodes[n].term,
                                commit_index |-> nodes[n].commit_index])
<1>1. Shaped(nodes[n]) /\ nodes[n].term \in Nat
  BY DEF TypesOK, NodeOK
<1>2. nodes' = [nodes EXCEPT ![n] = nodes[n]]
  BY DEF Heartbeat, TypesOK
<1>3. packets' \subseteq packets \cup out
  BY SendAdds DEF Heartbeat
<1>4. NoVotes(out)
  BY <1>1, HeartbeatIsQuiet
<1>5. Quiet(nodes[n], nodes[n])
  BY <1>1 DEF Quiet
<1> HIDE DEF out
<1> QED  BY <1>2, <1>3, <1>4, <1>5, QuietStep

-----------------------------------------------------------------------------
(* The theorem *)

LEMMA ElectionInit == Init => ElectionInv
<1> SUFFICES ASSUME Init
             PROVE  ElectionInv
  OBVIOUS
<1>1. restarts = 0 /\ packets = {} /\ nodes = [n \in Node |-> SimNode_new(n)]
  BY DEF Init
<1>2. ASSUME NEW n \in Node
      PROVE  NodeOK(n) /\ nodes[n].votes_received = {}
  <2>1. nodes[n] = SimNode_new(n)
    BY <1>1
  <2>2. Shaped(SimNode_new(n))
    BY DEF Shaped, Fields, SimNode_new
  <2> QED  BY <2>1, <2>2 DEF SimNode_new, NodeOK
<1>3. TypesOK
  BY <1>1, <1>2 DEF TypesOK
<1>4. VotesOK
  BY <1>1, <1>2 DEF VotesOK, Cast
<1> QED  BY <1>1, <1>3, <1>4 DEF ElectionInv

LEMMA ElectionStep == ElectionInv /\ [Next]_vars => ElectionInv'
<1> SUFFICES ASSUME ElectionInv, [Next]_vars
             PROVE  ElectionInv'
  OBVIOUS
<1>1. restarts \in Nat
  BY DEF ElectionInv
<1>2. CASE restarts' = restarts /\ (restarts = 0 => TypesOK' /\ VotesOK')
  BY <1>1, <1>2 DEF ElectionInv
<1>3. CASE restarts' \in Nat \ {0}
  BY <1>3 DEF ElectionInv
<1>4. CASE UNCHANGED vars
  <2>1. ASSUME restarts = 0
        PROVE  TypesOK' /\ VotesOK'
    <3>1. TypesOK /\ VotesOK /\ nodes' = nodes /\ packets' = packets
      BY <1>4, <2>1 DEF ElectionInv, vars
    <3> QED  BY <3>1 DEF TypesOK, VotesOK, NodeOK, PacketOK, Cast, Recorded, Shaped, quorum_size
  <2> QED  BY <1>2, <1>4, <2>1 DEF vars
<1>5. ASSUME NEW p \in packets, Deliver(p)
      PROVE  ElectionInv'
  BY <1>2, <1>5, DeliverStep DEF Deliver, ElectionInv
<1>6. CASE Propose
  BY <1>2, <1>6, ProposeStep DEF Propose, ElectionInv
<1>7. ASSUME NEW n \in Node, Heartbeat(n)
      PROVE  ElectionInv'
  BY <1>2, <1>7, HeartbeatStep DEF Heartbeat, ElectionInv
<1>8. ASSUME NEW n \in Node, Campaign(n)
      PROVE  ElectionInv'
  BY <1>2, <1>8, CampaignStep DEF Campaign, ElectionInv
<1>9. ASSUME NEW n \in Node, crash_node(n)
      PROVE  ElectionInv'
  BY <1>1, <1>3, <1>9 DEF crash_node
<1>10. ASSUME NEW n \in Node, reboot_node(n)
       PROVE  ElectionInv'
  <2>1. CASE Active(n)
    BY <1>1, <1>3, <1>10, <2>1 DEF reboot_node
  <2>2. CASE ~ Active(n)
    <3>1. restarts # 0
      BY <2>2 DEF ElectionInv, TypesOK, NodeOK, Active
    <3> QED  BY <1>1, <1>3, <1>10, <2>2, <3>1 DEF reboot_node
  <2> QED  BY <2>1, <2>2
<1> QED
  BY <1>4, <1>5, <1>6, <1>7, <1>8, <1>9, <1>10 DEF Next, Timeout, trigger_election

\* Two leaders of a term were elected by quorums that share a voter.
LEMMA ElectionSafe == ElectionInv => OneLeaderPerTerm
<1> SUFFICES ASSUME ElectionInv, restarts = 0, NEW n \in Node, NEW m \in Node,
                    nodes[n].role = "Leader", nodes[m].role = "Leader",
                    nodes[n].term = nodes[m].term
             PROVE  n = m
  BY DEF OneLeaderPerTerm
<1>1. TypesOK /\ VotesOK /\ NodeOK(n) /\ NodeOK(m)
  BY DEF ElectionInv, TypesOK
<1>2. CASE nodes[n].term = 1
  BY <1>1, <1>2 DEF NodeOK
<1>3. CASE nodes[n].term # 1
  <2>1. /\ nodes[n].votes_received \subseteq Node /\ nodes[m].votes_received \subseteq Node
        /\ Cardinality(nodes[n].votes_received) >= quorum_size
        /\ Cardinality(nodes[m].votes_received) >= quorum_size
        /\ nodes[n].term \in Nat
    BY <1>1, <1>3 DEF NodeOK
  <2>2. PICK x \in Node : x \in nodes[n].votes_received /\ x \in nodes[m].votes_received
    BY <2>1, Quorums
  <2>3. Cast(x, n, nodes[n].term) /\ Cast(x, m, nodes[n].term)
    BY <2>2 DEF Cast
  <2> QED  BY <1>1, <2>1, <2>3 DEF VotesOK
<1> QED  BY <1>2, <1>3

\* Until a node has been restarted a term has at most one leader, however messages
\* are lost, duplicated, late or reordered and whoever campaigns when
\* (on_request_vote, on_vote_granted, tick_nodes, trigger_election).
THEOREM ElectionsAreSafe == Spec => []OneLeaderPerTerm
<1>1. Init => ElectionInv
  BY ElectionInit
<1>2. ElectionInv /\ [Next]_vars => ElectionInv'
  BY ElectionStep
<1>3. ElectionInv => OneLeaderPerTerm
  BY ElectionSafe
<1> QED  BY <1>1, <1>2, <1>3, PTL DEF Spec
=============================================================================
