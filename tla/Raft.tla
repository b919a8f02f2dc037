-------------------------------- MODULE Raft --------------------------------
(***************************************************************************)
(* The replicated ledger of crates/raft: each node's MemLogStore and       *)
(* LedgerStateMachine, the router between the nodes, and the propose calls *)
(* of RaftCluster.  The protocol that drives them is openraft's, which is  *)
(* not in the repository: Elect, Replicate and the commit rule say what    *)
(* the storage and the network are asked to do, an RPC and its answer      *)
(* being one step, as the router calls the target directly.                *)
(***************************************************************************)
EXTENDS LedgerUndo

CONSTANTS Node,         \* the nodes, numbers
          Founder,      \* the node the cluster is initialized on
          Currency,     \* the scale of every node's ledger
          Client,       \* the calls of propose
          Request,      \* what each proposes: a sequence of BatchOps
          Split,        \* pairs of sets given to partition
          MaxRetries,   \* 10
          LogsSinceLast,\* the snapshot policy: entries applied since the last one
          MaxTerm,      \* bound: elections
          Isolated,     \* bound: the nodes isolate is called for
          MaxFaults     \* bound: calls of isolate, partition and kill_node

ASSUME RaftAssumption == /\ Node \subseteq Nat /\ Founder \in Node /\ Currency \in Scale
                         /\ {MaxRetries, LogsSinceLast, MaxTerm, MaxFaults} \subseteq Nat
                         /\ Isolated \subseteq Node

VARIABLES nodes,     \* the nodes that run, registered with the router
          router,    \* RouterState: isolated and partitions, and the faults so far
          leaders,   \* the nodes whose metrics say Leader
          matched,   \* how far each leader knows the others' logs to match its own
          store,     \* MemLogStoreInner of every node
          machine,   \* StateMachineInner of every node
          calls      \* where each call of propose is

vars == <<nodes, router, leaders, matched, store, machine, calls>>

-----------------------------------------------------------------------------
(* MemLogStore: log indices count from 0; None is before every log id *)

LogId(term, index) == [term |-> term, index |-> index]
NoLogId == LogId(0, -1)

\* The order of log ids: by term, then by index.
AtMost(x, y) == x.term < y.term \/ (x.term = y.term /\ x.index <= y.index)

MemLogStore_new == [vote |-> [term |-> 0, node |-> 0], committed |-> NoLogId,
                    last_purged_log_id |-> NoLogId, entries |-> EmptyMap]

\* Deviation: an empty log has no last log id, even after a purge.
Bug_log_state_without_purged(s) ==
    IF s.entries = EmptyMap THEN NoLogId ELSE s.entries[Max(DOMAIN s.entries)].log_id

last_log_id(s) ==
    IF s.entries = EmptyMap THEN s.last_purged_log_id
    ELSE s.entries[Max(DOMAIN s.entries)].log_id

try_get_log_entries(s, range) == Restrict(s.entries, DOMAIN s.entries \cap range)

append(s, entries) == [s EXCEPT !.entries = entries @@ @]

truncate(s, index) == [s EXCEPT !.entries = RestrictDomain(@, LAMBDA i : i < index)]

purge(s, log_id) ==
    [s EXCEPT !.last_purged_log_id = log_id,
              !.entries = RestrictDomain(@, LAMBDA i : i > log_id.index)]

save_vote(s, vote) == [s EXCEPT !.vote = vote]

save_committed(s, log_id) == [s EXCEPT !.committed = log_id]

-----------------------------------------------------------------------------
(* LedgerStateMachine *)

NoSnapshot == [last_log_id |-> NoLogId]

LedgerStateMachine_new(scale) ==
    [ledger |-> Ledger_new(scale), last_applied_log_id |-> NoLogId,
     last_membership |-> NoLogId, current_snapshot |-> NoSnapshot]

\* Every kind of request is a batch, of one operation unless it is ApplyBatch:
\* prepared, and the events it yields committed.
apply_single_request(L, ops) ==
    LET commit(prepared) ==
          IF prepared.ok THEN commit_events(prepared.ledger, prepared.events)
          ELSE [ok |-> FALSE, ledger |-> prepared.ledger]
    IN  commit(prepare_batch(L, ops))

\* One committed entry; out.answers are the responses, by log index.
ApplyEntry(out, entry) ==
    LET at(m) == [m EXCEPT !.last_applied_log_id = entry.log_id]
        normal(result) ==
          [machine |-> at([out.machine EXCEPT !.ledger = result.ledger]),
           answers |-> MapInsert(out.answers, entry.log_id.index,
                                 IF result.ok THEN "applied" ELSE "refused")]
    IN  CASE entry.payload = "Blank" -> [out EXCEPT !.machine = at(@)]
          [] entry.payload = "Membership" ->
               [out EXCEPT !.machine = [at(@) EXCEPT !.last_membership = entry.log_id]]
          [] entry.payload = "Normal" ->
               normal(apply_single_request(out.machine.ledger, entry.request))

\* The entries with the indices first .. last, in order.
apply(m, entries, first, last) ==
    FoldLeft(LAMBDA out, k : ApplyEntry(out, entries[first + k - 1]),
             [machine |-> m, answers |-> EmptyMap], [k \in 1 .. last - first + 1 |-> k])

\* get_snapshot_builder and build_snapshot: what it returns is not kept.
build_snapshot(m) ==
    [last_log_id |-> m.last_applied_log_id, last_membership |-> m.last_membership,
     scale |-> m.ledger.scale, journal |-> m.ledger.journal]

\* Deviation: the last applied log id stays, and entries would be applied again.
Bug_install_keeps_log_id(m, snapshot) ==
    [m EXCEPT !.ledger = replay(snapshot.scale, snapshot.journal).ledger,
              !.last_membership = snapshot.last_membership, !.current_snapshot = snapshot]

install_snapshot(m, snapshot) ==
    LET replayed == replay(snapshot.scale, snapshot.journal)
    IN  IF ~ replayed.ok THEN m
        ELSE [ledger |-> replayed.ledger, last_applied_log_id |-> snapshot.last_log_id,
              last_membership |-> snapshot.last_membership, current_snapshot |-> snapshot]

-----------------------------------------------------------------------------
(* NetworkRouter *)

can_communicate(from, to) ==
    /\ {from, to} \cap router.isolated = {}
    /\ \A split \in router.partitions :
         <<from, to>> \notin (split[1] \X split[2]) \cup (split[2] \X split[1])

\* get_target_raft, for a source that runs.
Reaches(from, to) == from \in nodes /\ to \in nodes /\ can_communicate(from, to)

isolate(n) ==
    /\ router.faults < MaxFaults
    /\ router' = [router EXCEPT !.isolated = @ \cup {n}, !.faults = @ + 1]
    /\ UNCHANGED <<nodes, leaders, matched, store, machine, calls>>

unisolate(n) ==
    /\ n \in router.isolated
    /\ router' = [router EXCEPT !.isolated = @ \ {n}]
    /\ UNCHANGED <<nodes, leaders, matched, store, machine, calls>>

partition(split) ==
    /\ router.faults < MaxFaults
    /\ router' = [router EXCEPT !.partitions = @ \cup {split}, !.faults = @ + 1]
    /\ UNCHANGED <<nodes, leaders, matched, store, machine, calls>>

heal ==
    /\ router.isolated # {} \/ router.partitions # {}
    /\ router' = [router EXCEPT !.isolated = {}, !.partitions = {}]
    /\ UNCHANGED <<nodes, leaders, matched, store, machine, calls>>

-----------------------------------------------------------------------------
(* Calls of propose *)

Running == {c \in Client : calls[c].pc \in {"pick", "write", "wait"}}

Retried(call) == IF call.retries + 1 < MaxRetries
                 THEN [call EXCEPT !.pc = "pick", !.retries = @ + 1]
                 ELSE [call EXCEPT !.pc = "done", !.answer = "not leader"]

\* One turn of the loop: the first node that calls itself the leader.
PickLeader(c) ==
    /\ calls[c].pc \in {"idle", "pick"}
    /\ calls' = [calls EXCEPT ![c] = IF leaders = {} THEN Retried(@)
                                     ELSE [@ EXCEPT !.pc = "write", !.node = Min(leaders)]]
    /\ UNCHANGED <<nodes, router, leaders, matched, store, machine>>

Entry(term, index, payload, request) ==
    [log_id |-> LogId(term, index), payload |-> payload, request |-> request]

Appended(s, payload, request) ==
    LET index == last_log_id(s).index + 1
    IN  append(s, index :> Entry(s.vote.term, index, payload, request))

\* client_write: a node that is not the leader any more forwards.
ClientWrite(c) ==
    LET n == calls[c].node IN
    /\ calls[c].pc = "write"
    /\ IF n \in leaders
       THEN /\ store' = [store EXCEPT ![n] = Appended(@, "Normal", Request[c])]
            /\ calls' = [calls EXCEPT ![c].pc = "wait",
                                      ![c].index = last_log_id(store[n]).index + 1]
       ELSE calls' = [calls EXCEPT ![c] = Retried(@)] /\ UNCHANGED store
    /\ UNCHANGED <<nodes, router, leaders, matched, machine>>

\* kill_node borrows the cluster mutably: no call of propose is running.
kill_node(n) ==
    /\ n \in nodes /\ Running = {} /\ router.faults < MaxFaults
    /\ nodes' = nodes \ {n}
    /\ leaders' = leaders \ {n}
    /\ router' = [router EXCEPT !.faults = @ + 1]
    /\ UNCHANGED <<matched, store, machine, calls>>

-----------------------------------------------------------------------------
(* openraft, as far as it uses the storage and the network *)

Unmatched == [m \in Node |-> -1]

IsQuorum(set) == 2 * Cardinality(set) > Cardinality(Node)

\* Node n campaigns: if it and those it reaches, with no newer vote and no longer
\* log, are a quorum, they save the vote and n appends the blank entry of its term.
Elect(n) ==
    LET term == store[n].vote.term + 1
        vote == [term |-> term, node |-> n]
        granted == {m \in Node : /\ Reaches(n, m) /\ store[m].vote.term < term
                                 /\ AtMost(last_log_id(store[m]), last_log_id(store[n]))}
    IN  /\ n \in nodes \ leaders /\ term <= MaxTerm
        /\ last_log_id(store[n]) # NoLogId                       \* it knows the members
        /\ IsQuorum(granted)
        /\ leaders' = (leaders \ granted) \cup {n}
        /\ store' = [m \in Node |->
                       IF m = n THEN Appended(save_vote(store[n], vote), "Blank", << >>)
                       ELSE IF m \in granted THEN save_vote(store[m], vote)
                       ELSE store[m]]
        /\ matched' = [m \in Node |-> IF m \in granted THEN Unmatched ELSE matched[m]]
        /\ UNCHANGED <<nodes, router, machine, calls>>

\* The last index up to which f's log is l's: what f purged is committed.
CommonPrefix(f, l) ==
    LET agrees(i) == \/ i <= store[f].last_purged_log_id.index
                     \/ /\ i <= store[l].last_purged_log_id.index
                        /\ i <= store[f].committed.index
                     \/ /\ i \in DOMAIN store[f].entries \cap DOMAIN store[l].entries
                        /\ store[f].entries[i].log_id = store[l].entries[i].log_id
    IN  Max({i \in -1 .. last_log_id(store[l]).index : \A j \in 0 .. i : agrees(j)})

\* The entries of l's own term that a quorum has are committed, and those before.
Committed(l, s, progress) ==
    LET held == {i \in DOMAIN s.entries :
                   /\ s.entries[i].log_id.term = s.vote.term
                   /\ IsQuorum({l} \cup {m \in Node : progress[m] >= i})}
    IN  IF held = {} \/ Max(held) <= s.committed.index THEN s
        ELSE save_committed(s, s.entries[Max(held)].log_id)

\* What node n, its log being s, has committed and not applied is applied.
Apply(n, s) ==
    LET applied == machine[n].last_applied_log_id.index
        last == Min({s.committed.index, last_log_id(s).index})
    IN  IF last <= applied THEN [machine |-> machine[n], answers |-> EmptyMap]
        ELSE apply(machine[n], s.entries, applied + 1, last)

\* Answers are given at the nodes where the calls wait; those that wait at f for
\* an entry that is truncated are forwarded.
Answered(answers, f, truncated) ==
    [c \in Client |->
        LET call == calls[c]
        IN  CASE call.pc = "wait" /\ call.node = f /\ call.index \in truncated -> Retried(call)
              [] call.pc = "wait" /\ call.index \in DOMAIN answers[call.node] ->
                   [call EXCEPT !.pc = "done", !.answer = answers[call.node][call.index]]
              [] OTHER -> call]

\* append_entries to f of what follows the common prefix, and the commit index;
\* each of the two applies what it then knows to be committed.
AppendEntries(l, f) ==
    LET common == CommonPrefix(f, l)
        last == last_log_id(store[l]).index
        conflict == last_log_id(store[f]).index > common /\ common < last
        kept == IF conflict THEN truncate(store[f], common + 1) ELSE store[f]
        sent == append(save_vote(kept, store[l].vote),
                       try_get_log_entries(store[l], common + 1 .. last))
        at_f == IF AtMost(store[l].committed, sent.committed) THEN sent
                ELSE save_committed(sent, store[l].committed)
        progress == [matched[l] EXCEPT ![f] = last]
        at_l == Committed(l, store[l], progress)
    IN  \E here \in {Apply(l, at_l)}, there \in {Apply(f, at_f)} :
          /\ store' = [store EXCEPT ![f] = at_f, ![l] = at_l]
          /\ matched' = [matched EXCEPT ![l] = progress, ![f] = Unmatched]
          /\ machine' = [machine EXCEPT ![l] = here.machine, ![f] = there.machine]
          /\ calls' = Answered([n \in Node |-> CASE n = l -> here.answers
                                              [] n = f -> there.answers
                                              [] OTHER -> EmptyMap],
                              f, IF conflict THEN common + 1 .. last_log_id(store[f]).index
                                 ELSE {})

\* What f misses is no longer in l's log: l sends its current snapshot.
SendSnapshot(l, f) ==
    LET snapshot == machine[l].current_snapshot
    IN  /\ machine' = [machine EXCEPT ![f] = IF snapshot = NoSnapshot THEN @
                                             ELSE install_snapshot(@, snapshot)]
        /\ store' = [store EXCEPT ![f] = IF snapshot = NoSnapshot THEN @
                                         ELSE purge(@, snapshot.last_log_id)]
        /\ UNCHANGED <<matched, calls>>

\* The leader l sends to f what f misses, or learns of a newer term.
Replicate(l, f) ==
    /\ l \in leaders /\ f # l /\ Reaches(l, f)
    /\ IF store[f].vote.term > store[l].vote.term
       THEN /\ leaders' = leaders \ {l}
            /\ store' = [store EXCEPT ![l] = save_vote(@, store[f].vote)]
            /\ matched' = [matched EXCEPT ![l] = Unmatched]
            /\ UNCHANGED <<machine, calls>>
       ELSE /\ leaders' = leaders \ {f}
            /\ IF CommonPrefix(f, l) < store[l].last_purged_log_id.index
               THEN SendSnapshot(l, f)
               ELSE AppendEntries(l, f)
    /\ UNCHANGED <<nodes, router>>

\* A snapshot is due: it is built, and the log purged up to it.
Snapshot(n) ==
    LET snapshot == build_snapshot(machine[n])
    IN  /\ n \in nodes
        /\ snapshot.last_log_id.index
             >= store[n].last_purged_log_id.index + LogsSinceLast
        /\ store' = [store EXCEPT ![n] = purge(@, snapshot.last_log_id)]
        /\ UNCHANGED <<nodes, router, leaders, matched, machine, calls>>

-----------------------------------------------------------------------------
(* RaftCluster *)

\* new_3node: the founder's log has the membership.
Init ==
    /\ nodes = Node
    /\ router = [isolated |-> {}, partitions |-> {}, faults |-> 0]
    /\ leaders = {}
    /\ matched = [n \in Node |-> Unmatched]
    /\ store = [n \in Node |-> IF n # Founder THEN MemLogStore_new
                               ELSE Appended(MemLogStore_new, "Membership", << >>)]
    /\ machine = [n \in Node |-> LedgerStateMachine_new(Currency)]
    /\ calls = [c \in Client |-> [pc |-> "idle", retries |-> 0, node |-> 0, index |-> -1,
                                  answer |-> "none"]]

Next == \/ \E c \in Client : PickLeader(c) \/ ClientWrite(c)
        \/ \E n \in Node : \/ Elect(n) \/ Snapshot(n) \/ kill_node(n)
                           \/ \E f \in Node : Replicate(n, f)
        \/ \E n \in Isolated : isolate(n) \/ unisolate(n)
        \/ \E split \in Split : partition(split)
        \/ heal

Spec == Init /\ [][Next]_vars

-----------------------------------------------------------------------------
(* Properties *)

\* "Zero lost commits under single-node failure": a call answered with Ok has its
\* entry, for good, in the log or among the applied entries of every leader of
\* the newest term, and in the ledger of every node that applied that far.
AnsweredIsKept ==
    \A c \in Client : calls[c].answer = "applied" =>
        \A n \in nodes :
          LET done == machine[n].last_applied_log_id.index >= calls[c].index
              seen == \A k \in DOMAIN Request[c] :
                        Request[c][k].type = "Transfer" =>
                            Request[c][k].transfer.id \in DOMAIN machine[n].ledger.transfers
          IN  /\ done => seen
              /\ n \in leaders /\ (\A m \in Node : store[m].vote.term <= store[n].vote.term) =>
                   \/ done
                   \/ /\ calls[c].index \in DOMAIN store[n].entries
                      /\ store[n].entries[calls[c].index].request = Request[c]

\* Replicas execute the committed entries in one order: nodes that applied as much
\* have the same ledger; of two others the one that applied less has a prefix of
\* the other's journal, and would have its state if it installed its snapshot.
ReplicasAgree ==
    \A m, n \in Node :
      LET behind == machine[m].last_applied_log_id.index < machine[n].last_applied_log_id.index
      IN  /\ machine[m].last_applied_log_id = machine[n].last_applied_log_id =>
               machine[m].ledger = machine[n].ledger
          /\ behind =>
               /\ IsPrefix(machine[m].ledger.journal, machine[n].ledger.journal)
               /\ LET snapshot == build_snapshot(machine[n])
                  IN  install_snapshot(machine[m], snapshot)
                        = [machine[n] EXCEPT !.current_snapshot = snapshot]

\* "When the partition heals, the old leader ... replays missing committed entries
\* to synchronize its ledger": what a node has not got, the leader still has, in
\* its log or in its current snapshot.
MissingIsAvailable ==
    \A l \in leaders, f \in nodes :
        last_log_id(store[f]).index < store[l].last_purged_log_id.index =>
            machine[l].current_snapshot.last_log_id.index
                >= store[l].last_purged_log_id.index
=============================================================================
