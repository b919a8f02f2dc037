------------------------------- MODULE Engine -------------------------------
(***************************************************************************)
(* The ingest engine of crates/ingest: clients call the gRPC service,      *)
(* which submits commands to a bounded queue; a single writer drains them  *)
(* in micro-batches, prepares them on the ledger, appends the events of    *)
(* the successful ones to the write-ahead log in one group commit, applies *)
(* them and answers.  The log is DurableLog, which Wal implements; the     *)
(* process may crash at any point and restarts by replaying the log.       *)
(***************************************************************************)
EXTENDS LedgerUndo, Server

CONSTANTS Client,         \* callers, one request each
          Traffic,        \* functions from Client to requests
          QueueCapacity,  \* queue_capacity
          max_batch_size, \* EngineConfig::max_batch_size
          MaxPayload,     \* events that fit max_record_payload_len
          Clock,          \* what SystemTime::now may read
          MaxCrashes      \* bound: crashes per behaviour

ASSUME EngineAssumption == QueueCapacity \in Nat \ {0} /\ max_batch_size \in Nat \ {0}

VARIABLES requests, \* what each client sends
          queue,    \* clients whose commands wait in the channel
          pc,       \* where the writer is
          work,     \* locals of process_batch
          ledger,   \* Engine::ledger
          replies,  \* what each client knows
          shown,    \* the entity its response shows
          log, acked, doubt, up,  \* the write-ahead log: see DurableLog
          crashes

journal == <<log, acked, doubt, up>>
vars == <<requests, queue, pc, work, ledger, replies, shown, journal, crashes>>

LOCAL WalLog == INSTANCE DurableLog WITH Batch <- {}

Idle == [payloads |-> << >>, senders |-> << >>, queries |-> << >>]

Init ==
    /\ requests \in Traffic
    /\ queue = << >> /\ pc = "recv" /\ work = Idle /\ crashes = 0
    /\ ledger = Ledger_new(ServerScale)
    /\ replies = [c \in Client |-> "new"]
    /\ shown = [c \in Client |-> NoResponse]
    /\ log = << >> /\ acked = 0 /\ doubt = {} /\ up = TRUE

\* replies with the answer of every client in cs set to answer.
Answered(cs, answer) == [c \in Client |-> IF c \in cs THEN answer ELSE replies[c]]

Waiting == {c \in Client : replies[c] = "queued"}

-----------------------------------------------------------------------------
(* Clients and the queue *)
\* Deviation: one command more than the channel holds.
Bug_submit_over_capacity(c) ==
    /\ replies[c] = "new" /\ request_ok(requests[c])
    /\ pc \notin {"stopped", "down", "corrupt"}
    /\ Len(queue) <= QueueCapacity
    /\ queue' = Append(queue, c)
    /\ replies' = Answered({c}, "queued")
    /\ UNCHANGED <<requests, pc, work, ledger, shown, journal, crashes>>

\* A method converts its message; IngestQueue::submit is a try_send on the bounded
\* channel.
submit(c) ==
    /\ replies[c] = "new"
    /\ \/ /\ ~ request_ok(requests[c])
          /\ replies' = Answered({c}, "invalid")
          /\ UNCHANGED queue
       \/ /\ request_ok(requests[c])
          /\ pc \in {"stopped", "down", "corrupt"}
          /\ replies' = Answered({c}, "closed")
          /\ UNCHANGED queue
       \/ /\ request_ok(requests[c])
          /\ pc \notin {"stopped", "down", "corrupt"}
          /\ Len(queue) >= QueueCapacity
          /\ replies' = Answered({c}, "saturated")
          /\ UNCHANGED queue
       \/ /\ request_ok(requests[c])
          /\ pc \notin {"stopped", "down", "corrupt"}
          /\ Len(queue) < QueueCapacity
          /\ queue' = Append(queue, c)
          /\ replies' = Answered({c}, "queued")
    /\ UNCHANGED <<requests, pc, work, ledger, shown, journal, crashes>>

\* A client that got no verdict on its command sends it again.
Retry(c) ==
    /\ replies[c] \in {"closed", "saturated", "failed"}
    /\ replies' = Answered({c}, "new")
    /\ UNCHANGED <<requests, queue, pc, work, ledger, shown, journal, crashes>>

-----------------------------------------------------------------------------
(* process_batch *)

\* The timestamp an operation gets; the watermark moves to whatever is larger.
allocate_timestamp(requested, watermark, now) ==
    LET next == IF watermark < MaxTimestamp THEN watermark + 1 ELSE watermark
    IN  IF requested = 0 THEN (IF now > next THEN now ELSE next) ELSE requested

IsTransferOp(op) == op.type \in {"Transfer", "Pending"}

Requested(op) == IF IsTransferOp(op) THEN op.transfer.timestamp ELSE op.timestamp

WithTimestamp(op, ts) == IF IsTransferOp(op) THEN [op EXCEPT !.transfer.timestamp = ts]
                                             ELSE [op EXCEPT !.timestamp = ts]

\* Transfer::new_immediate and new_pending validate; nothing else does.
constructor_ok(op) ==
    IsTransferOp(op) => /\ op.transfer.debit_account_id # op.transfer.credit_account_id
                        /\ op.transfer.amount # 0

\* into_batch_op on the operations of one command: the watermark moves even for
\* the operation that fails, and the rest of its command is not looked at.
into_batch_op(conv, op, now) ==
    IF ~ conv.ok THEN conv
    ELSE LET ts == allocate_timestamp(Requested(op), conv.watermark, now)
         IN  [ok |-> constructor_ok(op),
              watermark |-> IF ts > conv.watermark THEN ts ELSE conv.watermark,
              ops |-> Append(conv.ops, WithTimestamp(op, ts))]

\* Sorting the commands of a batch into transactions, early errors and queries.
\* now[c] is the clock while command c is converted.
Sorted(batch, now) ==
    FoldLeft(LAMBDA s, c :
        IF IsQuery(requests[c]) THEN [s EXCEPT !.queries = Append(@, c)]
        ELSE LET conv == FoldLeft(LAMBDA v, op : into_batch_op(v, op, now[c]),
                                  [ok |-> TRUE, watermark |-> s.watermark, ops |-> << >>],
                                  Operations(requests[c]))
             IN  IF conv.ok
                 THEN [s EXCEPT !.watermark = conv.watermark, !.txs = Append(@, conv.ops),
                                !.senders = Append(@, c)]
                 ELSE [s EXCEPT !.watermark = conv.watermark, !.early = @ \cup {c}],
        [watermark |-> ledger.last_timestamp, txs |-> << >>, senders |-> << >>,
         early |-> {}, queries |-> << >>],
        batch)

\* seq without the elements at the given positions.
Without(seq, positions) ==
    FoldLeft(LAMBDA kept, k : IF k \in positions THEN kept ELSE Append(kept, seq[k]),
             << >>, [k \in DOMAIN seq |-> k])

\* run takes one command and as many more as arrive before its deadline;
\* process_batch converts and prepares them and answers those it rejects.
process_batch ==
    /\ pc = "recv"
    /\ \E n \in 1 .. Len(queue), now \in [Client -> Clock] :
       \E s \in {Sorted(SubSeq(queue, 1, n), now)} :
       \E out \in {prepare_transactions(ledger, s.txs)} :
        LET failed == {k \in DOMAIN s.txs : ~ out.results[k].ok}
        IN  /\ n <= max_batch_size
            /\ queue' = SubSeq(queue, n + 1, Len(queue))
            /\ ledger' = out.ledger
            /\ replies' = Answered(s.early \cup {s.senders[k] : k \in failed}, "rejected")
            /\ work' = [queries |-> s.queries,
                        senders |-> Without(s.senders, failed),
                        payloads |-> Without([k \in DOMAIN s.txs |-> out.results[k].events],
                                                failed)]
            /\ pc' = IF failed = DOMAIN s.txs THEN "answer" ELSE "append"
    /\ UNCHANGED <<requests, shown, journal, crashes>>

Senders == {work.senders[k] : k \in DOMAIN work.senders}

TooLarge == \E k \in DOMAIN work.payloads : Len(work.payloads[k]) > MaxPayload

\* The group commit succeeds.
append_ok ==
    /\ pc = "append"
    /\ ~ TooLarge
    /\ WalLog!AppendOk(work.payloads)
    /\ pc' = "commit"
    /\ UNCHANGED <<requests, queue, work, ledger, replies, shown, crashes>>

\* run returns: the engine goes, and with it the channel and the answers owed.
Stopped(failed) ==
    /\ replies' = [c \in Client |-> IF c \in failed THEN "failed"
                                    ELSE IF c \in Waiting THEN "closed" ELSE replies[c]]
    /\ pc' = "stopped"
    /\ queue' = << >>
    /\ work' = Idle
\* Deviation: the error of the log is dropped.
Bug_append_err_ignored ==
    /\ pc = "append"
    /\ \/ TooLarge /\ UNCHANGED journal
       \/ ~ TooLarge /\ WalLog!AppendFails(work.payloads) /\ up'
    /\ pc' = "commit"
    /\ UNCHANGED <<requests, queue, work, ledger, replies, shown, crashes>>

\* append_batch returns an error, for a payload too large before it writes
\* anything; every sender of the batch is told so and the engine stops.
append_err ==
    /\ pc = "append"
    /\ \/ TooLarge /\ UNCHANGED journal
       \/ ~ TooLarge /\ WalLog!AppendFails(work.payloads) /\ up'
    /\ Stopped(Senders)
    /\ UNCHANGED <<requests, ledger, shown, crashes>>

\* The response to client c, from the ledger as it is after the whole batch; a
\* batch is answered with the number of its operations.
Response(L, c) ==
    LET r == requests[c]
        op == IngestOp(r.ops[1])
    IN  CASE r.rpc = "get_account" -> AccountResponse(L, join_u128(r.id))
          [] r.rpc = "get_transfer" -> TransferResponse(L, join_u128(r.id))
          [] r.rpc = "mutate" /\ op.type = "CreateAccount" -> AccountResponse(L, target(op))
          [] r.rpc = "mutate" /\ op.type # "CreateAccount" -> TransferResponse(L, target(op))
          [] r.rpc = "apply_batch" -> [found |-> TRUE, entity |-> "count", body |-> Len(r.ops)]

\* shown and replies once the clients in cs are sent their responses from L.
Respond(cs, L) ==
    /\ shown' = [c \in Client |-> IF c \in cs THEN Response(L, c) ELSE shown[c]]
    /\ replies' = [c \in Client |-> IF c \notin cs THEN replies[c]
                                    ELSE IF shown'[c].found THEN "ok" ELSE "rejected"]

commit ==
    /\ pc = "commit"
    /\ \E out \in {commit_events(ledger, FlattenSeq(work.payloads))} :
        /\ ledger' = out.ledger
        /\ IF out.ok THEN /\ Respond(Senders, out.ledger)
                          /\ pc' = "answer"
                          /\ UNCHANGED <<queue, work>>
                     ELSE Stopped(Senders) /\ UNCHANGED shown
    /\ UNCHANGED <<requests, journal, crashes>>

\* Deviation: the queries of a batch are dropped.
Bug_queries_dropped ==
    /\ pc = "answer"
    /\ work' = Idle
    /\ pc' = "recv"
    /\ UNCHANGED <<requests, queue, ledger, replies, shown, journal, crashes>>

\* Queries of the batch come last.
answer ==
    /\ pc = "answer"
    /\ Respond(ToSet(work.queries), ledger)
    /\ work' = Idle
    /\ pc' = "recv"
    /\ UNCHANGED <<requests, queue, ledger, journal, crashes>>

-----------------------------------------------------------------------------
(* Crash and restart *)

\* The process dies, also inside append_batch, or is restarted after it stopped.
Crash ==
    /\ up /\ pc # "corrupt"
    /\ crashes < MaxCrashes
    /\ \/ WalLog!Crash
       \/ pc = "append" /\ ~ TooLarge /\ WalLog!AppendFails(work.payloads) /\ ~ up'
    /\ pc' = "down"
    /\ queue' = << >> /\ work' = Idle
    /\ replies' = Answered(Waiting, "closed")
    /\ crashes' = crashes + 1
    /\ UNCHANGED <<requests, ledger, shown>>

\* Open the log, decode its records and replay them.
Recover ==
    /\ WalLog!Recover
    /\ \E out \in {replay(ledger.scale, FlattenSeq(log'))} :
         ledger' = out.ledger /\ pc' = IF out.ok THEN "recv" ELSE "corrupt"
    /\ UNCHANGED <<requests, queue, work, replies, shown, crashes>>

Writer == process_batch \/ append_ok \/ append_err \/ commit \/ answer

Next == \/ \E c \in Client : submit(c) \/ Retry(c)
        \/ Writer
        \/ Crash
        \/ Recover

Spec == Init /\ [][Next]_vars

\* What ENABLED Writer comes to: a command has arrived or a batch is under way.
WriterReady == pc \in {"append", "commit", "answer"} \/ (pc = "recv" /\ queue # << >>)

\* WF_vars(Writer).  The runtime schedules the engine's task while it can run:
\* process_batch is synchronous, and the wait for further commands has a deadline.
FairSpec == Spec /\ ([]<>(~ WriterReady) \/ []<><<Writer>>_vars)

-----------------------------------------------------------------------------
(* Properties *)

\* Queues hold waiting clients, the log holds payloads of events.
TypeOK ==
    /\ IsLedger(ledger)
    /\ pc \in {"recv", "append", "commit", "answer", "stopped", "down", "corrupt"}
    /\ up = (pc # "down")
    /\ Len(queue) <= QueueCapacity
    /\ \A k \in DOMAIN queue : queue[k] \in Waiting
    /\ log \in Seq(Seq(LedgerEvent)) /\ acked \in 0 .. Len(log)

Writers == {c \in Client : request_ok(requests[c]) /\ ~ IsQuery(requests[c])}

\* payload is what the operations of c emit, all of them, in order.
Emitted(c, payload) ==
    LET ids(e) == CASE e.type \in {"AccountCreated", "AccountClosed", "CreateAccount"} -> <<e.id>>
                    [] e.type \in {"TransferPosted", "TransferPendingCreated", "Transfer", "Pending"}
                           -> <<e.transfer.id>>
                    [] e.type \in {"TransferPendingPosted", "PostPending"}
                           -> <<e.pending_id, e.post_transfer_id>>
                    [] e.type \in {"TransferPendingVoided", "VoidPending"} -> <<e.pending_id>>
        ops == Operations(requests[c])
    IN  /\ Len(payload) = Len(ops)
        /\ \A k \in DOMAIN ops : /\ payload[k].type = AsEvent(ops[k]).type
                                 /\ ids(payload[k]) = ids(ops[k])

\* "A mutation must be durable before it is acknowledged": a command answered Ok
\* is in the part of the log no crash can take, whole and as one record.
AckedIsDurable ==
    \A c \in Client : replies[c] = "ok" /\ ~ IsQuery(requests[c]) => \E n \in 1 .. acked : Emitted(c, log[n])

\* The engine never meets a log it cannot replay, nor events its own ledger
\* refuses after they were logged: recovery succeeds after any crash, also for
\* batches the clients never heard of.
AlwaysRecovers ==
    /\ pc # "corrupt"
    /\ pc = "commit" => commit_events(ledger, FlattenSeq(work.payloads)).ok

\* Between batches the ledger in memory is the replay of the log, so a crash
\* loses nothing a query has shown since the last restart; while a batch is
\* being committed it lags by exactly that batch.
MemoryIsReplay ==
    pc \in {"recv", "append", "answer", "commit"} =>
        LET applied == IF pc = "commit" THEN SubSeq(log, 1, Len(log) - Len(work.payloads)) ELSE log
        IN  replay(ledger.scale, FlattenSeq(applied)) = [ok |-> TRUE, ledger |-> ledger]

\* A log record is one command: recovery brings back whole commands, and none
\* twice however often clients retry.
WholeCommandsOnce ==
    /\ \A n \in DOMAIN log : \E c \in Writers : Emitted(c, log[n])
    /\ \A c \in Writers : Cardinality({n \in DOMAIN log : Emitted(c, log[n])}) <= 1

\* Nobody waits for ever: a queued command is answered or its channel closed.
QueuedIsAnswered == \A c \in Client : replies[c] = "queued" ~> replies[c] # "queued"

\* The words in which the request of c names the entity it is about.
Named(c) ==
    LET r == requests[c]
        m == r.ops[1]
    IN  CASE IsQuery(r) -> r.id
          [] ~ IsQuery(r) /\ m.type \in {"CreateAccount", "Transfer", "Pending"} -> m.id
          [] ~ IsQuery(r) /\ m.type = "PostPending" -> m.post_transfer_id
          [] ~ IsQuery(r) /\ m.type = "VoidPending" -> m.pending_id

\* What a crash cannot take from a client: for a mutation the acknowledged log, for a
\* query what was logged, which after a restart may be read back and not yet synced
\* (then a second crash can take it).
Kept(c) == IF IsQuery(requests[c]) THEN log ELSE SubSeq(log, 1, acked)

\* A response shows the entity its request named, word for word, and the entity is
\* in the replay of the log that is kept, alike in all that later operations leave
\* alone: no response shows writes that were prepared and not logged, or logged and
\* refused (respond_ok and the queries run after the group commit).
ShownIsDurable ==
    \A c \in Client : shown[c].found /\ shown[c].entity # "count" =>
        \E kept \in {replay(ledger.scale, FlattenSeq(Kept(c))).ledger} :
            LET body == shown[c].body
                id == body.id[2] * Word + body.id[1]
            IN  /\ body.id = Named(c)
                /\ IF shown[c].entity = "account"
                   THEN /\ id \in DOMAIN kept.accounts
                        /\ kept.accounts[id].flags = body.flags
                   ELSE /\ id \in DOMAIN kept.transfers
                        /\ [transfer_to_proto(kept.transfers[id]) EXCEPT !.state = body.state]
                             = body
=============================================================================
