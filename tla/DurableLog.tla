----------------------------- MODULE DurableLog -----------------------------
(***************************************************************************)
(* What a write-ahead log promises its callers, with the file left out: a  *)
(* log of records, the first acked of which nothing can take away, and a   *)
(* set of record sequences that may or may not follow them after a crash.  *)
(***************************************************************************)
EXTENDS Integers, Sequences, SequencesExt

CONSTANTS Batch   \* sequences of payloads callers append

VARIABLES log,    \* the records a reader of the open log sees
          acked,  \* how many of them were acknowledged or made durable
          doubt,  \* what unfinished or failed appends may have left behind them
          up      \* TRUE: the log is open

vars == <<log, acked, doubt, up>>

Init == log = << >> /\ acked = 0 /\ doubt = {} /\ up = FALSE

Rest(n) == SubSeq(log, n + 1, Len(log))

\* An append that returns Ok: the batch, and all before it, is there for good.
AppendOk(ps) ==
    /\ up
    /\ log' = log \o ps
    /\ acked' = Len(log')
    /\ doubt' = {}
    /\ UNCHANGED up

\* One that returns Err, or that a crash interrupts: readers do not see it, but
\* a part of it may come back.
AppendFails(ps) ==
    /\ up
    /\ doubt' = doubt \cup {Rest(acked) \o ps}
    /\ up' \in BOOLEAN
    /\ UNCHANGED <<log, acked>>

Crash ==
    /\ up
    /\ up' = FALSE
    /\ UNCHANGED <<log, acked, doubt>>

\* Recovery returns the acknowledged records and after them a prefix of the
\* unacknowledged ones, or of one append in doubt: never a mixture, never a
\* record nobody appended.  It may settle the question or leave it open.
Recover ==
    /\ ~ up
    /\ up' = TRUE
    /\ \E d \in doubt \cup {Rest(acked)} : \E n \in 0 .. Len(d) :
         log' = SubSeq(log, 1, acked) \o SubSeq(d, 1, n)
    /\ \/ UNCHANGED <<acked, doubt>>
       \/ acked' = Len(log') /\ doubt' = {}

Next == \/ \E ps \in Batch : AppendOk(ps) \/ AppendFails(ps)
        \/ Crash
        \/ Recover

Spec == Init /\ [][Next]_vars
=============================================================================
