-------------------------------- MODULE Wal ---------------------------------
(***************************************************************************)
(* The write-ahead log of crates/wal: one append-only file of checksummed  *)
(* frames, written through the operating system's page cache, with failed  *)
(* writes and syncs, process crashes and power losses at any point.        *)
(*                                                                         *)
(* The file is a sequence of cells; a frame takes several, so a write can  *)
(* stop inside one.  A cell names the frame it belongs to and its place in *)
(* it, which is what the magic, length and checksum tell a reader.         *)
(***************************************************************************)
EXTENDS Integers, Sequences, FiniteSets, SequencesExt

CONSTANTS Payload,          \* record payloads
          frame_len(_),     \* cells a frame with this payload takes
          MaxFrame,         \* frames larger than this are refused
          Batch,            \* sequences of payloads handed to append_batch
          Hole,             \* a cell the disk never received
          SyncErrorDropsDirty,  \* TRUE: after a failed sync the system forgets
                                \* the pages it could not write, as Linux does
          MaxAppends        \* bound: the number of append_batch calls

VARIABLES fs,     \* the file: [file, disk, dirty, cut, faulty]
          wal,    \* the handle: [pc, next_seq, committed_end, cursor, batch]
          calls,  \* append_batch calls so far
          log,    \* history: the payloads the handle vouches for
          acked,  \* history: how many of them must survive anything
          doubt   \* history: what a crash may leave after those

vars == <<fs, wal, calls, log, acked, doubt>>

-----------------------------------------------------------------------------
(* Frames *)

Frame(seq, p) == [n \in 1 .. frame_len(p) |-> [seq |-> seq, payload |-> p, part |-> n]]

\* encode_append for each payload, with consecutive sequence numbers.
encode(seq, ps) == FlattenSeq([n \in DOMAIN ps |-> Frame(seq + n - 1, ps[n])])

\* The frame that starts after offset cells of content, if it is whole.
next_record(content, offset) ==
    IF offset = Len(content) THEN [step |-> "End"]
    ELSE LET cell == content[offset + 1]
         IN  IF /\ cell # Hole
                /\ cell.part = 1
                /\ offset + frame_len(cell.payload) <= Len(content)
                /\ SubSeq(content, offset + 1, offset + frame_len(cell.payload))
                       = Frame(cell.seq, cell.payload)
             THEN [step |-> "Record", seq |-> cell.seq, payload |-> cell.payload]
             ELSE [step |-> "Broken"]

\* The scan of open: records with consecutive sequence numbers from 0 up to the
\* first End or Broken; a valid frame with another number is a SeqMismatch.
scan(content) ==
    LET after[n \in 0 .. Len(content) + 1] ==
          IF n = 0
          THEN [records |-> << >>, end |-> 0, step |-> "Record"]
          ELSE LET s == after[n - 1]
                   r == next_record(content, s.end)
               IN  IF s.step # "Record" THEN s
                   ELSE IF r.step # "Record" THEN [s EXCEPT !.step = r.step]
                   ELSE IF r.seq # Len(s.records)
                        THEN [s EXCEPT !.step = "SeqMismatch"]
                   ELSE [s EXCEPT !.records = Append(@, r.payload),
                                  !.end = @ + frame_len(r.payload)]
    IN  after[Len(content) + 1]

-----------------------------------------------------------------------------
(* The file system: file is what processes read, disk what a power loss      *)
(* leaves.  Dirty cells may reach the disk at any time and in any order.  A   *)
(* truncation reaches it before any later write does; cut is the length it    *)
(* leaves.  On a faulty one the set_len that cleans up may fail.              *)

MinOf(x, y) == IF x < y THEN x ELSE y
MaxOf(x, y) == IF x > y THEN x ELSE y

Base(f) == SubSeq(f.disk, 1, MinOf(f.cut, Len(f.disk)))

\* The disk after the pending truncation and the dirty cells in cells, with len
\* cells at least.
Flushed(f, cells, len) ==
    LET base == Base(f)
        end == CHOOSE m \in cells \cup {MaxOf(len, Len(base))} :
                   \A x \in cells \cup {MaxOf(len, Len(base))} : x <= m
    IN  [n \in 1 .. end |-> IF n \in cells THEN f.file[n]
                            ELSE IF n <= Len(base) THEN base[n] ELSE Hole]

OnDisk(f, content) == [f EXCEPT !.disk = content, !.cut = Len(content)]

\* What may be on the disk if the power fails now.
Survivors(f) == {f.disk} \cup {Flushed(f, cells, 0) : cells \in SUBSET f.dirty}

write_all(f, at, cells) ==
    [f EXCEPT !.file = SubSeq(@, 1, at) \o cells \o SubSeq(@, at + Len(cells) + 1, Len(@)),
              !.dirty = @ \cup (at + 1 .. at + Len(cells))]

set_len(f, len) ==
    [f EXCEPT !.file = SubSeq(@, 1, len), !.dirty = @ \cap (1 .. len), !.cut = MinOf(@, len)]

\* A sync that succeeds writes every dirty cell and the length.
sync(f) ==
    [OnDisk(f, Flushed(f, f.dirty, Len(f.file))) EXCEPT !.dirty = {}]

\* One that fails has written some of them.
SyncFailures(f) ==
    {[g EXCEPT !.dirty = IF SyncErrorDropsDirty THEN {} ELSE @] :
        g \in {f} \cup {OnDisk(f, Flushed(f, cells, 0)) : cells \in SUBSET f.dirty}}

-----------------------------------------------------------------------------
(* The log *)

Init ==
    /\ fs \in [file : {<< >>}, disk : {<< >>}, dirty : {{}}, cut : {0}, faulty : BOOLEAN]
    /\ wal = [pc |-> "down", next_seq |-> 0, committed_end |-> 0, cursor |-> 0,
              batch |-> << >>]
    /\ calls = 0
    /\ log = << >> /\ acked = 0 /\ doubt = {}

Unacked == SubSeq(log, acked + 1, Len(log))

\* The batch in flight may turn up after a crash, behind the unacknowledged
\* records already recovered.
Doubted == IF wal.pc \in {"sync", "cleanup"} THEN doubt \cup {Unacked \o wal.batch}
                                             ELSE doubt

Opened(len, seq) ==
    [pc |-> "idle", next_seq |-> seq, committed_end |-> len, cursor |-> len,
     batch |-> << >>]

\* Wal::open.  A tail that does not verify is cut off and the file synced; a
\* file that verifies to its end is taken as it is.
Open ==
    LET s == scan(fs.file)
    IN  /\ wal.pc = "down"
        /\ s.step # "SeqMismatch"
        /\ wal' = Opened(s.end, Len(s.records))
        /\ log' = s.records
        /\ IF s.end < Len(fs.file)
           THEN fs' = sync(set_len(fs, s.end)) /\ acked' = Len(s.records) /\ doubt' = {}
           ELSE UNCHANGED <<fs, acked, doubt>>
        /\ UNCHANGED calls

\* open returns an error: the tail could not be cut off or synced.
OpenFails ==
    LET s == scan(fs.file)
    IN  /\ wal.pc = "down"
        /\ s.step # "SeqMismatch"
        /\ s.end < Len(fs.file)
        /\ \/ UNCHANGED fs
           \/ fs' \in SyncFailures(set_len(fs, s.end))
        /\ UNCHANGED <<wal, calls, log, acked, doubt>>

\* open refuses the file for good.
OpenRefused ==
    LET s == scan(fs.file)
    IN  /\ wal.pc \in {"down", "refused"}
        /\ s.step = "SeqMismatch"
        /\ wal' = [wal EXCEPT !.pc = "refused"]
        /\ UNCHANGED <<fs, calls, log, acked, doubt>>

\* append_batch up to the end of write_all, which may stop anywhere.
AppendWrite ==
    \E ps \in Batch :
        LET buf == encode(wal.next_seq, ps)
        IN  /\ wal.pc = "idle"
            /\ calls < MaxAppends
            /\ ps # << >>
            /\ \A n \in DOMAIN ps : frame_len(ps[n]) <= MaxFrame     \* PayloadTooLarge
            /\ \E n \in 0 .. Len(buf) :
                 /\ fs' = write_all(fs, wal.cursor, SubSeq(buf, 1, n))
                 /\ wal' = [wal EXCEPT !.pc = IF n = Len(buf) THEN "sync" ELSE "cleanup",
                                       !.cursor = @ + n, !.batch = ps]
            /\ calls' = calls + 1
            /\ UNCHANGED <<log, acked, doubt>>
\* Deviation: the records are acknowledged without a sync.
Bug_append_without_sync ==
    /\ wal.pc = "sync"
    /\ wal' = [wal EXCEPT !.pc = "idle", !.batch = << >>,
                   !.committed_end = @ + Len(encode(wal.next_seq, wal.batch)),
                   !.next_seq = @ + Len(wal.batch)]
    /\ log' = log \o wal.batch
    /\ acked' = Len(log')
    /\ doubt' = {}
    /\ UNCHANGED <<fs, calls>>

\* Deviation: a batch takes one sequence number.
Bug_append_one_seq ==
    /\ wal.pc = "sync"
    /\ fs' = sync(fs)
    /\ wal' = [wal EXCEPT !.pc = "idle", !.batch = << >>,
                   !.committed_end = @ + Len(encode(wal.next_seq, wal.batch)),
                   !.next_seq = @ + 1]
    /\ log' = log \o wal.batch
    /\ acked' = Len(log')
    /\ doubt' = {}
    /\ UNCHANGED calls

\* append_batch after sync_data succeeded: the records are acknowledged.
AppendSync ==
    /\ wal.pc = "sync"
    /\ fs' = sync(fs)
    /\ wal' = [wal EXCEPT !.pc = "idle", !.batch = << >>,
                   !.committed_end = @ + Len(encode(wal.next_seq, wal.batch)),
                   !.next_seq = @ + Len(wal.batch)]
    /\ log' = log \o wal.batch
    /\ acked' = Len(log')
    /\ doubt' = {}
    /\ UNCHANGED calls

AppendSyncFails ==
    /\ wal.pc = "sync"
    /\ fs' \in SyncFailures(fs)
    /\ wal' = [wal EXCEPT !.pc = "cleanup"]
    /\ UNCHANGED <<calls, log, acked, doubt>>
\* Deviation: the error path seeks back without truncating.
Bug_cleanup_without_truncate ==
    /\ wal.pc = "cleanup"
    /\ wal' = [wal EXCEPT !.pc = "idle", !.cursor = wal.committed_end, !.batch = << >>]
    /\ doubt' = Doubted
    /\ UNCHANGED <<fs, calls, log, acked>>

\* The error path: truncate, whose failure is ignored, seek back, return Err.
AppendCleanup ==
    /\ wal.pc = "cleanup"
    /\ \/ fs' = set_len(fs, wal.committed_end)
       \/ fs.faulty /\ UNCHANGED fs
    /\ wal' = [wal EXCEPT !.pc = "idle", !.cursor = wal.committed_end, !.batch = << >>]
    /\ doubt' = Doubted
    /\ UNCHANGED <<calls, log, acked>>
\* Deviation: a dropped stream leaves the cursor where it read.
Bug_cursor_left(w, read) == read

\* A stream reads records from the start of the file; however far it gets, its
\* Drop puts the cursor back.
restore_cursor(w, read) == w.committed_end

StreamRecords ==
    /\ wal.pc = "idle"
    /\ \E read \in 0 .. Len(fs.file) :
         wal' = [wal EXCEPT !.cursor = restore_cursor(wal, read)]
    /\ UNCHANGED <<fs, calls, log, acked, doubt>>

\* The process dies; the page cache does not.
ProcessCrash ==
    /\ wal.pc \notin {"down", "refused"}
    /\ wal' = [wal EXCEPT !.pc = "down", !.batch = << >>]
    /\ doubt' = Doubted
    /\ UNCHANGED <<fs, calls, log, acked>>

PowerLoss ==
    /\ wal.pc # "refused"
    /\ \E content \in Survivors(fs) :
         fs' = [OnDisk(fs, content) EXCEPT !.file = content, !.dirty = {}]
    /\ wal' = [wal EXCEPT !.pc = "down", !.batch = << >>]
    /\ doubt' = Doubted
    /\ UNCHANGED <<calls, log, acked>>

Next == \/ Open \/ OpenFails \/ OpenRefused
        \/ AppendWrite \/ AppendSync \/ AppendSyncFails \/ AppendCleanup
        \/ StreamRecords \/ ProcessCrash \/ PowerLoss

Spec == Init /\ [][Next]_vars

-----------------------------------------------------------------------------
(* Properties *)

Cell == [seq : Nat, payload : Payload, part : Nat \ {0}] \cup {Hole}

\* Files are cells, dirty cells are cells of the file and an open handle's
\* offsets lie inside the file.
TypeOK ==
    /\ fs.file \in Seq(Cell) /\ fs.disk \in Seq(Cell)
    /\ fs.dirty \subseteq 1 .. Len(fs.file)
    /\ fs.cut \in 0 .. Len(fs.disk)
    /\ wal.pc \in {"down", "refused", "idle", "sync", "cleanup"}
    /\ wal.pc \in {"idle", "sync", "cleanup"} =>
         /\ wal.next_seq = Len(log)
         /\ wal.committed_end <= Len(fs.file) /\ wal.cursor \in wal.committed_end .. Len(fs.file)
    /\ log \in Seq(Payload) /\ acked \in 0 .. Len(log)

\* "an acknowledged seq survives a crash": whatever subset of the cached cells
\* power losses have kept, a scan of the disk, and of the file as a process
\* finds it, returns every acknowledged record in its place.
AckedSurvive ==
    \A content \in {fs.disk, fs.file} :
        IsPrefix(SubSeq(log, 1, acked), scan(content).records)

\* read_records through the open handle returns exactly the records the handle
\* vouches for, and never ChangedWhileOpen, however many appends have failed,
\* if their clean-up can truncate.
ReadBack ==
    wal.pc = "idle" /\ ~ fs.faulty =>
        LET s == scan(fs.file)
        IN  s.records = log /\ s.step = "End" /\ s.end = wal.committed_end

\* The log never makes itself unreadable: open does not meet a wrong sequence
\* number ("another writer touched the log") without another writer, unless the
\* file system could not truncate.
NeverRefused == wal.pc = "refused" => fs.faulty

\* The log implements the durable log its callers program against, on every file
\* system that can truncate; on a faulty one the mapping claims nothing.
DurableLogSpec ==
    INSTANCE DurableLog WITH
        log   <- IF fs.faulty THEN << >> ELSE log,
        acked <- IF fs.faulty THEN 0 ELSE acked,
        doubt <- IF fs.faulty THEN {} ELSE doubt,
        up    <- ~ fs.faulty /\ wal.pc \in {"idle", "sync", "cleanup"}
Refines == DurableLogSpec!Spec
=============================================================================
