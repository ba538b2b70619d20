----------------------------- MODULE UnixfsGet ------------------------------
(***************************************************************************)
(* The status stream of unixfs::get (src/src/unixfs/get.rs): it walks a    *)
(* UnixFS DAG, fetches each pending block, writes file segments to the     *)
(* destination file and yields UnixfsStatus items.                         *)
(*                                                                         *)
(* The walker (rust_unixfs::walk) is not in this repository: what it       *)
(* yields for a DAG is an input, a sequence of visits (spec 4.E), chosen   *)
(* from Walks.  A file segment is abstracted to its length.  The stream is *)
(* lazy: each step runs from one yield (or the start) to the next, where   *)
(* the consumer may also drop it.  Fetch, write_all and sync_all may fail; *)
(* a failed write_all may have written part of its buffer.                 *)
(* total_size and written are usize: `size as usize` truncates the u64     *)
(* size, and `written += n` wraps in a release build, modulo UsizeMax.     *)
(***************************************************************************)
EXTENDS Naturals, Sequences, FiniteSets

CONSTANTS
    Walks,   \* the visit sequences the walker may produce
    NoSize,  \* total_size = None
    UsizeMax \* 2^(bits of usize) on the target

(* What walker.next returns for one block: ContinuedWalk's variants, or a *)
(* decoding error ("Error").                                               *)
VisitKinds == {"Bucket", "File", "Directory", "Symlink", "Error"}

Visits == [kind : VisitKinds, first : BOOLEAN, last : BOOLEAN,
           len : Nat, size : Nat]

ASSUME WalksAssumption == Walks \subseteq Seq(Visits) /\ NoSize \notin Nat

ASSUME UsizeAssumption == UsizeMax \in Nat \ {0}

VARIABLES
    walk,       \* the visits the walker yields for this DAG
    pos,        \* walker cursor: index of the next pending link
    pc,         \* where the stream is suspended
    written,    \* bytes written and synced so far
    totalSize,  \* total_size: NoSize or the size of the current file
    sink,       \* bytes in the destination file
    out         \* the statuses yielded so far

vars == <<walk, pos, pc, written, totalSize, sink, out>>

Status(kind) == [kind |-> kind, written |-> written, total |-> totalSize]

Terminal == {"Completed", "Failed"}

(* The current visit is a file segment still to be written. *)
Seg == walk[pos]

-----------------------------------------------------------------------------

Init ==
    /\ walk \in Walks
    /\ pos = 1
    /\ pc = "loop"
    /\ written = 0
    /\ totalSize = NoSize
    /\ sink = 0
    /\ out = <<>>

(* should_continue() is false: yield CompletedStatus. *)
Complete ==
    /\ pc = "loop"
    /\ pos > Len(walk)
    /\ out' = Append(out, Status("Completed"))
    /\ pc' = "end"
    /\ UNCHANGED <<walk, pos, written, totalSize, sink>>

(* get_block_with_session fails: yield FailedStatus and return. *)
FetchFails ==
    /\ pc = "loop"
    /\ pos <= Len(walk)
    /\ out' = Append(out, Status("Failed"))
    /\ pc' = "end"
    /\ UNCHANGED <<walk, pos, written, totalSize, sink>>

(* Mutant: file segments other than a file's first are ignored like a   *)
(* directory.                                                              *)
SkipVisitFiles ==
    /\ pc = "loop"
    /\ pos <= Len(walk)
    /\ \/ walk[pos].kind \in {"Bucket", "Directory", "Symlink"}
       \/ walk[pos].kind = "File" /\ ~walk[pos].first
    /\ pos' = pos + 1
    /\ UNCHANGED <<walk, pc, written, totalSize, sink, out>>

(* The block arrives and the walker yields a bucket, a directory or a      *)
(* symlink: nothing to do.                                                 *)
SkipVisit ==
    /\ pc = "loop"
    /\ pos <= Len(walk)
    /\ walk[pos].kind \in {"Bucket", "Directory", "Symlink"}
    /\ pos' = pos + 1
    /\ UNCHANGED <<walk, pc, written, totalSize, sink, out>>

(* Mutant: a decoding error is reported and the walk goes on. *)
DecodeFailsContinue ==
    /\ pc = "loop"
    /\ pos <= Len(walk)
    /\ walk[pos].kind = "Error"
    /\ out' = Append(out, Status("Failed"))
    /\ pos' = pos + 1
    /\ UNCHANGED <<walk, pc, written, totalSize, sink>>

(* The walker fails to decode the block: yield FailedStatus and return. *)
DecodeFails ==
    /\ pc = "loop"
    /\ pos <= Len(walk)
    /\ walk[pos].kind = "Error"
    /\ out' = Append(out, Status("Failed"))
    /\ pc' = "end"
    /\ UNCHANGED <<walk, pos, written, totalSize, sink>>

(* A file segment: the first of a file sets total_size and yields a        *)
(* ProgressStatus; then the segment is written.                            *)
FileSegment ==
    /\ pc = "loop"
    /\ pos <= Len(walk)
    /\ walk[pos].kind = "File"
    /\ pc' = "write"
    /\ IF walk[pos].first
       THEN /\ totalSize' = walk[pos].size % UsizeMax
            /\ out' = Append(out, [kind |-> "Progress", written |-> written,
                                   total |-> walk[pos].size % UsizeMax])
       ELSE UNCHANGED <<totalSize, out>>
    /\ UNCHANGED <<walk, pos, written, sink>>

(* Mutant: the loop assigns the segment's count instead of adding it.     *)
WriteChunkAssign ==
    /\ pc = "write"
    /\ Seg.len > 0
    /\ sink' = sink + Seg.len
    /\ written' = Seg.len % UsizeMax
    /\ out' = Append(out, [kind |-> "Progress", written |-> Seg.len % UsizeMax,
                           total |-> totalSize])
    /\ pc' = "after"
    /\ UNCHANGED <<walk, pos, totalSize>>

(* The write loop runs once for a non-empty segment (its first slice is    *)
(* the whole segment): write_all, sync_all, add n, yield ProgressStatus.   *)
WriteChunk ==
    /\ pc = "write"
    /\ Seg.len > 0
    /\ sink' = sink + Seg.len
    /\ written' = (written + Seg.len) % UsizeMax
    /\ out' = Append(out, [kind |-> "Progress",
                           written |-> (written + Seg.len) % UsizeMax,
                           total |-> totalSize])
    /\ pc' = "after"
    /\ UNCHANGED <<walk, pos, totalSize>>

(* write_all fails, having written part of the segment, or sync_all fails *)
(* after all of it: yield FailedStatus and return.                         *)
WriteFails ==
    /\ pc = "write"
    /\ Seg.len > 0
    /\ \E k \in 0..Seg.len : sink' = sink + k
    /\ out' = Append(out, Status("Failed"))
    /\ pc' = "end"
    /\ UNCHANGED <<walk, pos, written, totalSize>>

(* An empty segment: the write loop does not run. *)
EmptySegment ==
    /\ pc = "write"
    /\ Seg.len = 0
    /\ pc' = "after"
    /\ UNCHANGED <<walk, pos, written, totalSize, sink, out>>

(* Mutant: after the last segment of a file the cursor skips a link. *)
SegmentDoneSkip ==
    /\ pc = "after"
    /\ out' = IF Seg.last THEN Append(out, Status("Progress")) ELSE out
    /\ pos' = IF Seg.last THEN pos + 2 ELSE pos + 1
    /\ pc' = "loop"
    /\ UNCHANGED <<walk, written, totalSize, sink>>

(* After the loop: the last segment of a file yields one more status;     *)
(* then the walk goes on.                                                  *)
SegmentDone ==
    /\ pc = "after"
    /\ out' = IF Seg.last THEN Append(out, Status("Progress")) ELSE out
    /\ pos' = pos + 1
    /\ pc' = "loop"
    /\ UNCHANGED <<walk, written, totalSize, sink>>

(* The consumer drops the stream at one of its suspension points. *)
Drop ==
    /\ pc \in {"loop", "write", "after"}
    /\ pc' = "dropped"
    /\ UNCHANGED <<walk, pos, written, totalSize, sink, out>>

Next ==
    \/ Complete \/ FetchFails \/ SkipVisit \/ DecodeFails \/ FileSegment
    \/ WriteChunk \/ WriteFails \/ EmptySegment \/ SegmentDone \/ Drop

Spec == Init /\ [][Next]_vars

-----------------------------------------------------------------------------
(* Properties. *)

Statuses == [kind : {"Progress"} \cup Terminal, written : Nat,
             total : Nat \cup {NoSize}]

TypeOK ==
    /\ walk \in Walks
    /\ pos \in 1..(Len(walk) + 1)
    /\ pc \in {"loop", "write", "after", "end", "dropped"}
    /\ written \in Nat /\ sink \in Nat
    /\ totalSize \in Nat \cup {NoSize}
    /\ out \in Seq(Statuses)

(* The bytes of visit i of a walk, each named by its (visit, offset).    *)
SegBytes(w, i) == {<<i, j>> : j \in 1..w[i].len}

(* The bytes of the file segments among the first k visits of a walk.    *)
BytesUpTo(w, k) ==
    UNION {SegBytes(w, i) : i \in {i \in 1..k : w[i].kind = "File"}}

(* The bytes of all the file segments of a walk. *)
FileBytes(w) == Cardinality(BytesUpTo(w, Len(w)))

(* Spec 6: the stream yields exactly one CompletedStatus or FailedStatus,  *)
(* as its last item, unless the consumer drops it first; every error path  *)
(* of the loop (fetch, decode, write, sync) returns after its status.      *)
TerminalLast ==
    /\ \A i \in 1..Len(out) : out[i].kind \in Terminal => i = Len(out)
    /\ pc = "end" <=> (out # <<>> /\ out[Len(out)].kind \in Terminal)

(* Spec 8, round trip: a stream that completes has written every byte of   *)
(* every file segment of the walk, each exactly once, and reports that     *)
(* count, which is what the destination file holds.                        *)
CompletedWritesAll ==
    (out # <<>> /\ out[Len(out)].kind = "Completed")
        => /\ out[Len(out)].written = FileBytes(walk)
           /\ sink = FileBytes(walk)

(* Spec 4.E: written is the number of bytes successfully written and      *)
(* flushed -- the destination holds exactly that many until a write fails  *)
(* part-way, and never fewer -- across every file of the walk.             *)
WrittenIsFlushed ==
    /\ written <= sink
    /\ (\A i \in 1..Len(out) : out[i].kind # "Failed") => written = sink

(* Spec 4.E and 8: total_size, once set, never changes for the rest of the *)
(* stream.                                                                 *)
TotalSizeImmutable ==
    [][totalSize # NoSize => totalSize' = totalSize]_vars

=============================================================================
