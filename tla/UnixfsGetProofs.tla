--------------------------- MODULE UnixfsGetProofs ---------------------------
(***************************************************************************)
(* Proofs about the status stream of unixfs::get (UnixfsGet.tla): its      *)
(* statuses stay typed, the terminal status is the last item yielded, and  *)
(* -- as long as the walk cannot write more bytes than usize counts --     *)
(* written is exactly the bytes flushed to the file until a write fails.   *)
(***************************************************************************)
EXTENDS UnixfsGet, SequenceTheorems, FiniteSetTheorems, TLAPS

(* While the stream is inside the write loop or just after it, the cursor  *)
(* is on a file segment of the walk.                                       *)
OnSegment ==
    pc \in {"write", "after"} => pos \in 1..Len(walk) /\ walk[pos].kind = "File"

(* Inductive invariant for the typing and TerminalLast. *)
IInv == TypeOK /\ TerminalLast /\ OnSegment

(* No segment of any walk is longer than B bytes, and no walk has so many  *)
(* blocks that B bytes each reach usize::MAX.                              *)
FitsUsize(B) ==
    /\ B \in Nat
    /\ \A w \in Walks : /\ \A i \in 1..Len(w) : w[i].len <= B
                        /\ Len(w) * B < UsizeMax

(* The destination holds at most B bytes per block visited so far.         *)
SinkBound(B) ==
    /\ pc \in {"loop", "write"} => sink <= (pos - 1) * B
    /\ pc = "after" => sink <= pos * B

(* written never runs ahead of the file, and falls behind only once a      *)
(* Failed status is out.                                                   *)
WrittenTracksSink ==
    /\ written <= sink
    /\ written = sink \/ \E i \in 1..Len(out) : out[i].kind = "Failed"

(* Inductive invariant for WrittenIsFlushed. *)
FlushInv(B) == IInv /\ WrittenTracksSink /\ SinkBound(B)

-----------------------------------------------------------------------------
(* TerminalLast for a given sequence of statuses and suspension point. *)
TLOf(s, p) ==
    /\ \A i \in 1..Len(s) : s[i].kind \in Terminal => i = Len(s)
    /\ p = "end" <=> (s # <<>> /\ s[Len(s)].kind \in Terminal)

(* Appending a status to the stream. *)
LEMMA AppendStatus ==
    ASSUME NEW s \in Seq(Statuses), NEW e \in Statuses
    PROVE  /\ Append(s, e) \in Seq(Statuses)
           /\ Len(Append(s, e)) = Len(s) + 1
           /\ \A i \in 1..Len(s) : Append(s, e)[i] = s[i]
           /\ Append(s, e)[Len(s) + 1] = e
BY AppendProperties

(* A stream with no terminal status stays so until a terminal one is      *)
(* yielded, and a terminal status yielded last moves the stream to "end".  *)
LEMMA TLAppend ==
    ASSUME NEW s \in Seq(Statuses), \A i \in 1..Len(s) : s[i].kind \notin Terminal,
           NEW e \in Statuses, NEW p, p = "end" <=> e.kind \in Terminal
    PROVE  TLOf(Append(s, e), p)
BY AppendStatus DEF TLOf

(* A stream with no terminal status that is not at "end". *)
LEMMA TLLive ==
    ASSUME NEW s \in Seq(Statuses), \A i \in 1..Len(s) : s[i].kind \notin Terminal,
           NEW p, p # "end"
    PROVE  TLOf(s, p)
BY DEF TLOf

(* Before the stream returns, it has yielded no terminal status. *)
LEMMA LiveNoTerminal ==
    IInv /\ pc # "end" => \A i \in 1..Len(out) : out[i].kind \notin Terminal
BY DEF IInv, TerminalLast, TypeOK

(* The status the stream yields from its current counters. *)
LEMMA StatusType ==
    ASSUME TypeOK, NEW k \in {"Progress"} \cup Terminal
    PROVE  Status(k) \in Statuses /\ Status(k).kind = k
BY DEF Status, Statuses, TypeOK

(* The visits of the walk are typed. *)
LEMMA WalkType ==
    ASSUME TypeOK
    PROVE  /\ walk \in Seq(Visits)
           /\ \A i \in 1..Len(walk) : walk[i] \in Visits
BY WalksAssumption DEF TypeOK

LEMMA InitIInv == Init => IInv
<1> SUFFICES ASSUME Init PROVE IInv
  OBVIOUS
<1>1. walk \in Seq(Visits)
  BY WalksAssumption DEF Init
<1>. QED
  BY <1>1 DEF Init, IInv, TypeOK, TerminalLast, OnSegment

(* Every step of the stream keeps IInv: one case per action, each showing *)
(* the status yielded, if any, is typed and keeps TerminalLast.            *)
LEMMA NextIInv == IInv /\ [Next]_vars => IInv'
<1> SUFFICES ASSUME IInv, [Next]_vars PROVE IInv'
  OBVIOUS
<1>0. /\ TypeOK /\ OnSegment /\ out \in Seq(Statuses)
      /\ walk \in Seq(Visits) /\ \A i \in 1..Len(walk) : walk[i] \in Visits
      /\ UsizeMax \in Nat \ {0}
  BY WalkType, UsizeAssumption DEF IInv, TypeOK
<1>a. TerminalLast' <=> TLOf(out', pc')
  BY DEF TerminalLast, TLOf
<1>b. pc \in {"loop", "write", "after"}
      => \A i \in 1..Len(out) : out[i].kind \notin Terminal
  BY LiveNoTerminal
<1>1. CASE Complete \/ FetchFails \/ DecodeFails
  <2> DEFINE k == IF Complete THEN "Completed" ELSE "Failed"
  <2>1. /\ out' = Append(out, Status(k)) /\ pc' = "end"
        /\ UNCHANGED <<walk, pos, written, totalSize, sink>>
        /\ pc = "loop"
    BY <1>1 DEF Complete, FetchFails, DecodeFails
  <2>2. Status(k) \in Statuses /\ Status(k).kind \in Terminal
    BY <1>0, StatusType DEF Terminal
  <2>3. \A i \in 1..Len(out) : out[i].kind \notin Terminal
    BY <1>b, <2>1
  <2>4. TLOf(Append(out, Status(k)), "end")
    BY <1>0, <2>2, <2>3, TLAppend
  <2>5. Append(out, Status(k)) \in Seq(Statuses)
    BY <1>0, <2>2, AppendStatus
  <2>. QED
    BY <1>0, <1>a, <2>1, <2>4, <2>5 DEF IInv, TypeOK, OnSegment
<1>2. CASE SkipVisit \/ EmptySegment \/ Drop
  <2>1. /\ UNCHANGED <<walk, written, totalSize, sink, out>>
        /\ pc \in {"loop", "write", "after"}
        /\ pc' \in {"loop", "after", "dropped"}
        /\ pos' \in 1..(Len(walk) + 1)
        /\ pc' = "after" => pos' = pos /\ pc = "write"
    BY <1>0, <1>2 DEF SkipVisit, EmptySegment, Drop, TypeOK
  <2>2. TLOf(out, pc')
    BY <1>0, <1>b, <2>1, TLLive
  <2>. QED
    BY <1>0, <1>a, <2>1, <2>2 DEF IInv, TypeOK, OnSegment
<1>3. CASE FileSegment
  <2> DEFINE e == [kind |-> "Progress", written |-> written,
                   total |-> walk[pos].size % UsizeMax]
  <2>1. /\ pc' = "write" /\ UNCHANGED <<walk, pos, written, sink>>
        /\ pc = "loop" /\ pos \in 1..Len(walk) /\ walk[pos].kind = "File"
        /\ totalSize' = IF walk[pos].first THEN walk[pos].size % UsizeMax
                         ELSE totalSize
        /\ out' = IF walk[pos].first THEN Append(out, e) ELSE out
    BY <1>0, <1>3 DEF FileSegment, TypeOK
  <2>2. walk[pos].size % UsizeMax \in Nat
    BY <1>0, <2>1 DEF Visits
  <2>3. e \in Statuses
    BY <1>0, <2>2 DEF Statuses, TypeOK
  <2>4. \A i \in 1..Len(out) : out[i].kind \notin Terminal
    BY <1>b, <2>1
  <2>c. /\ out \in Seq(Statuses)
        /\ ("write" = "end") <=> (e.kind \in Terminal)
        /\ "write" # "end"
    BY <1>0 DEF Terminal
  <2>d. TLOf(Append(out, e), "write")
    BY <2>3, <2>4, <2>c, TLAppend
  <2>e. TLOf(out, "write")
    BY <2>4, <2>c, TLLive
  <2>5. TLOf(Append(out, e), "write") /\ TLOf(out, "write")
    BY <2>d, <2>e
  <2>6. Append(out, e) \in Seq(Statuses)
    BY <1>0, <2>3, AppendStatus
  <2>. QED
    BY <1>0, <1>a, <2>1, <2>2, <2>5, <2>6 DEF IInv, TypeOK, OnSegment
<1>4. CASE WriteChunk
  <2> DEFINE e == [kind |-> "Progress", written |-> (written + Seg.len) % UsizeMax,
                   total |-> totalSize]
  <2>1. /\ pc = "write" /\ pc' = "after" /\ UNCHANGED <<walk, pos, totalSize>>
        /\ out' = Append(out, e)
        /\ written' = (written + Seg.len) % UsizeMax
        /\ sink' = sink + Seg.len
    BY <1>4 DEF WriteChunk
  <2>2. walk[pos] \in Visits /\ pos \in 1..Len(walk) /\ walk[pos].kind = "File"
    BY <1>0, <2>1 DEF OnSegment
  <2>3. Seg.len \in Nat /\ written \in Nat /\ sink \in Nat
    BY <1>0, <2>2 DEF Seg, Visits, TypeOK
  <2>a. (written + Seg.len) % UsizeMax \in Nat
    BY <1>0, <2>3
  <2>f. totalSize \in Nat \cup {NoSize}
    BY <1>0 DEF TypeOK
  <2>g. e \in Statuses
    BY <2>a, <2>f DEF Statuses
  <2>h. written' \in Nat /\ sink' \in Nat
    BY <2>1, <2>3, <2>a
  <2>4. e \in Statuses /\ written' \in Nat /\ sink' \in Nat
    BY <2>g, <2>h
  <2>5. \A i \in 1..Len(out) : out[i].kind \notin Terminal
    BY <1>b, <2>1
  <2>b. ("after" = "end") <=> (e.kind \in Terminal)
    BY DEF Terminal
  <2>c. out \in Seq(Statuses) /\ e \in Statuses
    BY <1>0, <2>4
  <2>6. TLOf(Append(out, e), "after")
    BY <2>c, <2>5, <2>b, TLAppend
  <2>7. Append(out, e) \in Seq(Statuses)
    BY <1>0, <2>4, AppendStatus
  <2>. QED
    BY <1>0, <1>a, <2>1, <2>2, <2>4, <2>6, <2>7 DEF IInv, TypeOK, OnSegment
<1>5. CASE WriteFails
  <2>1. /\ pc = "write" /\ pc' = "end" /\ UNCHANGED <<walk, pos, written, totalSize>>
        /\ out' = Append(out, Status("Failed"))
        /\ \E k \in 0..Seg.len : sink' = sink + k
    BY <1>5 DEF WriteFails
  <2>2. walk[pos] \in Visits /\ pos \in 1..Len(walk)
    BY <1>0, <2>1 DEF OnSegment
  <2>3. sink' \in Nat
    BY <1>0, <2>1, <2>2 DEF Seg, Visits, TypeOK
  <2>4. Status("Failed") \in Statuses /\ Status("Failed").kind \in Terminal
    BY <1>0, StatusType DEF Terminal
  <2>5. \A i \in 1..Len(out) : out[i].kind \notin Terminal
    BY <1>b, <2>1
  <2>6. TLOf(Append(out, Status("Failed")), "end")
    BY <1>0, <2>4, <2>5, TLAppend
  <2>7. Append(out, Status("Failed")) \in Seq(Statuses)
    BY <1>0, <2>4, AppendStatus
  <2>. QED
    BY <1>0, <1>a, <2>1, <2>3, <2>6, <2>7 DEF IInv, TypeOK, OnSegment
<1>6. CASE SegmentDone
  <2>1. /\ pc = "after" /\ pc' = "loop" /\ pos' = pos + 1
        /\ UNCHANGED <<walk, written, totalSize, sink>>
        /\ out' = IF Seg.last THEN Append(out, Status("Progress")) ELSE out
    BY <1>6 DEF SegmentDone
  <2>2. pos \in 1..Len(walk)
    BY <1>0, <2>1 DEF OnSegment
  <2>3. Status("Progress") \in Statuses /\ Status("Progress").kind = "Progress"
    BY <1>0, StatusType
  <2>4. \A i \in 1..Len(out) : out[i].kind \notin Terminal
    BY <1>b, <2>1
  <2>5. TLOf(Append(out, Status("Progress")), "loop") /\ TLOf(out, "loop")
    BY <1>0, <2>3, <2>4, TLAppend, TLLive DEF Terminal
  <2>6. Append(out, Status("Progress")) \in Seq(Statuses)
    BY <1>0, <2>3, AppendStatus
  <2>. QED
    BY <1>0, <1>a, <2>1, <2>2, <2>5, <2>6 DEF IInv, TypeOK, OnSegment
<1>7. CASE UNCHANGED vars
  BY <1>7 DEF vars, IInv, TypeOK, TerminalLast, OnSegment
<1>. QED
  BY <1>1, <1>2, <1>3, <1>4, <1>5, <1>6, <1>7 DEF Next

(* The stream's state and its statuses stay typed, for every walk the      *)
(* walker may produce and every usize width.                               *)
THEOREM TypeCorrect == Spec => []TypeOK
<1>1. IInv => TypeOK
  BY DEF IInv
<1>. QED
  BY <1>1, InitIInv, NextIInv, PTL DEF Spec

(* Spec 6: whatever fails -- fetch, decode, write_all or sync_all -- the   *)
(* stream yields exactly one terminal status, as its last item, and stops. *)
THEOREM TerminalLastInvariant == Spec => []TerminalLast
<1>1. IInv => TerminalLast
  BY DEF IInv
<1>. QED
  BY <1>1, InitIInv, NextIInv, PTL DEF Spec

-----------------------------------------------------------------------------
(* A value below the modulus is its own remainder. *)
LEMMA ModSmall ==
    ASSUME NEW x \in Nat, NEW u \in Nat \ {0}, x < u
    PROVE  x % u = x
OBVIOUS

(* Yielding a status keeps every Failed status already out. *)
LEMMA FailedKept ==
    ASSUME NEW s \in Seq(Statuses), NEW e,
           \E i \in 1..Len(s) : s[i].kind = "Failed"
    PROVE  \E i \in 1..Len(Append(s, e)) : Append(s, e)[i].kind = "Failed"
<1>1. s \in Seq(Statuses \cup {e})
  BY SeqMonotonic
<1>2. /\ Len(Append(s, e)) = Len(s) + 1
      /\ \A i \in 1..Len(s) : Append(s, e)[i] = s[i]
  BY <1>1, AppendProperties
<1>. QED
  BY <1>2

LEMMA FlushInit ==
    ASSUME NEW B, FitsUsize(B)
    PROVE  Init => FlushInv(B)
BY InitIInv DEF Init, FlushInv, WrittenTracksSink, SinkBound, FitsUsize

(* Every step keeps FlushInv(B): only WriteChunk adds to written, and it   *)
(* runs while no Failed status is out, below the usize bound.              *)
LEMMA FlushNext ==
    ASSUME NEW B, FitsUsize(B)
    PROVE  FlushInv(B) /\ [Next]_vars => FlushInv(B)'
<1> SUFFICES ASSUME FlushInv(B), [Next]_vars PROVE FlushInv(B)'
  OBVIOUS
<1>0. /\ IInv' /\ WrittenTracksSink
      /\ B \in Nat /\ UsizeMax \in Nat \ {0}
      /\ walk \in Walks /\ out \in Seq(Statuses)
      /\ pos \in 1..(Len(walk) + 1) /\ written \in Nat /\ sink \in Nat
      /\ Len(walk) * B < UsizeMax
      /\ \A i \in 1..Len(walk) : walk[i].len <= B
  BY NextIInv, UsizeAssumption DEF FlushInv, FitsUsize, IInv, TypeOK
<1>n. /\ B \in Nat /\ UsizeMax \in Nat \ {0} /\ Len(walk) \in Nat
      /\ Len(walk) * B < UsizeMax /\ written \in Nat /\ sink \in Nat
      /\ pos \in 1..(Len(walk) + 1)
  BY <1>0, LenProperties
<1>1. SinkBound(B)
  BY DEF FlushInv
<1>b. pc \in {"loop", "write", "after"} => written = sink
  <2>1. pc \in {"loop", "write", "after"}
        => \A i \in 1..Len(out) : out[i].kind \notin Terminal
    BY LiveNoTerminal DEF FlushInv
  <2>. QED
    BY <1>0, <2>1 DEF WrittenTracksSink, Terminal
<1>2. CASE Complete \/ FetchFails \/ DecodeFails
  <2> DEFINE k == IF Complete THEN "Completed" ELSE "Failed"
  <2>1. /\ out' = Append(out, Status(k)) /\ pc' = "end"
        /\ UNCHANGED <<written, sink>>
    BY <1>2 DEF Complete, FetchFails, DecodeFails
  <2>2. Status(k) \in Statuses
    BY <1>0, StatusType DEF Terminal, FlushInv, IInv
  <2>3. WrittenTracksSink'
    BY <1>0, <2>1, <2>2, FailedKept DEF WrittenTracksSink
  <2>. QED
    BY <1>0, <2>1, <2>3 DEF FlushInv, SinkBound
<1>3. CASE SkipVisit \/ Drop
  <2>1. /\ UNCHANGED <<written, sink, out>>
        /\ pc' \in {"loop", "dropped"}
        /\ pc' = "loop" => pc = "loop" /\ pos' = pos + 1
    BY <1>3 DEF SkipVisit, Drop
  <2>2. pc' = "loop" => sink <= (pos' - 1) * B
    <3>1. pc' = "loop" => sink <= (pos - 1) * B /\ pos' = pos + 1
      BY <1>1, <2>1 DEF SinkBound
    <3>2. (pos - 1) * B <= pos * B
      BY <1>n
    <3>. QED
      BY <1>n, <3>1, <3>2
  <2>. QED
    BY <1>0, <2>1, <2>2 DEF FlushInv, SinkBound, WrittenTracksSink
<1>4. CASE EmptySegment \/ FileSegment
  <2>1. /\ UNCHANGED <<written, sink, pos>>
        /\ \/ pc = "write" /\ pc' = "after"
           \/ pc = "loop" /\ pc' = "write"
        /\ \/ out' = out
           \/ \E e \in {[kind |-> "Progress", written |-> written,
                          total |-> walk[pos].size % UsizeMax]} :
                 out' = Append(out, e)
    BY <1>4 DEF EmptySegment, FileSegment
  <2>2. pc = "write" => sink <= pos * B
    <3>1. pc = "write" => sink <= (pos - 1) * B
      BY <1>1 DEF SinkBound
    <3>2. (pos - 1) * B <= pos * B
      BY <1>n
    <3>. QED
      BY <1>n, <3>1, <3>2
  <2>a. written = sink /\ written \in Nat
    <3>1. pc \in {"loop", "write", "after"}
      BY <2>1
    <3>. QED
      BY <1>0, <1>b, <3>1 DEF FlushInv, IInv, TypeOK
  <2>3. WrittenTracksSink'
    BY <2>1, <2>a DEF WrittenTracksSink
  <2>. QED
    BY <1>0, <1>1, <2>1, <2>2, <2>3 DEF FlushInv, SinkBound
<1>5. CASE WriteChunk
  <2>1. /\ pc = "write" /\ pc' = "after" /\ pos' = pos
        /\ written' = (written + walk[pos].len) % UsizeMax
        /\ sink' = sink + walk[pos].len
    BY <1>5 DEF WriteChunk, Seg
  <2>2. pos \in 1..Len(walk) /\ walk[pos].len \in Nat /\ walk[pos].len <= B
    <3>1. pos \in 1..Len(walk) /\ walk[pos] \in Visits
      BY <1>0, <2>1, WalksAssumption DEF FlushInv, IInv, OnSegment
    <3>. QED
      BY <1>0, <3>1 DEF Visits
  <2>3. sink <= (pos - 1) * B
    BY <1>1, <2>1 DEF SinkBound
  <2>a. pos * B <= Len(walk) * B
    BY <1>n, <2>2
  <2>4. sink + walk[pos].len <= pos * B
    BY <1>n, <2>2, <2>3
  <2>b. written = sink
    BY <1>b, <2>1
  <2>5. written + walk[pos].len < UsizeMax
    <3>1. written + walk[pos].len = sink + walk[pos].len
      BY <2>b
    <3>2. sink + walk[pos].len <= Len(walk) * B
      <4>1. /\ pos * B \in Nat /\ Len(walk) * B \in Nat
            /\ sink + walk[pos].len \in Nat
        BY <1>n, <2>2
      <4>. QED
        BY <4>1, <2>a, <2>4
    <3>3. Len(walk) * B < UsizeMax
      BY <1>n
    <3>. QED
      BY <1>n, <2>2, <3>1, <3>2, <3>3
  <2>6. written' = sink'
    <3>1. (written + walk[pos].len) % UsizeMax = written + walk[pos].len
      <4>1. written + walk[pos].len \in Nat
        BY <1>n, <2>2
      <4>. QED
        BY <4>1, <1>n, <2>5, ModSmall
    <3>. QED
      BY <2>1, <2>b, <3>1
  <2>c. SinkBound(B)'
    BY <2>1, <2>4 DEF SinkBound
  <2>d. WrittenTracksSink'
    BY <1>n, <2>1, <2>6 DEF WrittenTracksSink
  <2>. QED
    BY <1>0, <2>c, <2>d DEF FlushInv
<1>6. CASE WriteFails
  <2>1. /\ pc' = "end" /\ UNCHANGED written
        /\ out' = Append(out, Status("Failed"))
        /\ \E k \in Nat : sink' = sink + k
    BY <1>6 DEF WriteFails
  <2>2. Status("Failed") \in Statuses /\ Status("Failed").kind = "Failed"
    BY StatusType DEF FlushInv, IInv, Terminal
  <2>3. Append(out, Status("Failed"))[Len(out) + 1].kind = "Failed"
        /\ Len(out) + 1 \in 1..Len(Append(out, Status("Failed")))
    BY <1>0, <2>2, AppendStatus
  <2>. QED
    BY <1>0, <2>1, <2>3 DEF FlushInv, SinkBound, WrittenTracksSink
<1>7. CASE SegmentDone
  <2>1. /\ pc = "after" /\ pc' = "loop" /\ pos' = pos + 1
        /\ UNCHANGED <<written, sink>>
        /\ (out' = out \/ out' = Append(out, Status("Progress")))
    BY <1>7 DEF SegmentDone
  <2>2. Status("Progress") \in Statuses
    BY StatusType DEF FlushInv, IInv
  <2>3. WrittenTracksSink'
    BY <1>0, <2>1, <2>2, FailedKept DEF WrittenTracksSink
  <2>. QED
    BY <1>0, <1>1, <2>1, <2>3 DEF FlushInv, SinkBound
<1>8. CASE UNCHANGED vars
  BY <1>0, <1>1, <1>8 DEF vars, FlushInv, SinkBound, WrittenTracksSink
<1>. QED
  BY <1>2, <1>3, <1>4, <1>5, <1>6, <1>7, <1>8 DEF Next

(* Spec 4.E: written is exactly the bytes written and flushed to the file  *)
(* until a write fails, provided no walk can write usize::MAX bytes (true  *)
(* of any real walk on a 64-bit build; the unixfs_usize_wrap run shows the *)
(* wrap once a walk can).                                                  *)
THEOREM WrittenIsFlushedInvariant ==
    ASSUME NEW B, FitsUsize(B)
    PROVE  Spec => []WrittenIsFlushed
<1>1. FlushInv(B) => WrittenIsFlushed
  BY DEF FlushInv, WrittenTracksSink, WrittenIsFlushed
<1>2. Init => FlushInv(B)
  BY FlushInit
<1>3. FlushInv(B) /\ [Next]_vars => FlushInv(B)'
  BY FlushNext
<1>. QED
  BY <1>1, <1>2, <1>3, PTL DEF Spec

-----------------------------------------------------------------------------
(* Counting the bytes of a walk.  FileBytes is a cardinality, so what it   *)
(* is for a longer prefix follows from the prefix before it and one visit, *)
(* without induction over the walk.                                        *)

(* A visit of n bytes has n distinct (visit, offset) pairs. *)
LEMMA SegBytesCard ==
    ASSUME NEW w, NEW i, NEW n \in Nat, w[i].len = n
    PROVE  /\ IsFiniteSet(SegBytes(w, i))
           /\ Cardinality(SegBytes(w, i)) = n
<1>1. SegBytes(w, i) = {i} \X (1..n)
  BY DEF SegBytes
<1>2. IsFiniteSet({i}) /\ Cardinality({i}) = 1
  BY FS_Singleton
<1>3. IsFiniteSet(1..n) /\ Cardinality(1..n) = n
  BY FS_Interval
<1>4. /\ IsFiniteSet({i} \X (1..n))
      /\ Cardinality({i} \X (1..n)) = Cardinality({i}) * Cardinality(1..n)
  BY <1>2, <1>3, FS_Product
<1>5. Cardinality({i}) * Cardinality(1..n) = n
  BY <1>2, <1>3
<1>. QED
  BY <1>1, <1>4, <1>5

(* No file segment precedes the first visit. *)
LEMMA BytesUpToZero ==
    ASSUME NEW w
    PROVE  IsFiniteSet(BytesUpTo(w, 0)) /\ Cardinality(BytesUpTo(w, 0)) = 0
<1>1. BytesUpTo(w, 0) = {}
  BY DEF BytesUpTo
<1>. QED
  BY <1>1, FS_EmptySet

(* The bytes up to visit k + 1 are those up to k and, for a file segment,  *)
(* the bytes of visit k + 1.                                               *)
LEMMA BytesUpToStep ==
    ASSUME NEW w, NEW k \in Nat
    PROVE  BytesUpTo(w, k + 1)
             = BytesUpTo(w, k)
               \cup (IF w[k + 1].kind = "File" THEN SegBytes(w, k + 1) ELSE {})
<1> DEFINE Files(m) == {i \in 1..m : w[i].kind = "File"}
<1>1. BytesUpTo(w, k + 1) = UNION {SegBytes(w, i) : i \in Files(k + 1)}
      /\ BytesUpTo(w, k) = UNION {SegBytes(w, i) : i \in Files(k)}
  BY DEF BytesUpTo
<1>2. CASE w[k + 1].kind = "File"
  <2>1. Files(k + 1) = Files(k) \cup {k + 1}
    BY <1>2
  <2>. QED
    BY <1>1, <1>2, <2>1
<1>3. CASE w[k + 1].kind # "File"
  <2>1. Files(k + 1) = Files(k)
    BY <1>3
  <2>. QED
    BY <1>1, <1>3, <2>1
<1>. QED
  BY <1>2, <1>3

(* The bytes of visit k + 1 are none of the bytes up to visit k. *)
LEMMA BytesUpToDisjoint ==
    ASSUME NEW w, NEW k \in Nat
    PROVE  BytesUpTo(w, k) \cap SegBytes(w, k + 1) = {}
BY DEF BytesUpTo, SegBytes

(* One more visit adds its length to the count if it is a file segment. *)
LEMMA BytesUpToCard ==
    ASSUME NEW w, NEW k \in Nat, NEW n \in Nat, w[k + 1].len = n,
           IsFiniteSet(BytesUpTo(w, k))
    PROVE  /\ IsFiniteSet(BytesUpTo(w, k + 1))
           /\ Cardinality(BytesUpTo(w, k + 1))
                = Cardinality(BytesUpTo(w, k))
                  + (IF w[k + 1].kind = "File" THEN n ELSE 0)
<1>0. Cardinality(BytesUpTo(w, k)) \in Nat
  BY FS_CardinalityType
<1>1. CASE w[k + 1].kind = "File"
  <2>1. BytesUpTo(w, k + 1) = BytesUpTo(w, k) \cup SegBytes(w, k + 1)
    BY <1>1, BytesUpToStep
  <2>2. IsFiniteSet(SegBytes(w, k + 1)) /\ Cardinality(SegBytes(w, k + 1)) = n
    BY SegBytesCard
  <2>3. BytesUpTo(w, k) \cap SegBytes(w, k + 1) = {}
    BY BytesUpToDisjoint
  <2>4. /\ IsFiniteSet(BytesUpTo(w, k) \cup SegBytes(w, k + 1))
        /\ Cardinality(BytesUpTo(w, k) \cup SegBytes(w, k + 1))
             = Cardinality(BytesUpTo(w, k)) + Cardinality(SegBytes(w, k + 1))
               - Cardinality(BytesUpTo(w, k) \cap SegBytes(w, k + 1))
    BY <2>2, FS_Union
  <2>5. Cardinality(BytesUpTo(w, k) \cap SegBytes(w, k + 1)) = 0
    BY <2>3, FS_EmptySet
  <2>6. Cardinality(BytesUpTo(w, k) \cup SegBytes(w, k + 1))
          = Cardinality(BytesUpTo(w, k)) + n
    BY <1>0, <2>2, <2>4, <2>5
  <2>7. Cardinality(BytesUpTo(w, k + 1)) = Cardinality(BytesUpTo(w, k)) + n
    BY <2>1, <2>6
  <2>. QED
    BY <1>1, <2>1, <2>4, <2>7
<1>2. CASE w[k + 1].kind # "File"
  <2>0. BytesUpTo(w, k + 1)
          = BytesUpTo(w, k)
            \cup (IF w[k + 1].kind = "File" THEN SegBytes(w, k + 1) ELSE {})
    BY BytesUpToStep
  <2>1. BytesUpTo(w, k + 1) = BytesUpTo(w, k)
    BY <1>2, <2>0
  <2>. QED
    BY <1>0, <1>2, <2>1
<1>. QED
  BY <1>1, <1>2

(* BytesUpToCard at the cursor: the count up to visit p from the count up  *)
(* to the visit before it.                                                 *)
LEMMA BytesAdvance ==
    ASSUME NEW w, NEW p \in Nat \ {0}, NEW n \in Nat, w[p].len = n,
           IsFiniteSet(BytesUpTo(w, p - 1))
    PROVE  /\ IsFiniteSet(BytesUpTo(w, p))
           /\ Cardinality(BytesUpTo(w, p))
                = Cardinality(BytesUpTo(w, p - 1))
                  + (IF w[p].kind = "File" THEN n ELSE 0)
<1>1. p - 1 \in Nat /\ (p - 1) + 1 = p
  OBVIOUS
<1>2. w[(p - 1) + 1].len = n
  BY <1>1
<1>3. /\ IsFiniteSet(BytesUpTo(w, (p - 1) + 1))
      /\ Cardinality(BytesUpTo(w, (p - 1) + 1))
           = Cardinality(BytesUpTo(w, p - 1))
             + (IF w[(p - 1) + 1].kind = "File" THEN n ELSE 0)
  BY <1>1, <1>2, BytesUpToCard
<1>. QED
  BY <1>1, <1>3

-----------------------------------------------------------------------------
(* The visits whose file bytes the destination holds: those before the     *)
(* cursor, and the cursor's own segment once the write loop has run.       *)
Done == IF pc = "after" THEN pos ELSE pos - 1

(* The stream has returned after yielding CompletedStatus. *)
CompletedOut == pc = "end" /\ out # <<>> /\ out[Len(out)].kind = "Completed"

(* While the stream runs, and after it completes, the destination holds    *)
(* exactly the bytes of the file segments of the visits done.              *)
SinkCount ==
    (pc \in {"loop", "write", "after"} \/ CompletedOut)
        => /\ IsFiniteSet(BytesUpTo(walk, Done))
           /\ sink = Cardinality(BytesUpTo(walk, Done))

(* CompletedStatus is yielded past the last visit and reports written. *)
CompletedAtEnd ==
    CompletedOut => pos = Len(walk) + 1 /\ out[Len(out)].written = written

(* Inductive invariant for CompletedWritesAll. *)
CountInv(B) == FlushInv(B) /\ SinkCount /\ CompletedAtEnd

LEMMA CountInit == Init => SinkCount /\ CompletedAtEnd
<1> SUFFICES ASSUME Init PROVE SinkCount /\ CompletedAtEnd
  OBVIOUS
<1>1. Done = 0 /\ sink = 0 /\ ~CompletedOut
  BY DEF Init, Done, CompletedOut
<1>2. IsFiniteSet(BytesUpTo(walk, 0)) /\ Cardinality(BytesUpTo(walk, 0)) = 0
  BY BytesUpToZero
<1>. QED
  BY <1>1, <1>2 DEF SinkCount, CompletedAtEnd

(* Every step keeps SinkCount and CompletedAtEnd: a visit done adds its    *)
(* file bytes to the destination exactly when it moves Done past it.       *)
LEMMA SinkNext ==
    IInv /\ SinkCount /\ CompletedAtEnd /\ [Next]_vars
        => SinkCount' /\ CompletedAtEnd'
<1> SUFFICES ASSUME IInv, SinkCount, CompletedAtEnd, [Next]_vars
             PROVE  SinkCount' /\ CompletedAtEnd'
  OBVIOUS
<1>0. /\ TypeOK /\ OnSegment /\ out \in Seq(Statuses)
      /\ walk \in Seq(Visits) /\ \A i \in 1..Len(walk) : walk[i] \in Visits
      /\ Len(walk) \in Nat /\ pos \in 1..(Len(walk) + 1) /\ sink \in Nat
  BY WalkType, LenProperties DEF IInv, TypeOK
(* A step to a suspension point other than "end", or to "end" with a      *)
(* Failed status last, leaves nothing to show for CompletedOut'.           *)
<1>a. pc' # "end" => ~CompletedOut'
  BY DEF CompletedOut
<1>b. ASSUME pc' = "end", out' = Append(out, Status("Failed"))
      PROVE  ~CompletedOut' /\ ~(pc' \in {"loop", "write", "after"})
  <2>1. Status("Failed") \in Statuses /\ Status("Failed").kind = "Failed"
    BY <1>0, StatusType DEF Terminal
  <2>2. out'[Len(out) + 1] = Status("Failed") /\ Len(out') = Len(out) + 1
    BY <1>0, <1>b, <2>1, AppendStatus
  <2>. QED
    BY <1>b, <2>1, <2>2 DEF CompletedOut
<1>c. pc \in {"loop", "write", "after"} => ~CompletedOut
  BY DEF CompletedOut
<1>1. CASE Complete
  <2>1. /\ pc = "loop" /\ pc' = "end" /\ pos = Len(walk) + 1
        /\ out' = Append(out, Status("Completed"))
        /\ UNCHANGED <<walk, pos, written, sink>>
    BY <1>0, <1>1 DEF Complete
  <2>2. Status("Completed") \in Statuses
    BY <1>0, StatusType DEF Terminal
  <2>a. /\ Len(Append(out, Status("Completed"))) = Len(out) + 1
        /\ Append(out, Status("Completed"))[Len(out) + 1] = Status("Completed")
        /\ Len(out) \in Nat
    BY <1>0, <2>2, AppendStatus, LenProperties
  <2>3. out'[Len(out')] = Status("Completed") /\ out' # <<>>
    BY <2>1, <2>a
  <2>4. Done' = Done
    BY <2>1 DEF Done
  <2>5. out'[Len(out')].written = written'
    BY <2>1, <2>3 DEF Status
  <2>6. IsFiniteSet(BytesUpTo(walk, Done)) /\ sink = Cardinality(BytesUpTo(walk, Done))
    BY <2>1 DEF SinkCount
  <2>. QED
    BY <2>1, <2>4, <2>5, <2>6 DEF SinkCount, CompletedAtEnd
<1>2. CASE FetchFails \/ DecodeFails \/ WriteFails
  <2>1. pc' = "end" /\ out' = Append(out, Status("Failed"))
    BY <1>2 DEF FetchFails, DecodeFails, WriteFails
  <2>. QED
    BY <2>1, <1>b DEF SinkCount, CompletedAtEnd
<1>3. CASE Drop
  <2>1. pc' = "dropped"
    BY <1>3 DEF Drop
  <2>. QED
    BY <2>1, <1>a DEF SinkCount, CompletedAtEnd
<1>4. CASE SkipVisit
  <2>1. /\ pc = "loop" /\ pc' = "loop" /\ pos' = pos + 1 /\ pos \in 1..Len(walk)
        /\ walk[pos].kind # "File"
        /\ UNCHANGED <<walk, sink>>
    BY <1>0, <1>4 DEF SkipVisit
  <2>2. Done = pos - 1 /\ Done' = pos
    BY <1>0, <2>1 DEF Done
  <2>3. IsFiniteSet(BytesUpTo(walk, pos - 1))
        /\ sink = Cardinality(BytesUpTo(walk, pos - 1))
    BY <2>1, <2>2 DEF SinkCount
  <2>4. pos \in Nat \ {0} /\ walk[pos].len \in Nat
    BY <1>0, <2>1 DEF Visits
  <2>5. /\ IsFiniteSet(BytesUpTo(walk, pos))
        /\ Cardinality(BytesUpTo(walk, pos))
             = Cardinality(BytesUpTo(walk, pos - 1))
               + (IF walk[pos].kind = "File" THEN walk[pos].len ELSE 0)
    BY <2>3, <2>4, BytesAdvance
  <2>6. Cardinality(BytesUpTo(walk, pos - 1)) \in Nat
    BY <2>3, FS_CardinalityType
  <2>7. sink' = Cardinality(BytesUpTo(walk', Done'))
    BY <2>1, <2>2, <2>3, <2>5, <2>6
  <2>. QED
    BY <2>1, <2>2, <2>5, <2>7, <1>a DEF SinkCount, CompletedAtEnd
<1>5. CASE FileSegment
  <2>1. /\ pc = "loop" /\ pc' = "write" /\ UNCHANGED <<walk, pos, sink>>
    BY <1>5 DEF FileSegment
  <2>2. Done' = Done
    BY <2>1 DEF Done
  <2>. QED
    BY <2>1, <2>2, <1>a DEF SinkCount, CompletedAtEnd
<1>6. CASE WriteChunk \/ EmptySegment
  <2>1. /\ pc = "write" /\ pc' = "after" /\ UNCHANGED <<walk, pos>>
        /\ sink' = sink + walk[pos].len
    <3>1. CASE WriteChunk
      BY <3>1 DEF WriteChunk, Seg
    <3>2. CASE EmptySegment
      <4>1. walk[pos].len = 0 /\ sink' = sink
        BY <3>2 DEF EmptySegment, Seg
      <4>. QED
        BY <1>0, <3>2, <4>1 DEF EmptySegment
    <3>. QED
      BY <1>6, <3>1, <3>2
  <2>2. pos \in 1..Len(walk) /\ walk[pos].kind = "File"
    BY <1>0, <2>1 DEF OnSegment
  <2>3. pos \in Nat \ {0} /\ walk[pos].len \in Nat
    BY <1>0, <2>2 DEF Visits
  <2>4. Done = pos - 1 /\ Done' = pos
    BY <2>1 DEF Done
  <2>5. IsFiniteSet(BytesUpTo(walk, pos - 1))
        /\ sink = Cardinality(BytesUpTo(walk, pos - 1))
    BY <2>1, <2>4 DEF SinkCount
  <2>6. /\ IsFiniteSet(BytesUpTo(walk, pos))
        /\ Cardinality(BytesUpTo(walk, pos))
             = Cardinality(BytesUpTo(walk, pos - 1))
               + (IF walk[pos].kind = "File" THEN walk[pos].len ELSE 0)
    BY <2>3, <2>5, BytesAdvance
  <2>7. sink' = Cardinality(BytesUpTo(walk', Done'))
    BY <2>1, <2>2, <2>4, <2>5, <2>6
  <2>. QED
    BY <2>1, <2>4, <2>6, <2>7, <1>a DEF SinkCount, CompletedAtEnd
<1>7. CASE SegmentDone
  <2>1. /\ pc = "after" /\ pc' = "loop" /\ pos' = pos + 1
        /\ UNCHANGED <<walk, sink>>
    BY <1>7 DEF SegmentDone
  <2>2. Done' = Done
    <3>1. pos \in Nat
      BY <1>0
    <3>. QED
      BY <2>1, <3>1 DEF Done
  <2>. QED
    BY <2>1, <2>2, <1>a DEF SinkCount, CompletedAtEnd
<1>8. CASE UNCHANGED vars
  BY <1>8 DEF vars, SinkCount, CompletedAtEnd, CompletedOut, Done
<1>. QED
  BY <1>1, <1>2, <1>3, <1>4, <1>5, <1>6, <1>7, <1>8 DEF Next

(* CountInv implies CompletedWritesAll: a Completed status is the only     *)
(* terminal one, so no write failed and written equals the file's bytes.   *)
LEMMA CountCompleted ==
    ASSUME NEW B, CountInv(B)
    PROVE  CompletedWritesAll
<1> SUFFICES ASSUME out # <<>>, out[Len(out)].kind = "Completed"
             PROVE  /\ out[Len(out)].written = FileBytes(walk)
                    /\ sink = FileBytes(walk)
  BY DEF CompletedWritesAll
<1>1. pc = "end" /\ CompletedOut
  BY DEF CountInv, FlushInv, IInv, TerminalLast, Terminal, CompletedOut
<1>2. pos = Len(walk) + 1 /\ out[Len(out)].written = written
  BY <1>1 DEF CountInv, CompletedAtEnd
<1>3. Len(walk) \in Nat
  BY WalkType, LenProperties DEF CountInv, FlushInv, IInv
<1>4. Done = Len(walk)
  BY <1>1, <1>2, <1>3 DEF Done
<1>5. sink = FileBytes(walk)
  BY <1>1, <1>4 DEF CountInv, SinkCount, FileBytes
<1>6. ~\E i \in 1..Len(out) : out[i].kind = "Failed"
  BY DEF CountInv, FlushInv, IInv, TerminalLast, Terminal
<1>7. written = sink
  BY <1>6 DEF CountInv, FlushInv, WrittenTracksSink
<1>. QED
  BY <1>2, <1>5, <1>7

(* Spec 8, round trip: a stream that yields CompletedStatus has written    *)
(* every byte of every file segment of the walk once, through the          *)
(* write_all/sync_all loop, and reports that count -- for every walk, as   *)
(* long as no walk can write usize::MAX bytes (as for WrittenIsFlushed).   *)
THEOREM CompletedWritesAllInvariant ==
    ASSUME NEW B, FitsUsize(B)
    PROVE  Spec => []CompletedWritesAll
<1>1. Init => CountInv(B)
  BY FlushInit, CountInit DEF CountInv
<1>2. CountInv(B) /\ [Next]_vars => CountInv(B)'
  <2> SUFFICES ASSUME CountInv(B), [Next]_vars PROVE CountInv(B)'
    OBVIOUS
  <2>1. FlushInv(B)'
    BY FlushNext DEF CountInv
  <2>2. SinkCount' /\ CompletedAtEnd'
    BY SinkNext DEF CountInv, FlushInv
  <2>. QED
    BY <2>1, <2>2 DEF CountInv
<1>3. CountInv(B) => CompletedWritesAll
  BY CountCompleted
<1>. QED
  BY <1>1, <1>2, <1>3, PTL DEF Spec

(* The destination half of CompletedWritesAll: when the stream completes,  *)
(* the file holds every byte of every file segment once, whatever the      *)
(* usize width -- only the reported count can wrap.                        *)
CompletedSinkFull ==
    (out # <<>> /\ out[Len(out)].kind = "Completed") => sink = FileBytes(walk)

(* Spec 8, round trip, for the file itself: write_all and sync_all put the *)
(* bytes of every file segment of the walk into the destination exactly    *)
(* once before CompletedStatus, for every walk and every usize width.      *)
THEOREM CompletedSinkFullInvariant == Spec => []CompletedSinkFull
<1> DEFINE SInv == IInv /\ SinkCount /\ CompletedAtEnd
<1>1. Init => SInv
  BY InitIInv, CountInit
<1>2. SInv /\ [Next]_vars => SInv'
  BY NextIInv, SinkNext
<1>3. SInv => CompletedSinkFull
  <2> SUFFICES ASSUME SInv, out # <<>>, out[Len(out)].kind = "Completed"
               PROVE  sink = FileBytes(walk)
    BY DEF CompletedSinkFull
  <2>1. pc = "end" /\ CompletedOut
    BY DEF IInv, TerminalLast, Terminal, CompletedOut
  <2>2. pos = Len(walk) + 1 /\ Len(walk) \in Nat
    BY <2>1, WalkType, LenProperties DEF CompletedAtEnd, IInv
  <2>3. Done = Len(walk)
    BY <2>1, <2>2 DEF Done
  <2>. QED
    BY <2>1, <2>3 DEF SinkCount, FileBytes
<1>. QED
  BY <1>1, <1>2, <1>3, PTL DEF Spec

=============================================================================
