-------------------------- MODULE BitswapTypeProofs --------------------------
(***************************************************************************)
(* Type correctness of the whole Bitswap model: the events queue stays    *)
(* within its bound, connection counts within theirs, and every message   *)
(* the swarm holds in flight is a well-formed bitswap Message.  It rests  *)
(* on the ledger and channel typing of BitswapProofs.                     *)
(***************************************************************************)
EXTENDS BitswapProofs, FiniteSetTheorems, SequenceTheorems

(* The parts of TypeOK that BitswapProofs.Inv does not state. *)
SwarmTypeOK ==
    /\ events \in Seq(Events) /\ Len(events) <= MaxEvents
    /\ targetPeers \subseteq Peers
    /\ conns \in [Peers -> 0..MaxConns]
    /\ dialing \subseteq Peers
    /\ inflight \subseteq [peer : Peers, msg : Messages]
    /\ remoteView \in [Peers -> SUBSET Cids]

TInv == Inv /\ SwarmTypeOK

-----------------------------------------------------------------------------
(* The handler lists a HashSet in an order of its own: for a finite set,  *)
(* SeqOf lists each element once, so the list is as long as the set.      *)
LEMMA SeqOfType ==
    ASSUME NEW S, IsFiniteSet(S)
    PROVE  /\ SeqOf(S) \in Seq(S)
           /\ Len(SeqOf(S)) = Cardinality(S)
<1>1. /\ Cardinality(S) \in Nat
      /\ ExistsBijection(1..Cardinality(S), S)
  BY FS_CardinalityType
<1>2. \E s \in [1..Cardinality(S) -> S] :
         \A i, j \in 1..Cardinality(S) : s[i] = s[j] => i = j
  BY <1>1 DEF ExistsBijection, Bijection, Injection, IsInjective
<1>3. SeqOf(S) \in [1..Cardinality(S) -> S]
  BY <1>2 DEF SeqOf
<1>. QED
  BY <1>1, <1>3

(* A sequence built element by element from 1..n has length n. *)
LEMMA MappedSeq ==
    ASSUME NEW n \in Nat, NEW e(_), NEW T, \A i \in 1..n : e(i) \in T
    PROVE  /\ [i \in 1..n |-> e(i)] \in Seq(T)
           /\ Len([i \in 1..n |-> e(i)]) = n
<1>1. [i \in 1..n |-> e(i)] \in Seq(T)
  BY IsASeq
<1>. QED
  BY <1>1, LenProperties

(* The events queued for one received message are ToSwarm events, one per *)
(* cancel, new want and block of the message.                             *)
LEMMA RxEventsType ==
    ASSUME IsFiniteSet(Cids), NEW p \in Peers, NEW m \in Messages,
           NEW cur \in WantMaps
    PROVE  /\ RxEvents(p, m, cur) \in Seq(Events)
           /\ Len(RxEvents(p, m, cur)) =
                Cardinality(m.cancels) + Cardinality(NewWants(m, cur))
                + Cardinality(m.blocks)
<1>. DEFINE cs == SeqOf(m.cancels)
            ws == SeqOf(NewWants(m, cur))
            bs == SeqOf(m.blocks)
            ec == [i \in 1..Len(cs) |->
                     [kind |-> "ReceivedCancel", peer |-> p, cid |-> cs[i]]]
            ew == [i \in 1..Len(ws) |->
                     [kind |-> "ReceivedWant", peer |-> p, cid |-> ws[i],
                      prio |-> m.wants[ws[i]]]]
            eb == [i \in 1..Len(bs) |->
                     [kind |-> "ReceivedBlock", peer |-> p, cid |-> bs[i]]]
<1>1. /\ m.cancels \subseteq Cids /\ m.blocks \subseteq Cids
      /\ m.wants \in WantMaps
  BY DEF Messages
<1>2. NewWants(m, cur) \subseteq Cids
      /\ \A c \in NewWants(m, cur) : m.wants[c] \in Prios
  BY <1>1 DEF NewWants, Keys, WantMaps
<1>3. /\ IsFiniteSet(m.cancels) /\ IsFiniteSet(m.blocks)
      /\ IsFiniteSet(NewWants(m, cur))
  BY <1>1, <1>2, FS_Subset
<1>4. /\ cs \in Seq(m.cancels) /\ Len(cs) = Cardinality(m.cancels)
      /\ ws \in Seq(NewWants(m, cur))
      /\ Len(ws) = Cardinality(NewWants(m, cur))
      /\ bs \in Seq(m.blocks) /\ Len(bs) = Cardinality(m.blocks)
  BY <1>3, SeqOfType
<1>5. /\ ec \in Seq(Events) /\ Len(ec) = Len(cs)
  <2>1. Len(cs) \in Nat /\ \A i \in 1..Len(cs) : cs[i] \in Cids
    BY <1>1, <1>4, LenProperties
  <2>2. \A i \in 1..Len(cs) :
          [kind |-> "ReceivedCancel", peer |-> p, cid |-> cs[i]] \in Events
    BY <2>1 DEF Events
  <2>. QED
    BY <2>1, <2>2, MappedSeq
<1>6. /\ ew \in Seq(Events) /\ Len(ew) = Len(ws)
  <2>1. Len(ws) \in Nat /\ \A i \in 1..Len(ws) : ws[i] \in NewWants(m, cur)
    BY <1>4, LenProperties
  <2>2. \A i \in 1..Len(ws) :
          [kind |-> "ReceivedWant", peer |-> p, cid |-> ws[i],
           prio |-> m.wants[ws[i]]] \in Events
    BY <1>2, <2>1 DEF Events
  <2>. QED
    BY <2>1, <2>2, MappedSeq
<1>7. /\ eb \in Seq(Events) /\ Len(eb) = Len(bs)
  <2>1. Len(bs) \in Nat /\ \A i \in 1..Len(bs) : bs[i] \in Cids
    BY <1>1, <1>4, LenProperties
  <2>2. \A i \in 1..Len(bs) :
          [kind |-> "ReceivedBlock", peer |-> p, cid |-> bs[i]] \in Events
    BY <2>1 DEF Events
  <2>. QED
    BY <2>1, <2>2, MappedSeq
<1>8. RxEvents(p, m, cur) = (ec \o ew) \o eb
  BY DEF RxEvents
<1>9. /\ ec \o ew \in Seq(Events) /\ Len(ec \o ew) = Len(ec) + Len(ew)
  BY <1>5, <1>6, ConcatProperties
<1>10. /\ (ec \o ew) \o eb \in Seq(Events)
       /\ Len((ec \o ew) \o eb) = Len(ec \o ew) + Len(eb)
  BY <1>7, <1>9, ConcatProperties
<1>. QED
  BY <1>4, <1>5, <1>6, <1>7, <1>8, <1>9, <1>10

(* Every ToSwarm event names a peer, and a NotifyHandler carries a Message. *)
LEMMA EventParts ==
    ASSUME NEW e \in Events
    PROVE  /\ e.peer \in Peers
           /\ e.kind = "Notify" => e.msg \in Messages
BY DEF Events

(* The message send() builds from a ledger is a bitswap Message. *)
LEMMA LMessageType ==
    ASSUME NEW l \in Ledgers
    PROVE  LMessage(l) \in Messages
BY BitswapAssumption DEF LMessage, Ledgers, Messages, WantMaps

(* poll's drain of the channels keeps a connected peer's ledger a ledger. *)
LEMMA DrainedType ==
    ASSUME Inv, NEW q \in Peers, ledgers[q] # NoLedger
    PROVE  Drained(ledgers)[q] \in Ledgers
<1>. DEFINE gone == {dontHaveQ[i][2] :
                       i \in {j \in 1..Len(dontHaveQ) : dontHaveQ[j][1] = q}}
            add  == {readyQ[i][2] :
                       i \in {j \in 1..Len(readyQ) : readyQ[j][1] = q}}
<1>1. Drained(ledgers)[q] = LAddBlocks(LForget(ledgers[q], gone), add)
  BY DEF Drained
<1>2. ledgers[q] \in Ledgers
  BY DEF Inv, IInv, LedgerTypeOK
<1>3. add \in SUBSET Cids
  BY DEF Inv, QueuesTypeOK
<1>4. LForget(ledgers[q], gone) \in Ledgers
  BY <1>2, LForgetParts
<1>. QED
  BY <1>1, <1>3, <1>4, LAddBlocksParts

-----------------------------------------------------------------------------
(* The swarm-side typing, action by action. *)

LEMMA ConnectSwarmType ==
    ASSUME SwarmTypeOK, NEW p \in Peers, Connect(p)
    PROVE  SwarmTypeOK'
<1>1. [kind |-> "Dial", peer |-> p] \in Events
  BY DEF Events
<1>2. /\ Append(events, [kind |-> "Dial", peer |-> p]) \in Seq(Events)
      /\ Len(Append(events, [kind |-> "Dial", peer |-> p])) = Len(events) + 1
  BY <1>1, AppendProperties DEF SwarmTypeOK
<1>3. Len(events) + 1 <= MaxEvents
  BY BitswapAssumption, LenProperties DEF Connect, SwarmTypeOK
<1>4. (events \in Seq(Events) /\ Len(events) <= MaxEvents)'
  BY <1>2, <1>3 DEF Connect
<1>5. targetPeers' \subseteq Peers
  BY DEF Connect, SwarmTypeOK
<1>. QED
  BY <1>4, <1>5 DEF Connect, SwarmTypeOK, swarmVars

LEMMA ConnectionEstablishedSwarmType ==
    ASSUME Inv, SwarmTypeOK, NEW p \in Peers, ConnectionEstablished(p)
    PROVE  SwarmTypeOK'
<1>. DEFINE e == [kind |-> "Notify", peer |-> p, msg |-> WantListMessage]
<1>1. e \in Events
  BY DEF Events, WantListMessage, Messages, Inv, IInv, LedgerTypeOK
<1>2. Keys(wanted) # {} =>
        /\ Append(events, e) \in Seq(Events)
        /\ Len(Append(events, e)) = Len(events) + 1
  BY <1>1, AppendProperties DEF SwarmTypeOK
<1>3. (events \in Seq(Events) /\ Len(events) <= MaxEvents)'
  <2>1. CASE Keys(wanted) # {}
    <3>0. Len(events) \in Nat
      BY LenProperties DEF SwarmTypeOK
    <3>a. Len(events) < MaxEvents
      BY <2>1 DEF ConnectionEstablished
    <3>1. Len(events) + 1 <= MaxEvents
      BY <3>0, <3>a, BitswapAssumption
    <3>. QED
      BY <1>2, <2>1, <3>1 DEF ConnectionEstablished
  <2>2. CASE Keys(wanted) = {}
    BY <2>2 DEF ConnectionEstablished, SwarmTypeOK
  <2>. QED
    BY <2>1, <2>2
<1>4. conns' \in [Peers -> 0..MaxConns]
  <2>0. conns[p] \in 0..MaxConns /\ conns[p] < MaxConns
    BY DEF ConnectionEstablished, SwarmTypeOK
  <2>a. conns[p] \in Nat /\ MaxConns \in Nat
    BY <2>0, BitswapAssumption
  <2>1. conns[p] + 1 \in 0..MaxConns
    BY <2>0, <2>a
  <2>. QED
    BY <2>1 DEF ConnectionEstablished, SwarmTypeOK
<1>. QED
  BY <1>3, <1>4 DEF ConnectionEstablished, SwarmTypeOK

LEMMA ConnectionClosedSwarmType ==
    ASSUME SwarmTypeOK, NEW p \in Peers, ConnectionClosed(p)
    PROVE  SwarmTypeOK'
<1>1. conns' \in [Peers -> 0..MaxConns]
  <2>0. conns[p] \in 0..MaxConns /\ conns[p] > 0
    BY DEF ConnectionClosed, SwarmTypeOK
  <2>a. conns[p] \in Nat /\ MaxConns \in Nat
    BY <2>0, BitswapAssumption
  <2>1. conns[p] - 1 \in 0..MaxConns
    BY <2>0, <2>a
  <2>. QED
    BY <2>1 DEF ConnectionClosed, SwarmTypeOK
<1>2. inflight' \subseteq inflight
  BY DEF ConnectionClosed
<1>. QED
  BY <1>1, <1>2 DEF ConnectionClosed, SwarmTypeOK

LEMMA DeliverSwarmType ==
    ASSUME SwarmTypeOK, NEW m \in inflight, Deliver(m)
    PROVE  SwarmTypeOK'
<1>1. m.peer \in Peers /\ m.msg \in Messages
  BY DEF SwarmTypeOK
<1>2. (remoteView[m.peer] \ m.msg.cancels) \cup Keys(m.msg.wants)
        \in SUBSET Cids
  BY <1>1 DEF Messages, Keys, SwarmTypeOK
<1>3. remoteView' \in [Peers -> SUBSET Cids]
  BY <1>1, <1>2 DEF Deliver, SwarmTypeOK
<1>. QED
  BY <1>3 DEF Deliver, SwarmTypeOK, engineVars

LEMMA HandlerRxSwarmType ==
    ASSUME Inv, SwarmTypeOK, IsFiniteSet(Cids),
           NEW p \in Peers, NEW m \in Messages, HandlerRx(p, m)
    PROVE  SwarmTypeOK'
<1>1. wanted \in WantMaps
  BY DEF Inv, IInv, LedgerTypeOK
<1>2. /\ RxEvents(p, m, wanted) \in Seq(Events)
      /\ Len(RxEvents(p, m, wanted)) =
           Cardinality(m.cancels) + Cardinality(NewWants(m, wanted))
           + Cardinality(m.blocks)
  BY <1>1, RxEventsType
<1>3. /\ events \o RxEvents(p, m, wanted) \in Seq(Events)
      /\ Len(events \o RxEvents(p, m, wanted))
           = Len(events) + Len(RxEvents(p, m, wanted))
  BY <1>2, ConcatProperties DEF SwarmTypeOK
<1>4. Len(events) + Len(RxEvents(p, m, wanted)) <= MaxEvents
  <2>1. /\ Cardinality(m.cancels) \in Nat /\ Cardinality(m.blocks) \in Nat
        /\ Cardinality(NewWants(m, wanted)) \in Nat
    <3>1. /\ m.cancels \subseteq Cids /\ m.blocks \subseteq Cids
          /\ NewWants(m, wanted) \subseteq Cids
      BY DEF Messages, NewWants, Keys
    <3>2. /\ IsFiniteSet(m.cancels) /\ IsFiniteSet(m.blocks)
          /\ IsFiniteSet(NewWants(m, wanted))
      BY <3>1, FS_Subset
    <3>. QED
      BY <3>2, FS_CardinalityType
  <2>2. Len(events) \in Nat
    BY LenProperties DEF SwarmTypeOK
  <2>. QED
    BY <1>2, <2>1, <2>2 DEF HandlerRx
<1>. QED
  BY <1>3, <1>4 DEF HandlerRx, SwarmTypeOK, swarmVars

LEMMA PollEventSwarmType ==
    ASSUME SwarmTypeOK, PollEvent
    PROVE  SwarmTypeOK'
<1>. DEFINE e == Head(events)
<1>1. /\ e \in Events
      /\ Tail(events) \in Seq(Events)
      /\ Len(Tail(events)) = Len(events) - 1
  BY HeadTailProperties DEF PollEvent, SwarmTypeOK
<1>2. e.peer \in Peers /\ (e.kind = "Notify" => e.msg \in Messages)
  BY <1>1, EventParts
<1>3. dialing' \subseteq Peers
  BY <1>2 DEF PollEvent, SwarmTakes, SwarmTypeOK
<1>4. inflight' \subseteq [peer : Peers, msg : Messages]
  BY <1>2 DEF PollEvent, SwarmTakes, SwarmTypeOK
<1>5. Len(events') <= MaxEvents
  <2>1. Len(events) \in Nat
    BY LenProperties DEF SwarmTypeOK
  <2>2. Len(events) <= MaxEvents /\ events' = Tail(events)
    BY DEF PollEvent, SwarmTypeOK
  <2>. QED
    BY <1>1, <2>1, <2>2, BitswapAssumption
<1>6. events' \in Seq(Events)
  BY <1>1 DEF PollEvent
<1>7. UNCHANGED <<targetPeers, conns, remoteView>>
  BY DEF PollEvent
<1>. QED
  BY <1>3, <1>4, <1>5, <1>6, <1>7 DEF SwarmTypeOK

LEMMA PollLedgersSwarmType ==
    ASSUME Inv, SwarmTypeOK, PollLedgers
    PROVE  SwarmTypeOK'
<1>. DEFINE L == Drained(ledgers)
            S == Senders(L)
<1>1. CASE S = {}
  BY <1>1 DEF PollLedgers, SwarmTypeOK
<1>2. CASE S # {}
  <2>. DEFINE q == FirstSender(S)
  <2>1. S \subseteq Peers
    BY DEF Senders
  <2>2. q \in S
    BY <1>2, <2>1, FirstSenderIn
  <2>3. ledgers[q] # NoLedger
    BY <2>2 DEF Senders, Drained
  <2>4. L[q] \in Ledgers
    BY <2>1, <2>2, <2>3, DrainedType
  <2>5. [peer |-> q, msg |-> LMessage(L[q])] \in [peer : Peers, msg : Messages]
    BY <2>1, <2>2, <2>4, LMessageType
  <2>6. inflight' = inflight \cup {[peer |-> q, msg |-> LMessage(L[q])]}
    BY <1>2 DEF PollLedgers
  <2>. QED
    BY <2>5, <2>6 DEF PollLedgers, SwarmTypeOK
<1>. QED
  BY <1>1, <1>2

(* The user calls and the channel sends touch no swarm-side variable. *)
LEMMA UnchangedSwarmType ==
    ASSUME SwarmTypeOK, UNCHANGED <<events, targetPeers>>,
           UNCHANGED swarmVars
    PROVE  SwarmTypeOK'
BY DEF SwarmTypeOK, swarmVars

LEMMA SwarmTypeStep ==
    ASSUME Inv, SwarmTypeOK, IsFiniteSet(Cids), [Next]_vars
    PROVE  SwarmTypeOK'
<1>1. CASE \E p \in Peers : Connect(p)
  BY <1>1, ConnectSwarmType
<1>2. CASE \E c \in Cids, pr \in Prios :
             \/ WantBlock(c, pr)
             \/ \E ps \in SUBSET Peers : WantBlockFromPeers(c, pr, ps)
  BY <1>2, UnchangedSwarmType DEF WantBlock, WantBlockFromPeers
<1>3. CASE \E c \in Cids : CancelBlock(c) \/ DontHave(c)
  BY <1>3, UnchangedSwarmType DEF CancelBlock, DontHave
<1>4. CASE \E p \in Peers, c \in Cids :
             SendBlock(p, c) \/ QueueBlock(p, c) \/ QueueDontHave(p, c)
  BY <1>4, UnchangedSwarmType DEF SendBlock, QueueBlock, QueueDontHave
<1>5. CASE \E p \in Peers : ConnectionEstablished(p)
  BY <1>5, ConnectionEstablishedSwarmType
<1>6. CASE \E p \in Peers : ConnectionClosed(p)
  BY <1>6, ConnectionClosedSwarmType
<1>7. CASE \E p \in Peers : DialFailure(p)
  BY <1>7 DEF DialFailure, SwarmTypeOK, engineVars
<1>8. CASE \E m \in inflight : Deliver(m)
  BY <1>8, DeliverSwarmType
<1>9. CASE \E p \in Peers, m \in RxMessages : HandlerRx(p, m)
  BY <1>9, HandlerRxSwarmType DEF RxMessages
<1>10. CASE PollEvent
  BY <1>10, PollEventSwarmType
<1>11. CASE PollLedgers
  BY <1>11, PollLedgersSwarmType
<1>12. CASE UNCHANGED vars
  BY <1>12, UnchangedSwarmType DEF vars, engineVars
<1>. QED
  BY <1>1, <1>2, <1>3, <1>4, <1>5, <1>6, <1>7, <1>8, <1>9, <1>10, <1>11,
     <1>12 DEF Next, UserNext, NetworkNext, Poll

LEMMA InitTInv == Init => TInv
<1>1. Init => SwarmTypeOK
  BY BitswapAssumption, EmptySeq DEF Init, SwarmTypeOK
<1>. QED
  BY <1>1, InitInv DEF TInv

-----------------------------------------------------------------------------
(* For every finite set of CIDs (a received message lists finitely many),  *)
(* every interleaving of user calls, other tasks' channel sends, swarm     *)
(* callbacks, handler messages and poll keeps the whole state typed: the   *)
(* events VecDeque never outgrows MaxEvents (connect, the wantlist message  *)
(* of a new connection and the Rx handler's events all respect it), a peer *)
(* never has more connections than MaxConns or fewer than none, and every  *)
(* message handed to a handler is a well-formed Message.                   *)
THEOREM TypeCorrect ==
    ASSUME IsFiniteSet(Cids)
    PROVE  Spec => []TypeOK
<1>1. TInv /\ [Next]_vars => TInv'
  BY SwarmTypeStep, NextIInv, QueuesTypeStep DEF TInv, Inv
<1>2. TInv => TypeOK
  BY DEF TInv, Inv, IInv, LedgerTypeOK, QueuesTypeOK, SwarmTypeOK, TypeOK
<1>. QED
  BY InitTInv, <1>1, <1>2, PTL DEF Spec

=============================================================================
