------------------------------ MODULE Bitswap -------------------------------
(***************************************************************************)
(* The Bitswap network behaviour of src/deprecated/bitswap/src/behaviour.rs *)
(* (struct Bitswap), with its per-peer Ledger, the swarm that drives it    *)
(* and the remote peers at the other end of its connections.               *)
(*                                                                         *)
(* The engine is single-threaded: every handler (a user call, a swarm      *)
(* callback, one call of poll) runs to completion, so each is one step.    *)
(* The swarm counts connections per peer and delivers FromSwarm events per *)
(* connection.  A message handed to the swarm by NotifyHandler travels on  *)
(* a OneShotHandler substream of its own: in-flight messages to a peer are *)
(* delivered in any order and are lost when a connection closes.           *)
(*                                                                         *)
(* A remote peer runs the same code.  Its ledger for us exists exactly     *)
(* when ours for it does (both sides see the same connection events); of   *)
(* it the model keeps remoteView[p], the CIDs peer p has recorded as       *)
(* wanted by us (its received_want_list for us).  Remote peers want        *)
(* nothing themselves, so every want they receive is recorded.  What they  *)
(* send us is arbitrary: any message on a live connection.                 *)
(*                                                                         *)
(* The Ledger and Message types are not in this repository; their          *)
(* operations follow spec section 4.B.                                     *)
(***************************************************************************)
EXTENDS Naturals, Sequences, FiniteSets

CONSTANTS
    Peers,      \* remote peer ids (model values)
    Cids,       \* block CIDs (model values)
    Prios,      \* priorities a want may carry
    NoPrio,     \* "no entry" in a CID -> priority map
    NoLedger,   \* "no entry" in connected_peers
    PeerOrder,  \* iteration order of the connected_peers HashMap
    MaxConns,   \* bound: live connections per peer
    MaxEvents,  \* bound: length of the events queue
    MaxChan,    \* bound: items waiting in each of the two channels
    MaxInflight \* bound: messages in flight at once

ASSUME BitswapAssumption ==
    /\ Prios \subseteq Nat /\ Prios # {}
    /\ NoPrio \notin Prios
    /\ PeerOrder \in Seq(Peers)
    /\ \A p \in Peers : \E i \in 1..Len(PeerOrder) : PeerOrder[i] = p
    /\ MaxConns \in Nat \ {0}
    /\ MaxEvents \in Nat \ {0}
    /\ MaxChan \in Nat
    /\ MaxInflight \in Nat \ {0}

(* A CID -> Priority map (HashMap<Cid, Priority>), NoPrio where absent. *)
WantMaps == [Cids -> Prios \cup {NoPrio}]
NoWants == [c \in Cids |-> NoPrio]
Keys(w) == {c \in Cids : w[c] # NoPrio}

(* A bitswap Message: want entries, cancels and blocks (by CID). *)
Messages == [wants : WantMaps, cancels : SUBSET Cids, blocks : SUBSET Cids]

(* Ledger (spec 4.B): what we asked the peer for, which of those wants are *)
(* still to be sent, the cancels and blocks to send, and the peer's wants. *)
Ledgers == [sentWants : WantMaps, pending : SUBSET Cids,
            cancels : SUBSET Cids, queued : SUBSET Cids, recvWants : WantMaps]

(* A ledger from its five parts. *)
Ledger(sw, pe, ca, qu, rw) ==
    [sentWants |-> sw, pending |-> pe, cancels |-> ca, queued |-> qu,
     recvWants |-> rw]

EmptyLedger == Ledger(NoWants, {}, {}, {}, NoWants)

ASSUME NoLedgerAssumption == NoLedger \notin Ledgers

(* The ToSwarm actions of the events queue. *)
Events == [kind : {"Dial"}, peer : Peers]
     \cup [kind : {"Notify"}, peer : Peers, msg : Messages]
     \cup [kind : {"ReceivedCancel", "ReceivedBlock"}, peer : Peers, cid : Cids]
     \cup [kind : {"ReceivedWant"}, peer : Peers, cid : Cids, prio : Prios]

VARIABLES
    events,     \* VecDeque of ToSwarm actions
    targetPeers,\* peers connect() asked to dial
    ledgers,    \* connected_peers: peer -> Ledger, NoLedger when absent
    wanted,     \* wanted_blocks: the local wantlist
    readyQ,     \* the queued_blocks / ready_blocks channel: <<peer, cid>>
    dontHaveQ,  \* the dont_have_tx / dont_have_rx channel: <<peer, cid>>
    conns,      \* swarm: live connections per peer
    dialing,    \* swarm: peers with a dial in progress
    inflight,   \* swarm: messages handed to a handler, not yet delivered
    remoteView  \* per peer, the CIDs it has recorded as wanted by us

engineVars == <<events, targetPeers, ledgers, wanted, readyQ, dontHaveQ>>
swarmVars == <<conns, dialing, inflight, remoteView>>
vars == <<engineVars, swarmVars>>

-----------------------------------------------------------------------------
(* Ledger operations, spec section 4.B. *)

(* want_block: insert or overwrite the want, withdraw a pending cancel. *)
LWantBlock(l, c, pr) ==
    Ledger([l.sentWants EXCEPT ![c] = pr], l.pending \cup {c},
           l.cancels \ {c}, l.queued, l.recvWants)

(* cancel_block: remove the want; if it was present, queue a cancel. *)
LCancelBlock(l, c) ==
    IF l.sentWants[c] # NoPrio
    THEN Ledger([l.sentWants EXCEPT ![c] = NoPrio], l.pending \ {c},
                l.cancels \cup {c}, l.queued, l.recvWants)
    ELSE l

(* add_block: queue a block unless already queued. *)
LAddBlocks(l, cs) ==
    Ledger(l.sentWants, l.pending, l.cancels, l.queued \cup cs, l.recvWants)

LAddBlock(l, c) == LAddBlocks(l, {c})

(* send() returns None iff there is nothing to send ... *)
LIsEmpty(l) == l.queued = {} /\ l.cancels = {} /\ l.pending = {}

(* ... and otherwise the message that drains blocks, cancels and unsent    *)
(* wants.                                                                  *)
LMessage(l) ==
    [wants |-> [c \in Cids |-> IF c \in l.pending THEN l.sentWants[c] ELSE NoPrio],
     cancels |-> l.cancels, blocks |-> l.queued]

(* Mutant: send() leaves the blocks it sent in the queue. *)
LDrainedKeepQueued(l) == Ledger(l.sentWants, {}, {}, l.queued, l.recvWants)

LDrained(l) == Ledger(l.sentWants, {}, {}, {}, l.recvWants)

(* received_want_list.remove for each CID of cs. *)
LForget(l, cs) ==
    Ledger(l.sentWants, l.pending, l.cancels, l.queued,
           [c \in Cids |-> IF c \in cs THEN NoPrio ELSE l.recvWants[c]])

-----------------------------------------------------------------------------
(* Helpers of the engine. *)

HasLedger(p) == ledgers[p] # NoLedger
Connected == {p \in Peers : HasLedger(p)}

(* Apply a ledger operation to every connected peer's ledger. *)
ForAllLedgers(Op(_)) ==
    [p \in Peers |-> IF HasLedger(p) THEN Op(ledgers[p]) ELSE NoLedger]

(* The elements of a finite set, in some fixed order (a HashSet or a      *)
(* HashMap iterates in an order of its own).                               *)
SeqOf(S) == CHOOSE s \in [1..Cardinality(S) -> S] :
                \A i, j \in 1..Cardinality(S) : s[i] = s[j] => i = j

(* Message whose want entries are the whole local wantlist. *)
WantListMessage == [wants |-> wanted, cancels |-> {}, blocks |-> {}]

(* The libp2p Swarm polls the behaviour until it returns Pending before it *)
(* handles a connection event or a handler event: those only reach a     *)
(* behaviour with no queued action and no ledger with something to send. *)
SwarmIdle == events = <<>> /\ \A p \in Connected : LIsEmpty(ledgers[p])

(* Every in-flight message to p that the swarm could still deliver. *)
InflightTo(p) == {m \in inflight : m.peer = p}

-----------------------------------------------------------------------------
(* User calls. *)

(* connect: remember the target; queue a Dial only the first time. *)
Connect(p) ==
    /\ p \notin targetPeers
    /\ Len(events) < MaxEvents
    /\ targetPeers' = targetPeers \cup {p}
    /\ events' = Append(events, [kind |-> "Dial", peer |-> p])
    /\ UNCHANGED <<ledgers, wanted, readyQ, dontHaveQ>>
    /\ UNCHANGED swarmVars

(* want_block: into every ledger, then into the local wantlist. *)
WantBlock(c, pr) ==
    /\ ledgers' = ForAllLedgers(LAMBDA l : LWantBlock(l, c, pr))
    /\ wanted' = [wanted EXCEPT ![c] = pr]
    /\ UNCHANGED <<events, targetPeers, readyQ, dontHaveQ>>
    /\ UNCHANGED swarmVars

(* want_block_from_peers: into the listed peers' ledgers only, but into   *)
(* the local wantlist all the same.                                        *)
WantBlockFromPeers(c, pr, ps) ==
    /\ ledgers' = [p \in Peers |->
                     IF p \in ps /\ HasLedger(p)
                     THEN LWantBlock(ledgers[p], c, pr) ELSE ledgers[p]]
    /\ wanted' = [wanted EXCEPT ![c] = pr]
    /\ UNCHANGED <<events, targetPeers, readyQ, dontHaveQ>>
    /\ UNCHANGED swarmVars

(* Mutant: cancel_block forgets to update the ledgers. *)
CancelBlockStateWantedOnly(c) ==
    /\ ledgers' = ledgers
    /\ wanted' = [wanted EXCEPT ![c] = NoPrio]

(* cancel_block: out of every ledger, then out of the local wantlist. *)
CancelBlockState(c) ==
    /\ ledgers' = ForAllLedgers(LAMBDA l : LCancelBlock(l, c))
    /\ wanted' = [wanted EXCEPT ![c] = NoPrio]

CancelBlock(c) ==
    /\ CancelBlockState(c)
    /\ UNCHANGED <<events, targetPeers, readyQ, dontHaveQ>>
    /\ UNCHANGED swarmVars

(* send_block: queue on the peer's ledger; silently dropped otherwise. *)
SendBlockTo(l, p, c) ==
    [l EXCEPT ![p] = IF @ # NoLedger THEN LAddBlock(@, c) ELSE @]

SendBlock(p, c) ==
    /\ ledgers' = SendBlockTo(ledgers, p, c)
    /\ UNCHANGED <<events, targetPeers, wanted, readyQ, dontHaveQ>>
    /\ UNCHANGED swarmVars

(* dont_have: forget the want in every ledger. *)
DontHave(c) ==
    /\ ledgers' = ForAllLedgers(LAMBDA l : LForget(l, {c}))
    /\ UNCHANGED <<events, targetPeers, wanted, readyQ, dontHaveQ>>
    /\ UNCHANGED swarmVars

(* Another task sends on queued_blocks or dont_have_tx. *)
QueueBlock(p, c) ==
    /\ Len(readyQ) < MaxChan
    /\ readyQ' = Append(readyQ, <<p, c>>)
    /\ UNCHANGED <<events, targetPeers, ledgers, wanted, dontHaveQ>>
    /\ UNCHANGED swarmVars

QueueDontHave(p, c) ==
    /\ Len(dontHaveQ) < MaxChan
    /\ dontHaveQ' = Append(dontHaveQ, <<p, c>>)
    /\ UNCHANGED <<events, targetPeers, ledgers, wanted, readyQ>>
    /\ UNCHANGED swarmVars

-----------------------------------------------------------------------------
(* Swarm callbacks: on_swarm_event. *)

(* ConnectionEstablished, once per new connection (dialled or inbound):   *)
(* forget the target, replace the ledger by a fresh one, queue the whole  *)
(* wantlist as a message of its own.  The remote does the same, so its    *)
(* view of our wants starts empty.                                         *)
ConnectionEstablished(p) ==
    /\ SwarmIdle
    /\ conns[p] < MaxConns
    /\ Keys(wanted) # {} => Len(events) < MaxEvents
    /\ conns' = [conns EXCEPT ![p] = @ + 1]
    /\ dialing' = dialing \ {p}
    /\ targetPeers' = targetPeers \ {p}
    /\ ledgers' = [ledgers EXCEPT ![p] = EmptyLedger]
    /\ events' = IF Keys(wanted) # {}
                 THEN Append(events, [kind |-> "Notify", peer |-> p,
                                      msg |-> WantListMessage])
                 ELSE events
    /\ remoteView' = [remoteView EXCEPT ![p] = {}]
    /\ UNCHANGED <<wanted, readyQ, dontHaveQ, inflight>>

(* Mutant: ConnectionClosed without a live connection to close. *)
ConnectionClosedUnguarded(p) ==
    /\ SwarmIdle
    /\ conns' = [conns EXCEPT ![p] = @ - 1]
    /\ ledgers' = [ledgers EXCEPT ![p] = NoLedger]
    /\ remoteView' = [remoteView EXCEPT ![p] = {}]
    /\ inflight' = inflight \ InflightTo(p)
    /\ UNCHANGED <<events, targetPeers, wanted, readyQ, dontHaveQ, dialing>>

(* ConnectionClosed, once per closed connection: drop the ledger, though  *)
(* other connections to the peer may remain.  Messages in flight on the   *)
(* closed connection are lost; on the last one, all of them.               *)
ConnectionClosed(p) ==
    /\ SwarmIdle
    /\ conns[p] > 0
    /\ conns' = [conns EXCEPT ![p] = @ - 1]
    /\ ledgers' = [ledgers EXCEPT ![p] = NoLedger]
    /\ remoteView' = [remoteView EXCEPT ![p] = {}]
    /\ \E lost \in SUBSET InflightTo(p) :
          /\ conns[p] = 1 => lost = InflightTo(p)
          /\ inflight' = inflight \ lost
    /\ UNCHANGED <<events, targetPeers, wanted, readyQ, dontHaveQ, dialing>>

(* A dial ends in failure: the behaviour ignores DialFailure. *)
DialFailure(p) ==
    /\ SwarmIdle
    /\ p \in dialing
    /\ dialing' = dialing \ {p}
    /\ UNCHANGED engineVars
    /\ UNCHANGED <<conns, inflight, remoteView>>

(* The remote peer's handler receives one of our messages (our side sees  *)
(* MessageWrapper::Tx, which it ignores).  The remote applies cancels then *)
(* wants to its ledger for us, if it still has one.                        *)
Deliver(m) ==
    /\ m \in inflight
    /\ inflight' = inflight \ {m}
    /\ remoteView' =
         IF HasLedger(m.peer)
         THEN [remoteView EXCEPT ![m.peer] =
                 (@ \ m.msg.cancels) \cup Keys(m.msg.wants)]
         ELSE remoteView
    /\ UNCHANGED engineVars
    /\ UNCHANGED <<conns, dialing>>

-----------------------------------------------------------------------------
(* on_connection_handler_event with MessageWrapper::Rx: a message from p. *)

(* The wants of m we record: those not in the wantlist read at the start. *)
NewWants(m, cur) == {c \in Keys(m.wants) : cur[c] = NoPrio}

(* The events the handler queues, cancels, then wants, then blocks. *)
RxEvents(p, m, cur) ==
    LET cs == SeqOf(m.cancels)
        ws == SeqOf(NewWants(m, cur))
        bs == SeqOf(m.blocks)
    IN  [i \in 1..Len(cs) |-> [kind |-> "ReceivedCancel", peer |-> p, cid |-> cs[i]]]
        \o [i \in 1..Len(ws) |-> [kind |-> "ReceivedWant", peer |-> p,
                                  cid |-> ws[i], prio |-> m.wants[ws[i]]]]
        \o [i \in 1..Len(bs) |-> [kind |-> "ReceivedBlock", peer |-> p, cid |-> bs[i]]]

(* The peer's received_want_list after its cancels and new wants. *)
RecvWantsAfter(l, m, cur) ==
    [c \in Cids |-> IF c \in NewWants(m, cur) THEN m.wants[c]
                    ELSE IF c \in m.cancels THEN NoPrio ELSE l.recvWants[c]]

(* The peer's ledger after the message's cancels and new wants. *)
LReceive(l, m, cur) ==
    Ledger(l.sentWants, l.pending, l.cancels, l.queued,
           RecvWantsAfter(l, m, cur))

(* Mutant: a received block is only taken out of the wantlist. *)
CancelBlocksNone(L, bs) == L

(* Every block received is cancel_block'ed: out of every ledger and out   *)
(* of the wantlist.                                                        *)
CancelBlocks(L, bs) ==
    [q \in Peers |->
        IF L[q] = NoLedger THEN NoLedger
        ELSE LET l == L[q] IN
             Ledger([c \in Cids |-> IF c \in bs THEN NoPrio ELSE l.sentWants[c]],
                    l.pending \ bs,
                    l.cancels \cup {c \in bs : l.sentWants[c] # NoPrio},
                    l.queued, l.recvWants)]

HandlerRx(p, m) ==
    /\ SwarmIdle
    /\ conns[p] > 0
    /\ HasLedger(p)
    /\ Len(events) + Cardinality(m.cancels) + Cardinality(NewWants(m, wanted))
         + Cardinality(m.blocks) <= MaxEvents
    /\ events' = events \o RxEvents(p, m, wanted)
    /\ ledgers' = CancelBlocks([ledgers EXCEPT ![p] =
                                  LReceive(ledgers[p], m, wanted)],
                               m.blocks)
    /\ wanted' = [c \in Cids |-> IF c \in m.blocks THEN NoPrio ELSE wanted[c]]
    /\ UNCHANGED <<targetPeers, readyQ, dontHaveQ>>
    /\ UNCHANGED swarmVars

-----------------------------------------------------------------------------
(* poll, called by the swarm. *)

(* The messages a remote peer may send us. *)
RxMessages == Messages

(* The swarm acts on a ToSwarm action: a Dial only when not connected, a  *)
(* NotifyHandler only to a connected peer; generated events go to the     *)
(* user.                                                                   *)
SwarmTakes(e) ==
    /\ dialing' = IF e.kind = "Dial" /\ conns[e.peer] = 0
                  THEN dialing \cup {e.peer} ELSE dialing
    /\ inflight' = IF e.kind = "Notify" /\ conns[e.peer] > 0
                   THEN inflight \cup {[peer |-> e.peer, msg |-> e.msg]}
                   ELSE inflight

(* The queued actions are returned first, one per call. *)
PollEvent ==
    /\ events # <<>>
    /\ Cardinality(inflight) < MaxInflight
    /\ events' = Tail(events)
    /\ SwarmTakes(Head(events))
    /\ UNCHANGED <<targetPeers, ledgers, wanted, readyQ, dontHaveQ>>
    /\ UNCHANGED <<conns, remoteView>>

(* Mutant: the ready_blocks loop is left out of the drain. *)
DrainedNoBlocks(L) ==
    [p \in Peers |->
        IF L[p] = NoLedger THEN NoLedger
        ELSE LForget(L[p], {dontHaveQ[i][2] : i \in {j \in 1..Len(dontHaveQ) : dontHaveQ[j][1] = p}})]

(* Both channels drained: dont_have_for_peer, then send_block, per item. *)
Drained(L) ==
    [p \in Peers |->
        IF L[p] = NoLedger THEN NoLedger
        ELSE LET gone == {dontHaveQ[i][2] : i \in {j \in 1..Len(dontHaveQ) : dontHaveQ[j][1] = p}}
                 add  == {readyQ[i][2] : i \in {j \in 1..Len(readyQ) : readyQ[j][1] = p}}
             IN  LAddBlocks(LForget(L[p], gone), add)]

(* The first peer, in the map's iteration order, whose ledger has something *)
(* to send.                                                                 *)
Senders(L) == {p \in Peers : L[p] # NoLedger /\ ~LIsEmpty(L[p])}

FirstSender(S) ==
    CHOOSE p \in S : \E i \in 1..Len(PeerOrder) :
        /\ PeerOrder[i] = p
        /\ \A j \in 1..(i - 1) : PeerOrder[j] \notin S

(* With no queued action: drain the channels, then return the first        *)
(* ledger's message to the swarm, or Pending.                              *)
PollLedgers ==
    /\ events = <<>>
    /\ Cardinality(inflight) < MaxInflight
    /\ LET L == Drained(ledgers)
           S == Senders(L)
       IN  /\ readyQ # <<>> \/ dontHaveQ # <<>> \/ S # {}
           /\ ledgers' = IF S = {} THEN L
                         ELSE [L EXCEPT ![FirstSender(S)] = LDrained(@)]
           /\ inflight' = IF S = {} THEN inflight
                          ELSE inflight \cup {[peer |-> FirstSender(S),
                                               msg |-> LMessage(L[FirstSender(S)])]}
    /\ readyQ' = <<>>
    /\ dontHaveQ' = <<>>
    /\ UNCHANGED <<events, targetPeers, wanted>>
    /\ UNCHANGED <<conns, dialing, remoteView>>

Poll == PollEvent \/ PollLedgers

-----------------------------------------------------------------------------

Init ==
    /\ events = <<>>
    /\ targetPeers = {}
    /\ ledgers = [p \in Peers |-> NoLedger]
    /\ wanted = NoWants
    /\ readyQ = <<>>
    /\ dontHaveQ = <<>>
    /\ conns = [p \in Peers |-> 0]
    /\ dialing = {}
    /\ inflight = {}
    /\ remoteView = [p \in Peers |-> {}]

(* What user code and other tasks may call. *)
UserNext ==
    \/ \E p \in Peers : Connect(p)
    \/ \E c \in Cids, pr \in Prios :
          \/ WantBlock(c, pr)
          \/ \E ps \in SUBSET Peers : WantBlockFromPeers(c, pr, ps)
    \/ \E c \in Cids : CancelBlock(c) \/ DontHave(c)
    \/ \E p \in Peers, c \in Cids :
          SendBlock(p, c) \/ QueueBlock(p, c) \/ QueueDontHave(p, c)

(* What the swarm and the remote peers do. *)
NetworkNext ==
    \/ \E p \in Peers :
          ConnectionEstablished(p) \/ ConnectionClosed(p) \/ DialFailure(p)
    \/ \E m \in inflight : Deliver(m)
    \/ \E p \in Peers, m \in RxMessages : HandlerRx(p, m)

Next == UserNext \/ NetworkNext \/ Poll

Spec == Init /\ [][Next]_vars

-----------------------------------------------------------------------------
(* Properties. *)

TypeOK ==
    /\ events \in Seq(Events) /\ Len(events) <= MaxEvents
    /\ targetPeers \subseteq Peers
    /\ ledgers \in [Peers -> Ledgers \cup {NoLedger}]
    /\ wanted \in WantMaps
    /\ readyQ \in Seq(Peers \X Cids) /\ dontHaveQ \in Seq(Peers \X Cids)
    /\ conns \in [Peers -> 0..MaxConns]
    /\ dialing \subseteq Peers
    /\ inflight \subseteq [peer : Peers, msg : Messages]
    /\ remoteView \in [Peers -> SUBSET Cids]

(* A ledger never asks its peer for a block we no longer want: cancel_block *)
(* (from the user, or on a block received from any peer) withdraws the     *)
(* want from every ledger at once, and no later step puts it back in one   *)
(* without putting it back in the wantlist.                                *)
LedgerWantsWanted ==
    \A p \in Connected : Keys(ledgers[p].sentWants) \subseteq Keys(wanted)

(* poll (behaviour.rs 378-392) drains queued_blocks through send_block   *)
(* before it picks a ledger to send: a block another task queued for a    *)
(* peer that has a ledger is, once that poll has run, queued in the        *)
(* peer's ledger or in the message handed to the swarm -- never lost       *)
(* between the channel and the ledger, whatever connection events and     *)
(* other peers' messages came between the send and the poll.              *)
BlocksKeptStep ==
    readyQ' = <<>> =>
        \A i \in 1..Len(readyQ) :
            LET p == readyQ[i][1]
                c == readyQ[i][2]
            IN  HasLedger(p) =>
                  \/ c \in ledgers'[p].queued
                  \/ \E m \in inflight' : m.peer = p /\ c \in m.msg.blocks

QueuedBlocksKept == [][BlocksKeptStep]_vars

(* Spec 8: every CID of wanted_blocks is in the sent_want_list of every     *)
(* connected peer's ledger (ConnectionEstablished starts a fresh ledger).   *)
WantMirrored ==
    \A p \in Connected : Keys(wanted) \subseteq Keys(ledgers[p].sentWants)

(* Nothing more for p is on its way: no queued NotifyHandler, no message  *)
(* in flight, nothing left in its ledger.                                  *)
QuietFor(p) ==
    /\ \A i \in 1..Len(events) : events[i].kind = "Notify" => events[i].peer # p
    /\ InflightTo(p) = {}
    /\ HasLedger(p) => LIsEmpty(ledgers[p])

(* Once everything we sent p has arrived, p does not hold a want of ours  *)
(* that we have cancelled (or received): its want list for us is within   *)
(* our wantlist.                                                           *)
NoPhantomWant ==
    \A p \in Peers : QuietFor(p) => remoteView[p] \subseteq Keys(wanted)

(* While the swarm holds a connection to p, the behaviour has a ledger for *)
(* p, so send_block and want_block reach it.                               *)
LiveConnHasLedger ==
    \A p \in Peers : conns[p] > 0 => HasLedger(p)

-----------------------------------------------------------------------------
(* Liveness.  Calls that take &mut Bitswap (connect, want_block,         *)
(* cancel_block, send_block, dont_have) run in the task that owns the      *)
(* Swarm, between two Swarm polls; a Swarm poll polls the behaviour until  *)
(* it returns Pending, so those calls see an idle behaviour.  The other    *)
(* tasks' channel sends may come at any time.  The swarm polls again after *)
(* every Ready, and a message handed to a connection handler is delivered  *)
(* unless its connection closes (MaxInflight bounds the model only).       *)
OwnerCall ==
    \/ \E p \in Peers : Connect(p)
    \/ \E c \in Cids, pr \in Prios :
          \/ WantBlock(c, pr)
          \/ \E ps \in SUBSET Peers : WantBlockFromPeers(c, pr, ps)
    \/ \E c \in Cids : CancelBlock(c) \/ DontHave(c)
    \/ \E p \in Peers, c \in Cids : SendBlock(p, c)

OtherTaskSend == \E p \in Peers, c \in Cids : QueueBlock(p, c) \/ QueueDontHave(p, c)

LoopNext == (SwarmIdle /\ OwnerCall) \/ OtherTaskSend \/ NetworkNext \/ Poll

FairSpec ==
    /\ Init
    /\ [][LoopNext]_vars
    /\ WF_vars(Poll)
    /\ WF_vars(\E m \in inflight : Deliver(m))

(* Spec 4.C asks poll to rotate its starting peer "to avoid starving the   *)
(* tail": a block queued for a connected peer is eventually sent to it     *)
(* (leaves its ledger), or the peer disconnects.                           *)
QueuedBlockSent ==
    \A p \in Peers, c \in Cids :
        (HasLedger(p) /\ c \in ledgers[p].queued)
            ~> (~HasLedger(p) \/ c \notin ledgers[p].queued)

=============================================================================
