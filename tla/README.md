# TLA+ models of rust-ipfs: pin store, Bitswap engine, UnixFS get

This directory holds TLA+ specifications of three stateful parts of the
repository, the TLC configurations that model-check them, and TLAPS proofs of
the invariants of all three (the UnixFS stream's terminal status, written
count and completed round trip included) and of the pin store's refinement of an abstract pin store. `PROJECT.json` lists, in machine-readable form:

- every component, and whether it is modelled;
- every run;
- the mutant that shows each checked property can fail;
- the source lines each definition translates (`map`);
- the findings;
- the hazards of the code, with the properties that cover them;
- the theorems.

## The system and its parts

| Part | Source | Module(s) |
|---|---|---|
| Pin store (`KvDataStore`, PinStore methods) | `src/src/repo/kv.rs` | `PinStore`, `PinStoreProofs`, `MCPinStore`; abstract: `PinModes`, `PinStoreRefinement` |
| Bitswap engine (`struct Bitswap`) | `src/deprecated/bitswap/src/behaviour.rs` | `Bitswap`, `BitswapProofs`, `BitswapTypeProofs`, `MCBitswap` |
| Bitswap `Ledger` / `Message` | not in this repository (spec §4.B) | inside `Bitswap`, marked spec_modelled |
| UnixFS `get` status stream | `src/src/unixfs/get.rs` | `UnixfsGet`, `UnixfsGetProofs`, `MCUnixfsGet` |
| UnixFS walker (`rust_unixfs::walk`) | not in this repository (spec §4.E) | an input of `UnixfsGet` |
| libp2p behaviour composition | `src/src/p2p/behaviour.rs` | not modelled |
| examples, connectivity tests, fixtures | `src/examples`, `src/tests`, `src/unixfs/src/test_support.rs` | not modelled (fixture shapes reused as TLC inputs) |

How the parts interact:

- **Pins and fetched blocks.** The node pins blocks it has fetched. Fetching goes through Bitswap, and `unixfs::get` fetches the blocks of a DAG through the same repo and Bitswap session.
- **No shared state.** The three parts share no state of their own, so each module models one part with its collaborators as environment:
  - the pin store's collaborator is a concurrent lister;
  - Bitswap's collaborators are the libp2p swarm, the remote peers and the user;
  - the stream's collaborators are the walker, the block provider, the file and the consumer.

## Pin store: `PinStore.tla`

### State

`db` maps each key `<<mode, cid>>` (`mode` ∈ {"d", "r", "i"}) to one of:

- `NoKey`: the key is absent;
- `Empty`: the direct and recursive values;
- a CID: the indirect value, naming its recursive root.

The DAG is the constant `Desc` (the references of each CID).

### Actions

Each of the four methods is one sled transaction, so each is one atomic step. Its guard, early returns and writes are translated from the code:

- `InsertDirectPin` (kv.rs 114–151);
- `InsertRecursivePin` (153–211), including its loop over references;
- `RemoveDirectPin` (213–238);
- `RemoveRecursivePin` (240–287).

`get_pinned_mode`, `is_not_pinned_or_pinned_indirectly` and `query` are operators.

### Listing

`list()` is a separate process, because its range scan (kv.rs 317) runs outside any transaction:

- `ListStart`, then one `ListStep` per key in key order, then `ListDrop`.
- `steady` is a history variable: it holds the CIDs that stay pinned, and is used only to state that the listing is complete.

### Runs

`MCPinStore` uses three CIDs `a → {b, c}` and `b → {c}`, so `c` is a shared descendant. That is the smallest DAG in which two recursive roots overlap.

- `pinstore_safety` (pass, about 157k states) checks:
  - `TypeOK`;
  - `AtMostOneMode` (spec §8: at most one key per CID);
  - `QueryIndirectSound`: `IndirectFrom(s)` names a live recursive root that reaches the CID;
  - the action property `InsertsNeverUnpin`;
  - `PinModesSpec`, the abstract specification below, as a PROPERTY.
- `pinstore_gc_safety` (violation, `DescendantsProtected`). The steps are `insert_direct_pin(a)`, `insert_recursive_pin(b)`, `remove_recursive_pin(a)`.
  - `remove_recursive_pin` accepts a directly pinned CID (kv.rs 259).
  - It then deletes the indirect key of `c` that `b` wrote.
  - `b` stays recursive while `c` is unpinned.
- `pinstore_listing` (violation, `ListingComplete`). A transaction that moves a key behind the scan cursor hides a CID that was pinned the whole time. Spec §4.D calls the listing a point-in-time scan; the comment at kv.rs 297–300 concedes it is not.

### Abstract pin store and refinement

`PinModes.tla` states spec §4.D without the key schema: each CID has one pin state `[mode, src]` (none, direct, recursive, or indirect from root `src`), and each of the four operations is one atomic step. In `PinStore.tla` the refinement mapping is

- `AbsPinOf(t, c)`: the mode is what `get_pinned_mode` finds first in probe order (d, r, i), and the source of an indirect pin is the value `query()` reads back from its key;
- `Abs == INSTANCE PinModes WITH pins <- AbsPins`, and `PinModesSpec == Abs!Spec`.

The abstract operations keep the code's semantics where it departs from the glossary. `RemoveDirect` of a recursive pin is `Ok` and changes nothing. `RemoveRecursive` also accepts a direct pin and unpins every indirect descendant, whichever root wrote it. With those semantics the refinement holds, and it is proved (below). So the `DescendantsProtected` finding is a property of the operations themselves, not of the key encoding.

## Bitswap engine: `Bitswap.tla`

### State

The engine's own state:

| Variable | Code |
|---|---|
| `events` | the `VecDeque` |
| `targetPeers` | `target_peers` |
| `ledgers` | `connected_peers`, with `NoLedger` where a peer has no entry |
| `wanted` | `wanted_blocks` |
| `readyQ`, `dontHaveQ` | the two channels |

The environment's state:

| Variable | What it holds |
|---|---|
| `conns` | live connections per peer, kept by the swarm |
| `dialing` | dials in progress |
| `inflight` | messages handed to a connection handler and not yet delivered |
| `remoteView[p]` | the CIDs peer `p` has recorded as wanted by us (its `received_want_list` for us) |

### Actions

User calls:

- `Connect`;
- `WantBlock`;
- `WantBlockFromPeers`;
- `CancelBlock`;
- `SendBlock`;
- `DontHave`;
- `QueueBlock` and `QueueDontHave`: another task sends on a channel.

Swarm callbacks:

- `ConnectionEstablished`, which includes `send_want_list`;
- `ConnectionClosed`;
- `DialFailure`, which the code ignores.

Inbound messages:

- `HandlerRx` is `on_connection_handler_event` with `Rx`. It takes cancels, then wants filtered by the wantlist snapshot, then blocks, each of which runs `cancel_block`.
- `Deliver` is the remote running that same code on one of our messages.

`poll` has two branches:

- `PollEvent` pops the head of `events`.
- `PollLedgers` drains both channels, then hands the first non-empty ledger in `PeerOrder` (the HashMap's iteration order) to the swarm.

### Environment, and why it is faithful

- **Connection events are per connection.** libp2p delivers `ConnectionEstablished` / `ConnectionClosed` once per connection, and the code ignores the established/remaining counts.
- **Messages to a peer are unordered and can be lost.** `OneShotHandler` sends each message on its own substream. So in-flight messages to a peer are an unordered set, and closing a connection loses some of them (all of them on the last connection).
- **Connection and handler events wait for an idle behaviour.** The libp2p `Swarm` polls the behaviour until it returns Pending before it handles a connection or handler event. So those actions require `SwarmIdle`: nothing queued, no ledger with something to send. User calls can come between any two steps.

  This is stricter than libp2p-swarm. The swarm polls its connection pool while a `NotifyHandler` waits for a busy connection, so a connection event can reach a behaviour that still has something queued. The model therefore never has a second `ConnectionEstablished` replace a ledger that holds queued blocks or cancels. Under `SwarmIdle` the replaced ledger has nothing left to send. That case is unexplored, and no finding claims it.
- **The remote mirrors our ledger.** A remote peer runs the same code and sees the same connection events, so its ledger for us exists exactly when ours for it does.
- **Simplifications.** Remote peers want nothing themselves, so every want they receive is recorded. What they send us is any one-entry message.

### Ledger

`Ledger` and `Message` are not in this repository. The ledger is a record (`sentWants`, `pending`, `cancels`, `queued`, `recvWants`) whose operations follow spec §4.B: `want_block` withdraws a queued cancel, `cancel_block` queues a cancel only for a want that was present, and `send` drains. These definitions are marked `spec_modelled` in the map.

Some facts follow from these operations alone, whatever `behaviour.rs` calls. One is that a ledger never holds a want and a cancel of one CID; another is that a want leaves only with a cancel. Such facts say nothing about this repository's code, so no run checks them. `WantCancelExclusive` appears only in `BitswapProofs`, as a conjunct that keeps the inductive invariant inductive.

### Runs

Bounds and why they are enough:

- **`MCBitswap.cfg`:** two peers, one CID, priority {1}, one connection per peer, 1 queued event, channels off, 1 message in flight. Two peers are enough for `cancel_block` on one peer's block to reach the other peer's ledger, and for poll's order to matter.
- **`MCBitswap_Live.cfg`:** one peer with up to two connections, 2 events, channel capacity 1, 2 messages in flight, under `FairSpec`. This covers the channels and multi-connection behaviour, and its `LoopNext` is the swarm's real scheduling, a subset of `Next`.
- Two CIDs do not finish within the time limit. Every property relates one CID's entries across ledgers and the wantlist, so one CID exercises each guard.

Runs:

- `bitswap_two_peers` (pass, `Spec`) checks:
  - `TypeOK`;
  - `LedgerWantsWanted`: a ledger never asks for a CID that is not wanted. `cancel_block`, called by the user or by the Rx handler for a block from any peer, withdraws the want from every ledger (behaviour.rs 242–247, 345).
- `bitswap_want_mirrored` (violation of spec §8's `WantMirrored`): a peer that connects after `want_block` gets a fresh, empty ledger.
- `bitswap_phantom_want` (violation of `NoPhantomWant`). The steps are `want_block(c)`, a connection, `cancel_block(c)`, poll, delivery. The wantlist was sent around the ledger, so no cancel is ever sent, and the remote keeps our want after everything has arrived.
- `bitswap_conn_ledger` (violation of `LiveConnHasLedger`): closing one of two connections drops the ledger of a peer that is still connected.

- `bitswap_starvation` (violation of `QueuedBlockSent` under `FairSpec`): two connected peers. Another task keeps sending blocks for the first peer in `PeerOrder`. `poll` (behaviour.rs 382) always returns the first peer's message, and the block queued for the second peer is never sent. Spec §4.C says implementations SHOULD rotate the start.
- `bitswap_live` (pass, under `FairSpec`, with the `MCBitswap_Live.cfg` bounds): `TypeOK` and `LedgerWantsWanted` again, with the channels and multi-connection behaviour. It also checks the action property `QueuedBlocksKept` and `QueuedBlockSent`.

  `QueuedBlocksKept` says that the poll which drains `queued_blocks` (behaviour.rs 378–392) leaves every block queued for a peer with a ledger in that ledger, or in the message handed to the swarm. Another task's send may be followed by connection events and inbound messages before the poll. The drain goes through `send_block`, which drops a block for a peer with no ledger. With nobody to starve it, a block queued for the one peer is eventually sent or its ledger removed.

Stats counters are advisory (spec §5) and change no control, so they are left out.

## UnixFS get: `UnixfsGet.tla`

### Model

The stream (get.rs 47–108) is lazy, so a step runs from one yield to the next:

- `FetchFails`;
- `SkipVisit` (bucket, directory, symlink);
- `DecodeFails`;
- `FileSegment` (the first segment sets `total_size` and yields);
- `WriteChunk`;
- `WriteFails` (a partial `write_all`, or a failed `sync_all`);
- `EmptySegment`;
- `SegmentDone`;
- `Complete`;
- `Drop`: the consumer drops the stream.

The write loop at lines 78–92 runs exactly once per non-empty segment: its first slice is the whole segment.

The walker is not in this repository. What it yields for a DAG is an input: a sequence of visits (kind, first, last, length, size) taken from `Walks`.

### Walks

`MCUnixfsGet` uses four walks:

- the foobar fixture of `test_support.rs` (a root file node and leaves of 2, 2, 2 and 1 bytes);
- a file of two 3-byte leaves;
- a directory with a bucket, a symlink and two one-segment files;
- a file whose second block does not decode.

### Runs

- `unixfs_get` (pass) checks:
  - `TypeOK`;
  - `TerminalLast` (spec §6): exactly one terminal status, and it comes last;
  - `CompletedWritesAll` (spec §8 round trip): a completed stream wrote every file byte exactly once and reports that count;
  - `WrittenIsFlushed` (spec §4.E): at every point, `written` equals the bytes in the destination file until a write fails part-way.
- `unixfs_usize_wrap` (violation, `WrittenIsFlushed`): `written` and `total_size` are `usize` (get.rs 67, 90), modelled modulo `UsizeMax`. The passing runs use 64 for a 64-bit build: no fixture comes near 2^64. Here `UsizeMax = 8` stands for 2^32 and a 12-byte file stands for one over 4 GiB. On such a 32-bit target `written` wraps in a release build (a debug build panics), and `total_size` is truncated.
- `unixfs_total_size` (violation, `TotalSizeImmutable`): on a directory walk, `total_size` is reset at each file's first segment (get.rs 66–67), contrary to spec §4.E/§8.

`CHECK_DEADLOCK FALSE` is set here only: a stream that has returned or been dropped really does stop.

## Fairness and liveness

The pin store and the UnixFS stream assume no fairness: their steps are user calls and consumer polls, and nothing in the code makes them happen.

Bitswap has `FairSpec == Init /\ [][LoopNext]_vars /\ WF_vars(Poll) /\ WF_vars(\E m \in inflight : Deliver(m))`:

- **Poll.** The libp2p swarm task polls its behaviour whenever the behaviour has woken it, until `poll` returns Pending. Queueing to the channels wakes it, so an enabled `Poll` stays enabled until taken.
- **Delivery.** A NotifyHandler message on an open connection reaches the handler unless the connection closes, and the model loses it on close.
- **Owner calls only at `SwarmIdle`.** `connect`, `want_block`, `cancel_block`, `send_block` and `dont_have` take `&mut Bitswap`. The swarm owns the behaviour, so the owner can call them only between swarm polls. Channel sends from other tasks (`QueueBlock`, `QueueDontHave`) can happen at any time.

Under these assumptions `QueuedBlockSent` holds for one peer and fails for two (the starvation finding).

## What is proved

`PinStoreProofs.tla` proves, for every set of CIDs, every DAG `Desc` and every scan order `CidOrder` allowed by the ASSUMEs of `PinStore`:

- `TypeCorrect`: `Spec => []TypeOK`;
- `AtMostOneModeInvariant`: `Spec => []AtMostOneMode`;
- `QueryIndirectSoundInvariant`: `Spec => []QueryIndirectSound`.

The ASSUMEs are:

- `Desc` is irreflexive;
- `NoKey` and `Empty` are not CIDs;
- `CidOrder` is an injective enumeration of `Cids`.

### The inductive invariant

The proofs rest on `IInv == TypeOK /\ AtMostOneMode /\ IndirectSound /\ ScanBound`.

- **IndirectSound.** It says every present indirect key's value `s` has its recursive key, and that the CID is in `Desc[s]`. `QueryIndirectSound` alone is not inductive, because `RemoveRecursivePin` must find and clear exactly the indirect keys that name the root it removes.
- **ScanBound.** It keeps the listing cursor in range, so `ScanKey` is well defined.

TLC checked `IInv` as an invariant before it was proved. The proof has one lemma per action (`InsertDirectPinIInv`, `InsertRecursivePinIInv`, `RemoveDirectPinIInv`, `RemoveRecursivePinIInv`, `ListNextIInv`), and a temporal step combines them with `PTL`.

### Bitswap

`BitswapProofs.tla` proves, for every set of peers, CIDs and priorities, every `PeerOrder` and every bound allowed by the ASSUMEs of `Bitswap`:

- `LedgerWantsWantedInvariant`: `Spec => []LedgerWantsWanted`;
- `QueuedBlocksKeptTheorem`: `Spec => QueuedBlocksKept`, the action property.

Both follow from `InvInvariant`: `Spec => []Inv`, where `Inv` is the conjunction of these parts:

- **Typing.** Every ledger is a `Ledgers` record or `NoLedger`, the wantlist is a `WantMaps`, and both channels hold (peer, CID) pairs.
- **`LedgerWantsWanted`.**
- **`WantCancelExclusive`.** This is the ledger fact above. It is carried in the invariant the per-action lemmas were written against, and is not a result of its own.

Typing is needed for two reasons:

- `NoLedger` is not a record, so a step cannot turn "no ledger" into a ledger by accident.
- `poll` adds the channel's CIDs to a ledger's `queued`.

Each action has its own lemma:

- `WantBlockIInv`, `CancelBlockIInv` and `HandlerRxIInv`: a CID enters or leaves a ledger's wants together with the wantlist, and a queued cancel is withdrawn when the CID is wanted again.
- `SendBlockIInv`, `DontHaveIInv` and `PollLedgersIInv`: these keep every ledger's wants, and keep or empty its cancels. They all go through one lemma, `KeepsWantsIInv`.
- `ResetLedgerIInv`: it covers `ConnectionEstablished` and `ConnectionClosed`.

`PollLedgersIInv` needs `FirstSenderIn`. That lemma says the peer `poll` serves is one that has something to send. It holds because `PeerOrder` lists every peer, and the least such index exists; that is `WFMin` on `<` over `Nat`.

`QueuedBlocksKeptTheorem` follows from `Inv` and two lemmas:

- `ReadyQOnlyDrainedByPoll`: every step but `PollLedgers` keeps the channel or appends to it, so only a poll empties it.
- `PollKeepsQueued`: a block drained for a peer with a ledger is in the drained ledger's `queued`. That ledger is then kept, unless it is the first sender, in which case its `queued` is exactly the blocks of the message put in flight.

`BitswapTypeProofs.tla` proves `TypeCorrect`: `IsFiniteSet(Cids) => (Spec => []TypeOK)`, the full type invariant the runs check. Its inductive invariant is `Inv` plus `SwarmTypeOK`, the remaining conjuncts:

- the events queue, within `MaxEvents`;
- target peers and dialing peers;
- connection counts in `0..MaxConns`;
- typed in-flight messages;
- the remote views.

The hypothesis that `Cids` is finite is the model's own precondition. The Rx handler lists a message's cancels, new wants and blocks with `SeqOf`, and its `MaxEvents` guard counts them with `Cardinality`. Both mean something only for finite sets, and a real message carries finitely many entries.

- `SeqOfType` shows that `SeqOf(S)` is a sequence of length `Cardinality(S)`. The witness of its `CHOOSE` is the bijection `FS_CardinalityType` provides.
- `RxEventsType` shows that the handler's events are `Events`, one per entry.
- `DrainedType` and `LMessageType` show that the message `poll` hands to the swarm is a `Message`.

The theorem quantifies over all of `Messages`, while the MC module restricts the messages to one entry. The proof therefore covers more behaviours than the runs do.

### UnixFS get

`UnixfsGetProofs.tla` proves, for every set of walks and every `UsizeMax` allowed by `UsizeAssumption` (a positive width):

- `TypeCorrect`: `Spec => []TypeOK`;
- `TerminalLastInvariant`: `Spec => []TerminalLast`;
- `WrittenIsFlushedInvariant`: `FitsUsize(B) => (Spec => []WrittenIsFlushed)`, for any `B`;
- `CompletedWritesAllInvariant`: `FitsUsize(B) => (Spec => []CompletedWritesAll)`, for any `B`;
- `CompletedSinkFullInvariant`: `Spec => []CompletedSinkFull`, with no hypothesis. A completed stream's destination holds `FileBytes(walk)` bytes. This is the half of `CompletedWritesAll` about the file, and it holds whatever the usize width.

The first two rest on `IInv == TypeOK /\ TerminalLast /\ OnSegment`.

- **OnSegment.** At the `write` and `after` suspension points, `pos` is a file visit of the walk. Without it, `WriteChunk` and `SegmentDone` would read `walk[pos]` out of range, and nothing could be said of `written'` or `pos'`.
- **TerminalLast.** It is inductive with the typing: while `pc # "end"`, no status in `out` is terminal (`LiveNoTerminal`). Every step appends one Progress and stays live, or appends one terminal status and moves to `end` (`TLAppend`, `TLLive`). `Drop` appends nothing.

`WrittenIsFlushed` rests on `FlushInv(B) == IInv /\ WrittenTracksSink /\ SinkBound(B)`.

- **WrittenTracksSink.** `written <= sink`, and the two are equal unless a `Failed` status was already yielded. A failed status stays in `out` (`FailedKept`), so the weaker disjunct survives every later step.
- **SinkBound(B).** Before visit `pos` the sink holds at most `(pos - 1) * B` bytes, and after it at most `pos * B`. It is what makes `(written + len) % UsizeMax` the plain sum: with `FitsUsize(B)`, the sum stays below `Len(walk) * B < UsizeMax` (`ModSmall`).

`FitsUsize(B)` says that no segment has more than `B` bytes and that a whole walk of `B`-byte segments stays below `usize::MAX`. On a 64-bit build it holds for any file a disk can hold. On a 32-bit build it does not hold for files of 4 GiB or more, and `unixfs_usize_wrap` shows `WrittenIsFlushed` failing there. The hypothesis is therefore the real condition of the property, not a convenience. TLC checked `FlushInv(3)` and `FitsUsize(3)` on the walks of `MCUnixfsGet` before the proof was written.

`CompletedWritesAll` compares the count with `FileBytes(walk)`. A running sum over the walk would need induction over the walk, which the provers cannot do. `FileBytes` is therefore a cardinality instead. Each byte of visit `i` is a pair `<<i, j>>` with `j` in `1..len` (`SegBytes`), and `FileBytes(w)` counts these pairs over the file visits of `w` (`BytesUpTo(w, Len(w))`). TLC computes the same numbers as before on every walk of the runs.

The proof rests on `CountInv(B) == FlushInv(B) /\ SinkCount /\ CompletedAtEnd`.

- **SinkCount.** While the stream runs, and after it completes, `sink` is the number of pairs in `BytesUpTo(walk, Done)`. `Done` is `pos - 1`, or `pos` once the cursor's segment has been written (`pc = "after"`). Each step that moves `Done` past a visit adds that visit's bytes to `sink`, and no other step changes `sink`. The counting lemmas are:
  - `BytesUpToStep`: the pairs up to `k + 1` are those up to `k`, plus visit `k + 1`'s own pairs if it is a file segment;
  - `BytesUpToDisjoint`: visit `k + 1`'s pairs are none of those up to `k`;
  - `SegBytesCard`: a visit of `n` bytes has `n` pairs.

  From these and `FS_Union`, `BytesUpToCard` gives the new count, with no induction.
- **CompletedAtEnd.** A `Completed` status is yielded only at `pos = Len(walk) + 1`, and it carries `written`.

At a `Completed` status, `TerminalLast` rules out a `Failed` one, so `WrittenTracksSink` gives `written = sink`. That equality needs `FitsUsize(B)`, as for `WrittenIsFlushed`. Without it, the first conjunct of `CompletedWritesAll` fails on a wrapping target for the same reason. The second conjunct needs no bound. `CompletedSinkFullInvariant` proves it from `IInv /\ SinkCount /\ CompletedAtEnd` alone: a wrapping counter misreports the download but does not corrupt the file. TLC agrees on the `unixfs_usize_wrap` instance. TLC checked `SinkCount /\ CompletedAtEnd` on `MCUnixfsGet` before the proof was written.

### Refinement

`PinStoreRefinement.tla` proves `PinStoreRefinesPinModes`: `Spec => PinModesSpec`, for the same constants. The argument follows.

- **Init.** The empty tree maps to all-unpinned.
- **Per action.** There is one lemma per transaction (`InsertDirectPinRefines`, `InsertRecursivePinRefines`, `RemoveDirectPinRefines`, `RemoveRecursivePinRefines`). Each computes `AbsPins'` CID by CID.
  - For the CID operated on, `AtMostOneMode` from `IInv` is needed: removing the one key `get_pinned_mode` found leaves no other key behind.
  - For every other CID, its three keys are unchanged, or changed exactly where the abstract operation changes its state (`AbsPinSameKeys`, `AbsPinOfKeys`).
  - `c \notin Desc[c]` keeps the reference loops off the root.
- **Stutter.** A listing step changes neither `db` nor `result`.

The theorem combines these with `IInvInvariant` by PTL.

The same lemmas prove `InsertsNeverUnpinTheorem`: `Spec => InsertsNeverUnpin`. An insert transaction is an abstract `InsertDirect` or `InsertRecursive`. Neither abstract operation maps a pinned state to "none": it replaces a pin by another pin, or turns an unpinned reference into an indirect pin. The abstract mode of a CID is what `get_pinned_mode` reads (`AbsPinsParts`).

### Out of TLAPS's reach

These stay with TLC:

- liveness and ENABLED (`QueuedBlockSent`);
- what a recursive definition computes for all inputs, since the induction theorems take an operator parameter that the provers cannot instantiate. No property depends on one: `FileBytes` is a cardinality, not a fold (see above);
- modules that reach a RECURSIVE operator. No module here does.

## Not modelled

- **`src/src/p2p/behaviour.rs`.** It builds the composed `NetworkBehaviour` from configuration (kademlia, gossipsub, identify, relay, autonat, bitswap) and forwards calls. Its own state is configuration and `Toggle` wrappers. The protocols it wires are external crates, so there is no control of this repository's own to model.
- **`src/examples`, `src/tests`.** These are harnesses that drive whole nodes over sockets. They change no state of their own.
- **Memory growth.** Neither the unbounded Bitswap channels (behaviour.rs 103) nor the unbounded listing channel (kv.rs 307) is modelled beyond a bounded capacity. Running out of memory is outside a finite-state model.

## Plan for further work

1. **Bitswap proofs, continued.** State and prove what `remoteView` guarantees once every message has arrived (the property `NoPhantomWant` shows it does not in general).
2. **Two engines.** Compose two Bitswap engines (spec scenario 1) so that both sides run the modelled code. Check duplicate `ReceivedBlock` from two providers.
3. **UnixfsGet.** Relate `totalSize` to `FileBytes` for a single-file walk: the first segment's `size` is the sum of the segment lengths. That is a property of the walker's input, which is not in this repository.
4. **Rotation.** Model the rotating start spec §4.C recommends, as a fix, and check `QueuedBlockSent` for two peers.
