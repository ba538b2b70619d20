---------------------------- MODULE BitswapProofs ----------------------------
(***************************************************************************)
(* Proofs that the Bitswap ledgers never want what the wantlist does not, *)
(* for every set of peers, CIDs and priorities and every bound.           *)
(***************************************************************************)
EXTENDS Bitswap, WellFoundedInduction, TLAPS

(* The part of the type invariant the ledger properties need. *)
LedgerTypeOK ==
    /\ ledgers \in [Peers -> Ledgers \cup {NoLedger}]
    /\ wanted \in WantMaps

(* The ledger (spec 3, 4.B) never holds both a want and a queued cancel of *)
(* one CID: want_block drops the cancel, cancel_block drops the want.  It  *)
(* follows from the ledger operations alone and is needed here only to     *)
(* keep IInv inductive.                                                    *)
WantCancelExclusive ==
    \A p \in Connected :
        ledgers[p].cancels \cap Keys(ledgers[p].sentWants) = {}

IInv == LedgerTypeOK /\ LedgerWantsWanted /\ WantCancelExclusive

(* The channels queued_blocks and dont_have carry (peer, CID) pairs. *)
QueuesTypeOK ==
    /\ readyQ \in Seq(Peers \X Cids)
    /\ dontHaveQ \in Seq(Peers \X Cids)

Inv == IInv /\ QueuesTypeOK

(* A step that leaves each ledger's sentWants and cancels as they were, or *)
(* only empties the cancels, and keeps the wantlist, preserves IInv.        *)
LEMMA KeepsWantsIInv ==
    ASSUME IInv,
           NEW L,
           L \in [Peers -> Ledgers \cup {NoLedger}],
           \A p \in Peers : L[p] = NoLedger <=> ledgers[p] = NoLedger,
           \A p \in Peers : L[p] # NoLedger =>
                /\ L[p].sentWants = ledgers[p].sentWants
                /\ L[p].cancels \subseteq ledgers[p].cancels,
           ledgers' = L,
           wanted' = wanted
    PROVE  IInv'
BY DEF IInv, LedgerTypeOK, LedgerWantsWanted, WantCancelExclusive,
       Connected, HasLedger

(* Setting one entry of a CID -> priority map adds that CID to its keys. *)
LEMMA KeysSet ==
    ASSUME NEW w \in WantMaps, NEW c \in Cids, NEW pr \in Prios
    PROVE  /\ [w EXCEPT ![c] = pr] \in WantMaps
           /\ Keys([w EXCEPT ![c] = pr]) = Keys(w) \cup {c}
BY BitswapAssumption DEF WantMaps, Keys

(* Clearing one entry removes that CID from its keys. *)
LEMMA KeysClear ==
    ASSUME NEW w \in WantMaps, NEW c \in Cids
    PROVE  /\ [w EXCEPT ![c] = NoPrio] \in WantMaps
           /\ Keys([w EXCEPT ![c] = NoPrio]) = Keys(w) \ {c}
BY DEF WantMaps, Keys

(* The fresh ledger of ConnectionEstablished wants nothing. *)
LEMMA EmptyLedgerParts ==
    /\ EmptyLedger \in Ledgers
    /\ Keys(EmptyLedger.sentWants) = {}
    /\ EmptyLedger.cancels = {}
BY DEF EmptyLedger, Ledger, Ledgers, NoWants, WantMaps, Keys

(* Replacing one peer's ledger by a fresh one, or removing it, keeps IInv. *)
LEMMA ResetLedgerIInv ==
    ASSUME IInv,
           NEW q \in Peers,
           NEW v \in {EmptyLedger, NoLedger},
           ledgers' = [ledgers EXCEPT ![q] = v],
           wanted' = wanted
    PROVE  IInv'
<1>1. LedgerTypeOK'
  BY EmptyLedgerParts DEF IInv, LedgerTypeOK
<1>2. ASSUME NEW p \in Peers, ledgers'[p] # NoLedger
      PROVE  /\ Keys(ledgers'[p].sentWants) \subseteq Keys(wanted')
             /\ ledgers'[p].cancels \cap Keys(ledgers'[p].sentWants) = {}
  <2>1. CASE p = q
    BY <1>2, <2>1, EmptyLedgerParts DEF IInv, LedgerTypeOK
  <2>2. CASE p # q
    BY <1>2, <2>2
    DEF IInv, LedgerTypeOK, LedgerWantsWanted, WantCancelExclusive,
        Connected, HasLedger
  <2>. QED
    BY <2>1, <2>2
<1>. QED
  BY <1>1, <1>2
  DEF IInv, LedgerWantsWanted, WantCancelExclusive, Connected, HasLedger

(* A ledger built from well-typed parts is a ledger, with those parts. *)
LEMMA LedgerParts ==
    ASSUME NEW sw \in WantMaps, NEW pe \in SUBSET Cids, NEW ca \in SUBSET Cids,
           NEW qu \in SUBSET Cids, NEW rw \in WantMaps
    PROVE  /\ Ledger(sw, pe, ca, qu, rw) \in Ledgers
           /\ Ledger(sw, pe, ca, qu, rw).sentWants = sw
           /\ Ledger(sw, pe, ca, qu, rw).cancels = ca
BY DEF Ledger, Ledgers

(* want_block and want_block_from_peers put the want in the ledgers they   *)
(* touch and in the wantlist, and withdraw its queued cancel.               *)
LEMMA LWantBlockParts ==
    ASSUME NEW l \in Ledgers, NEW c \in Cids, NEW pr \in Prios
    PROVE  /\ LWantBlock(l, c, pr) \in Ledgers
           /\ LWantBlock(l, c, pr).sentWants = [l.sentWants EXCEPT ![c] = pr]
           /\ LWantBlock(l, c, pr).cancels = l.cancels \ {c}
BY DEF LWantBlock, Ledger, Ledgers, WantMaps

LEMMA WantBlockIInv ==
    ASSUME IInv, NEW c \in Cids, NEW pr \in Prios,
           \/ WantBlock(c, pr)
           \/ \E ps \in SUBSET Peers : WantBlockFromPeers(c, pr, ps)
    PROVE  IInv'
<1>. USE DEF IInv, LedgerTypeOK
<1>1. wanted' = [wanted EXCEPT ![c] = pr]
  BY DEF WantBlock, WantBlockFromPeers
<1>2. wanted' \in WantMaps /\ Keys(wanted') = Keys(wanted) \cup {c}
  BY <1>1, KeysSet
<1>3. \A p \in Peers : \/ ledgers'[p] = ledgers[p]
                       \/ ledgers[p] # NoLedger
                          /\ ledgers'[p] = LWantBlock(ledgers[p], c, pr)
  BY DEF WantBlock, WantBlockFromPeers, ForAllLedgers, HasLedger
<1>4. ASSUME NEW p \in Peers
      PROVE  /\ ledgers'[p] \in Ledgers \cup {NoLedger}
             /\ ledgers'[p] # NoLedger =>
                  /\ Keys(ledgers'[p].sentWants) \subseteq Keys(wanted')
                  /\ ledgers'[p].cancels \cap Keys(ledgers'[p].sentWants) = {}
  <2>1. CASE ledgers'[p] = ledgers[p]
    BY <2>1, <1>2
    DEF LedgerWantsWanted, WantCancelExclusive, Connected, HasLedger
  <2>2. CASE ledgers[p] # NoLedger /\ ledgers'[p] = LWantBlock(ledgers[p], c, pr)
    <3>1. ledgers[p] \in Ledgers
      BY <2>2
    <3>2. Keys(ledgers[p].sentWants) \subseteq Keys(wanted)
          /\ ledgers[p].cancels \cap Keys(ledgers[p].sentWants) = {}
      BY <2>2 DEF LedgerWantsWanted, WantCancelExclusive, Connected, HasLedger
    <3>3. ledgers[p].sentWants \in WantMaps
      BY <3>1 DEF Ledgers
    <3>4. /\ LWantBlock(ledgers[p], c, pr) \in Ledgers
          /\ LWantBlock(ledgers[p], c, pr).sentWants
               = [ledgers[p].sentWants EXCEPT ![c] = pr]
          /\ LWantBlock(ledgers[p], c, pr).cancels = ledgers[p].cancels \ {c}
      BY <3>1, LWantBlockParts
    <3>5. Keys([ledgers[p].sentWants EXCEPT ![c] = pr])
            = Keys(ledgers[p].sentWants) \cup {c}
      BY <3>3, KeysSet
    <3>. QED
      BY <1>2, <2>2, <3>2, <3>4, <3>5, NoLedgerAssumption
  <2>. QED
    BY <1>3, <2>1, <2>2
<1>5. ledgers' = [p \in Peers |-> ledgers'[p]]
  BY DEF WantBlock, WantBlockFromPeers, ForAllLedgers
<1>6. LedgerTypeOK'
  BY <1>2, <1>4, <1>5
<1>7. LedgerWantsWanted' /\ WantCancelExclusive'
  BY <1>4 DEF LedgerWantsWanted, WantCancelExclusive, Connected, HasLedger
<1>. QED
  BY <1>6, <1>7

(* cancel_block takes the want out of every ledger, queueing a cancel      *)
(* where it was present, and out of the wantlist.                          *)
LEMMA LCancelBlockParts ==
    ASSUME NEW l \in Ledgers, NEW c \in Cids
    PROVE  /\ LCancelBlock(l, c) \in Ledgers
           /\ LCancelBlock(l, c).sentWants = [l.sentWants EXCEPT ![c] = NoPrio]
           /\ LCancelBlock(l, c).cancels \subseteq l.cancels \cup {c}
<1>1. CASE l.sentWants[c] # NoPrio
  BY <1>1 DEF LCancelBlock, Ledger, Ledgers, WantMaps
<1>2. CASE l.sentWants[c] = NoPrio
  <2>1. [l.sentWants EXCEPT ![c] = NoPrio] = l.sentWants
    BY <1>2 DEF Ledgers, WantMaps
  <2>. QED
    BY <1>2, <2>1 DEF LCancelBlock
<1>. QED
  BY <1>1, <1>2

LEMMA CancelBlockIInv ==
    ASSUME IInv, NEW c \in Cids, CancelBlock(c)
    PROVE  IInv'
<1>. USE DEF IInv, LedgerTypeOK
<1>1. wanted' = [wanted EXCEPT ![c] = NoPrio]
  BY DEF CancelBlock, CancelBlockState
<1>2. wanted' \in WantMaps /\ Keys(wanted') = Keys(wanted) \ {c}
  BY <1>1, KeysClear
<1>3. \A p \in Peers : ledgers'[p] = IF ledgers[p] # NoLedger
                                     THEN LCancelBlock(ledgers[p], c)
                                     ELSE NoLedger
  BY DEF CancelBlock, CancelBlockState, ForAllLedgers, HasLedger
<1>4. ASSUME NEW p \in Peers
      PROVE  /\ ledgers'[p] \in Ledgers \cup {NoLedger}
             /\ ledgers'[p] # NoLedger =>
                  /\ Keys(ledgers'[p].sentWants) \subseteq Keys(wanted')
                  /\ ledgers'[p].cancels \cap Keys(ledgers'[p].sentWants) = {}
  <2>1. CASE ledgers[p] = NoLedger
    BY <1>3, <2>1
  <2>2. CASE ledgers[p] # NoLedger
    <3>1. ledgers[p] \in Ledgers /\ ledgers[p].sentWants \in WantMaps
      BY <2>2 DEF Ledgers
    <3>2. Keys(ledgers[p].sentWants) \subseteq Keys(wanted)
          /\ ledgers[p].cancels \cap Keys(ledgers[p].sentWants) = {}
      BY <2>2 DEF LedgerWantsWanted, WantCancelExclusive, Connected, HasLedger
    <3>3. ledgers'[p] = LCancelBlock(ledgers[p], c)
      BY <1>3, <2>2
    <3>4. /\ LCancelBlock(ledgers[p], c) \in Ledgers
          /\ LCancelBlock(ledgers[p], c).sentWants
               = [ledgers[p].sentWants EXCEPT ![c] = NoPrio]
          /\ LCancelBlock(ledgers[p], c).cancels \subseteq ledgers[p].cancels \cup {c}
      BY <3>1, LCancelBlockParts
    <3>5. Keys([ledgers[p].sentWants EXCEPT ![c] = NoPrio])
            = Keys(ledgers[p].sentWants) \ {c}
      BY <3>1, KeysClear
    <3>. QED
      BY <1>2, <3>2, <3>3, <3>4, <3>5, NoLedgerAssumption
  <2>. QED
    BY <2>1, <2>2
<1>5. ledgers' = [p \in Peers |-> ledgers'[p]]
  BY DEF CancelBlock, CancelBlockState, ForAllLedgers
<1>6. LedgerTypeOK'
  BY <1>2, <1>4, <1>5
<1>7. LedgerWantsWanted' /\ WantCancelExclusive'
  BY <1>4 DEF LedgerWantsWanted, WantCancelExclusive, Connected, HasLedger
<1>. QED
  BY <1>6, <1>7

(* add_block, received_want_list.remove and send() leave the wants and    *)
(* the cancels as they were, or (send) empty the cancels.                  *)
LEMMA LAddBlocksParts ==
    ASSUME NEW l \in Ledgers, NEW cs \in SUBSET Cids
    PROVE  /\ LAddBlocks(l, cs) \in Ledgers
           /\ LAddBlocks(l, cs).sentWants = l.sentWants
           /\ LAddBlocks(l, cs).cancels = l.cancels
BY DEF LAddBlocks, Ledger, Ledgers

LEMMA LForgetParts ==
    ASSUME NEW l \in Ledgers, NEW cs
    PROVE  /\ LForget(l, cs) \in Ledgers
           /\ LForget(l, cs).sentWants = l.sentWants
           /\ LForget(l, cs).cancels = l.cancels
BY DEF LForget, Ledger, Ledgers, WantMaps

LEMMA LDrainedParts ==
    ASSUME NEW l \in Ledgers
    PROVE  /\ LDrained(l) \in Ledgers
           /\ LDrained(l).sentWants = l.sentWants
           /\ LDrained(l).cancels = {}
BY DEF LDrained, Ledger, Ledgers

(* A non-empty set of naturals has a least element. *)
LtNat == OpToRel(<, Nat)

LEMMA LtNatWellFounded == IsWellFoundedOn(LtNat, Nat)
BY NatLessThanWellFounded, Zenon DEF LtNat

LEMMA LeastNat ==
    ASSUME NEW T \in SUBSET Nat, T # {}
    PROVE  \E x \in T : \A y \in T : ~(y < x)
<1>1. \E x \in T : \A y \in T : ~(<<y, x>> \in LtNat)
  BY LtNatWellFounded, WFMin, Zenon
<1>2. \A x, y \in Nat : <<y, x>> \in LtNat <=> y < x
  BY DEF LtNat, OpToRel
<1>. QED
  BY <1>1, <1>2

(* poll serves a peer that has something to send: the first of the set in *)
(* PeerOrder exists because PeerOrder lists every peer.                    *)
LEMMA FirstSenderIn ==
    ASSUME NEW S \in SUBSET Peers, S # {}
    PROVE  FirstSender(S) \in S
<1>. DEFINE I == {i \in 1..Len(PeerOrder) : PeerOrder[i] \in S}
<1>a. I \in SUBSET Nat
  OBVIOUS
<1>b. PICK s \in S : TRUE
  OBVIOUS
<1>c. PICK k \in 1..Len(PeerOrder) : PeerOrder[k] = s
  BY <1>b, BitswapAssumption
<1>1. I \in SUBSET Nat /\ I # {}
  BY <1>a, <1>b, <1>c
<1>2. PICK i0 \in I : \A j \in I : ~(j < i0)
  BY <1>1, LeastNat
<1>3. \E i \in 1..Len(PeerOrder) :
         /\ PeerOrder[i] = PeerOrder[i0]
         /\ \A j \in 1..(i - 1) : PeerOrder[j] \notin S
  BY <1>2
<1>4. PeerOrder[i0] \in S
  BY <1>2
<1>. QED
  BY <1>3, <1>4 DEF FirstSender

(* Steps that touch neither the ledgers nor the wantlist keep IInv. *)
LEMMA UnchangedIInv ==
    ASSUME IInv, ledgers' = ledgers, wanted' = wanted
    PROVE  IInv'
BY DEF IInv, LedgerTypeOK, LedgerWantsWanted, WantCancelExclusive,
       Connected, HasLedger

LEMMA SendBlockIInv ==
    ASSUME IInv, NEW p \in Peers, NEW c \in Cids, SendBlock(p, c)
    PROVE  IInv'
<1>. USE DEF IInv, LedgerTypeOK
<1>1. ledgers' = [q \in Peers |-> IF q = p /\ ledgers[q] # NoLedger
                                  THEN LAddBlocks(ledgers[q], {c})
                                  ELSE ledgers[q]]
  BY DEF SendBlock, SendBlockTo, LAddBlock
<1>2. ASSUME NEW q \in Peers, ledgers[q] # NoLedger
      PROVE  /\ LAddBlocks(ledgers[q], {c}) \in Ledgers
             /\ LAddBlocks(ledgers[q], {c}).sentWants = ledgers[q].sentWants
             /\ LAddBlocks(ledgers[q], {c}).cancels = ledgers[q].cancels
  BY <1>2, LAddBlocksParts
<1>3. ledgers' \in [Peers -> Ledgers \cup {NoLedger}]
  BY <1>1, <1>2
<1>4. \A q \in Peers : ledgers'[q] = NoLedger <=> ledgers[q] = NoLedger
  BY <1>1, <1>2, NoLedgerAssumption
<1>5. \A q \in Peers : ledgers'[q] # NoLedger =>
         /\ ledgers'[q].sentWants = ledgers[q].sentWants
         /\ ledgers'[q].cancels \subseteq ledgers[q].cancels
  BY <1>1, <1>2
<1>6. wanted' = wanted
  BY DEF SendBlock
<1>. QED
  BY <1>3, <1>4, <1>5, <1>6, KeepsWantsIInv

LEMMA DontHaveIInv ==
    ASSUME IInv, NEW c \in Cids, DontHave(c)
    PROVE  IInv'
<1>. USE DEF IInv, LedgerTypeOK
<1>1. ledgers' = [q \in Peers |-> IF ledgers[q] # NoLedger
                                  THEN LForget(ledgers[q], {c})
                                  ELSE NoLedger]
  BY DEF DontHave, ForAllLedgers, HasLedger
<1>2. ASSUME NEW q \in Peers, ledgers[q] # NoLedger
      PROVE  /\ LForget(ledgers[q], {c}) \in Ledgers
             /\ LForget(ledgers[q], {c}).sentWants = ledgers[q].sentWants
             /\ LForget(ledgers[q], {c}).cancels = ledgers[q].cancels
  BY <1>2, LForgetParts
<1>3. ledgers' \in [Peers -> Ledgers \cup {NoLedger}]
  BY <1>1, <1>2
<1>4. \A q \in Peers : ledgers'[q] = NoLedger <=> ledgers[q] = NoLedger
  BY <1>1, <1>2, NoLedgerAssumption
<1>5. \A q \in Peers : ledgers'[q] # NoLedger =>
         /\ ledgers'[q].sentWants = ledgers[q].sentWants
         /\ ledgers'[q].cancels \subseteq ledgers[q].cancels
  BY <1>1, <1>2
<1>6. wanted' = wanted
  BY DEF DontHave
<1>. QED
  BY <1>3, <1>4, <1>5, <1>6, KeepsWantsIInv

(* send() after both channels are drained: the served ledger loses its     *)
(* cancels, every ledger keeps its wants.                                   *)
LEMMA PollLedgersIInv ==
    ASSUME Inv, PollLedgers
    PROVE  IInv'
<1>. USE DEF Inv, IInv, LedgerTypeOK
<1>. DEFINE L == Drained(ledgers)
            S == Senders(L)
<1>1. ASSUME NEW q \in Peers, ledgers[q] = NoLedger
      PROVE  L[q] = NoLedger
  BY <1>1 DEF Drained
<1>2. ASSUME NEW q \in Peers, ledgers[q] # NoLedger
      PROVE  /\ L[q] \in Ledgers
             /\ L[q].sentWants = ledgers[q].sentWants
             /\ L[q].cancels = ledgers[q].cancels
  <2>. DEFINE gone == {dontHaveQ[i][2] :
                         i \in {j \in 1..Len(dontHaveQ) : dontHaveQ[j][1] = q}}
              add  == {readyQ[i][2] :
                         i \in {j \in 1..Len(readyQ) : readyQ[j][1] = q}}
  <2>1. L[q] = LAddBlocks(LForget(ledgers[q], gone), add)
    BY <1>2 DEF Drained
  <2>2. add \in SUBSET Cids
    BY DEF QueuesTypeOK
  <2>3. /\ LForget(ledgers[q], gone) \in Ledgers
        /\ LForget(ledgers[q], gone).sentWants = ledgers[q].sentWants
        /\ LForget(ledgers[q], gone).cancels = ledgers[q].cancels
    BY <1>2, LForgetParts
  <2>. QED
    BY <2>1, <2>2, <2>3, LAddBlocksParts
<1>3. S \subseteq Peers /\ \A q \in S : L[q] # NoLedger
  BY DEF Senders
<1>4. ledgers' = IF S = {} THEN L
                 ELSE [L EXCEPT ![FirstSender(S)] = LDrained(L[FirstSender(S)])]
  BY DEF PollLedgers
<1>5. L = [q \in Peers |-> L[q]]
  BY DEF Drained
<1>6. ASSUME NEW q \in Peers
      PROVE  \/ ledgers'[q] = L[q]
             \/ L[q] # NoLedger /\ ledgers'[q] = LDrained(L[q])
  <2>1. CASE S = {}
    BY <1>4, <2>1
  <2>2. CASE S # {}
    <3>1. FirstSender(S) \in S
      BY <1>3, <2>2, FirstSenderIn
    <3>. QED
      BY <1>3, <1>4, <1>5, <2>2, <3>1
  <2>. QED
    BY <2>1, <2>2
<1>7. ledgers' = [q \in Peers |-> ledgers'[q]]
  BY <1>4, <1>5
<1>8. ASSUME NEW q \in Peers, L[q] # NoLedger
      PROVE  /\ LDrained(L[q]) \in Ledgers
             /\ LDrained(L[q]).sentWants = ledgers[q].sentWants
             /\ LDrained(L[q]).cancels = {}
  BY <1>1, <1>2, <1>8, LDrainedParts
<1>9. ledgers' \in [Peers -> Ledgers \cup {NoLedger}]
  BY <1>1, <1>2, <1>6, <1>7, <1>8
<1>10. \A q \in Peers : ledgers'[q] = NoLedger <=> ledgers[q] = NoLedger
  BY <1>1, <1>2, <1>6, <1>8, NoLedgerAssumption
<1>11. \A q \in Peers : ledgers'[q] # NoLedger =>
          /\ ledgers'[q].sentWants = ledgers[q].sentWants
          /\ ledgers'[q].cancels \subseteq ledgers[q].cancels
  BY <1>1, <1>2, <1>6, <1>8
<1>12. wanted' = wanted
  BY DEF PollLedgers
<1>. QED
  BY <1>9, <1>10, <1>11, <1>12, KeepsWantsIInv

(* Recording a message's cancels and new wants leaves what we asked of the *)
(* peer as it was.                                                          *)
LEMMA LReceiveParts ==
    ASSUME NEW l \in Ledgers, NEW m \in Messages, NEW cur \in WantMaps
    PROVE  /\ LReceive(l, m, cur) \in Ledgers
           /\ LReceive(l, m, cur).sentWants = l.sentWants
           /\ LReceive(l, m, cur).cancels = l.cancels
BY DEF LReceive, RecvWantsAfter, NewWants, Ledger, Ledgers, Messages,
       WantMaps, Keys

(* A message from p: its blocks are cancel_block'ed in every ledger and    *)
(* taken out of the wantlist, so both lose the same CIDs.                   *)
LEMMA HandlerRxIInv ==
    ASSUME IInv, NEW p \in Peers, NEW m \in Messages, HandlerRx(p, m)
    PROVE  IInv'
<1>. USE DEF IInv, LedgerTypeOK
<1>. DEFINE LR == [ledgers EXCEPT ![p] = LReceive(ledgers[p], m, wanted)]
            bs == m.blocks
<1>1. /\ ledgers' = CancelBlocks(LR, bs)
      /\ wanted' = [c \in Cids |-> IF c \in bs THEN NoPrio ELSE wanted[c]]
      /\ ledgers[p] # NoLedger
  BY DEF HandlerRx, HasLedger
<1>2. /\ LReceive(ledgers[p], m, wanted) \in Ledgers
      /\ LReceive(ledgers[p], m, wanted).sentWants = ledgers[p].sentWants
      /\ LReceive(ledgers[p], m, wanted).cancels = ledgers[p].cancels
  BY <1>1, LReceiveParts
<1>3. /\ \A q \in Peers : LR[q] = NoLedger <=> ledgers[q] = NoLedger
      /\ \A q \in Peers : LR[q] # NoLedger =>
            /\ LR[q] \in Ledgers
            /\ LR[q].sentWants = ledgers[q].sentWants
            /\ LR[q].cancels = ledgers[q].cancels
  BY <1>1, <1>2, NoLedgerAssumption
<1>4. bs \subseteq Cids
  BY DEF Messages
<1>5. wanted' \in WantMaps /\ Keys(wanted') = Keys(wanted) \ bs
  BY <1>1 DEF WantMaps, Keys
<1>6. ASSUME NEW q \in Peers
      PROVE  /\ ledgers'[q] \in Ledgers \cup {NoLedger}
             /\ ledgers'[q] # NoLedger =>
                  /\ Keys(ledgers'[q].sentWants) \subseteq Keys(wanted')
                  /\ ledgers'[q].cancels \cap Keys(ledgers'[q].sentWants) = {}
  <2>1. CASE LR[q] = NoLedger
    BY <1>1, <2>1 DEF CancelBlocks
  <2>2. CASE LR[q] # NoLedger
    <3>. DEFINE l == LR[q]
                sw2 == [c \in Cids |-> IF c \in bs THEN NoPrio ELSE l.sentWants[c]]
                ca2 == l.cancels \cup {c \in bs : l.sentWants[c] # NoPrio}
    <3>1. ledgers'[q] = Ledger(sw2, l.pending \ bs, ca2, l.queued, l.recvWants)
      BY <1>1, <2>2 DEF CancelBlocks
    <3>2. l \in Ledgers /\ ledgers[q] # NoLedger
      BY <1>3, <2>2
    <3>3. /\ ledgers'[q] \in Ledgers
          /\ ledgers'[q].sentWants = sw2
          /\ ledgers'[q].cancels = ca2
      BY <1>4, <3>1, <3>2 DEF Ledger, Ledgers, WantMaps
    <3>4. Keys(sw2) = Keys(l.sentWants) \ bs
      BY DEF Keys
    <3>5. /\ Keys(l.sentWants) \subseteq Keys(wanted)
          /\ l.cancels \cap Keys(l.sentWants) = {}
      BY <1>3, <3>2
      DEF LedgerWantsWanted, WantCancelExclusive, Connected, HasLedger
    <3>. QED
      BY <1>5, <3>3, <3>4, <3>5
  <2>. QED
    BY <2>1, <2>2
<1>7. ledgers' = [q \in Peers |-> ledgers'[q]]
  BY <1>1 DEF CancelBlocks
<1>8. LedgerTypeOK'
  BY <1>5, <1>6, <1>7
<1>9. LedgerWantsWanted' /\ WantCancelExclusive'
  BY <1>6 DEF LedgerWantsWanted, WantCancelExclusive, Connected, HasLedger
<1>. QED
  BY <1>8, <1>9

-----------------------------------------------------------------------------
(* The inductive invariant. *)

LEMMA InitInv == Init => Inv
BY DEF Init, Inv, IInv, LedgerTypeOK, QueuesTypeOK, NoWants, WantMaps,
       LedgerWantsWanted, WantCancelExclusive, Connected, HasLedger

(* Only the other tasks' sends and poll's drain touch the channels. *)
LEMMA QueuesTypeStep ==
    ASSUME QueuesTypeOK, [Next]_vars
    PROVE  QueuesTypeOK'
<1>1. CASE \E p \in Peers, c \in Cids : QueueBlock(p, c) \/ QueueDontHave(p, c)
  <2>1. PICK p \in Peers, c \in Cids : QueueBlock(p, c) \/ QueueDontHave(p, c)
    BY <1>1
  <2>2. <<p, c>> \in Peers \X Cids
    OBVIOUS
  <2>3. CASE QueueBlock(p, c)
    BY <2>2, <2>3 DEF QueueBlock, QueuesTypeOK
  <2>4. CASE QueueDontHave(p, c)
    BY <2>2, <2>4 DEF QueueDontHave, QueuesTypeOK
  <2>. QED
    BY <2>1, <2>3, <2>4
<1>2. CASE PollLedgers
  BY <1>2 DEF PollLedgers, QueuesTypeOK
<1>3. CASE ~(\E p \in Peers, c \in Cids : QueueBlock(p, c) \/ QueueDontHave(p, c))
           /\ ~PollLedgers
  <2>1. readyQ' = readyQ /\ dontHaveQ' = dontHaveQ
    BY <1>3
    DEF Next, UserNext, NetworkNext, Poll, vars, engineVars, swarmVars,
        Connect, WantBlock, WantBlockFromPeers, CancelBlock, DontHave,
        SendBlock, ConnectionEstablished, ConnectionClosed, DialFailure,
        Deliver, HandlerRx, PollEvent
  <2>. QED
    BY <2>1 DEF QueuesTypeOK
<1>. QED
  BY <1>1, <1>2, <1>3

LEMMA NextIInv ==
    ASSUME Inv, [Next]_vars
    PROVE  IInv'
<1>. USE DEF Inv
<1>1. CASE \E p \in Peers : Connect(p)
  BY <1>1, UnchangedIInv DEF Connect
<1>2. CASE \E c \in Cids, pr \in Prios :
             \/ WantBlock(c, pr)
             \/ \E ps \in SUBSET Peers : WantBlockFromPeers(c, pr, ps)
  BY <1>2, WantBlockIInv
<1>3. CASE \E c \in Cids : CancelBlock(c)
  BY <1>3, CancelBlockIInv
<1>4. CASE \E c \in Cids : DontHave(c)
  BY <1>4, DontHaveIInv
<1>5. CASE \E p \in Peers, c \in Cids : SendBlock(p, c)
  BY <1>5, SendBlockIInv
<1>6. CASE \E p \in Peers, c \in Cids : QueueBlock(p, c) \/ QueueDontHave(p, c)
  BY <1>6, UnchangedIInv DEF QueueBlock, QueueDontHave
<1>7. CASE \E p \in Peers : ConnectionEstablished(p)
  BY <1>7, ResetLedgerIInv DEF ConnectionEstablished
<1>8. CASE \E p \in Peers : ConnectionClosed(p)
  BY <1>8, ResetLedgerIInv DEF ConnectionClosed
<1>9. CASE \E p \in Peers : DialFailure(p)
  BY <1>9, UnchangedIInv DEF DialFailure, engineVars
<1>10. CASE \E m \in inflight : Deliver(m)
  BY <1>10, UnchangedIInv DEF Deliver, engineVars
<1>11. CASE \E p \in Peers, m \in RxMessages : HandlerRx(p, m)
  BY <1>11, HandlerRxIInv DEF RxMessages
<1>12. CASE PollEvent
  BY <1>12, UnchangedIInv DEF PollEvent
<1>13. CASE PollLedgers
  BY <1>13, PollLedgersIInv
<1>14. CASE UNCHANGED vars
  BY <1>14, UnchangedIInv DEF vars, engineVars
<1>. QED
  BY <1>1, <1>2, <1>3, <1>4, <1>5, <1>6, <1>7, <1>8, <1>9, <1>10, <1>11,
     <1>12, <1>13, <1>14 DEF Next, UserNext, NetworkNext, Poll

(* Inv is inductive. *)
THEOREM InvInvariant == Spec => []Inv
<1>1. Inv /\ [Next]_vars => Inv'
  BY NextIInv, QueuesTypeStep DEF Inv
<1>. QED
  BY InitInv, <1>1, PTL DEF Spec

(* However want_block, want_block_from_peers, cancel_block, received      *)
(* blocks, connection events and send() interleave, a ledger never holds a  *)
(* want that the local wantlist lacks (behaviour.rs want_block/cancel_block *)
(* and the Rx handler).                                                     *)
THEOREM LedgerWantsWantedInvariant == Spec => []LedgerWantsWanted
BY InvInvariant, PTL DEF Inv, IInv

-----------------------------------------------------------------------------
(* poll keeps the blocks it drains from queued_blocks.                     *)

(* A block drained for a peer with a ledger is in the drained ledger's     *)
(* queue, and so either still queued after poll or in the message sent.   *)
LEMMA PollKeepsQueued ==
    ASSUME Inv, PollLedgers, NEW i \in 1..Len(readyQ),
           ledgers[readyQ[i][1]] # NoLedger
    PROVE  \/ readyQ[i][2] \in ledgers'[readyQ[i][1]].queued
           \/ \E m \in inflight' : m.peer = readyQ[i][1]
                                   /\ readyQ[i][2] \in m.msg.blocks
<1>. DEFINE p == readyQ[i][1]
            c == readyQ[i][2]
            L == Drained(ledgers)
            S == Senders(L)
            gone == {dontHaveQ[k][2] :
                       k \in {j \in 1..Len(dontHaveQ) : dontHaveQ[j][1] = p}}
            add  == {readyQ[k][2] : k \in {j \in 1..Len(readyQ) : readyQ[j][1] = p}}
<1>1. p \in Peers /\ c \in Cids
  BY DEF Inv, QueuesTypeOK
<1>2. L[p] = LAddBlocks(LForget(ledgers[p], gone), add)
  BY <1>1 DEF Drained
<1>3. c \in add
  OBVIOUS
<1>a. LAddBlocks(LForget(ledgers[p], gone), add).queued
        = LForget(ledgers[p], gone).queued \cup add
  BY DEF LAddBlocks, Ledger
<1>4. c \in L[p].queued
  BY <1>2, <1>3, <1>a
<1>5. ledgers' = IF S = {} THEN L
                 ELSE [L EXCEPT ![FirstSender(S)] = LDrained(L[FirstSender(S)])]
  BY DEF PollLedgers
<1>6. inflight' = IF S = {} THEN inflight
                  ELSE inflight \cup {[peer |-> FirstSender(S),
                                       msg |-> LMessage(L[FirstSender(S)])]}
  BY DEF PollLedgers
<1>7. L = [q \in Peers |-> L[q]]
  BY DEF Drained
<1>8. CASE S = {}
  BY <1>4, <1>5, <1>8
<1>9. CASE S # {} /\ FirstSender(S) = p
  <2>1. [peer |-> p, msg |-> LMessage(L[p])] \in inflight'
    BY <1>6, <1>9
  <2>2. LMessage(L[p]).blocks = L[p].queued
    BY DEF LMessage
  <2>. QED
    BY <1>4, <2>1, <2>2
<1>10. CASE S # {} /\ FirstSender(S) # p
  <2>1. ledgers'[p] = L[p]
    BY <1>1, <1>5, <1>7, <1>10
  <2>. QED
    BY <1>4, <2>1
<1>. QED
  BY <1>8, <1>9, <1>10

(* Only poll empties queued_blocks: every other step keeps the channel or *)
(* appends to it.                                                          *)
LEMMA ReadyQOnlyDrainedByPoll ==
    ASSUME Inv, [Next]_vars, ~PollLedgers, readyQ # <<>>
    PROVE  readyQ' # <<>>
<1>1. readyQ \in Seq(Peers \X Cids)
  BY DEF Inv, QueuesTypeOK
<1>2. CASE \E p \in Peers, c \in Cids : QueueBlock(p, c)
  <2>1. PICK p \in Peers, c \in Cids : QueueBlock(p, c)
    BY <1>2
  <2>2. readyQ' = Append(readyQ, <<p, c>>)
    BY <2>1 DEF QueueBlock
  <2>. QED
    BY <1>1, <2>2
<1>3. CASE ~\E p \in Peers, c \in Cids : QueueBlock(p, c)
  <2>1. readyQ' = readyQ
    BY <1>3
    DEF Next, UserNext, NetworkNext, Poll, vars, engineVars, swarmVars,
        Connect, WantBlock, WantBlockFromPeers, CancelBlock, DontHave,
        SendBlock, QueueDontHave, ConnectionEstablished, ConnectionClosed,
        DialFailure, Deliver, HandlerRx, PollEvent
  <2>. QED
    BY <2>1
<1>. QED
  BY <1>2, <1>3

(* poll (behaviour.rs 378-392) never loses a block another task queued for *)
(* a peer that has a ledger: after the poll that drains queued_blocks, the *)
(* block is in the peer's ledger or in the message handed to the swarm,    *)
(* for every set of peers and CIDs and every bound.                        *)
THEOREM QueuedBlocksKeptTheorem == Spec => QueuedBlocksKept
<1>1. Inv /\ [Next]_vars => BlocksKeptStep
  <2> SUFFICES ASSUME Inv, [Next]_vars, readyQ' = <<>>,
                      NEW i \in 1..Len(readyQ), HasLedger(readyQ[i][1])
               PROVE  \/ readyQ[i][2] \in ledgers'[readyQ[i][1]].queued
                      \/ \E m \in inflight' : m.peer = readyQ[i][1]
                                              /\ readyQ[i][2] \in m.msg.blocks
    BY DEF BlocksKeptStep
  <2>1. readyQ # <<>>
    BY DEF Inv, QueuesTypeOK
  <2>2. PollLedgers
    BY <2>1, ReadyQOnlyDrainedByPoll
  <2>. QED
    BY <2>2, PollKeepsQueued DEF HasLedger
<1>. QED
  BY <1>1, InvInvariant, PTL DEF Spec, QueuedBlocksKept

=============================================================================
