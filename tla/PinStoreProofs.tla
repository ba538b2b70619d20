--------------------------- MODULE PinStoreProofs ---------------------------
(***************************************************************************)
(* Proofs about the pin store of PinStore.tla, for every set of CIDs and   *)
(* every DAG of references.                                                *)
(***************************************************************************)
EXTENDS PinStore, TLAPS

(* Every indirect key names, as its value, a CID that still has its        *)
(* recursive key and of which the indirectly pinned CID is a reference.    *)
IndirectSound ==
    \A c \in Cids : db[<<"i", c>>] # NoKey =>
        /\ db[<<"r", db[<<"i", c>>]>>] # NoKey
        /\ c \in Desc[db[<<"i", c>>]]

(* The lister reads a key of the range while it is scanning. *)
ScanBound == listState = "scanning" => listPos \in 1..NumScanKeys

(* The inductive invariant. *)
IInv == TypeOK /\ AtMostOneMode /\ IndirectSound /\ ScanBound
-----------------------------------------------------------------------------
(* What get_pinned_mode's probe returns, key by key. *)
LEMMA PinnedModeCases ==
    ASSUME NEW t, NEW c
    PROVE  /\ PinnedModeIn(t, c) \in {"d", "r", "i", "none"}
           /\ PinnedModeIn(t, c) = "d" <=> t[<<"d", c>>] # NoKey
           /\ PinnedModeIn(t, c) = "r" <=> t[<<"d", c>>] = NoKey /\ t[<<"r", c>>] # NoKey
           /\ PinnedModeIn(t, c) = "i" <=> /\ t[<<"d", c>>] = NoKey
                                           /\ t[<<"r", c>>] = NoKey
                                           /\ t[<<"i", c>>] # NoKey
           /\ PinnedModeIn(t, c) = "none" <=> /\ t[<<"d", c>>] = NoKey
                                              /\ t[<<"r", c>>] = NoKey
                                              /\ t[<<"i", c>>] = NoKey
BY DEF PinnedModeIn

(* The scan order has at least one CID. *)
LEMMA CidOrderLength == Len(CidOrder) \in Nat \ {0}
<1>1. PICK c0 \in Cids : TRUE
  BY CidOrderAssumption
<1>2. \E k \in 1..Len(CidOrder) : CidOrder[k] = c0
  BY <1>1, CidOrderAssumption
<1>3. QED
  BY <1>2, CidOrderAssumption

(* Every position of the scan reads a pin key. *)
LEMMA ScanKeyType ==
    ASSUME NEW k \in 1..NumScanKeys
    PROVE  ScanKey(k) \in Keys
<1> DEFINE L == Len(CidOrder)
           q == (k - 1) \div L
           r == (k - 1) % L
<1>1. L \in Nat \ {0}
  BY CidOrderLength
<1>2. q \in 0..2
  BY <1>1 DEF NumScanKeys
<1>3. r \in 0..(L - 1)
  BY <1>1
<1>4. ScanModeOrder[q + 1] \in Modes
  BY <1>2 DEF ScanModeOrder, Modes
<1>5. CidOrder[r + 1] \in Cids
  <2>1. CidOrder \in [1..L -> Cids]
    BY CidOrderAssumption
  <2>2. r + 1 \in 1..L
    BY <1>1, <1>3
  <2>3. QED
    BY <2>1, <2>2
<1>6. QED
  BY <1>4, <1>5 DEF ScanKey, Keys
-----------------------------------------------------------------------------
(* The parts of IInv that a store transaction cannot disturb: it leaves    *)
(* the lister's variables alone.                                           *)
LEMMA StoreStepListParts ==
    ASSUME IInv, UNCHANGED listVars, steady' \subseteq Cids,
           result' \in {"Ok", "Err"}
    PROVE  /\ ScanBound'
           /\ listState' \in {"idle", "scanning", "done", "dropped"}
           /\ listFilter' \in Filters
           /\ listPos' \in 1..(NumScanKeys + 1)
           /\ listed' \subseteq Cids \X Modes
           /\ steady' \subseteq Cids
           /\ result' \in {"Ok", "Err"}
BY DEF IInv, TypeOK, ScanBound, listVars

(* Observe keeps the history a set of CIDs. *)
LEMMA ObserveType ==
    ASSUME TypeOK, Observe
    PROVE  steady' \subseteq Cids
BY DEF TypeOK, Observe

(* insert_direct_pin preserves the invariant. *)
LEMMA InsertDirectPinIInv ==
    ASSUME IInv, NEW c \in Cids, InsertDirectPin(c)
    PROVE  IInv'
<1> DEFINE m == PinnedMode(c)
<1>1. m \in {"d", "r", "i", "none"}
  BY PinnedModeCases DEF PinnedMode
<1>2. /\ steady' \subseteq Cids
      /\ result' \in {"Ok", "Err"}
      /\ UNCHANGED listVars
  BY ObserveType DEF InsertDirectPin, IInv
<1>3. ScanBound' /\ TypeOK' <=> ScanBound' /\ (TypeOK!1 /\ TypeOK!2)'
  BY <1>2, StoreStepListParts DEF TypeOK
<1>4. CASE m \in {"d", "r"}
  <2>1. UNCHANGED db
    BY <1>4 DEF InsertDirectPin
  <2>2. QED
    BY <1>2, <1>3, <2>1, StoreStepListParts
       DEF IInv, TypeOK, AtMostOneMode, IndirectSound
<1>5. CASE m \in {"i", "none"}
  <2>1. db' = [RemoveKey(db, m, c) EXCEPT ![<<"d", c>>] = Empty]
    BY <1>5 DEF InsertDirectPin
  <2>2. /\ db[<<"r", c>>] = NoKey
        /\ db[<<"d", c>>] = NoKey
    BY <1>5, PinnedModeCases DEF PinnedMode
  <2>3. \A x \in Cids : x # c =>
            \A md \in Modes : db'[<<md, x>>] = db[<<md, x>>]
    BY <2>1 DEF RemoveKey, IInv, TypeOK, Keys
  <2>4. /\ db'[<<"d", c>>] = Empty
        /\ db'[<<"r", c>>] = NoKey
        /\ db'[<<"i", c>>] = NoKey
    <3>1. CASE m = "i"
      BY <3>1, <2>1, <2>2, ValueAssumption DEF RemoveKey, IInv, TypeOK, Keys, Modes
    <3>2. CASE m = "none"
      <4>1. db[<<"i", c>>] = NoKey
        BY <3>2, PinnedModeCases DEF PinnedMode
      <4>2. QED
        BY <3>2, <4>1, <2>1, <2>2, ValueAssumption DEF RemoveKey, IInv, TypeOK, Keys, Modes
    <3>3. QED
      BY <1>5, <3>1, <3>2
  <2>5. \A x \in Cids : db'[<<"r", x>>] = db[<<"r", x>>]
    BY <2>2, <2>3, <2>4 DEF Modes
  <2>6. (TypeOK!1 /\ TypeOK!2)'
    <3>1. RemoveKey(db, m, c) \in [Keys -> Cids \cup {Empty, NoKey}]
      BY DEF RemoveKey, IInv, TypeOK
    <3>2. db' \in [Keys -> Cids \cup {Empty, NoKey}]
      BY <3>1, <2>1 DEF Keys, Modes
    <3>3. \A x \in Cids : /\ db'[<<"d", x>>] \in {Empty, NoKey}
                          /\ db'[<<"r", x>>] \in {Empty, NoKey}
                          /\ db'[<<"i", x>>] \in Cids \cup {NoKey}
      BY <2>3, <2>4 DEF IInv, TypeOK, Modes
    <3>4. QED
      BY <3>2, <3>3
  <2>7. AtMostOneMode'
    BY <2>3, <2>4, ValueAssumption DEF IInv, AtMostOneMode, Modes
  <2>8. IndirectSound'
    BY <2>3, <2>4, <2>5 DEF IInv, IndirectSound, TypeOK, Modes
  <2>9. QED
    BY <1>3, <2>6, <2>7, <2>8, <1>2, StoreStepListParts DEF IInv
<1>6. QED
  BY <1>1, <1>4, <1>5
(* The keys of a CID other than the target, after insert_recursive_pin's  *)
(* loop: either it was a reference with no pin and now has exactly an     *)
(* indirect key naming the target, or its keys are as they were.           *)
LEMMA PinIndirectlyKeys ==
    ASSUME NEW t, NEW c \in Cids, NEW x \in Cids, x # c
    PROVE  LET u == PinIndirectly(t, c) IN
           \/ /\ x \in Desc[c]
              /\ PinnedModeIn(t, x) = "none"
              /\ u[<<"i", x>>] = c
              /\ u[<<"d", x>>] = t[<<"d", x>>]
              /\ u[<<"r", x>>] = t[<<"r", x>>]
           \/ \A md \in Modes : u[<<md, x>>] = t[<<md, x>>]
BY DEF PinIndirectly, Keys, Modes

(* insert_recursive_pin preserves the invariant. *)
LEMMA InsertRecursivePinIInv ==
    ASSUME IInv, NEW c \in Cids, InsertRecursivePin(c)
    PROVE  IInv'
<1> DEFINE m == PinnedMode(c)
           t1 == [RemoveKey(db, m, c) EXCEPT ![<<"r", c>>] = Empty]
<1>1. m \in {"d", "r", "i", "none"}
  BY PinnedModeCases DEF PinnedMode
<1>2. /\ steady' \subseteq Cids
      /\ result' \in {"Ok", "Err"}
      /\ UNCHANGED listVars
  BY ObserveType DEF InsertRecursivePin, IInv
<1>3. CASE m = "r"
  <2>1. UNCHANGED db
    BY <1>3 DEF InsertRecursivePin
  <2>2. QED
    BY <1>2, <2>1, StoreStepListParts
       DEF IInv, TypeOK, AtMostOneMode, IndirectSound
<1>4. CASE m \in {"d", "i", "none"}
  <2>1. db' = PinIndirectly(t1, c)
    BY <1>4 DEF InsertRecursivePin
  <2>2. /\ t1[<<"d", c>>] = NoKey
        /\ t1[<<"r", c>>] = Empty
        /\ t1[<<"i", c>>] = NoKey
    <3>1. CASE m = "d"
      <4>1. db[<<"i", c>>] = NoKey
        BY <3>1, PinnedModeCases, ValueAssumption DEF PinnedMode, IInv, AtMostOneMode, Modes
      <4>2. QED
        BY <3>1, <4>1 DEF RemoveKey, IInv, TypeOK, Keys, Modes
    <3>2. CASE m = "i"
      BY <3>2, PinnedModeCases DEF PinnedMode, RemoveKey, IInv, TypeOK, Keys, Modes
    <3>3. CASE m = "none"
      BY <3>3, PinnedModeCases DEF PinnedMode, RemoveKey, IInv, TypeOK, Keys, Modes
    <3>4. QED
      BY <1>4, <3>1, <3>2, <3>3
  <2>3. \A x \in Cids : x # c =>
            \A md \in Modes : t1[<<md, x>>] = db[<<md, x>>]
    BY DEF RemoveKey, IInv, TypeOK, Keys
  <2>4. \A md \in Modes : db'[<<md, c>>] = t1[<<md, c>>]
    BY <2>1, DescAssumption DEF PinIndirectly, Keys
  <2>5. t1 \in [Keys -> Cids \cup {Empty, NoKey}]
    BY DEF RemoveKey, IInv, TypeOK, Keys
  <2>6. (TypeOK!1 /\ TypeOK!2)'
    <3>1. db' \in [Keys -> Cids \cup {Empty, NoKey}]
      BY <2>1, <2>5 DEF PinIndirectly
    <3>2. ASSUME NEW x \in Cids
          PROVE  /\ db'[<<"d", x>>] \in {Empty, NoKey}
                 /\ db'[<<"r", x>>] \in {Empty, NoKey}
                 /\ db'[<<"i", x>>] \in Cids \cup {NoKey}
      <4>1. CASE x = c
        BY <4>1, <2>2, <2>4 DEF Modes
      <4>2. CASE x # c
        <5>1. \A md \in Modes : t1[<<md, x>>] = db[<<md, x>>]
          BY <4>2, <2>3
        <5>2. CASE /\ db'[<<"i", x>>] = c
                   /\ db'[<<"d", x>>] = t1[<<"d", x>>]
                   /\ db'[<<"r", x>>] = t1[<<"r", x>>]
          BY <5>1, <5>2 DEF IInv, TypeOK, Modes
        <5>3. CASE \A md \in Modes : db'[<<md, x>>] = t1[<<md, x>>]
          BY <5>1, <5>3 DEF IInv, TypeOK, Modes
        <5>4. QED
          BY <4>2, <5>2, <5>3, <2>1, PinIndirectlyKeys
      <4>3. QED
        BY <4>1, <4>2
    <3>3. QED
      BY <3>1, <3>2
  <2>7. AtMostOneMode'
    <3>1. ASSUME NEW x \in Cids, NEW m1 \in Modes, NEW m2 \in Modes,
                 db'[<<m1, x>>] # NoKey, db'[<<m2, x>>] # NoKey
          PROVE  m1 = m2
      <4>1. CASE x = c
        BY <3>1, <4>1, <2>2, <2>4 DEF Modes
      <4>2. CASE x # c
        <5>1. CASE /\ x \in Desc[c]
                   /\ PinnedModeIn(t1, x) = "none"
                   /\ db'[<<"i", x>>] = c
                   /\ db'[<<"d", x>>] = t1[<<"d", x>>]
                   /\ db'[<<"r", x>>] = t1[<<"r", x>>]
          BY <3>1, <5>1, PinnedModeCases, ValueAssumption DEF Modes
        <5>2. CASE \A md \in Modes : db'[<<md, x>>] = t1[<<md, x>>]
          BY <3>1, <4>2, <5>2, <2>3 DEF IInv, AtMostOneMode
        <5>3. QED
          BY <4>2, <5>1, <5>2, <2>1, PinIndirectlyKeys
      <4>3. QED
        BY <4>1, <4>2
    <3>2. QED
      BY <3>1 DEF AtMostOneMode
  <2>8. IndirectSound'
    <3>1. ASSUME NEW x \in Cids, db'[<<"i", x>>] # NoKey
          PROVE  /\ db'[<<"r", db'[<<"i", x>>]>>] # NoKey
                 /\ x \in Desc[db'[<<"i", x>>]]
      <4>1. x # c
        BY <3>1, <2>2, <2>4 DEF Modes
      <4>2. db'[<<"r", c>>] # NoKey
        BY <2>2, <2>4, ValueAssumption DEF Modes
      <4>3. CASE /\ x \in Desc[c]
                 /\ PinnedModeIn(t1, x) = "none"
                 /\ db'[<<"i", x>>] = c
        BY <4>2, <4>3
      <4>4. CASE \A md \in Modes : db'[<<md, x>>] = t1[<<md, x>>]
        <5> DEFINE src == db[<<"i", x>>]
        <5>1. db'[<<"i", x>>] = src
          BY <4>1, <4>4, <2>3 DEF Modes
        <5>2. src \in Cids /\ db[<<"r", src>>] # NoKey /\ x \in Desc[src]
          BY <3>1, <5>1 DEF IInv, IndirectSound, TypeOK
        <5>3. db'[<<"r", src>>] # NoKey
          <6>1. CASE src = c
            BY <6>1, <4>2
          <6>2. CASE src # c
            <7>1. db'[<<"r", src>>] = t1[<<"r", src>>]
              BY <6>2, <5>2, <2>1, PinIndirectlyKeys, ValueAssumption DEF Modes
            <7>2. QED
              BY <7>1, <6>2, <5>2, <2>3 DEF Modes
          <6>3. QED
            BY <6>1, <6>2
        <5>4. QED
          BY <5>1, <5>2, <5>3
      <4>5. QED
        BY <4>1, <4>3, <4>4, <2>1, PinIndirectlyKeys
    <3>2. QED
      BY <3>1 DEF IndirectSound
  <2>9. QED
    BY <2>6, <2>7, <2>8, <1>2, StoreStepListParts DEF IInv, TypeOK
<1>5. QED
  BY <1>1, <1>3, <1>4
(* A step that only deletes keys keeps the schema and at most one key per  *)
(* CID.                                                                    *)
LEMMA OnlyRemovesKeys ==
    ASSUME IInv, db' \in [Keys -> Cids \cup {Empty, NoKey}],
           \A k \in Keys : db'[k] = db[k] \/ db'[k] = NoKey
    PROVE  (TypeOK!1 /\ TypeOK!2)' /\ AtMostOneMode'
BY ValueAssumption DEF IInv, TypeOK, AtMostOneMode, Keys, Modes

(* remove_direct_pin preserves the invariant. *)
LEMMA RemoveDirectPinIInv ==
    ASSUME IInv, NEW c \in Cids, RemoveDirectPin(c)
    PROVE  IInv'
<1>1. /\ steady' \subseteq Cids
      /\ result' \in {"Ok", "Err"}
      /\ UNCHANGED listVars
  BY ObserveType DEF RemoveDirectPin, IInv
<1>2. CASE UNCHANGED db
  BY <1>1, <1>2, StoreStepListParts DEF IInv, TypeOK, AtMostOneMode, IndirectSound
<1>3. CASE db' = [db EXCEPT ![<<"d", c>>] = NoKey]
  <2>1. db' \in [Keys -> Cids \cup {Empty, NoKey}]
        /\ \A k \in Keys : db'[k] = db[k] \/ db'[k] = NoKey
    BY <1>3 DEF IInv, TypeOK, Keys, Modes
  <2>2. \A x \in Cids : db'[<<"r", x>>] = db[<<"r", x>>]
                        /\ db'[<<"i", x>>] = db[<<"i", x>>]
    BY <1>3 DEF IInv, TypeOK, Keys, Modes
  <2>3. IndirectSound'
    BY <2>2 DEF IInv, IndirectSound, TypeOK
  <2>4. QED
    BY <1>1, <2>1, <2>3, OnlyRemovesKeys, StoreStepListParts DEF IInv, TypeOK
<1>4. QED
  BY <1>2, <1>3 DEF RemoveDirectPin

(* remove_recursive_pin preserves the invariant: the indirect keys that    *)
(* named the removed root are all among its references and are deleted    *)
(* by the loop.                                                            *)
LEMMA RemoveRecursivePinIInv ==
    ASSUME IInv, NEW c \in Cids, RemoveRecursivePin(c)
    PROVE  IInv'
<1> DEFINE t2 == [db EXCEPT ![<<"r", c>>] = NoKey]
<1>1. /\ steady' \subseteq Cids
      /\ result' \in {"Ok", "Err"}
      /\ UNCHANGED listVars
  BY ObserveType DEF RemoveRecursivePin, IInv
<1>2. CASE UNCHANGED db
  BY <1>1, <1>2, StoreStepListParts DEF IInv, TypeOK, AtMostOneMode, IndirectSound
<1>3. CASE /\ ~IsNotPinnedOrPinnedIndirectly(c)
           /\ db' = UnpinIndirectly(t2, c)
  <2>1. db[<<"i", c>>] = NoKey
    BY <1>3, PinnedModeCases, ValueAssumption
       DEF IsNotPinnedOrPinnedIndirectly, PinnedMode, IInv, AtMostOneMode, Modes
  <2>2. \A x \in Cids : x # c => \A md \in Modes : t2[<<md, x>>] = db[<<md, x>>]
    BY DEF IInv, TypeOK, Keys
  <2>3. \A k \in Keys : db'[k] = t2[k] \/ db'[k] = NoKey
    BY <1>3 DEF UnpinIndirectly
  <2>4. \A k \in Keys : t2[k] = db[k] \/ t2[k] = NoKey
    BY DEF IInv, TypeOK, Keys
  <2>5. db' \in [Keys -> Cids \cup {Empty, NoKey}]
    BY <1>3, ValueAssumption DEF UnpinIndirectly, IInv, TypeOK, Keys
  <2>6. \A k \in Keys : db'[k] = db[k] \/ db'[k] = NoKey
    BY <2>3, <2>4
  <2>7. IndirectSound'
    <3>1. ASSUME NEW x \in Cids, db'[<<"i", x>>] # NoKey
          PROVE  /\ db'[<<"r", db'[<<"i", x>>]>>] # NoKey
                 /\ x \in Desc[db'[<<"i", x>>]]
      <4> DEFINE src == db[<<"i", x>>]
      <4>1. db'[<<"i", x>>] = src /\ src # NoKey
        BY <3>1, <2>6 DEF Keys, Modes
      <4>2. x # c
        BY <4>1, <2>1
      <4>3. src \in Cids /\ db[<<"r", src>>] # NoKey /\ x \in Desc[src]
        BY <4>1 DEF IInv, IndirectSound, TypeOK
      <4>4. src # c
        <5>1. PinnedModeIn(t2, x) = "i"
          <6>1. db[<<"d", x>>] = NoKey /\ db[<<"r", x>>] = NoKey
            BY <4>1, ValueAssumption DEF IInv, AtMostOneMode, Modes
          <6>2. QED
            BY <6>1, <4>1, <4>2, <2>2, PinnedModeCases DEF Modes
        <5>2. SUFFICES ASSUME src = c PROVE FALSE
          OBVIOUS
        <5>3. db'[<<"i", x>>] = NoKey
          BY <5>1, <5>2, <4>3, <1>3 DEF UnpinIndirectly, Keys, Modes
        <5>4. QED
          BY <5>3, <3>1
      <4>5. db'[<<"r", src>>] = db[<<"r", src>>]
        <5>1. t2[<<"r", src>>] = db[<<"r", src>>]
          BY <4>3, <4>4 DEF IInv, TypeOK, Keys, Modes
        <5>2. QED
          BY <5>1, <4>3, <1>3 DEF UnpinIndirectly, Keys, Modes
      <4>6. QED
        BY <4>1, <4>3, <4>5
    <3>2. QED
      BY <3>1 DEF IndirectSound
  <2>8. QED
    BY <1>1, <2>5, <2>6, <2>7, OnlyRemovesKeys, StoreStepListParts DEF IInv, TypeOK
<1>4. QED
  BY <1>2, <1>3 DEF RemoveRecursivePin
(* The lister's steps leave the tree alone and keep its cursor in range.  *)
LEMMA ListNextIInv ==
    ASSUME IInv, ListNext
    PROVE  IInv'
<1>1. NumScanKeys \in Nat \ {0}
  BY CidOrderLength DEF NumScanKeys
<1>2. CASE \E f \in Filters : ListStart(f)
  BY <1>1, <1>2 DEF ListStart, IInv, TypeOK, AtMostOneMode, IndirectSound,
                    ScanBound, MatchingPinned, storeVars
<1>3. CASE ListStep
  <2>1. listPos \in 1..NumScanKeys /\ listState = "scanning"
    BY <1>3 DEF ListStep, IInv, ScanBound
  <2>2. ScanKey(listPos) \in Keys
    BY <2>1, ScanKeyType
  <2>3. listed' \subseteq Cids \X Modes
    BY <1>3, <2>2 DEF ListStep, IInv, TypeOK, Keys
  <2>4. QED
    BY <1>1, <1>3, <2>1, <2>3 DEF ListStep, IInv, TypeOK, AtMostOneMode,
                                  IndirectSound, ScanBound, storeVars
<1>4. CASE ListDrop
  BY <1>4 DEF ListDrop, IInv, TypeOK, AtMostOneMode, IndirectSound,
              ScanBound, storeVars
<1>5. QED
  BY <1>2, <1>3, <1>4 DEF ListNext

-----------------------------------------------------------------------------
LEMMA InitIInv == Init => IInv
<1> SUFFICES ASSUME Init PROVE IInv
  OBVIOUS
<1>1. NumScanKeys \in Nat \ {0}
  BY CidOrderLength DEF NumScanKeys
<1>2. TypeOK
  <2>1. db \in [Keys -> Cids \cup {Empty, NoKey}]
    BY DEF Init
  <2>2. \A c \in Cids : /\ db[<<"d", c>>] \in {Empty, NoKey}
                        /\ db[<<"r", c>>] \in {Empty, NoKey}
                        /\ db[<<"i", c>>] \in Cids \cup {NoKey}
    BY DEF Init, Keys, Modes
  <2>3. QED
    BY <1>1, <2>1, <2>2 DEF Init, TypeOK, Filters
<1>3. AtMostOneMode /\ IndirectSound /\ ScanBound
  BY DEF Init, AtMostOneMode, IndirectSound, ScanBound, Keys, Modes
<1>4. QED
  BY <1>2, <1>3 DEF IInv

LEMMA NextIInv == IInv /\ [Next]_vars => IInv'
<1> SUFFICES ASSUME IInv, [Next]_vars PROVE IInv'
  OBVIOUS
<1>1. CASE \E c \in Cids : InsertDirectPin(c)
  BY <1>1, InsertDirectPinIInv
<1>2. CASE \E c \in Cids : InsertRecursivePin(c)
  BY <1>2, InsertRecursivePinIInv
<1>3. CASE \E c \in Cids : RemoveDirectPin(c)
  BY <1>3, RemoveDirectPinIInv
<1>4. CASE \E c \in Cids : RemoveRecursivePin(c)
  BY <1>4, RemoveRecursivePinIInv
<1>5. CASE ListNext
  BY <1>5, ListNextIInv
<1>6. CASE UNCHANGED vars
  BY <1>6 DEF vars, IInv, TypeOK, AtMostOneMode, IndirectSound, ScanBound,
              NumScanKeys
<1>7. QED
  BY <1>1, <1>2, <1>3, <1>4, <1>5, <1>6 DEF Next, StoreNext

(* The inductive invariant holds in every reachable state. *)
THEOREM IInvInvariant == Spec => []IInv
BY InitIInv, NextIInv, PTL DEF Spec

(* Type correctness of the pin store model: every key holds a value of    *)
(* its schema after any sequence of transactions and listing steps.        *)
THEOREM TypeCorrect == Spec => []TypeOK
<1>1. IInv => TypeOK
  BY DEF IInv
<1>2. QED
  BY <1>1, IInvInvariant, PTL

(* Spec section 8: insert_direct_pin, insert_recursive_pin and the two     *)
(* removals never leave two keys of one CID in the tree.                   *)
THEOREM AtMostOneModeInvariant == Spec => []AtMostOneMode
<1>1. IInv => AtMostOneMode
  BY DEF IInv
<1>2. QED
  BY <1>1, IInvInvariant, PTL

(* What query() reports as IndirectFrom(s) is a recursively pinned root of *)
(* which the CID is a reference, for every DAG and every history.          *)
THEOREM QueryIndirectSoundInvariant == Spec => []QueryIndirectSound
<1>1. IInv => QueryIndirectSound
  <2> SUFFICES ASSUME IInv, NEW c \in Cids,
                      QueryKind(c, "any").kind = "IndirectFrom"
               PROVE  /\ QueryKind(QueryKind(c, "any").src, "any").kind = "Recursive"
                      /\ c \in Desc[QueryKind(c, "any").src]
    BY DEF QueryIndirectSound
  <2>1. PinnedMode(c) = "i"
    BY PinnedModeCases DEF QueryKind, PinnedMode, Matches
  <2>2. QueryKind(c, "any").src = db[<<"i", c>>]
    BY <2>1 DEF QueryKind
  <2>3. db[<<"i", c>>] # NoKey
    BY <2>1, PinnedModeCases DEF PinnedMode
  <2> DEFINE s == db[<<"i", c>>]
  <2>4. s \in Cids /\ db[<<"r", s>>] # NoKey /\ c \in Desc[s]
    BY <2>3 DEF IInv, IndirectSound, TypeOK
  <2>5. db[<<"d", s>>] = NoKey
    BY <2>4, ValueAssumption DEF IInv, AtMostOneMode, Modes
  <2>6. PinnedMode(s) = "r"
    BY <2>4, <2>5, PinnedModeCases DEF PinnedMode
  <2>7. QED
    BY <2>2, <2>4, <2>6 DEF QueryKind, Matches
<1>2. QED
  BY <1>1, IInvInvariant, PTL
=============================================================================
