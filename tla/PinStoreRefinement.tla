------------------------- MODULE PinStoreRefinement -------------------------
(***************************************************************************)
(* Proof that the key-level pin store of PinStore.tla implements the       *)
(* one-state-per-CID pin store of PinModes.tla (spec 4.D) under the        *)
(* mapping AbsPins, for every set of CIDs and every DAG: each transaction  *)
(* is the abstract operation of the same name and a listing step is a      *)
(* stutter.  The argument needs AtMostOneMode, hence IInv.                 *)
(***************************************************************************)
EXTENDS PinStoreProofs

(* What the mapping reads for a CID depends on its three keys only. *)
LEMMA AbsPinSameKeys ==
    ASSUME NEW t1, NEW t2, NEW x,
           \A md \in Modes : t1[<<md, x>>] = t2[<<md, x>>]
    PROVE  AbsPinOf(t1, x) = AbsPinOf(t2, x)
BY DEF AbsPinOf, PinnedModeIn, Modes

(* The abstract pin state read from each combination of keys. *)
LEMMA AbsPinOfKeys ==
    ASSUME NEW t, NEW x
    PROVE  /\ t[<<"d", x>>] # NoKey => AbsPinOf(t, x) = Abs!Pin("d", x)
           /\ t[<<"d", x>>] = NoKey /\ t[<<"r", x>>] # NoKey
                => AbsPinOf(t, x) = Abs!Pin("r", x)
           /\ t[<<"d", x>>] = NoKey /\ t[<<"r", x>>] = NoKey
              /\ t[<<"i", x>>] # NoKey
                => AbsPinOf(t, x) = Abs!Pin("i", t[<<"i", x>>])
           /\ t[<<"d", x>>] = NoKey /\ t[<<"r", x>>] = NoKey
              /\ t[<<"i", x>>] = NoKey
                => AbsPinOf(t, x) = Abs!Unpinned(x)
BY DEF AbsPinOf, PinnedModeIn, Abs!Pin, Abs!Unpinned

(* The mapped state before and after a step, CID by CID. *)
LEMMA AbsPinsParts ==
    /\ AbsPins = [x \in Cids |-> AbsPinOf(db, x)]
    /\ AbsPins' = [x \in Cids |-> AbsPinOf(db', x)]
    /\ \A x \in Cids : AbsPins[x].mode = PinnedMode(x)
BY DEF AbsPins, AbsPinOf, PinnedMode

(* insert_direct_pin is InsertDirect. *)
LEMMA InsertDirectPinRefines ==
    ASSUME IInv, NEW c \in Cids, InsertDirectPin(c)
    PROVE  Abs!InsertDirect(c)
<1> DEFINE m == PinnedMode(c)
<1>1. m \in {"d", "r", "i", "none"} /\ AbsPins[c].mode = m
  BY AbsPinsParts, PinnedModeCases DEF PinnedMode
<1>2. CASE m \in {"d", "r"}
  <2>1. db' = db /\ result' = IF m = "r" THEN "Err" ELSE "Ok"
    BY <1>2 DEF InsertDirectPin
  <2>2. AbsPins' = AbsPins
    BY <2>1, AbsPinsParts
  <2>. QED
    BY <1>1, <1>2, <2>1, <2>2 DEF Abs!InsertDirect
<1>3. CASE m \in {"i", "none"}
  <2>1. db' = [RemoveKey(db, m, c) EXCEPT ![<<"d", c>>] = Empty]
        /\ result' = "Ok"
    BY <1>3 DEF InsertDirectPin
  <2>2. \A x \in Cids : x # c =>
            \A md \in Modes : db'[<<md, x>>] = db[<<md, x>>]
    BY <2>1 DEF RemoveKey, IInv, TypeOK, Keys
  <2>3. db'[<<"d", c>>] = Empty
    BY <2>1 DEF RemoveKey, IInv, TypeOK, Keys, Modes
  <2>4. AbsPinOf(db', c) = Abs!Pin("d", c)
    BY <2>3, AbsPinOfKeys, ValueAssumption
  <2>5. \A x \in Cids : x # c => AbsPinOf(db', x) = AbsPinOf(db, x)
    BY <2>2, AbsPinSameKeys
  <2>6. AbsPins' = [AbsPins EXCEPT ![c] = Abs!Pin("d", c)]
    BY <2>4, <2>5, AbsPinsParts
  <2>. QED
    BY <1>1, <1>3, <2>1, <2>6 DEF Abs!InsertDirect
<1>. QED
  BY <1>1, <1>2, <1>3

(* insert_recursive_pin is InsertRecursive: the root's other key goes, the *)
(* recursive key is written and the unpinned references become indirect.  *)
LEMMA InsertRecursivePinRefines ==
    ASSUME IInv, NEW c \in Cids, InsertRecursivePin(c)
    PROVE  Abs!InsertRecursive(c)
<1> DEFINE m == PinnedMode(c)
           t1 == [RemoveKey(db, m, c) EXCEPT ![<<"r", c>>] = Empty]
<1>1. m \in {"d", "r", "i", "none"} /\ AbsPins[c].mode = m
  BY AbsPinsParts, PinnedModeCases DEF PinnedMode
<1>2. CASE m = "r"
  <2>1. db' = db /\ result' = "Ok"
    BY <1>2 DEF InsertRecursivePin
  <2>2. AbsPins' = AbsPins
    BY <2>1, AbsPinsParts
  <2>. QED
    BY <1>1, <1>2, <2>1, <2>2 DEF Abs!InsertRecursive
<1>3. CASE m \in {"d", "i", "none"}
  <2>1. db' = PinIndirectly(t1, c) /\ result' = "Ok"
    BY <1>3 DEF InsertRecursivePin
  <2>2. /\ t1[<<"d", c>>] = NoKey /\ t1[<<"r", c>>] = Empty
        /\ t1[<<"i", c>>] = NoKey
    BY <1>3, PinnedModeCases, ValueAssumption
       DEF PinnedMode, RemoveKey, IInv, TypeOK, AtMostOneMode, Keys, Modes
  <2>3. \A x \in Cids : x # c => \A md \in Modes : t1[<<md, x>>] = db[<<md, x>>]
    BY DEF RemoveKey, IInv, TypeOK, Keys, Modes
  <2>4. \A md \in Modes : db'[<<md, c>>] = t1[<<md, c>>]
    BY <2>1, DescAssumption DEF PinIndirectly, Keys, Modes
  <2>5. AbsPinOf(db', c) = Abs!Pin("r", c)
    BY <2>2, <2>4, AbsPinOfKeys, ValueAssumption DEF Modes
  <2>6. ASSUME NEW x \in Cids, x # c, x \in Desc[c], AbsPins[x].mode = "none"
        PROVE  AbsPinOf(db', x) = Abs!Pin("i", c)
    <3>0. \A md \in Modes : t1[<<md, x>>] = db[<<md, x>>]
      BY <2>3, <2>6
    <3>1. PinnedModeIn(t1, x) = "none"
      BY <2>6, <3>0, AbsPinsParts DEF PinnedMode, PinnedModeIn, Modes
    <3>2. db[<<"d", x>>] = NoKey /\ db[<<"r", x>>] = NoKey
      BY <2>6, AbsPinsParts DEF PinnedMode, PinnedModeIn
    <3>3. db'[<<"i", x>>] = c
      BY <2>1, <2>6, <3>1 DEF PinIndirectly, Keys, Modes
    <3>4. db'[<<"d", x>>] = t1[<<"d", x>>] /\ db'[<<"r", x>>] = t1[<<"r", x>>]
      BY <2>1 DEF PinIndirectly, Keys, Modes
    <3>. QED
      BY <3>0, <3>2, <3>3, <3>4, AbsPinOfKeys, ValueAssumption DEF Modes
  <2>7. ASSUME NEW x \in Cids, x # c, ~(x \in Desc[c] /\ AbsPins[x].mode = "none")
        PROVE  AbsPinOf(db', x) = AbsPinOf(db, x)
    <3>0. \A md \in Modes : t1[<<md, x>>] = db[<<md, x>>]
      BY <2>3, <2>7
    <3>1. PinnedModeIn(t1, x) = PinnedMode(x)
      BY <3>0 DEF PinnedMode, PinnedModeIn, Modes
    <3>2. \A md \in Modes : db'[<<md, x>>] = db[<<md, x>>]
      BY <2>1, <2>3, <2>7, <3>1, AbsPinsParts DEF PinIndirectly, Keys, Modes
    <3>. QED
      BY <3>2, AbsPinSameKeys
  <2>8. AbsPins' = [x \in Cids |->
                      IF x = c THEN Abs!Pin("r", c)
                      ELSE IF x \in Desc[c] /\ AbsPins[x].mode = "none"
                           THEN Abs!Pin("i", c)
                           ELSE AbsPins[x]]
    BY <2>5, <2>6, <2>7, AbsPinsParts
  <2>. QED
    BY <1>1, <1>3, <2>1, <2>8 DEF Abs!InsertRecursive
<1>. QED
  BY <1>1, <1>2, <1>3

(* remove_direct_pin is RemoveDirect: on a recursive pin there is no       *)
(* direct key to delete, so the tree is unchanged.                         *)
LEMMA RemoveDirectPinRefines ==
    ASSUME IInv, NEW c \in Cids, RemoveDirectPin(c)
    PROVE  Abs!RemoveDirect(c)
<1> DEFINE m == PinnedMode(c)
<1>1. m \in {"d", "r", "i", "none"} /\ AbsPins[c].mode = m
  BY AbsPinsParts, PinnedModeCases DEF PinnedMode
<1>2. CASE m \in {"none", "i"}
  <2>1. db' = db /\ result' = "Err"
    BY <1>2 DEF RemoveDirectPin, IsNotPinnedOrPinnedIndirectly
  <2>2. AbsPins' = AbsPins
    BY <2>1, AbsPinsParts
  <2>. QED
    BY <1>1, <1>2, <2>1, <2>2 DEF Abs!RemoveDirect
<1>3. CASE m = "r"
  <2>1. db' = [db EXCEPT ![<<"d", c>>] = NoKey] /\ result' = "Ok"
    BY <1>3 DEF RemoveDirectPin, IsNotPinnedOrPinnedIndirectly
  <2>2. db' = db
    BY <1>3, <2>1, PinnedModeCases DEF PinnedMode, IInv, TypeOK, Keys
  <2>3. AbsPins' = AbsPins
    BY <2>2, AbsPinsParts
  <2>. QED
    BY <1>1, <1>3, <2>1, <2>3 DEF Abs!RemoveDirect
<1>4. CASE m = "d"
  <2>1. db' = [db EXCEPT ![<<"d", c>>] = NoKey] /\ result' = "Ok"
    BY <1>4 DEF RemoveDirectPin, IsNotPinnedOrPinnedIndirectly
  <2>a. db[<<"d", c>>] # NoKey
    BY <1>4 DEF PinnedMode, PinnedModeIn
  <2>b. db[<<"r", c>>] = NoKey /\ db[<<"i", c>>] = NoKey
    BY <2>a DEF IInv, AtMostOneMode, Modes
  <2>2. \A md \in Modes : db'[<<md, c>>] = NoKey
    BY <2>1, <2>b DEF IInv, TypeOK, Keys, Modes
  <2>3. AbsPinOf(db', c) = Abs!Unpinned(c)
    BY <2>2, AbsPinOfKeys DEF Modes
  <2>4. \A x \in Cids : x # c => AbsPinOf(db', x) = AbsPinOf(db, x)
    <3>1. \A x \in Cids : x # c => \A md \in Modes : db'[<<md, x>>] = db[<<md, x>>]
      BY <2>1 DEF IInv, TypeOK, Keys, Modes
    <3>. QED
      BY <3>1, AbsPinSameKeys
  <2>5. AbsPins' = [AbsPins EXCEPT ![c] = Abs!Unpinned(c)]
    BY <2>3, <2>4, AbsPinsParts
  <2>. QED
    BY <1>1, <1>4, <2>1, <2>5 DEF Abs!RemoveDirect
<1>. QED
  BY <1>1, <1>2, <1>3, <1>4

(* remove_recursive_pin is RemoveRecursive: the recursive key goes, and    *)
(* every reference whose probed mode is indirect is unpinned, whichever     *)
(* root wrote its key.                                                     *)
LEMMA RemoveRecursivePinRefines ==
    ASSUME IInv, NEW c \in Cids, RemoveRecursivePin(c)
    PROVE  Abs!RemoveRecursive(c)
<1> DEFINE m == PinnedMode(c)
           t1 == [db EXCEPT ![<<"r", c>>] = NoKey]
<1>1. m \in {"d", "r", "i", "none"} /\ AbsPins[c].mode = m
  BY AbsPinsParts, PinnedModeCases DEF PinnedMode
<1>2. CASE m \in {"none", "i"}
  <2>1. db' = db /\ result' = "Err"
    BY <1>2 DEF RemoveRecursivePin, IsNotPinnedOrPinnedIndirectly
  <2>2. AbsPins' = AbsPins
    BY <2>1, AbsPinsParts
  <2>. QED
    BY <1>1, <1>2, <2>1, <2>2 DEF Abs!RemoveRecursive
<1>3. CASE m \in {"d", "r"}
  <2>1. db' = UnpinIndirectly(t1, c) /\ result' = "Ok"
    BY <1>3 DEF RemoveRecursivePin, IsNotPinnedOrPinnedIndirectly
  <2>2. \A md \in Modes : db'[<<md, c>>] = t1[<<md, c>>]
    BY <2>1, DescAssumption DEF UnpinIndirectly, Keys, Modes
  <2>3. \A x \in Cids : x # c => \A md \in Modes : t1[<<md, x>>] = db[<<md, x>>]
    BY DEF IInv, TypeOK, Keys, Modes
  <2>4. ASSUME m = "r" PROVE AbsPinOf(db', c) = Abs!Unpinned(c)
    <3>1. db[<<"d", c>>] = NoKey /\ db[<<"r", c>>] # NoKey
      BY <2>4 DEF PinnedMode, PinnedModeIn
    <3>2. db[<<"i", c>>] = NoKey
      BY <3>1 DEF IInv, AtMostOneMode, Modes
    <3>3. \A md \in Modes : db'[<<md, c>>] = NoKey
      BY <2>2, <3>1, <3>2 DEF IInv, TypeOK, Keys, Modes
    <3>. QED
      BY <3>3, AbsPinOfKeys DEF Modes
  <2>5. ASSUME m = "d" PROVE AbsPinOf(db', c) = AbsPinOf(db, c)
    <3>1. db[<<"r", c>>] = NoKey
      BY <2>5 DEF PinnedMode, PinnedModeIn, IInv, AtMostOneMode, Modes
    <3>2. \A md \in Modes : db'[<<md, c>>] = db[<<md, c>>]
      BY <2>2, <3>1 DEF IInv, TypeOK, Keys, Modes
    <3>. QED
      BY <3>2, AbsPinSameKeys
  <2>6. AbsPinOf(db', c) = IF m = "r" THEN Abs!Unpinned(c) ELSE AbsPinOf(db, c)
    BY <1>3, <2>4, <2>5
  <2>7. ASSUME NEW x \in Cids, x # c, x \in Desc[c], AbsPins[x].mode = "i"
        PROVE  AbsPinOf(db', x) = Abs!Unpinned(x)
    <3>0. \A md \in Modes : t1[<<md, x>>] = db[<<md, x>>]
      BY <2>3, <2>7
    <3>1. PinnedModeIn(t1, x) = "i"
      BY <2>7, <3>0, AbsPinsParts DEF PinnedMode, PinnedModeIn, Modes
    <3>2. db[<<"d", x>>] = NoKey /\ db[<<"r", x>>] = NoKey
      BY <2>7, AbsPinsParts DEF PinnedMode, PinnedModeIn
    <3>3. db'[<<"i", x>>] = NoKey
      BY <2>1, <2>7, <3>1 DEF UnpinIndirectly, Keys, Modes
    <3>4. db'[<<"d", x>>] = t1[<<"d", x>>] /\ db'[<<"r", x>>] = t1[<<"r", x>>]
      BY <2>1 DEF UnpinIndirectly, Keys, Modes
    <3>. QED
      BY <3>0, <3>2, <3>3, <3>4, AbsPinOfKeys DEF Modes
  <2>8. ASSUME NEW x \in Cids, x # c, ~(x \in Desc[c] /\ AbsPins[x].mode = "i")
        PROVE  AbsPinOf(db', x) = AbsPinOf(db, x)
    <3>0. \A md \in Modes : t1[<<md, x>>] = db[<<md, x>>]
      BY <2>3, <2>8
    <3>1. PinnedModeIn(t1, x) = PinnedMode(x)
      BY <3>0 DEF PinnedMode, PinnedModeIn, Modes
    <3>2. \A md \in Modes : db'[<<md, x>>] = db[<<md, x>>]
      BY <2>1, <2>8, <3>0, <3>1, AbsPinsParts DEF UnpinIndirectly, Keys, Modes
    <3>. QED
      BY <3>2, AbsPinSameKeys
  <2>9. c \notin Desc[c]
    BY DescAssumption
  <2>10. AbsPins' = [x \in Cids |->
                       IF x = c /\ AbsPins[c].mode = "r" THEN Abs!Unpinned(c)
                       ELSE IF x \in Desc[c] /\ AbsPins[x].mode = "i"
                            THEN Abs!Unpinned(x)
                            ELSE AbsPins[x]]
    BY <1>1, <2>6, <2>7, <2>8, <2>9, AbsPinsParts
  <2>. QED
    BY <1>1, <1>3, <2>1, <2>10 DEF Abs!RemoveRecursive
<1>. QED
  BY <1>1, <1>2, <1>3

(* A listing step changes neither the tree nor the last result. *)
LEMMA ListNextStutters ==
    ASSUME ListNext
    PROVE  UNCHANGED <<AbsPins, result>>
<1>1. UNCHANGED <<db, result>>
  BY DEF ListNext, ListStart, ListStep, ListDrop, storeVars
<1>. QED
  BY <1>1, AbsPinsParts

(* The empty tree is the all-unpinned store. *)
LEMMA InitRefines == Init => Abs!Init
<1> SUFFICES ASSUME Init PROVE Abs!Init
  OBVIOUS
<1>0. \A x \in Cids : \A md \in Modes : db[<<md, x>>] = NoKey
  BY DEF Init, Keys, Modes
<1>1. \A x \in Cids : AbsPinOf(db, x) = Abs!Unpinned(x)
  BY <1>0 DEF AbsPinOf, PinnedModeIn, Abs!Unpinned, Abs!Pin, Modes
<1>. QED
  BY <1>1, AbsPinsParts DEF Init, Abs!Init

(* Every step of the key-level store is a step of PinModes or leaves the   *)
(* mapped state unchanged.                                                 *)
LEMMA NextRefines ==
    ASSUME IInv, [Next]_vars
    PROVE  [Abs!Next]_<<AbsPins, result>>
<1>1. CASE StoreNext
  <2>1. PICK c \in Cids : \/ InsertDirectPin(c) \/ InsertRecursivePin(c)
                          \/ RemoveDirectPin(c) \/ RemoveRecursivePin(c)
    BY <1>1 DEF StoreNext
  <2>2. Abs!InsertDirect(c) \/ Abs!InsertRecursive(c)
        \/ Abs!RemoveDirect(c) \/ Abs!RemoveRecursive(c)
    BY <2>1, InsertDirectPinRefines, InsertRecursivePinRefines,
       RemoveDirectPinRefines, RemoveRecursivePinRefines
  <2>. QED
    BY <2>2 DEF Abs!Next
<1>2. CASE ListNext
  BY <1>2, ListNextStutters
<1>3. CASE UNCHANGED vars
  BY <1>3, AbsPinsParts DEF vars
<1>. QED
  BY <1>1, <1>2, <1>3 DEF Next

-----------------------------------------------------------------------------
(* Spec 4.D: the sled pin store implements the one-state-per-CID store     *)
(* for every set of CIDs and every DAG -- each insert_direct_pin,          *)
(* insert_recursive_pin, remove_direct_pin and remove_recursive_pin        *)
(* transaction, committed or aborted, is the abstract operation, and list() *)
(* changes nothing.                                                        *)
THEOREM PinStoreRefinesPinModes == Spec => PinModesSpec
<1>1. Init => Abs!Init
  BY InitRefines
<1>2. IInv /\ [Next]_vars => [Abs!Next]_<<AbsPins, result>>
  BY NextRefines
<1>. QED
  BY <1>1, <1>2, IInvInvariant, PTL DEF Spec, PinModesSpec, Abs!Spec


-----------------------------------------------------------------------------
(* An insert is an abstract InsertDirect or InsertRecursive, and neither  *)
(* turns a pinned state into "none": a replaced key is replaced by another *)
(* pin, and an unpinned reference only ever becomes indirect.             *)
LEMMA InsertKeepsPinned ==
    ASSUME IInv, NEW c \in Cids, InsertDirectPin(c) \/ InsertRecursivePin(c)
    PROVE  Pinned \subseteq {x \in Cids : PinnedModeIn(db', x) # "none"}
<1>1. /\ \A x \in Cids : AbsPins[x].mode = PinnedModeIn(db, x)
      /\ \A x \in Cids : AbsPins'[x].mode = PinnedModeIn(db', x)
  BY AbsPinsParts DEF AbsPinOf
<1>2. ASSUME NEW x \in Cids, AbsPins[x].mode # "none"
      PROVE  AbsPins'[x].mode # "none"
  <2>1. CASE Abs!InsertDirect(c)
    BY <1>2, <2>1, AbsPinsParts DEF Abs!InsertDirect, Abs!Pin
  <2>2. CASE Abs!InsertRecursive(c)
    BY <1>2, <2>2 DEF Abs!InsertRecursive, Abs!Pin
  <2>. QED
    BY <2>1, <2>2, InsertDirectPinRefines, InsertRecursivePinRefines
<1>. QED
  BY <1>1, <1>2 DEF Pinned, PinnedMode

(* Whatever keys a sequence of pin and unpin transactions has left in the *)
(* tree, insert_direct_pin and insert_recursive_pin never leave a pinned   *)
(* CID, their own or a reference's, unpinned (kv.rs, the two insert        *)
(* transactions and get_pinned_mode).                                      *)
THEOREM InsertsNeverUnpinTheorem == Spec => InsertsNeverUnpin
<1>1. IInv /\ [Next]_vars =>
        [(\E c \in Cids : InsertDirectPin(c) \/ InsertRecursivePin(c))
           => Pinned \subseteq {c \in Cids : PinnedModeIn(db', c) # "none"}]_vars
  BY InsertKeepsPinned
<1>. QED
  BY <1>1, IInvInvariant, PTL DEF Spec, InsertsNeverUnpin

=============================================================================
