------------------------------ MODULE PinStore ------------------------------
(***************************************************************************)
(* The sled-backed pin store of src/src/repo/kv.rs (KvDataStore as a      *)
(* PinStore).                                                              *)
(*                                                                         *)
(* The store is one sled tree.  A pin is a key "pin.<m>.<cid>" where <m>   *)
(* is the mode letter d, r or i; direct and recursive keys hold the empty  *)
(* value, an indirect key holds the text of the recursive root it was      *)
(* written for.  Here a key is the pair <<m, c>> and the value of an       *)
(* indirect key is the root CID it encodes (indirect_value and             *)
(* cid_from_indirect_value are inverse on CIDs).                           *)
(*                                                                         *)
(* Every mutating operation is one sled transaction: its body runs on a    *)
(* blocking worker and is retried until it commits, so a committed         *)
(* operation is one atomic step and an aborted one changes nothing.  The   *)
(* reference sets of insert_recursive_pin / remove_recursive_pin are       *)
(* collected before the transaction starts, so every retry sees the same   *)
(* set: it is Desc[c], the descendants of c in the (immutable) DAG.        *)
(*                                                                         *)
(* list() is NOT transactional: a blocking task walks db.range(..) in key  *)
(* order and reads each key as it is at that moment, while transactions    *)
(* keep committing.  The lister is modelled as a process of its own.       *)
(***************************************************************************)
EXTENDS Naturals, Sequences

CONSTANTS
    Cids,       \* the CIDs the store can be asked about (model values)
    Desc,       \* Desc[c]: the collected references of c (its descendants)
    CidOrder,   \* the CIDs in the byte order of their text form
    NoKey,      \* stands for "the key is absent from the tree"
    Empty       \* the empty value of direct and recursive keys

ASSUME DescAssumption ==
    /\ Desc \in [Cids -> SUBSET Cids]
    /\ \A c \in Cids : c \notin Desc[c]

ASSUME ValueAssumption ==
    /\ NoKey \notin Cids
    /\ Empty \notin Cids
    /\ NoKey # Empty

ASSUME CidOrderAssumption ==
    /\ Cids # {}
    /\ CidOrder \in Seq(Cids)
    /\ \A c \in Cids : \E k \in 1..Len(CidOrder) : CidOrder[k] = c
    /\ \A i, j \in 1..Len(CidOrder) : CidOrder[i] = CidOrder[j] => i = j

(* The mode letters of pin_mode_literal, in the order of get_pinned_mode's *)
(* probe and in the byte order the range scan meets them.                  *)
Modes == {"d", "r", "i"}
ScanModeOrder == <<"d", "i", "r">>

Keys == Modes \X Cids

(* A list filter: "any" is requirement None, a mode letter is Some(mode).  *)
Filters == {"any"} \cup Modes

VARIABLES
    db,         \* the sled tree: key -> value, NoKey when absent
    result,     \* outcome of the last committed or aborted operation
    listState,  \* the list() task: "idle", "scanning", "done", "dropped"
    listFilter, \* its PinModeRequirement
    listPos,    \* index in the key order of the next key it reads
    listed,     \* the (cid, mode) items it has sent on the channel
    steady      \* history: CIDs matching the filter in every state since
                \* the scan started (used only to state ListingComplete)

storeVars == <<db, result>>
listVars == <<listState, listFilter, listPos, listed>>
vars == <<db, result, listState, listFilter, listPos, listed, steady>>

-----------------------------------------------------------------------------
(* get_pinned_mode: probes Direct, Recursive, Indirect and returns the     *)
(* first key present, or "none".                                           *)
PinnedModeIn(t, c) ==
    IF t[<<"d", c>>] # NoKey THEN "d"
    ELSE IF t[<<"r", c>>] # NoKey THEN "r"
    ELSE IF t[<<"i", c>>] # NoKey THEN "i"
    ELSE "none"

PinnedMode(c) == PinnedModeIn(db, c)

(* is_not_pinned_or_pinned_indirectly *)
IsNotPinnedOrPinnedIndirectly(c) == PinnedMode(c) \in {"none", "i"}

(* tx_tree.remove(key) of the key get_pinned_mode returned, if any. *)
RemoveKey(t, m, c) ==
    IF m = "none" THEN t ELSE [t EXCEPT ![<<m, c>>] = NoKey]

(* PinModeRequirement::matches *)
Matches(f, m) == f = "any" \/ f = m

(* The CIDs a listing with filter f would report if it were a snapshot.    *)
MatchingPinned(t, f) == {c \in Cids : PinnedModeIn(t, c) # "none"
                                      /\ Matches(f, PinnedModeIn(t, c))}

(* Each committed step of the store shrinks the history variable. *)
Observe == steady' = steady \cap MatchingPinned(db', listFilter)

-----------------------------------------------------------------------------
(* Plausible bugs of the operations below, each a drop-in replacement used *)
(* to show that a property depends on the code it is about.               *)

(* insert_direct_pin keeping the indirect key (the TODO at its Indirect    *)
(* arm: "the direct should live alongside the indirect?").                 *)
InsertDirectPinKeepIndirect(c) ==
    LET m == PinnedMode(c) IN
    /\ \/ /\ m = "d"
          /\ result' = "Ok"
          /\ UNCHANGED db
       \/ /\ m = "r"
          /\ result' = "Err"
          /\ UNCHANGED db
       \/ /\ m \in {"i", "none"}
          /\ db' = [db EXCEPT ![<<"d", c>>] = Empty]
          /\ result' = "Ok"
    /\ Observe
    /\ UNCHANGED listVars

(* insert_direct_pin returning right after removing the indirect key.      *)
InsertDirectPinEarlyReturn(c) ==
    LET m == PinnedMode(c) IN
    /\ \/ /\ m = "d"
          /\ result' = "Ok"
          /\ UNCHANGED db
       \/ /\ m = "r"
          /\ result' = "Err"
          /\ UNCHANGED db
       \/ /\ m = "i"
          /\ db' = RemoveKey(db, m, c)
          /\ result' = "Ok"
       \/ /\ m = "none"
          /\ db' = [db EXCEPT ![<<"d", c>>] = Empty]
          /\ result' = "Ok"
    /\ Observe
    /\ UNCHANGED listVars

(* insert_recursive_pin storing recursive_value() in the indirect keys.    *)
PinIndirectlyEmptyValue(t, c) ==
    [k \in Keys |-> IF k[1] = "i" /\ k[2] \in Desc[c]
                       /\ PinnedModeIn(t, k[2]) = "none"
                    THEN Empty ELSE t[k]]

(* remove_recursive_pin without its loop over the references.             *)
UnpinIndirectlyNone(t, c) == t

-----------------------------------------------------------------------------
(* insert_direct_pin: Direct -> no-op; Recursive -> abort "already pinned  *)
(* recursively"; Indirect -> remove the indirect key; then write the       *)
(* direct key.                                                             *)
InsertDirectPin(c) ==
    LET m == PinnedMode(c) IN
    /\ \/ /\ m = "d"
          /\ result' = "Ok"
          /\ UNCHANGED db
       \/ /\ m = "r"
          /\ result' = "Err"
          /\ UNCHANGED db
       \/ /\ m \in {"i", "none"}
          /\ db' = [RemoveKey(db, m, c) EXCEPT ![<<"d", c>>] = Empty]
          /\ result' = "Ok"
    /\ Observe
    /\ UNCHANGED listVars

(* The loop of insert_recursive_pin over the collected set: every          *)
(* reference not pinned under any mode gets an indirect key whose value is *)
(* the target.  The references are distinct, so the loop order does not    *)
(* matter and each probe sees the tree as the loop found it.               *)
PinIndirectly(t, c) ==
    [k \in Keys |-> IF k[1] = "i" /\ k[2] \in Desc[c]
                       /\ PinnedModeIn(t, k[2]) = "none"
                    THEN c ELSE t[k]]

(* insert_recursive_pin: Recursive -> no-op; Direct or Indirect -> remove  *)
(* that key; write the recursive key; pin the references indirectly.       *)
InsertRecursivePin(c) ==
    LET m == PinnedMode(c) IN
    /\ \/ /\ m = "r"
          /\ UNCHANGED db
       \/ /\ m \in {"d", "i", "none"}
          /\ db' = PinIndirectly([RemoveKey(db, m, c) EXCEPT ![<<"r", c>>] = Empty], c)
    /\ result' = "Ok"
    /\ Observe
    /\ UNCHANGED listVars

(* remove_direct_pin: abort unless pinned directly or recursively, then    *)
(* remove the direct key (absent when the pin is recursive).               *)
RemoveDirectPin(c) ==
    /\ \/ /\ IsNotPinnedOrPinnedIndirectly(c)
          /\ result' = "Err"
          /\ UNCHANGED db
       \/ /\ ~IsNotPinnedOrPinnedIndirectly(c)
          /\ db' = [db EXCEPT ![<<"d", c>>] = NoKey]
          /\ result' = "Ok"
    /\ Observe
    /\ UNCHANGED listVars

(* The loop of remove_recursive_pin: every reference whose probed mode is  *)
(* Indirect loses its indirect key, whichever root wrote it; Direct and    *)
(* Recursive references are skipped.                                       *)
UnpinIndirectly(t, c) ==
    [k \in Keys |-> IF k[1] = "i" /\ k[2] \in Desc[c]
                       /\ PinnedModeIn(t, k[2]) = "i"
                    THEN NoKey ELSE t[k]]

(* remove_recursive_pin: abort unless pinned directly or recursively,      *)
(* remove the recursive key, then unpin the references.                    *)
RemoveRecursivePin(c) ==
    /\ \/ /\ IsNotPinnedOrPinnedIndirectly(c)
          /\ result' = "Err"
          /\ UNCHANGED db
       \/ /\ ~IsNotPinnedOrPinnedIndirectly(c)
          /\ db' = UnpinIndirectly([db EXCEPT ![<<"r", c>>] = NoKey], c)
          /\ result' = "Ok"
    /\ Observe
    /\ UNCHANGED listVars

-----------------------------------------------------------------------------
(* list(): the k-th key of db.range(..) among the pin keys: mode letters   *)
(* d < i < r, then CIDs in text order.                                     *)
NumScanKeys == 3 * Len(CidOrder)
ScanKey(k) == <<ScanModeOrder[((k - 1) \div Len(CidOrder)) + 1],
                CidOrder[((k - 1) % Len(CidOrder)) + 1]>>

(* A caller starts a listing; the blocking task opens the range iterator. *)
ListStart(f) ==
    /\ listState # "scanning"
    /\ listState' = "scanning"
    /\ listFilter' = f
    /\ listPos' = 1
    /\ listed' = {}
    /\ steady' = MatchingPinned(db, f)
    /\ UNCHANGED storeVars

(* One iteration of the task: read the next key as it is now; a present    *)
(* key whose mode matches is sent as (cid, mode).  After the last key the  *)
(* task ends and the stream closes.                                        *)
ListStep ==
    LET key == ScanKey(listPos) IN
    /\ listState = "scanning"
    /\ listed' = IF db[key] # NoKey /\ Matches(listFilter, key[1])
                 THEN listed \cup {<<key[2], key[1]>>}
                 ELSE listed
    /\ listPos' = listPos + 1
    /\ listState' = IF listPos = NumScanKeys THEN "done" ELSE "scanning"
    /\ UNCHANGED <<storeVars, listFilter, steady>>

(* The consumer drops the stream: the next tx.send fails and the task      *)
(* breaks out of its loop.                                                 *)
ListDrop ==
    /\ listState = "scanning"
    /\ listState' = "dropped"
    /\ UNCHANGED <<storeVars, listFilter, listPos, listed, steady>>

-----------------------------------------------------------------------------
Init ==
    /\ db = [k \in Keys |-> NoKey]
    /\ result = "Ok"
    /\ listState = "idle"
    /\ listFilter = "any"
    /\ listPos = 1
    /\ listed = {}
    /\ steady = {}

StoreNext ==
    \E c \in Cids :
        \/ InsertDirectPin(c)
        \/ InsertRecursivePin(c)
        \/ RemoveDirectPin(c)
        \/ RemoveRecursivePin(c)

ListNext ==
    \/ \E f \in Filters : ListStart(f)
    \/ ListStep
    \/ ListDrop

Next == StoreNext \/ ListNext

Spec == Init /\ [][Next]_vars

-----------------------------------------------------------------------------
(* query(): the PinKind reported for c under filter f, or "Omitted" when   *)
(* c is not pinned or its mode does not match.  For an indirect pin the    *)
(* source is read back from the stored value.                              *)
QueryKind(c, f) ==
    LET m == PinnedMode(c) IN
    IF m = "none" \/ ~Matches(f, m) THEN [kind |-> "Omitted", src |-> c]
    ELSE IF m = "d" THEN [kind |-> "Direct", src |-> c]
    ELSE IF m = "r" THEN [kind |-> "Recursive", src |-> c]
    ELSE [kind |-> "IndirectFrom", src |-> db[<<"i", c>>]]

-----------------------------------------------------------------------------
(* Type of the state: the key schema (direct and recursive keys hold the   *)
(* empty value, indirect keys a CID) and the lister's variables.           *)
TypeOK ==
    /\ db \in [Keys -> Cids \cup {Empty, NoKey}]
    /\ \A c \in Cids : /\ db[<<"d", c>>] \in {Empty, NoKey}
                       /\ db[<<"r", c>>] \in {Empty, NoKey}
                       /\ db[<<"i", c>>] \in Cids \cup {NoKey}
    /\ result \in {"Ok", "Err"}
    /\ listState \in {"idle", "scanning", "done", "dropped"}
    /\ listFilter \in Filters
    /\ listPos \in 1..(NumScanKeys + 1)
    /\ listed \subseteq Cids \X Modes
    /\ steady \subseteq Cids

(* Spec section 8: at most one of the three keys of a CID exists, whatever *)
(* sequence of insert/remove transactions has committed.                   *)
AtMostOneMode ==
    \A c \in Cids : \A m1, m2 \in Modes :
        db[<<m1, c>>] # NoKey /\ db[<<m2, c>>] # NoKey => m1 = m2

(* What query() reports as IndirectFrom(s) names a root that is still      *)
(* recursively pinned and of which the CID really is a descendant: no      *)
(* indirect key outlives or is misattributed to its recursive root, over   *)
(* any order of insert/remove calls on overlapping DAGs.                   *)
QueryIndirectSound ==
    \A c \in Cids :
        LET q == QueryKind(c, "any") IN
        q.kind = "IndirectFrom" =>
            /\ QueryKind(q.src, "any").kind = "Recursive"
            /\ c \in Desc[q.src]

(* The pin that garbage collection must respect: every descendant of a     *)
(* recursively pinned CID is pinned under some mode.                       *)
DescendantsProtected ==
    \A r \in Cids : PinnedMode(r) = "r" =>
        \A d \in Desc[r] : PinnedMode(d) # "none"

(* A completed listing reports every CID that matched its filter during    *)
(* the whole scan, as a point-in-time range scan would.                    *)
ListingComplete ==
    listState = "done" => steady \subseteq {p[1] : p \in listed}

(* Pinned CIDs as is_pinned() sees them. *)
Pinned == {c \in Cids : PinnedMode(c) # "none"}

(* Neither insert transaction ever leaves a pinned CID unpinned: inserting *)
(* may replace a key (indirect by direct, direct or indirect by            *)
(* recursive) but never loses a pin, its own or a reference's.             *)
InsertsNeverUnpin ==
    [][(\E c \in Cids : InsertDirectPin(c) \/ InsertRecursivePin(c))
         => Pinned \subseteq {c \in Cids : PinnedModeIn(db', c) # "none"}]_vars

-----------------------------------------------------------------------------
(* Refinement.  A CID's pin state is what get_pinned_mode finds first in   *)
(* probe order, and the root of an indirect pin is the value query() reads *)
(* back from its key.                                                      *)
AbsPinOf(t, c) ==
    [mode |-> PinnedModeIn(t, c),
     src  |-> IF PinnedModeIn(t, c) = "i" THEN t[<<"i", c>>] ELSE c]

AbsPins == [c \in Cids |-> AbsPinOf(db, c)]

Abs == INSTANCE PinModes WITH pins <- AbsPins

(* Spec 4.D as a whole: every committed or aborted transaction is one      *)
(* step of the one-state-per-CID pin store, and a listing changes nothing, *)
(* whatever the three keys of a CID hold after any sequence of calls.      *)
PinModesSpec == Abs!Spec

=============================================================================
