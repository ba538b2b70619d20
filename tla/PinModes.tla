------------------------------ MODULE PinModes ------------------------------
(***************************************************************************)
(* What the pin store promises (spec 4.D), without its key schema: every   *)
(* CID has one pin state, none, direct, recursive or indirect, and an      *)
(* indirect pin names the recursive root it was written for.  Each         *)
(* operation is one atomic step that either commits or fails and changes   *)
(* nothing.  PinStore implements this specification under the mapping      *)
(* that reads a CID's state the way get_pinned_mode and query() do.        *)
(***************************************************************************)
CONSTANTS Cids, Desc

VARIABLES pins, result

Pin(m, s) == [mode |-> m, src |-> s]

PinStates == {Pin(m, s) : m \in {"none", "d", "r", "i"}, s \in Cids}

(* Unpinned: the source field is irrelevant and kept as the CID itself. *)
Unpinned(c) == Pin("none", c)

Init ==
    /\ pins = [c \in Cids |-> Unpinned(c)]
    /\ result = "Ok"

(* Direct subsumes indirect; a recursive pin refuses a direct one. *)
InsertDirect(c) ==
    \/ /\ pins[c].mode \in {"d", "r"}
       /\ result' = IF pins[c].mode = "r" THEN "Err" ELSE "Ok"
       /\ UNCHANGED pins
    \/ /\ pins[c].mode \in {"none", "i"}
       /\ pins' = [pins EXCEPT ![c] = Pin("d", c)]
       /\ result' = "Ok"

(* c becomes recursive; every unpinned descendant becomes indirect from c. *)
InsertRecursive(c) ==
    /\ \/ /\ pins[c].mode = "r"
          /\ UNCHANGED pins
       \/ /\ pins[c].mode # "r"
          /\ pins' = [x \in Cids |->
                        IF x = c THEN Pin("r", c)
                        ELSE IF x \in Desc[c] /\ pins[x].mode = "none"
                             THEN Pin("i", c)
                             ELSE pins[x]]
    /\ result' = "Ok"

(* Fails unless pinned directly or recursively; a direct pin goes away,    *)
(* a recursive one stays (there is no direct key to delete).               *)
RemoveDirect(c) ==
    \/ /\ pins[c].mode \in {"none", "i"}
       /\ result' = "Err"
       /\ UNCHANGED pins
    \/ /\ pins[c].mode \in {"d", "r"}
       /\ pins' = IF pins[c].mode = "d"
                  THEN [pins EXCEPT ![c] = Unpinned(c)] ELSE pins
       /\ result' = "Ok"

(* Fails unless pinned directly or recursively; the recursive pin goes,    *)
(* and every descendant marked indirect is unpinned.                       *)
RemoveRecursive(c) ==
    \/ /\ pins[c].mode \in {"none", "i"}
       /\ result' = "Err"
       /\ UNCHANGED pins
    \/ /\ pins[c].mode \in {"d", "r"}
       /\ pins' = [x \in Cids |->
                     IF x = c /\ pins[c].mode = "r" THEN Unpinned(c)
                     ELSE IF x \in Desc[c] /\ pins[x].mode = "i"
                          THEN Unpinned(x)
                          ELSE pins[x]]
       /\ result' = "Ok"

Next ==
    \E c \in Cids :
        InsertDirect(c) \/ InsertRecursive(c) \/ RemoveDirect(c)
        \/ RemoveRecursive(c)

Spec == Init /\ [][Next]_<<pins, result>>

=============================================================================
