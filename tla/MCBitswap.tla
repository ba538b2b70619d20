----------------------------- MODULE MCBitswap ------------------------------
(* Bitswap instances for TLC: one or two peers, one or two CIDs. *)
EXTENDS Bitswap, TLC

CONSTANTS p1, p2, c1, c2

OnePeer == {p1}
OnePeerOrder == <<p1>>
TwoPeers == {p1, p2}
TwoPeerOrder == <<p1, p2>>
OneCid == {c1}
TwoCids == {c1, c2}

(* Remote peers send messages of one entry: a want, a cancel or a block. *)
MCRxMessages ==
    {m \in Messages :
        Cardinality(Keys(m.wants)) + Cardinality(m.cancels) + Cardinality(m.blocks) = 1}

=============================================================================
