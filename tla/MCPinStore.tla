----------------------------- MODULE MCPinStore -----------------------------
(***************************************************************************)
(* A small instance of the pin store: a DAG a -> b -> c with a -> c, so    *)
(* that c is reachable from two recursive roots (a and b) and b is both a  *)
(* root and a descendant.                                                  *)
(***************************************************************************)
EXTENDS PinStore, TLC

CONSTANTS a, b, c

MCCids == {a, b, c}
MCDesc == (a :> {b, c}) @@ (b :> {c}) @@ (c :> {})
MCCidOrder == <<b, a, c>>
=============================================================================
