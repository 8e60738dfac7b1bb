-------------------------- MODULE MCDispatchRootQueue --------------------------
(* Two clients push an item each, or one of them pushes a chain of two.       *)
EXTENDS DispatchRootQueue, TLC

CONSTANTS c1, c2, i1, i2

MCChains == {(c1 :> <<i1>>) @@ (c2 :> <<i2>>), (c1 :> <<i1, i2>>) @@ (c2 :> <<>>)}
================================================================================
