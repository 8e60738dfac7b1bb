---------------------------- MODULE MCDispatchGroup ----------------------------
(* Two clients, two workers and two notification blocks.                      *)
EXTENDS DispatchGroup, TLC

CONSTANTS c1, c2, w1, w2, b1, b2

Clients == {c1, c2}
Workers == {w1, w2}
Blocks == {b1, b2}
================================================================================
