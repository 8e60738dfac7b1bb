---------------------------- MODULE MCProcessManager ----------------------------
(* Two file operations, a size computation and three applications.            *)
EXTENDS ProcessManager

CONSTANTS m1, m2, s1, xterm, edit, workspace

Movers == {m1, m2}
Sizers == {s1}
Apps == {xterm, edit, workspace}
===============================================================================
