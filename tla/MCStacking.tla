------------------------------ MODULE MCStacking ------------------------------
(* Client windows and icons on two levels.                                     *)
EXTENDS Stacking, TLC

\* What the run Stacking takes for one state: all that a renaming of the windows and
\* of the icons turns into each other, whatever transient_for is in them.  No handler
\* reads transient_for, and none tells one window or one icon from another.
MCRenamings == {w @@ i @@ (None :> None) : w \in Permutations(Window), i \in Permutations(Icon)}
MCView ==
  LET Renamed(r) ==
        LET back == [g \in Frame \cup {None} |-> CHOOSE f \in DOMAIN r : r[f] = g]
            To(next) == [g \in Frame |-> r[next[back[g]]]]
            Set(S) == {r[f] : f \in S}
        IN <<To(stack.above), To(stack.under), To(child_of),
             [g \in Frame |-> stack.level[back[g]]], [l \in Level |-> r[stack.top[l]]],
             [g \in Set(Exists) |-> Set(x[back[g]])], Set(context), Set(used), window_count>>
  IN {Renamed(r) : r \in MCRenamings}
================================================================================
