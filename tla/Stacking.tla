------------------------------- MODULE Stacking -------------------------------
(***************************************************************************)
(* The stacking order of the window manager (WM/src/stacking.c): every     *)
(* level has a list of frames, linked by above and under and entered at    *)
(* its top through the bag stacking_list; the X server keeps the order     *)
(* that is seen.  Both are changed together, one frame at a time, by the   *)
(* handlers of the window manager's thread.                                *)
(***************************************************************************)
EXTENDS Integers, FiniteSets, FiniteSetsExt

CONSTANTS Window,   \* frames of client windows
          Icon,     \* icons
          Levels,   \* how many window levels there are
          Reuse,    \* whether malloc hands out the address of a freed frame again
          Changes,  \* whether clients name another owner later (WM_TRANSIENT_FOR)
          None      \* NULL

Frame == Window \cup Icon
Level == 1..Levels

ASSUME StackingAssumption ==
  /\ IsFiniteSet(Frame) /\ Window \cap Icon = {} /\ None \notin Frame
  /\ Levels \in Nat \ {0} /\ Reuse \in BOOLEAN /\ Changes \in BOOLEAN

VARIABLES
  stack,        \* the lists: above, under and window_level of frames, top of levels
  x,            \* the server's order: x[f], the frames over f, for each that exists
  child_of,     \* the frame a transient's frame belongs to, for the stacking order
  context,      \* frames that XFindContext finds: the ones in the lists
  window_count, \* how many the screen counts
  used,         \* history: addresses that were used
  transient_for \* the window that each says it is a transient of, while that exists

vars == <<stack, x, child_of, context, window_count, used, transient_for>>

Links == [Frame -> Frame \cup {None}]
Stacks == [above : Links, under : Links, level : [Frame -> Level],
           top : [Level -> Frame \cup {None}]]

TypeOK ==
  /\ stack \in Stacks /\ child_of \in Links /\ transient_for \in Links
  /\ x \in [DOMAIN x -> SUBSET DOMAIN x]
  /\ context \subseteq DOMAIN x /\ DOMAIN x \subseteq used /\ used \subseteq Frame
  /\ window_count \in 0..Cardinality(Frame)

Init ==
  /\ stack = [above |-> [f \in Frame |-> None], under |-> [f \in Frame |-> None],
              level |-> [f \in Frame |-> 1], top |-> [l \in Level |-> None]]
  /\ x = [f \in {} |-> {}] /\ child_of = [f \in Frame |-> None]
  /\ context = {} /\ window_count = 0
  /\ transient_for = [f \in Frame |-> None] /\ used = {}

-----------------------------------------------------------------------------
\* Assignments through a pointer that may be NULL

SetAbove(s, f, g) == IF f = None THEN s ELSE [s EXCEPT !.above[f] = g]
SetUnder(s, f, g) == IF f = None THEN s ELSE [s EXCEPT !.under[f] = g]
SetTop(s, l, f) == [s EXCEPT !.top[l] = f]

\* the neighbours of f are linked to each other
Unlink(s, f) == SetUnder(SetAbove(s, s.under[f], s.above[f]), s.above[f], s.under[f])
\* f becomes the top of its level
LinkOnTop(s, f) ==
  LET top == s.top[s.level[f]]
  IN SetTop(SetAbove(SetUnder(SetAbove(s, f, None), f, top), top, f), s.level[f], f)
\* f goes under p
LinkUnder(s, p, f) ==
  SetUnder(SetAbove(SetUnder(SetAbove(s, f, p), f, s.under[p]), s.under[p], f), p, f)

\* the frames met on the way from f along the pointers next, up to NULL
Met(next, f) ==
  LET step == [g \in Frame \cup {None} |-> IF g = None THEN None ELSE next[g]]
      walk[n \in Nat] == IF n = 0 THEN f ELSE step[walk[n - 1]]
  IN {walk[n] : n \in 0..Cardinality(Frame)} \ {None}
\* the frames listed below f, and those of a level
Below(s, f) == Met(s.under, s.under[f])
Column(s, l) == Met(s.under, s.top[l])
\* the last of a column, and the last of some frames in one
Bottom(s, l) == CHOOSE g \in Column(s, l) : s.under[g] = None
Lowest(s, S) == CHOOSE g \in S : S \cap Below(s, g) = {}

\* XRestackWindows with two windows, XRaiseWindow
MoveFrameToUnder(order, p, f) ==
  [g \in DOMAIN order |->
     IF g = f THEN (order[p] \cup {p}) \ {f}
     ELSE IF p \in order[g] THEN order[g] \cup {f} ELSE order[g] \ {f}]
XRaiseWindow(order, f) ==
  [g \in DOMAIN order |-> IF g = f THEN {} ELSE order[g] \cup {f}]
\* XRestackWindows: all but the first go under it, each f after those in before[f];
\* the other windows keep their places
XRestackWindows(order, before) ==
  LET listed == DOMAIN before
      first == CHOOSE f \in listed : before[f] = {}
  IN [g \in DOMAIN order |->
        IF g \in listed THEN before[g] \cup (order[first] \ listed)
        ELSE (order[g] \ listed) \cup (IF first \in order[g] THEN listed ELSE {})]

\* The rest works on d, the desk: d.s the lists, d.x the server's order

\* all levels from top to bottom: what comes before each frame that is met
Listing(s) ==
  LET met == UNION {Column(s, l) : l \in Level}
  IN [f \in met |-> {g \in met : \/ s.level[g] > s.level[f]
                                 \/ s.level[g] = s.level[f] /\ f \in Below(s, g)}]
CommitStacking(d) == [d EXCEPT !.x = XRestackWindows(d.x, Listing(d.s))]

\* mutant: the levels above are not looked at
CommitForWindowOnTop(d, f) ==
  [d EXCEPT !.x = IF d.s.above[f] # None THEN MoveFrameToUnder(d.x, d.s.above[f], f)
                  ELSE XRaiseWindow(d.x, f)]
\* CommitStackingForWindow, which is also how raising and lowering end: under the
\* frame above, or under the lowest one of the next level that has any
CommitStackingForWindow(d, f) ==
  LET higher == {l \in Level : l > d.s.level[f] /\ d.s.top[l] # None}
  IN [d EXCEPT !.x =
       IF d.s.above[f] # None THEN MoveFrameToUnder(d.x, d.s.above[f], f)
       ELSE IF higher # {} THEN MoveFrameToUnder(d.x, Bottom(d.s, Min(higher)), f)
       ELSE XRaiseWindow(d.x, f)]

-----------------------------------------------------------------------------
\* wRaiseFrame raises the frame, then calls itself for the lowest transient under it
\* until there is none, and puts it in its place at the server.  r.cur is the frame of
\* the innermost call; the frame of its caller is the one it is a transient of.

OnTop(d, f) == [d EXCEPT !.s = LinkOnTop(Unlink(d.s, f), f)]
\* mutant: the search goes on past the frame, to a transient that is on top already
RaiseStepPast(r, f) ==
  LET kids == {g \in Column(r.d.s, r.d.s.level[r.cur]) : child_of[g] = r.cur}
      kid == Lowest(r.d.s, kids)
  IN IF r.cur = None THEN r
     ELSE IF kids # {} THEN IF r.d.s.above[kid] = None THEN r ELSE [d |-> OnTop(r.d, kid), cur |-> kid]
     ELSE [d |-> CommitStackingForWindow(r.d, r.cur),
           cur |-> IF r.cur = f THEN None ELSE child_of[r.cur]]
RaiseStep(r, f) ==
  LET kids == {g \in Below(r.d.s, r.cur) : child_of[g] = r.cur}
      kid == Lowest(r.d.s, kids)
  IN IF r.cur = None THEN r
     ELSE IF kids # {} THEN [d |-> OnTop(r.d, kid), cur |-> kid]
     ELSE [d |-> CommitStackingForWindow(r.d, r.cur),
           cur |-> IF r.cur = f THEN None ELSE child_of[r.cur]]
\* every frame is raised at most once, with a step to begin and one to end
Raising(d, f) ==
  LET run[n \in Nat] == IF n = 0 THEN [d |-> OnTop(d, f), cur |-> f] ELSE RaiseStep(run[n - 1], f)
  IN run
RaiseFrame(d, f) ==
  IF d.s.above[f] = None THEN d ELSE Raising(d, f)[2 * Cardinality(Frame)].d

\* f is its own transient, at one or more removes: raising it does not end
Runaway(s, f) ==
  LET owner == [g \in Frame |-> IF child_of[g] \in context /\ s.level[child_of[g]] = s.level[g]
                                  THEN child_of[g] ELSE None]
  IN f \in Met(owner, owner[f])

\* mutant: a transient is lowered like any other frame
LowerFramePastOwner(d, f) ==
  LET l == d.s.level[f]
      s1 == IF d.s.top[l] = f THEN SetAbove(SetTop(d.s, l, d.s.under[f]), d.s.under[f], None)
            ELSE Unlink(d.s, f)
  IN IF d.s.under[f] = None THEN d
     ELSE CommitStackingForWindow([d EXCEPT !.s = LinkUnder(s1, Bottom(s1, l), f)], f)
\* wLowerFrame: to the bottom, but not past the owner
LowerFrame(d, f) ==
  LET l == d.s.level[f]
      owner == child_of[f]
      s1 == IF d.s.top[l] = f THEN SetAbove(SetTop(d.s, l, d.s.under[f]), d.s.under[f], None)
            ELSE Unlink(d.s, f)
      down == Column(s1, l)
      place == IF owner = s1.top[l] THEN owner
               ELSE IF owner \in down THEN s1.above[owner] ELSE Bottom(s1, l)
  IN IF d.s.under[f] = None \/ d.s.under[f] = owner
       THEN d
       ELSE CommitStackingForWindow([d EXCEPT !.s = LinkUnder(s1, place, f)], f)

\* AddToStackList: on top, or below the lowest of the frame's transients
AddFrame(d, f) ==
  LET kids == {g \in Column(d.s, d.s.level[f]) : child_of[g] = f}
  IN CommitStacking([d EXCEPT !.s = IF kids = {} THEN LinkOnTop(d.s, f)
                                    ELSE LinkUnder(d.s, Lowest(d.s, kids), f)])

\* mutant: the level keeps its top
RemoveFrameNotTop(d, f) == [d EXCEPT !.s = Unlink(d.s, f)]
\* RemoveFromStackList
RemoveFrame(d, f) ==
  [d EXCEPT !.s = IF d.s.above[f] = None THEN SetTop(Unlink(d.s, f), d.s.level[f], d.s.under[f])
                  ELSE Unlink(d.s, f)]

\* ChangeStackingLevel
ChangeLevel(d, f, new_level) ==
  LET old_level == d.s.level[f]
      gone == RemoveFrame(d, f)
      added == AddFrame([gone EXCEPT !.s.level[f] = new_level], f)
  IN IF old_level = new_level THEN d
     ELSE IF old_level > new_level THEN RaiseFrame(added, f) ELSE LowerFrame(added, f)

\* MoveInStackListUnder
MoveUnder(d, prev, f) ==
  LET same == ChangeLevel(d, f, d.s.level[prev])
      cut == IF same.s.top[same.s.level[f]] = f THEN SetTop(same.s, same.s.level[f], same.s.under[f])
             ELSE same.s
  IN [s |-> LinkUnder(Unlink(cut, f), prev, f), x |-> MoveFrameToUnder(same.x, prev, f)]

\* RemakeStackList: the lists are made again from the server's order
RemakeStackList(d) ==
  LET of(l) == {f \in context : d.s.level[f] = l}
      highest(S) == IF S = {} THEN None ELSE CHOOSE f \in S : S \cap d.x[f] = {}
      lowest(S) == IF S = {} THEN None ELSE CHOOSE f \in S : S \subseteq d.x[f] \cup {f}
      again == [above |-> [f \in Frame |-> IF f \in context THEN lowest(of(d.s.level[f]) \cap d.x[f])
                                           ELSE d.s.above[f]],
                under |-> [f \in Frame |-> IF f \in context
                                             THEN highest({g \in of(d.s.level[f]) : f \in d.x[g]})
                                             ELSE d.s.under[f]],
                top |-> [l \in Level |-> highest(of(l))],
                level |-> d.s.level]
  IN CommitStacking([d EXCEPT !.s = again])

-----------------------------------------------------------------------------
Desk == [s |-> stack, x |-> x]
BecomesDesk(d) == stack' = d.s /\ x' = d.x
Exists == DOMAIN x
Keep == UNCHANGED <<child_of, context, window_count, transient_for, used>>
\* f was made, on top at the server, and is listed on level l
Added(f, l) ==
  AddFrame([s |-> [stack EXCEPT !.level[f] = l],
            x |-> [g \in Exists \cup {f} |-> IF g = f THEN {} ELSE x[g] \cup {f}]], f)
\* the links of a frame that is not listed are not read again
Unlisted(s, f) == [s EXCEPT !.above[f] = None, !.under[f] = None]

\* wFrameWindowCreate and wManageWindow: the frame is listed first, and made a
\* transient after that; its level is the client's choice
CreateWindow(f, l, owner) ==
  /\ f \in Window \ Exists /\ (Reuse \/ f \notin used)
  /\ owner \in (Exists \cap Window) \cup {None}
  /\ BecomesDesk(Added(f, l))
  /\ child_of' = [child_of EXCEPT ![f] = owner]
  /\ transient_for' = [transient_for EXCEPT ![f] = owner]
  /\ context' = context \cup {f} /\ window_count' = window_count + 1
  /\ used' = used \cup {f}

\* mutant: a frame that is listed first on its level is not counted
CreateIconUncounted(f, miniature) ==
  /\ f \in Icon \ Exists /\ (Reuse \/ f \notin used)
  /\ BecomesDesk(IF miniature THEN LowerFrame(Added(f, 1), f) ELSE Added(f, 1))
  /\ context' = context \cup {f}
  /\ window_count' = IF stack.top[1] = None THEN window_count ELSE window_count + 1
  /\ used' = used \cup {f}
  /\ UNCHANGED <<child_of, transient_for>>
\* the icon of an application, or that of a miniaturized window, which is lowered
CreateIcon(f, miniature) ==
  /\ f \in Icon \ Exists /\ (Reuse \/ f \notin used)
  /\ BecomesDesk(IF miniature THEN LowerFrame(Added(f, 1), f) ELSE Added(f, 1))
  /\ context' = context \cup {f} /\ window_count' = window_count + 1
  /\ used' = used \cup {f}
  /\ UNCHANGED <<child_of, transient_for>>

\* WMCreateLaunchingIcon: the icon of a starting application is shown but, once
\* it was listed, taken from the lists again
CreateLaunchingIcon(f) ==
  /\ f \in Icon \ Exists /\ (Reuse \/ f \notin used)
  /\ LET held == RemoveFrame(Added(f, 1), f) IN BecomesDesk([held EXCEPT !.s = Unlisted(held.s, f)])
  /\ used' = used \cup {f}
  /\ UNCHANGED <<child_of, context, window_count, transient_for>>

\* wFrameWindowDestroy, wAppIconDestroy: unlisted, freed, gone from the server
Destroy(f) ==
  /\ f \in context
  /\ BecomesDesk([s |-> [Unlisted(RemoveFrame(Desk, f).s, f) EXCEPT !.level[f] = 1],
                  x |-> [g \in Exists \ {f} |-> x[g] \ {f}]])
  /\ child_of' = [child_of EXCEPT ![f] = None]
  /\ transient_for' = [g \in Frame |-> IF g = f \/ transient_for[g] = f THEN None ELSE transient_for[g]]
  /\ context' = context \ {f} /\ window_count' = window_count - 1
  /\ UNCHANGED used

\* WMFinishLaunchingIcon
PutBack(f) ==
  /\ f \in (Icon \cap Exists) \ context
  /\ BecomesDesk(AddFrame(Desk, f))
  /\ context' = context \cup {f} /\ window_count' = window_count + 1
  /\ UNCHANGED <<child_of, transient_for, used>>

\* wRaiseFrame
Raise(f) ==
  /\ f \in context /\ ~Runaway(stack, f)
  /\ BecomesDesk(RaiseFrame(Desk, f)) /\ Keep

\* wLowerFrame
Lower(f) ==
  /\ f \in context
  /\ BecomesDesk(LowerFrame(Desk, f)) /\ Keep

\* wRaiseLowerFrame: lowers what is on top or not obscured, else raises
RaiseLower(f) ==
  /\ f \in context \cap Window /\ ~Runaway(stack, f)
  /\ \E obscured \in BOOLEAN :
       /\ obscured => stack.above[f] # None
       /\ BecomesDesk(IF obscured THEN RaiseFrame(Desk, f) ELSE LowerFrame(Desk, f))
  /\ Keep

\* ChangeStackingLevel
ChangeStackingLevel(f, l) ==
  /\ f \in context /\ l # stack.level[f] /\ ~Runaway([stack EXCEPT !.level[f] = l], f)
  /\ BecomesDesk(ChangeLevel(Desk, f, l)) /\ Keep

\* wDockAttachIcon, wDockReattachIcon: an icon goes under the one before it
MoveInStackListUnder(prev, f) ==
  /\ {prev, f} \subseteq context \cap Icon /\ f # prev /\ stack.above[f] # prev
  /\ BecomesDesk(MoveUnder(Desk, prev, f)) /\ Keep

\* wClientConfigure: a client has its window put anywhere, and the lists follow
Configure(f) ==
  /\ f \in context \cap Window
  /\ \/ BecomesDesk(RemakeStackList([Desk EXCEPT !.x = XRaiseWindow(x, f)]))
     \/ \E p \in Exists \ {f} :
          BecomesDesk(RemakeStackList([Desk EXCEPT !.x = MoveFrameToUnder(x, p, f)]))
  /\ window_count' = Cardinality(context)
  /\ UNCHANGED <<child_of, context, transient_for, used>>

\* wClientCheckProperty of WM_TRANSIENT_FOR: transient_for follows, child_of does not
ChangeTransientFor(f, owner) ==
  /\ Changes /\ f \in context \cap Window
  /\ owner \in ((Exists \cap Window) \ {f}) \cup {None} /\ owner # transient_for[f]
  /\ transient_for' = [transient_for EXCEPT ![f] = owner]
  /\ UNCHANGED <<stack, x, child_of, context, window_count, used>>

\* StartWindozeCycle ends: the chosen window is raised and all order committed
Cycle(f) ==
  /\ f \in context \cap Window /\ ~Runaway(stack, f)
  /\ BecomesDesk(CommitStacking(RaiseFrame(Desk, f))) /\ Keep

Next ==
  \/ \E f \in Window, l \in Level, owner \in Window \cup {None} : CreateWindow(f, l, owner)
  \/ \E f \in Window, owner \in Window \cup {None} : ChangeTransientFor(f, owner)
  \/ \E f \in Frame, l \in Level : ChangeStackingLevel(f, l)
  \/ \E f, prev \in Icon : MoveInStackListUnder(prev, f)
  \/ \E f \in Frame :
       \/ \E miniature \in BOOLEAN : CreateIcon(f, miniature)
       \/ CreateLaunchingIcon(f) \/ Destroy(f) \/ PutBack(f) \/ Raise(f) \/ Lower(f)
       \/ RaiseLower(f) \/ Configure(f) \/ Cycle(f)

Spec == Init /\ [][Next]_vars

-----------------------------------------------------------------------------
\* The lists hold together and keep their types: a walk down from a level's top meets the
\* listed frames of the level and none of them twice, and going up is the same way back.
ListsWellFormed ==
  /\ TypeOK
  /\ \A l \in Level : Column(stack, l) = {f \in context : stack.level[f] = l}
  /\ \A f \in context :
       /\ f \notin Below(stack, f)
       /\ stack.above[f] = None <=> f = stack.top[stack.level[f]]
       /\ stack.above[f] # None => stack.under[stack.above[f]] = f
       /\ stack.under[f] # None => stack.above[stack.under[f]] = f

\* CommitStacking allocates window_count entries and fills one in for every frame it
\* meets on a level: it never writes past them.
CommitFits ==
  Cardinality(UNION {{l} \X Column(stack, l) : l \in Level}) <= window_count

\* What the server shows is what the lists say, level by level, though raising and
\* lowering only move single windows at the server.
ServerAgrees == [f \in context |-> x[f] \cap context] = Listing(stack)

\* Where every transient is above the frame it belongs to, it stays so, whatever is
\* raised or lowered and whatever comes from another level, unless a client changes
\* the order.
Belongs(f) == {f, child_of[f]} \subseteq context /\ stack.level[f] = stack.level[child_of[f]]
Orderly(f) == Belongs(f) => f \in x[child_of[f]]
TransientsStayAbove ==
  [][(\A f \in Window : Orderly(f) /\ ~Configure(f))
       => \A f \in Window : Belongs(f) => Orderly(f)']_vars

\* wRaiseFrame returns, for every listed frame, though it begins "again" after every
\* transient and calls itself for those of the transient: each frame is raised once.
RaiseReturns ==
  \A f \in context : stack.above[f] # None => Raising(Desk, f)[2 * Cardinality(Frame)].cur = None

\* child_of is the "owner for transient window" (wcore.h:31): not a window that the
\* client no longer names, nor one that only has the address of an owner that is gone.
ChildOfIsOwner ==
  \A f \in context : child_of[f] \in context => child_of[f] = transient_for[f]
================================================================================
