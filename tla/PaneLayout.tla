----------------------------- MODULE PaneLayout -----------------------------
(***************************************************************************)
(* The panes of a window: which buffers each pane shows, which pane is in  *)
(* front, and the moves, splits and closes that change this.               *)
(*                                                                         *)
(* The split tree is abstracted to the sequence of its leaves, from left   *)
(* to right and top to bottom; directions and sizes have no effect on the  *)
(* buffers.  The pane at the bottom of the window (a tree of its own, here *)
(* not split) comes last.  Locks and full screen are not modelled.         *)
(***************************************************************************)
EXTENDS Naturals, Sequences, SequencesExt

CONSTANTS
  None,      \* null
  MaxPanes   \* bound: how many editor panes there are at a time

ASSUME PanesAssumption == MaxPanes \in Nat \ {0} /\ None \notin Nat

Root == 1     \* ROOT_PANE_ID, the pane the window starts with
Bottom == 0   \* BOTTOM_PANE_ID
PaneIds == 0 .. MaxPanes + 1

HeadOr(s) == IF s = <<>> THEN None ELSE Head(s)

(* filter of the code's arrays.  It is SelectSeq, with a definition that   *)
(* can be proved about: kept[k] is what is kept of the first k elements.   *)
Only(s, S) ==
  LET kept[k \in 0 .. Len(s)] ==
        IF k = 0 THEN <<>>
        ELSE IF s[k] \in S THEN Append(kept[k - 1], s[k]) ELSE kept[k - 1]
  IN kept[Len(s)]

Where(s, Test(_)) == Only(s, {x \in ToSet(s) : Test(x)})
Without(s, x) == Where(s, LAMBDA y : y # x)

-----------------------------------------------------------------------------
(* One pane: the buffers it shows, the one on top, their order of use and  *)
(* its preview.                                                            *)
EmptyPane(p) == [id |-> p, ids |-> <<>>, active |-> None, mru |-> <<>>,
                 preview |-> None]

(* normalizeGroup                                                          *)
Normalize(g) ==
  LET act  == IF g.active \in ToSet(g.ids) THEN g.active ELSE HeadOr(g.ids)
      used == Where(g.mru, LAMBDA x : x \in ToSet(g.ids) /\ x # act)
      rest == Where(g.ids, LAMBDA x : x \notin ToSet(used) /\ x # act)
  IN [g EXCEPT !.active = act,
               !.mru = IF act = None THEN <<>> ELSE <<act>> \o used \o rest,
               !.preview = IF @ \in ToSet(g.ids) THEN @ ELSE None]

GroupAdd(g, id) ==
  Normalize([g EXCEPT !.ids = IF id \in ToSet(g.ids) THEN @ ELSE Append(@, id)])

GroupShow(g, id) == GroupAdd([g EXCEPT !.active = id], id)

GroupRemove(g, id) ==
  LET rest == Without(g.ids, id)
      at   == CHOOSE k \in DOMAIN g.ids : g.ids[k] = id
  IN Normalize([g EXCEPT
       !.ids = rest,
       !.active = IF g.active # id THEN @
                  ELSE IF rest = <<>> THEN None
                  ELSE rest[IF at > Len(rest) THEN Len(rest) ELSE at]])

-----------------------------------------------------------------------------
(* The layout: lay.groups in display order, lay.front, lay.recent (the     *)
(* panes in the order they were last in front).                            *)
InitialLayout ==
  [groups |-> <<EmptyPane(Root), EmptyPane(Bottom)>>,
   front |-> Root, recent |-> <<Root>>]

AllPanes(lay) == [k \in DOMAIN lay.groups |-> lay.groups[k].id]
EditorPanes(lay) == Without(AllPanes(lay), Bottom)
HasPane(lay, p) == \E k \in DOMAIN lay.groups : lay.groups[k].id = p
PaneAt(lay, p) == lay.groups[CHOOSE k \in DOMAIN lay.groups : lay.groups[k].id = p]
OnPane(lay, p, Op(_)) ==
  [lay EXCEPT !.groups = [k \in DOMAIN @ |-> IF @[k].id = p THEN Op(@[k]) ELSE @[k]]]
PanesWith(lay, id) ==
  LET with == Where(lay.groups, LAMBDA g : Contains(g.ids, id))
  IN [k \in DOMAIN with |-> with[k].id]
InFront(lay) == PaneAt(lay, lay.front)

(* setMostRecentActivePane                                                 *)
MarkRecent(lay, p) ==
  IF ~HasPane(lay, p) THEN lay
  ELSE [lay EXCEPT !.recent =
          <<p>> \o Where(@, LAMBDA q : q # p /\ HasPane(lay, q))
                \o Where(AllPanes(lay), LAMBDA q : q # p /\ q \notin ToSet(lay.recent))]

(* setActivePane                                                           *)
Bring(lay, p) ==
  IF HasPane(lay, p) THEN MarkRecent([lay EXCEPT !.front = p], p) ELSE lay

(* ensureBufferInPane                                                      *)
ShowIn(lay, p, id) ==
  Bring(OnPane(lay, p, LAMBDA g : GroupShow(g, id)), p)

(* collapseEmptyPaneInTree: the last editor pane becomes the root pane.    *)
Collapse(lay, p, keepEmpty) ==
  IF \/ keepEmpty \/ p = Bottom \/ ~HasPane(lay, p) \/ PaneAt(lay, p).ids # <<>> THEN lay
  ELSE IF EditorPanes(lay) = <<p>> THEN OnPane(lay, p, LAMBDA g : EmptyPane(Root))
  ELSE [lay EXCEPT !.groups = Where(@, LAMBDA g : g.id # p)]

(* getFallbackActivePaneId: a front pane that is gone gives way.           *)
KeepFront(lay) ==
  LET next  == Head(Where(lay.recent \o AllPanes(lay), LAMBDA q : HasPane(lay, q)))
      front == IF HasPane(lay, lay.front) THEN lay.front ELSE next
  IN MarkRecent([lay EXCEPT !.front = front], front)

(* removeBufferFromPane                                                    *)
RemoveFrom(lay, p, id, keepEmpty) ==
  KeepFront(Collapse(OnPane(lay, p, LAMBDA g : GroupRemove(g, id)), p, keepEmpty))

(* removeBufferFromPanes                                                   *)
RemoveEverywhere(lay, id, keepEmpty) ==
  FoldLeft(LAMBDA l, p : RemoveFrom(l, p, id, keepEmpty), lay, PanesWith(lay, id))

(* closePane, for one of several editor panes: the one most recently in    *)
(* front of the others takes over its buffers.                             *)
ClosePane(lay, p) ==
  LET old  == PaneAt(lay, p)
      left == [lay EXCEPT !.groups = Where(@, LAMBDA g : g.id # p)]
      into == Head(Where(lay.recent \o EditorPanes(left),
                             LAMBDA q : q \in ToSet(EditorPanes(left))))
      Adopt(g) == LET all == FoldLeft(GroupAdd, g, old.ids)
                  IN IF lay.front = p /\ old.active # None
                     THEN GroupShow(all, old.active) ELSE all
      front == IF lay.front = p THEN into ELSE lay.front
  IN MarkRecent([OnPane(left, into, Adopt) EXCEPT !.front = front], front)

(* moveBufferToPane                                                        *)
MoveTo(lay, id, from, to, keepEmpty) ==
  LET cut   == OnPane(lay, from, LAMBDA g : GroupRemove(g, id))
      moved == OnPane(cut, to, LAMBDA g : GroupShow(g, id))
  IN Bring(Collapse(moved, from, keepEmpty), to)

(* splitPane: a new pane, empty or sharing a buffer, before or after p.    *)
FreshPane(lay) == CHOOSE q \in 2 .. MaxPanes + 1 : ~HasPane(lay, q)

SplitBeside(lay, p, shared, before) ==
  LET new == EmptyPane(FreshPane(lay))
      g   == IF shared = None THEN new ELSE GroupShow(new, shared)
      at  == CHOOSE k \in DOMAIN lay.groups : lay.groups[k].id = p
  IN Bring([lay EXCEPT !.groups = InsertAt(@, IF before THEN at ELSE at + 1, g)], g.id)

(* setPanePreviewBuffer and clearPreviewBufferEverywhere                   *)
SetPreview(lay, p, id) == OnPane(lay, p, LAMBDA g : [g EXCEPT !.preview = id])
ClearPreview(lay, id) ==
  [lay EXCEPT !.groups = [k \in DOMAIN @ |->
     IF @[k].preview = id THEN [@[k] EXCEPT !.preview = None] ELSE @[k]]]

=============================================================================
