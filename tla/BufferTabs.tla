----------------------------- MODULE BufferTabs -----------------------------
(***************************************************************************)
(* The tabs of a window and the panes they are shown in: opening, previews,*)
(* pinning, the limits on open tabs, closing with the unsaved-changes      *)
(* prompt, closing in batches, reopening closed tabs, and splitting,       *)
(* closing and focusing panes and moving tabs between them.  The buffer    *)
(* store and the pane store (PaneLayout) change one after the other.       *)
(*                                                                         *)
(* An action is what runs between two awaits.  Opening a file and          *)
(* reopening a tab read the file first, so they are a request and a        *)
(* completion with anything in between; so is "save and close".  A file    *)
(* that was never saved has a numbered name ("untitled:Untitled-2") until  *)
(* the dialog of its first save gives it a path.                           *)
(***************************************************************************)
EXTENDS PaneLayout

CONSTANTS
  Paths,        \* files of the project
  StoreMax,     \* maxOpenTabs of the buffer store
  SettingMax,   \* the setting maxOpenTabs, which the tab bar uses
  MaxHistory,   \* MAX_CLOSED_BUFFERS_HISTORY
  MaxOpens,     \* bound: how many buffers are ever created
  MaxPinned,    \* bound: how many tabs the user pins at a time
  MaxInFlight   \* bound: reads and "save and close" in flight together

ASSUME BoundsAssumption ==
  /\ StoreMax \in Nat \ {0} /\ SettingMax \in Nat \ {0}
  /\ MaxHistory \in Nat /\ MaxOpens \in Nat /\ MaxInFlight \in Nat /\ MaxPinned \in Nat
  /\ None \notin Paths /\ \A path \in Paths : path \notin Nat

VARIABLES
  tabs,       \* the buffer store and the pane layout (tabs.lay)
  openReq,    \* the latest file-open request, while the file is being read
  reopening,  \* the closed tab being reopened, while its file is being read
  saving,     \* "save and close" in progress: the buffer that is being saved
              \* and whether it was untitled when this began
  limitDue,   \* the tab bar has yet to run its effect for the last change
  nextId      \* the id of the next buffer

vars == <<tabs, openReq, reopening, saving, limitDue, nextId>>

Types == {"editor", "terminal", "newTab"}
Ids == 1 .. MaxOpens
Untitled == Nat \ {0}   \* the paths that start with "untitled:", by number

(* twin is a ghost: the buffer was given the path of another open one.     *)
Buffer == [id : Ids, path : Paths \cup Untitled \cup {None}, type : Types,
           dirty : BOOLEAN, pinned : BOOLEAN, preview : BOOLEAN, twin : BOOLEAN]
Pane == [id : PaneIds, ids : Seq(Ids), active : Ids \cup {None}, mru : Seq(Ids),
         preview : Ids \cup {None}]
ClosedTab == [path : Paths, pinned : BOOLEAN]
BatchTypes == {"single", "others", "all", "to-left", "to-right"}
PendingClose == [id : Ids, type : BatchTypes, anchor : Ids \cup {None}]

IdsOf(bs) == [k \in DOMAIN bs |-> bs[k].id]
OpenIds(t) == ToSet(IdsOf(t.bufs))
BufferOf(t, id) == t.bufs[CHOOSE k \in DOMAIN t.bufs : t.bufs[k].id = id]
Update(bs, id, Op(_)) ==
  [k \in DOMAIN bs |-> IF bs[k].id = id THEN Op(bs[k]) ELSE bs[k]]
DropBuffer(bs, id) == Where(bs, LAMBDA b : b.id # id)
IsDirty(b) == b.type = "editor" /\ b.dirty
IsUntitled(b) == b.path \in Untitled
IsFile(b) == b.type = "editor" /\ ~IsUntitled(b)   \* shouldStartLsp

-----------------------------------------------------------------------------
(* Closing.                                                                *)

(* getPaneReplacementBufferId: the buffer most recently used in the pane   *)
(* of the closing one, else any other.                                     *)
Replacement(t, id) ==
  LET source == PaneAt(t.lay, HeadOr(PanesWith(t.lay, id) \o <<t.lay.front>>))
      stays  == OpenIds(t) \ {id}
  IN HeadOr(Where(source.mru \o source.ids \o IdsOf(t.bufs),
                  LAMBDA x : x \in stays))

(* syncBufferToPane and syncAndFocusBufferInPane: a buffer is shown in the *)
(* pane in front, or in the first pane that has it already.                *)
ToFront(lay, id) == ShowIn(lay, lay.front, id)
Focus(lay, id) == ShowIn(lay, HeadOr(PanesWith(lay, id) \o <<lay.front>>), id)
FocusIfAny(lay, id) == IF id = None THEN lay ELSE Focus(lay, id)

(* Mutant of CloseForce: lets the history of closed tabs grow.             *)
CloseKeepsAll(t, id) ==
  IF id \notin OpenIds(t) THEN t ELSE
  LET b   == BufferOf(t, id)
      act == IF t.active = id THEN Replacement(t, id) ELSE t.active
      lay == RemoveEverywhere(t.lay, id, FALSE)
  IN [t EXCEPT
        !.bufs = DropBuffer(t.bufs, id),
        !.active = act,
        !.lay = FocusIfAny(lay, act),
        !.closed = IF ~IsFile(b) THEN t.closed
                   ELSE <<[path |-> b.path, pinned |-> b.pinned]>> \o t.closed]

(* Mutant of CloseForce: takes the buffer out of one pane only.            *)
CloseInOnePane(t, id) ==
  IF id \notin OpenIds(t) THEN t ELSE
  LET act == IF t.active = id THEN Replacement(t, id) ELSE t.active
      lay == RemoveFrom(t.lay, Head(PanesWith(t.lay, id)), id, FALSE)
  IN [t EXCEPT
        !.bufs = DropBuffer(t.bufs, id),
        !.active = act,
        !.lay = FocusIfAny(lay, act)]

CloseForce(t, id) ==
  IF id \notin OpenIds(t) THEN t ELSE
  LET b   == BufferOf(t, id)
      act == IF t.active = id THEN Replacement(t, id) ELSE t.active
      lay == RemoveEverywhere(t.lay, id, FALSE)
  IN [t EXCEPT
        !.bufs = DropBuffer(t.bufs, id),
        !.active = act,
        !.lay = FocusIfAny(lay, act),
        !.closed = IF ~IsFile(b) THEN t.closed
                   ELSE LET all == <<[path |-> b.path, pinned |-> b.pinned]>> \o t.closed
                        IN SubSeq(all, 1, IF Len(all) > MaxHistory THEN MaxHistory
                                          ELSE Len(all))]

CloseForceAll(t, ids) == FoldLeft(CloseForce, t, ids)

(* closeBuffer: a dirty buffer is not closed but prompted for.             *)
CloseAsking(t, id) ==
  IF id \in OpenIds(t) /\ IsDirty(BufferOf(t, id))
  THEN [t EXCEPT !.pending = [id |-> id, type |-> "single", anchor |-> None]]
  ELSE CloseForce(t, id)

(* The buffers a batch closes, pinned ones excepted; to the left or right  *)
(* of a buffer that is gone there is none.                                 *)
Batch(t, type, anchor) ==
  LET n  == Len(t.bufs)
      at == CHOOSE k \in 1 .. n : t.bufs[k].id = anchor
      inBatch ==
        IF type \in {"others", "all"} THEN t.bufs
        ELSE IF anchor \notin OpenIds(t) THEN <<>>
        ELSE IF type = "to-left" THEN SubSeq(t.bufs, 1, at - 1)
        ELSE SubSeq(t.bufs, at + 1, n)
  IN Where(inBatch, LAMBDA b :
             ~b.pinned /\ ~(type = "others" /\ b.id = anchor))

CloseBatch(t, type, anchor) ==
  LET batch == Batch(t, type, anchor)
      asked == Where(batch, IsDirty)
  IN IF asked = <<>> THEN CloseForceAll(t, IdsOf(batch))
     ELSE [t EXCEPT !.pending = [id |-> Head(asked).id, type |-> type,
                                 anchor |-> anchor]]

(* confirmCloseWithoutSaving                                               *)
Confirm(t) ==
  LET p == t.pending
      u == [t EXCEPT !.pending = None]
  IN IF p = None THEN t
     ELSE CloseForceAll(u, IF p.type = "single" THEN <<p.id>>
                           ELSE IdsOf(Batch(u, p.type, p.anchor)))

-----------------------------------------------------------------------------
(* Opening.                                                                *)

CloseNewTab(t) ==
  LET new == Where(t.bufs, LAMBDA b : b.type = "newTab"
                                      /\ b.id \in ToSet(InFront(t.lay).ids))
  IN IF new = <<>> THEN t
     ELSE [t EXCEPT !.bufs = DropBuffer(t.bufs, Head(new).id),
                    !.lay = RemoveEverywhere(t.lay, Head(new).id, TRUE)]

(* Mutant of EvictOne: takes pinned buffers too.                           *)
EvictAny(t, includePreviews) ==
  LET cands == Where(t.bufs, LAMBDA b : /\ includePreviews \/ ~b.preview
                                        /\ b.type # "terminal")
      old == Head(cands).id
  IN IF Len(cands) < StoreMax THEN t
     ELSE [t EXCEPT !.bufs = DropBuffer(t.bufs, old),
                    !.lay = RemoveEverywhere(t.lay, old, FALSE)]

(* applyAutoEviction: at the store's limit the first closable buffer goes. *)
EvictOne(t, includePreviews) ==
  LET cands == Where(t.bufs, LAMBDA b : /\ ~b.pinned
                                        /\ includePreviews \/ ~b.preview
                                        /\ b.type # "terminal")
      old == Head(cands).id
  IN IF Len(cands) < StoreMax THEN t
     ELSE [t EXCEPT !.bufs = DropBuffer(t.bufs, old),
                    !.lay = RemoveEverywhere(t.lay, old, FALSE)]

(* The preview of the pane in front makes room for a new one.              *)
ReplacePreview(t, preview) ==
  LET old == InFront(t.lay).preview IN
  IF preview /\ old \in OpenIds(t) /\ BufferOf(t, old).preview
  THEN [t EXCEPT !.bufs = DropBuffer(t.bufs, old),
                 !.lay = RemoveEverywhere(t.lay, old, TRUE)]
  ELSE t

AppendBuffer(t, b) ==
  [t EXCEPT !.bufs = Append(t.bufs, b), !.active = b.id, !.lay = ToFront(t.lay, b.id)]

NewBuffer(id, path, type, preview) ==
  [id |-> id, path |-> path, type |-> type, dirty |-> FALSE,
   pinned |-> FALSE, preview |-> preview, twin |-> FALSE]

(* syncPanePreviewForBuffer, for a buffer the pane in front shows          *)
SyncPreview(t, id, preview) ==
  [t EXCEPT !.lay = IF preview THEN SetPreview(@, @.front, id)
                    ELSE ClearPreview(@, id)]

(* Mutant of OpenEditor: does not look for the file among the open ones    *)
(* again once it has been read.                                            *)
OpenEditorAnew(t, path, preview, id) ==
  LET room == EvictOne(ReplacePreview(CloseNewTab(t), preview), FALSE)
  IN SyncPreview(AppendBuffer(room, NewBuffer(id, path, "editor", preview)),
                 id, preview)

(* openContent, case "editor"                                              *)
OpenEditor(t, path, preview, id) ==
  LET same == Where(t.bufs, LAMBDA b : b.path = path)
      old  == Head(same).id
      room == EvictOne(ReplacePreview(CloseNewTab(t), preview), FALSE)
  IN IF same # <<>>
     THEN SyncPreview(
            [t EXCEPT !.active = old,
                      !.bufs = Update(t.bufs, old, LAMBDA b :
                                 [b EXCEPT !.preview = @ /\ preview]),
                      !.lay = ToFront(t.lay, old)],
            old, preview)
     ELSE SyncPreview(AppendBuffer(room, NewBuffer(id, path, "editor", preview)),
                      id, preview)

Opened(t, path) == \E k \in DOMAIN t.bufs : t.bufs[k].path = path

(* setActiveBuffer                                                         *)
Activate(t, id) == [t EXCEPT !.active = id, !.lay = Focus(t.lay, id)]

(* convertPreviewToDefinite                                                *)
MakeDefinite(t, id) ==
  [t EXCEPT !.bufs = Update(t.bufs, id, LAMBDA b : [b EXCEPT !.preview = FALSE]),
            !.lay = ClearPreview(t.lay, id)]

(* handleTabPin toggles; a pinned tab is no preview.                       *)
TogglePin(t, id) ==
  LET pinned == ~BufferOf(t, id).pinned
      u == [t EXCEPT !.bufs = Update(t.bufs, id, LAMBDA b :
                                [b EXCEPT !.pinned = pinned])]
  IN IF pinned THEN MakeDefinite(u, id) ELSE u

Repin(t, pinned) == IF pinned THEN TogglePin(t, t.active) ELSE t

SetDirty(t, id, d) ==
  [t EXCEPT !.bufs = Update(t.bufs, id, LAMBDA b : [b EXCEPT !.dirty = d])]

(* updateBufferPath: a text buffer gets a path, whether or not another     *)
(* open one has it.                                                        *)
OpenElsewhere(t, id, path) ==
  \E k \in DOMAIN t.bufs : t.bufs[k].id # id /\ t.bufs[k].path = path

GivePath(t, id, path) ==
  LET twin == OpenElsewhere(t, id, path)
  IN [t EXCEPT !.bufs = Update(t.bufs, id, LAMBDA b :
                           IF b.type # "editor" THEN b
                           ELSE [b EXCEPT !.path = path, !.twin = twin])]

(* The answer of the dialog becomes the path; then markBufferDirty.        *)
SaveAs(t, id, path) == SetDirty(GivePath(t, id, path), id, FALSE)

-----------------------------------------------------------------------------
(* The tab bar of each pane closes tabs in an effect that runs after every *)
(* render (its dependency is an array built anew each time), so after any  *)
(* change of the two stores.  They are read through useSyncExternalStore,  *)
(* whose renders are synchronous and flush their effects: no other action  *)
(* comes before it.                                                        *)
ShownIn(t, g) == Where(t.bufs, LAMBDA b : Contains(g.ids, b.id)
                                         /\ b.type # "newTab")
TooMany(t) == \E k \in DOMAIN t.lay.groups :
                Len(ShownIn(t, t.lay.groups[k])) > SettingMax

Become(t) == tabs' = t /\ limitDue' = (t # tabs /\ TooMany(t))
Idle == UNCHANGED <<openReq, reopening, saving>>
MayStart == Len(Where(<<openReq, reopening, saving>>, LAMBDA x : x # None))
              < MaxInFlight

(* handleFileSelect: an open file is shown, any other is read; a later     *)
(* request makes an earlier one stale.                                     *)
SelectFile(path, preview) ==
  LET same == Where(tabs.bufs, LAMBDA b : b.path = path) IN
  /\ IF same = <<>>
     THEN /\ openReq # None \/ MayStart
          /\ openReq' = [path |-> path, preview |-> preview]
          /\ UNCHANGED <<tabs, limitDue>>
     ELSE LET shown == Activate(tabs, Head(same).id) IN
          /\ Become(IF Head(same).preview /\ ~preview
                    THEN MakeDefinite(shown, Head(same).id) ELSE shown)
          /\ UNCHANGED openReq
  /\ UNCHANGED <<reopening, saving, nextId>>

FileRead ==
  /\ openReq # None
  /\ nextId \in Ids
  /\ Become(OpenEditor(tabs, openReq.path, openReq.preview, nextId))
  /\ openReq' = None
  /\ nextId' = IF Opened(tabs, openReq.path) THEN nextId ELSE nextId + 1
  /\ UNCHANGED <<reopening, saving>>

(* The file cannot be read.                                                *)
FileReadFails ==
  /\ openReq # None
  /\ openReq' = None
  /\ UNCHANGED <<tabs, reopening, saving, limitDue, nextId>>

(* openContent, cases "terminal" and "newTab"                              *)
OpenTerminal ==
  /\ nextId \in Ids
  /\ Become(AppendBuffer(EvictOne(CloseNewTab(tabs), TRUE),
                         NewBuffer(nextId, None, "terminal", FALSE)))
  /\ nextId' = nextId + 1
  /\ Idle

ShowNewTab(p) ==   \* from the tab bar of a pane, or for the pane in front
  /\ nextId \in Ids
  /\ p \in ToSet(EditorPanes(tabs.lay)) \cup {tabs.lay.front}
  /\ Become(AppendBuffer(CloseNewTab([tabs EXCEPT !.lay = Bring(@, p)]),
                         NewBuffer(nextId, None, "newTab", FALSE)))
  /\ nextId' = nextId + 1
  /\ Idle

(* reopenClosedTab: take the last closed tab, read its file, open it and   *)
(* pin it again if it was pinned.                                          *)
ReopenClosed ==
  /\ reopening = None /\ MayStart
  /\ tabs.closed # <<>>
  /\ reopening' = Head(tabs.closed)
  /\ tabs' = [tabs EXCEPT !.closed = Tail(@)]
  /\ UNCHANGED <<openReq, saving, limitDue, nextId>>

ReopenRead ==
  /\ reopening # None
  /\ nextId \in Ids
  /\ Become(Repin(OpenEditor(tabs, reopening.path, FALSE, nextId), reopening.pinned))
  /\ nextId' = IF Opened(tabs, reopening.path) THEN nextId ELSE nextId + 1
  /\ reopening' = None
  /\ UNCHANGED <<openReq, saving>>

ReopenFails ==   \* the tab is in no history any more
  /\ reopening # None
  /\ reopening' = None
  /\ UNCHANGED <<tabs, openReq, saving, limitDue, nextId>>

(* handleCreateNewFile with no folder open: the number counts the untitled *)
(* buffers that are open, so one of them may have it already.              *)
NewUntitled ==
  LET path == Len(Where(tabs.bufs, IsUntitled)) + 1 IN
  /\ nextId \in Ids
  /\ Become(OpenEditor(tabs, path, FALSE, nextId))
  /\ nextId' = IF Opened(tabs, path) THEN nextId ELSE nextId + 1
  /\ Idle

(* The user edits in the pane in front, or undoes the edits: the active    *)
(* buffer gets the text, whichever one the pane shows (handleContentChange)*)
(* but an untitled buffer is virtual: edits never make it dirty.           *)
Edit(d) ==
  /\ tabs.active # None
  /\ InFront(tabs.lay).active # None
  /\ BufferOf(tabs, InFront(tabs.lay).active).type = "editor"
  /\ IsFile(BufferOf(tabs, tabs.active))
  /\ BufferOf(tabs, tabs.active).dirty # d
  /\ LET t == SetDirty(tabs, tabs.active, d)
     IN Become(IF d THEN MakeDefinite(t, tabs.active) ELSE t)
  /\ Idle /\ UNCHANGED nextId

(* handleSave of the buffer in front, successful or not (DocumentSave has  *)
(* its steps).                                                             *)
SaveActive(ok) ==
  /\ tabs.active # None
  /\ IsFile(BufferOf(tabs, tabs.active))
  /\ Become(SetDirty(tabs, tabs.active, ~ok))
  /\ Idle /\ UNCHANGED nextId

(* handleSave of an untitled buffer, which was in front when it began: the *)
(* dialog has been answered and the file written.  (A dialog cancelled, or *)
(* a file that cannot be written, changes nothing.)                        *)
SaveUntitled(id, path) ==
  /\ IsUntitled(BufferOf(tabs, id))
  /\ Become(SaveAs(tabs, id, path))
  /\ Idle /\ UNCHANGED nextId

(* handleRenamePath and handleFileMove, once the file is moved: the first  *)
(* buffer with its path follows it.                                        *)
Rename(from, to) ==
  LET same == Where(tabs.bufs, LAMBDA b : b.path = from) IN
  /\ same # <<>>
  /\ Become(GivePath(tabs, Head(same).id, to))
  /\ Idle /\ UNCHANGED nextId

SelectTab(id) ==
  Become(Activate(tabs, id)) /\ Idle /\ UNCHANGED nextId

Pin(id) ==   \* from the tab's menu; the new-tab page has no tab
  /\ BufferOf(tabs, id).type # "newTab"
  /\ BufferOf(tabs, id).pinned
       \/ Len(Where(tabs.bufs, LAMBDA b : b.pinned)) < MaxPinned
  /\ Become(TogglePin(tabs, id)) /\ Idle /\ UNCHANGED nextId

Promote(id) ==   \* double click on the tab
  /\ BufferOf(tabs, id).preview
  /\ Become(MakeDefinite(tabs, id)) /\ Idle /\ UNCHANGED nextId

Reorder(from, to) ==
  /\ LET moved == tabs.bufs[from]
         rest  == RemoveAt(tabs.bufs, from)
     IN Become([tabs EXCEPT !.bufs = InsertAt(rest, to, moved)])
  /\ Idle /\ UNCHANGED nextId

(* switchToNextBuffer and switchToPreviousBuffer; a buffer the pane does   *)
(* not show counts as before its first one.                                *)
Switch(forward) ==
  LET ids == Where(InFront(tabs.lay).ids, LAMBDA x : x \in OpenIds(tabs))
      n   == Len(ids)
      cur == IF tabs.active \in ToSet(ids)
             THEN CHOOSE k \in DOMAIN ids : ids[k] = tabs.active ELSE 0
      to  == IF forward THEN (cur % n) + 1 ELSE ((cur + n - 2) % n) + 1
  IN /\ n > 1
     /\ Become([tabs EXCEPT !.active = ids[to], !.lay = ToFront(@, ids[to])])
     /\ Idle /\ UNCHANGED nextId

CloseTab(id) ==
  Become(CloseAsking(tabs, id)) /\ Idle /\ UNCHANGED nextId

CloseTabs(type, anchor) ==   \* handleCloseOtherTabs, -AllTabs, -TabsToLeft, -Right
  Become(CloseBatch(tabs, type, anchor)) /\ Idle /\ UNCHANGED nextId

CloseSavedTabs ==
  /\ Become(CloseForceAll(tabs, IdsOf(Where(tabs.bufs, LAMBDA b :
                                        ~b.pinned /\ ~IsDirty(b)))))
  /\ Idle /\ UNCHANGED nextId

-----------------------------------------------------------------------------
(* The answers to the unsaved-changes dialog.                              *)
Cancel ==
  /\ tabs.pending # None
  /\ Become([tabs EXCEPT !.pending = None])
  /\ Idle /\ UNCHANGED nextId

Discard ==
  /\ tabs.pending # None
  /\ Become(Confirm(tabs))
  /\ Idle /\ UNCHANGED nextId

(* handleSaveAndClose: handleSave works on the buffer in front; then, saved *)
(* or not, the pending close is confirmed, if there still is one.  Only a  *)
(* handleSave that throws, when it cannot write an untitled buffer, keeps  *)
(* the dialog open.                                                        *)
SaveAndClose ==
  /\ saving = None /\ MayStart
  /\ tabs.pending # None
  /\ tabs.pending.id \in OpenIds(tabs)
  /\ LET edits == /\ tabs.active # None
                  /\ BufferOf(tabs, tabs.active).type = "editor"
     IN saving' = [id |-> IF edits THEN tabs.active ELSE None,
                   untitled |-> edits /\ IsUntitled(BufferOf(tabs, tabs.active))]
  /\ UNCHANGED <<tabs, openReq, reopening, limitDue, nextId>>

SaveAndCloseEnds(ok) ==
  /\ saving # None /\ ~saving.untitled
  /\ saving' = None
  /\ Become(Confirm(IF saving.id = None THEN tabs
                    ELSE SetDirty(tabs, saving.id, ~ok)))
  /\ UNCHANGED <<openReq, reopening, nextId>>

SaveAsAndCloseEnds(path) ==   \* None: the dialog was cancelled
  /\ saving # None /\ saving.untitled
  /\ saving' = None
  /\ Become(Confirm(IF path = None THEN tabs ELSE SaveAs(tabs, saving.id, path)))
  /\ UNCHANGED <<openReq, reopening, nextId>>

SaveAndCloseThrows ==
  /\ saving # None /\ saving.untitled
  /\ saving' = None
  /\ UNCHANGED <<tabs, openReq, reopening, limitDue, nextId>>

(* While a pane has more tabs than the setting allows, its tab bar closes  *)
(* those that are neither pinned nor on top.                               *)
OverLimit(t, g) ==
  LET shown == ShownIn(t, g)
      ids   == IdsOf(Where(shown, LAMBDA b :
                         ~b.pinned /\ b.id # g.active))
      over  == Len(shown) - SettingMax
  IN IF Len(shown) <= SettingMax THEN <<>>
     ELSE SubSeq(ids, 1, IF over > Len(ids) THEN Len(ids) ELSE over)

AllOverLimit(t) == FlattenSeq([k \in DOMAIN t.lay.groups |->
                                 OverLimit(t, t.lay.groups[k])])

(* Mutant of LimitTabs: closes without asking.                             *)
LimitTabsForced ==
  /\ TooMany(tabs)
  /\ Become(CloseForceAll(tabs, AllOverLimit(tabs)))
  /\ Idle /\ UNCHANGED nextId

(* After a change the effect runs at once; it also runs again whenever the *)
(* tab bar is rendered for a reason of its own, as when its menu opens.    *)
LimitTabs ==
  /\ TooMany(tabs)
  /\ Become(FoldLeft(CloseAsking, tabs, AllOverLimit(tabs)))
  /\ Idle /\ UNCHANGED nextId

-----------------------------------------------------------------------------
(* The panes.                                                              *)
IsEditorPane(p) == p \in ToSet(EditorPanes(tabs.lay))
MayAddPane == Len(EditorPanes(tabs.lay)) < MaxPanes

Relay(lay) == Become([tabs EXCEPT !.lay = lay]) /\ Idle /\ UNCHANGED nextId

(* activatePaneAndSyncBuffer: a click into a pane, or a key that goes to   *)
(* the next one.                                                           *)
FocusPane(p) ==
  LET lay == Bring(tabs.lay, p)
      t   == [tabs EXCEPT !.lay = lay]
      act == PaneAt(lay, p).active
  IN /\ Become(IF act \in {None, tabs.active} THEN t ELSE Activate(t, act))
     /\ Idle /\ UNCHANGED nextId

(* activateBufferInPaneAndSync                                             *)
ShowHere(t, p, id) ==
  LET u == [t EXCEPT !.lay = ShowIn(t.lay, p, id)]
  IN IF t.active = id THEN u ELSE Activate(u, id)

ClickTab(p, id) ==
  Become(ShowHere(tabs, p, id)) /\ Idle /\ UNCHANGED nextId

(* splitEditorGroup, from the tab's menu or by a key: the new pane shares   *)
(* the buffer, unless it is one that has a process behind it.  (The click  *)
(* that opens the menu has brought the pane to the front.)                 *)
SplitPane(id) ==
  LET p == tabs.lay.front IN
  /\ IsEditorPane(p) /\ MayAddPane
  /\ Relay(SplitBeside(tabs.lay, p,
                       IF id # None /\ BufferOf(tabs, id).type # "terminal"
                       THEN id ELSE None, FALSE))

SplitIds == ToSet(InFront(tabs.lay).ids) \cup {InFront(tabs.lay).active}

CloseSplit(p) ==   \* the tab bar's button, and closeActiveEditorGroup
  /\ IsEditorPane(p) /\ EditorPanes(tabs.lay) # <<p>>
  /\ Relay(ClosePane(tabs.lay, p))

CloseOtherSplits ==   \* closeOtherEditorGroups
  LET front == tabs.lay.front IN
  /\ IsEditorPane(front) /\ EditorPanes(tabs.lay) # <<front>>
  /\ Relay(FoldLeft(ClosePane, Bring(tabs.lay, front),
                    Without(EditorPanes(tabs.lay), front)))

MoveToNextPane(forward) ==   \* moveActiveEditorToAdjacentGroup
  LET all  == EditorPanes(tabs.lay)
      n    == Len(all)
      from == tabs.lay.front
      cur  == CHOOSE k \in 1 .. n : all[k] = from
      to   == IF forward THEN (cur % n) + 1 ELSE ((cur + n - 2) % n) + 1
  IN /\ IsEditorPane(from) /\ n > 1
     /\ InFront(tabs.lay).active # None
     /\ Relay(MoveTo(tabs.lay, InFront(tabs.lay).active, from, all[to], FALSE))

(* A tab is dragged onto another pane, or to an edge of a pane: the drop   *)
(* on an edge of its own pane keeps that pane even if it is left empty,    *)
(* when it comes from the tab bar's drag and not from the browser's.       *)
DropTab(id, from, to) ==
  /\ from # to
  /\ Become(ShowHere([tabs EXCEPT !.lay = MoveTo(@, id, from, to, FALSE)], to, id))
  /\ Idle /\ UNCHANGED nextId

DropTabBeside(id, from, at, before, keepEmpty) ==
  LET new == FreshPane(tabs.lay)
      lay == SplitBeside(tabs.lay, at, None, before)
  IN /\ IsEditorPane(at) /\ MayAddPane
     /\ keepEmpty => from = at /\ PaneAt(tabs.lay, from).ids = <<id>>
     /\ Become(ShowHere([tabs EXCEPT !.lay = MoveTo(lay, id, from, new, keepEmpty)],
                        new, id))
     /\ Idle /\ UNCHANGED nextId

-----------------------------------------------------------------------------
Init ==
  /\ tabs = [bufs |-> <<>>, active |-> None, pending |-> None, closed |-> <<>>,
             lay |-> InitialLayout]
  /\ openReq = None
  /\ reopening = None
  /\ saving = None
  /\ limitDue = FALSE
  /\ nextId = 1

OpenStep == FileRead \/ OpenTerminal \/ ReopenRead \/ NewUntitled
SaveAndCloseStep ==
  \/ \E ok \in BOOLEAN : SaveAndCloseEnds(ok)
  \/ \E path \in Paths \cup {None} : SaveAsAndCloseEnds(path)
DialogStep == Discard \/ SaveAndCloseStep

UserOrReadStep ==
  \/ \E path \in Paths, preview \in BOOLEAN : SelectFile(path, preview)
  \/ FileRead
  \/ FileReadFails
  \/ OpenTerminal
  \/ \E p \in ToSet(AllPanes(tabs.lay)) : ShowNewTab(p)
  \/ ReopenClosed
  \/ ReopenRead
  \/ ReopenFails
  \/ NewUntitled
  \/ \E d \in BOOLEAN : Edit(d)
  \/ \E ok \in BOOLEAN : SaveActive(ok)
  \/ \E id \in OpenIds(tabs), path \in Paths : SaveUntitled(id, path)
  \/ \E from \in Paths : \E to \in Paths \ {from} : Rename(from, to)
  \/ \E id \in OpenIds(tabs) :
       \/ SelectTab(id)
       \/ Pin(id)
       \/ Promote(id)
       \/ CloseTab(id)
       \/ \E type \in {"others", "to-left", "to-right"} : CloseTabs(type, id)
  \/ CloseTabs("all", None)
  \/ CloseSavedTabs
  \/ \E from, to \in DOMAIN tabs.bufs : from # to /\ Reorder(from, to)
  \/ \E forward \in BOOLEAN : Switch(forward)
  \/ \E p \in ToSet(AllPanes(tabs.lay)) :
       \/ FocusPane(p)
       \/ CloseSplit(p)
       \/ \E id \in ToSet(PaneAt(tabs.lay, p).ids) :
            \/ ClickTab(p, id)
            \/ \E to \in ToSet(AllPanes(tabs.lay)) :
                 \/ DropTab(id, p, to)
                 \/ \E before, keepEmpty \in BOOLEAN :
                      DropTabBeside(id, p, to, before, keepEmpty)
  \/ \E id \in SplitIds : SplitPane(id)
  \/ CloseOtherSplits
  \/ \E forward \in BOOLEAN : MoveToNextPane(forward)
  \/ Cancel
  \/ Discard
  \/ SaveAndClose
  \/ SaveAndCloseStep
  \/ SaveAndCloseThrows

Next ==
  \/ ~limitDue /\ UserOrReadStep
  \/ LimitTabs

Spec == Init /\ [][Next]_vars

-----------------------------------------------------------------------------
TypeOK ==
  /\ tabs.bufs \in Seq(Buffer)
  /\ tabs.active \in Ids \cup {None}
  /\ tabs.pending \in PendingClose \cup {None}
  /\ tabs.closed \in Seq(ClosedTab) /\ Len(tabs.closed) <= MaxHistory
  /\ tabs.lay.groups \in Seq(Pane)
  /\ tabs.lay.front \in PaneIds /\ tabs.lay.recent \in Seq(PaneIds)
  /\ openReq \in [path : Paths, preview : BOOLEAN] \cup {None}
  /\ reopening \in ClosedTab \cup {None}
  /\ saving \in [id : Ids \cup {None}, untitled : BOOLEAN] \cup {None}
  /\ limitDue \in BOOLEAN
  /\ nextId \in 1 .. MaxOpens + 1

(* The buffer store and the pane store, updated one after the other by     *)
(* every operation, describe the same tabs: the panes show exactly the     *)
(* open buffers, a pane each one once, with the last used on top; nothing  *)
(* is active only when nothing is open.                                    *)
PanesShowBuffers ==
  LET lay == tabs.lay
      all == AllPanes(lay)
  IN /\ \A k \in DOMAIN all : LET g == lay.groups[k] IN
          /\ IsInjective(g.ids) /\ Len(g.mru) = Len(g.ids)
          /\ ToSet(g.mru) = ToSet(g.ids) /\ g.active = HeadOr(g.mru)
          /\ g.preview \in ToSet(g.ids) \cup {None}
     /\ OpenIds(tabs) = UNION {ToSet(lay.groups[k].ids) : k \in DOMAIN all}
     /\ IsInjective(all) /\ HasPane(lay, lay.front) /\ Head(lay.recent) = lay.front
     /\ IF tabs.bufs = <<>> THEN tabs.active = None ELSE tabs.active \in OpenIds(tabs)

FrontIsActive == InFront(tabs.lay).active \in {None, tabs.active}

SplitOrCloseStep ==
  \/ \E p \in ToSet(AllPanes(tabs.lay)) : CloseSplit(p)
  \/ CloseOtherSplits
  \/ \E id \in SplitIds : SplitPane(id)

(* Every step leaves the two stores in agreement, and the buffer on top of *)
(* the pane in front, where the user types, stays the active one, which    *)
(* typing and saving work on.  Only splitting and closing panes, which     *)
(* never tell the buffer store, can part the two.                          *)
PaneAgrees ==
  [][tabs' # tabs =>
       /\ PanesShowBuffers'
       /\ FrontIsActive => FrontIsActive' \/ SplitOrCloseStep]_vars

(* A file is open in one tab only, even when two reads of it (a file       *)
(* request and a reopened tab) were in flight together, unless one of the  *)
(* tabs was given the path of another one: by saving an untitled buffer,   *)
(* or by renaming or moving its file, neither of which looks for a tab of  *)
(* the new path.                                                           *)
OneTabPerFile ==
  \A j, k \in DOMAIN tabs.bufs :
    tabs.bufs[j].path = tabs.bufs[k].path /\ tabs.bufs[j].type = "editor"
      => j = k \/ tabs.bufs[j].twin \/ tabs.bufs[k].twin

Gone == OpenIds(tabs) \ OpenIds(tabs)'

(* An unsaved buffer leaves the tabs only by an answer to the dialog, or   *)
(* when opening another buffer evicts it at the store's limit, or replaces *)
(* it because it is a preview (whose save failed: edits end a preview).    *)
(* No other way of closing, in whatever order with the dialog and the      *)
(* reads in flight, drops an edit.                                         *)
AtStoreLimit ==
  Len(Where(tabs.bufs, LAMBDA b : ~b.pinned /\ b.type # "terminal")) >= StoreMax

UnsavedNeedsConsent ==
  [][\A id \in Gone : IsDirty(BufferOf(tabs, id)) =>
       \/ DialogStep
       \/ OpenStep /\ (AtStoreLimit \/ BufferOf(tabs, id).preview)]_vars

(* A pinned tab is closed only one at a time, by its own close button (or  *)
(* the dialog this opened): batches, evictions and the tab limit spare it. *)
PinnedStays ==
  [][\A id \in Gone : BufferOf(tabs, id).pinned =>
       \/ CloseTab(id)
       \/ DialogStep /\ tabs.pending.type = "single" /\ tabs.pending.id = id]_vars

(* "Save" in the dialog first saves, then closes: no buffer is closed with *)
(* edits that were not saved.                                              *)
SavedBeforeClosing ==
  [][\A ok \in BOOLEAN, k \in DOMAIN tabs.bufs :
       IsDirty(tabs.bufs[k]) /\ tabs.bufs[k].id \notin OpenIds(tabs)'
         => /\ SaveAndCloseEnds(ok) => ok /\ saving.id = tabs.bufs[k].id
            /\ \A path \in Paths \cup {None} : ~SaveAsAndCloseEnds(path)]_vars

=============================================================================
