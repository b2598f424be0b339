---------------------------- MODULE MCBufferTabs ----------------------------
(* Small instances of BufferTabs for TLC.                                  *)
EXTENDS BufferTabs, FiniteSets

CONSTANTS p1, p2, p3

PathSymmetry == Permutations(Paths)

(* What a pane takes for its preview is one.                               *)
MCPanePreviews ==
  \A k \in DOMAIN tabs.lay.groups :
    LET id == tabs.lay.groups[k].preview IN id # None => BufferOf(tabs, id).preview

(* Keeps the main run short.  "Save and close" is explored without a read  *)
(* in flight, a preview or a pinned tab (Discard, which confirms the same  *)
(* way, with all of them); the dialog without a new-tab page, with a pinned*)
(* tab or a terminal only while no file is read, with a terminal also only *)
(* without previews and pinned tabs; neither the dialog nor a file request *)
(* with a history of closed tabs; the new-tab page beside clean, unpinned  *)
(* editors; two reads in flight beside editors that are no previews; and   *)
(* untitled buffers, two tabs of one path, a request for a file that is    *)
(* open by now and a pane whose preview is none (after such a request) with*)
(* plain editors only, no history, one read or one dialog at a time and two*)
(* buffers ever opened, the two tabs of one path also with no save.        *)
MCOneWait ==
  LET NoBuffer(Test(_)) == \A k \in DOMAIN tabs.bufs : ~Test(tabs.bufs[k])
      Terminal(b) == b.type = "terminal"
      NewTab(b) == b.type = "newTab"
      Preview(b) == b.preview
      Marked(b) == b.preview \/ b.pinned
      Pinned(b) == b.pinned
      Twin(b) == b.twin
      Odd(b) == IsUntitled(b) \/ b.twin
      reads == openReq # None \/ reopening # None
      both == openReq # None /\ reopening # None
  IN /\ saving # None => ~reads /\ NoBuffer(Marked)
     /\ both => /\ tabs.pending = None
                /\ NoBuffer(Terminal) /\ NoBuffer(NewTab) /\ NoBuffer(Preview)
     /\ NoBuffer(NewTab)
          \/ (NoBuffer(Terminal) /\ NoBuffer(Pinned) /\ NoBuffer(IsDirty))
     /\ (/\ NoBuffer(Odd) /\ MCPanePreviews
         /\ openReq = None \/ ~Opened(tabs, openReq.path))
          \/ (/\ NoBuffer(Terminal) /\ NoBuffer(NewTab) /\ NoBuffer(Marked)
              /\ tabs.closed = <<>> /\ ~both /\ nextId <= 3
              /\ ~reads \/ tabs.pending = None
              /\ saving = None \/ NoBuffer(Twin))
     /\ tabs.pending # None \/ openReq # None => tabs.closed = <<>>
     /\ tabs.pending # None =>
          /\ NoBuffer(NewTab)
          /\ reads => NoBuffer(Pinned)
          /\ NoBuffer(Terminal) \/ (~reads /\ NoBuffer(Marked))

(* Only the pane the window starts with has been in use, and no tab has    *)
(* been moved: buffers and tabs are in the order they were opened in.      *)
MCOnePane == /\ AllPanes(tabs.lay) = <<Root, Bottom>> /\ tabs.lay.front = Root
             /\ PaneAt(tabs.lay, Bottom).ids = <<>>
             /\ LET ids == PaneAt(tabs.lay, Root).ids
                IN \A j, k \in DOMAIN ids : j < k => ids[j] < ids[k]
             /\ \A j, k \in DOMAIN tabs.bufs :
                  j < k => tabs.bufs[j].id < tabs.bufs[k].id

(* Two panes are in use: at most two buffers are ever opened, clean and    *)
(* unpinned, and no dialog, history, reopening or request for a file that  *)
(* is open; previews only in editor panes and while no file is read.       *)
MCTwoPanes ==
  /\ nextId <= 3
  /\ saving = None /\ reopening = None /\ tabs.closed = <<>> /\ tabs.pending = None
  /\ \A k \in DOMAIN tabs.bufs : /\ ~tabs.bufs[k].pinned /\ ~tabs.bufs[k].dirty
                                 /\ tabs.bufs[k].type # "terminal"
                                 /\ ~IsUntitled(tabs.bufs[k]) /\ ~tabs.bufs[k].twin
                                 /\ openReq # None => /\ tabs.bufs[k].type = "editor"
                                                      /\ ~tabs.bufs[k].preview
  /\ openReq = None \/ ~Opened(tabs, openReq.path)
  /\ MCPanePreviews
  /\ PaneAt(tabs.lay, Bottom).ids = <<>>
     \/ /\ Len(EditorPanes(tabs.lay)) = 1
        /\ \A k \in DOMAIN tabs.bufs : ~tabs.bufs[k].preview

MCBounded == MCOneWait /\ (MCOnePane \/ MCTwoPanes)
=============================================================================
