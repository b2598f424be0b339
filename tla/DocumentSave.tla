---------------------------- MODULE DocumentSave ----------------------------
(***************************************************************************)
(* How an editor buffer and its file stay in step: typing, manual save,    *)
(* save all, autosave, format on save, the file watcher's reload, revert,  *)
(* and other programs that write the same file.                            *)
(*                                                                         *)
(* Everything in the window runs on one JavaScript thread: the code        *)
(* between two awaits is one action, and anything may happen at an await.  *)
(* A call of saveEditorBufferById, or the callback of the autosave timer,  *)
(* is a task that keeps, across its awaits, the text it captured when it   *)
(* started.                                                                *)
(***************************************************************************)
EXTENDS Naturals, FiniteSets

CONSTANTS
  Bufs,          \* the open editor buffers, one file each
  Text,          \* the texts a buffer or a file can hold
  NoFile,        \* what the path of an untitled buffer holds: no file yet
  Kind0,         \* the kinds the buffers can have at the start
  Text0,         \* the text every buffer is opened with
  Format,        \* the formatter, a function from Text to Text
  AutoSave,      \* the setting autoSave
  FormatOnSave,  \* the setting formatOnSave
  Slots,         \* bound: the tasks of one buffer that can be in flight
  Reads,         \* bound: the reloads of one buffer that can be in flight
  MaxEdits,      \* bound: how often the user types
  MaxExternal,   \* bound: how often another program writes a file
  MaxFaults      \* bound: how many reads and writes fail

Kinds == {"local", "remote", "untitled"}

(* Only the root of the project is watched, and not its subfolders; a file *)
(* the watcher has no time of (known_files) is new to it.                  *)
Watches == {"no", "new", "known"}

ASSUME ConstantsAssumption ==
  /\ NoFile \notin Text
  /\ Text0 \in Text
  /\ Kind0 \subseteq [Bufs -> Kinds]
  /\ Format \in [Text -> Text]
  /\ AutoSave \in BOOLEAN /\ FormatOnSave \in BOOLEAN
  /\ MaxEdits \in Nat /\ MaxExternal \in Nat /\ MaxFaults \in Nat

VARIABLES
  kind,      \* local file, file of an SSH connection, or untitled (isVirtual)
  watch,     \* whether the watcher sees the file, and has its time already
  content,   \* buffer.content
  saved,     \* buffer.savedContent
  dirty,     \* buffer.isDirty
  disk,      \* what the file holds
  timer,     \* autoSaveTimeoutId: the one autosave timer of the window
  task,      \* the saves in flight, per buffer and slot
  pending,   \* the keys of pendingSaves
  notif,     \* the watcher's undelivered events, by who wrote the file
  reload,    \* the calls of reloadBufferFromDisk in flight, per buffer
  budget,    \* edits, external writes and faults so far
  exposed    \* ghost: the buffer met one of the races listed at Exposed

vars == <<kind, watch, content, saved, dirty, disk, timer, task, pending, notif,
          reload, budget, exposed>>
bufferVars == <<content, saved, dirty>>

Idle     == [pc |-> "idle"]
NoTimer  == [at |-> "none"]
NoReload == [at |-> "none"]
Reading  == [at |-> "reading"]

TaskPcs  == {"begin", "dialog", "format", "write", "mark"}
TaskRecs == {Idle} \cup [pc : TaskPcs, text : Text, from : Kinds \cup {"timer"}]

Busy(b)      == \E i \in Slots : task[b][i] # Idle
Reloading(b) == \E r \in Reads : reload[b][r] # NoReload
HasRead(b, r) == reload[b][r].at = "read"
OtherBusy(b, i) == \E j \in Slots \ {i} : task[b][j] # Idle
FreeSlots(b) == {i \in Slots : task[b][i] = Idle}
FreeSlot(b)  == CHOOSE i \in Slots : task[b][i] = Idle
FreeReads(b) == {r \in Reads : reload[b][r] = NoReload}
FreeRead(b)  == CHOOSE r \in Reads : reload[b][r] = NoReload

-----------------------------------------------------------------------------
(* Operations of the buffer store.                                         *)

UpdateBufferContent(b, t, markDirty) ==
  IF content[b] = t THEN UNCHANGED bufferVars
  ELSE /\ content' = [content EXCEPT ![b] = t]
       /\ IF kind[b] = "untitled" THEN UNCHANGED <<saved, dirty>>
          ELSE IF markDirty
            THEN dirty' = [dirty EXCEPT ![b] = (t # saved[b])] /\ UNCHANGED saved
            ELSE /\ saved' = [saved EXCEPT ![b] = t]
                 /\ dirty' = [dirty EXCEPT ![b] = FALSE]

(* Mutant of MarkBufferDirty: clears the flag but not the saved text.      *)
MarkFlagOnly(b, d) ==
  dirty' = [dirty EXCEPT ![b] = d] /\ UNCHANGED <<content, saved>>

MarkBufferDirty(b, d) ==
  /\ dirty' = [dirty EXCEPT ![b] = d]
  /\ saved' = IF d THEN saved ELSE [saved EXCEPT ![b] = content[b]]
  /\ UNCHANGED content

MarkPendingSave(b) == pending' = pending \cup {b}

Expose(b, cond) == exposed' = IF cond THEN exposed \cup {b} ELSE exposed

SetTask(b, i, rec) == task' = [task EXCEPT ![b][i] = rec]
Spend(what) == budget' = [budget EXCEPT ![what] = @ + 1]
CanFault == budget.faults < MaxFaults

-----------------------------------------------------------------------------
(* handleContentChange: the user edits a buffer.  A remote buffer is       *)
(* updated without being marked dirty; the timer is shared by all buffers. *)
Type(b, t) ==
  /\ budget.edits < MaxEdits
  /\ t # content[b]
  /\ UpdateBufferContent(b, t, kind[b] # "remote")
  /\ timer' = IF kind[b] = "local" /\ AutoSave
              THEN [at |-> "set", buf |-> b, text |-> t] ELSE timer
  /\ Expose(b, Busy(b))
  /\ Spend("edits")
  /\ UNCHANGED <<kind, watch, disk, task, pending, notif, reload>>

(* Mutant of AutoSaveFires: gives up while another save is pending.        *)
AutoSaveYields ==
  /\ timer # NoTimer
  /\ LET b == timer.buf IN
     IF b \in pending THEN UNCHANGED <<task, pending, exposed>>
     ELSE /\ FreeSlots(b) # {}
          /\ MarkPendingSave(b)
          /\ SetTask(b, FreeSlot(b),
                     [pc |-> "write", text |-> timer.text, from |-> "timer"])
          /\ Expose(b, timer.text # content[b] \/ Reloading(b))
  /\ timer' = NoTimer
  /\ UNCHANGED <<kind, watch, bufferVars, disk, notif, reload, budget>>

(* The autosave timer goes off: its callback writes the text it was set    *)
(* with, whatever the buffer holds by now.                                 *)
AutoSaveFires ==
  /\ timer # NoTimer
  /\ LET b == timer.buf IN
     /\ FreeSlots(b) # {}
     /\ MarkPendingSave(b)
     /\ SetTask(b, FreeSlot(b), [pc |-> "write", text |-> timer.text, from |-> "timer"])
     /\ Expose(b, timer.text # content[b] \/ Reloading(b))
  /\ timer' = NoTimer
  /\ UNCHANGED <<kind, watch, bufferVars, disk, notif, reload, budget>>

-----------------------------------------------------------------------------
(* saveEditorBufferById, from the snapshot of the buffer to the first      *)
(* await; handleSave starts one, handleSaveAll one per dirty buffer.       *)
SaveTask(b) == [pc |-> IF kind[b] = "untitled" THEN "dialog" ELSE "begin",
                text |-> content[b], from |-> kind[b]]

Save(b) ==
  /\ FreeSlots(b) # {}
  /\ SetTask(b, FreeSlot(b), SaveTask(b))
  /\ Expose(b, Reloading(b))
  /\ UNCHANGED <<kind, watch, bufferVars, disk, timer, pending, notif, reload, budget>>

SaveAll ==
  /\ \E b \in Bufs : dirty[b]
  /\ \A b \in Bufs : dirty[b] => FreeSlots(b) # {}
  /\ task' = [b \in Bufs |->
                IF dirty[b] THEN [task[b] EXCEPT ![FreeSlot(b)] = SaveTask(b)]
                ELSE task[b]]
  /\ exposed' = exposed \cup {b \in Bufs : dirty[b] /\ Reloading(b)}
  /\ UNCHANGED <<kind, watch, bufferVars, disk, timer, pending, notif, reload, budget>>

(* After the first await: a remote save marks the buffer dirty and sends   *)
(* the file; a local one registers the pending save and formats or writes. *)
SaveBegins(b, i) ==
  /\ task[b][i] # Idle /\ task[b][i].pc = "begin"
  /\ IF task[b][i].from = "remote"
     THEN MarkBufferDirty(b, TRUE) /\ UNCHANGED pending
     ELSE MarkPendingSave(b) /\ UNCHANGED bufferVars
  /\ SetTask(b, i, [task[b][i] EXCEPT
       !.pc = IF task[b][i].from = "local" /\ FormatOnSave THEN "format" ELSE "write"])
  /\ UNCHANGED <<kind, watch, disk, timer, notif, reload, budget, exposed>>

(* formatContent succeeded: its result replaces the buffer's text, also    *)
(* what was typed since the snapshot, and counts as saved.                 *)
FormatApplied(b, i) ==
  /\ task[b][i] # Idle /\ task[b][i].pc = "format"
  /\ LET t == Format[task[b][i].text] IN
     /\ UpdateBufferContent(b, t, FALSE)
     /\ SetTask(b, i, [task[b][i] EXCEPT !.pc = "write", !.text = t])
     /\ Expose(b, t # content[b] /\ OtherBusy(b, i))
  /\ UNCHANGED <<kind, watch, disk, timer, pending, notif, reload, budget>>

(* formatContent failed: the captured text is written as it is.            *)
FormatSkipped(b, i) ==
  /\ task[b][i] # Idle /\ task[b][i].pc = "format"
  /\ SetTask(b, i, [task[b][i] EXCEPT !.pc = "write"])
  /\ UNCHANGED <<kind, watch, bufferVars, disk, timer, pending, notif, reload,
                 budget, exposed>>

(* The save dialog of an untitled buffer is answered, with a file anywhere *)
(* and old or new, or cancelled.                                           *)
DialogAnswered(b, i) ==
  /\ task[b][i] # Idle /\ task[b][i].pc = "dialog"
  /\ SetTask(b, i, [task[b][i] EXCEPT !.pc = "write"])
  /\ \E w \in Watches : watch' = [watch EXCEPT ![b] = w]
  /\ UNCHANGED <<kind, bufferVars, disk, timer, pending, notif, reload,
                 budget, exposed>>

DialogCancelled(b, i) ==
  /\ task[b][i] # Idle /\ task[b][i].pc = "dialog"
  /\ SetTask(b, i, Idle)
  /\ UNCHANGED <<kind, watch, bufferVars, disk, timer, pending, notif, reload,
                 budget, exposed>>

(* The file is written.  The watcher sees it, if it watches the file.      *)
WriteFile(b, i) ==
  /\ task[b][i] # Idle /\ task[b][i].pc = "write"
  /\ disk' = [disk EXCEPT ![b] = task[b][i].text]
  /\ notif' = IF watch[b] # "no"
              THEN [notif EXCEPT ![b] = @ \cup {"own"}] ELSE notif
  /\ SetTask(b, i, [task[b][i] EXCEPT !.pc = "mark"])
  /\ UNCHANGED <<kind, watch, bufferVars, timer, pending, reload, budget, exposed>>

(* Mutant of WriteFails: marks the buffer saved, as a finally block would. *)
WriteFailsClean(b, i) ==
  /\ CanFault /\ Spend("faults")
  /\ task[b][i] # Idle /\ task[b][i].pc = "write"
  /\ MarkBufferDirty(b, FALSE)
  /\ SetTask(b, i, Idle)
  /\ Expose(b, saved[b] # disk[b])
  /\ UNCHANGED <<kind, watch, disk, timer, pending, notif, reload>>

(* The write fails: the catch blocks mark the buffer dirty; the save of an *)
(* untitled buffer has no catch block.                                     *)
WriteFails(b, i) ==
  /\ CanFault /\ Spend("faults")
  /\ task[b][i] # Idle /\ task[b][i].pc = "write"
  /\ IF task[b][i].from = "untitled" THEN UNCHANGED bufferVars
     ELSE MarkBufferDirty(b, TRUE)
  /\ SetTask(b, i, Idle)
  /\ Expose(b, saved[b] # disk[b])
  /\ UNCHANGED <<kind, watch, disk, timer, pending, notif, reload>>

(* The write and the language server's didSave are acknowledged: the       *)
(* buffer's text of this moment becomes its saved text.  An untitled       *)
(* buffer takes the path chosen in the dialog first (updateBufferPath).    *)
SaveMarks(b, i) ==
  /\ task[b][i] # Idle /\ task[b][i].pc = "mark"
  /\ MarkBufferDirty(b, FALSE)
  /\ kind' = IF task[b][i].from = "untitled"
             THEN [kind EXCEPT ![b] = "local"] ELSE kind
  /\ SetTask(b, i, Idle)
  /\ UNCHANGED <<watch, disk, timer, pending, notif, reload, budget, exposed>>

-----------------------------------------------------------------------------
(* The timeout of markPendingSave.  It is 800 ms and a save, its format    *)
(* and the watcher's debounce can each take longer or shorter: the model   *)
(* lets it expire at any time.                                             *)
PendingSaveExpires(b) ==
  /\ b \in pending
  /\ pending' = pending \ {b}
  /\ UNCHANGED <<kind, watch, bufferVars, disk, timer, task, notif, reload, budget,
                 exposed>>

(* The "file-changed" event of a file that was new to the watcher says     *)
(* "opened", and the listener passes over it; it finds no buffer for a     *)
(* file whose buffer is still untitled.                                    *)
Reports(b) == notif[b] # {} /\ watch[b] = "known" /\ kind[b] = "local"

ChangeUnmet(b) ==
  /\ notif[b] # {} /\ ~Reports(b)
  /\ notif' = [notif EXCEPT ![b] = {}]
  /\ watch' = [watch EXCEPT ![b] = IF @ = "new" THEN "known" ELSE @]
  /\ Expose(b, "ext" \in notif[b])
  /\ UNCHANGED <<kind, bufferVars, disk, timer, task, pending, reload, budget>>

(* The event "reloaded": ignored during a pending save, otherwise the      *)
(* buffer is reloaded, dirty or not.                                       *)
ChangeIgnored(b) ==
  /\ Reports(b)
  /\ b \in pending
  /\ notif' = [notif EXCEPT ![b] = {}]
  /\ Expose(b, "ext" \in notif[b])
  /\ UNCHANGED <<kind, watch, bufferVars, disk, timer, task, pending, reload, budget>>

(* A call of reloadBufferFromDisk begins.  Nothing asks whether another    *)
(* one of the same buffer is waiting for its text already.                 *)
StartReload(b) ==
  FreeReads(b) # {} /\ reload' = [reload EXCEPT ![b][FreeRead(b)] = Reading]

(* Mutant of ChangeReloads: takes an event that merges another program's   *)
(* change with the window's own write for the latter.                      *)
ChangeTakenForOwn(b) ==
  /\ Reports(b)
  /\ b \notin pending
  /\ notif' = [notif EXCEPT ![b] = {}]
  /\ IF "own" \in notif[b] THEN UNCHANGED reload ELSE StartReload(b)
  /\ Expose(b, Busy(b))
  /\ UNCHANGED <<kind, watch, bufferVars, disk, timer, task, pending, budget>>

ChangeReloads(b) ==
  /\ Reports(b)
  /\ b \notin pending
  /\ notif' = [notif EXCEPT ![b] = {}]
  /\ StartReload(b)
  /\ Expose(b, Busy(b))
  /\ UNCHANGED <<kind, watch, bufferVars, disk, timer, task, pending, budget>>

(* Mutant of Revert: does not ask whether the buffer has a file.           *)
RevertAnyKind(b) ==
  /\ StartReload(b)
  /\ Expose(b, Busy(b))
  /\ UNCHANGED <<kind, watch, bufferVars, disk, timer, task, pending, notif, budget>>

(* revertActiveFile                                                        *)
Revert(b) ==
  /\ kind[b] = "local"
  /\ StartReload(b)
  /\ Expose(b, Busy(b))
  /\ UNCHANGED <<kind, watch, bufferVars, disk, timer, task, pending, notif, budget>>

ReloadReads(b, r) ==
  /\ reload[b][r] = Reading
  /\ reload' = [reload EXCEPT ![b][r] = [at |-> "read", text |-> disk[b]]]
  /\ UNCHANGED <<kind, watch, bufferVars, disk, timer, task, pending, notif, budget,
                 exposed>>

(* Another reload of b has read a text other than t and is yet to apply it.*)
OthersRead(b, r, t) ==
  \E q \in Reads \ {r} : HasRead(b, q) /\ reload[b][q].text # t

(* The text that was read replaces the buffer's.  When the two are equal   *)
(* updateBufferContent returns early and leaves savedContent as it was.    *)
(* Reloads are applied in the order in which their reads are answered: a   *)
(* reload that read an older text may replace the file's by it afterwards. *)
ReloadApplies(b, r) ==
  /\ HasRead(b, r)
  /\ LET t == reload[b][r].text IN
     /\ UpdateBufferContent(b, t, FALSE)
     /\ Expose(b, \/ content[b] = t /\ saved[b] # t
                  \/ t = disk[b] /\ OthersRead(b, r, t))
  /\ reload' = [reload EXCEPT ![b][r] = NoReload]
  /\ UNCHANGED <<kind, watch, disk, timer, task, pending, notif, budget>>

ReloadFails(b, r) ==
  /\ CanFault /\ Spend("faults")
  /\ reload[b][r] = Reading
  /\ reload' = [reload EXCEPT ![b][r] = NoReload]
  /\ Expose(b, TRUE)
  /\ UNCHANGED <<kind, watch, bufferVars, disk, timer, task, pending, notif>>

(* Another program writes the file of a local buffer.                      *)
ExternalWrite(b, t) ==
  /\ budget.exts < MaxExternal
  /\ kind[b] = "local"
  /\ t # disk[b]
  /\ disk' = [disk EXCEPT ![b] = t]
  /\ notif' = IF watch[b] # "no"
              THEN [notif EXCEPT ![b] = @ \cup {"ext"}] ELSE notif
  /\ Expose(b, watch[b] = "no")
  /\ Spend("exts")
  /\ UNCHANGED <<kind, watch, bufferVars, timer, task, pending, reload>>

-----------------------------------------------------------------------------
Init ==
  /\ kind \in Kind0
  /\ watch \in [Bufs -> {"no", "known"}]
  /\ \A b \in Bufs : kind[b] # "local" => watch[b] = "no"
  /\ content = [b \in Bufs |-> Text0]
  /\ saved = [b \in Bufs |-> Text0]
  /\ dirty = [b \in Bufs |-> FALSE]
  /\ disk = [b \in Bufs |-> IF kind[b] = "untitled" THEN NoFile ELSE Text0]
  /\ timer = NoTimer
  /\ task = [b \in Bufs |-> [i \in Slots |-> Idle]]
  /\ pending = {}
  /\ notif = [b \in Bufs |-> {}]
  /\ reload = [b \in Bufs |-> [r \in Reads |-> NoReload]]
  /\ budget = [edits |-> 0, exts |-> 0, faults |-> 0]
  /\ exposed = {}

TaskStep(b, i) ==
  \/ SaveBegins(b, i)
  \/ FormatApplied(b, i)
  \/ FormatSkipped(b, i)
  \/ DialogAnswered(b, i)
  \/ DialogCancelled(b, i)
  \/ WriteFile(b, i)
  \/ WriteFails(b, i)
  \/ SaveMarks(b, i)

WatcherStep(b) ==
  \/ PendingSaveExpires(b)
  \/ ChangeUnmet(b)
  \/ ChangeIgnored(b)
  \/ ChangeReloads(b)
  \/ Revert(b)

ReloadStep(b, r) ==
  \/ ReloadReads(b, r)
  \/ ReloadApplies(b, r)
  \/ ReloadFails(b, r)

Next ==
  \/ AutoSaveFires
  \/ SaveAll
  \/ \E b \in Bufs :
       \/ Save(b)
       \/ \E t \in Text : Type(b, t)
       \/ \E t \in Text : ExternalWrite(b, t)
       \/ \E i \in Slots : TaskStep(b, i)
       \/ WatcherStep(b)
       \/ \E r \in Reads : ReloadStep(b, r)

Spec == Init /\ [][Next]_vars

(* Timers go off, promises settle and events are delivered.  Nothing is    *)
(* assumed of the user: not that they type, save or answer a dialog.       *)
Fairness ==
  /\ WF_vars(AutoSaveFires)
  /\ \A b \in Bufs, i \in Slots :
       /\ WF_vars(SaveBegins(b, i))
       /\ WF_vars(FormatApplied(b, i) \/ FormatSkipped(b, i))
       /\ WF_vars(WriteFile(b, i) \/ WriteFails(b, i))
       /\ WF_vars(SaveMarks(b, i))
  /\ \A b \in Bufs :
       /\ WF_vars(PendingSaveExpires(b))
       /\ WF_vars(ChangeUnmet(b) \/ ChangeIgnored(b) \/ ChangeReloads(b))
  /\ \A b \in Bufs, r \in Reads :
       /\ WF_vars(ReloadReads(b, r) \/ ReloadFails(b, r))
       /\ WF_vars(ReloadApplies(b, r))

FairSpec == Spec /\ Fairness

-----------------------------------------------------------------------------
(* Every variable has its type.                                            *)
TypeOK ==
  /\ kind \in [Bufs -> Kinds]
  /\ watch \in [Bufs -> Watches]
  /\ content \in [Bufs -> Text]
  /\ saved \in [Bufs -> Text]
  /\ dirty \in [Bufs -> BOOLEAN]
  /\ disk \in [Bufs -> Text \cup {NoFile}]
  /\ timer \in {NoTimer} \cup [at : {"set"}, buf : Bufs, text : Text]
  /\ task \in [Bufs -> [Slots -> TaskRecs]]
  /\ pending \in SUBSET Bufs
  /\ notif \in [Bufs -> SUBSET {"own", "ext"}]
  /\ reload \in [Bufs -> [Reads -> {NoReload, Reading} \cup [at : {"read"}, text : Text]]]
  /\ budget \in [{"edits", "exts", "faults"} -> Nat]
  /\ exposed \in SUBSET Bufs

(* Nothing that concerns the buffer is under way: no save, no reload and   *)
(* no change by another program that the watcher has yet to report.        *)
Settled(b) == ~Busy(b) /\ ~Reloading(b) /\ "ext" \notin notif[b]

(* A settled local buffer that is shown as clean holds what its file       *)
(* holds, unless it met one of the races below; "exposed" records that it  *)
(* did.  Every close prompt relies on the flag, so this is the complete    *)
(* list of the ways in which a prompt can be missing:                      *)
(*   - the user typed while a save was in flight (Type);                   *)
(*   - the autosave timer went off for a text the buffer no longer holds,  *)
(*     because a format or a reload replaced it (AutoSaveFires);           *)
(*   - a format replaced the text under another save (FormatApplied);      *)
(*   - a save started during a reload, or a reload during a save           *)
(*     (Save, SaveAll, AutoSaveFires, ChangeReloads, Revert);              *)
(*   - another program's change was to a file outside the watched root     *)
(*     (ExternalWrite), was the first of a new file (ChangeUnmet), was     *)
(*     ignored for a pending save (ChangeIgnored), or its reload failed    *)
(*     (ReloadFails);                                                      *)
(*   - a write failed after its format had counted as saved (WriteFails);  *)
(*   - a reload found the text it expected and left savedContent at an     *)
(*     older one, to which the user can return (ReloadApplies);            *)
(*   - of two reloads in flight, the one that had read the text the file   *)
(*     holds was applied before one that had read another (ReloadApplies). *)
CleanMeansStored ==
  \A b \in Bufs :
    kind[b] = "local" /\ Settled(b) /\ ~dirty[b] /\ b \notin exposed
      => content[b] = disk[b]

(* A local or remote buffer whose text differs from its saved text is      *)
(* marked dirty: savedContent and isDirty are written in different places  *)
(* (updateBufferContent, markBufferDirty, updateBufferPath) and no order   *)
(* of them hides a difference.                                             *)
DirtyWhenUnsaved ==
  \A b \in Bufs : kind[b] # "untitled" /\ content[b] # saved[b] => dirty[b]

(* "Automatically save files when editing": with the setting on and every  *)
(* write succeeding, an edited file does not stay unsaved.                 *)
AutoSaveReaches ==
  \A b \in Bufs : (kind[b] = "local" /\ dirty[b]) ~> ~dirty[b]

(* A buffer that does not hold what its file holds does not stay so behind *)
(* a clean flag: it ends up in step, dirty, or exposed to a listed race.   *)
StaleResolves ==
  \A b \in Bufs : (kind[b] = "local" /\ content[b] # disk[b])
                   ~> (content[b] = disk[b] \/ dirty[b] \/ b \in exposed)

=============================================================================
