------------------------ MODULE DocumentSave_proofs -------------------------
(***************************************************************************)
(* What DocumentSave promises of every buffer, for any number of buffers,  *)
(* texts, tasks and faults: the types; that a difference between the text  *)
(* of a buffer and its saved text is never hidden by the dirty flag; and   *)
(* that a buffer shown as clean holds what its file holds, so that the     *)
(* list of races that DocumentSave records in "exposed" is complete.       *)
(***************************************************************************)
EXTENDS DocumentSave, TLAPS

(* A buffer whose file does not exist is untitled, the watcher knows       *)
(* nothing of it, nothing reloads it and no save of it has been written.   *)
(* This is why a reload always finds a text.                               *)
AtMark(b, i) == task[b][i] # Idle /\ task[b][i].pc = "mark"

FileExists ==
  \A b \in Bufs : disk[b] = NoFile =>
    /\ kind[b] = "untitled"
    /\ notif[b] = {}
    /\ ~Reloading(b)
    /\ \A i \in Slots : ~AtMark(b, i)

Inv == TypeOK /\ FileExists /\ DirtyWhenUnsaved

ReloadRecs == {NoReload, Reading} \cup [at : {"read"}, text : Text]

(* TypeOK in three parts: the buffers, the tasks, and everything else.     *)
BuffersOK ==
  /\ content \in [Bufs -> Text]
  /\ saved \in [Bufs -> Text]
  /\ dirty \in [Bufs -> BOOLEAN]

TasksOK == task \in [Bufs -> [Slots -> TaskRecs]]

RestOK ==
  /\ kind \in [Bufs -> Kinds]
  /\ watch \in [Bufs -> Watches]
  /\ disk \in [Bufs -> Text \cup {NoFile}]
  /\ timer \in {NoTimer} \cup [at : {"set"}, buf : Bufs, text : Text]
  /\ pending \in SUBSET Bufs
  /\ notif \in [Bufs -> SUBSET {"own", "ext"}]
  /\ reload \in [Bufs -> [Reads -> ReloadRecs]]
  /\ budget \in [{"edits", "exts", "faults"} -> Nat]
  /\ exposed \in SUBSET Bufs

LEMMA InvParts ==
  Inv <=> BuffersOK /\ TasksOK /\ RestOK /\ FileExists /\ DirtyWhenUnsaved
  BY DEF Inv, TypeOK, BuffersOK, TasksOK, RestOK, ReloadRecs

LEMMA InvNext ==
  ASSUME BuffersOK', TasksOK', RestOK', FileExists', DirtyWhenUnsaved'
  PROVE  Inv'
  BY DEF Inv, TypeOK, BuffersOK, TasksOK, RestOK, ReloadRecs

-----------------------------------------------------------------------------
(* Lemmas about the operations of the buffer store.                        *)

LEMMA UpdateFacts ==
  ASSUME Inv, NEW b \in Bufs, NEW t \in Text, NEW m \in BOOLEAN,
         UpdateBufferContent(b, t, m), kind' = kind
  PROVE  BuffersOK' /\ DirtyWhenUnsaved'
  <1>0. /\ content \in [Bufs -> Text] /\ saved \in [Bufs -> Text]
        /\ dirty \in [Bufs -> BOOLEAN] /\ DirtyWhenUnsaved
    BY DEF Inv, TypeOK
  <1> USE DEF BuffersOK
  <1>1. CASE content[b] = t
    BY <1>0, <1>1 DEF UpdateBufferContent, bufferVars, DirtyWhenUnsaved
  <1>2. CASE content[b] # t /\ kind[b] = "untitled"
    BY <1>0, <1>2 DEF UpdateBufferContent, DirtyWhenUnsaved
  <1>3. CASE content[b] # t /\ kind[b] # "untitled" /\ m
    <2>1. /\ content' = [content EXCEPT ![b] = t] /\ saved' = saved
          /\ dirty' = [dirty EXCEPT ![b] = (t # saved[b])]
      BY <1>3 DEF UpdateBufferContent
    <2>2. dirty' \in [Bufs -> BOOLEAN]
      BY <1>0, <2>1
    <2>3. DirtyWhenUnsaved'
      BY <1>0, <2>1 DEF DirtyWhenUnsaved
    <2> QED BY <1>0, <2>1, <2>2, <2>3
  <1>4. CASE content[b] # t /\ kind[b] # "untitled" /\ ~m
    BY <1>0, <1>4 DEF UpdateBufferContent, DirtyWhenUnsaved
  <1> QED BY <1>1, <1>2, <1>3, <1>4

LEMMA MarkFacts ==
  ASSUME Inv, NEW b \in Bufs, NEW d \in BOOLEAN,
         MarkBufferDirty(b, d), \A c \in Bufs \ {b} : kind'[c] = kind[c],
         d => kind' = kind
  PROVE  BuffersOK' /\ DirtyWhenUnsaved'
  <1>0. /\ content \in [Bufs -> Text] /\ saved \in [Bufs -> Text]
        /\ dirty \in [Bufs -> BOOLEAN] /\ DirtyWhenUnsaved
    BY DEF Inv, TypeOK
  <1> USE DEF BuffersOK
  <1>1. CASE d
    BY <1>0, <1>1 DEF MarkBufferDirty, DirtyWhenUnsaved
  <1>2. CASE ~d
    BY <1>0, <1>2 DEF MarkBufferDirty, DirtyWhenUnsaved
  <1> QED BY <1>1, <1>2

LEMMA KeepFacts ==
  ASSUME Inv, UNCHANGED bufferVars, kind' = kind
  PROVE  BuffersOK' /\ DirtyWhenUnsaved'
  BY DEF Inv, TypeOK, bufferVars, BuffersOK, DirtyWhenUnsaved

-----------------------------------------------------------------------------
(* Lemmas about the tasks.                                                 *)

LEMMA IdleIsTask == Idle \in TaskRecs
  BY DEF TaskRecs

LEMMA BusyRecord ==
  ASSUME NEW r \in TaskRecs, r # Idle
  PROVE  r \in [pc : TaskPcs, text : Text, from : Kinds \cup {"timer"}]
  BY DEF TaskRecs

LEMMA AdvanceFacts ==
  ASSUME NEW r \in TaskRecs, r # Idle, NEW p \in TaskPcs
  PROVE  [r EXCEPT !.pc = p] \in TaskRecs /\ [r EXCEPT !.pc = p].pc = p
  BY BusyRecord DEF TaskRecs

LEMMA RewriteFacts ==
  ASSUME NEW r \in TaskRecs, r # Idle, NEW p \in TaskPcs, NEW t \in Text
  PROVE  /\ [r EXCEPT !.pc = p, !.text = t] \in TaskRecs
         /\ [r EXCEPT !.pc = p, !.text = t].pc = p
  BY BusyRecord DEF TaskRecs

LEMMA SetTaskFacts ==
  ASSUME TasksOK, NEW b \in Bufs, NEW i \in Slots, NEW r \in TaskRecs,
         SetTask(b, i, r)
  PROVE  TasksOK'
  BY DEF TasksOK, SetTask

LEMMA AtMarkFacts ==
  ASSUME TasksOK, NEW b \in Bufs, NEW i \in Slots, NEW r,
         r = Idle \/ r.pc # "mark", SetTask(b, i, r)
  PROVE  \A c \in Bufs, j \in Slots : AtMark(c, j)' => AtMark(c, j)
  BY DEF TasksOK, SetTask, AtMark

LEMMA FreeSlotFacts ==
  ASSUME NEW b \in Bufs, FreeSlots(b) # {}
  PROVE  FreeSlot(b) \in Slots
  BY DEF FreeSlots, FreeSlot

LEMMA SaveTaskFacts ==
  ASSUME Inv, NEW b \in Bufs
  PROVE  SaveTask(b) \in TaskRecs /\ SaveTask(b).pc # "mark"
  BY DEF Inv, TypeOK, SaveTask, TaskRecs, TaskPcs, Kinds

LEMMA ExposeFacts ==
  ASSUME RestOK, NEW b \in Bufs, NEW c, Expose(b, c)
  PROVE  exposed' \in SUBSET Bufs
  BY DEF RestOK, Expose

LEMMA SpendFacts ==
  ASSUME RestOK, NEW w \in {"edits", "exts", "faults"}, Spend(w)
  PROVE  budget' \in [{"edits", "exts", "faults"} -> Nat]
  BY DEF RestOK, Spend

LEMMA StartReloadFacts ==
  ASSUME RestOK, NEW b \in Bufs, StartReload(b)
  PROVE  /\ reload' \in [Bufs -> [Reads -> ReloadRecs]]
         /\ \A c \in Bufs \ {b} : reload'[c] = reload[c]
         /\ \E r \in Reads : reload'[b][r] = Reading
  <1>1. FreeRead(b) \in Reads
    BY DEF StartReload, FreeReads, FreeRead
  <1> QED BY <1>1 DEF RestOK, ReloadRecs, StartReload

(* One reload of one buffer goes on.                                       *)
LEMMA SetReloadFacts ==
  ASSUME RestOK, NEW b \in Bufs, NEW r \in Reads, NEW rec \in ReloadRecs,
         reload' = [reload EXCEPT ![b][r] = rec]
  PROVE  /\ reload' \in [Bufs -> [Reads -> ReloadRecs]]
         /\ \A c \in Bufs \ {b} : reload'[c] = reload[c]
         /\ \A q \in Reads : reload'[b][q] = IF q = r THEN rec ELSE reload[b][q]
  BY DEF RestOK

LEMMA ReloadRecFacts ==
  /\ NoReload \in ReloadRecs /\ Reading \in ReloadRecs /\ Reading # NoReload
  /\ \A t \in Text : LET rec == [at |-> "read", text |-> t] IN
       rec \in ReloadRecs /\ rec # Reading /\ rec # NoReload
  /\ \A rec \in ReloadRecs : rec.at = "read" => rec.text \in Text
  <1>1. ASSUME NEW t \in Text
        PROVE  /\ [at |-> "read", text |-> t] \in [at : {"read"}, text : Text]
               /\ [at |-> "read", text |-> t].at = "read"
    OBVIOUS
  <1>2. NoReload.at = "none" /\ Reading.at = "reading"
    BY DEF NoReload, Reading
  <1> QED BY <1>1, <1>2 DEF ReloadRecs

LEMMA InitInv == Init => Inv
  BY ConstantsAssumption DEF Init, Inv, TypeOK, FileExists, AtMark, Reloading, DirtyWhenUnsaved, TaskRecs, Idle,
     NoTimer, NoReload, Reading, ReloadRecs, Kinds, Watches

-----------------------------------------------------------------------------
(* Every action preserves the invariant.                                   *)

LEMMA TypeInv ==
  ASSUME Inv, NEW b \in Bufs, NEW t \in Text, Type(b, t)
  PROVE  Inv'
  <1>0. TasksOK /\ RestOK /\ FileExists
    BY InvParts
  <1>1. BuffersOK' /\ DirtyWhenUnsaved'
    <2>1. kind' = kind /\ UpdateBufferContent(b, t, kind[b] # "remote")
      BY DEF Type
    <2>2. (kind[b] # "remote") \in BOOLEAN
      OBVIOUS
    <2> QED BY <2>1, <2>2, UpdateFacts
  <1>2. TasksOK'
    BY <1>0 DEF Type, TasksOK
  <1>3. timer' \in {NoTimer} \cup [at : {"set"}, buf : Bufs, text : Text]
    BY <1>0 DEF Type, RestOK
  <1>4. exposed' \in SUBSET Bufs /\ budget' \in [{"edits", "exts", "faults"} -> Nat]
    BY <1>0, ExposeFacts, SpendFacts DEF Type
  <1>5. RestOK'
    BY <1>0, <1>3, <1>4 DEF Type, RestOK
  <1>8. FileExists'
    BY <1>0 DEF Type, FileExists, AtMark, Reloading
  <1> QED BY <1>1, <1>2, <1>5, <1>8, InvNext

LEMMA AutoSaveFiresInv ==
  ASSUME Inv, AutoSaveFires
  PROVE  Inv'
  <1>0. TasksOK /\ RestOK /\ FileExists
    BY InvParts
  <1>1. timer \in [at : {"set"}, buf : Bufs, text : Text]
    BY <1>0 DEF AutoSaveFires, RestOK
  <1>2. BuffersOK' /\ DirtyWhenUnsaved'
    BY KeepFacts DEF AutoSaveFires
  <1> DEFINE b == timer.buf
             r == [pc |-> "write", text |-> timer.text, from |-> "timer"]
  <1>3. b \in Bufs /\ r \in TaskRecs
    BY <1>1 DEF TaskRecs, TaskPcs
  <1>4. /\ FreeSlots(b) # {}
        /\ MarkPendingSave(b)
        /\ SetTask(b, FreeSlot(b), r)
        /\ Expose(b, timer.text # content[b] \/ Reloading(b))
        /\ timer' = NoTimer
        /\ UNCHANGED <<kind, watch, disk, notif, reload, budget>>
    BY DEF AutoSaveFires
  <1>5. TasksOK'
    BY <1>0, <1>3, <1>4, FreeSlotFacts, SetTaskFacts
  <1>6. exposed' \in SUBSET Bufs
    BY <1>0, <1>3, <1>4, ExposeFacts
  <1>7. RestOK'
    BY <1>0, <1>3, <1>4, <1>6 DEF RestOK, MarkPendingSave
  <1>8. \A c \in Bufs, j \in Slots : AtMark(c, j)' => AtMark(c, j)
    BY <1>0, <1>3, <1>4, FreeSlotFacts, AtMarkFacts
  <1>9. FileExists'
    BY <1>0, <1>4, <1>8 DEF FileExists, Reloading
  <1> QED BY <1>2, <1>5, <1>7, <1>9, InvNext

LEMMA SaveInv ==
  ASSUME Inv, NEW b \in Bufs, Save(b)
  PROVE  Inv'
  <1>0. TasksOK /\ RestOK /\ FileExists
    BY InvParts
  <1>1. BuffersOK' /\ DirtyWhenUnsaved'
    BY KeepFacts DEF Save
  <1>2. TasksOK'
    BY <1>0, SaveTaskFacts, FreeSlotFacts, SetTaskFacts DEF Save
  <1>3. RestOK'
    BY <1>0, ExposeFacts DEF Save, RestOK
  <1>8. \A c \in Bufs, j \in Slots : AtMark(c, j)' => AtMark(c, j)
    BY <1>0, SaveTaskFacts, FreeSlotFacts, AtMarkFacts DEF Save
  <1>9. FileExists'
    BY <1>0, <1>8 DEF Save, FileExists, Reloading
  <1> QED BY <1>1, <1>2, <1>3, <1>9, InvNext

LEMMA SaveAllInv ==
  ASSUME Inv, SaveAll
  PROVE  Inv'
  <1>0. TasksOK /\ RestOK /\ FileExists
    BY InvParts
  <1>1. BuffersOK' /\ DirtyWhenUnsaved'
    BY KeepFacts DEF SaveAll
  <1>2. TasksOK'
    <2>1. ASSUME NEW b \in Bufs
          PROVE  [task[b] EXCEPT ![FreeSlot(b)] = SaveTask(b)] \in [Slots -> TaskRecs]
      BY <1>0, SaveTaskFacts DEF TasksOK
    <2> QED BY <1>0, <2>1 DEF SaveAll, TasksOK
  <1>3. RestOK'
    BY <1>0 DEF SaveAll, RestOK
  <1>8. \A c \in Bufs, j \in Slots : AtMark(c, j)' => AtMark(c, j)
    BY <1>0, SaveTaskFacts DEF SaveAll, AtMark, TasksOK
  <1>9. FileExists'
    BY <1>0, <1>8 DEF SaveAll, FileExists, Reloading
  <1> QED BY <1>1, <1>2, <1>3, <1>9, InvNext

LEMMA SaveBeginsInv ==
  ASSUME Inv, NEW b \in Bufs, NEW i \in Slots, SaveBegins(b, i)
  PROVE  Inv'
  <1>0. TasksOK /\ RestOK /\ FileExists
    BY InvParts
  <1>1. BuffersOK' /\ DirtyWhenUnsaved'
    BY KeepFacts, MarkFacts DEF SaveBegins
  <1>2. TasksOK'
    <2>1. task[b][i] \in TaskRecs
      BY <1>0 DEF TasksOK
    <2>2. \E p \in TaskPcs : SetTask(b, i, [task[b][i] EXCEPT !.pc = p])
      BY DEF SaveBegins, TaskPcs
    <2> QED BY <1>0, <2>1, <2>2, AdvanceFacts, SetTaskFacts DEF SaveBegins
  <1>3. RestOK'
    BY <1>0 DEF SaveBegins, RestOK, MarkPendingSave
  <1>8. \A c \in Bufs, j \in Slots : AtMark(c, j)' => AtMark(c, j)
    <2>1. task[b][i] \in TaskRecs
      BY <1>0 DEF TasksOK
    <2>2. \E p \in TaskPcs \ {"mark"} : SetTask(b, i, [task[b][i] EXCEPT !.pc = p])
      BY DEF SaveBegins, TaskPcs
    <2> QED BY <1>0, <2>1, <2>2, AdvanceFacts, AtMarkFacts DEF SaveBegins
  <1>9. FileExists'
    BY <1>0, <1>8 DEF SaveBegins, FileExists, Reloading
  <1> QED BY <1>1, <1>2, <1>3, <1>9, InvNext

LEMMA FormatAppliedInv ==
  ASSUME Inv, NEW b \in Bufs, NEW i \in Slots, FormatApplied(b, i)
  PROVE  Inv'
  <1>0. TasksOK /\ RestOK /\ FileExists
    BY InvParts
  <1> DEFINE t == Format[task[b][i].text]
  <1>1. task[b][i] \in TaskRecs /\ task[b][i] # Idle
    BY <1>0 DEF TasksOK, FormatApplied
  <1>2. t \in Text
    BY <1>1, BusyRecord, ConstantsAssumption
  <1>3. /\ UpdateBufferContent(b, t, FALSE)
        /\ SetTask(b, i, [task[b][i] EXCEPT !.pc = "write", !.text = t])
        /\ Expose(b, t # content[b] /\ OtherBusy(b, i))
        /\ UNCHANGED <<kind, watch, disk, timer, pending, notif, reload, budget>>
    BY DEF FormatApplied
  <1> HIDE DEF t
  <1>4. BuffersOK' /\ DirtyWhenUnsaved'
    BY <1>2, <1>3, UpdateFacts
  <1>5. TasksOK'
    <2>1. [task[b][i] EXCEPT !.pc = "write", !.text = t] \in TaskRecs
      BY <1>1, <1>2, RewriteFacts DEF TaskPcs
    <2> QED BY <1>0, <1>3, <2>1, SetTaskFacts
  <1>6. RestOK'
    BY <1>0, <1>3, ExposeFacts DEF RestOK
  <1>8. \A c \in Bufs, j \in Slots : AtMark(c, j)' => AtMark(c, j)
    <2>1. [task[b][i] EXCEPT !.pc = "write", !.text = t].pc = "write"
      BY <1>1, <1>2, RewriteFacts DEF TaskPcs
    <2> QED BY <1>0, <1>3, <2>1, AtMarkFacts
  <1>9. FileExists'
    BY <1>0, <1>3, <1>8 DEF FileExists, Reloading
  <1> QED BY <1>4, <1>5, <1>6, <1>9, InvNext

LEMMA FormatSkippedInv ==
  ASSUME Inv, NEW b \in Bufs, NEW i \in Slots, FormatSkipped(b, i)
  PROVE  Inv'
  <1>0. TasksOK /\ RestOK /\ FileExists
    BY InvParts
  <1>1. BuffersOK' /\ DirtyWhenUnsaved'
    BY KeepFacts DEF FormatSkipped
  <1>2. TasksOK'
    <2>1. task[b][i] \in TaskRecs
      BY <1>0 DEF TasksOK
    <2> QED BY <1>0, <2>1, AdvanceFacts, SetTaskFacts DEF FormatSkipped, TaskPcs
  <1>3. RestOK'
    BY <1>0 DEF FormatSkipped, RestOK
  <1>8. \A c \in Bufs, j \in Slots : AtMark(c, j)' => AtMark(c, j)
    <2>1. task[b][i] \in TaskRecs
      BY <1>0 DEF TasksOK
    <2> QED BY <1>0, <2>1, AdvanceFacts, AtMarkFacts DEF FormatSkipped, TaskPcs
  <1>9. FileExists'
    BY <1>0, <1>8 DEF FormatSkipped, FileExists, Reloading
  <1> QED BY <1>1, <1>2, <1>3, <1>9, InvNext

LEMMA DialogAnsweredInv ==
  ASSUME Inv, NEW b \in Bufs, NEW i \in Slots, DialogAnswered(b, i)
  PROVE  Inv'
  <1>0. TasksOK /\ RestOK /\ FileExists
    BY InvParts
  <1>1. BuffersOK' /\ DirtyWhenUnsaved'
    BY KeepFacts DEF DialogAnswered
  <1>2. TasksOK'
    <2>1. task[b][i] \in TaskRecs
      BY <1>0 DEF TasksOK
    <2> QED BY <1>0, <2>1, AdvanceFacts, SetTaskFacts DEF DialogAnswered, TaskPcs
  <1>3. RestOK'
    BY <1>0 DEF DialogAnswered, RestOK
  <1>8. \A c \in Bufs, j \in Slots : AtMark(c, j)' => AtMark(c, j)
    <2>1. task[b][i] \in TaskRecs
      BY <1>0 DEF TasksOK
    <2> QED BY <1>0, <2>1, AdvanceFacts, AtMarkFacts DEF DialogAnswered, TaskPcs
  <1>9. FileExists'
    BY <1>0, <1>8 DEF DialogAnswered, FileExists, Reloading
  <1> QED BY <1>1, <1>2, <1>3, <1>9, InvNext

LEMMA DialogCancelledInv ==
  ASSUME Inv, NEW b \in Bufs, NEW i \in Slots, DialogCancelled(b, i)
  PROVE  Inv'
  <1>0. TasksOK /\ RestOK /\ FileExists
    BY InvParts
  <1>1. BuffersOK' /\ DirtyWhenUnsaved'
    BY KeepFacts DEF DialogCancelled
  <1>2. TasksOK'
    <2>1. task[b][i] \in TaskRecs
      BY <1>0 DEF TasksOK
    <2> QED BY <1>0, <2>1, IdleIsTask, SetTaskFacts DEF DialogCancelled, TaskPcs
  <1>3. RestOK'
    BY <1>0 DEF DialogCancelled, RestOK
  <1>8. \A c \in Bufs, j \in Slots : AtMark(c, j)' => AtMark(c, j)
    BY <1>0, AtMarkFacts DEF DialogCancelled
  <1>9. FileExists'
    BY <1>0, <1>8 DEF DialogCancelled, FileExists, Reloading
  <1> QED BY <1>1, <1>2, <1>3, <1>9, InvNext

LEMMA WriteFileInv ==
  ASSUME Inv, NEW b \in Bufs, NEW i \in Slots, WriteFile(b, i)
  PROVE  Inv'
  <1>0. TasksOK /\ RestOK /\ FileExists
    BY InvParts
  <1>1. BuffersOK' /\ DirtyWhenUnsaved'
    BY KeepFacts DEF WriteFile
  <1>2. task[b][i] \in TaskRecs /\ task[b][i] # Idle
    BY <1>0 DEF TasksOK, WriteFile
  <1>3. TasksOK'
    BY <1>0, <1>2, AdvanceFacts, SetTaskFacts DEF WriteFile, TaskPcs
  <1>4. disk' \in [Bufs -> Text \cup {NoFile}]
    BY <1>0, <1>2, BusyRecord DEF WriteFile, RestOK
  <1>5. RestOK'
    BY <1>0, <1>4 DEF WriteFile, RestOK
  <1>8. \A c \in Bufs \ {b}, j \in Slots : AtMark(c, j)' => AtMark(c, j)
    BY <1>0 DEF WriteFile, SetTask, AtMark, TasksOK
  <1>9. FileExists'
    <2>1. disk'[b] # NoFile
      BY <1>0, <1>2, BusyRecord, ConstantsAssumption DEF WriteFile, RestOK
    <2>2. \A c \in Bufs \ {b} : disk'[c] = disk[c] /\ notif'[c] = notif[c]
      BY <1>0 DEF WriteFile, RestOK
    <2> QED BY <1>0, <1>8, <2>1, <2>2 DEF WriteFile, FileExists, Reloading
  <1> QED BY <1>1, <1>3, <1>5, <1>9, InvNext

LEMMA WriteFailsInv ==
  ASSUME Inv, NEW b \in Bufs, NEW i \in Slots, WriteFails(b, i)
  PROVE  Inv'
  <1>0. TasksOK /\ RestOK /\ FileExists
    BY InvParts
  <1>1. BuffersOK' /\ DirtyWhenUnsaved'
    BY KeepFacts, MarkFacts DEF WriteFails
  <1>2. TasksOK'
    BY <1>0, IdleIsTask, SetTaskFacts DEF WriteFails
  <1>3. RestOK'
    BY <1>0, ExposeFacts, SpendFacts DEF WriteFails, RestOK
  <1>8. \A c \in Bufs, j \in Slots : AtMark(c, j)' => AtMark(c, j)
    BY <1>0, AtMarkFacts DEF WriteFails
  <1>9. FileExists'
    BY <1>0, <1>8 DEF WriteFails, FileExists, Reloading
  <1> QED BY <1>1, <1>2, <1>3, <1>9, InvNext

LEMMA SaveMarksInv ==
  ASSUME Inv, NEW b \in Bufs, NEW i \in Slots, SaveMarks(b, i)
  PROVE  Inv'
  <1>0. TasksOK /\ RestOK /\ FileExists
    BY InvParts
  <1>1. BuffersOK' /\ DirtyWhenUnsaved'
    <2>1. \A c \in Bufs \ {b} : kind'[c] = kind[c]
      BY <1>0 DEF SaveMarks, RestOK
    <2> QED BY <2>1, MarkFacts DEF SaveMarks
  <1>2. TasksOK'
    BY <1>0, IdleIsTask, SetTaskFacts DEF SaveMarks
  <1>3. RestOK'
    BY <1>0 DEF SaveMarks, RestOK, Kinds
  <1>8. \A c \in Bufs, j \in Slots : AtMark(c, j)' => AtMark(c, j)
    BY <1>0, AtMarkFacts DEF SaveMarks
  <1>9. FileExists'
    <2>1. disk[b] # NoFile
      BY <1>0 DEF SaveMarks, FileExists, AtMark, Reloading
    <2> QED BY <1>0, <1>8, <2>1 DEF SaveMarks, FileExists, Reloading, RestOK
  <1> QED BY <1>1, <1>2, <1>3, <1>9, InvNext

LEMMA PendingSaveExpiresInv ==
  ASSUME Inv, NEW b \in Bufs, PendingSaveExpires(b)
  PROVE  Inv'
  <1>0. TasksOK /\ RestOK /\ FileExists
    BY InvParts
  <1>1. BuffersOK' /\ DirtyWhenUnsaved'
    BY KeepFacts DEF PendingSaveExpires
  <1>2. TasksOK'
    BY <1>0 DEF PendingSaveExpires, TasksOK
  <1>3. RestOK'
    BY <1>0, ExposeFacts, SpendFacts DEF PendingSaveExpires, RestOK
  <1>8. FileExists'
    BY <1>0 DEF PendingSaveExpires, FileExists, AtMark, Reloading
  <1> QED BY <1>1, <1>2, <1>3, <1>8, InvNext

LEMMA ChangeUnmetInv ==
  ASSUME Inv, NEW b \in Bufs, ChangeUnmet(b)
  PROVE  Inv'
  <1>0. TasksOK /\ RestOK /\ FileExists
    BY InvParts
  <1>1. BuffersOK' /\ DirtyWhenUnsaved'
    BY KeepFacts DEF ChangeUnmet
  <1>2. TasksOK'
    BY <1>0 DEF ChangeUnmet, TasksOK
  <1>3. RestOK'
    BY <1>0, ExposeFacts DEF ChangeUnmet, RestOK, Watches
  <1>8. FileExists'
    BY <1>0 DEF ChangeUnmet, FileExists, AtMark, Reloading
  <1> QED BY <1>1, <1>2, <1>3, <1>8, InvNext

LEMMA ChangeIgnoredInv ==
  ASSUME Inv, NEW b \in Bufs, ChangeIgnored(b)
  PROVE  Inv'
  <1>0. TasksOK /\ RestOK /\ FileExists
    BY InvParts
  <1>1. BuffersOK' /\ DirtyWhenUnsaved'
    BY KeepFacts DEF ChangeIgnored
  <1>2. TasksOK'
    BY <1>0 DEF ChangeIgnored, TasksOK
  <1>3. RestOK'
    BY <1>0, ExposeFacts, SpendFacts DEF ChangeIgnored, RestOK
  <1>8. FileExists'
    BY <1>0 DEF ChangeIgnored, FileExists, AtMark, Reloading
  <1> QED BY <1>1, <1>2, <1>3, <1>8, InvNext

LEMMA ChangeReloadsInv ==
  ASSUME Inv, NEW b \in Bufs, ChangeReloads(b)
  PROVE  Inv'
  <1>0. TasksOK /\ RestOK /\ FileExists
    BY InvParts
  <1>1. BuffersOK' /\ DirtyWhenUnsaved'
    BY KeepFacts DEF ChangeReloads
  <1>2. TasksOK'
    BY <1>0 DEF ChangeReloads, TasksOK
  <1>3. RestOK'
    <2>1. exposed' \in SUBSET Bufs
      BY <1>0, ExposeFacts DEF ChangeReloads
    <2>2. reload' \in [Bufs -> [Reads -> ReloadRecs]]
      BY <1>0, StartReloadFacts DEF ChangeReloads
    <2>3. notif' \in [Bufs -> SUBSET {"own", "ext"}]
      BY <1>0 DEF ChangeReloads, RestOK
    <2> QED BY <1>0, <2>1, <2>2, <2>3 DEF ChangeReloads, RestOK
  <1>8. FileExists'
    BY <1>0, StartReloadFacts DEF ChangeReloads, Reports, FileExists, AtMark, Reloading, RestOK
  <1> QED BY <1>1, <1>2, <1>3, <1>8, InvNext

LEMMA RevertInv ==
  ASSUME Inv, NEW b \in Bufs, Revert(b)
  PROVE  Inv'
  <1>0. TasksOK /\ RestOK /\ FileExists
    BY InvParts
  <1>1. BuffersOK' /\ DirtyWhenUnsaved'
    BY KeepFacts DEF Revert
  <1>2. TasksOK'
    BY <1>0 DEF Revert, TasksOK
  <1>3. RestOK'
    <2>1. exposed' \in SUBSET Bufs
      BY <1>0, ExposeFacts DEF Revert
    <2> QED BY <1>0, <2>1, StartReloadFacts DEF Revert, RestOK
  <1>8. FileExists'
    BY <1>0, StartReloadFacts DEF Revert, FileExists, AtMark, Reloading
  <1> QED BY <1>1, <1>2, <1>3, <1>8, InvNext

LEMMA ReloadReadsInv ==
  ASSUME Inv, NEW b \in Bufs, NEW r \in Reads, ReloadReads(b, r)
  PROVE  Inv'
  <1>0. TasksOK /\ RestOK /\ FileExists
    BY InvParts
  <1>1. BuffersOK' /\ DirtyWhenUnsaved'
    BY KeepFacts DEF ReloadReads
  <1>2. TasksOK'
    BY <1>0 DEF ReloadReads, TasksOK
  <1>3. Reloading(b)
    BY ReloadRecFacts DEF ReloadReads, Reloading
  <1>4. disk[b] \in Text
    BY <1>0, <1>3 DEF RestOK, FileExists
  <1>5. /\ reload' \in [Bufs -> [Reads -> ReloadRecs]]
        /\ \A c \in Bufs \ {b} : reload'[c] = reload[c]
    BY <1>0, <1>4, ReloadRecFacts, SetReloadFacts DEF ReloadReads
  <1>6. RestOK'
    BY <1>0, <1>5 DEF ReloadReads, RestOK
  <1>8. FileExists'
    BY <1>0, <1>3, <1>5 DEF ReloadReads, FileExists, AtMark, Reloading
  <1> QED BY <1>1, <1>2, <1>6, <1>8, InvNext

LEMMA ReloadFailsInv ==
  ASSUME Inv, NEW b \in Bufs, NEW r \in Reads, ReloadFails(b, r)
  PROVE  Inv'
  <1>0. TasksOK /\ RestOK /\ FileExists
    BY InvParts
  <1>1. BuffersOK' /\ DirtyWhenUnsaved'
    BY KeepFacts DEF ReloadFails
  <1>2. TasksOK'
    BY <1>0 DEF ReloadFails, TasksOK
  <1>3. /\ reload' \in [Bufs -> [Reads -> ReloadRecs]]
        /\ \A c \in Bufs \ {b} : reload'[c] = reload[c]
        /\ \A q \in Reads : reload'[b][q] = IF q = r THEN NoReload ELSE reload[b][q]
    BY <1>0, ReloadRecFacts, SetReloadFacts DEF ReloadFails
  <1>4. exposed' \in SUBSET Bufs /\ budget' \in [{"edits", "exts", "faults"} -> Nat]
    BY <1>0, ExposeFacts, SpendFacts DEF ReloadFails
  <1>5. RestOK'
    BY <1>0, <1>3, <1>4 DEF ReloadFails, RestOK
  <1>8. FileExists'
    BY <1>0, <1>3 DEF ReloadFails, FileExists, AtMark, Reloading
  <1> QED BY <1>1, <1>2, <1>5, <1>8, InvNext

LEMMA ExternalWriteInv ==
  ASSUME Inv, NEW b \in Bufs, NEW t \in Text, ExternalWrite(b, t)
  PROVE  Inv'
  <1>0. TasksOK /\ RestOK /\ FileExists
    BY InvParts
  <1>1. BuffersOK' /\ DirtyWhenUnsaved'
    BY KeepFacts DEF ExternalWrite
  <1>2. TasksOK'
    BY <1>0 DEF ExternalWrite, TasksOK
  <1>3. RestOK'
    BY <1>0, ExposeFacts, SpendFacts DEF ExternalWrite, RestOK
  <1>8. FileExists'
    BY <1>0, ConstantsAssumption DEF ExternalWrite, RestOK, FileExists, AtMark, Reloading
  <1> QED BY <1>1, <1>2, <1>3, <1>8, InvNext

LEMMA ReloadAppliesInv ==
  ASSUME Inv, NEW b \in Bufs, NEW r \in Reads, ReloadApplies(b, r)
  PROVE  Inv'
  <1>0. TasksOK /\ RestOK /\ FileExists
    BY InvParts
  <1>1. reload[b][r].text \in Text
    BY <1>0, ReloadRecFacts DEF ReloadApplies, HasRead, RestOK
  <1>2. BuffersOK' /\ DirtyWhenUnsaved'
    BY <1>1, UpdateFacts DEF ReloadApplies
  <1>3. TasksOK'
    BY <1>0 DEF ReloadApplies, TasksOK
  <1>4. /\ reload' \in [Bufs -> [Reads -> ReloadRecs]]
        /\ \A c \in Bufs \ {b} : reload'[c] = reload[c]
        /\ \A q \in Reads : reload'[b][q] = IF q = r THEN NoReload ELSE reload[b][q]
    BY <1>0, ReloadRecFacts, SetReloadFacts DEF ReloadApplies
  <1>5. exposed' \in SUBSET Bufs
    BY <1>0, ExposeFacts DEF ReloadApplies
  <1>6. RestOK'
    BY <1>0, <1>4, <1>5 DEF ReloadApplies, RestOK
  <1>8. FileExists'
    BY <1>0, <1>4 DEF ReloadApplies, FileExists, AtMark, Reloading
  <1> QED BY <1>2, <1>3, <1>6, <1>8, InvNext

LEMMA NextInv == Inv /\ [Next]_vars => Inv'
  <1> SUFFICES ASSUME Inv, [Next]_vars PROVE Inv'
    OBVIOUS
  <1>1. CASE AutoSaveFires
    BY <1>1, AutoSaveFiresInv
  <1>2. CASE SaveAll
    BY <1>2, SaveAllInv
  <1>3. ASSUME NEW b \in Bufs, Save(b)
        PROVE  Inv'
    BY <1>3, SaveInv
  <1>4. ASSUME NEW b \in Bufs, NEW t \in Text, Type(b, t) \/ ExternalWrite(b, t)
        PROVE  Inv'
    BY <1>4, TypeInv, ExternalWriteInv
  <1>5. ASSUME NEW b \in Bufs, NEW i \in Slots, TaskStep(b, i)
        PROVE  Inv'
    BY <1>5, SaveBeginsInv, FormatAppliedInv, FormatSkippedInv, DialogAnsweredInv,
       DialogCancelledInv, WriteFileInv, WriteFailsInv, SaveMarksInv DEF TaskStep
  <1>6. ASSUME NEW b \in Bufs, WatcherStep(b)
        PROVE  Inv'
    BY <1>6, PendingSaveExpiresInv, ChangeUnmetInv, ChangeIgnoredInv,
       ChangeReloadsInv, RevertInv DEF WatcherStep
  <1>8. ASSUME NEW b \in Bufs, NEW r \in Reads, ReloadStep(b, r)
        PROVE  Inv'
    BY <1>8, ReloadReadsInv, ReloadAppliesInv, ReloadFailsInv DEF ReloadStep
  <1>7. CASE UNCHANGED vars
    <2>1. TasksOK /\ RestOK /\ FileExists
      BY InvParts
    <2>2. BuffersOK' /\ DirtyWhenUnsaved'
      BY <1>7, KeepFacts DEF vars, bufferVars
    <2>3. TasksOK' /\ RestOK'
      BY <1>7, <2>1 DEF vars, TasksOK, RestOK
    <2>4. FileExists'
      BY <1>7, <2>1 DEF vars, FileExists, AtMark, Reloading
    <2> QED BY <2>2, <2>3, <2>4, InvNext
  <1> QED BY <1>1, <1>2, <1>3, <1>4, <1>5, <1>6, <1>7, <1>8 DEF Next

-----------------------------------------------------------------------------
(* The invariant holds of every behaviour.                                 *)
THEOREM InvHolds == Spec => []Inv
  <1> QED BY InitInv, NextInv, PTL DEF Spec

(* Type correctness, for any number of buffers, tasks and faults.          *)
THEOREM TypeCorrect == Spec => []TypeOK
  <1>1. Inv => TypeOK
    BY DEF Inv
  <1> QED BY <1>1, InvHolds, PTL

(* No order of typing, saving, formatting, autosaving, reloading and       *)
(* failing hides from the dirty flag that a buffer differs from what its   *)
(* savedContent says (updateBufferContent, markBufferDirty,                *)
(* updateBufferPath).                                                      *)
THEOREM DirtyWhenUnsavedHolds == Spec => []DirtyWhenUnsaved
  <1>1. Inv => DirtyWhenUnsaved
    BY DEF Inv
  <1> QED BY <1>1, InvHolds, PTL

-----------------------------------------------------------------------------
(* A buffer that is shown as clean holds what its file holds.              *)
(* CleanMeansStored speaks only of buffers with nothing under way, so it   *)
(* is not inductive.  Tracked says what every save, reload and change in   *)
(* flight owes a buffer that met no race, so that the file, the text and   *)
(* savedContent agree once all of them are over.                           *)

(* No save is in flight during a reload.                                   *)
ReloadAlone(b) == Reloading(b) => ~Busy(b)

(* Every save in flight carries the text the buffer holds.                 *)
TasksCurrent(b) ==
  \A i \in Slots : task[b][i] # Idle => task[b][i].text = content[b]

(* A change of the file that the watcher has yet to report.                *)
Told(b) == "ext" \in notif[b]

(* What a save has written is still in the file, or another program has    *)
(* overwritten it and the watcher will say so.                             *)
WrittenStored(b) ==
  \A i \in Slots : AtMark(b, i) => disk[b] = content[b] \/ Told(b)

(* A reload that will bring the file's present text to the buffer: it is   *)
(* yet to read, or has read that text.                                     *)
AwaitedRead(b) ==
  \E r \in Reads : \/ reload[b][r] = Reading
                  \/ (HasRead(b, r) /\ reload[b][r].text = disk[b])

(* What the other reloads in flight have read is not the last word.        *)
ReadCurrent(b) == Reloading(b) => Told(b) \/ AwaitedRead(b)

(* The saved text of a local buffer is that of the file, unless something  *)
(* is under way that will bring them together.                             *)
Writing(b) == \E i \in Slots : task[b][i] # Idle /\ task[b][i].pc \in {"write", "mark"}

SavedAccounted(b) ==
  kind[b] = "local" => saved[b] = disk[b] \/ Told(b) \/ AwaitedRead(b) \/ Writing(b)

Tracked(b) ==
  /\ ReloadAlone(b)
  /\ TasksCurrent(b)
  /\ WrittenStored(b)
  /\ ReadCurrent(b)
  /\ SavedAccounted(b)

CleanInv == \A b \in Bufs \ exposed : Tracked(b)

-----------------------------------------------------------------------------
(* Lemmas about the buffers an action leaves alone.                        *)

Untouched(c) ==
  /\ kind'[c] = kind[c]
  /\ content'[c] = content[c]
  /\ saved'[c] = saved[c]
  /\ disk'[c] = disk[c]
  /\ task'[c] = task[c]
  /\ notif'[c] = notif[c]
  /\ reload'[c] = reload[c]

LEMMA UntouchedTracked ==
  ASSUME NEW c \in Bufs, Untouched(c), Tracked(c)
  PROVE  Tracked(c)'
  BY DEF Untouched, Tracked, ReloadAlone, TasksCurrent, WrittenStored, ReadCurrent,
     SavedAccounted, AwaitedRead, HasRead, Told, Writing, Reloading, Busy, AtMark

(* An action of one buffer owes the invariant for that buffer only.        *)
LEMMA OneBuffer ==
  ASSUME CleanInv, NEW b \in Bufs,
         \A c \in Bufs \ {b} : Untouched(c),
         exposed \subseteq exposed',
         b \notin exposed' => Tracked(b)'
  PROVE  CleanInv'
  BY UntouchedTracked DEF CleanInv

LEMMA ExposeGrows ==
  ASSUME NEW b \in Bufs, NEW c, Expose(b, c)
  PROVE  exposed \subseteq exposed' /\ (b \notin exposed' => ~c)
  BY DEF Expose

(* The slots of a buffer after SetTask.                                    *)
LEMMA SlotFacts ==
  ASSUME TasksOK, NEW b \in Bufs, NEW i \in Slots, NEW r, SetTask(b, i, r)
  PROVE  /\ \A c \in Bufs \ {b} : task'[c] = task[c]
         /\ \A j \in Slots : task'[b][j] = IF j = i THEN r ELSE task[b][j]
  BY DEF TasksOK, SetTask

LEMMA AdvanceKeeps ==
  ASSUME NEW r \in TaskRecs, r # Idle, NEW p \in TaskPcs
  PROVE  /\ [r EXCEPT !.pc = p].pc = p
         /\ [r EXCEPT !.pc = p].text = r.text
         /\ [r EXCEPT !.pc = p] # Idle
  <1>1. r \in [pc : TaskPcs, text : Text, from : Kinds \cup {"timer"}]
    BY BusyRecord
  <1>2. [r EXCEPT !.pc = p].pc = p /\ [r EXCEPT !.pc = p].text = r.text
    BY <1>1
  <1>3. p # "idle"
    BY DEF TaskPcs
  <1> QED BY <1>2, <1>3 DEF Idle

LEMMA RewriteKeeps ==
  ASSUME NEW r \in TaskRecs, r # Idle, NEW p \in TaskPcs, NEW t \in Text
  PROVE  /\ [r EXCEPT !.pc = p, !.text = t].pc = p
         /\ [r EXCEPT !.pc = p, !.text = t].text = t
         /\ [r EXCEPT !.pc = p, !.text = t] # Idle
  <1>1. r \in [pc : TaskPcs, text : Text, from : Kinds \cup {"timer"}]
    BY BusyRecord
  <1>2. /\ [r EXCEPT !.pc = p, !.text = t].pc = p
        /\ [r EXCEPT !.pc = p, !.text = t].text = t
    BY <1>1
  <1>3. p # "idle"
    BY DEF TaskPcs
  <1> QED BY <1>2, <1>3 DEF Idle

LEMMA SaveTaskIs ==
  ASSUME NEW b \in Bufs
  PROVE  /\ SaveTask(b).text = content[b]
         /\ SaveTask(b).pc \notin {"write", "mark"}
         /\ SaveTask(b) # Idle
  BY DEF SaveTask, Idle

LEMMA InitClean == Init => CleanInv
  BY ConstantsAssumption DEF Init, CleanInv, Tracked, ReloadAlone, TasksCurrent, WrittenStored, ReadCurrent,
     SavedAccounted, AwaitedRead, HasRead, Told, Writing, Reloading, Busy, AtMark

-----------------------------------------------------------------------------
(* The actions that change a text.                                         *)

LEMMA TypeClean ==
  ASSUME Inv, CleanInv, NEW b \in Bufs, NEW t \in Text, Type(b, t)
  PROVE  CleanInv'
  <1>0. BuffersOK /\ TasksOK /\ RestOK
    BY InvParts
  <1>1. \A c \in Bufs \ {b} : Untouched(c)
    BY <1>0 DEF Type, UpdateBufferContent, Untouched, BuffersOK, RestOK, bufferVars
  <1>2. exposed \subseteq exposed' /\ (b \notin exposed' => ~Busy(b))
    BY ExposeGrows DEF Type
  <1>3. ASSUME b \notin exposed' PROVE Tracked(b)'
    <2>1. ~Busy(b) /\ Tracked(b)
      BY <1>2, <1>3 DEF CleanInv
    <2>2. /\ kind[b] # "remote" => saved' = saved
          /\ UNCHANGED <<kind, disk, task, notif, reload>>
      BY DEF Type, UpdateBufferContent, bufferVars
    <2> QED BY <2>1, <2>2 DEF Tracked, ReloadAlone, TasksCurrent,
          WrittenStored, ReadCurrent, SavedAccounted, AwaitedRead, HasRead, Told, Writing, Reloading, Busy, AtMark
  <1> QED BY <1>1, <1>2, <1>3, OneBuffer

LEMMA FormatAppliedClean ==
  ASSUME Inv, CleanInv, NEW b \in Bufs, NEW i \in Slots, FormatApplied(b, i)
  PROVE  CleanInv'
  <1>0. BuffersOK /\ TasksOK /\ RestOK
    BY InvParts
  <1>1. task[b][i] \in TaskRecs /\ task[b][i] # Idle
    BY <1>0 DEF TasksOK, FormatApplied
  <1>2. PICK t \in Text : t = Format[task[b][i].text]
    BY <1>1, BusyRecord, ConstantsAssumption
  <1> DEFINE r == [task[b][i] EXCEPT !.pc = "write", !.text = t]
  <1>3. r.pc = "write" /\ r.text = t /\ r # Idle
    BY <1>1, RewriteKeeps DEF TaskPcs
  <1>4. /\ UpdateBufferContent(b, t, FALSE)
        /\ SetTask(b, i, r)
        /\ Expose(b, t # content[b] /\ OtherBusy(b, i))
        /\ UNCHANGED <<kind, watch, disk, timer, pending, notif, reload, budget>>
    BY <1>2 DEF FormatApplied
  <1> HIDE DEF r
  <1>5. /\ \A c \in Bufs \ {b} : task'[c] = task[c]
        /\ \A j \in Slots : task'[b][j] = IF j = i THEN r ELSE task[b][j]
    BY <1>0, <1>4, SlotFacts
  <1>6. \A c \in Bufs \ {b} : Untouched(c)
    BY <1>0, <1>4, <1>5 DEF UpdateBufferContent, Untouched, BuffersOK, RestOK, bufferVars
  <1>7. exposed \subseteq exposed' /\ (b \notin exposed' => t = content[b] \/ ~OtherBusy(b, i))
    BY <1>4, ExposeGrows
  <1>8. ASSUME b \notin exposed' PROVE Tracked(b)'
    <2>1. Tracked(b) /\ Busy(b) /\ ~Reloading(b)
      BY <1>1, <1>7, <1>8 DEF CleanInv, Tracked, ReloadAlone, Busy
    <2>2. content'[b] = t
      BY <1>0, <1>4 DEF UpdateBufferContent, BuffersOK, bufferVars
    <2>3. \A j \in Slots \ {i} : task[b][j] # Idle => task[b][j].text = t
      BY <2>1, <1>7, <1>8 DEF Tracked, TasksCurrent, OtherBusy
    <2>4. \A j \in Slots : AtMark(b, j)' => AtMark(b, j) /\ t = content[b]
      BY <1>3, <1>5, <1>7, <1>8 DEF AtMark, OtherBusy
    <2>5. TasksCurrent(b)'
      BY <1>3, <1>5, <2>2, <2>3 DEF TasksCurrent
    <2>6. WrittenStored(b)'
      BY <1>4, <2>1, <2>2, <2>4 DEF WrittenStored, Tracked, Told
    <2>7. SavedAccounted(b)'
      BY <1>3, <1>5 DEF SavedAccounted, Writing
    <2> QED BY <1>4, <2>1, <2>5, <2>6, <2>7 DEF Tracked, ReloadAlone, ReadCurrent, AwaitedRead, HasRead, Told, Reloading
  <1> QED BY <1>6, <1>7, <1>8, OneBuffer

(* A reload that had read the file's present text leaves no other that     *)
(* had read another; one that had not is awaited by a later one.           *)
LEMMA ReloadAppliesClean ==
  ASSUME Inv, CleanInv, NEW b \in Bufs, NEW r \in Reads, ReloadApplies(b, r)
  PROVE  CleanInv'
  <1>0. BuffersOK /\ TasksOK /\ RestOK
    BY InvParts
  <1> DEFINE t == reload[b][r].text
  <1>1. /\ \A c \in Bufs \ {b} : reload'[c] = reload[c]
        /\ \A q \in Reads : reload'[b][q] = IF q = r THEN NoReload ELSE reload[b][q]
    BY <1>0, ReloadRecFacts, SetReloadFacts DEF ReloadApplies
  <1>2. \A c \in Bufs \ {b} : Untouched(c)
    BY <1>0, <1>1 DEF ReloadApplies, UpdateBufferContent, Untouched, BuffersOK, bufferVars
  <1>3. /\ exposed \subseteq exposed'
        /\ b \notin exposed' => /\ content[b] # t \/ saved[b] = t
                                /\ t = disk[b] => ~OthersRead(b, r, t)
    BY ExposeGrows DEF ReloadApplies
  <1>4. ASSUME b \notin exposed' PROVE Tracked(b)'
    <2>1. HasRead(b, r) /\ UNCHANGED <<kind, disk, task, notif>>
      BY DEF ReloadApplies
    <2>2. reload[b][r] # NoReload /\ reload[b][r] # Reading
      BY <2>1 DEF HasRead, NoReload, Reading
    <2>3. Tracked(b) /\ Reloading(b)
      BY <1>3, <1>4, <2>2 DEF CleanInv, Reloading
    <2>4. ~Busy(b) /\ ~Busy(b)'
      BY <2>1, <2>3 DEF Tracked, ReloadAlone, Busy
    <2>5. kind[b] = "local" => saved'[b] = t
      BY <1>0, <1>3, <1>4 DEF ReloadApplies, UpdateBufferContent, BuffersOK, bufferVars
    <2>6. CASE t = disk[b]
      <3>1. \A q \in Reads \ {r} : HasRead(b, q) => reload[b][q].text = disk[b]
        BY <1>3, <1>4, <2>6 DEF OthersRead
      <3>2. \A q \in Reads : reload[b][q] # NoReload => reload[b][q] = Reading \/ HasRead(b, q)
        BY <1>0 DEF RestOK, ReloadRecs, HasRead
      <3>3. Reloading(b)' => AwaitedRead(b)'
        <4> SUFFICES ASSUME NEW q \in Reads, reload'[b][q] # NoReload
                     PROVE  AwaitedRead(b)'
          BY DEF Reloading
        <4>1. q # r /\ reload'[b][q] = reload[b][q]
          BY <1>1
        <4>2. reload'[b][q] = Reading \/ (HasRead(b, q)' /\ reload'[b][q].text = disk'[b])
          BY <2>1, <3>1, <3>2, <4>1 DEF HasRead
        <4> QED BY <4>2 DEF AwaitedRead
      <3> QED BY <2>1, <2>4, <2>5, <2>6, <3>3 DEF Tracked, ReloadAlone, TasksCurrent,
            WrittenStored, ReadCurrent, SavedAccounted, Busy, AtMark
    <2>7. CASE t # disk[b]
      <3>1. Told(b) \/ AwaitedRead(b)
        BY <2>3 DEF Tracked, ReadCurrent
      <3>2. AwaitedRead(b) => AwaitedRead(b)'
        BY <1>1, <2>1, <2>2, <2>7 DEF AwaitedRead, HasRead
      <3>3. Told(b)' \/ AwaitedRead(b)'
        BY <2>1, <3>1, <3>2 DEF Told
      <3> QED BY <2>1, <2>4, <3>3 DEF Tracked, ReloadAlone, TasksCurrent,
            WrittenStored, ReadCurrent, SavedAccounted, Busy, AtMark
    <2> QED BY <2>6, <2>7
  <1> QED BY <1>2, <1>3, <1>4, OneBuffer

(* Another program's write: the watcher tells, or the buffer is exposed.   *)
LEMMA ExternalWriteClean ==
  ASSUME Inv, CleanInv, NEW b \in Bufs, NEW t \in Text, ExternalWrite(b, t)
  PROVE  CleanInv'
  <1>0. BuffersOK /\ TasksOK /\ RestOK
    BY InvParts
  <1>1. \A c \in Bufs \ {b} : Untouched(c)
    BY <1>0 DEF ExternalWrite, Untouched, BuffersOK, RestOK, bufferVars
  <1>2. exposed \subseteq exposed' /\ (b \notin exposed' => watch[b] # "no")
    BY ExposeGrows DEF ExternalWrite
  <1>3. ASSUME b \notin exposed' PROVE Tracked(b)'
    <2>1. Tracked(b)
      BY <1>2, <1>3 DEF CleanInv
    <2>2. Told(b)' /\ UNCHANGED <<kind, content, saved, task, reload>>
      BY <1>0, <1>2, <1>3 DEF ExternalWrite, Told, RestOK, bufferVars
    <2> QED BY <2>1, <2>2 DEF Tracked, ReloadAlone, TasksCurrent, WrittenStored,
          ReadCurrent, SavedAccounted, AwaitedRead, HasRead, Reloading, Busy
  <1> QED BY <1>1, <1>2, <1>3, OneBuffer

-----------------------------------------------------------------------------
(* The actions that start a save.                                          *)

(* A new save carries the buffer's text and has written nothing yet.       *)
LEMMA StartClean ==
  ASSUME Inv, NEW b \in Bufs, Tracked(b), ~Reloading(b), NEW i \in Slots, NEW r,
         r # Idle, r.text = content[b], r.pc # "mark", task[b][i] = Idle,
         \A j \in Slots : task'[b][j] = IF j = i THEN r ELSE task[b][j],
         UNCHANGED <<kind, content, saved, disk, notif, reload>>
  PROVE  Tracked(b)'
  <1>1. \A j \in Slots : task[b][j] # Idle => task'[b][j] = task[b][j]
    OBVIOUS
  <1>2. \A j \in Slots : AtMark(b, j)' => AtMark(b, j)
    BY DEF AtMark
  <1>3. Writing(b) => Writing(b)'
    BY <1>1 DEF Writing
  <1>4. TasksCurrent(b)'
    BY DEF Tracked, TasksCurrent
  <1>5. WrittenStored(b)'
    BY <1>2 DEF Tracked, WrittenStored, Told
  <1>6. SavedAccounted(b)'
    BY <1>3 DEF Tracked, SavedAccounted, AwaitedRead, HasRead, Told, Reloading
  <1> QED BY <1>4, <1>5, <1>6 DEF Tracked, ReloadAlone, ReadCurrent, AwaitedRead, HasRead, Told, Reloading

LEMMA FreeSlotIdle ==
  ASSUME NEW b \in Bufs, FreeSlots(b) # {}
  PROVE  FreeSlot(b) \in Slots /\ task[b][FreeSlot(b)] = Idle
  BY DEF FreeSlots, FreeSlot

LEMMA SaveClean ==
  ASSUME Inv, CleanInv, NEW b \in Bufs, Save(b)
  PROVE  CleanInv'
  <1>0. BuffersOK /\ TasksOK /\ RestOK
    BY InvParts
  <1>1. FreeSlot(b) \in Slots /\ task[b][FreeSlot(b)] = Idle
    BY FreeSlotIdle DEF Save
  <1>2. /\ \A c \in Bufs \ {b} : task'[c] = task[c]
        /\ \A j \in Slots : task'[b][j] = IF j = FreeSlot(b) THEN SaveTask(b) ELSE task[b][j]
    BY <1>0, <1>1, SlotFacts DEF Save
  <1>3. UNCHANGED <<kind, content, saved, disk, notif, reload>>
    BY DEF Save, bufferVars
  <1>4. \A c \in Bufs \ {b} : Untouched(c)
    BY <1>2, <1>3 DEF Untouched
  <1>5. exposed \subseteq exposed' /\ (b \notin exposed' => ~Reloading(b))
    BY ExposeGrows DEF Save
  <1>6. ASSUME b \notin exposed' PROVE Tracked(b)'
    <2>1. Tracked(b)
      BY <1>5, <1>6 DEF CleanInv
    <2> QED BY <1>1, <1>2, <1>3, <1>5, <1>6, <2>1, SaveTaskIs, StartClean
  <1> QED BY <1>4, <1>5, <1>6, OneBuffer

LEMMA SaveAllClean ==
  ASSUME Inv, CleanInv, SaveAll
  PROVE  CleanInv'
  <1>0. BuffersOK /\ TasksOK /\ RestOK
    BY InvParts
  <1>1. UNCHANGED <<kind, content, saved, disk, notif, reload>>
    BY DEF SaveAll, bufferVars
  <1>2. exposed' = exposed \cup {c \in Bufs : dirty[c] /\ Reloading(c)}
    BY DEF SaveAll
  <1>3. ASSUME NEW b \in Bufs, b \notin exposed' PROVE Tracked(b)'
    <2>1. Tracked(b)
      BY <1>2, <1>3 DEF CleanInv
    <2>2. CASE ~dirty[b]
      <3>1. task'[b] = task[b]
        BY <2>2 DEF SaveAll
      <3> QED BY <1>1, <2>1, <3>1, UntouchedTracked DEF Untouched
    <2>3. CASE dirty[b]
      <3>1. ~Reloading(b)
        BY <1>2, <1>3, <2>3
      <3>2. FreeSlots(b) # {}
        BY <2>3 DEF SaveAll
      <3>3. FreeSlot(b) \in Slots /\ task[b][FreeSlot(b)] = Idle
        BY <3>2, FreeSlotIdle
      <3>4. task'[b] = [task[b] EXCEPT ![FreeSlot(b)] = SaveTask(b)]
        BY <2>3 DEF SaveAll
      <3>5. \A j \in Slots : task'[b][j] = IF j = FreeSlot(b) THEN SaveTask(b) ELSE task[b][j]
        BY <1>0, <3>3, <3>4 DEF TasksOK
      <3> QED BY <1>1, <2>1, <3>1, <3>3, <3>5, SaveTaskIs, StartClean
    <2> QED BY <2>2, <2>3
  <1> QED BY <1>3 DEF CleanInv

LEMMA AutoSaveFiresClean ==
  ASSUME Inv, CleanInv, AutoSaveFires
  PROVE  CleanInv'
  <1>0. BuffersOK /\ TasksOK /\ RestOK
    BY InvParts
  <1>1. PICK b \in Bufs : b = timer.buf
    BY <1>0 DEF AutoSaveFires, RestOK
  <1> DEFINE r == [pc |-> "write", text |-> timer.text, from |-> "timer"]
  <1>2. r # Idle /\ r.text = timer.text /\ r.pc # "mark"
    BY DEF Idle
  <1>3. /\ FreeSlots(b) # {}
        /\ SetTask(b, FreeSlot(b), r)
        /\ Expose(b, timer.text # content[b] \/ Reloading(b))
        /\ UNCHANGED <<kind, content, saved, disk, notif, reload>>
    BY <1>1 DEF AutoSaveFires, bufferVars
  <1> HIDE DEF r
  <1>4. FreeSlot(b) \in Slots /\ task[b][FreeSlot(b)] = Idle
    BY <1>1, <1>3, FreeSlotIdle
  <1>5. /\ \A c \in Bufs \ {b} : task'[c] = task[c]
        /\ \A j \in Slots : task'[b][j] = IF j = FreeSlot(b) THEN r ELSE task[b][j]
    BY <1>0, <1>1, <1>3, <1>4, SlotFacts
  <1>6. \A c \in Bufs \ {b} : Untouched(c)
    BY <1>3, <1>5 DEF Untouched
  <1>7. exposed \subseteq exposed' /\ (b \notin exposed' => timer.text = content[b] /\ ~Reloading(b))
    BY <1>1, <1>3, ExposeGrows
  <1>8. ASSUME b \notin exposed' PROVE Tracked(b)'
    <2>1. Tracked(b)
      BY <1>1, <1>7, <1>8 DEF CleanInv
    <2> QED BY <1>1, <1>2, <1>3, <1>4, <1>5, <1>7, <1>8, <2>1, StartClean
  <1> QED BY <1>1, <1>6, <1>7, <1>8, OneBuffer

-----------------------------------------------------------------------------
(* The actions that carry a save on.                                       *)

(* A save goes to its next await before the write is acknowledged.         *)
LEMMA AdvanceClean ==
  ASSUME Inv, NEW b \in Bufs, Tracked(b), NEW i \in Slots, NEW r,
         r # Idle, r.text = task[b][i].text, r.pc # "mark",
         task[b][i] # Idle, task[b][i].pc \notin {"write", "mark"},
         \A j \in Slots : task'[b][j] = IF j = i THEN r ELSE task[b][j],
         UNCHANGED <<kind, content, saved, disk, notif, reload>>
  PROVE  Tracked(b)'
  <1>1. \A j \in Slots : AtMark(b, j)' => AtMark(b, j)
    BY DEF AtMark
  <1>2. Writing(b) => Writing(b)'
    BY DEF Writing
  <1>3. Busy(b)
    BY DEF Busy
  <1>4. TasksCurrent(b)'
    BY DEF Tracked, TasksCurrent
  <1>5. WrittenStored(b)'
    BY <1>1 DEF Tracked, WrittenStored, Told
  <1>6. SavedAccounted(b)'
    BY <1>2 DEF Tracked, SavedAccounted, AwaitedRead, HasRead, Told, Reloading
  <1> QED BY <1>3, <1>4, <1>5, <1>6 DEF Tracked, ReloadAlone, ReadCurrent, AwaitedRead, HasRead, Told, Reloading

(* A save ends: the others are as they were.                               *)
LEMMA EndFacts ==
  ASSUME TasksOK, NEW b \in Bufs, NEW i \in Slots, SetTask(b, i, Idle)
  PROVE  /\ \A c \in Bufs \ {b} : task'[c] = task[c]
         /\ \A j \in Slots : task'[b][j] # Idle => task'[b][j] = task[b][j]
         /\ \A j \in Slots \ {i} : task'[b][j] = task[b][j]
         /\ \A j \in Slots : AtMark(b, j)' => AtMark(b, j)
  <1>1. /\ \A c \in Bufs \ {b} : task'[c] = task[c]
        /\ \A j \in Slots : task'[b][j] = IF j = i THEN Idle ELSE task[b][j]
    BY SlotFacts
  <1>2. \A j \in Slots : AtMark(b, j)' => AtMark(b, j)
    BY <1>1 DEF AtMark
  <1> QED BY <1>1, <1>2

LEMMA SaveBeginsClean ==
  ASSUME Inv, CleanInv, NEW b \in Bufs, NEW i \in Slots, SaveBegins(b, i)
  PROVE  CleanInv'
  <1>0. BuffersOK /\ TasksOK /\ RestOK
    BY InvParts
  <1> DEFINE p == IF task[b][i].from = "local" /\ FormatOnSave THEN "format" ELSE "write"
             r == [task[b][i] EXCEPT !.pc = p]
  <1>1. task[b][i] \in TaskRecs /\ task[b][i] # Idle /\ task[b][i].pc = "begin"
    BY <1>0 DEF TasksOK, SaveBegins
  <1>2. p \in TaskPcs \ {"mark"}
    BY DEF TaskPcs
  <1>3. /\ SetTask(b, i, r)
        /\ UNCHANGED <<kind, content, saved, disk, notif, reload, exposed>>
    BY DEF SaveBegins, MarkBufferDirty, bufferVars
  <1> HIDE DEF p
  <1>4. r.pc = p /\ r.text = task[b][i].text /\ r # Idle
    BY <1>1, <1>2, AdvanceKeeps
  <1> HIDE DEF r
  <1>5. /\ \A c \in Bufs \ {b} : task'[c] = task[c]
        /\ \A j \in Slots : task'[b][j] = IF j = i THEN r ELSE task[b][j]
    BY <1>0, <1>3, SlotFacts
  <1>6. \A c \in Bufs \ {b} : Untouched(c)
    BY <1>3, <1>5 DEF Untouched
  <1>7. ASSUME b \notin exposed' PROVE Tracked(b)'
    BY <1>1, <1>2, <1>3, <1>4, <1>5, <1>7, AdvanceClean DEF CleanInv
  <1> QED BY <1>3, <1>6, <1>7, OneBuffer

LEMMA FormatSkippedClean ==
  ASSUME Inv, CleanInv, NEW b \in Bufs, NEW i \in Slots, FormatSkipped(b, i)
  PROVE  CleanInv'
  <1>0. BuffersOK /\ TasksOK /\ RestOK
    BY InvParts
  <1> DEFINE p == "write"
             r == [task[b][i] EXCEPT !.pc = p]
  <1>1. task[b][i] \in TaskRecs /\ task[b][i] # Idle /\ task[b][i].pc = "format"
    BY <1>0 DEF TasksOK, FormatSkipped
  <1>2. p \in TaskPcs \ {"mark"}
    BY DEF TaskPcs
  <1>3. /\ SetTask(b, i, r)
        /\ UNCHANGED <<kind, content, saved, disk, notif, reload, exposed>>
    BY DEF FormatSkipped, bufferVars
  <1> HIDE DEF p
  <1>4. r.pc = p /\ r.text = task[b][i].text /\ r # Idle
    BY <1>1, <1>2, AdvanceKeeps
  <1> HIDE DEF r
  <1>5. /\ \A c \in Bufs \ {b} : task'[c] = task[c]
        /\ \A j \in Slots : task'[b][j] = IF j = i THEN r ELSE task[b][j]
    BY <1>0, <1>3, SlotFacts
  <1>6. \A c \in Bufs \ {b} : Untouched(c)
    BY <1>3, <1>5 DEF Untouched
  <1>7. ASSUME b \notin exposed' PROVE Tracked(b)'
    BY <1>1, <1>2, <1>3, <1>4, <1>5, <1>7, AdvanceClean DEF CleanInv
  <1> QED BY <1>3, <1>6, <1>7, OneBuffer

LEMMA DialogAnsweredClean ==
  ASSUME Inv, CleanInv, NEW b \in Bufs, NEW i \in Slots, DialogAnswered(b, i)
  PROVE  CleanInv'
  <1>0. BuffersOK /\ TasksOK /\ RestOK
    BY InvParts
  <1> DEFINE p == "write"
             r == [task[b][i] EXCEPT !.pc = p]
  <1>1. task[b][i] \in TaskRecs /\ task[b][i] # Idle /\ task[b][i].pc = "dialog"
    BY <1>0 DEF TasksOK, DialogAnswered
  <1>2. p \in TaskPcs \ {"mark"}
    BY DEF TaskPcs
  <1>3. /\ SetTask(b, i, r)
        /\ UNCHANGED <<kind, content, saved, disk, notif, reload, exposed>>
    BY DEF DialogAnswered, bufferVars
  <1> HIDE DEF p
  <1>4. r.pc = p /\ r.text = task[b][i].text /\ r # Idle
    BY <1>1, <1>2, AdvanceKeeps
  <1> HIDE DEF r
  <1>5. /\ \A c \in Bufs \ {b} : task'[c] = task[c]
        /\ \A j \in Slots : task'[b][j] = IF j = i THEN r ELSE task[b][j]
    BY <1>0, <1>3, SlotFacts
  <1>6. \A c \in Bufs \ {b} : Untouched(c)
    BY <1>3, <1>5 DEF Untouched
  <1>7. ASSUME b \notin exposed' PROVE Tracked(b)'
    BY <1>1, <1>2, <1>3, <1>4, <1>5, <1>7, AdvanceClean DEF CleanInv
  <1> QED BY <1>3, <1>6, <1>7, OneBuffer

LEMMA DialogCancelledClean ==
  ASSUME Inv, CleanInv, NEW b \in Bufs, NEW i \in Slots, DialogCancelled(b, i)
  PROVE  CleanInv'
  <1>0. BuffersOK /\ TasksOK /\ RestOK
    BY InvParts
  <1>1. /\ SetTask(b, i, Idle) /\ task[b][i].pc = "dialog"
        /\ UNCHANGED <<kind, content, saved, disk, notif, reload, exposed>>
    BY DEF DialogCancelled, bufferVars
  <1>2. \A c \in Bufs \ {b} : Untouched(c)
    BY <1>0, <1>1, EndFacts DEF Untouched
  <1>3. ASSUME b \notin exposed' PROVE Tracked(b)'
    <2>1. Tracked(b)
      BY <1>1, <1>3 DEF CleanInv
    <2>2. Writing(b) => Writing(b)'
      BY <1>0, <1>1, EndFacts DEF Writing
    <2>3. Busy(b)' => Busy(b)
      BY <1>0, <1>1, EndFacts DEF Busy
    <2>4. TasksCurrent(b)' /\ WrittenStored(b)'
      BY <1>0, <1>1, <2>1, EndFacts DEF Tracked, TasksCurrent, WrittenStored, Told
    <2> QED BY <1>1, <2>1, <2>2, <2>3, <2>4 DEF Tracked, ReloadAlone, ReadCurrent,
          SavedAccounted, AwaitedRead, HasRead, Told, Reloading
  <1> QED BY <1>1, <1>2, <1>3, OneBuffer

LEMMA WriteFileClean ==
  ASSUME Inv, CleanInv, NEW b \in Bufs, NEW i \in Slots, WriteFile(b, i)
  PROVE  CleanInv'
  <1>0. BuffersOK /\ TasksOK /\ RestOK
    BY InvParts
  <1> DEFINE r == [task[b][i] EXCEPT !.pc = "mark"]
  <1>1. task[b][i] \in TaskRecs /\ task[b][i] # Idle
    BY <1>0 DEF TasksOK, WriteFile
  <1>2. r.pc = "mark" /\ r.text = task[b][i].text /\ r # Idle
    BY <1>1, AdvanceKeeps DEF TaskPcs
  <1>3. /\ SetTask(b, i, r) /\ disk' = [disk EXCEPT ![b] = task[b][i].text]
        /\ \A c \in Bufs \ {b} : notif'[c] = notif[c]
        /\ UNCHANGED <<kind, content, saved, reload, exposed>>
    BY <1>0 DEF WriteFile, bufferVars, RestOK
  <1> HIDE DEF r
  <1>4. /\ \A c \in Bufs \ {b} : task'[c] = task[c]
        /\ \A j \in Slots : task'[b][j] = IF j = i THEN r ELSE task[b][j]
    BY <1>0, <1>3, SlotFacts
  <1>5. \A c \in Bufs \ {b} : Untouched(c)
    BY <1>0, <1>3, <1>4 DEF Untouched, RestOK
  <1>6. ASSUME b \notin exposed' PROVE Tracked(b)'
    <2>1. Tracked(b) /\ ~Reloading(b)
      BY <1>1, <1>3, <1>6 DEF CleanInv, Tracked, ReloadAlone, Busy
    <2>2. disk'[b] = content'[b]
      BY <1>0, <1>1, <1>3, <2>1 DEF Tracked, TasksCurrent, RestOK
    <2>3. Writing(b)'
      BY <1>2, <1>4 DEF Writing
    <2>4. TasksCurrent(b)'
      BY <1>1, <1>2, <1>3, <1>4, <2>1 DEF Tracked, TasksCurrent
    <2> QED BY <1>3, <2>1, <2>2, <2>3, <2>4 DEF Tracked, ReloadAlone, ReadCurrent,
          SavedAccounted, AwaitedRead, HasRead, WrittenStored, Reloading
  <1> QED BY <1>3, <1>5, <1>6, OneBuffer

LEMMA WriteFailedClean ==
  ASSUME Inv, CleanInv, NEW b \in Bufs, NEW i \in Slots, WriteFails(b, i)
  PROVE  CleanInv'
  <1>0. BuffersOK /\ TasksOK /\ RestOK
    BY InvParts
  <1>1. /\ SetTask(b, i, Idle)
        /\ UNCHANGED <<kind, content, saved, disk, notif, reload>>
    BY DEF WriteFails, MarkBufferDirty, bufferVars
  <1>2. \A c \in Bufs \ {b} : Untouched(c)
    BY <1>0, <1>1, EndFacts DEF Untouched
  <1>3. exposed \subseteq exposed' /\ (b \notin exposed' => saved[b] = disk[b])
    BY ExposeGrows DEF WriteFails
  <1>4. ASSUME b \notin exposed' PROVE Tracked(b)'
    <2>1. Tracked(b)
      BY <1>3, <1>4 DEF CleanInv
    <2>2. Busy(b)' => Busy(b)
      BY <1>0, <1>1, EndFacts DEF Busy
    <2>3. TasksCurrent(b)' /\ WrittenStored(b)'
      BY <1>0, <1>1, <2>1, EndFacts DEF Tracked, TasksCurrent, WrittenStored, Told
    <2> QED BY <1>1, <1>3, <1>4, <2>1, <2>2, <2>3 DEF Tracked, ReloadAlone, ReadCurrent,
          SavedAccounted, AwaitedRead, HasRead, Told, Reloading
  <1> QED BY <1>2, <1>3, <1>4, OneBuffer

(* The text of this moment becomes the saved one; it is what was written.  *)
LEMMA SaveMarksClean ==
  ASSUME Inv, CleanInv, NEW b \in Bufs, NEW i \in Slots, SaveMarks(b, i)
  PROVE  CleanInv'
  <1>0. BuffersOK /\ TasksOK /\ RestOK
    BY InvParts
  <1>1. /\ SetTask(b, i, Idle) /\ AtMark(b, i)
        /\ saved' = [saved EXCEPT ![b] = content[b]]
        /\ \A c \in Bufs \ {b} : kind'[c] = kind[c]
        /\ UNCHANGED <<content, disk, notif, reload, exposed>>
    BY <1>0 DEF SaveMarks, MarkBufferDirty, AtMark, RestOK
  <1>2. \A c \in Bufs \ {b} : Untouched(c)
    BY <1>0, <1>1, EndFacts DEF Untouched, BuffersOK
  <1>3. ASSUME b \notin exposed' PROVE Tracked(b)'
    <2>1. Tracked(b)
      BY <1>1, <1>3 DEF CleanInv
    <2>2. saved'[b] = disk[b] \/ Told(b)
      BY <1>0, <1>1, <2>1 DEF Tracked, WrittenStored, BuffersOK
    <2>3. Busy(b)' => Busy(b)
      BY <1>0, <1>1, EndFacts DEF Busy
    <2>4. TasksCurrent(b)' /\ WrittenStored(b)'
      BY <1>0, <1>1, <2>1, EndFacts DEF Tracked, TasksCurrent, WrittenStored, Told
    <2> QED BY <1>1, <2>1, <2>2, <2>3, <2>4 DEF Tracked, ReloadAlone, ReadCurrent,
          SavedAccounted, AwaitedRead, HasRead, Told, Reloading
  <1> QED BY <1>1, <1>2, <1>3, OneBuffer

-----------------------------------------------------------------------------
(* The watcher and the reloads.                                            *)

LEMMA PendingSaveExpiresClean ==
  ASSUME Inv, CleanInv, NEW b \in Bufs, PendingSaveExpires(b)
  PROVE  CleanInv'
  <1>1. \A c \in Bufs : Untouched(c)
    BY DEF PendingSaveExpires, Untouched, bufferVars
  <1>2. exposed' = exposed
    BY DEF PendingSaveExpires
  <1> QED BY <1>1, <1>2, UntouchedTracked DEF CleanInv

(* An event that leads to no reload exposes the buffer, if there was a     *)
(* change of another program behind it.                                    *)
LEMMA ChangePassedClean ==
  ASSUME Inv, CleanInv, NEW b \in Bufs, ChangeUnmet(b) \/ ChangeIgnored(b)
  PROVE  CleanInv'
  <1>0. BuffersOK /\ TasksOK /\ RestOK
    BY InvParts
  <1>1. /\ notif' = [notif EXCEPT ![b] = {}]
        /\ UNCHANGED <<kind, content, saved, disk, task, reload>>
    BY DEF ChangeUnmet, ChangeIgnored, bufferVars
  <1>2. \A c \in Bufs \ {b} : Untouched(c)
    BY <1>0, <1>1 DEF Untouched, RestOK
  <1>3. exposed \subseteq exposed' /\ (b \notin exposed' => ~Told(b))
    BY ExposeGrows DEF ChangeUnmet, ChangeIgnored, Told
  <1>4. ASSUME b \notin exposed' PROVE Tracked(b)'
    <2>1. Tracked(b)
      BY <1>3, <1>4 DEF CleanInv
    <2> QED BY <1>1, <1>3, <1>4, <2>1 DEF Tracked, ReloadAlone, TasksCurrent,
          WrittenStored, ReadCurrent, SavedAccounted, AwaitedRead, HasRead, Writing, Reloading, Busy, AtMark
  <1> QED BY <1>2, <1>3, <1>4, OneBuffer

(* A reload begins, for an event or for the user: it is yet to read.       *)
LEMMA ReloadBeginsClean ==
  ASSUME Inv, CleanInv, NEW b \in Bufs, ChangeReloads(b) \/ Revert(b)
  PROVE  CleanInv'
  <1>0. BuffersOK /\ TasksOK /\ RestOK
    BY InvParts
  <1>1. /\ StartReload(b)
        /\ notif' \in {notif, [notif EXCEPT ![b] = {}]}
        /\ UNCHANGED <<kind, content, saved, disk, task>>
    BY DEF ChangeReloads, Revert, bufferVars
  <1>2. \A c \in Bufs \ {b} : Untouched(c)
    BY <1>0, <1>1, StartReloadFacts DEF Untouched, RestOK
  <1>3. exposed \subseteq exposed' /\ (b \notin exposed' => ~Busy(b))
    BY ExposeGrows DEF ChangeReloads, Revert
  <1>4. ASSUME b \notin exposed' PROVE Tracked(b)'
    <2>1. AwaitedRead(b)'
      BY <1>0, <1>1, StartReloadFacts DEF AwaitedRead
    <2>2. \A j \in Slots : task'[b][j] = Idle
      BY <1>1, <1>3, <1>4 DEF Busy
    <2> QED BY <2>1, <2>2 DEF Tracked, ReloadAlone, TasksCurrent, WrittenStored,
          ReadCurrent, SavedAccounted, Busy, AtMark
  <1> QED BY <1>2, <1>3, <1>4, OneBuffer

LEMMA ReloadReadsClean ==
  ASSUME Inv, CleanInv, NEW b \in Bufs, NEW r \in Reads, ReloadReads(b, r)
  PROVE  CleanInv'
  <1>0. BuffersOK /\ TasksOK /\ RestOK /\ FileExists
    BY InvParts
  <1> DEFINE rec == [at |-> "read", text |-> disk[b]]
  <1>1. /\ reload' = [reload EXCEPT ![b][r] = rec]
        /\ UNCHANGED <<kind, content, saved, disk, task, notif, exposed>>
    BY DEF ReloadReads, bufferVars
  <1>2. Reloading(b)
    BY ReloadRecFacts DEF ReloadReads, Reloading
  <1>3. /\ \A c \in Bufs \ {b} : reload'[c] = reload[c]
        /\ reload'[b][r] = rec
    BY <1>0, <1>1 DEF RestOK
  <1>4. \A c \in Bufs \ {b} : Untouched(c)
    BY <1>1, <1>3 DEF Untouched
  <1>5. ASSUME b \notin exposed' PROVE Tracked(b)'
    <2>1. Tracked(b) /\ ~Busy(b)
      BY <1>1, <1>2, <1>5 DEF CleanInv, Tracked, ReloadAlone
    <2>2. AwaitedRead(b)'
      BY <1>1, <1>3 DEF AwaitedRead, HasRead
    <2> QED BY <1>1, <2>1, <2>2 DEF Tracked, ReloadAlone, TasksCurrent, WrittenStored,
          ReadCurrent, SavedAccounted, Busy, AtMark, Told
  <1> QED BY <1>1, <1>4, <1>5, OneBuffer

LEMMA ReloadFailsClean ==
  ASSUME Inv, CleanInv, NEW b \in Bufs, NEW r \in Reads, ReloadFails(b, r)
  PROVE  CleanInv'
  <1>0. BuffersOK /\ TasksOK /\ RestOK
    BY InvParts
  <1>1. \A c \in Bufs \ {b} : Untouched(c)
    BY <1>0 DEF ReloadFails, Untouched, RestOK, bufferVars
  <1>2. exposed \subseteq exposed' /\ b \in exposed'
    BY DEF ReloadFails, Expose
  <1> QED BY <1>1, <1>2, OneBuffer

-----------------------------------------------------------------------------
LEMMA NextClean == Inv /\ CleanInv /\ [Next]_vars => CleanInv'
  <1> SUFFICES ASSUME Inv, CleanInv, [Next]_vars PROVE CleanInv'
    OBVIOUS
  <1>1. CASE AutoSaveFires
    BY <1>1, AutoSaveFiresClean
  <1>2. CASE SaveAll
    BY <1>2, SaveAllClean
  <1>3. ASSUME NEW b \in Bufs, Save(b)
        PROVE  CleanInv'
    BY <1>3, SaveClean
  <1>4. ASSUME NEW b \in Bufs, NEW t \in Text, Type(b, t) \/ ExternalWrite(b, t)
        PROVE  CleanInv'
    BY <1>4, TypeClean, ExternalWriteClean
  <1>5. ASSUME NEW b \in Bufs, NEW i \in Slots, TaskStep(b, i)
        PROVE  CleanInv'
    BY <1>5, SaveBeginsClean, FormatAppliedClean, FormatSkippedClean, DialogAnsweredClean,
       DialogCancelledClean, WriteFileClean, WriteFailedClean, SaveMarksClean DEF TaskStep
  <1>6. ASSUME NEW b \in Bufs, WatcherStep(b)
        PROVE  CleanInv'
    BY <1>6, PendingSaveExpiresClean, ChangePassedClean, ReloadBeginsClean DEF WatcherStep
  <1>8. ASSUME NEW b \in Bufs, NEW r \in Reads, ReloadStep(b, r)
        PROVE  CleanInv'
    BY <1>8, ReloadReadsClean, ReloadAppliesClean, ReloadFailsClean DEF ReloadStep
  <1>7. CASE UNCHANGED vars
    <2>1. (\A c \in Bufs : Untouched(c)) /\ exposed' = exposed
      BY <1>7 DEF vars, Untouched
    <2> QED BY <2>1, UntouchedTracked DEF CleanInv
  <1> QED BY <1>1, <1>2, <1>3, <1>4, <1>5, <1>6, <1>7, <1>8 DEF Next

(* What is tracked of an unexposed buffer, in every behaviour.             *)
THEOREM CleanInvHolds == Spec => [](Inv /\ CleanInv)
  <1>1. Init => Inv /\ CleanInv
    BY InitInv, InitClean
  <1>2. Inv /\ CleanInv /\ [Next]_vars => Inv' /\ CleanInv'
    BY NextInv, NextClean
  <1> QED BY <1>1, <1>2, PTL DEF Spec

(* A local buffer that is shown as clean, with nothing under way, holds    *)
(* what its file holds, or met one of the races that "exposed" records: no *)
(* other order of typing, saves, autosaves, formats, watcher events,       *)
(* reloads and failures makes a close prompt miss a difference.            *)
THEOREM CleanMeansStoredHolds == Spec => []CleanMeansStored
  <1>1. ASSUME Inv, CleanInv, NEW b \in Bufs, kind[b] = "local", Settled(b), ~dirty[b],
               b \notin exposed
        PROVE  content[b] = disk[b]
    <2>1. content[b] = saved[b]
      BY <1>1 DEF Inv, DirtyWhenUnsaved
    <2>2. ~Writing(b) /\ ~Told(b) /\ ~AwaitedRead(b)
      BY <1>1, ReloadRecFacts DEF Settled, Busy, Writing, Told, Reloading, AwaitedRead,
         HasRead, NoReload
    <2>3. saved[b] = disk[b]
      BY <1>1, <2>2 DEF CleanInv, Tracked, SavedAccounted
    <2> QED BY <2>1, <2>3
  <1>2. Inv /\ CleanInv => CleanMeansStored
    BY <1>1 DEF CleanMeansStored
  <1> QED BY <1>2, CleanInvHolds, PTL
=============================================================================
