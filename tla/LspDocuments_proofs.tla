------------------------ MODULE LspDocuments_proofs ------------------------
(***************************************************************************)
(* What the servers are told about the files of the editor, for any number *)
(* of files, texts, starts in flight, versions and faults.                 *)
(*                                                                         *)
(* The invariants are proved one upon the other: the shape of the state    *)
(* (TypeOK), that nothing speaks of a file that was closed and not left    *)
(* behind (ClosedIsReleased), the count of a server's files (NoIdleServer),*)
(* what a document that counts as open has (ServerSeesShown), and how its  *)
(* version compares to the count of the component (VersionsRise).          *)
(***************************************************************************)
EXTENDS LspDocuments, FiniteSetTheorems, TLAPS

LEMMA Bounds ==
  /\ MaxShows \in Nat /\ MaxFaults \in Nat
  /\ MaxVersion \in Nat /\ MaxVersion >= 2
  /\ None \notin Files /\ None \notin Texts
  BY ConstantsAssumption

-----------------------------------------------------------------------------
(* The shape of the state: TypeOK, with the sets of values spelled out and *)
(* what the timer presupposes.                                             *)
Pcs == {"start", "spawn", "repair", "started", "opening"}

Starts == [pc : Pcs, file : Files, live : BOOLEAN, text : Texts \cup {None},
           fresh : BOOLEAN, repaired : BOOLEAN]
SlotStates == Starts \cup {Idle}
Servers == [up : BOOLEAN, refs : Nat, files : SUBSET Files]
Documents == [ver : 1..MaxVersion, text : Texts \cup {None}]

TextOfOpen == \A f \in Files : f \in open <=> text[f] # None

TimerShape == timer => shown # None /\ ver[shown] < MaxVersion

EditorShape ==
  /\ open \subseteq Files /\ shown \in open \cup {None}
  /\ text \in [Files -> Texts \cup {None}]
  /\ TextOfOpen
  /\ opened \subseteq Files
  /\ ver \in [Files -> 0..MaxVersion]
  /\ TimerShape
  /\ shows \in 0..MaxShows

LiveIsShown == \A s \in Slots : start[s] # Idle /\ start[s].live => shown # None

StartShape ==
  /\ start \in [Slots -> SlotStates]
  /\ LiveIsShown

GhostShape ==
  /\ faults \in 0..MaxFaults
  /\ missed \subseteq Files /\ leaked \subseteq Files

(* A server that is there counts a file at least; one that is not has none. *)
Counted(sv) == IF sv.up THEN sv.refs >= 1 ELSE sv = Down

ServerShape ==
  /\ tracked \subseteq Files
  /\ srv \in Servers
  /\ Counted(srv)
  /\ doc \in [Files -> Documents \cup {None}]

FlagShape == timer \in BOOLEAN /\ failed \in BOOLEAN /\ doubled \in BOOLEAN

Shape == EditorShape /\ StartShape /\ ServerShape /\ GhostShape /\ FlagShape

LEMMA ShapeImpliesTypeOK == Shape => TypeOK
  <1> SUFFICES ASSUME Shape PROVE TypeOK
    OBVIOUS
  <1>1. \A f \in Files : IF f \in open THEN text[f] \in Texts ELSE text[f] = None
    BY DEF Shape, EditorShape, TextOfOpen
  <1>2. \A s \in Slots : start[s] # Idle =>
       /\ start[s].pc \in {"start", "spawn", "repair", "started", "opening"}
       /\ start[s].file \in Files
       /\ start[s].text \in Texts \cup {None}
       /\ start[s].live \in BOOLEAN
       /\ start[s].live => shown # None
    BY DEF Shape, StartShape, LiveIsShown, SlotStates, Starts, Pcs
  <1>3. \A f \in Files : doc[f] # None =>
       /\ doc[f].ver \in 1..MaxVersion
       /\ doc[f].text \in Texts \cup {None}
    BY DEF Shape, ServerShape, Documents
  <1>4. timer \in BOOLEAN /\ failed \in BOOLEAN /\ doubled \in BOOLEAN
    BY Zenon DEF Shape, FlagShape
  <1>5. srv.up \in BOOLEAN /\ srv.refs \in Nat /\ srv.files \subseteq Files
    BY DEF Shape, ServerShape, Servers
  <1>6. srv.up \/ srv = Down
    BY DEF Shape, ServerShape, Counted
  <1> QED
    BY <1>1, <1>2, <1>3, <1>4, <1>5, <1>6
    DEF TypeOK, Shape, EditorShape, ServerShape, GhostShape

(* A start that is made, frozen or outdated is a start.                    *)
LEMMA StartIsStart == \A f \in Files : Start(f) \in Starts
  BY DEF Start, Starts, Pcs

LEMMA NotIdle == Idle \notin Starts
  BY DEF Idle, Starts, Pcs

LEMMA FrozenShape ==
  ASSUME NEW sts \in [Slots -> SlotStates], text[shown] \in Texts \cup {None}
  PROVE  /\ Frozen(sts) \in [Slots -> SlotStates]
         /\ \A s \in Slots : Frozen(sts)[s] # Idle => ~Frozen(sts)[s].live
         /\ \A s \in Slots : (Frozen(sts)[s] = Idle) <=> (sts[s] = Idle)
         /\ \A s \in Slots : Frozen(sts)[s] # Idle =>
              /\ Frozen(sts)[s].pc = sts[s].pc
              /\ Frozen(sts)[s].file = sts[s].file
  BY NotIdle DEF Frozen, SlotStates, Starts

LEMMA OutdatedShape ==
  ASSUME NEW sts \in [Slots -> SlotStates], NEW g
  PROVE  /\ Outdated(sts, g) \in [Slots -> SlotStates]
         /\ \A s \in Slots : (Outdated(sts, g)[s] = Idle) <=> (sts[s] = Idle)
         /\ \A s \in Slots : Outdated(sts, g)[s] # Idle =>
              /\ Outdated(sts, g)[s].pc = sts[s].pc
              /\ Outdated(sts, g)[s].file = sts[s].file
              /\ Outdated(sts, g)[s].live = sts[s].live
              /\ Outdated(sts, g)[s].text = sts[s].text
  BY NotIdle DEF Outdated, SlotStates, Starts

(* What stop_file makes of a server.                                       *)
LEMMA StoppedShape ==
  ASSUME NEW sv \in Servers, Counted(sv), NEW f \in Files
  PROVE  /\ Stopped(sv, f) \in Servers
         /\ Counted(Stopped(sv, f))
         /\ Stopped(sv, f).files \subseteq sv.files \ {f}
         /\ Stopped(sv, f).up => sv.up /\ Stopped(sv, f).files = sv.files \ {f}
  <1>1. CASE f \notin sv.files
    BY <1>1 DEF Stopped
  <1>2. CASE f \in sv.files /\ sv.refs = 1
    BY <1>2 DEF Stopped, Servers, Down, Counted
  <1>3. CASE f \in sv.files /\ sv.refs # 1
    <2>1. sv.up /\ sv.refs \in Nat /\ sv.refs > 1
      BY <1>3 DEF Counted, Down, Servers
    <2>2. Stopped(sv, f) = [sv EXCEPT !.refs = @ - 1, !.files = @ \ {f}]
      BY <1>3 DEF Stopped
    <2>3. /\ Stopped(sv, f).up = sv.up
          /\ Stopped(sv, f).refs = sv.refs - 1
          /\ Stopped(sv, f).files = sv.files \ {f}
      BY <2>2 DEF Servers
    <2>4. Stopped(sv, f) \in Servers
      <3>1. sv.refs - 1 \in Nat
        BY <2>1
      <3>2. Stopped(sv, f) = [up |-> sv.up, refs |-> sv.refs - 1, files |-> sv.files \ {f}]
        BY <2>2 DEF Servers
      <3> QED
        BY <3>1, <3>2 DEF Servers
    <2>5. Counted(Stopped(sv, f))
      BY <2>1, <2>3 DEF Counted
    <2> QED
      BY <2>1, <2>3, <2>4, <2>5
  <1> QED
    BY <1>1, <1>2, <1>3

LEMMA KeptShape ==
  ASSUME NEW sv, NEW docs \in [Files -> Documents \cup {None}]
  PROVE  Kept(sv, docs) \in [Files -> Documents \cup {None}]
  BY DEF Kept, NoDocuments

(* The pane comes to show g.                                               *)
LEMMA ShowsShape ==
  ASSUME NEW g \in Files, NEW ops \in SUBSET Files, NEW vers \in [Files -> 0..MaxVersion],
         NEW sts \in [Slots -> SlotStates], Shows(g, ops, vers, sts),
         shows \in 0..MaxShows
  PROVE  /\ shown' = g /\ timer' = FALSE /\ opened' = ops
         /\ ver' \in [Files -> 0..MaxVersion]
         /\ start' \in [Slots -> SlotStates]
         /\ shows' \in 0..MaxShows
  <1>1. shown' = g /\ timer' = FALSE /\ opened' = ops
    BY Zenon DEF Shows
  <1>2. shows' \in 0..MaxShows
    BY Bounds DEF Shows
  <1>3. ver' = vers \/ ver' = [vers EXCEPT ![g] = 1]
    BY DEF Shows
  <1>4. ver' \in [Files -> 0..MaxVersion]
    BY <1>3, Bounds
  <1>5. \/ start' = sts
        \/ \E s \in Slots : start' = [sts EXCEPT ![s] = Start(g)]
    BY DEF Shows
  <1>6. start' \in [Slots -> SlotStates]
    BY <1>5, StartIsStart DEF SlotStates
  <1> QED
    BY <1>1, <1>2, <1>4, <1>6

LEMMA UnmountsShape ==
  ASSUME EditorShape, StartShape, shown # None, Unmounts
  PROVE  /\ shown' = None /\ timer' = FALSE /\ opened' = {}
         /\ ver' \in [Files -> 0..MaxVersion]
         /\ shows' \in 0..MaxShows
         /\ StartShape'
  <1>1. shown \in Files /\ text[shown] \in Texts \cup {None}
    BY DEF EditorShape
  <1>2. start' = Frozen(start)
    BY DEF Unmounts
  <1>3. start \in [Slots -> SlotStates]
    BY DEF StartShape
  <1>4. StartShape'
    BY <1>1, <1>2, <1>3, FrozenShape DEF StartShape, LiveIsShown
  <1>5. ver' \in [Files -> 0..MaxVersion]
    BY Bounds DEF Unmounts, NoVersions
  <1>6. shows' \in 0..MaxShows
    BY DEF Unmounts, EditorShape
  <1> QED
    BY <1>4, <1>5, <1>6, Zenon DEF Unmounts

LEMMA InitShape == Init => Shape
  <1> SUFFICES ASSUME Init PROVE Shape
    OBVIOUS
  <1>1. EditorShape
    BY Bounds DEF Init, EditorShape, TextOfOpen, TimerShape, NoVersions
  <1>2. StartShape
    BY DEF Init, StartShape, LiveIsShown, SlotStates
  <1>3. ServerShape
    BY DEF Init, ServerShape, Servers, NoDocuments, Down, Counted
  <1>4. GhostShape
    BY Bounds DEF Init, GhostShape
  <1>5. FlagShape
    BY Zenon DEF Init, FlagShape
  <1> QED
    BY <1>1, <1>2, <1>3, <1>4, <1>5 DEF Shape

-----------------------------------------------------------------------------
(* Each action keeps the shape.                                            *)

LEMMA ShownShape ==
  ASSUME EditorShape, StartShape, NEW g \in Files, NEW ops \in SUBSET Files,
         NEW vers \in [Files -> 0..MaxVersion], NEW sts \in [Slots -> SlotStates],
         Shows(g, ops, vers, sts),
         open' \subseteq Files, g \in open',
         text' \in [Files -> Texts \cup {None}], TextOfOpen'
  PROVE  EditorShape' /\ StartShape'
  <1>1. shows \in 0..MaxShows
    BY DEF EditorShape
  <1>2. /\ shown' = g /\ timer' = FALSE /\ opened' = ops
        /\ ver' \in [Files -> 0..MaxVersion]
        /\ start' \in [Slots -> SlotStates]
        /\ shows' \in 0..MaxShows
    BY <1>1, ShowsShape
  <1>3. g # None
    BY Bounds
  <1>4. TimerShape'
    BY <1>2 DEF TimerShape
  <1>5. LiveIsShown'
    BY <1>2, <1>3 DEF LiveIsShown
  <1> QED
    BY <1>2, <1>4, <1>5 DEF EditorShape, StartShape

LEMMA UnmountedShape ==
  ASSUME EditorShape, StartShape, shown # None, Unmounts,
         open' \subseteq Files, text' \in [Files -> Texts \cup {None}], TextOfOpen'
  PROVE  EditorShape' /\ StartShape'
  <1>1. TimerShape'
    BY UnmountsShape DEF TimerShape
  <1> QED
    BY <1>1, UnmountsShape DEF EditorShape

LEMMA CutOffShape == EditorShape => CutOff \subseteq Files
  BY DEF EditorShape, TimerShape, CutOff

LEMMA SelectShape ==
  ASSUME Shape, NEW g \in Files, Select(g)
  PROVE  Shape'
  <1> USE DEF Shape
  <1>1. g \in open' /\ open' = open /\ text' = text /\ Shows(g, opened, ver, start)
    BY DEF Select
  <1>2. TextOfOpen'
    BY <1>1 DEF EditorShape, TextOfOpen
  <1>3. EditorShape' /\ StartShape'
    BY <1>1, <1>2, ShownShape DEF EditorShape, StartShape
  <1>4. ServerShape'
    BY DEF Select, ServerShape, serverVars
  <1>5. missed' \subseteq Files /\ leaked' \subseteq Files /\ faults' = faults
    BY CutOffShape DEF Select, GhostShape
  <1>6. FlagShape'
    BY Zenon DEF Select, Shows, FlagShape
  <1> QED
    BY <1>3, <1>4, <1>5, <1>6 DEF GhostShape

LEMMA OpenFileShape ==
  ASSUME Shape, NEW g \in Files, NEW t \in Texts, OpenFile(g, t)
  PROVE  Shape'
  <1> USE DEF Shape
  <1>1. /\ open' = open \cup {g} /\ text' = [text EXCEPT ![g] = t]
        /\ Shows(g, opened, ver, Outdated(start, g))
    BY DEF OpenFile
  <1>2. /\ TextOfOpen' /\ g \in open' /\ open' \subseteq Files
        /\ text' \in [Files -> Texts \cup {None}]
    BY <1>1, Bounds DEF EditorShape, TextOfOpen
  <1>3. Outdated(start, g) \in [Slots -> SlotStates]
    BY OutdatedShape DEF StartShape
  <1>4. EditorShape' /\ StartShape'
    BY <1>1, <1>2, <1>3, ShownShape DEF EditorShape
  <1>5. ServerShape'
    BY DEF OpenFile, ServerShape, serverVars
  <1>6. missed' \subseteq Files /\ leaked' \subseteq Files /\ faults' = faults
    BY CutOffShape DEF OpenFile, GhostShape, Reopened
  <1>7. FlagShape'
    BY Zenon DEF OpenFile, Shows, FlagShape
  <1> QED
    BY <1>4, <1>5, <1>6, <1>7 DEF GhostShape

LEMMA HideShape ==
  ASSUME Shape, Hide
  PROVE  Shape'
  <1> USE DEF Shape
  <1>1. open' = open /\ text' = text /\ shown # None /\ Unmounts
    BY DEF Hide
  <1>2. TextOfOpen'
    BY <1>1 DEF EditorShape, TextOfOpen
  <1>3. EditorShape' /\ StartShape'
    BY <1>1, <1>2, UnmountedShape DEF EditorShape
  <1>4. ServerShape'
    BY DEF Hide, ServerShape, serverVars
  <1>5. missed' \subseteq Files /\ leaked' \subseteq Files /\ faults' = faults
    BY CutOffShape DEF Hide, GhostShape
  <1>6. FlagShape'
    BY Zenon DEF Hide, Unmounts, FlagShape
  <1> QED
    BY <1>3, <1>4, <1>5, <1>6 DEF GhostShape

(* Closing a file: what the server and its client are left with.           *)
LEMMA ReleasedShape ==
  ASSUME ServerShape, NEW f \in Files, NEW viaStore, NEW storeFirst,
         Released(f, viaStore, storeFirst)
  PROVE  /\ ServerShape'
         /\ srv' = srv \/ srv' = Stopped(srv, f)
         /\ failed' = failed \/ failed' = FALSE
         /\ leaked' \subseteq leaked \cup {f}
  <1>1. srv' = srv \/ srv' = Stopped(srv, f)
    BY DEF Released
  <1>2. srv' \in Servers /\ Counted(srv')
    BY <1>1, StoppedShape DEF ServerShape
  <1>3. PICK docs \in [Files -> Documents \cup {None}] : doc' = Kept(srv', docs)
    BY DEF Released, ServerShape
  <1>4. doc' \in [Files -> Documents \cup {None}]
    BY <1>3 DEF Kept, NoDocuments
  <1>5. tracked' \subseteq Files
    BY DEF Released, ServerShape
  <1>6. failed' = failed \/ failed' = FALSE
    BY Zenon DEF Released
  <1>7. leaked' \subseteq leaked \cup {f}
    BY DEF Released
  <1> QED
    BY <1>1, <1>2, <1>4, <1>5, <1>6, <1>7 DEF ServerShape

LEMMA RemoveShape ==
  ASSUME Shape, NEW f \in Files, NEW viaStore \in BOOLEAN, NEW storeFirst \in BOOLEAN,
         Remove(f, viaStore, storeFirst)
  PROVE  Shape'
  <1> USE DEF Shape
  <1>1. Released(f, viaStore, storeFirst) /\ f \in open
    BY DEF Remove
  <1>2. ServerShape' /\ leaked' \subseteq Files
    BY <1>1, ReleasedShape DEF GhostShape
  <1>3. missed' \subseteq Files
    BY DEF Remove, GhostShape, LostBy, Reopened
  <1>4. GhostShape'
    BY <1>2, <1>3 DEF Remove, GhostShape
  <1>5. EditorShape' /\ StartShape'
    <2>1. CASE /\ shown # f
               /\ open' = open \ {f}
               /\ text' = [text EXCEPT ![f] = None]
               /\ UNCHANGED <<shown, opened, ver, timer, shows, start>>
      <3>1. TextOfOpen'
        BY <2>1 DEF EditorShape, TextOfOpen
      <3>2. TimerShape' /\ StartShape'
        BY <2>1 DEF EditorShape, StartShape, TimerShape, LiveIsShown
      <3> QED
        BY <2>1, <3>1, <3>2 DEF EditorShape
    <2>2. CASE /\ shown = f /\ Unmounts
               /\ open' = open \ {f}
               /\ text' = [text EXCEPT ![f] = None]
      <3>1. TextOfOpen' /\ text' \in [Files -> Texts \cup {None}] /\ open' \subseteq Files
        BY <2>2 DEF EditorShape, TextOfOpen
      <3> QED
        BY <2>2, <3>1, Bounds, UnmountedShape
    <2>3. CASE \E g \in (open \ {f}) \cup (IF viaStore THEN {} ELSE Files \ {f}) :
          /\ shown = f
          /\ Shows(g, opened \ {f}, [ver EXCEPT ![f] = 0],
                   IF g \in open THEN start ELSE Outdated(start, g))
          /\ open' = (open \ {f}) \cup {g}
          /\ \E t \in IF g \in open THEN {text[g]} ELSE Texts :
               text' = [text EXCEPT ![f] = None, ![g] = t]
      <3>1. PICK g \in Files \ {f} :
              /\ Shows(g, opened \ {f}, [ver EXCEPT ![f] = 0],
                       IF g \in open THEN start ELSE Outdated(start, g))
              /\ open' = (open \ {f}) \cup {g}
              /\ \E t \in Texts : text' = [text EXCEPT ![f] = None, ![g] = t]
        BY <2>3 DEF EditorShape, TextOfOpen
      <3>2. TextOfOpen' /\ text' \in [Files -> Texts \cup {None}] /\ open' \subseteq Files
        BY <3>1, Bounds DEF EditorShape, TextOfOpen
      <3>3. [ver EXCEPT ![f] = 0] \in [Files -> 0..MaxVersion]
        BY Bounds DEF EditorShape
      <3>4. (IF g \in open THEN start ELSE Outdated(start, g)) \in [Slots -> SlotStates]
        BY OutdatedShape DEF StartShape
      <3>5. opened \ {f} \in SUBSET Files /\ g \in open'
        BY <3>1 DEF EditorShape
      <3> QED
        BY <3>1, <3>2, <3>3, <3>4, <3>5, ShownShape
    <2> QED
      BY <2>1, <2>2, <2>3 DEF Remove
  <1>6. FlagShape'
    <2>1. timer' = timer \/ timer' = FALSE
      BY Zenon DEF Remove, Unmounts, Shows
    <2>2. failed' = failed \/ failed' = FALSE
      BY <1>1, ReleasedShape
    <2>3. srv'.up \in BOOLEAN
      BY <1>2 DEF ServerShape, Servers
    <2>4. doubled' = (doubled /\ srv'.up)
      BY Zenon DEF Remove
    <2> QED
      BY <2>1, <2>2, <2>3, <2>4, Zenon DEF FlagShape
  <1> QED
    BY <1>2, <1>4, <1>5, <1>6

LEMMA TypeShape ==
  ASSUME Shape, NEW t \in Texts, Type(t)
  PROVE  Shape'
  <1> USE DEF Shape
  <1>1. /\ shown # None /\ ver[shown] < MaxVersion
        /\ text' = [text EXCEPT ![shown] = t]
        /\ start' = Outdated(start, shown)
        /\ UNCHANGED <<open, shown, shows, opened, ver, tracked, srv, doc, faults, leaked>>
    BY DEF Type, serverVars
  <1>2. TextOfOpen' /\ TimerShape'
    BY <1>1, Bounds DEF EditorShape, TextOfOpen, TimerShape
  <1>3. EditorShape'
    BY <1>1, <1>2 DEF EditorShape
  <1>4. StartShape'
    BY <1>1, OutdatedShape DEF StartShape, LiveIsShown
  <1>5. ServerShape'
    BY <1>1 DEF ServerShape
  <1>6. missed' \subseteq Files
    BY <1>1 DEF Type, GhostShape, EditorShape
  <1>7. FlagShape'
    <2>1. timer' = (shown \in opened) /\ UNCHANGED <<failed, doubled>>
      BY DEF Type
    <2>2. timer' \in BOOLEAN
      BY <2>1
    <2> QED
      BY <2>1, <2>2, Zenon DEF FlagShape
  <1> QED
    BY <1>1, <1>3, <1>4, <1>5, <1>6, <1>7 DEF GhostShape

(* The version the timer sends.                                            *)
NextVersion == (IF ver[shown] = 0 THEN 1 ELSE ver[shown]) + 1

LEMMA NextVersionShape ==
  ASSUME EditorShape, timer
  PROVE  /\ shown \in Files /\ shown \in open
         /\ NextVersion \in 1..MaxVersion
         /\ NextVersion > ver[shown] /\ NextVersion >= 2
  BY Bounds DEF EditorShape, TimerShape, NextVersion

LEMMA TimerFiresShape ==
  ASSUME Shape, TimerFires
  PROVE  Shape'
  <1> USE DEF Shape
  <1>1. /\ timer /\ timer' = FALSE
        /\ ver' = [ver EXCEPT ![shown] = NextVersion]
        /\ \/ doc' = doc
           \/ doc' = [doc EXCEPT ![shown] = [ver |-> NextVersion, text |-> text[shown]]]
        /\ missed' \subseteq missed \cup {shown}
        /\ UNCHANGED <<open, shown, shows, text, opened, start, tracked, failed, srv,
                       faults, leaked, doubled>>
    BY DEF TimerFires, NextVersion
  <1>2. shown \in Files /\ NextVersion \in 1..MaxVersion
    BY <1>1, NextVersionShape
  <1>3. EditorShape'
    BY <1>1, <1>2, Bounds DEF EditorShape, TextOfOpen, TimerShape
  <1>4. StartShape'
    BY <1>1 DEF StartShape, LiveIsShown
  <1>5. ServerShape'
    BY <1>1, <1>2 DEF ServerShape, EditorShape, Documents
  <1>6. FlagShape'
    BY <1>1, Zenon DEF FlagShape
  <1> QED
    BY <1>1, <1>2, <1>3, <1>4, <1>5, <1>6 DEF GhostShape

LEMMA LookupShape ==
  ASSUME Shape, NEW s \in Slots, start[s] # Idle, Lookup(s)
  PROVE  Shape'
  <1> USE DEF Shape
  <1>1. start[s] \in Starts /\ start[s].file \in Files
    BY DEF StartShape, SlotStates, Starts
  <1>2. \/ start' = [start EXCEPT ![s].pc = "started"]
        \/ start' = [start EXCEPT ![s].pc = "spawn"]
    BY DEF Lookup
  <1>3. UNCHANGED <<open, shown, text, opened, ver, timer, shows, tracked, failed, doc,
                    faults, missed, leaked>>
    BY DEF Lookup, editorVars
  <1>4. StartShape'
    BY <1>1, <1>2, <1>3, NotIdle DEF StartShape, LiveIsShown, SlotStates, Starts, Pcs
  <1>5. srv' \in Servers /\ Counted(srv')
    <2>1. CASE srv.up
      <3>1. srv' = [srv EXCEPT !.refs = @ + 1, !.files = @ \cup {start[s].file}]
        BY <2>1 DEF Lookup
      <3>2. srv.refs \in Nat /\ srv.refs + 1 \in Nat /\ srv.refs + 1 >= 1
        BY DEF ServerShape, Servers
      <3>3. srv' = [up |-> TRUE, refs |-> srv.refs + 1, files |-> srv.files \cup {start[s].file}]
        BY <2>1, <3>1 DEF ServerShape, Servers
      <3> QED
        BY <1>1, <3>2, <3>3 DEF ServerShape, Servers, Counted
    <2>2. CASE ~srv.up
      BY <2>2 DEF Lookup, ServerShape
    <2> QED
      BY <2>1, <2>2
  <1>6. EditorShape' /\ ServerShape' /\ GhostShape'
    BY <1>3, <1>5 DEF EditorShape, ServerShape, GhostShape, TextOfOpen, TimerShape
  <1>7. doubled' = doubled \/ doubled' = (doubled \/ start[s].file \in srv.files)
    BY DEF Lookup
  <1>8. doubled' \in BOOLEAN
    BY <1>7 DEF FlagShape
  <1>9. FlagShape'
    BY <1>3, <1>8, Zenon DEF FlagShape
  <1> QED
    BY <1>4, <1>6, <1>9

LEMMA SpawnedShape ==
  ASSUME Shape, NEW s \in Slots, start[s] # Idle, Spawned(s)
  PROVE  Shape'
  <1> USE DEF Shape
  <1>1. start[s] \in Starts /\ start[s].file \in Files
    BY DEF StartShape, SlotStates, Starts
  <1>2. UNCHANGED <<open, shown, text, opened, ver, timer, shows, tracked, failed,
                    faults, leaked>>
    BY DEF Spawned, editorVars
  <1>3. StartShape'
    BY <1>1, <1>2, NotIdle DEF Spawned, StartShape, LiveIsShown, SlotStates, Starts, Pcs
  <1>4. EditorShape'
    BY <1>2 DEF EditorShape, TextOfOpen, TimerShape
  <1>5. srv' \in Servers /\ Counted(srv')
    BY <1>1 DEF Spawned, Servers, Counted
  <1>6. ServerShape'
    BY <1>2, <1>5 DEF Spawned, ServerShape, NoDocuments
  <1>7. GhostShape'
    BY <1>2 DEF Spawned, GhostShape
  <1>8. FlagShape'
    BY <1>2, Zenon DEF Spawned, FlagShape
  <1> QED
    BY <1>3, <1>4, <1>6, <1>7, <1>8

LEMMA SpawnFailsShape ==
  ASSUME Shape, NEW s \in Slots, start[s] # Idle, SpawnFails(s)
  PROVE  Shape'
  <1> USE DEF Shape
  <1>1. start[s] \in Starts
    BY DEF StartShape, SlotStates
  <1>2. UNCHANGED <<open, shown, text, opened, ver, timer, shows, tracked, srv, doc,
                    missed, leaked, doubled>>
    BY DEF SpawnFails, editorVars, serverVars
  <1>3. StartShape'
    BY <1>1, <1>2, NotIdle DEF SpawnFails, StartShape, LiveIsShown, SlotStates, Starts, Pcs
  <1>4. EditorShape' /\ ServerShape'
    BY <1>2 DEF EditorShape, TextOfOpen, TimerShape, ServerShape
  <1>5. GhostShape'
    BY <1>2, Bounds DEF SpawnFails, GhostShape
  <1>6. FlagShape'
    BY <1>2, Zenon DEF SpawnFails, FlagShape
  <1> QED
    BY <1>3, <1>4, <1>5, <1>6

LEMMA RepairShape ==
  ASSUME Shape, NEW s \in Slots, start[s] # Idle, Repair(s)
  PROVE  Shape'
  <1> USE DEF Shape
  <1>1. start[s] \in Starts
    BY DEF StartShape, SlotStates
  <1>2. UNCHANGED <<open, shown, text, opened, ver, timer, shows, tracked, srv, doc,
                    faults, missed, leaked, doubled>>
    BY DEF Repair, editorVars, serverVars
  <1>3. StartShape'
    BY <1>1, <1>2, NotIdle DEF Repair, StartShape, LiveIsShown, SlotStates, Starts, Pcs
  <1>4. EditorShape' /\ ServerShape' /\ GhostShape'
    BY <1>2 DEF EditorShape, TextOfOpen, TimerShape, ServerShape, GhostShape
  <1>5. FlagShape'
    BY <1>2, Zenon DEF Repair, FlagShape
  <1> QED
    BY <1>3, <1>4, <1>5

LEMMA OpenSentShape ==
  ASSUME Shape, NEW s \in Slots, start[s] # Idle, OpenSent(s)
  PROVE  Shape'
  <1> USE DEF Shape
  <1>1. start[s] \in Starts /\ start[s].file \in Files
    BY DEF StartShape, SlotStates, Starts
  <1>2. UNCHANGED <<open, shown, text, opened, ver, timer, shows, srv, faults, leaked,
                    doubled>>
    BY DEF OpenSent, editorVars
  <1>3. StartShape'
    BY <1>1, <1>2, NotIdle DEF OpenSent, StartShape, LiveIsShown, SlotStates, Starts, Pcs
  <1>4. EditorShape'
    BY <1>2 DEF EditorShape, TextOfOpen, TimerShape
  <1> DEFINE sent == IF start[s].live THEN text[shown] ELSE start[s].text
  <1>5. sent \in Texts \cup {None}
    BY <1>1 DEF EditorShape, StartShape, LiveIsShown, Starts
  <1>6. [ver |-> 1, text |-> sent] \in Documents
    BY <1>5, Bounds DEF Documents
  <1>7. doc' = doc \/ doc' = [doc EXCEPT ![start[s].file] = [ver |-> 1, text |-> sent]]
    BY DEF OpenSent
  <1>8. ServerShape'
    BY <1>1, <1>2, <1>6, <1>7 DEF OpenSent, ServerShape
  <1>9. GhostShape'
    BY <1>1, <1>2 DEF OpenSent, GhostShape
  <1>10. FlagShape'
    BY <1>2, Zenon DEF OpenSent, FlagShape
  <1> QED
    BY <1>3, <1>4, <1>8, <1>9, <1>10

LEMMA OpenReturnsShape ==
  ASSUME Shape, NEW s \in Slots, start[s] # Idle, OpenReturns(s)
  PROVE  Shape'
  <1> USE DEF Shape
  <1>1. start[s] \in Starts /\ start[s].file \in Files
    BY DEF StartShape, SlotStates, Starts
  <1>2. UNCHANGED <<open, shown, text, ver, timer, shows, tracked, failed, srv, doc,
                    faults, missed, leaked, doubled>>
    BY DEF OpenReturns, serverVars
  <1>3. StartShape'
    BY <1>1, <1>2 DEF OpenReturns, StartShape, LiveIsShown, SlotStates
  <1>4. EditorShape'
    BY <1>1, <1>2 DEF OpenReturns, EditorShape, TextOfOpen, TimerShape
  <1>5. ServerShape' /\ GhostShape'
    BY <1>2 DEF ServerShape, GhostShape
  <1>6. FlagShape'
    BY <1>2, Zenon DEF FlagShape
  <1> QED
    BY <1>3, <1>4, <1>5, <1>6

LEMMA RestartShape ==
  ASSUME Shape, NEW f \in Files, NEW s \in Slots, Restart(f, s)
  PROVE  Shape'
  <1> USE DEF Shape
  <1>1. UNCHANGED <<open, shown, text, opened, ver, timer, shows, leaked>>
    BY DEF Restart, editorVars
  <1>2. Restarted(f, text[f]) \in Starts /\ ~Restarted(f, text[f]).live
    BY StartIsStart DEF Restarted, Start, Starts, Pcs, EditorShape
  <1>3. StartShape'
    BY <1>1, <1>2, NotIdle DEF Restart, StartShape, LiveIsShown, SlotStates
  <1>4. EditorShape'
    BY <1>1 DEF EditorShape, TextOfOpen, TimerShape
  <1>5. srv' \in Servers /\ Counted(srv')
    BY StoppedShape DEF Restart, ServerShape
  <1>6. PICK docs \in [Files -> Documents \cup {None}] : doc' = Kept(srv', docs)
    BY DEF Restart, ServerShape
  <1>7. ServerShape'
    BY <1>5, <1>6 DEF Restart, ServerShape, Kept, NoDocuments
  <1>8. GhostShape'
    BY <1>1, Bounds DEF Restart, GhostShape, LostBy
  <1>9. FlagShape'
    <2>1. srv'.up \in BOOLEAN
      BY <1>5 DEF Servers
    <2>2. doubled' = (doubled /\ srv'.up) /\ failed' = FALSE
      BY Zenon DEF Restart
    <2> QED
      BY <1>1, <2>1, <2>2, Zenon DEF FlagShape
  <1> QED
    BY <1>3, <1>4, <1>7, <1>8, <1>9

LEMMA ServerExitsShape ==
  ASSUME Shape, ServerExits
  PROVE  Shape'
  <1> USE DEF Shape
  <1>1. UNCHANGED <<open, shown, text, opened, ver, timer, shows, start, tracked, failed,
                    leaked>>
    BY DEF ServerExits, editorVars
  <1>2. EditorShape' /\ StartShape'
    BY <1>1 DEF EditorShape, TextOfOpen, TimerShape, StartShape, LiveIsShown
  <1>3. srv' \in Servers /\ Counted(srv')
    BY DEF ServerExits, Servers, Counted, Down
  <1>4. ServerShape'
    BY <1>1, <1>3 DEF ServerExits, ServerShape, NoDocuments
  <1>5. GhostShape'
    BY <1>1, Bounds DEF ServerExits, GhostShape
  <1>6. FlagShape'
    BY <1>1, Zenon DEF ServerExits, FlagShape
  <1> QED
    BY <1>2, <1>4, <1>5, <1>6

LEMMA StutterShape == Shape /\ UNCHANGED vars => Shape'
  BY DEF vars, editorVars, serverVars, Shape, EditorShape, TextOfOpen, TimerShape,
         StartShape, LiveIsShown, ServerShape, GhostShape, FlagShape

LEMMA NextShape == Shape /\ [Next]_vars => Shape'
  <1> SUFFICES ASSUME Shape, [Next]_vars PROVE Shape'
    OBVIOUS
  <1>1. CASE EditorStep
    BY <1>1, SelectShape, OpenFileShape, HideShape, RemoveShape, TypeShape, TimerFiresShape
    DEF EditorStep
  <1>2. ASSUME NEW s \in Slots, start[s] # Idle, StartStep(s) PROVE Shape'
    BY <1>2, LookupShape, SpawnedShape, SpawnFailsShape, RepairShape, OpenSentShape,
       OpenReturnsShape DEF StartStep
  <1>3. ASSUME NEW f \in Files, NEW s \in Slots, Restart(f, s) PROVE Shape'
    BY <1>3, RestartShape
  <1>4. CASE ServerExits
    BY <1>4, ServerExitsShape
  <1>5. CASE UNCHANGED vars
    BY <1>5, StutterShape
  <1> QED
    BY <1>1, <1>2, <1>3, <1>4, <1>5 DEF Next

(* The state has its shape whatever the editor, the starts and the faults  *)
(* do: the types and what TypeOK needs to be inductive.                    *)
THEOREM ShapeHolds == Spec => []Shape
  <1> QED
    BY InitShape, NextShape, PTL DEF Spec

(* Every variable has its type, whatever the bounds.                       *)
THEOREM TypeOKHolds == Spec => []TypeOK
  <1> QED
    BY ShapeHolds, ShapeImpliesTypeOK, PTL

-----------------------------------------------------------------------------
(* A file that is neither open nor left behind is forgotten everywhere:    *)
(* by the client, the starts, the table and the server.                    *)
Forgotten(f) ==
  /\ f \notin tracked
  /\ ~InFlight(f)
  /\ f \notin srv.files
  /\ doc[f] = None

Gone == Files \ (open \cup leaked)

ClosedInv == \A f \in Gone : Forgotten(f)

(* What an action must do to keep this: bring up no file of those.         *)
BringsUp(f) ==
  \/ f \in tracked' \ tracked
  \/ InFlight(f)' /\ ~InFlight(f)
  \/ f \in srv'.files \ srv.files
  \/ doc'[f] # None /\ doc'[f] # doc[f]

LEMMA ClosedStep ==
  ASSUME ClosedInv, Gone' \subseteq Gone, \A f \in Gone' : ~BringsUp(f)
  PROVE  ClosedInv'
  BY DEF ClosedInv, Forgotten, BringsUp

(* The starts in flight after the pane comes to show g.                    *)
LEMMA ShowsFlight ==
  ASSUME NEW g \in Files, NEW ops, NEW vers, NEW sts \in [Slots -> SlotStates],
         Shows(g, ops, vers, sts), NEW f, f # g,
         NEW s \in Slots, start'[s] # Idle, start'[s].file = f
  PROVE  start'[s] = sts[s]
  BY DEF Shows, Start

LEMMA OutdatedFlight ==
  ASSUME StartShape, NEW g, NEW f, NEW s \in Slots,
         Outdated(start, g)[s] # Idle, Outdated(start, g)[s].file = f
  PROVE  InFlight(f)
  BY OutdatedShape DEF StartShape, InFlight

LEMMA FrozenFlight ==
  ASSUME StartShape, text[shown] \in Texts \cup {None}, NEW f, NEW s \in Slots,
         Frozen(start)[s] # Idle, Frozen(start)[s].file = f
  PROVE  InFlight(f)
  BY FrozenShape DEF StartShape, InFlight

LEMMA SelectClosed ==
  ASSUME Shape, ClosedInv, NEW g \in Files, Select(g)
  PROVE  ClosedInv'
  <1>1. UNCHANGED <<open, leaked, tracked, srv, doc>> /\ g \in open
    BY DEF Select, serverVars
  <1>2. ASSUME NEW f \in Gone', InFlight(f)' PROVE InFlight(f)
    <2>1. f # g
      BY <1>1 DEF Gone
    <2>2. Shows(g, opened, ver, start) /\ start \in [Slots -> SlotStates]
      BY DEF Select, Shape, StartShape
    <2> QED
      BY <1>2, <2>1, <2>2, ShowsFlight DEF InFlight
  <1> QED
    BY <1>1, <1>2, ClosedStep DEF BringsUp, Gone

LEMMA OpenFileClosed ==
  ASSUME Shape, ClosedInv, NEW g \in Files, NEW t \in Texts, OpenFile(g, t)
  PROVE  ClosedInv'
  <1>1. UNCHANGED <<leaked, tracked, srv, doc>> /\ open' = open \cup {g}
    BY DEF OpenFile, serverVars
  <1>2. ASSUME NEW f \in Gone', InFlight(f)' PROVE InFlight(f)
    <2>1. f # g
      BY <1>1 DEF Gone
    <2>2. Shows(g, opened, ver, Outdated(start, g))
      BY DEF OpenFile
    <2>3. StartShape /\ Outdated(start, g) \in [Slots -> SlotStates]
      BY OutdatedShape DEF Shape, StartShape
    <2>4. PICK s \in Slots : start'[s] # Idle /\ start'[s].file = f
      BY <1>2 DEF InFlight
    <2>5. start'[s] = Outdated(start, g)[s]
      BY <2>1, <2>2, <2>3, <2>4, ShowsFlight
    <2> QED
      BY <2>3, <2>4, <2>5, OutdatedFlight
  <1> QED
    BY <1>1, <1>2, ClosedStep DEF BringsUp, Gone

LEMMA UnmountsFlight ==
  ASSUME Shape, shown # None, Unmounts, NEW f, InFlight(f)'
  PROVE  InFlight(f)
  <1>1. text[shown] \in Texts \cup {None} /\ StartShape
    BY DEF Shape, EditorShape
  <1>2. PICK s \in Slots : start'[s] # Idle /\ start'[s].file = f
    BY DEF InFlight
  <1>3. start'[s] = Frozen(start)[s]
    BY DEF Unmounts
  <1> QED
    BY <1>1, <1>2, <1>3, FrozenFlight

LEMMA HideClosed ==
  ASSUME Shape, ClosedInv, Hide
  PROVE  ClosedInv'
  <1>1. UNCHANGED <<open, leaked, tracked, srv, doc>> /\ shown # None /\ Unmounts
    BY DEF Hide, serverVars
  <1>2. \A f \in Gone' : InFlight(f)' => InFlight(f)
    BY <1>1, UnmountsFlight
  <1> QED
    BY <1>1, <1>2, ClosedStep DEF BringsUp, Gone

(* Closing f leaves nothing of f, or leaves it behind.                     *)
LEMMA ReleasedForgets ==
  ASSUME ServerShape, NEW f \in Files, NEW viaStore \in BOOLEAN, NEW storeFirst \in BOOLEAN,
         Released(f, viaStore, storeFirst)
  PROVE  /\ tracked' \subseteq tracked
         /\ srv'.files \subseteq srv.files
         /\ \A c \in Files : doc'[c] = None \/ doc'[c] = doc[c]
         /\ leaked \ {f} \subseteq leaked'
         /\ f \notin leaked' =>
              /\ f \notin tracked' /\ f \notin srv'.files /\ doc'[f] = None
              /\ ~InFlight(f)
  <1>1. tracked' \subseteq tracked /\ leaked \ {f} \subseteq leaked'
    BY DEF Released
  <1>2. srv = srv' \/ srv' = Stopped(srv, f)
    BY DEF Released
  <1>3. srv'.files \subseteq srv.files
    BY <1>2, StoppedShape DEF ServerShape
  <1>4. \A c \in Files : doc'[c] = None \/ doc'[c] = doc[c]
    BY DEF Released, Kept, NoDocuments, ServerShape
  <1>5. ASSUME f \notin leaked'
        PROVE  /\ f \notin tracked' /\ f \notin srv'.files /\ doc'[f] = None
               /\ ~InFlight(f)
    <2>1. /\ ~InFlight(f) /\ shown = f /\ f \in opened
          /\ Served(IF storeFirst THEN Stopped(srv, f) ELSE srv)
      BY <1>5 DEF Released
    <2>2. f \notin tracked'
      BY <2>1 DEF Released
    <2>3. srv' = Stopped(srv, f)
      BY <2>1 DEF Released
    <2>4. f \notin srv'.files
      BY <2>3, StoppedShape DEF ServerShape
    <2>5. doc'[f] = None
      BY <2>1 DEF Released, Kept, NoDocuments, ServerShape
    <2> QED
      BY <2>1, <2>2, <2>4, <2>5
  <1> QED
    BY <1>1, <1>3, <1>4, <1>5

LEMMA RemoveFlight ==
  ASSUME Shape, NEW f \in Files, NEW viaStore \in BOOLEAN, NEW storeFirst \in BOOLEAN,
         Remove(f, viaStore, storeFirst), NEW c, c = f \/ c \notin open', InFlight(c)'
  PROVE  InFlight(c)
  <1> USE DEF Shape
  <1>1. CASE start' = start
    BY <1>1 DEF InFlight
  <1>2. CASE shown = f /\ Unmounts
    BY <1>2, Bounds, UnmountsFlight
  <1>3. CASE \E g \in (open \ {f}) \cup (IF viaStore THEN {} ELSE Files \ {f}) :
          /\ Shows(g, opened \ {f}, [ver EXCEPT ![f] = 0],
                   IF g \in open THEN start ELSE Outdated(start, g))
          /\ open' = (open \ {f}) \cup {g}
    <2>1. PICK g \in Files \ {f} :
            /\ Shows(g, opened \ {f}, [ver EXCEPT ![f] = 0],
                     IF g \in open THEN start ELSE Outdated(start, g))
            /\ open' = (open \ {f}) \cup {g}
      BY <1>3 DEF EditorShape
    <2>2. c # g
      BY <2>1
    <2> DEFINE sts == IF g \in open THEN start ELSE Outdated(start, g)
    <2>3. sts \in [Slots -> SlotStates]
      BY OutdatedShape DEF StartShape
    <2>4. PICK s \in Slots : start'[s] # Idle /\ start'[s].file = c
      BY DEF InFlight
    <2>5. start'[s] = sts[s]
      BY <2>1, <2>2, <2>3, <2>4, ShowsFlight
    <2> QED
      BY <2>4, <2>5, OutdatedFlight DEF InFlight
  <1> QED
    BY <1>1, <1>2, <1>3 DEF Remove

LEMMA RemoveClosed ==
  ASSUME Shape, ClosedInv, NEW f \in Files, NEW viaStore \in BOOLEAN,
         NEW storeFirst \in BOOLEAN, Remove(f, viaStore, storeFirst)
  PROVE  ClosedInv'
  <1>1. Released(f, viaStore, storeFirst) /\ open \ {f} \subseteq open' /\ ServerShape
    BY DEF Remove, Shape
  <1> SUFFICES ASSUME NEW c \in Gone' PROVE Forgotten(c)'
    BY DEF ClosedInv
  <1>2. c \in Files /\ c \notin open' /\ c \notin leaked'
    BY DEF Gone
  <1>3. CASE c = f
    <2>1. f \notin tracked' /\ f \notin srv'.files /\ doc'[f] = None /\ ~InFlight(f)
      BY <1>1, <1>2, <1>3, ReleasedForgets
    <2>2. ~InFlight(f)'
      BY <2>1, RemoveFlight
    <2> QED
      BY <1>3, <2>1, <2>2 DEF Forgotten
  <1>4. CASE c # f
    <2>1. c \in Gone
      BY <1>1, <1>2, <1>4, ReleasedForgets DEF Gone
    <2>2. Forgotten(c)
      BY <2>1 DEF ClosedInv
    <2>3. ~InFlight(c)'
      BY <1>2, <2>2, RemoveFlight DEF Forgotten
    <2> QED
      BY <1>1, <1>2, <2>2, <2>3, ReleasedForgets DEF Forgotten
  <1> QED
    BY <1>3, <1>4

LEMMA TypeClosed ==
  ASSUME Shape, ClosedInv, NEW t \in Texts, Type(t)
  PROVE  ClosedInv'
  <1>1. UNCHANGED <<open, leaked, tracked, srv, doc>> /\ start' = Outdated(start, shown)
    BY DEF Type, serverVars
  <1>2. \A f \in Gone' : InFlight(f)' => InFlight(f)
    BY <1>1, OutdatedFlight DEF InFlight, Shape
  <1> QED
    BY <1>1, <1>2, ClosedStep DEF BringsUp, Gone

LEMMA TimerFiresClosed ==
  ASSUME Shape, ClosedInv, TimerFires
  PROVE  ClosedInv'
  <1>1. UNCHANGED <<open, leaked, tracked, srv, start>>
    BY DEF TimerFires
  <1>2. shown \in open
    BY NextVersionShape DEF TimerFires, Shape
  <1>3. \A f \in Gone' : doc'[f] = doc[f]
    BY <1>1, <1>2 DEF TimerFires, Gone, Shape, ServerShape
  <1> QED
    BY <1>1, <1>3, ClosedStep DEF BringsUp, Gone, InFlight

(* A start in flight keeps its file, and is of a file that is not gone.    *)
LEMMA FlyingFile ==
  ASSUME Shape, ClosedInv, NEW s \in Slots, start[s] # Idle
  PROVE  start[s] \in Starts /\ start[s].file \in Files \ Gone
  BY DEF Shape, StartShape, SlotStates, Starts, ClosedInv, Forgotten, InFlight

LEMMA StartStepFlight ==
  ASSUME Shape, NEW s \in Slots, start[s] # Idle, StartStep(s), NEW f, InFlight(f)'
  PROVE  InFlight(f)
  <1>1. start[s] \in Starts
    BY DEF Shape, StartShape, SlotStates
  <1>2. \A r \in Slots \ {s} : start'[r] = start[r]
    BY DEF StartStep, Lookup, Spawned, SpawnFails, Repair, OpenSent, OpenReturns, Shape,
           StartShape
  <1>3. start'[s] = Idle \/ start'[s].file = start[s].file
    BY <1>1 DEF StartStep, Lookup, Spawned, SpawnFails, Repair, OpenSent, OpenReturns, Shape,
           StartShape, Starts
  <1> QED
    BY <1>2, <1>3 DEF InFlight

LEMMA StartStepClosed ==
  ASSUME Shape, ClosedInv, NEW s \in Slots, start[s] # Idle, StartStep(s)
  PROVE  ClosedInv'
  <1>1. start[s].file \in Files \ Gone
    BY FlyingFile
  <1>2. UNCHANGED <<open, leaked>>
    BY DEF StartStep, Lookup, Spawned, SpawnFails, Repair, OpenSent, OpenReturns, editorVars
  <1>3. tracked' \subseteq tracked \cup {start[s].file}
    BY DEF StartStep, Lookup, Spawned, SpawnFails, Repair, OpenSent, OpenReturns
  <1>4. srv'.files \subseteq srv.files \cup {start[s].file}
    <2>1. CASE Lookup(s)
      BY <2>1 DEF Lookup, Shape, ServerShape, Servers
    <2>2. CASE Spawned(s)
      BY <2>2 DEF Spawned
    <2>3. CASE srv' = srv
      BY <2>3
    <2> QED
      BY <2>1, <2>2, <2>3
      DEF StartStep, SpawnFails, Repair, OpenSent, OpenReturns, serverVars
  <1>5. \A f \in Gone : doc'[f] = None \/ doc'[f] = doc[f]
    BY <1>1 DEF StartStep, Lookup, Spawned, SpawnFails, Repair, OpenSent, OpenReturns,
           serverVars, Shape, ServerShape, NoDocuments, Gone
  <1>6. \A f \in Gone' : ~BringsUp(f)
    BY <1>1, <1>2, <1>3, <1>4, <1>5, StartStepFlight DEF BringsUp, Gone
  <1> QED
    BY <1>2, <1>6, ClosedStep DEF Gone

LEMMA RestartClosed ==
  ASSUME Shape, ClosedInv, NEW f \in Files, NEW s \in Slots, Restart(f, s)
  PROVE  ClosedInv'
  <1>1. UNCHANGED <<open, leaked>> /\ tracked' = tracked \ {f}
    BY DEF Restart, editorVars
  <1>2. f \notin Gone
    BY DEF Restart, ClosedInv, Forgotten
  <1>3. srv'.files \subseteq srv.files
    BY StoppedShape DEF Restart, Shape, ServerShape
  <1>4. \A c \in Gone : doc'[c] = None \/ doc'[c] = doc[c]
    BY DEF Restart, Kept, NoDocuments, Gone, Shape, ServerShape
  <1>5. \A c \in Gone : InFlight(c)' => InFlight(c)
    BY <1>2 DEF Restart, Restarted, Start, InFlight, Shape, StartShape, SlotStates
  <1> QED
    BY <1>1, <1>3, <1>4, <1>5, ClosedStep DEF BringsUp, Gone

LEMMA ServerExitsClosed ==
  ASSUME Shape, ClosedInv, ServerExits
  PROVE  ClosedInv'
  <1>1. UNCHANGED <<open, leaked, tracked, start>> /\ srv' = Down /\ doc' = NoDocuments
    BY DEF ServerExits, editorVars
  <1> QED
    BY <1>1, ClosedStep DEF BringsUp, Gone, Down, NoDocuments, InFlight

LEMMA NextClosed == Shape /\ ClosedInv /\ [Next]_vars => ClosedInv'
  <1> SUFFICES ASSUME Shape, ClosedInv, [Next]_vars PROVE ClosedInv'
    OBVIOUS
  <1>1. CASE EditorStep
    BY <1>1, SelectClosed, OpenFileClosed, HideClosed, RemoveClosed, TypeClosed,
       TimerFiresClosed DEF EditorStep
  <1>2. ASSUME NEW s \in Slots, start[s] # Idle, StartStep(s) PROVE ClosedInv'
    BY <1>2, StartStepClosed
  <1>3. ASSUME NEW f \in Files, NEW s \in Slots, Restart(f, s) PROVE ClosedInv'
    BY <1>3, RestartClosed
  <1>4. CASE ServerExits
    BY <1>4, ServerExitsClosed
  <1>5. CASE UNCHANGED vars
    BY <1>5 DEF vars, editorVars, serverVars, ClosedInv, Gone, Forgotten, InFlight
  <1> QED
    BY <1>1, <1>2, <1>3, <1>4, <1>5 DEF Next

LEMMA InitClosed == Init => ClosedInv
  BY DEF Init, ClosedInv, Forgotten, Gone, InFlight, Down, NoDocuments

(* Whatever order files are closed in, with starts of them under way,      *)
(* nothing speaks of a closed file that was not left behind.               *)
THEOREM ClosedInvHolds == Spec => [](Shape /\ ClosedInv)
  <1> QED
    BY InitShape, InitClosed, NextShape, NextClosed, PTL DEF Spec

(* A closed file, with no start of it in flight and not left behind, is    *)
(* neither tracked nor a document of the server.                           *)
THEOREM ClosedIsReleasedHolds == Spec => []ClosedIsReleased
  <1>1. ClosedInv => ClosedIsReleased
    BY DEF ClosedInv, ClosedIsReleased, Gone, Forgotten
  <1> QED
    BY <1>1, ClosedInvHolds, PTL

-----------------------------------------------------------------------------
(* The count of a server is the number of its files, unless one of them    *)
(* was counted twice.  (That it is never zero is part of the shape.)       *)
CountInv == srv.up /\ ~doubled => srv.refs = Cardinality(srv.files)

LEMMA FilesFinite ==
  ASSUME NEW fs \in SUBSET Files
  PROVE  IsFiniteSet(fs)
  BY ConstantsAssumption, FS_Subset

LEMMA StoppedCount ==
  ASSUME NEW sv \in Servers, Counted(sv), NEW f \in Files,
         sv.refs = Cardinality(sv.files) \/ ~sv.up
  PROVE  Stopped(sv, f).up => Stopped(sv, f).refs = Cardinality(Stopped(sv, f).files)
  <1>1. IsFiniteSet(sv.files)
    BY FilesFinite DEF Servers
  <1>2. CASE f \notin sv.files
    BY <1>2 DEF Stopped
  <1>3. CASE f \in sv.files /\ sv.refs = 1
    BY <1>3 DEF Stopped, Down
  <1>4. CASE f \in sv.files /\ sv.refs # 1
    <2>1. /\ Stopped(sv, f).up = sv.up
          /\ Stopped(sv, f).refs = sv.refs - 1
          /\ Stopped(sv, f).files = sv.files \ {f}
      BY <1>4 DEF Stopped, Servers
    <2>2. Cardinality(sv.files \ {f}) = Cardinality(sv.files) - 1
      BY <1>1, <1>4, FS_RemoveElement
    <2> QED
      BY <2>1, <2>2
  <1> QED
    BY <1>2, <1>3, <1>4

(* A file that is closed or restarted.                                     *)
LEMMA StopsCount ==
  ASSUME Shape, CountInv, NEW f \in Files, srv' = srv \/ srv' = Stopped(srv, f),
         doubled' = (doubled /\ srv'.up)
  PROVE  CountInv'
  <1>1. CASE srv' = srv
    BY <1>1 DEF CountInv
  <1>2. CASE srv' = Stopped(srv, f)
    <2> SUFFICES ASSUME srv'.up, ~doubled' PROVE srv'.refs = Cardinality(srv'.files)
      BY DEF CountInv
    <2>1. ~doubled
      OBVIOUS
    <2> QED
      BY <1>2, <2>1, StoppedCount DEF CountInv, Shape, ServerShape
  <1> QED
    BY <1>1, <1>2

LEMMA LookupCount ==
  ASSUME Shape, CountInv, NEW s \in Slots, start[s] # Idle, Lookup(s)
  PROVE  CountInv'
  <1>1. CASE srv.up
    <2> DEFINE f == start[s].file
    <2>1. /\ srv'.refs = srv.refs + 1 /\ srv'.files = srv.files \cup {f}
          /\ doubled' = (doubled \/ f \in srv.files)
      BY <1>1 DEF Lookup, Shape, ServerShape, Servers
    <2> SUFFICES ASSUME ~doubled' PROVE srv'.refs = Cardinality(srv'.files)
      BY DEF CountInv
    <2>2. ~doubled /\ f \notin srv.files
      BY <2>1
    <2>3. Cardinality(srv.files \cup {f}) = Cardinality(srv.files) + 1
      BY <2>2, FilesFinite, FS_AddElement DEF Shape, ServerShape, Servers
    <2> QED
      BY <1>1, <2>1, <2>2, <2>3 DEF CountInv
  <1>2. CASE ~srv.up
    BY <1>2 DEF Lookup, CountInv
  <1> QED
    BY <1>1, <1>2

LEMMA NextCount == Shape /\ CountInv /\ [Next]_vars => CountInv'
  <1> SUFFICES ASSUME Shape, CountInv, [Next]_vars PROVE CountInv'
    OBVIOUS
  <1>1. CASE EditorStep
    <2>1. ASSUME NEW f \in Files, NEW viaStore \in BOOLEAN, NEW storeFirst \in BOOLEAN,
                 Remove(f, viaStore, storeFirst)
          PROVE  CountInv'
      BY <2>1, StopsCount DEF Remove, Released
    <2>2. CASE UNCHANGED <<srv, doubled>>
      BY <2>2 DEF CountInv
    <2> QED
      BY <1>1, <2>1, <2>2 DEF EditorStep, Select, OpenFile, Hide, Type, TimerFires, serverVars
  <1>2. ASSUME NEW s \in Slots, start[s] # Idle, StartStep(s) PROVE CountInv'
    <2>1. CASE Lookup(s)
      BY <1>2, <2>1, LookupCount
    <2>2. CASE Spawned(s)
      BY <2>2, FS_Singleton DEF Spawned, CountInv
    <2>3. CASE UNCHANGED <<srv, doubled>>
      BY <2>3 DEF CountInv
    <2> QED
      BY <1>2, <2>1, <2>2, <2>3
      DEF StartStep, SpawnFails, Repair, OpenSent, OpenReturns, serverVars
  <1>3. ASSUME NEW f \in Files, NEW s \in Slots, Restart(f, s) PROVE CountInv'
    BY <1>3, StopsCount DEF Restart
  <1>4. CASE ServerExits
    BY <1>4 DEF ServerExits, CountInv, Down
  <1>5. CASE UNCHANGED vars
    BY <1>5 DEF vars, serverVars, CountInv
  <1> QED
    BY <1>1, <1>2, <1>3, <1>4, <1>5 DEF Next

(* With every file closed and no start in flight the server is gone,       *)
(* unless a file was left behind or counted twice.                         *)
THEOREM NoIdleServerHolds == Spec => []NoIdleServer
  <1>1. Init => CountInv
    BY DEF Init, CountInv, Down
  <1>2. Shape /\ ClosedInv /\ CountInv => NoIdleServer
    <2> SUFFICES ASSUME Shape, ClosedInv, CountInv, open = {}, srv.up, ~doubled
                 PROVE  srv.files \cap leaked # {}
      BY DEF NoIdleServer
    <2>1. Cardinality(srv.files) >= 1
      BY DEF CountInv, Shape, ServerShape, Counted
    <2>2. srv.files # {}
      BY <2>1, FS_EmptySet
    <2>3. PICK f \in srv.files : TRUE
      BY <2>2
    <2>4. f \in Files /\ f \notin Gone
      BY DEF Shape, ServerShape, Servers, ClosedInv, Forgotten
    <2> QED
      BY <2>4 DEF Gone
  <1>3. Spec => []CountInv
    BY <1>1, NextCount, ShapeHolds, PTL DEF Spec
  <1> QED
    BY <1>2, <1>3, ClosedInvHolds, PTL

-----------------------------------------------------------------------------
(* Two facts that the invariants below share: only a document that counts  *)
(* as open has a change waiting, and without a server nothing is open.     *)
TimerOfOpened == timer => shown \in opened

NoneServed == ~srv.up => doc = NoDocuments

LinkInv == TimerOfOpened /\ NoneServed

LEMMA ServedIsUp == Shape /\ Served(srv) => srv.up
  BY DEF Shape, ServerShape, Counted, Served, Down

LEMMA NextLink == Shape /\ LinkInv /\ [Next]_vars => LinkInv'
  <1> SUFFICES ASSUME Shape, LinkInv, [Next]_vars PROVE LinkInv'
    OBVIOUS
  <1>1. TimerOfOpened'
    <2>1. CASE timer' = FALSE
      BY <2>1 DEF TimerOfOpened
    <2>2. CASE UNCHANGED <<shown, timer>> /\ opened \subseteq opened'
      BY <2>2 DEF TimerOfOpened, LinkInv
    <2>3. CASE EditorStep
      <3>1. ASSUME NEW t \in Texts, Type(t) PROVE TimerOfOpened'
        BY <3>1 DEF Type, TimerOfOpened
      <3> QED
        BY <2>1, <2>2, <2>3, <3>1
        DEF EditorStep, Select, OpenFile, Hide, Remove, TimerFires, Shows, Unmounts
    <2>4. ASSUME NEW s \in Slots, StartStep(s) PROVE TimerOfOpened'
      BY <2>2, <2>4 DEF StartStep, Lookup, Spawned, SpawnFails, Repair, OpenSent, OpenReturns,
                        editorVars
    <2> QED
      BY <2>2, <2>3, <2>4 DEF Next, Restart, ServerExits, vars, editorVars
  <1>2. NoneServed'
    <2>1. CASE UNCHANGED srv /\ UNCHANGED doc
      BY <2>1 DEF NoneServed, LinkInv
    <2>2. CASE srv'.up
      BY <2>2 DEF NoneServed
    <2>3. CASE \E docs : doc' = Kept(srv', docs)
      BY <2>3 DEF NoneServed, Kept
    <2>4. CASE EditorStep
      <3>1. CASE TimerFires
        BY <3>1, <2>1, <2>2, ServedIsUp DEF TimerFires
      <3> QED
        BY <2>1, <2>3, <2>4, <3>1
        DEF EditorStep, Select, OpenFile, Hide, Remove, Released, Type, serverVars
    <2>5. ASSUME NEW s \in Slots, StartStep(s) PROVE NoneServed'
      <3>1. CASE Lookup(s)
        BY <3>1, <2>1, <2>2 DEF Lookup, Shape, ServerShape, Servers
      <3>2. CASE Spawned(s)
        BY <3>2, <2>2 DEF Spawned
      <3>3. CASE OpenSent(s)
        BY <3>3, <2>1, <2>2, ServedIsUp DEF OpenSent
      <3> QED
        BY <2>1, <2>5, <3>1, <3>2, <3>3
        DEF StartStep, SpawnFails, Repair, OpenReturns, serverVars
    <2> QED
      BY <2>1, <2>3, <2>4, <2>5 DEF Next, Restart, ServerExits, vars, serverVars, NoneServed
  <1> QED
    BY <1>1, <1>2 DEF LinkInv

LEMMA InitLink == Init => LinkInv
  BY DEF Init, LinkInv, TimerOfOpened, NoneServed

-----------------------------------------------------------------------------
(* The version of a document does not pass the component's count, where 0  *)
(* and 1 are both the version of the opening.  The count of a file that    *)
(* counts as open governs its document; a start on its way to count it as  *)
(* open will find it governed, for the server either opens the document    *)
(* anew or has lost it.                                                    *)
Least(n) == IF n = 0 THEN 1 ELSE n

InStep(f) == doc[f] = None \/ doc[f].ver <= Least(ver[f])

OpenedInStep == \A f \in opened \ leaked : InStep(f)

StartInStep(s) ==
  start[s] # Idle /\ start[s].live /\ start[s].file \notin leaked =>
    /\ start[s].pc = "started" => start[s].file \in srv.files \/ InStep(start[s].file)
    /\ start[s].pc = "opening" => InStep(start[s].file)

CountsAnew == \A f \in Files \ opened : ver[f] <= 1

VersionInv ==
  /\ OpenedInStep
  /\ \A s \in Slots : StartInStep(s)
  /\ CountsAnew

LEMMA InStepKept ==
  ASSUME Shape, NEW f \in Files, InStep(f), ver'[f] \in Nat,
         doc'[f] = None \/ doc'[f] = doc[f],
         ver'[f] >= ver[f] \/ ver[f] <= 1
  PROVE  InStep(f)'
  <1>1. ver[f] \in Nat
    BY Bounds DEF Shape, EditorShape
  <1>2. doc[f] # None => doc[f].ver \in Nat
    BY Bounds DEF Shape, ServerShape, Documents
  <1> QED
    BY <1>1, <1>2 DEF InStep, Least

(* The pane comes to show g, and the server has what it had or less.       *)
LEMMA ShowsVersion ==
  ASSUME Shape, VersionInv, NEW g \in Files, NEW sts \in [Slots -> SlotStates],
         NEW f \in Files \cup {None}, f # g,
         Shows(g, opened \ {f}, IF f = None THEN ver ELSE [ver EXCEPT ![f] = 0], sts),
         \A s \in Slots : sts[s] # Idle =>
           /\ start[s] # Idle
           /\ sts[s].pc = start[s].pc /\ sts[s].file = start[s].file
           /\ sts[s].live = start[s].live,
         \A c \in Files : doc'[c] = None \/ doc'[c] = doc[c],
         \A c \in Files \ {f} : c \in srv.files => c \in srv'.files \/ doc'[c] = None,
         leaked \ {f} \subseteq leaked',
         f \notin leaked' => ~InFlight(f)
  PROVE  VersionInv'
  <1>1. ver \in [Files -> 0..MaxVersion] /\ opened \subseteq Files
    BY DEF Shape, EditorShape
  <1>2. \A c \in Files : ver[c] \in Nat
    BY <1>1, Bounds
  <1>3. opened' = opened \ {f}
    BY DEF Shows
  <1>4. \A c \in Files \ {f} :
          ver'[c] = ver[c] \/ (c = g /\ g \notin opened /\ ver'[c] = 1)
    BY <1>1 DEF Shows
  <1>5. f \in Files => ver'[f] = 0
    BY <1>1, Bounds DEF Shows
  <1>6. \A c \in Files \ {f} : ver'[c] \in Nat /\ (ver'[c] >= ver[c] \/ ver[c] <= 1)
    BY <1>2, <1>4 DEF VersionInv, CountsAnew
  <1>7. \A c \in Files \ {f} : InStep(c) => InStep(c)'
    BY <1>6, InStepKept
  <1>8. OpenedInStep'
    BY <1>1, <1>3, <1>7 DEF OpenedInStep, VersionInv
  <1>9. CountsAnew'
    BY <1>2, <1>3, <1>4, <1>5 DEF CountsAnew, VersionInv
  <1>10. ASSUME NEW s \in Slots PROVE StartInStep(s)'
    <2>1. start'[s] = sts[s] \/ start'[s] = Start(g)
      BY DEF Shows
    <2>2. CASE start'[s] = Start(g)
      BY <2>2 DEF Start, StartInStep
    <2>3. CASE start'[s] = sts[s] /\ start'[s] # Idle /\ start'[s].live
               /\ start'[s].file \notin leaked'
      <3>1. /\ start[s] # Idle /\ start[s].live
            /\ start'[s].pc = start[s].pc /\ start'[s].file = start[s].file
        BY <2>3
      <3>2. start[s].file \in Files
        BY <3>1 DEF Shape, StartShape, SlotStates, Starts
      <3>3. start[s].file # f
        BY <2>3, <3>1 DEF InFlight
      <3>4. start[s].file \notin leaked
        BY <2>3, <3>1, <3>3
      <3>5. StartInStep(s)
        BY DEF VersionInv
      <3>6. doc'[start[s].file] = None => InStep(start[s].file)'
        BY <3>1 DEF InStep
      <3> QED
        BY <1>7, <3>1, <3>2, <3>3, <3>4, <3>5, <3>6 DEF StartInStep, InStep
    <2> QED
      BY <2>1, <2>2, <2>3 DEF StartInStep
  <1> QED
    BY <1>8, <1>9, <1>10 DEF VersionInv

(* The same when no file is closed.                                        *)
LEMMA OnlyShowsVersion ==
  ASSUME Shape, VersionInv, NEW g \in Files, NEW sts \in [Slots -> SlotStates],
         Shows(g, opened, ver, sts),
         \A s \in Slots : sts[s] # Idle =>
           /\ start[s] # Idle
           /\ sts[s].pc = start[s].pc /\ sts[s].file = start[s].file
           /\ sts[s].live = start[s].live,
         UNCHANGED <<srv, doc, leaked>>
  PROVE  VersionInv'
  <1>1. opened \ {None} = opened /\ None # g /\ None \notin Files
    BY Bounds DEF Shape, EditorShape
  <1>2. ~InFlight(None)
    BY <1>1, NotIdle DEF InFlight, Shape, StartShape, SlotStates, Starts
  <1>3. Shows(g, opened \ {None}, IF None = None THEN ver ELSE [ver EXCEPT ![None] = 0], sts)
    BY <1>1
  <1> QED
    BY <1>1, <1>2, <1>3, ShowsVersion

LEMMA OutdatedSame ==
  ASSUME StartShape, NEW g
  PROVE  \A s \in Slots : Outdated(start, g)[s] # Idle =>
           /\ start[s] # Idle
           /\ Outdated(start, g)[s].pc = start[s].pc
           /\ Outdated(start, g)[s].file = start[s].file
           /\ Outdated(start, g)[s].live = start[s].live
  BY OutdatedShape DEF StartShape

LEMMA UnmountsVersion ==
  ASSUME Shape, shown # None, Unmounts
  PROVE  VersionInv'
  <1>1. \A s \in Slots : start'[s] # Idle => ~start'[s].live
    BY FrozenShape DEF Unmounts, Shape, StartShape, EditorShape
  <1>2. OpenedInStep' /\ CountsAnew'
    BY DEF Unmounts, OpenedInStep, CountsAnew, NoVersions
  <1> QED
    BY <1>1, <1>2 DEF VersionInv, StartInStep

LEMMA RemoveVersion ==
  ASSUME Shape, VersionInv, NEW f \in Files, NEW viaStore \in BOOLEAN,
         NEW storeFirst \in BOOLEAN, Remove(f, viaStore, storeFirst)
  PROVE  VersionInv'
  <1>1. Released(f, viaStore, storeFirst) /\ ServerShape
    BY DEF Remove, Shape
  <1>2. /\ \A c \in Files : doc'[c] = None \/ doc'[c] = doc[c]
        /\ leaked \ {f} \subseteq leaked'
        /\ f \notin leaked' => ~InFlight(f)
    BY <1>1, ReleasedForgets
  <1>3. \A c \in Files \ {f} : c \in srv.files => c \in srv'.files \/ doc'[c] = None
    <2>1. CASE srv' = srv
      BY <2>1
    <2>2. CASE srv' = Stopped(srv, f) /\ srv'.up
      BY <2>2, StoppedShape DEF Shape, ServerShape
    <2>3. CASE ~srv'.up
      BY <1>1, <2>3 DEF Released, Kept, NoDocuments
    <2> QED
      BY <1>1, <2>1, <2>2, <2>3 DEF Released
  <1>4. CASE shown = f /\ Unmounts
    BY <1>4, Bounds, UnmountsVersion
  <1>5. CASE shown # f /\ UNCHANGED <<opened, ver, start>>
    <2>1. f \in leaked'
      BY <1>1, <1>5 DEF Released
    <2>2. \A c \in Files : InStep(c) => InStep(c)'
      BY <1>2, <1>5, InStepKept, Bounds DEF Shape, EditorShape
    <2>3. OpenedInStep' /\ CountsAnew'
      BY <1>2, <1>5, <2>1, <2>2 DEF VersionInv, OpenedInStep, CountsAnew, Shape, EditorShape
    <2>4. ASSUME NEW s \in Slots, start[s] # Idle, start[s].live, start[s].file \notin leaked'
          PROVE  StartInStep(s)'
      <3>1. start[s].file \in Files \ {f} /\ start[s].file \notin leaked
        BY <1>2, <2>1, <2>4 DEF Shape, StartShape, SlotStates, Starts
      <3>2. StartInStep(s)
        BY DEF VersionInv
      <3> QED
        BY <1>3, <1>5, <2>2, <2>4, <3>1, <3>2 DEF StartInStep, InStep
    <2> QED
      BY <1>5, <2>3, <2>4 DEF VersionInv, StartInStep
  <1>6. CASE \E g \in (open \ {f}) \cup (IF viaStore THEN {} ELSE Files \ {f}) :
          Shows(g, opened \ {f}, [ver EXCEPT ![f] = 0],
                IF g \in open THEN start ELSE Outdated(start, g))
    <2>1. PICK g \in Files \ {f} :
            Shows(g, opened \ {f}, [ver EXCEPT ![f] = 0],
                  IF g \in open THEN start ELSE Outdated(start, g))
      BY <1>6 DEF Shape, EditorShape
    <2> DEFINE sts == IF g \in open THEN start ELSE Outdated(start, g)
    <2>2. sts \in [Slots -> SlotStates] /\ StartShape
      BY OutdatedShape DEF Shape, StartShape
    <2>3. \A s \in Slots : sts[s] # Idle =>
           /\ start[s] # Idle
           /\ sts[s].pc = start[s].pc /\ sts[s].file = start[s].file
           /\ sts[s].live = start[s].live
      BY <2>2, OutdatedSame
    <2>4. f # None
      BY Bounds
    <2>5. Shows(g, opened \ {f}, IF f = None THEN ver ELSE [ver EXCEPT ![f] = 0], sts)
      BY <2>1, <2>4
    <2> HIDE DEF sts
    <2> QED
      BY <1>2, <1>3, <2>2, <2>3, <2>5, ShowsVersion
  <1> QED
    BY <1>4, <1>5, <1>6 DEF Remove

LEMMA TypeVersion ==
  ASSUME Shape, VersionInv, NEW t \in Texts, Type(t)
  PROVE  VersionInv'
  <1>1. UNCHANGED <<opened, ver, srv, doc, leaked>> /\ start' = Outdated(start, shown)
    BY DEF Type, serverVars
  <1>2. \A s \in Slots : start'[s] # Idle =>
           /\ start[s] # Idle
           /\ start'[s].pc = start[s].pc
           /\ start'[s].file = start[s].file
           /\ start'[s].live = start[s].live
    BY <1>1, OutdatedSame DEF Shape
  <1> QED
    BY <1>1, <1>2 DEF VersionInv, OpenedInStep, CountsAnew, StartInStep, InStep

LEMMA TimerFiresVersion ==
  ASSUME Shape, LinkInv, VersionInv, TimerFires
  PROVE  VersionInv'
  <1>1. /\ UNCHANGED <<opened, srv, leaked, start>>
        /\ ver' = [ver EXCEPT ![shown] = NextVersion]
        /\ \/ doc' = doc
           \/ doc' = [doc EXCEPT ![shown] = [ver |-> NextVersion, text |-> text[shown]]]
    BY DEF TimerFires, NextVersion
  <1>2. /\ shown \in Files /\ shown \in opened
        /\ NextVersion \in Nat /\ NextVersion > ver[shown] /\ NextVersion >= 2
    BY NextVersionShape, Bounds DEF TimerFires, Shape, LinkInv, TimerOfOpened
  <1>3. \A c \in Files : ver[c] \in Nat
    BY Bounds DEF Shape, EditorShape
  <1>4. ASSUME NEW c \in Files, InStep(c) PROVE InStep(c)'
    <2>1. ver' [c] \in Nat /\ ver'[c] >= ver[c]
      BY <1>1, <1>2, <1>3 DEF Shape, EditorShape
    <2>2. CASE doc'[c] = doc[c]
      BY <1>4, <2>1, <2>2, InStepKept
    <2>3. CASE c = shown /\ doc' = [doc EXCEPT ![shown] = [ver |-> NextVersion, text |-> text[shown]]]
      <3>1. doc'[c].ver = NextVersion /\ ver'[c] = NextVersion
        BY <1>1, <2>3 DEF Shape, ServerShape, EditorShape
      <3> QED
        BY <1>2, <3>1 DEF InStep, Least
    <2> QED
      BY <1>1, <2>2, <2>3 DEF Shape, ServerShape
  <1>5. OpenedInStep'
    BY <1>1, <1>4 DEF VersionInv, OpenedInStep, Shape, EditorShape
  <1>6. CountsAnew'
    BY <1>1, <1>2 DEF VersionInv, CountsAnew, Shape, EditorShape
  <1>7. \A s \in Slots : start[s] # Idle => start[s].file \in Files
    BY DEF Shape, StartShape, SlotStates, Starts
  <1>8. \A s \in Slots : StartInStep(s)'
    BY <1>1, <1>4, <1>7 DEF VersionInv, StartInStep
  <1> QED
    BY <1>5, <1>6, <1>8 DEF VersionInv

LEMMA LookupVersion ==
  ASSUME Shape, VersionInv, NEW s \in Slots, start[s] # Idle, Lookup(s)
  PROVE  VersionInv'
  <1>1. UNCHANGED <<opened, ver, doc, leaked>>
    BY DEF Lookup, editorVars
  <1>2. /\ srv.files \subseteq srv'.files
        /\ \/ /\ start' = [start EXCEPT ![s].pc = "started"]
              /\ start[s].file \in srv'.files
           \/ start' = [start EXCEPT ![s].pc = "spawn"]
    <2>1. CASE srv.up
      <3>1. srv' = [srv EXCEPT !.refs = @ + 1, !.files = @ \cup {start[s].file}]
        BY <2>1 DEF Lookup
      <3>2. srv'.files = srv.files \cup {start[s].file}
        BY <3>1 DEF Shape, ServerShape, Servers
      <3>3. start' = [start EXCEPT ![s].pc = "started"]
        BY <2>1 DEF Lookup
      <3> QED
        BY <3>2, <3>3
    <2>2. CASE ~srv.up
      BY <2>2 DEF Lookup
    <2> QED
      BY <2>1, <2>2
  <1>3. \/ start' = [start EXCEPT ![s].pc = "started"]
        \/ start' = [start EXCEPT ![s].pc = "spawn"]
    BY <1>2
  <1>4. start[s] \in Starts /\ start \in [Slots -> SlotStates]
    BY DEF Shape, StartShape, SlotStates
  <1>5. StartInStep(s)'
    BY <1>2, <1>4 DEF StartInStep, Starts
  <1>6. \A r \in Slots \ {s} : StartInStep(r)'
    BY <1>1, <1>2, <1>3, <1>4 DEF VersionInv, StartInStep, InStep
  <1> QED
    BY <1>1, <1>5, <1>6 DEF VersionInv, OpenedInStep, CountsAnew, InStep

LEMMA NoDocumentsVersion ==
  ASSUME Shape, VersionInv, doc' = NoDocuments, UNCHANGED <<opened, ver>>,
         \A s \in Slots : start'[s] = Idle \/ start'[s].file \in Files
  PROVE  VersionInv'
  <1>1. \A f \in Files : InStep(f)'
    BY DEF InStep, NoDocuments
  <1> QED
    BY <1>1 DEF VersionInv, OpenedInStep, CountsAnew, StartInStep, Shape, EditorShape

LEMMA SpawnedVersion ==
  ASSUME Shape, VersionInv, NEW s \in Slots, start[s] # Idle, Spawned(s)
  PROVE  VersionInv'
  <1>1. \A r \in Slots : start'[r] = Idle \/ start'[r].file \in Files
    BY SpawnedShape DEF Shape, StartShape, SlotStates, Starts
  <1> QED
    BY <1>1, NoDocumentsVersion DEF Spawned, editorVars

LEMMA ServerExitsVersion ==
  ASSUME Shape, VersionInv, ServerExits
  PROVE  VersionInv'
  <1>1. \A r \in Slots : start'[r] = Idle \/ start'[r].file \in Files
    BY ServerExitsShape DEF Shape, StartShape, SlotStates, Starts
  <1> QED
    BY <1>1, NoDocumentsVersion DEF ServerExits, editorVars

(* A start that fails or is repaired.                                      *)
LEMMA SpawnFailsVersion ==
  ASSUME Shape, VersionInv, NEW s \in Slots, start[s] # Idle, SpawnFails(s) \/ Repair(s)
  PROVE  VersionInv'
  <1>1. UNCHANGED <<opened, ver, doc, srv, leaked>>
    BY DEF SpawnFails, Repair, editorVars, serverVars
  <1>2. start[s] \in Starts /\ start \in [Slots -> SlotStates]
    BY DEF Shape, StartShape, SlotStates
  <1>3. \A r \in Slots \ {s} : start'[r] = start[r]
    BY <1>2 DEF SpawnFails, Repair
  <1>4. start'[s] = Idle \/ start'[s].pc \in {"repair", "start"}
    BY <1>2 DEF SpawnFails, Repair, Starts
  <1>5. \A r \in Slots : StartInStep(r)'
    BY <1>1, <1>3, <1>4 DEF VersionInv, StartInStep, InStep
  <1> QED
    BY <1>1, <1>5 DEF VersionInv, OpenedInStep, CountsAnew, InStep

LEMMA OpenSentVersion ==
  ASSUME Shape, VersionInv, NEW s \in Slots, start[s] # Idle, OpenSent(s)
  PROVE  VersionInv'
  <1>1. UNCHANGED <<opened, ver, srv, leaked>>
    BY DEF OpenSent, editorVars
  <1>2. start[s] \in Starts /\ start \in [Slots -> SlotStates] /\ start[s].file \in Files
    BY DEF Shape, StartShape, SlotStates, Starts
  <1>3. /\ start[s].pc = "started"
        /\ start' = [start EXCEPT ![s].pc = "opening"]
        /\ \/ doc' = doc /\ srv.files = {}
           \/ \E t : doc' = [doc EXCEPT ![start[s].file] = [ver |-> 1, text |-> t]]
    BY DEF OpenSent, Served
  <1>4. \A c \in Files : ver[c] \in Nat
    BY Bounds DEF Shape, EditorShape
  <1>5. ASSUME NEW c \in Files, InStep(c) PROVE InStep(c)'
    <2>1. CASE doc'[c] = doc[c]
      BY <1>1, <1>5, <2>1 DEF InStep
    <2>2. CASE c = start[s].file /\ doc'[c].ver = 1
      <3>1. 1 <= Least(ver'[c])
        BY <1>1, <1>4 DEF Least
      <3> QED
        BY <2>2, <3>1 DEF InStep
    <2>3. doc' = doc \/ doc'[start[s].file].ver = 1
      <3>1. CASE \E t : doc' = [doc EXCEPT ![start[s].file] = [ver |-> 1, text |-> t]]
        BY <1>2, <3>1 DEF Shape, ServerShape
      <3> QED
        BY <1>3, <3>1
    <2>4. c # start[s].file => doc'[c] = doc[c]
      BY <1>2, <1>3 DEF Shape, ServerShape
    <2> QED
      BY <2>1, <2>2, <2>3, <2>4
  <1>6. StartInStep(s)'
    <2>1. start'[s].file = start[s].file /\ start'[s].live = start[s].live
      BY <1>2, <1>3 DEF Starts
    <2>2. CASE doc' = doc /\ srv.files = {}
      BY <1>1, <1>2, <1>3, <2>1, <2>2 DEF VersionInv, StartInStep, InStep
    <2>3. CASE \E t : doc' = [doc EXCEPT ![start[s].file] = [ver |-> 1, text |-> t]]
      <3>1. doc'[start[s].file].ver = 1
        BY <1>2, <2>3 DEF Shape, ServerShape
      <3>2. 1 <= Least(ver'[start[s].file])
        BY <1>1, <1>2, <1>4 DEF Least
      <3> QED
        BY <2>1, <3>1, <3>2 DEF StartInStep, InStep
    <2> QED
      BY <1>3, <2>2, <2>3
  <1>7. \A r \in Slots \ {s} : start'[r] = start[r] /\ (start[r] # Idle => start[r].file \in Files)
    BY <1>2, <1>3 DEF SlotStates, Starts
  <1>8. \A r \in Slots \ {s} : StartInStep(r)'
    BY <1>1, <1>5, <1>7 DEF VersionInv, StartInStep
  <1> QED
    BY <1>1, <1>5, <1>6, <1>8 DEF VersionInv, OpenedInStep, CountsAnew, Shape, EditorShape

LEMMA OpenReturnsVersion ==
  ASSUME Shape, VersionInv, NEW s \in Slots, start[s] # Idle, OpenReturns(s)
  PROVE  VersionInv'
  <1>1. UNCHANGED <<ver, doc, srv, leaked>> /\ start' = [start EXCEPT ![s] = Idle]
    BY DEF OpenReturns, serverVars
  <1>2. start \in [Slots -> SlotStates]
    BY DEF Shape, StartShape
  <1>3. \/ opened' = opened
        \/ opened' = opened \cup {start[s].file} /\ start[s].live /\ start[s].pc = "opening"
    BY DEF OpenReturns
  <1>4. OpenedInStep'
    BY <1>1, <1>3 DEF VersionInv, OpenedInStep, StartInStep, InStep
  <1>5. CountsAnew'
    BY <1>1, <1>3 DEF VersionInv, CountsAnew
  <1>6. \A r \in Slots : StartInStep(r)'
    BY <1>1, <1>2 DEF VersionInv, StartInStep, InStep
  <1> QED
    BY <1>4, <1>5, <1>6 DEF VersionInv

LEMMA RestartVersion ==
  ASSUME Shape, VersionInv, NEW f \in Files, NEW s \in Slots, Restart(f, s)
  PROVE  VersionInv'
  <1>1. UNCHANGED <<opened, ver, leaked>> /\ srv' = Stopped(srv, f)
    BY DEF Restart, editorVars
  <1>2. /\ start' = [start EXCEPT ![s] = Restarted(f, text[f])]
        /\ ~Restarted(f, text[f]).live
    BY DEF Restart, Restarted, Start
  <1>3. \A c \in Files : doc'[c] = None \/ doc'[c] = doc[c]
    BY DEF Restart, Kept, NoDocuments, Shape, ServerShape
  <1>4. \A c \in Files : c \in srv.files => c \in srv'.files \/ doc'[c] = None
    <2>1. CASE srv'.up
      <3>1. \A c \in Files \ {f} : c \in srv.files => c \in srv'.files
        BY <1>1, <2>1, StoppedShape DEF Shape, ServerShape
      <3>2. f \in srv.files => doc'[f] = None
        BY DEF Restart, Served, Kept, NoDocuments, Shape, ServerShape
      <3> QED
        BY <3>1, <3>2
    <2>2. CASE ~srv'.up
      BY <2>2 DEF Restart, Kept, NoDocuments
    <2> QED
      BY <2>1, <2>2
  <1>5. \A c \in Files : InStep(c) => InStep(c)'
    BY <1>1, <1>3 DEF InStep
  <1>6. start \in [Slots -> SlotStates]
    BY DEF Shape, StartShape
  <1>7. StartInStep(s)'
    BY <1>2, <1>6 DEF StartInStep
  <1>8. \A r \in Slots \ {s} : start'[r] = start[r] /\ (start[r] # Idle => start[r].file \in Files)
    BY <1>2, <1>6 DEF SlotStates, Starts
  <1>9. \A r \in Slots \ {s} : StartInStep(r)'
    BY <1>1, <1>4, <1>5, <1>8 DEF VersionInv, StartInStep, InStep
  <1> QED
    BY <1>1, <1>5, <1>7, <1>9 DEF VersionInv, OpenedInStep, CountsAnew, Shape, EditorShape

LEMMA NextVersionInv == Shape /\ LinkInv /\ VersionInv /\ [Next]_vars => VersionInv'
  <1> SUFFICES ASSUME Shape, LinkInv, VersionInv, [Next]_vars PROVE VersionInv'
    OBVIOUS
  <1>1. CASE EditorStep
    <2>1. ASSUME NEW g \in Files, Select(g) PROVE VersionInv'
      <3>1. Shows(g, opened, ver, start) /\ UNCHANGED <<srv, doc, leaked>>
        BY <2>1 DEF Select, serverVars
      <3> QED
        BY <3>1, OnlyShowsVersion DEF Shape, StartShape
    <2>2. ASSUME NEW g \in Files, NEW t \in Texts, OpenFile(g, t) PROVE VersionInv'
      <3>1. Shows(g, opened, ver, Outdated(start, g)) /\ UNCHANGED <<srv, doc, leaked>>
        BY <2>2 DEF OpenFile, serverVars
      <3>2. StartShape /\ Outdated(start, g) \in [Slots -> SlotStates]
        BY OutdatedShape DEF Shape, StartShape
      <3> QED
        BY <3>1, <3>2, OutdatedSame, OnlyShowsVersion
    <2>3. CASE Hide
      BY <2>3, UnmountsVersion DEF Hide
    <2> QED
      BY <1>1, <2>1, <2>2, <2>3, RemoveVersion, TypeVersion, TimerFiresVersion DEF EditorStep
  <1>2. ASSUME NEW s \in Slots, start[s] # Idle, StartStep(s) PROVE VersionInv'
    BY <1>2, LookupVersion, SpawnedVersion, SpawnFailsVersion, OpenSentVersion,
       OpenReturnsVersion DEF StartStep
  <1>3. ASSUME NEW f \in Files, NEW s \in Slots, Restart(f, s) PROVE VersionInv'
    BY <1>3, RestartVersion
  <1>4. CASE ServerExits
    BY <1>4, ServerExitsVersion
  <1>5. CASE UNCHANGED vars
    BY <1>5 DEF vars, editorVars, serverVars, VersionInv, OpenedInStep, StartInStep,
                CountsAnew, InStep
  <1> QED
    BY <1>1, <1>2, <1>3, <1>4, <1>5 DEF Next

LEMMA InitVersion == Init => VersionInv
  BY DEF Init, VersionInv, OpenedInStep, StartInStep, CountsAnew, NoVersions

(* What a document's version is to the component's count, in every state:  *)
(* at most that count, for what counts as open or is about to.             *)
THEOREM VersionInvHolds == Spec => [](Shape /\ LinkInv /\ VersionInv)
  <1> QED
    BY InitShape, InitLink, InitVersion, NextShape, NextLink, NextVersionInv, PTL DEF Spec

LEMMA TimerRaises ==
  ASSUME Shape, LinkInv, VersionInv, TimerFires, NEW f \in Files \ leaked, doc'[f] # doc[f]
  PROVE  doc'[f].ver > doc[f].ver
  <1>1. /\ doc[shown] # None
        /\ doc' = [doc EXCEPT ![shown] = [ver |-> NextVersion, text |-> text[shown]]]
    BY DEF TimerFires, NextVersion
  <1>2. /\ shown \in opened /\ shown \in Files /\ NextVersion \in Nat
        /\ NextVersion > ver[shown] /\ NextVersion >= 2 /\ ver[shown] \in Nat
    BY NextVersionShape, Bounds DEF TimerFires, Shape, EditorShape, LinkInv, TimerOfOpened
  <1>3. f = shown /\ doc'[f].ver = NextVersion
    BY <1>1, <1>2 DEF Shape, ServerShape
  <1>4. doc[f].ver <= Least(ver[f]) /\ doc[f].ver \in Nat
    BY <1>1, <1>2, <1>3, Bounds
    DEF VersionInv, OpenedInStep, InStep, Shape, ServerShape, Documents
  <1> QED
    BY <1>2, <1>3, <1>4 DEF Least

(* A change that the server hears of a file that was not left behind has a *)
(* higher version than what the server had.                                *)
THEOREM VersionsRiseHolds == Spec => VersionsRise
  <1>1. ASSUME Shape, LinkInv, VersionInv
        PROVE  [TimerFires =>
                  \A f \in Files \ leaked :
                     doc'[f] # doc[f] => doc'[f].ver > doc[f].ver]_vars
    BY <1>1, TimerRaises
  <1> QED
    BY <1>1, VersionInvHolds, PTL DEF VersionsRise, Spec

-----------------------------------------------------------------------------
(* What the server has of a document: the text of its buffer, unless the   *)
(* change is waiting or an edit was missed.  While a start is under way it *)
(* owes the text: a start whose component is gone holds the current one as *)
(* long as it is fresh, and a document that was sent but does not count as *)
(* open yet has it.                                                        *)
OpenedSeen ==
  \A f \in (opened \cap open) \ missed :
    /\ doc[f] # None
    /\ doc[f].text = text[f] \/ (timer /\ shown = f)

Opening(s, f) ==
  start[s] # Idle /\ start[s].live /\ start[s].pc = "opening" /\ start[s].file = f

OpeningSeen ==
  \A s \in Slots, f \in open \ (opened \cup missed) :
    Opening(s, f) => doc[f] # None /\ doc[f].text = text[f]

FreshText ==
  \A s \in Slots :
    (start[s] # Idle /\ ~start[s].live /\ start[s].fresh /\ start[s].file \in open) =>
      start[s].text = text[start[s].file]

SeenInv == OpenedSeen /\ OpeningSeen /\ FreshText

(* A file of which the server loses its document is missed.                *)
LEMMA KeptOrLost ==
  ASSUME Shape, LinkInv, NEW docs, doc' = Kept(srv', docs), NEW f \in Files,
         f \notin LostBy(srv')
  PROVE  doc'[f] = docs[f] \/ (doc'[f] = None /\ doc[f] = None)
  BY DEF Kept, LostBy, LinkInv, NoneServed, NoDocuments

LEMMA ReleasedKeeps ==
  ASSUME Shape, LinkInv, NEW f \in Files, NEW viaStore, NEW storeFirst,
         Released(f, viaStore, storeFirst), NEW c \in Files \ {f}, c \notin LostBy(srv')
  PROVE  doc'[c] = doc[c]
  <1>1. doc' = Kept(srv', doc) \/ doc' = Kept(srv', [doc EXCEPT ![f] = None])
    BY DEF Released
  <1>2. [doc EXCEPT ![f] = None][c] = doc[c]
    BY DEF Shape, ServerShape
  <1> QED
    BY <1>1, <1>2, KeptOrLost

(* The starts that are still fresh after one file's text has changed, or   *)
(* after the component is gone.                                            *)
LEMMA OutdatedFresh ==
  ASSUME StartShape, NEW g, NEW s \in Slots, Outdated(start, g)[s] # Idle,
         ~Outdated(start, g)[s].live, Outdated(start, g)[s].fresh
  PROVE  Outdated(start, g)[s] = start[s] /\ start[s].file # g
  <1>1. start \in [Slots -> SlotStates]
    BY DEF StartShape
  <1>2. CASE start[s] # Idle /\ start[s].file = g /\ ~start[s].live
    <2>1. start[s] \in Starts
      BY <1>1, <1>2 DEF SlotStates
    <2>2. Outdated(start, g)[s] = [start[s] EXCEPT !.fresh = FALSE]
      BY <1>2 DEF Outdated
    <2> QED
      BY <2>1, <2>2 DEF Starts
  <1>3. CASE ~(start[s] # Idle /\ start[s].file = g /\ ~start[s].live)
    BY <1>3 DEF Outdated
  <1> QED
    BY <1>2, <1>3

LEMMA FrozenFresh ==
  ASSUME Shape, FreshText, NEW s \in Slots, Frozen(start)[s] # Idle,
         Frozen(start)[s].fresh, Frozen(start)[s].file \in open
  PROVE  Frozen(start)[s].text = text[Frozen(start)[s].file]
  <1>1. start \in [Slots -> SlotStates]
    BY DEF Shape, StartShape
  <1>2. CASE start[s] # Idle /\ start[s].live
    <2>1. start[s] \in Starts
      BY <1>1, <1>2 DEF SlotStates
    <2>2. Frozen(start)[s] = [start[s] EXCEPT !.live = FALSE, !.text = text[shown],
                                              !.fresh = (start[s].file = shown)]
      BY <1>2 DEF Frozen
    <2>3. /\ Frozen(start)[s].text = text[shown]
          /\ Frozen(start)[s].file = start[s].file
          /\ Frozen(start)[s].fresh = (start[s].file = shown)
      BY <2>1, <2>2 DEF Starts
    <2> QED
      BY <2>3
  <1>3. CASE ~(start[s] # Idle /\ start[s].live)
    BY <1>3 DEF Frozen, FreshText
  <1> QED
    BY <1>2, <1>3

(* The pane comes to show g: what is to be seen of a file that was open    *)
(* already is what was.                                                    *)
LEMMA ShowsSeen ==
  ASSUME Shape, SeenInv, NEW g \in Files, NEW ops \in SUBSET opened, NEW vers,
         NEW sts \in [Slots -> SlotStates], Shows(g, ops, vers, sts),
         \A s \in Slots : sts[s] # Idle =>
           /\ start[s] # Idle
           /\ sts[s].pc = start[s].pc /\ sts[s].file = start[s].file
           /\ sts[s].live = start[s].live
           /\ ~sts[s].live /\ sts[s].fresh /\ sts[s].file \in open' =>
                sts[s] = start[s] /\ start[s].file \in open,
         open' \subseteq Files, missed \subseteq missed',
         \A c \in open' \ missed' :
           (c \in ops \/ InFlight(c)) =>
             /\ c \in open /\ doc'[c] = doc[c] /\ ~(timer /\ shown = c)
             /\ c \in opened => c \in ops,
         \A c \in open' \cap open : text'[c] = text[c]
  PROVE  SeenInv'
  <1>1. opened' = ops
    BY DEF Shows
  <1>2. \A s \in Slots : start'[s] = sts[s] \/ start'[s] = Start(g)
    BY DEF Shows
  <1>3. OpenedSeen'
    BY <1>1 DEF SeenInv, OpenedSeen
  <1>4. OpeningSeen'
    <2> SUFFICES ASSUME NEW s \in Slots, NEW f \in open' \ (opened' \cup missed'),
                        Opening(s, f)'
                 PROVE  doc'[f] # None /\ doc'[f].text = text'[f]
      BY DEF OpeningSeen
    <2>1. start'[s] = sts[s]
      BY <1>2 DEF Opening, Start
    <2>2. Opening(s, f) /\ InFlight(f)
      BY <2>1 DEF Opening, InFlight
    <2> QED
      BY <1>1, <2>2 DEF SeenInv, OpeningSeen
  <1>5. FreshText'
    <2> SUFFICES ASSUME NEW s \in Slots, start'[s] # Idle, ~start'[s].live,
                        start'[s].fresh, start'[s].file \in open'
                 PROVE  start'[s].text = text'[start'[s].file]
      BY DEF FreshText
    <2>1. start'[s] = sts[s]
      BY <1>2 DEF Start
    <2>2. start'[s] = start[s] /\ start[s].file \in open
      BY <2>1
    <2> QED
      BY <2>2 DEF SeenInv, FreshText
  <1> QED
    BY <1>3, <1>4, <1>5 DEF SeenInv

LEMMA SelectSeen ==
  ASSUME Shape, SeenInv, NEW g \in Files, Select(g)
  PROVE  SeenInv'
  <1>1. /\ Shows(g, opened, ver, start) /\ missed' = missed \cup CutOff
        /\ UNCHANGED <<open, text, doc>>
    BY DEF Select, serverVars
  <1>2. \A c \in open' \ missed' : ~(timer /\ shown = c)
    BY <1>1 DEF CutOff
  <1>3. start \in [Slots -> SlotStates] /\ open \subseteq Files
    BY DEF Shape, StartShape, EditorShape
  <1> QED
    BY <1>1, <1>2, <1>3, ShowsSeen

LEMMA OpenFileSeen ==
  ASSUME Shape, SeenInv, NEW g \in Files, NEW t \in Texts, OpenFile(g, t)
  PROVE  SeenInv'
  <1>1. /\ g \notin open /\ open' = open \cup {g}
        /\ text' = [text EXCEPT ![g] = t]
        /\ Shows(g, opened, ver, Outdated(start, g))
        /\ missed' = missed \cup CutOff \cup Reopened(g)
        /\ doc' = doc
    BY DEF OpenFile, serverVars
  <1>2. /\ StartShape /\ open \subseteq Files
        /\ \A c \in open : text'[c] = text[c]
    BY <1>1 DEF Shape, EditorShape
  <1> DEFINE sts == Outdated(start, g)
  <1>3. sts \in [Slots -> SlotStates]
    BY <1>2, OutdatedShape DEF StartShape
  <1>4. \A s \in Slots : sts[s] # Idle =>
           /\ start[s] # Idle
           /\ sts[s].pc = start[s].pc /\ sts[s].file = start[s].file
           /\ sts[s].live = start[s].live
           /\ ~sts[s].live /\ sts[s].fresh /\ sts[s].file \in open' =>
                sts[s] = start[s] /\ start[s].file \in open
    BY <1>1, <1>2, OutdatedSame, OutdatedFresh
  <1>5. \A c \in open' \ missed' :
           (c \in opened \/ InFlight(c)) => c \in open /\ ~(timer /\ shown = c)
    BY <1>1 DEF CutOff, Reopened
  <1>6. Shows(g, opened, ver, sts)
    BY <1>1
  <1> HIDE DEF sts
  <1> QED
    BY <1>1, <1>2, <1>3, <1>4, <1>5, <1>6, ShowsSeen

(* The component unmounts, perhaps because its file is closed.             *)
LEMMA UnmountsSeen ==
  ASSUME Shape, SeenInv, shown # None, Unmounts, open' \subseteq open,
         \A c \in open' : text'[c] = text[c]
  PROVE  SeenInv'
  <1>1. start' = Frozen(start) /\ opened' = {}
    BY DEF Unmounts
  <1>2. \A s \in Slots : start'[s] # Idle => ~start'[s].live
    BY <1>1, FrozenShape DEF Shape, StartShape, EditorShape
  <1>3. FreshText'
    BY <1>1, FrozenFresh DEF FreshText, SeenInv
  <1> QED
    BY <1>1, <1>2, <1>3 DEF SeenInv, OpenedSeen, OpeningSeen, Opening

LEMMA RemoveSeen ==
  ASSUME Shape, LinkInv, SeenInv, NEW f \in Files, NEW viaStore \in BOOLEAN,
         NEW storeFirst \in BOOLEAN, Remove(f, viaStore, storeFirst)
  PROVE  SeenInv'
  <1>1. Released(f, viaStore, storeFirst) /\ open \subseteq Files
    BY DEF Remove, Shape, EditorShape
  <1>2. \A c \in Files \ {f} : c \notin LostBy(srv') => doc'[c] = doc[c]
    BY <1>1, ReleasedKeeps
  <1>3. CASE /\ shown # f
             /\ open' = open \ {f}
             /\ missed' = missed \cup LostBy(srv')
             /\ text' = [text EXCEPT ![f] = None]
             /\ UNCHANGED <<shown, opened, ver, timer, shows, start>>
    <2>1. \A c \in open' : text'[c] = text[c] /\ c \in open /\ c \in Files \ {f}
      BY <1>1, <1>3 DEF Shape, EditorShape
    <2>2. OpenedSeen'
      BY <1>2, <1>3, <2>1 DEF SeenInv, OpenedSeen
    <2>3. OpeningSeen'
      BY <1>2, <1>3, <2>1 DEF SeenInv, OpeningSeen, Opening
    <2>4. FreshText'
      BY <1>3, <2>1 DEF SeenInv, FreshText
    <2> QED
      BY <2>2, <2>3, <2>4 DEF SeenInv
  <1>4. CASE /\ shown = f /\ Unmounts
             /\ open' = open \ {f}
             /\ text' = [text EXCEPT ![f] = None]
    <2>1. \A c \in open' : text'[c] = text[c]
      BY <1>1, <1>4 DEF Shape, EditorShape
    <2> QED
      BY <1>4, <2>1, Bounds, UnmountsSeen
  <1>5. CASE \E g \in (open \ {f}) \cup (IF viaStore THEN {} ELSE Files \ {f}) :
          /\ shown = f
          /\ Shows(g, opened \ {f}, [ver EXCEPT ![f] = 0],
                   IF g \in open THEN start ELSE Outdated(start, g))
          /\ open' = (open \ {f}) \cup {g}
          /\ missed' = missed \cup LostBy(srv') \cup Reopened(g)
          /\ \E t \in IF g \in open THEN {text[g]} ELSE Texts :
               text' = [text EXCEPT ![f] = None, ![g] = t]
    <2>1. PICK g \in Files \ {f} :
          /\ shown = f
          /\ Shows(g, opened \ {f}, [ver EXCEPT ![f] = 0],
                   IF g \in open THEN start ELSE Outdated(start, g))
          /\ open' = (open \ {f}) \cup {g}
          /\ missed' = missed \cup LostBy(srv') \cup Reopened(g)
          /\ \E t \in IF g \in open THEN {text[g]} ELSE Texts :
               text' = [text EXCEPT ![f] = None, ![g] = t]
      BY <1>1, <1>5
    <2> DEFINE sts == IF g \in open THEN start ELSE Outdated(start, g)
    <2>2. sts \in [Slots -> SlotStates] /\ StartShape
      BY OutdatedShape DEF Shape, StartShape
    <2>3. ASSUME NEW s \in Slots, sts[s] # Idle
          PROVE  /\ start[s] # Idle
                 /\ sts[s].pc = start[s].pc /\ sts[s].file = start[s].file
                 /\ sts[s].live = start[s].live
                 /\ ~sts[s].live /\ sts[s].fresh /\ sts[s].file \in open' =>
                      sts[s] = start[s] /\ start[s].file \in open
      <3>1. CASE g \in open
        BY <2>1, <2>3, <3>1
      <3>2. CASE g \notin open
        BY <2>1, <2>2, <2>3, <3>2, OutdatedSame, OutdatedFresh
      <3> QED
        BY <3>1, <3>2
    <2>4. \A c \in open' \cap open : text'[c] = text[c]
      BY <1>1, <2>1 DEF Shape, EditorShape
    <2>5. open' \subseteq Files /\ missed \subseteq missed' /\ opened \ {f} \in SUBSET opened
      BY <1>1, <2>1
    <2>6. \A c \in open' \ missed' :
           (c \in opened \ {f} \/ InFlight(c)) =>
             /\ c \in open /\ doc'[c] = doc[c] /\ ~(timer /\ shown = c)
             /\ c \in opened => c \in opened \ {f}
      BY <1>1, <1>2, <2>1 DEF Reopened
    <2>7. Shows(g, opened \ {f}, [ver EXCEPT ![f] = 0], sts)
      BY <2>1
    <2> HIDE DEF sts
    <2> QED
      BY <2>2, <2>3, <2>4, <2>5, <2>6, <2>7, ShowsSeen
  <1> QED
    BY <1>3, <1>4, <1>5 DEF Remove

LEMMA TypeSeen ==
  ASSUME Shape, LinkInv, SeenInv, NEW t \in Texts, Type(t)
  PROVE  SeenInv'
  <1>1. /\ shown # None /\ shown \in Files
        /\ text' = [text EXCEPT ![shown] = t] /\ timer' = (shown \in opened)
        /\ start' = Outdated(start, shown)
        /\ UNCHANGED <<open, shown, opened, doc>>
    BY DEF Type, serverVars, Shape, EditorShape
  <1>2. /\ missed \subseteq missed'
        /\ (\E s \in Slots : /\ start[s] # Idle /\ start[s].pc = "opening"
                             /\ start[s].file = shown /\ shown \notin opened)
             => shown \in missed'
    BY DEF Type
  <1>3. \A c \in Files : c # shown => text'[c] = text[c]
    BY <1>1 DEF Shape, EditorShape
  <1>4. open \subseteq Files /\ StartShape
    BY DEF Shape, EditorShape
  <1>5. OpenedSeen'
    BY <1>1, <1>2, <1>3, <1>4 DEF SeenInv, OpenedSeen
  <1>6. OpeningSeen'
    <2> SUFFICES ASSUME NEW s \in Slots, NEW f \in open \ (opened \cup missed'),
                        Opening(s, f)'
                 PROVE  doc[f] # None /\ doc[f].text = text'[f]
      BY <1>1 DEF OpeningSeen
    <2>1. Opening(s, f)
      BY <1>1, <1>4, OutdatedSame DEF Opening
    <2>2. f # shown
      BY <1>2, <2>1 DEF Opening
    <2> QED
      BY <1>2, <1>3, <1>4, <2>1, <2>2 DEF SeenInv, OpeningSeen
  <1>7. FreshText'
    <2> SUFFICES ASSUME NEW s \in Slots, start'[s] # Idle, ~start'[s].live,
                        start'[s].fresh, start'[s].file \in open
                 PROVE  start'[s].text = text'[start'[s].file]
      BY <1>1 DEF FreshText
    <2>1. start'[s] = start[s] /\ start[s].file # shown
      BY <1>1, <1>4, OutdatedFresh
    <2> QED
      BY <1>3, <1>4, <2>1 DEF SeenInv, FreshText
  <1> QED
    BY <1>5, <1>6, <1>7 DEF SeenInv

LEMMA TimerFiresSeen ==
  ASSUME Shape, LinkInv, SeenInv, TimerFires
  PROVE  SeenInv'
  <1>1. timer /\ UNCHANGED <<open, shown, text, opened, start>>
    BY DEF TimerFires
  <1>2. shown \in Files /\ shown \in opened /\ shown \in open
    BY <1>1, NextVersionShape DEF Shape, LinkInv, TimerOfOpened
  <1>3. \A c \in Files \ {shown} : doc'[c] = doc[c] /\ (c \in missed => c \in missed')
    BY <1>2 DEF TimerFires, Shape, ServerShape
  <1>4. shown \in missed' \/ (doc'[shown] # None /\ doc'[shown].text = text[shown])
    <2>1. CASE Served(srv) /\ doc[shown] # None
      <3>1. doc'[shown] = [ver |-> NextVersion, text |-> text[shown]]
        BY <1>2, <2>1 DEF TimerFires, NextVersion, Shape, ServerShape
      <3>2. NextVersion \in Nat /\ text[shown] \in Texts
        BY <1>1, <1>2, NextVersionShape, Bounds DEF Shape, EditorShape, TextOfOpen
      <3> QED
        BY <3>1, <3>2, ConstantsAssumption
    <2>2. CASE Served(srv) /\ doc[shown] = None
      BY <1>2, <2>2 DEF TimerFires, SeenInv, OpenedSeen
    <2>3. CASE ~Served(srv)
      BY <2>3 DEF TimerFires
    <2> QED
      BY <2>1, <2>2, <2>3
  <1>5. open \subseteq Files
    BY DEF Shape, EditorShape
  <1>6. OpenedSeen'
    BY <1>1, <1>3, <1>4, <1>5 DEF SeenInv, OpenedSeen
  <1>7. OpeningSeen'
    BY <1>1, <1>2, <1>3, <1>5 DEF SeenInv, OpeningSeen, Opening
  <1>8. FreshText'
    BY <1>1 DEF SeenInv, FreshText
  <1> QED
    BY <1>6, <1>7, <1>8 DEF SeenInv

(* A start moves on without the server hearing of it.                      *)
LEMMA QuietStepSeen ==
  ASSUME Shape, SeenInv, NEW s \in Slots, start[s] # Idle,
         UNCHANGED <<open, shown, text, opened, timer, doc, missed>>,
         \A r \in Slots \ {s} : start'[r] = start[r],
         \/ start'[s] = Idle
         \/ /\ start'[s].pc # "opening"
            /\ start'[s].file = start[s].file /\ start'[s].live = start[s].live
            /\ start'[s].text = start[s].text /\ start'[s].fresh = start[s].fresh
  PROVE  SeenInv'
  <1>1. OpenedSeen'
    BY DEF SeenInv, OpenedSeen
  <1>2. OpeningSeen'
    <2>1. \A r \in Slots, f \in Files : Opening(r, f)' => Opening(r, f)
      BY DEF Opening
    <2> QED
      BY <2>1 DEF SeenInv, OpeningSeen, Shape, EditorShape
  <1>3. FreshText'
    BY DEF SeenInv, FreshText
  <1> QED
    BY <1>1, <1>2, <1>3 DEF SeenInv

LEMMA AllMissedSeen ==
  ASSUME Shape, missed' = Files, UNCHANGED <<open, text>>,
         \A s \in Slots : start'[s] # Idle =>
           /\ start[s] # Idle /\ start'[s].file = start[s].file
           /\ start'[s].live = start[s].live /\ start'[s].text = start[s].text
           /\ start'[s].fresh = start[s].fresh,
         SeenInv
  PROVE  SeenInv'
  <1>1. FreshText'
    BY DEF SeenInv, FreshText
  <1> QED
    BY <1>1 DEF SeenInv, OpenedSeen, OpeningSeen, Shape, EditorShape

LEMMA SlotStep ==
  ASSUME Shape, NEW s \in Slots, start[s] # Idle, NEW p \in Pcs,
         start' = [start EXCEPT ![s].pc = p]
  PROVE  /\ \A r \in Slots \ {s} : start'[r] = start[r]
         /\ start'[s].pc = p
         /\ start'[s].file = start[s].file /\ start'[s].live = start[s].live
         /\ start'[s].text = start[s].text /\ start'[s].fresh = start[s].fresh
  <1>1. start \in [Slots -> SlotStates] /\ start[s] \in Starts
    BY DEF Shape, StartShape, SlotStates
  <1> QED
    BY <1>1 DEF Starts

LEMMA LookupSeen ==
  ASSUME Shape, SeenInv, NEW s \in Slots, start[s] # Idle, Lookup(s)
  PROVE  SeenInv'
  <1>1. PICK p \in {"started", "spawn"} : start' = [start EXCEPT ![s].pc = p]
    BY DEF Lookup
  <1>2. UNCHANGED <<open, shown, text, opened, timer, doc, missed>>
    BY DEF Lookup, editorVars
  <1> QED
    BY <1>1, <1>2, SlotStep, QuietStepSeen DEF Pcs

LEMMA SpawnedSeen ==
  ASSUME Shape, LinkInv, SeenInv, NEW s \in Slots, start[s] # Idle, Spawned(s)
  PROVE  SeenInv'
  <1>1. start' = [start EXCEPT ![s].pc = "started"]
    BY DEF Spawned
  <1>2. UNCHANGED <<open, shown, text, opened, timer>> /\ doc' = NoDocuments
    BY DEF Spawned, editorVars
  <1>3. CASE srv.up
    BY <1>1, <1>2, <1>3, SlotStep, AllMissedSeen DEF Spawned, Pcs
  <1>4. CASE ~srv.up
    <2>1. doc' = doc /\ missed' = missed
      BY <1>2, <1>4 DEF Spawned, LinkInv, NoneServed
    <2>2. /\ \A r \in Slots \ {s} : start'[r] = start[r]
          /\ start'[s].pc # "opening"
          /\ start'[s].file = start[s].file /\ start'[s].live = start[s].live
          /\ start'[s].text = start[s].text /\ start'[s].fresh = start[s].fresh
      BY <1>1, SlotStep DEF Pcs
    <2> QED
      BY <1>2, <2>1, <2>2, QuietStepSeen
  <1> QED
    BY <1>3, <1>4

LEMMA SpawnFailsSeen ==
  ASSUME Shape, SeenInv, NEW s \in Slots, start[s] # Idle, SpawnFails(s) \/ Repair(s)
  PROVE  SeenInv'
  <1>1. UNCHANGED <<open, shown, text, opened, timer, doc, missed>>
    BY DEF SpawnFails, Repair, editorVars, serverVars
  <1>2. start \in [Slots -> SlotStates] /\ start[s] \in Starts
    BY DEF Shape, StartShape, SlotStates
  <1>3. CASE start' = [start EXCEPT ![s] = Idle]
    BY <1>1, <1>2, <1>3, QuietStepSeen
  <1>4. CASE start' = [start EXCEPT ![s].pc = "repair"]
    <2>1. /\ \A r \in Slots \ {s} : start'[r] = start[r]
          /\ start'[s].pc # "opening"
          /\ start'[s].file = start[s].file /\ start'[s].live = start[s].live
          /\ start'[s].text = start[s].text /\ start'[s].fresh = start[s].fresh
      BY <1>4, SlotStep DEF Pcs
    <2> QED
      BY <1>1, <2>1, QuietStepSeen
  <1>5. CASE start' = [start EXCEPT ![s].pc = "start", ![s].repaired = TRUE]
    <2>1. /\ start'[s].pc = "start"
          /\ start'[s].file = start[s].file /\ start'[s].live = start[s].live
          /\ start'[s].text = start[s].text /\ start'[s].fresh = start[s].fresh
          /\ \A r \in Slots \ {s} : start'[r] = start[r]
      BY <1>2, <1>5 DEF Starts
    <2> QED
      BY <1>1, <2>1, QuietStepSeen
  <1> QED
    BY <1>3, <1>4, <1>5 DEF SpawnFails, Repair

LEMMA OpenSentSeen ==
  ASSUME Shape, SeenInv, NEW s \in Slots, start[s] # Idle, OpenSent(s)
  PROVE  SeenInv'
  <1> DEFINE f == start[s].file
             sent == IF start[s].live THEN text[shown] ELSE start[s].text
             own == IF start[s].live THEN shown = f ELSE start[s].fresh
  <1>1. /\ start' = [start EXCEPT ![s].pc = "opening"]
        /\ UNCHANGED <<open, shown, text, opened, timer>>
    BY DEF OpenSent, editorVars
  <1>2. start \in [Slots -> SlotStates] /\ start[s] \in Starts /\ f \in Files
    BY DEF Shape, StartShape, SlotStates, Starts
  <1>3. \/ /\ doc' = [doc EXCEPT ![f] = [ver |-> 1, text |-> sent]]
           /\ missed' = IF own THEN missed \ {f} ELSE missed \cup {f}
        \/ missed' = missed \cup {f} /\ doc' = doc
    BY DEF OpenSent
  <1>4. \A c \in Files \ {f} : doc'[c] = doc[c] /\ (c \in missed => c \in missed')
    BY <1>2, <1>3 DEF Shape, ServerShape
  <1>5. f \in open /\ f \notin missed' => doc'[f] # None /\ doc'[f].text = text[f]
    <2> SUFFICES ASSUME f \in open, f \notin missed'
                 PROVE  doc'[f] # None /\ doc'[f].text = text[f]
      OBVIOUS
    <2>1. own /\ doc' = [doc EXCEPT ![f] = [ver |-> 1, text |-> sent]]
      BY <1>3
    <2>2. sent = text[f]
      BY <2>1 DEF SeenInv, FreshText
    <2>3. doc'[f] = [ver |-> 1, text |-> text[f]]
      BY <1>2, <2>1, <2>2 DEF Shape, ServerShape
    <2>4. text[f] \in Texts \cup {None} /\ 1 \in Nat
      BY <1>2 DEF Shape, EditorShape
    <2> HIDE DEF f
    <2> QED
      BY <2>3, <2>4, ConstantsAssumption
  <1>6. open \subseteq Files
    BY DEF Shape, EditorShape
  <1>7. /\ \A r \in Slots \ {s} : start'[r] = start[r]
        /\ start'[s].file = f /\ start'[s].live = start[s].live
        /\ start'[s].text = start[s].text /\ start'[s].fresh = start[s].fresh
    BY <1>1, SlotStep DEF Pcs, f
  <1> HIDE DEF f, sent, own
  <1>8. OpenedSeen'
    BY <1>1, <1>4, <1>5, <1>6 DEF SeenInv, OpenedSeen
  <1>9. OpeningSeen'
    <2> SUFFICES ASSUME NEW r \in Slots, NEW c \in open \ (opened \cup missed'),
                        Opening(r, c)'
                 PROVE  doc'[c] # None /\ doc'[c].text = text[c]
      BY <1>1 DEF OpeningSeen
    <2>1. CASE c = f
      BY <1>5, <2>1
    <2>2. CASE c # f
      <3>1. r # s
        BY <1>7, <2>2 DEF Opening
      <3>2. Opening(r, c)
        BY <1>7, <3>1 DEF Opening
      <3> QED
        BY <1>4, <1>6, <2>2, <3>2 DEF SeenInv, OpeningSeen
    <2> QED
      BY <2>1, <2>2
  <1>10. FreshText'
    BY <1>1, <1>7 DEF SeenInv, FreshText, f
  <1> QED
    BY <1>8, <1>9, <1>10 DEF SeenInv

LEMMA OpenReturnsSeen ==
  ASSUME Shape, SeenInv, NEW s \in Slots, start[s] # Idle, OpenReturns(s)
  PROVE  SeenInv'
  <1>1. /\ UNCHANGED <<open, shown, text, timer, doc, missed>>
        /\ start' = [start EXCEPT ![s] = Idle]
    BY DEF OpenReturns, serverVars
  <1>2. start \in [Slots -> SlotStates]
    BY DEF Shape, StartShape
  <1>3. \/ opened' = opened
        \/ opened' = opened \cup {start[s].file} /\ Opening(s, start[s].file)
    BY DEF OpenReturns, Opening
  <1>4. OpenedSeen'
    BY <1>1, <1>3 DEF SeenInv, OpenedSeen, OpeningSeen
  <1>5. OpeningSeen'
    <2>1. \A r \in Slots, f \in open : Opening(r, f)' => Opening(r, f)
      BY <1>1, <1>2 DEF Opening
    <2> QED
      BY <1>1, <1>3, <2>1 DEF SeenInv, OpeningSeen
  <1>6. FreshText'
    BY <1>1, <1>2 DEF SeenInv, FreshText
  <1> QED
    BY <1>4, <1>5, <1>6 DEF SeenInv

LEMMA RestartSeen ==
  ASSUME Shape, LinkInv, SeenInv, NEW f \in Files, NEW s \in Slots, Restart(f, s)
  PROVE  SeenInv'
  <1>1. /\ UNCHANGED <<open, shown, text, opened, timer>> /\ start[s] = Idle
        /\ start' = [start EXCEPT ![s] = Restarted(f, text[f])]
        /\ missed' = missed \cup {f} \cup LostBy(srv')
    BY DEF Restart, editorVars
  <1>2. doc' = Kept(srv', doc) \/ doc' = Kept(srv', [doc EXCEPT ![f] = None])
    BY DEF Restart
  <1>3. \A c \in Files \ missed' : doc'[c] = doc[c] /\ c \notin missed
    <2> SUFFICES ASSUME NEW c \in Files \ missed' PROVE doc'[c] = doc[c] /\ c \notin missed
      OBVIOUS
    <2>1. c # f /\ c \notin LostBy(srv') /\ c \notin missed
      BY <1>1
    <2>2. [doc EXCEPT ![f] = None][c] = doc[c]
      BY <2>1 DEF Shape, ServerShape
    <2> QED
      BY <1>2, <2>1, <2>2, KeptOrLost
  <1>4. start \in [Slots -> SlotStates] /\ open \subseteq Files
    BY DEF Shape, StartShape, EditorShape
  <1>5. /\ \A r \in Slots \ {s} : start'[r] = start[r]
        /\ start'[s] = Restarted(f, text[f])
    BY <1>1, <1>4
  <1>6. /\ Restarted(f, text[f]).live = FALSE /\ Restarted(f, text[f]).text = text[f]
        /\ Restarted(f, text[f]).file = f
    BY DEF Restarted, Start
  <1>7. OpenedSeen'
    BY <1>1, <1>3, <1>4 DEF SeenInv, OpenedSeen
  <1>8. OpeningSeen'
    <2>1. \A r \in Slots, c \in open : Opening(r, c)' => Opening(r, c)
      BY <1>5, <1>6 DEF Opening
    <2> QED
      BY <1>1, <1>3, <1>4, <2>1 DEF SeenInv, OpeningSeen
  <1>9. FreshText'
    BY <1>1, <1>5, <1>6 DEF SeenInv, FreshText
  <1> QED
    BY <1>7, <1>8, <1>9 DEF SeenInv

LEMMA ServerExitsSeen ==
  ASSUME Shape, SeenInv, ServerExits
  PROVE  SeenInv'
  BY AllMissedSeen DEF ServerExits, editorVars

LEMMA NextSeen == Shape /\ LinkInv /\ SeenInv /\ [Next]_vars => SeenInv'
  <1> SUFFICES ASSUME Shape, LinkInv, SeenInv, [Next]_vars PROVE SeenInv'
    OBVIOUS
  <1>1. CASE EditorStep
    <2>1. CASE Hide
      <3>1. shown # None /\ Unmounts /\ open' = open /\ text' = text
        BY <2>1 DEF Hide
      <3> QED
        BY <3>1, UnmountsSeen
    <2> QED
      BY <1>1, <2>1, SelectSeen, OpenFileSeen, RemoveSeen, TypeSeen, TimerFiresSeen
      DEF EditorStep
  <1>2. ASSUME NEW s \in Slots, start[s] # Idle, StartStep(s) PROVE SeenInv'
    BY <1>2, LookupSeen, SpawnedSeen, SpawnFailsSeen, OpenSentSeen, OpenReturnsSeen
    DEF StartStep
  <1>3. ASSUME NEW f \in Files, NEW s \in Slots, Restart(f, s) PROVE SeenInv'
    BY <1>3, RestartSeen
  <1>4. CASE ServerExits
    BY <1>4, ServerExitsSeen
  <1>5. CASE UNCHANGED vars
    BY <1>5 DEF vars, editorVars, serverVars, SeenInv, OpenedSeen, OpeningSeen, Opening,
                FreshText
  <1> QED
    BY <1>1, <1>2, <1>3, <1>4, <1>5 DEF Next

LEMMA InitSeen == Init => SeenInv
  BY DEF Init, SeenInv, OpenedSeen, OpeningSeen, FreshText

(* What a document's text is to the buffer's, in every state, for documents*)
(* that count as open, that are being opened, and for starts with a text.  *)
THEOREM SeenInvHolds == Spec => [](Shape /\ LinkInv /\ SeenInv)
  <1> QED
    BY InitShape, InitLink, InitSeen, NextShape, NextLink, NextSeen, PTL DEF Spec

(* Of the file shown, once it counts as open, with no change waiting and no*)
(* edit missed, the server has the very text.                              *)
THEOREM ServerSeesShownHolds == Spec => []ServerSeesShown
  <1>1. Shape /\ SeenInv => ServerSeesShown
    <2> SUFFICES ASSUME Shape, SeenInv, shown \in opened, ~timer, shown \notin missed
                 PROVE  doc[shown] # None /\ doc[shown].text = text[shown]
      BY DEF ServerSeesShown
    <2>1. shown \in open
      BY Bounds DEF Shape, EditorShape
    <2> QED
      BY <2>1 DEF SeenInv, OpenedSeen
  <1> QED
    BY <1>1, SeenInvHolds, PTL

-----------------------------------------------------------------------------
(* The server of this module is one entry of the table: it implements      *)
(* ServerEntry, as every key of the table of LspServers does.              *)
Entry == INSTANCE ServerEntry WITH entry <- srv

LEMMA StoppedEntry ==
  ASSUME Shape, NEW f \in Files, srv' = Stopped(srv, f)
  PROVE  [Entry!Next]_srv
  <1>1. srv \in Servers /\ Counted(srv)
    BY DEF Shape, ServerShape
  <1>2. CASE f \notin srv.files
    BY <1>2 DEF Stopped
  <1>3. CASE f \in srv.files
    <2>1. srv.up
      BY <1>1, <1>3 DEF Counted, Down
    <2>2. CASE srv.refs = 1
      BY <1>3, <2>1, <2>2 DEF Stopped, Down, Entry!Absent, Entry!Next, Entry!Release
    <2>3. CASE srv.refs # 1
      <3>1. srv' = [srv EXCEPT !.refs = @ - 1, !.files = @ \ {f}]
        BY <1>3, <2>3 DEF Stopped
      <3>2. srv' = Entry!Serving(srv.refs - 1, srv.files \ {f})
        BY <1>1, <2>1, <3>1 DEF Servers, Entry!Serving
      <3> QED
        BY <1>3, <2>1, <2>3, <3>2 DEF Entry!Next, Entry!Release
    <2> QED
      BY <2>2, <2>3
  <1> QED
    BY <1>2, <1>3

LEMMA LookupEntry ==
  ASSUME Shape, NEW s \in Slots, start[s] # Idle, Lookup(s)
  PROVE  [Entry!Next]_srv
  <1>1. start[s].file \in Files
    BY DEF Shape, StartShape, SlotStates, Starts
  <1>2. CASE srv.up
    <2>1. srv \in Servers
      BY DEF Shape, ServerShape
    <2>2. srv' = [srv EXCEPT !.refs = @ + 1, !.files = @ \cup {start[s].file}]
      BY <1>2 DEF Lookup
    <2>3. srv' = Entry!Serving(srv.refs + 1, srv.files \cup {start[s].file})
      BY <1>2, <2>1, <2>2 DEF Servers, Entry!Serving
    <2> QED
      BY <1>1, <1>2, <2>3 DEF Entry!Next, Entry!Track
  <1>3. CASE ~srv.up
    BY <1>3 DEF Lookup
  <1> QED
    BY <1>2, <1>3

LEMMA SpawnedEntry ==
  ASSUME Shape, NEW s \in Slots, start[s] # Idle, Spawned(s)
  PROVE  [Entry!Next]_srv
  <1>1. start[s].file \in Files
    BY DEF Shape, StartShape, SlotStates, Starts
  <1>2. srv' = Entry!Serving(1, {start[s].file})
    BY DEF Spawned, Entry!Serving
  <1> QED
    BY <1>1, <1>2 DEF Entry!Next, Entry!Enter

LEMMA NextEntry ==
  ASSUME Shape, [Next]_vars
  PROVE  [Entry!Next]_srv
  <1>1. CASE srv' = srv
    BY <1>1
  <1>2. ASSUME NEW f \in Files, NEW viaStore \in BOOLEAN, NEW storeFirst \in BOOLEAN,
               Remove(f, viaStore, storeFirst)
        PROVE  [Entry!Next]_srv
    <2>1. srv' = srv \/ srv' = Stopped(srv, f)
      BY <1>2 DEF Remove, Released
    <2> QED
      BY <2>1, StoppedEntry
  <1>3. ASSUME NEW s \in Slots, start[s] # Idle, StartStep(s)
        PROVE  [Entry!Next]_srv
    BY <1>1, <1>3, LookupEntry, SpawnedEntry
    DEF StartStep, SpawnFails, Repair, OpenSent, OpenReturns, serverVars
  <1>4. ASSUME NEW f \in Files, NEW s \in Slots, Restart(f, s)
        PROVE  [Entry!Next]_srv
    BY <1>4, StoppedEntry DEF Restart
  <1>5. CASE ServerExits
    BY <1>5 DEF ServerExits, Down, Entry!Next, Entry!Leave, Entry!Absent
  <1>6. CASE EditorStep
    BY <1>1, <1>2, <1>6
    DEF EditorStep, Select, OpenFile, Hide, Type, TimerFires, serverVars
  <1> QED
    BY <1>1, <1>3, <1>4, <1>5, <1>6 DEF Next, vars, serverVars

(* Whatever the editor and its starts do, the one server of this module is *)
(* to the files what ServerEntry says, as each entry of the table of       *)
(* LspServers is (TableImplementsEntry there).                             *)
THEOREM ServerImplementsEntry == Spec => Entry!Spec
  <1>1. Init => Entry!Init
    BY DEF Init, Down, Entry!Init, Entry!Absent
  <1>2. Shape /\ [Next]_vars => [Entry!Next]_srv
    BY NextEntry
  <1> QED
    BY <1>1, <1>2, ShapeHolds, PTL DEF Spec, Entry!Spec

=============================================================================
