------------------------- MODULE LspServers_proofs --------------------------
(***************************************************************************)
(* The invariants of LspServers, for any number of files, keys and         *)
(* processes.  Inv is inductive as it stands: the kills need OneOwner, and *)
(* OneOwner needs that the next process is new.                            *)
(***************************************************************************)
EXTENDS LspServers, FiniteSetTheorems, TLAPS

Inv == TypeOK /\ OneOwner /\ CountCoversFiles /\ NoOtherOrphans

-----------------------------------------------------------------------------
(* Pruning only removes instances, and the ones that stay are running.     *)
LEMMA PrunedFacts ==
  ASSUME TypeOK
  PROVE  /\ Pruned \in [Keys -> Instance \cup {None}]
         /\ Held(Pruned) \subseteq Held(clients)
         /\ \A k \in Held(Pruned) : /\ Pruned[k] = clients[k]
                                    /\ Pruned[k] \in Instance
                                    /\ Pruned[k].proc \in running
  BY DEF TypeOK, Pruned, Held

(* What pruning drops belongs to the table, and to no key that stays.      *)
LEMMA PruneOrphansFacts ==
  ASSUME TypeOK, OneOwner
  PROVE  /\ PruneOrphans \subseteq ProcsIn(clients)
         /\ ProcsIn(Pruned) \subseteq ProcsIn(clients)
         /\ ProcsIn(clients) = ProcsIn(Pruned) \cup PruneOrphans
         /\ PruneOrphans \cap ProcsIn(Pruned) = {}
  BY PrunedFacts DEF PruneOrphans, ProcsIn

(* An instance is not null.                                                *)
LEMMA ServingFacts ==
  ASSUME NEW p \in Procs, NEW n \in Nat, NEW fs \in SUBSET Files
  PROVE  /\ Serving(p, n, fs) \in Instance
         /\ Serving(p, n, fs) # None
         /\ Serving(p, n, fs).proc = p
         /\ Serving(p, n, fs).ref = n
         /\ Serving(p, n, fs).files = fs
  BY NoneAssumption DEF Serving, Instance

(* One file more, or one less, in what an instance tracks.                 *)
LEMMA FileCount ==
  ASSUME NEW fs \in SUBSET Files, NEW f \in Files, NEW n \in Nat,
         Cardinality(fs) <= n
  PROVE  /\ Cardinality(fs \cup {f}) <= n + 1
         /\ f \in fs => Cardinality(fs \ {f}) <= n - 1
  <1>1. IsFiniteSet(fs)
    BY ConstantsAssumption, FS_Subset
  <1>2. Cardinality(fs) \in Nat
    BY <1>1, FS_CardinalityType
  <1>3. Cardinality(fs \cup {f}) = IF f \in fs THEN Cardinality(fs) ELSE Cardinality(fs) + 1
    BY <1>1, FS_AddElement
  <1>4. Cardinality(fs \ {f}) = IF f \in fs THEN Cardinality(fs) - 1 ELSE Cardinality(fs)
    BY <1>1, FS_RemoveElement
  <1> QED BY <1>2, <1>3, <1>4

(* Tracking a file changes no process and covers the file.                 *)
LEMMA TrackFacts ==
  ASSUME NEW c \in [Keys -> Instance \cup {None}],
         NEW k \in Held(c), NEW f \in Files
  PROVE  /\ Track(c, k, f) \in [Keys -> Instance \cup {None}]
         /\ Held(Track(c, k, f)) = Held(c)
         /\ \A j \in Held(c) : Track(c, k, f)[j].proc = c[j].proc
         /\ \A j \in Held(c) \ {k} : Track(c, k, f)[j] = c[j]
         /\ Track(c, k, f)[k].ref = c[k].ref + 1
         /\ Track(c, k, f)[k].files = c[k].files \cup {f}
  <1> DEFINE new == Serving(c[k].proc, c[k].ref + 1, c[k].files \cup {f})
  <1>1. k \in Keys /\ c[k].proc \in Procs /\ c[k].ref \in Nat /\ c[k].files \in SUBSET Files
    BY DEF Held, Instance
  <1>2. /\ new \in Instance /\ new # None /\ new.proc = c[k].proc
        /\ new.ref = c[k].ref + 1 /\ new.files = c[k].files \cup {f}
    BY <1>1, ServingFacts
  <1>3. Track(c, k, f) = [c EXCEPT ![k] = new]
    BY DEF Track
  <1> HIDE DEF new
  <1> QED BY <1>1, <1>2, <1>3 DEF Held

(* Releasing a file either takes the key out of the table, or keeps its    *)
(* process and lowers its count by one.                                    *)
LEMMA ReleasedFacts ==
  ASSUME NEW c \in [Keys -> Instance \cup {None}],
         NEW k \in Held(c), NEW f \in Files
  PROVE  /\ Released(c, k, f) \in [Keys -> Instance \cup {None}]
         /\ \A j \in Held(c) \ {k} : Released(c, k, f)[j] = c[j]
         /\ Held(Released(c, k, f)) \ {k} = Held(c) \ {k}
         /\ Released(c, k, f)[k] = None => c[k].ref <= 1
         /\ Released(c, k, f)[k] # None =>
              /\ Released(c, k, f)[k].proc = c[k].proc
              /\ Released(c, k, f)[k].ref = c[k].ref - 1
              /\ Released(c, k, f)[k].files = c[k].files \ {f}
  <1> DEFINE new == Serving(c[k].proc, c[k].ref - 1, c[k].files \ {f})
  <1>1. k \in Keys /\ c[k].proc \in Procs /\ c[k].ref \in Nat /\ c[k].files \in SUBSET Files
    BY DEF Held, Instance
  <1>2. CASE c[k].ref <= 1
    <2>0. Fewer(c[k].ref) = 0
      BY <1>1, <1>2 DEF Fewer
    <2>1. Released(c, k, f) = [c EXCEPT ![k] = None]
      BY <2>0 DEF Released
    <2> QED BY <1>1, <1>2, <2>1 DEF Held
  <1>3. CASE c[k].ref > 1
    <2>0. Fewer(c[k].ref) = c[k].ref - 1 /\ Fewer(c[k].ref) # 0
      BY <1>1, <1>3 DEF Fewer
    <2>1. Released(c, k, f) = [c EXCEPT ![k] = new]
      BY <2>0 DEF Released
    <2>2. /\ new \in Instance /\ new # None /\ new.proc = c[k].proc
          /\ new.ref = c[k].ref - 1 /\ new.files = c[k].files \ {f}
      BY <1>1, <1>3, ServingFacts
    <2> HIDE DEF new
    <2> QED BY <1>1, <1>3, <2>1, <2>2 DEF Held
  <1> QED BY <1>1, <1>2, <1>3

-----------------------------------------------------------------------------
LEMMA InitInv == Init => Inv
  BY ConstantsAssumption DEF Init, Inv, TypeOK, OneOwner, CountCoversFiles,
     NoOtherOrphans, Held, ProcsIn, Awaited, Procs, Instance

(* A step that leaves the table, up to pruning, and only moves what pruning *)
(* drops to the orphans.                                                   *)
LEMMA LookupInv ==
  ASSUME Inv, Lookup
  PROVE  Inv'
  <1> USE DEF Lookup, Orphan
  <1>1. TypeOK'
    BY PrunedFacts DEF Inv, TypeOK
  <1>2. OneOwner'
    BY PrunedFacts, PruneOrphansFacts DEF Inv, TypeOK, OneOwner, ProcsIn
  <1>3. CountCoversFiles'
    BY PrunedFacts DEF Inv, CountCoversFiles
  <1>4. NoOtherOrphans'
    BY PruneOrphansFacts DEF Inv, NoOtherOrphans
  <1> QED BY <1>1, <1>2, <1>3, <1>4 DEF Inv

LEMMA StartReusesInv ==
  ASSUME Inv, NEW f \in Files, NEW k \in Keys, StartReuses(f, k)
  PROVE  Inv'
  <1> USE DEF StartReuses, Orphan
  <1>1. /\ Pruned \in [Keys -> Instance \cup {None}]
        /\ k \in Held(Pruned)
    BY PrunedFacts DEF Inv, Held
  <1>2. /\ clients' \in [Keys -> Instance \cup {None}]
        /\ Held(clients') = Held(Pruned)
        /\ \A j \in Held(Pruned) : clients'[j].proc = Pruned[j].proc
        /\ \A j \in Held(Pruned) \ {k} : clients'[j] = Pruned[j]
        /\ clients'[k].ref = Pruned[k].ref + 1
        /\ clients'[k].files = Pruned[k].files \cup {f}
    BY <1>1, TrackFacts
  <1>3. ProcsIn(clients') = ProcsIn(Pruned)
    BY <1>2 DEF ProcsIn
  <1>4. TypeOK'
    BY <1>2 DEF Inv, TypeOK
  <1>5. OneOwner'
    BY <1>2, <1>3, PrunedFacts, PruneOrphansFacts DEF Inv, TypeOK, OneOwner
  <1>6. CountCoversFiles'
    <2>1. SUFFICES ASSUME NEW j \in Held(Pruned)
                   PROVE  Cardinality(clients'[j].files) <= clients'[j].ref
      BY <1>2 DEF CountCoversFiles
    <2>2. Cardinality(Pruned[j].files) <= Pruned[j].ref
      BY PrunedFacts DEF Inv, CountCoversFiles
    <2>3. CASE j # k
      BY <1>2, <2>2, <2>3
    <2>4. CASE j = k
      <3>1. Pruned[k].files \in SUBSET Files /\ Pruned[k].ref \in Nat
        BY <1>1, PrunedFacts DEF Inv, Instance
      <3>2. Cardinality(Pruned[k].files \cup {f}) <= Pruned[k].ref + 1
        BY <2>2, <2>4, <3>1, FileCount
      <3> QED BY <1>2, <2>4, <3>2
    <2> QED BY <2>3, <2>4
  <1>7. NoOtherOrphans'
    BY <1>3, PruneOrphansFacts DEF Inv, NoOtherOrphans
  <1> QED BY <1>4, <1>5, <1>6, <1>7 DEF Inv

(* Owners are processes, and processes are numbers.                        *)
LEMMA OwnersTyped ==
  ASSUME TypeOK
  PROVE  /\ ProcsIn(clients) \subseteq Procs
         /\ Awaited(starting) \subseteq Procs
         /\ alive \subseteq Procs
         /\ orphaned \subseteq alive
         /\ Procs \subseteq Nat
         /\ nextProc \in Nat
  <1>1. ProcsIn(clients) \subseteq Procs
    BY DEF TypeOK, ProcsIn, Held, Instance
  <1>2. Awaited(starting) \subseteq Procs
    BY DEF TypeOK, Awaited, Start
  <1>3. Procs \subseteq Nat /\ nextProc \in Nat
    BY ConstantsAssumption DEF TypeOK, Procs
  <1> QED BY <1>1, <1>2, <1>3 DEF TypeOK

(* A spawned process is new: it joins the awaited ones and no one else has *)
(* it.                                                                     *)
LEMMA SpawnFacts ==
  ASSUME Inv, NEW k \in Keys, NEW g \in Files \cup {None}, Spawn(k, g)
  PROVE  /\ starting' \in SUBSET Start /\ starting \subseteq starting'
         /\ alive' \in SUBSET Procs /\ running' \in SUBSET alive'
         /\ nextProc' \in 1 .. MaxProcs + 1
         /\ Awaited(starting') = Awaited(starting) \cup {nextProc}
         /\ alive' = alive \cup {nextProc}
         /\ nextProc \notin ProcsIn(clients) \cup Awaited(starting) \cup alive
         /\ \A t, u \in starting' : t.proc = u.proc => t = u
         /\ \A p \in ProcsIn(clients) \cup Awaited(starting') \cup alive' : p < nextProc'
  <1> DEFINE s == [proc |-> nextProc, key |-> k, file |-> g]
  <1>1. /\ starting' = starting \cup {s} /\ s.proc = nextProc
        /\ nextProc \in Procs /\ nextProc' = nextProc + 1
        /\ alive' = alive \cup {nextProc} /\ running' = running \cup {nextProc}
    BY DEF Spawn
  <1>2. s \in Start
    BY <1>1 DEF Start
  <1>3. Awaited(starting') = Awaited(starting) \cup {nextProc}
    <2> HIDE DEF s
    <2> QED BY <1>1 DEF Awaited
  <1>4. nextProc \notin ProcsIn(clients) \cup Awaited(starting) \cup alive
    BY OwnersTyped DEF Inv, OneOwner
  <1>5. \A t, u \in starting' : t.proc = u.proc => t = u
    <2> HIDE DEF s
    <2> QED BY <1>1, <1>4 DEF Inv, OneOwner, Awaited
  <1>6. \A p \in ProcsIn(clients) \cup Awaited(starting') \cup alive' : p < nextProc'
    <2>1. \A p \in ProcsIn(clients) \cup Awaited(starting) \cup alive : p \in Nat /\ p < nextProc
      BY OwnersTyped DEF Inv, OneOwner
    <2>2. nextProc \in Nat
      BY OwnersTyped DEF Inv
    <2> QED BY <1>1, <1>3, <2>1, <2>2
  <1>7. nextProc' \in 1 .. MaxProcs + 1
    BY <1>1, ConstantsAssumption DEF Procs
  <1>8. alive' \in SUBSET Procs /\ running' \in SUBSET alive'
    BY <1>1 DEF Inv, TypeOK
  <1>9. starting' \in SUBSET Start /\ starting \subseteq starting'
    BY <1>1, <1>2 DEF Inv, TypeOK
  <1> QED BY <1>1, <1>3, <1>4, <1>5, <1>6, <1>7, <1>8, <1>9

LEMMA StartSpawnsInv ==
  ASSUME Inv, NEW f \in Files, NEW k \in Keys, StartSpawns(f, k)
  PROVE  Inv'
  <1> USE DEF StartSpawns, Orphan
  <1>1. Spawn(k, f)
    OBVIOUS
  <1>2. TypeOK'
    BY <1>1, SpawnFacts, PrunedFacts DEF Inv, TypeOK
  <1>3. OneOwner'
    <2>1. \A j, l \in Held(clients') : clients'[j].proc = clients'[l].proc => j = l
      BY PrunedFacts DEF Inv, OneOwner
    <2>2. ProcsIn(clients') \cap Awaited(starting') = {}
      BY <1>1, SpawnFacts, PruneOrphansFacts DEF Inv, OneOwner
    <2>3. orphaned' \cap (ProcsIn(clients') \cup Awaited(starting')) = {}
      BY <1>1, SpawnFacts, PruneOrphansFacts DEF Inv, TypeOK, OneOwner
    <2>4. \A p \in ProcsIn(clients') \cup Awaited(starting') \cup alive' : p < nextProc'
      BY <1>1, SpawnFacts, PruneOrphansFacts DEF Inv
    <2> QED BY <1>1, SpawnFacts, <2>1, <2>2, <2>3, <2>4 DEF OneOwner
  <1>4. CountCoversFiles'
    BY PrunedFacts DEF Inv, CountCoversFiles
  <1>5. NoOtherOrphans'
    BY <1>1, SpawnFacts, PruneOrphansFacts DEF Inv, NoOtherOrphans
  <1> QED BY <1>2, <1>3, <1>4, <1>5 DEF Inv

LEMMA StartWorkspaceInv ==
  ASSUME Inv, NEW k \in Keys, StartWorkspace(k)
  PROVE  Inv'
  <1> USE DEF StartWorkspace
  <1>1. Spawn(k, None)
    OBVIOUS
  <1>2. TypeOK'
    BY <1>1, SpawnFacts DEF Inv, TypeOK
  <1>3. OneOwner'
    <2>1. ProcsIn(clients') \cap Awaited(starting') = {}
      BY <1>1, SpawnFacts DEF Inv, OneOwner
    <2>2. orphaned' \cap (ProcsIn(clients') \cup Awaited(starting')) = {}
      BY <1>1, SpawnFacts DEF Inv, TypeOK, OneOwner
    <2> QED BY <1>1, SpawnFacts, <2>1, <2>2 DEF Inv, OneOwner
  <1>4. CountCoversFiles' /\ NoOtherOrphans'
    BY <1>1, SpawnFacts DEF Inv, CountCoversFiles, NoOtherOrphans
  <1> QED BY <1>2, <1>3, <1>4 DEF Inv

(* A start that ends gives up its process, and only that.                  *)
LEMMA EndedFacts ==
  ASSUME Inv, NEW s \in starting
  PROVE  /\ s \in Start
         /\ Awaited(starting \ {s}) = Awaited(starting) \ {s.proc}
         /\ s.proc \in Awaited(starting)
         /\ s.proc \notin ProcsIn(clients) \cup orphaned
  BY DEF Inv, TypeOK, OneOwner, Awaited

(* A server enters the table c, which becomes d.                           *)
Entered(c, d, k, p, n, fs) ==
  /\ d \in [Keys -> Instance \cup {None}]
  /\ Held(d) = Held(c) \cup {k}
  /\ \A j \in Held(c) \ {k} : d[j] = c[j]
  /\ d[k].proc = p /\ d[k].ref = n /\ d[k].files = fs
  /\ \A q : q \in ProcsIn(d) <=> \/ q = p
                                 \/ \E j \in Held(c) \ {k} : q = c[j].proc

LEMMA EnteredFacts ==
  ASSUME NEW c \in [Keys -> Instance \cup {None}], NEW k \in Keys,
         NEW p \in Procs, NEW n \in Nat, NEW fs \in SUBSET Files
  PROVE  Entered(c, [c EXCEPT ![k] = Serving(p, n, fs)], k, p, n, fs)
  <1> DEFINE new == Serving(p, n, fs)
             d == [c EXCEPT ![k] = new]
  <1>1. new \in Instance /\ new # None /\ new.proc = p /\ new.ref = n /\ new.files = fs
    BY ServingFacts
  <1> HIDE DEF new
  <1>2. /\ d \in [Keys -> Instance \cup {None}]
        /\ Held(d) = Held(c) \cup {k}
        /\ \A j \in Held(c) \ {k} : d[j] = c[j]
        /\ d[k] = new
    BY <1>1 DEF Held
  <1> HIDE DEF d
  <1>3. \A q : q \in ProcsIn(d) <=> \/ q = p
                                   \/ \E j \in Held(c) \ {k} : q = c[j].proc
    BY <1>1, <1>2 DEF ProcsIn
  <1>4. Entered(c, d, k, p, n, fs)
    BY <1>1, <1>2, <1>3 DEF Entered
  <1> QED BY <1>4 DEF d, new

LEMMA EnterInv ==
  ASSUME Inv, NEW s \in starting, NEW n \in Nat, NEW fs \in SUBSET Files,
         Cardinality(fs) <= n, Enter(s, n, fs)
  PROVE  Inv'
  <1> DEFINE k == s.key
             old == IF clients[k] = None THEN {} ELSE {clients[k].proc}
  <1>0. /\ starting' = starting \ {s} /\ checked' = checked \ {s} /\ alive' = alive
        /\ running' = running /\ nextProc' = nextProc /\ orphaned' = orphaned \cup (old \cap alive)
    BY DEF Enter, Orphan
  <1>1. /\ k \in Keys /\ s.proc \in Procs
        /\ clients \in [Keys -> Instance \cup {None}]
        /\ clients' = [clients EXCEPT ![k] = Serving(s.proc, n, fs)]
    BY EndedFacts DEF Inv, TypeOK, Start, Enter
  <1>2 Entered(clients, clients', k, s.proc, n, fs)
    BY <1>1, EnteredFacts
  <1>3. ProcsIn(clients') = (ProcsIn(clients) \ old) \cup {s.proc}
    <2>1. \A q : q \in ProcsIn(clients') <=> \/ q = s.proc
                                           \/ \E j \in Held(clients) \ {k} : q = clients[j].proc
      BY <1>2 DEF Entered
    <2>2. \A q : q \in ProcsIn(clients) <=> \E j \in Held(clients) : q = clients[j].proc
      BY DEF ProcsIn
    <2>3. CASE clients[k] = None
      BY <2>1, <2>2, <2>3 DEF Held
    <2>4. CASE clients[k] # None
      <3>1. k \in Held(clients)
        BY <1>1, <2>4 DEF Held
      <3>2. \A j \in Held(clients) \ {k} : clients[j].proc # clients[k].proc
        BY <3>1 DEF Inv, OneOwner
      <3> QED BY <2>1, <2>2, <2>4, <3>1, <3>2
    <2> QED BY <2>3, <2>4
  <1>4. old \subseteq ProcsIn(clients)
    BY <1>1 DEF ProcsIn, Held
  <1> HIDE DEF old, k
  <1>5. \A j \in Held(clients) : clients[j].proc # s.proc
    BY EndedFacts DEF ProcsIn
  <1>6. TypeOK'
    BY <1>0, <1>2 DEF Inv, TypeOK, Entered
  <1>7. OneOwner'
    <2>1. \A j, l \in Held(clients') : clients'[j].proc = clients'[l].proc => j = l
      BY <1>2, <1>5 DEF Inv, OneOwner, Entered
    <2>2. \A t, u \in starting' : t.proc = u.proc => t = u
      BY <1>0 DEF Inv, OneOwner
    <2>3. ProcsIn(clients') \cap Awaited(starting') = {}
      BY <1>0, <1>3, EndedFacts DEF Inv, OneOwner
    <2>4. orphaned' \cap (ProcsIn(clients') \cup Awaited(starting')) = {}
      BY <1>0, <1>3, <1>4, EndedFacts DEF Inv, OneOwner
    <2>5. \A p \in ProcsIn(clients') \cup Awaited(starting') \cup alive' : p < nextProc'
      <3>1. ProcsIn(clients') \cup Awaited(starting') \cup alive'
              \subseteq ProcsIn(clients) \cup Awaited(starting) \cup alive
        BY <1>0, <1>3, EndedFacts
      <3> QED BY <1>0, <3>1 DEF Inv, OneOwner
    <2> QED BY <2>1, <2>2, <2>3, <2>4, <2>5 DEF OneOwner
  <1>8. CountCoversFiles'
    <2>1. \A j \in Held(clients) \ {k} : Cardinality(clients'[j].files) <= clients'[j].ref
      BY <1>2 DEF Inv, CountCoversFiles, Entered
    <2>2. Cardinality(clients'[k].files) <= clients'[k].ref
      BY <1>2 DEF Entered
    <2> QED BY <1>2, <2>1, <2>2 DEF CountCoversFiles, Entered
  <1>9. NoOtherOrphans'
    BY <1>0, <1>3, EndedFacts DEF Inv, NoOtherOrphans
  <1> QED BY <1>6, <1>7, <1>8, <1>9 DEF Inv

LEMMA FileServerReadyInv ==
  ASSUME Inv, NEW s \in starting, FileServerReady(s)
  PROVE  Inv'
  <1>1. {s.file} \in SUBSET Files
    BY EndedFacts DEF Start, FileServerReady
  <1>2. Cardinality({s.file}) <= 1
    BY FS_Singleton
  <1> QED BY <1>1, <1>2, EnterInv DEF FileServerReady

LEMMA WorkspaceServerReadyInv ==
  ASSUME Inv, NEW s \in starting, WorkspaceServerReady(s)
  PROVE  Inv'
  <1>1. Cardinality({}) <= 0
    BY FS_EmptySet
  <1> QED BY <1>1, EnterInv DEF WorkspaceServerReady

LEMMA WorkspaceServerWantedInv ==
  ASSUME Inv, NEW s \in starting, WorkspaceServerWanted(s)
  PROVE  Inv'
  <1> USE DEF WorkspaceServerWanted, Orphan
  <1>1. TypeOK'
    BY PrunedFacts DEF Inv, TypeOK
  <1>2. OneOwner'
    BY PrunedFacts, PruneOrphansFacts DEF Inv, TypeOK, OneOwner, ProcsIn
  <1>3. CountCoversFiles'
    BY PrunedFacts DEF Inv, CountCoversFiles
  <1>4. NoOtherOrphans'
    BY PruneOrphansFacts DEF Inv, NoOtherOrphans
  <1> QED BY <1>1, <1>2, <1>3, <1>4 DEF Inv

LEMMA WorkspaceServerRedundantInv ==
  ASSUME Inv, NEW s \in starting, WorkspaceServerRedundant(s)
  PROVE  Inv'
  <1> USE DEF WorkspaceServerRedundant, Orphan
  <1>1. TypeOK'
    BY PrunedFacts DEF Inv, TypeOK
  <1>2. OneOwner'
    <2>1. \A j, l \in Held(clients') : clients'[j].proc = clients'[l].proc => j = l
      BY PrunedFacts DEF Inv, OneOwner
    <2>2. orphaned' \cap (ProcsIn(clients') \cup Awaited(starting')) = {}
      BY PruneOrphansFacts, EndedFacts DEF Inv, OneOwner
    <2>3. ProcsIn(clients') \cap Awaited(starting') = {}
      BY PruneOrphansFacts, EndedFacts DEF Inv, OneOwner
    <2>4. \A p \in ProcsIn(clients') \cup Awaited(starting') \cup alive' : p < nextProc'
      BY PruneOrphansFacts, EndedFacts DEF Inv, OneOwner
    <2>5. \A t, u \in starting' : t.proc = u.proc => t = u
      BY DEF Inv, OneOwner
    <2> QED BY <2>1, <2>2, <2>3, <2>4, <2>5 DEF OneOwner
  <1>3. CountCoversFiles'
    BY PrunedFacts DEF Inv, CountCoversFiles
  <1>4. NoOtherOrphans'
    BY PruneOrphansFacts, EndedFacts DEF Inv, NoOtherOrphans
  <1> QED BY <1>1, <1>2, <1>3, <1>4 DEF Inv

LEMMA StartFailsInv ==
  ASSUME Inv, NEW s \in starting, StartFails(s)
  PROVE  Inv'
  <1> USE DEF StartFails, Orphan
  <1>1. TypeOK' /\ CountCoversFiles'
    BY DEF Inv, TypeOK, CountCoversFiles
  <1>2. OneOwner'
    BY EndedFacts DEF Inv, OneOwner
  <1>3. NoOtherOrphans'
    BY EndedFacts DEF Inv, NoOtherOrphans
  <1> QED BY <1>1, <1>2, <1>3 DEF Inv

LEMMA StopTrackedInv ==
  ASSUME Inv, NEW f \in Files, StopTracked(f)
  PROVE  Inv'
  <1>1. PICK k \in Held(Pruned) :
          /\ f \in Pruned[k].files
          /\ clients' = Released(Pruned, k, f)
          /\ Kill(IF clients'[k] = None THEN {Pruned[k].proc} ELSE {})
          /\ Orphan(PruneOrphans)
          /\ UNCHANGED <<starting, checked, nextProc>>
    BY DEF StopTracked
  <1> DEFINE gone == IF clients'[k] = None THEN {Pruned[k].proc} ELSE {}
  <1>2. /\ starting' = starting /\ checked' = checked /\ nextProc' = nextProc
        /\ alive' = alive \ gone /\ running' = running \ gone
        /\ orphaned' = orphaned \cup (PruneOrphans \cap alive)
    BY <1>1 DEF Kill, Orphan
  <1>3. /\ Pruned \in [Keys -> Instance \cup {None}]
        /\ Held(Pruned) \subseteq Held(clients)
        /\ \A j \in Held(Pruned) : Pruned[j] = clients[j]
    BY PrunedFacts DEF Inv
  <1>4. /\ clients' \in [Keys -> Instance \cup {None}]
        /\ \A j \in Held(Pruned) \ {k} : clients'[j] = Pruned[j]
        /\ Held(clients') \ {k} = Held(Pruned) \ {k}
        /\ clients'[k] # None =>
              /\ clients'[k].proc = Pruned[k].proc
              /\ clients'[k].ref = Pruned[k].ref - 1
              /\ clients'[k].files = Pruned[k].files \ {f}
    BY <1>1, <1>3, ReleasedFacts
  <1>5. gone \subseteq ProcsIn(Pruned)
    BY DEF ProcsIn
  <1>6. ProcsIn(clients') = ProcsIn(Pruned) \ gone
    <2>1. \A q : q \in ProcsIn(clients') <=> \E j \in Held(clients') : q = clients'[j].proc
      BY DEF ProcsIn
    <2>2. \A q : q \in ProcsIn(Pruned) <=> \E j \in Held(Pruned) : q = Pruned[j].proc
      BY DEF ProcsIn
    <2>3. \A j \in Held(Pruned) \ {k} : Pruned[j].proc # Pruned[k].proc
      BY <1>3 DEF Inv, OneOwner
    <2>4. CASE clients'[k] = None
      BY <1>4, <2>1, <2>2, <2>3, <2>4 DEF Held
    <2>5. CASE clients'[k] # None
      <3>1. k \in Held(clients')
        BY <2>5 DEF Held
      <3>2. \A j \in Held(Pruned) : j \in Held(clients') /\ clients'[j].proc = Pruned[j].proc
        BY <1>4, <2>5, <3>1
      <3>3. Held(clients') = Held(Pruned)
        BY <1>4, <3>1
      <3> QED BY <2>1, <2>2, <2>5, <3>2, <3>3
    <2> QED BY <2>4, <2>5
  <1> HIDE DEF gone
  <1>7. gone \cap (Awaited(starting) \cup orphaned') = {}
    BY <1>2, <1>5, PruneOrphansFacts DEF Inv, OneOwner
  <1>8. TypeOK'
    BY <1>2, <1>4, <1>7 DEF Inv, TypeOK
  <1>9. OneOwner'
    <2>1. \A j, l \in Held(clients') : clients'[j].proc = clients'[l].proc => j = l
      <3>1. \A j \in Held(clients') : j \in Held(clients) /\ clients'[j].proc = clients[j].proc
        BY <1>1, <1>3, <1>4 DEF Held
      <3> QED BY <3>1 DEF Inv, OneOwner
    <2>2. orphaned' \cap (ProcsIn(clients') \cup Awaited(starting')) = {}
      BY <1>2, <1>6, PruneOrphansFacts DEF Inv, OneOwner
    <2>3. ProcsIn(clients') \cap Awaited(starting') = {}
      BY <1>2, <1>6, PruneOrphansFacts DEF Inv, OneOwner
    <2>4. \A p \in ProcsIn(clients') \cup Awaited(starting') \cup alive' : p < nextProc'
      BY <1>2, <1>6, PruneOrphansFacts DEF Inv, OneOwner
    <2> QED BY <1>2, <2>1, <2>2, <2>3, <2>4 DEF Inv, OneOwner
  <1>10. CountCoversFiles'
    <2>1. SUFFICES ASSUME NEW j \in Held(clients')
                   PROVE  Cardinality(clients'[j].files) <= clients'[j].ref
      BY DEF CountCoversFiles
    <2>2. j \in Held(Pruned) /\ j \in Held(clients) /\ Pruned[j] = clients[j]
      BY <1>1, <1>3, <1>4
    <2>3. Cardinality(Pruned[j].files) <= Pruned[j].ref
      BY <2>2 DEF Inv, CountCoversFiles
    <2>4. CASE j # k
      BY <1>4, <2>2, <2>3, <2>4
    <2>5. CASE j = k
      <3>1. Pruned[k].files \in SUBSET Files /\ Pruned[k].ref \in Nat
        BY <1>3, <2>2, <2>5 DEF Held, Instance
      <3>2. Cardinality(Pruned[k].files \ {f}) <= Pruned[k].ref - 1
        BY <1>1, <2>3, <2>5, <3>1, FileCount
      <3> QED BY <1>4, <2>1, <2>5, <3>2 DEF Held
    <2> QED BY <2>4, <2>5
  <1>11. NoOtherOrphans'
    BY <1>2, <1>6, PruneOrphansFacts DEF Inv, NoOtherOrphans
  <1> QED BY <1>8, <1>9, <1>10, <1>11 DEF Inv

LEMMA ShutdownWorkspaceInv ==
  ASSUME Inv, NEW w \in Workspaces, ShutdownWorkspace(w)
  PROVE  Inv'
  <1> DEFINE here == {k \in Keys : WorkspaceOf[k] = w}
             gone == {Pruned[k].proc : k \in here \cap Held(Pruned)}
  <1>1. /\ starting' = starting /\ checked' = checked /\ nextProc' = nextProc
        /\ alive' = alive \ gone /\ running' = running \ gone
        /\ orphaned' = orphaned \cup (PruneOrphans \cap alive)
        /\ clients' = [k \in Keys |-> IF k \in here THEN None ELSE Pruned[k]]
    BY DEF ShutdownWorkspace, Kill, Orphan
  <1>2. /\ Pruned \in [Keys -> Instance \cup {None}]
        /\ Held(Pruned) \subseteq Held(clients)
        /\ \A j \in Held(Pruned) : Pruned[j] = clients[j]
    BY PrunedFacts DEF Inv
  <1>3. /\ clients' \in [Keys -> Instance \cup {None}]
        /\ Held(clients') = Held(Pruned) \ here
        /\ \A j \in Held(clients') : clients'[j] = Pruned[j]
    BY <1>1, <1>2 DEF Held
  <1>4. gone \subseteq ProcsIn(Pruned)
    BY DEF ProcsIn
  <1>5. ProcsIn(clients') = ProcsIn(Pruned) \ gone
    <2>1. \A i, j \in Held(Pruned) : Pruned[i].proc = Pruned[j].proc => i = j
      BY <1>2 DEF Inv, OneOwner
    <2> QED BY <1>3, <2>1 DEF ProcsIn
  <1> HIDE DEF gone, here
  <1>6. gone \cap (Awaited(starting) \cup orphaned') = {}
    BY <1>1, <1>4, PruneOrphansFacts DEF Inv, OneOwner
  <1>7. TypeOK'
    BY <1>1, <1>3, <1>6 DEF Inv, TypeOK
  <1>8. OneOwner'
    <2>1. \A j, l \in Held(clients') : clients'[j].proc = clients'[l].proc => j = l
      BY <1>2, <1>3 DEF Inv, OneOwner
    <2>2. orphaned' \cap (ProcsIn(clients') \cup Awaited(starting')) = {}
      BY <1>1, <1>5, PruneOrphansFacts DEF Inv, OneOwner
    <2>3. ProcsIn(clients') \cap Awaited(starting') = {}
      BY <1>1, <1>5, PruneOrphansFacts DEF Inv, OneOwner
    <2>4. \A p \in ProcsIn(clients') \cup Awaited(starting') \cup alive' : p < nextProc'
      BY <1>1, <1>5, PruneOrphansFacts DEF Inv, OneOwner
    <2> QED BY <1>1, <2>1, <2>2, <2>3, <2>4 DEF Inv, OneOwner
  <1>9. CountCoversFiles'
    BY <1>2, <1>3 DEF Inv, CountCoversFiles
  <1>10. NoOtherOrphans'
    BY <1>1, <1>5, PruneOrphansFacts DEF Inv, NoOtherOrphans
  <1> QED BY <1>7, <1>8, <1>9, <1>10 DEF Inv

LEMMA ShutdownInv ==
  ASSUME Inv, Shutdown
  PROVE  Inv'
  <1> USE DEF Shutdown, Kill
  <1>1. Held(clients') = {} /\ ProcsIn(clients') = {}
    BY DEF Held, ProcsIn
  <1>2. orphaned \subseteq alive \ ProcsIn(clients)
    BY DEF Inv, TypeOK, OneOwner
  <1>3. TypeOK'
    BY <1>2 DEF Inv, TypeOK
  <1>4. OneOwner'
    BY <1>1 DEF Inv, OneOwner
  <1>5. CountCoversFiles' /\ NoOtherOrphans'
    BY <1>1 DEF Inv, CountCoversFiles, NoOtherOrphans
  <1> QED BY <1>3, <1>4, <1>5 DEF Inv

LEMMA ServerEventInv ==
  ASSUME Inv, NEW p \in Procs, Exits(p) \/ OutputEnds(p)
  PROVE  Inv'
  <1>1. CASE Exits(p)
    <2> USE <1>1 DEF Exits, Kill
    <2>1. TypeOK' /\ CountCoversFiles'
      BY DEF Inv, TypeOK, CountCoversFiles
    <2>2. OneOwner' /\ NoOtherOrphans'
      BY DEF Inv, OneOwner, NoOtherOrphans
    <2> QED BY <2>1, <2>2 DEF Inv
  <1>2. CASE OutputEnds(p)
    BY <1>2 DEF OutputEnds, Inv, TypeOK, OneOwner, CountCoversFiles, NoOtherOrphans
  <1> QED BY <1>1, <1>2

LEMMA NextInv == Inv /\ [Next]_vars => Inv'
  <1> SUFFICES ASSUME Inv, [Next]_vars PROVE Inv'
    OBVIOUS
  <1>1. CASE UNCHANGED vars
    BY <1>1 DEF vars, Inv, TypeOK, OneOwner, CountCoversFiles, NoOtherOrphans
  <1>2. ASSUME NEW f \in Files, NEW k \in Keys, StartReuses(f, k) \/ StartSpawns(f, k)
        PROVE  Inv'
    BY <1>2, StartReusesInv, StartSpawnsInv
  <1>3. ASSUME NEW k \in Keys, StartWorkspace(k)
        PROVE  Inv'
    BY <1>3, StartWorkspaceInv
  <1>4. ASSUME NEW s \in starting,
               \/ FileServerReady(s) \/ WorkspaceServerReady(s)
               \/ WorkspaceServerRedundant(s) \/ WorkspaceServerWanted(s)
               \/ StartFails(s)
        PROVE  Inv'
    BY <1>4, FileServerReadyInv, WorkspaceServerReadyInv,
       WorkspaceServerRedundantInv, WorkspaceServerWantedInv, StartFailsInv
  <1>5. ASSUME NEW f \in Files, StopTracked(f)
        PROVE  Inv'
    BY <1>5, StopTrackedInv
  <1>6. CASE Lookup
    BY <1>6, LookupInv
  <1>7. ASSUME NEW w \in Workspaces, ShutdownWorkspace(w)
        PROVE  Inv'
    BY <1>7, ShutdownWorkspaceInv
  <1>8. CASE Shutdown
    BY <1>8, ShutdownInv
  <1>9. ASSUME NEW p \in Procs, Exits(p) \/ OutputEnds(p)
        PROVE  Inv'
    BY <1>9, ServerEventInv
  <1> QED
    BY <1>1, <1>2, <1>3, <1>4, <1>5, <1>6, <1>7, <1>8, <1>9 DEF Next

(* Every reachable state of the language server manager satisfies the      *)
(* inductive invariant.                                                    *)
THEOREM InvHolds == Spec => []Inv
  BY InitInv, NextInv, PTL DEF Spec

-----------------------------------------------------------------------------
(* Every variable has its type, and only processes that run are counted as *)
(* answering or as dropped.                                                *)
THEOREM TypeCorrect == Spec => []TypeOK
  <1>1. Inv => TypeOK
    BY DEF Inv
  <1> QED BY <1>1, InvHolds, PTL

(* No server process has two owners among the table, the starts under way  *)
(* and the dropped processes.                                              *)
THEOREM OneOwnerHolds == Spec => []OneOwner
  <1>1. Inv => OneOwner
    BY DEF Inv
  <1> QED BY <1>1, InvHolds, PTL

(* The reference count of a server covers the files it tracks.             *)
THEOREM CountCoversFilesHolds == Spec => []CountCoversFiles
  <1>1. Inv => CountCoversFiles
    BY DEF Inv
  <1> QED BY <1>1, InvHolds, PTL

(* Every running server is in the table, being started, or was dropped in  *)
(* one of the four places of NoOtherOrphans.                               *)
THEOREM NoOtherOrphansHolds == Spec => []NoOtherOrphans
  <1>1. Inv => NoOtherOrphans
    BY DEF Inv
  <1> QED BY <1>1, InvHolds, PTL

(* Closing a file never kills a server that other files still use: its     *)
(* count would have to be at most one while it tracks two files.           *)
THEOREM StopSparesOthersHolds == Spec => StopSparesOthers
  <1>1. Inv /\ [Next]_vars =>
          [\A f \in Files : StopTracked(f) =>
             \A k \in Held(clients) :
               clients[k].proc \in alive \ alive' => clients[k].files \subseteq {f}]_vars
    <2> SUFFICES ASSUME Inv, NEW f \in Files, StopTracked(f), NEW k \in Held(clients),
                        clients[k].proc \in alive \ alive'
                 PROVE  clients[k].files \subseteq {f}
      OBVIOUS
    <2>1. PICK j \in Held(Pruned) :
            /\ f \in Pruned[j].files
            /\ clients' = Released(Pruned, j, f)
            /\ Kill(IF clients'[j] = None THEN {Pruned[j].proc} ELSE {})
      BY DEF StopTracked
    <2>2. clients'[j] = None /\ clients[k].proc = Pruned[j].proc
      BY <2>1 DEF Kill
    <2>3. /\ Pruned \in [Keys -> Instance \cup {None}]
          /\ j \in Held(clients) /\ Pruned[j] = clients[j]
      BY PrunedFacts DEF Inv
    <2>4. j = k
      BY <2>2, <2>3 DEF Inv, OneOwner
    <2>5. Pruned[j].ref <= 1
      BY <2>1, <2>2, <2>3, ReleasedFacts
    <2>6. Pruned[j].ref \in Nat /\ Pruned[j].files \in SUBSET Files
      BY <2>3 DEF Held, Instance
    <2>7. Cardinality(Pruned[j].files) <= Pruned[j].ref
      BY <2>3 DEF Inv, CountCoversFiles
    <2>8. Cardinality(Pruned[j].files \ {f}) <= 0
      BY <2>1, <2>5, <2>6, <2>7, FileCount
    <2>9. Pruned[j].files \ {f} = {}
      <3>1. IsFiniteSet(Pruned[j].files \ {f})
        BY <2>6, ConstantsAssumption, FS_Subset
      <3> QED BY <2>8, <3>1, FS_EmptySet, FS_CardinalityType
    <2> QED BY <2>3, <2>4, <2>9
  <1> QED BY <1>1, InvHolds, PTL DEF Spec, StopSparesOthers

-----------------------------------------------------------------------------
(* What each key's entry is to the files: the table implements ServerEntry *)
(* for every key.                                                          *)
Seen(k) ==
  IF clients[k] = None THEN [up |-> FALSE, refs |-> 0, files |-> {}]
  ELSE [up |-> TRUE, refs |-> clients[k].ref, files |-> clients[k].files]

Entry(k) == INSTANCE ServerEntry WITH entry <- Seen(k)

LEMMA SeenFacts ==
  ASSUME TypeOK, NEW k \in Keys
  PROVE  /\ Seen(k).up <=> clients[k] # None
         /\ clients[k] # None => Seen(k).refs = clients[k].ref /\ Seen(k).files = clients[k].files
         /\ clients[k] = None => Seen(k) = Entry(k)!Absent
         /\ clients[k] # None => Seen(k) = Entry(k)!Serving(clients[k].ref, clients[k].files)
  BY DEF Seen, Entry!Absent, Entry!Serving

(* A step that leaves the key alone, or drops its server.                  *)
LEMMA PrunedEntry ==
  ASSUME TypeOK, NEW k \in Keys, clients'[k] \in {clients[k], None}
  PROVE  [Entry(k)!Next]_(Seen(k))
  <1>1. CASE clients'[k] = clients[k]
    BY <1>1 DEF Seen
  <1>2. CASE clients'[k] = None /\ clients[k] # None
    BY <1>2, SeenFacts DEF Seen, Entry!Next, Entry!Leave, Entry!Absent
  <1> QED
    BY <1>1, <1>2

(* A server enters under a key.                                            *)
LEMMA EnteredEntry ==
  ASSUME TypeOK, NEW s \in starting, NEW n \in {0, 1},
         NEW fs \in SUBSET Files, clients' = [clients EXCEPT ![s.key] = Serving(s.proc, n, fs)],
         (n = 0 /\ fs = {}) \/ (n = 1 /\ \E f \in Files : fs = {f}),
         NEW k \in Keys
  PROVE  [Entry(k)!Next]_(Seen(k))
  <1>1. s.proc \in Procs /\ s.key \in Keys
    BY DEF TypeOK, Start
  <1>2. CASE k # s.key
    <2>1. clients'[k] = clients[k]
      BY <1>2 DEF TypeOK
    <2> QED
      BY <2>1, PrunedEntry
  <1>3. CASE k = s.key
    <2>1. clients'[k] = Serving(s.proc, n, fs)
      BY <1>1, <1>3 DEF TypeOK
    <2>2. n \in Nat
      OBVIOUS
    <2>3. clients'[k] # None /\ clients'[k].ref = n /\ clients'[k].files = fs
      BY <1>1, <2>1, <2>2, ServingFacts
    <2>4. Seen(k)' = Entry(k)!Serving(n, fs)
      BY <2>3 DEF Seen, Entry!Serving
    <2> QED
      BY <2>4 DEF Entry!Next, Entry!Enter, Entry!EnterIdle
  <1> QED
    BY <1>2, <1>3

LEMMA TrackedEntry ==
  ASSUME TypeOK, NEW f \in Files, NEW j \in Keys, StartReuses(f, j), NEW k \in Keys
  PROVE  [Entry(k)!Next]_(Seen(k))
  <1>1. Pruned \in [Keys -> Instance \cup {None}] /\ Pruned[j] # None
    BY PrunedFacts DEF StartReuses
  <1>2. clients' = [Pruned EXCEPT ![j] =
                      Serving(Pruned[j].proc, Pruned[j].ref + 1, Pruned[j].files \cup {f})]
    BY DEF StartReuses, Track
  <1>3. CASE k # j
    <2>1. clients'[k] \in {clients[k], None}
      BY <1>1, <1>2, <1>3 DEF Pruned, TypeOK
    <2> QED
      BY <2>1, PrunedEntry
  <1>4. CASE k = j
    <2>1. Pruned[k] = clients[k] /\ clients[k] # None
      BY <1>1, <1>4, PrunedFacts DEF Held
    <2>2. clients[k].proc \in Procs /\ clients[k].ref + 1 \in Nat /\ clients[k].files \in SUBSET Files
      BY <2>1, <1>1 DEF Instance
    <2>3. clients'[k] = Serving(clients[k].proc, clients[k].ref + 1, clients[k].files \cup {f})
      BY <1>1, <1>2, <1>4, <2>1
    <2>4. /\ clients'[k] # None /\ clients'[k].ref = clients[k].ref + 1
          /\ clients'[k].files = clients[k].files \cup {f}
      BY <2>2, <2>3, ServingFacts
    <2>5. Seen(k)' = Entry(k)!Serving(Seen(k).refs + 1, Seen(k).files \cup {f})
      BY <2>1, <2>4, SeenFacts DEF Seen, Entry!Serving
    <2> QED
      BY <2>1, <2>5, SeenFacts DEF Entry!Next, Entry!Track
  <1> QED
    BY <1>3, <1>4

LEMMA ReleasedEntry ==
  ASSUME TypeOK, CountCoversFiles, NEW f \in Files, StopTracked(f), NEW k \in Keys
  PROVE  [Entry(k)!Next]_(Seen(k))
  <1>1. PICK j \in Held(Pruned) : f \in Pruned[j].files /\ clients' = Released(Pruned, j, f)
    BY DEF StopTracked
  <1>2. /\ Pruned \in [Keys -> Instance \cup {None}] /\ j \in Keys
        /\ Pruned[j] = clients[j] /\ clients[j] # None /\ clients[j] \in Instance
        /\ j \in Held(clients)
    BY PrunedFacts DEF Held
  <1>3. CASE k # j
    <2>1. clients'[k] \in {clients[k], None}
      BY <1>1, <1>2, <1>3 DEF Pruned, TypeOK, Released
    <2> QED
      BY <2>1, PrunedEntry
  <1>4. CASE k = j
    <2> DEFINE n == clients[k].ref
               fs == clients[k].files
    <2>1. n \in Nat /\ fs \in SUBSET Files /\ f \in fs /\ clients[k].proc \in Procs
      BY <1>1, <1>2, <1>4 DEF Instance
    <2>2. n >= 1
      <3>1. Cardinality(fs) <= n /\ IsFiniteSet(fs)
        BY <1>2, <1>4, <2>1, ConstantsAssumption, FS_Subset DEF CountCoversFiles
      <3>2. Cardinality(fs) \in Nat /\ Cardinality(fs) # 0
        BY <2>1, <3>1, FS_CardinalityType, FS_EmptySet
      <3> QED
        BY <2>1, <3>1, <3>2
    <2>3. Seen(k).up /\ Seen(k).refs = n /\ Seen(k).files = fs
      BY <1>2, <1>4, SeenFacts
    <2>4. clients'[k] = IF Fewer(n) = 0 THEN None
                        ELSE Serving(clients[k].proc, Fewer(n), fs \ {f})
      BY <1>1, <1>2, <1>4 DEF Released
    <2>5. CASE n = 1
      <3>1. clients'[k] = None
        BY <2>4, <2>5 DEF Fewer
      <3>2. Seen(k)' = Entry(k)!Absent
        BY <3>1 DEF Seen, Entry!Absent
      <3> QED
        BY <2>1, <2>3, <2>5, <3>2 DEF Entry!Next, Entry!Release
    <2>6. CASE n # 1
      <3>1. clients'[k] = Serving(clients[k].proc, n - 1, fs \ {f}) /\ n - 1 \in Nat
        BY <2>1, <2>2, <2>4, <2>6 DEF Fewer
      <3>2. clients'[k] # None /\ clients'[k].ref = n - 1 /\ clients'[k].files = fs \ {f}
        BY <2>1, <3>1, ServingFacts
      <3>3. Seen(k)' = Entry(k)!Serving(n - 1, fs \ {f})
        BY <3>2 DEF Seen, Entry!Serving
      <3> QED
        BY <2>1, <2>3, <2>6, <3>3 DEF Entry!Next, Entry!Release
    <2> QED
      BY <2>5, <2>6
  <1> QED
    BY <1>3, <1>4

LEMMA NextEntry ==
  ASSUME Inv, [Next]_vars, NEW k \in Keys
  PROVE  [Entry(k)!Next]_(Seen(k))
  <1> USE DEF Inv
  <1>1. CASE clients' = clients \/ clients' = Pruned \/ clients'[k] = None
    <2>1. clients'[k] \in {clients[k], None}
      BY <1>1 DEF Pruned, TypeOK
    <2> QED
      BY <2>1, PrunedEntry
  <1>2. ASSUME NEW s \in starting, FileServerReady(s) PROVE [Entry(k)!Next]_(Seen(k))
    <2>1. s.file \in Files
      BY <1>2 DEF FileServerReady, TypeOK, Start
    <2>2. clients' = [clients EXCEPT ![s.key] = Serving(s.proc, 1, {s.file})]
      BY <1>2 DEF FileServerReady, Enter
    <2>3. /\ 1 \in {0, 1} /\ {s.file} \in SUBSET Files
          /\ 1 = 1 /\ \E f \in Files : {s.file} = {f}
      BY <2>1
    <2> QED
      BY <2>2, <2>3, EnteredEntry
  <1>3. ASSUME NEW s \in starting, WorkspaceServerReady(s) PROVE [Entry(k)!Next]_(Seen(k))
    <2>1. clients' = [clients EXCEPT ![s.key] = Serving(s.proc, 0, {})]
      BY <1>3 DEF WorkspaceServerReady, Enter
    <2>2. 0 \in {0, 1} /\ {} \in SUBSET Files
      OBVIOUS
    <2> QED
      BY <2>1, <2>2, EnteredEntry
  <1>4. ASSUME NEW w \in Workspaces, ShutdownWorkspace(w) PROVE [Entry(k)!Next]_(Seen(k))
    <2>1. clients'[k] \in {clients[k], None}
      BY <1>4 DEF ShutdownWorkspace, Pruned
    <2> QED
      BY <2>1, PrunedEntry
  <1>5. CASE Shutdown
    BY <1>1, <1>5 DEF Shutdown
  <1> QED
    BY <1>1, <1>2, <1>3, <1>4, <1>5, TrackedEntry, ReleasedEntry
    DEF Next, vars, StartSpawns, StartWorkspace, Spawn, WorkspaceServerRedundant,
        WorkspaceServerWanted, StartFails, Lookup, Exits, OutputEnds

(* Whatever the other keys, processes and starts do, the entry of a key is *)
(* to its files what ServerEntry says: tracked files leave it one by one,  *)
(* each with one count, or all together with the server.                   *)
THEOREM TableImplementsEntry ==
  ASSUME NEW k \in Keys
  PROVE  Spec => Entry(k)!Spec
  <1>1. Init => Entry(k)!Init
    BY DEF Init, Seen, Entry!Init, Entry!Absent
  <1>2. Inv /\ [Next]_vars => [Entry(k)!Next]_(Seen(k))
    BY NextEntry
  <1> QED
    BY <1>1, <1>2, InvHolds, PTL DEF Spec, Entry!Spec

=============================================================================
