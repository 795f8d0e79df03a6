------------------------- MODULE WalletFileProofs -------------------------
(***************************************************************************)
(* Proofs about WalletFile, for any numbers of instances, names, edits and *)
(* faults.                                                                 *)
(***************************************************************************)
EXTENDS WalletFile, TLAPS

Files    == [Names -> Content \cup {None}]
Handlers == [pc : Pcs, tab : Tab \cup {None}, name : Names \cup {None}]
Paths(tb)     == {t.path : t \in tb}
UsesOf(tb, o) == (Paths(tb) \cup {o.name}) \ {None}

\* HandlersAtTabs, for one instance with the tabs tb and the handler o.
HandlerAt(tb, o) ==
  /\ o.pc \in {"move", "relock", "save", "first", "backup", "close"} => o.tab \in tb
  /\ o.pc \in {"relock", "save", "first", "backup", "close"} => o.tab.path # None
  /\ o.pc # "idle" => o.name # None
  /\ o.pc = "lock" => o.tab # None /\ o.tab.path = o.name

\* The name a handler works at is its tab's; a tab that took no lock is known as such.
Shape(tb, o) ==
  /\ \A t \in tb : t.path = None => t.bare
  /\ o.pc \in {"save", "first", "backup", "close"} => o.tab.path = o.name
  /\ o.pc = "unlock" /\ o.tab # None => o.tab.bare /\ o.tab.path = o.name

\* What the file n holds is known to the tab t, or may be replaced by it.
KnowsFile(t, fs, n) == fs[n] = None \/ fs[n].edits \subseteq t.edits \cup t.waived

\* One tab is at a file; it knows what the file holds, also while the file is being opened,
\* moved or closed; nothing is where a file is moved to; the tab has its lock.
Sole(tb, o, fs, lk) ==
  /\ \A t, u \in tb : t.path = u.path /\ t.path # None => t = u
  /\ o.pc \in {"load", "lock", "relock", "unlock"} => o.name \notin Paths(tb)
  /\ o.pc = "move" => \A t \in tb : t.path = o.name => t = o.tab
  /\ \A t \in tb : t.path # None => (o.pc = "relock" /\ t = o.tab) \/ KnowsFile(t, fs, t.path)
  /\ o.pc = "move" => fs[o.name] = None
  /\ o.pc \in {"relock", "lock"} => KnowsFile(o.tab, fs, o.name)
  /\ o.pc = "unlock" /\ o.tab # None => KnowsFile(o.tab, fs, o.name)
  /\ \A t \in tb : t.bare \/ t.path \in lk

\* Somewhere the edit e is in a file.
Kept(fs, e) == \E n \in Names : fs[n] # None /\ e \in fs[n].edits

\* The names whose lock an instance will still remove, if nothing breaks.
Owed(tb, o) == Paths(tb) \cup (IF o.pc = "unlock" THEN {o.name} ELSE {})

\* The inductive invariant.
FileInv ==
  /\ TypeOK
  /\ \A p \in Procs : Shape(tabs[p], op[p])
  /\ Overlap => shared
  /\ shared \/ \A p \in Procs : Sole(tabs[p], op[p], files, locks)
  /\ LossNeedsSharing
  /\ broken \/ \A n \in locks : \E p \in Procs : n \in Owed(tabs[p], op[p])
-----------------------------------------------------------------------------
\* What an instance knows of its files depends on the names it uses only.
LEMMA SoleFrame ==
  ASSUME NEW tb \in SUBSET Tab, NEW o \in Handlers, HandlerAt(tb, o), Shape(tb, o),
         NEW fs, NEW lk, NEW fs2, NEW lk2, Sole(tb, o, fs, lk),
         \A n \in UsesOf(tb, o) : fs2[n] = fs[n] /\ (n \in lk2 <=> n \in lk)
  PROVE  Sole(tb, o, fs2, lk2)
<1>1. \A t \in tb : t.path # None => t.path \in UsesOf(tb, o)
  BY DEF UsesOf, Paths
<1>2. o.pc # "idle" => o.name \in UsesOf(tb, o)
  BY DEF UsesOf, HandlerAt
<1>3. \A t, u \in tb : t.path = u.path /\ t.path # None => t = u
  BY DEF Sole
<1>4. /\ o.pc \in {"load", "lock", "relock", "unlock"} => o.name \notin Paths(tb)
      /\ o.pc = "move" => \A t \in tb : t.path = o.name => t = o.tab
  BY DEF Sole
<1>5. \A t \in tb : t.path # None => (o.pc = "relock" /\ t = o.tab) \/ KnowsFile(t, fs2, t.path)
  BY <1>1 DEF Sole, KnowsFile
<1>6. o.pc = "move" => fs2[o.name] = None
  BY <1>2 DEF Sole
<1>7. o.pc \in {"relock", "lock"} => KnowsFile(o.tab, fs2, o.name)
  BY <1>2 DEF Sole, KnowsFile
<1>8. o.pc = "unlock" /\ o.tab # None => KnowsFile(o.tab, fs2, o.name)
  BY <1>2 DEF Sole, KnowsFile
<1>9. \A t \in tb : t.bare \/ t.path \in lk2
  BY <1>1 DEF Sole, Shape
<1>10. QED
  BY <1>3, <1>4, <1>5, <1>6, <1>7, <1>8, <1>9 DEF Sole

\* The names an instance uses, and the handlers of TypeOK.
LEMMA Vocabulary ==
  ASSUME TypeOK
  PROVE  /\ \A p \in Procs : /\ Uses(p) = UsesOf(tabs[p], op[p])
                             /\ PathsOf(p) = Paths(tabs[p])
                             /\ tabs[p] \in SUBSET Tab /\ op[p] \in Handlers
                             /\ HandlerAt(tabs[p], op[p])
         /\ files \in Files
BY DEF TypeOK, HandlersAtTabs, HandlerAt, Uses, UsesOf, PathsOf, Paths, Handlers, Files

\* What a step of the instance p has to establish.
LEMMA StepInv ==
  ASSUME FileInv, NEW p \in Procs, shared' = (shared \/ Overlap'),
         tabs' \in [Procs -> SUBSET Tab], op' \in [Procs -> Handlers],
         \A q \in Procs \ {p} : tabs'[q] = tabs[q] /\ op'[q] = op[q],
         files' \in Files, locks' \subseteq Names, known' \in [Procs -> SUBSET Ids],
         made' \in 0..MaxEdits, faults' \in 0..MaxFaults,
         saved' \subseteq Edits, broken' \in BOOLEAN,
         HandlerAt(tabs'[p], op'[p]), Shape(tabs'[p], op'[p]),
         shared' \/ Sole(tabs'[p], op'[p], files', locks'),
         shared \/ \A e \in saved' : Kept(files', e),
         \A n \in Names : n \notin UsesOf(tabs[p], op[p]) /\ n \notin UsesOf(tabs'[p], op'[p])
                            => files'[n] = files[n] /\ (n \in locks' <=> n \in locks),
         broken' \/ (~broken /\ \A n \in locks' : n \in Owed(tabs'[p], op'[p])
                                  \/ (n \in locks /\ n \notin Owed(tabs[p], op[p])))
  PROVE  FileInv'
<1>1. TypeOK /\ TypeOK'
  <2>1. HandlersAtTabs'
    <3>1. \A q \in Procs : HandlerAt(tabs'[q], op'[q])
      BY Vocabulary DEF FileInv
    <3>2. QED
      BY <3>1 DEF HandlersAtTabs, HandlerAt
  <2>2. shared' \in BOOLEAN
    BY DEF FileInv, TypeOK, Overlap
  <2>3. QED
    BY <2>1, <2>2 DEF TypeOK, FileInv, Files, Handlers
<1>2. \A q \in Procs : Shape(tabs'[q], op'[q])
  BY DEF FileInv
<1>3. (Overlap => shared)'
  OBVIOUS
<1>4. ASSUME ~shared', NEW q \in Procs \ {p}
      PROVE  Sole(tabs'[q], op'[q], files', locks')
  <2>1. ~Overlap /\ ~Overlap' /\ ~shared
    BY <1>4 DEF FileInv
  <2>2. Uses(p) \cap Uses(q) = {} /\ Uses(p)' \cap Uses(q)' = {}
    BY <2>1 DEF Overlap
  <2>3. /\ Uses(p) = UsesOf(tabs[p], op[p]) /\ Uses(q) = UsesOf(tabs[q], op[q])
        /\ tabs[q] \in SUBSET Tab /\ op[q] \in Handlers /\ HandlerAt(tabs[q], op[q])
    BY <1>1, Vocabulary
  <2>4. Uses(p)' = UsesOf(tabs'[p], op'[p]) /\ Uses(q)' = UsesOf(tabs'[q], op'[q])
    BY DEF Uses, UsesOf, PathsOf, Paths
  <2>5. tabs'[q] = tabs[q] /\ op'[q] = op[q]
    OBVIOUS
  <2>6. UsesOf(tabs[q], op[q]) \subseteq Names
    BY <2>3 DEF UsesOf, Paths, Tab, Handlers
  <2>7. \A n \in UsesOf(tabs[q], op[q]) : n \in Names /\ n \notin UsesOf(tabs[p], op[p])
                                           /\ n \notin UsesOf(tabs'[p], op'[p])
    BY <2>2, <2>3, <2>4, <2>5, <2>6
  <2>8. \A n \in UsesOf(tabs[q], op[q]) : files'[n] = files[n] /\ (n \in locks' <=> n \in locks)
    BY <2>7
  <2>9. Sole(tabs[q], op[q], files, locks) /\ Shape(tabs[q], op[q])
    BY <2>1 DEF FileInv
  <2>10. QED
    BY <2>3, <2>5, <2>8, <2>9, SoleFrame
<1>5. (shared \/ \A q \in Procs : Sole(tabs[q], op[q], files, locks))'
  BY <1>4
<1>6. LossNeedsSharing'
  BY DEF LossNeedsSharing, Kept
<1>7. (broken \/ \A n \in locks : \E q \in Procs : n \in Owed(tabs[q], op[q]))'
  <2> SUFFICES ASSUME ~broken', NEW n \in locks'
               PROVE  \E q \in Procs : n \in Owed(tabs'[q], op'[q])
    OBVIOUS
  <2>1. CASE n \in Owed(tabs'[p], op'[p])
    BY <2>1
  <2>2. CASE n \notin Owed(tabs'[p], op'[p])
    <3>1. ~broken /\ n \in locks /\ n \notin Owed(tabs[p], op[p])
      BY <2>2
    <3>2. PICK q \in Procs : n \in Owed(tabs[q], op[q])
      BY <3>1 DEF FileInv
    <3>3. q # p /\ tabs'[q] = tabs[q] /\ op'[q] = op[q]
      BY <3>1, <3>2
    <3>4. QED
      BY <3>2, <3>3
  <2>3. QED
    BY <2>1, <2>2
<1>8. QED
  BY <1>1, <1>2, <1>3, <1>5, <1>6, <1>7 DEF FileInv

LEMMA InitInv == Init => FileInv
<1> SUFFICES ASSUME Init
             PROVE  FileInv
  OBVIOUS
<1>1. \A p \in Procs : tabs[p] = {} /\ op[p] = Idle
  BY DEF Init
<1>2. Idle \in Handlers /\ Idle.pc = "idle"
  BY DEF Idle, Handlers, Pcs
<1>3. TypeOK
  <2>1. op \in [Procs -> Handlers] /\ tabs \in [Procs -> SUBSET Tab]
    BY <1>2 DEF Init
  <2>2. HandlersAtTabs
    BY <1>1, <1>2 DEF HandlersAtTabs
  <2>3. made \in 0..MaxEdits /\ faults \in 0..MaxFaults
    BY FileAssumption DEF Init
  <2>4. QED
    BY <2>1, <2>2, <2>3 DEF Init, TypeOK, Handlers
<1>4. \A p \in Procs : Shape(tabs[p], op[p]) /\ Sole(tabs[p], op[p], files, locks)
  BY <1>1, <1>2 DEF Shape, Sole
<1>5. ~Overlap
  BY <1>1 DEF Overlap, Twice, Uses, PathsOf, Idle
<1>6. LossNeedsSharing /\ locks = {}
  BY DEF Init, LossNeedsSharing
<1>7. QED
  BY <1>3, <1>4, <1>5, <1>6 DEF FileInv
-----------------------------------------------------------------------------
\* What the invariant says of the instance that moves.
LEMMA Here ==
  ASSUME FileInv, NEW p \in Procs
  PROVE  /\ tabs[p] \in SUBSET Tab /\ op[p] \in Handlers
         /\ tabs \in [Procs -> SUBSET Tab] /\ op \in [Procs -> Handlers]
         /\ files \in Files /\ known \in [Procs -> SUBSET Ids] /\ locks \subseteq Names
         /\ made \in 0..MaxEdits /\ faults \in 0..MaxFaults
         /\ saved \subseteq Edits /\ broken \in BOOLEAN
         /\ HandlerAt(tabs[p], op[p]) /\ Shape(tabs[p], op[p])
         /\ shared \/ Sole(tabs[p], op[p], files, locks)
         /\ shared \/ \A e \in saved : Kept(files, e)
BY Vocabulary DEF FileInv, TypeOK, Handlers, LossNeedsSharing, Kept

\* A step that reads and writes no file and no lock.
LEMMA QuietInv ==
  ASSUME FileInv, NEW p \in Procs, shared' = (shared \/ Overlap'),
         tabs' \in [Procs -> SUBSET Tab], op' \in [Procs -> Handlers],
         \A q \in Procs \ {p} : tabs'[q] = tabs[q] /\ op'[q] = op[q],
         UNCHANGED <<files, locks, saved>>, known' \in [Procs -> SUBSET Ids],
         made' \in 0..MaxEdits, faults' \in 0..MaxFaults, broken' \in BOOLEAN,
         HandlerAt(tabs'[p], op'[p]), Shape(tabs'[p], op'[p]),
         shared' \/ Sole(tabs'[p], op'[p], files, locks),
         broken' \/ (~broken /\ \A n \in locks : n \in Owed(tabs[p], op[p])
                                                   => n \in Owed(tabs'[p], op'[p]))
  PROVE  FileInv'
<1>1. files' \in Files /\ locks' \subseteq Names /\ saved' \subseteq Edits
  BY Here
<1>2. shared \/ \A e \in saved' : Kept(files', e)
  BY Here
<1>3. shared' \/ Sole(tabs'[p], op'[p], files', locks')
  OBVIOUS
<1>4. \A n \in Names : files'[n] = files[n] /\ (n \in locks' <=> n \in locks)
  OBVIOUS
<1>5. broken' \/ (~broken /\ \A n \in locks' : n \in Owed(tabs'[p], op'[p])
                               \/ (n \in locks /\ n \notin Owed(tabs[p], op[p])))
  OBVIOUS
<1>6. QED
  BY <1>1, <1>2, <1>3, <1>4, <1>5, StepInv

\* A tab that knows what the file holds is written to it.
LEMMA WriteFacts ==
  ASSUME FileInv, NEW t \in Tab, NEW n \in Names, Write(t, n),
         shared \/ KnowsFile(t, files, n)
  PROVE  /\ files' \in Files /\ saved' \subseteq Edits
         /\ KnowsFile(t, files', n) /\ files'[n].edits = t.edits
         /\ \A m \in Names : m # n => files'[m] = files[m]
         /\ shared \/ \A e \in saved' : Kept(files', e)
<1> DEFINE c == [id |-> t.id, edits |-> t.edits]
<1>1. c \in Content /\ c.edits = t.edits /\ t.edits \subseteq Edits
  BY DEF Tab, Content
<1>2. files \in Files /\ saved \subseteq Edits
  BY DEF FileInv, TypeOK, Files
<1>3. files' = [files EXCEPT ![n] = c] /\ saved' = (saved \ t.waived) \cup t.edits
  BY DEF Write
<1>4. c # None
  BY <1>1, NoneAssumption
<1> HIDE DEF c
<1>5. files'[n] = c /\ \A m \in Names : m # n => files'[m] = files[m]
  BY <1>2, <1>3 DEF Files
<1>6. files' \in Files /\ saved' \subseteq Edits
  BY <1>1, <1>2, <1>3 DEF Files
<1>7. KnowsFile(t, files', n)
  BY <1>1, <1>4, <1>5 DEF KnowsFile
<1>8. ASSUME ~shared, NEW e \in saved'
      PROVE  Kept(files', e)
  <2>1. CASE e \in t.edits
    BY <2>1, <1>1, <1>4, <1>5 DEF Kept
  <2>2. CASE e \notin t.edits
    <3>1. e \in saved /\ e \notin t.waived
      BY <2>2, <1>3
    <3>2. PICK m \in Names : files[m] # None /\ e \in files[m].edits
      BY <1>8, <3>1 DEF FileInv, LossNeedsSharing
    <3>3. m # n
      BY <1>8, <2>2, <3>1, <3>2 DEF KnowsFile
    <3>4. files'[m] = files[m]
      BY <3>3, <1>5
    <3>5. QED
      BY <3>2, <3>4 DEF Kept
  <2>3. QED
    BY <2>1, <2>2
<1>9. QED
  BY <1>1, <1>5, <1>6, <1>7, <1>8

\* The tab t of the instance is written to its file, the tabs stay.
LEMMA SoleWrite ==
  ASSUME NEW tb \in SUBSET Tab, NEW o, NEW fs, NEW fs2, NEW lk, NEW t \in tb,
         Sole(tb, o, fs, lk), o.pc \in {"idle", "load", "save", "first", "backup"},
         fs2[t.path].edits = t.edits, KnowsFile(t, fs2, t.path),
         \A m \in Names : m # t.path => fs2[m] = fs[m]
  PROVE  Sole(tb, o, fs2, lk)
<1>1. ASSUME NEW u \in tb, u.path # None
      PROVE  KnowsFile(u, fs2, u.path)
  <2>1. CASE u = t
    BY <2>1
  <2>2. CASE u # t
    <3>1. u.path # t.path /\ u.path \in Names
      BY <2>2, <1>1 DEF Sole, Tab
    <3>2. KnowsFile(u, fs, u.path)
      BY <1>1 DEF Sole
    <3>3. QED
      BY <3>1, <3>2 DEF KnowsFile
  <2>3. QED
    BY <2>1, <2>2
<1>2. QED
  BY <1>1 DEF Sole
-----------------------------------------------------------------------------
LEMMA EditInv ==
  ASSUME FileInv, shared' = (shared \/ Overlap'), NEW p \in Procs, NEW t \in tabs[p], Edit(p, t)
  PROVE  FileInv'
<1> DEFINE u == [t EXCEPT !.edits = @ \cup {made + 1}]
           tb == (tabs[p] \ {t}) \cup {u}
<1>1. op[p] = Idle /\ made < MaxEdits /\ made' = made + 1 /\ tabs' = [tabs EXCEPT ![p] = tb]
      /\ UNCHANGED <<files, locks, known, op, faults, history>>
  BY DEF Edit, Replace
<1>2. /\ tabs[p] \in SUBSET Tab /\ tabs \in [Procs -> SUBSET Tab] /\ made \in 0..MaxEdits
      /\ Shape(tabs[p], op[p]) /\ MaxEdits \in Nat
      /\ shared \/ Sole(tabs[p], op[p], files, locks)
  BY Here, FileAssumption
<1>3. u \in Tab /\ u.path = t.path /\ u.bare = t.bare /\ u.waived = t.waived
      /\ t.edits \subseteq u.edits
  BY <1>1, <1>2 DEF Tab, Edits
<1> HIDE DEF u
<1>4. tb \in SUBSET Tab /\ Paths(tb) = Paths(tabs[p])
  BY <1>2, <1>3 DEF Paths
<1>5. op[p].pc = "idle"
  BY <1>1 DEF Idle
<1>6. Shape(tb, op[p]) /\ HandlerAt(tb, op[p])
  BY <1>2, <1>3, <1>5 DEF Shape, HandlerAt
<1>7. shared \/ Sole(tb, op[p], files, locks)
  BY <1>2, <1>3, <1>5 DEF Sole, KnowsFile
<1>8. \A n \in locks : n \in Owed(tabs[p], op[p]) => n \in Owed(tb, op[p])
  BY <1>4 DEF Owed
<1> HIDE DEF tb
<1>9. tabs'[p] = tb /\ tabs' \in [Procs -> SUBSET Tab] /\ op' = op
      /\ (\A q \in Procs \ {p} : tabs'[q] = tabs[q] /\ op'[q] = op[q])
  BY <1>1, <1>2, <1>4
<1>10. made' \in 0..MaxEdits /\ UNCHANGED <<files, locks, saved>> /\ broken' = broken
       /\ known' = known /\ faults' = faults
  BY <1>1, <1>2 DEF history
<1>11. QED
  BY <1>6, <1>7, <1>8, <1>9, <1>10, Here, QuietInv

LEMMA SaveInv ==
  ASSUME FileInv, shared' = (shared \/ Overlap'), NEW p \in Procs, NEW t \in tabs[p], Save(p, t)
  PROVE  FileInv'
<1>1. op[p].pc \in {"idle", "load", "first"} /\ t.path # None /\ Write(t, t.path)
      /\ UNCHANGED <<locks, tabs, known, op, made, faults, broken>>
  BY DEF Save
<1>2. /\ tabs[p] \in SUBSET Tab /\ t \in Tab /\ t.path \in Names
      /\ shared \/ Sole(tabs[p], op[p], files, locks)
  BY <1>1, Here DEF Tab
<1>3. shared \/ KnowsFile(t, files, t.path)
  BY <1>1, <1>2 DEF Sole, KnowsFile
<1>4. /\ files' \in Files /\ saved' \subseteq Edits /\ KnowsFile(t, files', t.path)
      /\ files'[t.path].edits = t.edits
      /\ \A m \in Names : m # t.path => files'[m] = files[m]
      /\ shared \/ \A e \in saved' : Kept(files', e)
  BY <1>1, <1>2, <1>3, WriteFacts
<1>5. shared \/ Sole(tabs[p], op[p], files', locks)
  BY <1>1, <1>2, <1>4, SoleWrite
<1>6. t.path \in UsesOf(tabs[p], op[p])
  BY <1>1 DEF UsesOf, Paths
<1>7. \A n \in Names : n \notin UsesOf(tabs[p], op[p]) => files'[n] = files[n]
  BY <1>4, <1>6
<1>8. QED
  BY <1>1, <1>4, <1>5, <1>7, Here, StepInv

LEMMA CreateInv ==
  ASSUME FileInv, shared' = (shared \/ Overlap'), NEW p \in Procs, NEW n \in Names, Create(p, n)
  PROVE  FileInv'
<1> DEFINE u == [id |-> n, path |-> None, edits |-> {}, bare |-> TRUE, waived |-> {}]
           tb == tabs[p] \cup {u}
<1>1. op[p] = Idle /\ tabs' = [tabs EXCEPT ![p] = tb] /\ known' = [known EXCEPT ![p] = @ \cup {n}]
      /\ UNCHANGED <<files, locks, op, made, faults, history>>
  BY DEF Create
<1>2. /\ tabs[p] \in SUBSET Tab /\ tabs \in [Procs -> SUBSET Tab] /\ Shape(tabs[p], op[p])
      /\ known \in [Procs -> SUBSET Ids]
      /\ shared \/ Sole(tabs[p], op[p], files, locks)
  BY Here
<1>3. u \in Tab /\ u.path = None /\ u.bare
  BY DEF Tab, Ids
<1> HIDE DEF u
<1>4. tb \in SUBSET Tab /\ Paths(tabs[p]) \subseteq Paths(tb)
  BY <1>2, <1>3 DEF Paths
<1>5. op[p].pc = "idle"
  BY <1>1 DEF Idle
<1>6. Shape(tb, op[p]) /\ HandlerAt(tb, op[p])
  BY <1>2, <1>3, <1>5 DEF Shape, HandlerAt
<1>7. shared \/ Sole(tb, op[p], files, locks)
  BY <1>2, <1>3, <1>5 DEF Sole
<1>8. \A m \in locks : m \in Owed(tabs[p], op[p]) => m \in Owed(tb, op[p])
  BY <1>4 DEF Owed
<1> HIDE DEF tb
<1>9. tabs'[p] = tb /\ tabs' \in [Procs -> SUBSET Tab] /\ op' = op
      /\ (\A q \in Procs \ {p} : tabs'[q] = tabs[q] /\ op'[q] = op[q])
  BY <1>1, <1>2, <1>4
<1>10. known' \in [Procs -> SUBSET Ids] /\ UNCHANGED <<files, locks, saved>> /\ broken' = broken
       /\ made' = made /\ faults' = faults
  BY <1>1, <1>2 DEF history, Ids
<1>11. QED
  BY <1>6, <1>7, <1>8, <1>9, <1>10, Here, QuietInv

LEMMA SaveNewInv ==
  ASSUME FileInv, shared' = (shared \/ Overlap'), NEW p \in Procs, NEW t \in tabs[p],
         NEW n \in Names, SaveNew(p, t, n)
  PROVE  FileInv'
<1> DEFINE held == IF files[n] = None THEN {} ELSE files[n].edits
           u == [t EXCEPT !.path = n, !.waived = held]
           tb == (tabs[p] \ {t}) \cup {u}
           o == [pc |-> "first", tab |-> u, name |-> n]
<1>1. op[p] = Idle /\ t.path = None /\ tabs' = [tabs EXCEPT ![p] = tb] /\ op' = [op EXCEPT ![p] = o]
      /\ UNCHANGED <<files, locks, known, made, faults, history>>
  BY DEF SaveNew, Replace, Goto
<1>2. /\ tabs[p] \in SUBSET Tab /\ t \in Tab /\ tabs \in [Procs -> SUBSET Tab] /\ files \in Files
      /\ op \in [Procs -> Handlers]
      /\ Shape(tabs[p], op[p]) /\ locks \subseteq Names /\ None \notin Names
      /\ shared \/ Sole(tabs[p], op[p], files, locks)
  BY Here, FileAssumption
<1>3. held \subseteq Edits /\ (files[n] = None \/ files[n].edits \subseteq held)
  BY <1>2 DEF Files, Content
<1> HIDE DEF held
<1>4. u \in Tab /\ u.path = n /\ u.bare = t.bare /\ u.waived = held /\ t.bare
  BY <1>1, <1>2, <1>3 DEF Tab, Shape
<1> HIDE DEF u
<1>5. tb \in SUBSET Tab /\ u \in tb /\ n # None /\ Paths(tabs[p]) \ {None} \subseteq Paths(tb)
  BY <1>1, <1>2, <1>4 DEF Paths
<1>6. op[p].pc = "idle"
  BY <1>1 DEF Idle
<1>7. o \in Handlers /\ o.pc = "first" /\ o.tab = u /\ o.name = n
  BY <1>4 DEF Handlers, Pcs
<1> HIDE DEF o
<1>8. Shape(tb, o) /\ HandlerAt(tb, o)
  BY <1>2, <1>4, <1>5, <1>7 DEF Shape, HandlerAt
<1>9. \A m \in locks : m \in Owed(tabs[p], op[p]) => m \in Owed(tb, o)
  BY <1>2, <1>5, <1>6 DEF Owed
<1>10. tabs' = [tabs EXCEPT ![p] = tb] /\ tb \in SUBSET Tab
  BY <1>1, <1>5
<1>11. tabs'[p] = tb /\ op'[p] = o
  BY <1>1, <1>2
<1>12. ASSUME ~shared'
       PROVE  Sole(tb, o, files, locks)
  <2>1. \A v \in tb : ~Twice(p, v)'
    BY <1>11, <1>12 DEF Overlap
  <2>2. \A v \in tb : v.path = n => v = u
    BY <1>5, <1>7, <1>11, <2>1 DEF Twice
  <2>3. Sole(tabs[p], op[p], files, locks)
    BY <1>2, <1>12
  <2>4. \A v \in tb : v.path # None => KnowsFile(v, files, v.path)
    BY <1>3, <1>4, <1>6, <2>3 DEF Sole, KnowsFile
  <2>5. \A v, w \in tb : v.path = w.path /\ v.path # None => v = w
    BY <1>4, <2>2, <2>3 DEF Sole
  <2>6. \A v \in tb : v.bare \/ v.path \in locks
    BY <1>4, <2>3 DEF Sole
  <2>7. QED
    BY <1>7, <2>4, <2>5, <2>6 DEF Sole
<1> HIDE DEF tb
<1>13. /\ tabs' \in [Procs -> SUBSET Tab] /\ op' \in [Procs -> Handlers]
       /\ \A q \in Procs \ {p} : tabs'[q] = tabs[q] /\ op'[q] = op[q]
  BY <1>1, <1>2, <1>7, <1>10
<1>14. UNCHANGED <<files, locks, saved>> /\ broken' = broken
       /\ known' = known /\ made' = made /\ faults' = faults
  BY <1>1 DEF history
<1>15. QED
  BY <1>8, <1>9, <1>11, <1>12, <1>13, <1>14, Here, QuietInv

LEMMA OpenCheckInv ==
  ASSUME FileInv, shared' = (shared \/ Overlap'), NEW p \in Procs, NEW n \in Names, OpenCheck(p, n)
  PROVE  FileInv'
<1> DEFINE o == [pc |-> "load", tab |-> None, name |-> n]
<1>1. op[p] = Idle /\ n \notin PathsOf(p) /\ op' = [op EXCEPT ![p] = o]
      /\ UNCHANGED <<files, locks, tabs, known, made, faults, history>>
  BY DEF OpenCheck, Goto
<1>2. /\ tabs[p] \in SUBSET Tab /\ op \in [Procs -> Handlers] /\ Shape(tabs[p], op[p])
      /\ shared \/ Sole(tabs[p], op[p], files, locks)
  BY Here
<1>3. o \in Handlers /\ o.pc = "load" /\ o.name = n /\ n # None
  BY FileAssumption DEF Handlers, Pcs
<1>4. op[p].pc = "idle"
  BY <1>1 DEF Idle
<1> HIDE DEF o
<1>5. Shape(tabs[p], o) /\ HandlerAt(tabs[p], o)
  BY <1>2, <1>3 DEF Shape, HandlerAt
<1>6. shared \/ Sole(tabs[p], o, files, locks)
  BY <1>1, <1>2, <1>3, <1>4 DEF Sole, Paths, PathsOf
<1>7. \A m \in locks : m \in Owed(tabs[p], op[p]) => m \in Owed(tabs[p], o)
  BY <1>4 DEF Owed
<1>8. op'[p] = o /\ op' \in [Procs -> Handlers] /\ (\A q \in Procs \ {p} : op'[q] = op[q])
  BY <1>1, <1>2, <1>3
<1>9. tabs' = tabs /\ known' = known /\ UNCHANGED <<files, locks, saved>> /\ broken' = broken
      /\ made' = made /\ faults' = faults
  BY <1>1 DEF history
<1>10. QED
  BY <1>5, <1>6, <1>7, <1>8, <1>9, Here, QuietInv

\* A handler that ends, with the tabs as they are.
LEMMA DoneFacts ==
  ASSUME NEW p \in Procs, op \in [Procs -> Handlers], Done(p)
  PROVE  /\ op'[p] = Idle /\ op' \in [Procs -> Handlers] /\ \A q \in Procs \ {p} : op'[q] = op[q]
         /\ Idle \in Handlers /\ Idle.pc = "idle"
         /\ \A tb : HandlerAt(tb, Idle)
         /\ \A tb : (\A t \in tb : t.path = None => t.bare) => Shape(tb, Idle)
<1>1. Idle \in Handlers /\ Idle.pc = "idle"
  BY DEF Idle, Handlers, Pcs
<1>2. \A tb : HandlerAt(tb, Idle)
  BY <1>1 DEF HandlerAt
<1>3. \A tb : (\A t \in tb : t.path = None => t.bare) => Shape(tb, Idle)
  BY <1>1 DEF Shape
<1>4. QED
  BY <1>1, <1>2, <1>3 DEF Done

LEMMA LoadInv ==
  ASSUME FileInv, shared' = (shared \/ Overlap'), NEW p \in Procs, Load(p)
  PROVE  FileInv'
<1> DEFINE n == op[p].name
           t == [id |-> files[n].id, path |-> n, edits |-> files[n].edits, bare |-> FALSE,
                  waived |-> {}]
           o == [pc |-> "lock", tab |-> t, name |-> n]
<1>1. op[p].pc = "load" /\ UNCHANGED <<files, locks, tabs, known, made, faults, history>>
  BY DEF Load
<1>2. /\ tabs[p] \in SUBSET Tab /\ op \in [Procs -> Handlers] /\ op[p] \in Handlers
      /\ Shape(tabs[p], op[p]) /\ HandlerAt(tabs[p], op[p]) /\ files \in Files
      /\ shared \/ Sole(tabs[p], op[p], files, locks)
  BY Here
<1>3. UNCHANGED <<files, locks, saved>> /\ tabs' = tabs /\ known' = known /\ broken' = broken
      /\ made' = made /\ faults' = faults
  BY <1>1 DEF history
<1>4. CASE files[n] # None /\ Goto(p, "lock", t, n)
  <2>1. n \in Names
    BY <1>1, <1>2 DEF HandlerAt, Handlers
  <2>2. files[n] \in Content
    BY <1>2, <1>4, <2>1 DEF Files
  <2>3. t \in Tab /\ t.path = n /\ t.edits = files[n].edits
    BY <2>1, <2>2 DEF Tab, Content
  <2>4. t # None /\ n # None
    BY <2>1, <2>3, NoneAssumption, FileAssumption
  <2> HIDE DEF t
  <2>5. o \in Handlers /\ o.pc = "lock" /\ o.tab = t /\ o.name = n
    BY <2>1, <2>3 DEF Handlers, Pcs
  <2>6. op' = [op EXCEPT ![p] = o]
    BY <1>4 DEF Goto
  <2> HIDE DEF o
  <2>7. op'[p] = o /\ op' \in [Procs -> Handlers] /\ (\A q \in Procs \ {p} : op'[q] = op[q])
    BY <1>2, <2>5, <2>6
  <2>8. Shape(tabs[p], o) /\ HandlerAt(tabs[p], o)
    BY <1>2, <2>3, <2>4, <2>5 DEF Shape, HandlerAt
  <2>9. shared \/ Sole(tabs[p], o, files, locks)
    BY <1>1, <1>2, <1>4, <2>3, <2>5 DEF Sole, KnowsFile
  <2>10. \A m \in locks : m \in Owed(tabs[p], op[p]) => m \in Owed(tabs[p], o)
    BY <1>1 DEF Owed
  <2>11. QED
    BY <1>3, <2>7, <2>8, <2>9, <2>10, Here, QuietInv
<1>5. CASE Done(p)
  <2>1. /\ op'[p] = Idle /\ op' \in [Procs -> Handlers] /\ (\A q \in Procs \ {p} : op'[q] = op[q])
        /\ Idle.pc = "idle" /\ HandlerAt(tabs[p], Idle) /\ Shape(tabs[p], Idle)
    BY <1>2, <1>5, DoneFacts DEF Shape
  <2>2. shared \/ Sole(tabs[p], Idle, files, locks)
    BY <1>1, <1>2, <2>1 DEF Sole
  <2>3. \A m \in locks : m \in Owed(tabs[p], op[p]) => m \in Owed(tabs[p], Idle)
    BY <1>1 DEF Owed
  <2>4. QED
    BY <1>3, <2>1, <2>2, <2>3, Here, QuietInv
<1>6. QED
  BY <1>4, <1>5 DEF Load

LEMMA AddOpenedInv ==
  ASSUME FileInv, shared' = (shared \/ Overlap'), NEW p \in Procs, AddOpened(p)
  PROVE  FileInv'
<1> DEFINE t == op[p].tab
<1>1. op[p].pc = "lock" /\ locks' = locks \cup {t.path} /\ Done(p)
      /\ known' = [known EXCEPT ![p] = @ \cup {t.id}]
      /\ UNCHANGED <<files, made, faults, saved>>
  BY DEF AddOpened
<1>2. /\ tabs[p] \in SUBSET Tab /\ tabs \in [Procs -> SUBSET Tab] /\ op \in [Procs -> Handlers]
      /\ op[p] \in Handlers /\ known \in [Procs -> SUBSET Ids] /\ locks \subseteq Names
      /\ Shape(tabs[p], op[p]) /\ HandlerAt(tabs[p], op[p])
      /\ shared \/ Sole(tabs[p], op[p], files, locks)
  BY Here
<1>3. t \in Tab /\ t.path = op[p].name /\ t.path \in Names /\ t.path # None
  BY <1>1, <1>2 DEF HandlerAt, Handlers
<1>4. known' \in [Procs -> SUBSET Ids] /\ locks' \subseteq Names
  BY <1>1, <1>2, <1>3 DEF Tab
<1>5. /\ op'[p] = Idle /\ op' \in [Procs -> Handlers] /\ (\A q \in Procs \ {p} : op'[q] = op[q])
      /\ Idle.pc = "idle" /\ (\A tb : HandlerAt(tb, Idle))
      /\ (\A tb : (\A v \in tb : v.path = None => v.bare) => Shape(tb, Idle))
  BY <1>1, <1>2, DoneFacts
<1>6. t.path \in UsesOf(tabs[p], op[p])
  BY <1>3 DEF UsesOf
<1>7. \A n \in Names : n \notin UsesOf(tabs[p], op[p]) /\ n \notin UsesOf(tabs'[p], op'[p])
                         => files'[n] = files[n] /\ (n \in locks' <=> n \in locks)
  BY <1>1, <1>6
<1>8. files' \in Files /\ saved' \subseteq Edits /\ (shared \/ \A e \in saved' : Kept(files', e))
      /\ made' \in 0..MaxEdits /\ faults' \in 0..MaxFaults
  BY <1>1, Here
<1>9. CASE t.id \in IdsOf(p)
  <2>1. tabs' = tabs /\ broken' = TRUE
    BY <1>9 DEF AddOpened
  <2>2. shared \/ Sole(tabs[p], Idle, files, locks')
    BY <1>1, <1>2, <1>5 DEF Sole
  <2>3. Shape(tabs[p], Idle)
    BY <1>2, <1>5 DEF Shape
  <2>4. QED
    BY <1>1, <1>2, <1>4, <1>5, <1>7, <1>8, <2>1, <2>2, <2>3, StepInv
<1>10. CASE t.id \notin IdsOf(p)
  <2> DEFINE tb == tabs[p] \cup {t}
  <2>1. tabs' = [tabs EXCEPT ![p] = tb] /\ broken' = broken
    BY <1>10 DEF AddOpened
  <2>2. tb \in SUBSET Tab /\ Paths(tb) = Paths(tabs[p]) \cup {t.path}
    BY <1>2, <1>3 DEF Paths
  <2>3. Shape(tb, Idle)
    BY <1>2, <1>3, <1>5 DEF Shape
  <2>4. ASSUME ~shared
        PROVE  Sole(tb, Idle, files, locks')
    <3>1. Sole(tabs[p], op[p], files, locks) /\ t.path \notin Paths(tabs[p])
          /\ KnowsFile(t, files, t.path)
      BY <1>1, <1>2, <1>3, <2>4 DEF Sole
    <3>2. \A v \in tabs[p] : v.path # t.path
      BY <3>1 DEF Paths
    <3>3. \A v \in tabs[p] : v.path # None => KnowsFile(v, files, v.path)
      BY <1>1, <3>1 DEF Sole
    <3>4. QED
      BY <1>1, <1>5, <3>1, <3>2, <3>3 DEF Sole
  <2>5. \A n \in locks' : n \in Owed(tb, Idle) \/ (n \in locks /\ n \notin Owed(tabs[p], op[p]))
    BY <1>1, <2>2 DEF Owed
  <2> HIDE DEF tb
  <2>6. tabs'[p] = tb /\ tabs' \in [Procs -> SUBSET Tab]
        /\ (\A q \in Procs \ {p} : tabs'[q] = tabs[q])
    BY <1>2, <2>1, <2>2
  <2>7. broken' \in BOOLEAN /\ (broken' \/ ~broken)
    BY <2>1, Here
  <2>8. QED
    BY <1>1, <1>4, <1>5, <1>7, <1>8, <2>3, <2>4, <2>5, <2>6, <2>7, StepInv
<1>11. QED
  BY <1>9, <1>10

LEMMA DiscardInv ==
  ASSUME FileInv, shared' = (shared \/ Overlap'), NEW p \in Procs, NEW t \in tabs[p], Discard(p, t)
  PROVE  FileInv'
<1> DEFINE tb == tabs[p] \ {t}
<1>1. op[p] = Idle /\ t.path = None /\ tabs' = [tabs EXCEPT ![p] = tb]
      /\ UNCHANGED <<files, locks, known, op, made, faults, history>>
  BY DEF Discard
<1>2. /\ tabs[p] \in SUBSET Tab /\ tabs \in [Procs -> SUBSET Tab] /\ Shape(tabs[p], op[p])
      /\ locks \subseteq Names /\ None \notin Names
      /\ shared \/ Sole(tabs[p], op[p], files, locks)
  BY Here, FileAssumption
<1>3. op[p].pc = "idle" /\ tb \in SUBSET Tab
  BY <1>1, <1>2 DEF Idle
<1>4. Shape(tb, op[p]) /\ HandlerAt(tb, op[p])
  BY <1>2, <1>3 DEF Shape, HandlerAt
<1>5. shared \/ Sole(tb, op[p], files, locks)
  BY <1>2, <1>3 DEF Sole
<1>6. \A n \in locks : n \in Owed(tabs[p], op[p]) => n \in Owed(tb, op[p])
  BY <1>1, <1>2, <1>3 DEF Owed, Paths
<1> HIDE DEF tb
<1>7. tabs'[p] = tb /\ tabs' \in [Procs -> SUBSET Tab] /\ op' = op
      /\ (\A q \in Procs \ {p} : tabs'[q] = tabs[q] /\ op'[q] = op[q])
  BY <1>1, <1>2, <1>3
<1>8. UNCHANGED <<files, locks, saved>> /\ broken' = broken
      /\ known' = known /\ made' = made /\ faults' = faults
  BY <1>1 DEF history
<1>9. QED
  BY <1>4, <1>5, <1>6, <1>7, <1>8, Here, QuietInv

LEMMA CrashInv ==
  ASSUME FileInv, shared' = (shared \/ Overlap'), NEW p \in Procs, Crash(p)
  PROVE  FileInv'
<1>1. faults < MaxFaults /\ faults' = faults + 1 /\ tabs' = [tabs EXCEPT ![p] = {}]
      /\ known' = [known EXCEPT ![p] = {}] /\ Done(p) /\ broken' = TRUE
      /\ UNCHANGED <<files, locks, made, saved>>
  BY DEF Crash, Fail
<1>2. /\ tabs \in [Procs -> SUBSET Tab] /\ op \in [Procs -> Handlers]
      /\ known \in [Procs -> SUBSET Ids] /\ faults \in 0..MaxFaults /\ made \in 0..MaxEdits
      /\ MaxFaults \in Nat
  BY Here, FileAssumption
<1>3. tabs'[p] = {} /\ tabs' \in [Procs -> SUBSET Tab] /\ known' \in [Procs -> SUBSET Ids]
      /\ (\A q \in Procs \ {p} : tabs'[q] = tabs[q])
  BY <1>1, <1>2
<1>4. /\ op'[p] = Idle /\ op' \in [Procs -> Handlers] /\ (\A q \in Procs \ {p} : op'[q] = op[q])
      /\ Idle.pc = "idle" /\ HandlerAt({}, Idle) /\ Shape({}, Idle)
  BY <1>1, <1>2, DoneFacts
<1>5. Sole({}, Idle, files, locks)
  BY <1>4 DEF Sole
<1>6. faults' \in 0..MaxFaults /\ made' \in 0..MaxEdits /\ broken' \in BOOLEAN
  BY <1>1, <1>2
<1>7. QED
  BY <1>1, <1>3, <1>4, <1>5, <1>6, QuietInv

LEMMA RenameInv ==
  ASSUME FileInv, shared' = (shared \/ Overlap'), NEW p \in Procs, NEW t \in tabs[p],
         NEW n \in Names, Rename(p, t, n)
  PROVE  FileInv'
<1> DEFINE u == [t EXCEPT !.id = n]
           tb == (tabs[p] \ {t}) \cup {u}
           o == [pc |-> "move", tab |-> u, name |-> n]
<1>1. op[p] = Idle /\ files[n] = None /\ tabs' = [tabs EXCEPT ![p] = tb]
      /\ op' = [op EXCEPT ![p] = o] /\ known' = [known EXCEPT ![p] = (@ \ {t.id}) \cup {n}]
      /\ UNCHANGED <<files, locks, made, faults, history>>
  BY DEF Rename, Replace, Goto
<1>2. /\ tabs[p] \in SUBSET Tab /\ t \in Tab /\ tabs \in [Procs -> SUBSET Tab]
      /\ op \in [Procs -> Handlers] /\ known \in [Procs -> SUBSET Ids]
      /\ Shape(tabs[p], op[p]) /\ None \notin Names
      /\ shared \/ Sole(tabs[p], op[p], files, locks)
  BY Here, FileAssumption
<1>3. u \in Tab /\ u.path = t.path /\ u.bare = t.bare /\ u.edits = t.edits
      /\ u.waived = t.waived
  BY <1>2 DEF Tab, Ids
<1> HIDE DEF u
<1>4. tb \in SUBSET Tab /\ u \in tb /\ Paths(tb) = Paths(tabs[p])
  BY <1>2, <1>3 DEF Paths
<1>5. op[p].pc = "idle"
  BY <1>1 DEF Idle
<1>6. o \in Handlers /\ o.pc = "move" /\ o.tab = u /\ o.name = n
  BY <1>3 DEF Handlers, Pcs
<1> HIDE DEF o
<1>7. Shape(tb, o) /\ HandlerAt(tb, o)
  BY <1>2, <1>3, <1>4, <1>6 DEF Shape, HandlerAt
<1>8. tabs' = [tabs EXCEPT ![p] = tb] /\ tabs'[p] = tb /\ op'[p] = o
  BY <1>1, <1>2
<1>9. ASSUME ~shared'
      PROVE  Sole(tb, o, files, locks)
  <2>1. Sole(tabs[p], op[p], files, locks)
    BY <1>2, <1>9
  <2>2. \A v \in tb : v.path # None => KnowsFile(v, files, v.path)
    BY <1>3, <1>5, <2>1 DEF Sole, KnowsFile
  <2>3. \A v \in tb : ~Twice(p, v)'
    BY <1>8, <1>9 DEF Overlap
  <2>4. \A v \in tb : v.path = n => v = u
    BY <1>2, <1>6, <1>8, <2>3 DEF Twice
  <2>5. QED
    BY <1>1, <1>3, <1>6, <2>1, <2>2, <2>4 DEF Sole
<1>10. \A m \in locks : m \in Owed(tabs[p], op[p]) => m \in Owed(tb, o)
  BY <1>4, <1>5 DEF Owed
<1> HIDE DEF tb
<1>11. tabs' \in [Procs -> SUBSET Tab] /\ op' \in [Procs -> Handlers]
       /\ (\A q \in Procs \ {p} : tabs'[q] = tabs[q] /\ op'[q] = op[q])
       /\ known' \in [Procs -> SUBSET Ids]
  BY <1>1, <1>2, <1>4, <1>6, <1>8 DEF Ids
<1>12. UNCHANGED <<files, locks, saved>> /\ broken' = broken /\ made' = made /\ faults' = faults
  BY <1>1 DEF history
<1>13. QED
  BY <1>7, <1>8, <1>9, <1>10, <1>11, <1>12, Here, QuietInv

LEMMA MoveInv ==
  ASSUME FileInv, shared' = (shared \/ Overlap'), NEW p \in Procs, Move(p)
  PROVE  FileInv'
<1> DEFINE t == op[p].tab
           old == t.path
           n == op[p].name
<1>1. op[p].pc = "move" /\ UNCHANGED <<tabs, locks, known, made, faults, saved>>
  BY DEF Move
<1>2. /\ tabs[p] \in SUBSET Tab /\ op \in [Procs -> Handlers] /\ op[p] \in Handlers
      /\ tabs \in [Procs -> SUBSET Tab] /\ files \in Files
      /\ Shape(tabs[p], op[p]) /\ HandlerAt(tabs[p], op[p])
      /\ shared \/ Sole(tabs[p], op[p], files, locks)
  BY Here
<1>3. t \in tabs[p] /\ t \in Tab /\ n # None /\ n \in Names
  BY <1>1, <1>2 DEF HandlerAt, Handlers
<1>4. CASE old # None /\ files[old] # None
  <2> DEFINE o == [pc |-> "relock", tab |-> t, name |-> n]
  <2>1. files' = [files EXCEPT ![old] = None, ![n] = files[old]] /\ op' = [op EXCEPT ![p] = o]
        /\ broken' = broken
    BY <1>4 DEF Move, Goto
  <2>2. old \in Names /\ files[old] \in Content
    BY <1>2, <1>3, <1>4 DEF Tab, Files
  <2>3. files' \in Files /\ (old # n => files'[n] = files[old] /\ files'[old] = None)
        /\ \A m \in Names : m # n /\ m # old => files'[m] = files[m]
    BY <1>2, <1>3, <2>1, <2>2 DEF Files
  <2>4. o \in Handlers /\ o.pc = "relock" /\ o.tab = t /\ o.name = n
    BY <1>3 DEF Handlers, Pcs
  <2> HIDE DEF o
  <2>5. op'[p] = o /\ op' \in [Procs -> Handlers] /\ (\A q \in Procs \ {p} : op'[q] = op[q])
    BY <1>2, <2>1, <2>4
  <2>6. Shape(tabs[p], o) /\ HandlerAt(tabs[p], o)
    BY <1>2, <1>3, <1>4, <2>4 DEF Shape, HandlerAt
  <2>7. ASSUME ~shared
        PROVE  Sole(tabs[p], o, files', locks) /\ \A e \in saved : Kept(files', e)
    <3>1. Sole(tabs[p], op[p], files, locks)
      BY <1>2, <2>7
    <3>2. n \notin Paths(tabs[p]) /\ files[n] = None /\ KnowsFile(t, files, old) /\ old # n
      <4>1. files[n] = None /\ KnowsFile(t, files, old) /\ old # n
        BY <1>1, <1>3, <1>4, <3>1 DEF Sole
      <4>2. \A v \in tabs[p] : v.path = n => v = t
        BY <1>1, <3>1 DEF Sole
      <4>3. QED
        BY <4>1, <4>2 DEF Paths
    <3>3. KnowsFile(t, files', n)
      BY <2>3, <3>2 DEF KnowsFile
    <3>4. ASSUME NEW v \in tabs[p], v.path # None, v # t
          PROVE  KnowsFile(v, files', v.path)
      <4>1. v.path # old /\ v.path # n /\ v.path \in Names
        BY <1>2, <1>3, <3>1, <3>2, <3>4 DEF Sole, Paths, Tab
      <4>2. KnowsFile(v, files, v.path)
        BY <1>1, <3>1, <3>4 DEF Sole
      <4>3. QED
        BY <2>3, <4>1, <4>2 DEF KnowsFile
    <3>5. Sole(tabs[p], o, files', locks)
      BY <2>4, <3>1, <3>2, <3>3, <3>4 DEF Sole
    <3>6. ASSUME NEW e \in saved
          PROVE  Kept(files', e)
      <4>1. PICK m \in Names : files[m] # None /\ e \in files[m].edits
        BY <2>7 DEF FileInv, LossNeedsSharing
      <4>2. CASE m = old
        BY <1>3, <2>3, <3>2, <4>1, <4>2 DEF Kept
      <4>3. CASE m # old
        BY <2>3, <3>2, <4>1, <4>3 DEF Kept
      <4>4. QED
        BY <4>2, <4>3
    <3>7. QED
      BY <3>5, <3>6
  <2>8. n \in UsesOf(tabs[p], op[p]) /\ old \in UsesOf(tabs[p], op[p])
    BY <1>3, <1>4 DEF UsesOf, Paths
  <2>9. \A m \in Names : m \notin UsesOf(tabs[p], op[p]) => files'[m] = files[m]
    BY <2>3, <2>8
  <2>10. \A m \in locks : m \in Owed(tabs[p], op[p]) => m \in Owed(tabs[p], o)
    BY <1>1 DEF Owed
  <2>11. QED
    BY <1>1, <2>1, <2>3, <2>5, <2>6, <2>7, <2>9, <2>10, Here, StepInv
<1>5. CASE ~(old # None /\ files[old] # None)
  <2>1. Done(p) /\ broken' = TRUE /\ files' = files
    BY <1>5 DEF Move
  <2>2. /\ op'[p] = Idle /\ op' \in [Procs -> Handlers] /\ (\A q \in Procs \ {p} : op'[q] = op[q])
        /\ Idle.pc = "idle" /\ HandlerAt(tabs[p], Idle) /\ Shape(tabs[p], Idle)
    BY <1>2, <2>1, DoneFacts DEF Shape
  <2>3. shared \/ Sole(tabs[p], Idle, files, locks)
    BY <1>1, <1>2, <2>2 DEF Sole
  <2>4. broken' \in BOOLEAN
    BY <2>1
  <2>5. QED
    BY <1>1, <2>1, <2>2, <2>3, <2>4, Here, QuietInv
<1>6. QED
  BY <1>4, <1>5

LEMMA RelockInv ==
  ASSUME FileInv, shared' = (shared \/ Overlap'), NEW p \in Procs, Relock(p)
  PROVE  FileInv'
<1> DEFINE t == op[p].tab
           n == op[p].name
           u == [t EXCEPT !.path = n, !.bare = FALSE]
           tb == (tabs[p] \ {t}) \cup {u}
<1>1. op[p].pc = "relock" /\ locks' = (locks \ {t.path}) \cup {n}
      /\ tabs' = [tabs EXCEPT ![p] = tb] /\ UNCHANGED <<files, known, made, faults, history>>
  BY DEF Relock, Replace
<1>2. PICK pc \in {"save", "backup"} : op' = [op EXCEPT ![p] = [pc |-> pc, tab |-> u, name |-> n]]
  BY DEF Relock, Goto
<1>3. /\ tabs[p] \in SUBSET Tab /\ op \in [Procs -> Handlers] /\ op[p] \in Handlers
      /\ tabs \in [Procs -> SUBSET Tab] /\ locks \subseteq Names
      /\ Shape(tabs[p], op[p]) /\ HandlerAt(tabs[p], op[p])
      /\ shared \/ Sole(tabs[p], op[p], files, locks)
  BY Here
<1>4. t \in tabs[p] /\ t \in Tab /\ n # None /\ n \in Names /\ t.path # None
  BY <1>1, <1>3 DEF HandlerAt, Handlers
<1>5. u \in Tab /\ u.path = n /\ ~u.bare /\ u.edits = t.edits /\ u.waived = t.waived
  BY <1>4 DEF Tab
<1> DEFINE o == [pc |-> pc, tab |-> u, name |-> n]
<1>6. o \in Handlers /\ o.pc \in {"save", "backup"} /\ o.tab = u /\ o.name = n
  BY <1>4, <1>5 DEF Handlers, Pcs
<1> HIDE DEF o, u
<1>7. tb \in SUBSET Tab /\ u \in tb /\ n \in Paths(tb)
      /\ (\A m : m \in Paths(tabs[p]) /\ m # t.path => m \in Paths(tb))
  BY <1>3, <1>5 DEF Paths
<1>8. Shape(tb, o) /\ HandlerAt(tb, o)
  BY <1>3, <1>4, <1>5, <1>6, <1>7 DEF Shape, HandlerAt
<1>9. ASSUME ~shared
      PROVE  Sole(tb, o, files, locks')
  <2>1. Sole(tabs[p], op[p], files, locks)
    BY <1>3, <1>9
  <2>2. KnowsFile(u, files, n) /\ n \notin Paths(tabs[p])
    BY <1>1, <1>5, <2>1 DEF Sole, KnowsFile
  <2>3. \A v \in tabs[p] \ {t} :
           /\ v.path # n /\ v.path # t.path
           /\ v.path # None => KnowsFile(v, files, v.path)
           /\ v.bare \/ v.path \in locks
    BY <1>1, <1>4, <2>1, <2>2 DEF Sole, Paths
  <2>4. \A v \in tb : v.path # None => KnowsFile(v, files, v.path)
    BY <1>5, <2>2, <2>3
  <2>5. \A v \in tb : v.bare \/ v.path \in locks'
    BY <1>1, <1>5, <2>3
  <2>6. \A v, w \in tb : v.path = w.path /\ v.path # None => v = w
    BY <1>5, <2>1, <2>3 DEF Sole
  <2>7. QED
    BY <1>6, <2>4, <2>5, <2>6 DEF Sole
<1>10. \A m \in locks' : m \in Owed(tb, o) \/ (m \in locks /\ m \notin Owed(tabs[p], op[p]))
  BY <1>1, <1>7 DEF Owed
<1>11. n \in UsesOf(tabs[p], op[p]) /\ t.path \in UsesOf(tabs[p], op[p])
  BY <1>4 DEF UsesOf, Paths
<1>12. \A m \in Names : m \notin UsesOf(tabs[p], op[p])
                          => files'[m] = files[m] /\ (m \in locks' <=> m \in locks)
  BY <1>1, <1>11
<1>13. op' = [op EXCEPT ![p] = o]
  BY <1>2 DEF o
<1> HIDE DEF tb
<1>14. tabs'[p] = tb /\ tabs' \in [Procs -> SUBSET Tab] /\ op'[p] = o /\ op' \in [Procs -> Handlers]
       /\ (\A q \in Procs \ {p} : tabs'[q] = tabs[q] /\ op'[q] = op[q])
  BY <1>1, <1>3, <1>6, <1>7, <1>13
<1>15. files' = files /\ saved' = saved /\ broken' = broken /\ locks' \subseteq Names
       /\ known' = known /\ made' = made /\ faults' = faults
  BY <1>1, <1>3, <1>4 DEF history
<1>16. broken' \/ (~broken /\ \A m \in locks' : m \in Owed(tb, o)
                                 \/ (m \in locks /\ m \notin Owed(tabs[p], op[p])))
  BY <1>10, <1>15
<1>17. QED
  BY <1>8, <1>9, <1>12, <1>14, <1>15, <1>16, Here, StepInv

\* A tab of the instance is written to its file, and a handler follows.
LEMMA WriteInv ==
  ASSUME FileInv, shared' = (shared \/ Overlap'), NEW p \in Procs, NEW t \in tabs[p], t.path # None,
         op[p].pc \in {"idle", "save", "first"}, Write(t, t.path), NEW o \in Handlers, op' = [op EXCEPT ![p] = o],
         HandlerAt(tabs[p], o), Shape(tabs[p], o), o.pc \in {"idle", "backup"},
         UNCHANGED <<locks, tabs, known, made, faults, broken>>
  PROVE  FileInv'
<1>1. /\ tabs[p] \in SUBSET Tab /\ t \in Tab /\ t.path \in Names /\ op \in [Procs -> Handlers]
      /\ shared \/ Sole(tabs[p], op[p], files, locks)
  BY Here DEF Tab
<1>2. shared \/ KnowsFile(t, files, t.path)
  BY <1>1 DEF Sole, KnowsFile
<1>3. /\ files' \in Files /\ saved' \subseteq Edits /\ KnowsFile(t, files', t.path)
      /\ files'[t.path].edits = t.edits
      /\ \A m \in Names : m # t.path => files'[m] = files[m]
      /\ shared \/ \A e \in saved' : Kept(files', e)
  BY <1>1, <1>2, WriteFacts
<1>4. shared \/ Sole(tabs[p], op[p], files', locks)
  BY <1>1, <1>3, SoleWrite
<1>5. shared \/ Sole(tabs[p], o, files', locks)
  BY <1>4 DEF Sole
<1>6. t.path \in UsesOf(tabs[p], op[p])
  BY DEF UsesOf, Paths
<1>7. \A n \in Names : n \notin UsesOf(tabs[p], op[p]) => files'[n] = files[n]
  BY <1>3, <1>6
<1>8. op'[p] = o /\ op' \in [Procs -> Handlers] /\ (\A q \in Procs \ {p} : op'[q] = op[q])
  BY <1>1
<1>9. \A n \in locks : n \in Owed(tabs[p], op[p]) => n \in Owed(tabs[p], o)
  BY DEF Owed
<1>10. QED
  BY <1>3, <1>5, <1>7, <1>8, <1>9, Here, StepInv

LEMMA SaveLastInv ==
  ASSUME FileInv, shared' = (shared \/ Overlap'), NEW p \in Procs, NEW pc \in {"save", "first"},
         SaveLast(p, pc)
  PROVE  FileInv'
<1>1. op[p].pc = pc /\ Done(p) /\ UNCHANGED <<locks, tabs, known, made>>
  BY DEF SaveLast
<1>2. /\ op \in [Procs -> Handlers] /\ Shape(tabs[p], op[p]) /\ HandlerAt(tabs[p], op[p])
      /\ shared \/ Sole(tabs[p], op[p], files, locks)
      /\ faults \in 0..MaxFaults /\ MaxFaults \in Nat
  BY Here, FileAssumption
<1>3. op[p].tab \in tabs[p] /\ op[p].tab.path # None /\ op[p].tab.path = op[p].name
  BY <1>1, <1>2 DEF HandlerAt, Shape
<1>4. /\ op'[p] = Idle /\ op' \in [Procs -> Handlers] /\ (\A q \in Procs \ {p} : op'[q] = op[q])
      /\ Idle \in Handlers /\ Idle.pc = "idle" /\ HandlerAt(tabs[p], Idle) /\ Shape(tabs[p], Idle)
  BY <1>1, <1>2, DoneFacts DEF Shape
<1>5. CASE Write(op[p].tab, op[p].name) /\ UNCHANGED <<faults, broken>>
  BY <1>1, <1>3, <1>4, <1>5, WriteInv DEF Done
<1>6. CASE Fail /\ UNCHANGED <<files, saved>>
  <2>1. faults' \in 0..MaxFaults /\ broken' \in BOOLEAN /\ broken'
    BY <1>2, <1>6 DEF Fail
  <2>2. shared \/ Sole(tabs[p], Idle, files, locks)
    BY <1>1, <1>2, <1>4 DEF Sole
  <2>3. tabs' = tabs /\ (shared' \/ Sole(tabs[p], Idle, files, locks))
    BY <1>1, <2>2
  <2>4. QED
    BY <1>1, <1>4, <1>6, <2>1, <2>3, Here, QuietInv
<1>7. QED
  BY <1>5, <1>6 DEF SaveLast

LEMMA ApplyInv ==
  ASSUME FileInv, shared' = (shared \/ Overlap'), NEW p \in Procs, NEW t \in tabs[p], Apply(p, t)
  PROVE  FileInv'
<1> DEFINE o == [pc |-> "backup", tab |-> t, name |-> t.path]
<1>1. op[p] = Idle /\ t.path # None /\ Write(t, t.path) /\ op' = [op EXCEPT ![p] = o]
      /\ UNCHANGED <<locks, tabs, known, made, faults, broken>>
  BY DEF Apply, Goto
<1>2. t \in Tab /\ t.path \in Names /\ Shape(tabs[p], op[p])
  BY <1>1, Here DEF Tab
<1>3. o \in Handlers /\ o.pc = "backup" /\ o.tab = t /\ o.name = t.path
  BY <1>2 DEF Handlers, Pcs
<1> HIDE DEF o
<1>4. HandlerAt(tabs[p], o) /\ Shape(tabs[p], o) /\ op[p].pc = "idle"
  BY <1>1, <1>2, <1>3 DEF HandlerAt, Shape, Idle
<1>5. QED
  BY <1>1, <1>3, <1>4, WriteInv

LEMMA BackupInv ==
  ASSUME FileInv, shared' = (shared \/ Overlap'), NEW p \in Procs, Backup(p)
  PROVE  FileInv'
<1> DEFINE t == op[p].tab
<1>1. op[p].pc = "backup" /\ UNCHANGED <<files, locks, known, made, saved>>
  BY DEF Backup
<1>2. /\ tabs[p] \in SUBSET Tab /\ op \in [Procs -> Handlers] /\ op[p] \in Handlers
      /\ tabs \in [Procs -> SUBSET Tab] /\ faults \in 0..MaxFaults /\ MaxFaults \in Nat
      /\ Shape(tabs[p], op[p]) /\ HandlerAt(tabs[p], op[p])
      /\ shared \/ Sole(tabs[p], op[p], files, locks)
  BY Here, FileAssumption
<1>3. t \in tabs[p] /\ t \in Tab /\ t.path # None /\ t.path \in Names
  BY <1>1, <1>2 DEF HandlerAt, Tab
<1>4. CASE Goto(p, "close", t, t.path) /\ UNCHANGED <<tabs, faults, broken>>
  <2> DEFINE o == [pc |-> "close", tab |-> t, name |-> t.path]
  <2>1. o \in Handlers /\ o.pc = "close" /\ o.tab = t /\ o.name = t.path
    BY <1>3 DEF Handlers, Pcs
  <2>2. op' = [op EXCEPT ![p] = o]
    BY <1>4 DEF Goto
  <2> HIDE DEF o
  <2>3. op'[p] = o /\ op' \in [Procs -> Handlers] /\ (\A q \in Procs \ {p} : op'[q] = op[q])
    BY <1>2, <2>1, <2>2
  <2>4. Shape(tabs[p], o) /\ HandlerAt(tabs[p], o)
    BY <1>2, <1>3, <2>1 DEF Shape, HandlerAt
  <2>5. shared \/ Sole(tabs[p], o, files, locks)
    BY <1>1, <1>2, <2>1 DEF Sole
  <2>6. \A m \in locks : m \in Owed(tabs[p], op[p]) => m \in Owed(tabs[p], o)
    BY <1>1 DEF Owed
  <2>7. QED
    BY <1>1, <1>4, <2>3, <2>4, <2>5, <2>6, Here, QuietInv
<1>5. CASE /\ Fail
           /\ Replace(p, t, [t EXCEPT !.id = BackupId(@)]) /\ Done(p)
  <2> DEFINE u == [t EXCEPT !.id = BackupId(@)]
             tb == (tabs[p] \ {t}) \cup {u}
  <2>1. BackupId(t.id) \in Ids
    BY <1>3 DEF BackupId, Ids, Tab
  <2>2. u \in Tab /\ u.path = t.path /\ u.bare = t.bare /\ u.edits = t.edits /\ u.waived = t.waived
    BY <1>3, <2>1 DEF Tab
  <2>3. tabs' = [tabs EXCEPT ![p] = tb]
    BY <1>5 DEF Replace
  <2> HIDE DEF u
  <2>4. tb \in SUBSET Tab
    BY <1>2, <2>2
  <2>5. \A v \in tb : v.path = None => v.bare
    BY <1>2, <1>3, <2>2 DEF Shape
  <2>6. /\ op'[p] = Idle /\ op' \in [Procs -> Handlers] /\ (\A q \in Procs \ {p} : op'[q] = op[q])
        /\ Idle.pc = "idle" /\ HandlerAt(tb, Idle) /\ Shape(tb, Idle)
    BY <1>2, <1>5, <2>5, DoneFacts
  <2>7. shared \/ Sole(tb, Idle, files, locks)
    BY <1>1, <1>2, <1>3, <2>2, <2>6 DEF Sole, KnowsFile
  <2> HIDE DEF tb
  <2>8. tabs'[p] = tb /\ tabs' \in [Procs -> SUBSET Tab]
        /\ (\A q \in Procs \ {p} : tabs'[q] = tabs[q])
    BY <1>2, <2>3, <2>4
  <2>9. faults' \in 0..MaxFaults /\ broken' \in BOOLEAN /\ broken'
    BY <1>2, <1>5 DEF Fail
  <2>10. QED
    BY <1>1, <2>6, <2>7, <2>8, <2>9, Here, QuietInv
<1>6. QED
  BY <1>4, <1>5 DEF Backup

\* The wallet is closed, for good or for its successor.
LEMMA CloseTabInv ==
  ASSUME FileInv, shared' = (shared \/ Overlap'), NEW p \in Procs, NEW t \in tabs[p], t.path # None,
         op[p].pc \in {"idle", "close"}, NEW u \in {None, [t EXCEPT !.bare = TRUE]}, CloseTab(p, t, u)
  PROVE  FileInv'
<1>1. UNCHANGED <<locks, known, made>>
  BY DEF CloseTab
<1>2. /\ tabs[p] \in SUBSET Tab /\ op \in [Procs -> Handlers] /\ t \in Tab /\ t.path \in Names
      /\ tabs \in [Procs -> SUBSET Tab] /\ faults \in 0..MaxFaults /\ MaxFaults \in Nat
      /\ Shape(tabs[p], op[p])
      /\ shared \/ Sole(tabs[p], op[p], files, locks)
  BY Here, FileAssumption DEF Tab
<1>3. u \in Tab \cup {None}
      /\ (u # None => u \in Tab /\ u.path = t.path /\ u.edits = t.edits /\ u.waived = t.waived
                      /\ u.bare)
  BY <1>2 DEF Tab
<1>4. CASE /\ Write(t, t.path) /\ tabs' = [tabs EXCEPT ![p] = @ \ {t}]
           /\ Goto(p, "unlock", u, t.path) /\ UNCHANGED <<faults, broken>>
  <2> DEFINE o == [pc |-> "unlock", tab |-> u, name |-> t.path]
             tb == tabs[p] \ {t}
  <2>1. o \in Handlers /\ o.pc = "unlock" /\ o.tab = u /\ o.name = t.path
    BY <1>2, <1>3 DEF Handlers, Pcs
  <2>2. op' = [op EXCEPT ![p] = o] /\ tabs' = [tabs EXCEPT ![p] = tb]
    BY <1>4 DEF Goto
  <2> HIDE DEF o
  <2>3. shared \/ KnowsFile(t, files, t.path)
    BY <1>2 DEF Sole, KnowsFile
  <2>4. /\ files' \in Files /\ saved' \subseteq Edits /\ KnowsFile(t, files', t.path)
        /\ files'[t.path].edits = t.edits
        /\ \A m \in Names : m # t.path => files'[m] = files[m]
        /\ shared \/ \A e \in saved' : Kept(files', e)
    BY <1>2, <1>4, <2>3, WriteFacts
  <2>5. Shape(tb, o) /\ HandlerAt(tb, o)
    BY <1>2, <1>3, <2>1 DEF Shape, HandlerAt
  <2>6. ASSUME ~shared
        PROVE  Sole(tb, o, files', locks)
    <3>1. Sole(tabs[p], op[p], files, locks)
      BY <1>2, <2>6
    <3>2. \A v \in tb : v.path # t.path /\ (v.path # None => v.path \in Names /\ KnowsFile(v, files, v.path))
      BY <1>2, <3>1 DEF Sole, Tab
    <3>3. \A v \in tb : v.path # None => KnowsFile(v, files', v.path)
      BY <2>4, <3>2 DEF KnowsFile
    <3>4. u # None => KnowsFile(u, files', t.path)
      BY <1>3, <2>4 DEF KnowsFile
    <3>5. t.path \notin Paths(tb)
      BY <3>2 DEF Paths
    <3>6. QED
      BY <2>1, <3>1, <3>3, <3>4, <3>5 DEF Sole
  <2>7. t.path \in UsesOf(tabs[p], op[p])
    BY DEF UsesOf, Paths
  <2>8. \A n \in Names : n \notin UsesOf(tabs[p], op[p]) => files'[n] = files[n]
    BY <2>4, <2>7
  <2>9. \A n \in locks : n \in Owed(tabs[p], op[p]) => n \in Owed(tb, o)
    BY <2>1 DEF Owed, Paths
  <2>10. tb \in SUBSET Tab
    BY <1>2
  <2> HIDE DEF tb
  <2>11. tabs'[p] = tb /\ tabs' \in [Procs -> SUBSET Tab] /\ op'[p] = o /\ op' \in [Procs -> Handlers]
         /\ (\A q \in Procs \ {p} : tabs'[q] = tabs[q] /\ op'[q] = op[q])
    BY <1>2, <2>1, <2>2, <2>10
  <2>12. broken' \in BOOLEAN /\ broken' = broken
    BY <1>4, Here
  <2>13. broken' \/ (~broken /\ \A n \in locks' : n \in Owed(tb, o)
                                   \/ (n \in locks /\ n \notin Owed(tabs[p], op[p])))
    BY <1>1, <2>9, <2>12
  <2>14. QED
    BY <1>1, <1>4, <2>4, <2>5, <2>6, <2>8, <2>11, <2>12, <2>13, Here, StepInv
<1>5. CASE /\ Fail
           /\ tabs' = [tabs EXCEPT ![p] = (@ \ {t}) \cup ({u} \ {None})]
           /\ Done(p) /\ UNCHANGED <<files, saved>>
  <2> DEFINE tb == (tabs[p] \ {t}) \cup ({u} \ {None})
  <2>1. tb \in SUBSET Tab /\ (\A v \in tb : v.path = None => v.bare)
    BY <1>2, <1>3 DEF Shape
  <2>2. /\ op'[p] = Idle /\ op' \in [Procs -> Handlers] /\ (\A q \in Procs \ {p} : op'[q] = op[q])
        /\ Idle.pc = "idle" /\ HandlerAt(tb, Idle) /\ Shape(tb, Idle)
    BY <1>2, <1>5, <2>1, DoneFacts
  <2>3. shared \/ Sole(tb, Idle, files, locks)
    BY <1>2, <1>3, <2>2 DEF Sole, KnowsFile
  <2>4. tabs' = [tabs EXCEPT ![p] = tb]
    BY <1>5
  <2> HIDE DEF tb
  <2>5. tabs'[p] = tb /\ tabs' \in [Procs -> SUBSET Tab]
        /\ (\A q \in Procs \ {p} : tabs'[q] = tabs[q])
    BY <1>2, <2>1, <2>4
  <2>6. faults' \in 0..MaxFaults /\ broken' \in BOOLEAN /\ broken'
    BY <1>2, <1>5 DEF Fail
  <2>7. QED
    BY <1>1, <1>5, <2>2, <2>3, <2>5, <2>6, Here, QuietInv
<1>6. QED
  BY <1>4, <1>5 DEF CloseTab

LEMMA CloseInv ==
  ASSUME FileInv, shared' = (shared \/ Overlap'), NEW p \in Procs, NEW t \in tabs[p], Close(p, t)
  PROVE  FileInv'
<1>1. op[p] = Idle /\ t.path # None /\ CloseTab(p, t, None)
  BY DEF Close
<1>2. op[p].pc = "idle" /\ None \in {None, [t EXCEPT !.bare = TRUE]}
  BY <1>1 DEF Idle
<1>3. QED
  BY <1>1, <1>2, CloseTabInv

LEMMA CloseToRecreateInv ==
  ASSUME FileInv, shared' = (shared \/ Overlap'), NEW p \in Procs, CloseToRecreate(p)
  PROVE  FileInv'
<1>1. op[p].pc = "close" /\ CloseTab(p, op[p].tab, [op[p].tab EXCEPT !.bare = TRUE])
  BY DEF CloseToRecreate
<1>2. op[p].tab \in tabs[p] /\ op[p].tab.path # None
  BY <1>1, Here DEF HandlerAt
<1>3. QED
  BY <1>1, <1>2, CloseTabInv

LEMMA UnlockInv ==
  ASSUME FileInv, shared' = (shared \/ Overlap'), NEW p \in Procs, Unlock(p)
  PROVE  FileInv'
<1> DEFINE u == op[p].tab
           n == op[p].name
           tb == tabs[p] \cup ({u} \ {None})
<1>1. op[p].pc = "unlock" /\ locks' = locks \ {n} /\ tabs' = [tabs EXCEPT ![p] = tb] /\ Done(p)
      /\ UNCHANGED <<files, known, made, faults, history>>
  BY DEF Unlock
<1>2. /\ tabs[p] \in SUBSET Tab /\ op \in [Procs -> Handlers] /\ op[p] \in Handlers
      /\ tabs \in [Procs -> SUBSET Tab] /\ locks \subseteq Names
      /\ Shape(tabs[p], op[p]) /\ HandlerAt(tabs[p], op[p])
      /\ shared \/ Sole(tabs[p], op[p], files, locks)
  BY Here
<1>3. n # None /\ (u # None => u \in Tab /\ u.path = n /\ u.bare)
  BY <1>1, <1>2 DEF HandlerAt, Handlers, Shape
<1>4. tb \in SUBSET Tab /\ Paths(tabs[p]) \subseteq Paths(tb)
      /\ (\A v \in tb : v.path = None => v.bare)
  BY <1>2, <1>3 DEF Paths, Shape
<1>5. /\ op'[p] = Idle /\ op' \in [Procs -> Handlers] /\ (\A q \in Procs \ {p} : op'[q] = op[q])
      /\ Idle.pc = "idle" /\ HandlerAt(tb, Idle) /\ Shape(tb, Idle)
  BY <1>1, <1>2, <1>4, DoneFacts
<1>6. ASSUME ~shared
      PROVE  Sole(tb, Idle, files, locks')
  <2>1. Sole(tabs[p], op[p], files, locks)
    BY <1>2, <1>6
  <2>2. n \notin Paths(tabs[p]) /\ (u # None => KnowsFile(u, files, n))
    BY <1>1, <2>1 DEF Sole
  <2>3. \A v \in tabs[p] : /\ v.path # n /\ (v.bare \/ v.path \in locks)
                           /\ v.path # None => KnowsFile(v, files, v.path)
    BY <1>1, <2>1, <2>2 DEF Sole, Paths
  <2>4. \A v, w \in tb : v.path = w.path /\ v.path # None => v = w
    BY <1>3, <2>1, <2>3 DEF Sole
  <2>5. \A v \in tb : v.path # None => KnowsFile(v, files, v.path)
    BY <1>3, <2>2, <2>3
  <2>6. \A v \in tb : v.bare \/ v.path \in locks'
    BY <1>1, <1>3, <2>3
  <2>7. QED
    BY <1>5, <2>4, <2>5, <2>6 DEF Sole
<1>7. n \in UsesOf(tabs[p], op[p])
  BY <1>3 DEF UsesOf
<1>8. \A m \in Names : m \notin UsesOf(tabs[p], op[p]) => (m \in locks' <=> m \in locks)
  BY <1>1, <1>7
<1>9. \A m \in locks' : m \in Owed(tb, Idle) \/ (m \in locks /\ m \notin Owed(tabs[p], op[p]))
  BY <1>1, <1>4 DEF Owed
<1> HIDE DEF tb
<1>10. tabs'[p] = tb /\ tabs' \in [Procs -> SUBSET Tab] /\ (\A q \in Procs \ {p} : tabs'[q] = tabs[q])
  BY <1>1, <1>2, <1>4
<1>11. files' = files /\ saved' = saved /\ broken' = broken /\ locks' \subseteq Names
       /\ known' = known /\ made' = made /\ faults' = faults
  BY <1>1, <1>2 DEF history
<1>12. broken' \/ (~broken /\ \A m \in locks' : m \in Owed(tb, Idle)
                                 \/ (m \in locks /\ m \notin Owed(tabs[p], op[p])))
  BY <1>9, <1>11
<1>13. QED
  BY <1>5, <1>6, <1>8, <1>10, <1>11, <1>12, Here, StepInv
-----------------------------------------------------------------------------
LEMMA StutterInv == FileInv /\ UNCHANGED vars => FileInv'
<1> SUFFICES ASSUME FileInv, UNCHANGED vars
             PROVE  FileInv'
  OBVIOUS
<1>1. UNCHANGED <<files, locks, tabs, known, op, made, faults, saved, shared, broken>>
  BY DEF vars
<1>2. TypeOK'
  BY <1>1 DEF FileInv, TypeOK, HandlersAtTabs
<1>3. Overlap' = Overlap
  BY <1>1 DEF Overlap, Twice, Uses, PathsOf
<1>4. LossNeedsSharing'
  BY <1>1 DEF FileInv, LossNeedsSharing
<1>5. QED
  BY <1>1, <1>2, <1>3, <1>4 DEF FileInv

LEMMA NextInv == FileInv /\ [Next]_vars => FileInv'
<1> SUFFICES ASSUME FileInv, [Next]_vars
             PROVE  FileInv'
  OBVIOUS
<1>1. CASE Next
  <2>1. shared' = (shared \/ Overlap')
    BY <1>1 DEF Next
  <2>2. PICK p \in Procs :
          \/ \E t \in tabs[p] :
               \/ Edit(p, t) \/ Save(p, t) \/ Apply(p, t) \/ Close(p, t) \/ Discard(p, t)
               \/ \E n \in Names : SaveNew(p, t, n) \/ Rename(p, t, n)
          \/ \E n \in Names : Create(p, n) \/ OpenCheck(p, n)
          \/ Load(p) \/ AddOpened(p)
          \/ SaveFirst(p) \/ Move(p) \/ Relock(p) \/ SaveRenamed(p)
          \/ Backup(p) \/ CloseToRecreate(p) \/ Unlock(p)
          \/ Crash(p)
    BY <1>1 DEF Next, Step
  <2>3. ASSUME NEW t \in tabs[p],
               \/ Edit(p, t) \/ Save(p, t) \/ Apply(p, t) \/ Close(p, t) \/ Discard(p, t)
               \/ \E n \in Names : SaveNew(p, t, n) \/ Rename(p, t, n)
        PROVE  FileInv'
    BY <2>1, <2>3, EditInv, SaveInv, ApplyInv, CloseInv, DiscardInv, SaveNewInv, RenameInv
  <2>4. ASSUME NEW n \in Names, Create(p, n) \/ OpenCheck(p, n)
        PROVE  FileInv'
    BY <2>1, <2>4, CreateInv, OpenCheckInv
  <2>5. CASE Load(p) \/ AddOpened(p) \/ Move(p) \/ Relock(p) \/ SaveLast(p, "save")
             \/ SaveLast(p, "first")
    BY <2>1, <2>5, LoadInv, AddOpenedInv, MoveInv, RelockInv, SaveLastInv
  <2>6. CASE Backup(p) \/ CloseToRecreate(p) \/ Unlock(p) \/ Crash(p)
    BY <2>1, <2>6, BackupInv, CloseToRecreateInv, UnlockInv, CrashInv
  <2>7. QED
    BY <2>2, <2>3, <2>4, <2>5, <2>6 DEF SaveFirst, SaveRenamed
<1>2. CASE UNCHANGED vars
  BY <1>2, StutterInv
<1>3. QED
  BY <1>1, <1>2

\* The invariant of the module holds in every reachable state.
THEOREM FileInvariant == Spec => []FileInv
<1>1. QED
  BY InitInv, NextInv, PTL DEF Spec
-----------------------------------------------------------------------------
(* The properties that TLC checks on a small instance. *)

\* Every variable keeps its type, and nothing moves below a handler.
THEOREM FileTypes == Spec => []TypeOK
<1>1. FileInv => TypeOK
  BY DEF FileInv
<1>2. QED
  BY <1>1, FileInvariant, PTL

\* What was saved once is in a file, whatever is renamed, recreated or closed, and wherever an
\* instance crashes or a save raises, unless two tabs, of one instance or of two, were at one
\* file or a person chose the file for the first save of another wallet.
THEOREM NothingIsLost == Spec => []LossNeedsSharing
<1>1. FileInv => LossNeedsSharing
  BY DEF FileInv
<1>2. QED
  BY <1>1, FileInvariant, PTL

\* The lock file of an opened wallet stays with it through its renames, unless two tabs, of one
\* instance or of two, were at one file.
THEOREM LockStays == Spec => []OpenedIsLocked
<1>1. FileInv => OpenedIsLocked
  BY DEF FileInv, Sole, OpenedIsLocked
<1>2. QED
  BY <1>1, FileInvariant, PTL

\* While nothing breaks, no lock file outlives its wallet's tab, whoever else had it open.
THEOREM LocksAreCleaned == Spec => []NoStaleLock
<1>1. ASSUME FileInv
      PROVE  NoStaleLock
  <2> SUFFICES ASSUME ~broken, NEW n \in locks
               PROVE  \E p \in Procs : n \in Uses(p)
    BY DEF NoStaleLock
  <2>1. PICK p \in Procs : n \in Owed(tabs[p], op[p])
    BY <1>1 DEF FileInv
  <2>2. n # None /\ Uses(p) = UsesOf(tabs[p], op[p])
    BY <1>1, Here, Vocabulary, FileAssumption DEF FileInv
  <2>3. n \in Uses(p)
    BY <2>1, <2>2 DEF Owed, UsesOf
  <2>4. QED
    BY <2>3
<1>2. QED
  BY <1>1, FileInvariant, PTL
=============================================================================
