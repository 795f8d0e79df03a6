----------------------------- MODULE WalletFile -----------------------------
(***************************************************************************)
(* The wallet files of a directory, their lock files, and the instances of *)
(* the program that open, save, rename, recreate and close them            *)
(* (gui/qt/main.py, gui/qt/qt_wallet.py).                                  *)
(*                                                                         *)
(* The instances share nothing but the directory.  An action is the code   *)
(* between two accesses to it; a crash may come between any two.  A file   *)
(* is known by its stem, which is also the id its wallet is given first.   *)
(* What a wallet holds is the set of the edits made to it.                 *)
(***************************************************************************)
EXTENDS Naturals, FiniteSets

CONSTANTS
  Procs,      \* instances of the program
  Names,      \* stems of wallet files
  None,
  MaxEdits,   \* edits, in all wallets together
  MaxFaults   \* crashes and failed writes

ASSUME FileAssumption ==
  /\ None \notin Names
  /\ \A n \in Names : <<n, "backup">> \notin Names
  /\ MaxEdits \in Nat /\ MaxFaults \in Nat

VARIABLES
  files,   \* stem -> what the file holds, or None
  locks,   \* stems whose lock file exists
  tabs,    \* instance -> its open wallets
  known,   \* instance -> the ids it has signals for (WalletFunctions.wallet_signals)
  op,      \* instance -> the handler its GUI thread is in
  made,    \* edits made so far
  faults,  \* crashes and failed writes so far
  saved,   \* history: edits that were in a file once and that nobody chose to replace
  shared,  \* history: two tabs, of one instance or of two, were at one file
  broken   \* history: an instance crashed, or a call raised

vars == <<files, locks, tabs, known, op, made, faults, saved, shared, broken>>
history == <<saved, broken>>

\* save_backup() gives the wallet the name of the backup while it is written.
BackupId(i) == IF i \in Names THEN <<i, "backup">> ELSE i
Ids     == Names \cup (Names \X {"backup"})
Edits   == 1..MaxEdits
Content == [id : Ids, edits : SUBSET Edits]
\* "bare": history, the tab took no lock, because it was created or recreated.  "waived":
\* history, what the file held that a person chose for the first save.
Tab     == [id : Ids, path : Names \cup {None}, edits : SUBSET Edits, bare : BOOLEAN,
            waived : SUBSET Edits]
ASSUME NoneAssumption == None \notin Content /\ None \notin Tab

Pcs     == {"idle", "load", "lock", "move", "relock", "save", "first",
            "backup", "close", "unlock"}

Idle == [pc |-> "idle", tab |-> None, name |-> None]
IdsOf(p)   == {t.id : t \in tabs[p]}       \* MainWindow.qt_wallets
PathsOf(p) == {t.path : t \in tabs[p]}
Uses(p)    == (PathsOf(p) \cup {op[p].name}) \ {None}
\* Another tab of the instance is at the file of t, or its handler goes there.
Twice(p, t) ==
  /\ t.path # None
  /\ \/ \E u \in tabs[p] \ {t} : u.path = t.path
     \/ op[p].name = t.path /\ op[p].tab # t
Overlap    == \/ \E p, q \in Procs : p # q /\ Uses(p) \cap Uses(q) # {}
              \/ \E p \in Procs : \E t \in tabs[p] : Twice(p, t)

Init ==
  /\ files \in [Names -> Content \cup {None}]
  /\ \A n \in Names : files[n] \in {None, [id |-> n, edits |-> {}]}
  /\ locks = {}
  /\ tabs = [p \in Procs |-> {}] /\ known = [p \in Procs |-> {}]
  /\ op = [p \in Procs |-> Idle]
  /\ made = 0 /\ faults = 0
  /\ saved = {} /\ shared = FALSE /\ broken = FALSE

Goto(p, pc, t, n) == op' = [op EXCEPT ![p] = [pc |-> pc, tab |-> t, name |-> n]]
Done(p)           == op' = [op EXCEPT ![p] = Idle]
Replace(p, t, u)  == tabs' = [tabs EXCEPT ![p] = (@ \ {t}) \cup {u}]

\* QTWallet.save_to(): the whole wallet replaces what the file held.
Write(t, n) ==
  /\ files' = [files EXCEPT ![n] = [id |-> t.id, edits |-> t.edits]]
  /\ saved' = (saved \ t.waived) \cup t.edits

\* A save that raises, before the file has changed.
Fail == faults < MaxFaults /\ faults' = faults + 1 /\ broken' = TRUE

\* Mutant: events are handled in the middle of a rename.
EditAnyTime(p, t) ==
  /\ made < MaxEdits
  /\ made' = made + 1
  /\ Replace(p, t, [t EXCEPT !.edits = @ \cup {made + 1}])
  /\ UNCHANGED <<files, locks, known, op, faults, history>>

\* A person changes a wallet.
Edit(p, t) ==
  /\ op[p] = Idle /\ made < MaxEdits
  /\ made' = made + 1
  /\ Replace(p, t, [t EXCEPT !.edits = @ \cup {made + 1}])
  /\ UNCHANGED <<files, locks, known, op, faults, history>>

\* save(), also after an update while a password is asked for, but not for the same wallet.
Save(p, t) ==
  /\ op[p].pc \in {"idle", "load", "first"} /\ t.path # None /\ t # op[p].tab
  /\ Write(t, t.path)
  /\ UNCHANGED <<locks, tabs, known, op, made, faults, broken>>

\* create_qtwallet_from_protowallet(), behind is_wallet_id_available().
Create(p, n) ==
  /\ op[p] = Idle /\ files[n] = None /\ n \notin IdsOf(p)
  /\ tabs' = [tabs EXCEPT ![p] = @ \cup {[id |-> n, path |-> None, edits |-> {}, bare |-> TRUE,
                                       waived |-> {}]}]
  /\ known' = [known EXCEPT ![p] = @ \cup {n}]
  /\ UNCHANGED <<files, locks, op, made, faults, history>>

\* The first save() asks for a file, which may exist and be open; the wallet takes no lock.
SaveNew(p, t, n) ==
  LET u == [t EXCEPT !.path = n, !.waived = IF files[n] = None THEN {} ELSE files[n].edits] IN
  /\ op[p] = Idle /\ t.path = None
  /\ Replace(p, t, u)
  /\ Goto(p, "first", u, n)
  /\ UNCHANGED <<files, locks, known, made, faults, history>>

\* save_to() at the end of a handler; a wallet keeps its new path when it raises.
SaveLast(p, pc) ==
  /\ op[p].pc = pc
  /\ \/ Write(op[p].tab, op[p].name) /\ UNCHANGED <<faults, broken>>
     \/ Fail /\ UNCHANGED <<files, saved>>
  /\ Done(p)
  /\ UNCHANGED <<locks, tabs, known, made>>

\* The rest of the first save(), after the password for a new file.
SaveFirst(p) == SaveLast(p, "first")

\* open_wallet() up to the password.  A lock file only leads to a question, which may be
\* answered with "Open anyway".
OpenCheck(p, n) ==
  /\ op[p] = Idle
  /\ n \notin PathsOf(p) /\ files[n] # None /\ n \notin IdsOf(p)
  /\ Goto(p, "load", None, n)
  /\ UNCHANGED <<files, locks, tabs, known, made, faults, history>>

\* from_file(), unless the file has gone or nobody knows the password.
Load(p) ==
  LET n == op[p].name IN
  /\ op[p].pc = "load"
  /\ \/ /\ files[n] # None
        /\ Goto(p, "lock", [id |-> files[n].id, path |-> n, edits |-> files[n].edits,
                            bare |-> FALSE, waived |-> {}], n)
     \/ Done(p)
  /\ UNCHANGED <<files, locks, tabs, known, made, faults, history>>

\* get_wallet_lockfile(), then add_qt_wallet(), whose assertion fails for an id that is open.
AddOpened(p) ==
  LET t == op[p].tab IN
  /\ op[p].pc = "lock"
  /\ locks' = locks \cup {t.path}
  /\ IF t.id \in IdsOf(p) THEN broken' = TRUE /\ UNCHANGED tabs
     ELSE tabs' = [tabs EXCEPT ![p] = @ \cup {t}] /\ UNCHANGED broken
  /\ known' = [known EXCEPT ![p] = @ \cup {t.id}]
  /\ Done(p)
  /\ UNCHANGED <<files, made, faults, saved>>

\* Mutant: nobody looks whether the new name is taken.
RenameOntoFile(p, t, n) ==
  LET u == [t EXCEPT !.id = n] IN
  /\ op[p] = Idle /\ n # t.id /\ n \notin known[p]
  /\ known' = [known EXCEPT ![p] = (@ \ {t.id}) \cup {n}]
  /\ Replace(p, t, u)
  /\ Goto(p, "move", u, n)
  /\ UNCHANGED <<files, locks, made, faults, history>>

\* QTWallet.change_wallet_id() up to the move: the id changes in memory.
Rename(p, t, n) ==
  LET u == [t EXCEPT !.id = n] IN
  /\ op[p] = Idle /\ n # t.id /\ files[n] = None /\ n \notin known[p]
  /\ known' = [known EXCEPT ![p] = (@ \ {t.id}) \cup {n}]
  /\ Replace(p, t, u)
  /\ Goto(p, "move", u, n)
  /\ UNCHANGED <<files, locks, made, faults, history>>

\* shutil.move() replaces a file that came meanwhile, and raises when the old one has gone.
Move(p) ==
  LET old == op[p].tab.path IN
  /\ op[p].pc = "move"
  /\ IF old # None /\ files[old] # None
     THEN /\ files' = [files EXCEPT ![old] = None, ![op[p].name] = files[old]]
          /\ Goto(p, "relock", op[p].tab, op[p].name)
          /\ UNCHANGED broken
     ELSE Done(p) /\ broken' = TRUE /\ UNCHANGED files
  /\ UNCHANGED <<locks, tabs, known, made, faults, saved>>

\* Mutant: the lock file of the old name stays.
RelockKeepingOld(p) ==
  LET t == op[p].tab  u == [t EXCEPT !.path = op[p].name, !.bare = FALSE] IN
  /\ op[p].pc = "relock"
  /\ locks' = locks \cup {op[p].name}
  /\ Replace(p, t, u)
  /\ \E pc \in {"save", "backup"} : Goto(p, pc, u, op[p].name)
  /\ UNCHANGED <<files, known, made, faults, history>>

\* Mutant: the lock file of the new name is not made.
RelockWithoutNew(p) ==
  LET t == op[p].tab  u == [t EXCEPT !.path = op[p].name, !.bare = FALSE] IN
  /\ op[p].pc = "relock"
  /\ locks' = locks \ {t.path}
  /\ Replace(p, t, u)
  /\ \E pc \in {"save", "backup"} : Goto(p, pc, u, op[p].name)
  /\ UNCHANGED <<files, known, made, faults, history>>

\* The rest of change_wallet_id(); after it the wallet is saved, or recreated.
Relock(p) ==
  LET t == op[p].tab  u == [t EXCEPT !.path = op[p].name, !.bare = FALSE] IN
  /\ op[p].pc = "relock"
  /\ locks' = (locks \ {t.path}) \cup {op[p].name}
  /\ Replace(p, t, u)
  /\ \E pc \in {"save", "backup"} : Goto(p, pc, u, op[p].name)
  /\ UNCHANGED <<files, known, made, faults, history>>

\* save() after the rename.
SaveRenamed(p) == SaveLast(p, "save")

\* on_qtwallet_apply_setting_changes() saves, then a change that needs a new wallet follows.
Apply(p, t) ==
  /\ op[p] = Idle /\ t.path # None
  /\ Write(t, t.path)
  /\ Goto(p, "backup", t, t.path)
  /\ UNCHANGED <<locks, tabs, known, made, faults, broken>>

\* save_backup(): when saving raises, the wallet keeps the backup's name and nothing follows.
Backup(p) ==
  LET t == op[p].tab IN
  /\ op[p].pc = "backup"
  /\ \/ Goto(p, "close", t, t.path) /\ UNCHANGED <<tabs, faults, broken>>
     \/ /\ Fail
        /\ Replace(p, t, [t EXCEPT !.id = BackupId(@)])
        /\ Done(p)
  /\ UNCHANGED <<files, locks, known, made, saved>>

\* _remove_qt_wallet(): the tab goes, the wallet is saved and closed; "u" is its successor.
CloseTab(p, t, u) ==
  /\ \/ /\ Write(t, t.path)
        /\ tabs' = [tabs EXCEPT ![p] = @ \ {t}]
        /\ Goto(p, "unlock", u, t.path)
        /\ UNCHANGED <<faults, broken>>
     \/ /\ Fail
        /\ tabs' = [tabs EXCEPT ![p] = (@ \ {t}) \cup ({u} \ {None})]
        /\ Done(p)
        /\ UNCHANGED <<files, saved>>
  /\ UNCHANGED <<locks, known, made>>

Close(p, t) == op[p] = Idle /\ t.path # None /\ CloseTab(p, t, None)

\* A wallet that never was saved, and that nobody wants to save.
Discard(p, t) ==
  /\ op[p] = Idle /\ t.path = None
  /\ tabs' = [tabs EXCEPT ![p] = @ \ {t}]
  /\ UNCHANGED <<files, locks, known, op, made, faults, history>>

\* _recreate_qt_wallet() closes the wallet before it adds the new one.
CloseToRecreate(p) ==
  /\ op[p].pc = "close"
  /\ CloseTab(p, op[p].tab, [op[p].tab EXCEPT !.bare = TRUE])

\* remove_lockfile(), whoever took the lock; the new wallet takes none.
Unlock(p) ==
  /\ op[p].pc = "unlock"
  /\ locks' = locks \ {op[p].name}
  /\ tabs' = [tabs EXCEPT ![p] = @ \cup ({op[p].tab} \ {None})]
  /\ Done(p)
  /\ UNCHANGED <<files, known, made, faults, history>>

\* The instance ends at once and is started again.
Crash(p) ==
  /\ Fail
  /\ tabs' = [tabs EXCEPT ![p] = {}] /\ known' = [known EXCEPT ![p] = {}]
  /\ Done(p)
  /\ UNCHANGED <<files, locks, made, saved>>

Step ==
  \E p \in Procs :
    \/ \E t \in tabs[p] :
         \/ Edit(p, t) \/ Save(p, t) \/ Apply(p, t) \/ Close(p, t) \/ Discard(p, t)
         \/ \E n \in Names : SaveNew(p, t, n) \/ Rename(p, t, n)
    \/ \E n \in Names : Create(p, n) \/ OpenCheck(p, n)
    \/ Load(p) \/ AddOpened(p)
    \/ SaveFirst(p) \/ Move(p) \/ Relock(p) \/ SaveRenamed(p)
    \/ Backup(p) \/ CloseToRecreate(p) \/ Unlock(p)
    \/ Crash(p)

Next == Step /\ shared' = (shared \/ Overlap')
Spec == Init /\ [][Next]_vars

----------------------------------------------------------------------------
\* The tab a handler works on is still there, as the handler knows it.
HandlersAtTabs ==
  \A p \in Procs :
    /\ op[p].pc \in {"move", "relock", "save", "first", "backup", "close"}
         => op[p].tab \in tabs[p]
    /\ op[p].pc \in {"relock", "save", "first", "backup", "close"} => op[p].tab.path # None
    /\ op[p].pc # "idle" => op[p].name # None
    /\ op[p].pc = "lock" => op[p].tab # None /\ op[p].tab.path = op[p].name

\* Every variable has its type, and nothing moves below a handler.
TypeOK ==
  /\ files \in [Names -> Content \cup {None}]
  /\ locks \subseteq Names
  /\ tabs \in [Procs -> SUBSET Tab]
  /\ known \in [Procs -> SUBSET Ids]
  /\ op \in [Procs -> [pc : Pcs, tab : Tab \cup {None}, name : Names \cup {None}]]
  /\ made \in 0..MaxEdits /\ faults \in 0..MaxFaults
  /\ saved \subseteq Edits /\ shared \in BOOLEAN /\ broken \in BOOLEAN
  /\ HandlersAtTabs

\* What was saved once is in a file from then on, through renames, recreations, closing,
\* crashes between their steps and saves that raise before the file has changed.  Two things
\* can lose it: two tabs, of one instance or of two, at one file (gui/qt/main.py:2277,
\* gui/qt/qt_wallet.py:1182), and a person who chose the file for the first save of another
\* wallet ("waived").
LossNeedsSharing ==
  shared \/ \A e \in saved : \E n \in Names : files[n] # None /\ e \in files[n].edits

\* A wallet that was opened has its lock file until it is closed, through renames
\* (gui/qt/qt_wallet.py:1123), as long as no two tabs, of one instance or of two, were at one
\* file; wallets that were created or recreated have none.
OpenedIsLocked ==
  shared \/ \A p \in Procs : \A t \in tabs[p] : t.bare \/ t.path \in locks

\* Unless an instance crashed or a call raised, no lock file outlives its wallet's tab,
\* whoever else had the file open (gui/qt/main.py:2993, tests/gui/qt/test_wallet_open.py:278).
NoStaleLock ==
  broken \/ \A n \in locks : \E p \in Procs : n \in Uses(p)

\* gui/qt/main.py:2827 asserts that the id of a wallet that is added is not open yet.  This does
\* not hold: a wallet may have been saved under another name than its id, or a rename cut short.
IdsAreUnique ==
  \A p \in Procs : op[p].pc = "lock" => op[p].tab.id \notin IdsOf(p)
=============================================================================
