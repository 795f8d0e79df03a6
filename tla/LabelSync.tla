----------------------------- MODULE LabelSync -----------------------------
(***************************************************************************)
(* The labels of a wallet on several devices: Labels (labels.py), whose    *)
(* import keeps the newer entry of each address, and LabelSyncer           *)
(* (plugins/chat_sync), which publishes changes to the trusted devices.    *)
(*                                                                         *)
(* Label and category of an address live in one entry with one timestamp   *)
(* and are merged as a whole, so an entry is its value and that time.      *)
(* Whether a user or the wallet itself chose it is not stored by the code; *)
(* the history "chosen" tells the properties.                              *)
(***************************************************************************)
EXTENDS Naturals, Sequences, FiniteSets, FiniteSetsExt, SequencesExt

CONSTANTS
  Devices,        \* the devices that trust each other
  Refs,           \* addresses
  Vals,           \* what may be written into an entry
  AutoWrites,     \* what the wallet may write by itself: <<device, address, value>>
  NoVal,          \* the value of an address without entry
  SnapshotLimit,  \* Labels._snapshot_limit
  MaxNow,         \* the clock shows no more than this
  MaxAuto,        \* how often the wallet writes an entry by itself
  MaxExtras,      \* how often that, or that a device sends all it has, happens together
  MaxSwitches     \* how often the plugin is switched off or on

ASSUME LabelAssumption ==
  /\ NoVal \notin Vals
  /\ AutoWrites \subseteq Devices \X Refs \X Vals
  /\ {SnapshotLimit, MaxNow} \subseteq Nat \ {0}
  /\ {MaxAuto, MaxExtras, MaxSwitches} \subseteq Nat

VARIABLES
  data,    \* device -> address -> entry: Labels.data
  snaps,   \* device -> Labels._snapshots
  net,     \* messages on their way: [from, to, batch], batch a set of <<address, entry>>
  enabled, \* device -> LabelSyncer.enabled
  told,    \* device -> device -> the labels it last answered a trust with, as their fingerprint
  chosen,  \* history: <<address, entry>> for every entry a person wrote or restored
  behind,  \* history: <<d, e>> when something a person wrote at d did not reach e
  now,     \* the clock, the same for all devices
  sends,   \* how often a device sent everything
  autos,   \* how often the wallet wrote by itself
  switches \* how often the plugin was switched off or on

vars == <<data, snaps, net, enabled, told, chosen, behind, now, sends, autos, switches>>

Automatic == 1     \* AUTOMATIC_TIMESTAMP, before every real time
Absent    == [val |-> NoVal, ts |-> 0]
Entries   == [val : Vals, ts : Automatic..MaxNow] \cup {Absent}

Init ==
  /\ data = [d \in Devices |-> [r \in Refs |-> Absent]]
  /\ snaps = [d \in Devices |-> <<>>]
  /\ net = {} /\ chosen = {} /\ behind = {}
  /\ enabled = [d \in Devices |-> TRUE]
  /\ told = [d \in Devices |-> [e \in Devices |-> <<>>]]
  /\ now = Automatic
  /\ sends = 0 /\ autos = 0 /\ switches = 0

------------------------------------------------------------------------------
(* Labels *)

\* Mutant: old snapshots are kept for ever.
StoreUnlimited(d) ==
  snaps' = [snaps EXCEPT ![d] = IF @ # <<>> /\ Last(@) = data[d] THEN @ ELSE Append(@, data[d])]

\* _store_snapshot(): the state before a change, unless it is the last one already.
StoreSnapshot(d) ==
  snaps' = [snaps EXCEPT ![d] =
    IF @ # <<>> /\ Last(@) = data[d] THEN @
    ELSE LET longer == Append(@, data[d])
         IN  IF Len(longer) > SnapshotLimit THEN Tail(longer) ELSE longer]

\* get_timestamp_range(): the first moment at which somebody wrote by hand, 0 for never.
Earliest(entries) ==
  LET manual == {e.ts : e \in entries} \ {0, Automatic}
  IN  IF manual = {} THEN 0 ELSE Min(manual)

\* _should_overwrite_mine_when_tie(): the older collection of labels wins.
OverwriteWhenTie(mine, batch) ==
  LET my == Earliest({mine[r] : r \in Refs})
      other == Earliest({b[2] : b \in batch})
  IN  other # 0 /\ (my = 0 \/ other <= my)

\* Mutant: a received entry that is older overwrites as well.
OverwriteAny(new, old, tie) == TRUE

\* _should_overwrite()
ShouldOverwrite(new, old, tie) ==
  \/ old.ts = 0
  \/ new.ts > old.ts
  \/ new.ts = old.ts /\ tie

\* import_labels(): the tie breaker is decided once, before the first entry changes.
Imported(mine, batch) ==
  LET tie == OverwriteWhenTie(mine, batch)
      accepted == {b \in batch : b[2] # mine[b[1]] /\ ShouldOverwrite(b[2], mine[b[1]], tie)}
  IN  [r \in Refs |-> IF \E b \in accepted : b[1] = r
                      THEN (CHOOSE b \in accepted : b[1] = r)[2] ELSE mine[r]]

\* Mutant: a restored entry keeps the time it had in the snapshot.
RestoredOld(mine, old, t) ==
  [r \in Refs |-> IF old[r].ts # 0 /\ old[r] # mine[r] THEN old[r] ELSE mine[r]]

\* import_labels(force_overwrite=True): what differs is written again, now.
Restored(mine, old, t) ==
  [r \in Refs |-> IF old[r].ts # 0 /\ old[r] # mine[r] THEN [old[r] EXCEPT !.ts = t] ELSE mine[r]]

\* set_label(), set_category() and set_timestamp(), which never goes back.
Written(mine, r, v, t) ==
  [mine EXCEPT ![r] = [val |-> v, ts |-> IF t > @.ts THEN t ELSE @.ts]]

------------------------------------------------------------------------------
(* LabelSyncer *)

Batch(labels, refs) == {<<r, labels[r]>> : r \in {q \in refs : labels[q].ts # 0}}
To(d, e, batch)     == IF batch = {} THEN {} ELSE {[from |-> d, to |-> e, batch |-> batch]}
Changed(d)          == {r \in Refs : data'[d][r] # data[d][r]}
Others(d)           == Devices \ {d}

\* What a person writes while the plugin is disabled is not sent, then or later.
Unsent(d) == IF enabled[d] THEN {} ELSE {d} \X Others(d)

\* Mutant: the syncer answers its own imports.
PublishAlways(d, refs, reason) ==
  UNION {To(d, e, Batch(data'[d], refs)) : e \in Others(d)}

\* on_labels_updated(): entries as they are now, except when the change came from here.
Publish(d, refs, reason) ==
  IF ~enabled[d] \/ reason = "SourceLabelSyncer" THEN {}
  ELSE UNION {To(d, e, Batch(data'[d], refs)) : e \in Others(d)}

\* A user writes an entry.
Edit(d) ==
  /\ now < MaxNow
  /\ now' = now + 1
  /\ StoreSnapshot(d)
  /\ \E r \in Refs, v \in Vals :
       /\ data' = [data EXCEPT ![d] = Written(@, r, v, now')]
       /\ chosen' = chosen \cup Batch(data'[d], {r})
       /\ net' = net \cup Publish(d, {r}, "UserInput")
  /\ behind' = behind \cup Unsent(d)
  /\ UNCHANGED <<enabled, told, sends, autos, switches>>

\* set_addr_category_if_unused(), get_unused_category_address(): the wallet gives an
\* unused address a category.  Not every caller tells the others.
AutoAssign(d) ==
  /\ autos < MaxAuto /\ sends + autos < MaxExtras
  /\ autos' = autos + 1
  /\ StoreSnapshot(d)
  /\ \E r \in Refs, v \in Vals, tells \in BOOLEAN :
       /\ <<d, r, v>> \in AutoWrites
       /\ data' = [data EXCEPT ![d] = Written(@, r, v, Automatic)]
       /\ net' = IF tells THEN net \cup Publish(d, {r}, "UnusedAddressesCategorySet") ELSE net
  /\ UNCHANGED <<enabled, told, chosen, behind, now, sends, switches>>

\* set_categories_of_used_addresses(): fill in what has no category, tell nobody.
AutoFill(d) ==
  /\ autos < MaxAuto /\ sends + autos < MaxExtras
  /\ autos' = autos + 1
  /\ StoreSnapshot(d)
  /\ \E r \in {q \in Refs : data[d][q].ts = 0}, v \in Vals :
       /\ <<d, r, v>> \in AutoWrites
       /\ data' = [data EXCEPT ![d] = Written(@, r, v, Automatic)]
  /\ UNCHANGED <<net, enabled, told, chosen, behind, now, sends, switches>>

\* restore_snapshot(): snapshot what there is, then import the chosen state by force.
Restore(d) ==
  /\ now < MaxNow
  /\ now' = now + 1
  /\ StoreSnapshot(d)
  /\ \E i \in 1..Len(snaps[d]) :
       data' = [data EXCEPT ![d] = Restored(@, snaps[d][i], now')]
  /\ chosen' = chosen \cup Batch(data'[d], Changed(d))
  /\ net' = net \cup Publish(d, Changed(d), "RestoredSnapshot")
  /\ behind' = behind \cup Unsent(d)
  /\ UNCHANGED <<enabled, told, sends, autos, switches>>

\* send_all_labels(): many labels take several messages.
SendAll(d, e) ==
  /\ enabled[d] /\ sends + autos < MaxExtras
  /\ sends' = sends + 1
  /\ \E inParts \in BOOLEAN :
       net' = net \cup (IF inParts THEN UNION {To(d, e, Batch(data[d], {r})) : r \in Refs}
                                   ELSE To(d, e, Batch(data[d], Refs)))
  /\ behind' = behind \ {<<d, e>>}
  /\ UNCHANGED <<data, snaps, enabled, chosen, now, autos, switches>>

\* on_add_trusted_device()
AddTrusted(d, e) == SendAll(d, e) /\ UNCHANGED told

\* on_trusted_device_published_trust_me_back(): not again with the same labels.
TrustMeBack(d, e) ==
  /\ told[d][e] # data[d]
  /\ told' = [told EXCEPT ![d][e] = data[d]]
  /\ SendAll(d, e)

\* set_enabled()
Switch(d) ==
  /\ switches < MaxSwitches
  /\ switches' = switches + 1
  /\ enabled' = [enabled EXCEPT ![d] = ~@]
  /\ UNCHANGED <<data, snaps, net, told, chosen, behind, now, sends, autos>>

\* on_nostr_label_bip329_received(), in any order; the signal it emits comes
\* back to on_labels_updated().
Receive(d) ==
  /\ enabled[d]
  /\ \E m \in {n \in net : n.to = d} :
       /\ data' = [data EXCEPT ![d] = Imported(@, m.batch)]
       /\ net' = (net \ {m}) \cup Publish(d, Changed(d), "SourceLabelSyncer")
  /\ StoreSnapshot(d)
  /\ UNCHANGED <<enabled, told, chosen, behind, now, sends, autos, switches>>

\* A disabled device drops what still arrives.
Drop(d) ==
  /\ ~enabled[d]
  /\ \E m \in {n \in net : n.to = d} :
       /\ net' = net \ {m}
       /\ behind' = behind \cup {<<m.from, d>>}
  /\ UNCHANGED <<data, snaps, enabled, told, chosen, now, sends, autos, switches>>

------------------------------------------------------------------------------
Next ==
  \E d \in Devices :
    \/ Edit(d) \/ AutoAssign(d) \/ AutoFill(d) \/ Restore(d) \/ Receive(d) \/ Drop(d) \/ Switch(d)
    \/ \E e \in Others(d) : AddTrusted(d, e) \/ TrustMeBack(d, e)

Spec == Init /\ [][Next]_vars

\* The relays deliver what was sent; nobody has to edit anything.
FairSpec == Spec /\ \A d \in Devices : WF_vars(Receive(d) \/ Drop(d))

------------------------------------------------------------------------------
(* Properties *)

\* Every variable keeps its type.
TypeOK ==
  /\ data \in [Devices -> [Refs -> Entries]]
  /\ snaps \in [Devices -> Seq([Refs -> Entries])]
  /\ \A d \in Devices : Len(snaps[d]) <= SnapshotLimit
  /\ \A m \in net : /\ m.from \in Devices /\ m.to \in Others(m.from)
                   /\ m.batch # {} /\ m.batch \subseteq Refs \X (Entries \ {Absent})
  /\ enabled \in [Devices -> BOOLEAN]
  /\ told \in [Devices -> [Devices -> [Refs -> Entries] \cup {<<>>}]]
  /\ chosen \subseteq Refs \X (Entries \ {Absent})
  /\ behind \subseteq Devices \X Devices
  /\ now \in Automatic..MaxNow
  /\ sends \in 0..MaxExtras /\ autos \in 0..MaxAuto /\ switches \in 0..MaxSwitches

\* What a device has for an address is what a person wrote or restored, there or elsewhere.
ByHand(d, r) == <<r, data[d][r]>> \in chosen

(* Once nothing is on its way, all devices have the same time for an address *)
(* that anybody ever wrote by hand, and those where a user's choice is in    *)
(* force have the same choice: whatever the order in which edits, restores,  *)
(* full copies and parts of them arrive (import_labels, _should_overwrite).  *)
(* A device whose plugin was disabled while it or another one changed has to *)
(* be sent everything first; a full copy is enough (send_all_labels).        *)
QuietDevicesAgree ==
  net = {} /\ behind = {} =>
    \A d, e \in Devices, r \in Refs :
      LET mine == data[d][r]  yours == data[e][r] IN
      mine.ts > Automatic => /\ yours.ts = mine.ts
                             /\ ByHand(d, r) /\ ByHand(e, r) => mine = yours

(* The entry of an address never goes back in time and never disappears: no  *)
(* message that was sent before an edit or a restore, however late it        *)
(* arrives, resets it ("ensures that it doesnt get reset by an old state",   *)
(* labels.py:585).                                                           *)
NeverReset == [][\A d \in Devices, r \in Refs : data'[d][r].ts >= data[d][r].ts]_vars

(* The devices stop talking: when nobody edits any more, the messages run    *)
(* out, even while two devices hold different entries with equal times and   *)
(* keep overwriting each other (on_labels_updated ignores SourceLabelSyncer).*)
TalkEnds == <>[](net = {})

(* What test_label_timestamp_correctly (tests/non_gui/test_labels.py:258)     *)
(* calls crucial: when labels are exchanged, those set by hand supersede the  *)
(* automatic ones, so that an import never replaces a choice of the user by   *)
(* one of the wallet.  This does not hold: a value that the wallet wrote over *)
(* a user's keeps the time of the user's, and the tie breaker imports it.     *)
ManualSupersedesAutomatic ==
  [][\A d \in Devices, r \in Refs :
       ByHand(d, r) /\ ~ByHand(d, r)' => autos' # autos]_vars

==============================================================================
