-------------------------- MODULE LabelSyncProofs --------------------------
(***************************************************************************)
(* Proofs about LabelSync, for any devices, addresses and values, any      *)
(* number of edits and full copies and any limit of the snapshots.         *)
(*                                                                         *)
(* All that a step of a device d may do to the labels and the messages is  *)
(* said once, in Turn(d).  Each action is such a turn, and each turn keeps *)
(* the invariant.                                                          *)
(***************************************************************************)
EXTENDS LabelSync, TLAPS

\* Nothing is known that was written later than now.
Past ==
  /\ \A d \in Devices, r \in Refs : data[d][r].ts <= now
  /\ \A m \in net : \A b \in m.batch : b[2].ts <= now
  /\ \A c \in chosen : c[2].ts <= now

\* A message has at most one entry for an address.
OneEntryEach == \A m \in net : \A b, c \in m.batch : b[1] = c[1] => b = c

\* Device o sent e an entry for r of time t or later, and it is on its way.
Coming(o, e, r, t) ==
  \E m \in net : m.from = o /\ m.to = e /\ \E b \in m.batch : b[1] = r /\ b[2].ts >= t

\* Somebody has an entry of time t or later, and everybody else has one too, will get it
\* from there, or is known to be behind.
Spread(r, t) ==
  \E o \in Devices :
    /\ data[o][r].ts >= t
    /\ \A e \in Others(o) : data[e][r].ts >= t \/ Coming(o, e, r, t) \/ <<o, e>> \in behind

\* That holds of every time by hand, at a device or on its way.
AllSpread ==
  /\ \A d \in Devices, r \in Refs : data[d][r].ts > Automatic => Spread(r, data[d][r].ts)
  /\ \A m \in net : \A b \in m.batch : b[2].ts > Automatic => Spread(b[1], b[2].ts)

\* Entry x of address r is at a device or on its way.
Seen(r, x) ==
  \/ \E d \in Devices : data[d][r] = x
  \/ \E m \in net : <<r, x>> \in m.batch

\* The clock tells the choices of the users apart.
OneChoice == \A b, c \in chosen : b[1] = c[1] /\ b[2].ts = c[2].ts => b = c

LabelInv == TypeOK /\ Past /\ OneEntryEach /\ AllSpread /\ OneChoice

-----------------------------------------------------------------------------
(* What a step of device d does. *)

\* Message m of d is a copy of some of these labels.
CopyOf(m, d, labels) ==
  /\ m.from = d /\ m.to \in Others(d) /\ m.batch # {}
  /\ \A b \in m.batch : b[1] \in Refs /\ b = <<b[1], labels[b[1]]>> /\ b[2].ts # 0

\* Message m brings entry x of r from d to e.
Brings(m, d, e, r, x) == m.from = d /\ m.to = e /\ <<r, x>> \in m.batch

\* A new time: later than all others, and sent to everybody unless they are behind.
Newest(d, r) ==
  /\ data'[d][r].ts > now /\ data'[d][r].ts <= now'
  /\ \A e \in Others(d) :
       \/ <<d, e>> \in behind'
       \/ \E m \in net' : Brings(m, d, e, r, data'[d][r])

\* An entry after the step: as before, received, given by the wallet, or the newest.
EntryAfter(d, r) ==
  \/ data'[d][r] = data[d][r]
  \/ \E m \in net : <<r, data'[d][r]>> \in m.batch
  \/ data'[d][r].ts \in {data[d][r].ts, Automatic}
  \/ Newest(d, r)

\* A person has chosen this in the step.
NewChoice(d, c) == c[1] \in Refs /\ c = <<c[1], data'[d][c[1]]>> /\ Newest(d, c[1])

Turn(d) ==
  /\ data' \in [Devices -> [Refs -> Entries]]
  /\ \A e \in Others(d) : data'[e] = data[e]
  /\ \A r \in Refs : data'[d][r].ts >= data[d][r].ts
  /\ \A r \in Refs : EntryAfter(d, r)
  /\ now' \in Automatic..MaxNow /\ now <= now'
  /\ \A m \in net' : m \in net \/ CopyOf(m, d, data'[d])
  /\ \A m \in net \ net' :
       \/ \A b \in m.batch : data'[m.to][b[1]].ts >= b[2].ts
       \/ <<m.from, m.to>> \in behind'
  /\ \A o, e \in Devices :
       <<o, e>> \in behind \ behind' =>
         \A r \in Refs : data[o][r].ts # 0 => \E m \in net' : Brings(m, o, e, r, data[o][r])
  /\ \A c \in chosen' : c \in chosen \/ NewChoice(d, c)

-----------------------------------------------------------------------------
(* Entries and what is done to them. *)

LEMMA EntryFacts ==
  ASSUME NEW x \in Entries
  PROVE  /\ x.ts \in Nat
         /\ x.ts # 0 <=> x # Absent
         /\ x.ts # 0 => x \in [val : Vals, ts : Automatic..MaxNow]
<1>1. CASE x \in [val : Vals, ts : Automatic..MaxNow]
  <2>1. x.ts \in Automatic..MaxNow /\ MaxNow \in Nat
    BY <1>1, LabelAssumption
  <2>2. x.ts \in Nat /\ x.ts # 0
    BY <2>1 DEF Automatic
  <2>3. x # Absent
    BY <2>2 DEF Absent
  <2>4. QED
    BY <1>1, <2>1, <2>2, <2>3
<1>2. CASE x = Absent
  BY <1>2 DEF Absent
<1>3. QED
  BY <1>1, <1>2 DEF Entries

\* set_label(): one entry changes, and its time does not go back.
LEMMA WrittenFacts ==
  ASSUME NEW mine \in [Refs -> Entries], NEW r \in Refs, NEW v \in Vals,
         NEW t \in Automatic..MaxNow
  PROVE  /\ Written(mine, r, v, t) \in [Refs -> Entries]
         /\ \A q \in Refs \ {r} : Written(mine, r, v, t)[q] = mine[q]
         /\ t > mine[r].ts => Written(mine, r, v, t)[r].ts = t
         /\ ~(t > mine[r].ts) => Written(mine, r, v, t)[r].ts = mine[r].ts
<1> DEFINE next == [val |-> v, ts |-> IF t > mine[r].ts THEN t ELSE mine[r].ts]
<1>1. mine[r] \in Entries
  OBVIOUS
<1>2. (IF t > mine[r].ts THEN t ELSE mine[r].ts) \in Automatic..MaxNow
  BY <1>1, EntryFacts, LabelAssumption DEF Automatic
<1>3. next \in Entries
  BY <1>2 DEF Entries
<1>4. next.ts = IF t > mine[r].ts THEN t ELSE mine[r].ts
  OBVIOUS
<1>5. Written(mine, r, v, t) = [mine EXCEPT ![r] = next]
  BY DEF Written
<1> HIDE DEF next
<1>6. QED
  BY <1>3, <1>4, <1>5

\* import_labels() by force: what changes has the time given.
LEMMA RestoredFacts ==
  ASSUME NEW mine \in [Refs -> Entries], NEW old \in [Refs -> Entries],
         NEW t \in Automatic..MaxNow
  PROVE  /\ Restored(mine, old, t) \in [Refs -> Entries]
         /\ \A q \in Refs : \/ Restored(mine, old, t)[q] = mine[q]
                           \/ Restored(mine, old, t)[q].ts = t
<1>1. ASSUME NEW q \in Refs, old[q].ts # 0
      PROVE  [old[q] EXCEPT !.ts = t] \in Entries /\ [old[q] EXCEPT !.ts = t].ts = t
  <2>1. old[q] \in [val : Vals, ts : Automatic..MaxNow]
    BY <1>1, EntryFacts
  <2>2. QED
    BY <2>1 DEF Entries
<1>2. QED
  BY <1>1 DEF Restored

\* import_labels(): every entry is an old or a received one, and none is older than it
\* was or than what was received.
LEMMA ImportedFacts ==
  ASSUME NEW mine \in [Refs -> Entries], NEW batch \in SUBSET (Refs \X (Entries \ {Absent})),
         \A b, c \in batch : b[1] = c[1] => b = c
  PROVE  /\ Imported(mine, batch) \in [Refs -> Entries]
         /\ \A r \in Refs : \/ Imported(mine, batch)[r] = mine[r]
                           \/ <<r, Imported(mine, batch)[r]>> \in batch
         /\ \A r \in Refs : Imported(mine, batch)[r].ts >= mine[r].ts
         /\ \A b \in batch : Imported(mine, batch)[b[1]].ts >= b[2].ts
<1> DEFINE tie == OverwriteWhenTie(mine, batch)
           accepted == {b \in batch : b[2] # mine[b[1]] /\ ShouldOverwrite(b[2], mine[b[1]], tie)}
<1>1. Imported(mine, batch) =
        [r \in Refs |-> IF \E b \in accepted : b[1] = r
                        THEN (CHOOSE b \in accepted : b[1] = r)[2] ELSE mine[r]]
  BY DEF Imported
<1>2. \A b \in batch : /\ b[1] \in Refs /\ b[2] \in Entries /\ b = <<b[1], b[2]>>
                       /\ b[2].ts \in Nat /\ mine[b[1]].ts \in Nat
  BY EntryFacts
<1>3. \A b \in accepted : b \in batch /\ b[2].ts >= mine[b[1]].ts
  BY <1>2 DEF ShouldOverwrite
<1>4. \A b \in batch : b \in accepted \/ mine[b[1]].ts >= b[2].ts
  BY <1>2 DEF ShouldOverwrite
<1> HIDE DEF accepted
<1>5. ASSUME NEW r \in Refs, \E b \in accepted : b[1] = r
      PROVE  \E b \in accepted : b[1] = r /\ Imported(mine, batch)[r] = b[2]
  <2>1. (CHOOSE b \in accepted : b[1] = r) \in accepted /\ (CHOOSE b \in accepted : b[1] = r)[1] = r
    BY <1>5
  <2>2. QED
    BY <1>1, <1>5, <2>1
<1>6. \A r \in Refs : (~\E b \in accepted : b[1] = r) => Imported(mine, batch)[r] = mine[r]
  BY <1>1
<1>7. \A b \in accepted : Imported(mine, batch)[b[1]] = b[2]
  BY <1>2, <1>3, <1>5
<1>8. \A r \in Refs : mine[r].ts \in Nat
  BY EntryFacts
<1>9. \A r \in Refs : Imported(mine, batch)[r] \in Entries
  BY <1>2, <1>3, <1>5, <1>6
<1>10. \A r \in Refs : \/ Imported(mine, batch)[r] = mine[r]
                       \/ <<r, Imported(mine, batch)[r]>> \in batch
  BY <1>2, <1>3, <1>5, <1>6
<1>11. \A r \in Refs : Imported(mine, batch)[r].ts >= mine[r].ts
  BY <1>2, <1>3, <1>5, <1>6, <1>8
<1>12. ASSUME NEW b \in batch
       PROVE  Imported(mine, batch)[b[1]].ts >= b[2].ts
  <2>1. CASE b \in accepted
    BY <1>2, <1>7, <2>1
  <2>2. CASE b \notin accepted
    BY <1>2, <1>4, <1>11, <1>9, <2>2, EntryFacts
  <2>3. QED
    BY <2>1, <2>2
<1>13. Imported(mine, batch) \in [Refs -> Entries]
  BY <1>1, <1>9
<1>14. QED
  BY <1>10, <1>11, <1>12, <1>13

\* _store_snapshot(): the list stays within its limit.
LEMMA SnapshotFacts ==
  ASSUME TypeOK, NEW d \in Devices, StoreSnapshot(d)
  PROVE  /\ snaps' \in [Devices -> Seq([Refs -> Entries])]
         /\ \A e \in Devices : Len(snaps'[e]) <= SnapshotLimit
<1> DEFINE next == IF snaps[d] # <<>> /\ Last(snaps[d]) = data[d] THEN snaps[d]
                   ELSE LET longer == Append(snaps[d], data[d])
                        IN  IF Len(longer) > SnapshotLimit THEN Tail(longer) ELSE longer
<1>1. snaps[d] \in Seq([Refs -> Entries]) /\ data[d] \in [Refs -> Entries]
      /\ Len(snaps[d]) <= SnapshotLimit /\ SnapshotLimit \in Nat
  BY LabelAssumption DEF TypeOK
<1>2. next \in Seq([Refs -> Entries]) /\ Len(next) <= SnapshotLimit
  BY <1>1
<1>3. snaps' = [snaps EXCEPT ![d] = next]
  BY DEF StoreSnapshot
<1> HIDE DEF next
<1>4. QED
  BY <1>2, <1>3 DEF TypeOK

-----------------------------------------------------------------------------
(* Messages. *)

\* get_chunked_bitcoin_data(): a batch is the labels it was made from.
LEMMA ToFacts ==
  ASSUME NEW d \in Devices, NEW e \in Others(d), NEW labels \in [Refs -> Entries],
         NEW refs \in SUBSET Refs
  PROVE  /\ \A m \in To(d, e, Batch(labels, refs)) : CopyOf(m, d, labels)
         /\ \A r \in refs : labels[r].ts # 0 =>
              \E m \in To(d, e, Batch(labels, refs)) : Brings(m, d, e, r, labels[r])
<1>1. \A b \in Batch(labels, refs) : /\ b[1] \in Refs /\ b = <<b[1], labels[b[1]]>>
                                     /\ b[2].ts # 0
  BY DEF Batch
<1>2. \A r \in refs : labels[r].ts # 0 => <<r, labels[r]>> \in Batch(labels, refs)
  BY DEF Batch
<1> DEFINE batch == Batch(labels, refs)
           msg == [from |-> d, to |-> e, batch |-> batch]
<1>3. msg.from = d /\ msg.to = e /\ msg.batch = batch
  OBVIOUS
<1>4. To(d, e, batch) = IF batch = {} THEN {} ELSE {msg}
  BY DEF To
<1> HIDE DEF batch, msg
<1>5. \A m \in To(d, e, batch) : m = msg /\ batch # {}
  BY <1>4
<1>6. \A b \in batch : /\ b[1] \in Refs /\ b = <<b[1], labels[b[1]]>> /\ b[2].ts # 0
  BY <1>1 DEF batch
<1>7. \A m \in To(d, e, batch) : CopyOf(m, d, labels)
  BY <1>3, <1>5, <1>6 DEF CopyOf
<1>8. \A r \in refs : labels[r].ts # 0 => \E m \in To(d, e, batch) : Brings(m, d, e, r, labels[r])
  <2> SUFFICES ASSUME NEW r \in refs, labels[r].ts # 0
               PROVE  \E m \in To(d, e, batch) : Brings(m, d, e, r, labels[r])
    OBVIOUS
  <2>1. <<r, labels[r]>> \in batch
    BY <1>2 DEF batch
  <2>2. msg \in To(d, e, batch)
    BY <1>4, <2>1
  <2>3. QED
    BY <1>3, <2>1, <2>2 DEF Brings
<1>9. QED
  BY <1>7, <1>8 DEF batch

\* on_labels_updated(): what is published is a copy of the labels, ...
LEMMA PublishCopies ==
  ASSUME NEW d \in Devices, NEW refs \in SUBSET Refs, NEW reason,
         data'[d] \in [Refs -> Entries]
  PROVE  \A m \in Publish(d, refs, reason) : CopyOf(m, d, data'[d])
<1>1. \A e \in Others(d) :
        \A m \in To(d, e, Batch(data'[d], refs)) : CopyOf(m, d, data'[d])
  BY ToFacts
<1>2. QED
  BY <1>1 DEF Publish

\* ... for everybody, while the plugin is enabled.
LEMMA PublishReaches ==
  ASSUME NEW d \in Devices, NEW refs \in SUBSET Refs, NEW reason,
         data'[d] \in [Refs -> Entries], enabled[d], reason # "SourceLabelSyncer",
         NEW e \in Others(d), NEW r \in refs, data'[d][r].ts # 0
  PROVE  \E m \in Publish(d, refs, reason) : Brings(m, d, e, r, data'[d][r])
<1>1. \E m \in To(d, e, Batch(data'[d], refs)) : Brings(m, d, e, r, data'[d][r])
  BY ToFacts
<1>2. QED
  BY <1>1 DEF Publish

-----------------------------------------------------------------------------
(* Each action is a turn of its device. *)

\* The clock moves on.
LEMMA ClockFacts ==
  ASSUME TypeOK
  PROVE  /\ now \in Automatic..MaxNow /\ now \in Nat /\ Automatic \in Automatic..MaxNow
         /\ now < MaxNow => now + 1 \in Automatic..MaxNow /\ now + 1 > Automatic
         /\ \A d \in Devices, r \in Refs : data[d][r] \in Entries /\ data[d][r].ts \in Nat
<1>1. now \in Automatic..MaxNow /\ MaxNow \in Nat
  BY LabelAssumption DEF TypeOK
<1>2. \A d \in Devices, r \in Refs : data[d][r] \in Entries
  BY DEF TypeOK
<1>3. QED
  BY <1>1, <1>2, EntryFacts DEF Automatic

\* A step that leaves the labels and the clock alone and takes no message back.
LEMMA StillTurn ==
  ASSUME TypeOK, NEW d \in Devices,
         UNCHANGED <<data, now, chosen>>, behind \subseteq behind', net \subseteq net',
         \A m \in net' : m \in net \/ CopyOf(m, d, data'[d])
  PROVE  Turn(d)
<1>1. /\ data' \in [Devices -> [Refs -> Entries]] /\ data' = data
      /\ now' \in Automatic..MaxNow /\ now <= now'
  BY ClockFacts DEF TypeOK
<1>2. \A r \in Refs : data'[d][r].ts >= data[d][r].ts
  BY ClockFacts
<1>3. \A r \in Refs : EntryAfter(d, r)
  BY <1>1 DEF EntryAfter
<1>4. QED
  BY <1>1, <1>2, <1>3 DEF Turn

LEMMA EditTurn ==
  ASSUME LabelInv, NEW d \in Devices, Edit(d)
  PROVE  Turn(d)
<1>1. TypeOK /\ Past
  BY DEF LabelInv
<1>2. PICK r \in Refs, v \in Vals :
        /\ data' = [data EXCEPT ![d] = Written(data[d], r, v, now')]
        /\ chosen' = chosen \cup Batch(data'[d], {r})
        /\ net' = net \cup Publish(d, {r}, "UserInput")
  BY DEF Edit
<1>3. now' = now + 1 /\ now' \in Automatic..MaxNow /\ now \in Nat /\ now' > now
  BY <1>1, ClockFacts DEF Edit
<1>4. data[d] \in [Refs -> Entries] /\ data \in [Devices -> [Refs -> Entries]]
  BY <1>1 DEF TypeOK
<1> DEFINE next == Written(data[d], r, v, now')
<1>5. /\ next \in [Refs -> Entries]
      /\ \A q \in Refs \ {r} : next[q] = data[d][q]
      /\ now' > data[d][r].ts => next[r].ts = now'
  BY <1>3, <1>4, WrittenFacts
<1> HIDE DEF next
<1>6. data' = [data EXCEPT ![d] = next]
  BY <1>2 DEF next
<1>7. /\ data' \in [Devices -> [Refs -> Entries]] /\ data'[d] = next
      /\ \A e \in Others(d) : data'[e] = data[e]
  BY <1>4, <1>5, <1>6 DEF Others
<1>8. next[r].ts = now' /\ data[d][r].ts <= now /\ data[d][r].ts \in Nat
  BY <1>1, <1>3, <1>5, ClockFacts DEF Past
<1>9. /\ \A m \in Publish(d, {r}, "UserInput") : CopyOf(m, d, data'[d])
      /\ enabled[d] => \A e \in Others(d) :
           \E m \in Publish(d, {r}, "UserInput") : Brings(m, d, e, r, data'[d][r])
  <2>1. {r} \in SUBSET Refs /\ r \in {r} /\ data'[d] \in [Refs -> Entries]
        /\ "UserInput" # "SourceLabelSyncer"
    BY <1>5, <1>7
  <2>2. data'[d][r].ts # 0
    BY <1>3, <1>7, <1>8
  <2>3. \A m \in Publish(d, {r}, "UserInput") : CopyOf(m, d, data'[d])
    BY <2>1, PublishCopies
  <2>4. ASSUME enabled[d], NEW e \in Others(d)
        PROVE  \E m \in Publish(d, {r}, "UserInput") : Brings(m, d, e, r, data'[d][r])
    BY <2>1, <2>2, <2>4, PublishReaches
  <2>5. QED
    BY <2>3, <2>4
<1>10. Newest(d, r)
  <2>1. ~enabled[d] => \A e \in Others(d) : <<d, e>> \in behind'
    BY DEF Edit, Unsent
  <2>2. enabled[d] => \A e \in Others(d) : \E m \in net' : Brings(m, d, e, r, data'[d][r])
    BY <1>2, <1>9
  <2>3. data'[d][r].ts > now /\ data'[d][r].ts <= now'
    BY <1>3, <1>7, <1>8
  <2>4. QED
    BY <2>1, <2>2, <2>3 DEF Newest
<1>11. \A q \in Refs : EntryAfter(d, q)
  BY <1>5, <1>7, <1>10 DEF EntryAfter
<1>12. \A q \in Refs : data'[d][q].ts >= data[d][q].ts
  BY <1>1, <1>3, <1>5, <1>7, <1>8, ClockFacts
<1>13. net \subseteq net' /\ \A m \in net' : m \in net \/ CopyOf(m, d, data'[d])
  BY <1>2, <1>9
<1>14. behind \subseteq behind'
  BY DEF Edit
<1>15. \A c \in chosen' : c \in chosen \/ NewChoice(d, c)
  BY <1>2, <1>10 DEF Batch, NewChoice
<1>16. QED
  BY <1>3, <1>7, <1>11, <1>12, <1>13, <1>14, <1>15 DEF Turn

\* What AutoAssign and AutoFill have in common: an entry of the wallet, with the time it
\* had or the first one.
LEMMA AutoTurn ==
  ASSUME LabelInv, NEW d \in Devices, NEW r \in Refs, NEW v \in Vals,
         data' = [data EXCEPT ![d] = Written(data[d], r, v, Automatic)],
         UNCHANGED <<now, behind, chosen>>, net \subseteq net',
         data' \in [Devices -> [Refs -> Entries]] =>
           \A m \in net' : m \in net \/ CopyOf(m, d, data'[d])
  PROVE  Turn(d)
<1>1. TypeOK
  BY DEF LabelInv
<1>2. data[d] \in [Refs -> Entries] /\ data \in [Devices -> [Refs -> Entries]]
  BY <1>1 DEF TypeOK
<1> DEFINE next == Written(data[d], r, v, Automatic)
<1>3. /\ next \in [Refs -> Entries]
      /\ \A q \in Refs \ {r} : next[q] = data[d][q]
      /\ Automatic > data[d][r].ts => next[r].ts = Automatic
      /\ ~(Automatic > data[d][r].ts) => next[r].ts = data[d][r].ts
  <2>1. Automatic \in Automatic..MaxNow
    BY <1>1, ClockFacts
  <2>2. QED
    BY <1>2, <2>1, WrittenFacts
<1> HIDE DEF next
<1>4. data' = [data EXCEPT ![d] = next]
  BY DEF next
<1>5. /\ data' \in [Devices -> [Refs -> Entries]] /\ data'[d] = next
      /\ \A e \in Others(d) : data'[e] = data[e]
  BY <1>2, <1>3, <1>4 DEF Others
<1>6. \A q \in Refs : data'[d][q].ts >= data[d][q].ts
  <2>1. \A q \in Refs : data[d][q].ts \in Nat
    BY <1>1, ClockFacts
  <2>2. next[r].ts >= data[d][r].ts
    BY <1>3, <2>1 DEF Automatic
  <2>3. \A q \in Refs \ {r} : next[q].ts >= data[d][q].ts
    BY <1>3, <2>1
  <2>4. QED
    BY <1>5, <2>2, <2>3
<1>7. \A q \in Refs : EntryAfter(d, q)
  BY <1>3, <1>5 DEF EntryAfter
<1>8. now' \in Automatic..MaxNow /\ now <= now'
  BY <1>1, ClockFacts
<1>9. QED
  BY <1>5, <1>6, <1>7, <1>8 DEF Turn

LEMMA AutoAssignTurn ==
  ASSUME LabelInv, NEW d \in Devices, AutoAssign(d)
  PROVE  Turn(d)
<1>1. PICK r \in Refs, v \in Vals, tells \in BOOLEAN :
        /\ data' = [data EXCEPT ![d] = Written(data[d], r, v, Automatic)]
        /\ net' = IF tells THEN net \cup Publish(d, {r}, "UnusedAddressesCategorySet") ELSE net
  BY DEF AutoAssign
<1>2. net \subseteq net' /\ UNCHANGED <<now, behind, chosen>>
  BY <1>1 DEF AutoAssign
<1>3. data' \in [Devices -> [Refs -> Entries]] =>
        \A m \in net' : m \in net \/ CopyOf(m, d, data'[d])
  <2>1. ASSUME data' \in [Devices -> [Refs -> Entries]]
        PROVE  \A m \in Publish(d, {r}, "UnusedAddressesCategorySet") : CopyOf(m, d, data'[d])
    <3>1. {r} \in SUBSET Refs /\ data'[d] \in [Refs -> Entries]
      BY <2>1
    <3>2. QED
      BY <3>1, PublishCopies
  <2>2. QED
    BY <1>1, <2>1
<1>4. QED
  BY <1>1, <1>2, <1>3, AutoTurn

LEMMA AutoFillTurn ==
  ASSUME LabelInv, NEW d \in Devices, AutoFill(d)
  PROVE  Turn(d)
<1>1. PICK r \in Refs, v \in Vals :
        data' = [data EXCEPT ![d] = Written(data[d], r, v, Automatic)]
  BY DEF AutoFill
<1>2. UNCHANGED <<net, now, behind, chosen>>
  BY DEF AutoFill
<1>3. QED
  BY <1>1, <1>2, AutoTurn

LEMMA RestoreTurn ==
  ASSUME LabelInv, NEW d \in Devices, Restore(d)
  PROVE  Turn(d)
<1>1. TypeOK /\ Past
  BY DEF LabelInv
<1>2. PICK i \in 1..Len(snaps[d]) :
        data' = [data EXCEPT ![d] = Restored(data[d], snaps[d][i], now')]
  BY DEF Restore
<1>3. now' = now + 1 /\ now' \in Automatic..MaxNow /\ now \in Nat /\ now' > now
  BY <1>1, ClockFacts DEF Restore
<1>4. /\ data[d] \in [Refs -> Entries] /\ data \in [Devices -> [Refs -> Entries]]
      /\ snaps[d][i] \in [Refs -> Entries]
  BY <1>1 DEF TypeOK
<1> DEFINE next == Restored(data[d], snaps[d][i], now')
<1>5. /\ next \in [Refs -> Entries]
      /\ \A q \in Refs : next[q] = data[d][q] \/ next[q].ts = now'
  BY <1>3, <1>4, RestoredFacts
<1> HIDE DEF next
<1>6. data' = [data EXCEPT ![d] = next]
  BY <1>2 DEF next
<1>7. /\ data' \in [Devices -> [Refs -> Entries]] /\ data'[d] = next
      /\ \A e \in Others(d) : data'[e] = data[e]
  BY <1>4, <1>5, <1>6 DEF Others
<1>8. Changed(d) \in SUBSET Refs
  BY DEF Changed
<1>9. /\ \A m \in Publish(d, Changed(d), "RestoredSnapshot") : CopyOf(m, d, data'[d])
      /\ enabled[d] => \A e \in Others(d), q \in Changed(d) : data'[d][q].ts # 0 =>
           \E m \in Publish(d, Changed(d), "RestoredSnapshot") : Brings(m, d, e, q, data'[d][q])
  <2>1. data'[d] \in [Refs -> Entries] /\ "RestoredSnapshot" # "SourceLabelSyncer"
    BY <1>5, <1>7
  <2>2. \A m \in Publish(d, Changed(d), "RestoredSnapshot") : CopyOf(m, d, data'[d])
    BY <1>8, <2>1, PublishCopies
  <2>3. ASSUME enabled[d], NEW e \in Others(d), NEW q \in Changed(d), data'[d][q].ts # 0
        PROVE  \E m \in Publish(d, Changed(d), "RestoredSnapshot") : Brings(m, d, e, q, data'[d][q])
    BY <1>8, <2>1, <2>3, PublishReaches
  <2>4. QED
    BY <2>2, <2>3
<1>10. \A q \in Refs : data[d][q].ts <= now /\ data[d][q].ts \in Nat
  BY <1>1, ClockFacts DEF Past
<1>11. ASSUME NEW q \in Refs, next[q].ts = now'
       PROVE  Newest(d, q)
  <2>1. ~enabled[d] => \A e \in Others(d) : <<d, e>> \in behind'
    BY DEF Restore, Unsent
  <2>2. q \in Changed(d)
    BY <1>3, <1>7, <1>10, <1>11 DEF Changed
  <2>3. data'[d][q].ts # 0
    BY <1>3, <1>7, <1>11
  <2>4. enabled[d] => \A e \in Others(d) : \E m \in net' : Brings(m, d, e, q, data'[d][q])
    BY <1>9, <2>2, <2>3 DEF Restore
  <2>5. data'[d][q].ts > now /\ data'[d][q].ts <= now'
    BY <1>3, <1>7, <1>11
  <2>6. QED
    BY <2>1, <2>4, <2>5 DEF Newest
<1>12. \A q \in Refs : EntryAfter(d, q)
  BY <1>5, <1>7, <1>11 DEF EntryAfter
<1>13. \A q \in Refs : data'[d][q].ts >= data[d][q].ts
  BY <1>3, <1>5, <1>7, <1>10
<1>14. net \subseteq net' /\ \A m \in net' : m \in net \/ CopyOf(m, d, data'[d])
  BY <1>9 DEF Restore
<1>15. behind \subseteq behind'
  BY DEF Restore
<1>16. \A q \in Changed(d) : q \in Refs /\ Newest(d, q)
  BY <1>5, <1>7, <1>11 DEF Changed
<1>17. chosen' = chosen \cup Batch(data'[d], Changed(d))
  BY DEF Restore
<1>18. \A c \in chosen' : c \in chosen \/ NewChoice(d, c)
  BY <1>16, <1>17 DEF Batch, NewChoice
<1>19. QED
  BY <1>3, <1>7, <1>12, <1>13, <1>14, <1>15, <1>18 DEF Turn

LEMMA SendAllTurn ==
  ASSUME LabelInv, NEW d \in Devices, NEW e \in Others(d), SendAll(d, e)
  PROVE  Turn(d)
<1>1. TypeOK
  BY DEF LabelInv
<1>2. data[d] \in [Refs -> Entries] /\ data \in [Devices -> [Refs -> Entries]]
  BY <1>1 DEF TypeOK
<1>3. PICK inParts \in BOOLEAN :
        net' = net \cup (IF inParts THEN UNION {To(d, e, Batch(data[d], {r})) : r \in Refs}
                                    ELSE To(d, e, Batch(data[d], Refs)))
  BY DEF SendAll
<1>4. data' = data /\ now' = now /\ chosen' = chosen /\ behind' = behind \ {<<d, e>>}
  BY DEF SendAll
<1>5. /\ \A m \in To(d, e, Batch(data[d], Refs)) : CopyOf(m, d, data[d])
      /\ \A r \in Refs : data[d][r].ts # 0 =>
           \E m \in To(d, e, Batch(data[d], Refs)) : Brings(m, d, e, r, data[d][r])
  <2>1. Refs \in SUBSET Refs
    OBVIOUS
  <2>2. QED
    BY <1>2, <2>1, ToFacts
<1>6. ASSUME NEW r \in Refs
      PROVE  /\ \A m \in To(d, e, Batch(data[d], {r})) : CopyOf(m, d, data[d])
             /\ data[d][r].ts # 0 =>
                  \E m \in To(d, e, Batch(data[d], {r})) : Brings(m, d, e, r, data[d][r])
  <2>1. {r} \in SUBSET Refs /\ r \in {r}
    OBVIOUS
  <2>2. QED
    BY <1>2, <2>1, ToFacts
<1>7. \A m \in net' : m \in net \/ CopyOf(m, d, data[d])
  BY <1>3, <1>5, <1>6
<1>8. \A r \in Refs : data[d][r].ts # 0 => \E m \in net' : Brings(m, d, e, r, data[d][r])
  BY <1>3, <1>5, <1>6
<1>9. \A r \in Refs : data'[d][r].ts >= data[d][r].ts
  BY <1>1, <1>4, ClockFacts
<1>10. \A r \in Refs : EntryAfter(d, r)
  BY <1>4 DEF EntryAfter
<1>11. ASSUME NEW o \in Devices, NEW f \in Devices, <<o, f>> \in behind \ behind'
       PROVE  \A r \in Refs : data[o][r].ts # 0 => \E m \in net' : Brings(m, o, f, r, data[o][r])
  BY <1>4, <1>8, <1>11
<1>12. net \subseteq net'
  BY <1>3
<1>13. now' \in Automatic..MaxNow /\ now <= now'
  BY <1>1, <1>4, ClockFacts
<1>14. data' \in [Devices -> [Refs -> Entries]] /\ \A f \in Others(d) : data'[f] = data[f]
  BY <1>2, <1>4
<1>15. \A m \in net' : m \in net \/ CopyOf(m, d, data'[d])
  BY <1>4, <1>7
<1>16. QED
  BY <1>4, <1>9, <1>10, <1>11, <1>12, <1>13, <1>14, <1>15 DEF Turn

LEMMA SwitchTurn ==
  ASSUME LabelInv, NEW d \in Devices, Switch(d)
  PROVE  Turn(d)
<1>1. TypeOK
  BY DEF LabelInv
<1>2. UNCHANGED <<data, now, chosen>> /\ behind \subseteq behind' /\ net \subseteq net'
      /\ \A m \in net' : m \in net \/ CopyOf(m, d, data'[d])
  BY DEF Switch
<1>3. QED
  BY <1>1, <1>2, StillTurn

LEMMA ReceiveTurn ==
  ASSUME LabelInv, NEW d \in Devices, Receive(d)
  PROVE  Turn(d)
<1>1. TypeOK /\ OneEntryEach
  BY DEF LabelInv
<1>2. PICK m \in net :
        /\ m.to = d
        /\ data' = [data EXCEPT ![d] = Imported(data[d], m.batch)]
        /\ net' = net \ {m}
  <2>1. Publish(d, Changed(d), "SourceLabelSyncer") = {}
    BY DEF Publish
  <2>2. QED
    BY <2>1 DEF Receive
<1>3. now' = now /\ behind' = behind /\ chosen' = chosen
  BY DEF Receive
<1>4. data[d] \in [Refs -> Entries] /\ data \in [Devices -> [Refs -> Entries]]
  BY <1>1 DEF TypeOK
<1>5. m.batch \in SUBSET (Refs \X (Entries \ {Absent}))
  BY <1>1 DEF TypeOK
<1>6. \A b, c \in m.batch : b[1] = c[1] => b = c
  BY <1>1 DEF OneEntryEach
<1> DEFINE next == Imported(data[d], m.batch)
<1>7. /\ next \in [Refs -> Entries]
      /\ \A r \in Refs : next[r] = data[d][r] \/ <<r, next[r]>> \in m.batch
      /\ \A r \in Refs : next[r].ts >= data[d][r].ts
      /\ \A b \in m.batch : next[b[1]].ts >= b[2].ts
  BY <1>4, <1>5, <1>6, ImportedFacts
<1> HIDE DEF next
<1>8. data' = [data EXCEPT ![d] = next]
  BY <1>2 DEF next
<1>9. /\ data' \in [Devices -> [Refs -> Entries]] /\ data'[d] = next
      /\ \A e \in Others(d) : data'[e] = data[e]
  BY <1>4, <1>7, <1>8 DEF Others
<1>10. \A r \in Refs : EntryAfter(d, r)
  BY <1>7, <1>9 DEF EntryAfter
<1>11. \A r \in Refs : data'[d][r].ts >= data[d][r].ts
  BY <1>7, <1>9
<1>12. \A n \in net \ net' : \A b \in n.batch : data'[n.to][b[1]].ts >= b[2].ts
  BY <1>2, <1>7, <1>9
<1>13. now' \in Automatic..MaxNow /\ now <= now'
  BY <1>1, <1>3, ClockFacts
<1>14. QED
  BY <1>2, <1>3, <1>9, <1>10, <1>11, <1>12, <1>13 DEF Turn

LEMMA DropTurn ==
  ASSUME LabelInv, NEW d \in Devices, Drop(d)
  PROVE  Turn(d)
<1>1. TypeOK
  BY DEF LabelInv
<1>2. PICK m \in net : /\ m.to = d /\ net' = net \ {m}
                       /\ behind' = behind \cup {<<m.from, d>>}
  BY DEF Drop
<1>3. data' = data /\ now' = now /\ chosen' = chosen
  BY DEF Drop
<1>4. data' \in [Devices -> [Refs -> Entries]]
  BY <1>1, <1>3 DEF TypeOK
<1>5. now' \in Automatic..MaxNow /\ now <= now'
  BY <1>1, <1>3, ClockFacts
<1>6. \A r \in Refs : data'[d][r].ts >= data[d][r].ts
  BY <1>1, <1>3, ClockFacts
<1>7. \A r \in Refs : EntryAfter(d, r)
  BY <1>3 DEF EntryAfter
<1>8. \A n \in net \ net' : <<n.from, n.to>> \in behind'
  BY <1>2
<1>9. QED
  BY <1>2, <1>3, <1>4, <1>5, <1>6, <1>7, <1>8 DEF Turn

\* Every step but a stutter is the turn of a device.
LEMMA NextTurn ==
  ASSUME LabelInv, Next
  PROVE  \E d \in Devices : Turn(d)
<1>1. PICK d \in Devices :
        \/ Edit(d) \/ AutoAssign(d) \/ AutoFill(d) \/ Restore(d) \/ Receive(d) \/ Drop(d)
        \/ Switch(d) \/ \E e \in Others(d) : SendAll(d, e)
  BY DEF Next, AddTrusted, TrustMeBack
<1>2. Turn(d)
  BY <1>1, EditTurn, AutoAssignTurn, AutoFillTurn, RestoreTurn, ReceiveTurn, DropTurn,
     SwitchTurn, SendAllTurn
<1>3. QED
  BY <1>2

-----------------------------------------------------------------------------
(* What a turn keeps. *)

LEMMA TurnMessages ==
  ASSUME LabelInv, NEW d \in Devices, Turn(d)
  PROVE  /\ \A m \in net' : /\ m.from \in Devices /\ m.to \in Others(m.from) /\ m.batch # {}
                            /\ m.batch \subseteq Refs \X (Entries \ {Absent})
         /\ OneEntryEach'
<1>1. TypeOK /\ OneEntryEach
  BY DEF LabelInv
<1>2. data'[d] \in [Refs -> Entries]
  BY DEF Turn
<1>3. ASSUME NEW m \in net', CopyOf(m, d, data'[d])
      PROVE  /\ m.from \in Devices /\ m.to \in Others(m.from) /\ m.batch # {}
             /\ m.batch \subseteq Refs \X (Entries \ {Absent})
             /\ \A b, c \in m.batch : b[1] = c[1] => b = c
  <2>1. ASSUME NEW b \in m.batch
        PROVE  b[1] \in Refs /\ b = <<b[1], data'[d][b[1]]>> /\ data'[d][b[1]] \in Entries \ {Absent}
    <3>1. b[1] \in Refs /\ b = <<b[1], data'[d][b[1]]>> /\ b[2].ts # 0
      BY <1>3 DEF CopyOf
    <3>2. data'[d][b[1]] \in Entries /\ b[2] = data'[d][b[1]]
      BY <1>2, <3>1
    <3>3. data'[d][b[1]] # Absent
      BY <3>1, <3>2, EntryFacts
    <3>4. QED
      BY <3>1, <3>2, <3>3
  <2>2. m.batch \subseteq Refs \X (Entries \ {Absent})
    BY <2>1
  <2>3. \A b, c \in m.batch : b[1] = c[1] => b = c
    BY <2>1
  <2>4. QED
    BY <1>3, <2>2, <2>3 DEF CopyOf
<1>4. ASSUME NEW m \in net', m \in net
      PROVE  /\ m.from \in Devices /\ m.to \in Others(m.from) /\ m.batch # {}
             /\ m.batch \subseteq Refs \X (Entries \ {Absent})
             /\ \A b, c \in m.batch : b[1] = c[1] => b = c
  BY <1>1, <1>4 DEF TypeOK, OneEntryEach
<1>5. \A m \in net' : m \in net \/ CopyOf(m, d, data'[d])
  BY DEF Turn
<1>6. \A m \in net' : /\ m.from \in Devices /\ m.to \in Others(m.from) /\ m.batch # {}
                      /\ m.batch \subseteq Refs \X (Entries \ {Absent})
  BY <1>3, <1>4, <1>5
<1>7. OneEntryEach'
  BY <1>3, <1>4, <1>5 DEF OneEntryEach
<1>8. QED
  BY <1>6, <1>7

\* What is seen after a turn was seen before, comes from the wallet, or is the newest.
LEMMA TurnSeen ==
  ASSUME LabelInv, NEW d \in Devices, Turn(d), NEW r \in Refs, NEW x, Seen(r, x)'
  PROVE  \/ Seen(r, x)
         \/ x.ts = Automatic \/ x.ts = data[d][r].ts
         \/ x = data'[d][r] /\ Newest(d, r)
<1>1. CASE x = data'[d][r]
  BY <1>1 DEF Turn, EntryAfter, Seen
<1>2. CASE \E e \in Others(d) : data'[e][r] = x
  BY <1>2 DEF Turn, Seen, Others
<1>3. CASE \E m \in net' : <<r, x>> \in m.batch
  <2>1. PICK m \in net' : <<r, x>> \in m.batch
    BY <1>3
  <2>2. CASE m \in net
    BY <2>1, <2>2 DEF Seen
  <2>3. CASE CopyOf(m, d, data'[d])
    <3>1. x = data'[d][r]
      <4>1. <<r, x>> = <<<<r, x>>[1], data'[d][<<r, x>>[1]]>>
        BY <2>1, <2>3 DEF CopyOf
      <4>2. QED
        BY <4>1
    <3>2. QED
      BY <1>1, <3>1
  <2>4. QED
    BY <2>2, <2>3 DEF Turn
<1>4. QED
  BY <1>1, <1>2, <1>3 DEF Seen, Others

LEMMA SeenFacts ==
  ASSUME TypeOK, Past, NEW r \in Refs, NEW x, Seen(r, x)
  PROVE  x \in Entries /\ x.ts \in Nat /\ x.ts <= now
<1>1. CASE \E d \in Devices : data[d][r] = x
  BY <1>1, EntryFacts DEF TypeOK, Past
<1>2. CASE \E m \in net : <<r, x>> \in m.batch
  <2>1. PICK m \in net : <<r, x>> \in m.batch
    BY <1>2
  <2>2. <<r, x>>[2].ts <= now
    BY <2>1 DEF Past
  <2>3. x \in Entries
    BY <2>1 DEF TypeOK
  <2>4. QED
    BY <2>2, <2>3, EntryFacts
<1>3. QED
  BY <1>1, <1>2 DEF Seen

LEMMA TurnPast ==
  ASSUME LabelInv, NEW d \in Devices, Turn(d)
  PROVE  Past'
<1>1. TypeOK /\ Past
  BY DEF LabelInv
<1>2. now \in Nat /\ now' \in Nat /\ now <= now' /\ Automatic <= now
      /\ \A r \in Refs : data[d][r].ts <= now /\ data[d][r].ts \in Nat
  BY <1>1, ClockFacts, LabelAssumption DEF Turn, Automatic, Past
<1>3. ASSUME NEW r \in Refs, NEW x, Seen(r, x)'
      PROVE  x.ts <= now'
  <2>1. CASE Seen(r, x)
    BY <1>1, <1>2, <2>1, SeenFacts
  <2>2. CASE x.ts = Automatic \/ x.ts = data[d][r].ts
    BY <1>2, <2>2 DEF Automatic
  <2>3. CASE x = data'[d][r] /\ Newest(d, r)
    BY <2>3 DEF Newest
  <2>4. QED
    BY <1>3, <2>1, <2>2, <2>3, TurnSeen
<1>4. \A e \in Devices, r \in Refs : data'[e][r].ts <= now'
  BY <1>3 DEF Seen
<1>5. ASSUME NEW m \in net', NEW b \in m.batch
      PROVE  b[2].ts <= now'
  <2>1. b[1] \in Refs /\ b = <<b[1], b[2]>>
    BY TurnMessages
  <2>2. Seen(b[1], b[2])'
    BY <2>1 DEF Seen
  <2>3. QED
    BY <1>3, <2>1, <2>2
<1>6. ASSUME NEW c \in chosen'
      PROVE  c[2].ts <= now'
  <2>1. CASE c \in chosen
    <3>1. c[2].ts <= now /\ c[2].ts \in Nat
      BY <1>1, <2>1, EntryFacts DEF TypeOK, Past
    <3>2. QED
      BY <1>2, <3>1
  <2>2. CASE NewChoice(d, c)
    BY <2>2 DEF NewChoice, Newest
  <2>3. QED
    BY <2>1, <2>2 DEF Turn
<1>7. QED
  BY <1>4, <1>5, <1>6 DEF Past

\* A new choice has a time of its own.
LEMMA TurnChoices ==
  ASSUME LabelInv, NEW d \in Devices, Turn(d)
  PROVE  (chosen \subseteq Refs \X (Entries \ {Absent}))' /\ OneChoice'
<1>1. /\ \A c \in chosen : c \in Refs \X (Entries \ {Absent}) /\ c[2].ts <= now /\ c[2].ts \in Nat
      /\ OneChoice /\ now \in Nat
  BY ClockFacts, EntryFacts DEF LabelInv, TypeOK, Past
<1>2. ASSUME NEW c, NewChoice(d, c)
      PROVE  /\ c \in Refs \X (Entries \ {Absent})
             /\ c[1] \in Refs /\ c = <<c[1], data'[d][c[1]]>> /\ c[2].ts > now /\ c[2].ts \in Nat
  <2>1. c[1] \in Refs /\ c = <<c[1], data'[d][c[1]]>> /\ data'[d][c[1]].ts > now
    BY <1>2 DEF NewChoice, Newest
  <2>2. data'[d][c[1]] \in Entries
    BY <2>1 DEF Turn
  <2>3. data'[d][c[1]] \in Entries \ {Absent} /\ data'[d][c[1]].ts \in Nat
    BY <1>1, <2>1, <2>2, EntryFacts
  <2>4. QED
    BY <2>1, <2>3
<1>3. \A c \in chosen' : c \in chosen \/ NewChoice(d, c)
  BY DEF Turn
<1>4. chosen' \subseteq Refs \X (Entries \ {Absent})
  BY <1>1, <1>2, <1>3
<1>5. ASSUME NEW b \in chosen', NEW c \in chosen', b[1] = c[1], b[2].ts = c[2].ts
      PROVE  b = c
  <2>1. CASE b \in chosen /\ c \in chosen
    BY <1>1, <1>5, <2>1 DEF OneChoice
  <2>2. CASE NewChoice(d, b) /\ NewChoice(d, c)
    BY <1>2, <1>5, <2>2
  <2>3. ~(b \in chosen /\ NewChoice(d, c)) /\ ~(c \in chosen /\ NewChoice(d, b))
    BY <1>1, <1>2, <1>5
  <2>4. QED
    BY <1>3, <2>1, <2>2, <2>3
<1>6. QED
  BY <1>4, <1>5 DEF OneChoice

\* What somebody has and everybody else has or gets stays so: a message arrives, is
\* dropped and noted, or is replaced by a full copy.
LEMMA TurnKeepsSpread ==
  ASSUME LabelInv, NEW d \in Devices, Turn(d), NEW r \in Refs, NEW t \in Nat,
         t > Automatic, Spread(r, t)
  PROVE  Spread(r, t)'
<1>1. TypeOK
  BY DEF LabelInv
<1>2. PICK o \in Devices :
        /\ data[o][r].ts >= t
        /\ \A e \in Others(o) : data[e][r].ts >= t \/ Coming(o, e, r, t) \/ <<o, e>> \in behind
  BY DEF Spread
<1>3. ASSUME NEW e \in Devices
      PROVE  /\ data'[e][r].ts >= data[e][r].ts
             /\ data[e][r].ts \in Nat /\ data'[e][r].ts \in Nat
  <2>1. data[e][r].ts \in Nat
    BY <1>1, ClockFacts
  <2>2. data'[e][r] \in Entries
    BY DEF Turn
  <2>3. e = d \/ data'[e] = data[e]
    BY DEF Turn, Others
  <2>4. QED
    BY <2>1, <2>2, <2>3, EntryFacts DEF Turn
<1>4. data'[o][r].ts >= t
  BY <1>2, <1>3
<1>5. ASSUME NEW e \in Others(o)
      PROVE  data'[e][r].ts >= t \/ Coming(o, e, r, t)' \/ <<o, e>> \in behind'
  <2>1. e \in Devices
    BY DEF Others
  <2>2. CASE data[e][r].ts >= t
    BY <1>3, <2>1, <2>2
  <2>3. CASE Coming(o, e, r, t)
    <3>1. PICK m \in net : m.from = o /\ m.to = e /\ \E b \in m.batch : b[1] = r /\ b[2].ts >= t
      BY <2>3 DEF Coming
    <3>2. PICK b \in m.batch : b[1] = r /\ b[2].ts >= t
      BY <3>1
    <3>3. CASE m \in net'
      BY <3>1, <3>3 DEF Coming
    <3>4. CASE m \notin net' /\ data'[m.to][b[1]].ts >= b[2].ts
      <4>1. b[2].ts \in Nat
        BY <1>1, EntryFacts DEF TypeOK
      <4>2. data'[e][r].ts >= b[2].ts /\ data'[e][r].ts \in Nat
        BY <1>3, <2>1, <3>1, <3>2, <3>4
      <4>3. QED
        BY <3>2, <4>1, <4>2
    <3>5. CASE <<m.from, m.to>> \in behind'
      BY <3>1, <3>5
    <3>6. QED
      BY <3>3, <3>4, <3>5 DEF Turn
  <2>4. CASE <<o, e>> \in behind
    <3>1. CASE <<o, e>> \notin behind'
      <4>1. data[o][r].ts # 0
        BY <1>2, <1>3 DEF Automatic
      <4>2. \E m \in net' : Brings(m, o, e, r, data[o][r])
        BY <2>1, <2>4, <3>1, <4>1 DEF Turn
      <4>3. PICK m \in net' : m.from = o /\ m.to = e /\ <<r, data[o][r]>> \in m.batch
        BY <4>2 DEF Brings
      <4>4. <<r, data[o][r]>>[1] = r /\ <<r, data[o][r]>>[2].ts >= t
        BY <1>2
      <4>5. QED
        BY <4>3, <4>4 DEF Coming
    <3>2. QED
      BY <3>1
  <2>5. QED
    BY <1>2, <2>2, <2>3, <2>4
<1>6. QED
  BY <1>4, <1>5 DEF Spread, Others

\* The newest entry is spread by the device that wrote it.
LEMMA NewestIsSpread ==
  ASSUME LabelInv, NEW d \in Devices, Turn(d), NEW r \in Refs, Newest(d, r),
         NEW t, t = data'[d][r].ts
  PROVE  Spread(r, t)'
<1>1. t \in Nat
  BY EntryFacts DEF Turn
<1>2. ASSUME NEW e \in Others(d)
      PROVE  Coming(d, e, r, t)' \/ <<d, e>> \in behind'
  <2>1. CASE \E m \in net' : Brings(m, d, e, r, data'[d][r])
    <3>1. PICK m \in net' : m.from = d /\ m.to = e /\ <<r, data'[d][r]>> \in m.batch
      BY <2>1 DEF Brings
    <3>2. <<r, data'[d][r]>>[1] = r /\ <<r, data'[d][r]>>[2].ts >= t
      BY <1>1
    <3>3. QED
      BY <3>1, <3>2 DEF Coming
  <2>2. QED
    BY <2>1 DEF Newest
<1>3. data'[d][r].ts >= t
  BY <1>1
<1>4. QED
  BY <1>2, <1>3 DEF Spread, Others

LEMMA TurnAllSpread ==
  ASSUME LabelInv, NEW d \in Devices, Turn(d)
  PROVE  AllSpread'
<1>1. TypeOK /\ Past /\ AllSpread
  BY DEF LabelInv
<1>2. ASSUME NEW r \in Refs, NEW x, Seen(r, x), x.ts > Automatic
      PROVE  Spread(r, x.ts)'
  <2>1. x.ts \in Nat
    BY <1>1, <1>2, SeenFacts
  <2>2. CASE \E e \in Devices : data[e][r] = x
    <3>1. Spread(r, x.ts)
      BY <1>1, <1>2, <2>2 DEF AllSpread
    <3>2. QED
      BY <1>2, <2>1, <3>1, TurnKeepsSpread
  <2>3. CASE \E m \in net : <<r, x>> \in m.batch
    <3>1. <<r, x>>[1] = r /\ <<r, x>>[2] = x
      OBVIOUS
    <3>2. Spread(r, x.ts)
      BY <1>1, <1>2, <2>3, <3>1 DEF AllSpread
    <3>3. QED
      BY <1>2, <2>1, <3>2, TurnKeepsSpread
  <2>4. QED
    BY <1>2, <2>2, <2>3 DEF Seen
<1>3. ASSUME NEW r \in Refs, NEW x, Seen(r, x)', x.ts > Automatic
      PROVE  Spread(r, x.ts)'
  <2>1. CASE Seen(r, x)
    BY <1>2, <1>3, <2>1
  <2>2. CASE x.ts = data[d][r].ts
    <3>1. Seen(r, data[d][r])
      BY DEF Seen
    <3>2. QED
      BY <1>2, <1>3, <2>2, <3>1
  <2>3. CASE x = data'[d][r] /\ Newest(d, r)
    <3>1. x.ts = data'[d][r].ts
      BY <2>3
    <3>2. QED
      BY <2>3, <3>1, NewestIsSpread
  <2>4. x.ts # Automatic
    BY <1>3 DEF Automatic
  <2>5. QED
    BY <1>3, <2>1, <2>2, <2>3, <2>4, TurnSeen
<1>4. ASSUME NEW e \in Devices, NEW r \in Refs, NEW x, x = data'[e][r], x.ts > Automatic
      PROVE  Spread(r, x.ts)'
  <2>1. Seen(r, x)'
    BY <1>4 DEF Seen
  <2>2. QED
    BY <1>3, <1>4, <2>1
<1>5. ASSUME NEW m \in net', NEW b \in m.batch, b[2].ts > Automatic
      PROVE  Spread(b[1], b[2].ts)'
  <2>1. b[1] \in Refs /\ b = <<b[1], b[2]>>
    BY TurnMessages
  <2>2. Seen(b[1], b[2])'
    BY <2>1 DEF Seen
  <2>3. QED
    BY <1>3, <1>5, <2>1, <2>2
<1>6. (\A e \in Devices, r \in Refs : data[e][r].ts > Automatic => Spread(r, data[e][r].ts))'
  BY <1>4 DEF Spread, Coming
<1>7. (\A m \in net : \A b \in m.batch : b[2].ts > Automatic => Spread(b[1], b[2].ts))'
  BY <1>5
<1>8. QED
  BY <1>6, <1>7 DEF AllSpread

-----------------------------------------------------------------------------
(* Types. *)

\* Labels, messages and the clock keep their types in any turn; this is the rest.
OtherTypes ==
  /\ snaps \in [Devices -> Seq([Refs -> Entries])]
  /\ \A d \in Devices : Len(snaps[d]) <= SnapshotLimit
  /\ enabled \in [Devices -> BOOLEAN]
  /\ told \in [Devices -> [Devices -> [Refs -> Entries] \cup {<<>>}]]
  /\ behind \subseteq Devices \X Devices
  /\ sends \in 0..MaxExtras /\ autos \in 0..MaxAuto /\ switches \in 0..MaxSwitches

LEMMA UnsentTypes ==
  ASSUME NEW d \in Devices
  PROVE  Unsent(d) \subseteq Devices \X Devices
BY DEF Unsent, Others

LEMMA WriteTypes ==
  ASSUME TypeOK, NEW d \in Devices, Edit(d) \/ Restore(d)
  PROVE  OtherTypes'
<1>1. StoreSnapshot(d) /\ behind' = behind \cup Unsent(d)
      /\ UNCHANGED <<enabled, told, sends, autos, switches>>
  BY DEF Edit, Restore
<1>2. QED
  BY <1>1, SnapshotFacts, UnsentTypes DEF TypeOK, OtherTypes

LEMMA AutoTypes ==
  ASSUME TypeOK, NEW d \in Devices, AutoAssign(d) \/ AutoFill(d)
  PROVE  OtherTypes'
<1>1. /\ StoreSnapshot(d) /\ autos' = autos + 1 /\ autos < MaxAuto
      /\ UNCHANGED <<enabled, told, behind, sends, switches>>
  BY DEF AutoAssign, AutoFill
<1>2. autos' \in 0..MaxAuto
  BY <1>1, LabelAssumption DEF TypeOK
<1>3. QED
  BY <1>1, <1>2, SnapshotFacts DEF TypeOK, OtherTypes

LEMMA SendTypes ==
  ASSUME TypeOK, NEW d \in Devices, NEW e \in Others(d), AddTrusted(d, e) \/ TrustMeBack(d, e)
  PROVE  OtherTypes'
<1>1. /\ sends' = sends + 1 /\ sends + autos < MaxExtras /\ behind' \subseteq behind
      /\ UNCHANGED <<snaps, enabled, autos, switches>>
  BY DEF AddTrusted, TrustMeBack, SendAll
<1>2. sends' \in 0..MaxExtras
  BY <1>1, LabelAssumption DEF TypeOK
<1>3. told' \in [Devices -> [Devices -> [Refs -> Entries] \cup {<<>>}]]
  <2>1. data[d] \in [Refs -> Entries] /\ e \in Devices
    BY DEF TypeOK, Others
  <2>2. told' = told \/ told' = [told EXCEPT ![d][e] = data[d]]
    BY DEF AddTrusted, TrustMeBack
  <2>3. told \in [Devices -> [Devices -> [Refs -> Entries] \cup {<<>>}]]
    BY DEF TypeOK
  <2> DEFINE next == [told[d] EXCEPT ![e] = data[d]]
  <2>4. next \in [Devices -> [Refs -> Entries] \cup {<<>>}]
    BY <2>1, <2>3
  <2>5. told' = told \/ told' = [told EXCEPT ![d] = next]
    BY <2>2
  <2> HIDE DEF next
  <2>6. QED
    BY <2>3, <2>4, <2>5
<1>4. QED
  BY <1>1, <1>2, <1>3 DEF TypeOK, OtherTypes

LEMMA SwitchTypes ==
  ASSUME TypeOK, NEW d \in Devices, Switch(d)
  PROVE  OtherTypes'
<1>1. /\ switches' = switches + 1 /\ switches < MaxSwitches
      /\ enabled' = [enabled EXCEPT ![d] = ~enabled[d]]
      /\ UNCHANGED <<snaps, told, behind, sends, autos>>
  BY DEF Switch
<1>2. switches' \in 0..MaxSwitches
  BY <1>1, LabelAssumption DEF TypeOK
<1>3. enabled' \in [Devices -> BOOLEAN]
  BY <1>1 DEF TypeOK
<1>4. QED
  BY <1>1, <1>2, <1>3 DEF TypeOK, OtherTypes

LEMMA ReceiveTypes ==
  ASSUME TypeOK, NEW d \in Devices, Receive(d)
  PROVE  OtherTypes'
<1>1. StoreSnapshot(d) /\ UNCHANGED <<enabled, told, behind, sends, autos, switches>>
  BY DEF Receive
<1>2. QED
  BY <1>1, SnapshotFacts DEF TypeOK, OtherTypes

LEMMA DropTypes ==
  ASSUME TypeOK, NEW d \in Devices, Drop(d)
  PROVE  OtherTypes'
<1>1. PICK m \in net : behind' = behind \cup {<<m.from, d>>}
  BY DEF Drop
<1>2. m.from \in Devices
  BY DEF TypeOK
<1>3. UNCHANGED <<snaps, enabled, told, sends, autos, switches>>
  BY DEF Drop
<1>4. QED
  BY <1>1, <1>2, <1>3 DEF TypeOK, OtherTypes

LEMMA NextTypes ==
  ASSUME LabelInv, Next
  PROVE  TypeOK'
<1>1. TypeOK
  BY DEF LabelInv
<1>2. PICK d \in Devices : Turn(d)
  BY NextTurn
<1>3. OtherTypes'
  <2>1. PICK c \in Devices :
          \/ Edit(c) \/ AutoAssign(c) \/ AutoFill(c) \/ Restore(c) \/ Receive(c) \/ Drop(c)
          \/ Switch(c) \/ \E e \in Others(c) : AddTrusted(c, e) \/ TrustMeBack(c, e)
    BY DEF Next
  <2>2. QED
    BY <1>1, <2>1, WriteTypes, AutoTypes, ReceiveTypes, DropTypes, SwitchTypes, SendTypes
<1>4. (\A m \in net : /\ m.from \in Devices /\ m.to \in Others(m.from) /\ m.batch # {}
                      /\ m.batch \subseteq Refs \X (Entries \ {Absent}))'
  BY <1>2, TurnMessages DEF Others
<1>5. data' \in [Devices -> [Refs -> Entries]] /\ now' \in Automatic..MaxNow
  BY <1>2 DEF Turn
<1>6. (chosen \subseteq Refs \X (Entries \ {Absent}))'
  BY <1>2, TurnChoices
<1>7. QED
  BY <1>3, <1>4, <1>5, <1>6 DEF TypeOK, OtherTypes

-----------------------------------------------------------------------------
(* The invariant and what follows. *)

LEMMA InitInv ==
  ASSUME Init
  PROVE  LabelInv
<1>1. Absent \in Entries /\ Absent.ts = 0
  BY DEF Entries, Absent
<1>2. \A d \in Devices, r \in Refs : data[d][r] = Absent
  BY DEF Init
<1>3. /\ now \in Automatic..MaxNow /\ 0 \in 0..MaxExtras /\ 0 \in 0..MaxAuto
      /\ 0 \in 0..MaxSwitches /\ SnapshotLimit \in Nat /\ now \in Nat /\ now = 1
  BY LabelAssumption DEF Init, Automatic
<1>4. TypeOK
  BY <1>1, <1>3 DEF Init, TypeOK
<1>5. Past
  BY <1>1, <1>2, <1>3 DEF Init, Past
<1>6. OneEntryEach
  BY DEF Init, OneEntryEach
<1>7. AllSpread
  BY <1>1, <1>2 DEF Init, AllSpread, Automatic
<1>8. OneChoice
  BY DEF Init, OneChoice
<1>9. QED
  BY <1>4, <1>5, <1>6, <1>7, <1>8 DEF LabelInv

LEMMA NextInv == LabelInv /\ [Next]_vars => LabelInv'
<1> SUFFICES ASSUME LabelInv, [Next]_vars
             PROVE  LabelInv'
  OBVIOUS
<1>1. CASE Next
  <2>1. PICK d \in Devices : Turn(d)
    BY <1>1, NextTurn
  <2>2. QED
    BY <1>1, <2>1, NextTypes, TurnPast, TurnMessages, TurnAllSpread, TurnChoices DEF LabelInv
<1>2. CASE UNCHANGED vars
  <2>1. TypeOK'
    BY <1>2 DEF LabelInv, TypeOK, vars, Others
  <2>2. Past' /\ OneEntryEach'
    BY <1>2 DEF LabelInv, Past, OneEntryEach, vars
  <2>3. AllSpread'
    BY <1>2 DEF LabelInv, AllSpread, Spread, Coming, Others, vars
  <2>4. OneChoice'
    BY <1>2 DEF LabelInv, OneChoice, vars
  <2>5. QED
    BY <2>1, <2>2, <2>3, <2>4 DEF LabelInv
<1>3. QED
  BY <1>1, <1>2

(* The invariant holds in every state: the times that are known anywhere      *)
(* are spread, on their way or noted as missing, and tell the choices of      *)
(* the users apart.                                                           *)
THEOREM LabelsInvariant == Spec => []LabelInv
<1>1. Init => LabelInv
  BY InitInv
<1>2. QED
  BY <1>1, NextInv, PTL DEF Spec

(* Every variable keeps its type; no more snapshots are kept than the limit   *)
(* allows (_store_snapshot).                                                  *)
THEOREM LabelTypes == Spec => []TypeOK
<1>1. LabelInv => TypeOK
  BY DEF LabelInv
<1>2. QED
  BY <1>1, LabelsInvariant, PTL

\* Times only grow, in every turn.
LEMMA TurnNeverResets ==
  ASSUME LabelInv, [Next]_vars
  PROVE  \A d \in Devices, r \in Refs : data'[d][r].ts >= data[d][r].ts
<1>1. \A d \in Devices, r \in Refs : data[d][r].ts \in Nat
  BY ClockFacts DEF LabelInv
<1>2. CASE Next
  <2>1. PICK c \in Devices : Turn(c)
    BY <1>2, NextTurn
  <2>2. ASSUME NEW d \in Devices, NEW r \in Refs
        PROVE  data'[d][r].ts >= data[d][r].ts
    <3>1. d = c \/ data'[d] = data[d]
      BY <2>1 DEF Turn, Others
    <3>2. QED
      BY <1>1, <2>1, <3>1 DEF Turn
  <2>3. QED
    BY <2>2
<1>3. CASE UNCHANGED vars
  BY <1>1, <1>3 DEF vars
<1>4. QED
  BY <1>2, <1>3

(* No entry goes back in time or disappears, however late a message arrives   *)
(* and however often snapshots are restored ("ensures that it doesnt get      *)
(* reset by an old state", labels.py:585).                                    *)
THEOREM NothingIsReset == Spec => NeverReset
<1>1. LabelInv /\ [Next]_vars =>
        [\A d \in Devices, r \in Refs : data'[d][r].ts >= data[d][r].ts]_vars
  BY TurnNeverResets
<1>2. QED
  BY <1>1, LabelsInvariant, PTL DEF Spec, NeverReset

\* Of two devices that are not behind neither has the later time.
LEMMA SpreadEverywhere ==
  ASSUME LabelInv, net = {}, behind = {}, NEW d \in Devices, NEW e \in Devices, NEW r \in Refs,
         data[d][r].ts > Automatic
  PROVE  data[e][r].ts >= data[d][r].ts
<1>1. Spread(r, data[d][r].ts)
  BY DEF LabelInv, AllSpread
<1>2. QED
  BY <1>1 DEF Spread, Coming, Others

(* Once nothing is on its way and nobody is behind, all devices have the same *)
(* time for what anybody wrote by hand, and the same choice where a user's    *)
(* choice is in force.                                                        *)
THEOREM DevicesAgree == Spec => []QuietDevicesAgree
<1>1. ASSUME LabelInv, net = {}, behind = {}, NEW d \in Devices, NEW e \in Devices,
             NEW r \in Refs, data[d][r].ts > Automatic
      PROVE  /\ data[e][r].ts = data[d][r].ts
             /\ ByHand(d, r) /\ ByHand(e, r) => data[d][r] = data[e][r]
  <2>1. TypeOK /\ OneChoice
    BY <1>1 DEF LabelInv
  <2>2. /\ data[d][r] \in Entries /\ data[e][r] \in Entries
        /\ data[d][r].ts \in Nat /\ data[e][r].ts \in Nat
    BY <2>1, ClockFacts
  <2>3. data[e][r].ts >= data[d][r].ts
    BY <1>1, SpreadEverywhere
  <2>4. data[e][r].ts > Automatic
    BY <1>1, <2>2, <2>3 DEF Automatic
  <2>5. data[d][r].ts >= data[e][r].ts
    BY <1>1, <2>4, SpreadEverywhere
  <2>6. data[e][r].ts = data[d][r].ts
    BY <2>2, <2>3, <2>5
  <2>7. ByHand(d, r) /\ ByHand(e, r) => <<r, data[d][r]>> = <<r, data[e][r]>>
    BY <2>1, <2>6 DEF ByHand, OneChoice
  <2>8. QED
    BY <2>6, <2>7
<1>2. LabelInv => QuietDevicesAgree
  BY <1>1 DEF QuietDevicesAgree
<1>3. QED
  BY <1>2, LabelsInvariant, PTL

=============================================================================
