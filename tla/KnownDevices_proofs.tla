-------------------------- MODULE KnownDevices_proofs --------------------------
(***************************************************************************)
(* Proofs about KnownDevices, for any computers, addresses and room in the   *)
(* list: its type invariant, that a flag "paired" and a host's trust each    *)
(* have their cause, and that the next start shows what the menu shows.      *)
(***************************************************************************)
EXTENDS KnownDevices, SequenceTheorems, TLAPS

\* Whoever works has a device; a pointer into the list points to its name; the
\* handshake has got an answer from the address.
Placed ==
  /\ ui # "menu" => info.dev \in Devices
  /\ info.at # 0 => info.at \in Index /\ list[info.at].dev = info.dev
  /\ ui = "secret" => info.addr \in Addrs

-----------------------------------------------------------------------------
(* What a step does to the list, entry by entry.                           *)

\* The entry i is now e, the others are what they were.
Edited(i, e) ==
  /\ i \in Index /\ e \in Device
  /\ list' \in Seq(Device) /\ Len(list') = Len(list)
  /\ list'[i] = e
  /\ \A j \in Index \ {i} : list'[j] = list[j]

\* The entry k is gone, those behind it have moved up.
Dropped(k) ==
  /\ k \in Index
  /\ list' \in Seq(Device) /\ Len(list') = Len(list) - 1
  /\ \A j \in 1..Len(list') : list'[j] = IF j < k THEN list[j] ELSE list[j + 1]

\* The entries from are followed by files that no entry of from has the name of.
Grown(from) ==
  /\ list' \in Seq(Device) /\ Len(from) <= Len(list') /\ Len(list') <= Size
  /\ \A j \in 1..Len(from) : list'[j] = from[j]
  /\ \A j \in Index' : j > Len(from) =>
       /\ list'[j].dev \in OnDisk
       /\ \A k \in 1..Len(list') : k # j => list'[k].dev # list'[j].dev
       /\ Loaded(list'[j].dev) = [paired |-> list'[j].paired, addr |-> list'[j].addr]

\* What becomes of the excuses when the files are read.
Excused(from) ==
  \A d \in Devices :
    \/ d \in OnDisk /\ (\A j \in 1..Len(from) : from[j].dev # d)
       /\ excuse'[d] = (IF d \in Names' THEN "none" ELSE "leftover")
    \/ (d \notin OnDisk \/ \E j \in 1..Len(from) : from[j].dev = d)
       /\ excuse'[d] = (IF from = <<>> THEN "none" ELSE excuse[d])

LEMMA ListTyped ==
  ASSUME TypeOK
  PROVE  /\ list \in Seq(Device) /\ Len(list) \in Nat /\ Len(list) <= Size /\ Size \in Nat
         /\ \A i \in Index : list[i] \in Device
BY ElementOfSeq, LenProperties, DevicesAssumption DEF TypeOK, Index

LEMMA EditOf ==
  ASSUME TypeOK, NEW i \in Index, NEW e \in Device, list' = [list EXCEPT ![i] = e]
  PROVE  Edited(i, e)
BY ListTyped, ExceptSeq DEF Edited, Index

LEMMA DropOf ==
  ASSUME TypeOK, NEW k \in Index, list' = RemoveAt(list, k)
  PROVE  Dropped(k)
<1> DEFINE head == SubSeq(list, 1, k - 1)
           tail == SubSeq(list, k + 1, Len(list))
<1>1. list' = head \o tail /\ k \in Int /\ k >= 1 /\ k <= Len(list) /\ Len(list) \in Nat
  BY ListTyped DEF RemoveAt, Index
<1>2. \A i \in 1..Len(list) : list[i] \in Device
  BY ListTyped DEF Index
<1>3. /\ head \in Seq(Device) /\ Len(head) = k - 1
      /\ \A i \in 1..(k - 1) : head[i] = list[i]
  <2>1. \A i \in 1..(k - 1) : list[i] \in Device
    BY <1>1, <1>2
  <2>2. 1 \in Int /\ k - 1 \in Int
    BY <1>1
  <2>3. /\ head \in Seq(Device)
        /\ Len(head) = (IF 1 <= k - 1 THEN (k - 1) - 1 + 1 ELSE 0)
        /\ \A i \in 1..((k - 1) - 1 + 1) : head[i] = list[1 + i - 1]
    BY <2>1, <2>2, SubSeqProperties
  <2> QED
    BY <1>1, <2>3
<1>4. /\ tail \in Seq(Device) /\ Len(tail) = Len(list) - k
      /\ \A i \in 1..(Len(list) - k) : tail[i] = list[k + i]
  <2>1. \A i \in (k + 1)..Len(list) : list[i] \in Device
    BY <1>1, <1>2
  <2>2. k + 1 \in Int /\ Len(list) \in Int
    BY <1>1
  <2>3. /\ tail \in Seq(Device)
        /\ Len(tail) = (IF k + 1 <= Len(list) THEN Len(list) - (k + 1) + 1 ELSE 0)
        /\ \A i \in 1..(Len(list) - (k + 1) + 1) : tail[i] = list[(k + 1) + i - 1]
    BY <2>1, <2>2, SubSeqProperties
  <2> QED
    BY <1>1, <2>3
<1> HIDE DEF head, tail
<1>5. /\ list' \in Seq(Device) /\ Len(list') = Len(head) + Len(tail)
      /\ \A i \in 1..(Len(head) + Len(tail)) :
           list'[i] = IF i <= Len(head) THEN head[i] ELSE tail[i - Len(head)]
  BY <1>1, <1>3, <1>4, ConcatProperties
<1>6. Len(list') = Len(list) - 1
  BY <1>1, <1>3, <1>4, <1>5
<1>7. ASSUME NEW j \in 1..Len(list')
      PROVE  list'[j] = IF j < k THEN list[j] ELSE list[j + 1]
  <2>1. CASE j < k
    BY <1>1, <1>3, <1>4, <1>5, <1>6, <2>1
  <2>2. CASE ~(j < k)
    <3>1. list'[j] = tail[j - (k - 1)] /\ j - (k - 1) \in 1..(Len(list) - k)
      BY <1>1, <1>3, <1>4, <1>5, <1>6, <2>2
    <3>2. tail[j - (k - 1)] = list[k + (j - (k - 1))]
      BY <1>4, <3>1
    <3>3. k + (j - (k - 1)) = j + 1
      BY <1>1
    <3> QED
      BY <2>2, <3>1, <3>2, <3>3
  <2> QED
    BY <2>1, <2>2
<1> QED
  BY <1>5, <1>6, <1>7 DEF Dropped

\* What a device.ini holds, read back, is an entry.
LEMMA LoadedEntry ==
  ASSUME TypeOK
  PROVE  \A d \in Devices : Loaded(d) \in Entry
                            /\ Loaded(d) = [paired |-> Loaded(d).paired, addr |-> Loaded(d).addr]
BY DEF TypeOK, Loaded, Entry

LEMMA GrowthOf ==
  ASSUME TypeOK, NEW from \in Seq(Device), Len(from) <= Size, LoadAll(from)
  PROVE  Grown(from) /\ Excused(from)
<1> DEFINE missing == OnDisk \ {from[i].dev : i \in 1..Len(from)}
           room == Size - Len(from)
           read(d) == [dev |-> d, paired |-> Loaded(d).paired, addr |-> Loaded(d).addr]
<1>0. PICK n \in 0..room : \E dir \in [1..n -> missing] :
        /\ \A i, j \in 1..n : dir[i] = dir[j] => i = j
        /\ list' = from \o [i \in 1..n |-> read(dir[i])]
        /\ excuse' = [d \in Devices |->
             IF d \in missing THEN IF \E i \in 1..n : dir[i] = d THEN "none" ELSE "leftover"
             ELSE IF from = <<>> THEN "none" ELSE excuse[d]]
  BY DEF LoadAll
<1>1. PICK dir \in [1..n -> missing] :
        /\ \A i, j \in 1..n : dir[i] = dir[j] => i = j
        /\ list' = from \o [i \in 1..n |-> read(dir[i])]
        /\ excuse' = [d \in Devices |->
             IF d \in missing THEN IF \E i \in 1..n : dir[i] = d THEN "none" ELSE "leftover"
             ELSE IF from = <<>> THEN "none" ELSE excuse[d]]
  BY <1>0
<1> DEFINE new == [i \in 1..n |-> read(dir[i])]
<1>2. Len(from) \in Nat /\ Size \in Nat /\ n \in Nat /\ Len(from) + n <= Size
  BY LenProperties, DevicesAssumption
<1>3. missing \subseteq Devices
  BY DEF OnDisk
<1>4. \A d \in missing : read(d) \in Device
  BY <1>3, LoadedEntry DEF Device, Entry
<1>5. /\ new \in Seq(Device) /\ Len(new) = n
      /\ \A i \in 1..n : new[i] = read(dir[i]) /\ new[i].dev = dir[i]
      /\ list' = from \o new
  <2>1. \A i \in 1..n : read(dir[i]) \in Device
    BY <1>4
  <2>2. new \in [1..n -> Device]
    BY <2>1
  <2> QED
    BY <1>1, <1>2, <2>2
<1> HIDE DEF new, read
<1>6. /\ list' \in Seq(Device) /\ Len(list') = Len(from) + n
      /\ \A i \in 1..(Len(from) + n) :
           list'[i] = IF i <= Len(from) THEN from[i] ELSE new[i - Len(from)]
  BY <1>5, ConcatProperties
<1>7. \A j \in 1..Len(from) : list'[j] = from[j]
  BY <1>2, <1>6
<1>8. ASSUME NEW j \in 1..n
      PROVE  list'[Len(from) + j] = read(dir[j]) /\ list'[Len(from) + j].dev = dir[j]
  <2>1. /\ Len(from) + j \in 1..(Len(from) + n) /\ ~(Len(from) + j <= Len(from))
        /\ (Len(from) + j) - Len(from) = j
    BY <1>2
  <2>2. list'[Len(from) + j] = new[(Len(from) + j) - Len(from)]
    BY <1>6, <2>1
  <2> QED
    BY <1>5, <2>1, <2>2
<1>9. ASSUME NEW j \in 1..Len(list'), j > Len(from)
      PROVE  /\ j - Len(from) \in 1..n
             /\ list'[j] = read(dir[j - Len(from)]) /\ list'[j].dev = dir[j - Len(from)]
  <2>1. j - Len(from) \in 1..n /\ Len(from) + (j - Len(from)) = j
    BY <1>2, <1>6, <1>9
  <2> QED
    BY <1>8, <2>1
<1>10. ASSUME NEW j \in 1..Len(list'), j > Len(from)
       PROVE  /\ list'[j].dev \in OnDisk
              /\ \A k \in 1..Len(list') : k # j => list'[k].dev # list'[j].dev
              /\ Loaded(list'[j].dev) = [paired |-> list'[j].paired, addr |-> list'[j].addr]
  <2>1. list'[j].dev = dir[j - Len(from)] /\ dir[j - Len(from)] \in missing
        /\ list'[j] = read(dir[j - Len(from)])
    BY <1>9, <1>10
  <2>2. ASSUME NEW k \in 1..Len(list'), k # j, k > Len(from)
        PROVE  list'[k].dev # list'[j].dev
    <3>1. list'[k].dev = dir[k - Len(from)] /\ k - Len(from) \in 1..n /\ j - Len(from) \in 1..n
      BY <1>9, <1>10, <2>2
    <3>2. k - Len(from) # j - Len(from)
      BY <1>2, <1>6, <2>2
    <3> QED
      BY <1>1, <2>1, <3>1, <3>2
  <2>3. ASSUME NEW k \in 1..Len(list'), k <= Len(from)
        PROVE  list'[k].dev # list'[j].dev
    <3>1. k \in 1..Len(from) /\ list'[k] = from[k]
      BY <1>2, <1>6, <1>7, <2>3
    <3> QED
      BY <2>1, <3>1
  <2>4. Loaded(list'[j].dev) = [paired |-> list'[j].paired, addr |-> list'[j].addr]
    BY <1>3, <2>1, LoadedEntry DEF read
  <2>5. \A k \in 1..Len(list') : k <= Len(from) \/ k > Len(from)
    BY <1>2, <1>6
  <2> QED
    BY <2>1, <2>2, <2>3, <2>4, <2>5
<1>11. ASSUME NEW d \in missing
       PROVE  d \in Names' <=> \E i \in 1..n : dir[i] = d
  <2>1. ASSUME NEW i \in 1..n, dir[i] = d PROVE d \in Names'
    <3>1. Len(from) + i \in 1..Len(list') /\ list'[Len(from) + i].dev = d
      BY <1>2, <1>6, <1>8, <2>1
    <3> QED
      BY <3>1 DEF Names, Index
  <2>2. ASSUME NEW j \in 1..Len(list'), list'[j].dev = d PROVE \E i \in 1..n : dir[i] = d
    <3>1. CASE j > Len(from)
      BY <1>9, <2>2, <3>1
    <3>2. CASE ~(j > Len(from))
      <4>1. j \in 1..Len(from) /\ from[j].dev = d
        BY <1>2, <1>6, <1>7, <2>2, <3>2
      <4> QED
        BY <4>1
    <3> QED
      BY <3>1, <3>2
  <2> QED
    BY <2>1, <2>2 DEF Names, Index
<1>12. Excused(from)
  <2> SUFFICES ASSUME NEW d \in Devices
               PROVE  \/ d \in OnDisk /\ (\A j \in 1..Len(from) : from[j].dev # d)
                         /\ excuse'[d] = (IF d \in Names' THEN "none" ELSE "leftover")
                      \/ (d \notin OnDisk \/ \E j \in 1..Len(from) : from[j].dev = d)
                         /\ excuse'[d] = (IF from = <<>> THEN "none" ELSE excuse[d])
    BY DEF Excused
  <2>1. CASE d \in missing
    BY <1>1, <1>11, <2>1
  <2>2. CASE d \notin missing
    BY <1>1, <2>2
  <2> QED
    BY <2>1, <2>2
<1>13. Grown(from)
  BY <1>2, <1>6, <1>7, <1>10 DEF Grown, Index
<1> QED
  BY <1>12, <1>13

-----------------------------------------------------------------------------
(* The actions that change the list.                                       *)

\* The entry i has changed, but not its name.
Retouched(i) ==
  /\ i \in Index
  /\ Len(list') = Len(list)
  /\ \A j \in Index : list'[j].dev = list[j].dev
  /\ \A j \in Index \ {i} : list'[j] = list[j]

LEMMA FlagEdited ==
  ASSUME TypeOK, NEW i \in Index, Edited(i, [list[i] EXCEPT !.paired = TRUE])
  PROVE  Retouched(i) /\ list'[i].paired = TRUE /\ list'[i].addr = list[i].addr
<1>1. list[i] \in Device
  BY ListTyped
<1> QED
  BY <1>1 DEF Edited, Retouched, Device

LEMMA AddrEdited ==
  ASSUME TypeOK, NEW i \in Index, NEW a, Edited(i, [list[i] EXCEPT !.addr = a])
  PROVE  Retouched(i) /\ list'[i].paired = list[i].paired /\ list'[i].addr = a
<1>1. list[i] \in Device
  BY ListTyped
<1> QED
  BY <1>1 DEF Edited, Retouched, Device

LEMMA BothEdited ==
  ASSUME TypeOK, NEW i \in Index, NEW b, NEW a,
         Edited(i, [dev |-> list[i].dev, paired |-> b, addr |-> a])
  PROVE  Retouched(i) /\ list'[i].paired = b /\ list'[i].addr = a
BY DEF Edited, Retouched

LEMMA AppendEffect ==
  ASSUME TypeOK, Placed, AppendDevice
  PROVE  /\ list' \in Seq(Device) /\ Len(list') = Len(list) + 1 /\ Len(list') <= Size
         /\ \A j \in Index : list'[j] = list[j]
         /\ list'[Len(list) + 1] =
              [dev |-> info.dev, paired |-> info.paired, addr |-> info.addr]
<1>1. [dev |-> info.dev, paired |-> info.paired, addr |-> info.addr] \in Device
  BY DEF TypeOK, Placed, AppendDevice, Info, Device
<1> QED
  BY <1>1, ListTyped, AppendProperties DEF AppendDevice, Index

LEMMA EditPaired ==
  ASSUME TypeOK, NEW i \in Index, NEW b \in BOOLEAN, list' = [list EXCEPT ![i].paired = b]
  PROVE  Edited(i, [list[i] EXCEPT !.paired = b])
<1>1. [list[i] EXCEPT !.paired = b] \in Device
  BY ListTyped DEF Device
<1> QED
  BY <1>1, EditOf

LEMMA EditAddr ==
  ASSUME TypeOK, NEW i \in Index, NEW a \in Addrs \union {NoAddr},
         list' = [list EXCEPT ![i].addr = a]
  PROVE  Edited(i, [list[i] EXCEPT !.addr = a])
<1>1. [list[i] EXCEPT !.addr = a] \in Device
  BY ListTyped DEF Device
<1> QED
  BY <1>1, EditOf

LEMMA EditName ==
  ASSUME TypeOK, NEW i \in Index, NEW n \in Devices, list' = [list EXCEPT ![i].dev = n]
  PROVE  Edited(i, [list[i] EXCEPT !.dev = n])
<1>1. [list[i] EXCEPT !.dev = n] \in Device
  BY ListTyped DEF Device
<1> QED
  BY <1>1, EditOf

LEMMA EditBoth ==
  ASSUME TypeOK, NEW i \in Index, NEW b \in BOOLEAN, NEW a \in Addrs \union {NoAddr},
         \/ list' = [list EXCEPT ![i].paired = b, ![i].addr = a]
         \/ list' = [list EXCEPT ![i].addr = a, ![i].paired = b]
  PROVE  Edited(i, [dev |-> list[i].dev, paired |-> b, addr |-> a])
<1> DEFINE e == [dev |-> list[i].dev, paired |-> b, addr |-> a]
<1>1. e \in Device
  BY ListTyped DEF Device
<1>2. list[i] \in Device /\ list \in [1..Len(list) -> Device] /\ i \in 1..Len(list)
  BY ListTyped, LenProperties DEF Index
<1>3. list' = [list EXCEPT ![i] = e]
  BY <1>2 DEF Device
<1> QED
  BY <1>1, <1>3, EditOf

LEMMA UpdateEffect ==
  ASSUME TypeOK, Placed, UpdateDevice
  PROVE  \/ \E k \in Index :
              /\ list[k].dev = info.dev
              /\ Edited(k, [dev |-> info.dev, paired |-> info.paired, addr |-> info.addr])
              /\ Retouched(k)
              /\ list'[k].paired = info.paired /\ list'[k].addr = info.addr
              /\ excuse' = [excuse EXCEPT ![info.dev] = IF @ = "doubled" THEN @ ELSE "hidden"]
         \/ /\ info.dev \notin Names /\ UNCHANGED list
            /\ excuse' = [excuse EXCEPT ![info.dev] = "leftover"]
<1>1. info.paired \in BOOLEAN /\ info.addr \in Addrs \union {NoAddr}
  BY DEF TypeOK, Info
<1>2. ASSUME NEW k \in Found(info.dev),
             list' = [list EXCEPT ![k].paired = info.paired, ![k].addr = info.addr]
      PROVE  /\ k \in Index /\ list[k].dev = info.dev
             /\ Edited(k, [dev |-> info.dev, paired |-> info.paired, addr |-> info.addr])
             /\ Retouched(k)
             /\ list'[k].paired = info.paired /\ list'[k].addr = info.addr
  <2>1. k \in Index /\ list[k].dev = info.dev
    BY <1>2 DEF Found
  <2>2. Edited(k, [dev |-> list[k].dev, paired |-> info.paired, addr |-> info.addr])
    BY <1>1, <1>2, <2>1, EditBoth
  <2> QED
    BY <2>1, <2>2, BothEdited
<1> QED
  BY <1>2 DEF UpdateDevice

LEMMA SetPairedEffect ==
  ASSUME TypeOK, Placed, SetPaired
  PROVE  \/ /\ info.at = 0 /\ UNCHANGED list
            /\ info' = [info EXCEPT !.paired = TRUE]
         \/ /\ info.at # 0 /\ UNCHANGED info
            /\ Edited(info.at, [list[info.at] EXCEPT !.paired = TRUE])
            /\ Retouched(info.at)
            /\ list'[info.at].paired = TRUE /\ list'[info.at].addr = list[info.at].addr
BY EditPaired, FlagEdited DEF SetPaired, Placed

LEMMA MenuPairedEffect ==
  ASSUME TypeOK, MenuPaired
  PROVE  \/ \E i \in Index :
              /\ Edited(i, [list[i] EXCEPT !.paired = TRUE])
              /\ Retouched(i)
              /\ list'[i].paired = TRUE /\ list'[i].addr = list[i].addr
              /\ info' = [info EXCEPT !.dev = list[i].dev, !.at = i]
              /\ borrowed' = borrowed \union ({list[i].dev} \ {info.dev})
              /\ ui' = "save" /\ then' = "menu" /\ UNCHANGED <<job, old, serverPaired>>
         \/ /\ UNCHANGED <<list, borrowed>>
            /\ Done
<1>1. ASSUME NEW i \in Index, list' = [list EXCEPT ![i].paired = TRUE]
      PROVE  /\ Edited(i, [list[i] EXCEPT !.paired = TRUE])
             /\ Retouched(i)
             /\ list'[i].paired = TRUE /\ list'[i].addr = list[i].addr
  BY <1>1, EditPaired, FlagEdited
<1> QED
  BY <1>1 DEF MenuPaired, Save

\* The entry k of the list is what remove_device has taken out, and the name is whose
\* file and directory it removes next.
Unlisted(k, name) ==
  /\ Dropped(k)
  /\ list[k].dev \in Devices
  /\ info' = [dev |-> name, addr |-> NoAddr, paired |-> FALSE, at |-> 0]
  /\ ui' = "ini" /\ then' = "menu" /\ job' = "connect"
  /\ old' = NoDevice /\ serverPaired' = FALSE

\* The name is that of the entry, or of another one: that then has lost its flag's
\* reason, and the file of what was taken out is left behind.
Deleted(k, name) ==
  /\ Unlisted(k, name)
  /\ \A d \in Devices : d \in borrowed => d \in borrowed'
  /\ name = list[k].dev \/ name \in borrowed'
  /\ \A d \in Devices : d # list[k].dev \/ d \in Names' \/ name = d => excuse'[d] = excuse[d]
  /\ list[k].dev \in Names' \/ name = list[k].dev \/ excuse'[list[k].dev] = "leftover"

LEMMA RemoveDeviceEffect ==
  ASSUME TypeOK, NEW i \in Index, RemoveDevice(i)
  PROVE  \E k \in Index : \E name \in Devices : Deleted(k, name)
<1> DEFINE name == IF i < Len(list) THEN list[i + 1].dev ELSE list[i].dev
<1>1. PICK k \in Found(list[i].dev) : list' = RemoveAt(list, k)
  BY DEF RemoveDevice, Unlist
<1>2. k \in Index /\ list[k].dev = list[i].dev
  BY <1>1 DEF Found
<1>3. Dropped(k) /\ list[k].dev \in Devices
  BY <1>1, <1>2, DropOf, ListTyped DEF Device
<1>4. Len(list) \in Nat /\ \A j \in 1..Len(list) : list[j].dev \in Devices
  BY ListTyped DEF Index, Device
<1>5. name \in Devices
  BY <1>4 DEF Index
<1>6. /\ info' = [dev |-> name, addr |-> NoAddr, paired |-> FALSE, at |-> 0]
      /\ ui' = "ini" /\ then' = "menu" /\ job' = "connect"
      /\ old' = NoDevice /\ serverPaired' = FALSE
      /\ borrowed' = borrowed \union ({name} \ {list[k].dev})
      /\ excuse' = [excuse EXCEPT ![list[k].dev] =
           IF name = list[k].dev \/ list[k].dev \in Names' THEN excuse[list[k].dev] ELSE "leftover"]
  BY <1>2 DEF RemoveDevice, Unlist, Manage, Goto
<1> HIDE DEF name
<1>7. Unlisted(k, name)
  BY <1>3, <1>6 DEF Unlisted
<1>8. /\ \A d \in Devices : d # list[k].dev \/ d \in Names' \/ name = d => excuse'[d] = excuse[d]
      /\ list[k].dev \in Names' \/ name = list[k].dev \/ excuse'[list[k].dev] = "leftover"
  BY <1>3, <1>6 DEF TypeOK
<1>9. Deleted(k, name)
  BY <1>6, <1>7, <1>8 DEF Deleted
<1> QED
  BY <1>2, <1>5, <1>9

LEMMA OldNameEffect ==
  ASSUME TypeOK, RemoveOldName
  PROVE  \/ /\ \E k \in Index : list[k].dev = old /\ old \in Devices /\ Unlisted(k, old)
            /\ UNCHANGED excuse
         \/ /\ old \notin Names
            /\ excuse' = [excuse EXCEPT ![old] = "leftover"]
            /\ Done
            /\ UNCHANGED list
<1>1. CASE Unlist(old, old) /\ UNCHANGED excuse
  <2>1. PICK k \in Found(old) : list' = RemoveAt(list, k)
    BY <1>1 DEF Unlist
  <2>2. k \in Index /\ list[k].dev = old
    BY <2>1 DEF Found
  <2>3. Dropped(k) /\ list[k].dev \in Devices
    BY <2>1, <2>2, DropOf, ListTyped DEF Device
  <2> QED
    BY <1>1, <2>2, <2>3 DEF Unlist, Unlisted, Manage, Goto
<1> QED
  BY <1>1 DEF RemoveOldName

LEMMA ChangeIpEffect ==
  ASSUME TypeOK, NEW i \in Index, NEW a \in Addrs, ChangeIp(i, a)
  PROVE  /\ Edited(i, [list[i] EXCEPT !.addr = a])
         /\ Retouched(i) /\ list'[i].paired = list[i].paired /\ list'[i].addr = a
<1>1. Edited(i, [list[i] EXCEPT !.addr = a])
  BY EditAddr DEF ChangeIp
<1> QED
  BY <1>1, AddrEdited

LEMMA CheckIpEffect ==
  ASSUME TypeOK, NEW i \in Index, NEW a \in Addrs, CheckIpUpdate(i, a)
  PROVE  /\ Edited(i, [dev |-> list[i].dev, paired |-> TRUE, addr |-> a])
         /\ Retouched(i) /\ list'[i].paired = TRUE /\ list'[i].addr = a
<1>1. Edited(i, [dev |-> list[i].dev, paired |-> TRUE, addr |-> a])
  BY EditBoth DEF CheckIpUpdate
<1> QED
  BY <1>1, BothEdited

LEMMA ChangeNameEffect ==
  ASSUME TypeOK, NEW i \in Index, NEW n \in Devices, ChangeName(i, n)
  PROVE  Edited(i, [list[i] EXCEPT !.dev = n])
BY EditName DEF ChangeName

LEMMA ReloadEffect ==
  ASSUME TypeOK, Reload
  PROVE  Grown(list) /\ Excused(list)
BY ListTyped, GrowthOf DEF Reload

LEMMA RestartEffect ==
  ASSUME TypeOK, Restart
  PROVE  Grown(<<>>) /\ Excused(<<>>)
<1>1. <<>> \in Seq(Device) /\ Len(<<>>) = 0 /\ Len(<<>>) <= Size
  BY EmptySeq, ListTyped
<1>2. LoadAll(<<>>)
  BY DEF Restart
<1> QED
  BY <1>1, <1>2, GrowthOf

-----------------------------------------------------------------------------
(* Type correctness.                                                       *)

LEMMA ContentEntry ==
  ASSUME TypeOK, Placed
  PROVE  Content \in Entry
<1>1. info.at # 0 => list[info.at] \in Device
  BY ListTyped DEF Placed
<1> QED
  BY <1>1 DEF TypeOK, Content, Entry, Info, Device

\* The struct that the UI thread works on is one.
LEMMA InfoTyped ==
  ASSUME TypeOK
  PROVE  /\ \A d \in Devices, a \in Addrs \union {NoAddr}, p \in BOOLEAN, k \in 0..Size :
              [dev |-> d, addr |-> a, paired |-> p, at |-> k] \in Info
         /\ Nobody \in Info /\ 0 \in 0..Size
         /\ \A k \in Index : k \in 0..Size /\ k # 0
         /\ [info EXCEPT !.paired = TRUE] \in Info
         /\ \A k \in 0..Size : [info EXCEPT !.at = k] \in Info
         /\ \A d \in Devices, k \in 0..Size : [info EXCEPT !.dev = d, !.at = k] \in Info
<1>1. 0 \in 0..Size
  BY ListTyped
<1>2. \A k \in Index : k \in 0..Size /\ k # 0
  BY ListTyped DEF Index
<1> QED
  BY <1>1, <1>2 DEF TypeOK, Info, Nobody

LEMMA DoneTyped ==
  ASSUME TypeOK, Done
  PROVE  /\ ui' = "menu" /\ then' = "menu" /\ job' = "add" /\ serverPaired' = FALSE
         /\ info' \in Info /\ info'.at = 0 /\ info'.paired = FALSE
         /\ old' = NoDevice
BY InfoTyped DEF Done, Goto, Nobody

LEMMA StartTyped ==
  ASSUME TypeOK, NEW j, NEW d \in Devices, NEW a \in Addrs \union {NoAddr}, NEW k \in 0..Size,
         Start(j, d, a, k)
  PROVE  /\ ui' = "keys" /\ then' = "menu" /\ job' = j /\ serverPaired' = FALSE
         /\ info' \in Info
         /\ info' = [dev |-> d, addr |-> a, paired |-> FALSE, at |-> k]
         /\ old' = NoDevice
BY InfoTyped DEF Start, Goto

LEMMA GoOnTyped ==
  ASSUME TypeOK, GoOn
  PROVE  /\ ui' = then /\ then' = "menu"
         /\ \/ then = "menu" /\ Done
            \/ then # "menu" /\ UNCHANGED <<job, info, old, serverPaired>>
BY DEF GoOn, Done, Goto

LEMMA TypeStep ==
  ASSUME TypeOK, Placed, [Next]_vars
  PROVE  TypeOK'
<1> USE DEF TypeOK, disk, pairing, causes, flow, Place, Talk, Then, Goto, Excuse
<1>1. CASE Unreachable
  BY <1>1, DoneTyped DEF Unreachable, Save
<1>2. CASE MakeDirectory
  BY <1>2 DEF MakeDirectory
<1>3. CASE LoadCert
  BY <1>3 DEF LoadCert, Of
<1>4. CASE MkcertSave
  BY <1>4 DEF MkcertSave
<1>5. CASE LoadServerStatus
  BY <1>5 DEF LoadServerStatus, ServerStatus, Save
<1>6. CASE Exchange
  BY <1>6 DEF Exchange
<1>7. CASE PairingSecret
  <2>1. Link \in Devices \X Addrs
    BY <1>7 DEF PairingSecret, Placed, Link
  <2> QED
    BY <1>7, <2>1 DEF PairingSecret
<1>8. CASE PairChallenge
  BY <1>8 DEF PairChallenge
<1>9. CASE PairFails
  BY <1>9 DEF PairFails
<1>10. CASE Unpair
  <2>1. withheld' \in SUBSET (Devices \X Addrs)
    BY <1>10 DEF Unpair
  <2> QED
    BY <1>10, <2>1, DoneTyped DEF Unpair
<1>11. CASE SaveFails
  <2>1. excuse' \in [Devices -> Excuse]
    BY <1>11 DEF SaveFails, Unsaved
  <2> QED
    BY <1>11, <2>1, DoneTyped, GoOnTyped DEF SaveFails
<1>12. CASE Truncate
  BY <1>12 DEF Truncate
<1>13. CASE Write
  <2>1. excuse' \in [Devices -> Excuse]
    BY <1>13 DEF Write, Unsaved
  <2>2. file' \in [Devices -> Entry \union {Absent, Torn}]
    BY <1>13, ContentEntry DEF Write
  <2> QED
    BY <1>13, <2>1, <2>2, DoneTyped, GoOnTyped DEF Write
<1>14. CASE AppendDevice
  <2>1. info' \in Info
    <3>1. Len(list) + 1 \in 0..Size
      BY <1>14, ListTyped DEF AppendDevice
    <3> QED
      BY <1>14, <3>1, InfoTyped DEF AppendDevice
  <2>2. excuse' \in [Devices -> Excuse]
    BY <1>14 DEF AppendDevice
  <2> QED
    BY <1>14, <2>1, <2>2, AppendEffect DEF AppendDevice, Save
<1>15. CASE UpdateDevice
  <2>1. list' \in Seq(Device) /\ Len(list') <= Size
    BY <1>15, UpdateEffect, ListTyped DEF Edited
  <2>2. excuse' \in [Devices -> Excuse]
    BY <1>15 DEF UpdateDevice
  <2> QED
    BY <1>15, <2>1, <2>2 DEF UpdateDevice, Save
<1>16. CASE AddPaired
  <2>1. list' \in Seq(Device) /\ Len(list') <= Size /\ info' \in Info
    BY <1>16, SetPairedEffect, ListTyped, InfoTyped DEF Edited, AddPaired
  <2> QED
    BY <1>16, <2>1 DEF AddPaired, Save
<1>17. CASE Added
  BY <1>17, DoneTyped DEF Added, Save
<1>18. CASE OpenHost
  BY <1>18, DoneTyped DEF OpenHost, ServerStatus
<1>19. CASE PairFromMenu
  BY <1>19 DEF PairFromMenu
<1>20. CASE MenuPaired
  <2>1. CASE UNCHANGED <<list, borrowed>> /\ Done
    BY <1>20, <2>1, DoneTyped DEF MenuPaired
  <2>2. ASSUME NEW i \in Index, Edited(i, [list[i] EXCEPT !.paired = TRUE]),
               info' = [info EXCEPT !.dev = list[i].dev, !.at = i],
               borrowed' = borrowed \union ({list[i].dev} \ {info.dev}),
               ui' = "save", then' = "menu", UNCHANGED <<job, old, serverPaired>>
        PROVE  TypeOK'
    <3>1. list[i].dev \in Devices
      BY ListTyped DEF Device
    <3>2. list' \in Seq(Device) /\ Len(list') <= Size /\ info' \in Info
      BY <2>2, <3>1, ListTyped, InfoTyped DEF Edited
    <3> QED
      BY <1>20, <2>2, <3>1, <3>2 DEF MenuPaired
  <2> QED
    BY <1>20, <2>1, <2>2, MenuPairedEffect
<1>21. CASE Disconnect
  BY <1>21, DoneTyped DEF Disconnect
<1>22. CASE RemoveFile
  <2>1. excuse' \in [Devices -> Excuse]
    BY <1>22 DEF RemoveFile, FileGone, Unsaved
  <2> QED
    BY <1>22, <2>1 DEF RemoveFile, FileGone, Placed
<1>23. CASE RemoveKeys
  <2>1. excuse' \in [Devices -> Excuse]
    BY <1>23 DEF RemoveKeys, FileGone, Unsaved
  <2> QED
    BY <1>23, <2>1 DEF RemoveKeys, FileGone
<1>24. CASE RemoveDirectory
  BY <1>24, DoneTyped DEF RemoveDirectory
<1>25. CASE RemoveOldName
  <2>1. ASSUME NEW k \in Index, list[k].dev = old, old \in Devices, Unlisted(k, old), UNCHANGED excuse PROVE TypeOK'
    <3>1. list' \in Seq(Device) /\ Len(list') <= Size
      BY <2>1, ListTyped DEF Unlisted, Dropped
    <3>2. info' \in Info
      BY <2>1, InfoTyped DEF Unlisted
    <3> QED
      BY <1>25, <2>1, <3>1, <3>2 DEF RemoveOldName, Unlisted
  <2>2. CASE Done /\ excuse' = [excuse EXCEPT ![old] = "leftover"] /\ UNCHANGED list
    BY <1>25, <2>2, DoneTyped DEF RemoveOldName
  <2> QED
    BY <1>25, <2>1, <2>2, OldNameEffect
<1>26. ASSUME NEW i \in Index, ConnectPaired(i) PROVE TypeOK'
  <2>1. list[i] \in Device /\ i \in 0..Size
    BY ListTyped, InfoTyped
  <2> QED
    BY <1>26, <2>1, StartTyped DEF ConnectPaired, Device
<1>27. ASSUME NEW i \in Index, RemoveDevice(i) PROVE TypeOK'
  <2>1. PICK k \in Index : \E name \in Devices : Deleted(k, name)
    BY <1>27, RemoveDeviceEffect
  <2>2. PICK name \in Devices : Deleted(k, name)
    BY <2>1
  <2>3. list' \in Seq(Device) /\ Len(list') <= Size
    BY <2>2, ListTyped DEF Deleted, Unlisted, Dropped
  <2>4. info' \in Info
    BY <2>2, InfoTyped DEF Deleted, Unlisted
  <2>5. list[i].dev \in Devices /\ \A j \in Index : list[j].dev \in Devices
    BY ListTyped DEF Device
  <2>6. i < Len(list) => i + 1 \in Index
    BY ListTyped DEF Index
  <2>7. borrowed' \in SUBSET Devices /\ excuse' \in [Devices -> Excuse]
    BY <1>27, <2>5, <2>6 DEF RemoveDevice
  <2> QED
    BY <1>27, <2>2, <2>3, <2>4, <2>7 DEF RemoveDevice, Deleted, Unlisted
<1>28. ASSUME NEW d \in Devices, NEW a \in Addrs, SearchDevice(d, a) PROVE TypeOK'
  BY <1>28, StartTyped, InfoTyped DEF SearchDevice
<1>29. ASSUME NEW d \in Devices, NEW a \in Addrs, ConnectManual(d, a) PROVE TypeOK'
  BY <1>29, StartTyped, InfoTyped DEF ConnectManual
<1>30. ASSUME NEW i \in Index, NEW a \in Addrs, ChangeIp(i, a) PROVE TypeOK'
  <2>1. list' \in Seq(Device) /\ Len(list') <= Size
    BY <1>30, ChangeIpEffect, ListTyped DEF Edited
  <2>2. info' \in Info
    BY <1>30, ListTyped, InfoTyped DEF ChangeIp, Manage, Device
  <2> QED
    BY <1>30, <2>1, <2>2 DEF ChangeIp, Manage, Save
<1>31. ASSUME NEW i \in Index, NEW a \in Addrs, CheckIpUpdate(i, a) PROVE TypeOK'
  <2>1. list' \in Seq(Device) /\ Len(list') <= Size
    BY <1>31, CheckIpEffect, ListTyped DEF Edited
  <2>2. info' \in Info
    BY <1>31, ListTyped, InfoTyped DEF CheckIpUpdate, Manage, Device
  <2> QED
    BY <1>31, <2>1, <2>2 DEF CheckIpUpdate, Manage, Save
<1>32. ASSUME NEW i \in Index, NEW n \in Devices, ChangeName(i, n) PROVE TypeOK'
  <2>1. list' \in Seq(Device) /\ Len(list') <= Size /\ list[i].dev \in Devices
    BY <1>32, ChangeNameEffect, ListTyped DEF Edited, Device
  <2>2. info' \in Info
    BY <1>32, ListTyped, InfoTyped DEF ChangeName, Manage
  <2>3. excuse' \in [Devices -> Excuse] /\ borrowed' \in SUBSET Devices
    BY <1>32 DEF ChangeName
  <2> QED
    BY <1>32, <2>1, <2>2, <2>3 DEF ChangeName, Manage, Save
<1>33. CASE Reload
  <2>1. list' \in Seq(Device) /\ Len(list') <= Size
    BY <1>33, ReloadEffect DEF Grown
  <2>2. excuse' \in [Devices -> Excuse]
    BY <1>33 DEF Reload, LoadAll
  <2>3. PICK i \in Found(info.dev) :
          IF list[i].paired THEN Start("connect", info.dev, list[i].addr, i) ELSE Done
    BY <1>33 DEF Reload
  <2>4. list[i] \in Device /\ i \in 0..Size /\ info.dev \in Devices
    BY <1>33, <2>3, ListTyped, InfoTyped DEF Found, Placed, Reload
  <2>5. /\ info' \in Info /\ ui' \in Place /\ then' \in Then /\ job' \in {"add", "connect"}
        /\ old' = NoDevice /\ serverPaired' = FALSE
    <3>1. CASE list[i].paired
      BY <2>3, <2>4, <3>1, StartTyped DEF Device
    <3>2. CASE ~list[i].paired
      BY <2>3, <3>2, DoneTyped
    <3> QED
      BY <3>1, <3>2
  <2> QED
    BY <1>33, <2>1, <2>2, <2>5 DEF Reload
<1>34. CASE HostForgets
  BY <1>34 DEF HostForgets
<1>35. CASE Restart
  <2>1. list' \in Seq(Device) /\ Len(list') <= Size
    BY <1>35, RestartEffect DEF Grown
  <2>2. excuse' \in [Devices -> Excuse]
    BY <1>35 DEF Restart, LoadAll
  <2>3. withheld' \in SUBSET (Devices \X Addrs)
    BY <1>35 DEF Restart
  <2> QED
    BY <1>35, <2>1, <2>2, <2>3, DoneTyped DEF Restart
<1>36. CASE UNCHANGED vars
  BY <1>36 DEF vars
<1> QED
  BY <1>1, <1>2, <1>3, <1>4, <1>5, <1>6, <1>7, <1>8, <1>9, <1>10, <1>11, <1>12, <1>13,
    <1>14, <1>15, <1>16, <1>17, <1>18, <1>19, <1>20, <1>21, <1>22, <1>23, <1>24, <1>25, <1>26,
    <1>27, <1>28, <1>29, <1>30, <1>31, <1>32, <1>33, <1>34, <1>35, <1>36 DEF Next, GsInit,
    GsPair, SaveDevice, Add, Connect, RemoveFiles, Menu

LEMMA PlacedStep ==
  ASSUME TypeOK, Placed, [Next]_vars
  PROVE  Placed'
<1> USE DEF Placed, Index, disk, pairing, causes, flow, Goto
<1>1. CASE Unreachable
  BY <1>1, DoneTyped DEF Unreachable, Save
<1>2. CASE MakeDirectory
  BY <1>2 DEF MakeDirectory
<1>3. CASE LoadCert
  BY <1>3 DEF LoadCert, Of
<1>4. CASE MkcertSave
  BY <1>4 DEF MkcertSave
<1>5. CASE LoadServerStatus
  BY <1>5 DEF LoadServerStatus, ServerStatus, Save
<1>6. CASE Exchange
  BY <1>6 DEF Exchange
<1>7. CASE PairingSecret
  BY <1>7 DEF PairingSecret, CanSign
<1>8. CASE PairChallenge
  BY <1>8 DEF PairChallenge
<1>9. CASE PairFails
  BY <1>9 DEF PairFails
<1>10. CASE Unpair
  BY <1>10, DoneTyped DEF Unpair
<1>11. CASE SaveFails
  BY <1>11, DoneTyped, GoOnTyped DEF SaveFails, TypeOK, Then
<1>12. CASE Truncate
  BY <1>12 DEF Truncate
<1>13. CASE Write
  BY <1>13, DoneTyped, GoOnTyped DEF Write, TypeOK, Then
<1>14. CASE AppendDevice
  BY <1>14, AppendEffect, ListTyped DEF AppendDevice, Save, TypeOK, Info
<1>15. CASE UpdateDevice
  BY <1>15, UpdateEffect DEF Edited, UpdateDevice, Save
<1>16. CASE AddPaired
  BY <1>16, SetPairedEffect, ListTyped DEF Edited, AddPaired, Save, TypeOK, Info, Device
<1>17. CASE Added
  BY <1>17, DoneTyped DEF Added, Save
<1>18. CASE OpenHost
  BY <1>18, DoneTyped DEF OpenHost
<1>19. CASE PairFromMenu
  BY <1>19 DEF PairFromMenu
<1>20. CASE MenuPaired
  <2>1. CASE Done
    BY <2>1, DoneTyped
  <2>2. ASSUME NEW i \in Index, Edited(i, [list[i] EXCEPT !.paired = TRUE]),
               info' = [info EXCEPT !.dev = list[i].dev, !.at = i], ui' = "save"
        PROVE  Placed'
    BY <2>2, ListTyped DEF Edited, TypeOK, Info, Device
  <2> QED
    BY <1>20, <2>1, <2>2, MenuPairedEffect
<1>21. CASE Disconnect
  BY <1>21, DoneTyped DEF Disconnect
<1>22. CASE RemoveFile
  BY <1>22 DEF RemoveFile, FileGone
<1>23. CASE RemoveKeys
  BY <1>23 DEF RemoveKeys, FileGone
<1>24. CASE RemoveDirectory
  BY <1>24, DoneTyped DEF RemoveDirectory
<1>25. CASE RemoveOldName
  <2>1. CASE Done
    BY <2>1, DoneTyped
  <2>2. ASSUME NEW k \in Index, Unlisted(k, old), old \in Devices PROVE Placed'
    BY <2>2 DEF Unlisted
  <2> QED
    BY <1>25, <2>1, <2>2, OldNameEffect
<1>26. ASSUME NEW i \in Index, ConnectPaired(i) PROVE Placed'
  BY <1>26, ListTyped DEF ConnectPaired, Start, Device
<1>27. ASSUME NEW i \in Index, RemoveDevice(i) PROVE Placed'
  <2>1. PICK k \in Index : \E name \in Devices : Deleted(k, name)
    BY <1>27, RemoveDeviceEffect
  <2>2. PICK name \in Devices : Deleted(k, name)
    BY <2>1
  <2> QED
    BY <2>2 DEF Deleted, Unlisted
<1>28. ASSUME NEW d \in Devices, NEW a \in Addrs, SearchDevice(d, a) PROVE Placed'
  BY <1>28 DEF SearchDevice, Start
<1>29. ASSUME NEW d \in Devices, NEW a \in Addrs, ConnectManual(d, a) PROVE Placed'
  BY <1>29 DEF ConnectManual, Start
<1>30. ASSUME NEW i \in Index, NEW a \in Addrs, ChangeIp(i, a) PROVE Placed'
  BY <1>30, ChangeIpEffect, ListTyped DEF Edited, ChangeIp, Manage, Save, Device
<1>31. ASSUME NEW i \in Index, NEW a \in Addrs, CheckIpUpdate(i, a) PROVE Placed'
  BY <1>31, CheckIpEffect, ListTyped DEF Edited, CheckIpUpdate, Manage, Save, Device
<1>32. ASSUME NEW i \in Index, NEW n \in Devices, ChangeName(i, n) PROVE Placed'
  BY <1>32, ChangeNameEffect, ListTyped DEF Edited, ChangeName, Manage, Save, Device
<1>33. CASE Reload
  <2>1. PICK i \in Found(info.dev) :
          IF list[i].paired THEN Start("connect", info.dev, list[i].addr, i) ELSE Done
    BY <1>33 DEF Reload
  <2>2. /\ i \in Index /\ list[i].dev = info.dev /\ list[i] \in Device
        /\ i \in 0..Size /\ info.dev \in Devices
    BY <1>33, <2>1, ListTyped, InfoTyped DEF Found, Reload
  <2>3. i \in Index' /\ list'[i] = list[i]
    BY <1>33, <2>2, ReloadEffect, ListTyped, LenProperties DEF Grown
  <2>4. CASE list[i].paired
    BY <2>1, <2>2, <2>3, <2>4 DEF Start
  <2>5. CASE ~list[i].paired
    BY <2>1, <2>5, DoneTyped
  <2> QED
    BY <2>4, <2>5
<1>34. CASE HostForgets
  BY <1>34 DEF HostForgets
<1>35. CASE Restart
  BY <1>35, DoneTyped DEF Restart
<1>36. CASE UNCHANGED vars
  BY <1>36 DEF vars
<1> QED
  BY <1>1, <1>2, <1>3, <1>4, <1>5, <1>6, <1>7, <1>8, <1>9, <1>10, <1>11, <1>12, <1>13,
    <1>14, <1>15, <1>16, <1>17, <1>18, <1>19, <1>20, <1>21, <1>22, <1>23, <1>24, <1>25, <1>26,
    <1>27, <1>28, <1>29, <1>30, <1>31, <1>32, <1>33, <1>34, <1>35, <1>36 DEF Next, GsInit,
    GsPair, SaveDevice, Add, Connect, RemoveFiles, Menu

\* Type correctness, for any computers, addresses and room in the list.
THEOREM Typed == Spec => []TypeOK
<1>1. Init => TypeOK /\ Placed
  <2> SUFFICES ASSUME Init PROVE TypeOK /\ Placed
    OBVIOUS
  <2>1. list \in Seq(Device) /\ Len(list) <= Size
    BY EmptySeq, DevicesAssumption DEF Init
  <2>2. info \in Info /\ info.at = 0
    BY DevicesAssumption DEF Init, Nobody, Info
  <2> QED
    BY <2>1, <2>2 DEF Init, TypeOK, Placed, Place, Talk, Then, Excuse
<1>2. TypeOK /\ Placed /\ [Next]_vars => (TypeOK /\ Placed)'
  BY TypeStep, PlacedStep
<1> QED
  BY <1>1, <1>2, PTL DEF Spec

-----------------------------------------------------------------------------
(* A host's trust in a certificate.                                        *)

LEMMA TrustStep ==
  ASSUME TypeOK, TrustForCause, [Next]_vars
  PROVE  TrustForCause'
<1> USE DEF TrustForCause, Link, disk, pairing, causes, flow, Goto
<1>1. CASE Unreachable
  BY <1>1, DoneTyped DEF Unreachable, Save
<1>2. CASE MakeDirectory
  BY <1>2 DEF MakeDirectory
<1>3. CASE LoadCert
  BY <1>3 DEF LoadCert, Of
<1>4. CASE MkcertSave
  BY <1>4 DEF MkcertSave
<1>5. CASE LoadServerStatus
  BY <1>5 DEF LoadServerStatus, ServerStatus, Save
<1>6. CASE Exchange
  BY <1>6 DEF Exchange
<1>7. CASE PairingSecret
  BY <1>7 DEF PairingSecret, CanSign
<1>8. CASE PairChallenge
  BY <1>8 DEF PairChallenge
<1>9. CASE PairFails
  BY <1>9 DEF PairFails
<1>10. CASE Unpair
  BY <1>10, DoneTyped DEF Unpair
<1>11. CASE SaveFails
  BY <1>11, DoneTyped, GoOnTyped DEF SaveFails
<1>12. CASE Truncate
  BY <1>12 DEF Truncate
<1>13. CASE Write
  BY <1>13, DoneTyped, GoOnTyped DEF Write
<1>14. CASE AppendDevice
  BY <1>14 DEF AppendDevice, Save
<1>15. CASE UpdateDevice
  BY <1>15 DEF UpdateDevice, Save
<1>16. CASE AddPaired
  BY <1>16 DEF AddPaired, Save
<1>17. CASE Added
  BY <1>17, DoneTyped DEF Added, Save
<1>18. CASE OpenHost
  BY <1>18, DoneTyped DEF OpenHost, ServerStatus
<1>19. CASE PairFromMenu
  BY <1>19 DEF PairFromMenu
<1>20. CASE MenuPaired
  BY <1>20, MenuPairedEffect, DoneTyped DEF MenuPaired
<1>21. CASE Disconnect
  BY <1>21, DoneTyped DEF Disconnect
<1>22. CASE RemoveFile
  BY <1>22 DEF RemoveFile, FileGone
<1>23. CASE RemoveKeys
  BY <1>23 DEF RemoveKeys, FileGone
<1>24. CASE RemoveDirectory
  BY <1>24, DoneTyped DEF RemoveDirectory
<1>25. CASE RemoveOldName
  BY <1>25, OldNameEffect, DoneTyped DEF Unlisted, RemoveOldName
<1>26. ASSUME NEW i \in Index, ConnectPaired(i) PROVE TrustForCause'
  BY <1>26 DEF ConnectPaired, Start
<1>27. ASSUME NEW i \in Index, RemoveDevice(i) PROVE TrustForCause'
  BY <1>27, RemoveDeviceEffect DEF RemoveDevice, Deleted, Unlisted
<1>28. ASSUME NEW d \in Devices, NEW a \in Addrs, SearchDevice(d, a) PROVE TrustForCause'
  BY <1>28 DEF SearchDevice, Start
<1>29. ASSUME NEW d \in Devices, NEW a \in Addrs, ConnectManual(d, a) PROVE TrustForCause'
  BY <1>29 DEF ConnectManual, Start
<1>30. ASSUME NEW i \in Index, NEW a \in Addrs, ChangeIp(i, a) PROVE TrustForCause'
  BY <1>30 DEF ChangeIp, Manage, Save
<1>31. ASSUME NEW i \in Index, NEW a \in Addrs, CheckIpUpdate(i, a) PROVE TrustForCause'
  BY <1>31 DEF CheckIpUpdate, Manage, Save
<1>32. ASSUME NEW i \in Index, NEW n \in Devices, ChangeName(i, n) PROVE TrustForCause'
  BY <1>32 DEF ChangeName, Manage, Save
<1>33. CASE Reload
  BY <1>33 DEF Reload, Start
<1>34. CASE HostForgets
  BY <1>34 DEF HostForgets
<1>35. CASE Restart
  BY <1>35, DoneTyped DEF Restart
<1>36. CASE UNCHANGED vars
  BY <1>36 DEF vars
<1> QED
  BY <1>1, <1>2, <1>3, <1>4, <1>5, <1>6, <1>7, <1>8, <1>9, <1>10, <1>11, <1>12, <1>13,
    <1>14, <1>15, <1>16, <1>17, <1>18, <1>19, <1>20, <1>21, <1>22, <1>23, <1>24, <1>25, <1>26,
    <1>27, <1>28, <1>29, <1>30, <1>31, <1>32, <1>33, <1>34, <1>35, <1>36 DEF Next, GsInit,
    GsPair, SaveDevice, Add, Connect, RemoveFiles, Menu

\* A host trusts no certificate that the client does not know of, except one whose
\* gs_unpair was lost or whose handshake runs.
THEOREM Trusted == Spec => []TrustForCause
<1>1. Init => TrustForCause
  BY DEF Init, TrustForCause
<1>2. TypeOK /\ TrustForCause /\ [Next]_vars => TrustForCause'
  BY TrustStep
<1> QED
  BY <1>1, <1>2, Typed, PTL DEF Spec

-----------------------------------------------------------------------------
(* Names that two entries share.                                           *)

\* The flag may be another entry's, and the next start says something else.
Shared(d) == d \in borrowed /\ excuse[d] = "doubled"

Twins == \A i, j \in Index : i # j /\ list[i].dev = list[j].dev => Shared(list[i].dev)

\* What is removed is out of the list, or its flag is not its own any more; its file is
\* gone, or the flag in it is not its own.
Removing ==
  /\ ui \in {"ini", "directory"} /\ info.dev \in Names => info.dev \in borrowed
  /\ ui = "directory" /\ file[info.dev] # Absent => info.dev \in borrowed

Sharing == Twins /\ Removing

LEMMA UnsavedKeeps ==
  ASSUME TypeOK, NEW d \in Devices
  PROVE  /\ Unsaved[d] = "none" => d # info.dev /\ excuse[d] = "none"
         /\ excuse[d] # "none" => Unsaved[d] = excuse[d]
         /\ d # info.dev => Unsaved[d] = excuse[d]
         /\ Unsaved[d] = "leftover" => excuse[d] = "leftover"
BY DEF TypeOK, Unsaved

\* What becomes of the excuses when a save has gone through, or has not.
LEMMA WriteEffect ==
  ASSUME TypeOK, Placed, Write
  PROVE  /\ UNCHANGED <<list, keys, pairing, borrowed>> /\ ui = "write" /\ GoOn
         /\ \A d \in Devices \ {info.dev} : excuse'[d] = excuse[d] /\ file'[d] = file[d]
         /\ \/ /\ file'[info.dev] = Content
               /\ excuse'[info.dev] =
                    IF excuse[info.dev] = "unsaved" \/ (excuse[info.dev] = "hidden" /\ info.at # 0)
                    THEN "none" ELSE excuse[info.dev]
            \/ /\ UNCHANGED file
               /\ excuse'[info.dev] =
                    IF excuse[info.dev] = "none" THEN "unsaved" ELSE excuse[info.dev]
BY DEF TypeOK, Placed, Write, Unsaved

\* A rename changes one name, and marks the one it changes to.
LEMMA RenameEffect ==
  ASSUME TypeOK, NEW i \in Index, NEW n \in Devices, ChangeName(i, n)
  PROVE  /\ Edited(i, [list[i] EXCEPT !.dev = n])
         /\ list'[i].dev = n /\ list'[i].paired = list[i].paired /\ list'[i].addr = list[i].addr
         /\ ui = "menu" /\ ui' = "save" /\ UNCHANGED <<disk, pairing>>
         /\ info' = [dev |-> n, addr |-> NoAddr, paired |-> FALSE, at |-> i]
         /\ info'.dev = n /\ info'.at = i
         /\ job' = "connect" /\ serverPaired' = FALSE
         /\ \A d \in Devices \ {n} : excuse'[d] = excuse[d] /\ (d \in borrowed' <=> d \in borrowed)
         /\ \/ /\ n = list[i].dev /\ UNCHANGED causes
               /\ then' = "menu"
            \/ /\ n # list[i].dev /\ then' = "renamed" /\ old' = list[i].dev
               /\ n \in borrowed'
               /\ excuse'[n] = IF n \in Names THEN "doubled" ELSE "none"
<1>1. list[i] \in Device
  BY ListTyped
<1>2. Edited(i, [list[i] EXCEPT !.dev = n])
  BY ChangeNameEffect
<1>3. list'[i].dev = n /\ list'[i].paired = list[i].paired /\ list'[i].addr = list[i].addr
  BY <1>1, <1>2 DEF Edited, Device
<1>4. \/ n = list[i].dev /\ UNCHANGED causes /\ then' = "menu"
      \/ /\ n # list[i].dev /\ then' = "renamed" /\ old' = list[i].dev
         /\ borrowed' = borrowed \union {n}
         /\ excuse' = [excuse EXCEPT ![n] = IF n \in Names THEN "doubled" ELSE "none"]
  BY DEF ChangeName, Save
<1>5. \A d \in Devices \ {n} : excuse'[d] = excuse[d] /\ (d \in borrowed' <=> d \in borrowed)
  BY <1>4 DEF TypeOK, causes
<1>6. n # list[i].dev => n \in borrowed' /\ excuse'[n] = IF n \in Names THEN "doubled" ELSE "none"
  BY <1>4 DEF TypeOK
<1>7. /\ info' = [dev |-> n, addr |-> NoAddr, paired |-> FALSE, at |-> i]
      /\ info'.dev = n /\ info'.at = i /\ job' = "connect" /\ serverPaired' = FALSE
  BY DEF ChangeName, Manage
<1> QED
  BY <1>2, <1>3, <1>4, <1>5, <1>6, <1>7 DEF ChangeName, Save

\* Removing a file whose name no entry has lets the name start anew.
LEMMA FileGoneEffect ==
  ASSUME TypeOK, Placed, ui # "menu", FileGone
  PROVE  /\ file' = [file EXCEPT ![info.dev] = Absent]
         /\ \A d \in Devices \ {info.dev} :
              /\ file'[d] = file[d] /\ excuse'[d] = excuse[d]
              /\ d \in borrowed' <=> d \in borrowed
         /\ info.dev \in Names =>
              /\ borrowed' = borrowed
              /\ excuse'[info.dev] # "none"
              /\ excuse[info.dev] # "none" => excuse'[info.dev] = excuse[info.dev]
         /\ info.dev \notin Names => excuse'[info.dev] = "none"
         /\ info.dev \in Devices /\ file'[info.dev] = Absent
<1>1. info.dev \in Devices
  BY DEF Placed
<1>2. CASE info.dev \in Names
  <2>1. excuse' = Unsaved /\ borrowed' = borrowed
    BY <1>2 DEF FileGone
  <2> QED
    BY <1>1, <1>2, <2>1, UnsavedKeeps DEF TypeOK, FileGone
<1>3. CASE info.dev \notin Names
  BY <1>1, <1>3 DEF TypeOK, FileGone
<1> QED
  BY <1>2, <1>3

\* Taking an entry out leaves its name in the list only if another entry has it.
LEMMA DroppedShares ==
  ASSUME TypeOK, Sharing, NEW k \in Index, NEW name \in Devices, Unlisted(k, name),
         \A d \in Devices : d \in borrowed => d \in borrowed',
         name = list[k].dev \/ name \in borrowed',
         \A d \in Devices : d \in Names' => excuse'[d] = excuse[d]
  PROVE  Sharing'
<1>1. Len(list) \in Nat /\ k \in 1..Len(list) /\ Len(list') = Len(list) - 1
  BY ListTyped DEF Unlisted, Dropped, Index
<1> DEFINE was(j) == IF j < k THEN j ELSE j + 1
<1>2. \A j \in 1..Len(list') : was(j) \in 1..Len(list) /\ was(j) # k /\ list'[j] = list[was(j)]
  BY <1>1 DEF Unlisted, Dropped
<1>3. \A i, j \in 1..Len(list') : i # j => was(i) # was(j)
  BY <1>1
<1> HIDE DEF was
<1>4. info'.dev = name /\ ui' = "ini"
  BY DEF Unlisted
<1>5. Twins'
  <2> SUFFICES ASSUME NEW i \in 1..Len(list'), NEW j \in 1..Len(list'), i # j,
                      list'[i].dev = list'[j].dev
               PROVE  list'[i].dev \in borrowed' /\ excuse'[list'[i].dev] = "doubled"
    BY DEF Twins, Shared, Index
  <2>1. Shared(list[was(i)].dev)
    BY <1>2, <1>3 DEF Sharing, Twins, Index
  <2>2. list'[i].dev = list[was(i)].dev /\ list[was(i)].dev \in Devices
    BY <1>2, ListTyped DEF Index, Device
  <2>3. list'[i].dev \in Names'
    BY DEF Names, Index
  <2> QED
    BY <2>1, <2>2, <2>3 DEF Shared
<1>6. Removing'
  <2> SUFFICES ASSUME info'.dev \in Names' PROVE info'.dev \in borrowed'
    BY <1>4 DEF Removing
  <2>1. CASE name = list[k].dev
    <3>1. PICK j \in 1..Len(list') : list'[j].dev = list[k].dev
      BY <1>4, <2>1 DEF Names, Index
    <3>2. Shared(list[k].dev)
      BY <1>1, <1>2, <3>1 DEF Sharing, Twins, Index
    <3> QED
      BY <1>4, <2>1, <3>2 DEF Shared
  <2> QED
    BY <1>4, <2>1
<1> QED
  BY <1>5, <1>6 DEF Sharing

LEMMA SharingStep ==
  ASSUME TypeOK, Placed, Sharing, [Next]_vars
  PROVE  Sharing'
<1> USE DEF Sharing, Twins, Removing, Shared, Names, Index, disk, pairing, causes, flow, Goto
<1>1. CASE Unreachable
  BY <1>1, DoneTyped DEF Unreachable, Save
<1>2. CASE MakeDirectory
  BY <1>2 DEF MakeDirectory
<1>3. CASE LoadCert
  BY <1>3 DEF LoadCert, Of
<1>4. CASE MkcertSave
  BY <1>4 DEF MkcertSave
<1>5. CASE LoadServerStatus
  BY <1>5 DEF LoadServerStatus, ServerStatus, Save
<1>6. CASE Exchange
  BY <1>6 DEF Exchange
<1>7. CASE PairingSecret
  BY <1>7 DEF PairingSecret, CanSign
<1>8. CASE PairChallenge
  BY <1>8 DEF PairChallenge
<1>9. CASE PairFails
  BY <1>9 DEF PairFails
<1>10. CASE Unpair
  BY <1>10, DoneTyped DEF Unpair
<1>11. CASE SaveFails
  <2>1. \A d \in Devices : excuse[d] = "doubled" => excuse'[d] = "doubled"
    BY <1>11, UnsavedKeeps DEF SaveFails
  <2>2. ui' \notin {"ini", "directory"}
    BY <1>11, GoOnTyped DEF SaveFails, TypeOK, Then
  <2>3. \A i \in Index : list[i].dev \in Devices
    BY ListTyped DEF Device
  <2> QED
    BY <1>11, <2>1, <2>2, <2>3 DEF SaveFails
<1>12. CASE Truncate
  BY <1>12 DEF Truncate
<1>13. CASE Write
  <2>1. \A d \in Devices : excuse[d] = "doubled" => excuse'[d] = "doubled"
    BY <1>13, WriteEffect
  <2>2. ui' \notin {"ini", "directory"}
    BY <1>13, GoOnTyped DEF Write, TypeOK, Then
  <2>3. \A i \in Index : list[i].dev \in Devices
    BY ListTyped DEF Device
  <2> QED
    BY <1>13, <2>1, <2>2, <2>3, WriteEffect
<1>14. CASE AppendDevice
  <2>1. ui' = "save" /\ UNCHANGED borrowed /\ info.dev \notin Names
    BY <1>14 DEF AppendDevice, Save
  <2>2. \A d \in Devices : d # info.dev => excuse'[d] = excuse[d]
    BY <1>14 DEF AppendDevice, TypeOK
  <2>3. Len(list) \in Nat /\ \A i \in Index : list[i].dev \in Devices
    BY ListTyped DEF Device
  <2>4. \A i \in Index' : (i \in Index /\ list'[i] = list[i])
                          \/ (i = Len(list) + 1 /\ list'[i].dev = info.dev)
    BY <1>14, <2>3, AppendEffect
  <2> QED
    BY <2>1, <2>2, <2>3, <2>4
<1>15. CASE UpdateDevice
  <2>1. ui' = "save" /\ UNCHANGED borrowed
    BY <1>15 DEF UpdateDevice, Save
  <2>2. Len(list') = Len(list) /\ \A i \in Index : list'[i].dev = list[i].dev /\ list[i].dev \in Devices
    BY <1>15, UpdateEffect, ListTyped DEF Retouched, Device
  <2>3. \A i \in Index : excuse[list[i].dev] = "doubled" => excuse'[list[i].dev] = "doubled"
    BY <1>15, <2>2, UpdateEffect DEF TypeOK
  <2> QED
    BY <2>1, <2>2, <2>3
<1>16. CASE AddPaired
  <2>1. ui' = "save" /\ UNCHANGED causes
    BY <1>16 DEF AddPaired, Save
  <2>2. Len(list') = Len(list) /\ \A i \in Index : list'[i].dev = list[i].dev
    BY <1>16, SetPairedEffect DEF Retouched, AddPaired
  <2> QED
    BY <2>1, <2>2
<1>17. CASE Added
  BY <1>17, DoneTyped DEF Added, Save
<1>18. CASE OpenHost
  BY <1>18, DoneTyped DEF OpenHost
<1>19. CASE PairFromMenu
  BY <1>19 DEF PairFromMenu
<1>20. CASE MenuPaired
  <2>1. ui' \notin {"ini", "directory"} /\ borrowed \subseteq borrowed' /\ UNCHANGED excuse
    BY <1>20, MenuPairedEffect, DoneTyped DEF MenuPaired
  <2>2. Len(list') = Len(list) /\ \A i \in Index : list'[i].dev = list[i].dev
    BY <1>20, MenuPairedEffect DEF Retouched
  <2> QED
    BY <2>1, <2>2
<1>21. CASE Disconnect
  BY <1>21, DoneTyped DEF Disconnect
<1>22. CASE RemoveFile
  <2>1. CASE FileGone /\ UNCHANGED <<list, info>> /\ ui' = "directory"
    <3>1. \A d \in Devices : d # info.dev => excuse'[d] = excuse[d] /\ (d \in borrowed' <=> d \in borrowed)
      BY <1>22, <2>1, FileGoneEffect DEF RemoveFile
    <3>2. info.dev \in Names =>
            /\ borrowed' = borrowed
            /\ excuse[info.dev] # "none" => excuse'[info.dev] = excuse[info.dev]
      BY <1>22, <2>1, FileGoneEffect DEF RemoveFile
    <3>3. file'[info.dev] = Absent
      BY <1>22, <2>1, FileGoneEffect DEF RemoveFile
    <3>4. \A i \in Index : list[i].dev \in Devices /\ list[i].dev \in Names
      BY ListTyped DEF Device
    <3> QED
      BY <1>22, <2>1, <3>1, <3>2, <3>3, <3>4 DEF RemoveFile
  <2>2. CASE /\ borrowed' = borrowed \union {info.dev} /\ UNCHANGED <<list, info, file>>
             /\ excuse' = [excuse EXCEPT ![info.dev] = IF info.dev \in Names THEN @ ELSE "leftover"]
    <3>1. \A d \in Names : excuse'[d] = excuse[d]
      BY <2>2 DEF TypeOK
    <3> QED
      BY <1>22, <2>2, <3>1 DEF RemoveFile
  <2> QED
    BY <1>22, <2>1, <2>2 DEF RemoveFile
<1>23. CASE RemoveKeys
  <2>1. CASE FileGone /\ UNCHANGED <<list, info, ui>>
    <3>1. \A d \in Devices : d # info.dev => excuse'[d] = excuse[d] /\ (d \in borrowed' <=> d \in borrowed)
      BY <1>23, <2>1, FileGoneEffect DEF RemoveKeys
    <3>2. info.dev \in Names =>
            /\ borrowed' = borrowed
            /\ excuse[info.dev] # "none" => excuse'[info.dev] = excuse[info.dev]
      BY <1>23, <2>1, FileGoneEffect DEF RemoveKeys
    <3>3. file'[info.dev] = Absent
      BY <1>23, <2>1, FileGoneEffect DEF RemoveKeys
    <3>4. \A i \in Index : list[i].dev \in Devices /\ list[i].dev \in Names
      BY ListTyped DEF Device
    <3> QED
      BY <1>23, <2>1, <3>1, <3>2, <3>3, <3>4 DEF RemoveKeys
  <2>2. CASE UNCHANGED <<file, causes>>
    BY <1>23, <2>2 DEF RemoveKeys
  <2> QED
    BY <1>23, <2>1, <2>2 DEF RemoveKeys
<1>24. CASE RemoveDirectory
  BY <1>24, DoneTyped DEF RemoveDirectory
<1>25. CASE RemoveOldName
  <2>1. ASSUME NEW k \in Index, list[k].dev = old, Unlisted(k, old), old \in Devices,
               UNCHANGED <<causes, file>>
        PROVE  Sharing'
    BY <2>1, DroppedShares
  <2>2. CASE Done /\ UNCHANGED list /\ old \notin Names /\ excuse' = [excuse EXCEPT ![old] = "leftover"]
    <3>1. \A d \in Names : excuse'[d] = excuse[d]
      BY <2>2 DEF TypeOK
    <3> QED
      BY <1>25, <2>2, <3>1, DoneTyped DEF RemoveOldName
  <2> QED
    BY <1>25, <2>1, <2>2, OldNameEffect DEF RemoveOldName
<1>26. ASSUME NEW i \in Index, ConnectPaired(i) PROVE Sharing'
  BY <1>26 DEF ConnectPaired, Start
<1>27. ASSUME NEW i \in Index, RemoveDevice(i) PROVE Sharing'
  <2>1. PICK k \in Index : \E name \in Devices : Deleted(k, name)
    BY <1>27, RemoveDeviceEffect
  <2>2. PICK name \in Devices : Deleted(k, name)
    BY <2>1
  <2> QED
    BY <2>2, DroppedShares DEF Deleted
<1>28. ASSUME NEW d \in Devices, NEW a \in Addrs, SearchDevice(d, a) PROVE Sharing'
  BY <1>28 DEF SearchDevice, Start
<1>29. ASSUME NEW d \in Devices, NEW a \in Addrs, ConnectManual(d, a) PROVE Sharing'
  BY <1>29 DEF ConnectManual, Start
<1>30. ASSUME NEW i \in Index, NEW a \in Addrs, ChangeIp(i, a) PROVE Sharing'
  <2>1. Len(list') = Len(list) /\ \A j \in Index : list'[j].dev = list[j].dev
    BY <1>30, ChangeIpEffect DEF Retouched
  <2> QED
    BY <1>30, <2>1 DEF ChangeIp, Save
<1>31. ASSUME NEW i \in Index, NEW a \in Addrs, CheckIpUpdate(i, a) PROVE Sharing'
  <2>1. Len(list') = Len(list) /\ \A j \in Index : list'[j].dev = list[j].dev
    BY <1>31, CheckIpEffect DEF Retouched
  <2> QED
    BY <1>31, <2>1 DEF CheckIpUpdate, Save
<1>32. ASSUME NEW i \in Index, NEW n \in Devices, ChangeName(i, n) PROVE Sharing'
  <2>1. CASE n = list[i].dev
    <3>1. Len(list') = Len(list) /\ \A j \in Index : list'[j].dev = list[j].dev
      <4>1. Len(list') = Len(list) /\ list'[i].dev = n /\ \A j \in Index \ {i} : list'[j] = list[j]
        BY <1>32, RenameEffect DEF Edited
      <4> QED
        BY <2>1, <4>1
    <3>2. ui' = "save" /\ UNCHANGED causes
      BY <1>32, <2>1, RenameEffect
    <3> QED
      BY <3>1, <3>2
  <2>2. CASE n # list[i].dev
    <3>1. Len(list') = Len(list) /\ list'[i].dev = n /\ \A j \in Index \ {i} : list'[j] = list[j]
      BY <1>32, RenameEffect DEF Edited
    <3>2. n \in borrowed' /\ (n \in Names => excuse'[n] = "doubled") /\ ui' = "save"
      BY <1>32, <2>2, RenameEffect
    <3>3. \A d \in Devices \ {n} : excuse'[d] = excuse[d] /\ (d \in borrowed' <=> d \in borrowed)
      BY <1>32, RenameEffect
    <3>4. \A j \in Index : list[j].dev \in Names /\ list[j].dev \in Devices
      BY ListTyped DEF Device
    <3> QED
      BY <3>1, <3>2, <3>3, <3>4
  <2> QED
    BY <2>1, <2>2
<1>33. CASE Reload
  <2>1. ui' \notin {"ini", "directory"}
    <3>1. PICK i \in Found(info.dev) :
            IF list[i].paired THEN Start("connect", info.dev, list[i].addr, i) ELSE Done
      BY <1>33 DEF Reload
    <3> QED
      BY <3>1 DEF Start, Done
  <2>2. Len(list) \in Nat /\ Len(list') \in Nat /\ \A j \in Index : list[j].dev \in Devices
    BY <1>33, ReloadEffect, ListTyped, LenProperties DEF Grown, Device
  <2>3. \A d \in Names : excuse[d] = "doubled" => excuse'[d] = "doubled"
    BY <1>33, <2>2, ReloadEffect, EmptySeq DEF Excused
  <2>4. \A j \in Index' : j \in Index \/ j > Len(list)
    BY <2>2
  <2>5. \A j \in Index : j \in Index' /\ list'[j] = list[j]
    BY <1>33, <2>2, ReloadEffect DEF Grown
  <2>6. \A j \in Index' : j > Len(list) =>
          \A k \in 1..Len(list') : k # j => list'[k].dev # list'[j].dev
    BY <1>33, ReloadEffect DEF Grown
  <2>7. UNCHANGED borrowed
    BY <1>33 DEF Reload
  <2>8. ASSUME NEW j \in Index', NEW k \in Index', j # k, list'[j].dev = list'[k].dev
        PROVE  list'[j].dev \in borrowed' /\ excuse'[list'[j].dev] = "doubled"
    <3>1. j \in Index /\ k \in Index
      BY <2>4, <2>6, <2>8
    <3>2. list'[j] = list[j] /\ list'[k] = list[k] /\ list[j].dev \in Names
      BY <2>5, <3>1
    <3> QED
      BY <2>3, <2>7, <2>8, <3>1, <3>2
  <2> QED
    BY <2>1, <2>8
<1>34. CASE HostForgets
  BY <1>34 DEF HostForgets
<1>35. CASE Restart
  <2>1. \A j, k \in Index' : j # k => list'[j].dev # list'[k].dev
    <3>1. Len(<<>>) = 0 /\ Len(list') \in Nat
      BY <1>35, RestartEffect, EmptySeq, LenProperties DEF Grown
    <3>2. \A j \in Index' : j > Len(<<>>)
      BY <3>1
    <3> QED
      BY <1>35, <3>2, RestartEffect DEF Grown
  <2> QED
    BY <1>35, <2>1, DoneTyped DEF Restart
<1>36. CASE UNCHANGED vars
  BY <1>36 DEF vars
<1> QED
  BY <1>1, <1>2, <1>3, <1>4, <1>5, <1>6, <1>7, <1>8, <1>9, <1>10, <1>11, <1>12, <1>13,
    <1>14, <1>15, <1>16, <1>17, <1>18, <1>19, <1>20, <1>21, <1>22, <1>23, <1>24, <1>25, <1>26,
    <1>27, <1>28, <1>29, <1>30, <1>31, <1>32, <1>33, <1>34, <1>35, <1>36 DEF Next, GsInit,
    GsPair, SaveDevice, Add, Connect, RemoveFiles, Menu

-----------------------------------------------------------------------------
(* The flag "paired".                                                      *)

Saving == ui \in {"save", "write"}

\* A host has said that the device is paired, for the certificate that is there.
Proven(d) == keys[d] = "whole" /\ \E a \in Addrs : <<d, a>> \in acked

\* Whoever is about to set the flag has heard it from the host.
Heard ==
  /\ ui = "challenge" => keys[info.dev] = "whole"
  /\ serverPaired /\ (ui \in {"record", "paired"} \/ (Saving /\ then = "paired"))
       => Proven(info.dev)
  /\ ui = "paired" \/ (Saving /\ then = "paired") => serverPaired
  /\ info.paired => Proven(info.dev) /\ (ui = "added" \/ (Saving /\ then \in {"added", "menu"}))

\* What every flag in memory or on the card rests on.
Founded == \A d \in Devices : Claims(d) => d \in borrowed \/ Proven(d)

\* A host's answer about the link proves the device it was asked for.
LEMMA LinkProves ==
  ASSUME TypeOK, Link \in acked', info.addr \in Addrs, keys'[info.dev] = "whole", info' = info
  PROVE  Proven(info.dev)'
BY DEF Link, Proven

\* What the thread has heard from a host stays true while it acts on it.
LEMMA HeardStep ==
  ASSUME TypeOK, Placed, Heard, [Next]_vars
  PROVE  Heard'
<1> USE DEF Heard, Proven, Saving, disk, pairing, causes, flow, Goto
<1>1. CASE Unreachable
  BY <1>1, DoneTyped DEF Unreachable, Save
<1>2. CASE MakeDirectory
  BY <1>2 DEF MakeDirectory, TypeOK
<1>3. CASE LoadCert
  BY <1>3 DEF LoadCert, Of
<1>4. CASE MkcertSave
  BY <1>4 DEF MkcertSave, TypeOK
<1>5. CASE LoadServerStatus
  <2>1. serverPaired' => Proven(info.dev)'
    BY <1>5, LinkProves DEF LoadServerStatus, ServerStatus
  <2>2. info' = info /\ ~info.paired /\ then' # "paired" /\ ui' \in {"record", "save"}
    BY <1>5 DEF LoadServerStatus, Save
  <2> QED
    BY <2>1, <2>2
<1>6. CASE Exchange
  BY <1>6 DEF Exchange
<1>7. CASE PairingSecret
  BY <1>7 DEF PairingSecret, CanSign
<1>8. CASE PairChallenge
  <2>1. Proven(info.dev)'
    BY <1>8, LinkProves DEF PairChallenge, Link, TypeOK
  <2> QED
    BY <1>8, <2>1 DEF PairChallenge
<1>9. CASE PairFails
  BY <1>9 DEF PairFails
<1>10. CASE Unpair
  BY <1>10, DoneTyped DEF Unpair
<1>11. CASE SaveFails
  <2>1. CASE Done
    BY <2>1, DoneTyped
  <2>2. CASE ~Done
    BY <1>11, <2>2, GoOnTyped DEF SaveFails, TypeOK, Then
  <2> QED
    BY <2>1, <2>2
<1>12. CASE Truncate
  BY <1>12 DEF Truncate
<1>13. CASE Write
  <2>1. CASE Done
    BY <2>1, DoneTyped
  <2>2. CASE ~Done
    BY <1>13, <2>2, GoOnTyped DEF Write, TypeOK, Then
  <2> QED
    BY <2>1, <2>2
<1>14. CASE AppendDevice
  BY <1>14 DEF AppendDevice, Save, TypeOK, Info
<1>15. CASE UpdateDevice
  BY <1>15 DEF UpdateDevice, Save
<1>16. CASE AddPaired
  BY <1>16, SetPairedEffect DEF AddPaired, Save, TypeOK, Info
<1>17. CASE Added
  BY <1>17, DoneTyped DEF Added, Save
<1>18. CASE OpenHost
  BY <1>18, DoneTyped DEF OpenHost
<1>19. CASE PairFromMenu
  BY <1>19 DEF PairFromMenu
<1>20. CASE MenuPaired
  <2>1. CASE Done
    BY <2>1, DoneTyped
  <2>2. CASE ui' = "save" /\ then' = "menu" /\ info'.paired = info.paired
    BY <1>20, <2>2 DEF MenuPaired
  <2> QED
    BY <1>20, <2>1, <2>2, MenuPairedEffect DEF TypeOK, Info
<1>21. CASE Disconnect
  BY <1>21, DoneTyped DEF Disconnect
<1>22. CASE RemoveFile
  BY <1>22 DEF RemoveFile, FileGone
<1>23. CASE RemoveKeys
  BY <1>23 DEF RemoveKeys, FileGone
<1>24. CASE RemoveDirectory
  BY <1>24, DoneTyped DEF RemoveDirectory
<1>25. CASE RemoveOldName
  <2>1. CASE Done
    BY <2>1, DoneTyped
  <2>2. ASSUME NEW k \in Index, Unlisted(k, old), old \in Devices PROVE Heard'
    BY <2>2 DEF Unlisted
  <2> QED
    BY <1>25, <2>1, <2>2, OldNameEffect
<1>26. ASSUME NEW i \in Index, ConnectPaired(i) PROVE Heard'
  BY <1>26 DEF ConnectPaired, Start
<1>27. ASSUME NEW i \in Index, RemoveDevice(i) PROVE Heard'
  <2>1. PICK k \in Index : \E name \in Devices : Deleted(k, name)
    BY <1>27, RemoveDeviceEffect
  <2>2. PICK name \in Devices : Deleted(k, name)
    BY <2>1
  <2> QED
    BY <1>27, <2>2 DEF RemoveDevice, Deleted, Unlisted
<1>28. ASSUME NEW d \in Devices, NEW a \in Addrs, SearchDevice(d, a) PROVE Heard'
  BY <1>28 DEF SearchDevice, Start
<1>29. ASSUME NEW d \in Devices, NEW a \in Addrs, ConnectManual(d, a) PROVE Heard'
  BY <1>29 DEF ConnectManual, Start
<1>30. ASSUME NEW i \in Index, NEW a \in Addrs, ChangeIp(i, a) PROVE Heard'
  BY <1>30 DEF ChangeIp, Manage, Save
<1>31. ASSUME NEW i \in Index, NEW a \in Addrs, CheckIpUpdate(i, a) PROVE Heard'
  BY <1>31 DEF CheckIpUpdate, Manage, Save
<1>32. ASSUME NEW i \in Index, NEW n \in Devices, ChangeName(i, n) PROVE Heard'
  BY <1>32 DEF ChangeName, Manage, Save
<1>33. CASE Reload
  <2>1. PICK i \in Found(info.dev) :
          IF list[i].paired THEN Start("connect", info.dev, list[i].addr, i) ELSE Done
    BY <1>33 DEF Reload
  <2>2. ui' \in {"keys", "menu"} /\ serverPaired' = FALSE /\ info'.paired = FALSE
    <3>1. CASE list[i].paired
      BY <2>1, <3>1 DEF Start
    <3>2. CASE ~list[i].paired
      BY <2>1, <3>2, DoneTyped
    <3> QED
      BY <3>1, <3>2
  <2> QED
    BY <2>2
<1>34. CASE HostForgets
  BY <1>34 DEF HostForgets
<1>35. CASE Restart
  BY <1>35, DoneTyped DEF Restart
<1>36. CASE UNCHANGED vars
  BY <1>36 DEF vars
<1> QED
  BY <1>1, <1>2, <1>3, <1>4, <1>5, <1>6, <1>7, <1>8, <1>9, <1>10, <1>11, <1>12, <1>13,
    <1>14, <1>15, <1>16, <1>17, <1>18, <1>19, <1>20, <1>21, <1>22, <1>23, <1>24, <1>25, <1>26,
    <1>27, <1>28, <1>29, <1>30, <1>31, <1>32, <1>33, <1>34, <1>35, <1>36 DEF Next, GsInit,
    GsPair, SaveDevice, Add, Connect, RemoveFiles, Menu

\* A step that leaves keys, answers and causes alone may claim only what is claimed.
LEMMA FoundedKept ==
  ASSUME Founded, UNCHANGED <<keys, acked>>,
         \A d \in Devices : (d \in borrowed => d \in borrowed') /\ (Claims(d)' => Claims(d))
  PROVE  Founded'
BY DEF Founded, Proven

LEMMA ClaimsKept ==
  ASSUME UNCHANGED <<list, file>>
  PROVE  \A d \in Devices : Claims(d)' <=> Claims(d)
BY DEF Claims, Index

\* What is read as paired has a file that says so.
LEMMA LoadedPaired ==
  ASSUME NEW d \in Devices, Loaded(d).paired
  PROVE  Claims(d)
BY DEF Loaded, Claims

\* Neither what is taken out nor what is read from the files claims anything new.
LEMMA DroppedClaims ==
  ASSUME TypeOK, NEW k \in Index, NEW name, Unlisted(k, name), UNCHANGED file
  PROVE  \A d \in Devices : Claims(d)' => Claims(d)
<1>1. Len(list) \in Nat /\ k \in 1..Len(list) /\ Len(list') = Len(list) - 1
  BY ListTyped DEF Unlisted, Dropped, Index
<1>2. \A j \in 1..Len(list') : j \in 1..Len(list) /\ j + 1 \in 1..Len(list)
                               /\ (list'[j] = list[j] \/ list'[j] = list[j + 1])
  BY <1>1 DEF Unlisted, Dropped
<1> QED
  BY <1>2 DEF Claims, Index

LEMMA GrownClaims ==
  ASSUME TypeOK, NEW from \in Seq(Device), from = list \/ Len(from) = 0, Grown(from), UNCHANGED file
  PROVE  \A d \in Devices : Claims(d)' => Claims(d)
<1>1. Len(from) \in Nat /\ Len(list') \in Nat
  BY LenProperties DEF Grown
<1>2. ASSUME NEW j \in Index', list'[j].paired, list'[j].dev \in Devices
      PROVE  Claims(list'[j].dev)
  <2>1. CASE j > Len(from)
    <3>1. Loaded(list'[j].dev) = [paired |-> list'[j].paired, addr |-> list'[j].addr]
      BY <2>1 DEF Grown
    <3>2. file[list'[j].dev] \in Entry /\ file[list'[j].dev].paired
      BY <1>2, <3>1 DEF Loaded
    <3> QED
      BY <3>2 DEF Claims
  <2>2. CASE ~(j > Len(from))
    <3>1. j \in 1..Len(from)
      BY <1>1, <2>2 DEF Index
    <3>2. from = list /\ list'[j] = list[j] /\ j \in Index
      BY <1>1, <3>1 DEF Grown, Index
    <3> QED
      BY <1>2, <3>2 DEF Claims
  <2> QED
    BY <2>1, <2>2
<1> QED
  BY <1>2 DEF Claims

LEMMA GoneFounded ==
  ASSUME TypeOK, Placed, Founded, ui # "menu", FileGone, UNCHANGED <<list, keys, acked>>
  PROVE  Founded'
<1>1. /\ \A d \in Devices \ {info.dev} : file'[d] = file[d] /\ (d \in borrowed' <=> d \in borrowed)
      /\ info.dev \in Names => UNCHANGED borrowed
      /\ info.dev \in Devices /\ file'[info.dev] = Absent
  BY FileGoneEffect
<1>2. Absent \notin Entry
  BY DevicesAssumption
<1>3. ASSUME NEW d \in Devices, Claims(d)'
      PROVE  Claims(d) /\ (d \in borrowed => d \in borrowed')
  <2>1. CASE d = info.dev
    <3>1. \E i \in Index : list[i].dev = d /\ list[i].paired
      BY <1>1, <1>2, <1>3, <2>1 DEF Claims, Index
    <3> QED
      BY <1>1, <2>1, <3>1 DEF Claims, Names
  <2>2. CASE d # info.dev
    BY <1>1, <1>3, <2>2 DEF Claims, Index
  <2> QED
    BY <2>1, <2>2
<1> QED
  BY <1>3 DEF Founded, Proven

LEMMA FoundedStep ==
  ASSUME TypeOK, Placed, Sharing, Heard, Founded, [Next]_vars
  PROVE  Founded'
<1> USE DEF disk, pairing, causes, flow
<1>1. CASE Unreachable
  BY <1>1, FoundedKept, ClaimsKept DEF Unreachable
<1>2. CASE MakeDirectory
  BY <1>2, ClaimsKept DEF MakeDirectory, Founded, Proven, TypeOK
<1>3. CASE LoadCert
  BY <1>3, ClaimsKept DEF LoadCert, Of, Founded, Proven, TypeOK, Placed
<1>4. CASE MkcertSave
  BY <1>4, ClaimsKept DEF MkcertSave, Founded, Proven, TypeOK
<1>5. CASE LoadServerStatus
  BY <1>5, ClaimsKept DEF LoadServerStatus, ServerStatus, Founded, Proven
<1>6. CASE Exchange
  BY <1>6, FoundedKept, ClaimsKept DEF Exchange
<1>7. CASE PairingSecret
  BY <1>7, FoundedKept, ClaimsKept DEF PairingSecret
<1>8. CASE PairChallenge
  BY <1>8, ClaimsKept DEF PairChallenge, Founded, Proven
<1>9. CASE PairFails
  BY <1>9, FoundedKept, ClaimsKept DEF PairFails
<1>10. CASE Unpair
  BY <1>10, FoundedKept, ClaimsKept DEF Unpair
<1>11. CASE SaveFails
  BY <1>11, FoundedKept, ClaimsKept DEF SaveFails
<1>12. CASE Truncate
  <2>1. Torn \notin Entry
    BY DevicesAssumption
  <2>2. \A d \in Devices : Claims(d)' => Claims(d)
    BY <1>12, <2>1 DEF Truncate, Claims, Index, TypeOK
  <2> QED
    BY <1>12, <2>2, FoundedKept DEF Truncate
<1>13. CASE Write
  <2>1. info.dev \in Devices
    BY <1>13 DEF Write, Placed
  <2>2. Content.paired => Claims(info.dev) \/ Proven(info.dev)
    BY <1>13, <2>1 DEF Write, Content, Claims, Placed, Heard
  <2>3. \A d \in Devices \ {info.dev} : file'[d] = file[d]
    BY <1>13, WriteEffect
  <2>4. file'[info.dev] = Content \/ file'[info.dev] = file[info.dev]
    BY <1>13, WriteEffect
  <2>5. UNCHANGED <<list, keys, acked, borrowed>>
    BY <1>13, WriteEffect
  <2>6. ASSUME NEW d \in Devices, Claims(d)'
        PROVE  Claims(d) \/ (d = info.dev /\ Content.paired)
    BY <2>3, <2>4, <2>5, <2>6 DEF Claims, Index
  <2> QED
    BY <2>1, <2>2, <2>5, <2>6 DEF Founded, Proven
<1>14. CASE AppendDevice
  <2>1. info.paired = FALSE
    BY <1>14 DEF AppendDevice, Heard, Saving, TypeOK, Info
  <2>2. Len(list) \in Nat
    BY ListTyped
  <2>3. \A i \in Index' : (i \in Index /\ list'[i] = list[i])
                          \/ (i = Len(list) + 1 /\ list'[i].paired = FALSE)
    BY <1>14, <2>1, <2>2, AppendEffect DEF Index
  <2>4. \A d \in Devices : Claims(d)' => Claims(d)
    BY <1>14, <2>3 DEF AppendDevice, Claims
  <2> QED
    BY <1>14, <2>4, FoundedKept DEF AppendDevice
<1>15. CASE UpdateDevice
  <2>1. info.paired = FALSE
    BY <1>15 DEF UpdateDevice, Heard, Saving, TypeOK, Info
  <2>2. Len(list') = Len(list)
    BY <1>15, UpdateEffect DEF Retouched
  <2>3. \A i \in Index : list'[i] = list[i] \/ list'[i].paired = FALSE
    BY <1>15, <2>1, UpdateEffect DEF Retouched
  <2>4. \A d \in Devices : Claims(d)' => Claims(d)
    BY <1>15, <2>2, <2>3 DEF UpdateDevice, Claims, Index
  <2> QED
    BY <1>15, <2>4, FoundedKept DEF UpdateDevice
<1>16. CASE AddPaired
  <2>1. Proven(info.dev) /\ UNCHANGED <<file, keys, acked, borrowed>>
    BY <1>16 DEF AddPaired, Heard
  <2>2. Len(list') = Len(list)
    BY <1>16, SetPairedEffect DEF Retouched, AddPaired
  <2>3. \A i \in Index : list'[i] = list[i] \/ list'[i].dev = info.dev
    BY <1>16, SetPairedEffect DEF Retouched, AddPaired, Placed
  <2>4. \A d \in Devices : Claims(d)' => Claims(d) \/ d = info.dev
    BY <2>1, <2>2, <2>3 DEF Claims, Index
  <2> QED
    BY <2>1, <2>4 DEF Founded, Proven
<1>17. CASE Added
  BY <1>17, FoundedKept, ClaimsKept DEF Added
<1>18. CASE OpenHost
  BY <1>18, ClaimsKept DEF OpenHost, ServerStatus, Founded, Proven
<1>19. CASE PairFromMenu
  BY <1>19, FoundedKept, ClaimsKept DEF PairFromMenu
<1>20. CASE MenuPaired
  <2>1. Proven(info.dev) /\ UNCHANGED <<file, keys, acked>>
    BY <1>20 DEF MenuPaired, Heard
  <2>2. CASE UNCHANGED <<list, borrowed>>
    BY <2>1, <2>2, FoundedKept, ClaimsKept
  <2>3. ASSUME NEW i \in Index, Retouched(i),
               borrowed' = borrowed \union ({list[i].dev} \ {info.dev})
        PROVE  Founded'
    <3>1. \A d \in Devices : Claims(d)' => Claims(d) \/ d = list[i].dev
      BY <2>1, <2>3 DEF Retouched, Claims, Index
    <3> QED
      BY <2>1, <2>3, <3>1 DEF Founded, Proven
  <2> QED
    BY <1>20, <2>2, <2>3, MenuPairedEffect
<1>21. CASE Disconnect
  BY <1>21, FoundedKept, ClaimsKept DEF Disconnect
<1>22. CASE RemoveFile
  <2>1. CASE FileGone
    BY <1>22, <2>1, GoneFounded DEF RemoveFile, Goto
  <2>2. CASE borrowed' = borrowed \union {info.dev} /\ UNCHANGED file
    BY <1>22, <2>2, ClaimsKept DEF RemoveFile, Founded, Proven
  <2> QED
    BY <1>22, <2>1, <2>2 DEF RemoveFile
<1>23. CASE RemoveKeys
  <2>1. CASE FileGone /\ UNCHANGED keys
    BY <1>23, <2>1, GoneFounded DEF RemoveKeys
  <2>2. CASE /\ keys' = [keys EXCEPT ![info.dev] = IF @ = "whole" THEN "half" ELSE "empty"]
             /\ UNCHANGED <<file, causes>>
    <3>1. Claims(info.dev) => info.dev \in borrowed
      <4>1. info.dev \in Names => info.dev \in borrowed
        BY <1>23 DEF RemoveKeys, Sharing, Removing, Shared
      <4>2. file[info.dev] # Absent => info.dev \in borrowed
        BY <1>23 DEF RemoveKeys, Sharing, Removing
      <4>3. Absent \notin Entry
        BY DevicesAssumption
      <4> QED
        BY <4>1, <4>2, <4>3 DEF Claims, Names
    <3>2. \A d \in Devices \ {info.dev} : keys'[d] = keys[d]
      BY <2>2 DEF TypeOK
    <3> QED
      BY <1>23, <2>2, <3>1, <3>2, ClaimsKept DEF RemoveKeys, Founded, Proven
  <2> QED
    BY <1>23, <2>1, <2>2 DEF RemoveKeys
<1>24. CASE RemoveDirectory
  <2>1. \A d \in Devices : keys[d] = "whole" => keys'[d] = "whole"
    BY <1>24 DEF RemoveDirectory, TypeOK
  <2> QED
    BY <1>24, <2>1, ClaimsKept DEF RemoveDirectory, Founded, Proven
<1>25. CASE RemoveOldName
  <2>1. UNCHANGED <<file, keys, acked, borrowed>>
    BY <1>25 DEF RemoveOldName
  <2>2. CASE UNCHANGED list
    BY <2>1, <2>2, FoundedKept, ClaimsKept
  <2>3. ASSUME NEW k \in Index, Unlisted(k, old), old \in Devices PROVE Founded'
    BY <2>1, <2>3, DroppedClaims, FoundedKept
  <2> QED
    BY <1>25, <2>2, <2>3, OldNameEffect
<1>26. ASSUME NEW i \in Index, ConnectPaired(i) PROVE Founded'
  BY <1>26, FoundedKept, ClaimsKept DEF ConnectPaired
<1>27. ASSUME NEW i \in Index, RemoveDevice(i) PROVE Founded'
  <2>1. PICK k \in Index : \E name \in Devices : Deleted(k, name)
    BY <1>27, RemoveDeviceEffect
  <2>2. PICK name \in Devices : Deleted(k, name)
    BY <2>1
  <2>3. UNCHANGED <<file, keys, acked>>
    BY <1>27 DEF RemoveDevice
  <2> QED
    BY <2>2, <2>3, DroppedClaims, FoundedKept DEF Deleted
<1>28. ASSUME NEW d \in Devices, NEW a \in Addrs, SearchDevice(d, a) PROVE Founded'
  BY <1>28, FoundedKept, ClaimsKept DEF SearchDevice
<1>29. ASSUME NEW d \in Devices, NEW a \in Addrs, ConnectManual(d, a) PROVE Founded'
  BY <1>29, FoundedKept, ClaimsKept DEF ConnectManual
<1>30. ASSUME NEW i \in Index, NEW a \in Addrs, ChangeIp(i, a) PROVE Founded'
  <2>1. \A d \in Devices : Claims(d)' => Claims(d)
    BY <1>30, ChangeIpEffect DEF ChangeIp, Retouched, Claims, Index
  <2> QED
    BY <1>30, <2>1, FoundedKept DEF ChangeIp
<1>31. ASSUME NEW i \in Index, NEW a \in Addrs, CheckIpUpdate(i, a) PROVE Founded'
  <2>1. \A d \in Devices : Claims(d)' => Claims(d)
    BY <1>31, CheckIpEffect DEF CheckIpUpdate, InMenu, Retouched, Claims, Index
  <2> QED
    BY <1>31, <2>1, FoundedKept DEF CheckIpUpdate
<1>32. ASSUME NEW i \in Index, NEW n \in Devices, ChangeName(i, n) PROVE Founded'
  <2>1. UNCHANGED <<file, keys, acked>> /\ Len(list') = Len(list) /\ list'[i].dev = n
        /\ \A j \in Index \ {i} : list'[j] = list[j]
    BY <1>32, RenameEffect DEF Edited
  <2>2. \A d \in Devices : Claims(d)' => Claims(d) \/ d = n
    BY <2>1 DEF Claims, Index
  <2>3. \A d \in Devices \ {n} : d \in borrowed => d \in borrowed'
    BY <1>32, RenameEffect
  <2>4. CASE n # list[i].dev
    <3>1. n \in borrowed'
      BY <1>32, <2>4, RenameEffect
    <3> QED
      BY <2>1, <2>2, <2>3, <3>1 DEF Founded, Proven
  <2>5. CASE n = list[i].dev
    <3>1. UNCHANGED borrowed /\ list'[i].paired = list[i].paired
      BY <1>32, <2>5, RenameEffect
    <3>2. \A d \in Devices : Claims(d)' => Claims(d)
      BY <2>1, <2>5, <3>1 DEF Claims, Index
    <3> QED
      BY <2>1, <3>1, <3>2, FoundedKept
  <2> QED
    BY <2>4, <2>5
<1>33. CASE Reload
  <2>1. \A d \in Devices : Claims(d)' => Claims(d)
    BY <1>33, ListTyped, ReloadEffect, GrownClaims DEF Reload
  <2> QED
    BY <1>33, <2>1, FoundedKept DEF Reload
<1>34. CASE HostForgets
  BY <1>34, FoundedKept, ClaimsKept DEF HostForgets
<1>35. CASE Restart
  <2>1. \A d \in Devices : Claims(d)' => Claims(d)
    BY <1>35, EmptySeq, RestartEffect, GrownClaims DEF Restart
  <2> QED
    BY <1>35, <2>1, FoundedKept DEF Restart
<1>36. CASE UNCHANGED vars
  BY <1>36, FoundedKept, ClaimsKept DEF vars
<1> QED
  BY <1>1, <1>2, <1>3, <1>4, <1>5, <1>6, <1>7, <1>8, <1>9, <1>10, <1>11, <1>12, <1>13,
    <1>14, <1>15, <1>16, <1>17, <1>18, <1>19, <1>20, <1>21, <1>22, <1>23, <1>24, <1>25, <1>26,
    <1>27, <1>28, <1>29, <1>30, <1>31, <1>32, <1>33, <1>34, <1>35, <1>36 DEF Next, GsInit,
    GsPair, SaveDevice, Add, Connect, RemoveFiles, Menu

\* A flag "paired" in the menu or on the card has been heard from a host for the
\* certificate in the directory, or was borrowed.
THEOREM PairedTruly == Spec => []PairedForCause
<1> DEFINE Inv == Placed /\ Sharing /\ Heard /\ Founded
<1>1. Init => Inv
  <2> SUFFICES ASSUME Init PROVE Inv
    OBVIOUS
  <2>1. Len(list) = 0 /\ info.at = 0 /\ info.paired = FALSE
    BY EmptySeq DEF Init, Nobody
  <2>2. Index = {} /\ Names = {}
    BY <2>1 DEF Index, Names
  <2>3. \A d \in Devices : ~Claims(d)
    BY <2>2, DevicesAssumption DEF Init, Claims
  <2> QED
    BY <2>1, <2>2, <2>3 DEF Init, Placed, Sharing, Twins, Removing, Heard, Founded, Saving
<1>2. TypeOK /\ Inv /\ [Next]_vars => Inv'
  BY PlacedStep, SharingStep, HeardStep, FoundedStep
<1>3. Inv => PairedForCause
  BY DEF Founded, Proven, PairedForCause
<1> HIDE DEF Inv
<1> QED
  BY <1>1, <1>2, <1>3, Typed, PTL DEF Spec

-----------------------------------------------------------------------------
(* Memory and files.                                                       *)

\* The places before a device is recorded.
Before == {"keys", "keygen", "status", "record"}

\* A computer is added with a struct of its own, and connected to by its entry.
Tasks == ui \in Before => (info.at = 0 <=> job = "add")

\* A struct of its own is saved for a device that is listed as well, or could not be.
OwnStruct ==
  info.at = 0 /\ ui \notin Before \union {"menu", "ini", "directory"} =>
    IF info.dev \in Names THEN excuse[info.dev] \in {"hidden", "doubled"}
    ELSE excuse[info.dev] = "leftover"

Own == Tasks /\ OwnStruct

LEMMA OwnStep ==
  ASSUME TypeOK, Placed, Sharing, Own, [Next]_vars
  PROVE  Own'
<1> USE DEF Own, Tasks, OwnStruct, Before, Names, Index, disk, pairing, causes, flow, Goto
<1>1. CASE Unreachable
  BY <1>1, DoneTyped DEF Unreachable, Save
<1>2. CASE MakeDirectory
  BY <1>2 DEF MakeDirectory
<1>3. CASE LoadCert
  BY <1>3 DEF LoadCert, Of
<1>4. CASE MkcertSave
  BY <1>4 DEF MkcertSave
<1>5. CASE LoadServerStatus
  BY <1>5 DEF LoadServerStatus, Save, TypeOK
<1>6. CASE Exchange
  BY <1>6 DEF Exchange
<1>7. CASE PairingSecret
  BY <1>7 DEF PairingSecret, CanSign
<1>8. CASE PairChallenge
  BY <1>8 DEF PairChallenge
<1>9. CASE PairFails
  BY <1>9 DEF PairFails
<1>10. CASE Unpair
  BY <1>10, DoneTyped DEF Unpair
<1>11. CASE SaveFails
  <2>1. CASE Done
    BY <2>1, DoneTyped
  <2>2. CASE ~Done
    <3>1. ui' = then /\ UNCHANGED <<list, info>> /\ ui = "save" /\ then \notin Before
      BY <1>11, <2>2, GoOnTyped DEF SaveFails, TypeOK, Then
    <3>2. excuse[info.dev] # "none" => excuse'[info.dev] = excuse[info.dev]
      BY <1>11, UnsavedKeeps DEF SaveFails, Placed
    <3> QED
      BY <3>1, <3>2
  <2> QED
    BY <2>1, <2>2
<1>12. CASE Truncate
  BY <1>12 DEF Truncate
<1>13. CASE Write
  <2>1. CASE Done
    BY <2>1, DoneTyped
  <2>2. CASE ~Done
    <3>1. ui' = then /\ UNCHANGED <<list, info>> /\ ui = "write" /\ then \notin Before
      BY <1>13, <2>2, GoOnTyped DEF Write, TypeOK, Then
    <3>2. info.at = 0 /\ excuse[info.dev] \in {"hidden", "doubled", "leftover"} =>
            excuse'[info.dev] = excuse[info.dev]
      BY <1>13, WriteEffect
    <3> QED
      BY <3>1, <3>2
  <2> QED
    BY <2>1, <2>2
<1>14. CASE AppendDevice
  <2>1. ui' = "save" /\ info'.at # 0
    BY <1>14, ListTyped DEF AppendDevice, Save, TypeOK, Info
  <2> QED
    BY <2>1
<1>15. CASE UpdateDevice
  <2>1. ui' = "save" /\ UNCHANGED info /\ info.dev \in Devices
    BY <1>15 DEF UpdateDevice, Save, Placed
  <2>2. Names' = Names
    BY <1>15, UpdateEffect DEF Retouched
  <2>3. IF info.dev \in Names THEN excuse'[info.dev] \in {"hidden", "doubled"}
        ELSE excuse'[info.dev] = "leftover"
    BY <1>15, <2>1, UpdateEffect DEF TypeOK
  <2> QED
    BY <2>1, <2>2, <2>3
<1>16. CASE AddPaired
  <2>1. ui = "paired" /\ ui' = "save" /\ info'.dev = info.dev /\ info'.at = info.at
    BY <1>16, SetPairedEffect DEF AddPaired, Save, TypeOK, Info
  <2>2. UNCHANGED excuse /\ (UNCHANGED list \/ Retouched(info.at))
    BY <1>16, SetPairedEffect DEF AddPaired
  <2>3. Names' = Names
    BY <2>2 DEF Retouched
  <2> QED
    BY <2>1, <2>2, <2>3
<1>17. CASE Added
  BY <1>17, DoneTyped DEF Added, Save
<1>18. CASE OpenHost
  BY <1>18, DoneTyped DEF OpenHost
<1>19. CASE PairFromMenu
  BY <1>19 DEF PairFromMenu
<1>20. CASE MenuPaired
  <2>1. CASE Done
    BY <2>1, DoneTyped
  <2>2. ASSUME NEW i \in Index, info' = [info EXCEPT !.dev = list[i].dev, !.at = i], ui' = "save"
        PROVE  Own'
    <3>1. info'.at # 0
      BY <2>2, InfoTyped DEF TypeOK, Info
    <3> QED
      BY <2>2, <3>1
  <2> QED
    BY <1>20, <2>1, <2>2, MenuPairedEffect
<1>21. CASE Disconnect
  BY <1>21, DoneTyped DEF Disconnect
<1>22. CASE RemoveFile
  BY <1>22 DEF RemoveFile, FileGone
<1>23. CASE RemoveKeys
  BY <1>23 DEF RemoveKeys, FileGone
<1>24. CASE RemoveDirectory
  BY <1>24, DoneTyped DEF RemoveDirectory
<1>25. CASE RemoveOldName
  <2>1. CASE Done
    BY <2>1, DoneTyped
  <2>2. ASSUME NEW k \in Index, Unlisted(k, old), old \in Devices PROVE Own'
    BY <2>2 DEF Unlisted
  <2> QED
    BY <1>25, <2>1, <2>2, OldNameEffect
<1>26. ASSUME NEW i \in Index, ConnectPaired(i) PROVE Own'
  BY <1>26 DEF ConnectPaired, Start
<1>27. ASSUME NEW i \in Index, RemoveDevice(i) PROVE Own'
  <2>1. PICK k \in Index : \E name \in Devices : Deleted(k, name)
    BY <1>27, RemoveDeviceEffect
  <2>2. PICK name \in Devices : Deleted(k, name)
    BY <2>1
  <2> QED
    BY <2>2 DEF Deleted, Unlisted
<1>28. ASSUME NEW d \in Devices, NEW a \in Addrs, SearchDevice(d, a) PROVE Own'
  BY <1>28 DEF SearchDevice, Start
<1>29. ASSUME NEW d \in Devices, NEW a \in Addrs, ConnectManual(d, a) PROVE Own'
  BY <1>29 DEF ConnectManual, Start
<1>30. ASSUME NEW i \in Index, NEW a \in Addrs, ChangeIp(i, a) PROVE Own'
  BY <1>30 DEF ChangeIp, Manage, Save
<1>31. ASSUME NEW i \in Index, NEW a \in Addrs, CheckIpUpdate(i, a) PROVE Own'
  BY <1>31 DEF CheckIpUpdate, Manage, Save
<1>32. ASSUME NEW i \in Index, NEW n \in Devices, ChangeName(i, n) PROVE Own'
  <2>1. ui' = "save" /\ info'.at = i
    BY <1>32, RenameEffect
  <2> QED
    BY <2>1, InfoTyped
<1>33. CASE Reload
  <2>1. PICK i \in Found(info.dev) :
          IF list[i].paired THEN Start("connect", info.dev, list[i].addr, i) ELSE Done
    BY <1>33 DEF Reload
  <2>2. CASE list[i].paired
    <3>1. i # 0
      BY <2>1, InfoTyped DEF Found
    <3> QED
      BY <2>1, <2>2, <3>1 DEF Start
  <2>3. CASE ~list[i].paired
    BY <2>1, <2>3, DoneTyped
  <2> QED
    BY <2>2, <2>3
<1>34. CASE HostForgets
  BY <1>34 DEF HostForgets
<1>35. CASE Restart
  BY <1>35, DoneTyped DEF Restart
<1>36. CASE UNCHANGED vars
  BY <1>36 DEF vars
<1> QED
  BY <1>1, <1>2, <1>3, <1>4, <1>5, <1>6, <1>7, <1>8, <1>9, <1>10, <1>11, <1>12, <1>13,
    <1>14, <1>15, <1>16, <1>17, <1>18, <1>19, <1>20, <1>21, <1>22, <1>23, <1>24, <1>25, <1>26,
    <1>27, <1>28, <1>29, <1>30, <1>31, <1>32, <1>33, <1>34, <1>35, <1>36 DEF Next, GsInit,
    GsPair, SaveDevice, Add, Connect, RemoveFiles, Menu

\* An entry without excuse is being saved, or is what the file says.
Agrees(i) ==
  /\ file[list[i].dev] # Absent
  /\ Loaded(list[i].dev) = [paired |-> list[i].paired, addr |-> list[i].addr]
Agreement ==
  \A i \in Index : excuse[list[i].dev] = "none" =>
    (Saving /\ list[i].dev = info.dev) \/ Agrees(i)

\* Nothing that is agreed upon has moved, except in what is being saved now.
LEMMA AgreementKept ==
  ASSUME TypeOK, Agreement,
         \A i \in Index' : excuse'[list'[i].dev] = "none" =>
           \/ Saving' /\ list'[i].dev = info'.dev
           \/ Agrees(i)'
           \/ \E j \in Index :
                /\ list'[i] = list[j] /\ excuse[list[j].dev] = "none"
                /\ file'[list[j].dev] = file[list[j].dev]
                /\ ~(Saving /\ list[j].dev = info.dev)
  PROVE  Agreement'
<1>1. ASSUME NEW i \in Index', NEW j \in Index,
             list'[i] = list[j], excuse[list[j].dev] = "none",
             file'[list[j].dev] = file[list[j].dev], ~(Saving /\ list[j].dev = info.dev)
      PROVE  Agrees(i)'
  <2>1. Agrees(j)
    BY <1>1 DEF Agreement
  <2>2. list'[i].dev = list[j].dev /\ file'[list'[i].dev] = file[list[j].dev]
    BY <1>1
  <2> QED
    BY <1>1, <2>1, <2>2 DEF Agrees, Loaded
<1> QED
  BY <1>1 DEF Agreement

\* A step that leaves the list, the files and the excuses alone.
LEMMA AgreementQuiet ==
  ASSUME TypeOK, Agreement, UNCHANGED <<list, file, excuse>>,
         Saving => Saving' /\ UNCHANGED info
  PROVE  Agreement'
BY DEF Agreement, Agrees, Loaded, Index

\* A step that changes one entry, whose name is saved next.
LEMMA AgreementEdited ==
  ASSUME TypeOK, Agreement, NEW i \in Index, Retouched(i), ~Saving, Saving',
         info'.dev = list[i].dev, UNCHANGED <<file, excuse>>
  PROVE  Agreement'
<1>1. \A j \in Index' : j \in Index /\ (j = i \/ list'[j] = list[j])
  BY DEF Retouched, Index
<1>2. list'[i].dev = list[i].dev
  BY DEF Retouched
<1> QED
  BY <1>1, <1>2, AgreementKept

LEMMA AgreementDropped ==
  ASSUME TypeOK, Agreement, ~Saving, NEW k \in Index, NEW name, Unlisted(k, name), UNCHANGED file,
         \A d \in Devices : d \in Names' => excuse'[d] = excuse[d]
  PROVE  Agreement'
<1>1. Len(list) \in Nat /\ k \in 1..Len(list) /\ Len(list') = Len(list) - 1
  BY ListTyped DEF Unlisted, Dropped, Index
<1>2. \A j \in 1..Len(list') : j \in 1..Len(list) /\ j + 1 \in 1..Len(list)
                               /\ (list'[j] = list[j] \/ list'[j] = list[j + 1])
  BY <1>1 DEF Unlisted, Dropped
<1>3. \A j \in 1..Len(list') : list'[j].dev \in Names' /\ list'[j].dev \in Devices
  BY <1>2, ListTyped DEF Names, Index, Device
<1> QED
  BY <1>2, <1>3, AgreementKept DEF Index

\* Removing a file touches no entry that has no excuse.
LEMMA AgreementGone ==
  ASSUME TypeOK, Placed, Agreement, ui \in {"ini", "directory"}, FileGone, UNCHANGED list
  PROVE  Agreement'
<1>1. /\ \A d \in Devices \ {info.dev} : file'[d] = file[d] /\ excuse'[d] = excuse[d]
      /\ info.dev \in Names => excuse'[info.dev] # "none"
  BY FileGoneEffect
<1>2. \A i \in Index' : i \in Index /\ list[i].dev \in Names /\ list[i].dev \in Devices
  BY ListTyped DEF Index, Names, Device
<1> QED
  BY <1>1, <1>2, AgreementKept DEF Saving

LEMMA AgreementRead ==
  ASSUME TypeOK, Agreement, ~Saving, UNCHANGED file,
         NEW from \in Seq(Device), from = list \/ from = <<>>, Grown(from), Excused(from)
  PROVE  Agreement'
<1>1. Len(from) \in Nat /\ Len(list') \in Nat /\ list' \in Seq(Device)
  BY LenProperties DEF Grown
<1>2. ASSUME NEW j \in Index', excuse'[list'[j].dev] = "none"
      PROVE  Agrees(j)' \/ (/\ j \in Index /\ list'[j] = list[j]
                            /\ excuse[list[j].dev] = "none")
  <2>1. list'[j] \in Device
    BY <1>1, ElementOfSeq DEF Index
  <2>2. CASE j > Len(from)
    <3>1. /\ list'[j].dev \in OnDisk
          /\ Loaded(list'[j].dev) = [paired |-> list'[j].paired, addr |-> list'[j].addr]
      BY <2>2 DEF Grown
    <3> QED
      BY <3>1 DEF Agrees, OnDisk, Loaded
  <2>3. CASE ~(j > Len(from))
    <3>1. j \in 1..Len(from)
      BY <1>1, <2>3 DEF Index
    <3>2. from = list /\ from # <<>>
      BY <3>1, EmptySeq
    <3>3. j \in Index /\ list'[j] = list[j]
      BY <3>1, <3>2 DEF Grown, Index
    <3>4. excuse'[list'[j].dev] = excuse[list[j].dev]
      BY <2>1, <3>1, <3>2, <3>3 DEF Excused, Device
    <3> QED
      BY <1>2, <3>3, <3>4
  <2> QED
    BY <2>2, <2>3
<1> QED
  BY <1>2, AgreementKept

LEMMA AgreementStep ==
  ASSUME TypeOK, Placed, Sharing, Own, Agreement, [Next]_vars
  PROVE  Agreement'
<1> USE DEF Saving, disk, pairing, causes, flow, Goto
<1>1. CASE Unreachable
  BY <1>1, AgreementQuiet DEF Unreachable
<1>2. CASE MakeDirectory
  BY <1>2, AgreementQuiet DEF MakeDirectory
<1>3. CASE LoadCert
  BY <1>3, AgreementQuiet DEF LoadCert
<1>4. CASE MkcertSave
  BY <1>4, AgreementQuiet DEF MkcertSave
<1>5. CASE LoadServerStatus
  BY <1>5, AgreementQuiet DEF LoadServerStatus
<1>6. CASE Exchange
  BY <1>6, AgreementQuiet DEF Exchange
<1>7. CASE PairingSecret
  BY <1>7, AgreementQuiet DEF PairingSecret
<1>8. CASE PairChallenge
  BY <1>8, AgreementQuiet DEF PairChallenge
<1>9. CASE PairFails
  BY <1>9, AgreementQuiet DEF PairFails
<1>10. CASE Unpair
  BY <1>10, AgreementQuiet DEF Unpair
<1>11. CASE SaveFails
  <2>1. \A d \in Devices : excuse'[d] = "none" => d # info.dev /\ excuse[d] = "none"
    BY <1>11, UnsavedKeeps DEF SaveFails
  <2>2. \A i \in Index' : i \in Index /\ list'[i] = list[i] /\ list[i].dev \in Devices
    BY <1>11, ListTyped DEF SaveFails, Index, Device
  <2>3. UNCHANGED file
    BY <1>11 DEF SaveFails
  <2> QED
    BY <2>1, <2>2, <2>3, AgreementKept
<1>12. CASE Truncate
  <2>1. \A d \in Devices \ {info.dev} : file'[d] = file[d]
    BY <1>12 DEF Truncate, TypeOK
  <2>2. UNCHANGED <<list, info, excuse>> /\ Saving'
    BY <1>12 DEF Truncate
  <2>3. \A i \in Index' : i \in Index /\ list'[i] = list[i] /\ list[i].dev \in Devices
    BY <2>2, ListTyped DEF Index, Device
  <2> QED
    BY <2>1, <2>2, <2>3, AgreementKept
<1>13. CASE Write
  <2>1. \A i \in Index' : i \in Index /\ list'[i] = list[i] /\ list[i] \in Device
    BY <1>13, ListTyped, WriteEffect DEF Index
  <2>2. \A d \in Devices \ {info.dev} : excuse'[d] = excuse[d] /\ file'[d] = file[d]
    BY <1>13, WriteEffect
  <2>3. ASSUME NEW i \in Index, list[i].dev = info.dev, excuse'[info.dev] = "none"
        PROVE  Agrees(i)'
    <3>1. info.dev \in Names /\ ui = "write"
      BY <1>13, <2>3 DEF Names, Write
    <3>2. info.at # 0
      BY <1>13, <2>3, <3>1, WriteEffect DEF Own, OwnStruct, Before
    <3>3. file'[info.dev] = Content
      BY <1>13, <2>3, WriteEffect
    <3>4. excuse[info.dev] # "doubled"
      BY <1>13, <2>3, WriteEffect
    <3>5. info.at = i
      BY <2>3, <3>2, <3>4 DEF Placed, Sharing, Twins, Shared
    <3>6. Content = [paired |-> list[i].paired, addr |-> list[i].addr]
      BY <3>2, <3>5 DEF Content
    <3>7. Content \in Entry /\ Content # Absent
      BY ContentEntry, DevicesAssumption
    <3>8. list'[i] = list[i]
      BY <1>13 DEF Write
    <3>9. file'[list'[i].dev] = Content
      BY <2>3, <3>3, <3>8
    <3> QED
      BY <3>6, <3>7, <3>8, <3>9 DEF Agrees, Loaded
  <2> QED
    BY <2>1, <2>2, <2>3, AgreementKept DEF Device
<1>14. CASE AppendDevice
  <2>1. Len(list) \in Nat /\ \A i \in Index : list[i].dev \in Devices
    BY ListTyped DEF Device
  <2>2. \A i \in Index' : (i \in Index /\ list'[i] = list[i]) \/ list'[i].dev = info.dev
    BY <1>14, <2>1, AppendEffect DEF Index
  <2>3. \A d \in Devices \ {info.dev} : excuse'[d] = excuse[d]
    BY <1>14 DEF AppendDevice, TypeOK
  <2>4. ui = "record" /\ ui' = "save" /\ info'.dev = info.dev /\ UNCHANGED file
    BY <1>14 DEF AppendDevice, Save, TypeOK, Info
  <2> QED
    BY <2>1, <2>2, <2>3, <2>4, AgreementKept
<1>15. CASE UpdateDevice
  <2>1. ui = "record" /\ UNCHANGED file /\ info.dev \in Devices
    BY <1>15 DEF UpdateDevice, Placed
  <2>2. \A d \in Devices \ {info.dev} : excuse'[d] = excuse[d]
    BY <1>15 DEF UpdateDevice, TypeOK
  <2>3. excuse'[info.dev] # "none"
    BY <1>15, <2>1 DEF UpdateDevice, TypeOK
  <2>4. \A i \in Index' : i \in Index /\ list[i].dev \in Devices
                          /\ (list'[i].dev = info.dev \/ list'[i] = list[i])
    BY <1>15, UpdateEffect, ListTyped DEF Retouched, Index, Device
  <2> QED
    BY <2>1, <2>2, <2>3, <2>4, AgreementKept
<1>16. CASE AddPaired
  <2>1. ~Saving /\ Saving' /\ UNCHANGED <<file, excuse>> /\ SetPaired
    BY <1>16 DEF AddPaired, Save
  <2>2. CASE UNCHANGED list
    BY <2>1, <2>2, AgreementQuiet
  <2>3. CASE info.at # 0 /\ UNCHANGED info /\ Retouched(info.at)
    BY <2>1, <2>3, AgreementEdited DEF Placed
  <2> QED
    BY <2>1, <2>2, <2>3, SetPairedEffect
<1>17. CASE Added
  BY <1>17, AgreementQuiet DEF Added
<1>18. CASE OpenHost
  BY <1>18, AgreementQuiet DEF OpenHost
<1>19. CASE PairFromMenu
  BY <1>19, AgreementQuiet DEF PairFromMenu
<1>20. CASE MenuPaired
  <2>1. ~Saving /\ UNCHANGED <<file, excuse>>
    BY <1>20 DEF MenuPaired
  <2>2. CASE UNCHANGED list
    BY <2>1, <2>2, AgreementQuiet
  <2>3. ASSUME NEW i \in Index, Retouched(i), ui' = "save",
               info' = [info EXCEPT !.dev = list[i].dev, !.at = i]
        PROVE  Agreement'
    <3>1. info'.dev = list[i].dev
      BY <2>3 DEF TypeOK, Info
    <3> QED
      BY <2>1, <2>3, <3>1, AgreementEdited
  <2> QED
    BY <1>20, <2>2, <2>3, MenuPairedEffect
<1>21. CASE Disconnect
  BY <1>21, AgreementQuiet DEF Disconnect
<1>22. CASE RemoveFile
  <2>1. CASE FileGone
    BY <1>22, <2>1, AgreementGone DEF RemoveFile
  <2>2. CASE /\ excuse' = [excuse EXCEPT ![info.dev] = IF info.dev \in Names THEN @ ELSE "leftover"]
             /\ UNCHANGED file
    <3>1. \A i \in Index' : /\ i \in Index /\ list'[i] = list[i]
                            /\ list[i].dev \in Names /\ list[i].dev \in Devices
      BY <1>22, ListTyped DEF RemoveFile, Index, Names, Device
    <3>2. \A d \in Names : excuse'[d] = excuse[d]
      BY <2>2 DEF TypeOK
    <3> QED
      BY <1>22, <2>2, <3>1, <3>2, AgreementKept DEF RemoveFile
  <2> QED
    BY <1>22, <2>1, <2>2 DEF RemoveFile
<1>23. CASE RemoveKeys
  <2>1. CASE FileGone
    BY <1>23, <2>1, AgreementGone DEF RemoveKeys
  <2>2. CASE UNCHANGED <<file, causes>>
    BY <1>23, <2>2, AgreementQuiet DEF RemoveKeys
  <2> QED
    BY <1>23, <2>1, <2>2 DEF RemoveKeys
<1>24. CASE RemoveDirectory
  BY <1>24, AgreementQuiet DEF RemoveDirectory
<1>25. CASE RemoveOldName
  <2>1. ~Saving /\ UNCHANGED file
    BY <1>25 DEF RemoveOldName
  <2>2. ASSUME NEW k \in Index, list[k].dev = old, old \in Devices, Unlisted(k, old), UNCHANGED excuse PROVE Agreement'
    BY <2>1, <2>2, AgreementDropped
  <2>3. CASE old \notin Names /\ UNCHANGED list /\ excuse' = [excuse EXCEPT ![old] = "leftover"]
    <3>1. \A i \in Index' : i \in Index /\ list'[i] = list[i] /\ list[i].dev \in Names
      BY <2>3 DEF Index, Names
    <3>2. \A d \in Names : excuse'[d] = excuse[d]
      BY <2>3 DEF TypeOK
    <3> QED
      BY <2>1, <3>1, <3>2, AgreementKept
  <2> QED
    BY <1>25, <2>2, <2>3, OldNameEffect
<1>26. ASSUME NEW i \in Index, ConnectPaired(i) PROVE Agreement'
  BY <1>26, AgreementQuiet DEF ConnectPaired
<1>27. ASSUME NEW i \in Index, RemoveDevice(i) PROVE Agreement'
  <2>1. PICK k \in Index : \E name \in Devices : Deleted(k, name)
    BY <1>27, RemoveDeviceEffect
  <2>2. PICK name \in Devices : Deleted(k, name)
    BY <2>1
  <2>3. ~Saving /\ UNCHANGED file
    BY <1>27 DEF RemoveDevice
  <2> QED
    BY <2>2, <2>3, AgreementDropped DEF Deleted
<1>28. ASSUME NEW d \in Devices, NEW a \in Addrs, SearchDevice(d, a) PROVE Agreement'
  BY <1>28, AgreementQuiet DEF SearchDevice
<1>29. ASSUME NEW d \in Devices, NEW a \in Addrs, ConnectManual(d, a) PROVE Agreement'
  BY <1>29, AgreementQuiet DEF ConnectManual
<1>30. ASSUME NEW i \in Index, NEW a \in Addrs, ChangeIp(i, a) PROVE Agreement'
  <2>1. info'.dev = list[i].dev /\ ~Saving /\ Saving' /\ UNCHANGED <<file, excuse>>
    BY <1>30 DEF ChangeIp, Manage, Save
  <2> QED
    BY <1>30, <2>1, ChangeIpEffect, AgreementEdited
<1>31. ASSUME NEW i \in Index, NEW a \in Addrs, CheckIpUpdate(i, a) PROVE Agreement'
  <2>1. info'.dev = list[i].dev /\ ~Saving /\ Saving' /\ UNCHANGED <<file, excuse>>
    BY <1>31 DEF CheckIpUpdate, Manage, Save
  <2> QED
    BY <1>31, <2>1, CheckIpEffect, AgreementEdited
<1>32. ASSUME NEW i \in Index, NEW n \in Devices, ChangeName(i, n) PROVE Agreement'
  <2>1. /\ list'[i].dev = n /\ ui = "menu" /\ ui' = "save" /\ info'.dev = n /\ UNCHANGED file
        /\ \A d \in Devices \ {n} : excuse'[d] = excuse[d]
    BY <1>32, RenameEffect
  <2>2. Edited(i, [list[i] EXCEPT !.dev = n])
    BY <1>32, RenameEffect
  <2>3. \A j \in Index' : j \in Index /\ (j = i \/ list'[j] = list[j])
    BY <2>2 DEF Edited, Index
  <2>4. \A j \in Index : list[j].dev \in Devices
    BY ListTyped DEF Device
  <2> QED
    BY <2>1, <2>3, <2>4, AgreementKept
<1>33. CASE Reload
  BY <1>33, ListTyped, ReloadEffect, AgreementRead DEF Reload
<1>34. CASE HostForgets
  BY <1>34, AgreementQuiet DEF HostForgets
<1>35. CASE Restart
  <2>1. Grown(<<>>) /\ Excused(<<>>) /\ UNCHANGED file /\ Len(<<>>) = 0
    BY <1>35, RestartEffect, EmptySeq DEF Restart
  <2>2. ASSUME NEW j \in Index' PROVE Agrees(j)'
    <3>1. j > Len(<<>>)
      BY <2>1, <2>2 DEF Index
    <3>2. /\ list'[j].dev \in OnDisk
          /\ Loaded(list'[j].dev) = [paired |-> list'[j].paired, addr |-> list'[j].addr]
      BY <2>1, <3>1 DEF Grown
    <3> QED
      BY <2>1, <3>2 DEF Agrees, OnDisk, Loaded
  <2> QED
    BY <2>2 DEF Agreement
<1>36. CASE UNCHANGED vars
  BY <1>36, AgreementQuiet DEF vars
<1> QED
  BY <1>1, <1>2, <1>3, <1>4, <1>5, <1>6, <1>7, <1>8, <1>9, <1>10, <1>11, <1>12, <1>13,
    <1>14, <1>15, <1>16, <1>17, <1>18, <1>19, <1>20, <1>21, <1>22, <1>23, <1>24, <1>25, <1>26,
    <1>27, <1>28, <1>29, <1>30, <1>31, <1>32, <1>33, <1>34, <1>35, <1>36 DEF Next, GsInit,
    GsPair, SaveDevice, Add, Connect, RemoveFiles, Menu

\* A name that is not listed and has no excuse has no file, or is about to be removed.
Outgoing(d) ==
  \/ ui = "ini" /\ d = info.dev
  \/ (ui = "renamed" \/ (Saving /\ then = "renamed")) /\ d = old
Leftover ==
  \A d \in Devices \ Names : excuse[d] # "leftover" => file[d] = Absent \/ Outgoing(d)

\* No name leaves the list, no file comes to be, and what was going out still is.
LEMMA LeftoverKept ==
  ASSUME Leftover,
         \A d \in Devices \ Names' : excuse'[d] # "leftover" =>
           \/ file'[d] = Absent
           \/ Outgoing(d)'
           \/ /\ d \notin Names /\ excuse[d] # "leftover" /\ file'[d] = file[d] /\ ~Outgoing(d)
  PROVE  Leftover'
BY DEF Leftover

LEMMA LeftoverQuiet ==
  ASSUME Leftover, UNCHANGED <<file, excuse>>, Names' = Names,
         ui # "ini", ui # "renamed", ~(Saving /\ then = "renamed")
  PROVE  Leftover'
BY DEF Leftover, Outgoing

\* The entry whose name goes out is the one that is taken out.
LEMMA NamesDropped ==
  ASSUME TypeOK, NEW k \in Index, NEW name, Unlisted(k, name)
  PROVE  \A d \in Names : d \in Names' \/ d = list[k].dev
<1>1. Len(list) \in Nat /\ k \in 1..Len(list) /\ Len(list') = Len(list) - 1
  BY ListTyped DEF Unlisted, Dropped, Index
<1>2. ASSUME NEW i \in 1..Len(list), i # k PROVE list[i].dev \in Names'
  <2>1. CASE i < k
    <3>1. i \in 1..Len(list') /\ list'[i] = list[i]
      BY <1>1, <2>1 DEF Unlisted, Dropped
    <3> QED
      BY <3>1 DEF Names, Index
  <2>2. CASE ~(i < k)
    <3>1. i - 1 \in 1..Len(list') /\ ~(i - 1 < k) /\ (i - 1) + 1 = i
      BY <1>1, <1>2, <2>2
    <3>2. list'[i - 1] = list[i]
      BY <3>1 DEF Unlisted, Dropped
    <3> QED
      BY <3>1, <3>2 DEF Names, Index
  <2> QED
    BY <2>1, <2>2
<1> QED
  BY <1>2 DEF Names, Index

LEMMA LeftoverRead ==
  ASSUME TypeOK, UNCHANGED file,
         NEW from \in Seq(Device), from = list \/ from = <<>>, Grown(from), Excused(from)
  PROVE  \A d \in Devices \ Names' : excuse'[d] # "leftover" => file'[d] = Absent
<1>1. Len(from) \in Nat /\ Len(list') \in Nat /\ Len(from) <= Len(list')
  BY LenProperties DEF Grown
<1>2. \A j \in 1..Len(from) : from[j].dev \in Names'
  <2>1. \A j \in 1..Len(from) : j \in 1..Len(list') /\ list'[j] = from[j]
    BY <1>1 DEF Grown
  <2> QED
    BY <2>1 DEF Names, Index
<1> QED
  BY <1>2 DEF Excused, OnDisk

LEMMA LeftoverStep ==
  ASSUME TypeOK, Placed, Own, Leftover, [Next]_vars
  PROVE  Leftover'
<1> USE DEF Saving, disk, pairing, causes, flow, Goto
<1>1. CASE Unreachable
  BY <1>1, LeftoverQuiet DEF Unreachable, Names, Index
<1>2. CASE MakeDirectory
  BY <1>2, LeftoverQuiet DEF MakeDirectory, Names, Index
<1>3. CASE LoadCert
  BY <1>3, LeftoverQuiet DEF LoadCert, Names, Index
<1>4. CASE MkcertSave
  BY <1>4, LeftoverQuiet DEF MkcertSave, Names, Index
<1>5. CASE LoadServerStatus
  BY <1>5, LeftoverQuiet DEF LoadServerStatus, Names, Index
<1>6. CASE Exchange
  BY <1>6, LeftoverQuiet DEF Exchange, Names, Index
<1>7. CASE PairingSecret
  BY <1>7, LeftoverQuiet DEF PairingSecret, Names, Index
<1>8. CASE PairChallenge
  BY <1>8, LeftoverQuiet DEF PairChallenge, Names, Index
<1>9. CASE PairFails
  BY <1>9, LeftoverQuiet DEF PairFails, Names, Index
<1>10. CASE Unpair
  BY <1>10, LeftoverQuiet DEF Unpair, Names, Index
<1>11. CASE SaveFails
  <2>1. UNCHANGED <<list, file>> /\ ui = "save" /\ ui' = then
    BY <1>11, GoOnTyped DEF SaveFails
  <2>2. then = "menu" \/ UNCHANGED old
    BY <1>11, GoOnTyped DEF SaveFails
  <2>3. \A d \in Devices : excuse[d] = "leftover" => excuse'[d] = "leftover"
    BY <1>11, UnsavedKeeps DEF SaveFails
  <2>4. Names' = Names
    BY <2>1 DEF Names, Index
  <2> QED
    BY <2>1, <2>2, <2>3, <2>4, LeftoverKept DEF Outgoing
<1>12. CASE Truncate
  <2>1. Names' = Names /\ UNCHANGED <<info, then, old, excuse>> /\ ui = "save" /\ ui' = "write"
    BY <1>12 DEF Truncate, Names, Index
  <2>2. \A d \in Devices \ {info.dev} : file'[d] = file[d]
    BY <1>12 DEF Truncate, TypeOK
  <2>3. info.dev \in Names \/ excuse[info.dev] = "leftover"
    BY <2>1 DEF Placed, Own, OwnStruct, Before, Names
  <2> QED
    BY <2>1, <2>2, <2>3, LeftoverKept DEF Outgoing
<1>13. CASE Write
  <2>1. UNCHANGED list /\ ui = "write" /\ ui' = then
    BY <1>13, GoOnTyped, WriteEffect
  <2>2. \A d \in Devices \ {info.dev} : file'[d] = file[d] /\ excuse'[d] = excuse[d]
    BY <1>13, WriteEffect
  <2>3. info.dev \in Names \/ excuse[info.dev] = "leftover"
    BY <2>1 DEF Placed, Own, OwnStruct, Before, Names
  <2>4. excuse[info.dev] = "leftover" => excuse'[info.dev] = "leftover"
    BY <1>13, WriteEffect
  <2>5. then = "menu" \/ UNCHANGED old
    BY <1>13, GoOnTyped, WriteEffect
  <2>6. Names' = Names
    BY <2>1 DEF Names, Index
  <2> QED
    BY <2>1, <2>2, <2>3, <2>4, <2>5, <2>6, LeftoverKept DEF Outgoing
<1>14. CASE AppendDevice
  <2>1. UNCHANGED file /\ ui = "record" /\ \A d \in Devices \ {info.dev} : excuse'[d] = excuse[d]
    BY <1>14 DEF AppendDevice, TypeOK
  <2>2. Len(list) \in Nat
    BY ListTyped
  <2>3. \A d \in Names \union {info.dev} : d \in Names'
    BY <1>14, <2>2, AppendEffect DEF Names, Index
  <2> QED
    BY <2>1, <2>3, LeftoverKept DEF Outgoing
<1>15. CASE UpdateDevice
  <2>1. UNCHANGED file /\ ui = "record"
    BY <1>15 DEF UpdateDevice
  <2>2. Names' = Names
    BY <1>15, UpdateEffect DEF Retouched, Names, Index
  <2>3. \A d \in Devices \ Names : excuse'[d] # "leftover" => excuse'[d] = excuse[d]
    BY <1>15, UpdateEffect DEF TypeOK, Names
  <2> QED
    BY <2>1, <2>2, <2>3, LeftoverKept DEF Outgoing
<1>16. CASE AddPaired
  <2>1. UNCHANGED <<file, excuse>> /\ ui = "paired" /\ (UNCHANGED list \/ Retouched(info.at))
    BY <1>16, SetPairedEffect DEF AddPaired
  <2>2. Names' = Names
    BY <2>1 DEF Retouched, Names, Index
  <2> QED
    BY <2>1, <2>2, LeftoverQuiet
<1>17. CASE Added
  BY <1>17, LeftoverQuiet DEF Added, Names, Index
<1>18. CASE OpenHost
  BY <1>18, LeftoverQuiet DEF OpenHost, Names, Index
<1>19. CASE PairFromMenu
  BY <1>19, LeftoverQuiet DEF PairFromMenu, Names, Index
<1>20. CASE MenuPaired
  <2>1. UNCHANGED <<file, excuse>> /\ ui = "paired"
    BY <1>20 DEF MenuPaired
  <2>2. UNCHANGED list \/ \E i \in Index : Retouched(i)
    BY <1>20, MenuPairedEffect
  <2>3. Names' = Names
    BY <2>2 DEF Retouched, Names, Index
  <2> QED
    BY <2>1, <2>3, LeftoverQuiet
<1>21. CASE Disconnect
  BY <1>21, LeftoverQuiet DEF Disconnect, Names, Index
<1>22. CASE RemoveFile
  <2>1. Names' = Names /\ ui = "ini"
    BY <1>22 DEF RemoveFile, Names, Index
  <2>2. CASE FileGone
    BY <1>22, <2>1, <2>2, FileGoneEffect, LeftoverKept DEF Outgoing
  <2>3. CASE /\ excuse' = [excuse EXCEPT ![info.dev] = IF info.dev \in Names THEN @ ELSE "leftover"]
             /\ UNCHANGED file
    <3>1. \A d \in Devices \ Names : excuse'[d] # "leftover" => excuse'[d] = excuse[d] /\ d # info.dev
      BY <2>3 DEF TypeOK
    <3> QED
      BY <2>1, <2>3, <3>1, LeftoverKept DEF Outgoing
  <2> QED
    BY <1>22, <2>2, <2>3 DEF RemoveFile
<1>23. CASE RemoveKeys
  <2>1. Names' = Names /\ ui = "directory"
    BY <1>23 DEF RemoveKeys, Names, Index
  <2>2. CASE FileGone
    BY <2>1, <2>2, FileGoneEffect, LeftoverKept DEF Outgoing
  <2>3. CASE UNCHANGED <<file, causes>>
    BY <2>1, <2>3, LeftoverQuiet
  <2> QED
    BY <1>23, <2>2, <2>3 DEF RemoveKeys
<1>24. CASE RemoveDirectory
  BY <1>24, LeftoverQuiet DEF RemoveDirectory, Names, Index
<1>25. CASE RemoveOldName
  <2>1. UNCHANGED file /\ ui = "renamed"
    BY <1>25 DEF RemoveOldName
  <2>2. ASSUME NEW k \in Index, list[k].dev = old, old \in Devices, Unlisted(k, old), UNCHANGED excuse
        PROVE  Leftover'
    <3>1. info'.dev = old /\ ui' = "ini"
      BY <2>2 DEF Unlisted
    <3>2. \A d \in Names : d \in Names' \/ d = old
      BY <2>2, NamesDropped
    <3> QED
      BY <2>1, <2>2, <3>1, <3>2, LeftoverKept DEF Outgoing
  <2>3. CASE old \notin Names /\ UNCHANGED list /\ excuse' = [excuse EXCEPT ![old] = "leftover"]
    <3>1. Names' = Names
      BY <2>3 DEF Names, Index
    <3>2. \A d \in Devices : excuse'[d] # "leftover" => excuse'[d] = excuse[d] /\ d # old
      BY <2>3 DEF TypeOK
    <3> QED
      BY <2>1, <3>1, <3>2, LeftoverKept DEF Outgoing
  <2> QED
    BY <1>25, <2>2, <2>3, OldNameEffect
<1>26. ASSUME NEW i \in Index, ConnectPaired(i) PROVE Leftover'
  BY <1>26, LeftoverQuiet DEF ConnectPaired, Names, Index
<1>27. ASSUME NEW i \in Index, RemoveDevice(i) PROVE Leftover'
  <2>1. PICK k \in Index : \E name \in Devices : Deleted(k, name)
    BY <1>27, RemoveDeviceEffect
  <2>2. PICK name \in Devices : Deleted(k, name)
    BY <2>1
  <2>3. UNCHANGED file /\ ui = "menu" /\ ui' = "ini" /\ info'.dev = name
    BY <1>27, <2>2 DEF RemoveDevice, Deleted, Unlisted
  <2>4. \A d \in Names : d \in Names' \/ d = list[k].dev
    BY <2>2, NamesDropped DEF Deleted
  <2>5. \A d \in Devices \ Names' : excuse'[d] # "leftover" =>
          d = name \/ (d \notin Names /\ excuse'[d] = excuse[d])
    BY <2>2, <2>4 DEF Deleted
  <2> QED
    BY <2>3, <2>5, LeftoverKept DEF Outgoing
<1>28. ASSUME NEW d \in Devices, NEW a \in Addrs, SearchDevice(d, a) PROVE Leftover'
  BY <1>28, LeftoverQuiet DEF SearchDevice, Names, Index
<1>29. ASSUME NEW d \in Devices, NEW a \in Addrs, ConnectManual(d, a) PROVE Leftover'
  BY <1>29, LeftoverQuiet DEF ConnectManual, Names, Index
<1>30. ASSUME NEW i \in Index, NEW a \in Addrs, ChangeIp(i, a) PROVE Leftover'
  <2>1. Retouched(i)
    BY <1>30, ChangeIpEffect
  <2>2. Names' = Names
    BY <2>1 DEF Retouched, Names, Index
  <2> QED
    BY <1>30, <2>2, LeftoverQuiet DEF ChangeIp
<1>31. ASSUME NEW i \in Index, NEW a \in Addrs, CheckIpUpdate(i, a) PROVE Leftover'
  <2>1. Retouched(i)
    BY <1>31, CheckIpEffect
  <2>2. Names' = Names
    BY <2>1 DEF Retouched, Names, Index
  <2> QED
    BY <1>31, <2>2, LeftoverQuiet DEF CheckIpUpdate
<1>32. ASSUME NEW i \in Index, NEW n \in Devices, ChangeName(i, n) PROVE Leftover'
  <2>1. Edited(i, [list[i] EXCEPT !.dev = n])
    BY <1>32, RenameEffect
  <2>2. \A j \in Index : j \in Index' /\ (j = i \/ list'[j] = list[j])
    BY <2>1 DEF Edited, Index
  <2>3. list'[i].dev = n
    BY <1>32, RenameEffect
  <2>4. \A d \in Names \union {n} : d \in Names' \/ d = list[i].dev
    BY <2>2, <2>3 DEF Names
  <2>5. /\ ui = "menu" /\ ui' = "save" /\ UNCHANGED file
        /\ \A d \in Devices \ {n} : excuse'[d] = excuse[d]
        /\ n = list[i].dev \/ (then' = "renamed" /\ old' = list[i].dev)
    BY <1>32, RenameEffect
  <2>6. n \in Names'
    BY <2>2, <2>3 DEF Names
  <2> QED
    BY <2>4, <2>5, <2>6, LeftoverKept DEF Outgoing
<1>33. CASE Reload
  <2>1. \A d \in Devices \ Names' : excuse'[d] # "leftover" => file'[d] = Absent
    BY <1>33, ListTyped, ReloadEffect, LeftoverRead DEF Reload
  <2> QED
    BY <2>1, LeftoverKept
<1>34. CASE HostForgets
  BY <1>34 DEF HostForgets, Leftover, Outgoing, Names, Index
<1>35. CASE Restart
  <2>1. \A d \in Devices \ Names' : excuse'[d] # "leftover" => file'[d] = Absent
    BY <1>35, EmptySeq, RestartEffect, LeftoverRead DEF Restart
  <2> QED
    BY <2>1, LeftoverKept
<1>36. CASE UNCHANGED vars
  BY <1>36 DEF vars, Leftover, Outgoing, Names, Index
<1> QED
  BY <1>1, <1>2, <1>3, <1>4, <1>5, <1>6, <1>7, <1>8, <1>9, <1>10, <1>11, <1>12, <1>13,
    <1>14, <1>15, <1>16, <1>17, <1>18, <1>19, <1>20, <1>21, <1>22, <1>23, <1>24, <1>25, <1>26,
    <1>27, <1>28, <1>29, <1>30, <1>31, <1>32, <1>33, <1>34, <1>35, <1>36 DEF Next, GsInit,
    GsPair, SaveDevice, Add, Connect, RemoveFiles, Menu

\* At the main menu, the next start lists what this one does, but for failed saves,
\* devices added twice, names that two entries share and files left behind.
THEOREM SameAfterRestart == Spec => []RestartShowsTheSame
<1> DEFINE Inv == Placed /\ Sharing /\ Own /\ Agreement /\ Leftover
<1>1. Init => Inv
  <2> SUFFICES ASSUME Init PROVE Inv
    OBVIOUS
  <2>1. Len(list) = 0 /\ info.at = 0
    BY EmptySeq DEF Init, Nobody
  <2>2. Index = {} /\ Names = {}
    BY <2>1 DEF Index, Names
  <2> QED
    BY <2>1, <2>2 DEF Init, Placed, Sharing, Twins, Removing, Own, Tasks, OwnStruct, Before,
      Agreement, Leftover
<1>2. TypeOK /\ Inv /\ [Next]_vars => Inv'
  BY PlacedStep, SharingStep, OwnStep, AgreementStep, LeftoverStep
<1>3. Inv => RestartShowsTheSame
  BY DEF Agreement, Leftover, Agrees, Outgoing, Saving, RestartShowsTheSame
<1> HIDE DEF Inv
<1> QED
  BY <1>1, <1>2, <1>3, Typed, PTL DEF Spec
=============================================================================
