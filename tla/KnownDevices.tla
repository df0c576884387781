----------------------------- MODULE KnownDevices -----------------------------
(***************************************************************************)
(* The computers the Vita knows (device.c), how one is added, paired,       *)
(* changed and removed (ui_connect.c, ui_device.c, ui_check.c, ui.c), and   *)
(* the pairing handshake with its host (libgamestream/client.c).            *)
(*                                                                         *)
(* Three records of "paired" must not drift apart: the flag in memory, which *)
(* the main menu lists, the flag in device.ini, which the next start reads,  *)
(* and the host's own list of the certificates it trusts.  The UI thread     *)
(* changes the first two one after the other, requests and replies to the    *)
(* host are lost, a file is written in place, and the program may end at     *)
(* any step.  The list is an array searched by name or by address from its   *)
(* start; nothing keeps a change of name from giving two entries one name.  *)
(***************************************************************************)
EXTENDS Naturals, SequencesExt

CONSTANTS
  Devices,     \* names of computers, each also the name of a key directory
  NoDevice,    \* the name of none
  Addrs,       \* addresses at which a host may answer
  NoAddr,      \* the empty address of a device read from a torn file
  Size,        \* entries that there is memory for
  Absent,      \* no device.ini
  Torn         \* a device.ini that fopen("w") has emptied

Entry  == [paired : BOOLEAN, addr : Addrs \union {NoAddr}]
Device == [dev : Devices, paired : BOOLEAN, addr : Addrs \union {NoAddr}]

ASSUME DevicesAssumption ==
  /\ NoDevice \notin Devices
  /\ NoAddr \notin Addrs
  /\ Size \in Nat
  /\ Absent # Torn
  /\ {Absent, Torn} \intersect Entry = {}

VARIABLES
  list,        \* known_devices
  file,        \* per device: what its device.ini holds, Absent or Torn
  keys,        \* per device: its directory and the certificate and key in it
  trusts,      \* external: <<d, a>> when the host at a trusts d's certificate
  ui,          \* where the UI thread is
  then,        \* where it goes on after a save
  job,         \* what it is doing with the host: "add" or "connect"
  info,        \* the device_info_t it works on: entry .at of the list, or with .at = 0
               \* a struct of its own
  old,         \* old_name, of a change of name
  serverPaired,\* server.paired
  \* history
  acked,       \* a host told the client that <<d, a>> is paired
  withheld,    \* trust the client never heard of, its unpair request being lost
  borrowed,    \* devices with a paired flag that another one has earned, or without the
               \* certificate that earned it
  excuse       \* per device: why its file may say something else than the list

disk    == <<file, keys>>
pairing == <<trusts, acked, withheld>>
causes  == <<borrowed, excuse>>
flow    == <<then, job, info, old, serverPaired>>
vars == <<list, disk, pairing, causes, flow, ui>>

Info == [dev : Devices \union {NoDevice}, addr : Addrs \union {NoAddr}, paired : BOOLEAN,
         at : 0..Size]
Nobody == [dev |-> NoDevice, addr |-> NoAddr, paired |-> FALSE, at |-> 0]

\* The last save failed, or the file went with another device's; the device was added
\* again, while it was listed; two entries have had the name since the start; it is not
\* listed, and its file was left behind.
Excuse == {"none", "unsaved", "hidden", "doubled", "leftover"}

Talk == {"pair", "secret", "challenge", "unpair"}       \* inside gs_pair
Then == {"menu", "pair", "paired", "added", "open", "reload", "connected", "renamed"}
Place == Talk \union Then \union
  {"keys", "keygen", "status", "record", "save", "write", "ini", "directory"}

TypeOK ==
  /\ list \in Seq(Device) /\ Len(list) <= Size
  /\ file \in [Devices -> Entry \union {Absent, Torn}]
  /\ keys \in [Devices -> {"none", "empty", "half", "whole"}]
  /\ trusts \in SUBSET (Devices \X Addrs)
  /\ ui \in Place
  /\ then \in Then
  /\ job \in {"add", "connect"}
  /\ info \in Info
  /\ old \in Devices \union {NoDevice}
  /\ serverPaired \in BOOLEAN
  /\ acked \in SUBSET (Devices \X Addrs)
  /\ withheld \in SUBSET (Devices \X Addrs)
  /\ borrowed \in SUBSET Devices
  /\ excuse \in [Devices -> Excuse]

Init ==
  /\ list = <<>>
  /\ file = [d \in Devices |-> Absent]
  /\ keys = [d \in Devices |-> "none"]
  /\ trusts = {}
  /\ ui = "menu"
  /\ then = "menu"
  /\ job = "add"
  /\ info = Nobody
  /\ old = NoDevice
  /\ serverPaired = FALSE
  /\ acked = {}
  /\ withheld = {}
  /\ borrowed = {}
  /\ excuse = [d \in Devices |-> "none"]

\* The pair of directory and host that the client is talking to.
Link == <<info.dev, info.addr>>
Of(d) == {d} \X Addrs

Index == 1..Len(list)
Names == {list[i].dev : i \in Index}

\* The entry that find_device returns for a name, and remove_device removes.
Found(d) == {i \in Index : list[i].dev = d /\ \A j \in 1..(i - 1) : list[j].dev # d}

-----------------------------------------------------------------------------
(* device.c: the list and its files.                                       *)

\* load_device_info: a file without lines parses, and leaves the defaults.
Loaded(d) == IF file[d] \in Entry THEN file[d] ELSE [paired |-> FALSE, addr |-> NoAddr]

OnDisk == {d \in Devices : file[d] # Absent}

\* What save_device_info writes: the caller's own struct or the listed one.
Content ==
  IF info.at = 0 THEN [paired |-> info.paired, addr |-> info.addr]
  ELSE [paired |-> list[info.at].paired, addr |-> list[info.at].addr]

Goto(place) == ui' = place /\ then' = "menu"

\* Back in the main menu, whatever was worked on is let go.
Done == Goto("menu") /\ job' = "add" /\ info' = Nobody /\ old' = NoDevice /\ serverPaired' = FALSE

GoOn == IF then = "menu" THEN Done ELSE Goto(then) /\ UNCHANGED <<job, info, old, serverPaired>>

Save(place) == ui' = "save" /\ then' = place

\* Of a device that has an excuse already, that one stands.
Unsaved == [excuse EXCEPT ![info.dev] = IF @ = "none" THEN "unsaved" ELSE @]

\* fopen fails, always so when there is no directory: it is logged.
SaveFails ==
  /\ ui = "save"
  /\ excuse' = Unsaved
  /\ GoOn
  /\ UNCHANGED <<list, disk, pairing, borrowed>>

Truncate ==
  /\ ui = "save"
  /\ keys[info.dev] # "none"
  /\ file' = [file EXCEPT ![info.dev] = Torn]
  /\ ui' = "write"
  /\ UNCHANGED <<list, keys, pairing, causes, flow>>

\* fclose: the lines reach the file, or the card is full and they do not.
Write ==
  /\ ui = "write"
  /\ \/ /\ file' = [file EXCEPT ![info.dev] = Content]
        /\ excuse' = [excuse EXCEPT ![info.dev] =
             IF @ = "unsaved" \/ (@ = "hidden" /\ info.at # 0) THEN "none" ELSE @]
     \/ excuse' = Unsaved /\ UNCHANGED file
  /\ GoOn
  /\ UNCHANGED <<list, keys, pairing, borrowed>>

\* load_all_known_devices, on top of the entries from: whatever has a file and is not
\* in the list is appended, in the order of the directory, as long as there is memory.
LoadAll(from) ==
  LET missing == OnDisk \ {from[i].dev : i \in 1..Len(from)}
      room == Size - Len(from)
  IN \E n \in 0..room : \E dir \in [1..n -> missing] :
       /\ \A i, j \in 1..n : dir[i] = dir[j] => i = j
       /\ n = room \/ \A d \in missing : \E i \in 1..n : dir[i] = d
       /\ list' = from \o [i \in 1..n |->
            [dev |-> dir[i], paired |-> Loaded(dir[i]).paired, addr |-> Loaded(dir[i]).addr]]
       /\ excuse' = [d \in Devices |->
            IF d \in missing THEN IF \E i \in 1..n : dir[i] = d THEN "none" ELSE "leftover"
            ELSE IF from = <<>> THEN "none" ELSE excuse[d]]

\* append_device: the caller goes on with the new entry of the list.
AppendDevice ==
  /\ ui = "record"
  /\ info.dev \notin Names
  /\ Len(list) < Size
  /\ list' = Append(list, [dev |-> info.dev, paired |-> info.paired, addr |-> info.addr])
  /\ info' = [info EXCEPT !.at = Len(list) + 1]
  /\ excuse' = [excuse EXCEPT ![info.dev] = "none"]
  /\ Save(IF serverPaired THEN "paired" ELSE "pair")
  /\ UNCHANGED <<disk, pairing, job, old, serverPaired, borrowed>>

\* The name is known, or there is no memory for it: append_device returns NULL,
\* and the caller goes on with its own struct.
UpdateDevice ==
  /\ ui = "record"
  /\ \/ /\ \E i \in Found(info.dev) :
             list' = [list EXCEPT ![i].paired = info.paired, ![i].addr = info.addr]
        /\ excuse' = [excuse EXCEPT ![info.dev] = IF @ = "doubled" THEN @ ELSE "hidden"]
     \/ /\ info.dev \notin Names
        /\ excuse' = [excuse EXCEPT ![info.dev] = "leftover"]
        /\ UNCHANGED list
  /\ Save(IF serverPaired THEN "paired" ELSE "pair")
  /\ UNCHANGED <<disk, pairing, job, info, old, serverPaired, borrowed>>

-----------------------------------------------------------------------------
(* libgamestream/client.c.                                                 *)

\* gs_init fails, or the host does not answer: nothing has been recorded yet.
\* A connection saves the device all the same (prefer_external).
Unreachable ==
  /\ ui \in {"keys", "keygen", "status"}
  /\ IF job = "add" THEN Done ELSE Save("menu") /\ UNCHANGED <<job, info, old, serverPaired>>
  /\ UNCHANGED <<list, disk, pairing, causes>>

\* sceIoMkdir and mkdirtree.
MakeDirectory ==
  /\ ui = "keys"
  /\ keys[info.dev] = "none"
  /\ keys' = [keys EXCEPT ![info.dev] = "empty"]
  /\ UNCHANGED <<list, file, pairing, causes, flow, ui>>

\* load_cert: a certificate that is there is used, whether or not the key beside it
\* can be read.  When it is missing a new one takes its place.
LoadCert ==
  /\ ui = "keys"
  /\ \/ /\ keys[info.dev] \in {"half", "whole"}
        /\ Goto("status")
        /\ UNCHANGED <<keys, pairing>>
     \/ /\ keys[info.dev] \in {"empty", "half"}
        /\ keys' = [keys EXCEPT ![info.dev] = "half"]
        /\ trusts' = trusts \ Of(info.dev)
        /\ acked' = acked \ Of(info.dev)
        /\ withheld' = withheld \ Of(info.dev)
        /\ Goto("keygen")
  /\ UNCHANGED <<list, file, causes, job, info, old, serverPaired>>

\* mkcert_save: certificate and key are opened first and closed one by one.
MkcertSave ==
  /\ ui = "keygen"
  /\ keys' = [keys EXCEPT ![info.dev] = "whole"]
  /\ Goto("status")
  /\ UNCHANGED <<list, file, pairing, causes, job, info, old, serverPaired>>

\* load_server_status: HTTPS tells whether we are paired; when it fails, HTTP
\* answers "no".
ServerStatus ==
  /\ \/ serverPaired' = FALSE /\ UNCHANGED <<acked, withheld>>
     \/ /\ Link \in trusts
        /\ keys[info.dev] = "whole"
        /\ serverPaired' = TRUE
        /\ acked' = acked \union {Link}
        /\ withheld' = withheld \ {Link}

LoadServerStatus ==
  /\ ui = "status"
  /\ info.addr \in Addrs
  /\ ServerStatus
  /\ IF job = "add" THEN Goto("record") ELSE Save("open")
  /\ UNCHANGED <<list, disk, trusts, causes, job, info, old>>

\* gs_pair up to the server's challenge: the person has typed the PIN.
Exchange ==
  /\ ui = "pair"
  /\ info.addr \in Addrs
  /\ ~serverPaired
  /\ Goto("secret")
  /\ UNCHANGED <<list, disk, pairing, causes, job, info, old, serverPaired>>

\* sign_it: signing needs the private key.
CanSign == keys[info.dev] = "whole"

\* clientpairingsecret: the host takes the certificate, whether or not its reply
\* is seen.
PairingSecret ==
  /\ ui = "secret"
  /\ CanSign
  /\ trusts' = trusts \union {Link}
  /\ Goto("challenge") \/ Goto("unpair")
  /\ UNCHANGED <<list, disk, acked, withheld, causes, job, info, old, serverPaired>>

\* pairchallenge over HTTPS: only a host that trusts the certificate answers.
PairChallenge ==
  /\ ui = "challenge"
  /\ Link \in trusts
  /\ acked' = acked \union {Link}
  /\ withheld' = withheld \ {Link}
  /\ serverPaired' = TRUE
  /\ Goto("paired")
  /\ UNCHANGED <<list, disk, trusts, causes, job, info, old>>

\* Mutant: what failed passes for paired.
PairFailsUnseen ==
  /\ ui \in {"pair", "secret", "challenge"}
  /\ Goto("paired")
  /\ UNCHANGED <<list, disk, pairing, causes, job, info, old, serverPaired>>

\* Mutant: the host is not told that the pairing was given up.
PairFailsKept ==
  /\ ui \in {"pair", "secret", "challenge"}
  /\ Done
  /\ UNCHANGED <<list, disk, pairing, causes>>

\* A request of gs_pair fails or is refused.
PairFails ==
  /\ ui \in {"pair", "secret", "challenge"}
  /\ Goto("unpair")
  /\ UNCHANGED <<list, disk, pairing, causes, job, info, old, serverPaired>>

\* gs_unpair, at the end of a failed gs_pair: its own request may be lost.  A failed
\* pairing leaves the connection ready: the main menu then offers to resume it.
Unpair ==
  /\ ui = "unpair"
  /\ \/ trusts' = trusts \ {Link} /\ withheld' = withheld \ {Link}
     \/ withheld' = withheld \union ((trusts \ acked) \intersect {Link}) /\ UNCHANGED trusts
  /\ \/ job = "add" /\ Done
     \/ Goto("connected") /\ job' = "connect" /\ UNCHANGED <<info, old, serverPaired>>
  /\ UNCHANGED <<list, disk, acked, causes>>

-----------------------------------------------------------------------------
(* ui_connect.c, ui_device.c: adding and connecting.                       *)

\* The main menu lists the paired devices, a search offers all others.
InMenu(i) == i \in Index /\ list[i].paired

Start(j, d, a, i) ==
  /\ Goto("keys")
  /\ job' = j
  /\ info' = [dev |-> d, addr |-> a, paired |-> FALSE, at |-> i]
  /\ old' = NoDevice
  /\ serverPaired' = FALSE

\* A search result, which the list offers unless it is paired.
SearchDevice(d, a) ==
  /\ ui = "menu"
  /\ \A i \in Found(d) : ~list[i].paired
  /\ Start("add", d, a, 0)
  /\ UNCHANGED <<list, disk, pairing, causes>>

\* A name and an address typed in.
ConnectManual(d, a) ==
  /\ ui = "menu"
  /\ Start("add", d, a, 0)
  /\ UNCHANGED <<list, disk, pairing, causes>>

\* info->paired = true, in the struct or in the list.
SetPaired ==
  IF info.at = 0 THEN info' = [info EXCEPT !.paired = TRUE] /\ UNCHANGED list
  ELSE list' = [list EXCEPT ![info.at].paired = TRUE] /\ UNCHANGED info

\* Mutant: the flag is left to a later save.
AddPairedUnsaved ==
  /\ ui = "paired"
  /\ job = "add"
  /\ SetPaired
  /\ Goto("added")
  /\ UNCHANGED <<disk, pairing, causes, job, old, serverPaired>>

\* ui_connect_and_pairing after gs_pair.
AddPaired ==
  /\ ui = "paired"
  /\ job = "add"
  /\ SetPaired
  /\ Save("added")
  /\ UNCHANGED <<disk, pairing, causes, job, old, serverPaired>>

\* A search result is saved once more with its external address, what was typed in
\* is not.
Added ==
  /\ ui = "added"
  /\ \/ Done
     \/ Save("menu") /\ UNCHANGED <<job, info, old, serverPaired>>
  /\ UNCHANGED <<list, disk, pairing, causes>>

\* ui_connect_paired_device, from the device's menu.
ConnectPaired(i) ==
  /\ ui = "menu"
  /\ InMenu(i)
  /\ Start("connect", list[i].dev, list[i].addr, i)
  /\ UNCHANGED <<list, disk, pairing, causes>>

\* ui_connect asks the host again.
OpenHost ==
  /\ ui = "open"
  /\ \/ Done /\ UNCHANGED <<acked, withheld>>
     \/ Goto("connected") /\ ServerStatus /\ UNCHANGED <<job, info, old>>
  /\ UNCHANGED <<list, disk, trusts, causes>>

\* The entry Pair of ui_connected_menu: the host no longer knows the client.
PairFromMenu ==
  /\ ui = "connected"
  /\ ~serverPaired
  /\ Goto("pair")
  /\ UNCHANGED <<list, disk, pairing, causes, job, info, old, serverPaired>>

\* ui_connect_loop: the device that gets the flag is the first with the address.
MenuPaired ==
  /\ ui = "paired"
  /\ job = "connect"
  /\ \/ \E i \in Index :
          /\ list[i].addr = info.addr /\ \A j \in 1..(i - 1) : list[j].addr # info.addr
          /\ list' = [list EXCEPT ![i].paired = TRUE]
          /\ info' = [info EXCEPT !.dev = list[i].dev, !.at = i]
          /\ borrowed' = borrowed \union ({list[i].dev} \ {info.dev})
          /\ Save("menu")
          /\ UNCHANGED <<job, old, serverPaired>>
     \/ /\ \A i \in Index : list[i].addr # info.addr
        /\ Done
        /\ UNCHANGED <<list, borrowed>>
  /\ UNCHANGED <<disk, pairing, excuse>>

Disconnect ==
  /\ ui = "connected"
  /\ Done
  /\ UNCHANGED <<list, disk, pairing, causes>>

-----------------------------------------------------------------------------
(* ui.c, ui_check.c: managing a listed device.                             *)

\* The entry i itself is changed, its name being d from then on: no host is asked.
Manage(i, d) ==
  /\ info' = [dev |-> d, addr |-> NoAddr, paired |-> FALSE, at |-> i]
  /\ job' = "connect"
  /\ serverPaired' = FALSE

\* remove_device: the first entry of the name d goes, then the file and the directory
\* of what its argument is by then.
Unlist(d, name) ==
  /\ \E i \in Found(d) : list' = RemoveAt(list, i)
  /\ Manage(0, name)
  /\ old' = NoDevice
  /\ Goto("ini")

\* The argument is the name inside the entry i: when the entries behind have moved up,
\* it is that of the next one.
RemoveDevice(i) ==
  LET d == list[i].dev
      name == IF i < Len(list) THEN list[i + 1].dev ELSE d
  IN /\ ui = "menu"
     /\ InMenu(i)
     /\ Unlist(d, name)
     /\ borrowed' = borrowed \union ({name} \ {d})
     /\ excuse' = [excuse EXCEPT ![d] = IF name = d \/ d \in Names' THEN @ ELSE "leftover"]
     /\ UNCHANGED <<disk, pairing>>

\* A name without a file starts anew, unless an entry has it.
FileGone ==
  /\ file' = [file EXCEPT ![info.dev] = Absent]
  /\ borrowed' = borrowed \ ({info.dev} \ Names)
  /\ excuse' = IF info.dev \in Names THEN Unsaved ELSE [excuse EXCEPT ![info.dev] = "none"]

\* sceIoRemove of device.ini: that it fails goes unnoticed.
RemoveFile ==
  /\ ui = "ini"
  /\ \/ FileGone
     \/ /\ file[info.dev] # Absent
        /\ borrowed' = borrowed \union {info.dev}
        /\ excuse' = [excuse EXCEPT ![info.dev] = IF info.dev \in Names THEN @ ELSE "leftover"]
        /\ UNCHANGED file
  /\ Goto("directory")
  /\ UNCHANGED <<list, keys, pairing, job, info, old, serverPaired>>

\* Whatever is in the directory goes, in any order, a device.ini included.
RemoveKeys ==
  /\ ui = "directory"
  /\ \/ /\ keys[info.dev] \in {"half", "whole"}
        /\ keys' = [keys EXCEPT ![info.dev] = IF @ = "whole" THEN "half" ELSE "empty"]
        /\ UNCHANGED <<file, causes>>
     \/ /\ file[info.dev] # Absent
        /\ FileGone
        /\ UNCHANGED keys
  /\ UNCHANGED <<list, pairing, flow, ui>>

\* sceIoRmdir: it, and any of the removals, may have failed.
RemoveDirectory ==
  /\ ui = "directory"
  /\ \/ /\ keys[info.dev] = "empty" /\ file[info.dev] = Absent
        /\ keys' = [keys EXCEPT ![info.dev] = "none"]
     \/ UNCHANGED keys
  /\ Done
  /\ UNCHANGED <<list, file, pairing, causes>>

ChangeIp(i, a) ==
  /\ ui = "menu"
  /\ InMenu(i)
  /\ list' = [list EXCEPT ![i].addr = a]
  /\ Manage(i, list[i].dev)
  /\ old' = NoDevice
  /\ Save("menu")
  /\ UNCHANGED <<disk, pairing, causes>>

\* The entry is renamed in memory and saved, over the file of an entry that has the
\* name already.
ChangeName(i, n) ==
  /\ ui = "menu"
  /\ InMenu(i)
  /\ list' = [list EXCEPT ![i].dev = n]
  /\ Manage(i, n)
  /\ IF n = list[i].dev
     THEN /\ Save("menu") /\ old' = NoDevice
          /\ UNCHANGED causes
     ELSE /\ Save("renamed") /\ old' = list[i].dev
          /\ borrowed' = borrowed \union {n}
          /\ excuse' = [excuse EXCEPT ![n] = IF n \in Names THEN "doubled" ELSE "none"]
  /\ UNCHANGED <<disk, pairing>>

\* Then remove_device looks for the old name in the list.  It finds an entry that
\* had the same name, or none, and then leaves the old directory alone.
RemoveOldName ==
  /\ ui = "renamed"
  /\ \/ Unlist(old, old) /\ UNCHANGED excuse
     \/ /\ old \notin Names
        /\ excuse' = [excuse EXCEPT ![old] = "leftover"]
        /\ Done
        /\ UNCHANGED list
  /\ UNCHANGED <<disk, pairing, borrowed>>

\* ui_check_ip_update: the scan has found the host at another address.
CheckIpUpdate(i, a) ==
  /\ ui = "menu"
  /\ InMenu(i)
  /\ list' = [list EXCEPT ![i].addr = a, ![i].paired = TRUE]
  /\ Manage(i, list[i].dev)
  /\ old' = NoDevice
  /\ Save("reload")
  /\ UNCHANGED <<disk, pairing, causes>>

\* Its second half: the list is read again, and the device looked up and connected.
Reload ==
  /\ ui = "reload"
  /\ LoadAll(list)
  /\ \E i \in Found(info.dev) :
       IF list[i].paired THEN Start("connect", info.dev, list[i].addr, i) ELSE Done
  /\ UNCHANGED <<disk, pairing, borrowed>>

-----------------------------------------------------------------------------
\* The person removes the client on the host.
HostForgets ==
  /\ \E l \in trusts : trusts' = trusts \ {l} /\ withheld' = withheld \ {l}
  /\ UNCHANGED <<list, disk, acked, causes, flow, ui>>

\* The program ends at any step and is started again (main).
Restart ==
  /\ LoadAll(<<>>)
  /\ withheld' = withheld \union
       (IF ui \in {"challenge", "unpair"} THEN (trusts \ acked) \intersect {Link} ELSE {})
  /\ Done
  /\ UNCHANGED <<disk, trusts, acked, borrowed>>

GsInit == Unreachable \/ MakeDirectory \/ LoadCert \/ MkcertSave \/ LoadServerStatus
GsPair == Exchange \/ PairingSecret \/ PairChallenge \/ PairFails \/ Unpair
SaveDevice == SaveFails \/ Truncate \/ Write
Add == AppendDevice \/ UpdateDevice \/ AddPaired \/ Added
Connect == OpenHost \/ PairFromMenu \/ MenuPaired \/ Disconnect
RemoveFiles == RemoveFile \/ RemoveKeys \/ RemoveDirectory \/ RemoveOldName

Menu ==
  \/ \E i \in Index : ConnectPaired(i) \/ RemoveDevice(i)
  \/ \E i \in Index, a \in Addrs : ChangeIp(i, a) \/ CheckIpUpdate(i, a)
  \/ \E i \in Index, n \in Devices : ChangeName(i, n)
  \/ \E d \in Devices, a \in Addrs : SearchDevice(d, a) \/ ConnectManual(d, a)

Next ==
  \/ GsInit \/ GsPair \/ SaveDevice \/ Add \/ Connect \/ RemoveFiles \/ Menu
  \/ Reload \/ HostForgets \/ Restart

Spec == Init /\ [][Next]_vars

-----------------------------------------------------------------------------
Claims(d) ==
  \/ \E i \in Index : list[i].dev = d /\ list[i].paired
  \/ file[d] \in Entry /\ file[d].paired

\* A device is paired in the menu or on the card only if a host has said so for the
\* certificate in its directory, or it has the flag of another device, by a change
\* of name or because it was found under the same address, or of its own former self,
\* its removal having failed, or another one's removal took its certificate.
PairedForCause ==
  \A d \in Devices : Claims(d) => d \in borrowed \/ \E a \in Addrs : <<d, a>> \in acked

\* A host trusts a certificate only if the client knows of it, if the client gave
\* the pairing up and its gs_unpair was lost, or while gs_pair runs.
TrustForCause ==
  trusts \subseteq acked \union withheld \union
    (IF ui \in {"challenge", "unpair"} THEN {Link} ELSE {})

\* At the main menu, the next start lists what this one does, with the same flags and
\* addresses, except for a device whose save failed or whose file went with another
\* one's, one that was added a second time or shares its name with another, and files
\* that a change of name or a removal leaves behind.
RestartShowsTheSame ==
  ui = "menu" =>
    /\ \A i \in Index : excuse[list[i].dev] = "none" =>
         /\ file[list[i].dev] # Absent
         /\ Loaded(list[i].dev) = [paired |-> list[i].paired, addr |-> list[i].addr]
    /\ \A d \in Devices \ Names : excuse[d] # "leftover" => file[d] = Absent

\* remove_device removes the directory and the file of the device that it is asked to
\* remove, as its comment says (device.c:25): a listed device keeps its file.
RemovesItsOwn ==
  [][\A d \in Devices : file[d] # Absent /\ file'[d] = Absent => d \notin Names]_vars
=============================================================================
