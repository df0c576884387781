------------------------------- MODULE MCHosts -------------------------------
(* The instance of KnownDevices that TLC checks: two computers, which one    *)
(* address may stand for, or one computer that is found at two addresses.    *)
(* Computers are interchangeable, and so are addresses.                      *)
EXTENDS KnownDevices, TLC
CONSTANTS d1, d2, a1, a2
TwoDevices == {d1, d2}
TwoAddresses == {a1, a2}
Interchangeable == Permutations(TwoDevices) \union Permutations(TwoAddresses)

DevicesInUse == {d \in Devices :
  \/ d \in Names \union borrowed \union {info.dev}
  \/ keys[d] # "none"
  \/ file[d] # Absent
  \/ Of(d) \intersect (trusts \union acked) # {}}

AddrsInUse == {a \in Addrs :
  \/ info.addr = a
  \/ \E i \in Index : list[i].addr = a
  \/ \E d \in Devices : Loaded(d).addr = a \/ <<d, a>> \in trusts \union acked}

\* The bound on what is explored.
OneOfEither ==
  \/ \A d, e \in DevicesInUse : d = e
  \/ \A a, b \in AddrsInUse : a = b
=============================================================================
