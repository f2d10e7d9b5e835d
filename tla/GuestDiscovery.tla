----------------------------- MODULE GuestDiscovery -----------------------------
(***************************************************************************)
(* wait_for_guest_ip: which address of a booting guest vmdeploy goes on    *)
(* with.  The guest's interfaces get their addresses in any order, a       *)
(* link-local one perhaps before the lease; the Guest Additions publish    *)
(* the address and the name of each interface as separate properties.  On  *)
(* every poll the host enumerates them, selects, and otherwise, also where *)
(* VBoxManage could not enumerate them, asks DNS.                          *)
(*                                                                         *)
(* An address is its class: on the host's own /24 ("lan"), otherwise in    *)
(* 192.168/16 or 10/8 ("private"), elsewhere ("docker"), or link-local.    *)
(***************************************************************************)
EXTENDS Integers, FiniteSetsExt

CONSTANTS
    NIfaces,        \* interfaces of the guest, numbered as the additions do
    Virtual,        \* those whose name has a prefix of _VIRTUAL_IFACE_PREFIXES
    BridgeClass     \* the class of the addresses virtual interfaces have

DiscoveryAssumption ==
    /\ NIfaces \in Nat \ {0} /\ Virtual \subseteq 1..NIfaces
    /\ BridgeClass \in {"private", "docker"}

Ifaces == 1..NIfaces
Physical == Ifaces \ Virtual
Classes == {"none", "linklocal", "lan", "private", "docker"}
Via == {"additions", "dns", "nobody"}

VARIABLES
    addr,       \* the address each interface has
    ip, named,  \* the two properties published for it
    dns,        \* what the hostname resolves to; "docker" stands for a stale record
    hostLan,    \* whether the host could determine its own LAN address
    pc,         \* "poll", "resolve", "sleep", "found" or "timeout"
    chosen,     \* the interface and the address returned, and who named it
    snap        \* history: the properties at the last poll, and whether they were read

guest == <<addr, ip, named, dns>>
vars == <<guest, hostLan, pc, chosen, snap>>

NoSnap == [ip |-> [i \in Ifaces |-> "none"], named |-> [i \in Ifaces |-> FALSE],
           read |-> FALSE]

Init ==
    /\ addr = [i \in Ifaces |-> "none"]
    /\ ip = NoSnap.ip /\ named = NoSnap.named
    /\ dns \in {"none", "docker"}
    /\ hostLan \in BOOLEAN
    /\ pc = "poll"
    /\ chosen = [iface |-> 0, class |-> "none", via |-> "nobody"]
    /\ snap = NoSnap

-----------------------------------------------------------------------------
(* The guest (external). *)

\* An interface comes up; a physical one may have a link-local address first.
Address(i) ==
    /\ addr[i] \in {"none", "linklocal"}
    /\ \E c \in (IF i \in Virtual THEN {BridgeClass} ELSE {"linklocal", "lan"}) :
          c # addr[i] /\ addr' = [addr EXCEPT ![i] = c]
    /\ UNCHANGED <<ip, named, dns, hostLan, pc, chosen, snap>>

PublishIp(i) ==
    /\ ip[i] # addr[i]
    /\ ip' = [ip EXCEPT ![i] = addr[i]]
    /\ UNCHANGED <<addr, named, dns, hostLan, pc, chosen, snap>>

PublishName(i) ==
    /\ ~named[i]
    /\ named' = [named EXCEPT ![i] = TRUE]
    /\ UNCHANGED <<addr, ip, dns, hostLan, pc, chosen, snap>>

\* The DHCP server registers the lease.
Register ==
    /\ \E i \in Physical : addr[i] = "lan"
    /\ dns # "lan"
    /\ dns' = "lan"
    /\ UNCHANGED <<addr, ip, named, hostLan, pc, chosen, snap>>

Guest == Register \/ \E i \in Ifaces : Address(i) \/ PublishIp(i) \/ PublishName(i)

-----------------------------------------------------------------------------
(* _select_lan_address on what guest_ipv4_interfaces returns. *)

\* Mutant: virtual interfaces are not filtered out.
UsableCandidates == {i \in Ifaces : ip[i] \notin {"none", "linklocal"}}

\* An interface without a name is called net<index>, which is no virtual prefix.
Candidates ==
    {i \in Ifaces : ip[i] \notin {"none", "linklocal"} /\ ~(named[i] /\ i \in Virtual)}

\* Mutant: the first candidate is taken.
FirstSelected(C) == Min(C)

\* The first on the host's subnet, else the first in a common LAN range, else the first.
Selected(C) ==
    LET onLan == {i \in C : hostLan /\ ip[i] = "lan"}
        common == {i \in C : ip[i] \in {"lan", "private"}}
    IN  CASE onLan # {} -> Min(onLan)
          [] onLan = {} /\ common # {} -> Min(common)
          [] OTHER -> Min(C)

Returns(i, c, v) ==
    /\ pc' = "found"
    /\ chosen' = [iface |-> i, class |-> c, via |-> v]

\* A poll, at which VBoxManage enumerates the properties or exits non-zero.
Enumerate(ok) ==
    /\ pc = "poll"
    /\ snap' = [ip |-> ip, named |-> named, read |-> ok]

PollSelects ==
    /\ Enumerate(TRUE)
    /\ Candidates # {}
    /\ Returns(Selected(Candidates), ip[Selected(Candidates)], "additions")
    /\ UNCHANGED <<guest, hostLan>>

PollFindsNone ==
    /\ Enumerate(TRUE)
    /\ Candidates = {}
    /\ pc' = "resolve"
    /\ UNCHANGED <<guest, hostLan, chosen>>

\* A failed enumeration is an empty one.
PollFails ==
    /\ Enumerate(FALSE)
    /\ pc' = "resolve"
    /\ UNCHANGED <<guest, hostLan, chosen>>

\* _resolve_ipv4.
Resolves ==
    /\ pc = "resolve"
    /\ dns # "none"
    /\ Returns(0, dns, "dns")
    /\ UNCHANGED <<guest, hostLan, snap>>
ResolvesNot ==
    /\ pc = "resolve"
    /\ dns = "none"
    /\ pc' = "sleep"
    /\ UNCHANGED <<guest, hostLan, chosen, snap>>

\* The deadline is looked at before each poll.
PollAgain == pc = "sleep" /\ pc' = "poll" /\ UNCHANGED <<guest, hostLan, chosen, snap>>
Expires == pc = "sleep" /\ pc' = "timeout" /\ UNCHANGED <<guest, hostLan, chosen, snap>>

Discover ==
    \/ PollSelects \/ PollFindsNone \/ PollFails \/ Resolves \/ ResolvesNot
    \/ PollAgain \/ Expires

Next == Guest \/ Discover

Spec == Init /\ [][Next]_vars

-----------------------------------------------------------------------------
(* Properties. *)

\* Every variable keeps its type.
TypeOK ==
    /\ addr \in [Ifaces -> Classes] /\ ip \in [Ifaces -> Classes]
    /\ named \in [Ifaces -> BOOLEAN]
    /\ dns \in Classes /\ hostLan \in BOOLEAN
    /\ pc \in {"poll", "resolve", "sleep", "found", "timeout"}
    /\ chosen \in [iface: 0..NIfaces, class: Classes, via: Via]
    /\ snap \in [ip: [Ifaces -> Classes], named: [Ifaces -> BOOLEAN], read: BOOLEAN]

\* The last enumeration listed an address on the host's own subnet.
ListedLan == snap.read /\ \E i \in Physical : snap.ip[i] = "lan"

\* An address on the host's own subnet, once it is listed, is what is returned: no
\* bridge, named or not yet named, and no DNS record is taken instead.
LanWins == pc = "found" /\ hostLan /\ ListedLan => chosen.class = "lan"

\* The machine is given up on, or an unreachable address returned, for one of three
\* reasons: a bridge's name was not published with its address, no address of the LAN
\* was published at the last poll, or VBoxManage failed at it.
DetourExplained ==
    /\ pc = "found" /\ chosen.via = "additions" /\ chosen.iface \in Virtual =>
         ~snap.named[chosen.iface]
    /\ pc = "found" /\ chosen.via = "dns" => ~ListedLan
    /\ pc = "timeout" => ~ListedLan

\* The two together.
AddressExplained == LanWins /\ DetourExplained

\* The inductive invariant: DNS is asked, and the deadline looked at, after a poll that
\* listed no address of the LAN.
IInv == TypeOK /\ AddressExplained /\ (pc \in {"resolve", "sleep"} => ~ListedLan)

-----------------------------------------------------------------------------
(* What the documentation says, and the code does not keep. *)

\* wait_for_guest_ip: "the reachable NIC is always chosen over the bridge".
NeverTheBridge == pc = "found" /\ chosen.via = "additions" => chosen.iface \in Physical

\* guest_ipv4_interfaces: "Empty if the additions have not yet published network
\* state" -- an address the additions have published is not passed over.
PublishedIsUsed ==
    pc = "found" /\ chosen.via = "dns" => \A i \in Physical : snap.ip[i] # "lan"
================================================================================
