------------------------------ MODULE Multicast ------------------------------
(***************************************************************************)
(* src/multicast.c: sockets bound to an interface, and the groups that are  *)
(* joined and dropped through them.  The interface of the last make is kept *)
(* in one global, if_multicast, which join and drop copy whatever socket    *)
(* they are called with.                                                    *)
(*                                                                         *)
(* joined is what the kernel has: which socket is in which group on which   *)
(* interface.  It refuses a membership that is there already, and the drop  *)
(* of one that is not.  A drop on interface 0 takes any membership of the   *)
(* socket in the group, and any drop one that was joined on interface 0.    *)
(***************************************************************************)
EXTENDS Integers, Sequences

CONSTANTS Names,       \* names of interfaces
          Inet, Inet6, \* those that can multicast and have an address of the family
          GroupIds,    \* groups of a family
          MaxSockets   \* bound: sockets made

ANY == "any"                     \* the interface 0: the kernel picks one
Family == {"inet", "inet6"}
Group == [family : Family \cup {"other"}, id : GroupIds]

VARIABLES if_multicast,  \* the interface of each family in the global
          socks,         \* what each socket was made for
          joined,        \* the memberships in the kernel
          wanted,        \* <<socket, group>> joined and not dropped since
          exited         \* make_multicast ended the process

castVars == <<if_multicast, socks, joined, wanted, exited>>

Cleared == [f \in Family |-> ANY]
Membership(so, group, iface) == [so |-> so, group |-> group, iface |-> iface]

-----------------------------------------------------------------------------
CastInit == /\ if_multicast = Cleared
            /\ socks = <<>>
            /\ joined = {}
            /\ wanted = {}
            /\ exited = FALSE

(* find_multicast: there is such an interface, it can multicast and has an *)
(* address of the family.                                                  *)
find_multicast(name, family) == name \in IF family = "inet" THEN Inet ELSE Inet6

(* Mutant: the index of an IPv6 interface is not kept. *)
StoredForIPv4(name, family) == [Cleared EXCEPT !["inet"] = IF family = "inet" THEN name ELSE ANY]

(* What make_multicast leaves in the global. *)
Stored(name, family) == [Cleared EXCEPT ![family] = name]

make_multicast(name, family) ==
    /\ ~exited /\ Len(socks) < MaxSockets
    /\ find_multicast(name, family)
    /\ if_multicast' = Stored(name, family)
    /\ socks' = Append(socks, [iface |-> name, family |-> family])
    /\ UNCHANGED <<joined, wanted, exited>>

(* Each failure ends the process: no interface, and any system call. *)
MakeExits(name, family) ==
    /\ ~exited
    /\ if_multicast' \in {Cleared} \cup (IF find_multicast(name, family) THEN {Stored(name, family)} ELSE {})
    /\ exited' = TRUE
    /\ UNCHANGED <<socks, joined, wanted>>

(* The membership join and drop ask for. *)
Asked(so, group) == Membership(so, group, if_multicast[group.family])

(* The memberships of the kernel that a request to drop may take. *)
Dropped(asked) == {m \in joined : /\ m.so = asked.so /\ m.group = asked.group
                                  /\ ANY \in {asked.iface, m.iface} \/ asked.iface = m.iface}

(* Neither call compares the group's family with the socket's, and a Linux   *)
(* kernel only refuses the options of IPv6 on a socket of IPv4.              *)
KernelTakes(so, group) == group.family = "inet" \/ socks[so].family = "inet6"

join_multicast(so, group) ==
    /\ ~exited /\ so \in DOMAIN socks
    /\ group.family \in Family /\ KernelTakes(so, group)
    /\ Asked(so, group) \notin joined
    /\ joined' = joined \cup {Asked(so, group)}
    /\ wanted' = wanted \cup {<<so, group>>}
    /\ UNCHANGED <<if_multicast, socks, exited>>

drop_multicast(so, group) ==
    /\ ~exited /\ so \in DOMAIN socks
    /\ group.family \in Family /\ KernelTakes(so, group)
    /\ \E m \in Dropped(Asked(so, group)) : joined' = joined \ {m}
    /\ wanted' = wanted \ {<<so, group>>}
    /\ UNCHANGED <<if_multicast, socks, exited>>

CastNext == \/ \E name \in Names, f \in Family : make_multicast(name, f) \/ MakeExits(name, f)
            \/ \E so \in 1 .. MaxSockets, group \in Group :
                  join_multicast(so, group) \/ drop_multicast(so, group)

CastSpec == CastInit /\ [][CastNext]_castVars
-----------------------------------------------------------------------------
(* In its own family the socket that was made last is in exactly the groups   *)
(* that were joined and not dropped through it, all on its own interface,     *)
(* whatever was done with the sockets before it and with groups of the other  *)
(* family, for which the global has no interface.                             *)
LatestSocketRight ==
    LET last == Len(socks)
        own(group) == group.family = socks[last].family
    IN  {m \in joined : m.so = last /\ own(m.group)} =
        {Membership(last, w[2], socks[last].iface) : w \in {w \in wanted : w[1] = last /\ own(w[2])}}

(* A socket operates under the interface it was made for, as the features     *)
(* list says, in the groups of its family.  After a second make the first     *)
(* socket does not.                                                           *)
OperatesUnderItsInterface ==
    \A m \in joined : m.group.family = socks[m.so].family => m.iface = socks[m.so].iface
=============================================================================
