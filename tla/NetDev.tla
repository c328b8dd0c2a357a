------------------------------- MODULE NetDev -------------------------------
(***************************************************************************)
(* Network interfaces as the kernel keeps them, seen through the netlink   *)
(* calls of network.c.  An interface has an identity, lives in one network *)
(* namespace and has there a name and an index, both unique in the         *)
(* namespace.  A name is a pair <<prefix, number>>, so that the pattern    *)
(* "eth%d" the kernel completes, and the random names of                   *)
(* lxc_ifname_alnum_case_sensitive, need no string handling.               *)
(*                                                                         *)
(* D is always a function from the identities of the interfaces that exist *)
(* to [ns, name, idx, mtu, peer].                                          *)
(***************************************************************************)
EXTENDS Naturals, FiniteSets, FiniteSetsExt, TLC

Host == 0
NoName == <<"", 0>>
AnyEth == <<"eth%d", 0>>
Lo == <<"lo", 0>>

\* The interfaces of namespace ns, and the one that is called n there.
In(D, ns) == {d \in DOMAIN D : D[d].ns = ns}
Exists(D, ns, n) == \E d \in In(D, ns) : D[d].name = n
Named(D, ns, n) == CHOOSE d \in In(D, ns) : D[d].name = n

\* if_nametoindex and if_indextoname; index 0 stands for "no such interface".
\* Index 1 is the loopback interface every namespace has.
if_nametoindex(D, ns, n) ==
    IF n = Lo THEN 1 ELSE IF Exists(D, ns, n) THEN D[Named(D, ns, n)].idx ELSE 0

Indexed(D, ns, k) == {d \in In(D, ns) : D[d].idx = k}

\* The index a new interface of namespace ns gets.
NewIndex(D, ns) == 1 + Max({1} \cup {D[d].idx : d \in In(D, ns)})

\* The name the kernel gives to an interface that asks for n: "eth%d" is the
\* first free eth.
Granted(D, ns, n) ==
    IF n = AnyEth
    THEN <<"eth", Min({k \in 0..Cardinality(DOMAIN D) : ~Exists(D, ns, <<"eth", k>>)})>>
    ELSE n

\* An interface comes into being with the next index of its namespace.
Create(D, d, ns, n, mtu, peer) ==
    (d :> [ns |-> ns, name |-> n, idx |-> NewIndex(D, ns), mtu |-> mtu, peer |-> peer]) @@ D

\* RTM_DELLINK: the other end of a veth pair goes too.
Delete(D, d) == [e \in DOMAIN D \ {d, D[d].peer} |-> D[e]]

lxc_netdev_delete_by_name(D, ns, n) ==
    IF Exists(D, ns, n) THEN Delete(D, Named(D, ns, n)) ELSE D

\* RTM_NEWLINK with IFLA_NET_NS_*: refused when the name is taken over there;
\* the interface keeps its index if that is free, and gets a new one if not.
CanMove(D, d, ns, n) == ~Exists(D, ns, n)

MoveTo(D, d, ns, n) ==
    [D EXCEPT ![d].ns = ns, ![d].name = n,
              ![d].idx = IF Indexed(D, ns, @) = {} THEN @ ELSE NewIndex(D, ns)]

CanRename(D, d, n) == D[d].name # n => ~Exists(D, D[d].ns, n)

RenameTo(D, d, n) == [D EXCEPT ![d].name = Granted(D, D[d].ns, n)]

\* A random name that no interface of the host has, one per purpose, container
\* and network.
lxc_ifname_alnum_case_sensitive(D, prefix, c, i) ==
    LET at(k) == <<prefix, 100 * k + 10 * c + i>>
    IN  at(Min({k \in 0..Cardinality(DOMAIN D) : ~Exists(D, Host, at(k))}))

\* The last reference to a namespace is gone: interfaces that were made for it
\* are destroyed, physical ones (Nic) fall back to the host, under their name or,
\* when that is taken, under a fresh dev%d.
Cleanup(D, ns, Nic) ==
    LET left == [d \in {e \in DOMAIN D : e \in Nic \/ ns \notin {D[e].ns, D[D[e].peer].ns}} |-> D[d]]
        home(d, E) ==
            MoveTo(E, d, Host,
                   IF Exists(E, Host, E[d].name)
                   THEN <<"dev", Min({k \in 0..9 : ~Exists(E, Host, <<"dev", k>>)})>>
                   ELSE E[d].name)
    IN  FoldSet(home, left, In(left, ns))
=============================================================================
