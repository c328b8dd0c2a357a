----------------------------- MODULE MCNetwork ------------------------------
(* Small hosts and small configurations for Network. *)
EXTENDS Network

MCContainer == 1..2
MCMaxRuns == <<2, 1>>

Card(k) == <<"p", k>>
Br == <<"br", 0>>
OvsBr == <<"ovs", 0>>
MCOvsBridge == {OvsBr}
MCWlan == {Nic(3)}
MCSpare == {Nic(4)}

\* Two cards, a wireless card, a spare one and two bridges.
Machine ==
    LET names == <<Card(1), Card(2), Card(3), Card(4), Br, OvsBr>>
    IN  [d \in {Nic(k) : k \in 1..6} |->
            [ns |-> Host, name |-> names[d[2]], idx |-> d[2] + 1, mtu |-> 1500, peer |-> d]]

Phys(link, name) == Netdev("phys", link, name)
Veth(link, name) == Netdev("veth", link, name)
Nobody == <<>>

\* Cards under the other's name, with an MTU; kernel-given and own names.
Swapped == <<[Phys(Card(1), Card(2)) EXCEPT !.mtu = 9000], Phys(Card(2), Card(1))>>
Named2  == <<Veth(Br, AnyEth), [Phys(Card(1), <<"eth", 0>>) EXCEPT !.mtu = 9000]>>
NamedAsOther == <<Phys(Card(1), Card(2))>>
Unnamed == <<Phys(Card(2), NoName)>>
Radio   == <<Phys(Card(3), <<"wlan", 0>>)>>
Paired(br) == <<[Veth(br, NoName) EXCEPT !.pair = <<"vp", 0>>]>>
Proxies == <<Netdev("empty", NoName, Lo), [Netdev("ipvlan", Card(1), NoName) EXCEPT !.mode = "l3s", !.l2proxy = TRUE]>>
Proxies2 == <<Netdev("none", NoName, NoName), [Netdev("macvlan", Card(1), NoName) EXCEPT !.l2proxy = TRUE]>>
Vlan(k) == <<Netdev("vlan", Card(k), NoName)>>

Pick(a, b, root) == [net |-> <<a, b>>, root |-> root, nics |-> Machine]

MCConfigs ==
    {Pick(Swapped, Nobody, {1, 2}), Pick(Named2, Unnamed, {1, 2}), Pick(NamedAsOther, Radio, {1, 2}),
     Pick(Paired(Br), Paired(OvsBr), {1, 2}), Pick(Proxies, Proxies2, {1, 2}),
     Pick(Vlan(1), Vlan(2), {1, 2}),
     Pick(<<Veth(Br, NoName), Veth(Br, NoName)>>, <<Veth(Br, NoName)>>, {}),
     Pick(<<Veth(OvsBr, NoName)>>, <<Netdev("empty", NoName, Lo), Veth(OvsBr, <<"eth", 0>>)>>, {})}

MCUsers == <<[name |-> "u", groups |-> {"g"}], [name |-> "u", groups |-> {"g"}]>>
MCUsernet == <<[name |-> "u", group |-> FALSE, link |-> Br, n |-> 1],
               [name |-> "g", group |-> TRUE, link |-> Br, n |-> 1],
               [name |-> "u", group |-> FALSE, link |-> OvsBr, n |-> 1]>>
=============================================================================
