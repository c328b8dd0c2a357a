----------------------------- MODULE ConfigNet -----------------------------
(***************************************************************************)
(* The keys lxc.net.<index>.<subkey> (confile.c, confile_utils.c): the      *)
(* list of network devices, kept sorted by index, and what the set, get and *)
(* clear callbacks of the subkeys do to one device.                         *)
(***************************************************************************)
EXTENDS ConfigItems

CONSTANTS Interfaces    \* the host's network interfaces a "+" link may match

\* A network key, split by lxc_safe_int64_residual: index and subkey ("" for none).
Indices == {0, 1, 10}
Attributes == {"name", "link", "hwaddr", "mtu", "script.up", "script.down", "ipv4.gateway", "ipv6.gateway",
               "veth.pair", "veth.vlan.id"}
NetLists == {"ipv4.address", "ipv6.address", "veth.ipv4.route", "veth.ipv6.route", "veth.vlan.tagged.id"}
Modes == ("veth.mode" :> <<"none", "bridge", "router">>)
         @@ ("macvlan.mode" :> <<"none", "private", "vepa", "bridge", "passthru">>)
         @@ ("ipvlan.mode" :> <<"l2", "l3", "l3s">>)
         @@ ("ipvlan.isolation" :> <<"bridge", "private", "vepa">>)
Queues == {"veth.n_rxqueues", "veth.n_txqueues"}
config_jump_table_net == Attributes \cup NetLists \cup DOMAIN Modes
                         \cup Queues \cup {"type", "flags", "l2proxy", "vlan.id"}
NetKeys == LET Key(p) == "lxc.net." \o ToString(p[1]) \o (IF p[2] = "" THEN "" ELSE "." \o p[2])
               parts == Indices \X (config_jump_table_net \cup {"", "nope"})
           IN  [k \in {Key(p) : p \in parts} |-> CHOOSE p \in parts : Key(p) = k]
IndexOf(k) == IF k \in DOMAIN NetKeys THEN NetKeys[k][1] ELSE -1
SubkeyOf(k) == NetKeys[k][2]

\* A zeroed device; type 0 is "empty".  "-1" is the type after lxc_clear_netdev.
NewDevice(i) ==
    ("idx" :> i) @@ ("type" :> "empty") @@ ("flags" :> FALSE) @@ ("l2proxy" :> 0) @@ ("vlan.id" :> 0)
    @@ Keys(Attributes \cup NetLists, <<>>) @@ Keys(DOMAIN Modes, 0)
    @@ Keys(Queues, 0)
    @@ Keys({"ipv4.gateway.auto", "ipv4.gateway.dev", "ipv6.gateway.auto", "ipv6.gateway.dev"}, FALSE)
lxc_clear_netdev(d) == [NewDevice(d["idx"]) EXCEPT !["type"] = "-1"]

\* The subkeys that only one type of device has.
TypeNeeded(s) == CASE IsPre("veth.", s)    -> "veth"
                   [] IsPre("macvlan.", s) -> "macvlan"
                   [] IsPre("ipvlan.", s)  -> "ipvlan"
                   [] s = "vlan.id"        -> "vlan"
                   [] OTHER                -> "any"
Fits(s, d) == TypeNeeded(s) \in {"any", d["type"]}

----------------------------------------------------------------------------
(* One device.                                                              *)

Types == {"veth", "macvlan", "ipvlan", "vlan", "phys", "empty", "none"}
\* A new type forgets every attribute.  The modes of veth and macvlan get a
\* default because 0 names no mode of theirs; 0 is the ipvlan mode l2.
set_config_net_type(v, d) ==
    LET e == lxc_clear_netdev(d)
        ModeOf(m, name) == IF Modes[m][1] # "none" THEN 0
                           ELSE (CHOOSE i \in DOMAIN Modes[m] : Modes[m][i] = name) - 1
    IN  CASE v = <<>> -> Ok(e)
          [] v # <<>> /\ v[1] \notin Types -> Fail(e)
          [] OTHER -> Ok([e EXCEPT !["type"] = v[1],
                                   !["name"] = IF v[1] = "empty" THEN <<"lo">> ELSE <<>>,
                                   !["veth.mode"] = IF v[1] = "veth" THEN ModeOf("veth.mode", "bridge") ELSE 0,
                                   !["macvlan.mode"] = IF v[1] = "macvlan" THEN ModeOf("macvlan.mode", "private") ELSE 0,
                                   !["ipvlan.mode"] = IF v[1] = "ipvlan" THEN ModeOf("ipvlan.mode", "l3") ELSE 0])

\* "eth+" on a phys device takes the last matching interface of the host, and
\* like every new type it drops the device's other attributes.
create_matched_ifnames(v, d) ==
    LET hits == SelectSeq(Interfaces, LAMBDA n : IsPre(v[1], n))
    IN  IF hits = <<>> THEN Ok(d)
        ELSE Ok([set_config_net_type(<<"phys">>, d).c EXCEPT !["link"] = <<hits[Len(hits)]>>])
set_config_net_link(v, d) ==
    IF v[Len(v)] = "+" /\ d["type"] = "phys" THEN create_matched_ifnames(v, d)
    ELSE IF v = <<TooLong>> THEN Fail(d) ELSE Ok(Put(d, "link", v))

\* lxc_veth_mode_to_flag and its like: the flag of a mode's name
SetMode(s, v, d) ==
    LET named == {i \in DOMAIN Modes[s] : v = <<Modes[s][i]>> /\ v # <<"none">>}
    IN  IF named = {} THEN Fail(d) ELSE Ok(Put(d, s, (CHOOSE i \in named : TRUE) - 1))

\* Numbers.  Queue counts are positive; VLAN ids have a maximum.
Natural(v) == IsInt(v) /\ ToInt(v) >= 0
BRIDGE_VLAN_ID_MAX == 4094
set_config_net_l2proxy(v, d) == IF Natural(v) /\ ToInt(v) <= 1 THEN Ok(Put(d, "l2proxy", ToInt(v))) ELSE Fail(d)
set_config_net_vlan_id(v, d) == IF Natural(v) THEN Ok(Put(d, "vlan.id", ToInt(v))) ELSE Fail(d)
SetQueues(s, v, d) == IF Natural(v) /\ ToInt(v) > 0 THEN Ok(Put(d, s, ToInt(v))) ELSE Fail(d)
set_config_net_veth_vlan_id(v, d) ==
    IF v = <<"none">> THEN Ok(Put(d, "veth.vlan.id", <<"-1">>))
    ELSE IF Natural(v) /\ ToInt(v) <= BRIDGE_VLAN_ID_MAX THEN Ok(Put(d, "veth.vlan.id", v)) ELSE Fail(d)
set_config_net_veth_vlan_tagged_id(v, d) ==
    IF Natural(v) /\ ToInt(v) <= BRIDGE_VLAN_ID_MAX THEN Ok(Add(d, "veth.vlan.tagged.id", v)) ELSE Fail(d)

\* An address <<addr>> or <<addr, "/", prefix>>; a route must have a prefix.
\* Without one an IPv4 address gets the prefix of its class, an IPv6 one 64.
\* The prefix of an IPv6 address is not compared with a maximum.
Addr4 == {"10.0.0.1", "10.0.0.2"}
Addr6 == {"fd00::1"}
Class4 == 8
AddAddress(s, v, d, addrs, default, max) ==
    LET sized == Len(v) = 3
        prefix == IF sized THEN ToInt(<<v[3]>>) ELSE default
    IN  IF v[1] \notin addrs \/ (sized /\ ~Natural(<<v[3]>>)) \/ prefix = -1 \/ prefix > max
        THEN Fail(d) ELSE Ok(Add(d, s, <<v[1], "/", ToString(prefix)>>))
set_config_net_ipv4_address(v, d) == AddAddress("ipv4.address", v, d, Addr4, Class4, 32)
set_config_net_ipv6_address(v, d) == AddAddress("ipv6.address", v, d, Addr6, 64, Unlimited)
set_config_net_veth_ipv4_route(v, d) == AddAddress("veth.ipv4.route", v, d, Addr4, -1, 32)
set_config_net_veth_ipv6_route(v, d) == AddAddress("veth.ipv6.route", v, d, Addr6, -1, 128)

\* A gateway: "auto", "dev" or an address.  Clearing frees the address only;
\* an address does not end "dev".
SetGateway(s, v, d, addrs) ==
    LET e == Put(d, s, <<>>)
        auto == s \o ".auto"
        dev == s \o ".dev"
    IN  CASE v = <<"auto">>  -> Ok(Put(e, auto, TRUE))
          [] v = <<"dev">>   -> Ok([e EXCEPT ![auto] = FALSE, ![dev] = TRUE])
          [] OTHER           -> IF v[1] \in addrs THEN Ok([e EXCEPT ![s] = v, ![auto] = FALSE]) ELSE Fail(e)
set_config_net_ipv4_gateway(v, d) == SetGateway("ipv4.gateway", v, d, Addr4)
set_config_net_ipv6_gateway(v, d) == SetGateway("ipv6.gateway", v, d, Addr6)

\* An interface name has at most IFNAMSIZ - 1 characters.
network_ifname(s, v, d) == IF v = <<TooLong>> THEN Fail(d) ELSE Ok(Put(d, s, v))

SetNet(s, v, d) ==
    IF ~Fits(s, d) THEN Fail(d)
    ELSE CASE s = "type"            -> set_config_net_type(v, d)
           [] s = "flags"           -> Ok(Put(d, s, TRUE))
           [] s \in {"name", "veth.pair"} -> network_ifname(s, v, d)
           [] s = "link"            -> set_config_net_link(v, d)
           [] s \in DOMAIN Modes    -> SetMode(s, v, d)
           [] s = "l2proxy"         -> set_config_net_l2proxy(v, d)
           [] s = "vlan.id"         -> set_config_net_vlan_id(v, d)
           [] s = "veth.vlan.id"    -> set_config_net_veth_vlan_id(v, d)
           [] s = "veth.vlan.tagged.id" -> set_config_net_veth_vlan_tagged_id(v, d)
           [] s \in Queues          -> SetQueues(s, v, d)
           [] s = "ipv4.address"    -> set_config_net_ipv4_address(v, d)
           [] s = "ipv6.address"    -> set_config_net_ipv6_address(v, d)
           [] s = "veth.ipv4.route" -> set_config_net_veth_ipv4_route(v, d)
           [] s = "veth.ipv6.route" -> set_config_net_veth_ipv6_route(v, d)
           [] s = "ipv4.gateway"    -> set_config_net_ipv4_gateway(v, d)
           [] s = "ipv6.gateway"    -> set_config_net_ipv6_gateway(v, d)
           [] OTHER                 -> Ok(Put(d, s, v))

\* Clearing a subkey of another type of device succeeds and does nothing.
ClrMode(s, d) == Ok(Put(d, s, -1))
ClrAttribute(s, d) == Ok(Put(d, s, <<>>))
ClrAddress(s, d) == Ok(Put(d, s, <<>>))
ClrNet(s, d) ==
    IF ~Fits(s, d) THEN Ok(d)
    ELSE CASE s = "type"            -> Ok(lxc_clear_netdev(d))
           [] s = "flags"           -> Ok(Put(d, s, FALSE))
           [] s \in {"l2proxy", "vlan.id"} -> Ok(Put(d, s, 0))
           [] s \in DOMAIN Modes \cup Queues -> ClrMode(s, d)
           [] s \in Attributes      -> ClrAttribute(s, d)
           [] s \in NetLists        -> ClrAddress(s, d)

GetMode(s, d) == Got(<<IF d[s] + 1 \notin DOMAIN Modes[s] \/ Modes[s][d[s] + 1] = "none"
                       THEN <<"(invalid)">> ELSE <<Modes[s][d[s] + 1]>>>>)
GetQueues(s, d) == Got(IF d[s] > 0 THEN <<Shown(d[s])>> ELSE <<>>)
GetAttribute(s, d) == Got(Line(d[s]))
GetGateway(s, d) == Got(IF d[s \o ".auto"] THEN <<<<"auto">>>> ELSE IF d[s \o ".dev"] THEN <<<<"dev">>>> ELSE Line(d[s]))
GetAddresses(s, d) == Got(d[s])
GetNet(s, d) ==
    IF ~Fits(s, d) THEN NotGot
    ELSE CASE s = "type"            -> Got(<<IF d[s] = "-1" THEN <<Null>> ELSE <<d[s]>>>>)
           [] s = "flags"           -> Got(IF d[s] THEN <<<<"up">>>> ELSE <<>>)
           [] s \in {"l2proxy", "vlan.id"} -> Got(<<Shown(d[s])>>)
           [] s \in DOMAIN Modes    -> GetMode(s, d)
           [] s \in Queues          -> GetQueues(s, d)
           [] s \in {"ipv4.gateway", "ipv6.gateway"} -> GetGateway(s, d)
           [] s \in NetLists        -> GetAddresses(s, d)
           [] OTHER                 -> GetAttribute(s, d)

----------------------------------------------------------------------------
(* The list of devices.                                                     *)

Position(c, i) == {p \in DOMAIN c["netdevs"] : c["netdevs"][p]["idx"] = i}
\* A new device goes before the first one with a larger index.
lxc_get_netdev_by_idx(c, i) ==
    LET devs == c["netdevs"]
        before == SelectSeq(devs, LAMBDA d : d["idx"] < i)
        after == SelectSeq(devs, LAMBDA d : d["idx"] > i)
    IN  IF Position(c, i) # {} THEN c ELSE Put(c, "netdevs", before \o <<NewDevice(i)>> \o after)
lxc_remove_nic_by_idx(c, i) == Put(c, "netdevs", SelectSeq(c["netdevs"], LAMBDA d : d["idx"] # i))
lxc_free_networks(c) == Put(c, "netdevs", <<>>)

\* Run a callback on the device with index i.
OnDevice(c, i, r(_)) ==
    LET p == CHOOSE q \in Position(c, i) : TRUE
        Back(res) == [ok |-> res.ok, c |-> [c EXCEPT !["netdevs"][p] = res.c]]
    IN  Back(r(c["netdevs"][p]))

\* The subkey s of device i.
ClrDevice(i, s, c) ==
    CASE s = "" -> Ok(lxc_remove_nic_by_idx(c, i))
      [] s # "" /\ (Position(c, i) = {} \/ s \notin config_jump_table_net) -> Fail(c)
      [] OTHER -> OnDevice(c, i, LAMBDA d : ClrNet(s, d))
clr_config_jump_table_net(k, c) == IF IndexOf(k) = -1 THEN Fail(c) ELSE ClrDevice(IndexOf(k), SubkeyOf(k), c)

\* The device is created before its subkey is looked up.
SetDevice(i, s, v, c) ==
    IF s \in config_jump_table_net THEN OnDevice(c, i, LAMBDA d : SetNet(s, v, d)) ELSE Fail(c)
set_config_jump_table_net(k, v, c) ==
    IF IndexOf(k) = -1 THEN Fail(c)
    ELSE IF v = <<>> THEN clr_config_jump_table_net(k, c)
    ELSE SetDevice(IndexOf(k), SubkeyOf(k), v, lxc_get_netdev_by_idx(c, IndexOf(k)))

GetDevice(i, s, c) ==
    IF Position(c, i) = {} \/ s \notin config_jump_table_net THEN NotGot
    ELSE GetNet(s, c["netdevs"][CHOOSE p \in Position(c, i) : TRUE])
get_config_jump_table_net(k, c) == IF IndexOf(k) = -1 THEN NotGot ELSE GetDevice(IndexOf(k), SubkeyOf(k), c)

\* The subkeys that get_keys lists for a device.
Always == {"type", "script.up", "script.down"}
NotIfEmpty == {"flags", "link", "name", "hwaddr", "mtu", "ipv6.address", "ipv6.gateway", "ipv4.address", "ipv4.gateway"}
ListedFor == [veth |-> {"veth.pair", "veth.ipv4.route", "veth.ipv6.route", "veth.vlan.id"},
              macvlan |-> {"macvlan.mode"}, ipvlan |-> {"ipvlan.mode", "ipvlan.isolation"}, vlan |-> {"vlan.id"}]
lxc_list_net(d) ==
    Always \cup (IF d["type"] = "empty" THEN {} ELSE NotIfEmpty)
    \cup (IF d["type"] \in DOMAIN ListedFor THEN ListedFor[d["type"]] ELSE {})

set_config_net(v, c) == IF v # <<>> THEN Fail(c) ELSE Ok(lxc_free_networks(c))
get_config_net(c) ==
    Got([p \in DOMAIN c["netdevs"] |-> IF c["netdevs"][p]["type"] = "-1" THEN <<"(invalid)">>
                                       ELSE <<c["netdevs"][p]["type"]>>])
=============================================================================
