------------------------------ MODULE Network -------------------------------
(***************************************************************************)
(* The network of containers (network.c): the interfaces a monitor makes   *)
(* or takes for its container, their way into the container's network      *)
(* namespace, the names they get there, and the way back at the end of a   *)
(* run, for several containers on one host, with failures and reboots.     *)
(*                                                                         *)
(* Every container has a monitor (mon), whose struct lxc_conf holds the    *)
(* list of struct lxc_netdev (net), and a child (kid) with its own copy of *)
(* that list, made at the clone and so before the interfaces are.  The two *)
(* exchange names and indices over data_sock (down, up).                   *)
(***************************************************************************)
EXTENDS Integers, UserNic

CONSTANTS Container,   \* 1..n
          Configs,     \* Each [net |-> [Container -> Seq(netdev)], root |-> set of containers].
          Users,       \* [Container -> [name, groups]], the caller of lxc-user-nic.
          OvsBridge,   \* The bridges (names) that belong to Open vSwitch.
          Wlan,        \* The wireless nics.
          Spare,       \* The nics attach_interface is used with.
          MaxRuns,     \* [Container -> Nat], bounds on the runs and on the faults.
          MaxFaults

VARIABLES config,      \* The element of Configs in force.
          dev,         \* The interfaces: NetDev.
          port,        \* Open vSwitch ports [own, name].
          proxy,       \* l2proxy neighbour entries and routes <<c, i, kind>>.
          hook,        \* <<c, i>>: an up script ran and the down script did not yet.
          net, kid, mon, down, up,
          db, lock,    \* The database of lxc-user-nic and who holds its lock (0: nobody).
          faults,
          culled,      \* History: the database was cut; a reboot took another's pair.
          stolen

vars == <<config, dev, port, proxy, hook, net, kid, mon, down, up, db, lock, faults, culled, stolen>>

\* Identities: the nics of the machine, and the two ends made for net i of c.
Nic(k) == <<0, k, "nic">>
HostEnd(c, i) == <<c, i, "host">>
Peer(c, i) == <<c, i, "peer">>
Physical(D) == {d \in DOMAIN D : d[1] = 0}

\* struct lxc_netdev after the configuration was read.
Netdev(type, link, name) ==
    [type |-> type, link |-> link, name |-> name, pair |-> NoName, mode |-> "bridge",
     vlan |-> FALSE, l2proxy |-> FALSE, mtu |-> 0, script |-> TRUE,
     transient |-> NoName, ifindex |-> 0, veth1 |-> NoName, mtu0 |-> 0]

Root(c) == c \in config.root
Advanced(n) == n.type \notin {"empty", "none"}
Bridged(n) == n.link # NoName /\ n.mode = "bridge"
Ovs(n) == n.link \in OvsBridge
HostName(n) == IF n.pair # NoName THEN n.pair ELSE n.veth1
Proxied(n) == n.l2proxy /\ n.link # NoName

(***************************************************************************)
(* What a monitor changes in one call: w holds the interfaces, ports and   *)
(* proxies, the netdev at work, and the outcome.                           *)
(***************************************************************************)
World(n) == [dev |-> dev, port |-> port, proxy |-> proxy, hook |-> hook, n |-> n,
             ok |-> TRUE, fault |-> FALSE]
Fail(w)  == [w EXCEPT !.ok = FALSE]
Fault(w) == [w EXCEPT !.ok = FALSE, !.fault = TRUE]

\* run_script_argv, "up": succeeds, or fails the device.
UpScript(w, c, i) == IF w.n.script THEN [w EXCEPT !.hook = @ \cup {<<c, i>>}] ELSE w

\* lxc_setup_l2proxy: a failure half way leaves what was added.
lxc_setup_l2proxy(w, c, i) ==
    LET kinds == IF w.n.type = "ipvlan" THEN {"neigh", "route"} ELSE {"neigh"}
        add(K) == [w EXCEPT !.proxy = @ \cup ({c} \X {i} \X K)]
    IN  IF if_nametoindex(w.dev, Host, w.n.link) = 0 \/ (w.n.type = "ipvlan" /\ w.n.mode # "l3s")
        THEN {Fail(w)}
        ELSE {add(kinds), Fault(w), Fault(add({"neigh"}))}

validate_veth(n) == n.vlan => Bridged(n)

\* The two ends.  The one on the host has the name of the configured pair, which
\* a reboot deletes first, or a random one; the other is made in the container's
\* namespace, so there will be nothing to move.
VethEnds(w, c, i) ==
    LET paired == w.n.pair # NoName
        host == IF paired THEN w.n.pair ELSE lxc_ifname_alnum_case_sensitive(w.dev, "veth", c, i)
        was  == IF paired /\ mon[c].reboot
                THEN lxc_netdev_delete_by_name(w.dev, Host, host) ELSE w.dev
        v    == [w EXCEPT !.dev = was, !.n.veth1 = IF paired THEN @ ELSE host]
        tmp  == lxc_ifname_alnum_case_sensitive(w.dev, "peer", c, i)
        mtu  == CASE w.n.mtu > 0 -> w.n.mtu
                  [] w.n.mtu = 0 /\ Exists(was, Host, w.n.link) -> was[Named(was, Host, w.n.link)].mtu
                  [] OTHER -> 1500
        ends == Create(Create(was, HostEnd(c, i), Host, host, mtu, Peer(c, i)),
                       Peer(c, i), c, tmp, mtu, HostEnd(c, i))
    IN  IF Exists(was, Host, host) THEN {Fail(v)}
        ELSE {Fault(v), [v EXCEPT !.dev = ends, !.n.ifindex = 0, !.n.transient = tmp]}

\* The host end joins its bridge and its vlans; a port of Open vSwitch whose vlan
\* setup fails is taken back.
setup_veth_ovs_bridge_vlan(w, c, i) ==
    {Fault(w), [w EXCEPT !.port = @ \cup {[own |-> <<c, i>>, name |-> w.dev[HostEnd(c, i)].name]}]}

setup_veth_native_bridge_vlan(w) == {Fault(w), w}

JoinBridge(w, c, i) ==
    IF ~Bridged(w.n) THEN {w}
    ELSE IF ~Exists(w.dev, Host, w.n.link) THEN {Fail(w)}
    ELSE IF Ovs(w.n) THEN setup_veth_ovs_bridge_vlan(w, c, i) ELSE setup_veth_native_bridge_vlan(w)

\* Flags, routes, proxies and the up script: every failure deletes the pair, but
\* a port of Open vSwitch that was added stays.
netdev_configure_server_veth(w, c, i) ==
    LET out_delete(x) == [x EXCEPT !.dev = Delete(@, HostEnd(c, i))]
        set_up(x) == IF x.ok THEN {UpScript(x, c, i), out_delete(Fault(x))} ELSE {out_delete(x)}
        ends == IF validate_veth(w.n) THEN VethEnds(w, c, i) ELSE {Fail(w)}
    IN  UNION {IF e.ok THEN UNION {set_up(x) : x \in JoinBridge(e, c, i)} ELSE {e} : e \in ends}

\* macvlan, ipvlan and vlan interfaces are made on the host, next to their link,
\* and moved later.  A failure deletes what has the name.
SubInterface(w, c, i, name) ==
    LET d    == HostEnd(c, i)
        made == Create(w.dev, d, Host, name, IF w.n.mtu > 0 THEN w.n.mtu ELSE 1500, d)
        done == [w EXCEPT !.dev = made, !.n.ifindex = made[d].idx]
        on_error(x) == Fault([x EXCEPT !.dev = lxc_netdev_delete_by_name(@, Host, name)])
    IN  IF w.n.link = NoName \/ ~Exists(w.dev, Host, w.n.link) \/ Exists(w.dev, Host, name)
        THEN {Fail(w)}
        ELSE {Fault(w), on_error(done), UpScript(done, c, i)}

netdev_configure_server_macvlan(w, c, i) ==
    SubInterface(w, c, i, lxc_ifname_alnum_case_sensitive(w.dev, "mc", c, i))

netdev_configure_server_ipvlan(w, c, i) ==
    SubInterface(w, c, i, lxc_ifname_alnum_case_sensitive(w.dev, "ipvl", c, i))

\* The name of a vlan interface is made of the vlan id (5 here) and a counter of
\* the process that starts at 0: other monitors count for themselves.
netdev_configure_server_vlan(w, c, i) == SubInterface(w, c, i, <<"vlan5", mon[c].vlans>>)

\* A nic is only looked up, and given the configured MTU; no failure undoes that.
netdev_configure_server_phys(w, c, i) ==
    LET d    == Named(w.dev, Host, w.n.link)
        seen == [w EXCEPT !.n.ifindex = w.dev[d].idx, !.n.name = IF @ = NoName THEN w.n.link ELSE @,
                          !.n.mtu0 = w.dev[d].mtu]
        set  == IF w.n.mtu > 0 THEN [seen EXCEPT !.dev[d].mtu = w.n.mtu] ELSE seen
    IN  IF w.n.link = NoName \/ ~Exists(w.dev, Host, w.n.link) THEN {Fail([w EXCEPT !.n.ifindex = 0])}
        ELSE {Fault(seen), Fault(set), UpScript(set, c, i)}

netdev_configure_server_empty(w, c, i) ==
    LET v == [w EXCEPT !.n.ifindex = 1]
    IN  IF w.n.name # Lo THEN {Fail(v)} ELSE {Fault(v), UpScript(v, c, i)}

netdev_configure_server_none(w, c, i) == {[w EXCEPT !.n.ifindex = 0]}

netdev_configure_server(w, c, i) ==
    CASE w.n.type = "veth"    -> netdev_configure_server_veth(w, c, i)
      [] w.n.type = "macvlan" -> netdev_configure_server_macvlan(w, c, i)
      [] w.n.type = "ipvlan"  -> netdev_configure_server_ipvlan(w, c, i)
      [] w.n.type = "vlan"    -> netdev_configure_server_vlan(w, c, i)
      [] w.n.type = "phys"    -> netdev_configure_server_phys(w, c, i)
      [] w.n.type = "empty"   -> netdev_configure_server_empty(w, c, i)
      [] w.n.type = "none"    -> netdev_configure_server_none(w, c, i)

\* One round of lxc_create_network_priv.
lxc_create_network_priv(w, c, i) ==
    UNION {IF v.ok THEN netdev_configure_server(v, c, i) ELSE {v} :
           v \in IF Proxied(w.n) THEN lxc_setup_l2proxy(w, c, i) ELSE {w}}

\* create_transient_name refuses a netdev that still has one.
create_transient_name(w, c, i) ==
    IF w.n.transient # NoName THEN Fail(w)
    ELSE [w EXCEPT !.n.transient = lxc_ifname_alnum_case_sensitive(w.dev, w.n.type, c, i)]

netdev_requires_move(n) == Advanced(n) /\ n.ifindex # 0

\* A wireless nic moves with its phy, under its own name, and is renamed there.
lxc_netdev_move_wlan(w, d, c) ==
    LET there == [w EXCEPT !.dev = MoveTo(@, d, c, w.n.link)]
    IN  IF ~CanMove(w.dev, d, c, w.n.link) THEN {Fail(w)}
        ELSE {Fault(w), Fault(there), [there EXCEPT !.dev = RenameTo(@, d, w.n.transient)]}

\* One round of lxc_network_move_created_netdev_priv.
lxc_network_move_created_netdev_priv(w, c, i) ==
    LET v  == create_transient_name(w, c, i)
        at == Indexed(w.dev, Host, w.n.ifindex)
        d  == CHOOSE x \in at : TRUE
    IN  CASE ~netdev_requires_move(w.n) -> {w}
          [] netdev_requires_move(w.n) /\ (~v.ok \/ at = {}) -> {Fail(v)}
          [] netdev_requires_move(w.n) /\ v.ok /\ at # {} ->
                IF d \in Wlan THEN lxc_netdev_move_wlan(v, d, c)
                ELSE IF CanMove(w.dev, d, c, v.n.transient)
                     THEN {Fault(v), [v EXCEPT !.dev = MoveTo(@, d, c, v.n.transient)]}
                     ELSE {Fail(v)}

\* __netdev_configure_container_common, in the child: from the transient name to
\* the configured one; the child remembers the name it got.
__netdev_configure_container_common(w, c) ==
    LET d    == Named(w.dev, c, w.n.transient)
        want == IF w.n.name = NoName THEN AnyEth ELSE w.n.name
        D    == RenameTo(w.dev, d, want)
        done == [w EXCEPT !.dev = D, !.n.ifindex = D[d].idx, !.n.name = D[d].name, !.n.transient = NoName]
    IN  IF ~Exists(w.dev, c, w.n.transient) \/ ~CanRename(w.dev, d, want) THEN {Fail(w)} ELSE {done}

\* netdev_configure_container and then lxc_network_setup_in_child_namespaces_common:
\* addresses, flags and gateways, any of which can fail.
SetupInChild(w, c) ==
    UNION {{v, Fault(v)} : v \in IF Advanced(w.n) THEN __netdev_configure_container_common(w, c) ELSE {w}}

\* The order of lxc_setup_network_in_child_namespaces: first the devices with a
\* name of their own, then those the kernel names.
SetupOrderPlain(nets) == [k \in DOMAIN nets |-> k]

SetupOrder(nets) ==
    LET all     == [k \in DOMAIN nets |-> k]
        auto(k) == nets[k].name \in {NoName, AnyEth}
    IN  SelectSeq(all, LAMBDA k : ~auto(k)) \o SelectSeq(all, auto)

\* One round of lxc_restore_phys_nics_to_netns: the nic with the index the child
\* reported goes back under its transient name; a wireless one cannot.
lxc_restore_phys_nics_to_netnsByName(w, c) ==
    LET at == Indexed(w.dev, c, w.n.ifindex)
        d  == CHOOSE x \in at : TRUE
    IN  IF w.n.type # "phys" \/ at = {} THEN w
        ELSE IF d \in Wlan \/ ~CanMove(w.dev, d, Host, w.dev[d].name) THEN w
        ELSE [w EXCEPT !.dev = MoveTo(@, d, Host, w.dev[d].name)]

lxc_restore_phys_nics_to_netns(w, c) ==
    LET at == Indexed(w.dev, c, w.n.ifindex)
        d  == CHOOSE x \in at : TRUE
        as == IF w.n.transient = NoName THEN w.dev[d].name ELSE w.n.transient
    IN  IF w.n.type # "phys" \/ at = {} THEN w
        ELSE IF d \in Wlan \/ ~CanMove(w.dev, d, Host, as) THEN w
        ELSE [w EXCEPT !.dev = MoveTo(@, d, Host, as)]

lxc_delete_l2proxy(w, c, i) == [w EXCEPT !.proxy = {p \in @ : <<p[1], p[2]>> # <<c, i>>}]

DownScript(w, c, i) == IF w.n.script THEN [w EXCEPT !.hook = @ \ {<<c, i>>}] ELSE w

clear_ifindices(n) == [n EXCEPT !.ifindex = 0, !.veth1 = NoName, !.transient = NoName]

\* A nic that came back is renamed from its transient name to the link, and gets
\* its old MTU.
ReturnNic(w) ==
    LET d == Named(w.dev, Host, w.n.transient)
    IN  IF ~Exists(w.dev, Host, w.n.transient) \/ ~CanRename(w.dev, d, w.n.link) THEN w
        ELSE [w EXCEPT !.dev = [RenameTo(@, d, w.n.link) EXCEPT ![d].mtu = w.n.mtu0]]

lxc_delete_network_priv(w, c, i) ==
    LET v    == IF Proxied(w.n) THEN lxc_delete_l2proxy(w, c, i) ELSE w
        host == HostName(w.n)
        gone == CASE w.n.type = "phys" -> ReturnNic(v)
                  [] w.n.type = "veth" /\ host # NoName /\ ~Ovs(w.n) ->
                        [v EXCEPT !.dev = lxc_netdev_delete_by_name(@, Host, host)]
                  [] w.n.type = "veth" /\ host # NoName /\ Ovs(w.n) ->
                        [v EXCEPT !.port = {p \in @ : p.name # host}]
                  [] OTHER -> v
    IN  IF w.n.ifindex = 0 THEN {w}
        ELSE {[x EXCEPT !.n = clear_ifindices(@)] : x \in {DownScript(gone, c, i), [w EXCEPT !.fault = TRUE]}}

\* One round of lxc_delete_network_unpriv.  Only an Open vSwitch port needs the
\* helper, which removes it if the database knows the nic.
lxc_delete_network_unpriv(w, c, i) ==
    LET v     == DownScript(w, c, i)
        host  == HostName(w.n)
        known == \E k \in DOMAIN db : db[k].nic = host
        gone  == IF w.n.type = "veth" /\ Ovs(w.n) /\ known
                 THEN [v EXCEPT !.port = {p \in @ : p.name # host}] ELSE v
    IN  IF w.n.ifindex = 0 THEN {w}
        ELSE {[x EXCEPT !.n = [clear_ifindices(@) EXCEPT !.transient = x.n.transient]] :
              x \in {gone, [w EXCEPT !.fault = TRUE]}}

(***************************************************************************)
(* Steps.                                                                  *)
(***************************************************************************)
Nets(c) == DOMAIN net[c]
pc(c) == mon[c].pc
Goto(c, p) == mon' = [mon EXCEPT ![c].pc = p, ![c].i = 1]

\* The monitor's current netdev is worked on with outcome w; a failure goes to
\* out_delete_net of lxc_spawn.
Apply(w, c) ==
    /\ faults + (IF w.fault THEN 1 ELSE 0) <= MaxFaults
    /\ faults' = faults + (IF w.fault THEN 1 ELSE 0)
    /\ dev' = w.dev /\ port' = w.port /\ proxy' = w.proxy /\ hook' = w.hook
    /\ net' = [net EXCEPT ![c][mon[c].i] = w.n]

Advance(w, c) ==
    mon' = [mon EXCEPT ![c].i = IF w.ok THEN @ + 1 ELSE 1, ![c].pc = IF w.ok THEN @ ELSE "undo",
                       ![c].failed = @ \/ ~w.ok,
                       ![c].vlans = IF net[c][mon[c].i].type = "vlan" /\ pc(c) = "create" THEN @ + 1 ELSE @]

Here(c) == World(net[c][mon[c].i])
Helper == <<db, lock, culled, stolen>>
Channel == <<down, up>>

\* A start from outside (with the configuration of the container object, which
\* may or may not be the one the last run used) or as the second half of a reboot.
Start(c) ==
    /\ pc(c) = "idle" /\ mon[c].runs < MaxRuns[c]
    /\ \E fresh \in {FALSE, ~mon[c].rebooting} :
          net' = [net EXCEPT ![c] = IF fresh THEN config.net[c] ELSE @]
    /\ kid' = [kid EXCEPT ![c] = [pc |-> "recv", net |-> net'[c], todo |-> <<>>]]
    /\ down' = [down EXCEPT ![c] = <<>>] /\ up' = [up EXCEPT ![c] = <<>>]
    /\ mon' = [mon EXCEPT ![c] = [pc |-> "create", i |-> 1, runs |-> @.runs + 1, vlans |-> 0,
                                  reboot |-> @.rebooting, rebooting |-> FALSE, ran |-> FALSE,
                                  failed |-> @.failed, renamed |-> FALSE, owner |-> "", len |-> 0]]
    /\ UNCHANGED <<config, dev, port, proxy, hook, faults, Helper>>

\* lxc_create_network of a privileged monitor.
CreateNetwork(c) ==
    /\ pc(c) = "create" /\ Root(c) /\ mon[c].i \in Nets(c)
    /\ \E w \in lxc_create_network_priv(Here(c), c, mon[c].i) : Apply(w, c) /\ Advance(w, c)
    /\ stolen' = (stolen \/ (mon[c].reboot /\ \E d \in DOMAIN dev \ DOMAIN dev' : d[1] # c))
    /\ UNCHANGED <<config, kid, Channel, db, lock, culled>>

MoveNetwork(c) ==
    /\ pc(c) = "move" /\ mon[c].i \in Nets(c)
    /\ \E w \in lxc_network_move_created_netdev_priv(Here(c), c, mon[c].i) : Apply(w, c) /\ Advance(w, c)
    /\ UNCHANGED <<config, kid, Channel, Helper>>

\* The end of a loop over the netdevs.
NextPhase(c) ==
    /\ mon[c].i \notin Nets(c)
    /\ \/ pc(c) = "create" /\ Goto(c, IF Root(c) THEN "move" ELSE "send")
       \/ pc(c) = "move" /\ Goto(c, "send")
       \/ pc(c) = "restore" /\ Goto(c, "delete")
    /\ UNCHANGED <<config, dev, port, proxy, hook, net, kid, faults, Channel, Helper>>

\* lxc_create_network of an unprivileged monitor: only veth, through the helper.
CreateUnpriv(c) ==
    /\ pc(c) = "create" /\ ~Root(c) /\ mon[c].i \in Nets(c)
    /\ LET n == net[c][mon[c].i] IN
       mon' = [mon EXCEPT ![c].pc = CASE ~Advanced(n) -> "create" [] n.type = "veth" -> "nic_lock" [] OTHER -> "undo",
                          ![c].i = CASE ~Advanced(n) -> @ + 1 [] n.type = "veth" -> @ [] OTHER -> 1,
                          ![c].failed = @ \/ (Advanced(n) /\ n.type # "veth")]
    /\ UNCHANGED <<config, dev, port, proxy, hook, net, kid, faults, Channel, Helper>>

\* The helper gives up: lxc_create_network_unpriv_exec fails.
NicFails(c) == mon' = [mon EXCEPT ![c].pc = "undo", ![c].i = 1, ![c].failed = TRUE]

Alloted(c) == get_alloted(Users[c].name, Users[c].groups, net[c][mon[c].i].link)

\* open_and_lock, and the allotments of the caller.
NicLockFree(c) ==
    /\ pc(c) = "nic_lock"
    /\ LET a == Alloted(c) IN
       IF a.crash \/ Allowed(a.names) <= 0 THEN NicFails(c) /\ UNCHANGED lock
       ELSE mon' = [mon EXCEPT ![c].pc = "nic_count"] /\ UNCHANGED lock
    /\ UNCHANGED <<config, dev, port, proxy, hook, net, kid, faults, Channel, db, culled, stolen>>

NicLock(c) ==
    /\ pc(c) = "nic_lock" /\ lock = 0
    /\ LET a == Alloted(c) IN
       IF a.crash \/ Allowed(a.names) <= 0 THEN NicFails(c) /\ UNCHANGED lock
       ELSE mon' = [mon EXCEPT ![c].pc = "nic_count"] /\ lock' = c
    /\ UNCHANGED <<config, dev, port, proxy, hook, net, kid, faults, Channel, db, culled, stolen>>

NicCount(c) ==
    /\ pc(c) = "nic_count"
    /\ LET names == Alloted(c).names
           left  == Culled(db, dev, names)
           who   == Owners(left, names)
       IN  /\ db' = left
           /\ culled' = (culled \/ left # db)
           /\ IF who = {} THEN NicFails(c) /\ lock' = (IF lock = c THEN 0 ELSE lock)
              ELSE \E o \in who :
                      /\ mon' = [mon EXCEPT ![c].pc = "nic_make", ![c].owner = o, ![c].len = Len(left)]
                      /\ UNCHANGED lock
    /\ UNCHANGED <<config, dev, port, proxy, hook, net, kid, faults, Channel, stolen>>

\* create_nic and the new line; then the lock goes.  A pair whose hardware
\* address or flag could not be set is left behind; a line that cannot be
\* written costs the nic.
NicMake(c) ==
    LET i    == mon[c].i
        n    == net[c][i]
        host == lxc_ifname_alnum_case_sensitive(dev, "veth", c, i)
        made == Create(Create(dev, HostEnd(c, i), Host, host, 1500, Peer(c, i)),
                       Peer(c, i), c, <<"nicp", 10 * c + i>>, 1500, HostEnd(c, i))
        p    == IF Ovs(n) THEN port \cup {[own |-> <<c, i>>, name |-> host]} ELSE port
        line == [owner |-> mon[c].owner, link |-> n.link, nic |-> host]
    IN  /\ pc(c) = "nic_make"
        /\ lock' = IF lock = c THEN 0 ELSE lock
        /\ \/ /\ dev' = made /\ port' = p
              /\ db' = Append_entry(db, mon[c].len, line)
              /\ mon' = [mon EXCEPT ![c].pc = "nic_rename"]
              /\ UNCHANGED faults
           \/ /\ faults < MaxFaults /\ faults' = faults + 1
              /\ dev' \in {dev, made} /\ UNCHANGED db
              /\ port' \in {port, p}
              /\ NicFails(c)
        /\ UNCHANGED <<config, proxy, hook, net, kid, Channel, culled, stolen>>

\* lxc_secure_rename_in_ns, the output line, and what the monitor reads from it.
NicRename(c) ==
    LET i == mon[c].i
        n == net[c][i]
        d == Peer(c, i)
        D == RenameTo(dev, d, IF n.name = NoName THEN AnyEth ELSE n.name)
    IN  /\ pc(c) = "nic_rename"
        /\ \/ /\ CanRename(dev, d, n.name)
              /\ dev' = D
              /\ net' = [net EXCEPT ![c][i] = [@ EXCEPT !.name = D[d].name, !.transient = D[d].name,
                                                         !.ifindex = D[d].idx,
                                                         !.veth1 = dev[HostEnd(c, i)].name]]
              /\ hook' = IF n.script THEN hook \cup {<<c, i>>} ELSE hook
              /\ mon' = [mon EXCEPT ![c].pc = "create", ![c].i = @ + 1]
              /\ UNCHANGED faults
           \/ /\ ~CanRename(dev, d, n.name) /\ NicFails(c)
              /\ UNCHANGED <<dev, net, hook, faults>>
           \/ /\ faults < MaxFaults /\ faults' = faults + 1
              /\ NicFails(c)
              /\ UNCHANGED <<dev, net, hook>>
        /\ UNCHANGED <<config, port, proxy, kid, Channel, Helper>>

\* lxc_network_send_to_child.
SendToChild(c) ==
    /\ pc(c) = "send"
    /\ down' = [down EXCEPT ![c] = SelectSeq(net[c], Advanced)]
    /\ Goto(c, "wait")
    /\ UNCHANGED <<config, dev, port, proxy, hook, net, kid, faults, up, Helper>>

\* lxc_network_recv_from_parent: the k-th message is for the k-th netdev that
\* has anything to set up.
RecvFromParent(nets, msgs) ==
    LET rank(k) == Cardinality({x \in 1..k : Advanced(nets[x])})
    IN  [k \in DOMAIN nets |->
            IF Advanced(nets[k])
            THEN [nets[k] EXCEPT !.name = msgs[rank(k)].name, !.transient = msgs[rank(k)].transient]
            ELSE nets[k]]

KidReceives(c) ==
    /\ kid[c].pc = "recv" /\ pc(c) = "wait"
    /\ LET nets == RecvFromParent(kid[c].net, down[c]) IN
       kid' = [kid EXCEPT ![c] = [pc |-> "setup", net |-> nets, todo |-> SetupOrder(nets)]]
    /\ UNCHANGED <<config, dev, port, proxy, hook, net, mon, faults, Channel, Helper>>

\* One device of lxc_setup_network_in_child_namespaces.
KidSetsUp(c) ==
    /\ kid[c].pc = "setup" /\ kid[c].todo # <<>>
    /\ LET k == Head(kid[c].todo) IN
       \E w \in SetupInChild(World(kid[c].net[k]), c) :
          /\ faults + (IF w.fault THEN 1 ELSE 0) <= MaxFaults
          /\ faults' = faults + (IF w.fault THEN 1 ELSE 0)
          /\ dev' = w.dev
          /\ kid' = [kid EXCEPT ![c] = [pc |-> IF w.ok THEN "setup" ELSE "failed",
                                        net |-> [@.net EXCEPT ![k] = w.n], todo |-> Tail(@.todo)]]
    /\ UNCHANGED <<config, port, proxy, hook, net, mon, Channel, Helper>>

\* lxc_network_send_name_and_ifindex_to_parent: all netdevs, if privileged.
KidReports(c) ==
    /\ kid[c].pc = "setup" /\ kid[c].todo = <<>>
    /\ up' = [up EXCEPT ![c] = IF Root(c) THEN kid[c].net ELSE <<>>]
    /\ kid' = [kid EXCEPT ![c].pc = "reported"]
    /\ UNCHANGED <<config, dev, port, proxy, hook, net, mon, faults, down, Helper>>

RecvFromChild(c) ==
    /\ pc(c) = "wait" /\ kid[c].pc = "reported"
    /\ net' = [net EXCEPT ![c] =
                  [k \in Nets(c) |-> IF Root(c) THEN [@[k] EXCEPT !.name = up[c][k].name, !.ifindex = up[c][k].ifindex]
                                     ELSE @[k]]]
    /\ mon' = [mon EXCEPT ![c].pc = "running", ![c].ran = TRUE, ![c].reboot = FALSE]
    /\ UNCHANGED <<config, dev, port, proxy, hook, kid, faults, Channel, Helper>>

\* The start fails for another reason, or the child reports failure: lxc_spawn
\* goes to out_delete_net.
SpawnFails(c) ==
    /\ pc(c) \in {"create", "move", "send", "wait"}
    /\ \/ kid[c].pc = "failed" /\ UNCHANGED faults
       \/ faults < MaxFaults /\ faults' = faults + 1
    /\ NicFails(c)
    /\ UNCHANGED <<config, dev, port, proxy, hook, net, kid, Channel, Helper>>

(***************************************************************************)
(* A running container: its own root may rename interfaces; the API moves  *)
(* a spare nic in (lxcapi_attach_interface) and out again.                 *)
(***************************************************************************)
RenameInside(c) ==
    /\ pc(c) = "running" /\ ~mon[c].renamed
    /\ \E d \in In(dev, c) : dev' = RenameTo(dev, d, <<"wan", 0>>)
    /\ mon' = [mon EXCEPT ![c].renamed = TRUE]
    /\ UNCHANGED <<config, port, proxy, hook, net, kid, faults, Channel, Helper>>

lxcapi_attach_interface(c, d, dst) ==
    /\ pc(c) = "running" /\ ~mon[c].renamed
    /\ d \in In(dev, Host) /\ CanMove(dev, d, c, dst)
    /\ dev' = MoveTo(dev, d, c, dst)
    /\ mon' = [mon EXCEPT ![c].renamed = TRUE]
    /\ UNCHANGED <<config, port, proxy, hook, net, kid, faults, Channel, Helper>>

lxcapi_detach_interface(c, d, dst) ==
    /\ pc(c) = "running"
    /\ d \in In(dev, c) /\ CanMove(dev, d, Host, dst)
    /\ dev' = MoveTo(dev, d, Host, dst)
    /\ UNCHANGED <<config, port, proxy, hook, net, kid, mon, faults, Channel, Helper>>

InitExits(c) ==
    /\ pc(c) = "running"
    /\ \E again \in {FALSE, mon[c].runs < MaxRuns[c]} :
          mon' = [mon EXCEPT ![c].pc = "restore", ![c].i = 1, ![c].rebooting = again]
    /\ UNCHANGED <<config, dev, port, proxy, hook, net, kid, faults, Channel, Helper>>

\* lxc_restore_phys_nics_to_netns; the namespaces may be out of its reach, and an
\* unprivileged monitor does not try.
RestoreNics(c) ==
    /\ pc(c) = "restore" /\ mon[c].i \in Nets(c)
    /\ \/ LET w == IF Root(c) THEN lxc_restore_phys_nics_to_netns(Here(c), c) ELSE Here(c)
          IN  Apply(w, c) /\ Advance(w, c)
       \/ /\ faults < MaxFaults /\ faults' = faults + 1
          /\ Goto(c, "delete")
          /\ UNCHANGED <<dev, port, proxy, hook, net>>
    /\ UNCHANGED <<config, kid, Channel, Helper>>

\* lxc_delete_network, after a run and after a failed start.
DeleteNetwork(c) ==
    /\ pc(c) \in {"delete", "undo"} /\ mon[c].i \in Nets(c) /\ Root(c)
    /\ \E w \in lxc_delete_network_priv(Here(c), c, mon[c].i) : Apply(w, c) /\ Advance(w, c)
    /\ UNCHANGED <<config, kid, Channel, Helper>>

DeleteUnpriv(c) ==
    /\ pc(c) \in {"delete", "undo"} /\ mon[c].i \in Nets(c) /\ ~Root(c)
    /\ \E w \in lxc_delete_network_unpriv(Here(c), c, mon[c].i) : Apply(w, c) /\ Advance(w, c)
    /\ LET n == net[c][mon[c].i] IN
       IF n.ifindex # 0 /\ n.type = "veth" /\ Ovs(n)
       THEN /\ lock = 0
            /\ db' = Culled(db, dev, Alloted(c).names)
            /\ culled' = (culled \/ db' # db)
       ELSE UNCHANGED <<db, culled>>
    /\ UNCHANGED <<config, kid, Channel, lock, stolen>>

\* lxc_abort and lxc_end: the child is gone, and with the descriptor the monitor
\* held, the namespace.
End(c) ==
    /\ pc(c) \in {"delete", "undo"} /\ mon[c].i \notin Nets(c)
    /\ dev' = Cleanup(dev, c, Physical(dev))
    /\ kid' = [kid EXCEPT ![c] = [pc |-> "none", net |-> <<>>, todo |-> <<>>]]
    /\ Goto(c, "idle")
    /\ UNCHANGED <<config, port, proxy, hook, net, faults, Channel, Helper>>

Init ==
    /\ config \in Configs
    /\ dev = config.nics
    /\ port = {} /\ proxy = {} /\ hook = {}
    /\ net = config.net
    /\ kid = [c \in Container |-> [pc |-> "none", net |-> <<>>, todo |-> <<>>]]
    /\ mon = [c \in Container |-> [pc |-> "idle", i |-> 1, runs |-> 0, vlans |-> 0, reboot |-> FALSE,
                                   rebooting |-> FALSE, ran |-> FALSE, failed |-> FALSE,
                                   renamed |-> FALSE, owner |-> "", len |-> 0]]
    /\ down = [c \in Container |-> <<>>] /\ up = [c \in Container |-> <<>>]
    /\ db = <<>> /\ lock = 0 /\ faults = 0 /\ culled = FALSE /\ stolen = FALSE

Next ==
    \E c \in Container :
        \/ Start(c) \/ CreateNetwork(c) \/ MoveNetwork(c) \/ NextPhase(c) \/ SendToChild(c)
        \/ CreateUnpriv(c) \/ NicLock(c) \/ NicCount(c) \/ NicMake(c) \/ NicRename(c)
        \/ KidReceives(c) \/ KidSetsUp(c) \/ KidReports(c) \/ RecvFromChild(c) \/ SpawnFails(c)
        \/ RenameInside(c) \/ InitExits(c) \/ RestoreNics(c)
        \/ DeleteNetwork(c) \/ DeleteUnpriv(c) \/ End(c)
        \/ \E d \in Spare : \/ lxcapi_attach_interface(c, d, <<"eth", 1>>)
                            \/ lxcapi_detach_interface(c, d, <<"spare", 0>>)

Spec == Init /\ [][Next]_vars

(***************************************************************************)
(* Properties.                                                             *)
(***************************************************************************)
\* The interface that net i of c is about, and the nic behind a phys one.
NicOf(link) == CHOOSE d \in DOMAIN config.nics : config.nics[d].name = link
Interface(c, i) ==
    CASE net[c][i].type = "phys" -> NicOf(net[c][i].link)
      [] net[c][i].type = "veth" -> Peer(c, i)
      [] OTHER -> HostEnd(c, i)

\* A run of c ends in this step; it got as far as RUNNING, nothing failed in the
\* history, and no earlier start of c was given up half way.
CleanEnd(c) == pc(c) = "delete" /\ mon'[c].pc = "idle" /\ mon[c].ran /\ ~mon[c].failed /\ faults = 0

\* After a run every nic that was lent to the container is back on the host with
\* the name and the MTU it had, whatever the container called it and whatever
\* else holds names on either side.  (A wireless nic is not: it cannot be moved
\* by index.)
NicsComeHome ==
    \A c \in Container : CleanEnd(c) =>
        \A i \in Nets(c) : net[c][i].type = "phys" /\ NicOf(net[c][i].link) \notin Wlan =>
            LET d == NicOf(net[c][i].link)
            IN  /\ dev'[d].ns = Host
                /\ dev'[d].name = config.nics[d].name /\ dev'[d].mtu = config.nics[d].mtu

\* After a run nothing the monitor put on the host for it is left: no interface,
\* no switch port, no neighbour proxy, and each up script was answered by a down
\* script.  (Not covered: the scripts of the loopback-only network "empty", for
\* which the code runs no down script, and the port of a nic whose database line
\* was cut away.)
NothingStays ==
    \A c \in Container : CleanEnd(c) =>
        /\ \A d \in DOMAIN dev' : d[1] # c
        /\ culled \/ \A p \in port' : p.own[1] # c
        /\ \A p \in proxy' : p[1] # c
        /\ \A h \in hook' : h[1] = c => net[c][h[2]].type = "empty"

\* A monitor deletes no interface that belongs to another container, although it
\* deletes by name and two containers may be configured with the same veth pair
\* name.  (A reboot begins with such a deletion, and after
\* it the names no longer tell whose a pair is.)
OthersUntouched ==
    \A d \in DOMAIN dev \ DOMAIN dev' : mon'[d[1]] # mon[d[1]] \/ stolen'

\* A run leaves the host as it found it, and what others have alone
\* (lxc_restore_phys_nics_to_netns, lxc_delete_network).
CleanAfterRun == [][NicsComeHome /\ NothingStays /\ OthersUntouched]_vars

\* While a container runs, what the monitor recorded about each interface is
\* what the kernel has in the container's namespace: the index is that of the
\* interface made for that network, and so is the name unless the container
\* changed it; a name that was asked for was granted.  (A veth pair may be gone,
\* taken by the reboot of another container that has the same pair name; and
\* after a start that failed a nic may be found under another name, since then
\* only the kernel brings it back.)
InterfacesMatch ==
    \A c \in Container : pc(c) = "running" =>
        \A i \in Nets(c) : Advanced(net[c][i]) /\ (net[c][i].type = "phys" => faults = 0) =>
            LET d == Interface(c, i)
            IN  \/ d \notin DOMAIN dev /\ net[c][i].pair # NoName /\ stolen
                \/ /\ d \in DOMAIN dev /\ dev[d].ns = c /\ dev[d].idx = net[c][i].ifindex
                   /\ ~mon[c].renamed => dev[d].name = net[c][i].name
                   /\ config.net[c][i].name \notin {NoName, AnyEth} => net[c][i].name = config.net[c][i].name

\* What can stand in the way of a start that has no fault of its own: a nic that
\* is not where the configuration says, a name another container holds on the
\* host, an allotment that is used up.
Blocked(c) ==
    \E i \in Nets(c) :
        LET n == net[c][i] IN
        \/ /\ n.type \in {"phys", "macvlan", "ipvlan", "vlan"} /\ ~Exists(dev, Host, n.link)
           /\ dev[NicOf(n.link)].ns # c
        \/ n.type = "veth" /\ Root(c) /\ \E d \in In(dev, Host) : dev[d].name = n.pair /\ d # HostEnd(c, i)
        \/ n.type = "vlan" /\ Exists(dev, Host, <<"vlan5", mon[c].vlans>>)
        \/ ~Root(c) /\ pc(c) \in {"nic_lock", "nic_count"}

\* A start only fails because something was in the way or a step of it failed:
\* never because of what an earlier run of the same container left behind in the
\* configuration it reuses, nor because of the order of the configured networks.
StartsAgain ==
    [][\A c \in Container :
          pc(c) # "undo" /\ mon'[c].pc = "undo" => faults' > 0 \/ stolen \/ Blocked(c)]_vars

\* As long as every nic the helper handed out still existed when the database
\* was culled, each of them is recorded once, under an allotment with room: two
\* helpers that run at the same time do not lose each other's entries, and the
\* nics a name holds stay within what lxc-usernet allots to it.
HandedOut == {<<c, i>> \in Container \X (1..3) :
                 ~Root(c) /\ i \in Nets(c) /\ net[c][i].veth1 # NoName /\ HostEnd(c, i) \in DOMAIN dev}

NicsRecorded ==
    ~culled =>
        /\ \A h \in HandedOut : Cardinality({k \in DOMAIN db : db[k].nic = net[h[1]][h[2]].veth1}) = 1
        /\ \A k \in DOMAIN Usernet : 
             Cardinality({x \in Owned(db, Usernet[k].name) : db[x].link = Usernet[k].link}) <= Usernet[k].n

\* What is written down about interfaces is so: by the monitors in their
\* configurations, by the helper in its database.
RecordsMatch == InterfacesMatch /\ NicsRecorded
=============================================================================
