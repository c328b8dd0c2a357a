------------------------------ MODULE MCConfig ------------------------------
(***************************************************************************)
(* Families of configuration keys that touch the same fields or the same    *)
(* lines of text, each with values that the callbacks treat differently.    *)
(***************************************************************************)
EXTENDS ConfigFile

MCBuilt == {"seccomp", "apparmor"}
MCEnviron == "HOME" :> "/root"
MCFiles == ("a.conf" :> <<L("lxc.start.auto", <<"1">>), L("lxc.include", <<"b.conf">>)>>)
           @@ ("b.conf" :> <<L("lxc.hook.start", <<"/", "h">>)>>)
           @@ ("bad.conf" :> <<L("lxc.pty.max", <<"4">>), [t |-> "bad", k |-> "lxc.group", v |-> <<>>]>>)
MCDirs == "d" :> <<"README", "b.conf", "a.conf">>
MCInterfaces == <<"eth0", "eth1">>
Each(k, vs) == {<<k, v>> : v \in vs}

MCSamples ==
    ("numbers" :> Each("lxc.start.auto", {<<"1">>, <<"2">>}) \cup Each("lxc.init.uid", {<<"5">>, <<"word">>})
                  \cup Each("lxc.autodev", {<<"0">>, <<>>}) \cup Each("lxc.tty.max", {<<"4">>})
                  \cup Each("lxc.seccomp.allow_nesting", {<<"2">>}) \cup Each("lxc.start.order", {<<"-1">>}))
    @@ ("words" :> Each("lxc.uts.name", {<<"c1">>, <<"long-word">>}) \cup Each("lxc.init.cmd", {<<"'", "a", " ", "b", "'">>, <<"a">>})
                  \cup Each("lxc.mount.fstab", {<<"/", "c1", "/", ".", "/", "f">>, <<"f">>, <<>>})
                  \cup Each("lxc.arch", {<<"x86">>, <<"vax">>}) \cup Each("lxc.monitor.signal.pdeath", {<<"SIGTERM">>}))
    @@ ("log" :> Each("lxc.log.level", {<<"DEBUG">>, <<"loud">>}) \cup Each("lxc.log.file", {<<"/", "l", "/", "/">>, <<"/proc">>})
                  \cup Each("lxc.log.syslog", {<<"daemon">>, <<"x">>}) \cup Each("lxc.console.size", {<<"auto">>, <<"5000">>, <<"1">>})
                  \cup Each("lxc.autodev.tmpfs.size", {<<"4096">>}) \cup Each("lxc.rootfs.options", {<<"ro">>, <<"optional">>}))
    @@ ("rootfs" :> Each("lxc.rootfs.path", {<<"dir", ":", "/", "r", "/">>, <<"/", "q">>}) \cup Each("lxc.rootfs.mount", {<<"/", "m">>})
                  \cup Each("lxc.rootfs.managed", {<<"0">>}) \cup Each("lxc.selinux.context", {<<"c">>})
                  \cup Each("lxc.seccomp.profile", {<<"/", "p">>}) \cup Each("lxc.seccomp.notify.proxy", {<<"unix:", "/s">>})
                  \cup Each("lxc.apparmor.raw", {<<"rule">>}) \cup Each("lxc.cgroup.dir.monitor", {<<"..", "/", "a">>}))
    @@ ("cgroup" :> Each("lxc.cgroup.cpu", {<<"1">>, <<"2">>, <<>>}) \cup Each("lxc.cgroup2.cpu", {<<"1">>})
                  \cup Each("lxc.cgroup", {<<"1">>}) \cup Each("lxc.cgroup.dir", {<<"a", "/", ".", "/", "b">>})
                  \cup Each("lxc.cgroup.dir.container.inner", {<<"i">>, <<"a", "/", "b">>}) \cup Each("lxc.cgroup.relative", {<<"1">>}))
    @@ ("limits" :> Each("lxc.prlimit.nofile", {<<"1">>, <<"1", "unlimited">>, <<"bad">>}) \cup Each("lxc.prlimit", {<<>>})
                  \cup Each("lxc.sysctl.a", {<<"1">>, <<"2">>}) \cup Each("lxc.sysctl.b", {<<"1">>}) \cup Each("lxc.proc.a", {<<"1">>}))
    @@ ("lists" :> Each("lxc.environment", {<<"A", "=", "1">>, <<"HOME">>, <<"PWD">>}) \cup Each("lxc.group", {<<"a", " ", "b">>})
                  \cup Each("lxc.init.groups", {<<"1", " ", "2">>, <<"1", " ", "z">>}) \cup Each("lxc.mount.auto", {<<"proc", " ", "sys:ro">>, <<"cgroup:ro:force">>, <<"sys", " ", "bad">>})
                  \cup Each("lxc.time.offset.boot", {<<"1", "m">>, <<"5", "us">>, <<"5">>}))
    @@ ("hooks" :> Each("lxc.hook.start", {<<"/", "c1", "/", "h">>, <<"/", "c10", "/", "h">>, <<"h">>})
                  \cup Each("lxc.hook.pre-start", {<<"/", "c1", "/", "sub", "/", "h">>, <<>>})
                  \cup Each("lxc.hook.version", {<<"1">>}) \cup Each("lxc.hook", {<<"x">>, <<>>}) \cup Each("lxc.hook.none", {<<"x">>}))
    @@ ("caps" :> Each("lxc.cap.keep", {<<"cap_a">>, <<"none">>, <<"cap_b", " ", "cap_z">>}) \cup Each("lxc.cap.drop", {<<"cap_b">>, <<>>})
                  \cup Each("lxc.namespace.keep", {<<"net", " ", "user">>, <<"net", " ", "bad">>}) \cup Each("lxc.namespace.clone", {<<"user">>, <<>>})
                  \cup Each("lxc.namespace.share.net", {<<"1">>}))
    @@ ("idmap" :> Each("lxc.idmap", {<<"u", " ", "0", " ", "4000", " ", "5">>, <<"u", " ", "1", " ", "5000", " ", "5">>,
                                      <<"g", " ", "0", " ", "4000", " ", "5">>, <<"u", " ", "0">>, <<>>})
                  \cup Each("lxc.mount.entry", {<<"a", " ", "overlay", " ", "upperdir=c1", " ", "workdir=c1">>, <<"overlay", " ", "br=c1">>, <<>>}))
    @@ ("include" :> Each("lxc.include", {<<"a.conf">>, <<"bad.conf">>, <<"none.conf">>, <<"d", "/">>, <<"e", "/">>, <<>>})
                  \cup Each("lxc.hook.start", {<<>>}) \cup Each("lxc.start.auto", {<<"0">>}))
    @@ ("net" :> Each("lxc.net.0.type", {<<"veth">>, <<"empty">>, <<"bogus">>}) \cup Each("lxc.net.0.hwaddr", {<<"x">>, <<"m1">>})
                  \cup Each("lxc.net.1.hwaddr", {<<"m2">>, <<"m1">>}) \cup Each("lxc.net.10.flags", {<<"up">>})
                  \cup Each("lxc.net.0.veth.mode", {<<"router">>, <<"bad">>}) \cup Each("lxc.net.1", {<<>>}) \cup Each("lxc.net.1.nope", {<<"1">>}))
    @@ ("devices" :> Each("lxc.net.0.type", {<<"phys">>, <<"ipvlan">>, <<"vlan">>}) \cup Each("lxc.net.0.link", {<<"eth", "+">>, <<"br0">>})
                  \cup Each("lxc.net.0.ipvlan.mode", {<<"l3s">>}) \cup Each("lxc.net.0.vlan.id", {<<"5">>}) \cup Each("lxc.net.0.mtu", {<<"4000">>})
                  \cup Each("lxc.net.0.ipv4.address", {<<"10.0.0.1">>, <<"10.0.0.1", "/", "33">>}))
    @@ ("addresses" :> Each("lxc.net.0.type", {<<"veth">>, <<"macvlan">>}) \cup Each("lxc.net.0.veth.ipv6.route", {<<"fd00::1", "/", "128">>, <<"fd00::1", "/", "129">>, <<"fd00::1">>})
                  \cup Each("lxc.net.0.ipv6.address", {<<"fd00::1", "/", "129">>}) \cup Each("lxc.net.0.veth.vlan.id", {<<"none">>, <<"5">>, <<"5000">>})
                  \cup Each("lxc.net.0.veth.n_rxqueues", {<<"0">>, <<"2">>}) \cup Each("lxc.net.0.veth.vlan.tagged.id", {<<"5">>}))
    @@ ("gateway" :> Each("lxc.net.0.ipv4.gateway", {<<"auto">>, <<"dev">>, <<"10.0.0.2">>, <<"bad">>, <<>>}) \cup Each("lxc.net.0.name", {<<"n">>, <<"long-word">>})
                  \cup Each("lxc.net", {<<"1">>, <<>>}) \cup Each("lxc.net.0.l2proxy", {<<"1">>, <<"2">>}) \cup Each("lxc.net.0.type", {<<"macvlan">>}))

MCClears == [f \in DOMAIN MCSamples |->
                {kv[1] : kv \in MCSamples[f]} \cup (IF f = "cgroup" THEN {"lxc.cgroup2"} ELSE IF f = "limits" THEN {"lxc.sysctl"} ELSE {})]
Indented(k, v) == [t |-> "indented", k |-> k, v |-> v]
MCDisk == [f \in DOMAIN MCSamples |->
              IF f = "numbers" THEN {<<[t |-> "other", k |-> "", v |-> <<>>], Indented("lxc.start.auto", <<"1">>), L("lxc.autodev", <<" ", "0">>)>>}
              ELSE IF f = "net" THEN {<<L("lxc.net.0.hwaddr", <<"x">>), L("lxc.nothing", <<"1">>)>>}
              ELSE {<<>>}]
MCEdits == [f \in DOMAIN MCSamples |->
               CASE f = "net" -> {"network_new_hwaddrs"} [] f = "hooks" -> {"copyhooks"}
                 [] f = "idmap" -> {"ovl_update_abs_paths"} [] f = "words" -> {"copy_fstab", "define"} [] OTHER -> {}]
=============================================================================
