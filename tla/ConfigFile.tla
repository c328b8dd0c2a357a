----------------------------- MODULE ConfigFile -----------------------------
(***************************************************************************)
(* A container's configuration twice over: parsed in memory (conf) and as   *)
(* the text that save_config writes (unexp, the "unexpanded config").  API   *)
(* calls change both, loading a file builds both, and cloning edits both.   *)
(* After a save the next process knows only the text.                       *)
(***************************************************************************)
EXTENDS ConfigNet

CONSTANTS Dirs,       \* directories lxc.include can name, with the files in readdir's order
          Samples,    \* for every family of keys: the <<key, value>> pairs callers set
          Clears,     \* for every family: the keys callers clear
          Disk,       \* for every family: the files a container may start from
          Edits,      \* for every family: the clone edits that touch its keys
          MaxCalls    \* bound on the number of calls

VARIABLES family,     \* which keys this container's callers use
          conf,       \* struct lxc_conf
          unexp,      \* unexpanded_config: a sequence of lines
          file,       \* the configuration file
          call,       \* the last call: [op, k, v, ok]
          calls       \* how many there were
vars == <<family, conf, unexp, file, call, calls>>

\* A line "k = v"; "indented" ones start with a blank, "bad" ones have no "=",
\* "other" stands for comments, empty lines and options that are not lxc's.
L(k, v) == [t |-> "set", k |-> k, v |-> v]

----------------------------------------------------------------------------
(* Reading.                                                                 *)

Trim(v) ==
    LET full == {i \in DOMAIN v : v[i] # " "}
    IN  IF full = {} THEN <<>>
        ELSE SubSeq(v, CHOOSE i \in full : \A j \in full : i <= j, CHOOSE i \in full : \A j \in full : i >= j)
\* A value in matching quotes loses them.
ReadValue(v) ==
    LET t == Trim(v)
    IN  IF Len(t) > 1 /\ t[1] \in {"'", "\""} /\ t[Len(t)] = t[1] THEN SubSeq(t, 2, Len(t) - 1) ELSE t

lxc_config_net_is_hwaddr(k) == IndexOf(k) # -1 /\ SubkeyOf(k) = "hwaddr"
\* rand_complete_hwaddr: r for every "x" of an address
rand_complete_hwaddr(k, v, r) ==
    IF lxc_config_net_is_hwaddr(k) THEN [i \in DOMAIN v |-> IF v[i] = "x" THEN r ELSE v[i]] ELSE v

\* Every key a caller or a file uses, with the entry it is dispatched to.
LinesKeys(lines) == {lines[i].k : i \in DOMAIN lines}
AllKeys == UNION ({{kv[1] : kv \in Samples[f]} \cup Clears[f] : f \in DOMAIN Samples}
                  \cup {LinesKeys(Files[f]) : f \in DOMAIN Files} \cup {LinesKeys(d) : d \in UNION {Disk[f] : f \in DOMAIN Disk}})
Entry == [k \in AllKeys |-> lxc_get_config(k)]

\* do_includedir reads names that end in .conf
IsConf(f) == Len(f) > 5 /\ SubSeq(f, Len(f) - 4, Len(f)) = ".conf"
RECURSIVE SetBy(_, _, _, _), ReadLines(_, _)
\* config->set of the entry that the key is dispatched to
SetBy(e, k, v, c) ==
    CASE e \in DOMAIN Scalars            -> SetScalar(k, v, c)
      [] e \in Hooks \cup {"lxc.hook"}   -> set_config_hooks(k, v, c)
      [] e = "lxc.group"                 -> set_config_group(v, c)
      [] e = "lxc.init.groups"           -> set_config_init_groups(v, c)
      [] e \in EnvKeys                   -> set_config_environment_impl(k, v, c)
      [] e = "lxc.apparmor.raw"          -> set_config_apparmor_raw(v, c)
      [] e = "lxc.mount.entry"           -> set_config_mount(v, c)
      [] e \in {"lxc.cgroup", "lxc.cgroup2"} -> __set_config_cgroup_controller(e, k, v, c)
      [] e = "lxc.proc"                  -> set_config_proc(k, v, c)
      [] e = "lxc.sysctl"                -> set_config_sysctl(k, v, c)
      [] e = "lxc.prlimit"               -> set_config_prlimit(k, v, c)
      [] e = "lxc.idmap"                 -> set_config_idmaps(v, c)
      [] e = "lxc.mount.auto"            -> set_config_mount_auto(v, c)
      [] e = "lxc.cap.keep"              -> set_config_cap_keep(v, c)
      [] e = "lxc.cap.drop"              -> set_config_cap_drop(v, c)
      [] e = "lxc.namespace.clone"       -> set_config_namespace_clone(v, c)
      [] e = "lxc.namespace.keep"        -> set_config_namespace_keep(v, c)
      [] e = "lxc.namespace.share."      -> set_config_namespace_share(k, v, c)
      [] e = "lxc.time.offset.boot"      -> set_config_time_offset_boot(v, c)
      [] e = "lxc.time.offset.monotonic" -> set_config_time_offset_monotonic(v, c)
      [] e = "lxc.rootfs.path"           -> set_config_rootfs_path(v, c)
      [] e = "lxc.net."                  -> set_config_jump_table_net(k, v, c)
      [] e = "lxc.net"                   -> set_config_net(v, c)
      [] e = "lxc.include" /\ v = <<>>   -> Ok(c)
      \* do_includedir: only *.conf; a directory that is missing is no error
      [] e = "lxc.include" /\ v # <<>> /\ v[Len(v)] = "/" ->
            LET names == IF v[1] \in DOMAIN Dirs THEN SelectSeq(Dirs[v[1]], IsConf) ELSE <<>>
            IN  FoldLeft(LAMBDA r, f : IF r.ok THEN ReadLines(Files[f], r.c) ELSE r, Ok(c), names)
      [] e = "lxc.include" /\ v # <<>> /\ v[Len(v)] # "/" ->
            IF v[1] \in DOMAIN Files THEN ReadLines(Files[v[1]], c) ELSE Fail(c)
      [] e = Unsupported -> Fail(c)
Set(k, v, c) == SetBy(Entry[k], k, v, c)

\* parse_line for one line of text
parse_line(l, c) ==
    CASE l.t = "other" -> Ok(c)
      [] l.t = "bad"   -> Fail(c)
      [] OTHER         -> Set(l.k, ReadValue(l.v), c)
\* lxc_config_read: the first line that fails ends it
ReadLines(lines, c) == FoldLeft(LAMBDA r, l : IF r.ok THEN parse_line(l, r.c) ELSE r, Ok(c), lines)

Clr(k, c) ==
    IF Entry[k] \in DOMAIN Scalars THEN ClrScalar(k, c)
    ELSE IF Entry[k] = "lxc.include" THEN Ok(c)
    ELSE IF Entry[k] = "lxc.net." THEN clr_config_jump_table_net(k, c) ELSE Set(k, <<>>, c)

GetBy(e, k, c) ==
    CASE e \in DOMAIN Scalars    -> GetScalar(k, c)
      [] e \in Hooks \cup {"lxc.hook"} -> get_config_hooks(k, c)
      [] e \in EnvKeys \cup {"lxc.mount.entry"} -> get_config_environment_impl(k, c)
      [] e = "lxc.apparmor.raw"  -> get_config_apparmor_raw(c)
      [] e = "lxc.init.groups"   -> get_config_init_groups(c)
      [] e = "lxc.group"         -> get_config_group(c)
      [] e \in {"lxc.cgroup", "lxc.cgroup2"} -> __get_config_cgroup_controller(e, k, c)
      [] e = "lxc.prlimit"       -> get_config_prlimit(k, c)
      [] e = "lxc.sysctl"        -> get_config_sysctl(k, c)
      [] e = "lxc.proc"          -> get_config_proc(k, c)
      [] e = "lxc.idmap"         -> get_config_idmaps(c)
      [] e = "lxc.rootfs.path"   -> lxc_get_conf_str(c[e])
      [] e = "lxc.mount.auto"    -> get_config_mount_auto(c)
      [] e \in {"lxc.cap.keep", "lxc.cap.drop"} -> GetCaps(c)
      [] e = "lxc.namespace.clone" -> GetNamespaces(c["ns_clone"])
      [] e = "lxc.namespace.keep"  -> GetNamespaces(c["ns_keep"])
      [] e = "lxc.namespace.share." -> get_config_namespace_share(k, c)
      [] e \in {"lxc.time.offset.boot", "lxc.time.offset.monotonic"} -> GetOffset(c[e])
      [] e = "lxc.net."          -> get_config_jump_table_net(k, c)
      [] e = "lxc.net"           -> get_config_net(c)
      [] OTHER                   -> NotGot
Get(k, c) == GetBy(Entry[k], k, c)

----------------------------------------------------------------------------
(* The text.                                                                *)

\* Lines are found by the start of the line, so an indented one never is.
clear_unexp_config_line(lines, k, rm_subkeys) ==
    SelectSeq(lines, LAMBDA l : ~( /\ l.t \in {"set", "bad"}
                                   /\ IF rm_subkeys THEN IsPre(k, l.k) ELSE l.k = k))
WithSubkeys(k) == k \in {"lxc.cgroup", "lxc.network", "lxc.net", "lxc.hook"} \/ (IndexOf(k) # -1 /\ SubkeyOf(k) = "")
\* Mutant: only lines of exactly the cleared key go.
do_clear_unexp_config_lineExact(lines, k) == clear_unexp_config_line(lines, k, FALSE)
do_clear_unexp_config_line(lines, k) == clear_unexp_config_line(lines, k, WithSubkeys(k))
do_append_unexp_config_line(lines, k, v) == Append(lines, L(k, v))

Rands == {"r1", "r2"}
Called(op, k, v, ok) == call' = [op |-> op, k |-> k, v |-> v, ok |-> ok] /\ calls' = calls + 1
More == calls < MaxCalls

\* lxc_set_config_item_locked: memory first; the text only if that worked.
\* An address with x is completed in memory and, apart, in the text.
SetItem(op, k, v) ==
    /\ More
    /\ \E r1, r2 \in Rands :
        /\ (\A i \in DOMAIN v : v[i] # "x") => r1 = r2 /\ r1 = "r1"
        /\ \E res \in {Set(k, rand_complete_hwaddr(k, v, r1), conf)} :
            /\ conf' = res.c
            /\ unexp' = CASE ~res.ok -> unexp
                          [] res.ok /\ v = <<>> -> do_clear_unexp_config_line(unexp, k)
                          [] OTHER -> do_append_unexp_config_line(unexp, k, rand_complete_hwaddr(k, v, r2))
            /\ Called(op, k, v, res.ok)
    /\ UNCHANGED <<family, file>>
set_config_item == \E kv \in Samples[family] : SetItem("set", kv[1], kv[2])
\* A "key = value" argument of a tool is read like a line, and then set.
lxc_config_define_load == "define" \in Edits[family] /\ \E kv \in Samples[family] : SetItem("define", kv[1], ReadValue(kv[2]))

clear_config_item ==
    /\ More
    /\ \E k \in Clears[family] : \E res \in {Clr(k, conf)} :
            /\ conf' = res.c
            /\ unexp' = IF res.ok THEN do_clear_unexp_config_line(unexp, k) ELSE unexp
            /\ Called("clear", k, <<>>, res.ok)
    /\ UNCHANGED <<family, file>>

\* The file is truncated when it is opened, and then written.
save_config ==
    /\ More
    /\ \/ file' = unexp /\ Called("save", "", <<>>, TRUE)
       \/ file' \in {file, <<>>} /\ Called("save", "", <<>>, FALSE)
    /\ UNCHANGED <<family, conf, unexp>>

\* Loading adds to what is there.  Every line is kept in the text before it is
\* parsed, an address completed; the first bad line ends it.
load_config ==
    /\ More
    /\ Len(unexp) + Len(file) <= 2 * MaxCalls
    /\ \E r \in Rands :
        LET lines == [i \in DOMAIN file |-> [file[i] EXCEPT !.v = rand_complete_hwaddr(file[i].k, @, r)]]
        IN  \E upto \in {[n \in 0 .. Len(lines) |-> ReadLines(SubSeq(lines, 1, n), conf)]} :
                LET bad == {n \in DOMAIN lines : ~upto[n].ok}
                    n == IF bad = {} THEN Len(lines) ELSE CHOOSE b \in bad : \A o \in bad : b <= o
                IN  /\ conf' = upto[n].c
                    /\ unexp' = unexp \o SubSeq(lines, 1, n)
                    /\ Called("load", "", <<>>, bad = {})
    /\ UNCHANGED <<family, file>>

clear_config ==
    /\ More
    /\ conf' = lxc_conf_init /\ unexp' = <<>>
    /\ Called("reset", "", <<>>, TRUE)
    /\ UNCHANGED <<family, file>>

----------------------------------------------------------------------------
(* The edits of a clone: the container c1 becomes c2, in memory and in the  *)
(* text apart.                                                              *)

EditText(P(_), f(_)) == unexp' = [i \in DOMAIN unexp |-> IF unexp[i].t = "set" /\ P(unexp[i].k)
                                                         THEN [unexp[i] EXCEPT !.v = f(@)] ELSE unexp[i]]

\* Every address line gets a new address; devices that had the old one follow.
network_new_hwaddrs ==
    /\ More /\ "network_new_hwaddrs" \in Edits[family]
    /\ LET mine == {i \in DOMAIN unexp : unexp[i].t = "set" /\ lxc_config_net_is_hwaddr(unexp[i].k)}
           New(i) == <<"new" \o ToString(i)>>
           follow(devs, i) == [p \in DOMAIN devs |-> IF devs[p]["hwaddr"] = unexp[i].v
                                                     THEN Put(devs[p], "hwaddr", New(i)) ELSE devs[p]]
       IN  /\ unexp' = [i \in DOMAIN unexp |-> IF i \in mine THEN [unexp[i] EXCEPT !.v = New(i)] ELSE unexp[i]]
           /\ conf' = [conf EXCEPT !["netdevs"] = FoldLeft(LAMBDA devs, i : IF i \in mine THEN follow(devs, i) ELSE devs,
                                                           @, [i \in DOMAIN unexp |-> i])]
    /\ Called("hwaddrs", "", <<>>, TRUE)
    /\ UNCHANGED <<family, file>>

\* copyhooks, clone_update_unexp_hooks: private hooks move with the container.
\* In memory only the file's name is kept, in the text what follows "/c1".  A
\* hook that is no path, and one that cannot be copied, ends it midway.
HookOrder == <<"lxc.hook.pre-start", "lxc.hook.pre-mount", "lxc.hook.mount", "lxc.hook.autodev",
               "lxc.hook.start", "lxc.hook.stop", "lxc.hook.post-stop", "lxc.hook.clone",
               "lxc.hook.destroy", "lxc.hook.start-host">>
Private(h) == Len(h) > 2 /\ SubSeq(h, 1, 3) = <<"/", "c1", "/">>
Moved(h) == IF Private(h) THEN <<"/", "c2", "/", h[Len(h)]>> ELSE h
MovedText(v) == IF Len(v) > 1 /\ v[1] = "/" /\ IsPre("c1", v[2])
                THEN <<"/", "c2" \o After("c1", v[2])>> \o SubSeq(v, 3, Len(v)) ELSE v
copyhooks ==
    /\ More /\ "copyhooks" \in Edits[family]
    /\ LET all == FlattenSeq([n \in DOMAIN HookOrder |->
                                 [i \in DOMAIN conf[HookOrder[n]] |-> <<HookOrder[n], i>>]])
           Hook(n) == conf[all[n][1]][all[n][2]]
           nopath == {n \in DOMAIN all : \A j \in DOMAIN Hook(n) : Hook(n)[j] # "/"}
           MoveBefore(stop) ==
               [f \in DOMAIN conf |->
                   IF f \notin Hooks THEN conf[f]
                   ELSE [i \in DOMAIN conf[f] |->
                            IF \E n \in 1 .. stop - 1 : all[n] = <<f, i>> THEN Moved(conf[f][i]) ELSE conf[f][i]]]
       IN  \/ /\ nopath = {}
              /\ conf' = MoveBefore(Len(all) + 1)
              /\ EditText(LAMBDA k : IsPre("lxc.hook", k), MovedText)
              /\ file' = unexp'
              /\ Called("hooks", "", <<>>, TRUE)
           \/ \E stop \in DOMAIN all :
                  /\ stop \in nopath \/ Private(Hook(stop))
                  /\ \A n \in nopath : n >= stop
                  /\ conf' = MoveBefore(stop)
                  /\ UNCHANGED <<unexp, file>>
                  /\ Called("hooks", "", <<>>, FALSE)
    /\ UNCHANGED family

\* ovl_update_abs_paths: the overlay directories of mount entries.  The text
\* follows for br, too.
OvlMemory == ("upperdir=c1" :> "upperdir=c2") @@ ("workdir=c1" :> "workdir=c2")
OvlText == OvlMemory @@ ("br=c1" :> "br=c2")
Renamed(v, how) == IF \E i \in DOMAIN v : v[i] = "overlay"
                   THEN [i \in DOMAIN v |-> IF v[i] \in DOMAIN how THEN how[v[i]] ELSE v[i]] ELSE v
ovl_update_abs_paths ==
    /\ More /\ "ovl_update_abs_paths" \in Edits[family]
    /\ conf' = [conf EXCEPT !["lxc.mount.entry"] = [i \in DOMAIN @ |-> Renamed(@[i], OvlMemory)]]
    /\ EditText(LAMBDA k : IsPre("lxc.mount.entry", k), LAMBDA v : Renamed(v, OvlText))
    /\ Called("ovl", "", <<>>, TRUE)
    /\ UNCHANGED <<family, file>>

\* copy_fstab: the old line goes first; the file may not be copied.
copy_fstab ==
    /\ More /\ "copy_fstab" \in Edits[family] /\ conf["lxc.mount.fstab"] # <<>>
    /\ LET old == conf["lxc.mount.fstab"]
           cleared == clear_unexp_config_line(unexp, "lxc.mount.fstab", FALSE)
           new == <<"/", "c2", "/", old[Len(old)]>>
       IN  \/ /\ \E i \in DOMAIN old : old[i] = "/"
              /\ conf' = Put(conf, "lxc.mount.fstab", new)
              /\ unexp' = do_append_unexp_config_line(cleared, "lxc.mount.fstab", new)
              /\ Called("fstab", "", <<>>, TRUE)
           \/ conf' = conf /\ unexp' = cleared /\ Called("fstab", "", <<>>, FALSE)
    /\ UNCHANGED <<family, file>>

Init ==
    /\ family \in DOMAIN Samples
    /\ file \in Disk[family]
    /\ conf = lxc_conf_init /\ unexp = <<>>
    /\ call = [op |-> "none", k |-> "", v |-> <<>>, ok |-> TRUE] /\ calls = 0
Next == set_config_item \/ lxc_config_define_load \/ clear_config_item \/ save_config \/ load_config
        \/ clear_config \/ network_new_hwaddrs \/ copyhooks \/ ovl_update_abs_paths \/ copy_fstab
Spec == Init /\ [][Next]_vars

----------------------------------------------------------------------------
(* Properties.                                                              *)

Reload(lines) == ReadLines(lines, lxc_conf_init)
InSync(lines, c) == Reload(lines) = Ok(c)

\* The calls that change memory in a way the text cannot show, one line each.
LinesOf(P(_)) == \E i \in DOMAIN unexp : unexp[i].t \in {"set", "indented"} /\ P(unexp[i].k)
ClearLoses(op, k) ==
    \* the cleared value is not the initial one
    \/ IndexOf(k) = -1 /\ (IF op = "clear" THEN Clr(k, lxc_conf_init) ELSE Set(k, <<>>, lxc_conf_init)) # Ok(lxc_conf_init)
    \/ k \in {"lxc.tty.max", "lxc.net.0.type", "lxc.net.1.type"} \/ LinesOf(LAMBDA l : l = "lxc.include")
    \* a family is cleared, but only lines of exactly that key go
    \/ k \in Families \ {"lxc.cgroup"} /\ LinesOf(LAMBDA l : IsPre(k \o ".", l))
    \* lines of other keys go because their text begins alike
    \/ WithSubkeys(k) /\ IndexOf(k) = -1 /\ LinesOf(LAMBDA l : IsPre(k, l) /\ Entry[l] \in {"lxc.cgroup2", "lxc.hook.version"} \cup DOMAIN CgroupMetaKeys)
    \/ IndexOf(k) = 1 /\ SubkeyOf(k) = "" /\ LinesOf(LAMBDA l : IndexOf(l) = 10)
    \* the two capability keys share a list
    \/ k = "lxc.cap.keep" /\ LinesOf(LAMBDA l : l = "lxc.cap.drop")
    \/ k = "lxc.cap.drop" /\ LinesOf(LAMBDA l : l = "lxc.cap.keep")
    \/ k = "lxc.rootfs.path" /\ conf["bdev_type"] # <<>>
    \* an indented line stays
    \/ \E i \in DOMAIN unexp : unexp[i].t = "indented"
    \* a device keeps what clearing one of its keys does not undo
    \/ IndexOf(k) # -1 /\ SubkeyOf(k) \in DOMAIN Modes \cup Queues \cup {"name", "ipv4.gateway", "ipv6.gateway"}
    \/ IndexOf(k) # -1 /\ SubkeyOf(k) # "" /\ ~LinesOf(LAMBDA l : IndexOf(l) = IndexOf(k) /\ l # k)
    \/ IndexOf(k) # -1 /\ \E i \in DOMAIN unexp : \E j \in DOMAIN unexp[i].v : unexp[i].v[j] = "+"
SetLoses(k, v) == ReadValue(v) # v \/ (v # <<>> /\ v[1] = "x" /\ lxc_config_net_is_hwaddr(k))
Hwaddrs == [p \in DOMAIN conf["netdevs"] |-> conf["netdevs"][p]["hwaddr"]]
CloneLoses ==
    \/ \E h \in Hooks : \E i \in DOMAIN conf[h] : Moved(conf[h][i]) # MovedText(conf[h][i])
    \/ \E i \in DOMAIN conf["lxc.mount.entry"] :
           Renamed(conf["lxc.mount.entry"][i], OvlMemory) # Renamed(conf["lxc.mount.entry"][i], OvlText)
    \/ \E p, q \in DOMAIN Hwaddrs : p # q /\ Hwaddrs[p] = Hwaddrs[q] /\ Hwaddrs[p] # <<>>
    \/ \E i, j \in DOMAIN unexp : i < j /\ unexp[i].v = unexp[j].v /\ \A l \in {i, j} : lxc_config_net_is_hwaddr(unexp[l].k)

\* A call that succeeds keeps memory and text in step: reading the text gives
\* the configuration in memory, before and after.  The exceptions above are
\* calls that lxc_set_config_item_locked, do_clear_unexp_config_line and the
\* clone edits treat differently in memory and in the text.
StaysInSync ==
    [][(/\ InSync(unexp, conf) /\ call'.ok
        /\ call'.op \in {"set", "define"} => ~SetLoses(call'.k, call'.v)
        /\ call'.op = "clear" \/ (call'.op \in {"set", "define"} /\ call'.v = <<>>) => ~ClearLoses(call'.op, call'.k)
        /\ call'.op \in {"hooks", "ovl", "hwaddrs"} => ~CloneLoses)
       => InSync(unexp', conf')]_vars

KeysUsed == {kv[1] : kv \in Samples[family]} \cup Clears[family]
\* Equal but for the order among different subkeys of a family.
SameSettings(c, d) == \A f \in DOMAIN c : IF f \in Families THEN ToSet(c[f]) = ToSet(d[f]) ELSE c[f] = d[f]
Placeholders == {<<"-1">>, <<Null>>, <<"(invalid)">>, <<"NOTSET">>}
TimeOffsets == {"lxc.time.offset.boot", "lxc.time.offset.monotonic"}
\* What the get callbacks leave out: forced mounts, a proxy's scheme, whether
\* the capabilities are kept or dropped, nanoseconds beside seconds, a gateway's
\* address beside "dev"; and a type set again clears its device.
PrintLoses(k) ==
    \/ k \in {"lxc.mount.auto", "lxc.seccomp.notify.proxy", "lxc.net"} \cup Families
    \/ k = (IF conf["caps.keep"] THEN "lxc.cap.drop" ELSE "lxc.cap.keep")
    \/ k \in TimeOffsets /\ conf[k].s # 0 /\ conf[k].ns # 0
    \/ IndexOf(k) # -1 /\ SubkeyOf(k) = "type"
    \/ IndexOf(k) # -1 /\ SubkeyOf(k) \in {"ipv4.gateway", "ipv6.gateway"} /\ \E p \in DOMAIN conf["netdevs"] :
           conf["netdevs"][p][SubkeyOf(k) \o ".dev"]

\* What get_config_item prints of a key that was set is what was set: clearing
\* the key and setting it to the printed lines gives the same configuration.
PrintedReadsBack ==
    InSync(unexp, conf) => \A k \in KeysUsed :
        \E g \in {Get(k, conf)} :
            \/ g = Get(k, lxc_conf_init) \/ g.out = <<>> \/ \E i \in DOMAIN g.out : g.out[i] \in Placeholders
            \/ PrintLoses(k)
            \/ \E again \in {FoldLeft(LAMBDA r, v : IF r.ok THEN Set(k, v, r.c) ELSE r, Ok(Clr(k, conf).c), g.out)} :
                   again.ok /\ SameSettings(again.c, conf)

\* get_keys lists only keys that exist: for a device only those that its type
\* has (the hook "autodevtmpfssize" is listed and has no entry).
ListedExists ==
    /\ \A p \in DOMAIN conf["netdevs"] : LET d == conf["netdevs"][p] IN \A s \in lxc_list_net(d) : GetNet(s, d).ok
    /\ calls = 0 => \A k \in DOMAIN lxc_list_subkeys : \A s \in lxc_list_subkeys[k] \ {"autodevtmpfssize"} :
                        lxc_get_config(k \o "." \o s) = k \o "." \o s

\* What a caller is shown of a configuration can be used again: every key that
\* get_keys lists, and every value that get_config_item prints.
ShownIsUsable == ListedExists /\ PrintedReadsBack

\* The devices stay sorted by index, each index once, whatever order their keys
\* come in (lxc_get_netdev_by_idx).
NetdevsSorted == \A p, q \in DOMAIN conf["netdevs"] : p < q => conf["netdevs"][p]["idx"] < conf["netdevs"][q]["idx"]

\* root_nsuid_map and root_nsgid_map point at the first mapping of the
\* container's root, and at none when there is none: never at a freed one.
RootMapFirst ==
    \A m \in {<<"u", "root_nsuid_map">>, <<"g", "root_nsgid_map">>} :
        LET maps == conf["lxc.idmap"]
            roots == {i \in DOMAIN maps : maps[i][1] = m[1] /\ maps[i][2] = "0"}
        IN  conf[m[2]] = IF roots = {} THEN 0 ELSE CHOOSE i \in roots : \A j \in roots : i <= j

\* A container never both clones and keeps namespaces.
NsExclusive == conf["ns_clone"] = {} \/ conf["ns_keep"] = {}

\* The fields that several keys write agree, in whatever order the keys come.
FieldsAgree == NetdevsSorted /\ RootMapFirst /\ NsExclusive
=============================================================================
