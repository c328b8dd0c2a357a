------------------------------- MODULE Cgroup -------------------------------
(***************************************************************************)
(* The cgroup driver (cgroups/cgfsng.c, cgroup.c, freezer.c and the cgroup  *)
(* commands of commands.c) as the monitors of several containers, their     *)
(* clients and the containers themselves use it on one machine.             *)
(*                                                                          *)
(* A monitor finds the usable hierarchies, makes its own group and the      *)
(* container's in each of them, moves itself and the container's init, sets *)
(* the limits, and takes everything down again when init is gone or a step  *)
(* failed (the order is that of __lxc_start and lxc_spawn in start.c).      *)
(* Clients attach processes, freeze and thaw, stop, change limits and       *)
(* device rules of a running container.  The kernel is in CgroupFs, the     *)
(* device rules are in CgroupDevices.                                       *)
(***************************************************************************)
EXTENDS CgroupFs, CgroupDevices, FiniteSets

CONSTANTS C,          \* containers
          K,          \* clients
          Setups,     \* [host, conf, jobs] the model starts from
          MaxSuffix,  \* largest "-N" tried for a group name (999 in the code)
          MaxFaults   \* system calls that fail without need

VARIABLES conf,    \* the configuration of each container, and how often it is started
          cg,      \* the group tree
          at,      \* where each process is
          mon,     \* the monitors: program counter, cgroup_ops, device state
          st,      \* handler->state as the clients of the monitor see it
          cli,     \* the clients
          faults

vars == <<host, conf, cg, at, mon, st, cli, faults>>

NoPath == <<<<"none", "", 0>>>>
Monitor(c) == <<"mon", c>>
Transient(c) == <<"tr", c>>
Init1(c) == <<"init", c>>
Attached(k) == <<"att", k>>

Idle == [pc |-> "off", i |-> 1, idx |-> 0, hs |-> <<>>, layout |-> "unknown", base |-> <<>>,
         util |-> {}, mon |-> NoPath, lim |-> NoPath, con |-> NoPath,
         hasMon |-> FALSE, hasCon |-> FALSE,
         dmon |-> {}, dlim |-> {}, dcon |-> {}, mnt |-> {}, into |-> FALSE,
         v |-> [list |-> [block |-> TRUE, rules |-> <<>>], cur |-> NoProg, kern |-> <<>>,
                repl |-> -1, ok |-> TRUE, fault |-> FALSE],
         scope |-> <<>>, runs |-> 0, killed |-> FALSE, why |-> ""]

Own(m, c) == <<c, m.runs>>

World(c) == [cg |-> cg, at |-> at, m |-> mon[c], ok |-> TRUE, fault |-> FALSE]

Hier(m) == {m.hs[i] : i \in DOMAIN m.hs}
Pure(m) == m.layout = "unified"
Unified(m) == CHOOSE h \in Hier(m) : Uni(h)
HasUnified(m) == \E h \in Hier(m) : Uni(h)

\* The hierarchy of a controller; on a purely unified machine "devices" and
\* "freezer" stand for what its files and eBPF offer.
get_hierarchy(m, ctl) ==
    {h \in Hier(m) : IF Pure(m) /\ ctl \in {"devices", "freezer"} THEN ctl \in m.util
                     ELSE ctl \in host.lines[h].ctl}

-----------------------------------------------------------------------------
(* Finding the hierarchies *)

skip_hierarchy(l) == host.use # {} /\ ~(l.ctl \subseteq host.use)

\* Where new groups go: below the group of init for root, below the caller's
\* own for everyone else, and below the systemd scope if one was entered.
BaseOf(c, scope) ==
    IF scope # <<>> THEN scope
    ELSE IF host.root /\ ~conf[c].relative THEN <<>> ELSE host.self

\* An unprivileged user on a unified machine asks systemd for a scope of its
\* own, and makes room for groups in it: the processes of the scope move to
\* scope/init, then the controllers are passed on.
move_and_delegate_unified(w, c, h, scope) ==
    LET x == Mkdir(w, h, Append(scope, <<"init", "", 0>>), Own(w.m, c))
        y == Enter(x, Monitor(c), h, Append(scope, <<"init", "", 0>>))
    IN  Subtree(y, h, scope, host.lines[h].ctl)

\* systemd is asked for a transient unit, and its JobRemoved signal awaited;
\* when the name is taken there is no job and the wait has no end.
start_scope(w, c, h, n) ==
    LET name == Append(host.self, <<"scope", conf[c].name, n>>)
        made == [Mkdir(w, h, name, Own(w.m, c)) EXCEPT !.at[Monitor(c)][h] = name, !.m.scope = name]
    IN  IF There(w, h, name) THEN {[w EXCEPT !.m.why = "scope"]}
        ELSE {Fault(made), move_and_delegate_unified(made, c, h, name)}

\* The next number is for requests that could not be sent.
unpriv_systemd_create_scope(w, c) ==
    LET h == CHOOSE x \in DOMAIN host.lines : TRUE
    IN  IF host.root \/ Len(host.lines) # 1 \/ ~Uni(h) \/ ~host.systemd THEN {w}
        ELSE {Fault(w)} \cup start_scope(w, c, h, 0) \cup start_scope([w EXCEPT !.fault = TRUE], c, h, 1)

\* A hierarchy is of use when it is mounted and the caller may write what has
\* to be written in the base group.
hierarchy_delegated(l) == l.mounted /\ l.writable

\* The layout is that of the lines read; lines that were passed over count only
\* if nothing was found.
cgroup_layout(lines, found) ==
    LET k == IF found = {} THEN lines ELSE found
    IN  IF k = {TRUE} THEN "unified" ELSE IF k = {FALSE} THEN "legacy" ELSE "hybrid"

\* The outcome of the scope only matters through systemd_scope: the caller
\* goes on with the hierarchies it finds, whether it worked or not.
__initialize_cgroups(w, c) ==
    LET x == Ok(w)
        base == BaseOf(c, x.m.scope)
        usable(l) == hierarchy_delegated(l) /\ (l.uni \/ ~skip_hierarchy(l))
        hs == SelectSeq([i \in DOMAIN host.lines |-> i], LAMBDA i : usable(host.lines[i]))
        found == {host.lines[hs[i]].uni : i \in DOMAIN hs}
        y == [x EXCEPT !.m.hs = hs, !.m.base = base,
                       !.m.layout = cgroup_layout({l.uni : l \in Range(host.lines)}, found),
                       !.m.util = IF found = {TRUE} /\ host.root /\ host.bpf THEN {"devices"} ELSE {}]
    IN  IF \A u \in host.use : \E i \in DOMAIN hs : u \in host.lines[hs[i]].ctl
        THEN Ok(y) ELSE Bad(y)

-----------------------------------------------------------------------------
(* Making and removing the groups of a container *)

check_cgroup_dir_config(c) ==
    LET f == conf[c]
    IN  \/ f.mdir = <<>> /\ f.cdir = <<>> /\ f.ndir = <<>>
        \/ f.dir = <<>> /\ f.mdir # <<>> /\ f.cdir # <<>>

\* The name tried for the group of the monitor or of the container; explicit
\* directories have no suffix, so that there is one attempt only.
Candidate(c, kind, explicit, idx) ==
    IF explicit # <<>> THEN explicit
    ELSE IF conf[c].dir # <<>> THEN Append(conf[c].dir, <<kind, conf[c].name, idx>>)
    ELSE IF host.pattern THEN <<<<"lxc", conf[c].name, 0>>, <<kind, "", idx>>>>
    ELSE <<<<kind, conf[c].name, idx>>>>

\* Mutant: settings are written in the order of the configuration.
sort_cgroup_settings_as_is(s) == s

\* sort_cgroup_settings puts memory.memsw last.
sort_cgroup_settings(s) ==
    SelectSeq(s, LAMBDA x : x.key # "memory.memsw") \o SelectSeq(s, LAMBDA x : x.key = "memory.memsw")

\* Values for the cpuset controller go to the inner group as well.
cg_legacy_set_data(w, s) ==
    LET hs == get_hierarchy(w.m, s.ctl)
        h == CHOOSE x \in hs : TRUE
        inner == IF s.ctl = "cpuset" THEN WriteFile(w, h, w.m.base \o w.m.con, s) ELSE w
    IN  IF hs = {} THEN Bad(w)
        ELSE IF ~inner.ok THEN inner
        ELSE WriteFile(inner, h, w.m.base \o w.m.lim, s)

cgfsng_setup_limits_legacy(w, c, devices) ==
    LET set == sort_cgroup_settings(conf[c].legacy)
        one(x, s) == IF ~x.ok \/ (s.ctl = "devices") # devices THEN x
                     ELSE IF devices /\ ~host.root THEN x    \* EPERM is passed over
                     ELSE cg_legacy_set_data(x, s)
    IN  IF set = <<>> THEN w
        ELSE IF w.m.hs = <<>> THEN Bad(w)
        ELSE IF Pure(w.m) THEN w
        ELSE FoldLeft(one, w, set)

\* One hierarchy of cgfsng_monitor_create or cgfsng_payload_create.  With an
\* inner directory the limiting group is made first, the legacy device rules
\* are written to it while it has no group below, and a failure to make the
\* inner group takes the limiting group away again.
cgroup_tree_create(w, c, h, payload) ==
    LET m == w.m
        leaf == IF payload THEN conf[c].ndir ELSE <<>>
        simple == Then(__cgroup_tree_create(w, h, m.base, IF payload THEN m.lim ELSE m.mon, Own(m, c), FALSE),
                       LAMBDA x : {IF payload THEN [x EXCEPT !.m.dcon = @ \cup {h}, !.m.dlim = @ \cup {h}]
                                   ELSE [x EXCEPT !.m.dmon = @ \cup {h}]})
        limit == Then(__cgroup_tree_create(w, h, m.base, m.lim, Own(m, c), FALSE),
                      LAMBDA x : {[x EXCEPT !.m.dlim = @ \cup {h}]})
        rules(x) == {IF "devices" \in host.lines[h].ctl THEN cgfsng_setup_limits_legacy(x, c, TRUE) ELSE x}
        inner(x) == UNION {IF y.ok THEN {[y EXCEPT !.m.dcon = @ \cup {h}]}
                           ELSE {[Bad(z) EXCEPT !.fault = y.fault] : z \in cgroup_tree_prune(y, h, m.base \o m.lim)}
                           : y \in __cgroup_tree_create(x, h, m.base \o m.lim, leaf, Own(m, c), FALSE)}
    IN  IF leaf = <<>> THEN simple ELSE Then(Then(limit, rules), inner)

\* Mutant: the attempt is undone in every hierarchy it looked at.
cgroup_tree_prune_leaf_any(w, h, payload) ==
    cgroup_tree_prune(w, h, w.m.base \o IF payload THEN w.m.lim ELSE w.m.mon)

\* Takes back what the failed attempt made: only groups whose descriptor was
\* recorded, and the descriptors are dropped first.
cgroup_tree_prune_leaf(w, h, payload) ==
    LET mine == h \in IF payload THEN w.m.dlim ELSE w.m.dmon
        path == w.m.base \o IF payload THEN w.m.lim ELSE w.m.mon
        x == IF payload THEN [w EXCEPT !.m.dlim = @ \ {h}, !.m.dcon = @ \ {h}]
             ELSE [w EXCEPT !.m.dmon = @ \ {h}]
    IN  IF mine THEN cgroup_tree_prune(x, h, path) ELSE {x}

Undo(w, m, payload) ==
    FoldLeft(LAMBDA ws, h : UNION {cgroup_tree_prune_leaf(x, h, payload) : x \in ws},
             {w}, SubSeq(m.hs, 1, m.i))

\* After hierarchy i: on to the next, done, or one more name.
CreateStep(w, c, payload) ==
    LET explicit == IF payload THEN conf[c].cdir ELSE conf[c].mdir
        named == IF payload
                 THEN [w EXCEPT !.m.lim = Candidate(c, "payload", explicit, w.m.idx),
                                !.m.con = Candidate(c, "payload", explicit, w.m.idx) \o conf[c].ndir]
                 ELSE [w EXCEPT !.m.mon = Candidate(c, "monitor", explicit, w.m.idx)]
        done(x) == [x EXCEPT !.m.hasCon = payload, !.m.hasMon = TRUE, !.m.i = 1, !.m.idx = 0]
        again(x) == {[y EXCEPT !.m.i = 1, !.m.idx = @ + 1, !.fault = x.fault,
                               !.ok = explicit = <<>> /\ w.m.idx < MaxSuffix]
                     : y \in Undo(x, w.m, payload)}
    IN  IF w.m.hs = <<>> THEN {w}
        ELSE IF ~check_cgroup_dir_config(c) THEN {Bad(w)}
        ELSE UNION {IF ~x.ok THEN again(x)
                    ELSE IF w.m.i < Len(w.m.hs) THEN {[x EXCEPT !.m.i = @ + 1]}
                    ELSE {done(x)}
                    : x \in cgroup_tree_create(named, c, w.m.hs[w.m.i], payload)}

\* A failed write makes the function return a negative error as a bool: the
\* caller sees success, and the groups below simply lack the controllers.
__cgfsng_delegate_controllers(w, path) ==
    LET h == Unified(w.m)
        one(x, n) == IF x.ok THEN Subtree(x, h, w.m.base \o SubSeq(path, 1, n - 1), host.lines[h].ctl)
                     ELSE x
    IN  IF w.m.hs = <<>> \/ ~Pure(w.m) THEN w
        ELSE Ok(FoldLeft(one, w, [n \in 1 .. Len(path) |-> n]))

\* The monitor moves itself and the process that forked it.
cgfsng_monitor_enter(w, c) ==
    LET one(x, h) == LET y == Enter(x, Monitor(c), h, x.m.base \o x.m.mon)
                     IN  IF ~x.ok THEN x
                         ELSE IF ~y.ok \/ Transient(c) \notin DOMAIN x.at THEN y
                         ELSE Enter(y, Transient(c), h, x.m.base \o x.m.mon)
    IN  IF w.m.hs = <<>> THEN {w}
        ELSE {Fault(w), FoldLeft(one, w, w.m.hs)}

\* With CLONE_INTO_CGROUP init is born in its unified group.
cgfsng_payload_enter(w, c) ==
    LET one(x, h) == IF ~x.ok \/ (Uni(h) /\ x.m.into) THEN x
                     ELSE Enter(x, Init1(c), h, x.m.base \o x.m.con)
    IN  IF w.m.hs = <<>> THEN {w}
        ELSE {Fault(w), FoldLeft(one, w, w.m.hs)}

cgfsng_setup_limits(w, c) ==
    LET h == Unified(w.m)
        one(x, s) ==
            LET d == IF s.ctl = "devices"
                     THEN IF s.allow /\ s.text.type \in {"/b", "/c"}
                          THEN device_cgroup_rule_parse_devpath(s.text)
                          ELSE device_cgroup_rule_parse(s.allow, s.text)
                     ELSE NoRule
            IN  IF ~x.ok THEN x
                ELSE IF s.ctl # "devices" THEN WriteFile(x, h, x.m.base \o x.m.lim, s)
                ELSE IF d = NoRule THEN Bad(x)
                ELSE [x EXCEPT !.m.v.list = bpf_list_add_device(@, d).list]
    IN  IF w.m.hs = <<>> \/ conf[c].unified = <<>> \/ ~Pure(w.m) THEN {w}
        ELSE {FoldLeft(one, w, conf[c].unified)}

cgfsng_devices_activate(w) ==
    IF \/ w.m.hs = <<>> \/ ~HasUnified(w.m) \/ "devices" \notin w.m.util
       \/ w.m.v.list.rules = <<>>
    THEN {w}
    ELSE {[w EXCEPT !.m.v = v, !.ok = v.ok, !.fault = v.fault] : v \in bpf_cgroup_devices_attach(w.m.v)}

\* The container's groups are given to its root user.
cgfsng_chown(w, c) ==
    IF w.m.hs = <<>> \/ ~conf[c].userns THEN {w}
    ELSE {Fault(w), [w EXCEPT !.cg = [k \in DOMAIN @ |->
            [@[k] EXCEPT !.given = @ \/ (k[1] \in Hier(w.m) /\ k[2] = w.m.base \o w.m.con)]]]}

cgfsng_finalize(w) ==
    [w EXCEPT !.m.dmon = {},
              !.m.util = IF w.m.hs # <<>> /\ Pure(w.m) THEN @ \cup {"freezer"} ELSE @]

\* The cgroup filesystems the container's init finds mounted: nothing when it
\* is to mount them itself, a fresh mount inside a cgroup namespace, the whole
\* hierarchy for the "full" kinds, or just its own group.
AutoMount(f) ==
    CASE f.auto = "nospec" -> IF f.sysadmin THEN "rw" ELSE "mixed"
      [] f.auto = "full" -> IF f.sysadmin THEN "full:rw" ELSE "full:mixed"
      [] OTHER -> f.auto

__cgroupfs_mount(h, kind, what) ==
    [h |-> h, what |-> what, rw |-> kind \notin {"ro", "full:ro", "cgroup2:ro"}]

cg_legacy_mount_controllers(h, kind) == [h |-> h, what |-> "own", rw |-> kind # "ro"]

cgfsng_mount(w, c) ==
    LET f == conf[c]
        kind == AutoMount(f)
        force == f.force \/ ~f.sysadmin \/ Pure(w.m)
        only2 == Pure(w.m) \/ kind \in {"cgroup2:rw", "cgroup2:ro"}
        each(h) == IF f.cgns THEN __cgroupfs_mount(h, kind, "namespace")
                   ELSE IF kind \in {"ro", "rw", "mixed"} THEN cg_legacy_mount_controllers(h, kind)
                   ELSE __cgroupfs_mount(h, kind, "all")
    IN  IF kind = "" \/ w.m.hs = <<>> \/ (f.cgns /\ ~force) THEN {w}
        ELSE IF only2
        THEN IF HasUnified(w.m) /\ f.cgns
             THEN {[w EXCEPT !.m.mnt = {__cgroupfs_mount(Unified(w.m), kind, "namespace")}]}
             ELSE {Bad(w)}
        ELSE {[w EXCEPT !.m.mnt = {each(h) : h \in Hier(w.m)}]}

Each(w, hs, op(_, _)) == FoldLeft(LAMBDA ws, h : UNION {op(x, h) : x \in ws}, {w}, hs)

cgfsng_payload_destroy(w, c) ==
    LET x == [w EXCEPT !.m.v = bpf_program_cgroup_detach(@)]
        gone(ws) == {[y EXCEPT !.ok = TRUE, !.m.dlim = {}, !.m.dcon = {}] : y \in ws}
    IN  IF w.m.hs = <<>> \/ ~w.m.hasCon THEN {w}
        ELSE gone(Each(x, w.m.hs, LAMBDA y, h : cgroup_tree_prune(y, h, y.m.base \o y.m.lim)))
             \cup IF conf[c].userns /\ ~host.root THEN {[x EXCEPT !.fault = TRUE]} ELSE {}

\* The monitor leaves for the pivot group before its own group is removed; if
\* it cannot, the hierarchy is left as it is.
cgfsng_monitor_destroy(w, c) ==
    LET pivot == (IF conf[c].pivot # <<>> THEN conf[c].pivot ELSE conf[c].dir) \o <<<<"pivot", "", 0>>>>
        one(x, h) == UNION {IF ~y.ok THEN {y}
                            ELSE LET z == Enter(y, Monitor(c), h, y.m.base \o pivot)
                                 IN  IF z.ok THEN cgroup_tree_prune(z, h, z.m.base \o z.m.mon) ELSE {z}
                            : y \in __cgroup_tree_create(x, h, x.m.base, pivot, <<"pivot", 0>>, TRUE)}
    IN  IF w.m.hs = <<>> \/ ~w.m.hasMon THEN {w}
        ELSE {Ok(y) : y \in Each(w, w.m.hs, one)}

-----------------------------------------------------------------------------
(* The life of a monitor *)

Put(c, w) ==
    /\ w.fault => faults < MaxFaults
    /\ faults' = faults + (IF w.fault THEN 1 ELSE 0)
    /\ cg' = w.cg /\ at' = w.at
    /\ mon' = [mon EXCEPT ![c] = w.m]

\* One call of the start sequence; a failure goes to lxc_end.
CallTo(c, here, ws, next(_)) ==
    /\ mon[c].pc = here
    /\ \E w \in ws : Put(c, [w EXCEPT !.m.pc = IF w.ok THEN next(w) ELSE "fail",
                                      !.m.why = IF w.ok THEN @ ELSE here])
    /\ UNCHANGED <<host, conf, cli, st>>

Call(c, here, ws, next) == CallTo(c, here, ws, LAMBDA w : next)

Here == [h \in DOMAIN host.lines |-> host.self]

\* A starting process: the monitor and, when daemonized, the process that
\* forked it; cgroup_init finds the hierarchies.
cgroup_init(c) ==
    /\ mon[c].pc = "off" /\ mon[c].runs < conf[c].starts
    /\ LET procs == {Monitor(c)} \cup IF conf[c].daemon THEN {Transient(c)} ELSE {}
           w == [World(c) EXCEPT !.at = [r \in procs |-> Here] @@ @,
                                 !.m = [Idle EXCEPT !.runs = mon[c].runs + 1]]
       IN  \E x \in {[__initialize_cgroups(y, c) EXCEPT !.fault = y.fault]
                     : y \in unpriv_systemd_create_scope(w, c)} :
               Put(c, [x EXCEPT !.m.pc = IF x.m.why = "scope" THEN "scope"
                                          ELSE IF x.ok THEN "monitor_create" ELSE "fail",
                                !.m.why = IF x.ok THEN @ ELSE "init"])
    /\ st' = [st EXCEPT ![c] = "STARTING"]
    /\ UNCHANGED <<host, conf, cli>>

TransientExits(c) ==
    /\ Transient(c) \in DOMAIN at
    /\ at' = [r \in DOMAIN at \ {Transient(c)} |-> at[r]]
    /\ UNCHANGED <<host, conf, cg, mon, st, cli, faults>>

\* A create loop is at one hierarchy per step: other monitors interleave.
monitor_create(c) ==
    CallTo(c, "monitor_create", CreateStep(World(c), c, FALSE),
           LAMBDA w : IF w.m.hasMon \/ w.m.hs = <<>> THEN "monitor_delegate" ELSE "monitor_create")

payload_create(c) ==
    CallTo(c, "payload_create", CreateStep(World(c), c, TRUE),
           LAMBDA w : IF w.m.hasCon \/ w.m.hs = <<>> THEN "clone" ELSE "payload_create")

monitor_delegate(c) ==
    Call(c, "monitor_delegate", {__cgfsng_delegate_controllers(World(c), mon[c].mon)}, "monitor_enter")

monitor_enter(c) == Call(c, "monitor_enter", cgfsng_monitor_enter(World(c), c), "payload_create")

\* Init starts in the groups of its monitor, or in its own unified group when
\* the kernel can put it there; the rest of lxc_spawn may fail as well.
clone(c) ==
    LET m == mon[c]
        into == host.into /\ conf[c].cgns /\ HasUnified(m)
        born == [h \in DOMAIN host.lines |->
                    IF into /\ h \in Hier(m) /\ Uni(h) THEN m.base \o m.con ELSE at[Monitor(c)][h]]
    IN  Call(c, "clone", {Fault(World(c)),
                          [World(c) EXCEPT !.at = (Init1(c) :> born) @@ @, !.m.into = into]},
             "setup_limits_legacy")

setup_limits_legacy(c) ==
    Call(c, "setup_limits_legacy", {cgfsng_setup_limits_legacy(World(c), c, FALSE)}, "payload_delegate")

payload_delegate(c) ==
    Call(c, "payload_delegate", {__cgfsng_delegate_controllers(World(c), mon[c].con)}, "payload_enter")

payload_enter(c) == Call(c, "payload_enter", cgfsng_payload_enter(World(c), c), "setup_limits")
setup_limits(c) == Call(c, "setup_limits", cgfsng_setup_limits(World(c), c), "chown")
chown(c) == Call(c, "chown", cgfsng_chown(World(c), c), "mount")
mount(c) == Call(c, "mount", cgfsng_mount(World(c), c), "device_limits")

device_limits(c) ==
    Call(c, "device_limits",
         {IF conf[c].ndir = <<>> THEN cgfsng_setup_limits_legacy(World(c), c, TRUE) ELSE World(c)},
         "devices_activate")

devices_activate(c) == Call(c, "devices_activate", cgfsng_devices_activate(World(c)), "finalize")

\* The container runs; its monitor serves commands from now on.
finalize(c) ==
    /\ mon[c].pc = "finalize"
    /\ Put(c, [cgfsng_finalize(World(c)) EXCEPT !.m.pc = "run"])
    /\ st' = [st EXCEPT ![c] = "RUNNING"]
    /\ UNCHANGED <<host, conf, cli>>

\* lxc_end after a failed start: init, if it was born, is killed first.
lxc_abort(c) ==
    /\ mon[c].pc = "fail"
    /\ at' = [r \in DOMAIN at \ {Init1(c)} |-> at[r]]
    /\ mon' = [mon EXCEPT ![c].pc = "payload_destroy"]
    /\ st' = [st EXCEPT ![c] = "ABORTING"]
    /\ UNCHANGED <<host, conf, cg, cli, faults>>

payload_destroy(c) ==
    Call(c, "payload_destroy", cgfsng_payload_destroy(World(c), c), "monitor_destroy")

monitor_destroy(c) == Call(c, "monitor_destroy", cgfsng_monitor_destroy(World(c), c), "exit")

\* The monitor is gone; systemd drops a scope nobody is in.
cgroup_exit(c) ==
    /\ mon[c].pc = "exit"
    /\ at' = [r \in DOMAIN at \ {Monitor(c)} |-> at[r]]
    /\ LET w == [World(c) EXCEPT !.at = at']
           top == {k \in DOMAIN cg : mon[c].scope # <<>> /\ IsPrefix(mon[c].scope, k[2])}
       IN  cg' = IF \A k \in top : ~Busy(w, k) THEN Rmdir(w, top).cg ELSE cg
    /\ mon' = [mon EXCEPT ![c] = [Idle EXCEPT !.runs = mon[c].runs, !.why = mon[c].why]]
    /\ st' = [st EXCEPT ![c] = "STOPPED"]
    /\ UNCHANGED <<host, conf, cli, faults>>

-----------------------------------------------------------------------------
(* The container *)

Group(c, h) == mon[c].base \o mon[c].con
Frozen(c, h) == \E p \in DOMAIN cg : p[1] = h /\ IsPrefix(p[2], at[Init1(c)][h]) /\ cg[p].frz

\* Init's service manager nests: it moves itself below its group and passes
\* the controllers on.
InitNests(c) ==
    /\ mon[c].pc = "run" /\ conf[c].nests /\ Init1(c) \in DOMAIN at
    /\ \E h \in Hier(mon[c]) :
        LET p == Group(c, h)
            w == Mkdir(World(c), h, Append(p, <<"init.scope", "", 0>>), Own(mon[c], c))
            x == Subtree(Enter(w, Init1(c), h, Append(p, <<"init.scope", "", 0>>)), h, p, host.lines[h].ctl)
        IN  /\ Uni(h) /\ at[Init1(c)][h] = p /\ ~Frozen(c, h)
            /\ conf[c].userns => cg[<<h, p>>].given
            /\ ~There(World(c), h, Append(p, <<"init.scope", "", 0>>))
            /\ Put(c, Ok(x))
    /\ UNCHANGED <<host, conf, cli, st>>

Job(k) == Head(cli[k].todo)
Of(k) == Job(k).c

\* Init ends or is killed, and with it the processes of its pid namespace; an
\* attached process lives on when it is not (yet) in that namespace.
InitDies(c) ==
    /\ mon[c].pc \in {"run", "thaw"} /\ Init1(c) \in DOMAIN at
    /\ \A h \in Hier(mon[c]) : Frozen(c, h) => Uni(h) /\ mon[c].killed
    /\ LET dead == {Init1(c)} \cup IF conf[c].pidns THEN {Attached(k) : k \in {j \in K : cli[j].todo # <<>> /\ Of(j) = c /\ cli[j].i > Len(cli[j].fds)}} ELSE {}
       IN  at' = [r \in DOMAIN at \ dead |-> at[r]]
    /\ UNCHANGED <<host, conf, cg, mon, st, cli, faults>>

\* The main loop sees that init is gone.
ChildReaped(c) ==
    /\ mon[c].pc = "run" /\ Init1(c) \notin DOMAIN at
    /\ mon' = [mon EXCEPT ![c].pc = "payload_destroy"]
    /\ st' = [st EXCEPT ![c] = "STOPPING"]
    /\ UNCHANGED <<host, conf, cg, at, cli, faults>>

-----------------------------------------------------------------------------
(* Clients.  Client k does the jobs cli[k].todo one after the other, each on *)
(* a container; it talks to the monitor over the command socket: an answer  *)
(* needs a monitor in its main loop, and fails when the monitor has left it.*)

Served(k) == mon[Of(k)].pc = "run"
Gone(k) == mon[Of(k)].pc \in {"payload_destroy", "monitor_destroy", "exit", "off", "fail"}
At(k, pc, kinds) == cli[k].todo # <<>> /\ cli[k].pc = pc /\ Job(k).kind \in kinds

\* A descriptor names a group of one run: a later group of that name is not it.
Valid(fd) == <<fd[1], fd[2]>> \in DOMAIN cg /\ cg[<<fd[1], fd[2]>>].own = fd[3]

Fd(c, h, path) == <<h, mon[c].base \o path, Own(mon[c], c)>>

\* lxc_cmd_get_limit_cgroup2_fd: the limiting group, on a unified machine only.
limit_cgroup2_fd(k) ==
    LET m == mon[Of(k)] IN IF Pure(m) THEN <<Fd(Of(k), Unified(m), m.lim)>> ELSE <<>>

GoCli(k, pc) == cli' = [cli EXCEPT ![k].pc = pc]

\* The job is over; what it reported stays in ok.
Answer(k, ok) ==
    cli' = [cli EXCEPT ![k] = [pc |-> "start", todo |-> Tail(@.todo), fds |-> <<>>, i |-> 1, ok |-> ok]]

\* lxc_cmd_get_cgroup_ctx: the descriptors of the container's groups.  The
\* process to be moved is a child of the client.
attach_ctx(k) ==
    /\ At(k, "start", {"attach"}) /\ Served(k) /\ Init1(Of(k)) \in DOMAIN at
    /\ LET m == mon[Of(k)] IN
        /\ cli' = [cli EXCEPT ![k].pc = "fd", ![k].i = 1,
                              ![k].fds = [i \in DOMAIN m.hs |-> Fd(Of(k), m.hs[i], m.con)]]
        /\ at' = (Attached(k) :> Here) @@ at
    /\ UNCHANGED <<host, conf, cg, mon, st, faults>>

\* The groups tried in a unified hierarchy: the leaf .lxc, made if need be,
\* the container's group itself, and .lxc-1, .lxc-2, ...
Leaves(p) == <<Append(p, <<".lxc", "", 0>>), p>>
             \o [n \in 1 .. MaxSuffix |-> Append(p, <<".lxc", "", n>>)]

MakeLeaf(w, h, p, own) ==
    LET leaf == Append(p, <<".lxc", "", 0>>)
    IN  IF There(w, h, leaf) THEN w ELSE Mkdir(w, h, leaf, own)

cgroup_attach_leaf(w, k, fd) ==
    LET h == fd[1]
        x == MakeLeaf(w, h, fd[2], fd[3])
        try(y, p) == LET z == IF There(y, h, p) THEN y ELSE Mkdir(y, h, p, fd[3])
                     IN  IF y.ok THEN y
                         ELSE IF Enter(z, Attached(k), h, p).ok THEN Enter(z, Attached(k), h, p) ELSE y
    IN  FoldLeft(try, Bad(x), Leaves(fd[2]))

\* The parent of the two processes used with an id mapping moves the process
\* through the descriptors the child opened.
cgroup_attach_move_into_leaf(w, k, fd) ==
    LET x == Enter(w, Attached(k), fd[1], Append(fd[2], <<".lxc", "", 0>>))
    IN  IF x.ok THEN x ELSE Enter(w, Attached(k), fd[1], fd[2])

\* One descriptor of __cgroup_attach_many; a failure ends the attach and the
\* process.
attach_fd(k) ==
    /\ At(k, "fd", {"attach"}) \/ At(k, "leaf", {"attach"})
    /\ Attached(k) \in DOMAIN at
    /\ cli[k].i <= Len(cli[k].fds)
    /\ LET fd == cli[k].fds[cli[k].i]
           w == World(Of(k))
           two == Uni(fd[1]) /\ conf[Of(k)].userns
           x == IF ~Valid(fd) THEN Bad(w)
                ELSE IF ~Uni(fd[1]) THEN Enter(w, Attached(k), fd[1], fd[2])
                ELSE IF ~two THEN cgroup_attach_leaf(w, k, fd)
                ELSE IF cli[k].pc = "fd" THEN MakeLeaf(w, fd[1], fd[2], fd[3])
                ELSE cgroup_attach_move_into_leaf(w, k, fd)
       IN  /\ cg' = x.cg
           /\ at' = IF x.ok THEN x.at ELSE [r \in DOMAIN at \ {Attached(k)} |-> at[r]]
           /\ IF ~x.ok THEN Answer(k, FALSE)
              ELSE IF two /\ cli[k].pc = "fd" THEN GoCli(k, "leaf")
              ELSE cli' = [cli EXCEPT ![k].pc = "fd", ![k].i = @ + 1]
    /\ UNCHANGED <<host, conf, mon, st, faults>>

\* The process ends, or ended with the container's pid namespace.
AttachedExits(k) ==
    /\ At(k, "fd", {"attach"}) \/ At(k, "leaf", {"attach"})
    /\ cli[k].i > Len(cli[k].fds) \/ Attached(k) \notin DOMAIN at
    /\ at' = [r \in DOMAIN at \ {Attached(k)} |-> at[r]]
    /\ Answer(k, TRUE)
    /\ UNCHANGED <<host, conf, cg, mon, st, faults>>

\* do_lxcapi_freeze, do_lxcapi_unfreeze: nothing is done when the state says
\* so; otherwise the descriptor of the limiting group is asked for.
Freezes(k) == Job(k).kind = "freeze"

freeze_ask(k) ==
    /\ At(k, "start", {"freeze", "thaw"}) /\ (Served(k) \/ Gone(k))
    /\ LET s == IF Gone(k) THEN "STOPPED" ELSE st[Of(k)]
       IN  IF IF Freezes(k) THEN s = "FROZEN" ELSE s \notin {"FROZEN", "FREEZING"}
           THEN Answer(k, TRUE)
           ELSE IF Gone(k) THEN Answer(k, FALSE)
           ELSE cli' = [cli EXCEPT ![k].pc = "announce",
                                   ![k].fds = limit_cgroup2_fd(k)]
    /\ UNCHANGED <<host, conf, cg, at, mon, st, faults>>

\* lxc_cmd_notify_state_listeners: the monitor takes the state over
\* (lxc_serve_state_clients; THAWED becomes RUNNING).
Notify(k, s) == st' = IF Served(k) THEN [st EXCEPT ![Of(k)] = s] ELSE st

freeze_announce(k) ==
    /\ At(k, "announce", {"freeze", "thaw"}) /\ (Served(k) \/ Gone(k))
    /\ Notify(k, IF Freezes(k) THEN "FREEZING" ELSE "RUNNING")
    /\ GoCli(k, "write")
    /\ UNCHANGED <<host, conf, cg, at, mon, faults>>

\* The group to be frozen: the descriptor, or the path the monitor tells.
Target(k) ==
    LET m == mon[Of(k)]
        hs == get_hierarchy(m, "freezer")
    IN  IF cli[k].fds # <<>> THEN {fd \in {cli[k].fds[1]} : Valid(fd)}
        ELSE IF Gone(k) THEN {}
        ELSE {Fd(Of(k), h, m.lim) : h \in hs}

do_cgroup_freeze(k) ==
    /\ At(k, "write", {"freeze", "thaw"})
    /\ cli[k].fds = <<>> => Served(k) \/ Gone(k)
    /\ IF Target(k) = {} THEN GoCli(k, "tell_failed") /\ UNCHANGED cg
       ELSE \E fd \in Target(k) :
                /\ cg' = [cg EXCEPT ![<<fd[1], fd[2]>>].frz = Freezes(k)]
                /\ GoCli(k, "wait")
    /\ UNCHANGED <<host, conf, at, mon, st, faults>>

\* Waits until the kernel reports the state that was asked for.
freeze_wait(k) ==
    /\ At(k, "wait", {"freeze", "thaw"})
    /\ cli[k].fds = <<>> => Served(k) \/ Gone(k)
    /\ \A fd \in Target(k) : cg[<<fd[1], fd[2]>>].frz = Freezes(k)
    /\ GoCli(k, IF Target(k) = {} THEN "tell_failed" ELSE IF cli[k].fds = <<>> THEN "tell_first" ELSE "tell")
    /\ UNCHANGED <<host, conf, cg, at, mon, st, faults>>

\* Mutant: the outcome is not announced.
freeze_tell_silent(k) ==
    /\ At(k, "tell_first", {"freeze", "thaw"}) \/ At(k, "tell", {"freeze", "thaw"})
       \/ At(k, "tell_failed", {"freeze", "thaw"})
    /\ Answer(k, cli[k].pc # "tell_failed")
    /\ UNCHANGED <<host, conf, cg, at, mon, st, faults>>

\* do_freeze_thaw announces the state once, its callers once more.
freeze_tell(k) ==
    /\ At(k, "tell_first", {"freeze", "thaw"}) \/ At(k, "tell", {"freeze", "thaw"})
       \/ At(k, "tell_failed", {"freeze", "thaw"})
    /\ Served(k) \/ Gone(k)
    /\ LET good == cli[k].pc # "tell_failed"
       IN  /\ Notify(k, IF Freezes(k) = good THEN "FROZEN" ELSE "RUNNING")
           /\ IF cli[k].pc = "tell_first" THEN GoCli(k, "tell") ELSE Answer(k, good)
    /\ UNCHANGED <<host, conf, cg, at, mon, faults>>

\* lxc_cmd_stop_callback: the signal first, then the container is thawed; on a
\* unified machine the monitor waits for that, elsewhere it writes the state
\* of the container's own group.
stop_callback(k) ==
    /\ At(k, "start", {"stop"}) /\ Served(k)
    /\ LET c == Of(k)
           m == mon[c]
           there == IF Pure(m) THEN {<<Unified(m), m.base \o m.lim>>}
                    ELSE {<<h, m.base \o m.con>> : h \in get_hierarchy(m, "freezer")}
       IN  /\ mon' = [mon EXCEPT ![c].killed = TRUE, ![c].pc = IF Pure(m) THEN "thaw" ELSE "run"]
           /\ cg' = [p \in DOMAIN cg |-> IF p \in there THEN [cg[p] EXCEPT !.frz = FALSE] ELSE cg[p]]
    /\ Answer(k, TRUE)
    /\ UNCHANGED <<host, conf, at, st, faults>>

StopThawed(c) ==
    /\ mon[c].pc = "thaw"
    /\ ~cg[<<Unified(mon[c]), mon[c].base \o mon[c].lim>>].frz
    /\ mon' = [mon EXCEPT ![c].pc = "run"]
    /\ UNCHANGED <<host, conf, cg, at, st, cli, faults>>

\* cgroup_set asks for the limiting group; what prepare_cgroup_fd hands out
\* for that request is the container's own.
prepare_cgroup_fd(m, limit) == IF limit THEN m.con ELSE m.lim

cgroup_set(k) ==
    /\ At(k, "start", {"set"}) /\ Served(k)
    /\ LET m == mon[Of(k)]
           hs == get_hierarchy(m, Job(k).item.ctl)
       IN  IF hs = {} THEN Answer(k, FALSE)
           ELSE \E h \in hs :
                  cli' = [cli EXCEPT ![k].fds = <<Fd(Of(k), h, prepare_cgroup_fd(m, TRUE))>>,
                                     ![k].pc = IF Uni(h) /\ Job(k).item.ctl = "devices" THEN "device" ELSE "set"]
    /\ UNCHANGED <<host, conf, cg, at, mon, st, faults>>

set_item(k) ==
    /\ At(k, "set", {"set"})
    /\ LET fd == cli[k].fds[1]
           w == IF Valid(fd) THEN WriteFile(World(Of(k)), fd[1], fd[2], Job(k).item) ELSE Bad(World(Of(k)))
       IN  cg' = w.cg /\ Answer(k, w.ok)
    /\ UNCHANGED <<host, conf, at, mon, st, faults>>

\* A device rule is handed to the monitor.
add_bpf_device(k) ==
    /\ At(k, "device", {"set"}) /\ (Served(k) \/ Gone(k))
    /\ LET c == Of(k)
           d == device_cgroup_rule_parse(Job(k).item.allow, Job(k).item.text)
       IN  IF d = NoRule \/ Gone(k) THEN Answer(k, FALSE) /\ UNCHANGED <<mon, faults>>
           ELSE \E v \in bpf_cgroup_devices_update(mon[c].v, d, host.replace) :
                  /\ v.fault => faults < MaxFaults
                  /\ faults' = faults + (IF v.fault THEN 1 ELSE 0)
                  /\ mon' = [mon EXCEPT ![c].v = [v EXCEPT !.ok = TRUE, !.fault = FALSE]]
                  /\ Answer(k, v.ok)
    /\ UNCHANGED <<host, conf, cg, at, st>>

\* Jobs on a container whose monitor has gone; a stop finds it stopped.
not_running(k) ==
    /\ At(k, "start", {"attach", "set", "stop"})
    /\ Gone(k) \/ (Job(k).kind = "attach" /\ Served(k) /\ Init1(Of(k)) \notin DOMAIN at)
    /\ Answer(k, Job(k).kind = "stop")
    /\ UNCHANGED <<host, conf, cg, at, mon, st, faults>>

-----------------------------------------------------------------------------
\* The machine before any container: the root of every hierarchy, the group of
\* the user who calls, and groups somebody else made.  The controllers are
\* passed on to the scopes systemd makes.
InitTree(h) ==
    LET self == {SubSeq(h.self, 1, n) : n \in 0 .. Len(h.self)}
        paths(i) == self \cup {p[2] : p \in {q \in h.left : q[1] = i}}
    IN  [k \in UNION {{i} \X paths(i) : i \in DOMAIN h.lines} |->
            [own |-> <<"host", 0>>, lim |-> {}, frz |-> FALSE, given |-> FALSE, clone |-> FALSE,
             cpus |-> h.cpus,
             sub |-> IF h.lines[k[1]].uni /\ (k[2] = <<>> \/ k[2] # h.self \/ h.systemd)
                     THEN h.lines[k[1]].ctl ELSE {}]]

Init ==
    /\ \E s \in Setups :
        /\ host = s.host /\ conf = s.conf /\ cg = InitTree(s.host)
        /\ cli = [k \in K |-> [pc |-> "start", todo |-> s.jobs[k], fds |-> <<>>, i |-> 1, ok |-> TRUE]]
    /\ at = <<>>
    /\ mon = [c \in C |-> Idle]
    /\ st = [c \in C |-> "STOPPED"]
    /\ faults = 0

MonitorNext(c) ==
    \/ cgroup_init(c) \/ TransientExits(c) \/ monitor_create(c) \/ monitor_delegate(c)
    \/ monitor_enter(c) \/ payload_create(c) \/ clone(c) \/ setup_limits_legacy(c)
    \/ payload_delegate(c) \/ payload_enter(c) \/ setup_limits(c) \/ chown(c) \/ mount(c)
    \/ device_limits(c) \/ devices_activate(c) \/ finalize(c) \/ lxc_abort(c)
    \/ payload_destroy(c) \/ monitor_destroy(c) \/ cgroup_exit(c)
    \/ InitNests(c) \/ InitDies(c) \/ ChildReaped(c) \/ StopThawed(c)

ClientNext(k) ==
    \/ attach_ctx(k) \/ attach_fd(k) \/ AttachedExits(k)
    \/ freeze_ask(k) \/ freeze_announce(k) \/ do_cgroup_freeze(k) \/ freeze_wait(k) \/ freeze_tell(k)
    \/ stop_callback(k) \/ cgroup_set(k) \/ set_item(k) \/ add_bpf_device(k) \/ not_running(k)

Next == (\E c \in C : MonitorNext(c)) \/ (\E k \in K : ClientNext(k))

Spec == Init /\ [][Next]_vars

-----------------------------------------------------------------------------
(* Properties *)

Running(c) == mon[c].pc \in {"run", "thaw"}

\* While a container runs, its init and every process attached to it are at or
\* below a group that this very start made (payload_create, payload_enter,
\* clone into the cgroup, cgroup_attach), in every hierarchy the monitor uses:
\* two containers never share a group, whatever their names and directories.
InOwnGroups ==
    \A c \in C : Running(c) =>
        \A h \in Hier(mon[c]) :
            LET g == mon[c].base \o mon[c].con
                procs == {Init1(c)} \cup {Attached(k) : k \in {j \in K :
                            At(j, "fd", {"attach"}) /\ Of(j) = c /\ cli[j].i > Len(cli[j].fds)
                            /\ \A f \in Range(cli[j].fds) : f[3] = Own(mon[c], c)}}
            IN  /\ <<h, g>> \in DOMAIN cg /\ cg[<<h, g>>].own = Own(mon[c], c)
                /\ \A r \in procs \cap DOMAIN at : IsPrefix(g, at[r][h])

\* A monitor only ever removes groups of its own run: neither an undone
\* attempt at a taken name (cgroup_tree_prune_leaf) nor the final removal
\* (payload_destroy, monitor_destroy) touches a group somebody else made.  The
\* pivot inside a systemd scope goes with the scope.
OthersKept ==
    \A c \in C : mon'[c] # mon[c] =>
       \A k \in DOMAIN cg \ DOMAIN cg' :
           \/ cg[k].own = Own(mon[c], c)
           \/ mon[c].scope # <<>> /\ Front(k[2]) = mon[c].scope /\ cg[k].own[1] = "pivot"

\* A running container has every limit of its configuration in force on its
\* limiting group, and on its own group for cpusets; the order in which the
\* groups are made, entered and written never leaves one out.
LimitsInForce ==
    \A c \in C : Running(c) /\ mon[c].hs # <<>> =>
        LET m == mon[c]
            on(s, path) == \A h \in get_hierarchy(m, s.ctl) : s.key \in cg[<<h, m.base \o path>>].lim
        IN  /\ ~Pure(m) => \A s \in Range(conf[c].legacy) :
                    (s.ctl = "devices" /\ ~host.root) \/ (on(s, m.lim) /\ (s.ctl = "cpuset" => on(s, m.con)))
            /\ Pure(m) => \A s \in Range(conf[c].unified) : s.ctl # "devices" =>
                    s.key \in cg[<<Unified(m), m.base \o m.lim>>].lim

\* A container that runs is held by its own groups and by its limits.
Confined == InOwnGroups /\ LimitsInForce

\* What a configuration asks for is there on this machine.
Supported(c) ==
    LET f == conf[c]
        usable == {i \in DOMAIN host.lines : hierarchy_delegated(host.lines[i])
                                             /\ (host.lines[i].uni \/ ~skip_hierarchy(host.lines[i]))}
        uni == \A i \in usable : Uni(i)
        has(s) == \E i \in usable : s.ctl \in host.lines[i].ctl
    IN  /\ usable # {}
        /\ \A u \in host.use : \E i \in usable : u \in host.lines[i].ctl
        /\ f.mdir = <<>> /\ f.cdir = <<>> /\ f.ndir = <<>>
        /\ uni \/ \A s \in Range(f.legacy) : has(s)
        /\ uni => /\ AutoMount(f) = "" \/ f.cgns
                  /\ \A s \in Range(f.unified) : (host.root \/ host.systemd) /\ (s.ctl = "devices" \/ has(s))
        /\ ~uni => AutoMount(f) \notin {"cgroup2:rw", "cgroup2:ro"}
        /\ \A i \in usable : Cpuset1(i) => host.cpus # {}

\* Without failing system calls the start of a container whose configuration
\* the machine supports comes through all its cgroup steps: a taken name is
\* replaced by the next one, settings are written in an order the kernel
\* takes, and no group is entered before it is ready to be entered.
StartSucceeds ==
    \A c \in C : faults = 0 /\ Supported(c) /\ mon[c].idx < MaxSuffix => mon[c].pc # "fail"

\* The removal at the end leaves a group of this run only where another process is
\* still in it or beside it (cgfsng_payload_destroy, cgfsng_monitor_destroy and
\* what attaching and nesting made below), if nothing failed.
CleanedUp ==
    \A c \in C : faults' = 0 /\ mon[c].pc \in {"payload_destroy", "monitor_destroy"} /\ mon'[c].pc # mon[c].pc =>
       LET m == mon[c]
           top == m.base \o IF m.pc = "payload_destroy" THEN m.lim ELSE m.mon
           left == {k \in DOMAIN cg' : k[1] \in Hier(m) /\ IsPrefix(top, k[2]) /\ cg'[k].own = Own(m, c)}
       IN  \A k \in left : \E r \in DOMAIN at' \ {Monitor(c)} : <<k[1], at'[r][k[1]]>> \in left

\* Groups are removed by the run that made them, and by it they are.
RemovesOwn == [][OthersKept /\ CleanedUp]_vars

\* A device update that was answered with success only widens what an allow
\* rule may widen and only narrows what a deny rule may narrow, and in a list
\* that blocks by default everything the allow rule covers is permitted, if
\* list and program agreed before (bpf_cgroup_devices_update).
DevicePolicy ==
    [][\A k \in K : At(k, "device", {"set"}) /\ cli'[k].pc = "start" /\ cli'[k].ok =>
         LET c == Of(k)
             d == device_cgroup_rule_parse(Job(k).item.allow, Job(k).item.text)
             v == mon[c].v
             was == Permitted(v.kern)
             now == Permitted(mon'[c].v.kern)
             covered == {q \in Requests : bpf_program_append_device(d, q[1], q[2])}
         IN  (v.cur.there /\ was = Permitted(<<__bpf_cgroup_devices(v.list)>>)) =>
                /\ d.allow => was \subseteq now /\ (v.list.block => covered \subseteq now)
                /\ ~d.allow => now \subseteq was]_vars

\* With one client freezing and thawing, a running container's state tells
\* whether it is frozen whenever no such call is under way; a call that began
\* before the container was started again may tell the new run an old state.
StateTellsFrozen ==
    \A c \in C : mon[c].pc = "run" /\ ~mon[c].killed /\ mon[c].runs = 1
                 /\ (\A k \in K : At(k, cli[k].pc, {"freeze", "thaw"}) => cli[k].pc = "start")
                 /\ Init1(c) \in DOMAIN at =>
        (st[c] = "FROZEN") = \E h \in Hier(mon[c]) : Frozen(c, h)
=============================================================================
