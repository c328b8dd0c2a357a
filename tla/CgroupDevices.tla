--------------------------- MODULE CgroupDevices ---------------------------
(***************************************************************************)
(* The device controller of the unified hierarchy (cgroups/cgroup2_devices.c, *)
(* and the parsing and conversion of rules in cgroups/cgfsng.c): a list of  *)
(* device rules kept in the container's configuration, the eBPF program     *)
(* built from it, and the replacement of the attached program when a rule   *)
(* is added to a running container.                                         *)
(*                                                                          *)
(* A rule is [allow, type, major, minor, access]; -1 stands for "any", and  *)
(* access is the set of the letters given.  A list is [block, rules] with   *)
(* the newest rule first; block is TRUE for LXC_BPF_DEVICE_CGROUP_ALLOWLIST *)
(* (all devices refused by default).  A program is what its instructions    *)
(* decide: the rules it tests, in order, and the verdict it falls through to.*)
(***************************************************************************)
EXTENDS Integers, Sequences, SequencesExt

Letters == {"r", "w", "m"}
DeviceKinds == [type : {"b", "c"}, major : 0 .. 1, minor : 0 .. 1]
\* The accesses a process may ask the kernel for: a device and some letters.
Requests == DeviceKinds \X (SUBSET Letters \ {{}})

NoRule == [allow |-> FALSE, type |-> "", major |-> -1, minor |-> -1, access |-> {}]
NoProg == [there |-> FALSE, rules |-> <<>>, pass |-> FALSE, onCg |-> FALSE, live |-> FALSE]

\* The letters of the access field; any other letter refuses the rule.
device_cgroup_parse_access(val) ==
    IF val \subseteq Letters THEN val ELSE {"bad"}

\* A line "type major:minor access" of lxc.cgroup2.devices.{allow,deny}; the
\* lone "a" is the global rule.
device_cgroup_rule_parse(allow, t) ==
    IF t.type \notin {"a", "b", "c"} \/ device_cgroup_parse_access(t.access) = {"bad"}
    THEN NoRule
    ELSE [allow |-> allow, type |-> t.type, major |-> t.major, minor |-> t.minor,
          access |-> device_cgroup_parse_access(t.access)]

\* A line "/dev/name access": the node is looked up, and the rule allows it.
device_cgroup_rule_parse_devpath(t) ==
    IF t.type \notin {"/b", "/c"} \/ device_cgroup_parse_access(t.access) = {"bad"}
    THEN NoRule
    ELSE [allow |-> TRUE, type |-> IF t.type = "/b" THEN "b" ELSE "c",
          major |-> t.major, minor |-> t.minor, access |-> t.access]

bpf_device_list_block_all(l) == l.block

\* Rules that only repeat the default verdict are left out of the program.
bpf_device_add(l, d) == bpf_device_list_block_all(l) = d.allow

GlobalRule(d) == d.type = "a" /\ d.major < 0 /\ d.minor < 0 /\ d.access = {}

SameDevice(d, e) ==
    /\ d.type = e.type /\ d.major = e.major /\ d.minor = e.minor
    /\ d.access = e.access

\* Takes the rule into the list and says whether the list changed.  The first
\* rule for the same device that the program tests is flipped in place.
bpf_list_add_device(l, d) ==
    LET hits == {i \in DOMAIN l.rules : SameDevice(l.rules[i], d) /\ bpf_device_add(l, l.rules[i])}
        first == CHOOSE i \in hits : \A j \in hits : i <= j
    IN  IF GlobalRule(d) THEN [list |-> [block |-> ~d.allow, rules |-> <<>>], new |-> TRUE]
        ELSE IF hits = {}
        THEN [list |-> [l EXCEPT !.rules = <<d>> \o @], new |-> TRUE]
        ELSE [list |-> [l EXCEPT !.rules[first].allow = d.allow],
              new |-> l.rules[first].allow # d.allow]

\* The instructions of one rule: every test jumps past the decision when the
\* request differs; the access test asks for no letter the rule lacks.
bpf_program_append_device(d, dev, acc) ==
    /\ acc \subseteq d.access
    /\ d.type \in {"a", dev.type}
    /\ d.major \in {-1, dev.major}
    /\ d.minor \in {-1, dev.minor}

\* The program of a list; bpf_program_finalize adds the default verdict.
__bpf_cgroup_devices(l) ==
    [rules |-> SelectSeq(l.rules, LAMBDA d : bpf_device_add(l, d)),
     there |-> FALSE, pass |-> ~bpf_device_list_block_all(l), onCg |-> FALSE, live |-> FALSE]

\* What the kernel answers when it runs the program on a request.
Verdict(prog, dev, acc) ==
    LET hits == {i \in DOMAIN prog.rules : bpf_program_append_device(prog.rules[i], dev, acc)}
    IN  IF hits = {} THEN prog.pass
        ELSE prog.rules[CHOOSE i \in hits : \A j \in hits : i <= j].allow

\* Several attached programs must all agree (BPF_F_ALLOW_MULTI).
Permitted(progs) ==
    {q \in Requests : \A i \in DOMAIN progs : Verdict(progs[i], q[1], q[2])}

-----------------------------------------------------------------------------
(* v is the device state of a monitor: list (conf->bpf_devices), cur        *)
(* (ops->cgroup2_devices), kern (the programs attached to the limit cgroup),*)
(* repl (the remembered can_use_bpf_replace) and the result ok of a call;   *)
(* fault marks an outcome in which a system call failed.                    *)

Core(g) == [rules |-> g.rules, pass |-> g.pass]

bpf_program_cgroup_detach(v) ==
    [v EXCEPT !.kern = IF v.cur.onCg /\ v.cur.live THEN Remove(@, Core(v.cur)) ELSE @,
              !.cur.onCg = FALSE, !.cur.live = FALSE]

\* A program is loaded and attached next to those that are there; from then on
\* it knows its cgroup.
bpf_program_cgroup_attach(v, g) ==
    [v EXCEPT !.kern = Append(@, Core(g)), !.ok = TRUE,
              !.cur = [g EXCEPT !.there = TRUE, !.onCg = TRUE, !.live = TRUE]]

\* The previous program, if any, goes when the new one is in place.
bpf_cgroup_devices_attach(v) ==
    {[v EXCEPT !.ok = FALSE, !.fault = TRUE],
     bpf_program_cgroup_attach(bpf_program_cgroup_detach(v), __bpf_cgroup_devices(v.list))}

\* Mutant: the old program stays attached next to the new one.
SwapProgram_keeps(v, g, replaces) ==
    {[v EXCEPT !.kern = Append(@, Core(g)), !.ok = TRUE,
               !.cur = [g EXCEPT !.there = TRUE, !.onCg = TRUE, !.live = TRUE]]}

\* With BPF_F_REPLACE the new program takes over the descriptor of the cgroup;
\* without it the new one is added, the old one detached, and the new program
\* never learns its cgroup, so that the next update is refused by the kernel.
SwapProgram(v, g, replaces) ==
    IF ~v.cur.onCg THEN {[v EXCEPT !.ok = FALSE, !.repl = IF @ = -1 THEN 0 ELSE @]}
    ELSE IF v.repl # 0 /\ replaces
    THEN {[v EXCEPT !.kern = Append(Remove(@, Core(v.cur)), Core(g)), !.repl = 1, !.ok = TRUE,
                    !.cur = [g EXCEPT !.there = TRUE, !.onCg = TRUE, !.live = TRUE]]}
    ELSE {[v EXCEPT !.kern = Append(Remove(@, Core(v.cur)), Core(g)), !.repl = 0, !.ok = TRUE,
                    !.cur = [g EXCEPT !.there = TRUE, !.live = TRUE]]}

bpf_cgroup_devices_update(v, d, replaces) ==
    LET a == bpf_list_add_device(v.list, d)
        n == [v EXCEPT !.list = a.list]
        g == __bpf_cgroup_devices(n.list)
    IN  IF ~a.new THEN {[v EXCEPT !.ok = TRUE]}
        ELSE IF ~v.cur.there THEN bpf_cgroup_devices_attach(n)
        ELSE {[n EXCEPT !.ok = FALSE, !.fault = TRUE]} \cup SwapProgram(n, g, replaces)
============================================================================
