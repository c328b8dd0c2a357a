------------------------------ MODULE CgroupFs ------------------------------
(***************************************************************************)
(* Control groups as the kernel keeps them, and the functions of            *)
(* cgroups/cgfsng.c and cgroups/cgroup_utils.c that make, fill and remove   *)
(* them.  A world w has the tree w.cg, a function from <<hierarchy, path>>  *)
(* to the attributes of the group, and w.at, the group of every process in  *)
(* every hierarchy.  Paths are sequences of names; <<>> is the root.  The   *)
(* attributes are own (<<container, run>> that made it), sub                *)
(* (cgroup.subtree_control), lim (the settings written), cpus and clone     *)
(* (cpuset.cpus and cgroup.clone_children), given (owned by the container's *)
(* root) and frz (cgroup.freeze or freezer.state as written).  Operators    *)
(* that can fail return the set of worlds they may leave, with w.ok and,    *)
(* when a system call failed that need not have, w.fault.                   *)
(***************************************************************************)
EXTENDS Integers, Sequences, SequencesExt, TLC

VARIABLE host   \* the machine: the hierarchies it mounts and what they allow

Uni(h) == host.lines[h].uni
Cpuset1(h) == ~Uni(h) /\ "cpuset" \in host.lines[h].ctl

Ok(w) == [w EXCEPT !.ok = TRUE]
Bad(w) == [w EXCEPT !.ok = FALSE]
Fault(w) == [w EXCEPT !.ok = FALSE, !.fault = TRUE]

\* op applied to every world of ws that is still fine.
Then(ws, op(_)) == UNION {IF w.ok THEN op(w) ELSE {w} : w \in ws}

(* What the kernel does. *)
There(w, h, p) == <<h, p>> \in DOMAIN w.cg
Within(w, h, p) == {k \in DOMAIN w.cg : k[1] = h /\ IsPrefix(p, k[2])}
Busy(w, k) == \E r \in DOMAIN w.at : w.at[r][k[1]] = k[2]
Removable(w, k) == \A j \in Within(w, k[1], k[2]) : ~Busy(w, j)

\* The controllers whose files a group of the unified hierarchy has.
Enabled(w, h, p) == IF p = <<>> THEN host.lines[h].ctl ELSE w.cg[<<h, Front(p)>>].sub

Mkdir(w, h, p, own) ==
    LET up == w.cg[<<h, Front(p)>>]
    IN  [w EXCEPT !.cg = @ @@ (<<h, p>> :>
            [own |-> own, sub |-> {}, lim |-> {}, frz |-> FALSE, given |-> FALSE, clone |-> up.clone,
             cpus |-> IF Cpuset1(h) /\ up.clone THEN up.cpus ELSE {}])]

Rmdir(w, ks) == [w EXCEPT !.cg = [k \in DOMAIN @ \ ks |-> @[k]]]

\* A write to cgroup.procs.  The unified hierarchy keeps processes out of
\* groups that pass controllers on; a cpuset without cpus takes none.
Enter(w, r, h, p) ==
    IF \/ ~There(w, h, p)
       \/ Uni(h) /\ p # <<>> /\ w.cg[<<h, p>>].sub # {}
       \/ Cpuset1(h) /\ w.cg[<<h, p>>].cpus = {}
    THEN Bad(w)
    ELSE [w EXCEPT !.at[r][h] = p, !.ok = TRUE]

\* A write to cgroup.subtree_control, refused in a group that holds processes.
Subtree(w, h, p, ctl) ==
    IF (p # <<>> /\ Busy(w, <<h, p>>)) \/ ~(ctl \subseteq Enabled(w, h, p))
    THEN Bad(w)
    ELSE [w EXCEPT !.cg[<<h, p>>].sub = @ \cup ctl, !.ok = TRUE]

\* A write to a control file.  memory.memsw needs memory.limit before it, and
\* the legacy devices controller refuses "a" once there are groups below.
WriteFile(w, h, p, s) ==
    IF \/ ~There(w, h, p)
       \/ Uni(h) /\ s.ctl \notin Enabled(w, h, p)
       \/ ~Uni(h) /\ s.ctl \notin host.lines[h].ctl
       \/ s.key = "memory.memsw" /\ "memory.limit" \notin w.cg[<<h, p>>].lim
       \/ ~Uni(h) /\ s.ctl = "devices" /\ Within(w, h, p) # {<<h, p>>}
    THEN Bad(w)
    ELSE [w EXCEPT !.cg[<<h, p>>].lim = @ \cup {s.key}, !.ok = TRUE]

-----------------------------------------------------------------------------
\* The cpu list handed to a new cpuset group.  A list with a comma in it was
\* cut at the first one while it was parsed (lxc_iterate_parts).
FirstRun(cpus) == {x \in cpus : (Min(cpus) .. x) \subseteq cpus}

lxc_cpumask_update(mask, list) == mask \ {x \in list : \E y \in mask : x <= y}

cpuset1_cpus_initialize(cpus) ==
    LET mask == lxc_cpumask_update(lxc_cpumask_update(cpus, host.isol), host.offline)
    IN  IF host.isol \cup host.offline = {} THEN cpus
        ELSE IF mask = cpus THEN mask
        ELSE FirstRun(cpus)

\* The first group of a new path takes its cpus from the base and passes them
\* on to the groups made below it.
cpuset1_initialize(w, h, base, p) ==
    LET up == w.cg[<<h, base>>]
    IN  [w EXCEPT !.cg[<<h, p>>].cpus =
                      IF up.clone THEN @ ELSE cpuset1_cpus_initialize(up.cpus),
                  !.cg[<<h, p>>].clone = TRUE]

\* Mutant: a group that exists is taken over.
TreeCreate_takes(w, h, base, path, own, eexist) ==
    LET at(n) == base \o SubSeq(path, 1, n)
        made(x, n) == IF There(x, h, at(n)) THEN x ELSE Mkdir(x, h, at(n), own)
    IN  {Ok(FoldLeft(made, w, [n \in 1 .. Len(path) |-> n])), Fault(w)}

\* Makes the missing groups of base/path, one after the other; the last one
\* must be new unless eexist.
__cgroup_tree_create(w, h, base, path, own, eexist) ==
    LET at(n) == base \o SubSeq(path, 1, n)
        made(x, n) == LET y == IF There(x, h, at(n)) THEN x ELSE Mkdir(x, h, at(n), own)
                      IN  IF n = 1 /\ Cpuset1(h) THEN cpuset1_initialize(y, h, base, at(1)) ELSE y
        new == FoldLeft(made, w, [n \in 1 .. Len(path) |-> n])
        first == IF There(w, h, at(1)) THEN w ELSE Mkdir(w, h, at(1), own)
    IN  {IF There(w, h, base \o path) /\ ~eexist THEN Bad(new) ELSE Ok(new), Fault(w)}
        \cup IF Cpuset1(h) THEN {Fault(first)} ELSE {}

\* Removes the groups below path, deepest first, then path; it stops at the
\* first that is in use, with any of the others gone or not.
cgroup_tree_prune(w, h, path) ==
    LET free == {k \in Within(w, h, path) : Removable(w, k)}
    IN  IF ~There(w, h, path) THEN {Bad(w)}
        ELSE IF <<h, path>> \in free THEN {Ok(Rmdir(w, free))}
        ELSE {Bad(Rmdir(w, ks)) : ks \in {s \in SUBSET free :
                  \A k \in s : Within(w, h, k[2]) \subseteq s}}
=============================================================================
