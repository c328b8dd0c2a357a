---------------------------- MODULE AttachProofs ----------------------------
(***************************************************************************)
(* Proofs about Attach, for every set of setups, any number of calls and   *)
(* any number of faults: a program that runs is where and what was asked   *)
(* for, it is confined before its first step, and lxc_attach() cleans up   *)
(* on every way out.                                                       *)
(*                                                                         *)
(* The argument has three parts.  What the caller has learned about init   *)
(* is true, or init has exited since (Known, Planned).  At each place of   *)
(* the caller it is known how far the other two have got (Where).  And a   *)
(* process has, at each place, what it got from its parent and what it has *)
(* done itself (TransientHas, AttachedHas).                                *)
(***************************************************************************)
EXTENDS Attach, TLAPS

-----------------------------------------------------------------------------
(* The inductive invariant                                                 *)

Opening == {"pidfd", "pid", "flags", "open", "check", "status", "seccomp", "nnp", "prepare", "terminal", "fork"}
Preparing == {"cgroup", "limits", "go"}
ParPc == Opening \cup Preparing \cup
         {"idle", "getpid", "reap", "label", "notifier", "shut", "loop", "cleanup", "ret", "killed"}
TrPc == {"no", "wait", "ns", "clone", "tell", "ok", "bad", "reaped"}
AttPc == {"no", "setup", "lsm", "ids", "filter", "switch", "run", "done", "reaped"}
Past == {"ids", "filter", "switch", "run"}

\* The fields of the records.
ParShape ==
    /\ par = [f \in {"pc", "n", "ret", "clean", "raw", "early", "told", "byfd"} |-> par[f]]
    /\ par.pc \in ParPc /\ par.ret \in {0, -1} /\ par.clean \in {"no", "tr", "att"}
TrShape ==
    /\ tr = [f \in {"pc", "ns", "cg", "limits", "fds", "killed"} |-> tr[f]]
    /\ tr.pc \in TrPc
AttShape ==
    /\ att = [f \in {"pc", "ns", "cg", "limits", "fds", "caps", "label", "nnp", "sec", "uid", "env", "prog"} |-> att[f]]
    /\ att.pc \in AttPc
IpcShape ==
    /\ ipc = [f \in {"up", "down", "shut"} |-> ipc[f]]
    /\ ipc.up \in Seq({"pid", "fd"}) /\ ipc.down \in Seq({"go", "fd"})
CtxShape ==
    ctx = [f \in {"pidfd", "pid", "dfd", "flags", "ask", "ns", "inh", "fd", "label", "sec", "nnp", "suid", "tuid"} |-> ctx[f]]
Shape == ParShape /\ TrShape /\ AttShape /\ IpcShape /\ CtxShape

\* A run of the container that has begun, and ended when another one has.  Init's
\* pid is another's only after init is gone.
Begun(p) == p \in Runs /\ (p = box.cur \/ box.cur = "c2")
BoxOk ==
    /\ box = [f \in {"cur", "mon", "init", "owner"} |-> box[f]]
    /\ box.cur \in Runs
    /\ box.init \in [Runs -> {"run", "zombie", "gone"}] /\ box.owner \in [Runs -> {"c1", "c2", "other", "no"}]
    /\ ~box.mon => box.init[box.cur] = "gone"
    /\ box.cur = "c2" => box.init["c1"] = "gone"
    /\ \A p \in Runs : box.owner[p] \in {p, "no", "other"} /\ (box.init[p] # "gone" => box.owner[p] = p)

\* What the caller has learned by the time it is at one of these places, and
\* keeps as long as there is a transient process.
Since(places) == tr.pc # "no" \/ par.pc \in places
InitGone == box.init[ctx.pid] = "gone"
InitEnded == box.init[ctx.pid] # "run"

KnowsPid == Since(Opening \ {"pidfd", "pid"}) => Begun(ctx.pid)
KnowsFlags == Since(Opening \ {"pidfd", "pid", "flags"}) => ctx.flags = cfg.own[ctx.pid] \/ InitGone
KnowsPidfd ==
    /\ par.pc \in {"pidfd", "pid"} => ctx.pidfd = "no" /\ ~par.byfd
    /\ par.byfd /\ par.pc \in {"flags", "open", "check"} => ctx.pidfd = ctx.pid
    /\ Since(Opening \ {"pidfd", "pid"}) => ctx.pidfd \in {"no", ctx.pid}
KnowsProcess ==
    /\ par.byfd /\ par.pc = "check" => ctx.dfd = ctx.pid \/ InitGone
    /\ par.byfd /\ Since({"status", "seccomp", "nnp", "prepare", "terminal", "fork"}) => ctx.dfd = ctx.pid
KnowsNamespaces ==
    /\ par.pc \in {"pidfd", "pid", "flags", "open", "check"} => ctx.inh = {}
    /\ par.pc \in {"status", "seccomp", "nnp", "prepare"} =>
        IF ctx.ask # {"all"} THEN ctx.ns = ctx.ask /\ ctx.inh = {}
        ELSE ctx.ns = ctx.flags /\ ctx.inh = {n \in NS \ ctx.flags : n = "cgroup" => Has("cgroup") /\ cfg.cgns}
KnowsIds ==
    Since({"seccomp", "nnp", "prepare", "terminal", "fork"}) =>
        ctx.suid = userns_setup_ids(ctx.ns) /\ ctx.tuid = userns_target_ids(ctx.ns, ctx.suid)
KnowsFilter ==
    Since({"nnp", "prepare", "terminal", "fork"}) => (attach_lsm => ctx.sec \in {cfg.sec, "bad"}) \/ InitGone
KnowsNnp == Since({"prepare", "terminal", "fork"}) => (cfg.nnp => ctx.nnp) \/ InitGone
Mine == mine = [n \in NS |-> mine[n]] /\ \A n \in NS \ {"time"} : mine[n] = IF n \in cfg.here THEN "mine" ELSE "host"

Known ==
    /\ KnowsPid /\ KnowsFlags /\ KnowsPidfd /\ KnowsProcess /\ KnowsNamespaces /\ KnowsIds /\ KnowsFilter /\ KnowsNnp
    /\ Mine

\* The namespace the transient process will be in, and that it is the right one.
Plan(n) ==
    IF ctx.pidfd # "no" THEN IF n \in ctx.ns \cup ctx.inh THEN NsOf(ctx.pidfd)[n] ELSE mine[n]
    ELSE IF ctx.fd[n] # "no" THEN ctx.fd[n] ELSE mine[n]
PlanRight == ctx.dfd = ctx.pid => \A n \in NS : Plan(n) = Expected(ctx.pid, n)
Planned == Since({"terminal", "fork"}) => PlanRight \/ InitEnded

\* The label's descriptor is not sent yet, and "go" is for the transient process:
\* the attached process finds nothing to take for the descriptor.
NotSent ==
    /\ ipc.down \in {<<>>, <<"go">>}
    /\ ipc.down = <<"go">> => att.pc = "no" /\ tr.pc \in {"wait", "bad", "reaped"}
    /\ ctx.label => att.pc \notin Past

\* The transient process is where the caller wants it.
Ready == tr.limits /\ (Has("cgroup") => tr.cg \in Runs)
NoMessages == ipc.up = <<>> /\ ipc.down = <<>> /\ ~ipc.shut

\* What is true at each place of the caller.
AtOpening ==
    par.pc \in Opening =>
        /\ tr.pc = "no" /\ att.pc = "no" /\ NoMessages
        /\ par.ret = 0 /\ par.clean = "no" /\ ~par.told
AtPreparing ==
    par.pc \in Preparing =>
        /\ tr.pc \in {"wait", "bad"} /\ att.pc = "no" /\ NoMessages
        /\ par.ret = 0 /\ par.clean = "tr" /\ ~par.told
        /\ par.pc # "cgroup" => (Has("cgroup") => tr.cg \in Runs)
        /\ par.pc = "go" => tr.limits
AtGetpid == par.pc = "getpid" => NotSent /\ Ready /\ tr.pc \notin {"no", "reaped"} /\ par.ret = 0 /\ par.clean = "tr" /\ ~par.told
AtReap == par.pc = "reap" => NotSent /\ Ready /\ tr.pc = "ok" /\ par.ret = 0 /\ par.clean = "tr"
AtLabel == par.pc = "label" => NotSent /\ Ready /\ tr.pc = "reaped" /\ par.ret = 0 /\ par.clean = "att"
AtSent == par.pc \in {"notifier", "shut", "loop"} =>
              /\ Ready /\ tr.pc = "reaped" /\ par.ret = 0
              /\ par.clean = IF par.pc = "loop" THEN "no" ELSE "att"
AtEnd ==
    par.pc \in {"cleanup", "ret"} =>
        /\ par.ret = 0 => par.clean = "no" /\ tr.pc = "reaped" /\ Ready
        /\ par.ret = -1 /\ par.clean = "no" => tr.pc = "no" /\ att.pc = "no" /\ par.early /\ par.pc = "ret"
        /\ par.ret = -1 /\ par.clean = "tr" => NotSent /\ ~par.told /\ tr.pc # "no" /\ (par.pc = "ret" => tr.pc = "reaped")
        /\ par.clean = "att" => Ready /\ tr.pc = "reaped" /\ (par.pc = "ret" => att.pc = "reaped")
        /\ par.pc = "ret" => par.early \/ ~par.raw
AtKilled == par.pc = "killed" => NotSent /\ tr.pc = "bad" /\ att.pc = "no"
\* Between two calls nothing of the last one can still change, but the program
\* of an unlabelled container.
AtIdle == par.pc = "idle" => tr.pc \in {"no", "reaped"} /\ (NotSent \/ att.pc \in {"no", "reaped"})

Where == AtOpening /\ AtPreparing /\ AtGetpid /\ AtReap /\ AtLabel /\ AtSent /\ AtEnd /\ AtKilled /\ AtIdle

\* "pid" comes from a transient process that has done its work.
PidMeansOk == \A i \in DOMAIN ipc.up : ipc.up[i] = "pid" => tr.pc \in {"ok", "reaped"}

\* What the transient process has at each place.
TransientHas ==
    /\ tr.cg \in Runs => tr.cg = ctx.pid \/ InitGone
    /\ tr.cg \in Runs \cup {"no"} /\ (tr.pc = "no" => tr.cg = "no")
    /\ tr.pc \in {"wait", "ns"} => tr.ns = mine
    /\ tr.pc = "wait" => tr.fds \subseteq {"self", "init", "ns", "pidfd"}
    /\ tr.pc = "ns" => tr.fds \subseteq {"ns", "pidfd"}
    /\ tr.pc \in {"clone", "tell"} => tr.fds = {} /\ tr.ns = [n \in NS |-> Plan(n)]
    /\ tr.pc \in {"clone", "tell"} \/ att.pc # "no" => (ctx.pidfd # "no" => PlanRight /\ tr.cg \in {"no", ctx.pid})

\* What the attached process has at each place.  It dies with its pid namespace.
AttachedHas ==
    /\ att.pc # "no" =>
        /\ tr.pc \in {"tell", "ok", "bad", "reaped"}
        /\ att.limits = tr.limits /\ att.cg = tr.cg /\ att.fds = {} /\ att.ns = [n \in NS |-> Plan(n)]
        /\ att.pc \notin {"done", "reaped"} /\ att.ns["pid"] \in Runs => box.init[att.ns["pid"]] = "run"
    /\ att.pc \in {"lsm"} \cup Past =>
        (att.caps <=> Has("caps")) /\ att.env = set_environment(cfg.keep, cfg.env, cfg.conf, cfg.extra)
    /\ att.pc \in {"filter", "switch", "run"} => (att.label <=> ctx.label) /\ (ctx.nnp => att.nnp)
    /\ att.pc \in {"filter", "switch"} /\ "user" \in ctx.ns => att.uid = ctx.suid
    /\ att.pc \in {"switch", "run"} => att.sec = ctx.sec /\ ctx.sec # "bad"
    /\ att.pc = "run" /\ "user" \in ctx.ns /\ cfg.asuid = Invalid => att.uid = ctx.suid
    /\ att.pc \in Past /\ ctx.label => Ready

IInv == Shape /\ cfg \in Setups /\ BoxOk /\ Known /\ Planned /\ Where /\ PidMeansOk /\ TransientHas /\ AttachedHas

USE DEF At

-----------------------------------------------------------------------------
(* The shape of the records *)

\* The caller's record keeps its shape, whatever step is taken.
LEMMA ParStep == ParShape /\ [Next]_vars => ParShape'
<1> SUFFICES ASSUME ParShape, [Next]_vars PROVE ParShape'
    OBVIOUS
<1> USE DEF ParShape
<1>1. CASE lxc_attach
    BY ZenonT(60), <1>1 DEF lxc_attach, NoCall, NoTransient, NoAttached, alloc_attach_context, ParPc, Opening, Preparing
<1>2. CASE get_init_pidfd
    BY ZenonT(60), <1>2 DEF get_init_pidfd, Goto, ParPc, Opening, Preparing
<1>3. CASE get_init_pid
    BY ZenonT(60), <1>3 DEF get_init_pid, Goto, Fail, ParPc, Opening, Preparing
<1>4. CASE get_clone_flags
    BY ZenonT(60), <1>4 DEF get_clone_flags, Goto, ParPc, Opening, Preparing
<1>5. CASE open_proc
    BY ZenonT(60), <1>5 DEF open_proc, Goto, Fail, ParPc, Opening, Preparing
<1>6. CASE check_init
    BY ZenonT(60), <1>6 DEF check_init, Goto, Fail, choose_namespaces, ParPc, Opening, Preparing
<1>7. CASE parse_init_status
    BY ZenonT(60), <1>7 DEF parse_init_status, Goto, Fail, ParPc, Opening, Preparing
<1>8. CASE fetch_seccomp
    BY ZenonT(60), <1>8 DEF fetch_seccomp, Goto, ParPc, Opening, Preparing
<1>9. CASE no_new_privs
    BY ZenonT(60), <1>9 DEF no_new_privs, Goto, ParPc, Opening, Preparing
<1>10. CASE prepare_namespaces
    BY ZenonT(60), <1>10 DEF prepare_namespaces, Goto, Fail, prepare_namespaces_nsfd, prepare_namespaces_pidfd, ParPc, Opening, Preparing
<1>11. CASE lxc_attach_terminal
    BY ZenonT(60), <1>11 DEF lxc_attach_terminal, Fail, ParPc, Opening, Preparing
<1>12. CASE fork_transient
    BY ZenonT(60), <1>12 DEF fork_transient, Fail, NoTransient, ParPc, Opening, Preparing
<1>13. CASE cgroup_attach
    BY ZenonT(60), <1>13 DEF cgroup_attach, Goto, OnError, ParPc, Opening, Preparing
<1>14. CASE setup_limits
    BY ZenonT(60), <1>14 DEF setup_limits, Goto, OnError, ParPc, Opening, Preparing
<1>15. CASE sync_wake_cgroup
    BY ZenonT(60), <1>15 DEF sync_wake_cgroup, Goto, ParPc, Opening, Preparing
<1>16. CASE sync_wait_pid
    BY ZenonT(60), <1>16 DEF sync_wait_pid, OnError, ParPc, Opening, Preparing
<1>17. CASE reap_transient
    BY ZenonT(60), <1>17 DEF reap_transient, OnError, ParPc, Opening, Preparing
<1>18. CASE send_label_fd
    BY ZenonT(60), <1>18 DEF send_label_fd, Goto, OnError, ParPc, Opening, Preparing
<1>19. CASE seccomp_notifier
    BY ZenonT(60), <1>19 DEF seccomp_notifier, Goto, OnError, ParPc, Opening, Preparing
<1>20. CASE shut_down
    BY ZenonT(60), <1>20 DEF shut_down, ParPc, Opening, Preparing
<1>21. CASE terminal_loop
    BY ZenonT(60), <1>21 DEF terminal_loop, Goto, ParPc, Opening, Preparing
<1>22. CASE attach_cleanup
    BY ZenonT(60), <1>22 DEF attach_cleanup, ParPc, Opening, Preparing
<1>23. CASE attach_run_wait
    BY ZenonT(60), <1>23 DEF attach_run_wait, Goto, ParPc, Opening, Preparing
<1>24. CASE UNCHANGED vars
    BY ZenonT(60), <1>24 DEF vars
<1>25. CASE \/ sync_wait_cgroup \/ enter_namespaces \/ clone_attached \/ sync_wake_pid \/ do_attach \/ wait_label_fd
            \/ become_setup_ids \/ load_seccomp \/ run_program \/ program_exits \/ init_exits \/ monitor_ends
            \/ container_starts \/ pid_reused \/ transient_killed
    BY ZenonT(60), <1>25 DEF sync_wait_cgroup, enter_namespaces, clone_attached, sync_wake_pid, do_attach, wait_label_fd,
           become_setup_ids, load_seccomp, run_program, program_exits, init_exits, monitor_ends, container_starts,
           pid_reused, transient_killed, TrKeep, AttKeep, AttFails
<1> QED
    BY ZenonT(60), <1>1, <1>2, <1>3, <1>4, <1>5, <1>6, <1>7, <1>8, <1>9, <1>10, <1>11, <1>12, <1>13, <1>14, <1>15, <1>16, <1>17, <1>18,
           <1>19, <1>20, <1>21, <1>22, <1>23, <1>24, <1>25 DEF Next, Caller, Transient, Attached, Environment

\* So does that of the transient process.
LEMMA TrStep == TrShape /\ [Next]_vars => TrShape'
<1> SUFFICES ASSUME TrShape, [Next]_vars PROVE TrShape'
    OBVIOUS
<1> USE DEF TrShape
<1>1. CASE lxc_attach
    BY ZenonT(60), <1>1 DEF lxc_attach, NoCall, NoTransient, NoAttached, alloc_attach_context, TrPc
<1>2. CASE fork_transient
    BY ZenonT(60), <1>2 DEF fork_transient, Fail, NoTransient, TrPc
<1>3. CASE cgroup_attach
    BY ZenonT(60), <1>3 DEF cgroup_attach, Goto, OnError, TrPc
<1>4. CASE setup_limits
    BY ZenonT(60), <1>4 DEF setup_limits, Goto, OnError, TrPc
<1>5. CASE reap_transient
    BY ZenonT(60), <1>5 DEF reap_transient, OnError, TrPc
<1>6. CASE attach_cleanup
    BY ZenonT(60), <1>6 DEF attach_cleanup, TrPc
<1>7. CASE sync_wait_cgroup
    BY ZenonT(60), <1>7 DEF sync_wait_cgroup, TrKeep, TrPc
<1>8. CASE enter_namespaces
    BY ZenonT(60), <1>8 DEF enter_namespaces, TrKeep, TrFails, TrPc
<1>9. CASE clone_attached
    BY ZenonT(60), <1>9 DEF clone_attached, TrFails, NoAttached, TrPc
<1>10. CASE sync_wake_pid
    BY ZenonT(60), <1>10 DEF sync_wake_pid, TrKeep, TrFails, TrPc
<1>11. CASE transient_killed
    BY ZenonT(60), <1>11 DEF transient_killed, TrPc
<1>12. CASE UNCHANGED vars
    BY ZenonT(60), <1>12 DEF vars
<1>13. CASE \/ get_init_pidfd \/ get_init_pid \/ get_clone_flags \/ open_proc \/ check_init \/ parse_init_status
            \/ fetch_seccomp \/ no_new_privs \/ prepare_namespaces \/ lxc_attach_terminal \/ sync_wake_cgroup
            \/ sync_wait_pid \/ send_label_fd \/ seccomp_notifier \/ shut_down \/ terminal_loop \/ attach_run_wait
            \/ do_attach \/ wait_label_fd \/ become_setup_ids \/ load_seccomp \/ run_program \/ program_exits
            \/ init_exits \/ monitor_ends \/ container_starts \/ pid_reused
    BY ZenonT(60), <1>13 DEF get_init_pidfd, get_init_pid, get_clone_flags, open_proc, check_init, parse_init_status, fetch_seccomp,
           no_new_privs, prepare_namespaces, lxc_attach_terminal, sync_wake_cgroup, sync_wait_pid, send_label_fd,
           seccomp_notifier, shut_down, terminal_loop, attach_run_wait, do_attach, wait_label_fd, become_setup_ids,
           load_seccomp, run_program, program_exits, init_exits, monitor_ends, container_starts, pid_reused, AttKeep,
           AttFails
<1> QED
    BY ZenonT(60), <1>1, <1>2, <1>3, <1>4, <1>5, <1>6, <1>7, <1>8, <1>9, <1>10, <1>11, <1>12, <1>13 DEF Next, Caller, Transient,
           Attached, Environment

\* So does that of the attached process.
LEMMA AttStep == AttShape /\ [Next]_vars => AttShape'
<1> SUFFICES ASSUME AttShape, [Next]_vars PROVE AttShape'
    OBVIOUS
<1> USE DEF AttShape
<1>1. CASE lxc_attach
    BY ZenonT(60), <1>1 DEF lxc_attach, NoCall, NoTransient, NoAttached, alloc_attach_context, AttPc
<1>2. CASE attach_cleanup
    BY ZenonT(60), <1>2 DEF attach_cleanup, AttPc
<1>3. CASE attach_run_wait
    BY ZenonT(60), <1>3 DEF attach_run_wait, Goto, AttPc
<1>4. CASE clone_attached
    BY ZenonT(60), <1>4 DEF clone_attached, TrFails, NoAttached, AttPc
<1>5. CASE do_attach
    BY ZenonT(60), <1>5 DEF do_attach, AttKeep, AttFails, AttPc
<1>6. CASE wait_label_fd
    BY ZenonT(60), <1>6 DEF wait_label_fd, AttKeep, AttPc
<1>7. CASE become_setup_ids
    BY ZenonT(60), <1>7 DEF become_setup_ids, AttKeep, AttFails, AttPc
<1>8. CASE load_seccomp
    BY ZenonT(60), <1>8 DEF load_seccomp, AttKeep, AttFails, AttPc
<1>9. CASE run_program
    BY ZenonT(60), <1>9 DEF run_program, AttKeep, AttFails, AttPc
<1>10. CASE program_exits
    BY ZenonT(60), <1>10 DEF program_exits, AttPc
<1>11. CASE init_exits
    BY ZenonT(60), <1>11 DEF init_exits, AttPc
<1>12. CASE UNCHANGED vars
    BY ZenonT(60), <1>12 DEF vars
<1>13. CASE \/ get_init_pidfd \/ get_init_pid \/ get_clone_flags \/ open_proc \/ check_init \/ parse_init_status
            \/ fetch_seccomp \/ no_new_privs \/ prepare_namespaces \/ lxc_attach_terminal \/ fork_transient
            \/ cgroup_attach \/ setup_limits \/ sync_wake_cgroup \/ sync_wait_pid \/ reap_transient \/ send_label_fd
            \/ seccomp_notifier \/ shut_down \/ terminal_loop \/ sync_wait_cgroup \/ enter_namespaces
            \/ sync_wake_pid \/ monitor_ends \/ container_starts \/ pid_reused \/ transient_killed
    BY ZenonT(60), <1>13 DEF get_init_pidfd, get_init_pid, get_clone_flags, open_proc, check_init, parse_init_status, fetch_seccomp,
           no_new_privs, prepare_namespaces, lxc_attach_terminal, fork_transient, cgroup_attach, setup_limits,
           sync_wake_cgroup, sync_wait_pid, reap_transient, send_label_fd, seccomp_notifier, shut_down, terminal_loop,
           sync_wait_cgroup, enter_namespaces, sync_wake_pid, monitor_ends, container_starts, pid_reused, transient_killed,
           TrKeep
<1> QED
    BY ZenonT(60), <1>1, <1>2, <1>3, <1>4, <1>5, <1>6, <1>7, <1>8, <1>9, <1>10, <1>11, <1>12, <1>13 DEF Next, Caller, Transient,
           Attached, Environment

\* So does struct attach_context.
LEMMA CtxStep == CtxShape /\ [Next]_vars => CtxShape'
<1> SUFFICES ASSUME CtxShape, [Next]_vars PROVE CtxShape'
    OBVIOUS
<1> USE DEF CtxShape
<1>1. CASE lxc_attach
    BY ZenonT(60), <1>1 DEF lxc_attach, NoCall, NoTransient, NoAttached, alloc_attach_context
<1>2. CASE get_init_pidfd
    BY ZenonT(60), <1>2 DEF get_init_pidfd, Goto
<1>3. CASE get_init_pid
    BY ZenonT(60), <1>3 DEF get_init_pid, Goto, Fail
<1>4. CASE get_clone_flags
    BY ZenonT(60), <1>4 DEF get_clone_flags, Goto
<1>5. CASE open_proc
    BY ZenonT(60), <1>5 DEF open_proc, Goto, Fail
<1>6. CASE check_init
    BY ZenonT(60), <1>6 DEF check_init, Goto, Fail, choose_namespaces
<1>7. CASE parse_init_status
    BY ZenonT(60), <1>7 DEF parse_init_status, Goto, Fail
<1>8. CASE fetch_seccomp
    BY ZenonT(60), <1>8 DEF fetch_seccomp, Goto
<1>9. CASE no_new_privs
    BY ZenonT(60), <1>9 DEF no_new_privs, Goto
<1>10. CASE prepare_namespaces
    BY ZenonT(60), <1>10 DEF prepare_namespaces, Goto, Fail, prepare_namespaces_nsfd, prepare_namespaces_pidfd
<1>11. CASE UNCHANGED vars
    BY ZenonT(60), <1>11 DEF vars
<1>12. CASE \/ lxc_attach_terminal \/ fork_transient \/ cgroup_attach \/ setup_limits \/ sync_wake_cgroup
            \/ sync_wait_pid \/ reap_transient \/ send_label_fd \/ seccomp_notifier \/ shut_down \/ terminal_loop
            \/ attach_cleanup \/ attach_run_wait \/ sync_wait_cgroup \/ enter_namespaces \/ clone_attached
            \/ sync_wake_pid \/ do_attach \/ wait_label_fd \/ become_setup_ids \/ load_seccomp \/ run_program
            \/ program_exits \/ init_exits \/ monitor_ends \/ container_starts \/ pid_reused \/ transient_killed
    BY ZenonT(60), <1>12 DEF lxc_attach_terminal, fork_transient, cgroup_attach, setup_limits, sync_wake_cgroup, sync_wait_pid,
           reap_transient, send_label_fd, seccomp_notifier, shut_down, terminal_loop, attach_cleanup, attach_run_wait,
           sync_wait_cgroup, enter_namespaces, clone_attached, sync_wake_pid, do_attach, wait_label_fd, become_setup_ids,
           load_seccomp, run_program, program_exits, init_exits, monitor_ends, container_starts, pid_reused,
           transient_killed, TrKeep, AttKeep, AttFails
<1> QED
    BY ZenonT(60), <1>1, <1>2, <1>3, <1>4, <1>5, <1>6, <1>7, <1>8, <1>9, <1>10, <1>11, <1>12 DEF Next, Caller, Transient, Attached,
           Environment

\* What is sent on the socket pair, and what is left when a message is
\* received.
LEMMA Messages ==
    ASSUME IpcShape
    PROVE  /\ Append(ipc.down, "go") \in Seq({"go", "fd"}) /\ Append(ipc.down, "fd") \in Seq({"go", "fd"})
           /\ Append(ipc.up, "pid") \in Seq({"pid", "fd"}) /\ Append(ipc.up, "fd") \in Seq({"pid", "fd"})
           /\ ipc.down # <<>> => Tail(ipc.down) \in Seq({"go", "fd"})
           /\ ipc.up # <<>> => Tail(ipc.up) \in Seq({"pid", "fd"})
    BY DEF IpcShape

\* The socket pair carries only "go" and descriptors down, and pids and
\* descriptors up.
LEMMA IpcStep == IpcShape /\ [Next]_vars => IpcShape'
<1> SUFFICES ASSUME IpcShape, [Next]_vars PROVE IpcShape'
    OBVIOUS
<1> USE DEF IpcShape
<1>1. CASE lxc_attach
    BY <1>1 DEF lxc_attach, NoCall, NoTransient, NoAttached, alloc_attach_context
<1>2. CASE cgroup_attach
    BY ZenonT(60), <1>2 DEF cgroup_attach, Goto, OnError
<1>3. CASE setup_limits
    BY ZenonT(60), <1>3 DEF setup_limits, Goto, OnError
<1>4. CASE sync_wake_cgroup
    BY ZenonT(60), Messages, <1>4 DEF sync_wake_cgroup, Goto
<1>5. CASE sync_wait_pid
    BY ZenonT(60), Messages, <1>5 DEF sync_wait_pid, OnError
<1>6. CASE reap_transient
    BY ZenonT(60), <1>6 DEF reap_transient, OnError
<1>7. CASE send_label_fd
    BY ZenonT(60), Messages, <1>7 DEF send_label_fd, Goto, OnError
<1>8. CASE seccomp_notifier
    BY ZenonT(60), Messages, <1>8 DEF seccomp_notifier, Goto, OnError
<1>9. CASE shut_down
    BY ZenonT(60), <1>9 DEF shut_down
<1>10. CASE sync_wait_cgroup
    BY ZenonT(60), Messages, <1>10 DEF sync_wait_cgroup, TrKeep
<1>11. CASE enter_namespaces
    BY ZenonT(60), <1>11 DEF enter_namespaces, TrKeep, TrFails
<1>12. CASE clone_attached
    BY ZenonT(60), <1>12 DEF clone_attached, TrFails, NoAttached
<1>13. CASE sync_wake_pid
    BY SMTT(60), <1>13 DEF sync_wake_pid, TrKeep, TrFails
<1>14. CASE wait_label_fd
    BY ZenonT(60), Messages, <1>14 DEF wait_label_fd, AttKeep
<1>15. CASE load_seccomp
    BY ZenonT(60), Messages, <1>15 DEF load_seccomp, AttKeep, AttFails
<1>16. CASE UNCHANGED vars
    BY ZenonT(60), <1>16 DEF vars
<1>17. CASE \/ get_init_pidfd \/ get_init_pid \/ get_clone_flags \/ open_proc \/ check_init \/ parse_init_status
            \/ fetch_seccomp \/ no_new_privs \/ prepare_namespaces \/ lxc_attach_terminal \/ fork_transient
            \/ terminal_loop \/ attach_cleanup \/ attach_run_wait \/ do_attach \/ become_setup_ids \/ run_program
            \/ program_exits \/ init_exits \/ monitor_ends \/ container_starts \/ pid_reused \/ transient_killed
    BY ZenonT(60), <1>17 DEF get_init_pidfd, get_init_pid, get_clone_flags, open_proc, check_init, parse_init_status, fetch_seccomp,
           no_new_privs, prepare_namespaces, lxc_attach_terminal, fork_transient, terminal_loop, attach_cleanup,
           attach_run_wait, do_attach, become_setup_ids, run_program, program_exits, init_exits, monitor_ends,
           container_starts, pid_reused, transient_killed, AttKeep, AttFails
<1> QED
    BY ZenonT(60), <1>1, <1>2, <1>3, <1>4, <1>5, <1>6, <1>7, <1>8, <1>9, <1>10, <1>11, <1>12, <1>13, <1>14, <1>15, <1>16, <1>17 DEF
           Next, Caller, Transient, Attached, Environment

-----------------------------------------------------------------------------
(* The container *)

(* What a step does to the runs of the container that have begun. *)
Aging ==
    \A p \in Runs : Begun(p) =>
        /\ Begun(p)'
        /\ box.init[p] = "gone" => box'.init[p] = "gone"
        /\ box.init[p] # "run" => box'.init[p] # "run"

\* A run of the container that has begun gets older: lxc_start() never makes
\* an init that is gone run again, and the pid of one that is not gone is its
\* own.
LEMMA BoxStep == BoxOk /\ [Next]_vars => BoxOk' /\ Aging
<1> SUFFICES ASSUME BoxOk, [Next]_vars PROVE BoxOk' /\ Aging
    OBVIOUS
<1> USE DEF BoxOk, Begun, Runs
<1>1. CASE init_exits
  <2>1. box' = [box EXCEPT !.init[box.cur] = "zombie"] /\ box.init[box.cur] = "run"
    BY ZenonT(60), <1>1 DEF init_exits, State
  <2>2. BoxOk'
    BY ZenonT(60), <2>1
  <2>3. Aging
    BY ZenonT(60), <2>1 DEF Aging
  <2> QED
    BY ZenonT(60), <2>2, <2>3
<1>2. CASE monitor_ends
  <2>1. /\ box' = [box EXCEPT !.init[box.cur] = "gone", !.mon = FALSE, !.owner[box.cur] = "no"]
        /\ box.init[box.cur] = "zombie"
    BY ZenonT(60), <1>2 DEF monitor_ends, State
  <2>2. /\ box'.cur = box.cur /\ box'.init = [box.init EXCEPT ![box.cur] = "gone"]
        /\ box'.owner = [box.owner EXCEPT ![box.cur] = "no"] /\ box' = [f \in {"cur", "mon", "init", "owner"} |-> box'[f]]
    BY ZenonT(60), <2>1
  <2>3. BoxOk'
    BY <2>2
  <2>4. Aging
    BY ZenonT(60), <2>2 DEF Aging
  <2> QED
    BY ZenonT(60), <2>3, <2>4
<1>3. CASE container_starts
  <2>1. /\ box'.cur = "c2" /\ box'.init = [box.init EXCEPT !["c2"] = "run"]
        /\ box'.owner = [box.owner EXCEPT !["c2"] = "c2"] /\ box'.mon = TRUE
        /\ box' = [f \in {"cur", "mon", "init", "owner"} |-> box'[f]]
    BY ZenonT(60), <1>3 DEF container_starts
  <2>2. box.cur = "c1" /\ ~box.mon
    BY ZenonT(60), <1>3 DEF container_starts
  <2>3. BoxOk'
    BY <2>1, <2>2
  <2>4. Aging
    BY ZenonT(60), <2>1, <2>2 DEF Aging
  <2> QED
    BY ZenonT(60), <2>3, <2>4
<1>4. CASE pid_reused
  <2>1. PICK p \in Runs : box.init[p] = "gone" /\ box' = [box EXCEPT !.owner[p] = "other"]
    BY ZenonT(60), <1>4 DEF pid_reused
  <2>2. /\ box'.cur = box.cur /\ box'.init = box.init /\ box'.owner = [box.owner EXCEPT ![p] = "other"]
        /\ box'.mon = box.mon /\ box' = [f \in {"cur", "mon", "init", "owner"} |-> box'[f]]
    BY ZenonT(60), <2>1
  <2>3. BoxOk'
    BY ZenonT(60), <2>1, <2>2
  <2>4. Aging
    BY ZenonT(60), <2>2 DEF Aging
  <2> QED
    BY ZenonT(60), <2>3, <2>4
<1>5. CASE UNCHANGED box
    BY ZenonT(60), <1>5 DEF Aging
<1>6. CASE lxc_attach \/ Caller \/ attach_run_wait
    BY ZenonT(60), <1>5, <1>6 DEF Caller, lxc_attach, get_init_pidfd, get_init_pid, get_clone_flags, open_proc, check_init,
           parse_init_status, fetch_seccomp, no_new_privs, prepare_namespaces, lxc_attach_terminal, fork_transient,
           cgroup_attach, setup_limits, sync_wake_cgroup, sync_wait_pid, reap_transient, send_label_fd, seccomp_notifier,
           shut_down, terminal_loop, attach_cleanup, attach_run_wait
<1>7. CASE Transient \/ Attached \/ program_exits \/ transient_killed \/ UNCHANGED vars
    BY ZenonT(60), <1>5, <1>7 DEF Transient, Attached, vars, sync_wait_cgroup, enter_namespaces, clone_attached, sync_wake_pid,
           do_attach, wait_label_fd, become_setup_ids, load_seccomp, run_program, program_exits, transient_killed, TrKeep,
           AttKeep, AttFails
<1> QED
    BY ZenonT(60), <1>1, <1>2, <1>3, <1>4, <1>6, <1>7 DEF Next, Environment

-----------------------------------------------------------------------------
(* What the caller learns *)

\* Until lxc_attach() forks there is no transient process.
LEMMA OpeningFacts ==
    ASSUME IInv, par.pc \in Opening
    PROVE  ParShape /\ CtxShape /\ BoxOk /\ Known /\ tr.pc = "no"
    BY ZenonT(60) DEF IInv, Shape, Where, AtOpening

\* What an early error return does.
LEMMA FailEffect ==
    ASSUME ParShape, Fail
    PROVE  par'.pc = "ret" /\ par'.ret = -1 /\ par'.early /\ par'.clean = par.clean /\ par'.raw = par.raw
           /\ par'.told = par.told /\ par'.byfd = par.byfd
    BY ZenonT(60) DEF ParShape, Fail

\* What going on to the next part of lxc_attach() does.
LEMMA GotoEffect ==
    ASSUME ParShape, NEW x, Goto(x)
    PROVE  par'.pc = x /\ par'.ret = par.ret /\ par'.early = par.early /\ par'.clean = par.clean /\ par'.raw = par.raw
           /\ par'.told = par.told /\ par'.byfd = par.byfd
    BY ZenonT(60) DEF ParShape, Goto

\* An early error return leaves nothing to be known.
LEMMA KnownFailed ==
    ASSUME Mine, UNCHANGED <<cfg, mine, tr>>, tr.pc = "no", par'.pc = "ret"
    PROVE  Known' /\ Planned'
<1>1. (KnowsPid /\ KnowsFlags /\ KnowsPidfd /\ KnowsProcess /\ KnowsNamespaces)'
    BY ZenonT(60) DEF KnowsPid, KnowsFlags, KnowsPidfd, KnowsProcess, KnowsNamespaces, Since, Opening
<1>2. (KnowsIds /\ KnowsFilter /\ KnowsNnp /\ Mine /\ Planned)'
    BY ZenonT(60) DEF KnowsIds, KnowsFilter, KnowsNnp, Mine, Planned, Since
<1> QED
    BY ZenonT(60), <1>1, <1>2 DEF Known

\* alloc_attach_context() starts with nothing known.
LEMMA KnownCall == IInv /\ lxc_attach => Known' /\ Planned'
<1> SUFFICES ASSUME IInv, lxc_attach PROVE Known' /\ Planned'
    OBVIOUS
<1>1. par'.pc = "pidfd" /\ ~par'.byfd /\ ctx'.pidfd = "no" /\ ctx'.inh = {} /\ tr'.pc = "no" /\ UNCHANGED <<cfg, mine>> /\ Mine
    BY ZenonT(60) DEF lxc_attach, NoCall, NoTransient, alloc_attach_context, IInv, Known
<1>2. (KnowsPid /\ KnowsFlags /\ KnowsPidfd /\ KnowsProcess /\ KnowsNamespaces)'
    BY ZenonT(60), <1>1 DEF KnowsPid, KnowsFlags, KnowsPidfd, KnowsProcess, KnowsNamespaces, Since, Opening
<1>3. (KnowsIds /\ KnowsFilter /\ KnowsNnp /\ Mine /\ Planned)'
    BY ZenonT(60), <1>1 DEF KnowsIds, KnowsFilter, KnowsNnp, Mine, Planned, Since
<1> QED
    BY ZenonT(60), <1>2, <1>3 DEF Known

\* lxc_cmd_get_init_pidfd() gives the pidfd and the pid of the init that runs
\* now.
LEMMA KnownPidfd == IInv /\ get_init_pidfd => Known' /\ Planned'
<1> SUFFICES ASSUME IInv, get_init_pidfd PROVE Known' /\ Planned'
    OBVIOUS
<1>1. ParShape /\ CtxShape /\ BoxOk /\ Known /\ tr.pc = "no" /\ par.pc = "pidfd" /\ UNCHANGED <<cfg, box, mine, tr>>
    BY ZenonT(60), OpeningFacts DEF get_init_pidfd, Opening
<1>2. \/ par'.pc = "flags" /\ ctx'.pid = box.cur /\ ctx'.pidfd = box.cur /\ ctx'.inh = ctx.inh
      \/ par'.pc = "pid" /\ ctx' = ctx /\ par'.byfd = par.byfd
    BY ZenonT(60), <1>1 DEF get_init_pidfd, Goto, ParShape, CtxShape
<1>3. (KnowsPid /\ KnowsFlags /\ KnowsPidfd)'
    BY ZenonT(60), <1>1, <1>2 DEF Known, KnowsPid, KnowsFlags, KnowsPidfd, Since, Opening, Begun, BoxOk
<1>4. (KnowsProcess /\ KnowsNamespaces)'
    BY ZenonT(60), <1>1, <1>2 DEF Known, KnowsProcess, KnowsNamespaces, Since
<1>5. (KnowsIds /\ KnowsFilter /\ KnowsNnp /\ Mine /\ Planned)'
    BY ZenonT(60), <1>1, <1>2 DEF Known, KnowsIds, KnowsFilter, KnowsNnp, Mine, Planned, Since
<1> QED
    BY ZenonT(60), <1>3, <1>4, <1>5 DEF Known

\* lxc_cmd_get_init_pid() gives the pid of the init that runs now.
LEMMA KnownInitPid == IInv /\ get_init_pid => Known' /\ Planned'
<1> SUFFICES ASSUME IInv, get_init_pid PROVE Known' /\ Planned'
    OBVIOUS
<1>1. ParShape /\ CtxShape /\ BoxOk /\ Known /\ tr.pc = "no" /\ par.pc = "pid" /\ UNCHANGED <<cfg, box, mine, tr>>
    BY ZenonT(60), OpeningFacts DEF get_init_pid, Opening
<1>2. CASE par'.pc = "ret"
    BY ZenonT(60), <1>1, <1>2, KnownFailed DEF Known
<1>3. CASE par'.pc # "ret"
  <2>1. par'.pc = "flags" /\ ctx'.pid = box.cur /\ ctx'.pidfd = ctx.pidfd /\ ctx'.inh = ctx.inh
        /\ par'.byfd = par.byfd
    BY ZenonT(60), <1>1, <1>3, FailEffect DEF get_init_pid, Goto, ParShape, CtxShape
  <2>2. (KnowsPid /\ KnowsFlags)'
    BY ZenonT(60), <1>1, <2>1 DEF KnowsPid, KnowsFlags, Since, Opening, Begun, BoxOk
  <2>3. (KnowsPidfd /\ KnowsProcess /\ KnowsNamespaces)'
    BY ZenonT(60), <1>1, <2>1 DEF Known, KnowsPidfd, KnowsProcess, KnowsNamespaces, Since, Opening
  <2>4. (KnowsIds /\ KnowsFilter /\ KnowsNnp /\ Mine /\ Planned)'
    BY ZenonT(60), <1>1, <2>1 DEF Known, KnowsIds, KnowsFilter, KnowsNnp, Mine, Planned, Since
  <2> QED
    BY ZenonT(60), <2>2, <2>3, <2>4 DEF Known
<1> QED
    BY ZenonT(60), <1>2, <1>3

\* lxc_cmd_get_clone_flags() gives the flags of init, or those of a later
\* run, and then init is gone.
LEMMA KnownFlags == IInv /\ get_clone_flags => Known' /\ Planned'
<1> SUFFICES ASSUME IInv, get_clone_flags PROVE Known' /\ Planned'
    OBVIOUS
<1>1. ParShape /\ CtxShape /\ BoxOk /\ Known /\ tr.pc = "no" /\ par.pc = "flags" /\ UNCHANGED <<cfg, box, mine, tr>>
    BY ZenonT(60), OpeningFacts DEF get_clone_flags, Opening
<1>2. /\ par'.pc = "open" /\ par'.byfd = par.byfd
      /\ ctx'.pid = ctx.pid /\ ctx'.pidfd = ctx.pidfd /\ ctx'.inh = ctx.inh
      /\ ctx'.flags = IF box.mon THEN cfg.own[box.cur] ELSE NS
    BY ZenonT(60), <1>1, GotoEffect DEF get_clone_flags, CtxShape
<1>3. (KnowsPid /\ KnowsPidfd)'
    BY ZenonT(60), <1>1, <1>2 DEF Known, KnowsPid, KnowsPidfd, Since, Opening, Begun
<1>4. KnowsFlags'
    BY <1>1, <1>2 DEF Known, KnowsPid, KnowsFlags, Since, Opening, Begun, BoxOk, InitGone, Runs
<1>5. (KnowsProcess /\ KnowsNamespaces)'
    BY ZenonT(60), <1>1, <1>2 DEF Known, KnowsProcess, KnowsNamespaces, Since
<1>6. (KnowsIds /\ KnowsFilter /\ KnowsNnp /\ Mine /\ Planned)'
    BY ZenonT(60), <1>1, <1>2 DEF Known, KnowsIds, KnowsFilter, KnowsNnp, Mine, Planned, Since
<1> QED
    BY ZenonT(60), <1>3, <1>4, <1>5, <1>6 DEF Known

\* open("/proc/<pid>") gives the directory of init, or that of another, and
\* then init is gone.
LEMMA KnownOpen == IInv /\ open_proc => Known' /\ Planned'
<1> SUFFICES ASSUME IInv, open_proc PROVE Known' /\ Planned'
    OBVIOUS
<1>1. ParShape /\ CtxShape /\ BoxOk /\ Known /\ tr.pc = "no" /\ par.pc = "open" /\ UNCHANGED <<cfg, box, mine, tr>>
    BY ZenonT(60), OpeningFacts DEF open_proc, Opening
<1>2. CASE par'.pc = "ret"
    BY ZenonT(60), <1>1, <1>2, KnownFailed DEF Known
<1>3. CASE par'.pc # "ret"
  <2>1. /\ par'.pc = "check" /\ par'.byfd = par.byfd
        /\ ctx'.pid = ctx.pid /\ ctx'.pidfd = ctx.pidfd /\ ctx'.inh = ctx.inh /\ ctx'.flags = ctx.flags
        /\ ctx'.dfd = box.owner[ctx.pid] /\ box.owner[ctx.pid] # "no"
    BY ZenonT(60), <1>1, <1>3, FailEffect DEF open_proc, Goto, ParShape, CtxShape
  <2>2. (KnowsPid /\ KnowsFlags /\ KnowsPidfd)'
    BY ZenonT(60), <1>1, <2>1 DEF Known, KnowsPid, KnowsFlags, KnowsPidfd, Since, Opening, Begun, InitGone
  <2>3. (KnowsProcess /\ KnowsNamespaces)'
    BY <1>1, <2>1 DEF Known, KnowsPid, KnowsProcess, KnowsNamespaces, Since, Opening, Begun, BoxOk, InitGone
  <2>4. (KnowsIds /\ KnowsFilter /\ KnowsNnp /\ Mine /\ Planned)'
    BY ZenonT(60), <1>1, <2>1 DEF Known, KnowsIds, KnowsFilter, KnowsNnp, Mine, Planned, Since
  <2> QED
    BY ZenonT(60), <2>2, <2>3, <2>4 DEF Known
<1> QED
    BY ZenonT(60), <1>2, <1>3

\* After pidfd_send_signal() the directory is known to be that of init, and
\* the namespaces to enter are chosen.
LEMMA KnownCheck == IInv /\ check_init => Known' /\ Planned'
<1> SUFFICES ASSUME IInv, check_init PROVE Known' /\ Planned'
    OBVIOUS
<1>1. ParShape /\ CtxShape /\ BoxOk /\ Known /\ tr.pc = "no" /\ par.pc = "check" /\ UNCHANGED <<cfg, box, tr>>
    BY ZenonT(60), OpeningFacts DEF check_init, Opening
<1>2. Begun(ctx.pid) /\ ctx.pidfd \in {"no", ctx.pid} /\ ctx.inh = {}
    BY ZenonT(60), <1>1 DEF Known, KnowsPid, KnowsPidfd, KnowsNamespaces, Since, Opening
<1>3. CASE ctx.pidfd # "no" /\ ~pidfd_alive
    BY ZenonT(60), <1>1, <1>3, FailEffect, KnownFailed DEF check_init, Known
<1>4. CASE ~(ctx.pidfd # "no" /\ ~pidfd_alive)
  <2> DEFINE fd == IF ctx.pidfd # "no" /\ pidfd_setns_supported THEN ctx.pidfd ELSE "no"
             c == [ctx EXCEPT !.pidfd = fd]
  <2>1. /\ Goto("status") /\ ctx' = choose_namespaces(c)
        /\ mine' = IF ctx'.pidfd = "no" THEN mine ELSE [mine EXCEPT !["time"] = NsOf(ctx.pidfd)["time"]]
    BY ZenonT(60), <1>4 DEF check_init
  <2>2. par'.pc = "status" /\ par'.byfd = par.byfd
    BY ZenonT(60), <1>1, <2>1, GotoEffect
  <2>3. /\ c.pid = ctx.pid /\ c.dfd = ctx.dfd /\ c.flags = ctx.flags /\ c.ask = ctx.ask /\ c.inh = {} /\ c.pidfd = fd
        /\ c = [f \in {"pidfd", "pid", "dfd", "flags", "ask", "ns", "inh", "fd", "label", "sec", "nnp", "suid", "tuid"} |-> c[f]]
    BY ZenonT(60), <1>1, <1>2 DEF CtxShape
  <2> HIDE DEF c
  <2>4. /\ ctx'.pid = ctx.pid /\ ctx'.dfd = ctx.dfd /\ ctx'.flags = ctx.flags /\ ctx'.ask = ctx.ask /\ ctx'.pidfd = fd
        /\ IF ctx'.ask # {"all"} THEN ctx'.ns = ctx'.ask /\ ctx'.inh = {}
           ELSE ctx'.ns = ctx'.flags /\ ctx'.inh = {n \in NS \ ctx'.flags : n = "cgroup" => Has("cgroup") /\ cfg.cgns}
    BY ZenonT(60), <2>1, <2>3 DEF choose_namespaces
  <2> HIDE DEF fd
  <2>5. fd \in {"no", ctx.pidfd}
    BY ZenonT(60) DEF fd
  <2>6. (KnowsPid /\ KnowsFlags /\ KnowsPidfd)'
    BY ZenonT(60), <1>1, <1>2, <2>2, <2>4, <2>5 DEF Known, KnowsPid, KnowsFlags, KnowsPidfd, Since, Opening, Begun, InitGone
  <2>7. KnowsProcess'
    <3>1. par.byfd => ctx.pidfd = ctx.pid /\ ctx.pid \in Runs /\ ctx.pid # "no" /\ (ctx.dfd = ctx.pid \/ box.init[ctx.pid] = "gone")
        BY ZenonT(60), <1>1, <1>2 DEF Known, KnowsPidfd, KnowsProcess, InitGone, Begun, Runs
    <3>2. par.byfd => ctx.dfd = ctx.pid
        BY ZenonT(60), <1>4, <3>1 DEF pidfd_alive, State
    <3> QED
        BY ZenonT(60), <1>1, <2>2, <2>4, <3>2 DEF KnowsProcess, Since
  <2>8. KnowsNamespaces'
    BY ZenonT(60), <1>1, <2>2, <2>4 DEF KnowsNamespaces, Has
  <2>9. Mine'
    BY ZenonT(60), <1>1, <2>1 DEF Known, Mine, NS
  <2>10. (KnowsIds /\ KnowsFilter /\ KnowsNnp /\ Planned)'
    BY ZenonT(60), <1>1, <2>2 DEF KnowsIds, KnowsFilter, KnowsNnp, Planned, Since
  <2> QED
    BY ZenonT(60), <2>6, <2>7, <2>8, <2>9, <2>10 DEF Known
<1> QED
    BY ZenonT(60), <1>3, <1>4

\* parse_init_status() and userns_setup_ids() give ids of the map.
LEMMA KnownStatus == IInv /\ parse_init_status => Known' /\ Planned'
<1> SUFFICES ASSUME IInv, parse_init_status PROVE Known' /\ Planned'
    OBVIOUS
<1>1. ParShape /\ CtxShape /\ BoxOk /\ Known /\ tr.pc = "no" /\ par.pc = "status" /\ UNCHANGED <<cfg, box, mine, tr>>
    BY ZenonT(60), OpeningFacts DEF parse_init_status, Opening
<1>2. CASE par'.pc = "ret"
    BY ZenonT(60), <1>1, <1>2, KnownFailed DEF Known
<1>3. CASE par'.pc # "ret"
  <2>1. /\ Goto("seccomp")
        /\ ctx' = [ctx EXCEPT !.suid = userns_setup_ids(ctx.ns), !.tuid = userns_target_ids(ctx.ns, userns_setup_ids(ctx.ns)),
                              !.label = attach_lsm /\ cfg.label]
    BY ZenonT(60), <1>1, <1>3, FailEffect DEF parse_init_status
  <2>2. /\ par'.pc = "seccomp" /\ par'.byfd = par.byfd
        /\ ctx'.pid = ctx.pid /\ ctx'.pidfd = ctx.pidfd /\ ctx'.inh = ctx.inh /\ ctx'.flags = ctx.flags
        /\ ctx'.dfd = ctx.dfd /\ ctx'.ask = ctx.ask /\ ctx'.ns = ctx.ns
        /\ ctx'.suid = userns_setup_ids(ctx.ns) /\ ctx'.tuid = userns_target_ids(ctx.ns, userns_setup_ids(ctx.ns))
    BY ZenonT(60), <1>1, <2>1, GotoEffect DEF CtxShape
  <2>3. (KnowsPid /\ KnowsFlags /\ KnowsPidfd)'
    BY ZenonT(60), <1>1, <2>2 DEF Known, KnowsPid, KnowsFlags, KnowsPidfd, Since, Opening, Begun, InitGone
  <2>4. (KnowsProcess /\ KnowsNamespaces)'
    BY ZenonT(60), <1>1, <2>2 DEF Known, KnowsProcess, KnowsNamespaces, Since, Has
  <2>5. (userns_setup_ids(ctx.ns))' = userns_setup_ids(ctx'.ns)
    BY ZenonT(60), <1>1 DEF userns_setup_ids
  <2>6. (userns_target_ids(ctx.ns, ctx.suid))' = userns_target_ids(ctx'.ns, ctx'.suid)
    BY ZenonT(60), <1>1 DEF userns_target_ids
  <2>7. KnowsIds'
    BY ZenonT(60), <2>2, <2>5, <2>6 DEF KnowsIds
  <2>8. (KnowsFilter /\ KnowsNnp /\ Mine /\ Planned)'
    BY ZenonT(60), <1>1, <2>2 DEF Known, KnowsFilter, KnowsNnp, Mine, Planned, Since
  <2> QED
    BY ZenonT(60), <2>3, <2>4, <2>7, <2>8 DEF Known
<1> QED
    BY ZenonT(60), <1>2, <1>3

\* fetch_seccomp() gives the filter of init or fails, or init is gone.
LEMMA KnownSeccomp == IInv /\ fetch_seccomp => Known' /\ Planned'
<1> SUFFICES ASSUME IInv, fetch_seccomp PROVE Known' /\ Planned'
    OBVIOUS
<1>1. ParShape /\ CtxShape /\ BoxOk /\ Known /\ tr.pc = "no" /\ par.pc = "seccomp" /\ UNCHANGED <<cfg, box, mine, tr>>
    BY ZenonT(60), OpeningFacts DEF fetch_seccomp, Opening
<1>2. /\ par'.pc = "nnp" /\ par'.byfd = par.byfd
      /\ ctx'.pid = ctx.pid /\ ctx'.pidfd = ctx.pidfd /\ ctx'.inh = ctx.inh /\ ctx'.flags = ctx.flags
      /\ ctx'.dfd = ctx.dfd /\ ctx'.ask = ctx.ask /\ ctx'.ns = ctx.ns /\ ctx'.suid = ctx.suid /\ ctx'.tuid = ctx.tuid
      /\ attach_lsm /\ box.mon => ctx'.sec \in {cfg.sec, "bad"}
    BY <1>1, GotoEffect DEF fetch_seccomp, CtxShape
<1>3. (KnowsPid /\ KnowsFlags /\ KnowsPidfd)'
    BY ZenonT(60), <1>1, <1>2 DEF Known, KnowsPid, KnowsFlags, KnowsPidfd, Since, Opening, Begun, InitGone
<1>4. (KnowsProcess /\ KnowsNamespaces)'
    BY ZenonT(60), <1>1, <1>2 DEF Known, KnowsProcess, KnowsNamespaces, Since, Has
<1>5. KnowsIds'
    BY ZenonT(60), <1>1, <1>2 DEF Known, KnowsIds, Since, userns_setup_ids, userns_target_ids
<1>6. KnowsFilter'
    BY <1>1, <1>2 DEF Known, KnowsFilter, KnowsPid, Since, Opening, Begun, BoxOk, InitGone, Runs, attach_lsm, Has
<1>7. (KnowsNnp /\ Mine /\ Planned)'
    BY ZenonT(60), <1>1, <1>2 DEF Known, KnowsNnp, Mine, Planned, Since
<1> QED
    BY ZenonT(60), <1>3, <1>4, <1>5, <1>6, <1>7 DEF Known

\* lxc_cmd_get_config_item() gives no_new_privs of init, or init is gone.
LEMMA KnownNnp == IInv /\ no_new_privs => Known' /\ Planned'
<1> SUFFICES ASSUME IInv, no_new_privs PROVE Known' /\ Planned'
    OBVIOUS
<1>1. ParShape /\ CtxShape /\ BoxOk /\ Known /\ tr.pc = "no" /\ par.pc = "nnp" /\ UNCHANGED <<cfg, box, mine, tr>>
    BY ZenonT(60), OpeningFacts DEF no_new_privs, Opening
<1>2. /\ par'.pc = "prepare" /\ par'.byfd = par.byfd
      /\ ctx'.pid = ctx.pid /\ ctx'.pidfd = ctx.pidfd /\ ctx'.inh = ctx.inh /\ ctx'.flags = ctx.flags
      /\ ctx'.dfd = ctx.dfd /\ ctx'.ask = ctx.ask /\ ctx'.ns = ctx.ns /\ ctx'.suid = ctx.suid /\ ctx'.tuid = ctx.tuid
      /\ ctx'.sec = ctx.sec
    BY ZenonT(60), <1>1, GotoEffect DEF no_new_privs, CtxShape
<1>3. box.mon /\ cfg.nnp => ctx'.nnp
    BY ZenonT(60), <1>1 DEF no_new_privs, CtxShape
<1>4. (KnowsPid /\ KnowsFlags /\ KnowsPidfd)'
    BY ZenonT(60), <1>1, <1>2 DEF Known, KnowsPid, KnowsFlags, KnowsPidfd, Since, Opening, Begun, InitGone
<1>5. (KnowsProcess /\ KnowsNamespaces)'
    BY ZenonT(60), <1>1, <1>2 DEF Known, KnowsProcess, KnowsNamespaces, Since, Has
<1>6. KnowsIds'
    BY ZenonT(60), <1>1, <1>2 DEF Known, KnowsIds, Since, userns_setup_ids, userns_target_ids
<1>7. (KnowsFilter /\ Mine /\ Planned)'
    BY ZenonT(60), <1>1, <1>2 DEF Known, KnowsFilter, Mine, Planned, Since, InitGone, attach_lsm, Has
<1>8. KnowsNnp'
    BY <1>1, <1>2, <1>3 DEF Known, KnowsNnp, KnowsPid, Since, Opening, Begun, BoxOk, InitGone, Runs
<1> QED
    BY ZenonT(60), <1>4, <1>5, <1>6, <1>7, <1>8 DEF Known

\* With init still running, the namespaces that prepare_namespaces() opens
\* are those the program should be in.
LEMMA KnownPrepare == IInv /\ prepare_namespaces => Known' /\ Planned'
<1> SUFFICES ASSUME IInv, prepare_namespaces PROVE Known' /\ Planned'
    OBVIOUS
<1>1. ParShape /\ CtxShape /\ BoxOk /\ Known /\ tr.pc = "no" /\ par.pc = "prepare" /\ UNCHANGED <<cfg, box, mine, tr>>
    BY ZenonT(60), OpeningFacts DEF prepare_namespaces, Opening
<1>2. CASE par'.pc = "ret"
    BY ZenonT(60), <1>1, <1>2, KnownFailed DEF Known
<1>3. CASE par'.pc # "ret"
  <2>1. /\ Goto("terminal")
        /\ ctx' = IF ctx.pidfd = "no" THEN prepare_namespaces_nsfd(ctx) ELSE prepare_namespaces_pidfd(ctx)
    BY ZenonT(60), <1>1, <1>3, FailEffect DEF prepare_namespaces
  <2>2. /\ par'.pc = "terminal" /\ par'.byfd = par.byfd
        /\ ctx'.pid = ctx.pid /\ ctx'.pidfd = ctx.pidfd /\ ctx'.flags = ctx.flags
        /\ ctx'.dfd = ctx.dfd /\ ctx'.ask = ctx.ask /\ ctx'.ns = ctx.ns /\ ctx'.suid = ctx.suid /\ ctx'.tuid = ctx.tuid
        /\ ctx'.sec = ctx.sec /\ ctx'.nnp = ctx.nnp
    BY ZenonT(60), <1>1, <2>1, GotoEffect DEF prepare_namespaces_nsfd, prepare_namespaces_pidfd, CtxShape
  <2>3. (KnowsPid /\ KnowsFlags /\ KnowsPidfd)'
    BY ZenonT(60), <1>1, <2>2 DEF Known, KnowsPid, KnowsFlags, KnowsPidfd, Since, Opening, Begun, InitGone
  <2>4. (KnowsProcess /\ KnowsNamespaces)'
    BY ZenonT(60), <1>1, <2>2 DEF Known, KnowsProcess, KnowsNamespaces, Since
  <2>5. KnowsIds'
    BY ZenonT(60), <1>1, <2>2 DEF Known, KnowsIds, Since, userns_setup_ids, userns_target_ids
  <2>6. (KnowsFilter /\ KnowsNnp /\ Mine)'
    BY ZenonT(60), <1>1, <2>2 DEF Known, KnowsFilter, KnowsNnp, Mine, Since, InitGone, attach_lsm, Has
  <2>7. ASSUME ctx.dfd = ctx.pid, box.init[ctx.pid] = "run", NEW n \in NS
        PROVE  Plan(n)' = Expected(ctx.pid, n)'
    <3> DEFINE p == ctx.pid
    <3>1. /\ p \in Runs /\ p # "no" /\ ctx.pidfd \in {"no", p} /\ ctx.flags = cfg.own[p]
        BY ZenonT(60), <1>1, <2>7 DEF Known, KnowsPid, KnowsPidfd, KnowsFlags, Since, Opening, Begun, InitGone, Runs
    <3>2. IF ctx.ask # {"all"} THEN ctx.ns = ctx.ask /\ ctx.inh = {}
          ELSE ctx.ns = cfg.own[p] /\ ctx.inh = {k \in NS \ cfg.own[p] : k = "cgroup" => Has("cgroup") /\ cfg.cgns}
        BY ZenonT(60), <1>1, <3>1 DEF Known, KnowsNamespaces
    <3>3. n \in ctx.inh /\ same_nsfd(n) => mine[n] = NsOf(p)[n]
        BY ZenonT(60), <2>7, <3>1 DEF same_nsfd, NsThere, State
    <3>4. Plan(n)' = IF n \in ctx.ns \/ (n \in ctx.inh /\ ~same_nsfd(n)) THEN NsOf(p)[n] ELSE mine[n]
      <4>1. CASE ctx.pidfd # "no"
        <5>1. ctx'.inh = {k \in ctx.inh : ~same_nsfd(k)}
            BY ZenonT(60), <1>1, <2>1, <4>1 DEF prepare_namespaces_pidfd, CtxShape
        <5> QED
            BY ZenonT(60), <1>1, <2>2, <3>1, <4>1, <5>1 DEF Plan, NsOf
      <4>2. CASE ctx.pidfd = "no"
        <5> DEFINE keep == {k \in ctx.ns : NsThere(ctx.dfd, k)} \cup {k \in ctx.inh : ~same_nsfd(k)}
        <5>1. ctx'.fd = [k \in NS |-> IF k \in keep THEN NsOf(ctx.dfd)[k] ELSE "no"]
            BY ZenonT(60), <1>1, <2>1, <4>2 DEF prepare_namespaces_nsfd, CtxShape
        <5>2. n \in keep <=> n \in ctx.ns \/ (n \in ctx.inh /\ ~same_nsfd(n))
            BY ZenonT(60), <2>7, <3>1 DEF NsThere, State
        <5>3. ctx'.fd[n] = IF n \in keep THEN NsOf(p)[n] ELSE "no"
            BY ZenonT(60), <2>7, <5>1
        <5>4. NsOf(p)[n] # "no"
            BY ZenonT(60), <2>7, <3>1 DEF NsOf, Runs
        <5> HIDE DEF keep
        <5> QED
            BY ZenonT(60), <1>1, <2>2, <4>2, <5>2, <5>3, <5>4 DEF Plan
      <4> QED
        BY ZenonT(60), <4>1, <4>2
    <3>5. Expected(ctx.pid, n)' = Expected(p, n)
        BY ZenonT(60), <1>1, <2>2 DEF Expected, NsOf, Has
    <3>6. CASE ctx.ask # {"all"}
        BY ZenonT(60), <3>2, <3>4, <3>5, <3>6 DEF Expected
    <3>7. CASE ctx.ask = {"all"}
      <4>1. CASE n = "cgroup" /\ n \notin cfg.own[p] /\ ~(Has("cgroup") /\ cfg.cgns)
        <5>1. mine[n] = IF n \in cfg.here THEN "mine" ELSE "host"
            BY ZenonT(60), <1>1, <4>1 DEF Known, Mine, NS
        <5> QED
            BY ZenonT(60), <3>2, <3>4, <3>5, <3>7, <4>1, <5>1 DEF Expected
      <4>2. CASE ~(n = "cgroup" /\ n \notin cfg.own[p] /\ ~(Has("cgroup") /\ cfg.cgns))
        <5>1. Plan(n)' = NsOf(p)[n]
            BY ZenonT(60), <2>7, <3>2, <3>3, <3>4, <3>7, <4>2
        <5>2. Expected(p, n) = NsOf(p)[n]
            BY ZenonT(60), <3>7, <4>2 DEF Expected
        <5> QED
            BY ZenonT(60), <3>5, <5>1, <5>2
      <4> QED
        BY ZenonT(60), <4>1, <4>2
    <3> QED
        BY ZenonT(60), <3>6, <3>7
  <2>8. Planned'
    BY ZenonT(60), <1>1, <2>2, <2>7 DEF Planned, PlanRight, InitEnded
  <2> QED
    BY ZenonT(60), <2>3, <2>4, <2>5, <2>6, <2>8 DEF Known
<1> QED
    BY ZenonT(60), <1>2, <1>3

\* What is known stays known, as init only gets older.
LEMMA KnownFrame ==
    ASSUME IInv, [Next]_vars, UNCHANGED <<cfg, ctx, mine>>, par'.byfd = par.byfd,
           par'.pc = par.pc \/ par'.pc \notin Opening \/ (par.pc = "terminal" /\ par'.pc = "fork"),
           tr'.pc # "no" => tr.pc # "no" \/ par.pc = "fork"
    PROVE  Known' /\ Planned'
<1> USE DEF IInv, Known, Since, Opening, InitGone
<1>0. BoxOk' /\ Aging
    BY ZenonT(60), BoxStep
<1>1. (KnowsPid /\ KnowsFlags /\ KnowsPidfd)'
    BY ZenonT(60), <1>0 DEF KnowsPid, KnowsFlags, KnowsPidfd, Aging, Begun
<1>2. (KnowsProcess /\ KnowsNamespaces)'
    BY ZenonT(60), <1>0 DEF KnowsPid, KnowsProcess, KnowsNamespaces, Aging, Begun, Has
<1>3. (KnowsIds /\ Mine)'
    BY ZenonT(60) DEF KnowsIds, Mine, userns_setup_ids, userns_target_ids
<1>4. (KnowsFilter /\ KnowsNnp)'
    BY ZenonT(60), <1>0 DEF KnowsPid, KnowsFilter, KnowsNnp, Aging, Begun, attach_lsm, Has
<1>5. PlanRight => PlanRight'
    BY DEF PlanRight, Plan, Expected, NsOf, Has
<1>6. Planned'
    BY ZenonT(60), <1>0, <1>5 DEF Planned, KnowsPid, Aging, Begun, InitEnded
<1> QED
    BY ZenonT(60), <1>1, <1>2, <1>3, <1>4, <1>6

-----------------------------------------------------------------------------
(* Frames *)

\* What an error with a transient process does: the socket is shut down, and
\* attach_context_put() is on its way.
LEMMA OnErrorEffect ==
    ASSUME ParShape, IpcShape, OnError
    PROVE  /\ par'.pc = "cleanup" /\ par'.ret = -1 /\ par'.early = par.early /\ par'.clean = par.clean /\ par'.told = par.told
           /\ par'.byfd = par.byfd
           /\ ipc'.up = ipc.up /\ ipc'.down = ipc.down
    BY ZenonT(60) DEF ParShape, IpcShape, OnError

\* Before there is another process only the caller's place changes.
LEMMA OpeningStep ==
    ASSUME IInv, par.pc \in Opening, UNCHANGED <<tr, att, ipc>>, par'.clean = par.clean, par'.told = par.told,
           \/ par'.pc \in Opening /\ par'.ret = par.ret
           \/ par'.pc = "ret" /\ par'.ret = -1 /\ par'.early
    PROVE  Where' /\ PidMeansOk' /\ TransientHas' /\ AttachedHas'
<1>1. AtOpening /\ TransientHas
    BY ZenonT(60) DEF IInv, Where
<1>2. tr'.pc = "no" /\ tr'.cg = "no" /\ att'.pc = "no" /\ NoMessages' /\ par'.clean = "no" /\ ~par'.told
    BY ZenonT(60), <1>1 DEF AtOpening, TransientHas, NoMessages
<1>3. AtOpening' /\ AtPreparing' /\ AtGetpid' /\ AtReap'
    BY ZenonT(60), <1>1, <1>2 DEF AtOpening, AtPreparing, AtGetpid, AtReap, Opening, Preparing
<1>4. AtLabel' /\ AtSent' /\ AtEnd' /\ AtKilled' /\ AtIdle'
    BY <1>1, <1>2 DEF AtOpening, AtLabel, AtSent, AtEnd, AtKilled, AtIdle, Opening
<1>5. PidMeansOk' /\ TransientHas' /\ AttachedHas'
    BY <1>2 DEF PidMeansOk, NoMessages, TransientHas, AttachedHas, Past, Runs
<1> QED
    BY ZenonT(60), <1>3, <1>4, <1>5 DEF Where

\* get_attach_context() and what follows it up to fork() keep the invariant.
LEMMA CallerOpens ==
    ASSUME IInv,
           get_init_pidfd \/ get_init_pid \/ get_clone_flags \/ open_proc \/ check_init \/ parse_init_status
             \/ fetch_seccomp \/ no_new_privs \/ prepare_namespaces \/ lxc_attach_terminal
    PROVE  Where' /\ PidMeansOk' /\ TransientHas' /\ AttachedHas'
<1>1. ParShape
    BY ZenonT(60) DEF IInv, Shape
<1>2. CASE get_init_pidfd
  <2>1. par.pc \in Opening /\ UNCHANGED <<tr, att, ipc>>
    BY ZenonT(60), <1>2 DEF get_init_pidfd, Opening
  <2>2. CASE par' = [par EXCEPT !.pc = "flags", !.byfd = TRUE]
    BY ZenonT(60), <1>1, <2>1, <2>2, OpeningStep DEF ParShape, Opening
  <2>3. CASE Goto("pid")
    BY ZenonT(60), <1>1, <2>1, <2>3, GotoEffect, OpeningStep DEF Opening
  <2> QED
    BY ZenonT(60), <1>2, <2>2, <2>3 DEF get_init_pidfd
<1>3. CASE lxc_attach_terminal
  <2>1. par.pc \in Opening /\ UNCHANGED <<tr, att, ipc>>
    BY ZenonT(60), <1>3 DEF lxc_attach_terminal, Opening
  <2>2. CASE par' = [par EXCEPT !.pc = "fork", !.raw = Has("term")]
    BY ZenonT(60), <1>1, <2>1, <2>2, OpeningStep DEF ParShape, Opening
  <2>3. CASE Fail
    BY ZenonT(60), <1>1, <2>1, <2>3, FailEffect, OpeningStep
  <2> QED
    BY ZenonT(60), <1>3, <2>2, <2>3 DEF lxc_attach_terminal
<1>4. CASE get_init_pid \/ get_clone_flags \/ open_proc \/ check_init \/ parse_init_status
           \/ fetch_seccomp \/ no_new_privs \/ prepare_namespaces
  <2>1. par.pc \in Opening /\ UNCHANGED <<tr, att, ipc>> /\ (Fail \/ \E x \in Opening : Goto(x))
    BY ZenonT(60), <1>4 DEF get_init_pid, get_clone_flags, open_proc, check_init, parse_init_status, fetch_seccomp, no_new_privs,
             prepare_namespaces, Opening
  <2>2. CASE Fail
    BY ZenonT(60), <1>1, <2>1, <2>2, FailEffect, OpeningStep
  <2>3. CASE \E x \in Opening : Goto(x)
    BY ZenonT(60), <1>1, <2>1, <2>3, GotoEffect, OpeningStep
  <2> QED
    BY ZenonT(60), <2>1, <2>2, <2>3
<1> QED
    BY ZenonT(60), <1>2, <1>3, <1>4

\* What the two processes have stays as it is, when they go on or end and
\* init gets older.
LEMMA HasFrame ==
    ASSUME IInv, [Next]_vars, UNCHANGED <<cfg, ctx, mine>>,
           tr'.ns = tr.ns /\ tr'.cg = tr.cg /\ tr'.limits = tr.limits /\ tr'.fds = tr.fds,
           tr'.pc = tr.pc \/ tr'.pc \in {"ok", "bad", "reaped"},
           att'.ns = att.ns /\ att'.cg = att.cg /\ att'.limits = att.limits /\ att'.fds = att.fds /\ att'.caps = att.caps
             /\ att'.label = att.label /\ att'.nnp = att.nnp /\ att'.sec = att.sec /\ att'.uid = att.uid /\ att'.env = att.env,
           att'.pc = att.pc \/ (att.pc # "no" /\ att'.pc \in {"done", "reaped"}),
           att'.pc \notin {"no", "done", "reaped"} /\ att.ns["pid"] \in Runs /\ box.init[att.ns["pid"]] = "run"
             => box'.init[att.ns["pid"]] = "run"
    PROVE  TransientHas' /\ AttachedHas'
<1>1. TransientHas /\ AttachedHas /\ BoxOk /\ Known
    BY ZenonT(60) DEF IInv
<1>2. BoxOk' /\ Aging
    BY ZenonT(60), <1>1, BoxStep
<1>3. /\ PlanRight => PlanRight'
      /\ \A n \in NS : Plan(n)' = Plan(n)
    BY SMTT(60) DEF PlanRight, Plan, Expected, NsOf, Has
<1>4. tr.pc # "no" => Begun(ctx.pid)
    BY ZenonT(60), <1>1 DEF Known, KnowsPid, Since
<1>5. (tr.cg \in Runs => tr.cg = ctx.pid \/ InitGone)'
    BY ZenonT(60), <1>1, <1>2, <1>4 DEF TransientHas, Aging, Begun, InitGone, Runs
<1>6. [n \in NS |-> Plan(n)]' = [n \in NS |-> Plan(n)]
    BY ZenonT(60), <1>3
<1>7. TransientHas'
    BY ZenonT(60), <1>1, <1>3, <1>5, <1>6 DEF TransientHas
<1>8. (att.pc # "no" =>
        /\ tr.pc \in {"tell", "ok", "bad", "reaped"}
        /\ att.limits = tr.limits /\ att.cg = tr.cg /\ att.fds = {} /\ att.ns = [n \in NS |-> Plan(n)]
        /\ att.pc \notin {"done", "reaped"} /\ att.ns["pid"] \in Runs => box.init[att.ns["pid"]] = "run")'
    BY ZenonT(60), <1>1, <1>6 DEF AttachedHas
<1>9. (att.pc \in {"lsm"} \cup Past =>
        (att.caps <=> Has("caps")) /\ att.env = set_environment(cfg.keep, cfg.env, cfg.conf, cfg.extra))'
    BY SMTT(60), <1>1 DEF AttachedHas, Past, Has, set_environment
<1>10. (att.pc \in Past /\ ctx.label => Ready)'
    BY ZenonT(60), <1>1 DEF AttachedHas, Past, Ready, Has
<1>11. AttachedHas'
    BY <1>1, <1>8, <1>9, <1>10 DEF AttachedHas
<1> QED
    BY ZenonT(60), <1>7, <1>11

\* The caller is told a pid only by a transient process that has ended well.
LEMMA PidFrame ==
    ASSUME IInv, ipc'.up = ipc.up \/ (ipc.up # <<>> /\ ipc'.up = Tail(ipc.up)) \/ ipc'.up = Append(ipc.up, "fd"),
           tr.pc \in {"ok", "reaped"} => tr'.pc \in {"ok", "reaped"}
    PROVE  PidMeansOk'
<1>1. PidMeansOk /\ ipc.up \in Seq({"pid", "fd"})
    BY ZenonT(60) DEF IInv, Shape, IpcShape
<1>2. CASE ipc'.up = ipc.up
    BY ZenonT(60), <1>1, <1>2 DEF PidMeansOk
<1>3. CASE ipc.up # <<>> /\ ipc'.up = Tail(ipc.up)
  <2>1. \A i \in DOMAIN Tail(ipc.up) : i + 1 \in DOMAIN ipc.up /\ Tail(ipc.up)[i] = ipc.up[i + 1]
    BY <1>1, <1>3
  <2> QED
    BY ZenonT(60), <1>1, <1>3, <2>1 DEF PidMeansOk
<1>4. CASE ipc'.up = Append(ipc.up, "fd")
  <2>1. \A i \in DOMAIN Append(ipc.up, "fd") :
            Append(ipc.up, "fd")[i] = "fd" \/ (i \in DOMAIN ipc.up /\ Append(ipc.up, "fd")[i] = ipc.up[i])
    BY <1>1
  <2> QED
    BY ZenonT(60), <1>1, <1>4, <2>1 DEF PidMeansOk
<1> QED
    BY ZenonT(60), <1>2, <1>3, <1>4

-----------------------------------------------------------------------------
(* Who is where *)

\* Where the caller is while the transient process may take a step.
LEMMA LiveTransient ==
    ASSUME IInv, tr.pc \in {"wait", "ns", "clone", "tell"}
    PROVE  \/ par.pc \in Preparing /\ tr.pc = "wait" /\ att.pc = "no" /\ NoMessages
           \/ par.pc = "getpid" /\ NotSent
           \/ par.pc = "cleanup" /\ par.ret = -1 /\ par.clean = "tr" /\ NotSent
<1>1. Where /\ par.pc \in ParPc /\ par.ret \in {0, -1} /\ par.clean \in {"no", "tr", "att"}
    BY ZenonT(60) DEF IInv, Shape, ParShape
<1>2. par.pc \notin Opening \cup {"reap", "label", "notifier", "shut", "loop", "ret", "killed", "idle"}
    BY ZenonT(60), <1>1 DEF Where, AtOpening, AtReap, AtLabel, AtSent, AtEnd, AtKilled, AtIdle
<1>3. CASE par.pc = "cleanup"
    BY ZenonT(60), <1>1, <1>3 DEF Where, AtEnd
<1>4. CASE par.pc \in Preparing \cup {"getpid"}
    BY ZenonT(60), <1>1, <1>4 DEF Where, AtPreparing, AtGetpid
<1> QED
    BY ZenonT(60), <1>1, <1>2, <1>3, <1>4 DEF ParPc

\* A step of the transient process keeps what is true at the caller's place.
LEMMA TransientMoves ==
    ASSUME IInv, tr.pc \in {"wait", "ns", "clone", "tell"}, UNCHANGED <<cfg, par, ctx>>,
           tr'.cg = tr.cg, tr'.limits = tr.limits, tr'.pc \notin {"no", "reaped"},
           par.pc \in Preparing => tr'.pc = "bad" /\ UNCHANGED <<att, ipc>>,
           NotSent => NotSent'
    PROVE  Where'
<1>1. Where
    BY ZenonT(60) DEF IInv
<1>2. CASE par.pc \in Preparing /\ tr.pc = "wait" /\ att.pc = "no" /\ NoMessages
  <2>1. AtPreparing'
    BY ZenonT(60), <1>1, <1>2 DEF Where, AtPreparing, NoMessages, Has
  <2>2. AtOpening' /\ AtGetpid' /\ AtReap' /\ AtLabel' /\ AtSent' /\ AtEnd' /\ AtKilled' /\ AtIdle'
    BY ZenonT(60), <1>2 DEF Preparing, Opening, AtOpening, AtGetpid, AtReap, AtLabel, AtSent, AtEnd, AtKilled, AtIdle
  <2> QED
    BY ZenonT(60), <2>1, <2>2 DEF Where
<1>3. CASE par.pc = "getpid" /\ NotSent
  <2>1. AtGetpid'
    BY ZenonT(60), <1>1, <1>3 DEF Where, AtGetpid, Ready, Has
  <2>2. AtOpening' /\ AtPreparing' /\ AtReap' /\ AtLabel' /\ AtSent' /\ AtEnd' /\ AtKilled' /\ AtIdle'
    BY ZenonT(60), <1>3 DEF Preparing, Opening, AtOpening, AtPreparing, AtReap, AtLabel, AtSent, AtEnd, AtKilled, AtIdle
  <2> QED
    BY ZenonT(60), <2>1, <2>2 DEF Where
<1>4. CASE par.pc = "cleanup" /\ par.ret = -1 /\ par.clean = "tr" /\ NotSent
  <2>1. AtEnd'
    BY ZenonT(60), <1>1, <1>4 DEF Where, AtEnd
  <2>2. AtOpening' /\ AtPreparing' /\ AtGetpid' /\ AtReap' /\ AtLabel' /\ AtSent' /\ AtKilled' /\ AtIdle'
    BY ZenonT(60), <1>4 DEF Preparing, Opening, AtOpening, AtPreparing, AtReap, AtLabel, AtSent, AtGetpid, AtKilled, AtIdle
  <2> QED
    BY ZenonT(60), <2>1, <2>2 DEF Where
<1> QED
    BY ZenonT(60), <1>2, <1>3, <1>4, LiveTransient

\* A step of the attached process keeps what is true at the caller's place.
LEMMA AttachedMoves ==
    ASSUME IInv, att.pc \notin {"no", "reaped"}, UNCHANGED <<cfg, par, ctx, tr>>, att'.pc \notin {"no", "reaped"},
           NotSent => NotSent'
    PROVE  Where'
<1>1. Where
    BY ZenonT(60) DEF IInv
<1>2. Ready' <=> Ready
    BY ZenonT(60) DEF Ready, Has
<1>3. AtOpening' /\ AtPreparing' /\ AtKilled'
    BY ZenonT(60), <1>1 DEF Where, AtOpening, AtPreparing, AtKilled
<1>4. AtGetpid' /\ AtReap' /\ AtLabel' /\ AtSent'
    BY ZenonT(60), <1>1, <1>2 DEF Where, AtGetpid, AtReap, AtLabel, AtSent
<1>5. AtEnd' /\ AtIdle'
    BY ZenonT(60), <1>1, <1>2 DEF Where, AtEnd, AtIdle
<1> QED
    BY ZenonT(60), <1>3, <1>4, <1>5 DEF Where

\* lxc_abstract_unix_recv_one_fd() finds the label's descriptor only after
\* the transient process was moved into the cgroup and given its limits.
LEMMA SentMeansReady ==
    ASSUME IInv, att.pc = "lsm", ipc.down # <<>>
    PROVE  Ready
<1>1. Where /\ par.pc \in ParPc /\ par.ret \in {0, -1} /\ par.clean \in {"no", "tr", "att"} /\ ~NotSent
    BY ZenonT(60) DEF IInv, Shape, ParShape, NotSent
<1>2. CASE par.pc \in Opening \cup Preparing \cup {"getpid", "reap", "label", "killed", "idle"}
    BY ZenonT(60), <1>1, <1>2 DEF Where, AtOpening, AtPreparing, AtGetpid, AtReap, AtLabel, AtKilled, AtIdle
<1>3. CASE par.pc \in {"notifier", "shut", "loop"}
    BY ZenonT(60), <1>1, <1>3 DEF Where, AtSent
<1>4. CASE par.pc \in {"cleanup", "ret"}
    BY ZenonT(60), <1>1, <1>4 DEF Where, AtEnd
<1> QED
    BY ZenonT(60), <1>1, <1>2, <1>3, <1>4 DEF ParPc

\* A new call of lxc_attach() finds nothing of the last one.
LEMMA CallStep == IInv /\ lxc_attach => Where' /\ PidMeansOk' /\ TransientHas' /\ AttachedHas'
<1> SUFFICES ASSUME IInv, lxc_attach PROVE Where' /\ PidMeansOk' /\ TransientHas' /\ AttachedHas'
    OBVIOUS
<1>1. /\ par'.pc = "pidfd" /\ par'.ret = 0 /\ par'.clean = "no" /\ ~par'.told
      /\ tr'.pc = "no" /\ tr'.cg = "no" /\ att'.pc = "no"
      /\ ipc'.up = <<>> /\ ipc'.down = <<>> /\ ~ipc'.shut
    BY ZenonT(60) DEF lxc_attach, NoCall, NoTransient, NoAttached
<1>2. AtOpening' /\ AtPreparing' /\ AtGetpid' /\ AtReap'
    BY ZenonT(60), <1>1 DEF AtOpening, AtPreparing, AtGetpid, AtReap, Opening, Preparing, NoMessages
<1>3. AtLabel' /\ AtSent' /\ AtEnd' /\ AtKilled' /\ AtIdle'
    BY ZenonT(60), <1>1 DEF AtLabel, AtSent, AtEnd, AtKilled, AtIdle
<1>4. PidMeansOk' /\ TransientHas' /\ AttachedHas'
    BY <1>1 DEF PidMeansOk, TransientHas, AttachedHas, Past, Runs
<1> QED
    BY ZenonT(60), <1>2, <1>3, <1>4 DEF Where

\* fork() keeps the invariant: the transient process starts with the caller's
\* namespaces and descriptors.
LEMMA ForkStep == IInv /\ fork_transient => Where' /\ PidMeansOk' /\ TransientHas' /\ AttachedHas'
<1> SUFFICES ASSUME IInv, fork_transient PROVE Where' /\ PidMeansOk' /\ TransientHas' /\ AttachedHas'
    OBVIOUS
<1>1. ParShape /\ AtOpening /\ par.pc = "fork" /\ par.pc \in Opening /\ UNCHANGED <<cfg, box, mine, ctx, att, ipc>>
    BY ZenonT(60) DEF IInv, Shape, Where, fork_transient, Opening
<1>2. CASE Fail /\ UNCHANGED tr
    BY ZenonT(60), <1>1, <1>2, FailEffect, OpeningStep
<1> DEFINE fds == {"self", "init"} \cup IF ctx.pidfd = "no" THEN {"ns"} ELSE {"pidfd"}
<1>3. CASE /\ par' = [par EXCEPT !.pc = "cgroup", !.clean = "tr"]
           /\ tr' = [NoTransient EXCEPT !.pc = "wait", !.ns = mine, !.fds = fds]
  <2>1. /\ par'.pc = "cgroup" /\ par'.clean = "tr" /\ par'.ret = 0 /\ ~par'.told /\ att'.pc = "no" /\ NoMessages'
    BY ZenonT(60), <1>1, <1>3 DEF ParShape, AtOpening, NoMessages
  <2> HIDE DEF fds
  <2>2. tr'.pc = "wait" /\ tr'.cg = "no" /\ tr'.ns = mine /\ tr'.fds = fds
    BY ZenonT(60), <1>3 DEF NoTransient
  <2>3. AtOpening' /\ AtPreparing' /\ AtGetpid' /\ AtReap'
    BY ZenonT(60), <2>1, <2>2 DEF AtOpening, AtPreparing, AtGetpid, AtReap, Opening, Preparing
  <2>4. AtLabel' /\ AtSent' /\ AtEnd' /\ AtKilled' /\ AtIdle'
    BY ZenonT(60), <2>1 DEF AtLabel, AtSent, AtEnd, AtKilled, AtIdle
  <2>5. PidMeansOk' /\ TransientHas' /\ AttachedHas'
    BY <1>1, <2>1, <2>2 DEF PidMeansOk, NoMessages, TransientHas, AttachedHas, Past, Runs, fds
  <2> QED
    BY ZenonT(60), <2>3, <2>4, <2>5 DEF Where
<1> QED
    BY ZenonT(60), <1>2, <1>3 DEF fork_transient

-----------------------------------------------------------------------------
(* The caller's steps *)

\* cgroup_attach() keeps the invariant: the cgroup is that of init, or init
\* is gone.
LEMMA CgroupStep == IInv /\ cgroup_attach => Where' /\ PidMeansOk' /\ TransientHas' /\ AttachedHas'
<1> SUFFICES ASSUME IInv, cgroup_attach PROVE Where' /\ PidMeansOk' /\ TransientHas' /\ AttachedHas'
    OBVIOUS
<1>1. ParShape /\ TrShape /\ IpcShape /\ BoxOk /\ Known /\ PidMeansOk /\ TransientHas /\ AttachedHas /\ AtPreparing /\ par.pc = "cgroup"
      /\ UNCHANGED <<cfg, box, mine, ctx, att>>
    BY ZenonT(60) DEF IInv, Shape, Where, cgroup_attach
<1>2. /\ tr.pc \in {"wait", "bad"} /\ att.pc = "no" /\ NoMessages /\ par.ret = 0 /\ par.clean = "tr" /\ ~par.told
    BY ZenonT(60), <1>1 DEF AtPreparing, Preparing
<1>3. Begun(ctx.pid) /\ box.cur \in Runs
    BY ZenonT(60), <1>1, <1>2 DEF Known, KnowsPid, Since, BoxOk
<1>4. CASE OnError /\ UNCHANGED tr
  <2>1. /\ par'.pc = "cleanup" /\ par'.ret = -1 /\ par'.clean = "tr" /\ ~par'.told /\ ipc'.up = <<>> /\ ipc'.down = <<>>
    BY ZenonT(60), <1>1, <1>2, <1>4, OnErrorEffect DEF NoMessages
  <2>2. AtEnd'
    BY SMTT(60), <1>1, <1>2, <1>4, <2>1 DEF AtEnd, NotSent, Past
  <2>3. AtOpening' /\ AtPreparing' /\ AtGetpid' /\ AtReap' /\ AtLabel' /\ AtSent' /\ AtKilled' /\ AtIdle'
    BY ZenonT(60), <2>1 DEF AtOpening, AtPreparing, AtGetpid, AtReap, AtLabel, AtSent, AtKilled, AtIdle, Opening, Preparing
  <2>4. PidMeansOk' /\ AttachedHas'
    BY SMTT(60), <1>1, <1>2, <1>4, <2>1 DEF PidMeansOk, AttachedHas, Past
  <2>5. TransientHas'
    <3>1. tr' = tr /\ ctx' = ctx /\ box' = box /\ mine' = mine /\ att' = att /\ TransientHas
      BY ZenonT(60), <1>1, <1>4
    <3> QED
      BY ZenonT(60), <1>2, <3>1 DEF TransientHas, InitGone
  <2> QED
    BY ZenonT(60), <2>2, <2>3, <2>4, <2>5 DEF Where
<1>5. CASE Goto("limits") /\ UNCHANGED ipc /\ tr'.pc = tr.pc /\ tr'.ns = tr.ns /\ tr'.fds = tr.fds
           /\ \/ ~Has("cgroup") /\ tr'.cg = tr.cg
              \/ box.mon /\ tr'.cg = box.cur
  <2>1. par'.pc = "limits" /\ par'.ret = 0 /\ par'.clean = "tr" /\ ~par'.told
    BY ZenonT(60), <1>1, <1>2, <1>5, GotoEffect
  <2>2. AtPreparing'
    BY ZenonT(60), <1>1, <1>2, <1>3, <1>5, <2>1 DEF AtPreparing, NoMessages, Has
  <2>3. AtOpening' /\ AtGetpid' /\ AtReap' /\ AtLabel' /\ AtSent' /\ AtEnd' /\ AtKilled' /\ AtIdle'
    BY ZenonT(60), <2>1 DEF AtOpening, AtGetpid, AtReap, AtLabel, AtSent, AtEnd, AtKilled, AtIdle, Opening
  <2>4. (tr.cg \in Runs => tr.cg = ctx.pid \/ InitGone)' /\ (tr.cg \in Runs \cup {"no"})'
    BY ZenonT(60), <1>1, <1>3, <1>5 DEF TransientHas, InitGone, BoxOk, Begun, Runs
  <2>5. PidMeansOk' /\ TransientHas' /\ AttachedHas'
    BY ZenonT(60), <1>1, <1>2, <1>5, <2>1, <2>4 DEF PidMeansOk, NoMessages, TransientHas, AttachedHas, Past
  <2> QED
    BY ZenonT(60), <2>2, <2>3, <2>5 DEF Where
<1>6. CASE ~Has("cgroup") /\ Goto("limits") /\ UNCHANGED <<tr, ipc>>
    BY ZenonT(60), <1>5, <1>6
<1>7. CASE box.mon /\ tr' = [tr EXCEPT !.cg = box.cur] /\ Goto("limits") /\ UNCHANGED ipc
    BY ZenonT(60), <1>1, <1>5, <1>7 DEF TrShape
<1> QED
    BY ZenonT(60), <1>4, <1>6, <1>7 DEF cgroup_attach

\* lxc_setup_resource_limits() and what goes with it keep the invariant.
LEMMA LimitsStep == IInv /\ setup_limits => Where' /\ PidMeansOk' /\ TransientHas' /\ AttachedHas'
<1> SUFFICES ASSUME IInv, setup_limits PROVE Where' /\ PidMeansOk' /\ TransientHas' /\ AttachedHas'
    OBVIOUS
<1>1. ParShape /\ TrShape /\ IpcShape /\ PidMeansOk /\ TransientHas /\ AttachedHas /\ AtPreparing /\ par.pc = "limits"
      /\ UNCHANGED <<cfg, box, mine, ctx, att>>
    BY ZenonT(60) DEF IInv, Shape, Where, setup_limits
<1>2. /\ tr.pc \in {"wait", "bad"} /\ att.pc = "no" /\ NoMessages /\ par.ret = 0 /\ par.clean = "tr" /\ ~par.told
      /\ Has("cgroup") => tr.cg \in Runs
    BY ZenonT(60), <1>1 DEF AtPreparing, Preparing
<1>3. CASE OnError /\ UNCHANGED tr
  <2>1. /\ par'.pc = "cleanup" /\ par'.ret = -1 /\ par'.clean = "tr" /\ ~par'.told /\ ipc'.up = <<>> /\ ipc'.down = <<>>
    BY ZenonT(60), <1>1, <1>2, <1>3, OnErrorEffect DEF NoMessages
  <2>2. AtEnd'
    BY SMTT(60), <1>1, <1>2, <1>3, <2>1 DEF AtEnd, NotSent, Past
  <2>3. AtOpening' /\ AtPreparing' /\ AtGetpid' /\ AtReap' /\ AtLabel' /\ AtSent' /\ AtKilled' /\ AtIdle'
    BY ZenonT(60), <2>1 DEF AtOpening, AtPreparing, AtGetpid, AtReap, AtLabel, AtSent, AtKilled, AtIdle, Opening, Preparing
  <2>4. PidMeansOk' /\ TransientHas' /\ AttachedHas'
    BY SMTT(60), <1>1, <1>2, <1>3, <2>1 DEF PidMeansOk, TransientHas, AttachedHas, Past, InitGone
  <2> QED
    BY ZenonT(60), <2>2, <2>3, <2>4 DEF Where
<1>4. CASE tr' = [tr EXCEPT !.limits = TRUE] /\ Goto("go") /\ UNCHANGED ipc
  <2>1. /\ par'.pc = "go" /\ par'.ret = 0 /\ par'.clean = "tr" /\ ~par'.told
        /\ tr'.pc = tr.pc /\ tr'.ns = tr.ns /\ tr'.fds = tr.fds /\ tr'.cg = tr.cg /\ tr'.limits
    BY ZenonT(60), <1>1, <1>2, <1>4, GotoEffect DEF TrShape
  <2>2. AtPreparing'
    BY ZenonT(60), <1>1, <1>2, <1>4, <2>1 DEF AtPreparing, NoMessages, Has
  <2>3. AtOpening' /\ AtGetpid' /\ AtReap' /\ AtLabel' /\ AtSent' /\ AtEnd' /\ AtKilled' /\ AtIdle'
    BY ZenonT(60), <2>1 DEF AtOpening, AtGetpid, AtReap, AtLabel, AtSent, AtEnd, AtKilled, AtIdle, Opening
  <2>4. PidMeansOk' /\ TransientHas' /\ AttachedHas'
    BY ZenonT(60), <1>1, <1>2, <1>4, <2>1 DEF PidMeansOk, NoMessages, TransientHas, AttachedHas, Past, InitGone
  <2> QED
    BY ZenonT(60), <2>2, <2>3, <2>4 DEF Where
<1> QED
    BY ZenonT(60), <1>3, <1>4 DEF setup_limits

\* sync_wake() of the transient process keeps the invariant.
LEMMA GoStep == IInv /\ sync_wake_cgroup => Where' /\ PidMeansOk' /\ TransientHas' /\ AttachedHas'
<1> SUFFICES ASSUME IInv, sync_wake_cgroup PROVE Where' /\ PidMeansOk' /\ TransientHas' /\ AttachedHas'
    OBVIOUS
<1>1. ParShape /\ IpcShape /\ AtPreparing /\ par.pc = "go" /\ UNCHANGED <<cfg, box, mine, ctx, tr, att>>
    BY ZenonT(60) DEF IInv, Shape, Where, sync_wake_cgroup
<1>2. /\ tr.pc \in {"wait", "bad"} /\ att.pc = "no" /\ NoMessages /\ par.ret = 0 /\ par.clean = "tr" /\ ~par.told /\ Ready
    BY ZenonT(60), <1>1 DEF AtPreparing, Preparing, Ready
<1>3. TransientHas' /\ AttachedHas'
    BY ZenonT(60), <1>1, <1>2, HasFrame DEF Next, Caller
<1>4. Ready'
    BY ZenonT(60), <1>1, <1>2 DEF Ready, Has
<1>5. CASE TrGone
  <2>1. par'.pc = "killed" /\ UNCHANGED ipc
    BY ZenonT(60), <1>1, <1>5, GotoEffect DEF sync_wake_cgroup
  <2>2. AtKilled'
    BY ZenonT(60), <1>1, <1>2, <1>5, <2>1 DEF AtKilled, NotSent, NoMessages, Past, TrGone
  <2>3. AtOpening' /\ AtPreparing' /\ AtGetpid' /\ AtReap' /\ AtLabel' /\ AtSent' /\ AtEnd' /\ AtIdle'
    BY ZenonT(60), <2>1 DEF AtOpening, AtPreparing, AtGetpid, AtReap, AtLabel, AtSent, AtEnd, AtIdle, Opening, Preparing
  <2>4. PidMeansOk'
    BY ZenonT(60), <1>1, <2>1, PidFrame
  <2> QED
    BY ZenonT(60), <1>3, <2>2, <2>3, <2>4 DEF Where
<1>6. CASE ~TrGone
  <2>1. /\ par'.pc = "getpid" /\ par'.ret = 0 /\ par'.clean = "tr" /\ ~par'.told
        /\ ipc'.up = ipc.up /\ ipc'.down = Append(ipc.down, "go")
    BY ZenonT(60), <1>1, <1>2, <1>6, GotoEffect DEF sync_wake_cgroup, IpcShape
  <2>2. ipc'.down = <<"go">>
    BY <1>2, <2>1 DEF NoMessages
  <2>3. AtGetpid'
    <3>1. (ipc.down \in {<<>>, <<"go">>})'
        BY ZenonT(60), <2>2
    <3>2. tr'.pc = "wait" /\ att'.pc = "no"
        BY ZenonT(60), <1>1, <1>2, <1>6 DEF TrGone
    <3>3. NotSent'
        BY ZenonT(60), <3>1, <3>2 DEF NotSent, Past
    <3> QED
        BY ZenonT(60), <1>4, <2>1, <3>2, <3>3 DEF AtGetpid
  <2>4. AtOpening' /\ AtPreparing' /\ AtReap' /\ AtLabel' /\ AtSent' /\ AtEnd' /\ AtKilled' /\ AtIdle'
    BY ZenonT(60), <2>1 DEF AtOpening, AtPreparing, AtReap, AtLabel, AtSent, AtEnd, AtKilled, AtIdle, Opening, Preparing
  <2>5. PidMeansOk'
    BY ZenonT(60), <1>1, <2>1, PidFrame
  <2> QED
    BY ZenonT(60), <1>3, <2>3, <2>4, <2>5 DEF Where
<1> QED
    BY ZenonT(60), <1>5, <1>6

\* Receiving the attached process's pid keeps the invariant: the transient
\* process has ended well.
LEMMA WaitPidStep == IInv /\ sync_wait_pid => Where' /\ PidMeansOk' /\ TransientHas' /\ AttachedHas'
<1> SUFFICES ASSUME IInv, sync_wait_pid PROVE Where' /\ PidMeansOk' /\ TransientHas' /\ AttachedHas'
    OBVIOUS
<1>1. ParShape /\ IpcShape /\ PidMeansOk /\ par.pc = "getpid" /\ UNCHANGED <<cfg, box, mine, ctx, tr, att>>
      /\ NotSent /\ Ready /\ tr.pc \notin {"no", "reaped"} /\ par.ret = 0 /\ par.clean = "tr" /\ ~par.told
    BY ZenonT(60) DEF IInv, Shape, Where, AtGetpid, sync_wait_pid
<1>2. TransientHas' /\ AttachedHas'
    BY ZenonT(60), <1>1, HasFrame DEF Next, Caller
<1>3. Ready'
    BY ZenonT(60), <1>1 DEF Ready, Has
<1>4. CASE ipc.up # <<>> /\ Head(ipc.up) = "pid"
          /\ ipc' = [ipc EXCEPT !.up = Tail(@), !.shut = @ \/ Head(ipc.up) # "pid"]
          /\ par' = [par EXCEPT !.pc = "reap", !.told = TRUE]
  <2>1. par'.pc = "reap" /\ par'.ret = 0 /\ par'.clean = "tr" /\ ipc'.up = Tail(ipc.up) /\ ipc'.down = ipc.down
    BY ZenonT(60), <1>1, <1>4 DEF ParShape, IpcShape
  <2>2. tr.pc = "ok"
    <3>1. 1 \in DOMAIN ipc.up /\ ipc.up[1] = "pid"
        BY SMTT(60), <1>1, <1>4 DEF IpcShape
    <3> QED
        BY ZenonT(60), <1>1, <3>1 DEF PidMeansOk
  <2>3. AtReap'
    BY ZenonT(60), <1>1, <1>3, <2>1, <2>2 DEF AtReap, NotSent
  <2>4. AtOpening' /\ AtPreparing' /\ AtGetpid' /\ AtLabel' /\ AtSent' /\ AtEnd' /\ AtKilled' /\ AtIdle'
    BY ZenonT(60), <2>1 DEF AtOpening, AtPreparing, AtGetpid, AtLabel, AtSent, AtEnd, AtKilled, AtIdle, Opening, Preparing
  <2>5. PidMeansOk'
    BY ZenonT(60), <1>1, <1>4, <2>1, PidFrame
  <2> QED
    BY ZenonT(60), <1>2, <2>3, <2>4, <2>5 DEF Where
<1>5. CASE /\ par'.pc = "cleanup" /\ par'.ret = -1 /\ par'.clean = "tr" /\ ~par'.told /\ ipc'.down = ipc.down
           /\ ipc'.up = ipc.up \/ (ipc.up # <<>> /\ ipc'.up = Tail(ipc.up))
  <2>1. AtEnd'
    BY SMTT(60), <1>1, <1>5 DEF AtEnd, NotSent
  <2>2. AtOpening' /\ AtPreparing' /\ AtGetpid' /\ AtReap' /\ AtLabel' /\ AtSent' /\ AtKilled' /\ AtIdle'
    BY ZenonT(60), <1>5 DEF AtOpening, AtPreparing, AtGetpid, AtReap, AtLabel, AtSent, AtKilled, AtIdle, Opening, Preparing
  <2>3. PidMeansOk'
    BY ZenonT(60), <1>1, <1>5, PidFrame
  <2> QED
    BY ZenonT(60), <1>2, <2>1, <2>2, <2>3 DEF Where
<1>6. CASE ipc.up # <<>> /\ Head(ipc.up) # "pid"
          /\ ipc' = [ipc EXCEPT !.up = Tail(@), !.shut = @ \/ Head(ipc.up) # "pid"]
          /\ par' = [par EXCEPT !.pc = "cleanup", !.ret = -1]
    BY ZenonT(60), <1>1, <1>5, <1>6 DEF ParShape, IpcShape
<1>7. CASE OnError
    BY ZenonT(60), <1>1, <1>5, <1>7, OnErrorEffect
<1> QED
    BY ZenonT(60), <1>4, <1>6, <1>7 DEF sync_wait_pid

\* Waiting for the transient process keeps the invariant.
LEMMA ReapStep == IInv /\ reap_transient => Where' /\ PidMeansOk' /\ TransientHas' /\ AttachedHas'
<1> SUFFICES ASSUME IInv, reap_transient PROVE Where' /\ PidMeansOk' /\ TransientHas' /\ AttachedHas'
    OBVIOUS
<1>1. ParShape /\ TrShape /\ par.pc = "reap" /\ UNCHANGED <<cfg, box, mine, ctx, att>>
      /\ NotSent /\ Ready /\ tr.pc = "ok" /\ par.ret = 0 /\ tr' = [tr EXCEPT !.pc = "reaped"]
    BY ZenonT(60) DEF IInv, Shape, Where, AtReap, reap_transient
<1>2. /\ tr'.pc = "reaped" /\ tr'.ns = tr.ns /\ tr'.fds = tr.fds /\ tr'.cg = tr.cg /\ tr'.limits = tr.limits
    BY ZenonT(60), <1>1 DEF TrShape
<1>3. par'.pc = "label" /\ par'.ret = 0 /\ par'.clean = "att" /\ UNCHANGED ipc
  <2>1. par' = [par EXCEPT !.pc = "label", !.clean = "att"] /\ UNCHANGED ipc
    BY ZenonT(60), <1>1 DEF reap_transient
  <2> QED
    BY ZenonT(60), <1>1, <2>1 DEF ParShape
<1>4. TransientHas' /\ AttachedHas'
    BY ZenonT(60), <1>1, <1>2, HasFrame DEF Next, Caller
<1>5. AtLabel'
    BY ZenonT(60), <1>1, <1>2, <1>3 DEF AtLabel, Ready, Has, NotSent
<1>6. AtOpening' /\ AtPreparing' /\ AtGetpid' /\ AtReap' /\ AtSent' /\ AtEnd' /\ AtKilled' /\ AtIdle'
    BY ZenonT(60), <1>3 DEF AtOpening, AtPreparing, AtGetpid, AtReap, AtSent, AtEnd, AtKilled, AtIdle, Opening, Preparing
<1>7. PidMeansOk'
    BY ZenonT(60), <1>1, <1>2, <1>3, PidFrame
<1> QED
    BY ZenonT(60), <1>4, <1>5, <1>6, <1>7 DEF Where

\* Sending the label's descriptor keeps the invariant.
LEMMA LabelStep == IInv /\ send_label_fd => Where' /\ PidMeansOk' /\ TransientHas' /\ AttachedHas'
<1> SUFFICES ASSUME IInv, send_label_fd PROVE Where' /\ PidMeansOk' /\ TransientHas' /\ AttachedHas'
    OBVIOUS
<1>1. ParShape /\ IpcShape /\ par.pc = "label" /\ UNCHANGED <<cfg, box, mine, ctx, tr, att>>
      /\ Ready /\ tr.pc = "reaped" /\ par.ret = 0 /\ par.clean = "att"
    BY ZenonT(60) DEF IInv, Shape, Where, AtLabel, send_label_fd
<1>2. TransientHas' /\ AttachedHas'
    BY ZenonT(60), <1>1, HasFrame DEF Next, Caller
<1>3. Ready'
    BY ZenonT(60), <1>1 DEF Ready, Has
<1>4. CASE par'.pc = "notifier" /\ par'.ret = 0 /\ par'.clean = "att" /\ ipc'.up = ipc.up
  <2>1. AtSent'
    BY ZenonT(60), <1>1, <1>3, <1>4 DEF AtSent
  <2>2. AtOpening' /\ AtPreparing' /\ AtGetpid' /\ AtReap' /\ AtLabel' /\ AtEnd' /\ AtKilled' /\ AtIdle'
    BY ZenonT(60), <1>4 DEF AtOpening, AtPreparing, AtGetpid, AtReap, AtLabel, AtEnd, AtKilled, AtIdle, Opening, Preparing
  <2>3. PidMeansOk'
    BY ZenonT(60), <1>1, <1>4, PidFrame
  <2> QED
    BY ZenonT(60), <1>2, <2>1, <2>2, <2>3 DEF Where
<1>5. CASE OnError
  <2>1. par'.pc = "cleanup" /\ par'.ret = -1 /\ par'.clean = "att" /\ ipc'.up = ipc.up
    BY ZenonT(60), <1>1, <1>5, OnErrorEffect
  <2>2. AtEnd'
    BY SMTT(60), <1>1, <1>3, <2>1 DEF AtEnd
  <2>3. AtOpening' /\ AtPreparing' /\ AtGetpid' /\ AtReap' /\ AtLabel' /\ AtSent' /\ AtKilled' /\ AtIdle'
    BY ZenonT(60), <2>1 DEF AtOpening, AtPreparing, AtGetpid, AtReap, AtLabel, AtSent, AtKilled, AtIdle, Opening, Preparing
  <2>4. PidMeansOk'
    BY ZenonT(60), <1>1, <2>1, PidFrame
  <2> QED
    BY ZenonT(60), <1>2, <2>2, <2>3, <2>4 DEF Where
<1>6. CASE Goto("notifier") /\ UNCHANGED ipc
    BY ZenonT(60), <1>1, <1>4, <1>6, GotoEffect
<1>7. CASE Goto("notifier") /\ ipc' = [ipc EXCEPT !.down = Append(@, "fd")]
    BY ZenonT(60), <1>1, <1>4, <1>7, GotoEffect DEF IpcShape
<1> QED
    BY ZenonT(60), <1>5, <1>6, <1>7 DEF send_label_fd

\* Receiving the notifier's descriptor keeps the invariant.
LEMMA NotifierStep == IInv /\ seccomp_notifier => Where' /\ PidMeansOk' /\ TransientHas' /\ AttachedHas'
<1> SUFFICES ASSUME IInv, seccomp_notifier PROVE Where' /\ PidMeansOk' /\ TransientHas' /\ AttachedHas'
    OBVIOUS
<1>1. ParShape /\ IpcShape /\ par.pc = "notifier" /\ UNCHANGED <<cfg, box, mine, ctx, tr, att>>
      /\ Ready /\ tr.pc = "reaped" /\ par.ret = 0 /\ par.clean = "att"
    BY ZenonT(60) DEF IInv, Shape, Where, AtSent, seccomp_notifier
<1>2. TransientHas' /\ AttachedHas'
    BY ZenonT(60), <1>1, HasFrame DEF Next, Caller
<1>3. Ready'
    BY ZenonT(60), <1>1 DEF Ready, Has
<1>4. CASE par'.pc = "shut" /\ par'.ret = 0 /\ par'.clean = "att" /\ (ipc'.up = ipc.up \/ (ipc.up # <<>> /\ ipc'.up = Tail(ipc.up)))
  <2>1. AtSent'
    BY ZenonT(60), <1>1, <1>3, <1>4 DEF AtSent
  <2>2. AtOpening' /\ AtPreparing' /\ AtGetpid' /\ AtReap' /\ AtLabel' /\ AtEnd' /\ AtKilled' /\ AtIdle'
    BY ZenonT(60), <1>4 DEF AtOpening, AtPreparing, AtGetpid, AtReap, AtLabel, AtEnd, AtKilled, AtIdle, Opening, Preparing
  <2>3. PidMeansOk'
    BY ZenonT(60), <1>1, <1>4, PidFrame
  <2> QED
    BY ZenonT(60), <1>2, <2>1, <2>2, <2>3 DEF Where
<1>5. CASE OnError
  <2>1. par'.pc = "cleanup" /\ par'.ret = -1 /\ par'.clean = "att" /\ ipc'.up = ipc.up
    BY ZenonT(60), <1>1, <1>5, OnErrorEffect
  <2>2. AtEnd'
    BY SMTT(60), <1>1, <1>3, <2>1 DEF AtEnd
  <2>3. AtOpening' /\ AtPreparing' /\ AtGetpid' /\ AtReap' /\ AtLabel' /\ AtSent' /\ AtKilled' /\ AtIdle'
    BY ZenonT(60), <2>1 DEF AtOpening, AtPreparing, AtGetpid, AtReap, AtLabel, AtSent, AtKilled, AtIdle, Opening, Preparing
  <2>4. PidMeansOk'
    BY ZenonT(60), <1>1, <2>1, PidFrame
  <2> QED
    BY ZenonT(60), <1>2, <2>2, <2>3, <2>4 DEF Where
<1>6. CASE Goto("shut") /\ UNCHANGED ipc
    BY ZenonT(60), <1>1, <1>4, <1>6, GotoEffect
<1>7. CASE ipc.up # <<>> /\ Goto("shut") /\ ipc' = [ipc EXCEPT !.up = Tail(@)]
    BY ZenonT(60), <1>1, <1>4, <1>7, GotoEffect DEF IpcShape
<1> QED
    BY ZenonT(60), <1>5, <1>6, <1>7 DEF seccomp_notifier

\* Shutting the socket down keeps the invariant.
LEMMA ShutStep == IInv /\ shut_down => Where' /\ PidMeansOk' /\ TransientHas' /\ AttachedHas'
<1> SUFFICES ASSUME IInv, shut_down PROVE Where' /\ PidMeansOk' /\ TransientHas' /\ AttachedHas'
    OBVIOUS
<1>1. ParShape /\ IpcShape /\ par.pc = "shut" /\ UNCHANGED <<cfg, box, mine, ctx, tr, att>>
      /\ Ready /\ tr.pc = "reaped" /\ par.ret = 0
    BY ZenonT(60) DEF IInv, Shape, Where, AtSent, shut_down
<1>2. TransientHas' /\ AttachedHas'
    BY ZenonT(60), <1>1, HasFrame DEF Next, Caller
<1>3. Ready'
    BY ZenonT(60), <1>1 DEF Ready, Has
<1>4. par'.pc \in {"loop", "cleanup"} /\ par'.clean = "no" /\ par'.ret = 0
    BY ZenonT(60), <1>1 DEF shut_down, ParShape
<1>5. ipc'.up = ipc.up
    BY ZenonT(60), <1>1 DEF shut_down, IpcShape
<1>6. AtSent' /\ AtEnd'
    BY SMTT(60), <1>1, <1>3, <1>4 DEF AtSent, AtEnd
<1>7. AtOpening' /\ AtPreparing' /\ AtGetpid' /\ AtReap' /\ AtLabel' /\ AtKilled' /\ AtIdle'
    BY ZenonT(60), <1>4 DEF AtOpening, AtPreparing, AtGetpid, AtReap, AtLabel, AtKilled, AtIdle, Opening, Preparing
<1>8. PidMeansOk'
    BY ZenonT(60), <1>1, <1>5, PidFrame
<1> QED
    BY ZenonT(60), <1>2, <1>6, <1>7, <1>8 DEF Where

\* The terminal's loop keeps the invariant.
LEMMA LoopStep == IInv /\ terminal_loop => Where' /\ PidMeansOk' /\ TransientHas' /\ AttachedHas'
<1> SUFFICES ASSUME IInv, terminal_loop PROVE Where' /\ PidMeansOk' /\ TransientHas' /\ AttachedHas'
    OBVIOUS
<1>1. ParShape /\ par.pc = "loop" /\ UNCHANGED <<cfg, box, mine, ctx, tr, att, ipc>>
      /\ Ready /\ tr.pc = "reaped" /\ par.ret = 0 /\ par.clean = "no"
    BY ZenonT(60) DEF IInv, Shape, Where, AtSent, terminal_loop
<1>2. TransientHas' /\ AttachedHas'
    BY ZenonT(60), <1>1, HasFrame DEF Next, Caller
<1>3. Ready'
    BY ZenonT(60), <1>1 DEF Ready, Has
<1>4. par'.pc = "cleanup" /\ ((par'.ret = 0 /\ par'.clean = "no") \/ (par'.ret = -1 /\ par'.clean = "att"))
  <2>1. CASE Goto("cleanup")
    BY ZenonT(60), <1>1, <2>1, GotoEffect
  <2>2. CASE par' = [par EXCEPT !.pc = "cleanup", !.ret = -1, !.clean = "att"]
    BY ZenonT(60), <1>1, <2>2 DEF ParShape
  <2> QED
    BY ZenonT(60), <2>1, <2>2 DEF terminal_loop
<1>5. AtEnd'
    BY SMTT(60), <1>1, <1>3, <1>4 DEF AtEnd
<1>6. AtOpening' /\ AtPreparing' /\ AtGetpid' /\ AtReap' /\ AtLabel' /\ AtSent' /\ AtKilled' /\ AtIdle'
    BY ZenonT(60), <1>4 DEF AtOpening, AtPreparing, AtGetpid, AtReap, AtLabel, AtSent, AtKilled, AtIdle, Opening, Preparing
<1>7. PidMeansOk'
    BY ZenonT(60), <1>1, PidFrame
<1> QED
    BY ZenonT(60), <1>2, <1>5, <1>6, <1>7 DEF Where

\* The end of lxc_attach() keeps the invariant: who is to be waited for has
\* been waited for.
LEMMA CleanupStep == IInv /\ attach_cleanup => Where' /\ PidMeansOk' /\ TransientHas' /\ AttachedHas'
<1> SUFFICES ASSUME IInv, attach_cleanup PROVE Where' /\ PidMeansOk' /\ TransientHas' /\ AttachedHas'
    OBVIOUS
<1>1. ParShape /\ TrShape /\ AttShape /\ par.pc = "cleanup" /\ UNCHANGED <<cfg, box, mine, ctx, ipc>> /\ AtEnd /\ AttachedHas
      /\ par.clean \in {"no", "tr", "att"} /\ par.ret \in {0, -1}
    BY ZenonT(60) DEF IInv, Shape, ParShape, Where, attach_cleanup
<1>2. par'.pc = "ret" /\ ~par'.raw /\ par'.ret = par.ret /\ par'.clean = par.clean /\ par'.told = par.told /\ par'.early = par.early
    BY ZenonT(60), <1>1 DEF attach_cleanup, ParShape
<1>3. /\ tr'.ns = tr.ns /\ tr'.fds = tr.fds /\ tr'.cg = tr.cg /\ tr'.limits = tr.limits
      /\ tr'.pc = IF par.clean = "tr" THEN "reaped" ELSE tr.pc
    BY ZenonT(60), <1>1 DEF attach_cleanup, TrShape
<1>4. /\ att'.ns = att.ns /\ att'.cg = att.cg /\ att'.limits = att.limits /\ att'.fds = att.fds /\ att'.caps = att.caps
      /\ att'.label = att.label /\ att'.nnp = att.nnp /\ att'.sec = att.sec /\ att'.uid = att.uid /\ att'.env = att.env
      /\ att'.pc = IF par.clean = "att" THEN "reaped" ELSE att.pc
      /\ par.clean = "att" => att.pc # "no"
    BY ZenonT(60), <1>1 DEF attach_cleanup, AttShape, AttDone
<1>5. tr.pc # "no"
    BY ZenonT(60), <1>1 DEF AtEnd
<1>6. par.clean = "tr" => tr.pc \in {"ok", "bad", "reaped"}
    BY ZenonT(60) DEF attach_cleanup, TrGone
<1>7. TransientHas' /\ AttachedHas'
    BY ZenonT(60), <1>1, <1>3, <1>4, <1>5, HasFrame DEF Next, Caller
<1>8. Ready' <=> Ready
    BY ZenonT(60), <1>1, <1>3 DEF Ready, Has
<1>9. NotSent /\ par.clean = "tr" => NotSent'
    BY ZenonT(60), <1>1, <1>3, <1>4 DEF NotSent
<1>10. AtEnd'
    BY ZenonT(60), <1>1, <1>2, <1>3, <1>4, <1>8, <1>9 DEF AtEnd
<1>11. AtOpening' /\ AtPreparing' /\ AtGetpid' /\ AtReap' /\ AtLabel' /\ AtSent' /\ AtKilled' /\ AtIdle'
    BY ZenonT(60), <1>2 DEF AtOpening, AtPreparing, AtGetpid, AtReap, AtLabel, AtSent, AtKilled, AtIdle, Opening, Preparing
<1>12. PidMeansOk'
    BY ZenonT(60), <1>1, <1>3, PidFrame
<1> QED
    BY ZenonT(60), <1>7, <1>10, <1>11, <1>12 DEF Where

\* The wait of lxc_attach_run_wait() keeps the invariant.
LEMMA ReturnStep == IInv /\ attach_run_wait => Where' /\ PidMeansOk' /\ TransientHas' /\ AttachedHas'
<1> SUFFICES ASSUME IInv, attach_run_wait PROVE Where' /\ PidMeansOk' /\ TransientHas' /\ AttachedHas'
    OBVIOUS
<1>1. ParShape /\ AttShape /\ par.pc = "ret" /\ UNCHANGED <<cfg, box, mine, ctx, tr, ipc>> /\ AtEnd /\ TransientHas
      /\ par.clean \in {"no", "tr", "att"} /\ par.ret \in {0, -1}
    BY ZenonT(60) DEF IInv, Shape, ParShape, Where, attach_run_wait
<1>2. par'.pc = "idle"
    BY ZenonT(60), <1>1, GotoEffect DEF attach_run_wait
<1>3. /\ att'.ns = att.ns /\ att'.cg = att.cg /\ att'.limits = att.limits /\ att'.fds = att.fds /\ att'.caps = att.caps
      /\ att'.label = att.label /\ att'.nnp = att.nnp /\ att'.sec = att.sec /\ att'.uid = att.uid /\ att'.env = att.env
      /\ att'.pc = IF par.ret = 0 THEN "reaped" ELSE att.pc
      /\ par.ret = 0 => att.pc # "no"
    BY ZenonT(60), <1>1 DEF attach_run_wait, AttShape, AttDone
<1>4. tr.pc \in {"no", "reaped"}
    BY ZenonT(60), <1>1 DEF AtEnd
<1>5. TransientHas' /\ AttachedHas'
    BY ZenonT(60), <1>1, <1>3, <1>4, HasFrame DEF Next
<1>6. NotSent \/ att'.pc \in {"no", "reaped"}
    BY ZenonT(60), <1>1, <1>3 DEF AtEnd
<1>7. NotSent => NotSent' \/ att'.pc = "reaped"
    BY ZenonT(60), <1>1, <1>3 DEF NotSent
<1>8. AtIdle'
    BY ZenonT(60), <1>1, <1>4, <1>6, <1>7 DEF AtIdle
<1>9. AtOpening' /\ AtPreparing' /\ AtGetpid' /\ AtReap' /\ AtLabel' /\ AtSent' /\ AtKilled' /\ AtEnd'
    BY ZenonT(60), <1>2 DEF AtOpening, AtPreparing, AtGetpid, AtReap, AtLabel, AtSent, AtKilled, AtEnd, Opening, Preparing
<1>10. PidMeansOk'
    BY ZenonT(60), <1>1, PidFrame
<1> QED
    BY ZenonT(60), <1>5, <1>8, <1>9, <1>10 DEF Where

-----------------------------------------------------------------------------
(* The transient process *)

\* sync_wait() of the transient process, and the barrier after it, keep the
\* invariant.
LEMMA WaitGoStep == IInv /\ sync_wait_cgroup => Where' /\ PidMeansOk' /\ TransientHas' /\ AttachedHas'
<1> SUFFICES ASSUME IInv, sync_wait_cgroup PROVE Where' /\ PidMeansOk' /\ TransientHas' /\ AttachedHas'
    OBVIOUS
<1>1. TrShape /\ IpcShape /\ TransientHas /\ AttachedHas /\ PidMeansOk /\ tr.pc = "wait"
      /\ UNCHANGED <<cfg, box, mine, ctx, par, att>>
    BY ZenonT(60) DEF IInv, Shape, sync_wait_cgroup, TrKeep
<1>2. ipc'.up = ipc.up /\ ipc'.down = IF ipc.down = <<>> THEN ipc.down ELSE Tail(ipc.down)
    BY ZenonT(60), <1>1 DEF sync_wait_cgroup, IpcShape
<1>3. /\ tr'.pc = "ns" /\ tr'.ns = tr.ns /\ tr'.cg = tr.cg /\ tr'.limits = tr.limits
      /\ tr'.fds = attach_context_security_barrier(tr.fds)
    BY ZenonT(60), <1>1 DEF sync_wait_cgroup, TrShape
<1>4. par.pc \notin Preparing
    BY ZenonT(60), <1>1, LiveTransient DEF sync_wait_cgroup, NoMessages, Preparing
<1>5. ASSUME NotSent PROVE NotSent'
  <2>1. ipc'.down = <<>>
    <3>1. ipc.down = <<>> \/ ipc.down = <<"go">>
        BY ZenonT(60), <1>5 DEF NotSent
    <3>2. Tail(<<"go">>) = <<>>
        BY SMTT(60)
    <3> QED
        BY ZenonT(60), <1>2, <3>1, <3>2
  <2> QED
    BY <1>1, <1>5, <2>1 DEF NotSent
<1>6. Where'
    BY ZenonT(60), <1>1, <1>3, <1>4, <1>5, TransientMoves
<1>7. PidMeansOk'
    BY ZenonT(60), <1>1, <1>2, PidFrame
<1>8. att.pc = "no"
    BY ZenonT(60), <1>1 DEF AttachedHas
<1>9. TransientHas' /\ AttachedHas'
    BY ZenonT(60), <1>1, <1>3, <1>8 DEF TransientHas, AttachedHas, Past, InitGone, attach_context_security_barrier
<1> QED
    BY ZenonT(60), <1>6, <1>7, <1>9

\* attach_namespaces() enters the planned namespaces.  By pidfd, init runs at
\* that moment, so the plan is right and the cgroup is that of init.
LEMMA EnterStep == IInv /\ enter_namespaces => Where' /\ PidMeansOk' /\ TransientHas' /\ AttachedHas'
<1> SUFFICES ASSUME IInv, enter_namespaces PROVE Where' /\ PidMeansOk' /\ TransientHas' /\ AttachedHas'
    OBVIOUS
<1>1. TrShape /\ IpcShape /\ TransientHas /\ AttachedHas /\ Known /\ Planned /\ tr.pc = "ns"
      /\ UNCHANGED <<cfg, box, mine, ctx, par, att>>
    BY ZenonT(60) DEF IInv, Shape, enter_namespaces, TrKeep
<1>2. att.pc = "no" /\ tr.ns = mine /\ tr.fds \subseteq {"ns", "pidfd"}
    BY ZenonT(60), <1>1 DEF AttachedHas, TransientHas
<1>3. par.pc \notin Preparing
    BY ZenonT(60), <1>1, LiveTransient DEF Preparing
<1>4. ipc'.up = ipc.up /\ ipc'.down = ipc.down
    BY ZenonT(60), <1>1 DEF enter_namespaces, TrFails, IpcShape
<1>5. NotSent => NotSent'
    BY ZenonT(60), <1>1, <1>4 DEF NotSent
<1>6. PidMeansOk'
    BY ZenonT(60), <1>1, <1>4, PidFrame
<1>7. CASE tr' = [tr EXCEPT !.pc = "bad"]
  <2>1. tr'.pc = "bad" /\ tr'.ns = tr.ns /\ tr'.cg = tr.cg /\ tr'.limits = tr.limits /\ tr'.fds = tr.fds
    BY ZenonT(60), <1>1, <1>7 DEF TrShape
  <2>2. Where'
    BY ZenonT(60), <1>1, <1>3, <1>5, <2>1, TransientMoves
  <2>3. TransientHas' /\ AttachedHas'
    BY ZenonT(60), <1>1, <1>2, <2>1, HasFrame DEF Next, Transient
  <2> QED
    BY ZenonT(60), <1>6, <2>2, <2>3
<1>8. CASE attach_namespaces.ok
           /\ tr' = [tr EXCEPT !.pc = "clone", !.ns = attach_namespaces.ns, !.fds = close_namespaces(@)]
  <2> DEFINE entered == attach_namespaces.ns
  <2>1. tr' = [tr EXCEPT !.pc = "clone", !.ns = entered, !.fds = close_namespaces(tr.fds)]
    BY ZenonT(60), <1>8
  <2> HIDE DEF entered
  <2>2. tr'.pc = "clone" /\ tr'.ns = entered /\ tr'.cg = tr.cg /\ tr'.limits = tr.limits /\ tr'.fds = close_namespaces(tr.fds)
    BY ZenonT(60), <1>1, <2>1 DEF TrShape
  <2>3. tr'.fds = {}
    BY ZenonT(60), <1>2, <2>2 DEF close_namespaces
  <2>4. entered = [n \in NS |-> Plan(n)]
    <3>1. CASE ctx.pidfd # "no"
      <4>1. entered = [n \in NS |-> IF n \in ctx.ns \cup ctx.inh THEN NsOf(ctx.pidfd)[n] ELSE mine[n]]
        BY ZenonT(60), <1>2, <3>1 DEF entered, attach_namespaces, attach_namespaces_pidfd
      <4>2. \A n \in NS : Plan(n) = IF n \in ctx.ns \cup ctx.inh THEN NsOf(ctx.pidfd)[n] ELSE mine[n]
        BY ZenonT(60), <3>1 DEF Plan
      <4> QED
        BY ZenonT(60), <4>1, <4>2
    <3>2. CASE ctx.pidfd = "no"
      <4>1. entered = [n \in NS |-> IF ctx.fd[n] # "no" THEN ctx.fd[n] ELSE mine[n]]
        BY ZenonT(60), <1>2, <3>2 DEF entered, attach_namespaces, attach_namespaces_nsfd
      <4>2. \A n \in NS : Plan(n) = IF ctx.fd[n] # "no" THEN ctx.fd[n] ELSE mine[n]
        BY ZenonT(60), <3>2 DEF Plan
      <4> QED
        BY ZenonT(60), <4>1, <4>2
    <3> QED
        BY ZenonT(60), <3>1, <3>2
  <2>5. ctx.pidfd # "no" => PlanRight /\ tr.cg \in {"no", ctx.pid}
    <3>1. ctx.pidfd # "no" => State(ctx.pidfd) = "run"
      <4>1. ctx.pidfd # "no" => attach_namespaces_pidfd.ok
        BY ZenonT(60), <1>8 DEF attach_namespaces
      <4>2. attach_namespaces_pidfd.ok => State(ctx.pidfd) = "run"
        BY ZenonT(60) DEF attach_namespaces_pidfd
      <4> QED
        BY ZenonT(60), <4>1, <4>2
    <3>2. ctx.pidfd # "no" => ctx.pidfd = ctx.pid /\ ctx.pid \in Runs
        BY ZenonT(60), <1>1 DEF Known, KnowsPidfd, KnowsPid, Since, Begun
    <3>3. ctx.pidfd # "no" => box.init[ctx.pid] = "run"
        BY ZenonT(60), <3>1, <3>2 DEF State
    <3> QED
        BY ZenonT(60), <1>1, <3>3 DEF TransientHas, InitGone, Planned, InitEnded, Since
  <2>6. \A n \in NS : Plan(n)' = Plan(n)
    BY ZenonT(60), <1>1 DEF Plan, NsOf
  <2>7. PlanRight => PlanRight'
    BY ZenonT(60), <1>1 DEF PlanRight, Plan, Expected, NsOf, Has
  <2>8. tr'.ns = [n \in NS |-> Plan(n)]'
    BY ZenonT(60), <2>2, <2>4, <2>6
  <2>9. TransientHas'
    BY ZenonT(60), <1>1, <1>2, <2>2, <2>3, <2>5, <2>7, <2>8 DEF TransientHas, InitGone
  <2>10. AttachedHas'
    BY ZenonT(60), <1>1, <1>2 DEF AttachedHas, Past
  <2>11. Where'
    BY ZenonT(60), <1>1, <1>3, <1>5, <2>2, TransientMoves
  <2> QED
    BY ZenonT(60), <1>6, <2>9, <2>10, <2>11
<1> QED
    BY ZenonT(60), <1>7, <1>8 DEF enter_namespaces, TrFails

\* The attached process inherits what the transient process has, in a pid
\* namespace that is alive.
LEMMA CloneStep == IInv /\ clone_attached => Where' /\ PidMeansOk' /\ TransientHas' /\ AttachedHas'
<1> SUFFICES ASSUME IInv, clone_attached PROVE Where' /\ PidMeansOk' /\ TransientHas' /\ AttachedHas'
    OBVIOUS
<1>1. TrShape /\ IpcShape /\ TransientHas /\ AttachedHas /\ tr.pc = "clone" /\ UNCHANGED <<cfg, box, mine, ctx, par>>
    BY ZenonT(60) DEF IInv, Shape, clone_attached
<1>2. att.pc = "no" /\ tr.fds = {} /\ tr.ns = [n \in NS |-> Plan(n)]
      /\ (ctx.pidfd # "no" => PlanRight /\ tr.cg \in {"no", ctx.pid})
    BY ZenonT(60), <1>1 DEF AttachedHas, TransientHas
<1>3. par.pc \notin Preparing
    BY ZenonT(60), <1>1, LiveTransient DEF Preparing
<1>4. ipc'.up = ipc.up /\ ipc'.down = ipc.down
    BY ZenonT(60), <1>1 DEF clone_attached, TrFails, IpcShape
<1>5. PidMeansOk'
    BY ZenonT(60), <1>1, <1>4, PidFrame
<1>6. CASE tr' = [tr EXCEPT !.pc = "bad"] /\ UNCHANGED att
  <2>1. tr'.pc = "bad" /\ tr'.ns = tr.ns /\ tr'.cg = tr.cg /\ tr'.limits = tr.limits /\ tr'.fds = tr.fds
    BY ZenonT(60), <1>1, <1>6 DEF TrShape
  <2>2. Where'
    BY ZenonT(60), <1>1, <1>3, <1>4, <1>6, <2>1, TransientMoves DEF NotSent
  <2>3. TransientHas' /\ AttachedHas'
    BY ZenonT(60), <1>1, <1>2, <1>6, <2>1, HasFrame DEF Next, Transient
  <2> QED
    BY ZenonT(60), <1>5, <2>2, <2>3
<1>7. CASE ~PidNsDead /\ tr' = [tr EXCEPT !.pc = "tell"]
           /\ att' = [NoAttached EXCEPT !.pc = "setup", !.ns = tr.ns, !.cg = tr.cg, !.limits = tr.limits, !.fds = tr.fds]
  <2>1. tr'.pc = "tell" /\ tr'.ns = tr.ns /\ tr'.cg = tr.cg /\ tr'.limits = tr.limits /\ tr'.fds = tr.fds
    BY ZenonT(60), <1>1, <1>7 DEF TrShape
  <2>2. att'.pc = "setup" /\ att'.ns = tr.ns /\ att'.cg = tr.cg /\ att'.limits = tr.limits /\ att'.fds = tr.fds
    BY ZenonT(60), <1>7 DEF NoAttached
  <2>3. tr.ns["pid"] \in Runs => box.init[tr.ns["pid"]] = "run"
    BY ZenonT(60), <1>7 DEF PidNsDead, State
  <2>4. \A n \in NS : Plan(n)' = Plan(n)
    BY ZenonT(60), <1>1 DEF Plan, NsOf
  <2>5. PlanRight => PlanRight'
    BY ZenonT(60), <1>1 DEF PlanRight, Plan, Expected, NsOf, Has
  <2>6. tr'.ns = [n \in NS |-> Plan(n)]'
    BY ZenonT(60), <1>2, <2>1, <2>4
  <2>7. TransientHas'
    BY ZenonT(60), <1>1, <1>2, <2>1, <2>5, <2>6 DEF TransientHas, InitGone
  <2>8. AttachedHas'
    BY ZenonT(60), <1>1, <1>2, <2>1, <2>2, <2>3, <2>6 DEF AttachedHas, Past
  <2>9. NotSent => NotSent'
    BY ZenonT(60), <1>1, <1>4, <2>2 DEF NotSent, Past
  <2>10. Where'
    BY ZenonT(60), <1>1, <1>3, <2>1, <2>9, TransientMoves
  <2> QED
    BY ZenonT(60), <1>5, <2>7, <2>8, <2>10
<1> QED
    BY ZenonT(60), <1>6, <1>7 DEF clone_attached, TrFails

\* Telling the caller the pid keeps the invariant.
LEMMA TellStep == IInv /\ sync_wake_pid => Where' /\ PidMeansOk' /\ TransientHas' /\ AttachedHas'
<1> SUFFICES ASSUME IInv, sync_wake_pid PROVE Where' /\ PidMeansOk' /\ TransientHas' /\ AttachedHas'
    OBVIOUS
<1>1. TrShape /\ IpcShape /\ tr.pc = "tell" /\ UNCHANGED <<cfg, box, mine, ctx, par, att>>
    BY ZenonT(60) DEF IInv, Shape, sync_wake_pid, TrKeep
<1>2. ipc'.down = ipc.down /\ (tr' = [tr EXCEPT !.pc = "ok"] \/ (tr' = [tr EXCEPT !.pc = "bad"] /\ ipc'.up = ipc.up))
    BY ZenonT(60), <1>1 DEF sync_wake_pid, TrFails, IpcShape
<1>3. /\ tr'.pc \in {"ok", "bad"} /\ tr'.ns = tr.ns /\ tr'.cg = tr.cg /\ tr'.limits = tr.limits /\ tr'.fds = tr.fds
      /\ tr'.pc = "ok" \/ ipc'.up = ipc.up
    BY ZenonT(60), <1>1, <1>2 DEF TrShape
<1>4. PidMeansOk'
  <2>1. CASE tr'.pc = "ok"
    BY ZenonT(60), <2>1 DEF PidMeansOk
  <2>2. CASE ipc'.up = ipc.up
    BY ZenonT(60), <1>1, <2>2, PidFrame
  <2> QED
    BY ZenonT(60), <1>3, <2>1, <2>2
<1>5. par.pc \notin Preparing
    BY ZenonT(60), <1>1, LiveTransient DEF Preparing
<1>6. NotSent => NotSent'
    BY ZenonT(60), <1>1, <1>2 DEF NotSent
<1>7. Where'
    BY ZenonT(60), <1>1, <1>3, <1>5, <1>6, TransientMoves
<1>8. TransientHas' /\ AttachedHas'
    BY ZenonT(60), <1>1, <1>3, HasFrame DEF Next, Transient
<1> QED
    BY ZenonT(60), <1>4, <1>7, <1>8

-----------------------------------------------------------------------------
(* The attached process *)

\* What the attached process inherited stays as it is in do_attach().
LEMMA AttachedFrame ==
    ASSUME IInv, UNCHANGED <<cfg, box, mine, ctx, tr>>, att.pc \notin {"no", "done", "reaped"}, att'.pc # "no",
           att'.ns = att.ns /\ att'.cg = att.cg /\ att'.limits = att.limits /\ att'.fds = att.fds
    PROVE  /\ TransientHas'
           /\ (att.pc # "no" =>
                /\ tr.pc \in {"tell", "ok", "bad", "reaped"}
                /\ att.limits = tr.limits /\ att.cg = tr.cg /\ att.fds = {} /\ att.ns = [n \in NS |-> Plan(n)]
                /\ att.pc \notin {"done", "reaped"} /\ att.ns["pid"] \in Runs => box.init[att.ns["pid"]] = "run")'
           /\ Ready' <=> Ready
           /\ Has("caps")' = Has("caps")
           /\ set_environment(cfg.keep, cfg.env, cfg.conf, cfg.extra)' = set_environment(cfg.keep, cfg.env, cfg.conf, cfg.extra)
<1>1. TransientHas /\ AttachedHas
    BY ZenonT(60) DEF IInv
<1>2. \A n \in NS : Plan(n)' = Plan(n)
    BY ZenonT(60) DEF Plan, NsOf
<1>3. [n \in NS |-> Plan(n)]' = [n \in NS |-> Plan(n)]
    BY ZenonT(60), <1>2
<1>4. PlanRight => PlanRight'
    BY ZenonT(60) DEF PlanRight, Plan, Expected, NsOf, Has
<1>5. TransientHas'
    BY ZenonT(60), <1>1, <1>3, <1>4 DEF TransientHas, InitGone
<1>6. Ready' <=> Ready
    BY ZenonT(60) DEF Ready, Has
<1>7. Has("caps")' = Has("caps")
    BY ZenonT(60) DEF Has
<1>8. set_environment(cfg.keep, cfg.env, cfg.conf, cfg.extra)' = set_environment(cfg.keep, cfg.env, cfg.conf, cfg.extra)
    BY ZenonT(60) DEF set_environment
<1> QED
    BY ZenonT(60), <1>1, <1>3, <1>5, <1>6, <1>7, <1>8 DEF AttachedHas

\* The end of the attached process, by an error of do_attach() or of the
\* program, keeps the invariant.
LEMMA AttachedFails ==
    ASSUME IInv, att.pc \notin {"no", "done", "reaped"}, att' = [att EXCEPT !.pc = "done"],
           UNCHANGED <<cfg, box, mine, ctx, tr, par, ipc>>
    PROVE  Where' /\ PidMeansOk' /\ TransientHas' /\ AttachedHas'
<1>1. /\ att'.pc = "done" /\ att'.ns = att.ns /\ att'.cg = att.cg /\ att'.limits = att.limits /\ att'.fds = att.fds
    BY ZenonT(60) DEF IInv, Shape, AttShape
<1>2. TransientHas' /\ AttachedHas'
    BY ZenonT(60), <1>1, AttachedFrame DEF AttachedHas, Past
<1>3. NotSent => NotSent'
    BY ZenonT(60), <1>1 DEF NotSent, Past
<1>4. Where'
    BY ZenonT(60), <1>1, <1>3, AttachedMoves
<1>5. PidMeansOk'
    BY ZenonT(60), PidFrame
<1> QED
    BY ZenonT(60), <1>2, <1>4, <1>5

\* The first part of do_attach() keeps the invariant.
LEMMA SetupStep == IInv /\ do_attach => Where' /\ PidMeansOk' /\ TransientHas' /\ AttachedHas'
<1> SUFFICES ASSUME IInv, do_attach PROVE Where' /\ PidMeansOk' /\ TransientHas' /\ AttachedHas'
    OBVIOUS
<1>1. AttShape /\ AttachedHas /\ att.pc = "setup" /\ UNCHANGED <<cfg, box, mine, ctx, par, tr, ipc>>
    BY ZenonT(60) DEF IInv, Shape, do_attach, AttKeep, AttFails
<1>2. CASE att' = [att EXCEPT !.pc = "done"]
    BY ZenonT(60), <1>1, <1>2, AttachedFails
<1> DEFINE env == set_environment(cfg.keep, cfg.env, cfg.conf, cfg.extra)
           pc == IF ctx.label THEN "lsm" ELSE "ids"
<1>3. CASE att' = [att EXCEPT !.pc = pc, !.caps = Has("caps"), !.env = env]
  <2> HIDE DEF env, pc
  <2>1. /\ att'.pc = pc /\ att'.caps = Has("caps") /\ att'.env = env
        /\ att'.ns = att.ns /\ att'.cg = att.cg /\ att'.limits = att.limits /\ att'.fds = att.fds
    BY ZenonT(60), <1>1, <1>3 DEF AttShape
  <2>2. pc = IF ctx.label THEN "lsm" ELSE "ids"
    BY ZenonT(60) DEF pc
  <2>3. TransientHas' /\ AttachedHas'
    BY ZenonT(60), <1>1, <2>1, <2>2, AttachedFrame DEF AttachedHas, Past, env
  <2>4. NotSent => NotSent'
    BY ZenonT(60), <1>1, <2>1, <2>2 DEF NotSent, Past
  <2>5. Where'
    BY ZenonT(60), <1>1, <2>1, <2>2, <2>4, AttachedMoves
  <2>6. PidMeansOk'
    BY ZenonT(60), <1>1, PidFrame
  <2> QED
    BY ZenonT(60), <2>3, <2>5, <2>6
<1> QED
    BY ZenonT(60), <1>2, <1>3 DEF do_attach, AttFails

\* Receiving the label's descriptor keeps the invariant: the process is in
\* its cgroup by then.
LEMMA WaitLabelStep == IInv /\ wait_label_fd => Where' /\ PidMeansOk' /\ TransientHas' /\ AttachedHas'
<1> SUFFICES ASSUME IInv, wait_label_fd PROVE Where' /\ PidMeansOk' /\ TransientHas' /\ AttachedHas'
    OBVIOUS
<1>1. AttShape /\ IpcShape /\ AttachedHas /\ att.pc = "lsm" /\ UNCHANGED <<cfg, box, mine, ctx, par, tr>>
    BY ZenonT(60) DEF IInv, Shape, wait_label_fd, AttKeep
<1>2. CASE att' = [att EXCEPT !.pc = "done"] /\ UNCHANGED ipc
    BY ZenonT(60), <1>1, <1>2, AttachedFails
<1>3. CASE ipc.down # <<>> /\ att' = [att EXCEPT !.pc = "ids"] /\ ipc' = [ipc EXCEPT !.down = Tail(@)]
  <2>1. /\ att'.pc = "ids" /\ att'.caps = att.caps /\ att'.env = att.env
        /\ att'.ns = att.ns /\ att'.cg = att.cg /\ att'.limits = att.limits /\ att'.fds = att.fds
    BY ZenonT(60), <1>1, <1>3 DEF AttShape
  <2>2. ipc'.up = ipc.up
    BY ZenonT(60), <1>1, <1>3 DEF IpcShape
  <2>3. Ready
    BY ZenonT(60), <1>1, <1>3, SentMeansReady
  <2>4. TransientHas' /\ AttachedHas'
    BY ZenonT(60), <1>1, <2>1, <2>3, AttachedFrame DEF AttachedHas, Past
  <2>5. ~NotSent
    BY ZenonT(60), <1>1, <1>3 DEF NotSent
  <2>6. Where'
    BY ZenonT(60), <1>1, <2>1, <2>5, AttachedMoves
  <2>7. PidMeansOk'
    BY ZenonT(60), <1>1, <2>2, PidFrame
  <2> QED
    BY ZenonT(60), <2>4, <2>6, <2>7
<1> QED
    BY ZenonT(60), <1>2, <1>3 DEF wait_label_fd

\* Taking the ids, the label and no_new_privs keeps the invariant.
LEMMA IdsStep == IInv /\ become_setup_ids => Where' /\ PidMeansOk' /\ TransientHas' /\ AttachedHas'
<1> SUFFICES ASSUME IInv, become_setup_ids PROVE Where' /\ PidMeansOk' /\ TransientHas' /\ AttachedHas'
    OBVIOUS
<1>1. AttShape /\ AttachedHas /\ att.pc = "ids" /\ UNCHANGED <<cfg, box, mine, ctx, par, tr, ipc>>
    BY ZenonT(60) DEF IInv, Shape, become_setup_ids, AttKeep, AttFails
<1>2. CASE att' = [att EXCEPT !.pc = "done"]
    BY ZenonT(60), <1>1, <1>2, AttachedFails
<1> DEFINE uid == IF "user" \in ctx.ns THEN ctx.suid ELSE att.uid
           nnp == ctx.nnp \/ Has("nnp")
<1>3. CASE att' = [att EXCEPT !.pc = "filter", !.uid = uid, !.label = ctx.label, !.nnp = nnp]
  <2> HIDE DEF uid, nnp
  <2>1. /\ att'.pc = "filter" /\ att'.uid = uid /\ att'.label = ctx.label /\ att'.nnp = nnp /\ att'.caps = att.caps /\ att'.env = att.env
        /\ att'.ns = att.ns /\ att'.cg = att.cg /\ att'.limits = att.limits /\ att'.fds = att.fds
    BY ZenonT(60), <1>1, <1>3 DEF AttShape
  <2>2. ("user" \in ctx.ns => uid = ctx.suid) /\ (ctx.nnp => nnp)
    BY ZenonT(60) DEF uid, nnp
  <2>3. TransientHas' /\ AttachedHas'
    BY ZenonT(60), <1>1, <2>1, <2>2, AttachedFrame DEF AttachedHas, Past
  <2>4. NotSent => NotSent'
    BY ZenonT(60), <1>1, <2>1 DEF NotSent, Past
  <2>5. Where'
    BY ZenonT(60), <1>1, <2>1, <2>4, AttachedMoves
  <2>6. PidMeansOk'
    BY ZenonT(60), <1>1, PidFrame
  <2> QED
    BY ZenonT(60), <2>3, <2>5, <2>6
<1> QED
    BY ZenonT(60), <1>2, <1>3 DEF become_setup_ids, AttFails

\* lxc_seccomp_load() keeps the invariant: a filter that could not be read
\* does not load.
LEMMA FilterStep == IInv /\ load_seccomp => Where' /\ PidMeansOk' /\ TransientHas' /\ AttachedHas'
<1> SUFFICES ASSUME IInv, load_seccomp PROVE Where' /\ PidMeansOk' /\ TransientHas' /\ AttachedHas'
    OBVIOUS
<1>1. AttShape /\ IpcShape /\ AttachedHas /\ att.pc = "filter" /\ UNCHANGED <<cfg, box, mine, ctx, par, tr>>
    BY ZenonT(60) DEF IInv, Shape, load_seccomp, AttKeep
<1>2. CASE att' = [att EXCEPT !.pc = "done"] /\ UNCHANGED ipc
    BY ZenonT(60), <1>1, <1>2, AttachedFails
<1>3. CASE ctx.sec # "bad" /\ att' = [att EXCEPT !.pc = "switch", !.sec = ctx.sec]
           /\ ipc' = IF ctx.sec = "notify" THEN [ipc EXCEPT !.up = Append(@, "fd")] ELSE ipc
  <2>1. /\ att'.pc = "switch" /\ att'.sec = ctx.sec /\ att'.uid = att.uid /\ att'.label = att.label /\ att'.nnp = att.nnp
        /\ att'.caps = att.caps /\ att'.env = att.env
        /\ att'.ns = att.ns /\ att'.cg = att.cg /\ att'.limits = att.limits /\ att'.fds = att.fds
    BY ZenonT(60), <1>1, <1>3 DEF AttShape
  <2>2. (ipc'.up = ipc.up \/ ipc'.up = Append(ipc.up, "fd")) /\ ipc'.down = ipc.down
    BY ZenonT(60), <1>1, <1>3 DEF IpcShape
  <2>3. TransientHas' /\ AttachedHas'
    BY ZenonT(60), <1>1, <1>3, <2>1, AttachedFrame DEF AttachedHas, Past
  <2>4. NotSent => NotSent'
    BY ZenonT(60), <1>1, <2>1, <2>2 DEF NotSent, Past
  <2>5. Where'
    BY ZenonT(60), <1>1, <2>1, <2>4, AttachedMoves
  <2>6. PidMeansOk'
    BY ZenonT(60), <1>1, <2>2, PidFrame
  <2> QED
    BY ZenonT(60), <2>3, <2>5, <2>6
<1> QED
    BY ZenonT(60), <1>2, <1>3 DEF load_seccomp, AttFails

\* Switching to the target's ids and running the program keeps the invariant.
LEMMA ProgramStep == IInv /\ run_program => Where' /\ PidMeansOk' /\ TransientHas' /\ AttachedHas'
<1> SUFFICES ASSUME IInv, run_program PROVE Where' /\ PidMeansOk' /\ TransientHas' /\ AttachedHas'
    OBVIOUS
<1>1. AttShape /\ AttachedHas /\ Known /\ att.pc = "switch" /\ UNCHANGED <<cfg, box, mine, ctx, par, tr, ipc>>
    BY ZenonT(60) DEF IInv, Shape, run_program, AttKeep, AttFails
<1>2. CASE att' = [att EXCEPT !.pc = "done"]
    BY ZenonT(60), <1>1, <1>2, AttachedFails
<1> DEFINE prog == IF cfg.run = "shell" THEN lxc_attach_run_shell ELSE lxc_attach_run_command
           uid == IF ctx.tuid # Invalid THEN ctx.tuid ELSE att.uid
           pc == IF prog = "no" THEN "done" ELSE "run"
<1>3. CASE att' = [att EXCEPT !.uid = uid, !.prog = prog, !.pc = pc]
  <2> HIDE DEF uid, prog
  <2>1. pc \in {"done", "run"}
    OBVIOUS
  <2> HIDE DEF pc
  <2>2. /\ att'.pc = pc /\ att'.sec = att.sec /\ att'.uid = uid /\ att'.label = att.label /\ att'.nnp = att.nnp
        /\ att'.caps = att.caps /\ att'.env = att.env
        /\ att'.ns = att.ns /\ att'.cg = att.cg /\ att'.limits = att.limits /\ att'.fds = att.fds
    BY ZenonT(60), <1>1, <1>3 DEF AttShape
  <2>3. "user" \in ctx.ns /\ cfg.asuid = Invalid => uid = ctx.suid
    <3>1. tr.pc # "no"
        BY ZenonT(60), <1>1 DEF AttachedHas
    <3>2. "user" \in ctx.ns /\ cfg.asuid = Invalid => ctx.tuid = ctx.suid /\ att.uid = ctx.suid
        BY ZenonT(60), <1>1, <3>1 DEF Known, KnowsIds, Since, userns_target_ids, AttachedHas
    <3> QED
        BY ZenonT(60), <3>2 DEF uid
  <2>4. TransientHas' /\ AttachedHas'
    BY ZenonT(60), <1>1, <2>1, <2>2, <2>3, AttachedFrame DEF AttachedHas, Past
  <2>5. NotSent => NotSent'
    BY ZenonT(60), <1>1, <2>1, <2>2 DEF NotSent, Past
  <2>6. Where'
    BY ZenonT(60), <1>1, <2>1, <2>2, <2>5, AttachedMoves
  <2>7. PidMeansOk'
    BY ZenonT(60), <1>1, PidFrame
  <2> QED
    BY ZenonT(60), <2>4, <2>6, <2>7
<1> QED
    BY ZenonT(60), <1>2, <1>3 DEF run_program, AttFails

-----------------------------------------------------------------------------
(* Everything else *)

\* The container's end and start, a pid's reuse, and a killed process keep
\* the invariant: who is in a pid namespace dies with its init.
LEMMA EnvironmentStep ==
    ASSUME IInv, Environment \/ UNCHANGED vars
    PROVE  Where' /\ PidMeansOk' /\ TransientHas' /\ AttachedHas'
<1>1. AttShape /\ TrShape /\ BoxOk /\ Where /\ AttachedHas
    BY ZenonT(60) DEF IInv, Shape
<1>2. CASE monitor_ends \/ container_starts \/ pid_reused \/ UNCHANGED vars
  <2>1. UNCHANGED <<cfg, mine, ctx, par, tr, att, ipc>>
    BY ZenonT(60), <1>2 DEF monitor_ends, container_starts, pid_reused, vars
  <2>2. \A p \in Runs : box.init[p] = "run" => box'.init[p] = "run"
    <3>1. CASE monitor_ends
      <4>1. box.cur \in Runs /\ box.init[box.cur] = "zombie" /\ box'.init = [box.init EXCEPT ![box.cur] = "gone"]
        BY ZenonT(60), <1>1, <3>1 DEF monitor_ends, State, BoxOk
      <4> QED
        BY ZenonT(60), <1>1, <4>1 DEF BoxOk
    <3>2. CASE container_starts
      <4>1. box'.init = [box.init EXCEPT !["c2"] = "run"]
        BY ZenonT(60), <1>1, <3>2 DEF container_starts, BoxOk
      <4> QED
        BY ZenonT(60), <1>1, <4>1 DEF BoxOk
    <3>3. CASE pid_reused
      <4>1. PICK p \in Runs : box' = [box EXCEPT !.owner[p] = "other"]
        BY ZenonT(60), <3>3 DEF pid_reused
      <4> QED
        BY ZenonT(60), <1>1, <4>1 DEF BoxOk
    <3> QED
        BY ZenonT(60), <1>2, <3>1, <3>2, <3>3 DEF vars
  <2>3. TransientHas' /\ AttachedHas'
    BY ZenonT(60), <1>2, <2>1, <2>2, HasFrame DEF Next, Environment
  <2>4. AtOpening' /\ AtPreparing' /\ AtGetpid' /\ AtReap' /\ AtLabel'
    BY ZenonT(60), <1>1, <2>1 DEF Where, AtOpening, AtPreparing, AtGetpid, AtReap, AtLabel, NoMessages, NotSent, Ready, Has
  <2>5. AtSent' /\ AtEnd' /\ AtKilled' /\ AtIdle'
    BY ZenonT(60), <1>1, <2>1 DEF Where, AtSent, AtEnd, AtKilled, AtIdle, NotSent, Ready, Has
  <2>6. PidMeansOk'
    BY ZenonT(60), <2>1, PidFrame
  <2> QED
    BY ZenonT(60), <2>3, <2>4, <2>5, <2>6 DEF Where
<1>3. CASE transient_killed
  <2>1. tr.pc \in {"wait", "ns", "clone", "tell"} /\ UNCHANGED <<cfg, box, mine, ctx, par, att, ipc>>
    BY ZenonT(60), <1>3 DEF transient_killed
  <2>2. tr'.pc = "bad" /\ tr'.ns = tr.ns /\ tr'.cg = tr.cg /\ tr'.limits = tr.limits /\ tr'.fds = tr.fds
    BY ZenonT(60), <1>1, <1>3 DEF transient_killed, TrShape
  <2>3. TransientHas' /\ AttachedHas'
    BY ZenonT(60), <1>3, <2>1, <2>2, HasFrame DEF Next, Environment
  <2>4. NotSent => NotSent'
    BY ZenonT(60), <2>1, <2>2 DEF NotSent
  <2>5. Where'
    BY ZenonT(60), <2>1, <2>2, <2>4, TransientMoves
  <2>6. PidMeansOk'
    BY ZenonT(60), <2>1, PidFrame
  <2> QED
    BY ZenonT(60), <2>3, <2>5, <2>6
<1>4. CASE program_exits
    BY ZenonT(60), <1>4, AttachedFails DEF program_exits
<1>5. CASE init_exits
  <2>1. UNCHANGED <<cfg, mine, ctx, par, tr, ipc>> /\ box.cur \in Runs /\ box' = [box EXCEPT !.init[box.cur] = "zombie"]
    BY ZenonT(60), <1>1, <1>5 DEF init_exits, BoxOk
  <2>2. \A p \in Runs : p # box.cur => box'.init[p] = box.init[p]
    BY ZenonT(60), <1>1, <2>1 DEF BoxOk
  <2> DEFINE dies == att.ns["pid"] = box.cur /\ att.pc # "no" /\ ~AttDone
  <2>3. att' = IF dies THEN [att EXCEPT !.pc = "done"] ELSE att
    BY ZenonT(60), <1>5 DEF init_exits
  <2>4. /\ att'.ns = att.ns /\ att'.cg = att.cg /\ att'.limits = att.limits /\ att'.fds = att.fds /\ att'.caps = att.caps
        /\ att'.label = att.label /\ att'.nnp = att.nnp /\ att'.sec = att.sec /\ att'.uid = att.uid /\ att'.env = att.env
        /\ att'.pc = IF dies THEN "done" ELSE att.pc
    BY ZenonT(60), <1>1, <2>3 DEF AttShape
  <2>5. att'.pc \notin {"no", "done", "reaped"} => att.ns["pid"] # box.cur
    BY ZenonT(60), <2>4 DEF AttDone
  <2>6. TransientHas' /\ AttachedHas'
    BY ZenonT(60), <1>5, <2>1, <2>2, <2>4, <2>5, HasFrame DEF Next, Environment
  <2>7. PidMeansOk'
    BY ZenonT(60), <2>1, PidFrame
  <2>8. CASE dies
    <3>1. att.pc \notin {"no", "reaped"} /\ att'.pc = "done"
        BY ZenonT(60), <2>4, <2>8 DEF AttDone
    <3>2. NotSent => NotSent'
        BY ZenonT(60), <2>1, <3>1 DEF NotSent, Past
    <3> QED
        BY ZenonT(60), <2>1, <2>6, <2>7, <3>1, <3>2, AttachedMoves
  <2>9. CASE ~dies
    <3>1. UNCHANGED att
        BY ZenonT(60), <2>3, <2>9
    <3>2. AtOpening' /\ AtPreparing' /\ AtGetpid' /\ AtReap' /\ AtLabel'
        BY ZenonT(60), <1>1, <2>1, <3>1 DEF Where, AtOpening, AtPreparing, AtGetpid, AtReap, AtLabel, NoMessages, NotSent, Ready, Has
    <3>3. AtSent' /\ AtEnd' /\ AtKilled' /\ AtIdle'
        BY ZenonT(60), <1>1, <2>1, <3>1 DEF Where, AtSent, AtEnd, AtKilled, AtIdle, NotSent, Ready, Has
    <3> QED
        BY ZenonT(60), <2>6, <2>7, <3>2, <3>3 DEF Where
  <2> QED
    BY ZenonT(60), <2>8, <2>9
<1> QED
    BY ZenonT(60), <1>2, <1>3, <1>4, <1>5 DEF Environment

\* From the terminal on lxc_attach() learns nothing more.
LEMMA KnownLater ==
    ASSUME IInv, [Next]_vars,
           \/ lxc_attach_terminal \/ fork_transient \/ cgroup_attach \/ setup_limits \/ sync_wake_cgroup
           \/ sync_wait_pid \/ reap_transient \/ send_label_fd \/ seccomp_notifier \/ shut_down \/ terminal_loop
           \/ attach_cleanup \/ attach_run_wait \/ Transient \/ Attached \/ Environment \/ UNCHANGED vars
    PROVE  Known' /\ Planned'
<1>1. ParShape /\ TrShape
    BY ZenonT(60) DEF IInv, Shape
<1>2. CASE lxc_attach_terminal
  <2>1. UNCHANGED <<cfg, ctx, mine, tr>> /\ par.pc = "terminal" /\ par'.pc \in {"fork", "ret"} /\ par'.byfd = par.byfd
    BY ZenonT(60), <1>1, <1>2 DEF lxc_attach_terminal, Fail, ParShape
  <2> QED
    BY ZenonT(60), <2>1, KnownFrame DEF Opening
<1>3. CASE fork_transient
  <2>1. UNCHANGED <<cfg, ctx, mine>> /\ par.pc = "fork" /\ par'.pc \in {"cgroup", "ret"} /\ par'.byfd = par.byfd
    BY ZenonT(60), <1>1, <1>3 DEF fork_transient, Fail, ParShape
  <2> QED
    BY ZenonT(60), <2>1, KnownFrame DEF Opening
<1>4. CASE \/ cgroup_attach \/ setup_limits \/ sync_wake_cgroup \/ sync_wait_pid \/ reap_transient \/ send_label_fd
           \/ seccomp_notifier
  <2>1. UNCHANGED <<cfg, ctx, mine>> /\ par.pc \in Preparing \cup {"getpid", "reap", "label", "notifier"}
    BY ZenonT(60), <1>4 DEF cgroup_attach, setup_limits, sync_wake_cgroup, sync_wait_pid, reap_transient, send_label_fd,
           seccomp_notifier, Preparing
  <2>2. tr.pc # "no"
    BY ZenonT(60), <2>1 DEF IInv, Where, AtPreparing, AtGetpid, AtReap, AtLabel, AtSent
  <2>3. par'.byfd = par.byfd /\ par'.pc \in {"limits", "go", "getpid", "killed", "reap", "label", "notifier", "shut", "cleanup"}
    <3>1. CASE OnError
        BY ZenonT(60), <1>1, <3>1 DEF OnError, ParShape
    <3>2. CASE \E x \in {"limits", "go", "getpid", "killed", "notifier", "shut"} : Goto(x)
        BY ZenonT(60), <1>1, <3>2, GotoEffect
    <3>3. CASE sync_wait_pid /\ ~OnError
        BY ZenonT(60), <1>1, <3>3 DEF sync_wait_pid, ParShape
    <3>4. CASE reap_transient /\ ~OnError
        BY ZenonT(60), <1>1, <3>4 DEF reap_transient, ParShape
    <3> QED
        BY ZenonT(60), <1>4, <3>1, <3>2, <3>3, <3>4
           DEF cgroup_attach, setup_limits, sync_wake_cgroup, send_label_fd, seccomp_notifier
  <2> QED
    BY ZenonT(60), <2>1, <2>2, <2>3, KnownFrame DEF Opening
<1>5. CASE shut_down \/ terminal_loop \/ attach_cleanup \/ attach_run_wait
  <2>1. UNCHANGED <<cfg, ctx, mine>>
    BY ZenonT(60), <1>5 DEF shut_down, terminal_loop, attach_cleanup, attach_run_wait
  <2>2. par'.byfd = par.byfd /\ par'.pc \in {"loop", "cleanup", "ret", "idle"}
    <3>1. CASE shut_down
        BY ZenonT(60), <1>1, <3>1 DEF shut_down, ParShape
    <3>2. CASE terminal_loop
        BY ZenonT(60), <1>1, <3>2 DEF terminal_loop, Goto, ParShape
    <3>3. CASE attach_cleanup
        BY ZenonT(60), <1>1, <3>3 DEF attach_cleanup, ParShape
    <3>4. CASE attach_run_wait
        BY ZenonT(60), <1>1, <3>4 DEF attach_run_wait, Goto, ParShape
    <3> QED
        BY ZenonT(60), <1>5, <3>1, <3>2, <3>3, <3>4
  <2>3. tr'.pc # "no" => tr.pc # "no"
    <3>1. CASE attach_cleanup
        BY ZenonT(60), <3>1 DEF attach_cleanup, TrGone
    <3>2. CASE UNCHANGED tr
        BY ZenonT(60), <3>2
    <3> QED
        BY ZenonT(60), <1>5, <3>1, <3>2 DEF shut_down, terminal_loop, attach_run_wait
  <2> QED
    BY ZenonT(60), <2>1, <2>2, <2>3, KnownFrame DEF Opening
<1>6. CASE Transient
  <2>1. UNCHANGED <<cfg, ctx, mine, par>> /\ tr.pc # "no"
    BY ZenonT(60), <1>6 DEF Transient, sync_wait_cgroup, enter_namespaces, clone_attached, sync_wake_pid, TrKeep
  <2> QED
    BY ZenonT(60), <2>1, KnownFrame
<1>7. CASE Attached
  <2>1. UNCHANGED <<cfg, ctx, mine, par, tr>>
    BY ZenonT(60), <1>7 DEF Attached, do_attach, wait_label_fd, become_setup_ids, load_seccomp, run_program, AttKeep
  <2> QED
    BY ZenonT(60), <2>1, KnownFrame
<1>8. CASE Environment \/ UNCHANGED vars
  <2>1. UNCHANGED <<cfg, ctx, mine, par>> /\ (tr'.pc # "no" => tr.pc # "no")
    BY ZenonT(60), <1>8 DEF Environment, program_exits, init_exits, monitor_ends, container_starts, pid_reused, transient_killed, vars
  <2> QED
    BY ZenonT(60), <2>1, KnownFrame
<1> QED
    BY ZenonT(60), <1>2, <1>3, <1>4, <1>5, <1>6, <1>7, <1>8

-----------------------------------------------------------------------------
(* Lemmas about the operators *)

\* The uid that userns_setup_ids() chooses is one of the map: root's or
\* init's.
LEMMA SetupIdMapped ==
    ASSUME cfg \in Setups, NEW ns, "user" \in ns
    PROVE  LET uid == userns_setup_ids(ns)
           IN  \E l \in Range(cfg.map) : uid >= l[1] /\ uid < l[1] + l[3] /\ (uid = 0 \/ uid - l[1] + l[2] = cfg.uid)
<1> DEFINE lines == Range(cfg.map)
           holds(l) == cfg.uid >= l[2] /\ cfg.uid < l[2] + l[3]
<1>1. /\ cfg.uid \in Int /\ \E l \in lines : holds(l)
      /\ \A l \in lines : l \in Int \X Int \X Nat
  <2>1. cfg.map \in Seq(Int \X Int \X Nat) /\ cfg.uid \in Int /\ \E l \in lines : holds(l)
    BY ZenonT(60), SetupsAssumption
  <2>2. \A l \in lines : l \in Int \X Int \X Nat
    BY SMTT(60), <2>1 DEF Range
  <2> QED
    BY ZenonT(60), <2>1, <2>2
<1>2. \A l \in lines : l[1] \in Int /\ l[2] \in Int /\ l[3] \in Nat
    BY ZenonT(60), <1>1
<1>3. CASE \E l \in lines : l[1] = 0 /\ l[3] > 0
  <2>1. userns_setup_ids(ns) = 0
    BY ZenonT(60), <1>3 DEF userns_setup_ids
  <2>2. PICK l \in lines : l[1] = 0 /\ l[3] > 0
    BY ZenonT(60), <1>3
  <2> QED
    BY SMTT(60), <1>2, <2>1, <2>2
<1>4. CASE ~ \E l \in lines : l[1] = 0 /\ l[3] > 0
  <2> DEFINE first == CHOOSE x \in lines : holds(x)
  <2>1. first \in lines /\ holds(first)
    BY ZenonT(60), <1>1
  <2>2. userns_setup_ids(ns) = cfg.uid - first[2] + first[1]
    BY ZenonT(60), <1>1, <1>4 DEF userns_setup_ids
  <2> HIDE DEF first, lines
  <2>3. first[1] \in Int /\ first[2] \in Int /\ first[3] \in Nat
    BY ZenonT(60), <1>2, <2>1
  <2>4. LET uid == cfg.uid - first[2] + first[1]
        IN  uid >= first[1] /\ uid < first[1] + first[3] /\ uid - first[1] + first[2] = cfg.uid
    BY SMTT(60), <1>1, <2>1, <2>3
  <2> QED
    BY ZenonT(60), <2>1, <2>2, <2>4 DEF lines
<1> QED
    BY ZenonT(60), <1>3, <1>4

\* What lxc_attach_set_environment() leaves in the environment, for any sets
\* of variables.
LEMMA EnvironmentSet ==
    ASSUME NEW keep, NEW host, NEW conf, NEW extra
    PROVE  LET env == set_environment(keep, host, conf, extra)
           IN  /\ cfg.clear => DOMAIN env \subseteq keep \cup DOMAIN conf \cup DOMAIN extra \cup {"PATH", "container"}
               /\ cfg.clear => "PATH" \in DOMAIN env
               /\ \A v \in DOMAIN extra : env[v] = extra[v]
               /\ \A v \in DOMAIN conf \ DOMAIN extra : env[v] = conf[v]
<1> DEFINE kept == [v \in keep \cap DOMAIN host |-> host[v]]
           rest == IF cfg.clear THEN putenv(kept, [PATH |-> "default"]) ELSE host
           named == putenv([container |-> "lxc"], rest)
           below == putenv(conf, named)
           env == putenv(extra, below)
<1>1. set_environment(keep, host, conf, extra) = env
    BY ZenonT(60) DEF set_environment
<1>2. cfg.clear => DOMAIN rest = (keep \cap DOMAIN host) \cup {"PATH"}
    BY ZenonT(60) DEF putenv
<1> HIDE DEF rest
<1>3. DOMAIN named = {"container"} \cup DOMAIN rest
    BY ZenonT(60) DEF putenv
<1> HIDE DEF named
<1>4. /\ DOMAIN below = DOMAIN conf \cup DOMAIN named
      /\ \A v \in DOMAIN conf : below[v] = conf[v]
    BY ZenonT(60) DEF putenv
<1> HIDE DEF below
<1>5. /\ DOMAIN env = DOMAIN extra \cup DOMAIN below
      /\ \A v \in DOMAIN extra : env[v] = extra[v]
      /\ \A v \in DOMAIN below \ DOMAIN extra : env[v] = below[v]
    BY ZenonT(60) DEF putenv
<1> HIDE DEF env
<1> QED
    BY ZenonT(60), <1>1, <1>2, <1>3, <1>4, <1>5

-----------------------------------------------------------------------------
(* The invariant *)

\* The invariant is true at first.
LEMMA InitIInv == Init => IInv
<1> SUFFICES ASSUME Init PROVE IInv
    BY ZenonT(60)
<1>1. /\ cfg \in Setups
      /\ box = [cur |-> "c1", mon |-> TRUE, init |-> [p \in Runs |-> IF p = "c1" THEN "run" ELSE "gone"],
                owner |-> [p \in Runs |-> IF p = "c1" THEN "c1" ELSE "no"]]
      /\ mine = [n \in NS |-> IF n \in cfg.here THEN "mine" ELSE "host"]
      /\ ctx = alloc_attach_context /\ par = NoCall /\ tr = NoTransient /\ att = NoAttached
      /\ ipc = [up |-> <<>>, down |-> <<>>, shut |-> FALSE]
    BY ZenonT(60) DEF Init
<1>2. /\ par.pc = "idle" /\ par.ret = 0 /\ par.clean = "no" /\ ~par.byfd
      /\ tr.pc = "no" /\ tr.cg = "no" /\ att.pc = "no" /\ ipc.up = <<>>
    BY ZenonT(60), <1>1 DEF NoCall, NoTransient, NoAttached
<1>3. ParShape /\ TrShape /\ AttShape
    BY ZenonT(60), <1>1 DEF ParShape, TrShape, AttShape, NoCall, NoTransient, NoAttached, ParPc, TrPc, AttPc
<1>4. IpcShape
  <2>1. ipc = [f \in {"up", "down", "shut"} |-> ipc[f]]
    BY ZenonT(60), <1>1
  <2>2. ipc.up = <<>> /\ ipc.down = <<>>
    BY ZenonT(60), <1>1
  <2>3. <<>> \in Seq({"pid", "fd"}) /\ <<>> \in Seq({"go", "fd"})
    OBVIOUS
  <2> QED
    BY ZenonT(60), <2>1, <2>2, <2>3, Zenon DEF IpcShape
<1>5. CtxShape
    BY ZenonT(60), <1>1 DEF CtxShape, alloc_attach_context
<1>6. BoxOk
    BY ZenonT(60), <1>1 DEF BoxOk, Runs
<1>7. KnowsPid /\ KnowsFlags /\ KnowsPidfd /\ KnowsProcess /\ KnowsNamespaces /\ KnowsIds /\ KnowsFilter /\ KnowsNnp /\ Planned
    BY ZenonT(60), <1>2 DEF KnowsPid, KnowsFlags, KnowsPidfd, KnowsProcess, KnowsNamespaces, KnowsIds, KnowsFilter, KnowsNnp, Planned,
                Since, Opening
<1>8. Mine
    BY ZenonT(60), <1>1 DEF Mine
<1>9. Where
    BY ZenonT(60), <1>2 DEF Where, AtOpening, AtPreparing, AtGetpid, AtReap, AtLabel, AtSent, AtEnd, AtKilled, AtIdle, Opening, Preparing
<1>10. PidMeansOk /\ TransientHas /\ AttachedHas
    BY SMTT(60), <1>2 DEF PidMeansOk, TransientHas, AttachedHas, Past, Runs
<1> QED
    BY ZenonT(60), <1>1, <1>3, <1>4, <1>5, <1>6, <1>7, <1>8, <1>9, <1>10 DEF IInv, Shape, Known

\* Every step keeps the invariant.
LEMMA StepIInv == IInv /\ [Next]_vars => IInv'
<1> SUFFICES ASSUME IInv, [Next]_vars PROVE IInv'
    OBVIOUS
<1>1. Shape'
    BY ZenonT(60), ParStep, TrStep, AttStep, IpcStep, CtxStep DEF IInv, Shape
<1>2. BoxOk'
    BY ZenonT(60), BoxStep DEF IInv
<1>3. UNCHANGED cfg
  <2>1. CASE lxc_attach \/ Caller \/ attach_run_wait
    BY ZenonT(60), <2>1 DEF Caller, lxc_attach, get_init_pidfd, get_init_pid, get_clone_flags, open_proc, check_init, parse_init_status,
             fetch_seccomp, no_new_privs, prepare_namespaces, lxc_attach_terminal, fork_transient, cgroup_attach, setup_limits,
             sync_wake_cgroup, sync_wait_pid, reap_transient, send_label_fd, seccomp_notifier, shut_down, terminal_loop,
             attach_cleanup, attach_run_wait
  <2>2. CASE Transient \/ Attached \/ Environment \/ UNCHANGED vars
    BY ZenonT(60), <2>2 DEF Transient, Attached, Environment, vars, sync_wait_cgroup, enter_namespaces, clone_attached, sync_wake_pid,
             do_attach, wait_label_fd, become_setup_ids, load_seccomp, run_program, program_exits, init_exits, monitor_ends,
             container_starts, pid_reused, transient_killed, TrKeep, AttKeep
  <2> QED
    BY ZenonT(60), <2>1, <2>2 DEF Next
<1>4. (cfg \in Setups)'
    BY ZenonT(60), <1>3 DEF IInv
<1>5. Known' /\ Planned'
    BY ZenonT(60), KnownCall, KnownPidfd, KnownInitPid, KnownFlags, KnownOpen, KnownCheck, KnownStatus, KnownSeccomp, KnownNnp,
       KnownPrepare, KnownLater DEF Next, Caller
<1>6. Where' /\ PidMeansOk' /\ TransientHas' /\ AttachedHas'
  <2>1. CASE lxc_attach \/ Caller \/ attach_run_wait
    BY ZenonT(60), <2>1, CallStep, CallerOpens, ForkStep, CgroupStep, LimitsStep, GoStep, WaitPidStep, ReapStep, LabelStep, NotifierStep,
       ShutStep, LoopStep, CleanupStep, ReturnStep DEF Caller
  <2>2. CASE Transient \/ Attached
    BY ZenonT(60), <2>2, WaitGoStep, EnterStep, CloneStep, TellStep, SetupStep, WaitLabelStep, IdsStep, FilterStep, ProgramStep
       DEF Transient, Attached
  <2>3. CASE Environment \/ UNCHANGED vars
    BY ZenonT(60), <2>3, EnvironmentStep
  <2> QED
    BY ZenonT(60), <2>1, <2>2, <2>3 DEF Next
<1> QED
    BY ZenonT(60), <1>1, <1>2, <1>4, <1>5, <1>6 DEF IInv

-----------------------------------------------------------------------------
(* The properties *)

\* The invariant gives RunsAsAsked: the plan was right when the program's pid
\* namespace is alive or setns() took a pidfd.
LEMMA AsAsked == IInv => RunsAsAsked
<1> SUFFICES ASSUME IInv PROVE RunsAsAsked
    OBVIOUS
<1>1. cfg \in Setups /\ ParShape /\ Known /\ Planned /\ Where /\ TransientHas /\ AttachedHas
    BY ZenonT(60) DEF IInv, Shape
<1>2. RightProcess
  <2> SUFFICES ASSUME par.byfd, par.pc \notin {"pidfd", "pid", "flags", "open", "check", "ret", "idle"} PROVE ctx.dfd = ctx.pid
    BY ZenonT(60) DEF RightProcess
  <2>1. CASE par.pc \in Opening
    BY ZenonT(60), <1>1, <2>1 DEF Known, KnowsProcess, Since, Opening
  <2>2. CASE par.pc \notin Opening
    <3>1. tr.pc # "no"
      <4>1. CASE par.pc \in Preparing \cup {"getpid", "reap", "label", "notifier", "shut", "loop", "killed"}
        BY ZenonT(60), <1>1, <4>1 DEF Where, AtPreparing, AtGetpid, AtReap, AtLabel, AtSent, AtKilled
      <4>2. CASE par.pc = "cleanup"
        BY ZenonT(60), <1>1, <4>2 DEF Where, AtEnd, ParShape
      <4> QED
        BY ZenonT(60), <1>1, <2>2, <4>1, <4>2 DEF ParShape, ParPc
    <3> QED
        BY ZenonT(60), <1>1, <3>1 DEF Known, KnowsProcess, Since
  <2> QED
    BY ZenonT(60), <2>1, <2>2
<1>3. att.pc # "no" => tr.pc # "no" /\ att.ns = [n \in NS |-> Plan(n)]
    BY ZenonT(60), <1>1 DEF AttachedHas
<1>4. RightNamespaces
  <2> SUFFICES ASSUME Running, ctx.dfd = ctx.pid, ctx.pidfd # "no" \/ att.ns["pid"] = ctx.pid
               PROVE  \A n \in NS : att.ns[n] = Expected(ctx.pid, n)
    BY ZenonT(60) DEF RightNamespaces
  <2>1. tr.pc # "no" /\ att.ns = [n \in NS |-> Plan(n)] /\ ctx.pid \in Runs
    BY ZenonT(60), <1>1, <1>3 DEF Running, Known, KnowsPid, Since, Begun
  <2>2. CASE ctx.pidfd # "no"
    BY ZenonT(60), <1>1, <2>1, <2>2 DEF Running, TransientHas, PlanRight
  <2>3. CASE att.ns["pid"] = ctx.pid
    <3>1. box.init[ctx.pid] = "run"
        BY ZenonT(60), <1>1, <2>1, <2>3 DEF Running, AttachedHas
    <3> QED
        BY ZenonT(60), <1>1, <2>1, <3>1 DEF Planned, Since, InitEnded, PlanRight
  <2> QED
    BY ZenonT(60), <2>2, <2>3
<1>5. MappedId
  <2> SUFFICES ASSUME Running, cfg.asuid = Invalid, "user" \in ctx.ns
               PROVE  \E l \in Range(cfg.map) : att.uid >= l[1] /\ att.uid < l[1] + l[3] /\ (att.uid = 0 \/ att.uid - l[1] + l[2] = cfg.uid)
    BY ZenonT(60) DEF MappedId
  <2>1. att.uid = userns_setup_ids(ctx.ns)
    BY ZenonT(60), <1>1, <1>3 DEF Running, AttachedHas, Known, KnowsIds, Since
  <2> QED
    BY ZenonT(60), <1>1, <2>1, SetupIdMapped
<1>6. EnvironmentAsAsked
  <2> SUFFICES ASSUME Running PROVE EnvironmentAsAsked
    BY ZenonT(60) DEF EnvironmentAsAsked
  <2>1. att.env = set_environment(cfg.keep, cfg.env, cfg.conf, cfg.extra)
    BY ZenonT(60), <1>1 DEF Running, AttachedHas, Past
  <2> QED
    BY SMTT(60), <2>1, EnvironmentSet DEF EnvironmentAsAsked
<1> QED
    BY ZenonT(60), <1>2, <1>4, <1>5, <1>6 DEF RunsAsAsked

\* The invariant gives ConfinedLikeInit.
LEMMA Confined == IInv => ConfinedLikeInit
<1> SUFFICES ASSUME IInv PROVE ConfinedLikeInit
    OBVIOUS
<1>1. Known /\ TransientHas /\ AttachedHas
    BY ZenonT(60) DEF IInv
<1>2. NothingLeaks
    BY ZenonT(60), <1>1 DEF AttachedHas, NothingLeaks
<1>3. Running => tr.pc # "no" /\ ctx.pid \in Runs /\ ctx.pid # "no"
  <2>1. Running => tr.pc # "no"
    BY ZenonT(60), <1>1 DEF AttachedHas, Running
  <2>2. tr.pc # "no" => ctx.pid \in Runs
    BY ZenonT(60), <1>1 DEF Known, KnowsPid, Since, Begun
  <2> QED
    BY ZenonT(60), <2>1, <2>2 DEF Runs
<1>4. Running /\ att.ns["pid"] = ctx.pid => ~InitGone
    BY ZenonT(60), <1>1, <1>3 DEF AttachedHas, Running, InitGone
<1>5. ConfinedFirst
  <2> SUFFICES ASSUME Running, ctx.label PROVE ConfinedFirst
    BY ZenonT(60) DEF ConfinedFirst
  <2>1. att.label /\ Ready /\ (att.caps <=> Has("caps")) /\ att.limits = tr.limits /\ att.cg = tr.cg
    BY ZenonT(60), <1>1 DEF AttachedHas, Running, Past
  <2>2. Has("cgroup") => att.cg \in Runs
    BY ZenonT(60), <2>1 DEF Ready
  <2>3. Has("cgroup") /\ att.ns["pid"] = ctx.pid => att.cg = ctx.pid
    BY ZenonT(60), <1>1, <1>4, <2>1, <2>2 DEF TransientHas
  <2>4. Has("cgroup") /\ ctx.pidfd # "no" => att.cg = ctx.pid
    BY ZenonT(60), <1>1, <2>1, <2>2 DEF TransientHas, Running, Runs
  <2> QED
    BY ZenonT(60), <2>1, <2>2, <2>3, <2>4 DEF ConfinedFirst, Ready
<1>6. FilteredLikeInit
  <2> SUFFICES ASSUME Running, att.ns["pid"] = ctx.pid PROVE (attach_lsm => att.sec = cfg.sec) /\ (cfg.nnp => att.nnp)
    BY ZenonT(60) DEF FilteredLikeInit
  <2>1. (attach_lsm => ctx.sec \in {cfg.sec, "bad"}) /\ (cfg.nnp => ctx.nnp)
    BY ZenonT(60), <1>1, <1>3, <1>4 DEF Known, KnowsFilter, KnowsNnp, Since
  <2>2. att.sec = ctx.sec /\ ctx.sec # "bad" /\ (ctx.nnp => att.nnp)
    BY ZenonT(60), <1>1 DEF AttachedHas, Running
  <2> QED
    BY ZenonT(60), <2>1, <2>2
<1> QED
    BY ZenonT(60), <1>2, <1>5, <1>6 DEF ConfinedLikeInit

\* The invariant gives CleanReturn.
LEMMA Cleans == IInv => CleanReturn
<1> SUFFICES ASSUME IInv PROVE CleanReturn
    OBVIOUS
<1>1. AtEnd /\ par.ret \in {0, -1} /\ par.clean \in {"no", "tr", "att"}
    BY ZenonT(60) DEF IInv, Shape, ParShape, Where
<1>2. FailedMeansNotRunning
    BY ZenonT(60), <1>1 DEF FailedMeansNotRunning, AtEnd, NotSent, Past, Running
<1>3. NobodyLeft
    BY ZenonT(60), <1>1 DEF NobodyLeft, AtEnd
<1>4. TerminalRestored
    BY ZenonT(60), <1>1 DEF TerminalRestored, AtEnd
<1> QED
    BY ZenonT(60), <1>2, <1>3, <1>4 DEF CleanReturn

\* The inductive invariant of lxc_attach() holds in every state, for any
\* setups, calls and faults.
THEOREM AttachSafe == Spec => []IInv
<1>1. Init => IInv
    BY ZenonT(60), InitIInv
<1>2. IInv /\ [Next]_vars => IInv'
    BY ZenonT(60), StepIInv
<1> QED
    BY <1>1, <1>2, PTL DEF Spec

\* A program that runs is in the namespaces of the right process, has a
\* mapped uid and the environment asked for, though the container may stop
\* and start and pids may be reused at any point of lxc_attach().
THEOREM AttachRunsAsAsked == Spec => []RunsAsAsked
    BY AttachSafe, AsAsked, PTL

\* A program that runs has none of the host's descriptors; a labelled one was
\* in the container's cgroup, with its limits and without capabilities,
\* before its first step; and in a live pid namespace of the container it has
\* init's seccomp filter and no_new_privs.
THEOREM AttachConfinedLikeInit == Spec => []ConfinedLikeInit
    BY AttachSafe, Confined, PTL

\* lxc_attach() returns an error only when no labelled program runs, has
\* waited for the transient process and for an attached one it was told of,
\* and has restored the terminal.
THEOREM AttachCleanReturn == Spec => []CleanReturn
    BY AttachSafe, Cleans, PTL
=============================================================================
