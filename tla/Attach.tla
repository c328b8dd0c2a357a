------------------------------- MODULE Attach -------------------------------
(***************************************************************************)
(* Running a program inside a container (attach.c).                        *)
(*                                                                         *)
(* The caller of lxc_attach() asks the container's monitor who its init is *)
(* and how it is confined, and forks a transient process.  The caller      *)
(* moves it into the container's cgroup and tells it to go on; it enters   *)
(* the namespaces and clones the attached process, as a sibling.  That one *)
(* gives up what init does not have, gets a descriptor for its LSM label   *)
(* from the caller, and runs the program.  The three share one socket      *)
(* pair.  Meanwhile the container may stop, its init being a zombie for a  *)
(* while, and start again, and a pid may get another owner.                *)
(*                                                                         *)
(* "c1" and "c2" are the container's first and second run, and the pids of *)
(* their inits; "other" is a process of the host.  A namespace is named    *)
(* after who made it.                                                      *)
(***************************************************************************)
EXTENDS Integers, Sequences, FiniteSets, Functions

CONSTANTS
    Setups,     \* kernels, containers and options
    MaxCalls,   \* calls of lxc_attach()
    MaxFaults   \* system calls that fail, and processes that are killed

\* The host's uid of a container's init is in the map of its user namespace.
ASSUME SetupsAssumption ==
    \A s \in Setups :
        /\ s.map \in Seq(Int \X Int \X Nat) /\ s.uid \in Int
        /\ \E l \in Range(s.map) : s.uid >= l[2] /\ s.uid < l[2] + l[3]

VARIABLES
    cfg,    \* the setup
    box,    \* the container: [cur, mon, init, owner]
    opt,    \* the namespaces of the caller's struct lxc_attach_options_t
    mine,   \* the caller's namespaces
    ctx,    \* struct attach_context
    par,    \* the caller
    tr,     \* the transient process
    att,    \* the attached process
    ipc,    \* the socket pair
    faults

vars == <<cfg, box, opt, mine, ctx, par, tr, att, ipc, faults>>

NS == {"user", "mnt", "pid", "net", "cgroup", "time"}
Runs == {"c1", "c2"}
Invalid == -1

\* The namespaces of a process: a container's init has its own, and those of
\* who started it.
NsOf(p) == [n \in NS |-> IF p \in Runs /\ n \in cfg.own[p] THEN p ELSE "host"]
State(p) == IF p \in Runs THEN box.init[p] ELSE "run"

\* What /proc/<pid>/ns still has of a process.
NsThere(p, n) == State(p) = "run" \/ (State(p) = "zombie" /\ n \in {"user", "pid"})

alloc_attach_context ==
    [pidfd |-> "no", pid |-> "no", dfd |-> "no", flags |-> {}, ask |-> opt, ns |-> {}, inh |-> {},
     fd |-> [n \in NS |-> "no"], label |-> FALSE, sec |-> "no", nnp |-> FALSE, suid |-> Invalid, tuid |-> Invalid]

NoCall == [pc |-> "idle", n |-> 0, ret |-> 0, clean |-> "no", raw |-> FALSE, early |-> FALSE,
           told |-> FALSE, byfd |-> FALSE]
NoTransient == [pc |-> "no", ns |-> NsOf("other"), cg |-> "no", limits |-> FALSE, fds |-> {}, killed |-> FALSE]
NoAttached == [pc |-> "no", ns |-> NsOf("other"), cg |-> "no", limits |-> FALSE, fds |-> {}, caps |-> FALSE,
               label |-> FALSE, nnp |-> FALSE, sec |-> "no", uid |-> Invalid, env |-> <<>>, prog |-> "no"]

Init ==
    /\ cfg \in Setups
    /\ box = [cur |-> "c1", mon |-> TRUE, init |-> [p \in Runs |-> IF p = "c1" THEN "run" ELSE "gone"],
              owner |-> [p \in Runs |-> IF p = "c1" THEN "c1" ELSE "no"]]
    /\ opt = cfg.ask
    /\ mine = [n \in NS |-> IF n \in cfg.here THEN "mine" ELSE "host"]
    /\ ctx = alloc_attach_context
    /\ par = NoCall
    /\ tr = NoTransient
    /\ att = NoAttached
    /\ ipc = [up |-> <<>>, down |-> <<>>, shut |-> FALSE]
    /\ faults = 0

Fault == faults < MaxFaults /\ faults' = faults + 1
NoFault == faults' = faults
Has(f) == f \in cfg.flags
attach_lsm == Has("lsm")

At(pc) == par.pc = pc
Goto(pc) == par' = [par EXCEPT !.pc = pc]
Fail == par' = [par EXCEPT !.pc = "ret", !.ret = -1, !.early = TRUE]

-----------------------------------------------------------------------------
(* The context: what the monitor and /proc say *)

lxc_attach ==
    /\ At("idle") /\ par.n < MaxCalls /\ att.pc \in {"no", "reaped"}
    /\ par' = [NoCall EXCEPT !.pc = "pidfd", !.n = par.n + 1]
    /\ ctx' = alloc_attach_context
    /\ tr' = NoTransient /\ att' = NoAttached /\ ipc' = [up |-> <<>>, down |-> <<>>, shut |-> FALSE]
    /\ UNCHANGED <<cfg, box, opt, mine, faults>>

\* A pidfd and the pid it stands for, or else a pid.
get_init_pidfd ==
    /\ At("pidfd")
    /\ IF cfg.kern # "none" /\ box.mon
       THEN /\ ctx' = [ctx EXCEPT !.pidfd = box.cur, !.pid = box.cur]
            /\ par' = [par EXCEPT !.pc = "flags", !.byfd = TRUE]
       ELSE Goto("pid") /\ UNCHANGED ctx
    /\ UNCHANGED <<cfg, box, opt, mine, tr, att, ipc, faults>>

get_init_pid ==
    /\ At("pid")
    /\ IF box.mon THEN ctx' = [ctx EXCEPT !.pid = box.cur] /\ Goto("flags")
       ELSE Fail /\ UNCHANGED ctx
    /\ UNCHANGED <<cfg, box, opt, mine, tr, att, ipc, faults>>

\* An error is logged only, and its number used as flags: they are all set.
get_clone_flags ==
    /\ At("flags") /\ Goto("open")
    /\ ctx' = [ctx EXCEPT !.flags = IF box.mon THEN cfg.own[box.cur] ELSE NS]
    /\ UNCHANGED <<cfg, box, opt, mine, tr, att, ipc, faults>>

open_proc ==
    /\ At("open")
    /\ IF box.owner[ctx.pid] = "no" THEN Fail /\ UNCHANGED ctx
       ELSE ctx' = [ctx EXCEPT !.dfd = box.owner[ctx.pid]] /\ Goto("check")
    /\ UNCHANGED <<cfg, box, opt, mine, tr, att, ipc, faults>>

\* Mutant: init is not looked at again after /proc/<pid> was opened.
pidfd_alive_never_mind == TRUE

\* A signal can still be sent to init, so the directory is that of init.
pidfd_alive == State(ctx.pidfd) # "gone"

\* The namespaces to enter: those asked for, which an automatic choice writes
\* to the caller's options, and others of init that the program inherits.
choose_namespaces(c) ==
    IF c.ask # {"all"} THEN [c EXCEPT !.ns = c.ask]
    ELSE [c EXCEPT !.ns = c.flags,
                   !.inh = {n \in NS \ c.flags : n = "cgroup" => Has("cgroup") /\ cfg.cgns}]

\* setns() by pidfd is tried out with the time namespace, which it enters.
pidfd_setns_supported == cfg.kern = "setns" /\ State(ctx.pidfd) = "run"

check_init ==
    /\ At("check")
    /\ IF ctx.pidfd # "no" /\ ~pidfd_alive THEN Fail /\ UNCHANGED <<ctx, opt, mine>>
       ELSE /\ Goto("status")
            /\ ctx' = choose_namespaces([ctx EXCEPT !.pidfd = IF @ # "no" /\ pidfd_setns_supported THEN @ ELSE "no"])
            /\ opt' = ctx'.ns
            /\ mine' = IF ctx'.pidfd = "no" THEN mine ELSE [mine EXCEPT !["time"] = NsOf(ctx.pidfd)["time"]]
    /\ UNCHANGED <<cfg, box, tr, att, ipc, faults>>

\* The uid to set things up with: root if the map (lines of the container's
\* first id, the host's first id, and how many) has it, or else init's.
userns_setup_ids(ns) ==
    LET lines == Range(cfg.map)
        holds(l) == cfg.uid >= l[2] /\ cfg.uid < l[2] + l[3]
    IN  IF "user" \notin ns THEN Invalid
        ELSE IF \E l \in lines : l[1] = 0 /\ l[3] > 0 THEN 0
        ELSE IF \E l \in lines : holds(l) THEN LET l == CHOOSE x \in lines : holds(x) IN cfg.uid - l[2] + l[1]
        ELSE Invalid

userns_target_ids(ns, setup) ==
    IF cfg.asuid # Invalid THEN cfg.asuid ELSE IF "user" \in ns THEN setup ELSE 0

\* Ids, capabilities and label of the process whose directory is open.
parse_init_status ==
    /\ At("status")
    /\ IF State(ctx.dfd) = "gone" THEN Fail /\ UNCHANGED ctx
       ELSE LET setup == userns_setup_ids(ctx.ns)
            IN  /\ ctx' = [ctx EXCEPT !.suid = setup, !.tuid = userns_target_ids(ctx.ns, setup),
                                      !.label = attach_lsm /\ cfg.label]
                /\ Goto("seccomp")
    /\ UNCHANGED <<cfg, box, opt, mine, tr, att, ipc, faults>>

\* Mutant: a profile that cannot be read is no profile.
fetch_seccomp_ignored ==
    /\ At("seccomp") /\ Goto("nnp")
    /\ \/ NoFault /\ ctx' = [ctx EXCEPT !.sec = IF attach_lsm /\ box.mon THEN cfg.sec ELSE "no"]
       \/ Fault /\ attach_lsm /\ box.mon /\ cfg.sec # "no" /\ UNCHANGED ctx
    /\ UNCHANGED <<cfg, box, opt, mine, tr, att, ipc>>

\* The profile the container runs with.  One that cannot be read is remembered
\* and will not load.
fetch_seccomp ==
    /\ At("seccomp") /\ Goto("nnp")
    /\ \/ NoFault /\ ctx' = [ctx EXCEPT !.sec = IF attach_lsm /\ box.mon THEN cfg.sec ELSE "no"]
       \/ Fault /\ attach_lsm /\ box.mon /\ cfg.sec # "no" /\ ctx' = [ctx EXCEPT !.sec = "bad"]
    /\ UNCHANGED <<cfg, box, opt, mine, tr, att, ipc>>

no_new_privs ==
    /\ At("nnp") /\ Goto("prepare")
    /\ ctx' = [ctx EXCEPT !.nnp = box.mon /\ cfg.nnp]
    /\ UNCHANGED <<cfg, box, opt, mine, tr, att, ipc, faults>>

-----------------------------------------------------------------------------
(* The namespaces *)

same_nsfd(n) == NsThere(ctx.dfd, n) => mine[n] = NsOf(ctx.dfd)[n]

\* One that is gone counts as shared.
prepare_namespaces_pidfd(c) == [c EXCEPT !.inh = {n \in @ : ~same_nsfd(n)}]

\* Descriptors for what is asked for, shared or not, and for what is inherited
\* and not shared.
prepare_namespaces_nsfd(c) ==
    LET keep == {n \in c.ns : NsThere(c.dfd, n)} \cup {n \in c.inh : ~same_nsfd(n)}
    IN  [c EXCEPT !.fd = [n \in NS |-> IF n \in keep THEN NsOf(c.dfd)[n] ELSE "no"], !.inh = @ \cap keep]

prepare_namespaces ==
    /\ At("prepare")
    /\ IF State(ctx.dfd) = "gone" THEN Fail /\ UNCHANGED ctx
       ELSE /\ Goto("terminal")
            /\ ctx' = IF ctx.pidfd = "no" THEN prepare_namespaces_nsfd(ctx) ELSE prepare_namespaces_pidfd(ctx)
    /\ UNCHANGED <<cfg, box, opt, mine, tr, att, ipc, faults>>

close_namespaces(fds) == fds \ {"pidfd", "ns"}

\* What the transient process is in after setns(), and whether it worked.  By
\* pidfd, all at once and of a process that has not exited; by descriptors, one
\* by one.  The user namespace one is in cannot be entered.
attach_namespaces_pidfd ==
    LET enter == ctx.ns \cup ctx.inh
    IN  [ok |-> State(ctx.pidfd) = "run" /\ ("user" \in enter => NsOf(ctx.pidfd)["user"] # tr.ns["user"]),
         ns |-> [n \in NS |-> IF n \in enter THEN NsOf(ctx.pidfd)[n] ELSE tr.ns[n]]]

attach_namespaces_nsfd ==
    [ok |-> ctx.fd["user"] # tr.ns["user"],
     ns |-> [n \in NS |-> IF ctx.fd[n] # "no" THEN ctx.fd[n] ELSE tr.ns[n]]]

attach_namespaces == IF ctx.pidfd # "no" THEN attach_namespaces_pidfd ELSE attach_namespaces_nsfd

-----------------------------------------------------------------------------
(* The caller, with its transient process *)

\* The caller's terminal is made raw.
lxc_attach_terminal ==
    /\ At("terminal")
    /\ \/ NoFault /\ par' = [par EXCEPT !.pc = "fork", !.raw = Has("term")]
       \/ Fault /\ Has("term") /\ Fail
    /\ UNCHANGED <<cfg, box, opt, mine, ctx, tr, att, ipc>>

fork_transient ==
    /\ At("fork")
    /\ \/ /\ NoFault
          /\ par' = [par EXCEPT !.pc = "cgroup", !.clean = "tr"]
          /\ tr' = [NoTransient EXCEPT !.pc = "wait", !.ns = mine,
                       !.fds = {"self", "init"} \cup IF ctx.pidfd = "no" THEN {"ns"} ELSE {"pidfd"}]
       \/ Fault /\ Fail /\ UNCHANGED tr
    /\ UNCHANGED <<cfg, box, opt, mine, ctx, att, ipc>>

TrGone == tr.pc \in {"ok", "bad", "reaped"}
AttDone == att.pc \in {"done", "reaped"}
AttClosed == att.pc \in {"no", "run"} \/ AttDone

\* The shared way out: the socket is shut down and someone is waited for.
OnError == par' = [par EXCEPT !.pc = "cleanup", !.ret = -1] /\ ipc' = [ipc EXCEPT !.shut = TRUE]

\* The monitor gives the cgroup.
cgroup_attach ==
    /\ At("cgroup")
    /\ \/ NoFault /\ ~Has("cgroup") /\ Goto("limits") /\ UNCHANGED <<tr, ipc>>
       \/ NoFault /\ Has("cgroup") /\ box.mon /\ tr' = [tr EXCEPT !.cg = box.cur] /\ Goto("limits") /\ UNCHANGED ipc
       \/ Has("cgroup") /\ (IF box.mon /\ ~TrGone THEN Fault ELSE NoFault) /\ OnError /\ UNCHANGED tr
    /\ UNCHANGED <<cfg, box, opt, mine, ctx, att>>

\* The barrier of the caller, /proc settings, limits and the terminal's loop.
setup_limits ==
    /\ At("limits")
    /\ \/ NoFault /\ tr' = [tr EXCEPT !.limits = TRUE] /\ Goto("go") /\ UNCHANGED ipc
       \/ (IF TrGone THEN NoFault ELSE Fault) /\ OnError /\ UNCHANGED tr
    /\ UNCHANGED <<cfg, box, opt, mine, ctx, att>>

\* Writing to a socket that the other side has closed kills.
sync_wake_cgroup ==
    /\ At("go")
    /\ IF TrGone THEN Goto("killed") /\ UNCHANGED ipc
       ELSE Goto("getpid") /\ ipc' = [ipc EXCEPT !.down = Append(@, "go")]
    /\ UNCHANGED <<cfg, box, opt, mine, ctx, tr, att, faults>>

UpEof == ipc.up = <<>> /\ (ipc.shut \/ (TrGone /\ AttClosed))

sync_wait_pid ==
    /\ At("getpid")
    /\ \/ /\ ipc.up # <<>>
          /\ ipc' = [ipc EXCEPT !.up = Tail(@), !.shut = @ \/ Head(ipc.up) # "pid"]
          /\ IF Head(ipc.up) = "pid" THEN par' = [par EXCEPT !.pc = "reap", !.told = TRUE] ELSE par' = [par EXCEPT !.pc = "cleanup", !.ret = -1]
       \/ UpEof /\ OnError
    /\ UNCHANGED <<cfg, box, opt, mine, ctx, tr, att, faults>>

reap_transient ==
    /\ At("reap") /\ TrGone /\ tr' = [tr EXCEPT !.pc = "reaped"]
    /\ IF tr.pc = "ok" THEN par' = [par EXCEPT !.pc = "label", !.clean = "att"] /\ UNCHANGED ipc ELSE OnError
    /\ UNCHANGED <<cfg, box, opt, mine, ctx, att, faults>>

send_label_fd ==
    /\ At("label")
    /\ \/ NoFault /\ ~ctx.label /\ Goto("notifier") /\ UNCHANGED ipc
       \/ NoFault /\ ctx.label /\ ~AttClosed /\ Goto("notifier") /\ ipc' = [ipc EXCEPT !.down = Append(@, "fd")]
       \/ (IF AttClosed THEN NoFault ELSE Fault) /\ ctx.label /\ OnError
    /\ UNCHANGED <<cfg, box, opt, mine, ctx, tr, att>>

\* Only a profile that notifies has a descriptor, which the monitor gets.
seccomp_notifier ==
    /\ At("notifier")
    /\ \/ ctx.sec # "notify" /\ Goto("shut") /\ UNCHANGED ipc
       \/ /\ ctx.sec = "notify" /\ (ipc.up # <<>> \/ UpEof)
          /\ IF ipc.up # <<>> /\ box.mon THEN Goto("shut") /\ ipc' = [ipc EXCEPT !.up = Tail(@)] ELSE OnError
    /\ UNCHANGED <<cfg, box, opt, mine, ctx, tr, att, faults>>

shut_down ==
    /\ At("shut") /\ ipc' = [ipc EXCEPT !.shut = TRUE]
    /\ par' = [par EXCEPT !.pc = IF Has("term") THEN "loop" ELSE "cleanup", !.clean = "no"]
    /\ UNCHANGED <<cfg, box, opt, mine, ctx, tr, att, faults>>

\* The terminal's loop ends with the program.
terminal_loop ==
    /\ At("loop")
    /\ \/ NoFault /\ AttDone /\ Goto("cleanup")
       \/ Fault /\ par' = [par EXCEPT !.pc = "cleanup", !.ret = -1, !.clean = "att"]
    /\ UNCHANGED <<cfg, box, opt, mine, ctx, tr, att, ipc>>

attach_cleanup ==
    /\ At("cleanup")
    /\ par.clean = "tr" => TrGone
    /\ par.clean = "att" => AttDone
    /\ tr' = IF par.clean = "tr" THEN [tr EXCEPT !.pc = "reaped"] ELSE tr
    /\ att' = IF par.clean = "att" THEN [att EXCEPT !.pc = "reaped"] ELSE att
    /\ par' = [par EXCEPT !.pc = "ret", !.raw = FALSE]
    /\ UNCHANGED <<cfg, box, opt, mine, ctx, ipc, faults>>

\* The caller's caller waits for the program, when it was told its pid.
attach_run_wait ==
    /\ At("ret") /\ (par.ret = 0 => AttDone)
    /\ att' = IF par.ret = 0 THEN [att EXCEPT !.pc = "reaped"] ELSE att
    /\ Goto("idle")
    /\ UNCHANGED <<cfg, box, opt, mine, ctx, tr, ipc, faults>>

-----------------------------------------------------------------------------
(* The transient process *)

TrKeep == UNCHANGED <<cfg, box, opt, mine, ctx, par, att>>
TrFails == tr' = [tr EXCEPT !.pc = "bad"] /\ ipc' = [ipc EXCEPT !.shut = TRUE]

attach_context_security_barrier(fds) == fds \ {"self", "init"}

\* Mutant: only a message ends the wait.
sync_wait_cgroup_only ==
    /\ tr.pc = "wait" /\ ipc.down # <<>>
    /\ ipc' = [ipc EXCEPT !.down = Tail(@)]
    /\ tr' = [tr EXCEPT !.pc = "ns", !.fds = attach_context_security_barrier(@)]
    /\ TrKeep /\ NoFault

\* The end of the caller's messages is as good as a message.
sync_wait_cgroup ==
    /\ tr.pc = "wait" /\ (ipc.down # <<>> \/ ipc.shut)
    /\ ipc' = [ipc EXCEPT !.down = IF @ = <<>> THEN @ ELSE Tail(@)]
    /\ tr' = [tr EXCEPT !.pc = "ns", !.fds = attach_context_security_barrier(@)]
    /\ TrKeep /\ NoFault

enter_namespaces ==
    /\ tr.pc = "ns"
    /\ \/ NoFault /\ attach_namespaces.ok /\ UNCHANGED ipc
          /\ tr' = [tr EXCEPT !.pc = "clone", !.ns = attach_namespaces.ns, !.fds = close_namespaces(@)]
       \/ (IF attach_namespaces.ok THEN Fault ELSE NoFault) /\ TrFails
    /\ TrKeep

\* No process starts in a pid namespace whose init has exited.
PidNsDead == tr.ns["pid"] \in Runs /\ State(tr.ns["pid"]) # "run"

clone_attached ==
    /\ tr.pc = "clone"
    /\ \/ NoFault /\ ~PidNsDead /\ tr' = [tr EXCEPT !.pc = "tell"] /\ UNCHANGED ipc
          /\ att' = [NoAttached EXCEPT !.pc = "setup", !.ns = tr.ns, !.cg = tr.cg, !.limits = tr.limits, !.fds = tr.fds]
       \/ (IF PidNsDead THEN NoFault ELSE Fault) /\ TrFails /\ UNCHANGED att
    /\ UNCHANGED <<cfg, box, opt, mine, ctx, par>>

sync_wake_pid ==
    /\ tr.pc = "tell" /\ TrKeep /\ NoFault
    /\ IF ipc.shut THEN TrFails
       ELSE tr' = [tr EXCEPT !.pc = "ok"] /\ ipc' = [ipc EXCEPT !.up = Append(@, "pid")]

-----------------------------------------------------------------------------
(* The attached process *)

AttKeep == UNCHANGED <<cfg, box, opt, mine, ctx, par, tr>>
AttFails == Fault /\ att' = [att EXCEPT !.pc = "done"] /\ UNCHANGED ipc

\* Variables that replace those of the same name.
putenv(new, env) == [v \in DOMAIN new \cup DOMAIN env |-> IF v \in DOMAIN new THEN new[v] ELSE env[v]]

\* The caller's variables, or what is kept of them with a PATH; the container's;
\* those asked for.  The later ones win.
set_environment(keep, host, conf, extra) ==
    LET kept == [v \in keep \cap DOMAIN host |-> host[v]]
        first == IF cfg.clear THEN putenv(kept, [PATH |-> "default"]) ELSE host
    IN  putenv(extra, putenv(conf, putenv([container |-> "lxc"], first)))

\* Core scheduling, /proc and /sys, personality, capabilities, environment.
do_attach ==
    /\ att.pc = "setup" /\ AttKeep
    /\ \/ NoFault /\ UNCHANGED ipc
          /\ att' = [att EXCEPT !.pc = IF ctx.label THEN "lsm" ELSE "ids", !.caps = Has("caps"),
                        !.env = set_environment(cfg.keep, cfg.env, cfg.conf, cfg.extra)]
       \/ AttFails

\* Mutant: the end of the messages is as good as a descriptor.
wait_label_fd_eof ==
    /\ att.pc = "lsm" /\ AttKeep /\ NoFault
    /\ ipc.down # <<>> \/ ipc.shut
    /\ att' = [att EXCEPT !.pc = "ids"] /\ ipc' = [ipc EXCEPT !.down = IF @ = <<>> THEN @ ELSE Tail(@)]

wait_label_fd ==
    /\ att.pc = "lsm" /\ AttKeep /\ NoFault
    /\ \/ ipc.down # <<>> /\ att' = [att EXCEPT !.pc = "ids"] /\ ipc' = [ipc EXCEPT !.down = Tail(@)]
       \/ ipc.down = <<>> /\ ipc.shut /\ att' = [att EXCEPT !.pc = "done"] /\ UNCHANGED ipc

\* Terminal, groups and ids to set things up with, label, no new privileges.
become_setup_ids ==
    /\ att.pc = "ids" /\ AttKeep
    /\ \/ NoFault /\ UNCHANGED ipc
          /\ att' = [att EXCEPT !.pc = "filter", !.uid = IF "user" \in ctx.ns THEN ctx.suid ELSE @,
                                !.label = ctx.label, !.nnp = ctx.nnp \/ Has("nnp")]
       \/ AttFails

\* Standard input and output, and the filter, whose descriptor goes to the
\* caller when it notifies.
load_seccomp ==
    /\ att.pc = "filter" /\ AttKeep
    /\ LET works == ctx.sec # "bad" /\ ~(ctx.sec = "notify" /\ ipc.shut)
       IN  \/ NoFault /\ works
              /\ att' = [att EXCEPT !.pc = "switch", !.sec = ctx.sec]
              /\ ipc' = IF ctx.sec = "notify" THEN [ipc EXCEPT !.up = Append(@, "fd")] ELSE ipc
           \/ IF works THEN AttFails ELSE NoFault /\ att' = [att EXCEPT !.pc = "done"] /\ UNCHANGED ipc

lxc_attach_run_command == IF "cmd" \in cfg.files THEN "cmd" ELSE "no"

\* The user's shell from getpwuid(), or else from getent, or else /bin/sh.
lxc_attach_getpwshell == IF "getent" \in cfg.files THEN cfg.shell ELSE "no"

lxc_attach_run_shell ==
    LET shell == IF "nss" \in cfg.files THEN cfg.shell ELSE lxc_attach_getpwshell
    IN  IF shell \in cfg.files THEN shell ELSE IF "sh" \in cfg.files THEN "sh" ELSE "no"

\* The ids of the program, if they are not the ones already taken.
run_program ==
    /\ att.pc = "switch" /\ AttKeep
    /\ LET prog == IF cfg.run = "shell" THEN lxc_attach_run_shell ELSE lxc_attach_run_command
       IN  \/ NoFault /\ UNCHANGED ipc
              /\ att' = [att EXCEPT !.uid = IF ctx.tuid # Invalid THEN ctx.tuid ELSE @,
                            !.prog = prog, !.pc = IF prog = "no" THEN "done" ELSE "run"]
           \/ AttFails

-----------------------------------------------------------------------------
(* Everything else *)

program_exits ==
    /\ att.pc = "run" /\ att' = [att EXCEPT !.pc = "done"]
    /\ UNCHANGED <<cfg, box, opt, mine, ctx, par, tr, ipc, faults>>

\* With init its pid namespace ends.
init_exits ==
    /\ State(box.cur) = "run" /\ cfg.stops
    /\ box' = [box EXCEPT !.init[box.cur] = "zombie"]
    /\ att' = IF att.ns["pid"] = box.cur /\ att.pc # "no" /\ ~AttDone THEN [att EXCEPT !.pc = "done"] ELSE att
    /\ UNCHANGED <<cfg, opt, mine, ctx, par, tr, ipc, faults>>

monitor_ends ==
    /\ State(box.cur) = "zombie"
    /\ box' = [box EXCEPT !.init[box.cur] = "gone", !.mon = FALSE, !.owner[box.cur] = "no"]
    /\ UNCHANGED <<cfg, opt, mine, ctx, par, tr, att, ipc, faults>>

container_starts ==
    /\ ~box.mon /\ box.cur = "c1"
    /\ box' = [box EXCEPT !.cur = "c2", !.mon = TRUE, !.init["c2"] = "run", !.owner["c2"] = "c2"]
    /\ UNCHANGED <<cfg, opt, mine, ctx, par, tr, att, ipc, faults>>

pid_reused ==
    /\ \E p \in Runs :
        /\ box.init[p] = "gone" /\ box.owner[p] = "no" /\ (p = box.cur \/ box.cur = "c2")
        /\ box' = [box EXCEPT !.owner[p] = "other"]
    /\ UNCHANGED <<cfg, opt, mine, ctx, par, tr, att, ipc, faults>>

transient_killed ==
    /\ tr.pc \in {"wait", "ns", "clone", "tell"} /\ cfg.kills /\ Fault
    /\ tr' = [tr EXCEPT !.pc = "bad", !.killed = TRUE]
    /\ UNCHANGED <<cfg, box, opt, mine, ctx, par, att, ipc>>

-----------------------------------------------------------------------------
(* Specification *)

Caller ==
    \/ get_init_pidfd \/ get_init_pid \/ get_clone_flags \/ open_proc \/ check_init \/ parse_init_status
    \/ fetch_seccomp \/ no_new_privs \/ prepare_namespaces \/ lxc_attach_terminal \/ fork_transient
    \/ cgroup_attach \/ setup_limits \/ sync_wake_cgroup \/ sync_wait_pid \/ reap_transient \/ send_label_fd
    \/ seccomp_notifier \/ shut_down \/ terminal_loop \/ attach_cleanup

Transient == sync_wait_cgroup \/ enter_namespaces \/ clone_attached \/ sync_wake_pid
Attached == do_attach \/ wait_label_fd \/ become_setup_ids \/ load_seccomp \/ run_program
Environment == program_exits \/ init_exits \/ monitor_ends \/ container_starts \/ pid_reused \/ transient_killed

Next == lxc_attach \/ Caller \/ attach_run_wait \/ Transient \/ Attached \/ Environment

\* Each of the three processes is scheduled.
Fairness == WF_vars(Caller) /\ WF_vars(Transient) /\ WF_vars(Attached)

Spec == Init /\ [][Next]_vars /\ Fairness

-----------------------------------------------------------------------------
(* Properties *)

Running == att.pc = "run"

\* With a pidfd from the monitor (lxc_cmd_get_init_pidfd(), then a signal after
\* /proc/<pid> was opened), what is read of /proc and entered is never that of
\* a process that got init's pid.
RightProcess == par.byfd /\ par.pc \notin {"pidfd", "pid", "flags", "open", "check", "ret", "idle"} => ctx.dfd = ctx.pid

\* The namespace the program should be in, by the options as they were when
\* lxc_attach() was called: that of init if asked for, or if all were asked for
\* (the cgroup namespace then only with the cgroup); or else the caller's
\* (whose time namespace pidfd_setns_supported() has changed).
Expected(p, n) ==
    IF ctx.ask # {"all"} THEN IF n \in ctx.ask THEN NsOf(p)[n] ELSE mine[n]
    ELSE IF n = "cgroup" /\ n \notin cfg.own[p] /\ ~(Has("cgroup") /\ cfg.cgns) THEN IF n \in cfg.here THEN "mine" ELSE "host"
    ELSE NsOf(p)[n]

\* A program that runs is in all the namespaces it should be in, though init
\* may have exited, been reaped and replaced at any point: when setns() takes a
\* pidfd, or when one of the namespaces is a pid namespace of the container.
\* (By descriptors, one that /proc no longer has is skipped.)
RightNamespaces ==
    LET p == ctx.pid
    IN  Running /\ ctx.dfd = p /\ (ctx.pidfd # "no" \/ att.ns["pid"] = p) => \A n \in NS : att.ns[n] = Expected(p, n)

\* The descriptors of the host's /proc and of namespaces are closed before the
\* attached process exists ("this is a crucial barrier").
NothingLeaks == att.pc # "no" => att.fds = {}

\* A labelled program was in a cgroup of the container and had its limits before
\* it could take a step, and has given up its capabilities.  The cgroup is that
\* of the init it was attached to, when it is in the pid namespace of that one
\* or setns() took a pidfd.  (Without either, it may be that of the next run.)
ConfinedFirst ==
    Running /\ ctx.label =>
        /\ att.label /\ att.limits /\ (Has("caps") => att.caps)
        /\ Has("cgroup") => att.cg \in Runs /\ (ctx.pidfd # "no" \/ att.ns["pid"] = ctx.pid => att.cg = ctx.pid)

\* What the program runs with is what the container runs with, seccomp filter
\* and no new privileges: no window in which the monitor does not answer lets a
\* program into a live pid namespace of the container without them.
FilteredLikeInit ==
    Running /\ att.ns["pid"] = ctx.pid => (attach_lsm => att.sec = cfg.sec) /\ (cfg.nnp => att.nnp)

\* Without a uid asked for, a program in the container's user namespace has one
\* that is mapped: root's, or init's.
MappedId ==
    Running /\ cfg.asuid = Invalid /\ "user" \in ctx.ns =>
        \E l \in Range(cfg.map) : att.uid >= l[1] /\ att.uid < l[1] + l[3] /\ (att.uid = 0 \/ att.uid - l[1] + l[2] = cfg.uid)

\* A cleared environment has nothing of the caller but what was to be kept, and
\* always a PATH; what was asked for is there as asked, and what the container
\* sets otherwise.
EnvironmentAsAsked ==
    Running =>
        /\ cfg.clear => DOMAIN att.env \subseteq cfg.keep \cup DOMAIN cfg.conf \cup DOMAIN cfg.extra \cup {"PATH", "container"}
        /\ cfg.clear => "PATH" \in DOMAIN att.env
        /\ \A v \in DOMAIN cfg.extra : att.env[v] = cfg.extra[v]
        /\ \A v \in DOMAIN cfg.conf \ DOMAIN cfg.extra : att.env[v] = cfg.conf[v]

\* When lxc_attach() has failed, no labelled program runs.
FailedMeansNotRunning == par.pc = "ret" /\ par.ret = -1 /\ ctx.label => ~Running

\* lxc_attach() returns having waited for the transient process, and after an
\* error for the attached process whose pid it was told.
NobodyLeft ==
    par.pc = "ret" => /\ tr.pc \in {"no", "reaped"}
                      /\ par.ret = -1 /\ att.pc # "no" => att.pc = "reaped" \/ ~par.told

\* It returns with the caller's terminal as it was, unless the transient process
\* could not even be started.
TerminalRestored == par.pc = "ret" /\ ~par.early => ~par.raw

\* lxc_attach() returns, the program's terminal aside, whoever of the three and
\* of the container fails; unless the transient process is killed just when the
\* attached process waits for the caller, and the caller for its pid.
AttachReturns == par.pc = "pidfd" ~> par.pc \in {"ret", "killed"} \/ tr.killed \/ (par.pc \in {"loop", "cleanup"} /\ att.pc = "run")

\* A program that runs is where and what lxc_attach() was asked for: in the
\* namespaces of the right process, with a mapped id and the right environment.
RunsAsAsked == RightProcess /\ RightNamespaces /\ MappedId /\ EnvironmentAsAsked

\* It is confined as the container's init is, before its first step, and holds
\* nothing of the host.
ConfinedLikeInit == NothingLeaks /\ ConfinedFirst /\ FilteredLikeInit

\* When lxc_attach() returns it has cleaned up, on every way out.
CleanReturn == FailedMeansNotRunning /\ NobodyLeft /\ TerminalRestored
=============================================================================
