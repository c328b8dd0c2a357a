----------------------------- MODULE Lifecycle -----------------------------
(***************************************************************************)
(* The life of a container from the monitor's side: do_lxcapi_start() and  *)
(* __lxc_start(), with lxc_spawn() reduced to its outcomes (module Spawn   *)
(* has the handshake), lxc_abort(), lxc_end(), and the reboot loop.        *)
(*                                                                         *)
(* Several start calls for one container run concurrently.  Each is a      *)
(* starter process and, if daemonized, a monitor process forked from it.   *)
(* The abstract unix socket of the command server, bound by                *)
(* lxc_init_handler() and inherited by the monitor, is all that keeps two  *)
(* of them from running the container at once.  The cloned child inherits  *)
(* it too, and the monitor's end of the socketpair, until it executes the  *)
(* init.  Monitors and starters may be killed at any point.                *)
(***************************************************************************)
CONSTANTS
    Start,       \* the start calls for the container
    Daemonized   \* those with c->daemonize

ASSUME DaemonizedAssumption == Daemonized \subseteq Start

VARIABLES
    spc,      \* where the caller of do_lxcapi_start() is
    mpc,      \* where the monitor is
    sock,     \* the processes that hold the listening command socket
    pair,     \* state_socket_pair: [w: the monitor's end is open, msg: in transit]
    eintr,    \* the starter's errno is still EINTR
    dset,     \* handler->daemonize
    hstate,   \* handler->state
    reboot,   \* conf->reboot
    child,    \* the process handler->pid was last set to
    lsm,      \* handler->lsm_ops # NULL
    blk,      \* the block device is attached
    cg,       \* the cgroups exist
    net,      \* the host side of the network exists
    sigfd,    \* SIGCHLD is blocked and handler->sigfd reads it
    chld,     \* whose SIGCHLD is pending there: none, init, other
    ran       \* the container has reached RUNNING: no, now, in an earlier run

vars == <<spc, mpc, sock, pair, eintr, dset, hstate, reboot, child, lsm, blk, cg, net, sigfd, chld, ran>>
res == <<blk, cg, net>>
sig == <<sigfd, chld>>

State == {"STOPPED", "STARTING", "RUNNING", "STOPPING", "ABORTING"}
StarterPC == {"idle", "fork", "wait", "true", "false", "run", "returned", "killed"}
MonitorPC == {"daemonize", "reboot", "init", "prepare", "spawn", "spawned",
              "poll", "reap", "abort", "abort_blk", "abort_net", "end",
              "stopped", "post_stop"}
MonitorEnd == {"none", "over", "crashed"}
S(i) == <<"starter", i>>
M(i) == <<"monitor", i>>
C(i) == <<"child", i>>

Init ==
    /\ spc = [i \in Start |-> "idle"] /\ mpc = [i \in Start |-> "none"]
    /\ sock = {}
    /\ pair = [i \in Start |-> [w |-> FALSE, msg |-> "none"]]
    /\ eintr = [i \in Start |-> FALSE] /\ dset = [i \in Start |-> FALSE]
    /\ hstate = [i \in Start |-> "STOPPED"]
    /\ reboot = [i \in Start |-> "NONE"]
    /\ child = [i \in Start |-> "none"]
    /\ lsm = [i \in Start |-> FALSE]
    /\ blk = [i \in Start |-> FALSE] /\ cg = [i \in Start |-> FALSE]
    /\ net = [i \in Start |-> FALSE]
    /\ sigfd = [i \in Start |-> FALSE] /\ chld = [i \in Start |-> "none"]
    /\ ran = [i \in Start |-> "no"]

-----------------------------------------------------------------------------
(* The caller of do_lxcapi_start().                                        *)

\* Mutant: an address in use is no error.
InitHandlerReuses(i) ==
    /\ spc[i] = "idle"
    /\ \/ /\ i \in Daemonized
          /\ spc' = [spc EXCEPT ![i] = "fork"]
          /\ pair' = [pair EXCEPT ![i].w = TRUE]
          /\ sock' = sock \cup {S(i)}
          /\ UNCHANGED mpc
       \/ /\ i \notin Daemonized
          /\ spc' = [spc EXCEPT ![i] = "run"]
          /\ mpc' = [mpc EXCEPT ![i] = "daemonize"]
          /\ sock' = sock \cup {M(i)}
          /\ UNCHANGED pair
       \/ spc' = [spc EXCEPT ![i] = "false"] /\ UNCHANGED <<mpc, sock, pair>>
    /\ UNCHANGED <<eintr, dset, hstate, reboot, child, lsm, res, sig, ran>>

\* lxc_init_handler(NULL, ...): the socketpair and the command socket, whose
\* address can be bound once (EADDRINUSE: "appears to be already running").
lxc_init_handler(i) ==
    /\ spc[i] = "idle"
    /\ \/ /\ sock = {} /\ i \in Daemonized
          /\ spc' = [spc EXCEPT ![i] = "fork"]
          /\ pair' = [pair EXCEPT ![i].w = TRUE]
          /\ sock' = {S(i)}
          /\ UNCHANGED mpc
       \/ /\ sock = {} /\ i \notin Daemonized
          /\ spc' = [spc EXCEPT ![i] = "run"]
          /\ mpc' = [mpc EXCEPT ![i] = "daemonize"]
          /\ sock' = {M(i)}
          /\ UNCHANGED pair
       \/ spc' = [spc EXCEPT ![i] = "false"] /\ UNCHANGED <<mpc, sock, pair>>
    /\ UNCHANGED <<eintr, dset, hstate, reboot, child, lsm, res, sig, ran>>

\* fork() twice; the second fork() may fail in the first child.
ForkMonitor(i) ==
    /\ spc[i] = "fork"
    /\ \/ /\ spc' = [spc EXCEPT ![i] = "wait"]
          /\ mpc' = [mpc EXCEPT ![i] = "daemonize"]
          /\ sock' = sock \cup {M(i)}
          /\ UNCHANGED pair
       \/ /\ spc' = [spc EXCEPT ![i] = "wait"]
          /\ mpc' = [mpc EXCEPT ![i] = "over"]
          /\ pair' = [pair EXCEPT ![i].w = FALSE]
          /\ UNCHANGED sock
       \/ /\ spc' = [spc EXCEPT ![i] = "false"]
          /\ pair' = [pair EXCEPT ![i].w = FALSE]
          /\ sock' = sock \ {S(i)}
          /\ UNCHANGED mpc
    /\ UNCHANGED <<eintr, dset, hstate, reboot, child, lsm, res, sig, ran>>

\* Mutants: any state is success; the starter keeps its copy of the
\* monitor's end open.
AnyStateStarted(i) ==
    /\ spc[i] = "wait"
    /\ \/ pair[i].msg # "none" /\ spc' = [spc EXCEPT ![i] = "true"]
       \/ pair[i].msg = "none" /\ ~pair[i].w /\ spc' = [spc EXCEPT ![i] = "false"]
    /\ sock' = sock \ {S(i)}
    /\ UNCHANGED <<mpc, pair, eintr, dset, hstate, reboot, child, lsm, res, sig, ran>>
KeepsWriteEnd(i) ==
    /\ spc[i] = "wait" /\ pair[i].msg # "none"
    /\ spc' = [spc EXCEPT ![i] = IF pair[i].msg = "RUNNING" THEN "true" ELSE "false"]
    /\ sock' = sock \ {S(i)}
    /\ UNCHANGED <<mpc, pair, eintr, dset, hstate, reboot, child, lsm, res, sig, ran>>

\* lxc_rcv_status(), then lxc_put_handler() in the starter.  An end of file
\* does not set errno: with a left-over EINTR the receive is retried.
wait_on_daemonized_start(i) ==
    /\ spc[i] = "wait"
    /\ \/ /\ pair[i].msg # "none"
          /\ spc' = [spc EXCEPT ![i] =
                        IF pair[i].msg = "RUNNING" THEN "true" ELSE "false"]
          /\ pair' = [pair EXCEPT ![i].msg = "none"]
       \/ /\ pair[i].msg = "none" /\ ~pair[i].w /\ C(i) \notin sock /\ ~eintr[i]
          /\ spc' = [spc EXCEPT ![i] = "false"]
          /\ UNCHANGED pair
    /\ sock' = sock \ {S(i)}
    /\ UNCHANGED <<mpc, eintr, dset, hstate, reboot, child, lsm, res, sig, ran>>

\* A signal interrupts wait_for_pid() or recvmsg(), which are retried; the
\* calls that succeed afterwards leave errno alone.
Interrupted(i) ==
    /\ spc[i] = "wait"
    /\ eintr' = [eintr EXCEPT ![i] = TRUE]
    /\ UNCHANGED <<spc, mpc, sock, pair, dset, hstate, reboot, child, lsm, res, sig, ran>>

StarterStep(i) ==
    lxc_init_handler(i) \/ ForkMonitor(i) \/ wait_on_daemonized_start(i)

-----------------------------------------------------------------------------
(* States.                                                                 *)

\* lxc_serve_state_socket_pair() would send "state" and nobody can read it.
StateLost(i, state) ==
    dset[i] /\ pair[i].w /\ state # "STARTING" /\ spc[i] = "killed"

\* lxc_set_state(): one message on the socketpair, whose end is closed then.
\* If it cannot be sent, handler->state keeps its value.
lxc_set_state(i, state) ==
    IF StateLost(i, state)
    THEN UNCHANGED <<pair, hstate>>
    ELSE /\ hstate' = [hstate EXCEPT ![i] = state]
         /\ pair' = IF dset[i] /\ pair[i].w /\ state # "STARTING"
                    THEN [pair EXCEPT ![i] = [w |-> FALSE, msg |-> state]]
                    ELSE pair

At(i, pc) == mpc[i] = pc
Goto(i, pc) == mpc' = [mpc EXCEPT ![i] = pc]

\* The tail of do_lxcapi_start(): a daemonized monitor exits, which closes
\* everything it holds; a foreground one returns to its caller.
\* closed: lxc_put_handler() or lxc_end() has closed the command socket.
Leave(i, closed) ==
    /\ Goto(i, "over")
    /\ pair' = [pair EXCEPT ![i].w = FALSE]
    /\ sock' = IF closed \/ i \in Daemonized THEN sock \ {M(i)} ELSE sock
    /\ spc' = IF i \in Daemonized THEN spc ELSE [spc EXCEPT ![i] = "returned"]

-----------------------------------------------------------------------------
(* The monitor.                                                            *)

\* chdir(), inherited descriptors, the PID file, the mount namespace.
Daemonize(i) ==
    /\ At(i, "daemonize")
    /\ \/ Goto(i, "init") /\ UNCHANGED <<spc, sock, pair>>
       \/ Leave(i, TRUE)
    /\ UNCHANGED <<eintr, dset, hstate, reboot, child, lsm, res, sig, ran>>

\* "reboot:" lxc_init_handler(handler, ...) keeps the command socket.
Reboot(i) ==
    /\ At(i, "reboot")
    /\ \/ Goto(i, "init") /\ UNCHANGED <<spc, sock, pair>>
       \/ Leave(i, FALSE)
    /\ ran' = [ran EXCEPT ![i] = "earlier"]
    /\ UNCHANGED <<eintr, dset, hstate, reboot, child, lsm, res, sig>>

\* lxc_init().  "The signal fd has to be created before forking otherwise if
\* the child process exits before we setup the signal fd, the event will be
\* lost"; handler->daemonize is set after lxc_init() has succeeded.
LxcInit(i) ==
    /\ At(i, "init")
    /\ \/ Goto(i, "abort") /\ UNCHANGED <<dset, hstate, pair, lsm, sig>>
       \/ /\ lsm' = [lsm EXCEPT ![i] = TRUE]
          /\ lxc_set_state(i, "STARTING")
          /\ \/ Goto(i, "abort") /\ UNCHANGED <<dset, sig>>
             \/ /\ Goto(i, "prepare")
                /\ dset' = [dset EXCEPT ![i] = i \in Daemonized]
                /\ sigfd' = [sigfd EXCEPT ![i] = TRUE]
                /\ UNCHANGED chld
    /\ UNCHANGED <<spc, sock, eintr, reboot, child, res, ran>>

\* attach_block_device(), the monitor cgroup, namespaces, the rootfs.
Prepare(i) ==
    /\ At(i, "prepare")
    /\ \E b, c \in BOOLEAN :
          /\ blk' = [blk EXCEPT ![i] = b]
          /\ cg' = [cg EXCEPT ![i] = c]
          /\ \/ c /\ Goto(i, "spawn")
             \/ Goto(i, "abort")
    /\ UNCHANGED <<spc, sock, pair, eintr, dset, hstate, reboot, child, lsm, net, sig, ran>>

\* Mutant: the init is signalled but not waited for.
AbortWithoutWait(i) ==
    /\ lxc_set_state(i, "ABORTING")
    /\ UNCHANGED <<sock, child>>

\* lxc_abort(): SIGKILL through the pidfd if there is one, or through the pid,
\* then wait for every child.
lxc_abort(i) ==
    /\ lxc_set_state(i, "ABORTING")
    /\ child' = [child EXCEPT ![i] = IF @ = "none" THEN "none" ELSE "reaped"]
    /\ sock' = sock \ {C(i)}

\* lxc_spawn() up to clone().  (When it fails the caller calls lxc_abort() next,
\* so a first call here would add nothing.)
SpawnClone(i) ==
    /\ At(i, "spawn")
    /\ \/ /\ Goto(i, "spawned")
          /\ child' = [child EXCEPT ![i] = "alive"]
          /\ sock' = sock \cup {C(i)}
       \/ Goto(i, "abort_blk") /\ UNCHANGED <<sock, child>>
    /\ UNCHANGED <<spc, pair, eintr, dset, hstate, reboot, lsm, res, sig, ran>>

\* The outcomes of the handshake: it succeeds when the child has closed its
\* descriptors by exec() or by dying; it may fail at any point.  The network
\* is deleted on the way out unless it is the announcement that fails.
SpawnFinish(i) ==
    /\ At(i, "spawned")
    /\ \/ /\ C(i) \notin sock /\ ~StateLost(i, "RUNNING")
          /\ lxc_set_state(i, "RUNNING")
          /\ Goto(i, "poll")
          /\ net' = [net EXCEPT ![i] = TRUE]
          /\ reboot' = [reboot EXCEPT ![i] = "NONE"]
          /\ ran' = [ran EXCEPT ![i] = "now"]
          /\ UNCHANGED <<sock, child>>
       \/ /\ Goto(i, "abort_blk")
          /\ \E n \in {FALSE, StateLost(i, "RUNNING")} : net' = [net EXCEPT ![i] = n]
          /\ lxc_abort(i)
          /\ UNCHANGED <<reboot, ran>>
    /\ UNCHANGED <<spc, eintr, dset, lsm, blk, cg, sig>>

\* Mutant: the init is taken for dead only if the signal says so.
TrustSender(i) ==
    /\ At(i, "poll") /\ chld[i] # "none"
    /\ chld' = [chld EXCEPT ![i] = "none"]
    /\ \/ chld[i] = "other" /\ UNCHANGED <<mpc, sigfd>>
       \/ /\ chld[i] = "init" /\ Goto(i, "reap")
          /\ sigfd' = [sigfd EXCEPT ![i] = FALSE]
    /\ UNCHANGED <<spc, sock, pair, eintr, dset, hstate, reboot, child, lsm, res, ran>>

\* signal_handler(): whoever sent the signal, waitid() looks at the init; its
\* death ends the mainloop.
signal_handler(i) ==
    /\ At(i, "poll") /\ chld[i] # "none"
    /\ chld' = [chld EXCEPT ![i] = "none"]
    /\ \/ child[i] = "alive" /\ UNCHANGED <<mpc, sigfd>>
       \/ /\ child[i] # "alive" /\ Goto(i, "reap")
          /\ sigfd' = [sigfd EXCEPT ![i] = FALSE]
    /\ UNCHANGED <<spc, sock, pair, eintr, dset, hstate, reboot, child, lsm, res, ran>>

\* The mainloop ends for another reason.
PollFails(i) ==
    /\ At(i, "poll")
    /\ Goto(i, "abort_net")
    /\ sigfd' = [sigfd EXCEPT ![i] = FALSE]
    /\ UNCHANGED <<spc, sock, pair, eintr, dset, hstate, reboot, child, lsm, res,
                   chld, ran>>

\* The status of the init decides about a reboot; then the network and the
\* block device are released.
Reap(i) ==
    /\ At(i, "reap")
    /\ Goto(i, "end")
    /\ reboot' = [reboot EXCEPT ![i] =
                     IF child[i] = "rebooting" THEN "REQ" ELSE "NONE"]
    /\ child' = [child EXCEPT ![i] = "reaped"]
    /\ net' = [net EXCEPT ![i] = FALSE]
    /\ blk' = [blk EXCEPT ![i] = FALSE]
    /\ UNCHANGED <<spc, sock, pair, eintr, dset, hstate, lsm, cg, sig, ran>>

\* out_abort, out_detach_blockdev, out_delete_network
Abort(i) ==
    /\ mpc[i] \in {"abort", "abort_blk", "abort_net"}
    /\ lxc_abort(i)
    /\ blk' = [blk EXCEPT ![i] = @ /\ At(i, "abort")]
    /\ net' = [net EXCEPT ![i] = @ /\ ~At(i, "abort_net")]
    /\ Goto(i, "end")
    /\ UNCHANGED <<spc, eintr, dset, reboot, lsm, cg, sig, ran>>

\* lxc_end(): STOPPING, the stop hook, then lsm_ops->cleanup() through a
\* pointer lxc_init() may not have set, and the cgroups.
End(i) ==
    /\ At(i, "end")
    /\ \/ /\ lsm[i]
          /\ lxc_set_state(i, "STOPPING")
          /\ Goto(i, "stopped")
          /\ cg' = [cg EXCEPT ![i] = FALSE]
          /\ UNCHANGED <<spc, sock>>
       \/ /\ ~lsm[i]
          /\ Goto(i, "crashed")
          /\ sock' = sock \ {M(i)}
          /\ pair' = [pair EXCEPT ![i].w = FALSE]
          /\ spc' = IF i \in Daemonized THEN spc ELSE [spc EXCEPT ![i] = "killed"]
          /\ hstate' = [hstate EXCEPT ![i] = "STOPPING"]
          /\ UNCHANGED cg
    /\ UNCHANGED <<eintr, dset, reboot, child, lsm, blk, net, sig, ran>>

\* The command socket is closed unless the container reboots.
Stopped(i) ==
    /\ At(i, "stopped")
    /\ \/ /\ reboot[i] = "NONE"
          /\ sock' = sock \ {M(i)}
          /\ hstate' = [hstate EXCEPT ![i] = "STOPPED"]
          /\ UNCHANGED pair
       \/ /\ reboot[i] # "NONE"
          /\ lxc_set_state(i, "STOPPED")
          /\ UNCHANGED sock
    /\ Goto(i, "post_stop")
    /\ UNCHANGED <<spc, eintr, dset, reboot, child, lsm, res, sig, ran>>

\* The post-stop hook, whose failure turns a reboot into a stop; then
\* the signal mask, lxc_put_handler(), and do_lxcapi_start() looks at
\* conf->reboot.
PostStop(i) ==
    /\ At(i, "post_stop")
    /\ \E r \in {reboot[i], "NONE"} :
          \/ /\ r = "REQ"
             /\ reboot' = [reboot EXCEPT ![i] = "INIT"]
             /\ Goto(i, "reboot")
             /\ pair' = [pair EXCEPT ![i].w = FALSE]
             /\ UNCHANGED <<spc, sock>>
          \/ /\ r # "REQ"
             /\ reboot' = [reboot EXCEPT ![i] = r]
             /\ Leave(i, r = "NONE")
    /\ sigfd' = [sigfd EXCEPT ![i] = FALSE] /\ chld' = [chld EXCEPT ![i] = "none"]
    /\ UNCHANGED <<eintr, dset, hstate, child, lsm, res, ran>>

MonitorStep(i) ==
    \/ Daemonize(i) \/ Reboot(i) \/ LxcInit(i) \/ Prepare(i) \/ SpawnClone(i)
    \/ SpawnFinish(i) \/ signal_handler(i) \/ Reap(i) \/ Abort(i) \/ End(i)
    \/ Stopped(i) \/ PostStop(i)

-----------------------------------------------------------------------------
(* The environment.                                                        *)

\* A signal nobody blocks is lost: SIGCHLD is ignored by default.  A second
\* SIGCHLD while one is pending is lost too.
Signalled(i, who) ==
    chld' = IF sigfd[i] /\ chld[i] = "none" THEN [chld EXCEPT ![i] = who] ELSE chld

\* The child executes the init, which closes what it inherited.
InitExecs(i) ==
    /\ C(i) \in sock
    /\ sock' = sock \ {C(i)}
    /\ UNCHANGED <<spc, mpc, pair, eintr, dset, hstate, reboot, child, lsm, res, sig, ran>>

\* The container's init ends, or calls reboot(2) (seen as death by SIGHUP).
InitDies(i) ==
    /\ child[i] = "alive"
    /\ \/ /\ mpc[i] \in MonitorPC
          /\ \E how \in {"halted", "rebooting"} : child' = [child EXCEPT ![i] = how]
          /\ Signalled(i, "init")
       \/ /\ mpc[i] \notin MonitorPC
          /\ child' = [child EXCEPT ![i] = "reaped"]
          /\ UNCHANGED chld
    /\ sock' = sock \ {C(i)}
    /\ UNCHANGED <<spc, mpc, pair, eintr, dset, hstate, reboot, lsm, res, sigfd, ran>>

\* Another child of the monitor (a hook) ends, or it is sent a signal.
OtherSignal(i) ==
    /\ mpc[i] \in MonitorPC
    /\ Signalled(i, "other")
    /\ UNCHANGED <<spc, mpc, sock, pair, eintr, dset, hstate, reboot, child, lsm,
                   res, sigfd, ran>>

\* SIGKILL.  The kernel closes the descriptors; the death signal of the init
\* comes later, if it is set at all (InitDies).
MonitorKilled(i) ==
    /\ mpc[i] \in MonitorPC
    /\ Goto(i, "crashed")
    /\ sock' = sock \ {M(i)}
    /\ pair' = [pair EXCEPT ![i].w = FALSE]
    /\ spc' = IF i \in Daemonized THEN spc ELSE [spc EXCEPT ![i] = "killed"]
    /\ UNCHANGED <<eintr, dset, hstate, reboot, child, lsm, res, sig, ran>>

StarterKilled(i) ==
    /\ spc[i] \in {"fork", "wait"}
    /\ spc' = [spc EXCEPT ![i] = "killed"]
    /\ sock' = sock \ {S(i)}
    /\ UNCHANGED <<mpc, pair, eintr, dset, hstate, reboot, child, lsm, res, sig, ran>>

Next ==
    \E i \in Start :
        \/ StarterStep(i) \/ Interrupted(i) \/ MonitorStep(i) \/ PollFails(i)
        \/ InitExecs(i) \/ InitDies(i) \/ OtherSignal(i)
        \/ MonitorKilled(i) \/ StarterKilled(i)

\* The processes run; nothing has to die or to be interrupted.  That
\* lxc_spawn() returns is SpawnReturns of module Spawn.
Fairness == \A i \in Start : WF_vars(StarterStep(i)) /\ WF_vars(MonitorStep(i))

Spec == Init /\ [][Next]_vars /\ Fairness

-----------------------------------------------------------------------------
(* Properties.                                                             *)

ControlType ==
    /\ spc \in [Start -> StarterPC]
    /\ \A i \in Start : IF i \in Daemonized THEN spc[i] \notin {"run", "returned"}
                                            ELSE spc[i] \notin {"fork", "wait", "true"}
    /\ mpc \in [Start -> MonitorPC \cup MonitorEnd]
SocketType ==
    /\ sock \subseteq {"starter", "monitor", "child"} \X Start
    /\ pair \in [Start -> [w : BOOLEAN, msg : State \cup {"none"}]]
StateType ==
    /\ hstate \in [Start -> State]
    /\ reboot \in [Start -> {"NONE", "REQ", "INIT"}]
    /\ child \in [Start -> {"none", "alive", "halted", "rebooting", "reaped"}]
    /\ chld \in [Start -> {"none", "init", "other"}]
    /\ ran \in [Start -> {"no", "now", "earlier"}]
FlagType ==
    /\ eintr \in [Start -> BOOLEAN] /\ dset \in [Start -> BOOLEAN]
    /\ lsm \in [Start -> BOOLEAN] /\ sigfd \in [Start -> BOOLEAN]
ResourceType ==
    /\ blk \in [Start -> BOOLEAN] /\ cg \in [Start -> BOOLEAN]
    /\ net \in [Start -> BOOLEAN]

\* The variables keep their types; only a foreground start call returns from
\* the monitor's code, a daemonized one ends in the starter.
TypeOK == ControlType /\ SocketType /\ StateType /\ FlagType /\ ResourceType

\* Concurrent start calls never run two inits of the container at once:
\* binding the command socket excludes them until lxc_end() has closed it,
\* and lxc_end() is entered without an init only.  A killed monitor forfeits
\* this.
OneContainer ==
    \A i, j \in Start :
        i # j /\ child[i] = "alive" /\ child[j] = "alive" =>
            mpc[i] = "crashed" \/ mpc[j] = "crashed"

\* Clients take a refused connection, or the state STOPPED, for the end of
\* the container: while an init lives its monitor holds the socket and has
\* not announced STOPPED, over any number of reboots and failed restarts.
StoppedMeansDead ==
    \A i \in Start : child[i] = "alive" /\ mpc[i] # "crashed" =>
        M(i) \in sock /\ hstate[i] # "STOPPED"

Verdict(i) ==
    /\ spc[i] = "true" => ran[i] # "no"
    /\ spc[i] = "false" => ran[i] = "no"
\* A daemonized start call that reports success has started the container,
\* one that reports failure has not, whenever the starter gets to read the
\* socketpair and however the monitor ends.
StartVerdict == \A i \in Start : Verdict(i)

\* When a run that reached RUNNING is over, also when the mainloop failed,
\* its network, block device and cgroups are gone, before a reboot takes
\* them again.
ReleasedAfterRun ==
    \A i \in Start : mpc[i] \in {"over", "reboot"} /\ ran[i] = "now" =>
        ~net[i] /\ ~blk[i] /\ ~cg[i]

\* A daemonized start call returns, whatever the monitor does, unless a signal
\* interrupted it, or the monitor is gone and its child, which has not
\* executed the init yet, still holds the socketpair.
StarterReturns ==
    \A i \in Start : (spc[i] = "wait") ~> (spc[i] # "wait" \/ eintr[i] \/ C(i) \in sock)

\* The death of the init is noticed, whenever it happens and whatever other
\* signals swallow its SIGCHLD: the init is reaped, unless the monitor dies.
DeathHandled ==
    \A i \in Start : (child[i] \in {"halted", "rebooting"}) ~>
        (child[i] \notin {"halted", "rebooting"} \/ mpc[i] = "crashed")
=============================================================================
