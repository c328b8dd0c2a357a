------------------------------- MODULE Spawn -------------------------------
(***************************************************************************)
(* The start handshake: the monitor in lxc_spawn() and the container's     *)
(* future init in do_start()/lxc_setup(), from clone() to exec().          *)
(*                                                                         *)
(* The two processes share two unix stream socketpairs.  On sync_sock each *)
(* process keeps one end, so it sees the death of the other.  On data_sock *)
(* both keep BOTH ends: everything but the mount acknowledgements is sent  *)
(* on end 0 and received on end 1, whoever the sender is, and nobody ever  *)
(* sees an end of file there.                                              *)
(*                                                                         *)
(* Every step may fail the way the code lets it fail, the child may be     *)
(* killed at any point, and the monitor may die at any point.  A monitor's *)
(* death takes two steps, as in the kernel: its descriptors are closed     *)
(* first, the parent death signal is delivered when it becomes a zombie.   *)
(***************************************************************************)
EXTENDS Integers, Sequences

CONSTANTS
    Conf    \* the container configurations that may be started

\* sync.h
SYNC_ERROR == -1
START_SYNC_STARTUP == 0
START_SYNC_CONFIGURE == 1
START_SYNC_POST_CONFIGURE == 2
START_SYNC_IDMAPPED_MOUNTS == 3
START_SYNC_CGROUP_LIMITS == 4
START_SYNC_FDS == 5
START_SYNC_READY_START == 6

SyncMsg == SYNC_ERROR .. START_SYNC_READY_START

\* The messages of data_sock, and the number of descriptors each carries.
\* FdKind: what lxc_sync_fds_child() sends.
FdKind == {"seccomp", "devpts", "tty", "netdev", "console"}
DataMsg == {"status", "rootfs", "names", "mount", "done"} \cup FdKind
NumFds == [m \in DataMsg |->
    CASE m \in {"names", "done", "netdev"} -> 0
      [] m \in {"status", "rootfs", "seccomp", "devpts"} -> 1
      [] m \in {"mount", "tty", "console"} -> 2]

\* newnet, userns, rootfs: the namespaces and the idmapped rootfs in use;
\* mounts: the number of mount entries that ask for an idmapped mount;
\* fds: the messages of the descriptor exchange; setuid: lxc.init.uid/gid
\* differ from the ids held since the user namespace was entered; pdeath:
\* lxc.monitor.signal.pdeath is SIGKILL (otherwise 0).
ASSUME ConfAssumption ==
    Conf \subseteq [newnet : BOOLEAN, userns : BOOLEAN, rootfs : BOOLEAN,
                    mounts : Nat, fds : Seq(FdKind),
                    setuid : BOOLEAN, pdeath : BOOLEAN]

VARIABLES
    conf,       \* handler->conf
    ppc,        \* where the monitor is in lxc_spawn()
    cpc,        \* where the child is in do_start()
    mon,        \* the monitor process: alive, exiting (descriptors closed), dead
    toChild,    \* sync_sock, monitor to child
    toParent,   \* sync_sock, child to monitor
    data,       \* data_sock[0] -> data_sock[1]
    ack,        \* data_sock[1] -> data_sock[0]
    pdeath,     \* the child's parent death signal is SIGKILL
    mnt,        \* mount entries the child has handled
    mnt_seq,    \* mount sequence number: [parent, child]
    sent,       \* messages of the descriptor exchange: sent by the child ...
    rcvd,       \* ... and received by the monitor
    net,        \* host-side network devices exist
    lost        \* a data message could not be sent

sync == <<toChild, toParent>>
sock == <<data, ack>>
idx == <<mnt, mnt_seq, sent, rcvd>>
vars == <<conf, ppc, cpc, mon, toChild, toParent, data, ack, pdeath,
          mnt, mnt_seq, sent, rcvd, net, lost>>

ParentPC == {"clone", "status", "startup", "wait_configure", "network",
             "rootfs", "names", "wait_idmapped", "idmapped", "wait_limits",
             "limits", "recv_fds", "ready", "wait_exec", "announce",
             "delete_net", "abort"}
ParentEnd == {"failed", "running"}
ChildPC == {"status", "pdeath", "wait_startup", "userns", "userns_pdeath",
            "configure", "wait_post_configure", "rootfs", "names",
            "setup", "mounts", "wait_ack", "mounts_failed", "limits",
            "wait_fds", "send_fds", "wait_ready", "switch_ids",
            "conf_pdeath", "exec", "warn_father"}
ChildEnd == {"none", "execed", "exited", "killed", "reaped"}

Init ==
    /\ conf \in Conf
    /\ ppc = "clone" /\ cpc = "none" /\ mon = "alive"
    /\ toChild = <<>> /\ toParent = <<>> /\ data = <<>> /\ ack = <<>>
    /\ pdeath = FALSE /\ mnt = 0 /\ mnt_seq = [parent |-> 0, child |-> 0]
    /\ sent = 0 /\ rcvd = 0 /\ net = FALSE /\ lost = FALSE

-----------------------------------------------------------------------------
(* sync.c.  A read of an empty socket whose other end is closed is an end  *)
(* of file, which sync_wait() takes for success; if the other end was      *)
(* closed with unread data the kernel reports ECONNRESET instead.          *)

ChildOpen == cpc \in ChildPC
ParentOpen == mon = "alive"

\* Mutant: the value read is not compared with SYNC_ERROR.
WaitChildIgnoresError(seq, next) ==
    /\ UNCHANGED toChild
    /\ \/ /\ toParent # <<>>
          /\ toParent' = Tail(toParent)
          /\ ppc' = IF Head(toParent) \in {seq, SYNC_ERROR}
                    THEN next ELSE "delete_net"
       \/ /\ toParent = <<>> /\ ~ChildOpen
          /\ ppc' = IF toChild = <<>> THEN next ELSE "delete_net"
          /\ UNCHANGED toParent

lxc_sync_wait_child(seq, next) ==
    /\ UNCHANGED toChild
    /\ \/ /\ toParent # <<>>
          /\ toParent' = Tail(toParent)
          /\ ppc' = IF Head(toParent) = seq THEN next ELSE "delete_net"
       \/ /\ toParent = <<>> /\ ~ChildOpen
          /\ ppc' = IF toChild = <<>> THEN next ELSE "delete_net"
          /\ UNCHANGED toParent

lxc_sync_wake_child(seq, next) ==
    /\ UNCHANGED toParent
    /\ \/ ChildOpen /\ toChild' = Append(toChild, seq) /\ ppc' = next
       \/ ~ChildOpen /\ ppc' = "delete_net" /\ UNCHANGED toChild

lxc_sync_wait_parent(seq, next) ==
    /\ UNCHANGED toParent
    /\ \/ /\ toChild # <<>>
          /\ toChild' = Tail(toChild)
          /\ cpc' = IF Head(toChild) = seq THEN next ELSE "warn_father"
       \/ /\ toChild = <<>> /\ ~ParentOpen
          /\ cpc' = IF toParent = <<>> THEN next ELSE "warn_father"
          /\ UNCHANGED toChild

\* Waking a monitor whose end is closed raises SIGPIPE or returns EPIPE.
lxc_sync_wake_parent(seq, next) ==
    /\ UNCHANGED toChild
    /\ \/ ParentOpen /\ toParent' = Append(toParent, seq) /\ cpc' = next
       \/ ~ParentOpen /\ cpc' = "exited" /\ UNCHANGED toParent

-----------------------------------------------------------------------------
(* The monitor: lxc_spawn().                                               *)

Parent(at) == ppc = at /\ mon = "alive"

\* goto out_delete_net from any check that is not a synchronisation.
ParentFails ==
    ppc' = "delete_net" /\ UNCHANGED <<toChild, toParent, data, ack>>

\* lxc_sync_init() .. clone(): the sockets, the payload cgroup, the child.
CloneChild ==
    /\ Parent("clone")
    /\ \/ ppc' = "status" /\ cpc' = "status"
       \/ ppc' \in {"delete_net", "failed"} /\ UNCHANGED cpc
    /\ UNCHANGED <<conf, mon, sync, sock, pdeath, idx, net, lost>>

\* Core scheduling, namespace descriptors, then the monitor's status
\* descriptor, before anything the child could wait for on sync_sock.
SendStatusFd ==
    /\ Parent("status")
    /\ \/ /\ data' = Append(data, "status")
          /\ ppc' = "startup"
          /\ UNCHANGED <<toChild, toParent, ack>>
       \/ ParentFails
    /\ UNCHANGED <<conf, cpc, mon, pdeath, idx, net, lost>>

\* Id maps, cgroup limits, cgroup membership; then START_SYNC_STARTUP.
WakeStartup ==
    /\ Parent("startup")
    /\ \/ lxc_sync_wake_child(START_SYNC_STARTUP, "wait_configure") /\ UNCHANGED sock
       \/ ParentFails
    /\ UNCHANGED <<conf, cpc, mon, pdeath, idx, net, lost>>

WaitConfigure ==
    /\ Parent("wait_configure")
    /\ lxc_sync_wait_child(START_SYNC_STARTUP + 1, "network")
    /\ UNCHANGED <<conf, cpc, mon, sock, pdeath, idx, net, lost>>

\* The network devices, /proc and resource limits; then
\* START_SYNC_POST_CONFIGURE.  A failing lxc_create_network() may leave some
\* of the devices behind.
CreateNetwork ==
    /\ Parent("network")
    /\ net' \in (IF conf.newnet THEN BOOLEAN ELSE {FALSE})
    /\ \/ /\ net' = conf.newnet
          /\ lxc_sync_wake_child(START_SYNC_POST_CONFIGURE, "rootfs")
          /\ UNCHANGED sock
       \/ ParentFails
    /\ UNCHANGED <<conf, cpc, mon, pdeath, idx, lost>>

\* lxc_rootfs_prepare_parent()
PrepareRootfsParent ==
    /\ Parent("rootfs")
    /\ \/ /\ data' = IF conf.rootfs THEN Append(data, "rootfs") ELSE data
          /\ ppc' = "names"
          /\ UNCHANGED <<toChild, toParent, ack>>
       \/ conf.rootfs /\ ParentFails
    /\ UNCHANGED <<conf, cpc, mon, pdeath, idx, net, lost>>

\* lxc_network_send_to_child()
SendNamesToChild ==
    /\ Parent("names")
    /\ \/ /\ data' = IF conf.newnet THEN Append(data, "names") ELSE data
          /\ ppc' = "wait_idmapped"
          /\ UNCHANGED <<toChild, toParent, ack>>
       \/ conf.newnet /\ ParentFails
    /\ UNCHANGED <<conf, cpc, mon, pdeath, idx, net, lost>>

\* Mutant: the mounts are served without waiting for the child.
IdmappedMountsAtOnce ==
    /\ Parent("wait_idmapped")
    /\ ppc' = "idmapped"
    /\ UNCHANGED <<conf, cpc, mon, sync, sock, pdeath, idx, net, lost>>

WaitIdmappedMounts ==
    /\ Parent("wait_idmapped")
    /\ lxc_sync_wait_child(START_SYNC_IDMAPPED_MOUNTS, "idmapped")
    /\ UNCHANGED <<conf, cpc, mon, sock, pdeath, idx, net, lost>>

\* lxc_idmapped_mounts_parent(), one round of its loop.  Two descriptors are
\* a mount to idmap and acknowledge, none at all is the end of the loop,
\* whoever sent the message; a single one is refused.
IdmapMountParent ==
    /\ Parent("idmapped")
    /\ data # <<>>
    /\ data' = Tail(data)
    /\ LET n == NumFds[Head(data)]
       IN \/ /\ n = 2
             /\ ack' = Append(ack, mnt_seq.parent)
             /\ mnt_seq' = [mnt_seq EXCEPT !.parent = @ + 1]
             /\ UNCHANGED ppc
          \/ n = 0 /\ ppc' = "wait_limits" /\ UNCHANGED <<ack, mnt_seq>>
          \/ n # 0 /\ ppc' = "delete_net" /\ UNCHANGED <<ack, mnt_seq>>
    /\ UNCHANGED <<conf, cpc, mon, sync, pdeath, mnt, sent, rcvd, net, lost>>

WaitCgroupLimits ==
    /\ Parent("wait_limits")
    /\ lxc_sync_wait_child(START_SYNC_CGROUP_LIMITS, "limits")
    /\ UNCHANGED <<conf, cpc, mon, sock, pdeath, idx, net, lost>>

\* Device cgroups and the start-host hook; then START_SYNC_FDS.
SetupLimitsWakeFds ==
    /\ Parent("limits")
    /\ \/ lxc_sync_wake_child(START_SYNC_FDS, "recv_fds") /\ UNCHANGED sock
       \/ ParentFails
    /\ UNCHANGED <<conf, cpc, mon, pdeath, idx, net, lost>>

\* Whether the receiver of kind "want" takes the message "got" for its own.
Accepts(want, got) ==
    NumFds[want] = NumFds[got] \/ NumFds[want] = 0 \/ NumFds[got] = 0

\* lxc_sync_fds_parent(), one message at a time; the namespaces preserved
\* just before it and each receive may fail.
RecvFdsParent ==
    /\ Parent("recv_fds")
    /\ \/ /\ rcvd < Len(conf.fds) /\ data # <<>>
          /\ data' = Tail(data)
          /\ IF Accepts(conf.fds[rcvd + 1], Head(data))
             THEN rcvd' = rcvd + 1 /\ UNCHANGED ppc
             ELSE ppc' = "delete_net" /\ UNCHANGED rcvd
          /\ UNCHANGED <<toChild, toParent, ack>>
       \/ rcvd = Len(conf.fds) /\ ppc' = "ready" /\ UNCHANGED <<sync, sock, rcvd>>
       \/ ParentFails /\ UNCHANGED rcvd
    /\ UNCHANGED <<conf, cpc, mon, pdeath, mnt, mnt_seq, sent, net, lost>>

\* lxc_terminal_setup(); then the first half of the last barrier.
WakeReadyStart ==
    /\ Parent("ready")
    /\ \/ lxc_sync_wake_child(START_SYNC_READY_START, "wait_exec") /\ UNCHANGED sock
       \/ ParentFails
    /\ UNCHANGED <<conf, cpc, mon, pdeath, idx, net, lost>>

\* The second half: "The child will never return START_SYNC_READY_START+1.
\* It will either close the sync pipe, causing lxc_sync_barrier_child to
\* return success, or return a different value".
WaitExec ==
    /\ Parent("wait_exec")
    /\ lxc_sync_wait_child(START_SYNC_READY_START + 1, "announce")
    /\ UNCHANGED <<conf, cpc, mon, sock, pdeath, idx, net, lost>>

\* post_start and lxc_set_state(RUNNING); their failure goes to out_abort.
AnnounceRunning ==
    /\ Parent("announce")
    /\ ppc' \in {"running", "abort"}
    /\ UNCHANGED <<conf, cpc, mon, sync, sock, pdeath, idx, net, lost>>

DeleteNet ==
    /\ Parent("delete_net")
    /\ ppc' = "abort" /\ net' = FALSE
    /\ UNCHANGED <<conf, cpc, mon, sync, sock, pdeath, idx, lost>>

\* lxc_abort(): ABORTING, SIGKILL, and wait for every child.
lxc_abort ==
    /\ Parent("abort")
    /\ ppc' = "failed"
    /\ cpc' = IF cpc = "none" THEN "none" ELSE "reaped"
    /\ UNCHANGED <<conf, mon, sync, sock, pdeath, idx, net, lost>>

ParentStep ==
    \/ CloneChild \/ SendStatusFd \/ WakeStartup \/ WaitConfigure
    \/ CreateNetwork \/ PrepareRootfsParent \/ SendNamesToChild
    \/ WaitIdmappedMounts \/ IdmapMountParent \/ WaitCgroupLimits
    \/ SetupLimitsWakeFds \/ RecvFdsParent \/ WakeReadyStart \/ WaitExec
    \/ AnnounceRunning \/ DeleteNet \/ lxc_abort

-----------------------------------------------------------------------------
(* The child: do_start(), with lxc_setup() inlined.                        *)

Child(at) == cpc = at

\* goto out_warn_father
ChildFails ==
    cpc' = "warn_father" /\ UNCHANGED <<toChild, toParent, data, ack>>

RecvStatusFd ==
    /\ Child("status")
    /\ data # <<>>
    /\ data' = Tail(data)
    /\ cpc' = IF NumFds[Head(data)] = 1 THEN "pdeath" ELSE "warn_father"
    /\ UNCHANGED <<conf, ppc, mon, sync, ack, pdeath, idx, net, lost>>

\* prctl(), then "verify that we haven't been orphaned in the meantime":
\* only a monitor that is already a zombie is seen.
lxc_set_death_signal(at, sig, next) ==
    /\ Child(at)
    /\ pdeath' = sig
    /\ \/ cpc' = IF mon = "dead" THEN "killed" ELSE next
       \/ mon # "dead" /\ cpc' = "warn_father"
    /\ UNCHANGED <<conf, ppc, mon, sync, sock, idx, net, lost>>

SetDeathSignal == lxc_set_death_signal("pdeath", TRUE, "wait_startup")

WaitStartup ==
    /\ Child("wait_startup")
    /\ lxc_sync_wait_parent(START_SYNC_STARTUP,
                            IF conf.userns THEN "userns" ELSE "configure")
    /\ UNCHANGED <<conf, ppc, mon, sock, pdeath, idx, net, lost>>

\* "set{g,u}id() clears deathsignal"
BecomeRoot ==
    /\ Child("userns")
    /\ \/ pdeath' = FALSE /\ cpc' = "userns_pdeath" /\ UNCHANGED <<sync, sock>>
       \/ ChildFails /\ pdeath' \in {pdeath, FALSE}
    /\ UNCHANGED <<conf, ppc, mon, idx, net, lost>>

\* Mutant: the signal that setuid() cleared is not set again.
ForgetDeathSignal ==
    /\ Child("userns_pdeath")
    /\ cpc' = "configure"
    /\ UNCHANGED <<conf, ppc, mon, sync, sock, pdeath, idx, net, lost>>

ResetDeathSignal == lxc_set_death_signal("userns_pdeath", TRUE, "configure")

WakeConfigure ==
    /\ Child("configure")
    /\ \/ lxc_sync_wake_parent(START_SYNC_CONFIGURE, "wait_post_configure")
          /\ UNCHANGED sock
       \/ ChildFails
    /\ UNCHANGED <<conf, ppc, mon, pdeath, idx, net, lost>>

\* Unsharing and the environment may fail before the wait.
WaitPostConfigure ==
    /\ Child("wait_post_configure")
    /\ \/ lxc_sync_wait_parent(START_SYNC_POST_CONFIGURE, "rootfs") /\ UNCHANGED sock
       \/ ChildFails
    /\ UNCHANGED <<conf, ppc, mon, pdeath, idx, net, lost>>

\* lxc_rootfs_prepare_child(), the rootfs, the host name, the keyring.
PrepareRootfsChild ==
    /\ Child("rootfs")
    /\ conf.rootfs => data # <<>>
    /\ data' = IF conf.rootfs THEN Tail(data) ELSE data
    /\ cpc' \in {"warn_father",
                 IF conf.rootfs /\ NumFds[Head(data)] > 1 THEN "warn_father" ELSE "names"}
    /\ UNCHANGED <<conf, ppc, mon, sync, ack, pdeath, idx, net, lost>>

\* lxc_network_recv_from_parent() and the network in the child.
RecvNamesFromParent ==
    /\ Child("names")
    /\ conf.newnet => data # <<>>
    /\ data' = IF conf.newnet THEN Tail(data) ELSE data
    /\ cpc' \in {"setup", "warn_father"}
    /\ UNCHANGED <<conf, ppc, mon, sync, ack, pdeath, idx, net, lost>>

\* The mounts of lxc_setup(); then START_SYNC_IDMAPPED_MOUNTS.
SetupMounts ==
    /\ Child("setup")
    /\ \/ lxc_sync_wake_parent(START_SYNC_IDMAPPED_MOUNTS, "mounts") /\ UNCHANGED sock
       \/ ChildFails
    /\ UNCHANGED <<conf, ppc, mon, pdeath, idx, net, lost>>

\* __lxc_idmapped_mounts_child(), one entry: sent to the monitor, skipped
\* because it is optional, or an error.
IdmapMountChild ==
    /\ Child("mounts") /\ mnt < conf.mounts
    /\ mnt' = mnt + 1
    /\ \/ data' = Append(data, "mount") /\ cpc' = "wait_ack"
       \/ cpc' \in {"mounts", "mounts_failed"} /\ UNCHANGED data
    /\ UNCHANGED <<conf, ppc, mon, sync, ack, pdeath, mnt_seq, sent, rcvd, net, lost>>

\* The monitor's answer carries the number of the mount it has idmapped;
\* the mount is attached, which may fail or be skipped in its turn.
RecvMountAck ==
    /\ Child("wait_ack")
    /\ ack # <<>>
    /\ ack' = Tail(ack)
    /\ \/ /\ Head(ack) = mnt_seq.child
          /\ mnt_seq' = [mnt_seq EXCEPT !.child = @ + 1]
          /\ cpc' \in {"mounts", "mounts_failed"}
       \/ Head(ack) # mnt_seq.child /\ cpc' = "mounts_failed" /\ UNCHANGED mnt_seq
    /\ UNCHANGED <<conf, ppc, mon, sync, data, pdeath, mnt, sent, rcvd, net, lost>>

\* Mutant: the final message is skipped after an error.
MountsDoneOnlyOnSuccess ==
    /\ \/ Child("mounts") /\ mnt = conf.mounts
          /\ data' = Append(data, "done") /\ cpc' = "limits" /\ UNCHANGED lost
       \/ Child("mounts_failed") /\ cpc' = "warn_father" /\ UNCHANGED <<data, lost>>
    /\ UNCHANGED <<conf, ppc, mon, sync, ack, pdeath, idx, net>>

\* lxc_idmapped_mounts_child(), its end: the monitor is told that no mount
\* follows, after an error too.
MountsDone ==
    /\ \/ Child("mounts") /\ mnt = conf.mounts
       \/ Child("mounts_failed")
    /\ \/ /\ data' = Append(data, "done")
          /\ cpc' = IF cpc = "mounts" THEN "limits" ELSE "warn_father"
          /\ UNCHANGED lost
       \/ lost' = TRUE /\ cpc' = "warn_father" /\ UNCHANGED data
    /\ UNCHANGED <<conf, ppc, mon, sync, ack, pdeath, idx, net>>

\* The rest of lxc_setup(), the LSM label, seccomp, the start hook; then the
\* first half of the barrier.
WakeCgroupLimits ==
    /\ Child("limits")
    /\ \/ lxc_sync_wake_parent(START_SYNC_CGROUP_LIMITS, "wait_fds") /\ UNCHANGED sock
       \/ ChildFails
    /\ UNCHANGED <<conf, ppc, mon, pdeath, idx, net, lost>>

WaitFds ==
    /\ Child("wait_fds")
    /\ lxc_sync_wait_parent(START_SYNC_CGROUP_LIMITS + 1, "send_fds")
    /\ UNCHANGED <<conf, ppc, mon, sock, pdeath, idx, net, lost>>

\* lxc_sync_fds_child(), one message at a time.  A message that cannot be
\* sent is an error, except for the devpts descriptor:
\* lxc_send_devpts_to_parent() returns 0 all the same.
SendFdsChild ==
    /\ Child("send_fds")
    /\ \/ /\ sent < Len(conf.fds)
          /\ \/ /\ data' = Append(data, conf.fds[sent + 1])
                /\ sent' = sent + 1
                /\ UNCHANGED <<cpc, lost>>
             \/ /\ lost' = TRUE
                /\ sent' = sent + 1
                /\ cpc' = IF conf.fds[sent + 1] = "devpts" THEN cpc ELSE "warn_father"
                /\ UNCHANGED data
       \/ /\ sent = Len(conf.fds) /\ cpc' = "wait_ready"
          /\ UNCHANGED <<data, sent, lost>>
    /\ UNCHANGED <<conf, ppc, mon, sync, ack, pdeath, mnt, mnt_seq, rcvd, net>>

WaitReadyStart ==
    /\ Child("wait_ready")
    /\ lxc_sync_wait_parent(START_SYNC_READY_START, "switch_ids")
    /\ UNCHANGED <<conf, ppc, mon, sock, pdeath, idx, net, lost>>

\* lxc_switch_uid_gid(new_uid, new_gid).  Only a configured signal other
\* than SIGKILL is set afterwards.
SwitchIds ==
    /\ Child("switch_ids")
    /\ \/ /\ pdeath' = (pdeath /\ ~conf.setuid)
          /\ cpc' = IF conf.pdeath THEN "exec" ELSE "conf_pdeath"
          /\ UNCHANGED <<sync, sock>>
       \/ ChildFails /\ pdeath' \in {pdeath, pdeath /\ ~conf.setuid}
    /\ UNCHANGED <<conf, ppc, mon, idx, net, lost>>

ConfDeathSignal == lxc_set_death_signal("conf_pdeath", FALSE, "exec")

\* handler->ops->start(): both sockets are close-on-exec.
Exec ==
    /\ Child("exec")
    /\ cpc' \in {"execed", "warn_father"}
    /\ UNCHANGED <<conf, ppc, mon, sync, sock, pdeath, idx, net, lost>>

\* out_warn_father
WarnFather ==
    /\ Child("warn_father")
    /\ lxc_sync_wake_parent(SYNC_ERROR, "exited")
    /\ UNCHANGED <<conf, ppc, mon, sock, pdeath, idx, net, lost>>

ChildStep ==
    \/ RecvStatusFd \/ SetDeathSignal \/ WaitStartup \/ BecomeRoot
    \/ ResetDeathSignal \/ WakeConfigure \/ WaitPostConfigure
    \/ PrepareRootfsChild \/ RecvNamesFromParent \/ SetupMounts
    \/ IdmapMountChild \/ RecvMountAck \/ MountsDone \/ WakeCgroupLimits
    \/ WaitFds \/ SendFdsChild \/ WaitReadyStart \/ SwitchIds
    \/ ConfDeathSignal \/ Exec \/ WarnFather

-----------------------------------------------------------------------------
(* Deaths.                                                                 *)

KillChild ==
    /\ cpc \in ChildPC
    /\ cpc' = "killed"
    /\ UNCHANGED <<conf, ppc, mon, sync, sock, pdeath, idx, net, lost>>

MonitorExits ==
    /\ mon = "alive" /\ mon' = "exiting"
    /\ UNCHANGED <<conf, ppc, cpc, sync, sock, pdeath, idx, net, lost>>

MonitorDead ==
    /\ mon = "exiting" /\ mon' = "dead"
    /\ cpc' = IF pdeath /\ cpc \in ChildPC \cup {"execed"} THEN "killed" ELSE cpc
    /\ UNCHANGED <<conf, ppc, sync, sock, pdeath, idx, net, lost>>

Next == ParentStep \/ ChildStep \/ KillChild \/ MonitorExits \/ MonitorDead

\* Both processes run; nobody has to kill them, but an exiting process
\* becomes a zombie.
Fairness == WF_vars(ParentStep) /\ WF_vars(ChildStep) /\ WF_vars(MonitorDead)

Spec == Init /\ [][Next]_vars /\ Fairness

-----------------------------------------------------------------------------
(* Properties.                                                             *)

ControlOK ==
    /\ conf \in Conf
    /\ ppc \in ParentPC \cup ParentEnd
    /\ cpc \in ChildPC \cup ChildEnd
    /\ mon \in {"alive", "exiting", "dead"}
    /\ pdeath \in BOOLEAN /\ net \in BOOLEAN /\ lost \in BOOLEAN
SocketsOK ==
    /\ toChild \in Seq(SyncMsg) /\ toParent \in Seq(SyncMsg)
    /\ data \in Seq(DataMsg) /\ ack \in Seq(Nat)
CountersOK ==
    /\ mnt \in Nat /\ mnt <= conf.mounts
    /\ mnt_seq \in [parent : Nat, child : Nat]
    /\ sent \in Nat /\ sent <= Len(conf.fds)
    /\ rcvd \in Nat /\ rcvd <= Len(conf.fds)
\* The variables keep their types, the counters their bounds.
TypeOK == ControlOK /\ SocketsOK /\ CountersOK

\* lxc_spawn() reports RUNNING only for a child that has executed the
\* container's init, or that was killed from outside on its way there:
\* a failure the child itself reports is never taken for a success, although
\* sync_wait() takes an end of file for one.
RunningMeansExecuted == ppc = "running" => cpc \in {"execed", "killed"}

\* As long as the monitor lives, the container's init is executed only after
\* the monitor has finished every part of the setup (cgroup limits, network,
\* device rules, descriptors) and has released it with START_SYNC_READY_START.
ExecAfterSetup ==
    mon = "alive" /\ cpc = "execed" =>
        ppc \in {"wait_exec", "announce", "abort", "running"}

\* Monitor and child share both ends of data_sock, and both send on end 0 and
\* receive on end 1.  While both live and no message was lost, the message
\* at the head is the one its receiver expects: never its own.
RightReceiver ==
    mon = "alive" /\ cpc \in ChildPC /\ ~lost /\ data # <<>> =>
        /\ cpc = "status" => Head(data) = "status"
        /\ cpc = "rootfs" /\ conf.rootfs => Head(data) = "rootfs"
        /\ cpc = "names" /\ conf.newnet => Head(data) = "names"
        /\ ppc = "idmapped" => Head(data) \in {"mount", "done"}
        /\ ppc = "recv_fds" => rcvd < sent /\ Head(data) = conf.fds[rcvd + 1]

\* With lxc.monitor.signal.pdeath at SIGKILL no container outlives its
\* monitor, whenever the monitor dies, unless its init changes its ids.
DiesWithMonitor ==
    mon = "dead" /\ cpc = "execed" => ~conf.pdeath \/ conf.setuid

\* lxc_spawn() returns, whatever fails on either side, unless the child is
\* killed from outside, a message on data_sock cannot be sent, or the monitor
\* itself dies.
SpawnReturns ==
    <>(ppc \in ParentEnd \/ cpc = "killed" \/ lost \/ mon # "alive")
=============================================================================
