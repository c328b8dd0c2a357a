----------------------------- MODULE SpawnProofs -----------------------------
(***************************************************************************)
(* Proofs about the start handshake, for every set of configurations.      *)
(*                                                                         *)
(* The argument: while both processes live and neither has failed, what is *)
(* in transit on sync_sock is a segment of a fixed script, delimited by    *)
(* how far its sender and its receiver have got (Script).  A process that  *)
(* leaves the script never writes another sequence number, so a failing    *)
(* monitor never releases the child (Failing), and the child's last word   *)
(* is SYNC_ERROR (ErrorPending).                                           *)
(*                                                                         *)
(* data_sock carries messages both ways between two processes that each    *)
(* hold both ends, so only the order of the handshake keeps one of them    *)
(* from reading its own message.  Carries says, for each place of the      *)
(* child and as far as the monitor has got, exactly which messages are on  *)
(* it; it is inductive once IInv holds.                                    *)
(***************************************************************************)
EXTENDS Spawn, TLAPS

\* The scripts of the two directions of sync_sock.
ChildScript == <<START_SYNC_CONFIGURE, START_SYNC_IDMAPPED_MOUNTS,
                 START_SYNC_CGROUP_LIMITS>>
ParentScript == <<START_SYNC_STARTUP, START_SYNC_POST_CONFIGURE,
                  START_SYNC_FDS, START_SYNC_READY_START>>

\* Elements a + 1 .. b of a script.
Seg(script, a, b) == [i \in 1 .. (b - a) |-> script[a + i]]

\* How many elements of the scripts each process has written and read.
ChildWrote ==
    CASE cpc \in {"wait_post_configure", "rootfs", "names", "setup"} -> 1
      [] cpc \in {"mounts", "wait_ack", "mounts_failed", "limits"} -> 2
      [] cpc \in {"wait_fds", "send_fds", "wait_ready", "switch_ids",
                  "conf_pdeath", "exec"} -> 3
      [] OTHER -> 0
ChildRead ==
    CASE cpc \in {"userns", "userns_pdeath", "configure", "wait_post_configure"} -> 1
      [] cpc \in {"rootfs", "names", "setup", "mounts", "wait_ack",
                  "mounts_failed", "limits", "wait_fds"} -> 2
      [] cpc \in {"send_fds", "wait_ready"} -> 3
      [] cpc \in {"switch_ids", "conf_pdeath", "exec"} -> 4
      [] OTHER -> 0
ParentWrote ==
    CASE ppc \in {"wait_configure", "network"} -> 1
      [] ppc \in {"rootfs", "names", "wait_idmapped", "idmapped",
                  "wait_limits", "limits"} -> 2
      [] ppc \in {"recv_fds", "ready"} -> 3
      [] ppc = "wait_exec" -> 4
      [] OTHER -> 0
ParentRead ==
    CASE ppc \in {"network", "rootfs", "names", "wait_idmapped"} -> 1
      [] ppc \in {"idmapped", "wait_limits"} -> 2
      [] ppc \in {"limits", "recv_fds", "ready", "wait_exec"} -> 3
      [] OTHER -> 0

OnScript == ParentPC \ {"clone", "announce", "delete_net", "abort"}
Released == {"switch_ids", "conf_pdeath", "exec"}
Signalled == (ChildPC \cup {"execed"})
                \ {"status", "pdeath", "userns_pdeath", "warn_father"}

Script ==
    mon = "alive" /\ cpc \in ChildPC \ {"warn_father"} /\ ppc \in OnScript =>
        /\ ParentRead <= ChildWrote /\ ChildRead <= ParentWrote
        /\ toParent = Seg(ChildScript, ParentRead, ChildWrote)
        /\ toChild = Seg(ParentScript, ChildRead, ParentWrote)

Failing ==
    mon = "alive" /\ cpc \in ChildPC \ {"warn_father"}
                  /\ ppc \in ParentPC \ OnScript =>
        /\ ppc \in {"delete_net", "abort"}
        /\ cpc \notin Released
        /\ \A i \in 1 .. Len(toChild) : toChild[i] # START_SYNC_READY_START

ErrorPending ==
    mon = "alive" /\ cpc = "exited" =>
        \/ ppc \in {"delete_net", "abort", "failed"}
        \/ toParent # <<>> /\ toParent[Len(toParent)] = SYNC_ERROR

Started ==
    /\ ppc = "clone" => cpc = "none" /\ toChild = <<>> /\ toParent = <<>>
    /\ cpc = "none" => ppc \in {"clone", "delete_net", "abort", "failed"}
    /\ cpc = "reaped" => ppc = "failed"
    /\ ppc = "failed" => cpc \in {"none", "reaped"}
    /\ ppc \in {"announce", "running"} => cpc \in {"execed", "killed"}
    /\ mon = "alive" /\ cpc = "execed" =>
        /\ ppc \in {"wait_exec", "announce", "abort", "running"}
        /\ ppc = "wait_exec" => toParent = <<>> /\ toChild = <<>>

DeathSignal ==
    /\ mon = "dead" /\ cpc \in ChildPC \cup {"execed"} => ~pdeath
    /\ cpc = "conf_pdeath" => ~conf.pdeath
    /\ cpc \in Signalled /\ conf.pdeath /\ ~conf.setuid => pdeath

IInv == TypeOK /\ Script /\ Failing /\ ErrorPending /\ Started /\ DeathSignal

-----------------------------------------------------------------------------
(* Types.                                                                  *)

(* Two facts on message queues: equal element by element is equal, and a   *)
(* queue without elements is the empty one.                                *)
LEMMA SequencesEqual ==
    ASSUME NEW S, NEW s \in Seq(S), NEW t \in Seq(S),
           Len(s) = Len(t), \A i \in 1 .. Len(s) : s[i] = t[i]
    PROVE  s = t
  OBVIOUS

(* A socket or pipe that holds no message is the empty queue.              *)
LEMMA NoElements ==
    ASSUME NEW S, NEW s \in Seq(S), Len(s) = 0
    PROVE  s = <<>>
  OBVIOUS

\* The fields of the configuration being started (handler->conf) have the types
\* ConfAssumption gives them.
LEMMA ConfFields ==
    ASSUME TypeOK
    PROVE /\ conf.newnet \in BOOLEAN /\ conf.userns \in BOOLEAN
          /\ conf.rootfs \in BOOLEAN /\ conf.setuid \in BOOLEAN
          /\ conf.pdeath \in BOOLEAN /\ conf.mounts \in Nat
          /\ conf.fds \in Seq(FdKind) /\ Len(conf.fds) \in Nat
BY ConfAssumption DEF TypeOK, ControlOK

\* Every sequence number of sync.h is a message of sync_sock.
LEMMA SyncMsgs ==
    /\ START_SYNC_STARTUP \in SyncMsg /\ START_SYNC_CONFIGURE \in SyncMsg
    /\ START_SYNC_POST_CONFIGURE \in SyncMsg
    /\ START_SYNC_IDMAPPED_MOUNTS \in SyncMsg
    /\ START_SYNC_CGROUP_LIMITS \in SyncMsg /\ START_SYNC_FDS \in SyncMsg
    /\ START_SYNC_READY_START \in SyncMsg /\ SYNC_ERROR \in SyncMsg
BY DEF SYNC_ERROR, START_SYNC_STARTUP, START_SYNC_CONFIGURE,
      START_SYNC_POST_CONFIGURE, START_SYNC_IDMAPPED_MOUNTS,
      START_SYNC_CGROUP_LIMITS, START_SYNC_FDS, START_SYNC_READY_START,
      SyncMsg

\* Everything the two processes send on data_sock is a message of data_sock.
LEMMA DataMsgs ==
    /\ FdKind \subseteq DataMsg
    /\ "status" \in DataMsg /\ "rootfs" \in DataMsg /\ "names" \in DataMsg
    /\ "mount" \in DataMsg /\ "done" \in DataMsg
BY ZenonT(60) DEF DataMsg, FdKind

\* Writing a message to a socket and reading one from it keep it a socket.
LEMMA Queues ==
    ASSUME NEW S, NEW q \in Seq(S)
    PROVE /\ \A m \in S : Append(q, m) \in Seq(S)
          /\ q # <<>> => Head(q) \in S /\ Tail(q) \in Seq(S)
OBVIOUS

\* The same for the four directions of the two socketpairs.
LEMMA SocketSteps ==
    ASSUME TypeOK
    PROVE /\ \A m \in SyncMsg : Append(toChild, m) \in Seq(SyncMsg)
          /\ \A m \in SyncMsg : Append(toParent, m) \in Seq(SyncMsg)
          /\ \A m \in DataMsg : Append(data, m) \in Seq(DataMsg)
          /\ \A m \in Nat : Append(ack, m) \in Seq(Nat)
          /\ toChild # <<>> => Tail(toChild) \in Seq(SyncMsg)
          /\ toParent # <<>> => Tail(toParent) \in Seq(SyncMsg)
          /\ data # <<>> => Tail(data) \in Seq(DataMsg)
          /\ ack # <<>> => Tail(ack) \in Seq(Nat)
BY ZenonT(60), Queues DEF TypeOK, SocketsOK

\* Every step of lxc_spawn() and do_start() leaves both processes at a place of
\* their functions, and the flags Boolean.
LEMMA ControlStep == TypeOK /\ [Next]_vars => ControlOK'
<1> SUFFICES ASSUME TypeOK, [Next]_vars PROVE ControlOK'
    OBVIOUS
<1> USE DEF Parent, ParentFails, ChildOpen, lxc_sync_wait_child,
        lxc_sync_wake_child, Child, ChildFails, ParentOpen,
        lxc_sync_wait_parent, lxc_sync_wake_parent, lxc_set_death_signal,
        TypeOK, ControlOK, vars, sync, sock, idx, ParentPC, ParentEnd,
        ChildPC, ChildEnd
<1>1. CASE CloneChild  BY <1>1, ConfFields DEF CloneChild
<1>2. CASE SendStatusFd  BY ZenonT(60), <1>2, ConfFields DEF SendStatusFd
<1>3. CASE WakeStartup  BY <1>3, ConfFields DEF WakeStartup
<1>4. CASE WaitConfigure  BY ZenonT(60), <1>4, ConfFields DEF WaitConfigure
<1>5. CASE CreateNetwork  BY ZenonT(60), <1>5, ConfFields DEF CreateNetwork
<1>6. CASE PrepareRootfsParent  BY ZenonT(60), <1>6, ConfFields DEF PrepareRootfsParent
<1>7. CASE SendNamesToChild  BY ZenonT(60), <1>7, ConfFields DEF SendNamesToChild
<1>8. CASE WaitIdmappedMounts  BY ZenonT(60), <1>8, ConfFields DEF WaitIdmappedMounts
<1>9. CASE IdmapMountParent  BY ZenonT(60), <1>9, ConfFields DEF IdmapMountParent
<1>10. CASE WaitCgroupLimits  BY ZenonT(60), <1>10, ConfFields DEF WaitCgroupLimits
<1>11. CASE SetupLimitsWakeFds  BY ZenonT(60), <1>11, ConfFields DEF SetupLimitsWakeFds
<1>12. CASE RecvFdsParent  BY <1>12, ConfFields DEF RecvFdsParent
<1>13. CASE WakeReadyStart  BY ZenonT(60), <1>13, ConfFields DEF WakeReadyStart
<1>14. CASE WaitExec  BY ZenonT(60), <1>14, ConfFields DEF WaitExec
<1>15. CASE AnnounceRunning  BY ZenonT(60), <1>15, ConfFields DEF AnnounceRunning
<1>16. CASE DeleteNet  BY ZenonT(60), <1>16, ConfFields DEF DeleteNet
<1>17. CASE lxc_abort  BY ZenonT(60), <1>17, ConfFields DEF lxc_abort
<1>18. CASE RecvStatusFd  BY ZenonT(60), <1>18, ConfFields DEF RecvStatusFd
<1>19. CASE SetDeathSignal  BY ZenonT(60), <1>19, ConfFields DEF SetDeathSignal
<1>20. CASE WaitStartup  BY <1>20, ConfFields DEF WaitStartup
<1>21. CASE BecomeRoot  BY ZenonT(60), <1>21, ConfFields DEF BecomeRoot
<1>22. CASE ResetDeathSignal  BY ZenonT(60), <1>22, ConfFields DEF ResetDeathSignal
<1>23. CASE WakeConfigure  BY <1>23, ConfFields DEF WakeConfigure
<1>24. CASE WaitPostConfigure  BY <1>24, ConfFields DEF WaitPostConfigure
<1>25. CASE PrepareRootfsChild  BY <1>25, ConfFields DEF PrepareRootfsChild
<1>26. CASE RecvNamesFromParent  BY <1>26, ConfFields DEF RecvNamesFromParent
<1>27. CASE SetupMounts  BY <1>27, ConfFields DEF SetupMounts
<1>28. CASE IdmapMountChild  BY <1>28, ConfFields DEF IdmapMountChild
<1>29. CASE RecvMountAck  BY <1>29, ConfFields DEF RecvMountAck
<1>30. CASE MountsDone  BY ZenonT(60), <1>30, ConfFields DEF MountsDone
<1>31. CASE WakeCgroupLimits  BY <1>31, ConfFields DEF WakeCgroupLimits
<1>32. CASE WaitFds  BY <1>32, ConfFields DEF WaitFds
<1>33. CASE SendFdsChild  BY ZenonT(60), <1>33, ConfFields DEF SendFdsChild
<1>34. CASE WaitReadyStart  BY <1>34, ConfFields DEF WaitReadyStart
<1>35. CASE SwitchIds
  <2>1. pdeath' \in BOOLEAN
    <3>1. pdeath' \in {pdeath, pdeath /\ ~conf.setuid}
        BY ZenonT(60), <1>35 DEF SwitchIds, ChildFails
    <3> QED
        BY ZenonT(60), <3>1, Zenon DEF TypeOK, ControlOK
  <2> QED
      BY <1>35, <2>1 DEF SwitchIds, Child, ChildFails, TypeOK, ControlOK, idx,
        ChildPC, ChildEnd
<1>36. CASE ConfDeathSignal  BY ZenonT(60), <1>36, ConfFields DEF ConfDeathSignal
<1>37. CASE Exec  BY <1>37, ConfFields DEF Exec
<1>38. CASE WarnFather  BY <1>38, ConfFields DEF WarnFather
<1>39. CASE KillChild  BY ZenonT(60), <1>39, ConfFields DEF KillChild
<1>40. CASE MonitorExits  BY <1>40, ConfFields DEF MonitorExits
<1>41. CASE MonitorDead  BY ZenonT(60), <1>41, ConfFields DEF MonitorDead
<1>42. CASE UNCHANGED vars  BY <1>42, ConfFields
<1> QED
    BY ZenonT(60), <1>1, <1>2, <1>3, <1>4, <1>5, <1>6, <1>7, <1>8, <1>9, <1>10,
      <1>11, <1>12, <1>13, <1>14, <1>15, <1>16, <1>17, <1>18, <1>19, <1>20,
      <1>21, <1>22, <1>23, <1>24, <1>25, <1>26, <1>27, <1>28, <1>29, <1>30,
      <1>31, <1>32, <1>33, <1>34, <1>35, <1>36, <1>37, <1>38, <1>39, <1>40,
      <1>41, <1>42 DEF Next, ParentStep, ChildStep

\* Every step leaves sequence numbers on sync_sock and data messages on data_sock.
LEMMA SocketsStep == TypeOK /\ [Next]_vars => SocketsOK'
<1> SUFFICES ASSUME TypeOK, [Next]_vars PROVE SocketsOK'
    OBVIOUS
<1> USE DEF Parent, ParentFails, ChildOpen, lxc_sync_wait_child,
        lxc_sync_wake_child, Child, ChildFails, ParentOpen,
        lxc_sync_wait_parent, lxc_sync_wake_parent, lxc_set_death_signal,
        TypeOK, SocketsOK, vars, sync, sock, idx
<1>1. CASE CloneChild
    BY ZenonT(60), <1>1, SocketSteps, SyncMsgs, DataMsgs DEF CloneChild
<1>2. CASE SendStatusFd
    BY ZenonT(60), <1>2, SocketSteps, SyncMsgs, DataMsgs DEF SendStatusFd
<1>3. CASE WakeStartup
    BY ZenonT(60), <1>3, SocketSteps, SyncMsgs, DataMsgs DEF WakeStartup
<1>4. CASE WaitConfigure
    BY ZenonT(60), <1>4, SocketSteps, SyncMsgs, DataMsgs DEF WaitConfigure
<1>5. CASE CreateNetwork
    BY ZenonT(60), <1>5, SocketSteps, SyncMsgs, DataMsgs DEF CreateNetwork
<1>6. CASE PrepareRootfsParent
    BY ZenonT(60), <1>6, SocketSteps, SyncMsgs, DataMsgs DEF PrepareRootfsParent
<1>7. CASE SendNamesToChild
    BY ZenonT(60), <1>7, SocketSteps, SyncMsgs, DataMsgs DEF SendNamesToChild
<1>8. CASE WaitIdmappedMounts
    BY ZenonT(60), <1>8, SocketSteps, SyncMsgs, DataMsgs DEF WaitIdmappedMounts
<1>9. CASE IdmapMountParent
  <2>1. mnt_seq.parent \in Nat
      BY ZenonT(60) DEF TypeOK, CountersOK
  <2> QED
      BY ZenonT(60), <1>9, <2>1, SocketSteps DEF IdmapMountParent, Parent, TypeOK,
        SocketsOK, sync
<1>10. CASE WaitCgroupLimits
    BY ZenonT(60), <1>10, SocketSteps, SyncMsgs, DataMsgs DEF WaitCgroupLimits
<1>11. CASE SetupLimitsWakeFds
    BY ZenonT(60), <1>11, SocketSteps, SyncMsgs, DataMsgs DEF SetupLimitsWakeFds
<1>12. CASE RecvFdsParent
    BY ZenonT(60), <1>12, SocketSteps, SyncMsgs, DataMsgs DEF RecvFdsParent
<1>13. CASE WakeReadyStart
    BY ZenonT(60), <1>13, SocketSteps, SyncMsgs, DataMsgs DEF WakeReadyStart
<1>14. CASE WaitExec  BY ZenonT(60), <1>14, SocketSteps, SyncMsgs, DataMsgs DEF WaitExec
<1>15. CASE AnnounceRunning
    BY ZenonT(60), <1>15, SocketSteps, SyncMsgs, DataMsgs DEF AnnounceRunning
<1>16. CASE DeleteNet
    BY ZenonT(60), <1>16, SocketSteps, SyncMsgs, DataMsgs DEF DeleteNet
<1>17. CASE lxc_abort
    BY ZenonT(60), <1>17, SocketSteps, SyncMsgs, DataMsgs DEF lxc_abort
<1>18. CASE RecvStatusFd
    BY ZenonT(60), <1>18, SocketSteps, SyncMsgs, DataMsgs DEF RecvStatusFd
<1>19. CASE SetDeathSignal
    BY ZenonT(60), <1>19, SocketSteps, SyncMsgs, DataMsgs DEF SetDeathSignal
<1>20. CASE WaitStartup
    BY ZenonT(60), <1>20, SocketSteps, SyncMsgs, DataMsgs DEF WaitStartup
<1>21. CASE BecomeRoot
    BY ZenonT(60), <1>21, SocketSteps, SyncMsgs, DataMsgs DEF BecomeRoot
<1>22. CASE ResetDeathSignal
    BY ZenonT(60), <1>22, SocketSteps, SyncMsgs, DataMsgs DEF ResetDeathSignal
<1>23. CASE WakeConfigure
    BY ZenonT(60), <1>23, SocketSteps, SyncMsgs, DataMsgs DEF WakeConfigure
<1>24. CASE WaitPostConfigure
    BY ZenonT(60), <1>24, SocketSteps, SyncMsgs, DataMsgs DEF WaitPostConfigure
<1>25. CASE PrepareRootfsChild
    BY ZenonT(60), <1>25, SocketSteps, SyncMsgs, DataMsgs DEF PrepareRootfsChild
<1>26. CASE RecvNamesFromParent
    BY ZenonT(60), <1>26, SocketSteps, SyncMsgs, DataMsgs DEF RecvNamesFromParent
<1>27. CASE SetupMounts
    BY ZenonT(60), <1>27, SocketSteps, SyncMsgs, DataMsgs DEF SetupMounts
<1>28. CASE IdmapMountChild
    BY ZenonT(60), <1>28, SocketSteps, SyncMsgs, DataMsgs DEF IdmapMountChild
<1>29. CASE RecvMountAck
    BY ZenonT(60), <1>29, SocketSteps, SyncMsgs, DataMsgs DEF RecvMountAck
<1>30. CASE MountsDone
    BY ZenonT(60), <1>30, SocketSteps, SyncMsgs, DataMsgs DEF MountsDone
<1>31. CASE WakeCgroupLimits
    BY ZenonT(60), <1>31, SocketSteps, SyncMsgs, DataMsgs DEF WakeCgroupLimits
<1>32. CASE WaitFds  BY ZenonT(60), <1>32, SocketSteps, SyncMsgs, DataMsgs DEF WaitFds
<1>33. CASE SendFdsChild
  <2>1. sent < Len(conf.fds) => conf.fds[sent + 1] \in DataMsg
      BY ConfFields, DataMsgs DEF TypeOK, CountersOK
  <2> QED
      BY ZenonT(60), <1>33, <2>1, SocketSteps DEF SendFdsChild, Child, TypeOK,
        SocketsOK, sync
<1>34. CASE WaitReadyStart
    BY ZenonT(60), <1>34, SocketSteps, SyncMsgs, DataMsgs DEF WaitReadyStart
<1>35. CASE SwitchIds
    BY ZenonT(60), <1>35, SocketSteps, SyncMsgs, DataMsgs DEF SwitchIds
<1>36. CASE ConfDeathSignal
    BY ZenonT(60), <1>36, SocketSteps, SyncMsgs, DataMsgs DEF ConfDeathSignal
<1>37. CASE Exec  BY ZenonT(60), <1>37, SocketSteps, SyncMsgs, DataMsgs DEF Exec
<1>38. CASE WarnFather
    BY ZenonT(60), <1>38, SocketSteps, SyncMsgs, DataMsgs DEF WarnFather
<1>39. CASE KillChild
    BY ZenonT(60), <1>39, SocketSteps, SyncMsgs, DataMsgs DEF KillChild
<1>40. CASE MonitorExits
    BY ZenonT(60), <1>40, SocketSteps, SyncMsgs, DataMsgs DEF MonitorExits
<1>41. CASE MonitorDead
    BY ZenonT(60), <1>41, SocketSteps, SyncMsgs, DataMsgs DEF MonitorDead
<1>42. CASE UNCHANGED vars  BY ZenonT(60), <1>42, SocketSteps, SyncMsgs, DataMsgs
<1> QED
    BY ZenonT(60), <1>1, <1>2, <1>3, <1>4, <1>5, <1>6, <1>7, <1>8, <1>9, <1>10,
      <1>11, <1>12, <1>13, <1>14, <1>15, <1>16, <1>17, <1>18, <1>19, <1>20,
      <1>21, <1>22, <1>23, <1>24, <1>25, <1>26, <1>27, <1>28, <1>29, <1>30,
      <1>31, <1>32, <1>33, <1>34, <1>35, <1>36, <1>37, <1>38, <1>39, <1>40,
      <1>41, <1>42 DEF Next, ParentStep, ChildStep

\* No step handles more mount entries, or sends or receives more descriptors,
\* than the configuration has (lxc_idmapped_mounts_child(), lxc_sync_fds_*()).
LEMMA CountersStep == TypeOK /\ [Next]_vars => CountersOK'
<1> SUFFICES ASSUME TypeOK, [Next]_vars PROVE CountersOK'
    OBVIOUS
<1> USE DEF Parent, ParentFails, ChildOpen, lxc_sync_wait_child,
        lxc_sync_wake_child, Child, ChildFails, ParentOpen,
        lxc_sync_wait_parent, lxc_sync_wake_parent, lxc_set_death_signal,
        TypeOK, ControlOK, CountersOK, vars, sync, sock, idx
<1>1. CASE CloneChild  BY ZenonT(60), <1>1, ConfFields DEF CloneChild
<1>2. CASE SendStatusFd  BY ZenonT(60), <1>2, ConfFields DEF SendStatusFd
<1>3. CASE WakeStartup  BY ZenonT(60), <1>3, ConfFields DEF WakeStartup
<1>4. CASE WaitConfigure  BY ZenonT(60), <1>4, ConfFields DEF WaitConfigure
<1>5. CASE CreateNetwork  BY ZenonT(60), <1>5, ConfFields DEF CreateNetwork
<1>6. CASE PrepareRootfsParent  BY ZenonT(60), <1>6, ConfFields DEF PrepareRootfsParent
<1>7. CASE SendNamesToChild  BY ZenonT(60), <1>7, ConfFields DEF SendNamesToChild
<1>8. CASE WaitIdmappedMounts  BY ZenonT(60), <1>8, ConfFields DEF WaitIdmappedMounts
<1>9. CASE IdmapMountParent  BY <1>9, ConfFields DEF IdmapMountParent
<1>10. CASE WaitCgroupLimits  BY ZenonT(60), <1>10, ConfFields DEF WaitCgroupLimits
<1>11. CASE SetupLimitsWakeFds  BY ZenonT(60), <1>11, ConfFields DEF SetupLimitsWakeFds
<1>12. CASE RecvFdsParent  BY <1>12, ConfFields DEF RecvFdsParent
<1>13. CASE WakeReadyStart  BY ZenonT(60), <1>13, ConfFields DEF WakeReadyStart
<1>14. CASE WaitExec  BY ZenonT(60), <1>14, ConfFields DEF WaitExec
<1>15. CASE AnnounceRunning  BY ZenonT(60), <1>15, ConfFields DEF AnnounceRunning
<1>16. CASE DeleteNet  BY ZenonT(60), <1>16, ConfFields DEF DeleteNet
<1>17. CASE lxc_abort  BY ZenonT(60), <1>17, ConfFields DEF lxc_abort
<1>18. CASE RecvStatusFd  BY ZenonT(60), <1>18, ConfFields DEF RecvStatusFd
<1>19. CASE SetDeathSignal  BY ZenonT(60), <1>19, ConfFields DEF SetDeathSignal
<1>20. CASE WaitStartup  BY ZenonT(60), <1>20, ConfFields DEF WaitStartup
<1>21. CASE BecomeRoot  BY ZenonT(60), <1>21, ConfFields DEF BecomeRoot
<1>22. CASE ResetDeathSignal  BY ZenonT(60), <1>22, ConfFields DEF ResetDeathSignal
<1>23. CASE WakeConfigure  BY ZenonT(60), <1>23, ConfFields DEF WakeConfigure
<1>24. CASE WaitPostConfigure  BY ZenonT(60), <1>24, ConfFields DEF WaitPostConfigure
<1>25. CASE PrepareRootfsChild  BY ZenonT(60), <1>25, ConfFields DEF PrepareRootfsChild
<1>26. CASE RecvNamesFromParent  BY ZenonT(60), <1>26, ConfFields DEF RecvNamesFromParent
<1>27. CASE SetupMounts  BY ZenonT(60), <1>27, ConfFields DEF SetupMounts
<1>28. CASE IdmapMountChild  BY <1>28, ConfFields DEF IdmapMountChild
<1>29. CASE RecvMountAck  BY <1>29, ConfFields DEF RecvMountAck
<1>30. CASE MountsDone  BY ZenonT(60), <1>30, ConfFields DEF MountsDone
<1>31. CASE WakeCgroupLimits  BY ZenonT(60), <1>31, ConfFields DEF WakeCgroupLimits
<1>32. CASE WaitFds  BY ZenonT(60), <1>32, ConfFields DEF WaitFds
<1>33. CASE SendFdsChild  BY SMTT(60), <1>33, ConfFields DEF SendFdsChild
<1>34. CASE WaitReadyStart  BY ZenonT(60), <1>34, ConfFields DEF WaitReadyStart
<1>35. CASE SwitchIds  BY ZenonT(60), <1>35, ConfFields DEF SwitchIds
<1>36. CASE ConfDeathSignal  BY ZenonT(60), <1>36, ConfFields DEF ConfDeathSignal
<1>37. CASE Exec  BY ZenonT(60), <1>37, ConfFields DEF Exec
<1>38. CASE WarnFather  BY ZenonT(60), <1>38, ConfFields DEF WarnFather
<1>39. CASE KillChild  BY ZenonT(60), <1>39, ConfFields DEF KillChild
<1>40. CASE MonitorExits  BY ZenonT(60), <1>40, ConfFields DEF MonitorExits
<1>41. CASE MonitorDead  BY ZenonT(60), <1>41, ConfFields DEF MonitorDead
<1>42. CASE UNCHANGED vars  BY ZenonT(60), <1>42, ConfFields
<1> QED
    BY ZenonT(60), <1>1, <1>2, <1>3, <1>4, <1>5, <1>6, <1>7, <1>8, <1>9, <1>10,
      <1>11, <1>12, <1>13, <1>14, <1>15, <1>16, <1>17, <1>18, <1>19, <1>20,
      <1>21, <1>22, <1>23, <1>24, <1>25, <1>26, <1>27, <1>28, <1>29, <1>30,
      <1>31, <1>32, <1>33, <1>34, <1>35, <1>36, <1>37, <1>38, <1>39, <1>40,
      <1>41, <1>42 DEF Next, ParentStep, ChildStep

-----------------------------------------------------------------------------
(* The death signal.                                                       *)

\* The parent death signal of do_start(): a child that survived the monitor has
\* none, and past the user namespace it is set unless lxc.init.uid changes ids.
LEMMA DeathSignalStep == IInv /\ [Next]_vars => DeathSignal'
<1> SUFFICES ASSUME IInv, [Next]_vars PROVE DeathSignal'
    OBVIOUS
<1> USE DEF Parent, ParentFails, ChildOpen, lxc_sync_wait_child,
        lxc_sync_wake_child, Child, ChildFails, ParentOpen,
        lxc_sync_wait_parent, lxc_sync_wake_parent, lxc_set_death_signal,
        IInv, TypeOK, ControlOK, DeathSignal, Signalled, vars, sync, sock,
        idx, ChildPC, ChildEnd
<1>1. CASE CloneChild  BY ZenonT(60), <1>1, ConfFields DEF CloneChild
<1>2. CASE SendStatusFd  BY ZenonT(60), <1>2, ConfFields DEF SendStatusFd
<1>3. CASE WakeStartup  BY ZenonT(60), <1>3, ConfFields DEF WakeStartup
<1>4. CASE WaitConfigure  BY ZenonT(60), <1>4, ConfFields DEF WaitConfigure
<1>5. CASE CreateNetwork  BY ZenonT(60), <1>5, ConfFields DEF CreateNetwork
<1>6. CASE PrepareRootfsParent  BY ZenonT(60), <1>6, ConfFields DEF PrepareRootfsParent
<1>7. CASE SendNamesToChild  BY ZenonT(60), <1>7, ConfFields DEF SendNamesToChild
<1>8. CASE WaitIdmappedMounts  BY ZenonT(60), <1>8, ConfFields DEF WaitIdmappedMounts
<1>9. CASE IdmapMountParent  BY ZenonT(60), <1>9, ConfFields DEF IdmapMountParent
<1>10. CASE WaitCgroupLimits  BY ZenonT(60), <1>10, ConfFields DEF WaitCgroupLimits
<1>11. CASE SetupLimitsWakeFds  BY ZenonT(60), <1>11, ConfFields DEF SetupLimitsWakeFds
<1>12. CASE RecvFdsParent  BY ZenonT(60), <1>12, ConfFields DEF RecvFdsParent
<1>13. CASE WakeReadyStart  BY ZenonT(60), <1>13, ConfFields DEF WakeReadyStart
<1>14. CASE WaitExec  BY ZenonT(60), <1>14, ConfFields DEF WaitExec
<1>15. CASE AnnounceRunning  BY ZenonT(60), <1>15, ConfFields DEF AnnounceRunning
<1>16. CASE DeleteNet  BY ZenonT(60), <1>16, ConfFields DEF DeleteNet
<1>17. CASE lxc_abort  BY ZenonT(60), <1>17, ConfFields DEF lxc_abort
<1>18. CASE RecvStatusFd  BY ZenonT(60), <1>18, ConfFields DEF RecvStatusFd
<1>19. CASE SetDeathSignal  BY ZenonT(60), <1>19, ConfFields DEF SetDeathSignal
<1>20. CASE WaitStartup  BY ZenonT(60), <1>20, ConfFields DEF WaitStartup
<1>21. CASE BecomeRoot
  <2>1. mon' = mon /\ conf' = conf /\ cpc = "userns"
        /\ cpc' \in {"userns_pdeath", "warn_father"} /\ (pdeath' = pdeath \/ ~pdeath')
      BY ZenonT(60), <1>21 DEF BecomeRoot, Child, ChildFails
  <2>2. mon = "dead" => ~pdeath
      BY ZenonT(60), <2>1 DEF IInv, DeathSignal, ChildPC
  <2> QED
      BY <2>1, <2>2 DEF DeathSignal, Signalled, ChildPC
<1>22. CASE ResetDeathSignal  BY ZenonT(60), <1>22, ConfFields DEF ResetDeathSignal
<1>23. CASE WakeConfigure  BY ZenonT(60), <1>23, ConfFields DEF WakeConfigure
<1>24. CASE WaitPostConfigure  BY ZenonT(60), <1>24, ConfFields DEF WaitPostConfigure
<1>25. CASE PrepareRootfsChild  BY ZenonT(60), <1>25, ConfFields DEF PrepareRootfsChild
<1>26. CASE RecvNamesFromParent  BY ZenonT(60), <1>26, ConfFields DEF RecvNamesFromParent
<1>27. CASE SetupMounts  BY ZenonT(60), <1>27, ConfFields DEF SetupMounts
<1>28. CASE IdmapMountChild  BY ZenonT(60), <1>28, ConfFields DEF IdmapMountChild
<1>29. CASE RecvMountAck  BY ZenonT(60), <1>29, ConfFields DEF RecvMountAck
<1>30. CASE MountsDone  BY ZenonT(60), <1>30, ConfFields DEF MountsDone
<1>31. CASE WakeCgroupLimits  BY ZenonT(60), <1>31, ConfFields DEF WakeCgroupLimits
<1>32. CASE WaitFds  BY ZenonT(60), <1>32, ConfFields DEF WaitFds
<1>33. CASE SendFdsChild  BY ZenonT(60), <1>33, ConfFields DEF SendFdsChild
<1>34. CASE WaitReadyStart  BY ZenonT(60), <1>34, ConfFields DEF WaitReadyStart
<1>35. CASE SwitchIds  BY ZenonT(60), <1>35, ConfFields DEF SwitchIds
<1>36. CASE ConfDeathSignal  BY ZenonT(60), <1>36, ConfFields DEF ConfDeathSignal
<1>37. CASE Exec  BY ZenonT(60), <1>37, ConfFields DEF Exec
<1>38. CASE WarnFather  BY ZenonT(60), <1>38, ConfFields DEF WarnFather
<1>39. CASE KillChild  BY ZenonT(60), <1>39, ConfFields DEF KillChild
<1>40. CASE MonitorExits  BY ZenonT(60), <1>40, ConfFields DEF MonitorExits
<1>41. CASE MonitorDead  BY ZenonT(60), <1>41, ConfFields DEF MonitorDead
<1>42. CASE UNCHANGED vars  BY ZenonT(60), <1>42, ConfFields
<1> QED
    BY ZenonT(60), <1>1, <1>2, <1>3, <1>4, <1>5, <1>6, <1>7, <1>8, <1>9, <1>10,
      <1>11, <1>12, <1>13, <1>14, <1>15, <1>16, <1>17, <1>18, <1>19, <1>20,
      <1>21, <1>22, <1>23, <1>24, <1>25, <1>26, <1>27, <1>28, <1>29, <1>30,
      <1>31, <1>32, <1>33, <1>34, <1>35, <1>36, <1>37, <1>38, <1>39, <1>40,
      <1>41, <1>42 DEF Next, ParentStep, ChildStep

-----------------------------------------------------------------------------
(* What the script says about the sockets.                                 *)

\* What reading the first message of a socket leaves behind.
LEMMA TailElements ==
    ASSUME NEW S, NEW q \in Seq(S), q # <<>>
    PROVE /\ Len(q) \in Nat /\ Len(q) >= 1 /\ Head(q) = q[1]
          /\ Len(Tail(q)) = Len(q) - 1
          /\ \A i \in 1 .. Len(q) - 1 : Tail(q)[i] = q[i + 1]
OBVIOUS

\* Segments of a script: reading takes the first element off, writing the next
\* element of the script extends the segment.
LEMMA Segments ==
    ASSUME NEW script \in Seq(Int), NEW a \in Nat, NEW b \in Nat,
           a <= b, b <= Len(script)
    PROVE /\ Seg(script, a, b) \in Seq(Int)
          /\ Len(Seg(script, a, b)) = b - a
          /\ \A i \in 1 .. b - a : Seg(script, a, b)[i] = script[a + i]
          /\ a = b => Seg(script, a, b) = <<>>
          /\ a < b => /\ Seg(script, a, b) # <<>>
                      /\ Head(Seg(script, a, b)) = script[a + 1]
                      /\ Tail(Seg(script, a, b)) = Seg(script, a + 1, b)
          /\ b < Len(script) =>
                Append(Seg(script, a, b), script[b + 1]) = Seg(script, a, b + 1)
<1>1. Len(script) \in Nat
    OBVIOUS
<1>2. \A i \in 1 .. b - a : a + i \in 1 .. Len(script)
    BY <1>1
<1>3. \A i \in 1 .. b - a : script[a + i] \in Int
    BY <1>2
<1>4. Seg(script, a, b) \in Seq(Int) /\ Len(Seg(script, a, b)) = b - a
    BY <1>3 DEF Seg
<1>5. \A i \in 1 .. b - a : Seg(script, a, b)[i] = script[a + i]
    BY ZenonT(60) DEF Seg
<1>6. a = b => Seg(script, a, b) = <<>>
    BY <1>4
<1>7. a < b => /\ Seg(script, a, b) # <<>>
              /\ Head(Seg(script, a, b)) = script[a + 1]
    BY <1>4, <1>5
<1>8. ASSUME a < b PROVE Tail(Seg(script, a, b)) = Seg(script, a + 1, b)
  <2>1. Len(Tail(Seg(script, a, b))) = b - (a + 1)
        /\ Tail(Seg(script, a, b)) \in Seq(Int)
      BY <1>4, <1>7, <1>8
  <2>2. /\ Seg(script, a + 1, b) \in Seq(Int)
        /\ Len(Seg(script, a + 1, b)) = b - (a + 1)
    <3>1. \A i \in 1 .. b - (a + 1) : script[a + 1 + i] \in Int
        BY <1>1, <1>8
    <3> QED
        BY <3>1, <1>8 DEF Seg
  <2>3. \A i \in 1 .. b - (a + 1) :
            Tail(Seg(script, a, b))[i] = Seg(script, a + 1, b)[i]
    <3> TAKE i \in 1 .. b - (a + 1)
    <3>1. Tail(Seg(script, a, b))[i] = Seg(script, a, b)[i + 1]
        BY <1>4, <1>7, <1>8, TailElements
    <3>2. Seg(script, a, b)[i + 1] = script[a + (i + 1)]
        BY <1>5
    <3>3. Seg(script, a + 1, b)[i] = script[(a + 1) + i]
        BY ZenonT(60) DEF Seg
    <3>4. a + (i + 1) = (a + 1) + i
        OBVIOUS
    <3> QED
        BY ZenonT(60), <3>1, <3>2, <3>3, <3>4
  <2> QED
      BY ZenonT(60), <2>1, <2>2, <2>3, SequencesEqual
<1>9. ASSUME b < Len(script)
      PROVE Append(Seg(script, a, b), script[b + 1]) = Seg(script, a, b + 1)
  <2>1. script[b + 1] \in Int
      BY <1>1, <1>9
  <2>2. /\ Append(Seg(script, a, b), script[b + 1]) \in Seq(Int)
        /\ Len(Append(Seg(script, a, b), script[b + 1])) = b + 1 - a
      BY <1>4, <2>1
  <2>3. /\ Seg(script, a, b + 1) \in Seq(Int)
        /\ Len(Seg(script, a, b + 1)) = b + 1 - a
    <3>1. \A i \in 1 .. b + 1 - a : script[a + i] \in Int
        BY <1>1, <1>9
    <3> QED
        BY <3>1 DEF Seg
  <2>4. \A i \in 1 .. b + 1 - a :
            Append(Seg(script, a, b), script[b + 1])[i] = Seg(script, a, b + 1)[i]
    <3> TAKE i \in 1 .. b + 1 - a
    <3>1. Seg(script, a, b + 1)[i] = script[a + i]
        BY DEF Seg
    <3>2. CASE i \in 1 .. b - a
        BY <1>4, <1>5, <2>1, <3>1, <3>2
    <3>3. CASE i = b + 1 - a
      <4>1. a + i = b + 1
          BY <3>3
      <4>2. Append(Seg(script, a, b), script[b + 1])[i] = script[b + 1]
          BY <1>4, <2>1, <3>3
      <4> QED
          BY ZenonT(60), <3>1, <4>1, <4>2
    <3>4. i \in 1 .. b - a \/ i = b + 1 - a
        OBVIOUS
    <3> QED
        BY ZenonT(60), <3>2, <3>3, <3>4
  <2> QED
      BY ZenonT(60), <2>2, <2>3, <2>4, SequencesEqual
<1> QED
    BY ZenonT(60), <1>4, <1>5, <1>6, <1>7, <1>8, <1>9

\* The sequence numbers each side writes on sync_sock, in the order of sync.h.
LEMMA Scripts ==
    /\ ChildScript \in Seq(Int) /\ Len(ChildScript) = 3
    /\ ChildScript[1] = START_SYNC_CONFIGURE
    /\ ChildScript[2] = START_SYNC_IDMAPPED_MOUNTS
    /\ ChildScript[3] = START_SYNC_CGROUP_LIMITS
    /\ ParentScript \in Seq(Int) /\ Len(ParentScript) = 4
    /\ ParentScript[1] = START_SYNC_STARTUP
    /\ ParentScript[2] = START_SYNC_POST_CONFIGURE
    /\ ParentScript[3] = START_SYNC_FDS
    /\ ParentScript[4] = START_SYNC_READY_START
BY DEF ChildScript, ParentScript, SYNC_ERROR, START_SYNC_STARTUP,
      START_SYNC_CONFIGURE, START_SYNC_POST_CONFIGURE,
      START_SYNC_IDMAPPED_MOUNTS, START_SYNC_CGROUP_LIMITS, START_SYNC_FDS,
      START_SYNC_READY_START

\* How far a process can have got in the scripts.
LEMMA Progress ==
    /\ ChildWrote \in 0 .. 3 /\ ChildRead \in 0 .. 4
    /\ ParentWrote \in 0 .. 4 /\ ParentRead \in 0 .. 3
BY DEF ChildWrote, ChildRead, ParentWrote, ParentRead

\* While both processes live and follow the protocol, sync_sock holds what was
\* written and not yet read, and a wait or a wake moves one step of the script.
LEMMA InTransit ==
    ASSUME IInv, mon = "alive", cpc \in ChildPC \ {"warn_father"}, ppc \in OnScript
    PROVE /\ ParentRead <= ChildWrote /\ ChildRead <= ParentWrote
          /\ toParent = Seg(ChildScript, ParentRead, ChildWrote)
          /\ toChild = Seg(ParentScript, ChildRead, ParentWrote)
          /\ Len(toChild) = ParentWrote - ChildRead
          /\ \A i \in 1 .. Len(toChild) : toChild[i] = ParentScript[ChildRead + i]
          /\ ParentRead = ChildWrote => toParent = <<>>
          /\ ChildRead = ParentWrote => toChild = <<>>
          /\ ParentRead < ChildWrote =>
                /\ toParent # <<>> /\ Head(toParent) = ChildScript[ParentRead + 1]
                /\ Tail(toParent) = Seg(ChildScript, ParentRead + 1, ChildWrote)
          /\ ChildRead < ParentWrote =>
                /\ toChild # <<>> /\ Head(toChild) = ParentScript[ChildRead + 1]
                /\ Tail(toChild) = Seg(ParentScript, ChildRead + 1, ParentWrote)
          /\ ChildWrote < 3 => Append(toParent, ChildScript[ChildWrote + 1])
                                 = Seg(ChildScript, ParentRead, ChildWrote + 1)
          /\ ParentWrote < 4 => Append(toChild, ParentScript[ParentWrote + 1])
                                 = Seg(ParentScript, ChildRead, ParentWrote + 1)
<1>1. /\ ParentRead <= ChildWrote /\ ChildRead <= ParentWrote
      /\ toParent = Seg(ChildScript, ParentRead, ChildWrote)
      /\ toChild = Seg(ParentScript, ChildRead, ParentWrote)
    BY ZenonT(60) DEF IInv, Script
<1>2. PICK pr \in Nat, cw \in Nat, cr \in Nat, pw \in Nat :
          /\ pr = ParentRead /\ cw = ChildWrote /\ cr = ChildRead /\ pw = ParentWrote
    BY Progress
<1>3. cw <= 3 /\ pw <= 4 /\ pr <= cw /\ cr <= pw
    BY <1>1, <1>2, Progress
<1>4. /\ Len(Seg(ParentScript, cr, pw)) = pw - cr
      /\ \A i \in 1 .. pw - cr : Seg(ParentScript, cr, pw)[i] = ParentScript[cr + i]
      /\ cr = pw => Seg(ParentScript, cr, pw) = <<>>
      /\ cr < pw => /\ Seg(ParentScript, cr, pw) # <<>>
                    /\ Head(Seg(ParentScript, cr, pw)) = ParentScript[cr + 1]
                    /\ Tail(Seg(ParentScript, cr, pw)) = Seg(ParentScript, cr + 1, pw)
      /\ pw < 4 => Append(Seg(ParentScript, cr, pw), ParentScript[pw + 1])
                     = Seg(ParentScript, cr, pw + 1)
  <2>1. pw <= Len(ParentScript) /\ ParentScript \in Seq(Int) /\ cr <= pw
      BY ZenonT(60), <1>3, Scripts
  <2>2. /\ Len(Seg(ParentScript, cr, pw)) = pw - cr
        /\ \A i \in 1 .. pw - cr :
              Seg(ParentScript, cr, pw)[i] = ParentScript[cr + i]
      BY ZenonT(60), <2>1, Segments
  <2>3. pw < Len(ParentScript) => Append(Seg(ParentScript, cr, pw), ParentScript[pw + 1])
                     = Seg(ParentScript, cr, pw + 1)
      BY <2>1, Segments
  <2>4. /\ cr = pw => Seg(ParentScript, cr, pw) = <<>>
        /\ cr < pw =>
              /\ Seg(ParentScript, cr, pw) # <<>>
              /\ Head(Seg(ParentScript, cr, pw)) = ParentScript[cr + 1]
              /\ Tail(Seg(ParentScript, cr, pw)) = Seg(ParentScript, cr + 1, pw)
      BY ZenonT(60), <2>1, Segments
  <2>5. Len(ParentScript) = 4
      BY ZenonT(60), Scripts
  <2> QED
      BY ZenonT(60), <2>2, <2>3, <2>4, <2>5
<1>5. /\ pr = cw => Seg(ChildScript, pr, cw) = <<>>
      /\ pr < cw => /\ Seg(ChildScript, pr, cw) # <<>>
                    /\ Head(Seg(ChildScript, pr, cw)) = ChildScript[pr + 1]
                    /\ Tail(Seg(ChildScript, pr, cw)) = Seg(ChildScript, pr + 1, cw)
      /\ cw < 3 => Append(Seg(ChildScript, pr, cw), ChildScript[cw + 1])
                     = Seg(ChildScript, pr, cw + 1)
  <2>1. cw <= Len(ChildScript) /\ ChildScript \in Seq(Int) /\ pr <= cw
      BY ZenonT(60), <1>3, Scripts
  <2>2. cw < Len(ChildScript) => Append(Seg(ChildScript, pr, cw), ChildScript[cw + 1])
                     = Seg(ChildScript, pr, cw + 1)
      BY <2>1, Segments
  <2>3. /\ pr = cw => Seg(ChildScript, pr, cw) = <<>>
        /\ pr < cw =>
              /\ Seg(ChildScript, pr, cw) # <<>>
              /\ Head(Seg(ChildScript, pr, cw)) = ChildScript[pr + 1]
              /\ Tail(Seg(ChildScript, pr, cw)) = Seg(ChildScript, pr + 1, cw)
      BY ZenonT(60), <2>1, Segments
  <2>4. Len(ChildScript) = 3
      BY ZenonT(60), Scripts
  <2> QED
      BY ZenonT(60), <2>2, <2>3, <2>4
<1> QED
    BY ZenonT(60), <1>1, <1>2, <1>4, <1>5

\* Before lxc_spawn() has reached its last barrier the child has not been
\* released, nor is START_SYNC_READY_START on its way to it.
LEMMA NotReleased ==
    ASSUME IInv, mon = "alive", cpc \in ChildPC \ {"warn_father"},
           ppc \in OnScript \ {"wait_exec"}
    PROVE /\ cpc \notin Released
          /\ \A i \in 1 .. Len(toChild) : toChild[i] # START_SYNC_READY_START
<1>1. ParentWrote <= 3
    BY DEF OnScript, ParentPC, ParentWrote
<1>2. ChildRead <= 3
    BY <1>1, InTransit, Progress
<1>3. cpc \notin Released
    BY <1>2 DEF ChildRead, Released
<1>4. ASSUME NEW i \in 1 .. Len(toChild)
      PROVE toChild[i] # START_SYNC_READY_START
  <2>1. PICK cr \in Nat, pw \in Nat : cr = ChildRead /\ pw = ParentWrote
      BY Progress
  <2>2. i \in 1 .. pw - cr /\ toChild[i] = ParentScript[cr + i]
      BY ZenonT(60), <1>4, <2>1, InTransit
  <2>3. pw <= 3
      BY ZenonT(60), <1>1, <2>1
  <2>4. cr + i \in 1 .. 3
      BY <2>2, <2>3
  <2> QED
      BY <2>2, <2>4, Scripts DEF START_SYNC_STARTUP,
        START_SYNC_POST_CONFIGURE, START_SYNC_FDS, START_SYNC_READY_START
<1> QED
    BY ZenonT(60), <1>3, <1>4

\* At the last barrier nothing is left to read for the monitor, and a child past
\* START_SYNC_READY_START has a monitor that waits for it to exec.
LEMMA Quiet ==
    ASSUME IInv, mon = "alive"
    PROVE /\ cpc \in ChildPC \ {"warn_father"} /\ ppc = "wait_exec" => toParent = <<>>
          /\ cpc \in Released => /\ ppc = "wait_exec"
                                /\ toParent = <<>> /\ toChild = <<>>
<1>1. ASSUME cpc \in ChildPC \ {"warn_father"}, ppc = "wait_exec"
      PROVE toParent = <<>>
  <2>1. ppc \in OnScript /\ ParentRead = 3
      BY ZenonT(60), <1>1 DEF OnScript, ParentPC, ParentRead
  <2> QED
      BY <1>1, <2>1, InTransit, Progress
<1>2. ASSUME cpc \in Released
      PROVE ppc = "wait_exec" /\ toParent = <<>> /\ toChild = <<>>
  <2>1. cpc \in ChildPC \ {"warn_father"} /\ ChildRead = 4
      BY ZenonT(60), <1>2 DEF Released, ChildPC, ChildRead
  <2>2. ppc \in OnScript
      BY ZenonT(60), <1>2, <2>1 DEF IInv, TypeOK, ControlOK, Failing, Started, ParentEnd,
        Released, ChildPC, OnScript, ParentPC
  <2>3. ppc = "wait_exec"
      BY ZenonT(60), <1>2, <2>1, <2>2, NotReleased
  <2>4. toChild = <<>>
      BY <2>1, <2>2, InTransit, Progress
  <2> QED
      BY ZenonT(60), <1>1, <2>1, <2>3, <2>4
<1> QED
    BY ZenonT(60), <1>1, <1>2

-----------------------------------------------------------------------------
(* The parts of the inductive invariant.                                   *)

\* lxc_spawn() gets past the last barrier only for a child that executed or was
\* killed, because a failing child leaves SYNC_ERROR before its end of file.
LEMMA StartedStep == IInv /\ [Next]_vars => Started'
<1> SUFFICES ASSUME IInv, [Next]_vars PROVE Started'
    OBVIOUS
<1> USE DEF Parent, ParentFails, ChildOpen, lxc_sync_wait_child,
        lxc_sync_wake_child, Child, ChildFails, ParentOpen,
        lxc_sync_wait_parent, lxc_sync_wake_parent, lxc_set_death_signal,
        IInv, TypeOK, ControlOK, Started, ErrorPending, vars, sync, sock,
        idx, ParentPC, ParentEnd, ChildPC, ChildEnd
<1>1. CASE CloneChild  BY ZenonT(60), <1>1 DEF CloneChild
<1>2. CASE SendStatusFd  BY ZenonT(60), <1>2 DEF SendStatusFd
<1>3. CASE WakeStartup  BY ZenonT(60), <1>3 DEF WakeStartup
<1>4. CASE WaitConfigure  BY ZenonT(60), <1>4 DEF WaitConfigure
<1>5. CASE CreateNetwork  BY ZenonT(60), <1>5 DEF CreateNetwork
<1>6. CASE PrepareRootfsParent  BY ZenonT(60), <1>6 DEF PrepareRootfsParent
<1>7. CASE SendNamesToChild  BY ZenonT(60), <1>7 DEF SendNamesToChild
<1>8. CASE WaitIdmappedMounts  BY ZenonT(60), <1>8 DEF WaitIdmappedMounts
<1>9. CASE IdmapMountParent  BY ZenonT(60), <1>9 DEF IdmapMountParent
<1>10. CASE WaitCgroupLimits  BY ZenonT(60), <1>10 DEF WaitCgroupLimits
<1>11. CASE SetupLimitsWakeFds  BY ZenonT(60), <1>11 DEF SetupLimitsWakeFds
<1>12. CASE RecvFdsParent  BY ZenonT(60), <1>12 DEF RecvFdsParent
<1>13. CASE WakeReadyStart  BY ZenonT(60), <1>13 DEF WakeReadyStart
<1>14. CASE WaitExec
  <2>1. ppc' = "announce" => toParent = <<>> /\ ~ChildOpen
    <3>1. toParent # <<>> => Head(toParent) # START_SYNC_READY_START + 1
      <4>1. toParent # <<>> => Head(toParent) \in SyncMsg
          BY ZenonT(60), Queues DEF IInv, TypeOK, SocketsOK
      <4> QED
          BY <4>1 DEF SyncMsg, SYNC_ERROR, START_SYNC_READY_START
    <3> QED
        BY ZenonT(60), <1>14, <3>1 DEF WaitExec, lxc_sync_wait_child
  <2>2. /\ ppc = "wait_exec" /\ mon = "alive" /\ mon' = mon /\ cpc' = cpc
        /\ ppc' \in {"announce", "delete_net"}
        /\ toParent = <<>> /\ toChild = <<>> => ppc' = "announce"
      BY ZenonT(60), <1>14 DEF WaitExec, Parent, lxc_sync_wait_child
  <2>3. ppc' = "announce" => cpc \in {"execed", "killed"}
      BY ZenonT(60), <2>1, <2>2 DEF IInv, TypeOK, ControlOK, Started, ErrorPending,
        ChildOpen, ChildEnd
  <2> QED
      BY ZenonT(60), <2>2, <2>3 DEF IInv, Started
<1>15. CASE AnnounceRunning  BY ZenonT(60), <1>15 DEF AnnounceRunning
<1>16. CASE DeleteNet  BY ZenonT(60), <1>16 DEF DeleteNet
<1>17. CASE lxc_abort  BY ZenonT(60), <1>17 DEF lxc_abort
<1>18. CASE RecvStatusFd  BY ZenonT(60), <1>18 DEF RecvStatusFd
<1>19. CASE SetDeathSignal  BY ZenonT(60), <1>19 DEF SetDeathSignal
<1>20. CASE WaitStartup  BY ZenonT(60), <1>20 DEF WaitStartup
<1>21. CASE BecomeRoot  BY ZenonT(60), <1>21 DEF BecomeRoot
<1>22. CASE ResetDeathSignal  BY ZenonT(60), <1>22 DEF ResetDeathSignal
<1>23. CASE WakeConfigure  BY ZenonT(60), <1>23 DEF WakeConfigure
<1>24. CASE WaitPostConfigure  BY ZenonT(60), <1>24 DEF WaitPostConfigure
<1>25. CASE PrepareRootfsChild  BY ZenonT(60), <1>25 DEF PrepareRootfsChild
<1>26. CASE RecvNamesFromParent  BY ZenonT(60), <1>26 DEF RecvNamesFromParent
<1>27. CASE SetupMounts  BY ZenonT(60), <1>27 DEF SetupMounts
<1>28. CASE IdmapMountChild  BY ZenonT(60), <1>28 DEF IdmapMountChild
<1>29. CASE RecvMountAck  BY ZenonT(60), <1>29 DEF RecvMountAck
<1>30. CASE MountsDone  BY ZenonT(60), <1>30 DEF MountsDone
<1>31. CASE WakeCgroupLimits  BY ZenonT(60), <1>31 DEF WakeCgroupLimits
<1>32. CASE WaitFds  BY ZenonT(60), <1>32 DEF WaitFds
<1>33. CASE SendFdsChild  BY ZenonT(60), <1>33 DEF SendFdsChild
<1>34. CASE WaitReadyStart  BY ZenonT(60), <1>34 DEF WaitReadyStart
<1>35. CASE SwitchIds  BY ZenonT(60), <1>35 DEF SwitchIds
<1>36. CASE ConfDeathSignal  BY ZenonT(60), <1>36 DEF ConfDeathSignal
<1>37. CASE Exec
  <2>1. mon = "alive" => ppc = "wait_exec" /\ toParent = <<>> /\ toChild = <<>>
      BY ZenonT(60), <1>37, Quiet DEF Exec, Child, Released
  <2> QED
      BY ZenonT(60), <1>37, <2>1 DEF Exec, Child, IInv, Started, sync
<1>38. CASE WarnFather  BY ZenonT(60), <1>38 DEF WarnFather
<1>39. CASE KillChild  BY ZenonT(60), <1>39 DEF KillChild
<1>40. CASE MonitorExits  BY ZenonT(60), <1>40 DEF MonitorExits
<1>41. CASE MonitorDead  BY ZenonT(60), <1>41 DEF MonitorDead
<1>42. CASE UNCHANGED vars  BY ZenonT(60), <1>42
<1> QED
    BY ZenonT(60), <1>1, <1>2, <1>3, <1>4, <1>5, <1>6, <1>7, <1>8, <1>9, <1>10,
      <1>11, <1>12, <1>13, <1>14, <1>15, <1>16, <1>17, <1>18, <1>19, <1>20,
      <1>21, <1>22, <1>23, <1>24, <1>25, <1>26, <1>27, <1>28, <1>29, <1>30,
      <1>31, <1>32, <1>33, <1>34, <1>35, <1>36, <1>37, <1>38, <1>39, <1>40,
      <1>41, <1>42 DEF Next, ParentStep, ChildStep

\* Reading a message other than the last one keeps the last one.
LEMMA LastOfTail ==
    ASSUME NEW S, NEW q \in Seq(S), q # <<>>, NEW e, q[Len(q)] = e, Head(q) # e
    PROVE Tail(q) # <<>> /\ Tail(q)[Len(Tail(q))] = e
<1>1. /\ Len(q) \in Nat /\ Len(q) >= 1 /\ Head(q) = q[1]
      /\ Len(Tail(q)) = Len(q) - 1
      /\ \A i \in 1 .. Len(q) - 1 : Tail(q)[i] = q[i + 1]
    BY ZenonT(60), TailElements
<1>2. Len(q) >= 2
    BY <1>1
<1>3. Tail(q)[Len(q) - 1] = q[(Len(q) - 1) + 1]
    BY <1>1, <1>2
<1>4. Tail(q) # <<>>
  <2>1. \A t : t = <<>> => Len(t) = 0
      OBVIOUS
  <2>2. Len(q) - 1 # 0
      BY <1>1, <1>2
  <2> QED
      BY ZenonT(60), <1>1, <2>1, <2>2, Zenon
<1>5. (Len(q) - 1) + 1 = Len(q)
    BY <1>1
<1> QED
    BY ZenonT(60), <1>1, <1>3, <1>4, <1>5

\* The SYNC_ERROR of a child that failed is not read for anything else by
\* lxc_sync_wait_child(): either the monitor gives up or it is still there.
LEMMA ErrorPendingStep == IInv /\ [Next]_vars => ErrorPending'
<1> SUFFICES ASSUME IInv, [Next]_vars PROVE ErrorPending'
    OBVIOUS
<1> USE DEF Parent, ParentFails, ChildOpen, lxc_sync_wait_child,
        lxc_sync_wake_child, Child, ChildFails, ParentOpen,
        lxc_sync_wait_parent, lxc_sync_wake_parent, lxc_set_death_signal,
        IInv, TypeOK, ControlOK, SocketsOK, Started, ErrorPending, vars,
        sync, sock, idx, ParentPC, ParentEnd, ChildPC, ChildEnd
<1>1. CASE CloneChild  BY ZenonT(60), <1>1, SyncMsgs DEF CloneChild
<1>2. CASE SendStatusFd  BY ZenonT(60), <1>2, SyncMsgs DEF SendStatusFd
<1>3. CASE WakeStartup  BY ZenonT(60), <1>3, SyncMsgs DEF WakeStartup
<1>4. CASE WaitConfigure
  <2> SUFFICES ASSUME mon' = "alive", cpc' = "exited", ppc' # "delete_net"
               PROVE toParent' # <<>> /\ toParent'[Len(toParent')] = SYNC_ERROR
      BY ZenonT(60) DEF ErrorPending
  <2>1. /\ mon = "alive" /\ cpc = "exited"
        /\ ppc \notin {"delete_net", "abort", "failed"}
      BY ZenonT(60), <1>4 DEF WaitConfigure, Parent
  <2>2. toParent # <<>> /\ toParent[Len(toParent)] = SYNC_ERROR
      BY ZenonT(60), <2>1 DEF IInv, ErrorPending
  <2>3. toParent' = Tail(toParent) /\ Head(toParent) # SYNC_ERROR
      BY <1>4, <2>2 DEF WaitConfigure, lxc_sync_wait_child, SYNC_ERROR,
        START_SYNC_STARTUP, START_SYNC_IDMAPPED_MOUNTS,
        START_SYNC_CGROUP_LIMITS, START_SYNC_READY_START
  <2>4. toParent \in Seq(SyncMsg)
      BY ZenonT(60)
  <2> HIDE DEF IInv
  <2> QED
      BY ZenonT(60), <2>2, <2>3, <2>4, LastOfTail
<1>5. CASE CreateNetwork  BY ZenonT(60), <1>5, SyncMsgs DEF CreateNetwork
<1>6. CASE PrepareRootfsParent  BY ZenonT(60), <1>6, SyncMsgs DEF PrepareRootfsParent
<1>7. CASE SendNamesToChild  BY ZenonT(60), <1>7, SyncMsgs DEF SendNamesToChild
<1>8. CASE WaitIdmappedMounts
  <2> SUFFICES ASSUME mon' = "alive", cpc' = "exited", ppc' # "delete_net"
               PROVE toParent' # <<>> /\ toParent'[Len(toParent')] = SYNC_ERROR
      BY ZenonT(60) DEF ErrorPending
  <2>1. /\ mon = "alive" /\ cpc = "exited"
        /\ ppc \notin {"delete_net", "abort", "failed"}
      BY ZenonT(60), <1>8 DEF WaitIdmappedMounts, Parent
  <2>2. toParent # <<>> /\ toParent[Len(toParent)] = SYNC_ERROR
      BY ZenonT(60), <2>1 DEF IInv, ErrorPending
  <2>3. toParent' = Tail(toParent) /\ Head(toParent) # SYNC_ERROR
      BY <1>8, <2>2 DEF WaitIdmappedMounts, lxc_sync_wait_child, SYNC_ERROR,
        START_SYNC_STARTUP, START_SYNC_IDMAPPED_MOUNTS,
        START_SYNC_CGROUP_LIMITS, START_SYNC_READY_START
  <2>4. toParent \in Seq(SyncMsg)
      OBVIOUS
  <2> HIDE DEF IInv
  <2> QED
      BY ZenonT(60), <2>2, <2>3, <2>4, LastOfTail
<1>9. CASE IdmapMountParent  BY ZenonT(60), <1>9, SyncMsgs DEF IdmapMountParent
<1>10. CASE WaitCgroupLimits
  <2> SUFFICES ASSUME mon' = "alive", cpc' = "exited", ppc' # "delete_net"
               PROVE toParent' # <<>> /\ toParent'[Len(toParent')] = SYNC_ERROR
      BY ZenonT(60) DEF ErrorPending
  <2>1. /\ mon = "alive" /\ cpc = "exited"
        /\ ppc \notin {"delete_net", "abort", "failed"}
      BY ZenonT(60), <1>10 DEF WaitCgroupLimits, Parent
  <2>2. toParent # <<>> /\ toParent[Len(toParent)] = SYNC_ERROR
      BY ZenonT(60), <2>1 DEF IInv, ErrorPending
  <2>3. toParent' = Tail(toParent) /\ Head(toParent) # SYNC_ERROR
      BY <1>10, <2>2 DEF WaitCgroupLimits, lxc_sync_wait_child, SYNC_ERROR,
        START_SYNC_STARTUP, START_SYNC_IDMAPPED_MOUNTS,
        START_SYNC_CGROUP_LIMITS, START_SYNC_READY_START
  <2>4. toParent \in Seq(SyncMsg)
      BY ZenonT(60)
  <2> HIDE DEF IInv
  <2> QED
      BY ZenonT(60), <2>2, <2>3, <2>4, LastOfTail
<1>11. CASE SetupLimitsWakeFds  BY ZenonT(60), <1>11, SyncMsgs DEF SetupLimitsWakeFds
<1>12. CASE RecvFdsParent  BY ZenonT(60), <1>12, SyncMsgs DEF RecvFdsParent
<1>13. CASE WakeReadyStart  BY ZenonT(60), <1>13, SyncMsgs DEF WakeReadyStart
<1>14. CASE WaitExec
  <2> SUFFICES ASSUME mon' = "alive", cpc' = "exited", ppc' # "delete_net"
               PROVE toParent' # <<>> /\ toParent'[Len(toParent')] = SYNC_ERROR
      BY ZenonT(60) DEF ErrorPending
  <2>1. /\ mon = "alive" /\ cpc = "exited"
        /\ ppc \notin {"delete_net", "abort", "failed"}
      BY ZenonT(60), <1>14 DEF WaitExec, Parent
  <2>2. toParent # <<>> /\ toParent[Len(toParent)] = SYNC_ERROR
      BY ZenonT(60), <2>1 DEF IInv, ErrorPending
  <2>3. toParent' = Tail(toParent) /\ Head(toParent) # SYNC_ERROR
      BY <1>14, <2>2 DEF WaitExec, lxc_sync_wait_child, SYNC_ERROR,
        START_SYNC_STARTUP, START_SYNC_IDMAPPED_MOUNTS,
        START_SYNC_CGROUP_LIMITS, START_SYNC_READY_START
  <2>4. toParent \in Seq(SyncMsg)
      OBVIOUS
  <2> HIDE DEF IInv
  <2> QED
      BY ZenonT(60), <2>2, <2>3, <2>4, LastOfTail
<1>15. CASE AnnounceRunning  BY ZenonT(60), <1>15, SyncMsgs DEF AnnounceRunning
<1>16. CASE DeleteNet  BY ZenonT(60), <1>16, SyncMsgs DEF DeleteNet
<1>17. CASE lxc_abort  BY ZenonT(60), <1>17, SyncMsgs DEF lxc_abort
<1>18. CASE RecvStatusFd  BY ZenonT(60), <1>18, SyncMsgs DEF RecvStatusFd
<1>19. CASE SetDeathSignal  BY ZenonT(60), <1>19, SyncMsgs DEF SetDeathSignal
<1>20. CASE WaitStartup  BY ZenonT(60), <1>20, SyncMsgs DEF WaitStartup
<1>21. CASE BecomeRoot  BY ZenonT(60), <1>21, SyncMsgs DEF BecomeRoot
<1>22. CASE ResetDeathSignal  BY ZenonT(60), <1>22, SyncMsgs DEF ResetDeathSignal
<1>23. CASE WakeConfigure  BY ZenonT(60), <1>23, SyncMsgs DEF WakeConfigure
<1>24. CASE WaitPostConfigure  BY ZenonT(60), <1>24, SyncMsgs DEF WaitPostConfigure
<1>25. CASE PrepareRootfsChild  BY ZenonT(60), <1>25, SyncMsgs DEF PrepareRootfsChild
<1>26. CASE RecvNamesFromParent  BY ZenonT(60), <1>26, SyncMsgs DEF RecvNamesFromParent
<1>27. CASE SetupMounts  BY ZenonT(60), <1>27, SyncMsgs DEF SetupMounts
<1>28. CASE IdmapMountChild  BY ZenonT(60), <1>28, SyncMsgs DEF IdmapMountChild
<1>29. CASE RecvMountAck  BY ZenonT(60), <1>29, SyncMsgs DEF RecvMountAck
<1>30. CASE MountsDone  BY ZenonT(60), <1>30, SyncMsgs DEF MountsDone
<1>31. CASE WakeCgroupLimits  BY ZenonT(60), <1>31, SyncMsgs DEF WakeCgroupLimits
<1>32. CASE WaitFds  BY ZenonT(60), <1>32, SyncMsgs DEF WaitFds
<1>33. CASE SendFdsChild  BY ZenonT(60), <1>33, SyncMsgs DEF SendFdsChild
<1>34. CASE WaitReadyStart  BY ZenonT(60), <1>34, SyncMsgs DEF WaitReadyStart
<1>35. CASE SwitchIds  BY ZenonT(60), <1>35, SyncMsgs DEF SwitchIds
<1>36. CASE ConfDeathSignal  BY ZenonT(60), <1>36, SyncMsgs DEF ConfDeathSignal
<1>37. CASE Exec  BY ZenonT(60), <1>37, SyncMsgs DEF Exec
<1>38. CASE WarnFather  BY SMTT(60), <1>38, SyncMsgs DEF WarnFather
<1>39. CASE KillChild  BY ZenonT(60), <1>39, SyncMsgs DEF KillChild
<1>40. CASE MonitorExits  BY ZenonT(60), <1>40, SyncMsgs DEF MonitorExits
<1>41. CASE MonitorDead  BY ZenonT(60), <1>41, SyncMsgs DEF MonitorDead
<1>42. CASE UNCHANGED vars  BY ZenonT(60), <1>42, SyncMsgs
<1> QED
    BY ZenonT(60), <1>1, <1>2, <1>3, <1>4, <1>5, <1>6, <1>7, <1>8, <1>9, <1>10,
      <1>11, <1>12, <1>13, <1>14, <1>15, <1>16, <1>17, <1>18, <1>19, <1>20,
      <1>21, <1>22, <1>23, <1>24, <1>25, <1>26, <1>27, <1>28, <1>29, <1>30,
      <1>31, <1>32, <1>33, <1>34, <1>35, <1>36, <1>37, <1>38, <1>39, <1>40,
      <1>41, <1>42 DEF Next, ParentStep, ChildStep

\* A monitor that has given up has not released the child and never will.
LEMMA FailingStep == IInv /\ [Next]_vars => Failing'
<1> SUFFICES ASSUME IInv, [Next]_vars PROVE Failing'
    BY ZenonT(60)
<1> USE DEF Parent, ParentFails, ChildOpen, lxc_sync_wait_child,
        lxc_sync_wake_child, Child, ChildFails, ParentOpen,
        lxc_sync_wait_parent, lxc_sync_wake_parent, lxc_set_death_signal,
        IInv, TypeOK, ControlOK, Failing, Started, OnScript, Released,
        vars, sync, sock, idx, ParentPC, ParentEnd, ChildPC, ChildEnd
<1>1. CASE CloneChild  BY ZenonT(60), <1>1 DEF CloneChild
<1>2. CASE SendStatusFd
    BY ZenonT(60), <1>2, NotReleased DEF SendStatusFd
<1>3. CASE WakeStartup
    BY ZenonT(60), <1>3, NotReleased DEF WakeStartup
<1>4. CASE WaitConfigure
    BY ZenonT(60), <1>4, NotReleased DEF WaitConfigure
<1>5. CASE CreateNetwork
    BY ZenonT(60), <1>5, NotReleased DEF CreateNetwork
<1>6. CASE PrepareRootfsParent
    BY ZenonT(60), <1>6, NotReleased DEF PrepareRootfsParent
<1>7. CASE SendNamesToChild
    BY ZenonT(60), <1>7, NotReleased DEF SendNamesToChild
<1>8. CASE WaitIdmappedMounts
    BY ZenonT(60), <1>8, NotReleased DEF WaitIdmappedMounts
<1>9. CASE IdmapMountParent
    BY ZenonT(60), <1>9, NotReleased DEF IdmapMountParent
<1>10. CASE WaitCgroupLimits
    BY ZenonT(60), <1>10, NotReleased DEF WaitCgroupLimits
<1>11. CASE SetupLimitsWakeFds
    BY ZenonT(60), <1>11, NotReleased DEF SetupLimitsWakeFds
<1>12. CASE RecvFdsParent
    BY ZenonT(60), <1>12, NotReleased DEF RecvFdsParent
<1>13. CASE WakeReadyStart
    BY ZenonT(60), <1>13, NotReleased DEF WakeReadyStart
<1>14. CASE WaitExec
  <2>1. /\ mon = "alive" /\ cpc' = cpc /\ ppc = "wait_exec"
        /\ toParent = <<>> => cpc \notin ChildPC
      BY ZenonT(60), <1>14 DEF WaitExec, Parent, lxc_sync_wait_child, ChildOpen
  <2> QED
      BY ZenonT(60), <2>1, Quiet DEF Failing
<1>15. CASE AnnounceRunning  BY ZenonT(60), <1>15 DEF AnnounceRunning
<1>16. CASE DeleteNet  BY ZenonT(60), <1>16 DEF DeleteNet
<1>17. CASE lxc_abort  BY ZenonT(60), <1>17 DEF lxc_abort
<1>18. CASE RecvStatusFd  BY ZenonT(60), <1>18 DEF RecvStatusFd
<1>19. CASE SetDeathSignal  BY ZenonT(60), <1>19 DEF SetDeathSignal
<1>20. CASE WaitStartup
  <2> SUFFICES ASSUME Failing!1' PROVE Failing!2'
      BY ZenonT(60) DEF Failing
  <2>1. /\ mon = "alive" /\ ppc' = ppc /\ cpc \in ChildPC \ {"warn_father"}
        /\ cpc' \in {"userns", "configure", "warn_father"} /\ cpc' # "warn_father"
        /\ toChild # <<>> /\ toChild' = Tail(toChild)
      BY ZenonT(60), <1>20 DEF WaitStartup
  <2>2. /\ ppc \in {"delete_net", "abort"}
        /\ \A i \in 1 .. Len(toChild) : toChild[i] # START_SYNC_READY_START
      BY ZenonT(60), <2>1 DEF IInv, Failing
  <2>3. /\ Len(toChild) \in Nat /\ Len(Tail(toChild)) = Len(toChild) - 1
        /\ \A i \in 1 .. Len(toChild) - 1 : Tail(toChild)[i] = toChild[i + 1]
      BY ZenonT(60), <2>1, TailElements DEF IInv, TypeOK, SocketsOK
  <2>4. \A i \in 1 .. Len(Tail(toChild)) : Tail(toChild)[i] # START_SYNC_READY_START
      BY <2>2, <2>3
  <2> QED
      BY ZenonT(60), <2>1, <2>2, <2>4 DEF Released
<1>21. CASE BecomeRoot  BY ZenonT(60), <1>21 DEF BecomeRoot
<1>22. CASE ResetDeathSignal  BY ZenonT(60), <1>22 DEF ResetDeathSignal
<1>23. CASE WakeConfigure  BY ZenonT(60), <1>23 DEF WakeConfigure
<1>24. CASE WaitPostConfigure
  <2> SUFFICES ASSUME Failing!1' PROVE Failing!2'
      BY ZenonT(60) DEF Failing
  <2>1. /\ mon = "alive" /\ ppc' = ppc /\ cpc \in ChildPC \ {"warn_father"}
        /\ cpc' \in {"rootfs", "warn_father"} /\ cpc' # "warn_father"
        /\ toChild # <<>> /\ toChild' = Tail(toChild)
      BY ZenonT(60), <1>24 DEF WaitPostConfigure
  <2>2. /\ ppc \in {"delete_net", "abort"}
        /\ \A i \in 1 .. Len(toChild) : toChild[i] # START_SYNC_READY_START
      BY ZenonT(60), <2>1 DEF IInv, Failing
  <2>3. /\ Len(toChild) \in Nat /\ Len(Tail(toChild)) = Len(toChild) - 1
        /\ \A i \in 1 .. Len(toChild) - 1 : Tail(toChild)[i] = toChild[i + 1]
      BY ZenonT(60), <2>1, TailElements DEF IInv, TypeOK, SocketsOK
  <2>4. \A i \in 1 .. Len(Tail(toChild)) : Tail(toChild)[i] # START_SYNC_READY_START
      BY SMTT(60), <2>2, <2>3
  <2> QED
      BY ZenonT(60), <2>1, <2>2, <2>4 DEF Released
<1>25. CASE PrepareRootfsChild  BY ZenonT(60), <1>25 DEF PrepareRootfsChild
<1>26. CASE RecvNamesFromParent  BY ZenonT(60), <1>26 DEF RecvNamesFromParent
<1>27. CASE SetupMounts  BY ZenonT(60), <1>27 DEF SetupMounts
<1>28. CASE IdmapMountChild  BY ZenonT(60), <1>28 DEF IdmapMountChild
<1>29. CASE RecvMountAck  BY ZenonT(60), <1>29 DEF RecvMountAck
<1>30. CASE MountsDone  BY ZenonT(60), <1>30 DEF MountsDone
<1>31. CASE WakeCgroupLimits  BY ZenonT(60), <1>31 DEF WakeCgroupLimits
<1>32. CASE WaitFds
  <2> SUFFICES ASSUME Failing!1' PROVE Failing!2'
      BY ZenonT(60) DEF Failing
  <2>1. /\ mon = "alive" /\ ppc' = ppc /\ cpc \in ChildPC \ {"warn_father"}
        /\ cpc' \in {"send_fds", "warn_father"} /\ cpc' # "warn_father"
        /\ toChild # <<>> /\ toChild' = Tail(toChild)
      BY ZenonT(60), <1>32 DEF WaitFds
  <2>2. /\ ppc \in {"delete_net", "abort"}
        /\ \A i \in 1 .. Len(toChild) : toChild[i] # START_SYNC_READY_START
      BY ZenonT(60), <2>1 DEF IInv, Failing
  <2>3. /\ Len(toChild) \in Nat /\ Len(Tail(toChild)) = Len(toChild) - 1
        /\ \A i \in 1 .. Len(toChild) - 1 : Tail(toChild)[i] = toChild[i + 1]
      BY ZenonT(60), <2>1, TailElements DEF IInv, TypeOK, SocketsOK
  <2>4. \A i \in 1 .. Len(Tail(toChild)) : Tail(toChild)[i] # START_SYNC_READY_START
      BY SMTT(60), <2>2, <2>3
  <2> QED
      BY ZenonT(60), <2>1, <2>2, <2>4 DEF Released
<1>33. CASE SendFdsChild  BY ZenonT(60), <1>33 DEF SendFdsChild
<1>34. CASE WaitReadyStart  BY SMTT(60), <1>34 DEF WaitReadyStart
<1>35. CASE SwitchIds  BY ZenonT(60), <1>35 DEF SwitchIds
<1>36. CASE ConfDeathSignal  BY ZenonT(60), <1>36 DEF ConfDeathSignal
<1>37. CASE Exec  BY ZenonT(60), <1>37 DEF Exec
<1>38. CASE WarnFather  BY ZenonT(60), <1>38 DEF WarnFather
<1>39. CASE KillChild  BY ZenonT(60), <1>39 DEF KillChild
<1>40. CASE MonitorExits  BY ZenonT(60), <1>40 DEF MonitorExits
<1>41. CASE MonitorDead  BY ZenonT(60), <1>41 DEF MonitorDead
<1>42. CASE UNCHANGED vars  BY ZenonT(60), <1>42
<1> QED
    BY ZenonT(60), <1>1, <1>2, <1>3, <1>4, <1>5, <1>6, <1>7, <1>8, <1>9, <1>10,
      <1>11, <1>12, <1>13, <1>14, <1>15, <1>16, <1>17, <1>18, <1>19, <1>20,
      <1>21, <1>22, <1>23, <1>24, <1>25, <1>26, <1>27, <1>28, <1>29, <1>30,
      <1>31, <1>32, <1>33, <1>34, <1>35, <1>36, <1>37, <1>38, <1>39, <1>40,
      <1>41, <1>42 DEF Next, ParentStep, ChildStep

\* Every wait and wake of sync.c follows the script.
LEMMA ScriptStep == IInv /\ [Next]_vars => Script'
<1> SUFFICES ASSUME IInv, [Next]_vars PROVE Script'
    OBVIOUS
<1> USE DEF Parent, ParentFails, ChildOpen, lxc_sync_wait_child,
        lxc_sync_wake_child, Child, ChildFails, ParentOpen,
        lxc_sync_wait_parent, lxc_sync_wake_parent, lxc_set_death_signal,
        IInv, TypeOK, ControlOK, Script, ChildWrote, ChildRead,
        ParentWrote, ParentRead, OnScript, vars, sync, sock, idx, ParentPC,
        ParentEnd, ChildPC, ChildEnd
<1>1. CASE CloneChild
  <2> SUFFICES ASSUME Script!1' PROVE Script!2'
      BY ZenonT(60) DEF Script
  <2>1. /\ toChild = <<>> /\ toParent = <<>> /\ toChild' = toChild /\ toParent' = toParent
        /\ ppc' = "status" /\ cpc' = "status"
      BY ZenonT(60), <1>1 DEF CloneChild, Parent, IInv, Started, sync, OnScript, ParentPC
  <2>2. ParentRead' = 0 /\ ParentWrote' = 0 /\ ChildRead' = 0 /\ ChildWrote' = 0
      BY ZenonT(60), <2>1 DEF ChildWrote, ChildRead, ParentWrote, ParentRead
  <2>3. Seg(ChildScript, 0, 0) = <<>>
      BY ONLY SMTT(60), Scripts DEF Seg
  <2>4. Seg(ParentScript, 0, 0) = <<>>
      BY ONLY Scripts DEF Seg
  <2> QED
      BY <2>1, <2>2, <2>3, <2>4
<1>2. CASE SendStatusFd  BY ZenonT(60), <1>2 DEF SendStatusFd
<1>3. CASE WakeStartup
  <2> SUFFICES ASSUME Script!1' PROVE Script!2'
      BY ZenonT(60) DEF Script
  <2>1. /\ mon = "alive" /\ cpc \in ChildPC \ {"warn_father"} /\ ppc \in OnScript
        /\ toChild' = Append(toChild, START_SYNC_STARTUP) /\ toParent' = toParent
      BY ZenonT(60), <1>3 DEF WakeStartup
  <2>2. /\ ParentWrote = 0 /\ ParentWrote' = 1
        /\ ChildWrote' = ChildWrote /\ ChildRead' = ChildRead /\ ParentRead' = ParentRead
      BY ZenonT(60), <1>3 DEF WakeStartup
  <2>3. ParentScript[1] = START_SYNC_STARTUP
      BY ZenonT(60), Scripts
  <2> HIDE DEF IInv, ChildWrote, ChildRead, ParentWrote, ParentRead
  <2> QED
      BY <2>1, <2>2, <2>3, InTransit, Progress, SMTT(40)
<1>4. CASE WaitConfigure
  <2> SUFFICES ASSUME Script!1' PROVE Script!2'
      BY ZenonT(60) DEF Script
  <2>1. /\ mon = "alive" /\ cpc \in ChildPC \ {"warn_father"} /\ ppc \in OnScript
        /\ toParent # <<>> /\ toParent' = Tail(toParent) /\ toChild' = toChild
      BY ZenonT(60), <1>4 DEF WaitConfigure
  <2>2. /\ ParentRead = 0 /\ ParentRead' = 1
        /\ ChildWrote' = ChildWrote /\ ChildRead' = ChildRead /\ ParentWrote' = ParentWrote
      BY ZenonT(60), <1>4 DEF WaitConfigure
  <2> HIDE DEF IInv, ChildWrote, ChildRead, ParentWrote, ParentRead
  <2>3. ParentRead < ChildWrote
      BY SMTT(60), <2>1, InTransit, Progress
  <2> QED
      BY <2>1, <2>2, <2>3, InTransit, Progress, SMTT(40)
<1>5. CASE CreateNetwork
  <2> SUFFICES ASSUME Script!1' PROVE Script!2'
      BY ZenonT(60) DEF Script
  <2>1. /\ mon = "alive" /\ cpc \in ChildPC \ {"warn_father"} /\ ppc \in OnScript
        /\ toChild' = Append(toChild, START_SYNC_POST_CONFIGURE) /\ toParent' = toParent
      BY ZenonT(60), <1>5 DEF CreateNetwork
  <2>2. /\ ParentWrote = 1 /\ ParentWrote' = 2
        /\ ChildWrote' = ChildWrote /\ ChildRead' = ChildRead /\ ParentRead' = ParentRead
      BY ZenonT(60), <1>5 DEF CreateNetwork
  <2>3. ParentScript[2] = START_SYNC_POST_CONFIGURE
      BY ZenonT(60), Scripts
  <2> HIDE DEF IInv, ChildWrote, ChildRead, ParentWrote, ParentRead
  <2> QED
      BY <2>1, <2>2, <2>3, InTransit, Progress, SMTT(40)
<1>6. CASE PrepareRootfsParent  BY ZenonT(60), <1>6 DEF PrepareRootfsParent
<1>7. CASE SendNamesToChild  BY ZenonT(60), <1>7 DEF SendNamesToChild
<1>8. CASE WaitIdmappedMounts
  <2> SUFFICES ASSUME Script!1' PROVE Script!2'
      BY ZenonT(60) DEF Script
  <2>1. /\ mon = "alive" /\ cpc \in ChildPC \ {"warn_father"} /\ ppc \in OnScript
        /\ toParent # <<>> /\ toParent' = Tail(toParent) /\ toChild' = toChild
      BY ZenonT(60), <1>8 DEF WaitIdmappedMounts
  <2>2. /\ ParentRead = 1 /\ ParentRead' = 2
        /\ ChildWrote' = ChildWrote /\ ChildRead' = ChildRead /\ ParentWrote' = ParentWrote
      BY ZenonT(60), <1>8 DEF WaitIdmappedMounts
  <2> HIDE DEF IInv, ChildWrote, ChildRead, ParentWrote, ParentRead
  <2>3. ParentRead < ChildWrote
      BY <2>1, InTransit, Progress
  <2> QED
      BY <2>1, <2>2, <2>3, InTransit, Progress, SMTT(40)
<1>9. CASE IdmapMountParent  BY SMTT(60), <1>9 DEF IdmapMountParent
<1>10. CASE WaitCgroupLimits
  <2> SUFFICES ASSUME Script!1' PROVE Script!2'
      BY ZenonT(60) DEF Script
  <2>1. /\ mon = "alive" /\ cpc \in ChildPC \ {"warn_father"} /\ ppc \in OnScript
        /\ toParent # <<>> /\ toParent' = Tail(toParent) /\ toChild' = toChild
      BY ZenonT(60), <1>10 DEF WaitCgroupLimits
  <2>2. /\ ParentRead = 2 /\ ParentRead' = 3
        /\ ChildWrote' = ChildWrote /\ ChildRead' = ChildRead /\ ParentWrote' = ParentWrote
      BY ZenonT(60), <1>10 DEF WaitCgroupLimits
  <2> HIDE DEF IInv, ChildWrote, ChildRead, ParentWrote, ParentRead
  <2>3. ParentRead < ChildWrote
      BY SMTT(60), <2>1, InTransit, Progress
  <2> QED
      BY <2>1, <2>2, <2>3, InTransit, Progress, SMTT(40)
<1>11. CASE SetupLimitsWakeFds
  <2> SUFFICES ASSUME Script!1' PROVE Script!2'
      BY ZenonT(60) DEF Script
  <2>1. /\ mon = "alive" /\ cpc \in ChildPC \ {"warn_father"} /\ ppc \in OnScript
        /\ toChild' = Append(toChild, START_SYNC_FDS) /\ toParent' = toParent
      BY ZenonT(60), <1>11 DEF SetupLimitsWakeFds
  <2>2. /\ ParentWrote = 2 /\ ParentWrote' = 3
        /\ ChildWrote' = ChildWrote /\ ChildRead' = ChildRead /\ ParentRead' = ParentRead
      BY ZenonT(60), <1>11 DEF SetupLimitsWakeFds
  <2>3. ParentScript[3] = START_SYNC_FDS
      BY ZenonT(60), Scripts
  <2> HIDE DEF IInv, ChildWrote, ChildRead, ParentWrote, ParentRead
  <2> QED
      BY <2>1, <2>2, <2>3, InTransit, Progress, SMTT(40)
<1>12. CASE RecvFdsParent  BY SMTT(60), <1>12 DEF RecvFdsParent
<1>13. CASE WakeReadyStart
  <2> SUFFICES ASSUME Script!1' PROVE Script!2'
      BY ZenonT(60) DEF Script
  <2>1. /\ mon = "alive" /\ cpc \in ChildPC \ {"warn_father"} /\ ppc \in OnScript
        /\ toChild' = Append(toChild, START_SYNC_READY_START) /\ toParent' = toParent
      BY ZenonT(60), <1>13 DEF WakeReadyStart
  <2>2. /\ ParentWrote = 3 /\ ParentWrote' = 4
        /\ ChildWrote' = ChildWrote /\ ChildRead' = ChildRead /\ ParentRead' = ParentRead
      BY ZenonT(60), <1>13 DEF WakeReadyStart
  <2>3. ParentScript[4] = START_SYNC_READY_START
      BY ZenonT(60), Scripts
  <2> HIDE DEF IInv, ChildWrote, ChildRead, ParentWrote, ParentRead
  <2> QED
      BY <2>1, <2>2, <2>3, InTransit, Progress
<1>14. CASE WaitExec  BY ZenonT(60), <1>14 DEF WaitExec
<1>15. CASE AnnounceRunning  BY ZenonT(60), <1>15 DEF AnnounceRunning
<1>16. CASE DeleteNet  BY ZenonT(60), <1>16 DEF DeleteNet
<1>17. CASE lxc_abort  BY ZenonT(60), <1>17 DEF lxc_abort
<1>18. CASE RecvStatusFd  BY ZenonT(60), <1>18 DEF RecvStatusFd
<1>19. CASE SetDeathSignal  BY ZenonT(60), <1>19 DEF SetDeathSignal
<1>20. CASE WaitStartup
  <2> SUFFICES ASSUME Script!1' PROVE Script!2'
      BY ZenonT(60) DEF Script
  <2>1. /\ mon = "alive" /\ cpc \in ChildPC \ {"warn_father"} /\ ppc \in OnScript
        /\ toChild # <<>> /\ toChild' = Tail(toChild) /\ toParent' = toParent
      BY ZenonT(60), <1>20 DEF WaitStartup
  <2>2. /\ ChildRead = 0 /\ ChildRead' = 1
        /\ ChildWrote' = ChildWrote /\ ParentWrote' = ParentWrote /\ ParentRead' = ParentRead
      BY ZenonT(60), <1>20 DEF WaitStartup
  <2> HIDE DEF IInv, ChildWrote, ChildRead, ParentWrote, ParentRead
  <2>3. ChildRead < ParentWrote
      BY <2>1, InTransit, Progress
  <2> QED
      BY <2>1, <2>2, <2>3, InTransit, Progress, SMTT(40)
<1>21. CASE BecomeRoot  BY ZenonT(60), <1>21 DEF BecomeRoot
<1>22. CASE ResetDeathSignal  BY ZenonT(60), <1>22 DEF ResetDeathSignal
<1>23. CASE WakeConfigure
  <2> SUFFICES ASSUME Script!1' PROVE Script!2'
      BY ZenonT(60) DEF Script
  <2>1. /\ mon = "alive" /\ cpc \in ChildPC \ {"warn_father"} /\ ppc \in OnScript
        /\ toParent' = Append(toParent, START_SYNC_CONFIGURE) /\ toChild' = toChild
      BY ZenonT(60), <1>23 DEF WakeConfigure
  <2>2. /\ ChildWrote = 0 /\ ChildWrote' = 1
        /\ ChildRead' = ChildRead /\ ParentWrote' = ParentWrote /\ ParentRead' = ParentRead
      BY ZenonT(60), <1>23 DEF WakeConfigure
  <2>3. ChildScript[1] = START_SYNC_CONFIGURE
      BY ZenonT(60), Scripts
  <2> HIDE DEF IInv, ChildWrote, ChildRead, ParentWrote, ParentRead
  <2> QED
      BY <2>1, <2>2, <2>3, InTransit, Progress, SMTT(40)
<1>24. CASE WaitPostConfigure
  <2> SUFFICES ASSUME Script!1' PROVE Script!2'
      BY ZenonT(60) DEF Script
  <2>1. /\ mon = "alive" /\ cpc \in ChildPC \ {"warn_father"} /\ ppc \in OnScript
        /\ toChild # <<>> /\ toChild' = Tail(toChild) /\ toParent' = toParent
      BY ZenonT(60), <1>24 DEF WaitPostConfigure
  <2>2. /\ ChildRead = 1 /\ ChildRead' = 2
        /\ ChildWrote' = ChildWrote /\ ParentWrote' = ParentWrote /\ ParentRead' = ParentRead
      BY ZenonT(60), <1>24 DEF WaitPostConfigure
  <2> HIDE DEF IInv, ChildWrote, ChildRead, ParentWrote, ParentRead
  <2>3. ChildRead < ParentWrote
      BY <2>1, InTransit, Progress
  <2> QED
      BY <2>1, <2>2, <2>3, InTransit, Progress, SMTT(40)
<1>25. CASE PrepareRootfsChild  BY ZenonT(60), <1>25 DEF PrepareRootfsChild
<1>26. CASE RecvNamesFromParent  BY ZenonT(60), <1>26 DEF RecvNamesFromParent
<1>27. CASE SetupMounts
  <2> SUFFICES ASSUME Script!1' PROVE Script!2'
      BY ZenonT(60) DEF Script
  <2>1. /\ mon = "alive" /\ cpc \in ChildPC \ {"warn_father"} /\ ppc \in OnScript
        /\ toParent' = Append(toParent, START_SYNC_IDMAPPED_MOUNTS) /\ toChild' = toChild
      BY ZenonT(60), <1>27 DEF SetupMounts
  <2>2. /\ ChildWrote = 1 /\ ChildWrote' = 2
        /\ ChildRead' = ChildRead /\ ParentWrote' = ParentWrote /\ ParentRead' = ParentRead
      BY ZenonT(60), <1>27 DEF SetupMounts
  <2>3. ChildScript[2] = START_SYNC_IDMAPPED_MOUNTS
      BY ZenonT(60), Scripts
  <2> HIDE DEF IInv, ChildWrote, ChildRead, ParentWrote, ParentRead
  <2> QED
      BY <2>1, <2>2, <2>3, InTransit, Progress, SMTT(40)
<1>28. CASE IdmapMountChild  BY <1>28 DEF IdmapMountChild
<1>29. CASE RecvMountAck  BY <1>29 DEF RecvMountAck
<1>30. CASE MountsDone  BY ZenonT(60), <1>30 DEF MountsDone
<1>31. CASE WakeCgroupLimits
  <2> SUFFICES ASSUME Script!1' PROVE Script!2'
      BY ZenonT(60) DEF Script
  <2>1. /\ mon = "alive" /\ cpc \in ChildPC \ {"warn_father"} /\ ppc \in OnScript
        /\ toParent' = Append(toParent, START_SYNC_CGROUP_LIMITS) /\ toChild' = toChild
      BY ZenonT(60), <1>31 DEF WakeCgroupLimits
  <2>2. /\ ChildWrote = 2 /\ ChildWrote' = 3
        /\ ChildRead' = ChildRead /\ ParentWrote' = ParentWrote /\ ParentRead' = ParentRead
      BY ZenonT(60), <1>31 DEF WakeCgroupLimits
  <2>3. ChildScript[3] = START_SYNC_CGROUP_LIMITS
      BY ZenonT(60), Scripts
  <2> HIDE DEF IInv, ChildWrote, ChildRead, ParentWrote, ParentRead
  <2> QED
      BY <2>1, <2>2, <2>3, InTransit, Progress
<1>32. CASE WaitFds
  <2> SUFFICES ASSUME Script!1' PROVE Script!2'
      BY ZenonT(60) DEF Script
  <2>1. /\ mon = "alive" /\ cpc \in ChildPC \ {"warn_father"} /\ ppc \in OnScript
        /\ toChild # <<>> /\ toChild' = Tail(toChild) /\ toParent' = toParent
      BY ZenonT(60), <1>32 DEF WaitFds
  <2>2. /\ ChildRead = 2 /\ ChildRead' = 3
        /\ ChildWrote' = ChildWrote /\ ParentWrote' = ParentWrote /\ ParentRead' = ParentRead
      BY ZenonT(60), <1>32 DEF WaitFds
  <2> HIDE DEF IInv, ChildWrote, ChildRead, ParentWrote, ParentRead
  <2>3. ChildRead < ParentWrote
      BY <2>1, InTransit, Progress
  <2> QED
      BY <2>1, <2>2, <2>3, InTransit, Progress, SMTT(40)
<1>33. CASE SendFdsChild  BY SMTT(60), <1>33 DEF SendFdsChild
<1>34. CASE WaitReadyStart
  <2> SUFFICES ASSUME Script!1' PROVE Script!2'
      BY ZenonT(60) DEF Script
  <2>1. /\ mon = "alive" /\ cpc \in ChildPC \ {"warn_father"} /\ ppc \in OnScript
        /\ toChild # <<>> /\ toChild' = Tail(toChild) /\ toParent' = toParent
      BY ZenonT(60), <1>34 DEF WaitReadyStart
  <2>2. /\ ChildRead = 3 /\ ChildRead' = 4
        /\ ChildWrote' = ChildWrote /\ ParentWrote' = ParentWrote /\ ParentRead' = ParentRead
      BY ZenonT(60), <1>34 DEF WaitReadyStart
  <2> HIDE DEF IInv, ChildWrote, ChildRead, ParentWrote, ParentRead
  <2>3. ChildRead < ParentWrote
      BY <2>1, InTransit, Progress
  <2> QED
      BY <2>1, <2>2, <2>3, InTransit, Progress
<1>35. CASE SwitchIds  BY ZenonT(60), <1>35 DEF SwitchIds
<1>36. CASE ConfDeathSignal  BY ZenonT(60), <1>36 DEF ConfDeathSignal
<1>37. CASE Exec  BY ZenonT(60), <1>37 DEF Exec
<1>38. CASE WarnFather  BY ZenonT(60), <1>38 DEF WarnFather
<1>39. CASE KillChild  BY ZenonT(60), <1>39 DEF KillChild
<1>40. CASE MonitorExits  BY ZenonT(60), <1>40 DEF MonitorExits
<1>41. CASE MonitorDead  BY ZenonT(60), <1>41 DEF MonitorDead
<1>42. CASE UNCHANGED vars  BY <1>42
<1> QED
    BY ZenonT(60), <1>1, <1>2, <1>3, <1>4, <1>5, <1>6, <1>7, <1>8, <1>9, <1>10,
      <1>11, <1>12, <1>13, <1>14, <1>15, <1>16, <1>17, <1>18, <1>19, <1>20,
      <1>21, <1>22, <1>23, <1>24, <1>25, <1>26, <1>27, <1>28, <1>29, <1>30,
      <1>31, <1>32, <1>33, <1>34, <1>35, <1>36, <1>37, <1>38, <1>39, <1>40,
      <1>41, <1>42 DEF Next, ParentStep, ChildStep

-----------------------------------------------------------------------------
(* The inductive invariant and what follows from it.                       *)

\* The invariant holds when lxc_spawn() is called.
LEMMA IInvInit == Init => IInv
<1> SUFFICES ASSUME Init PROVE IInv
    OBVIOUS
<1>1. /\ conf.mounts \in Nat /\ conf.fds \in Seq(FdKind) /\ Len(conf.fds) \in Nat
    BY ConfAssumption DEF Init
<1>2. TypeOK
  <2>1. ControlOK
      BY ZenonT(60) DEF Init, ControlOK, ParentPC, ChildEnd
  <2>2. SocketsOK
      BY DEF Init, SocketsOK
  <2>3. CountersOK
      BY SMTT(60), <1>1 DEF Init, CountersOK
  <2> QED
      BY ZenonT(60), <2>1, <2>2, <2>3 DEF TypeOK
<1>3. Script /\ Failing /\ ErrorPending /\ Started /\ DeathSignal
    BY ZenonT(60) DEF Init, Script, Failing, ErrorPending, Started, DeathSignal, ChildPC,
      Signalled
<1> QED
    BY ZenonT(60), <1>2, <1>3 DEF IInv

\* Every step of monitor, child or kernel preserves the invariant.
LEMMA IInvStep == IInv /\ [Next]_vars => IInv'
BY ZenonT(60), ControlStep, SocketsStep, CountersStep, ScriptStep, FailingStep,
  ErrorPendingStep, StartedStep, DeathSignalStep DEF IInv, TypeOK

\* The invariant implies the properties.
LEMMA IInvImplies ==
    IInv => TypeOK /\ RunningMeansExecuted /\ ExecAfterSetup /\ DiesWithMonitor
<1> SUFFICES ASSUME IInv
             PROVE TypeOK /\ RunningMeansExecuted /\ ExecAfterSetup /\ DiesWithMonitor
    OBVIOUS
<1>1. TypeOK
    BY ZenonT(60) DEF IInv
<1>2. RunningMeansExecuted /\ ExecAfterSetup
    BY ZenonT(60) DEF IInv, Started, RunningMeansExecuted, ExecAfterSetup
<1>3. DiesWithMonitor
    BY ZenonT(60), ConfFields, <1>1 DEF IInv, DeathSignal, Signalled, DiesWithMonitor
<1> QED
    BY ZenonT(60), <1>1, <1>2, <1>3

\* For every set of configurations: lxc_spawn() reports RUNNING only for a child
\* that executed the container's init or was killed on the way, the init is
\* executed only once the setup is complete, and with lxc.monitor.signal.pdeath
\* at SIGKILL no container whose init keeps its ids outlives its monitor.
THEOREM SpawnSafe ==
    Spec => [](TypeOK /\ RunningMeansExecuted /\ ExecAfterSetup /\ DiesWithMonitor)
BY IInvInit, IInvStep, IInvImplies, PTL DEF Spec

\* Its parts, one by one.  The variables keep their types, and the counters of
\* mounts and descriptors stay within what is configured.
THEOREM SpawnTyped == Spec => []TypeOK
BY SpawnSafe, PTL

\* lxc_spawn() announces RUNNING only for an init that was executed.
THEOREM SpawnRunningMeansExecuted == Spec => []RunningMeansExecuted
BY SpawnSafe, PTL

\* do_start() executes the init only after the monitor's part of the setup.
THEOREM SpawnExecAfterSetup == Spec => []ExecAfterSetup
BY SpawnSafe, PTL

\* With lxc.monitor.signal.pdeath at SIGKILL, an init that keeps its ids does not
\* outlive its monitor: do_start() sets the death signal again when it was lost.
THEOREM SpawnDiesWithMonitor == Spec => []DiesWithMonitor
BY SpawnSafe, PTL

-----------------------------------------------------------------------------
(* What is on data_sock: Carries is inductive once IInv holds.             *)

\* The child has asked for its idmapped mounts and the monitor has yet to
\* read that.
Asked == \E i \in 1 .. Len(toParent) : toParent[i] = START_SYNC_IDMAPPED_MOUNTS

\* The monitor has sent all that the child waits for after this.
RootfsSent == ppc = "rootfs" => ~conf.rootfs
NamesSent == RootfsSent /\ (ppc \in {"rootfs", "names"} => ~conf.newnet)

\* Mounts, and the end of the mounts once the child is past them.
OnlyMounts ==
    \A i \in 1 .. Len(data) :
        \/ data[i] = "mount"
        \/ data[i] = "done" /\ i = Len(data) /\ cpc \in {"limits", "wait_fds", "warn_father"}

\* What the monitor may have sent ahead of a child that waits for the rootfs.
SentAhead ==
    \/ data = <<>>
    \/ conf.rootfs /\ data = <<"rootfs">>
    \/ conf.rootfs /\ conf.newnet /\ data = <<"rootfs", "names">>
    \/ ~conf.rootfs /\ conf.newnet /\ data = <<"names">>

AtStartup == ppc \in {"startup", "wait_configure", "network"} =>
    ~Asked /\ data = IF cpc = "status" THEN <<"status">> ELSE <<>>
AtRootfs == ppc \in {"rootfs", "names", "wait_idmapped"} /\ ~Asked =>
    /\ cpc \in {"wait_post_configure", "rootfs"} =>
        data = CASE ppc = "rootfs" -> <<>>
                 [] ppc = "names" -> IF conf.rootfs THEN <<"rootfs">> ELSE <<>>
                 [] OTHER -> IF conf.rootfs /\ conf.newnet THEN <<"rootfs", "names">>
                             ELSE IF conf.rootfs THEN <<"rootfs">>
                             ELSE IF conf.newnet THEN <<"names">> ELSE <<>>
    /\ cpc = "names" =>
        RootfsSent /\ data = IF ppc = "wait_idmapped" /\ conf.newnet THEN <<"names">> ELSE <<>>
    /\ cpc = "setup" => NamesSent /\ data = <<>>
AtMounts ==
    /\ ppc \in {"rootfs", "names", "wait_idmapped"} /\ Asked => NamesSent /\ OnlyMounts
    /\ ppc = "idmapped" => OnlyMounts
AtLimits == ppc \in {"wait_limits", "limits"} =>
    data = <<>> /\ cpc \in {"limits", "wait_fds", "warn_father"}
AtFds == ppc = "recv_fds" =>
    /\ Len(data) = sent - rcvd
    /\ \A i \in 1 .. Len(data) : data[i] = conf.fds[rcvd + i]
NoFds == ppc \in OnScript \ {"recv_fds", "ready", "wait_exec"} => rcvd = 0 /\ sent = 0
\* What a monitor that gives up may leave for a child that goes on.
LeftBehind ==
    /\ cpc = "status" => data \in {<<>>, <<"status">>}
    /\ cpc \in {"pdeath", "wait_startup", "userns", "userns_pdeath", "configure"} => data = <<>>
    /\ cpc \in {"wait_post_configure", "rootfs"} => SentAhead
    /\ cpc = "names" => data = <<>> \/ (conf.newnet /\ data = <<"names">>)
AtFailure == ppc \in {"delete_net", "abort"} => LeftBehind

InOrder ==
    /\ ppc = "status" => data = <<>> /\ cpc = "status"
    /\ AtStartup /\ AtRootfs /\ AtMounts /\ AtLimits /\ AtFds /\ NoFds /\ AtFailure

Carries ==
    /\ ppc = "clone" => data = <<>> /\ rcvd = 0 /\ sent = 0
    /\ mon = "alive" /\ cpc \in ChildPC /\ ~lost => InOrder

\* The places of the child where something is on its way to it.
Later == {"setup", "mounts", "wait_ack", "mounts_failed", "limits", "wait_fds", "send_fds",
          "wait_ready", "warn_father"} \cup Released

-----------------------------------------------------------------------------
(* The messages of data_sock.                                              *)

\* The messages of data_sock, one or two at a time.
LEMMA Literals ==
    /\ <<"status">> # <<>> /\ <<"rootfs">> # <<>> /\ <<"names">> # <<>> /\ <<"rootfs", "names">> # <<>>
    /\ Head(<<"status">>) = "status" /\ Tail(<<"status">>) = <<>>
    /\ Head(<<"rootfs">>) = "rootfs" /\ Tail(<<"rootfs">>) = <<>>
    /\ Head(<<"names">>) = "names" /\ Tail(<<"names">>) = <<>>
    /\ Head(<<"rootfs", "names">>) = "rootfs" /\ Tail(<<"rootfs", "names">>) = <<"names">>
    /\ Append(<<>>, "status") = <<"status">> /\ Append(<<>>, "rootfs") = <<"rootfs">>
    /\ Append(<<>>, "names") = <<"names">> /\ Append(<<"rootfs">>, "names") = <<"rootfs", "names">>
    /\ Len(<<>>) = 0
<1>1. <<"status">> # <<>> /\ Head(<<"status">>) = "status" /\ Tail(<<"status">>) = <<>>
    OBVIOUS
<1>2. <<"rootfs">> # <<>> /\ Head(<<"rootfs">>) = "rootfs" /\ Tail(<<"rootfs">>) = <<>>
    OBVIOUS
<1>3. <<"names">> # <<>> /\ Head(<<"names">>) = "names" /\ Tail(<<"names">>) = <<>>
    OBVIOUS
<1>4. <<"rootfs", "names">> # <<>> /\ Head(<<"rootfs", "names">>) = "rootfs"
    OBVIOUS
<1>5. Tail(<<"rootfs", "names">>) = <<"names">>
    OBVIOUS
<1>6. Append(<<>>, "status") = <<"status">> /\ Append(<<>>, "rootfs") = <<"rootfs">>
      /\ Append(<<>>, "names") = <<"names">>
    OBVIOUS
<1>7. Append(<<"rootfs">>, "names") = <<"rootfs", "names">>
  <2> DEFINE q == Append(<<"rootfs">>, "names")
             r == <<"rootfs", "names">>
  <2>1. q \in Seq(DataMsg) /\ Len(q) = 2 /\ q[1] = "rootfs" /\ q[2] = "names"
      BY DataMsgs
  <2>2. r \in Seq(DataMsg) /\ Len(r) = 2 /\ r[1] = "rootfs" /\ r[2] = "names"
      BY DataMsgs
  <2> HIDE DEF q, r
  <2>3. \A i \in 1 .. Len(q) : q[i] = r[i]
      BY <2>1, <2>2
  <2>4. q = r
      BY ZenonT(60), <2>1, <2>2, <2>3, SequencesEqual
  <2> QED
      BY ZenonT(60), <2>4 DEF q, r
<1>8. Len(<<>>) = 0
    OBVIOUS
<1> QED
    BY ZenonT(60), <1>1, <1>2, <1>3, <1>4, <1>5, <1>6, <1>7, <1>8, Zenon

\* What a message sent adds to a socket.
LEMMA AppendElements ==
    ASSUME NEW S, NEW q \in Seq(S), NEW m \in S
    PROVE /\ Len(q) \in Nat /\ Len(Append(q, m)) = Len(q) + 1
          /\ \A i \in 1 .. Len(q) : Append(q, m)[i] = q[i]
          /\ Append(q, m)[Len(q) + 1] = m
OBVIOUS

\* How far the child can be from the monitor.
LEMMA Abreast ==
    ASSUME IInv, mon = "alive", cpc \in ChildPC \ {"warn_father"}, ppc \in OnScript
    PROVE /\ ppc \in {"status", "startup"} => cpc \in {"status", "pdeath", "wait_startup"}
          /\ ppc = "wait_configure" =>
                cpc \in {"status", "pdeath", "wait_startup", "userns", "userns_pdeath", "configure", "wait_post_configure"}
          /\ ppc = "network" => cpc = "wait_post_configure"
          /\ ppc \in {"rootfs", "names", "wait_idmapped"} =>
                cpc \in {"wait_post_configure", "rootfs", "names", "setup", "mounts", "wait_ack",
                        "mounts_failed", "limits", "wait_fds"}
          /\ ppc \in {"idmapped", "wait_limits"} =>
                cpc \in {"mounts", "wait_ack", "mounts_failed", "limits", "wait_fds"}
          /\ ppc = "limits" => cpc = "wait_fds"
          /\ ppc \in {"recv_fds", "ready"} => cpc \in {"wait_fds", "send_fds", "wait_ready"}
          /\ ppc = "wait_exec" => cpc \in {"wait_fds", "send_fds", "wait_ready"} \cup Released
<1> USE DEF ChildPC, Released, OnScript, ParentPC
<1>1. ParentRead <= ChildWrote /\ ChildRead <= ParentWrote
    BY ZenonT(60), InTransit
<1>2. CASE ppc \in {"status", "startup", "wait_configure"}
    BY <1>1, <1>2, SMTT(60) DEF ParentRead, ChildWrote, ChildRead, ParentWrote
<1>3. CASE ppc = "network"
    BY <1>1, <1>3, SMTT(60) DEF ParentRead, ChildWrote, ChildRead, ParentWrote
<1>4. CASE ppc \in {"rootfs", "names", "wait_idmapped"}
    BY <1>1, <1>4, SMTT(60) DEF ParentRead, ChildWrote, ChildRead, ParentWrote
<1>5. CASE ppc \in {"idmapped", "wait_limits"}
    BY <1>1, <1>5, SMTT(60) DEF ParentRead, ChildWrote, ChildRead, ParentWrote
<1>6. CASE ppc = "limits"
    BY <1>1, <1>6, SMTT(60) DEF ParentRead, ChildWrote, ChildRead, ParentWrote
<1>7. CASE ppc \in {"recv_fds", "ready", "wait_exec"}
    BY <1>1, <1>7, SMTT(60) DEF ParentRead, ChildWrote, ChildRead, ParentWrote
<1> QED
    BY ZenonT(60), <1>2, <1>3, <1>4, <1>5, <1>6, <1>7

\* A child that follows the protocol has asked for its mounts exactly when it is
\* past START_SYNC_IDMAPPED_MOUNTS.
LEMMA AskedWhen ==
    ASSUME IInv, mon = "alive", cpc \in ChildPC \ {"warn_father"},
           ppc \in {"status", "startup", "wait_configure", "network", "rootfs", "names", "wait_idmapped"}
    PROVE Asked <=> cpc \in {"mounts", "wait_ack", "mounts_failed", "limits", "wait_fds"}
<1>1. ppc \in OnScript /\ ParentRead \in {0, 1}
    BY ZenonT(60) DEF OnScript, ParentPC, ParentRead
<1>2. PICK pr \in Nat, cw \in Nat : pr = ParentRead /\ cw = ChildWrote /\ cw <= 3 /\ pr <= cw
    BY Progress, InTransit, <1>1, SMTT(60)
<1>3. toParent = Seg(ChildScript, pr, cw)
    BY ZenonT(60), <1>1, <1>2, InTransit
<1>4. Len(toParent) = cw - pr /\ \A i \in 1 .. cw - pr : toParent[i] = ChildScript[pr + i]
  <2>1. ChildScript \in Seq(Int) /\ cw <= Len(ChildScript) /\ pr <= cw
      BY ZenonT(60), <1>2, Scripts
  <2>2. /\ Len(Seg(ChildScript, pr, cw)) = cw - pr
        /\ \A i \in 1 .. cw - pr : Seg(ChildScript, pr, cw)[i] = ChildScript[pr + i]
      BY ZenonT(60), <2>1, Segments
  <2> QED
      BY ZenonT(60), <1>3, <2>2
<1>5. Asked <=> cw >= 2
  <2>1. CASE cw >= 2
    <3>1. 2 - pr \in 1 .. cw - pr /\ pr + (2 - pr) = 2
        BY <2>1, <1>1, <1>2
    <3>2. toParent[2 - pr] = START_SYNC_IDMAPPED_MOUNTS
        BY ZenonT(60), <3>1, <1>4, Scripts
    <3> QED
        BY ZenonT(60), <2>1, <3>1, <3>2, <1>4 DEF Asked
  <2>2. CASE ~(cw >= 2)
    <3>1. \A i \in 1 .. cw - pr : pr + i = 1
        BY <2>2, <1>1, <1>2
    <3>2. \A i \in 1 .. cw - pr : toParent[i] = START_SYNC_CONFIGURE
        BY ZenonT(60), <3>1, <1>4, Scripts
    <3> QED
        BY <2>2, <3>2, <1>4 DEF Asked, START_SYNC_CONFIGURE, START_SYNC_IDMAPPED_MOUNTS
  <2> QED
      BY ZenonT(60), <2>1, <2>2
<1>6. cw >= 2 <=> cpc \in {"mounts", "wait_ack", "mounts_failed", "limits", "wait_fds"}
  <2>1. cpc \notin {"send_fds", "wait_ready", "switch_ids", "conf_pdeath", "exec"}
      BY ZenonT(60), <1>1, Abreast DEF Released
  <2> QED
      BY <1>2, <2>1, SMTT(60) DEF ChildWrote
<1> QED
    BY ZenonT(60), <1>5, <1>6

\* A monitor that gives up leaves on data_sock what the child may still be waiting
\* for, and nothing else.
LEMMA Leaving ==
    ASSUME IInv, InOrder, mon = "alive", cpc \in ChildPC, ppc \in ParentPC \ {"clone"}
    PROVE LeftBehind
<1>1. ASSUME ppc \notin OnScript, cpc # "warn_father" PROVE ppc \in {"delete_net", "abort"}
    BY ZenonT(60), <1>1 DEF IInv, Failing
<1>2. CASE cpc = "warn_father"
    BY ZenonT(60), <1>2 DEF LeftBehind
<1>3. CASE cpc # "warn_father" /\ ppc \notin OnScript
    BY ZenonT(60), <1>1, <1>3 DEF InOrder, AtFailure
<1>4. CASE cpc # "warn_father" /\ ppc \in OnScript
  <2>1. cpc \in ChildPC \ {"warn_father"}
      BY ZenonT(60), <1>4
  <2>2. CASE ppc \in {"status", "startup", "wait_configure", "network"}
      BY ZenonT(60), <1>4, <2>1, <2>2, Abreast DEF InOrder, AtStartup, LeftBehind,
        SentAhead
  <2>3. CASE ppc \in {"rootfs", "names", "wait_idmapped"}
    <3>1. CASE cpc \in {"wait_post_configure", "rootfs", "names", "setup"}
      <4>1. ~Asked
          BY ZenonT(60), <2>1, <2>3, <3>1, AskedWhen
      <4>2. conf.rootfs \in BOOLEAN /\ conf.newnet \in BOOLEAN
          BY ZenonT(60), ConfFields DEF IInv
      <4> QED
          BY ZenonT(60), <2>3, <3>1, <4>1, <4>2 DEF InOrder, AtRootfs, LeftBehind,
            SentAhead
    <3>2. CASE cpc \notin {"wait_post_configure", "rootfs", "names", "setup"}
        BY ZenonT(60), <1>4, <2>1, <2>3, <3>2, Abreast DEF LeftBehind
    <3> QED
        BY ZenonT(60), <3>1, <3>2
  <2>4. CASE ppc \notin {"status", "startup", "wait_configure", "network", "rootfs", "names", "wait_idmapped"}
      BY ZenonT(60), <1>4, <2>1, <2>4, Abreast DEF LeftBehind, OnScript, ParentPC,
        Released
  <2> QED
      BY ZenonT(60), <2>2, <2>3, <2>4
<1> QED
    BY ZenonT(60), <1>2, <1>3, <1>4

\* Steps that leave data_sock, the child and its questions alone.
LEMMA SameData ==
    ASSUME data' = data, cpc' = cpc, conf' = conf
    PROVE /\ LeftBehind => LeftBehind'
          /\ OnlyMounts => OnlyMounts'
          /\ toParent' = toParent => (Asked' <=> Asked)
<1>1. LeftBehind => LeftBehind'
    BY ZenonT(60) DEF LeftBehind, SentAhead
<1>2. OnlyMounts => OnlyMounts'
    BY ZenonT(60) DEF OnlyMounts
<1>3. toParent' = toParent => (Asked' <=> Asked)
    BY ZenonT(60) DEF Asked
<1> QED
    BY ZenonT(60), <1>1, <1>2, <1>3

\* A monitor at its way out has nothing more to say.
LEMMA GivenUp ==
    ASSUME \/ ppc' \in {"ready", "wait_exec", "announce"}
           \/ ppc' \in {"delete_net", "abort"} /\ LeftBehind'
    PROVE InOrder'
BY ZenonT(60) DEF InOrder, AtStartup, AtRootfs, RootfsSent, NamesSent, AtMounts,
  AtLimits, AtFds, NoFds, AtFailure, OnScript, ParentPC

\* The monitor reads a sequence number.
LEMMA AskedTail ==
    ASSUME TypeOK, toParent # <<>>, toParent' = Tail(toParent)
    PROVE /\ Asked' => Asked
          /\ Head(toParent) = START_SYNC_IDMAPPED_MOUNTS => Asked
<1>1. toParent \in Seq(SyncMsg)
    BY ZenonT(60) DEF TypeOK, SocketsOK
<1>2. /\ Len(toParent) \in Nat /\ Len(toParent) >= 1 /\ Head(toParent) = toParent[1]
      /\ Len(Tail(toParent)) = Len(toParent) - 1
      /\ \A i \in 1 .. Len(toParent) - 1 : Tail(toParent)[i] = toParent[i + 1]
    BY ZenonT(60), <1>1, TailElements
<1>3. Asked' => Asked
    BY <1>2, SMTT(60) DEF Asked
<1>4. Head(toParent) = START_SYNC_IDMAPPED_MOUNTS => Asked
    BY <1>2, SMTT(60) DEF Asked
<1> QED
    BY ZenonT(60), <1>3, <1>4

\* The monitor reads a message while only mounts are on their way.
LEMMA MountsTail ==
    ASSUME TypeOK, OnlyMounts, data # <<>>, data' = Tail(data), cpc' = cpc
    PROVE /\ OnlyMounts'
          /\ Head(data) \in {"mount", "done"}
          /\ Head(data) = "done" => data' = <<>> /\ cpc \in {"limits", "wait_fds", "warn_father"}
<1>1. data \in Seq(DataMsg)
    BY ZenonT(60) DEF TypeOK, SocketsOK
<1>2. /\ Len(data) \in Nat /\ Len(data) >= 1 /\ Head(data) = data[1]
      /\ Len(Tail(data)) = Len(data) - 1
      /\ \A i \in 1 .. Len(data) - 1 : Tail(data)[i] = data[i + 1]
    BY ZenonT(60), <1>1, TailElements
<1>3. OnlyMounts'
  <2>1. ASSUME NEW i \in 1 .. Len(data) - 1
        PROVE \/ Tail(data)[i] = "mount"
              \/ /\ Tail(data)[i] = "done" /\ i = Len(data) - 1
                 /\ cpc \in {"limits", "wait_fds", "warn_father"}
    <3>1. i + 1 \in 1 .. Len(data) /\ Tail(data)[i] = data[i + 1]
        BY <1>2
    <3>2. i + 1 = Len(data) => i = Len(data) - 1
      <4>1. i \in Int /\ Len(data) \in Int
          BY <1>2
      <4>2. \A j, n \in Int : j + 1 = n => j = n - 1
          OBVIOUS
      <4> QED
          BY ZenonT(60), <4>1, <4>2, Zenon
    <3> QED
        BY ZenonT(60), <3>1, <3>2 DEF OnlyMounts
  <2> QED
      BY ZenonT(60), <1>2, <2>1, Zenon DEF OnlyMounts
<1>4. 1 \in 1 .. Len(data)
    BY <1>2
<1>5. Head(data) \in {"mount", "done"}
    BY ZenonT(60), <1>2, <1>4 DEF OnlyMounts
<1>6. ASSUME Head(data) = "done" PROVE data' = <<>> /\ cpc \in {"limits", "wait_fds", "warn_father"}
  <2>1. Len(data) = 1 /\ cpc \in {"limits", "wait_fds", "warn_father"}
      BY ZenonT(60), <1>2, <1>4, <1>6 DEF OnlyMounts
  <2>2. Tail(data) \in Seq(DataMsg) /\ Len(Tail(data)) = 0
      BY <1>1, <1>2, <2>1
  <2> QED
      BY ZenonT(60), <2>1, <2>2, NoElements
<1> QED
    BY ZenonT(60), <1>3, <1>5, <1>6

\* lxc_spawn() leaves data_sock in order.
LEMMA ParentData ==
    ASSUME IInv, InOrder, mon = "alive", cpc \in ChildPC, ~lost, ParentStep, cpc' \in ChildPC
    PROVE InOrder'
<1> USE DEF Parent
<1>0. TypeOK /\ Started /\ conf.rootfs \in BOOLEAN /\ conf.newnet \in BOOLEAN
    BY ZenonT(60), ConfFields DEF IInv
<1>a. ASSUME ppc \in ParentPC \ {"clone"}, data' = data, cpc' = cpc, conf' = conf,
             ppc' \in {"delete_net", "abort"}
      PROVE InOrder'
    BY ZenonT(60), <1>a, Leaving, SameData, GivenUp
<1>1. CASE CloneChild
    BY ZenonT(60), <1>0, <1>1 DEF CloneChild, Started, ChildPC
<1>2. CASE SendStatusFd
  <2>0. ppc = "status" /\ cpc' = cpc /\ conf' = conf /\ rcvd' = rcvd /\ sent' = sent
      BY ZenonT(60), <1>2 DEF SendStatusFd, idx
  <2>1. CASE ParentFails
      BY ZenonT(60), <1>a, <2>0, <2>1 DEF ParentFails, ParentPC
  <2>2. CASE data' = Append(data, "status") /\ ppc' = "startup" /\ toParent' = toParent
    <3>1. data' = <<"status">> /\ cpc = "status"
        BY ZenonT(60), <2>0, <2>2, Literals DEF InOrder
    <3>2. ~Asked
        BY ZenonT(60), <2>0, <3>1, AskedWhen DEF ChildPC
    <3>3. ~Asked'
        BY ZenonT(60), <3>2, <2>2 DEF Asked
    <3>4. rcvd = 0 /\ sent = 0
        BY ZenonT(60), <2>0 DEF InOrder, NoFds, OnScript, ParentPC
    <3> QED
        BY ZenonT(60), <2>0, <2>2, <3>1, <3>3, <3>4 DEF InOrder, AtStartup,
          AtRootfs, RootfsSent, NamesSent, AtMounts, AtLimits, AtFds, NoFds,
          AtFailure, OnScript, ParentPC
  <2> QED
      BY ZenonT(60), <1>2, <2>1, <2>2 DEF SendStatusFd
<1>3. CASE WakeStartup
  <2>0. ppc = "startup" /\ cpc' = cpc /\ conf' = conf /\ rcvd' = rcvd /\ sent' = sent /\ data' = data
        /\ toParent' = toParent /\ ppc' \in {"wait_configure", "delete_net"}
      BY ZenonT(60), <1>3 DEF WakeStartup, idx, lxc_sync_wake_child, ParentFails, sock
  <2>1. CASE ppc' = "delete_net"
      BY ZenonT(60), <1>a, <2>0, <2>1 DEF ParentPC
  <2>2. CASE ppc' = "wait_configure"
    <3>1. Asked' <=> Asked
        BY ZenonT(60), <2>0, SameData
    <3> QED
        BY ZenonT(60), <2>0, <2>2, <3>1 DEF InOrder, AtStartup, AtRootfs,
          RootfsSent, NamesSent, AtMounts, AtLimits, AtFds, NoFds, AtFailure,
          OnScript, ParentPC
  <2> QED
      BY ZenonT(60), <2>0, <2>1, <2>2
<1>4. CASE WaitConfigure
  <2>0. ppc = "wait_configure" /\ cpc' = cpc /\ conf' = conf /\ rcvd' = rcvd /\ sent' = sent /\ data' = data
        /\ toParent # <<>> /\ toParent' = Tail(toParent) /\ ppc' \in {"network", "delete_net"}
      BY ZenonT(60), <1>4 DEF WaitConfigure, idx, lxc_sync_wait_child, ChildOpen, sock
  <2>1. CASE ppc' = "delete_net"
      BY ZenonT(60), <1>a, <2>0, <2>1 DEF ParentPC
  <2>2. CASE ppc' = "network"
    <3>1. Asked' => Asked
        BY ZenonT(60), <1>0, <2>0, AskedTail
    <3> QED
        BY ZenonT(60), <2>0, <2>2, <3>1 DEF InOrder, AtStartup, AtRootfs,
          RootfsSent, NamesSent, AtMounts, AtLimits, AtFds, NoFds, AtFailure,
          OnScript, ParentPC
  <2> QED
      BY ZenonT(60), <2>0, <2>1, <2>2
<1>5. CASE CreateNetwork
  <2>0. ppc = "network" /\ cpc' = cpc /\ conf' = conf /\ rcvd' = rcvd /\ sent' = sent /\ data' = data
        /\ toParent' = toParent /\ ppc' \in {"rootfs", "delete_net"}
      BY ZenonT(60), <1>5 DEF CreateNetwork, idx, lxc_sync_wake_child, ParentFails, sock
  <2>1. CASE ppc' = "delete_net"
      BY ZenonT(60), <1>a, <2>0, <2>1 DEF ParentPC
  <2>2. CASE ppc' = "rootfs"
    <3>1. Asked' <=> Asked
        BY ZenonT(60), <2>0, SameData
    <3>2. cpc \in {"wait_post_configure", "warn_father"}
        BY ZenonT(60), <2>0, Abreast DEF OnScript, ParentPC
    <3> QED
        BY ZenonT(60), <2>0, <2>2, <3>1, <3>2 DEF InOrder, AtStartup, AtRootfs,
          RootfsSent, NamesSent, AtMounts, AtLimits, AtFds, NoFds, AtFailure,
          OnScript, ParentPC
  <2> QED
      BY ZenonT(60), <2>0, <2>1, <2>2
<1>6. CASE PrepareRootfsParent
  <2>0. ppc = "rootfs" /\ cpc' = cpc /\ conf' = conf /\ rcvd' = rcvd /\ sent' = sent
      BY ZenonT(60), <1>6 DEF PrepareRootfsParent, idx
  <2>1. CASE ParentFails
      BY ZenonT(60), <1>a, <2>0, <2>1 DEF ParentFails, ParentPC
  <2>2. CASE /\ data' = IF conf.rootfs THEN Append(data, "rootfs") ELSE data
             /\ ppc' = "names" /\ toParent' = toParent
    <3>1. Asked' <=> Asked
        BY ZenonT(60), <2>2 DEF Asked
    <3>2. rcvd = 0 /\ sent = 0
        BY ZenonT(60), <2>0 DEF InOrder, NoFds, OnScript, ParentPC
    <3>3. CASE Asked
      <4>1. OnlyMounts /\ ~conf.rootfs /\ ~conf.newnet
          BY ZenonT(60), <2>0, <3>3 DEF InOrder, AtMounts, NamesSent, RootfsSent
      <4>2. OnlyMounts'
          BY ZenonT(60), <2>0, <2>2, <4>1, SameData
      <4> QED
          BY ZenonT(60), <2>0, <2>2, <3>1, <3>2, <3>3, <4>1, <4>2 DEF InOrder,
            AtStartup, AtRootfs, RootfsSent, NamesSent, AtMounts, AtLimits, AtFds,
            NoFds, AtFailure, OnScript, ParentPC
    <3>4. CASE ~Asked
      <4>1. cpc \in {"wait_post_configure", "rootfs"} =>
                data' = IF conf.rootfs THEN <<"rootfs">> ELSE <<>>
          BY ZenonT(60), <2>0, <2>2, <3>4, Literals DEF InOrder, AtRootfs
      <4>2. cpc = "names" => ~conf.rootfs /\ data' = <<>>
          BY ZenonT(60), <2>0, <2>2, <3>4 DEF InOrder, AtRootfs, RootfsSent
      <4>3. cpc = "setup" => ~conf.rootfs /\ ~conf.newnet /\ data' = <<>>
          BY ZenonT(60), <2>0, <2>2, <3>4 DEF InOrder, AtRootfs, RootfsSent, NamesSent
      <4>4. AtRootfs'
          BY ZenonT(60), <2>0, <2>2, <4>1, <4>2, <4>3 DEF AtRootfs, RootfsSent, NamesSent
      <4> QED
          BY ZenonT(60), <2>0, <2>2, <3>1, <3>2, <3>4, <4>4
          DEF InOrder, AtStartup, AtMounts, AtLimits, AtFds, NoFds, AtFailure
    <3> QED
        BY ZenonT(60), <3>3, <3>4
  <2> QED
      BY ZenonT(60), <1>6, <2>1, <2>2 DEF PrepareRootfsParent
<1>7. CASE SendNamesToChild
  <2>0. ppc = "names" /\ cpc' = cpc /\ conf' = conf /\ rcvd' = rcvd /\ sent' = sent
      BY ZenonT(60), <1>7 DEF SendNamesToChild, idx
  <2>1. CASE ParentFails
      BY ZenonT(60), <1>a, <2>0, <2>1 DEF ParentFails, ParentPC
  <2>2. CASE /\ data' = IF conf.newnet THEN Append(data, "names") ELSE data
             /\ ppc' = "wait_idmapped" /\ toParent' = toParent
    <3>1. Asked' <=> Asked
        BY ZenonT(60), <2>2 DEF Asked
    <3>2. rcvd = 0 /\ sent = 0
        BY ZenonT(60), <2>0 DEF InOrder, NoFds, OnScript, ParentPC
    <3>3. CASE Asked
      <4>1. OnlyMounts /\ ~conf.newnet
          BY ZenonT(60), <2>0, <3>3 DEF InOrder, AtMounts, NamesSent, RootfsSent
      <4>2. OnlyMounts'
          BY ZenonT(60), <2>0, <2>2, <4>1, SameData
      <4> QED
          BY ZenonT(60), <2>0, <2>2, <3>1, <3>2, <3>3, <4>1, <4>2 DEF InOrder,
            AtStartup, AtRootfs, RootfsSent, NamesSent, AtMounts, AtLimits, AtFds,
            NoFds, AtFailure, OnScript, ParentPC
    <3>4. CASE ~Asked
      <4>1. cpc \in {"wait_post_configure", "rootfs"} =>
                data' = IF conf.rootfs /\ conf.newnet THEN <<"rootfs", "names">>
                        ELSE IF conf.rootfs THEN <<"rootfs">>
                        ELSE IF conf.newnet THEN <<"names">> ELSE <<>>
          BY ZenonT(60), <2>0, <2>2, <3>4, Literals DEF InOrder, AtRootfs
      <4>2. cpc = "names" => data' = IF conf.newnet THEN <<"names">> ELSE <<>>
          BY ZenonT(60), <2>0, <2>2, <3>4, Literals DEF InOrder, AtRootfs
      <4>3. cpc = "setup" => ~conf.newnet /\ data' = <<>>
          BY ZenonT(60), <2>0, <2>2, <3>4 DEF InOrder, AtRootfs, NamesSent
      <4>4. AtRootfs'
          BY ZenonT(60), <2>0, <2>2, <4>1, <4>2, <4>3 DEF AtRootfs, RootfsSent, NamesSent
      <4> QED
          BY ZenonT(60), <2>0, <2>2, <3>1, <3>2, <3>4, <4>4
          DEF InOrder, AtStartup, AtMounts, AtLimits, AtFds, NoFds, AtFailure
    <3> QED
        BY ZenonT(60), <3>3, <3>4
  <2> QED
      BY ZenonT(60), <1>7, <2>1, <2>2 DEF SendNamesToChild
<1>8. CASE WaitIdmappedMounts
  <2>0. ppc = "wait_idmapped" /\ cpc' = cpc /\ conf' = conf /\ rcvd' = rcvd /\ sent' = sent /\ data' = data
        /\ toParent # <<>> /\ toParent' = Tail(toParent)
        /\ ppc' = IF Head(toParent) = START_SYNC_IDMAPPED_MOUNTS THEN "idmapped" ELSE "delete_net"
      BY ZenonT(60), <1>8 DEF WaitIdmappedMounts, idx, lxc_sync_wait_child, ChildOpen, sock
  <2>1. CASE ppc' = "delete_net"
      BY ZenonT(60), <1>a, <2>0, <2>1 DEF ParentPC
  <2>2. CASE ppc' = "idmapped"
    <3>1. Asked
        BY ZenonT(60), <1>0, <2>0, <2>2, AskedTail
    <3>2. OnlyMounts
        BY ZenonT(60), <2>0, <3>1 DEF InOrder, AtMounts
    <3>3. OnlyMounts'
        BY ZenonT(60), <2>0, <3>2, SameData
    <3> QED
        BY ZenonT(60), <2>0, <2>2, <3>3 DEF InOrder, AtStartup, AtRootfs,
          RootfsSent, NamesSent, AtMounts, AtLimits, AtFds, NoFds, AtFailure,
          OnScript, ParentPC
  <2> QED
      BY ZenonT(60), <2>0, <2>1, <2>2
<1>9. CASE IdmapMountParent
  <2>0. ppc = "idmapped" /\ cpc' = cpc /\ conf' = conf /\ rcvd' = rcvd /\ sent' = sent
        /\ data # <<>> /\ data' = Tail(data) /\ ppc' \in {"idmapped", "wait_limits", "delete_net"}
        /\ (ppc' = "wait_limits" => NumFds[Head(data)] = 0)
      BY ZenonT(60), <1>9 DEF IdmapMountParent
  <2>1. OnlyMounts
      BY ZenonT(60), <2>0 DEF InOrder, AtMounts
  <2>2. /\ OnlyMounts' /\ Head(data) \in {"mount", "done"}
        /\ Head(data) = "done" => data' = <<>> /\ cpc \in {"limits", "wait_fds", "warn_father"}
      BY ZenonT(60), <1>0, <2>0, <2>1, MountsTail
  <2>3. CASE ppc' = "delete_net"
    <3>1. LeftBehind'
        BY ZenonT(60), <2>0, Abreast DEF LeftBehind, OnScript, ParentPC
    <3> QED
        BY ZenonT(60), <2>3, <3>1, GivenUp
  <2>4. CASE ppc' = "idmapped"
      BY ZenonT(60), <2>0, <2>2, <2>4 DEF InOrder, AtStartup, AtRootfs, RootfsSent,
        NamesSent, AtMounts, AtLimits, AtFds, NoFds, AtFailure, OnScript, ParentPC
  <2>5. CASE ppc' = "wait_limits"
    <3>1. NumFds["mount"] = 2
        BY ZenonT(60) DEF NumFds, DataMsg
    <3>2. Head(data) = "done"
        BY <2>0, <2>2, <2>5, <3>1
    <3> QED
        BY ZenonT(60), <2>0, <2>2, <2>5, <3>2 DEF InOrder, AtStartup, AtRootfs,
          RootfsSent, NamesSent, AtMounts, AtLimits, AtFds, NoFds, AtFailure,
          OnScript, ParentPC
  <2> QED
      BY ZenonT(60), <2>0, <2>3, <2>4, <2>5
<1>10. CASE WaitCgroupLimits
  <2>0. ppc = "wait_limits" /\ cpc' = cpc /\ conf' = conf /\ rcvd' = rcvd /\ sent' = sent /\ data' = data
        /\ ppc' \in {"limits", "delete_net"}
      BY ZenonT(60), <1>10 DEF WaitCgroupLimits, idx, lxc_sync_wait_child, ChildOpen, sock
  <2>1. CASE ppc' = "delete_net"
      BY ZenonT(60), <1>a, <2>0, <2>1 DEF ParentPC
  <2>2. CASE ppc' = "limits"
      BY ZenonT(60), <2>0, <2>2 DEF InOrder, AtStartup, AtRootfs, RootfsSent,
        NamesSent, AtMounts, AtLimits, AtFds, NoFds, AtFailure, OnScript, ParentPC
  <2> QED
      BY ZenonT(60), <2>0, <2>1, <2>2
<1>11. CASE SetupLimitsWakeFds
  <2>0. ppc = "limits" /\ cpc' = cpc /\ conf' = conf /\ rcvd' = rcvd /\ sent' = sent /\ data' = data
        /\ ppc' \in {"recv_fds", "delete_net"}
      BY ZenonT(60), <1>11 DEF SetupLimitsWakeFds, idx, lxc_sync_wake_child, ParentFails, sock
  <2>1. CASE ppc' = "delete_net"
      BY ZenonT(60), <1>a, <2>0, <2>1 DEF ParentPC
  <2>2. CASE ppc' = "recv_fds"
    <3>1. data = <<>> /\ rcvd = 0 /\ sent = 0
        BY ZenonT(60), <2>0 DEF InOrder, AtLimits, NoFds, OnScript, ParentPC
    <3> QED
        BY <2>0, <2>2, <3>1, Literals, SMTT(60) DEF InOrder, AtStartup, AtRootfs,
          RootfsSent, NamesSent, AtMounts, AtLimits, AtFds, NoFds, AtFailure,
          OnScript, ParentPC
  <2> QED
      BY ZenonT(60), <2>0, <2>1, <2>2
<1>12. CASE RecvFdsParent
  <2>0. ppc = "recv_fds" /\ cpc' = cpc /\ conf' = conf /\ sent' = sent
      BY ZenonT(60), <1>12 DEF RecvFdsParent
  <2>1. CASE ParentFails
      BY ZenonT(60), <1>a, <2>0, <2>1 DEF ParentFails, ParentPC
  <2>2. CASE ppc' = "ready"
      BY ZenonT(60), <2>2, GivenUp
  <2>3. CASE data # <<>> /\ data' = Tail(data) /\ ppc' = "delete_net"
    <3>1. LeftBehind'
        BY ZenonT(60), <2>0, Abreast DEF LeftBehind, OnScript, ParentPC
    <3> QED
        BY ZenonT(60), <2>3, <3>1, GivenUp
  <2>4. CASE data # <<>> /\ data' = Tail(data) /\ rcvd' = rcvd + 1 /\ ppc' = ppc
    <3>1. data \in Seq(DataMsg) /\ rcvd \in Nat /\ sent \in Nat
        BY ZenonT(60), <1>0 DEF TypeOK, SocketsOK, CountersOK
    <3>2. /\ Len(data) \in Nat /\ Len(data) >= 1 /\ Len(Tail(data)) = Len(data) - 1
          /\ \A i \in 1 .. Len(data) - 1 : Tail(data)[i] = data[i + 1]
        BY ZenonT(60), <2>4, <3>1, TailElements
    <3>3. Len(data) = sent - rcvd /\ \A i \in 1 .. Len(data) : data[i] = conf.fds[rcvd + i]
        BY ZenonT(60), <2>0 DEF InOrder, AtFds
    <3>4. \A i \in 1 .. Len(data) - 1 : i + 1 \in 1 .. Len(data) /\ rcvd + (i + 1) = (rcvd + 1) + i
        BY <3>1, <3>2
    <3>5. AtFds'
        BY SMTT(60), <2>0, <2>4, <3>1, <3>2, <3>3, <3>4 DEF AtFds
    <3> QED
        BY ZenonT(60), <2>0, <2>4, <3>5 DEF InOrder, AtStartup, AtRootfs, AtMounts,
          AtLimits, NoFds, AtFailure
  <2> QED
      BY ZenonT(60), <1>12, <2>1, <2>2, <2>3, <2>4 DEF RecvFdsParent
<1>13. CASE WakeReadyStart
  <2>0. ppc = "ready" /\ cpc' = cpc /\ conf' = conf /\ data' = data /\ ppc' \in {"wait_exec", "delete_net"}
      BY ZenonT(60), <1>13 DEF WakeReadyStart, lxc_sync_wake_child, ParentFails, sock
  <2> QED
      BY ZenonT(60), <1>a, <2>0, GivenUp DEF ParentPC
<1>14. CASE WaitExec
  <2>0. ppc = "wait_exec" /\ cpc' = cpc /\ conf' = conf /\ data' = data /\ ppc' \in {"announce", "delete_net"}
      BY ZenonT(60), <1>14 DEF WaitExec, lxc_sync_wait_child, sock
  <2> QED
      BY ZenonT(60), <1>a, <2>0, GivenUp DEF ParentPC
<1>15. CASE AnnounceRunning
    BY ZenonT(60), <1>0, <1>15 DEF AnnounceRunning, Started, ChildPC
<1>16. CASE DeleteNet
  <2>0. ppc = "delete_net" /\ cpc' = cpc /\ conf' = conf /\ data' = data /\ ppc' = "abort"
      BY ZenonT(60), <1>16 DEF DeleteNet, sock
  <2> QED
      BY ZenonT(60), <1>a, <2>0 DEF ParentPC
<1>17. CASE lxc_abort
    BY ZenonT(60), <1>17 DEF lxc_abort, ChildPC
<1> QED
    BY ZenonT(60), <1>1, <1>2, <1>3, <1>4, <1>5, <1>6, <1>7, <1>8, <1>9, <1>10, <1>11, <1>12,
      <1>13, <1>14, <1>15, <1>16, <1>17 DEF ParentStep

\* What a child that goes on without its monitor finds.
LEMMA LeftStep ==
    ASSUME IInv, LeftBehind, cpc \in ChildPC, ChildStep, cpc' \in ChildPC
    PROVE LeftBehind'
<1> USE DEF Child, ChildFails, lxc_sync_wait_parent, lxc_sync_wake_parent,
  ParentOpen, lxc_set_death_signal, sock
<1>0. conf.rootfs \in BOOLEAN /\ conf.newnet \in BOOLEAN
    BY ZenonT(60), ConfFields DEF IInv
<1>a. ASSUME cpc' \in Later PROVE LeftBehind'
    BY ZenonT(60), <1>a DEF LeftBehind, Later, Released
<1>1. CASE RecvStatusFd
  <2>1. cpc' \in {"pdeath", "warn_father"} /\ data' = <<>>
      BY ZenonT(60), <1>1, Literals DEF RecvStatusFd, LeftBehind
  <2> QED
      BY ZenonT(60), <2>1 DEF LeftBehind
<1>2. CASE SetDeathSignal
    BY ZenonT(60), <1>2 DEF SetDeathSignal, LeftBehind, ChildPC
<1>3. CASE WaitStartup
    BY ZenonT(60), <1>3 DEF WaitStartup, LeftBehind
<1>4. CASE BecomeRoot
    BY ZenonT(60), <1>4 DEF BecomeRoot, LeftBehind
<1>5. CASE ResetDeathSignal
    BY ZenonT(60), <1>5 DEF ResetDeathSignal, LeftBehind, ChildPC
<1>6. CASE WakeConfigure
    BY ZenonT(60), <1>6 DEF WakeConfigure, LeftBehind, SentAhead, ChildPC
<1>7. CASE WaitPostConfigure
    BY ZenonT(60), <1>7 DEF WaitPostConfigure, LeftBehind, SentAhead
<1>8. CASE PrepareRootfsChild
  <2>1. cpc = "rootfs" /\ cpc' \in {"names", "warn_father"} /\ conf' = conf
        /\ data' = (IF conf.rootfs THEN Tail(data) ELSE data) /\ (conf.rootfs => data # <<>>)
      BY ZenonT(60), <1>8 DEF PrepareRootfsChild
  <2>2. SentAhead
      BY ZenonT(60), <2>1 DEF LeftBehind
  <2>3. data' = <<>> \/ (conf.newnet /\ data' = <<"names">>)
      BY ZenonT(60), <1>0, <2>1, <2>2, Literals DEF SentAhead
  <2> QED
      BY ZenonT(60), <2>1, <2>3 DEF LeftBehind
<1>9. CASE RecvNamesFromParent
    BY ZenonT(60), <1>a, <1>9 DEF RecvNamesFromParent, Later
<1>10. CASE SetupMounts
    BY ZenonT(60), <1>a, <1>10 DEF SetupMounts, Later, ChildPC
<1>11. CASE IdmapMountChild \/ RecvMountAck
    BY ZenonT(60), <1>a, <1>11 DEF IdmapMountChild, RecvMountAck, Later
<1>12. CASE MountsDone
    BY ZenonT(60), <1>a, <1>12 DEF MountsDone, Later
<1>13. CASE WakeCgroupLimits \/ WaitFds
    BY ZenonT(60), <1>a, <1>13 DEF WakeCgroupLimits, WaitFds, Later, ChildPC
<1>14. CASE SendFdsChild
    BY ZenonT(60), <1>a, <1>14 DEF SendFdsChild, Later
<1>15. CASE WaitReadyStart \/ SwitchIds \/ ConfDeathSignal \/ Exec \/ WarnFather
    BY ZenonT(60), <1>a, <1>15 DEF WaitReadyStart, SwitchIds, ConfDeathSignal, Exec,
      WarnFather, Later, Released, ChildPC
<1> QED
    BY ZenonT(60), <1>1, <1>2, <1>3, <1>4, <1>5, <1>6, <1>7, <1>8, <1>9, <1>10, <1>11, <1>12,
      <1>13, <1>14, <1>15 DEF ChildStep

\* A child that gives up leaves data_sock as it is.
LEMMA Warned ==
    ASSUME InOrder, cpc # "status", cpc' = "warn_father", data' = data, ppc' = ppc, conf' = conf,
           toParent' = toParent, rcvd' = rcvd, sent' = sent
    PROVE InOrder'
<1>1. OnlyMounts => OnlyMounts'
    BY ZenonT(60) DEF OnlyMounts
<1>2. Asked' <=> Asked
    BY ZenonT(60) DEF Asked
<1>3. LeftBehind'
    BY ZenonT(60) DEF LeftBehind
<1> QED
    BY ZenonT(60), <1>1, <1>2, <1>3
    DEF InOrder, AtStartup, AtRootfs, AtMounts, NamesSent, RootfsSent, AtLimits,
      AtFds, NoFds, AtFailure

\* The child writes a sequence number.
LEMMA AskedAppend ==
    ASSUME TypeOK, NEW m \in SyncMsg, toParent' = Append(toParent, m)
    PROVE Asked' <=> Asked \/ m = START_SYNC_IDMAPPED_MOUNTS
<1>1. toParent \in Seq(SyncMsg)
    BY ZenonT(60) DEF TypeOK, SocketsOK
<1>2. /\ Len(toParent) \in Nat /\ Len(toParent') = Len(toParent) + 1
      /\ \A i \in 1 .. Len(toParent) : toParent'[i] = toParent[i]
      /\ toParent'[Len(toParent) + 1] = m
    BY ZenonT(60), <1>1, AppendElements
<1> QED
    BY <1>2, SMTT(60) DEF Asked

\* The child sends a mount, or the end of the mounts.
LEMMA MountsAppend ==
    ASSUME TypeOK, OnlyMounts, cpc \in {"mounts", "mounts_failed"},
           \/ data' = Append(data, "mount")
           \/ data' = Append(data, "done") /\ cpc' \in {"limits", "warn_father"}
    PROVE OnlyMounts'
<1>1. data \in Seq(DataMsg)
    BY ZenonT(60) DEF TypeOK, SocketsOK
<1>2. PICK m \in {"mount", "done"} : data' = Append(data, m) /\ (m = "done" => cpc' \in {"limits", "warn_father"})
    OBVIOUS
<1>3. /\ Len(data) \in Nat /\ Len(data') = Len(data) + 1
      /\ \A i \in 1 .. Len(data) : data'[i] = data[i]
      /\ data'[Len(data) + 1] = m
    BY <1>1, <1>2, AppendElements, DataMsgs
<1>4. \A i \in 1 .. Len(data) : data[i] = "mount"
    BY ZenonT(60) DEF OnlyMounts
<1> SUFFICES ASSUME NEW i \in 1 .. Len(data')
             PROVE \/ data'[i] = "mount"
                   \/ /\ data'[i] = "done" /\ i = Len(data')
                      /\ cpc' \in {"limits", "wait_fds", "warn_father"}
    BY ZenonT(60) DEF OnlyMounts
<1>5. i \in 1 .. Len(data) \/ i = Len(data) + 1
    BY <1>3
<1> QED
    BY ZenonT(60), <1>2, <1>3, <1>4, <1>5

\* do_start() leaves data_sock in order, as long as lxc_spawn() follows the protocol.
LEMMA ChildData ==
    ASSUME IInv, InOrder, mon = "alive", cpc \in ChildPC, ~lost, ppc \in OnScript, ChildStep,
           cpc' \in ChildPC, ~lost'
    PROVE InOrder'
<1> USE DEF Child, ChildFails, lxc_sync_wait_parent, lxc_sync_wake_parent,
  ParentOpen, lxc_set_death_signal,
        sock, sync, idx
<1>0. TypeOK /\ conf.rootfs \in BOOLEAN /\ conf.newnet \in BOOLEAN
    BY ZenonT(60), ConfFields DEF IInv
<1>1. ASSUME cpc \in {"pdeath", "wait_startup", "userns", "userns_pdeath"},
             cpc' \in {"wait_startup", "userns", "userns_pdeath", "configure"},
             data' = data, toParent' = toParent, ppc' = ppc, conf' = conf, rcvd' = rcvd, sent' = sent
      PROVE InOrder'
  <2>1. ppc \in {"status", "startup", "wait_configure"}
      BY ZenonT(60), <1>1, Abreast DEF OnScript, ParentPC, ChildPC, Released
  <2>2. Asked' <=> Asked
      BY ZenonT(60), <1>1 DEF Asked
  <2> QED
      BY ZenonT(60), <1>1, <2>1, <2>2 DEF InOrder, AtStartup, AtRootfs, RootfsSent,
        NamesSent, AtMounts, AtLimits, AtFds, NoFds, AtFailure, OnScript, ParentPC
<1>2. CASE RecvStatusFd
  <2>0. cpc = "status" /\ data # <<>> /\ data' = Tail(data) /\ toParent' = toParent
        /\ ppc' = ppc /\ conf' = conf /\ rcvd' = rcvd /\ sent' = sent
        /\ cpc' \in {"pdeath", "warn_father"}
      BY ZenonT(60), <1>2 DEF RecvStatusFd
  <2>1. ppc \in {"startup", "wait_configure"}
      BY ZenonT(60), <2>0, Abreast DEF InOrder, OnScript, ParentPC, ChildPC, Released
  <2>2. data' = <<>>
      BY ZenonT(60), <2>0, <2>1, Literals DEF InOrder, AtStartup
  <2>3. Asked' <=> Asked
      BY ZenonT(60), <2>0 DEF Asked
  <2> QED
      BY ZenonT(60), <2>0, <2>1, <2>2, <2>3 DEF InOrder, AtStartup, AtRootfs,
        RootfsSent, NamesSent, AtMounts, AtLimits, AtFds, NoFds, AtFailure,
        OnScript, ParentPC
<1>3. CASE SetDeathSignal
    BY ZenonT(60), <1>1, <1>3, Warned DEF SetDeathSignal, ChildPC
<1>4. CASE WaitStartup
    BY ZenonT(60), <1>1, <1>4, Warned DEF WaitStartup
<1>5. CASE BecomeRoot
  <2>0. cpc = "userns" /\ data' = data /\ toParent' = toParent /\ ppc' = ppc /\ conf' = conf
        /\ rcvd' = rcvd /\ sent' = sent /\ cpc' \in {"userns_pdeath", "warn_father"}
      BY ZenonT(60), <1>5 DEF BecomeRoot
  <2> QED
      BY ZenonT(60), <1>1, <2>0, Warned
<1>6. CASE ResetDeathSignal
    BY ZenonT(60), <1>1, <1>6, Warned DEF ResetDeathSignal, ChildPC
<1>7. CASE WakeConfigure
  <2>1. CASE ChildFails
      BY ZenonT(60), <1>7, <2>1, Warned DEF WakeConfigure
  <2>2. CASE toParent' = Append(toParent, START_SYNC_CONFIGURE) /\ cpc' = "wait_post_configure" /\ data' = data
    <3>0. cpc = "configure" /\ ppc' = ppc /\ conf' = conf /\ rcvd' = rcvd /\ sent' = sent
        BY ZenonT(60), <1>7 DEF WakeConfigure
    <3>1. ppc = "wait_configure"
        BY ZenonT(60), <3>0, Abreast DEF OnScript, ParentPC, ChildPC, Released
    <3>2. Asked' <=> Asked
        BY <1>0, <2>2, SyncMsgs, AskedAppend DEF START_SYNC_CONFIGURE,
          START_SYNC_IDMAPPED_MOUNTS
    <3> QED
        BY ZenonT(60), <2>2, <3>0, <3>1, <3>2 DEF InOrder, AtStartup, AtRootfs,
          RootfsSent, NamesSent, AtMounts, AtLimits, AtFds, NoFds, AtFailure,
          OnScript, ParentPC
  <2> QED
      BY ZenonT(60), <1>7, <2>1, <2>2 DEF WakeConfigure, ChildPC
<1>8. CASE WaitPostConfigure
  <2>0. cpc = "wait_post_configure" /\ data' = data /\ toParent' = toParent
        /\ ppc' = ppc /\ conf' = conf /\ rcvd' = rcvd /\ sent' = sent
        /\ cpc' \in {"rootfs", "warn_father"}
      BY ZenonT(60), <1>8 DEF WaitPostConfigure
  <2>1. CASE cpc' = "warn_father"
      BY ZenonT(60), <2>0, <2>1, Warned
  <2>2. CASE cpc' = "rootfs"
    <3>1. Asked' <=> Asked
        BY ZenonT(60), <2>0 DEF Asked
    <3>2. ppc \in {"wait_configure", "network", "rootfs", "names", "wait_idmapped"} /\ ~Asked
        BY ZenonT(60), <2>0, Abreast, AskedWhen DEF OnScript, ParentPC, ChildPC, Released
    <3> QED
        BY ZenonT(60), <2>0, <2>2, <3>1, <3>2 DEF InOrder, AtStartup, AtRootfs,
          RootfsSent, NamesSent, AtMounts, AtLimits, AtFds, NoFds, AtFailure,
          OnScript, ParentPC
  <2> QED
      BY ZenonT(60), <2>0, <2>1, <2>2
<1>9. CASE PrepareRootfsChild
  <2>0. cpc = "rootfs" /\ data' = (IF conf.rootfs THEN Tail(data) ELSE data) /\ toParent' = toParent
        /\ ppc' = ppc /\ conf' = conf /\ rcvd' = rcvd /\ sent' = sent
        /\ cpc' \in {"names", "warn_father"} /\ (conf.rootfs => data # <<>>)
      BY ZenonT(60), <1>9 DEF PrepareRootfsChild
  <2>1. Asked' <=> Asked
      BY ZenonT(60), <2>0 DEF Asked
  <2>2. ppc \in {"rootfs", "names", "wait_idmapped"} /\ ~Asked
      BY ZenonT(60), <2>0, Abreast, AskedWhen DEF OnScript, ParentPC, ChildPC, Released
  <2>3. /\ ppc = "rootfs" => ~conf.rootfs
        /\ data' = IF ppc = "wait_idmapped" /\ conf.newnet THEN <<"names">> ELSE <<>>
    <3>1. CASE ppc = "rootfs"
        BY ZenonT(60), <1>0, <2>0, <2>2, <3>1 DEF InOrder, AtRootfs
    <3>2. CASE ppc = "names"
      <4>1. data = IF conf.rootfs THEN <<"rootfs">> ELSE <<>>
          BY ZenonT(60), <2>0, <2>2, <3>2 DEF InOrder, AtRootfs
      <4> QED
          BY ZenonT(60), <1>0, <2>0, <3>2, <4>1, Literals
    <3>3. CASE ppc = "wait_idmapped"
      <4>1. data = IF conf.rootfs /\ conf.newnet THEN <<"rootfs", "names">>
                   ELSE IF conf.rootfs THEN <<"rootfs">>
                   ELSE IF conf.newnet THEN <<"names">> ELSE <<>>
          BY ZenonT(60), <2>0, <2>2, <3>3 DEF InOrder, AtRootfs
      <4> QED
          BY ZenonT(60), <1>0, <2>0, <3>3, <4>1, Literals
    <3> QED
        BY ZenonT(60), <2>2, <3>1, <3>2, <3>3
  <2>4. RootfsSent'
      BY ZenonT(60), <2>0, <2>3 DEF RootfsSent
  <2>5. AtRootfs'
      BY ZenonT(60), <2>0, <2>3, <2>4 DEF AtRootfs
  <2> QED
      BY ZenonT(60), <2>0, <2>1, <2>2, <2>5
      DEF InOrder, AtStartup, AtMounts, AtLimits, AtFds, NoFds, AtFailure,
        OnScript, ParentPC
<1>10. CASE RecvNamesFromParent
  <2>0. cpc = "names" /\ data' = (IF conf.newnet THEN Tail(data) ELSE data) /\ toParent' = toParent
        /\ ppc' = ppc /\ conf' = conf /\ rcvd' = rcvd /\ sent' = sent
        /\ cpc' \in {"setup", "warn_father"} /\ (conf.newnet => data # <<>>)
      BY ZenonT(60), <1>10 DEF RecvNamesFromParent
  <2>1. Asked' <=> Asked
      BY ZenonT(60), <2>0 DEF Asked
  <2>2. ppc \in {"rootfs", "names", "wait_idmapped"} /\ ~Asked
      BY ZenonT(60), <2>0, Abreast, AskedWhen DEF OnScript, ParentPC, ChildPC, Released
  <2>3. NamesSent /\ data' = <<>>
    <3>1. RootfsSent /\ data = IF ppc = "wait_idmapped" /\ conf.newnet THEN <<"names">> ELSE <<>>
        BY ZenonT(60), <2>0, <2>2 DEF InOrder, AtRootfs
    <3>2. data' = <<>> /\ (ppc \in {"rootfs", "names"} => ~conf.newnet)
        BY ZenonT(60), <1>0, <2>0, <2>2, <3>1, Literals
    <3> QED
        BY ZenonT(60), <3>1, <3>2 DEF NamesSent
  <2> QED
      BY ZenonT(60), <2>0, <2>1, <2>2, <2>3 DEF InOrder, AtStartup, AtRootfs,
        RootfsSent, NamesSent, AtMounts, AtLimits, AtFds, NoFds, AtFailure,
        OnScript, ParentPC
<1>11. CASE SetupMounts
  <2>1. CASE ChildFails
      BY ZenonT(60), <1>11, <2>1, Warned DEF SetupMounts
  <2>2. CASE toParent' = Append(toParent, START_SYNC_IDMAPPED_MOUNTS) /\ cpc' = "mounts" /\ data' = data
    <3>0. cpc = "setup" /\ ppc' = ppc /\ conf' = conf /\ rcvd' = rcvd /\ sent' = sent
        BY ZenonT(60), <1>11 DEF SetupMounts
    <3>1. ppc \in {"rootfs", "names", "wait_idmapped"} /\ ~Asked
        BY ZenonT(60), <3>0, Abreast, AskedWhen DEF OnScript, ParentPC, ChildPC, Released
    <3>2. Asked'
        BY ZenonT(60), <1>0, <2>2, SyncMsgs, AskedAppend
    <3>3. NamesSent /\ data = <<>>
        BY ZenonT(60), <3>0, <3>1 DEF InOrder, AtRootfs
    <3>4. OnlyMounts'
        BY <2>2, <3>3, Literals DEF OnlyMounts
    <3> QED
        BY ZenonT(60), <2>2, <3>0, <3>1, <3>2, <3>3, <3>4 DEF InOrder, AtStartup,
          AtRootfs, RootfsSent, NamesSent, AtMounts, AtLimits, AtFds, NoFds,
          AtFailure, OnScript, ParentPC
  <2> QED
      BY ZenonT(60), <1>11, <2>1, <2>2 DEF SetupMounts, ChildPC
<1>12. ASSUME cpc \in {"mounts", "wait_ack", "mounts_failed"}
       PROVE /\ OnlyMounts
             /\ \/ ppc \in {"rootfs", "names", "wait_idmapped"} /\ Asked /\ NamesSent
                \/ ppc = "idmapped"
  <2>1. ppc \in {"rootfs", "names", "wait_idmapped", "idmapped"}
      BY ZenonT(60), <1>12, Abreast DEF InOrder, AtLimits, OnScript, ParentPC,
        ChildPC, Released
  <2>2. ppc # "idmapped" => Asked
      BY ZenonT(60), <1>12, <2>1, AskedWhen DEF ChildPC
  <2> QED
      BY ZenonT(60), <2>1, <2>2 DEF InOrder, AtMounts
<1>13. ASSUME cpc \in {"mounts", "wait_ack", "mounts_failed"}, OnlyMounts', toParent' = toParent,
              cpc' \in {"mounts", "wait_ack", "mounts_failed", "limits", "warn_father"},
              ppc' = ppc, conf' = conf, rcvd' = rcvd, sent' = sent
       PROVE InOrder'
  <2>1. Asked' <=> Asked
      BY ZenonT(60), <1>13 DEF Asked
  <2> QED
      BY ZenonT(60), <1>12, <1>13, <2>1 DEF InOrder, AtStartup, AtRootfs,
        RootfsSent, NamesSent, AtMounts, AtLimits, AtFds, NoFds, AtFailure,
        OnScript, ParentPC
<1>14. CASE IdmapMountChild
  <2>0. cpc = "mounts" /\ toParent' = toParent /\ ppc' = ppc /\ conf' = conf /\ rcvd' = rcvd /\ sent' = sent
        /\ cpc' \in {"mounts", "wait_ack", "mounts_failed"}
      BY ZenonT(60), <1>14 DEF IdmapMountChild
  <2>1. OnlyMounts'
    <3>1. CASE data' = Append(data, "mount")
        BY ZenonT(60), <1>0, <1>12, <2>0, <3>1, MountsAppend
    <3>2. CASE data' = data
        BY ZenonT(60), <1>12, <2>0, <3>2 DEF OnlyMounts
    <3> QED
        BY ZenonT(60), <1>14, <3>1, <3>2 DEF IdmapMountChild
  <2> QED
      BY ZenonT(60), <1>13, <2>0, <2>1
<1>15. CASE RecvMountAck
  <2>0. cpc = "wait_ack" /\ toParent' = toParent /\ ppc' = ppc /\ conf' = conf /\ rcvd' = rcvd /\ sent' = sent
        /\ cpc' \in {"mounts", "mounts_failed"} /\ data' = data
      BY ZenonT(60), <1>15 DEF RecvMountAck
  <2>1. OnlyMounts'
      BY ZenonT(60), <1>12, <2>0 DEF OnlyMounts
  <2> QED
      BY ZenonT(60), <1>13, <2>0, <2>1
<1>16. CASE MountsDone
  <2>0. cpc \in {"mounts", "mounts_failed"} /\ toParent' = toParent /\ ppc' = ppc /\ conf' = conf
        /\ rcvd' = rcvd /\ sent' = sent /\ cpc' \in {"limits", "warn_father"} /\ data' = Append(data, "done")
      BY ZenonT(60), <1>16 DEF MountsDone
  <2>1. OnlyMounts'
      BY ZenonT(60), <1>0, <1>12, <2>0, MountsAppend
  <2> QED
      BY ZenonT(60), <1>13, <2>0, <2>1
<1>17. CASE WakeCgroupLimits
  <2>1. CASE ChildFails
      BY ZenonT(60), <1>17, <2>1, Warned DEF WakeCgroupLimits
  <2>2. CASE toParent' = Append(toParent, START_SYNC_CGROUP_LIMITS) /\ cpc' = "wait_fds" /\ data' = data
    <3>0. cpc = "limits" /\ ppc' = ppc /\ conf' = conf /\ rcvd' = rcvd /\ sent' = sent
        BY ZenonT(60), <1>17 DEF WakeCgroupLimits
    <3>1. ppc \in {"rootfs", "names", "wait_idmapped", "idmapped", "wait_limits"}
        BY ZenonT(60), <3>0, Abreast DEF OnScript, ParentPC, ChildPC, Released
    <3>2. ppc \in {"rootfs", "names", "wait_idmapped"} => Asked
        BY ZenonT(60), <3>0, AskedWhen DEF ChildPC
    <3>3. Asked' <=> Asked
        BY <1>0, <2>2, SyncMsgs, AskedAppend DEF START_SYNC_CGROUP_LIMITS,
          START_SYNC_IDMAPPED_MOUNTS
    <3>4. OnlyMounts => OnlyMounts'
        BY ZenonT(60), <2>2 DEF OnlyMounts
    <3> QED
        BY ZenonT(60), <2>2, <3>0, <3>1, <3>2, <3>3, <3>4 DEF InOrder, AtStartup,
          AtRootfs, RootfsSent, NamesSent, AtMounts, AtLimits, AtFds, NoFds,
          AtFailure, OnScript, ParentPC
  <2> QED
      BY ZenonT(60), <1>17, <2>1, <2>2 DEF WakeCgroupLimits, ChildPC
<1>18. ASSUME ppc \in {"recv_fds", "ready", "wait_exec"}, data' = data, ppc' = ppc, conf' = conf,
              rcvd' = rcvd, sent' = sent
       PROVE InOrder'
    BY ZenonT(60), <1>18 DEF InOrder, AtStartup, AtRootfs, RootfsSent, NamesSent,
      AtMounts, AtLimits, AtFds, NoFds, AtFailure, OnScript, ParentPC
<1>19. CASE WaitFds
  <2>0. cpc = "wait_fds" /\ data' = data /\ toParent' = toParent /\ toChild # <<>>
        /\ ppc' = ppc /\ conf' = conf /\ rcvd' = rcvd /\ sent' = sent
        /\ cpc' \in {"send_fds", "warn_father"}
      BY ZenonT(60), <1>19 DEF WaitFds
  <2>1. CASE cpc' = "warn_father"
      BY ZenonT(60), <2>0, <2>1, Warned
  <2>2. CASE cpc' = "send_fds"
    <3>1. ChildRead = 2
        BY ZenonT(60), <2>0 DEF ChildRead
    <3>2. ParentWrote >= 3
        BY <2>0, <3>1, InTransit, Progress DEF ChildPC
    <3>3. ppc \in {"recv_fds", "ready", "wait_exec"}
        BY <3>2, SMTT(60) DEF ParentWrote, OnScript, ParentPC
    <3> QED
        BY ZenonT(60), <1>18, <2>0, <3>3
  <2> QED
      BY ZenonT(60), <2>0, <2>1, <2>2
<1>20. CASE SendFdsChild
  <2>0. cpc = "send_fds" /\ ppc' = ppc /\ conf' = conf /\ rcvd' = rcvd
      BY ZenonT(60), <1>20 DEF SendFdsChild
  <2>1. ppc \in {"recv_fds", "ready", "wait_exec"}
      BY ZenonT(60), <2>0, Abreast DEF OnScript, ParentPC, ChildPC, Released
  <2>2. CASE data' = data /\ sent' = sent
      BY ZenonT(60), <1>18, <2>0, <2>1, <2>2
  <2>3. CASE sent < Len(conf.fds) /\ data' = Append(data, conf.fds[sent + 1]) /\ sent' = sent + 1
    <3>1. data \in Seq(DataMsg) /\ sent \in Nat /\ rcvd \in Nat /\ conf.fds[sent + 1] \in DataMsg
        BY <1>0, <2>3, ConfFields, DataMsgs DEF TypeOK, SocketsOK, CountersOK
    <3>2. /\ Len(data) \in Nat /\ Len(data') = Len(data) + 1
          /\ \A i \in 1 .. Len(data) : data'[i] = data[i]
          /\ data'[Len(data) + 1] = conf.fds[sent + 1]
        BY <2>3, <3>1, AppendElements
    <3>3. AtFds'
      <4> SUFFICES ASSUME ppc = "recv_fds"
                   PROVE /\ Len(data') = sent' - rcvd'
                         /\ \A i \in 1 .. Len(data') : data'[i] = conf.fds[rcvd' + i]
          BY ZenonT(60), <2>0 DEF AtFds
      <4>1. Len(data) = sent - rcvd /\ \A i \in 1 .. Len(data) : data[i] = conf.fds[rcvd + i]
          BY ZenonT(60) DEF InOrder, AtFds
      <4>2. Len(data') = sent' - rcvd'
          BY SMTT(60), <2>0, <2>3, <3>1, <3>2, <4>1
      <4>3. ASSUME NEW i \in 1 .. Len(data') PROVE data'[i] = conf.fds[rcvd' + i]
        <5>1. i \in 1 .. Len(data) \/ i = Len(data) + 1
            BY <3>2
        <5>2. rcvd + (Len(data) + 1) = sent + 1
            BY <3>1, <3>2, <4>1
        <5> QED
            BY ZenonT(60), <2>0, <3>2, <4>1, <5>1, <5>2
      <4> QED
          BY ZenonT(60), <4>2, <4>3
    <3> QED
        BY ZenonT(60), <2>0, <2>1, <3>3 DEF InOrder, AtStartup, AtRootfs, AtMounts,
          AtLimits, NoFds, AtFailure
  <2>4. CASE lost' = TRUE
      BY ZenonT(60), <2>4
  <2> QED
      BY ZenonT(60), <1>20, <2>2, <2>3, <2>4 DEF SendFdsChild
<1>21. CASE WaitReadyStart \/ SwitchIds \/ ConfDeathSignal \/ Exec
  <2>0. cpc \in {"wait_ready"} \cup Released /\ data' = data
        /\ ppc' = ppc /\ conf' = conf /\ rcvd' = rcvd /\ sent' = sent
      BY ZenonT(60), <1>21 DEF WaitReadyStart, SwitchIds, ConfDeathSignal, Exec, Released
  <2>1. ppc \in {"recv_fds", "ready", "wait_exec"}
      BY ZenonT(60), <2>0, Abreast DEF OnScript, ParentPC, ChildPC, Released
  <2> QED
      BY ZenonT(60), <1>18, <2>0, <2>1
<1>22. CASE WarnFather
    BY ZenonT(60), <1>22 DEF WarnFather, ChildPC
<1> QED
    BY ZenonT(60), <1>2, <1>3, <1>4, <1>5, <1>6, <1>7, <1>8, <1>9, <1>10, <1>11, <1>14, <1>15,
      <1>16,
      <1>17, <1>19, <1>20, <1>21, <1>22 DEF ChildStep

\* A step of lxc_spawn() changes neither the monitor's life nor the child's, but
\* for clone() and lxc_abort().
LEMMA ParentFrame ==
    ASSUME ParentStep
    PROVE /\ mon = "alive" /\ mon' = mon /\ lost' = lost /\ ppc' # "clone"
          /\ cpc' = cpc \/ CloneChild \/ lxc_abort
<1> USE DEF Parent, ParentFails, lxc_sync_wait_child, lxc_sync_wake_child
<1>1. CASE CloneChild  BY ZenonT(60), <1>1 DEF CloneChild
<1>2. CASE SendStatusFd  BY ZenonT(60), <1>2 DEF SendStatusFd
<1>3. CASE WakeStartup  BY ZenonT(60), <1>3 DEF WakeStartup
<1>4. CASE WaitConfigure  BY ZenonT(60), <1>4 DEF WaitConfigure
<1>5. CASE CreateNetwork  BY ZenonT(60), <1>5 DEF CreateNetwork
<1>6. CASE PrepareRootfsParent  BY ZenonT(60), <1>6 DEF PrepareRootfsParent
<1>7. CASE SendNamesToChild  BY ZenonT(60), <1>7 DEF SendNamesToChild
<1>8. CASE WaitIdmappedMounts  BY ZenonT(60), <1>8 DEF WaitIdmappedMounts
<1>9. CASE IdmapMountParent  BY ZenonT(60), <1>9 DEF IdmapMountParent
<1>10. CASE WaitCgroupLimits  BY ZenonT(60), <1>10 DEF WaitCgroupLimits
<1>11. CASE SetupLimitsWakeFds  BY ZenonT(60), <1>11 DEF SetupLimitsWakeFds
<1>12. CASE RecvFdsParent  BY ZenonT(60), <1>12 DEF RecvFdsParent
<1>13. CASE WakeReadyStart  BY ZenonT(60), <1>13 DEF WakeReadyStart
<1>14. CASE WaitExec  BY ZenonT(60), <1>14 DEF WaitExec
<1>15. CASE AnnounceRunning  BY ZenonT(60), <1>15 DEF AnnounceRunning
<1>16. CASE DeleteNet  BY ZenonT(60), <1>16 DEF DeleteNet
<1>17. CASE lxc_abort  BY ZenonT(60), <1>17 DEF lxc_abort
<1> QED
    BY ZenonT(60), <1>1, <1>2, <1>3, <1>4, <1>5, <1>6, <1>7, <1>8, <1>9, <1>10, <1>11,
      <1>12, <1>13, <1>14, <1>15, <1>16, <1>17 DEF ParentStep

\* A step of do_start() is one of a live child, and leaves the monitor alone.
LEMMA ChildFrame ==
    ASSUME ChildStep
    PROVE cpc \in ChildPC /\ ppc' = ppc /\ mon' = mon /\ (lost => lost')
<1> USE DEF Child, lxc_set_death_signal, ChildPC
<1>1. CASE RecvStatusFd  BY ZenonT(60), <1>1 DEF RecvStatusFd
<1>2. CASE SetDeathSignal  BY ZenonT(60), <1>2 DEF SetDeathSignal
<1>3. CASE WaitStartup  BY ZenonT(60), <1>3 DEF WaitStartup
<1>4. CASE BecomeRoot  BY ZenonT(60), <1>4 DEF BecomeRoot
<1>5. CASE ResetDeathSignal  BY ZenonT(60), <1>5 DEF ResetDeathSignal
<1>6. CASE WakeConfigure  BY ZenonT(60), <1>6 DEF WakeConfigure
<1>7. CASE WaitPostConfigure  BY ZenonT(60), <1>7 DEF WaitPostConfigure
<1>8. CASE PrepareRootfsChild  BY ZenonT(60), <1>8 DEF PrepareRootfsChild
<1>9. CASE RecvNamesFromParent  BY ZenonT(60), <1>9 DEF RecvNamesFromParent
<1>10. CASE SetupMounts  BY ZenonT(60), <1>10 DEF SetupMounts
<1>11. CASE IdmapMountChild  BY ZenonT(60), <1>11 DEF IdmapMountChild
<1>12. CASE RecvMountAck  BY ZenonT(60), <1>12 DEF RecvMountAck
<1>13. CASE MountsDone  BY <1>13 DEF MountsDone
<1>14. CASE WakeCgroupLimits  BY ZenonT(60), <1>14 DEF WakeCgroupLimits
<1>15. CASE WaitFds  BY ZenonT(60), <1>15 DEF WaitFds
<1>16. CASE SendFdsChild  BY <1>16 DEF SendFdsChild
<1>17. CASE WaitReadyStart  BY ZenonT(60), <1>17 DEF WaitReadyStart
<1>18. CASE SwitchIds  BY ZenonT(60), <1>18 DEF SwitchIds
<1>19. CASE ConfDeathSignal  BY ZenonT(60), <1>19 DEF ConfDeathSignal
<1>20. CASE Exec  BY ZenonT(60), <1>20 DEF Exec
<1>21. CASE WarnFather  BY ZenonT(60), <1>21 DEF WarnFather
<1> QED
    BY ZenonT(60), <1>1, <1>2, <1>3, <1>4, <1>5, <1>6, <1>7, <1>8, <1>9, <1>10, <1>11,
      <1>12, <1>13, <1>14, <1>15, <1>16, <1>17, <1>18, <1>19, <1>20, <1>21
      DEF ChildStep

\* Every step leaves data_sock in order.
LEMMA CarriesStep == IInv /\ Carries /\ [Next]_vars => Carries'
<1> SUFFICES ASSUME IInv, Carries, [Next]_vars PROVE Carries'
    OBVIOUS
<1>0. TypeOK /\ Started
    BY ZenonT(60) DEF IInv
<1>1. ASSUME ppc' = "clone" PROVE data' = <<>> /\ rcvd' = 0 /\ sent' = 0
  <2>1. CASE ParentStep
      BY ZenonT(60), <1>1, <2>1, ParentFrame
  <2>2. CASE ChildStep
    <3>1. ppc' = ppc /\ cpc \in ChildPC
        BY ZenonT(60), <2>2, ChildFrame
    <3> QED
        BY ZenonT(60), <1>0, <1>1, <3>1 DEF Started, ChildPC
  <2>3. CASE KillChild \/ MonitorExits \/ MonitorDead \/ UNCHANGED vars
      BY ZenonT(60), <1>1, <2>3 DEF KillChild, MonitorExits, MonitorDead, vars, sock, idx, Carries
  <2> QED
      BY ZenonT(60), <2>1, <2>2, <2>3 DEF Next
<1>2. ASSUME mon' = "alive", cpc' \in ChildPC, ~lost' PROVE InOrder'
  <2>0. mon = "alive" /\ ~lost
    <3>1. CASE ParentStep
        BY <1>2, <3>1, ParentFrame
    <3>2. CASE ChildStep
        BY ZenonT(60), <1>2, <3>2, ChildFrame
    <3>3. CASE KillChild \/ MonitorExits \/ MonitorDead \/ UNCHANGED vars
        BY <1>2, <3>3 DEF KillChild, MonitorExits, MonitorDead, vars
    <3> QED
        BY ZenonT(60), <3>1, <3>2, <3>3 DEF Next
  <2>1. CASE CloneChild
    <3>1. ppc = "clone" /\ ppc' = "status" /\ cpc' = "status" /\ data' = data /\ rcvd' = rcvd /\ sent' = sent
        BY ZenonT(60), <1>0, <1>2, <2>1 DEF CloneChild, Parent, Started, ChildPC, sock, idx
    <3>2. data = <<>> /\ rcvd = 0 /\ sent = 0
        BY ZenonT(60), <3>1 DEF Carries
    <3> QED
        BY ZenonT(60), <3>1, <3>2
        DEF InOrder, AtStartup, AtRootfs, AtMounts, AtLimits, AtFds, NoFds, AtFailure
  <2>2. CASE ParentStep /\ ~CloneChild
    <3>1. cpc \in ChildPC
        BY ZenonT(60), <1>2, <2>2, ParentFrame DEF lxc_abort, ChildPC
    <3> QED
        BY ZenonT(60), <1>2, <2>0, <2>2, <3>1, ParentData DEF Carries
  <2>3. CASE ChildStep
    <3>1. ppc' = ppc /\ cpc \in ChildPC
        BY ZenonT(60), <2>3, ChildFrame
    <3>2. InOrder
        BY ZenonT(60), <2>0, <3>1 DEF Carries
    <3>3. CASE ppc \in OnScript
        BY ZenonT(60), <1>2, <2>0, <2>3, <3>1, <3>2, <3>3, ChildData
    <3>4. CASE ppc \in {"delete_net", "abort"}
      <4>1. LeftBehind
          BY ZenonT(60), <3>2, <3>4 DEF InOrder, AtFailure
      <4>2. LeftBehind'
          BY ZenonT(60), <1>2, <2>3, <3>1, <4>1, LeftStep
      <4> QED
          BY ZenonT(60), <3>1, <3>4, <4>2, GivenUp
    <3> QED
        BY ZenonT(60), <1>0, <3>1, <3>3, <3>4 DEF TypeOK, ControlOK, Started, ParentPC,
          ParentEnd, OnScript, ChildPC
  <2>4. CASE KillChild \/ MonitorExits \/ MonitorDead
      BY ZenonT(60), <1>2, <2>4 DEF KillChild, MonitorExits, MonitorDead, ChildPC
  <2>5. CASE UNCHANGED vars
    <3>1. InOrder
        BY ZenonT(60), <1>2, <2>5 DEF Carries, vars
    <3> QED
        BY <2>5, <3>1 DEF vars, InOrder, AtStartup, AtRootfs, AtMounts, AtLimits,
          AtFds, NoFds,
          AtFailure, Asked, RootfsSent, NamesSent, OnlyMounts, LeftBehind, SentAhead
  <2> QED
      BY ZenonT(60), <2>1, <2>2, <2>3, <2>4, <2>5 DEF Next
<1> QED
    BY ZenonT(60), <1>1, <1>2 DEF Carries

\* In order, the message at the head is the one its receiver waits for.
LEMMA CarriesImplies == IInv /\ Carries => RightReceiver
<1> SUFFICES ASSUME IInv, Carries, mon = "alive", cpc \in ChildPC, ~lost, data # <<>>
             PROVE /\ cpc = "status" => Head(data) = "status"
                   /\ cpc = "rootfs" /\ conf.rootfs => Head(data) = "rootfs"
                   /\ cpc = "names" /\ conf.newnet => Head(data) = "names"
                   /\ ppc = "idmapped" => Head(data) \in {"mount", "done"}
                   /\ ppc = "recv_fds" => rcvd < sent /\ Head(data) = conf.fds[rcvd + 1]
    BY ZenonT(60) DEF RightReceiver
<1>0. TypeOK /\ Started /\ InOrder /\ data \in Seq(DataMsg) /\ rcvd \in Nat /\ sent \in Nat
    BY ZenonT(60) DEF IInv, Carries, TypeOK, SocketsOK, CountersOK
<1>1. Len(data) \in Nat /\ Len(data) >= 1 /\ Head(data) = data[1] /\ 1 \in 1 .. Len(data)
    BY <1>0, TailElements
<1>2. LeftBehind
  <2>1. ppc \in ParentPC \ {"clone"}
      BY ZenonT(60), <1>0 DEF TypeOK, ControlOK, Started, ParentEnd, ChildPC
  <2> QED
      BY ZenonT(60), <1>0, <2>1, Leaving
<1>3. cpc = "status" => Head(data) = "status"
    BY ZenonT(60), <1>2, Literals DEF LeftBehind
<1>4. cpc = "rootfs" /\ conf.rootfs => Head(data) = "rootfs"
    BY ZenonT(60), <1>2, Literals DEF LeftBehind, SentAhead
<1>5. cpc = "names" /\ conf.newnet => Head(data) = "names"
    BY ZenonT(60), <1>2, Literals DEF LeftBehind
<1>6. ppc = "idmapped" => Head(data) \in {"mount", "done"}
    BY ZenonT(60), <1>0, <1>1 DEF InOrder, AtMounts, OnlyMounts
<1>7. ppc = "recv_fds" => rcvd < sent /\ Head(data) = conf.fds[rcvd + 1]
    BY <1>0, <1>1 DEF InOrder, AtFds
<1> QED
    BY ZenonT(60), <1>3, <1>4, <1>5, <1>6, <1>7

-----------------------------------------------------------------------------

\* Both processes hold both ends of data_sock, and yet, for every set of
\* configurations, neither lxc_spawn() nor do_start() takes a message that was not
\* meant for it, or another one than it waits for.
THEOREM SpawnRightReceiver == Spec => []RightReceiver
<1>1. Init => Carries
    BY ZenonT(60) DEF Init, Carries, ChildPC
<1> QED
    BY <1>1, IInvInit, IInvStep, CarriesStep, CarriesImplies, PTL DEF Spec
=============================================================================
