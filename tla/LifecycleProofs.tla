-------------------------- MODULE LifecycleProofs --------------------------
(***************************************************************************)
(* The safety properties of Lifecycle for every set of start calls.        *)
(***************************************************************************)
EXTENDS Lifecycle, TLAPS

\* Where the init may be alive, and where the monitor is before that.
Alive == {"spawned", "poll", "abort_net", "crashed"}
Before == {"daemonize", "init", "prepare", "spawn", "spawned"}
After == {"poll", "reap", "abort_net", "end", "stopped", "post_stop", "over",
          "reboot", "crashed"}

\* The command socket belongs to one start call; a starter that is about to
\* fork, and a monitor that has not closed it, hold it.
Held(i) ==
    /\ spc[i] = "fork" => S(i) \in sock
    /\ spc[i] \in {"idle", "fork"} => mpc[i] = "none"
    /\ mpc[i] \in MonitorPC \ {"post_stop"} => M(i) \in sock
    /\ mpc[i] = "post_stop" /\ reboot[i] # "NONE" => M(i) \in sock
Holders ==
    /\ \A x, y \in sock : x[2] = y[2]
    /\ \A i \in Start : Held(i)

\* An init lives between clone() and the step that reaps it, while the state
\* is not STOPPED.
InitAlive(i) ==
    /\ child[i] = "alive" => mpc[i] \in Alive
    /\ mpc[i] \in {"prepare", "spawn", "spawned", "poll", "abort_net"} =>
          hstate[i] # "STOPPED"

\* Until the first announcement the monitor's end of the socketpair is open
\* and nothing has been sent; only a container that ran reboots.
Announced(i) ==
    /\ ran[i] = "no" => reboot[i] = "NONE" /\ mpc[i] # "reboot"
    /\ ran[i] = "no" => mpc[i] \notin {"poll", "reap", "abort_net"}
    /\ i \in Daemonized /\ ran[i] = "no" /\ mpc[i] \in Before =>
          pair[i].w /\ pair[i].msg = "none" /\ spc[i] \in {"wait", "killed"}
    /\ i \in Daemonized /\ mpc[i] \in {"prepare", "spawn", "spawned"} => dset[i]
    /\ i \in Daemonized /\ spc[i] \in {"idle", "fork"} =>
          pair[i].msg = "none" /\ (spc[i] = "fork" => pair[i].w)
    /\ spc[i] \in {"idle", "fork"} => ran[i] = "no"
    /\ spc[i] = "false" => mpc[i] \notin Before
    /\ pair[i].msg # "none" => ~pair[i].w
    /\ pair[i].msg = "RUNNING" => ran[i] # "no"
    /\ spc[i] = "wait" /\ ran[i] # "no" => pair[i].msg = "RUNNING"

\* What a run that reached RUNNING has taken is released on the way out.
RunReleased(i) ==
    ran[i] = "now" =>
        /\ mpc[i] \in After
        /\ mpc[i] \in {"end", "stopped", "post_stop", "over", "reboot"} => ~net[i] /\ ~blk[i]
        /\ mpc[i] \in {"stopped", "post_stop", "over", "reboot"} => ~cg[i]

Inits == \A i \in Start : InitAlive(i)
Announcement == \A i \in Start : Announced(i)
Released == \A i \in Start : RunReleased(i)

\* The inductive invariant.
IInv == TypeOK /\ Holders /\ Inits /\ Announcement /\ Released /\ StartVerdict

Step(i) ==
    \/ StarterStep(i) \/ Interrupted(i) \/ MonitorStep(i) \/ PollFails(i)
    \/ InitExecs(i) \/ InitDies(i) \/ OtherSignal(i)
    \/ MonitorKilled(i) \/ StarterKilled(i)

Others(i) ==
    \A j \in Start \ {i} :
        /\ spc'[j] = spc[j] /\ mpc'[j] = mpc[j] /\ pair'[j] = pair[j]
        /\ dset'[j] = dset[j] /\ hstate'[j] = hstate[j] /\ reboot'[j] = reboot[j]
        /\ child'[j] = child[j] /\ ran'[j] = ran[j]
        /\ blk'[j] = blk[j] /\ cg'[j] = cg[j] /\ net'[j] = net[j]

-----------------------------------------------------------------------------
\* A step keeps the types of the control states.
LEMMA ControlTypeStep ==
    ASSUME TypeOK, NEW i \in Start, Step(i)
    PROVE  ControlType'
<1> USE DEF At, Goto, res, sig, TypeOK, ControlType, StarterPC,
            MonitorPC, MonitorEnd
<1>1. CASE lxc_init_handler(i)
    BY ZenonT(60), <1>1 DEF lxc_init_handler
<1>2. CASE ForkMonitor(i)
    BY ZenonT(60), <1>2 DEF ForkMonitor
<1>3. CASE wait_on_daemonized_start(i)
    BY ZenonT(60), <1>3 DEF wait_on_daemonized_start
<1>4. CASE Interrupted(i)
    BY ZenonT(60), <1>4 DEF Interrupted
<1>5. CASE Daemonize(i)
    BY ZenonT(60), <1>5 DEF Daemonize, Leave
<1>6. CASE Reboot(i)
    BY ZenonT(60), <1>6 DEF Reboot, Leave
<1>7. CASE LxcInit(i)
    BY ZenonT(60), <1>7 DEF LxcInit
<1>8. CASE Prepare(i)
    BY ZenonT(60), <1>8 DEF Prepare
<1>9. CASE SpawnClone(i)
    BY ZenonT(60), <1>9 DEF SpawnClone
<1>10. CASE SpawnFinish(i)
    BY ZenonT(60), <1>10 DEF SpawnFinish, lxc_abort
<1>11. CASE signal_handler(i)
    BY ZenonT(60), <1>11 DEF signal_handler
<1>12. CASE PollFails(i)
    BY ZenonT(60), <1>12 DEF PollFails
<1>13. CASE Reap(i)
    BY ZenonT(60), <1>13 DEF Reap
<1>14. CASE Abort(i)
    BY ZenonT(60), <1>14 DEF Abort, lxc_abort
<1>15. CASE End(i)
    BY ZenonT(60), <1>15 DEF End
<1>16. CASE Stopped(i)
    BY ZenonT(60), <1>16 DEF Stopped
<1>17. CASE PostStop(i)
    BY ZenonT(60), <1>17 DEF PostStop, Leave
<1>18. CASE InitExecs(i)
    BY ZenonT(60), <1>18 DEF InitExecs
<1>19. CASE InitDies(i)
    BY ZenonT(60), <1>19 DEF InitDies, Signalled
<1>20. CASE OtherSignal(i)
    BY ZenonT(60), <1>20 DEF OtherSignal, Signalled
<1>21. CASE MonitorKilled(i)
    BY ZenonT(60), <1>21 DEF MonitorKilled
<1>22. CASE StarterKilled(i)
    BY ZenonT(60), <1>22 DEF StarterKilled
<1> QED
    BY ZenonT(60), <1>1, <1>2, <1>3, <1>4, <1>5, <1>6, <1>7, <1>8, <1>9, <1>10, <1>11, <1>12,
       <1>13, <1>14, <1>15, <1>16, <1>17, <1>18, <1>19, <1>20, <1>21, <1>22
    DEF Step, StarterStep, MonitorStep

\* A state the program announces is a message of the socketpair.
LEMMA SetStateType ==
    ASSUME SocketType, NEW i \in Start, NEW state \in State, lxc_set_state(i, state)
    PROVE  pair' \in [Start -> [w : BOOLEAN, msg : State \cup {"none"}]]
<1>1. CASE pair' = pair
    BY ZenonT(60), <1>1 DEF SocketType
<1>2. CASE pair' = [pair EXCEPT ![i] = [w |-> FALSE, msg |-> state]]
    <2>1. [w |-> FALSE, msg |-> state] \in [w : BOOLEAN, msg : State \cup {"none"}]
        OBVIOUS
    <2> QED BY ZenonT(60), <1>2, <2>1 DEF SocketType
<1> QED BY ZenonT(60), <1>1, <1>2 DEF lxc_set_state

\* The holders of the socket.
LEMMA HolderType ==
    ASSUME NEW i \in Start
    PROVE  {S(i), M(i), C(i)} \subseteq {"starter", "monitor", "child"} \X Start
BY DEF S, M, C

\* A step keeps the types of the sockets.
LEMMA SocketTypeStep ==
    ASSUME TypeOK, NEW i \in Start, Step(i)
    PROVE  SocketType'
<1> USE DEF At, Goto, res, sig, TypeOK, SocketType, State
<1>1. CASE lxc_init_handler(i)
    <2>1. sock' \subseteq {"starter", "monitor", "child"} \X Start
        BY ZenonT(60), <1>1, HolderType DEF lxc_init_handler
    <2>2. pair' \in [Start -> [w : BOOLEAN, msg : State \cup {"none"}]]
        BY ZenonT(60), <1>1 DEF lxc_init_handler
    <2> QED BY ZenonT(60), <2>1, <2>2
<1>2. CASE ForkMonitor(i)
    <2>1. sock' \subseteq {"starter", "monitor", "child"} \X Start
        BY ZenonT(60), <1>2, HolderType DEF ForkMonitor
    <2>2. pair' \in [Start -> [w : BOOLEAN, msg : State \cup {"none"}]]
        BY ZenonT(60), <1>2 DEF ForkMonitor
    <2> QED BY ZenonT(60), <2>1, <2>2
<1>3. CASE wait_on_daemonized_start(i)
    BY <1>3 DEF wait_on_daemonized_start
<1>4. CASE Interrupted(i)
    BY ZenonT(60), <1>4 DEF Interrupted
<1>5. CASE Daemonize(i)
    BY ZenonT(60), <1>5 DEF Daemonize, Leave
<1>6. CASE Reboot(i)
    BY ZenonT(60), <1>6 DEF Reboot, Leave
<1>7. CASE LxcInit(i)
    BY ZenonT(60), <1>7 DEF LxcInit, lxc_set_state
<1>8. CASE Prepare(i)
    BY ZenonT(60), <1>8 DEF Prepare
<1>9. CASE SpawnClone(i)
    <2>1. sock' \subseteq {"starter", "monitor", "child"} \X Start
        BY ZenonT(60), <1>9, HolderType DEF SpawnClone
    <2>2. pair' \in [Start -> [w : BOOLEAN, msg : State \cup {"none"}]]
        BY ZenonT(60), <1>9 DEF SpawnClone
    <2> QED BY ZenonT(60), <2>1, <2>2
<1>10. CASE SpawnFinish(i)
    <2>1. sock' \subseteq {"starter", "monitor", "child"} \X Start
        BY ZenonT(60), <1>10, HolderType DEF SpawnFinish, lxc_abort
    <2>2. pair' \in [Start -> [w : BOOLEAN, msg : State \cup {"none"}]]
        BY ZenonT(60), <1>10, SetStateType DEF SpawnFinish, lxc_abort
    <2> QED BY ZenonT(60), <2>1, <2>2
<1>11. CASE signal_handler(i)
    BY ZenonT(60), <1>11 DEF signal_handler
<1>12. CASE PollFails(i)
    BY ZenonT(60), <1>12 DEF PollFails
<1>13. CASE Reap(i)
    BY ZenonT(60), <1>13 DEF Reap
<1>14. CASE Abort(i)
    <2>1. sock' \subseteq {"starter", "monitor", "child"} \X Start
        BY ZenonT(60), <1>14, HolderType DEF Abort, lxc_abort
    <2>2. pair' \in [Start -> [w : BOOLEAN, msg : State \cup {"none"}]]
        BY ZenonT(60), <1>14, SetStateType DEF Abort, lxc_abort
    <2> QED BY ZenonT(60), <2>1, <2>2
<1>15. CASE End(i)
    <2>1. sock' \subseteq {"starter", "monitor", "child"} \X Start
        BY ZenonT(60), <1>15, HolderType DEF End
    <2>2. pair' \in [Start -> [w : BOOLEAN, msg : State \cup {"none"}]]
        BY ZenonT(60), <1>15, SetStateType DEF End
    <2> QED BY ZenonT(60), <2>1, <2>2
<1>16. CASE Stopped(i)
    <2>1. sock' \subseteq {"starter", "monitor", "child"} \X Start
        BY ZenonT(60), <1>16, HolderType DEF Stopped
    <2>2. pair' \in [Start -> [w : BOOLEAN, msg : State \cup {"none"}]]
        BY ZenonT(60), <1>16, SetStateType DEF Stopped
    <2> QED BY ZenonT(60), <2>1, <2>2
<1>17. CASE PostStop(i)
    BY ZenonT(60), <1>17 DEF PostStop, Leave
<1>18. CASE InitExecs(i)
    BY ZenonT(60), <1>18 DEF InitExecs
<1>19. CASE InitDies(i)
    BY ZenonT(60), <1>19 DEF InitDies, Signalled
<1>20. CASE OtherSignal(i)
    BY ZenonT(60), <1>20 DEF OtherSignal, Signalled
<1>21. CASE MonitorKilled(i)
    BY ZenonT(60), <1>21 DEF MonitorKilled
<1>22. CASE StarterKilled(i)
    BY ZenonT(60), <1>22 DEF StarterKilled
<1> QED
    BY ZenonT(60), <1>1, <1>2, <1>3, <1>4, <1>5, <1>6, <1>7, <1>8, <1>9, <1>10, <1>11, <1>12,
       <1>13, <1>14, <1>15, <1>16, <1>17, <1>18, <1>19, <1>20, <1>21, <1>22
    DEF Step, StarterStep, MonitorStep

\* A step keeps the types of the states.
LEMMA StateTypeStep ==
    ASSUME TypeOK, NEW i \in Start, Step(i)
    PROVE  StateType'
<1> USE DEF At, Goto, res, sig, TypeOK, StateType, StateLost, State
<1>1. CASE lxc_init_handler(i)
    BY ZenonT(60), <1>1 DEF lxc_init_handler
<1>2. CASE ForkMonitor(i)
    BY ZenonT(60), <1>2 DEF ForkMonitor
<1>3. CASE wait_on_daemonized_start(i)
    BY ZenonT(60), <1>3 DEF wait_on_daemonized_start
<1>4. CASE Interrupted(i)
    BY ZenonT(60), <1>4 DEF Interrupted
<1>5. CASE Daemonize(i)
    BY ZenonT(60), <1>5 DEF Daemonize, Leave
<1>6. CASE Reboot(i)
    BY ZenonT(60), <1>6 DEF Reboot, Leave
<1>7. CASE LxcInit(i)
    BY ZenonT(60), <1>7 DEF LxcInit, lxc_set_state
<1>8. CASE Prepare(i)
    BY ZenonT(60), <1>8 DEF Prepare
<1>9. CASE SpawnClone(i)
    BY ZenonT(60), <1>9 DEF SpawnClone
<1>10. CASE SpawnFinish(i)
    BY <1>10 DEF SpawnFinish, lxc_set_state, lxc_abort
<1>11. CASE signal_handler(i)
    BY ZenonT(60), <1>11 DEF signal_handler
<1>12. CASE PollFails(i)
    BY ZenonT(60), <1>12 DEF PollFails
<1>13. CASE Reap(i)
    BY ZenonT(60), <1>13 DEF Reap
<1>14. CASE Abort(i)
    BY ZenonT(60), <1>14 DEF Abort, lxc_set_state, lxc_abort
<1>15. CASE End(i)
    BY ZenonT(60), <1>15 DEF End, lxc_set_state
<1>16. CASE Stopped(i)
    BY ZenonT(60), <1>16 DEF Stopped, lxc_set_state
<1>17. CASE PostStop(i)
    BY <1>17 DEF PostStop, Leave
<1>18. CASE InitExecs(i)
    BY ZenonT(60), <1>18 DEF InitExecs
<1>19. CASE InitDies(i)
    BY <1>19 DEF InitDies, Signalled
<1>20. CASE OtherSignal(i)
    BY ZenonT(60), <1>20 DEF OtherSignal, Signalled
<1>21. CASE MonitorKilled(i)
    BY ZenonT(60), <1>21 DEF MonitorKilled
<1>22. CASE StarterKilled(i)
    BY ZenonT(60), <1>22 DEF StarterKilled
<1> QED
    BY ZenonT(60), <1>1, <1>2, <1>3, <1>4, <1>5, <1>6, <1>7, <1>8, <1>9, <1>10, <1>11, <1>12,
       <1>13, <1>14, <1>15, <1>16, <1>17, <1>18, <1>19, <1>20, <1>21, <1>22
    DEF Step, StarterStep, MonitorStep

\* A step keeps the types of the flags.
LEMMA FlagTypeStep ==
    ASSUME TypeOK, NEW i \in Start, Step(i)
    PROVE  FlagType'
<1> USE DEF At, Goto, res, sig, TypeOK, FlagType, StateLost
<1>1. CASE lxc_init_handler(i)
    BY ZenonT(60), <1>1 DEF lxc_init_handler
<1>2. CASE ForkMonitor(i)
    BY ZenonT(60), <1>2 DEF ForkMonitor
<1>3. CASE wait_on_daemonized_start(i)
    BY ZenonT(60), <1>3 DEF wait_on_daemonized_start
<1>4. CASE Interrupted(i)
    BY ZenonT(60), <1>4 DEF Interrupted
<1>5. CASE Daemonize(i)
    BY ZenonT(60), <1>5 DEF Daemonize, Leave
<1>6. CASE Reboot(i)
    BY ZenonT(60), <1>6 DEF Reboot, Leave
<1>7. CASE LxcInit(i)
    <2>1. (i \in Daemonized) \in BOOLEAN
        OBVIOUS
    <2>2. dset' \in [Start -> BOOLEAN]
        <3> DEFINE b == i \in Daemonized
        <3>1. b \in BOOLEAN
            BY ZenonT(60), <2>1
        <3>2. dset' = dset \/ dset' = [dset EXCEPT ![i] = b]
            BY ZenonT(60), <1>7 DEF LxcInit
        <3> HIDE DEF b
        <3> QED BY ZenonT(60), <3>1, <3>2
    <2> QED BY ZenonT(60), <1>7, <2>2 DEF LxcInit
<1>8. CASE Prepare(i)
    BY ZenonT(60), <1>8 DEF Prepare
<1>9. CASE SpawnClone(i)
    BY ZenonT(60), <1>9 DEF SpawnClone
<1>10. CASE SpawnFinish(i)
    BY ZenonT(60), <1>10 DEF SpawnFinish, lxc_abort
<1>11. CASE signal_handler(i)
    BY ZenonT(60), <1>11 DEF signal_handler
<1>12. CASE PollFails(i)
    BY ZenonT(60), <1>12 DEF PollFails
<1>13. CASE Reap(i)
    BY ZenonT(60), <1>13 DEF Reap
<1>14. CASE Abort(i)
    BY ZenonT(60), <1>14 DEF Abort, lxc_abort
<1>15. CASE End(i)
    BY ZenonT(60), <1>15 DEF End
<1>16. CASE Stopped(i)
    BY ZenonT(60), <1>16 DEF Stopped
<1>17. CASE PostStop(i)
    BY ZenonT(60), <1>17 DEF PostStop, Leave
<1>18. CASE InitExecs(i)
    BY ZenonT(60), <1>18 DEF InitExecs
<1>19. CASE InitDies(i)
    BY ZenonT(60), <1>19 DEF InitDies, Signalled
<1>20. CASE OtherSignal(i)
    BY ZenonT(60), <1>20 DEF OtherSignal, Signalled
<1>21. CASE MonitorKilled(i)
    BY ZenonT(60), <1>21 DEF MonitorKilled
<1>22. CASE StarterKilled(i)
    BY ZenonT(60), <1>22 DEF StarterKilled
<1> QED
    BY ZenonT(60), <1>1, <1>2, <1>3, <1>4, <1>5, <1>6, <1>7, <1>8, <1>9, <1>10, <1>11, <1>12,
       <1>13, <1>14, <1>15, <1>16, <1>17, <1>18, <1>19, <1>20, <1>21, <1>22
    DEF Step, StarterStep, MonitorStep

\* A step keeps the types of the resources.
LEMMA ResourceTypeStep ==
    ASSUME TypeOK, NEW i \in Start, Step(i)
    PROVE  ResourceType'
<1> USE DEF At, Goto, res, sig, TypeOK, ResourceType, StateLost
<1>1. CASE lxc_init_handler(i)
    BY ZenonT(60), <1>1 DEF lxc_init_handler
<1>2. CASE ForkMonitor(i)
    BY ZenonT(60), <1>2 DEF ForkMonitor
<1>3. CASE wait_on_daemonized_start(i)
    BY ZenonT(60), <1>3 DEF wait_on_daemonized_start
<1>4. CASE Interrupted(i)
    BY ZenonT(60), <1>4 DEF Interrupted
<1>5. CASE Daemonize(i)
    BY ZenonT(60), <1>5 DEF Daemonize, Leave
<1>6. CASE Reboot(i)
    BY ZenonT(60), <1>6 DEF Reboot, Leave
<1>7. CASE LxcInit(i)
    BY ZenonT(60), <1>7 DEF LxcInit
<1>8. CASE Prepare(i)
    BY ZenonT(60), <1>8 DEF Prepare
<1>9. CASE SpawnClone(i)
    BY ZenonT(60), <1>9 DEF SpawnClone
<1>10. CASE SpawnFinish(i)
    BY ZenonT(60), <1>10 DEF SpawnFinish, lxc_abort
<1>11. CASE signal_handler(i)
    BY ZenonT(60), <1>11 DEF signal_handler
<1>12. CASE PollFails(i)
    BY ZenonT(60), <1>12 DEF PollFails
<1>13. CASE Reap(i)
    BY ZenonT(60), <1>13 DEF Reap
<1>14. CASE Abort(i)
    BY ZenonT(60), <1>14 DEF Abort, lxc_abort
<1>15. CASE End(i)
    BY ZenonT(60), <1>15 DEF End
<1>16. CASE Stopped(i)
    BY ZenonT(60), <1>16 DEF Stopped
<1>17. CASE PostStop(i)
    BY ZenonT(60), <1>17 DEF PostStop, Leave
<1>18. CASE InitExecs(i)
    BY ZenonT(60), <1>18 DEF InitExecs
<1>19. CASE InitDies(i)
    BY ZenonT(60), <1>19 DEF InitDies, Signalled
<1>20. CASE OtherSignal(i)
    BY ZenonT(60), <1>20 DEF OtherSignal, Signalled
<1>21. CASE MonitorKilled(i)
    BY ZenonT(60), <1>21 DEF MonitorKilled
<1>22. CASE StarterKilled(i)
    BY ZenonT(60), <1>22 DEF StarterKilled
<1> QED
    BY ZenonT(60), <1>1, <1>2, <1>3, <1>4, <1>5, <1>6, <1>7, <1>8, <1>9, <1>10, <1>11, <1>12,
       <1>13, <1>14, <1>15, <1>16, <1>17, <1>18, <1>19, <1>20, <1>21, <1>22
    DEF Step, StarterStep, MonitorStep

\* A step of one start call leaves the variables of the others alone.
LEMMA Frame ==
    ASSUME TypeOK, NEW i \in Start, Step(i)
    PROVE  Others(i)
<1> USE DEF At, Goto, res, sig, TypeOK, ControlType, SocketType, StateType,
            FlagType, ResourceType, Others, StateLost
<1>1. CASE lxc_init_handler(i)
    BY <1>1 DEF lxc_init_handler
<1>2. CASE ForkMonitor(i)
    BY <1>2 DEF ForkMonitor
<1>3. CASE wait_on_daemonized_start(i)
    BY ZenonT(60), <1>3 DEF wait_on_daemonized_start
<1>4. CASE Interrupted(i)
    BY ZenonT(60), <1>4 DEF Interrupted
<1>5. CASE Daemonize(i)
    BY <1>5 DEF Daemonize, Leave
<1>6. CASE Reboot(i)
    BY <1>6 DEF Reboot, Leave
<1>7. CASE LxcInit(i)
    BY <1>7 DEF LxcInit, lxc_set_state
<1>8. CASE Prepare(i)
    BY <1>8 DEF Prepare
<1>9. CASE SpawnClone(i)
    BY SMTT(60), <1>9 DEF SpawnClone
<1>10. CASE SpawnFinish(i)
    BY <1>10 DEF SpawnFinish, lxc_set_state, lxc_abort
<1>11. CASE signal_handler(i)
    BY ZenonT(60), <1>11 DEF signal_handler
<1>12. CASE PollFails(i)
    BY ZenonT(60), <1>12 DEF PollFails
<1>13. CASE Reap(i)
    BY <1>13 DEF Reap
<1>14. CASE Abort(i)
    BY <1>14 DEF Abort, lxc_set_state, lxc_abort
<1>15. CASE End(i)
    BY <1>15 DEF End, lxc_set_state
<1>16. CASE Stopped(i)
    BY <1>16 DEF Stopped, lxc_set_state
<1>17. CASE PostStop(i)
    BY <1>17 DEF PostStop, Leave
<1>18. CASE InitExecs(i)
    BY ZenonT(60), <1>18 DEF InitExecs
<1>19. CASE InitDies(i)
    BY ZenonT(60), <1>19 DEF InitDies, Signalled
<1>20. CASE OtherSignal(i)
    BY ZenonT(60), <1>20 DEF OtherSignal, Signalled
<1>21. CASE MonitorKilled(i)
    BY ZenonT(60), <1>21 DEF MonitorKilled
<1>22. CASE StarterKilled(i)
    BY ZenonT(60), <1>22 DEF StarterKilled
<1> QED
    BY ZenonT(60), <1>1, <1>2, <1>3, <1>4, <1>5, <1>6, <1>7, <1>8, <1>9, <1>10, <1>11, <1>12,
       <1>13, <1>14, <1>15, <1>16, <1>17, <1>18, <1>19, <1>20, <1>21, <1>22
    DEF Step, StarterStep, MonitorStep

\* A step keeps the command socket with one start call.
LEMMA HoldersStep ==
    ASSUME IInv, NEW i \in Start, Step(i)
    PROVE  Holders'
<1>0. Others(i)
    BY ZenonT(60), Frame DEF IInv
<1> USE DEF At, Goto, S, M, C, res, sig, IInv, TypeOK, ControlType, Holders, Held,
            MonitorPC
<1>1. CASE lxc_init_handler(i)
    BY <1>1 DEF lxc_init_handler
<1>2. CASE ForkMonitor(i)
    <2>1. S(i) \in sock /\ S(i)[2] = i /\ M(i)[2] = i
        BY ZenonT(60), <1>2 DEF ForkMonitor
    <2>2. \A x \in sock : x[2] = i
        BY ZenonT(60), <2>1
    <2>3. sock' \subseteq sock \cup {M(i)}
        BY ZenonT(60), <1>2 DEF ForkMonitor
    <2>4. \A x, y \in sock' : x[2] = y[2]
        BY ZenonT(60), <2>1, <2>2, <2>3
    <2>5. \A j \in Start : Held(j)'
        BY ZenonT(60), <1>2 DEF ForkMonitor
    <2> QED BY ZenonT(60), <2>4, <2>5
<1>3. CASE wait_on_daemonized_start(i)
    BY ZenonT(60), <1>3 DEF wait_on_daemonized_start
<1>4. CASE Interrupted(i)
    BY ZenonT(60), <1>4 DEF Interrupted
<1>5. CASE Daemonize(i)
    BY <1>5 DEF Daemonize, Leave
<1>6. CASE Reboot(i)
    BY <1>6 DEF Reboot, Leave
<1>7. CASE LxcInit(i)
    BY ZenonT(60), <1>7 DEF LxcInit, lxc_set_state
<1>8. CASE Prepare(i)
    BY ZenonT(60), <1>8 DEF Prepare
<1>9. CASE SpawnClone(i)
    <2>1. M(i) \in sock /\ M(i)[2] = i /\ C(i)[2] = i
        BY ZenonT(60), <1>9 DEF SpawnClone
    <2>2. \A x \in sock : x[2] = i
        BY ZenonT(60), <2>1
    <2>3. sock' \subseteq sock \cup {C(i)}
        BY ZenonT(60), <1>9 DEF SpawnClone
    <2>4. \A x, y \in sock' : x[2] = y[2]
        BY ZenonT(60), <2>1, <2>2, <2>3
    <2>5. \A j \in Start : Held(j)'
        BY ZenonT(60), <1>9 DEF SpawnClone
    <2> QED BY ZenonT(60), <2>4, <2>5
<1>10. CASE SpawnFinish(i)
    <2>1. \A x, y \in sock' : x[2] = y[2]
        BY ZenonT(60), <1>10 DEF SpawnFinish, lxc_abort
    <2>2. \A j \in Start : (S(j) \in sock => S(j) \in sock') /\ (M(j) \in sock => M(j) \in sock')
        BY ZenonT(60), <1>10 DEF SpawnFinish, lxc_abort
    <2>3. \A j \in Start \ {i} : Held(j)'
        BY ZenonT(60), <1>0, <2>2 DEF Others
    <2>4. Held(i) /\ spc[i] \notin {"idle", "fork"}
        BY ZenonT(60), <1>10 DEF SpawnFinish
    <2>5. Held(i)'
        BY ZenonT(60), <1>10, <2>2, <2>4 DEF SpawnFinish
    <2> QED BY ZenonT(60), <2>1, <2>3, <2>5
<1>11. CASE signal_handler(i)
    BY ZenonT(60), <1>11 DEF signal_handler
<1>12. CASE PollFails(i)
    BY ZenonT(60), <1>12 DEF PollFails
<1>13. CASE Reap(i)
    BY <1>13 DEF Reap
<1>14. CASE Abort(i)
    BY ZenonT(60), <1>14 DEF Abort, lxc_set_state, lxc_abort
<1>15. CASE End(i)
    BY <1>15 DEF End, lxc_set_state
<1>16. CASE Stopped(i)
    BY ZenonT(60), <1>16 DEF Stopped, lxc_set_state
<1>17. CASE PostStop(i)
    <2>1. \A x, y \in sock' : x[2] = y[2]
        BY <1>17 DEF PostStop, Leave
    <2>2. \A j \in Start \ {i} : (S(j) \in sock => S(j) \in sock') /\ (M(j) \in sock => M(j) \in sock')
        BY ZenonT(60), <1>17 DEF PostStop, Leave, lxc_abort
    <2>3. \A j \in Start \ {i} : Held(j)'
        BY ZenonT(60), <1>0, <2>2 DEF Others
    <2>4. Held(i) /\ spc[i] \notin {"idle", "fork"}
        BY ZenonT(60), <1>17 DEF PostStop
    <2>5. Held(i)'
        <3>1. CASE mpc'[i] = "reboot"
            BY ZenonT(60), <1>17, <3>1, <2>4 DEF PostStop, Leave
        <3>2. CASE mpc'[i] = "over"
            BY ZenonT(60), <1>17, <3>2, <2>4 DEF PostStop, Leave
        <3> QED BY ZenonT(60), <1>17, <3>1, <3>2 DEF PostStop, Leave
    <2> QED BY ZenonT(60), <2>1, <2>3, <2>5
<1>18. CASE InitExecs(i)
    BY ZenonT(60), <1>18 DEF InitExecs
<1>19. CASE InitDies(i)
    BY ZenonT(60), <1>19 DEF InitDies, Signalled
<1>20. CASE OtherSignal(i)
    BY ZenonT(60), <1>20 DEF OtherSignal, Signalled
<1>21. CASE MonitorKilled(i)
    BY ZenonT(60), <1>21 DEF MonitorKilled
<1>22. CASE StarterKilled(i)
    BY ZenonT(60), <1>22 DEF StarterKilled
<1> QED
    BY ZenonT(60), <1>1, <1>2, <1>3, <1>4, <1>5, <1>6, <1>7, <1>8, <1>9, <1>10, <1>11, <1>12,
       <1>13, <1>14, <1>15, <1>16, <1>17, <1>18, <1>19, <1>20, <1>21, <1>22
    DEF Step, StarterStep, MonitorStep

\* What lxc_set_state() does to the state and to the socketpair of its start
\* call.
LEMMA SetStateAt ==
    ASSUME TypeOK, NEW i \in Start, NEW s \in State, lxc_set_state(i, s)
    PROVE  /\ hstate'[i] \in {hstate[i], s}
           /\ ~StateLost(i, s) => hstate'[i] = s
           /\ \/ pair'[i] = pair[i]
                 /\ (dset[i] /\ pair[i].w /\ s # "STARTING" => StateLost(i, s))
              \/ ~pair'[i].w /\ pair'[i].msg = s /\ ~StateLost(i, s)
                 /\ dset[i] /\ pair[i].w /\ s # "STARTING"
<1>1. CASE StateLost(i, s)
    BY ZenonT(60), <1>1 DEF lxc_set_state
<1>2. CASE ~StateLost(i, s)
    <2>1. hstate'[i] = s
        BY ZenonT(60), <1>2 DEF lxc_set_state, TypeOK, StateType
    <2>2. CASE dset[i] /\ pair[i].w /\ s # "STARTING"
        BY <1>2, <2>1, <2>2 DEF lxc_set_state, TypeOK, SocketType
    <2>3. CASE ~(dset[i] /\ pair[i].w /\ s # "STARTING")
        BY ZenonT(60), <1>2, <2>1, <2>3 DEF lxc_set_state
    <2> QED BY ZenonT(60), <2>2, <2>3
<1> QED BY ZenonT(60), <1>1, <1>2

\* The two outcomes of the handshake.
LEMMA SpawnFinishAt ==
    ASSUME TypeOK, NEW i \in Start, SpawnFinish(i)
    PROVE  /\ mpc[i] = "spawned" /\ spc' = spc /\ dset' = dset
           /\ \/ /\ mpc'[i] = "poll" /\ ran'[i] = "now" /\ reboot'[i] = "NONE"
                 /\ lxc_set_state(i, "RUNNING") /\ ~StateLost(i, "RUNNING")
              \/ /\ mpc'[i] = "abort_blk" /\ ran' = ran /\ reboot' = reboot
                 /\ child'[i] # "alive"
                 /\ lxc_set_state(i, "ABORTING")
<1> USE DEF At, Goto, TypeOK, ControlType
<1>1. mpc[i] = "spawned" /\ spc' = spc /\ dset' = dset
    BY ZenonT(60) DEF SpawnFinish
<1>2. CASE ran' = [ran EXCEPT ![i] = "now"] /\ reboot' = [reboot EXCEPT ![i] = "NONE"]
           /\ Goto(i, "poll") /\ lxc_set_state(i, "RUNNING") /\ ~StateLost(i, "RUNNING")
    BY ZenonT(60), <1>1, <1>2 DEF StateType
<1>3. CASE Goto(i, "abort_blk") /\ lxc_abort(i) /\ UNCHANGED <<reboot, ran>>
    <2>1. child'[i] # "alive"
        BY ZenonT(60), <1>3 DEF lxc_abort, StateType
    <2> QED BY ZenonT(60), <1>1, <1>3, <2>1 DEF lxc_abort
<1> QED BY ZenonT(60), <1>2, <1>3 DEF SpawnFinish

\* A step keeps its init within the monitor's run.
LEMMA InitAliveStep ==
    ASSUME IInv, NEW i \in Start, Step(i)
    PROVE  InitAlive(i)'
<1>0. TypeOK /\ Held(i) /\ InitAlive(i)
    BY ZenonT(60) DEF IInv, Holders, Inits, Announcement, Released, StartVerdict
<1> USE DEF At, Goto, res, sig, StateLost, TypeOK, ControlType, StateType, Held,
            InitAlive, Alive
<1>1. CASE lxc_init_handler(i)
    BY ZenonT(60), <1>0, <1>1 DEF lxc_init_handler
<1>2. CASE ForkMonitor(i)
    BY ZenonT(60), <1>0, <1>2 DEF ForkMonitor
<1>3. CASE wait_on_daemonized_start(i)
    BY ZenonT(60), <1>0, <1>3 DEF wait_on_daemonized_start
<1>4. CASE Interrupted(i)
    BY ZenonT(60), <1>0, <1>4 DEF Interrupted
<1>5. CASE Daemonize(i)
    BY ZenonT(60), <1>0, <1>5 DEF Daemonize, Leave
<1>6. CASE Reboot(i)
    BY ZenonT(60), <1>0, <1>6 DEF Reboot, Leave
<1>7. CASE LxcInit(i)
    BY ZenonT(60), <1>0, <1>7 DEF LxcInit, lxc_set_state
<1>8. CASE Prepare(i)
    BY ZenonT(60), <1>0, <1>8 DEF Prepare
<1>9. CASE SpawnClone(i)
    BY ZenonT(60), <1>0, <1>9 DEF SpawnClone
<1>10. CASE SpawnFinish(i)
    <2>1. \/ mpc'[i] = "poll" /\ lxc_set_state(i, "RUNNING") /\ ~StateLost(i, "RUNNING")
          \/ mpc'[i] = "abort_blk" /\ child'[i] # "alive"
        BY ZenonT(60), <1>0, <1>10, SpawnFinishAt
    <2>2. mpc'[i] = "poll" => hstate'[i] = "RUNNING"
        BY ZenonT(60), <1>0, <2>1, SetStateAt DEF State
    <2> QED BY ZenonT(60), <1>0, <2>1, <2>2
<1>11. CASE signal_handler(i)
    BY ZenonT(60), <1>0, <1>11 DEF signal_handler
<1>12. CASE PollFails(i)
    BY ZenonT(60), <1>0, <1>12 DEF PollFails
<1>13. CASE Reap(i)
    BY ZenonT(60), <1>0, <1>13 DEF Reap
<1>14. CASE Abort(i)
    BY ZenonT(60), <1>0, <1>14 DEF Abort, lxc_set_state, lxc_abort
<1>15. CASE End(i)
    BY ZenonT(60), <1>0, <1>15 DEF End, lxc_set_state
<1>16. CASE Stopped(i)
    BY ZenonT(60), <1>0, <1>16 DEF Stopped, lxc_set_state
<1>17. CASE PostStop(i)
    BY ZenonT(60), <1>0, <1>17 DEF PostStop, Leave
<1>18. CASE InitExecs(i)
    BY ZenonT(60), <1>0, <1>18 DEF InitExecs
<1>19. CASE InitDies(i)
    BY ZenonT(60), <1>0, <1>19 DEF InitDies, Signalled
<1>20. CASE OtherSignal(i)
    BY ZenonT(60), <1>0, <1>20 DEF OtherSignal, Signalled
<1>21. CASE MonitorKilled(i)
    BY ZenonT(60), <1>0, <1>21 DEF MonitorKilled
<1>22. CASE StarterKilled(i)
    BY ZenonT(60), <1>0, <1>22 DEF StarterKilled
<1> QED
    BY ZenonT(60), <1>1, <1>2, <1>3, <1>4, <1>5, <1>6, <1>7, <1>8, <1>9, <1>10, <1>11, <1>12,
       <1>13, <1>14, <1>15, <1>16, <1>17, <1>18, <1>19, <1>20, <1>21, <1>22
    DEF Step, StarterStep, MonitorStep

\* A step keeps the one announcement of its start call.
LEMMA AnnouncedStep ==
    ASSUME IInv, NEW i \in Start, Step(i)
    PROVE  Announced(i)'
<1>0. TypeOK /\ Held(i) /\ Announced(i) /\ Verdict(i)
    BY ZenonT(60) DEF IInv, Holders, Inits, Announcement, Released, StartVerdict
<1> USE DEF At, Goto, res, sig, StateLost, TypeOK, ControlType, SocketType,
            StateType, FlagType, Held, Announced, Verdict, Before, State, MonitorPC
<1>1. CASE lxc_init_handler(i)
    BY <1>0, <1>1 DEF lxc_init_handler
<1>2. CASE ForkMonitor(i)
    BY <1>0, <1>2 DEF ForkMonitor
<1>3. CASE wait_on_daemonized_start(i)
    BY <1>0, <1>3 DEF wait_on_daemonized_start
<1>4. CASE Interrupted(i)
    BY ZenonT(60), <1>0, <1>4 DEF Interrupted
<1>5. CASE Daemonize(i)
    BY <1>0, <1>5 DEF Daemonize, Leave
<1>6. CASE Reboot(i)
    BY <1>0, <1>6 DEF Reboot, Leave
<1>7. CASE LxcInit(i)
    <2>1. i \in Daemonized /\ mpc'[i] = "prepare" => dset' = [dset EXCEPT ![i] = TRUE]
        <3>1. i \in Daemonized => (i \in Daemonized) = TRUE
            OBVIOUS
        <3>2. mpc'[i] = "prepare" => dset' = [dset EXCEPT ![i] = i \in Daemonized]
            BY ONLY <1>0, <1>7, i \in Start DEF LxcInit, At, Goto, TypeOK, ControlType
        <3> QED BY ZenonT(60), <3>1, <3>2, Zenon
    <2>2. i \in Daemonized /\ mpc'[i] = "prepare" => dset'[i]
        BY <1>0, <2>1
    <2>3. spc' = spc /\ ran' = ran /\ reboot' = reboot /\ mpc'[i] \in {"abort", "prepare"}
        BY ONLY <1>0, <1>7, i \in Start DEF LxcInit, At, Goto, TypeOK, ControlType
    <2>4. pair' = pair
        BY ZenonT(60), <1>0, <1>7 DEF LxcInit, lxc_set_state
    <2>5. mpc[i] = "init"
        BY ZenonT(60), <1>0, <1>7 DEF LxcInit
    <2> QED BY ZenonT(60), <1>0, <2>2, <2>3, <2>4, <2>5
<1>8. CASE Prepare(i)
    <2>1. /\ mpc[i] = "prepare" /\ mpc'[i] \in {"spawn", "abort"}
          /\ UNCHANGED <<spc, pair, dset, reboot, ran>>
        BY ONLY <1>0, <1>8, i \in Start DEF Prepare, At, Goto, TypeOK, ControlType
    <2> QED BY ZenonT(60), <1>0, <2>1
<1>9. CASE SpawnClone(i)
    <2>1. /\ mpc[i] = "spawn" /\ mpc'[i] \in {"spawned", "abort_blk"}
          /\ UNCHANGED <<spc, pair, dset, reboot, ran>>
        BY ONLY <1>0, <1>9, i \in Start DEF SpawnClone, At, Goto, TypeOK, ControlType
    <2> QED BY ZenonT(60), <1>0, <2>1
<1>10. CASE SpawnFinish(i)
    <2>1. /\ mpc[i] = "spawned" /\ spc' = spc /\ dset' = dset
          /\ \/ /\ mpc'[i] = "poll" /\ ran'[i] = "now" /\ reboot'[i] = "NONE"
                /\ lxc_set_state(i, "RUNNING") /\ ~StateLost(i, "RUNNING")
             \/ /\ mpc'[i] = "abort_blk" /\ ran' = ran /\ reboot' = reboot
                /\ lxc_set_state(i, "ABORTING")
        BY ZenonT(60), <1>0, <1>10, SpawnFinishAt
    <2>2. CASE mpc'[i] = "poll"
        <3>1. \/ pair'[i] = pair[i] /\ ~(dset[i] /\ pair[i].w)
              \/ ~pair'[i].w /\ pair'[i].msg = "RUNNING" /\ dset[i] /\ pair[i].w
            BY ZenonT(60), <1>0, <2>1, <2>2, SetStateAt
        <3> QED BY ZenonT(60), <1>0, <2>1, <2>2, <3>1
    <2>3. CASE mpc'[i] = "abort_blk"
        <3>1. \/ pair'[i] = pair[i]
              \/ ~pair'[i].w /\ pair'[i].msg = "ABORTING" /\ pair[i].w
            BY ZenonT(60), <1>0, <2>1, <2>3, SetStateAt
        <3> QED BY ZenonT(60), <1>0, <2>1, <2>3, <3>1
    <2> QED BY ZenonT(60), <2>1, <2>2, <2>3
<1>11. CASE signal_handler(i)
    <2>1. /\ mpc[i] = "poll" /\ mpc'[i] \in {"poll", "reap"}
          /\ UNCHANGED <<spc, pair, dset, reboot, ran>>
        BY ONLY ZenonT(60), <1>0, <1>11, i \in Start DEF signal_handler, At, Goto, TypeOK, ControlType
    <2> QED BY ZenonT(60), <1>0, <2>1
<1>12. CASE PollFails(i)
    BY ZenonT(60), <1>0, <1>12 DEF PollFails
<1>13. CASE Reap(i)
    BY ZenonT(60), <1>0, <1>13 DEF Reap
<1>14. CASE Abort(i)
    <2>1. /\ mpc[i] \in {"abort", "abort_blk", "abort_net"} /\ mpc'[i] = "end"
          /\ spc' = spc /\ dset' = dset /\ ran' = ran /\ reboot' = reboot
          /\ lxc_set_state(i, "ABORTING")
        BY ZenonT(60), <1>0, <1>14 DEF Abort, lxc_abort
    <2>2. \/ pair'[i] = pair[i]
          \/ ~pair'[i].w /\ pair'[i].msg = "ABORTING" /\ pair[i].w
        BY ZenonT(60), <1>0, <2>1, SetStateAt
    <2> QED BY ZenonT(60), <1>0, <2>1, <2>2
<1>15. CASE End(i)
    BY <1>0, <1>15 DEF End, lxc_set_state
<1>16. CASE Stopped(i)
    <2>1. /\ mpc[i] = "stopped" /\ mpc'[i] = "post_stop"
          /\ spc' = spc /\ dset' = dset /\ ran' = ran /\ reboot' = reboot
          /\ pair' = pair \/ lxc_set_state(i, "STOPPED")
        BY ZenonT(60), <1>0, <1>16 DEF Stopped
    <2>2. \/ pair'[i] = pair[i]
          \/ ~pair'[i].w /\ pair'[i].msg = "STOPPED" /\ pair[i].w
        BY ZenonT(60), <1>0, <2>1, SetStateAt
    <2> QED BY ZenonT(60), <1>0, <2>1, <2>2
<1>17. CASE PostStop(i)
    BY <1>0, <1>17 DEF PostStop, Leave
<1>18. CASE InitExecs(i)
    BY ZenonT(60), <1>0, <1>18 DEF InitExecs
<1>19. CASE InitDies(i)
    BY ZenonT(60), <1>0, <1>19 DEF InitDies, Signalled
<1>20. CASE OtherSignal(i)
    BY ZenonT(60), <1>0, <1>20 DEF OtherSignal, Signalled
<1>21. CASE MonitorKilled(i)
    BY <1>0, <1>21 DEF MonitorKilled
<1>22. CASE StarterKilled(i)
    BY ZenonT(60), <1>0, <1>22 DEF StarterKilled
<1> QED
    BY ZenonT(60), <1>1, <1>2, <1>3, <1>4, <1>5, <1>6, <1>7, <1>8, <1>9, <1>10, <1>11, <1>12,
       <1>13, <1>14, <1>15, <1>16, <1>17, <1>18, <1>19, <1>20, <1>21, <1>22
    DEF Step, StarterStep, MonitorStep

\* A step keeps what its run has taken until it is released.
LEMMA RunReleasedStep ==
    ASSUME IInv, NEW i \in Start, Step(i)
    PROVE  RunReleased(i)'
<1>0. TypeOK /\ Held(i) /\ Announced(i) /\ RunReleased(i)
    BY ZenonT(60) DEF IInv, Holders, Inits, Announcement, Released, StartVerdict
<1> USE DEF At, Goto, res, sig, TypeOK, ControlType, StateType,
            ResourceType, Held, Announced, RunReleased, After, Before
<1>1. CASE lxc_init_handler(i)
    BY ZenonT(60), <1>0, <1>1 DEF lxc_init_handler
<1>2. CASE ForkMonitor(i)
    BY ZenonT(60), <1>0, <1>2 DEF ForkMonitor
<1>3. CASE wait_on_daemonized_start(i)
    BY ZenonT(60), <1>0, <1>3 DEF wait_on_daemonized_start
<1>4. CASE Interrupted(i)
    BY ZenonT(60), <1>0, <1>4 DEF Interrupted
<1>5. CASE Daemonize(i)
    BY ZenonT(60), <1>0, <1>5 DEF Daemonize, Leave
<1>6. CASE Reboot(i)
    BY ZenonT(60), <1>0, <1>6 DEF Reboot, Leave
<1>7. CASE LxcInit(i)
    BY ZenonT(60), <1>0, <1>7 DEF LxcInit
<1>8. CASE Prepare(i)
    BY ZenonT(60), <1>0, <1>8 DEF Prepare
<1>9. CASE SpawnClone(i)
    BY ZenonT(60), <1>0, <1>9 DEF SpawnClone
<1>10. CASE SpawnFinish(i)
    BY ZenonT(60), <1>0, <1>10, SpawnFinishAt
<1>11. CASE signal_handler(i)
    BY ZenonT(60), <1>0, <1>11 DEF signal_handler
<1>12. CASE PollFails(i)
    BY ZenonT(60), <1>0, <1>12 DEF PollFails
<1>13. CASE Reap(i)
    BY ZenonT(60), <1>0, <1>13 DEF Reap
<1>14. CASE Abort(i)
    BY ZenonT(60), <1>0, <1>14 DEF Abort, lxc_abort
<1>15. CASE End(i)
    BY ZenonT(60), <1>0, <1>15 DEF End
<1>16. CASE Stopped(i)
    BY ZenonT(60), <1>0, <1>16 DEF Stopped
<1>17. CASE PostStop(i)
    BY ZenonT(60), <1>0, <1>17 DEF PostStop, Leave
<1>18. CASE InitExecs(i)
    BY ZenonT(60), <1>0, <1>18 DEF InitExecs
<1>19. CASE InitDies(i)
    BY ZenonT(60), <1>0, <1>19 DEF InitDies, Signalled
<1>20. CASE OtherSignal(i)
    BY ZenonT(60), <1>0, <1>20 DEF OtherSignal, Signalled
<1>21. CASE MonitorKilled(i)
    BY ZenonT(60), <1>0, <1>21 DEF MonitorKilled
<1>22. CASE StarterKilled(i)
    BY ZenonT(60), <1>0, <1>22 DEF StarterKilled
<1> QED
    BY ZenonT(60), <1>1, <1>2, <1>3, <1>4, <1>5, <1>6, <1>7, <1>8, <1>9, <1>10, <1>11, <1>12,
       <1>13, <1>14, <1>15, <1>16, <1>17, <1>18, <1>19, <1>20, <1>21, <1>22
    DEF Step, StarterStep, MonitorStep

\* A step keeps the verdict of its starter right.
LEMMA VerdictStep ==
    ASSUME IInv, NEW i \in Start, Step(i)
    PROVE  Verdict(i)'
<1>0. TypeOK /\ Held(i) /\ Announced(i) /\ Verdict(i)
    BY ZenonT(60) DEF IInv, Holders, Inits, Announcement, Released, StartVerdict
<1> USE DEF At, Goto, res, sig, TypeOK, ControlType, StateType, SocketType, Held,
            Announced, Verdict, Before, MonitorPC, State, StateLost
<1>1. CASE lxc_init_handler(i)
    BY ZenonT(60), <1>0, <1>1 DEF lxc_init_handler
<1>2. CASE ForkMonitor(i)
    BY <1>0, <1>2 DEF ForkMonitor
<1>3. CASE wait_on_daemonized_start(i)
    BY <1>0, <1>3 DEF wait_on_daemonized_start
<1>4. CASE Interrupted(i)
    BY ZenonT(60), <1>0, <1>4 DEF Interrupted
<1>5. CASE Daemonize(i)
    BY <1>0, <1>5 DEF Daemonize, Leave
<1>6. CASE Reboot(i)
    BY <1>0, <1>6 DEF Reboot, Leave
<1>7. CASE LxcInit(i)
    BY ZenonT(60), <1>0, <1>7 DEF LxcInit
<1>8. CASE Prepare(i)
    BY ZenonT(60), <1>0, <1>8 DEF Prepare
<1>9. CASE SpawnClone(i)
    BY ZenonT(60), <1>0, <1>9 DEF SpawnClone
<1>10. CASE SpawnFinish(i)
    BY ZenonT(60), <1>0, <1>10, SpawnFinishAt
<1>11. CASE signal_handler(i)
    BY ZenonT(60), <1>0, <1>11 DEF signal_handler
<1>12. CASE PollFails(i)
    BY ZenonT(60), <1>0, <1>12 DEF PollFails
<1>13. CASE Reap(i)
    BY ZenonT(60), <1>0, <1>13 DEF Reap
<1>14. CASE Abort(i)
    BY ZenonT(60), <1>0, <1>14 DEF Abort, lxc_abort
<1>15. CASE End(i)
    BY <1>0, <1>15 DEF End
<1>16. CASE Stopped(i)
    BY ZenonT(60), <1>0, <1>16 DEF Stopped
<1>17. CASE PostStop(i)
    BY <1>0, <1>17 DEF PostStop, Leave
<1>18. CASE InitExecs(i)
    BY ZenonT(60), <1>0, <1>18 DEF InitExecs
<1>19. CASE InitDies(i)
    BY ZenonT(60), <1>0, <1>19 DEF InitDies, Signalled
<1>20. CASE OtherSignal(i)
    BY ZenonT(60), <1>0, <1>20 DEF OtherSignal, Signalled
<1>21. CASE MonitorKilled(i)
    BY ZenonT(60), <1>0, <1>21 DEF MonitorKilled
<1>22. CASE StarterKilled(i)
    BY ZenonT(60), <1>0, <1>22 DEF StarterKilled
<1> QED
    BY ZenonT(60), <1>1, <1>2, <1>3, <1>4, <1>5, <1>6, <1>7, <1>8, <1>9, <1>10, <1>11, <1>12,
       <1>13, <1>14, <1>15, <1>16, <1>17, <1>18, <1>19, <1>20, <1>21, <1>22
    DEF Step, StarterStep, MonitorStep

\* Nothing is held, alive or announced at the beginning.
LEMMA IInvInit == Init => IInv
<1> SUFFICES ASSUME Init PROVE IInv
    OBVIOUS
<1> USE DEF Init
<1>1. ControlType /\ StateType
    BY ZenonT(60) DEF ControlType, StateType, StarterPC, MonitorPC, MonitorEnd, State
<1>2. SocketType
    BY ZenonT(60) DEF SocketType
<1>3. FlagType /\ ResourceType
    BY ZenonT(60) DEF FlagType, ResourceType
<1>4. Holders
    BY ZenonT(60) DEF Holders, Held, MonitorPC
<1>5. Inits /\ Released /\ StartVerdict
    BY ZenonT(60) DEF Inits, InitAlive, Released, RunReleased, StartVerdict, Verdict
<1>6. Announcement
    BY ZenonT(60) DEF Announcement, Announced, Before
<1> QED BY ZenonT(60), <1>1, <1>2, <1>3, <1>4, <1>5, <1>6 DEF IInv, TypeOK

\* Every step keeps the invariant: the parts about the start call that takes
\* it by the lemmas above, those about the others by Frame.
LEMMA IInvStep == IInv /\ [Next]_vars => IInv'
<1> SUFFICES ASSUME IInv, [Next]_vars PROVE IInv'
    OBVIOUS
<1>1. CASE UNCHANGED vars
    <2> USE <1>1 DEF vars, IInv
    <2>1. TypeOK'
        BY ZenonT(60) DEF TypeOK, ControlType, SocketType, StateType, FlagType, ResourceType
    <2>2. Holders' BY ZenonT(60) DEF Holders, Held
    <2>3. Inits' BY ZenonT(60) DEF Inits, InitAlive
    <2>4. Announcement' BY ZenonT(60) DEF Announcement, Announced
    <2>5. Released' BY ZenonT(60) DEF Released, RunReleased
    <2>6. StartVerdict' BY ZenonT(60) DEF StartVerdict, Verdict
    <2> QED BY ZenonT(60), <2>1, <2>2, <2>3, <2>4, <2>5, <2>6
<1>2. ASSUME NEW i \in Start, Step(i) PROVE IInv'
    <2>0. TypeOK /\ Others(i)
        BY ZenonT(60), <1>2, Frame DEF IInv
    <2>1. TypeOK'
        BY ZenonT(60), <1>2, <2>0, ControlTypeStep, SocketTypeStep, StateTypeStep, FlagTypeStep,
           ResourceTypeStep DEF TypeOK
    <2>2. Holders'
        BY ZenonT(60), <1>2, HoldersStep
    <2>3. Inits'
        <3>1. InitAlive(i)'
            BY ZenonT(60), <1>2, InitAliveStep
        <3> QED BY ZenonT(60), <2>0, <3>1 DEF Others, IInv, Inits, InitAlive
    <2>4. Announcement'
        <3>1. Announced(i)'
            BY ZenonT(60), <1>2, AnnouncedStep
        <3>2. ASSUME NEW j \in Start, j # i PROVE Announced(j)'
            <4>1. Announced(j)
                BY ZenonT(60) DEF IInv, Announcement
            <4> QED BY ZenonT(60), <2>0, <3>2, <4>1 DEF Others, Announced
        <3> QED BY ZenonT(60), <3>1, <3>2 DEF Announcement
    <2>5. Released'
        <3>1. RunReleased(i)'
            BY ZenonT(60), <1>2, RunReleasedStep
        <3> QED BY ZenonT(60), <2>0, <3>1 DEF Others, IInv, Released, RunReleased
    <2>6. StartVerdict'
        <3>1. Verdict(i)'
            BY ZenonT(60), <1>2, VerdictStep
        <3> QED BY <2>0, <3>1 DEF Others, IInv, StartVerdict, Verdict
    <2> QED BY ZenonT(60), <2>1, <2>2, <2>3, <2>4, <2>5, <2>6 DEF IInv
<1> QED BY ZenonT(60), <1>1, <1>2 DEF Next, Step

\* The invariant gives the safety properties: two live inits would need two
\* monitors that hold the socket.
LEMMA IInvImplies ==
    IInv => TypeOK /\ OneContainer /\ StoppedMeansDead /\ StartVerdict /\ ReleasedAfterRun
<1> SUFFICES ASSUME IInv
             PROVE  OneContainer /\ StoppedMeansDead /\ ReleasedAfterRun
    BY ZenonT(60) DEF IInv
<1>1. \A i \in Start : child[i] = "alive" /\ mpc[i] # "crashed" => M(i) \in sock
    BY ZenonT(60) DEF IInv, Inits, InitAlive, Alive, Holders, Held, MonitorPC
<1>2. \A i \in Start : M(i)[2] = i
    BY ZenonT(60) DEF M
<1>3. OneContainer
    BY ZenonT(60), <1>1, <1>2 DEF IInv, Holders, OneContainer
<1>4. StoppedMeansDead
    BY ZenonT(60), <1>1 DEF IInv, Inits, InitAlive, Alive, StoppedMeansDead
<1>5. ReleasedAfterRun
    BY ZenonT(60) DEF IInv, Released, RunReleased, ReleasedAfterRun
<1> QED BY ZenonT(60), <1>3, <1>4, <1>5

\* For any number of concurrent start calls, daemonized or not: at most one
\* init of the container is alive, never behind a closed command socket or the
\* state STOPPED; the starter's verdict is right; and a run that reached
\* RUNNING gives back its network, block device and cgroups.
THEOREM LifecycleSafe ==
    Spec => [](TypeOK /\ OneContainer /\ StoppedMeansDead /\ StartVerdict /\ ReleasedAfterRun)
<1>1. Init => IInv
    BY ZenonT(60), IInvInit
<1>2. IInv /\ [Next]_vars => IInv'
    BY ZenonT(60), IInvStep
<1>3. IInv => TypeOK /\ OneContainer /\ StoppedMeansDead /\ StartVerdict /\ ReleasedAfterRun
    BY ZenonT(60), IInvImplies
<1> QED BY <1>1, <1>2, <1>3, PTL DEF Spec

\* Its parts, one by one.  The variables keep their types.
THEOREM LifecycleTyped == Spec => []TypeOK
BY LifecycleSafe, PTL

\* Concurrent calls of do_lxcapi_start() never run two inits at once.
THEOREM LifecycleOneContainer == Spec => []OneContainer
BY LifecycleSafe, PTL

\* A closed command socket, or STOPPED, means that the init is dead: lxc_end().
THEOREM LifecycleStoppedMeansDead == Spec => []StoppedMeansDead
BY LifecycleSafe, PTL

\* What wait_on_daemonized_start() makes the start call return is right.
THEOREM LifecycleStartVerdict == Spec => []StartVerdict
BY LifecycleSafe, PTL

\* __lxc_start() and lxc_end() release what a run that reached RUNNING took.
THEOREM LifecycleReleased == Spec => []ReleasedAfterRun
BY LifecycleSafe, PTL
=============================================================================
