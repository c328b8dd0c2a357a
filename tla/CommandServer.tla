--------------------------- MODULE CommandServer ---------------------------
(***************************************************************************)
(* The command server of a container's monitor and the clients that talk   *)
(* to it: the mainloop with either of its backends, the connections it     *)
(* accepts and keeps, the list of state clients, the tty slots, and what   *)
(* becomes of all of them when the container stops or reboots.             *)
(*                                                                         *)
(* Descriptors are numbers that the kernel hands out lowest first, so a    *)
(* number may come to stand for another connection.  Handlers, state       *)
(* clients and tty slots remember the number.  epoll forgets a descriptor  *)
(* when it is closed; an armed io_uring poll keeps the connection alive.   *)
(***************************************************************************)
EXTENDS Integers, Sequences, FiniteSets

CONSTANTS
    Conn,      \* the connections clients make
    Ask,       \* what the callers may ask: a set of functions from Conn to Request
    Fd,        \* the monitor's free descriptors
    Tty,       \* the container's ttys
    IoUring,   \* whether the mainloop can use io_uring: the cases considered
    MaxRuns    \* a bound on the number of times the container is started

ASSUME FdAssumption == Fd \subseteq Nat /\ IsFiniteSet(Fd)
ASSUME TtyAssumption == Tty \subseteq Nat /\ IsFiniteSet(Tty)
ASSUME MaxRunsAssumption == MaxRuns \in Nat /\ IoUring \subseteq BOOLEAN

State == {"STOPPED", "STARTING", "RUNNING", "STOPPING", "ABORTING", "FREEZING",
          "FROZEN", "THAWED"}
Request ==
    [cmd : {"ADD_STATE_CLIENT"}, states : SUBSET State, again : BOOLEAN]
      \cup [cmd : {"SERVE_STATE_CLIENTS"}, state : State]
      \cup [cmd : {"GET_STATE", "STOP", "GET_TTY_FD"}]

ASSUME AskAssumption == \A r \in Ask : DOMAIN r = Conn /\ \A c \in Conn : r[c] \in Request

NoConn == "NoConn"
ASSUME ConnAssumption == Conn \cap {NoConn, "none", "accept", "signal"} = {}

NoHandler == [owner |-> "none"]
MAX_STATE == "MAX_STATE"
Free == -1

VARIABLES
    cpc,      \* where the caller is: idle, connected, sent, wait, hold, done
    req,      \* the request that is sent on a connection
    unread,   \* the request waits in the monitor's receive buffer
    ans,      \* what the caller returns: [how, val]
    backlog,  \* connections that are not accepted yet
    mon,      \* the monitor: [fd: descriptor table, reg: armed handlers,
              \*   out: messages under way to the clients, list: state_clients, each
              \*   with its position in the list,
              \*   tty: who has it, uring: the mainloop uses io_uring]
    batch,    \* events epoll_wait() has returned and the loop has not handled
    blocked,  \* the handler that waits in recvmsg(), and the whole loop with it
    listening,\* maincmd_fd is open
    phase,    \* where the monitor is: start, loop, stopping, hooks, stopped, restart, exit, gone
    hstate,   \* handler->state
    alive,    \* the container's init is alive
    killed,   \* and has been sent the stop signal
    reboot,   \* conf->reboot: NONE, REQ, INIT
    runs,     \* the number of times RUNNING was announced by a start
    \* History variables, of the properties only:
    seen,     \* the states of concern announced since the caller connected
    since,    \* runs when the caller connected
    orphan,   \* an entry has outlived its connection in the list
    thawed    \* handler->state is RUNNING because of a THAWED

client == <<cpc, req, unread, ans>>
loop == <<batch, blocked>>
life == <<listening, phase, hstate, alive, killed, reboot, runs, thawed>>
vars == <<client, backlog, mon, loop, life, seen, since, orphan>>

Init ==
    /\ cpc = [c \in Conn |-> "idle"]
    /\ req \in Ask
    /\ unread = [c \in Conn |-> FALSE]
    /\ ans = [c \in Conn |-> [how |-> "none", val |-> "none"]]
    /\ backlog = <<>>
    /\ mon \in [fd : {[f \in Fd |-> NoConn]}, reg : {{}}, out : {[c \in Conn |-> <<>>]},
                list : {{}}, tty : {[t \in Tty |-> Free]}, uring : IoUring]
    /\ batch = {} /\ blocked = NoHandler
    /\ listening = TRUE /\ phase = "start" /\ hstate = "STARTING"
    /\ alive = FALSE /\ killed = FALSE /\ reboot = "NONE" /\ runs = 0
    /\ seen = [c \in Conn |-> {}] /\ since = [c \in Conn |-> 0]
    /\ orphan = FALSE /\ thawed = FALSE

-----------------------------------------------------------------------------
(* What the monitor does with its descriptors.  Each operator maps the     *)
(* monitor m to the monitor afterwards.                                    *)

\* The other end of descriptor f takes no more data.
Hungup(m, f) == m.fd[f] = NoConn \/ cpc[m.fd[f]] = "done"

Send(m, f, x) ==
    IF Hungup(m, f) THEN m ELSE [m EXCEPT !.out[m.fd[f]] = Append(@, x)]

\* close(): epoll drops the registration with the last descriptor.
Close(m, f) ==
    [m EXCEPT !.fd[f] = NoConn,
              !.reg = IF m.uring \/ m.fd[f] = NoConn THEN @
                      ELSE {h \in @ : h.conn # m.fd[f]}]

\* Mutant: the slot stays busy.
TtyNotFreed(m, f) == m
lxc_terminal_free(m, f) ==
    [m EXCEPT !.tty = [t \in Tty |-> IF @[t] = f THEN Free ELSE @[t]]]

\* Mutant: the states a client has asked for are not looked at.
ServeEveryone(m, s) ==
    LET served == {e.fd : e \in m.list}
        told == {m.fd[f] : f \in {g \in served : ~Hungup(m, g)}}
    IN  [m EXCEPT
            !.out = [c \in Conn |-> IF c \in told THEN Append(@[c], s) ELSE @[c]],
            !.list = {},
            !.fd = [f \in Fd |-> IF f \in served THEN NoConn ELSE @[f]]]

\* lxc_serve_state_clients(): tell those who asked for s, forget and close them.
Serve(m, s) ==
    LET served == {e.fd : e \in {d \in m.list : s \in d.states}}
        told == {m.fd[f] : f \in {g \in served : ~Hungup(m, g)}}
        closed == {m.fd[f] : f \in served}
    IN  [m EXCEPT
            !.out = [c \in Conn |-> IF c \in told THEN Append(@[c], s) ELSE @[c]],
            !.list = {e \in @ : s \notin e.states},
            !.fd = [f \in Fd |-> IF f \in served THEN NoConn ELSE @[f]],
            !.reg = IF m.uring THEN @ ELSE {h \in @ : h.conn \notin closed}]

\* The first entry of f in the list, if any.
FirstOf(list, f) == {e \in list : e.fd = f /\ \A d \in list \ {e} : d.fd = f => e.pos < d.pos}

\* list_add_tail().
AddTail(list, e) ==
    LET taken == {d.pos : d \in list}
    IN  list \cup {[e EXCEPT !.pos = IF taken = {} THEN 1
                                    ELSE 1 + CHOOSE n \in taken : \A k \in taken : k =< n]}

\* lxc_cmd_fd_cleanup() for a request cmd that came in on f.
lxc_cmd_fd_cleanup(m, f, cmd) ==
    IF cmd # "ADD_STATE_CLIENT" THEN m ELSE [m EXCEPT !.list = @ \ FirstOf(@, f)]

\* LXC_MAINLOOP_DISARM from handler h: disarm_handler(), then
\* lxc_cmd_cleanup_handler() unless that failed.  epoll fails on a descriptor
\* that is closed or not registered.
Disarm(m, h) ==
    IF m.uring \/ \E r \in m.reg : r.fd = h.fd /\ r.conn = m.fd[h.fd]
    THEN Close(lxc_terminal_free(m, h.fd), h.fd)
    ELSE m

\* What handler->state becomes.
Announced(s) == IF s = "THAWED" THEN "RUNNING" ELSE s

\* The answers that the request r may get.
Concern(r) ==
    CASE r.cmd = "ADD_STATE_CLIENT" -> r.states \cup {"STOPPED"}
      [] r.cmd = "GET_STATE" -> State
      [] OTHER -> {}
See(S) ==
    seen' = [c \in Conn |-> IF cpc[c] \in {"connected", "sent", "wait"}
                            THEN seen[c] \cup (S \cap Concern(req[c])) ELSE seen[c]]

\* The monitor becomes m and announces s.
SetState(m, s) ==
    /\ mon' = Serve(m, s)
    /\ hstate' = Announced(s)
    /\ thawed' = (s = "THAWED")
    /\ See({s, Announced(s)})

-----------------------------------------------------------------------------
(* The callers: lxc_cmd_timeout() and what is done with its answer.        *)

Accepted(c) == \A i \in DOMAIN backlog : backlog[i] # c

\* The monitor's end of c is gone.
Released(c) ==
    /\ Accepted(c)
    /\ \A f \in Fd : mon.fd[f] # c
    /\ \A h \in mon.reg : h.conn # c

Return(c, how, val) ==
    /\ cpc' = [cpc EXCEPT ![c] = "done"]
    /\ ans' = [ans EXCEPT ![c] = [how |-> how, val |-> val]]

\* The caller returns because the container is stopped: *stopped = 1.
ReturnStopped(c, r) ==
    Return(c, "stopped",
           CASE r.cmd = "STOP" -> "ok"
             [] r.cmd = "GET_STATE" -> "STOPPED"
             [] r.cmd = "ADD_STATE_CLIENT" /\ "STOPPED" \in r.states -> "STOPPED"
             [] OTHER -> "error")

\* lxc_cmd_connect().
Connect(c) ==
    /\ cpc[c] = "idle"
    /\ \/ /\ listening
          /\ backlog' = Append(backlog, c)
          /\ cpc' = [cpc EXCEPT ![c] = "connected"]
          /\ UNCHANGED ans
       \/ /\ ~listening
          /\ ReturnStopped(c, req[c])
          /\ UNCHANGED backlog
    /\ seen' = [seen EXCEPT ![c] = {hstate} \cap Concern(req[c])]
    /\ since' = [since EXCEPT ![c] = runs]
    /\ UNCHANGED <<req, unread, mon, loop, life, orphan>>

\* The rest of lxc_cmd_send().
SendRequest(c) ==
    /\ cpc[c] = "connected"
    /\ \/ /\ ~Released(c)
          /\ cpc' = [cpc EXCEPT ![c] = "sent"]
          /\ unread' = [unread EXCEPT ![c] = TRUE]
          /\ UNCHANGED ans
       \/ Released(c) /\ ReturnStopped(c, req[c]) /\ UNCHANGED unread
    /\ UNCHANGED <<req, backlog, mon, loop, life, seen, since, orphan>>

\* lxc_cmd_rsp_recv(): the response of the monitor.  A state client that was not
\* answered at once and the owner of a tty stay connected.
Response(c) ==
    LET x == Head(mon.out[c]) IN
    /\ cpc[c] = "sent" /\ mon.out[c] # <<>>
    /\ \/ x = MAX_STATE /\ cpc' = [cpc EXCEPT ![c] = "wait"] /\ UNCHANGED ans
       \/ x = "tty" /\ cpc' = [cpc EXCEPT ![c] = "hold"] /\ UNCHANGED ans
       \/ x \notin {MAX_STATE, "tty"} /\ Return(c, "response", x)
    /\ mon' = [mon EXCEPT !.out[c] = Tail(@)]
    /\ UNCHANGED <<req, unread, backlog, loop, life, seen, since, orphan>>

\* A receive that finds the connection closed: reset if the request was never
\* read, else an end of file, which lxc_cmd_stop() waits for.
NoResponse(c) ==
    /\ cpc[c] = "sent" /\ mon.out[c] = <<>> /\ Released(c)
    /\ \/ unread[c] /\ ReturnStopped(c, req[c])
       \/ ~unread[c] /\ Return(c, "eof", IF req[c].cmd = "STOP" THEN "ok" ELSE "error")
    /\ UNCHANGED <<req, unread, backlog, mon, loop, life, seen, since, orphan>>

\* lxc_cmd_sock_rcv_state(): an end of file reads as state 0, STOPPED.
lxc_cmd_sock_rcv_state(c) ==
    /\ cpc[c] = "wait"
    /\ \/ /\ mon.out[c] # <<>>
          /\ Return(c, "told", Head(mon.out[c]))
          /\ mon' = [mon EXCEPT !.out[c] = Tail(@)]
       \/ /\ mon.out[c] = <<>> /\ Released(c)
          /\ Return(c, "eof", "STOPPED")
          /\ UNCHANGED mon
    /\ UNCHANGED <<req, unread, backlog, loop, life, seen, since, orphan>>

\* The caller times out, is killed, or gives its tty back.
Leave(c) ==
    /\ cpc[c] \in {"connected", "sent", "wait", "hold"}
    /\ Return(c, "left", "none")
    /\ UNCHANGED <<req, unread, backlog, mon, loop, life, seen, since, orphan>>

-----------------------------------------------------------------------------
(* The mainloop.                                                           *)

\* A connection is readable.
Readable(c) == unread[c] \/ cpc[c] = "done"

Accept == [owner |-> "accept"]
Signal == [owner |-> "signal"]
Pending ==
    {h \in mon.reg : Readable(h.conn)}
      \cup (IF backlog # <<>> THEN {Accept} ELSE {})
      \cup (IF alive THEN {} ELSE {Signal})

\* epoll_wait().
epoll_wait ==
    /\ phase = "loop" /\ ~mon.uring /\ batch = {} /\ blocked = NoHandler /\ Pending # {}
    /\ batch' = Pending
    /\ UNCHANGED <<client, backlog, mon, blocked, life, seen, since, orphan>>

\* The loop turns to event e, or goes on with the handler that was blocked.
\* io_uring completes a poll once.
TakeEvent(e) ==
    /\ phase = "loop" /\ blocked = NoHandler
    /\ IF mon.uring THEN e \in Pending /\ UNCHANGED batch
       ELSE e \in batch /\ batch' = batch \ {e}
Event(e) ==
    \/ TakeEvent(e) /\ UNCHANGED blocked
    \/ phase = "loop" /\ blocked = e /\ blocked' = NoHandler /\ UNCHANGED batch
Fired(h) == [mon EXCEPT !.reg = IF mon.uring THEN @ \ {h} ELSE @]

\* LXC_MAINLOOP_CONTINUE: an io_uring poll is armed again, for the connection
\* its descriptor stands for now.
Rearm(m, h) ==
    [m EXCEPT !.reg = IF m.uring THEN @ \cup {[h EXCEPT !.conn = m.fd[h.fd]]} ELSE @]

\* lxc_cmd_accept(): accept4() takes the first connection that waits, and the
\* lowest free descriptor.
lxc_cmd_accept ==
    LET c == Head(backlog)
        free == {f \in Fd : mon.fd[f] = NoConn}
    IN  /\ Event(Accept) /\ backlog # <<>>
        /\ backlog' = Tail(backlog)
        /\ \E f \in free :
            /\ \A g \in free : f =< g
            /\ mon' = [mon EXCEPT !.fd[f] = c,
                                  !.reg = @ \cup {[owner |-> c, fd |-> f, conn |-> c]}]
        /\ UNCHANGED <<client, life, seen, since, orphan>>

\* No descriptor is left: LXC_MAINLOOP_ERROR ends the loop, and lxc_abort()
\* the container.
AcceptFails ==
    /\ Event(Accept) /\ \A f \in Fd : mon.fd[f] # NoConn
    /\ SetState([mon EXCEPT !.reg = {}], "ABORTING")
    /\ phase' = "stopping" /\ alive' = FALSE
    /\ UNCHANGED <<client, backlog, listening, killed, reboot, runs, since, orphan>>

\* The event was for a connection that is gone, and the descriptor is another's
\* by now who has nothing to say: recvmsg() blocks.
Blocks(h) ==
    LET c == mon.fd[h.fd] IN
    /\ TakeEvent(h)
    /\ c # NoConn /\ ~unread[c] /\ cpc[c] # "done"
    /\ blocked' = h /\ mon' = Fired(h)
    /\ UNCHANGED <<client, backlog, life, seen, since, orphan>>

\* lxc_cmd_handler() when there is nothing to read: the peer is gone, or the
\* descriptor is closed.  req.cmd was never set, so it may be anything.
Disconnect(h) ==
    LET c == mon.fd[h.fd] IN
    /\ Event(h)
    /\ c # NoConn => ~unread[c] /\ cpc[c] = "done"
    /\ \E cmd \in {"ADD_STATE_CLIENT", "GET_TTY_FD"} :
        /\ mon' = Disarm(lxc_cmd_fd_cleanup(Fired(h), h.fd, cmd), h)
        /\ orphan' = (orphan \/ \E e \in mon'.list : mon'.fd[e.fd] # e.conn)
    /\ UNCHANGED <<client, backlog, life, seen, since>>

\* lxc_cmd_rsp_send_reap(): answer x and close, whether or not it was sent.
Reap(m, h, x, cmd) == Disarm(lxc_cmd_fd_cleanup(Send(m, h.fd, x), h.fd, cmd), h)

\* lxc_cmd_rsp_send_keep(): answer x; the connection stays unless that failed.
Keep(m, h, x, cmd) ==
    IF Hungup(m, h.fd) THEN Disarm(lxc_cmd_fd_cleanup(m, h.fd, cmd), h)
    ELSE Rearm(Send(m, h.fd, x), h)

\* lxc_cmd_handler() has a request to read: lxc_cmd_process().
Process(h, r) ==
    LET c == mon.fd[h.fd] IN
    /\ Event(h)
    /\ c # NoConn /\ unread[c] /\ req[c] = r
    /\ unread' = [unread EXCEPT ![c] = FALSE]
    /\ UNCHANGED <<cpc, req, ans, backlog, listening, phase, alive, reboot, runs, since, orphan>>

lxc_cmd_get_state_callback(h, r) ==
    /\ r.cmd = "GET_STATE" /\ Process(h, r)
    /\ mon' = Reap(Fired(h), h, hstate, r.cmd)
    /\ UNCHANGED <<hstate, killed, seen, thawed>>

\* Mutant: the client is added without a look at the current state.
AddUnchecked(h, r) ==
    LET e == [fd |-> h.fd, states |-> r.states, again |-> r.again, conn |-> mon.fd[h.fd], pos |-> 0] IN
    /\ r.cmd = "ADD_STATE_CLIENT" /\ Process(h, r)
    /\ mon' = Keep([Fired(h) EXCEPT !.list = AddTail(@, e)], h, MAX_STATE, r.cmd)
    /\ UNCHANGED <<hstate, killed, seen, thawed>>

\* lxc_add_state_client(): a state that is already reached is answered at once,
\* unless the client wants the next time (states[RUNNING] == 2).
lxc_cmd_add_state_client_callback(h, r) ==
    LET e == [fd |-> h.fd, states |-> r.states, again |-> r.again, conn |-> mon.fd[h.fd], pos |-> 0]
        now == hstate \in r.states /\ ~r.again
    IN  /\ r.cmd = "ADD_STATE_CLIENT" /\ Process(h, r)
        /\ mon' = IF now THEN Keep(Fired(h), h, hstate, r.cmd)
                  ELSE Keep([Fired(h) EXCEPT !.list = AddTail(@, e)], h, MAX_STATE, r.cmd)
        /\ UNCHANGED <<hstate, killed, seen, thawed>>

\* The init may be a zombie already: it can still be signalled.
lxc_cmd_stop_callback(h, r) ==
    /\ r.cmd = "STOP" /\ Process(h, r)
    /\ killed' = TRUE
    /\ mon' = Rearm(Fired(h), h)
    /\ UNCHANGED <<hstate, seen, thawed>>

lxc_cmd_serve_state_clients_callback(h, r) ==
    /\ r.cmd = "SERVE_STATE_CLIENTS" /\ Process(h, r)
    /\ mon' = Reap(Serve(Fired(h), r.state), h, "ok", r.cmd)
    /\ hstate' = Announced(r.state) /\ thawed' = (r.state = "THAWED")
    /\ See({r.state, Announced(r.state)})
    /\ UNCHANGED killed

\* lxc_terminal_allocate(): the first free tty, if any.
lxc_cmd_get_tty_fd_callback(h, r) ==
    LET free == {t \in Tty : mon.tty[t] = Free}
    IN  /\ r.cmd = "GET_TTY_FD" /\ Process(h, r)
        /\ \/ free = {} /\ mon' = Reap(Fired(h), h, "error", r.cmd)
           \/ \E t \in free :
                /\ \A u \in free : t =< u
                /\ mon' = Keep([Fired(h) EXCEPT !.tty[t] = h.fd], h, "tty", r.cmd)
        /\ UNCHANGED <<hstate, killed, seen, thawed>>

-----------------------------------------------------------------------------
(* The container starts, stops and reboots.                                *)

\* lxc_spawn() announces RUNNING; lxc_poll() opens the mainloop.
StartRunning ==
    /\ phase = "start"
    /\ SetState(mon, "RUNNING")
    /\ phase' = "loop" /\ alive' = TRUE /\ killed' = FALSE
    /\ reboot' = "NONE" /\ runs' = runs + 1
    /\ UNCHANGED <<client, backlog, loop, listening, since, orphan>>

\* A start that fails: lxc_abort().
StartFails ==
    /\ phase = "start"
    /\ SetState(mon, "ABORTING")
    /\ phase' = "stopping"
    /\ UNCHANGED <<client, backlog, loop, listening, alive, killed, reboot, runs, since, orphan>>

\* The init exits, halts or reboots, or dies of the stop signal.
InitDies ==
    /\ phase = "loop" /\ alive
    /\ alive' = FALSE
    /\ UNCHANGED <<client, backlog, mon, loop, listening, phase, hstate, killed, reboot, runs,
                   seen, since, orphan, thawed>>

\* signal_handler() closes the mainloop: its handlers are freed, their
\* descriptors stay open.  The wait status says whether to reboot.
signal_handler ==
    /\ Event(Signal)
    /\ mon' = [mon EXCEPT !.reg = {}]
    /\ phase' = "stopping" /\ reboot' \in {"NONE"} \cup (IF runs < MaxRuns THEN {"REQ"} ELSE {})
    /\ UNCHANGED <<client, backlog, listening, hstate, alive, killed, runs, seen, since, orphan,
                   thawed>>

\* lxc_end() first announces STOPPING.
EndStopping ==
    /\ phase = "stopping"
    /\ SetState(mon, "STOPPING")
    /\ phase' = "hooks" /\ batch' = {}
    /\ UNCHANGED <<client, backlog, blocked, listening, alive, killed, reboot, runs, since, orphan>>

\* A reboot announces STOPPED; otherwise closing the command socket tells it.
EndStopped ==
    /\ phase = "hooks"
    /\ \/ /\ reboot # "NONE" /\ SetState(mon, "STOPPED")
          /\ UNCHANGED <<backlog, listening>>
       \/ /\ reboot = "NONE"
          /\ listening' = FALSE /\ backlog' = <<>>
          /\ hstate' = "STOPPED" /\ thawed' = FALSE
          /\ See({"STOPPED"})
          /\ UNCHANGED mon
    /\ phase' = "stopped"
    /\ UNCHANGED <<client, loop, alive, killed, reboot, runs, since, orphan>>

\* Who stays in the list.  Mutant: everybody does when the container reboots.
KeptAll(e, again) == again # "NONE"
Kept(e, again) == again # "NONE" /\ e.again /\ "RUNNING" \in e.states

\* The post-stop hook may cancel the reboot.  The state clients are closed
\* but for those that want to hear of the restart, then lxc_put_handler().
EndClients ==
    /\ phase = "stopped"
    /\ \E again \in {reboot, "NONE"} :
        LET gone == {e.fd : e \in {d \in mon.list : ~Kept(d, again)}}
        IN  /\ mon' = [mon EXCEPT !.list = {e \in @ : Kept(e, again)},
                                  !.fd = [f \in Fd |-> IF f \in gone THEN NoConn ELSE @[f]],
                                  !.tty = [t \in Tty |-> Free]]
            /\ reboot' = again
            /\ phase' = IF again = "REQ" THEN "restart" ELSE "exit"
            /\ listening' = (listening /\ again # "NONE")
            /\ backlog' = IF again = "NONE" THEN <<>> ELSE backlog
    /\ UNCHANGED <<client, loop, hstate, alive, killed, runs, seen, since, orphan, thawed>>

\* lxc_init() of the next run.
Restart ==
    /\ phase = "restart"
    /\ SetState(mon, "STARTING")
    /\ phase' = "start" /\ reboot' = "INIT"
    /\ UNCHANGED <<client, backlog, loop, listening, alive, killed, runs, since, orphan>>

\* The monitor exits and the kernel closes what it has left open.
Exit ==
    /\ phase = "exit"
    /\ mon' = [mon EXCEPT !.fd = [f \in Fd |-> NoConn], !.list = {}]
    /\ phase' = "gone" /\ listening' = FALSE /\ backlog' = <<>>
    /\ UNCHANGED <<client, loop, hstate, alive, killed, reboot, runs, seen,
                   since, orphan, thawed>>

Callback(h, r) ==
    \/ lxc_cmd_get_state_callback(h, r)
    \/ lxc_cmd_add_state_client_callback(h, r)
    \/ lxc_cmd_stop_callback(h, r)
    \/ lxc_cmd_serve_state_clients_callback(h, r)
    \/ lxc_cmd_get_tty_fd_callback(h, r)

\* The handler that was set up for connection c.
lxc_cmd_handler(c) ==
    \E h \in {e \in mon.reg \cup batch \cup {blocked} : e.owner = c} :
        Disconnect(h) \/ Blocks(h) \/ \E d \in Conn : d = mon.fd[h.fd] /\ Callback(h, req[d])

Caller(c) ==
    \/ Connect(c) \/ SendRequest(c) \/ Response(c) \/ NoResponse(c)
    \/ lxc_cmd_sock_rcv_state(c)
Start == StartRunning \/ StartFails
End == EndStopping \/ EndStopped \/ EndClients \/ Restart \/ Exit
Loop == epoll_wait \/ lxc_cmd_accept \/ AcceptFails \/ signal_handler

Next ==
    \/ Start \/ Loop \/ End \/ InitDies
    \/ \E c \in Conn : lxc_cmd_handler(c) \/ Caller(c) \/ Leave(c)

\* The monitor is one process that runs on; both backends hand out every event
\* in its turn.  SIGKILL is the default stop signal.  A caller goes on unless it
\* is blocked, but nobody has to start a command.
Fairness ==
    /\ WF_vars(Start) /\ WF_vars(End)
    /\ WF_vars(epoll_wait) /\ WF_vars(signal_handler)
    /\ WF_vars(lxc_cmd_accept \/ AcceptFails)
    /\ WF_vars(killed /\ InitDies)
    /\ \A c \in Conn :
        /\ WF_vars(lxc_cmd_handler(c))
        /\ WF_vars(Caller(c) /\ cpc[c] # "idle")

Spec == Init /\ [][Next]_vars /\ Fairness

-----------------------------------------------------------------------------
(* Properties.                                                             *)

\* lxc_add_state_client() and lxc_serve_state_clients(): nobody is left in the
\* list waiting for the state the container is in, except for those that want
\* to hear of it again.  (A THAWED makes the state RUNNING without telling those
\* who wait for RUNNING: they hear of it when the thaw is confirmed.)
NoMissedState ==
    \A e \in mon.list :
        e.again \/ thawed \/ hstate \notin e.states
          \/ phase \in {"stopped", "exit", "gone"}

\* A caller that is told a state was waiting for it, or asked what the state is,
\* and the container has been in that state since the call began: neither a
\* reused descriptor number nor an end of file misleads it.
AnswerTrue ==
    \A c \in Conn :
        (~orphan /\ ans[c].val \in State) =>
            /\ ans[c].val \in seen[c]
            /\ ans[c].how = "told" => ans[c].val \in req[c].states

\* lxc_cmd_stop() returns success only when the container's init is dead, or was
\* when the container restarted meanwhile.
StopVerdict ==
    \A c \in Conn :
        (~orphan /\ req[c].cmd = "STOP" /\ ans[c].val = "ok") => ~alive \/ runs > since[c]

\* What a caller is answered is true, whatever happened to its connection and to
\* its descriptor number in the monitor.
AnswersTrue == AnswerTrue /\ StopVerdict

\* A tty slot is busy exactly for as long as the connection it was given to is
\* open: lxc_cmd_cleanup_handler() frees it together with the descriptor.
TtyOwned ==
    \A t \in Tty :
        (~orphan /\ mon.tty[t] # Free) =>
            /\ mon.fd[mon.tty[t]] # NoConn
            /\ req[mon.fd[mon.tty[t]]].cmd = "GET_TTY_FD"
            /\ \A u \in Tty \ {t} : mon.tty[u] # mon.tty[t]

\* Every request is answered in the run of the container it was made in, also
\* when the container stops meanwhile; a stop request is answered when it has.
RequestAnswered ==
    \A c \in Conn : cpc[c] = "sent" ~> cpc[c] \in {"wait", "hold", "done"} \/ runs > since[c]

\* commands.c, in lxc_cmd_add_state_client(): "We should now be guaranteed to
\* get an answer from the state sending function": at the latest when the
\* container stops.
WaiterAnswered ==
    \A c \in Conn : (cpc[c] = "wait" /\ ~alive) ~> cpc[c] = "done"

\* The slot of a caller that has hung up is free again in the end, whatever the
\* other connections do meanwhile.
TtyReturned ==
    \A t \in Tty :
        (\E f \in Fd : mon.tty[t] = f /\ mon.fd[f] # NoConn /\ cpc[mon.fd[f]] = "done")
            ~> mon.tty[t] = Free

\* Whoever asks is answered, whoever waits is told, and whoever leaves gives back
\* what it held: lxc_cmd_handler() and lxc_cmd_fd_cleanup() get to every connection.
CallersServed == RequestAnswered /\ WaiterAnswered /\ TtyReturned
=============================================================================
