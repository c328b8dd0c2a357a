------------------------- MODULE CommandServerProofs -------------------------
(***************************************************************************)
(* Proofs about the command server, for any number of callers, any         *)
(* requests, any descriptors and ttys, both backends of the mainloop and   *)
(* any number of reboots.                                                  *)
(*                                                                         *)
(* Given the types, NoMissedState is inductive as it is.  The others hold  *)
(* as long as no entry of the list has outlived its connection (orphan),   *)
(* and rest on one invariant, Orderly.  It follows a connection through    *)
(* the monitor: which descriptor, list entry and tty are its own           *)
(* (Connections, Entries, Ttys), what is on its way to the caller          *)
(* (Messages), and that nobody who waits loses its connection or its entry *)
(* without being told, unless the container has stopped since the call     *)
(* began (Closed, Waiting).                                                *)
(*                                                                         *)
(* This module has the invariant, what the helpers of the monitor do, and  *)
(* the steps of the callers, of the container and of the mainloop.         *)
(* CommandRequestProofs has the callbacks of the commands and the theorems. *)
(***************************************************************************)
EXTENDS CommandServer, TLAPS

-----------------------------------------------------------------------------
(* The inductive invariant                                                 *)

Place == {"idle", "connected", "sent", "wait", "hold", "done"}
Msg == State \cup {MAX_STATE, "tty", "ok", "error"}
Answer == [how : {"none", "stopped", "response", "told", "eof", "left"}, val : Msg \cup {"none"}]
Phase == {"start", "loop", "stopping", "hooks", "stopped", "restart", "exit", "gone"}
Handler == [owner : Conn, fd : Fd, conn : Conn]

ClientOK ==
    /\ cpc \in [Conn -> Place] /\ unread \in [Conn -> BOOLEAN]
    /\ \A c \in Conn : req[c] \in Request
    /\ ans \in [Conn -> Answer]
    /\ seen \in [Conn -> SUBSET State] /\ since \in [Conn -> Nat]
MonOK(m) ==
    /\ m = [x \in {"fd", "reg", "out", "list", "tty", "uring"} |-> m[x]]
    /\ m.fd \in [Fd -> Conn \cup {NoConn}] /\ m.out \in [Conn -> Seq(Msg)]
    /\ m.tty \in [Tty -> Fd \cup {Free}] /\ m.reg \subseteq Handler /\ m.uring \in BOOLEAN
LoopOK ==
    /\ backlog \in Seq(Conn)
    /\ batch \subseteq Handler \cup {Accept, Signal} /\ blocked \in Handler \cup {NoHandler}
    /\ phase \in Phase /\ hstate \in State /\ runs \in Nat
    /\ alive \in BOOLEAN /\ listening \in BOOLEAN
    /\ reboot \in {"NONE", "REQ", "INIT"}
TypeOK == ClientOK /\ MonOK(mon) /\ LoopOK

\* Where the monitor is tells what has become of the container.
Phases ==
    /\ phase # "loop" => ~alive
    /\ phase \in {"start", "hooks", "stopped", "restart"} => batch = {}
    /\ Signal \in batch => ~alive
    /\ phase \in {"stopped", "restart", "exit", "gone"} => hstate = "STOPPED"
    /\ ~listening => phase \in {"stopped", "exit", "gone"} /\ (phase = "stopped" => reboot = "NONE")
    /\ phase \in {"exit", "gone"} => \A t \in Tty : mon.tty[t] = Free

\* The caller waits for an answer.
Calling(c) == cpc[c] \in {"connected", "sent", "wait"}
\* The monitor has yet to read the request.
Fresh(c) == cpc[c] \in {"idle", "connected"} \/ unread[c] \/ ~Accepted(c)
InFd(c) == \E f \in Fd : mon.fd[f] = c
Listed(c) == \E e \in mon.list : e.conn = c

\* A connection is in the backlog, or in the descriptor table, once.
Connections ==
    /\ \A f, g \in Fd : mon.fd[f] = mon.fd[g] /\ mon.fd[f] # NoConn => f = g
    /\ \A i, j \in DOMAIN backlog : backlog[i] = backlog[j] => i = j
    /\ \A i \in DOMAIN backlog, f \in Fd : mon.fd[f] # backlog[i]

\* An entry of the list is of the connection its descriptor stands for.
Entries ==
    \A e \in mon.list :
        /\ e.fd \in Fd /\ e.conn \in Conn /\ mon.fd[e.fd] = e.conn /\ ~Fresh(e.conn)
        /\ req[e.conn].cmd = "ADD_STATE_CLIENT" /\ req[e.conn].states = e.states
        /\ \A d \in mon.list : d.conn = e.conn => d = e

\* A busy tty is of a connection that has asked for one, and has one only.
Ttys ==
    \A t \in Tty : mon.tty[t] # Free =>
        /\ mon.fd[mon.tty[t]] \in Conn /\ ~Fresh(mon.fd[mon.tty[t]])
        /\ req[mon.fd[mon.tty[t]]].cmd = "GET_TTY_FD"
        /\ \A u \in Tty : mon.tty[u] = mon.tty[t] => u = t

\* Before the connection is made nothing is known of it, and before its request
\* is read nothing is answered.
Begins(c) ==
    /\ cpc[c] = "idle" => Accepted(c) /\ ~InFd(c)
    /\ unread[c] => cpc[c] \in {"sent", "done"}
    /\ Fresh(c) => mon.out[c] = <<>>

\* A caller has seen the state the container is in.
StateSeen(c) ==
    /\ since[c] =< runs
    /\ Calling(c) /\ hstate \in Concern(req[c]) => hstate \in seen[c]

\* What is under way to a caller is true, and what it asked for.
Right(c, x) ==
    /\ x \in State => x \in seen[c] /\ (req[c].cmd = "ADD_STATE_CLIENT" => x \in req[c].states)
    /\ x = MAX_STATE => req[c].cmd = "ADD_STATE_CLIENT"
    /\ x = "tty" => req[c].cmd = "GET_TTY_FD"
    /\ x = "ok" => req[c].cmd = "SERVE_STATE_CLIENTS"
Messages(c) ==
    /\ \A i \in DOMAIN mon.out[c] : Right(c, mon.out[c][i])
    /\ cpc[c] = "wait" => req[c].cmd = "ADD_STATE_CLIENT"
    /\ cpc[c] = "hold" => req[c].cmd = "GET_TTY_FD"

\* The container has stopped since c has called.
Ended(c) ==
    /\ "STOPPED" \in Concern(req[c]) => "STOPPED" \in seen[c]
    /\ ~alive \/ runs > since[c]

\* A connection is not closed before its request is read, and one that waits for
\* a stop is not closed at all, until the container has stopped.
Closed(c) ==
    /\ cpc[c] = "connected" \/ (cpc[c] = "sent" /\ (unread[c] \/ req[c].cmd = "STOP"))
    /\ Accepted(c) /\ ~InFd(c)
    => Ended(c)

\* Who was promised a state is in the list, or has it on the way, or the
\* container has stopped.
Promised(c) == cpc[c] = "wait" \/ (cpc[c] = "sent" /\ \E i \in DOMAIN mon.out[c] : mon.out[c][i] = MAX_STATE)
Told(c) == \E i \in DOMAIN mon.out[c] : mon.out[c][i] \in State
Waiting(c) == Promised(c) => Listed(c) \/ Told(c) \/ "STOPPED" \in seen[c]

\* What was answered was true.
Answers(c) ==
    /\ cpc[c] # "done" => ans[c].val = "none"
    /\ ans[c].val \in State => ans[c].val \in seen[c] /\ (ans[c].how = "told" => ans[c].val \in req[c].states)
    /\ req[c].cmd = "STOP" /\ ans[c].val = "ok" => ~alive \/ runs > since[c]

Own(c) == Begins(c) /\ StateSeen(c) /\ Messages(c) /\ Closed(c) /\ Waiting(c) /\ Answers(c)
Orderly == Connections /\ Entries /\ Ttys /\ \A c \in Conn : Own(c)

IInv == NoMissedState /\ TypeOK /\ Phases /\ (~orphan => Orderly)

-----------------------------------------------------------------------------
(* What the operators on the monitor do                                    *)

\* n is m, or m with descriptor f closed and its tty free (LXC_MAINLOOP_DISARM).
Leaves(m, n, f) ==
    /\ MonOK(n) /\ n.out = m.out /\ n.list = m.list
    /\ \/ n.fd = m.fd /\ n.tty = m.tty
       \/ /\ n.fd = [m.fd EXCEPT ![f] = NoConn]
          /\ n.tty = [t \in Tty |-> IF m.tty[t] = f THEN Free ELSE m.tty[t]]

\* Only the handlers differ.
SameBut(m, n) == MonOK(n) /\ n.fd = m.fd /\ n.tty = m.tty /\ n.out = m.out /\ n.list = m.list

\* Fired() takes a handler out of the poll set and does nothing else.
LEMMA FiredEffect ==
    ASSUME MonOK(mon), NEW h \in Handler
    PROVE  SameBut(mon, Fired(h))
  BY ZenonT(60) DEF MonOK, Fired, SameBut

\* Rearm() adds a handler and does nothing else.
LEMMA RearmEffect ==
    ASSUME NEW m, MonOK(m), NEW h \in Handler, m.fd[h.fd] \in Conn
    PROVE  SameBut(m, Rearm(m, h))
  BY ZenonT(60) DEF MonOK, Rearm, SameBut, Handler

\* Send() appends to what is under way to the connection, if it is open.
LEMMA SendEffect ==
    ASSUME NEW m, MonOK(m), NEW f \in Fd, NEW x \in Msg
    PROVE  LET n == Send(m, f, x) IN
           /\ MonOK(n) /\ n.fd = m.fd /\ n.tty = m.tty /\ n.list = m.list
           /\ n.out = IF Hungup(m, f) THEN m.out ELSE [m.out EXCEPT ![m.fd[f]] = Append(@, x)]
<1>1. CASE Hungup(m, f)
  BY ZenonT(60), <1>1 DEF Send
<1>2. CASE ~Hungup(m, f)
  <2> DEFINE out == [m.out EXCEPT ![m.fd[f]] = Append(@, x)]
  <2>1. out \in [Conn -> Seq(Msg)]
    BY <1>2 DEF MonOK, Hungup
  <2>2. Send(m, f, x) = [m EXCEPT !.out = out]
    BY ZenonT(60), <1>2 DEF Send
  <2> HIDE DEF out
  <2>3. /\ MonOK(Send(m, f, x)) /\ Send(m, f, x).fd = m.fd /\ Send(m, f, x).tty = m.tty
        /\ Send(m, f, x).list = m.list /\ Send(m, f, x).out = out
    BY ZenonT(60), <2>1, <2>2 DEF MonOK
  <2> QED
    BY ZenonT(60), <1>2, <2>3 DEF out
<1> QED
  BY ZenonT(60), <1>1, <1>2

\* Disarm() closes the descriptor and frees its tty, or fails and changes nothing.
LEMMA DisarmEffect ==
    ASSUME NEW m, MonOK(m), NEW h \in Handler
    PROVE  Leaves(m, Disarm(m, h), h.fd)
<1>1. h.fd \in Fd
  BY ZenonT(60) DEF Handler
<1> DEFINE t == lxc_terminal_free(m, h.fd)
<1>2. /\ MonOK(t) /\ t.fd = m.fd /\ t.out = m.out /\ t.list = m.list
      /\ t.tty = [u \in Tty |-> IF m.tty[u] = h.fd THEN Free ELSE m.tty[u]]
  BY ZenonT(60), <1>1 DEF MonOK, lxc_terminal_free
<1> HIDE DEF t
<1> DEFINE c == Close(t, h.fd)
<1>3. /\ MonOK(c) /\ c.fd = [t.fd EXCEPT ![h.fd] = NoConn] /\ c.out = t.out /\ c.list = t.list
      /\ c.tty = t.tty
  BY ZenonT(60), <1>1, <1>2 DEF MonOK, Close
<1>4. Disarm(m, h) = m \/ Disarm(m, h) = c
  BY ZenonT(60) DEF Disarm, c, t
<1> HIDE DEF c
<1> QED
  BY ZenonT(60), <1>2, <1>3, <1>4 DEF Leaves

\* lxc_cmd_fd_cleanup() takes the first entry of the descriptor out of the list.
LEMMA CleanupEffect ==
    ASSUME NEW m, MonOK(m), NEW f \in Fd, NEW cmd
    PROVE  LET n == lxc_cmd_fd_cleanup(m, f, cmd) IN
           /\ MonOK(n) /\ n.fd = m.fd /\ n.tty = m.tty /\ n.out = m.out
           /\ n.list = IF cmd = "ADD_STATE_CLIENT" THEN m.list \ FirstOf(m.list, f) ELSE m.list
  BY ZenonT(60) DEF MonOK, lxc_cmd_fd_cleanup

\* The descriptors of those who asked for s.
Asked(m, s) == {e.fd : e \in {d \in m.list : s \in d.states}}

\* lxc_serve_state_clients() tells, forgets and closes those who asked for s.
LEMMA ServeEffect ==
    ASSUME NEW m, MonOK(m), NEW s \in State
    PROVE  LET n == Serve(m, s) IN
           /\ MonOK(n) /\ n.tty = m.tty
           /\ n.list = {e \in m.list : s \notin e.states}
           /\ n.fd = [f \in Fd |-> IF f \in Asked(m, s) THEN NoConn ELSE m.fd[f]]
           /\ n.out = [c \in Conn |-> IF \E f \in Asked(m, s) : m.fd[f] = c /\ ~Hungup(m, f)
                                      THEN Append(m.out[c], s) ELSE m.out[c]]
<1> DEFINE served == Asked(m, s)
           told == {m.fd[f] : f \in {g \in served : ~Hungup(m, g)}}
           out == [c \in Conn |-> IF c \in told THEN Append(m.out[c], s) ELSE m.out[c]]
           fd == [f \in Fd |-> IF f \in served THEN NoConn ELSE m.fd[f]]
           reg == IF m.uring THEN m.reg ELSE {h \in m.reg : h.conn \notin {m.fd[f] : f \in served}}
           list == {e \in m.list : s \notin e.states}
<1>1. Serve(m, s) = [m EXCEPT !.out = out, !.list = list, !.fd = fd, !.reg = reg]
  BY ZenonT(60) DEF Serve, Asked
<1>2. out \in [Conn -> Seq(Msg)] /\ fd \in [Fd -> Conn \cup {NoConn}] /\ reg \subseteq Handler
  BY DEF MonOK, Msg
<1>3. out = [c \in Conn |-> IF \E f \in served : m.fd[f] = c /\ ~Hungup(m, f) THEN Append(m.out[c], s) ELSE m.out[c]]
  OBVIOUS
<1> HIDE DEF out, fd, reg, list
<1>4. /\ MonOK(Serve(m, s)) /\ Serve(m, s).tty = m.tty /\ Serve(m, s).list = list
      /\ Serve(m, s).fd = fd /\ Serve(m, s).out = out
  BY ZenonT(60), <1>1, <1>2 DEF MonOK
<1> QED
  BY ZenonT(60), <1>3, <1>4 DEF fd, list

-----------------------------------------------------------------------------
(* What a step does to one connection                                      *)

\* The states that are of concern to a request.
LEMMA ConcernOf ==
    ASSUME NEW r \in Request
    PROVE  /\ Concern(r) \subseteq State
           /\ r.cmd = "ADD_STATE_CLIENT" => r.states \subseteq State /\ Concern(r) = r.states \cup {"STOPPED"}
           /\ r.cmd = "GET_STATE" => Concern(r) = State
           /\ r.cmd \in {"STOP", "GET_TTY_FD", "SERVE_STATE_CLIENTS"} => Concern(r) = {}
           /\ r.cmd = "SERVE_STATE_CLIENTS" => r.state \in State
<1>1. CASE r \in [cmd : {"ADD_STATE_CLIENT"}, states : SUBSET State, again : BOOLEAN]
  BY ZenonT(60), <1>1 DEF Concern, State
<1>2. CASE r \in [cmd : {"SERVE_STATE_CLIENTS"}, state : State]
  BY ZenonT(60), <1>2 DEF Concern
<1>3. CASE r \in [cmd : {"GET_STATE", "STOP", "GET_TTY_FD"}]
  BY ZenonT(60), <1>3 DEF Concern
<1> QED
  BY ZenonT(60), <1>1, <1>2, <1>3 DEF Request

\* Nothing of c changes.
Untouched(c) ==
    /\ cpc'[c] = cpc[c] /\ unread'[c] = unread[c] /\ req'[c] = req[c] /\ ans'[c] = ans[c]
    /\ seen'[c] = seen[c] /\ since'[c] = since[c] /\ mon'.out[c] = mon.out[c]
    /\ Accepted(c)' = Accepted(c) /\ InFd(c)' = InFd(c) /\ Listed(c)' = Listed(c)

\* A connection that a step does not touch keeps its invariant.
LEMMA UntouchedKeeps ==
    ASSUME NEW c \in Conn, Own(c), Untouched(c), hstate' = hstate, runs' = runs, alive' => alive
    PROVE  Own(c)'
<1>1. Begins(c)' /\ StateSeen(c)' /\ Messages(c)'
  BY ZenonT(60) DEF Own, Untouched, Begins, Fresh, StateSeen, Calling, Messages, Right
<1>2. Closed(c)' /\ Waiting(c)' /\ Answers(c)'
  BY ZenonT(60) DEF Own, Untouched, Closed, Ended, Waiting, Promised, Told, Answers
<1> QED
  BY ZenonT(60), <1>1, <1>2 DEF Own

\* The caller of c is where it was, and has seen the state of the container.
Stays(c) ==
    /\ cpc'[c] = cpc[c] /\ req'[c] = req[c] /\ ans'[c] = ans[c] /\ since'[c] = since[c]
    /\ seen[c] \subseteq seen'[c]
    /\ Calling(c) /\ hstate' \in Concern(req[c]) => hstate' \in seen'[c]
    /\ runs' \in {runs, runs + 1} /\ (alive' => alive \/ runs' = runs + 1)

\* The monitor announces s: c is told if it is in the list and asked for s, and then
\* it is out of the list and closed.
Announces(c, s) ==
    /\ Stays(c) /\ unread'[c] = unread[c] /\ Accepted(c)' = Accepted(c)
    /\ \/ mon'.out[c] = mon.out[c] /\ InFd(c)' = InFd(c) /\ Listed(c)' = Listed(c)
       \/ /\ mon'.out[c] = IF cpc[c] = "done" THEN mon.out[c] ELSE Append(mon.out[c], s)
          /\ ~Fresh(c) /\ req[c].cmd = "ADD_STATE_CLIENT" /\ s \in req[c].states
          /\ Calling(c) => s \in seen'[c]

\* lxc_serve_state_clients() keeps the invariant of a connection.
LEMMA AnnouncesKeeps ==
    ASSUME TypeOK, NEW c \in Conn, Own(c), NEW s \in State, Announces(c, s)
    PROVE  Own(c)'
<1>0. /\ mon.out[c] \in Seq(Msg) /\ since[c] \in Nat /\ runs \in Nat /\ alive \in BOOLEAN /\ cpc[c] \in Place
      /\ s \in Msg /\ s # MAX_STATE /\ s # "tty" /\ s # "ok" /\ ans[c].val \in Msg \cup {"none"}
  BY ZenonT(60) DEF Answer, TypeOK, ClientOK, MonOK, LoopOK, Msg, State, MAX_STATE
<1>1. StateSeen(c)' /\ Answers(c)'
  BY <1>0 DEF Own, Announces, Stays, StateSeen, Answers, Calling
<1>2. CASE mon'.out[c] = mon.out[c] /\ InFd(c)' = InFd(c) /\ Listed(c)' = Listed(c)
  <2>1. Begins(c)' /\ Messages(c)'
    BY ZenonT(60), <1>2 DEF Own, Announces, Stays, Begins, Fresh, Messages, Right
  <2>2. Closed(c)'
    BY SMTT(60), <1>0, <1>2 DEF Own, Announces, Stays, StateSeen, Closed, Ended
  <2>3. Waiting(c)'
    BY ZenonT(60), <1>2 DEF Own, Announces, Stays, Waiting, Promised, Told
  <2> QED
    BY ZenonT(60), <1>1, <2>1, <2>2, <2>3 DEF Own
<1>3. CASE /\ mon'.out[c] = IF cpc[c] = "done" THEN mon.out[c] ELSE Append(mon.out[c], s)
           /\ ~Fresh(c) /\ req[c].cmd = "ADD_STATE_CLIENT" /\ s \in req[c].states
           /\ Calling(c) => s \in seen'[c]
  <2>1. Begins(c)' /\ Closed(c)'
    BY ZenonT(60), <1>3 DEF Own, Announces, Stays, Begins, Fresh, Closed
  <2>2. cpc[c] # "done" => Calling(c)
    BY ZenonT(60), <1>0, <1>3 DEF Own, Fresh, Messages, Calling, Place
  <2>3. Messages(c)'
    <3>1. \A x : Right(c, x) => Right(c, x)'
      BY ZenonT(60) DEF Announces, Stays, Right
    <3>2. cpc[c] # "done" => Right(c, s)'
      BY ZenonT(60), <1>0, <1>3, <2>2 DEF Announces, Stays, Right
    <3>3. \A i \in DOMAIN mon'.out[c] : \E x \in Msg : x = mon'.out[c][i] /\ Right(c, x)'
      <4>1. CASE cpc[c] = "done"
        BY <1>0, <1>3, <3>1, <4>1 DEF Own, Messages
      <4>2. CASE cpc[c] # "done"
        <5>1. TAKE i \in DOMAIN mon'.out[c]
        <5>2. mon'.out[c][i] = s \/ (i \in DOMAIN mon.out[c] /\ mon'.out[c][i] = mon.out[c][i])
          BY ONLY SMTT(60), <1>0, <1>3, <4>2
        <5> QED
          BY <1>0, <3>1, <3>2, <4>2, <5>2 DEF Own, Messages
      <4> QED
        BY ZenonT(60), <4>1, <4>2
    <3> QED
      BY ZenonT(60), <3>3 DEF Own, Messages, Announces, Stays
  <2>4. Waiting(c)'
    <3>1. cpc[c] # "done" => Told(c)'
      BY ONLY SMTT(60), <1>0, <1>3 DEF Told
    <3> QED
      BY ZenonT(60), <3>1 DEF Announces, Stays, Waiting, Promised
  <2> QED
    BY ZenonT(60), <1>1, <2>1, <2>3, <2>4 DEF Own
<1> QED
  BY ZenonT(60), <1>2, <1>3 DEF Announces

\* The monitor has read the request of c and sends x, if anything.
Processes(c, x) ==
    /\ Stays(c) /\ unread[c] /\ ~unread'[c] /\ Accepted(c) /\ Accepted(c)'
    /\ mon'.out[c] = mon.out[c] \/ (cpc[c] # "done" /\ mon'.out[c] = Append(mon.out[c], x))
    /\ cpc[c] # "done" => Right(c, x)'
    /\ x = MAX_STATE => mon'.out[c] = mon.out[c] \/ Listed(c)'
    /\ req[c].cmd = "STOP" => InFd(c)'

\* lxc_cmd_process() keeps the invariant of the connection it is for.
LEMMA ProcessesKeeps ==
    ASSUME TypeOK, NEW c \in Conn, Own(c), NEW x \in Msg, Processes(c, x)
    PROVE  Own(c)'
<1>0. /\ since[c] \in Nat /\ runs \in Nat /\ alive \in BOOLEAN /\ cpc[c] \in {"sent", "done"}
      /\ mon.out[c] = <<>> /\ ans[c].val \in Msg \cup {"none"}
  BY ZenonT(60) DEF Answer, TypeOK, ClientOK, LoopOK, Processes, Own, Begins, Fresh
<1>1. mon'.out[c] = <<>> \/ (cpc[c] # "done" /\ mon'.out[c] = <<x>>)
  BY <1>0 DEF Processes
<1>2. StateSeen(c)' /\ Answers(c)'
  BY SMTT(60), <1>0 DEF Own, Processes, Stays, StateSeen, Answers, Calling
<1>3. Begins(c)' /\ Closed(c)'
  BY ZenonT(60), <1>0 DEF Own, Processes, Stays, Begins, Fresh, Closed
<1>4. Messages(c)'
  BY SMTT(60), <1>0, <1>1 DEF Processes, Stays, Messages
<1>5. Waiting(c)'
  BY <1>0, <1>1 DEF Processes, Stays, Waiting, Promised
<1> QED
  BY ZenonT(60), <1>2, <1>3, <1>4, <1>5 DEF Own

\* The container is stopped, and connections may be closed and forgotten.
Stops(c) ==
    /\ Stays(c) /\ unread'[c] = unread[c] /\ mon'.out[c] = mon.out[c] /\ ~alive'
    /\ Accepted(c) => Accepted(c)'
    /\ InFd(c)' => InFd(c)
    /\ hstate' = "STOPPED"

\* lxc_end() keeps the invariant of a connection.
LEMMA StopsKeeps ==
    ASSUME TypeOK, NEW c \in Conn, Own(c), Stops(c)
    PROVE  Own(c)'
<1>0. /\ since[c] \in Nat /\ runs \in Nat /\ alive \in BOOLEAN /\ cpc[c] \in Place /\ req[c] \in Request
      /\ mon.out[c] \in Seq(Msg) /\ ans[c].val \in Msg \cup {"none"}
  BY ZenonT(60) DEF Answer, TypeOK, ClientOK, MonOK, LoopOK
<1>1. StateSeen(c)' /\ Answers(c)'
  BY SMTT(60), <1>0 DEF Own, Stops, Stays, StateSeen, Answers, Calling
<1>2. Begins(c)' /\ Messages(c)'
  BY ZenonT(60), <1>0 DEF Own, Stops, Stays, Begins, Fresh, Messages, Right
<1>3. Closed(c)'
  BY ZenonT(60), <1>0 DEF Own, Stops, Stays, Closed, Ended, Calling
<1>4. Waiting(c)'
  <2>1. Promised(c)' => Calling(c) /\ req[c].cmd = "ADD_STATE_CLIENT"
    BY ZenonT(60) DEF Own, Stops, Stays, Promised, Calling, Messages, Right
  <2> QED
    BY ZenonT(60), <1>0, <2>1, ConcernOf DEF Stops, Stays, Waiting
<1> QED
  BY ZenonT(60), <1>1, <1>2, <1>3, <1>4 DEF Own

-----------------------------------------------------------------------------
(* The callers' steps                                                      *)

\* Only c changes, outside the monitor's tables, and may be put in the backlog.
CallerStep(c) ==
    /\ req' = req /\ mon'.fd = mon.fd /\ mon'.list = mon.list /\ mon'.tty = mon.tty
    /\ \A d \in Conn \ {c} :
        /\ cpc'[d] = cpc[d] /\ unread'[d] = unread[d] /\ ans'[d] = ans[d]
        /\ seen'[d] = seen[d] /\ since'[d] = since[d] /\ mon'.out[d] = mon.out[d]
    /\ backlog' = backlog \/ (cpc[c] = "idle" /\ backlog' = Append(backlog, c))
    /\ UNCHANGED <<loop, life, orphan>>

\* A caller's step leaves the tables and the other connections in order.
LEMMA CallerKeeps ==
    ASSUME IInv, TypeOK', NEW c \in Conn, CallerStep(c), backlog' # backlog \/ (Fresh(c)' => Fresh(c)),
           ~orphan => Own(c)'
    PROVE  IInv'
<1>0. /\ TypeOK /\ Phases /\ NoMissedState /\ backlog \in Seq(Conn)
      /\ UNCHANGED <<batch, blocked, listening, phase, hstate, alive, killed, reboot, runs, thawed>>
  BY ZenonT(60) DEF IInv, CallerStep, loop, life, TypeOK, LoopOK
<1>1. Phases' /\ NoMissedState'
  BY ZenonT(60), <1>0 DEF Phases, NoMissedState, CallerStep
<1>2. ASSUME ~orphan' PROVE Orderly'
  <2>1. Orderly /\ Own(c)'
    BY ZenonT(60), <1>2 DEF IInv, CallerStep
  <2>2. Connections'
    <3>1. CASE backlog' = backlog
      BY SMTT(60), <2>1, <3>1 DEF Orderly, Connections, CallerStep
    <3>2. CASE cpc[c] = "idle" /\ backlog' = Append(backlog, c)
      <4>1. \A i \in DOMAIN backlog' : (i \in DOMAIN backlog /\ backlog'[i] = backlog[i]) \/ (i = Len(backlog) + 1 /\ backlog'[i] = c)
        BY ONLY SMTT(60), <1>0, <3>2
      <4>2. Connections /\ (\A i \in DOMAIN backlog : backlog[i] # c) /\ (\A f \in Fd : mon.fd[f] # c)
        BY ZenonT(60), <2>1, <3>2 DEF Orderly, Own, Begins, Accepted, InFd
      <4> QED
        BY <4>1, <4>2 DEF Connections, CallerStep
    <3> QED
      BY ZenonT(60), <3>1, <3>2 DEF CallerStep
  <2>3. \A d \in Conn \ {c} : Accepted(d)' = Accepted(d)
    BY SMTT(60), <1>0 DEF CallerStep, Accepted
  <2>4. \A d \in Conn : (d # c => Fresh(d)' = Fresh(d)) /\ (~Fresh(d) => ~Fresh(d)')
    <3>1. cpc[c] = "idle" => Fresh(c)
      BY ZenonT(60) DEF Fresh
    <3> QED
      BY ZenonT(60), <2>3, <3>1 DEF CallerStep, Fresh
  <2>5. Entries'
    BY ZenonT(60), <2>1, <2>4 DEF Orderly, Entries, CallerStep
  <2>6. Ttys'
    BY <2>1, <2>4 DEF Orderly, Ttys, CallerStep
  <2>7. ASSUME NEW d \in Conn, d # c PROVE Own(d)'
    <3>1. Untouched(d)
      BY ZenonT(60), <2>3, <2>7 DEF CallerStep, Untouched, InFd, Listed
    <3> QED
      BY ZenonT(60), <1>0, <2>1, <3>1, UntouchedKeeps DEF Orderly
  <2> QED
    BY ZenonT(60), <2>1, <2>2, <2>5, <2>6, <2>7 DEF Orderly
<1> QED
  BY ZenonT(60), <1>1, <1>2 DEF IInv

\* What ReturnStopped() answers.
StoppedAnswer(c) ==
    \E v \in {"ok", "STOPPED", "error"} :
        /\ v = "STOPPED" => "STOPPED" \in Concern(req[c])
        /\ ans' = [ans EXCEPT ![c] = [how |-> "stopped", val |-> v]]

\* A caller that takes the container for stopped reports what it asked about.
LEMMA ReturnStoppedEffect ==
    ASSUME NEW c \in Conn, req[c] \in Request, ReturnStopped(c, req[c])
    PROVE  cpc' = [cpc EXCEPT ![c] = "done"] /\ StoppedAnswer(c)
  BY ZenonT(60), ConcernOf DEF ReturnStopped, Return, StoppedAnswer, State

\* It is an answer.
LEMMA StoppedAnswerTyped ==
    ASSUME NEW c \in Conn, ClientOK, StoppedAnswer(c)
    PROVE  ans' \in [Conn -> Answer]
<1>1. \A v \in {"ok", "STOPPED", "error"} : [how |-> "stopped", val |-> v] \in Answer
  BY ZenonT(60) DEF Answer, Msg, State
<1> QED
  BY ZenonT(60), <1>1 DEF StoppedAnswer, ClientOK

\* lxc_cmd_connect(): the caller is in the backlog, or returns as if the
\* container were stopped, and then it is.
LEMMA ConnectStep == ASSUME IInv, NEW c \in Conn, Connect(c) PROVE IInv'
<1>1. /\ TypeOK /\ Phases /\ cpc[c] = "idle"
      /\ seen' = [seen EXCEPT ![c] = {hstate} \cap Concern(req[c])]
      /\ since' = [since EXCEPT ![c] = runs]
      /\ UNCHANGED <<req, unread, mon, loop, life, orphan>>
  BY ZenonT(60) DEF IInv, Connect
<1>2. UNCHANGED <<batch, blocked, listening, phase, hstate, alive, killed, reboot, runs, thawed>>
  BY ZenonT(60), <1>1 DEF loop, life
<1>3. \/ /\ listening /\ backlog' = Append(backlog, c)
         /\ cpc' = [cpc EXCEPT ![c] = "connected"] /\ ans' = ans
      \/ ~listening /\ backlog' = backlog /\ cpc' = [cpc EXCEPT ![c] = "done"] /\ StoppedAnswer(c)
  BY ZenonT(60), <1>1, ReturnStoppedEffect DEF Connect, TypeOK, ClientOK
<1>4. TypeOK'
  <2>1. Concern(req[c]) \subseteq State
    BY ZenonT(60), <1>1, ConcernOf DEF TypeOK, ClientOK
  <2>2. seen' \in [Conn -> SUBSET State] /\ since' \in [Conn -> Nat]
    BY ZenonT(60), <1>1, <2>1 DEF TypeOK, ClientOK, LoopOK
  <2>4. cpc' \in [Conn -> Place] /\ ans' \in [Conn -> Answer]
    BY ZenonT(60), <1>1, <1>3, StoppedAnswerTyped DEF TypeOK, ClientOK, Place
  <2>3. LoopOK'
    BY ONLY SMTT(60), <1>1, <1>2, <1>3 DEF TypeOK, LoopOK
  <2> QED
    BY ZenonT(60), <1>1, <2>2, <2>3, <2>4 DEF TypeOK, ClientOK, MonOK
<1>5. CallerStep(c) /\ Fresh(c)
  <2>1. \A d \in Conn \ {c} : cpc'[d] = cpc[d] /\ ans'[d] = ans[d] /\ seen'[d] = seen[d] /\ since'[d] = since[d]
    BY ZenonT(60), <1>1, <1>3 DEF StoppedAnswer, TypeOK, ClientOK
  <2> QED
    BY ZenonT(60), <1>1, <1>3, <2>1 DEF CallerStep, Fresh
<1>6. ASSUME ~orphan PROVE Own(c)'
  <2>1. Own(c)
    BY ZenonT(60), <1>6 DEF IInv, Orderly
  <2>2. /\ mon'.out[c] = <<>> /\ ~unread'[c] /\ runs \in Nat /\ req' = req /\ ans[c].val = "none"
        /\ since'[c] = runs /\ seen'[c] = {hstate} \cap Concern(req[c])
    BY ZenonT(60), <1>1, <2>1 DEF Own, Begins, Fresh, Answers, TypeOK, LoopOK, ClientOK
  <2>3. StateSeen(c)' /\ Messages(c)'
    BY ONLY SMTT(60), <1>1, <1>2, <1>3, <2>2 DEF StateSeen, Messages, TypeOK, ClientOK
  <2>4. CASE listening
    <3>1. cpc'[c] = "connected" /\ ans' = ans /\ ~Accepted(c)'
      <4>1. backlog \in Seq(Conn) /\ backlog' = Append(backlog, c) /\ cpc'[c] = "connected" /\ ans' = ans
        BY ZenonT(60), <1>1, <1>3, <2>4 DEF TypeOK, ClientOK, LoopOK
      <4>2. Len(backlog) + 1 \in DOMAIN backlog' /\ backlog'[Len(backlog) + 1] = c
        BY ONLY SMTT(60), <4>1
      <4> QED
        BY ZenonT(60), <4>1, <4>2 DEF Accepted
    <3> QED
      BY ZenonT(60), <2>2, <2>3, <3>1 DEF Own, Begins, Closed, Waiting, Promised, Answers, State
  <2>5. CASE ~listening
    <3>1. hstate = "STOPPED" /\ ~alive
      BY ZenonT(60), <1>1, <2>5 DEF Phases
    <3>2. /\ cpc'[c] = "done" /\ ans'[c].how = "stopped" /\ ans'[c].val \in {"ok", "STOPPED", "error"}
          /\ ans'[c].val = "STOPPED" => "STOPPED" \in Concern(req[c])
      BY ONLY SMTT(60), <1>1, <1>3, <2>5 DEF StoppedAnswer, TypeOK, ClientOK
    <3>3. Answers(c)'
      BY ZenonT(60), <1>2, <2>2, <3>1, <3>2 DEF Answers, State
    <3> QED
      BY ZenonT(60), <2>2, <2>3, <3>2, <3>3 DEF Own, Begins, Closed, Waiting, Promised
  <2> QED
    BY ZenonT(60), <2>4, <2>5
<1> QED
  BY ZenonT(60), <1>4, <1>5, <1>6, CallerKeeps

\* lxc_cmd_send(): the request is on its way, or the monitor has closed the
\* connection before, and then the container has stopped.
LEMMA SendRequestStep == ASSUME IInv, NEW c \in Conn, SendRequest(c) PROVE IInv'
<1>1. /\ TypeOK /\ cpc[c] = "connected"
      /\ UNCHANGED <<req, backlog, mon, loop, life, seen, since, orphan>>
  BY ZenonT(60) DEF IInv, SendRequest
<1>2. UNCHANGED <<batch, blocked, listening, phase, hstate, alive, killed, reboot, runs, thawed>>
  BY ZenonT(60), <1>1 DEF loop, life
<1>3. \/ /\ cpc' = [cpc EXCEPT ![c] = "sent"] /\ ans' = ans /\ ~Released(c)
         /\ unread' = [unread EXCEPT ![c] = TRUE]
      \/ Released(c) /\ cpc' = [cpc EXCEPT ![c] = "done"] /\ StoppedAnswer(c) /\ unread' = unread
  BY ZenonT(60), <1>1, ReturnStoppedEffect DEF SendRequest, TypeOK, ClientOK
<1>4. TypeOK'
  <2>1. cpc' \in [Conn -> Place] /\ ans' \in [Conn -> Answer] /\ unread' \in [Conn -> BOOLEAN]
    BY ZenonT(60), <1>1, <1>3, StoppedAnswerTyped DEF TypeOK, ClientOK, Place
  <2> QED
    BY ZenonT(60), <1>1, <1>2, <2>1 DEF TypeOK, ClientOK, MonOK, LoopOK
<1>5. CallerStep(c) /\ Fresh(c)
  BY ZenonT(60), <1>1, <1>3 DEF CallerStep, Fresh, StoppedAnswer, TypeOK, ClientOK
<1>6. ASSUME ~orphan PROVE Own(c)'
  <2>1. Own(c)
    BY ZenonT(60), <1>6 DEF IInv, Orderly
  <2>2. /\ mon.out[c] = <<>> /\ mon' = mon /\ runs \in Nat /\ req' = req /\ ans[c].val = "none"
        /\ since'[c] = since[c] /\ seen'[c] = seen[c] /\ ~unread[c]
        /\ Accepted(c)' = Accepted(c) /\ InFd(c)' = InFd(c)
    BY ZenonT(60), <1>1, <2>1, <1>5 DEF Own, Begins, Answers, TypeOK, LoopOK, Accepted, InFd
  <2>3. StateSeen(c)'
    BY ZenonT(60), <1>1, <1>2, <2>1, <2>2 DEF Own, StateSeen, Calling
  <2>4. CASE cpc'[c] = "sent" /\ ans' = ans
    <3>1. Closed(c)'
      BY ZenonT(60), <1>1, <1>2, <2>1, <2>2, <2>4 DEF Own, Closed, Ended
    <3> QED
      BY ONLY SMTT(60), <2>2, <2>3, <2>4, <3>1 DEF Own, Begins, Messages, Waiting, Promised, Answers, State
  <2>5. CASE cpc'[c] = "done" /\ Released(c) /\ StoppedAnswer(c) /\ unread' = unread
    <3>1. Ended(c)
      BY ZenonT(60), <1>1, <2>1, <2>5 DEF Own, Closed, Released, InFd
    <3>2. /\ ans'[c].how = "stopped" /\ ans'[c].val \in {"ok", "STOPPED", "error"}
          /\ ans'[c].val = "STOPPED" => "STOPPED" \in Concern(req[c])
      BY ONLY SMTT(60), <1>1, <2>5 DEF StoppedAnswer, TypeOK, ClientOK
    <3>3. Answers(c)'
      BY ZenonT(60), <1>2, <2>2, <2>5, <3>1, <3>2 DEF Answers, State, Ended
    <3> QED
      BY ONLY SMTT(60), <2>2, <2>3, <2>5, <3>3 DEF Own, Begins, Closed, Waiting, Promised, Messages
  <2> QED
    BY ZenonT(60), <1>1, <1>3, <2>4, <2>5 DEF TypeOK, ClientOK
<1> QED
  BY ZenonT(60), <1>4, <1>5, <1>6, CallerKeeps

\* What a step of the caller does that only changes c: it is at place p, has the
\* answer a and has taken the messages up to o.
Moves(c, p, a, o) ==
    /\ cpc' = [cpc EXCEPT ![c] = p] /\ ans' = [ans EXCEPT ![c] = a]
    /\ MonOK(mon') /\ mon'.out = [mon.out EXCEPT ![c] = o]
    /\ mon'.fd = mon.fd /\ mon'.list = mon.list /\ mon'.tty = mon.tty
    /\ UNCHANGED <<req, unread, backlog, loop, life, seen, since, orphan>>

\* Such a step keeps the invariant if it keeps that of c.
LEMMA MovesKeeps ==
    ASSUME IInv, NEW c \in Conn, NEW p \in Place, NEW a \in Answer, NEW o, Moves(c, p, a, o),
           p \notin {"idle", "connected"},
           ~orphan => Messages(c)' /\ Waiting(c)' /\ Answers(c)' /\ (Fresh(c) => o = <<>>)
                      /\ (p = "wait" => cpc[c] = "sent") /\ p # "sent"
                      /\ (unread[c] => p = "done")
    PROVE  IInv'
<1>1. /\ TypeOK /\ UNCHANGED <<batch, blocked, listening, phase, hstate, alive, killed, reboot, runs, thawed>>
      /\ mon.out \in [Conn -> Seq(Msg)]
  BY ZenonT(60) DEF IInv, Moves, loop, life, TypeOK, MonOK
<1>2. TypeOK'
  BY ZenonT(60), <1>1 DEF Moves, TypeOK, ClientOK, LoopOK
<1>3. CallerStep(c)
  BY ZenonT(60), <1>1 DEF Moves, CallerStep, TypeOK, ClientOK
<1>4. cpc'[c] = p /\ mon'.out[c] = o
  BY ZenonT(60), <1>1 DEF Moves, TypeOK, ClientOK
<1>5. Fresh(c)' => Fresh(c)
  BY ZenonT(60), <1>4 DEF Moves, Fresh, Accepted
<1>6. ASSUME ~orphan PROVE Own(c)'
  <2>1. Own(c)
    BY ZenonT(60), <1>6 DEF IInv, Orderly
  <2>2. Begins(c)'
    BY ZenonT(60), <1>4, <1>5, <1>6 DEF Begins, Moves
  <2>3. StateSeen(c)'
    BY ZenonT(60), <1>1, <1>4, <1>6, <2>1 DEF Own, StateSeen, Calling, Moves
  <2>4. Closed(c)'
    BY ZenonT(60), <1>4, <1>6 DEF Closed
  <2> QED
    BY ZenonT(60), <1>6, <2>2, <2>3, <2>4 DEF Own
<1> QED
  BY ZenonT(60), <1>2, <1>3, <1>5, <1>6, CallerKeeps

\* A caller that leaves, by a timeout or a signal.
LEMMA LeaveStep == ASSUME IInv, NEW c \in Conn, Leave(c) PROVE IInv'
<1> DEFINE a == [how |-> "left", val |-> "none"]
<1>1. a \in Answer /\ TypeOK /\ mon' = mon /\ "done" \in Place
  BY ZenonT(60) DEF Answer, IInv, Leave, Place
<1>2. Moves(c, "done", a, mon.out[c])
  BY ZenonT(60), <1>1 DEF Leave, Return, Moves, TypeOK, MonOK
<1>3. ASSUME ~orphan PROVE Messages(c)' /\ Waiting(c)' /\ Answers(c)' /\ (Fresh(c) => mon.out[c] = <<>>)
  <2>1. Own(c) /\ cpc'[c] = "done" /\ ans'[c] = a
    BY ZenonT(60), <1>1, <1>2, <1>3 DEF IInv, Orderly, Moves, TypeOK, ClientOK
  <2> QED
    <3>1. mon' = mon /\ seen' = seen /\ req' = req /\ "none" \notin State
      BY ZenonT(60), <1>1, <1>2 DEF Moves, State
    <3>2. Messages(c)'
      BY ONLY ZenonT(60), <2>1, <3>1 DEF Own, Messages, Right
    <3>3. ans'[c].val = "none"
      BY ONLY SMTT(60), <2>1
    <3>4. Waiting(c)' /\ Answers(c)'
      BY ONLY ZenonT(60), <2>1, <3>1, <3>3 DEF Waiting, Promised, Answers
    <3> QED
      BY ZenonT(60), <2>1, <3>2, <3>4 DEF Own, Begins
<1> QED
  BY ZenonT(60), <1>1, <1>2, <1>3, MovesKeeps

\* lxc_cmd_rsp_recv(): a promise, a tty or the answer.
LEMMA ResponseStep == ASSUME IInv, NEW c \in Conn, Response(c) PROVE IInv'
<1> DEFINE x == Head(mon.out[c])
           o == Tail(mon.out[c])
           a == IF x \in {MAX_STATE, "tty"} THEN ans[c] ELSE [how |-> "response", val |-> x]
           p == IF x = MAX_STATE THEN "wait" ELSE IF x = "tty" THEN "hold" ELSE "done"
<1>1. TypeOK /\ mon.out[c] \in Seq(Msg) /\ mon.out[c] # <<>> /\ cpc[c] = "sent"
  BY ZenonT(60) DEF IInv, Response, TypeOK, MonOK
<1>2. /\ x \in Msg /\ o \in Seq(Msg) /\ p \in Place /\ p \notin {"idle", "connected", "sent"}
      /\ 1 \in DOMAIN mon.out[c] /\ x = mon.out[c][1]
      /\ \A i \in DOMAIN o : i + 1 \in DOMAIN mon.out[c] /\ o[i] = mon.out[c][i + 1]
      /\ \A i \in DOMAIN mon.out[c] : i = 1 \/ (i - 1 \in DOMAIN o /\ o[i - 1] = mon.out[c][i])
  BY ONLY SMTT(60), <1>1 DEF Place
<1>3. a \in Answer
  BY ZenonT(60), <1>1, <1>2 DEF TypeOK, ClientOK, Answer
<1>4. Moves(c, p, a, o)
  <2>1. mon' = [mon EXCEPT !.out = [mon.out EXCEPT ![c] = o]] /\ MonOK(mon)
    BY ZenonT(60), <1>1 DEF Response, TypeOK, MonOK
  <2>2. [mon.out EXCEPT ![c] = o] \in [Conn -> Seq(Msg)]
    BY ZenonT(60), <1>1, <1>2 DEF TypeOK, MonOK
  <2>3. /\ MonOK(mon') /\ mon'.out = [mon.out EXCEPT ![c] = o]
        /\ mon'.fd = mon.fd /\ mon'.list = mon.list /\ mon'.tty = mon.tty
    BY ZenonT(60), <2>1, <2>2 DEF MonOK
  <2>4. cpc' = [cpc EXCEPT ![c] = p] /\ ans' = [ans EXCEPT ![c] = a]
    BY ZenonT(60), <1>1 DEF Response, Return, TypeOK, ClientOK, MAX_STATE
  <2> QED
    BY ZenonT(60), <2>3, <2>4 DEF Response, Moves
<1>5. ASSUME ~orphan PROVE /\ Messages(c)' /\ Waiting(c)' /\ Answers(c)' /\ (Fresh(c) => o = <<>>)
                           /\ (unread[c] => p = "done")
  <2>1. /\ Own(c) /\ cpc'[c] = p /\ ans'[c] = a /\ mon'.out[c] = o /\ mon'.list = mon.list
        /\ seen' = seen /\ req' = req /\ runs' = runs /\ since' = since /\ alive' = alive
    BY ZenonT(60), <1>1, <1>4, <1>5 DEF IInv, Orderly, Moves, TypeOK, ClientOK, MonOK, life
  <2>2. ~Fresh(c) /\ Right(c, x) /\ ans[c].val = "none"
    BY ZenonT(60), <1>1, <1>2, <2>1 DEF Own, Begins, Messages, Answers
  <2>3. Messages(c)'
    <3>1. \A y : Right(c, y) => Right(c, y)'
      BY ZenonT(60), <2>1 DEF Right
    <3>2. \A i \in DOMAIN o : Right(c, o[i])
      BY ZenonT(60), <1>2, <2>1 DEF Own, Messages
    <3>3. \A i \in DOMAIN o : \E y : y = o[i] /\ Right(c, y)'
      BY ZenonT(60), <3>1, <3>2
    <3> QED
      BY ZenonT(60), <2>1, <2>2, <3>3 DEF Messages, Right
  <2>4. Waiting(c)'
    <3>1. CASE x = MAX_STATE
      <4>1. Promised(c)
        BY ZenonT(60), <1>1, <1>2, <3>1 DEF Promised
      <4>2. Told(c) => Told(c)'
        <5>1. MAX_STATE \notin State
          BY ZenonT(60) DEF State, MAX_STATE
        <5> SUFFICES ASSUME NEW i \in DOMAIN mon.out[c], mon.out[c][i] \in State PROVE Told(c)'
          BY ZenonT(60) DEF Told
        <5>2. i - 1 \in DOMAIN o /\ o[i - 1] \in State
          BY ZenonT(60), <1>2, <3>1, <5>1
        <5> HIDE DEF o
        <5> QED
          BY ZenonT(60), <2>1, <5>2 DEF Told
      <4> QED
        BY ZenonT(60), <2>1, <4>1, <4>2 DEF Own, Waiting, Listed
    <3>2. CASE x # MAX_STATE
      BY ZenonT(60), <2>1, <3>2 DEF Waiting, Promised
    <3> QED
      BY ZenonT(60), <3>1, <3>2
  <2>5. Answers(c)'
    <3>0. "none" \notin State /\ "ok" \notin State
      BY ZenonT(60) DEF State
    <3>1. CASE x \in {MAX_STATE, "tty"}
      <4>1. ans'[c].val = "none"
        BY ONLY ZenonT(60), <2>1, <2>2, <3>1
      <4> QED
        BY ONLY ZenonT(60), <3>0, <4>1 DEF Answers
    <3>2. CASE x \notin {MAX_STATE, "tty"}
      <4>1. cpc'[c] = "done" /\ ans'[c].val = x /\ ans'[c].how = "response"
        BY ONLY SMTT(60), <2>1, <3>2
      <4>2. (x \in State => x \in seen'[c]) /\ (x = "ok" => req'[c].cmd # "STOP")
        BY ONLY ZenonT(60), <2>1, <2>2 DEF Right
      <4> HIDE DEF x
      <4> QED
        BY ONLY ZenonT(60), <4>1, <4>2 DEF Answers
    <3> QED
      BY ZenonT(60), <3>1, <3>2
  <2> QED
    BY ZenonT(60), <2>2, <2>3, <2>4, <2>5 DEF Fresh
<1> HIDE DEF x, o, a, p
<1>6. p = "wait" => cpc[c] = "sent"
  BY ZenonT(60), <1>1
<1> QED
  BY ZenonT(60), <1>2, <1>3, <1>4, <1>5, <1>6, MovesKeeps

\* An end of file before a response: the container has stopped if the request was
\* not read, or was to stop it.
LEMMA NoResponseStep == ASSUME IInv, NEW c \in Conn, NoResponse(c) PROVE IInv'
<1>1. /\ TypeOK /\ mon.out[c] = <<>> /\ cpc[c] = "sent" /\ Released(c) /\ "done" \in Place
      /\ UNCHANGED <<req, unread, backlog, mon, loop, life, seen, since, orphan>>
      /\ cpc' = [cpc EXCEPT ![c] = "done"]
  BY ZenonT(60) DEF IInv, NoResponse, Place, ReturnStopped, Return
<1>2. \E a \in Answer :
        /\ ans' = [ans EXCEPT ![c] = a] /\ a.how # "told" /\ a.val \in {"ok", "STOPPED", "error"}
        /\ a.val = "STOPPED" => unread[c] /\ "STOPPED" \in Concern(req[c])
        /\ a.val = "ok" => unread[c] \/ req[c].cmd = "STOP"
  <2>1. \A h \in {"stopped", "eof"}, v \in {"ok", "STOPPED", "error"} : [how |-> h, val |-> v] \in Answer
    BY ZenonT(60) DEF Answer, Msg, State
  <2>2. CASE unread[c] /\ ReturnStopped(c, req[c])
    BY ZenonT(60), <1>1, <2>1, <2>2, ReturnStoppedEffect DEF StoppedAnswer, TypeOK, ClientOK
  <2>3. CASE ~unread[c] /\ Return(c, "eof", IF req[c].cmd = "STOP" THEN "ok" ELSE "error")
    BY ZenonT(60), <2>1, <2>3 DEF Return
  <2> QED
    BY ZenonT(60), <2>2, <2>3 DEF NoResponse
<1>3. PICK a \in Answer :
        /\ ans' = [ans EXCEPT ![c] = a] /\ a.how # "told" /\ a.val \in {"ok", "STOPPED", "error"}
        /\ a.val = "STOPPED" => unread[c] /\ "STOPPED" \in Concern(req[c])
        /\ a.val = "ok" => unread[c] \/ req[c].cmd = "STOP"
  BY ZenonT(60), <1>2
<1>4. Moves(c, "done", a, mon.out[c])
  BY ZenonT(60), <1>1, <1>3 DEF Moves, TypeOK, MonOK
<1>5. ASSUME ~orphan PROVE Messages(c)' /\ Waiting(c)' /\ Answers(c)'
  <2>1. /\ Own(c) /\ cpc'[c] = "done" /\ ans'[c] = a /\ mon' = mon
        /\ seen' = seen /\ req' = req /\ runs' = runs /\ since' = since /\ alive' = alive
    BY ZenonT(60), <1>1, <1>3, <1>5 DEF IInv, Orderly, TypeOK, ClientOK, life
  <2>2. unread[c] \/ req[c].cmd = "STOP" => Ended(c)
    BY ZenonT(60), <1>1, <2>1 DEF Own, Closed, Released, InFd
  <2>3. Answers(c)'
    BY ZenonT(60), <1>3, <2>1, <2>2 DEF Answers, Ended, State
  <2>4. Messages(c)' /\ Waiting(c)'
    BY ONLY ZenonT(60), <2>1 DEF Own, Messages, Right, Waiting, Promised
  <2> QED
    BY ZenonT(60), <2>3, <2>4
<1> QED
  BY ZenonT(60), <1>1, <1>4, <1>5, MovesKeeps

\* lxc_cmd_sock_rcv_state(): what a waiting caller hears is what it waits for, and
\* an end of file means that the container has stopped.
LEMMA RcvStateStep == ASSUME IInv, NEW c \in Conn, lxc_cmd_sock_rcv_state(c) PROVE IInv'
<1>1. /\ TypeOK /\ MonOK(mon) /\ mon.out[c] \in Seq(Msg) /\ cpc[c] = "wait" /\ "done" \in Place
      /\ UNCHANGED <<req, unread, backlog, loop, life, seen, since, orphan>>
      /\ cpc' = [cpc EXCEPT ![c] = "done"]
  BY ZenonT(60) DEF IInv, lxc_cmd_sock_rcv_state, Return, TypeOK, MonOK, Place
<1>2. CASE mon.out[c] # <<>>
  <2> DEFINE x == Head(mon.out[c])
             o == Tail(mon.out[c])
             a == [how |-> "told", val |-> x]
  <2>1. /\ x \in Msg /\ o \in Seq(Msg) /\ a \in Answer /\ 1 \in DOMAIN mon.out[c] /\ x = mon.out[c][1]
        /\ \A i \in DOMAIN o : i + 1 \in DOMAIN mon.out[c] /\ o[i] = mon.out[c][i + 1]
    BY ONLY SMTT(60), <1>1, <1>2 DEF Answer
  <2>2. Moves(c, "done", a, o)
    <3>1. mon' = [mon EXCEPT !.out = [mon.out EXCEPT ![c] = o]] /\ ans' = [ans EXCEPT ![c] = a]
      BY ZenonT(60), <1>1, <1>2 DEF lxc_cmd_sock_rcv_state, Return, MonOK
    <3>2. [mon.out EXCEPT ![c] = o] \in [Conn -> Seq(Msg)]
      BY ZenonT(60), <1>1, <2>1 DEF MonOK
    <3>3. /\ MonOK(mon') /\ mon'.out = [mon.out EXCEPT ![c] = o]
          /\ mon'.fd = mon.fd /\ mon'.list = mon.list /\ mon'.tty = mon.tty
      BY ZenonT(60), <1>1, <3>1, <3>2 DEF MonOK
    <3> QED
      BY ZenonT(60), <1>1, <3>1, <3>3 DEF Moves
  <2>3. ASSUME ~orphan PROVE Messages(c)' /\ Waiting(c)' /\ Answers(c)' /\ ~Fresh(c)
    <3>1. /\ Own(c) /\ cpc'[c] = "done" /\ ans'[c] = a /\ mon'.out[c] = o
          /\ seen' = seen /\ req' = req /\ runs' = runs /\ since' = since /\ alive' = alive
      BY ZenonT(60), <1>1, <2>2, <2>3 DEF IInv, Orderly, Moves, TypeOK, ClientOK, MonOK, life
    <3>2. ~Fresh(c) /\ Right(c, x) /\ req[c].cmd = "ADD_STATE_CLIENT"
      BY ZenonT(60), <1>1, <1>2, <2>1, <3>1 DEF Own, Begins, Messages
    <3>3. Messages(c)'
      <4>1. \A y : Right(c, y) => Right(c, y)'
        BY ZenonT(60), <3>1 DEF Right
      <4>2. \A i \in DOMAIN o : Right(c, o[i])
        BY ZenonT(60), <2>1, <3>1 DEF Own, Messages
      <4>3. \A i \in DOMAIN o : \E y : y = o[i] /\ Right(c, y)'
        BY ZenonT(60), <4>1, <4>2
      <4> QED
        BY ZenonT(60), <3>1, <4>3 DEF Messages
    <3>4. Waiting(c)' /\ Answers(c)'
      <4>1. ans'[c].val = x /\ x # "ok" /\ (x \in State => x \in seen'[c] /\ x \in req'[c].states)
        <5>1. ans'[c].val = x
          BY ONLY SMTT(60), <3>1
        <5> QED
          BY ONLY ZenonT(60), <3>1, <3>2, <5>1 DEF Right
      <4> HIDE DEF x
      <4> QED
        BY ONLY ZenonT(60), <3>1, <4>1 DEF Waiting, Promised, Answers
    <3> QED
      BY ZenonT(60), <3>2, <3>3, <3>4
  <2> HIDE DEF x, o, a
  <2> QED
    BY ZenonT(60), <1>1, <2>1, <2>2, <2>3, MovesKeeps
<1>3. CASE mon.out[c] = <<>>
  <2> DEFINE a == [how |-> "eof", val |-> "STOPPED"]
  <2>1. a \in Answer /\ mon' = mon /\ ans' = [ans EXCEPT ![c] = a] /\ Released(c)
    BY ZenonT(60), <1>3 DEF lxc_cmd_sock_rcv_state, Return, Answer, Msg, State
  <2>2. Moves(c, "done", a, mon.out[c])
    BY ZenonT(60), <1>1, <2>1 DEF Moves, MonOK
  <2>3. ASSUME ~orphan PROVE Messages(c)' /\ Waiting(c)' /\ Answers(c)'
    <3>1. /\ Own(c) /\ Entries /\ cpc'[c] = "done" /\ ans'[c] = a /\ mon' = mon
          /\ seen' = seen /\ req' = req /\ runs' = runs /\ since' = since /\ alive' = alive
      BY ZenonT(60), <1>1, <2>1, <2>3 DEF IInv, Orderly, TypeOK, ClientOK, life
    <3>2. ~Listed(c) /\ ~Told(c)
      BY ONLY SMTT(60), <1>3, <2>1, <3>1 DEF Entries, Listed, Told, Released
    <3>3. "STOPPED" \in seen[c] /\ req[c].cmd = "ADD_STATE_CLIENT"
      BY ZenonT(60), <1>1, <3>1, <3>2 DEF Own, Messages, Waiting, Promised
    <3> QED
      <4>1. ans'[c].val = "STOPPED" /\ ans'[c].how = "eof" /\ "STOPPED" \in seen'[c]
        BY ONLY SMTT(60), <3>1, <3>3
      <4>2. Messages(c)'
        BY ONLY SMTT(60), <1>3, <3>1 DEF Messages
      <4> QED
        BY ONLY ZenonT(60), <3>1, <4>1, <4>2 DEF Waiting, Promised, Answers
  <2> HIDE DEF a
  <2> QED
    BY ZenonT(60), <1>1, <1>3, <2>1, <2>2, <2>3, MovesKeeps
<1> QED
  BY ZenonT(60), <1>2, <1>3

-----------------------------------------------------------------------------
(* The monitor's tables                                                    *)

\* Descriptors are closed, entries forgotten and ttys freed: what is left is as before.
Shrinks ==
    /\ req' = req /\ backlog' \in {backlog, <<>>}
    /\ \A f \in Fd : mon'.fd[f] \in {mon.fd[f], NoConn}
    /\ mon'.list \subseteq mon.list /\ \A e \in mon'.list : mon'.fd[e.fd] = mon.fd[e.fd]
    /\ \A t \in Tty : mon'.tty[t] # Free => mon'.tty[t] = mon.tty[t] /\ mon'.fd[mon.tty[t]] = mon.fd[mon.tty[t]]
    /\ \A c \in Conn : Fresh(c)' => Fresh(c)

\* Closing, forgetting and freeing leaves the tables in order.
LEMMA ShrinksKeeps ==
    ASSUME TypeOK, Connections, Entries, Ttys, Shrinks
    PROVE  Connections' /\ Entries' /\ Ttys'
<1>1. mon.fd \in [Fd -> Conn \cup {NoConn}] /\ backlog \in Seq(Conn) /\ \A i \in DOMAIN backlog : backlog[i] \in Conn
  BY DEF TypeOK, MonOK, LoopOK
<1>2. \A i \in DOMAIN backlog' : i \in DOMAIN backlog /\ backlog'[i] = backlog[i]
  BY <1>1 DEF Shrinks
<1>3. Connections'
  BY <1>1, <1>2, ConnAssumption DEF Connections, Shrinks
<1>4. Entries'
  BY ZenonT(60) DEF Entries, Shrinks
<1>5. Ttys'
  BY DEF Ttys, Shrinks
<1> QED
  BY ZenonT(60), <1>3, <1>4, <1>5

\* What lxc_serve_state_clients() does to the connection c.
LEMMA ServeConnection ==
    ASSUME TypeOK, Entries, NEW m, SameBut(mon, m), NEW s \in State, NEW c \in Conn
    PROVE  LET n == Serve(m, s) IN
           \/ /\ n.out[c] = mon.out[c]
              /\ (\E f \in Fd : n.fd[f] = c) <=> InFd(c)
              /\ (\E e \in n.list : e.conn = c) <=> Listed(c)
           \/ /\ n.out[c] = IF cpc[c] = "done" THEN mon.out[c] ELSE Append(mon.out[c], s)
              /\ ~Fresh(c) /\ req[c].cmd = "ADD_STATE_CLIENT" /\ s \in req[c].states
<1> DEFINE n == Serve(m, s)
<1>1. /\ MonOK(m) /\ m.fd = mon.fd /\ m.out = mon.out /\ m.list = mon.list /\ mon.fd \in [Fd -> Conn \cup {NoConn}]
  BY ZenonT(60) DEF SameBut, TypeOK, MonOK
<1>0. /\ MonOK(n) /\ n.tty = m.tty
      /\ n.list = {e \in m.list : s \notin e.states}
      /\ n.fd = [f \in Fd |-> IF f \in Asked(m, s) THEN NoConn ELSE m.fd[f]]
      /\ n.out = [d \in Conn |-> IF \E f \in Asked(m, s) : m.fd[f] = d /\ ~Hungup(m, f)
                                 THEN Append(m.out[d], s) ELSE m.out[d]]
  BY ZenonT(60), <1>1, ServeEffect
<1> HIDE DEF n
<1>2. /\ n.list = {e \in mon.list : s \notin e.states}
      /\ \A f \in Fd : n.fd[f] = IF f \in Asked(m, s) THEN NoConn ELSE mon.fd[f]
      /\ n.out[c] = IF \E f \in Asked(m, s) : mon.fd[f] = c /\ ~Hungup(m, f) THEN Append(mon.out[c], s) ELSE mon.out[c]
  BY ONLY SMTT(60), <1>0, <1>1
<1>3. \A f : f \in Asked(m, s) <=> \E e \in mon.list : s \in e.states /\ e.fd = f
  BY ZenonT(60), <1>1 DEF Asked
<1>4. \A f \in Fd : mon.fd[f] = c => (Hungup(m, f) <=> cpc[c] = "done")
  BY ZenonT(60), <1>1, ConnAssumption DEF Hungup
<1>5. CASE \E e \in mon.list : s \in e.states /\ e.conn = c
  <2>1. PICK e \in mon.list : s \in e.states /\ e.conn = c
    BY ZenonT(60), <1>5
  <2>2. e.fd \in Fd /\ mon.fd[e.fd] = c /\ ~Fresh(c) /\ req[c].cmd = "ADD_STATE_CLIENT" /\ s \in req[c].states
    BY ZenonT(60), <2>1 DEF Entries
  <2>3. n.out[c] = IF cpc[c] = "done" THEN mon.out[c] ELSE Append(mon.out[c], s)
    <3>1. \A f \in Asked(m, s) : f \in Fd
      BY <1>3 DEF Entries
    <3>2. e.fd \in Asked(m, s)
      BY ZenonT(60), <1>3, <2>1
    <3>3. (\E f \in Asked(m, s) : mon.fd[f] = c /\ ~Hungup(m, f)) <=> cpc[c] # "done"
      BY ZenonT(60), <1>4, <2>2, <3>1, <3>2
    <3> QED
      BY ZenonT(60), <1>2, <3>3
  <2> QED
    BY ZenonT(60), <2>2, <2>3 DEF n
<1>6. CASE ~\E e \in mon.list : s \in e.states /\ e.conn = c
  <2>1. \A f \in Asked(m, s) : mon.fd[f] # c
    BY <1>3, <1>6 DEF Entries
  <2>2. n.out[c] = mon.out[c]
    BY ZenonT(60), <1>2, <2>1
  <2>3. (\E f \in Fd : n.fd[f] = c) <=> InFd(c)
    BY ZenonT(60), <1>2, <2>1, ConnAssumption DEF InFd
  <2>4. (\E e \in n.list : e.conn = c) <=> Listed(c)
    BY ZenonT(60), <1>2, <1>6 DEF Listed
  <2> QED
    BY ZenonT(60), <2>2, <2>3, <2>4 DEF n
<1> QED
  BY ZenonT(60), <1>5, <1>6

\* What lxc_serve_state_clients() does to the tables.
LEMMA ServeTables ==
    ASSUME TypeOK, Entries, Ttys, NEW m, SameBut(mon, m), NEW s \in State
    PROVE  LET n == Serve(m, s) IN
           /\ MonOK(n) /\ n.tty = mon.tty /\ n.list = {e \in mon.list : s \notin e.states}
           /\ \A f \in Fd : n.fd[f] \in {mon.fd[f], NoConn}
           /\ \A f \in Fd : n.fd[f] # mon.fd[f] => \E e \in mon.list : e.fd = f
           /\ \A e \in n.list : n.fd[e.fd] = mon.fd[e.fd]
           /\ \A t \in Tty : mon.tty[t] # Free => n.fd[mon.tty[t]] = mon.fd[mon.tty[t]]
<1> DEFINE n == Serve(m, s)
<1>1. /\ MonOK(m) /\ m.fd = mon.fd /\ m.tty = mon.tty /\ m.list = mon.list
      /\ mon.tty \in [Tty -> Fd \cup {Free}]
  BY ZenonT(60) DEF SameBut, TypeOK, MonOK
<1>0. /\ MonOK(n) /\ n.tty = m.tty
      /\ n.list = {e \in m.list : s \notin e.states}
      /\ n.fd = [f \in Fd |-> IF f \in Asked(m, s) THEN NoConn ELSE m.fd[f]]
      /\ n.out = [d \in Conn |-> IF \E f \in Asked(m, s) : m.fd[f] = d /\ ~Hungup(m, f)
                                 THEN Append(m.out[d], s) ELSE m.out[d]]
  BY ZenonT(60), <1>1, ServeEffect
<1> HIDE DEF n
<1>2. /\ MonOK(n) /\ n.tty = mon.tty /\ n.list = {e \in mon.list : s \notin e.states}
      /\ \A f \in Fd : n.fd[f] = IF f \in Asked(m, s) THEN NoConn ELSE mon.fd[f]
  BY ONLY SMTT(60), <1>0, <1>1
<1>3. \A f \in Asked(m, s) : \E e \in mon.list : s \in e.states /\ e.fd = f
  BY ZenonT(60), <1>1 DEF Asked
<1>4. \A e \in n.list : n.fd[e.fd] = mon.fd[e.fd]
  <2>1. TAKE e \in n.list
  <2>2. e \in mon.list /\ s \notin e.states /\ e.fd \in Fd
    BY ZenonT(60), <1>2 DEF Entries
  <2>3. e.fd \notin Asked(m, s)
    BY <1>3, <2>2 DEF Entries
  <2> QED
    BY ZenonT(60), <1>2, <2>2, <2>3
<1>5. \A t \in Tty : mon.tty[t] # Free => n.fd[mon.tty[t]] = mon.fd[mon.tty[t]]
  <2>1. \A t \in Tty : mon.tty[t] # Free => mon.tty[t] \in Fd /\ mon.tty[t] \notin Asked(m, s)
    BY ONLY SMTT(60), Entries, Ttys, <1>1, <1>3 DEF Entries, Ttys
  <2> QED
    BY ZenonT(60), <1>2, <2>1
<1>6. \A f \in Fd : n.fd[f] # mon.fd[f] => \E e \in mon.list : e.fd = f
  BY ZenonT(60), <1>2, <1>3
<1> QED
  BY ZenonT(60), <1>2, <1>4, <1>5, <1>6 DEF n

-----------------------------------------------------------------------------
(* The container's steps                                                   *)

\* See(): who calls sees what is announced and of concern to it.
LEMMA SeeEffect ==
    ASSUME ClientOK, NEW S \in SUBSET State, See(S)
    PROVE  /\ seen' \in [Conn -> SUBSET State]
           /\ \A c \in Conn : seen[c] \subseteq seen'[c] /\ (Calling(c) => S \cap Concern(req[c]) \subseteq seen'[c])
<1>1. \A c \in Conn : Concern(req[c]) \subseteq State /\ seen[c] \subseteq State
  BY ZenonT(60), ConcernOf DEF ClientOK
<1> QED
  BY ZenonT(60), <1>1 DEF See, Calling, ClientOK

\* The monitor announces s while the callers wait.
LEMMA SetStateKeeps ==
    ASSUME IInv, NEW m, SameBut(mon, m), NEW s \in State, SetState(m, s), LoopOK', Phases',
           UNCHANGED <<client, backlog, since, orphan>>,
           runs' \in {runs, runs + 1}, alive' => alive \/ runs' = runs + 1
    PROVE  IInv'
<1>1. /\ TypeOK /\ UNCHANGED <<cpc, req, unread, ans>> /\ hstate' = Announced(s)
      /\ thawed' = (s = "THAWED") /\ See({s, Announced(s)}) /\ mon' = Serve(m, s)
  BY ZenonT(60) DEF IInv, client, SetState
<1>2. {s, Announced(s)} \in SUBSET State
  BY ZenonT(60) DEF Announced, State
<1>3. /\ seen' \in [Conn -> SUBSET State]
      /\ \A c \in Conn : /\ seen[c] \subseteq seen'[c]
                         /\ Calling(c) => {s, Announced(s)} \cap Concern(req[c]) \subseteq seen'[c]
  BY ZenonT(60), <1>1, <1>2, SeeEffect DEF TypeOK
<1>4. MonOK(mon') /\ mon'.list = {e \in mon.list : s \notin e.states}
  <2>1. MonOK(m) /\ m.list = mon.list
    BY ZenonT(60) DEF SameBut
  <2>2. LET n == Serve(m, s) IN
        /\ MonOK(n) /\ n.tty = m.tty
        /\ n.list = {e \in m.list : s \notin e.states}
        /\ n.fd = [f \in Fd |-> IF f \in Asked(m, s) THEN NoConn ELSE m.fd[f]]
        /\ n.out = [c \in Conn |-> IF \E f \in Asked(m, s) : m.fd[f] = c /\ ~Hungup(m, f)
                                   THEN Append(m.out[c], s) ELSE m.out[c]]
    BY ZenonT(60), <2>1, ServeEffect
  <2> QED
    BY ZenonT(60), <1>1, <2>1, <2>2
<1>5. TypeOK'
  BY ZenonT(60), <1>1, <1>3, <1>4 DEF TypeOK, ClientOK
<1>6. NoMissedState'
  BY ZenonT(60), <1>1, <1>4 DEF NoMissedState, Announced
<1>7. ASSUME ~orphan' PROVE Orderly'
  <2>1. Orderly
    BY ZenonT(60), <1>7 DEF IInv
  <2>2. \A c \in Conn : Accepted(c)' = Accepted(c) /\ Fresh(c)' = Fresh(c)
    BY ZenonT(60), <1>1 DEF Accepted, Fresh
  <2>3. Connections' /\ Entries' /\ Ttys'
    <3>1. Shrinks
      <4>1. Entries /\ Ttys /\ TypeOK /\ SameBut(mon, m) /\ s \in State /\ mon' = Serve(m, s)
        BY ZenonT(60), <1>1, <2>1 DEF Orderly
      <4>2. /\ mon'.tty = mon.tty /\ mon'.list = {e \in mon.list : s \notin e.states}
            /\ \A f \in Fd : mon'.fd[f] \in {mon.fd[f], NoConn}
            /\ \A e \in mon'.list : mon'.fd[e.fd] = mon.fd[e.fd]
            /\ \A t \in Tty : mon.tty[t] # Free => mon'.fd[mon.tty[t]] = mon.fd[mon.tty[t]]
        BY ONLY SMTT(60), <4>1, ServeTables
      <4> QED
        BY ZenonT(60), <1>1, <2>2, <4>2 DEF Shrinks
    <3> QED
      BY ZenonT(60), <1>1, <2>1, <3>1, ShrinksKeeps DEF Orderly
  <2>4. ASSUME NEW c \in Conn PROVE Own(c)'
    <3>1. \/ mon'.out[c] = mon.out[c] /\ InFd(c)' = InFd(c) /\ Listed(c)' = Listed(c)
          \/ /\ mon'.out[c] = IF cpc[c] = "done" THEN mon.out[c] ELSE Append(mon.out[c], s)
             /\ ~Fresh(c) /\ req[c].cmd = "ADD_STATE_CLIENT" /\ s \in req[c].states
      <4>1. Entries /\ TypeOK /\ SameBut(mon, m) /\ s \in State /\ mon' = Serve(m, s) /\ c \in Conn
        BY ZenonT(60), <1>1, <2>1 DEF Orderly
      <4>2. \/ /\ mon'.out[c] = mon.out[c]
               /\ (\E f \in Fd : mon'.fd[f] = c) <=> InFd(c)
               /\ (\E e \in mon'.list : e.conn = c) <=> Listed(c)
            \/ /\ mon'.out[c] = IF cpc[c] = "done" THEN mon.out[c] ELSE Append(mon.out[c], s)
               /\ ~Fresh(c) /\ req[c].cmd = "ADD_STATE_CLIENT" /\ s \in req[c].states
        BY ONLY SMTT(60), <4>1, ServeConnection
      <4> QED
        BY ONLY ZenonT(60), <4>2 DEF InFd, Listed
    <3>2. Stays(c)
      BY ZenonT(60), <1>1, <1>3 DEF Stays
    <3>3. req[c].cmd = "ADD_STATE_CLIENT" /\ s \in req[c].states => s \in Concern(req[c])
      BY ZenonT(60), <1>1, ConcernOf DEF TypeOK, ClientOK
    <3>4. Announces(c, s)
      BY ZenonT(60), <1>1, <1>3, <2>2, <3>1, <3>2, <3>3 DEF Announces
    <3> QED
      BY ZenonT(60), <1>1, <2>1, <3>4, AnnouncesKeeps DEF Orderly
  <2> QED
    BY ZenonT(60), <2>3, <2>4 DEF Orderly
<1> QED
  BY ZenonT(60), <1>5, <1>6, <1>7 DEF IInv

\* lxc_spawn() announces RUNNING.
LEMMA StartRunningStep == ASSUME IInv, StartRunning PROVE IInv'
<1>1. /\ TypeOK /\ Phases /\ SetState(mon, "RUNNING") /\ "RUNNING" \in State
      /\ phase = "start" /\ phase' = "loop" /\ alive' = TRUE /\ reboot' = "NONE" /\ runs' = runs + 1
      /\ UNCHANGED <<client, backlog, batch, blocked, listening, since, orphan>>
  BY ZenonT(60) DEF IInv, StartRunning, loop, State
<1>2. LoopOK' /\ Phases' /\ SameBut(mon, mon)
  BY ONLY SMTT(60), <1>1 DEF TypeOK, LoopOK, Phases, SetState, Announced, Phase, State, SameBut
<1> QED
  BY ZenonT(60), <1>1, <1>2, SetStateKeeps

\* A start that fails announces ABORTING.
LEMMA StartFailsStep == ASSUME IInv, StartFails PROVE IInv'
<1>1. /\ TypeOK /\ Phases /\ SetState(mon, "ABORTING") /\ "ABORTING" \in State
      /\ phase = "start" /\ phase' = "stopping"
      /\ UNCHANGED <<client, backlog, batch, blocked, listening, alive, reboot, runs, since, orphan>>
  BY ZenonT(60) DEF IInv, StartFails, loop, State
<1>2. LoopOK' /\ Phases' /\ SameBut(mon, mon)
  BY ZenonT(60), <1>1 DEF TypeOK, LoopOK, Phases, SetState, Announced, Phase, State, SameBut
<1> QED
  BY ZenonT(60), <1>1, <1>2, SetStateKeeps

\* lxc_end() announces STOPPING.
LEMMA EndStoppingStep == ASSUME IInv, EndStopping PROVE IInv'
<1>1. /\ TypeOK /\ Phases /\ SetState(mon, "STOPPING") /\ "STOPPING" \in State
      /\ phase = "stopping" /\ phase' = "hooks" /\ batch' = {}
      /\ UNCHANGED <<client, backlog, blocked, listening, alive, reboot, runs, since, orphan>>
  BY ZenonT(60) DEF IInv, EndStopping, State
<1>2. LoopOK' /\ Phases' /\ SameBut(mon, mon)
  BY ZenonT(60), <1>1 DEF TypeOK, LoopOK, Phases, SetState, Announced, Phase, State, SameBut
<1> QED
  BY ZenonT(60), <1>1, <1>2, SetStateKeeps

\* lxc_init() of the next run announces STARTING.
LEMMA RestartStep == ASSUME IInv, Restart PROVE IInv'
<1>1. /\ TypeOK /\ Phases /\ SetState(mon, "STARTING") /\ "STARTING" \in State
      /\ phase = "restart" /\ phase' = "start" /\ reboot' = "INIT"
      /\ UNCHANGED <<client, backlog, batch, blocked, listening, alive, runs, since, orphan>>
  BY ZenonT(60) DEF IInv, Restart, loop, State
<1>2. LoopOK' /\ Phases' /\ SameBut(mon, mon)
  BY ZenonT(60), <1>1 DEF TypeOK, LoopOK, Phases, SetState, Announced, Phase, State, SameBut
<1> QED
  BY ZenonT(60), <1>1, <1>2, SetStateKeeps

\* No descriptor is left: ABORTING is announced and the loop ends.
LEMMA AcceptFailsStep == ASSUME IInv, AcceptFails PROVE IInv'
<1> DEFINE m == [mon EXCEPT !.reg = {}]
<1>1. /\ TypeOK /\ Phases /\ SetState(m, "ABORTING") /\ "ABORTING" \in State
      /\ Event(Accept) /\ phase' = "stopping" /\ alive' = FALSE
      /\ UNCHANGED <<client, backlog, listening, reboot, runs, since, orphan>>
  BY ZenonT(60) DEF IInv, AcceptFails, State
<1>2. SameBut(mon, m)
  BY ZenonT(60), <1>1 DEF TypeOK, MonOK, SameBut
<1>3. phase = "loop" /\ batch' \subseteq batch /\ blocked' \in {blocked, NoHandler}
  BY ZenonT(60), <1>1 DEF Event, TakeEvent
<1> HIDE DEF m
<1>4. LoopOK'
  BY ZenonT(60), <1>1, <1>3 DEF TypeOK, LoopOK, SetState, Announced, Phase, State
<1>5. MonOK(mon') /\ mon'.tty = mon.tty
  <2>1. MonOK(Serve(m, "ABORTING")) /\ Serve(m, "ABORTING").tty = m.tty
    BY ZenonT(60), <1>1, <1>2, ServeEffect DEF SameBut
  <2> QED
    BY ZenonT(60), <1>1, <1>2, <2>1 DEF SetState, SameBut
<1>6. Phases'
  BY ZenonT(60), <1>1, <1>3, <1>5 DEF Phases
<1> QED
  BY ZenonT(60), <1>1, <1>2, <1>4, <1>6, SetStateKeeps

\* The loop polls, closes its handlers or the init dies: no connection is touched.
LEMMA QuietKeeps ==
    ASSUME IInv, LoopOK', Phases', SameBut(mon, mon'), alive' => alive,
           UNCHANGED <<client, backlog, hstate, runs, seen, since, orphan, thawed>>,
           phase' = phase \/ phase \notin {"stopped", "exit", "gone"}
    PROVE  IInv'
<1>1. /\ TypeOK /\ UNCHANGED <<cpc, req, unread, ans>> /\ MonOK(mon') /\ mon'.fd = mon.fd
      /\ mon'.list = mon.list /\ mon'.tty = mon.tty /\ mon'.out = mon.out
  BY ZenonT(60) DEF IInv, client, SameBut
<1>2. TypeOK' /\ NoMissedState'
  BY ZenonT(60), <1>1 DEF IInv, TypeOK, ClientOK, NoMissedState
<1>3. ASSUME ~orphan' PROVE Orderly'
  <2>1. Orderly
    BY ZenonT(60), <1>3 DEF IInv
  <2>2. \A c \in Conn : Untouched(c) /\ Fresh(c)' = Fresh(c)
    BY ZenonT(60), <1>1 DEF Untouched, Accepted, InFd, Listed, Fresh
  <2>3. Connections' /\ Entries' /\ Ttys'
    <3>0. backlog' = backlog
      BY ZenonT(60)
    <3>1. Connections'
      BY ONLY ZenonT(60), <1>1, <2>1, <3>0 DEF Orderly, Connections
    <3>2. Entries'
      BY ONLY ZenonT(60), <1>1, <2>1, <2>2 DEF Orderly, Entries
    <3>3. Ttys'
      BY ONLY ZenonT(60), <1>1, <2>1, <2>2 DEF Orderly, Ttys
    <3> QED
      BY ZenonT(60), <3>1, <3>2, <3>3
  <2>4. \A c \in Conn : Own(c)'
    BY ZenonT(60), <2>1, <2>2, UntouchedKeeps DEF Orderly
  <2> QED
    BY ZenonT(60), <2>3, <2>4 DEF Orderly
<1> QED
  BY ZenonT(60), <1>2, <1>3 DEF IInv

\* epoll_wait() returns what is pending.
LEMMA EpollWaitStep == ASSUME IInv, epoll_wait PROVE IInv'
<1>1. /\ TypeOK /\ Phases /\ phase = "loop" /\ batch' = Pending
      /\ UNCHANGED <<client, backlog, mon, blocked, life, seen, since, orphan>>
  BY ZenonT(60) DEF IInv, epoll_wait
<1>2. UNCHANGED <<listening, phase, hstate, alive, killed, reboot, runs, thawed>>
  BY ZenonT(60), <1>1 DEF life
<1>3. batch' \subseteq Handler \cup {Accept, Signal} /\ (Signal \in batch' => ~alive)
  <2>1. mon.reg \subseteq Handler
    BY ZenonT(60), <1>1 DEF TypeOK, MonOK
  <2>2. \A h \in Handler : h # Accept /\ h # Signal
    BY ONLY SMTT(60), ConnAssumption DEF Handler, Accept, Signal
  <2>3. Accept # Signal
    BY ZenonT(60) DEF Accept, Signal
  <2> QED
    BY ZenonT(60), <1>1, <2>1, <2>2, <2>3 DEF Pending
<1>4. LoopOK' /\ Phases' /\ SameBut(mon, mon')
  BY ZenonT(60), <1>1, <1>2, <1>3 DEF TypeOK, LoopOK, Phases, SameBut
<1> QED
  BY ZenonT(60), <1>1, <1>2, <1>4, QuietKeeps

\* The init dies.
LEMMA InitDiesStep == ASSUME IInv, InitDies PROVE IInv'
<1>1. /\ TypeOK /\ Phases /\ phase = "loop" /\ alive' = FALSE
      /\ UNCHANGED <<client, backlog, mon, batch, blocked, listening, phase, hstate, reboot, runs, seen, since, orphan, thawed>>
  BY ZenonT(60) DEF IInv, InitDies, loop
<1>2. LoopOK' /\ Phases' /\ SameBut(mon, mon')
  BY ZenonT(60), <1>1 DEF TypeOK, LoopOK, Phases, SameBut
<1> QED
  BY ZenonT(60), <1>1, <1>2, QuietKeeps

\* signal_handler() ends the loop.
LEMMA SignalStep == ASSUME IInv, signal_handler PROVE IInv'
<1>1. /\ TypeOK /\ Phases /\ Event(Signal) /\ mon' = [mon EXCEPT !.reg = {}] /\ phase' = "stopping"
      /\ reboot' \in {"NONE", "REQ"}
      /\ UNCHANGED <<client, backlog, listening, hstate, alive, runs, seen, since, orphan, thawed>>
  BY ZenonT(60) DEF IInv, signal_handler
<1>2. phase = "loop" /\ batch' \subseteq batch /\ blocked' \in {blocked, NoHandler} /\ ~alive
  <2>1. phase = "loop" /\ batch' \subseteq batch /\ blocked' \in {blocked, NoHandler}
    BY ZenonT(60), <1>1 DEF Event, TakeEvent
  <2>2. blocked # Signal
    BY ONLY SMTT(60), <1>1, ConnAssumption DEF TypeOK, LoopOK, Handler, NoHandler, Signal
  <2>3. Signal \in Pending => ~alive
    BY ZenonT(60), <1>1, ConnAssumption DEF Pending, TypeOK, MonOK, Handler, Signal, Accept
  <2> QED
    BY ZenonT(60), <1>1, <2>1, <2>2, <2>3 DEF Event, TakeEvent, Phases
<1>3. LoopOK' /\ SameBut(mon, mon')
  BY ZenonT(60), <1>1, <1>2 DEF TypeOK, LoopOK, MonOK, SameBut, Phase
<1>4. Phases'
  BY ZenonT(60), <1>1, <1>2, <1>3 DEF Phases, SameBut
<1> QED
  BY ZenonT(60), <1>1, <1>2, <1>3, <1>4, QuietKeeps

\* The container has stopped: connections are closed and entries forgotten.
LEMMA StoppedKeeps ==
    ASSUME IInv, LoopOK', Phases', NoMissedState', MonOK(mon'), mon'.out = mon.out, ~alive', hstate' = "STOPPED",
           UNCHANGED <<client, runs, since, orphan>>,
           seen' \in [Conn -> SUBSET State], backlog' \in {backlog, <<>>},
           \A c \in Conn : seen[c] \subseteq seen'[c] /\ (Calling(c) /\ "STOPPED" \in Concern(req[c]) /\ ~orphan => "STOPPED" \in seen'[c]),
           \A f \in Fd : mon'.fd[f] \in {mon.fd[f], NoConn},
           mon'.list \subseteq mon.list,
           ~orphan => /\ \A e \in mon'.list : mon'.fd[e.fd] = mon.fd[e.fd]
                      /\ \A t \in Tty : mon'.tty[t] # Free => mon'.tty[t] = mon.tty[t] /\ mon'.fd[mon.tty[t]] = mon.fd[mon.tty[t]]
    PROVE  IInv'
<1>1. TypeOK /\ UNCHANGED <<cpc, req, unread, ans>>
  BY ZenonT(60) DEF IInv, client
<1>2. TypeOK'
  BY ZenonT(60), <1>1 DEF TypeOK, ClientOK
<1>3. ASSUME ~orphan' PROVE Orderly'
  <2>1. Orderly
    BY ZenonT(60), <1>3 DEF IInv
  <2>2. \A c \in Conn : (Accepted(c) => Accepted(c)') /\ (Fresh(c)' => Fresh(c))
    <3>1. backlog' = backlog \/ backlog' = <<>>
      BY ZenonT(60)
    <3>2. \A c \in Conn : Accepted(c) => Accepted(c)'
      BY ONLY SMTT(60), <3>1 DEF Accepted
    <3> QED
      BY ZenonT(60), <1>1, <3>2 DEF Fresh
  <2>3. Connections' /\ Entries' /\ Ttys'
    <3>1. Shrinks
      BY ZenonT(60), <1>1, <1>3, <2>2 DEF Shrinks
    <3> QED
      BY ZenonT(60), <1>1, <2>1, <3>1, ShrinksKeeps DEF Orderly
  <2>4. ASSUME NEW c \in Conn PROVE Own(c)'
    <3>1. InFd(c)' => InFd(c)
      BY ZenonT(60), ConnAssumption DEF InFd
    <3>2. Stops(c)
      BY ZenonT(60), <1>1, <1>3, <2>2, <3>1 DEF Stops, Stays
    <3> QED
      BY ZenonT(60), <1>1, <2>1, <3>2, StopsKeeps DEF Orderly
  <2> QED
    BY ZenonT(60), <2>3, <2>4 DEF Orderly
<1> QED
  BY ZenonT(60), <1>2, <1>3 DEF IInv

\* lxc_end() announces STOPPED, or closes the command socket.
LEMMA EndStoppedStep == ASSUME IInv, EndStopped PROVE IInv'
<1>1. /\ TypeOK /\ Phases /\ phase = "hooks" /\ phase' = "stopped"
      /\ UNCHANGED <<client, batch, blocked, alive, reboot, runs, since, orphan>>
  BY ZenonT(60) DEF IInv, EndStopped, loop
<1>2. CASE reboot # "NONE" /\ SetState(mon, "STOPPED") /\ UNCHANGED <<backlog, listening>>
  <2>1. LoopOK' /\ SameBut(mon, mon) /\ "STOPPED" \in State
    BY ZenonT(60), <1>1, <1>2 DEF TypeOK, LoopOK, SetState, Announced, Phase, State, SameBut
  <2>2. Phases'
    BY ZenonT(60), <1>1, <1>2 DEF Phases, SetState, Announced
  <2> QED
    BY ZenonT(60), <1>1, <1>2, <2>1, <2>2, SetStateKeeps
<1>3. CASE /\ reboot = "NONE" /\ listening' = FALSE /\ backlog' = <<>> /\ hstate' = "STOPPED"
           /\ See({"STOPPED"}) /\ UNCHANGED mon
  <2>1. LoopOK' /\ MonOK(mon') /\ ~alive' /\ {"STOPPED"} \in SUBSET State
    <3>1. MonOK(mon') /\ ~alive'
      BY ZenonT(60), <1>1, <1>3 DEF TypeOK, Phases
    <3>2. LoopOK'
      <4>1. backlog' \in Seq(Conn) /\ listening' \in BOOLEAN /\ hstate' \in State /\ phase' \in Phase
        <5>1. backlog' = <<>> /\ listening' = FALSE /\ hstate' = "STOPPED" /\ phase' = "stopped"
          BY ZenonT(60), <1>1, <1>3
        <5>2. <<>> \in Seq(Conn)
          BY ONLY SMTT(60)
        <5> QED
          BY ONLY ZenonT(60), <5>1, <5>2 DEF Phase, State
      <4> QED
        BY ZenonT(60), <1>1, <4>1 DEF TypeOK, LoopOK
    <3> QED
      BY ZenonT(60), <3>1, <3>2 DEF State
  <2>2. Phases' /\ NoMissedState'
    BY ZenonT(60), <1>1, <1>3 DEF Phases, NoMissedState
  <2>3. /\ seen' \in [Conn -> SUBSET State]
        /\ \A c \in Conn : seen[c] \subseteq seen'[c] /\ (Calling(c) => {"STOPPED"} \cap Concern(req[c]) \subseteq seen'[c])
    BY ZenonT(60), <1>1, <1>3, <2>1, SeeEffect DEF TypeOK
  <2> QED
    BY ZenonT(60), <1>1, <1>3, <2>1, <2>2, <2>3, StoppedKeeps
<1> QED
  BY ZenonT(60), <1>2, <1>3 DEF EndStopped

\* lxc_end() closes the state clients, but for those that wait for the next run.
LEMMA EndClientsStep == ASSUME IInv, EndClients PROVE IInv'
<1>1. PICK again \in {reboot, "NONE"} :
        /\ mon' = [mon EXCEPT !.list = {e \in @ : Kept(e, again)},
                              !.fd = [f \in Fd |-> IF f \in {e.fd : e \in {d \in mon.list : ~Kept(d, again)}}
                                                   THEN NoConn ELSE @[f]],
                              !.tty = [t \in Tty |-> Free]]
        /\ reboot' = again
        /\ phase' = IF again = "REQ" THEN "restart" ELSE "exit"
        /\ listening' = (listening /\ again # "NONE")
        /\ backlog' = IF again = "NONE" THEN <<>> ELSE backlog
  BY ZenonT(60) DEF EndClients
<1> DEFINE list == {e \in mon.list : Kept(e, again)}
           gone == {e.fd : e \in {d \in mon.list : ~Kept(d, again)}}
           fd == [f \in Fd |-> IF f \in gone THEN NoConn ELSE mon.fd[f]]
           tty == [t \in Tty |-> Free]
<1>2. /\ TypeOK /\ MonOK(mon) /\ Phases /\ NoMissedState /\ phase = "stopped"
      /\ UNCHANGED <<client, batch, blocked, hstate, alive, runs, seen, since, orphan, thawed>>
  BY ZenonT(60) DEF IInv, TypeOK, EndClients, loop
<1>3. mon' = [mon EXCEPT !.list = list, !.fd = fd, !.tty = tty]
  BY ZenonT(60), <1>1
<1>4. fd \in [Fd -> Conn \cup {NoConn}] /\ tty \in [Tty -> Fd \cup {Free}]
  BY ZenonT(60), <1>2 DEF MonOK
<1>5. MonOK(mon') /\ mon'.list = list /\ mon'.fd = fd /\ mon'.tty = tty /\ mon'.out = mon.out
  <2> HIDE DEF list, fd, tty
  <2> QED
    BY ZenonT(60), <1>2, <1>3, <1>4 DEF MonOK
<1>6. LoopOK' /\ ~alive' /\ hstate' = "STOPPED"
  BY ONLY SMTT(60), <1>1, <1>2 DEF TypeOK, LoopOK, Phases, Phase
<1>7. Phases'
  BY ZenonT(60), <1>1, <1>2, <1>5 DEF Phases
<1>8. NoMissedState'
  BY ZenonT(60), <1>1, <1>2, <1>5 DEF NoMissedState, Kept
<1>9. \A f \in Fd : mon'.fd[f] \in {mon.fd[f], NoConn}
  BY ZenonT(60), <1>5
<1>10. ASSUME ~orphan PROVE \A e \in mon'.list : mon'.fd[e.fd] = mon.fd[e.fd]
  <2>1. Entries
    BY ZenonT(60), <1>10 DEF IInv, Orderly
  <2>2. \A e \in list : e.fd \in Fd /\ e.fd \notin gone
    BY ZenonT(60), <2>1 DEF Entries
  <2> QED
    BY ZenonT(60), <1>5, <2>2
<1>11. \A c \in Conn : Calling(c) /\ "STOPPED" \in Concern(req[c]) /\ ~orphan => "STOPPED" \in seen'[c]
  BY ZenonT(60), <1>2, <1>6 DEF IInv, Orderly, Own, StateSeen
<1>12. seen' \in [Conn -> SUBSET State]
  BY ZenonT(60), <1>2 DEF TypeOK, ClientOK
<1>13. \A t \in Tty : mon'.tty[t] = Free
  BY ZenonT(60), <1>5
<1> QED
  BY ZenonT(60), <1>1, <1>2, <1>5, <1>6, <1>7, <1>8, <1>9, <1>10, <1>11, <1>12, <1>13, StoppedKeeps

\* The monitor exits.
LEMMA ExitStep == ASSUME IInv, Exit PROVE IInv'
<1> DEFINE fd == [f \in Fd |-> NoConn]
<1>1. /\ TypeOK /\ MonOK(mon) /\ Phases /\ phase = "exit" /\ phase' = "gone" /\ listening' = FALSE /\ backlog' = <<>>
      /\ mon' = [mon EXCEPT !.fd = fd, !.list = {}]
      /\ UNCHANGED <<client, batch, blocked, hstate, alive, reboot, runs, seen, since, orphan, thawed>>
  BY ZenonT(60) DEF IInv, TypeOK, Exit, loop
<1>2. MonOK(mon') /\ mon'.list = {} /\ mon'.fd = fd /\ mon'.tty = mon.tty /\ mon'.out = mon.out
  BY ZenonT(60), <1>1 DEF MonOK
<1>3. LoopOK' /\ ~alive' /\ hstate' = "STOPPED" /\ seen' \in [Conn -> SUBSET State]
  <2>1. ~alive' /\ hstate' = "STOPPED" /\ seen' \in [Conn -> SUBSET State]
    BY ZenonT(60), <1>1 DEF TypeOK, ClientOK, Phases
  <2>2. LoopOK'
    <3>1. backlog' \in Seq(Conn) /\ listening' \in BOOLEAN /\ phase' \in Phase
      <4>1. backlog' = <<>> /\ listening' = FALSE /\ phase' = "gone"
        BY ZenonT(60), <1>1
      <4>2. <<>> \in Seq(Conn)
        BY ONLY SMTT(60)
      <4> QED
        BY ONLY ZenonT(60), <4>1, <4>2 DEF Phase
    <3> QED
      BY ZenonT(60), <1>1, <3>1 DEF TypeOK, LoopOK
  <2> QED
    BY ZenonT(60), <2>1, <2>2
<1>4. Phases' /\ NoMissedState' /\ \A t \in Tty : mon'.tty[t] = Free
  BY ZenonT(60), <1>1, <1>2 DEF Phases, NoMissedState
<1>5. \A c \in Conn : Calling(c) /\ "STOPPED" \in Concern(req[c]) /\ ~orphan => "STOPPED" \in seen'[c]
  BY ZenonT(60), <1>1, <1>3 DEF IInv, Orderly, Own, StateSeen
<1> QED
  BY ZenonT(60), <1>1, <1>2, <1>3, <1>4, <1>5, StoppedKeeps

-----------------------------------------------------------------------------
(* The mainloop's steps                                                    *)

\* The loop is at an event.
LEMMA EventEffect ==
    ASSUME NEW e, Event(e)
    PROVE  phase = "loop" /\ batch' \subseteq batch /\ blocked' \in {blocked, NoHandler}
  BY ZenonT(60) DEF Event, TakeEvent

\* lxc_cmd_accept(): the first of the backlog gets a free descriptor.
LEMMA AcceptStep == ASSUME IInv, lxc_cmd_accept PROVE IInv'
<1>1. /\ TypeOK /\ MonOK(mon) /\ Phases /\ NoMissedState /\ Event(Accept) /\ backlog # <<>> /\ backlog' = Tail(backlog)
      /\ UNCHANGED <<client, listening, phase, hstate, alive, reboot, runs, thawed, seen, since, orphan>>
  BY ZenonT(60) DEF IInv, TypeOK, lxc_cmd_accept, life
<1>0. backlog \in Seq(Conn) /\ Head(backlog) \in Conn /\ Head(backlog) = backlog[1] /\ 1 \in DOMAIN backlog
  BY ONLY SMTT(60), <1>1 DEF TypeOK, LoopOK
<1> PICK c \in Conn : c = Head(backlog)
  BY ZenonT(60), <1>0
<1>2. PICK f \in Fd : /\ mon.fd[f] = NoConn
                      /\ mon' = [mon EXCEPT !.fd[f] = c, !.reg = @ \cup {[owner |-> c, fd |-> f, conn |-> c]}]
  BY ZenonT(60) DEF lxc_cmd_accept
<1>3. /\ backlog' \in Seq(Conn) /\ 1 \in DOMAIN backlog /\ c = backlog[1]
      /\ \A i \in DOMAIN backlog' : i + 1 \in DOMAIN backlog /\ backlog'[i] = backlog[i + 1]
      /\ \A i \in DOMAIN backlog : i = 1 \/ (i - 1 \in DOMAIN backlog' /\ backlog'[i - 1] = backlog[i])
  BY <1>0, <1>1
<1>4. /\ MonOK(mon') /\ mon'.fd = [mon.fd EXCEPT ![f] = c]
      /\ mon'.list = mon.list /\ mon'.tty = mon.tty /\ mon'.out = mon.out
  <2> DEFINE fd == [mon.fd EXCEPT ![f] = c]
             reg == mon.reg \cup {[owner |-> c, fd |-> f, conn |-> c]}
  <2>1. fd \in [Fd -> Conn \cup {NoConn}] /\ reg \subseteq Handler
    BY ONLY SMTT(60), <1>1 DEF MonOK, Handler
  <2>2. mon' = [mon EXCEPT !.fd = fd, !.reg = reg]
    BY ZenonT(60), <1>2
  <2> HIDE DEF fd, reg
  <2>3. MonOK(mon') /\ mon'.fd = fd /\ mon'.list = mon.list /\ mon'.tty = mon.tty /\ mon'.out = mon.out
    BY ZenonT(60), <1>1, <2>1, <2>2 DEF MonOK
  <2> QED
    BY ZenonT(60), <2>3 DEF fd
<1>5. phase = "loop" /\ batch' \subseteq batch /\ blocked' \in {blocked, NoHandler}
  BY ZenonT(60), <1>1, EventEffect
<1>6. TypeOK'
  <2>1. LoopOK'
    BY ZenonT(60), <1>1, <1>3, <1>5 DEF TypeOK, LoopOK
  <2> QED
    BY ZenonT(60), <1>1, <1>4, <2>1 DEF client, TypeOK, ClientOK
<1>7. Phases' /\ NoMissedState'
  BY ZenonT(60), <1>1, <1>4, <1>5 DEF Phases, NoMissedState
<1>8. ASSUME ~orphan' PROVE Orderly'
  <2>1. Orderly /\ UNCHANGED <<cpc, req, unread, ans>>
    BY ZenonT(60), <1>1, <1>8 DEF IInv, client
  <2>2. /\ \A g \in Fd : mon'.fd[g] = IF g = f THEN c ELSE mon.fd[g]
        /\ ~InFd(c) /\ ~Accepted(c)
    BY ONLY SMTT(60), <1>1, <1>2, <1>3, <1>4, <2>1 DEF Orderly, Connections, InFd, Accepted, MonOK
  <2>3. Connections'
    <3>1. \A i, j \in DOMAIN backlog' : backlog'[i] = backlog'[j] => i = j
      BY ONLY SMTT(60), <1>3, <2>1 DEF Orderly, Connections
    <3>2. \A i \in DOMAIN backlog' : backlog'[i] # c
      BY ONLY SMTT(60), <1>3, <2>1 DEF Orderly, Connections
    <3>3. \A i \in DOMAIN backlog', g \in Fd : mon'.fd[g] # backlog'[i]
      BY ONLY SMTT(60), <1>3, <2>1, <2>2, <3>2 DEF Orderly, Connections
    <3>4. \A g, h \in Fd : mon'.fd[g] = mon'.fd[h] /\ mon'.fd[g] # NoConn => g = h
      BY ZenonT(60), <2>1, <2>2 DEF Orderly, Connections, InFd
    <3> QED
      BY ZenonT(60), <3>1, <3>3, <3>4 DEF Connections
  <2>4. Accepted(c)' /\ \A d \in Conn \ {c} : Accepted(d)' = Accepted(d)
    BY ONLY SMTT(60), <1>3, <2>1 DEF Orderly, Connections, Accepted
  <2>5. \A d \in Conn : ~Fresh(d) => d # c /\ ~Fresh(d)'
    BY ZenonT(60), <2>1, <2>2, <2>4 DEF Fresh
  <2>6. Entries'
    <3>1. Entries /\ req' = req /\ mon'.list = mon.list
      BY ZenonT(60), <1>4, <2>1 DEF Orderly
    <3>2. \A e \in mon.list : e.fd \in Fd /\ e.conn \in Conn /\ mon.fd[e.fd] = e.conn /\ ~Fresh(e.conn) /\ ~Fresh(e.conn)'
      BY ZenonT(60), <2>5, <3>1 DEF Entries
    <3>3. \A e \in mon.list : e.fd # f
      BY ZenonT(60), <1>2, <3>2, ConnAssumption
    <3>4. \A e \in mon.list : mon'.fd[e.fd] = e.conn
      BY ZenonT(60), <2>2, <3>2, <3>3
    <3> QED
      BY ONLY ZenonT(60), <3>1, <3>2, <3>4 DEF Entries
  <2>7. Ttys'
    BY ONLY SMTT(60), <1>1, <1>2, <1>4, <2>1, <2>2, <2>5, ConnAssumption DEF Orderly, Ttys, MonOK
  <2>8. ASSUME NEW d \in Conn, d # c PROVE Own(d)'
    <3>1. InFd(d)' = InFd(d)
      BY ONLY SMTT(60), <1>2, <2>2, <2>8, ConnAssumption DEF InFd
    <3>2. Untouched(d)
      BY ZenonT(60), <1>1, <1>4, <2>1, <2>4, <2>8, <3>1 DEF Untouched, Listed
    <3> QED
      BY ZenonT(60), <1>1, <2>1, <3>2, UntouchedKeeps DEF Orderly
  <2>9. Own(c)'
    <3>1. Own(c) /\ InFd(c)' /\ Listed(c)' = Listed(c) /\ cpc[c] # "idle"
      <4>1. Own(c)
        BY ZenonT(60), <2>1 DEF Orderly
      <4>2. InFd(c)'
        BY ZenonT(60), <1>3, <2>2 DEF InFd
      <4>3. Listed(c)' = Listed(c)
        BY ZenonT(60), <1>4 DEF Listed
      <4>4. cpc[c] # "idle"
        BY ZenonT(60), <2>2, <4>1 DEF Own, Begins
      <4> QED
        BY ZenonT(60), <4>1, <4>2, <4>3, <4>4
    <3>2. Begins(c)'
      BY ZenonT(60), <1>4, <2>1, <2>2, <2>4, <3>1 DEF Own, Begins, Fresh
    <3>3. StateSeen(c)' /\ Messages(c)' /\ Answers(c)' /\ Waiting(c)'
      BY ZenonT(60), <1>1, <1>4, <2>1, <3>1 DEF Own, StateSeen, Calling, Messages, Right, Answers, Waiting, Promised, Told
    <3> QED
      BY ZenonT(60), <3>1, <3>2, <3>3 DEF Own, Closed
  <2> QED
    BY ZenonT(60), <2>1, <2>3, <2>6, <2>7, <2>8, <2>9 DEF Orderly
<1> QED
  BY ZenonT(60), <1>6, <1>7, <1>8 DEF IInv

\* The handler of a connection is one.
LEMMA HandlerTyped ==
    ASSUME TypeOK, NEW c \in Conn, NEW h \in mon.reg \cup batch \cup {blocked}, h.owner = c
    PROVE  h \in Handler /\ h.fd \in Fd
<1>1. h \in Handler \cup {Accept, Signal, NoHandler}
  BY ZenonT(60) DEF TypeOK, MonOK, LoopOK
<1>2. h \in Handler
  BY <1>1, ConnAssumption DEF Accept, Signal, NoHandler
<1> QED
  BY ZenonT(60), <1>2 DEF Handler

\* The loop waits in recvmsg(): no connection is touched.
LEMMA BlocksStep == ASSUME IInv, NEW h \in Handler, Blocks(h) PROVE IInv'
<1>1. /\ TypeOK /\ MonOK(mon) /\ Phases /\ phase = "loop" /\ batch' \subseteq batch /\ blocked' = h /\ mon' = Fired(h)
      /\ UNCHANGED <<client, backlog, life, seen, since, orphan>>
  BY ZenonT(60) DEF IInv, TypeOK, Blocks, TakeEvent
<1>2. UNCHANGED <<listening, phase, hstate, alive, killed, reboot, runs, thawed>>
  BY ZenonT(60), <1>1 DEF life
<1>3. SameBut(mon, mon')
  BY ZenonT(60), <1>1, FiredEffect
<1>4. LoopOK'
  BY ZenonT(60), <1>1, <1>2 DEF TypeOK, LoopOK
<1>5. Phases'
  BY ZenonT(60), <1>1, <1>2, <1>3 DEF Phases, SameBut
<1> QED
  BY ZenonT(60), <1>1, <1>2, <1>3, <1>4, <1>5, QuietKeeps

\* A caller that is done does not mind what becomes of its connection.
LEMMA DoneKeeps ==
    ASSUME NEW c \in Conn, Own(c), cpc[c] = "done", hstate' = hstate, runs' = runs, alive' => alive,
           cpc'[c] = cpc[c], unread'[c] = unread[c], req'[c] = req[c], ans'[c] = ans[c],
           seen'[c] = seen[c], since'[c] = since[c], mon'.out[c] = mon.out[c], Accepted(c)' = Accepted(c)
    PROVE  Own(c)'
<1>1. Begins(c)' /\ StateSeen(c)' /\ Messages(c)'
  BY ZenonT(60) DEF Own, Begins, Fresh, StateSeen, Calling, Messages, Right
<1>2. Closed(c)' /\ Waiting(c)' /\ Answers(c)'
  BY ZenonT(60) DEF Own, Closed, Waiting, Promised, Answers
<1> QED
  BY ZenonT(60), <1>1, <1>2 DEF Own

\* lxc_cmd_handler() finds the peer gone: the descriptor is closed.
LEMMA DisconnectStep == ASSUME IInv, NEW h \in Handler, Disconnect(h) PROVE IInv'
<1>1. /\ TypeOK /\ MonOK(mon) /\ Phases /\ NoMissedState /\ Event(h) /\ h.fd \in Fd
      /\ mon.fd[h.fd] # NoConn => cpc[mon.fd[h.fd]] = "done"
      /\ orphan' = (orphan \/ \E e \in mon'.list : mon'.fd[e.fd] # e.conn)
      /\ UNCHANGED <<client, backlog, life, seen, since>>
  BY ZenonT(60) DEF IInv, TypeOK, Disconnect, Handler
<1>2. /\ UNCHANGED <<listening, phase, hstate, alive, killed, reboot, runs, thawed>>
      /\ UNCHANGED <<cpc, req, unread, ans>>
  BY ZenonT(60), <1>1 DEF life, client
<1>3. PICK cmd \in {"ADD_STATE_CLIENT", "GET_TTY_FD"} : mon' = Disarm(lxc_cmd_fd_cleanup(Fired(h), h.fd, cmd), h)
  BY ZenonT(60) DEF Disconnect
<1>4. /\ MonOK(mon') /\ mon'.out = mon.out /\ mon'.list \subseteq mon.list
      /\ \A e \in mon.list : e \in mon'.list \/ e.fd = h.fd
      /\ \/ mon'.fd = mon.fd /\ mon'.tty = mon.tty
         \/ /\ mon'.fd = [mon.fd EXCEPT ![h.fd] = NoConn]
            /\ mon'.tty = [t \in Tty |-> IF mon.tty[t] = h.fd THEN Free ELSE mon.tty[t]]
  <2> DEFINE a == Fired(h)
             b == lxc_cmd_fd_cleanup(a, h.fd, cmd)
  <2>1. SameBut(mon, a)
    BY ZenonT(60), <1>1, FiredEffect
  <2> HIDE DEF a
  <2>2. /\ MonOK(b) /\ b.fd = a.fd /\ b.tty = a.tty /\ b.out = a.out
        /\ b.list = IF cmd = "ADD_STATE_CLIENT" THEN a.list \ FirstOf(a.list, h.fd) ELSE a.list
    <3>1. MonOK(a)
      BY ZenonT(60), <2>1 DEF SameBut
    <3>2. PICK f \in Fd : f = h.fd
      BY ZenonT(60), <1>1
    <3>3. LET n == lxc_cmd_fd_cleanup(a, f, cmd) IN
          /\ MonOK(n) /\ n.fd = a.fd /\ n.tty = a.tty /\ n.out = a.out
          /\ n.list = IF cmd = "ADD_STATE_CLIENT" THEN a.list \ FirstOf(a.list, f) ELSE a.list
      BY ONLY ZenonT(60), <3>1, CleanupEffect
    <3> QED
      BY ONLY ZenonT(60), <3>2, <3>3
  <2>3. mon' = Disarm(b, h)
    BY ZenonT(60), <1>3 DEF a
  <2> HIDE DEF b
  <2>4. Leaves(b, mon', h.fd)
    BY ZenonT(60), <2>2, <2>3, DisarmEffect
  <2>5. b.list \subseteq mon.list /\ \A e \in mon.list : e \in b.list \/ e.fd = h.fd
    BY ZenonT(60), <2>1, <2>2 DEF SameBut, FirstOf
  <2> QED
    BY ONLY SMTT(60), <2>1, <2>2, <2>4, <2>5 DEF SameBut, Leaves
<1>5. phase = "loop" /\ batch' \subseteq batch /\ blocked' \in {blocked, NoHandler}
  BY ZenonT(60), <1>1, EventEffect
<1>6. TypeOK'
  BY ZenonT(60), <1>1, <1>2, <1>4, <1>5 DEF TypeOK, ClientOK, LoopOK
<1>7. Phases' /\ NoMissedState'
  BY ZenonT(60), <1>1, <1>2, <1>4, <1>5 DEF Phases, NoMissedState
<1>8. ASSUME ~orphan' PROVE Orderly'
  <2>1. Orderly /\ \A e \in mon'.list : mon'.fd[e.fd] = e.conn
    BY ZenonT(60), <1>1, <1>8 DEF IInv
  <2>2. \A d \in Conn : Accepted(d)' = Accepted(d) /\ Fresh(d)' = Fresh(d)
    BY ZenonT(60), <1>1, <1>2 DEF Accepted, Fresh
  <2>3. /\ \A g \in Fd : mon'.fd[g] = mon.fd[g] \/ (g = h.fd /\ mon'.fd[g] = NoConn)
        /\ \A t \in Tty : mon'.tty[t] # Free => mon'.tty[t] = mon.tty[t] /\ mon'.fd[mon.tty[t]] = mon.fd[mon.tty[t]]
    BY ZenonT(60), <1>1, <1>4 DEF MonOK
  <2>4. Connections' /\ Entries' /\ Ttys'
    <3>1. \A e \in mon'.list : mon'.fd[e.fd] = mon.fd[e.fd]
      BY ZenonT(60), <1>4, <2>1 DEF Orderly, Entries
    <3>2. Shrinks
      BY ZenonT(60), <1>1, <1>2, <1>4, <2>2, <2>3, <3>1 DEF Shrinks
    <3> QED
      BY ZenonT(60), <1>1, <2>1, <3>2, ShrinksKeeps DEF Orderly
  <2>5. ASSUME NEW d \in Conn PROVE Own(d)'
    <3>1. CASE d = mon.fd[h.fd]
      <4>1. cpc[d] = "done"
        BY ZenonT(60), <1>1, <3>1, ConnAssumption
      <4> QED
        BY ZenonT(60), <1>1, <1>2, <1>4, <2>1, <2>2, <4>1, DoneKeeps DEF Orderly
    <3>2. CASE d # mon.fd[h.fd]
      <4>1. InFd(d)' = InFd(d)
        BY ZenonT(60), <1>1, <2>3, <3>2, ConnAssumption DEF InFd
      <4>2. Listed(d)' = Listed(d)
        <5>1. \A e \in mon.list : e.conn = mon.fd[e.fd]
          BY ZenonT(60), <2>1 DEF Orderly, Entries
        <5>2. mon'.list \subseteq mon.list /\ \A e \in mon.list : e \in mon'.list \/ e.fd = h.fd
          BY ZenonT(60), <1>4
        <5>3. \A e \in mon.list : e.conn = d => e \in mon'.list
          BY ONLY ZenonT(60), <3>2, <5>1, <5>2
        <5> QED
          BY ONLY ZenonT(60), <5>2, <5>3 DEF Listed
      <4>3. Untouched(d)
        BY ZenonT(60), <1>1, <1>2, <1>4, <2>2, <4>1, <4>2 DEF Untouched
      <4> QED
        BY ZenonT(60), <1>2, <2>1, <4>3, UntouchedKeeps DEF Orderly
    <3> QED
      BY ZenonT(60), <3>1, <3>2
  <2> QED
    BY ZenonT(60), <2>4, <2>5 DEF Orderly
<1> QED
  BY ZenonT(60), <1>6, <1>7, <1>8 DEF IInv

=============================================================================
