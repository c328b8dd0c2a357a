------------------------ MODULE CommandRequestProofs ------------------------
(***************************************************************************)
(* The callbacks of the commands keep the invariant of CommandServerProofs, *)
(* and with the steps of the callers, the container and the mainloop that  *)
(* makes it an invariant of the command server: what follows from it is    *)
(* stated at the end.                                                      *)
(***************************************************************************)
EXTENDS CommandServerProofs

-----------------------------------------------------------------------------
(* The commands                                                            *)

\* lxc_cmd_rsp_send_reap(): n is m with x under way, unless the caller has hung up,
\* and with f closed.
Reaps(m, n, f, x) ==
    /\ MonOK(n) /\ n.list = m.list
    /\ n.out = IF Hungup(m, f) THEN m.out ELSE [m.out EXCEPT ![m.fd[f]] = Append(@, x)]
    /\ \/ n.fd = m.fd /\ n.tty = m.tty
       \/ /\ n.fd = [m.fd EXCEPT ![f] = NoConn]
          /\ n.tty = [t \in Tty |-> IF m.tty[t] = f THEN Free ELSE m.tty[t]]

\* lxc_cmd_rsp_send_reap() does so for a command other than ADD_STATE_CLIENT.
LEMMA ReapEffect ==
    ASSUME NEW m, MonOK(m), NEW h \in Handler, h.fd \in Fd, NEW x \in Msg, NEW cmd, cmd # "ADD_STATE_CLIENT"
    PROVE  Reaps(m, Reap(m, h, x, cmd), h.fd, x)
<1> DEFINE s == Send(m, h.fd, x)
<1>1. /\ MonOK(s) /\ s.fd = m.fd /\ s.tty = m.tty /\ s.list = m.list
      /\ s.out = IF Hungup(m, h.fd) THEN m.out ELSE [m.out EXCEPT ![m.fd[h.fd]] = Append(@, x)]
  BY SMTT(60), SendEffect
<1>2. Reap(m, h, x, cmd) = Disarm(s, h)
  BY ZenonT(60) DEF Reap, lxc_cmd_fd_cleanup
<1> HIDE DEF s
<1>3. Leaves(s, Disarm(s, h), h.fd)
  BY ZenonT(60), <1>1, DisarmEffect
<1> QED
  BY ZenonT(60), <1>1, <1>2, <1>3 DEF Leaves, Reaps

\* lxc_cmd_rsp_send_keep(): n is m with x under way, or m with the entry of f out
\* of the list and f closed.
Keeps(m, n, f, x, cmd) ==
    /\ MonOK(n)
    /\ \/ /\ ~Hungup(m, f) /\ n.fd = m.fd /\ n.tty = m.tty /\ n.list = m.list
          /\ n.out = [m.out EXCEPT ![m.fd[f]] = Append(@, x)]
       \/ /\ Hungup(m, f) /\ n.out = m.out
          /\ n.list = IF cmd = "ADD_STATE_CLIENT" THEN m.list \ FirstOf(m.list, f) ELSE m.list
          /\ \/ n.fd = m.fd /\ n.tty = m.tty
             \/ /\ n.fd = [m.fd EXCEPT ![f] = NoConn]
                /\ n.tty = [t \in Tty |-> IF m.tty[t] = f THEN Free ELSE m.tty[t]]

\* lxc_cmd_rsp_send_keep() does one of the two.
LEMMA KeepEffect ==
    ASSUME NEW m, MonOK(m), NEW h \in Handler, h.fd \in Fd, NEW x \in Msg, NEW cmd, m.fd[h.fd] \in Conn
    PROVE  Keeps(m, Keep(m, h, x, cmd), h.fd, x, cmd)
<1> DEFINE s == Send(m, h.fd, x)
<1>0. /\ MonOK(s) /\ s.fd = m.fd /\ s.tty = m.tty /\ s.list = m.list
      /\ s.out = IF Hungup(m, h.fd) THEN m.out ELSE [m.out EXCEPT ![m.fd[h.fd]] = Append(@, x)]
  <2>1. PICK f \in Fd : f = h.fd
    BY ZenonT(60)
  <2>2. LET n == Send(m, f, x) IN
        /\ MonOK(n) /\ n.fd = m.fd /\ n.tty = m.tty /\ n.list = m.list
        /\ n.out = IF Hungup(m, f) THEN m.out ELSE [m.out EXCEPT ![m.fd[f]] = Append(@, x)]
    BY SMTT(60), SendEffect
  <2> QED
    BY ONLY ZenonT(60), <2>1, <2>2
<1>1. CASE ~Hungup(m, h.fd)
  <2>1. Keep(m, h, x, cmd) = Rearm(s, h)
    BY ZenonT(60), <1>1 DEF Keep
  <2> HIDE DEF s
  <2>2. SameBut(s, Rearm(s, h))
    BY ZenonT(60), <1>0, RearmEffect
  <2> QED
    BY ZenonT(60), <1>0, <1>1, <2>1, <2>2 DEF SameBut, Keeps
<1>2. CASE Hungup(m, h.fd)
  <2> DEFINE b == lxc_cmd_fd_cleanup(m, h.fd, cmd)
  <2>1. /\ MonOK(b) /\ b.fd = m.fd /\ b.tty = m.tty /\ b.out = m.out
        /\ b.list = IF cmd = "ADD_STATE_CLIENT" THEN m.list \ FirstOf(m.list, h.fd) ELSE m.list
    BY ZenonT(60), CleanupEffect
  <2>2. Keep(m, h, x, cmd) = Disarm(b, h)
    BY ZenonT(60), <1>2 DEF Keep
  <2> HIDE DEF b
  <2>3. Leaves(b, Disarm(b, h), h.fd)
    BY ZenonT(60), <2>1, DisarmEffect
  <2> QED
    BY ZenonT(60), <1>2, <2>1, <2>2, <2>3 DEF Leaves, Keeps
<1> QED
  BY ZenonT(60), <1>1, <1>2

\* The request of c is read by the handler h.
Takes(h, c) ==
    /\ phase = "loop" /\ batch' \subseteq batch /\ blocked' \in {blocked, NoHandler}
    /\ mon.fd[h.fd] = c /\ unread[c] /\ unread' = [unread EXCEPT ![c] = FALSE]
    /\ UNCHANGED <<cpc, req, ans, backlog, listening, phase, alive, reboot, runs, since, orphan>>

\* A callback runs once lxc_cmd_handler() has read the whole request.
LEMMA ProcessEffect ==
    ASSUME NEW h, NEW c \in Conn, c = mon.fd[h.fd], Process(h, req[c])
    PROVE  Takes(h, c)
  BY ZenonT(60), EventEffect DEF Process, Takes

\* What the monitor's tables become: only descriptor f, which stands for c, and
\* what is under way to c change, and c is sent x unless it has hung up.
Answered(c, f, x) ==
    /\ MonOK(mon')
    /\ \A d \in Conn \ {c} : mon'.out[d] = mon.out[d]
    /\ mon'.out[c] = mon.out[c] \/ (cpc[c] # "done" /\ mon'.out[c] = Append(mon.out[c], x))
    /\ \A g \in Fd : mon'.fd[g] = mon.fd[g] \/ (g = f /\ mon'.fd[g] = NoConn)
\* A new entry, and the old ones, but for those of f.
Lists(c, f) ==
    /\ \A e \in mon'.list : e \notin mon.list =>
        /\ e.fd = f /\ e.conn = c /\ mon'.fd[f] = c
        /\ req[c].cmd = "ADD_STATE_CLIENT" /\ req[c].states = e.states
    /\ \A e \in mon.list : e \in mon'.list \/ e.fd = f
    /\ \A d, e \in mon'.list : d.conn = c /\ e.conn = c => d = e
\* A tty is given to f, or those of f are freed.
Gives(c, f) ==
    \A t \in Tty : mon'.tty[t] # Free =>
        \/ mon'.tty[t] = mon.tty[t] /\ mon.tty[t] # f
        \/ mon'.tty[t] = f /\ mon'.fd[f] = c /\ req[c].cmd = "GET_TTY_FD" /\ \A u \in Tty : mon'.tty[u] = f => u = t

\* Reading a request and answering it keeps the tables and the other connections in order.
LEMMA AnsweredKeeps ==
    ASSUME TypeOK, Connections, Entries, Ttys, NEW h \in Handler, h.fd \in Fd, NEW c \in Conn, Own(c), Takes(h, c),
           NEW x, Answered(c, h.fd, x), Lists(c, h.fd), Gives(c, h.fd)
    PROVE  /\ Connections' /\ Entries' /\ Ttys'
           /\ \A d \in Conn \ {c} : Accepted(d)' = Accepted(d) /\ InFd(d)' = InFd(d) /\ Listed(d)' = Listed(d)
           /\ Accepted(c) /\ Accepted(c)' /\ ~Listed(c)
<1>1. /\ mon.fd \in [Fd -> Conn \cup {NoConn}] /\ backlog \in Seq(Conn) /\ c # NoConn /\ mon.tty \in [Tty -> Fd \cup {Free}]
      /\ unread \in [Conn -> BOOLEAN] /\ \A i \in DOMAIN backlog : backlog[i] \in Conn /\ backlog[i] # NoConn
  BY ConnAssumption DEF TypeOK, MonOK, LoopOK, ClientOK
<1>2. /\ mon.fd[h.fd] = c /\ Fresh(c) /\ Accepted(c) /\ cpc[c] \in {"sent", "done"}
  BY ZenonT(60) DEF Takes, Fresh, Accepted, Connections, Own, Begins
<1>3. \A d \in Conn : Accepted(d)' = Accepted(d)
  BY ZenonT(60) DEF Takes, Accepted
<1>4. \A d \in Conn : ~Fresh(d) \/ d = c => ~Fresh(d)'
  BY ZenonT(60), <1>1, <1>2, <1>3 DEF Takes, Fresh
<1>5. \A e \in mon.list : e.conn # c /\ e.fd # h.fd /\ e \in mon'.list
  BY ZenonT(60), <1>2 DEF Entries, Lists
<1>6. \A e \in mon'.list : e \in mon.list \/ e.conn = c
  BY ZenonT(60) DEF Lists
<1>7. Connections'
  BY SMTT(60), <1>1, <1>2 DEF Connections, Takes, Answered
<1>8. Entries'
  <2>1. ASSUME NEW e \in mon'.list
        PROVE  /\ e.fd \in Fd /\ e.conn \in Conn /\ mon'.fd[e.fd] = e.conn /\ ~Fresh(e.conn)'
               /\ req[e.conn].cmd = "ADD_STATE_CLIENT" /\ req[e.conn].states = e.states
    <3>1. CASE e \in mon.list
      BY ZenonT(60), <1>4, <1>5, <3>1 DEF Entries, Answered
    <3>2. CASE e \notin mon.list
      BY ZenonT(60), <1>4, <3>2 DEF Lists
    <3> QED
      BY ZenonT(60), <3>1, <3>2
  <2>2. \A d, e \in mon'.list : d.conn = e.conn => d = e
    BY ZenonT(60), <1>5, <1>6 DEF Entries, Lists
  <2> QED
    BY ZenonT(60), <2>1, <2>2 DEF Entries, Takes
<1>9. Ttys'
  <2>1. ASSUME NEW t \in Tty, NEW f, f = mon'.tty[t], f # Free, NEW d, d = mon'.fd[f]
        PROVE  d \in Conn /\ ~Fresh(d)' /\ req[d].cmd = "GET_TTY_FD" /\ \A u \in Tty : mon'.tty[u] = f => u = t
    <3>1. CASE mon'.tty[t] = mon.tty[t] /\ mon.tty[t] # h.fd
      <4>1. f \in Fd /\ d = mon.fd[f]
        BY ZenonT(60), <1>1, <2>1, <3>1 DEF Answered
      <4>2. d \in Conn /\ ~Fresh(d) /\ req[d].cmd = "GET_TTY_FD" /\ \A u \in Tty : mon.tty[u] = f => u = t
        BY ZenonT(60), <2>1, <3>1, <4>1 DEF Ttys
      <4>3. \A u \in Tty : mon'.tty[u] = f => mon.tty[u] = f
        BY ZenonT(60), <2>1, <3>1 DEF Gives
      <4> QED
        BY ZenonT(60), <1>4, <4>2, <4>3
    <3>2. CASE /\ mon'.tty[t] = h.fd /\ mon'.fd[h.fd] = c /\ req[c].cmd = "GET_TTY_FD"
               /\ \A u \in Tty : mon'.tty[u] = h.fd => u = t
      BY ZenonT(60), <1>4, <2>1, <3>2
    <3> QED
      BY ZenonT(60), <2>1, <3>1, <3>2 DEF Gives
  <2> QED
    BY ZenonT(60), <2>1 DEF Ttys, Takes
<1>10. \A d \in Conn \ {c} : InFd(d)' = InFd(d) /\ Listed(d)' = Listed(d)
  BY SMTT(60), <1>1, <1>2, <1>5, <1>6, ConnAssumption DEF InFd, Listed, Answered
<1> QED
  BY ZenonT(60), <1>2, <1>3, <1>5, <1>7, <1>8, <1>9, <1>10 DEF Listed

\* A command that changes neither the state nor what was announced.
LEMMA CommandKeeps ==
    ASSUME IInv, NEW h \in Handler, h.fd \in Fd, NEW c \in Conn, Takes(h, c), UNCHANGED <<hstate, seen, thawed>>,
           NEW x \in Msg, MonOK(mon'),
           \A e \in mon'.list : e \in mon.list \/ e.again \/ hstate \notin e.states,
           ~orphan => /\ Answered(c, h.fd, x) /\ Lists(c, h.fd) /\ Gives(c, h.fd)
                      /\ cpc[c] # "done" => Right(c, x)
                      /\ x = MAX_STATE => mon'.out[c] = mon.out[c] \/ Listed(c)'
                      /\ req[c].cmd = "STOP" => mon'.fd[h.fd] = c
    PROVE  IInv'
<1>1. TypeOK /\ Phases /\ NoMissedState
  BY ZenonT(60) DEF IInv
<1>2. TypeOK'
  BY ZenonT(60), <1>1 DEF Takes, TypeOK, ClientOK, LoopOK
<1>3. Phases' /\ NoMissedState'
  BY ZenonT(60), <1>1 DEF Takes, Phases, NoMissedState
<1>4. ASSUME ~orphan' PROVE Orderly'
  <2>1. Orderly /\ ~orphan
    BY ZenonT(60), <1>4 DEF IInv, Takes
  <2>2. /\ Connections' /\ Entries' /\ Ttys'
        /\ \A d \in Conn \ {c} : Accepted(d)' = Accepted(d) /\ InFd(d)' = InFd(d) /\ Listed(d)' = Listed(d)
        /\ Accepted(c) /\ Accepted(c)' /\ ~Listed(c)
    BY ZenonT(60), <1>1, <2>1, AnsweredKeeps DEF Orderly
  <2>3. ASSUME NEW d \in Conn, d # c PROVE Own(d)'
    <3>1. Untouched(d)
      BY ZenonT(60), <1>1, <2>1, <2>2, <2>3 DEF Untouched, Takes, Answered, TypeOK, ClientOK
    <3> QED
      BY ZenonT(60), <2>1, <3>1, UntouchedKeeps DEF Orderly, Takes
  <2>4. Own(c)'
    <3>1. Own(c)
      BY ZenonT(60), <2>1 DEF Orderly
    <3>2. Stays(c)
      BY ZenonT(60), <1>1, <3>1 DEF Own, StateSeen, Stays, Takes
    <3>3. Right(c, x) => Right(c, x)'
      BY ZenonT(60) DEF Right, Takes
    <3>4. Processes(c, x)
      BY ZenonT(60), <1>1, <2>1, <2>2, <3>2, <3>3 DEF Processes, Takes, Answered, InFd, TypeOK, ClientOK
    <3> QED
      BY ZenonT(60), <1>1, <3>1, <3>4, ProcessesKeeps
  <2> QED
    BY ZenonT(60), <2>2, <2>3, <2>4 DEF Orderly
<1> QED
  BY ZenonT(60), <1>2, <1>3, <1>4 DEF IInv

\* What Fired() leaves alone.
LEMMA FiredSame ==
    ASSUME TypeOK, NEW h \in Handler
    PROVE  /\ MonOK(Fired(h)) /\ Fired(h).fd = mon.fd /\ Fired(h).tty = mon.tty
           /\ Fired(h).out = mon.out /\ Fired(h).list = mon.list
           /\ \A f : Hungup(Fired(h), f) = Hungup(mon, f)
  BY ZenonT(60), FiredEffect DEF TypeOK, SameBut, Hungup

\* A command that is answered with x, after which the connection is closed.
LEMMA ReapKeeps ==
    ASSUME IInv, NEW h \in Handler, h.fd \in Fd, NEW c \in Conn, Takes(h, c), UNCHANGED <<hstate, seen, thawed>>,
           NEW x \in Msg, x # MAX_STATE, req[c].cmd \notin {"ADD_STATE_CLIENT", "STOP"},
           mon' = Reap(Fired(h), h, x, req[c].cmd),
           ~orphan /\ cpc[c] # "done" => Right(c, x)
    PROVE  IInv'
<1>1. TypeOK /\ mon.fd[h.fd] = c /\ c # NoConn /\ MonOK(mon)
  BY ZenonT(60), ConnAssumption DEF IInv, Takes, TypeOK
<1>2. /\ MonOK(mon') /\ mon'.list = mon.list
      /\ mon'.out = IF cpc[c] = "done" THEN mon.out ELSE [mon.out EXCEPT ![c] = Append(@, x)]
      /\ \/ mon'.fd = mon.fd /\ mon'.tty = mon.tty
         \/ /\ mon'.fd = [mon.fd EXCEPT ![h.fd] = NoConn]
            /\ mon'.tty = [t \in Tty |-> IF mon.tty[t] = h.fd THEN Free ELSE mon.tty[t]]
  <2> DEFINE m == Fired(h)
  <2>1. /\ MonOK(m) /\ m.fd = mon.fd /\ m.tty = mon.tty /\ m.out = mon.out /\ m.list = mon.list
        /\ Hungup(m, h.fd) <=> cpc[c] = "done"
    BY ZenonT(60), <1>1, FiredSame DEF Hungup
  <2>2. mon' = Reap(m, h, x, req[c].cmd)
    BY ZenonT(60)
  <2> HIDE DEF m
  <2>3. Reaps(m, mon', h.fd, x)
    <3>1. MonOK(m) /\ req[c].cmd # "ADD_STATE_CLIENT"
      BY ZenonT(60), <2>1
    <3> QED
      BY ZenonT(60), <2>2, <3>1, ReapEffect
  <2> QED
    BY ONLY SMTT(60), <1>1, <2>1, <2>3 DEF Reaps
<1>3. ASSUME ~orphan PROVE Answered(c, h.fd, x) /\ Lists(c, h.fd) /\ Gives(c, h.fd)
  <2>1. Entries /\ Ttys /\ Fresh(c)
    BY ZenonT(60), <1>3 DEF IInv, Orderly, Takes, Fresh
  <2>2. Answered(c, h.fd, x)
    BY ZenonT(60), <1>1, <1>2 DEF Answered, MonOK
  <2>3. Lists(c, h.fd)
    BY ONLY SMTT(60), <1>2, <2>1 DEF Lists, Entries
  <2>4. Gives(c, h.fd)
    <3>1. \A t \in Tty : mon.tty[t] # Free => mon.tty[t] # h.fd
      BY ZenonT(60), <1>1, <2>1 DEF Ttys
    <3> QED
      BY ZenonT(60), <1>2, <3>1 DEF Gives
  <2> QED
    BY ZenonT(60), <2>2, <2>3, <2>4
<1> QED
  BY ZenonT(60), <1>2, <1>3, CommandKeeps

\* lxc_cmd_get_state_callback() answers the state, which the caller has seen.
LEMMA GetStateStep ==
    ASSUME IInv, NEW h \in Handler, h.fd \in Fd, NEW c \in Conn, c = mon.fd[h.fd],
           lxc_cmd_get_state_callback(h, req[c])
    PROVE  IInv'
<1>1. /\ TypeOK /\ Takes(h, c) /\ req[c].cmd = "GET_STATE" /\ mon' = Reap(Fired(h), h, hstate, req[c].cmd)
      /\ UNCHANGED <<hstate, seen, thawed>> /\ hstate \in State
  BY ZenonT(60), ProcessEffect DEF IInv, lxc_cmd_get_state_callback, TypeOK, LoopOK
<1>2. hstate \in Msg /\ hstate # MAX_STATE /\ hstate # "tty" /\ hstate # "ok"
  BY ZenonT(60), <1>1 DEF Msg, State, MAX_STATE
<1>3. ASSUME ~orphan, cpc[c] # "done" PROVE Right(c, hstate)
  <2>1. Own(c) /\ Concern(req[c]) = State
    BY ZenonT(60), <1>1, <1>3, ConcernOf DEF IInv, Orderly, TypeOK, ClientOK
  <2>2. Calling(c)
    BY ZenonT(60), <1>1, <1>3, <2>1 DEF Own, Begins, Calling, Takes
  <2> QED
    BY ZenonT(60), <1>1, <1>2, <2>1, <2>2 DEF Own, StateSeen, Right
<1>4. PICK x \in Msg : x = hstate
  BY ZenonT(60), <1>2
<1> QED
  BY ZenonT(60), <1>1, <1>2, <1>3, <1>4, ReapKeeps

\* lxc_cmd_stop_callback() keeps the connection until the container has stopped.
LEMMA StopStep ==
    ASSUME IInv, NEW h \in Handler, h.fd \in Fd, NEW c \in Conn, c = mon.fd[h.fd],
           lxc_cmd_stop_callback(h, req[c])
    PROVE  IInv'
<1>1. /\ TypeOK /\ MonOK(mon) /\ Takes(h, c) /\ req[c].cmd = "STOP" /\ mon' = Rearm(Fired(h), h)
      /\ UNCHANGED <<hstate, seen, thawed>> /\ "error" \in Msg /\ "error" # MAX_STATE
  BY ZenonT(60), ProcessEffect DEF IInv, lxc_cmd_stop_callback, TypeOK, Msg, MAX_STATE
<1>2. SameBut(mon, mon')
  <2> DEFINE m == Fired(h)
  <2>1. SameBut(mon, m) /\ MonOK(m) /\ m.fd[h.fd] \in Conn
    BY ZenonT(60), <1>1, FiredEffect DEF SameBut
  <2> HIDE DEF m
  <2>2. SameBut(m, Rearm(m, h))
    BY ZenonT(60), <2>1, RearmEffect
  <2>3. mon' = Rearm(m, h)
    BY ZenonT(60), <1>1 DEF m
  <2> QED
    BY ZenonT(60), <2>1, <2>2, <2>3 DEF SameBut
<1>3. ASSUME ~orphan PROVE /\ Answered(c, h.fd, "error") /\ Lists(c, h.fd) /\ Gives(c, h.fd)
                           /\ Right(c, "error") /\ mon'.fd[h.fd] = c
  <2>1. Entries /\ Ttys /\ Fresh(c)
    BY ZenonT(60), <1>1, <1>3 DEF IInv, Orderly, Takes, Fresh
  <2>2. Answered(c, h.fd, "error") /\ mon'.fd[h.fd] = c
    BY ZenonT(60), <1>2 DEF Answered, SameBut
  <2>3. Lists(c, h.fd)
    BY ZenonT(60), <1>2, <2>1 DEF Lists, Entries, SameBut
  <2>4. Gives(c, h.fd)
    BY ZenonT(60), <1>2, <2>1 DEF Gives, Ttys, SameBut
  <2>5. Right(c, "error")
    BY ZenonT(60) DEF Right, State, MAX_STATE
  <2> QED
    BY ZenonT(60), <2>2, <2>3, <2>4, <2>5
<1> QED
  BY ZenonT(60), <1>1, <1>2, <1>3, CommandKeeps DEF SameBut

\* lxc_cmd_rsp_send_keep() after the monitor has become m, with an entry or a tty
\* for c: c is sent x, or has hung up and is closed.
Stored(c, f, m, x) ==
    /\ MonOK(mon')
    /\ \/ /\ cpc[c] # "done" /\ mon'.fd = mon.fd /\ mon'.tty = m.tty /\ mon'.list = m.list
          /\ mon'.out = [mon.out EXCEPT ![c] = Append(@, x)]
       \/ /\ cpc[c] = "done" /\ mon'.out = mon.out
          /\ mon'.list = IF req[c].cmd = "ADD_STATE_CLIENT" THEN m.list \ FirstOf(m.list, f) ELSE m.list
          /\ \/ mon'.fd = mon.fd /\ mon'.tty = m.tty
             \/ /\ mon'.fd = [mon.fd EXCEPT ![f] = NoConn]
                /\ mon'.tty = [t \in Tty |-> IF m.tty[t] = f THEN Free ELSE m.tty[t]]

\* lxc_cmd_rsp_send_keep() stores, sends and, when the caller has hung up, reaps.
LEMMA StoredEffect ==
    ASSUME NEW h \in Handler, h.fd \in Fd, NEW c \in Conn, mon.fd[h.fd] = c,
           NEW m, MonOK(m), m.fd = mon.fd, m.out = mon.out, NEW x \in Msg,
           mon' = Keep(m, h, x, req[c].cmd)
    PROVE  Stored(c, h.fd, m, x)
<1>1. m.fd[h.fd] \in Conn /\ (Hungup(m, h.fd) <=> cpc[c] = "done")
  BY ZenonT(60), ConnAssumption DEF Hungup
<1>2. Keeps(m, mon', h.fd, x, req[c].cmd)
  BY ZenonT(60), <1>1, KeepEffect
<1> QED
  BY ZenonT(60), <1>1, <1>2 DEF Stored, Keeps

\* Its effect on the descriptors and on what is under way.
LEMMA StoredAnswers ==
    ASSUME TypeOK, NEW c \in Conn, NEW f \in Fd, mon.fd[f] = c, NEW m, NEW x, Stored(c, f, m, x)
    PROVE  Answered(c, f, x)
<1>1. mon.fd \in [Fd -> Conn \cup {NoConn}] /\ mon.out \in [Conn -> Seq(Msg)]
  BY ZenonT(60) DEF TypeOK, MonOK
<1> QED
  BY ZenonT(60), <1>1 DEF Stored, Answered

\* list_add_tail() adds the entry at some position.
Adds(list, l, f, states, again, c) ==
    \E p : l = list \cup {[fd |-> f, states |-> states, again |-> again, conn |-> c, pos |-> p]}

\* AddTail() is such an addition.
LEMMA AddTailEffect ==
    ASSUME NEW list, NEW f, NEW states, NEW again, NEW c
    PROVE  Adds(list, AddTail(list, [fd |-> f, states |-> states, again |-> again, conn |-> c, pos |-> 0]), f, states, again, c)
<1> DEFINE e == [fd |-> f, states |-> states, again |-> again, conn |-> c, pos |-> 0]
           p == IF {d.pos : d \in list} = {} THEN 1
                ELSE 1 + CHOOSE n \in {d.pos : d \in list} : \A k \in {d.pos : d \in list} : k =< n
<1>1. AddTail(list, e) = list \cup {[e EXCEPT !.pos = p]}
  BY ZenonT(60) DEF AddTail
<1> HIDE DEF p
<1>2. [e EXCEPT !.pos = p] = [fd |-> f, states |-> states, again |-> again, conn |-> c, pos |-> p]
  BY ONLY SMTT(60)
<1> QED
  BY ZenonT(60), <1>1, <1>2 DEF Adds

\* lxc_add_state_client(): the caller has the state, or an entry in the list.
LEMMA AddStateClientStep ==
    ASSUME IInv, NEW h \in Handler, h.fd \in Fd, NEW c \in Conn, c = mon.fd[h.fd],
           lxc_cmd_add_state_client_callback(h, req[c])
    PROVE  IInv'
<1>1. /\ TypeOK /\ MonOK(mon) /\ Takes(h, c) /\ req[c].cmd = "ADD_STATE_CLIENT" /\ UNCHANGED <<hstate, seen, thawed>>
      /\ hstate \in State
  BY ZenonT(60), ProcessEffect DEF IInv, TypeOK, LoopOK, lxc_cmd_add_state_client_callback
<1>2. /\ hstate \in Msg /\ hstate # MAX_STATE /\ hstate # "tty" /\ hstate # "ok" /\ MAX_STATE \in Msg
      /\ MAX_STATE \notin State /\ MAX_STATE # "tty" /\ MAX_STATE # "ok"
  BY ZenonT(60), <1>1 DEF Msg, State, MAX_STATE
<1>3. /\ MonOK(Fired(h)) /\ Fired(h).fd = mon.fd /\ Fired(h).tty = mon.tty
      /\ Fired(h).out = mon.out /\ Fired(h).list = mon.list
  BY ZenonT(60), <1>1, FiredSame
<1>4. ~orphan => /\ Own(c) /\ Fresh(c) /\ Entries /\ Ttys
                 /\ (\A e \in mon.list : e.fd # h.fd /\ e.conn # c)
                 /\ (\A t \in Tty : mon.tty[t] # Free => mon.tty[t] # h.fd)
  <2>1. ~orphan => Own(c) /\ Fresh(c) /\ Entries /\ Ttys
    BY ZenonT(60), <1>1 DEF IInv, Orderly, Takes, Fresh
  <2> QED
    BY ZenonT(60), <2>1 DEF Entries, Ttys
<1>5. CASE /\ hstate \in req[c].states /\ ~req[c].again
           /\ mon' = Keep(Fired(h), h, hstate, req[c].cmd)
  <2>1. PICK x \in Msg : x = hstate
    BY ZenonT(60), <1>2
  <2>2. Stored(c, h.fd, Fired(h), x)
    BY ZenonT(60), <1>3, <1>5, <2>1, StoredEffect
  <2>3. mon'.list \subseteq mon.list /\ MonOK(mon')
    BY ZenonT(60), <1>3, <2>2 DEF Stored
  <2>4. ASSUME ~orphan PROVE Answered(c, h.fd, x) /\ Lists(c, h.fd) /\ Gives(c, h.fd)
    <3>1. Answered(c, h.fd, x)
      BY ZenonT(60), <1>1, <2>2, StoredAnswers
    <3>2. Lists(c, h.fd)
      BY ZenonT(60), <1>3, <1>4, <2>2, <2>4 DEF Lists, Stored, FirstOf
    <3>3. Gives(c, h.fd)
      BY ONLY SMTT(60), <1>3, <1>4, <2>2, <2>4 DEF Gives, Stored
    <3> QED
      BY ZenonT(60), <3>1, <3>2, <3>3
  <2>5. ASSUME ~orphan, cpc[c] # "done" PROVE Right(c, x)
    <3>1. Own(c) /\ hstate \in Concern(req[c])
      BY ZenonT(60), <1>1, <1>4, <1>5, <2>5, ConcernOf DEF TypeOK, ClientOK
    <3>2. Calling(c)
      BY ZenonT(60), <1>1, <2>5, <3>1 DEF Own, Begins, Calling, Takes
    <3> QED
      BY ZenonT(60), <1>1, <1>2, <1>5, <2>1, <3>1, <3>2 DEF Own, StateSeen, Right
  <2>6. x # MAX_STATE
    BY ZenonT(60), <1>2, <2>1
  <2> QED
    BY ZenonT(60), <1>1, <2>3, <2>4, <2>5, <2>6, CommandKeeps
<1>6. CASE /\ ~(hstate \in req[c].states /\ ~req[c].again)
           /\ mon' = Keep([Fired(h) EXCEPT !.list = AddTail(@, [fd |-> h.fd, states |-> req[c].states, again |-> req[c].again,
                                                                conn |-> mon.fd[h.fd], pos |-> 0])], h, MAX_STATE, req[c].cmd)
  <2>1. PICK p : AddTail(mon.list, [fd |-> h.fd, states |-> req[c].states, again |-> req[c].again, conn |-> c, pos |-> 0]) =
                 mon.list \cup {[fd |-> h.fd, states |-> req[c].states, again |-> req[c].again, conn |-> c, pos |-> p]}
    <3>1. Adds(mon.list, AddTail(mon.list, [fd |-> h.fd, states |-> req[c].states, again |-> req[c].again, conn |-> c, pos |-> 0]),
               h.fd, req[c].states, req[c].again, c)
      BY ZenonT(60), AddTailEffect
    <3> QED
      BY ZenonT(60), <3>1 DEF Adds
  <2>2. PICK e : e = [fd |-> h.fd, states |-> req[c].states, again |-> req[c].again, conn |-> c, pos |-> p]
    BY ZenonT(60)
  <2>3. e.fd = h.fd /\ e.conn = c /\ e.states = req[c].states /\ (e.again \/ hstate \notin e.states)
    BY ZenonT(60), <1>6, <2>2
  <2> DEFINE m == [Fired(h) EXCEPT !.list = mon.list \cup {e}]
  <2>4. MonOK(m) /\ m.fd = mon.fd /\ m.tty = mon.tty /\ m.out = mon.out /\ m.list = mon.list \cup {e}
    BY ZenonT(60), <1>3 DEF MonOK
  <2>5. mon' = Keep(m, h, MAX_STATE, req[c].cmd)
    BY ZenonT(60), <1>3, <1>6, <2>1, <2>2
  <2> HIDE DEF m
  <2>6. Stored(c, h.fd, m, MAX_STATE)
    BY ZenonT(60), <1>2, <2>4, <2>5, StoredEffect
  <2>7. MonOK(mon') /\ \A d \in mon'.list : d \in mon.list \/ d = e
    BY ONLY SMTT(60), <2>4, <2>6 DEF Stored
  <2>8. ASSUME ~orphan PROVE /\ Answered(c, h.fd, MAX_STATE) /\ Lists(c, h.fd) /\ Gives(c, h.fd)
                             /\ mon'.out[c] = mon.out[c] \/ Listed(c)'
    <3>1. Answered(c, h.fd, MAX_STATE)
      BY ZenonT(60), <1>1, <2>6, StoredAnswers
    <3>2. Gives(c, h.fd)
      BY ONLY SMTT(60), <1>4, <2>4, <2>6, <2>8 DEF Gives, Stored
    <3>3. CASE cpc[c] # "done"
      <4>1. mon'.list = mon.list \cup {e} /\ mon'.fd = mon.fd
        BY ZenonT(60), <2>4, <2>6, <3>3 DEF Stored
      <4>2. Lists(c, h.fd) /\ Listed(c)'
        BY ZenonT(60), <1>1, <1>4, <2>3, <2>8, <4>1 DEF Lists, Listed
      <4> QED
        BY ZenonT(60), <3>1, <3>2, <4>2
    <3>4. CASE cpc[c] = "done"
      <4>1. e \in FirstOf(mon.list \cup {e}, h.fd)
        BY ZenonT(60), <1>4, <2>3, <2>8 DEF FirstOf
      <4>2. mon'.list = (mon.list \cup {e}) \ FirstOf(mon.list \cup {e}, h.fd) /\ mon'.out = mon.out
        BY ZenonT(60), <1>1, <2>4, <2>6, <3>4 DEF Stored
      <4>3. Lists(c, h.fd)
        BY ZenonT(60), <1>4, <2>8, <4>1, <4>2 DEF Lists, FirstOf
      <4> QED
        BY ZenonT(60), <3>1, <3>2, <4>2, <4>3
    <3> QED
      BY ZenonT(60), <3>3, <3>4
  <2>9. Right(c, MAX_STATE)
    BY ZenonT(60), <1>1, <1>2 DEF Right
  <2> QED
    BY ZenonT(60), <1>1, <1>2, <2>3, <2>7, <2>8, <2>9, CommandKeeps
<1> QED
  BY ZenonT(60), <1>5, <1>6 DEF lxc_cmd_add_state_client_callback

\* lxc_cmd_get_tty_fd_callback(): the caller has a free tty, or an error.
LEMMA GetTtyStep ==
    ASSUME IInv, NEW h \in Handler, h.fd \in Fd, NEW c \in Conn, c = mon.fd[h.fd],
           lxc_cmd_get_tty_fd_callback(h, req[c])
    PROVE  IInv'
<1>1. /\ TypeOK /\ MonOK(mon) /\ Takes(h, c) /\ req[c].cmd = "GET_TTY_FD" /\ UNCHANGED <<hstate, seen, thawed>>
  BY ZenonT(60), ProcessEffect DEF IInv, TypeOK, lxc_cmd_get_tty_fd_callback
<1>2. /\ "error" \in Msg /\ "error" # MAX_STATE /\ "tty" \in Msg /\ "tty" # MAX_STATE /\ "tty" \notin State
      /\ "error" \notin State
  BY ZenonT(60) DEF Msg, State, MAX_STATE
<1>3. CASE mon' = Reap(Fired(h), h, "error", req[c].cmd)
  <2>1. Right(c, "error")
    BY ZenonT(60), <1>2 DEF Right
  <2> QED
    BY ZenonT(60), <1>1, <1>2, <1>3, <2>1, ReapKeeps
<1>4. CASE \E t \in Tty : mon.tty[t] = Free /\ mon' = Keep([Fired(h) EXCEPT !.tty[t] = h.fd], h, "tty", req[c].cmd)
  <2>1. PICK t \in Tty : mon.tty[t] = Free /\ mon' = Keep([Fired(h) EXCEPT !.tty[t] = h.fd], h, "tty", req[c].cmd)
    BY ZenonT(60), <1>4
  <2>2. /\ MonOK(Fired(h)) /\ Fired(h).fd = mon.fd /\ Fired(h).tty = mon.tty
        /\ Fired(h).out = mon.out /\ Fired(h).list = mon.list
    BY ZenonT(60), <1>1, FiredSame
  <2> DEFINE tty == [mon.tty EXCEPT ![t] = h.fd]
             m == [Fired(h) EXCEPT !.tty = tty]
  <2>3. tty \in [Tty -> Fd \cup {Free}] /\ \A u \in Tty : tty[u] = IF u = t THEN h.fd ELSE mon.tty[u]
    BY ZenonT(60), <1>1 DEF MonOK
  <2>4. mon' = Keep(m, h, "tty", req[c].cmd)
    BY ZenonT(60), <2>1, <2>2
  <2> HIDE DEF tty
  <2>5. MonOK(m) /\ m.fd = mon.fd /\ m.tty = tty /\ m.out = mon.out /\ m.list = mon.list
    BY ZenonT(60), <2>2, <2>3 DEF MonOK
  <2> HIDE DEF m
  <2>6. Stored(c, h.fd, m, "tty")
    BY ZenonT(60), <1>2, <2>4, <2>5, StoredEffect
  <2>7. MonOK(mon') /\ mon'.list = mon.list
    BY ZenonT(60), <1>1, <2>5, <2>6 DEF Stored
  <2>8. ASSUME ~orphan PROVE Answered(c, h.fd, "tty") /\ Lists(c, h.fd) /\ Gives(c, h.fd)
    <3>1. Entries /\ Ttys /\ Fresh(c)
      BY ZenonT(60), <1>1, <2>8 DEF IInv, Orderly, Takes, Fresh
    <3>2. Answered(c, h.fd, "tty")
      BY ZenonT(60), <1>1, <2>6, StoredAnswers
    <3>3. Lists(c, h.fd)
      BY ZenonT(60), <2>7, <3>1 DEF Lists, Entries
    <3>4. \A u \in Tty : mon.tty[u] # Free => mon.tty[u] # h.fd
      BY ZenonT(60), <3>1 DEF Ttys
    <3>5. h.fd # Free
      BY SMTT(60), FdAssumption DEF Free
    <3>6. Gives(c, h.fd)
      <4>1. CASE mon'.fd = mon.fd /\ mon'.tty = tty
        BY ZenonT(60), <1>1, <2>3, <3>4, <3>5, <4>1 DEF Gives
      <4>2. CASE mon'.tty = [u \in Tty |-> IF tty[u] = h.fd THEN Free ELSE tty[u]]
        BY ZenonT(60), <2>3, <3>4, <4>2 DEF Gives
      <4> QED
        BY ZenonT(60), <2>5, <2>6, <4>1, <4>2 DEF Stored
    <3> QED
      BY ZenonT(60), <3>2, <3>3, <3>6
  <2>9. Right(c, "tty")
    BY ZenonT(60), <1>1, <1>2 DEF Right
  <2> QED
    BY ZenonT(60), <1>1, <1>2, <2>7, <2>8, <2>9, CommandKeeps
<1> QED
  BY ZenonT(60), <1>3, <1>4 DEF lxc_cmd_get_tty_fd_callback

\* lxc_cmd_serve_state_clients_callback(): the state is announced, then the caller
\* that brought it is answered.
LEMMA ServeStateClientsStep ==
    ASSUME IInv, NEW h \in Handler, h.fd \in Fd, NEW c \in Conn, c = mon.fd[h.fd],
           lxc_cmd_serve_state_clients_callback(h, req[c])
    PROVE  IInv'
<1>0. PICK s : s = req[c].state
  BY ZenonT(60)
<1>1. /\ TypeOK /\ MonOK(mon) /\ Takes(h, c) /\ req[c].cmd = "SERVE_STATE_CLIENTS" /\ s \in State
      /\ mon' = Reap(Serve(Fired(h), s), h, "ok", req[c].cmd)
      /\ hstate' = Announced(s) /\ thawed' = (s = "THAWED") /\ See({s, Announced(s)})
      /\ Phases /\ NoMissedState
  BY ZenonT(60), <1>0, ProcessEffect, ConcernOf DEF IInv, TypeOK, ClientOK, lxc_cmd_serve_state_clients_callback
<1>2. /\ "ok" \in Msg /\ "ok" # MAX_STATE /\ "ok" \notin State /\ {s, Announced(s)} \in SUBSET State
      /\ c # NoConn /\ req[c].cmd \notin {"ADD_STATE_CLIENT", "STOP"}
  BY ZenonT(60), <1>1, ConnAssumption DEF Msg, State, MAX_STATE, Announced
<1>3. /\ seen' \in [Conn -> SUBSET State]
      /\ \A d \in Conn : /\ seen[d] \subseteq seen'[d]
                         /\ Calling(d) => {s, Announced(s)} \cap Concern(req[d]) \subseteq seen'[d]
  BY ZenonT(60), <1>1, <1>2, SeeEffect DEF TypeOK
<1>4. SameBut(mon, Fired(h)) /\ MonOK(Fired(h)) /\ Fired(h).list = mon.list
  BY ZenonT(60), <1>1, FiredEffect DEF SameBut
<1> DEFINE n == Serve(Fired(h), s)
<1>5. MonOK(n) /\ n.list = {e \in mon.list : s \notin e.states}
  <2>1. PICK m : m = Fired(h)
    BY ZenonT(60)
  <2>2. MonOK(m) /\ m.list = mon.list
    BY ZenonT(60), <1>4, <2>1
  <2>3. LET k == Serve(m, s) IN
        /\ MonOK(k) /\ k.tty = m.tty
        /\ k.list = {e \in m.list : s \notin e.states}
        /\ k.fd = [f \in Fd |-> IF f \in Asked(m, s) THEN NoConn ELSE m.fd[f]]
        /\ k.out = [d \in Conn |-> IF \E f \in Asked(m, s) : m.fd[f] = d /\ ~Hungup(m, f)
                                   THEN Append(m.out[d], s) ELSE m.out[d]]
    BY ZenonT(60), <1>1, <2>2, ServeEffect
  <2> QED
    BY ZenonT(60), <2>1, <2>2, <2>3
<1>6. mon' = Reap(n, h, "ok", req[c].cmd)
  BY ZenonT(60), <1>1
<1>7. ~orphan => /\ n.tty = mon.tty
                 /\ \A f \in Fd : n.fd[f] \in {mon.fd[f], NoConn}
                 /\ \A f \in Fd : n.fd[f] # mon.fd[f] => \E e \in mon.list : e.fd = f
                 /\ \A e \in n.list : n.fd[e.fd] = mon.fd[e.fd]
                 /\ \A t \in Tty : mon.tty[t] # Free => n.fd[mon.tty[t]] = mon.fd[mon.tty[t]]
  <2> SUFFICES ASSUME ~orphan
               PROVE  /\ n.tty = mon.tty
                      /\ \A f \in Fd : n.fd[f] \in {mon.fd[f], NoConn}
                      /\ \A f \in Fd : n.fd[f] # mon.fd[f] => \E e \in mon.list : e.fd = f
                      /\ \A e \in n.list : n.fd[e.fd] = mon.fd[e.fd]
                      /\ \A t \in Tty : mon.tty[t] # Free => n.fd[mon.tty[t]] = mon.fd[mon.tty[t]]
    BY ZenonT(60)
  <2>1. Entries /\ Ttys /\ TypeOK /\ s \in State /\ SameBut(mon, Fired(h))
    BY ZenonT(60), <1>1, <1>4 DEF IInv, Orderly
  <2> QED
    BY ONLY SMTT(60), <2>1, ServeTables
<1>8. ~orphan => \A d \in Conn :
        \/ /\ n.out[d] = mon.out[d]
           /\ (\E f \in Fd : n.fd[f] = d) <=> InFd(d)
           /\ (\E e \in n.list : e.conn = d) <=> Listed(d)
        \/ /\ n.out[d] = IF cpc[d] = "done" THEN mon.out[d] ELSE Append(mon.out[d], s)
           /\ ~Fresh(d) /\ req[d].cmd = "ADD_STATE_CLIENT" /\ s \in req[d].states
  BY ZenonT(60), <1>1, <1>4, ServeConnection DEF IInv, Orderly
<1> HIDE DEF n
<1>9. /\ MonOK(mon') /\ mon'.list = n.list
      /\ mon'.out = IF Hungup(n, h.fd) THEN n.out ELSE [n.out EXCEPT ![n.fd[h.fd]] = Append(@, "ok")]
      /\ \/ mon'.fd = n.fd /\ mon'.tty = n.tty
         \/ /\ mon'.fd = [n.fd EXCEPT ![h.fd] = NoConn]
            /\ mon'.tty = [t \in Tty |-> IF n.tty[t] = h.fd THEN Free ELSE n.tty[t]]
  <2>1. req[c].cmd # "ADD_STATE_CLIENT"
    BY ZenonT(60), <1>2
  <2>2. Reaps(n, mon', h.fd, "ok")
    BY ZenonT(60), <1>2, <1>5, <1>6, <2>1, ReapEffect
  <2> QED
    BY ZenonT(60), <2>2 DEF Reaps
<1>10. TypeOK'
  <2>1. LoopOK'
    BY ZenonT(60), <1>1, <1>2 DEF Takes, TypeOK, LoopOK
  <2> QED
    BY ZenonT(60), <1>1, <1>3, <1>9, <2>1 DEF Takes, TypeOK, ClientOK
<1>11. Phases' /\ NoMissedState'
  BY ZenonT(60), <1>1, <1>5, <1>9 DEF Takes, Phases, NoMissedState, Announced
<1>12. ASSUME ~orphan' PROVE Orderly'
  <2>1. Orderly /\ ~orphan
    BY ZenonT(60), <1>1, <1>12 DEF IInv, Takes
  <2>2. Fresh(c) /\ Accepted(c) /\ Own(c)
    BY ZenonT(60), <1>1, <2>1 DEF Orderly, Takes, Fresh, Accepted, Connections
  <2>3. (\A e \in mon.list : e.fd # h.fd /\ e.conn # c) /\ (\A t \in Tty : mon.tty[t] # Free => mon.tty[t] # h.fd)
    BY ZenonT(60), <2>1, <2>2 DEF Orderly, Entries, Ttys
  <2>4. n.fd[h.fd] = c /\ (Hungup(n, h.fd) <=> cpc[c] = "done")
    BY ZenonT(60), <1>2, <1>7, <2>1, <2>3 DEF Hungup
  <2>5. /\ \A d \in Conn \ {c} : mon'.out[d] = n.out[d]
        /\ mon'.out[c] = IF cpc[c] = "done" THEN n.out[c] ELSE Append(n.out[c], "ok")
        /\ \A f \in Fd : mon'.fd[f] = n.fd[f] \/ (f = h.fd /\ mon'.fd[f] = NoConn)
    BY ONLY SMTT(60), <1>5, <1>9, <2>4 DEF MonOK
  <2>6. \A d \in Conn : Accepted(d)' = Accepted(d) /\ (Fresh(d)' => Fresh(d))
    BY ZenonT(60), <1>1 DEF Takes, Accepted, Fresh, TypeOK, ClientOK
  <2>7. Connections' /\ Entries' /\ Ttys'
    <3>1. mon'.list \subseteq mon.list /\ \A e \in mon'.list : mon'.fd[e.fd] = mon.fd[e.fd]
      <4>1. mon'.list \subseteq mon.list
        BY ZenonT(60), <1>5, <1>9
      <4>2. \A e \in mon'.list : e.fd \in Fd /\ e.fd # h.fd /\ n.fd[e.fd] = mon.fd[e.fd]
        BY ZenonT(60), <1>7, <1>9, <2>1, <2>3, <4>1 DEF Orderly, Entries
      <4> QED
        BY ZenonT(60), <2>5, <4>1, <4>2
    <3>2. \A t \in Tty : mon'.tty[t] # Free => mon'.tty[t] = mon.tty[t] /\ mon'.fd[mon.tty[t]] = mon.fd[mon.tty[t]]
      <4>1. TAKE t \in Tty
      <4>2. mon'.tty[t] # Free => mon'.tty[t] = mon.tty[t]
        <5>1. n.tty = mon.tty
          BY ZenonT(60), <1>7, <2>1
        <5>2. \/ mon'.tty = n.tty
              \/ mon'.tty = [u \in Tty |-> IF n.tty[u] = h.fd THEN Free ELSE n.tty[u]]
          BY ZenonT(60), <1>9
        <5> QED
          BY ONLY ZenonT(60), <5>1, <5>2, t \in Tty
      <4>3. mon.tty[t] # Free => mon.tty[t] \in Fd
        BY ZenonT(60), <1>1 DEF MonOK
      <4> QED
        BY ZenonT(60), <1>7, <2>1, <2>3, <2>5, <4>2, <4>3
    <3>3. \A f \in Fd : mon'.fd[f] \in {mon.fd[f], NoConn}
      BY ZenonT(60), <1>7, <2>1, <2>5
    <3>4. Shrinks
      BY ZenonT(60), <1>1, <2>6, <3>1, <3>2, <3>3 DEF Shrinks, Takes
    <3> QED
      BY ZenonT(60), <1>1, <2>1, <3>4, ShrinksKeeps DEF Orderly
  <2>8. ASSUME NEW d \in Conn PROVE Stays(d)
    BY ZenonT(60), <1>1, <1>3 DEF Stays, Takes
  <2>9. ASSUME NEW d \in Conn, d # c PROVE Own(d)'
    <3>1. InFd(d)' <=> \E f \in Fd : n.fd[f] = d
      BY ZenonT(60), <2>4, <2>5, <2>9, ConnAssumption DEF InFd
    <3>2. Listed(d)' <=> \E e \in n.list : e.conn = d
      BY ZenonT(60), <1>9 DEF Listed
    <3>3. req[d].cmd = "ADD_STATE_CLIENT" /\ s \in req[d].states => s \in Concern(req[d])
      BY ZenonT(60), <1>1, ConcernOf DEF TypeOK, ClientOK
    <3>4. unread'[d] = unread[d] /\ mon'.out[d] = n.out[d]
      BY ZenonT(60), <1>1, <2>5, <2>9 DEF Takes, TypeOK, ClientOK
    <3>5. Announces(d, s)
      <4>1. Stays(d) /\ Accepted(d)' = Accepted(d) /\ unread'[d] = unread[d]
        BY ZenonT(60), <2>6, <2>8, <3>4
      <4>2. CASE /\ n.out[d] = mon.out[d]
                 /\ (\E f \in Fd : n.fd[f] = d) <=> InFd(d)
                 /\ (\E e \in n.list : e.conn = d) <=> Listed(d)
        <5>1. InFd(d)' <=> InFd(d)
          BY ZenonT(60), <3>1, <4>2
        <5>2. Listed(d)' <=> Listed(d)
          BY ZenonT(60), <3>2, <4>2
        <5> QED
          BY ZenonT(60), <3>4, <4>1, <4>2, <5>1, <5>2 DEF Announces, InFd, Listed
      <4>3. CASE /\ n.out[d] = IF cpc[d] = "done" THEN mon.out[d] ELSE Append(mon.out[d], s)
                 /\ ~Fresh(d) /\ req[d].cmd = "ADD_STATE_CLIENT" /\ s \in req[d].states
        BY ZenonT(60), <1>3, <3>3, <3>4, <4>1, <4>3 DEF Announces
      <4> QED
        BY ZenonT(60), <1>8, <2>1, <4>2, <4>3
    <3> QED
      BY ZenonT(60), <1>1, <2>1, <3>5, AnnouncesKeeps DEF Orderly
  <2>10. Own(c)'
    <3>1. n.out[c] = mon.out[c]
      BY ZenonT(60), <1>8, <2>1, <2>2
    <3>2. Right(c, "ok")'
      BY ZenonT(60), <1>1, <1>2 DEF Right, Takes
    <3>3. unread[c] /\ ~unread'[c]
      BY ZenonT(60), <1>1 DEF Takes, TypeOK, ClientOK
    <3>4. Processes(c, "ok")
      BY ZenonT(60), <1>2, <2>2, <2>5, <2>6, <2>8, <3>1, <3>2, <3>3 DEF Processes
    <3> QED
      BY ZenonT(60), <1>1, <1>2, <2>2, <3>4, ProcessesKeeps
  <2> QED
    BY ZenonT(60), <2>7, <2>9, <2>10 DEF Orderly
<1> QED
  BY ZenonT(60), <1>10, <1>11, <1>12 DEF IInv

-----------------------------------------------------------------------------
(* The theorems                                                            *)

\* Every step keeps the invariant.
LEMMA NextStep == IInv /\ [Next]_vars => IInv'
<1> SUFFICES ASSUME IInv, [Next]_vars PROVE IInv'
  OBVIOUS
<1>1. CASE Start
  BY ZenonT(60), <1>1, StartRunningStep, StartFailsStep DEF Start
<1>2. CASE Loop
  BY ZenonT(60), <1>2, EpollWaitStep, AcceptStep, AcceptFailsStep, SignalStep DEF Loop
<1>3. CASE End
  BY ZenonT(60), <1>3, EndStoppingStep, EndStoppedStep, EndClientsStep, RestartStep, ExitStep DEF End
<1>4. CASE InitDies
  BY ZenonT(60), <1>4, InitDiesStep
<1>5. ASSUME NEW c \in Conn, lxc_cmd_handler(c) PROVE IInv'
  <2>1. PICK h \in mon.reg \cup batch \cup {blocked} :
          /\ h.owner = c
          /\ Disconnect(h) \/ Blocks(h) \/ \E d \in Conn : d = mon.fd[h.fd] /\ Callback(h, req[d])
    BY ZenonT(60), <1>5 DEF lxc_cmd_handler
  <2>2. h \in Handler /\ h.fd \in Fd
    BY ZenonT(60), <2>1, HandlerTyped DEF IInv
  <2>3. CASE Disconnect(h)
    BY ZenonT(60), <2>2, <2>3, DisconnectStep
  <2>4. CASE Blocks(h)
    BY ZenonT(60), <2>2, <2>4, BlocksStep
  <2>5. CASE \E d \in Conn : d = mon.fd[h.fd] /\ Callback(h, req[d])
    <3>1. PICK d \in Conn : d = mon.fd[h.fd] /\ Callback(h, req[d])
      BY ZenonT(60), <2>5
    <3> QED
      BY ZenonT(60), <2>2, <3>1, GetStateStep, AddStateClientStep, StopStep, ServeStateClientsStep, GetTtyStep DEF Callback
  <2> QED
    BY ZenonT(60), <2>1, <2>3, <2>4, <2>5
<1>6. ASSUME NEW c \in Conn, Caller(c) PROVE IInv'
  BY ZenonT(60), <1>6, ConnectStep, SendRequestStep, ResponseStep, NoResponseStep, RcvStateStep DEF Caller
<1>7. ASSUME NEW c \in Conn, Leave(c) PROVE IInv'
  BY ZenonT(60), <1>7, LeaveStep
<1>8. CASE UNCHANGED vars
  <2>1. /\ UNCHANGED <<client, backlog, mon, batch, blocked, life, seen, since, orphan>>
        /\ UNCHANGED <<listening, phase, hstate, alive, killed, reboot, runs, thawed>>
    BY ZenonT(60), <1>8 DEF vars, loop, life
  <2>2. LoopOK' /\ Phases' /\ SameBut(mon, mon')
    BY ZenonT(60), <2>1 DEF IInv, TypeOK, LoopOK, Phases, SameBut
  <2> QED
    BY ZenonT(60), <2>1, <2>2, QuietKeeps
<1> QED
  BY ZenonT(60), <1>1, <1>2, <1>3, <1>4, <1>5, <1>6, <1>7, <1>8 DEF Next

\* The invariant holds before the first start.
LEMMA InitHolds == Init => IInv
<1> SUFFICES ASSUME Init PROVE IInv
  BY ZenonT(60)
<1>1. /\ mon = [x \in {"fd", "reg", "out", "list", "tty", "uring"} |-> mon[x]]
      /\ mon.fd = [f \in Fd |-> NoConn] /\ mon.reg = {} /\ mon.out = [c \in Conn |-> <<>>]
      /\ mon.list = {} /\ mon.tty = [t \in Tty |-> Free] /\ mon.uring \in BOOLEAN
  BY ZenonT(60), MaxRunsAssumption DEF Init
<1>2. ClientOK
  <2>1. [how |-> "none", val |-> "none"] \in Answer
    BY ZenonT(60) DEF Answer
  <2> QED
    BY ZenonT(60), <2>1, AskAssumption DEF Init, ClientOK, Place
<1>3. MonOK(mon)
  <2>1. [c \in Conn |-> <<>>] \in [Conn -> Seq(Msg)]
    OBVIOUS
  <2>2. [f \in Fd |-> NoConn] \in [Fd -> Conn \cup {NoConn}] /\ [t \in Tty |-> Free] \in [Tty -> Fd \cup {Free}]
    OBVIOUS
  <2> QED
    BY ONLY ZenonT(60), <1>1, <2>1, <2>2 DEF MonOK
<1>4. LoopOK
  <2>1. backlog \in Seq(Conn)
    BY SMTT(60) DEF Init
  <2>2. phase \in Phase /\ hstate \in State /\ runs \in Nat /\ reboot \in {"NONE", "REQ", "INIT"}
    BY ZenonT(60) DEF Init, Phase, State
  <2>3. alive \in BOOLEAN /\ listening \in BOOLEAN
    BY ZenonT(60) DEF Init
  <2>4. batch \subseteq Handler \cup {Accept, Signal} /\ blocked \in Handler \cup {NoHandler}
    BY ZenonT(60) DEF Init
  <2> QED
    BY ZenonT(60), <2>1, <2>2, <2>3, <2>4 DEF LoopOK
<1>5. Phases /\ NoMissedState
  <2>1. ~alive /\ listening /\ batch = {} /\ phase = "start"
    BY ZenonT(60) DEF Init
  <2> QED
    BY ZenonT(60), <1>1, <2>1 DEF Phases, NoMissedState
<1>6. Connections /\ Entries /\ Ttys
  BY SMTT(60), <1>1, ConnAssumption DEF Init, Connections, Entries, Ttys
<1>7. ASSUME NEW c \in Conn PROVE Own(c)
  <2>1. /\ cpc[c] = "idle" /\ ~unread[c] /\ ans[c].val = "none" /\ mon.out[c] = <<>> /\ since[c] = 0 /\ runs = 0
        /\ Accepted(c) /\ ~InFd(c)
    BY SMTT(60), <1>1, ConnAssumption DEF Init, Accepted, InFd
  <2> QED
    BY ONLY SMTT(60), <2>1 DEF Own, Begins, StateSeen, Calling, Messages, Closed, Waiting, Promised, Answers, State
<1> QED
  BY ZenonT(60), <1>2, <1>3, <1>4, <1>5, <1>6, <1>7 DEF IInv, TypeOK, Orderly

\* In every run of the command server, with any number of callers and reboots, the
\* types hold, nobody in the list has missed its state, and as long as no entry of
\* the list has outlived its connection the tables are in order and no caller
\* waits in vain or is misled.
THEOREM CommandSafe == Spec => []IInv
<1>1. IInv /\ [Next]_vars => IInv'
  BY ZenonT(60), NextStep
<1> QED
  BY InitHolds, <1>1, PTL DEF Spec

\* lxc_add_state_client() and lxc_serve_state_clients(): nobody is left in the list
\* waiting for the state the container is in.
THEOREM CommandNoMissedState == Spec => []NoMissedState
<1>1. IInv => NoMissedState
  BY ZenonT(60) DEF IInv
<1> QED
  BY CommandSafe, <1>1, PTL

\* lxc_cmd_get_state(), lxc_cmd_sock_get_state() and lxc_cmd_stop(): what a caller
\* is answered is true, or was since it called.
THEOREM CommandAnswersTrue == Spec => []AnswersTrue
<1>1. IInv => AnswersTrue
  BY ZenonT(60) DEF IInv, Orderly, Own, Answers, AnswersTrue, AnswerTrue, StopVerdict
<1> QED
  BY CommandSafe, <1>1, PTL

\* lxc_cmd_get_tty_fd_callback() and lxc_cmd_cleanup_handler(): a busy tty is of one
\* open connection that has asked for it.
THEOREM CommandTtyOwned == Spec => []TtyOwned
<1>1. IInv => TtyOwned
  BY ZenonT(60), ConnAssumption DEF IInv, Orderly, Ttys, TtyOwned
<1> QED
  BY CommandSafe, <1>1, PTL

=============================================================================
