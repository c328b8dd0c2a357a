------------------------------ MODULE Terminal ------------------------------
(***************************************************************************)
(* The console of a container (terminal.c): the monitor's side of it, the  *)
(* people who sit at it, and what is kept of its output.                   *)
(*                                                                         *)
(* The monitor holds the console's ptx and passes bytes between it and a   *)
(* peer: its own terminal (lxc.console.path or /dev/tty), or a proxy that  *)
(* a client got over the command socket.  It serves everything from one    *)
(* loop: epoll_wait() returns a batch of events, in any order, and the     *)
(* handlers of the batch run one after the other.  A read from a signalfd  *)
(* blocks when the signal has been taken by another signalfd meanwhile.    *)
(*                                                                         *)
(* A client is a process in lxc_console(): it asks for the console (0) or  *)
(* a tty, and copies what is typed to it until the escape character and q. *)
(*                                                                         *)
(* Output bytes are numbered in the order the container writes them; what  *)
(* is typed is ESC, "q" or "x".                                            *)
(***************************************************************************)
EXTENDS Integers, Sequences, FiniteSets, Functions

CONSTANTS
    Client,     \* the processes that run lxc-console
    Setups,     \* the configurations of the console, each with the clients who may come
                \* and what is typed, how many bytes the container may write, and which signals may be
                \* sent to the monitor, each once at most
    Chunk,      \* bytes read at once (LXC_TERMINAL_BUFFER_SIZE), and that a proxy holds
    MaxFaults   \* system calls that fail

NoOne == "no one"
\* The handlers of the monitor that are not a client's.
Fixed == {"sigfd", "term", "ptx", "peer", "stale term", "stale peer"}
ASSUME ClientAssumption == Client \cap ({NoOne, "tty"} \cup Fixed) = {}
\* Clients are finitely many: so is what a batch of events can hold.
ASSUME BatchAssumption == \A S \in SUBSET (Client \cup Fixed) : Cardinality(S) \in Nat
ASSUME SetupsAssumption == \A s \in Setups :
    /\ s.ring \in Nat /\ s.size \in Nat /\ s.out \in Nat /\ s.have \in Seq(Nat)
    /\ {s.want, s.own, s.log, s.rotate, s.path, s.tty.there, s.tty.isatty} \subseteq BOOLEAN
    /\ s.types \subseteq Seq(STRING) /\ s.who \subseteq Client
ASSUME ChunkAssumption == Chunk \in Nat \ {0}

VARIABLES
    cfg,    \* the configuration
    con,    \* the console's struct lxc_terminal in the monitor
    mon,    \* the monitor: [pc, ev: the batch, reg: armed handlers, died: init_died]
    init,   \* the container's init runs
    pend,   \* signals pending for the monitor
    sent,   \* signals sent so far
    cli,    \* the clients
    q,      \* bytes under way
    got,    \* what reached the container, by who typed it
    log,    \* the log file, what was rotated away, and how it began
    user,   \* the monitor's own terminal: [raw, typed, seen, size, copied]
    faults

vars == <<cfg, con, mon, init, pend, sent, cli, q, got, log, user, faults>>

ESC == "a"

Console0 == [ptx |-> FALSE, peer |-> "no", busy |-> NoOne, sig |-> "no", tios |-> FALSE,
             log |-> FALSE, ring |-> <<>>, tty |-> NoOne]

Client0 == [pc |-> "idle", want |-> 0, conn |-> "no", fd |-> "no", typed |-> <<>>, i |-> 0,
            saw |-> FALSE, raw |-> FALSE, term |-> FALSE, seen |-> <<>>]

Init ==
    /\ cfg \in Setups
    /\ con = Console0
    /\ mon = [pc |-> "init", ev |-> <<>>, reg |-> {}, died |-> FALSE, why |-> "no"]
    /\ init = TRUE /\ pend = {} /\ sent = {}
    /\ cli = [c \in Client |-> Client0]
    /\ q = [out |-> <<>>, n |-> 0, pin |-> <<>>, pout |-> <<>>, uin |-> <<>>]
    /\ got = [p \in Client \cup {"tty"} |-> <<>>]
    /\ log = [cur |-> cfg.have, old |-> <<>>, read |-> <<>>]
    /\ user = [raw |-> FALSE, typed |-> <<>>, seen |-> <<>>, size |-> 0, copied |-> 0, hup |-> FALSE]
    /\ faults = 0

MinOf(a, b) == IF a < b THEN a ELSE b
\* The last n of s.
Latest(s, n) == SubSeq(s, Len(s) - MinOf(Len(s), n) + 1, Len(s))

Fault == faults < MaxFaults /\ faults' = faults + 1
NoFault == faults' = faults

Becomes(c, r) == cli' = [cli EXCEPT ![c] = r]

-----------------------------------------------------------------------------
(* The log file and the ring buffer *)

\* The full file becomes log.1, and a new one is begun; or it cannot be renamed
\* and there is no log any more.
lxc_terminal_rotate_log_file(l, s, ok) == IF ok THEN [l EXCEPT !.old = l.cur, !.cur = s] ELSE l

\* Writing s needs a new log file.
Rotates(l, s) == cfg.rotate /\ cfg.size > 0 /\ Len(l.cur) <= cfg.size /\ Len(l.cur) + Len(s) > cfg.size

\* A write of s to the log.  When the file has no room for all of s, what is
\* left to write after it is full is taken from the start of the buffer.
lxc_terminal_write_log_file(l, s, ok) ==
    LET left == cfg.size - Len(l.cur)
        full == [l EXCEPT !.cur = @ \o SubSeq(s, 1, left)]
        rest == SubSeq(s, 1, MinOf(Len(s) - left, cfg.size))
    IN  IF cfg.size = 0 THEN [l EXCEPT !.cur = @ \o s]
        ELSE IF left <= 0 /\ ~cfg.rotate THEN [l EXCEPT !.cur = SubSeq(s, 1, MinOf(Len(s), cfg.size))]
        ELSE IF Len(s) <= left THEN [l EXCEPT !.cur = @ \o s]
        ELSE IF left < 0 THEN l
        ELSE IF cfg.rotate THEN lxc_terminal_rotate_log_file(full, rest, ok)
        ELSE [l EXCEPT !.cur = rest]

\* The ring buffer keeps the last bytes (RingBuf.tla has the details).
RingWrite(r, s) == Latest(r \o s, cfg.ring)

\* Mutant: the log is not truncated first.
lxc_terminal_write_ringbuffer_more(t, l) ==
    IF ~t.log \/ t.ring = <<>> THEN l ELSE [l EXCEPT !.cur = @ \o t.ring]

\* The ring buffer replaces what the log has, as far as the limit allows.
lxc_terminal_write_ringbuffer(t, l) ==
    IF ~t.log \/ t.ring = <<>> THEN l
    ELSE [l EXCEPT !.cur = SubSeq(t.ring, 1, MinOf(Len(t.ring), cfg.size))]

\* Mutant: the terminal is closed without its old settings.
lxc_terminal_delete_raw ==
    /\ con' = [con EXCEPT !.tios = FALSE, !.peer = "no", !.ptx = FALSE, !.log = FALSE]
    /\ log' = lxc_terminal_write_ringbuffer(con, log)
    /\ UNCHANGED user

lxc_terminal_delete ==
    /\ con' = [con EXCEPT !.tios = FALSE, !.peer = "no", !.ptx = FALSE, !.log = FALSE]
    /\ log' = lxc_terminal_write_ringbuffer(con, log)
    /\ user' = [user EXCEPT !.raw = @ /\ ~(con.tios /\ con.peer # "no")]

-----------------------------------------------------------------------------
(* Setting the console up *)

\* The console comes from the host's devpts, before the container is spawned.
lxc_terminal_parent ==
    /\ mon.pc = "init"
    /\ \/ NoFault /\ con' = [con EXCEPT !.ptx = cfg.want /\ ~cfg.own]
          /\ mon' = [mon EXCEPT !.pc = "spawn"]
       \/ Fault /\ cfg.want /\ ~cfg.own /\ mon' = [mon EXCEPT !.pc = "gone"] /\ UNCHANGED con
    /\ UNCHANGED <<cfg, init, pend, sent, cli, q, got, log, user>>

\* Or from the container's, and its init sends it.
lxc_recv_console_from_child ==
    /\ mon.pc = "spawn"
    /\ \/ NoFault /\ con' = [con EXCEPT !.ptx = cfg.want] /\ mon' = [mon EXCEPT !.pc = "setup"]
       \/ Fault /\ cfg.want /\ cfg.own /\ mon' = [mon EXCEPT !.pc = "end"] /\ UNCHANGED con
    /\ UNCHANGED <<cfg, init, pend, sent, cli, q, got, log, user>>

\* The console's state [t, u: the monitor's terminal, ok, fault] after a peer
\* was looked for: a terminal that was asked for must be there; /dev/tty need not.
lxc_terminal_peer_default(t, u) ==
    LET done == [t |-> t, u |-> u, ok |-> TRUE, fault |-> FALSE]
        bad == [done EXCEPT !.ok = FALSE]
        sig == [t EXCEPT !.sig = "tty"]
    IN  IF ~cfg.tty.there THEN {IF cfg.path THEN bad ELSE done}
        ELSE IF ~cfg.tty.isatty THEN {bad}
        ELSE {[bad EXCEPT !.fault = TRUE],
              [bad EXCEPT !.fault = TRUE, !.t = sig, !.u.copied = u.size],
              [done EXCEPT !.t = [sig EXCEPT !.peer = "tty", !.tios = TRUE],
                           !.u.copied = u.size, !.u.raw = TRUE]}

\* The peer, the log file and the ring buffer; what was there is given up when
\* one of them fails.
lxc_terminal_setup ==
    /\ mon.pc = "setup"
    /\ \/ ~cfg.want /\ NoFault /\ mon' = [mon EXCEPT !.pc = "poll"] /\ UNCHANGED <<con, user>>
       \/ cfg.want /\ \E r \in lxc_terminal_peer_default(con, user) :
            /\ IF r.fault THEN Fault ELSE NoFault
            /\ IF r.ok THEN con' = [r.t EXCEPT !.log = cfg.log] /\ user' = r.u
               ELSE con' = [r.t EXCEPT !.ptx = FALSE] /\ user' = r.u
            /\ mon' = [mon EXCEPT !.pc = IF r.ok THEN "poll" ELSE "end"]
       \/ cfg.want /\ (cfg.log \/ cfg.ring > 0) /\ Fault
          /\ \E r \in lxc_terminal_peer_default(con, user) :
                /\ r.ok /\ ~r.fault
                /\ con' = [r.t EXCEPT !.ptx = FALSE, !.peer = "no", !.tios = FALSE]
                /\ user' = [r.u EXCEPT !.raw = FALSE]
          /\ mon' = [mon EXCEPT !.pc = "end"]
    /\ UNCHANGED <<cfg, init, pend, sent, cli, q, got, log>>

\* The handlers of a terminal: its ptx, its peer and its signals.
Handlers(t) == (IF t.ptx THEN {"ptx"} ELSE {}) \cup (IF t.ptx /\ t.peer # "no" THEN {"peer"} ELSE {})
               \cup (IF t.ptx /\ t.sig # "no" THEN {"term"} ELSE {})

\* Handlers for the signals, the commands and the console.
lxc_poll ==
    /\ mon.pc = "poll"
    /\ \/ NoFault /\ mon' = [mon EXCEPT !.pc = "loop", !.reg = {"sigfd"} \cup Handlers(con)]
       \/ Fault /\ mon' = [mon EXCEPT !.pc = "end"]
    /\ UNCHANGED <<cfg, con, init, pend, sent, cli, q, got, log, user>>

\* Mutant: no last look.
LeaveLoop_now(ret, died, why) ==
    mon' = [mon EXCEPT !.pc = "end", !.ev = <<>>, !.reg = {}, !.died = died, !.why = why]

\* The loop is left for good, or for one last look at the console when init
\* has died; the connections of the clients stay as they are.
LeaveLoop(ret, died, why) ==
    mon' = IF ret = "close" /\ died /\ mon.pc = "loop"
           THEN [mon EXCEPT !.pc = "drain", !.ev = <<>>, !.reg = Handlers(con), !.died = TRUE, !.why = why]
           ELSE [mon EXCEPT !.pc = "end", !.ev = <<>>, !.reg = {}, !.died = died,
                            !.why = IF mon.pc = "drain" /\ mon.why = "init" THEN "cut" ELSE why]

-----------------------------------------------------------------------------
(* The loop *)

SigFd == <<"HUP", "TERM", "CHLD">>
TermFd == <<"TERM", "WINCH">>
First(fd) == Head(SelectSeq(fd, LAMBDA x : x \in pend))
Waiting(fd) == Range(fd) \cap pend # {}

Ready(h) ==
    CASE h = "sigfd" -> Waiting(SigFd)
      [] h = "term" -> Waiting(TermFd)
      [] h = "ptx" -> q.out # <<>>
      [] h = "peer" -> IF con.peer = "tty" THEN q.uin # <<>> \/ user.hup ELSE q.pin # <<>>
      [] OTHER -> cli[h].conn \in {"request", "closed"}

InLoop == mon.pc \in {"loop", "drain"}
Turn(h) == InLoop /\ mon.ev # <<>> /\ Head(mon.ev) = h
Next1 == mon' = [mon EXCEPT !.ev = Tail(@)]

\* epoll_wait(): all that is ready, in some order.  The last look at the
\* console does not wait.
__lxc_mainloop_epoll ==
    /\ InLoop /\ mon.ev = <<>>
    /\ LET ready == {h \in mon.reg : Ready(h)}
       IN  \/ ready # {} /\ \E ev \in Injection(1 .. Cardinality(ready), ready) : mon' = [mon EXCEPT !.ev = ev]
           \/ ready = {} /\ mon.pc = "drain" /\ mon' = [mon EXCEPT !.pc = "end", !.reg = {}]
    /\ UNCHANGED <<cfg, con, init, pend, sent, cli, q, got, log, user, faults>>

\* A signal of the monitor's own: passed on to init, or init is dead.
signal_handler ==
    /\ Turn("sigfd") /\ Waiting(SigFd)
    /\ pend' = pend \ {First(SigFd)}
    /\ IF init THEN Next1 ELSE LeaveLoop("close", TRUE, "init")
    /\ UNCHANGED <<cfg, con, init, sent, cli, q, got, log, user, faults>>

\* The size of the monitor's terminal becomes the console's.
lxc_terminal_winch == user' = [user EXCEPT !.copied = IF con.sig = "tty" THEN user.size ELSE @]

\* A signal for the terminal.  The read blocks if there is none any more.
lxc_terminal_signalfd_cb ==
    /\ Turn("term") /\ Waiting(TermFd)
    /\ pend' = pend \ {First(TermFd)}
    /\ IF First(TermFd) = "TERM" THEN LeaveLoop("close", mon.died, "term") /\ UNCHANGED user
       ELSE Next1 /\ lxc_terminal_winch
    /\ UNCHANGED <<cfg, con, init, sent, cli, q, got, log, faults>>

\* Output of the container goes to the peer, as much as its terminal takes,
\* to the ring buffer, and to the log.
lxc_terminal_ptx_io(n, ok) ==
    LET s == SubSeq(q.out, 1, n)
    IN  /\ ok \/ (con.log /\ Rotates(log, s))
        /\ q' = [q EXCEPT !.out = SubSeq(@, n + 1, Len(@)),
                          !.pout = IF con.peer = "proxy" THEN SubSeq(@ \o s, 1, MinOf(Len(@ \o s), Chunk)) ELSE @]
        /\ user' = [user EXCEPT !.seen = IF con.peer = "tty" THEN @ \o s ELSE @]
        /\ con' = [con EXCEPT !.ring = RingWrite(@, s), !.log = @ /\ ok]
        /\ log' = [IF con.log THEN lxc_terminal_write_log_file(log, s, ok) ELSE log
                      EXCEPT !.read = @ \o s]

lxc_terminal_ptx_io_handler ==
    /\ Turn("ptx") /\ Next1
    /\ \E n \in 1 .. MinOf(Len(q.out), Chunk), ok \in BOOLEAN :
          (IF ok THEN NoFault ELSE Fault) /\ lxc_terminal_ptx_io(n, ok)
    /\ UNCHANGED <<cfg, init, pend, sent, cli, got>>

\* Input from the peer.  The end of it ends the loop.
lxc_terminal_peer_io_handler ==
    /\ Turn("peer")
    /\ IF con.peer = "tty" /\ q.uin = <<>>
       THEN LeaveLoop("close", mon.died, "hup") /\ UNCHANGED <<q, got>>
       ELSE /\ Next1
            /\ IF con.peer = "tty"
               THEN got' = [got EXCEPT !["tty"] = @ \o q.uin] /\ q' = [q EXCEPT !.uin = <<>>]
               ELSE got' = [got EXCEPT ![con.busy] = @ \o q.pin] /\ q' = [q EXCEPT !.pin = <<>>]
    /\ UNCHANGED <<cfg, con, init, pend, sent, cli, log, user, faults>>

\* An event of a proxy that was freed in the same batch: the handler's memory
\* is gone, or holds another handler; the signalfd's number is closed or
\* belongs to another proxy.
StaleEvent ==
    /\ \/ Turn("stale peer") /\ \/ Next1 \/ LeaveLoop("close", mon.died, "stale")
                                \/ mon' = [mon EXCEPT !.pc = "gone", !.ev = <<>>, !.reg = {}, !.why = "crash"]
       \/ Turn("stale term") /\ (Next1 \/ LeaveLoop("error", mon.died, "stale"))
    /\ UNCHANGED <<cfg, con, init, pend, sent, cli, q, got, log, user, faults>>

-----------------------------------------------------------------------------
(* The command socket *)

\* Mutant: the console is given out again.
lxc_terminal_available_again(c) == IF cli[c].want = 0 THEN con.ptx ELSE cfg.ttys > 0 /\ con.tty = NoOne

\* The console is given out once, and not while the monitor has a terminal of
\* its own for it; a tty once.
lxc_terminal_available(c) ==
    IF cli[c].want = 0 THEN con.ptx /\ con.busy = NoOne /\ con.peer = "no" /\ con.sig = "no"
    ELSE cfg.ttys > 0 /\ con.tty = NoOne

\* The proxy of the console and its handlers, or the tty.
lxc_terminal_allocate(c) ==
    IF cli[c].want = 0
    THEN /\ con' = [con EXCEPT !.peer = "proxy", !.busy = c, !.sig = "proxy"]
         /\ mon' = [mon EXCEPT !.ev = Tail(@), !.reg = @ \cup {"peer", "term"}]
    ELSE con' = [con EXCEPT !.tty = c] /\ Next1

\* An answer with a descriptor keeps the connection; a refusal, or an answer
\* that cannot be sent, closes it.
lxc_cmd_get_tty_fd_callback(c) ==
    /\ Turn(c) /\ cli[c].conn = "request"
    /\ \/ /\ lxc_terminal_available(c) /\ NoFault /\ lxc_terminal_allocate(c)
          /\ Becomes(c, [cli[c] EXCEPT !.conn = "open", !.fd = IF cli[c].want = 0 THEN "console" ELSE "tty"])
       \/ /\ IF lxc_terminal_available(c) THEN Fault ELSE NoFault
          /\ Becomes(c, [cli[c] EXCEPT !.conn = "refused"]) /\ UNCHANGED con
          /\ mon' = [mon EXCEPT !.ev = Tail(@), !.reg = @ \ {c}]
    /\ UNCHANGED <<cfg, init, pend, sent, q, got, log, user>>

\* Mutant: the terminal stays busy.
lxc_terminal_free_stays(c) ==
    /\ con' = con /\ q' = q
    /\ mon' = [mon EXCEPT !.ev = Tail(@), !.reg = @ \ {c}]

\* The proxy goes, with what is in it and its handlers; events of theirs that
\* were fetched before are still in the batch.
lxc_terminal_free(c) ==
    IF con.busy # c
    THEN /\ con' = [con EXCEPT !.tty = IF @ = c THEN NoOne ELSE @]
         /\ mon' = [mon EXCEPT !.ev = Tail(@), !.reg = @ \ {c}]
         /\ UNCHANGED q
    ELSE /\ con' = [con EXCEPT !.peer = "no", !.busy = NoOne, !.sig = "no"]
         /\ mon' = [mon EXCEPT !.reg = @ \ {c, "peer", "term"},
                               !.ev = [i \in 1 .. Len(@) - 1 |->
                                          CASE @[i + 1] = "peer" -> "stale peer"
                                            [] @[i + 1] = "term" -> "stale term"
                                            [] OTHER -> @[i + 1]]]
         /\ q' = [q EXCEPT !.pin = <<>>, !.pout = <<>>]

\* A client that is gone; one that went before its answer got nothing.
lxc_cmd_cleanup_handler(c) ==
    /\ Turn(c) /\ cli[c].conn = "closed"
    /\ lxc_terminal_free(c)
    /\ Becomes(c, [cli[c] EXCEPT !.conn = "no"])
    /\ UNCHANGED <<cfg, init, pend, sent, got, log, user, faults>>

-----------------------------------------------------------------------------
(* The end *)

lxc_end ==
    /\ mon.pc = "end"
    /\ lxc_terminal_delete
    /\ mon' = [mon EXCEPT !.pc = "gone"]
    /\ UNCHANGED <<cfg, init, pend, sent, cli, q, got, faults>>

-----------------------------------------------------------------------------
(* A client *)

\* What will be typed is decided when the session begins.
lxc_cmd_get_tty_fd(c) ==
    /\ cli[c].pc = "idle" /\ mon.pc = "loop" /\ c \in cfg.who
    /\ \E n \in {0, 1}, t \in cfg.types :
          Becomes(c, [cli[c] EXCEPT !.pc = "ask", !.want = n, !.conn = "request", !.typed = t])
    /\ mon' = [mon EXCEPT !.reg = @ \cup {c}]
    /\ UNCHANGED <<cfg, con, init, pend, sent, q, got, log, user, faults>>

\* The connection ends: the monitor will see it, if it is there.
Hangup(c, pc) ==
    Becomes(c, [cli[c] EXCEPT !.pc = pc, !.fd = "no",
                       !.conn = IF @ \in {"open", "request"} THEN "closed" ELSE "no"])

\* Signals and handlers are set up, then the settings of the user's terminal.
lxc_console_setup(c) ==
    /\ cli[c].pc = "ask"
    /\ \/ cli[c].conn = "open" /\ NoFault /\ Becomes(c, [cli[c] EXCEPT !.pc = "loop", !.raw = TRUE])
       \/ cli[c].conn = "open" /\ Fault /\ Hangup(c, "done")
       \/ (cli[c].conn = "refused" \/ (cli[c].conn = "request" /\ mon.pc = "gone"))
          /\ NoFault /\ Hangup(c, "done")
    /\ UNCHANGED <<cfg, con, mon, init, pend, sent, q, got, log, user>>

Written(c, x) ==
    IF cli[c].fd = "tty" THEN got' = [got EXCEPT ![c] = Append(@, x)] /\ UNCHANGED q
    ELSE q' = [q EXCEPT !.pin = IF con.busy = c THEN Append(@, x) ELSE @] /\ UNCHANGED got

\* The first escape character is kept back.
escape_kept(c, x) == x = ESC /\ ~cli[c].saw

\* A character is typed: q after an escape character ends the session,
\* anything that is not kept back is sent.
lxc_terminal_stdin_cb(c) ==
    LET x == cli[c].typed[cli[c].i + 1] IN
    /\ cli[c].pc = "loop" /\ cli[c].i < Len(cli[c].typed)
    /\ \/ /\ escape_kept(c, x)
          /\ Becomes(c, [cli[c] EXCEPT !.i = @ + 1, !.saw = TRUE]) /\ UNCHANGED <<q, got>>
       \/ /\ ~escape_kept(c, x) /\ x = "q" /\ cli[c].saw
          /\ Becomes(c, [cli[c] EXCEPT !.i = @ + 1, !.pc = "close"]) /\ UNCHANGED <<q, got>>
       \/ /\ ~escape_kept(c, x) /\ ~(x = "q" /\ cli[c].saw)
          /\ Becomes(c, [cli[c] EXCEPT !.i = @ + 1, !.saw = FALSE]) /\ Written(c, x)
    /\ UNCHANGED <<cfg, con, mon, init, pend, sent, log, user, faults>>

\* Output for the user, or the other side of the terminal is closed.
lxc_terminal_ptx_cb(c) ==
    /\ cli[c].pc = "loop"
    /\ \/ /\ cli[c].fd = "console" /\ con.busy = c /\ q.pout # <<>> /\ mon.pc # "gone"
          /\ Becomes(c, [cli[c] EXCEPT !.seen = @ \o q.pout]) /\ q' = [q EXCEPT !.pout = <<>>]
       \/ /\ IF cli[c].fd = "console" THEN mon.pc = "gone" ELSE ~init /\ mon.pc = "gone"
          /\ Becomes(c, [cli[c] EXCEPT !.pc = "close"]) /\ UNCHANGED q
    /\ UNCHANGED <<cfg, con, mon, init, pend, sent, got, log, user, faults>>

\* SIGTERM ends the session.
lxc_console_term(c) ==
    /\ cli[c].pc = "loop" /\ cli[c].term
    /\ Becomes(c, [cli[c] EXCEPT !.pc = "close", !.term = FALSE])
    /\ UNCHANGED <<cfg, con, mon, init, pend, sent, q, got, log, user, faults>>

\* The settings a session began with.
restore_tios(c) == FALSE

lxc_console_end(c) ==
    /\ cli[c].pc = "close"
    /\ Becomes(c, [cli[c] EXCEPT !.pc = "done", !.fd = "no", !.raw = restore_tios(c),
                          !.conn = IF @ = "open" THEN "closed" ELSE "no"])
    /\ UNCHANGED <<cfg, con, mon, init, pend, sent, q, got, log, user, faults>>

\* The process is killed.
ClientKilled(c) ==
    /\ cli[c].pc \in {"ask", "loop"} /\ Fault
    /\ Hangup(c, "killed")
    /\ UNCHANGED <<cfg, con, mon, init, pend, sent, q, got, log, user>>

-----------------------------------------------------------------------------
(* The container, the users and the rest of the machine *)

ContainerWrites ==
    /\ init /\ con.ptx /\ mon.pc \in {"poll", "loop"} /\ q.n < cfg.out
    /\ q' = [q EXCEPT !.n = @ + 1, !.out = Append(@, q.n + 1)]
    /\ UNCHANGED <<cfg, con, mon, init, pend, sent, cli, got, log, user, faults>>

InitExits ==
    /\ init /\ mon.pc \in {"poll", "loop", "end", "gone"}
    /\ init' = FALSE /\ pend' = pend \cup {"CHLD"}
    /\ UNCHANGED <<cfg, con, mon, sent, cli, q, got, log, user, faults>>

UserTypes ==
    /\ con.peer = "tty" /\ mon.pc = "loop" /\ ~user.hup
    /\ \E t \in cfg.types :
          /\ Len(user.typed) < Len(t) /\ user.typed = SubSeq(t, 1, Len(user.typed))
          /\ LET x == t[Len(user.typed) + 1]
             IN  /\ user' = [user EXCEPT !.typed = Append(@, x)]
                 /\ q' = [q EXCEPT !.uin = Append(@, x)]
    /\ UNCHANGED <<cfg, con, mon, init, pend, sent, cli, got, log, faults>>

\* A signal to the monitor: SIGWINCH after a change of its terminal's size,
\* SIGHUP when that terminal goes away.
Signal(x) ==
    /\ mon.pc \in {"poll", "loop", "drain"} /\ x \notin sent
    /\ x \in {"WINCH", "HUP"} => con.peer = "tty"
    /\ sent' = sent \cup {x} /\ pend' = pend \cup {x}
    /\ user' = [user EXCEPT !.size = IF x = "WINCH" THEN 1 ELSE @, !.hup = @ \/ x = "HUP"]
    /\ UNCHANGED <<cfg, con, mon, init, cli, q, got, log, faults>>

ClientTold(c) ==
    /\ cli[c].pc = "loop" /\ ~cli[c].term /\ Fault
    /\ Becomes(c, [cli[c] EXCEPT !.term = TRUE])
    /\ UNCHANGED <<cfg, con, mon, init, pend, sent, q, got, log, user>>

Monitor ==
    \/ lxc_terminal_parent \/ lxc_recv_console_from_child \/ lxc_terminal_setup \/ lxc_poll
    \/ __lxc_mainloop_epoll \/ signal_handler \/ lxc_terminal_signalfd_cb
    \/ lxc_terminal_ptx_io_handler \/ lxc_terminal_peer_io_handler \/ StaleEvent
    \/ \E c \in Client : lxc_cmd_get_tty_fd_callback(c) \/ lxc_cmd_cleanup_handler(c)
    \/ lxc_end

Session(c) ==
    \/ lxc_console_setup(c) \/ lxc_terminal_stdin_cb(c) \/ lxc_terminal_ptx_cb(c)
    \/ lxc_console_term(c) \/ lxc_console_end(c)

Next ==
    \/ Monitor
    \/ \E c \in Client : lxc_cmd_get_tty_fd(c) \/ Session(c) \/ ClientKilled(c) \/ ClientTold(c)
    \/ ContainerWrites \/ InitExits \/ UserTypes \/ \E x \in cfg.sends : Signal(x)

\* The monitor and the clients are scheduled; nobody else has to do anything.
Spec == Init /\ [][Next]_vars /\ WF_vars(Monitor) /\ \A c \in Client : WF_vars(Session(c))

-----------------------------------------------------------------------------
(* Properties *)

\* Who has a descriptor of the console (lxc_cmd_get_tty_fd) is who the monitor
\* has it busy for, and no second client has one; the same for the tty.
OneUser ==
    mon.pc = "loop" => \A c \in Client :
        /\ cli[c].fd = "console" => con.busy = c
        /\ cli[c].fd = "tty" => con.tty = c
        /\ c \in {con.busy, con.tty} => cli[c].conn \in {"open", "closed"}

\* Position i of s is an escape character that is kept back: it ends a run of
\* them of odd length.
KeptBack(s, i) ==
    /\ s[i] = ESC
    /\ \E k \in 1 .. i : /\ \A j \in k .. i : s[j] = ESC
                         /\ k = 1 \/ s[k - 1] # ESC
                         /\ (i - k) % 2 = 0

\* The positions of what is not kept back of the first n characters of s.
Passed(s, n) == {i \in 1 .. n : ~KeptBack(s, i)}

\* t is what is not kept back of the first n characters of s: all of it, or
\* its beginning.
Unescaped(t, s, n, all) ==
    \E pos \in [DOMAIN t -> Passed(s, n)] :
        /\ \A j \in DOMAIN t : t[j] = s[pos[j]]
        /\ \A j, k \in DOMAIN t : j < k => pos[j] < pos[k]
        /\ \A i \in Passed(s, n) : all \/ (\E j \in DOMAIN t : i < pos[j]) => \E j \in DOMAIN t : i = pos[j]

\* What reached the container from a client is what was typed there, in
\* order: "<Ctrl+a Ctrl+a> to enter Ctrl+a itself" (lxc_console), whatever is
\* lost when the client leaves.
InputInOrder ==
    \A c \in Client :
        LET way == IF con.busy = c THEN got[c] \o q.pin ELSE got[c]
        IN  Unescaped(way, cli[c].typed, cli[c].i, cli[c].pc = "loop" /\ mon.pc = "loop")

\* A user sees the container's output in the order it was written, and on
\* the monitor's own terminal all that was read.
OutputInOrder ==
    /\ \A c \in Client : LET s == cli[c].seen IN \A i \in 2 .. Len(s) : s[i - 1] < s[i]
    /\ cfg.tty.there /\ mon.pc = "loop" => user.seen = log.read

\* A terminal is left with the settings it had: by lxc_terminal_delete() and
\* at the end of lxc_console(), on every way out but a kill or a crash.
SettingsRestored ==
    /\ mon.pc = "gone" /\ mon.why # "crash" => ~user.raw
    /\ \A c \in Client : cli[c].pc = "done" => ~cli[c].raw

\* A log with a limit (lxc.console.size) stays within it, unless it was
\* larger to begin with.
LogBounded == cfg.size > 0 => Len(log.cur) <= cfg.size \/ log.cur = cfg.have

\* "If users want to mirror the console ringbuffer on disk they should set
\* lxc.console.size equal to lxc.console.buffer.size": at the end the log is
\* the last output the container made, if the log was not lost to a rotation
\* that failed.
MirrorAtEnd ==
    /\ cfg.log /\ cfg.size = cfg.ring /\ cfg.ring > 0 /\ (cfg.rotate => faults = 0)
    /\ mon.pc = "gone" /\ mon.why # "crash" /\ log.read # <<>>
    => log.cur = Latest(log.read, cfg.ring)

\* When the loop ended because init died, nothing the container wrote is left
\* unread, if the last look at the console was not cut short.
LastWords == mon.pc = "gone" /\ mon.why = "init" => q.out = <<>>

\* Without a terminal of its own, a client on the console or a fault, the
\* monitor stays in its loop until init dies.
LoopEndsWithInit ==
    mon.pc \in {"end", "gone"} /\ mon.why \notin {"no", "init"} =>
        cfg.tty.there \/ \E c \in Client : cli[c].want = 0 /\ cli[c].pc # "idle"

\* What the container writes is read, if no SIGTERM comes in between (the
\* handlers of two signalfds would fight over it).
OutputRead == (mon.pc = "loop" /\ q.out # <<>>) ~> (q.out = <<>> \/ mon.pc = "gone" \/ "TERM" \in sent)

\* A client that has left the console or a tty, killed or not, does not keep
\* it: the next one can have it.
GivenBack ==
    \A c \in Client :
        (c \in {con.busy, con.tty} /\ cli[c].pc \in {"done", "killed"} /\ mon.pc = "loop")
            ~> (c \notin {con.busy, con.tty} \/ mon.pc # "loop" \/ "TERM" \in sent)

\* The container's console takes the size of the monitor's terminal over
\* (lxc_terminal_winch).
WindowFollows ==
    (mon.pc = "loop" /\ con.sig = "tty" /\ user.size # user.copied)
        ~> (user.size = user.copied \/ mon.pc # "loop" \/ "TERM" \in sent)

\* What is typed, shown and logged keeps its order (lxc_terminal_peer_io,
\* lxc_terminal_ptx_io), and the log its limit.
BytesInOrder == InputInOrder /\ OutputInOrder /\ LogBounded /\ MirrorAtEnd

\* The console ends when the container does, with its last output read and the
\* terminals as they were.
EndsClean == LoopEndsWithInit /\ LastWords /\ SettingsRestored

\* The monitor gets to everything that is waiting for it in its loop.
Served == OutputRead /\ GivenBack /\ WindowFollows
=============================================================================
