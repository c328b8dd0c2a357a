------------------------ MODULE TerminalConsoleProofs -----------------------
(***************************************************************************)
(* Proofs about Terminal, for any number of clients, any configurations    *)
(* and any number of faults: the inductive invariant, what each step does  *)
(* to the records, and the parts of the invariant about who has what and   *)
(* about the container's output.                                           *)
(*                                                                         *)
(* The invariant has five parts, each inductive given the ones before it:  *)
(* the shape of the records, what belongs to a client (Users), what the    *)
(* monitor's place says about the console and its events (Loop), the       *)
(* bytes on their way out (Output) and the ones on their way in (Input).   *)
(* Every byte the container writes has a number, so that order is order of *)
(* numbers and Output says which numbers each buffer on the way holds.     *)
(* The steps that read the container's output, and Input, are in           *)
(* TerminalProofs.                                                         *)
(***************************************************************************)
EXTENDS Terminal, TLAPS

-----------------------------------------------------------------------------
(* The inductive invariant                                                 *)

MonPc == {"init", "spawn", "setup", "poll", "loop", "drain", "end", "gone"}
Early == {"init", "spawn", "setup"}
CliPc == {"idle", "ask", "loop", "close", "done", "killed"}

\* The records.
ConShape ==
    con \in [ptx : BOOLEAN, peer : {"no", "tty", "proxy"}, busy : Client \cup {NoOne}, sig : {"no", "tty", "proxy"},
            tios : BOOLEAN, log : BOOLEAN, ring : Seq(Nat), tty : Client \cup {NoOne}]
MonShape ==
    mon \in [pc : MonPc, ev : Seq(Fixed \cup Client), reg : SUBSET (Fixed \cup Client), died : BOOLEAN,
            why : {"no", "init", "cut", "term", "hup", "stale", "crash"}]
QShape == q \in [out : Seq(Nat), n : Nat, pin : Seq(STRING), pout : Seq(Nat), uin : Seq(STRING)]
LogShape == log \in [cur : Seq(Nat), old : Seq(Nat), read : Seq(Nat)]
UserShape == user \in [raw : BOOLEAN, typed : Seq(STRING), seen : Seq(Nat), size : {0, 1}, copied : {0, 1}, hup : BOOLEAN]
ClientShape ==
    [pc : CliPc, want : {0, 1}, conn : {"no", "request", "open", "closed", "refused"}, fd : {"no", "console", "tty"},
     typed : Seq(STRING), i : Nat, saw : BOOLEAN, raw : BOOLEAN, term : BOOLEAN, seen : Seq(Nat)]
Shape ==
    /\ cfg \in Setups /\ faults \in Nat /\ init \in BOOLEAN
    /\ ConShape /\ MonShape /\ QShape /\ LogShape /\ UserShape /\ cli \in [Client -> ClientShape]
    /\ got \in [Client \cup {"tty"} -> Seq(STRING)]

\* A client's descriptor comes over its connection, and the monitor has the
\* terminal busy for it as long as it has not seen the connection end.
User(c) ==
    /\ cli[c].pc = "idle" => cli[c].conn = "no"
    /\ cli[c].pc \in {"loop", "close"} => cli[c].conn = "open"
    /\ cli[c].conn = "request" => cli[c].pc = "ask"
    /\ cli[c].conn = "open" => cli[c].pc \in {"ask", "loop", "close"}
    /\ cli[c].conn = "closed" => cli[c].pc \in {"done", "killed"}
    /\ cli[c].fd # "no" <=> cli[c].conn = "open"
    /\ cli[c].fd = "console" => con.busy = c
    /\ cli[c].fd = "tty" => con.tty = c
    /\ con.busy = c => cli[c].want = 0 /\ cli[c].conn \in {"open", "closed"}
    /\ con.tty = c => cli[c].want = 1 /\ cli[c].conn \in {"open", "closed"}
    /\ cli[c].raw => cli[c].pc \in {"loop", "close", "killed"}
    /\ mon.pc \in Early \cup {"poll"} => cli[c].pc = "idle"
Users == \A c \in Client : User(c)

\* Somebody other than the container may end the loop.
Blame == cfg.tty.there \/ \E c \in Client : cli[c].want = 0 /\ cli[c].pc # "idle"
FromPeer == {"term", "peer", "stale term", "stale peer"}

Console ==
    /\ con.peer = "tty" => con.busy = NoOne
    /\ con.peer = "proxy" => con.busy # NoOne
    /\ con.peer # "no" \/ con.sig # "no" \/ mon.reg \cap FromPeer # {} => Blame
    /\ mon.pc \in Early => con.peer = "no" /\ con.sig = "no" /\ ~user.raw
    /\ mon.pc = "init" => con.ptx = FALSE
    /\ mon.pc = "spawn" => con.ptx = (cfg.want /\ ~cfg.own)
    /\ mon.pc = "setup" => con.ptx = cfg.want
    /\ cfg.tty.there /\ con.ptx /\ mon.pc \notin Early => con.peer = "tty"
    /\ user.raw /\ mon.pc # "gone" => con.tios /\ con.peer = "tty"
    /\ mon.pc = "gone" /\ mon.why # "crash" => ~user.raw

\* What is ready, or was, is of a handler of the loop.
Events ==
    /\ \A i \in DOMAIN mon.ev : mon.ev[i] \in FromPeer => Blame
    /\ \A i \in DOMAIN mon.ev : mon.ev[i] = "sigfd" => mon.pc = "loop"
    /\ \A i \in DOMAIN mon.ev : mon.ev[i] = "ptx" => con.ptx
    /\ mon.pc \notin {"loop", "drain"} => mon.reg \cap Fixed = {} /\ mon.ev = <<>>
    /\ "sigfd" \in mon.reg => mon.pc = "loop"
    /\ "ptx" \in mon.reg => con.ptx
    /\ mon.pc = "drain" /\ con.ptx => "ptx" \in mon.reg

\* Why the loop has ended.
Ending ==
    /\ mon.pc \in Early \cup {"poll", "loop"} => mon.why = "no" /\ ~mon.died
    /\ mon.pc = "drain" => mon.why = "init" /\ mon.died /\ ~init
    /\ mon.pc \in {"end", "gone"} /\ mon.why \notin {"no", "init"} => Blame
    /\ mon.pc \in {"end", "gone"} /\ mon.why = "init" => q.out = <<>>
    /\ mon.pc \in Early \/ (~con.ptx /\ mon.pc # "gone") => q.out = <<>> /\ log.read = <<>>

Ascending(s) == \A i, j \in DOMAIN s : i < j => s[i] < s[j]
Below(s, n) == \A i \in DOMAIN s : s[i] =< n

\* The container's output is numbered; the monitor has read the first of it and
\* keeps the last of that.  What is under way to a client it has not seen yet.
Output ==
    /\ q.n = Len(log.read) + Len(q.out)
    /\ \A i \in DOMAIN log.read : log.read[i] = i
    /\ \A i \in DOMAIN q.out : q.out[i] = Len(log.read) + i
    /\ cfg.tty.there => user.seen = log.read
    /\ con.ring = Latest(log.read, cfg.ring)
    /\ LogBounded
    /\ con.log => cfg.log
    /\ cfg.log /\ (cfg.rotate => faults = 0) /\ con.ptx /\ mon.pc \notin Early => con.log
    /\ MirrorAtEnd
    /\ Ascending(q.pout) /\ Below(q.pout, Len(log.read))
    /\ con.busy = NoOne => q.pout = <<>> /\ q.pin = <<>>
    /\ \A c \in Client : Ascending(cli[c].seen) /\ Below(cli[c].seen, Len(log.read))
    /\ \A c \in Client : c = con.busy =>
          \A i \in DOMAIN cli[c].seen, j \in DOMAIN q.pout : cli[c].seen[i] < q.pout[j]

\* What has left a client: what the container has, and what the proxy holds.
Way(c) == IF con.busy = c THEN got[c] \o q.pin ELSE got[c]
\* The run of escape characters that ends at i begins somewhere.
RunBegins(s, i) == s[i] = ESC => \E k \in 1 .. i : (\A j \in k .. i : s[j] = ESC) /\ (k = 1 \/ s[k - 1] # ESC)

\* A client has sent on all it has not kept back, as long as it is in its loop,
\* and knows what it keeps back.
Typing(c) ==
    /\ Unescaped(Way(c), cli[c].typed, cli[c].i, cli[c].pc = "loop")
    /\ cli[c].pc = "loop" => (cli[c].saw <=> cli[c].i > 0 /\ KeptBack(cli[c].typed, cli[c].i))
    /\ cli[c].pc = "loop" /\ cli[c].i > 0 => RunBegins(cli[c].typed, cli[c].i)
    /\ cli[c].pc \in {"idle", "ask"} => cli[c].i = 0 /\ ~cli[c].saw
    /\ cli[c].i =< Len(cli[c].typed)
Input == \A c \in Client : Typing(c)

IInv == Shape /\ Users /\ Console /\ Events /\ Ending /\ Output /\ Input

-----------------------------------------------------------------------------
(* What a step does to the records                                         *)

\* What has not changed has its shape still.
LEMMA ShapeKept ==
    /\ ConShape /\ con' = con => ConShape'
    /\ MonShape /\ mon' = mon => MonShape'
    /\ QShape /\ q' = q => QShape'
    /\ LogShape /\ log' = log => LogShape'
    /\ UserShape /\ user' = user => UserShape'
  BY ZenonT(60) DEF ConShape, MonShape, QShape, LogShape, UserShape

\* One client's record changes.
Others(c) == \A d \in Client \ {c} : cli'[d] = cli[d]

\* A client's record is replaced, and nobody else's.
LEMMA BecomesEffect ==
    ASSUME cli \in [Client -> ClientShape], NEW c \in Client, NEW r \in ClientShape, Becomes(c, r)
    PROVE  cli' \in [Client -> ClientShape] /\ cli'[c] = r /\ Others(c)
<1> HIDE DEF ClientShape
<1> QED
  BY ZenonT(60) DEF Becomes, Others

\* lxc_console(): SIGTERM ends the session.
LEMMA TermEffect ==
    ASSUME Shape, NEW c \in Client, lxc_console_term(c)
    PROVE  /\ Shape' /\ Others(c) /\ cli[c].pc = "loop"
           /\ cli'[c].pc = "close" /\ cli'[c].term = FALSE
           /\ \A f \in {"want", "conn", "fd", "typed", "i", "saw", "raw", "seen"} : cli'[c][f] = cli[c][f]
           /\ UNCHANGED <<cfg, con, mon, init, q, got, log, user, faults>>
<1>1. cli[c] \in ClientShape /\ cli[c].pc = "loop"
  BY ZenonT(60) DEF Shape, lxc_console_term
<1>2. PICK r : r = [cli[c] EXCEPT !.pc = "close", !.term = FALSE]
  BY ZenonT(60)
<1>3. /\ r \in ClientShape /\ r.pc = "close" /\ r.term = FALSE
      /\ \A f \in {"want", "conn", "fd", "typed", "i", "saw", "raw", "seen"} : r[f] = cli[c][f]
  BY ZenonT(60), <1>1, <1>2 DEF ClientShape, CliPc
<1>4. Becomes(c, r) /\ UNCHANGED <<cfg, con, mon, init, q, got, log, user, faults>>
  BY ZenonT(60), <1>2 DEF lxc_console_term
<1>5. cli' \in [Client -> ClientShape] /\ cli'[c] = r /\ Others(c)
  BY ZenonT(60), <1>3, <1>4, BecomesEffect DEF Shape
<1>6. Shape'
  BY ZenonT(60), <1>4, <1>5, ShapeKept DEF Shape
<1> QED
  BY ZenonT(60), <1>1, <1>3, <1>4, <1>5, <1>6

\* lxc_console() returns: the connection is closed.
LEMMA EndEffect ==
    ASSUME Shape, NEW c \in Client, lxc_console_end(c)
    PROVE  /\ Shape' /\ Others(c) /\ cli[c].pc = "close"
           /\ cli'[c].pc = "done" /\ cli'[c].fd = "no" /\ cli'[c].raw = FALSE /\ cli'[c].conn = IF cli[c].conn = "open" THEN "closed" ELSE "no"
           /\ \A f \in {"want", "typed", "i", "saw", "term", "seen"} : cli'[c][f] = cli[c][f]
           /\ UNCHANGED <<cfg, con, mon, init, q, got, log, user, faults>>
<1>1. cli[c] \in ClientShape /\ cli[c].pc = "close"
  BY ZenonT(60) DEF Shape, lxc_console_end
<1>2. PICK r : r = [cli[c] EXCEPT !.pc = "done", !.fd = "no", !.raw = restore_tios(c),
                            !.conn = IF @ = "open" THEN "closed" ELSE "no"]
  BY ZenonT(60)
<1>3. /\ r \in ClientShape /\ r.pc = "done" /\ r.fd = "no" /\ r.raw = FALSE /\ r.conn = IF cli[c].conn = "open" THEN "closed" ELSE "no"
      /\ \A f \in {"want", "typed", "i", "saw", "term", "seen"} : r[f] = cli[c][f]
  BY ZenonT(60), <1>1, <1>2 DEF ClientShape, CliPc, restore_tios
<1>4. Becomes(c, r) /\ UNCHANGED <<cfg, con, mon, init, q, got, log, user, faults>>
  BY ZenonT(60), <1>2 DEF lxc_console_end
<1>5. cli' \in [Client -> ClientShape] /\ cli'[c] = r /\ Others(c)
  BY ZenonT(60), <1>3, <1>4, BecomesEffect DEF Shape
<1>6. Shape'
  BY ZenonT(60), <1>4, <1>5, ShapeKept DEF Shape
<1> QED
  BY ZenonT(60), <1>1, <1>3, <1>4, <1>5, <1>6

\* A client gets SIGTERM.
LEMMA ToldEffect ==
    ASSUME Shape, NEW c \in Client, ClientTold(c)
    PROVE  /\ Shape' /\ Others(c) /\ cli[c].pc = "loop"
           /\ cli'[c].term = TRUE
           /\ \A f \in {"pc", "want", "conn", "fd", "typed", "i", "saw", "raw", "seen"} : cli'[c][f] = cli[c][f]
           /\ UNCHANGED <<cfg, con, mon, init, q, got, log, user>> /\ faults' >= faults
<1>1. cli[c] \in ClientShape /\ cli[c].pc = "loop"
  BY ZenonT(60) DEF Shape, ClientTold
<1>2. PICK r : r = [cli[c] EXCEPT !.term = TRUE]
  BY ZenonT(60)
<1>3. /\ r \in ClientShape /\ r.term = TRUE
      /\ \A f \in {"pc", "want", "conn", "fd", "typed", "i", "saw", "raw", "seen"} : r[f] = cli[c][f]
  BY ZenonT(60), <1>1, <1>2 DEF ClientShape, CliPc
<1>4. Becomes(c, r) /\ UNCHANGED <<cfg, con, mon, init, q, got, log, user>> /\ Fault
  BY ZenonT(60), <1>2 DEF ClientTold
<1>5. cli' \in [Client -> ClientShape] /\ cli'[c] = r /\ Others(c)
  BY ZenonT(60), <1>3, <1>4, BecomesEffect DEF Shape
<1>6. Shape' /\ faults' >= faults
  BY <1>4, <1>5, ShapeKept DEF Shape, Fault
<1> QED
  BY ZenonT(60), <1>1, <1>3, <1>4, <1>5, <1>6

\* A client that hangs up.
LEMMA HangupEffect ==
    ASSUME cli \in [Client -> ClientShape], NEW c \in Client, NEW p \in CliPc, Hangup(c, p)
    PROVE  /\ cli' \in [Client -> ClientShape] /\ Others(c)
           /\ cli'[c].pc = p /\ cli'[c].fd = "no"
           /\ cli'[c].conn = IF cli[c].conn \in {"open", "request"} THEN "closed" ELSE "no"
           /\ \A f \in {"want", "typed", "i", "saw", "raw", "term", "seen"} : cli'[c][f] = cli[c][f]
<1>1. PICK r : r = [cli[c] EXCEPT !.pc = p, !.fd = "no", !.conn = IF @ \in {"open", "request"} THEN "closed" ELSE "no"]
  BY ZenonT(60)
<1>2. /\ r \in ClientShape /\ r.pc = p /\ r.fd = "no"
      /\ r.conn = IF cli[c].conn \in {"open", "request"} THEN "closed" ELSE "no"
      /\ \A f \in {"want", "typed", "i", "saw", "raw", "term", "seen"} : r[f] = cli[c][f]
  <2>1. cli[c] \in ClientShape
    OBVIOUS
  <2> QED
    BY ZenonT(60), <1>1, <2>1 DEF ClientShape
<1>3. Becomes(c, r)
  BY ZenonT(60), <1>1 DEF Hangup
<1> QED
  BY ZenonT(60), <1>2, <1>3, BecomesEffect

\* A client is killed.
LEMMA KilledEffect ==
    ASSUME Shape, NEW c \in Client, ClientKilled(c)
    PROVE  /\ Shape' /\ Others(c) /\ cli[c].pc \in {"ask", "loop"} /\ cli'[c].pc = "killed" /\ cli'[c].fd = "no"
           /\ cli'[c].conn = IF cli[c].conn \in {"open", "request"} THEN "closed" ELSE "no"
           /\ \A f \in {"want", "typed", "i", "saw", "raw", "term", "seen"} : cli'[c][f] = cli[c][f]
           /\ UNCHANGED <<cfg, con, mon, init, q, got, log, user>> /\ faults' > faults
<1>1. /\ cli[c].pc \in {"ask", "loop"} /\ Fault /\ Hangup(c, "killed") /\ "killed" \in CliPc
      /\ UNCHANGED <<cfg, con, mon, init, q, got, log, user>>
  BY ZenonT(60) DEF ClientKilled, CliPc
<1>2. /\ cli' \in [Client -> ClientShape] /\ Others(c)
      /\ cli'[c].pc = "killed" /\ cli'[c].fd = "no"
      /\ cli'[c].conn = IF cli[c].conn \in {"open", "request"} THEN "closed" ELSE "no"
      /\ \A f \in {"want", "typed", "i", "saw", "raw", "term", "seen"} : cli'[c][f] = cli[c][f]
  BY ZenonT(60), <1>1, HangupEffect DEF Shape
<1>3. Shape' /\ faults' > faults
  BY <1>1, <1>2, ShapeKept DEF Shape, Fault
<1> QED
  BY ZenonT(60), <1>1, <1>2, <1>3

\* lxc_console() after its request: the session begins, or is given up.
LEMMA SetupEffect ==
    ASSUME Shape, NEW c \in Client, lxc_console_setup(c)
    PROVE  /\ Shape' /\ Others(c) /\ cli[c].pc = "ask"
           /\ \/ cli[c].conn = "open" /\ cli'[c].pc = "loop" /\ cli'[c].raw = TRUE /\ cli'[c].fd = cli[c].fd /\ cli'[c].conn = "open"
              \/ /\ cli'[c].pc = "done" /\ cli'[c].fd = "no" /\ cli'[c].raw = cli[c].raw
                 /\ cli'[c].conn = IF cli[c].conn \in {"open", "request"} THEN "closed" ELSE "no"
           /\ \A f \in {"want", "typed", "i", "saw", "term", "seen"} : cli'[c][f] = cli[c][f]
           /\ UNCHANGED <<cfg, con, mon, init, q, got, log, user>> /\ faults' >= faults
<1>1. cli[c] \in ClientShape /\ cli[c].pc = "ask" /\ UNCHANGED <<cfg, con, mon, init, q, got, log, user>> /\ "done" \in CliPc
  BY ZenonT(60) DEF Shape, lxc_console_setup, CliPc
<1>2. faults' \in Nat /\ faults' >= faults
  BY DEF Shape, lxc_console_setup, Fault, NoFault
<1>3. CASE cli[c].conn = "open" /\ Becomes(c, [cli[c] EXCEPT !.pc = "loop", !.raw = TRUE])
  <2>1. PICK r : r = [cli[c] EXCEPT !.pc = "loop", !.raw = TRUE]
    BY ZenonT(60)
  <2>2. /\ r \in ClientShape /\ r.pc = "loop" /\ r.raw = TRUE
        /\ \A f \in {"fd", "conn", "want", "typed", "i", "saw", "term", "seen"} : r[f] = cli[c][f]
    BY ZenonT(60), <1>1, <2>1 DEF ClientShape, CliPc
  <2>3. cli' \in [Client -> ClientShape] /\ cli'[c] = r /\ Others(c)
    BY ZenonT(60), <1>3, <2>1, <2>2, BecomesEffect DEF Shape
  <2>4. Shape'
    BY ZenonT(60), <1>1, <1>2, <2>3, ShapeKept DEF Shape
  <2> QED
    BY ZenonT(60), <1>1, <1>2, <1>3, <2>2, <2>3, <2>4
<1>4. CASE Hangup(c, "done")
  <2>1. /\ cli' \in [Client -> ClientShape] /\ Others(c)
        /\ cli'[c].pc = "done" /\ cli'[c].fd = "no"
        /\ cli'[c].conn = IF cli[c].conn \in {"open", "request"} THEN "closed" ELSE "no"
        /\ \A f \in {"want", "typed", "i", "saw", "raw", "term", "seen"} : cli'[c][f] = cli[c][f]
    BY ZenonT(60), <1>1, <1>4, HangupEffect DEF Shape
  <2>2. Shape'
    BY ZenonT(60), <1>1, <1>2, <2>1, ShapeKept DEF Shape
  <2> QED
    BY ZenonT(60), <1>1, <1>2, <2>1, <2>2
<1> QED
  BY ZenonT(60), <1>3, <1>4 DEF lxc_console_setup

\* lxc_cmd_get_tty_fd(): a client asks for the console or a tty.
LEMMA GetTtyFdEffect ==
    ASSUME Shape, NEW c \in Client, lxc_cmd_get_tty_fd(c)
    PROVE  /\ Shape' /\ Others(c) /\ cli[c].pc = "idle" /\ cli'[c].pc = "ask" /\ cli'[c].conn = "request"
           /\ \A f \in {"fd", "i", "saw", "raw", "term", "seen"} : cli'[c][f] = cli[c][f]
           /\ mon.pc = "loop" /\ mon'.pc = "loop" /\ mon'.reg = mon.reg \cup {c}
           /\ mon'.ev = mon.ev /\ mon'.died = mon.died /\ mon'.why = mon.why
           /\ UNCHANGED <<cfg, con, init, q, got, log, user, faults>>
<1>1. /\ cli[c] \in ClientShape /\ cli[c].pc = "idle" /\ MonShape /\ mon.pc = "loop" /\ cfg \in Setups
      /\ mon' = [mon EXCEPT !.reg = mon.reg \cup {c}]
      /\ UNCHANGED <<cfg, con, init, q, got, log, user, faults>>
  BY ZenonT(60) DEF Shape, lxc_cmd_get_tty_fd
<1>2. PICK n \in {0, 1}, t \in cfg.types :
        Becomes(c, [cli[c] EXCEPT !.pc = "ask", !.want = n, !.conn = "request", !.typed = t])
  BY ZenonT(60) DEF lxc_cmd_get_tty_fd
<1>3. PICK r : r = [cli[c] EXCEPT !.pc = "ask", !.want = n, !.conn = "request", !.typed = t]
  BY ZenonT(60)
<1>4. t \in Seq(STRING)
  BY ZenonT(60), <1>1, SetupsAssumption
<1>5. /\ r \in ClientShape /\ r.pc = "ask" /\ r.conn = "request"
      /\ \A f \in {"fd", "i", "saw", "raw", "term", "seen"} : r[f] = cli[c][f]
  BY ZenonT(60), <1>1, <1>3, <1>4 DEF ClientShape, CliPc
<1>6. cli' \in [Client -> ClientShape] /\ cli'[c] = r /\ Others(c)
  BY ZenonT(60), <1>2, <1>3, <1>5, BecomesEffect DEF Shape
<1>7. mon.reg \cup {c} \in SUBSET (Fixed \cup Client)
  BY ZenonT(60), <1>1 DEF MonShape
<1>8. /\ MonShape' /\ mon'.pc = "loop" /\ mon'.reg = mon.reg \cup {c}
      /\ mon'.ev = mon.ev /\ mon'.died = mon.died /\ mon'.why = mon.why
  BY ZenonT(60), <1>1, <1>7 DEF MonShape
<1>9. Shape'
  BY ZenonT(60), <1>1, <1>6, <1>8, ShapeKept DEF Shape
<1> QED
  BY ZenonT(60), <1>1, <1>5, <1>6, <1>8, <1>9

\* lxc_terminal_stdin_cb(): a character is typed.
LEMMA StdinEffect ==
    ASSUME Shape, NEW c \in Client, lxc_terminal_stdin_cb(c)
    PROVE  /\ Shape' /\ Others(c) /\ cli[c].pc = "loop" /\ cli[c].i < Len(cli[c].typed) /\ cli'[c].i = cli[c].i + 1
           /\ \A f \in {"want", "conn", "fd", "typed", "raw", "term", "seen"} : cli'[c][f] = cli[c][f]
           /\ \A f \in {"out", "n", "pout", "uin"} : q'[f] = q[f]
           /\ LET x == cli[c].typed[cli[c].i + 1] IN
              \/ /\ x = ESC /\ cli[c].saw = FALSE /\ cli'[c].saw = TRUE /\ cli'[c].pc = "loop"
                 /\ q' = q /\ got' = got
              \/ x = "q" /\ cli'[c].pc = "close" /\ q' = q /\ got' = got
              \/ /\ x # ESC \/ cli[c].saw = TRUE
                 /\ cli'[c].saw = FALSE /\ cli'[c].pc = "loop" /\ Written(c, x)
           /\ UNCHANGED <<cfg, con, mon, init, log, user, faults>>
<1> DEFINE x == cli[c].typed[cli[c].i + 1]
<1>1. /\ cli[c] \in ClientShape /\ cli[c].pc = "loop" /\ cli[c].i < Len(cli[c].typed)
      /\ UNCHANGED <<cfg, con, mon, init, log, user, faults>>
  BY ZenonT(60) DEF Shape, lxc_terminal_stdin_cb
<1>2. cli[c].i + 1 \in Nat /\ cli[c].saw \in BOOLEAN /\ x \in STRING
  <2>1. cli[c].i \in Nat /\ cli[c].typed \in Seq(STRING) /\ cli[c].saw \in BOOLEAN
    BY ZenonT(60), <1>1 DEF ClientShape
  <2> QED
    BY <1>1, <2>1
<1> HIDE DEF x
<1>3. ASSUME q' = q /\ got' = got
      PROVE  QShape' /\ got' \in [Client \cup {"tty"} -> Seq(STRING)] /\ \A f \in {"out", "n", "pout", "uin"} : q'[f] = q[f]
  BY ZenonT(60), <1>3, ShapeKept DEF Shape
<1>4. ASSUME NEW r \in ClientShape, Becomes(c, r), QShape', got' \in [Client \cup {"tty"} -> Seq(STRING)]
      PROVE  Shape' /\ Others(c) /\ cli'[c] = r
  <2>1. cli' \in [Client -> ClientShape] /\ cli'[c] = r /\ Others(c)
    BY ZenonT(60), <1>4, BecomesEffect DEF Shape
  <2> QED
    BY ZenonT(60), <1>1, <1>4, <2>1, ShapeKept DEF Shape
<1>5. CASE x = ESC /\ ~cli[c].saw /\ Becomes(c, [cli[c] EXCEPT !.i = @ + 1, !.saw = TRUE]) /\ q' = q /\ got' = got
  <2>1. PICK r : r = [cli[c] EXCEPT !.i = @ + 1, !.saw = TRUE]
    BY ZenonT(60)
  <2>2. /\ r \in ClientShape /\ r.i = cli[c].i + 1 /\ r.saw = TRUE /\ r.pc = "loop"
        /\ \A f \in {"want", "conn", "fd", "typed", "raw", "term", "seen"} : r[f] = cli[c][f]
    BY ZenonT(60), <1>1, <1>2, <2>1 DEF ClientShape
  <2>3. Shape' /\ Others(c) /\ cli'[c] = r
    BY ZenonT(60), <1>3, <1>4, <1>5, <2>1, <2>2
  <2> QED
    BY ZenonT(60), <1>1, <1>2, <1>3, <1>5, <2>2, <2>3 DEF x
<1>6. CASE x = "q" /\ Becomes(c, [cli[c] EXCEPT !.i = @ + 1, !.pc = "close"]) /\ q' = q /\ got' = got
  <2>1. PICK r : r = [cli[c] EXCEPT !.i = @ + 1, !.pc = "close"]
    BY ZenonT(60)
  <2>2. /\ r \in ClientShape /\ r.i = cli[c].i + 1 /\ r.pc = "close"
        /\ \A f \in {"want", "conn", "fd", "typed", "raw", "term", "seen"} : r[f] = cli[c][f]
    BY ZenonT(60), <1>1, <1>2, <2>1 DEF ClientShape, CliPc
  <2>3. Shape' /\ Others(c) /\ cli'[c] = r
    BY ZenonT(60), <1>3, <1>4, <1>6, <2>1, <2>2
  <2> QED
    BY ZenonT(60), <1>1, <1>3, <1>6, <2>2, <2>3 DEF x
<1>7. CASE (x # ESC \/ cli[c].saw) /\ Becomes(c, [cli[c] EXCEPT !.i = @ + 1, !.saw = FALSE]) /\ Written(c, x)
  <2>1. PICK r : r = [cli[c] EXCEPT !.i = @ + 1, !.saw = FALSE]
    BY ZenonT(60)
  <2>2. /\ r \in ClientShape /\ r.i = cli[c].i + 1 /\ r.saw = FALSE /\ r.pc = "loop"
        /\ \A f \in {"want", "conn", "fd", "typed", "raw", "term", "seen"} : r[f] = cli[c][f]
    BY ZenonT(60), <1>1, <1>2, <2>1 DEF ClientShape
  <2>3. /\ QShape' /\ got' \in [Client \cup {"tty"} -> Seq(STRING)]
        /\ \A f \in {"out", "n", "pout", "uin"} : q'[f] = q[f]
    <3>1. CASE got' = [got EXCEPT ![c] = Append(@, x)] /\ q' = q
      BY <1>2, <3>1, ShapeKept DEF Shape
    <3>2. CASE q' = [q EXCEPT !.pin = IF con.busy = c THEN Append(@, x) ELSE @] /\ got' = got
      <4>1. q.pin \in Seq(STRING)
        BY ZenonT(60) DEF Shape, QShape
      <4>2. Append(q.pin, x) \in Seq(STRING)
        BY <1>2, <4>1
      <4>3. QShape' /\ \A f \in {"out", "n", "pout", "uin"} : q'[f] = q[f]
        BY ZenonT(60), <3>2, <4>1, <4>2 DEF Shape, QShape
      <4> QED
        BY ZenonT(60), <3>2, <4>3 DEF Shape
    <3> QED
      BY ZenonT(60), <1>7, <3>1, <3>2 DEF Written
  <2>4. Shape' /\ Others(c) /\ cli'[c] = r
    BY ZenonT(60), <1>4, <1>7, <2>1, <2>2, <2>3
  <2> QED
    BY ZenonT(60), <1>1, <1>2, <1>7, <2>2, <2>3, <2>4 DEF x
<1> QED
  BY ZenonT(60), <1>5, <1>6, <1>7 DEF lxc_terminal_stdin_cb, escape_kept, x

\* lxc_terminal_ptx_cb(): output for the user, or the end of it.
LEMMA PtxCbEffect ==
    ASSUME Shape, NEW c \in Client, lxc_terminal_ptx_cb(c)
    PROVE  /\ Shape' /\ Others(c) /\ cli[c].pc = "loop"
           /\ \A f \in {"want", "conn", "fd", "typed", "i", "saw", "raw", "term"} : cli'[c][f] = cli[c][f]
           /\ \A f \in {"out", "n", "pin", "uin"} : q'[f] = q[f]
           /\ \/ con.busy = c /\ cli'[c].pc = "loop" /\ cli'[c].seen = cli[c].seen \o q.pout /\ q'.pout = <<>>
              \/ mon.pc = "gone" /\ cli'[c].pc = "close" /\ cli'[c].seen = cli[c].seen /\ q' = q
           /\ UNCHANGED <<cfg, con, mon, init, got, log, user, faults>>
<1>1. cli[c] \in ClientShape /\ cli[c].pc = "loop" /\ UNCHANGED <<cfg, con, mon, init, got, log, user, faults>>
  BY ZenonT(60) DEF Shape, lxc_terminal_ptx_cb
<1>2. CASE con.busy = c /\ Becomes(c, [cli[c] EXCEPT !.seen = @ \o q.pout]) /\ q' = [q EXCEPT !.pout = <<>>]
  <2>1. PICK r : r = [cli[c] EXCEPT !.seen = @ \o q.pout]
    BY ZenonT(60)
  <2>2. q.pout \in Seq(Nat) /\ cli[c].seen \in Seq(Nat)
    BY ZenonT(60), <1>1 DEF Shape, QShape, ClientShape
  <2>3. cli[c].seen \o q.pout \in Seq(Nat) /\ <<>> \in Seq(Nat)
    BY <2>2
  <2>4. /\ r \in ClientShape /\ r.seen = cli[c].seen \o q.pout /\ r.pc = "loop"
        /\ \A f \in {"want", "conn", "fd", "typed", "i", "saw", "raw", "term"} : r[f] = cli[c][f]
    BY ZenonT(60), <1>1, <2>1, <2>3 DEF ClientShape
  <2>5. cli' \in [Client -> ClientShape] /\ cli'[c] = r /\ Others(c)
    BY ZenonT(60), <1>2, <2>1, <2>4, BecomesEffect DEF Shape
  <2>6. QShape' /\ q'.pout = <<>> /\ \A f \in {"out", "n", "pin", "uin"} : q'[f] = q[f]
    BY ZenonT(60), <1>2, <2>3 DEF Shape, QShape
  <2>7. Shape'
    BY ZenonT(60), <1>1, <2>5, <2>6, ShapeKept DEF Shape
  <2> QED
    BY ZenonT(60), <1>1, <1>2, <2>4, <2>5, <2>6, <2>7
<1>3. CASE mon.pc = "gone" /\ Becomes(c, [cli[c] EXCEPT !.pc = "close"]) /\ q' = q
  <2>1. PICK r : r = [cli[c] EXCEPT !.pc = "close"]
    BY ZenonT(60)
  <2>2. /\ r \in ClientShape /\ r.pc = "close"
        /\ \A f \in {"want", "conn", "fd", "typed", "i", "saw", "raw", "term", "seen"} : r[f] = cli[c][f]
    BY ZenonT(60), <1>1, <2>1 DEF ClientShape, CliPc
  <2>3. cli' \in [Client -> ClientShape] /\ cli'[c] = r /\ Others(c)
    BY ZenonT(60), <1>3, <2>1, <2>2, BecomesEffect DEF Shape
  <2>4. Shape'
    BY ZenonT(60), <1>1, <1>3, <2>3, ShapeKept DEF Shape
  <2> QED
    BY ZenonT(60), <1>1, <1>3, <2>2, <2>3, <2>4
<1> QED
  BY ZenonT(60), <1>2, <1>3 DEF lxc_terminal_ptx_cb

\* The monitor goes on to the next event of its batch.
LEMMA Next1Effect ==
    ASSUME MonShape, mon.ev # <<>>, Next1
    PROVE  MonShape' /\ mon'.ev = Tail(mon.ev) /\ \A f \in {"pc", "reg", "died", "why"} : mon'[f] = mon[f]
<1>1. mon.ev \in Seq(Fixed \cup Client)
  BY ZenonT(60) DEF MonShape
<1>2. Tail(mon.ev) \in Seq(Fixed \cup Client)
  BY <1>1
<1> QED
  BY ZenonT(60), <1>2 DEF MonShape, Next1

\* The handlers of the console are the monitor's own.
LEMMA HandlersOwn == \A t : Handlers(t) \in SUBSET (Fixed \cup Client) /\ "sigfd" \notin Handlers(t)
  BY ZenonT(60) DEF Handlers, Fixed

\* The loop is left, for good or for a last look.
LEMMA LeaveLoopEffect ==
    ASSUME MonShape, NEW ret, NEW died \in BOOLEAN, NEW why \in {"init", "term", "hup", "stale"}, LeaveLoop(ret, died, why)
    PROVE  /\ MonShape' /\ mon'.ev = <<>> /\ mon'.died = died
           /\ \/ /\ mon.pc = "loop" /\ died = TRUE /\ mon'.pc = "drain" /\ mon'.reg = Handlers(con) /\ mon'.why = why
              \/ /\ mon.pc # "loop" \/ died = FALSE \/ ret # "close"
                 /\ mon'.pc = "end" /\ mon'.reg = {}
                 /\ mon'.why = IF mon.pc = "drain" /\ mon.why = "init" THEN "cut" ELSE why
<1>1. <<>> \in Seq(Fixed \cup Client) /\ {} \in SUBSET (Fixed \cup Client) /\ {"drain", "end"} \subseteq MonPc
  BY DEF MonPc
<1>2. CASE ret = "close" /\ died /\ mon.pc = "loop"
  <2>1. mon' = [mon EXCEPT !.pc = "drain", !.ev = <<>>, !.reg = Handlers(con), !.died = TRUE, !.why = why]
    BY ZenonT(60), <1>2 DEF LeaveLoop
  <2>2. /\ MonShape' /\ mon'.ev = <<>> /\ mon'.died = TRUE
        /\ mon'.pc = "drain" /\ mon'.reg = Handlers(con) /\ mon'.why = why
    BY ZenonT(60), <1>1, <2>1, HandlersOwn DEF MonShape
  <2> QED
    BY ZenonT(60), <1>2, <2>2
<1>3. CASE ~(ret = "close" /\ died /\ mon.pc = "loop")
  <2>1. PICK w \in {"cut", "init", "term", "hup", "stale"} : w = IF mon.pc = "drain" /\ mon.why = "init" THEN "cut" ELSE why
    OBVIOUS
  <2>2. mon' = [mon EXCEPT !.pc = "end", !.ev = <<>>, !.reg = {}, !.died = died, !.why = w]
    BY ZenonT(60), <1>3, <2>1 DEF LeaveLoop
  <2>3. /\ MonShape' /\ mon'.ev = <<>> /\ mon'.died = died
        /\ mon'.pc = "end" /\ mon'.reg = {} /\ mon'.why = w
    BY ZenonT(60), <1>1, <2>2 DEF MonShape
  <2> QED
    BY ZenonT(60), <1>3, <2>1, <2>3
<1> QED
  BY ZenonT(60), <1>2, <1>3

\* lxc_terminal_parent(): a console of the host's, or none yet.
LEMMA ParentEffect ==
    ASSUME Shape, lxc_terminal_parent
    PROVE  /\ Shape' /\ mon.pc = "init"
           /\ \A f \in {"peer", "busy", "sig", "tios", "log", "ring", "tty"} : con'[f] = con[f]
           /\ \A f \in {"ev", "reg", "died", "why"} : mon'[f] = mon[f]
           /\ \/ mon'.pc = "spawn" /\ con'.ptx = (cfg.want /\ ~cfg.own)
              \/ mon'.pc = "gone" /\ con'.ptx = con.ptx
           /\ UNCHANGED <<cfg, init, cli, q, got, log, user>> /\ faults' >= faults
<1>1. /\ mon.pc = "init" /\ UNCHANGED <<cfg, init, cli, q, got, log, user>> /\ cfg \in Setups
      /\ faults' \in Nat /\ faults' >= faults
  BY DEF Shape, lxc_terminal_parent, Fault, NoFault
<1>2. (cfg.want /\ ~cfg.own) \in BOOLEAN /\ {"spawn", "gone"} \subseteq MonPc
  BY ZenonT(60) DEF MonPc
<1>3. CASE con' = [con EXCEPT !.ptx = cfg.want /\ ~cfg.own] /\ mon' = [mon EXCEPT !.pc = "spawn"]
  <2>1. /\ ConShape' /\ con'.ptx = (cfg.want /\ ~cfg.own)
        /\ \A f \in {"peer", "busy", "sig", "tios", "log", "ring", "tty"} : con'[f] = con[f]
    BY ZenonT(60), <1>2, <1>3 DEF Shape, ConShape
  <2>2. MonShape' /\ mon'.pc = "spawn" /\ \A f \in {"ev", "reg", "died", "why"} : mon'[f] = mon[f]
    BY ZenonT(60), <1>2, <1>3 DEF Shape, MonShape
  <2>3. Shape'
    BY ZenonT(60), <1>1, <2>1, <2>2, ShapeKept DEF Shape
  <2> QED
    BY ZenonT(60), <1>1, <2>1, <2>2, <2>3
<1>4. CASE con' = con /\ mon' = [mon EXCEPT !.pc = "gone"]
  <2>2. MonShape' /\ mon'.pc = "gone" /\ \A f \in {"ev", "reg", "died", "why"} : mon'[f] = mon[f]
    BY ZenonT(60), <1>2, <1>4 DEF Shape, MonShape
  <2>3. Shape'
    BY ZenonT(60), <1>1, <1>4, <2>2, ShapeKept DEF Shape
  <2> QED
    BY ZenonT(60), <1>1, <1>4, <2>2, <2>3
<1> QED
  BY ZenonT(60), <1>3, <1>4 DEF lxc_terminal_parent

\* lxc_terminal_recv(): a console of the container's, sent by its init.
LEMMA RecvEffect ==
    ASSUME Shape, lxc_recv_console_from_child
    PROVE  /\ Shape' /\ mon.pc = "spawn"
           /\ \A f \in {"peer", "busy", "sig", "tios", "log", "ring", "tty"} : con'[f] = con[f]
           /\ \A f \in {"ev", "reg", "died", "why"} : mon'[f] = mon[f]
           /\ \/ mon'.pc = "setup" /\ con'.ptx = cfg.want
              \/ mon'.pc = "end" /\ con'.ptx = con.ptx /\ cfg.want = TRUE /\ cfg.own = TRUE
           /\ UNCHANGED <<cfg, init, cli, q, got, log, user>> /\ faults' >= faults
<1>1. /\ mon.pc = "spawn" /\ UNCHANGED <<cfg, init, cli, q, got, log, user>> /\ cfg \in Setups
      /\ faults' \in Nat /\ faults' >= faults
  BY DEF Shape, lxc_recv_console_from_child, Fault, NoFault
<1>2. cfg.want \in BOOLEAN /\ cfg.own \in BOOLEAN /\ {"setup", "end"} \subseteq MonPc
  BY ZenonT(60), <1>1, SetupsAssumption DEF MonPc
<1>3. CASE con' = [con EXCEPT !.ptx = cfg.want] /\ mon' = [mon EXCEPT !.pc = "setup"]
  <2>1. /\ ConShape' /\ con'.ptx = cfg.want
        /\ \A f \in {"peer", "busy", "sig", "tios", "log", "ring", "tty"} : con'[f] = con[f]
    BY ZenonT(60), <1>2, <1>3 DEF Shape, ConShape
  <2>2. MonShape' /\ mon'.pc = "setup" /\ \A f \in {"ev", "reg", "died", "why"} : mon'[f] = mon[f]
    BY ZenonT(60), <1>2, <1>3 DEF Shape, MonShape
  <2>3. Shape'
    BY ZenonT(60), <1>1, <2>1, <2>2, ShapeKept DEF Shape
  <2> QED
    BY ZenonT(60), <1>1, <2>1, <2>2, <2>3
<1>4. CASE con' = con /\ mon' = [mon EXCEPT !.pc = "end"] /\ cfg.want /\ cfg.own
  <2>2. MonShape' /\ mon'.pc = "end" /\ \A f \in {"ev", "reg", "died", "why"} : mon'[f] = mon[f]
    BY ZenonT(60), <1>2, <1>4 DEF Shape, MonShape
  <2>3. Shape'
    BY ZenonT(60), <1>1, <1>4, <2>2, ShapeKept DEF Shape
  <2> QED
    BY ZenonT(60), <1>1, <1>2, <1>4, <2>2, <2>3
<1> QED
  BY ZenonT(60), <1>3, <1>4 DEF lxc_recv_console_from_child

\* lxc_terminal_peer_default(): the monitor's own terminal.
LEMMA PeerDefaultIs ==
    ASSUME cfg \in Setups, NEW r \in lxc_terminal_peer_default(con, user)
    PROVE  \/ cfg.tty.there = FALSE /\ r.t = con /\ r.u = user
           \/ cfg.tty.there = TRUE /\ r.ok = FALSE /\ r.t = con /\ r.u = user
           \/ /\ cfg.tty.there = TRUE /\ r.ok = FALSE
              /\ r.t = [con EXCEPT !.sig = "tty"] /\ r.u = [user EXCEPT !.copied = user.size]
           \/ /\ cfg.tty.there = TRUE /\ r.ok = TRUE
              /\ r.t = [con EXCEPT !.sig = "tty", !.peer = "tty", !.tios = TRUE]
              /\ r.u = [user EXCEPT !.copied = user.size, !.raw = TRUE]
<1> DEFINE done == [t |-> con, u |-> user, ok |-> TRUE, fault |-> FALSE]
           bad == [done EXCEPT !.ok = FALSE]
           sig == [con EXCEPT !.sig = "tty"]
           B1 == [bad EXCEPT !.fault = TRUE]
           B2 == [bad EXCEPT !.fault = TRUE, !.t = sig, !.u.copied = user.size]
           B3 == [done EXCEPT !.t = [sig EXCEPT !.peer = "tty", !.tios = TRUE],
                              !.u.copied = user.size, !.u.raw = TRUE]
<1>1. cfg.tty.there \in BOOLEAN /\ cfg.tty.isatty \in BOOLEAN /\ cfg.path \in BOOLEAN
  BY ZenonT(60), SetupsAssumption
<1>2. \/ cfg.tty.there = FALSE /\ r \in {done, bad}
      \/ cfg.tty.there = TRUE /\ r \in {bad, B1, B2, B3}
  BY ZenonT(60), <1>1 DEF lxc_terminal_peer_default
<1>3. done.t = con /\ done.u = user
  BY ZenonT(60)
<1>4. bad.t = con /\ bad.u = user /\ bad.ok = FALSE
  BY ZenonT(60)
<1>5. B1.t = con /\ B1.u = user /\ B1.ok = FALSE
  BY ZenonT(60)
<1>6. B2.t = [con EXCEPT !.sig = "tty"] /\ B2.u = [user EXCEPT !.copied = user.size] /\ B2.ok = FALSE
  BY ZenonT(60)
<1>7. /\ B3.t = [con EXCEPT !.sig = "tty", !.peer = "tty", !.tios = TRUE]
      /\ B3.u = [user EXCEPT !.copied = user.size, !.raw = TRUE] /\ B3.ok = TRUE
  BY ZenonT(60)
<1> HIDE DEF done, bad, B1, B2, B3
<1> QED
  BY ZenonT(60), <1>2, <1>3, <1>4, <1>5, <1>6, <1>7

\* What lxc_terminal_setup() makes of a console with no peer: the terminal is
\* not used, or it is the peer, or all is given up.
SetUp ==
    \/ cfg.want = FALSE /\ mon'.pc = "poll" /\ con' = con /\ user' = user
    \/ /\ mon'.pc = "poll" /\ con'.ptx = con.ptx /\ con'.log = cfg.log
       /\ \/ /\ cfg.tty.there = FALSE /\ user'.raw = user.raw
             /\ \A f \in {"peer", "sig", "tios"} : con'[f] = con[f]
          \/ cfg.tty.there = TRUE /\ con'.peer = "tty" /\ con'.sig = "tty" /\ con'.tios = TRUE
    \/ /\ mon'.pc = "end" /\ con'.ptx = FALSE /\ con'.log = con.log /\ con'.peer \in {con.peer, "no"}
       /\ con'.sig = con.sig \/ (cfg.tty.there = TRUE /\ con'.sig = "tty")
       /\ user'.raw \in {user.raw, FALSE}

\* lxc_terminal_setup().
LEMMA TerminalSetupEffect ==
    ASSUME Shape, con.peer = "no", lxc_terminal_setup
    PROVE  /\ Shape' /\ mon.pc = "setup" /\ SetUp
           /\ \A f \in {"busy", "ring", "tty"} : con'[f] = con[f]
           /\ \A f \in {"ev", "reg", "died", "why"} : mon'[f] = mon[f]
           /\ \A f \in {"typed", "seen", "size", "hup"} : user'[f] = user[f]
           /\ UNCHANGED <<cfg, init, cli, q, got, log>> /\ faults' >= faults
<1>1. /\ mon.pc = "setup" /\ UNCHANGED <<cfg, init, cli, q, got, log>> /\ cfg \in Setups
      /\ faults' \in Nat /\ faults' >= faults
  <2>1. mon.pc = "setup" /\ UNCHANGED <<cfg, init, cli, q, got, log>> /\ (Fault \/ NoFault)
    BY ZenonT(60) DEF lxc_terminal_setup
  <2> QED
    BY <2>1 DEF Shape, Fault, NoFault
<1>2. cfg.want \in BOOLEAN /\ cfg.log \in BOOLEAN /\ cfg.tty.there \in BOOLEAN
  BY ZenonT(60), <1>1, SetupsAssumption
<1>3. ASSUME NEW p \in {"poll", "end"}, mon' = [mon EXCEPT !.pc = p]
      PROVE  MonShape' /\ mon'.pc = p /\ \A f \in {"ev", "reg", "died", "why"} : mon'[f] = mon[f]
  BY ZenonT(60), <1>3 DEF Shape, MonShape, MonPc
<1>4. ASSUME ConShape', UserShape', MonShape' PROVE Shape'
  BY ZenonT(60), <1>1, <1>4, ShapeKept DEF Shape
<1>5. CASE ~cfg.want /\ mon' = [mon EXCEPT !.pc = "poll"] /\ UNCHANGED <<con, user>>
  BY ZenonT(60), <1>1, <1>2, <1>3, <1>4, <1>5, ShapeKept DEF Shape, SetUp
<1>6. user.size \in {0, 1}
  BY ZenonT(60) DEF Shape, UserShape
<1>7. ASSUME NEW r \in lxc_terminal_peer_default(con, user),
             IF r.ok THEN con' = [r.t EXCEPT !.log = cfg.log] /\ user' = r.u
                     ELSE con' = [r.t EXCEPT !.ptx = FALSE] /\ user' = r.u,
             mon' = [mon EXCEPT !.pc = IF r.ok THEN "poll" ELSE "end"]
      PROVE  /\ Shape' /\ SetUp
             /\ \A f \in {"busy", "ring", "tty"} : con'[f] = con[f]
             /\ \A f \in {"ev", "reg", "died", "why"} : mon'[f] = mon[f]
             /\ \A f \in {"typed", "seen", "size", "hup"} : user'[f] = user[f]
  <2>1. \/ cfg.tty.there = FALSE /\ r.t = con /\ r.u = user
        \/ cfg.tty.there = TRUE /\ r.ok = FALSE /\ r.t = con /\ r.u = user
        \/ /\ cfg.tty.there = TRUE /\ r.ok = FALSE
           /\ r.t = [con EXCEPT !.sig = "tty"] /\ r.u = [user EXCEPT !.copied = user.size]
        \/ /\ cfg.tty.there = TRUE /\ r.ok = TRUE
           /\ r.t = [con EXCEPT !.sig = "tty", !.peer = "tty", !.tios = TRUE]
           /\ r.u = [user EXCEPT !.copied = user.size, !.raw = TRUE]
    BY ZenonT(60), <1>1, PeerDefaultIs
  <2>2. CASE r.ok /\ cfg.tty.there = FALSE /\ r.t = con /\ r.u = user
    <3>1. /\ ConShape' /\ con'.log = cfg.log
          /\ \A f \in {"ptx", "peer", "sig", "tios", "busy", "ring", "tty"} : con'[f] = con[f]
      <4>1. con' = [con EXCEPT !.log = cfg.log]
        BY ZenonT(60), <1>7, <2>2
      <4> QED
        BY ZenonT(60), <1>2, <4>1 DEF Shape, ConShape
    <3>2. user' = user /\ UserShape'
      BY ZenonT(60), <1>7, <2>2, ShapeKept DEF Shape
    <3> QED
      BY ZenonT(60), <1>1, <1>2, <1>3, <1>4, <1>7, <2>2, <3>1, <3>2 DEF SetUp
  <2>3. CASE ~r.ok /\ r.t = con /\ r.u = user
    <3>1. /\ ConShape' /\ con'.ptx = FALSE
          /\ \A f \in {"log", "peer", "sig", "tios", "busy", "ring", "tty"} : con'[f] = con[f]
      <4>1. con' = [con EXCEPT !.ptx = FALSE]
        BY ZenonT(60), <1>7, <2>3
      <4> QED
        BY ZenonT(60), <4>1 DEF Shape, ConShape
    <3>2. user' = user /\ UserShape'
      BY ZenonT(60), <1>7, <2>3, ShapeKept DEF Shape
    <3> QED
      BY ZenonT(60), <1>1, <1>2, <1>3, <1>4, <1>7, <2>3, <3>1, <3>2 DEF SetUp
  <2>4. CASE ~r.ok /\ cfg.tty.there = TRUE /\ r.t = [con EXCEPT !.sig = "tty"] /\ r.u = [user EXCEPT !.copied = user.size]
    <3>1. /\ ConShape' /\ con'.ptx = FALSE /\ con'.sig = "tty"
          /\ \A f \in {"log", "peer", "tios", "busy", "ring", "tty"} : con'[f] = con[f]
      <4>1. con' = [con EXCEPT !.sig = "tty", !.ptx = FALSE]
        BY ZenonT(60), <1>7, <2>4
      <4> QED
        BY ZenonT(60), <4>1 DEF Shape, ConShape
    <3>2. UserShape' /\ \A f \in {"raw", "typed", "seen", "size", "hup"} : user'[f] = user[f]
      <4>1. user' = [user EXCEPT !.copied = user.size]
        BY ZenonT(60), <1>7, <2>4
      <4> QED
        BY ZenonT(60), <1>6, <4>1 DEF Shape, UserShape
    <3> QED
      BY ZenonT(60), <1>1, <1>2, <1>3, <1>4, <1>7, <2>4, <3>1, <3>2 DEF SetUp
  <2>5. CASE /\ r.ok /\ cfg.tty.there = TRUE /\ r.t = [con EXCEPT !.sig = "tty", !.peer = "tty", !.tios = TRUE]
             /\ r.u = [user EXCEPT !.copied = user.size, !.raw = TRUE]
    <3>1. /\ ConShape' /\ con'.log = cfg.log /\ con'.sig = "tty" /\ con'.peer = "tty" /\ con'.tios = TRUE
          /\ \A f \in {"ptx", "busy", "ring", "tty"} : con'[f] = con[f]
      <4>1. con' = [con EXCEPT !.sig = "tty", !.peer = "tty", !.tios = TRUE, !.log = cfg.log]
        BY ZenonT(60), <1>7, <2>5
      <4> QED
        BY ZenonT(60), <1>2, <4>1 DEF Shape, ConShape
    <3>2. UserShape' /\ \A f \in {"typed", "seen", "size", "hup"} : user'[f] = user[f]
      <4>1. user' = [user EXCEPT !.copied = user.size, !.raw = TRUE]
        BY ZenonT(60), <1>7, <2>5
      <4> QED
        BY ZenonT(60), <1>6, <4>1 DEF Shape, UserShape
    <3> QED
      BY ZenonT(60), <1>1, <1>2, <1>3, <1>4, <1>7, <2>5, <3>1, <3>2 DEF SetUp
  <2> QED
    BY ZenonT(60), <2>1, <2>2, <2>3, <2>4, <2>5
<1>8. ASSUME NEW r \in lxc_terminal_peer_default(con, user), r.ok,
             con' = [r.t EXCEPT !.ptx = FALSE, !.peer = "no", !.tios = FALSE],
             user' = [r.u EXCEPT !.raw = FALSE], mon' = [mon EXCEPT !.pc = "end"]
      PROVE  /\ Shape' /\ SetUp
             /\ \A f \in {"busy", "ring", "tty"} : con'[f] = con[f]
             /\ \A f \in {"ev", "reg", "died", "why"} : mon'[f] = mon[f]
             /\ \A f \in {"typed", "seen", "size", "hup"} : user'[f] = user[f]
  <2>1. \/ r.t = con /\ r.u = user
        \/ /\ cfg.tty.there = TRUE /\ r.t = [con EXCEPT !.sig = "tty", !.peer = "tty", !.tios = TRUE]
           /\ r.u = [user EXCEPT !.copied = user.size, !.raw = TRUE]
    BY ZenonT(60), <1>1, <1>8, PeerDefaultIs
  <2>2. PICK s \in {con.sig, "tty"}, k \in {0, 1} :
            /\ con' = [con EXCEPT !.sig = s, !.ptx = FALSE, !.peer = "no", !.tios = FALSE]
            /\ user' = [user EXCEPT !.raw = FALSE, !.copied = k]
            /\ s = con.sig \/ (cfg.tty.there = TRUE /\ s = "tty")
    <3>1. CASE r.t = con /\ r.u = user
      <4>1. con' = [con EXCEPT !.sig = con.sig, !.ptx = FALSE, !.peer = "no", !.tios = FALSE]
        BY ZenonT(60), <1>8, <3>1 DEF Shape, ConShape
      <4>2. user' = [user EXCEPT !.raw = FALSE, !.copied = user.copied] /\ user.copied \in {0, 1}
        BY ZenonT(60), <1>8, <3>1 DEF Shape, UserShape
      <4> QED
        BY ZenonT(60), <4>1, <4>2
    <3>2. CASE /\ cfg.tty.there = TRUE /\ r.t = [con EXCEPT !.sig = "tty", !.peer = "tty", !.tios = TRUE]
               /\ r.u = [user EXCEPT !.copied = user.size, !.raw = TRUE]
      <4>1. con' = [con EXCEPT !.sig = "tty", !.ptx = FALSE, !.peer = "no", !.tios = FALSE]
        BY ZenonT(60), <1>8, <3>2 DEF Shape, ConShape
      <4>2. user' = [user EXCEPT !.raw = FALSE, !.copied = user.size]
        BY ZenonT(60), <1>8, <3>2 DEF Shape, UserShape
      <4> QED
        BY ZenonT(60), <1>6, <3>2, <4>1, <4>2
    <3> QED
      BY ZenonT(60), <2>1, <3>1, <3>2
  <2>3. con.sig \in {"no", "tty", "proxy"}
    BY ZenonT(60) DEF Shape, ConShape
  <2>4. s \in {"no", "tty", "proxy"}
    BY ZenonT(60), <2>3
  <2>5. /\ ConShape' /\ con'.ptx = FALSE /\ con'.peer = "no" /\ con'.sig = s
        /\ \A f \in {"log", "busy", "ring", "tty"} : con'[f] = con[f]
    BY ZenonT(60), <2>2, <2>4 DEF Shape, ConShape
  <2>6. UserShape' /\ user'.raw = FALSE /\ \A f \in {"typed", "seen", "size", "hup"} : user'[f] = user[f]
    BY ZenonT(60), <2>2 DEF Shape, UserShape
  <2>7. MonShape' /\ mon'.pc = "end" /\ \A f \in {"ev", "reg", "died", "why"} : mon'[f] = mon[f]
    BY ZenonT(60), <1>3, <1>8
  <2> QED
    BY ZenonT(60), <1>4, <2>2, <2>5, <2>6, <2>7 DEF SetUp
<1> QED
  BY ZenonT(60), <1>1, <1>5, <1>7, <1>8 DEF lxc_terminal_setup

\* lxc_poll(): the handlers are armed.
LEMMA PollEffect ==
    ASSUME Shape, lxc_poll
    PROVE  /\ Shape' /\ mon.pc = "poll"
           /\ \/ mon'.pc = "loop" /\ mon'.reg = {"sigfd"} \cup Handlers(con)
              \/ mon'.pc = "end" /\ mon'.reg = mon.reg
           /\ \A f \in {"ev", "died", "why"} : mon'[f] = mon[f]
           /\ UNCHANGED <<cfg, con, init, cli, q, got, log, user>> /\ faults' >= faults
<1>1. /\ mon.pc = "poll" /\ UNCHANGED <<cfg, con, init, cli, q, got, log, user>>
      /\ faults' \in Nat /\ faults' >= faults
  BY DEF Shape, lxc_poll, Fault, NoFault
<1>2. {"sigfd"} \cup Handlers(con) \in SUBSET (Fixed \cup Client) /\ {"loop", "end"} \subseteq MonPc
  BY ZenonT(60), HandlersOwn DEF Fixed, MonPc
<1>3. /\ MonShape' /\ \A f \in {"ev", "died", "why"} : mon'[f] = mon[f]
      /\ \/ mon'.pc = "loop" /\ mon'.reg = {"sigfd"} \cup Handlers(con)
         \/ mon'.pc = "end" /\ mon'.reg = mon.reg
  <2>1. CASE mon' = [mon EXCEPT !.pc = "loop", !.reg = {"sigfd"} \cup Handlers(con)]
    BY ZenonT(60), <1>2, <2>1 DEF Shape, MonShape
  <2>2. CASE mon' = [mon EXCEPT !.pc = "end"]
    BY ZenonT(60), <1>2, <2>2 DEF Shape, MonShape
  <2> QED
    BY ZenonT(60), <2>1, <2>2 DEF lxc_poll
<1>4. Shape'
  BY ZenonT(60), <1>1, <1>3, ShapeKept DEF Shape
<1> QED
  BY ZenonT(60), <1>1, <1>3, <1>4

\* epoll_wait(): what is ready is armed.
LEMMA EpollEffect ==
    ASSUME Shape, __lxc_mainloop_epoll
    PROVE  /\ Shape' /\ InLoop /\ \A f \in {"died", "why"} : mon'[f] = mon[f]
           /\ \/ mon'.pc = mon.pc /\ mon'.reg = mon.reg /\ \A i \in DOMAIN mon'.ev : mon'.ev[i] \in mon.reg
              \/ mon.pc = "drain" /\ mon'.pc = "end" /\ mon'.reg = {} /\ mon'.ev = <<>> /\ ("ptx" \in mon.reg => q.out = <<>>)
           /\ UNCHANGED <<cfg, con, init, cli, q, got, log, user, faults>>
<1> DEFINE ready == {h \in mon.reg : Ready(h)}
<1>1. InLoop /\ mon.ev = <<>> /\ UNCHANGED <<cfg, con, init, cli, q, got, log, user, faults>>
  BY ZenonT(60) DEF __lxc_mainloop_epoll
<1>2. mon.reg \in SUBSET (Fixed \cup Client)
  BY ZenonT(60) DEF Shape, MonShape
<1>3. CASE \E ev \in Injection(1 .. Cardinality(ready), ready) : mon' = [mon EXCEPT !.ev = ev]
  <2>1. PICK ev \in Injection(1 .. Cardinality(ready), ready) : mon' = [mon EXCEPT !.ev = ev]
    BY ZenonT(60), <1>3
  <2>2. ev \in [1 .. Cardinality(ready) -> ready]
    BY ZenonT(60) DEF Injection, IsInjective
  <2>3. Cardinality(ready) \in Nat
    BY ZenonT(60), <1>2, BatchAssumption
  <2>4. ready \subseteq mon.reg
    OBVIOUS
  <2> HIDE DEF ready
  <2>5. ev \in Seq(Fixed \cup Client) /\ \A i \in DOMAIN ev : ev[i] \in mon.reg
    BY <1>2, <2>2, <2>3, <2>4
  <2>6. MonShape' /\ mon'.ev = ev /\ \A f \in {"pc", "reg", "died", "why"} : mon'[f] = mon[f]
    BY ZenonT(60), <2>1, <2>5 DEF Shape, MonShape
  <2>7. Shape'
    BY ZenonT(60), <1>1, <2>6, ShapeKept DEF Shape
  <2> QED
    BY ZenonT(60), <1>1, <2>5, <2>6, <2>7
<1>4. CASE ready = {} /\ mon.pc = "drain" /\ mon' = [mon EXCEPT !.pc = "end", !.reg = {}]
  <2>1. MonShape' /\ mon'.pc = "end" /\ mon'.reg = {} /\ \A f \in {"ev", "died", "why"} : mon'[f] = mon[f]
    BY ZenonT(60), <1>4 DEF Shape, MonShape, MonPc
  <2>2. Shape'
    BY ZenonT(60), <1>1, <2>1, ShapeKept DEF Shape
  <2>3. "ptx" \in mon.reg => q.out = <<>>
    BY ZenonT(60), <1>4 DEF Ready
  <2> QED
    BY ZenonT(60), <1>1, <1>4, <2>1, <2>2, <2>3
<1> QED
  BY ZenonT(60), <1>3, <1>4 DEF __lxc_mainloop_epoll

\* The first event of the batch is dealt with, and the loop goes on or is left.
Goes(why) ==
    \/ mon'.ev = Tail(mon.ev) /\ \A f \in {"pc", "reg", "died", "why"} : mon'[f] = mon[f]
    \/ /\ mon'.ev = <<>> /\ mon'.pc = "drain" /\ mon.pc = "loop" /\ mon'.reg = Handlers(con)
       /\ mon'.died = TRUE /\ mon'.why = why /\ (why = "init" \/ mon.died = TRUE)
    \/ /\ mon'.ev = <<>> /\ mon'.pc = "end" /\ mon'.reg = {}
       /\ mon'.why = IF mon.pc = "drain" /\ mon.why = "init" THEN "cut" ELSE why
       /\ why = "init" => mon.pc # "loop"

\* signal_handler(): a signal of the monitor's own.
LEMMA SignalHandlerEffect ==
    ASSUME Shape, signal_handler
    PROVE  /\ Shape' /\ Turn("sigfd") /\ Goes("init") /\ ((mon'.ev = Tail(mon.ev) /\ mon'.pc = mon.pc) \/ init = FALSE)
           /\ UNCHANGED <<cfg, con, init, cli, q, got, log, user, faults>>
<1>1. Turn("sigfd") /\ UNCHANGED <<cfg, con, init, cli, q, got, log, user, faults>>
  BY ZenonT(60) DEF signal_handler
<1>2. CASE Next1
  <2>1. MonShape' /\ mon'.ev = Tail(mon.ev) /\ \A f \in {"pc", "reg", "died", "why"} : mon'[f] = mon[f]
    BY ZenonT(60), <1>1, <1>2, Next1Effect DEF Shape, Turn
  <2>2. Shape'
    BY ZenonT(60), <1>1, <2>1, ShapeKept DEF Shape
  <2> QED
    BY ZenonT(60), <1>1, <2>1, <2>2 DEF Goes
<1>3. CASE LeaveLoop("close", TRUE, "init") /\ ~init
  <2>1. /\ MonShape' /\ mon'.ev = <<>> /\ mon'.died = TRUE
        /\ \/ /\ mon.pc = "loop" /\ mon'.pc = "drain" /\ mon'.reg = Handlers(con) /\ mon'.why = "init"
           \/ /\ mon.pc # "loop" /\ mon'.pc = "end" /\ mon'.reg = {}
              /\ mon'.why = IF mon.pc = "drain" /\ mon.why = "init" THEN "cut" ELSE "init"
    BY ZenonT(60), <1>3, LeaveLoopEffect DEF Shape
  <2>2. Shape'
    BY ZenonT(60), <1>1, <2>1, ShapeKept DEF Shape
  <2> QED
    BY ZenonT(60), <1>1, <1>3, <2>1, <2>2 DEF Goes, Shape
<1> QED
  BY ZenonT(60), <1>2, <1>3 DEF signal_handler

\* lxc_terminal_signalfd_cb(): a signal for the terminal.
LEMMA SignalfdEffect ==
    ASSUME Shape, lxc_terminal_signalfd_cb
    PROVE  /\ Shape' /\ Turn("term") /\ Goes("term")
           /\ \A f \in {"raw", "typed", "seen", "size", "hup"} : user'[f] = user[f]
           /\ UNCHANGED <<cfg, con, init, cli, q, got, log, faults>>
<1>1. Turn("term") /\ UNCHANGED <<cfg, con, init, cli, q, got, log, faults>>
  BY ZenonT(60) DEF lxc_terminal_signalfd_cb
<1>2. CASE Next1 /\ lxc_terminal_winch
  <2>1. MonShape' /\ mon'.ev = Tail(mon.ev) /\ \A f \in {"pc", "reg", "died", "why"} : mon'[f] = mon[f]
    BY ZenonT(60), <1>1, <1>2, Next1Effect DEF Shape, Turn
  <2>2. user.size \in {0, 1} /\ user.copied \in {0, 1}
    BY ZenonT(60) DEF Shape, UserShape
  <2>3. UserShape' /\ \A f \in {"raw", "typed", "seen", "size", "hup"} : user'[f] = user[f]
    BY ZenonT(60), <1>2, <2>2 DEF Shape, UserShape, lxc_terminal_winch
  <2>4. Shape'
    BY ZenonT(60), <1>1, <2>1, <2>3, ShapeKept DEF Shape
  <2> QED
    BY ZenonT(60), <1>1, <2>1, <2>3, <2>4 DEF Goes
<1>3. CASE LeaveLoop("close", mon.died, "term") /\ user' = user
  <2>1. mon.died \in BOOLEAN
    BY ZenonT(60) DEF Shape, MonShape
  <2>2. /\ MonShape' /\ mon'.ev = <<>> /\ mon'.died = mon.died
        /\ \/ /\ mon.pc = "loop" /\ mon.died = TRUE /\ mon'.pc = "drain" /\ mon'.reg = Handlers(con) /\ mon'.why = "term"
           \/ /\ mon'.pc = "end" /\ mon'.reg = {}
              /\ mon'.why = IF mon.pc = "drain" /\ mon.why = "init" THEN "cut" ELSE "term"
    BY ZenonT(60), <1>3, <2>1, LeaveLoopEffect DEF Shape
  <2>3. Shape'
    BY ZenonT(60), <1>1, <1>3, <2>2, ShapeKept DEF Shape
  <2> QED
    BY ZenonT(60), <1>1, <1>3, <2>2, <2>3 DEF Goes
<1> QED
  BY ZenonT(60), <1>2, <1>3 DEF lxc_terminal_signalfd_cb

\* SubSeq with its length, as far as it is needed here.
LEMMA FirstOfSeq ==
    ASSUME NEW S, NEW s \in Seq(S), NEW n \in 0 .. Len(s)
    PROVE  /\ SubSeq(s, 1, n) \in Seq(S) /\ Len(SubSeq(s, 1, n)) = n /\ \A i \in 1 .. n : SubSeq(s, 1, n)[i] = s[i]
           /\ SubSeq(s, n + 1, Len(s)) \in Seq(S) /\ Len(SubSeq(s, n + 1, Len(s))) = Len(s) - n
           /\ \A i \in 1 .. Len(s) - n : SubSeq(s, n + 1, Len(s))[i] = s[n + i]
  BY SMTT(60)

\* lxc_terminal_write_log_file(): what is written, within the limit.
LEMMA WriteLogEffect ==
    ASSUME cfg \in Setups, LogShape, NEW s \in Seq(Nat), NEW ok \in BOOLEAN
    PROVE  LET l == lxc_terminal_write_log_file(log, s, ok) IN
           /\ l \in [cur : Seq(Nat), old : Seq(Nat), read : Seq(Nat)] /\ l.read = log.read
           /\ cfg.size > 0 => Len(l.cur) =< cfg.size \/ l.cur = log.cur
<1> DEFINE left == cfg.size - Len(log.cur)
           full == log.cur \o SubSeq(s, 1, left)
           rest == SubSeq(s, 1, MinOf(Len(s) - left, cfg.size))
           start == SubSeq(s, 1, MinOf(Len(s), cfg.size))
           T == [cur : Seq(Nat), old : Seq(Nat), read : Seq(Nat)]
           l == lxc_terminal_write_log_file(log, s, ok)
<1>1. cfg.size \in Nat /\ cfg.rotate \in BOOLEAN
  BY ZenonT(60), SetupsAssumption
<1>2. log \in T /\ log.cur \in Seq(Nat) /\ log.read \in Seq(Nat)
  BY ZenonT(60) DEF LogShape
<1>3. ASSUME NEW x \in Seq(Nat) PROVE [log EXCEPT !.cur = x] \in T /\ [log EXCEPT !.cur = x].read = log.read /\ [log EXCEPT !.cur = x].cur = x
  BY ZenonT(60), <1>2
<1>4. ASSUME NEW x \in Seq(Nat), NEW y \in Seq(Nat), NEW f, f = [log EXCEPT !.cur = y]
      PROVE  LET r == [f EXCEPT !.old = f.cur, !.cur = x] IN r \in T /\ r.read = log.read /\ r.cur = x
  <2>1. f \in T /\ f.cur = y /\ f.read = log.read
    BY ZenonT(60), <1>2, <1>4
  <2> QED
    BY ZenonT(60), <2>1
<1>5. start \in Seq(Nat) /\ Len(start) =< cfg.size
  BY <1>1, FirstOfSeq DEF MinOf
<1>6. log.cur \o s \in Seq(Nat) /\ Len(log.cur \o s) = Len(log.cur) + Len(s)
  BY <1>2
<1>7. left >= 0 /\ left < Len(s) => /\ full \in Seq(Nat) /\ Len(full) = cfg.size
                                    /\ rest \in Seq(Nat) /\ Len(rest) =< cfg.size
  <2> SUFFICES ASSUME left >= 0, left < Len(s)
               PROVE  full \in Seq(Nat) /\ Len(full) = cfg.size /\ rest \in Seq(Nat) /\ Len(rest) =< cfg.size
    BY SMTT(60)
  <2>1. left \in 0 .. Len(s) /\ MinOf(Len(s) - left, cfg.size) \in 0 .. Len(s) /\ MinOf(Len(s) - left, cfg.size) =< cfg.size
    BY SMTT(60), <1>1, <1>2 DEF MinOf
  <2>2. SubSeq(s, 1, left) \in Seq(Nat) /\ Len(SubSeq(s, 1, left)) = left
    BY SMTT(60), <2>1, FirstOfSeq
  <2>3. rest \in Seq(Nat) /\ Len(rest) =< cfg.size
    BY SMTT(60), <2>1, FirstOfSeq
  <2>4. full \in Seq(Nat) /\ Len(full) = Len(log.cur) + left
    <3> HIDE DEF left
    <3> QED
      BY SMTT(60), <1>2, <2>1, <2>2
  <2>5. Len(log.cur) \in Nat
    BY <1>2
  <2>6. Len(log.cur) + left = cfg.size
    BY ONLY <1>1, <2>5
  <2> QED
    BY ZenonT(60), <2>3, <2>4, <2>6
<1>8. \/ l = [log EXCEPT !.cur = log.cur \o s] /\ (cfg.size = 0 \/ Len(s) =< left)
      \/ l = [log EXCEPT !.cur = start]
      \/ l = log
      \/ left >= 0 /\ left < Len(s) /\ l = [[log EXCEPT !.cur = full] EXCEPT !.old = [log EXCEPT !.cur = full].cur, !.cur = rest]
      \/ left >= 0 /\ left < Len(s) /\ l = [log EXCEPT !.cur = full]
      \/ left >= 0 /\ left < Len(s) /\ l = [log EXCEPT !.cur = rest]
  <2>1. left \in Int /\ Len(s) \in Nat
    BY <1>1, <1>2
  <2> HIDE DEF left
  <2>2. ~(Len(s) =< left) /\ ~(left < 0) => left >= 0 /\ left < Len(s)
    BY <2>1
  <2> QED
    BY ZenonT(60), <2>2 DEF lxc_terminal_write_log_file, lxc_terminal_rotate_log_file, left
<1> HIDE DEF left, full, rest, start, T, l
<1>9. CASE l = [log EXCEPT !.cur = log.cur \o s] /\ (cfg.size = 0 \/ Len(s) =< left)
  <2>1. cfg.size > 0 => Len(log.cur \o s) =< cfg.size
    BY <1>1, <1>2, <1>6, <1>9 DEF left
  <2> QED
    BY ZenonT(60), <1>3, <1>6, <1>9, <2>1 DEF T, l
<1>10. CASE l = [log EXCEPT !.cur = start]
  BY ZenonT(60), <1>3, <1>5, <1>10 DEF T, l
<1>11. CASE l = log
  BY ZenonT(60), <1>2, <1>11 DEF T, l
<1>12. CASE left >= 0 /\ left < Len(s) /\ l = [[log EXCEPT !.cur = full] EXCEPT !.old = [log EXCEPT !.cur = full].cur, !.cur = rest]
  BY ZenonT(60), <1>4, <1>7, <1>12 DEF T, l
<1>13. CASE left >= 0 /\ left < Len(s) /\ l = [log EXCEPT !.cur = full]
  <2>1. full \in Seq(Nat) /\ Len(full) =< cfg.size
    BY <1>1, <1>7, <1>13
  <2> QED
    BY ZenonT(60), <1>3, <1>13, <2>1 DEF T, l
<1>14. CASE left >= 0 /\ left < Len(s) /\ l = [log EXCEPT !.cur = rest]
  BY ZenonT(60), <1>3, <1>7, <1>14 DEF T, l
<1> QED
  BY ZenonT(60), <1>8, <1>9, <1>10, <1>11, <1>12, <1>13, <1>14

\* What a read of n bytes from the console does.
PtxRead(n, ok) ==
    LET s == SubSeq(q.out, 1, n) IN
    /\ q'.out = SubSeq(q.out, n + 1, Len(q.out)) /\ \A f \in {"n", "pin", "uin"} : q'[f] = q[f]
    /\ q'.pout = IF con.peer = "proxy" THEN SubSeq(q.pout \o s, 1, MinOf(Len(q.pout \o s), Chunk)) ELSE q.pout
    /\ user'.seen = IF con.peer = "tty" THEN user.seen \o s ELSE user.seen
    /\ con'.ring = Latest(con.ring \o s, cfg.ring) /\ con'.log = (con.log /\ ok)
    /\ log'.read = log.read \o s
    /\ cfg.size > 0 => Len(log'.cur) =< cfg.size \/ log'.cur = log.cur
    /\ ok = TRUE \/ (cfg.rotate = TRUE /\ faults' > faults)

\* t is the end of s, at most k long.
EndOf(t, s, k) ==
    /\ Len(t) = MinOf(Len(s), k) /\ Len(t) \in Nat /\ Len(t) =< Len(s) /\ Len(t) =< k
    /\ \A i \in 1 .. Len(t) : t[i] = s[Len(s) - Len(t) + i]

\* What lxc_ringbuf_write() keeps is the end of all that was written.
LEMMA LatestOfSeq ==
    ASSUME NEW S, NEW s \in Seq(S), NEW k \in Nat, NEW t, t = Latest(s, k)
    PROVE  t \in Seq(S) /\ EndOf(t, s, k)
<1> DEFINE m == Len(s) - MinOf(Len(s), k)
<1>1. m \in 0 .. Len(s) /\ Len(s) - m = MinOf(Len(s), k) /\ MinOf(Len(s), k) =< k /\ MinOf(Len(s), k) \in 0 .. Len(s)
  BY DEF MinOf
<1>2. t = SubSeq(s, m + 1, Len(s))
  BY ZenonT(60) DEF Latest
<1> HIDE DEF m
<1>3. /\ SubSeq(s, m + 1, Len(s)) \in Seq(S) /\ Len(SubSeq(s, m + 1, Len(s))) = Len(s) - m
      /\ \A i \in 1 .. Len(s) - m : SubSeq(s, m + 1, Len(s))[i] = s[m + i]
  BY ZenonT(60), <1>1, FirstOfSeq
<1>4. Len(t) = Len(s) - m /\ m = Len(s) - Len(t) /\ t \in Seq(S)
  BY <1>1, <1>2, <1>3
<1>5. \A i \in 1 .. Len(t) : t[i] = s[Len(s) - Len(t) + i]
  BY ZenonT(60), <1>2, <1>3, <1>4
<1> QED
  BY <1>1, <1>4, <1>5 DEF EndOf

\* lxc_terminal_ptx_io(): output is read and passed on.
LEMMA PtxIoEffect ==
    ASSUME Shape, lxc_terminal_ptx_io_handler
    PROVE  /\ Shape' /\ Turn("ptx") /\ mon'.ev = Tail(mon.ev) /\ faults' >= faults
           /\ \A f \in {"pc", "reg", "died", "why"} : mon'[f] = mon[f]
           /\ \A f \in {"ptx", "peer", "busy", "sig", "tios", "tty"} : con'[f] = con[f]
           /\ \A f \in {"raw", "typed", "size", "copied", "hup"} : user'[f] = user[f]
           /\ \E n \in 1 .. Len(q.out), ok \in BOOLEAN : PtxRead(n, ok)
           /\ UNCHANGED <<cfg, init, cli, got>>
<1>1. Turn("ptx") /\ Next1 /\ UNCHANGED <<cfg, init, cli, got>>
  BY ZenonT(60) DEF lxc_terminal_ptx_io_handler
<1>2. MonShape' /\ mon'.ev = Tail(mon.ev) /\ \A f \in {"pc", "reg", "died", "why"} : mon'[f] = mon[f]
  BY ZenonT(60), <1>1, Next1Effect DEF Shape, Turn
<1>3. PICK n \in 1 .. MinOf(Len(q.out), Chunk), ok \in BOOLEAN : (IF ok THEN NoFault ELSE Fault) /\ lxc_terminal_ptx_io(n, ok)
  BY ZenonT(60) DEF lxc_terminal_ptx_io_handler
<1>4. q.out \in Seq(Nat) /\ q.pout \in Seq(Nat) /\ user.seen \in Seq(Nat) /\ con.ring \in Seq(Nat) /\ con.log \in BOOLEAN /\ log.read \in Seq(Nat)
  BY ZenonT(60) DEF Shape, QShape, UserShape, ConShape, LogShape
<1>5. cfg.ring \in Nat /\ cfg.size \in Nat /\ cfg.rotate \in BOOLEAN
  BY ZenonT(60), SetupsAssumption DEF Shape
<1>6. n \in 1 .. Len(q.out) /\ n \in 0 .. Len(q.out)
  BY <1>4, ChunkAssumption DEF MinOf
<1> DEFINE s == SubSeq(q.out, 1, n)
           p == IF con.peer = "proxy" THEN SubSeq(q.pout \o s, 1, MinOf(Len(q.pout \o s), Chunk)) ELSE q.pout
           o == SubSeq(q.out, n + 1, Len(q.out))
           lw == lxc_terminal_write_log_file(log, s, ok)
<1>7. s \in Seq(Nat) /\ o \in Seq(Nat)
  BY ZenonT(60), <1>4, <1>6, FirstOfSeq
<1>8. p \in Seq(Nat)
  <2>1. q.pout \o s \in Seq(Nat)
    BY <1>4, <1>7
  <2>2. MinOf(Len(q.pout \o s), Chunk) \in 0 .. Len(q.pout \o s)
    BY <2>1, ChunkAssumption DEF MinOf
  <2>3. SubSeq(q.pout \o s, 1, MinOf(Len(q.pout \o s), Chunk)) \in Seq(Nat)
    BY ZenonT(60), <2>1, <2>2, FirstOfSeq
  <2> QED
    BY ZenonT(60), <1>4, <2>3
<1>9. /\ ok \/ (con.log /\ Rotates(log, s))
      /\ q' = [q EXCEPT !.out = o, !.pout = p]
      /\ user' = [user EXCEPT !.seen = IF con.peer = "tty" THEN user.seen \o s ELSE user.seen]
      /\ con' = [con EXCEPT !.ring = RingWrite(con.ring, s), !.log = con.log /\ ok]
      /\ log' = [IF con.log THEN lw ELSE log EXCEPT !.read = @ \o s]
  BY ZenonT(60), <1>3 DEF lxc_terminal_ptx_io
<1>10. /\ lw \in [cur : Seq(Nat), old : Seq(Nat), read : Seq(Nat)] /\ lw.read = log.read
       /\ cfg.size > 0 => Len(lw.cur) =< cfg.size \/ lw.cur = log.cur
  BY ZenonT(60), <1>7, WriteLogEffect DEF Shape
<1> HIDE DEF s, p, o, lw
<1>11. QShape' /\ q'.out = o /\ q'.pout = p /\ \A f \in {"n", "pin", "uin"} : q'[f] = q[f]
  BY ZenonT(60), <1>7, <1>8, <1>9 DEF Shape, QShape
<1>12. PICK v \in Seq(Nat) : v = IF con.peer = "tty" THEN user.seen \o s ELSE user.seen
  <2>1. user.seen \o s \in Seq(Nat)
    BY <1>4, <1>7
  <2> QED
    BY ZenonT(60), <1>4, <2>1
<1>13. UserShape' /\ user'.seen = v /\ \A f \in {"raw", "typed", "size", "copied", "hup"} : user'[f] = user[f]
  BY ZenonT(60), <1>9, <1>12 DEF Shape, UserShape
<1>14. con.ring \o s \in Seq(Nat) /\ log.read \o s \in Seq(Nat)
  BY <1>4, <1>7
<1>15. RingWrite(con.ring, s) \in Seq(Nat) /\ RingWrite(con.ring, s) = Latest(con.ring \o s, cfg.ring)
  BY ZenonT(60), <1>5, <1>14, LatestOfSeq DEF RingWrite
<1>16. /\ ConShape' /\ con'.ring = RingWrite(con.ring, s) /\ con'.log = (con.log /\ ok)
       /\ \A f \in {"ptx", "peer", "busy", "sig", "tios", "tty"} : con'[f] = con[f]
  BY ZenonT(60), <1>9, <1>15 DEF Shape, ConShape
<1>17. PICK w \in [cur : Seq(Nat), old : Seq(Nat), read : Seq(Nat)] :
          w = (IF con.log THEN lw ELSE log) /\ w.read = log.read /\ (cfg.size > 0 => Len(w.cur) =< cfg.size \/ w.cur = log.cur)
  BY ZenonT(60), <1>10 DEF Shape, LogShape
<1>18. LogShape' /\ log'.read = log.read \o s /\ log'.cur = w.cur
  <2>1. log' = [w EXCEPT !.read = log.read \o s]
    BY ZenonT(60), <1>9, <1>17
  <2> QED
    BY ZenonT(60), <1>14, <1>17, <2>1 DEF LogShape
<1>19. faults' \in Nat /\ faults' >= faults /\ (ok = TRUE \/ (cfg.rotate = TRUE /\ faults' > faults))
  BY <1>3, <1>5, <1>9 DEF Shape, Fault, NoFault, Rotates
<1>20. Shape'
  BY ZenonT(60), <1>1, <1>2, <1>11, <1>13, <1>16, <1>18, <1>19, ShapeKept DEF Shape
<1>21. PtxRead(n, ok)
  BY ZenonT(60), <1>11, <1>12, <1>13, <1>15, <1>16, <1>17, <1>18, <1>19 DEF PtxRead, s, o, p
<1> QED
  BY ZenonT(60), <1>1, <1>2, <1>6, <1>13, <1>16, <1>19, <1>20, <1>21

\* The loop is left because of the peer.
LEMMA LeaveGoes ==
    ASSUME Shape, NEW ret, NEW why \in {"term", "hup", "stale"}, LeaveLoop(ret, mon.died, why)
    PROVE  MonShape' /\ Goes(why)
<1>1. mon.died \in BOOLEAN
  BY ZenonT(60) DEF Shape, MonShape
<1>2. /\ MonShape' /\ mon'.ev = <<>> /\ mon'.died = mon.died
      /\ \/ /\ mon.pc = "loop" /\ mon.died = TRUE /\ mon'.pc = "drain" /\ mon'.reg = Handlers(con) /\ mon'.why = why
         \/ /\ mon'.pc = "end" /\ mon'.reg = {}
            /\ mon'.why = IF mon.pc = "drain" /\ mon.why = "init" THEN "cut" ELSE why
  BY ZenonT(60), <1>1, LeaveLoopEffect DEF Shape
<1> QED
  BY ZenonT(60), <1>2 DEF Goes

\* lxc_terminal_peer_io(): input is passed on, or the terminal is gone.
LEMMA PeerIoEffect ==
    ASSUME Shape, lxc_terminal_peer_io_handler
    PROVE  /\ Shape' /\ Turn("peer") /\ Goes("hup")
           /\ \A f \in {"out", "n", "pout"} : q'[f] = q[f]
           /\ \/ q'.pin = q.pin /\ \A c \in Client : got'[c] = got[c]
              \/ /\ q'.pin = <<>> /\ \A c \in Client : got'[c] = IF c = con.busy THEN got[c] \o q.pin ELSE got[c]
                 /\ mon'.pc = mon.pc
           /\ UNCHANGED <<cfg, con, init, cli, log, user, faults>>
<1>1. Turn("peer") /\ UNCHANGED <<cfg, con, init, cli, log, user, faults>>
  BY ZenonT(60) DEF lxc_terminal_peer_io_handler
<1>2. ASSUME MonShape', QShape', got' \in [Client \cup {"tty"} -> Seq(STRING)] PROVE Shape'
  BY ZenonT(60), <1>1, <1>2, ShapeKept DEF Shape
<1>3. CASE LeaveLoop("close", mon.died, "hup") /\ UNCHANGED <<q, got>>
  <2>1. MonShape' /\ Goes("hup")
    BY ZenonT(60), <1>3, LeaveGoes
  <2>2. QShape'
    BY ZenonT(60), <1>3, ShapeKept DEF Shape
  <2> QED
    BY ZenonT(60), <1>1, <1>2, <1>3, <2>1, <2>2 DEF Shape
<1>4. Next1 => /\ MonShape' /\ Goes("hup") /\ mon'.pc = mon.pc
  BY ZenonT(60), <1>1, Next1Effect DEF Shape, Turn, Goes
<1>5. q.uin \in Seq(STRING) /\ q.pin \in Seq(STRING) /\ got \in [Client \cup {"tty"} -> Seq(STRING)]
  BY ZenonT(60) DEF Shape, QShape
<1>6. <<>> \in Seq(STRING)
  OBVIOUS
<1>7. CASE Next1 /\ got' = [got EXCEPT !["tty"] = @ \o q.uin] /\ q' = [q EXCEPT !.uin = <<>>]
  <2>1. QShape' /\ \A f \in {"out", "n", "pout", "pin"} : q'[f] = q[f]
    BY ZenonT(60), <1>6, <1>7 DEF Shape, QShape
  <2>2. got' \in [Client \cup {"tty"} -> Seq(STRING)] /\ \A c \in Client : got'[c] = got[c]
    BY <1>5, <1>7, ClientAssumption
  <2> QED
    BY ZenonT(60), <1>1, <1>2, <1>4, <1>7, <2>1, <2>2
<1>8. CASE Next1 /\ got' = [got EXCEPT ![con.busy] = @ \o q.pin] /\ q' = [q EXCEPT !.pin = <<>>]
  <2>1. QShape' /\ q'.pin = <<>> /\ \A f \in {"out", "n", "pout"} : q'[f] = q[f]
    BY ZenonT(60), <1>6, <1>8 DEF Shape, QShape
  <2>2. /\ got' \in [Client \cup {"tty"} -> Seq(STRING)]
        /\ \A c \in Client : got'[c] = IF c = con.busy THEN got[c] \o q.pin ELSE got[c]
    <3>1. con.busy \in Client \cup {NoOne}
      BY ZenonT(60) DEF Shape, ConShape
    <3>2. CASE con.busy \in Client
      <4>1. got[con.busy] \o q.pin \in Seq(STRING)
        BY <1>5, <3>2
      <4> QED
        BY ZenonT(60), <1>5, <1>8, <3>2, <4>1
    <3>3. CASE con.busy \notin Client
      <4>1. con.busy \notin Client \cup {"tty"}
        BY ZenonT(60), <3>1, <3>3 DEF NoOne
      <4> QED
        BY ZenonT(60), <1>5, <1>8, <4>1
    <3> QED
      BY ZenonT(60), <3>2, <3>3
  <2> QED
    BY ZenonT(60), <1>1, <1>2, <1>4, <1>8, <2>1, <2>2
<1> QED
  BY ZenonT(60), <1>3, <1>7, <1>8 DEF lxc_terminal_peer_io_handler

\* An event of a proxy that is gone.
LEMMA StaleEffect ==
    ASSUME Shape, StaleEvent
    PROVE  /\ Shape' /\ InLoop /\ mon.ev # <<>> /\ Head(mon.ev) \in FromPeer
           /\ \/ Goes("stale")
              \/ mon'.pc = "gone" /\ mon'.ev = <<>> /\ mon'.reg = {} /\ mon'.why = "crash" /\ mon'.died = mon.died
           /\ UNCHANGED <<cfg, con, init, cli, q, got, log, user, faults>>
<1>1. /\ Turn("stale peer") \/ Turn("stale term")
      /\ UNCHANGED <<cfg, con, init, cli, q, got, log, user, faults>>
  BY ZenonT(60) DEF StaleEvent
<1>2. InLoop /\ mon.ev # <<>> /\ Head(mon.ev) \in FromPeer
  BY ZenonT(60), <1>1 DEF Turn, FromPeer
<1>3. /\ MonShape'
      /\ \/ Goes("stale")
         \/ mon'.pc = "gone" /\ mon'.ev = <<>> /\ mon'.reg = {} /\ mon'.why = "crash" /\ mon'.died = mon.died
  <2>1. CASE Next1
    <3>1. MonShape' /\ mon'.ev = Tail(mon.ev) /\ \A f \in {"pc", "reg", "died", "why"} : mon'[f] = mon[f]
      BY ZenonT(60), <1>2, <2>1, Next1Effect DEF Shape
    <3> QED
      BY ZenonT(60), <3>1 DEF Goes
  <2>2. CASE \E ret : LeaveLoop(ret, mon.died, "stale")
    BY ZenonT(60), <2>2, LeaveGoes
  <2>3. CASE mon' = [mon EXCEPT !.pc = "gone", !.ev = <<>>, !.reg = {}, !.why = "crash"]
    <3>1. <<>> \in Seq(Fixed \cup Client) /\ {} \in SUBSET (Fixed \cup Client) /\ "gone" \in MonPc
      BY DEF MonPc
    <3> QED
      BY ZenonT(60), <2>3, <3>1 DEF Shape, MonShape
  <2> QED
    BY ZenonT(60), <2>1, <2>2, <2>3 DEF StaleEvent
<1>4. Shape'
  BY ZenonT(60), <1>1, <1>3, ShapeKept DEF Shape
<1> QED
  BY ZenonT(60), <1>1, <1>2, <1>3, <1>4

\* A request is granted, with the console or the tty, or refused.
Granted(c) ==
    \/ /\ cli[c].want = 0 /\ con.ptx = TRUE /\ con.busy = NoOne /\ con.peer = "no" /\ con.sig = "no"
       /\ con'.peer = "proxy" /\ con'.busy = c /\ con'.sig = "proxy" /\ con'.tty = con.tty
       /\ mon'.reg = mon.reg \cup {"peer", "term"} /\ cli'[c].conn = "open" /\ cli'[c].fd = "console"
    \/ /\ cli[c].want = 1 /\ con.tty = NoOne
       /\ con'.tty = c /\ \A f \in {"peer", "busy", "sig"} : con'[f] = con[f]
       /\ mon'.reg = mon.reg /\ cli'[c].conn = "open" /\ cli'[c].fd = "tty"
    \/ con' = con /\ mon'.reg = mon.reg \ {c} /\ cli'[c].conn = "refused" /\ cli'[c].fd = cli[c].fd

\* lxc_cmd_get_tty_fd_callback(): a request is answered.
LEMMA CallbackEffect ==
    ASSUME Shape, NEW c \in Client, lxc_cmd_get_tty_fd_callback(c)
    PROVE  /\ Shape' /\ Others(c) /\ Turn(c) /\ cli[c].conn = "request" /\ Granted(c)
           /\ \A f \in {"pc", "want", "typed", "i", "saw", "raw", "term", "seen"} : cli'[c][f] = cli[c][f]
           /\ \A f \in {"ptx", "tios", "log", "ring"} : con'[f] = con[f]
           /\ mon'.ev = Tail(mon.ev) /\ \A f \in {"pc", "died", "why"} : mon'[f] = mon[f]
           /\ UNCHANGED <<cfg, init, q, got, log, user>> /\ faults' >= faults
<1>1. /\ Turn(c) /\ cli[c].conn = "request" /\ UNCHANGED <<cfg, init, q, got, log, user>> /\ (Fault \/ NoFault)
  BY ZenonT(60) DEF lxc_cmd_get_tty_fd_callback
<1>2. faults' \in Nat /\ faults' >= faults /\ cli[c] \in ClientShape
  BY <1>1 DEF Shape, Fault, NoFault
<1>3. ASSUME MonShape', ConShape', cli' \in [Client -> ClientShape] PROVE Shape'
  BY ZenonT(60), <1>1, <1>2, <1>3, ShapeKept DEF Shape
<1>4. ASSUME NEW k \in {"open", "refused"}, NEW d \in {"no", "console", "tty"}, Becomes(c, [cli[c] EXCEPT !.conn = k, !.fd = d])
      PROVE  /\ cli' \in [Client -> ClientShape] /\ Others(c) /\ cli'[c].conn = k /\ cli'[c].fd = d
             /\ \A f \in {"pc", "want", "typed", "i", "saw", "raw", "term", "seen"} : cli'[c][f] = cli[c][f]
  <2>1. PICK r : r = [cli[c] EXCEPT !.conn = k, !.fd = d]
    BY ZenonT(60)
  <2>2. /\ r \in ClientShape /\ r.conn = k /\ r.fd = d
        /\ \A f \in {"pc", "want", "typed", "i", "saw", "raw", "term", "seen"} : r[f] = cli[c][f]
    BY ZenonT(60), <1>2, <2>1 DEF ClientShape
  <2>3. cli' \in [Client -> ClientShape] /\ cli'[c] = r /\ Others(c)
    BY ZenonT(60), <1>4, <2>1, <2>2, BecomesEffect DEF Shape
  <2> QED
    BY ZenonT(60), <2>2, <2>3
<1>5. Tail(mon.ev) \in Seq(Fixed \cup Client) /\ mon.reg \in SUBSET (Fixed \cup Client)
  <2>1. mon.ev \in Seq(Fixed \cup Client) /\ mon.reg \in SUBSET (Fixed \cup Client)
    BY ZenonT(60) DEF Shape, MonShape
  <2> QED
    BY <1>1, <2>1 DEF Turn
<1>6. ASSUME NEW R \in SUBSET (Fixed \cup Client), mon' = [mon EXCEPT !.ev = Tail(@), !.reg = R]
      PROVE  MonShape' /\ mon'.ev = Tail(mon.ev) /\ mon'.reg = R /\ \A f \in {"pc", "died", "why"} : mon'[f] = mon[f]
  BY ZenonT(60), <1>5, <1>6 DEF Shape, MonShape
<1>7. cli[c].want \in {0, 1} /\ cli[c].fd \in {"no", "console", "tty"} /\ con.ptx \in BOOLEAN
  BY ZenonT(60), <1>2 DEF Shape, ConShape, ClientShape
<1>8. CASE /\ cli[c].want = 0 /\ con.ptx /\ con.busy = NoOne /\ con.peer = "no" /\ con.sig = "no"
           /\ con' = [con EXCEPT !.peer = "proxy", !.busy = c, !.sig = "proxy"]
           /\ mon' = [mon EXCEPT !.ev = Tail(@), !.reg = @ \cup {"peer", "term"}]
           /\ Becomes(c, [cli[c] EXCEPT !.conn = "open", !.fd = "console"])
  <2>1. ConShape' /\ con'.peer = "proxy" /\ con'.busy = c /\ con'.sig = "proxy" /\ \A f \in {"ptx", "tios", "log", "ring", "tty"} : con'[f] = con[f]
    BY ZenonT(60), <1>8 DEF Shape, ConShape
  <2>2. mon.reg \cup {"peer", "term"} \in SUBSET (Fixed \cup Client)
    BY ZenonT(60), <1>5 DEF Fixed
  <2>3. MonShape' /\ mon'.ev = Tail(mon.ev) /\ mon'.reg = mon.reg \cup {"peer", "term"} /\ \A f \in {"pc", "died", "why"} : mon'[f] = mon[f]
    BY ZenonT(60), <1>6, <1>8, <2>2
  <2>4. /\ cli' \in [Client -> ClientShape] /\ Others(c) /\ cli'[c].conn = "open" /\ cli'[c].fd = "console"
        /\ \A f \in {"pc", "want", "typed", "i", "saw", "raw", "term", "seen"} : cli'[c][f] = cli[c][f]
    BY ZenonT(60), <1>4, <1>8
  <2>5. Shape'
    BY ZenonT(60), <1>3, <2>1, <2>3, <2>4
  <2> QED
    BY ZenonT(60), <1>1, <1>2, <1>7, <1>8, <2>1, <2>3, <2>4, <2>5 DEF Granted
<1>9. CASE /\ cli[c].want = 1 /\ con.tty = NoOne /\ con' = [con EXCEPT !.tty = c] /\ Next1
           /\ Becomes(c, [cli[c] EXCEPT !.conn = "open", !.fd = "tty"])
  <2>1. ConShape' /\ con'.tty = c /\ \A f \in {"ptx", "tios", "log", "ring", "peer", "busy", "sig"} : con'[f] = con[f]
    BY ZenonT(60), <1>9 DEF Shape, ConShape
  <2>2. MonShape' /\ mon'.ev = Tail(mon.ev) /\ \A f \in {"pc", "reg", "died", "why"} : mon'[f] = mon[f]
    BY ZenonT(60), <1>1, <1>9, Next1Effect DEF Shape, Turn
  <2>3. /\ cli' \in [Client -> ClientShape] /\ Others(c) /\ cli'[c].conn = "open" /\ cli'[c].fd = "tty"
        /\ \A f \in {"pc", "want", "typed", "i", "saw", "raw", "term", "seen"} : cli'[c][f] = cli[c][f]
    BY ZenonT(60), <1>4, <1>9
  <2>4. Shape'
    BY ZenonT(60), <1>3, <2>1, <2>2, <2>3
  <2> QED
    BY ZenonT(60), <1>1, <1>2, <1>9, <2>1, <2>2, <2>3, <2>4 DEF Granted
<1>10. CASE /\ Becomes(c, [cli[c] EXCEPT !.conn = "refused"]) /\ con' = con
            /\ mon' = [mon EXCEPT !.ev = Tail(@), !.reg = @ \ {c}]
  <2>1. ConShape'
    BY ZenonT(60), <1>10, ShapeKept DEF Shape
  <2>2. mon.reg \ {c} \in SUBSET (Fixed \cup Client)
    BY ZenonT(60), <1>5
  <2>3. MonShape' /\ mon'.ev = Tail(mon.ev) /\ mon'.reg = mon.reg \ {c} /\ \A f \in {"pc", "died", "why"} : mon'[f] = mon[f]
    BY ZenonT(60), <1>6, <1>10, <2>2
  <2>4. [cli[c] EXCEPT !.conn = "refused"] = [cli[c] EXCEPT !.conn = "refused", !.fd = cli[c].fd]
    BY ZenonT(60), <1>2 DEF ClientShape
  <2>5. /\ cli' \in [Client -> ClientShape] /\ Others(c) /\ cli'[c].conn = "refused" /\ cli'[c].fd = cli[c].fd
        /\ \A f \in {"pc", "want", "typed", "i", "saw", "raw", "term", "seen"} : cli'[c][f] = cli[c][f]
    BY ZenonT(60), <1>4, <1>7, <1>10, <2>4
  <2>6. Shape'
    BY ZenonT(60), <1>3, <2>1, <2>3, <2>5
  <2> QED
    BY ZenonT(60), <1>1, <1>2, <1>10, <2>1, <2>3, <2>5, <2>6 DEF Granted
<1> QED
  BY ZenonT(60), <1>7, <1>8, <1>9, <1>10 DEF lxc_cmd_get_tty_fd_callback, lxc_terminal_available, lxc_terminal_allocate

\* What is left of a batch of events.
LEMMA RestOfSeq ==
    ASSUME NEW S, NEW s \in Seq(S), s # <<>>
    PROVE  /\ Len(s) - 1 \in Nat /\ \A i \in 1 .. Len(s) - 1 : i + 1 \in DOMAIN s /\ s[i + 1] \in S
           /\ \A i \in DOMAIN Tail(s) : i + 1 \in DOMAIN s /\ Tail(s)[i] = s[i + 1]
           /\ 1 \in DOMAIN s /\ Head(s) = s[1]
  OBVIOUS

\* What the end of a client's connection frees.
Freed(c) ==
    \/ /\ con.busy # c /\ con'.tty = (IF con.tty = c THEN NoOne ELSE con.tty)
       /\ \A f \in {"peer", "busy", "sig"} : con'[f] = con[f]
       /\ mon'.ev = Tail(mon.ev) /\ q' = q
    \/ /\ con.busy = c /\ con'.peer = "no" /\ con'.busy = NoOne /\ con'.sig = "no" /\ con'.tty = con.tty
       /\ \A i \in DOMAIN mon'.ev :
             /\ i + 1 \in DOMAIN mon.ev
             /\ \/ mon'.ev[i] = mon.ev[i + 1]
                \/ mon.ev[i + 1] \in FromPeer /\ mon'.ev[i] \in {"stale peer", "stale term"}
       /\ q'.pin = <<>> /\ q'.pout = <<>>

\* lxc_cmd_cleanup_handler(): a client has gone.
LEMMA CleanupEffect ==
    ASSUME Shape, NEW c \in Client, lxc_cmd_cleanup_handler(c)
    PROVE  /\ Shape' /\ Others(c) /\ Turn(c) /\ cli[c].conn = "closed" /\ cli'[c].conn = "no" /\ Freed(c)
           /\ \A f \in {"pc", "want", "fd", "typed", "i", "saw", "raw", "term", "seen"} : cli'[c][f] = cli[c][f]
           /\ \A f \in {"ptx", "tios", "log", "ring"} : con'[f] = con[f]
           /\ mon'.reg \in {mon.reg \ {c}, mon.reg \ {c, "peer", "term"}}
           /\ \A f \in {"pc", "died", "why"} : mon'[f] = mon[f]
           /\ \A f \in {"out", "n", "uin"} : q'[f] = q[f]
           /\ UNCHANGED <<cfg, init, got, log, user, faults>>
<1>1. /\ Turn(c) /\ cli[c].conn = "closed" /\ cli[c] \in ClientShape /\ UNCHANGED <<cfg, init, got, log, user, faults>>
      /\ Becomes(c, [cli[c] EXCEPT !.conn = "no"]) /\ lxc_terminal_free(c)
  BY ZenonT(60) DEF Shape, lxc_cmd_cleanup_handler
<1>2. PICK r : r = [cli[c] EXCEPT !.conn = "no"]
  BY ZenonT(60)
<1>3. /\ r \in ClientShape /\ r.conn = "no"
      /\ \A f \in {"pc", "want", "fd", "typed", "i", "saw", "raw", "term", "seen"} : r[f] = cli[c][f]
  BY ZenonT(60), <1>1, <1>2 DEF ClientShape
<1>4. cli' \in [Client -> ClientShape] /\ cli'[c] = r /\ Others(c)
  BY ZenonT(60), <1>1, <1>2, <1>3, BecomesEffect DEF Shape
<1>5. ASSUME MonShape', ConShape', QShape' PROVE Shape'
  BY ZenonT(60), <1>1, <1>4, <1>5, ShapeKept DEF Shape
<1>6. mon.ev \in Seq(Fixed \cup Client) /\ mon.reg \in SUBSET (Fixed \cup Client) /\ mon.ev # <<>> /\ con.tty \in Client \cup {NoOne}
  BY ZenonT(60), <1>1 DEF Shape, MonShape, ConShape, Turn
<1>7. CASE con.busy # c
  <2>1. /\ con' = [con EXCEPT !.tty = IF con.tty = c THEN NoOne ELSE con.tty] /\ q' = q
        /\ mon' = [mon EXCEPT !.ev = Tail(mon.ev), !.reg = mon.reg \ {c}]
    BY ZenonT(60), <1>1, <1>7 DEF lxc_terminal_free
  <2>2. Tail(mon.ev) \in Seq(Fixed \cup Client) /\ mon.reg \ {c} \in SUBSET (Fixed \cup Client)
    BY <1>6
  <2>3. MonShape' /\ mon'.ev = Tail(mon.ev) /\ mon'.reg = mon.reg \ {c} /\ \A f \in {"pc", "died", "why"} : mon'[f] = mon[f]
    BY ZenonT(60), <2>1, <2>2 DEF Shape, MonShape
  <2>4. /\ ConShape' /\ con'.tty = (IF con.tty = c THEN NoOne ELSE con.tty)
        /\ \A f \in {"ptx", "tios", "log", "ring", "peer", "busy", "sig"} : con'[f] = con[f]
    BY ZenonT(60), <1>6, <2>1 DEF Shape, ConShape
  <2>5. QShape'
    BY ZenonT(60), <2>1, ShapeKept DEF Shape
  <2> QED
    BY ZenonT(60), <1>1, <1>3, <1>4, <1>5, <1>7, <2>1, <2>3, <2>4, <2>5 DEF Freed
<1>8. CASE con.busy = c
  <2> DEFINE ev == [i \in 1 .. Len(mon.ev) - 1 |-> CASE mon.ev[i + 1] = "peer" -> "stale peer"
                                                     [] mon.ev[i + 1] = "term" -> "stale term"
                                                     [] OTHER -> mon.ev[i + 1]]
  <2>1. /\ con' = [con EXCEPT !.peer = "no", !.busy = NoOne, !.sig = "no"]
        /\ mon' = [mon EXCEPT !.reg = mon.reg \ {c, "peer", "term"}, !.ev = ev]
        /\ q' = [q EXCEPT !.pin = <<>>, !.pout = <<>>]
    BY ZenonT(60), <1>1, <1>8 DEF lxc_terminal_free
  <2>2. ev \in Seq(Fixed \cup Client) /\ mon.reg \ {c, "peer", "term"} \in SUBSET (Fixed \cup Client)
    <3>1. Len(mon.ev) - 1 \in Nat /\ \A i \in 1 .. Len(mon.ev) - 1 : mon.ev[i + 1] \in Fixed \cup Client
      BY ZenonT(60), <1>6, RestOfSeq
    <3>2. {"stale peer", "stale term"} \subseteq Fixed \cup Client
      BY ZenonT(60) DEF Fixed
    <3>3. \A i \in 1 .. Len(mon.ev) - 1 : ev[i] \in Fixed \cup Client
      BY ZenonT(60), <3>1, <3>2
    <3>4. ev \in [1 .. Len(mon.ev) - 1 -> Fixed \cup Client]
      BY ZenonT(60), <3>3
    <3>5. ASSUME NEW n \in Nat, NEW S, NEW f \in [1 .. n -> S] PROVE f \in Seq(S)
      OBVIOUS
    <3>6. ev \in Seq(Fixed \cup Client)
      BY ZenonT(60), <3>1, <3>4, <3>5
    <3> QED
      BY ZenonT(60), <1>6, <3>6
  <2>3. \A i \in DOMAIN ev :
           /\ i + 1 \in DOMAIN mon.ev
           /\ \/ ev[i] = mon.ev[i + 1]
              \/ mon.ev[i + 1] \in FromPeer /\ ev[i] \in {"stale peer", "stale term"}
    <3>1. \A i \in 1 .. Len(mon.ev) - 1 : i + 1 \in DOMAIN mon.ev
      BY ZenonT(60), <1>6, RestOfSeq
    <3> QED
      BY ZenonT(60), <3>1 DEF FromPeer
  <2> HIDE DEF ev
  <2>4. MonShape' /\ mon'.ev = ev /\ mon'.reg = mon.reg \ {c, "peer", "term"} /\ \A f \in {"pc", "died", "why"} : mon'[f] = mon[f]
    BY ZenonT(60), <2>1, <2>2 DEF Shape, MonShape
  <2>5. /\ ConShape' /\ con'.peer = "no" /\ con'.busy = NoOne /\ con'.sig = "no"
        /\ \A f \in {"ptx", "tios", "log", "ring", "tty"} : con'[f] = con[f]
    BY ZenonT(60), <2>1 DEF Shape, ConShape
  <2>6. <<>> \in Seq(STRING) /\ <<>> \in Seq(Nat)
    OBVIOUS
  <2>7. QShape' /\ q'.pin = <<>> /\ q'.pout = <<>> /\ \A f \in {"out", "n", "uin"} : q'[f] = q[f]
    BY ZenonT(60), <2>1, <2>6 DEF Shape, QShape
  <2>8. Freed(c)
    BY ZenonT(60), <1>8, <2>3, <2>4, <2>5, <2>7 DEF Freed
  <2> QED
    BY ZenonT(60), <1>1, <1>3, <1>4, <1>5, <2>4, <2>5, <2>7, <2>8
<1> QED
  BY ZenonT(60), <1>7, <1>8

\* lxc_terminal_delete(): the console is given up.
LEMMA DeleteEffect ==
    ASSUME Shape, lxc_end
    PROVE  /\ Shape' /\ mon.pc = "end" /\ mon'.pc = "gone" /\ \A f \in {"ev", "reg", "died", "why"} : mon'[f] = mon[f]
           /\ con'.peer = "no" /\ con'.ptx = FALSE /\ con'.log = FALSE /\ \A f \in {"busy", "sig", "ring", "tty"} : con'[f] = con[f]
           /\ user'.raw = (user.raw /\ ~(con.tios /\ con.peer # "no")) /\ user'.seen = user.seen
           /\ log'.read = log.read
           /\ log'.cur = IF con.log = FALSE \/ con.ring = <<>> THEN log.cur ELSE SubSeq(con.ring, 1, MinOf(Len(con.ring), cfg.size))
           /\ UNCHANGED <<cfg, init, cli, q, got, faults>>
<1>1. mon.pc = "end" /\ mon' = [mon EXCEPT !.pc = "gone"] /\ UNCHANGED <<cfg, init, cli, q, got, faults>> /\ lxc_terminal_delete
  BY ZenonT(60) DEF lxc_end
<1>2. MonShape' /\ mon'.pc = "gone" /\ \A f \in {"ev", "reg", "died", "why"} : mon'[f] = mon[f]
  BY ZenonT(60), <1>1 DEF Shape, MonShape, MonPc
<1>3. /\ ConShape' /\ con'.peer = "no" /\ con'.ptx = FALSE /\ con'.log = FALSE
      /\ \A f \in {"busy", "sig", "ring", "tty"} : con'[f] = con[f]
  BY ZenonT(60), <1>1 DEF Shape, ConShape, lxc_terminal_delete
<1>4. UserShape' /\ user'.raw = (user.raw /\ ~(con.tios /\ con.peer # "no")) /\ user'.seen = user.seen
  <2>1. user' = [user EXCEPT !.raw = user.raw /\ ~(con.tios /\ con.peer # "no")]
    BY ZenonT(60), <1>1 DEF lxc_terminal_delete
  <2> QED
    BY ZenonT(60), <2>1 DEF Shape, UserShape
<1>5. con.log \in BOOLEAN /\ con.ring \in Seq(Nat) /\ cfg.size \in Nat
  <2>1. con.log \in BOOLEAN /\ con.ring \in Seq(Nat)
    BY ZenonT(60) DEF Shape, ConShape
  <2> QED
    BY ZenonT(60), <2>1, SetupsAssumption DEF Shape
<1>6. SubSeq(con.ring, 1, MinOf(Len(con.ring), cfg.size)) \in Seq(Nat)
  <2>1. MinOf(Len(con.ring), cfg.size) \in 0 .. Len(con.ring)
    BY <1>5 DEF MinOf
  <2> QED
    BY ZenonT(60), <1>5, <2>1, FirstOfSeq
<1>7. /\ LogShape' /\ log'.read = log.read
      /\ log'.cur = IF con.log = FALSE \/ con.ring = <<>> THEN log.cur ELSE SubSeq(con.ring, 1, MinOf(Len(con.ring), cfg.size))
  <2>1. CASE con.log = FALSE \/ con.ring = <<>>
    <3>1. log' = log
      BY ZenonT(60), <1>1, <2>1 DEF lxc_terminal_delete, lxc_terminal_write_ringbuffer
    <3> QED
      BY ZenonT(60), <2>1, <3>1, ShapeKept DEF Shape
  <2>2. CASE con.log = TRUE /\ con.ring # <<>>
    <3>1. log' = [log EXCEPT !.cur = SubSeq(con.ring, 1, MinOf(Len(con.ring), cfg.size))]
      BY ZenonT(60), <1>1, <2>2 DEF lxc_terminal_delete, lxc_terminal_write_ringbuffer
    <3>2. LogShape' /\ log'.read = log.read /\ log'.cur = SubSeq(con.ring, 1, MinOf(Len(con.ring), cfg.size))
      BY ZenonT(60), <1>6, <3>1 DEF Shape, LogShape
    <3> QED
      BY ZenonT(60), <2>2, <3>2
  <2> QED
    BY ZenonT(60), <1>5, <2>1, <2>2
<1>8. Shape'
  BY ZenonT(60), <1>1, <1>2, <1>3, <1>4, <1>7, ShapeKept DEF Shape
<1> QED
  BY ZenonT(60), <1>1, <1>2, <1>3, <1>4, <1>7, <1>8

\* The container writes a byte.
LEMMA WritesEffect ==
    ASSUME Shape, ContainerWrites
    PROVE  /\ Shape' /\ init = TRUE /\ con.ptx = TRUE /\ mon.pc \in {"poll", "loop"}
           /\ q'.n = q.n + 1 /\ q'.out = Append(q.out, q.n + 1) /\ \A f \in {"pin", "pout", "uin"} : q'[f] = q[f]
           /\ UNCHANGED <<cfg, con, mon, init, cli, got, log, user, faults>>
<1>1. /\ init = TRUE /\ con.ptx /\ mon.pc \in {"poll", "loop"} /\ q' = [q EXCEPT !.n = @ + 1, !.out = Append(@, q.n + 1)]
      /\ UNCHANGED <<cfg, con, mon, init, cli, got, log, user, faults>>
  BY ZenonT(60) DEF Shape, ContainerWrites
<1>2. q.n \in Nat /\ q.out \in Seq(Nat) /\ con.ptx \in BOOLEAN
  BY ZenonT(60) DEF Shape, QShape, ConShape
<1>3. q.n + 1 \in Nat /\ Append(q.out, q.n + 1) \in Seq(Nat)
  BY <1>2
<1>4. QShape' /\ q'.n = q.n + 1 /\ q'.out = Append(q.out, q.n + 1) /\ \A f \in {"pin", "pout", "uin"} : q'[f] = q[f]
  BY ZenonT(60), <1>1, <1>3 DEF Shape, QShape
<1>5. Shape'
  BY ZenonT(60), <1>1, <1>4, ShapeKept DEF Shape
<1> QED
  BY ZenonT(60), <1>1, <1>2, <1>4, <1>5

\* Something is typed at the monitor's own terminal.
LEMMA TypesEffect ==
    ASSUME Shape, UserTypes
    PROVE  /\ Shape' /\ \A f \in {"out", "n", "pin", "pout"} : q'[f] = q[f]
           /\ user'.raw = user.raw /\ user'.seen = user.seen
           /\ UNCHANGED <<cfg, con, mon, init, cli, got, log, faults>>
<1>1. UNCHANGED <<cfg, con, mon, init, cli, got, log, faults>>
  BY ZenonT(60) DEF UserTypes
<1>2. PICK t \in cfg.types : /\ Len(user.typed) < Len(t)
                             /\ user' = [user EXCEPT !.typed = Append(@, t[Len(user.typed) + 1])]
                             /\ q' = [q EXCEPT !.uin = Append(@, t[Len(user.typed) + 1])]
  BY ZenonT(60) DEF UserTypes
<1>3. user.typed \in Seq(STRING) /\ q.uin \in Seq(STRING)
  BY ZenonT(60) DEF Shape, UserShape, QShape
<1>4. t \in Seq(STRING)
  BY ZenonT(60), SetupsAssumption DEF Shape
<1>5. t[Len(user.typed) + 1] \in STRING
  BY <1>2, <1>3, <1>4
<1>6. Append(user.typed, t[Len(user.typed) + 1]) \in Seq(STRING) /\ Append(q.uin, t[Len(user.typed) + 1]) \in Seq(STRING)
  BY <1>3, <1>5
<1>7. UserShape' /\ user'.raw = user.raw /\ user'.seen = user.seen
  BY ZenonT(60), <1>2, <1>6 DEF Shape, UserShape
<1>8. QShape' /\ \A f \in {"out", "n", "pin", "pout"} : q'[f] = q[f]
  BY ZenonT(60), <1>2, <1>6 DEF Shape, QShape
<1>9. Shape'
  BY ZenonT(60), <1>1, <1>7, <1>8, ShapeKept DEF Shape
<1> QED
  BY ZenonT(60), <1>1, <1>7, <1>8, <1>9

\* A signal is sent to the monitor.
LEMMA SignalEffect ==
    ASSUME Shape, NEW x, Signal(x)
    PROVE  Shape' /\ user'.raw = user.raw /\ user'.seen = user.seen /\ UNCHANGED <<cfg, con, mon, init, cli, q, got, log, faults>>
<1>1. UNCHANGED <<cfg, con, mon, init, cli, q, got, log, faults>>
  BY ZenonT(60) DEF Signal
<1>2. user' = [user EXCEPT !.size = IF x = "WINCH" THEN 1 ELSE user.size, !.hup = user.hup \/ x = "HUP"]
  BY ZenonT(60) DEF Signal
<1>3. user.size \in {0, 1}
  BY ZenonT(60) DEF Shape, UserShape
<1>4. (IF x = "WINCH" THEN 1 ELSE user.size) \in {0, 1} /\ (user.hup \/ x = "HUP") \in BOOLEAN
  BY ZenonT(60), <1>3
<1>5. UserShape' /\ user'.raw = user.raw /\ user'.seen = user.seen
  BY ZenonT(60), <1>2, <1>4 DEF Shape, UserShape
<1>6. Shape'
  BY ZenonT(60), <1>1, <1>5, ShapeKept DEF Shape
<1> QED
  BY ZenonT(60), <1>1, <1>5, <1>6

\* The container's init exits.
LEMMA ExitsEffect ==
    ASSUME Shape, InitExits
    PROVE  Shape' /\ init' = FALSE /\ UNCHANGED <<cfg, con, mon, cli, q, got, log, user, faults>>
<1>1. init' = FALSE /\ UNCHANGED <<cfg, con, mon, cli, q, got, log, user, faults>>
  BY ZenonT(60) DEF InitExits
<1> QED
  BY ZenonT(60), <1>1, ShapeKept DEF Shape

-----------------------------------------------------------------------------
(* Users                                                                   *)

Booting == Early \cup {"poll"}

\* The fields of a record that has its shape.
LEMMA ClientTypes ==
    ASSUME Shape, NEW c \in Client
    PROVE  /\ cli[c].pc \in CliPc /\ cli[c].want \in {0, 1} /\ cli[c].conn \in {"no", "request", "open", "closed", "refused"}
           /\ cli[c].fd \in {"no", "console", "tty"} /\ cli[c].raw \in BOOLEAN
  BY ZenonT(60) DEF Shape, ClientShape

\* A step of the monitor's that leaves the clients alone.
LEMMA UsersFrame ==
    ASSUME Users, cli' = cli, con'.busy = con.busy, con'.tty = con.tty, mon'.pc \in Booting => mon.pc \in Booting
    PROVE  Users'
<1> SUFFICES ASSUME NEW c \in Client PROVE User(c)'
  BY ZenonT(60) DEF Users
<1>1. User(c)
  BY ZenonT(60) DEF Users
<1> QED
  BY ZenonT(60), <1>1 DEF User, Booting

\* A client's step leaves what belongs to the others.
LEMMA UsersOthers ==
    ASSUME Users, NEW c \in Client, Others(c), mon'.pc = mon.pc, User(c)',
           \A d \in Client \ {c} : (con'.busy = d <=> con.busy = d) /\ (con'.tty = d <=> con.tty = d)
    PROVE  Users'
<1> SUFFICES ASSUME NEW d \in Client \ {c} PROVE User(d)'
  BY ZenonT(60) DEF Users
<1>1. User(d)
  BY ZenonT(60) DEF Users
<1>2. cli'[d] = cli[d]
  BY ZenonT(60) DEF Others
<1> QED
  BY ZenonT(60), <1>1, <1>2 DEF User

\* The steps of a client.
LEMMA UsersClient ==
    ASSUME Shape, Users, NEW c \in Client, lxc_cmd_get_tty_fd(c) \/ Session(c) \/ ClientKilled(c) \/ ClientTold(c)
    PROVE  Users'
<1>1. User(c) /\ cli[c].fd \in {"no", "console", "tty"} /\ cli[c].raw \in BOOLEAN /\ cli[c].conn \in {"no", "request", "open", "closed", "refused"}
  BY ZenonT(60), ClientTypes DEF Users
<1>2. CASE lxc_cmd_get_tty_fd(c)
  <2>1. /\ Others(c) /\ cli[c].pc = "idle" /\ cli'[c].pc = "ask" /\ cli'[c].conn = "request"
        /\ cli'[c].fd = cli[c].fd /\ cli'[c].raw = cli[c].raw
        /\ mon.pc = "loop" /\ mon'.pc = "loop" /\ con' = con
    BY ZenonT(60), <1>2, GetTtyFdEffect
  <2>2. User(c)'
    BY ZenonT(60), <1>1, <2>1 DEF User, Early
  <2> QED
    BY ZenonT(60), <2>1, <2>2, UsersOthers
<1>3. CASE lxc_console_setup(c)
  <2>1. /\ Others(c) /\ cli[c].pc = "ask" /\ con' = con /\ mon' = mon
        /\ \/ cli[c].conn = "open" /\ cli'[c].pc = "loop" /\ cli'[c].raw = TRUE /\ cli'[c].fd = cli[c].fd /\ cli'[c].conn = "open"
           \/ /\ cli'[c].pc = "done" /\ cli'[c].fd = "no" /\ cli'[c].raw = cli[c].raw
              /\ cli'[c].conn = IF cli[c].conn \in {"open", "request"} THEN "closed" ELSE "no"
        /\ cli'[c].want = cli[c].want
    BY ZenonT(60), <1>3, SetupEffect
  <2>2. User(c)'
    BY ZenonT(60), <1>1, <2>1 DEF User
  <2> QED
    BY ZenonT(60), <2>1, <2>2, UsersOthers
<1>4. CASE lxc_terminal_stdin_cb(c)
  <2>1. /\ Others(c) /\ cli[c].pc = "loop" /\ con' = con /\ mon' = mon /\ cli'[c].pc \in {"loop", "close"}
        /\ \A f \in {"want", "conn", "fd", "raw"} : cli'[c][f] = cli[c][f]
    BY ZenonT(60), <1>4, StdinEffect
  <2>2. User(c)'
    BY ZenonT(60), <1>1, <2>1 DEF User
  <2> QED
    BY ZenonT(60), <2>1, <2>2, UsersOthers
<1>5. CASE lxc_terminal_ptx_cb(c)
  <2>1. /\ Others(c) /\ cli[c].pc = "loop" /\ con' = con /\ mon' = mon /\ cli'[c].pc \in {"loop", "close"}
        /\ \A f \in {"want", "conn", "fd", "raw"} : cli'[c][f] = cli[c][f]
    BY ZenonT(120), <1>5, PtxCbEffect
  <2>2. User(c)'
    BY ZenonT(60), <1>1, <2>1 DEF User
  <2> QED
    BY ZenonT(60), <2>1, <2>2, UsersOthers
<1>6. CASE lxc_console_term(c)
  <2>1. /\ Others(c) /\ cli[c].pc = "loop" /\ con' = con /\ mon' = mon /\ cli'[c].pc = "close"
        /\ \A f \in {"want", "conn", "fd", "raw"} : cli'[c][f] = cli[c][f]
    BY ZenonT(60), <1>6, TermEffect
  <2>2. User(c)'
    BY ZenonT(60), <1>1, <2>1 DEF User
  <2> QED
    BY ZenonT(60), <2>1, <2>2, UsersOthers
<1>7. CASE lxc_console_end(c)
  <2>1. /\ Others(c) /\ cli[c].pc = "close" /\ con' = con /\ mon' = mon
        /\ cli'[c].pc = "done" /\ cli'[c].fd = "no" /\ cli'[c].raw = FALSE /\ cli'[c].want = cli[c].want
        /\ cli'[c].conn = IF cli[c].conn = "open" THEN "closed" ELSE "no"
    BY ZenonT(60), <1>7, EndEffect
  <2>2. User(c)'
    BY ZenonT(60), <1>1, <2>1 DEF User
  <2> QED
    BY ZenonT(60), <2>1, <2>2, UsersOthers
<1>8. CASE ClientKilled(c)
  <2>1. /\ Others(c) /\ cli[c].pc \in {"ask", "loop"} /\ con' = con /\ mon' = mon
        /\ cli'[c].pc = "killed" /\ cli'[c].fd = "no" /\ cli'[c].raw = cli[c].raw /\ cli'[c].want = cli[c].want
        /\ cli'[c].conn = IF cli[c].conn \in {"open", "request"} THEN "closed" ELSE "no"
    BY ZenonT(60), <1>8, KilledEffect
  <2>2. User(c)'
    BY ZenonT(60), <1>1, <2>1 DEF User
  <2> QED
    BY ZenonT(60), <2>1, <2>2, UsersOthers
<1>9. CASE ClientTold(c)
  <2>1. /\ Others(c) /\ con' = con /\ mon' = mon
        /\ \A f \in {"pc", "want", "conn", "fd", "raw"} : cli'[c][f] = cli[c][f]
    BY ZenonT(60), <1>9, ToldEffect
  <2>2. User(c)'
    BY ZenonT(60), <1>1, <2>1 DEF User
  <2> QED
    BY ZenonT(60), <2>1, <2>2, UsersOthers
<1> QED
  BY ZenonT(60), <1>2, <1>3, <1>4, <1>5, <1>6, <1>7, <1>8, <1>9 DEF Session

\* lxc_terminal_allocate() and lxc_terminal_free(): what changes hands.
LEMMA UsersServed ==
    ASSUME Shape, Users, NEW c \in Client, lxc_cmd_get_tty_fd_callback(c) \/ lxc_cmd_cleanup_handler(c)
    PROVE  Users'
<1>1. /\ User(c) /\ cli[c].fd \in {"no", "console", "tty"} /\ cli[c].raw \in BOOLEAN /\ c # NoOne
      /\ \A d \in Client : d # NoOne
  BY ZenonT(60), ClientTypes, ClientAssumption DEF Users
<1>2. CASE lxc_cmd_get_tty_fd_callback(c)
  <2>1. /\ Others(c) /\ Turn(c) /\ cli[c].conn = "request" /\ Granted(c) /\ mon'.pc = mon.pc
        /\ \A f \in {"pc", "want", "raw"} : cli'[c][f] = cli[c][f]
    BY ZenonT(60), <1>2, CallbackEffect
  <2>2. \/ /\ cli[c].want = 0 /\ con.busy = NoOne /\ con'.busy = c /\ con'.tty = con.tty
           /\ cli'[c].conn = "open" /\ cli'[c].fd = "console"
        \/ /\ cli[c].want = 1 /\ con.tty = NoOne /\ con'.tty = c /\ con'.busy = con.busy
           /\ cli'[c].conn = "open" /\ cli'[c].fd = "tty"
        \/ con' = con /\ cli'[c].conn = "refused" /\ cli'[c].fd = cli[c].fd
    BY ZenonT(60), <2>1 DEF Granted
  <2>3. \A d \in Client \ {c} : (con'.busy = d <=> con.busy = d) /\ (con'.tty = d <=> con.tty = d)
    BY <1>1, <2>2
  <2>4. /\ cli'[c].pc = cli[c].pc /\ cli'[c].want = cli[c].want /\ cli'[c].raw = cli[c].raw
        /\ cli[c].conn = "request" /\ mon'.pc = mon.pc
    BY ZenonT(60), <2>1
  <2>5. User(c)'
    BY ZenonT(60), <1>1, <2>2, <2>4 DEF User
  <2> QED
    BY ZenonT(60), <2>1, <2>3, <2>5, UsersOthers
<1>3. CASE lxc_cmd_cleanup_handler(c)
  <2>1. /\ Others(c) /\ cli[c].conn = "closed" /\ cli'[c].conn = "no" /\ Freed(c) /\ mon'.pc = mon.pc
        /\ \A f \in {"pc", "want", "fd", "raw"} : cli'[c][f] = cli[c][f]
    BY <1>3, CleanupEffect
  <2>2. \/ con.busy # c /\ con'.busy = con.busy /\ con'.tty = (IF con.tty = c THEN NoOne ELSE con.tty)
        \/ con.busy = c /\ con'.busy = NoOne /\ con'.tty = con.tty
    BY ZenonT(60), <2>1 DEF Freed
  <2>3. \A d \in Client \ {c} : (con'.busy = d <=> con.busy = d) /\ (con'.tty = d <=> con.tty = d)
    BY <1>1, <2>2
  <2>4. /\ cli'[c].pc = cli[c].pc /\ cli'[c].want = cli[c].want /\ cli'[c].raw = cli[c].raw /\ cli'[c].fd = cli[c].fd
        /\ cli[c].conn = "closed" /\ cli'[c].conn = "no" /\ mon'.pc = mon.pc
    BY ZenonT(60), <2>1
  <2>5. User(c)'
    BY <1>1, <2>2, <2>4 DEF User
  <2> QED
    BY ZenonT(60), <2>1, <2>3, <2>5, UsersOthers
<1> QED
  BY ZenonT(60), <1>2, <1>3

-----------------------------------------------------------------------------
(* The console, its events and the end of the loop                         *)

Loop == Console /\ Events /\ Ending

\* Who may end the loop stays to blame for it.
LEMMA BlameStays ==
    ASSUME Blame, cfg' = cfg, \A c \in Client : cli[c].pc # "idle" => cli'[c].pc # "idle" /\ cli'[c].want = cli[c].want
    PROVE  Blame'
  BY ZenonT(60) DEF Blame

\* A client's step does not touch the console.
LEMMA LoopFrame ==
    ASSUME Loop, Blame => Blame', cfg' = cfg, con' = con, init' = init, user'.raw = user.raw, log'.read = log.read,
           \A f \in {"pc", "ev", "died", "why"} : mon'[f] = mon[f], mon'.reg \cap Fixed = mon.reg \cap Fixed, q'.out = q.out
    PROVE  Loop'
<1>1. /\ mon'.pc = mon.pc /\ mon'.ev = mon.ev /\ mon'.died = mon.died /\ mon'.why = mon.why
      /\ mon'.reg \cap FromPeer # {} => mon.reg \cap FromPeer # {}
      /\ "sigfd" \in mon'.reg <=> "sigfd" \in mon.reg
      /\ "ptx" \in mon'.reg <=> "ptx" \in mon.reg
  BY ZenonT(60) DEF Fixed, FromPeer
<1>2. Console'
  BY ZenonT(60), <1>1 DEF Loop, Console
<1>3. Events'
  BY ZenonT(60), <1>1 DEF Loop, Events
<1>4. Ending'
  BY ZenonT(60), <1>1 DEF Loop, Ending
<1> QED
  BY ZenonT(60), <1>2, <1>3, <1>4 DEF Loop

\* The steps of a client.
LEMMA LoopClient ==
    ASSUME Shape, Loop, NEW c \in Client, lxc_cmd_get_tty_fd(c) \/ Session(c) \/ ClientKilled(c) \/ ClientTold(c)
    PROVE  Loop'
<1>1. ASSUME Others(c), cfg' = cfg, cli[c].pc = "idle" \/ cli'[c].want = cli[c].want, cli'[c].pc # "idle"
      PROVE  Blame => Blame'
  BY ZenonT(60), <1>1, BlameStays DEF Others
<1>2. ASSUME Others(c), cli[c].pc = "idle" \/ cli'[c].want = cli[c].want, cli'[c].pc # "idle",
             cfg' = cfg, con' = con, init' = init, user' = user, log' = log, mon' = mon, q'.out = q.out
      PROVE  Loop'
  BY ZenonT(60), <1>1, <1>2, LoopFrame
<1>3. CASE lxc_cmd_get_tty_fd(c)
  <2>1. /\ Others(c) /\ cli[c].pc = "idle" /\ cli'[c].pc = "ask" /\ UNCHANGED <<cfg, con, init, q, log, user>>
        /\ mon.pc = "loop" /\ mon'.pc = "loop" /\ mon'.reg = mon.reg \cup {c}
        /\ mon'.ev = mon.ev /\ mon'.died = mon.died /\ mon'.why = mon.why
    BY ZenonT(60), <1>3, GetTtyFdEffect
  <2>2. mon'.reg \cap Fixed = mon.reg \cap Fixed /\ \A f \in {"pc", "ev", "died", "why"} : mon'[f] = mon[f]
    BY ZenonT(60), <2>1, ClientAssumption
  <2> QED
    BY ZenonT(60), <1>1, <2>1, <2>2, LoopFrame
<1>4. CASE lxc_console_setup(c)
  BY ZenonT(60), <1>2, <1>4, SetupEffect
<1>5. CASE lxc_terminal_stdin_cb(c)
  BY ZenonT(60), <1>2, <1>5, StdinEffect
<1>6. CASE lxc_terminal_ptx_cb(c)
  BY ZenonT(60), <1>2, <1>6, PtxCbEffect
<1>7. CASE lxc_console_term(c)
  BY ZenonT(60), <1>2, <1>7, TermEffect
<1>8. CASE lxc_console_end(c)
  BY ZenonT(60), <1>2, <1>8, EndEffect
<1>9. CASE ClientKilled(c)
  BY ZenonT(60), <1>2, <1>9, KilledEffect
<1>10. CASE ClientTold(c)
  BY ZenonT(60), <1>2, <1>10, ToldEffect
<1> QED
  BY ZenonT(60), <1>3, <1>4, <1>5, <1>6, <1>7, <1>8, <1>9, <1>10 DEF Session

\* The fields of the console and the monitor that have their shapes.
LEMMA LoopTypes ==
    ASSUME Shape
    PROVE  /\ con.ptx \in BOOLEAN /\ con.tios \in BOOLEAN /\ con.log \in BOOLEAN /\ user.raw \in BOOLEAN /\ mon.died \in BOOLEAN
           /\ mon.pc \in MonPc /\ mon.ev \in Seq(Fixed \cup Client) /\ con.busy \in Client \cup {NoOne}
           /\ cfg.tty.there \in BOOLEAN /\ cfg.want \in BOOLEAN /\ cfg.own \in BOOLEAN
<1>1. /\ con.ptx \in BOOLEAN /\ con.tios \in BOOLEAN /\ con.log \in BOOLEAN /\ user.raw \in BOOLEAN /\ mon.died \in BOOLEAN
      /\ mon.pc \in MonPc /\ mon.ev \in Seq(Fixed \cup Client) /\ con.busy \in Client \cup {NoOne}
  BY ZenonT(60) DEF Shape, ConShape, UserShape, MonShape
<1> QED
  BY ZenonT(60), <1>1, SetupsAssumption DEF Shape

\* The handlers of a console are there because of its ptx or its peer.
LEMMA HandlersWhy == /\ "ptx" \in Handlers(con) <=> con.ptx
                     /\ Handlers(con) \cap FromPeer # {} => con.peer # "no" \/ con.sig # "no"
  BY ZenonT(60) DEF Handlers, FromPeer

\* An event is dealt with: the loop goes on, or is left, for which somebody is
\* to blame if init has not died.
LEMMA LoopGoes ==
    ASSUME Shape, Loop, InLoop, mon.ev # <<>>, UNCHANGED <<cfg, con, init, cli, log>>, user'.raw = user.raw, q'.out = q.out,
           NEW why, Goes(why),
           \/ why \in {"term", "hup", "stale"} /\ Head(mon.ev) \in FromPeer
           \/ why = "init" /\ Head(mon.ev) = "sigfd" /\ (mon'.pc # mon.pc => init = FALSE)
    PROVE  Loop'
<1>1. /\ mon.pc \in {"loop", "drain"} /\ (Blame' <=> Blame)
      /\ \A i \in DOMAIN Tail(mon.ev) : i + 1 \in DOMAIN mon.ev /\ Tail(mon.ev)[i] = mon.ev[i + 1]
      /\ 1 \in DOMAIN mon.ev /\ Head(mon.ev) = mon.ev[1]
  BY ZenonT(60), LoopTypes, RestOfSeq DEF InLoop, Blame
<1>2. /\ Head(mon.ev) \in FromPeer => Blame
      /\ Head(mon.ev) = "sigfd" => mon.pc = "loop"
  BY ZenonT(60), <1>1 DEF Loop, Events
<1>3. CASE mon'.ev = Tail(mon.ev) /\ \A f \in {"pc", "reg", "died", "why"} : mon'[f] = mon[f]
  <2>1. mon'.ev = Tail(mon.ev) /\ mon'.pc = mon.pc /\ mon'.reg = mon.reg /\ mon'.died = mon.died /\ mon'.why = mon.why
    BY ZenonT(60), <1>3
  <2>2. Console'
    BY ZenonT(60), <1>1, <2>1 DEF Loop, Console
  <2>3. Events'
    BY <1>1, <2>1 DEF Loop, Events
  <2>4. Ending'
    BY ZenonT(60), <1>1, <2>1 DEF Loop, Ending
  <2> QED
    BY ZenonT(60), <2>2, <2>3, <2>4 DEF Loop
<1>4. CASE /\ mon'.ev = <<>> /\ mon'.pc = "drain" /\ mon.pc = "loop" /\ mon'.reg = Handlers(con)
           /\ mon'.died = TRUE /\ mon'.why = why /\ (why = "init" \/ mon.died = TRUE)
  <2>1. why = "init" /\ init = FALSE
    BY ZenonT(60), <1>4 DEF Loop, Ending
  <2>2. Console'
    BY ZenonT(60), <1>1, <1>4, HandlersWhy DEF Loop, Console, Early
  <2>3. Events'
    BY <1>4, HandlersWhy, HandlersOwn DEF Events, Early
  <2>4. Ending'
    BY ZenonT(60), <1>1, <1>4, <2>1 DEF Loop, Ending, Early
  <2> QED
    BY ZenonT(60), <2>2, <2>3, <2>4 DEF Loop
<1>5. CASE /\ mon'.ev = <<>> /\ mon'.pc = "end" /\ mon'.reg = {}
           /\ mon'.why = IF mon.pc = "drain" /\ mon.why = "init" THEN "cut" ELSE why
           /\ why = "init" => mon.pc # "loop"
  <2>1. Blame /\ mon'.why # "init"
    BY ZenonT(60), <1>1, <1>2, <1>5 DEF Loop, Ending
  <2>2. Console'
    BY ZenonT(60), <1>1, <1>5 DEF Loop, Console, Early
  <2>3. Events'
    BY <1>5 DEF Events, Early
  <2>4. Ending'
    BY ZenonT(60), <1>1, <1>5, <2>1 DEF Loop, Ending, Early
  <2> QED
    BY ZenonT(60), <2>2, <2>3, <2>4 DEF Loop
<1> QED
  BY ZenonT(60), <1>3, <1>4, <1>5 DEF Goes

\* The monitor before its loop.
LEMMA LoopBoot ==
    ASSUME Shape, Users, Loop,
           lxc_terminal_parent \/ lxc_recv_console_from_child \/ lxc_terminal_setup \/ lxc_poll
    PROVE  Loop'
<1>1. /\ con.ptx \in BOOLEAN /\ user.raw \in BOOLEAN /\ con.busy \in Client \cup {NoOne}
      /\ cfg.tty.there \in BOOLEAN /\ cfg.want \in BOOLEAN /\ cfg.own \in BOOLEAN
  BY ZenonT(60), LoopTypes
<1>2. mon.pc \in Early => con.busy = NoOne
  BY ZenonT(60), <1>1 DEF Users, User
<1>3. ASSUME cfg' = cfg, cli' = cli PROVE Blame' <=> Blame
  BY ZenonT(60), <1>3 DEF Blame
<1>4. CASE lxc_terminal_parent
  <2>1. /\ mon.pc = "init" /\ con'.peer = con.peer /\ con'.busy = con.busy /\ con'.sig = con.sig
        /\ mon'.ev = mon.ev /\ mon'.reg = mon.reg /\ mon'.died = mon.died /\ mon'.why = mon.why
        /\ \/ mon'.pc = "spawn" /\ con'.ptx = (cfg.want /\ ~cfg.own)
           \/ mon'.pc = "gone" /\ con'.ptx = con.ptx
        /\ UNCHANGED <<cfg, init, cli, q, log, user>>
    BY ZenonT(60), <1>4, ParentEffect
  <2>2. Console'
    BY ZenonT(60), <1>1, <1>3, <2>1 DEF Loop, Console, Early
  <2>3. Events'
    <3>1. mon.ev = <<>> /\ mon.reg \cap Fixed = {} /\ "ptx" \notin mon.reg /\ "sigfd" \notin mon.reg
      BY ZenonT(60), <2>1 DEF Loop, Events, Fixed
    <3> QED
      BY <2>1, <3>1 DEF Events
  <2>4. Ending'
    BY ZenonT(60), <1>3, <2>1 DEF Loop, Ending, Early
  <2> QED
    BY ZenonT(60), <2>2, <2>3, <2>4 DEF Loop
<1>5. CASE lxc_recv_console_from_child
  <2>1. /\ mon.pc = "spawn" /\ con'.peer = con.peer /\ con'.busy = con.busy /\ con'.sig = con.sig
        /\ mon'.ev = mon.ev /\ mon'.reg = mon.reg /\ mon'.died = mon.died /\ mon'.why = mon.why
        /\ \/ mon'.pc = "setup" /\ con'.ptx = cfg.want
           \/ mon'.pc = "end" /\ con'.ptx = con.ptx /\ cfg.want = TRUE /\ cfg.own = TRUE
        /\ UNCHANGED <<cfg, init, cli, q, log, user>>
    BY ZenonT(60), <1>5, RecvEffect
  <2>2. Console'
    BY ZenonT(60), <1>1, <1>3, <2>1 DEF Loop, Console, Early
  <2>3. Events'
    <3>1. mon.ev = <<>> /\ mon.reg \cap Fixed = {} /\ "ptx" \notin mon.reg /\ "sigfd" \notin mon.reg
      BY ZenonT(60), <2>1 DEF Loop, Events, Fixed
    <3> QED
      BY <2>1, <3>1 DEF Events
  <2>4. Ending'
    BY ZenonT(60), <1>3, <2>1 DEF Loop, Ending, Early
  <2> QED
    BY ZenonT(60), <2>2, <2>3, <2>4 DEF Loop
<1>6. CASE lxc_terminal_setup
  <2>1. mon.pc = "setup"
    BY ZenonT(60), <1>6 DEF lxc_terminal_setup
  <2>2. con.peer = "no" /\ con.sig = "no" /\ user.raw = FALSE /\ con.ptx = cfg.want /\ con.busy = NoOne
    BY ZenonT(60), <1>1, <1>2, <2>1 DEF Loop, Console, Early
  <2>3. /\ con'.busy = con.busy /\ SetUp /\ mon'.pc \in {"poll", "end"}
        /\ mon'.ev = mon.ev /\ mon'.reg = mon.reg /\ mon'.died = mon.died /\ mon'.why = mon.why
        /\ UNCHANGED <<cfg, init, cli, q, log>>
    BY ZenonT(60), <1>6, <2>2, TerminalSetupEffect DEF SetUp
  <2>4. Console'
    BY ZenonT(60), <1>1, <1>3, <2>1, <2>2, <2>3 DEF Loop, Console, Early, SetUp, Blame
  <2>5. Events'
    <3>1. mon.ev = <<>> /\ mon.reg \cap Fixed = {} /\ "ptx" \notin mon.reg /\ "sigfd" \notin mon.reg
      BY ZenonT(60), <2>1 DEF Loop, Events, Fixed
    <3> QED
      BY <2>3, <3>1 DEF Events
  <2>6. Ending'
    BY ZenonT(60), <1>3, <2>1, <2>3 DEF Loop, Ending, Early
  <2> QED
    BY ZenonT(60), <2>4, <2>5, <2>6 DEF Loop
<1>7. CASE lxc_poll
  <2>1. /\ mon.pc = "poll" /\ mon'.ev = mon.ev /\ mon'.died = mon.died /\ mon'.why = mon.why
        /\ \/ mon'.pc = "loop" /\ mon'.reg = {"sigfd"} \cup Handlers(con)
           \/ mon'.pc = "end" /\ mon'.reg = mon.reg
        /\ UNCHANGED <<cfg, con, init, cli, q, log, user>>
    BY ZenonT(60), <1>7, PollEffect
  <2>2. mon'.reg \cap FromPeer # {} => Blame
    <3>1. "sigfd" \notin FromPeer
      BY ZenonT(60) DEF FromPeer
    <3>2. CASE mon'.reg = {"sigfd"} \cup Handlers(con)
      BY ZenonT(60), <3>1, <3>2, HandlersWhy DEF Loop, Console
    <3> QED
      BY ZenonT(60), <2>1, <3>2 DEF Loop, Console
  <2>3. Console'
    BY ZenonT(60), <1>3, <2>1, <2>2 DEF Loop, Console, Early
  <2>4. Events'
    BY ZenonT(60), <1>3, <2>1, HandlersWhy DEF Loop, Events, Early
  <2>5. Ending'
    BY ZenonT(60), <1>3, <2>1 DEF Loop, Ending, Early
  <2> QED
    BY ZenonT(60), <2>3, <2>4, <2>5 DEF Loop
<1> QED
  BY ZenonT(60), <1>4, <1>5, <1>6, <1>7

\* The monitor's loop, but for requests.
LEMMA LoopSteps ==
    ASSUME Shape, Loop,
           \/ __lxc_mainloop_epoll \/ signal_handler \/ lxc_terminal_signalfd_cb \/ lxc_terminal_ptx_io_handler
           \/ lxc_terminal_peer_io_handler \/ StaleEvent \/ lxc_end
    PROVE  Loop'
<1>1. mon.ev \in Seq(Fixed \cup Client) /\ user.raw \in BOOLEAN /\ con.ptx \in BOOLEAN
  BY ZenonT(60), LoopTypes
<1>2. ASSUME cfg' = cfg, cli' = cli PROVE Blame' <=> Blame
  BY ZenonT(60), <1>2 DEF Blame
<1>3. CASE __lxc_mainloop_epoll
  <2>1. /\ mon.pc \in {"loop", "drain"} /\ mon'.died = mon.died /\ mon'.why = mon.why
        /\ \/ mon'.pc = mon.pc /\ mon'.reg = mon.reg /\ \A i \in DOMAIN mon'.ev : mon'.ev[i] \in mon.reg
           \/ mon.pc = "drain" /\ mon'.pc = "end" /\ mon'.reg = {} /\ mon'.ev = <<>> /\ ("ptx" \in mon.reg => q.out = <<>>)
        /\ UNCHANGED <<cfg, con, init, cli, q, log, user>>
    BY ZenonT(60), <1>3, EpollEffect DEF InLoop
  <2>2. Console'
    BY ZenonT(60), <1>2, <2>1 DEF Loop, Console, Early
  <2>3. Events'
    <3>1. \A i \in DOMAIN mon'.ev : mon'.ev[i] \in mon.reg => (mon'.ev[i] \in FromPeer => Blame)
      BY ZenonT(60) DEF Loop, Console
    <3> QED
      BY <1>2, <2>1, <3>1 DEF Loop, Events, Early
  <2>4. Ending'
    BY ZenonT(60), <1>2, <2>1 DEF Loop, Ending, Events, Early
  <2> QED
    BY ZenonT(60), <2>2, <2>3, <2>4 DEF Loop
<1>4. CASE signal_handler
  BY ZenonT(60), <1>4, SignalHandlerEffect, LoopGoes DEF Turn
<1>5. CASE lxc_terminal_signalfd_cb
  BY ZenonT(60), <1>5, SignalfdEffect, LoopGoes DEF Turn, FromPeer
<1>6. CASE lxc_terminal_peer_io_handler
  BY ZenonT(60), <1>6, PeerIoEffect, LoopGoes DEF Turn, FromPeer
<1>7. CASE lxc_terminal_ptx_io_handler
  <2>1. /\ mon.pc \in {"loop", "drain"} /\ mon.ev # <<>> /\ Head(mon.ev) = "ptx" /\ mon'.ev = Tail(mon.ev)
        /\ mon'.pc = mon.pc /\ mon'.reg = mon.reg /\ mon'.died = mon.died /\ mon'.why = mon.why
        /\ con'.ptx = con.ptx /\ con'.peer = con.peer /\ con'.busy = con.busy /\ con'.sig = con.sig /\ con'.tios = con.tios
        /\ user'.raw = user.raw /\ UNCHANGED <<cfg, init, cli>>
    BY ZenonT(60), <1>7, PtxIoEffect DEF Turn, InLoop
  <2>2. /\ \A i \in DOMAIN Tail(mon.ev) : i + 1 \in DOMAIN mon.ev /\ Tail(mon.ev)[i] = mon.ev[i + 1]
        /\ 1 \in DOMAIN mon.ev /\ mon.ev[1] = "ptx"
    BY ZenonT(60), <1>1, <2>1, RestOfSeq
  <2>3. con.ptx = TRUE
    BY ZenonT(60), <1>1, <2>2 DEF Loop, Events
  <2>4. Console'
    BY ZenonT(60), <1>2, <2>1 DEF Loop, Console
  <2>5. Events'
    BY <1>2, <2>1, <2>2 DEF Loop, Events, Early
  <2>6. Ending'
    BY ZenonT(60), <1>2, <2>1, <2>3 DEF Loop, Ending, Early
  <2> QED
    BY ZenonT(60), <2>4, <2>5, <2>6 DEF Loop
<1>8. CASE StaleEvent
  <2>1. /\ InLoop /\ mon.ev # <<>> /\ Head(mon.ev) \in FromPeer
        /\ \/ Goes("stale")
           \/ mon'.pc = "gone" /\ mon'.ev = <<>> /\ mon'.reg = {} /\ mon'.why = "crash" /\ mon'.died = mon.died
        /\ UNCHANGED <<cfg, con, init, cli, q, log, user>>
    BY ZenonT(60), <1>8, StaleEffect
  <2>2. CASE Goes("stale")
    BY ZenonT(60), <2>1, <2>2, LoopGoes
  <2>3. CASE mon'.pc = "gone" /\ mon'.ev = <<>> /\ mon'.reg = {} /\ mon'.why = "crash"
    <3>1. Blame
      BY <1>1, <2>1, RestOfSeq DEF Loop, Events
    <3>2. Console'
      BY ZenonT(60), <1>2, <2>1, <2>3 DEF Loop, Console, Early, InLoop
    <3>3. Events'
      BY <2>3 DEF Events, Early
    <3>4. Ending'
      BY ZenonT(60), <1>2, <2>1, <2>3, <3>1 DEF Ending, Early
    <3> QED
      BY ZenonT(60), <3>2, <3>3, <3>4 DEF Loop
  <2> QED
    BY ZenonT(60), <2>1, <2>2, <2>3
<1>9. CASE lxc_end
  <2>1. /\ mon.pc = "end" /\ mon'.pc = "gone" /\ mon'.ev = mon.ev /\ mon'.reg = mon.reg /\ mon'.died = mon.died /\ mon'.why = mon.why
        /\ con'.peer = "no" /\ con'.ptx = FALSE /\ con'.busy = con.busy /\ con'.sig = con.sig
        /\ user'.raw = (user.raw /\ ~(con.tios /\ con.peer # "no")) /\ UNCHANGED <<cfg, init, cli, q>>
    BY ZenonT(60), <1>9, DeleteEffect
  <2>2. Console'
    BY ZenonT(60), <1>1, <1>2, <2>1 DEF Loop, Console, Early
  <2>3. Events'
    <3>1. mon.ev = <<>> /\ mon.reg \cap Fixed = {} /\ "ptx" \notin mon.reg /\ "sigfd" \notin mon.reg
      BY ZenonT(60), <2>1 DEF Loop, Events, Fixed
    <3> QED
      BY <2>1, <3>1 DEF Events
  <2>4. Ending'
    BY ZenonT(60), <1>2, <2>1 DEF Loop, Ending, Early
  <2> QED
    BY ZenonT(60), <2>2, <2>3, <2>4 DEF Loop
<1> QED
  BY ZenonT(60), <1>3, <1>4, <1>5, <1>6, <1>7, <1>8, <1>9

\* The requests of clients, and the ends of their connections.
LEMMA LoopServed ==
    ASSUME Shape, Users, Loop, NEW c \in Client, lxc_cmd_get_tty_fd_callback(c) \/ lxc_cmd_cleanup_handler(c)
    PROVE  Loop'
<1>1. /\ mon.ev \in Seq(Fixed \cup Client) /\ user.raw \in BOOLEAN /\ con.ptx \in BOOLEAN /\ cfg.tty.there \in BOOLEAN
      /\ c \notin Fixed /\ c # NoOne
  BY ZenonT(60), LoopTypes, ClientAssumption
<1>2. CASE lxc_cmd_get_tty_fd_callback(c)
  <2>1. /\ Others(c) /\ Turn(c) /\ cli[c].conn = "request" /\ Granted(c)
        /\ cli'[c].pc = cli[c].pc /\ cli'[c].want = cli[c].want
        /\ con'.ptx = con.ptx /\ con'.tios = con.tios
        /\ mon'.ev = Tail(mon.ev) /\ mon'.pc = mon.pc /\ mon'.died = mon.died /\ mon'.why = mon.why
        /\ UNCHANGED <<cfg, init, q, log, user>>
    BY ZenonT(60), <1>2, CallbackEffect
  <2>2. mon.pc \in {"loop", "drain"} /\ \A i \in DOMAIN Tail(mon.ev) : i + 1 \in DOMAIN mon.ev /\ Tail(mon.ev)[i] = mon.ev[i + 1]
    BY ZenonT(60), <1>1, <2>1, RestOfSeq DEF Turn, InLoop
  <2>3. Blame => Blame'
    BY ZenonT(60), <2>1, BlameStays DEF Others
  <2>4. cli[c].want = 0 => Blame'
    <3>1. cli[c].pc = "ask"
      BY ZenonT(60), <2>1 DEF Users, User
    <3> QED
      BY ZenonT(60), <2>1, <3>1 DEF Blame
  <2>5. \/ /\ cli[c].want = 0 /\ con.peer = "no"
           /\ con'.peer = "proxy" /\ con'.busy = c /\ mon'.reg = mon.reg \cup {"peer", "term"}
        \/ /\ con'.peer = con.peer /\ con'.busy = con.busy /\ con'.sig = con.sig
           /\ mon'.reg \in {mon.reg, mon.reg \ {c}}
    BY ZenonT(60), <2>1 DEF Granted
  <2>6. /\ "sigfd" \in mon'.reg <=> "sigfd" \in mon.reg
        /\ "ptx" \in mon'.reg <=> "ptx" \in mon.reg
        /\ mon'.reg \cap FromPeer # {} => Blame'
    <3>1. "ptx" # c /\ "sigfd" # c
      BY ZenonT(60), <1>1 DEF Fixed
    <3>2. mon.reg \cap FromPeer # {} => Blame
      BY ZenonT(60) DEF Loop, Console
    <3> QED
      BY ZenonT(60), <2>3, <2>4, <2>5, <3>1, <3>2
  <2>7. Console'
    BY ZenonT(60), <1>1, <2>1, <2>2, <2>3, <2>4, <2>5, <2>6 DEF Loop, Console, Early
  <2>8. Events'
    BY SMTT(60), <2>1, <2>2, <2>3, <2>6 DEF Loop, Events, Early
  <2>9. Ending'
    BY ZenonT(60), <2>1, <2>2, <2>3 DEF Loop, Ending, Early
  <2> QED
    BY ZenonT(60), <2>7, <2>8, <2>9 DEF Loop
<1>3. CASE lxc_cmd_cleanup_handler(c)
  <2>1. /\ Others(c) /\ Turn(c) /\ cli[c].conn = "closed" /\ Freed(c)
        /\ cli'[c].pc = cli[c].pc /\ cli'[c].want = cli[c].want
        /\ con'.ptx = con.ptx /\ con'.tios = con.tios
        /\ mon'.reg \in {mon.reg \ {c}, mon.reg \ {c, "peer", "term"}}
        /\ mon'.pc = mon.pc /\ mon'.died = mon.died /\ mon'.why = mon.why /\ q'.out = q.out
        /\ UNCHANGED <<cfg, init, log, user>>
    BY ZenonT(60), <1>3, CleanupEffect
  <2>2. mon.pc \in {"loop", "drain"} /\ mon.ev # <<>>
    BY ZenonT(60), <2>1 DEF Turn, InLoop
  <2>3. Blame => Blame'
    BY ZenonT(60), <2>1, BlameStays DEF Others
  <2>4. \/ con'.peer = con.peer /\ con'.busy = con.busy /\ con'.sig = con.sig
        \/ con.busy = c /\ con'.peer = "no" /\ con'.busy = NoOne /\ con'.sig = "no"
    BY ZenonT(60), <2>1 DEF Freed
  <2>5. \A i \in DOMAIN mon'.ev :
           /\ i + 1 \in DOMAIN mon.ev
           /\ \/ mon'.ev[i] = mon.ev[i + 1]
              \/ mon.ev[i + 1] \in FromPeer /\ mon'.ev[i] \in {"stale peer", "stale term"}
    <3>1. CASE mon'.ev = Tail(mon.ev)
      <4>1. \A i \in DOMAIN Tail(mon.ev) : i + 1 \in DOMAIN mon.ev /\ Tail(mon.ev)[i] = mon.ev[i + 1]
        BY ZenonT(60), <1>1, <2>2, RestOfSeq
      <4> QED
        BY ZenonT(60), <3>1, <4>1
    <3> QED
      BY ZenonT(60), <2>1, <3>1 DEF Freed
  <2>6. /\ "sigfd" \in mon'.reg <=> "sigfd" \in mon.reg
        /\ "ptx" \in mon'.reg <=> "ptx" \in mon.reg
        /\ mon'.reg \cap FromPeer # {} => mon.reg \cap FromPeer # {}
    BY ZenonT(60), <1>1, <2>1 DEF Fixed
  <2>7. Console'
    BY ZenonT(60), <1>1, <2>1, <2>2, <2>3, <2>4, <2>6 DEF Loop, Console, Early
  <2>8. Events'
    BY ZenonT(60), <2>1, <2>2, <2>3, <2>5, <2>6 DEF Loop, Events, Early
  <2>9. Ending'
    BY ZenonT(60), <2>1, <2>2, <2>3 DEF Loop, Ending, Early
  <2> QED
    BY ZenonT(60), <2>7, <2>8, <2>9 DEF Loop
<1> QED
  BY ZenonT(60), <1>2, <1>3

\* The container, the user and the signals.
LEMMA LoopAround ==
    ASSUME Shape, Loop, ContainerWrites \/ InitExits \/ UserTypes \/ \E x \in cfg.sends : Signal(x)
    PROVE  Loop'
<1>1. ASSUME cfg' = cfg, cli' = cli PROVE Blame' <=> Blame
  BY ZenonT(60), <1>1 DEF Blame
<1>2. CASE ContainerWrites
  <2>1. /\ con.ptx = TRUE /\ mon.pc \in {"poll", "loop"} /\ UNCHANGED <<cfg, con, mon, init, cli, log, user>>
    BY ZenonT(60), <1>2, WritesEffect
  <2>2. Console' /\ Events'
    BY ZenonT(60), <1>1, <2>1 DEF Loop, Console, Events
  <2>3. Ending'
    BY ZenonT(60), <1>1, <2>1 DEF Loop, Ending, Early
  <2> QED
    BY ZenonT(60), <2>2, <2>3 DEF Loop
<1>3. CASE InitExits
  <2>1. init' = FALSE /\ UNCHANGED <<cfg, con, mon, cli, q, log, user>>
    BY ZenonT(60), <1>3, ExitsEffect
  <2>2. Console' /\ Events' /\ Ending'
    BY <1>1, <2>1 DEF Loop, Console, Events, Ending
  <2> QED
    BY ZenonT(60), <2>2 DEF Loop
<1>4. CASE UserTypes
  BY ZenonT(60), <1>1, <1>4, TypesEffect, LoopFrame
<1>5. CASE \E x \in cfg.sends : Signal(x)
  BY ZenonT(60), <1>1, <1>5, SignalEffect, LoopFrame
<1> QED
  BY ZenonT(60), <1>2, <1>3, <1>4, <1>5

-----------------------------------------------------------------------------
(* The bytes on their way out                                              *)

\* The fields that carry them.
LEMMA OutTypes ==
    ASSUME Shape
    PROVE  /\ q.out \in Seq(Nat) /\ q.n \in Nat /\ q.pout \in Seq(Nat) /\ q.pin \in Seq(STRING)
           /\ log.read \in Seq(Nat) /\ log.cur \in Seq(Nat) /\ user.seen \in Seq(Nat) /\ con.ring \in Seq(Nat)
           /\ con.log \in BOOLEAN /\ con.ptx \in BOOLEAN /\ con.busy \in Client \cup {NoOne}
           /\ \A c \in Client : cli[c].seen \in Seq(Nat)
           /\ cfg.ring \in Nat /\ cfg.size \in Nat /\ cfg.log \in BOOLEAN /\ cfg.rotate \in BOOLEAN /\ cfg.tty.there \in BOOLEAN
<1>1. /\ q.out \in Seq(Nat) /\ q.n \in Nat /\ q.pout \in Seq(Nat) /\ q.pin \in Seq(STRING)
      /\ log.read \in Seq(Nat) /\ log.cur \in Seq(Nat) /\ user.seen \in Seq(Nat) /\ con.ring \in Seq(Nat)
      /\ con.log \in BOOLEAN /\ con.ptx \in BOOLEAN /\ con.busy \in Client \cup {NoOne}
  BY ZenonT(60) DEF Shape, QShape, LogShape, UserShape, ConShape
<1>2. \A c \in Client : cli[c].seen \in Seq(Nat)
  BY ZenonT(60) DEF Shape, ClientShape
<1> QED
  BY ZenonT(60), <1>1, <1>2, SetupsAssumption DEF Shape

\* A step that moves no output, and does not end the loop.
LEMMA OutputFrame ==
    ASSUME Shape, Output, cfg' = cfg, log' = log, faults' \in Nat /\ faults' >= faults,
           q'.n = q.n, q'.out = q.out, user'.seen = user.seen, con'.ring = con.ring,
           con'.log => cfg.log,
           cfg.log /\ (cfg.rotate => faults = 0) /\ con'.ptx /\ mon'.pc \notin Early => con'.log,
           mon'.pc = "gone" => mon'.why = "crash" \/ log.read = <<>> \/ (mon.pc = "gone" /\ mon'.why = mon.why),
           \/ /\ con'.busy = con.busy /\ (con.busy # NoOne \/ q'.pin = q.pin \/ q'.pin = <<>>) /\ q'.pout = q.pout
              /\ \A c \in Client : cli'[c].seen = cli[c].seen
           \/ /\ q'.pin = <<>> /\ q'.pout = <<>>
              /\ \A c \in Client : cli'[c].seen = cli[c].seen
    PROVE  Output'
<1>1. faults' = 0 => faults = 0
  BY DEF Shape
<1>2. MirrorAtEnd'
  BY ZenonT(60), <1>1 DEF Output, MirrorAtEnd
<1>3. LogBounded'
  BY ZenonT(60) DEF Output, LogBounded
<1>4. Ascending(q'.pout) /\ Below(q'.pout, Len(log.read))
  BY DEF Output, Ascending, Below
<1>5. \A c \in Client : Ascending(cli'[c].seen) /\ Below(cli'[c].seen, Len(log.read))
  BY ZenonT(60) DEF Output
<1>6. /\ con'.busy = NoOne => q'.pout = <<>> /\ q'.pin = <<>>
      /\ \A c \in Client : c = con'.busy => \A i \in DOMAIN cli'[c].seen, j \in DOMAIN q'.pout : cli'[c].seen[i] < q'.pout[j]
  BY DEF Output
<1>7. /\ q'.n = Len(log'.read) + Len(q'.out)
      /\ \A i \in DOMAIN log'.read : log'.read[i] = i
      /\ \A i \in DOMAIN q'.out : q'.out[i] = Len(log'.read) + i
      /\ cfg'.tty.there => user'.seen = log'.read
      /\ con'.ring = Latest(log'.read, cfg'.ring)
  BY ZenonT(60) DEF Output
<1>8. cfg'.log /\ (cfg'.rotate => faults' = 0) /\ con'.ptx /\ mon'.pc \notin Early => con'.log
  BY ZenonT(60), <1>1
<1> QED
  BY ZenonT(60), <1>2, <1>3, <1>4, <1>5, <1>6, <1>7, <1>8 DEF Output, Ascending, Below

\* Sequences are equal if their elements are.
LEMMA SeqEqual ==
    ASSUME NEW S, NEW a \in Seq(S), NEW b \in Seq(S), Len(a) = Len(b), \A i \in 1 .. Len(a) : a[i] = b[i]
    PROVE  a = b
  OBVIOUS

\* One sequence after another.
LEMMA AfterSeq ==
    ASSUME NEW S, NEW a \in Seq(S), NEW b \in Seq(S)
    PROVE  /\ a \o b \in Seq(S) /\ Len(a \o b) = Len(a) + Len(b)
           /\ \A i \in 1 .. Len(a) : (a \o b)[i] = a[i]
           /\ \A i \in 1 .. Len(b) : (a \o b)[Len(a) + i] = b[i]
           /\ \A i \in Len(a) + 1 .. Len(a) + Len(b) : (a \o b)[i] = b[i - Len(a)]
  OBVIOUS

\* The ring buffer: the last of what was kept and what comes is the last of all.
LEMMA LatestLatest ==
    ASSUME NEW S, NEW r \in Seq(S), NEW s \in Seq(S), NEW k \in Nat
    PROVE  Latest(Latest(r, k) \o s, k) = Latest(r \o s, k)
<1>0. PICK l, u, v, a, b : l = Latest(r, k) /\ u = l \o s /\ v = r \o s /\ a = Latest(u, k) /\ b = Latest(v, k)
  BY ZenonT(60)
<1>1. /\ l \in Seq(S) /\ Len(l) = MinOf(Len(r), k) /\ Len(l) \in Nat /\ Len(l) =< Len(r)
      /\ \A i \in 1 .. Len(l) : l[i] = r[Len(r) - Len(l) + i]
  <2>1. l \in Seq(S) /\ EndOf(l, r, k)
    BY ZenonT(60), <1>0, LatestOfSeq
  <2> QED
    BY ONLY ZenonT(60), <2>1 DEF EndOf
<1>2. /\ u \in Seq(S) /\ Len(u) = Len(l) + Len(s)
      /\ \A i \in 1 .. Len(l) : u[i] = l[i]
      /\ \A i \in Len(l) + 1 .. Len(l) + Len(s) : u[i] = s[i - Len(l)]
  BY ONLY <1>0, <1>1, s \in Seq(S)
<1>3. /\ v \in Seq(S) /\ Len(v) = Len(r) + Len(s)
      /\ \A i \in 1 .. Len(r) : v[i] = r[i]
      /\ \A i \in Len(r) + 1 .. Len(r) + Len(s) : v[i] = s[i - Len(r)]
  BY ONLY <1>0, r \in Seq(S), s \in Seq(S)
<1>4. /\ a \in Seq(S) /\ Len(a) = MinOf(Len(u), k)
      /\ \A i \in 1 .. Len(a) : a[i] = u[Len(u) - Len(a) + i]
  <2>1. u \in Seq(S) /\ a = Latest(u, k)
    BY ZenonT(60), <1>0, <1>2
  <2>2. a \in Seq(S) /\ EndOf(a, u, k)
    BY ONLY ZenonT(60), <2>1, k \in Nat, LatestOfSeq
  <2> QED
    BY ONLY ZenonT(60), <2>2 DEF EndOf
<1>5. /\ b \in Seq(S) /\ Len(b) = MinOf(Len(v), k)
      /\ \A i \in 1 .. Len(b) : b[i] = v[Len(v) - Len(b) + i]
  <2>1. v \in Seq(S) /\ b = Latest(v, k)
    BY ZenonT(60), <1>0, <1>3
  <2>2. b \in Seq(S) /\ EndOf(b, v, k)
    BY ONLY ZenonT(60), <2>1, k \in Nat, LatestOfSeq
  <2> QED
    BY ONLY ZenonT(60), <2>2 DEF EndOf
<1>6. /\ Len(a) = Len(b) /\ Len(l) =< Len(r) /\ Len(a) =< Len(l) + Len(s)
      /\ Len(r) \in Nat /\ Len(s) \in Nat /\ Len(l) \in Nat /\ Len(a) \in Nat
  BY SMTT(60), <1>1, <1>2, <1>3, <1>4, <1>5 DEF MinOf
<1>7. ASSUME NEW i \in 1 .. Len(a) PROVE a[i] = b[i]
  <2> DEFINE x == Len(l) + Len(s) - Len(a) + i
             y == Len(r) + Len(s) - Len(a) + i
  <2>1. x \in 1 .. Len(l) + Len(s) /\ y \in 1 .. Len(r) + Len(s) /\ y - Len(r) = x - Len(l)
    BY <1>6
  <2>5. a[i] = u[x] /\ b[i] = v[y]
    <3>1. i \in 1 .. Len(b) /\ Len(b) = Len(a)
      BY ZenonT(60), <1>6
    <3>2. a[i] = u[Len(u) - Len(a) + i] /\ b[i] = v[Len(v) - Len(b) + i]
      BY ZenonT(60), <1>4, <1>5, <3>1
    <3>3. Len(u) = Len(l) + Len(s) /\ Len(v) = Len(r) + Len(s) /\ Len(b) = Len(a)
      BY ZenonT(60), <1>2, <1>3, <3>1
    <3>4. a[i] = u[x]
      BY ONLY <3>2, <3>3 DEF x
    <3>5. b[i] = v[y]
      BY ONLY <3>2, <3>3 DEF y
    <3> QED
      BY ZenonT(60), <3>4, <3>5
  <2>2. Len(r) - Len(l) + x = y
    BY <1>6
  <2> HIDE DEF x, y
  <2>3. CASE x =< Len(l)
    <3>1. x \in 1 .. Len(l) /\ y \in 1 .. Len(r)
      BY SMTT(60), <1>6, <2>1, <2>2, <2>3
    <3> QED
      BY ZenonT(60), <1>1, <1>2, <1>3, <2>2, <2>5, <3>1
  <2>4. CASE x > Len(l)
    <3>1. x \in Len(l) + 1 .. Len(l) + Len(s) /\ y \in Len(r) + 1 .. Len(r) + Len(s)
      BY SMTT(60), <1>6, <2>1, <2>4
    <3> QED
      BY ZenonT(60), <1>2, <1>3, <2>1, <2>5, <3>1
  <2> QED
    BY SMTT(60), <1>6, <2>1, <2>3, <2>4
<1>8. a = b
  BY ZenonT(60), <1>4, <1>5, <1>6, <1>7, SeqEqual
<1> QED
  <2>1. Latest(Latest(r, k) \o s, k) = a
    BY ONLY ZenonT(60), <1>0
  <2>2. Latest(r \o s, k) = b
    BY ONLY ZenonT(60), <1>0
  <2> QED
    BY ONLY ZenonT(60), <1>8, <2>1, <2>2

\* A sequence that ascends goes on with greater numbers.
LEMMA AscendingAfter ==
    ASSUME NEW a \in Seq(Nat), NEW b \in Seq(Nat), Ascending(a), Ascending(b),
           \A i \in DOMAIN a, j \in DOMAIN b : a[i] < b[j]
    PROVE  Ascending(a \o b)
<1>1. /\ DOMAIN (a \o b) = 1 .. Len(a) + Len(b)
      /\ \A i \in 1 .. Len(a) : (a \o b)[i] = a[i]
      /\ \A i \in Len(a) + 1 .. Len(a) + Len(b) : (a \o b)[i] = b[i - Len(a)]
      /\ DOMAIN a = 1 .. Len(a) /\ DOMAIN b = 1 .. Len(b) /\ Len(a) \in Nat /\ Len(b) \in Nat
  BY AfterSeq
<1> SUFFICES ASSUME NEW i \in 1 .. Len(a) + Len(b), NEW j \in 1 .. Len(a) + Len(b), i < j PROVE (a \o b)[i] < (a \o b)[j]
  BY ZenonT(60), <1>1 DEF Ascending
<1>2. CASE j =< Len(a)
  <2>1. i \in 1 .. Len(a) /\ j \in 1 .. Len(a)
    BY SMTT(60), <1>1, <1>2
  <2> QED
    BY ZenonT(60), <1>1, <2>1 DEF Ascending
<1>3. CASE i =< Len(a) /\ j > Len(a)
  <2>1. i \in 1 .. Len(a) /\ j \in Len(a) + 1 .. Len(a) + Len(b) /\ j - Len(a) \in 1 .. Len(b)
    BY <1>1, <1>3
  <2> QED
    BY ZenonT(60), <1>1, <2>1
<1>4. CASE i > Len(a)
  <2>1. /\ i \in Len(a) + 1 .. Len(a) + Len(b) /\ j \in Len(a) + 1 .. Len(a) + Len(b)
        /\ i - Len(a) \in 1 .. Len(b) /\ j - Len(a) \in 1 .. Len(b) /\ i - Len(a) < j - Len(a)
    BY SMTT(60), <1>1, <1>4
  <2> QED
    BY ZenonT(60), <1>1, <2>1 DEF Ascending
<1> QED
  BY SMTT(60), <1>1, <1>2, <1>3, <1>4

\* And stays below a bound.
LEMMA BelowAfter ==
    ASSUME NEW a \in Seq(Nat), NEW b \in Seq(Nat), NEW n \in Nat, Below(a, n), Below(b, n)
    PROVE  Below(a \o b, n)
<1>1. /\ DOMAIN (a \o b) = 1 .. Len(a) + Len(b)
      /\ \A i \in 1 .. Len(a) : (a \o b)[i] = a[i]
      /\ \A i \in Len(a) + 1 .. Len(a) + Len(b) : (a \o b)[i] = b[i - Len(a)]
      /\ DOMAIN a = 1 .. Len(a) /\ DOMAIN b = 1 .. Len(b) /\ Len(a) \in Nat /\ Len(b) \in Nat
  BY AfterSeq
<1> SUFFICES ASSUME NEW i \in 1 .. Len(a) + Len(b) PROVE (a \o b)[i] =< n
  BY ZenonT(60), <1>1 DEF Below
<1>2. CASE i =< Len(a)
  <2>1. i \in 1 .. Len(a)
    BY SMTT(60), <1>1, <1>2
  <2> QED
    BY ZenonT(60), <1>1, <2>1 DEF Below
<1>3. CASE i > Len(a)
  <2>1. i \in Len(a) + 1 .. Len(a) + Len(b) /\ i - Len(a) \in 1 .. Len(b)
    BY SMTT(60), <1>1, <1>3
  <2> QED
    BY ZenonT(60), <1>1, <2>1 DEF Below
<1> QED
  BY SMTT(60), <1>1, <1>2, <1>3

\* The steps of a client.
LEMMA OutputClient ==
    ASSUME Shape, Users, Output, NEW c \in Client, lxc_cmd_get_tty_fd(c) \/ Session(c) \/ ClientKilled(c) \/ ClientTold(c)
    PROVE  Output'
<1>1. c # NoOne /\ faults \in Nat /\ cli[c].seen \in Seq(Nat) /\ q.pout \in Seq(Nat)
  BY ZenonT(60), OutTypes, ClientAssumption DEF Shape
<1>2. ASSUME cfg' = cfg, log' = log, faults' \in Nat, faults' >= faults, q'.n = q.n, q'.out = q.out, user' = user, con' = con,
             mon'.pc = mon.pc, mon'.why = mon.why,
             con.busy # NoOne \/ q'.pin = q.pin, q'.pout = q.pout, Others(c), cli'[c].seen = cli[c].seen
      PROVE  Output'
  <2>1. \A d \in Client : cli'[d].seen = cli[d].seen
    BY ZenonT(60), <1>2 DEF Others
  <2>2. con.log => cfg.log
    BY ZenonT(60) DEF Output
  <2>3. cfg.log /\ (cfg.rotate => faults = 0) /\ con'.ptx /\ mon'.pc \notin Early => con'.log
    BY ZenonT(60), <1>2 DEF Output
  <2> QED
    BY ZenonT(60), <1>2, <2>1, <2>2, <2>3, OutputFrame
<1>3. CASE lxc_cmd_get_tty_fd(c)
  BY <1>1, <1>2, <1>3, GetTtyFdEffect
<1>4. CASE lxc_console_setup(c)
  <2>1. faults' \in Nat
    BY ZenonT(60), <1>4, SetupEffect DEF Shape
  <2> QED
    BY ZenonT(60), <1>2, <1>4, <2>1, SetupEffect
<1>5. CASE lxc_terminal_stdin_cb(c)
  <2>1. con.busy # NoOne \/ q'.pin = q.pin
    <3>1. q' = q \/ q' = [q EXCEPT !.pin = IF con.busy = c THEN Append(@, cli[c].typed[cli[c].i + 1]) ELSE @]
      BY ZenonT(60), <1>5, StdinEffect DEF Written
    <3>2. con.busy # c => q'.pin = q.pin
      BY ZenonT(60), <3>1 DEF Shape, QShape
    <3> QED
      BY ZenonT(60), <1>1, <3>2
  <2>2. /\ cli'[c].seen = cli[c].seen /\ q'.n = q.n /\ q'.out = q.out /\ q'.pout = q.pout /\ Others(c)
        /\ UNCHANGED <<cfg, con, mon, log, user, faults>>
    BY ZenonT(60), <1>5, StdinEffect
  <2> QED
    BY SMTT(60), <1>1, <1>2, <2>1, <2>2
<1>6. CASE lxc_terminal_ptx_cb(c)
  <2>1. /\ Others(c) /\ q'.n = q.n /\ q'.out = q.out /\ q'.pin = q.pin
        /\ \/ con.busy = c /\ cli'[c].pc = "loop" /\ cli'[c].seen = cli[c].seen \o q.pout /\ q'.pout = <<>>
           \/ mon.pc = "gone" /\ cli'[c].pc = "close" /\ cli'[c].seen = cli[c].seen /\ q' = q
        /\ UNCHANGED <<cfg, con, mon, log, user, faults>>
    BY ZenonT(60), <1>6, PtxCbEffect
  <2>2. CASE cli'[c].seen = cli[c].seen /\ q' = q
    BY SMTT(60), <1>1, <1>2, <2>1, <2>2
  <2>3. CASE con.busy = c /\ cli'[c].seen = cli[c].seen \o q.pout /\ q'.pout = <<>>
    <3>1. /\ Ascending(cli[c].seen) /\ Below(cli[c].seen, Len(log.read)) /\ Ascending(q.pout) /\ Below(q.pout, Len(log.read))
          /\ \A i \in DOMAIN cli[c].seen, j \in DOMAIN q.pout : cli[c].seen[i] < q.pout[j]
      BY ZenonT(60), <2>3 DEF Output
    <3>2. Len(log.read) \in Nat
      BY OutTypes
    <3>3. Ascending(cli'[c].seen) /\ Below(cli'[c].seen, Len(log.read))
      BY ZenonT(60), <1>1, <2>3, <3>1, <3>2, AscendingAfter, BelowAfter
    <3>4. \A d \in Client : Ascending(cli'[d].seen) /\ Below(cli'[d].seen, Len(log.read))
      BY ZenonT(60), <2>1, <3>3 DEF Others, Output
    <3>5. LogBounded' /\ MirrorAtEnd'
      BY ZenonT(60), <2>1 DEF Output, LogBounded, MirrorAtEnd
    <3>6. /\ Ascending(q'.pout) /\ Below(q'.pout, Len(log'.read))
          /\ con'.busy # NoOne
          /\ \A d \in Client : d = con'.busy => \A i \in DOMAIN cli'[d].seen, j \in DOMAIN q'.pout : cli'[d].seen[i] < q'.pout[j]
      BY SMTT(60), <1>1, <2>1, <2>3 DEF Ascending, Below
    <3> QED
      BY ZenonT(60), <2>1, <2>3, <3>4, <3>5, <3>6 DEF Output, Ascending, Below
  <2> QED
    BY ZenonT(60), <2>1, <2>2, <2>3
<1>7. CASE lxc_console_term(c)
  <2>1. cli'[c].seen = cli[c].seen /\ Others(c) /\ UNCHANGED <<cfg, con, mon, q, log, user, faults>>
    BY ZenonT(60), <1>7, TermEffect
  <2> QED
    BY SMTT(60), <1>1, <1>2, <2>1
<1>8. CASE lxc_console_end(c)
  <2>1. cli'[c].seen = cli[c].seen /\ Others(c) /\ UNCHANGED <<cfg, con, mon, q, log, user, faults>>
    BY ZenonT(60), <1>8, EndEffect
  <2> QED
    BY SMTT(60), <1>1, <1>2, <2>1
<1>9. CASE ClientKilled(c)
  <2>1. faults' \in Nat /\ faults' >= faults
    BY <1>1, <1>9, KilledEffect DEF Shape
  <2> QED
    BY ZenonT(60), <1>2, <1>9, <2>1, KilledEffect
<1>10. CASE ClientTold(c)
  <2>1. faults' \in Nat
    BY ZenonT(60), <1>10, ToldEffect DEF Shape
  <2> QED
    BY ZenonT(60), <1>2, <1>10, <2>1, ToldEffect
<1> QED
  BY ZenonT(60), <1>3, <1>4, <1>5, <1>6, <1>7, <1>8, <1>9, <1>10 DEF Session

\* The steps of the monitor that move no output.
LEMMA OutputMonitor ==
    ASSUME Shape, Users, Loop, Output,
           \/ lxc_terminal_parent \/ lxc_recv_console_from_child \/ lxc_terminal_setup \/ lxc_poll
           \/ __lxc_mainloop_epoll \/ signal_handler \/ lxc_terminal_signalfd_cb
           \/ lxc_terminal_peer_io_handler \/ StaleEvent
           \/ \E c \in Client : lxc_cmd_get_tty_fd_callback(c) \/ lxc_cmd_cleanup_handler(c)
    PROVE  Output'
<1>1. /\ con.ptx \in BOOLEAN /\ con.log \in BOOLEAN /\ cfg.log \in BOOLEAN /\ cfg.want \in BOOLEAN /\ cfg.own \in BOOLEAN
      /\ faults \in Nat /\ (con.log => cfg.log)
  BY ZenonT(60), OutTypes, LoopTypes DEF Shape, Output
<1>2. cfg.log /\ (cfg.rotate => faults = 0) /\ con.ptx /\ mon.pc \notin Early => con.log
  BY ZenonT(60) DEF Output
<1>3. ASSUME UNCHANGED <<cfg, cli, con, log, faults>>, user'.seen = user.seen, q'.n = q.n, q'.out = q.out, q'.pout = q.pout,
             q'.pin \in {q.pin, <<>>}, mon.pc \notin Early,
             mon'.pc = "gone" => mon'.why = "crash"
      PROVE  Output'
  <2>1. cfg.log /\ (cfg.rotate => faults = 0) /\ con'.ptx /\ mon'.pc \notin Early => con'.log
    BY ZenonT(60), <1>2, <1>3
  <2> QED
    BY SMTT(60), <1>1, <1>3, <2>1, OutputFrame
<1>4. CASE lxc_terminal_parent
  <2>1. /\ mon.pc = "init" /\ con'.busy = con.busy /\ con'.ring = con.ring /\ con'.log = con.log
        /\ mon'.pc = "spawn" \/ (mon'.pc = "gone" /\ con'.ptx = con.ptx)
        /\ UNCHANGED <<cfg, cli, q, log, user>> /\ faults' \in Nat /\ faults' >= faults
    BY ZenonT(60), <1>4, ParentEffect DEF Shape
  <2>2. con.ptx = FALSE /\ log.read = <<>>
    BY ZenonT(60), <1>1, <2>1 DEF Loop, Console, Ending, Early
  <2>3. cfg.log /\ (cfg.rotate => faults = 0) /\ con'.ptx /\ mon'.pc \notin Early => con'.log
    BY ZenonT(60), <2>1, <2>2 DEF Early
  <2> QED
    BY ZenonT(60), <1>1, <2>1, <2>2, <2>3, OutputFrame
<1>5. CASE lxc_recv_console_from_child
  <2>1. /\ mon.pc = "spawn" /\ con'.busy = con.busy /\ con'.ring = con.ring /\ con'.log = con.log
        /\ mon'.pc = "setup" \/ (mon'.pc = "end" /\ con'.ptx = con.ptx /\ cfg.own = TRUE)
        /\ UNCHANGED <<cfg, cli, q, log, user>> /\ faults' \in Nat /\ faults' >= faults
    BY ZenonT(60), <1>5, RecvEffect DEF Shape
  <2>2. con.ptx = (cfg.want /\ ~cfg.own)
    BY ZenonT(60), <2>1 DEF Loop, Console
  <2>3. cfg.log /\ (cfg.rotate => faults = 0) /\ con'.ptx /\ mon'.pc \notin Early => con'.log
    BY ZenonT(60), <2>1, <2>2 DEF Early
  <2> QED
    BY ZenonT(60), <1>1, <2>1, <2>3, OutputFrame
<1>6. CASE lxc_terminal_setup
  <2>1. mon.pc = "setup"
    BY ZenonT(60), <1>6 DEF lxc_terminal_setup
  <2>2. con.peer = "no" /\ con.ptx = cfg.want
    BY ZenonT(60), <2>1 DEF Loop, Console, Early
  <2>3. /\ con'.busy = con.busy /\ con'.ring = con.ring /\ user'.seen = user.seen /\ SetUp
        /\ UNCHANGED <<cfg, cli, q, log>> /\ faults' \in Nat /\ faults' >= faults
    BY ZenonT(60), <1>6, <2>2, TerminalSetupEffect DEF Shape
  <2>4. /\ mon'.pc \in {"poll", "end"} /\ (con'.log => cfg.log)
        /\ cfg.log /\ (cfg.rotate => faults = 0) /\ con'.ptx /\ mon'.pc \notin Early => con'.log
    BY ZenonT(60), <1>1, <2>2, <2>3 DEF SetUp
  <2> QED
    BY ZenonT(60), <2>3, <2>4, OutputFrame
<1>7. CASE lxc_poll
  <2>1. /\ mon.pc = "poll" /\ mon'.pc \in {"loop", "end"}
        /\ UNCHANGED <<cfg, con, cli, q, log, user>> /\ faults' \in Nat /\ faults' >= faults
    BY ZenonT(60), <1>7, PollEffect DEF Shape
  <2>2. cfg.log /\ (cfg.rotate => faults = 0) /\ con'.ptx /\ mon'.pc \notin Early => con'.log
    BY ZenonT(60), <1>2, <2>1 DEF Early
  <2> QED
    BY ZenonT(60), <1>1, <2>1, <2>2, OutputFrame
<1>8. CASE __lxc_mainloop_epoll
  BY ZenonT(60), <1>3, <1>8, EpollEffect DEF InLoop, Early
<1>9. \A why : Goes(why) /\ mon.pc \in {"loop", "drain"} => mon'.pc # "gone"
  BY ZenonT(60) DEF Goes
<1>10. CASE signal_handler
  BY ZenonT(60), <1>3, <1>9, <1>10, SignalHandlerEffect DEF Turn, InLoop, Early
<1>11. CASE lxc_terminal_signalfd_cb
  BY ZenonT(60), <1>3, <1>9, <1>11, SignalfdEffect DEF Turn, InLoop, Early
<1>12. CASE lxc_terminal_peer_io_handler
  BY ZenonT(60), <1>3, <1>9, <1>12, PeerIoEffect DEF Turn, InLoop, Early
<1>13. CASE StaleEvent
  BY ZenonT(60), <1>3, <1>9, <1>13, StaleEffect DEF InLoop, Early
<1>14. ASSUME NEW c \in Client, lxc_cmd_get_tty_fd_callback(c) PROVE Output'
  <2>1. /\ Others(c) /\ Turn(c) /\ Granted(c) /\ cli'[c].seen = cli[c].seen
        /\ con'.ptx = con.ptx /\ con'.log = con.log /\ con'.ring = con.ring /\ mon'.pc = mon.pc
        /\ UNCHANGED <<cfg, q, log, user>> /\ faults' \in Nat /\ faults' >= faults
    BY ZenonT(60), <1>14, CallbackEffect DEF Shape
  <2>2. con'.busy = con.busy \/ con.busy = NoOne
    BY ZenonT(60), <2>1 DEF Granted
  <2>3. con.busy = NoOne => q.pout = <<>> /\ q.pin = <<>>
    BY ZenonT(60) DEF Output
  <2>4. mon.pc \notin Early /\ mon.pc # "gone" /\ \A d \in Client : cli'[d].seen = cli[d].seen
    BY ZenonT(60), <2>1 DEF Turn, InLoop, Early, Others
  <2>5. cfg.log /\ (cfg.rotate => faults = 0) /\ con'.ptx /\ mon'.pc \notin Early => con'.log
    BY ZenonT(60), <1>2, <2>1
  <2> QED
    BY ZenonT(60), <1>1, <2>1, <2>2, <2>3, <2>4, <2>5, OutputFrame
<1>15. ASSUME NEW c \in Client, lxc_cmd_cleanup_handler(c) PROVE Output'
  <2>1. /\ Others(c) /\ Turn(c) /\ Freed(c) /\ cli'[c].seen = cli[c].seen /\ q'.out = q.out /\ q'.n = q.n
        /\ con'.ptx = con.ptx /\ con'.log = con.log /\ con'.ring = con.ring /\ mon'.pc = mon.pc
        /\ UNCHANGED <<cfg, log, user, faults>>
    BY ZenonT(60), <1>15, CleanupEffect
  <2>2. (con'.busy = con.busy /\ q' = q) \/ (q'.pin = <<>> /\ q'.pout = <<>>)
    BY ZenonT(60), <2>1 DEF Freed
  <2>3. mon.pc \notin Early /\ mon.pc # "gone" /\ \A d \in Client : cli'[d].seen = cli[d].seen
    BY ZenonT(60), <2>1 DEF Turn, InLoop, Early, Others
  <2>4. cfg.log /\ (cfg.rotate => faults = 0) /\ con'.ptx /\ mon'.pc \notin Early => con'.log
    BY ZenonT(60), <1>2, <2>1
  <2> QED
    BY SMTT(60), <1>1, <2>1, <2>2, <2>3, <2>4, OutputFrame
<1> QED
  BY ZenonT(60), <1>4, <1>5, <1>6, <1>7, <1>8, <1>10, <1>11, <1>12, <1>13, <1>14, <1>15

\* x numbers on from k; a begins with b; all of x is below all of y.
Counts(x, k) == \A i \in DOMAIN x : x[i] = k + i
Begins(a, b) == \A i \in DOMAIN b : i \in DOMAIN a /\ b[i] = a[i]
Taken(rd, out, n, s, t, u) == s = SubSeq(out, 1, n) /\ t = rd \o s /\ u = SubSeq(out, n + 1, Len(out))
Before(x, y) == \A i \in DOMAIN x, j \in DOMAIN y : x[i] < y[j]

\* The first of an ascending sequence.
LEMMA AscendingPrefix ==
    ASSUME NEW a \in Seq(Nat), NEW m \in 0 .. Len(a), NEW b, b = SubSeq(a, 1, m)
    PROVE  b \in Seq(Nat) /\ Len(b) = m /\ Begins(a, b) /\ (Ascending(a) => Ascending(b))
<1>1. b \in Seq(Nat) /\ Len(b) = m /\ DOMAIN b = 1 .. m /\ DOMAIN a = 1 .. Len(a) /\ \A i \in 1 .. m : b[i] = a[i]
  OBVIOUS
<1>2. \A i \in DOMAIN b : i \in DOMAIN a /\ b[i] = a[i]
  BY <1>1
<1> QED
  BY ZenonT(60), <1>1, <1>2 DEF Ascending, Begins

\* Reading the next n of what comes.
LEMMA ReadOn ==
    ASSUME NEW rd \in Seq(Nat), NEW out \in Seq(Nat), NEW n \in 1 .. Len(out),
           \A i \in DOMAIN rd : rd[i] = i, Counts(out, Len(rd)),
           NEW s, NEW t, NEW u, Taken(rd, out, n, s, t, u)
    PROVE  /\ s \in Seq(Nat) /\ Len(s) = n /\ Counts(s, Len(rd))
           /\ t \in Seq(Nat) /\ Len(t) = Len(rd) + n /\ Counts(t, 0)
           /\ u \in Seq(Nat) /\ Len(rd) + Len(out) = Len(t) + Len(u) /\ Counts(u, Len(t))
<1> USE DEF Taken
<1>0. PICK k, m : k = Len(rd) /\ m = Len(out)
  BY ZenonT(60)
<1>1. k = Len(rd) /\ m = Len(out) /\ k \in Nat /\ m \in Nat /\ n \in 1 .. m
  BY <1>0
<1>2. s \in Seq(Nat) /\ Len(s) = n /\ DOMAIN s = 1 .. n /\ \A i \in 1 .. n : s[i] = k + i
  <2>1. s \in Seq(Nat) /\ Len(s) = n /\ DOMAIN s = 1 .. n /\ DOMAIN out = 1 .. m /\ \A i \in 1 .. n : s[i] = out[i]
    BY ONLY <1>1, s = SubSeq(out, 1, n), out \in Seq(Nat)
  <2>2. \A i \in 1 .. n : i \in 1 .. m
    BY ONLY <1>1
  <2> QED
    BY ZenonT(60), <1>1, <2>1, <2>2 DEF Counts
<1>3. /\ t \in Seq(Nat) /\ Len(t) = k + n /\ DOMAIN t = 1 .. k + n /\ \A i \in 1 .. k : t[i] = i
      /\ \A i \in k + 1 .. k + n : t[i] = s[i - k]
  <2>1. /\ t \in Seq(Nat) /\ Len(t) = k + n
        /\ \A i \in 1 .. k : t[i] = rd[i]
        /\ \A i \in k + 1 .. k + n : t[i] = s[i - k]
    <3>1. /\ t \in Seq(Nat) /\ Len(t) = Len(rd) + Len(s)
          /\ \A i \in 1 .. Len(rd) : t[i] = rd[i]
          /\ \A i \in Len(rd) + 1 .. Len(rd) + Len(s) : t[i] = s[i - Len(rd)]
      <4>1. s \in Seq(Nat)
        BY ZenonT(60), <1>2
      <4> QED
        BY ONLY SMTT(60), <4>1, rd \in Seq(Nat), t = rd \o s
    <3> QED
      BY ZenonT(60), <1>1, <1>2, <3>1
  <2>2. \A i \in 1 .. k : rd[i] = i
    <3>1. DOMAIN rd = 1 .. k
      BY <1>1
    <3> QED
      BY ZenonT(60), <3>1
  <2>3. DOMAIN t = 1 .. k + n
    BY <1>1, <2>1
  <2> QED
    BY ZenonT(60), <2>1, <2>2, <2>3
<1>4. \A i \in 1 .. k + n : t[i] = i
  <2>1. \A i \in k + 1 .. k + n : i - k \in 1 .. n /\ k + (i - k) = i
    BY <1>1
  <2>2. \A i \in k + 1 .. k + n : t[i] = i
    BY ZenonT(60), <1>2, <1>3, <2>1
  <2>3. \A i \in 1 .. k + n : i \in 1 .. k \/ i \in k + 1 .. k + n
    BY ONLY <1>1
  <2> QED
    BY ZenonT(60), <1>3, <2>2, <2>3
<1>5. u \in Seq(Nat) /\ Len(u) = m - n /\ DOMAIN u = 1 .. m - n /\ \A i \in 1 .. m - n : u[i] = out[n + i]
  <2>1. n \in 0 .. Len(out) /\ Len(out) - n = m - n
    BY ONLY <1>1
  <2>2. /\ SubSeq(out, n + 1, Len(out)) \in Seq(Nat) /\ Len(SubSeq(out, n + 1, Len(out))) = Len(out) - n
        /\ \A i \in 1 .. Len(out) - n : SubSeq(out, n + 1, Len(out))[i] = out[n + i]
    BY ZenonT(60), <2>1, FirstOfSeq
  <2>3. u \in Seq(Nat) /\ Len(u) = m - n /\ \A i \in 1 .. m - n : u[i] = out[n + i]
    BY ZenonT(60), <2>1, <2>2
  <2> QED
    BY SMTT(60), <2>3
<1>6. \A i \in 1 .. m - n : u[i] = k + n + i
  <2>1. \A i \in 1 .. m : out[i] = k + i
    <3>1. DOMAIN out = 1 .. m
      BY ONLY <1>1, out \in Seq(Nat)
    <3> QED
      BY ZenonT(60), <1>1, <3>1 DEF Counts
  <2>2. \A i \in 1 .. m - n : n + i \in 1 .. m /\ k + (n + i) = k + n + i
    BY <1>1
  <2> QED
    BY ZenonT(60), <1>5, <2>1, <2>2
<1>7. k + m = k + n + (m - n)
  BY <1>1
<1>8. \A i \in 1 .. k + n : t[i] = 0 + i
  <2>1. \A i \in 1 .. k + n : 0 + i = i
    BY ONLY <1>1
  <2> QED
    BY ZenonT(60), <1>4, <2>1
<1>9. Counts(s, k) /\ Counts(t, 0) /\ Counts(u, k + n)
  BY ZenonT(60), <1>2, <1>3, <1>5, <1>6, <1>8 DEF Counts
<1> QED
  BY ZenonT(60), <1>1, <1>2, <1>3, <1>5, <1>7, <1>9

\* What comes next goes behind what is under way.
LEMMA PassOn ==
    ASSUME NEW p \in Seq(Nat), NEW s \in Seq(Nat), NEW k \in Nat, NEW n \in Nat, Len(s) = n,
           Counts(s, k), Ascending(p), Below(p, k), NEW w, w = p \o s
    PROVE  /\ w \in Seq(Nat) /\ Ascending(w) /\ Below(w, k + n)
           /\ \A z \in Seq(Nat) : Below(z, k) /\ Before(z, p) => Before(z, w)
<1>0. \A i \in DOMAIN s : s[i] = k + i
  BY ZenonT(60) DEF Counts
<1>1. /\ DOMAIN s = 1 .. n /\ Ascending(s) /\ Below(s, k + n) /\ k + n \in Nat
  BY <1>0 DEF Ascending, Below
<1>2. Below(p, k + n) /\ \A i \in DOMAIN p, j \in DOMAIN s : p[i] < s[j]
  BY SMTT(60), <1>0, <1>1 DEF Below
<1>3. Ascending(w) /\ Below(w, k + n)
  <2>1. Ascending(p \o s)
    BY ZenonT(60), <1>1, <1>2, AscendingAfter
  <2>2. Below(p \o s, k + n)
    BY ZenonT(60), <1>1, <1>2, BelowAfter
  <2> QED
    BY ZenonT(60), <2>1, <2>2
<1>4. PICK l \in Nat : /\ l = Len(p) /\ w \in Seq(Nat) /\ DOMAIN w = 1 .. l + n /\ DOMAIN p = 1 .. l /\ \A i \in 1 .. l : w[i] = p[i]
                       /\ \A i \in l + 1 .. l + n : w[i] = s[i - l]
  <2>1. /\ w \in Seq(Nat) /\ Len(w) = Len(p) + n /\ Len(p) \in Nat
        /\ \A i \in 1 .. Len(p) : w[i] = p[i]
        /\ \A i \in Len(p) + 1 .. Len(p) + n : w[i] = s[i - Len(p)]
    <3>1. Len(p) \in Nat
      OBVIOUS
    <3> QED
      BY ZenonT(60), <3>1, AfterSeq
  <2>2. PICK l : l = Len(p)
    BY ZenonT(60)
  <2>3. l \in Nat /\ DOMAIN w = 1 .. l + n /\ DOMAIN p = 1 .. l
    BY SMTT(60), <2>1, <2>2
  <2> QED
    BY ZenonT(60), <2>1, <2>2, <2>3
<1>5. \A i \in l + 1 .. l + n : w[i] > k
  <2>1. \A i \in l + 1 .. l + n : i - l \in 1 .. n /\ k + (i - l) > k
    BY <1>4
  <2> QED
    BY ZenonT(60), <1>0, <1>1, <1>4, <2>1
<1>6. ASSUME NEW z \in Seq(Nat), Below(z, k), \A i \in DOMAIN z, j \in DOMAIN p : z[i] < p[j],
             NEW i \in DOMAIN z, NEW j \in 1 .. l + n
      PROVE  z[i] < w[j]
  <2>1. z[i] \in Nat /\ z[i] =< k
    BY <1>6 DEF Below
  <2>2. j \in 1 .. l \/ j \in l + 1 .. l + n
    BY <1>4
  <2>3. CASE j \in 1 .. l
    BY ZenonT(60), <1>4, <1>6, <2>3
  <2>4. CASE j \in l + 1 .. l + n
    <3>1. w[j] \in Nat
      BY SMTT(60), <1>4
    <3>2. w[j] > k
      BY ZenonT(60), <1>5, <2>4
    <3> QED
      BY ONLY SMTT(60), <2>1, <3>1, <3>2, k \in Nat
  <2> QED
    BY ZenonT(60), <2>2, <2>3, <2>4
<1> QED
  BY ZenonT(60), <1>3, <1>4, <1>6 DEF Before

=============================================================================
