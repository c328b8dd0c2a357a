--------------------------- MODULE TerminalProofs ---------------------------
(***************************************************************************)
(* Proofs about Terminal, for any number of clients, any configurations    *)
(* and any number of faults: nobody gets a terminal that another one has,  *)
(* bytes keep their order and the log its limit, and the loop ends         *)
(* with the container, its last output read and the terminals restored.    *)
(*                                                                         *)
(* To TerminalConsoleProofs this adds the steps that read output and       *)
(* Input, which of the characters that were typed are on the way, and puts *)
(* the parts together.                                                     *)
(***************************************************************************)
EXTENDS TerminalConsoleProofs

-----------------------------------------------------------------------------
(* The steps that read output                                             *)

\* lxc_terminal_ptx_io_handler(): what is read is the next of the container's
\* output, and goes behind what the terminal, the client, the ring buffer and the
\* log have.
LEMMA OutputPtx ==
    ASSUME Shape, Shape', Loop, Output, Turn("ptx"), UNCHANGED <<cfg, cli>>, faults' >= faults,
           mon'.pc = mon.pc, con'.ptx = con.ptx, con'.busy = con.busy,
           NEW n \in 1 .. Len(q.out), NEW ok \in BOOLEAN, PtxRead(n, ok)
    PROVE  Output'
<1>1. /\ q.out \in Seq(Nat) /\ q.n \in Nat /\ q.pout \in Seq(Nat) /\ log.read \in Seq(Nat) /\ Len(q.out) \in Nat
      /\ Len(log.read) \in Nat /\ con.busy \in Client \cup {NoOne} /\ cfg.ring \in Nat /\ cfg.size \in Nat /\ faults \in Nat /\ faults' \in Nat
      /\ con.log \in BOOLEAN /\ user.seen \in Seq(Nat) /\ \A c \in Client : cli[c].seen \in Seq(Nat)
  <2>1. faults \in Nat /\ faults' \in Nat
    BY ZenonT(60) DEF Shape
  <2> QED
    BY SMTT(60), <2>1, OutTypes
<1>2. mon.pc \in {"loop", "drain"}
  BY ZenonT(60) DEF Turn, InLoop
<1>3. PICK s, u : s = SubSeq(q.out, 1, n) /\ u = SubSeq(q.out, n + 1, Len(q.out))
  BY ZenonT(60)
<1>4. /\ q'.out = u /\ q'.n = q.n /\ q'.pin = q.pin
      /\ q'.pout = IF con.peer = "proxy" THEN SubSeq(q.pout \o s, 1, MinOf(Len(q.pout \o s), Chunk)) ELSE q.pout
      /\ user'.seen = IF con.peer = "tty" THEN user.seen \o s ELSE user.seen
      /\ con'.ring = Latest(con.ring \o s, cfg.ring) /\ con'.log = (con.log /\ ok)
      /\ log'.read = log.read \o s
      /\ cfg.size > 0 => Len(log'.cur) =< cfg.size \/ log'.cur = log.cur
      /\ ok = TRUE \/ (cfg.rotate = TRUE /\ faults' > faults)
  BY ZenonT(60), <1>3 DEF PtxRead
<1>5. /\ q.n = Len(log.read) + Len(q.out) /\ \A i \in DOMAIN log.read : log.read[i] = i
      /\ \A i \in DOMAIN q.out : q.out[i] = Len(log.read) + i
  BY ZenonT(60) DEF Output
<1>6. /\ s \in Seq(Nat) /\ Len(s) = n /\ \A i \in DOMAIN s : s[i] = Len(log.read) + i
      /\ log'.read \in Seq(Nat) /\ Len(log'.read) = Len(log.read) + n /\ \A i \in DOMAIN log'.read : log'.read[i] = i
      /\ q'.n = Len(log'.read) + Len(q'.out) /\ \A i \in DOMAIN q'.out : q'.out[i] = Len(log'.read) + i
  <2>1. PICK t, r, o : r = log.read /\ o = q.out /\ t = r \o s
    BY ZenonT(60)
  <2>2. /\ r \in Seq(Nat) /\ o \in Seq(Nat) /\ n \in 1 .. Len(o) /\ Taken(r, o, n, s, t, u)
        /\ (\A i \in DOMAIN r : r[i] = i) /\ Counts(o, Len(r))
    BY ZenonT(60), <1>1, <1>3, <1>5, <2>1 DEF Counts, Taken
  <2>3. s \in Seq(Nat) /\ Len(s) = n /\ t \in Seq(Nat) /\ Len(t) = Len(r) + n /\ Len(r) + Len(o) = Len(t) + Len(u)
    <3>1. s \in Seq(Nat) /\ t \in Seq(Nat)
      BY ONLY ZenonT(60), <2>2, ReadOn
    <3>2. Len(s) = n
      BY ONLY SMTT(30), <2>2, ReadOn
    <3>3. Len(t) = Len(r) + n
      BY ONLY SMTT(30), <2>2, ReadOn
    <3>4. Len(r) + Len(o) = Len(t) + Len(u)
      BY ONLY SMTT(30), <2>2, ReadOn
    <3> QED
      BY ONLY ZenonT(60), <3>1, <3>2, <3>3, <3>4
  <2>4. Counts(s, Len(r)) /\ Counts(t, 0) /\ Counts(u, Len(t))
    BY ONLY ZenonT(60), <2>2, ReadOn
  <2>5. \A i \in DOMAIN t : t[i] = i
    <3>1. \A i \in DOMAIN t : i \in Nat
      BY <2>3
    <3> QED
      BY <2>4, <3>1 DEF Counts
  <2>7. log'.read = t /\ q'.out = u /\ q'.n = Len(r) + Len(o)
    BY ZenonT(60), <1>4, <1>5, <2>1
  <2> QED
    BY ZenonT(60), <2>1, <2>3, <2>4, <2>5, <2>7 DEF Counts
<1>7. cfg'.tty.there => user'.seen = log'.read
  <2>1. cfg.tty.there => con.peer = "tty" /\ user.seen = log.read
    <3>1. con.ptx
      <4>1. mon.ev \in Seq(Fixed \cup Client)
        BY ZenonT(60) DEF Shape, MonShape
      <4>2. 1 \in DOMAIN mon.ev /\ mon.ev[1] = "ptx"
        BY <4>1 DEF Turn
      <4> QED
        BY ZenonT(60), <4>2 DEF Loop, Events
    <3> QED
      BY ZenonT(60), <1>2, <3>1 DEF Loop, Console, Early, Output
  <2> QED
    BY ZenonT(60), <1>4, <2>1
<1>8. con'.ring = Latest(log'.read, cfg'.ring)
  <2>1. con.ring = Latest(log.read, cfg.ring)
    BY ZenonT(60) DEF Output
  <2>2. Latest(Latest(log.read, cfg.ring) \o s, cfg.ring) = Latest(log.read \o s, cfg.ring)
    BY ONLY SMTT(60), <1>1, <1>6, LatestLatest
  <2> QED
    BY ZenonT(60), <1>4, <2>1, <2>2
<1>9. LogBounded' /\ MirrorAtEnd'
  BY ZenonT(60), <1>2, <1>4 DEF Output, LogBounded, MirrorAtEnd
<1>10. /\ con'.log => cfg'.log
       /\ cfg'.log /\ (cfg'.rotate => faults' = 0) /\ con'.ptx /\ mon'.pc \notin Early => con'.log
  <2>1. faults' = 0 => faults = 0 /\ ~(faults' > faults)
    BY <1>1
  <2> QED
    BY ZenonT(60), <1>1, <1>4, <2>1 DEF Output
<1>11. PICK w \in Seq(Nat) : /\ w = q.pout \o s /\ Ascending(w) /\ Below(w, Len(log.read) + n)
                             /\ \A c \in Client : c = con.busy => \A i \in DOMAIN cli[c].seen, j \in DOMAIN w : cli[c].seen[i] < w[j]
  <2>1. /\ Ascending(q.pout) /\ Below(q.pout, Len(log.read))
        /\ \A c \in Client : Below(cli[c].seen, Len(log.read))
        /\ \A c \in Client : c = con.busy => \A i \in DOMAIN cli[c].seen, j \in DOMAIN q.pout : cli[c].seen[i] < q.pout[j]
    BY ZenonT(60) DEF Output
  <2>2. PICK w : w = q.pout \o s
    BY ZenonT(60)
  <2>3. n \in Nat
    OBVIOUS
  <2>4. /\ w \in Seq(Nat) /\ Ascending(w) /\ Below(w, Len(log.read) + n)
        /\ \A z \in Seq(Nat) : Below(z, Len(log.read)) /\ (\A i \in DOMAIN z, j \in DOMAIN q.pout : z[i] < q.pout[j])
                               => \A i \in DOMAIN z, j \in DOMAIN w : z[i] < w[j]
    <3>1. /\ q.pout \in Seq(Nat) /\ s \in Seq(Nat) /\ Len(log.read) \in Nat /\ n \in Nat /\ Len(s) = n
          /\ Counts(s, Len(log.read)) /\ Ascending(q.pout) /\ Below(q.pout, Len(log.read))
      BY ZenonT(60), <1>1, <1>6, <2>1, <2>3 DEF Counts
    <3>2. w \in Seq(Nat) /\ Ascending(w) /\ Below(w, Len(log.read) + n)
      BY ONLY ZenonT(60), <2>2, <3>1, PassOn
    <3>3. ASSUME NEW z \in Seq(Nat), Below(z, Len(log.read)), \A i \in DOMAIN z, j \in DOMAIN q.pout : z[i] < q.pout[j]
          PROVE  \A i \in DOMAIN z, j \in DOMAIN w : z[i] < w[j]
      <4>1. Before(z, q.pout)
        BY ZenonT(60), <3>3 DEF Before
      <4>2. Before(z, w)
        BY ONLY ZenonT(60), <2>2, <3>1, <3>3, <4>1, PassOn
      <4> QED
        BY ZenonT(60), <4>2 DEF Before
    <3> QED
      BY ZenonT(60), <3>2, <3>3
  <2> QED
    BY ZenonT(60), <1>1, <2>1, <2>2, <2>4
<1>12. /\ Ascending(q'.pout) /\ Below(q'.pout, Len(log'.read))
       /\ \A c \in Client : c = con.busy => \A i \in DOMAIN cli[c].seen, j \in DOMAIN q'.pout : cli[c].seen[i] < q'.pout[j]
  <2>1. CASE con.peer # "proxy"
    <3>1. q'.pout = q.pout
      BY ZenonT(60), <1>4, <2>1
    <3>2. Below(q.pout, Len(log.read) + n)
      <4>1. Below(q.pout, Len(log.read))
        BY ZenonT(60) DEF Output
      <4> QED
        BY SMTT(60), <1>1, <4>1 DEF Below
    <3> QED
      BY ZenonT(60), <1>6, <3>1, <3>2 DEF Output
  <2>2. CASE con.peer = "proxy"
    <3>1. q'.pout = SubSeq(w, 1, MinOf(Len(w), Chunk))
      BY ZenonT(60), <1>4, <1>11, <2>2
    <3>2. MinOf(Len(w), Chunk) \in 0 .. Len(w)
      <4>1. w \in Seq(Nat)
        BY ZenonT(60), <1>11
      <4> QED
        BY ONLY <4>1, ChunkAssumption DEF MinOf
    <3>3. Ascending(q'.pout) /\ \A i \in DOMAIN q'.pout : i \in DOMAIN w /\ q'.pout[i] = w[i]
      <4>1. w \in Seq(Nat) /\ Ascending(w)
        BY ZenonT(60), <1>11
      <4>2. Ascending(q'.pout) /\ Begins(w, q'.pout)
        BY ONLY ZenonT(60), <3>1, <3>2, <4>1, AscendingPrefix
      <4> QED
        BY ZenonT(60), <4>2 DEF Begins
    <3> QED
      BY ZenonT(60), <1>6, <1>11, <3>3 DEF Below
  <2> QED
    BY ZenonT(60), <2>1, <2>2
<1>13. con'.busy = NoOne => q'.pout = <<>> /\ q'.pin = <<>>
  <2>1. con.busy = NoOne => con.peer # "proxy" /\ q.pout = <<>> /\ q.pin = <<>>
    BY ZenonT(60) DEF Output, Loop, Console
  <2> QED
    BY ZenonT(60), <1>4, <2>1
<1>14. \A c \in Client : Ascending(cli'[c].seen) /\ Below(cli'[c].seen, Len(log'.read))
  <2>1. ASSUME NEW c \in Client PROVE Ascending(cli[c].seen) /\ Below(cli[c].seen, Len(log.read) + n)
    <3>1. Ascending(cli[c].seen) /\ Below(cli[c].seen, Len(log.read)) /\ cli[c].seen \in Seq(Nat)
      BY ZenonT(60), <1>1 DEF Output
    <3> QED
      BY SMTT(60), <1>1, <3>1 DEF Below
  <2> QED
    BY ZenonT(60), <1>6, <2>1
<1> QED
  BY SMTT(60), <1>6, <1>7, <1>8, <1>9, <1>10, <1>12, <1>13, <1>14 DEF Output

\* The steps that move the container's output, the end of the monitor, and what
\* happens around it.
LEMMA OutputAround ==
    ASSUME Shape, Users, Loop, Output,
           \/ lxc_terminal_ptx_io_handler \/ lxc_end \/ ContainerWrites \/ UserTypes \/ InitExits \/ \E x \in cfg.sends : Signal(x)
    PROVE  Output'
<1>1. /\ con.log => cfg.log
      /\ cfg.log /\ (cfg.rotate => faults = 0) /\ con.ptx /\ mon.pc \notin Early => con.log
      /\ faults \in Nat
  BY ZenonT(60) DEF Output, Shape
<1>2. CASE lxc_terminal_ptx_io_handler
  <2>1. /\ Shape' /\ Turn("ptx") /\ UNCHANGED <<cfg, cli>> /\ faults' >= faults
        /\ mon'.pc = mon.pc /\ con'.ptx = con.ptx /\ con'.busy = con.busy
    BY ZenonT(60), <1>2, PtxIoEffect
  <2>2. PICK n \in 1 .. Len(q.out), ok \in BOOLEAN : PtxRead(n, ok)
    BY ZenonT(60), <1>2, PtxIoEffect
  <2> QED
    BY ZenonT(60), <2>1, <2>2, OutputPtx
<1>3. CASE lxc_end
  <2>1. /\ mon.pc = "end" /\ mon'.pc = "gone" /\ mon'.why = mon.why /\ con'.ptx = FALSE /\ con'.log = FALSE
        /\ con'.busy = con.busy /\ con'.ring = con.ring /\ user'.seen = user.seen /\ log'.read = log.read
        /\ log'.cur = IF con.log = FALSE \/ con.ring = <<>> THEN log.cur ELSE SubSeq(con.ring, 1, MinOf(Len(con.ring), cfg.size))
        /\ UNCHANGED <<cfg, cli, q, faults>>
    BY ZenonT(60), <1>3, DeleteEffect
  <2>2. /\ con.ring \in Seq(Nat) /\ log.read \in Seq(Nat) /\ cfg.ring \in Nat /\ cfg.size \in Nat
    BY ZenonT(60), OutTypes
  <2>3. con.ring = Latest(log.read, cfg.ring)
    BY ZenonT(60) DEF Output
  <2>4. Len(con.ring) = MinOf(Len(log.read), cfg.ring) /\ Len(con.ring) =< cfg.ring
    <3>1. EndOf(con.ring, log.read, cfg.ring)
      BY ONLY ZenonT(60), <2>2, <2>3, LatestOfSeq
    <3> QED
      BY ONLY ZenonT(60), <3>1 DEF EndOf
  <2>5. LogBounded'
    <3>1. CASE log'.cur = log.cur
      BY ZenonT(60), <2>1, <3>1 DEF Output, LogBounded
    <3>2. CASE log'.cur = SubSeq(con.ring, 1, MinOf(Len(con.ring), cfg.size))
      <4>1. Len(SubSeq(con.ring, 1, MinOf(Len(con.ring), cfg.size))) =< cfg.size
        BY ONLY <2>2 DEF MinOf
      <4> QED
        BY ZenonT(60), <2>1, <3>2, <4>1 DEF LogBounded
    <3> QED
      BY ZenonT(60), <2>1, <3>1, <3>2
  <2>6. MirrorAtEnd'
    <3>1. SUFFICES ASSUME cfg.log, cfg.size = cfg.ring, cfg.ring > 0, cfg.rotate => faults = 0, log.read # <<>>
                   PROVE  log'.cur = con.ring
      BY ZenonT(60), <2>1, <2>3 DEF MirrorAtEnd
    <3>2. con.log
      BY ZenonT(60), <1>1, <2>1, <3>1 DEF Loop, Ending, Early
    <3>3. Len(log.read) > 0
      BY <2>2, <3>1
    <3>4. con.ring # <<>> /\ MinOf(Len(con.ring), cfg.size) = Len(con.ring)
      <4>1. Len(con.ring) > 0 /\ MinOf(Len(con.ring), cfg.size) = Len(con.ring)
        BY ZenonT(60), <2>2, <2>4, <3>1, <3>3 DEF MinOf
      <4> QED
        BY <2>2, <4>1
    <3>5. SubSeq(con.ring, 1, Len(con.ring)) = con.ring
      BY ONLY <2>2
    <3> QED
      BY ZenonT(60), <2>1, <3>2, <3>4, <3>5
  <2> QED
    BY ZenonT(60), <2>1, <2>5, <2>6 DEF Output
<1>4. CASE ContainerWrites
  <2>1. /\ q'.n = q.n + 1 /\ q'.out = Append(q.out, q.n + 1) /\ q'.pin = q.pin /\ q'.pout = q.pout
        /\ UNCHANGED <<cfg, con, mon, cli, log, user, faults>>
    BY ZenonT(60), <1>4, WritesEffect
  <2>2. PICK k, o : k = Len(log.read) /\ o = q.out
    BY ZenonT(60)
  <2>3. k \in Nat /\ o \in Seq(Nat)
    <3>1. log.read \in Seq(Nat) /\ q.out \in Seq(Nat)
      BY ZenonT(60), OutTypes
    <3> QED
      BY <2>2, <3>1
  <2>4. q.n = k + Len(o) /\ \A i \in DOMAIN o : o[i] = k + i
    BY ZenonT(60), <2>2 DEF Output
  <2>5. PICK p : p = Append(o, k + Len(o) + 1)
    BY ZenonT(60)
  <2>6. Len(p) = Len(o) + 1 /\ k + Len(o) + 1 = k + Len(p) /\ \A i \in DOMAIN p : p[i] = k + i
    <3>1. /\ Len(p) = Len(o) + 1 /\ DOMAIN p = 1 .. Len(o) + 1 /\ DOMAIN o = 1 .. Len(o) /\ Len(o) \in Nat
          /\ p[Len(o) + 1] = k + Len(o) + 1 /\ \A i \in 1 .. Len(o) : p[i] = o[i]
      BY ONLY <2>3, <2>5
    <3>2. k + Len(o) + 1 = k + (Len(o) + 1) /\ \A i \in 1 .. Len(o) + 1 : i \in 1 .. Len(o) \/ i = Len(o) + 1
      BY ONLY <2>3, <3>1
    <3> QED
      BY ZenonT(60), <2>4, <3>1, <3>2
  <2>7. q'.out = p
    BY ZenonT(60), <2>1, <2>2, <2>4, <2>5
  <2>8. q'.n = Len(log'.read) + Len(q'.out) /\ \A i \in DOMAIN q'.out : q'.out[i] = Len(log'.read) + i
    BY ZenonT(60), <2>1, <2>2, <2>4, <2>6, <2>7
  <2>9. LogBounded' /\ MirrorAtEnd'
    BY ZenonT(60), <2>1 DEF Output, LogBounded, MirrorAtEnd
  <2> QED
    BY ZenonT(60), <2>1, <2>8, <2>9 DEF Output
<1>5. CASE UserTypes
  <2>1. /\ q'.n = q.n /\ q'.out = q.out /\ q'.pin = q.pin /\ q'.pout = q.pout /\ user'.seen = user.seen
        /\ UNCHANGED <<cfg, con, mon, cli, log, faults>>
    BY ZenonT(60), <1>5, TypesEffect
  <2> QED
    BY SMTT(60), <1>1, <2>1, OutputFrame
<1>6. CASE InitExits
  BY SMTT(60), <1>1, <1>6, ExitsEffect, OutputFrame
<1>7. ASSUME NEW x \in cfg.sends, Signal(x) PROVE Output'
  <2>1. user'.seen = user.seen /\ UNCHANGED <<cfg, con, mon, cli, q, log, faults>>
    BY ZenonT(60), <1>7, SignalEffect
  <2> QED
    BY <1>1, <2>1, OutputFrame
<1> QED
  BY ZenonT(60), <1>2, <1>3, <1>4, <1>5, <1>6, <1>7

-----------------------------------------------------------------------------
(* What goes in                                                            *)

\* Less is asked of a client that is not in its loop.
LEMMA UnescapedWeaker ==
    ASSUME NEW t, NEW s, NEW n, NEW a, NEW b, b => a, Unescaped(t, s, n, a)
    PROVE  Unescaped(t, s, n, b)
  BY ZenonT(60) DEF Unescaped

\* Before anything is typed nothing has been sent.
LEMMA UnescapedNothing ==
    ASSUME NEW t, NEW s, NEW n, NEW a, n = 0, Unescaped(t, s, n, a), NEW r, NEW b
    PROVE  Unescaped(t, r, n, b)
<1>1. Passed(s, n) = {} /\ Passed(r, n) = {}
  BY DEF Passed
<1> QED
  BY ZenonT(60), <1>1 DEF Unescaped

\* The beginning of what was sent, when the rest is lost.
LEMMA UnescapedPrefix ==
    ASSUME NEW S, NEW t \in Seq(S), NEW p \in Seq(S), NEW s, NEW n \in Nat, NEW a, Unescaped(t \o p, s, n, a)
    PROVE  Unescaped(t, s, n, FALSE)
<1>1. PICK w, l : w = t \o p /\ l = Len(t)
  BY ZenonT(60)
<1>2. l \in Nat /\ DOMAIN t = 1 .. l /\ (\A j \in DOMAIN t : j \in DOMAIN w /\ w[j] = t[j]) /\ DOMAIN w \subseteq Nat
  BY <1>1
<1>3. PICK pos \in [DOMAIN w -> Passed(s, n)] :
        /\ \A j \in DOMAIN w : w[j] = s[pos[j]]
        /\ \A j, k \in DOMAIN w : j < k => pos[j] < pos[k]
        /\ \A i \in Passed(s, n) : a \/ (\E j \in DOMAIN w : i < pos[j]) => \E j \in DOMAIN w : i = pos[j]
  BY ZenonT(60), <1>1 DEF Unescaped
<1>4. PICK u : u = [j \in DOMAIN t |-> pos[j]]
  BY ZenonT(60)
<1>5. u \in [DOMAIN t -> Passed(s, n)] /\ \A j \in DOMAIN t : u[j] = pos[j]
  BY ZenonT(60), <1>2, <1>3, <1>4
<1>6. /\ \A j \in DOMAIN t : t[j] = s[u[j]]
      /\ \A j, k \in DOMAIN t : j < k => u[j] < u[k]
  BY ZenonT(60), <1>2, <1>3, <1>5
<1>7. ASSUME NEW i \in Passed(s, n), NEW j \in DOMAIN t, i < u[j] PROVE \E k \in DOMAIN t : i = u[k]
  <2>1. PICK k \in DOMAIN w : i = pos[k]
    BY ZenonT(60), <1>2, <1>3, <1>5, <1>7
  <2>2. pos[k] < pos[j] /\ pos[k] \in Nat /\ pos[j] \in Nat /\ j \in DOMAIN w
    <3>1. Passed(s, n) \subseteq Nat
      BY DEF Passed
    <3> QED
      BY ZenonT(60), <1>2, <1>3, <1>5, <1>7, <2>1, <3>1
  <2>3. ~(j < k) /\ j # k
    <3>1. j < k => pos[j] < pos[k]
      BY ZenonT(60), <1>3, <2>2
    <3>2. ~(pos[j] < pos[k]) /\ pos[j] # pos[k]
      BY ONLY <2>2
    <3> QED
      BY ZenonT(60), <3>1, <3>2
  <2>4. k \in DOMAIN t
    <3>1. j \in 1 .. l /\ k \in Nat /\ k # 0
      BY <1>1, <1>2
    <3>2. k \in 1 .. l
      BY ONLY SMTT(60), <1>2, <2>3, <3>1
    <3> QED
      BY ZenonT(60), <1>2, <3>2
  <2> QED
    BY ZenonT(60), <1>5, <2>1, <2>4
<1> QED
  BY ZenonT(60), <1>5, <1>6, <1>7 DEF Unescaped

\* The positions that count, and one more.
LEMMA PassedNext ==
    ASSUME NEW s, NEW n \in Nat
    PROVE  /\ Passed(s, n) \subseteq 1 .. n
           /\ Passed(s, n + 1) = IF KeptBack(s, n + 1) THEN Passed(s, n) ELSE Passed(s, n) \cup {n + 1}
<1>1. 1 .. n + 1 = (1 .. n) \cup {n + 1}
  OBVIOUS
<1> QED
  BY ZenonT(60), <1>1 DEF Passed

\* A character is kept back, or the client leaves with it.
LEMMA UnescapedSkip ==
    ASSUME NEW t, NEW s, NEW n \in Nat, NEW a, NEW b, b => a /\ KeptBack(s, n + 1), Unescaped(t, s, n, a)
    PROVE  Unescaped(t, s, n + 1, b)
<1>1. PICK pos \in [DOMAIN t -> Passed(s, n)] :
        /\ \A j \in DOMAIN t : t[j] = s[pos[j]]
        /\ \A j, k \in DOMAIN t : j < k => pos[j] < pos[k]
        /\ \A i \in Passed(s, n) : a \/ (\E j \in DOMAIN t : i < pos[j]) => \E j \in DOMAIN t : i = pos[j]
  BY ZenonT(60) DEF Unescaped
<1>2. pos \in [DOMAIN t -> Passed(s, n + 1)]
  BY ZenonT(60), <1>1, PassedNext
<1>3. ASSUME NEW i \in Passed(s, n + 1), b \/ \E j \in DOMAIN t : i < pos[j] PROVE \E j \in DOMAIN t : i = pos[j]
  <2>1. i # n + 1 => i \in Passed(s, n)
    BY ZenonT(60), PassedNext
  <2>2. CASE b
    <3>1. i \in Passed(s, n)
      BY ZenonT(60), <2>2, PassedNext
    <3> QED
      BY ZenonT(60), <1>1, <2>2, <3>1
  <2>3. ASSUME NEW j \in DOMAIN t, i < pos[j] PROVE \E k \in DOMAIN t : i = pos[k]
    <3>1. pos[j] \in 1 .. n
      BY ZenonT(60), <1>1, PassedNext
    <3>2. i # n + 1
      BY ONLY <2>3, <3>1, n \in Nat
    <3> QED
      BY ZenonT(60), <1>1, <2>1, <2>3, <3>2
  <2> QED
    BY ZenonT(60), <1>3, <2>2, <2>3
<1> QED
  BY ZenonT(60), <1>1, <1>2, <1>3 DEF Unescaped

\* A character is sent.
LEMMA UnescapedAppend ==
    ASSUME NEW S, NEW t \in Seq(S), NEW s, NEW n \in Nat, s[n + 1] \in S, ~KeptBack(s, n + 1), Unescaped(t, s, n, TRUE),
           NEW w, w = Append(t, s[n + 1])
    PROVE  Unescaped(w, s, n + 1, TRUE)
<1>1. PICK l : l = Len(t)
  BY ZenonT(60)
<1>2. /\ l \in Nat /\ DOMAIN t = 1 .. l /\ DOMAIN w = 1 .. l + 1 /\ (\A j \in 1 .. l : w[j] = t[j]) /\ w[l + 1] = s[n + 1]
  BY ONLY SMTT(60), <1>1, t \in Seq(S), w = Append(t, s[n + 1]), s[n + 1] \in S
<1>3. PICK pos \in [1 .. l -> Passed(s, n)] :
        /\ \A j \in 1 .. l : t[j] = s[pos[j]]
        /\ \A j, k \in 1 .. l : j < k => pos[j] < pos[k]
        /\ \A i \in Passed(s, n) : \E j \in 1 .. l : i = pos[j]
  BY ZenonT(60), <1>2 DEF Unescaped
<1>4. PICK u : u = [j \in 1 .. l + 1 |-> IF j = l + 1 THEN n + 1 ELSE pos[j]]
  BY ZenonT(60)
<1>5. /\ \A j \in 1 .. l + 1 : j \in 1 .. l \/ j = l + 1
      /\ \A j \in 1 .. l : j \in 1 .. l + 1 /\ j # l + 1 /\ ~(l + 1 < j)
      /\ l + 1 \in 1 .. l + 1 /\ ~(l + 1 < l + 1)
      /\ \A i \in 1 .. n : i < n + 1
  BY ONLY <1>2, n \in Nat
<1>6. Passed(s, n + 1) = Passed(s, n) \cup {n + 1} /\ Passed(s, n) \subseteq 1 .. n
  BY ZenonT(60), PassedNext
<1>7. u \in [1 .. l + 1 -> Passed(s, n + 1)] /\ (\A j \in 1 .. l : u[j] = pos[j]) /\ u[l + 1] = n + 1
  BY ZenonT(60), <1>3, <1>4, <1>5, <1>6
<1>8. \A j \in 1 .. l + 1 : w[j] = s[u[j]]
  BY ZenonT(60), <1>2, <1>3, <1>5, <1>7
<1>9. \A j \in 1 .. l + 1, k \in 1 .. l + 1 : j < k => u[j] < u[k]
  <2>1. ASSUME NEW j \in 1 .. l + 1, NEW k \in 1 .. l + 1, j < k PROVE u[j] < u[k]
    <3>1. j \in 1 .. l
      BY ONLY <2>1, <1>2
    <3>2. CASE k \in 1 .. l
      BY ZenonT(60), <1>3, <1>7, <2>1, <3>1, <3>2
    <3>3. CASE k = l + 1
      BY ZenonT(60), <1>3, <1>5, <1>6, <1>7, <3>1, <3>3
    <3> QED
      BY ZenonT(60), <1>5, <3>2, <3>3
  <2> QED
    BY ZenonT(60), <2>1
<1>10. \A i \in Passed(s, n + 1) : \E j \in 1 .. l + 1 : i = u[j]
  <2>1. ASSUME NEW i \in Passed(s, n) PROVE \E j \in 1 .. l + 1 : i = u[j]
    <3>1. PICK j \in 1 .. l : i = pos[j]
      BY ZenonT(60), <1>3
    <3> QED
      BY ZenonT(60), <1>5, <1>7, <3>1
  <2> QED
    BY ZenonT(60), <1>5, <1>6, <1>7, <2>1
<1>11. u \in [DOMAIN w -> Passed(s, n + 1)]
  BY ZenonT(60), <1>2, <1>7
<1>12. (\A j \in DOMAIN w : w[j] = s[u[j]]) /\ \A i \in Passed(s, n + 1) : \E j \in DOMAIN w : i = u[j]
  BY ZenonT(60), <1>2, <1>8, <1>10
<1>13. \A j, k \in DOMAIN w : j < k => u[j] < u[k]
  BY ZenonT(60), <1>2, <1>9
<1> QED
  BY ONLY ZenonT(60), <1>11, <1>12, <1>13 DEF Unescaped

\* lxc_terminal_stdin_cb(): an escape character is kept back unless the one
\* before it was.
LEMMA KeptNext ==
    ASSUME NEW s, NEW n \in Nat, n > 0 => RunBegins(s, n)
    PROVE  /\ KeptBack(s, n + 1) <=> s[n + 1] = ESC /\ ~(n > 0 /\ KeptBack(s, n))
           /\ RunBegins(s, n + 1)
<1>1. SUFFICES ASSUME s[n + 1] = ESC PROVE (KeptBack(s, n + 1) <=> ~(n > 0 /\ KeptBack(s, n))) /\ RunBegins(s, n + 1)
  BY ZenonT(60) DEF KeptBack, RunBegins
<1>2. n + 1 \in 1 .. n + 1 /\ (\A j \in n + 1 .. n + 1 : j = n + 1) /\ (n + 1) - 1 = n /\ ((n + 1) - (n + 1)) % 2 = 0
  OBVIOUS
<1>3. CASE n = 0 \/ s[n] # ESC
  <2>1. n + 1 = 1 \/ s[(n + 1) - 1] # ESC
    BY <1>2, <1>3
  <2>2. \A j \in n + 1 .. n + 1 : s[j] = ESC
    BY ZenonT(60), <1>1, <1>2
  <2>3. KeptBack(s, n + 1) /\ RunBegins(s, n + 1)
    BY ZenonT(60), <1>1, <1>2, <2>1, <2>2 DEF KeptBack, RunBegins
  <2>4. ~(n > 0 /\ KeptBack(s, n))
    BY <1>3 DEF KeptBack
  <2> QED
    BY ZenonT(60), <2>3, <2>4
<1>4. CASE n > 0 /\ s[n] = ESC
  <2>1. PICK k \in 1 .. n : (\A j \in k .. n : s[j] = ESC) /\ (k = 1 \/ s[k - 1] # ESC)
    BY ZenonT(60), <1>4 DEF RunBegins
  <2>2. k \in 1 .. n + 1 /\ \A j \in k .. n + 1 : j \in k .. n \/ j = n + 1
    OBVIOUS
  <2>3. \A j \in k .. n + 1 : s[j] = ESC
    BY ZenonT(60), <1>1, <2>1, <2>2
  <2>4. RunBegins(s, n + 1)
    BY ZenonT(60), <2>1, <2>2, <2>3 DEF RunBegins
  <2>5. ASSUME NEW m \in 1 .. n + 1, \A j \in m .. n + 1 : s[j] = ESC, m = 1 \/ s[m - 1] # ESC PROVE m = k
    <3>1. m # n + 1
      BY SMTT(60), <1>2, <1>4, <2>5
    <3>2. ~(m < k)
      <4>1. m < k => k # 1 /\ k - 1 \in m .. n + 1
        BY ONLY SMTT(60), m \in 1 .. n + 1, k \in 1 .. n, n \in Nat
      <4> QED
        BY ZenonT(60), <2>1, <2>5, <4>1
    <3>3. ~(k < m)
      <4>1. k < m => m # 1 /\ m - 1 \in k .. n
        BY ONLY SMTT(60), m \in 1 .. n + 1, k \in 1 .. n, n \in Nat
      <4> QED
        BY ZenonT(60), <2>1, <2>5, <4>1
    <3> QED
      BY ONLY SMTT(60), <3>2, <3>3, m \in 1 .. n + 1, k \in 1 .. n, n \in Nat
  <2>6. KeptBack(s, n + 1) <=> ((n + 1) - k) % 2 = 0
    BY ZenonT(60), <1>1, <2>1, <2>2, <2>3, <2>5 DEF KeptBack
  <2>7. ASSUME NEW m \in 1 .. n, \A j \in m .. n : s[j] = ESC, m = 1 \/ s[m - 1] # ESC PROVE m = k
    <3>1. m \in 1 .. n + 1 /\ \A j \in m .. n + 1 : j \in m .. n \/ j = n + 1
      OBVIOUS
    <3> QED
      BY ZenonT(60), <1>1, <2>5, <2>7, <3>1
  <2>8. KeptBack(s, n) <=> (n - k) % 2 = 0
    BY ZenonT(60), <1>4, <2>1, <2>7 DEF KeptBack
  <2>9. ((n + 1) - k) % 2 = 0 <=> ~((n - k) % 2 = 0)
    BY ONLY k \in 1 .. n, n \in Nat
  <2> QED
    BY ZenonT(60), <1>4, <2>4, <2>6, <2>8, <2>9
<1> QED
  BY SMTT(60), <1>3, <1>4

\* Appending y to b appends it to what b is behind.
GoesLast(a, b, y) == a \o Append(b, y) = Append(a \o b, y)

\* Appending to the second of two sequences.
LEMMA AppendAfter ==
    ASSUME NEW S, NEW a \in Seq(S), NEW b \in Seq(S), NEW y \in S
    PROVE  a \o b \in Seq(S) /\ GoesLast(a, b, y)
<1>1. PICK e, w, u, v : e = Append(b, y) /\ w = a \o b /\ u = a \o e /\ v = Append(w, y)
  BY ZenonT(60)
<1>2. PICK l, m : l = Len(a) /\ m = Len(b)
  BY ZenonT(60)
<1>3. l \in Nat /\ m \in Nat /\ e \in Seq(S) /\ Len(e) = m + 1 /\ e[m + 1] = y /\ \A i \in 1 .. m : e[i] = b[i]
  BY <1>1, <1>2
<1>4. /\ w \in Seq(S) /\ Len(w) = l + m /\ \A i \in 1 .. l : w[i] = a[i]
      /\ \A i \in 1 .. m : w[l + i] = b[i]
  <2>1. /\ w \in Seq(S) /\ Len(w) = Len(a) + Len(b) /\ \A i \in 1 .. Len(a) : w[i] = a[i]
        /\ \A i \in 1 .. Len(b) : w[Len(a) + i] = b[i]
    BY <1>1, AfterSeq
  <2> QED
    BY ZenonT(60), <1>2, <2>1
<1>5. /\ u \in Seq(S) /\ Len(u) = l + (m + 1) /\ \A i \in 1 .. l : u[i] = a[i]
      /\ \A i \in 1 .. m + 1 : u[l + i] = e[i]
  <2>1. /\ u \in Seq(S) /\ Len(u) = Len(a) + Len(e) /\ \A i \in 1 .. Len(a) : u[i] = a[i]
        /\ \A i \in 1 .. Len(e) : u[Len(a) + i] = e[i]
    <3>1. e \in Seq(S) /\ u = a \o e
      BY ZenonT(60), <1>1, <1>3
    <3> QED
      BY ONLY SMTT(60), <3>1, a \in Seq(S), AfterSeq
  <2> QED
    BY ZenonT(60), <1>2, <1>3, <2>1
<1>6. v \in Seq(S) /\ Len(v) = l + m + 1 /\ v[l + m + 1] = y /\ \A i \in 1 .. l + m : v[i] = w[i]
  <2>1. v = Append(w, y) /\ y \in S
    BY ZenonT(60), <1>1
  <2> QED
    BY ONLY <1>3, <1>4, <2>1
<1>7. l + (m + 1) = l + m + 1
  BY ONLY <1>3
<1>8. \A i \in 1 .. l + m + 1 : \/ i \in 1 .. l /\ i \in 1 .. l + m
                                \/ \E j \in 1 .. m : i = l + j /\ i \in 1 .. l + m /\ j \in 1 .. m + 1
                                \/ i = l + m + 1 /\ i = l + (m + 1) /\ m + 1 \in 1 .. m + 1
  <2>1. ASSUME NEW i \in 1 .. l + m + 1, i > l, i # l + m + 1 PROVE i - l \in 1 .. m /\ i = l + (i - l) /\ i \in 1 .. l + m /\ i - l \in 1 .. m + 1
    BY ONLY <1>3, <2>1
  <2>2. ASSUME NEW i \in 1 .. l + m + 1, ~(i > l) PROVE i \in 1 .. l /\ i \in 1 .. l + m
    BY ONLY <1>3, <2>2
  <2>3. m + 1 \in 1 .. m + 1
    BY ONLY <1>3
  <2> QED
    BY ZenonT(60), <1>7, <2>1, <2>2, <2>3
<1>9. \A i \in 1 .. l + m + 1 : u[i] = v[i]
  <2>1. ASSUME NEW j \in 1 .. m, l + j \in 1 .. l + m, j \in 1 .. m + 1 PROVE u[l + j] = v[l + j]
    BY ZenonT(60), <1>3, <1>4, <1>5, <1>6, <2>1
  <2>2. \A i \in 1 .. l : i \in 1 .. l + m => u[i] = v[i]
    BY ZenonT(60), <1>4, <1>5, <1>6
  <2>3. m + 1 \in 1 .. m + 1 => u[l + (m + 1)] = v[l + m + 1]
    BY ZenonT(60), <1>3, <1>5, <1>6
  <2> QED
    BY ZenonT(60), <1>7, <1>8, <2>1, <2>2, <2>3
<1>10. u = v
  BY ZenonT(60), <1>5, <1>6, <1>7, <1>9, SeqEqual
<1> QED
  BY ZenonT(60), <1>1, <1>4, <1>10 DEF GoesLast

\* The types of what is typed.
LEMMA InTypes ==
    ASSUME Shape
    PROVE  /\ q.pin \in Seq(STRING)
           /\ \A c \in Client : /\ got[c] \in Seq(STRING) /\ cli[c].typed \in Seq(STRING) /\ cli[c].i \in Nat /\ cli[c].saw \in BOOLEAN
                                /\ cli[c].pc \in CliPc /\ c # NoOne
<1>1. q.pin \in Seq(STRING)
  BY ZenonT(60) DEF Shape, QShape
<1>2. \A c \in Client : cli[c].typed \in Seq(STRING) /\ cli[c].i \in Nat /\ cli[c].saw \in BOOLEAN /\ cli[c].pc \in CliPc
  BY ZenonT(60) DEF Shape, ClientShape
<1>3. \A c \in Client : got[c] \in Seq(STRING)
  BY ZenonT(60) DEF Shape
<1>4. \A c \in Client : c # NoOne
  BY ZenonT(60), ClientAssumption
<1> QED
  BY ZenonT(60), <1>1, <1>2, <1>3, <1>4

\* Nothing of what a client has typed is sent, kept back or lost.
LEMMA TypingFrame ==
    ASSUME NEW c \in Client, Typing(c), Way(c)' = Way(c),
           cli'[c].typed = cli[c].typed, cli'[c].i = cli[c].i, cli'[c].saw = cli[c].saw,
           cli'[c].pc = cli[c].pc \/ (cli[c].pc = "ask" /\ cli'[c].pc = "loop") \/ cli'[c].pc \in {"close", "done", "killed"}
    PROVE  Typing(c)'
<1>1. CASE cli'[c].pc = "loop" /\ cli[c].pc = "ask"
  <2>1. cli[c].i = 0 /\ ~cli[c].saw
    BY ZenonT(60), <1>1 DEF Typing
  <2>2. ~(cli[c].i > 0)
    BY <2>1
  <2>3. Unescaped(Way(c), cli[c].typed, cli[c].i, TRUE)
    BY ZenonT(60), <2>1, UnescapedNothing DEF Typing
  <2>4. Unescaped(Way(c)', cli'[c].typed, cli'[c].i, cli'[c].pc = "loop")
    BY ZenonT(60), <1>1, <2>3
  <2> QED
    BY ZenonT(60), <1>1, <2>1, <2>2, <2>4 DEF Typing
<1>2. CASE cli'[c].pc = cli[c].pc
  BY ZenonT(60), <1>2 DEF Typing
<1>3. CASE cli'[c].pc \in {"close", "done", "killed"}
  <2>1. cli'[c].pc # "loop" /\ cli'[c].pc \notin {"idle", "ask"}
    BY ZenonT(60), <1>3
  <2>2. Unescaped(Way(c), cli[c].typed, cli[c].i, cli[c].pc = "loop")
    BY ZenonT(60) DEF Typing
  <2>3. Unescaped(Way(c), cli[c].typed, cli[c].i, cli'[c].pc = "loop")
    BY ZenonT(60), <2>1, <2>2, UnescapedWeaker
  <2> QED
    BY ZenonT(60), <2>1, <2>3 DEF Typing
<1> QED
  BY ZenonT(60), <1>1, <1>2, <1>3

\* lxc_terminal_stdin_cb(): a character is kept back, ends the session or is sent.
LEMMA StdinTyping ==
    ASSUME Shape, Users, Input, NEW c \in Client, lxc_terminal_stdin_cb(c)
    PROVE  Typing(c)'
<1> DEFINE x == cli[c].typed[cli[c].i + 1]
<1>1. PICK s, n : s = cli[c].typed /\ n = cli[c].i
  BY ZenonT(60)
<1>2. /\ s \in Seq(STRING) /\ n \in Nat /\ got[c] \in Seq(STRING) /\ q.pin \in Seq(STRING) /\ n < Len(s) /\ cli[c].pc = "loop"
      /\ cli'[c].typed = s /\ cli'[c].i = n + 1 /\ cli'[c].fd = cli[c].fd /\ con' = con /\ cli[c].saw \in BOOLEAN
      /\ \/ x = ESC /\ cli[c].saw = FALSE /\ cli'[c].saw = TRUE /\ cli'[c].pc = "loop" /\ q' = q /\ got' = got
         \/ x = "q" /\ cli'[c].pc = "close" /\ q' = q /\ got' = got
         \/ /\ x # ESC \/ cli[c].saw = TRUE
            /\ cli'[c].saw = FALSE /\ cli'[c].pc = "loop" /\ Written(c, x)
  <2>1. s \in Seq(STRING) /\ n \in Nat /\ got[c] \in Seq(STRING) /\ q.pin \in Seq(STRING) /\ cli[c].saw \in BOOLEAN
    BY ZenonT(60), <1>1, InTypes
  <2>2. /\ n < Len(s) /\ cli[c].pc = "loop" /\ cli'[c].i = n + 1 /\ con' = con
    BY ZenonT(60), <1>1, StdinEffect
  <2>3. cli'[c].typed = cli[c].typed /\ cli'[c].fd = cli[c].fd
    BY ZenonT(60), StdinEffect
  <2> QED
    BY ZenonT(60), <1>1, <2>1, <2>2, <2>3, StdinEffect
<1>3. x = s[n + 1]
  BY ZenonT(60), <1>1
<1> HIDE DEF x
<1>4. /\ Unescaped(Way(c), s, n, TRUE) /\ (cli[c].saw <=> n > 0 /\ KeptBack(s, n)) /\ (n > 0 => RunBegins(s, n))
  BY ZenonT(60), <1>1, <1>2 DEF Input, Typing
<1>5. /\ KeptBack(s, n + 1) <=> x = ESC /\ ~cli[c].saw
      /\ RunBegins(s, n + 1)
  BY ZenonT(60), <1>2, <1>3, <1>4, KeptNext
<1>6. n + 1 > 0 /\ n + 1 =< Len(s) /\ x \in STRING
  BY SMTT(60), <1>2, <1>3
<1>7. ASSUME Unescaped(Way(c)', s, n + 1, cli'[c].pc = "loop"),
             cli'[c].pc = "loop" \/ cli'[c].pc = "close",
             cli'[c].pc = "loop" => (cli'[c].saw <=> KeptBack(s, n + 1))
      PROVE  Typing(c)'
  <2>1. cli'[c].pc \notin {"idle", "ask"}
    BY ZenonT(60), <1>7
  <2> QED
    BY ZenonT(60), <1>2, <1>5, <1>6, <1>7, <2>1 DEF Typing
<1>8. CASE x = ESC /\ cli[c].saw = FALSE /\ cli'[c].saw = TRUE /\ cli'[c].pc = "loop" /\ q' = q /\ got' = got
  <2>1. Way(c)' = Way(c)
    BY ZenonT(60), <1>2, <1>8 DEF Way
  <2>2. Unescaped(Way(c), s, n + 1, cli'[c].pc = "loop")
    BY ZenonT(60), <1>2, <1>4, <1>5, <1>8, UnescapedSkip
  <2> QED
    BY ZenonT(60), <1>5, <1>7, <1>8, <2>1, <2>2
<1>9. CASE x = "q" /\ cli'[c].pc = "close" /\ q' = q /\ got' = got
  <2>1. Way(c)' = Way(c)
    BY ZenonT(60), <1>2, <1>9 DEF Way
  <2>2. cli'[c].pc # "loop"
    BY ZenonT(60), <1>9
  <2>3. Unescaped(Way(c), s, n + 1, cli'[c].pc = "loop")
    BY ZenonT(60), <1>2, <1>4, <2>2, UnescapedSkip
  <2> QED
    BY ZenonT(60), <1>7, <1>9, <2>1, <2>2, <2>3
<1>10. CASE /\ x # ESC \/ cli[c].saw = TRUE
            /\ cli'[c].saw = FALSE /\ cli'[c].pc = "loop" /\ Written(c, x)
  <2>1. ~KeptBack(s, n + 1)
    BY ZenonT(60), <1>5, <1>10
  <2>2. Way(c) \in Seq(STRING) /\ Way(c)' = Append(Way(c), x)
    <3>1. /\ cli[c].fd \in {"console", "tty"} /\ (cli[c].fd = "console" => con.busy = c) /\ (cli[c].fd = "tty" => con.busy # c)
      <4>1. User(c)
        BY ZenonT(60) DEF Users
      <4>2. cli[c].fd \in {"no", "console", "tty"}
        BY ZenonT(60) DEF Shape, ClientShape
      <4> QED
        BY SMTT(60), <1>2, <4>1, <4>2 DEF User
    <3>2. CASE cli[c].fd = "tty"
      <4>1. got' = [got EXCEPT ![c] = Append(@, x)] /\ con.busy # c
        BY ZenonT(60), <1>10, <3>1, <3>2 DEF Written
      <4>2. got'[c] = Append(got[c], x)
        BY ZenonT(60), <4>1 DEF Shape
      <4> QED
        BY ZenonT(60), <1>2, <4>1, <4>2 DEF Way
    <3>3. CASE cli[c].fd = "console"
      <4>1. con.busy = c /\ q' = [q EXCEPT !.pin = Append(@, x)] /\ got' = got
        <5>1. cli[c].fd # "tty" /\ con.busy = c
          BY ZenonT(60), <3>1, <3>3
        <5> QED
          BY ZenonT(60), <1>10, <5>1 DEF Written
      <4>2. q'.pin = Append(q.pin, x)
        BY ZenonT(60), <4>1 DEF Shape, QShape
      <4>3. got[c] \o q.pin \in Seq(STRING) /\ got[c] \o Append(q.pin, x) = Append(got[c] \o q.pin, x)
        <5>1. got[c] \in Seq(STRING) /\ q.pin \in Seq(STRING) /\ x \in STRING
          BY ZenonT(60), <1>2, <1>6
        <5>2. got[c] \o q.pin \in Seq(STRING)
          BY ONLY ZenonT(60), <5>1, AppendAfter
        <5>3. GoesLast(got[c], q.pin, x)
          BY ONLY ZenonT(60), <5>1, AppendAfter
        <5> QED
          BY ZenonT(60), <5>2, <5>3 DEF GoesLast
      <4> QED
        BY ZenonT(60), <1>2, <4>1, <4>2, <4>3 DEF Way
    <3> QED
      BY ZenonT(60), <3>1, <3>2, <3>3
  <2>3. Unescaped(Way(c)', s, n + 1, TRUE)
    BY ZenonT(60), <1>2, <1>3, <1>4, <1>6, <2>1, <2>2, UnescapedAppend
  <2> QED
    BY ZenonT(60), <1>7, <1>10, <2>1, <2>3
<1> QED
  BY ZenonT(60), <1>2, <1>8, <1>9, <1>10

\* The steps of a client.
LEMMA InputClient ==
    ASSUME Shape, Users, Input, NEW c \in Client, lxc_cmd_get_tty_fd(c) \/ Session(c) \/ ClientKilled(c) \/ ClientTold(c)
    PROVE  Input'
<1>1. ASSUME con' = con, got' = got, q'.pin = q.pin, Others(c), Typing(c)' PROVE Input'
  <2>1. ASSUME NEW d \in Client, d # c PROVE Typing(d)'
    <3>1. Way(d)' = Way(d) /\ cli'[d] = cli[d] /\ Typing(d)
      BY ZenonT(60), <1>1, <2>1 DEF Way, Others, Input
    <3> QED
      BY ZenonT(60), <3>1, TypingFrame
  <2> QED
    BY ZenonT(60), <1>1, <2>1 DEF Input
<1>2. Typing(c)
  BY ZenonT(60) DEF Input
<1>3. ASSUME con' = con, got' = got, q'.pin = q.pin, Others(c),
             cli'[c].typed = cli[c].typed, cli'[c].i = cli[c].i, cli'[c].saw = cli[c].saw,
             cli'[c].pc = cli[c].pc \/ (cli[c].pc = "ask" /\ cli'[c].pc = "loop") \/ cli'[c].pc \in {"close", "done", "killed"}
      PROVE  Input'
  <2>1. Way(c)' = Way(c)
    BY ZenonT(60), <1>3 DEF Way
  <2>2. Typing(c)'
    BY ZenonT(60), <1>2, <1>3, <2>1, TypingFrame
  <2> QED
    BY ZenonT(60), <1>1, <1>3, <2>2
<1>4. CASE lxc_cmd_get_tty_fd(c)
  <2>1. /\ Others(c) /\ cli[c].pc = "idle" /\ cli'[c].pc = "ask" /\ cli'[c].i = cli[c].i /\ cli'[c].saw = cli[c].saw
        /\ UNCHANGED <<con, q, got>> /\ Shape'
    BY ZenonT(60), <1>4, GetTtyFdEffect
  <2>2. cli[c].i = 0 /\ ~cli[c].saw /\ Unescaped(Way(c), cli[c].typed, cli[c].i, cli[c].pc = "loop")
    BY ZenonT(60), <1>2, <2>1 DEF Typing
  <2>3. Way(c)' = Way(c)
    BY ZenonT(60), <2>1 DEF Way
  <2>4. Unescaped(Way(c)', cli'[c].typed, cli'[c].i, cli'[c].pc = "loop")
    BY ZenonT(60), <2>1, <2>2, <2>3, UnescapedNothing
  <2>5. cli'[c].pc # "loop" /\ cli'[c].i =< Len(cli'[c].typed)
    <3>1. cli'[c].typed \in Seq(STRING)
      BY ZenonT(60), <2>1 DEF Shape, ClientShape
    <3> QED
      BY SMTT(60), <2>1, <2>2, <3>1
  <2>6. Typing(c)'
    BY ZenonT(60), <2>1, <2>2, <2>4, <2>5 DEF Typing
  <2> QED
    BY ZenonT(60), <1>1, <2>1, <2>6
<1>5. CASE lxc_console_setup(c)
  <2>1. /\ Others(c) /\ cli[c].pc = "ask" /\ cli'[c].pc \in {"loop", "done"} /\ UNCHANGED <<con, q, got>>
    BY ZenonT(60), <1>5, SetupEffect
  <2>2. cli'[c].typed = cli[c].typed /\ cli'[c].i = cli[c].i /\ cli'[c].saw = cli[c].saw
    BY ZenonT(60), <1>5, SetupEffect
  <2> QED
    BY ZenonT(60), <1>3, <2>1, <2>2
<1>6. CASE lxc_terminal_stdin_cb(c)
  <2>1. Typing(c)' /\ Others(c) /\ con' = con
    BY ZenonT(60), <1>6, StdinTyping, StdinEffect
  <2>2. \/ q' = q /\ got' = got
        \/ got' = [got EXCEPT ![c] = Append(@, cli[c].typed[cli[c].i + 1])] /\ q' = q
        \/ q' = [q EXCEPT !.pin = IF con.busy = c THEN Append(@, cli[c].typed[cli[c].i + 1]) ELSE @] /\ got' = got
    BY ZenonT(60), <1>6, StdinEffect DEF Written
  <2>3. con.busy # c => q'.pin = q.pin
    BY ZenonT(60), <2>2 DEF Shape, QShape
  <2>4. \A d \in Client : d # c => got'[d] = got[d]
    BY ZenonT(60), <2>2 DEF Shape
  <2>5. ASSUME NEW d \in Client, d # c PROVE Typing(d)'
    <3>1. Way(d)' = Way(d)
      <4>1. con.busy = d => con.busy # c
        BY ZenonT(60), <2>5
      <4> QED
        BY ZenonT(60), <2>1, <2>3, <2>4, <2>5, <4>1 DEF Way
    <3>2. cli'[d] = cli[d] /\ Typing(d)
      BY ZenonT(60), <2>1, <2>5 DEF Others, Input
    <3> QED
      BY ZenonT(60), <3>1, <3>2, TypingFrame
  <2> QED
    BY ZenonT(60), <2>1, <2>5 DEF Input
<1>7. CASE lxc_terminal_ptx_cb(c)
  <2>1. /\ Others(c) /\ cli[c].pc = "loop" /\ cli'[c].pc \in {"loop", "close"} /\ UNCHANGED <<con, got>>
    BY ZenonT(60), <1>7, PtxCbEffect
  <2>2. cli'[c].typed = cli[c].typed /\ cli'[c].i = cli[c].i /\ cli'[c].saw = cli[c].saw /\ q'.pin = q.pin
    BY ZenonT(60), <1>7, PtxCbEffect
  <2> QED
    BY ZenonT(60), <1>3, <2>1, <2>2
<1>8. CASE lxc_console_term(c)
  <2>1. /\ Others(c) /\ cli'[c].pc = "close" /\ UNCHANGED <<con, q, got>>
        /\ cli'[c].typed = cli[c].typed /\ cli'[c].i = cli[c].i /\ cli'[c].saw = cli[c].saw
    BY ZenonT(60), <1>8, TermEffect
  <2> QED
    BY ZenonT(60), <1>3, <2>1
<1>9. CASE lxc_console_end(c)
  <2>1. /\ Others(c) /\ cli'[c].pc = "done" /\ UNCHANGED <<con, q, got>>
        /\ cli'[c].typed = cli[c].typed /\ cli'[c].i = cli[c].i /\ cli'[c].saw = cli[c].saw
    BY ZenonT(60), <1>9, EndEffect
  <2> QED
    BY ZenonT(60), <1>3, <2>1
<1>10. CASE ClientKilled(c)
  <2>1. /\ Others(c) /\ cli'[c].pc = "killed" /\ UNCHANGED <<con, q, got>>
        /\ cli'[c].typed = cli[c].typed /\ cli'[c].i = cli[c].i /\ cli'[c].saw = cli[c].saw
    BY ZenonT(60), <1>10, KilledEffect
  <2> QED
    BY ZenonT(60), <1>3, <2>1
<1>11. CASE ClientTold(c)
  <2>1. /\ Others(c) /\ cli'[c].pc = cli[c].pc /\ UNCHANGED <<con, q, got>>
        /\ cli'[c].typed = cli[c].typed /\ cli'[c].i = cli[c].i /\ cli'[c].saw = cli[c].saw
    BY ZenonT(60), <1>11, ToldEffect
  <2> QED
    BY ZenonT(60), <1>3, <2>1
<1> QED
  BY ZenonT(60), <1>4, <1>5, <1>6, <1>7, <1>8, <1>9, <1>10, <1>11 DEF Session

\* The steps of the monitor and what happens around it.
LEMMA InputAround ==
    ASSUME Shape, Users, Loop, Output, Input,
           Monitor \/ ContainerWrites \/ UserTypes \/ InitExits \/ \E x \in cfg.sends : Signal(x)
    PROVE  Input'
<1>1. ASSUME cli' = cli, con'.busy = con.busy, q'.pin = q.pin, \A d \in Client : got'[d] = got[d] PROVE Input'
  <2>1. ASSUME NEW d \in Client PROVE Typing(d)'
    <3>1. Way(d)' = Way(d) /\ cli'[d] = cli[d] /\ Typing(d)
      BY ZenonT(60), <1>1 DEF Way, Input
    <3> QED
      BY ZenonT(60), <3>1, TypingFrame
  <2> QED
    BY ZenonT(60), <2>1 DEF Input
<1>2. CASE lxc_terminal_parent
  <2>1. con'.busy = con.busy /\ UNCHANGED <<cli, q, got>>
    BY ZenonT(60), <1>2, ParentEffect
  <2> QED
    BY ZenonT(60), <1>1, <2>1
<1>3. CASE lxc_recv_console_from_child
  <2>1. con'.busy = con.busy /\ UNCHANGED <<cli, q, got>>
    BY ZenonT(60), <1>3, RecvEffect
  <2> QED
    BY ZenonT(60), <1>1, <2>1
<1>4. CASE lxc_terminal_setup
  <2>0. con.peer = "no"
    BY ZenonT(60), <1>4 DEF lxc_terminal_setup, Loop, Console, Early
  <2>1. con'.busy = con.busy /\ UNCHANGED <<cli, q, got>>
    BY ZenonT(60), <1>4, <2>0, TerminalSetupEffect
  <2> QED
    BY ZenonT(60), <1>1, <2>1
<1>5. CASE lxc_poll
  BY ZenonT(60), <1>1, <1>5, PollEffect
<1>6. CASE __lxc_mainloop_epoll
  BY ZenonT(60), <1>1, <1>6, EpollEffect
<1>7. CASE signal_handler
  BY ZenonT(60), <1>1, <1>7, SignalHandlerEffect
<1>8. CASE lxc_terminal_signalfd_cb
  BY ZenonT(60), <1>1, <1>8, SignalfdEffect
<1>9. CASE lxc_terminal_ptx_io_handler
  <2>1. con'.busy = con.busy /\ UNCHANGED <<cli, got>>
    BY ZenonT(60), <1>9, PtxIoEffect
  <2>2. q'.pin = q.pin
    <3>1. PICK n \in 1 .. Len(q.out), ok \in BOOLEAN : PtxRead(n, ok)
      BY ZenonT(60), <1>9, PtxIoEffect
    <3> QED
      BY ZenonT(60), <3>1 DEF PtxRead
  <2> QED
    BY ZenonT(60), <1>1, <2>1, <2>2
<1>10. CASE lxc_terminal_peer_io_handler
  <2>1. UNCHANGED <<cli, con>>
    BY ZenonT(60), <1>10, PeerIoEffect
  <2>2. CASE q'.pin = q.pin /\ \A d \in Client : got'[d] = got[d]
    BY ZenonT(60), <1>1, <2>1, <2>2
  <2>3. CASE q'.pin = <<>> /\ \A d \in Client : got'[d] = IF d = con.busy THEN got[d] \o q.pin ELSE got[d]
    <3>1. ASSUME NEW d \in Client PROVE Typing(d)'
      <4>1. CASE d = con.busy
        <5>1. got[d] \in Seq(STRING) /\ q.pin \in Seq(STRING)
          BY ZenonT(60), InTypes
        <5>2. \A a \in Seq(STRING) : a \o <<>> = a
          OBVIOUS
        <5>3. got[d] \o q.pin \in Seq(STRING)
          BY <5>1
        <5>4. (got[d] \o q.pin) \o <<>> = got[d] \o q.pin
          BY ZenonT(60), <5>2, <5>3
        <5>5. Way(d)' = Way(d)
          BY ZenonT(60), <2>1, <2>3, <4>1, <5>4 DEF Way
        <5> QED
          BY ZenonT(60), <2>1, <5>5, TypingFrame DEF Input
      <4>2. CASE d # con.busy
        <5>1. Way(d)' = Way(d)
          BY ZenonT(60), <2>1, <2>3, <4>2 DEF Way
        <5> QED
          BY ZenonT(60), <2>1, <5>1, TypingFrame DEF Input
      <4> QED
        BY ZenonT(60), <4>1, <4>2
    <3> QED
      BY ZenonT(60), <3>1 DEF Input
  <2> QED
    BY ZenonT(60), <1>10, <2>2, <2>3, PeerIoEffect
<1>11. CASE StaleEvent
  BY ZenonT(60), <1>1, <1>11, StaleEffect
<1>12. ASSUME NEW c \in Client, lxc_cmd_get_tty_fd_callback(c) PROVE Input'
  <2>1. /\ Others(c) /\ Granted(c) /\ UNCHANGED <<q, got>>
    BY ZenonT(60), <1>12, CallbackEffect
  <2>2. cli'[c].pc = cli[c].pc /\ cli'[c].typed = cli[c].typed /\ cli'[c].i = cli[c].i /\ cli'[c].saw = cli[c].saw
    BY ZenonT(60), <1>12, CallbackEffect
  <2>3. con'.busy = con.busy \/ (con.busy = NoOne /\ con'.busy = c)
    BY ZenonT(60), <2>1 DEF Granted
  <2>4. con.busy = NoOne => q.pin = <<>>
    BY ZenonT(60) DEF Output
  <2>5. ASSUME NEW d \in Client PROVE Typing(d)'
    <3>1. got[d] \o <<>> = got[d] /\ d # NoOne
      <4>1. \A a \in Seq(STRING) : a \o <<>> = a
        OBVIOUS
      <4> QED
        BY ZenonT(60), <4>1, InTypes
    <3>2. Way(d)' = Way(d)
      BY ZenonT(60), <2>1, <2>3, <2>4, <3>1 DEF Way
    <3>3. cli'[d].pc = cli[d].pc /\ cli'[d].typed = cli[d].typed /\ cli'[d].i = cli[d].i /\ cli'[d].saw = cli[d].saw
      BY ZenonT(60), <2>1, <2>2 DEF Others
    <3> QED
      BY ZenonT(60), <3>2, <3>3, TypingFrame DEF Input
  <2> QED
    BY ZenonT(60), <2>5 DEF Input
<1>13. ASSUME NEW c \in Client, lxc_cmd_cleanup_handler(c) PROVE Input'
  <2>1. Others(c) /\ Freed(c) /\ cli[c].conn = "closed" /\ got' = got
    BY ZenonT(60), <1>13, CleanupEffect
  <2>2. cli'[c].pc = cli[c].pc /\ cli'[c].typed = cli[c].typed /\ cli'[c].i = cli[c].i /\ cli'[c].saw = cli[c].saw
    BY ZenonT(60), <1>13, CleanupEffect
  <2>3. (con'.busy = con.busy /\ q' = q) \/ (con.busy = c /\ con'.busy = NoOne)
    BY ZenonT(60), <2>1 DEF Freed
  <2>4. cli[c].pc \in {"done", "killed"}
    BY ZenonT(60), <2>1 DEF Users, User
  <2>5. ASSUME NEW d \in Client, (con'.busy = con.busy /\ q' = q) \/ d # c PROVE Typing(d)'
    <3>1. Way(d)' = Way(d)
      <4>1. d # NoOne
        BY ZenonT(60), InTypes
      <4> QED
        BY ZenonT(60), <2>1, <2>3, <2>5, <4>1 DEF Way
    <3>2. cli'[d].pc = cli[d].pc /\ cli'[d].typed = cli[d].typed /\ cli'[d].i = cli[d].i /\ cli'[d].saw = cli[d].saw
      BY ZenonT(60), <2>1, <2>2 DEF Others
    <3> QED
      BY ZenonT(60), <3>1, <3>2, TypingFrame DEF Input
  <2>6. ASSUME con.busy = c, con'.busy = NoOne PROVE Typing(c)'
    <3>1. got[c] \in Seq(STRING) /\ q.pin \in Seq(STRING) /\ cli[c].i \in Nat /\ c # NoOne
      BY ZenonT(60), InTypes
    <3>2. Typing(c) /\ Way(c) = got[c] \o q.pin /\ Way(c)' = got[c]
      BY ZenonT(60), <2>1, <2>6, <3>1 DEF Input, Way
    <3>3. Unescaped(got[c] \o q.pin, cli[c].typed, cli[c].i, cli[c].pc = "loop")
      BY ZenonT(60), <3>2 DEF Typing
    <3>4. Unescaped(got[c], cli[c].typed, cli[c].i, FALSE)
      BY ZenonT(60), <3>1, <3>3, UnescapedPrefix
    <3>5. cli'[c].pc # "loop" /\ cli'[c].pc \notin {"idle", "ask"}
      BY ZenonT(60), <2>2, <2>4
    <3>6. Unescaped(Way(c)', cli'[c].typed, cli'[c].i, cli'[c].pc = "loop")
      <4>1. Unescaped(got[c], cli[c].typed, cli[c].i, cli'[c].pc = "loop")
        BY ZenonT(60), <3>4, <3>5, UnescapedWeaker
      <4> QED
        BY ZenonT(60), <2>2, <3>2, <4>1
    <3> QED
      BY ZenonT(60), <2>2, <3>2, <3>5, <3>6 DEF Typing
  <2> QED
    BY ZenonT(60), <2>3, <2>5, <2>6 DEF Input
<1>14. CASE lxc_end
  <2>1. con'.busy = con.busy /\ UNCHANGED <<cli, q, got>>
    BY ZenonT(60), <1>14, DeleteEffect
  <2> QED
    BY ZenonT(60), <1>1, <2>1
<1>15. CASE ContainerWrites
  <2>1. q'.pin = q.pin /\ UNCHANGED <<con, cli, got>>
    BY ZenonT(60), <1>15, WritesEffect
  <2> QED
    BY ZenonT(60), <1>1, <2>1
<1>16. CASE UserTypes
  <2>1. q'.pin = q.pin /\ UNCHANGED <<con, cli, got>>
    BY ZenonT(60), <1>16, TypesEffect
  <2> QED
    BY ZenonT(60), <1>1, <2>1
<1>17. CASE InitExits
  BY ZenonT(60), <1>1, <1>17, ExitsEffect
<1>18. ASSUME NEW x \in cfg.sends, Signal(x) PROVE Input'
  BY ZenonT(60), <1>1, <1>18, SignalEffect
<1> QED
  BY ZenonT(60), <1>2, <1>3, <1>4, <1>5, <1>6, <1>7, <1>8, <1>9, <1>10, <1>11, <1>12, <1>13, <1>14, <1>15, <1>16, <1>17, <1>18 DEF Monitor

-----------------------------------------------------------------------------
(* The whole                                                               *)

\* lxc_terminal_setup() finds the console without a peer.
LEMMA SetupFresh == ASSUME Loop, lxc_terminal_setup PROVE con.peer = "no"
  BY ZenonT(60) DEF lxc_terminal_setup, Loop, Console, Early

\* The invariant holds at first.
LEMMA InitHolds == Init => IInv
<1> SUFFICES ASSUME Init PROVE IInv
  OBVIOUS
<1>1. /\ cfg \in Setups /\ init = TRUE /\ faults = 0
      /\ con.ptx = FALSE /\ con.peer = "no" /\ con.busy = NoOne /\ con.sig = "no" /\ con.tios = FALSE
      /\ con.log = FALSE /\ con.ring = <<>> /\ con.tty = NoOne
      /\ mon.pc = "init" /\ mon.ev = <<>> /\ mon.reg = {} /\ mon.died = FALSE /\ mon.why = "no"
      /\ q.out = <<>> /\ q.n = 0 /\ q.pin = <<>> /\ q.pout = <<>>
      /\ log.cur = cfg.have /\ log.read = <<>> /\ user.raw = FALSE /\ user.seen = <<>>
  BY ZenonT(60) DEF Init, Console0
<1>2. \A c \in Client : /\ cli[c].pc = "idle" /\ cli[c].want = 0 /\ cli[c].conn = "no" /\ cli[c].fd = "no" /\ cli[c].typed = <<>>
                        /\ cli[c].i = 0 /\ cli[c].saw = FALSE /\ cli[c].raw = FALSE /\ cli[c].seen = <<>> /\ got[c] = <<>>
  BY ZenonT(60) DEF Init, Client0
<1>3. \A c \in Client : c # NoOne
  BY ZenonT(60), ClientAssumption
<1>4. Shape
  <2>1. <<>> \in Seq(Nat) /\ <<>> \in Seq(STRING) /\ <<>> \in Seq(Fixed \cup Client) /\ 0 \in Nat
    OBVIOUS
  <2>2. cfg.have \in Seq(Nat)
    BY ZenonT(60), <1>1, SetupsAssumption
  <2>3. ConShape
    BY ZenonT(60), <2>1 DEF Init, Console0, ConShape
  <2>4. MonShape
    BY ZenonT(60), <2>1 DEF Init, MonShape, MonPc
  <2>5. QShape /\ LogShape /\ UserShape
    BY ZenonT(60), <2>1, <2>2 DEF Init, QShape, LogShape, UserShape
  <2>6. Client0 \in ClientShape
    BY ZenonT(60), <2>1 DEF Client0, ClientShape, CliPc
  <2>7. cli \in [Client -> ClientShape] /\ got \in [Client \cup {"tty"} -> Seq(STRING)]
    BY ZenonT(60), <2>1, <2>6 DEF Init
  <2> QED
    BY ZenonT(60), <1>1, <2>1, <2>3, <2>4, <2>5, <2>7 DEF Shape
<1>5. Users
  BY ZenonT(60), <1>1, <1>2, <1>3 DEF Users, User, Early
<1>6. Console
  BY ZenonT(60), <1>1 DEF Console, Early, FromPeer
<1>7. Events /\ Ending
  BY <1>1 DEF Events, Ending, Early
<1>8. Output
  <2>1. LogBounded /\ MirrorAtEnd
    BY ZenonT(60), <1>1 DEF LogBounded, MirrorAtEnd
  <2>2. con.ring = Latest(log.read, cfg.ring)
    <3>1. cfg.ring \in Nat
      BY ZenonT(60), <1>1, SetupsAssumption
    <3>2. Len(<<>>) = 0 /\ MinOf(0, cfg.ring) = 0 /\ SubSeq(<<>>, 1, 0) = <<>>
      BY <3>1 DEF MinOf
    <3>3. Len(<<>>) - MinOf(Len(<<>>), cfg.ring) + 1 = 1
      BY <3>2
    <3> QED
      BY ZenonT(60), <1>1, <3>2, <3>3 DEF Latest
  <2>3. /\ q.n = Len(log.read) + Len(q.out)
        /\ \A i \in DOMAIN log.read : log.read[i] = i
        /\ \A i \in DOMAIN q.out : q.out[i] = Len(log.read) + i
        /\ Ascending(q.pout) /\ Below(q.pout, Len(log.read))
        /\ \A c \in Client : Ascending(cli[c].seen) /\ Below(cli[c].seen, Len(log.read))
        /\ \A c \in Client : c = con.busy =>
              \A i \in DOMAIN cli[c].seen, j \in DOMAIN q.pout : cli[c].seen[i] < q.pout[j]
    BY <1>1, <1>2 DEF Ascending, Below
  <2> QED
    BY ZenonT(60), <1>1, <2>1, <2>2, <2>3 DEF Output, Early
<1>9. Input
  <2>1. ASSUME NEW c \in Client PROVE Typing(c)
    <3>1. Way(c) = <<>>
      BY ZenonT(60), <1>1, <1>2, <1>3 DEF Way
    <3>2. Unescaped(<<>>, <<>>, 0, FALSE)
      <4>1. DOMAIN <<>> = {} /\ Passed(<<>>, 0) = {} /\ <<>> \in [{} -> {}]
        BY DEF Passed
      <4> QED
        BY ZenonT(60), <4>1 DEF Unescaped
    <3>3. Unescaped(Way(c), cli[c].typed, cli[c].i, cli[c].pc = "loop")
      <4>1. Unescaped(Way(c), cli[c].typed, cli[c].i, FALSE)
        BY ZenonT(60), <1>2, <3>1, <3>2
      <4>2. ~(cli[c].pc = "loop")
        BY ZenonT(60), <1>2
      <4> QED
        BY ZenonT(60), <4>1, <4>2, UnescapedWeaker
    <3>4. cli[c].i =< Len(cli[c].typed) /\ cli[c].pc # "loop"
      BY <1>2
    <3> QED
      BY ZenonT(60), <1>2, <3>3, <3>4 DEF Typing
  <2> QED
    BY ZenonT(60), <2>1 DEF Input
<1> QED
  BY ZenonT(60), <1>4, <1>5, <1>6, <1>7, <1>8, <1>9 DEF IInv

\* Every step keeps the records in shape.
LEMMA ShapeStep == ASSUME Shape, Loop, Next PROVE Shape'
<1>1. ASSUME NEW c \in Client, lxc_cmd_get_tty_fd(c) \/ Session(c) \/ ClientKilled(c) \/ ClientTold(c) PROVE Shape'
  BY ZenonT(60), <1>1, GetTtyFdEffect, SetupEffect, StdinEffect, PtxCbEffect, TermEffect, EndEffect, KilledEffect, ToldEffect DEF Session
<1>2. ASSUME NEW c \in Client, lxc_cmd_get_tty_fd_callback(c) \/ lxc_cmd_cleanup_handler(c) PROVE Shape'
  BY ZenonT(60), <1>2, CallbackEffect, CleanupEffect
<1>3. CASE lxc_terminal_parent \/ lxc_recv_console_from_child \/ lxc_poll \/ __lxc_mainloop_epoll
  BY ZenonT(60), <1>3, ParentEffect, RecvEffect, PollEffect, EpollEffect
<1>4. CASE lxc_terminal_setup
  BY ZenonT(60), <1>4, SetupFresh, TerminalSetupEffect
<1>5. CASE signal_handler \/ lxc_terminal_signalfd_cb \/ lxc_terminal_ptx_io_handler \/ lxc_terminal_peer_io_handler
  BY ZenonT(60), <1>5, SignalHandlerEffect, SignalfdEffect, PtxIoEffect, PeerIoEffect
<1>6. CASE StaleEvent \/ lxc_end \/ ContainerWrites \/ InitExits \/ UserTypes
  BY ZenonT(60), <1>6, StaleEffect, DeleteEffect, WritesEffect, ExitsEffect, TypesEffect
<1>7. ASSUME NEW x \in cfg.sends, Signal(x) PROVE Shape'
  BY ZenonT(60), <1>7, SignalEffect
<1> QED
  BY ZenonT(60), <1>1, <1>2, <1>3, <1>4, <1>5, <1>6, <1>7 DEF Next, Monitor

\* The steps that leave the clients' part of the monitor's records alone.
LEMMA UsersStep == ASSUME Shape, Users, Loop, Next PROVE Users'
<1>1. ASSUME NEW c \in Client, lxc_cmd_get_tty_fd(c) \/ Session(c) \/ ClientKilled(c) \/ ClientTold(c) PROVE Users'
  BY ZenonT(60), <1>1, UsersClient
<1>2. ASSUME NEW c \in Client, lxc_cmd_get_tty_fd_callback(c) \/ lxc_cmd_cleanup_handler(c) PROVE Users'
  BY ZenonT(60), <1>2, UsersServed
<1>3. CASE lxc_terminal_parent
  <2>1. cli' = cli /\ con'.busy = con.busy /\ con'.tty = con.tty /\ mon.pc \in Booting
    BY ZenonT(60), <1>3, ParentEffect DEF Booting, Early
  <2> QED
    BY ZenonT(60), <2>1, UsersFrame
<1>4. CASE lxc_recv_console_from_child
  <2>1. cli' = cli /\ con'.busy = con.busy /\ con'.tty = con.tty /\ mon.pc \in Booting
    BY ZenonT(60), <1>4, RecvEffect DEF Booting, Early
  <2> QED
    BY ZenonT(60), <2>1, UsersFrame
<1>5. CASE lxc_terminal_setup
  <2>1. cli' = cli /\ con'.busy = con.busy /\ con'.tty = con.tty /\ mon.pc = "setup"
    BY ZenonT(60), <1>5, SetupFresh, TerminalSetupEffect
  <2> QED
    BY ZenonT(60), <2>1, UsersFrame DEF Booting, Early
<1>6. CASE lxc_poll
  BY ZenonT(60), <1>6, PollEffect, UsersFrame DEF Booting, Early
<1>7. CASE __lxc_mainloop_epoll
  BY ZenonT(60), <1>7, EpollEffect, UsersFrame DEF Booting, Early, InLoop
<1>8. ASSUME NEW why, Goes(why), InLoop, UNCHANGED <<cli, con>> PROVE Users'
  <2>1. mon'.pc \notin Booting
    BY ZenonT(60), <1>8 DEF Goes, InLoop, Booting, Early
  <2> QED
    BY ZenonT(60), <1>8, <2>1, UsersFrame
<1>9. CASE signal_handler
  BY ZenonT(60), <1>8, <1>9, SignalHandlerEffect DEF Turn
<1>10. CASE lxc_terminal_signalfd_cb
  BY ZenonT(60), <1>8, <1>10, SignalfdEffect DEF Turn
<1>11. CASE lxc_terminal_peer_io_handler
  BY ZenonT(60), <1>8, <1>11, PeerIoEffect DEF Turn
<1>12. CASE lxc_terminal_ptx_io_handler
  <2>1. cli' = cli /\ con'.busy = con.busy /\ con'.tty = con.tty /\ mon'.pc = mon.pc
    BY ZenonT(60), <1>12, PtxIoEffect
  <2> QED
    BY ZenonT(60), <2>1, UsersFrame
<1>13. CASE StaleEvent
  <2>1. mon'.pc \notin Booting
    BY ZenonT(60), <1>13, StaleEffect DEF Goes, InLoop, Booting, Early
  <2>2. cli' = cli /\ con' = con
    BY ZenonT(60), <1>13, StaleEffect
  <2> QED
    BY ZenonT(60), <2>1, <2>2, UsersFrame
<1>14. CASE lxc_end
  <2>1. cli' = cli /\ con'.busy = con.busy /\ con'.tty = con.tty /\ mon'.pc = "gone"
    BY ZenonT(60), <1>14, DeleteEffect
  <2> QED
    BY ZenonT(60), <2>1, UsersFrame DEF Booting, Early
<1>15. CASE ContainerWrites
  BY ZenonT(60), <1>15, WritesEffect, UsersFrame
<1>16. CASE InitExits
  BY ZenonT(60), <1>16, ExitsEffect, UsersFrame
<1>17. CASE UserTypes
  BY ZenonT(60), <1>17, TypesEffect, UsersFrame
<1>18. ASSUME NEW x \in cfg.sends, Signal(x) PROVE Users'
  BY ZenonT(60), <1>18, SignalEffect, UsersFrame
<1> QED
  BY ZenonT(60), <1>1, <1>2, <1>3, <1>4, <1>5, <1>6, <1>7, <1>9, <1>10, <1>11, <1>12, <1>13, <1>14, <1>15, <1>16, <1>17, <1>18 DEF Next, Monitor

\* Every step keeps the invariant.
LEMMA NextStep == IInv /\ [Next]_vars => IInv'
<1>1. ASSUME IInv, Next PROVE IInv'
  <2>1. Shape /\ Users /\ Loop /\ Output /\ Input
    BY ZenonT(60), <1>1 DEF IInv, Loop
  <2>2. Shape' /\ Users'
    BY ZenonT(60), <1>1, <2>1, ShapeStep, UsersStep
  <2>3. Loop'
    BY ZenonT(60), <1>1, <2>1, LoopClient, LoopBoot, LoopSteps, LoopServed, LoopAround DEF Next, Monitor
  <2>4. Output'
    BY ZenonT(60), <1>1, <2>1, OutputClient, OutputMonitor, OutputAround DEF Next, Monitor
  <2>5. Input'
    BY ZenonT(60), <1>1, <2>1, InputClient, InputAround DEF Next
  <2> QED
    BY ZenonT(60), <2>2, <2>3, <2>4, <2>5 DEF IInv, Loop
<1>2. ASSUME IInv, UNCHANGED vars PROVE IInv'
  <2>1. /\ cfg' = cfg /\ con' = con /\ mon' = mon /\ init' = init /\ cli' = cli /\ q' = q /\ got' = got /\ log' = log
        /\ user' = user /\ faults' = faults
    BY ZenonT(60), <1>2 DEF vars
  <2>2. Shape' /\ Users'
    <3>1. Shape'
      <4>1. Shape
        BY ZenonT(60), <1>2 DEF IInv
      <4>2. ConShape' /\ MonShape' /\ QShape' /\ LogShape' /\ UserShape'
        <5>1. ConShape'
          BY ZenonT(60), <2>1, <4>1 DEF Shape, ConShape
        <5>2. MonShape'
          BY ZenonT(60), <2>1, <4>1 DEF Shape, MonShape
        <5>3. QShape' /\ LogShape'
          BY ZenonT(60), <2>1, <4>1 DEF Shape, QShape, LogShape
        <5>4. UserShape'
          BY ZenonT(60), <2>1, <4>1 DEF Shape, UserShape
        <5> QED
          BY ZenonT(60), <5>1, <5>2, <5>3, <5>4
      <4>3. cfg' \in Setups /\ faults' \in Nat /\ init' \in BOOLEAN /\ cli' \in [Client -> ClientShape] /\ got' \in [Client \cup {"tty"} -> Seq(STRING)]
        BY ZenonT(60), <2>1, <4>1 DEF Shape
      <4> QED
        BY ZenonT(60), <4>2, <4>3 DEF Shape
    <3> QED
      BY ZenonT(60), <1>2, <2>1, <3>1, UsersFrame DEF IInv
  <2>5. Blame' <=> Blame
    BY ZenonT(60), <2>1 DEF Blame
  <2>6. Console' /\ Events' /\ Ending'
    BY ZenonT(120), <1>2, <2>1, <2>5 DEF IInv, Console, Events, Ending
  <2>3. Output'
    BY ZenonT(60), <1>2, <2>1 DEF IInv, Output, LogBounded, MirrorAtEnd
  <2>4. Input'
    BY ZenonT(60), <1>2, <2>1 DEF IInv, Input, Typing, Way
  <2> QED
    BY ZenonT(60), <2>2, <2>3, <2>4, <2>6 DEF IInv
<1> QED
  BY ZenonT(60), <1>1, <1>2

\* The invariant holds in every state of the terminals, for any clients,
\* configurations and faults.
THEOREM TerminalSafe == Spec => []IInv
<1>1. Init => IInv
  BY ZenonT(60), InitHolds
<1>2. IInv /\ [Next]_vars => IInv'
  BY ZenonT(60), NextStep
<1> QED
  BY <1>1, <1>2, PTL DEF Spec

\* lxc_cmd_get_tty_fd(): the console and the tty are each for the one client
\* the monitor has them busy for.
THEOREM TerminalOneUser == Spec => []OneUser
<1>1. IInv => OneUser
  <2> SUFFICES ASSUME IInv, NEW c \in Client
               PROVE  /\ cli[c].fd = "console" => con.busy = c
                      /\ cli[c].fd = "tty" => con.tty = c
                      /\ c \in {con.busy, con.tty} => cli[c].conn \in {"open", "closed"}
    BY ZenonT(60) DEF OneUser
  <2>1. User(c)
    BY ZenonT(60) DEF IInv, Users
  <2> QED
    BY ZenonT(60), <2>1 DEF User
<1> QED
  BY <1>1, TerminalSafe, PTL

\* lxc_terminal_peer_io(), lxc_terminal_ptx_io(), lxc_terminal_stdin_cb(),
\* lxc_terminal_write_log_file(): what is typed, shown and logged keeps its
\* order, and the log its limit.
THEOREM TerminalBytesInOrder == Spec => []BytesInOrder
<1>1. IInv => BytesInOrder
  <2> SUFFICES ASSUME IInv PROVE BytesInOrder
    OBVIOUS
  <2>1. InputInOrder
    <3>1. ASSUME NEW c \in Client
          PROVE  Unescaped(Way(c), cli[c].typed, cli[c].i, cli[c].pc = "loop" /\ mon.pc = "loop")
      <4>1. Unescaped(Way(c), cli[c].typed, cli[c].i, cli[c].pc = "loop")
        BY ZenonT(60) DEF IInv, Input, Typing
      <4> QED
        BY ZenonT(60), <4>1, UnescapedWeaker
    <3> QED
      BY ZenonT(60), <3>1 DEF InputInOrder, Way
  <2>2. OutputInOrder
    <3>1. ASSUME NEW c \in Client, NEW i \in 2 .. Len(cli[c].seen) PROVE cli[c].seen[i - 1] < cli[c].seen[i]
      <4>1. cli[c].seen \in Seq(Nat) /\ Ascending(cli[c].seen)
        BY ZenonT(60), OutTypes DEF IInv, Output
      <4>2. i - 1 \in DOMAIN cli[c].seen /\ i \in DOMAIN cli[c].seen /\ i - 1 < i
        BY <4>1
      <4> QED
        BY ZenonT(60), <4>1, <4>2 DEF Ascending
    <3> QED
      BY ZenonT(60), <3>1 DEF OutputInOrder, IInv, Output
  <2> QED
    BY ZenonT(60), <2>1, <2>2 DEF BytesInOrder, IInv, Output
<1> QED
  BY <1>1, TerminalSafe, PTL

\* lxc_poll(), lxc_terminal_delete(), lxc_console(): the loop ends with the
\* container, its last output read, and the terminals are left as they were.
THEOREM TerminalEndsClean == Spec => []EndsClean
<1>1. IInv => EndsClean
  <2> SUFFICES ASSUME IInv PROVE EndsClean
    OBVIOUS
  <2>1. LoopEndsWithInit
    BY ZenonT(60) DEF IInv, Ending, Blame, LoopEndsWithInit
  <2>2. LastWords
    BY ZenonT(60) DEF IInv, Ending, LastWords
  <2>3. SettingsRestored
    <3>1. mon.pc = "gone" /\ mon.why # "crash" => ~user.raw
      BY ZenonT(60) DEF IInv, Console
    <3>2. ASSUME NEW c \in Client, cli[c].pc = "done" PROVE ~cli[c].raw
      <4>1. User(c)
        BY ZenonT(60) DEF IInv, Users
      <4> QED
        BY ZenonT(60), <3>2, <4>1 DEF User
    <3> QED
      BY ZenonT(60), <3>1, <3>2 DEF SettingsRestored
  <2> QED
    BY ZenonT(60), <2>1, <2>2, <2>3 DEF EndsClean
<1> QED
  BY <1>1, TerminalSafe, PTL
=============================================================================
