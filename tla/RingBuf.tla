------------------------------ MODULE RingBuf ------------------------------
(* The ring buffer behind the console log: ringbuf.c and ringbuf.h, written *)
(* by the terminal's mainloop handler (terminal.c) and read by              *)
(* LXC_CMD_CONSOLE_LOG (commands.c).  One memfd of Size bytes is mapped     *)
(* twice in a row, so an offset below 2 * Size names slot Slot(offset).     *)
(* Byte values are abstract.  buffer_size = 0 (no log) is left out: nothing *)
(* is stored then and every request is answered with EFAULT.                *)
EXTENDS Integers, Sequences

CONSTANTS Byte, Zero,
          Size,       \* console.buffer_size: at least a page
          MaxWrite    \* LXC_TERMINAL_BUFFER_SIZE: the largest single write

(* set_config_console_buffer_size rounds up to a power of two of at least a *)
(* page (4096); lxc_terminal_ptx_io reads at most 1024 bytes at a time.     *)
ASSUME SizeAssumption == Size \in Nat \ {0} /\ MaxWrite \in Nat /\ 2 * MaxWrite <= Size
ASSUME ByteAssumption == Zero \in Byte

VARIABLES mem,    \* the memfd
          r_off, w_off,
          reply   \* the bytes the last console log request returned

vars == <<mem, r_off, w_off, reply>>

Slot(off) == IF off < Size THEN off ELSE off - Size

Message == UNION { [1 .. n -> Byte] : n \in 1 .. MaxWrite }

(* lxc_cmd_console_log fills in these three fields and leaves write_logfile *)
(* false.                                                                   *)
Request == [clear : BOOLEAN, read : BOOLEAN, read_max : 0 .. Size]

(* lxc_ringbuf_create *)
Init == /\ mem = [s \in 0 .. Size - 1 |-> Zero]
        /\ r_off = 0 /\ w_off = 0
        /\ reply = << >>

lxc_ringbuf_used == w_off - r_off
lxc_ringbuf_free == Size - lxc_ringbuf_used

\* Mutant of MovedReadAddr: the write offset is not wrapped with the read offset.
MovedReadAddrHalfWrap(len) ==
    [r |-> IF r_off + len < Size THEN r_off + len ELSE r_off + len - Size, w |-> w_off]

(* Both offsets after lxc_ringbuf_move_read_addr(buf, len). *)
MovedReadAddr(len) ==
    IF r_off + len < Size
    THEN [r |-> r_off + len, w |-> w_off]
    ELSE [r |-> r_off + len - Size, w |-> w_off - Size]

(* The memory m after msg was copied to offset w of the double mapping. *)
memcpy(m, w, msg) ==
    [s \in 0 .. Size - 1 |->
       IF \E i \in 1 .. Len(msg) : s = Slot(w + i - 1)
       THEN msg[CHOOSE i \in 1 .. Len(msg) : s = Slot(w + i - 1)]
       ELSE m[s]]

(* lxc_ringbuf_write; the -EFBIG guard cannot fail for MaxWrite <= Size.    *)
lxc_ringbuf_write(msg) ==
    LET len == Len(msg)
        off == IF len > lxc_ringbuf_free THEN MovedReadAddr(len)
               ELSE [r |-> r_off, w |-> w_off]
    IN  /\ len <= Size
        /\ r_off' = off.r
        /\ w_off' = off.w + len
        /\ mem' = memcpy(mem, off.w, msg)

(* lxc_terminal_ptx_io, the part that feeds the ring buffer. *)
PtxIo == \E msg \in Message :
            /\ lxc_ringbuf_write(msg)
            /\ UNCHANGED reply

(* The number of bytes lxc_cmd_console_log_callback returns and consumes. *)
DataLen(log) ==
    LET avail == IF log.read THEN lxc_ringbuf_used ELSE 0
    IN  IF log.read_max > 0 /\ log.read_max <= avail THEN log.read_max ELSE avail

lxc_cmd_console_log_callback(log) ==
    LET len == DataLen(log)
        empty == log.read /\ r_off = w_off        \* -ENODATA
        off == CASE empty -> [r |-> r_off, w |-> w_off]
                 [] ~empty /\ log.clear -> [r |-> 0, w |-> 0]
                 [] OTHER -> MovedReadAddr(len)
    IN  /\ reply' = IF log.read THEN [i \in 1 .. len |-> mem[Slot(r_off + i - 1)]] ELSE << >>
        /\ r_off' = off.r /\ w_off' = off.w
        /\ UNCHANGED mem

(* A reboot sets the terminal up again: lxc_terminal_create_ringbuf maps a  *)
(* new buffer of the same size.                                             *)
lxc_terminal_create_ringbuf ==
    /\ mem' = [s \in 0 .. Size - 1 |-> Zero]
    /\ r_off' = 0 /\ w_off' = 0
    /\ UNCHANGED reply

Next == PtxIo \/ (\E log \in Request : lxc_cmd_console_log_callback(log))
        \/ lxc_terminal_create_ringbuf

Spec == Init /\ [][Next]_vars
-----------------------------------------------------------------------------
(* Types, with the range the code's uint64_t offsets really stay in.        *)
TypeOK == /\ mem \in [0 .. Size - 1 -> Byte]
          /\ r_off \in Nat /\ w_off \in Nat
          /\ reply \in Seq(Byte)

(* The unsigned subtractions of ringbuf.h and of the wrap around never      *)
(* underflow, the read address stays in the first mapping, and no write     *)
(* reaches past the second one: w_off + MaxWrite <= 2 * Size once the       *)
(* overflowing read address was moved.                                      *)
OffsetsInMapping ==
    /\ r_off <= w_off
    /\ r_off < Size
    /\ lxc_ringbuf_used <= Size

(* The readable bytes, oldest first. *)
Content == [i \in 1 .. lxc_ringbuf_used |-> mem[Slot(r_off + i - 1)]]

Log == INSTANCE ConsoleLog WITH Cap <- Size, Messages <- Message, content <- Content

(* The ring buffer is a lossy queue: every write is kept whole, only the    *)
(* oldest bytes are lost and only for lack of room, a read returns the      *)
(* oldest bytes in the order they were written, across the wrap around.     *)
IsConsoleLog == Log!AbsSpec
=============================================================================
