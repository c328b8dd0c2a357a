--------------------------- MODULE RingBufProofs ---------------------------
(* For every buffer size and every write size up to half of it: the offsets *)
(* of the ring buffer stay in the mapping, and the ring buffer implements   *)
(* the lossy queue of ConsoleLog.                                           *)
EXTENDS RingBuf, SequenceTheorems, TLAPS

(* TypeOK and OffsetsInMapping are inductive together: move_read_addr may   *)
(* subtract Size from w_off only because a write is at most half of Size.   *)
IInv == TypeOK /\ OffsetsInMapping

LEMMA SizeNat == Size \in Nat /\ Size > 0 /\ MaxWrite \in Nat /\ 2 * MaxWrite <= Size
  BY SizeAssumption

LEMMA IInvFacts ==
    ASSUME IInv
    PROVE  /\ r_off \in Nat /\ w_off \in Nat /\ r_off <= w_off /\ r_off < Size
           /\ w_off - r_off <= Size /\ w_off < 2 * Size
  BY SizeNat DEF IInv, TypeOK, OffsetsInMapping, lxc_ringbuf_used

(* A write of at most MaxWrite bytes that finds no room leaves at least as  *)
(* many bytes in the buffer as it gives up.                                 *)
LEMMA MovedInRange ==
    ASSUME IInv, NEW len \in Nat, len <= lxc_ringbuf_used
    PROVE  /\ MovedReadAddr(len).r \in Nat /\ MovedReadAddr(len).w \in Nat
           /\ MovedReadAddr(len).r <= MovedReadAddr(len).w
           /\ MovedReadAddr(len).r < Size
           /\ MovedReadAddr(len).w - MovedReadAddr(len).r = lxc_ringbuf_used - len
  BY SizeAssumption DEF IInv, TypeOK, OffsetsInMapping, lxc_ringbuf_used, MovedReadAddr

(* A console log request never consumes more than there is. *)
LEMMA DataLenInRange ==
    ASSUME IInv, NEW log \in Request
    PROVE  DataLen(log) \in Nat /\ DataLen(log) <= lxc_ringbuf_used
  BY SizeAssumption DEF IInv, TypeOK, OffsetsInMapping, lxc_ringbuf_used, DataLen, Request

(* The offsets a write starts from: there is room for the whole message.    *)
LEMMA WriteOffsets ==
    ASSUME IInv, NEW len \in Nat, len <= MaxWrite, len > lxc_ringbuf_free
    PROVE  len <= lxc_ringbuf_used
  BY SizeAssumption DEF IInv, TypeOK, OffsetsInMapping, lxc_ringbuf_used, lxc_ringbuf_free

LEMMA MessageLen ==
    ASSUME NEW msg \in Message
    PROVE  /\ Len(msg) \in Nat /\ Len(msg) > 0 /\ Len(msg) <= MaxWrite
           /\ msg \in [1 .. Len(msg) -> Byte]
           /\ msg \in Seq(Byte)
  BY SizeAssumption DEF Message

LEMMA SlotInMem ==
    ASSUME NEW off \in Nat, off < 2 * Size
    PROVE  Slot(off) \in 0 .. Size - 1
  BY SizeAssumption DEF Slot

LEMMA ReadAddrSlots ==
    ASSUME IInv, NEW i \in 1 .. lxc_ringbuf_used
    PROVE  r_off + i - 1 \in Nat /\ r_off + i - 1 < 2 * Size
           /\ Slot(r_off + i - 1) \in 0 .. Size - 1
           /\ mem[Slot(r_off + i - 1)] \in Byte
  BY SizeAssumption DEF IInv, TypeOK, OffsetsInMapping, lxc_ringbuf_used, Slot

(* Every step of the terminal and of the command server keeps the invariant.*)
LEMMA IInvStep == IInv /\ [Next]_vars => IInv'
<1> SUFFICES ASSUME IInv, [Next]_vars PROVE IInv'
  OBVIOUS
<1>1. CASE PtxIo
  <2>1. PICK msg \in Message : lxc_ringbuf_write(msg) /\ reply' = reply
    BY <1>1 DEF PtxIo
  <2> DEFINE len == Len(msg)
             off == IF len > lxc_ringbuf_free THEN MovedReadAddr(len)
                    ELSE [r |-> r_off, w |-> w_off]
  <2>2. len \in Nat /\ len <= MaxWrite /\ msg \in [1 .. len -> Byte]
    BY MessageLen
  <2>3. off.r \in Nat /\ off.w \in Nat /\ off.r <= off.w /\ off.r < Size
        /\ off.w - off.r + len <= Size
    <3>1. CASE len > lxc_ringbuf_free
      BY <2>2, <3>1, WriteOffsets, MovedInRange, SizeAssumption
         DEF IInv, OffsetsInMapping, TypeOK, lxc_ringbuf_used
    <3>2. CASE ~(len > lxc_ringbuf_free)
      BY <2>2, <3>2, SizeAssumption
         DEF IInv, OffsetsInMapping, TypeOK, lxc_ringbuf_used, lxc_ringbuf_free
    <3> QED BY <3>1, <3>2
  <2>4. r_off' = off.r /\ w_off' = off.w + len
    BY <2>1 DEF lxc_ringbuf_write
  <2>5. mem' \in [0 .. Size - 1 -> Byte]
    <3>1. \A s \in 0 .. Size - 1 :
             (\E i \in 1 .. len : s = Slot(off.w + i - 1))
             => msg[CHOOSE i \in 1 .. len : s = Slot(off.w + i - 1)] \in Byte
      BY <2>2
    <3> QED BY SMTT(60), <2>1, <3>1 DEF lxc_ringbuf_write, memcpy, IInv, TypeOK
  <2> HIDE DEF len, off
  <2> QED
    BY SMTT(60), <2>1, <2>2, <2>3, <2>4, <2>5, SizeAssumption
       DEF IInv, TypeOK, OffsetsInMapping, lxc_ringbuf_used
<1>2. CASE \E log \in Request : lxc_cmd_console_log_callback(log)
  <2>1. PICK log \in Request : lxc_cmd_console_log_callback(log)
    BY <1>2
  <2> DEFINE len == DataLen(log)
  <2>2. len \in Nat /\ len <= lxc_ringbuf_used
    BY DataLenInRange
  <2>3. mem' = mem
    BY <2>1 DEF lxc_cmd_console_log_callback
  <2>4. OffsetsInMapping' /\ r_off' \in Nat /\ w_off' \in Nat
    <3>1. \/ r_off' = r_off /\ w_off' = w_off
          \/ r_off' = 0 /\ w_off' = 0
          \/ r_off' = MovedReadAddr(len).r /\ w_off' = MovedReadAddr(len).w
      BY <2>1 DEF lxc_cmd_console_log_callback
    <3> HIDE DEF len
    <3> QED
      BY <2>2, <3>1, MovedInRange, SizeNat
         DEF IInv, TypeOK, OffsetsInMapping, lxc_ringbuf_used
  <2>5. reply' \in Seq(Byte)
    <3>1. CASE log.read
      <4>1. reply' = [i \in 1 .. len |-> mem[Slot(r_off + i - 1)]]
        BY <2>1, <3>1 DEF lxc_cmd_console_log_callback
      <4> HIDE DEF len
      <4>2. \A i \in 1 .. len : i \in 1 .. lxc_ringbuf_used
        BY <2>2 DEF IInv, TypeOK, OffsetsInMapping, lxc_ringbuf_used
      <4>3. \A i \in 1 .. len : mem[Slot(r_off + i - 1)] \in Byte
        BY <4>2, ReadAddrSlots
      <4> QED BY <2>2, <4>1, <4>3
    <3>2. CASE ~log.read
      BY <2>1, <3>2 DEF lxc_cmd_console_log_callback
    <3> QED BY <3>1, <3>2
  <2> QED BY <2>3, <2>4, <2>5 DEF IInv, TypeOK
<1>3. CASE lxc_terminal_create_ringbuf
  BY <1>3, SizeAssumption, ByteAssumption
     DEF lxc_terminal_create_ringbuf, IInv, TypeOK, OffsetsInMapping, lxc_ringbuf_used
<1>4. CASE UNCHANGED vars
  BY <1>4 DEF vars, IInv, TypeOK, OffsetsInMapping, lxc_ringbuf_used
<1> QED BY <1>1, <1>2, <1>3, <1>4 DEF Next

LEMMA IInvInit == Init => IInv
<1> SUFFICES ASSUME Init PROVE IInv
  OBVIOUS
<1> QED BY SizeAssumption, ByteAssumption
        DEF Init, IInv, TypeOK, OffsetsInMapping, lxc_ringbuf_used

(* No sequence of terminal output and console log requests makes an offset  *)
(* of lxc_ringbuf underflow or leave the double mapping.                    *)
THEOREM RingBufSafe == Spec => [](TypeOK /\ OffsetsInMapping)
<1>1. Spec => []IInv
  BY IInvInit, IInvStep, PTL DEF Spec
<1> QED BY <1>1, PTL DEF IInv
-----------------------------------------------------------------------------
(* The refinement.  Offsets less than Size apart name different slots. *)
LEMMA SlotInjective ==
    ASSUME NEW a \in Nat, NEW b \in Nat, a < 2 * Size, b < 2 * Size,
           a - b < Size, b - a < Size, Slot(a) = Slot(b)
    PROVE  a = b
  BY SizeNat DEF Slot

(* What the slots of the range r .. w + len - 1 hold after len bytes were   *)
(* copied to offset w of the memory m0.                                     *)
LEMMA CopiedSlots ==
    ASSUME NEW r \in Nat, NEW w \in Nat, NEW msg, Len(msg) \in Nat,
           r <= w, r < Size, w + Len(msg) - r <= Size, NEW m0,
           NEW off \in Nat, r <= off, off < w + Len(msg)
    PROVE  memcpy(m0, w, msg)[Slot(off)]
           = IF off >= w THEN msg[off - w + 1] ELSE m0[Slot(off)]
<1> DEFINE len == Len(msg)
<1> HIDE DEF len
<1>0. len = Len(msg) /\ len \in Nat
  BY DEF len
<1>1. off < 2 * Size /\ Slot(off) \in 0 .. Size - 1
  <2>1. off < 2 * Size
    BY SizeNat
  <2> QED BY <2>1, SlotInMem
<1>2. ASSUME NEW i \in 1 .. len, Slot(off) = Slot(w + i - 1)
      PROVE  i = off - w + 1 /\ off >= w
  <2>1. w + i - 1 \in Nat /\ w + i - 1 < 2 * Size
        /\ off - (w + i - 1) < Size /\ (w + i - 1) - off < Size
    BY <1>0, SizeNat
  <2>2. off = w + i - 1
    BY <1>1, <1>2, <2>1, SlotInjective
  <2> QED BY <2>2
<1>3. CASE off >= w
  <2>1. off - w + 1 \in 1 .. len /\ Slot(off) = Slot(w + (off - w + 1) - 1)
    <3>1. w + (off - w + 1) - 1 = off
      OBVIOUS
    <3> QED BY <1>0, <1>3, <3>1
  <2>2. (CHOOSE i \in 1 .. len : Slot(off) = Slot(w + i - 1)) = off - w + 1
    BY <2>1, <1>2
  <2> QED BY ZenonT(60), <1>1, <1>3, <2>1, <2>2 DEF memcpy, len
<1>4. CASE ~(off >= w)
  <2>1. ~ \E i \in 1 .. len : Slot(off) = Slot(w + i - 1)
    BY <1>2, <1>4
  <2> QED BY <1>1, <1>4, <2>1 DEF memcpy, len
<1> QED BY <1>3, <1>4

(* Moving the read address only forgets the bytes in front of it. *)
LEMMA MovedSlot ==
    ASSUME IInv, NEW len \in Nat, len <= lxc_ringbuf_used,
           NEW i \in Nat, i > 0, i <= lxc_ringbuf_used - len
    PROVE  Slot(MovedReadAddr(len).r + i - 1) = Slot(r_off + len + i - 1)
  BY SizeAssumption
     DEF IInv, TypeOK, OffsetsInMapping, lxc_ringbuf_used, MovedReadAddr, Slot

LEMMA ContentSeq ==
    ASSUME IInv
    PROVE  /\ lxc_ringbuf_used \in Nat
           /\ Content \in Seq(Byte) /\ Len(Content) = lxc_ringbuf_used
           /\ \A i \in 1 .. lxc_ringbuf_used : Content[i] = mem[Slot(r_off + i - 1)]
<1>1. lxc_ringbuf_used \in Nat
  BY IInvFacts DEF lxc_ringbuf_used
<1>2. \A i \in 1 .. lxc_ringbuf_used : mem[Slot(r_off + i - 1)] \in Byte
  BY ReadAddrSlots
<1> QED BY <1>1, <1>2 DEF Content

(* The two shapes the contents of the queue take after a step. *)
LEMMA DropThenAppend ==
    ASSUME NEW S, NEW c \in Seq(S), NEW m \in Seq(S), NEW d \in 0 .. Len(c),
           NEW c2 \in Seq(S), Len(c2) = Len(c) - d + Len(m),
           \A i \in 1 .. Len(c2) :
              c2[i] = IF i <= Len(c) - d THEN c[d + i] ELSE m[i - (Len(c) - d)]
    PROVE  c2 = SubSeq(c, d + 1, Len(c)) \o m
<1> DEFINE t == SubSeq(c, d + 1, Len(c))
<1>1. Len(c) \in Nat /\ Len(m) \in Nat /\ d \in Nat /\ d <= Len(c)
  BY LenProperties
<1>2. t \in Seq(S) /\ Len(t) = Len(c) - d /\ \A i \in 1 .. Len(c) - d : t[i] = c[d + i]
  <2>1. \A i \in d + 1 .. Len(c) : c[i] \in S
    BY <1>1, ElementOfSeq
  <2>2. d + 1 \in Int /\ Len(c) \in Int
    BY <1>1
  <2>3. /\ t \in Seq(S)
        /\ Len(t) = IF d + 1 <= Len(c) THEN Len(c) - (d + 1) + 1 ELSE 0
        /\ \A i \in 1 .. Len(c) - (d + 1) + 1 : t[i] = c[(d + 1) + i - 1]
    BY SMTT(60), <2>1, <2>2, SubSeqProperties
  <2> HIDE DEF t
  <2>4. Len(t) = Len(c) - d
    BY <1>1, <2>3
  <2>5. ASSUME NEW i \in 1 .. Len(c) - d PROVE t[i] = c[d + i]
    <3>1. i \in 1 .. Len(c) - (d + 1) + 1 /\ (d + 1) + i - 1 = d + i
      BY <1>1, <2>5
    <3> QED BY <2>3, <3>1
  <2> QED BY <2>3, <2>4, <2>5
<1> HIDE DEF t
<1>3. /\ t \o m \in Seq(S) /\ Len(t \o m) = Len(t) + Len(m)
      /\ \A i \in 1 .. Len(t) + Len(m) :
            (t \o m)[i] = IF i <= Len(t) THEN t[i] ELSE m[i - Len(t)]
  BY ZenonT(60), <1>2, ConcatProperties
<1>4. Len(t \o m) = Len(c2)
  BY <1>1, <1>2, <1>3
<1>5. ASSUME NEW i \in 1 .. Len(c2) PROVE c2[i] = (t \o m)[i]
  BY SMTT(60), <1>1, <1>2, <1>3
<1>6. c2 = t \o m
  BY ZenonT(60), <1>3, <1>4, <1>5, SeqEqual
<1> QED BY <1>6 DEF t

LEMMA DropOnly ==
    ASSUME NEW S, NEW c \in Seq(S), NEW d \in 0 .. Len(c),
           NEW c2 \in Seq(S), Len(c2) = Len(c) - d,
           \A i \in 1 .. Len(c2) : c2[i] = c[d + i]
    PROVE  c2 = SubSeq(c, d + 1, Len(c))
<1>1. Len(c) \in Nat /\ Len(c2) \in Nat
  BY LenProperties
<1>2. << >> \in Seq(S) /\ Len(<< >>) = 0
  OBVIOUS
<1>3. c2 = SubSeq(c, d + 1, Len(c)) \o << >>
  BY <1>1, <1>2, DropThenAppend
<1>4. SubSeq(c, d + 1, Len(c)) \in Seq(S)
  <2>1. \A i \in d + 1 .. Len(c) : c[i] \in S
    BY <1>1, ElementOfSeq
  <2>2. d + 1 \in Int /\ Len(c) \in Int
    BY <1>1
  <2> QED BY <2>1, <2>2, SubSeqProperties
<1> QED BY <1>3, <1>4, ConcatEmptySeq

(* Terminal output: the queue drops the oldest bytes, at most as many as    *)
(* are written, and keeps the message whole.                                *)
LEMMA WriteIsPut ==
    ASSUME IInv, IInv', NEW msg \in Message, lxc_ringbuf_write(msg), reply' = reply
    PROVE  Log!Put(msg)
<1> DEFINE len == Len(msg)
           full == len > lxc_ringbuf_free
           d == IF full THEN len ELSE 0
           w == w_off' - len
<1>1. len \in Nat /\ len > 0 /\ len <= MaxWrite /\ msg \in Seq(Byte)
  BY MessageLen
<1>2. /\ lxc_ringbuf_used \in Nat /\ lxc_ringbuf_used <= Size
      /\ d \in 0 .. lxc_ringbuf_used
      /\ d > 0 => lxc_ringbuf_used + len > Size
  BY <1>1, IInvFacts, WriteOffsets, SizeNat DEF lxc_ringbuf_used, lxc_ringbuf_free
<1>3. /\ r_off' \in Nat /\ w \in Nat /\ r_off' <= w /\ r_off' < Size
      /\ w + len = w_off'
      /\ w + len - r_off' <= Size
      /\ lxc_ringbuf_used' = lxc_ringbuf_used - d + len
      /\ w - r_off' = lxc_ringbuf_used - d
      /\ \A i \in 1 .. lxc_ringbuf_used - d :
            Slot(r_off' + i - 1) = Slot(r_off + (d + i) - 1)
  <2>1. CASE full
    <3>1. r_off' = MovedReadAddr(len).r /\ w_off' = MovedReadAddr(len).w + len
      BY <2>1 DEF lxc_ringbuf_write
    <3>2. len <= lxc_ringbuf_used
      BY <1>1, <2>1, WriteOffsets
    <3>3. /\ r_off' \in Nat /\ w_off' - len = MovedReadAddr(len).w
          /\ MovedReadAddr(len).w \in Nat
          /\ r_off' <= MovedReadAddr(len).w /\ r_off' < Size
          /\ MovedReadAddr(len).w - r_off' = lxc_ringbuf_used - len
      BY <1>1, <3>1, <3>2, MovedInRange
    <3>4. \A i \in 1 .. lxc_ringbuf_used - len :
             Slot(r_off' + i - 1) = Slot(r_off + (len + i) - 1)
      <4> SUFFICES ASSUME NEW i \in 1 .. lxc_ringbuf_used - len
                   PROVE  Slot(r_off' + i - 1) = Slot(r_off + (len + i) - 1)
        OBVIOUS
      <4>1. i \in Nat /\ i > 0 /\ i <= lxc_ringbuf_used - len
        BY <1>1, <1>2
      <4>2. r_off + (len + i) - 1 = r_off + len + i - 1
        BY <1>1, <4>1, IInvFacts
      <4> QED BY <1>1, <3>1, <3>2, <4>1, <4>2, MovedSlot
    <3>5. d = len
      BY <2>1
    <3>6. /\ w = MovedReadAddr(len).w
          /\ lxc_ringbuf_used' = w + len - r_off'
      BY <3>3, <3>1, <1>1 DEF lxc_ringbuf_used
    <3> HIDE DEF len, d, w
    <3>7. /\ w - r_off' = lxc_ringbuf_used - d /\ w + len = w_off'
      BY <3>1, <3>3, <3>5, <3>6
    <3>8. lxc_ringbuf_used' = lxc_ringbuf_used - d + len
      BY SMTT(60), <1>1, <1>2, <3>3, <3>6, <3>7, SMTT(40)
    <3> QED BY <1>1, <1>2, <3>3, <3>4, <3>5, <3>6, <3>7, <3>8, SizeNat
  <2>2. CASE ~full
    <3>1. r_off' = r_off /\ w_off' = w_off + len
      BY <2>2 DEF lxc_ringbuf_write
    <3> HIDE DEF len
    <3> QED BY SMTT(60), <1>1, <1>2, <2>2, <3>1, IInvFacts, SizeNat
            DEF lxc_ringbuf_used, lxc_ringbuf_free
  <2> QED BY <2>1, <2>2
<1>4. mem' = memcpy(mem, w, msg)
  <2> DEFINE o == IF full THEN MovedReadAddr(len) ELSE [r |-> r_off, w |-> w_off]
  <2>1. w_off' = o.w + len
    BY DEF lxc_ringbuf_write
  <2>2. o.w \in Int
    BY <1>1, IInvFacts, SizeNat DEF MovedReadAddr
  <2>3. mem' = memcpy(mem, o.w, msg)
    BY DEF lxc_ringbuf_write
  <2>4. w = o.w
    <3> HIDE DEF o, len
    <3> QED BY <1>1, <2>1, <2>2
  <2> HIDE DEF o, w
  <2> QED BY <2>3, <2>4
<1>5. /\ Content' \in Seq(Byte) /\ Len(Content') = lxc_ringbuf_used'
      /\ \A i \in 1 .. lxc_ringbuf_used' : Content'[i] = mem'[Slot(r_off' + i - 1)]
  <2>1. ASSUME IInv'
        PROVE (/\ Content \in Seq(Byte) /\ Len(Content) = lxc_ringbuf_used
               /\ \A i \in 1 .. lxc_ringbuf_used : Content[i] = mem[Slot(r_off + i - 1)])'
    BY <2>1, ContentSeq, PTL
  <2> QED BY <2>1
<1>6. Content \in Seq(Byte) /\ Len(Content) = lxc_ringbuf_used
      /\ \A i \in 1 .. lxc_ringbuf_used : Content[i] = mem[Slot(r_off + i - 1)]
  BY ContentSeq
<1> HIDE DEF len, full, d, w
<1>7. ASSUME NEW i \in 1 .. lxc_ringbuf_used'
      PROVE  Content'[i] = IF i <= lxc_ringbuf_used - d
                           THEN Content[d + i] ELSE msg[i - (lxc_ringbuf_used - d)]
  <2> DEFINE off == r_off' + i - 1
  <2>0. /\ r_off' \in Nat /\ w \in Nat /\ r_off' <= w /\ r_off' < Size
        /\ w + len - r_off' <= Size /\ w - r_off' = lxc_ringbuf_used - d
        /\ d \in 0 .. lxc_ringbuf_used /\ lxc_ringbuf_used \in Nat /\ len \in Nat
        /\ i \in 1 .. lxc_ringbuf_used - d + len
    BY ZenonT(60), <1>1, <1>2, <1>3
  <2>1. /\ off \in Nat /\ r_off' <= off /\ off < w + len
        /\ i <= lxc_ringbuf_used - d => ~(off >= w)
        /\ ~(i <= lxc_ringbuf_used - d) => off >= w
        /\ off - w + 1 = i - (lxc_ringbuf_used - d)
    <3>1. PICK R, W, U, D : R = r_off' /\ W = w /\ U = lxc_ringbuf_used /\ D = d
      OBVIOUS
    <3>2. R \in Nat /\ W \in Nat /\ U \in Nat /\ len \in Nat /\ D \in 0 .. U
          /\ W - R = U - D /\ i \in 1 .. U - D + len
      BY ZenonT(60), <2>0, <3>1
    <3>3. /\ R + i - 1 \in Nat /\ R <= R + i - 1 /\ R + i - 1 < W + len
          /\ i <= U - D => ~(R + i - 1 >= W)
          /\ ~(i <= U - D) => R + i - 1 >= W
          /\ R + i - 1 - W + 1 = i - (U - D)
      BY <3>2
    <3>4. off = R + i - 1
      BY <3>1
    <3> HIDE DEF off
    <3>5. off \in Nat /\ r_off' <= off /\ off < w + len
      BY <3>1, <3>3, <3>4
    <3>6. i <= lxc_ringbuf_used - d => ~(off >= w)
      BY <3>1, <3>3, <3>4
    <3>7. ~(i <= lxc_ringbuf_used - d) => off >= w
      BY <3>1, <3>3, <3>4
    <3>8. off - w + 1 = i - (lxc_ringbuf_used - d)
      <4>1. off - W + 1 = i - (U - D)
        BY <3>2, <3>4
      <4> QED BY <3>1, <4>1
    <3> QED BY <3>5, <3>6, <3>7, <3>8
  <2>2. mem'[Slot(off)] = IF off >= w THEN msg[off - w + 1] ELSE mem[Slot(off)]
    <3> HIDE DEF off
    <3>1. PICK R, W, O, M : R = r_off' /\ W = w /\ O = off /\ M = mem
      OBVIOUS
    <3>2. /\ R \in Nat /\ W \in Nat /\ R <= W /\ R < Size
          /\ Len(msg) \in Nat /\ W + Len(msg) - R <= Size
          /\ O \in Nat /\ R <= O /\ O < W + Len(msg)
      BY <2>0, <2>1, <3>1 DEF len
    <3>3. memcpy(M, W, msg)[Slot(O)]
          = IF O >= W THEN msg[O - W + 1] ELSE M[Slot(O)]
      BY <3>2, CopiedSlots
    <3> QED BY <1>4, <3>1, <3>3
  <2>3. i <= lxc_ringbuf_used - d => mem[Slot(off)] = Content[d + i]
    BY SMTT(60), <1>2, <1>3, <1>6, SMTT(40)
  <2>4. Content'[i] = mem'[Slot(off)]
    BY <1>5
  <2> HIDE DEF off
  <2> QED BY <2>1, <2>2, <2>3, <2>4
<1>8. Content' = SubSeq(Content, d + 1, Len(Content)) \o msg
  <2>1. Len(Content') = Len(Content) - d + Len(msg) /\ d \in 0 .. Len(Content)
    BY <1>2, <1>3, <1>5, <1>6 DEF len
  <2>2. \A i \in 1 .. Len(Content') :
           Content'[i] = IF i <= Len(Content) - d
                         THEN Content[d + i] ELSE msg[i - (Len(Content) - d)]
    BY <1>5, <1>6, <1>7
  <2> QED BY ZenonT(60), <1>1, <1>5, <1>6, <2>1, <2>2, DropThenAppend
<1>9. d <= len /\ Len(Content) - d + len <= Size
  <2>1. d <= len
    BY <1>1 DEF d
  <2>2. lxc_ringbuf_used' <= Size
    BY DEF IInv, OffsetsInMapping
  <2> QED BY <1>3, <1>6, <2>1, <2>2
<1> QED BY ZenonT(60), <1>1, <1>2, <1>6, <1>8, <1>9 DEF Log!Put, len

(* A console log request is a read, a clearing read, or changes nothing. *)
LEMMA RequestIsConsume ==
    ASSUME IInv, IInv', NEW log \in Request, lxc_cmd_console_log_callback(log)
    PROVE  \E n \in 0 .. Size : Log!Consume(n) \/ Log!Clear(n)
<1> DEFINE len == DataLen(log)
           used == lxc_ringbuf_used
<1>1. len \in Nat /\ len <= used /\ used \in Nat /\ used <= Size /\ (~log.read => len = 0)
  BY DataLenInRange, IInvFacts DEF lxc_ringbuf_used, DataLen, Request
<1>2. Content \in Seq(Byte) /\ Len(Content) = used
      /\ \A i \in 1 .. used : Content[i] = mem[Slot(r_off + i - 1)]
  BY ContentSeq
<1>3. /\ Content' \in Seq(Byte) /\ Len(Content') = used'
      /\ \A i \in 1 .. used' : Content'[i] = mem'[Slot(r_off' + i - 1)]
  <2>1. ASSUME IInv'
        PROVE (/\ Content \in Seq(Byte) /\ Len(Content) = lxc_ringbuf_used
               /\ \A i \in 1 .. lxc_ringbuf_used : Content[i] = mem[Slot(r_off + i - 1)])'
    BY <2>1, ContentSeq, PTL
  <2> QED BY <2>1
<1>4. mem' = mem
  BY DEF lxc_cmd_console_log_callback
<1>5. reply' = SubSeq(Content, 1, len)
  <2>1. \A i \in 1 .. len : Content[i] \in Byte
    BY <1>1, <1>2, ElementOfSeq
  <2>2. /\ SubSeq(Content, 1, len) \in Seq(Byte)
        /\ Len(SubSeq(Content, 1, len)) = IF 1 <= len THEN len - 1 + 1 ELSE 0
        /\ \A i \in 1 .. len - 1 + 1 : SubSeq(Content, 1, len)[i] = Content[1 + i - 1]
    BY <1>1, <2>1, SubSeqProperties
  <2>3. reply' = [i \in 1 .. len |-> mem[Slot(r_off + i - 1)]]
    <3>1. CASE log.read
      BY <3>1 DEF lxc_cmd_console_log_callback
    <3>2. CASE ~log.read
      BY <1>1, <3>2 DEF lxc_cmd_console_log_callback
    <3> QED BY <3>1, <3>2
  <2> HIDE DEF len
  <2>a. \A i \in 1 .. len : i \in 1 .. used /\ mem[Slot(r_off + i - 1)] = Content[i]
    <3>1. \A i \in 1 .. len : i \in 1 .. used
      BY <1>1
    <3> QED BY <1>2, <3>1
  <2>4. reply' \in Seq(Byte) /\ Len(reply') = len
        /\ \A i \in 1 .. len : reply'[i] = Content[i]
    <3>1. reply' = [i \in 1 .. len |-> Content[i]]
      BY <2>3, <2>a
    <3> QED BY <1>1, <2>1, <3>1
  <2>5. Len(SubSeq(Content, 1, len)) = len
        /\ \A i \in 1 .. len : SubSeq(Content, 1, len)[i] = Content[i]
    BY <1>1, <2>2
  <2> QED BY <1>1, <2>2, <2>4, <2>5, SeqEqual
<1>6. \/ r_off' = r_off /\ w_off' = w_off /\ used = 0
      \/ r_off' = 0 /\ w_off' = 0
      \/ r_off' = MovedReadAddr(len).r /\ w_off' = MovedReadAddr(len).w
  BY IInvFacts DEF lxc_cmd_console_log_callback, lxc_ringbuf_used
<1> HIDE DEF len
<1>7. CASE r_off' = 0 /\ w_off' = 0
  <2>1. used' = 0
    BY <1>7 DEF lxc_ringbuf_used
  <2>2. Content' = << >>
    BY <1>3, <2>1, EmptySeq
  <2>3. Log!Clear(len) /\ len \in 0 .. Size
    BY <1>1, <1>2, <1>5, <2>2, SizeNat DEF Log!Clear
  <2> QED BY <2>3
<1>8. CASE \/ r_off' = r_off /\ w_off' = w_off /\ used = 0
           \/ r_off' = MovedReadAddr(len).r /\ w_off' = MovedReadAddr(len).w
  <2>1. /\ used' = used - len
        /\ \A i \in 1 .. used - len : Slot(r_off' + i - 1) = Slot(r_off + (len + i) - 1)
    <3>1. CASE r_off' = r_off /\ w_off' = w_off /\ used = 0
      BY <1>1, <3>1 DEF lxc_ringbuf_used
    <3>2. CASE r_off' = MovedReadAddr(len).r /\ w_off' = MovedReadAddr(len).w
      <4>1. used' = used - len
        BY <1>1, <3>2, MovedInRange DEF lxc_ringbuf_used
      <4>2. ASSUME NEW i \in 1 .. used - len
            PROVE  Slot(r_off' + i - 1) = Slot(r_off + (len + i) - 1)
        <5>1. i \in Nat /\ i > 0 /\ i <= lxc_ringbuf_used - len
          BY <1>1
        <5>2. r_off + (len + i) - 1 = r_off + len + i - 1
          BY <1>1, <5>1, IInvFacts
        <5> QED BY <1>1, <3>2, <5>1, <5>2, MovedSlot
      <4> QED BY <4>1, <4>2
    <3> QED BY <1>8, <3>1, <3>2
  <2>2. len \in 0 .. Len(Content) /\ Len(Content') = Len(Content) - len
    BY <1>1, <1>2, <1>3, <2>1
  <2>3. ASSUME NEW i \in 1 .. Len(Content') PROVE Content'[i] = Content[len + i]
    <3>1. i \in 1 .. used' /\ i \in 1 .. used - len /\ len + i \in 1 .. used
      BY <1>1, <1>2, <1>3, <2>1
    <3> QED BY <1>2, <1>3, <1>4, <2>1, <3>1
  <2>4. Content' = SubSeq(Content, len + 1, Len(Content))
    BY ZenonT(60), <1>2, <1>3, <2>2, <2>3, DropOnly
  <2>5. Log!Consume(len) /\ len \in 0 .. Size
    BY <1>1, <1>2, <1>5, <2>4, SizeNat DEF Log!Consume
  <2> QED BY <2>5
<1> QED BY <1>6, <1>7, <1>8

(* RingBuf implements ConsoleLog: the console log a user sees is a queue    *)
(* that loses only its oldest bytes, and only for lack of room.             *)
THEOREM RingBufIsConsoleLog == Spec => IsConsoleLog
<1>1. Init => Log!AbsInit
  <2> SUFFICES ASSUME Init PROVE Content = << >> /\ reply = << >>
    BY DEF Log!AbsInit
  <2>1. IInv /\ lxc_ringbuf_used = 0
    BY IInvInit DEF Init, lxc_ringbuf_used
  <2>2. Content \in Seq(Byte) /\ Len(Content) = 0
    BY <2>1, ContentSeq
  <2> QED BY <2>2, EmptySeq DEF Init
<1>2. IInv /\ IInv' /\ [Next]_vars => [Log!AbsNext]_<<Content, reply>>
  <2> SUFFICES ASSUME IInv, IInv', [Next]_vars
               PROVE  [Log!AbsNext]_<<Content, reply>>
    OBVIOUS
  <2>1. CASE PtxIo
    <3>1. PICK msg \in Message : lxc_ringbuf_write(msg) /\ reply' = reply
      BY <2>1 DEF PtxIo
    <3> QED BY <3>1, WriteIsPut DEF Log!AbsNext
  <2>2. CASE \E log \in Request : lxc_cmd_console_log_callback(log)
    BY <2>2, RequestIsConsume DEF Log!AbsNext
  <2>3. CASE lxc_terminal_create_ringbuf
    <3>1. lxc_ringbuf_used' = 0 /\ reply' = reply
      BY <2>3 DEF lxc_terminal_create_ringbuf, lxc_ringbuf_used
    <3>2. Content' = << >>
      BY <3>1 DEF Content
    <3> QED BY <3>1, <3>2 DEF Log!AbsNext, Log!Reset
  <2>4. CASE UNCHANGED vars
    BY <2>4 DEF vars, Content, lxc_ringbuf_used
  <2> QED BY <2>1, <2>2, <2>3, <2>4 DEF Next
<1>3. Spec => []IInv
  BY IInvInit, IInvStep, PTL DEF Spec
<1> QED BY <1>1, <1>2, <1>3, PTL DEF Spec, IsConsoleLog, Log!AbsSpec
=============================================================================
