---------------------------- MODULE ConsoleLog ----------------------------
(* What the in-memory console log promises its users: a queue of at most   *)
(* Cap bytes that never refuses a write.  The container's terminal appends *)
(* to it, LXC_CMD_CONSOLE_LOG requests consume it.  RingBuf implements it. *)
EXTENDS Naturals, Sequences

CONSTANTS Byte, Cap, Messages

VARIABLES content,  \* the bytes that can still be read, oldest first
          reply     \* the bytes the last request returned

AbsInit == content = << >> /\ reply = << >>

(* A write keeps its whole message.  It drops bytes only when there is no  *)
(* room, only the oldest ones, and never more than it writes.              *)
Put(msg) ==
    /\ \E d \in 0 .. Len(content) :
          /\ d > 0 => Len(content) + Len(msg) > Cap
          /\ d <= Len(msg)
          /\ Len(content) - d + Len(msg) <= Cap
          /\ content' = SubSeq(content, d + 1, Len(content)) \o msg
    /\ UNCHANGED reply

(* A read returns and consumes the n oldest bytes. *)
Consume(n) ==
    /\ n <= Len(content)
    /\ reply' = SubSeq(content, 1, n)
    /\ content' = SubSeq(content, n + 1, Len(content))

(* A clearing request may return bytes before it empties the log. *)
Clear(n) ==
    /\ n <= Len(content)
    /\ reply' = SubSeq(content, 1, n)
    /\ content' = << >>

(* A rebooted container starts with an empty log. *)
Reset == content' = << >> /\ UNCHANGED reply

AbsNext == \/ \E msg \in Messages : Put(msg)
           \/ \E n \in 0 .. Cap : Consume(n) \/ Clear(n)
           \/ Reset

AbsSpec == AbsInit /\ [][AbsNext]_<<content, reply>>
=============================================================================
