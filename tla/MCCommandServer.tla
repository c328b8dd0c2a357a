-------------------------- MODULE MCCommandServer --------------------------
(* Instances of CommandServer: who connects, and what they ask.            *)
EXTENDS CommandServer, TLC

Wait(S) == [cmd |-> "ADD_STATE_CLIENT", states |-> S, again |-> FALSE]
Reboot2 == [cmd |-> "ADD_STATE_CLIENT", states |-> {"RUNNING"}, again |-> TRUE]
Notify(s) == [cmd |-> "SERVE_STATE_CLIENTS", state |-> s]
Cmd(x) == [cmd |-> x]

CONSTANTS c1, c2, c3
Two(A, B) == {(c1 :> a) @@ (c2 :> b) : a \in A, b \in B}
Three(A, B, C) == {(c1 :> a) @@ (c2 :> b) @@ (c3 :> c) : a \in A, b \in B, c \in C}

\* A freezer, somebody who waits for it, and somebody who stops the container or
\* waits for that; or owners of ttys and a state client.
SafetyAsk ==
    Three({Notify("FROZEN"), Notify("THAWED")}, {Wait({"FROZEN"})},
          {Cmd("STOP"), Wait({"STOPPED", "RUNNING"})})
      \cup Three({Cmd("GET_TTY_FD")}, {Cmd("GET_TTY_FD")}, {Wait({"STOPPED"}), Cmd("GET_TTY_FD")})

\* Every command, two at a time, of a container that reboots.
LiveAsk ==
    Two({Wait({"FROZEN"}), Reboot2}, {Notify("FROZEN")})
      \cup Two({Cmd("GET_TTY_FD")}, {Cmd("STOP"), Cmd("GET_STATE")})
      \cup Two({Wait({"STOPPED"})}, {Cmd("STOP")})
=============================================================================
