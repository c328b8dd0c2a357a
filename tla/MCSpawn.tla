------------------------------ MODULE MCSpawn ------------------------------
(***************************************************************************)
(* Instances of Spawn for TLC: configurations that between them use every  *)
(* kind of message, two idmapped mounts, and both kinds of death signal.   *)
(***************************************************************************)
EXTENDS Spawn

MCConf == {
    [newnet |-> TRUE, userns |-> TRUE, rootfs |-> TRUE, mounts |-> 2,
     fds |-> <<"devpts", "tty", "netdev">>, setuid |-> FALSE, pdeath |-> TRUE],
    [newnet |-> TRUE, userns |-> FALSE, rootfs |-> FALSE, mounts |-> 1,
     fds |-> <<"seccomp", "devpts", "netdev", "console">>,
     setuid |-> FALSE, pdeath |-> FALSE],
    [newnet |-> FALSE, userns |-> TRUE, rootfs |-> FALSE, mounts |-> 0,
     fds |-> <<"devpts">>, setuid |-> TRUE, pdeath |-> TRUE]}

=============================================================================
