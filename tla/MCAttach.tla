------------------------------ MODULE MCAttach ------------------------------
(***************************************************************************)
(* Attach for model checking.  The setups differ in what the kernel can do, *)
(* in the container and in the options.                                    *)
(***************************************************************************)
EXTENDS Attach

Own(s) == [p \in Runs |-> s]

\* All of an unprivileged container's namespaces, from a host process.
Base == [kern |-> "setns", own |-> Own({"user", "mnt", "pid", "net"}), here |-> {}, ask |-> {"all"}, cgns |-> TRUE,
         flags |-> {"cgroup", "lsm", "caps"}, label |-> TRUE, sec |-> "plain", nnp |-> TRUE, stops |-> TRUE, kills |-> FALSE,
         map |-> <<<<0, 100, 10>>>>, uid |-> 100, asuid |-> Invalid,
         clear |-> TRUE, keep |-> {"TERM", "PATH"}, env |-> [HOME |-> "h", TERM |-> "t"], conf |-> [A |-> "c", B |-> "c"],
         extra |-> [B |-> "x"], run |-> "cmd", files |-> {"cmd", "sh"}, shell |-> "sh"]

McSetups ==
    {[Base EXCEPT !.kern = k] : k \in {"setns", "pidfd", "none"}}
    \cup {[Base EXCEPT !.sec = "notify", !.flags = {"cgroup", "lsm", "term"}, !.run = "shell", !.shell = "zsh"],
          [Base EXCEPT !.kills = TRUE, !.stops = FALSE, !.clear = FALSE, !.nnp = FALSE],
          \* no root in the container, shared and foreign namespaces
          [Base EXCEPT !.map = <<<<3, 50, 2>>, <<5, 99, 4>>>>, !.here = {"net", "cgroup"}, !.own = Own({"user", "mnt", "pid"}),
                       !.run = "shell", !.files = {"getent", "zsh"}, !.shell = "zsh"],
          \* the second run has a network of its own, and no label
          [Base EXCEPT !.own = [c1 |-> {"mnt", "pid"}, c2 |-> {"mnt", "pid", "net", "time"}], !.label = FALSE,
                       !.sec = "notify", !.flags = {"lsm", "nnp"}, !.asuid = 7, !.here = {"net"}],
          \* a label, and the pid namespace of the host
          [Base EXCEPT !.kern = "none", !.own = Own({"user", "mnt", "net"})],
          \* only some namespaces
          [Base EXCEPT !.ask = {"net", "mnt"}, !.flags = {"cgroup", "term"}, !.sec = "no"],
          [Base EXCEPT !.ask = {"net", "pid", "user"}, !.kern = "pidfd", !.files = {"nss", "zsh"}, !.shell = "zsh", !.run = "shell"]}
=============================================================================
