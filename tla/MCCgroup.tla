------------------------------ MODULE MCCgroup ------------------------------
(***************************************************************************)
(* Small machines for the cgroup driver: legacy, hybrid and unified layouts,*)
(* root and unprivileged callers, containers that want the same names, and  *)
(* clients that attach, freeze, stop and change settings meanwhile.         *)
(***************************************************************************)
EXTENDS Cgroup

Line(uni, ctl) == [uni |-> uni, ctl |-> ctl, mounted |-> TRUE, writable |-> TRUE]

Machine == [lines |-> <<>>, root |-> TRUE, use |-> {}, self |-> <<>>, systemd |-> FALSE,
            bpf |-> TRUE, replace |-> TRUE, pattern |-> FALSE, into |-> FALSE,
            cpus |-> {0, 1, 3}, isol |-> {}, offline |-> {}, left |-> {}]

Legacy == [Machine EXCEPT !.lines = <<Line(FALSE, {"cpuset"}), Line(FALSE, {"memory", "freezer", "devices"})>>]
Hybrid == [Machine EXCEPT !.lines = <<Line(FALSE, {"memory", "devices", "freezer"}), Line(FALSE, {"cpuset"}), Line(TRUE, {})>>,
                          !.use = {"memory", "devices", "freezer"}, !.pattern = TRUE]
Two == [Machine EXCEPT !.lines = <<Line(TRUE, {"memory", "pids"})>>, !.into = TRUE]
UserGroup == <<<<"user", "", 0>>>>
User == [Two EXCEPT !.root = FALSE, !.self = UserGroup, !.systemd = TRUE, !.into = FALSE]

Plain == [name |-> "x", dir |-> <<>>, mdir |-> <<>>, cdir |-> <<>>, ndir |-> <<>>, pivot |-> <<>>,
          relative |-> FALSE, daemon |-> FALSE, userns |-> FALSE, cgns |-> TRUE, sysadmin |-> TRUE,
          force |-> FALSE, auto |-> "nospec", nests |-> FALSE, pidns |-> TRUE,
          legacy |-> <<>>, unified |-> <<>>, starts |-> 1]

NoText == [type |-> "", major |-> -1, minor |-> -1, access |-> {}]
Item(ctl, key) == [ctl |-> ctl, key |-> key, allow |-> FALSE, text |-> NoText]
Dev(allow, type, major, minor, access) ==
    [ctl |-> "devices", key |-> "devices", allow |-> allow,
     text |-> [type |-> type, major |-> major, minor |-> minor, access |-> access]]

Swap == Item("memory", "memory.memsw")
Limit == Item("memory", "memory.limit")
Cpus == Item("cpuset", "cpuset.cpus")
DenyAll == Dev(FALSE, "a", -1, -1, {})
AllowAll == Dev(TRUE, "a", -1, -1, {})
Null(allow) == Dev(allow, "c", 1, 0, {"r", "w"})
Tty(allow) == Dev(allow, "c", 1, -1, {"r"})

Do(kind, c) == [kind |-> kind, c |-> c, item |-> NoText]
Set(c, item) == [kind |-> "set", c |-> c, item |-> item]

Dir(name) == <<name, "", 0>>

Off == [Plain EXCEPT !.starts = 0]
Alone(f) == "a" :> f @@ "b" :> Off
Jobs(s, t) == "k1" :> s @@ "k2" :> t

LegacyLimits == <<Swap, DenyAll, Limit, Cpus>>
Leftover == {<<1, <<<<"lxc", "x", 0>>>>>>, <<1, <<<<"lxc", "x", 0>>, <<"payload", "", 0>>>>>>}

McSetups == {
  \* two containers of one name, whose groups must not be mixed up
  [host |-> Legacy, conf |-> [c \in C |-> [Plain EXCEPT !.legacy = LegacyLimits]], jobs |-> Jobs(<<>>, <<>>)],
  \* one container with an inner group, frozen and thawed while a process is attached
  [host |-> [Legacy EXCEPT !.isol = {1}, !.offline = {3}],
   conf |-> Alone([Plain EXCEPT !.legacy = LegacyLimits, !.starts = 2, !.mdir = <<Dir("m")>>,
                                !.cdir = <<Dir("p")>>, !.ndir = <<Dir("in")>>]),
   jobs |-> Jobs(<<Do("freeze", "a"), Do("thaw", "a")>>, <<Do("attach", "a")>>)],
  \* a name that is taken in one hierarchy, an inner group, a pivot of its own
  [host |-> [Hybrid EXCEPT !.left = Leftover],
   conf |-> "a" :> [Plain EXCEPT !.legacy = <<DenyAll, Limit>>, !.daemon = TRUE, !.auto = "mixed"]
         @@ "b" :> [Plain EXCEPT !.mdir = <<Dir("m")>>, !.cdir = <<Dir("p")>>, !.ndir = <<Dir("in")>>,
                                 !.legacy = <<DenyAll, Limit>>, !.pivot = <<Dir("q")>>],
   jobs |-> Jobs(<<Do("stop", "b")>>, <<Set("b", Item("memory", "memory.soft"))>>)],
  \* two containers that are told to use one directory, started again and again
  [host |-> Two,
   conf |-> "a" :> [Plain EXCEPT !.mdir = <<Dir("m"), Dir("a")>>, !.cdir = <<Dir("p")>>, !.starts = 2]
         @@ "b" :> [Plain EXCEPT !.mdir = <<Dir("m"), Dir("b")>>, !.cdir = <<Dir("p")>>, !.cgns = FALSE],
   jobs |-> Jobs(<<Do("stop", "a")>>, <<>>)],
  \* unified: nesting, attaching, freezing and stopping
  [host |-> Two,
   conf |-> Alone([Plain EXCEPT !.unified = <<DenyAll, Null(TRUE), Item("memory", "memory.max")>>,
                                !.nests = TRUE, !.dir = <<Dir("d")>>, !.starts = 2]),
   jobs |-> Jobs(<<Do("freeze", "a"), Do("thaw", "a"), Do("stop", "a")>>, <<Do("attach", "a"), Do("stop", "a")>>)],
  \* processes that outlive the container
  [host |-> [Two EXCEPT !.pattern = TRUE, !.bpf = FALSE],
   conf |-> [c \in C |-> [Plain EXCEPT !.pidns = FALSE]],
   jobs |-> Jobs(<<Do("attach", "a")>>, <<Do("attach", "b")>>)],
  \* device rules added one after the other by two clients
  [host |-> Two, conf |-> Alone([Plain EXCEPT !.unified = <<DenyAll, Null(TRUE)>>]),
   jobs |-> Jobs(<<Set("a", Tty(TRUE)), Set("a", Null(FALSE)), Set("a", Tty(TRUE))>>,
                 <<Set("a", Tty(FALSE)), Set("a", AllowAll), Set("a", Null(FALSE))>>)],
  [host |-> [Two EXCEPT !.replace = FALSE], conf |-> Alone([Plain EXCEPT !.unified = <<AllowAll, Tty(FALSE)>>]),
   jobs |-> Jobs(<<Set("a", Null(FALSE)), Set("a", Null(TRUE))>>, <<Set("a", Tty(TRUE))>>)],
  \* unprivileged, with and without a systemd scope
  [host |-> User,
   conf |-> [c \in C |-> [Plain EXCEPT !.userns = TRUE, !.nests = TRUE, !.unified = <<Item("memory", "memory.max")>>]],
   jobs |-> Jobs(<<Do("attach", "a")>>, <<>>)],
  [host |-> [User EXCEPT !.systemd = FALSE],
   conf |-> Alone([Plain EXCEPT !.userns = TRUE, !.relative = TRUE]),
   jobs |-> Jobs(<<Do("attach", "a")>>, <<Do("freeze", "a"), Do("thaw", "a")>>)]}
=============================================================================
