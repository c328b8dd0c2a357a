---------------------------- MODULE ConfigItems ----------------------------
(***************************************************************************)
(* The keys of a container's configuration (confile.c, confile_utils.c):    *)
(* which handler a key is dispatched to, and what its set, get and clear    *)
(* callbacks do to the configuration in memory (struct lxc_conf).           *)
(*                                                                          *)
(* A value is a sequence of tokens, the pieces of text the callbacks tell   *)
(* apart: words, numbers, "/", " ", quotes; <<>> is the empty value, and    *)
(* also the NULL of a string field.  A configuration is a function from     *)
(* fields to values; a field that one key alone sets has that key's name.   *)
(* Keys keep their text, since dispatching and removing lines compare       *)
(* prefixes of it.                                                          *)
(***************************************************************************)
EXTENDS Integers, Sequences, FiniteSets, SequencesExt, TLC

CONSTANTS Built,     \* what the build supports: subset of {"seccomp", "notify", "apparmor", "selinux"}
          Environ,   \* the variables set in the caller's environment, with their values
          Files      \* the files lxc.include can name, with their lines

IsPre(p, s) == Len(p) <= Len(s) /\ SubSeq(s, 1, Len(p)) = p
After(p, s) == SubSeq(s, Len(p) + 1, Len(s))
Words(v) == SelectSeq(v, LAMBDA t : t # " ")

\* The result of a callback: whether it reports success, and the configuration.
Ok(c) == [ok |-> TRUE, c |-> c]
Fail(c) == [ok |-> FALSE, c |-> c]
Put(c, f, x) == [c EXCEPT ![f] = x]
Add(c, f, x) == [c EXCEPT ![f] = Append(@, x)]

----------------------------------------------------------------------------
(* Reading and printing values.                                             *)

Ints == (-1 .. 5) \cup {8, 9, 15, 32, 33, 60, 64, 128, 129, 4000, 4096, 5000, 8192, 131072, 500000}
Numerals == [t \in {ToString(n) : n \in Ints} |-> CHOOSE n \in Ints : ToString(n) = t]
IsInt(v) == Len(v) = 1 /\ v[1] \in DOMAIN Numerals
ToInt(v) == Numerals[v[1]]
Shown(n) == <<ToString(n)>>

\* lxc_path_simplify: no empty and no "." component, no slash at the end
lxc_path_simplify(v) ==
    LET parts == SelectSeq(v, LAMBDA t : t \notin {"/", "."})
        abs == v # <<>> /\ v[1] = "/"
        joined == FoldLeft(LAMBDA s, t : s \o (IF s = <<>> THEN <<t>> ELSE <<"/", t>>), <<>>, parts)
    IN  IF v = <<>> THEN v
        ELSE IF abs THEN <<"/">> \o joined
        ELSE IF parts = <<>> THEN <<".">> ELSE joined

\* sig_parse: a number, or a name with the prefix SIG
SigNames == ("SIGKILL" :> 9) @@ ("SIGTERM" :> 15)
sig_parse(v) == IF IsInt(v) THEN ToInt(v)
                ELSE IF Len(v) = 1 /\ v[1] \in DOMAIN SigNames THEN SigNames[v[1]] ELSE -1

\* lxc_config_parse_arch: two personalities under many names
lxc_config_parse_arch(v) ==
    CASE v = <<"i686">> \/ v = <<"x86">>     -> "linux32"
      [] v = <<"x86_64">> \/ v = <<"amd64">> -> "linux"
      [] OTHER                               -> "bad"

\* The console sizes: at least a page, rounded up to a power of two.
PageSize == 4096
lxc_find_next_power2(n) == CHOOSE p \in {2 ^ i : i \in 0 .. 20} : p >= n /\ p < 2 * n
SizeOf(v) == IF v = <<"auto">> THEN 2 ^ 17
             ELSE IF ~IsInt(v) \/ ToInt(v) < 0 THEN -1
             ELSE lxc_find_next_power2(IF ToInt(v) < PageSize THEN PageSize ELSE ToInt(v))

LogLevels == <<"TRACE", "DEBUG", "INFO", "NOTICE", "WARN", "ERROR", "CRIT", "ALERT", "FATAL">>
NotSet == Len(LogLevels)
\* A word that is no level means NOTSET, which lxc_log_set_level refuses.
lxc_log_priority_to_int(v) ==
    IF IsInt(v) /\ ToInt(v) >= 0 THEN ToInt(v)
    ELSE IF \E i \in DOMAIN LogLevels : v = <<LogLevels[i]>>
         THEN (CHOOSE i \in DOMAIN LogLevels : v = <<LogLevels[i]>>) - 1 ELSE NotSet

----------------------------------------------------------------------------
(* The scalar keys: how a value is read and what the empty value stores.    *)

Keys(S, r) == [k \in S |-> r]
Unlimited == 1000000
\* A number: e for the empty value, at most m; "early" callbacks store it
\* before they compare it with m, "lax" ones return 0 for what is no number.
Number(e, m, how) == [t |-> "num", empty |-> e, max |-> m, how |-> how]
Str == [t |-> "str", empty |-> <<>>]
Path == [t |-> "path", empty |-> <<>>]
Signal == [t |-> "signal", empty |-> 0]
Needs(b, r) == r @@ [needs |-> b]

\* lxc_safe_uint reports an error without setting errno, so "return -errno" is 0.
SeccompKeys ==
    ("lxc.seccomp.allow_nesting" :> Needs("seccomp", Number(0, 1, "early lax")))
    @@ ("lxc.seccomp.notify.cookie" :> Needs("notify", Str))
    @@ ("lxc.seccomp.notify.proxy" :> Needs("notify", [t |-> "unix", empty |-> <<>>]))
    @@ ("lxc.seccomp.profile" :> Needs("seccomp", Path))

InitKeys ==
    Keys({"lxc.execute.cmd", "lxc.init.cmd"}, Str) @@ ("lxc.init.cwd" :> Path)
    @@ Keys({"lxc.init.uid", "lxc.init.gid"}, Number(0, Unlimited, "lax"))

StartKeys ==
    ("lxc.hook.version" :> Number(0, 1, "lax")) @@ ("lxc.arch" :> [t |-> "arch"])
    @@ Keys({"lxc.pty.max", "lxc.start.delay", "lxc.monitor.unshare"}, Number(0, Unlimited, ""))
    @@ ("lxc.start.auto" :> Number(0, 1, "early"))
    @@ ("lxc.start.order" :> [t |-> "int", empty |-> 0])
    @@ ("lxc.monitor.signal.pdeath" :> Signal)

LsmKeys ==
    ("lxc.tty.max" :> Number(0, Unlimited, "")) @@ ("lxc.tty.dir" :> Str)
    @@ ("lxc.apparmor.profile" :> Needs("apparmor", Str))
    @@ Keys({"lxc.apparmor.allow_incomplete", "lxc.apparmor.allow_nesting"},
            Needs("apparmor", Number(0, 1, "early")))
    @@ Keys({"lxc.selinux.context", "lxc.selinux.context.keyring"}, Needs("selinux", Str))
    @@ ("lxc.keyring.session" :> Number(0, 1, ""))

LogKeys ==
    ("lxc.log.file" :> [t |-> "logfile", empty |-> <<>>])
    @@ ("lxc.log.level" :> [t |-> "level", empty |-> NotSet])
    @@ ("lxc.autodev" :> Number(0, 1, "early"))
    @@ ("lxc.autodev.tmpfs.size" :> [t |-> "tmpfs", empty |-> 500000])
    @@ Keys({"lxc.signal.halt", "lxc.signal.reboot", "lxc.signal.stop"}, Signal)

\* Relative paths that do not walk upwards; the inner directory is one name.
CgroupMetaKeys ==
    Keys({"lxc.cgroup.dir", "lxc.cgroup.dir.monitor", "lxc.cgroup.dir.monitor.pivot",
          "lxc.cgroup.dir.container"}, [t |-> "reldir", empty |-> <<>>])
    @@ ("lxc.cgroup.dir.container.inner" :> [t |-> "name", empty |-> <<>>])
    @@ ("lxc.cgroup.relative" :> Number(0, 1, ""))

ConsoleKeys ==
    Keys({"lxc.console.path", "lxc.console.logfile"}, Path)
    @@ ("lxc.console.rotate" :> Number(0, 1, "early"))
    @@ Keys({"lxc.console.buffer.size", "lxc.console.size"}, [t |-> "size", empty |-> 0])

RootfsKeys ==
    ("lxc.rootfs.managed" :> Number(1, 1, "")) @@ ("lxc.rootfs.mount" :> Path)
    @@ ("lxc.rootfs.options" :> [t |-> "mntopts", empty |-> <<>>])
    @@ ("lxc.uts.name" :> [t |-> "uts", empty |-> <<>>])

LateKeys ==
    ("lxc.ephemeral" :> Number(0, 1, "early"))
    @@ ("lxc.log.syslog" :> [t |-> "syslog", empty |-> <<>>])
    @@ ("lxc.no_new_privs" :> Number(0, 1, ""))

\* set_config_mount_fstab clears the field for the empty value, and then fails.
FstabKey == "lxc.mount.fstab" :> [t |-> "fstab", empty |-> <<>>]
SchedKey == "lxc.sched.core" :> Number(0, 1, "")

Scalars == SeccompKeys @@ InitKeys @@ StartKeys @@ LsmKeys @@ LogKeys @@ CgroupMetaKeys
           @@ ConsoleKeys @@ RootfsKeys @@ LateKeys @@ FstabKey @@ SchedKey

\* A word longer than a host name or a file name may be.
TooLong == "long-word"
\* Storing a log file also opens it, which the file system may refuse.
Unwritable == "/proc"
RefusedOptions == {"create=dir", "create=file", "optional", "relative"}

SetNumber(s, k, v, c) ==
    CASE v = <<>> -> Ok(Put(c, k, s.empty))
      [] v # <<>> /\ (~IsInt(v) \/ ToInt(v) < 0) ->
            IF s.how \in {"lax", "early lax"} THEN Ok(c) ELSE Fail(c)
      [] v # <<>> /\ IsInt(v) /\ ToInt(v) > s.max ->
            Fail(IF s.how \in {"early", "early lax"} THEN Put(c, k, ToInt(v)) ELSE c)
      [] OTHER -> Ok(Put(c, k, ToInt(v)))

\* The callbacks that read a word: what they keep of it, and when.
ReadWord(s, v) ==
    CASE s.t \in {"path", "logfile", "reldir", "fstab"} -> lxc_path_simplify(v)
      [] s.t = "signal" -> sig_parse(v)
      [] s.t = "int"    -> IF IsInt(v) THEN ToInt(v) ELSE 0
      [] s.t = "tmpfs"  -> IF IsInt(v) THEN ToInt(v) ELSE 500000
      [] s.t = "level"  -> lxc_log_priority_to_int(v)
      [] s.t = "arch"   -> lxc_config_parse_arch(v)
      [] s.t = "size"   -> SizeOf(v)
      [] s.t = "unix"   -> Tail(v)
      [] OTHER          -> v
SetWord(s, k, v, stored, c) ==
    LET refused == CASE s.t \in {"signal", "size"} -> stored = -1
                     [] s.t = "int"     -> ~IsInt(v)
                     [] s.t = "arch"    -> stored = "bad"
                     [] s.t = "unix"    -> v[1] # "unix:"
                     [] s.t = "reldir"  -> v[1] = "/" \/ \E i \in DOMAIN v : v[i] = ".."
                     [] s.t = "name"    -> \E i \in DOMAIN v : v[i] \in {"/", ".", ".."}
                     [] s.t \in {"uts", "str"} -> k \in {"lxc.uts.name", "lxc.tty.dir"} /\ v = <<TooLong>>
                     [] OTHER -> FALSE
    IN  CASE v = <<>> /\ s.t = "arch"    -> Fail(c)
          [] v = <<>> /\ s.t = "fstab"   -> Fail(Put(c, k, <<>>))
          [] v = <<>> /\ s.t \notin {"arch", "fstab"} -> Ok(Put(c, k, s.empty))
          [] v # <<>> /\ s.t = "logfile" -> IF v = <<Unwritable>> THEN Fail(Put(c, k, stored))
                                            ELSE Ok(Put(c, k, stored))
          [] v # <<>> /\ s.t = "level"   -> IF stored >= NotSet THEN Fail(Put(c, k, stored))
                                            ELSE Ok(Put(c, k, stored))
          [] v # <<>> /\ s.t = "syslog"  -> IF v = <<"daemon">> THEN Ok(Put(c, k, v))
                                            ELSE Fail(Put(c, k, <<>>))
          [] v # <<>> /\ s.t = "mntopts" ->
                IF \E i \in DOMAIN v : v[i] \in RefusedOptions THEN Fail(Put(c, k, <<>>))
                ELSE Ok(Put(c, k, v))
          [] OTHER -> IF refused THEN Fail(c) ELSE Ok(Put(c, k, stored))

\* The callback of a key with description s.
SetDescribed(s, k, v, c) ==
    IF "needs" \in DOMAIN s /\ s.needs \notin Built THEN Fail(c)
    ELSE IF s.t = "num" THEN SetNumber(s, k, v, c) ELSE SetWord(s, k, v, ReadWord(s, v), c)
SetScalar(k, v, c) == SetDescribed(Scalars[k], k, v, c)

----------------------------------------------------------------------------
(* The keys that collect lists.  An empty value empties the list.           *)

Hooks == {"lxc.hook.pre-start", "lxc.hook.start-host", "lxc.hook.pre-mount", "lxc.hook.autodev",
          "lxc.hook.mount", "lxc.hook.start", "lxc.hook.stop", "lxc.hook.post-stop",
          "lxc.hook.clone", "lxc.hook.destroy"}
EnvKeys == {"lxc.environment", "lxc.environment.runtime", "lxc.environment.hooks"}
Lists == Hooks \cup EnvKeys \cup {"lxc.apparmor.raw", "lxc.mount.entry", "lxc.group", "lxc.init.groups"}

\* set_config_hooks: one hook is added per value; "lxc.hook" takes none.
set_config_hooks(k, v, c) ==
    CASE v = <<>> /\ k = "lxc.hook" -> Ok([f \in DOMAIN c |-> IF f \in Hooks THEN <<>> ELSE c[f]])
      [] v = <<>> /\ k \in Hooks    -> Ok(Put(c, k, <<>>))
      [] v # <<>> /\ k \in Hooks    -> Ok(Add(c, k, v))
      [] OTHER                      -> Fail(c)

\* A group list is split at blanks, one element per word.
set_config_group(v, c) == Ok(Put(c, "lxc.group", IF v = <<>> THEN <<>> ELSE c["lxc.group"] \o Words(v)))

\* All words must be numbers; the count grows only when all were read.
set_config_init_groups(v, c) ==
    LET ids == Words(v)
    IN  CASE v = <<>> -> Ok(Put(c, "lxc.init.groups", <<>>))
          [] v # <<>> /\ \E i \in DOMAIN ids : ~IsInt(<<ids[i]>>) -> Fail(c)
          [] OTHER -> Ok(Put(c, "lxc.init.groups", c["lxc.init.groups"] \o ids))

\* NAME=value, or NAME alone for what the caller's environment holds now.
set_config_environment_impl(k, v, c) ==
    CASE v = <<>>  -> Ok(Put(c, k, <<>>))
      [] Len(v) > 1 -> Ok(Add(c, k, v))
      [] Len(v) = 1 /\ v[1] \in DOMAIN Environ -> Ok(Add(c, k, <<v[1], "=", Environ[v[1]]>>))
      [] OTHER -> Fail(c)

set_config_apparmor_raw(v, c) ==
    IF "apparmor" \notin Built THEN Fail(c)
    ELSE Ok(IF v = <<>> THEN Put(c, "lxc.apparmor.raw", <<>>) ELSE Add(c, "lxc.apparmor.raw", v))

set_config_mount(v, c) == Ok(IF v = <<>> THEN Put(c, "lxc.mount.entry", <<>>) ELSE Add(c, "lxc.mount.entry", v))

----------------------------------------------------------------------------
(* The keys with a free subkey: lists of <<subkey, value>>.                  *)

Families == {"lxc.cgroup", "lxc.cgroup2", "lxc.prlimit", "lxc.sysctl", "lxc.proc"}
Sub(fam, k) == After(fam \o ".", k)

\* lxc_clear_cgroups, _limits, _sysctls, _procs: the whole list or one subkey's entries.
ClearFamily(fam, k, c) ==
    CASE k = fam                 -> Ok(Put(c, fam, <<>>))
      [] IsPre(fam \o ".", k) -> Ok(Put(c, fam, SelectSeq(c[fam], LAMBDA e : e[1] # Sub(fam, k))))
      [] OTHER                   -> Fail(c)

\* Entries of cgroups and of proc accumulate, even for one subkey.
AppendFamily(fam, k, v, c) ==
    IF ~IsPre(fam \o ".", k) \/ Sub(fam, k) = "" THEN Fail(c) ELSE Ok(Add(c, fam, <<Sub(fam, k), v>>))

\* A limit or a sysctl that is already listed is replaced in place.
ReplaceFamily(fam, k, v, c) ==
    LET here == {i \in DOMAIN c[fam] : c[fam][i][1] = Sub(fam, k)}
    IN  IF here = {} THEN Ok(Add(c, fam, <<Sub(fam, k), v>>))
        ELSE Ok(Put(c, fam, [i \in DOMAIN c[fam] |->
                    IF i = CHOOSE j \in here : \A h \in here : j <= h THEN <<Sub(fam, k), v>> ELSE c[fam][i]]))

__set_config_cgroup_controller(fam, k, v, c) ==
    IF v = <<>> THEN ClearFamily(fam, k, c) ELSE AppendFamily(fam, k, v, c)
set_config_proc(k, v, c) ==
    IF v = <<>> THEN ClearFamily("lxc.proc", k, c) ELSE AppendFamily("lxc.proc", k, v, c)
set_config_sysctl(k, v, c) ==
    CASE v = <<>> -> ClearFamily("lxc.sysctl", k, c)
      [] v # <<>> /\ (~IsPre("lxc.sysctl.", k) \/ Sub("lxc.sysctl", k) = "") -> Fail(c)
      [] OTHER -> ReplaceFamily("lxc.sysctl", k, v, c)
\* "soft:hard"; one value stands for both.
IsLimit(t) == t = "unlimited" \/ IsInt(<<t>>)
set_config_prlimit(k, v, c) ==
    CASE v = <<>> -> ClearFamily("lxc.prlimit", k, c)
      [] v # <<>> /\ (~IsPre("lxc.prlimit.", k) \/ ~IsLimit(v[1]) \/ ~IsLimit(v[Len(v)])) -> Fail(c)
      [] OTHER -> ReplaceFamily("lxc.prlimit", k, <<v[1], v[Len(v)]>>, c)

----------------------------------------------------------------------------
(* Keys with a state of their own.                                          *)

\* A mapping <<type, nsid, hostid, range>>; root_uid and root_gid are the
\* positions of the first one that maps the container's root, 0 for none.
IsIdmap(v) == LET w == Words(v) IN Len(w) = 4 /\ w[1] \in {"u", "g"} /\ \A i \in 2 .. 4 : IsInt(<<w[i]>>)
\* Mutant: clearing the mappings keeps the pointers to the root's mapping.
set_config_idmapsStale(v, c) ==
    LET w == Words(v)
        d == Add(c, "lxc.idmap", w)
        root == [u |-> "root_nsuid_map", g |-> "root_nsgid_map"]
    IN  CASE v = <<>> -> Ok(Put(c, "lxc.idmap", <<>>))
          [] v # <<>> /\ ~IsIdmap(v) -> Fail(c)
          [] OTHER -> Ok(IF w[2] = "0" /\ c[root[w[1]]] = 0
                         THEN Put(d, root[w[1]], Len(d["lxc.idmap"])) ELSE d)
set_config_idmaps(v, c) ==
    LET w == Words(v)
        d == Add(c, "lxc.idmap", w)
        root == [u |-> "root_nsuid_map", g |-> "root_nsgid_map"]
    IN  CASE v = <<>> -> Ok([c EXCEPT !["lxc.idmap"] = <<>>, !["root_nsuid_map"] = 0, !["root_nsgid_map"] = 0])
          [] v # <<>> /\ ~IsIdmap(v) -> Fail(c)
          [] OTHER -> Ok(IF w[2] = "0" /\ c[root[w[1]]] = 0
                         THEN Put(d, root[w[1]], Len(d["lxc.idmap"])) ELSE d)

\* The automatic mounts: each token replaces the bits of its own mask.
AutoMounts ==
    Keys({"proc", "proc:mixed"}, [part |-> "proc", flag |-> "proc:mixed"])
    @@ ("proc:rw" :> [part |-> "proc", flag |-> "proc:rw"])
    @@ Keys({"sys", "sys:mixed"}, [part |-> "sys", flag |-> "sys:mixed"])
    @@ ("sys:ro" :> [part |-> "sys", flag |-> "sys:ro"])
    @@ Keys({"cgroup2", "cgroup2:force"}, [part |-> "cgroup", flag |-> "cgroup2:rw:force"])
    @@ ("cgroup" :> [part |-> "cgroup", flag |-> "cgroup"])
    @@ ("cgroup:ro" :> [part |-> "cgroup", flag |-> "cgroup:ro"])
    @@ ("cgroup:ro:force" :> [part |-> "cgroup", flag |-> "cgroup:ro:force"])
    @@ ("shmounts:/h" :> [part |-> "shmounts", flag |-> "/h:/dev/.lxc-mounts"])
NoMounts == [proc |-> "", sys |-> "", cgroup |-> "", shmounts |-> ""]

\* Words are applied one by one: those before a bad one stay applied.
ApplyWords(v, c, step(_, _)) ==
    FoldLeft(LAMBDA r, w : IF r.ok THEN step(w, r.c) ELSE r, Ok(c), Words(v))

set_config_mount_auto(v, c) ==
    LET one(w, d) == IF w \notin DOMAIN AutoMounts THEN Fail(d)
                     ELSE Ok([d EXCEPT !["auto_mounts"][AutoMounts[w].part] = AutoMounts[w].flag])
    IN  IF v = <<>> THEN Ok(Put(c, "auto_mounts", NoMounts)) ELSE ApplyWords(v, c, one)

\* Capabilities to keep or to drop share one list; caps.keep says which it is.
Caps == {"cap_a", "cap_b"}
lxc_clear_config_caps(c) == [c EXCEPT !["caps.list"] = <<>>, !["caps.keep"] = FALSE]
add_cap_entry(v, c, keep) ==
    LET one(w, d) == CASE w = "none" /\ keep  -> Ok(lxc_clear_config_caps(d))
                       [] w = "none" /\ ~keep -> Fail(d)
                       [] w # "none"          -> IF w \in Caps THEN Ok(Add(d, "caps.list", w)) ELSE Fail(d)
    IN  ApplyWords(v, c, one)
set_config_cap_keep(v, c) ==
    CASE v = <<>> -> Ok(lxc_clear_config_caps(c))
      [] v # <<>> /\ ~c["caps.keep"] /\ c["caps.list"] # <<>> -> Fail(c)
      [] OTHER -> LET r == add_cap_entry(v, c, TRUE)
                  IN  IF r.ok THEN Ok(Put(r.c, "caps.keep", TRUE)) ELSE r
set_config_cap_drop(v, c) ==
    CASE v = <<>> -> Ok(lxc_clear_config_caps(c))
      [] v # <<>> /\ c["caps.keep"] -> Fail(c)
      [] OTHER -> LET r == add_cap_entry(v, c, FALSE)
                  IN  IF r.ok THEN Ok(Put(r.c, "caps.keep", FALSE)) ELSE r

\* Namespaces to clone or to keep: one of the two sets stays empty.
Namespaces == {"net", "user"}
SetNamespaces(f, other, v, c) ==
    LET one(w, d) == IF w \in Namespaces THEN Ok([d EXCEPT ![f] = @ \cup {w}]) ELSE Fail(d)
    IN  CASE v = <<>> -> Ok(Put(c, f, {}))
          [] v # <<>> /\ c[other] # {} -> Fail(c)
          [] OTHER -> ApplyWords(v, c, one)
set_config_namespace_clone(v, c) == SetNamespaces("ns_clone", "ns_keep", v, c)
set_config_namespace_keep(v, c) == SetNamespaces("ns_keep", "ns_clone", v, c)
set_config_namespace_share(k, v, c) ==
    LET ns == After("lxc.namespace.share.", k)
    IN  IF ns \notin Namespaces THEN Fail(c) ELSE Ok([c EXCEPT !["ns_share"][ns] = v])

\* An offset <<number, unit>>: seconds and nanoseconds are stored apart, and
\* setting the one leaves the other.
Seconds == [h |-> 3600, m |-> 60, s |-> 1]
Nanos == [ms |-> 1000000, us |-> 1000, ns |-> 1]
SetOffset(k, v, c) ==
    CASE v = <<>> -> Ok(Put(c, k, [s |-> 0, ns |-> 0]))
      [] Len(v) = 2 /\ IsInt(<<v[1]>>) /\ v[2] \in DOMAIN Seconds ->
            Ok([c EXCEPT ![k].s = ToInt(<<v[1]>>) * Seconds[v[2]]])
      [] Len(v) = 2 /\ IsInt(<<v[1]>>) /\ v[2] \in DOMAIN Nanos ->
            Ok([c EXCEPT ![k].ns = ToInt(<<v[1]>>) * Nanos[v[2]]])
      [] OTHER -> Fail(c)
set_config_time_offset_boot(v, c) == SetOffset("lxc.time.offset.boot", v, c)
set_config_time_offset_monotonic(v, c) == SetOffset("lxc.time.offset.monotonic", v, c)

\* "<storage type>:<path>" sets the type too; a path alone leaves it.
set_config_rootfs_path(v, c) ==
    LET typed == Len(v) > 1 /\ v[2] = ":"
    IN  CASE v = <<>> -> Ok(Put(c, "lxc.rootfs.path", <<>>))
          [] typed    -> Ok([c EXCEPT !["bdev_type"] = <<v[1]>>,
                                      !["lxc.rootfs.path"] = lxc_path_simplify(SubSeq(v, 3, Len(v)))])
          [] OTHER    -> Ok(Put(c, "lxc.rootfs.path", lxc_path_simplify(v)))

----------------------------------------------------------------------------
(* Clearing a key.  For most keys that is what the empty value does.        *)

\* What differs from the empty value; lxc.tty.max clears another field.
ClearedTo == ("lxc.arch" :> "minus one") @@ ("lxc.autodev" :> 1) @@ ("lxc.mount.fstab" :> <<>>)
ClrScalar(k, c) ==
    CASE k \in DOMAIN ClearedTo    -> Ok(Put(c, k, ClearedTo[k]))
      [] k = "lxc.tty.max"         -> Ok(Put(c, "ttys.tty", <<>>))
      [] k = "lxc.seccomp.profile" -> Ok(Put(c, k, <<>>))
      [] OTHER                     -> SetScalar(k, <<>>, c)

----------------------------------------------------------------------------
(* Printing a key: the lines that the get callbacks produce.                *)

Null == "(null)"
Line(v) == IF v = <<>> THEN <<>> ELSE <<v>>
Got(lines) == [ok |-> TRUE, out |-> lines]
NotGot == [ok |-> FALSE, out |-> <<>>]

\* Numbers are always printed; the cgroup directories print a NULL as such.
get_config_personality(x) ==
    Got(CASE x = "linux32" -> <<<<"i686">>>> [] x = "linux" -> <<<<"x86_64">>>> [] OTHER -> <<>>)
GetCgroupDir(x) == Got(<<IF x = <<>> THEN <<Null>> ELSE x>>)
get_config_log_level(x) == Got(<<IF x < NotSet THEN <<LogLevels[x + 1]>> ELSE <<"NOTSET">>>>)
lxc_get_conf_int(x) == Got(<<Shown(x)>>)
lxc_get_conf_str(x) == Got(Line(x))
GetDescribed(s, x) ==
    CASE "needs" \in DOMAIN s /\ s.needs \notin Built -> NotGot
      [] s.t \in {"num", "int", "signal", "size", "tmpfs"} -> lxc_get_conf_int(x)
      [] s.t \in {"reldir", "name"} -> GetCgroupDir(x)
      [] s.t = "arch"  -> get_config_personality(x)
      [] s.t = "level" -> get_config_log_level(x)
      [] OTHER -> lxc_get_conf_str(x)
GetScalar(k, c) == GetDescribed(Scalars[k], c[k])

\* One entry of a family, or all of them with their keys.
GetFamily(fam, k, c, shown(_)) ==
    CASE k = fam -> Got([i \in DOMAIN c[fam] |-> <<fam \o "." \o c[fam][i][1]>> \o shown(c[fam][i][2])])
      [] IsPre(fam \o ".", k) ->
            LET mine == SelectSeq(c[fam], LAMBDA e : e[1] = Sub(fam, k))
            IN  Got([i \in DOMAIN mine |-> shown(mine[i][2])])
      [] OTHER -> NotGot
__get_config_cgroup_controller(fam, k, c) == GetFamily(fam, k, c, LAMBDA v : v)
get_config_sysctl(k, c) == GetFamily("lxc.sysctl", k, c, LAMBDA v : v)
get_config_proc(k, c) == GetFamily("lxc.proc", k, c, LAMBDA v : v)
get_config_prlimit(k, c) == GetFamily("lxc.prlimit", k, c, LAMBDA v : IF v[1] = v[2] THEN <<v[1]>> ELSE v)

\* A forced or a unified cgroup mount and shared mounts are not printed.
get_config_mount_auto(c) ==
    LET m == c["auto_mounts"]
        printed == SelectSeq(<<m.proc, m.sys, m.cgroup>>,
                             LAMBDA t : t \notin {"", "cgroup:ro:force", "cgroup2:rw:force"})
    IN  Got(Line(printed))

GetNamespaces(S) == Got(SelectSeq(<<<<"net">>, <<"user">>>>, LAMBDA l : l[1] \in S))
\* Mutant: nanoseconds are printed as if they were seconds.
GetOffsetSeconds(o) == Got(<<<<ToString(IF o.s # 0 THEN o.s ELSE o.ns), "s">>>>)
GetOffset(o) == Got(<<IF o.s # 0 THEN <<ToString(o.s), "s">> ELSE <<ToString(o.ns), "ns">>>>)
get_config_namespace_share(k, c) ==
    LET ns == After("lxc.namespace.share.", k)
    IN  IF ns \notin Namespaces THEN NotGot
        ELSE Got(<<IF c["ns_share"][ns] = <<>> THEN <<Null>> ELSE c["ns_share"][ns]>>)
\* The list keys print one entry a line, the groups of init one line of all.
get_config_idmaps(c) == Got(c["lxc.idmap"])
GetCaps(c) == Got([i \in DOMAIN c["caps.list"] |-> <<c["caps.list"][i]>>])
get_config_hooks(k, c) == IF k = "lxc.hook" THEN NotGot ELSE Got(c[k])
get_config_apparmor_raw(c) == IF "apparmor" \in Built THEN Got(c["lxc.apparmor.raw"]) ELSE NotGot
get_config_init_groups(c) == Got(Line(c["lxc.init.groups"]))
get_config_group(c) == Got([i \in DOMAIN c["lxc.group"] |-> <<c["lxc.group"][i]>>])
get_config_environment_impl(k, c) == Got(c[k])

----------------------------------------------------------------------------
(* Dispatch.  A strict entry matches its name, any other entry every key    *)
(* that starts with its name; the first match is taken.                     *)

NonStrict == Families \cup {"lxc.namespace.share.", "lxc.net."}
config_jump_table ==
    <<"lxc.arch", "lxc.apparmor.profile", "lxc.apparmor.allow_incomplete", "lxc.apparmor.allow_nesting",
      "lxc.apparmor.raw", "lxc.autodev.tmpfs.size", "lxc.autodev", "lxc.cap.drop", "lxc.cap.keep",
      "lxc.cgroup2", "lxc.cgroup.dir.monitor.pivot", "lxc.cgroup.dir.monitor",
      "lxc.cgroup.dir.container.inner", "lxc.cgroup.dir.container", "lxc.cgroup.dir",
      "lxc.cgroup.relative", "lxc.cgroup", "lxc.console.buffer.size", "lxc.console.logfile",
      "lxc.console.path", "lxc.console.rotate", "lxc.console.size", "lxc.sched.core",
      "lxc.environment.runtime", "lxc.environment.hooks", "lxc.environment", "lxc.ephemeral",
      "lxc.execute.cmd", "lxc.group", "lxc.hook.autodev", "lxc.hook.clone", "lxc.hook.destroy",
      "lxc.hook.mount", "lxc.hook.post-stop", "lxc.hook.pre-mount", "lxc.hook.pre-start",
      "lxc.hook.start", "lxc.hook.start-host", "lxc.hook.stop", "lxc.hook.version", "lxc.hook",
      "lxc.idmap", "lxc.include", "lxc.init.cmd", "lxc.init.gid", "lxc.init.groups", "lxc.init.uid",
      "lxc.init.cwd", "lxc.keyring.session", "lxc.log.file", "lxc.log.level", "lxc.log.syslog",
      "lxc.monitor.unshare", "lxc.monitor.signal.pdeath", "lxc.mount.auto", "lxc.mount.entry",
      "lxc.mount.fstab", "lxc.namespace.clone", "lxc.namespace.keep", "lxc.namespace.share.",
      "lxc.time.offset.boot", "lxc.time.offset.monotonic", "lxc.net.", "lxc.net", "lxc.no_new_privs",
      "lxc.prlimit", "lxc.pty.max", "lxc.rootfs.managed", "lxc.rootfs.mount", "lxc.rootfs.options",
      "lxc.rootfs.path", "lxc.seccomp.allow_nesting", "lxc.seccomp.notify.cookie",
      "lxc.seccomp.notify.proxy", "lxc.seccomp.profile", "lxc.selinux.context.keyring",
      "lxc.selinux.context", "lxc.signal.halt", "lxc.signal.reboot", "lxc.signal.stop",
      "lxc.start.auto", "lxc.start.delay", "lxc.start.order", "lxc.tty.dir", "lxc.tty.max",
      "lxc.uts.name", "lxc.sysctl", "lxc.proc">>
match_config_item(e, k) == IF e \in NonStrict THEN IsPre(e, k) ELSE e = k
Unsupported == "unsupported"
lxc_get_config(k) ==
    LET hits == {i \in DOMAIN config_jump_table : match_config_item(config_jump_table[i], k)}
    IN  IF hits = {} THEN Unsupported ELSE config_jump_table[CHOOSE i \in hits : \A h \in hits : i <= h]

\* The subkeys that get_keys lists for a key that is no network device.
lxc_list_subkeys ==
    ("lxc.apparmor" :> {"allow_incomplete", "allow_nesting", "profile", "raw"}) @@ ("lxc.cgroup" :> {"dir"})
    @@ ("lxc.selinux" :> {"context", "context.keyring"}) @@ ("lxc.mount" :> {"auto", "entry", "fstab"})
    @@ ("lxc.rootfs" :> {"mount", "options", "path"}) @@ ("lxc.uts" :> {"name"}) @@ ("lxc.cap" :> {"drop", "keep"})
    @@ ("lxc.hook" :> {"autodev", "autodevtmpfssize", "clone", "destroy", "mount", "post-stop", "pre-mount",
                       "pre-start", "start-host", "start", "stop"})
    @@ ("lxc.console" :> {"logfile", "path"}) @@ ("lxc.environment" :> {"runtime", "hooks"})
    @@ ("lxc.seccomp" :> {"profile"}) @@ ("lxc.signal" :> {"halt", "reboot", "stop"})
    @@ ("lxc.start" :> {"auto", "delay", "order"}) @@ ("lxc.monitor" :> {"unshare"}) @@ ("lxc.keyring" :> {"session"})

----------------------------------------------------------------------------
(* lxc_conf_init: the configuration before any key is set.                  *)

NonZero == ("lxc.arch" :> "unchanged") @@ ("lxc.autodev" :> 1) @@ ("lxc.rootfs.managed" :> 1)
           @@ ("lxc.rootfs.mount" :> <<"/", "lxcrootfs">>) @@ ("lxc.monitor.signal.pdeath" :> 9)
           @@ ("lxc.log.level" :> NotSet)
Zeroed == [k \in DOMAIN Scalars |-> IF Scalars[k].t \in {"num", "int", "signal", "size", "tmpfs", "level"}
                                    THEN 0 ELSE <<>>]
OtherFields ==
    Keys(Lists \cup Families \cup {"caps.list", "lxc.idmap", "lxc.rootfs.path", "bdev_type", "ttys.tty", "netdevs"}, <<>>)
    @@ ("caps.keep" :> FALSE) @@ ("auto_mounts" :> NoMounts)
    @@ Keys({"ns_clone", "ns_keep"}, {}) @@ ("ns_share" :> [n \in Namespaces |-> <<>>])
    @@ Keys({"root_nsuid_map", "root_nsgid_map"}, 0)
    @@ Keys({"lxc.time.offset.boot", "lxc.time.offset.monotonic"}, [s |-> 0, ns |-> 0])
lxc_conf_init == NonZero @@ Zeroed @@ OtherFields
=============================================================================
