----------------------------- MODULE Container -----------------------------
(* The container object of the API (lxccontainer.c) and what its calls leave *)
(* on disk: create with its `partial' mark, destroy, clone, snapshot,        *)
(* restore, rename and the two dependency files, lxc_rdepends of a snapshot  *)
(* clone and lxc_snapshots of its base.  Independent programs run the calls  *)
(* at the same time, each on an object of its own, so that the in-memory     *)
(* lock of an object never excludes anybody; what they share is the disk and *)
(* the lock file of every container (lxclock.c).  Any of them may be killed  *)
(* between two steps, and any call of the system that may fail may fail,     *)
(* once in a call of the API.                                                *)
EXTENDS Naturals, Sequences, FiniteSets, TLC

CONSTANTS
    Proc,     \* the programs
    Top,      \* names under the lxcpath
    MaxSnap,  \* snapshots of a container that fit in the model
    Starts    \* the starting points: [disk |-> ..., plan |-> calls per program]

VARIABLES
    disk,     \* what is on disk under a name
    slock,    \* the holder of a container's lock file, or Free
    proc      \* the calls the programs run

vars == <<disk, slock, proc>>

\* <<t, 0>> is the container t, <<t, i>> its snapshot t/snaps/snap(i-1).
Name == Top \X (0 .. MaxSnap)
NoName == <<"", 0>>
Free == "free"
SnapsOf(n) == {s \in Name : s[1] = n[1] /\ s[2] > 0 /\ n[2] = 0}

\* A configuration: the backing store of lxc.rootfs.path ("none" when the item
\* is unset) and the container whose root file system is an overlay's lower
\* layer; `there' says that the file exists.
Absent == [there |-> FALSE, root |-> "none", low |-> NoName]
Stock == [Absent EXCEPT !.there = TRUE]

\* rootfs: <name>/rootfs exists.  data: it (or the overlay's delta directory)
\* holds the file system.  snaps: the directory of its snapshots
\* is there.  snapshots: lxc_snapshots, in the old format a number, in the new
\* one a list.
Nothing == [dir |-> FALSE, cfg |-> Absent, rootfs |-> FALSE, data |-> FALSE,
            partial |-> Free, run |-> FALSE, snaps |-> FALSE, rdepends |-> <<>>,
            snapshots |-> [count |-> 0, list |-> <<>>]]

Quiet == [pc |-> "idle", plan |-> <<>>, op |-> "none", n |-> NoName, m |-> NoName,
          tmpl |-> FALSE, conf |-> Absent, managed |-> TRUE, copied |-> FALSE,
          who |-> NoName, snap |-> FALSE, restore |-> FALSE, todo |-> <<>>,
          inc |-> FALSE, left |-> {}, cont |-> "idle", ret |-> FALSE]

Defined(n) == disk[n].cfg.there
HasSnapshots(n) == \E s \in SnapsOf(n) : disk[s].dir
\* Mutant: only the old format is understood.
HasFsSnapshotsOld(n) == disk[n].snapshots.count > 0
HasFsSnapshots(n) == disk[n].snapshots.count > 0 \/ disk[n].snapshots.list # <<>>
Lock(p, n) == slock[n] = Free /\ slock' = [slock EXCEPT ![n] = p]
Unlock(n) == slock' = [slock EXCEPT ![n] = Free]
NoLock == UNCHANGED slock
Put(n, r) == disk' = [disk EXCEPT ![n] = r @@ @]
NoDisk == UNCHANGED disk
Local(p, r) == proc' = [proc EXCEPT ![p] = r @@ @]
Return(p, b) == Local(p, [pc |-> "done", ret |-> b])
Fail(p) == NoDisk /\ NoLock /\ Return(p, FALSE)

-----------------------------------------------------------------------------
\* lxc_container_new: the configuration is loaded under the lock file.  A
\* partial mark counts as a creation that is going on, held or not: the query
\* of ongoing_create (F_OFD_GETLK) succeeds in both cases, so that it never
\* answers "incomplete".
ongoing_create(n) == IF disk[n].partial = Free THEN "success" ELSE "ongoing"

lxc_container_new(p) ==
    /\ proc[p].pc = "idle" /\ proc[p].plan # <<>>
    /\ LET c == Head(proc[p].plan) IN
         /\ Defined(c.n) => slock[c.n] = Free
         /\ Local(p, [pc |-> c.op, op |-> c.op, n |-> c.n, m |-> c.m,
                      tmpl |-> c.tmpl, conf |-> disk[c.n].cfg, managed |-> TRUE,
                      copied |-> FALSE, snap |-> c.snap, restore |-> FALSE])
    /\ NoDisk /\ NoLock

lxc_container_put(p) ==
    /\ proc[p].pc = "done"
    /\ LET rest == Tail(proc[p].plan)
       IN  proc' = [proc EXCEPT ![p] = [Quiet EXCEPT !.plan = rest,
                                        !.pc = IF rest = <<>> THEN "gone" ELSE "idle"]]
    /\ NoDisk /\ NoLock

\* do_lxcapi_start up to the handler: the gate in front of a half made container.
do_lxcapi_start(p) ==
    LET n == proc[p].n IN
    /\ proc[p].pc = "start"
    /\ IF proc[p].conf.there /\ ongoing_create(n) = "success"
       THEN Put(n, [run |-> TRUE]) /\ NoLock /\ Return(p, TRUE)
       ELSE Fail(p)

do_lxcapi_stop(p) ==
    /\ proc[p].pc = "stop"
    /\ Put(proc[p].n, [run |-> FALSE]) /\ NoLock /\ Return(p, TRUE)

-----------------------------------------------------------------------------
\* save_config: the directory is made before the lock is taken, so a destroyer
\* that holds the lock may remove it again, and the open then fails.
SaveConfig(n, conf) == Put(n, [cfg |-> conf])

\* __lxcapi_create up to the `partial' mark.
CreateChecks(p) ==
    LET n == proc[p].n
        conf == IF proc[p].conf.there THEN proc[p].conf ELSE Stock
        exists == conf.root # "none" /\ disk[n].rootfs
    IN  /\ proc[p].pc = "create"
        /\ NoLock
        /\ IF Defined(n) /\ exists /\ proc[p].tmpl
           THEN NoDisk /\ Return(p, FALSE)
           ELSE /\ Put(n, [dir |-> TRUE])
                /\ Local(p, [conf |-> conf, managed |-> conf.root = "none",
                             pc |-> CASE conf.root = "none" /\ ~proc[p].tmpl -> "bare"
                                      [] conf.root # "none" /\ ~exists -> "out"
                                      [] Defined(n) /\ exists /\ ~proc[p].tmpl -> "bare"
                                      [] OTHER -> "partial"])

\* Only the configuration is wanted.  A failed save is forgiven when the
\* container existed, and not when it is new.
CreateBare(p) ==
    LET n == proc[p].n IN
    /\ proc[p].pc = "bare" /\ slock[n] = Free /\ NoLock
    /\ IF disk[n].dir
       THEN SaveConfig(n, proc[p].conf) /\ Return(p, TRUE)
       ELSE /\ NoDisk
            /\ IF proc[p].conf.root = "none" THEN Local(p, [pc |-> "out"]) ELSE Return(p, TRUE)

\* O_CREAT | O_EXCL and a lock that lasts as long as the creator.
create_partial(p) ==
    LET n == proc[p].n IN
    /\ proc[p].pc = "partial" /\ NoLock
    /\ IF disk[n].dir /\ disk[n].partial = Free
       THEN Put(n, [partial |-> p]) /\ Local(p, [pc |-> "storage"])
       ELSE NoDisk /\ Local(p, [pc |-> "out"])

\* The child makes the storage and sets lxc.rootfs.path ...
do_storage_create(p) ==
    LET n == proc[p].n IN
    /\ proc[p].pc = "storage" /\ NoLock
    /\ \/ /\ Put(n, [dir |-> TRUE, rootfs |-> TRUE])
          /\ Local(p, [pc |-> "save"])
       \/ NoDisk /\ Local(p, [pc |-> "unmark", ret |-> FALSE])

\* ... and saves the configuration.  When it cannot, the parent will not see
\* the storage in the configuration, so the child destroys it.
StorageSave(p) ==
    LET n == proc[p].n
        conf == IF proc[p].conf.root = "none" THEN [proc[p].conf EXCEPT !.root = "dir"]
                                              ELSE proc[p].conf
    IN  /\ proc[p].pc = "save" /\ slock[n] = Free /\ NoLock
        /\ \/ disk[n].dir /\ SaveConfig(n, conf) /\ Local(p, [pc |-> "template"])
           \/ /\ Put(n, [rootfs |-> FALSE, data |-> FALSE])
              /\ Local(p, [pc |-> "unmark", ret |-> FALSE])

\* The parent reloads the configuration, without the lock, and runs the
\* template, which may fail.
create_run_template(p) ==
    LET n == proc[p].n IN
    /\ proc[p].pc = "template" /\ NoLock
    /\ \/ /\ Defined(n) /\ Put(n, [data |-> disk[n].rootfs])
          /\ Local(p, [conf |-> disk[n].cfg, pc |-> "header"])
       \/ NoDisk /\ Local(p, [conf |-> IF Defined(n) THEN disk[n].cfg ELSE Stock,
                    pc |-> "unmark", ret |-> FALSE])

\* The loaded configuration is dropped, the header prepended to the file, the
\* file loaded again.  A header that cannot be written finds no configuration
\* in the object: the program dies on the null pointer once the mark is gone.
CreateReload(p) ==
    LET n == proc[p].n IN
    /\ proc[p].pc = "header" /\ NoDisk /\ NoLock
    /\ \/ Defined(n) /\ Local(p, [conf |-> disk[n].cfg, pc |-> "unmark", ret |-> TRUE])
       \/ proc[p].tmpl /\ Local(p, [pc |-> "unmark_dying", ret |-> FALSE])

remove_partial(p) ==
    LET n == proc[p].n IN
    /\ proc[p].pc \in {"unmark", "unmark_dying"}
    /\ Put(n, [partial |-> Free]) /\ NoLock
    /\ Local(p, IF proc[p].pc = "unmark_dying" THEN [pc |-> "dead"]
                ELSE IF proc[p].ret THEN [pc |-> "done"] ELSE [pc |-> "out"])

\* What failed is destroyed, except storage that the caller passed in.
CreateOut(p) ==
    /\ proc[p].pc = "out" /\ NoDisk /\ NoLock
    /\ Local(p, [pc |-> "d_lock", who |-> proc[p].n, cont |-> "failed"])

-----------------------------------------------------------------------------
\* container_destroy, of the container proc[p].who with the configuration the
\* object holds: the lock is taken and kept to the end.
DestroyLock(p) ==
    LET n == proc[p].who IN
    /\ proc[p].pc = "d_lock" /\ NoDisk
    /\ IF Defined(n) THEN Lock(p, n) /\ Local(p, [pc |-> "d_check"])
                     ELSE NoLock /\ Local(p, [pc |-> proc[p].cont, ret |-> FALSE])

\* Not stopped, a failing hook, storage that cannot be removed: the call ends
\* with an error.  Storage that is not managed is left as it is.
DestroyStorage(p) ==
    LET n == proc[p].who IN
    /\ proc[p].pc = "d_check"
    /\ \/ NoDisk /\ Unlock(n) /\ Local(p, [pc |-> proc[p].cont, ret |-> FALSE])
       \/ /\ ~disk[n].run /\ ~proc[p].managed /\ NoDisk
          /\ Unlock(n) /\ Local(p, [pc |-> proc[p].cont, ret |-> TRUE])
       \/ /\ ~disk[n].run /\ proc[p].managed /\ NoLock
          /\ IF proc[p].conf.root = "none" THEN NoDisk
             ELSE Put(n, [data |-> FALSE, rootfs |-> proc[p].conf.root = "overlay" /\ disk[n].rootfs])
          /\ Local(p, [pc |-> "rdeps", todo |-> disk[n].rdepends, inc |-> FALSE])

\* Mutant: a removal that fails returns without unlocking.
DestroyDirLocked(p) ==
    LET n == proc[p].who IN
    /\ proc[p].pc = "d_rm" /\ NoDisk /\ NoLock
    /\ Local(p, [pc |-> proc[p].cont, ret |-> FALSE])
\* Everything below the directory but a snaps directory that is not empty.
lxc_rmdir_onedev(n) ==
    [Nothing EXCEPT !.run = disk[n].run, !.snaps = HasSnapshots(n), !.dir = HasSnapshots(n)]

\* The bound on faults: one in a call.
FaultOnce(p) == proc[p].cont \notin {"failed", "c_failed"}

\* The directory goes, except for snapshots in it (lxc_rmdir_onedev with
\* "snaps" excluded); restoring an overlay over itself only removes the
\* configuration file.  A removal that fails may have removed that file or not;
\* it does not fail while the call cleans up after an earlier fault (FaultOnce).
DestroyDir(p) ==
    LET n == proc[p].who IN
    /\ proc[p].pc = "d_rm" /\ Unlock(n)
    /\ \/ /\ IF proc[p].restore THEN Put(n, [cfg |-> Absent])
             ELSE Put(n, lxc_rmdir_onedev(n))
          /\ Local(p, [pc |-> proc[p].cont, ret |-> TRUE])
       \/ /\ FaultOnce(p)
          /\ \E c \in {disk[n].cfg, Absent} : Put(n, [cfg |-> c])
          /\ Local(p, [pc |-> proc[p].cont, ret |-> FALSE])

\* do_lxcapi_destroy: the dependents are looked at before the lock is taken.
do_lxcapi_destroy(p) ==
    LET n == proc[p].n IN
    /\ proc[p].pc = "destroy" /\ NoDisk /\ NoLock
    /\ IF ~Defined(n) \/ HasSnapshots(n) \/ HasFsSnapshots(n)
       THEN Return(p, FALSE)
       ELSE Local(p, [pc |-> "d_lock", who |-> n, cont |-> "done"])

-----------------------------------------------------------------------------
\* mod_rdep: the entry of m in the lxc_snapshots of a base.  A file in the old
\* format stays in it until its number is 0; removing an entry removes every
\* copy of it.
mod_rdep(f, m, inc) ==
    IF f.count > 0 THEN [f EXCEPT !.count = IF inc THEN @ + 1 ELSE @ - 1]
    ELSE [f EXCEPT !.list = IF inc THEN Append(@, m) ELSE SelectSeq(@, LAMBDA x : x # m)]

\* mod_all_rdeps: one base after the other, each under its own lock, while the
\* lock of the container that is destroyed is held.  The new file appears in
\* whatever directory the base still has.
mod_all_rdeps(p) ==
    /\ proc[p].pc = "rdeps" /\ NoLock
    /\ IF proc[p].todo = <<>>
       THEN NoDisk /\ Local(p, [pc |-> IF proc[p].inc THEN "hooks" ELSE "d_rm"])
       ELSE LET b == Head(proc[p].todo) IN
            /\ slock[b] = Free
            /\ IF disk[b].dir
               THEN Put(b, [snapshots |-> mod_rdep(disk[b].snapshots, proc[p].who, proc[p].inc)])
               ELSE NoDisk
            /\ Local(p, [todo |-> Tail(proc[p].todo)])

-----------------------------------------------------------------------------
\* do_lxcapi_clone of proc[p].n to proc[p].m.  Nothing on disk is locked: the
\* object's own lock does not stop another program.
CloneCheck(p) ==
    LET r == proc[p] IN
    /\ r.pc = "clone" /\ NoDisk /\ NoLock
    /\ IF Defined(r.n) /\ ~disk[r.n].run /\ ~Defined(r.m)
       THEN Local(p, [pc |-> "c_config"]) ELSE Local(p, [pc |-> "c_failed"])

\* The new configuration is the old one without the root file system.
CloneConfig(p) ==
    LET r == proc[p] IN
    /\ r.pc = "c_config" /\ NoLock
    /\ Put(r.m, [dir |-> TRUE, cfg |-> Stock])
    /\ Local(p, [pc |-> "c_mkdir"])

\* A rootfs directory that is already there stops the clone unless an overlay
\* is restored.  The call then returns without an object for the new name,
\* and what it has written stays.
CloneMkdir(p) ==
    LET r == proc[p] IN
    /\ r.pc = "c_mkdir" /\ NoLock
    /\ IF disk[r.m].rootfs /\ ~r.restore
       THEN NoDisk /\ Local(p, [pc |-> "c_failed"])
       ELSE Put(r.m, [rootfs |-> disk[r.m].dir]) /\ Local(p, [pc |-> "c_copy"])

\* storage_copy: an overlay on a directory, an overlay on the lower layer of an
\* overlay, or a copy.  needs_rdep is dropped for an overlay and its own
\* snapshots.
NewRoot(r) ==
    IF r.snap /\ r.conf.root = "overlay" THEN r.conf
    ELSE IF r.snap /\ r.n[2] = 0 /\ r.m[2] = 0 THEN [r.conf EXCEPT !.root = "overlay", !.low = r.n]
    ELSE [r.conf EXCEPT !.root = "dir", !.low = NoName]
NeedsRdep(r) == NewRoot(r).root = "overlay"
                /\ ~(r.conf.root = "overlay" /\ r.n[1] = r.m[1])
CanCopy(r) == disk[r.n].data /\ (r.conf.root = "overlay" => r.snap)

\* Mutant: an rsync that fails goes unnoticed.
CopyUnchecked(p) ==
    LET r == proc[p] IN
    /\ r.pc = "c_copy" /\ NoLock /\ NoDisk
    /\ Local(p, [pc |-> "rdeps", todo |-> <<>>, inc |-> TRUE, who |-> r.m])
\* A file is copied only where there is none.
copy_file(old, new) == IF new = <<>> THEN old ELSE new
copy_rdepends(r) == copy_file(disk[r.n].rdepends, disk[r.m].rdepends)
add_rdepends(deps, r) == Append(deps, r.n)

\* copy_storage: lxc.rootfs.path is set in the new object, the dependencies of
\* a snapshot are copied and the new one is appended.
copy_storage(p) ==
    LET r == proc[p]
        old == IF r.snap THEN copy_rdepends(r) ELSE disk[r.m].rdepends
        deps == IF NeedsRdep(r) THEN add_rdepends(old, r) ELSE old
    IN  /\ r.pc = "c_copy" /\ NoLock
        /\ \/ /\ CanCopy(r)
              /\ Put(r.m, [data |-> TRUE, rdepends |-> deps])
              /\ Local(p, [pc |-> "rdeps", todo |-> deps, inc |-> TRUE, who |-> r.m])
           \/ NoDisk /\ Local(p, [pc |-> "c_out"])

\* copyhooks saves the configuration, whether that succeeds or not; a hook
\* without a path ends it early.
copyhooks(p) ==
    LET r == proc[p] IN
    /\ r.pc = "hooks" /\ NoLock
    /\ \/ NoDisk /\ \E next \in {"fstab", "c_out"} : Local(p, [pc |-> next])
       \/ /\ slock[r.m] = Free
          /\ IF disk[r.m].dir THEN SaveConfig(r.m, NewRoot(r)) ELSE NoDisk
          /\ Local(p, [pc |-> "fstab"])

\* copy_fstab, new hardware addresses and the paths of overlay mounts; from
\* here on the storage counts as made.
copy_fstab(p) ==
    /\ proc[p].pc = "fstab" /\ NoDisk /\ NoLock
    /\ \/ Local(p, [pc |-> "c_save", copied |-> TRUE])
       \/ Local(p, [pc |-> "c_out"])

CloneSave(p) ==
    LET r == proc[p] IN
    /\ r.pc = "c_save" /\ NoLock
    /\ \/ /\ slock[r.m] = Free /\ disk[r.m].dir
          /\ SaveConfig(r.m, NewRoot(r)) /\ Local(p, [pc |-> "c_update"])
       \/ NoDisk /\ Local(p, [pc |-> "c_out"])

\* clone_update_rootfs in a child.
CloneUpdate(p) ==
    /\ proc[p].pc = "c_update" /\ NoDisk /\ NoLock
    /\ \/ Local(p, [pc |-> "c_ok"])
       \/ Local(p, [pc |-> "c_out"])

\* The half made clone is destroyed like any container, its storage only when
\* it had been made completely.
CloneOut(p) ==
    LET r == proc[p] IN
    /\ r.pc = "c_out" /\ NoDisk /\ NoLock
    /\ IF ~Defined(r.m) \/ HasSnapshots(r.m) \/ HasFsSnapshots(r.m)
       THEN Local(p, [pc |-> "c_failed"])
       ELSE Local(p, [pc |-> "d_lock", who |-> r.m, cont |-> "c_failed", restore |-> FALSE,
                      conf |-> IF r.copied THEN NewRoot(r) ELSE Stock])

-----------------------------------------------------------------------------
\* do_lxcapi_snapshot: the first free index, then a clone into the snaps
\* directory; a directory is copied, an overlay cloned as a snapshot.
do_lxcapi_snapshot(p) ==
    LET r == proc[p]
        free == {i \in 1 .. MaxSnap : ~disk[<<r.n[1], i>>].dir}
    IN  /\ r.pc = "snapshot" /\ NoLock
        /\ IF Defined(r.n) /\ r.conf.root # "none" /\ free # {}
           THEN LET i == CHOOSE x \in free : \A y \in free : x <= y
                IN  /\ Put(r.n, [snaps |-> TRUE])
                    /\ Local(p, [pc |-> "clone", m |-> <<r.n[1], i>>,
                                 snap |-> r.conf.root = "overlay"])
           ELSE NoDisk /\ Return(p, FALSE)

\* do_lxcapi_snapshot_restore of the snapshot proc[p].m over its container,
\* which is destroyed first; its snapshots stay.
do_lxcapi_snapshot_restore(p) ==
    LET r == proc[p] IN
    /\ r.pc = "restore" /\ NoDisk /\ NoLock
    /\ IF HasFsSnapshots(r.n) \/ r.conf.root = "none" \/ ~Defined(r.m)
       THEN Return(p, FALSE)
       ELSE Local(p, [pc |-> "d_lock", who |-> r.n, cont |-> "r_clone",
                      restore |-> r.conf.root = "overlay"])

RestoreClone(p) ==
    LET r == proc[p] IN
    /\ r.pc = "r_clone" /\ NoDisk /\ NoLock
    /\ IF ~r.ret THEN Return(p, FALSE)
       ELSE Local(p, [pc |-> "clone", n |-> r.m, m |-> r.n, conf |-> disk[r.m].cfg,
                      snap |-> r.restore])

\* do_lxcapi_destroy_with_snapshots: every snapshot is tried, one that cannot
\* be destroyed fails the call, and so does a container without a snaps
\* directory.
do_lxcapi_destroy_with_snapshots(p) ==
    LET r == proc[p] IN
    /\ r.pc = "destroy_all" /\ NoDisk /\ NoLock
    /\ IF Defined(r.n) /\ disk[r.n].snaps
       THEN Local(p, [pc |-> "s_next", ret |-> TRUE, copied |-> TRUE,
                      left |-> {s \in SnapsOf(r.n) : disk[s].dir}])
       ELSE Return(p, FALSE)

remove_all_snapshots(p) ==
    LET r == proc[p]
        ok == r.copied /\ r.ret
    IN  /\ r.pc = "s_next" /\ NoLock
        /\ \/ \E s \in r.left :
                /\ NoDisk
                /\ IF ~Defined(s) \/ HasFsSnapshots(s)
                   THEN Local(p, [left |-> r.left \ {s}, copied |-> FALSE])
                   ELSE Local(p, [pc |-> "d_lock", who |-> s, cont |-> "s_next", copied |-> ok,
                                  left |-> r.left \ {s}, conf |-> disk[s].cfg])
           \/ /\ r.left = {}
              /\ Put(r.n, [snaps |-> HasSnapshots(r.n)])
              /\ IF ok THEN Local(p, [pc |-> "destroy", conf |-> disk[r.n].cfg])
                 ELSE Return(p, FALSE)

\* do_lxcapi_rename: a clone that keeps the backing store, then the old
\* container is destroyed.
do_lxcapi_rename(p) ==
    LET r == proc[p] IN
    /\ r.pc = "rename" /\ NoDisk /\ NoLock
    /\ IF HasSnapshots(r.n) \/ HasFsSnapshots(r.n) \/ r.conf.root = "none"
       THEN Return(p, FALSE) ELSE Local(p, [pc |-> "clone", snap |-> FALSE])

\* The end of the clone inside clone, snapshot, restore and rename.
CloneDone(p) ==
    LET r == proc[p] IN
    /\ r.pc = "c_ok" /\ NoDisk /\ NoLock
    /\ IF r.op = "rename" THEN Local(p, [pc |-> "d_lock", who |-> r.n, cont |-> "done"])
       ELSE Return(p, r.op # "restore" \/ Defined(r.m))

CallFailed(p) == proc[p].pc \in {"failed", "c_failed"} /\ Fail(p)

\* The program is killed: its locks go, a partial mark stays behind.
Killed(p) ==
    /\ proc[p].pc \notin {"idle", "done", "gone", "dead"}
    /\ Local(p, [pc |-> "dead"]) /\ NoDisk
    /\ slock' = [n \in Name |-> IF slock[n] = p THEN Free ELSE slock[n]]

Unused(p) == proc[p].pc = "idle" /\ proc[p].plan = <<>>
Stopped == \A p \in Proc : proc[p].pc \in {"dead", "gone"} \/ Unused(p)
Done == Stopped /\ UNCHANGED vars

Step(p) ==
    \/ lxc_container_new(p) \/ lxc_container_put(p) \/ do_lxcapi_start(p) \/ do_lxcapi_stop(p)
    \/ CreateChecks(p) \/ CreateBare(p) \/ create_partial(p) \/ do_storage_create(p)
    \/ StorageSave(p) \/ create_run_template(p) \/ CreateReload(p) \/ remove_partial(p)
    \/ CreateOut(p) \/ DestroyLock(p) \/ DestroyStorage(p) \/ DestroyDir(p)
    \/ do_lxcapi_destroy(p) \/ mod_all_rdeps(p)
    \/ CloneCheck(p) \/ CloneConfig(p) \/ CloneMkdir(p) \/ copy_storage(p) \/ copyhooks(p) \/ copy_fstab(p) \/ CloneSave(p)
    \/ CloneUpdate(p) \/ CloneOut(p) \/ CloneDone(p)
    \/ do_lxcapi_snapshot(p) \/ do_lxcapi_snapshot_restore(p) \/ RestoreClone(p)
    \/ do_lxcapi_destroy_with_snapshots(p) \/ remove_all_snapshots(p) \/ do_lxcapi_rename(p)
    \/ CallFailed(p) \/ Killed(p)

Init ==
    \E s \in Starts :
      /\ disk = [n \in Name |-> IF n \in DOMAIN s.disk THEN s.disk[n] ELSE Nothing]
      /\ proc = [p \in Proc |-> [Quiet EXCEPT !.plan = s.plan[p]]]
      /\ slock = [n \in Name |-> Free]

Next == (\E p \in Proc : Step(p)) \/ Done

Spec == Init /\ [][Next]_vars
-----------------------------------------------------------------------------
\* One program only: its calls follow each other, though it may be killed.
Solo == Cardinality({p \in Proc : ~Unused(p)}) <= 1

\* A container with a complete root file system, its lower layer included.
Whole(n) == /\ Defined(n) /\ disk[n].cfg.root # "none" /\ disk[n].data
            /\ disk[n].cfg.root = "overlay" => disk[disk[n].cfg.low].data

\* The lock a program waits for.
Wants(p) ==
    LET r == proc[p] IN
    CASE r.pc = "d_lock" -> r.who
      [] r.pc = "rdeps" /\ r.todo # <<>> -> Head(r.todo)
      [] r.pc \in {"bare", "save"} -> r.n
      [] r.pc \in {"hooks", "c_save"} -> r.m
      [] r.pc = "idle" /\ r.plan # <<>> /\ Defined(Head(r.plan).n) -> Head(r.plan).n
      [] OTHER -> NoName
WaitsFor(p) == IF Wants(p) = NoName THEN Free ELSE slock[Wants(p)]

\* Destroying a clone keeps its lock while it takes the locks of its bases, one
\* after the other (container_destroy around mod_all_rdeps).  No program ever
\* waits for a lock it holds itself, and no circle of programs wait for each
\* other.
LockWaitsAcyclic ==
    \A S \in SUBSET Proc : S # {} => \E p \in S : WaitsFor(p) \notin S

\* No call but the destruction of a snapshot itself takes a snapshot away:
\* destroying, restoring or renaming its container leaves it complete, however
\* the calls of several programs meet (lxc_rmdir_onedev excludes "snaps", and
\* the restore clones from it).
SnapshotsSurvive ==
    \A s \in Name :
      s[2] > 0 /\ Defined(s) /\ disk[s].data =>
         \/ Defined(s)' /\ disk'[s].data
         \/ \E p \in Proc : proc[p].who = s /\ proc[p].pc \in {"d_check", "d_rm"}

\* A rename copies and then destroys: at every moment, also when the program is
\* killed there or one of the two halves fails, a complete container is left
\* under the old or the new name (do_lxcapi_rename).
OneCopyLeft ==
    Solo => \A p \in Proc :
      /\ proc[p].op = "rename" /\ proc'[p].op = "rename"
      /\ Whole(proc[p].n) \/ Whole(proc[p].m)
      => (Whole(proc[p].n) \/ Whole(proc[p].m))'

\* No step loses what nobody asked to be removed: a snapshot, or the only copy of
\* a container that is being renamed.
NothingLost == [][SnapshotsSurvive /\ OneCopyLeft]_vars

\* The root file system below an overlay clone is there as long as the clone
\* is: what mod_rdep records makes do_lxcapi_destroy refuse, whatever calls
\* came before and wherever one of them failed or was killed.
BaseKept ==
    Solo => \A n \in Name :
      Defined(n) /\ disk[n].cfg.root = "overlay" /\ disk[n].data => Whole(n)

\* A call that reports success has made a complete container: create with a
\* template, clone, snapshot and restore, and a rename has also removed the
\* old one.
SuccessMeansWhole ==
    Solo => \A p \in Proc : LET r == proc[p] IN
      r.pc = "done" /\ r.ret =>
        /\ r.op = "create" /\ r.tmpl => Whole(r.n)
        /\ r.op \in {"clone", "snapshot", "restore", "rename"} => Whole(r.m)
        /\ r.op = "rename" => ~Defined(r.n)

\* What a program may rely on is complete: the base of a clone, and the container
\* a successful call has made.
WholeContainers == BaseKept /\ SuccessMeansWhole
=============================================================================
