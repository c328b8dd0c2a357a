------------------------------ MODULE Storage ------------------------------
(***************************************************************************)
(* The storage drivers of src/src/lxc/storage: what creating, cloning,     *)
(* running and destroying a container does to its root file system.        *)
(*                                                                         *)
(* A root is a directory or btrfs subvolume under the container's own      *)
(* directory (tree), a volume outside it (vol: a zfs dataset, a logical    *)
(* volume, a loop file, a rbd image) or an overlay's upper directory over  *)
(* the tree of another container (upper).  Contents are version numbers.   *)
(* Every command, system call or ioctl that can fail does so at most       *)
(* MaxFaults times; an operator stands for a function of the code and      *)
(* gives the SET of worlds it can end in, ok being its return value.       *)
(*                                                                         *)
(* One operation runs at a time: the locks and the interleavings of the    *)
(* container object are the subject of the module Container.               *)
(***************************************************************************)
EXTENDS Integers, FiniteSets, Sequences, SequencesExt

CONSTANTS
    Names,      \* containers, numbered in the order `zfs list' prints them
    Setups,     \* hosts and first containers to start from
    MaxCalls,   \* bound: operations
    MaxFaults   \* bound: failing commands

ASSUME NamesNumbered == Names \subseteq Nat \ {0} /\ IsFiniteSet(Names)

VARIABLES
    setup,      \* the host
    conf,       \* lxc.rootfs.path of every container
    tree,       \* <lxcpath>/<name>/rootfs
    vol,        \* volumes outside the container's directory, by name and driver
    upper,      \* <lxcpath>/<name>/overlay/delta
    zsnap,      \* zfs snapshots <<dataset, name>>
    needs,      \* recorded dependencies <<clone, base>> (lxc_rdepends)
    mapped,     \* rbd images that have a device
    half,       \* containers left behind by a destroy that stopped on the way,
                \* and their clones: their dependencies are no longer recorded
    faults, calls,
    last        \* the operation done last and what it returned

vars == <<setup, conf, tree, vol, upper, zsnap, needs, mapped, half, faults, calls, last>>

NoOne == 0
Partial == -1                       \* what an interrupted rsync leaves
Volumes == {"zfs", "lvm", "loop", "rbd"}
Drivers == Volumes \cup {"dir", "btrfs", "overlay", "nbd"}
Kids == {"sub", "subsub"}           \* subvolumes a container makes in its root
KidOf(k) == IF k = "subsub" THEN "sub" ELSE "root"

NoTree == [kind |-> "none", data |-> 0, kids |-> {}]
NoVol == [st |-> "none", data |-> 0, of |-> NoOne]
NoUpper == [there |-> FALSE, data |-> 0]
NoConf == [there |-> FALSE, type |-> "none", typed |-> TRUE, low |-> NoOne]

(***************************************************************************)
(* Commands and their outcomes.                                            *)
(***************************************************************************)
Done(w) == {[w EXCEPT !.ok = TRUE]}
Fail(w) == {[w EXCEPT !.ok = FALSE]}
Fault(w) == IF w.faults < MaxFaults THEN {[w EXCEPT !.faults = @ + 1, !.ok = FALSE]} ELSE {}

\* run_command(), ioctl(), mkdir()...: it works, or it fails and nothing is done
Cmd(w, after) == Done(after) \cup Fault(w)
Then(ws, Op(_)) == UNION {IF w.ok THEN Op(w) ELSE {w} : w \in ws}
OrElse(ws, Op(_)) == UNION {IF w.ok THEN {w} ELSE Op(w) : w \in ws}
Exists(w, n, t) == w.vol[n][t].st # "none"
SetVol(w, n, t, v) == [w EXCEPT !.vol[n][t] = v]

\* lxc_mkdir_p() of the root directory or mount point
MkRoot(w, n) == Cmd(w, IF w.tree[n].kind = "none" THEN [w EXCEPT !.tree[n] = [NoTree EXCEPT !.kind = "dir"]] ELSE w)

\* do_mkfs_exec_wrapper(): the volume gets an empty file system
do_mkfs_exec_wrapper(w, n, t) == Cmd(w, SetVol(w, n, t, [w.vol[n][t] EXCEPT !.st = "fs", !.data = 0]))

\* what a process sees in the root of n
Contents(w, n) ==
    CASE w.conf[n].type \in {"dir", "btrfs"} -> w.tree[n].data
      [] w.conf[n].type \in Volumes -> w.vol[n][w.conf[n].type].data
      [] w.conf[n].type = "overlay" ->
            IF w.upper[n].data # 0 THEN w.upper[n].data ELSE w.tree[w.conf[n].low].data
      [] OTHER -> 0

SetContents(w, n, t, d) ==
    CASE t \in {"dir", "btrfs"} -> [w EXCEPT !.tree[n].data = d]
      [] t \in Volumes -> [w EXCEPT !.vol[n][t].data = d]
      [] OTHER -> [w EXCEPT !.upper[n].data = d]

(***************************************************************************)
(* Which driver a root belongs to: the prefix of lxc.rootfs.path, or for a *)
(* path without one the first driver that recognises it.  A bare path      *)
(* leads to the tree, to a device or to a file, as conf.type says.         *)
(***************************************************************************)
dir_detect(w, n) == w.conf[n].type \in {"dir", "btrfs"} /\ w.tree[n].kind # "none"

\* a bare path is looked up in `zfs list', a dataset with `zfs get'
zfs_detect(w, n) == w.conf[n].type = "zfs" /\ Exists(w, n, "zfs")

\* a block device whose device-mapper uuid starts with "LVM-"
lvm_detect(w, n) == w.conf[n].type = "lvm" /\ Exists(w, n, "lvm")
rbd_detect(w, n) == w.conf[n].type = "rbd"

\* is_btrfs_fs() and inode 256
btrfs_detect(w, n) == w.conf[n].type \in {"dir", "btrfs"} /\ w.tree[n].kind = "subvol"
loop_detect(w, n) == w.conf[n].type = "loop" /\ Exists(w, n, "loop")

\* bdevs[], without the drivers that only know their prefix
bdevs(w, n) ==
    <<<<"dir", dir_detect(w, n)>>, <<"zfs", zfs_detect(w, n)>>, <<"lvm", lvm_detect(w, n)>>,
      <<"rbd", rbd_detect(w, n)>>, <<"btrfs", btrfs_detect(w, n)>>, <<"loop", loop_detect(w, n)>>>>

can_snapshot == {"btrfs", "lvm", "nbd", "overlay", "zfs"}

\* get_storage_by_name(): the driver the path or lxc.rootfs.path names
get_storage_by_name(w, n) == IF w.conf[n].typed THEN w.conf[n].type ELSE "none"

storage_query(w, n) ==
    LET found == SelectSeq(bdevs(w, n), LAMBDA b : b[2])
    IN  IF get_storage_by_name(w, n) # "none" THEN get_storage_by_name(w, n)
        ELSE IF found = <<>> THEN "none" ELSE found[1][1]

(***************************************************************************)
(* dir, and rm -rf that stays on one file system: a subvolume on the way   *)
(* is removed as such when it has none inside, and passed over otherwise;  *)
(* what is missing already is no error.                                    *)
(***************************************************************************)
dir_create(w, n) == MkRoot(w, n)

lxc_rmdir_onedev(w, n) ==
    LET begun(x) == IF x.tree[n].kind = "none" THEN x ELSE [x EXCEPT !.tree[n].data = Partial]
    IN  IF \E k \in w.tree[n].kids : KidOf(k) \in w.tree[n].kids THEN Fail(begun(w))
        ELSE Done([w EXCEPT !.tree[n] = NoTree]) \cup {begun(x) : x \in Fault(w)}
dir_destroy(w, n) == lxc_rmdir_onedev(w, n)
dir_mount(w, n) == IF w.tree[n].kind = "none" THEN Fail(w) ELSE Cmd(w, w)

\* "Directories cannot be snapshotted"; only names are made
dir_clonepaths(w, snap) == IF snap THEN Fail(w) ELSE Done(w)

(***************************************************************************)
(* btrfs                                                                   *)
(***************************************************************************)
btrfs_subvolume_create(w, n) ==
    IF ~setup.btrfs \/ w.tree[n].kind # "none" THEN Fail(w)
    ELSE Cmd(w, [w EXCEPT !.tree[n] = [NoTree EXCEPT !.kind = "subvol"]])

btrfs_create(w, n) == btrfs_subvolume_create(w, n)

\* a bind mount: a plain directory will do
btrfs_mount(w, n) == IF w.tree[n].kind = "none" THEN Fail(w) ELSE Cmd(w, w)
btrfs_clonepaths(w, orig, snap) == IF orig # "btrfs" /\ snap THEN Fail(w) ELSE Done(w)

\* rmdir() of the directory the clone made for the new root
RmEmptyRoot(w, n) == IF w.tree[n].kind = "subvol" THEN Fail(w) ELSE Cmd(w, [w EXCEPT !.tree[n] = NoTree])

\* BTRFS_IOC_SNAP_CREATE_V2: the subvolumes inside are not part of a snapshot
btrfs_snapshot(w, o, n) ==
    IF w.tree[o].kind # "subvol" THEN Fail(w)
    ELSE Cmd(w, [w EXCEPT !.tree[n] = [NoTree EXCEPT !.kind = "subvol", !.data = w.tree[o].data]])

btrfs_create_snapshot(w, o, n) == Then(RmEmptyRoot(w, n), LAMBDA x : btrfs_snapshot(x, o, n))

\* BTRFS_IOC_SNAP_DESTROY refuses a subvolume that has another one inside
btrfs_do_destroy_subvol(w, n, k) ==
    IF \E c \in w.tree[n].kids : KidOf(c) = k THEN Fail(w)
    ELSE Cmd(w, IF k = "root" THEN [w EXCEPT !.tree[n] = NoTree] ELSE [w EXCEPT !.tree[n].kids = @ \ {k}])

\* the subvolumes under k, each after those inside it; the first failure ends it
RECURSIVE do_remove_btrfs_children(_, _, _)
do_remove_btrfs_children(w, n, k) ==
    LET remove(ws, c) == Then(ws, LAMBDA x : Then(do_remove_btrfs_children(x, n, c),
                                                  LAMBDA y : btrfs_do_destroy_subvol(y, n, c)))
    IN  FoldLeft(remove, Done(w), SetToSeq({c \in w.tree[n].kids : KidOf(c) = k}))

\* A root that is only a directory: the search finds the subvolumes of the file
\* system around it, none of them below it, and the directory is no subvolume.
\* Without the right to search the subvolume itself is tried at once.
btrfs_lxc_rm_rf(w, n) ==
    IF w.tree[n].kind # "subvol" THEN Fail(w)
    ELSE Then(IF setup.unpriv THEN Done(w) ELSE do_remove_btrfs_children(w, n, "root"),
              LAMBDA x : btrfs_do_destroy_subvol(x, n, "root"))

btrfs_destroy(w, n) == btrfs_lxc_rm_rf(w, n)

(***************************************************************************)
(* zfs: `zfs create -p' takes an existing dataset for its own, `zfs        *)
(* destroy -r' takes the snapshots along and refuses while one has clones. *)
(***************************************************************************)
zfs_create_exec_wrapper(w, n) == Cmd(w, IF Exists(w, n, "zfs") THEN w ELSE SetVol(w, n, "zfs", [NoVol EXCEPT !.st = "fs"]))

zfs_delete_exec_wrapper(w, d) ==
    IF \E c \in Names : w.vol[c]["zfs"].of = d THEN Fail(w)
    ELSE Cmd(w, [SetVol(w, d, "zfs", NoVol) EXCEPT !.zsnap = {s \in @ : s[1] # d}])

\* The dataset a legacy path stands for: every line of `zfs list' is read into
\* the same buffer, found or not, and the last one stays.
zfs_list_entry(w, n) ==
    IF Exists(w, n, "zfs") THEN Max({d \in Names : Exists(w, d, "zfs")}) ELSE NoOne

Dataset(w, n) ==
    IF w.conf[n].typed /\ n \in setup.legacy THEN zfs_list_entry(w, n)
    ELSE IF Exists(w, n, "zfs") THEN n ELSE NoOne

zfs_create(w, n) == Then(zfs_create_exec_wrapper(w, n), LAMBDA x : MkRoot(x, n))
zfs_mount(w, n) == IF Dataset(w, n) = NoOne THEN Fail(w) ELSE Cmd(w, w)

zfs_clonepaths(w, o, n, orig, snap) ==
    IF (snap /\ orig # "zfs") \/ (orig = "zfs" /\ Dataset(w, o) = NoOne) THEN Fail(w) ELSE MkRoot(w, n)

\* The snapshot, and a clone of it: when the clone fails this is only logged.
zfs_snapshot(w, o, n) ==
    LET d == Dataset(w, o)
        clone(x) == IF Exists(x, n, "zfs") THEN {}
                    ELSE {SetVol(x, n, "zfs", [st |-> "fs", data |-> x.vol[d]["zfs"].data, of |-> d])}
        fails(x) == IF Exists(x, n, "zfs") THEN {x} ELSE Fault(x)
    IN  IF d = NoOne \/ <<d, n>> \in w.zsnap THEN Fail(w)
        ELSE Then(Cmd(w, [w EXCEPT !.zsnap = @ \cup {<<d, n>>}]),
                  LAMBDA x : {[y EXCEPT !.ok = TRUE] : y \in clone(x) \cup fails(x)})

\* (mutant) the snapshot a clone was made from is not deleted with it
ZfsDestroyKeepsSnapshot(w, n) ==
    IF Dataset(w, n) = NoOne THEN Fail(w) ELSE Then(Cmd(w, w), LAMBDA x : zfs_delete_exec_wrapper(x, Dataset(w, n)))

\* detect, look up the origin, delete the dataset and then the snapshot it was
\* cloned from; the last step's failure is the result though the dataset is gone
zfs_destroy(w, n) ==
    LET d == Dataset(w, n)
        origin == w.vol[d]["zfs"].of
        parent(x) == IF origin = NoOne THEN Done(x) ELSE Cmd(x, [x EXCEPT !.zsnap = @ \ {<<origin, d>>}])
    IN  IF d = NoOne THEN Fail(w)
        ELSE Then(Cmd(w, w), LAMBDA x : Then(zfs_delete_exec_wrapper(x, d), parent))

(***************************************************************************)
(* lvm: a snapshot of a thin volume is a volume of its own, a classic one  *)
(* goes with its origin and has no snapshots itself.                       *)
(***************************************************************************)
lvm_is_thin_volume(w, n) == setup.thin /\ Exists(w, n, "lvm")

\* lvcreate, without signature wiping when it is too old for that
do_lvm_create(w, n) == IF Exists(w, n, "lvm") THEN Fail(w) ELSE Cmd(w, SetVol(w, n, "lvm", [NoVol EXCEPT !.st = "raw"]))

lvm_create(w, n) ==
    Then(do_lvm_create(w, n),
         LAMBDA x : Then(do_mkfs_exec_wrapper(x, n, "lvm"), LAMBDA y : MkRoot(y, n)))

\* every file system of /etc/filesystems and /proc/filesystems is tried
mount_unknown_fs(w, n, t) == IF w.vol[n][t].st = "fs" THEN Cmd(w, w) ELSE Fail(w)
lvm_mount(w, n) == mount_unknown_fs(w, n, "lvm")

\* detect_fs(): the volume is mounted in a child to read its type in /proc/self/mounts
detect_fs(w, n) == mount_unknown_fs(w, n, "lvm")
blk_getsize(w, n) == IF Exists(w, n, "lvm") THEN Cmd(w, w) ELSE Fail(w)

lvm_clonepaths(w, n, orig, snap) == IF snap /\ orig # "lvm" THEN Fail(w) ELSE MkRoot(w, n)

lvm_snapshot_exec_wrapper(w, o, n) ==
    LET v == w.vol[o]["lvm"]
    IN  IF Exists(w, n, "lvm") \/ v.st = "none" \/ (v.of # NoOne /\ ~setup.thin) THEN Fail(w)
        ELSE Cmd(w, SetVol(w, n, "lvm", [v EXCEPT !.of = IF lvm_is_thin_volume(w, o) THEN NoOne ELSE o]))

\* the snapshot stays when its file system cannot be told or gets no new uuid
lvm_snapshot(w, o, n) ==
    Then(lvm_snapshot_exec_wrapper(w, o, n), LAMBDA x : Then(detect_fs(x, o), LAMBDA y : Cmd(y, y)))

\* "return -1" of a bool function: no size, no snapshot, and success
lvm_create_snapshot(w, o, n, sized) ==
    LET size == IF sized THEN Done(w) ELSE blk_getsize(w, o)
    IN  UNION {IF x.ok THEN lvm_snapshot(x, o, n) ELSE Done(x) : x \in size}

lvm_destroy(w, n) ==
    IF ~Exists(w, n, "lvm") THEN Fail(w)
    ELSE Cmd(w, [w EXCEPT !.vol = [c \in Names |->
                    IF c = n \/ w.vol[c]["lvm"].of = n THEN [w.vol[c] EXCEPT !["lvm"] = NoVol] ELSE w.vol[c]]])

(***************************************************************************)
(* loop: the file <lxcpath>/<name>/rootdev.  rbd: an image and its device. *)
(***************************************************************************)
do_loop_create(w, n) ==
    Then(Cmd(w, SetVol(w, n, "loop", [NoVol EXCEPT !.st = "raw"])), LAMBDA x : do_mkfs_exec_wrapper(x, n, "loop"))

loop_create(w, n) == Then(MkRoot(w, n), LAMBDA x : do_loop_create(x, n))

\* size and file system are those of the origin when it is a block device
loop_clonepaths(w, o, n, orig, snap, sized) ==
    LET probe == Then(IF sized THEN Done(w) ELSE blk_getsize(w, o), LAMBDA x : detect_fs(x, o))
    IN  IF snap THEN Fail(w)
        ELSE Then(IF orig = "lvm" THEN probe ELSE Done(w), LAMBDA x : do_loop_create(x, n))

\* a loop device that goes with its last user, and the file system on it
loop_mount(w, n) ==
    IF ~Exists(w, n, "loop") THEN Fail(w) ELSE Then(Cmd(w, w), LAMBDA x : mount_unknown_fs(x, n, "loop"))

loop_destroy(w, n) == IF Exists(w, n, "loop") THEN Cmd(w, SetVol(w, n, "loop", NoVol)) ELSE Fail(w)

rbd_create(w, n) ==
    LET make(x) == IF Exists(x, n, "rbd") THEN Fail(x) ELSE Cmd(x, SetVol(x, n, "rbd", [NoVol EXCEPT !.st = "raw"]))
        map(x) == Cmd(x, [x EXCEPT !.mapped = @ \cup {n}])
        format(x) == Then(do_mkfs_exec_wrapper(x, n, "rbd"), LAMBDA y : MkRoot(y, n))
    IN  Then(make(w), LAMBDA x : Then(map(x), format))

rbd_mount(w, n) == IF n \notin w.mapped THEN Fail(w) ELSE mount_unknown_fs(w, n, "rbd")

\* unmapped when there is a device, then removed
rbd_destroy(w, n) ==
    Then(IF n \in w.mapped THEN Cmd(w, [w EXCEPT !.mapped = @ \ {n}]) ELSE Done(w),
         LAMBDA x : IF Exists(x, n, "rbd") THEN Cmd(x, SetVol(x, n, "rbd", NoVol)) ELSE Fail(x))

(***************************************************************************)
(* overlay:<lower>:<upper>; the lower directory is that of the container   *)
(* conf.low, the container itself for one that was created as an overlay.  *)
(***************************************************************************)
MkUpper(w, n) == Cmd(w, [w EXCEPT !.upper[n].there = TRUE])

ovl_create(w, n) == Then(MkUpper(w, n), LAMBDA x : MkRoot(x, n))
ovl_destroy(w, n) == Cmd(w, [w EXCEPT !.upper[n] = NoUpper])

\* the upper and work directories are made when they are missing; the mount is
\* tried with and without a work directory
ovl_mount(w, n) ==
    IF w.tree[w.conf[n].low].kind = "none" THEN Fail(w)
    ELSE Then(MkUpper(w, n), LAMBDA x : Cmd(x, x))

\* ovl_do_rsync(): the changes of the overlay that is cloned
ovl_do_rsync(w, o, n) == Cmd(w, [w EXCEPT !.upper[n].data = w.upper[o].data]) \cup
                         {[x EXCEPT !.upper[n].data = Partial] : x \in Fault(w)}

ovl_clonepaths(w, o, n, orig, snap) ==
    LET dirs == Then(MkRoot(w, n), LAMBDA x : MkUpper(x, n))
    IN  IF ~snap THEN Fail(w)
        ELSE CASE orig = "dir" -> dirs
               [] orig = "overlay" -> Then(dirs, LAMBDA x : ovl_do_rsync(x, o, n))
               [] OTHER -> Then(MkRoot(w, n), Fail)

(***************************************************************************)
(* The operations of every driver, and copying by rsync.                   *)
(***************************************************************************)
\* nbd is attached by the monitor only for a path that keeps its prefix, which
\* set_config_rootfs_path() takes off: there is no device to mount
mount(w, n, t) ==
    CASE t = "dir" -> dir_mount(w, n)
      [] t = "btrfs" -> btrfs_mount(w, n)
      [] t = "zfs" -> zfs_mount(w, n)
      [] t = "lvm" -> lvm_mount(w, n)
      [] t = "loop" -> loop_mount(w, n)
      [] t = "rbd" -> rbd_mount(w, n)
      [] t = "overlay" -> ovl_mount(w, n)
      [] OTHER -> Fail(w)

\* (mutant) the result of rsync is not looked at
RsyncIgnoringErrors(w, o, n, orig, new) ==
    LET d == Contents(w, o)
    IN  Then(mount(w, o, orig), LAMBDA x : Then(mount(x, n, new),
             LAMBDA y : Done(SetContents(y, n, new, d)) \cup
                        {[SetContents(z, n, new, Partial) EXCEPT !.ok = TRUE] : z \in Fault(y)}))

\* both roots are mounted in a private namespace, then rsync --delete
lxc_rsync(w, o, n, orig, new) ==
    LET d == Contents(w, o)
    IN  Then(mount(w, o, orig), LAMBDA x : Then(mount(x, n, new),
             LAMBDA y : Done(SetContents(y, n, new, d)) \cup {SetContents(z, n, new, Partial) : z \in Fault(y)}))

btrfs_create_clone(w, o, n) ==
    Then(RmEmptyRoot(w, n), LAMBDA x : Then(btrfs_subvolume_create(x, n),
         LAMBDA y : lxc_rsync(y, o, n, "btrfs", "btrfs")))

zfs_copy(w, o, n) ==
    Then(zfs_create_exec_wrapper(w, n), LAMBDA x : Then(MkRoot(x, n), LAMBDA y : lxc_rsync(y, o, n, "zfs", "zfs")))

lvm_create_clone(w, o, n, sized) ==
    LET probe == Then(IF sized THEN Done(w) ELSE blk_getsize(w, o), LAMBDA x : detect_fs(x, o))
        fill(x) == Then(do_mkfs_exec_wrapper(x, n, "lvm"), LAMBDA y : lxc_rsync(y, o, n, "lvm", "lvm"))
    IN  Then(probe, LAMBDA x : Then(do_lvm_create(x, n), fill))

clone_paths(w, o, n, orig, new, snap, sized) ==
    CASE new = "dir" -> dir_clonepaths(w, snap)
      [] new = "btrfs" -> btrfs_clonepaths(w, orig, snap)
      [] new = "zfs" -> zfs_clonepaths(w, o, n, orig, snap)
      [] new = "lvm" -> lvm_clonepaths(w, n, orig, snap)
      [] new = "loop" -> loop_clonepaths(w, o, n, orig, snap, sized)
      [] new = "overlay" -> ovl_clonepaths(w, o, n, orig, snap)
      [] OTHER -> Fail(w)                              \* rbd, nbd: not implemented

create(w, n, t) ==
    CASE t \notin setup.avail -> Fail(w)
      [] t = "dir" -> dir_create(w, n)
      [] t = "btrfs" -> btrfs_create(w, n)
      [] t = "zfs" -> zfs_create(w, n)
      [] t = "lvm" -> lvm_create(w, n)
      [] t = "loop" -> loop_create(w, n)
      [] t = "rbd" -> rbd_create(w, n)
      [] t = "overlay" -> ovl_create(w, n)
      [] OTHER -> Fail(w)

destroy(w, n, t) ==
    CASE t = "dir" -> dir_destroy(w, n)
      [] t = "btrfs" -> btrfs_destroy(w, n)
      [] t = "zfs" -> zfs_destroy(w, n)
      [] t = "lvm" -> lvm_destroy(w, n)
      [] t = "loop" -> loop_destroy(w, n)
      [] t = "rbd" -> rbd_destroy(w, n)
      [] t = "overlay" -> ovl_destroy(w, n)
      [] OTHER -> Fail(w)

(***************************************************************************)
(* storage.c                                                               *)
(***************************************************************************)
SetConf(w, n, t, low) == [w EXCEPT !.conf[n] = [there |-> TRUE, type |-> t, typed |-> TRUE, low |-> low]]

do_storage_create(w, n, t) ==
    Then(create(w, n, t), LAMBDA x : Done(SetConf(x, n, t, IF t = "overlay" THEN n ELSE NoOne)))

\* the drivers that "best" stands for, in this order
best_options == <<"btrfs", "zfs", "lvm", "dir", "rbd">>

\* an attempt that fails leaves what it has made; a list as a whole is no driver
storage_create(w, n, want) ==
    LET options == CASE want = "best" -> best_options
                     [] want = "lvm,dir" -> <<"lvm", "dir">>
                     [] want = "none" -> <<"dir">>
                     [] OTHER -> <<want>>
    IN  FoldLeft(LAMBDA ws, t : OrElse(ws, LAMBDA x : do_storage_create(x, n, t)), Fail(w), options)

storage_destroy(w, n) == destroy(w, n, storage_query(w, n))

\* is an unprivileged user allowed to make this kind of snapshot
unpriv_snap_allowed(orig, want) ==
    (IF want = "none" THEN orig ELSE want) \in {"dir", "overlay", "btrfs", "loop"}

\* The driver of the copy: the one asked for; overlay for a snapshot of a
\* directory; a directory for a copy to another lxcpath; or the origin's.
NewType(orig, want, snap, f) ==
    CASE want # "none" -> want
      [] ~f.keep /\ snap /\ orig = "dir" -> "overlay"
      [] ~snap /\ f.away -> "dir"
      [] OTHER -> orig

\* (mutant) an overlay is not recorded with its origin
LvmRdepOnly(w, o, orig, want, snap, new) == want # "none" /\ snap /\ orig = "lvm" /\ ~lvm_is_thin_volume(w, o)

\* a classic lvm snapshot counts only when a driver was named
needs_rdep(w, o, orig, want, snap, new) ==
    \/ want # "none" /\ snap /\ orig = "lvm" /\ ~lvm_is_thin_volume(w, o)
    \/ new = "overlay"

\* the copy itself, once the paths are there
copy_contents(w, o, n, orig, new, snap, f) ==
    CASE orig = "btrfs" /\ new = "btrfs" ->
            IF snap \/ ~f.away
            THEN (IF f.away THEN Fail(w) ELSE btrfs_create_snapshot(w, o, n))
            ELSE btrfs_create_clone(w, o, n)
      [] orig = "lvm" /\ new = "lvm" ->
            IF snap THEN lvm_create_snapshot(w, o, n, f.sized) ELSE lvm_create_clone(w, o, n, f.sized)
      [] orig = "zfs" /\ new = "zfs" -> IF snap THEN zfs_snapshot(w, o, n) ELSE zfs_copy(w, o, n)
      [] snap -> Done(w)
      [] OTHER -> lxc_rsync(w, o, n, orig, new)

\* both containers on one btrfs, and the origin's root a subvolume of it
should_default_to_snapshot(w, o, f) ==
    setup.btrfs /\ ~f.away /\ w.conf[o].type \in {"dir", "btrfs"} /\ w.tree[o].kind = "subvol"

storage_copy(w, o, n, want, f) ==
    LET orig == storage_query(w, o)
        asked == f.snap \/ should_default_to_snapshot(w, o, f)
        snap == asked /\ ~(f.maybe /\ f.keep /\ want = "none" /\ orig \notin can_snapshot)
        over == ~f.keep /\ snap /\ orig = "dir" /\ want = "none"
        named == IF over THEN "overlay" ELSE want
        new == NewType(orig, want, snap, f)
        low == IF new = "overlay" THEN (IF orig = "overlay" THEN w.conf[o].low ELSE o) ELSE NoOne
        dep == needs_rdep(w, o, orig, named, snap, new)
        inherited == IF asked THEN {d[2] : d \in {e \in w.needs : e[1] = o}} ELSE {}
        record(x) == Done([SetConf(x, n, new, low) EXCEPT
                              !.needs = @ \cup ({n} \X (inherited \cup (IF dep THEN {o} ELSE {})))])
    IN  IF orig = "none" \/ (setup.unpriv /\ ~unpriv_snap_allowed(orig, named)) THEN Fail(w)
        ELSE Then(clone_paths(w, o, n, orig, new, snap, f.sized),
                  LAMBDA x : Then(copy_contents(x, o, n, orig, new, snap, f), record))

(***************************************************************************)
(* The operations of lxccontainer.c on storage.                            *)
(***************************************************************************)
NoRoot == [NoConf EXCEPT !.there = TRUE]         \* a config without lxc.rootfs.path
RootOf(w, n) == <<w.tree[n], w.vol[n], w.upper[n], n \in w.mapped, {d \in w.needs : d[1] = n}>>

\* mod_all_rdeps(), then rm -rf of the container's directory, in any order: when
\* it fails the config file may be gone already
RmContainerDir(w, n) ==
    LET x == [w EXCEPT !.needs = {d \in @ : d[1] # n}]
        gone(y) == [y EXCEPT !.conf[n] = NoConf, !.half = @ \ {n}]
    IN  Done([gone(x) EXCEPT !.tree[n] = NoTree, !.upper[n] = NoUpper, !.vol[n]["loop"] = NoVol])
        \cup Fault(x) \cup {gone(y) : y \in Fault(x)}

\* Without a config file the container is not defined and nothing happens.
container_destroy(w, n) ==
    LET rootless == w.conf[n].type = "none"
        ended == Then(IF rootless THEN Done(w) ELSE storage_destroy(w, n), LAMBDA x : RmContainerDir(x, n))
    IN  IF ~w.conf[n].there THEN Fail(w)
        ELSE {IF x.conf[n].there /\ RootOf(x, n) # RootOf(w, n) THEN [x EXCEPT !.half = @ \cup {n}] ELSE x : x \in ended}

\* an operation that has failed destroys what it was making
GiveUp(ws, n) == UNION {{[y EXCEPT !.ok = FALSE] : y \in container_destroy(x, n)} : x \in ws}
Failing(ws) == {x \in ws : ~x.ok}
Working(ws) == {x \in ws : x.ok}

\* save_config() that fails before or after it has opened the file
SaveFails(w) == Fault(w)

\* The child makes the storage and saves the config, or destroys the storage
\* again; the parent's own config has no root then.
CreateStorage(w, n, want) ==
    LET made == storage_create(w, n, want)
        noroot(x, there) == [x EXCEPT !.conf[n] = IF there THEN NoRoot ELSE w.conf[n]]
        undone == UNION {UNION {{noroot(y, TRUE), noroot(y, FALSE)} : y \in storage_destroy(x, n)}
                         : x \in UNION {SaveFails(v) : v \in Working(made)}}
    IN  Working(made) \cup GiveUp({noroot(x, FALSE) : x \in Failing(made)} \cup undone, n)

\* the template fills the mounted root; an overlay's lower directory is bound
create_run_template(w, n, version) ==
    LET t == storage_query(w, n)
        mounted == CASE t \in {"dir", "btrfs"} -> Done(w)
                     [] setup.unpriv -> Fail(w)
                     [] t = "overlay" -> Cmd(w, w)
                     [] OTHER -> mount(w, n, t)
        fill(x) == IF t = "overlay" THEN [x EXCEPT !.tree[n].data = version] ELSE SetContents(x, n, t, version)
    IN  Then(mounted, LAMBDA x : Done(fill(x)) \cup {fill(y) : y \in Fault(x)})

lxcapi_create(w, n, want, version) ==
    LET template(x) == LET ran == create_run_template(x, n, version) IN Working(ran) \cup GiveUp(Failing(ran), n)
    IN  Then(CreateStorage(w, n, want), template)

\* clone_update_rootfs(): the new root is mounted unless it is a directory
clone_update_rootfs(w, n) ==
    LET t == storage_query(w, n)
    IN  IF t = "none" THEN Fail(w) ELSE Then(IF t = "dir" THEN Done(w) ELSE mount(w, n, t), LAMBDA x : Cmd(x, x))

lxcapi_clone(w, o, n, want, f) ==
    LET begun == [w EXCEPT !.conf[n] = NoRoot]
        \* an existing root directory is an error that leaves the new config
        dir == IF w.tree[n].kind # "none" THEN Fail(begun) ELSE MkRoot(begun, n)
        copied == UNION {storage_copy(x, o, n, want, f) : x \in Working(dir)}
        \* copy_storage(), the hooks, fstab and hardware addresses: no root yet
        updated == UNION {Cmd(x, x) : x \in Working(copied)}
        early == {[x EXCEPT !.conf[n] = NoRoot] : x \in Failing(copied) \cup Failing(updated)}
        saved == UNION {Done(x) : x \in Working(updated)}
        unsaved == {[x EXCEPT !.conf[n] = IF @.there THEN NoRoot ELSE @]
                       : x \in GiveUp(UNION {SaveFails(v) : v \in Working(updated)}, n)}
        ended == UNION {clone_update_rootfs(x, n) : x \in saved}
    IN  Failing(dir) \cup GiveUp(early, n) \cup unsaved \cup GiveUp(Failing(ended), n) \cup Working(ended)

\* start, change the root, perhaps make a subvolume in it, stop
lxcapi_start(w, n, version) ==
    LET t == storage_query(w, n)
        kids == IF w.tree[n].kind = "subvol" /\ t \in {"dir", "btrfs"}
                THEN {w.tree[n].kids \cup {k} : k \in {k \in Kids : KidOf(k) \in w.tree[n].kids \cup {"root"}}}
                     \cup {w.tree[n].kids}
                ELSE {w.tree[n].kids}
    IN  Then(mount(w, n, t), LAMBDA x : {[SetContents(x, n, t, version) EXCEPT !.tree[n].kids = k] : k \in kids})

(***************************************************************************)
(* The specification.                                                      *)
(***************************************************************************)
World == [conf |-> conf, tree |-> tree, vol |-> vol, upper |-> upper, zsnap |-> zsnap, needs |-> needs,
          mapped |-> mapped, half |-> half, faults |-> faults, ok |-> TRUE]

Put(w, op, n, o, had) ==
    /\ conf' = w.conf /\ tree' = w.tree /\ vol' = w.vol /\ upper' = w.upper /\ zsnap' = w.zsnap
    /\ needs' = w.needs /\ mapped' = w.mapped /\ half' = w.half /\ faults' = w.faults
    /\ calls' = calls + 1
    /\ last' = [op |-> op, n |-> n, o |-> o, ok |-> w.ok, fault |-> w.faults # faults, had |-> had,
                 left |-> {t \in Volumes : Exists(World, n, t)}, type |-> storage_query(World, n),
                 of |-> vol[n]["zfs"].of]
    /\ UNCHANGED setup

HasRoot(n) == conf[n].type # "none"
Version == calls + 2

Create(n, want) ==
    /\ calls < MaxCalls /\ ~HasRoot(n)
    /\ \E w \in lxcapi_create(World, n, want, Version) : Put(w, "create", n, NoOne, 0)

\* the origin is defined, the new container is not
Clone(o, n, want, f) ==
    /\ calls < MaxCalls /\ HasRoot(o) /\ ~conf[n].there
    /\ \E w \in lxcapi_clone(World, o, n, want, f) :
            Put([w EXCEPT !.half = IF o \in half /\ w.conf[n].there THEN @ \cup {n} ELSE @],
                "clone", n, o, Contents(World, o))

Run(n) ==
    /\ calls < MaxCalls /\ HasRoot(n)
    /\ \E w \in lxcapi_start(World, n, Version) : Put(w, "run", n, NoOne, 0)

\* do_lxcapi_destroy(): refused while a recorded clone is there
Destroy(n) ==
    /\ calls < MaxCalls /\ conf[n].there
    /\ \E w \in IF \E d \in needs : d[2] = n THEN Fail(World) ELSE container_destroy(World, n) :
            Put(w, "destroy", n, NoOne, Contents(World, n))

\* the containers a host starts with, whole and never cloned
FirstTree(t) == CASE t = "none" -> NoTree
                  [] t = "subvol" -> [NoTree EXCEPT !.kind = "subvol", !.data = 1]
                  [] t \in {"dir", "overlay"} -> [NoTree EXCEPT !.kind = "dir", !.data = 1]
                  [] OTHER -> [NoTree EXCEPT !.kind = "dir"]

Init ==
    /\ setup \in Setups
    /\ conf = [n \in Names |-> LET t == setup.first[n]
                               IN  [there |-> t # "none", type |-> t, typed |-> setup.typed,
                                    low |-> IF t = "overlay" THEN n ELSE NoOne]]
    /\ tree = [n \in Names |-> IF setup.first[n] = "btrfs" THEN FirstTree("subvol") ELSE FirstTree(setup.first[n])]
    /\ vol = [n \in Names |-> [t \in Volumes |-> IF setup.first[n] = t THEN [NoVol EXCEPT !.st = "fs", !.data = 1] ELSE NoVol]]
    /\ upper = [n \in Names |-> [NoUpper EXCEPT !.there = setup.first[n] = "overlay"]]
    /\ zsnap = {} /\ needs = {} /\ half = {}
    /\ mapped = {n \in Names : setup.first[n] = "rbd"}
    /\ faults = 0 /\ calls = 0
    /\ last = [op |-> "none", n |-> NoOne, o |-> NoOne, ok |-> TRUE, fault |-> FALSE, had |-> 0, left |-> {},
              type |-> "none", of |-> NoOne]

Next ==
    \/ \E n \in Names, want \in setup.wants : Create(n, want)
    \/ \E o, n \in Names, want \in setup.clones, f \in setup.flags : o # n /\ Clone(o, n, want, f)
    \/ \E n \in Names : Run(n) \/ Destroy(n)

Spec == Init /\ [][Next]_vars

(***************************************************************************)
(* Properties.                                                             *)
(***************************************************************************)
\* the root can be mounted as it is now
Usable(n) == \E w \in mount(World, n, storage_query(World, n)) : w.ok

\* a classic lvm snapshot that no dependency is recorded for
Unrecorded(n) == vol[n]["lvm"].of # NoOne /\ <<n, vol[n]["lvm"].of>> \notin needs

\* Creating, cloning and destroying a container (container_destroy(), the
\* drivers' destroy and the clean up of failed creates and clones) leave the
\* root of every other container as it was, failing commands or not; a root
\* whose own destroy stopped half way no longer counts.
OthersKept ==
    last'.op # "run" =>
        \A n \in Names \ {last'.n} :
           HasRoot(n) /\ n \notin half /\ ~Unrecorded(n)
           => /\ conf'[n] = conf[n]
              /\ Contents(World', n) = Contents(World, n)
              /\ tree[n].kind # "none" => tree'[n] = tree[n]

\* A clone that is returned can be mounted and holds what its origin held, and
\* the origin still does (storage_copy(), every driver's snapshot and copy);
\* create's container can be mounted too.  The exception is a dataset or
\* volume that an earlier failure has left under the new name: zfs_snapshot()
\* and lvm_create_snapshot() report success without making one.
CopyWhole ==
    last.ok /\ last.op \in {"create", "clone"} /\ last.left \cap {"zfs", "lvm"} = {} =>
       /\ Usable(last.n)
       /\ last.op = "clone" => Contents(World, last.n) = last.had /\ Contents(World, last.o) = last.had

\* After a destroy that reports success nothing of the container is left: no
\* directory, no volume of its driver, no zfs snapshot made for it, no device,
\* no dependency recorded.
DestroyCleans ==
    last.ok /\ last.op = "destroy" =>
       /\ conf[last.n] = NoConf /\ tree[last.n] = NoTree /\ ~upper[last.n].there
       /\ last.type \in Volumes => ~Exists(World, last.n, last.type)
       /\ last.type = "zfs" => <<last.of, last.n>> \notin zsnap
       /\ last.type = "rbd" => last.n \notin mapped
       /\ \A d \in needs : d[1] # last.n

\* What a clone shares with its origin stays while the clone is there: the lower
\* directory of an overlay, the dataset and the snapshot of a zfs clone, the
\* volume of a recorded lvm snapshot (lxc_rdepends and has_fs_snapshots()).
BaseKept ==
    \A n \in Names :
       HasRoot(n) /\ n \notin half =>
          /\ conf[n].type = "overlay" => tree[conf[n].low].kind # "none"
          /\ conf[n].type = "zfs" /\ vol[n]["zfs"].of # NoOne =>
                Exists(World, vol[n]["zfs"].of, "zfs") /\ <<vol[n]["zfs"].of, n>> \in zsnap
          /\ conf[n].type = "lvm" /\ <<n, vol[n]["lvm"].of>> \in needs => Exists(World, vol[n]["lvm"].of, "lvm")

\* As long as no command has failed, a container that is not defined has left
\* nothing behind: every refused create or clone removes what it has made.
NoLeak ==
    faults = 0 => \A n \in Names : ~conf[n].there =>
       /\ tree[n] = NoTree /\ upper[n] = NoUpper /\ n \notin mapped
       /\ \A t \in Volumes : ~Exists(World, n, t)
       /\ \A s \in zsnap : s[2] # n

\* A whole root that nothing else uses can be destroyed: with no failing command
\* destroy reports success.  Excepted are a directory that a copy has typed
\* btrfs, and nested subvolumes where only the root itself is removed.
Odd(n) ==
    \/ conf[n].type = "btrfs" /\ conf[n].typed /\ tree[n].kind # "subvol"
    \/ tree[n].kids # {} /\ (setup.unpriv \/ storage_query(World, n) = "dir")

InUse(n) == (\E d \in needs : d[2] = n) \/ (\E c \in Names : vol[c]["zfs"].of = n)

WholeIsDestroyable ==
    last'.op = "destroy" /\ ~last'.fault /\ last'.n \notin half
        /\ (HasRoot(last'.n) => Usable(last'.n)) /\ ~Odd(last'.n) /\ ~InUse(last'.n) => last'.ok

\* Nobody's root is lost through what is done to another container, nor what it
\* shares with one.
RootKept == [][OthersKept /\ BaseKept']_vars

\* What is to go can go, and what is gone has left nothing.
NothingLeft == [][DestroyCleans' /\ NoLeak' /\ WholeIsDestroyable]_vars
=============================================================================
