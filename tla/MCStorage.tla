----------------------------- MODULE MCStorage -----------------------------
(***************************************************************************)
(* Storage for TLC: one host per kind of storage, each with a first        *)
(* container, the drivers a caller asks for and the ways it clones.        *)
(***************************************************************************)
EXTENDS Storage, TLC

MCNames == 1 .. 3

Copy == [snap |-> FALSE, maybe |-> FALSE, keep |-> FALSE, sized |-> FALSE, away |-> FALSE]
Snap == [Copy EXCEPT !.snap = TRUE]
MaybeSnap == [Snap EXCEPT !.maybe = TRUE, !.keep = TRUE]
Away == [Copy EXCEPT !.away = TRUE]
Sized(f) == [f EXCEPT !.sized = TRUE]

First(t) == [n \in MCNames |-> IF n = 1 THEN t ELSE "none"]
Host(t) == [btrfs |-> FALSE, thin |-> FALSE, unpriv |-> FALSE, legacy |-> {}, typed |-> TRUE, avail |-> {"dir", t},
            first |-> First(t), wants |-> {t}, clones |-> {"none"}, flags |-> {Copy, Snap}]

MCSetups ==
    {[Host("dir") EXCEPT !.wants = {"none"}, !.clones = {"none", "overlay"}, !.flags = {Copy, Snap, MaybeSnap}],
     [Host("dir") EXCEPT !.wants = {"lvm,dir"}, !.clones = {"zfs", "lvm", "loop", "btrfs", "nbd"}, !.avail = {"dir", "lvm"}],
     [Host("dir") EXCEPT !.unpriv = TRUE, !.wants = {"best", "loop"}, !.avail = {"dir", "zfs", "loop"}, !.clones = {"none", "zfs"}],
     [Host("overlay") EXCEPT !.flags = {Snap, Away}],
     [Host("btrfs") EXCEPT !.btrfs = TRUE, !.wants = {"best"}, !.flags = {Copy, Away, [Away EXCEPT !.snap = TRUE]},
                           !.clones = {"none", "dir", "btrfs"}],
     [Host("btrfs") EXCEPT !.btrfs = TRUE, !.typed = FALSE],
     [Host("btrfs") EXCEPT !.btrfs = TRUE, !.unpriv = TRUE],
     Host("zfs"),
     \* a container from before datasets were named in lxc.rootfs.path
     [Host("zfs") EXCEPT !.legacy = {1}, !.wants = {"dir"}, !.clones = {"dir"}, !.flags = {Copy}],
     [Host("lvm") EXCEPT !.clones = {"none", "lvm", "loop"}, !.flags = {Copy, Snap, Sized(Snap)}],
     [Host("lvm") EXCEPT !.thin = TRUE, !.clones = {"none", "lvm"}, !.flags = {Sized(Copy), Snap}],
     [Host("loop") EXCEPT !.clones = {"none", "loop", "dir"}, !.flags = {Copy, Snap, Away}],
     [Host("rbd") EXCEPT !.wants = {"rbd", "best"}, !.clones = {"none", "dir"}]}
=============================================================================
