---------------------------- MODULE MCContainer ----------------------------
(* Instances of Container: a directory container a, an overlay clone of it   *)
(* and snapshots of both, worked on by one program with a few calls in a row *)
(* or by two programs with one call each.                                    *)
EXTENDS Container

C(t) == <<t, 0>>
Dir == [Nothing EXCEPT !.dir = TRUE, !.cfg = [Stock EXCEPT !.root = "dir"],
                       !.rootfs = TRUE, !.data = TRUE]
Base(clones) == [Dir EXCEPT !.snapshots.list = clones]
Overlay(base) == [Dir EXCEPT !.cfg = [there |-> TRUE, root |-> "overlay", low |-> base],
                             !.rdepends = <<base>>]

Call(op, n, m) == [op |-> op, n |-> n, m |-> m, tmpl |-> FALSE, snap |-> FALSE]
Template(n) == [Call("create", n, NoName) EXCEPT !.tmpl = TRUE]
Bare(n) == Call("create", n, NoName)
Copy(n, m) == Call("clone", n, m)
SnapClone(n, m) == [Copy(n, m) EXCEPT !.snap = TRUE]
Snapshot(n) == Call("snapshot", n, NoName)
Restore(n) == Call("restore", n, <<n[1], 1>>)
Rename(n, m) == Call("rename", n, m)
Destroy(n) == Call("destroy", n, NoName)
DestroyAll(n) == Call("destroy_all", n, NoName)

\* a alone, a with a clone elsewhere that an old lxc has counted, a with an
\* overlay clone b, and with an overlay snapshot of b.
Disks == { C("a") :> Dir,
           C("a") :> [Dir EXCEPT !.snapshots.count = 1],
           C("a") :> Base(<<C("b")>>) @@ C("b") :> Overlay(C("a")),
           C("a") :> Base(<<C("b"), <<"b", 1>>>>) @@ C("b") :> [Overlay(C("a")) EXCEPT !.snaps = TRUE]
             @@ <<"b", 1>> :> Overlay(C("a")) }

One == {Template(C("b")), Bare(C("b")), Copy(C("a"), C("b")), SnapClone(C("a"), C("b")),
        Snapshot(C("a")), Snapshot(C("b")), Restore(C("a")), Restore(C("b")),
        Rename(C("a"), C("b")), Destroy(C("a")), Destroy(C("b")),
        DestroyAll(C("a")), DestroyAll(C("b"))}
Gate == {Call("start", C("b"), NoName), Call("stop", C("b"), NoName)}

MCStarts ==
    [disk : Disks, plan : {[p \in Proc |-> IF p = "p" THEN s ELSE <<>>] :
                             s \in [1 .. 3 -> One]}]
    \cup
    [disk : Disks, plan : {[p \in Proc |-> IF p = "p" THEN <<x>> ELSE <<y>>] :
                             x \in One, y \in One \cup Gate}]
=============================================================================
