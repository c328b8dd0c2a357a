------------------------------ MODULE UserNic -------------------------------
(***************************************************************************)
(* lxc-user-nic (cmd/lxc_user_nic.c), the set-uid helper through which an  *)
(* unprivileged container gets a veth pair: the allotments of              *)
(* /etc/lxc/lxc-usernet, and the database of the nics that were handed     *)
(* out, a file of lines "user type bridge nic" under a write lock.         *)
(*                                                                         *)
(* The database is a sequence of lines [owner, link, nic].  The names that *)
(* make up a line are taken to have the same length in every line, so a    *)
(* file cut at a multiple of that length ends with a whole line.           *)
(***************************************************************************)
EXTENDS Naturals, Sequences, FiniteSets, SequencesExt, NetDev

CONSTANT Usernet    \* The lines [name, group, link, n] of lxc-usernet, in order.

\* get_alloted: the lines that apply to the caller, and whether reading them
\* survives.  The search for a group has no end: name_is_in_groupnames runs over
\* the terminating null pointer of a list that does not hold the group.
get_alloted(user, groups, link) ==
    LET stray(l) == l.group /\ groups # {} /\ l.name \notin groups
        mine(l)  == (IF l.group THEN l.name \in groups ELSE l.name = user) /\ l.link = link
    IN  [crash |-> \E k \in DOMAIN Usernet : stray(Usernet[k]),
         names |-> SelectSeq(Usernet, mine)]

Allowed(names) == FoldSeq(LAMBDA l, n : l.n + n, 0, names)

\* find_line: a line counts for its owner whatever its type and link are; it is
\* worth keeping while the nic exists.
Owned(db, name) == {k \in DOMAIN db : db[k].owner = name}
Stale(db, D) == {k \in DOMAIN db : ~Exists(D, Host, db[k].nic)}

\* cull_entries drops the lines of vanished nics from its own copy of the file,
\* and then only sets the length of the file: what goes is the end of it.
cull_entries(db, D) == SubSeq(db, 1, Len(db) - Cardinality(Stale(db, D)))

\* One pass per allotment of the caller, each over what the last one left.
Culled(db, D, names) == FoldSeq(LAMBDA l, b : cull_entries(b, D), db, names)

\* The allotment a new nic is charged to, the first one with room; an empty
\* database charges the first one without looking.
Owners(db, names) ==
    IF db = <<>> THEN {names[1].name}
    ELSE LET room == {k \in DOMAIN names : Cardinality(Owned(db, names[k].name)) < names[k].n}
         IN  {names[k].name : k \in {x \in room : \A y \in room : x <= y}}

\* The new line goes where the caller saw the end of the file.
Append_entry(db, len, line) == Append(SubSeq(db, 1, len), line)
=============================================================================
