---------------------------- MODULE MCTerminal ----------------------------
(* Small instances of Terminal. *)
EXTENDS Terminal

\* A console with nobody on it; clients come.
Bare == [want |-> TRUE, own |-> FALSE, path |-> FALSE, tty |-> [there |-> FALSE, isatty |-> TRUE],
         log |-> FALSE, size |-> 0, rotate |-> FALSE, ring |-> 0, have |-> <<>>, ttys |-> 1,
         who |-> {}, types |-> {<<"x", "a", "a">>, <<"a", "x", "a", "q">>},
         out |-> 0, sends |-> {}]
\* A container in the foreground.
Foreground == [Bare EXCEPT !.tty.there = TRUE, !.log = TRUE, !.size = 2, !.rotate = TRUE, !.out = 3]
Logged == [Bare EXCEPT !.log = TRUE, !.size = 2, !.out = 4]

One == {CHOOSE c \in Client : TRUE}

McSetups ==
    {[Bare EXCEPT !.who = Client, !.types = {<<"a", "q">>}, !.out = 1],
     [Bare EXCEPT !.who = One, !.out = 2, !.own = TRUE, !.log = TRUE],
     [Bare EXCEPT !.who = One, !.types = {<<"x">>}, !.out = 1, !.sends = {"TERM"}],
     [Bare EXCEPT !.want = FALSE, !.who = One],
     [Bare EXCEPT !.path = TRUE],
     [Foreground EXCEPT !.tty.isatty = FALSE],
     [Foreground EXCEPT !.sends = {"TERM", "WINCH", "HUP"}, !.types = {<<"x">>}, !.out = 1],
     [Foreground EXCEPT !.sends = {"HUP"}, !.types = {<<"a", "x">>}, !.ring = 2],
     [Foreground EXCEPT !.who = One, !.types = {<<>>}, !.sends = {"WINCH"}, !.out = 1],
     [Foreground EXCEPT !.have = <<0, 0, 0>>],
     [Logged EXCEPT !.ring = 2, !.sends = {"TERM"}],
     [Logged EXCEPT !.have = <<0, 0, 0>>]}
===========================================================================
