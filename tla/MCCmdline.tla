------------------------------ MODULE MCCmdline ------------------------------
(* Up to two options on the command line; a configuration file is missing,  *)
(* has one line of one or two options, or two lines.                        *)
EXTENDS Cmdline

O(k, v) == [key |-> k, val |-> v, rest |-> FALSE, quoted |-> FALSE]
Q(k, v) == [O(k, v) EXCEPT !.quoted = TRUE]

Given2 == {O("w", ""), O("w", "-"), O("o", "a"), O("o", ""), Q("o", "a"), O("T", "custom"),
           O("T", ""), O("sym", "1"), O("sym", "2"), O("sym", "x"), O("backslash", ""), O("caret", "")}

MCCommandLines == UNION {[1 .. n -> Given2] : n \in 0 .. 2}

MCConfigFiles == {NoFile}
  \union {<<<<o>>>> : o \in {O("w", ""), O("o", "c"), O("sym", "3"), O("sym", "y")}}
  \union {<<<<O("w", "-"), O("o", "c")>>>>, <<<<O("o", ""), O("w", "")>>>>,
          <<<<O("backslash", "")>>, <<Q("o", "c")>>>>}
=============================================================================
