-------------------------------- MODULE Flow --------------------------------
(***************************************************************************)
(* What the body of a function means, without jumps and a frame: what is    *)
(* left to be done is a sequence of statements, and the variables that are  *)
(* in scope are a sequence of objects.  The properties compare this with    *)
(* what the code of module Statements does.                                 *)
(***************************************************************************)
EXTENDS Statements

Object(s) == [n |-> s.n, id |-> s.id, dtor |-> s.dtor, cells |-> Product(s.dims), kept |-> s.op = "static"]
Constant(s) == [n |-> s.n, id |-> s.id, dtor |-> FALSE, cells |-> 0, kept |-> TRUE]
Close(n) == [op |-> "close", n |-> n]
Again(cond, do, step, n) == [op |-> "again", c |-> cond, body |-> do, step |-> step, n |-> n]
Nothing == [op |-> "nothing"]

Function == [n |-> "p", id |-> 99, dtor |-> FALSE, cells |-> 1, kept |-> TRUE]
Begin(s) == [k |-> <<s>>, env |-> <<Function>>, trace |-> <<>>, chosen |-> m.chosen, end |-> "none"]

Seen(r, uses) ==
  [k \in DOMAIN uses |-> LET o == SelectLastInSeq(r.env, LAMBDA v : v.n = uses[k]) IN r.env[o].id]
Event(r, id, uses) == [r EXCEPT !.trace = Append(@, <<id, Seen(r, uses)>>)]

(* The objects beyond the n-th go out of scope, the latest first; a static  *)
(* one lives on.                                                            *)
Destroy(r, n) ==
  LET gone == SelectSeq(Reverse(SubSeq(r.env, n + 1, Len(r.env))), LAMBDA o : o.dtor /\ ~o.kept)
      out == [k \in DOMAIN gone |-> <<0, <<gone[k].id, gone[k].cells>>>>]
  IN [r EXCEPT !.env = SubSeq(@, 1, n), !.trace = @ \o out]

(* What is left to be done after a label, and what is in scope there        *)
RECURSIVE After(_, _, _)
After(l, k, env) ==
  IF k = <<>> THEN [found |-> FALSE]
  ELSE LET s == Head(k)  n == Len(env)
           inside(ss) == After(l, ss \o <<Close(n)>> \o Tail(k), env)
           either(a, b) == LET x == inside(<<a>>) IN IF x.found THEN x ELSE inside(<<b>>)
       IN CASE s.op = "label" /\ s.l = l -> [found |-> TRUE, k |-> Tail(k), env |-> env]
            [] s.op = "block" -> inside(s.ss)
            [] s.op = "close" -> After(l, Tail(k), SubSeq(env, 1, s.n))
            [] s.op \in {"new", "static"} -> After(l, Tail(k), Append(env, Object(s)))
            [] s.op = "const" -> After(l, Tail(k), Append(env, Constant(s)))
            [] s.op = "if" -> inside(<<s.a>>)
            [] s.op = "ifelse" -> either(s.a, s.b)
            [] s.op \in {"while", "do"} -> inside(<<s.body, Again(s.c, s.body, Nothing, n)>>)
            [] OTHER -> After(l, Tail(k), env)

Loop(k) == SelectInSeq(k, LAMBDA s : s.op = "again")
Do(r, ss) == [r EXCEPT !.k = ss \o Tail(@)]

(* A condition is evaluated; what is decided comes from the machine.        *)
Asks(cond) == cond.op = "test"
Judge(r, cond) ==
  IF Asks(cond) THEN [r EXCEPT !.chosen = Tail(@), !.trace = Append(@, <<cond.id, Seen(r, cond.uses)>>)] ELSE r
Holds(r, cond) ==
  CASE cond.op = "always" -> TRUE [] cond.op = "const" -> cond.v # 0 [] OTHER -> Head(r.chosen) # 0
Branch(r, cond, yes, no) == Do(Judge(r, cond), IF Holds(r, cond) THEN yes ELSE no)

Chosen(s, v) ==
  LET hit == {k \in DOMAIN s.cases : v \in s.cases[k].vals}
      default == {k \in DOMAIN s.cases : s.cases[k].default}
  IN IF hit # {} THEN <<s.cases[CHOOSE k \in hit : TRUE].body>>
     ELSE IF default # {} THEN <<s.cases[CHOOSE k \in default : TRUE].body>> ELSE <<>>

Deciding == {"if", "ifelse", "again", "assert", "state"}
Undecided(r, s) == r.chosen = <<>> /\ (s.op = "switch" \/ (s.op \in Deciding /\ Asks(s.c)))

(* The first of what is left to be done                                     *)
Advance(r) ==
  LET s == Head(r.k)
      n == Len(r.env)
      next == Do(r, <<>>)
      loop == Loop(r.k)
  IN
  CASE Undecided(r, s)   -> [r EXCEPT !.end = "undecided"]
    [] s.op \in {"expr", "sleep"} -> Event(next, s.id, s.uses)
    [] s.op = "new"      -> LET q == [next EXCEPT !.env = Append(@, Object(s))] IN
                            IF s.init = <<>> THEN q ELSE Event(q, s.id, s.init)
    [] s.op = "static"   -> [next EXCEPT !.env = Append(@, Object(s))]
    [] s.op = "const"    -> [next EXCEPT !.env = Append(@, Constant(s))]
    [] s.op = "block"    -> Do(r, s.ss \o <<Close(n)>>)
    [] s.op = "close"    -> Destroy(next, s.n)
    [] s.op = "if"       -> Branch(r, s.c, <<s.a>>, <<>>)
    [] s.op = "ifelse"   -> Branch(r, s.c, <<s.a>>, <<s.b>>)
    [] s.op = "while"    -> Do(r, <<Again(s.c, s.body, Nothing, n)>>)
    [] s.op = "do"       -> Do(r, <<s.body, Again(s.c, s.body, Nothing, n)>>)
    [] s.op = "for"      -> LET inner == IF s.init.op = "new" THEN n + 1 ELSE n IN
                            Do(r, <<s.init, Again(s.c, s.body, s.step, inner), Close(n)>>)
    [] s.op = "again"    -> Branch(r, s.c, <<s.body, s.step, s>>, <<>>)
    [] s.op = "switch"   -> [Do(r, Chosen(s, Head(r.chosen))) EXCEPT
                               !.chosen = Tail(@), !.trace = Append(@, <<s.id, Seen(r, s.uses)>>)]
    [] s.op = "goto"     -> LET to == After(s.l, <<body>>, <<Function>>) IN [r EXCEPT !.k = to.k, !.env = to.env]
    [] s.op = "break"    -> Destroy([r EXCEPT !.k = SubSeq(@, loop + 1, Len(@))], r.k[loop].n)
    [] s.op = "continue" -> Destroy([r EXCEPT !.k = <<@[loop].step>> \o SubSeq(@, loop, Len(@))], r.k[loop].n)
    [] s.op = "return"   -> LET q == IF s.id = 0 THEN r ELSE Event(r, s.id, s.uses) IN
                            [Destroy(q, 1) EXCEPT !.end = "return"]
    [] s.op = "exit"     -> [Destroy(Event(r, s.id, s.uses), 1) EXCEPT !.end = "exit"]
    [] s.op = "assert"   -> LET q == Judge(next, s.c) IN IF Holds(r, s.c) THEN q ELSE [q EXCEPT !.end = "assertion"]
    [] s.op = "state"    -> LET q == Judge(next, s.c) IN IF Holds(r, s.c) THEN Event(q, s.id, <<>>) ELSE q
    [] OTHER -> next

RECURSIVE Finish(_)
Finish(r) ==
  IF r.end # "none" THEN r ELSE IF r.k = <<>> THEN [r EXCEPT !.end = "return"] ELSE Finish(Advance(r))
Meaning == Finish(Begin(body))

-----------------------------------------------------------------------------
(* What is in a body                                                        *)

Parts(s) ==
  CASE s.op = "block" -> s.ss
    [] s.op = "if" -> <<s.a>>
    [] s.op = "ifelse" -> <<s.a, s.b>>
    [] s.op \in {"while", "do"} -> <<s.body>>
    [] s.op = "for" -> <<s.init, s.body>>
    [] s.op = "switch" -> [k \in DOMAIN s.cases |-> s.cases[k].body]
    [] OTHER -> <<>>
RECURSIVE Within(_)
Within(s) == {s} \cup UNION {Within(t) : t \in Range(Parts(s))}

Declares(s) == s.op \in {"new", "static"}
Destructible(s) == {t \in Within(s) : Declares(t) /\ t.dtor}

(* How many blocks of its loop a break or continue leaves                   *)
RECURSIVE Leaving(_, _)
Leaving(s, blocks) ==
  CASE s.op \in {"break", "continue"} -> {blocks}
    [] s.op \in {"while", "do", "for"} -> {}
    [] OTHER -> UNION {Leaving(t, IF s.op = "block" THEN blocks + 1 ELSE blocks) : t \in Range(Parts(s))}

(* Where the compiler is known to go wrong.                                 *)
(* test() does not look at "invert" when the expression is a constant.      *)
ConstantAssert == \E s \in Within(body) : s.op = "assert" /\ s.c.op = "const"
(* A branch of constant declarations leaves the lastst of what came before  *)
(* it: after a return, the jump or the return at its end is not written.    *)
Silent(s) == s.op = "block" /\ s.ss # <<>> /\ \A t \in Range(s.ss) : t.op = "const"
StaleLast == \E s \in Within(body) : s.op = "ifelse" /\ (Silent(s.a) \/ Silent(s.b))
(* break and continue destroy the symbols of the innermost block only, or   *)
(* those of the block that the loop is in if its own body has none; goto    *)
(* destroys nothing.                                                        *)
LeavesOtherBlocks ==
  \/ \E s \in Within(body) : s.op \in {"while", "do", "for"} /\ ~(Leaving(s.body, 0) \subseteq {1})
  \/ \E s \in Within(body) : s.op = "goto"
(* The table of symbols is only searched up to a dimension of an array,     *)
(* whose nesting level is 0, and the objects of such an array are counted   *)
(* wrong.                                                                   *)
ManyDimensions == \E s \in Within(body) : Declares(s) /\ Len(s.dims) > 1
(* A static variable is destroyed whenever its block ends.                  *)
DestroysStatic == \E s \in Destructible(body) : s.op = "static"

-----------------------------------------------------------------------------
(* The properties *)

Ended == m.end # "none"
Deeds(t) == SelectSeq(t, LAMBDA e : e[1] # 0)

(* The code of a body evaluates the expressions the statements call for, in *)
(* their order, with the variables that are in scope under their names, and *)
(* ends as the statements do: jumps, loops with their reordered parts, case *)
(* tables and the table of symbols together.                                *)
SameFlow ==
  Ended /\ ~ConstantAssert /\ ~StaleLast =>
    LET r == Meaning IN Deeds(m.trace) = Deeds(r.trace) /\ m.end = r.end

(* Wherever an expression is evaluated there are as many cells on the stack *)
(* as the parser thinks, whichever way control came there, and a function   *)
(* returns with an empty frame and never runs into the next one.            *)
FrameBalanced == ~StaleLast => ~m.uneven /\ m.end \notin {"frame", "ran on"}

(* An object with a destructor is destroyed once, when it goes out of       *)
(* scope, after the objects declared after it; outside the known cases.     *)
DestroyedOnce ==
  Ended /\ ~ConstantAssert /\ ~StaleLast /\ ~LeavesOtherBlocks /\ ~ManyDimensions /\ ~DestroysStatic =>
    m.trace = Meaning.trace

(* What is read: the declaration a name stands for where it is used         *)
Resolve(env, n) == LET k == SelectLastInSeq(env, LAMBDA s : s.n = n) IN IF k = 0 THEN 99 ELSE env[k].id
Reads(a, uses) == [a EXCEPT !.read = @ \cup {Resolve(a.env, n) : n \in Range(uses)}]
Condition(a, cond) == IF Asks(cond) THEN Reads(a, cond.uses) ELSE a
RECURSIVE Walk(_, _)
Walk(a, s) ==
  LET scoped(ss) == [FoldLeft(Walk, a, ss) EXCEPT !.env = a.env] IN
  CASE Declares(s) -> LET q == [a EXCEPT !.env = Append(@, s)] IN IF s.op = "new" THEN Reads(q, s.init) ELSE q
    [] s.op = "const" -> [a EXCEPT !.env = Append(@, s)]
    [] s.op \in {"expr", "return", "exit", "sleep"} -> Reads(a, s.uses)
    [] s.op \in {"block"} -> scoped(s.ss)
    [] s.op \in {"if", "ifelse", "while", "do"} -> FoldLeft(Walk, Condition(a, s.c), Parts(s))
    [] s.op = "for" -> [Walk(Walk(Condition(Walk(a, s.init), s.c), s.step), s.body) EXCEPT !.env = a.env]
    [] s.op = "switch" -> FoldLeft(Walk, Reads(a, s.uses), Parts(s))
    [] s.op \in {"assert", "state"} -> Condition(a, s.c)
    [] OTHER -> a
Expected ==
  LET read == Walk([env |-> <<>>, read |-> {}], body).read
      declared == {s \in Within(body) : Declares(s) \/ s.op = "const"}
      assigned(s) == s.op = "new" /\ (s.dims # <<>> \/ s.init # <<>>)
      targets == {s.l : s \in {t \in Within(body) : t.op = "goto"}}
  IN {<<IF assigned(s) THEN 204 ELSE 203, s.id>> : s \in {t \in declared : t.id \notin read /\ t \notin Destructible(body)}}
     \cup {<<203, s.id>> : s \in {t \in Within(body) : t.op = "label" /\ t.l \notin targets}}

(* A body is accepted, and the symbols that are reported as never used, or  *)
(* as assigned and never used, are those no expression in their scope reads *)
(* under their name, but no object with a destructor, for the call of the   *)
(* destructor reads it (unless it stays out, below a dimension); a label    *)
(* belongs to the whole function, and an array counts as assigned, for it   *)
(* is filled.                                                               *)
UnusedExact ==
  c.done =>
    LET objects == {s.id : s \in Destructible(body)}
    IN  {e \in c.says : /\ e[1] < 200 \/ e[1] \in {203, 204}
                        /\ ManyDimensions => e[2] \notin objects} = Expected
=============================================================================
