------------------------------ MODULE StagingInv ------------------------------
(***************************************************************************)
(* What holds of the staging buffer and of the frames of the parser at      *)
(* every step of a program without errors: WriteInv.  The buffer is a sequence *)
(* of brackets (sSTARTREORDER and sENDREORDER), marks and lines; Depth      *)
(* counts the brackets that are open.                                       *)
(***************************************************************************)
EXTENDS Staging

Places == Seq(Int \X Int) \ {<<>>}
Tokens == {Start, End} \cup {Arg(k) : k \in Nat} \cup {Code(p) : p \in Places}
Frames ==
  [kind : {"call", "defaults", "for", "save", "constant"}, at : Nat, arg : Int, nargs : Nat, formals : Nat,
   done : SUBSET Int, named : BOOLEAN, index : Nat, cidx : Int]

PartType == [start : Int, end : Int]

TypeOK ==
  /\ writing \in BOOLEAN /\ staging \in BOOLEAN
  /\ stgbuf \in Seq(Tokens) /\ todo \in Seq(PartType)
  /\ file \in Seq(Places) /\ kept \subseteq Places
  /\ size \in Int /\ code_idx \in Int /\ n \in Nat
  /\ frames \in Seq(Frames)

IsMark(s, k) == s[k].mark = "sEXPRSTART"
IsCode(s, k) == s[k].mark = "code"
IsCall(f) == f.kind \in {"call", "defaults", "for"}

-----------------------------------------------------------------------------
(***************************************************************************)
(* The buffer                                                               *)
(***************************************************************************)
\* Nothing but a mark or the end
Stops(s, k) == k \in DOMAIN s => IsMark(s, k) \/ s[k] = End

\* The brackets at a and c belong together.
Closes(s, a, c) ==
  /\ s[a] = Start /\ a <= c /\ Depth(s, c) = Depth(s, a - 1)
  /\ \A j \in a .. c - 1 : Depth(s, j) > Depth(s, a - 1)

\* The marks of the call at a, as far as c, and their indexes
MarksTo(s, a, c) == {k \in a .. c : IsMark(s, k) /\ Depth(s, k) = Depth(s, a)}
ArgsTo(s, a, c) == {ArgAt(s, k) : k \in MarksTo(s, a, c)}

\* No mark from k to l is that of a call around both.
SameArgument(s, k, l) ==
  \E b \in Int : /\ \A j \in k .. l : Depth(s, j) >= b /\ (IsMark(s, j) => Depth(s, j) > b)
                 /\ \E j \in k .. l : Depth(s, j) = b
\* k is in the argument that begins at the mark x.
InArgumentOf(s, x, k) ==
  /\ x < k /\ IsMark(s, x)
  /\ \A j \in x + 1 .. k : Depth(s, j) >= Depth(s, x) /\ (IsMark(s, j) => Depth(s, j) > Depth(s, x))
\* k and l are in arguments of one call, which begin at x and y.
Arguments(s, x, k, y, l) ==
  /\ k < y /\ InArgumentOf(s, x, k) /\ InArgumentOf(s, y, l)
  /\ Depth(s, x) = Depth(s, y) /\ \A j \in x .. l : Depth(s, j) >= Depth(s, x)

NestedAt(s, l) ==
  /\ Depth(s, l) >= 0 /\ (IsMark(s, l) => Depth(s, l) >= 1)
  /\ l > 1 /\ s[l - 1] = Start => Stops(s, l)
\* What a mark replaces is empty.
ReplacedAt(s, y) ==
  IsMark(s, y) => \A x \in 1 .. y - 1 :
    IsMark(s, x) /\ ArgAt(s, x) = ArgAt(s, y) /\ Depth(s, x) = Depth(s, y)
      /\ (\A j \in x .. y : Depth(s, j) >= Depth(s, x))
    => Stops(s, x + 1)
\* A call that is closed has all its arguments.
CompleteAt(s, c) ==
  \A a \in 1 .. c : Closes(s, a, c) => \E h \in 0 .. sMAXARGS : ArgsTo(s, a, c) = 0 .. h - 1
\* Lines are executed in their order, but for the arguments of a call.
OrderedAt(s, l) ==
  IsCode(s, l) => \A k \in 1 .. l - 1 : IsCode(s, k) =>
    /\ SameArgument(s, k, l) => Before(s[k].at, s[l].at)
    /\ \A x, y \in 1 .. l : Arguments(s, x, k, y, l) =>
         /\ ArgAt(s, x) > ArgAt(s, y) => Before(s[k].at, s[l].at)
         /\ ArgAt(s, x) < ArgAt(s, y) => Before(s[l].at, s[k].at)

SoundAt(s, l) == NestedAt(s, l) /\ ReplacedAt(s, l) /\ CompleteAt(s, l) /\ OrderedAt(s, l)
Sound(s) == \A l \in DOMAIN s : SoundAt(s, l)

-----------------------------------------------------------------------------
(***************************************************************************)
(* The frames, which are open at its end                                    *)
(***************************************************************************)
Base(s, fs, j) == IF j \in DOMAIN fs THEN fs[j].index ELSE Len(s)
Opens(f) == IF IsCall(f) THEN 1 ELSE 0

StackedAt(s, fs, j) ==
  LET f == fs[j] IN
  /\ f.index \in 0 .. Len(s) /\ (f.index > 0 => s[f.index] # Start)
  /\ f.kind \in {"for", "constant"} => j = 1 /\ f.index = 0
  /\ f.index + Opens(f) <= Len(s)
  /\ \A i \in DOMAIN fs : i > j => f.index + Opens(f) <= fs[i].index
  /\ Depth(s, Base(s, fs, j + 1)) = Depth(s, f.index) + Opens(f)
  /\ \A k \in f.index + 1 .. Len(s) :
       /\ Depth(s, k) >= Depth(s, f.index) + Opens(f)
       /\ ~IsCall(f) /\ IsMark(s, k) => Depth(s, k) > Depth(s, f.index)
  /\ IF IsCall(f) THEN s[f.index + 1] = Start ELSE f.arg = NoArg
Stacked(s, fs) ==
  /\ Depth(s, Base(s, fs, 1)) = 0
  /\ \A j \in DOMAIN fs : StackedAt(s, fs, j)
  /\ s # <<>> /\ s[Len(s)] = Start => fs # <<>> /\ IsCall(Last(fs)) /\ Last(fs).index + 1 = Len(s)

\* The last mark of the call at a as far as c
LastMark(s, a, c, x) == x \in MarksTo(s, a, c) /\ \A y \in MarksTo(s, a, c) : y <= x

\* Code may follow.
Inside(f) == IF f.kind = "for" THEN f.arg # NoArg ELSE IsCall(f) => f.arg \in f.done
Begun(fs) == \A j \in DOMAIN fs : fs[j].kind = "for" => fs[j].arg # NoArg
Taken(s, f) ==
  LET a == f.index + 1
      I == ArgsTo(s, a, Len(s))
  IN /\ I = {} => f.arg = NoArg
     /\ I # {} => \E m \in DOMAIN s : LastMark(s, a, Len(s), m) /\ ArgAt(s, m) = f.arg
     /\ f.kind = "for" => f.arg \in {NoArg, 0, 1} /\ I = 0 .. f.arg
     /\ f.kind # "for" =>
          /\ f.done \subseteq I /\ f.formals <= MaxFormals
          /\ \E p \in 0 .. sMAXARGS :
               /\ f.kind = "call" /\ ~f.named => p = f.nargs
               /\ 0 .. p - 1 \subseteq I /\ I \subseteq (0 .. p - 1) \cup (0 .. f.formals - 1)
          /\ \A m \in MarksTo(s, a, Len(s)) : ArgAt(s, m) \notin f.done => Stops(s, m + 1)
Parsed(s, fs) ==
  \A j \in DOMAIN fs : /\ IsCall(fs[j]) => Taken(s, fs[j])
                       /\ j # Len(fs) => Inside(fs[j])

\* What the place of a line says of the calls around it
Bounded(p) == \A h \in DOMAIN p : p[h][1] <= Line(p)
PlacedIn(s, k, f, j) ==
  LET p == s[k].at IN
  /\ Len(p) > j /\ p[j][1] = f.at
  /\ IF IsCall(f) THEN \E x \in DOMAIN s : LastMark(s, f.index + 1, k, x) /\ p[j][2] = -ArgAt(s, x)
     ELSE p[j][2] = -NoArg
Placed(s, fs) ==
  \A k \in DOMAIN s : IsCode(s, k) =>
    Bounded(s[k].at) /\ \A j \in DOMAIN fs : fs[j].index < k => PlacedIn(s, k, fs[j], j)

Good(s, fs) == Sound(s) /\ Stacked(s, fs) /\ Parsed(s, fs) /\ Placed(s, fs)

\* What is behind a frame was generated after it.
Numbered(s, fs, m) ==
  /\ \A k \in DOMAIN s : IsCode(s, k) => Line(s[k].at) < m
  /\ \A j \in DOMAIN fs :
       /\ fs[j].at <= m
       /\ \A k \in DOMAIN s : IsCode(s, k) => (Line(s[k].at) < fs[j].at <=> k <= fs[j].index)

-----------------------------------------------------------------------------
(***************************************************************************)
(* The code index, the file, and what stgstring() still has to do           *)
(***************************************************************************)
Codes(s, k) == {j \in 1 .. k : IsCode(s, j)}

In(p, k) == k \in p.start .. p.end
\* The lines that are to be written yet
Waiting(s, td) == {k \in DOMAIN s : IsCode(s, k) /\ (td # <<>> => \E i \in DOMAIN td : In(td[i], k))}
Pending == Waiting(stgbuf, todo)

PartInv(s, p) ==
  /\ 1 <= p.start /\ p.start <= p.end + 1 /\ p.end <= Len(s)
  /\ Depth(s, p.end) = Depth(s, p.start - 1)
  /\ \A k \in p.start .. p.end : /\ Depth(s, k) >= Depth(s, p.start - 1)
                                 /\ IsMark(s, k) => Depth(s, k) > Depth(s, p.start - 1)
\* p is written before q.
Precedes(s, p, q) ==
  \A k, l \in DOMAIN s : In(p, k) /\ In(q, l) =>
    k # l /\ (IsCode(s, k) /\ IsCode(s, l) => Before(s[k].at, s[l].at))
Parts(s, td) ==
  /\ \A i \in DOMAIN td : PartInv(s, td[i])
  /\ \A i, j \in DOMAIN td : i < j => Precedes(s, td[i], td[j])
TodoInv == Parts(stgbuf, todo) /\ (todo # <<>> => frames = <<>> /\ staging)

\* The lines fl in the file are older than what is at work, in order, and
\* ahead of the lines C in the buffer.
Older(fl, fs, m) ==
  \A k \in DOMAIN fl : /\ Bounded(fl[k]) /\ Line(fl[k]) < m
                       /\ \A j \in DOMAIN fs : Line(fl[k]) < fs[j].at
InSequence(fl) == \A k \in 1 .. Len(fl) - 1 : Before(fl[k], fl[k + 1])
Ahead(fl, s, C) == fl # <<>> => \A k \in C : Before(fl[Len(fl)], s[k].at)

\* The code index cx counts the lines in the file and in the buffer, and no
\* other lines are kept.
Accounts(fl, sz, s, C, fs, cx, kp) ==
  /\ cx = sz + Cardinality(C)
  /\ \A j \in DOMAIN fs : fs[j].cidx = sz + Cardinality(Codes(s, fs[j].index))
  /\ kp = Range(fl) \cup {s[k].at : k \in C}

FileInv ==
  /\ ~writing => file = <<>>
  /\ Older(file, frames, n) /\ InSequence(file) /\ Ahead(file, stgbuf, Pending)
  /\ writing => Accounts(file, size, stgbuf, Pending, frames, code_idx, kept)

OkInv ==
  /\ ~staging => stgbuf = <<>> /\ frames = <<>>
  /\ Begun(frames)
  /\ Good(stgbuf, frames) /\ Numbered(stgbuf, frames, n)
  /\ TodoInv /\ FileInv

WriteInv == status = "ok" => TypeOK /\ OkInv
=============================================================================
