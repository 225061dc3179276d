# amxxpc: a verification development

This directory holds TLA+ specifications of the AMX Mod X plugin compiler kept in
this repository: the command line front end `amxxpc`, the Pawn compiler it drives
and the packager that turns a compiled `.amx` image into an `.amxx` file. TLC
checks the specifications on small instances; TLAPS proves the theorems of the
`*Proofs` modules for every value of the constants.

## 1. The system

`core/src` below stands for `src/libs/pawn/compiler/legacy/core/src`.

| part | source | state | operations | talks to |
|---|---|---|---|---|
| Application | `src/apps/amxxpc/src` | the files on disk, the exit code | parse arguments, compile every input, package every image, report an exception | Cmdline, adapter, Builder |
| Command line | `src/libs/interface/cmdline` | option map, definition map, input list | parse argv, find and load configuration files, build the normalized argument list | Application, legacy option parser |
| Compiler adapter | `src/libs/pawn/compiler/legacy/adapter` | the option table | compile one file; compile all files up to the first failure | `pc_compile()` |
| Compiler driver | `core/src/sc1.c` 509-1076, `libpawnc.c` | open files, buffers, pass status, counters | option parsing, skimming passes, write pass, cleanup | everything below, by calls and by `longjmp()` |
| Diagnostics | `core/src/sc5.c` | error and warning counters, panic flag, warning masks and their stack | `error()`, `errorset()`, `#pragma warning` | the driver (`longjmp`), the source reader |
| Source reader, preprocessor | `core/src/sc2.c` 70-1100 | current file, parser stack, `#if` stack, comment flag | read a line, include, `#if`/`#elseif`/`#else`/`#endif`, `#endinput` | driver, diagnostics, symbol table |
| Macro substitution | `core/src/sc2.c` 1576-1975, `sclist.c` | substitution table | match and replace patterns | lexer |
| Lexer | `core/src/sc2.c` 2159-2620 | push-back, current token | `lex`, `lexpush`, `matchtoken`, `needtoken` | parser |
| Parser and code generator | `core/src/sc1.c` 1890-6512, `sc3.c`, `sc4.c` | symbols, labels, stack and heap depth, loop queue, literals | declarations, statements, expressions, code emission | staging buffer, diagnostics |
| Symbol table | `core/src/sc1.c`, `sc2.c` | symbols, references between functions | add, find, delete, count references over passes | parser, assembler |
| Automata | `core/src/scstate.c`, `sc4.c` 39-167, `sc1.c` 3126-3249, 6193-6287 | automaton and state tables, lists of states, selectors | add, look up, conflict detection, jump tables, `state` | parser, code generator, the running program |
| Staging and peephole | `core/src/sc7.c`, `sc7-in.scp` | staging buffer and its index | mark, write, flush, delete, reorder, optimise | code generator, memory file |
| Memory file | `core/src/memfile.c`, `scmemfil.c` | a growing buffer, its length and offset | create, seek, read, write, gets, puts | assembler |
| Assembler | `core/src/sc6.c` | label table, code index, image | two scans, header, compact encoding | driver, memory file |
| AMX reader | `src/libs/pawn/image/amx` | an input stream | open, read and check headers, read the image, close | Builder |
| AMXX builder and writer | `src/libs/pawn/image/amxx` | an output stream | read, compress, write header, entry and body, close | Application |
| Binary streams, compression | `src/libs/core` | none of their own | typed reads and writes, `compress()` | reader, writer, builder |

Interaction. The application is one thread. It calls the compiler once per input
file; the compiler keeps its state in global variables that `initglobals()` resets
at the start of a call (some of them it does not reset). Some of them have two users that do not know of each other: the
parser stack holds the files that include others and, above and between them, flags
of expressions that are being parsed. Inside one compilation
control does not only return: `error()` abandons the compilation with `longjmp()`
from any depth, and the code after the label `cleanup` must be right whatever has
been opened, allocated or already released at that moment. After all inputs are
compiled the images are packaged one by one, with exceptions as the way out.

Hard behaviours: the jump to the cleanup, and the second jump from within it; the
two-pass scheme, in which the skimming pass must be silent and the write pass must
see the same source; state that outlives a pass or a compilation (warning masks,
the parser stack) and state that two parts share (the parser stack); a configuration that is applied by two independent parsers;
images of several inputs that meet on one path; a failure half-way through a
sequence of files; buffers that grow while they are written to.

What makes each component correct:

| part | correct when |
|---|---|
| Application | success means that every input has a package of its own; a failure destroys nothing that was there before |
| Command line | the settings do not depend on an accidental order; the two parsers agree on what they share; a file the user named is used or refused |
| Compiler driver | it returns; success means an assembled image; no image is left after errors; what was opened is closed, once |
| Diagnostics | nothing is reported twice, the limit is kept, a disabled warning is disabled where the text says so |
| Preprocessor | exactly the lines that the nested `#if` sections select are compiled, in every file |
| Parser, generator, symbols | both passes give the same objects the same places; what nobody uses leaves no trace |
| Expressions, statements | the generated code does what the text means, for every value and every decision, and leaves stack and heap as they were |
| Automata | exactly the conflicting definitions are refused; a call runs the implementation of the state its automaton is in |
| Staging | every line that was generated and not scrapped is written once, in the order of execution; the code index is the size of the code |
| Assembler | every jump, call and data address leads to what the source meant, with and without compact encoding |
| Packager | the package holds the whole image; the image is removed only then |

The hazards, each at its line, are in `PROJECT.json` with the properties that
watch them.

## 2. Plan

Order: outside in for what users rely on (a compilation's outcome, the packages),
then inside out along the code of a program, from the text to the image.

| step | modules | state |
|---|---|---|
| 1 | `PawnCompile`, its abstract specification `CompileContract`, `PawnCompileProofs` | done |
| 2 | `Amxxpc`, which uses `CompileContract` for a compilation, `AmxxpcProofs` | done |
| 3 | `Cmdline` | done |
| 4 | `Preproc`, its abstract specification `Conditional` | done |
| 5 | `Warnings` | done |
| 6 | `Staging` | done |
| 7 | `Generator` and `Assembler`, which extends it | done, without natives, states, debug information |
| 8 | `Machine`, `Expressions`, `Evaluation`: expressions from the parser to the registers of the abstract machine, with constant folding, tags and arrays | done |
| 9 | `Statements`, `Flow`: every statement, scopes, the frame at every exit of a block, destructors, unused symbols | done |
| 10 | `States` and its abstract specification `Automata`, `StatesInv`, `StatesProofs` | done |
| proofs | of the driver's other invariants (step 1), `CmdlineProofs` (step 3), `PreprocProofs` (step 4), `WarningsProofs` (step 5), `StagingInv`, `StagingProofs` (step 6), `AssemblerInv`, `AssemblerProofs` (step 7), `StatesInv`, `StatesProofs` (step 10) | done |
| open | names of include files and file numbers of static globals; `lexinit()` over repeated skimming passes; natives, libraries and the tables of the image; headers of image and package | only if they can be told apart from a transliteration |

Abstract specifications: `CompileContract` (a compilation for its caller),
`Conditional` (nested sections for the preprocessor), `Automata` (what a program
with states does); `Evaluation` and `Flow` say what an expression and a function
body mean, as a reference for the code that is generated. Modules that only TLC
uses may be recursive (`Expressions`, `Evaluation`, `Statements`, `Flow`); the
others are written with functions and sets, so that they can be
proved about.

## 3. The modules

### PawnCompile, CompileContract

One call of `pc_compile()`. `pc` is the place in the function, one value per
group of statements with no diagnostic inside; `inpf`, `open`, `depth` are the
source files, `outf`, `binf`, `image` the outputs, `errnum`, `warnnum`, `errflag`
and `errorcount` the counters of `error()`, `jmpcode` what `setjmp()` returned.
The text of the program is not given: at every point of the parsing a step may
include a file (`Plunge`), begin or end something that keeps flags on the parser
stack (`OpenExpression`, `CloseExpression`: a parenthesis, a condition, the
conditional operator, a case label), end a file (`PopFile`, `LoseFile`,
`StopReading`), read `#endinput` (`EndInput`), raise any diagnostic (`Diagnose`), ask for another skimming pass
(`RequestReparse`), push or pop warnings, or resynchronise after an error.
`Raise` is `error()`: silent, counted, printed, or a jump to the cleanup, which is
also how the cleanup is entered for a second time (`CheckLimit`, `ClearWarnings`,
`AssembleFails`). `misuse` collects what is released or printed after its
release.

The parser stack is a sequence of items, seven for a file that includes another and
one for each flag; `calls` is what the parsers that are still running are going to
pop. `readline()` takes the top seven for the state of the includer without looking
what they are. `PopFile` is the end of a file for which they are that state;
`StopReading` that of the main file, with the stack empty. In every other case
(`LoseFile`) the file that is read from now on is a number or a flag, and the name of
it a pointer made of one: the behaviour of the program is undefined, and `pc` is
"undefined". A file may also end with the flags it has found, not begun: then it takes
the includer's, or leaves its own, and `crossed` records that from here on nothing is
claimed about the source files.

`CompileContract` is what `PawnWrap::compile()` may rely on: the `.amx`
file goes from absent or stale to partial and from there to complete, short (the
disk was full when it was closed) or absent, and a return value of 0 or 1 goes
with an assembled image.

### Amxxpc

`Application::run()`: `Compile` for each input, with any outcome the contract
allows, then `ReadAmx`, `OpenAmxx`, `WriteAmxx`, `RemoveAmx` for each, any of
which may throw. `pathOf` assigns an image path to every input; paths may
coincide. `amx` and `amxx` are the files on disk with the input each was made
from, and files of an earlier run are there at the start.

### Cmdline

`Parser` and `Arguments` (two passes: the command line, then the configuration
files), the normalized argument list in an order that the unordered map chooses,
then the compiler's own `setconfig()`, `parserespf()` and `parseoptions()` over
it. The options are one of each way in which the two parsers can treat an option: a
setting that an option changes from what it was (`-w` without a sign toggles), one that
the last option gives (`-o`), two keys of the front end that are one setting of the
compiler (`-\` and `-^`, the control character), one that only the front end keeps
(`-T`), and the definitions. A definition `name=value` whose value is a number is a
constant, of which the last one stays; any other value is a text, and the texts are
put before the program in such an order that the first one counts, and ahead of the
numbers (`Define`, `Meaning`). `-o` may have no value, or a value in quotes, which the
compiler removes (`Unquoted`) and the packager does not (`PackagedName`); the input is
handed over first, and names the image unless a name is known by then (`NameInput`).

Neither parser is aware of the other: the front end (`Add`, `Collected`) sorts what it
reads into a list for each key and keeps the first definition, without knowing what an
option means; the compiler (`Apply`, `Settings`) changes a setting with every option it
meets. A line of a configuration file is one argument for the front end, whatever it
contains (`WholeLine`), and as many options as it has words for the compiler
(`WordsOf`). There is one warning, one constant, one input. Not modelled: `-D`, a value
that begins with `=` or `:` (which the two skip differently), and values cut off at
`sNAMEMAX` or `_MAX_PATH`.

### Preproc, Conditional

`command()` for `#if`, `#elseif`, `#else`, `#endif`, `#include`, `#endinput`, and
`readline()` at the end of a file: `iflevel`, `skiplevel`, one bit field per level
(stale entries included), the levels saved on the parser stack. `Conditional`
is the textbook meaning: a stack of modes. Conditions are chosen freely. What the
code does to a section of the including file is kept (`crossed` records it), and
the claims stop there. So they do at the end of a file that leaves flags of an
expression on the parser stack (`LoseFile`): every item is then taken for another, and
the levels are those of a file further out, or a flag.

### Warnings

One warning number: the mask bit and the stack of `#pragma warning push`, over
the skimming passes, the write pass and `clear_warningstack()`. `Meaning` is
what the text says, folded over the items before a line.

### Staging

The buffer with its marks, as `callfunction()`, `dofor()`, `preproc_expr()` and
constant expressions fill it; `stgout()`, `stgstring()` and `stgdel()` empty it. A
line of code is its place in the order of execution. The frames of the parser
(`call`, `defaults`, `for`, `save`, `constant`) are a stack, so that calls nest in
arguments. `stgstring()` calls itself for each argument of a call: what it still has
to do is a list of parts of the buffer (`todo`), and its steps are `Reorder` (a part
begins with a call, and becomes its arguments, the last one first, and what is
behind it), `Stgopt` (the lines up to the next call go through the optimizer to the
file) and `Return`. An #if inside an expression (`CutOff`) leaves the frames without
a buffer. `StagingInv` has the inductive invariant (section 5).

### Generator, Assembler

`Generator` parses a program twice, as `pc_compile()` does: a sequence of tokens
for globals, functions (with a default argument), uses, calls, literals, static
locals, loops and `#pragma align`. It keeps the addresses (`addr`, `defaddr`), the
counters (`code_idx`, `glb_declared`, `sc_labnum`), the literal queue, the
references between functions, and the assembler file `asm`. Every operation of
the parser is one action that works in both passes; `sc_status` decides whether
its lines reach the file. Between the passes `BeginWritePass` is
`reduce_referrers()` (`Dead`, `Unused`) and the reset of the globals. `Assembler`
reads the file three times (labels, code, data), and may find after any line that
compact encoding does not pay and begin again. Every cell of the image remembers
where it is from, which makes "the address leads to what was meant" a formula.
Sizes are counted in cells; a line that the properties do not look at is an
instruction of the size the source adds to `code_idx`. `AssemblerInv` has the
inductive invariant of both (section 5).

### Machine, Expressions, Evaluation

`Expressions` is the code that `sc3.c` and `sc4.c` generate for one expression.
`Parse` follows `hier14()` down to `primary()` with the value structure (`ident`,
constant value, tag, what it did to the heap) and the staging buffer as its
result, so that scrapping (`stgdel()`), swapping of operands, loading a constant
late, the prefix and suffix of a chain, and the look-up of a user-defined operator
are where the source has them. `Generate` parses the expression of the behaviour,
`Run` executes one instruction after the other on `Machine`, which is the part of
the AMX that the generated instructions use: the two registers, the stack, the
heap and a memory of cells of `CellBits` bits, in two's complement. `Call` steps
over a function, which looks at its arguments and changes those it may change. A
default is a value that is converted from the tag it was declared with, a cell of the
heap, an array that is copied there unless the function cannot change it, or an array
by its name (`Default`); a constant variable goes through `...` as a copy (`Protected`). `Evaluation` is what the expression means in the Pawn
language, by recursion over its tree, without registers.

### Statements, Flow

`Statements` is `statement()` and all the functions it calls, for the body of one
function: labels, jumps, `declared`, the loop queue, `lastst`, the symbol table
with its nesting levels, `destructsymbols()`, `testsymbols()`, `delete_symbols()`.
The call of a destructor loads the address of the object, which marks it as read
(`Addressed`), and it is generated before the symbols are tested.
`Generate` produces the code, with expressions as single instructions, and a
behaviour executes it: a condition is decided freely (`Decide`), everything else
is determined, and the cells of the frame are followed so that a jump with the
wrong stack is found. `Flow` says which symbols are unused in the text (an object with
a destructor never is) and executes the tree of statements itself, with the
decisions that were made. `MCStatements` puts every statement into every loop,
branch and case.

### Automata, States

`Automata` is a running program with automata: `Enter` brings one into a state and
calls the entry function of that state, `Call` runs the implementation for the
state the automaton of the function is in, or the fall-back, or stops. `States` is
how the compiler gets there: `Item` and `Define` read the definitions in both
passes (`getstates()`, `attachstatelist()`), with the tables of `scstate.c` and
what is attached to each function; `SecondPass` checks for conflicts and writes
selectors, stubs and jump tables (`writeleader()`); `Finish` compiles the `state`
statements of `main()`; then `Enter` and `Call` run what was written. The
refinement maps the cell of a selector to the state it stands for, and to none in a
program without selectors; a program that is not accepted, or is one of the
exceptions of section 6 (`Kept`), is idle. What a program calls by name is defined
in it, and is not the entry function: that one has no stub (`sc4.c:116`), and only
`state` calls it.

## 4. The runs

| run | states | shows |
|---|---|---|
| `compile` | 1,098,000 | six invariants of the driver, that it implements the contract, and that it returns |
| `compile_files_end` | violation | a file that ends inside an expression makes `readline()` take a flag for a file |
| `amxxpc` | 56,784 | success means a package per input; packages and images are not lost |
| `cmdline` | 1,593,984 | where both parsers agree, and where not; no accidental order but that of `-\` and `-^` |
| `preproc` | 25,568 | the levels and bit fields implement nested sections |
| `warnings` | 210,936 | scoped pragmas mean what they say in every pass |
| `staging` | 8.01 million | completeness, order and size of the generated code |
| `assembler` | 1.92 million | jumps, calls, data addresses, the header, nothing idle |
| `expressions` | 64,382 | the generated code computes what the expression means and leaves stack and heap as they were |
| `statements` | 301,380 | the generated code does what the statements mean, on a balanced frame, and destroys every object once |
| `states` | 93,338 | exactly the conflicting programs are refused, the others run the implementation of their state |
| `states_stack` | violation | the return from an entry function takes what is on the stack of its caller |

Bounds, and why they are enough to meet the interesting cases:

- `compile`: `MaxErrors = 3` (25 in the source; only whether the limit is reached
  matters), two nested includes (one to return to that is itself included), four
  events per pass, enough for an expression to begin, a file to begin in it, and both
  to end in either order; one extra skimming pass, all kinds of output. The theorems
  remove these bounds.
- `amxxpc`: three inputs over three paths, so that two coincide and one does not,
  in every order; leftovers of an earlier run for every path. The theorems remove
  this bound.
- `cmdline`: up to two of twelve options on the command line, up to two in each of
  three configuration files: enough for "the same option twice", from any two
  sources, with and without value, in quotes, as a number and as a text, and for
  both control characters in either order. The theorems remove these bounds.
- `preproc`: three levels of `#if` and two include levels: a live section, a
  skipped one in it, and one inside that; `sCOMP_STACK` is a constant of the
  source (32) and its limit is reached.
- `warnings`: all sources of up to five items, two skimming passes.
- `staging`: calls of up to two arguments, three lines of code, two frames, a
  buffer of ten tokens that can overflow. The theorems remove these bounds.
- `assembler`: 12,348 programs of two variables (one and two cells), two functions
  and `main()`, with bodies and defaults of seven kinds, alignment to two cells.
  They contain unused variables, unused functions that are skipped between used
  ones, calls before the definition, recursion, default arrays first reached
  from a skipped function, nested loops.

- `expressions`: cells of seven bits and two bytes, so that arithmetic wraps and
  every signed comparison has both outcomes, while addresses still fit; one or two
  of everything an expression can name; about 2400 expressions of up to three
  operands (four in chains), from two memories. A longer row only repeats the loop
  of `plnge()`.
- `statements`: about 760 bodies, with every statement inside every loop, branch
  and case, and loops in loops; conditions take the values 0 to 2, at most
  `Decisions` (4) are made in a behaviour, which then stops undecided, as its
  meaning does; loops are left before, in and after their first and second turn.
  `Loops` (24) is the size of the loop queue in the source.
- `states`: all programs of up to three definitions out of sixteen, with two
  automata (the anonymous one and a named one), lists with a state twice, in two
  orders and over two automata, fall-backs, definitions without states, prototypes
  and the entry function.

`CHECK_DEADLOCK FALSE` is said where the system ends in a state without a step;
`Assembler` has an explicit last step instead, so that a pass which gets stuck is
found.

Fairness: only `FairSpec` of `PawnCompile` assumes any, `WF_vars(Next)`: the
compiler is one thread that nothing outside can block, so it takes a step as long
as it has one. `Termination` says that the cleanup is not entered for ever. That
the source text is finite is the bound `MaxLines`.

## 5. What is proved

`PawnCompileProofs`, for every error limit, include depth, number of lines and
passes (natural numbers) and every set of output modes:

- `TypeCorrect`: the type invariant. It is inductive with no strengthening, but
  it is proved in two halves, `FlagsOK` for the Boolean variables and `ValuesOK`
  for the others.
- `SuccessCorrect`: `SuccessMeansImage`. By itself it is not inductive, since it
  only speaks of the end. `SuccessInv` adds how the end is reached: a jump comes
  with an error or before anything could be reported, the assembler is only
  entered without error and jump, and whoever leaves it so has completed the
  image.
- `ContractKept`: every step is a step of `CompileContract` or leaves its
  variables alone. `OutputInv` supplies what the contract's guards ask of the
  image at each place of the function.

The second half of the module is about the other invariants. Most steps may call `error()`, so what such
a call amounts to is established once (`Outcome`), and the parts of `DriverInv` are
proved over it:

- `SkimmingSilent` (`SkimmingIsSilent`): needs `PhaseInv`, which says at which places
  of the function the status is that of the skimming pass.
- `IncludersStayOpen` (`IncludersOpen`) and `SourcesAreClosed` (`SourcesClosed`), both
  as long as every expression ends in the file it begins in (`~crossed`): from
  `SourceInv`, which says which source files are open at each place, by the depth of
  inclusion. While the source is read, that depth has to be found in the items of the
  parser stack: `Level` says that there is a place in it for every file (`Framed`), with
  the seven items of the includer below the place and nothing but flags above it.
  `FramePushed`, `FlagsTopped` and `FramePopped` keep it; `FrameFound` and
  `NoFileUnderFlag` say that `readline()` finds the includer, or else there is a flag on
  top. In that case `LoseFile` sets `crossed`: under `~crossed` it is never taken, which
  is the first conjunct of `IncludersOpen`. What happens otherwise is the run
  `compile_files_end`.
- `MisuseOnlyLate` (`MisuseOnlyWhenLate`): needs `ReleaseInv`, what has been released
  at each place, before the cleanup and on the first way through it.
- `ErrorsAreBounded` (`ErrorsBounded`): needs `BoundInv`: the limit holds until the first
  jump, each of the two jumps adds at most one error, and after that `error()` is silent.

`AmxxpcProofs`, for every number of inputs and every set of paths:

- `TypeCorrect`.
- `SuccessCorrect` (`SuccessBuildsAll`), `OldPackagesSafe`, `ImagesNotLost`. They
  follow from `FilesInv`: while inputs are compiled, every image so far is of an
  input with that path; while input `i` is packaged, the inputs before it have
  their packages, no image, and paths of their own, because reading a second image
  from the same path would have failed. From the last point it follows that two
  inputs with one path never end in success.

`CmdlineProofs`, for every command line and all configuration files, of any length
(for one warning and one constant):

- `AnyOrder` (`OrderIrrelevant`): whatever the order of the unordered map, the name and
  the warning are those of the text as it stands, and so is the control character,
  unless both `-\` and `-^` are given. It is no accident that the control character is
  the exception: `Touches` says which keys change which setting, and a list of a key
  that touches no other list's setting can be moved (`SettingsKeep`, `OneOrder`).
- `SameName` (`NamesAgree`): where they read the same text, the names of the packager
  and of the compiler are the same if and only if the last `-o` has a value without
  quotes, or there is none.
- `FirstDefined` (`CommandLineDefines`): what the command line defines first stands,
  number or text, provided the configuration file the compiler reads for itself has no
  text definition; a text there beats everything (section 6).

All three speak of the end, where the compiler has applied its own configuration file
and then the lists of the front end. They follow from `SettingsInvariant`: at every step
the lists fit what the front end has read so far (`Fits`): each holds options of its own
key (`OneKeyEach`), none has been left out (`AllKept`), the first definition has stayed,
and *from any settings* the list of a key leads to the same setting as the whole text, if
no other list changes it (`SameSettings`, `Alone`). "From any settings" is needed because
the compiler starts from what its own file says, and the lists were made before that is
known. That an option changes its setting, and that the result depends on the same
setting before and on no other (`SettingsSame`), gives the rest; `ListedDoes` applies it
to the arguments that are handed over, in whatever order.
`NamesAgree` also compares the two readings of one file, line by line and word by
word; with one word in a line they are the same (`JoinedWords`).
`Settings`, `Collected` and `Joined` are recursive functions along a sequence:
`FoldExists` gives the function, from the least place where there would be none, and
`AllSequences` replaces induction: a set that contains the empty sequence and, with a
sequence, every longer one by an element at its end, contains all sequences.
`TextAssumption` asks that an argument of the command line, and a word of a file, is
one option, and that no line is empty (`load_config()` drops those).

`PreprocProofs`, for every depth of sections and of include files:

- `LevelsAlwaysAgree` (`LevelsAgree`): `iflevel` and `skiplevel` are equal wherever
  lines are compiled, and every section around a skipped one is live. At the end of
  an include file both levels are restored from one saved value, so `SavedInv` has to
  say that the sections up to that value are still live.
- `SelectionCorrect` (`SelectsLines`): every step is a step of `Conditional` or
  leaves the stack of modes alone; a file that is lost in an expression (`LoseFile`) only
  drops files from the stack of `Conditional`, and nothing is claimed from there on. `SectionFacts` reads the mode of a section from
  its bits; bit fields above the level are stale and may be anything.

`WarningsProofs`, for every source and every number of skimming passes:

- `ScopedIsExact` (`ScopedPragmasExact`) and `HidesOnly` (`OnlyHides`). A pass begins
  with the mask the one before has left, so an invariant about the line being read
  is not enough: the mask that was pushed first is the one the text began with
  (`BottomMask`), for as long as the text is well used, and a text that is well used
  in the end was so all along (`ScopedAll`).

`StagingProofs`, for every number of arguments (two at least: a `for` has two parts),
nesting, number of lines and size of the buffer:

- `LinesWritten` (`EveryLineWritten`), `LinesInOrder` (`OrderOfExecution`),
  `CodeIndexIsSize` (`CodeIndexExact`) and `StackIsDefined` (`UndefinedOnlyAfterError`).
  All four follow from `StagingInvariant`: `WriteInv` holds at every step of a program
  without errors. It begins with the types of the variables, which are claimed only
  there, and its parts are
  - `Sound`, of the buffer alone, token by token: brackets are nested (`NestedAt`), a
    call that is closed has the marks 0 to `h`-1 (`CompleteAt`), a mark that is set a
    second time replaces nothing (`ReplacedAt`: what was ignored has no code), and of
    two lines the first is executed first, unless they are in two arguments of one
    call, where the index of the arguments decides (`OrderedAt`).
  - `Stacked`, `Parsed`, `Placed`: the frames are the brackets that are open at the end
    of the buffer; what each call has marked is what its frame says (`Taken`); the
    place of a line names the calls around it and their argument at that line.
  - `Numbered`: the numbers of the lines grow along the buffer and the frames, so
    that cutting the buffer (`stgdel()`) takes exactly the lines generated since.
  - `TodoInv`: the parts `stgstring()` has to do are balanced and disjoint, and every
    line of one is executed before every line of the next.
  - `FileInv`: the file is in order and ahead of what waits (`Ahead`); the lines in both
    are the ones kept, and `code_idx` counts them (`Accounts`), as it did at every
    frame.
  One lemma says for each thing that can happen to the buffer (a line, a mark, a
  bracket, a frame, a cut) that it stays good (`GoodLine`, `GoodMark`, `GoodStart`,
  `GoodEnd`, `GoodSave`, `GoodCut`), one that the file and the code index keep up
  (`Keep...`), and one for each action puts them together. The step that matters
  most is `ReorderStep`: from `Sound`, the arguments of a closed call are there
  (`DefinedFacts`) and, from the last to the first, are parts as `TodoInv` wants
  them (`ReorderedParts`). Positions in the buffer are reached through least
  elements (`Least`, `Greatest`) instead of induction. TLC has checked `WriteInv` but
  for the types, on 4.5 million states of the run `staging` with a buffer of eight
  tokens.

`AssemblerProofs`, for every set of programs (any sequence of tokens, whatever
references and calls it makes), every set of names, sizes of variables and literals, and alignment:

- `HeaderSplitsHolds`, `JumpsLandHolds`, `CallsLandHolds`, `NothingIdleHolds`,
  `DataLandsHolds`: the five invariants of the run `assembler`, each of which speaks
  of the finished image only. None is inductive: what makes them true happens two
  passes earlier. `IInv` in `AssemblerInv` says what holds on the way, one named
  part for each question:
  - `PlaceInv`, `FirstInv`, `ReferInv`: in the skimming pass, the file stays empty, and
    the referrers of a symbol are exactly the functions whose bodies refer to it.
  - `AliveInv`: what `reduce_referrers()` makes of this. A function is written if and
    only if it is alive, what an alive function refers to is used, and what is used
    an alive function refers to.
  - `FileInv`: the counters are the sizes of what has been written; while a function
    is skipped, the saved ones are. This is why the addresses behind it are right.
  - `CallInv`, `LabelInv`: only alive functions are called, and each that was written
    has its `proc` line at its address; no label is set twice, and a jump has its
    label or leads out of a loop that is still open.
  - `IdleInv`: what stands in the file is wanted, and every reference of an alive
    function that was passed has its line.
  - `DataInv`: an address leads to an object that has been dumped there, or that
    waits in the literal queue of the function being written.
  - `StoreInv`, `HeaderInv`, `LineInv`, `TableInv`, `CodeInv`, `ImageInv`: how much of the
    file the assembler has read, and that the label table, the code and the data
    are what these lines make; a restart without compact encoding begins again with
    none of them.
  `AliveInv` is needed because calls may lead forward: a call is written before it is
  known where, or whether, the function will be. That it will be follows at the end
  of the pass from `AliveRefers`. Offsets are sums over the file; that a sum exists,
  grows with a line and does not change when lines are added is proved
  from the least element of a set of numbers, since induction
  cannot be used directly. `GeneratorAssumption` asks that variables and functions
  have different names, because both are in one table of globals and the second
  declaration of a name is error 21. TLC has checked `IInv` on the programs of the
  run `assembler`.

`StatesProofs`, for every set of programs and function names:

- `UniqueIds` (`IdsUnique`). The ids are not counted: each new one is one more than
  the highest in the table, which is found by looking through it. So the invariant
  needs, for each of the three tables by itself, that there is a bound to its ids
  at all (`AutomataOK`, `StatesOK`, `ListsOK`). `HighestBounds`, from the smallest
  bound (`<` is well-founded), gives the highest one; that adding keeps the table's
  invariant is then a lemma for each table, and `Item` and `Define` are the only
  actions that add.
- `ConflictsAreExact` (`ConflictsExact`) and `WarningsAreExact` (`WarnedExact`). Both
  compare what the compiler said in two passes with predicates on the text of the
  program. What connects them is `DefsInv` in `StatesInv`:
  - `KnownInv`, `ItemInv`, `OriginInv`: every definition that has been read has its id
    in the tables, built item by item (`Gather` says what `getstates()` makes of the
    first `n` items), and every state with a name comes from an item. Ids are kept
    when tables grow (`IdKept`), and the second pass adds nothing (`NextGrows`,
    `LaterSame`), because all it looks up is there.
  - `AttachedInv`, `MetInv`: the ids attached to a function are those of its
    definitions, each once, and placed if this pass has met such a definition.
    With them the three conditions of `attachstatelist()` become statements about
    earlier definitions (`ReadAgain`).
  - `WarnedInv`: the warnings are those of `writeleader()`, for tables that do not
    change any more.
  - `SoundInv`: a well-formed program, with one automaton for the entry function, has
    no error. `CompleteInv`: conversely, what was read without error is well-formed
    so far; its parts say for each error what its absence shows.
  The predicates `Mixed`, `Repeated` and `EntryMachines`, which section 6 explains, are
  hypotheses of the properties; `SoundInv` and `CompleteInv` show where each is needed.
  `ProgramsAssumption` is the shape of a definition: a state has a name, as
  `getstates()` asks for a symbol, and an empty list is a fall-back; the functions that
  are called are defined, and the entry function is not among them.
- `PromiseKept` (`KeepsPromise`): the compiled program implements `Automata`. The
  mapping computes the state of an automaton from the cell of its selector, so that
  every step has to be traced back from cells, ids and labels to the names in the
  text. `DefsInv` says what the ids mean; `WrittenInv` adds what the second pass makes
  of them:
  - `FiniteInv`: the tables are finite, so that selectors and cases can be counted.
  - `BodiesInv`: what stands behind a label of a function is the definitions that have
    its id and have been read (`NextBodies`). `PlacedMeans` then says that a call which
    takes the label of a state runs the definitions that list it.
  - `StubsInv`: stubs and selectors stay what `writeleader()` made of the tables
    (`SameStubs`), although the second pass looks up every list again.
  - `DataInv`: the setters are those of `dostate()`, and the cell above the selectors,
    which is the first variable of the program, keeps its value unless the program is
    `Unselected`.

  `OrdinalsApart` gives every selector a cell of its own, so that "state" changes one
  automaton; `OneLabel`, that a state is in at most one list of a function, is what
  the absence of error 84 means; `CountRight` compares the number of cases a jump
  table claims with those it has, and needs `~Repeated`. `CallMeans` and `EnterMeans`
  put them together for the two steps of the program, and `StepMaps` goes through all
  the steps: those of the compiler are stutters, the last one starts the program.

The only assumptions are those on the constants, which TLC evaluates in the runs.

Only model-checked: liveness (`Termination`); the properties of `Evaluation` and
`Flow`, whose reference definitions are recursive over expressions and statements, so
that what they compute for every input is out of the prover's reach.

## 6. Where the code and its comments disagree

Two have a run that TLC finds violated:

1. The parser stack has two users. `readline()` asks it for the includer of a file
   that has ended, and takes the flags of an expression for it if the file ends inside
   one: `sc2.c:322` says that reading ends when there is no file to go back to, but a
   main file that ends with an open parenthesis, in the condition of an `if`, or in a
   case label leaves something on the stack, and reading goes on from a file that is
   none (`sc2.c:345`; run `compile_files_end`). Read in the source.
2. The call of an entry function by `state` does not push the number of arguments,
   and `RETN` removes what it finds there instead (`sc1.c:6276`; run `states_stack`).
   Reproduced with the compiler itself.

The properties leave out the programs in which the code is known to go wrong; each
exception is a named predicate, was found by TLC and is needed (without it the
property is violated), and was seen in the output of the compiler, but for
`ConditionalArray` and `NegatedConstantArgument`, which were read in the source only.

Expressions (`Evaluation`, predicates of `Mistranslated`):

- `AdjacentConstants`: a chain of comparisons with two constants side by side, as
  in `1 < 2 < x`: the first comparison is folded and its code scrapped, and the next
  goes on with registers nobody has loaded (`sc3.c:531`, against `sc4.c:1168`).
- `NegatedCellArgument`: `f(-a[i])` with an argument of no fixed kind passes the
  value as an address (`sc3.c:1300`).
- `NegatedConstantArgument`: `f(-c)`, with a constant variable `c` for an argument `...`
  that may be changed: the compiler asserts that it has a variable (`sc3.c:2190`) and,
  without assertions, passes `c`.
- `FoldedModulus`: constant folding of `/` and `%` overflows (`sc3.c:668`). The
  predicate leaves out every expression with a division in it and a constant of more
  than a quarter of the range of a cell, which is more than those that overflow.
- `PostfixUserop`: `t++` with a user-defined `++` gives the new value (`sc3.c:1590`).
- `CompoundConversion`: `t -= 1` with a user-defined assignment converts with the
  tag of the wrong operand (`sc3.c:1056`).
- `ConstantAfterComma`: `(f(), 1)` does not call `f` (`sc3.c:560`).
- `ConditionalArray`: `x && g()` with `g` returning an array gives back heap that was
  not taken (`sc3.c:390`). It is the only exception of `NothingLeft`.

Statements (`Flow`): `ConstantAssert`, `assert` of a constant is inverted, since `test()`
does not look at `invert` for a constant: `assert true` aborts and `assert false` passes
(`sc1.c:5517`, against the comment at `sc1.c:5877`); `StaleLast`, a branch that consists of
constant declarations keeps the `lastst` of what came before it, and the jump or the
return at its end is missing (`sc1.c:5554`); `LeavesOtherBlocks`, `break` and
`continue` destroy the objects of the innermost block only and `goto` none
(`sc1.c:6128`, `sc1.c:5905`); `ManyDimensions`, arrays of objects with two dimensions
(`sc1.c:5016`), for which `UnusedExact` says nothing about the objects either; `DestroysStatic`, a static object is destroyed whenever its block
ends.

States (`States`): `Mixed`, a definition without states followed by one with states
is accepted, although the comment at `sc1.c:3208` describes the error (`sc1.c:3206`);
`Repeated`, `<a, a>` makes the jump table count a record it does not have
(`sc4.c:136`); `EntryMachines`, entry functions of two automata are refused when
their states have the same ids, which the comment at `scstate.c:12` allows
(`scstate.c:342`); `Unselected`, a `state` statement in a program without a used
function with states writes over the first global (`sc4.c:59`).

Declarations, files and options:

- A default value that names a global array keeps the address of the skimming
  pass (`sc1.c:4267`); `DataLands` is about the others.
- An aligned global: `declglb()` dumps the padding of `#pragma align` and does not
  count it in `glb_declared`, whose comment says "number of global cells declared"
  (`scvars.c:55`). It shows when `-A` is larger than a cell; `DataLands` and
  `HeaderSplits` leave such programs out (`AlignedGlobal`).
- The cleanup closes the current source file without resetting `inpf`; error 106
  (`-X` limit), a fatal error of the assembler or error 96 enter it again and the
  handle is closed twice (`sc1.c:784`). `MisuseOnlyWhenLate` says that nothing else
  leads there.
- Inputs whose images have one path are compiled over each other before the
  first is packaged (`application.cpp:126`): the first package is made from the
  last input. `SuccessBuildsAll` holds because the next input then fails.
- `-w` with only a number toggles, and the configuration file is applied by both
  parsers: a warning named in it stays enabled (`arguments.cpp:38`).
- `readline()` restores `skiplevel` from `iflevel` when an include file ends and
  asserts that nothing is skipped; an `#else` in the include file can make it
  skip (`sc2.c:1003`). From then on `crossed` is set and the properties of `Preproc`
  say nothing.
- `HANDLED_ELSE` is tested and never set: a second `#else` is accepted (`sc2.c:987`).
- Two include files with one base name share an include guard (`sc2.c:280`).
- After a restart without compact encoding the file is not truncated, and the
  first label table is not freed (`sc6.c:608`).
- A fatal error inside an include file leaves the including files open; an
  unclosed `#if` at the end of a file leaks into a repeated skimming pass, because
  `lexinit()` is not called between two of them (`sc1.c:759`).
- `pc_closebin()` ignores the result of `fclose()`: a full disk gives a short image
  that is packaged.
- `-T` and `-o` together, or several options on a line of the configuration file,
  can make the compiler and the packager disagree about the name of the image
  (`SameText` in `Cmdline`). A last `-o` without a name always does: the packager takes
  the name of the input (`application.cpp:55`), the compiler an empty one and writes
  `.amx` (`sc1.c:1273`); so does one with its name in quotes, which only the compiler
  removes (`sc1.c:1119`). `resolve_amx_path()` says of itself that it determines the
  "base filename produced by the Pawn compiler" (`application.cpp:35`).
- `name=text` in the configuration file wins over the command line, and over
  `name=1` wherever that stands: of the texts the first one counts (`sc1.c:179`,
  `sclist.c:71`), and the compiler reads its configuration file first.
- `-\` and `-^` set one character and are two keys of an unordered map: when both are
  given, the order of the map decides, not the order on the command line
  (`arguments.cpp:33`, `sc1.c:1357`).
- The mask of disabled warnings survives a pass: a `#pragma warning` without push
  and pop acts on lines above it in the write pass. `OnlyHides` bounds the damage.
- With `argv[0]` without a directory the compiler does not find its include
  directory (`sc1.c:1670`).

## 7. What is not modelled

- Texts, formats and file names (except where two names meet); listing and error
  files; option files; code pages; zlib; Windows-specific code; the console.
- Natives, libraries, tags and debug information in the image: they are tables the
  assembler copies in the order of the symbol table.
- Of the command line: `-D`, values that begin with `=` or `:`, values cut off at the
  compiler's limits, and options for which both parsers do nothing but remember the last
  value.
- Of the parser stack: what is pushed besides files and flags of expressions (nothing
  is), and what a program does once `readline()` has lost its file.
- The lexer and macro substitution: they rewrite a line one character at a time and
  keep no state beyond it, so that a model would repeat their string operations.
  The models begin at tokens. The memory file is a sequential buffer.
- The replacements of `sc7-in.scp`: a table of texts. `Staging` has what an
  optimization does to the code index; `Expressions` has the code as it is with
  the optimizer switched off (`-d2`).
- Of declarations: enumerations, natives, operators, and the checks between two
  declarations of one name.
- Of expressions: `sizeof`, `tagof` and `defined`, named arguments, packed characters,
  constant arrays (an element of one goes through `...` by its address, `sc3.c:2217`).
- Errors: expressions and statements are those the compiler accepts. Errors of
  the skimming pass that the write pass would report are reported at once in
  `Generator`.
- The headers of image and package beyond "complete" and "short".

Of the undefined behaviour of the C code, the uninitialized entry and the overrun
of `stgstring()` end in the state "undefined"; `binf`, which is not volatile and used
after a `longjmp()`, is either what it was or `NULL`; a file that ends inside an
expression ends in the state "undefined" as well.

## 8. Files

`<Module>.tla` is a component, `MC<Module>.tla` its instance for TLC, `<Module>.cfg`
its passing run, `<Module>_<Property>.cfg` a run that ends in a violation,
`<Module>Proofs.tla` its theorems. Operators whose comment begins with "Mutant" or
names a bug are mutations: put in the place of the definition below them they
must make a property fail. `PROJECT.json` lists them, with the lines of source
every definition models.

    tlc -config Assembler.cfg MCAssembler.tla
    tlapm AmxxpcProofs.tla
