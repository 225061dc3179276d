-------------------------------- MODULE Cmdline --------------------------------
(***************************************************************************)
(* From the command line and the configuration files to the settings of    *)
(* one compilation.  Two parsers work on the same text, one after the      *)
(* other: Interface::Cmdline (arguments.cpp, parser.cpp, config.cpp) and    *)
(* setopt()/parseoptions()/parserespf() of the compiler (sc1.c), which      *)
(* looks for a configuration file of its own.                               *)
(***************************************************************************)
EXTENDS Integers, Sequences, SequencesExt, FiniteSets

CONSTANTS
  CommandLines,      (* sequences of options                                *)
  ConfigFiles,       (* what a configuration file can be: NoFile, or a      *)
                     (* sequence of lines, each a sequence of options       *)
  TextValues,        (* values of a definition that are no numbers          *)
  NoFile, Undefined

(* -w<num>: nothing (toggle), "-" (off) or "+" (on) behind the number of    *)
(* one warning; -o<name> and -T<name>, "" when no name follows; -\ and -^;  *)
(* sym=value.  "rest" says that more text follows in the same argument:     *)
(* only a line of a configuration file is such an argument.  "quoted" says  *)
(* that val is between quotes.                                              *)
Handed == {"w", "o", "backslash", "caret"}
Keys == Handed \union {"T"}        \* of Parser::options_
Option == {o \in [key : Keys \union {"sym"}, val : STRING, rest : BOOLEAN, quoted : BOOLEAN] :
             o.quoted => o.key \in {"o", "sym"}}
Word == {o \in Option : ~o.rest}
Configs == {"custom", "default", "pawn"}

Value(o) == <<o.val, o.rest, o.quoted>>
Empty == <<"", FALSE, FALSE>>
NoName == <<"input", FALSE, FALSE>>       \* the name of the source file

ASSUME TextAssumption ==
  /\ CommandLines \subseteq Seq(Word)
  /\ ConfigFiles \subseteq Seq(Seq(Word) \ {<<>>}) \union {NoFile}
  /\ Undefined \notin Option /\ Undefined \notin STRING \X BOOLEAN \X BOOLEAN

VARIABLES
  cmdline, files,    (* the request                                         *)
  rooted,            (* argv[0] contains a directory                        *)
  pc,
  configs,           (* configuration files still to be loaded              *)
  options, defs,     (* Parser::options_ and Parser::definitions_           *)
  args,              (* Arguments::arguments_                               *)
  oname, warnoff,    (* output name, warning disabled                       *)
  ctrl,              (* sc_ctrlchar                                         *)
  number, text       (* the constant of add_constant(), and the definition  *)
                     (* of cli_defines_list that is found first             *)

front == <<configs, options, defs, args>>
core  == <<oname, warnoff, ctrl, number, text>>
vars  == <<cmdline, files, rooted, pc, front, core>>

Init ==
  /\ cmdline \in CommandLines /\ files \in [Configs -> ConfigFiles]
  /\ rooted \in BOOLEAN
  /\ pc = "parse"
  /\ configs = <<>> /\ options = [k \in Keys |-> <<>>] /\ defs = Undefined /\ args = <<>>
  /\ oname = Empty /\ warnoff = FALSE /\ ctrl = "caret" /\ number = Undefined /\ text = Undefined

Refuse == pc' = "refused" /\ UNCHANGED <<front, core>>

-----------------------------------------------------------------------------
(* Parser *)

(* Mutant: a later definition replaces an earlier one.                      *)
AddLast(p, o) ==
  IF o.key = "sym" THEN [p EXCEPT !.defs = o]
                   ELSE [p EXCEPT !.options[o.key] = Append(@, o)]

(* Parser::add_option() and Parser::add_definition() without override:      *)
(* every occurrence of an option is kept, and the first definition.         *)
Add(p, o) ==
  IF o.key = "sym" THEN [p EXCEPT !.defs = IF @ = Undefined THEN o ELSE @]
                   ELSE [p EXCEPT !.options[o.key] = Append(@, o)]

Collected(p, os) ==
  LET f[k \in 0 .. Len(os)] == IF k = 0 THEN p ELSE Add(f[k - 1], os[k])
  IN  f[Len(os)]

Parse(os) ==
  LET p == Collected([options |-> options, defs |-> defs], os)
  IN  options' = p.options /\ defs' = p.defs

ParseCommandLine ==
  /\ pc = "parse" /\ pc' = "resolve"
  /\ Parse(cmdline)
  /\ UNCHANGED <<configs, args, core>>

(* find_default_config()                                                    *)
DefaultConfig ==
  CASE files["default"] # NoFile -> <<"default">>
    [] files["default"] = NoFile /\ files["pawn"] # NoFile -> <<"pawn">>
    [] OTHER -> <<>>

(* resolve_config_paths(): every -T names a file that exists, or no -T and  *)
(* the default one.                                                         *)
ResolveConfigs ==
  /\ pc = "resolve"
  /\ IF options["T"] = <<>>
     THEN configs' = DefaultConfig /\ pc' = "load"
     ELSE /\ \A k \in DOMAIN options["T"] :
               options["T"][k].val = "custom" /\ files["custom"] # NoFile
          /\ configs' = [k \in DOMAIN options["T"] |-> "custom"]
          /\ pc' = "load"
  /\ UNCHANGED <<options, defs, args, core>>

RefuseConfig ==
  /\ pc = "resolve"
  /\ \E k \in DOMAIN options["T"] :
       options["T"][k].val # "custom" \/ files["custom"] = NoFile
  /\ Refuse

(* load_config(): a line is one argument, whatever it contains.             *)
WholeLine(l) == [l[1] EXCEPT !.rest = Len(l) > 1]
LinesOf(f) == [k \in DOMAIN f |-> WholeLine(f[k])]

LoadConfig ==
  /\ pc = "load" /\ configs # <<>>
  /\ Parse(LinesOf(files[Head(configs)]))
  /\ configs' = Tail(configs)
  /\ UNCHANGED <<pc, args, core>>

ConfigsLoaded == pc = "load" /\ configs = <<>> /\ pc' = "build" /\ UNCHANGED <<front, core>>

Definition == IF defs = Undefined THEN <<>> ELSE <<defs>>

(* The sequences one behind the other                                       *)
Joined(ss) ==
  LET f[k \in 0 .. Len(ss)] == IF k = 0 THEN <<>> ELSE f[k - 1] \o ss[k]
  IN  f[Len(ss)]

(* The unordered map gives its keys in any order.                           *)
Orders == SetToSeqs(Handed)
InOrder(order, lists) == Joined([k \in 1 .. Len(order) |-> lists[order[k]]])

(* Mutant: only the last occurrence of an option is passed on.              *)
BuildShortArguments ==
  /\ pc = "build" /\ pc' = "setconfig"
  /\ LET latest == [k \in Handed |-> IF options[k] = <<>> THEN <<>> ELSE <<Last(options[k])>>]
     IN  \E order \in Orders : args' = InOrder(order, latest) \o Definition
  /\ UNCHANGED <<configs, options, defs, core>>

(* build_arguments(): every list as a whole, without that of -T.            *)
BuildArguments ==
  /\ pc = "build" /\ pc' = "setconfig"
  /\ \E order \in Orders : args' = InOrder(order, options) \o Definition
  /\ UNCHANGED <<configs, options, defs, core>>

(* Mutant: the first value is taken.                                        *)
FirstName == IF options["o"] = <<>> THEN NoName ELSE Value(Head(options["o"]))

(* The name resolve_amx_path() derives: get_last_option_value("o"), and the *)
(* input's when there is no value.                                          *)
PackagedName ==
  IF options["o"] = <<>> \/ Value(Last(options["o"])) = Empty
  THEN NoName
  ELSE Value(Last(options["o"]))

-----------------------------------------------------------------------------
(* The compiler *)

(* setconfig(): the root path is cut off at the last directory separator,   *)
(* through a null pointer when argv[0] has none.                            *)
SetConfig ==
  /\ pc = "setconfig"
  /\ pc' = IF rooted THEN "coreconfig" ELSE "undefined"
  /\ UNCHANGED <<front, core>>

(* pc_enablewarning(); parseoptions() ignores -w when text it does not       *)
(* know is left behind the number.                                          *)
Enable(off, o) ==
  CASE o.val = "-" -> TRUE
    [] o.val = "+" -> FALSE
    [] o.val = "" /\ ~o.rest -> ~off
    [] OTHER -> off

(* option_value_copy(): a value that is all in quotes loses them.           *)
Unquoted(o) == <<o.val, o.rest, o.quoted /\ o.rest>>

(* What strtol() does not read to the end                                   *)
IsText(o) == o.rest \/ o.quoted \/ o.val \in TextValues

(* The last number stays; of the texts inst_cli_defines() inserts, the one  *)
(* that was added first is in front of the others.                          *)
Define(s, o) ==
  IF IsText(o) THEN [s EXCEPT !.text = IF @ = Undefined THEN Value(o) ELSE @]
               ELSE [s EXCEPT !.number = Value(o)]

(* parseoptions()                                                           *)
Apply(s, o) ==
  CASE o.key = "w"   -> [s EXCEPT !.off = Enable(@, o)]
    [] o.key = "o"   -> [s EXCEPT !.name = Unquoted(o)]
    [] o.key = "sym" -> Define(s, o)
    [] o.key \in {"backslash", "caret"} -> [s EXCEPT !.ctrl = o.key]
    [] o.key = "T"   -> s

Settings(s, os) ==
  LET f[k \in 0 .. Len(os)] == IF k = 0 THEN s ELSE Apply(f[k - 1], os[k])
  IN  f[Len(os)]

Core == [name |-> oname, off |-> warnoff, ctrl |-> ctrl, number |-> number, text |-> text]

ParseOptions(s0, os) ==
  LET s == Settings(s0, os)
  IN  /\ oname' = s.name /\ warnoff' = s.off /\ ctrl' = s.ctrl
      /\ number' = s.number /\ text' = s.text

(* parserespf(): every word is an option.                                   *)
WordsOf(f) == Joined(f)

(* setopt(): the last -T, else default.cfg, else pawn.cfg.                  *)
CoreConfig ==
  /\ pc = "coreconfig" /\ pc' = "coreargs"
  /\ LET c == IF \E k \in DOMAIN args : args[k].key = "T" THEN <<"custom">> ELSE DefaultConfig
     IN  ParseOptions(Core, IF c = <<>> THEN <<>> ELSE WordsOf(files[c[1]]))
  /\ UNCHANGED front

(* The first argument is the input, which gives a missing output name.      *)
NameInput(s) == [s EXCEPT !.name = IF @ = Empty THEN NoName ELSE @]

CoreArguments ==
  /\ pc = "coreargs" /\ pc' = "done"
  /\ ParseOptions(NameInput(Core), args)
  /\ UNCHANGED front

Next ==
  /\ \/ ParseCommandLine \/ ResolveConfigs \/ RefuseConfig \/ LoadConfig
     \/ ConfigsLoaded \/ BuildArguments \/ SetConfig \/ CoreConfig \/ CoreArguments
  /\ UNCHANGED <<cmdline, files, rooted>>

Spec == Init /\ [][Next]_vars

-----------------------------------------------------------------------------
(* Properties *)

Given(k) == {i \in DOMAIN cmdline : cmdline[i].key = k}

(* Without -T and with one option per line in the configuration files       *)
SameText ==
  /\ Given("T") = {}
  /\ \A c \in Configs : files[c] = NoFile \/ \A k \in DOMAIN files[c] : Len(files[c][k]) = 1

(* The last -o kept has a value, and no quotes around all of it.            *)
PlainName ==
  options["o"] # <<>> => LET o == Last(options["o"]) IN (o.quoted => o.rest) /\ Value(o) # Empty

(* Where they read the same text, the packager looks for the image under    *)
(* the name the compiler gave it, though the two parse the options          *)
(* separately and with the configuration file in a different place of the   *)
(* order.  There is one exception, and there they always disagree: the last *)
(* -o has no value, or one in quotes.                                       *)
NamesAgree == pc = "done" /\ SameText => (oname = PackagedName <=> PlainName)

(* What the constant stands for: the text is substituted before a name is   *)
(* looked up.                                                               *)
Meaning == IF text # Undefined THEN text ELSE number

(* What the compiler reads itself                                           *)
ConfigWords == IF DefaultConfig = <<>> THEN <<>> ELSE WordsOf(files[DefaultConfig[1]])

(* A constant defined on the command line has the value given there first,  *)
(* whatever the configuration files say: the front end keeps the first      *)
(* definition, the compiler the last number.  It keeps the first text too,  *)
(* so a text in its own configuration file is excepted.                     *)
CommandLineDefines ==
  pc = "done" /\ (\A k \in DOMAIN ConfigWords : ConfigWords[k].key = "sym" => ~IsText(ConfigWords[k])) =>
    \A i \in Given("sym") : (\A j \in Given("sym") : i <= j) => Meaning = Value(cmdline[i])

(* What the compiler is set to does not depend on the order in which the    *)
(* unordered map lists the options: it is what its configuration file, the  *)
(* command line and the files loaded by the front end say, in this order.   *)
(* Only -\ and -^, two keys that set the same character, may change places. *)
Loaded ==
  IF Given("T") # {} THEN [k \in 1 .. Cardinality(Given("T")) |-> "custom"] ELSE DefaultConfig

Fresh == [name |-> Empty, off |-> FALSE, ctrl |-> "caret", number |-> Undefined, text |-> Undefined]

OrderIrrelevant ==
  pc = "done" =>
    LET s == Settings(NameInput(Settings(Fresh, ConfigWords)),
                      cmdline \o Joined([k \in DOMAIN Loaded |-> LinesOf(files[Loaded[k]])]))
    IN  /\ oname = s.name /\ warnoff = s.off
        /\ options["backslash"] = <<>> \/ options["caret"] = <<>> => ctrl = s.ctrl
=============================================================================
