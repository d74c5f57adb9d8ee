--------------------------------- MODULE Shell ---------------------------------
(***************************************************************************)
(* From the line typed to the options a program sees: the shell's parser, which *)
(* writes its NULs into the line (userspace/src/bin/shell/main.c), the argv it   *)
(* gives to exec, and the getopt of the program (ulib/args.h), whose place in     *)
(* argv is kept in statics from call to call, driven by a loop like that of ls.   *)
(* How argv gets into the new program is Exec.tla's; what the builtins and the    *)
(* programs do for the rest is left out. A string is a sequence of characters.    *)
(***************************************************************************)
EXTENDS Integers, Sequences, SequencesExt, FiniteSetsExt

CONSTANTS
  MaxInput,    \* MAX_INPUT, the size of the line's buffer: 256
  ArgMax,      \* words parse keeps: 16
  Letters,     \* characters typed besides blanks, quotes and dashes
  Lines,       \* what is typed
  Builtins,    \* words main does itself
  OptStrings   \* option strings of programs: character -> takes an argument

NUL == "0"   BLANK == " "   QUOTE == "'"   DASH == "-"
Stale == "z"  \* what an earlier line left behind the NUL of this one

Chars == Letters \cup {BLANK, QUOTE, DASH}

ASSUME ShellAssumption ==
  /\ MaxInput \in Nat \ {0} /\ ArgMax \in Nat \ {0, 1}
  /\ NUL \notin Letters
  /\ Lines \subseteq Seq(Chars) /\ \A line \in Lines : Len(line) \in 1 .. (MaxInput - 1)
  /\ \A os \in OptStrings : DOMAIN os \subseteq Letters /\ os \in [DOMAIN os -> BOOLEAN]

VARIABLES
  typed,      \* the line as it was typed
  input,      \* the buffer it is in
  p, argv,    \* where parse is, and where it found words
  pc,
  child,      \* argv of the program that runs
  optstring,  \* and its options
  optind, optcursor, nextchar,  \* optcursor is FALSE for NULL
  opts        \* what getopt has returned to it

lineVars  == <<typed, input, p, argv>>
optVars   == <<child, optstring, optind, optcursor, nextchar, opts>>
shellVars == <<lineVars, pc, optVars>>

\* What is left of an earlier line is Stale, and of an earlier program nothing.
ShellInit ==
  /\ typed = <<>> /\ input = <<>> /\ p = 1 /\ argv = <<>> /\ pc = "prompt"
  /\ child = <<>> /\ optstring = <<>> /\ optind = 1
  /\ optcursor = FALSE /\ nextchar = 0 /\ opts = {}

Prompt ==
  /\ pc' = "prompt" /\ typed' = <<>> /\ input' = <<>> /\ p' = 1 /\ argv' = <<>>
  /\ child' = <<>> /\ optstring' = <<>> /\ optind' = 1
  /\ optcursor' = FALSE /\ nextchar' = 0 /\ opts' = {}

At(i) == IF i \in DOMAIN input THEN input[i] ELSE NUL
\* The first place from i on with one of these characters.
First(i, cs) == CHOOSE k \in i .. (MaxInput + 1) :
                  At(k) \in cs /\ \A j \in i .. (k - 1) : At(j) \notin cs
Others(c)    == (Chars \cup {NUL, Stale}) \ {c}
String(i)    == SubSeq(input, i, First(i, {NUL}) - 1)

--------------------------------------------------------------------------------
(* The shell.                                                                   *)
\* gets; after an empty line main calls it again.
GetLine(line) ==
  /\ typed' = line
  /\ input' = [i \in 1 .. MaxInput |->
       IF i <= Len(line) THEN line[i] ELSE IF i = Len(line) + 1 THEN NUL ELSE Stale]
  /\ p' = 1 /\ argv' = <<>> /\ pc' = "parse"
  /\ UNCHANGED optVars

\* The next word starts after the blanks, and after a quote, which then ends it.
AfterBlanks == First(p, Others(BLANK))
NextWord ==
  LET i      == AfterBlanks
      quoted == At(i) = QUOTE
      start  == IF quoted THEN i + 1 ELSE i
  IN  [start |-> start, end |-> First(start, {NUL, IF quoted THEN QUOTE ELSE BLANK})]

\* The cursor stays on the NUL the parser wrote.
ParseWordBug ==
  /\ pc = "parse" /\ At(AfterBlanks) # NUL /\ Len(argv) < ArgMax
  /\ LET w == NextWord IN
       /\ argv' = Append(argv, w.start) /\ p' = w.end
       /\ input' = [input EXCEPT ![w.end] = NUL]
  /\ UNCHANGED <<typed, pc, optVars>>
ParseWord ==
  /\ pc = "parse" /\ At(AfterBlanks) # NUL /\ Len(argv) < ArgMax
  /\ LET w == NextWord IN
       /\ argv' = Append(argv, w.start)
       /\ IF At(w.end) = NUL THEN p' = w.end /\ UNCHANGED input
          ELSE p' = w.end + 1 /\ input' = [input EXCEPT ![w.end] = NUL]
  /\ UNCHANGED <<typed, pc, optVars>>

ParseDone ==
  /\ pc = "parse" /\ (At(AfterBlanks) = NUL \/ Len(argv) = ArgMax)
  /\ IF argv = <<>> THEN Prompt ELSE pc' = "dispatch" /\ UNCHANGED <<lineVars, optVars>>

\* A builtin, exit among them: it starts another shell. Or try_exec does not find
\* the program or cannot start it.
Stay == pc = "dispatch" /\ Prompt

\* try_exec: of child_argv's 16 places the last is for the NULL. The first is the
\* program's path, the name itself or "/bin/" before it: the name stands for both.
TryExec ==
  /\ pc = "dispatch" /\ String(argv[1]) \notin Builtins
  /\ child' = [i \in 1 .. Min({Len(argv), ArgMax - 1}) |-> String(argv[i])]
  /\ \E os \in OptStrings : optstring' = os
  /\ pc' = "options" /\ optind' = 1 /\ optcursor' = FALSE /\ nextchar' = 0 /\ opts' = {}
  /\ UNCHANGED lineVars
--------------------------------------------------------------------------------
(* getopt. The program's name is argv[0], so argv[optind] is child[optind + 1].   *)
Word(i)  == child[i + 1]
Argc     == Len(child)
\* The characters of a cluster start after the dash.
Option(n)  == Word(optind)[n + 2]
IsLast(n)  == Len(Word(optind)) = n + 2
InCluster  == optcursor
IsOption(w) == Len(w) > 1 /\ w[1] = DASH

Loop == pc = "options" /\ UNCHANGED <<lineVars, child, optstring>>

\* getopt returns -1: no words are left, the next is an operand, or it is "--".
\* The program goes on to its operands and ends; SYS_EXIT starts the shell.
OptionsEnd ==
  /\ pc' = "operands"
  /\ \/ optind >= Argc /\ UNCHANGED <<optind, optcursor>>
     \/ /\ optind < Argc /\ ~InCluster /\ ~IsOption(Word(optind))
        /\ optcursor' = FALSE /\ UNCHANGED optind
     \/ /\ optind < Argc /\ ~InCluster /\ Word(optind) = <<DASH, DASH>>
        /\ optind' = optind + 1 /\ optcursor' = FALSE
  /\ UNCHANGED <<nextchar, opts>>

ProgramEnds == pc = "operands" /\ Prompt

\* There is an option to look at, the one at this place of its cluster.
Looking ==
  /\ optind < Argc
  /\ InCluster \/ (IsOption(Word(optind)) /\ Word(optind) # <<DASH, DASH>>)
Place == IF InCluster THEN nextchar ELSE 0

\* The word is forgotten when its last option is taken, but not passed.
StepPastBug(n) ==
  /\ nextchar' = n + 1 /\ optcursor' = ~IsLast(n) /\ UNCHANGED optind
\* On to the next option, or to the next word.
StepPast(n) ==
  /\ nextchar' = n + 1 /\ optcursor' = ~IsLast(n)
  /\ optind' = IF IsLast(n) THEN optind + 1 ELSE optind

Returns(r) == opts' = opts \cup {r}
Refused    == [opt |-> "?", arg |-> <<>>]

Illegal(n) ==
  /\ Option(n) \notin DOMAIN optstring
  /\ Returns(Refused) /\ StepPast(n)

Plain(n) ==
  /\ Option(n) \in DOMAIN optstring /\ ~optstring[Option(n)]
  /\ Returns([opt |-> Option(n), arg |-> <<>>]) /\ StepPast(n)

\* Skipped is how many words getopt is past the option's.
WithArgument(n, skipped, r) ==
  /\ Option(n) \in DOMAIN optstring /\ optstring[Option(n)]
  /\ optind' = optind + skipped /\ optcursor' = FALSE /\ nextchar' = n
  /\ Returns(r)

Attached(n) == ~IsLast(n) /\ WithArgument(n, 1, Refused)
Missing(n)  == IsLast(n) /\ optind + 1 >= Argc /\ WithArgument(n, 1, Refused)

\* The argument's own word is left to be looked at as an option.
SeparateBug(n) ==
  /\ IsLast(n) /\ optind + 1 < Argc
  /\ WithArgument(n, 1, [opt |-> Option(n), arg |-> Word(optind + 1)])
Separate(n) ==
  /\ IsLast(n) /\ optind + 1 < Argc
  /\ WithArgument(n, 2, [opt |-> Option(n), arg |-> Word(optind + 1)])

Getopt ==
  /\ Loop
  /\ \/ OptionsEnd
     \/ /\ Looking /\ UNCHANGED pc
        /\ LET n == Place IN Illegal(n) \/ Plain(n) \/ Attached(n) \/ Missing(n) \/ Separate(n)

Work == ParseWord \/ ParseDone \/ Stay \/ TryExec \/ Getopt \/ ProgramEnds
Type == pc = "prompt" /\ \E line \in Lines : GetLine(line)
ShellNext == Work \/ Type
ShellSpec == ShellInit /\ [][ShellNext]_shellVars

\* What the shell and the program do is theirs alone to do: nothing else runs.
ShellFairSpec == ShellSpec /\ WF_shellVars(Work)
--------------------------------------------------------------------------------
\* The words fit argv, and child_argv with the NULL that ends it; optind, which
\* getopt moves by two past an argument, never passes the end of argv.
ShellTypeOK ==
  /\ Len(typed) < MaxInput /\ p \in 1 .. (MaxInput + 1) /\ Len(argv) <= ArgMax
  /\ pc \in {"prompt", "parse", "dispatch", "options", "operands"}
  /\ Len(child) < ArgMax /\ optcursor \in BOOLEAN
  /\ pc = "options" => optind \in 1 .. Max({1, Argc})

\* The words of a line from each place on: what a pair of quotes encloses, quotes
\* only counting at the start of a word, or what stands between blanks.
WordsFrom(line) ==
  LET n == Len(line)
      from[i \in 1 .. (n + 2)] ==
        IF i > n THEN <<>>
        ELSE IF line[i] = BLANK THEN from[i + 1]
        ELSE LET quoted == line[i] = QUOTE
                 start  == IF quoted THEN i + 1 ELSE i
                 stop   == Min({k \in start .. n :
                                 line[k] = (IF quoted THEN QUOTE ELSE BLANK)} \cup {n + 1})
             IN  <<SubSeq(line, start, stop - 1)>> \o from[stop + 1]
  IN  from
Words(line) == WordsFrom(line)[1]

\* The program gets the words of the line, as many as fit, although the line they
\* are in was cut up in place and the buffer still holds the end of a longer one.
ArgvIsWords ==
  /\ ShellTypeOK
  /\ pc \in {"options", "operands"} =>
    LET ws == Words(typed) IN child = SubSeq(ws, 1, Min({Len(ws), ArgMax - 1}))

\* The options of a command from each word on, and where its operands start.
OptionsFrom(words, os) ==
  LET n == Len(words)
      Takes(c) == c \in DOMAIN os /\ os[c]
      Plainly(c) == [opt |-> IF c \in DOMAIN os THEN c ELSE "?", arg |-> <<>>]
      from[i \in 2 .. (n + 2)] ==
        IF i > n \/ ~IsOption(words[i]) THEN [opts |-> {}, operands |-> Min({i, n + 1})]
        ELSE IF words[i] = <<DASH, DASH>> THEN [opts |-> {}, operands |-> i + 1]
        ELSE LET cluster == Tail(words[i])
                 k    == Min({j \in DOMAIN cluster : Takes(cluster[j])}
                               \cup {Len(cluster) + 1})
                 pair == k = Len(cluster) /\ i < n
                 here == {Plainly(cluster[j]) : j \in 1 .. (k - 1)} \cup
                         (IF k > Len(cluster) THEN {}
                          ELSE IF pair THEN {[opt |-> cluster[k], arg |-> words[i + 1]]}
                          ELSE {Refused})
                 rest == from[IF pair THEN i + 2 ELSE i + 1]
             IN  [opts |-> here \cup rest.opts, operands |-> rest.operands]
  IN  from
Options(words, os) == OptionsFrom(words, os)[2]

\* getopt, called until it returns -1, has given the program exactly the options
\* its words say, and optind is where its operands start: across clusters, "--",
\* options that are refused and arguments that look like options.
OptionsAsTyped ==
  pc = "operands" =>
    LET want == Options(child, optstring)
    IN  opts = want.opts /\ (Argc > 0 => optind + 1 = want.operands)

\* Every line gets a prompt again: neither parse nor the getopt loop goes round
\* for ever (shell/main.c:42-68, ls/main.c:34).
PromptAgain == pc # "prompt" ~> pc = "prompt"
================================================================================
