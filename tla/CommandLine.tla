---------------------------- MODULE CommandLine ----------------------------
(***************************************************************************)
(* What grpctui makes of the words it is started with (cmd/grpctui:        *)
(* main.go, flags.go, options.go and the first lines of each subcommand).  *)
(* A word is a model of itself; which words are flags, and which of them    *)
(* take the next word as their value, are constants.                       *)
(***************************************************************************)
EXTENDS Integers, Sequences, FiniteSets, SequencesExt

CONSTANTS
  Takes,      \* the flags that take the word after them
  Switches,   \* the flags that do not: booleans, and flags written with their value
  RunOnly,    \* the flags of both kinds that only run has
  Strange,    \* what looks like a flag and is none
  Shells,     \* the shells there is a completion for
  Assignments \* what -V takes: the name and the value of each word of that form

\* A flag takes a value or does not, and "--" is none.
ASSUME FlagsAssumption == Takes \cap Switches = {} /\ "--" \notin Takes \cup Switches

\* What a text is that nobody wrote.
Blank == ""

Commands == {"run", "completion", "keys", "__complete"}
IsFlag(w) == w \in Takes \cup Switches \cup Strange \cup {"--", "-h"}

\* wantsHelp: anywhere at all, whatever the word is there for.
WantsHelp(words) == "-h" \in Range(words)

\* Mutated SplitCommand: the first word that is no flag decides, be it a value.
SplitCommandBlind(words) ==
  LET bare == {i \in DOMAIN words : ~IsFlag(words[i])}
      first == CHOOSE i \in bare : \A j \in bare : i <= j
  IN  IF bare # {} /\ words[first] \in Commands
      THEN [name |-> words[first], rest |-> RemoveAt(words, first)]
      ELSE [name |-> Blank, rest |-> words]

\* splitCommand: the first bare word decides, the values of flags stepped over.
SplitCommand(words) ==
  LET n == Len(words)
      next[i \in 1..(n + 2)] ==
        IF i > n \/ words[i] = "--" THEN 0
        ELSE IF words[i] \in Takes THEN next[i + 2]
        ELSE IF IsFlag(words[i]) THEN next[i + 1]
        ELSE i
  IN  IF next[1] # 0 /\ words[next[1]] \in Commands
      THEN [name |-> words[next[1]], rest |-> RemoveAt(words, next[1])]
      ELSE [name |-> Blank, rest |-> words]

\* The flags a command's own set knows (newFlagSet).
Known(name) == IF name = "run" THEN Takes \cup Switches
               ELSE (Takes \cup Switches) \ RunOnly

\* One flag.FlagSet.Parse after another (parseArgs): flags and bare words in any
\* order.  A "--" ends one pass, so that the word after it is bare whatever it
\* looks like, and the next pass begins behind that word.  Once alone, which is
\* what keys does, it stops at the first bare word.
Parse(words, name, again) ==
  LET n == Len(words)
      Done(rest) == [bare |-> rest, flags |-> << >>, failed |-> FALSE]
      Flag(w, v, p) == [p EXCEPT !.flags = <<<<w, v>>>> \o @]
      from[i \in 1..(n + 2)] ==
        LET Bare(k) == IF again THEN [from[k + 1] EXCEPT !.bare = <<words[k]>> \o @]
                       ELSE Done(SubSeq(words, k, n))
        IN  CASE i > n -> Done(<< >>)
              [] i = n /\ words[i] = "--" -> Done(<< >>)
              [] i < n /\ words[i] = "--" -> Bare(i + 1)
              [] i <= n /\ ~IsFlag(words[i]) -> Bare(i)
              [] i <= n /\ words[i] \in Switches \cap Known(name) -> Flag(words[i], Blank, from[i + 1])
              [] i < n /\ words[i] \in Takes \cap Known(name)
                   /\ (words[i] = "-V" => words[i + 1] \in DOMAIN Assignments) ->
                      Flag(words[i], words[i + 1], from[i + 2])
              [] OTHER -> [Done(<< >>) EXCEPT !.failed = TRUE]
  IN  from[1]

Version(p) == \E f \in Range(p.flags) : f[1] = "-version"

Outcome(what, p) == [does |-> what, bare |-> p.bare, flags |-> p.flags]
Says(what) == [does |-> what, bare |-> << >>, flags |-> << >>]

\* The last of the flags fs that is one of ws, with its value, or else.
Latest(fs, ws, else) ==
  LET at == {i \in DOMAIN fs : fs[i][1] \in ws}
  IN  IF at = {} THEN else ELSE fs[CHOOSE i \in at : \A j \in at : j <= i]

\* ParseFormat.
Formats == {"text", "json"}

\* runCollection: one collection, in a format there is.
RunCommand(p) ==
  IF Len(p.bare) = 1 /\ LET f == Latest(p.flags, {"-format", "-format=json"}, <<"-format=json">>)
                        IN  f[1] = "-format" => f[2] \in Formats
  THEN Outcome("run", p) ELSE Says("usage")

\* completion: one shell, of those there is a script for.
CompletionCommand(p) ==
  IF Len(p.bare) = 1 /\ p.bare[1] \in Shells THEN Outcome("script", p) ELSE Says("usage")

\* printKeys.
KeysCommand(p) == IF p.bare = << >> THEN Outcome("keys", p) ELSE Says("usage")

\* run, parseFlags: no subcommand, and at most one bare word, the target.
Explore(p) ==
  IF Len(p.bare) > 1 THEN Says("usage")
  ELSE IF Version(p) THEN Says("version") ELSE Outcome("explore", p)

\* run up to the point where each command has read its words.  completeValues,
\* which the completion scripts call, reads none of them as a flag.
Dispatch(words) ==
  LET split == SplitCommand(words)
      p == Parse(split.rest, split.name, split.name # "keys")
  IN  CASE WantsHelp(words) -> Says("help")
        [] ~WantsHelp(words) /\ split.name = "__complete" -> Says("candidates")
        [] OTHER ->
             IF p.failed THEN Says("usage")
             ELSE IF split.name # Blank /\ Version(p) THEN Says("version")
             ELSE CASE split.name = "run" -> RunCommand(p)
                    [] split.name = "completion" -> CompletionCommand(p)
                    [] split.name = "keys" -> KeysCommand(p)
                    [] OTHER -> Explore(p)

SettingOf == [f \in {"-cacert", "-cert", "-key", "-servername", "-insecure", "-insecure=false"} |->
                CASE f = "-cacert" -> "cacert" [] f = "-cert" -> "cert" [] f = "-key" -> "key"
                  [] f = "-servername" -> "servername" [] OTHER -> "insecure"]

\* The options struct the flags write to, and which of them were given (record): a
\* flag that is repeated is what it was last, but for -V, which collects.
Options(p) ==
  LET fs == p.flags
      Text(f) == Latest(fs, {f}, <<f, Blank>>)[2]
      assigned == {i \in DOMAIN fs : fs[i][1] = "-V"}
      Name(i) == Assignments[fs[i][2]].name
  IN  [profile |-> Text("-profile"), env |-> Text("-env"),
       target |-> IF p.does = "explore" /\ p.bare # << >> THEN p.bare[1] ELSE Text("-target"),
       tls |-> Latest(fs, {"-tls", "-tls=false"}, <<Blank, Blank>>)[1],
       sets |-> [s \in {SettingOf[f[1]] : f \in {g \in Range(fs) : g[1] \in DOMAIN SettingOf}} |->
                   Latest(fs, {f \in DOMAIN SettingOf : SettingOf[f] = s}, << >>)[1]
                     # "-insecure=false"],
       binds |-> [x \in {Name(i) : i \in assigned} |->
                    Assignments[fs[CHOOSE i \in assigned : /\ Name(i) = x
                                  /\ \A j \in assigned : Name(j) = x => j <= i][2]].value]]

-----------------------------------------------------------------------------
(* Properties *)

\* The words of a line that is given in units.
Flatten(units) ==
  LET words[k \in 0..Len(units)] == IF k = 0 THEN << >> ELSE words[k - 1] \o units[k]
  IN  words[Len(units)]

\* A unit is a flag, with its value if it takes one, or a bare word: no "--", and no
\* call for help.
Plain(units) ==
  \A u \in Range(units) : /\ u # << >> /\ u[1] \notin {"--", "-h"}
                          /\ Len(u) = IF u[1] \in Takes THEN 2 ELSE 1

\* Those of the units that are in a set, in their order.
Those(units, set) ==
  Flatten([k \in DOMAIN units |-> IF units[k] \in set THEN <<units[k]>> ELSE << >>])

\* Where the flags are makes no difference (flags.go: "so that the flags may come
\* first", "allowing flags to follow the bare words"): moved to the end, they leave
\* the command, its arguments and their values what they were.
FlagsGoAnywhere(units) ==
  LET bare == {u \in Range(units) : Len(u) = 1 /\ ~IsFlag(u[1])}
      sorted == Those(units, bare) \o Those(units, Range(units) \ bare)
      keysAndMore == SplitCommand(Flatten(units)).name = "keys" /\ Len(Those(units, bare)) > 1
  IN  Plain(units) /\ ~keysAndMore => Dispatch(Flatten(units)) = Dispatch(Flatten(sorted))

\* "Everything after it is an argument by definition, target included"
\* (flags.go:68): no flag is read behind two dashes.
DashesEndFlags(words) ==
  (Len(words) > 0 /\ words[1] = "--" /\ ~WantsHelp(words)) => Dispatch(words).flags = << >>
=============================================================================
