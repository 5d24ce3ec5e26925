--------------------------- MODULE Configuration ---------------------------
(***************************************************************************)
(* How the server gets its configuration: env.Load reads .env and          *)
(* .env.local line by line into the process environment, config.fromEnv    *)
(* lays the environment over the defaults, and main lays the flags over    *)
(* that and listens (internal/env, internal/config, main.go).  Between two *)
(* starts the operator edits what the next start finds.                    *)
(*                                                                         *)
(* Abstraction.  A value is a string of a small set, with the quotes and   *)
(* the comment behind it already taken off.  What strconv and flag make of *)
(* it is given by two tables, because they do not agree: strconv.Atoi      *)
(* reads 010 as ten and flag.Int as eight.  A flag main does not define,   *)
(* and -h, are a value that no flag accepts: flag.Parse exits for both.    *)
(* Who else has the port is not modelled: listening may fail on any.       *)
(***************************************************************************)
EXTENDS Naturals, Sequences

CONSTANTS
  Names,      \* settings: the fields of config.Config with their variables
  Values,     \* per setting, the strings somebody gives it; "" is one of them
  EnvMeans,   \* per setting, what fromEnv makes of the strings it accepts
  Flagged,    \* the settings main has a flag for
  FlagMeans,  \* per flag, what package flag makes of the strings it accepts
  Default,    \* config.Default
  Port,       \* the setting main listens on
  Bindable,   \* the ports net.Listen takes: 0 to 65535
  Unset,      \* the variable or flag is not given
  MaxLines    \* bounds the lines in both files together

ASSUME ConfigurationAssumption ==
  /\ \A n \in Names : Unset \notin Values[n] /\ "" \notin DOMAIN EnvMeans[n]
  /\ \A n \in Names : Unset \notin DOMAIN EnvMeans[n]
  /\ Flagged \subseteq Names /\ Port \in Names
  /\ MaxLines \in Nat

VARIABLES
  shell,    \* the environment the process is started with
  written,  \* the lines of .env and of .env.local; a missing file has none
  flags,    \* the command line
  state,    \* "down"; "loading"; "dead" after a panic or flag.Parse's exit;
            \* "configured", "up"; "ended" when main has returned
  file,     \* env.Load has reached this file
  line,     \*   and this line of it
  env,      \* the environment of the process
  cfg       \* the Config of main

cvars == <<shell, written, flags, state, file, line, env, cfg>>

Paths == 1 .. 2    \* 1 is .env, 2 is .env.local

(* "other" is blank, a comment or has no name before its '='; "quote" has  *)
(* a value of one quote character; "long" is over the scanner's 64 kB.     *)
Lines == [kind : {"other", "quote", "long"}, name : {Unset}, value : {Unset}]
           \cup UNION {[kind : {"setting"}, name : {n}, value : Values[n]] : n \in Names}

Given(n) == Values[n] \cup {Unset}
Strings  == UNION {Given(n) : n \in Names}

Init == /\ shell = [n \in Names |-> Unset]
        /\ written = [f \in Paths |-> <<>>]
        /\ flags = [n \in Flagged |-> Unset]
        /\ state = "down"
        /\ file = 1
        /\ line = 1
        /\ env = [n \in Names |-> Unset]
        /\ cfg = Default

----------------------------------------------------------------------------
(* The operator, while the server is down.                                 *)
Export(n, v) == /\ state = "down"
                /\ shell' = [shell EXCEPT ![n] = v]
                /\ UNCHANGED <<written, flags, state, file, line, env, cfg>>

Write(f, l) == /\ state = "down"
               /\ Len(written[1]) + Len(written[2]) < MaxLines
               /\ written' = [written EXCEPT ![f] = Append(@, l)]
               /\ UNCHANGED <<shell, flags, state, file, line, env, cfg>>

GiveFlag(n, v) == /\ state = "down"
                  /\ flags' = [flags EXCEPT ![n] = v]
                  /\ UNCHANGED <<shell, written, state, file, line, env, cfg>>

Start == /\ state = "down"
         /\ state' = "loading"
         /\ env' = shell
         /\ file' = 1
         /\ line' = 1
         /\ UNCHANGED <<shell, written, flags, cfg>>

----------------------------------------------------------------------------
(* env.Load.  pre is taken before the first file is opened, so it is the   *)
(* environment the process was started with.                               *)
AlreadySet(n) == env[n] # Unset               \* mutant: pre is taken again for every line
Protected(n)  == shell[n] # Unset

Scans == state = "loading" /\ file \in Paths
Current == written[file][line]

(* The scanner stops at the end and at a line that is too long for it.     *)
AtEnd == line \in 1 .. Len(written[file]) => Current.kind = "long"

NextLine == line' = line + 1 /\ UNCHANGED <<shell, written, flags, file, cfg>>

SkipLine == /\ Scans
            /\ ~AtEnd
            /\ \/ Current.kind = "other"
               \/ Current.kind = "setting" /\ Protected(Current.name)
            /\ NextLine
            /\ UNCHANGED <<state, env>>

Setenv == /\ Scans
          /\ ~AtEnd
          /\ Current.kind = "setting"
          /\ ~Protected(Current.name)
          /\ env' = [env EXCEPT ![Current.name] = Current.value]
          /\ NextLine
          /\ UNCHANGED state

(* v[1 : len(v)-1] of a lone quote panics, and nothing recovers in main.   *)
TakesBlank(l) == l.kind \in {"quote", "other"}   \* mutant: the first byte of an empty line is read
Panics(l)     == l.kind = "quote"

LoadPanics == /\ Scans
              /\ ~AtEnd
              /\ Panics(Current)
              /\ state' = "dead"
              /\ UNCHANGED <<shell, written, flags, file, line, env, cfg>>

EndFile == /\ Scans
           /\ AtEnd
           /\ file' = file + 1
           /\ line' = 1
           /\ UNCHANGED <<shell, written, flags, state, env, cfg>>

----------------------------------------------------------------------------
(* config.fromEnv and main.                                                *)
TakesEmpty(n, v) == IF v = "" THEN "" ELSE IF v \in DOMAIN EnvMeans[n] THEN EnvMeans[n][v] ELSE Default[n]  \* mutant: LookupEnv
fromEnv(n, v) == IF v \in DOMAIN EnvMeans[n] THEN EnvMeans[n][v] ELSE Default[n]

Flag(n) == n \in Flagged /\ flags[n] # Unset

BadFlag == \E n \in Flagged : flags[n] # Unset /\ flags[n] \notin DOMAIN FlagMeans[n]

Parses == state = "loading" /\ file \notin Paths

Configure == /\ Parses
             /\ ~BadFlag
             /\ cfg' = [n \in Names |-> IF Flag(n) THEN FlagMeans[n][flags[n]] ELSE fromEnv(n, env[n])]
             /\ state' = "configured"
             /\ UNCHANGED <<shell, written, flags, file, line, env>>

(* flag.Parse ends the process on a value it cannot parse.                 *)
FlagExits == /\ Parses
             /\ BadFlag
             /\ state' = "dead"
             /\ UNCHANGED <<shell, written, flags, file, line, env, cfg>>

(* server.New and http.ListenAndServe.  Its error, for a port out of range *)
(* or in use, is dropped: main returns and the process ends with status 0. *)
ListenAnyway == state = "configured" /\ state' = "up" /\ UNCHANGED <<shell, written, flags, file, line, env, cfg>>  \* mutant
Listen == /\ state = "configured"
          /\ cfg[Port] \in Bindable
          /\ state' = "up"
          /\ UNCHANGED <<shell, written, flags, file, line, env, cfg>>

ListenFails == /\ state = "configured"
               /\ state' = "ended"
               /\ UNCHANGED <<shell, written, flags, file, line, env, cfg>>

(* The operator stops the server, or sees that it did not start.           *)
Stop == /\ state \in {"up", "ended", "dead"}
        /\ state' = "down"
        /\ file' = 1
        /\ line' = 1
        /\ env' = [n \in Names |-> Unset]
        /\ cfg' = Default
        /\ UNCHANGED <<shell, written, flags>>

Edit == \/ \E n \in Names : \E v \in Given(n) : Export(n, v)
        \/ \E f \in Paths, l \in Lines : Write(f, l)
        \/ \E n \in Flagged : \E v \in Given(n) : GiveFlag(n, v)

Load == SkipLine \/ Setenv \/ LoadPanics \/ EndFile

Next == Edit \/ Start \/ Load \/ Configure \/ FlagExits \/ Listen \/ ListenFails \/ Stop

Spec == Init /\ [][Next]_cvars

----------------------------------------------------------------------------
(* What the files say, without reading them in order.                      *)
Reached(f, i)  == i \in 1 .. Len(written[f]) /\ \A j \in 1 .. i : written[f][j].kind # "long"
Sets(f, i, n)  == Reached(f, i) /\ written[f][i].kind = "setting" /\ written[f][i].name = n
Before(f, i, g, j) == f < g \/ (f = g /\ i < j)

IsLast(f, i, n) ==
  /\ Sets(f, i, n)
  /\ \A g \in Paths : \A j \in 1 .. Len(written[g]) : Sets(g, j, n) => ~Before(f, i, g, j)

LastSettingGives(n, result) ==
  /\ \A f \in Paths : \A i \in 1 .. Len(written[f]) :
       IsLast(f, i, n) => result = fromEnv(n, written[f][i].value)
  /\ (\A f \in Paths : \A i \in 1 .. Len(written[f]) : ~Sets(f, i, n)) => result = Default[n]

(* What fromEnv and package flag can produce. *)
Results(n) == {Default[n]} \cup {EnvMeans[n][v] : v \in DOMAIN EnvMeans[n]}
                \cup (IF n \in Flagged THEN {FlagMeans[n][v] : v \in DOMAIN FlagMeans[n]} ELSE {})

(* Every variable holds what the program can put there.                    *)
TypeOK ==
  /\ shell \in [Names -> Strings] /\ env \in [Names -> Strings]
  /\ written \in [Paths -> Seq(Lines)]
  /\ flags \in [Flagged -> Strings]
  /\ state \in {"down", "loading", "dead", "configured", "up", "ended"}
  /\ file \in 1 .. 3 /\ line \in Nat \ {0}
  /\ \A n \in Names : cfg[n] \in Results(n)

(* A Config that main has made is the flag's, else that of the environment *)
(* main was started with, else that of the last line of .env.local and     *)
(* .env the scanner reached, else the default; an empty or unreadable      *)
(* string counts as given, and gives the default rather than what an       *)
(* earlier line says (env.go:9-54, config.go:46-99, main.go:14-41).        *)
HasConfig == state \in {"configured", "up", "ended"}

ConfiguredAsWritten ==
  HasConfig => \A n \in Names :
    /\ Flag(n) => cfg[n] = FlagMeans[n][flags[n]]
    /\ ~Flag(n) /\ shell[n] # Unset => cfg[n] = fromEnv(n, shell[n])
    /\ ~Flag(n) /\ shell[n] = Unset => LastSettingGives(n, cfg[n])

(* How a start ends.  It dies before it has a Config only because a line   *)
(* it reaches has a lone quote, even for a name it would not have set, or  *)
(* because a flag does not parse, and then it always dies; a server that   *)
(* is up has a port that can be listened on.  One with a good Config may   *)
(* still end at once (main.go:52), so nothing promises that it comes up.   *)
LoneQuote == \E f \in Paths : \E i \in 1 .. Len(written[f]) : Reached(f, i) /\ written[f][i].kind = "quote"

StartsUnlessUnreadable ==
  /\ HasConfig => ~LoneQuote /\ ~BadFlag
  /\ state = "dead" => LoneQuote \/ BadFlag
  /\ state = "up" => cfg[Port] \in Bindable

(* The inductive invariant behind both.  Half way through the files, a     *)
(* name the process was not started with has the value of its last line so *)
(* far, and no line so far was a lone quote.                               *)
Passed(f, i)    == Reached(f, i) /\ Before(f, i, file, line)
HasSet(f, i, n) == Sets(f, i, n) /\ Before(f, i, file, line)

EnvironmentSoFar ==
  \A n \in Names :
    /\ shell[n] # Unset => env[n] = shell[n]
    /\ shell[n] = Unset =>
         /\ \A f \in Paths : \A i \in 1 .. Len(written[f]) :
              HasSet(f, i, n) =>
                \/ env[n] = written[f][i].value
                \/ \E g \in Paths : \E j \in 1 .. Len(written[g]) : HasSet(g, j, n) /\ Before(f, i, g, j)
         /\ (\A f \in Paths : \A i \in 1 .. Len(written[f]) : ~HasSet(f, i, n)) => env[n] = Unset

LoadInv ==
  /\ state = "loading" =>
       /\ EnvironmentSoFar
       /\ \A f \in Paths : \A i \in 1 .. Len(written[f]) : Passed(f, i) => written[f][i].kind # "quote"
       /\ file \in Paths => /\ line <= Len(written[file]) + 1
                             /\ \A j \in 1 .. line - 1 : written[file][j].kind # "long"
  /\ ConfiguredAsWritten
  /\ StartsUnlessUnreadable
=============================================================================
