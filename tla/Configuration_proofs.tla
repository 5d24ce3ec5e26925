------------------------ MODULE Configuration_proofs ------------------------
(***************************************************************************)
(* Proofs about Configuration for every set of names, values and files.    *)
(* LoadInv is inductive: a step of env.Load moves one line from what is    *)
(* ahead of the scanner to what is behind it, and the lines behind it say  *)
(* what the environment holds.  When the last file has ended, nothing a    *)
(* scanner can reach is ahead, which is ConfiguredAsWritten.               *)
(***************************************************************************)
EXTENDS Configuration, TLAPS

USE DEF Paths

Kept == UNCHANGED <<shell, written, flags>>

LEMMA KeptReached ==
  ASSUME Kept, NEW f, NEW i
  PROVE  /\ Reached(f, i)' <=> Reached(f, i)
         /\ \A n : Sets(f, i, n)' <=> Sets(f, i, n)
  BY DEF Kept, Reached, Sets

(* Every variable keeps its type: a configured value is always one the     *)
(* default, fromEnv or the flag package can produce.                       *)
LEMMA InitType == Init => TypeOK
<1> SUFFICES ASSUME Init PROVE TypeOK
  OBVIOUS
<1>1. \A n \in Names : Unset \in Strings
  BY DEF Strings, Given
<1>2. \A n \in Flagged : Unset \in Strings
  BY <1>1, ConfigurationAssumption
<1>3. shell \in [Names -> Strings] /\ env \in [Names -> Strings]
  BY <1>1 DEF Init
<1>4. flags \in [Flagged -> Strings]
  BY <1>2 DEF Init
<1>5. written \in [Paths -> Seq(Lines)] /\ file \in 1 .. 3 /\ line \in Nat \ {0} /\ state = "down"
  BY DEF Init
<1>6. \A n \in Names : cfg[n] \in Results(n)
  BY DEF Init, Results
<1> QED
  BY <1>3, <1>4, <1>5, <1>6 DEF TypeOK

LEMMA NextType == TypeOK /\ [Next]_cvars => TypeOK'
<1> SUFFICES ASSUME TypeOK, [Next]_cvars PROVE TypeOK'
  OBVIOUS
<1> USE DEF TypeOK
<1>1. ASSUME NEW n \in Names, NEW v \in Given(n), Export(n, v) PROVE TypeOK'
  BY <1>1 DEF Export, Strings, Results
<1>2. ASSUME NEW f \in Paths, NEW l \in Lines, Write(f, l) PROVE TypeOK'
  BY <1>2 DEF Write, Results
<1>3. ASSUME NEW n \in Flagged, NEW v \in Given(n), GiveFlag(n, v) PROVE TypeOK'
  BY <1>3, ConfigurationAssumption DEF GiveFlag, Strings, Results
<1>4. CASE Start
  BY <1>4 DEF Start, Results
<1>5. CASE SkipLine
  BY <1>5 DEF SkipLine, NextLine, Results
<1>6. CASE Setenv
  <2>1. Current \in Lines
    BY <1>6 DEF Setenv, Scans, AtEnd, Current
  <2>2. Current.value \in Strings
    BY <2>1, <1>6 DEF Lines, Setenv, Strings, Given
  <2>3. env' \in [Names -> Strings]
    BY <1>6, <2>2 DEF Setenv
  <2> QED
    BY <1>6, <2>3 DEF Setenv, NextLine, Results
<1>7. CASE LoadPanics
  BY <1>7 DEF LoadPanics, Results
<1>8. CASE EndFile
  BY <1>8 DEF EndFile, Scans, Results
<1>9. CASE Configure
  <2>1. ASSUME NEW n \in Names PROVE cfg'[n] \in Results(n)
    <3>1. CASE Flag(n)
      BY <1>9, <3>1 DEF Configure, BadFlag, Flag, Results
    <3>2. CASE ~Flag(n)
      BY <1>9, <3>2 DEF Configure, fromEnv, Results
    <3> QED
      BY <3>1, <3>2
  <2> QED
    BY <1>9, <2>1 DEF Configure, Results
<1>10. CASE FlagExits
  BY <1>10 DEF FlagExits, Results
<1>11. CASE Stop
  BY <1>11 DEF Stop, Strings, Given, Results
<1>12. CASE Listen \/ ListenFails
  BY <1>12 DEF Listen, ListenFails, Results
<1>13. CASE UNCHANGED cvars
  BY <1>13 DEF cvars, Results
<1> QED
  BY <1>1, <1>2, <1>3, <1>4, <1>5, <1>6, <1>7, <1>8, <1>9, <1>10, <1>11, <1>12, <1>13 DEF Next, Edit, Load

(* The variables and files keep their types in every behaviour.            *)
THEOREM TypeCorrect == Spec => []TypeOK
  BY InitType, NextType, PTL DEF Spec

----------------------------------------------------------------------------
(* The line read moves behind the scanner, and no other.                   *)
LEMMA OneLineFurther ==
  ASSUME TypeOK, Scans, ~AtEnd, NextLine, LoadInv, state = "loading",
         NEW f \in Paths, NEW i \in 1 .. Len(written[f])
  PROVE  /\ Reached(f, i)' <=> Reached(f, i)
         /\ \A n : Sets(f, i, n)' <=> Sets(f, i, n)
         /\ Before(f, i, file, line)' <=> Before(f, i, file, line) \/ (f = file /\ i = line)
         /\ Reached(file, line)
<1>1. Kept
  BY DEF NextLine, Kept
<1>2. Reached(file, line)
  BY DEF AtEnd, LoadInv, Scans, Reached, Current, TypeOK
<1>3. Before(f, i, file, line)' <=> Before(f, i, file, line) \/ (f = file /\ i = line)
  <2>1. written[f] \in Seq(Lines)
    BY DEF TypeOK
  <2>2. i \in Nat /\ line \in Nat /\ file \in Nat /\ f \in Nat
    BY <2>1 DEF TypeOK
  <2> QED
    BY <2>2 DEF NextLine, Before
<1> QED
  BY <1>1, <1>2, <1>3, KeptReached

LEMMA LineStep ==
  ASSUME TypeOK, LoadInv, SkipLine \/ Setenv
  PROVE  LoadInv'
<1> USE DEF SkipLine, Setenv, Scans
<1>1. /\ state = "loading" /\ state' = "loading" /\ ~AtEnd /\ NextLine /\ file \in Paths
      /\ Kept /\ file' = file /\ line' = line + 1 /\ line \in 1 .. Len(written[file])
  BY DEF NextLine, Kept, AtEnd
<1>2. Current.kind # "long" /\ Current.kind # "quote"
  BY DEF AtEnd
<1>3. EnvironmentSoFar'
  <2> SUFFICES ASSUME NEW n \in Names
               PROVE  /\ shell[n] # Unset => env'[n] = shell[n]
                      /\ shell[n] = Unset =>
                         /\ \A f \in Paths : \A i \in 1 .. Len(written[f]) :
                              HasSet(f, i, n)' =>
                                \/ env'[n] = written[f][i].value
                                \/ \E g \in Paths : \E j \in 1 .. Len(written[g]) :
                                     HasSet(g, j, n)' /\ Before(f, i, g, j)
                         /\ (\A f \in Paths : \A i \in 1 .. Len(written[f]) : ~HasSet(f, i, n)') => env'[n] = Unset
    BY <1>1 DEF EnvironmentSoFar, Kept, Before
  <2>1. EnvironmentSoFar /\ env \in [Names -> Strings]
    BY <1>1 DEF LoadInv, TypeOK
  <2>2. ASSUME NEW f \in Paths, NEW i \in 1 .. Len(written[f])
        PROVE  HasSet(f, i, n)' <=> HasSet(f, i, n) \/ (f = file /\ i = line /\ Sets(file, line, n))
    BY <1>1, OneLineFurther DEF HasSet
  <2>3. Sets(file, line, n) <=> Current.kind = "setting" /\ Current.name = n
    BY <1>1, OneLineFurther DEF Sets, Current
  <2>4. CASE Sets(file, line, n) /\ shell[n] = Unset
    <3>1. env'[n] = written[file][line].value
      BY <2>4, <2>3, <2>1 DEF Current, Protected
    <3>2. \E g \in Paths : \E j \in 1 .. Len(written[g]) : g = file /\ j = line /\ HasSet(g, j, n)'
      BY <1>1, <2>2, <2>4
    <3>3. ASSUME NEW f \in Paths, NEW i \in 1 .. Len(written[f]), HasSet(f, i, n)', ~(f = file /\ i = line)
          PROVE  Before(f, i, file, line)
      BY <2>2, <3>3 DEF HasSet
    <3>4. ASSUME NEW f \in Paths, NEW i \in 1 .. Len(written[f]), HasSet(f, i, n)'
          PROVE  \/ env'[n] = written[f][i].value
                 \/ \E g \in Paths : \E j \in 1 .. Len(written[g]) : HasSet(g, j, n)' /\ Before(f, i, g, j)
      BY <3>1, <3>2, <3>3, <3>4
    <3> QED
      BY <2>4, <3>2, <3>4
  <2>5. CASE ~Sets(file, line, n) \/ shell[n] # Unset
    <3>1. env'[n] = env[n]
      BY <2>5, <2>3, <2>1 DEF Protected
    <3>2. CASE shell[n] # Unset
      BY <3>1, <3>2, <2>1 DEF EnvironmentSoFar
    <3>3. CASE shell[n] = Unset
      <4>1. \A f \in Paths : \A i \in 1 .. Len(written[f]) : HasSet(f, i, n)' <=> HasSet(f, i, n)
        BY <2>2, <2>5, <3>3
      <4> QED
        BY <3>1, <3>3, <4>1, <2>1 DEF EnvironmentSoFar
    <3> QED
      BY <3>2, <3>3
  <2> QED
    BY <2>4, <2>5
<1>4. ASSUME NEW f \in Paths', NEW i \in 1 .. Len(written'[f]), Passed(f, i)'
      PROVE  written'[f][i].kind # "quote"
  <2>0. written' = written /\ f \in Paths /\ i \in 1 .. Len(written[f])
    BY <1>1, <1>4 DEF Kept
  <2>1. Passed(f, i) \/ (f = file /\ i = line)
    BY <1>1, <2>0, <1>4, OneLineFurther DEF Passed
  <2> QED
    BY <2>0, <2>1, <1>1, <1>2 DEF LoadInv, Current
<1>5. /\ line' <= Len(written'[file']) + 1
      /\ \A j \in 1 .. line' - 1 : written'[file'][j].kind # "long"
  <2>1. written' = written /\ written[file] \in Seq(Lines)
    BY <1>1 DEF Kept, TypeOK
  <2>2. \A j \in 1 .. line - 1 : written[file][j].kind # "long"
    BY <1>1 DEF LoadInv
  <2>3. \A j \in 1 .. (line + 1) - 1 : j = line \/ j \in 1 .. line - 1
    BY <1>1, <2>1
  <2>4. \A j \in 1 .. line' - 1 : written'[file'][j].kind # "long"
    BY <1>1, <1>2, <2>1, <2>2, <2>3 DEF Current
  <2> QED
    BY <1>1, <2>1, <2>4
<1> QED
  BY <1>1, <1>3, <1>4, <1>5 DEF LoadInv, ConfiguredAsWritten, StartsUnlessUnreadable, HasConfig

(* At the end of a file everything a scanner can reach in it is behind it. *)
LEMMA FileEnds ==
  ASSUME TypeOK, LoadInv, EndFile
  PROVE  LoadInv'
<1> USE DEF EndFile, Scans
<1>1. Kept /\ state = "loading" /\ file \in Paths /\ file' = file + 1 /\ line' = 1 /\ env' = env
  BY DEF Kept
<1>2. ASSUME NEW i \in 1 .. Len(written[file]), Reached(file, i) PROVE i < line
  <2>1. written[file] \in Seq(Lines) /\ line \in Nat \ {0}
    BY DEF TypeOK
  <2>2. CASE line > Len(written[file])
    BY <2>1, <2>2
  <2>3. CASE line \in 1 .. Len(written[file])
    <3>1. written[file][line].kind = "long"
      BY <2>3 DEF AtEnd, Current
    <3>2. line \notin 1 .. i
      BY <3>1, <1>2 DEF Reached
    <3> QED
      BY <2>1, <3>2
  <2> QED
    BY <2>1, <2>2, <2>3
<1>3. ASSUME NEW f \in Paths, NEW i \in 1 .. Len(written[f]), Reached(f, i)
      PROVE  Before(f, i, file, line)' <=> Before(f, i, file, line)
  <2>1. written[f] \in Seq(Lines) /\ i \in Nat \ {0}
    BY DEF TypeOK
  <2>2. f = file => i < line
    BY <1>2, <1>3
  <2> QED
    BY <1>1, <2>1, <2>2 DEF Before
<1>4. ASSUME NEW f \in Paths, NEW i \in 1 .. Len(written[f])
      PROVE  /\ Passed(f, i)' <=> Passed(f, i)
             /\ \A n : HasSet(f, i, n)' <=> HasSet(f, i, n)
  BY <1>1, <1>3, KeptReached DEF Passed, HasSet, Sets
<1>5. EnvironmentSoFar'
  <2>1. EnvironmentSoFar
    BY <1>1 DEF LoadInv
  <2> QED
    BY <1>1, <1>4, <2>1 DEF EnvironmentSoFar, Kept, Before
<1>6. ASSUME NEW f \in Paths, NEW i \in 1 .. Len(written[f]), Passed(f, i)'
      PROVE  written'[f][i].kind # "quote"
  BY <1>1, <1>4, <1>6 DEF LoadInv, Kept
<1>7. file' \in Paths => /\ line' <= Len(written'[file']) + 1
                         /\ \A j \in 1 .. line' - 1 : written'[file'][j].kind # "long"
  <2>1. file' \in Paths => Len(written'[file']) \in Nat
    BY <1>1 DEF Kept, TypeOK
  <2> QED
    BY <1>1, <2>1
<1>8. state' = "loading" /\ written' = written
  BY <1>1 DEF Kept
<1> QED
  BY <1>5, <1>6, <1>7, <1>8 DEF LoadInv, ConfiguredAsWritten, StartsUnlessUnreadable, HasConfig

(* After the last file the environment is what the files say.              *)
LEMMA LoadedGives ==
  ASSUME TypeOK, LoadInv, Parses, NEW n \in Names, shell[n] = Unset
  PROVE  LastSettingGives(n, fromEnv(n, env[n]))
<1> USE DEF Parses
<1>1. file = 3 /\ EnvironmentSoFar
  BY DEF TypeOK, LoadInv
<1>2. ASSUME NEW f \in Paths, NEW i \in 1 .. Len(written[f])
      PROVE  HasSet(f, i, n) <=> Sets(f, i, n)
  BY <1>1 DEF HasSet, Before
<1>3. ASSUME NEW f \in Paths, NEW i \in 1 .. Len(written[f]), IsLast(f, i, n)
      PROVE  fromEnv(n, env[n]) = fromEnv(n, written[f][i].value)
  <2>1. env[n] = written[f][i].value
    BY <1>1, <1>2, <1>3 DEF EnvironmentSoFar, IsLast
  <2> QED
    BY <2>1
<1>4. ASSUME \A f \in Paths : \A i \in 1 .. Len(written[f]) : ~Sets(f, i, n)
      PROVE  fromEnv(n, env[n]) = Default[n]
  <2>1. env[n] = Unset
    BY <1>1, <1>2, <1>4 DEF EnvironmentSoFar
  <2> QED
    BY <2>1, ConfigurationAssumption DEF fromEnv
<1> QED
  BY <1>3, <1>4 DEF LastSettingGives

LEMMA ConfigureStep ==
  ASSUME TypeOK, LoadInv, Configure
  PROVE  LoadInv'
<1> USE DEF Configure
<1>1. Parses /\ ~BadFlag /\ Kept /\ state = "loading" /\ file = 3
  BY DEF Parses, Kept, TypeOK
<1>2. ~LoneQuote
  BY <1>1 DEF LoneQuote, LoadInv, Passed, Before
<1>3. ASSUME NEW n \in Names
      PROVE  /\ Flag(n) => cfg'[n] = FlagMeans[n][flags[n]]
             /\ ~Flag(n) /\ shell[n] # Unset => cfg'[n] = fromEnv(n, shell[n])
             /\ ~Flag(n) /\ shell[n] = Unset => LastSettingGives(n, cfg'[n])
  <2>1. shell[n] # Unset => env[n] = shell[n]
    BY <1>1 DEF LoadInv, EnvironmentSoFar
  <2>2. ~Flag(n) => cfg'[n] = fromEnv(n, env[n])
    OBVIOUS
  <2>3. ~Flag(n) /\ shell[n] = Unset => LastSettingGives(n, cfg'[n])
    BY <1>1, <2>2, LoadedGives
  <2> QED
    BY <2>1, <2>2, <2>3
<1>4. ConfiguredAsWritten'
  BY <1>1, <1>3 DEF ConfiguredAsWritten, HasConfig, Kept, Flag, LastSettingGives, IsLast, Sets, Reached, Before, fromEnv
<1>5. StartsUnlessUnreadable'
  BY <1>1, <1>2 DEF StartsUnlessUnreadable, HasConfig, Kept, LoneQuote, BadFlag, Reached
<1> QED
  BY <1>4, <1>5 DEF LoadInv

LEMMA NextLoad == TypeOK /\ LoadInv /\ [Next]_cvars => LoadInv'
<1> SUFFICES ASSUME TypeOK, LoadInv, [Next]_cvars PROVE LoadInv'
  OBVIOUS
<1> USE DEF ConfiguredAsWritten, StartsUnlessUnreadable, HasConfig
<1>1. CASE Edit
  BY <1>1 DEF Edit, Export, Write, GiveFlag, LoadInv
<1>2. CASE Start
  <2>1. \A f \in Paths : \A i \in 1 .. Len(written[f]) : ~Before(f, i, file, line)'
    <3>1. \A f \in Paths : written[f] \in Seq(Lines)
      BY DEF TypeOK
    <3> QED
      BY <1>2, <3>1 DEF Start, Before
  <2>2. written' = written /\ shell' = shell /\ env' = shell /\ state' = "loading" /\ file' = 1 /\ line' = 1
    BY <1>2 DEF Start
  <2>3. EnvironmentSoFar'
    BY <2>1, <2>2 DEF EnvironmentSoFar, HasSet
  <2>4. Len(written[1]) \in Nat
    BY DEF TypeOK
  <2> QED
    BY <2>1, <2>2, <2>3, <2>4 DEF LoadInv, Passed
<1>3. CASE SkipLine \/ Setenv
  BY <1>3, LineStep
<1>4. CASE LoadPanics
  <2>1. Reached(file, line) /\ file \in Paths /\ line \in 1 .. Len(written[file])
    BY <1>4 DEF LoadPanics, AtEnd, LoadInv, Scans, Reached, Current, TypeOK
  <2>2. LoneQuote'
    BY <1>4, <2>1 DEF LoadPanics, LoneQuote, Panics, Current, Reached
  <2> QED
    BY <1>4, <2>2 DEF LoadPanics, LoadInv
<1>5. CASE EndFile
  BY <1>5, FileEnds
<1>6. CASE Configure
  BY <1>6, ConfigureStep
<1>7. CASE FlagExits
  BY <1>7 DEF FlagExits, LoadInv, BadFlag
<1>8. CASE Stop
  BY <1>8 DEF Stop, LoadInv
<1>9. CASE Listen \/ ListenFails
  <2>1. Kept /\ cfg' = cfg /\ HasConfig /\ HasConfig'
    BY <1>9 DEF Listen, ListenFails, Kept
  <2>2. LoneQuote' <=> LoneQuote
    BY <2>1 DEF Kept, LoneQuote, Reached
  <2>3. ConfiguredAsWritten'
    BY <2>1 DEF LoadInv, Kept, Flag, LastSettingGives, IsLast, Sets, Reached, Before, fromEnv
  <2>4. StartsUnlessUnreadable'
    BY <1>9, <2>1, <2>2 DEF Listen, ListenFails, LoadInv, Kept, BadFlag
  <2> QED
    BY <1>9, <2>3, <2>4 DEF Listen, ListenFails, LoadInv
<1>10. CASE UNCHANGED cvars
  <2>1. LoadInv' <=> LoadInv
    BY <1>10 DEF cvars, LoadInv, EnvironmentSoFar, HasSet, Passed, Sets, Reached, Before, LoneQuote, BadFlag,
       LastSettingGives, IsLast, Flag, fromEnv
  <2> QED
    BY <2>1
<1> QED
  BY <1>1, <1>2, <1>3, <1>4, <1>5, <1>6, <1>7, <1>8, <1>9, <1>10 DEF Next, Load

LEMMA LoadAlways == Spec => [](TypeOK /\ LoadInv)
<1>1. Init => LoadInv
  BY DEF Init, LoadInv, ConfiguredAsWritten, StartsUnlessUnreadable, HasConfig
<1> QED
  BY <1>1, InitType, NextType, NextLoad, PTL DEF Spec

(* While the files are read, line by line, the environment is what the     *)
(* lines so far make it, and no line that would kill the process is passed *)
(* (env.go Load): files of any number and length.                          *)
THEOREM LoadingKeepsOrder == Spec => []LoadInv
  BY LoadAlways, PTL

(* The Config of main, and so that of a running server, is made of flag,   *)
(* environment, last line and default in that order, whatever the names,   *)
(* values and files.                                                       *)
THEOREM Precedence == Spec => []ConfiguredAsWritten
  BY LoadAlways, PTL DEF LoadInv

(* A start dies before it has a Config only for a lone quote in a line it  *)
(* reaches or a flag that does not parse, has a Config only without them,  *)
(* and is up only on a port that can be listened on.                       *)
THEOREM StartsOrDies == Spec => []StartsUnlessUnreadable
  BY LoadAlways, PTL DEF LoadInv
=============================================================================
