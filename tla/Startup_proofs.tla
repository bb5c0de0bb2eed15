--------------------------- MODULE Startup_proofs ---------------------------
(***************************************************************************)
(* Proofs about Startup, for any directories, any contents of files that   *)
(* the administrator edits and any environments.                           *)
(***************************************************************************)
EXTENDS Startup, TLAPS

-----------------------------------------------------------------------------
(* Paths files *)

Keys == PathKeys \cup {"tincreload"}

(* What the keys of a paths file may have as values. *)
LEMMA PathFileValues ==
  ASSUME NEW file \in PathFile
  PROVE  /\ DOMAIN file \subseteq Keys
         /\ \A k \in DOMAIN file :
               IF k = "tincreload" THEN file[k] \in BOOLEAN
               ELSE file[k] \in Dirs \cup {Relative, Empty}
<1>1. PICK ks \in SUBSET Keys :
        /\ file \in [ks -> Dirs \cup {Relative, Empty} \cup BOOLEAN]
        /\ \A k \in ks : file[k] \in BOOLEAN <=> k = "tincreload"
  BY DEF PathFile, Keys
<1>2. DOMAIN file = ks
  BY <1>1
<1>3. QED
  BY <1>1, <1>2, Zenon

LEMMA NoPathsTyped == NoPaths \in Paths
<1>1. FALSE \in BOOLEAN
  OBVIOUS
<1>2. QED
  BY <1>1 DEF NoPaths, Paths

LEMMA ReadTyped ==
  ASSUME NEW file \in PathFile \cup {NoFile}
  PROVE  ReadAppPathsFile(file) \in Paths
<1>1. CASE file = NoFile
  BY <1>1, NoPathsTyped DEF ReadAppPathsFile
<1>2. CASE file \in PathFile
  <2>1. file # NoFile
    BY <1>2, ConstantsOK DEF ConstantsOK
  <2>2. \A k \in PathKeys : Value(file, k, Unset) \in Dirs \cup {Relative, Unset}
    <3>1. SUFFICES ASSUME NEW k \in PathKeys, k \in DOMAIN file
                   PROVE  Value(file, k, Unset) \in Dirs \cup {Relative, Unset}
      BY DEF Value
    <3>2. file[k] \in Dirs \cup {Relative, Empty}
      BY <1>2, <3>1, PathFileValues DEF PathKeys
    <3>3. QED
      BY <3>1, <3>2 DEF Value, Clean
  <2>3. Value(file, "tincreload", FALSE) \in BOOLEAN
    <3>1. CASE "tincreload" \in DOMAIN file
      <4>1. file["tincreload"] \in BOOLEAN
        BY <1>2, <3>1, PathFileValues
      <4>2. file["tincreload"] # Empty
        BY <4>1, ConstantsOK DEF ConstantsOK
      <4>3. QED
        BY <3>1, <4>1, <4>2, Zenon DEF Value, Clean
    <3>2. CASE "tincreload" \notin DOMAIN file
      BY <3>2, Zenon DEF Value
    <3>3. QED
      BY <3>1, <3>2
  <2>4. QED
    BY <2>1, <2>2, <2>3 DEF ReadAppPathsFile, Paths, PathKeys
<1>3. QED
  BY <1>1, <1>2

(***************************************************************************)
(* What writeAppPathsFile writes is a paths file, and readAppPathsFile     *)
(* finds in it what was written.                                           *)
(***************************************************************************)
LEMMA ReadBack ==
  ASSUME NEW p \in Answers
  PROVE  Rendered(p) \in PathFile /\ ReadAppPathsFile(Rendered(p)) = p
<1> DEFINE f == Rendered(p)
<1>1. /\ p.configDir \in Dirs /\ p.tincBinDir \in Dirs /\ p.tincReload \in BOOLEAN
      /\ p = [configDir |-> p.configDir, tincBinDir |-> p.tincBinDir,
              tincReload |-> p.tincReload]
  BY DEF Answers
<1>2. /\ DOMAIN f = Keys
      /\ f["configdir"] = p.configDir
      /\ f["tincbindir"] = p.tincBinDir
      /\ f["tincreload"] = p.tincReload
      /\ f = [k \in Keys |-> f[k]]
  BY DEF Rendered, Keys, PathKeys
<1>3. p.configDir \notin BOOLEAN /\ p.tincBinDir \notin BOOLEAN
      /\ p.configDir # Empty /\ p.tincBinDir # Empty /\ p.tincReload # Empty
  BY <1>1, ConstantsOK DEF ConstantsOK
<1> HIDE DEF f
<1>4. \A k \in Keys : k = "configdir" \/ k = "tincbindir" \/ k = "tincreload"
  BY DEF Keys, PathKeys
<1>5. f \in PathFile
  <2>1. f \in [Keys -> Dirs \cup {Relative, Empty} \cup BOOLEAN]
    BY <1>1, <1>2, <1>4
  <2>2. \A k \in Keys : f[k] \in BOOLEAN <=> k = "tincreload"
    BY <1>1, <1>2, <1>3, <1>4, Zenon
  <2>3. f \in {g \in [Keys -> Dirs \cup {Relative, Empty} \cup BOOLEAN] :
                 \A k \in Keys : g[k] \in BOOLEAN <=> k = "tincreload"}
    BY <2>1, <2>2, Zenon
  <2>4. QED
    BY <2>3 DEF PathFile, Keys
<1>6. f # NoFile
  BY <1>5, ConstantsOK DEF ConstantsOK
<1>7. /\ Value(f, "configdir", Unset) = p.configDir
      /\ Value(f, "tincbindir", Unset) = p.tincBinDir
  BY <1>2, <1>3, Zenon DEF Value, Clean, Keys, PathKeys
<1>8. Value(f, "tincreload", FALSE) = p.tincReload
  BY <1>2, <1>3, Zenon DEF Value, Clean, Keys
<1>9. ReadAppPathsFile(f) = p
  BY <1>1, <1>6, <1>7, <1>8, Zenon DEF ReadAppPathsFile
<1>10. QED
  BY <1>5, <1>9 DEF f

(* The environment may replace a value, but never takes one away. *)
LEMMA EnvironmentApplied ==
  ASSUME NEW p \in Paths, NEW e \in Environments
  PROVE  /\ e.tincReload # Broken => ApplyPathEnv(p, e) \in Paths
         /\ p.configDir # Unset => ApplyPathEnv(p, e).configDir # Unset
         /\ p.tincBinDir # Unset => ApplyPathEnv(p, e).tincBinDir # Unset
<1>1. /\ e.configDir \in Dirs \cup {Relative, Unset}
      /\ e.tincBinDir \in Dirs \cup {Relative, Unset}
      /\ e.tincReload \in BOOLEAN \cup {Unset, Broken}
  BY ConstantsOK DEF ConstantsOK
<1>2. /\ p.configDir \in Dirs \cup {Relative, Unset}
      /\ p.tincBinDir \in Dirs \cup {Relative, Unset}
      /\ p.tincReload \in BOOLEAN
  BY DEF Paths
<1>3. e.tincReload # Broken => Or(e.tincReload, p.tincReload) \in BOOLEAN
  BY <1>1, <1>2, Zenon DEF Or
<1>4. /\ Or(e.configDir, p.configDir) \in Dirs \cup {Relative, Unset}
      /\ Or(e.tincBinDir, p.tincBinDir) \in Dirs \cup {Relative, Unset}
      /\ p.configDir # Unset => Or(e.configDir, p.configDir) # Unset
      /\ p.tincBinDir # Unset => Or(e.tincBinDir, p.tincBinDir) # Unset
  BY <1>1, <1>2 DEF Or
<1>5. QED
  BY <1>3, <1>4 DEF ApplyPathEnv, Paths

-----------------------------------------------------------------------------
(* The inductive invariant of Startup *)

(***************************************************************************)
(* The file is looked for where it was found, or would be made; whatever   *)
(* is done to it there, a restart looks for it in the same place.          *)
(***************************************************************************)
PlaceInv ==
    pc # "off" =>
        IF env.pathsFile THEN place = "env"
        ELSE place = "cwd" \/ (place = "exe" /\ files["cwd"] = NoFile)

(***************************************************************************)
(* No file is cut short, and the answers are in theirs.  The questions are *)
(* only asked about a file that no answers are in: that is what makes it   *)
(* safe to remove the file before the second rename.                       *)
(***************************************************************************)
KeptInv ==
    /\ AnswersKept
    /\ pc \in {"prompt", "write", "rename", "remove", "again"} =>
          answers = NoAnswers \/ answers.place # place

(***************************************************************************)
(* Where the paths at hand come from.                                      *)
(***************************************************************************)
FoundInv ==
    /\ pc \in {"off", "load", "prompt"} => ~ prompted
    /\ pc \in {"write", "rename", "remove", "again"} => prompted
    /\ pc \in {"validate", "up"} =>
          IF prompted
          THEN paths \in Answers /\ files[place] = Rendered(paths)
          ELSE /\ files[place] \notin {NoFile, Broken, Torn}
               /\ paths = ApplyPathEnv(ReadAppPathsFile(files[place]), env)
               /\ paths.configDir # Unset /\ paths.tincBinDir # Unset

IInv == TypeOK /\ PlaceInv /\ KeptInv /\ FoundInv

LEMMA AnswersArePaths == Answers \subseteq Paths
  BY DEF Answers, Paths

(* A file that answers are in leaves nothing to ask. *)
LEMMA NothingToAsk ==
  ASSUME NEW file \in PathFile \cup {NoFile}, ReadAppPathsFile(file) \in Answers,
         NEW e \in Environments
  PROVE  ~ MustAsk(file, ApplyPathEnv(ReadAppPathsFile(file), e))
<1> DEFINE p == ReadAppPathsFile(file)
<1>1. p \in Paths /\ p.configDir \in Dirs /\ p.tincBinDir \in Dirs
  BY AnswersArePaths DEF Answers
<1>2. p.configDir # Unset /\ p.tincBinDir # Unset
  BY <1>1, ConstantsOK DEF ConstantsOK
<1>3. file # NoFile
  BY <1>2 DEF ReadAppPathsFile, NoPaths
<1>4. QED
  BY <1>1, <1>2, <1>3, EnvironmentApplied DEF MustAsk

LEMMA InitInv == Init => IInv
<1> SUFFICES ASSUME Init PROVE IInv
  OBVIOUS
<1>1. TypeOK
  <2>1. prompted \in BOOLEAN
    BY Zenon DEF Init
  <2>2. QED
    BY <2>1, NoPathsTyped DEF Init, TypeOK, Locations
<1>2. PlaceInv /\ FoundInv
  BY DEF Init, PlaceInv, FoundInv
<1>3. KeptInv
  BY ConstantsOK DEF Init, KeptInv, AnswersKept, ConstantsOK
<1>4. QED
  BY <1>1, <1>2, <1>3 DEF IInv

(* main stops, before or after it was killed: nothing is left but the files. *)
LEMMA StoppedSafe ==
  ASSUME IInv, Stopped, UNCHANGED <<files, env, place, answers>>
  PROVE  IInv'
<1>1. pc' = "off" /\ paths' = NoPaths /\ ~ prompted' /\ prompted' \in BOOLEAN
  BY Zenon DEF Stopped, Goto
<1>2. TypeOK'
  BY <1>1, NoPathsTyped DEF IInv, TypeOK
<1>3. PlaceInv' /\ FoundInv' /\ KeptInv'
  BY <1>1 DEF PlaceInv, FoundInv, KeptInv, IInv, AnswersKept
<1>4. QED
  BY <1>2, <1>3 DEF IInv

LEMMA StartSafe ==
  ASSUME IInv, Start
  PROVE  IInv'
<1>1. pc' = "load" /\ pc = "off" /\ place' = AppPathsFile(files, env)
      /\ UNCHANGED <<files, env, paths, prompted, answers>>
  BY DEF Start, Goto
<1>2. TypeOK'
  BY <1>1 DEF IInv, TypeOK, AppPathsFile, Locations
<1>3. PlaceInv'
  BY <1>1 DEF PlaceInv, AppPathsFile
<1>4. KeptInv' /\ FoundInv'
  BY <1>1 DEF IInv, KeptInv, FoundInv, AnswersKept
<1>5. QED
  BY <1>2, <1>3, <1>4 DEF IInv

(***************************************************************************)
(* The questions are asked only if the file found has no answers in it.    *)
(***************************************************************************)
LEMMA LoadSafe ==
  ASSUME IInv, Load
  PROVE  IInv'
<1> DEFINE file == files[place]
           found == ApplyPathEnv(ReadAppPathsFile(file), env)
<1>1. UNCHANGED <<files, env, place, answers>> /\ pc = "load"
  BY DEF Load
<1>2. CASE file \in {Broken, Torn} \/ env.tincReload = Broken
  BY <1>1, <1>2, StoppedSafe DEF Load
<1>3. CASE ~ (file \in {Broken, Torn} \/ env.tincReload = Broken)
  <2>1. /\ paths' = found /\ prompted' = prompted
        /\ pc' = IF MustAsk(file, found) THEN "prompt" ELSE "validate"
    BY <1>3 DEF Load, Goto
  <2>2. file \in PathFile \cup {NoFile} /\ env \in Environments
    BY <1>3 DEF IInv, TypeOK
  <2>3. ReadAppPathsFile(file) \in Paths
    BY <2>2, ReadTyped
  <2>4. found \in Paths
    BY <1>3, <2>2, <2>3, EnvironmentApplied
  <2>5. TypeOK'
    <3>1. prompted' \in BOOLEAN
      BY <2>1 DEF IInv, TypeOK
    <3>2. QED
      BY <1>1, <2>1, <2>4, <3>1 DEF IInv, TypeOK
  <2>6. PlaceInv'
    BY <1>1 DEF IInv, PlaceInv
  <2>7. KeptInv'
    <3>1. AnswersKept'
      BY <1>1 DEF IInv, KeptInv, AnswersKept
    <3>2. ASSUME MustAsk(file, found), answers # NoAnswers, answers.place = place
          PROVE  FALSE
      <4>1. ReadAppPathsFile(file) = answers.paths /\ answers.paths \in Answers
        BY <3>2 DEF IInv, KeptInv, AnswersKept, TypeOK
      <4>2. QED
        BY <2>2, <3>2, <4>1, NothingToAsk
    <3>3. QED
      BY <1>1, <2>1, <3>1, <3>2 DEF KeptInv
  <2>8. FoundInv'
    <3>1. ~ prompted
      BY <1>1 DEF IInv, FoundInv
    <3>2. CASE MustAsk(file, found)
      BY <2>1, <3>1, <3>2 DEF FoundInv
    <3>3. CASE ~ MustAsk(file, found)
      BY <1>1, <1>3, <2>1, <3>1, <3>3 DEF FoundInv, MustAsk
    <3>4. QED
      BY <3>2, <3>3
  <2>9. QED
    BY <2>5, <2>6, <2>7, <2>8 DEF IInv
<1>4. QED
  BY <1>2, <1>3

LEMMA PromptSafe ==
  ASSUME IInv, Prompt
  PROVE  IInv'
<1>1. UNCHANGED <<files, env, place, answers>> /\ pc = "prompt"
  BY DEF Prompt
<1>2. CASE Stopped
  BY <1>1, <1>2, StoppedSafe
<1>3. CASE Goto("write") /\ paths' \in Answers /\ prompted' = TRUE
  <2>1. prompted' \in BOOLEAN /\ prompted'
    BY <1>3, Zenon
  <2>2. TypeOK'
    BY <1>1, <1>3, <2>1, AnswersArePaths DEF IInv, TypeOK, Goto
  <2>3. PlaceInv' /\ KeptInv'
    BY <1>1, <1>3 DEF IInv, PlaceInv, KeptInv, AnswersKept, Goto
  <2>4. FoundInv'
    BY <1>3, <2>1 DEF FoundInv, Goto
  <2>5. QED
    BY <2>2, <2>3, <2>4 DEF IInv
<1>4. QED
  BY <1>2, <1>3 DEF Prompt

LEMMA WriteTempSafe ==
  ASSUME IInv, WriteTemp
  PROVE  IInv'
<1>1. UNCHANGED <<files, env, place, answers>> /\ pc = "write"
  BY DEF WriteTemp
<1>2. CASE Stopped
  BY <1>1, <1>2, StoppedSafe
<1>3. CASE Goto("rename") /\ UNCHANGED <<paths, prompted>>
  <2>1. TypeOK'
    BY <1>1, <1>3 DEF IInv, TypeOK, Goto
  <2>2. PlaceInv' /\ KeptInv' /\ FoundInv'
    BY <1>1, <1>3 DEF IInv, PlaceInv, KeptInv, AnswersKept, FoundInv, Goto
  <2>3. QED
    BY <2>1, <2>2 DEF IInv
<1>4. QED
  BY <1>2, <1>3 DEF WriteTemp

(* Either rename leaves the answers, whole, where a restart looks for them. *)
LEMMA SavedSafe ==
  ASSUME IInv, pc \in {"rename", "again"}, Saved, UNCHANGED <<env, place>>
  PROVE  IInv'
<1>1. /\ files' = [files EXCEPT ![place] = Rendered(paths)]
      /\ answers' = [place |-> place, paths |-> paths]
      /\ pc' = "validate" /\ UNCHANGED <<env, place, paths, prompted>>
  BY DEF Saved, Goto
<1>2. /\ paths \in Answers /\ place \in Locations /\ prompted
      /\ files \in [Locations -> PathFile \cup {NoFile, Broken, Torn}]
  BY DEF IInv, TypeOK, FoundInv
<1>3. Rendered(paths) \in PathFile /\ ReadAppPathsFile(Rendered(paths)) = paths
  BY <1>2, ReadBack
<1>4. files'[place] = Rendered(paths)
      /\ \A l \in Locations : l # place => files'[l] = files[l]
  BY <1>1, <1>2
<1>5. TypeOK'
  BY <1>1, <1>2, <1>3 DEF IInv, TypeOK
<1>6. PlaceInv'
  BY <1>1, <1>4 DEF IInv, PlaceInv, Locations
<1>7. KeptInv'
  <2>1. \A l \in Locations : files'[l] # Torn
    BY <1>3, <1>4, ConstantsOK DEF ConstantsOK, IInv, KeptInv, AnswersKept
  <2>2. ReadAppPathsFile(files'[answers'.place]) = answers'.paths
    BY <1>1, <1>3, <1>4
  <2>3. QED
    BY <1>1, <2>1, <2>2 DEF KeptInv, AnswersKept
<1>8. FoundInv'
  BY <1>1, <1>2, <1>4 DEF FoundInv
<1>9. QED
  BY <1>5, <1>6, <1>7, <1>8 DEF IInv

LEMMA RenameSafe ==
  ASSUME IInv, Rename
  PROVE  IInv'
<1>1. UNCHANGED <<env, place>> /\ pc = "rename"
  BY DEF Rename
<1>2. CASE Saved
  BY <1>1, <1>2, SavedSafe
<1>3. CASE Goto("remove") /\ UNCHANGED <<files, paths, prompted, answers>>
  <2>1. TypeOK'
    BY <1>1, <1>3 DEF IInv, TypeOK, Goto
  <2>2. PlaceInv' /\ KeptInv' /\ FoundInv'
    BY <1>1, <1>3 DEF IInv, PlaceInv, KeptInv, AnswersKept, FoundInv, Goto
  <2>3. QED
    BY <2>1, <2>2 DEF IInv
<1>4. QED
  BY <1>2, <1>3 DEF Rename

(***************************************************************************)
(* Nobody's answers were in the file that is removed.                      *)
(***************************************************************************)
LEMMA RemoveSafe ==
  ASSUME IInv, Remove
  PROVE  IInv'
<1>1. UNCHANGED <<env, place, answers>> /\ pc = "remove"
  BY DEF Remove
<1>2. CASE Stopped /\ UNCHANGED files
  BY <1>1, <1>2, StoppedSafe
<1>3. CASE /\ Goto("again")
           /\ files' = [files EXCEPT ![place] = NoFile]
           /\ UNCHANGED <<paths, prompted>>
  <2>1. place \in Locations
        /\ files \in [Locations -> PathFile \cup {NoFile, Broken, Torn}]
    BY DEF IInv, TypeOK
  <2>2. files'[place] = NoFile
        /\ \A l \in Locations : l # place => files'[l] = files[l]
    BY <1>3, <2>1
  <2>3. TypeOK'
    BY <1>1, <1>3, <2>1 DEF IInv, TypeOK, Goto
  <2>4. PlaceInv'
    BY <1>1, <1>3, <2>2 DEF IInv, PlaceInv, Locations, Goto
  <2>5. KeptInv'
    <3>1. \A l \in Locations : files'[l] # Torn
      BY <2>2, ConstantsOK DEF ConstantsOK, IInv, KeptInv, AnswersKept
    <3>2. answers # NoAnswers =>
             /\ answers.place # place
             /\ ReadAppPathsFile(files'[answers.place]) = answers.paths
      BY <1>1, <2>2 DEF IInv, KeptInv, AnswersKept, TypeOK
    <3>3. QED
      BY <1>1, <3>1, <3>2 DEF KeptInv, AnswersKept
  <2>6. FoundInv'
    BY <1>1, <1>3 DEF IInv, FoundInv, Goto
  <2>7. QED
    BY <2>3, <2>4, <2>5, <2>6 DEF IInv
<1>4. QED
  BY <1>2, <1>3 DEF Remove

LEMMA RenameAgainSafe ==
  ASSUME IInv, RenameAgain
  PROVE  IInv'
<1>1. UNCHANGED <<env, place>> /\ pc = "again"
  BY DEF RenameAgain
<1>2. CASE Saved
  BY <1>1, <1>2, SavedSafe
<1>3. CASE Stopped /\ UNCHANGED <<files, answers>>
  BY <1>1, <1>3, StoppedSafe
<1>4. QED
  BY <1>2, <1>3 DEF RenameAgain

LEMMA ValidateSafe ==
  ASSUME IInv, Validate
  PROVE  IInv'
<1>1. UNCHANGED <<files, env, place, answers>> /\ pc = "validate"
  BY DEF Validate
<1>2. CASE Stopped
  BY <1>1, <1>2, StoppedSafe
<1>3. CASE /\ {paths.configDir, paths.tincBinDir} \subseteq Dirs
           /\ Goto("up")
           /\ UNCHANGED <<paths, prompted>>
  <2>1. paths \in Answers
    BY <1>3 DEF IInv, TypeOK, Paths, Answers
  <2>2. TypeOK'
    BY <1>1, <1>3, <2>1 DEF IInv, TypeOK, Goto
  <2>3. PlaceInv' /\ KeptInv' /\ FoundInv'
    BY <1>1, <1>3 DEF IInv, PlaceInv, KeptInv, AnswersKept, FoundInv, Goto
  <2>4. QED
    BY <2>2, <2>3 DEF IInv
<1>4. QED
  BY <1>2, <1>3 DEF Validate

(***************************************************************************)
(* The administrator leaves no file cut short; answers in an edited file   *)
(* are no answers any more.                                                *)
(***************************************************************************)
LEMMA EditFileSafe ==
  ASSUME IInv, NEW l \in Locations, NEW f \in AdminFiles, EditFile(l, f)
  PROVE  IInv'
<1>1. /\ pc = "off" /\ files' = [files EXCEPT ![l] = f]
      /\ answers' = IF answers # NoAnswers /\ answers.place = l
                    THEN NoAnswers ELSE answers
      /\ UNCHANGED <<pc, env, place, paths, prompted>>
  BY DEF EditFile
<1>2. f \in PathFile \cup {NoFile, Broken} /\ f # Torn
  BY ConstantsOK DEF ConstantsOK
<1>3. files \in [Locations -> PathFile \cup {NoFile, Broken, Torn}]
  BY DEF IInv, TypeOK
<1>4. files'[l] = f /\ \A m \in Locations : m # l => files'[m] = files[m]
  BY <1>1, <1>3
<1>5. TypeOK'
  BY <1>1, <1>2, <1>3 DEF IInv, TypeOK
<1>6. PlaceInv' /\ FoundInv'
  BY <1>1 DEF IInv, PlaceInv, FoundInv
<1>7. KeptInv'
  <2>1. \A m \in Locations : files'[m] # Torn
    BY <1>2, <1>4 DEF IInv, KeptInv, AnswersKept
  <2>2. answers' # NoAnswers =>
           ReadAppPathsFile(files'[answers'.place]) = answers'.paths
    BY <1>1, <1>4 DEF IInv, KeptInv, AnswersKept, TypeOK
  <2>3. QED
    BY <1>1, <2>1, <2>2 DEF KeptInv, AnswersKept
<1>8. QED
  BY <1>5, <1>6, <1>7 DEF IInv

LEMMA EditEnvironmentSafe ==
  ASSUME IInv, EditEnvironment
  PROVE  IInv'
<1>1. pc = "off" /\ env' \in Environments
      /\ UNCHANGED <<pc, files, place, paths, prompted, answers>>
  BY DEF EditEnvironment
<1>2. TypeOK'
  BY <1>1 DEF IInv, TypeOK
<1>3. PlaceInv' /\ KeptInv' /\ FoundInv'
  BY <1>1 DEF IInv, PlaceInv, KeptInv, AnswersKept, FoundInv
<1>4. QED
  BY <1>2, <1>3 DEF IInv

LEMMA Invariant == Spec => []IInv
<1>1. IInv /\ [Next]_vars => IInv'
  <2> SUFFICES ASSUME IInv, [Next]_vars PROVE IInv'
    OBVIOUS
  <2>1. CASE Main
    <3>1. Kill => IInv'
      BY StoppedSafe DEF Kill
    <3>2. QED
      BY <2>1, <3>1, StartSafe, LoadSafe, PromptSafe, WriteTempSafe, RenameSafe,
         RemoveSafe, RenameAgainSafe, ValidateSafe DEF Main
  <2>2. CASE \E l \in Locations, f \in AdminFiles : EditFile(l, f)
    BY <2>2, EditFileSafe
  <2>3. CASE EditEnvironment
    BY <2>3, EditEnvironmentSafe
  <2>4. CASE UNCHANGED vars
    BY <2>4 DEF vars, IInv, TypeOK, PlaceInv, KeptInv, AnswersKept, FoundInv
  <2>5. QED
    BY <2>1, <2>2, <2>3, <2>4 DEF Next
<1>2. QED
  BY <1>1, InitInv, PTL DEF Spec

(* Every variable of Startup keeps its type. *)
THEOREM TypeCorrect == Spec => []TypeOK
<1>1. IInv => TypeOK
  BY DEF IInv
<1>2. QED
  BY <1>1, Invariant, PTL

(***************************************************************************)
(* What the operator answered stays readable in the paths file, and no     *)
(* file is cut short, whatever fails or is killed.                         *)
(***************************************************************************)
THEOREM AnswersKeptAlways == Spec => []AnswersKept
<1>1. IInv => AnswersKept
  BY DEF IInv, KeptInv
<1>2. QED
  BY <1>1, Invariant, PTL

(***************************************************************************)
(* A server that is up can be restarted unattended, with the same paths    *)
(* unless the environment differs from what the operator answered.         *)
(***************************************************************************)
THEOREM RestartsUnattendedAlways == Spec => []RestartsUnattended
<1>1. IInv => RestartsUnattended
  <2> SUFFICES ASSUME IInv, pc = "up"
               PROVE  LET file == files[AppPathsFile(files, env)]
                          next == ApplyPathEnv(ReadAppPathsFile(file), env)
                      IN /\ file \notin {Broken, Torn}
                         /\ ~ MustAsk(file, next)
                         /\ next = IF prompted THEN ApplyPathEnv(paths, env)
                                   ELSE paths
    BY DEF RestartsUnattended
  <2>1. env \in Environments
    BY DEF IInv, TypeOK
  <2>2. CASE prompted
    <3>1. paths \in Answers /\ files[place] = Rendered(paths)
      BY <2>2 DEF IInv, FoundInv
    <3>2. files[place] \in PathFile /\ ReadAppPathsFile(files[place]) = paths
      BY <3>1, ReadBack
    <3>3. files[place] \notin {NoFile, Broken, Torn}
      BY <3>2, ConstantsOK DEF ConstantsOK
    <3>4. place = AppPathsFile(files, env)
      BY <3>3 DEF IInv, PlaceInv, AppPathsFile
    <3>5. ~ MustAsk(files[place], ApplyPathEnv(ReadAppPathsFile(files[place]), env))
      BY <2>1, <3>1, <3>2, NothingToAsk
    <3>6. QED
      BY <2>2, <3>2, <3>3, <3>4, <3>5
  <2>3. CASE ~ prompted
    <3>1. /\ files[place] \notin {NoFile, Broken, Torn}
          /\ paths = ApplyPathEnv(ReadAppPathsFile(files[place]), env)
          /\ paths.configDir # Unset /\ paths.tincBinDir # Unset
      BY <2>3 DEF IInv, FoundInv
    <3>2. place = AppPathsFile(files, env)
      BY <3>1 DEF IInv, PlaceInv, AppPathsFile
    <3>3. QED
      BY <2>3, <3>1, <3>2 DEF MustAsk
  <2>4. QED
    BY <2>2, <2>3
<1>2. QED
  BY <1>1, Invariant, PTL

=============================================================================
