------------------------------ MODULE Startup ------------------------------
(***************************************************************************)
(* How the tinc server starts (tincver/main.go, paths.go): it looks for    *)
(* the paths file, asks for the paths when there is none or one that is    *)
(* not complete, saves the answers by a temporary file and a rename, and   *)
(* loads its configuration from the directory it was given.  Environment   *)
(* variables override the file, and defaults of the questions, but not the *)
(* answers.  The process may be killed at any time and calls may fail;     *)
(* between two starts an administrator edits files and the environment.    *)
(* What the directories hold is not kept: a check of them may fail or not. *)
(*                                                                         *)
(* A paths file is the value of each key it has, or Broken: a line or a    *)
(* boolean is malformed, or a key there twice.                             *)
(***************************************************************************)
EXTENDS FiniteSets

CONSTANTS Dirs,         \* absolute paths of directories
          Relative,     \* a path that is not absolute; filepath.Clean("") too
          Empty,        \* the value of a key with nothing after the "="
          Unset,        \* a field or a variable without a value
          NoFile, Broken, Torn,
          NoAnswers,
          AdminFiles,   \* what the administrator writes into a paths file
          Environments  \* the environments the server is started in

Locations == {"env", "cwd", "exe"}
Paths == [configDir : Dirs \cup {Relative, Unset},
          tincBinDir : Dirs \cup {Relative, Unset},
          tincReload : BOOLEAN]
Answers == [configDir : Dirs, tincBinDir : Dirs, tincReload : BOOLEAN]

PathKeys == {"configdir", "tincbindir"}
PathFile ==
    UNION {{f \in [ks -> Dirs \cup {Relative, Empty} \cup BOOLEAN] :
               \A k \in ks : f[k] \in BOOLEAN <=> k = "tincreload"} :
           ks \in SUBSET (PathKeys \cup {"tincreload"})}

ASSUME ConstantsOK ==
    \* what stands for nothing is no path, and no path or file is a Boolean
    /\ Unset \notin Dirs \cup {Relative, Broken} /\ Empty \notin Dirs \cup {Relative}
    /\ (Dirs \cup {Relative, Empty, Unset, Broken}) \cap BOOLEAN = {}
    /\ NoFile \notin {Broken, Torn} /\ Broken # Torn
    /\ {NoFile, Broken, Torn} \cap PathFile = {}
    /\ NoAnswers \notin [place : Locations, paths : Answers]
    /\ AdminFiles \subseteq PathFile \cup {NoFile, Broken}
    /\ Environments \subseteq
          [pathsFile : BOOLEAN, configDir : Dirs \cup {Relative, Unset},
           tincBinDir : Dirs \cup {Relative, Unset},
           tincReload : BOOLEAN \cup {Unset, Broken}]

VARIABLES
    pc,        \* the next step of main
    files,     \* files[l]: the paths file in that place
    env,       \* the environment: is ESA_PATHS_FILE set, ...
    place,     \* pathsFile of LoadOrCreateAppPaths
    paths,     \* the AppPaths at hand
    prompted,  \* were these paths asked for?
    answers    \* history: where the last answers were saved, and which

vars == <<pc, files, env, place, paths, prompted, answers>>

NoPaths == [configDir |-> Unset, tincBinDir |-> Unset, tincReload |-> FALSE]

TypeOK ==
    /\ pc \in {"off", "load", "prompt", "write", "rename", "remove", "again",
               "validate", "up"}
    /\ files \in [Locations -> PathFile \cup {NoFile, Broken, Torn}]
    /\ env \in Environments
    /\ place \in Locations
    /\ paths \in Paths
    /\ pc \in {"write", "rename", "remove", "again", "up"} =>
          paths \in Answers
    /\ prompted \in BOOLEAN
    /\ answers \in [place : Locations, paths : Answers] \cup {NoAnswers}

Init ==
    /\ pc = "off"
    /\ files = [l \in Locations |-> NoFile]
    /\ env \in Environments
    /\ place = "cwd"
    /\ paths = NoPaths
    /\ prompted = FALSE
    /\ answers = NoAnswers

-----------------------------------------------------------------------------
(* What a start finds *)

(* appPathsFile *)
AppPathsFile(found, e) ==
    IF e.pathsFile THEN "env"
    ELSE IF found["cwd"] # NoFile THEN "cwd"
    ELSE IF found["exe"] # NoFile THEN "exe"
    ELSE "cwd"

Clean(value) == IF value = Empty THEN Relative ELSE value

Value(file, key, default) == IF key \in DOMAIN file THEN Clean(file[key]) ELSE default

(* The AppPaths that readAppPathsFile makes of a file it can read. *)
ReadAppPathsFile(file) ==
    IF file = NoFile THEN NoPaths
    ELSE [configDir  |-> Value(file, "configdir", Unset),
          tincBinDir |-> Value(file, "tincbindir", Unset),
          tincReload |-> Value(file, "tincreload", FALSE)]

Or(value, other) == IF value # Unset THEN value ELSE other

(* applyPathEnv *)
ApplyPathEnv(p, e) ==
    [configDir  |-> Or(e.configDir, p.configDir),
     tincBinDir |-> Or(e.tincBinDir, p.tincBinDir),
     tincReload |-> Or(e.tincReload, p.tincReload)]

(* Mutant of MustAsk: the questions are also asked if tinc is not reloaded. *)
MustAskAboutReload(file, p) ==
    \/ file = NoFile \/ p.configDir = Unset \/ p.tincBinDir = Unset
    \/ ~ p.tincReload

MustAsk(file, p) == file = NoFile \/ p.configDir = Unset \/ p.tincBinDir = Unset

(* Mutant of Rendered: tincreload is left out. *)
RenderedWithoutReload(p) ==
    [k \in PathKeys |-> IF k = "configdir" THEN p.configDir ELSE p.tincBinDir]

(* What writeAppPathsFile writes. *)
Rendered(p) ==
    [k \in PathKeys \cup {"tincreload"} |->
        CASE k = "configdir"  -> p.configDir
          [] k = "tincbindir" -> p.tincBinDir
          [] k = "tincreload" -> p.tincReload]

-----------------------------------------------------------------------------
(* LoadOrCreateAppPaths *)

Goto(next) == pc' = next

(* main returns an error, or is killed.  The temporary file is nobody's. *)
Stopped == Goto("off") /\ prompted' = FALSE /\ paths' = NoPaths

(* The process is started. *)
Start ==
    /\ pc = "off"
    /\ Goto("load")
    /\ place' = AppPathsFile(files, env)
    /\ UNCHANGED <<files, env, paths, prompted, answers>>

(* The file is read, and the environment applied. *)
Load ==
    /\ pc = "load"
    /\ LET file == files[place]
           found == ApplyPathEnv(ReadAppPathsFile(file), env)
       IN IF file \in {Broken, Torn} \/ env.tincReload = Broken
          THEN Stopped
          ELSE /\ paths' = found
               /\ Goto(IF MustAsk(file, found) THEN "prompt" ELSE "validate")
               /\ UNCHANGED prompted
    /\ UNCHANGED <<files, env, place, answers>>

(* promptForAppPaths: absolute paths, or standard input ends. *)
Prompt ==
    /\ pc = "prompt"
    /\ \/ Goto("write") /\ paths' \in Answers /\ prompted' = TRUE
       \/ Stopped
    /\ UNCHANGED <<files, env, place, answers>>

(* Mutant of WriteTemp: the file itself is opened and truncated. *)
WriteInPlace ==
    /\ pc = "write"
    /\ Goto("rename")
    /\ files' = [files EXCEPT ![place] = Torn]
    /\ UNCHANGED <<paths, prompted, env, place, answers>>

(* writeAppPathsFile: a temporary file is made, written and synced, or not. *)
WriteTemp ==
    /\ pc = "write"
    /\ \/ Goto("rename") /\ UNCHANGED <<paths, prompted>>
       \/ Stopped
    /\ UNCHANGED <<files, env, place, answers>>

Saved ==
    /\ files' = [files EXCEPT ![place] = Rendered(paths)]
    /\ answers' = [place |-> place, paths |-> paths]
    /\ Goto("validate")
    /\ UNCHANGED <<paths, prompted>>

Rename ==
    /\ pc = "rename"
    /\ Saved \/ (Goto("remove") /\ UNCHANGED <<files, paths, prompted, answers>>)
    /\ UNCHANGED <<env, place>>

(* The rename failed: remove the file that may be in the way ... *)
Remove ==
    /\ pc = "remove"
    /\ \/ /\ Goto("again")
          /\ files' = [files EXCEPT ![place] = NoFile]
          /\ UNCHANGED <<paths, prompted>>
       \/ Stopped /\ UNCHANGED files
    /\ UNCHANGED <<env, place, answers>>

(* ... and rename again. *)
RenameAgain ==
    /\ pc = "again"
    /\ Saved \/ (Stopped /\ UNCHANGED <<files, answers>>)
    /\ UNCHANGED <<env, place>>

(* Mutant of Validate: the program directory may be relative. *)
ValidateLeniently ==
    /\ pc = "validate"
    /\ \/ /\ paths.configDir \in Dirs
          /\ Goto("up")
          /\ UNCHANGED <<paths, prompted>>
       \/ Stopped
    /\ UNCHANGED <<files, env, place, answers>>

(***************************************************************************)
(* Validate, New, LoadUserStore and esacfg: both directories are absolute, *)
(* exist and have the files they need, and the files load.                 *)
(***************************************************************************)
Validate ==
    /\ pc = "validate"
    /\ \/ /\ {paths.configDir, paths.tincBinDir} \subseteq Dirs
          /\ Goto("up")
          /\ UNCHANGED <<paths, prompted>>
       \/ Stopped
    /\ UNCHANGED <<files, env, place, answers>>

(* The process is killed, or a server that is up is stopped. *)
Kill ==
    /\ pc # "off"
    /\ Stopped
    /\ UNCHANGED <<files, env, place, answers>>

-----------------------------------------------------------------------------
(* The administrator, while the server is down *)

EditFile(l, file) ==
    /\ pc = "off"
    /\ files' = [files EXCEPT ![l] = file]
    /\ answers' = IF answers # NoAnswers /\ answers.place = l
                  THEN NoAnswers ELSE answers
    /\ UNCHANGED <<pc, env, place, paths, prompted>>

EditEnvironment ==
    /\ pc = "off"
    /\ env' \in Environments
    /\ UNCHANGED <<pc, files, place, paths, prompted, answers>>

Main ==
    \/ Start \/ Load \/ Prompt
    \/ WriteTemp \/ Rename \/ Remove \/ RenameAgain
    \/ Validate \/ Kill

Next ==
    \/ Main
    \/ \E l \in Locations, file \in AdminFiles : EditFile(l, file)
    \/ EditEnvironment

Spec == Init /\ [][Next]_vars

-----------------------------------------------------------------------------
(* Properties *)

(***************************************************************************)
(* What the operator answered stays in the paths file, and the server can  *)
(* read it back, whatever fails and whenever the process is killed, until  *)
(* the administrator edits the file; and no file is ever cut short.  The   *)
(* file is removed before the second rename, with nothing in its place     *)
(* until then: that is safe only because a file with both directories is   *)
(* never asked about again.                                                *)
(***************************************************************************)
AnswersKept ==
    /\ \A l \in Locations : files[l] # Torn
    /\ answers # NoAnswers =>
          ReadAppPathsFile(files[answers.place]) = answers.paths

(***************************************************************************)
(* A server that is up can be restarted unattended: nothing is asked, and  *)
(* the paths are the same; except that after a start that asked, where the *)
(* answers won over the environment, the environment wins.                 *)
(***************************************************************************)
RestartsUnattended ==
    pc = "up" =>
        LET file == files[AppPathsFile(files, env)]
            next == ApplyPathEnv(ReadAppPathsFile(file), env)
        IN /\ file \notin {Broken, Torn}
           /\ ~ MustAsk(file, next)
           /\ next = IF prompted THEN ApplyPathEnv(paths, env) ELSE paths
=============================================================================
