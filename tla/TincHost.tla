------------------------------ MODULE TincHost ------------------------------
(***************************************************************************)
(* One user's tinc host file, at the level of the system calls that        *)
(* updateTinc makes while it has the update token (tincver/updateconf.go): *)
(* back the file up, write a temporary file, rename it over the host file, *)
(* reload tinc (tinc_reload is set), and commit or roll back.  Any call    *)
(* may fail, and the machine may stop between any two.                     *)
(*                                                                         *)
(* File system, external: a file that was not synced may be torn by a      *)
(* crash; renames and removals since the last sync of the directory may be *)
(* undone by it; a directory created since may be gone.                    *)
(***************************************************************************)
EXTENDS Naturals, FiniteSets

CONSTANTS Keys,        \* public keys clients register
          Absent,      \* there is no such file
          Torn,        \* a file with part of its content
          MaxUpdates,  \* bounds: calls of updateTinc,
          MaxFaults,   \* failing file system calls in one of them,
          MaxCrashes   \* and crashes

ASSUME ConstantsOK ==
    /\ Absent \notin Keys /\ Torn \notin Keys /\ Absent # Torn
    /\ MaxUpdates \in Nat /\ MaxFaults \in Nat /\ MaxCrashes \in Nat

VARIABLES
    pc,          \* the next call
    new,         \* the key the update writes
    dir,         \* dir[f]: the file of that name: the host file, tmp, backup
    synced,      \* the files among them whose content is on disk
    hostsDir,    \* does the hosts directory exist?
    src,         \* the first argument of replaceFile
    hadPrevious, \* tx.hadPrevious
    createdHosts,\* tx.createdHosts
    onDisk,      \* host files a crash may leave: those since the last syncDir
    volatileDir, \* was the hosts directory created since the last crash?
    litter,      \* contents of temporary files nobody will remove
    loaded,      \* the host file the running tinc has read
    updates, crashes,
    faults,      \* failed calls of the current update
    \* history: read by the properties only
    old,         \* the host file before the update
    written,     \* has the update put its host file in place?
    held,        \* every content the host file has had
    result       \* what the last update returned

vars == <<pc, new, dir, synced, hostsDir, src, hadPrevious, createdHosts, onDisk,
          volatileDir, litter, loaded, updates, faults, crashes, old, written,
          held, result>>
txVars    == <<new, src, hadPrevious, createdHosts, old>>
fileVars  == <<dir, synced, written, held>>
countVars == <<updates, crashes, loaded>>
endVars   == <<litter, result>>
diskVars  == <<hostsDir, onDisk, volatileDir>>

Files == {"host", "tmp", "backup"}
Contents == Keys \cup {Absent, Torn}

TypeOK ==
    /\ pc \in {"idle", "stat", "backup", "copy", "create", "write", "rename",
               "remove", "again", "untmp", "syncdir", "reload", "commit",
               "rollback"}
    /\ new \in Contents
    /\ dir \in [Files -> Contents]
    /\ synced \subseteq Files
    /\ hostsDir \in BOOLEAN
    /\ src \in {"tmp", "backup"}
    /\ hadPrevious \in BOOLEAN
    /\ createdHosts \in BOOLEAN
    /\ onDisk \subseteq Contents
    /\ volatileDir \in BOOLEAN
    /\ litter \subseteq Contents
    /\ loaded \in Contents
    /\ written \in BOOLEAN
    /\ held \subseteq Keys \cup {Absent}
    /\ updates \in 0..MaxUpdates
    /\ faults \in 0..MaxFaults
    /\ crashes \in 0..MaxCrashes
    /\ old \in Contents
    /\ result \in {"none", "ok", "error"}

(* A configured directory, with or without a host file of an earlier run. *)
Init ==
    /\ pc = "idle"
    /\ new = Absent
    /\ \E k \in Keys \cup {Absent} :
          /\ dir = [f \in Files |-> IF f = "host" THEN k ELSE Absent]
          /\ hostsDir \in {TRUE, k # Absent}
          /\ onDisk = {k}
          /\ held = {k}
          /\ loaded = k
    /\ synced = {"host"}
    /\ src = "tmp"
    /\ hadPrevious = FALSE
    /\ createdHosts = FALSE
    /\ volatileDir = FALSE
    /\ litter = {}
    /\ written = FALSE
    /\ updates = 0 /\ faults = 0 /\ crashes = 0
    /\ old = Absent
    /\ result = "none"

-----------------------------------------------------------------------------
(* A call fails. *)
Fault == faults < MaxFaults /\ faults' = faults + 1

Ok == UNCHANGED faults

GoTo(next) == pc' = next

(* updateTinc returns.  Temporary files still there are nobody's any more. *)
Finish(answer, files) ==
    /\ GoTo("idle")
    /\ result' = answer
    /\ litter' = litter \cup ({files["tmp"], files["backup"]} \ {Absent})
    /\ dir' = [files EXCEPT !["tmp"] = Absent, !["backup"] = Absent]

(* The host file has changed: the change may or may not survive a crash. *)
HostChanged(content) == onDisk' = onDisk \cup {content}

(* syncDir: what is in the directory is on disk, or an error is logged. *)
SyncDir ==
    \/ Ok /\ onDisk' = {dir["host"]}
    \/ Fault /\ UNCHANGED onDisk

-----------------------------------------------------------------------------
(* updateTinc(conf) is called with the update token. *)
Begin(k) ==
    /\ pc = "idle"
    /\ updates < MaxUpdates
    /\ updates' = updates + 1
    /\ new' = k
    /\ old' = dir["host"]
    /\ src' = "tmp"
    /\ hadPrevious' = FALSE
    /\ createdHosts' = FALSE
    /\ synced' = synced \cap {"host"}
    /\ written' = FALSE
    /\ faults' = 0
    /\ result' = "none"
    /\ GoTo("stat")
    /\ UNCHANGED <<dir, diskVars, litter, loaded, crashes, held>>

(* os.Stat(hostsDir), and os.MkdirAll when there is none. *)
StatHostsDir ==
    /\ pc = "stat"
    /\ \/ /\ Ok
          /\ hostsDir' = TRUE
          /\ createdHosts' = ~ hostsDir
          /\ volatileDir' = (volatileDir \/ ~ hostsDir)
          /\ GoTo("backup")
          /\ UNCHANGED <<dir, endVars>>
       \/ /\ Fault
          /\ Finish("error", dir)
          /\ UNCHANGED <<hostsDir, createdHosts, volatileDir>>
    /\ UNCHANGED <<new, synced, written, held, src, hadPrevious, onDisk,
                   countVars, old>>

(* backupExisting: os.CreateTemp for the backup. *)
CreateBackup ==
    /\ pc = "backup"
    /\ \/ /\ Ok
          /\ dir' = [dir EXCEPT !["backup"] = Torn]
          /\ GoTo("copy")
          /\ UNCHANGED endVars
       \/ Fault /\ Finish("error", dir)
    /\ UNCHANGED <<synced, written, held, diskVars, txVars, countVars>>

(***************************************************************************)
(* backupExisting: without a host file the backup is removed again;        *)
(* otherwise the host file is copied and the copy synced.  When one of     *)
(* these calls fails the backup is left behind, and not rolled back.       *)
(***************************************************************************)
CopyToBackup ==
    /\ pc = "copy"
    /\ \/ /\ Ok
          /\ dir["host"] = Absent
          /\ dir' = [dir EXCEPT !["backup"] = Absent]
          /\ GoTo("create")
          /\ UNCHANGED <<synced, hadPrevious, litter, result>>
       \/ /\ Fault
          /\ dir["host"] = Absent
          /\ dir' = [dir EXCEPT !["backup"] = Absent]
          /\ litter' = litter \cup {Torn}
          /\ GoTo("create")
          /\ UNCHANGED <<synced, hadPrevious, result>>
       \/ /\ Ok
          /\ dir["host"] # Absent
          /\ dir' = [dir EXCEPT !["backup"] = dir["host"]]
          /\ synced' = synced \cup {"backup"}
          /\ hadPrevious' = TRUE
          /\ GoTo("create")
          /\ UNCHANGED endVars
       \/ /\ Fault
          /\ Finish("error", dir)
          /\ UNCHANGED <<synced, hadPrevious>>
    /\ UNCHANGED <<new, src, createdHosts, old, written, held, diskVars,
                   countVars>>

(* writeTincHostFile: os.CreateTemp. *)
CreateTemp ==
    /\ pc = "create"
    /\ \/ /\ Ok
          /\ dir' = [dir EXCEPT !["tmp"] = Torn]
          /\ GoTo("write")
       \/ /\ Fault
          /\ GoTo("rollback")
          /\ UNCHANGED dir
    /\ UNCHANGED <<synced, written, held, diskVars, txVars, countVars, endVars>>

(* Mutant of WriteTemp: the temporary file is not synced. *)
WriteTempNoSync ==
    /\ pc = "write"
    /\ dir' = [dir EXCEPT !["tmp"] = new]
    /\ GoTo("rename")
    /\ UNCHANGED <<synced, written, held, faults, diskVars, txVars, countVars,
                   endVars>>

(* Mutant of WriteTemp: its errors are ignored. *)
WriteTempUnchecked ==
    /\ pc = "write"
    /\ \/ /\ Ok
          /\ dir' = [dir EXCEPT !["tmp"] = new]
          /\ synced' = synced \cup {"tmp"}
       \/ Fault /\ UNCHANGED <<dir, synced>>
    /\ GoTo("rename")
    /\ UNCHANGED <<written, held, diskVars, txVars, countVars, endVars>>

(* WriteString, Chmod, Sync and Close of the temporary file. *)
WriteTemp ==
    /\ pc = "write"
    /\ \/ /\ Ok
          /\ dir' = [dir EXCEPT !["tmp"] = new]
          /\ synced' = synced \cup {"tmp"}
          /\ GoTo("rename")
       \/ /\ Fault
          /\ GoTo("untmp")
          /\ UNCHANGED <<dir, synced>>
    /\ UNCHANGED <<written, held, diskVars, txVars, countVars, endVars>>

(***************************************************************************)
(* replaceFile(src, host): os.Rename, and if that fails os.Remove of the   *)
(* host file and os.Rename again.  It serves the update (src is tmp) and   *)
(* the rollback (src is backup).                                           *)
(***************************************************************************)
MoveSrc ==
    /\ dir' = [dir EXCEPT !["host"] = dir[src], ![src] = Absent]
    /\ synced' = IF src \in synced THEN (synced \ {src}) \cup {"host"}
                                   ELSE synced \ {"host"}
    /\ HostChanged(dir[src])
    /\ held' = held \cup {dir[src]}
    /\ written' = (written \/ src = "tmp")

(* replaceFile returns an error. *)
ReplaceFails ==
    \/ /\ src = "tmp"
       /\ GoTo("untmp")
       /\ UNCHANGED <<dir, endVars>>
    \/ src = "backup" /\ Finish("error", dir)

(* Mutant of Rename: replaceFile removes the host file in any case. *)
RenameThenRemove ==
    /\ pc = "rename"
    /\ \/ Ok /\ MoveSrc
       \/ Fault /\ UNCHANGED <<fileVars, onDisk>>
    /\ GoTo("remove")
    /\ UNCHANGED <<hostsDir, volatileDir, txVars, countVars, endVars>>

(* Mutant of Rename: the directory is not synced afterwards. *)
RenameNoSyncDir ==
    /\ pc = "rename"
    /\ \/ Ok /\ MoveSrc /\ src = "tmp" /\ GoTo("reload")
       \/ Fault /\ GoTo("remove") /\ UNCHANGED <<fileVars, onDisk>>
    /\ UNCHANGED <<hostsDir, volatileDir, txVars, countVars, endVars>>

Rename ==
    /\ pc = "rename"
    /\ \/ Ok /\ MoveSrc /\ GoTo("syncdir")
       \/ Fault /\ GoTo("remove") /\ UNCHANGED <<fileVars, onDisk>>
    /\ UNCHANGED <<hostsDir, volatileDir, txVars, countVars, endVars>>

RemoveHost ==
    /\ pc = "remove"
    /\ \/ /\ Ok
          /\ dir' = [dir EXCEPT !["host"] = Absent]
          /\ HostChanged(Absent)
          /\ GoTo("again")
          /\ UNCHANGED endVars
       \/ Fault /\ ReplaceFails /\ UNCHANGED onDisk
    /\ UNCHANGED <<synced, written, held, hostsDir, volatileDir, txVars,
                   countVars>>

RenameAgain ==
    /\ pc = "again"
    /\ \/ Ok /\ MoveSrc /\ GoTo("syncdir") /\ UNCHANGED endVars
       \/ Fault /\ ReplaceFails /\ UNCHANGED <<synced, written, held, onDisk>>
    /\ UNCHANGED <<hostsDir, volatileDir, txVars, countVars>>

(***************************************************************************)
(* writeTincHostFile returns an error: its deferred os.Remove(tmp), then   *)
(* beginTincHostUpdate rolls back.                                         *)
(***************************************************************************)
RemoveTemp ==
    /\ pc = "untmp"
    /\ dir' = [dir EXCEPT !["tmp"] = Absent]
    /\ \/ Ok /\ UNCHANGED litter
       \/ Fault /\ litter' = litter \cup {dir["tmp"]}
    /\ GoTo("rollback")
    /\ UNCHANGED <<synced, written, held, diskVars, txVars, countVars, result>>

(* The directory is synced after the update, or after the rollback. *)
SyncHostsDir ==
    /\ pc = "syncdir"
    /\ SyncDir
    /\ \/ src = "tmp" /\ GoTo("reload") /\ UNCHANGED <<dir, endVars>>
       \/ src = "backup" /\ Finish("error", dir)
    /\ UNCHANGED <<synced, written, held, hostsDir, volatileDir, txVars,
                   countVars>>

(* Mutant of Reload: a reload that failed counts as done. *)
ReloadIgnored ==
    /\ pc = "reload"
    /\ loaded' \in {loaded, dir["host"]}
    /\ GoTo("commit")
    /\ UNCHANGED <<fileVars, faults, diskVars, txVars, updates, crashes, endVars>>

(***************************************************************************)
(* reloadTinc: tinc reads the new file, or the command fails or is killed  *)
(* by its timeout or with its context, before or after tinc reads it.      *)
(***************************************************************************)
Reload ==
    /\ pc = "reload"
    /\ \/ GoTo("commit") /\ loaded' = dir["host"]
       \/ GoTo("rollback") /\ loaded' \in {loaded, dir["host"]}
    /\ UNCHANGED <<fileVars, faults, diskVars, txVars, updates, crashes, endVars>>

(* tx.commit(): os.Remove(backup), whatever becomes of it. *)
Commit ==
    /\ pc = "commit"
    /\ \/ Ok /\ Finish("ok", [dir EXCEPT !["backup"] = Absent])
       \/ Fault /\ dir["backup"] # Absent /\ Finish("ok", dir)
    /\ UNCHANGED <<synced, written, held, diskVars, txVars, countVars>>

(***************************************************************************)
(* tx.rollback(): restore the backup with replaceFile; if there was no     *)
(* host file remove the new one, and the hosts directory if it is ours and *)
(* empty.  This removal is not followed by a syncDir.                      *)
(***************************************************************************)
Restore ==
    /\ hadPrevious
    /\ src' = "backup"
    /\ GoTo("rename")
    /\ UNCHANGED <<dir, hostsDir, onDisk, endVars, faults>>

RemoveNew ==
    /\ ~ hadPrevious
    /\ \/ /\ Ok
          /\ hostsDir' = ~ (createdHosts /\ litter = {})
          /\ HostChanged(Absent)
          /\ Finish("error", [dir EXCEPT !["host"] = Absent])
       \/ /\ Fault
          /\ Finish("error", dir)
          /\ UNCHANGED <<hostsDir, onDisk>>
       \/ /\ Fault \* removing the directory fails, which is ignored
          /\ createdHosts /\ litter = {}
          /\ HostChanged(Absent)
          /\ Finish("error", [dir EXCEPT !["host"] = Absent])
          /\ UNCHANGED hostsDir
    /\ UNCHANGED src

(* Mutant of Rollback: the new file is removed, the old one not restored. *)
RollbackRemoves ==
    /\ pc = "rollback"
    /\ Ok
    /\ HostChanged(Absent)
    /\ Finish("error", [dir EXCEPT !["host"] = Absent, !["backup"] = Absent])
    /\ UNCHANGED <<new, synced, hadPrevious, createdHosts, old, written, held,
                   hostsDir, src, volatileDir, countVars>>

Rollback ==
    /\ pc = "rollback"
    /\ Restore \/ RemoveNew
    /\ UNCHANGED <<new, synced, hadPrevious, createdHosts, old, written, held,
                   volatileDir, countVars>>

(***************************************************************************)
(* The machine or the server stops, and the server is started again (tinc  *)
(* too, if it was the machine).  It does not look for open transactions or *)
(* temporary files.                                                        *)
(***************************************************************************)
AfterCrash(content) ==
    IF content = dir["host"] /\ "host" \notin synced /\ content # Absent
    THEN Torn ELSE content

(* The hosts directory is still there, with a host file it had. *)
CrashKeepsDir ==
    \E content \in onDisk :
        /\ dir' = [f \in Files |-> IF f = "host" THEN AfterCrash(content)
                                                ELSE Absent]
        /\ onDisk' = {AfterCrash(content)}
        /\ loaded' \in {loaded, AfterCrash(content)}
        /\ hostsDir' = (hostsDir \/ content # Absent)
        /\ litter' = litter \cup
              {IF f \in synced THEN dir[f] ELSE Torn :
                  f \in {g \in {"tmp", "backup"} : dir[g] # Absent}}

CrashLosesDir ==
    /\ volatileDir
    /\ dir' = [f \in Files |-> Absent]
    /\ onDisk' = {Absent}
    /\ loaded' = Absent
    /\ hostsDir' = FALSE
    /\ litter' = {}

Crash ==
    /\ crashes < MaxCrashes
    /\ crashes' = crashes + 1
    /\ CrashKeepsDir \/ CrashLosesDir
    /\ synced' = {"host"}
    /\ volatileDir' = FALSE
    /\ new' = Absent
    /\ src' = "tmp"
    /\ hadPrevious' = FALSE
    /\ createdHosts' = FALSE
    /\ old' = Absent
    /\ written' = FALSE
    /\ result' = "none"
    /\ faults' = 0
    /\ GoTo("idle")
    /\ UNCHANGED <<updates, held>>

Update ==
    \/ \E k \in Keys : Begin(k)
    \/ StatHostsDir \/ CreateBackup \/ CopyToBackup
    \/ CreateTemp \/ WriteTemp \/ RemoveTemp
    \/ Rename \/ RemoveHost \/ RenameAgain \/ SyncHostsDir
    \/ Reload \/ Commit \/ Rollback

Next == Update \/ Crash

Spec == Init /\ [][Next]_vars

-----------------------------------------------------------------------------
(* Properties *)

(***************************************************************************)
(* However calls fail and wherever the machine stops, the host file is     *)
(* never cut short: it is missing or holds one key, in full.  (The content *)
(* is synced before the rename, and so is the backup.)                     *)
(***************************************************************************)
NeverTorn == dir["host"] # Torn

(***************************************************************************)
(* updateTinc returns nil only when the host file holds the client's key   *)
(* and tinc has read it.  If it returns an error and at most one call of   *)
(* the file system failed, the host file is what it was, with one          *)
(* exception: when it was the removal of a first host file that failed,    *)
(* the file stays although the client is told of an error.                 *)
(***************************************************************************)
AllOrNothing ==
    /\ result = "ok" => dir["host"] = new /\ loaded = new
    /\ result = "error" /\ faults <= 1 =>
          \/ dir["host"] = old
          \/ faults = 1 /\ old = Absent /\ dir["host"] = new

(***************************************************************************)
(* Whatever number of calls fail, a user who had a host file has the old   *)
(* or the new one when updateTinc returns, or an administrator finds the   *)
(* old one under the backup's name.                                        *)
(***************************************************************************)
NeverLost ==
    result # "none" /\ old # Absent =>
        dir["host"] \in {old, new} \/ old \in litter

(* The host file survives: whole, and never gone without a trace. *)
HostFileSurvives == NeverTorn /\ NeverLost

(***************************************************************************)
(* When no call failed, what the client is told survives a crash, in a     *)
(* hosts directory that does: the new key after a success, the old one     *)
(* after an error.  (A first host file whose update was rolled back may    *)
(* come back: that removal is not synced.)                                 *)
(***************************************************************************)
DurableAnswer ==
    faults = 0 /\ ~ volatileDir =>
        /\ result = "ok" => onDisk = {new}
        /\ result = "error" /\ old # Absent => onDisk = {old}

(* From outside, an update is one of the steps of HostStore. *)
Abstract == INSTANCE HostStore WITH
    open <- pc # "idle" /\ written,
    file <- IF pc = "idle" THEN dir["host"] ELSE IF written THEN new ELSE old,
    saved <- IF pc # "idle" /\ written THEN old ELSE Absent

(***************************************************************************)
(* The system calls of updateTinc amount to one change of the host file,   *)
(* then a commit or a rollback, although the file is missing for a moment  *)
(* whenever replaceFile falls back to remove and rename.                   *)
(***************************************************************************)
ImplementsHostStore == Abstract!Spec
=============================================================================
