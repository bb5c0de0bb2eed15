---------------------------- MODULE TincHost_proofs ----------------------------
(***************************************************************************)
(* Proofs about TincHost, for any set of keys and any number of updates,   *)
(* failing calls and crashes: what is in the three files at each call of   *)
(* updateTinc, and that an update is a step of HostStore.                  *)
(***************************************************************************)
EXTENDS TincHost, TLAPS

-----------------------------------------------------------------------------
(* The inductive invariant *)

host   == dir["host"]
backup == dir["backup"]

(* Nothing that is, or may come back, under the host file's name is torn. *)
Disk ==
    /\ host \in held \cup {Absent} /\ host \in onDisk
    /\ onDisk \subseteq held \cup {Absent}
    /\ "host" \in synced

(* Before there is a backup. *)
Before ==
    pc \in {"stat", "backup", "copy"} =>
        /\ host = old /\ dir["tmp"] = Absent
        /\ backup = (IF pc = "copy" THEN Torn ELSE Absent)
        /\ src = "tmp" /\ ~ written /\ ~ hadPrevious /\ faults = 0

Replacing == {"rename", "remove", "again"}
Later     == Replacing \cup {"create", "write", "untmp", "syncdir", "reload",
                             "commit", "rollback"}

(* From then on the old host file is in the backup, until it is restored. *)
Backup ==
    pc \in Later =>
        /\ hadPrevious <=> old # Absent
        /\ src = "backup" => hadPrevious /\ pc \in Replacing \cup {"syncdir"}
        /\ ~ (src = "backup" /\ pc = "syncdir") =>
              backup = old /\ (old # Absent => "backup" \in synced)

(* The host file is the old one, or the new one, or there was a fault. *)
Unsettled == IF written THEN host = new ELSE host = old \/ (host = Absent /\ faults >= 2)

(* The host file at each call. *)
Place ==
    /\ pc \in {"create", "write"} => ~ written /\ host = old
    /\ pc \in Replacing /\ src = "tmp" =>
          /\ ~ written /\ dir["tmp"] = new /\ "tmp" \in synced
          /\ pc # "again" => host = old
    /\ pc \in {"rename", "remove"} /\ src = "backup" => Unsettled
    /\ pc \in {"remove", "again"} => faults >= 1
    /\ pc = "again" => host = Absent
    /\ pc = "untmp" => ~ written
    /\ pc \in {"untmp", "rollback"} => Unsettled
    /\ pc = "syncdir" /\ src = "backup" => host = old
    /\ pc \in {"reload", "commit"} \/ (pc = "syncdir" /\ src = "tmp") => written /\ host = new
    /\ pc = "commit" => loaded = new
    /\ pc \in {"reload", "commit"} /\ faults = 0 => onDisk = {new}

(* An update, and the time between two of them. *)
Calls ==
    /\ pc = "idle" => dir["tmp"] = Absent /\ backup = Absent
    /\ pc # "idle" => new \in Keys /\ old \in held \cup {Absent} /\ result = "none"

Inv ==
    /\ TypeOK /\ Disk
    /\ Calls /\ Before /\ Backup /\ Place
    /\ AllOrNothing /\ NeverLost /\ DurableAnswer

-----------------------------------------------------------------------------
(* Steps *)

LEMMA Facts ==
  /\ Absent \notin Keys /\ Torn \notin Keys /\ Absent # Torn
  /\ MaxFaults \in Nat
  /\ Absent \in Contents /\ Torn \in Contents /\ Keys \subseteq Contents
  /\ "host" \in Files /\ "tmp" \in Files /\ "backup" \in Files
BY ConstantsOK DEF ConstantsOK, Contents, Files

LEMMA SetDir ==
  ASSUME TypeOK, NEW f \in Files, NEW c \in Contents, dir' = [dir EXCEPT ![f] = c]
  PROVE  /\ dir' \in [Files -> Contents]
         /\ dir'[f] = c
         /\ \A g \in Files \ {f} : dir'[g] = dir[g]
BY DEF TypeOK

LEMMA Counted ==
  ASSUME TypeOK, Fault \/ Ok
  PROVE  /\ faults' \in 0..MaxFaults
         /\ Fault => faults' = faults + 1
         /\ Ok => faults' = faults
BY Facts DEF TypeOK, Fault, Ok

(* The files when updateTinc returns. *)
LEMMA FinishFiles ==
  ASSUME TypeOK, NEW files \in [Files -> Contents], NEW a \in {"ok", "error"}, Finish(a, files)
  PROVE  /\ pc' = "idle" /\ result' = a
         /\ dir' \in [Files -> Contents] /\ host' = files["host"]
         /\ dir'["tmp"] = Absent /\ backup' = Absent
         /\ litter' \subseteq Contents /\ litter \subseteq litter'
         /\ files["backup"] # Absent => files["backup"] \in litter'
BY Facts DEF TypeOK, Finish, GoTo, host, backup, Files

LEMMA Running ==
  ASSUME result' = "none"
  PROVE  AllOrNothing' /\ NeverLost' /\ DurableAnswer'
BY DEF AllOrNothing, NeverLost, DurableAnswer

LEMMA Idle ==
  ASSUME pc' = "idle", dir'["tmp"] = Absent, backup' = Absent
  PROVE  Calls' /\ Before' /\ Backup' /\ Place'
BY DEF Calls, Before, Backup, Place, Later, Replacing

LEMMA BeginStep == ASSUME Inv, NEW k \in Keys, Begin(k) PROVE Inv'
<1>1. /\ pc = "idle" /\ pc' = "stat" /\ result' = "none" /\ UNCHANGED <<dir, onDisk, held>>
      /\ new' = k /\ old' = host /\ src' = "tmp" /\ hadPrevious' = FALSE
      /\ written' = FALSE /\ faults' = 0 /\ synced' = synced \cap {"host"}
  BY DEF Begin, GoTo, host, diskVars
<1>2. TypeOK'
  <2>1. updates' \in 0..MaxUpdates /\ faults' \in 0..MaxFaults
    BY <1>1, ConstantsOK DEF Begin, ConstantsOK, Inv, TypeOK
  <2>2. new' \in Contents /\ old' \in Contents
    BY <1>1, Facts DEF Inv, TypeOK, host
  <2>3. QED
    BY <1>1, <2>1, <2>2 DEF Begin, Inv, TypeOK, diskVars
<1>3. Disk'
  BY <1>1 DEF Inv, Disk, host
<1>4. Calls' /\ Before' /\ Backup' /\ Place'
  BY <1>1 DEF Inv, Disk, host, backup, Calls, Before, Backup, Place, Later,
     Replacing
<1>5. QED
  BY <1>1, <1>2, <1>3, <1>4, Running DEF Inv

(***************************************************************************)
(* The actions that go on and, below, the ends of updateTinc.  Each lemma  *)
(* says first what the action does, in terms of the invariant.             *)
(***************************************************************************)
USE DEF host, backup, Ok, Fault, GoTo, txVars, fileVars, countVars, endVars,
        diskVars

LEMMA StatHostsDirGoes ==
  ASSUME Inv, StatHostsDir, pc' # "idle"
  PROVE  Inv'
<1>1. /\ pc = "stat" /\ pc' = "backup" /\ result' = "none"
      /\ UNCHANGED <<new, old, held, dir, onDisk, synced, src, written, hadPrevious, faults>>
  BY Facts DEF StatHostsDir, Finish, Inv, Calls
<1>2. TypeOK'
  <2>1. dir' \in [Files -> Contents] /\ new \in Contents /\ old \in Contents
    BY <1>1, Facts DEF Inv, TypeOK
  <2>2. faults' \in 0..MaxFaults
    BY Counted DEF Inv, StatHostsDir
  <2>3. synced' \subseteq Files /\ onDisk' \subseteq Contents
    BY <1>1, Facts DEF StatHostsDir, Inv, TypeOK, Files
  <2>4. /\ hostsDir' \in BOOLEAN /\ createdHosts' \in BOOLEAN /\ volatileDir' \in BOOLEAN
        /\ hadPrevious' \in BOOLEAN /\ written' \in BOOLEAN
    BY <1>1 DEF StatHostsDir, Finish, Inv, TypeOK
  <2>5. /\ litter' \subseteq Contents /\ loaded' \in Contents /\ src' \in {"tmp", "backup"}
        /\ UNCHANGED <<updates, crashes>>
    BY <1>1, Facts DEF StatHostsDir, Finish, Inv, TypeOK, Files
  <2>6. QED
    BY <1>1, <2>1, <2>2, <2>3, <2>4, <2>5 DEF Inv, TypeOK
<1>3. Disk'
  BY <1>1, Facts DEF Inv, Disk, TypeOK
<1>4. Calls' /\ Before' /\ Backup' /\ Place'
  BY <1>1, Facts DEF Inv, Calls, Before, Backup, Place, Replacing, Later,
     Unsettled, Disk, TypeOK
<1>5. QED
  BY <1>1, <1>2, <1>3, <1>4, Running DEF Inv

LEMMA CreateBackupGoes ==
  ASSUME Inv, CreateBackup, pc' # "idle"
  PROVE  Inv'
<1>1. /\ pc = "backup" /\ pc' = "copy" /\ result' = "none"
      /\ dir' = [dir EXCEPT !["backup"] = Torn]
      /\ UNCHANGED <<new, old, held, onDisk, synced, src, written, hadPrevious, faults>>
  BY Facts DEF CreateBackup, Finish, Inv, Calls
<1>2. TypeOK'
  <2>1. dir' \in [Files -> Contents] /\ new \in Contents /\ old \in Contents
    BY <1>1, Facts DEF Inv, TypeOK
  <2>2. faults' \in 0..MaxFaults
    BY Counted DEF Inv, CreateBackup
  <2>3. synced' \subseteq Files /\ onDisk' \subseteq Contents
    BY <1>1, Facts DEF CreateBackup, Inv, TypeOK, Files
  <2>4. /\ hostsDir' \in BOOLEAN /\ createdHosts' \in BOOLEAN /\ volatileDir' \in BOOLEAN
        /\ hadPrevious' \in BOOLEAN /\ written' \in BOOLEAN
    BY <1>1 DEF CreateBackup, Finish, Inv, TypeOK
  <2>5. /\ litter' \subseteq Contents /\ loaded' \in Contents /\ src' \in {"tmp", "backup"}
        /\ UNCHANGED <<updates, crashes>>
    BY <1>1, Facts DEF CreateBackup, Finish, Inv, TypeOK, Files
  <2>6. QED
    BY <1>1, <2>1, <2>2, <2>3, <2>4, <2>5 DEF Inv, TypeOK
<1>3. Disk'
  BY <1>1, Facts DEF Inv, Disk, TypeOK
<1>4. Calls' /\ Before' /\ Backup' /\ Place'
  BY <1>1, Facts DEF Inv, Calls, Before, Backup, Place, Replacing, Later,
     Unsettled, Disk, TypeOK
<1>5. QED
  BY <1>1, <1>2, <1>3, <1>4, Running DEF Inv

LEMMA CopyToBackupGoes ==
  ASSUME Inv, CopyToBackup, pc' # "idle"
  PROVE  Inv'
<1>1. /\ pc = "copy" /\ pc' = "create" /\ result' = "none"
      /\ dir' = [dir EXCEPT !["backup"] = old] /\ (hadPrevious' <=> old # Absent)
      /\ synced \subseteq synced' /\ (old # Absent => "backup" \in synced')
      /\ UNCHANGED <<new, old, held, onDisk, src, written>>
  <2>1. pc = "copy" /\ host = old /\ result = "none" /\ ~ hadPrevious
    BY DEF CopyToBackup, Inv, Calls, Before, Backup, Place, Replacing, Later
  <2>2. CASE host = Absent
    BY <2>1, <2>2 DEF CopyToBackup, Finish
  <2>3. CASE host # Absent
    BY <2>1, <2>3 DEF CopyToBackup, Finish
  <2>4. QED
    BY <2>2, <2>3
<1>2. TypeOK'
  <2>1. dir' \in [Files -> Contents] /\ new \in Contents /\ old \in Contents
    BY <1>1, Facts DEF Inv, TypeOK
  <2>2. faults' \in 0..MaxFaults
    BY Counted DEF Inv, CopyToBackup
  <2>3. synced' \subseteq Files /\ onDisk' \subseteq Contents
    BY <1>1, Facts DEF CopyToBackup, Inv, TypeOK, Files
  <2>4. /\ hostsDir' \in BOOLEAN /\ createdHosts' \in BOOLEAN /\ volatileDir' \in BOOLEAN
        /\ hadPrevious' \in BOOLEAN /\ written' \in BOOLEAN
    BY <1>1 DEF CopyToBackup, Finish, Inv, TypeOK
  <2>5. /\ litter' \subseteq Contents /\ loaded' \in Contents /\ src' \in {"tmp", "backup"}
        /\ UNCHANGED <<updates, crashes>>
    BY <1>1, Facts DEF CopyToBackup, Finish, Inv, TypeOK, Files
  <2>6. QED
    BY <1>1, <2>1, <2>2, <2>3, <2>4, <2>5 DEF Inv, TypeOK
<1>3. Disk'
  BY <1>1, Facts DEF Inv, Disk, TypeOK
<1>4. Calls' /\ Before' /\ Backup' /\ Place'
  BY <1>1, Facts DEF Inv, Calls, Before, Backup, Place, Replacing, Later,
     Unsettled, Disk, TypeOK
<1>5. QED
  BY <1>1, <1>2, <1>3, <1>4, Running DEF Inv

LEMMA CreateTempGoes ==
  ASSUME Inv, CreateTemp, pc' # "idle"
  PROVE  Inv'
<1>1. /\ pc = "create" /\ result' = "none"
      /\ \/ pc' = "write" /\ dir' = [dir EXCEPT !["tmp"] = Torn]
         \/ pc' = "rollback" /\ UNCHANGED dir
      /\ UNCHANGED <<new, old, held, onDisk, synced, src, written, hadPrevious>>
  BY Facts DEF CreateTemp, Finish, Inv, Calls
<1>2. TypeOK'
  <2>1. dir' \in [Files -> Contents] /\ new \in Contents /\ old \in Contents
    BY <1>1, Facts DEF Inv, TypeOK
  <2>2. faults' \in 0..MaxFaults
    BY Counted DEF Inv, CreateTemp
  <2>3. synced' \subseteq Files /\ onDisk' \subseteq Contents
    BY <1>1, Facts DEF CreateTemp, Inv, TypeOK, Files
  <2>4. /\ hostsDir' \in BOOLEAN /\ createdHosts' \in BOOLEAN /\ volatileDir' \in BOOLEAN
        /\ hadPrevious' \in BOOLEAN /\ written' \in BOOLEAN
    BY <1>1 DEF CreateTemp, Finish, Inv, TypeOK
  <2>5. /\ litter' \subseteq Contents /\ loaded' \in Contents /\ src' \in {"tmp", "backup"}
        /\ UNCHANGED <<updates, crashes>>
    BY <1>1, Facts DEF CreateTemp, Finish, Inv, TypeOK, Files
  <2>6. QED
    BY <1>1, <2>1, <2>2, <2>3, <2>4, <2>5 DEF Inv, TypeOK
<1>3. Disk'
  BY <1>1, Facts DEF Inv, Disk, TypeOK
<1>4. Calls' /\ Before' /\ Backup' /\ Place'
  BY <1>1, Facts DEF Inv, Calls, Before, Backup, Place, Replacing, Later,
     Unsettled, Disk, TypeOK
<1>5. QED
  BY <1>1, <1>2, <1>3, <1>4, Running DEF Inv

LEMMA WriteTempGoes ==
  ASSUME Inv, WriteTemp, pc' # "idle"
  PROVE  Inv'
<1>1. /\ pc = "write" /\ result' = "none"
      /\ \/ /\ pc' = "rename" /\ dir' = [dir EXCEPT !["tmp"] = new]
            /\ synced' = synced \cup {"tmp"}
         \/ pc' = "untmp" /\ UNCHANGED <<dir, synced>>
      /\ UNCHANGED <<new, old, held, onDisk, src, written, hadPrevious>>
  BY Facts DEF WriteTemp, Finish, Inv, Calls
<1>2. TypeOK'
  <2>1. dir' \in [Files -> Contents] /\ new \in Contents /\ old \in Contents
    BY <1>1, Facts DEF Inv, TypeOK
  <2>2. faults' \in 0..MaxFaults
    BY Counted DEF Inv, WriteTemp
  <2>3. synced' \subseteq Files /\ onDisk' \subseteq Contents
    BY <1>1, Facts DEF WriteTemp, Inv, TypeOK, Files
  <2>4. /\ hostsDir' \in BOOLEAN /\ createdHosts' \in BOOLEAN /\ volatileDir' \in BOOLEAN
        /\ hadPrevious' \in BOOLEAN /\ written' \in BOOLEAN
    BY <1>1 DEF WriteTemp, Finish, Inv, TypeOK
  <2>5. /\ litter' \subseteq Contents /\ loaded' \in Contents /\ src' \in {"tmp", "backup"}
        /\ UNCHANGED <<updates, crashes>>
    BY <1>1, Facts DEF WriteTemp, Finish, Inv, TypeOK, Files
  <2>6. QED
    BY <1>1, <2>1, <2>2, <2>3, <2>4, <2>5 DEF Inv, TypeOK
<1>3. Disk'
  BY <1>1, Facts DEF Inv, Disk, TypeOK
<1>4. Calls' /\ Before' /\ Backup' /\ Place'
  BY <1>1, Facts DEF Inv, Calls, Before, Backup, Place, Replacing, Later,
     Unsettled, Disk, TypeOK
<1>5. QED
  BY <1>1, <1>2, <1>3, <1>4, Running DEF Inv

LEMMA RemoveTempGoes ==
  ASSUME Inv, RemoveTemp, pc' # "idle"
  PROVE  Inv'
<1>1. /\ pc = "untmp" /\ pc' = "rollback" /\ result' = "none"
      /\ dir' = [dir EXCEPT !["tmp"] = Absent]
      /\ faults' \in {faults, faults + 1}
      /\ UNCHANGED <<new, old, held, onDisk, synced, src, written, hadPrevious>>
  BY Facts DEF RemoveTemp, Finish, Inv, Calls
<1>2. TypeOK'
  <2>1. dir' \in [Files -> Contents] /\ new \in Contents /\ old \in Contents
    BY <1>1, Facts DEF Inv, TypeOK
  <2>2. faults' \in 0..MaxFaults
    BY Counted DEF Inv, RemoveTemp
  <2>3. synced' \subseteq Files /\ onDisk' \subseteq Contents
    BY <1>1, Facts DEF RemoveTemp, Inv, TypeOK, Files
  <2>4. /\ hostsDir' \in BOOLEAN /\ createdHosts' \in BOOLEAN /\ volatileDir' \in BOOLEAN
        /\ hadPrevious' \in BOOLEAN /\ written' \in BOOLEAN
    BY <1>1 DEF RemoveTemp, Finish, Inv, TypeOK
  <2>5. /\ litter' \subseteq Contents /\ loaded' \in Contents /\ src' \in {"tmp", "backup"}
        /\ UNCHANGED <<updates, crashes>>
    BY <1>1, Facts DEF RemoveTemp, Finish, Inv, TypeOK, Files
  <2>6. QED
    BY <1>1, <2>1, <2>2, <2>3, <2>4, <2>5 DEF Inv, TypeOK
<1>3. Disk'
  BY <1>1, Facts DEF Inv, Disk, TypeOK
<1>4. Calls' /\ Before' /\ Backup' /\ Place'
  BY <1>1, Facts DEF Inv, Calls, Before, Backup, Place, Replacing, Later,
     Unsettled, Disk, TypeOK
<1>5. QED
  BY <1>1, <1>2, <1>3, <1>4, Running DEF Inv

LEMMA ReloadGoes ==
  ASSUME Inv, Reload, pc' # "idle"
  PROVE  Inv'
<1>1. /\ pc = "reload" /\ result' = "none"
      /\ (pc' = "commit" /\ loaded' = host) \/ pc' = "rollback"
      /\ UNCHANGED <<new, old, held, dir, onDisk, synced, src, written, hadPrevious, faults>>
  BY Facts DEF Reload, Finish, Inv, Calls
<1>2. TypeOK'
  <2>1. dir' \in [Files -> Contents] /\ new \in Contents /\ old \in Contents
    BY <1>1, Facts DEF Inv, TypeOK
  <2>2. faults' \in 0..MaxFaults
    BY Counted DEF Inv, Reload
  <2>3. synced' \subseteq Files /\ onDisk' \subseteq Contents
    BY <1>1, Facts DEF Reload, Inv, TypeOK, Files
  <2>4. /\ hostsDir' \in BOOLEAN /\ createdHosts' \in BOOLEAN /\ volatileDir' \in BOOLEAN
        /\ hadPrevious' \in BOOLEAN /\ written' \in BOOLEAN
    BY <1>1 DEF Reload, Finish, Inv, TypeOK
  <2>5. /\ litter' \subseteq Contents /\ loaded' \in Contents /\ src' \in {"tmp", "backup"}
        /\ UNCHANGED <<updates, crashes>>
    BY <1>1, Facts DEF Reload, Finish, Inv, TypeOK, Files
  <2>6. QED
    BY <1>1, <2>1, <2>2, <2>3, <2>4, <2>5 DEF Inv, TypeOK
<1>3. Disk'
  BY <1>1, Facts DEF Inv, Disk, TypeOK
<1>4. Calls' /\ Before' /\ Backup' /\ Place'
  BY <1>1, Facts DEF Inv, Calls, Before, Backup, Place, Replacing, Later,
     Unsettled, Disk, TypeOK
<1>5. QED
  BY <1>1, <1>2, <1>3, <1>4, Running DEF Inv

LEMMA SyncHostsDirGoes ==
  ASSUME Inv, SyncHostsDir, pc' # "idle"
  PROVE  Inv'
<1>1. /\ pc = "syncdir" /\ pc' = "reload" /\ result' = "none" /\ src = "tmp"
      /\ onDisk' = {host} \/ (onDisk' = onDisk /\ faults' = faults + 1)
      /\ UNCHANGED <<new, old, held, dir, synced, src, written, hadPrevious>>
  BY Counted, Facts DEF SyncHostsDir, SyncDir, Finish, Inv, Calls
<1>2. TypeOK'
  <2>1. dir' \in [Files -> Contents] /\ new \in Contents /\ old \in Contents
    BY <1>1, Facts DEF Inv, TypeOK
  <2>2. faults' \in 0..MaxFaults
    BY Counted DEF Inv, SyncHostsDir, SyncDir
  <2>3. synced' \subseteq Files /\ onDisk' \subseteq Contents
    BY <1>1, Facts DEF SyncHostsDir, SyncDir, Inv, TypeOK, Files
  <2>4. /\ hostsDir' \in BOOLEAN /\ createdHosts' \in BOOLEAN /\ volatileDir' \in BOOLEAN
        /\ hadPrevious' \in BOOLEAN /\ written' \in BOOLEAN
    BY <1>1 DEF SyncHostsDir, SyncDir, Finish, Inv, TypeOK
  <2>5. /\ litter' \subseteq Contents /\ loaded' \in Contents /\ src' \in {"tmp", "backup"}
        /\ UNCHANGED <<updates, crashes>>
    BY <1>1, Facts DEF SyncHostsDir, SyncDir, Finish, Inv, TypeOK, Files
  <2>6. QED
    BY <1>1, <2>1, <2>2, <2>3, <2>4, <2>5 DEF Inv, TypeOK
<1>3. Disk'
  BY <1>1, Facts DEF Inv, Disk, TypeOK
<1>4. Calls' /\ Before' /\ Backup' /\ Place'
  BY <1>1, Facts DEF Inv, Calls, Before, Backup, Place, Replacing, Later,
     Unsettled, Disk, TypeOK
<1>5. QED
  BY <1>1, <1>2, <1>3, <1>4, Running DEF Inv

LEMMA RemoveHostGoes ==
  ASSUME Inv, RemoveHost, pc' # "idle"
  PROVE  Inv'
<1>1. /\ pc = "remove" /\ result' = "none"
      /\ \/ /\ pc' = "again" /\ dir' = [dir EXCEPT !["host"] = Absent]
            /\ onDisk' = onDisk \cup {Absent} /\ faults' = faults
         \/ /\ pc' = "untmp" /\ src = "tmp" /\ UNCHANGED <<dir, onDisk>>
            /\ faults' = faults + 1
      /\ UNCHANGED <<new, old, held, synced, src, written, hadPrevious>>
  BY Counted, Facts DEF RemoveHost, ReplaceFails, HostChanged, Finish, Inv,
     Calls
<1>2. TypeOK'
  <2>1. dir' \in [Files -> Contents] /\ new \in Contents /\ old \in Contents
    BY <1>1, Facts DEF Inv, TypeOK
  <2>2. faults' \in 0..MaxFaults
    BY Counted DEF Inv, RemoveHost, ReplaceFails, HostChanged
  <2>3. synced' \subseteq Files /\ onDisk' \subseteq Contents
    BY <1>1, Facts DEF RemoveHost, ReplaceFails, HostChanged, Inv, TypeOK, Files
  <2>4. /\ hostsDir' \in BOOLEAN /\ createdHosts' \in BOOLEAN /\ volatileDir' \in BOOLEAN
        /\ hadPrevious' \in BOOLEAN /\ written' \in BOOLEAN
    BY <1>1 DEF RemoveHost, ReplaceFails, HostChanged, Finish, Inv, TypeOK
  <2>5. /\ litter' \subseteq Contents /\ loaded' \in Contents /\ src' \in {"tmp", "backup"}
        /\ UNCHANGED <<updates, crashes>>
    BY <1>1, Facts DEF RemoveHost, ReplaceFails, HostChanged, Finish, Inv,
       TypeOK, Files
  <2>6. QED
    BY <1>1, <2>1, <2>2, <2>3, <2>4, <2>5 DEF Inv, TypeOK
<1>3. Disk'
  BY <1>1, Facts DEF Inv, Disk, TypeOK
<1>4. Calls' /\ Before' /\ Backup' /\ Place'
  BY <1>1, Facts DEF Inv, Calls, Before, Backup, Place, Replacing, Later,
     Unsettled, Disk, TypeOK
<1>5. QED
  BY <1>1, <1>2, <1>3, <1>4, Running DEF Inv

(* What replaceFile moves over the host file is complete and on disk. *)
LEMMA SrcIs ==
  ASSUME Inv, pc \in Replacing
  PROVE  /\ src \in {"tmp", "backup"} /\ src \in synced
         /\ src = "tmp" => dir[src] = new /\ ~ written
         /\ src = "backup" => dir[src] = old /\ old # Absent
         /\ dir[src] \in Keys
BY Facts DEF Inv, TypeOK, Calls, Backup, Place, Replacing, Later

LEMMA MoveIs ==
  ASSUME Inv, pc \in Replacing, MoveSrc
  PROVE  /\ dir' \in [Files -> Contents] /\ host' = dir[src]
         /\ src = "tmp" => backup' = backup /\ ("backup" \in synced => "backup" \in synced')
         /\ "host" \in synced' /\ synced' \subseteq Files
         /\ held' = held \cup {dir[src]} /\ onDisk' = onDisk \cup {dir[src]}
         /\ written' <=> written \/ src = "tmp"
<1>1. /\ src \in {"tmp", "backup"} /\ src \in synced /\ src \in Files
      /\ dir[src] \in Contents /\ dir \in [Files -> Contents]
  BY SrcIs, Facts DEF Inv, TypeOK
<1>2. \A f \in Files :
         dir'[f] = IF f = src THEN Absent ELSE IF f = "host" THEN dir[src] ELSE dir[f]
  BY <1>1, Facts DEF MoveSrc
<1>3. dir' \in [Files -> Contents]
  BY <1>1, Facts DEF MoveSrc
<1>4. host' = dir[src] /\ (src = "tmp" => backup' = backup)
  BY <1>1, <1>2, Facts
<1>5. /\ "host" \in synced' /\ synced' \subseteq Files
      /\ src = "tmp" /\ "backup" \in synced => "backup" \in synced'
  BY <1>1, Facts DEF MoveSrc, Inv, TypeOK, Files
<1>6. QED
  BY <1>3, <1>4, <1>5 DEF MoveSrc, HostChanged

LEMMA RenameGoes ==
  ASSUME Inv, Rename, pc' # "idle"
  PROVE  Inv'
<1>1. /\ pc \in Replacing /\ result' = "none" /\ pc \in {"rename", "again"}
      /\ \/ MoveSrc /\ pc' = "syncdir" /\ faults' = faults
         \/ /\ pc = "rename" /\ pc' = "remove"
           /\ faults' = faults + 1 /\ Fault /\ UNCHANGED <<dir, onDisk, held, synced, written>>
      /\ UNCHANGED <<new, old, src, hadPrevious, hostsDir, volatileDir, txVars, countVars, litter>>
  BY Facts, SrcIs DEF Rename, Finish, Inv, Calls, Replacing
<1>2. CASE MoveSrc /\ pc' = "syncdir"
  <2>1. /\ dir' \in [Files -> Contents] /\ faults' \in 0..MaxFaults
        /\ written' \in BOOLEAN
    BY <1>1, <1>2, MoveIs, Counted DEF Rename, Inv, TypeOK, MoveSrc
  <2>2. TypeOK'
    BY <1>1, <1>2, <2>1, MoveIs, SrcIs, Facts DEF Inv, TypeOK
  <2>3. Disk'
    BY <1>1, MoveIs, <1>2 DEF Inv, Disk
  <2>4. Calls' /\ Before' /\ Backup' /\ Place'
    BY <1>1, <1>2, MoveIs, SrcIs, Facts DEF Inv, Calls, Before, Backup, Place,
       Later, Replacing
  <2>5. QED
    BY <1>1, <2>2, <2>3, <2>4, Running DEF Inv
<1>3. CASE /\ pc = "rename" /\ pc' = "remove"
           /\ faults' = faults + 1 /\ Fault /\ UNCHANGED <<dir, onDisk, held, synced, written>>
  <2>1. TypeOK'
    BY <1>1, <1>3, Counted, Facts DEF Rename, Inv, TypeOK
  <2>2. Disk' /\ Calls' /\ Before' /\ Backup' /\ Place'
    BY <1>1, <1>3, Facts DEF Inv, TypeOK, Disk, Calls, Before, Backup, Place,
       Later, Replacing, Unsettled
  <2>3. QED
    BY <1>1, <2>1, <2>2, Running DEF Inv
<1>4. QED
  BY <1>1, <1>2, <1>3

LEMMA RenameAgainGoes ==
  ASSUME Inv, RenameAgain, pc' # "idle"
  PROVE  Inv'
<1>1. /\ pc \in Replacing /\ result' = "none" /\ pc \in {"rename", "again"}
      /\ \/ MoveSrc /\ pc' = "syncdir" /\ faults' = faults
         \/ /\ pc = "again" /\ pc' = "untmp" /\ src = "tmp"
            /\ faults' = faults + 1 /\ Fault /\ UNCHANGED <<dir, onDisk, held, synced, written>>
      /\ UNCHANGED <<new, old, src, hadPrevious, hostsDir, volatileDir, txVars, countVars, litter>>
  BY Facts, SrcIs DEF RenameAgain, ReplaceFails, Finish, Inv, Calls, Replacing
<1>2. CASE MoveSrc /\ pc' = "syncdir"
  <2>1. /\ dir' \in [Files -> Contents] /\ faults' \in 0..MaxFaults
        /\ written' \in BOOLEAN
    BY <1>1, <1>2, MoveIs, Counted DEF RenameAgain, ReplaceFails, Inv, TypeOK,
       MoveSrc
  <2>2. TypeOK'
    BY <1>1, <1>2, <2>1, MoveIs, SrcIs, Facts DEF Inv, TypeOK
  <2>3. Disk'
    BY <1>1, MoveIs, <1>2 DEF Inv, Disk
  <2>4. Calls' /\ Before' /\ Backup' /\ Place'
    BY <1>1, <1>2, MoveIs, SrcIs, Facts DEF Inv, Calls, Before, Backup, Place,
       Later, Replacing
  <2>5. QED
    BY <1>1, <2>2, <2>3, <2>4, Running DEF Inv
<1>3. CASE /\ pc = "again" /\ pc' = "untmp" /\ src = "tmp"
            /\ faults' = faults + 1 /\ Fault /\ UNCHANGED <<dir, onDisk, held, synced, written>>
  <2>1. TypeOK'
    BY <1>1, <1>3, Counted, Facts DEF RenameAgain, ReplaceFails, Inv, TypeOK
  <2>2. Disk' /\ Calls' /\ Before' /\ Backup' /\ Place'
    BY <1>1, <1>3, Facts DEF Inv, TypeOK, Disk, Calls, Before, Backup, Place,
       Later, Replacing, Unsettled
  <2>3. QED
    BY <1>1, <2>1, <2>2, Running DEF Inv
<1>4. QED
  BY <1>1, <1>2, <1>3

LEMMA RollbackGoes ==
  ASSUME Inv, Rollback, pc' # "idle"
  PROVE  Inv'
<1>1. /\ pc = "rollback" /\ pc' = "rename" /\ hadPrevious /\ src' = "backup" /\ result' = "none"
      /\ UNCHANGED <<new, old, held, dir, onDisk, synced, written, hadPrevious, faults,
                     hostsDir, createdHosts, volatileDir, countVars, litter>>
  BY DEF Rollback, Restore, RemoveNew, Finish, Inv, Calls
<1>2. TypeOK'
  BY <1>1 DEF Inv, TypeOK
<1>3. Disk' /\ Calls' /\ Before' /\ Backup' /\ Place'
  BY <1>1 DEF Inv, Disk, Calls, Before, Backup, Place, Later, Replacing,
     Unsettled
<1>4. QED
  BY <1>1, <1>2, <1>3, Running DEF Inv

(* The files with which updateTinc may return, and its answers. *)
LEMMA Ending ==
  ASSUME Inv, NEW files \in [Files -> Contents], NEW a \in {"ok", "error"},
         Finish(a, files), Fault \/ Ok, hostsDir' \in BOOLEAN,
         UNCHANGED <<new, old, held, synced, written, src, hadPrevious, createdHosts,
                     volatileDir, countVars>>,
         files["host"] \in held \cup {Absent}, files["host"] \in onDisk',
         onDisk' \subseteq held \cup {Absent},
         a = "ok" => files["host"] = new /\ loaded = new /\ (faults' = 0 => onDisk' = {new}),
         a = "error" =>
            /\ \/ files["host"] = old \/ faults' >= 2
               \/ faults' = 1 /\ old = Absent /\ files["host"] = new
            /\ old # Absent => files["host"] \in {old, new} \/ files["backup"] = old
            /\ faults' = 0 /\ old # Absent => onDisk' = {old}
  PROVE  Inv'
<1>1. /\ pc' = "idle" /\ result' = a
      /\ dir' \in [Files -> Contents] /\ host' = files["host"]
      /\ dir'["tmp"] = Absent /\ backup' = Absent
      /\ litter' \subseteq Contents
      /\ files["backup"] # Absent => files["backup"] \in litter'
  BY FinishFiles DEF Inv
<1>2. TypeOK'
  <2>1. faults' \in 0..MaxFaults
    BY Counted DEF Inv
  <2>2. onDisk' \subseteq Contents
    BY Facts DEF Inv, TypeOK
  <2>3. QED
    BY <1>1, <2>1, <2>2 DEF Inv, TypeOK
<1>3. Disk'
  BY <1>1 DEF Inv, Disk
<1>4. Calls' /\ Before' /\ Backup' /\ Place'
  BY <1>1, Idle
<1>5. AllOrNothing'
  BY <1>1, <1>2 DEF AllOrNothing, TypeOK
<1>6. NeverLost'
  BY <1>1 DEF NeverLost
<1>7. DurableAnswer'
  BY <1>1 DEF DurableAnswer
<1>8. QED
  BY <1>2, <1>3, <1>4, <1>5, <1>6, <1>7 DEF Inv

LEMMA StatHostsDirEnds == ASSUME Inv, StatHostsDir, pc' = "idle" PROVE Inv'
<1>1. /\ pc = "stat" /\ Fault /\ Finish("error", dir) /\ hostsDir' \in BOOLEAN
      /\ UNCHANGED <<new, old, held, synced, written, src, hadPrevious, createdHosts,
                     volatileDir, countVars, onDisk>>
  BY DEF StatHostsDir, Inv, TypeOK
<1>2. host = old /\ faults' = 1 /\ dir \in [Files -> Contents]
  BY <1>1 DEF Inv, Before, TypeOK
<1>3. QED
  BY <1>1, <1>2, Ending DEF Inv, Disk

LEMMA CreateBackupEnds == ASSUME Inv, CreateBackup, pc' = "idle" PROVE Inv'
<1>1. /\ pc = "backup" /\ Fault /\ Finish("error", dir) /\ hostsDir' \in BOOLEAN
      /\ UNCHANGED <<new, old, held, synced, written, src, hadPrevious, createdHosts,
                     volatileDir, countVars, onDisk>>
  BY DEF CreateBackup, Inv, TypeOK
<1>2. host = old /\ faults' = 1 /\ dir \in [Files -> Contents]
  BY <1>1 DEF Inv, Before, TypeOK
<1>3. QED
  BY <1>1, <1>2, Ending DEF Inv, Disk

LEMMA CopyToBackupEnds == ASSUME Inv, CopyToBackup, pc' = "idle" PROVE Inv'
<1>1. /\ pc = "copy" /\ Fault /\ Finish("error", dir) /\ hostsDir' \in BOOLEAN
      /\ UNCHANGED <<new, old, held, synced, written, src, hadPrevious, createdHosts,
                     volatileDir, countVars, onDisk>>
  BY DEF CopyToBackup, Inv, TypeOK
<1>2. host = old /\ faults' = 1 /\ dir \in [Files -> Contents]
  BY <1>1 DEF Inv, Before, TypeOK
<1>3. QED
  BY <1>1, <1>2, Ending DEF Inv, Disk

LEMMA RemoveHostEnds == ASSUME Inv, RemoveHost, pc' = "idle" PROVE Inv'
<1>1. /\ pc \in {"remove", "again"} /\ src = "backup" /\ Fault /\ Finish("error", dir)
      /\ UNCHANGED <<hostsDir, new, old, held, synced, written, src, hadPrevious, createdHosts,
                     volatileDir, countVars, onDisk>>
  BY DEF RemoveHost, ReplaceFails
<1>2. faults' >= 2 /\ backup = old /\ dir \in [Files -> Contents] /\ hostsDir' \in BOOLEAN
  BY <1>1, Counted DEF Inv, Backup, Place, TypeOK, Later, Replacing
<1>3. QED
  BY <1>1, <1>2, Ending DEF Inv, Disk, TypeOK

LEMMA RenameAgainEnds == ASSUME Inv, RenameAgain, pc' = "idle" PROVE Inv'
<1>1. /\ pc \in {"remove", "again"} /\ src = "backup" /\ Fault /\ Finish("error", dir)
      /\ UNCHANGED <<hostsDir, new, old, held, synced, written, src, hadPrevious, createdHosts,
                     volatileDir, countVars, onDisk>>
  BY DEF RenameAgain, ReplaceFails
<1>2. faults' >= 2 /\ backup = old /\ dir \in [Files -> Contents] /\ hostsDir' \in BOOLEAN
  BY <1>1, Counted DEF Inv, Backup, Place, TypeOK, Later, Replacing
<1>3. QED
  BY <1>1, <1>2, Ending DEF Inv, Disk, TypeOK

LEMMA SyncHostsDirEnds == ASSUME Inv, SyncHostsDir, pc' = "idle" PROVE Inv'
<1>1. /\ pc = "syncdir" /\ src = "backup" /\ Finish("error", dir) /\ SyncDir
      /\ UNCHANGED <<hostsDir, new, old, held, synced, written, src, hadPrevious, createdHosts,
                     volatileDir, countVars>>
  BY DEF SyncHostsDir
<1>2. host = old /\ dir \in [Files -> Contents] /\ hostsDir' \in BOOLEAN
  BY <1>1 DEF Inv, Place, TypeOK
<1>3. onDisk' = {host} \/ (onDisk' = onDisk /\ faults' # 0)
  BY <1>1 DEF SyncDir, Inv, TypeOK
<1>4. Fault \/ Ok
  BY <1>1 DEF SyncDir
<1>5. QED
  BY <1>1, <1>2, <1>3, <1>4, Ending DEF Inv, Disk

LEMMA CommitEnds == ASSUME Inv, Commit PROVE Inv'
<1>1. /\ pc = "commit"
      /\ UNCHANGED <<hostsDir, onDisk, new, old, held, synced, written, src, hadPrevious,
                     createdHosts, volatileDir, countVars>>
  BY DEF Commit
<1>2. /\ host = new /\ loaded = new /\ hostsDir' \in BOOLEAN
      /\ faults = 0 => onDisk = {new}
  BY <1>1 DEF Inv, Place, TypeOK
<1>3. ASSUME NEW files \in {dir, [dir EXCEPT !["backup"] = Absent]}, Finish("ok", files),
             Fault \/ Ok
      PROVE  Inv'
  <2>1. files \in [Files -> Contents] /\ files["host"] = host
    BY <1>3, Facts DEF Inv, TypeOK
  <2>2. faults' = 0 => faults = 0
    BY <1>3 DEF Inv, TypeOK
  <2>3. QED
    BY <1>1, <1>2, <1>3, <2>1, <2>2, Ending DEF Inv, Disk
<1>4. QED
  BY <1>3 DEF Commit

LEMMA RollbackEnds == ASSUME Inv, Rollback, pc' = "idle" PROVE Inv'
<1>1. /\ pc = "rollback" /\ ~ hadPrevious /\ RemoveNew /\ (Fault \/ Ok)
      /\ UNCHANGED <<new, old, held, synced, written, src, hadPrevious, createdHosts,
                     volatileDir, countVars>>
  BY DEF Rollback, Restore, RemoveNew
<1>2. old = Absent /\ dir \in [Files -> Contents] /\ faults \in Nat
  BY <1>1 DEF Inv, Backup, Later, TypeOK
<1>3. ASSUME Finish("error", [dir EXCEPT !["host"] = Absent]), onDisk' = onDisk \cup {Absent},
             hostsDir' \in BOOLEAN
      PROVE  Inv'
  <2>1. PICK files : files = [dir EXCEPT !["host"] = Absent]
    OBVIOUS
  <2>2. files \in [Files -> Contents] /\ files["host"] = Absent /\ Finish("error", files)
    BY <1>2, <1>3, <2>1, Facts
  <2>3. Absent \in onDisk' /\ onDisk' \subseteq held \cup {Absent}
    BY <1>3 DEF Inv, Disk
  <2>4. QED
    BY <1>1, <1>2, <1>3, <2>2, <2>3, Ending
<1>4. ASSUME Finish("error", dir), Fault, UNCHANGED <<hostsDir, onDisk>>
      PROVE  Inv'
  <2>1. host = old \/ host = new \/ faults >= 2
    BY <1>1 DEF Inv, Place, Unsettled
  <2>2. faults' = faults + 1
    BY <1>4
  <2>3. host = old \/ faults' >= 2 \/ (faults' = 1 /\ old = Absent /\ host = new)
    BY <1>2, <2>1, <2>2
  <2>4. QED
    BY <1>1, <1>2, <1>4, <2>2, <2>3, Ending DEF Inv, Disk, TypeOK
<1>5. QED
  BY <1>1, <1>3, <1>4 DEF RemoveNew, HostChanged, Inv, TypeOK

LEMMA CrashStep == ASSUME Inv, Crash PROVE Inv'
<1>1. /\ pc' = "idle" /\ result' = "none" /\ UNCHANGED held /\ synced' = {"host"}
      /\ new' = Absent /\ old' = Absent
  BY DEF Crash, GoTo
<1>2. /\ host' \in held \cup {Absent} /\ onDisk' = {host'}
      /\ dir' \in [Files -> Contents] /\ dir'["tmp"] = Absent /\ backup' = Absent
  <2>1. CASE CrashKeepsDir
    <3>1. PICK content \in onDisk :
             /\ dir' = [f \in Files |-> IF f = "host" THEN AfterCrash(content) ELSE Absent]
             /\ onDisk' = {AfterCrash(content)}
      BY <2>1 DEF CrashKeepsDir
    <3>2. AfterCrash(content) = content
      BY DEF AfterCrash, Inv, Disk
    <3>3. content \in held \cup {Absent} /\ content \in Contents
      BY Facts DEF Inv, Disk, TypeOK
    <3>4. QED
      BY <3>1, <3>2, <3>3, Facts DEF Files
  <2>2. CASE CrashLosesDir
    BY <2>2, Facts DEF CrashLosesDir, Files
  <2>3. QED
    BY <2>1, <2>2 DEF Crash
<1>3. TypeOK'
  <2>1. onDisk' \subseteq Contents
    BY <1>2, Facts DEF Inv, TypeOK
  <2>2. litter' \subseteq Contents /\ loaded' \in Contents /\ hostsDir' \in BOOLEAN
    <3>1. CASE CrashKeepsDir
      <4>1. \A f \in {"tmp", "backup"} : dir[f] \in Contents
        BY DEF Inv, TypeOK, Files
      <4>2. litter' \subseteq Contents
        BY <3>1, <4>1, Facts DEF CrashKeepsDir, Inv, TypeOK
      <4>3. loaded' \in Contents
        BY <3>1, <2>1 DEF CrashKeepsDir, Inv, TypeOK
      <4>4. QED
        BY <3>1, <4>2, <4>3 DEF CrashKeepsDir, Inv, TypeOK
    <3>2. CASE CrashLosesDir
      BY <3>2, Facts DEF CrashLosesDir
    <3>3. QED
      BY <3>1, <3>2 DEF Crash
  <2>3. faults' \in 0..MaxFaults /\ crashes' \in 0..MaxCrashes
    BY ConstantsOK DEF ConstantsOK, Crash, Inv, TypeOK
  <2>4. QED
    BY <1>1, <1>2, <2>1, <2>2, <2>3, Facts DEF Crash, Inv, TypeOK, Files
<1>4. Disk'
  BY <1>1, <1>2 DEF Disk
<1>5. QED
  BY <1>1, <1>2, <1>3, <1>4, Idle, Running DEF Inv

LEMMA InitInv == Init => Inv
<1> SUFFICES ASSUME Init PROVE Inv
  OBVIOUS
<1>1. PICK k \in Keys \cup {Absent} :
         /\ dir = [f \in Files |-> IF f = "host" THEN k ELSE Absent]
         /\ hostsDir \in {TRUE, k # Absent}
         /\ onDisk = {k} /\ held = {k} /\ loaded = k
  BY DEF Init
<1>2. host = k /\ dir["tmp"] = Absent /\ backup = Absent /\ dir \in [Files -> Contents]
  BY <1>1, Facts DEF Files
<1>3. TypeOK
  <2>1. 0 \in 0..MaxUpdates /\ 0 \in 0..MaxFaults /\ 0 \in 0..MaxCrashes
    BY ConstantsOK DEF ConstantsOK
  <2>2. QED
    BY <1>1, <1>2, <2>1, Facts DEF Init, TypeOK, Files
<1>4. Disk /\ Calls /\ Before /\ Backup /\ Place
  BY <1>1, <1>2 DEF Init, Disk, Calls, Before, Backup, Place, Later, Replacing
<1>5. QED
  BY <1>3, <1>4 DEF Init, Inv, AllOrNothing, NeverLost, DurableAnswer

LEMMA NextInv == Inv /\ [Next]_vars => Inv'
<1> SUFFICES ASSUME Inv, [Next]_vars PROVE Inv'
  OBVIOUS
<1>1. ASSUME NEW k \in Keys, Begin(k) PROVE Inv'
  BY <1>1, BeginStep
<1>2. CASE StatHostsDir \/ CreateBackup \/ CopyToBackup
  BY <1>2, StatHostsDirGoes, StatHostsDirEnds, CreateBackupGoes,
     CreateBackupEnds,
     CopyToBackupGoes, CopyToBackupEnds
<1>3. CASE CreateTemp \/ WriteTemp \/ RemoveTemp \/ Reload
  <2>1. pc' # "idle"
    BY <1>3 DEF CreateTemp, WriteTemp, RemoveTemp, Reload
  <2>2. QED
    BY <1>3, <2>1, CreateTempGoes, WriteTempGoes, RemoveTempGoes, ReloadGoes
<1>4. CASE Rename \/ RemoveHost \/ RenameAgain
  <2>1. Rename => pc' # "idle"
    BY DEF Rename
  <2>2. QED
    BY <1>4, <2>1, RenameGoes, RemoveHostGoes, RemoveHostEnds, RenameAgainGoes,
       RenameAgainEnds
<1>5. CASE SyncHostsDir
  BY <1>5, SyncHostsDirGoes, SyncHostsDirEnds
<1>6. CASE Commit
  BY <1>6, CommitEnds
<1>7. CASE Rollback
  BY <1>7, RollbackGoes, RollbackEnds
<1>8. CASE Crash
  BY <1>8, CrashStep
<1>9. CASE UNCHANGED vars
  BY <1>9 DEF vars, Inv, TypeOK, Disk, Calls, Before, Backup, Place, Later,
     Replacing, Unsettled,
     AllOrNothing, NeverLost, DurableAnswer
<1>10. QED
  BY <1>1, <1>2, <1>3, <1>4, <1>5, <1>6, <1>7, <1>8, <1>9 DEF Next, Update

LEMMA SpecInv == Spec => []Inv
BY InitInv, NextInv, PTL DEF Spec

-----------------------------------------------------------------------------
(* Every step is a step of HostStore, or changes nothing it has *)

LEMMA HostIs ==
  ASSUME Inv, pc # "idle"
  PROVE  IF written THEN host \in {new, old, Absent} ELSE host \in {old, Absent}
BY DEF Inv, TypeOK, Before, Place, Unsettled, Replacing

(* The calls that neither put the new file in place nor return. *)
LEMMA Between ==
  ASSUME pc # "idle", pc' # "idle", UNCHANGED <<new, old, written, held>>
  PROVE  UNCHANGED Abstract!vars
BY DEF Abstract!vars

(* The new file, or the old one again, is moved into place. *)
LEMMA Moves ==
  ASSUME Inv, pc \in Replacing, pc' # "idle", MoveSrc, UNCHANGED <<new, old>>
  PROVE  [Abstract!Next]_(Abstract!vars)
<1>1. pc # "idle"
  BY DEF Replacing
<1>2. CASE src = "tmp"
  <2>1. ~ written /\ written' /\ held' = held \cup {new} /\ new \in Keys
    BY <1>2, SrcIs, MoveIs
  <2>2. Abstract!Write(new)
    BY <1>1, <2>1 DEF Abstract!Write
  <2>3. QED
    BY <2>1, <2>2 DEF Abstract!Next
<1>3. CASE src = "backup"
  <2>1. dir[src] = old /\ old \in held
    BY <1>1, <1>3, SrcIs DEF Inv, Calls
  <2>2. UNCHANGED held /\ (written' <=> written)
    BY <1>3, <2>1, MoveIs
  <2>3. QED
    BY <1>1, <2>2 DEF Abstract!vars
<1>4. QED
  BY <1>2, <1>3, SrcIs

(* updateTinc returns an error. *)
LEMMA Errors ==
  ASSUME Inv, pc # "idle", pc' = "idle", UNCHANGED <<new, old, written, held>>,
         host' \in {host, Absent}
  PROVE  [Abstract!Next]_(Abstract!vars)
<1>1. CASE written
  <2>1. Abstract!Rollback
    BY <1>1, HostIs DEF Abstract!Rollback
  <2>2. QED
    BY <2>1 DEF Abstract!Next
<1>2. CASE ~ written
  <2>1. Abstract!WriteFails
    BY <1>2, HostIs DEF Abstract!WriteFails
  <2>2. QED
    BY <2>1 DEF Abstract!Next
<1>3. QED
  BY <1>1, <1>2

LEMMA FinishHost ==
  ASSUME Inv, NEW a, Finish(a, dir)
  PROVE  pc' = "idle" /\ host' = host
BY Facts DEF Inv, TypeOK, Finish, Files

LEMMA CallSimulates ==
  ASSUME Inv,
         \/ StatHostsDir \/ CreateBackup \/ CopyToBackup \/ CreateTemp \/ WriteTemp
         \/ RemoveTemp \/ SyncHostsDir \/ Reload
  PROVE  [Abstract!Next]_(Abstract!vars)
<1>1. pc # "idle" /\ UNCHANGED <<new, old, written, held>>
  BY DEF StatHostsDir, CreateBackup, CopyToBackup, CreateTemp, WriteTemp,
     RemoveTemp,
     SyncHostsDir, Reload
<1>2. pc' # "idle" \/ Finish("error", dir)
  <2>1. StatHostsDir \/ CreateBackup => pc' # "idle" \/ Finish("error", dir)
    BY DEF StatHostsDir, CreateBackup
  <2>2. CopyToBackup => pc' # "idle" \/ Finish("error", dir)
    BY DEF CopyToBackup
  <2>3. SyncHostsDir => pc' # "idle" \/ Finish("error", dir)
    BY DEF SyncHostsDir
  <2>4. CreateTemp \/ WriteTemp \/ RemoveTemp \/ Reload => pc' # "idle"
    BY DEF CreateTemp, WriteTemp, RemoveTemp, Reload
  <2>5. QED
    BY <2>1, <2>2, <2>3, <2>4
<1>3. QED
  BY <1>1, <1>2, Between, Errors, FinishHost

LEMMA ReplaceSimulates ==
  ASSUME Inv, Rename \/ RemoveHost \/ RenameAgain
  PROVE  [Abstract!Next]_(Abstract!vars)
<1>1. pc \in Replacing /\ pc # "idle" /\ UNCHANGED <<new, old>>
  BY DEF Rename, RemoveHost, RenameAgain, Replacing
<1>2. \/ MoveSrc /\ pc' # "idle"
      \/ UNCHANGED <<written, held>> /\ (pc' # "idle" \/ Finish("error", dir))
  <2>1. CASE Rename
    BY <2>1 DEF Rename
  <2>2. CASE RemoveHost
    BY <2>2 DEF RemoveHost, ReplaceFails
  <2>3. CASE RenameAgain
    BY <2>3 DEF RenameAgain, ReplaceFails
  <2>4. QED
    BY <2>1, <2>2, <2>3
<1>3. QED
  BY <1>1, <1>2, Moves, Between, Errors, FinishHost

LEMMA EndSimulates ==
  ASSUME Inv, Commit \/ Rollback
  PROVE  [Abstract!Next]_(Abstract!vars)
<1>1. CASE Commit
  <2>1. /\ pc # "idle" /\ pc' = "idle" /\ written /\ host = new
        /\ UNCHANGED <<written, held>>
    BY <1>1 DEF Commit, Finish, Inv, Place
  <2>2. host' = host
    <3>1. \E files \in {dir, [dir EXCEPT !["backup"] = Absent]} : Finish("ok", files)
      BY <1>1 DEF Commit
    <3>2. \A files \in {dir, [dir EXCEPT !["backup"] = Absent]} :
             files \in [Files -> Contents] /\ files["host"] = host
      BY Facts DEF Inv, TypeOK
    <3>3. QED
      BY <3>1, <3>2, FinishFiles DEF Inv
  <2>3. Abstract!Commit
    BY <2>1, <2>2 DEF Abstract!Commit
  <2>4. QED
    BY <2>3 DEF Abstract!Next
<1>2. CASE Rollback
  <2>1. pc # "idle" /\ UNCHANGED <<new, old, written, held>>
    BY <1>2 DEF Rollback
  <2>2. pc' # "idle" \/ (pc' = "idle" /\ host' \in {host, Absent})
    <3>1. PICK files : files = [dir EXCEPT !["host"] = Absent]
      OBVIOUS
    <3>2. files \in [Files -> Contents] /\ files["host"] = Absent
      BY <3>1, Facts DEF Inv, TypeOK
    <3>3. pc' # "idle" \/ Finish("error", dir) \/ Finish("error", files)
      BY <1>2, <3>1 DEF Rollback, Restore, RemoveNew
    <3>4. QED
      BY <3>2, <3>3, FinishHost, FinishFiles DEF Inv
  <2>3. QED
    BY <2>1, <2>2, Between, Errors
<1>3. QED
  BY <1>1, <1>2

LEMMA RestSimulates ==
  ASSUME Inv, Inv', (\E k \in Keys : Begin(k)) \/ Crash \/ UNCHANGED vars
  PROVE  [Abstract!Next]_(Abstract!vars)
<1>1. ASSUME NEW k \in Keys, Begin(k) PROVE UNCHANGED Abstract!vars
  <2>1. /\ pc = "idle" /\ pc' # "idle" /\ old' = host
        /\ ~ written' /\ UNCHANGED held
    BY <1>1 DEF Begin
  <2>2. QED
    BY <2>1 DEF Abstract!vars
<1>2. CASE Crash
  <2>1. pc' = "idle" /\ UNCHANGED held /\ host' \in held \cup {Absent}
    BY <1>2 DEF Crash, Inv, Disk
  <2>2. Abstract!Crash
    BY <2>1 DEF Abstract!Crash
  <2>3. QED
    BY <2>2 DEF Abstract!Next
<1>3. CASE UNCHANGED vars
  BY <1>3 DEF vars, Abstract!vars
<1>4. QED
  BY <1>1, <1>2, <1>3

-----------------------------------------------------------------------------
(* The theorems *)

(***************************************************************************)
(* Every variable keeps its type, and no update counts more faults than    *)
(* the bound.                                                              *)
(***************************************************************************)
THEOREM TypeCorrect == Spec => []TypeOK
<1>1. Inv => TypeOK
  BY DEF Inv
<1>2. QED
  BY <1>1, SpecInv, PTL

(***************************************************************************)
(* The host file is never cut short, and a user who had one has the old or *)
(* the new one when updateTinc returns, or the old one in a backup.        *)
(***************************************************************************)
THEOREM HostFileSurvivesAlways == Spec => []HostFileSurvives
<1>1. Inv => HostFileSurvives
  BY Facts DEF Inv, Disk, TypeOK, HostFileSurvives, NeverTorn
<1>2. QED
  BY <1>1, SpecInv, PTL

(***************************************************************************)
(* updateTinc returns nil only with the new key in place and read by tinc, *)
(* and an error after one fault with the old file, but for a first host    *)
(* file that could not be removed again.                                   *)
(***************************************************************************)
THEOREM AllOrNothingAlways == Spec => []AllOrNothing
<1>1. Inv => AllOrNothing
  BY DEF Inv
<1>2. QED
  BY <1>1, SpecInv, PTL

(***************************************************************************)
(* When no call failed and the hosts directory is durable, what the client *)
(* was told survives a crash: the new key after a success, the old one     *)
(* after an error.  A first host file that was rolled back may come back.  *)
(***************************************************************************)
THEOREM DurableAnswerAlways == Spec => []DurableAnswer
<1>1. Inv => DurableAnswer
  BY DEF Inv
<1>2. QED
  BY <1>1, SpecInv, PTL

(***************************************************************************)
(* The system calls of an update, with faults and crashes between them,    *)
(* are one change of the host file and its commit or rollback.             *)
(***************************************************************************)
THEOREM Refinement == Spec => ImplementsHostStore
<1>1. Init => Abstract!Init
  <2> SUFFICES ASSUME Init PROVE Abstract!Init
    OBVIOUS
  <2>1. PICK k \in Keys \cup {Absent} : host = k /\ held = {k}
    BY Facts DEF Init
  <2>2. QED
    BY <2>1 DEF Init, Abstract!Init
<1>2. Inv /\ Inv' /\ [Next]_vars => [Abstract!Next]_(Abstract!vars)
  BY CallSimulates, ReplaceSimulates, EndSimulates, RestSimulates DEF Next,
     Update
<1>3. QED
  BY <1>1, <1>2, SpecInv, PTL DEF Spec, ImplementsHostStore, Abstract!Spec
=============================================================================
