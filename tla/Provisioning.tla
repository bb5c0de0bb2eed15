---------------------------- MODULE Provisioning ----------------------------
(***************************************************************************)
(* The two administration tools of the WireGuard version: the account      *)
(* manager (esausermanage), which edits users.txt, and the address         *)
(* allocator (esaipalloc), which reads users.txt and writes usrwg.conf.    *)
(* Both replace their file the same way, by a temporary file and a rename, *)
(* and both may be run, and killed, at any time.  The server reads the two *)
(* files when it starts (New, LoadUserStore).                              *)
(*                                                                         *)
(* An address is a subnet and an offset in it: 0 is the network address, 1 *)
(* the server's, the last one of an IPv4 subnet its broadcast address.     *)
(***************************************************************************)
EXTENDS Naturals, Sequences

CONSTANTS Names,     \* valid user names
          Hashes,    \* valid password hashes
          Subnets,   \* the subnets the allocator is asked for
          MaxLines,  \* lines in a users.txt that was written by hand
          NoFile     \* a file that does not exist, or a refusal

VARIABLES
    accounts,     \* the account manager's list
    assignments,  \* the allocator's list
    pc,           \* where each tool is
    file,         \* file[t]: content of the file tool t writes
    \* history: not in the program, read by the properties only
    promised,     \* promised[n]: the hash of n as last confirmed, or "open"
    removed       \* did a failed replacement leave users.txt removed?

vars == <<accounts, assignments, pc, file, promised, removed>>

Tools == {"manager", "allocator"}
Pc    == {"off", "menu", "save", "rename", "remove", "again"}

(***************************************************************************)
(* A line of users.txt.  The server takes name:hash and name,hash.  A hash *)
(* has commas in it, but no colon.                                         *)
(***************************************************************************)
Lines == [name : Names, hash : Hashes, sep : {":", ","}]

(* A subnet has an address family and 2^(its host bits) addresses. *)
ASSUME ConstantsOK ==
    /\ Subnets \subseteq [v4 : BOOLEAN, size : Nat \ {0}]
    /\ MaxLines \in Nat
    /\ NoFile \notin Seq(Lines)

Account(n, h) == [name |-> n, hash |-> h, sep |-> ":"]

(* No value occurs twice in a list. *)
Distinct(list) == \A i, j \in 1..Len(list) : list[i] = list[j] => i = j

NamesOf(list) == [i \in 1..Len(list) |-> list[i].name]

-----------------------------------------------------------------------------
(* Reading the files *)

(* New: the server's accounts, refused as a whole if a name comes twice. *)
New(lines) == lines # NoFile /\ Distinct(NamesOf(lines))

(* Mutant of LoadAccounts: what cannot be read is no account. *)
LoadAccountsLeniently(lines) ==
    IF New(lines) /\ \A i \in 1..Len(lines) : lines[i].sep = ":"
    THEN lines
    ELSE <<>>

(* loadAccounts: only name:hash; a file that is not there is an empty list. *)
LoadAccounts(lines) ==
    CASE lines = NoFile -> <<>>
      [] New(lines) /\ (\A i \in 1..Len(lines) : lines[i].sep = ":") -> lines
      [] OTHER -> NoFile

(* What the allocator takes for names: all before the colon, if any. *)
BeforeColon(lines) ==
    [i \in 1..Len(lines) |->
        IF lines[i].sep = ":" THEN lines[i].name ELSE lines[i]]

ReadUsernames(lines) ==
    IF lines # NoFile /\ Distinct(BeforeColon(lines)) THEN BeforeColon(lines)
                                                      ELSE NoFile

(* LoadUserStore: names must be valid; ids, addresses and names differ. *)
LoadUserStore(conf) ==
    /\ \A i \in 1..Len(conf) : conf[i].name \in Names
    /\ Distinct([i \in 1..Len(conf) |-> conf[i].id])
    /\ Distinct([i \in 1..Len(conf) |-> conf[i].address])
    /\ Distinct(NamesOf(conf))

-----------------------------------------------------------------------------
(* allocateAddresses *)

(* Mutant of Room: the broadcast address counts as free. *)
RoomWithBroadcast(subnet) == subnet.size - 2

(* prefix.Addr().Next().Next() *)
FirstAddress(subnet) == 2

(* maxUsers: all addresses but the network's, the server's and broadcast. *)
Room(subnet) == subnet.size - 3

(***************************************************************************)
(* IPv4 subnets smaller than /30 are refused, others for want of room: an  *)
(* IPv4 subnet by its number of users, an IPv6 one when an address is not  *)
(* in it any more.                                                         *)
(***************************************************************************)
Refused(subnet, names) ==
    \/ subnet.v4 /\ subnet.size < 4
    \/ subnet.v4 /\ names # <<>> /\ Len(names) > Room(subnet)
    \/ \E i \in 1..Len(names) : FirstAddress(subnet) + i - 1 >= subnet.size

AllocateAddresses(subnet, names) ==
    [i \in 1..Len(names) |->
        [id |-> i, name |-> names[i],
         address |-> <<subnet, FirstAddress(subnet) + i - 1>>]]

-----------------------------------------------------------------------------
(* The hash a users.txt holds for n. *)
HashIn(lines, n) ==
    IF lines # NoFile /\ \E i \in 1..Len(lines) : lines[i].name = n
    THEN lines[CHOOSE i \in 1..Len(lines) : lines[i].name = n].hash
    ELSE "absent"

Assignments ==
    [id : Nat \ {0}, name : Names \cup Lines, address : Subnets \X Nat]

(* Only accounts are checked when they are made: no name comes twice. *)
TypeOK ==
    /\ accounts \in Seq(Lines)
    /\ Distinct(NamesOf(accounts))
    /\ assignments \in Seq(Assignments)
    /\ pc \in [Tools -> Pc]
    /\ file["manager"] \in Seq(Lines) \cup {NoFile}
    /\ file["allocator"] \in Seq(Assignments) \cup {NoFile}
    /\ promised \in [Names -> Hashes \cup {"absent", "open"}]
    /\ removed \in BOOLEAN

Init ==
    /\ accounts = <<>>
    /\ assignments = <<>>
    /\ pc = [t \in Tools |-> "off"]
    /\ \E users \in {NoFile} \cup UNION {[1..n -> Lines] : n \in 0..MaxLines} :
          /\ users = NoFile \/ New(users)
          /\ file = [t \in Tools |-> IF t = "manager" THEN users ELSE NoFile]
          /\ promised = [n \in Names |-> HashIn(users, n)]
    /\ removed = FALSE

-----------------------------------------------------------------------------
(* The account manager's menu *)

GoTo(t, to) == pc' = [pc EXCEPT ![t] = to]

(* A command changes the list in memory and saves it. *)
Change(n, list) ==
    /\ pc["manager"] = "menu"
    /\ accounts' = list
    /\ promised' = [promised EXCEPT ![n] = "open"]
    /\ GoTo("manager", "save")
    /\ UNCHANGED <<assignments, file, removed>>

StartManager ==
    /\ pc["manager"] = "off"
    /\ LoadAccounts(file["manager"]) # NoFile
    /\ accounts' = LoadAccounts(file["manager"])
    /\ GoTo("manager", "menu")
    /\ UNCHANGED <<assignments, file, promised, removed>>

CreateUser(n, h) ==
    /\ \A i \in 1..Len(accounts) : accounts[i].name # n
    /\ Change(n, Append(accounts, Account(n, h)))

UpdatePassword(n, h) ==
    \E i \in 1..Len(accounts) :
        /\ accounts[i].name = n
        /\ Change(n, [accounts EXCEPT ![i] = Account(n, h)])

(* append(accounts[:index], accounts[index+1:]...) *)
Without(list, index) ==
    [i \in 1..(Len(list) - 1) |-> IF i < index THEN list[i] ELSE list[i + 1]]

DeleteUser(n) ==
    \E i \in 1..Len(accounts) :
        /\ accounts[i].name = n
        /\ Change(n, Without(accounts, i))

ExitManager ==
    /\ pc["manager"] = "menu"
    /\ accounts' = <<>>
    /\ GoTo("manager", "off")
    /\ UNCHANGED <<assignments, file, promised, removed>>

Manager ==
    \/ StartManager \/ ExitManager
    \/ \E n \in Names :
          \/ DeleteUser(n)
          \/ \E h \in Hashes : CreateUser(n, h) \/ UpdatePassword(n, h)

-----------------------------------------------------------------------------
(* The allocator reads users.txt and works out the addresses. *)
StartAllocator(subnet) ==
    LET names == ReadUsernames(file["manager"]) IN
    /\ pc["allocator"] = "off"
    /\ names # NoFile
    /\ ~ Refused(subnet, names)
    /\ assignments' = AllocateAddresses(subnet, names)
    /\ GoTo("allocator", "save")
    /\ UNCHANGED <<accounts, file, promised, removed>>

-----------------------------------------------------------------------------
(* saveAccounts and writeAssignments replace the file of their tool. *)

Content(t) == IF t = "manager" THEN accounts ELSE assignments

(* The tool is done with its file; the allocator ends. *)
Done(t) ==
    /\ IF t = "manager"
       THEN GoTo(t, "menu") /\ UNCHANGED assignments
       ELSE GoTo(t, "off") /\ assignments' = <<>>
    /\ UNCHANGED accounts

(***************************************************************************)
(* The new file is in place: the manager says "Saved" of the changes that  *)
(* were open.  Of the others the old promise stands, if the file does.     *)
(***************************************************************************)
Replaced(t) ==
    /\ file' = [file EXCEPT ![t] = Content(t)]
    /\ IF t = "manager"
       THEN /\ promised' = [n \in Names |->
                               IF removed \/ promised[n] = "open"
                               THEN HashIn(accounts, n)
                               ELSE promised[n]]
            /\ removed' = FALSE
       ELSE UNCHANGED <<promised, removed>>
    /\ Done(t)

(* The replacement fails: the manager says "Save failed". *)
Failed(t) == Done(t) /\ UNCHANGED <<file, promised, removed>>

(* The temporary file is written and synced. *)
WriteTemp(t) ==
    /\ pc[t] = "save"
    /\ t = "manager" => Distinct(NamesOf(accounts))
    /\ GoTo(t, "rename")
    /\ UNCHANGED <<accounts, assignments, file, promised, removed>>

WriteTempFails(t) == pc[t] = "save" /\ Failed(t)

(* Mutant of Rename: the old file is always removed first. *)
RenameRemoves(t) ==
    /\ pc[t] = "rename"
    /\ file' = [file EXCEPT ![t] = NoFile]
    /\ GoTo(t, "again")
    /\ UNCHANGED <<accounts, assignments, promised, removed>>

Rename(t) == pc[t] = "rename" /\ Replaced(t)

RenameFails(t) ==
    /\ pc[t] = "rename"
    /\ GoTo(t, "remove")
    /\ UNCHANGED <<accounts, assignments, file, promised, removed>>

(* os.Remove, whose os.ErrNotExist is ignored, and once more os.Rename *)
Remove(t) ==
    /\ pc[t] = "remove"
    /\ file' = [file EXCEPT ![t] = NoFile]
    /\ removed' = (removed \/ t = "manager")
    /\ GoTo(t, "again")
    /\ UNCHANGED <<accounts, assignments, promised>>

RemoveFails(t) == pc[t] = "remove" /\ file[t] # NoFile /\ Failed(t)

RenameAgain(t) == pc[t] = "again" /\ Replaced(t)

RenameAgainFails(t) == pc[t] = "again" /\ Failed(t)

Save(t) ==
    \/ WriteTemp(t) \/ WriteTempFails(t) \/ Rename(t) \/ RenameFails(t)
    \/ Remove(t) \/ RemoveFails(t) \/ RenameAgain(t) \/ RenameAgainFails(t)

(* The tool is killed. *)
Kill(t) ==
    /\ pc[t] # "off"
    /\ GoTo(t, "off")
    /\ IF t = "manager" THEN accounts' = <<>> /\ UNCHANGED assignments
                        ELSE assignments' = <<>> /\ UNCHANGED accounts
    /\ UNCHANGED <<file, promised, removed>>

-----------------------------------------------------------------------------
Next ==
    \/ Manager
    \/ \E subnet \in Subnets : StartAllocator(subnet)
    \/ \E t \in Tools : Save(t) \/ Kill(t)

Spec == Init /\ [][Next]_vars

-----------------------------------------------------------------------------
(* Properties *)

(* An address that may be given to a user. *)
Usable(address) ==
    /\ address[2] \in 2..(address[1].size - 1)
    /\ address[1].v4 => address[2] # address[1].size - 1

(***************************************************************************)
(* What the tools write, whichever of them runs, fails or is killed when,  *)
(* the server accepts: no account and no address comes twice, and nobody   *)
(* gets the address of the network, the server or everybody.  Only a line  *)
(* that was written by hand with a comma makes a usrwg.conf the server     *)
(* refuses.                                                                *)
(***************************************************************************)
FilesLoad ==
    /\ file["manager"] # NoFile => New(file["manager"])
    /\ LET conf == file["allocator"] IN
       conf # NoFile =>
           /\ \A i \in 1..Len(conf) : Usable(conf[i].address)
           /\ \/ LoadUserStore(conf)
              \/ \E i \in 1..Len(conf) : conf[i].name \in Lines

(***************************************************************************)
(* The account file holds what the manager last said it saved, whatever    *)
(* failed or was killed since, except for accounts of a later change that  *)
(* was not confirmed, and unless a failing rename has removed the file.    *)
(***************************************************************************)
PromisesKept ==
    removed \/ \A n \in Names :
                   promised[n] \in {"open", HashIn(file["manager"], n)}
=============================================================================
