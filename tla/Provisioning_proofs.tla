------------------------ MODULE Provisioning_proofs ------------------------
(***************************************************************************)
(* Proofs about Provisioning, for any number of accounts, lines and        *)
(* subnets.                                                                *)
(***************************************************************************)
EXTENDS Provisioning, TLAPS

-----------------------------------------------------------------------------
(* The allocator's addresses *)

(* What FilesLoad says of a usrwg.conf. *)
ConfOK(conf) ==
    /\ \A i \in 1..Len(conf) : Usable(conf[i].address)
    /\ \/ LoadUserStore(conf)
       \/ \E i \in 1..Len(conf) : conf[i].name \in Lines

(* Names are names of lines, or whole lines, and differ. *)
LEMMA UsernamesOK ==
  ASSUME NEW lines \in Seq(Lines), ReadUsernames(lines) # NoFile
  PROVE  /\ ReadUsernames(lines) \in Seq(Names \cup Lines)
         /\ Distinct(ReadUsernames(lines))
<1>1. ReadUsernames(lines) = BeforeColon(lines) /\ Distinct(BeforeColon(lines))
  BY DEF ReadUsernames
<1>2. \A i \in 1..Len(lines) : lines[i] \in Lines
  OBVIOUS
<1>3. BeforeColon(lines) \in [1..Len(lines) -> Names \cup Lines]
  BY <1>2 DEF BeforeColon, Lines
<1>4. BeforeColon(lines) \in Seq(Names \cup Lines)
  BY <1>3
<1>5. QED
  BY <1>1, <1>4

(***************************************************************************)
(* Whatever allocateAddresses returns is a configuration the server takes: *)
(* the addresses differ, are in the subnet, and are neither the network's, *)
(* the server's nor, for IPv4, the broadcast address.                      *)
(***************************************************************************)
THEOREM AllocationUsable ==
  ASSUME NEW subnet \in Subnets, NEW names \in Seq(Names \cup Lines),
         Distinct(names), ~ Refused(subnet, names)
  PROVE  /\ AllocateAddresses(subnet, names) \in Seq(Assignments)
         /\ ConfOK(AllocateAddresses(subnet, names))
<1> DEFINE conf == AllocateAddresses(subnet, names)
<1>1. /\ subnet.v4 \in BOOLEAN /\ subnet.size \in Nat \ {0}
      /\ Len(names) \in Nat
  BY ConstantsOK DEF ConstantsOK
<1>2. /\ Len(conf) = Len(names)
      /\ \A i \in 1..Len(conf) :
            /\ conf[i].id = i
            /\ conf[i].name = names[i]
            /\ conf[i].address = <<subnet, i + 1>>
            /\ conf[i] \in Assignments
  <2>1. \A i \in 1..Len(names) : 2 + i - 1 = i + 1 /\ i + 1 \in Nat /\ i \in Nat \ {0}
    BY <1>1
  <2>2. \A i \in 1..Len(names) : names[i] \in Names \cup Lines
    OBVIOUS
  <2>3. QED
    BY <1>1, <2>1, <2>2 DEF AllocateAddresses, FirstAddress, Assignments
<1>3. conf \in Seq(Assignments)
  <2>1. conf \in [1..Len(names) -> Assignments]
    BY <1>2 DEF AllocateAddresses
  <2>2. QED
    BY <1>1, <2>1
<1>4. ASSUME NEW i \in 1..Len(conf)
      PROVE  Usable(conf[i].address)
  <2>1. i + 1 < subnet.size
    BY <1>1, <1>2 DEF Refused, FirstAddress
  <2>2. subnet.v4 => i + 1 # subnet.size - 1
    BY <1>1, <1>2 DEF Refused, Room
  <2>3. conf[i].address[1] = subnet /\ conf[i].address[2] = i + 1
    BY <1>2
  <2>4. QED
    BY <1>1, <1>2, <2>1, <2>2, <2>3 DEF Usable
<1>5. CASE \A i \in 1..Len(conf) : conf[i].name \in Names
  <2>1. Distinct([i \in 1..Len(conf) |-> conf[i].id])
    BY <1>2, <1>1 DEF Distinct
  <2>2. Distinct([i \in 1..Len(conf) |-> conf[i].address])
    BY <1>2, <1>1 DEF Distinct
  <2>3. Distinct(NamesOf(conf))
    BY <1>2, <1>1 DEF Distinct, NamesOf
  <2>4. LoadUserStore(conf)
    <3> HIDE DEF conf
    <3>1. QED
      BY <1>5, <2>1, <2>2, <2>3 DEF LoadUserStore
  <2>5. QED
    <3> HIDE DEF conf
    <3>1. ConfOK(conf)
      BY <1>4, <2>4 DEF ConfOK
    <3>2. QED
      BY <1>3, <3>1 DEF conf
<1>6. CASE \E i \in 1..Len(conf) : conf[i].name \notin Names
  <2>1. \E i \in 1..Len(conf) : conf[i].name \in Lines
    BY <1>2, <1>6
  <2>2. QED
    <3> HIDE DEF conf
    <3>1. ConfOK(conf)
      BY <1>4, <2>1 DEF ConfOK
    <3>2. QED
      BY <1>3, <3>1 DEF conf
<1>7. QED
  BY <1>3, <1>5, <1>6

(***************************************************************************)
(* allocateAddresses refuses only what does not fit: an IPv4 subnet        *)
(* smaller than /30, or more users than the subnet has usable addresses.   *)
(***************************************************************************)
THEOREM RefusedForWantOfRoom ==
  ASSUME NEW subnet \in Subnets, NEW names \in Seq(Names \cup Lines),
         Refused(subnet, names)
  PROVE  \/ subnet.v4 /\ subnet.size < 4
         \/ \E i \in 1..Len(names) : ~ Usable(<<subnet, i + 1>>)
<1>1. /\ subnet.v4 \in BOOLEAN /\ subnet.size \in Nat \ {0}
      /\ Len(names) \in Nat
  BY ConstantsOK DEF ConstantsOK
<1>2. CASE subnet.v4 /\ subnet.size >= 4 /\ Len(names) > subnet.size - 3
  <2>1. subnet.size - 2 \in 1..Len(names)
    BY <1>1, <1>2
  <2>2. ~ Usable(<<subnet, (subnet.size - 2) + 1>>)
    BY <1>1, <1>2 DEF Usable
  <2>3. QED
    BY <2>1, <2>2
<1>3. ASSUME NEW i \in 1..Len(names), 2 + i - 1 >= subnet.size
      PROVE  ~ Usable(<<subnet, i + 1>>)
  BY <1>1, <1>3 DEF Usable
<1>4. CASE \E i \in 1..Len(names) : 2 + i - 1 >= subnet.size
  <2>1. PICK i \in 1..Len(names) : 2 + i - 1 >= subnet.size
    BY <1>4
  <2>2. QED
    BY <1>3, <2>1
<1>5. QED
  <2>1. \/ subnet.v4 /\ subnet.size < 4
        \/ subnet.v4 /\ Len(names) > subnet.size - 3
        \/ \E i \in 1..Len(names) : 2 + i - 1 >= subnet.size
    BY DEF Refused, Room, FirstAddress
  <2>2. CASE subnet.v4 /\ subnet.size < 4
    BY <2>2
  <2>3. CASE subnet.v4 /\ Len(names) > subnet.size - 3 /\ ~ (subnet.size < 4)
    <3>1. subnet.size >= 4
      BY <1>1, <2>3
    <3>2. QED
      BY <1>2, <2>3, <3>1
  <2>4. QED
    BY <1>4, <2>1, <2>2, <2>3

-----------------------------------------------------------------------------
(* The account manager's list *)

(* Distinct names are names that tell the lines apart. *)
LEMMA NamesDiffer ==
  ASSUME NEW list \in Seq(Lines)
  PROVE  Distinct(NamesOf(list)) <=>
            \A i, j \in 1..Len(list) : list[i].name = list[j].name => i = j
<1>1. /\ Len(list) \in Nat
      /\ Len(NamesOf(list)) = Len(list)
      /\ \A i \in 1..Len(list) : NamesOf(list)[i] = list[i].name
  BY DEF NamesOf
<1>2. QED
  BY <1>1 DEF Distinct

(* The hash of a name in a list without duplicates is that of its line. *)
LEMMA HashPresent ==
  ASSUME NEW list \in Seq(Lines), Distinct(NamesOf(list)),
         NEW i \in 1..Len(list)
  PROVE  HashIn(list, list[i].name) = list[i].hash
<1>1. \A j \in 1..Len(list) : list[j].name = list[i].name => j = i
  BY NamesDiffer
<1>2. list # NoFile
  BY ConstantsOK DEF ConstantsOK
<1>3. (CHOOSE j \in 1..Len(list) : list[j].name = list[i].name) = i
  BY <1>1
<1>4. QED
  BY <1>2, <1>3 DEF HashIn

(* Lists with the same line for a name, or none, have the same hash for it. *)
LEMMA SameHash ==
  ASSUME NEW list \in Seq(Lines), Distinct(NamesOf(list)),
         NEW other \in Seq(Lines), Distinct(NamesOf(other)),
         NEW n,
         \A i \in 1..Len(list) : list[i].name = n =>
            \E j \in 1..Len(other) : other[j] = list[i],
         \A j \in 1..Len(other) : other[j].name = n =>
            \E i \in 1..Len(list) : list[i] = other[j]
  PROVE  HashIn(other, n) = HashIn(list, n)
<1>1. CASE \E i \in 1..Len(list) : list[i].name = n
  <2>1. PICK i \in 1..Len(list) : list[i].name = n
    BY <1>1
  <2>2. PICK j \in 1..Len(other) : other[j] = list[i]
    BY <2>1
  <2>3. HashIn(list, n) = list[i].hash
    BY <2>1, HashPresent
  <2>4. HashIn(other, n) = other[j].hash
    BY <2>1, <2>2, HashPresent
  <2>5. QED
    BY <2>2, <2>3, <2>4
<1>2. CASE ~ \E i \in 1..Len(list) : list[i].name = n
  <2>1. ~ \E j \in 1..Len(other) : other[j].name = n
    BY <1>2
  <2>2. QED
    BY <1>2, <2>1 DEF HashIn
<1>3. QED
  BY <1>1, <1>2

(* What a command makes of the list is a list, without duplicates, in which *)
(* only its own user's line has changed.                                    *)
Changed(list, n, new) ==
    /\ new \in Seq(Lines)
    /\ Distinct(NamesOf(new))
    /\ \A m \in Names \ {n} : HashIn(new, m) = HashIn(list, m)

LEMMA CreateChanges ==
  ASSUME NEW list \in Seq(Lines), Distinct(NamesOf(list)),
         NEW n \in Names, NEW h \in Hashes,
         \A i \in 1..Len(list) : list[i].name # n
  PROVE  Changed(list, n, Append(list, Account(n, h)))
<1> DEFINE new == Append(list, Account(n, h))
<1>1. Account(n, h) \in Lines /\ Account(n, h).name = n
  BY DEF Account, Lines
<1>2. /\ new \in Seq(Lines)
      /\ Len(new) = Len(list) + 1 /\ Len(list) \in Nat
      /\ \A i \in 1..Len(list) : new[i] = list[i]
      /\ new[Len(list) + 1] = Account(n, h)
  BY <1>1
<1> HIDE DEF new
<1>3. Distinct(NamesOf(new))
  <2>1. \A i \in 1..Len(new) : i \in 1..Len(list) \/ i = Len(list) + 1
    BY <1>2
  <2>2. \A i, j \in 1..Len(list) : list[i].name = list[j].name => i = j
    BY NamesDiffer
  <2>3. \A i, j \in 1..Len(new) : new[i].name = new[j].name => i = j
    BY <1>1, <1>2, <2>1, <2>2
  <2>4. QED
    BY <2>3, <1>2, NamesDiffer
<1>4. ASSUME NEW m \in Names \ {n}
      PROVE  HashIn(new, m) = HashIn(list, m)
  <2>1. \A i \in 1..Len(list) : list[i].name = m =>
            \E j \in 1..Len(new) : new[j] = list[i]
    BY <1>2
  <2>2. \A j \in 1..Len(new) : new[j].name = m =>
            \E i \in 1..Len(list) : list[i] = new[j]
    BY <1>1, <1>2, <1>4
  <2>3. QED
    BY <1>2, <1>3, <2>1, <2>2, SameHash
<1>5. QED
  BY <1>2, <1>3, <1>4 DEF Changed, new

LEMMA UpdateChanges ==
  ASSUME NEW list \in Seq(Lines), Distinct(NamesOf(list)),
         NEW n \in Names, NEW h \in Hashes,
         NEW k \in 1..Len(list), list[k].name = n
  PROVE  Changed(list, n, [list EXCEPT ![k] = Account(n, h)])
<1> DEFINE new == [list EXCEPT ![k] = Account(n, h)]
<1>1. Account(n, h) \in Lines /\ Account(n, h).name = n
  BY DEF Account, Lines
<1>2. /\ new \in Seq(Lines)
      /\ Len(new) = Len(list) /\ Len(list) \in Nat
      /\ \A i \in 1..Len(list) : i # k => new[i] = list[i]
      /\ new[k] = Account(n, h)
  BY <1>1
<1> HIDE DEF new
<1>3. Distinct(NamesOf(new))
  <2>1. \A i, j \in 1..Len(list) : list[i].name = list[j].name => i = j
    BY NamesDiffer
  <2>2. \A i \in 1..Len(list) : new[i].name = list[i].name
    BY <1>1, <1>2
  <2>3. QED
    BY <2>1, <2>2, <1>2, NamesDiffer
<1>4. ASSUME NEW m \in Names \ {n}
      PROVE  HashIn(new, m) = HashIn(list, m)
  <2>1. \A i \in 1..Len(list) : list[i].name = m =>
            \E j \in 1..Len(new) : new[j] = list[i]
    BY <1>2, <1>4
  <2>2. \A j \in 1..Len(new) : new[j].name = m =>
            \E i \in 1..Len(list) : list[i] = new[j]
    BY <1>1, <1>2, <1>4
  <2>3. QED
    BY <1>2, <1>3, <2>1, <2>2, SameHash
<1>5. QED
  BY <1>2, <1>3, <1>4 DEF Changed, new

LEMMA DeleteChanges ==
  ASSUME NEW list \in Seq(Lines), Distinct(NamesOf(list)),
         NEW n \in Names, NEW k \in 1..Len(list), list[k].name = n
  PROVE  Changed(list, n, Without(list, k))
<1> DEFINE new == Without(list, k)
<1>1. Len(list) \in Nat /\ k \in Nat /\ Len(list) - 1 \in Nat
  OBVIOUS
<1>2. /\ Len(new) = Len(list) - 1
      /\ \A i \in 1..Len(new) :
            new[i] = IF i < k THEN list[i] ELSE list[i + 1]
  BY <1>1 DEF Without
<1>3. new \in Seq(Lines)
  <2>1. \A i \in 1..(Len(list) - 1) :
            (IF i < k THEN list[i] ELSE list[i + 1]) \in Lines
    BY <1>1
  <2>2. new \in [1..(Len(list) - 1) -> Lines]
    BY <2>1 DEF Without
  <2>3. QED
    BY <1>1, <2>2
<1> HIDE DEF new
<1>4. \A i, j \in 1..Len(list) : list[i].name = list[j].name => i = j
  BY NamesDiffer
<1>5. Distinct(NamesOf(new))
  <2>1. \A i, j \in 1..Len(new) : new[i].name = new[j].name => i = j
    BY <1>1, <1>2, <1>4
  <2>2. QED
    BY <2>1, <1>3, NamesDiffer
<1>6. ASSUME NEW m \in Names \ {n}
      PROVE  HashIn(new, m) = HashIn(list, m)
  <2>1. ASSUME NEW i \in 1..Len(list), list[i].name = m
        PROVE  \E j \in 1..Len(new) : new[j] = list[i]
    <3>1. i # k
      BY <1>6, <2>1
    <3>2. CASE i < k
      BY <1>1, <1>2, <3>2
    <3>3. CASE i > k
      <4>1. i - 1 \in 1..Len(new) /\ ~ (i - 1 < k) /\ (i - 1) + 1 = i
        BY <1>1, <1>2, <3>3
      <4>2. QED
        BY <1>2, <4>1
    <3>4. QED
      BY <1>1, <3>1, <3>2, <3>3
  <2>2. \A j \in 1..Len(new) : new[j].name = m =>
            \E i \in 1..Len(list) : list[i] = new[j]
    BY <1>1, <1>2
  <2>3. QED
    BY <1>3, <1>5, <2>1, <2>2, SameHash
<1>7. QED
  BY <1>3, <1>5, <1>6 DEF Changed, new

-----------------------------------------------------------------------------
(* The inductive invariant *)

AccountsOK(list) == list \in Seq(Lines) /\ Distinct(NamesOf(list))

AssignmentsOK(list) == list \in Seq(Assignments) /\ ConfOK(list)

(***************************************************************************)
(* Where what was promised is to be found: in the file, and in memory as   *)
(* long as the manager runs, because the next command may write it.        *)
(***************************************************************************)
Kept(lines) == \A n \in Names : promised[n] \in {"open", HashIn(lines, n)}

PromiseInv ==
    /\ removed \/ Kept(file["manager"])
    /\ pc["manager"] # "off" => removed \/ Kept(accounts)
    /\ pc["manager"] = "again" => removed

IInv ==
    /\ AccountsOK(accounts)
    /\ AssignmentsOK(assignments)
    /\ pc \in [Tools -> Pc]
    /\ file = [t \in Tools |-> file[t]]
    /\ file["manager"] # NoFile => AccountsOK(file["manager"])
    /\ file["allocator"] # NoFile => AssignmentsOK(file["allocator"])
    /\ promised \in [Names -> Hashes \cup {"absent", "open"}]
    /\ removed \in BOOLEAN
    /\ PromiseInv

(* A hash is looked up in a file or a list. *)
LEMMA HashType ==
  ASSUME NEW lines, lines # NoFile => lines \in Seq(Lines), NEW n
  PROVE  HashIn(lines, n) \in Hashes \cup {"absent"}
<1>1. CASE lines # NoFile /\ \E i \in 1..Len(lines) : lines[i].name = n
  <2>1. PICK i \in 1..Len(lines) :
            i = CHOOSE j \in 1..Len(lines) : lines[j].name = n
    BY <1>1
  <2>2. lines[i] \in Lines
    BY <1>1
  <2>3. QED
    BY <1>1, <2>1, <2>2 DEF HashIn, Lines
<1>2. CASE ~ (lines # NoFile /\ \E i \in 1..Len(lines) : lines[i].name = n)
  BY <1>2 DEF HashIn
<1>3. QED
  BY <1>1, <1>2

(* The empty lists are in order. *)
LEMMA EmptyOK == AccountsOK(<<>>) /\ AssignmentsOK(<<>>)
<1>1. AccountsOK(<<>>)
  BY DEF AccountsOK, Distinct, NamesOf
<1>2. AssignmentsOK(<<>>)
  BY DEF AssignmentsOK, ConfOK, LoadUserStore, Distinct, NamesOf
<1>3. QED
  BY <1>1, <1>2

LEMMA InitIInv == Init => IInv
<1> SUFFICES ASSUME Init
             PROVE  IInv
  OBVIOUS
<1>1. PICK users \in {NoFile} \cup UNION {[1..n -> Lines] : n \in 0..MaxLines} :
          /\ users = NoFile \/ New(users)
          /\ file = [t \in Tools |-> IF t = "manager" THEN users ELSE NoFile]
          /\ promised = [n \in Names |-> HashIn(users, n)]
  BY DEF Init
<1>2. file["manager"] = users /\ file["allocator"] = NoFile
  BY <1>1 DEF Tools
<1>3. users # NoFile => users \in Seq(Lines)
  <2>1. ASSUME users # NoFile
        PROVE  users \in Seq(Lines)
    <3>1. PICK n \in 0..MaxLines : users \in [1..n -> Lines]
      BY <2>1
    <3>2. n \in Nat
      BY ConstantsOK DEF ConstantsOK
    <3>3. QED
      BY <3>1, <3>2
  <2>2. QED
    BY <2>1
<1>4. users # NoFile => AccountsOK(users)
  BY <1>1, <1>3 DEF AccountsOK, New
<1>5. \A n \in Names : HashIn(users, n) \in Hashes \cup {"absent"}
  BY <1>3, HashType
<1>6. promised \in [Names -> Hashes \cup {"absent", "open"}]
  BY <1>1, <1>5
<1>7. PromiseInv
  BY <1>1, <1>2 DEF Init, PromiseInv, Kept, Tools
<1>8. file = [t \in Tools |-> file[t]]
  BY <1>1
<1>9. pc \in [Tools -> Pc]
  BY DEF Init, Pc
<1>10. QED
  BY <1>2, <1>4, <1>6, <1>7, <1>8, <1>9, EmptyOK DEF IInv, Init

(* A command: one user's line changes, and his promise is open. *)
LEMMA ChangeIInv ==
  ASSUME IInv, NEW n \in Names, NEW new,
         Changed(accounts, n, new), Change(n, new)
  PROVE  IInv'
<1>1. accounts' = new /\ AccountsOK(accounts')
  BY DEF Changed, Change, AccountsOK
<1>2. /\ pc' \in [Tools -> Pc] /\ pc["manager"] = "menu"
      /\ pc'["manager"] = "save"
  BY DEF Change, GoTo, IInv, Tools, Pc
<1>3. /\ promised' \in [Names -> Hashes \cup {"absent", "open"}]
      /\ promised'[n] = "open"
      /\ \A m \in Names \ {n} : promised'[m] = promised[m]
  BY DEF Change, IInv
<1>4. UNCHANGED <<assignments, file, removed>>
  BY DEF Change
<1>5. removed \/ \A m \in Names : promised'[m] \in {"open", HashIn(new, m)}
  <2>1. removed \/ \A m \in Names : promised[m] \in {"open", HashIn(accounts, m)}
    BY <1>2 DEF IInv, PromiseInv, Kept
  <2>2. \A m \in Names \ {n} : HashIn(new, m) = HashIn(accounts, m)
    BY DEF Changed
  <2>3. QED
    BY <1>3, <2>1, <2>2
<1>6. removed \/ \A m \in Names :
                    promised'[m] \in {"open", HashIn(file["manager"], m)}
  BY <1>3 DEF IInv, PromiseInv, Kept
<1>7. PromiseInv'
  BY <1>1, <1>2, <1>4, <1>5, <1>6 DEF PromiseInv, Kept
<1>8. QED
  BY <1>1, <1>2, <1>3, <1>4, <1>7 DEF IInv

(* The new file takes the place of the old one. *)
LEMMA ReplacedIInv ==
  ASSUME IInv, NEW t \in Tools, pc[t] \in {"rename", "again"}, Replaced(t)
  PROVE  IInv'
<1>1. CASE t = "manager"
  <2>1. /\ accounts' = accounts /\ assignments' = assignments
        /\ removed' = FALSE
    BY <1>1 DEF Replaced, Done
  <2>2. pc' \in [Tools -> Pc] /\ pc'["manager"] = "menu"
    BY <1>1 DEF Replaced, Done, GoTo, IInv, Tools, Pc
  <2>3. /\ file' = [u \in Tools |-> file'[u]]
        /\ file'["manager"] = accounts
        /\ file'["allocator"] = file["allocator"]
    BY <1>1 DEF Replaced, Content, IInv, Tools
  <2>4. \A n \in Names :
            promised'[n] = IF removed \/ promised[n] = "open"
                           THEN HashIn(accounts, n) ELSE promised[n]
    BY <1>1 DEF Replaced
  <2>5. accounts # NoFile => accounts \in Seq(Lines)
    BY DEF IInv, AccountsOK
  <2>6. \A n \in Names : HashIn(accounts, n) \in Hashes \cup {"absent"}
    BY <2>5, HashType
  <2>7. promised' \in [Names -> Hashes \cup {"absent", "open"}]
    <3>1. promised' = [n \in Names |->
                          IF removed \/ promised[n] = "open"
                          THEN HashIn(accounts, n) ELSE promised[n]]
      BY <1>1 DEF Replaced
    <3>2. promised \in [Names -> Hashes \cup {"absent", "open"}]
      BY DEF IInv
    <3>3. QED
      BY <2>6, <3>1, <3>2
  <2>8. \A n \in Names : promised'[n] \in {"open", HashIn(accounts, n)}
    <3>1. removed \/ Kept(accounts)
      BY <1>1 DEF IInv, PromiseInv
    <3>2. QED
      BY <2>4, <3>1 DEF Kept
  <2>9. PromiseInv'
    BY <2>1, <2>2, <2>3, <2>8 DEF PromiseInv, Kept
  <2>10. QED
    BY <2>1, <2>2, <2>3, <2>7, <2>9 DEF IInv
<1>2. CASE t = "allocator"
  <2>1. /\ accounts' = accounts /\ assignments' = <<>>
        /\ removed' = removed /\ promised' = promised
    BY <1>2 DEF Replaced, Done
  <2>2. pc' \in [Tools -> Pc] /\ pc'["manager"] = pc["manager"]
    BY <1>2 DEF Replaced, Done, GoTo, IInv, Tools, Pc
  <2>3. /\ file' = [u \in Tools |-> file'[u]]
        /\ file'["allocator"] = assignments
        /\ file'["manager"] = file["manager"]
    BY <1>2 DEF Replaced, Content, IInv, Tools
  <2>4. PromiseInv'
    BY <2>1, <2>2, <2>3 DEF IInv, PromiseInv, Kept
  <2>5. QED
    BY <2>1, <2>2, <2>3, <2>4, EmptyOK DEF IInv
<1>3. QED
  BY <1>1, <1>2 DEF Tools

(* A step that touches neither the files nor the promises. *)
LEMMA QuietIInv ==
  ASSUME IInv, UNCHANGED <<file, promised, removed>>,
         AccountsOK(accounts'), AssignmentsOK(assignments'),
         pc' \in [Tools -> Pc],
         pc'["manager"] # "off" =>
            accounts' = accounts /\ pc["manager"] # "off",
         pc'["manager"] = "again" => pc["manager"] = "again"
  PROVE  IInv'
<1>1. PromiseInv'
  BY DEF IInv, PromiseInv, Kept
<1>2. QED
  BY <1>1 DEF IInv

LEMMA StartManagerIInv == IInv /\ StartManager => IInv'
<1> SUFFICES ASSUME IInv, StartManager
             PROVE  IInv'
  OBVIOUS
<1> DEFINE users == file["manager"]
<1>1. /\ accounts' = LoadAccounts(users) /\ LoadAccounts(users) # NoFile
      /\ UNCHANGED <<assignments, file, promised, removed>>
  BY DEF StartManager
<1>2. pc' \in [Tools -> Pc] /\ pc'["manager"] = "menu"
  BY DEF StartManager, GoTo, IInv, Tools, Pc
<1>3. \/ users = NoFile /\ accounts' = <<>>
      \/ users # NoFile /\ accounts' = users
  BY <1>1 DEF LoadAccounts, New
<1>4. AccountsOK(accounts')
  BY <1>3, EmptyOK DEF IInv
<1>5. \A n \in Names : HashIn(accounts', n) = HashIn(users, n)
  <2>1. \A n : HashIn(<<>>, n) = "absent" /\ HashIn(NoFile, n) = "absent"
    BY DEF HashIn
  <2>2. QED
    BY <1>3, <2>1
<1>6. PromiseInv'
  BY <1>1, <1>2, <1>5 DEF IInv, PromiseInv, Kept
<1>7. QED
  BY <1>1, <1>2, <1>4, <1>6 DEF IInv

LEMMA ManagerIInv == IInv /\ Manager => IInv'
<1> SUFFICES ASSUME IInv, Manager
             PROVE  IInv'
  OBVIOUS
<1>1. accounts \in Seq(Lines) /\ Distinct(NamesOf(accounts))
  BY DEF IInv, AccountsOK
<1>2. CASE StartManager
  BY <1>2, StartManagerIInv
<1>3. CASE ExitManager
  <2>1. pc' \in [Tools -> Pc] /\ pc'["manager"] = "off"
    BY <1>3 DEF ExitManager, GoTo, IInv, Tools, Pc
  <2>2. /\ accounts' = <<>> /\ assignments' = assignments
        /\ UNCHANGED <<file, promised, removed>>
    BY <1>3 DEF ExitManager
  <2>3. AccountsOK(accounts') /\ AssignmentsOK(assignments')
    BY <2>2, EmptyOK DEF IInv
  <2>4. QED
    BY <2>1, <2>2, <2>3, QuietIInv
<1>4. ASSUME NEW n \in Names, DeleteUser(n)
      PROVE  IInv'
  <2>1. PICK i \in 1..Len(accounts) :
            accounts[i].name = n /\ Change(n, Without(accounts, i))
    BY <1>4 DEF DeleteUser
  <2>2. Changed(accounts, n, Without(accounts, i))
    BY <1>1, <2>1, DeleteChanges
  <2>3. QED
    BY <2>1, <2>2, ChangeIInv
<1>5. ASSUME NEW n \in Names, NEW h \in Hashes, CreateUser(n, h)
      PROVE  IInv'
  <2>1. Changed(accounts, n, Append(accounts, Account(n, h)))
    BY <1>1, <1>5, CreateChanges DEF CreateUser
  <2>2. QED
    BY <1>5, <2>1, ChangeIInv DEF CreateUser
<1>6. ASSUME NEW n \in Names, NEW h \in Hashes, UpdatePassword(n, h)
      PROVE  IInv'
  <2>1. PICK i \in 1..Len(accounts) :
            /\ accounts[i].name = n
            /\ Change(n, [accounts EXCEPT ![i] = Account(n, h)])
    BY <1>6 DEF UpdatePassword
  <2>2. Changed(accounts, n, [accounts EXCEPT ![i] = Account(n, h)])
    BY <1>1, <2>1, UpdateChanges
  <2>3. QED
    BY <2>1, <2>2, ChangeIInv
<1>7. QED
  BY <1>2, <1>3, <1>4, <1>5, <1>6 DEF Manager

LEMMA StartAllocatorIInv ==
  ASSUME IInv, NEW subnet \in Subnets, StartAllocator(subnet)
  PROVE  IInv'
<1> DEFINE names == ReadUsernames(file["manager"])
<1>1. names # NoFile /\ ~ Refused(subnet, names)
  BY DEF StartAllocator
<1>2. file["manager"] \in Seq(Lines)
  BY <1>1 DEF IInv, AccountsOK, ReadUsernames
<1>3. names \in Seq(Names \cup Lines) /\ Distinct(names)
  BY <1>1, <1>2, UsernamesOK
<1>4. AssignmentsOK(assignments')
  <2>1. assignments' = AllocateAddresses(subnet, names)
    BY DEF StartAllocator
  <2>2. AssignmentsOK(AllocateAddresses(subnet, names))
    <3> HIDE DEF names
    <3>1. QED
      BY <1>1, <1>3, AllocationUsable DEF AssignmentsOK
  <2>3. QED
    BY <2>1, <2>2
<1>5. pc' \in [Tools -> Pc] /\ pc'["manager"] = pc["manager"]
  BY DEF StartAllocator, GoTo, IInv, Tools, Pc
<1>6. UNCHANGED <<accounts, file, promised, removed>>
  BY DEF StartAllocator
<1>7. AccountsOK(accounts')
  BY <1>6 DEF IInv
<1>8. QED
  BY <1>4, <1>5, <1>6, <1>7, QuietIInv

(* The steps of a replacement, which both tools take. *)
LEMMA SaveIInv ==
  ASSUME IInv, NEW t \in Tools, Save(t)
  PROVE  IInv'
<1>1. ASSUME pc[t] # "off", Failed(t)
      PROVE  IInv'
  <2>1. /\ UNCHANGED <<accounts, file, promised, removed>>
        /\ assignments' \in {assignments, <<>>}
    BY <1>1 DEF Failed, Done
  <2>2. /\ pc' \in [Tools -> Pc]
        /\ pc'["manager"] # "off" => pc["manager"] # "off"
        /\ pc'["manager"] = "again" => pc["manager"] = "again"
    BY <1>1 DEF Failed, Done, GoTo, IInv, Tools, Pc
  <2>3. AccountsOK(accounts') /\ AssignmentsOK(assignments')
    BY <2>1, EmptyOK DEF IInv
  <2>4. QED
    BY <2>1, <2>2, <2>3, QuietIInv
<1>2. ASSUME pc[t] \in {"save", "rename"}, GoTo(t, "rename") \/ GoTo(t, "remove"),
             UNCHANGED <<accounts, assignments, file, promised, removed>>
      PROVE  IInv'
  <2>1. /\ pc' \in [Tools -> Pc]
        /\ pc'["manager"] # "off" => pc["manager"] # "off"
        /\ pc'["manager"] = "again" => pc["manager"] = "again"
    BY <1>2 DEF GoTo, IInv, Tools, Pc
  <2>2. AccountsOK(accounts') /\ AssignmentsOK(assignments')
    BY <1>2 DEF IInv
  <2>3. QED
    BY <1>2, <2>1, <2>2, QuietIInv
<1>3. CASE WriteTemp(t)
  BY <1>2, <1>3 DEF WriteTemp
<1>4. CASE WriteTempFails(t)
  BY <1>1, <1>4 DEF WriteTempFails
<1>5. CASE Rename(t)
  BY <1>5, ReplacedIInv DEF Rename
<1>6. CASE RenameFails(t)
  BY <1>2, <1>6 DEF RenameFails
<1>7. CASE Remove(t)
  <2>1. /\ UNCHANGED <<accounts, assignments, promised>>
        /\ removed' = (removed \/ t = "manager")
    BY <1>7 DEF Remove
  <2>2. /\ pc' \in [Tools -> Pc]
        /\ pc[t] = "remove" /\ pc'[t] = "again"
        /\ \A u \in Tools \ {t} : pc'[u] = pc[u]
    BY <1>7 DEF Remove, GoTo, IInv, Pc
  <2>3. /\ file' = [u \in Tools |-> file'[u]]
        /\ file'[t] = NoFile
        /\ \A u \in Tools \ {t} : file'[u] = file[u]
    BY <1>7 DEF Remove, IInv
  <2>4. PromiseInv'
    <3>1. CASE t = "manager"
      BY <2>1, <3>1 DEF PromiseInv
    <3>2. CASE t # "manager"
      BY <2>1, <2>2, <2>3, <3>2 DEF IInv, PromiseInv, Kept, Tools
    <3>3. QED
      BY <3>1, <3>2
  <2>5. /\ file'["manager"] \in {NoFile, file["manager"]}
        /\ file'["allocator"] \in {NoFile, file["allocator"]}
        /\ removed' \in BOOLEAN
    BY <2>1, <2>3 DEF Tools, IInv
  <2>6. QED
    BY <2>1, <2>2, <2>3, <2>4, <2>5 DEF IInv
<1>8. CASE RemoveFails(t)
  BY <1>1, <1>8 DEF RemoveFails
<1>9. CASE RenameAgain(t)
  BY <1>9, ReplacedIInv DEF RenameAgain
<1>10. CASE RenameAgainFails(t)
  BY <1>1, <1>10 DEF RenameAgainFails
<1>11. QED
  BY <1>3, <1>4, <1>5, <1>6, <1>7, <1>8, <1>9, <1>10 DEF Save

LEMMA KillIInv ==
  ASSUME IInv, NEW t \in Tools, Kill(t)
  PROVE  IInv'
<1>1. /\ UNCHANGED <<file, promised, removed>>
      /\ accounts' \in {accounts, <<>>} /\ assignments' \in {assignments, <<>>}
      /\ t # "manager" => accounts' = accounts
  BY DEF Kill
<1>2. /\ pc' \in [Tools -> Pc] /\ pc'[t] = "off"
      /\ \A u \in Tools \ {t} : pc'[u] = pc[u]
  BY DEF Kill, GoTo, IInv, Pc
<1>3. AccountsOK(accounts') /\ AssignmentsOK(assignments')
  BY <1>1, EmptyOK DEF IInv
<1>4. "manager" \in Tools
  BY DEF Tools
<1>5. QED
  BY <1>1, <1>2, <1>3, <1>4, QuietIInv

LEMMA NextIInv == IInv /\ [Next]_vars => IInv'
<1> SUFFICES ASSUME IInv, [Next]_vars
             PROVE  IInv'
  OBVIOUS
<1>1. CASE Manager
  BY <1>1, ManagerIInv
<1>2. ASSUME NEW subnet \in Subnets, StartAllocator(subnet)
      PROVE  IInv'
  BY <1>2, StartAllocatorIInv
<1>3. ASSUME NEW t \in Tools, Save(t)
      PROVE  IInv'
  BY <1>3, SaveIInv
<1>4. ASSUME NEW t \in Tools, Kill(t)
      PROVE  IInv'
  BY <1>4, KillIInv
<1>5. CASE UNCHANGED vars
  BY <1>5 DEF vars, IInv, PromiseInv, Kept
<1>6. QED
  BY <1>1, <1>2, <1>3, <1>4, <1>5 DEF Next

LEMMA Invariance == Spec => []IInv
  BY InitIInv, NextIInv, PTL DEF Spec

-----------------------------------------------------------------------------
(* The theorems *)

(* The lists and the files keep their types, and no name comes twice among *)
(* the accounts in memory, whatever commands are given to the manager.     *)
THEOREM TypeCorrect == Spec => []TypeOK
<1>1. IInv => TypeOK
  BY DEF IInv, TypeOK, AccountsOK, AssignmentsOK
<1>2. QED
  BY <1>1, Invariance, PTL

(***************************************************************************)
(* The server accepts what the tools write, however they are interleaved,  *)
(* fail or are killed: readers find the old file, the new one or none.     *)
(* Only a line with a comma makes a usrwg.conf that it refuses.            *)
(***************************************************************************)
THEOREM FilesLoadAlways == Spec => []FilesLoad
<1>1. IInv => FilesLoad
  BY DEF IInv, FilesLoad, AccountsOK, AssignmentsOK, ConfOK, New
<1>2. QED
  BY <1>1, Invariance, PTL

(***************************************************************************)
(* The account file holds what the manager said it saved, but for accounts *)
(* of a later change that was not confirmed, and unless a failing rename   *)
(* has removed the file.                                                   *)
(***************************************************************************)
THEOREM PromisesKeptAlways == Spec => []PromisesKept
<1>1. IInv => PromisesKept
  BY DEF IInv, PromiseInv, Kept, PromisesKept
<1>2. QED
  BY <1>1, Invariance, PTL
=============================================================================
