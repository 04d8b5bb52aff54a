------------------------ MODULE DashboardSessionProofs ------------------------
(***************************************************************************)
(* Theorems about UserDirectory and DashboardSession, for every set of     *)
(* people, roles, operations and calls under way, and every bound.         *)
(***************************************************************************)
EXTENDS DashboardSession, TLAPS

-----------------------------------------------------------------------------
(* The inductive invariant of the directory.                               *)

PCs == {"idle", "create", "permanent", "put", "update", "delete", "deleterow", "password"}
Tokens == [who : People, role : Roles, exp : Nat]
Items == [role : Roles \union {"none"}, alerts : {"none", "on", "off"}]

DirectoryTypes ==
    /\ now \in Nat
    /\ account \in [People -> {"none", "temp", "ok"}]
    /\ knows \in [People -> BOOLEAN]
    /\ row \in [People -> Items] /\ issued \subseteq Tokens
    /\ job \in [Admins -> [pc : PCs, by : People \union {"none"}, who : People \union {"none"},
                           role : Roles \union {"none"}]]
    /\ \A a \in Admins : IF job[a].pc = "idle" THEN job[a] = NoJob ELSE job[a].who \in People
    /\ granted \in [People -> Roles \union {"none"}]
    /\ lastAdmin \in [People -> Nat]
    /\ mishap \in [People -> SUBSET {"swept", "stopped", "unanswered"}]

(* The table says "admin" of a person up to the moment lastAdmin gives.    *)
Dated ==
    \A p \in People :
        lastAdmin[p] <= now /\ (row[p].role = "admin" => lastAdmin[p] = now)

(* An admin's token ends at most its life after that moment.               *)
Ending == \A t \in issued : t.role = "admin" => t.exp <= lastAdmin[t.who] + Life

(* An operation is about to write the role of the account of p.            *)
Creating(p) == \E a \in Admins : job[a].who = p /\ job[a].pc \in {"permanent", "put"}

(* Also while operations are under way: the person of an account that met  *)
(* no mishap holds the password, and the table has the role last granted,  *)
(* or will when the operation that creates the account ends.               *)
InOrder ==
    \A p \in People :
        account[p] # "none" /\ mishap[p] = {} =>
            knows[p] /\ (row[p].role = granted[p] \/ Creating(p))

DInv == DirectoryTypes /\ Dated /\ Ending /\ InOrder

-----------------------------------------------------------------------------
(* The directory: one lemma per action.                                    *)

LEMMA GotoKeeps ==
    ASSUME DirectoryTypes, NEW a \in Admins, job[a].pc # "idle", NEW pc \in PCs, Goto(a, pc)
    PROVE  /\ job' \in [Admins -> [pc : PCs, by : People \union {"none"},
                                   who : People \union {"none"}, role : Roles \union {"none"}]]
           /\ \A b \in Admins : IF job'[b].pc = "idle" THEN job'[b] = NoJob
                                ELSE job'[b].who \in People
           /\ \A b \in Admins \ {a} : job'[b] = job[b]
           /\ job'[a].pc = pc /\ (pc # "idle" => job'[a].who = job[a].who)
<1> DEFINE new == IF pc = "idle" THEN NoJob ELSE [job[a] EXCEPT !.pc = pc]
<1>1. job' = [job EXCEPT ![a] = new]
  BY DEF Goto
<1>2. job[a] \in [pc : PCs, by : People \union {"none"}, who : People \union {"none"},
                  role : Roles \union {"none"}] /\ job[a].who \in People
  BY DEF DirectoryTypes
<1>3. /\ new \in [pc : PCs, by : People \union {"none"}, who : People \union {"none"},
                  role : Roles \union {"none"}]
      /\ new.pc = pc /\ (pc # "idle" => new.who = job[a].who) /\ (pc = "idle" => new = NoJob)
  BY <1>2 DEF NoJob, PCs
<1> HIDE DEF new
<1>4. job'[a] = new /\ \A b \in Admins \ {a} : job'[b] = job[b]
  BY <1>1 DEF DirectoryTypes
<1>5. job' \in [Admins -> [pc : PCs, by : People \union {"none"},
                           who : People \union {"none"}, role : Roles \union {"none"}]]
  BY <1>1, <1>3 DEF DirectoryTypes
<1> QED
  BY <1>2, <1>3, <1>4, <1>5 DEF DirectoryTypes

(* An operation that is not creating an account leaves Creating alone.     *)
LEMMA CreatingKept ==
    ASSUME NEW a \in Admins, \A b \in Admins \ {a} : job'[b] = job[b],
           NEW p \in People, Creating(p),
           \/ job[a].pc \notin {"permanent", "put"}
           \/ job[a].who # p
           \/ job'[a].who = job[a].who /\ job'[a].pc \in {"permanent", "put"}
    PROVE  Creating(p)'
<1>1. PICK b \in Admins : job[b].who = p /\ job[b].pc \in {"permanent", "put"}
  BY DEF Creating
<1>2. CASE b = a
  BY <1>1, <1>2 DEF Creating
<1>3. CASE b # a
  BY <1>1, <1>3 DEF Creating
<1> QED
  BY <1>2, <1>3

LEMMA NoJobIsIdle == NoJob.pc = "idle" /\ "idle" \in PCs
BY DEF NoJob, PCs

LEMMA BeginKeeps ==
    ASSUME DInv, NEW a \in Admins, NEW t \in issued, NEW q \in People,
           NEW pc \in {"create", "update", "delete", "password"},
           NEW r \in Roles \union {"none"}, Begin(a, t, pc, q, r)
    PROVE  /\ DInv' /\ job[a] = NoJob /\ job'[a].by = t.who
           /\ now <= lastAdmin[t.who] + Life /\ t.who \in People
           /\ \A b \in Admins \ {a} : job'[b] = job[b]
<1> DEFINE new == [pc |-> pc, by |-> t.who, who |-> q, role |-> r]
<1>1. /\ UNCHANGED <<now, pool, row, issued, observed>> /\ job[a] = NoJob
      /\ now <= t.exp /\ t.role = "admin" /\ job' = [job EXCEPT ![a] = new]
  BY DEF Begin, Valid
<1>2. t \in Tokens /\ t.who \in People /\ t.exp \in Nat
  BY DEF DInv, DirectoryTypes, Tokens
<1>3. new \in [pc : PCs, by : People \union {"none"}, who : People \union {"none"},
               role : Roles \union {"none"}] /\ new.who = q /\ new.pc = pc /\ new.by = t.who
  BY <1>2 DEF PCs
<1> HIDE DEF new
<1>4. job'[a] = new /\ \A b \in Admins \ {a} : job'[b] = job[b]
  BY <1>1 DEF DInv, DirectoryTypes
<1>5. DirectoryTypes'
  BY <1>1, <1>3, <1>4 DEF DInv, DirectoryTypes, pool, observed
<1>6. Dated' /\ Ending'
  BY <1>1 DEF DInv, Dated, Ending, observed
<1>7. InOrder'
  <2>1. job[a].pc \notin {"permanent", "put"}
    BY <1>1, NoJobIsIdle
  <2> QED
    BY <1>1, <1>4, <2>1, CreatingKept DEF DInv, InOrder, pool, observed
<1>8. now <= lastAdmin[t.who] + Life
  <2>1. t.exp <= lastAdmin[t.who] + Life
    BY <1>1 DEF DInv, Ending
  <2>2. now \in Nat /\ lastAdmin[t.who] \in Nat /\ Life \in Nat
    BY <1>2, DirectoryAssumption DEF DInv, DirectoryTypes
  <2> QED
    BY <1>1, <1>2, <2>1, <2>2
<1> QED
  BY <1>1, <1>2, <1>3, <1>4, <1>5, <1>6, <1>7, <1>8 DEF DInv

LEMMA CreateAccountKeeps ==
    ASSUME DInv, NEW a \in Admins, CreateAccount(a)
    PROVE  DInv' /\ row' = row
<1> DEFINE q == job[a].who
<1>1. /\ UNCHANGED <<now, row, issued, lastAdmin>> /\ job[a].pc = "create"
      /\ \/ Goto(a, "idle") /\ UNCHANGED <<account, gen, knows, code, granted, mishap>>
         \/ /\ account' = [account EXCEPT ![q] = "temp"]
            /\ knows' = [knows EXCEPT ![q] = TRUE]
            /\ granted' = [granted EXCEPT ![q] = "none"]
            /\ mishap' = [mishap EXCEPT ![q] = {}]
            /\ Goto(a, "permanent")
  BY DEF CreateAccount
<1>2. q \in People
  BY <1>1 DEF DInv, DirectoryTypes
<1>3. Dated' /\ Ending'
  BY <1>1 DEF DInv, Dated, Ending
<1>4. CASE Goto(a, "idle") /\ UNCHANGED <<account, gen, knows, code, granted, mishap>>
  <2>1. /\ job' \in [Admins -> [pc : PCs, by : People \union {"none"},
                                who : People \union {"none"}, role : Roles \union {"none"}]]
        /\ \A b \in Admins : IF job'[b].pc = "idle" THEN job'[b] = NoJob ELSE job'[b].who \in People
        /\ \A b \in Admins \ {a} : job'[b] = job[b]
    BY <1>1, <1>4, NoJobIsIdle, GotoKeeps DEF DInv
  <2>2. DirectoryTypes'
    BY <1>1, <1>4, <2>1 DEF DInv, DirectoryTypes
  <2>3. InOrder'
    BY <1>1, <1>4, <2>1, CreatingKept DEF DInv, InOrder
  <2> QED
    BY <1>1, <1>3, <2>2, <2>3 DEF DInv
<1>5. CASE /\ account' = [account EXCEPT ![q] = "temp"]
           /\ knows' = [knows EXCEPT ![q] = TRUE]
           /\ granted' = [granted EXCEPT ![q] = "none"]
           /\ mishap' = [mishap EXCEPT ![q] = {}]
           /\ Goto(a, "permanent")
  <2>1. /\ job' \in [Admins -> [pc : PCs, by : People \union {"none"},
                                who : People \union {"none"}, role : Roles \union {"none"}]]
        /\ \A b \in Admins : IF job'[b].pc = "idle" THEN job'[b] = NoJob ELSE job'[b].who \in People
        /\ \A b \in Admins \ {a} : job'[b] = job[b]
        /\ job'[a].pc = "permanent" /\ job'[a].who = q
    BY <1>1, <1>5, GotoKeeps DEF DInv, PCs
  <2> HIDE DEF q
  <2>2. DirectoryTypes'
    BY <1>1, <1>2, <1>5, <2>1 DEF DInv, DirectoryTypes
  <2>3. InOrder'
    <3> SUFFICES ASSUME NEW p \in People, account'[p] # "none", mishap'[p] = {}
                 PROVE  knows'[p] /\ (row'[p].role = granted'[p] \/ Creating(p)')
      BY DEF InOrder
    <3>1. CASE p = q
      BY <1>2, <1>5, <2>1, <3>1 DEF DInv, DirectoryTypes, Creating
    <3>2. CASE p # q
      <4>1. account[p] # "none" /\ mishap[p] = {} /\ knows'[p] = knows[p]
            /\ granted'[p] = granted[p] /\ row' = row
        BY <1>1, <1>2, <1>5, <3>2 DEF DInv, DirectoryTypes
      <4> QED
        BY <1>1, <2>1, <4>1, CreatingKept DEF DInv, InOrder
    <3> QED
      BY <3>1, <3>2
  <2> QED
    BY <1>1, <1>3, <2>2, <2>3 DEF DInv
<1> QED
  BY <1>1, <1>4, <1>5

LEMMA SetPasswordKeeps ==
    ASSUME DInv, NEW a \in Admins, SetPassword(a)
    PROVE  DInv' /\ row' = row
<1> DEFINE q == job[a].who
<1>1. /\ UNCHANGED <<now, row, issued, granted, lastAdmin, mishap>>
      /\ job[a].pc \in {"permanent", "password"}
      /\ \/ /\ account[q] # "none"
            /\ account' = [account EXCEPT ![q] = "ok"]
            /\ knows' = [knows EXCEPT ![q] = TRUE]
            /\ Goto(a, IF job[a].pc = "permanent" THEN "put" ELSE "idle")
         \/ account[q] = "none" /\ Goto(a, "idle") /\ UNCHANGED <<account, knows>>
  BY DEF SetPassword, PasswordAccepted, observed
<1>2. q \in People
  BY <1>1 DEF DInv, DirectoryTypes
<1>3. PICK pc \in PCs : /\ Goto(a, pc)
                        /\ account[q] # "none" /\ job[a].pc = "permanent" => pc = "put"
  BY <1>1 DEF PCs
<1>4. /\ job' \in [Admins -> [pc : PCs, by : People \union {"none"},
                              who : People \union {"none"}, role : Roles \union {"none"}]]
      /\ \A b \in Admins : IF job'[b].pc = "idle" THEN job'[b] = NoJob ELSE job'[b].who \in People
      /\ \A b \in Admins \ {a} : job'[b] = job[b]
      /\ job'[a].pc = pc /\ (pc # "idle" => job'[a].who = q)
  BY <1>1, <1>3, GotoKeeps DEF DInv
<1> HIDE DEF q
<1>5. /\ account' \in [People -> {"none", "temp", "ok"}] /\ knows' \in [People -> BOOLEAN]
      /\ \A p \in People : account'[p] # "none" => account[p] # "none" /\ (knows[p] => knows'[p])
  <2>1. account \in [People -> {"none", "temp", "ok"}] /\ knows \in [People -> BOOLEAN]
    BY DEF DInv, DirectoryTypes
  <2>2. CASE /\ account[q] # "none" /\ account' = [account EXCEPT ![q] = "ok"]
             /\ knows' = [knows EXCEPT ![q] = TRUE]
    BY <1>2, <2>1, <2>2
  <2>3. CASE UNCHANGED <<account, knows>>
    BY <2>1, <2>3
  <2> QED
    BY <1>1, <2>2, <2>3 DEF q
<1>6. DirectoryTypes'
  BY <1>1, <1>4, <1>5 DEF DInv, DirectoryTypes
<1>7. Dated' /\ Ending'
  BY <1>1 DEF DInv, Dated, Ending
<1>8. InOrder'
  <2> SUFFICES ASSUME NEW p \in People, account'[p] # "none", mishap'[p] = {}
               PROVE  knows'[p] /\ (row'[p].role = granted'[p] \/ Creating(p)')
    BY DEF InOrder
  <2>1. account[p] # "none" /\ (knows[p] => knows'[p])
    BY <1>5
  <2>2. knows[p] /\ (row[p].role = granted[p] \/ Creating(p))
    BY <1>1, <2>1 DEF DInv, InOrder
  <2>3. \/ job[a].pc \notin {"permanent", "put"} \/ job[a].who # p
        \/ job'[a].who = job[a].who /\ job'[a].pc \in {"permanent", "put"}
    BY <1>1, <1>3, <1>4, <2>1 DEF q
  <2>4. Creating(p) => Creating(p)'
    BY <1>4, <2>3, CreatingKept
  <2> QED
    BY <1>1, <2>1, <2>2, <2>4
<1> QED
  BY <1>1, <1>6, <1>7, <1>8 DEF DInv

(* A role is written: the item has it, and so has granted, of an account.  *)
LEMMA GrantKeeps ==
    ASSUME DInv, NEW a \in Admins, job[a].pc \in {"put", "update"},
           UNCHANGED <<now, account, gen, knows, code, issued, mishap>>,
           NEW item \in Items, item.role = job[a].role, row' = [row EXCEPT ![job[a].who] = item],
           Grant(job[a].who, job[a].role), Goto(a, "idle")
    PROVE  DInv'
<1> DEFINE q == job[a].who
           r == job[a].role
<1>1. q \in People /\ r \in Roles \union {"none"}
  BY DEF DInv, DirectoryTypes
<1>2. /\ job' \in [Admins -> [pc : PCs, by : People \union {"none"},
                              who : People \union {"none"}, role : Roles \union {"none"}]]
      /\ \A b \in Admins : IF job'[b].pc = "idle" THEN job'[b] = NoJob ELSE job'[b].who \in People
      /\ \A b \in Admins \ {a} : job'[b] = job[b]
  BY NoJobIsIdle, GotoKeeps DEF DInv
<1>3. /\ granted' = [granted EXCEPT ![q] = IF account[q] = "none" THEN granted[q] ELSE r]
      /\ lastAdmin' = [lastAdmin EXCEPT ![q] = IF r = "admin" THEN now ELSE lastAdmin[q]]
      /\ row' = [row EXCEPT ![q] = item] /\ item.role = r
  BY DEF Grant
<1>4. job[a].who = q
  OBVIOUS
<1> HIDE DEF q, r
<1>5. /\ row' \in [People -> Items] /\ row'[q].role = r
      /\ \A p \in People \ {q} : row'[p] = row[p]
  BY <1>1, <1>3 DEF DInv, DirectoryTypes
<1>6. /\ granted' \in [People -> Roles \union {"none"}]
      /\ account[q] # "none" => granted'[q] = r
      /\ \A p \in People \ {q} : granted'[p] = granted[p]
  BY <1>1, <1>3 DEF DInv, DirectoryTypes
<1>7. /\ lastAdmin' \in [People -> Nat]
      /\ lastAdmin'[q] = IF r = "admin" THEN now ELSE lastAdmin[q]
      /\ \A p \in People \ {q} : lastAdmin'[p] = lastAdmin[p]
  BY <1>1, <1>3 DEF DInv, DirectoryTypes
<1>8. DirectoryTypes'
  BY <1>2, <1>5, <1>6, <1>7 DEF DInv, DirectoryTypes
<1>9. Dated'
  <2>1. now \in Nat
    BY DEF DInv, DirectoryTypes
  <2> QED
    BY <1>1, <1>5, <1>7, <2>1 DEF DInv, Dated
<1>10. Ending'
  <2> SUFFICES ASSUME NEW t \in issued, t.role = "admin" PROVE t.exp <= lastAdmin'[t.who] + Life
    BY DEF Ending
  <2>1. t.who \in People /\ t.exp \in Nat
    BY DEF DInv, DirectoryTypes, Tokens
  <2>2. t.exp <= lastAdmin[t.who] + Life
    BY DEF DInv, Ending
  <2>3. lastAdmin[t.who] <= lastAdmin'[t.who]
    BY <1>7, <2>1 DEF DInv, DirectoryTypes, Dated
  <2>4. lastAdmin[t.who] \in Nat /\ lastAdmin'[t.who] \in Nat /\ Life \in Nat
    BY <1>7, <2>1, DirectoryAssumption DEF DInv, DirectoryTypes
  <2> QED
    BY <2>1, <2>2, <2>3, <2>4
<1>11. InOrder'
  <2> SUFFICES ASSUME NEW p \in People, account[p] # "none", mishap[p] = {}
               PROVE  knows[p] /\ (row'[p].role = granted'[p] \/ Creating(p)')
    BY DEF InOrder
  <2>1. knows[p] /\ (row[p].role = granted[p] \/ Creating(p))
    BY DEF DInv, InOrder
  <2>2. CASE p = q
    BY <1>5, <1>6, <2>1, <2>2
  <2>3. CASE p # q
    BY <1>2, <1>4, <1>5, <1>6, <2>1, <2>3, CreatingKept
  <2> QED
    BY <2>2, <2>3
<1> QED
  BY <1>8, <1>9, <1>10, <1>11 DEF DInv

LEMMA PutOrUpdateKeeps ==
    ASSUME DInv, NEW a \in Admins, PutRow(a) \/ UpdateRow(a)
    PROVE  DInv'
<1> DEFINE q == job[a].who
           r == job[a].role
<1>1. q \in People /\ r \in Roles \union {"none"} /\ row[q] \in Items
  BY DEF PutRow, UpdateRow, DInv, DirectoryTypes
<1>2. PICK item \in {[role |-> r, alerts |-> "none"], [row[q] EXCEPT !.role = r]} :
          row' = [row EXCEPT ![q] = item]
  BY DEF PutRow, UpdateRow
<1>3. item \in Items /\ item.role = r
  <2>1. CASE item = [role |-> r, alerts |-> "none"]
    BY <1>1, <2>1 DEF Items
  <2>2. CASE item = [row[q] EXCEPT !.role = r]
    BY <1>1, <2>2 DEF Items
  <2> QED
    BY <1>2, <2>1, <2>2
<1>4. /\ job[a].pc \in {"put", "update"} /\ Grant(q, r) /\ Goto(a, "idle")
      /\ UNCHANGED <<now, account, gen, knows, code, issued, mishap>>
  BY DEF PutRow, UpdateRow, pool
<1> QED
  BY <1>2, <1>3, <1>4, GrantKeeps

LEMMA DeleteAccountKeeps ==
    ASSUME DInv, NEW a \in Admins, DeleteAccount(a)
    PROVE  DInv' /\ row' = row
<1> DEFINE q == job[a].who
<1>1. /\ UNCHANGED <<now, knows, row, issued, granted, lastAdmin, mishap>> /\ job[a].pc = "delete"
      /\ account' = [account EXCEPT ![q] = "none"]
      /\ \E pc \in {"idle", "deleterow"} : Goto(a, pc)
  BY DEF DeleteAccount, observed
<1>2. q \in People
  BY <1>1 DEF DInv, DirectoryTypes
<1>3. /\ job' \in [Admins -> [pc : PCs, by : People \union {"none"},
                              who : People \union {"none"}, role : Roles \union {"none"}]]
      /\ \A b \in Admins : IF job'[b].pc = "idle" THEN job'[b] = NoJob ELSE job'[b].who \in People
      /\ \A b \in Admins \ {a} : job'[b] = job[b]
  BY <1>1, GotoKeeps DEF DInv, PCs
<1> HIDE DEF q
<1>4. /\ account' \in [People -> {"none", "temp", "ok"}]
      /\ \A p \in People : account'[p] # "none" => account[p] # "none"
  BY <1>1, <1>2 DEF DInv, DirectoryTypes
<1>5. DirectoryTypes'
  BY <1>1, <1>3, <1>4 DEF DInv, DirectoryTypes
<1>6. Dated' /\ Ending'
  BY <1>1 DEF DInv, Dated, Ending
<1>7. InOrder'
  BY <1>1, <1>3, <1>4, CreatingKept DEF DInv, InOrder
<1> QED
  BY <1>1, <1>5, <1>6, <1>7 DEF DInv

LEMMA DeleteRowKeeps ==
    ASSUME DInv, NEW a \in Admins, DeleteRow(a)
    PROVE  DInv'
<1> DEFINE q == job[a].who
           marks == IF account[q] = "none" THEN mishap[q] ELSE mishap[q] \union {"swept"}
<1>1. /\ UNCHANGED <<now, pool, issued, granted, lastAdmin>> /\ job[a].pc = "deleterow"
      /\ row' = [row EXCEPT ![q] = NoRow] /\ mishap' = [mishap EXCEPT ![q] = marks]
      /\ Goto(a, "idle")
  BY DEF DeleteRow
<1>2. q \in People /\ mishap[q] \in SUBSET {"swept", "stopped", "unanswered"}
  BY <1>1 DEF DInv, DirectoryTypes
<1>3. /\ job' \in [Admins -> [pc : PCs, by : People \union {"none"},
                              who : People \union {"none"}, role : Roles \union {"none"}]]
      /\ \A b \in Admins : IF job'[b].pc = "idle" THEN job'[b] = NoJob ELSE job'[b].who \in People
      /\ \A b \in Admins \ {a} : job'[b] = job[b]
  BY <1>1, NoJobIsIdle, GotoKeeps DEF DInv
<1>4. /\ marks \in SUBSET {"swept", "stopped", "unanswered"}
      /\ account[q] # "none" => marks # {}
  BY <1>2
<1>5. NoRow \in Items /\ NoRow.role # "admin"
  BY DEF NoRow, Items
<1> HIDE DEF q, marks
<1>6. /\ row' \in [People -> Items] /\ row'[q] = NoRow
      /\ \A p \in People \ {q} : row'[p] = row[p]
  BY <1>1, <1>2, <1>5 DEF DInv, DirectoryTypes
<1>7. /\ mishap' \in [People -> SUBSET {"swept", "stopped", "unanswered"}] /\ mishap'[q] = marks
      /\ \A p \in People \ {q} : mishap'[p] = mishap[p]
  BY <1>1, <1>2, <1>4 DEF DInv, DirectoryTypes
<1>8. DirectoryTypes'
  BY <1>1, <1>3, <1>6, <1>7 DEF DInv, DirectoryTypes, pool
<1>9. Dated' /\ Ending'
  BY <1>1, <1>5, <1>6 DEF DInv, Dated, Ending
<1>10. InOrder'
  <2> SUFFICES ASSUME NEW p \in People, account[p] # "none", mishap'[p] = {}
               PROVE  knows[p] /\ (row'[p].role = granted[p] \/ Creating(p)')
    BY <1>1 DEF InOrder, pool
  <2>1. p # q
    BY <1>4, <1>7
  <2>2. knows[p] /\ (row[p].role = granted[p] \/ Creating(p))
    BY <1>7, <2>1 DEF DInv, InOrder
  <2> QED
    BY <1>1, <1>3, <1>6, <2>1, <2>2, CreatingKept
<1> QED
  BY <1>8, <1>9, <1>10 DEF DInv

(* An operation that stops half way, and a password whose answer is lost,  *)
(* leave their mark on the account.                                        *)
LEMMA FailingKeeps ==
    ASSUME DInv, NEW a \in Admins, FailJob(a) \/ LosePassword(a)
    PROVE  DInv' /\ row' = row
<1> DEFINE q == job[a].who
<1>1. /\ UNCHANGED <<now, row, issued, granted, lastAdmin>> /\ job[a].pc # "idle"
      /\ \E m \in {"stopped", "unanswered"} : mishap' = [mishap EXCEPT ![q] = @ \union {m}]
      /\ Goto(a, "idle")
  BY DEF FailJob, LosePassword, DInv, DirectoryTypes
<1>2. /\ account' = account \/ account' = [account EXCEPT ![q] = "ok"]
      /\ knows' = knows \/ knows' = [knows EXCEPT ![q] = FALSE]
      /\ account' = account \/ account[q] # "none"
  BY DEF FailJob, LosePassword, pool, PasswordAccepted
<1>3. q \in People
  BY <1>1 DEF DInv, DirectoryTypes
<1>4. /\ job' \in [Admins -> [pc : PCs, by : People \union {"none"},
                              who : People \union {"none"}, role : Roles \union {"none"}]]
      /\ \A b \in Admins : IF job'[b].pc = "idle" THEN job'[b] = NoJob ELSE job'[b].who \in People
      /\ \A b \in Admins \ {a} : job'[b] = job[b]
  BY <1>1, NoJobIsIdle, GotoKeeps DEF DInv
<1>5. job[a].who = q
  OBVIOUS
<1> HIDE DEF q
<1>6. /\ account' \in [People -> {"none", "temp", "ok"}]
      /\ \A p \in People \ {q} : account'[p] = account[p]
  BY <1>2, <1>3 DEF DInv, DirectoryTypes
<1>7. knows' \in [People -> BOOLEAN] /\ \A p \in People \ {q} : knows'[p] = knows[p]
  BY <1>2, <1>3 DEF DInv, DirectoryTypes
<1>8. /\ mishap' \in [People -> SUBSET {"swept", "stopped", "unanswered"}] /\ mishap'[q] # {}
      /\ \A p \in People \ {q} : mishap'[p] = mishap[p]
  BY <1>1, <1>3 DEF DInv, DirectoryTypes
<1>9. DirectoryTypes'
  BY <1>1, <1>4, <1>6, <1>7, <1>8 DEF DInv, DirectoryTypes
<1>10. Dated' /\ Ending'
  BY <1>1 DEF DInv, Dated, Ending
<1>11. InOrder'
  <2> SUFFICES ASSUME NEW p \in People, account'[p] # "none", mishap'[p] = {}
               PROVE  knows'[p] /\ (row'[p].role = granted'[p] \/ Creating(p)')
    BY DEF InOrder
  <2>1. p # q
    BY <1>8
  <2>2. knows[p] /\ (row[p].role = granted[p] \/ Creating(p))
    BY <1>6, <1>8, <2>1 DEF DInv, InOrder
  <2> QED
    BY <1>1, <1>4, <1>5, <1>7, <2>1, <2>2, CreatingKept
<1> QED
  BY <1>1, <1>9, <1>10, <1>11 DEF DInv

LEMMA ForgottenPasswordKeeps ==
    ASSUME DInv, NEW p \in People, SendCode(p) \/ ResetPassword(p)
    PROVE  DInv' /\ UNCHANGED <<row, job>>
<1>1. /\ UNCHANGED <<now, account, row, issued, job, granted, lastAdmin, mishap>>
      /\ knows' = knows \/ knows' = [knows EXCEPT ![p] = TRUE]
  BY DEF SendCode, ResetPassword, observed
<1>2. knows' \in [People -> BOOLEAN] /\ \A q \in People : knows[q] => knows'[q]
  BY <1>1 DEF DInv, DirectoryTypes
<1>3. DirectoryTypes'
  BY <1>1, <1>2 DEF DInv, DirectoryTypes
<1>4. Dated' /\ Ending' /\ InOrder'
  BY <1>1, <1>2 DEF DInv, Dated, Ending, InOrder, Creating
<1> QED
  BY <1>1, <1>3, <1>4 DEF DInv

LEMMA TickKeeps ==
    ASSUME DInv, Tick
    PROVE  DInv' /\ UNCHANGED <<row, job>>
<1>1. /\ UNCHANGED <<account, knows, row, issued, job, granted, mishap>> /\ now' = now + 1
      /\ lastAdmin' = [p \in People |-> IF row[p].role = "admin" THEN now + 1 ELSE lastAdmin[p]]
  BY DEF Tick
<1>2. now \in Nat /\ lastAdmin \in [People -> Nat] /\ Life \in Nat
  BY DirectoryAssumption DEF DInv, DirectoryTypes
<1>3. lastAdmin' \in [People -> Nat]
      /\ \A p \in People : lastAdmin'[p] = IF row[p].role = "admin" THEN now + 1 ELSE lastAdmin[p]
  BY <1>1, <1>2
<1>4. DirectoryTypes'
  BY <1>1, <1>2, <1>3 DEF DInv, DirectoryTypes
<1>5. Dated'
  BY <1>1, <1>2, <1>3 DEF DInv, Dated
<1>6. Ending'
  <2> SUFFICES ASSUME NEW t \in issued, t.role = "admin" PROVE t.exp <= lastAdmin'[t.who] + Life
    BY <1>1 DEF Ending
  <2>1. t.who \in People /\ t.exp \in Nat
    BY DEF DInv, DirectoryTypes, Tokens
  <2>2. t.exp <= lastAdmin[t.who] + Life /\ lastAdmin[t.who] <= now
    BY <2>1 DEF DInv, Ending, Dated
  <2>3. lastAdmin[t.who] <= lastAdmin'[t.who] /\ lastAdmin[t.who] \in Nat /\ lastAdmin'[t.who] \in Nat
    BY <1>2, <1>3, <2>1, <2>2
  <2> QED
    BY <1>2, <2>1, <2>2, <2>3
<1>7. InOrder'
  BY <1>1 DEF DInv, InOrder, Creating
<1> QED
  BY <1>1, <1>4, <1>5, <1>6, <1>7 DEF DInv

(* What the tab does to the directory: it is given tokens, and stores the  *)
(* preference of a person.                                                 *)
LEMMA RoleProperties ==
    ASSUME DInv, NEW p \in People
    PROVE  /\ RoleOf(p) \in Roles /\ "eu" \in Roles
           /\ RoleOf(p) = "admin" => row[p].role = "admin"
BY DirectoryAssumption DEF DInv, DirectoryTypes, Items, RoleOf

LEMMA MintKeeps ==
    ASSUME DInv, UNCHANGED <<now, pool, row, job, observed>>,
           \A t \in issued' \ issued :
               \E p \in People, r \in Roles : t = Token(p, r) /\ r \in {RoleOf(p), "eu"}
    PROVE  DInv'
<1>1. now \in Nat /\ Life \in Nat /\ now + Life \in Nat
  BY DirectoryAssumption DEF DInv, DirectoryTypes
<1>2. ASSUME NEW t \in issued' \ issued
      PROVE  t \in Tokens /\ (t.role = "admin" => t.exp <= lastAdmin[t.who] + Life)
  <2>1. PICK p \in People, r \in Roles : t = Token(p, r) /\ r \in {RoleOf(p), "eu"}
    BY <1>2
  <2>2. t.who = p /\ t.role = r /\ t.exp = now + Life /\ t \in Tokens
    BY <1>1, <2>1 DEF Token, Tokens
  <2>3. r = "admin" => lastAdmin[p] = now
    BY <2>1, RoleProperties DEF DInv, Dated
  <2> QED
    BY <1>1, <2>2, <2>3
<1>3. DirectoryTypes'
  BY <1>2 DEF DInv, DirectoryTypes, pool, observed
<1>4. Ending'
  BY <1>2 DEF DInv, Ending, observed
<1>5. Dated' /\ InOrder'
  BY DEF DInv, Dated, InOrder, Creating, pool, observed
<1> QED
  BY <1>3, <1>4, <1>5 DEF DInv

LEMMA PreferKeeps ==
    ASSUME DInv, UNCHANGED <<now, pool, issued, job, observed>>,
           \/ row' = row
           \/ \E p \in People, pref \in {"on", "off"} : row' = [row EXCEPT ![p].alerts = pref]
    PROVE  DInv'
<1>1. row \in [People -> Items]
  BY DEF DInv, DirectoryTypes
<1>2. row' \in [People -> Items] /\ \A p \in People : row'[p].role = row[p].role
  <2>1. CASE row' = row
    BY <1>1, <2>1
  <2>2. ASSUME NEW p \in People, NEW pref \in {"on", "off"}, row' = [row EXCEPT ![p].alerts = pref]
        PROVE  row' \in [People -> Items] /\ \A q \in People : row'[q].role = row[q].role
    <3>1. row[p] \in Items
      BY <1>1
    <3> DEFINE new == [row[p] EXCEPT !.alerts = pref]
    <3>2. new \in Items /\ new.role = row[p].role
      BY <3>1 DEF Items
    <3>3. row' = [row EXCEPT ![p] = new]
      BY <2>2
    <3> HIDE DEF new
    <3> QED
      BY <1>1, <3>2, <3>3
  <2> QED
    BY <2>1, <2>2
<1>3. DirectoryTypes'
  BY <1>2 DEF DInv, DirectoryTypes, pool, observed
<1>4. Dated' /\ Ending' /\ InOrder'
  BY <1>2 DEF DInv, Dated, Ending, InOrder, Creating, pool, observed
<1> QED
  BY <1>3, <1>4 DEF DInv

(* Whoever begins an operation was an admin at most a life ago.            *)
Begins == \A a \in Admins : job[a] = NoJob /\ job'[a] # NoJob => now - lastAdmin[job'[a].by] <= Life

LEMMA NobodyBegins ==
    ASSUME DInv, NEW a \in Admins, job[a].pc # "idle", \A b \in Admins \ {a} : job'[b] = job[b]
    PROVE  Begins
BY NoJobIsIdle DEF Begins

LEMMA DirectoryKeeps ==
    ASSUME DInv, DirectoryNext
    PROVE  DInv' /\ Begins
<1>1. CASE \E a \in Admins, t \in issued, q \in People :
              \/ \E r \in Roles, pc \in {"create", "update"} : Begin(a, t, pc, q, r)
              \/ \E pc \in {"delete", "password"} : Begin(a, t, pc, q, "none")
  <2>1. PICK a \in Admins, t \in issued, q \in People,
             pc \in {"create", "update", "delete", "password"}, r \in Roles \union {"none"} :
                 Begin(a, t, pc, q, r)
    BY <1>1
  <2>2. /\ DInv' /\ job[a] = NoJob /\ job'[a].by = t.who
        /\ now <= lastAdmin[t.who] + Life /\ t.who \in People
        /\ \A b \in Admins \ {a} : job'[b] = job[b]
    BY <2>1, BeginKeeps
  <2>3. now \in Nat /\ lastAdmin[t.who] \in Nat /\ Life \in Nat
    BY <2>2, DirectoryAssumption DEF DInv, DirectoryTypes
  <2>4. now - lastAdmin[job'[a].by] <= Life
    BY <2>2, <2>3
  <2> QED
    BY <2>2, <2>4 DEF Begins
<1>2. CASE \E a \in Admins :
              \/ CreateAccount(a) \/ SetPassword(a) \/ PutRow(a) \/ UpdateRow(a)
              \/ DeleteAccount(a) \/ DeleteRow(a) \/ FailJob(a) \/ LosePassword(a)
  <2>1. PICK a \in Admins :
            \/ CreateAccount(a) \/ SetPassword(a) \/ PutRow(a) \/ UpdateRow(a)
            \/ DeleteAccount(a) \/ DeleteRow(a) \/ FailJob(a) \/ LosePassword(a)
    BY <1>2
  <2>2. DInv'
    BY <2>1, CreateAccountKeeps, SetPasswordKeeps, PutOrUpdateKeeps, DeleteAccountKeeps,
       DeleteRowKeeps, FailingKeeps
  <2>3. job[a].pc # "idle"
    BY <2>1 DEF CreateAccount, SetPassword, PutRow, UpdateRow, DeleteAccount, DeleteRow, FailJob,
                LosePassword, DInv, DirectoryTypes
  <2>4. PICK pc \in PCs : Goto(a, pc)
    BY <2>1 DEF CreateAccount, SetPassword, PutRow, UpdateRow, DeleteAccount, DeleteRow, FailJob,
                LosePassword, PCs
  <2>5. \A b \in Admins \ {a} : job'[b] = job[b]
    BY <2>3, <2>4, GotoKeeps DEF DInv
  <2> QED
    BY <2>2, <2>3, <2>5, NobodyBegins
<1>3. CASE \E p \in People : SendCode(p) \/ ResetPassword(p)
  BY <1>3, ForgottenPasswordKeeps DEF Begins
<1> QED
  BY <1>1, <1>2, <1>3 DEF DirectoryNext

LEMMA DirectoryStart == DirectoryInit => DInv
<1> SUFFICES ASSUME DirectoryInit PROVE DInv
  OBVIOUS
<1>1. row = [p \in People |-> IF p \in DOMAIN Staff THEN [role |-> Staff[p], alerts |-> "none"]
                              ELSE NoRow]
  BY DEF DirectoryInit
<1>2. row \in [People -> Items]
  <2>1. \A p \in DOMAIN Staff : [role |-> Staff[p], alerts |-> "none"] \in Items
    BY DirectoryAssumption DEF Items
  <2>2. NoRow \in Items
    BY DEF NoRow, Items
  <2> QED
    BY <1>1, <2>1, <2>2
<1>3. NoJob \in [pc : PCs, by : People \union {"none"}, who : People \union {"none"},
                 role : Roles \union {"none"}] /\ NoJob.pc = "idle"
  BY DEF NoJob, PCs
<1>4. granted = [p \in People |-> row[p].role] /\ granted \in [People -> Roles \union {"none"}]
  <2>1. granted = [p \in People |-> row[p].role]
    BY DEF DirectoryInit
  <2>2. \A p \in People : row[p].role \in Roles \union {"none"}
    BY <1>2 DEF Items
  <2> QED
    BY <2>1, <2>2
<1>5. DirectoryTypes
  <2>1. account \in [People -> {"none", "temp", "ok"}] /\ knows \in [People -> BOOLEAN] /\ now \in Nat
    BY DEF DirectoryInit
  <2>2. lastAdmin \in [People -> Nat]
        /\ mishap \in [People -> SUBSET {"swept", "stopped", "unanswered"}] /\ issued = {}
    BY DEF DirectoryInit
  <2>3. job = [a \in Admins |-> NoJob]
    BY DEF DirectoryInit
  <2> QED
    BY <1>2, <1>3, <1>4, <2>1, <2>2, <2>3 DEF DirectoryTypes
<1>6. Dated /\ Ending
  BY DEF DirectoryInit, Dated, Ending
<1>7. InOrder
  <2>1. \A p \in People : knows[p]
    BY DEF DirectoryInit
  <2> QED
    BY <1>4, <2>1 DEF InOrder
<1> QED
  BY <1>5, <1>6, <1>7 DEF DInv

-----------------------------------------------------------------------------
(* The inductive invariant of the tab.                                     *)

Answers == [status : {0, 200, 401, 500}, who : People \union {"none"}, on : BOOLEAN]
CallRecords ==
    [pc : {"idle", "sent", "refresh", "resent"}, kind : {"none", "read", "save"}, on : BOOLEAN,
     session : Nat, answer : Answers, fresh : Tokens \union {NoToken}]

TabTypes ==
    /\ user \in People \union {"none"} /\ real \in Roles \union {"none"} /\ role \in Roles
    /\ token \in Tokens \union {NoToken}
    /\ data \in [who : People \union {"none"}, on : BOOLEAN]
    /\ calls \in [Calls -> CallRecords]
    /\ store.real \in Roles \union {"none"} /\ store.role \in Roles \union {"none"}
    /\ DOMAIN store = {"user", "real", "role", "rt"}
    /\ session \in Nat /\ crossed \in BOOLEAN /\ behind \in BOOLEAN

(* The refresh token and the stored session are those of the user, also    *)
(* when a late answer was taken; a call of this session is of somebody     *)
(* signed in, and no call is of a later session.                           *)
SignedIn ==
    /\ store.rt = rt
    /\ IF user = "none" THEN rt = NoRt
       ELSE /\ rt # NoRt /\ rt.who = user /\ store.user = user
            /\ real # "none" /\ store.real # "none"
            /\ role = real \/ real = "admin"
    /\ \A c \in Calls :
           /\ calls[c].session <= session
           /\ Mine(c) => user # "none"
           /\ calls[c].pc # "idle" => calls[c].kind # "none"

(* Until a late answer is taken, everything in the tab, and everything its *)
(* calls bring, is of the user.                                            *)
Own ==
    ~crossed =>
        /\ data # NoData => user # "none" /\ data.who = user
        /\ user # "none" /\ token # NoToken => token.who = user /\ real = token.role
        /\ \A c \in Calls :
               Mine(c) => /\ calls[c].answer.status = 200 => calls[c].answer.who = user
                          /\ calls[c].fresh # NoToken => calls[c].fresh.who = user

(* A read that will show what is stored, unless that changes meanwhile.    *)
Helps(c) ==
    /\ Mine(c) /\ calls[c].kind = "read"
    /\ \/ calls[c].pc = "sent" /\ calls[c].answer.status \in {200, 401}
       \/ calls[c].pc = "refresh"
       \/ calls[c].pc = "resent" /\ calls[c].answer.status = 200

Stored == row[user].alerts = "on"

(* One save at a time; what the calls of this session bring is what is     *)
(* stored, and what the switch shows is that, or a save or a read that     *)
(* will put it right is under way.                                         *)
OneSave ==
    \A c, d \in Calls :
        Mine(c) /\ Mine(d) /\ calls[c].kind = "save" /\ calls[d].kind = "save" => c = d

Fresh ==
    user # "none" /\ ~crossed /\ ~behind =>
        /\ \A c \in Calls : Mine(c) /\ calls[c].answer.status = 200 => calls[c].answer.on = Stored
        /\ data = NoData \/ data.on = Stored \/ Saving \/ \E c \in Calls : Helps(c)

TInv == TabTypes /\ SignedIn /\ Own /\ OneSave /\ Fresh

IInv == DInv /\ TInv

-----------------------------------------------------------------------------
(* Lemmas about the calls of the tab.                                      *)

LEMMA NothingProperties ==
    /\ NoCall \in CallRecords /\ NoCall.pc = "idle" /\ NoCall.session = 0
    /\ NoData \in [who : People \union {"none"}, on : BOOLEAN]
    /\ NoToken.who = "none" /\ NoToken \notin Tokens
    /\ NoAnswer \in Answers
<1>1. NoAnswer \in Answers
  BY DEF NoAnswer, Answers
<1>2. NoCall \in CallRecords /\ NoCall.pc = "idle" /\ NoCall.session = 0
  BY <1>1 DEF NoCall, CallRecords
<1>3. NoToken.who = "none" /\ NoToken \notin Tokens
  BY DirectoryAssumption DEF NoToken, Tokens
<1>4. NoData \in [who : People \union {"none"}, on : BOOLEAN]
  BY DEF NoData
<1> QED
  BY <1>1, <1>2, <1>3, <1>4

(* An answer 200 is of the person the token names, and of what is stored   *)
(* once the request was served.                                            *)
LEMMA AnswerProperties ==
    ASSUME DInv, NEW t \in Tokens \union {NoToken}, NEW kind \in {"read", "save"},
           NEW on \in BOOLEAN
    PROVE  LET a == Answer(t, kind, on)
               after == Effect(t, kind, on)
           IN  /\ a \in Answers /\ a.status \in {200, 401}
               /\ a.status = 200 <=> t # NoToken /\ Valid(t)
               /\ a.status = 200 => a.who = t.who /\ a.on = (after[t.who].alerts = "on")
               /\ kind = "read" => after = row
               /\ \/ after = row
                  \/ t # NoToken /\ \E pref \in {"on", "off"} : after = [row EXCEPT ![t.who].alerts = pref]
<1>1. row \in [People -> Items]
  BY DEF DInv, DirectoryTypes
<1>2. CASE ~Authorized(t)
  BY <1>2 DEF Answer, Effect, Authorized, Answers
<1>3. CASE Authorized(t)
  <2>1. t \in Tokens /\ t.who \in People /\ t # NoToken /\ Valid(t)
    BY <1>3 DEF Authorized, Tokens
  <2>2. CASE kind = "read"
    <3>1. /\ Answer(t, kind, on) = [status |-> 200, who |-> t.who, on |-> row[t.who].alerts = "on"]
          /\ Effect(t, kind, on) = row
      BY <1>3, <2>2 DEF Answer, Effect
    <3>2. (row[t.who].alerts = "on") \in BOOLEAN
      OBVIOUS
    <3> QED
      BY <2>1, <3>1, <3>2 DEF Answers
  <2>3. CASE kind = "save"
    <3> DEFINE pref == IF on THEN "on" ELSE "off"
    <3>1. /\ Answer(t, kind, on) = [status |-> 200, who |-> t.who, on |-> on]
          /\ Effect(t, kind, on) = [row EXCEPT ![t.who].alerts = pref]
      BY <1>3, <2>3 DEF Answer, Effect
    <3>2. pref \in {"on", "off"} /\ (pref = "on") = on
      OBVIOUS
    <3> HIDE DEF pref
    <3>3. Effect(t, kind, on)[t.who].alerts = pref
      BY <1>1, <2>1, <3>1 DEF Items
    <3> QED
      BY <2>1, <2>3, <3>1, <3>2, <3>3 DEF Answers
  <2> QED
    BY <2>2, <2>3
<1> QED
  BY <1>2, <1>3

(* What a request sent with token t leaves, whatever became of it.         *)
Sent(others, c, pc, kind, s, t, fate) ==
    /\ calls' \in [Calls -> CallRecords]
    /\ \A d \in Calls \ {c} : calls'[d] = others[d]
    /\ calls'[c].pc = pc /\ calls'[c].kind = kind /\ calls'[c].session = s
    /\ calls'[c].fresh = NoToken
    /\ calls'[c].answer.status = 200 =>
          /\ t # NoToken /\ t \in Tokens
          /\ calls'[c].answer.who = t.who
          /\ calls'[c].answer.on = (row'[t.who].alerts = "on")
    /\ fate = "served" =>
          /\ calls'[c].answer.status \in {200, 401}
          /\ t # NoToken /\ Valid(t) => calls'[c].answer.status = 200
    /\ kind = "read" => row' = row
    /\ \/ row' = row
       \/ t # NoToken /\ \E pref \in {"on", "off"} : row' = [row EXCEPT ![t.who].alerts = pref]

LEMMA SendProperties ==
    ASSUME DInv, NEW c \in Calls, NEW others \in [Calls -> CallRecords],
           NEW pc \in {"sent", "resent"}, NEW kind \in {"read", "save"}, NEW on \in BOOLEAN,
           NEW s \in Nat, NEW t \in Tokens \union {NoToken}, NEW fate \in Fates,
           SendOver(others, c, pc, kind, on, s, t, fate)
    PROVE  Sent(others, c, pc, kind, s, t, fate)
<1> DEFINE a == Answer(t, kind, on)
           after == Effect(t, kind, on)
           answer == IF fate = "served" THEN a ELSE [NoAnswer EXCEPT !.status = 500]
           new == [pc |-> pc, kind |-> kind, on |-> on, session |-> s, fresh |-> NoToken,
                   answer |-> answer]
<1>1. /\ a \in Answers /\ a.status \in {200, 401}
      /\ a.status = 200 <=> t # NoToken /\ Valid(t)
      /\ a.status = 200 => a.who = t.who /\ a.on = (after[t.who].alerts = "on")
      /\ kind = "read" => after = row
      /\ \/ after = row
         \/ t # NoToken /\ \E pref \in {"on", "off"} : after = [row EXCEPT ![t.who].alerts = pref]
  BY AnswerProperties
<1>2. /\ row' = IF fate = "lost" THEN row ELSE after
      /\ calls' = [others EXCEPT ![c] = new]
  BY DEF SendOver
<1> HIDE DEF a, after
<1>3. [NoAnswer EXCEPT !.status = 500] \in Answers /\ [NoAnswer EXCEPT !.status = 500].status # 200
  <2>1. NoAnswer \in Answers
    BY NothingProperties
  <2>2. 500 \in {0, 200, 401, 500} /\ 500 # 200
    OBVIOUS
  <2> QED
    BY <2>1, <2>2 DEF Answers
<1>4. answer \in Answers /\ (answer.status = 200 => fate = "served") /\ (fate = "served" => answer = a)
  BY <1>1, <1>3
<1> HIDE DEF answer
<1>5. new \in CallRecords
  BY <1>4 DEF CallRecords
<1>6. /\ new.pc = pc /\ new.kind = kind /\ new.session = s /\ new.fresh = NoToken
      /\ new.answer = answer
  OBVIOUS
<1> HIDE DEF new
<1>7. calls'[c] = new /\ calls' \in [Calls -> CallRecords] /\ \A d \in Calls \ {c} : calls'[d] = others[d]
  BY <1>2, <1>5
<1>8. fate = "served" => row' = after
  BY <1>2
<1>9. row' = row \/ row' = after
  BY <1>2
<1>10. new.answer.status = 200 =>
         /\ t # NoToken /\ t \in Tokens
         /\ new.answer.who = t.who
         /\ new.answer.on = (row'[t.who].alerts = "on")
  BY <1>1, <1>4, <1>6, <1>8
<1>11. fate = "served" => /\ new.answer.status \in {200, 401}
                          /\ t # NoToken /\ Valid(t) => new.answer.status = 200
  BY <1>1, <1>4, <1>6
<1>12. kind = "read" => row' = row
  BY <1>1, <1>9
<1>13. \/ row' = row
       \/ t # NoToken /\ \E pref \in {"on", "off"} : row' = [row EXCEPT ![t.who].alerts = pref]
  BY <1>1, <1>9
<1> QED
  BY <1>6, <1>7, <1>10, <1>11, <1>12, <1>13 DEF Sent

(* A request of a person leaves everybody else's preference alone, and the *)
(* directory in order.                                                     *)
LEMMA RequestKeeps ==
    ASSUME DInv, UNCHANGED <<now, pool, issued, job, observed>>,
           NEW t \in Tokens \union {NoToken},
           \/ row' = row
           \/ t # NoToken /\ \E pref \in {"on", "off"} : row' = [row EXCEPT ![t.who].alerts = pref]
    PROVE  DInv'
<1>1. t # NoToken => t.who \in People
  BY DEF Tokens
<1> QED
  BY <1>1, PreferKeeps

-----------------------------------------------------------------------------
(* The tab: one lemma per action.                                          *)

LEMMA ElsewhereKeeps ==
    ASSUME IInv, Elsewhere
    PROVE  IInv'
<1>1. /\ UNCHANGED <<user, real, role, token, rt, data, calls, store, session, crossed>>
      /\ behind' \in BOOLEAN
      /\ ~behind' => ~behind /\ \A p \in People : row'[p].alerts = row[p].alerts
  BY DEF Elsewhere, IInv, TInv, TabTypes
<1>2. DInv'
  BY DirectoryKeeps DEF Elsewhere, IInv
<1>3. \A c \in Calls : (Mine(c)' <=> Mine(c)) /\ (Helps(c)' <=> Helps(c))
  BY <1>1 DEF Mine, Helps
<1>4. TabTypes' /\ SignedIn' /\ Own' /\ OneSave'
  BY <1>1, <1>3 DEF IInv, TInv, TabTypes, SignedIn, Own, OneSave
<1>5. ASSUME user' # "none", ~crossed', ~behind'
      PROVE  Stored' = Stored
  BY <1>1, <1>5 DEF IInv, TInv, TabTypes, Stored
<1>6. Saving' <=> Saving
  BY <1>1, <1>3 DEF Saving
<1>7. Fresh'
  BY <1>1, <1>3, <1>5, <1>6 DEF IInv, TInv, Fresh
<1> QED
  BY <1>2, <1>4, <1>7 DEF IInv, TInv

LEMMA WaitKeeps ==
    ASSUME IInv, Wait
    PROVE  IInv'
<1>1. DInv' /\ row' = row /\ UNCHANGED tab
  BY TickKeeps DEF Wait, IInv
<1>2. \A c \in Calls : (Mine(c)' <=> Mine(c)) /\ (Helps(c)' <=> Helps(c))
  BY <1>1 DEF Mine, Helps, tab
<1>3. TabTypes' /\ SignedIn' /\ Own' /\ OneSave'
  BY <1>1, <1>2 DEF IInv, TInv, TabTypes, SignedIn, Own, OneSave, tab
<1>4. (Saving' <=> Saving) /\ Stored' = Stored
  BY <1>1, <1>2 DEF Saving, Stored, tab
<1>5. Fresh'
  BY <1>1, <1>2, <1>4 DEF IInv, TInv, Fresh, tab
<1> QED
  BY <1>1, <1>3, <1>5 DEF IInv, TInv

(* When a session begins or ends, no call is of the new one.               *)
LEMMA NoneIsMine ==
    ASSUME TInv,
           \/ calls' = calls /\ session' = session + 1
           \/ calls' = [c \in Calls |-> NoCall] /\ session' \in {session, session + 1}
    PROVE  /\ session' \in Nat /\ calls' \in [Calls -> CallRecords]
           /\ \A c \in Calls : /\ ~Mine(c)' /\ calls'[c].session <= session'
                               /\ calls'[c].pc # "idle" => calls'[c].kind # "none"
<1>1. session \in Nat /\ calls \in [Calls -> CallRecords]
      /\ \A c \in Calls : /\ calls[c].session \in Nat /\ calls[c].session <= session
                          /\ calls[c].pc # "idle" => calls[c].kind # "none"
  BY DEF TInv, TabTypes, SignedIn, CallRecords
<1>2. CASE calls' = calls /\ session' = session + 1
  <2>1. \A c \in Calls : calls'[c].session <= session' /\ calls'[c].session # session'
    BY <1>1, <1>2
  <2> QED
    BY <1>1, <1>2, <2>1 DEF Mine
<1>3. CASE calls' = [c \in Calls |-> NoCall] /\ session' \in {session, session + 1}
  <2>1. session' \in Nat /\ 0 <= session'
    BY <1>1, <1>3
  <2> QED
    BY <1>3, <2>1, NothingProperties DEF Mine
<1> QED
  BY <1>2, <1>3

LEMMA NothingToShow ==
    ASSUME \A c \in Calls : ~Mine(c)', data' = NoData \/ crossed'
    PROVE  OneSave' /\ Fresh'
BY DEF OneSave, Fresh

LEMMA LoginKeeps ==
    ASSUME IInv, NEW p \in People, Login(p)
    PROVE  IInv'
<1>1. PICK r \in {RoleOf(p), "eu"} :
          /\ token' = Token(p, r) /\ rt' = [who |-> p, gen |-> gen[p]]
          /\ issued' = issued \union {Token(p, r)}
          /\ user' = p /\ Adopt(r, TRUE)
          /\ store' = [user |-> p, real |-> r, role |-> r, rt |-> rt']
  BY DEF Login
<1>2. /\ user = "none" /\ session' = session + 1 /\ behind' = FALSE
      /\ UNCHANGED <<now, pool, row, job, observed, data, calls, crossed>>
  BY DEF Login
<1>3. r \in Roles /\ p # "none" /\ r # "none"
  BY RoleProperties, DirectoryAssumption DEF IInv
<1>4. DInv'
  BY <1>1, <1>2, <1>3, MintKeeps DEF IInv
<1>5. /\ session' \in Nat /\ calls' \in [Calls -> CallRecords]
      /\ \A c \in Calls : /\ ~Mine(c)' /\ calls'[c].session <= session'
                          /\ calls'[c].pc # "idle" => calls'[c].kind # "none"
  BY <1>2, NoneIsMine DEF IInv
<1>6. data' = NoData \/ crossed'
  BY <1>2 DEF IInv, TInv, Own
<1>7. OneSave' /\ Fresh'
  BY <1>5, <1>6, NothingToShow
<1>8. real' = r /\ role' = r
  BY <1>1 DEF Adopt
<1>9. token' \in Tokens /\ token'.who = p /\ token'.role = r
  <2>1. now \in Nat /\ Life \in Nat /\ now + Life \in Nat
    BY DirectoryAssumption DEF IInv, DInv, DirectoryTypes
  <2> QED
    BY <1>1, <1>3, <2>1 DEF Token, Tokens
<1>10. /\ store'.user = p /\ store'.real = r /\ store'.role = r /\ store'.rt = rt'
       /\ DOMAIN store' = {"user", "real", "role", "rt"}
  BY <1>1
<1>11. rt' # NoRt /\ rt'.who = p
  BY <1>1, <1>3 DEF NoRt
<1>12. TabTypes'
  <2>1. data' \in [who : People \union {"none"}, on : BOOLEAN] /\ crossed' \in BOOLEAN /\ behind' \in BOOLEAN
    BY <1>2 DEF IInv, TInv, TabTypes
  <2> QED
    BY <1>1, <1>3, <1>5, <1>8, <1>9, <1>10, <2>1 DEF TabTypes
<1>13. SignedIn'
  BY <1>1, <1>3, <1>5, <1>8, <1>10, <1>11 DEF SignedIn
<1>14. Own'
  BY <1>1, <1>5, <1>6, <1>8, <1>9 DEF Own
<1> QED
  BY <1>4, <1>7, <1>12, <1>13, <1>14 DEF IInv, TInv

LEMMA LogoutKeeps ==
    ASSUME IInv, Logout
    PROVE  IInv'
<1>1. /\ user' = "none" /\ real' = "none" /\ token' = NoToken /\ rt' = NoRt
      /\ store' = [store EXCEPT !.user = "none", !.real = "none", !.rt = NoRt]
      /\ data' = NoData /\ session' = session + 1 /\ crossed' = FALSE
      /\ UNCHANGED <<now, pool, row, issued, job, observed, role, calls, behind>>
  BY DEF Logout
<1>2. DInv'
  BY <1>1, MintKeeps DEF IInv
<1>3. /\ session' \in Nat /\ calls' \in [Calls -> CallRecords]
      /\ \A c \in Calls : /\ ~Mine(c)' /\ calls'[c].session <= session'
                          /\ calls'[c].pc # "idle" => calls'[c].kind # "none"
  BY <1>1, NoneIsMine DEF IInv
<1>4. OneSave' /\ Fresh'
  BY <1>1, <1>3, NothingToShow
<1>5. /\ store'.real = "none" /\ store'.role = store.role /\ store'.rt = NoRt
      /\ DOMAIN store' = {"user", "real", "role", "rt"}
  BY <1>1 DEF IInv, TInv, TabTypes
<1>6. TabTypes'
  BY <1>1, <1>3, <1>5, NothingProperties DEF IInv, TInv, TabTypes
<1>7. SignedIn'
  BY <1>1, <1>3, <1>5 DEF SignedIn
<1>8. Own'
  BY <1>1, <1>3 DEF Own
<1> QED
  BY <1>2, <1>4, <1>6, <1>7, <1>8 DEF IInv, TInv

(* A page that loads finds the session of a stored refresh token again.    *)
LEMMA LoadKeeps ==
    ASSUME TInv, NEW s, LoadWith(s), session' \in {session, session + 1},
           DOMAIN s = {"user", "real", "role", "rt"},
           s.real \in Roles \union {"none"}, s.role \in Roles \union {"none"},
           s.rt = NoRt \/ (s.rt.who \in People /\ s.user = s.rt.who /\ s.real # "none")
    PROVE  TInv'
<1>1. /\ store' = s /\ rt' = s.rt /\ token' = NoToken
      /\ user' = IF s.rt = NoRt THEN "none" ELSE s.user
      /\ real' = s.real
      /\ role' = IF s.real \notin {"none", "admin"} THEN s.real
                 ELSE IF s.role # "none" THEN s.role ELSE "admin"
      /\ data' = NoData /\ calls' = [c \in Calls |-> NoCall]
      /\ crossed' = FALSE /\ behind' = FALSE
  BY DEF LoadWith
<1>2. /\ session' \in Nat /\ calls' \in [Calls -> CallRecords]
      /\ \A c \in Calls : /\ ~Mine(c)' /\ calls'[c].session <= session'
                          /\ calls'[c].pc # "idle" => calls'[c].kind # "none"
  BY <1>1, NoneIsMine
<1>3. OneSave' /\ Fresh'
  BY <1>1, <1>2, NothingToShow
<1>4. TabTypes'
  BY <1>1, <1>2, NothingProperties, DirectoryAssumption DEF TabTypes
<1>5. SignedIn'
  BY <1>1, <1>2, DirectoryAssumption DEF SignedIn
<1>6. Own'
  BY <1>1, <1>2 DEF Own
<1> QED
  BY <1>3, <1>4, <1>5, <1>6 DEF TInv

LEMMA ReloadKeeps ==
    ASSUME IInv, Reload
    PROVE  IInv'
<1>1. LoadWith(store) /\ UNCHANGED <<now, pool, row, issued, job, observed, session>>
  BY DEF Reload
<1>2. DInv'
  BY <1>1, MintKeeps DEF IInv
<1>3. user # "none" /\ store.rt = rt /\ rt.who = user /\ store.user = user /\ store.real # "none"
      /\ user \in People
  BY DEF Reload, Protected, IInv, TInv, SignedIn, TabTypes
<1>4. TInv'
  BY <1>1, <1>3, LoadKeeps DEF IInv, TInv, TabTypes
<1> QED
  BY <1>2, <1>4 DEF IInv

LEMMA ExpiredKeeps ==
    ASSUME IInv, NEW c \in Calls, Expired(c)
    PROVE  IInv'
<1>1. PICK s : s = [store EXCEPT !.user = "none", !.rt = NoRt]
  OBVIOUS
<1>2. LoadWith(s) /\ session' = session + 1 /\ UNCHANGED <<now, pool, row, issued, job, observed>>
  BY <1>1 DEF Expired
<1>3. DInv'
  BY <1>2, MintKeeps DEF IInv
<1>4. /\ DOMAIN s = {"user", "real", "role", "rt"} /\ s.rt = NoRt
      /\ s.real \in Roles \union {"none"} /\ s.role \in Roles \union {"none"}
  BY <1>1 DEF IInv, TInv, TabTypes
<1>5. TInv'
  BY <1>2, <1>4, LoadKeeps DEF IInv
<1> QED
  BY <1>3, <1>5 DEF IInv

LEMMA PreviewKeeps ==
    ASSUME IInv, NEW r \in Roles, Preview(r)
    PROVE  IInv'
<1>1. /\ user # "none" /\ real = "admin" /\ role' = r /\ store' = [store EXCEPT !.role = r]
      /\ UNCHANGED <<now, pool, row, issued, job, observed, user, real, token, rt,
                     data, calls, session, crossed, behind>>
  BY DEF Preview, Protected
<1>2. DInv'
  BY <1>1, MintKeeps DEF IInv
<1>3. /\ store'.user = store.user /\ store'.real = store.real /\ store'.role = r
      /\ store'.rt = store.rt /\ DOMAIN store' = {"user", "real", "role", "rt"}
  BY <1>1 DEF IInv, TInv, TabTypes
<1>4. \A c \in Calls : (Mine(c)' <=> Mine(c)) /\ (Helps(c)' <=> Helps(c))
  BY <1>1 DEF Mine, Helps
<1>5. TabTypes'
  BY <1>1, <1>3 DEF IInv, TInv, TabTypes
<1>6. SignedIn'
  BY <1>1, <1>3, <1>4 DEF IInv, TInv, SignedIn
<1>7. Own' /\ OneSave'
  BY <1>1, <1>4 DEF IInv, TInv, Own, OneSave
<1>8. (Saving' <=> Saving) /\ Stored' = Stored
  BY <1>1, <1>4 DEF Saving, Stored
<1>9. Fresh'
  BY <1>1, <1>4, <1>8 DEF IInv, TInv, Fresh
<1> QED
  BY <1>2, <1>5, <1>6, <1>7, <1>9 DEF IInv, TInv

(* A call that ended is of nobody; the others go on.                       *)
LEMMA EndProperties ==
    ASSUME TInv, NEW c \in Calls, calls' = [calls EXCEPT ![c] = NoCall], session' = session
    PROVE  /\ calls' \in [Calls -> CallRecords] /\ ~Mine(c)'
           /\ \A d \in Calls : /\ calls'[d].session <= session'
                               /\ calls'[d].pc # "idle" => calls'[d].kind # "none"
           /\ \A d \in Calls \ {c} : calls'[d] = calls[d] /\ (Mine(d)' <=> Mine(d))
<1>1. session \in Nat /\ calls \in [Calls -> CallRecords]
      /\ \A d \in Calls : /\ calls[d].session <= session
                          /\ calls[d].pc # "idle" => calls[d].kind # "none"
  BY DEF TInv, TabTypes, SignedIn
<1>2. /\ calls' \in [Calls -> CallRecords] /\ calls'[c] = NoCall
      /\ \A d \in Calls \ {c} : calls'[d] = calls[d]
  BY <1>1, NothingProperties
<1>3. calls'[c].pc = "idle" /\ calls'[c].session <= session'
  BY <1>1, <1>2, NothingProperties
<1> QED
  BY <1>1, <1>2, <1>3 DEF Mine

LEMMA ReadEndsKeeps ==
    ASSUME IInv, NEW c \in Calls, ReadEnds(c)
    PROVE  IInv'
<1>1. /\ Final(c) /\ calls[c].kind = "read"
      /\ IF Ok(c) /\ Mine(c) THEN Show(c) ELSE data' = data
      /\ calls' = [calls EXCEPT ![c] = NoCall]
      /\ UNCHANGED <<now, pool, row, issued, job, observed, user, real, role, token, rt,
                     store, session, crossed, behind>>
  BY DEF ReadEnds
<1>2. DInv'
  BY <1>1, MintKeeps DEF IInv
<1>3. /\ calls' \in [Calls -> CallRecords] /\ ~Mine(c)'
      /\ \A d \in Calls : /\ calls'[d].session <= session'
                          /\ calls'[d].pc # "idle" => calls'[d].kind # "none"
      /\ \A d \in Calls \ {c} : calls'[d] = calls[d] /\ (Mine(d)' <=> Mine(d))
  BY <1>1, EndProperties DEF IInv
<1>4. /\ data' \in [who : People \union {"none"}, on : BOOLEAN]
      /\ \/ data' = data /\ ~(Ok(c) /\ Mine(c))
         \/ Ok(c) /\ Mine(c) /\ data'.who = calls[c].answer.who /\ data'.on = calls[c].answer.on
  <2>1. calls[c].answer \in Answers
    BY DEF IInv, TInv, TabTypes, CallRecords
  <2>2. CASE Ok(c) /\ Mine(c)
    BY <1>1, <2>1, <2>2 DEF Show, Answers
  <2>3. CASE ~(Ok(c) /\ Mine(c))
    BY <1>1, <2>3 DEF IInv, TInv, TabTypes
  <2> QED
    BY <2>2, <2>3
<1>5. TabTypes'
  BY <1>1, <1>3, <1>4 DEF IInv, TInv, TabTypes
<1>6. SignedIn'
  BY <1>1, <1>3 DEF IInv, TInv, SignedIn
<1>7. OneSave'
  BY <1>3 DEF IInv, TInv, OneSave
<1>8. Own'
  BY <1>1, <1>3, <1>4 DEF IInv, TInv, Own, SignedIn, Ok
<1>9. Fresh'
  <2> SUFFICES ASSUME user # "none", ~crossed, ~behind
               PROVE  /\ \A d \in Calls : Mine(d)' /\ calls'[d].answer.status = 200
                                             => calls'[d].answer.on = Stored'
                      /\ \/ data' = NoData \/ data'.on = Stored' \/ Saving'
                         \/ \E d \in Calls : Helps(d)'
    BY <1>1 DEF Fresh
  <2>1. Stored' = Stored
    BY <1>1 DEF Stored
  <2>2. /\ \A d \in Calls : Mine(d) /\ calls[d].answer.status = 200 => calls[d].answer.on = Stored
        /\ data = NoData \/ data.on = Stored \/ Saving \/ \E d \in Calls : Helps(d)
    BY DEF IInv, TInv, Fresh
  <2>3. \A d \in Calls : Mine(d)' /\ calls'[d].answer.status = 200
                             => calls'[d].answer.on = Stored'
    BY <1>3, <2>1, <2>2
  <2>4. CASE Ok(c) /\ Mine(c)
    BY <1>4, <2>1, <2>2, <2>3, <2>4 DEF Ok
  <2>5. CASE ~(Ok(c) /\ Mine(c))
    <3>1. rt # NoRt
      BY DEF IInv, TInv, SignedIn
    <3>2. ~Helps(c)
      BY <1>1, <2>5, <3>1 DEF Helps, Final, Ok
    <3>3. \A d \in Calls : Helps(d) => Helps(d)'
      BY <1>3, <3>2 DEF Helps
    <3>4. Saving => Saving'
      BY <1>1, <1>3 DEF Saving
    <3> QED
      BY <1>4, <2>1, <2>2, <2>3, <2>5, <3>3, <3>4
  <2> QED
    BY <2>4, <2>5
<1> QED
  BY <1>2, <1>5, <1>6, <1>7, <1>8, <1>9 DEF IInv, TInv

LEMMA SavedKeeps ==
    ASSUME IInv, NEW c \in Calls, Saved(c)
    PROVE  IInv'
<1>1. /\ calls[c].kind = "save" /\ Ok(c)
      /\ data' = [who |-> calls[c].answer.who, on |-> calls[c].answer.on]
      /\ calls' = [calls EXCEPT ![c] = NoCall]
      /\ crossed' = (crossed \/ ~Mine(c))
      /\ UNCHANGED <<now, pool, row, issued, job, observed, user, real, role, token, rt,
                     store, session, behind>>
  BY DEF Saved, Show
<1>2. DInv'
  BY <1>1, MintKeeps DEF IInv
<1>3. /\ calls' \in [Calls -> CallRecords] /\ ~Mine(c)'
      /\ \A d \in Calls : /\ calls'[d].session <= session'
                          /\ calls'[d].pc # "idle" => calls'[d].kind # "none"
      /\ \A d \in Calls \ {c} : calls'[d] = calls[d] /\ (Mine(d)' <=> Mine(d))
  BY <1>1, EndProperties DEF IInv
<1>4. /\ data' \in [who : People \union {"none"}, on : BOOLEAN]
      /\ data'.who = calls[c].answer.who /\ data'.on = calls[c].answer.on
  <2>1. calls[c].answer \in Answers
    BY DEF IInv, TInv, TabTypes, CallRecords
  <2> QED
    BY <1>1, <2>1 DEF Answers
<1>5. crossed' \in BOOLEAN /\ (~crossed' => ~crossed /\ Mine(c))
  BY <1>1
<1>6. TabTypes'
  BY <1>1, <1>3, <1>4, <1>5 DEF IInv, TInv, TabTypes
<1>7. SignedIn'
  BY <1>1, <1>3 DEF IInv, TInv, SignedIn
<1>8. OneSave'
  BY <1>3 DEF IInv, TInv, OneSave
<1>9. Own'
  BY <1>1, <1>3, <1>4, <1>5 DEF IInv, TInv, Own, SignedIn, Ok
<1>10. Fresh'
  BY <1>1, <1>3, <1>4, <1>5 DEF IInv, TInv, Fresh, Stored, Ok
<1> QED
  BY <1>2, <1>6, <1>7, <1>8, <1>9, <1>10 DEF IInv, TInv

LEMMA RefreshKeeps ==
    ASSUME IInv, NEW c \in Calls, Refresh(c)
    PROVE  IInv'
<1> DEFINE ts == {Token(rt.who, r) : r \in {RoleOf(rt.who), "eu"}} \union {NoToken}
<1>1. PICK t \in ts :
        /\ issued' = issued \union ({t} \ {NoToken})
        /\ calls' = [calls EXCEPT ![c].pc = "refresh", ![c].fresh = t]
  BY DEF Refresh
<1>2. /\ calls[c].pc = "sent" /\ calls[c].answer.status = 401 /\ rt # NoRt
      /\ UNCHANGED <<now, pool, row, job, observed, user, real, role, token, rt,
                     data, store, session, crossed, behind>>
  BY DEF Refresh
<1>3. user # "none" /\ rt.who = user /\ user \in People
  BY <1>2 DEF IInv, TInv, SignedIn, TabTypes
<1>4. t \in Tokens \union {NoToken} /\ (t # NoToken => t.who = user)
      /\ (t # NoToken => \E p \in People, r \in Roles : t = Token(p, r) /\ r \in {RoleOf(p), "eu"})
  <2>1. CASE t # NoToken
    <3>1. PICK r \in {RoleOf(user), "eu"} : t = Token(user, r)
      BY <1>1, <1>3, <2>1
    <3>2. r \in Roles
      BY <1>3, <3>1, RoleProperties DEF IInv
    <3>3. now \in Nat /\ Life \in Nat /\ now + Life \in Nat
      BY DirectoryAssumption DEF IInv, DInv, DirectoryTypes
    <3>4. t \in Tokens /\ t.who = user
      BY <1>3, <3>1, <3>2, <3>3 DEF Token, Tokens
    <3> QED
      BY <1>3, <3>1, <3>2, <3>4
  <2> QED
    BY <2>1
<1> HIDE DEF ts
<1>5. DInv'
  BY <1>1, <1>2, <1>4, MintKeeps DEF IInv
<1> DEFINE new == [calls[c] EXCEPT !.pc = "refresh", !.fresh = t]
<1>6. calls[c] \in CallRecords /\ calls \in [Calls -> CallRecords]
  BY DEF IInv, TInv, TabTypes
<1>7. /\ new \in CallRecords /\ new.pc = "refresh" /\ new.fresh = t /\ new.kind = calls[c].kind
      /\ new.session = calls[c].session /\ new.answer = calls[c].answer
  BY <1>4, <1>6 DEF CallRecords
<1>8. calls' = [calls EXCEPT ![c] = new]
  BY <1>1, <1>6
<1> HIDE DEF new
<1>9. /\ calls' \in [Calls -> CallRecords] /\ calls'[c] = new
      /\ \A d \in Calls \ {c} : calls'[d] = calls[d]
  BY <1>6, <1>7, <1>8
<1>10. \A d \in Calls : /\ Mine(d)' <=> Mine(d)
                        /\ Helps(d) => Helps(d)'
                        /\ calls'[d].pc # "idle" => calls[d].pc # "idle"
                        /\ calls'[d].kind = calls[d].kind /\ calls'[d].session = calls[d].session
                        /\ calls'[d].answer = calls[d].answer
  <2>1. (Mine(c)' <=> Mine(c)) /\ (Helps(c) => Helps(c)')
    BY <1>2, <1>7, <1>9 DEF Mine, Helps
  <2>2. \A d \in Calls \ {c} : (Mine(d)' <=> Mine(d)) /\ (Helps(d) => Helps(d)')
    BY <1>2, <1>9 DEF Mine, Helps
  <2> QED
    BY <1>2, <1>7, <1>9, <2>1, <2>2
<1>11. TabTypes'
  BY <1>2, <1>9 DEF IInv, TInv, TabTypes
<1>12. SignedIn'
  BY <1>2, <1>10 DEF IInv, TInv, SignedIn
<1>13. OneSave'
  BY <1>10 DEF IInv, TInv, OneSave
<1>14. Own'
  <2>1. \A d \in Calls : calls'[d].fresh # NoToken /\ Mine(d)' /\ ~crossed => calls'[d].fresh.who = user
    BY <1>4, <1>7, <1>9, <1>10 DEF IInv, TInv, Own
  <2> QED
    BY <1>2, <1>10, <2>1 DEF IInv, TInv, Own
<1>15. (Saving => Saving') /\ Stored' = Stored
  BY <1>2, <1>10 DEF Saving, Stored
<1>16. Fresh'
  BY <1>2, <1>10, <1>15 DEF IInv, TInv, Fresh
<1> QED
  BY <1>5, <1>11, <1>12, <1>13, <1>14, <1>16 DEF IInv, TInv

(* With no read and no save under way, no call is of this session.         *)
LEMMA ReadsAndSaves ==
    ASSUME TInv, NEW c \in Calls, Mine(c)
    PROVE  calls[c].kind \in {"read", "save"}
<1>1. calls[c].kind \in {"none", "read", "save"}
  BY DEF TInv, TabTypes, CallRecords
<1> QED
  BY <1>1 DEF TInv, SignedIn, Mine

LEMMA ReadKeeps ==
    ASSUME IInv, NEW c \in Calls, NEW fate \in Fates, Read(c, fate)
    PROVE  IInv'
<1>1. /\ user # "none" /\ calls[c] = NoCall /\ ~Reading
      /\ SendOver(calls, c, "sent", "read", FALSE, session, token, fate)
      /\ behind' = (behind /\ (Saving \/ fate # "served"))
      /\ UNCHANGED <<now, pool, issued, job, observed, user, real, role, token, rt,
                     data, store, session, crossed>>
  BY DEF Read, Send, Protected
<1>2. /\ session \in Nat /\ calls \in [Calls -> CallRecords] /\ token \in Tokens \union {NoToken}
      /\ behind \in BOOLEAN /\ crossed \in BOOLEAN /\ behind' \in BOOLEAN
  BY <1>1 DEF IInv, TInv, TabTypes
<1>3. /\ calls' \in [Calls -> CallRecords]
      /\ \A d \in Calls \ {c} : calls'[d] = calls[d]
      /\ calls'[c].pc = "sent" /\ calls'[c].kind = "read" /\ calls'[c].session = session
      /\ calls'[c].fresh = NoToken
      /\ calls'[c].answer.status = 200 =>
            /\ token # NoToken
            /\ calls'[c].answer.who = token.who
            /\ calls'[c].answer.on = (row'[token.who].alerts = "on")
      /\ fate = "served" => calls'[c].answer.status \in {200, 401}
      /\ row' = row
  <2>1. PICK on \in BOOLEAN : SendOver(calls, c, "sent", "read", on, session, token, fate)
    BY <1>1
  <2>2. DInv
    BY DEF IInv
  <2>3. Sent(calls, c, "sent", "read", session, token, fate)
    BY <1>2, <2>1, <2>2, SendProperties
  <2> QED
    BY <2>3 DEF Sent, SendProperties
<1>4. DInv'
  BY <1>1, <1>3, MintKeeps DEF IInv
<1>5. Mine(c)' /\ ~Mine(c) /\ \A d \in Calls \ {c} : (Mine(d)' <=> Mine(d)) /\ (Helps(d)' <=> Helps(d))
  BY <1>1, <1>3, NothingProperties DEF Mine, Helps
<1>6. TabTypes'
  BY <1>1, <1>2, <1>3 DEF IInv, TInv, TabTypes
<1>7. SignedIn'
  BY <1>1, <1>2, <1>3, <1>5 DEF IInv, TInv, SignedIn
<1>8. Own'
  BY <1>1, <1>3, <1>5 DEF IInv, TInv, Own
<1>9. OneSave'
  BY <1>3, <1>5 DEF IInv, TInv, OneSave
<1>10. Stored' = Stored /\ (Saving => Saving')
  BY <1>1, <1>3, <1>5 DEF Stored, Saving
<1>11. ASSUME ~crossed, calls'[c].answer.status = 200
       PROVE  calls'[c].answer.on = Stored
  BY <1>1, <1>3, <1>11 DEF IInv, TInv, Own, Stored
<1>12. Fresh'
  <2>1. CASE ~behind
    <3>1. user' # "none" /\ ~crossed' => ~crossed /\ user # "none" /\ data' = data
      BY <1>1
    <3>2. ~crossed => \A d \in Calls : Mine(d)' /\ calls'[d].answer.status = 200
                                         => calls'[d].answer.on = Stored
      BY <1>1, <1>3, <1>5, <1>11, <2>1 DEF IInv, TInv, Fresh
    <3>3. ~crossed => \/ data = NoData \/ data.on = Stored \/ Saving
                      \/ \E d \in Calls \ {c} : Helps(d)
      BY <1>1, <1>5, <2>1 DEF IInv, TInv, Fresh, Helps
    <3> QED
      BY <1>5, <1>10, <3>1, <3>2, <3>3 DEF Fresh
  <2>2. CASE ~Saving /\ fate = "served"
    <3>1. Helps(c)'
      BY <1>3, <1>5, <2>2 DEF Helps
    <3>2. \A d \in Calls \ {c} : ~Mine(d)
      BY <1>1, <2>2, ReadsAndSaves DEF Reading, Saving, IInv
    <3> QED
      BY <1>1, <1>5, <1>10, <1>11, <3>1, <3>2 DEF Fresh
  <2> QED
    BY <1>1, <1>2, <2>1, <2>2 DEF Fresh
<1> QED
  BY <1>4, <1>6, <1>7, <1>8, <1>9, <1>12 DEF IInv, TInv

LEMMA ToggleKeeps ==
    ASSUME IInv, NEW c \in Calls, NEW fate \in Fates, Toggle(c, fate)
    PROVE  IInv'
<1>1. /\ user # "none" /\ calls[c] = NoCall /\ data # NoData /\ ~Saving
      /\ SendOver(calls, c, "sent", "save", ~data.on, session, token, fate)
      /\ behind' = (behind \/ Reading)
      /\ UNCHANGED <<now, pool, issued, job, observed, user, real, role, token, rt,
                     data, store, session, crossed>>
  BY DEF Toggle, Send, Protected
<1>2. /\ session \in Nat /\ calls \in [Calls -> CallRecords] /\ token \in Tokens \union {NoToken}
      /\ behind \in BOOLEAN /\ crossed \in BOOLEAN /\ behind' \in BOOLEAN
      /\ (~data.on) \in BOOLEAN
  BY <1>1 DEF IInv, TInv, TabTypes
<1>3. /\ calls' \in [Calls -> CallRecords]
      /\ \A d \in Calls \ {c} : calls'[d] = calls[d]
      /\ calls'[c].pc = "sent" /\ calls'[c].kind = "save" /\ calls'[c].session = session
      /\ calls'[c].fresh = NoToken
      /\ calls'[c].answer.status = 200 =>
            /\ token # NoToken
            /\ calls'[c].answer.who = token.who
            /\ calls'[c].answer.on = (row'[token.who].alerts = "on")
      /\ \/ row' = row
         \/ token # NoToken
            /\ \E pref \in {"on", "off"} : row' = [row EXCEPT ![token.who].alerts = pref]
  <2>1. DInv
    BY DEF IInv
  <2>2. Sent(calls, c, "sent", "save", session, token, fate)
    BY <1>1, <1>2, <2>1, SendProperties
  <2> QED
    BY <2>2 DEF Sent
<1>4. DInv'
  BY <1>1, <1>2, <1>3, RequestKeeps DEF IInv
<1>5. Mine(c)' /\ ~Mine(c) /\ \A d \in Calls \ {c} : Mine(d)' <=> Mine(d)
  BY <1>1, <1>3, NothingProperties DEF Mine
<1>6. TabTypes'
  BY <1>1, <1>2, <1>3 DEF IInv, TInv, TabTypes
<1>7. SignedIn'
  BY <1>1, <1>2, <1>3, <1>5 DEF IInv, TInv, SignedIn
<1>8. Own'
  BY <1>1, <1>3, <1>5 DEF IInv, TInv, Own
<1>9. OneSave'
  BY <1>1, <1>3, <1>5 DEF OneSave, Saving
<1>10. ASSUME ~crossed, calls'[c].answer.status = 200
       PROVE  calls'[c].answer.on = Stored'
  BY <1>1, <1>3, <1>10 DEF IInv, TInv, Own, Stored
<1>11. Saving'
  BY <1>3, <1>5 DEF Saving
<1>12. Fresh'
  <2>1. CASE behind \/ Reading
    BY <1>1, <2>1 DEF Fresh
  <2>2. CASE ~Reading
    <3>1. \A d \in Calls \ {c} : ~Mine(d)
      BY <1>1, <2>2, ReadsAndSaves DEF Reading, Saving, IInv
    <3> QED
      BY <1>1, <1>5, <1>10, <1>11, <3>1 DEF Fresh
  <2> QED
    BY <2>1, <2>2
<1> QED
  BY <1>4, <1>6, <1>7, <1>8, <1>9, <1>12 DEF IInv, TInv

LEMMA RefreshedKeeps ==
    ASSUME IInv, NEW c \in Calls, NEW fate \in Fates, Refreshed(c, fate)
    PROVE  IInv'
<1> DEFINE t == calls[c].fresh
           kind == calls[c].kind
<1>1. /\ calls[c].pc = "refresh" /\ t # NoToken /\ token' = t /\ Adopt(t.role, FALSE)
      /\ store' = [store EXCEPT !.real = t.role,
                                !.role = IF t.role = "admin" THEN @ ELSE t.role]
      /\ SendOver(calls, c, "resent", kind, calls[c].on, calls[c].session, t, fate)
      /\ crossed' = (crossed \/ ~Mine(c))
      /\ behind' = (behind \/ (kind = "save" /\ Reading)
                           \/ (kind = "read" /\ ~(fate = "served" /\ Valid(t))))
      /\ UNCHANGED <<now, pool, issued, job, observed, user, rt, data, session>>
  BY DEF Refreshed, Send
<1>2. /\ calls \in [Calls -> CallRecords] /\ t \in Tokens /\ t.who \in People /\ t.role \in Roles
      /\ calls[c].session \in Nat /\ calls[c].on \in BOOLEAN
      /\ kind \in {"none", "read", "save"}
      /\ crossed \in BOOLEAN /\ behind \in BOOLEAN /\ crossed' \in BOOLEAN /\ behind' \in BOOLEAN
  BY <1>1 DEF IInv, TInv, TabTypes, CallRecords, Tokens
<1>3. kind \in {"read", "save"}
  BY <1>1, <1>2 DEF IInv, TInv, SignedIn
<1>4. DInv /\ Sent(calls, c, "resent", kind, calls[c].session, t, fate)
  <2>1. DInv
    BY DEF IInv
  <2> QED
    BY <1>1, <1>2, <1>3, <2>1, SendProperties
<1> HIDE DEF t, kind
<1>5. /\ calls' \in [Calls -> CallRecords]
      /\ \A d \in Calls \ {c} : calls'[d] = calls[d]
      /\ calls'[c].pc = "resent" /\ calls'[c].kind = kind
      /\ calls'[c].session = calls[c].session /\ calls'[c].fresh = NoToken
      /\ calls'[c].answer.status = 200 =>
            /\ calls'[c].answer.who = t.who
            /\ calls'[c].answer.on = (row'[t.who].alerts = "on")
      /\ fate = "served" /\ Valid(t) => calls'[c].answer.status = 200
      /\ kind = "read" => row' = row
      /\ \/ row' = row
         \/ t # NoToken /\ \E pref \in {"on", "off"} : row' = [row EXCEPT ![t.who].alerts = pref]
  BY <1>1, <1>4 DEF Sent
<1>6. DInv'
  BY <1>1, <1>2, <1>4, <1>5, RequestKeeps
<1>7. kind = calls[c].kind /\ t = calls[c].fresh
  BY DEF kind, t
<1>8. \A d \in Calls : /\ Mine(d)' <=> Mine(d)
                       /\ calls'[d].kind = calls[d].kind /\ calls'[d].session = calls[d].session
                       /\ calls'[d].pc # "idle" => calls[d].pc # "idle"
  <2>1. /\ Mine(c)' <=> Mine(c)
        /\ calls'[c].kind = calls[c].kind /\ calls'[c].session = calls[c].session
        /\ calls[c].pc # "idle"
    BY <1>1, <1>5, <1>7 DEF Mine
  <2>2. \A d \in Calls \ {c} : Mine(d)' <=> Mine(d)
    BY <1>1, <1>5 DEF Mine
  <2> QED
    BY <1>5, <2>1, <2>2
<1>9. real' = t.role /\ (role' = t.role \/ (t.role = "admin" /\ role' = role)) /\ role' \in Roles
  BY <1>1, <1>2 DEF Adopt, IInv, TInv, TabTypes
<1>10. /\ store'.user = store.user /\ store'.rt = store.rt /\ store'.real = t.role
       /\ store'.role \in Roles \union {"none"} /\ DOMAIN store' = {"user", "real", "role", "rt"}
  BY <1>1, <1>2 DEF IInv, TInv, TabTypes
<1>11. ~crossed' => ~crossed /\ Mine(c)
  BY <1>1
<1>12. ~crossed' => t.who = user /\ user # "none"
  BY <1>1, <1>7, <1>11 DEF IInv, TInv, Own, SignedIn
<1>13. TabTypes'
  BY <1>1, <1>2, <1>5, <1>9, <1>10 DEF IInv, TInv, TabTypes
<1>14. SignedIn'
  <2>1. "none" \notin Roles
    BY DirectoryAssumption
  <2>2. \A d \in Calls : /\ calls'[d].session <= session'
                         /\ Mine(d)' => user' # "none"
                         /\ calls'[d].pc # "idle" => calls'[d].kind # "none"
    BY <1>1, <1>8 DEF IInv, TInv, SignedIn
  <2>3. store'.rt = rt' /\ t.role # "none"
        /\ IF user' = "none" THEN rt' = NoRt
           ELSE rt' # NoRt /\ rt'.who = user' /\ store'.user = user'
    BY <1>1, <1>2, <1>10, <2>1 DEF IInv, TInv, SignedIn
  <2> QED
    BY <1>9, <1>10, <2>2, <2>3 DEF SignedIn
<1>15. OneSave'
  BY <1>8 DEF IInv, TInv, OneSave
<1>16. Own'
  <2>1. ~crossed' => \A d \in Calls :
            Mine(d)' => /\ calls'[d].answer.status = 200 => calls'[d].answer.who = user
                        /\ calls'[d].fresh # NoToken => calls'[d].fresh.who = user
    BY <1>5, <1>8, <1>11, <1>12 DEF IInv, TInv, Own
  <2> QED
    BY <1>1, <1>9, <1>11, <1>12, <2>1 DEF IInv, TInv, Own
<1>17. Fresh'
  <2> SUFFICES ASSUME ~crossed', ~behind'
               PROVE  /\ \A d \in Calls : Mine(d)' /\ calls'[d].answer.status = 200
                                             => calls'[d].answer.on = Stored'
                      /\ Saving' \/ \E d \in Calls : Helps(d)'
    BY DEF Fresh
  <2>1. Mine(c)' /\ t.who = user /\ user' = user /\ user # "none" /\ ~crossed /\ ~behind
    BY <1>1, <1>8, <1>11, <1>12
  <2>2. calls'[c].answer.status = 200 => calls'[c].answer.on = Stored'
    BY <1>5, <2>1 DEF Stored
  <2>3. CASE kind = "read"
    <3>1. calls'[c].answer.status = 200
      BY <1>1, <1>5, <2>3
    <3>2. Helps(c)'
      BY <1>5, <2>1, <2>3, <3>1 DEF Helps
    <3>3. Stored' = Stored
      BY <1>5, <2>1, <2>3 DEF Stored
    <3>4. \A d \in Calls \ {c} : Mine(d)' /\ calls'[d].answer.status = 200
                                    => calls'[d].answer.on = Stored'
      BY <1>5, <1>8, <2>1, <3>3 DEF IInv, TInv, Fresh
    <3> QED
      BY <2>2, <3>2, <3>4
  <2>4. CASE kind = "save"
    <3>1. Saving'
      BY <1>5, <2>1, <2>4 DEF Saving
    <3>2. ~Reading
      BY <1>1, <2>4
    <3>3. \A d \in Calls \ {c} : ~Mine(d)
      BY <1>7, <1>11, <2>4, <3>2, ReadsAndSaves DEF Reading, IInv, TInv, OneSave
    <3> QED
      BY <1>8, <2>2, <3>1, <3>3
  <2> QED
    BY <1>3, <2>3, <2>4
<1> QED
  BY <1>6, <1>13, <1>14, <1>15, <1>16, <1>17 DEF IInv, TInv

LEMMA SaveFailsKeeps ==
    ASSUME IInv, NEW c \in Calls, NEW fate \in Fates, SaveFails(c, fate)
    PROVE  IInv'
<1>1. /\ calls[c].kind = "save"
      /\ UNCHANGED <<now, pool, issued, job, observed, user, real, role, token, rt,
                     data, store, session, crossed>>
  BY DEF SaveFails
<1>2. CASE Mine(c)
  <2> DEFINE others == [d \in Calls |-> IF Mine(d) /\ calls[d].kind = "read" THEN NoCall
                                        ELSE calls[d]]
  <2>1. user # "none"
    BY <1>2 DEF IInv, TInv, SignedIn
  <2>2. SendOver(others, c, "sent", "read", FALSE, session, token, fate) /\ behind' = (fate # "served")
    BY <1>2, <2>1 DEF SaveFails
  <2>3. /\ session \in Nat /\ token \in Tokens \union {NoToken}
        /\ behind' \in BOOLEAN /\ calls \in [Calls -> CallRecords]
    BY <2>2 DEF IInv, TInv, TabTypes
  <2>4. others \in [Calls -> CallRecords]
    BY <2>3, NothingProperties
  <2>5. \A d \in Calls : /\ others[d].session <= session
                         /\ others[d].pc # "idle" => others[d].kind # "none"
                         /\ others[d] # NoCall /\ Mine(d) => calls[d].kind = "save" /\ others[d] = calls[d]
                         /\ ~Mine(d) => others[d] = calls[d]
    <3>1. 0 <= session
      BY <2>3
    <3> QED
      BY <2>3, <3>1, NothingProperties, ReadsAndSaves DEF IInv, TInv, SignedIn
  <2> HIDE DEF others
  <2>6. DInv /\ Sent(others, c, "sent", "read", session, token, fate)
    <3>1. PICK on \in BOOLEAN : SendOver(others, c, "sent", "read", on, session, token, fate)
      BY <2>2
    <3>2. DInv
      BY DEF IInv
    <3> QED
      BY <2>3, <2>4, <3>1, <3>2, SendProperties
  <2>7. /\ calls' \in [Calls -> CallRecords]
        /\ \A d \in Calls \ {c} : calls'[d] = others[d]
        /\ calls'[c].pc = "sent" /\ calls'[c].kind = "read" /\ calls'[c].session = session
        /\ calls'[c].fresh = NoToken
        /\ calls'[c].answer.status = 200 =>
              /\ token # NoToken
              /\ calls'[c].answer.who = token.who
              /\ calls'[c].answer.on = (row'[token.who].alerts = "on")
        /\ fate = "served" => calls'[c].answer.status \in {200, 401}
        /\ row' = row
    BY <2>6 DEF Sent
  <2>8. DInv'
    BY <1>1, <2>6, <2>7, MintKeeps
  <2>9. Mine(c)' /\ \A d \in Calls \ {c} : ~Mine(d)'
    <3>1. Mine(c)'
      BY <1>1, <2>7 DEF Mine
    <3>2. ASSUME NEW d \in Calls \ {c}, Mine(d)'
          PROVE  FALSE
      <4>1. others[d].pc # "idle" /\ others[d].session = session
        BY <1>1, <2>7, <3>2 DEF Mine
      <4>2. others[d] # NoCall
        BY <4>1, NothingProperties
      <4>3. Mine(d)
        BY <2>5, <4>1 DEF Mine
      <4>4. calls[d].kind = "save"
        BY <2>5, <4>2, <4>3
      <4> QED
        BY <1>1, <1>2, <4>3, <4>4 DEF IInv, TInv, OneSave
    <3> QED
      BY <3>1, <3>2
  <2>10. TabTypes'
    BY <1>1, <2>3, <2>7 DEF IInv, TInv, TabTypes
  <2>11. SignedIn'
    <3>1. \A d \in Calls : /\ calls'[d].session <= session'
                           /\ calls'[d].pc # "idle" => calls'[d].kind # "none"
      BY <1>1, <2>3, <2>5, <2>7
    <3> QED
      BY <1>1, <2>1, <3>1 DEF IInv, TInv, SignedIn
  <2>12. Own' /\ OneSave'
    BY <1>1, <2>1, <2>7, <2>9 DEF IInv, TInv, Own, OneSave
  <2>13. Fresh'
    <3>1. fate = "served" => Helps(c)'
      BY <2>7, <2>9 DEF Helps
    <3>2. ~crossed /\ calls'[c].answer.status = 200 => calls'[c].answer.on = Stored'
      BY <1>1, <2>1, <2>7 DEF IInv, TInv, Own, Stored
    <3> QED
      BY <1>1, <2>2, <2>9, <3>1, <3>2 DEF Fresh
  <2> QED
    BY <2>8, <2>10, <2>11, <2>12, <2>13 DEF IInv, TInv
<1>3. CASE ~Mine(c)
  <2>1. calls' = [calls EXCEPT ![c] = NoCall] /\ UNCHANGED <<row, behind>>
    BY <1>3 DEF SaveFails
  <2>2. DInv'
    BY <1>1, <2>1, MintKeeps DEF IInv
  <2>3. /\ calls' \in [Calls -> CallRecords] /\ ~Mine(c)'
        /\ \A d \in Calls : /\ calls'[d].session <= session'
                            /\ calls'[d].pc # "idle" => calls'[d].kind # "none"
        /\ \A d \in Calls \ {c} : calls'[d] = calls[d] /\ (Mine(d)' <=> Mine(d))
    BY <1>1, <2>1, EndProperties DEF IInv
  <2>4. TabTypes'
    BY <1>1, <2>1, <2>3 DEF IInv, TInv, TabTypes
  <2>5. SignedIn'
    BY <1>1, <2>3 DEF IInv, TInv, SignedIn
  <2>6. Own' /\ OneSave'
    BY <1>1, <2>3 DEF IInv, TInv, Own, OneSave
  <2>7. Fresh'
    <3>1. Saving => Saving'
      BY <1>3, <2>3 DEF Saving
    <3>2. \A d \in Calls : Helps(d) => Helps(d)'
      BY <1>3, <2>3 DEF Helps
    <3>3. Stored' = Stored
      BY <1>1, <2>1 DEF Stored
    <3> QED
      BY <1>1, <2>1, <2>3, <3>1, <3>2, <3>3 DEF IInv, TInv, Fresh
  <2> QED
    BY <2>2, <2>4, <2>5, <2>6, <2>7 DEF IInv, TInv
<1> QED
  BY <1>2, <1>3

-----------------------------------------------------------------------------
(* The steps together.                                                     *)

LEMMA StartsRight ==
    ASSUME Init
    PROVE  IInv
<1>1. DInv
  BY DirectoryStart DEF Init
<1>2. /\ user = "none" /\ real = "none" /\ role = "admin" /\ token = NoToken /\ rt = NoRt
      /\ data = NoData /\ calls = [c \in Calls |-> NoCall] /\ store = NoStore
      /\ session = 0 /\ crossed = FALSE /\ behind = FALSE
  BY DEF Init
<1>3. /\ store.real = "none" /\ store.role = "none" /\ store.rt = NoRt
      /\ DOMAIN store = {"user", "real", "role", "rt"}
  BY <1>2 DEF NoStore
<1>4. \A c \in Calls : ~Mine(c) /\ calls[c].session <= session /\ calls[c].pc = "idle"
  BY <1>2, NothingProperties DEF Mine
<1>5. TabTypes
  BY <1>2, <1>3, NothingProperties, DirectoryAssumption DEF TabTypes
<1>6. SignedIn
  BY <1>2, <1>3, <1>4 DEF SignedIn
<1>7. Own /\ OneSave /\ Fresh
  BY <1>2, <1>4 DEF Own, OneSave, Fresh
<1> QED
  BY <1>1, <1>5, <1>6, <1>7 DEF IInv, TInv

LEMMA StutterKeeps ==
    ASSUME IInv, UNCHANGED vars
    PROVE  IInv'
<1>1. UNCHANGED directory /\ UNCHANGED tab
  BY DEF vars
<1>2. DInv' /\ row' = row
  BY <1>1, MintKeeps DEF IInv, directory
<1>3. \A c \in Calls : (Mine(c)' <=> Mine(c)) /\ (Helps(c)' <=> Helps(c))
  BY <1>1 DEF Mine, Helps, tab
<1>4. TabTypes' /\ SignedIn' /\ Own' /\ OneSave'
  BY <1>1, <1>3 DEF IInv, TInv, TabTypes, SignedIn, Own, OneSave, tab
<1>5. (Saving' <=> Saving) /\ Stored' = Stored
  BY <1>1, <1>2, <1>3 DEF Saving, Stored, tab
<1>6. Fresh'
  BY <1>1, <1>3, <1>5 DEF IInv, TInv, Fresh, tab
<1> QED
  BY <1>2, <1>4, <1>6 DEF IInv, TInv

LEMMA StepKeeps ==
    ASSUME IInv, [Next]_vars
    PROVE  IInv'
BY ElsewhereKeeps, WaitKeeps, LoginKeeps, LogoutKeeps, ReloadKeeps, PreviewKeeps, ReadKeeps,
   ToggleKeeps, RefreshKeeps, RefreshedKeeps, ExpiredKeeps, ReadEndsKeeps, SavedKeeps,
   SaveFailsKeeps, StutterKeeps DEF Next

LEMMA Inductive == Spec => []IInv
<1>1. Init => IInv
  BY StartsRight
<1>2. IInv /\ [Next]_vars => IInv'
  BY StepKeeps
<1> QED
  BY <1>1, <1>2, PTL DEF Spec

(* Only the directory's own steps touch the operations of admins.          *)
LEMMA StepBegins ==
    ASSUME IInv, [Next]_vars
    PROVE  Begins
<1>1. CASE job' = job
  BY <1>1 DEF Begins
<1>2. CASE Elsewhere
  BY <1>2, DirectoryKeeps DEF Elsewhere, IInv
<1>3. CASE Wait
  BY <1>3, <1>1, TickKeeps DEF Wait, IInv
<1>4. ASSUME NEW p \in People, Login(p)
      PROVE  job' = job
  BY <1>4 DEF Login
<1>5. CASE Logout \/ Reload \/ \E r \in Roles : Preview(r)
  BY <1>1, <1>5 DEF Logout, Reload, Preview
<1>6. ASSUME NEW c \in Calls, NEW fate \in Fates,
             Read(c, fate) \/ Toggle(c, fate) \/ Refreshed(c, fate) \/ SaveFails(c, fate)
      PROVE  job' = job
  BY <1>6 DEF Read, Toggle, Refreshed, SaveFails
<1>7. ASSUME NEW c \in Calls, Refresh(c) \/ Expired(c) \/ ReadEnds(c) \/ Saved(c)
      PROVE  job' = job
  BY <1>7 DEF Refresh, Expired, ReadEnds, Saved
<1>8. CASE UNCHANGED vars
  BY <1>1, <1>8 DEF vars, directory
<1> QED
  BY <1>1, <1>2, <1>3, <1>4, <1>5, <1>6, <1>7, <1>8 DEF Next

-----------------------------------------------------------------------------
(* The theorems.                                                           *)

(* An account on which nothing is under way, and which met no mishap,      *)
(* signs in with the role last given to it, and its person holds the       *)
(* password, however creates, changes and deletes of several admins        *)
(* interleave (api.js:handleCreateUser, handleUpdateUser,                  *)
(* handleDeleteUser).                                                      *)
THEOREM RolesAsGranted == Spec => []AsGranted
<1>1. IInv => AsGranted
  <2> SUFFICES ASSUME IInv, NEW p \in People, account[p] = "ok", Quiet(p), mishap[p] = {}
               PROVE  knows[p] /\ RoleOf(p) = (IF granted[p] = "none" THEN "eu" ELSE granted[p])
    BY DEF AsGranted
  <2>1. ~Creating(p)
    BY DEF Quiet, Creating
  <2>2. knows[p] /\ row[p].role = granted[p]
    BY <2>1 DEF IInv, DInv, InOrder
  <2> QED
    BY <2>2 DEF RoleOf
<1> QED
  BY <1>1, Inductive, PTL

(* Whoever begins an operation of admins was one in the users table at     *)
(* most a token's life ago: a role that was taken away, or an account that *)
(* was deleted, stops working with the tokens that carry it                *)
(* (api.js:authenticate, requireRole).                                     *)
THEOREM OnlyRecentAdmins == Spec => RecentAdmin
<1>1. IInv /\ [Next]_vars => [Begins]_directory
  BY StepBegins
<1>2. Spec => [][Begins]_directory
  BY <1>1, Inductive, PTL DEF Spec
<1>3. Begins <=> \A a \in Admins :
          job[a] = NoJob /\ job'[a] # NoJob => now - lastAdmin[job'[a].by] <= Life
  BY DEF Begins
<1> QED
  BY <1>2, <1>3, PTL DEF RecentAdmin

(* What the tab holds is of who is signed in, whatever answers of earlier  *)
(* sessions arrive, as long as none was taken (AuthContext.jsx, logout).   *)
THEOREM SessionOfOnePerson == Spec => []OnePerson
<1>1. IInv => OnePerson
  BY DEF IInv, TInv, SignedIn, Own, OnePerson
<1> QED
  BY <1>1, Inductive, PTL

(* With nothing under way the switch shows the stored preference, also     *)
(* after a save whose answer was lost (hooks.js:useSetMyAlerts).           *)
THEOREM SwitchShowsStored == Spec => []ShowsStored
<1>1. IInv => ShowsStored
  <2> SUFFICES ASSUME IInv, user # "none", data # NoData, ~crossed, ~behind,
                      \A c \in Calls : ~Mine(c)
               PROVE  data.on = (row[user].alerts = "on")
    BY DEF ShowsStored
  <2>1. ~Saving /\ \A c \in Calls : ~Helps(c)
    BY DEF Saving, Helps
  <2> QED
    BY <2>1 DEF IInv, TInv, Fresh, Stored
<1> QED
  BY <1>1, Inductive, PTL
=============================================================================
