---------------------------- MODULE UserDirectory ----------------------------
(***************************************************************************)
(* Who may use the dashboard, and as what.  An account lives in the user   *)
(* pool (Cognito), its role in an item of the users table (DynamoDB); the  *)
(* API's operations on both are several calls, any of which can fail.      *)
(* Signing in or refreshing mints a token that carries the role of that    *)
(* moment for its lifetime.                                                *)
(*                                                                         *)
(* A person is an email address; gen[p] numbers the accounts that address  *)
(* has had.  A tick is as long as a token lives, and far longer than a     *)
(* request.                                                                *)
(***************************************************************************)
EXTENDS Naturals, FiniteSets

CONSTANTS
    People,     \* email addresses
    Roles,      \* "admin", "eu" and others
    Staff,      \* the accounts of the start: their roles, by address
    Admins,     \* requests of admins under way at the same time
    Life,       \* JWT_EXPIRY, in ticks
    MaxNow,     \* bound: the clock
    MaxWork     \* bound: everything people start and everything that fails

ASSUME DirectoryAssumption ==
    /\ {"admin", "eu"} \subseteq Roles
    /\ "none" \notin Roles /\ "none" \notin People
    /\ DOMAIN Staff \subseteq People /\ \A p \in DOMAIN Staff : Staff[p] \in Roles
    /\ Life \in Nat /\ MaxNow \in Nat /\ MaxWork \in Nat

VARIABLES
    now, work,
    \* the user pool
    account,    \* "none", "temp" (FORCE_CHANGE_PASSWORD) or "ok"
    gen,        \* accounts the address has had
    knows,      \* the person holds the account's password
    code,       \* a reset code is in the person's mail
    \* the users table
    row,        \* the item: its role and email_alerts, "none" where absent
    \* the API
    issued,     \* the access tokens people hold
    job,        \* operations of admins under way
    \* observation
    granted,    \* the role last written for this account
    lastAdmin,  \* when the table last said "admin" of the person
    mishap      \* what went wrong with this account

pool == <<account, gen, knows, code>>
observed == <<granted, lastAdmin, mishap>>
directory == <<now, work, pool, row, issued, job, observed>>

NoRow == [role |-> "none", alerts |-> "none"]
NoJob == [pc |-> "idle", by |-> "none", who |-> "none", role |-> "none"]

Work == work < MaxWork /\ work' = work + 1

(* No operation on the person is under way.                                *)
Quiet(p) == \A a \in Admins : job[a].pc # "idle" => job[a].who # p

-----------------------------------------------------------------------------

DirectoryInit ==
    /\ now = 0 /\ work = 0
    /\ account = [p \in People |-> IF p \in DOMAIN Staff THEN "ok" ELSE "none"]
    /\ gen = [p \in People |-> IF p \in DOMAIN Staff THEN 1 ELSE 0]
    /\ knows = [p \in People |-> TRUE] /\ code = [p \in People |-> FALSE]
    /\ row = [p \in People |->
           IF p \in DOMAIN Staff THEN [role |-> Staff[p], alerts |-> "none"] ELSE NoRow]
    /\ issued = {} /\ job = [a \in Admins |-> NoJob]
    /\ granted = [p \in People |-> row[p].role]
    /\ lastAdmin = [p \in People |-> 0]
    /\ mishap = [p \in People |-> {}]

-----------------------------------------------------------------------------
(* Signing in                                                              *)

(* The role a token gets: that of the users table, "eu" when there is none *)
(* or the table does not answer.                                           *)
RoleOf(p) == IF row[p].role = "none" THEN "eu" ELSE row[p].role

Token(p, role) == [who |-> p, role |-> role, exp |-> now + Life]

(* handleLogin: an account whose password is temporary only gets a         *)
(* challenge, which the handler cannot answer.                             *)
MayLogin(p) == account[p] = "ok" /\ knows[p]

(* handleRefresh: a refresh token dies with its account.                   *)
MayRefresh(rt) == account[rt.who] # "none" /\ gen[rt.who] = rt.gen

MutantValid(t) == TRUE

(* authenticate: a token is believed until it expires.                     *)
Valid(t) == now <= t.exp

-----------------------------------------------------------------------------
(* The operations of admins                                                *)

(* A request arrives with somebody's token; the first checks of its        *)
(* handler, and what it will call first.                                   *)
Begin(a, t, pc, q, role) ==
    /\ Work
    /\ t \in issued /\ Valid(t) /\ t.role = "admin"         \* requireRole
    /\ pc = "delete" => q # t.who
    /\ job[a] = NoJob
    /\ job' = [job EXCEPT ![a] = [pc |-> pc, by |-> t.who, who |-> q, role |-> role]]
    /\ UNCHANGED <<now, pool, row, issued, observed>>

Goto(a, pc) == job' = [job EXCEPT ![a] = IF pc = "idle" THEN NoJob ELSE [@ EXCEPT !.pc = pc]]

(* AdminCreateUser; a second account for an address is refused (409).      *)
CreateAccount(a) ==
    LET q == job[a].who IN
    /\ job[a].pc = "create"
    /\ IF account[q] # "none"
       THEN Goto(a, "idle") /\ UNCHANGED <<account, gen, knows, code, granted, mishap>>
       ELSE /\ account' = [account EXCEPT ![q] = "temp"]
            /\ gen' = [gen EXCEPT ![q] = @ + 1]
            /\ knows' = [knows EXCEPT ![q] = TRUE]
            /\ code' = [code EXCEPT ![q] = FALSE]
            /\ granted' = [granted EXCEPT ![q] = "none"]
            /\ mishap' = [mishap EXCEPT ![q] = {}]
            /\ Goto(a, "permanent")
    /\ UNCHANGED <<now, work, row, issued, lastAdmin>>

(* Whether the pool takes a new password (else 404, User not found).       *)
PasswordAccepted(q) == account[q] # "none"

(* AdminSetUserPassword, in the course of a create ("permanent") or on its *)
(* own ("password": 404 without an account).                               *)
SetPassword(a) ==
    LET q == job[a].who IN
    /\ job[a].pc \in {"permanent", "password"}
    /\ IF PasswordAccepted(q)
       THEN /\ account' = [account EXCEPT ![q] = "ok"]
            /\ knows' = [knows EXCEPT ![q] = TRUE]
            /\ Goto(a, IF job[a].pc = "permanent" THEN "put" ELSE "idle")
       ELSE Goto(a, "idle") /\ UNCHANGED <<account, knows>>
    /\ UNCHANGED <<now, work, gen, code, row, issued, observed>>

(* A role is written for the account the address has, if any.              *)
Grant(q, role) ==
    /\ granted' = [granted EXCEPT ![q] = IF account[q] = "none" THEN @ ELSE role]
    /\ lastAdmin' = [lastAdmin EXCEPT ![q] = IF role = "admin" THEN now ELSE @]

MutantPutRow(a) ==
    LET q == job[a].who IN
    /\ job[a].pc = "put"
    /\ row' = [row EXCEPT ![q] = IF @ = NoRow THEN [role |-> job[a].role, alerts |-> "none"] ELSE @]
    /\ Grant(q, job[a].role) /\ Goto(a, "idle")
    /\ UNCHANGED <<now, work, pool, issued, mishap>>

(* The put that ends a create replaces whatever item there was.            *)
PutRow(a) ==
    LET q == job[a].who IN
    /\ job[a].pc = "put"
    /\ row' = [row EXCEPT ![q] = [role |-> job[a].role, alerts |-> "none"]]
    /\ Grant(q, job[a].role) /\ Goto(a, "idle")
    /\ UNCHANGED <<now, work, pool, issued, mishap>>

(* handleUpdateUser: one update, which makes an item where there is none.  *)
UpdateRow(a) ==
    LET q == job[a].who IN
    /\ job[a].pc = "update"
    /\ row' = [row EXCEPT ![q].role = job[a].role]
    /\ Grant(q, job[a].role) /\ Goto(a, "idle")
    /\ UNCHANGED <<now, work, pool, issued, mishap>>

(* AdminDeleteUser; 404 without an account.                                *)
DeleteAccount(a) ==
    LET q == job[a].who IN
    /\ job[a].pc = "delete"
    /\ account' = [account EXCEPT ![q] = "none"]
    /\ code' = [code EXCEPT ![q] = FALSE]
    /\ Goto(a, IF account[q] = "none" THEN "idle" ELSE "deleterow")
    /\ UNCHANGED <<now, work, gen, knows, row, issued, observed>>

(* The item goes, even that of an account made since.                      *)
DeleteRow(a) ==
    LET q == job[a].who IN
    /\ job[a].pc = "deleterow"
    /\ row' = [row EXCEPT ![q] = NoRow]
    /\ mishap' = [mishap EXCEPT ![q] =
           IF account[q] = "none" THEN @ ELSE @ \union {"swept"}]
    /\ Goto(a, "idle")
    /\ UNCHANGED <<now, work, pool, issued, granted, lastAdmin>>

(* An operation stops: a call of it failed, or the Lambda was killed.      *)
FailJob(a) ==
    /\ Work /\ job[a] # NoJob
    /\ mishap' = [mishap EXCEPT ![job[a].who] = @ \union {"stopped"}]
    /\ Goto(a, "idle")
    /\ UNCHANGED <<now, pool, row, issued, granted, lastAdmin>>

(* A password is set and the answer lost: UsersPage closes its dialog, and *)
(* with it goes the only copy of the password.                             *)
LosePassword(a) ==
    LET q == job[a].who IN
    /\ Work /\ job[a].pc = "password" /\ PasswordAccepted(q)
    /\ account' = [account EXCEPT ![q] = "ok"]
    /\ knows' = [knows EXCEPT ![q] = FALSE]
    /\ mishap' = [mishap EXCEPT ![q] = @ \union {"unanswered"}]
    /\ Goto(a, "idle")
    /\ UNCHANGED <<now, gen, code, row, issued, granted, lastAdmin>>

-----------------------------------------------------------------------------
(* Forgot password                                                         *)

(* Whether a code is mailed; the reply does not tell.                      *)
CodeSent(p) == account[p] = "ok"

(* A code replaces the one before it.                                      *)
SendCode(p) ==
    /\ Work
    /\ code' = [code EXCEPT ![p] = CodeSent(p)]
    /\ UNCHANGED <<now, account, gen, knows, row, issued, job, observed>>

(* Any other code is wrong or has expired (400).                           *)
ResetAccepted(p) == code[p]

(* The code and a password of the person's own; a code works once.         *)
ResetPassword(p) ==
    /\ Work
    /\ ResetAccepted(p) /\ code' = [code EXCEPT ![p] = FALSE]
    /\ knows' = [knows EXCEPT ![p] = TRUE]
    /\ UNCHANGED <<now, account, gen, row, issued, job, observed>>

-----------------------------------------------------------------------------

(* The clock; codes expire, as do tokens (Valid).                          *)
Tick ==
    /\ now < MaxNow /\ now' = now + 1 /\ Work
    /\ \A a \in Admins : job[a] = NoJob
    /\ code' = [p \in People |-> FALSE]
    /\ lastAdmin' = [p \in People |-> IF row[p].role = "admin" THEN now + 1 ELSE lastAdmin[p]]
    /\ UNCHANGED <<account, gen, knows, row, issued, job, granted, mishap>>

DirectoryNext ==
    \/ \E a \in Admins :
        \/ \E t \in issued, q \in People :
            \/ \E role \in Roles, pc \in {"create", "update"} : Begin(a, t, pc, q, role)
            \/ \E pc \in {"delete", "password"} : Begin(a, t, pc, q, "none")
        \/ CreateAccount(a)
        \/ SetPassword(a)
        \/ PutRow(a)
        \/ UpdateRow(a)
        \/ DeleteAccount(a)
        \/ DeleteRow(a)
        \/ FailJob(a)
        \/ LosePassword(a)
    \/ \E p \in People :
        \/ SendCode(p)
        \/ ResetPassword(p)

-----------------------------------------------------------------------------
(* Properties                                                              *)

(* When nothing is under way for an account, it is as its admins left it:  *)
(* it signs in with the role last given to it, never with the role of an   *)
(* earlier account of the address (api.js:handleCreateUser), and its       *)
(* person holds the password; unless an operation on it stopped half way,  *)
(* the answer to a new password was lost, or the second call of an older   *)
(* delete swept its item away.                                             *)
AsGranted ==
    \A p \in People :
        account[p] = "ok" /\ Quiet(p) /\ mishap[p] = {} =>
            knows[p] /\ RoleOf(p) = (IF granted[p] = "none" THEN "eu" ELSE granted[p])

(* A role that was taken away stops working with the tokens that carry it: *)
(* an operation of admins is only begun by someone who was an admin less   *)
(* than a token's life ago (api.js:authenticate, requireRole).             *)
RecentAdmin ==
    [][\A a \in Admins :
          job[a] = NoJob /\ job'[a] # NoJob => now - lastAdmin[job'[a].by] <= Life]_directory
=============================================================================
