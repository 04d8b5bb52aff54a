--------------------------- MODULE DashboardSession ---------------------------
(***************************************************************************)
(* One browser tab of the dashboard: the tokens of api/client.js, the user *)
(* and role of AuthContext, what of them localStorage keeps, and one cached*)
(* query, the email-alerts switch.  Requests are answered at once by the   *)
(* API and the answers reach the tab later, in any order, or not at all.   *)
(*                                                                         *)
(* A session lasts from a sign-in to the sign-out.  An answer to a request *)
(* of an earlier session is "late"; nothing in the tab tells it apart.     *)
(***************************************************************************)
EXTENDS UserDirectory

CONSTANT Calls      \* API calls of the tab under way at the same time

VARIABLES
    \* memory
    user, real, role,       \* AuthContext: user, realRole, role
    token, rt,              \* client.js: _token, _refreshToken
    data,                   \* query cache, key ["me", "alerts"]
    saveFailed,             \* the switch shows "Couldn't save"
    calls,
    \* localStorage
    store,
    \* observation
    session,                \* sign-ins and sign-outs so far
    crossed,                \* a late answer was taken for this session's
    behind                  \* the stored preference may differ from data

tab == <<user, real, role, token, rt, data, saveFailed, calls, store, session, crossed, behind>>
vars == <<directory, tab>>

NoToken == [who |-> "none", role |-> "none", exp |-> 0]
NoRt == [who |-> "none", gen |-> 0]
NoData == [who |-> "none", on |-> FALSE]
NoAnswer == [status |-> 0, who |-> "none", on |-> FALSE]
NoCall == [pc |-> "idle", kind |-> "none", on |-> FALSE, session |-> 0,
           answer |-> NoAnswer, fresh |-> NoToken]
NoStore == [user |-> "none", real |-> "none", role |-> "none", rt |-> NoRt]

-----------------------------------------------------------------------------

Init ==
    /\ DirectoryInit
    /\ user = "none" /\ real = "none" /\ role = "admin"
    /\ token = NoToken /\ rt = NoRt
    /\ data = NoData /\ saveFailed = FALSE
    /\ calls = [c \in Calls |-> NoCall]
    /\ store = NoStore
    /\ session = 0 /\ crossed = FALSE /\ behind = FALSE

-----------------------------------------------------------------------------
(* The API's answer to a call about one's own alerts                       *)

Authorized(t) == t # NoToken /\ Valid(t)

(* GET and PUT /fleet/me/alerts, for whoever the token names.  The put     *)
(* makes an item without a role where there is none.                       *)
Answer(t, kind, on) ==
    IF ~Authorized(t) THEN [status |-> 401, who |-> "none", on |-> FALSE]
    ELSE [status |-> 200, who |-> t.who,
          on |-> IF kind = "save" THEN on ELSE row[t.who].alerts = "on"]

Effect(t, kind, on) ==
    IF kind = "save" /\ Authorized(t)
    THEN [row EXCEPT ![t.who].alerts = IF on THEN "on" ELSE "off"]
    ELSE row

Fates == {"served", "unanswered", "lost"}

(* A request sent with token t is served, or served and its answer lost,   *)
(* or it never arrives.                                                    *)
SendOver(others, c, pc, kind, on, s, t, fate) ==
    /\ row' = IF fate = "lost" THEN row ELSE Effect(t, kind, on)
    /\ calls' = [others EXCEPT ![c] =
           [pc |-> pc, kind |-> kind, on |-> on, session |-> s, fresh |-> NoToken,
            answer |-> IF fate = "served" THEN Answer(t, kind, on)
                       ELSE [NoAnswer EXCEPT !.status = 500]]]

Send(c, pc, kind, on, s, t, fate) == SendOver(calls, c, pc, kind, on, s, t, fate)

-----------------------------------------------------------------------------
(* Signing in and out                                                      *)

(* adoptRole: the role of a signed token; what admins preview is kept.     *)
Adopt(r, resetPreview) ==
    /\ real' = r
    /\ role' = IF resetPreview \/ r # "admin" THEN r ELSE role

(* LoginPage and login().  The table may fail to answer: role "eu".        *)
Login(p) ==
    /\ Work /\ user = "none" /\ MayLogin(p)
    /\ \E r \in {RoleOf(p), "eu"} :
        /\ token' = Token(p, r) /\ rt' = [who |-> p, gen |-> gen[p]]
        /\ issued' = issued \union {Token(p, r)}
        /\ user' = p /\ Adopt(r, TRUE)
        /\ store' = [user |-> p, real |-> r, role |-> r, rt |-> rt']
    /\ session' = session + 1 /\ behind' = FALSE
    /\ UNCHANGED <<now, pool, row, job, observed, data, saveFailed, calls, crossed>>

(* Every page but those to sign in needs somebody signed in.               *)
Protected == user # "none"

MutantLogout ==
    /\ Work /\ Protected
    /\ user' = "none" /\ real' = "none" /\ token' = NoToken /\ rt' = NoRt
    /\ store' = [store EXCEPT !.user = "none", !.real = "none", !.rt = NoRt]
    /\ session' = session + 1 /\ crossed' = FALSE
    /\ UNCHANGED <<now, pool, row, issued, job, observed, role, calls, data, saveFailed, behind>>

(* logout(): the cache goes too; requests under way go on.                 *)
Logout ==
    /\ Work /\ Protected
    /\ user' = "none" /\ real' = "none" /\ token' = NoToken /\ rt' = NoRt
    /\ store' = [store EXCEPT !.user = "none", !.real = "none", !.rt = NoRt]
    /\ data' = NoData /\ saveFailed' = FALSE
    /\ session' = session + 1 /\ crossed' = FALSE
    /\ UNCHANGED <<now, pool, row, issued, job, observed, role, calls, behind>>

(* The tab loads with s in localStorage; everything under way is lost.     *)
LoadWith(s) ==
    /\ store' = s
    /\ rt' = s.rt /\ token' = NoToken
    /\ user' = IF s.rt = NoRt THEN "none" ELSE s.user
    /\ real' = s.real
    /\ role' = IF s.real \notin {"none", "admin"} THEN s.real
               ELSE IF s.role # "none" THEN s.role ELSE "admin"
    /\ data' = NoData /\ saveFailed' = FALSE
    /\ calls' = [c \in Calls |-> NoCall]
    /\ crossed' = FALSE /\ behind' = FALSE

Reload ==
    /\ Work /\ Protected
    /\ LoadWith(store)
    /\ UNCHANGED <<now, pool, row, issued, job, observed, session>>

(* An admin previews the dashboard of another role (setRole).              *)
Preview(r) ==
    /\ Work /\ Protected /\ real = "admin"
    /\ role' = r /\ store' = [store EXCEPT !.role = r]
    /\ UNCHANGED <<now, pool, row, issued, job, observed, user, real, token, rt,
                   data, saveFailed, calls, session, crossed, behind>>

-----------------------------------------------------------------------------
(* The email-alerts switch                                                 *)

Mine(c) == calls[c].pc # "idle" /\ calls[c].session = session
Reading == \E c \in Calls : Mine(c) /\ calls[c].kind = "read"
Saving == \E c \in Calls : Mine(c) /\ calls[c].kind = "save"

(* useMyAlerts: a mounted switch reads the preference, at any later mount  *)
(* again; one read at a time.  With no save under way it will be right.    *)
Read(c, fate) ==
    /\ Work /\ Protected /\ calls[c] = NoCall /\ ~Reading
    /\ Send(c, "sent", "read", FALSE, session, token, fate)
    /\ behind' = (behind /\ (Saving \/ fate # "served"))
    /\ UNCHANGED <<now, pool, issued, job, observed, user, real, role, token, rt,
                   data, saveFailed, store, session, crossed>>

(* The switch: dead until the preference is known and while a save runs.   *)
(* The answer of a read under way may be older than this save.             *)
Toggle(c, fate) ==
    /\ Work /\ Protected /\ calls[c] = NoCall /\ data # NoData /\ ~Saving
    /\ Send(c, "sent", "save", ~data.on, session, token, fate)
    /\ saveFailed' = FALSE /\ behind' = (behind \/ Reading)
    /\ UNCHANGED <<now, pool, issued, job, observed, user, real, role, token, rt,
                   data, store, session, crossed>>

-----------------------------------------------------------------------------
(* Answers                                                                 *)

(* 401: apiFetch exchanges the refresh token it has now, for a token with  *)
(* the role of the moment; it gets none if its account is gone, or if the  *)
(* exchange fails on the way.                                              *)
Refresh(c) ==
    /\ calls[c].pc = "sent" /\ calls[c].answer.status = 401 /\ rt # NoRt
    /\ \E t \in {Token(rt.who, r) : r \in {RoleOf(rt.who), "eu"}} \union {NoToken} :
        /\ t # NoToken => MayRefresh(rt)
        /\ IF t = NoToken /\ MayRefresh(rt) THEN Work ELSE UNCHANGED work
        /\ issued' = issued \union ({t} \ {NoToken})
        /\ calls' = [calls EXCEPT ![c].pc = "refresh", ![c].fresh = t]
    /\ UNCHANGED <<now, pool, row, job, observed, user, real, role, token, rt,
                       data, saveFailed, store, session, crossed, behind>>

(* tryRefresh succeeds: the token and its role are taken as they come, and *)
(* the request is sent again with it.                                      *)
Refreshed(c, fate) ==
    LET call == calls[c]
        t == call.fresh
    IN  /\ call.pc = "refresh" /\ t # NoToken
        /\ IF fate = "served" THEN UNCHANGED work ELSE Work
        /\ token' = t
        /\ Adopt(t.role, FALSE)
        /\ store' = [store EXCEPT !.real = t.role,
                                  !.role = IF t.role = "admin" THEN @ ELSE t.role]
        /\ Send(c, "resent", call.kind, call.on, call.session, t, fate)
        /\ crossed' = (crossed \/ ~Mine(c))
        /\ behind' = (behind \/ (call.kind = "save" /\ Reading)
                             \/ (call.kind = "read" /\ ~(fate = "served" /\ Valid(t))))
        /\ UNCHANGED <<now, pool, issued, job, observed, user, rt,
                       data, saveFailed, session>>

(* tryRefresh fails, for whatever reason, or the request sent again gets   *)
(* no response: the session is over, and the page loads again.             *)
Expired(c) ==
    /\ \/ calls[c].pc = "refresh" /\ calls[c].fresh = NoToken
       \/ calls[c].pc = "resent" /\ calls[c].answer.status = 500
    /\ LoadWith([store EXCEPT !.user = "none", !.rt = NoRt])
    /\ session' = session + 1
    /\ UNCHANGED <<now, work, pool, row, issued, job, observed>>

(* The answer apiFetch returns or throws.                                  *)
Final(c) ==
    \/ calls[c].pc = "resent"
    \/ calls[c].pc = "sent" /\ (calls[c].answer.status # 401 \/ rt = NoRt)

Ok(c) == calls[c].answer.status = 200

Show(c) == data' = [who |-> calls[c].answer.who, on |-> calls[c].answer.on]

(* A read ends; that of an earlier session finds its query gone.           *)
ReadEnds(c) ==
    /\ Final(c) /\ calls[c].kind = "read"
    /\ IF Ok(c) /\ Mine(c) THEN Show(c) ELSE data' = data
    /\ calls' = [calls EXCEPT ![c] = NoCall]
    /\ UNCHANGED <<now, work, pool, row, issued, job, observed, user, real, role, token, rt,
                   saveFailed, store, session, crossed, behind>>

(* A save ends well: setQueryData, of whichever session it was.            *)
Saved(c) ==
    /\ Final(c) /\ calls[c].kind = "save" /\ Ok(c)
    /\ Show(c)
    /\ calls' = [calls EXCEPT ![c] = NoCall]
    /\ crossed' = (crossed \/ ~Mine(c))
    /\ UNCHANGED <<now, work, pool, row, issued, job, observed, user, real, role, token, rt,
                   saveFailed, store, session, behind>>

MutantSaveFails(c, fate) ==
    /\ Final(c) /\ calls[c].kind = "save" /\ ~Ok(c) /\ fate = "served"
    /\ calls' = [calls EXCEPT ![c] = NoCall]
    /\ saveFailed' = Mine(c)
    /\ UNCHANGED <<now, work, pool, row, issued, job, observed, user, real, role, token, rt,
                   data, store, session, crossed, behind>>

(* A save fails, or its answer got lost: what is stored is read again, in  *)
(* place of a read under way.                                              *)
SaveFails(c, fate) ==
    /\ Final(c) /\ calls[c].kind = "save" /\ ~Ok(c)
    /\ IF fate = "served" THEN UNCHANGED work ELSE Work
    /\ IF Mine(c) /\ user # "none"
       THEN /\ SendOver([d \in Calls |-> IF Mine(d) /\ calls[d].kind = "read" THEN NoCall
                                        ELSE calls[d]],
                        c, "sent", "read", FALSE, session, token, fate)
            /\ saveFailed' = TRUE /\ behind' = (fate # "served")
       ELSE /\ fate = "served"
            /\ calls' = [calls EXCEPT ![c] = NoCall]
            /\ UNCHANGED <<row, saveFailed, behind>>
    /\ UNCHANGED <<now, pool, issued, job, observed, user, real, role, token, rt,
                   data, store, session, crossed>>

-----------------------------------------------------------------------------

(* The directory moves on its own; an admin who replaces the item of the   *)
(* tab's user, or whose delete sweeps it away, changes the preference.     *)
Elsewhere ==
    /\ DirectoryNext
    /\ behind' = (behind \/ \E p \in People : row'[p].alerts # row[p].alerts)
    /\ UNCHANGED <<user, real, role, token, rt, data, saveFailed, calls, store, session, crossed>>

Wait ==
    /\ Tick
    /\ UNCHANGED tab

Next ==
    \/ Elsewhere
    \/ Wait
    \/ \E p \in People : Login(p)
    \/ Logout
    \/ Reload
    \/ \E r \in Roles : Preview(r)
    \/ \E c \in Calls :
        \/ \E fate \in Fates :
            \/ Read(c, fate)
            \/ Toggle(c, fate)
            \/ Refreshed(c, fate)
            \/ SaveFails(c, fate)
        \/ Refresh(c)
        \/ Expired(c)
        \/ ReadEnds(c)
        \/ Saved(c)

Spec == Init /\ [][Next]_vars

-----------------------------------------------------------------------------
(* Properties                                                              *)

(* What the tab holds belongs to who is signed in: the tokens, the stored  *)
(* session, the cached answer (AuthContext.jsx: the next person to sign in *)
(* must not see this one's cached data), and the role, which only an admin *)
(* may preview another of; unless a late answer of an earlier session was  *)
(* taken.                                                                  *)
OnePerson ==
    user # "none" /\ ~crossed =>
        /\ rt.who = user /\ store.rt = rt /\ store.user = user
        /\ token # NoToken => token.who = user /\ real = token.role
        /\ role = real \/ real = "admin"
        /\ data # NoData => data.who = user

(* The switch shows the stored preference once nothing is under way, also  *)
(* after a save that failed but landed (hooks.js:useSetMyAlerts); unless   *)
(* the preference changed elsewhere, a read was overtaken by a save, or    *)
(* the re-read failed as well.                                             *)
ShowsStored ==
    user # "none" /\ data # NoData /\ ~crossed /\ ~behind
        /\ (\A c \in Calls : ~Mine(c))
            => data.on = (row[user].alerts = "on")
=============================================================================
