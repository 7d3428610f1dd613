------------------------------ MODULE Session ------------------------------
(***************************************************************************)
(* Accounts, roles and sessions in the cloud (cloud/api/auth.py, deps.py,  *)
(* admin.py, roles.py, cloud/db/mixins/auth_mixin.py), and the standing    *)
(* session of an operator's agent (agent/identity.py, bff/local_auth.py,   *)
(* and the refresh cycle of launcher/app.py).                              *)
(*                                                                         *)
(* The cloud's handlers have no suspension point and run on one loop, but  *)
(* the check of who is asking runs before, on another thread.  The agent   *)
(* refreshes from coroutines that share a lock and from the launcher's     *)
(* thread that does not take it; every call of the cloud takes two steps   *)
(* and may be lost on the way there or back.                               *)
(***************************************************************************)
EXTENDS Integers, FiniteSets, Sequences, SequencesExt, TLC

CONSTANTS
  None,
  Users, Admins,   \* accounts, and those with is_admin
  Operators,       \* accounts an agent signs in with
  SystemRole,      \* a built-in role
  Roles,           \* names of other roles
  Perms,           \* permission keys other than Manage
  Manage,          \* "users.manage" and "roles.manage"
  Coroutines,      \* identity.refresh callers
  Launcher,        \* _try_refresh_sync
  Tabs,            \* requests of administrators under way
  Threshold,       \* lockout_threshold
  MaxOps, MaxToks  \* bounds: requests, and refresh tokens issued

ASSUME SessionAssumption ==
  /\ Admins \subseteq Users /\ Admins # {}
  /\ Operators \subseteq Users
  /\ None \notin Users \cup Nat
  /\ Launcher \notin Coroutines
  /\ {"login", "logout", "others"} \cap (Coroutines \cup {Launcher}) = {}
  /\ Threshold \in Nat \ {0} /\ MaxOps \in Nat /\ MaxToks \in Nat

VARIABLES
  users,     \* [active, tv, role, over, failed]
  roles,     \* role_permissions: [roles -> permissions or None]
  sess,      \* user_sessions: sequence of [user, tok, live, expired]
  lastTok,   \* the last refresh token handed out
  jar,       \* a browser's cookies, for each user: [tok, tv] or None
  pend,      \* [Tabs -> user authorised, handler not yet run, or None]
  ident,     \* identity._state: [email, access], access being [user, tv]
  desk,      \* the launcher's _login_email
  keyring,   \* [Operators -> refresh token or None]
  calls,     \* the agent's calls: [pc, user, tok, ans]
  killed,    \* history variable: sessions that a deactivation or a reset ended
  cut,       \* history variable: sessions that one left alive, as it was cut short
  kin,       \* history variable: the session the agent last signed in with
  spoiled,   \* history variable: why the agent's session may be gone
  replays,   \* history variable: tokens rotated away
  ops

cloudVars == <<users, roles, sess, lastTok, killed, cut, replays>>
agentVars == <<ident, desk, keyring, calls, kin>>
vars == <<cloudVars, agentVars, jar, pend, spoiled, ops>>

Callers == Coroutines \cup {Launcher, "login", "logout", "others"}
Idle == [pc |-> "idle", user |-> None, tok |-> None, ans |-> None]
Out == [email |-> None, access |-> None]

-----------------------------------------------------------------------------
Init ==
  /\ users = [u \in Users |-> [active |-> TRUE, tv |-> 0, role |-> SystemRole,
                               over |-> [p \in Perms \cup {Manage} |-> None], failed |-> 0]]
  /\ roles = [r \in Roles \cup {SystemRole} |-> IF r = SystemRole THEN Perms ELSE None]
  /\ sess = <<>> /\ lastTok = 0
  /\ jar = [u \in Users |-> None] /\ pend = [t \in Tabs |-> None]
  /\ ident = Out /\ desk = None
  /\ keyring = [u \in Operators |-> None]
  /\ calls = [c \in Callers |-> Idle]
  /\ killed = {} /\ cut = {} /\ kin = None /\ spoiled = {} /\ replays = {}
  /\ ops = 0

Request == ops < MaxOps /\ ops' = ops + 1

-----------------------------------------------------------------------------
(* Sessions in the database *)

SessionsOf(u) == {k \in DOMAIN sess : sess[k].user = u}
ByHash(tok) == {k \in DOMAIN sess : sess[k].tok = tok}

(* revoke_session, revoke_sessions_except *)
Revoked(S) == [k \in DOMAIN sess |-> IF k \in S THEN [sess[k] EXCEPT !.live = FALSE] ELSE sess[k]]

(* create_session *)
NewSession(u) == Append(sess, [user |-> u, tok |-> lastTok + 1, live |-> TRUE, expired |-> FALSE])

(* rotate_session: the row keeps its identity, the old hash is forgotten. *)
Rotated(k) == [sess EXCEPT ![k].tok = lastTok + 1]

(* refresh: the answer and what becomes of the sessions *)
CanRefresh(k) == sess[k].live /\ ~sess[k].expired /\ users[sess[k].user].active

RefreshHandler(tok) ==
  LET k == CHOOSE k \in ByHash(tok) : TRUE
  IN  CASE ByHash(tok) = {}  -> [status |-> 401, sess |-> sess]
        [] ByHash(tok) # {} /\ ~sess[k].live ->
             [status |-> 401, sess |-> Revoked(SessionsOf(sess[k].user))]
        [] ByHash(tok) # {} /\ sess[k].live /\ ~CanRefresh(k) -> [status |-> 401, sess |-> sess]
        [] OTHER -> [status |-> 200, sess |-> Rotated(k)]

Ok(u) == [status |-> 200, tok |-> lastTok + 1, access |-> [user |-> u, tv |-> users[u].tv]]
Error(status) == [status |-> status, tok |-> None, access |-> None]

-----------------------------------------------------------------------------
(* Permissions *)

(* resolve_effective_permissions: admins hold all, a denial beats the role. *)
Effective(u) ==
  IF u \in Admins THEN Perms \cup {Manage}
  ELSE LET base == IF users[u].role = None THEN {} ELSE roles[users[u].role]
       IN  {p \in Perms \cup {Manage} :
              users[u].over[p] = "grant" \/ (p \in base /\ users[u].over[p] # "deny")}

(* get_current_user *)
Accepted(access) == users[access.user].active /\ access.tv = users[access.user].tv

-----------------------------------------------------------------------------
(* Browsers on the cloud: atomic calls *)

(* login, after the rate limit; a locked account stays locked *)
BrowserLogin(u) ==
  /\ Request /\ lastTok < MaxToks
  /\ users[u].active /\ users[u].failed < Threshold
  /\ sess' = NewSession(u) /\ lastTok' = lastTok + 1
  /\ jar' = [jar EXCEPT ![u] = [tok |-> lastTok + 1, tv |-> users[u].tv]]
  /\ users' = [users EXCEPT ![u].failed = 0]
  /\ UNCHANGED <<roles, killed, cut, replays, agentVars, pend, spoiled>>

(* record_login_failure *)
BadPassword(u) ==
  /\ Request
  /\ users[u].active /\ users[u].failed < Threshold
  /\ users' = [users EXCEPT ![u].failed = @ + 1]
  /\ UNCHANGED <<roles, sess, lastTok, killed, cut, replays, agentVars, jar, pend, spoiled>>

(* locked_until passes; the count of failures stays *)
LockEnds(u) ==
  /\ users[u].failed >= Threshold
  /\ users' = [users EXCEPT ![u].failed = Threshold - 1]
  /\ UNCHANGED <<roles, sess, lastTok, killed, cut, replays, agentVars, jar, pend, spoiled, ops>>

BrowserRefresh(u) ==
  /\ Request /\ lastTok < MaxToks /\ jar[u] # None
  /\ LET h == RefreshHandler(jar[u].tok)
     IN  /\ sess' = h.sess
         /\ IF h.status = 200
            THEN /\ jar' = [jar EXCEPT ![u] = [tok |-> lastTok + 1, tv |-> users[u].tv]]
                 /\ lastTok' = lastTok + 1
                 /\ replays' = replays \cup {jar[u].tok}
                 /\ UNCHANGED spoiled
            ELSE /\ jar' = [jar EXCEPT ![u] = None]
                 /\ spoiled' = IF h.sess = sess THEN spoiled ELSE spoiled \cup {"family"}
                 /\ UNCHANGED <<lastTok, replays>>
  /\ UNCHANGED <<users, roles, killed, cut, agentVars, pend>>

(* The user's own sessions: logout, revoke_session, revoke_other_sessions *)
EndSessions(u, S) ==
  /\ sess' = Revoked(S)
  /\ spoiled' = IF kin \in S THEN spoiled \cup {"revoked"} ELSE spoiled
  /\ UNCHANGED <<users, roles, lastTok, killed, cut, replays, agentVars, pend>>

BrowserLogout(u) ==
  /\ Request /\ jar[u] # None
  /\ EndSessions(u, ByHash(jar[u].tok))
  /\ jar' = [jar EXCEPT ![u] = None]

RevokeSession(u) ==
  /\ Request /\ jar[u] # None /\ Accepted([user |-> u, tv |-> jar[u].tv])
  /\ \E k \in SessionsOf(u) : EndSessions(u, {k})
  /\ UNCHANGED jar

RevokeOthers(u) ==
  /\ Request /\ jar[u] # None /\ Accepted([user |-> u, tv |-> jar[u].tv])
  /\ EndSessions(u, SessionsOf(u) \ ByHash(jar[u].tok))
  /\ UNCHANGED jar

SessionExpires ==
  /\ \E k \in DOMAIN sess :
       /\ sess[k].live /\ ~sess[k].expired
       /\ sess' = [sess EXCEPT ![k].expired = TRUE]
       /\ spoiled' = IF k = kin THEN spoiled \cup {"expired"} ELSE spoiled
  /\ UNCHANGED <<users, roles, lastTok, killed, cut, replays, agentVars, jar, pend, ops>>

-----------------------------------------------------------------------------
(* Administration.  require("users.manage") is answered first ...           *)
Authorize(t, u) ==
  /\ Request /\ pend[t] = None
  /\ jar[u] # None /\ Accepted([user |-> u, tv |-> jar[u].tv]) /\ Manage \in Effective(u)
  /\ pend' = [pend EXCEPT ![t] = u]
  /\ UNCHANGED <<cloudVars, agentVars, jar, spoiled>>

(* ... and the handler runs later.                                          *)
Handle(t) ==
  /\ pend[t] # None
  /\ pend' = [pend EXCEPT ![t] = None]
  /\ UNCHANGED <<lastTok, replays, agentVars, jar, ops>>

(* set_user_active and set_password commit the account first, and then end  *)
(* every session of the user, also those that an earlier call was cut off   *)
(* from ...                                                                *)
EndAll_TokenOnly(u) ==
  sess' = sess /\ spoiled' = spoiled /\ killed' = killed \cup SessionsOf(u) /\ cut' = cut \ SessionsOf(u)

EndAll(u) ==
  /\ sess' = Revoked(SessionsOf(u))
  /\ killed' = killed \cup SessionsOf(u)
  /\ cut' = cut \ SessionsOf(u)
  /\ spoiled' = IF kin \in SessionsOf(u) THEN spoiled \cup {"ended"} ELSE spoiled

ActiveAdmins_EverSeen == Admins
ActiveAdmins == {u \in Admins : users[u].active}

LastOne(u) == u \in Admins /\ users[u].active /\ Cardinality(ActiveAdmins) <= 1

(* ... unless the second commit fails, or the cloud dies before it; what    *)
(* was under way is forgotten then.                                        *)
CutShort(t) ==
  /\ pend[t] # None
  /\ pend' \in {[pend EXCEPT ![t] = None], [s \in Tabs |-> None]}
  /\ \E u \in Users, off \in BOOLEAN :
       /\ ~(off /\ LastOne(u))
       /\ users' = [users EXCEPT ![u].active = @ /\ ~off, ![u].tv = @ + 1]
       /\ cut' = cut \cup {k \in SessionsOf(u) : sess[k].live}
       /\ spoiled' = IF off /\ kin \in SessionsOf(u) THEN spoiled \cup {"ended"} ELSE spoiled
  /\ UNCHANGED <<roles, sess, lastTok, killed, replays, agentVars, jar, ops>>

(* patch_user *)
PatchActive(t) ==
  /\ Handle(t)
  /\ \E u \in Users, on \in BOOLEAN :
       /\ ~(~on /\ LastOne(u))
       /\ users' = [users EXCEPT ![u].active = on, ![u].tv = IF on THEN @ ELSE @ + 1]
       /\ IF on THEN UNCHANGED <<sess, killed, cut, spoiled>> ELSE EndAll(u)
  /\ UNCHANGED roles

PatchRole(t) ==
  /\ Handle(t)
  /\ \E u \in Users, r \in {x \in DOMAIN roles : roles[x] # None} :
       users' = [users EXCEPT ![u].role = r]
  /\ UNCHANGED <<roles, sess, killed, cut, spoiled>>

(* reset_password *)
ResetPassword(t) ==
  /\ Handle(t)
  /\ \E u \in Users : users' = [users EXCEPT ![u].tv = @ + 1] /\ EndAll(u)
  /\ UNCHANGED roles

(* set_user_permission *)
SetPermission(t) ==
  /\ Handle(t)
  /\ \E u \in Users, p \in Perms \cup {Manage}, e \in {"grant", "deny", None} :
       users' = [users EXCEPT ![u].over[p] = e]
  /\ UNCHANGED <<roles, sess, killed, cut, spoiled>>

(* create_role, clone_role, update_role: never a built-in one *)
SaveRole(t) ==
  /\ Handle(t)
  /\ \E r \in Roles, ps \in SUBSET (Perms \cup {Manage}) : roles' = [roles EXCEPT ![r] = ps]
  /\ UNCHANGED <<users, sess, killed, cut, spoiled>>

(* delete_role: not while somebody has it *)
DeleteRole(t) ==
  /\ Handle(t)
  /\ \E r \in Roles :
       /\ roles[r] # None /\ \A u \in Users : users[u].role # r
       /\ roles' = [roles EXCEPT ![r] = None]
  /\ UNCHANGED <<users, sess, killed, cut, spoiled>>

AdminStep(t) == CutShort(t) \/ PatchActive(t) \/ PatchRole(t) \/ ResetPassword(t) \/ SetPermission(t)
                  \/ SaveRole(t) \/ DeleteRole(t)

-----------------------------------------------------------------------------
(* The agent *)

Send(c, u, tok) == calls' = [calls EXCEPT ![c] = [pc |-> "sent", user |-> u, tok |-> tok, ans |-> None]]
Locked == \E c \in Coroutines : calls[c].pc # "idle"
Beside(S) == spoiled' = IF \E c \in S \ {"others"} : calls[c].pc # "idle" THEN spoiled \cup {"overlap"} ELSE spoiled

(* identity.refresh, up to its request *)
BeginRefresh(c) ==
  /\ Request /\ calls[c].pc = "idle" /\ ~Locked
  /\ ident.email # None
  /\ IF keyring[ident.email] # None
     THEN Send(c, ident.email, keyring[ident.email]) /\ UNCHANGED ident
     ELSE ident' = Out /\ UNCHANGED calls
  /\ Beside(Callers \ Coroutines)
  /\ UNCHANGED <<cloudVars, jar, pend, desk, keyring, kin>>

(* _try_refresh_sync: the same, without the lock *)
BeginDeskRefresh ==
  /\ Request /\ calls[Launcher].pc = "idle"
  /\ desk # None /\ keyring[desk] # None
  /\ Send(Launcher, desk, keyring[desk])
  /\ Beside(Callers)
  /\ UNCHANGED <<cloudVars, jar, pend, ident, desk, keyring, kin>>

(* A sign-in, at the launcher or relayed for the browser *)
BeginLogin ==
  /\ Request /\ calls["login"].pc = "idle"
  /\ \E u \in Operators : Send("login", u, None)
  /\ Beside(Callers)
  /\ UNCHANGED <<cloudVars, jar, pend, ident, desk, keyring, kin>>

BeginLogout ==
  /\ Request /\ calls["logout"].pc = "idle"
  /\ ident.email # None
  /\ Send("logout", ident.email, keyring[ident.email])
  /\ spoiled' = spoiled \cup {"logout"}
  /\ UNCHANGED <<cloudVars, jar, pend, ident, desk, keyring, kin>>

(* local_auth.revoke_other_sessions reads the token that tells the cloud    *)
(* which session is this one; request_with_retry sends it again, unchanged, *)
(* after a refresh if the access token has expired.                         *)
BeginRevokeOthers ==
  /\ Request /\ calls["others"].pc = "idle"
  /\ ident.access # None
  /\ Send("others", ident.email, IF ident.email = None THEN None ELSE keyring[ident.email])
  /\ UNCHANGED <<cloudVars, jar, pend, ident, desk, keyring, kin, spoiled>>

Answered(c, ans) == calls' = [calls EXCEPT ![c].pc = "answered", ![c].ans = ans]

(* The cloud handles a call; the answer may get lost, as may the call.      *)
DeliverRefresh(c) ==
  /\ c \in Coroutines \cup {Launcher} /\ calls[c].pc = "sent" /\ lastTok < MaxToks
  /\ LET h == RefreshHandler(calls[c].tok)
         u == calls[c].user
     IN  /\ sess' = h.sess
         /\ lastTok' = IF h.status = 200 THEN lastTok + 1 ELSE lastTok
         /\ replays' = IF h.status = 200 THEN replays \cup {calls[c].tok} ELSE replays
         /\ \/ Answered(c, IF h.status = 200 THEN Ok(u) ELSE Error(401)) /\ UNCHANGED spoiled
            \/ Answered(c, Error(500)) /\ spoiled' = spoiled \cup {"lost"}
  /\ UNCHANGED <<users, roles, killed, cut, ident, desk, keyring, kin, jar, pend, ops>>

DeliverLogin ==
  /\ calls["login"].pc = "sent" /\ lastTok < MaxToks
  /\ LET u == calls["login"].user
     IN  IF users[u].active /\ users[u].failed < Threshold
         THEN /\ sess' = NewSession(u) /\ lastTok' = lastTok + 1
              /\ users' = [users EXCEPT ![u].failed = 0]
              /\ Answered("login", Ok(u))
         ELSE Answered("login", Error(403)) /\ UNCHANGED <<sess, lastTok, users>>
  /\ UNCHANGED <<roles, killed, cut, replays, ident, desk, keyring, kin, jar, pend, spoiled, ops>>

DeliverLogout ==
  /\ calls["logout"].pc = "sent"
  /\ sess' = Revoked(ByHash(calls["logout"].tok))
  /\ Answered("logout", Error(200))
  /\ UNCHANGED <<users, roles, lastTok, killed, cut, replays, ident, desk, keyring, kin, jar, pend, spoiled, ops>>

DeliverRevokeOthers ==
  /\ calls["others"].pc = "sent"
  /\ ident.access # None /\ Accepted(ident.access)
  /\ LET S == SessionsOf(ident.access.user) \ ByHash(calls["others"].tok)
     IN  /\ sess' = Revoked(S)
         /\ spoiled' = IF kin \in S THEN spoiled \cup {"revoked"} ELSE spoiled
  /\ Answered("others", Error(200))
  /\ UNCHANGED <<users, roles, lastTok, killed, cut, replays, ident, desk, keyring, kin, jar, pend, ops>>

LoseCall(c) ==
  /\ calls[c].pc = "sent"
  /\ Answered(c, Error(500))
  /\ UNCHANGED <<cloudVars, ident, desk, keyring, kin, jar, pend, spoiled, ops>>

Return(c) ==
  /\ calls[c].pc = "answered"
  /\ calls' = [calls EXCEPT ![c] = Idle]
  /\ UNCHANGED <<cloudVars, jar, pend, ops>>

(* identity.refresh, from the answer on; another failure changes nothing *)
EndRefresh_KeepsToken(c) ==
  /\ c \in Coroutines /\ Return(c)
  /\ LET ans == calls[c].ans
     IN  IF ans.status = 200 THEN ident' = [ident EXCEPT !.access = ans.access] /\ UNCHANGED keyring
         ELSE IF ans.status = 401 THEN ident' = Out /\ keyring' = [keyring EXCEPT ![calls[c].user] = None]
         ELSE UNCHANGED <<ident, keyring>>
  /\ UNCHANGED <<desk, kin, spoiled>>

EndRefresh(c) ==
  /\ c \in Coroutines /\ Return(c)
  /\ LET ans == calls[c].ans
     IN  IF ans.status = 200
         THEN /\ ident' = [ident EXCEPT !.access = ans.access]
              /\ keyring' = [keyring EXCEPT ![calls[c].user] = ans.tok]
         ELSE IF ans.status = 401
         THEN ident' = Out /\ keyring' = [keyring EXCEPT ![calls[c].user] = None]
         ELSE UNCHANGED <<ident, keyring>>
  /\ UNCHANGED <<desk, kin, spoiled>>

(* _try_refresh_sync, and update_access_token; the launcher may have signed *)
(* out meanwhile, and then the answer is dropped                            *)
EndDeskRefresh ==
  /\ Return(Launcher)
  /\ LET ans == calls[Launcher].ans
     IN  IF ans.status = 200 /\ desk # None
         THEN /\ keyring' = [keyring EXCEPT ![desk] = ans.tok]
              /\ ident' = IF ident.access = None THEN ident ELSE [ident EXCEPT !.access = ans.access]
         ELSE UNCHANGED <<keyring, ident>>
  /\ UNCHANGED <<desk, kin, spoiled>>

(* _on_login_success; the relay in local_auth.login leaves the launcher out *)
EndLogin ==
  /\ Return("login")
  /\ LET u == calls["login"].user
         ans == calls["login"].ans
     IN  IF ans.status = 200
         THEN /\ keyring' = [keyring EXCEPT ![u] = ans.tok]
              /\ ident' = [email |-> u, access |-> ans.access]
              /\ desk' \in {u, desk}
              /\ kin' = CHOOSE k \in ByHash(ans.tok) \cup {0} : k # 0 \/ ByHash(ans.tok) = {}
              /\ spoiled' = (IF \E c \in Callers \ {"login"} : calls[c].pc # "idle" THEN {"overlap"} ELSE {})
                            \cup (IF \E k \in ByHash(ans.tok) : CanRefresh(k) THEN {} ELSE {"ended"})
                            \cup (IF \E v \in Operators \ {u} : ByHash(keyring[v]) \cap SessionsOf(u) # {}
                                  THEN {"foreign"} ELSE {})
         ELSE UNCHANGED <<keyring, ident, desk, kin, spoiled>>

(* identity.logout, whatever became of its call *)
EndLogout ==
  /\ Return("logout")
  /\ keyring' = [keyring EXCEPT ![calls["logout"].user] = None]
  /\ ident' = Out
  /\ UNCHANGED <<desk, kin, spoiled>>

EndRevokeOthers == Return("others") /\ UNCHANGED <<ident, desk, keyring, kin, spoiled>>

(* _on_server_stopped *)
ServerStops ==
  /\ Request /\ desk # None
  /\ desk' = None /\ ident' = Out
  /\ Beside({Launcher})
  /\ UNCHANGED <<cloudVars, keyring, calls, kin, jar, pend>>

-----------------------------------------------------------------------------
Browsing(u) == BrowserLogin(u) \/ BadPassword(u) \/ LockEnds(u) \/ BrowserRefresh(u)
                 \/ BrowserLogout(u) \/ RevokeSession(u) \/ RevokeOthers(u)
Agent == \/ \E c \in Coroutines : BeginRefresh(c) \/ EndRefresh(c)
         \/ BeginDeskRefresh \/ EndDeskRefresh \/ BeginLogin \/ EndLogin
         \/ BeginLogout \/ EndLogout \/ BeginRevokeOthers \/ EndRevokeOthers \/ ServerStops
Network == DeliverRevokeOthers \/ DeliverLogin \/ DeliverLogout \/ \E c \in Callers : DeliverRefresh(c) \/ LoseCall(c)

Next == \/ \E u \in Users : Browsing(u) \/ \E t \in Tabs : Authorize(t, u)
        \/ \E t \in Tabs : AdminStep(t)
        \/ SessionExpires \/ Agent \/ Network

Spec == Init /\ [][Next]_vars

-----------------------------------------------------------------------------
Access == [user : Users, tv : Nat]
Answer == [status : {200, 401, 403, 500}, tok : Nat \cup {None}, access : Access \cup {None}]

Account == [active : BOOLEAN, tv : Nat, role : Roles \cup {SystemRole},
            over : [Perms \cup {Manage} -> {"grant", "deny", None}], failed : Nat]

TypeOK ==
  /\ users \in [Users -> Account]
  /\ roles \in [Roles \cup {SystemRole} -> (SUBSET (Perms \cup {Manage})) \cup {None}]
  /\ sess \in Seq([user : Users, tok : Nat, live : BOOLEAN, expired : BOOLEAN])
  /\ lastTok \in Nat
  /\ jar \in [Users -> [tok : Nat, tv : Nat] \cup {None}]
  /\ pend \in [Tabs -> Users \cup {None}]
  /\ ident \in [email : Operators \cup {None}, access : Access \cup {None}]
  /\ desk \in Operators \cup {None}
  /\ keyring \in [Operators -> Nat \cup {None}]
  /\ calls \in [Callers -> [pc : {"idle", "sent", "answered"}, user : Operators \cup {None},
                            tok : Nat \cup {None}, ans : Answer \cup {None}]]
  /\ \A c \in Callers :
       /\ calls[c].pc # "idle" /\ c # "others" => calls[c].user \in Operators
       /\ calls[c].pc = "answered" => calls[c].ans \in Answer
  /\ killed \subseteq DOMAIN sess /\ cut \subseteq DOMAIN sess
  /\ ops \in 0..MaxOps

(* However the requests of several administrators are checked and then run, *)
(* somebody can still administer: patch_user refuses the last active admin. *)
LastAdmin == \E u \in Admins : users[u].active

(* A session that a deactivation or a password reset ended is never         *)
(* refreshed or alive again.  Live sessions belong to active users, but for *)
(* those a request was cut short of, and repeating the request ends them.   *)
EndedStaysEnded ==
  /\ \A k \in killed : ~sess[k].live /\ k \notin cut
  /\ \A k \in DOMAIN sess : sess[k].live => users[sess[k].user].active \/ k \in cut

(* While nothing ended the agent's session, no answer was lost, the         *)
(* launcher's refresh never overlapped with identity's and no refresh put   *)
(* one of its account's tokens under another account, the keyring holds the *)
(* token that the cloud will accept next: refreshes of crawls, of the proxy *)
(* and of the launcher hand it on.                                          *)
KeyringLive ==
  (/\ spoiled = {} /\ kin # None
   /\ \A c \in Callers : calls[c].pc = "idle" \/ c = "login") =>
     /\ keyring[sess[kin].user] = sess[kin].tok
     /\ CanRefresh(kin)

(* What makes KeyringLive inductive.  The cloud gives every session a token *)
(* of its own, a token of its own to every sign-in ...                      *)
Refreshers == Coroutines \cup {Launcher}
Renewed(c) == calls[c].pc = "answered" /\ calls[c].ans.status = 200

Issued ==
  /\ \A k \in DOMAIN sess : sess[k].tok \in 1..lastTok
  /\ \A j, k \in DOMAIN sess : sess[j].tok = sess[k].tok => j = k
  /\ \A u \in Users : jar[u] # None => jar[u].tok \in 1..lastTok
  /\ \A u \in Operators : keyring[u] # None => keyring[u] \in 1..lastTok
  /\ \A c \in Refreshers \cup {"login"} : Renewed(c) => calls[c].ans.tok \in 1..lastTok
  /\ Renewed("login") =>
       /\ \A k \in ByHash(calls["login"].ans.tok) : sess[k].user = calls["login"].user
       /\ \A u \in Users : jar[u] # None => jar[u].tok # calls["login"].ans.tok

(* ... and, while nothing spoiled the agent's session, one caller at a time *)
(* holds its token: the keyring, or the answer that a refresh brings back.  *)
Owner == sess[kin].user

OneCaller ==
  /\ calls["logout"].pc = "idle"
  /\ \A c, d \in Refreshers \cup {"login"} :
       calls[c].pc # "idle" /\ calls[d].pc # "idle" => c = d

Presented(c) ==
  calls[c].pc # "idle" =>
    /\ calls[c].user = IF c = Launcher THEN desk ELSE Owner
    /\ calls[c].tok = keyring[calls[c].user]

BroughtBack(c) ==
  calls[c].pc = "answered" =>
    IF calls[c].user = Owner
    THEN calls[c].ans.status # 401 /\ (Renewed(c) => calls[c].ans.tok = sess[kin].tok)
    ELSE Renewed(c) => \A k \in SessionsOf(Owner) : sess[k].tok # calls[c].ans.tok

Held ==
  /\ kin \in DOMAIN sess /\ CanRefresh(kin)
  /\ Owner \in Operators /\ ident.email \in {Owner, None}
  /\ OneCaller
  /\ \A c \in Refreshers : Presented(c) /\ BroughtBack(c)
  /\ (\A c \in Refreshers : ~(Renewed(c) /\ calls[c].user = Owner))
       => keyring[Owner] = sess[kin].tok
  /\ \A v \in Operators \ {Owner} : \A k \in SessionsOf(Owner) : keyring[v] # sess[k].tok
  /\ \A u \in Users : jar[u] # None => jar[u].tok # sess[kin].tok

Guarded == spoiled = {} /\ kin # None => Held

(* A session that had to end is not refreshed any more. *)
EndsOrDies == \A k \in cut : ~CanRefresh(k)

(* "Sign out other sessions" ends other sessions: the one whose token the   *)
(* agent holds when the cloud answers is spared.                            *)
OthersSpareSelf ==
  [][DeliverRevokeOthers =>
       \A k \in ByHash(keyring[ident.access.user]) : sess[k].live => sess'[k].live]_vars

(* Every session of a user is ended for a replay only when a token was      *)
(* presented that had been rotated away.                                    *)
FamilyEndsOnReplay ==
  [][\A c \in Coroutines \cup {Launcher} :
       (DeliverRefresh(c) /\ Cardinality({k \in DOMAIN sess : sess[k].live /\ ~sess'[k].live}) > 0)
         => calls[c].tok \in replays]_vars

(* A collision of two refreshes costs one of them, not the session: the     *)
(* agent drops its token only when the cloud would refuse that token.       *)
CollisionOnlyDelays ==
  [][\A u \in Operators :
       (\E c \in Coroutines : EndRefresh(c)) /\ keyring[u] # None /\ keyring'[u] = None =>
          \A k \in ByHash(keyring[u]) : ~CanRefresh(k)]_vars
=============================================================================
