--------------------------- MODULE Session_proofs ---------------------------
(***************************************************************************)
(* Theorems about Session, for every number of users, roles, coroutines,   *)
(* administrators' requests, sessions and calls.                           *)
(***************************************************************************)
EXTENDS Session, FiniteSetTheorems, SequenceTheorems, TLAPS

Sessions == [user : Users, tok : Nat, live : BOOLEAN, expired : BOOLEAN]

-----------------------------------------------------------------------------
(* Changes of user_sessions: rows are revoked, appended, rotated or expire. *)

LEMMA DomainSess ==
  ASSUME sess \in Seq(Sessions)
  PROVE  /\ Len(sess) \in Nat /\ DOMAIN sess = 1..Len(sess)
         /\ \A k \in DOMAIN sess : sess[k] \in Sessions
BY LenProperties, ElementOfSeq

LEMMA RevokedRows ==
  ASSUME sess \in Seq(Sessions), NEW S
  PROVE  /\ Revoked(S) \in Seq(Sessions)
         /\ DOMAIN Revoked(S) = DOMAIN sess
         /\ \A k \in DOMAIN sess :
              /\ Revoked(S)[k].user = sess[k].user
              /\ Revoked(S)[k].tok = sess[k].tok
              /\ Revoked(S)[k].expired = sess[k].expired
              /\ Revoked(S)[k].live = (k \notin S /\ sess[k].live)
<1>1. Len(sess) \in Nat /\ DOMAIN sess = 1..Len(sess)
  BY DomainSess
<1>2. \A k \in DOMAIN sess : sess[k] \in Sessions
  BY DomainSess
<1>3. \A k \in DOMAIN sess :
        /\ Revoked(S)[k] \in Sessions
        /\ Revoked(S)[k].user = sess[k].user
        /\ Revoked(S)[k].tok = sess[k].tok
        /\ Revoked(S)[k].expired = sess[k].expired
        /\ Revoked(S)[k].live = (k \notin S /\ sess[k].live)
  BY <1>2 DEF Revoked, Sessions
<1>4. Revoked(S) \in [1..Len(sess) -> Sessions]
  BY <1>1, <1>3 DEF Revoked
<1>5. Revoked(S) \in Seq(Sessions)
  BY <1>1, <1>4, SeqDef
<1> QED
  BY <1>3, <1>5 DEF Revoked

LEMMA NewRow ==
  ASSUME sess \in Seq(Sessions), lastTok \in Nat, NEW u \in Users
  PROVE  /\ NewSession(u) \in Seq(Sessions)
         /\ Len(sess) + 1 \notin DOMAIN sess
         /\ DOMAIN NewSession(u) = DOMAIN sess \cup {Len(sess) + 1}
         /\ \A k \in DOMAIN sess : NewSession(u)[k] = sess[k]
         /\ NewSession(u)[Len(sess) + 1] =
              [user |-> u, tok |-> lastTok + 1, live |-> TRUE, expired |-> FALSE]
<1> DEFINE row == [user |-> u, tok |-> lastTok + 1, live |-> TRUE, expired |-> FALSE]
<1>1. Len(sess) \in Nat /\ DOMAIN sess = 1..Len(sess)
  BY DomainSess
<1>2. row \in Sessions
  BY DEF Sessions
<1>3. NewSession(u) = Append(sess, row)
  BY DEF NewSession
<1> HIDE DEF row
<1>4. /\ NewSession(u) \in Seq(Sessions)
      /\ Len(NewSession(u)) = Len(sess) + 1
      /\ \A i \in 1..Len(sess) : NewSession(u)[i] = sess[i]
      /\ NewSession(u)[Len(sess) + 1] = row
  BY <1>2, <1>3, AppendProperties
<1>5. DOMAIN NewSession(u) = 1..(Len(sess) + 1)
  BY <1>4, LenProperties
<1> QED
  BY <1>1, <1>4, <1>5 DEF row

LEMMA ChangedRow ==
  ASSUME sess \in Seq(Sessions), NEW k \in DOMAIN sess, NEW row \in Sessions
  PROVE  /\ [sess EXCEPT ![k] = row] \in Seq(Sessions)
         /\ DOMAIN [sess EXCEPT ![k] = row] = DOMAIN sess
         /\ [sess EXCEPT ![k] = row][k] = row
         /\ \A j \in DOMAIN sess \ {k} : [sess EXCEPT ![k] = row][j] = sess[j]
BY DomainSess, ExceptSeq

LEMMA RotatedRow ==
  ASSUME sess \in Seq(Sessions), lastTok \in Nat, NEW k \in DOMAIN sess
  PROVE  /\ Rotated(k) \in Seq(Sessions)
         /\ DOMAIN Rotated(k) = DOMAIN sess
         /\ \A j \in DOMAIN sess \ {k} : Rotated(k)[j] = sess[j]
         /\ Rotated(k)[k] = [sess[k] EXCEPT !.tok = lastTok + 1]
<1>1. sess[k] \in Sessions
  BY DomainSess
<1>2. [sess[k] EXCEPT !.tok = lastTok + 1] \in Sessions
  BY <1>1 DEF Sessions
<1>3. Rotated(k) = [sess EXCEPT ![k] = [sess[k] EXCEPT !.tok = lastTok + 1]]
  BY DEF Rotated
<1> QED
  BY <1>2, <1>3, ChangedRow

(* refresh answers 200 only for a session that may be refreshed, which it   *)
(* rotates; else it revokes the user's sessions or changes nothing.         *)
LEMMA RefreshOutcome ==
  ASSUME NEW tok
  PROVE  LET h == RefreshHandler(tok)
         IN  \/ \E k \in ByHash(tok) :
                  h.status = 200 /\ CanRefresh(k) /\ h.sess = Rotated(k)
             \/ \E k \in ByHash(tok) :
                  h.status = 401 /\ ~sess[k].live /\ h.sess = Revoked(SessionsOf(sess[k].user))
             \/ h.status = 401 /\ h.sess = sess
                  /\ (ByHash(tok) = {} \/ \E k \in ByHash(tok) : sess[k].live /\ ~CanRefresh(k))
<1> DEFINE k == CHOOSE k \in ByHash(tok) : TRUE
<1>1. CASE ByHash(tok) = {}
  BY <1>1 DEF RefreshHandler
<1>2. CASE ByHash(tok) # {}
  <2>1. k \in ByHash(tok)
    BY <1>2
  <2>2. CASE ~sess[k].live
    BY <1>2, <2>1, <2>2 DEF RefreshHandler
  <2>3. CASE sess[k].live /\ ~CanRefresh(k)
    BY <1>2, <2>1, <2>3 DEF RefreshHandler
  <2>4. CASE sess[k].live /\ CanRefresh(k)
    BY <1>2, <2>1, <2>4 DEF RefreshHandler
  <2> QED
    BY <2>2, <2>3, <2>4
<1> QED
  BY <1>1, <1>2
-----------------------------------------------------------------------------
(* What a step may do to the sessions.                                     *)
Moved ==
  \/ UNCHANGED <<sess, lastTok>>
  \/ (\E S : sess' = Revoked(S)) /\ lastTok' = lastTok
  \/ \E u \in Users : users[u].active /\ sess' = NewSession(u) /\ lastTok' = lastTok + 1
  \/ \E k \in DOMAIN sess : CanRefresh(k) /\ sess' = Rotated(k) /\ lastTok' = lastTok + 1
  \/ \E k \in DOMAIN sess : sess' = [sess EXCEPT ![k].expired = TRUE] /\ lastTok' = lastTok

LEMMA SessionMoves == TypeOK /\ [Next]_vars => Moved
<1> SUFFICES ASSUME TypeOK, [Next]_vars PROVE Moved
  OBVIOUS
<1> USE DEF cloudVars, agentVars
<1>1. ASSUME NEW tok,
             LET h == RefreshHandler(tok)
             IN  sess' = h.sess /\ lastTok' = IF h.status = 200 THEN lastTok + 1 ELSE lastTok
      PROVE  Moved
  BY <1>1, RefreshOutcome DEF ByHash, Moved
<1>2. ASSUME NEW u \in Users, Browsing(u) PROVE Moved
  <2>1. CASE BrowserRefresh(u)
    <3>1. LET h == RefreshHandler(jar[u].tok)
          IN  sess' = h.sess /\ lastTok' = IF h.status = 200 THEN lastTok + 1 ELSE lastTok
      BY <2>1 DEF BrowserRefresh
    <3> QED
      BY <1>1, <3>1
  <2>2. CASE BrowserLogin(u)
    BY <2>2 DEF BrowserLogin, Moved
  <2>3. CASE BadPassword(u) \/ LockEnds(u)
    BY <2>3 DEF BadPassword, LockEnds, Moved
  <2>4. CASE BrowserLogout(u) \/ RevokeSession(u) \/ RevokeOthers(u)
    BY <2>4 DEF BrowserLogout, RevokeSession, RevokeOthers, EndSessions, Moved
  <2> QED
    BY <1>2, <2>1, <2>2, <2>3, <2>4 DEF Browsing
<1>3. ASSUME NEW t \in Tabs, AdminStep(t) PROVE Moved
  BY <1>3 DEF AdminStep, CutShort, PatchActive, PatchRole, ResetPassword, SetPermission, SaveRole,
              DeleteRole, Handle, EndAll, Moved
<1>4. CASE SessionExpires
  BY <1>4 DEF SessionExpires, Moved
<1>5. CASE Agent
  BY <1>5 DEF Agent, BeginRefresh, EndRefresh, BeginDeskRefresh, EndDeskRefresh, BeginLogin,
              EndLogin, BeginLogout, EndLogout, BeginRevokeOthers, EndRevokeOthers,
              ServerStops, Return, Moved
<1>6. CASE Network
  <2>1. ASSUME NEW c \in Callers, DeliverRefresh(c) PROVE Moved
    <3>1. LET h == RefreshHandler(calls[c].tok)
          IN  sess' = h.sess /\ lastTok' = IF h.status = 200 THEN lastTok + 1 ELSE lastTok
      BY <2>1 DEF DeliverRefresh
    <3> QED
      BY <1>1, <3>1
  <2>2. ASSUME NEW c \in Callers, LoseCall(c) PROVE Moved
    BY <2>2 DEF LoseCall, Moved
  <2>3. CASE DeliverLogin
    <3>1. calls["login"].user \in Users
      BY <2>3, SessionAssumption DEF DeliverLogin, TypeOK, Callers
    <3> QED
      BY <2>3, <3>1 DEF DeliverLogin, Moved
  <2>4. CASE DeliverLogout \/ DeliverRevokeOthers
    BY <2>4 DEF DeliverLogout, DeliverRevokeOthers, Moved
  <2> QED
    BY <1>6, <2>1, <2>2, <2>3, <2>4 DEF Network
<1>7. ASSUME NEW t \in Tabs, NEW u \in Users, Authorize(t, u) PROVE Moved
  BY <1>7 DEF Authorize, Moved
<1>8. CASE UNCHANGED vars
  BY <1>8 DEF vars, Moved
<1> QED
  BY <1>2, <1>3, <1>4, <1>5, <1>6, <1>7, <1>8 DEF Next

(* Rows are never removed, keep their user and never come alive again.     *)
LEMMA RowsKept ==
  ASSUME TypeOK, Moved
  PROVE  /\ sess' \in Seq(Sessions) /\ lastTok' \in Nat
         /\ DOMAIN sess \subseteq DOMAIN sess'
         /\ \A k \in DOMAIN sess :
              /\ sess'[k].user = sess[k].user
              /\ sess'[k].live => sess[k].live
              /\ sess'[k].tok \in {sess[k].tok, lastTok + 1}
         /\ \A k \in DOMAIN sess' \ DOMAIN sess :
              /\ users[sess'[k].user].active /\ sess'[k].user \in Users
              /\ sess'[k].tok = lastTok + 1 /\ lastTok' = lastTok + 1
<1> DEFINE Kept ==
             /\ sess' \in Seq(Sessions) /\ lastTok' \in Nat
             /\ DOMAIN sess \subseteq DOMAIN sess'
             /\ \A k \in DOMAIN sess :
                  /\ sess'[k].user = sess[k].user
                  /\ sess'[k].live => sess[k].live
                  /\ sess'[k].tok \in {sess[k].tok, lastTok + 1}
             /\ \A k \in DOMAIN sess' \ DOMAIN sess :
                  /\ users[sess'[k].user].active /\ sess'[k].user \in Users
                  /\ sess'[k].tok = lastTok + 1 /\ lastTok' = lastTok + 1
<1> SUFFICES Kept
  OBVIOUS
<1>0. sess \in Seq(Sessions) /\ lastTok \in Nat
  BY DEF TypeOK, Sessions
<1>1. CASE UNCHANGED <<sess, lastTok>>
  BY <1>0, <1>1
<1>2. CASE \E S : sess' = Revoked(S) /\ lastTok' = lastTok
  BY <1>0, <1>2, RevokedRows
<1>3. ASSUME NEW u \in Users, users[u].active, sess' = NewSession(u), lastTok' = lastTok + 1
      PROVE  Kept
  <2> DEFINE n == Len(sess) + 1
  <2>1. /\ sess' \in Seq(Sessions) /\ lastTok' \in Nat
        /\ DOMAIN sess' = DOMAIN sess \cup {n}
        /\ \A k \in DOMAIN sess : sess'[k] = sess[k]
        /\ sess'[n].user = u /\ sess'[n].tok = lastTok + 1
    <3>1. /\ NewSession(u) \in Seq(Sessions)
          /\ DOMAIN NewSession(u) = DOMAIN sess \cup {n}
          /\ \A k \in DOMAIN sess : NewSession(u)[k] = sess[k]
          /\ NewSession(u)[n] =
               [user |-> u, tok |-> lastTok + 1, live |-> TRUE, expired |-> FALSE]
      BY <1>0, NewRow
    <3>2. lastTok' \in Nat
      BY <1>0, <1>3
    <3> HIDE DEF n
    <3> QED
      BY <1>3, <3>1, <3>2
  <2> QED
    BY <1>3, <2>1
<1>4. ASSUME NEW k \in DOMAIN sess, CanRefresh(k), sess' = Rotated(k), lastTok' = lastTok + 1
      PROVE  Kept
  <2>1. sess[k] \in Sessions
    BY <1>0, DomainSess
  <2>2. /\ sess' \in Seq(Sessions) /\ lastTok' \in Nat
        /\ DOMAIN sess' = DOMAIN sess
        /\ \A j \in DOMAIN sess \ {k} : sess'[j] = sess[j]
        /\ sess'[k] = [sess[k] EXCEPT !.tok = lastTok + 1]
    BY <1>0, <1>4, RotatedRow
  <2>3. /\ sess'[k].user = sess[k].user /\ sess'[k].live = sess[k].live
        /\ sess'[k].tok = lastTok + 1
    BY <2>1, <2>2 DEF Sessions
  <2> QED
    BY <2>2, <2>3
<1>5. ASSUME NEW k \in DOMAIN sess, sess' = [sess EXCEPT ![k].expired = TRUE], lastTok' = lastTok
      PROVE  Kept
  <2>1. sess[k] \in Sessions /\ [sess[k] EXCEPT !.expired = TRUE] \in Sessions
    BY <1>0, DomainSess DEF Sessions
  <2> QED
    BY <1>0, <1>5, <2>1, ChangedRow DEF Sessions
<1> QED
  BY <1>1, <1>2, <1>3, <1>4, <1>5 DEF Moved
-----------------------------------------------------------------------------
(* Who may sign in changes in patch_user only, which never takes the last  *)
(* active admin; sessions are ended with the account or its password.      *)
Managed ==
  \/ /\ killed' = killed /\ cut' = cut
     /\ \A u \in Users : users[u].active => users'[u].active
  \/ \E u \in Users :
       /\ \/ /\ sess' = Revoked(SessionsOf(u)) /\ killed' = killed \cup SessionsOf(u)
             /\ cut' = cut \ SessionsOf(u)
          \/ /\ sess' = sess /\ killed' = killed
             /\ cut' = cut \cup {k \in SessionsOf(u) : sess[k].live}
       /\ \A v \in Users \ {u} : users'[v].active = users[v].active
       /\ users[u].active => users'[u].active \/ u \notin Admins \/ ~(Cardinality(ActiveAdmins) <= 1)

LEMMA AccountsManaged == TypeOK /\ [Next]_vars => Managed
<1> SUFFICES ASSUME TypeOK, [Next]_vars PROVE Managed
  OBVIOUS
<1> USE DEF cloudVars, agentVars
<1>0. users \in [Users -> Account]
  BY DEF TypeOK
<1>1. ASSUME killed' = killed, cut' = cut, users' = users PROVE Managed
  BY <1>1 DEF Managed
<1>2. ASSUME NEW u \in Users, Browsing(u) PROVE Managed
  BY <1>0, <1>2 DEF Browsing, BrowserLogin, BadPassword, LockEnds, BrowserRefresh,
       BrowserLogout, RevokeSession, RevokeOthers, EndSessions, Managed, Account
<1>3. ASSUME NEW t \in Tabs, PatchActive(t) PROVE Managed
  <2>1. PICK u \in Users, on \in BOOLEAN :
          /\ ~(~on /\ LastOne(u))
          /\ users' = [users EXCEPT ![u].active = on, ![u].tv = IF on THEN @ ELSE @ + 1]
          /\ IF on THEN UNCHANGED <<sess, killed, cut, spoiled>> ELSE EndAll(u)
    BY <1>3 DEF PatchActive
  <2>2. /\ \A v \in Users \ {u} : users'[v] = users[v]
        /\ users'[u].active = on
    BY <1>0, <2>1
  <2>3. CASE on
    BY <2>1, <2>2, <2>3 DEF Managed
  <2>4. CASE ~on
    BY <2>1, <2>2, <2>4 DEF Managed, EndAll, LastOne
  <2> QED
    BY <2>3, <2>4
<1>4. ASSUME NEW t \in Tabs, ResetPassword(t) PROVE Managed
  <2>1. PICK u \in Users : users' = [users EXCEPT ![u].tv = @ + 1] /\ EndAll(u)
    BY <1>4 DEF ResetPassword
  <2>2. \A v \in Users : users'[v].active = users[v].active
    BY <1>0, <2>1
  <2> QED
    BY <2>1, <2>2 DEF Managed, EndAll
<1>5. ASSUME NEW t \in Tabs,
             PatchRole(t) \/ SetPermission(t) \/ SaveRole(t) \/ DeleteRole(t)
      PROVE  Managed
  <2>1. killed' = killed /\ cut' = cut /\ \A v \in Users : users'[v].active = users[v].active
    BY <1>0, <1>5 DEF PatchRole, SetPermission, SaveRole, DeleteRole, Account
  <2> QED
    BY <2>1 DEF Managed
<1>11. ASSUME NEW t \in Tabs, CutShort(t) PROVE Managed
  <2>1. PICK u \in Users, off \in BOOLEAN :
          /\ ~(off /\ LastOne(u))
          /\ users' = [users EXCEPT ![u].active = @ /\ ~off, ![u].tv = @ + 1]
          /\ cut' = cut \cup {k \in SessionsOf(u) : sess[k].live}
    BY <1>11 DEF CutShort
  <2>2. /\ \A v \in Users \ {u} : users'[v].active = users[v].active
        /\ users[u].active => users'[u].active \/ off
    BY <1>0, <2>1 DEF Account
  <2>3. users[u].active => users'[u].active \/ u \notin Admins \/ ~(Cardinality(ActiveAdmins) <= 1)
    BY <2>1, <2>2 DEF LastOne
  <2>4. sess' = sess /\ killed' = killed
    BY <1>11 DEF CutShort
  <2> QED
    BY <2>1, <2>2, <2>3, <2>4 DEF Managed
<1>6. CASE SessionExpires
  BY <1>1, <1>6 DEF SessionExpires
<1>7. CASE Agent
  BY <1>1, <1>7 DEF Agent, BeginRefresh, EndRefresh, BeginDeskRefresh, EndDeskRefresh,
       BeginLogin, EndLogin, BeginLogout, EndLogout, BeginRevokeOthers, EndRevokeOthers,
       ServerStops, Return
<1>8. CASE Network
  <2>1. killed' = killed /\ cut' = cut /\ \A v \in Users : users'[v].active = users[v].active
    BY <1>0, <1>8 DEF Network, DeliverRefresh, DeliverLogin, DeliverLogout,
         DeliverRevokeOthers, LoseCall, Account
  <2> QED
    BY <2>1 DEF Managed
<1>9. ASSUME NEW t \in Tabs, NEW u \in Users, Authorize(t, u) PROVE Managed
  BY <1>1, <1>9 DEF Authorize
<1>10. CASE UNCHANGED vars
  BY <1>1, <1>10 DEF vars
<1> QED
  BY <1>2, <1>3, <1>4, <1>5, <1>6, <1>7, <1>8, <1>9, <1>10, <1>11 DEF Next, AdminStep

(* Sessions only ever stop being alive, and start for an active user.      *)
LEMMA EndedStep ==
  TypeOK /\ EndedStaysEnded /\ Moved /\ Managed => EndedStaysEnded'
<1> SUFFICES ASSUME TypeOK, EndedStaysEnded, Moved, Managed PROVE EndedStaysEnded'
  OBVIOUS
<1>0. killed \subseteq DOMAIN sess /\ sess \in Seq(Sessions)
  BY DEF TypeOK, Sessions
<1>1. \A k \in DOMAIN sess : sess[k].user \in Users
  BY <1>0, DomainSess DEF Sessions
<1>2. CASE /\ killed' = killed /\ cut' = cut
           /\ \A u \in Users : users[u].active => users'[u].active
  BY <1>0, <1>1, <1>2, RowsKept DEF EndedStaysEnded
<1>3. ASSUME NEW u \in Users, sess' = Revoked(SessionsOf(u)), killed' = killed \cup SessionsOf(u),
             cut' = cut \ SessionsOf(u),
             \A v \in Users \ {u} : users'[v].active = users[v].active
      PROVE  EndedStaysEnded'
  <2>1. /\ DOMAIN sess' = DOMAIN sess
        /\ \A k \in DOMAIN sess :
             /\ sess'[k].user = sess[k].user
             /\ sess'[k].live = (sess[k].user # u /\ sess[k].live)
    BY <1>0, <1>3, RevokedRows DEF SessionsOf
  <2>2. killed' = killed \cup SessionsOf(u)
    BY <1>3
  <2> QED
    BY <1>0, <1>1, <1>3, <2>1, <2>2 DEF EndedStaysEnded, SessionsOf
<1>4. ASSUME NEW u \in Users, sess' = sess, killed' = killed,
             cut' = cut \cup {k \in SessionsOf(u) : sess[k].live},
             \A v \in Users \ {u} : users'[v].active = users[v].active
      PROVE  EndedStaysEnded'
  <2>1. \A k \in killed' : ~sess'[k].live /\ k \notin cut'
    BY <1>4 DEF EndedStaysEnded
  <2>2. ASSUME NEW k \in DOMAIN sess, sess[k].live
        PROVE  users'[sess[k].user].active \/ k \in cut'
    <3>1. CASE sess[k].user = u
      BY <1>4, <2>2, <3>1 DEF SessionsOf
    <3>2. CASE sess[k].user # u
      BY <1>1, <1>4, <2>2, <3>2 DEF EndedStaysEnded
    <3> QED
      BY <3>1, <3>2
  <2> QED
    BY <1>4, <2>1, <2>2 DEF EndedStaysEnded
<1> QED
  BY <1>2, <1>3, <1>4 DEF Managed

LEMMA LastAdminStep ==
  TypeOK /\ LastAdmin /\ Managed => LastAdmin'
<1> SUFFICES ASSUME LastAdmin, Managed PROVE LastAdmin'
  OBVIOUS
<1>1. CASE \A u \in Users : users[u].active => users'[u].active
  BY <1>1, SessionAssumption DEF LastAdmin
<1>2. ASSUME NEW u \in Users,
             \A v \in Users \ {u} : users'[v].active = users[v].active,
             users[u].active => users'[u].active \/ u \notin Admins \/ ~(Cardinality(ActiveAdmins) <= 1)
      PROVE  LastAdmin'
  <2>1. CASE \E v \in Admins \ {u} : users[v].active
    BY <1>2, <2>1, SessionAssumption DEF LastAdmin
  <2>2. CASE ~ \E v \in Admins \ {u} : users[v].active
    <3>1. u \in Admins /\ users[u].active
      BY <2>2 DEF LastAdmin
    <3>2. ActiveAdmins = {u}
      BY <2>2, <3>1 DEF ActiveAdmins
    <3>3. Cardinality({u}) = 1
      BY FS_Singleton, Zenon
    <3>4. users'[u].active
      BY <1>2, <3>1, <3>2, <3>3
    <3> QED
      BY <3>1, <3>4 DEF LastAdmin
  <2> QED
    BY <2>1, <2>2
<1> QED
  BY <1>1, <1>2 DEF Managed
-----------------------------------------------------------------------------
(* Types.  The cloud's rows, and the agent's variables, in two parts.      *)
CloudTyped ==
  /\ users \in [Users -> Account]
  /\ roles \in [Roles \cup {SystemRole} -> (SUBSET (Perms \cup {Manage})) \cup {None}]
  /\ jar \in [Users -> [tok : Nat, tv : Nat] \cup {None}]
  /\ pend \in [Tabs -> Users \cup {None}]
  /\ ops \in 0..MaxOps

CallTyped(call) ==
  call \in [pc : {"idle", "sent", "answered"}, user : Operators \cup {None},
            tok : Nat \cup {None}, ans : Answer \cup {None}]

AgentTyped ==
  /\ ident \in [email : Operators \cup {None}, access : Access \cup {None}]
  /\ desk \in Operators \cup {None}
  /\ keyring \in [Operators -> Nat \cup {None}]
  /\ calls \in [Callers -> [pc : {"idle", "sent", "answered"}, user : Operators \cup {None},
                            tok : Nat \cup {None}, ans : Answer \cup {None}]]
  /\ \A c \in Callers :
       /\ calls[c].pc # "idle" /\ c # "others" => calls[c].user \in Operators
       /\ calls[c].pc = "answered" => calls[c].ans \in Answer

LEMMA TypeParts ==
  TypeOK <=> /\ CloudTyped /\ AgentTyped
             /\ sess \in Seq(Sessions) /\ lastTok \in Nat /\ killed \subseteq DOMAIN sess
             /\ cut \subseteq DOMAIN sess
BY DEF TypeOK, CloudTyped, AgentTyped, Sessions

LEMMA RequestTyped ==
  ASSUME ops \in 0..MaxOps, Request
  PROVE  ops' \in 0..MaxOps
BY SessionAssumption DEF Request

(* Whatever an agent's call becomes, it stays a call.                      *)
LEMMA CallsTyped ==
  ASSUME AgentTyped, NEW c \in Callers, NEW call, CallTyped(call),
         calls' = [calls EXCEPT ![c] = call],
         call.pc # "idle" /\ c # "others" => call.user \in Operators,
         call.pc = "answered" => call.ans \in Answer,
         ident' \in [email : Operators \cup {None}, access : Access \cup {None}],
         desk' \in Operators \cup {None},
         keyring' \in [Operators -> Nat \cup {None}]
  PROVE  AgentTyped'
<1>1. calls' \in [Callers -> [pc : {"idle", "sent", "answered"}, user : Operators \cup {None},
                              tok : Nat \cup {None}, ans : Answer \cup {None}]]
  BY DEF AgentTyped, CallTyped
<1>2. calls'[c] = call /\ \A d \in Callers \ {c} : calls'[d] = calls[d]
  BY DEF AgentTyped
<1> QED
  BY <1>1, <1>2 DEF AgentTyped

LEMMA SendTyped ==
  ASSUME AgentTyped, NEW c \in Callers, NEW u \in Operators \cup {None}, c # "others" => u \in Operators,
         NEW tok \in Nat \cup {None}, Send(c, u, tok), UNCHANGED <<ident, desk, keyring>>
  PROVE  AgentTyped'
<1> DEFINE call == [pc |-> "sent", user |-> u, tok |-> tok, ans |-> None]
<1>1. CallTyped(call) /\ calls' = [calls EXCEPT ![c] = call]
  BY DEF CallTyped, Send
<1> QED
  BY <1>1, CallsTyped DEF AgentTyped

LEMMA AnswerTyped ==
  ASSUME AgentTyped, NEW c \in Callers, calls[c].pc = "sent", NEW ans \in Answer,
         Answered(c, ans), UNCHANGED <<ident, desk, keyring>>
  PROVE  AgentTyped'
<1> DEFINE call == [calls[c] EXCEPT !.pc = "answered", !.ans = ans]
<1>1. /\ CallTyped(call) /\ calls' = [calls EXCEPT ![c] = call]
      /\ call.user = calls[c].user /\ call.ans = ans
  BY DEF CallTyped, Answered, AgentTyped
<1>2. c # "others" => call.user \in Operators
  BY <1>1 DEF AgentTyped
<1> HIDE DEF call
<1> QED
  BY <1>1, <1>2, CallsTyped DEF AgentTyped

LEMMA ReturnTyped ==
  ASSUME AgentTyped, NEW c \in Callers, Return(c),
         ident' \in [email : Operators \cup {None}, access : Access \cup {None}],
         desk' \in Operators \cup {None},
         keyring' \in [Operators -> Nat \cup {None}]
  PROVE  AgentTyped'
<1>1. CallTyped(Idle) /\ calls' = [calls EXCEPT ![c] = Idle] /\ Idle.pc = "idle"
  BY DEF CallTyped, Return, Idle
<1> QED
  BY <1>1, CallsTyped
(* The columns of a user's row that the handlers write.                    *)
LEMMA AccountChanges ==
  /\ \A a \in Account, n \in Nat : [a EXCEPT !.failed = n] \in Account
  /\ \A a \in Account : [a EXCEPT !.failed = @ + 1] \in Account
  /\ \A a \in Account : [a EXCEPT !.tv = @ + 1] \in Account
  /\ \A a \in Account, on \in BOOLEAN, n \in Nat : [a EXCEPT !.active = on, !.tv = n] \in Account
  /\ \A a \in Account, r \in Roles \cup {SystemRole} : [a EXCEPT !.role = r] \in Account
  /\ \A a \in Account, p \in Perms \cup {Manage}, e \in {"grant", "deny", None} :
       [a EXCEPT !.over[p] = e] \in Account
<1>1. \A a \in Account, n \in Nat : [a EXCEPT !.failed = n] \in Account
  BY DEF Account
<1>2. \A a \in Account : [a EXCEPT !.failed = @ + 1] \in Account
  BY DEF Account
<1>3. \A a \in Account : [a EXCEPT !.tv = @ + 1] \in Account
  BY DEF Account
<1>4. \A a \in Account, on \in BOOLEAN, n \in Nat : [a EXCEPT !.active = on, !.tv = n] \in Account
  BY DEF Account
<1>5. \A a \in Account, r \in Roles \cup {SystemRole} : [a EXCEPT !.role = r] \in Account
  BY DEF Account
<1>6. ASSUME NEW a \in Account, NEW p \in Perms \cup {Manage}, NEW e \in {"grant", "deny", None}
      PROVE  [a EXCEPT !.over[p] = e] \in Account
  <2>1. [a.over EXCEPT ![p] = e] \in [Perms \cup {Manage} -> {"grant", "deny", None}]
    BY <1>6 DEF Account
  <2>2. [a EXCEPT !.over[p] = e] = [a EXCEPT !.over = [a.over EXCEPT ![p] = e]]
    BY <1>6 DEF Account
  <2> QED
    BY <2>1, <2>2 DEF Account
<1> QED
  BY <1>1, <1>2, <1>3, <1>4, <1>5, <1>6

LEMMA CloudStep == TypeOK /\ [Next]_vars => CloudTyped'
<1> SUFFICES ASSUME TypeOK, [Next]_vars PROVE CloudTyped'
  OBVIOUS
<1>0. CloudTyped /\ AgentTyped /\ lastTok \in Nat
  BY TypeParts
<1>req. Request => ops' \in 0..MaxOps
  BY <1>0, RequestTyped DEF CloudTyped
<1> USE DEF cloudVars, agentVars, CloudTyped
<1>1. ASSUME NEW u \in Users, Browsing(u) PROVE CloudTyped'
  <2>1. [tok |-> lastTok + 1, tv |-> users[u].tv] \in [tok : Nat, tv : Nat]
    BY <1>0 DEF Account
  <2>2. CASE BrowserLogin(u)
    <3>1. users' = [users EXCEPT ![u] = [users[u] EXCEPT !.failed = 0]]
      BY <2>2 DEF BrowserLogin
    <3>2. users' \in [Users -> Account]
      BY <1>0, <3>1, AccountChanges
    <3> QED
      BY <1>0, <1>req, <2>1, <2>2, <3>2 DEF BrowserLogin
  <2>3. CASE BadPassword(u)
    <3>1. users' = [users EXCEPT ![u] = [users[u] EXCEPT !.failed = @ + 1]]
      BY <2>3 DEF BadPassword
    <3>2. users' \in [Users -> Account]
      BY <1>0, <3>1, AccountChanges
    <3> QED
      BY <1>0, <1>req, <2>3, <3>2 DEF BadPassword
  <2>4. CASE LockEnds(u)
    <3>1. /\ users' = [users EXCEPT ![u] = [users[u] EXCEPT !.failed = Threshold - 1]]
          /\ Threshold - 1 \in Nat
      BY <2>4, SessionAssumption DEF LockEnds
    <3>2. users' \in [Users -> Account]
      BY <1>0, <3>1, AccountChanges
    <3> QED
      BY <1>0, <2>4, <3>2 DEF LockEnds
  <2>5. CASE BrowserRefresh(u)
    <3>1. \/ jar' = [jar EXCEPT ![u] = [tok |-> lastTok + 1, tv |-> users[u].tv]]
          \/ jar' = [jar EXCEPT ![u] = None]
      BY <2>5 DEF BrowserRefresh
    <3>2. UNCHANGED <<users, roles, pend>> /\ Request
      BY <2>5 DEF BrowserRefresh
    <3>3. jar' \in [Users -> [tok : Nat, tv : Nat] \cup {None}]
      BY <1>0, <2>1, <3>1
    <3> QED
      BY <1>0, <1>req, <3>2, <3>3
  <2>6. CASE BrowserLogout(u) \/ RevokeSession(u) \/ RevokeOthers(u)
    BY <1>0, <1>req, <2>6 DEF BrowserLogout, RevokeSession, RevokeOthers, EndSessions
  <2> QED
    BY <1>1, <2>2, <2>3, <2>4, <2>5, <2>6 DEF Browsing
<1>2. ASSUME NEW t \in Tabs, AdminStep(t), ~CutShort(t) PROVE CloudTyped'
  <2>1. Handle(t)
    BY <1>2 DEF AdminStep, PatchActive, PatchRole, ResetPassword, SetPermission, SaveRole, DeleteRole
  <2>2. jar' = jar /\ ops' = ops /\ pend' \in [Tabs -> Users \cup {None}]
    BY <1>0, <2>1 DEF Handle
  <2>3. CASE PatchActive(t)
    <3>1. PICK u \in Users, on \in BOOLEAN :
            users' = [users EXCEPT ![u].active = on, ![u].tv = IF on THEN @ ELSE @ + 1]
      BY <2>3 DEF PatchActive
    <3>2. \E n \in Nat : users' = [users EXCEPT ![u] = [users[u] EXCEPT !.active = on, !.tv = n]]
      <4>1. users[u].tv \in Nat /\ users[u].tv + 1 \in Nat
        BY <1>0 DEF Account
      <4>2. CASE on
        BY <1>0, <3>1, <4>1, <4>2
      <4>3. CASE ~on
        BY <1>0, <3>1, <4>1, <4>3
      <4> QED
        BY <4>2, <4>3
    <3>3. \A n \in Nat : [users[u] EXCEPT !.active = on, !.tv = n] \in Account
      BY <1>0, AccountChanges
    <3>4. users' \in [Users -> Account]
      BY <1>0, <3>2, <3>3
    <3> QED
      BY <1>0, <2>2, <2>3, <3>4 DEF PatchActive
  <2>4. CASE PatchRole(t)
    <3>1. PICK u \in Users, r \in Roles \cup {SystemRole} :
            users' = [users EXCEPT ![u] = [users[u] EXCEPT !.role = r]]
      BY <1>0, <2>4 DEF PatchRole
    <3>2. users' \in [Users -> Account]
      BY <1>0, <3>1, AccountChanges
    <3> QED
      BY <1>0, <2>2, <2>4, <3>2 DEF PatchRole
  <2>5. CASE ResetPassword(t)
    <3>1. PICK u \in Users : users' = [users EXCEPT ![u] = [users[u] EXCEPT !.tv = @ + 1]]
      BY <2>5 DEF ResetPassword
    <3>2. users' \in [Users -> Account]
      BY <1>0, <3>1, AccountChanges
    <3> QED
      BY <1>0, <2>2, <2>5, <3>2 DEF ResetPassword
  <2>6. CASE SetPermission(t)
    <3>1. PICK u \in Users, p \in Perms \cup {Manage}, e \in {"grant", "deny", None} :
            users' = [users EXCEPT ![u] = [users[u] EXCEPT !.over[p] = e]]
      BY <2>6 DEF SetPermission
    <3>2. users' \in [Users -> Account]
      BY <1>0, <3>1, AccountChanges
    <3> QED
      BY <1>0, <2>2, <2>6, <3>2 DEF SetPermission
  <2>7. CASE SaveRole(t) \/ DeleteRole(t)
    BY <1>0, <2>2, <2>7 DEF SaveRole, DeleteRole
  <2> QED
    BY <1>2, <2>3, <2>4, <2>5, <2>6, <2>7 DEF AdminStep
<1>c. ASSUME NEW t \in Tabs, CutShort(t) PROVE CloudTyped'
  <2>1. PICK u \in Users, off \in BOOLEAN :
          users' = [users EXCEPT ![u].active = @ /\ ~off, ![u].tv = @ + 1]
    BY <1>c DEF CutShort
  <2>2. users[u].active \in BOOLEAN /\ users[u].tv + 1 \in Nat
    BY <1>0 DEF Account
  <2>3. \E b \in BOOLEAN, n \in Nat : users' = [users EXCEPT ![u] = [users[u] EXCEPT !.active = b, !.tv = n]]
    <3>1. CASE off
      <4>1. users' = [users EXCEPT ![u] = [users[u] EXCEPT !.active = FALSE, !.tv = users[u].tv + 1]]
        BY <1>0, <2>1, <3>1 DEF Account
      <4> QED
        BY <2>2, <4>1
    <3>2. CASE ~off
      <4>1. users' = [users EXCEPT ![u] = [users[u] EXCEPT !.active = users[u].active, !.tv = users[u].tv + 1]]
        BY <1>0, <2>1, <2>2, <3>2 DEF Account
      <4> QED
        BY <2>2, <4>1
    <3> QED
      BY <3>1, <3>2
  <2>4. \A b \in BOOLEAN, n \in Nat : [users[u] EXCEPT !.active = b, !.tv = n] \in Account
    BY <1>0, AccountChanges
  <2>5. users' \in [Users -> Account]
    <3>1. users \in [Users -> Account]
      BY <1>0
    <3>2. PICK b \in BOOLEAN, n \in Nat : users' = [users EXCEPT ![u] = [users[u] EXCEPT !.active = b, !.tv = n]]
      BY <2>3
    <3>3. PICK row \in Account : row = [users[u] EXCEPT !.active = b, !.tv = n]
      BY <2>4
    <3> QED
      BY <3>1, <3>2, <3>3
  <2>6. pend' \in [Tabs -> Users \cup {None}] /\ UNCHANGED <<roles, jar, ops>>
    BY <1>0, <1>c DEF CutShort
  <2> QED
    BY <1>0, <2>5, <2>6
<1>3. CASE SessionExpires
  BY <1>0, <1>3 DEF SessionExpires
<1>4. CASE Agent
  BY <1>0, <1>req, <1>4 DEF Agent, BeginRefresh, EndRefresh, BeginDeskRefresh, EndDeskRefresh,
       BeginLogin, EndLogin, BeginLogout, EndLogout, BeginRevokeOthers, EndRevokeOthers,
       ServerStops, Return
<1>5. CASE Network
  <2>1. CASE DeliverLogin
    <3> DEFINE u == calls["login"].user
    <3>0. u \in Users
      BY <1>0, <2>1, SessionAssumption DEF DeliverLogin, AgentTyped, Callers
    <3>1. users' = users \/ users' = [users EXCEPT ![u] = [users[u] EXCEPT !.failed = 0]]
      BY <2>1 DEF DeliverLogin
    <3>2. [users[u] EXCEPT !.failed = 0] \in Account
      BY <1>0, <3>0, AccountChanges
    <3>3. users' \in [Users -> Account]
      BY <1>0, <3>1, <3>2
    <3> QED
      BY <1>0, <2>1, <3>3 DEF DeliverLogin
  <2>2. UNCHANGED <<roles, jar, pend, ops>> /\ (users' = users \/ DeliverLogin)
    BY <1>5 DEF Network, DeliverRefresh, DeliverLogin, DeliverLogout, DeliverRevokeOthers, LoseCall
  <2> QED
    BY <1>0, <2>1, <2>2
<1>6. ASSUME NEW t \in Tabs, NEW u \in Users, Authorize(t, u) PROVE CloudTyped'
  BY <1>0, <1>req, <1>6 DEF Authorize
<1>7. CASE UNCHANGED vars
  BY <1>0, <1>7 DEF vars
<1> QED
  BY <1>c, <1>1, <1>2, <1>3, <1>4, <1>5, <1>6, <1>7 DEF Next

LEMMA AgentStep == TypeOK /\ [Next]_vars => AgentTyped'
<1> SUFFICES ASSUME TypeOK, [Next]_vars PROVE AgentTyped'
  OBVIOUS
<1>0. CloudTyped /\ AgentTyped /\ lastTok \in Nat
  BY TypeParts
<1> USE DEF agentVars, cloudVars
<1>1. ASSUME UNCHANGED <<ident, desk, keyring, calls>> PROVE AgentTyped'
  BY <1>0, <1>1 DEF AgentTyped
<1>2. Out \in [email : Operators \cup {None}, access : Access \cup {None}]
  BY DEF Out
<1>ok. \A u \in Users : Ok(u) \in Answer
  BY <1>0 DEF Ok, Answer, Access, CloudTyped, Account
<1>err. \A status \in {200, 401, 403, 500} : Error(status) \in Answer
  BY DEF Error, Answer
<1>3. ASSUME NEW c \in Coroutines, BeginRefresh(c) PROVE AgentTyped'
  <2>1. CASE keyring[ident.email] # None
    <3>1. /\ ident.email \in Operators /\ keyring[ident.email] \in Nat \cup {None}
          /\ Send(c, ident.email, keyring[ident.email]) /\ UNCHANGED <<ident, desk, keyring>>
      BY <1>0, <1>3, <2>1 DEF BeginRefresh, AgentTyped
    <3> QED
      BY <1>0, <3>1, SendTyped DEF Callers
  <2>2. CASE keyring[ident.email] = None
    <3>1. ident' = Out /\ UNCHANGED <<calls, desk, keyring>>
      BY <1>3, <2>2 DEF BeginRefresh
    <3> QED
      BY <1>0, <1>2, <3>1 DEF AgentTyped
  <2> QED
    BY <2>1, <2>2
<1>4. CASE BeginDeskRefresh
  <2>1. /\ desk \in Operators /\ keyring[desk] \in Nat \cup {None}
        /\ Send(Launcher, desk, keyring[desk]) /\ UNCHANGED <<ident, desk, keyring>>
    BY <1>0, <1>4 DEF BeginDeskRefresh, AgentTyped
  <2> QED
    BY <1>0, <2>1, SendTyped DEF Callers
<1>5. CASE BeginLogin
  <2>1. PICK u \in Operators : Send("login", u, None)
    BY <1>5 DEF BeginLogin
  <2>2. UNCHANGED <<ident, desk, keyring>>
    BY <1>5 DEF BeginLogin
  <2> QED
    BY <1>0, <2>1, <2>2, SendTyped DEF Callers
<1>6. CASE BeginLogout
  <2>1. /\ ident.email \in Operators /\ keyring[ident.email] \in Nat \cup {None}
        /\ Send("logout", ident.email, keyring[ident.email]) /\ UNCHANGED <<ident, desk, keyring>>
    BY <1>0, <1>6 DEF BeginLogout, AgentTyped
  <2> QED
    BY <1>0, <2>1, SendTyped DEF Callers
<1>7. CASE BeginRevokeOthers
  <2> DEFINE tok == IF ident.email = None THEN None ELSE keyring[ident.email]
  <2>1. /\ ident.email \in Operators \cup {None} /\ tok \in Nat \cup {None}
        /\ Send("others", ident.email, tok) /\ UNCHANGED <<ident, desk, keyring>>
    BY <1>0, <1>7 DEF BeginRevokeOthers, AgentTyped
  <2> HIDE DEF tok
  <2> QED
    BY <1>0, <2>1, SendTyped DEF Callers
<1>8. ASSUME NEW c \in Callers, DeliverRefresh(c) PROVE AgentTyped'
  <2>1. calls[c].user \in Users /\ calls[c].pc = "sent"
    BY <1>0, <1>8, SessionAssumption DEF DeliverRefresh, AgentTyped
  <2>2. \E ans \in Answer : Answered(c, ans)
    <3>1. \/ Answered(c, Ok(calls[c].user)) \/ Answered(c, Error(401))
          \/ Answered(c, Error(500))
      BY <1>8 DEF DeliverRefresh
    <3> QED
      BY <1>ok, <1>err, <2>1, <3>1
  <2>3. UNCHANGED <<ident, desk, keyring>>
    BY <1>8 DEF DeliverRefresh
  <2> QED
    BY <1>0, <2>1, <2>2, <2>3, AnswerTyped
<1>9. CASE DeliverLogin
  <2>1. calls["login"].user \in Users /\ calls["login"].pc = "sent" /\ "login" \in Callers
    BY <1>0, <1>9, SessionAssumption DEF DeliverLogin, AgentTyped, Callers
  <2>2. \E ans \in Answer : Answered("login", ans)
    BY <1>9, <1>ok, <1>err, <2>1 DEF DeliverLogin
  <2>3. UNCHANGED <<ident, desk, keyring>>
    BY <1>9 DEF DeliverLogin
  <2> QED
    BY <1>0, <2>1, <2>2, <2>3, AnswerTyped
<1>10. CASE DeliverLogout
  <2>1. /\ calls["logout"].pc = "sent" /\ Answered("logout", Error(200))
        /\ UNCHANGED <<ident, desk, keyring>>
    BY <1>10 DEF DeliverLogout
  <2> QED
    BY <1>0, <1>err, <2>1, AnswerTyped DEF Callers
<1>11. CASE DeliverRevokeOthers
  <2>1. /\ calls["others"].pc = "sent" /\ Answered("others", Error(200))
        /\ UNCHANGED <<ident, desk, keyring>>
    BY <1>11 DEF DeliverRevokeOthers
  <2> QED
    BY <1>0, <1>err, <2>1, AnswerTyped DEF Callers
<1>12. ASSUME NEW c \in Callers, LoseCall(c) PROVE AgentTyped'
  <2>1. /\ calls[c].pc = "sent" /\ Answered(c, Error(500))
        /\ UNCHANGED <<ident, desk, keyring>>
    BY <1>12 DEF LoseCall
  <2> QED
    BY <1>0, <1>err, <2>1, AnswerTyped
<1>13. ASSUME NEW c \in Coroutines, EndRefresh(c) PROVE AgentTyped'
  <2>1. c \in Callers /\ Return(c) /\ desk' = desk /\ calls[c].ans \in Answer
    BY <1>0, <1>13 DEF EndRefresh, Return, AgentTyped, Callers
  <2>2. /\ ident' \in [email : Operators \cup {None}, access : Access \cup {None}]
        /\ keyring' \in [Operators -> Nat \cup {None}]
    BY <1>0, <1>2, <1>13, <2>1 DEF EndRefresh, AgentTyped, Answer
  <2> QED
    BY <1>0, <2>1, <2>2, ReturnTyped DEF AgentTyped
<1>14. CASE EndDeskRefresh
  <2>1. /\ Launcher \in Callers /\ Return(Launcher) /\ desk' = desk
        /\ calls[Launcher].ans \in Answer
    BY <1>0, <1>14 DEF EndDeskRefresh, Return, AgentTyped, Callers
  <2>2. /\ ident' \in [email : Operators \cup {None}, access : Access \cup {None}]
        /\ keyring' \in [Operators -> Nat \cup {None}]
    BY <1>0, <1>14, <2>1 DEF EndDeskRefresh, AgentTyped, Answer
  <2> QED
    BY <1>0, <2>1, <2>2, ReturnTyped DEF AgentTyped
<1>15. CASE EndLogin
  <2>1. /\ "login" \in Callers /\ Return("login") /\ calls["login"].ans \in Answer
        /\ calls["login"].user \in Operators
    BY <1>0, <1>15, SessionAssumption DEF EndLogin, Return, AgentTyped, Callers
  <2>2. /\ ident' \in [email : Operators \cup {None}, access : Access \cup {None}]
        /\ keyring' \in [Operators -> Nat \cup {None}]
        /\ desk' \in Operators \cup {None}
    BY <1>0, <1>15, <2>1 DEF EndLogin, AgentTyped, Answer
  <2> QED
    BY <1>0, <2>1, <2>2, ReturnTyped DEF AgentTyped
<1>16. CASE EndLogout
  <2>1. "logout" \in Callers /\ Return("logout") /\ desk' = desk
    BY <1>16 DEF EndLogout, Callers
  <2>2. /\ ident' \in [email : Operators \cup {None}, access : Access \cup {None}]
        /\ keyring' \in [Operators -> Nat \cup {None}]
    BY <1>0, <1>2, <1>16 DEF EndLogout, AgentTyped
  <2> QED
    BY <1>0, <2>1, <2>2, ReturnTyped DEF AgentTyped
<1>17. CASE EndRevokeOthers
  <2>1. "others" \in Callers /\ Return("others") /\ UNCHANGED <<ident, desk, keyring>>
    BY <1>17 DEF EndRevokeOthers, Callers
  <2> QED
    BY <1>0, <2>1, ReturnTyped DEF AgentTyped
<1>18. CASE ServerStops
  BY <1>0, <1>2, <1>18 DEF ServerStops, AgentTyped
<1>19. ASSUME NEW u \in Users, Browsing(u) PROVE AgentTyped'
  BY <1>1, <1>19 DEF Browsing, BrowserLogin, BadPassword, LockEnds, BrowserRefresh, BrowserLogout,
       RevokeSession, RevokeOthers, EndSessions
<1>20. ASSUME NEW t \in Tabs, AdminStep(t) PROVE AgentTyped'
  BY <1>1, <1>20 DEF AdminStep, CutShort, PatchActive, PatchRole, ResetPassword, SetPermission, SaveRole,
       DeleteRole, Handle
<1>21. ASSUME NEW t \in Tabs, NEW u \in Users, Authorize(t, u) PROVE AgentTyped'
  BY <1>1, <1>21 DEF Authorize
<1>22. CASE SessionExpires \/ UNCHANGED vars
  BY <1>1, <1>22 DEF SessionExpires, vars
<1> QED
  BY <1>3, <1>4, <1>5, <1>6, <1>7, <1>8, <1>9, <1>10, <1>11, <1>12, <1>13, <1>14, <1>15, <1>16,
     <1>17, <1>18, <1>19, <1>20, <1>21, <1>22 DEF Next, Agent, Network

LEMMA TypeStep == TypeOK /\ [Next]_vars => TypeOK'
<1> SUFFICES ASSUME TypeOK, [Next]_vars PROVE TypeOK'
  OBVIOUS
<1>1. CloudTyped' /\ AgentTyped' /\ Moved /\ Managed
  BY CloudStep, AgentStep, SessionMoves, AccountsManaged
<1>2. sess' \in Seq(Sessions) /\ lastTok' \in Nat /\ DOMAIN sess \subseteq DOMAIN sess'
  BY <1>1, RowsKept
<1>3. killed' \subseteq DOMAIN sess' /\ cut' \subseteq DOMAIN sess'
  BY <1>1, <1>2 DEF Managed, TypeOK, SessionsOf
<1> QED
  BY <1>1, <1>2, <1>3 DEF TypeOK, CloudTyped, AgentTyped, Sessions

LEMMA InitTyped == Init => TypeOK /\ LastAdmin /\ EndedStaysEnded
<1> SUFFICES ASSUME Init PROVE TypeOK /\ LastAdmin /\ EndedStaysEnded
  OBVIOUS
<1>1. users \in [Users -> Account]
  BY DEF Init, Account
<1>2. roles \in [Roles \cup {SystemRole} -> (SUBSET (Perms \cup {Manage})) \cup {None}]
  BY DEF Init
<1>3. CloudTyped
  <2>1. ops \in 0..MaxOps
    BY SessionAssumption DEF Init
  <2> QED
    BY <1>1, <1>2, <2>1 DEF Init, CloudTyped
<1>4. AgentTyped
  BY DEF Init, AgentTyped, Idle, Out
<1>5. sess \in Seq(Sessions) /\ DOMAIN sess = {} /\ killed = {} /\ cut = {} /\ lastTok \in Nat
  BY EmptySeq DEF Init
<1>6. TypeOK
  BY <1>3, <1>4, <1>5, TypeParts
<1>7. LastAdmin
  BY SessionAssumption DEF Init, LastAdmin
<1> QED
  BY <1>5, <1>6, <1>7 DEF EndedStaysEnded

-----------------------------------------------------------------------------
(* Tokens.  Every token that a row, a cookie or the keyring gets is new, or *)
(* was brought back by a call.                                              *)
Clients == Refreshers \cup {"login"}

Handed ==
  /\ \A u \in Users :
       \/ jar'[u] = jar[u] \/ jar'[u] = None
       \/ jar'[u].tok = lastTok + 1 /\ lastTok' = lastTok + 1
  /\ \A u \in Operators :
       \/ keyring'[u] = keyring[u] \/ keyring'[u] = None
       \/ \E c \in Clients : Renewed(c) /\ keyring'[u] = calls[c].ans.tok
  /\ \A c \in Clients :
       Renewed(c)' => \/ calls'[c] = calls[c]
                      \/ calls'[c].ans.tok = lastTok + 1 /\ lastTok' = lastTok + 1
  /\ Renewed("login")' /\ calls'["login"] # calls["login"] =>
       \E u \in Users : calls'["login"].user = u /\ sess' = NewSession(u) /\ jar' = jar

LEMMA CallMoves ==
  ASSUME AgentTyped, NEW c \in Callers, NEW call, calls' = [calls EXCEPT ![c] = call]
  PROVE  calls'[c] = call /\ \A d \in Callers \ {c} : calls'[d] = calls[d]
BY DEF AgentTyped

LEMMA AnsweredCall ==
  ASSUME AgentTyped, NEW c \in Callers, NEW ans, Answered(c, ans)
  PROVE  \E call : calls' = [calls EXCEPT ![c] = call]
BY DEF AgentTyped, Answered

LEMMA Callees ==
  /\ Refreshers \subseteq Callers /\ Clients \subseteq Callers
  /\ "login" \in Callers /\ "logout" \in Callers /\ "others" \in Callers
  /\ "login" \notin Refreshers /\ "logout" \notin Clients /\ "others" \notin Clients
BY SessionAssumption DEF Refreshers, Clients, Callers

LEMMA TokensHanded == TypeOK /\ [Next]_vars => Handed
<1> SUFFICES ASSUME TypeOK, [Next]_vars PROVE Handed
  OBVIOUS
<1>0. CloudTyped /\ AgentTyped
  BY TypeParts
<1> USE DEF cloudVars, agentVars
<1>1. ASSUME UNCHANGED <<keyring, calls>>,
             \A u \in Users :
               \/ jar'[u] = jar[u] \/ jar'[u] = None
               \/ jar'[u].tok = lastTok + 1 /\ lastTok' = lastTok + 1
      PROVE  Handed
  BY <1>1 DEF Handed
<1>2. ASSUME UNCHANGED <<jar, keyring>>, NEW c \in Callers, NEW call,
             calls' = [calls EXCEPT ![c] = call],
             c \in Refreshers /\ call.pc = "answered" /\ call.ans.status = 200 =>
               call.ans.tok = lastTok + 1 /\ lastTok' = lastTok + 1,
             c = "login" => ~(call.pc = "answered" /\ call.ans.status = 200)
      PROVE  Handed
  <2>1. calls'[c] = call /\ \A d \in Callers \ {c} : calls'[d] = calls[d]
    BY <1>0, <1>2, CallMoves
  <2> QED
    BY <1>2, <2>1, Callees DEF Handed, Renewed, Clients
<1>3. ASSUME UNCHANGED jar, NEW c \in Callers, Return(c),
             \A u \in Operators :
               \/ keyring'[u] = keyring[u] \/ keyring'[u] = None
               \/ c \in Clients /\ Renewed(c) /\ keyring'[u] = calls[c].ans.tok
      PROVE  Handed
  <2>1. calls'[c] = Idle /\ \A d \in Callers \ {c} : calls'[d] = calls[d]
    BY <1>0, <1>3, CallMoves DEF Return
  <2> QED
    BY <1>3, <2>1, Callees DEF Handed, Renewed, Idle
<1>4. ASSUME NEW u \in Users, Browsing(u) PROVE Handed
  <2>1. UNCHANGED <<keyring, calls>>
    BY <1>4 DEF Browsing, BrowserLogin, BadPassword, LockEnds, BrowserRefresh, BrowserLogout,
         RevokeSession, RevokeOthers, EndSessions
  <2>2. \/ jar' = jar \/ jar' = [jar EXCEPT ![u] = None]
        \/ /\ jar' = [jar EXCEPT ![u] = [tok |-> lastTok + 1, tv |-> users[u].tv]]
           /\ lastTok' = lastTok + 1
    BY <1>4 DEF Browsing, BrowserLogin, BadPassword, LockEnds, BrowserRefresh, BrowserLogout,
         RevokeSession, RevokeOthers
  <2>3. jar \in [Users -> [tok : Nat, tv : Nat] \cup {None}]
    BY <1>0 DEF CloudTyped
  <2>4. \A v \in Users :
           \/ jar'[v] = jar[v] \/ jar'[v] = None
           \/ jar'[v].tok = lastTok + 1 /\ lastTok' = lastTok + 1
    BY <2>2, <2>3
  <2> QED
    BY <1>1, <2>1, <2>4
<1>5. ASSUME NEW t \in Tabs, AdminStep(t) \/ \E u \in Users : Authorize(t, u) PROVE Handed
  BY <1>1, <1>5 DEF AdminStep, CutShort, PatchActive, PatchRole, ResetPassword, SetPermission, SaveRole,
       DeleteRole, Handle, Authorize
<1>6. CASE SessionExpires \/ ServerStops \/ UNCHANGED vars
  BY <1>1, <1>6 DEF SessionExpires, ServerStops, vars
<1>7. ASSUME NEW c \in Callers, NEW u, NEW tok, Send(c, u, tok), UNCHANGED <<jar, keyring>>
      PROVE  Handed
  <2> DEFINE call == [pc |-> "sent", user |-> u, tok |-> tok, ans |-> None]
  <2>1. calls' = [calls EXCEPT ![c] = call] /\ call.pc = "sent"
    BY <1>7 DEF Send
  <2> HIDE DEF call
  <2> QED
    BY <1>2, <1>7, <2>1
<1>8. ASSUME NEW c \in Callers, NEW ans, Answered(c, ans), UNCHANGED <<jar, keyring>>,
             c \in Refreshers /\ ans.status = 200 =>
               ans.tok = lastTok + 1 /\ lastTok' = lastTok + 1,
             c = "login" => ans.status # 200
      PROVE  Handed
  <2> DEFINE call == [calls[c] EXCEPT !.pc = "answered", !.ans = ans]
  <2>1. calls' = [calls EXCEPT ![c] = call] /\ call.ans = ans
    BY <1>0, <1>8 DEF Answered, AgentTyped
  <2> HIDE DEF call
  <2> QED
    BY <1>2, <1>8, <2>1
<1>9. ASSUME NEW c \in Coroutines, BeginRefresh(c) PROVE Handed
  <2>1. c \in Callers /\ UNCHANGED <<jar, keyring>>
    BY <1>9 DEF BeginRefresh, Callers
  <2> QED
    BY <1>1, <1>7, <1>9, <2>1 DEF BeginRefresh
<1>10. CASE BeginDeskRefresh \/ BeginLogin \/ BeginLogout \/ BeginRevokeOthers
  <2>1. UNCHANGED <<jar, keyring>> /\ \E c \in Callers : \E u, tok : Send(c, u, tok)
    BY <1>10 DEF BeginDeskRefresh, BeginLogin, BeginLogout, BeginRevokeOthers, Callers
  <2> QED
    BY <1>7, <2>1
<1>11. ASSUME NEW c \in Callers, DeliverRefresh(c) PROVE Handed
  <2>1. /\ c \in Refreshers /\ UNCHANGED <<jar, keyring>>
        /\ \/ lastTok' = lastTok + 1 /\ Answered(c, Ok(calls[c].user))
           \/ Answered(c, Error(401)) \/ Answered(c, Error(500))
    BY <1>11 DEF DeliverRefresh, Refreshers
  <2>2. Error(401).status = 401 /\ Error(500).status = 500 /\ Ok(calls[c].user).tok = lastTok + 1
    BY DEF Error, Ok
  <2> QED
    BY <1>8, <2>1, <2>2, Callees
<1>12. CASE DeliverLogin
  <2> DEFINE u == calls["login"].user
             call == [calls["login"] EXCEPT !.pc = "answered", !.ans = Ok(u)]
  <2>1. u \in Users
    BY <1>0, <1>12, SessionAssumption, Callees DEF DeliverLogin, AgentTyped
  <2>2. CASE Answered("login", Ok(u)) /\ sess' = NewSession(u) /\ lastTok' = lastTok + 1
    <3>1. calls' = [calls EXCEPT !["login"] = call] /\ call.ans.tok = lastTok + 1 /\ call.user = u
      BY <1>0, <2>2, Callees DEF Answered, AgentTyped, Ok
    <3>2. UNCHANGED <<jar, keyring>>
      BY <1>12 DEF DeliverLogin
    <3> HIDE DEF call, u
    <3>3. calls'["login"] = call /\ \A d \in Callers \ {"login"} : calls'[d] = calls[d]
      BY <1>0, <3>1, CallMoves, Callees
    <3> QED
      BY <2>1, <2>2, <3>1, <3>2, <3>3, Callees DEF Handed, Renewed
  <2>3. CASE Answered("login", Error(403))
    <3>1. UNCHANGED <<jar, keyring>> /\ Error(403).status # 200
      BY <1>12 DEF DeliverLogin, Error
    <3> QED
      BY <1>8, <2>3, <3>1, Callees
  <2> QED
    BY <1>12, <2>2, <2>3 DEF DeliverLogin
<1>13. CASE DeliverLogout \/ DeliverRevokeOthers
  <2>1. /\ UNCHANGED <<jar, keyring>>
        /\ Answered("logout", Error(200)) \/ Answered("others", Error(200))
    BY <1>13 DEF DeliverLogout, DeliverRevokeOthers
  <2> QED
    BY <1>8, <2>1, Callees, SessionAssumption DEF Clients
<1>14. ASSUME NEW c \in Callers, LoseCall(c) PROVE Handed
  <2>1. UNCHANGED <<jar, keyring>> /\ Answered(c, Error(500)) /\ Error(500).status # 200
    BY <1>14 DEF LoseCall, Error
  <2> QED
    BY <1>8, <2>1
<1>15. ASSUME NEW c \in Coroutines, EndRefresh(c) PROVE Handed
  <2>1. c \in Callers /\ c \in Clients /\ Return(c) /\ jar' = jar
    BY <1>15 DEF EndRefresh, Return, Callers, Clients, Refreshers
  <2>2. \/ keyring' = keyring
        \/ Renewed(c) /\ keyring' = [keyring EXCEPT ![calls[c].user] = calls[c].ans.tok]
        \/ keyring' = [keyring EXCEPT ![calls[c].user] = None]
    BY <1>15 DEF EndRefresh, Return, Renewed
  <2> QED
    BY <1>0, <1>3, <2>1, <2>2 DEF AgentTyped
<1>16. CASE EndDeskRefresh
  <2>1. Launcher \in Callers /\ Launcher \in Clients /\ Return(Launcher) /\ jar' = jar
    BY <1>16 DEF EndDeskRefresh, Return, Callers, Clients, Refreshers
  <2>2. \/ keyring' = keyring
        \/ Renewed(Launcher) /\ keyring' = [keyring EXCEPT ![desk] = calls[Launcher].ans.tok]
    BY <1>16 DEF EndDeskRefresh, Return, Renewed
  <2> QED
    BY <1>0, <1>3, <2>1, <2>2 DEF AgentTyped
<1>17. CASE EndLogin
  <2>1. "login" \in Callers /\ "login" \in Clients /\ Return("login") /\ jar' = jar
    BY <1>17 DEF EndLogin, Return, Callers, Clients
  <2>2. \/ keyring' = keyring
        \/ /\ Renewed("login")
           /\ keyring' = [keyring EXCEPT ![calls["login"].user] = calls["login"].ans.tok]
    BY <1>17 DEF EndLogin, Return, Renewed
  <2> QED
    BY <1>0, <1>3, <2>1, <2>2 DEF AgentTyped
<1>18. CASE EndLogout \/ EndRevokeOthers
  <2>1. /\ Return("logout") \/ Return("others")
        /\ jar' = jar
        /\ keyring' = keyring \/ keyring' = [keyring EXCEPT ![calls["logout"].user] = None]
    BY <1>18 DEF EndLogout, EndRevokeOthers, Return
  <2>2. \A u \in Operators : keyring'[u] = keyring[u] \/ keyring'[u] = None
    BY <1>0, <2>1 DEF AgentTyped
  <2> QED
    BY <1>3, <2>1, <2>2, Callees
<1> QED
  BY <1>4, <1>5, <1>6, <1>9, <1>10, <1>11, <1>12, <1>13, <1>14, <1>15, <1>16, <1>17, <1>18
  DEF Next, Agent, Network

(* What the cloud hands out is new, so every session keeps a token of its   *)
(* own.                                                                     *)
LEMMA IssuedStep == TypeOK /\ TypeOK' /\ Issued /\ Moved /\ Handed => Issued'
<1> SUFFICES ASSUME TypeOK, TypeOK', Issued, Moved, Handed PROVE Issued'
  OBVIOUS
<1> DEFINE login == calls["login"]
<1>0. sess \in Seq(Sessions) /\ lastTok \in Nat /\ lastTok' \in Nat
  BY DEF TypeOK, Sessions
<1>1. lastTok' = lastTok \/ lastTok' = lastTok + 1
  BY DEF Moved
<1>2. /\ \A k \in DOMAIN sess' : sess'[k].tok \in 1..lastTok'
      /\ \A j, k \in DOMAIN sess' : sess'[j].tok = sess'[k].tok => j = k
  <2> DEFINE Own == /\ \A k \in DOMAIN sess' : sess'[k].tok \in 1..lastTok'
                    /\ \A j, k \in DOMAIN sess' : sess'[j].tok = sess'[k].tok => j = k
  <2>0. /\ \A k \in DOMAIN sess : sess[k].tok \in 1..lastTok
        /\ \A j, k \in DOMAIN sess : sess[j].tok = sess[k].tok => j = k
    BY DEF Issued
  <2>1. CASE UNCHANGED <<sess, lastTok>>
    BY <2>0, <2>1
  <2>2. CASE (\E S : sess' = Revoked(S)) /\ lastTok' = lastTok
    BY <1>0, <2>0, <2>2, RevokedRows
  <2>3. ASSUME NEW u \in Users, sess' = NewSession(u), lastTok' = lastTok + 1 PROVE Own
    <3> DEFINE n == Len(sess) + 1
    <3>0. /\ n \notin DOMAIN sess /\ DOMAIN NewSession(u) = DOMAIN sess \cup {n}
          /\ \A k \in DOMAIN sess : NewSession(u)[k] = sess[k]
          /\ NewSession(u)[n] =
               [user |-> u, tok |-> lastTok + 1, live |-> TRUE, expired |-> FALSE]
      BY <1>0, NewRow
    <3> HIDE DEF n
    <3>1. /\ DOMAIN sess' = DOMAIN sess \cup {n}
          /\ \A k \in DOMAIN sess : sess'[k] = sess[k]
          /\ sess'[n].tok = lastTok + 1
      BY <2>3, <3>0
    <3> QED
      BY <1>0, <2>0, <2>3, <3>0, <3>1
  <2>4. ASSUME NEW k \in DOMAIN sess, sess' = Rotated(k), lastTok' = lastTok + 1 PROVE Own
    <3>1. /\ DOMAIN sess' = DOMAIN sess
          /\ \A j \in DOMAIN sess \ {k} : sess'[j] = sess[j]
          /\ sess'[k] = [sess[k] EXCEPT !.tok = lastTok + 1]
      BY <1>0, <2>4, RotatedRow
    <3>2. sess'[k].tok = lastTok + 1
      BY <1>0, <3>1, DomainSess DEF Sessions
    <3>3. \A j \in DOMAIN sess' : sess'[j].tok = IF j = k THEN lastTok + 1 ELSE sess[j].tok
      BY <3>1, <3>2
    <3>4. \A j \in DOMAIN sess : sess[j].tok \in 1..lastTok' /\ sess[j].tok # lastTok + 1
      BY <1>0, <2>0, <2>4
    <3>5. lastTok + 1 \in 1..lastTok'
      BY <1>0, <2>4
    <3>6. DOMAIN sess' = DOMAIN sess
      BY <3>1
    <3> QED
      BY <2>0, <3>3, <3>4, <3>5, <3>6
  <2>5. ASSUME NEW k \in DOMAIN sess, sess' = [sess EXCEPT ![k].expired = TRUE], lastTok' = lastTok
        PROVE  Own
    <3>1. DOMAIN sess' = DOMAIN sess /\ \A j \in DOMAIN sess : sess'[j].tok = sess[j].tok
      BY <1>0, <2>5, DomainSess, ChangedRow DEF Sessions
    <3> QED
      BY <2>0, <2>5, <3>1
  <2> QED
    BY <2>1, <2>2, <2>3, <2>4, <2>5 DEF Moved
<1>3. /\ \A u \in Users : jar'[u] # None => jar'[u].tok \in 1..lastTok'
      /\ \A u \in Operators : keyring'[u] # None => keyring'[u] \in 1..lastTok'
      /\ \A c \in Clients : Renewed(c)' => calls'[c].ans.tok \in 1..lastTok'
  <2>1. /\ \A u \in Users : jar[u] # None => jar[u].tok \in 1..lastTok
        /\ \A u \in Operators : keyring[u] # None => keyring[u] \in 1..lastTok
        /\ \A c \in Clients : Renewed(c) => calls[c].ans.tok \in 1..lastTok
    BY DEF Issued, Clients
  <2>2. \A n \in 1..lastTok : n \in 1..lastTok'
    BY <1>0, <1>1
  <2>3. lastTok' = lastTok + 1 => lastTok + 1 \in 1..lastTok'
    BY <1>0
  <2>4. \A u \in Users : jar'[u] # None => jar'[u].tok \in 1..lastTok'
    BY <2>1, <2>2, <2>3 DEF Handed
  <2>5. \A u \in Operators : keyring'[u] # None => keyring'[u] \in 1..lastTok'
    BY <2>1, <2>2 DEF Handed
  <2>6. \A c \in Clients : Renewed(c)' => calls'[c].ans.tok \in 1..lastTok'
    BY <2>1, <2>2, <2>3 DEF Handed, Renewed
  <2> QED
    BY <2>4, <2>5, <2>6
<1>4. ASSUME Renewed("login")'
      PROVE  /\ \A k \in ByHash(login.ans.tok)' : sess'[k].user = login'.user
             /\ \A u \in Users : jar'[u] # None => jar'[u].tok # login'.ans.tok
  <2>1. CASE login' = login
    <3>1. /\ login.ans.tok \in 1..lastTok
          /\ \A k \in ByHash(login.ans.tok) : sess[k].user = login.user
          /\ \A u \in Users : jar[u] # None => jar[u].tok # login.ans.tok
      BY <1>4, <2>1 DEF Issued, Renewed
    <3>2. \A k \in DOMAIN sess' : sess'[k].tok = login.ans.tok =>
            k \in DOMAIN sess /\ sess[k].tok = login.ans.tok /\ sess'[k].user = sess[k].user
      BY <1>0, <3>1, RowsKept
    <3> QED
      BY <1>0, <2>1, <3>1, <3>2 DEF Handed, ByHash
  <2>2. CASE login' # login
    <3>1. PICK u \in Users : login'.user = u /\ sess' = NewSession(u) /\ jar' = jar
      BY <1>4, <2>2 DEF Handed
    <3>2. login'.ans.tok = lastTok + 1
      BY <1>4, <2>2 DEF Handed, Clients, Renewed
    <3> DEFINE n == Len(sess) + 1
    <3>n. /\ DOMAIN NewSession(u) = DOMAIN sess \cup {n}
          /\ \A k \in DOMAIN sess : NewSession(u)[k] = sess[k]
          /\ NewSession(u)[n] =
               [user |-> u, tok |-> lastTok + 1, live |-> TRUE, expired |-> FALSE]
      BY <1>0, NewRow
    <3> HIDE DEF n
    <3>3. /\ DOMAIN sess' = DOMAIN sess \cup {n}
          /\ \A k \in DOMAIN sess : sess'[k] = sess[k]
          /\ sess'[n].user = u
      BY <3>1, <3>n
    <3>4. \A k \in DOMAIN sess : sess[k].tok # lastTok + 1
      BY <1>0 DEF Issued
    <3>5. \A v \in Users : jar[v] # None => jar[v].tok # lastTok + 1
      BY <1>0 DEF Issued
    <3> QED
      BY <3>1, <3>2, <3>3, <3>4, <3>5 DEF ByHash
  <2> QED
    BY <2>1, <2>2
<1> QED
  BY <1>2, <1>3, <1>4 DEF Issued, Clients

-----------------------------------------------------------------------------
(* The standing session of the agent.                                      *)
SignedIn == EndLogin /\ Renewed("login")

(* Apart from a sign-in, a reason to lose the session stays one.           *)
LEMMA ReasonsStay ==
  ASSUME [Next]_vars, ~SignedIn, spoiled' = {}
  PROVE  spoiled = {} /\ kin' = kin
<1> USE DEF cloudVars, agentVars
<1>1. ASSUME NEW u \in Users, Browsing(u) PROVE spoiled = {} /\ kin' = kin
  BY <1>1 DEF Browsing, BrowserLogin, BadPassword, LockEnds, BrowserRefresh, BrowserLogout,
       RevokeSession, RevokeOthers, EndSessions
<1>2. ASSUME NEW t \in Tabs, AdminStep(t) \/ \E u \in Users : Authorize(t, u)
      PROVE  spoiled = {} /\ kin' = kin
  BY <1>2 DEF AdminStep, CutShort, PatchActive, PatchRole, ResetPassword, SetPermission, SaveRole,
       DeleteRole, Handle, Authorize, EndAll
<1>3. CASE SessionExpires \/ UNCHANGED vars
  BY <1>3 DEF SessionExpires, vars
<1>4. CASE Agent
  BY <1>4 DEF Agent, BeginRefresh, EndRefresh, BeginDeskRefresh, EndDeskRefresh, BeginLogin,
       EndLogin, BeginLogout, EndLogout, BeginRevokeOthers, EndRevokeOthers, ServerStops,
       Return, Beside, SignedIn, Renewed
<1>5. CASE Network
  BY <1>5 DEF Network, DeliverRefresh, DeliverLogin, DeliverLogout, DeliverRevokeOthers, LoseCall
<1> QED
  BY <1>1, <1>2, <1>3, <1>4, <1>5 DEF Next

(* The row and the account of the agent's session are left alone, nobody    *)
(* gets its token, and the agent takes no part.                            *)
LEMMA CloudFrame ==
  ASSUME TypeOK, Issued, Held, Moved, UNCHANGED <<ident, desk, keyring, kin>>,
         \A c \in Clients \cup {"logout"} : calls'[c] = calls[c],
         \A u \in Users :
           jar'[u] = jar[u] \/ jar'[u] = None \/ jar'[u].tok = lastTok + 1,
         sess'[kin].tok = sess[kin].tok, sess'[kin].live = sess[kin].live,
         sess'[kin].expired = sess[kin].expired, users'[Owner].active
  PROVE  Held'
<1>0. /\ sess \in Seq(Sessions) /\ lastTok \in Nat
      /\ keyring \in [Operators -> Nat \cup {None}]
  BY DEF TypeOK, Sessions
<1>1. kin \in DOMAIN sess /\ kin \in DOMAIN sess' /\ Owner' = Owner
  BY RowsKept DEF Held, Owner
<1>2. CanRefresh(kin)'
  BY <1>1 DEF Held, CanRefresh, Owner
<1>3. OneCaller'
  BY DEF Held, OneCaller, Clients
<1>4. \A k \in SessionsOf(Owner)' :
        (k \in SessionsOf(Owner) /\ sess'[k].tok = sess[k].tok) \/ sess'[k].tok = lastTok + 1
  BY <1>1, RowsKept DEF SessionsOf
<1>5. /\ \A k \in DOMAIN sess : sess[k].tok # lastTok + 1
      /\ \A v \in Operators : keyring[v] # lastTok + 1
      /\ \A c \in Refreshers : Renewed(c) => calls[c].ans.tok # lastTok + 1
  <2>1. \A k \in DOMAIN sess : sess[k].tok # lastTok + 1
    BY <1>0 DEF Issued
  <2>2. \A v \in Operators : keyring[v] # lastTok + 1
    BY <1>0, SessionAssumption DEF Issued
  <2>3. \A c \in Refreshers : Renewed(c) => calls[c].ans.tok # lastTok + 1
    BY <1>0 DEF Issued
  <2> QED
    BY <2>1, <2>2, <2>3
<1>6. \A c \in Refreshers : calls'[c] = calls[c]
  BY DEF Clients
<1>7. \A c \in Refreshers : Presented(c)'
  BY <1>1, <1>6 DEF Held, Presented
<1>8. ASSUME NEW c \in Refreshers, calls[c].pc = "answered" PROVE BroughtBack(c)'
  <2>1. BroughtBack(c)
    BY DEF Held
  <2>2. CASE calls[c].user = Owner
    BY <1>1, <1>6, <1>8, <2>1, <2>2 DEF BroughtBack, Renewed
  <2>3. CASE calls[c].user # Owner
    BY <1>1, <1>4, <1>5, <1>6, <1>8, <2>1, <2>3 DEF BroughtBack, Renewed
  <2> QED
    BY <2>2, <2>3
<1>9. \A c \in Refreshers : BroughtBack(c)'
  BY <1>6, <1>8 DEF BroughtBack
<1>10. (\A c \in Refreshers : ~(Renewed(c)' /\ calls'[c].user = Owner'))
         => keyring'[Owner'] = sess'[kin'].tok
  BY <1>1, <1>6 DEF Held, Renewed
<1>11. \A v \in Operators \ {Owner'} : \A k \in SessionsOf(Owner)' : keyring'[v] # sess'[k].tok
  BY <1>1, <1>4, <1>5 DEF Held
<1>12. \A u \in Users : jar'[u] # None => jar'[u].tok # sess'[kin'].tok
  BY <1>1, <1>5 DEF Held
<1> QED
  BY <1>1, <1>2, <1>3, <1>7, <1>9, <1>10, <1>11, <1>12 DEF Held
(* Only sessions that are not the agent's own are revoked.                 *)
LEMMA OthersRevoked ==
  ASSUME TypeOK, Held, NEW S, kin \notin S, sess' = Revoked(S)
  PROVE  /\ sess'[kin].tok = sess[kin].tok /\ sess'[kin].live = sess[kin].live
         /\ sess'[kin].expired = sess[kin].expired
BY RevokedRows, kin \in DOMAIN sess, sess \in Seq(Sessions), sess[kin].live
DEF Held, TypeOK, Sessions, CanRefresh

LEMMA AccountsFrame ==
  ASSUME Held, \A u \in Users : users[u].active => users'[u].active
  PROVE  users'[Owner].active
BY SessionAssumption DEF Held, CanRefresh, Owner

(* Nothing that the cloud does for browsers and administrators touches the  *)
(* agent's session, unless it is a reason to lose it.                      *)
LEMMA CloudHolds ==
  ASSUME TypeOK, Issued, Held, Moved, spoiled = {}, spoiled' = {},
         \/ \E u \in Users : Browsing(u) \/ \E t \in Tabs : Authorize(t, u)
         \/ \E t \in Tabs : AdminStep(t)
         \/ SessionExpires
  PROVE  Held'
<1> USE DEF cloudVars, agentVars
<1> DEFINE RowKept == /\ sess'[kin].tok = sess[kin].tok /\ sess'[kin].live = sess[kin].live
                      /\ sess'[kin].expired = sess[kin].expired
           JarKept == \A u \in Users :
                        jar'[u] = jar[u] \/ jar'[u] = None \/ jar'[u].tok = lastTok + 1
<1>0. /\ sess \in Seq(Sessions) /\ lastTok \in Nat /\ kin \in DOMAIN sess
      /\ users \in [Users -> Account]
      /\ jar \in [Users -> [tok : Nat, tv : Nat] \cup {None}]
  BY DEF TypeOK, Sessions, Held
<1>s. sess' = sess => RowKept
  OBVIOUS
<1>r. \A S : sess' = Revoked(S) /\ kin \notin S => RowKept
  BY OthersRevoked
<1> HIDE DEF RowKept
<1>1. UNCHANGED agentVars
  BY DEF Browsing, BrowserLogin, BadPassword, LockEnds, BrowserRefresh, BrowserLogout, RevokeSession,
     RevokeOthers, EndSessions, Authorize, AdminStep, CutShort, PatchActive, PatchRole, ResetPassword,
     SetPermission, SaveRole, DeleteRole, Handle, SessionExpires
<1>2. ASSUME RowKept, users'[Owner].active, JarKept PROVE Held'
  BY <1>1, <1>2, CloudFrame DEF RowKept
<1>3. ASSUME users' = users \/ \A u \in Users : users[u].active => users'[u].active
      PROVE  users'[Owner].active
  BY <1>3, AccountsFrame
<1>4. ASSUME NEW u \in Users, BrowserLogin(u) PROVE Held'
  <2>1. \A v \in Users : users'[v].active = users[v].active
    BY <1>0, <1>4 DEF BrowserLogin, Account
  <2>2. NewSession(u)[kin] = sess[kin]
    BY <1>0, NewRow
  <2>3. RowKept
    BY <1>4, <2>2 DEF BrowserLogin, RowKept
  <2>4. JarKept
    BY <1>0, <1>4 DEF BrowserLogin
  <2> QED
    BY <1>2, <1>3, <2>1, <2>3, <2>4
<1>5. ASSUME NEW u \in Users, BadPassword(u) \/ LockEnds(u) PROVE Held'
  <2>1. \A v \in Users : users'[v].active = users[v].active
    <3>1. CASE BadPassword(u)
      BY <1>0, <3>1 DEF BadPassword, Account
    <3>2. CASE LockEnds(u)
      BY <1>0, <3>2 DEF LockEnds, Account
    <3> QED
      BY <1>5, <3>1, <3>2
  <2>2. RowKept /\ JarKept
    BY <1>5, <1>s DEF BadPassword, LockEnds
  <2> QED
    BY <1>2, <1>3, <2>1, <2>2
<1>6. ASSUME NEW u \in Users, BrowserRefresh(u) PROVE Held'
  <2> DEFINE h == RefreshHandler(jar[u].tok)
  <2>1. /\ jar[u] # None /\ sess' = h.sess /\ users' = users
        /\ h.status # 200 => h.sess = sess
    BY <1>6 DEF BrowserRefresh
  <2>2. jar[u].tok # sess[kin].tok
    BY <2>1 DEF Held
  <2>3. ASSUME \E k \in ByHash(jar[u].tok) : h.sess = Rotated(k) PROVE RowKept
    <3>1. PICK k \in ByHash(jar[u].tok) : h.sess = Rotated(k)
      BY <2>3
    <3>2. k # kin /\ k \in DOMAIN sess
      BY <2>2 DEF ByHash
    <3>3. Rotated(k)[kin] = sess[kin]
      BY <1>0, <3>2, RotatedRow
    <3> QED
      BY <2>1, <3>1, <3>3 DEF RowKept
  <2>4. h.sess = sess => RowKept
    BY <1>s, <2>1
  <2>5. RowKept
    BY <2>1, <2>3, <2>4, RefreshOutcome
  <2>6. JarKept
    <3>1. \/ jar' = [jar EXCEPT ![u] = [tok |-> lastTok + 1, tv |-> users[u].tv]]
          \/ jar' = [jar EXCEPT ![u] = None]
      BY <1>6 DEF BrowserRefresh
    <3> QED
      BY <1>0, <3>1
  <2> QED
    BY <1>2, <1>3, <2>1, <2>5, <2>6
<1>7. ASSUME NEW u \in Users, BrowserLogout(u) \/ RevokeSession(u) \/ RevokeOthers(u) PROVE Held'
  <2>1. \E S : EndSessions(u, S)
    BY <1>7 DEF BrowserLogout, RevokeSession, RevokeOthers
  <2>2. RowKept /\ users' = users
    BY <1>r, <2>1 DEF EndSessions
  <2>3. JarKept
    BY <1>0, <1>7 DEF BrowserLogout, RevokeSession, RevokeOthers
  <2> QED
    BY <1>2, <1>3, <2>2, <2>3
<1>8. CASE SessionExpires
  <2>1. PICK k \in DOMAIN sess : k # kin /\ sess' = [sess EXCEPT ![k].expired = TRUE]
    BY <1>8 DEF SessionExpires
  <2>2. sess'[kin] = sess[kin]
    BY <1>0, <2>1
  <2>3. RowKept
    BY <2>2 DEF RowKept
  <2> QED
    BY <1>2, <1>3, <1>8, <2>3 DEF SessionExpires
<1>9. ASSUME NEW t \in Tabs, PatchActive(t) PROVE Held'
  <2>1. PICK u \in Users, on \in BOOLEAN :
          /\ users' = [users EXCEPT ![u].active = on, ![u].tv = IF on THEN @ ELSE @ + 1]
          /\ IF on THEN UNCHANGED <<sess, killed, cut, spoiled>> ELSE EndAll(u)
    BY <1>9 DEF PatchActive
  <2>2. /\ \A v \in Users \ {u} : users'[v] = users[v]
        /\ users'[u].active = on
    BY <1>0, <2>1
  <2>3. JarKept
    BY <1>9 DEF PatchActive, Handle
  <2>4. CASE on
    BY <1>2, <1>3, <1>s, <2>1, <2>2, <2>3, <2>4
  <2>5. CASE ~on
    <3>1. sess' = Revoked(SessionsOf(u)) /\ kin \notin SessionsOf(u)
      BY <2>1, <2>5 DEF EndAll
    <3>2. Owner # u /\ Owner \in Users
      BY <1>0, <3>1, SessionAssumption DEF SessionsOf, Owner, Held
    <3>3. users'[Owner].active
      BY <2>2, <3>2 DEF Held, CanRefresh, Owner
    <3> QED
      BY <1>2, <1>r, <2>3, <3>1, <3>3
  <2> QED
    BY <2>4, <2>5
<1>10. ASSUME NEW t \in Tabs, ResetPassword(t) PROVE Held'
  <2>1. PICK u \in Users : users' = [users EXCEPT ![u].tv = @ + 1] /\ EndAll(u)
    BY <1>10 DEF ResetPassword
  <2>2. \A v \in Users : users'[v].active = users[v].active
    BY <1>0, <2>1 DEF Account
  <2>3. RowKept
    BY <1>r, <2>1 DEF EndAll
  <2>4. JarKept
    BY <1>10 DEF ResetPassword, Handle
  <2> QED
    BY <1>2, <1>3, <2>2, <2>3, <2>4
<1>13. ASSUME NEW t \in Tabs, CutShort(t) PROVE Held'
  <2>1. PICK u \in Users, off \in BOOLEAN :
          /\ users' = [users EXCEPT ![u].active = @ /\ ~off, ![u].tv = @ + 1]
          /\ spoiled' = IF off /\ kin \in SessionsOf(u) THEN spoiled \cup {"ended"} ELSE spoiled
    BY <1>13 DEF CutShort
  <2>2. sess' = sess /\ jar' = jar
    BY <1>13 DEF CutShort
  <2>3. RowKept /\ JarKept
    BY <1>s, <2>2
  <2>4. CASE off
    <3>1. kin \notin SessionsOf(u)
      BY <2>1, <2>4
    <3>2. Owner # u /\ Owner \in Users
      BY <1>0, <3>1, SessionAssumption DEF SessionsOf, Owner, Held
    <3>3. users'[Owner].active
      <4>1. users'[Owner] = users[Owner]
        BY <1>0, <2>1, <3>2
      <4> QED
        BY <4>1 DEF Held, CanRefresh, Owner
    <3> QED
      BY <1>2, <2>3, <3>3
  <2>5. CASE ~off
    <3>1. \A v \in Users : users[v].active => users'[v].active
      BY <1>0, <2>1, <2>5 DEF Account
    <3> QED
      BY <1>2, <1>3, <2>3, <3>1
  <2> QED
    BY <2>4, <2>5
<1>11. ASSUME NEW t \in Tabs,
              PatchRole(t) \/ SetPermission(t) \/ SaveRole(t) \/ DeleteRole(t)
       PROVE  Held'
  <2>1. \A v \in Users : users'[v].active = users[v].active
    <3>1. CASE PatchRole(t)
      BY <1>0, <3>1 DEF PatchRole, Account
    <3>2. CASE SetPermission(t)
      BY <1>0, <3>2 DEF SetPermission, Account
    <3>3. CASE SaveRole(t) \/ DeleteRole(t)
      BY <3>3 DEF SaveRole, DeleteRole
    <3> QED
      BY <1>11, <3>1, <3>2, <3>3
  <2>2. RowKept /\ JarKept
    BY <1>11, <1>s DEF PatchRole, SetPermission, SaveRole, DeleteRole, Handle
  <2> QED
    BY <1>2, <1>3, <2>1, <2>2
<1>12. ASSUME NEW t \in Tabs, NEW u \in Users, Authorize(t, u) PROVE Held'
  <2>1. RowKept /\ JarKept /\ users' = users
    BY <1>12, <1>s DEF Authorize
  <2> QED
    BY <1>2, <1>3, <2>1
<1> QED
  BY <1>4, <1>5, <1>6, <1>7, <1>8, <1>9, <1>10, <1>11, <1>12, <1>13 DEF Browsing, AdminStep

(* A call of the agent is sent, answered or over, and only then may the     *)
(* keyring change; the sessions stay as they are.                          *)
LEMMA CallFrame ==
  ASSUME TypeOK, Held, UNCHANGED <<sess, users, jar, kin>>, OneCaller',
         ident'.email \in {Owner, None},
         \A c \in Refreshers : Presented(c)' /\ BroughtBack(c)',
         (\A c \in Refreshers : ~(Renewed(c)' /\ calls'[c].user = Owner))
           => keyring'[Owner] = sess[kin].tok,
         \A v \in Operators \ {Owner} : \A k \in SessionsOf(Owner) : keyring'[v] # sess[k].tok
  PROVE  Held'
<1>1. Owner' = Owner /\ CanRefresh(kin)'
  BY DEF Held, Owner, CanRefresh
<1> QED
  BY <1>1 DEF Held, SessionsOf

(* A refresh or a sign-in starts while no other is under way.              *)
LEMMA SendHolds ==
  ASSUME TypeOK, Held, NEW c \in Clients, NEW u, NEW tok, Send(c, u, tok),
         UNCHANGED <<sess, users, jar, kin, keyring, ident, desk>>,
         \A d \in Clients : calls[d].pc = "idle",
         c \in Refreshers => u = (IF c = Launcher THEN desk ELSE Owner) /\ tok = keyring[u]
  PROVE  Held'
<1>0. AgentTyped /\ Owner' = Owner
  BY TypeParts DEF Owner
<1>1. /\ calls'[c] = [pc |-> "sent", user |-> u, tok |-> tok, ans |-> None]
      /\ \A d \in Callers \ {c} : calls'[d] = calls[d]
  BY <1>0, Callees, CallMoves DEF Send
<1>2. OneCaller'
  BY <1>1, Callees DEF OneCaller, Clients, Held
<1>3. \A d \in Refreshers : Presented(d)' /\ BroughtBack(d)'
  BY <1>0, <1>1, Callees DEF Presented, BroughtBack, Clients
<1>4. \A d \in Refreshers : ~Renewed(d)
  BY DEF Renewed, Clients
<1>5. keyring'[Owner] = sess[kin].tok
  BY <1>4 DEF Held
<1>6. ident'.email \in {Owner, None}
  BY DEF Held
<1>7. \A v \in Operators \ {Owner} : \A k \in SessionsOf(Owner) : keyring'[v] # sess[k].tok
  BY DEF Held
<1> QED
  BY <1>2, <1>3, <1>5, <1>6, <1>7, CallFrame

(* A refresh or a sign-in that fails on the way changes nothing.           *)
LEMMA FailureHolds ==
  ASSUME TypeOK, Held, NEW c \in Clients, calls[c].pc = "sent", NEW ans, Answered(c, ans),
         ans.status \notin {200, 401} \/ c = "login",
         UNCHANGED <<sess, users, jar, kin, keyring, ident, desk>>
  PROVE  Held'
<1>0. AgentTyped /\ Owner' = Owner
  BY TypeParts DEF Owner
<1>1. /\ calls'[c] = [calls[c] EXCEPT !.pc = "answered", !.ans = ans]
      /\ \A d \in Callers \ {c} : calls'[d] = calls[d]
  BY <1>0, Callees, CallMoves DEF Answered, AgentTyped
<1>2. calls'[c].pc = "answered" /\ calls'[c].ans = ans /\ calls'[c].user = calls[c].user
        /\ calls'[c].tok = calls[c].tok
  BY <1>0, <1>1, Callees DEF AgentTyped
<1>3. OneCaller'
  BY <1>1, <1>2, Callees DEF OneCaller, Clients, Held
<1>4. \A d \in Refreshers : Presented(d)'
  <2>1. \A d \in Refreshers : d # c => Presented(d)'
    BY <1>0, <1>1, Callees DEF Presented, Held
  <2>2. c \in Refreshers => Presented(c)
    BY DEF Held
  <2>3. c \in Refreshers => Presented(c)'
    BY <1>0, <1>2, <2>2 DEF Presented
  <2> QED
    BY <2>1, <2>3
<1>5. \A d \in Refreshers : d # c => BroughtBack(d)'
  BY <1>0, <1>1, Callees DEF BroughtBack, Clients, Held, Renewed, SessionsOf
<1>6. c \in Refreshers => BroughtBack(c)'
  BY <1>0, <1>2, Callees DEF BroughtBack, Renewed
<1>7. \A d \in Refreshers : ~(Renewed(d)' /\ calls'[d].user = Owner)
        => ~(Renewed(d) /\ calls[d].user = Owner)
  BY <1>1, <1>2, Callees DEF Renewed
<1>8. ident'.email \in {Owner, None}
  BY DEF Held
<1>9. \A v \in Operators \ {Owner} : \A k \in SessionsOf(Owner) : keyring'[v] # sess[k].tok
  BY DEF Held
<1>10. (\A d \in Refreshers : ~(Renewed(d)' /\ calls'[d].user = Owner))
         => keyring'[Owner] = sess[kin].tok
  BY <1>7 DEF Held
<1> QED
  BY <1>3, <1>4, <1>5, <1>6, <1>8, <1>9, <1>10, CallFrame

(* A call is over: its answer, if it brought a token, is in the keyring.   *)
LEMMA ReturnHolds ==
  ASSUME TypeOK, Held, NEW c \in Clients, Return(c), UNCHANGED <<kin, desk>>,
         ident'.email \in {ident.email, None},
         keyring'[Owner] = IF c \in Refreshers /\ Renewed(c) /\ calls[c].user = Owner
                           THEN calls[c].ans.tok ELSE keyring[Owner],
         \A v \in Operators \ {Owner} :
           \/ keyring'[v] = keyring[v]
           \/ c \in Refreshers /\ Renewed(c) /\ calls[c].user = v /\ keyring'[v] = calls[c].ans.tok
  PROVE  Held'
<1> USE DEF cloudVars
<1>0. AgentTyped /\ Owner' = Owner
  BY TypeParts DEF Owner, Return
<1>i. Idle.pc = "idle"
  BY DEF Idle
<1>1. /\ calls'[c] = Idle /\ Idle.pc = "idle"
      /\ \A d \in Callers \ {c} : calls'[d] = calls[d]
  BY <1>0, <1>i, Callees, CallMoves DEF Return
<1>2. OneCaller'
  BY <1>1, Callees DEF OneCaller, Clients, Held
<1>3. calls[c].pc = "answered" /\ \A d \in Clients \ {c} : calls[d].pc = "idle"
  BY DEF Return, Held, OneCaller, Clients
<1>4. \A d \in Refreshers : calls'[d].pc = "idle"
  BY <1>1, <1>3, Callees DEF Clients
<1>5. \A d \in Refreshers : Presented(d)' /\ BroughtBack(d)'
  BY <1>4 DEF Presented, BroughtBack
<1>6. keyring'[Owner] = sess[kin].tok
  <2>1. CASE c \in Refreshers /\ Renewed(c) /\ calls[c].user = Owner
    BY <1>3, <2>1 DEF Held, BroughtBack
  <2>2. CASE ~(c \in Refreshers /\ Renewed(c) /\ calls[c].user = Owner)
    <3>1. \A d \in Refreshers : ~(Renewed(d) /\ calls[d].user = Owner)
      BY <1>3, <2>2 DEF Renewed, Clients
    <3> QED
      BY <2>2, <3>1 DEF Held
  <2> QED
    BY <2>1, <2>2
<1>7. \A v \in Operators \ {Owner} : \A k \in SessionsOf(Owner) : keyring'[v] # sess[k].tok
  BY <1>3 DEF Held, BroughtBack
<1>8. ident'.email \in {Owner, None}
  BY DEF Held
<1>9. UNCHANGED <<sess, users, jar, kin>>
  BY DEF Return
<1> QED
  BY <1>2, <1>5, <1>6, <1>7, <1>8, <1>9, CallFrame

(* The cloud answers a refresh.  The agent's own token is the live one, so  *)
(* it is rotated; another account's token leaves the agent's session alone. *)
LEMMA RefreshHolds ==
  ASSUME TypeOK, Issued, Held, spoiled' = {}, NEW c \in Refreshers, DeliverRefresh(c)
  PROVE  Held'
<1> DEFINE tok == calls[c].tok
           u == calls[c].user
           h == RefreshHandler(tok)
           ans == IF h.status = 200 THEN Ok(u) ELSE Error(401)
<1>0. /\ AgentTyped /\ sess \in Seq(Sessions) /\ lastTok \in Nat /\ kin \in DOMAIN sess
  BY TypeParts DEF Held
<1>1. /\ calls[c].pc = "sent" /\ sess' = h.sess
      /\ lastTok' = IF h.status = 200 THEN lastTok + 1 ELSE lastTok
      /\ Answered(c, ans)
      /\ UNCHANGED <<users, ident, desk, keyring, kin, jar>>
  BY DEF DeliverRefresh
<1>6. /\ ans.status \in {200, 401} /\ (ans.status = 200 <=> h.status = 200)
      /\ h.status = 200 => ans.tok = lastTok + 1
  BY DEF Ok, Error
<1> HIDE DEF ans
<1>2. /\ calls'[c] = [calls[c] EXCEPT !.pc = "answered", !.ans = ans]
      /\ \A d \in Callers \ {c} : calls'[d] = calls[d]
  BY <1>0, <1>1, Callees, CallMoves DEF Answered, AgentTyped
<1>3. calls'[c].pc = "answered" /\ calls'[c].ans = ans /\ calls'[c].user = u /\ calls'[c].tok = tok
  BY <1>0, <1>2, Callees DEF AgentTyped
<1>4. u = (IF c = Launcher THEN desk ELSE Owner) /\ tok = keyring[u] /\ u \in Operators
  BY <1>0, <1>1, SessionAssumption, Callees DEF Held, Presented, AgentTyped, Refreshers
<1>5. \A d \in Clients \ {c} : calls[d].pc = "idle"
  BY <1>1 DEF Held, OneCaller, Clients
<1>7. keyring[Owner] = sess[kin].tok
  <2>1. \A d \in Refreshers : ~Renewed(d)
    BY <1>1, <1>5 DEF Renewed, Clients
  <2> QED
    BY <2>1 DEF Held
<1>8. /\ \A k \in DOMAIN sess : sess[k].tok # lastTok + 1
      /\ \A v \in Operators : keyring[v] # lastTok + 1
      /\ \A v \in Users : jar[v] # None => jar[v].tok # lastTok + 1
  <2>1. \A k \in DOMAIN sess : sess[k].tok # lastTok + 1
    BY <1>0 DEF Issued
  <2>2. \A v \in Operators : keyring[v] # lastTok + 1
    BY <1>0, SessionAssumption DEF Issued
  <2>3. \A v \in Users : jar[v] # None => jar[v].tok # lastTok + 1
    BY <1>0 DEF Issued
  <2> QED
    BY <2>1, <2>2, <2>3
<1> HIDE DEF tok, u, h
<1>9. OneCaller'
  BY <1>2, <1>5, Callees DEF OneCaller, Clients, Held
<1>10. \A d \in Refreshers \ {c} : Presented(d)' /\ BroughtBack(d)' /\ ~Renewed(d)'
  BY <1>2, <1>5, Callees DEF Presented, BroughtBack, Renewed, Clients
<1>11. Renewed(c)' <=> h.status = 200
  BY <1>3, <1>6 DEF Renewed
<1>12. ASSUME u = Owner PROVE Held'
  <2>1. tok = sess[kin].tok /\ kin \in ByHash(tok)
    BY <1>0, <1>4, <1>7, <1>12 DEF ByHash
  <2>2. \A k \in ByHash(tok) : k = kin
    BY <1>0, <2>1 DEF Issued, ByHash
  <2>3. h.status = 200 /\ h.sess = Rotated(kin)
    <3>1. CanRefresh(kin) /\ sess[kin].live
      BY DEF Held, CanRefresh
    <3> QED
      BY <2>1, <2>2, <3>1, RefreshOutcome DEF h
  <2>4. /\ DOMAIN sess' = DOMAIN sess
        /\ \A j \in DOMAIN sess \ {kin} : sess'[j] = sess[j]
        /\ sess'[kin] = [sess[kin] EXCEPT !.tok = lastTok + 1]
    BY <1>0, <1>1, <2>3, RotatedRow
  <2>5. /\ sess'[kin].tok = lastTok + 1 /\ sess'[kin].live = sess[kin].live
        /\ sess'[kin].expired = sess[kin].expired /\ sess'[kin].user = sess[kin].user
    BY <1>0, <2>4, DomainSess DEF Sessions
  <2>6. Owner' = Owner
    BY <1>1, <2>5 DEF Owner
  <2>7. CanRefresh(kin)'
    BY <1>1, <2>5 DEF Held, CanRefresh
  <2>8. Presented(c)'
    BY <1>1, <1>3, <1>4, <2>6 DEF Presented
  <2>9. BroughtBack(c)'
    BY <1>1, <1>3, <1>6, <1>12, <2>3, <2>5, <2>6 DEF BroughtBack
  <2>10. Renewed(c)' /\ calls'[c].user = Owner'
    BY <1>3, <1>11, <1>12, <2>3, <2>6
  <2>11. \A v \in Operators \ {Owner} : \A k \in SessionsOf(Owner)' : keyring[v] # sess'[k].tok
    <3>1. SessionsOf(Owner)' = SessionsOf(Owner)
      BY <2>4, <2>5, <2>6 DEF SessionsOf
    <3>2. \A k \in SessionsOf(Owner) : k # kin => sess'[k] = sess[k]
      BY <2>4 DEF SessionsOf
    <3>3. \A v \in Operators \ {Owner} : \A k \in SessionsOf(Owner) : keyring[v] # sess[k].tok
      BY DEF Held
    <3> QED
      BY <1>8, <2>5, <3>1, <3>2, <3>3
  <2>12. \A v \in Users : jar[v] # None => jar[v].tok # sess'[kin].tok
    BY <1>8, <2>5
  <2> QED
    BY <1>0, <1>1, <1>9, <1>10, <2>4, <2>6, <2>7, <2>8, <2>9, <2>10, <2>11, <2>12 DEF Held
<1>13. ASSUME u # Owner PROVE Held'
  <2>1. \A k \in ByHash(tok) : sess[k].user # Owner
    BY <1>4, <1>13 DEF Held, ByHash, SessionsOf
  <2>2. \A k \in SessionsOf(Owner) : k \in DOMAIN sess' /\ sess'[k] = sess[k]
    <3>1. ASSUME NEW k \in ByHash(tok), h.sess = Rotated(k)
          PROVE  \A j \in SessionsOf(Owner) : j \in DOMAIN sess' /\ sess'[j] = sess[j]
      <4>1. k \in DOMAIN sess /\ k \notin SessionsOf(Owner)
        BY <2>1, <3>1 DEF ByHash, SessionsOf
      <4>2. DOMAIN sess' = DOMAIN sess /\ \A j \in DOMAIN sess \ {k} : sess'[j] = sess[j]
        BY <1>0, <1>1, <3>1, <4>1, RotatedRow
      <4> QED
        BY <4>1, <4>2 DEF SessionsOf
    <3>2. ASSUME NEW k \in ByHash(tok), h.sess = Revoked(SessionsOf(sess[k].user))
          PROVE  \A j \in SessionsOf(Owner) : j \in DOMAIN sess' /\ sess'[j] = sess[j]
      BY <1>1, <2>1, <3>2 DEF SessionsOf, Revoked
    <3>3. ASSUME h.sess = sess
          PROVE  \A j \in SessionsOf(Owner) : j \in DOMAIN sess' /\ sess'[j] = sess[j]
      BY <1>1, <3>3 DEF SessionsOf
    <3> QED
      BY <3>1, <3>2, <3>3, RefreshOutcome DEF h
  <2>3. kin \in SessionsOf(Owner)
    BY <1>0 DEF SessionsOf, Owner
  <2>4. Owner' = Owner /\ CanRefresh(kin)'
    BY <1>1, <2>2, <2>3 DEF Held, CanRefresh, Owner
  <2>5. \A k \in SessionsOf(Owner)' : k \in SessionsOf(Owner)
    <3>1. ASSUME NEW k \in ByHash(tok), h.sess = Rotated(k)
          PROVE  \A j \in DOMAIN sess' : j \in DOMAIN sess /\ sess'[j].user = sess[j].user
      <4>1. k \in DOMAIN sess
        BY <3>1 DEF ByHash
      <4>2. /\ DOMAIN sess' = DOMAIN sess /\ \A j \in DOMAIN sess \ {k} : sess'[j] = sess[j]
            /\ sess'[k] = [sess[k] EXCEPT !.tok = lastTok + 1]
        BY <1>0, <1>1, <3>1, <4>1, RotatedRow
      <4> QED
        BY <1>0, <4>1, <4>2, DomainSess DEF Sessions
    <3>2. ASSUME NEW S, h.sess = Revoked(S)
          PROVE  \A j \in DOMAIN sess' : j \in DOMAIN sess /\ sess'[j].user = sess[j].user
      BY <1>0, <1>1, <3>2, RevokedRows
    <3>3. ASSUME h.sess = sess
          PROVE  \A j \in DOMAIN sess' : j \in DOMAIN sess /\ sess'[j].user = sess[j].user
      BY <1>1, <3>3
    <3>4. \A j \in DOMAIN sess' : j \in DOMAIN sess /\ sess'[j].user = sess[j].user
      BY <3>1, <3>2, <3>3, RefreshOutcome DEF h
    <3> QED
      BY <2>4, <3>4 DEF SessionsOf
  <2>6. Presented(c)'
    BY <1>1, <1>3, <1>4, <2>4 DEF Presented
  <2>7. BroughtBack(c)'
    <3>1. h.status = 200 => \A k \in SessionsOf(Owner)' : sess'[k].tok # ans.tok
      BY <1>6, <1>8, <2>2, <2>5 DEF SessionsOf
    <3> QED
      BY <1>3, <1>11, <1>13, <2>4, <3>1 DEF BroughtBack
  <2>8. keyring[Owner] = sess'[kin].tok
    BY <1>7, <2>2, <2>3
  <2>9. \A v \in Operators \ {Owner} : \A k \in SessionsOf(Owner)' : keyring[v] # sess'[k].tok
    BY <2>2, <2>5 DEF Held
  <2>10. \A v \in Users : jar[v] # None => jar[v].tok # sess'[kin].tok
    BY <2>2, <2>3 DEF Held
  <2> QED
    BY <1>1, <1>9, <1>10, <2>2, <2>3, <2>4, <2>6, <2>7, <2>8, <2>9, <2>10 DEF Held
<1> QED
  BY <1>12, <1>13

(* The agent's own steps.                                                  *)
LEMMA AgentHolds ==
  ASSUME TypeOK, Issued, Held, Moved, spoiled = {}, spoiled' = {}, ~SignedIn, Agent \/ Network
  PROVE  Held'
<1> USE DEF cloudVars
<1>0. /\ AgentTyped /\ "login" \in Clients /\ Launcher \in Refreshers /\ Launcher \in Clients
      /\ Launcher \notin Coroutines
      /\ \A c \in Coroutines : c \in Refreshers /\ c \in Clients /\ c # Launcher
      /\ calls["logout"].pc = "idle"
  BY TypeParts, SessionAssumption DEF Clients, Refreshers, Held, OneCaller
<1>1. ASSUME UNCHANGED <<sess, users, ident, desk, keyring, kin, jar>>,
             \A c \in Clients \cup {"logout"} : calls'[c] = calls[c]
      PROVE  Held'
  <2>1. users'[Owner].active
    BY <1>1 DEF Held, CanRefresh, Owner
  <2> QED
    BY <1>1, <2>1, CloudFrame
<1>2. ASSUME NEW call, calls' = [calls EXCEPT !["others"] = call]
      PROVE  \A c \in Clients \cup {"logout"} : calls'[c] = calls[c]
  <2>1. \A c \in Callers \ {"others"} : calls'[c] = calls[c]
    BY <1>0, <1>2, CallMoves, Callees
  <2> QED
    BY <2>1, Callees
<1>3. ASSUME NEW c \in Coroutines, BeginRefresh(c) PROVE Held'
  <2>1. UNCHANGED <<sess, users, jar, kin, keyring, desk>> /\ ident.email = Owner
    BY <1>3 DEF BeginRefresh, Held
  <2>2. \A d \in Clients : calls[d].pc = "idle"
    <3>1. \A d \in Coroutines : calls[d].pc = "idle"
      BY <1>3 DEF BeginRefresh, Locked
    <3>2. \A d \in {Launcher, "login"} : calls[d].pc = "idle"
      BY <1>3, SessionAssumption DEF BeginRefresh, Beside, Callers
    <3> QED
      BY <3>1, <3>2 DEF Clients, Refreshers
  <2>3. keyring[Owner] # None
    <3>1. keyring[Owner] = sess[kin].tok
      BY <2>2 DEF Held, Renewed, Clients
    <3>2. sess[kin].tok \in Nat
      BY DomainSess DEF TypeOK, Sessions, Held
    <3> QED
      BY <3>1, <3>2, SessionAssumption
  <2>4. Send(c, Owner, keyring[Owner]) /\ ident' = ident
    BY <1>3, <2>1, <2>3 DEF BeginRefresh
  <2> QED
    BY <1>0, <2>1, <2>2, <2>4, SendHolds
<1>4. CASE BeginDeskRefresh
  <2>1. /\ Send(Launcher, desk, keyring[desk])
        /\ UNCHANGED <<sess, users, jar, kin, keyring, ident, desk>>
    BY <1>4 DEF BeginDeskRefresh
  <2>2. \A d \in Clients : calls[d].pc = "idle"
    BY <1>4, Callees DEF BeginDeskRefresh, Beside
  <2> QED
    BY <1>0, <2>1, <2>2, SendHolds
<1>5. CASE BeginLogin
  <2>1. /\ \E u \in Operators : Send("login", u, None)
        /\ UNCHANGED <<sess, users, jar, kin, keyring, ident, desk>>
    BY <1>5 DEF BeginLogin
  <2>2. \A d \in Clients : calls[d].pc = "idle"
    BY <1>5, Callees DEF BeginLogin, Beside
  <2> QED
    BY <1>0, <2>1, <2>2, SendHolds, Callees
<1>6. CASE BeginLogout
  BY <1>6 DEF BeginLogout
<1>7. CASE BeginRevokeOthers
  <2>1. /\ \E u, tok : Send("others", u, tok)
        /\ UNCHANGED <<sess, users, ident, desk, keyring, kin, jar>>
    BY <1>7 DEF BeginRevokeOthers
  <2> QED
    BY <1>1, <1>2, <2>1 DEF Send
<1>8. ASSUME NEW c \in Coroutines, EndRefresh(c) PROVE Held'
  <2>1. /\ Return(c) /\ UNCHANGED <<kin, desk>> /\ calls[c].pc = "answered" /\ calls[c].user = Owner
    BY <1>0, <1>8 DEF EndRefresh, Return, Held, Presented
  <2>2. calls[c].ans.status # 401
    BY <1>0, <2>1 DEF Held, BroughtBack
  <2>3. /\ ident'.email = ident.email
        /\ keyring' = IF Renewed(c) THEN [keyring EXCEPT ![Owner] = calls[c].ans.tok] ELSE keyring
    BY <1>0, <1>8, <2>1, <2>2 DEF EndRefresh, Renewed, AgentTyped
  <2>4. /\ keyring'[Owner] = IF Renewed(c) THEN calls[c].ans.tok ELSE keyring[Owner]
        /\ \A v \in Operators \ {Owner} : keyring'[v] = keyring[v]
    BY <1>0, <2>3 DEF AgentTyped, Held
  <2> QED
    BY <1>0, <2>1, <2>3, <2>4, ReturnHolds
<1>9. CASE EndDeskRefresh
  <2>1. /\ Return(Launcher) /\ UNCHANGED <<kin, desk>> /\ calls[Launcher].pc = "answered"
        /\ calls[Launcher].user = desk
    BY <1>0, <1>9 DEF EndDeskRefresh, Return, Held, Presented
  <2>2. desk \in Operators /\ desk # None
    BY <1>0, <2>1, SessionAssumption, Callees DEF AgentTyped
  <2>3. /\ ident'.email = ident.email
        /\ keyring' = IF Renewed(Launcher) THEN [keyring EXCEPT ![desk] = calls[Launcher].ans.tok]
                      ELSE keyring
    BY <1>0, <1>9, <2>1, <2>2 DEF EndDeskRefresh, Renewed, AgentTyped
  <2>4. \A v \in Operators :
           keyring'[v] = IF Renewed(Launcher) /\ desk = v THEN calls[Launcher].ans.tok ELSE keyring[v]
    BY <1>0, <2>3 DEF AgentTyped
  <2>5. Owner \in Operators
    BY DEF Held
  <2> QED
    BY <1>0, <2>1, <2>3, <2>4, <2>5, ReturnHolds
<1>10. CASE EndLogin
  <2>1. /\ Return("login") /\ UNCHANGED <<keyring, ident, desk, kin>>
    BY <1>10 DEF EndLogin, SignedIn, Renewed, Return
  <2> QED
    BY <1>0, <2>1, Callees, ReturnHolds
<1>11. CASE EndLogout
  BY <1>0, <1>11 DEF EndLogout, Return
<1>12. CASE EndRevokeOthers
  <2>1. /\ calls' = [calls EXCEPT !["others"] = Idle]
        /\ UNCHANGED <<sess, users, ident, desk, keyring, kin, jar>>
    BY <1>12 DEF EndRevokeOthers, Return
  <2> QED
    BY <1>1, <1>2, <2>1
<1>13. CASE ServerStops
  <2>1. UNCHANGED <<sess, users, jar, kin, keyring, calls>> /\ ident' = Out
    BY <1>13 DEF ServerStops
  <2>2. calls[Launcher].pc = "idle"
    BY <1>0, <1>13, SessionAssumption DEF ServerStops, Beside
  <2>3. Owner' = Owner /\ OneCaller'
    BY <2>1 DEF Owner, OneCaller, Held
  <2>4. \A c \in Refreshers : Presented(c)' /\ BroughtBack(c)'
    BY <1>0, <2>1, <2>2, <2>3 DEF Held, Presented, BroughtBack, Renewed, SessionsOf
  <2>5. ident'.email \in {Owner, None}
    BY <2>1 DEF Out
  <2>6. /\ (\A c \in Refreshers : ~(Renewed(c)' /\ calls'[c].user = Owner))
             => keyring'[Owner] = sess[kin].tok
        /\ \A v \in Operators \ {Owner} : \A k \in SessionsOf(Owner) : keyring'[v] # sess[k].tok
    BY <2>1 DEF Held, Renewed
  <2> QED
    BY <2>1, <2>3, <2>4, <2>5, <2>6, CallFrame
<1>14. CASE DeliverRevokeOthers
  <2>1. PICK S : /\ sess' = Revoked(S)
                 /\ spoiled' = IF kin \in S THEN spoiled \cup {"revoked"} ELSE spoiled
    BY <1>14 DEF DeliverRevokeOthers
  <2>2. kin \notin S /\ UNCHANGED <<users, ident, desk, keyring, kin, jar>>
    BY <1>14, <2>1 DEF DeliverRevokeOthers
  <2>3. \A c \in Clients \cup {"logout"} : calls'[c] = calls[c]
    <3>1. Answered("others", Error(200))
      BY <1>14 DEF DeliverRevokeOthers
    <3>2. \E call : calls' = [calls EXCEPT !["others"] = call]
      BY <1>0, <3>1, Callees, AnsweredCall
    <3> QED
      BY <1>2, <3>2
  <2>4. users'[Owner].active
    BY <2>2 DEF Held, CanRefresh, Owner
  <2> QED
    BY <2>1, <2>2, <2>3, <2>4, OthersRevoked, CloudFrame
<1>15. CASE DeliverLogin
  <2> DEFINE u == calls["login"].user
  <2>1. u \in Users /\ lastTok \in Nat /\ sess \in Seq(Sessions) /\ kin \in DOMAIN sess
    BY <1>0, <1>15, SessionAssumption, Callees DEF DeliverLogin, AgentTyped, TypeOK, Sessions, Held
  <2>2. calls["login"].pc = "sent" /\ \A c \in Refreshers : calls[c].pc = "idle"
    BY <1>0, <1>15, Callees DEF DeliverLogin, Held, OneCaller, Clients
  <2>3. PICK ans : Answered("login", ans)
    BY <1>15 DEF DeliverLogin
  <2>4. UNCHANGED <<ident, desk, keyring, kin, jar>>
    BY <1>15 DEF DeliverLogin
  <2>5. CASE UNCHANGED <<sess, users>>
    BY <1>0, <2>2, <2>3, <2>4, <2>5, FailureHolds
  <2>6. CASE sess' = NewSession(u) /\ users' = [users EXCEPT ![u].failed = 0]
    <3>1. NewSession(u)[kin] = sess[kin]
      BY <2>1, NewRow
    <3>2. \A v \in Users : users'[v].active = users[v].active
      BY <2>6 DEF TypeOK, Account
    <3>3. users'[Owner].active
      BY <3>2, AccountsFrame
    <3>4. \A c \in Refreshers : calls'[c] = calls[c]
      BY <1>0, <2>3, Callees DEF Answered, AgentTyped
    <3>5. Owner' = Owner /\ CanRefresh(kin)' /\ kin \in DOMAIN sess'
      BY <2>4, <2>6, <3>1, <3>3, <2>1, NewRow DEF Held, CanRefresh, Owner
    <3>6. OneCaller'
      <4>1. calls'["logout"] = calls["logout"]
        BY <1>0, <2>3, Callees DEF Answered, AgentTyped
      <4> QED
        BY <1>0, <2>2, <3>4, <4>1 DEF OneCaller
    <3>7. \A c \in Refreshers : Presented(c)' /\ BroughtBack(c)' /\ ~Renewed(c) /\ ~Renewed(c)'
      BY <2>2, <3>4 DEF Presented, BroughtBack, Renewed
    <3>8. keyring[Owner] = sess[kin].tok
      BY <3>7 DEF Held
    <3>9. \A v \in Operators \ {Owner} : \A k \in SessionsOf(Owner)' : keyring[v] # sess'[k].tok
      <4>1. \A k \in SessionsOf(Owner)' :
               (k \in SessionsOf(Owner) /\ sess'[k].tok = sess[k].tok) \/ sess'[k].tok = lastTok + 1
        BY <3>5, RowsKept DEF SessionsOf
      <4>2. \A v \in Operators : keyring[v] # lastTok + 1
        BY <2>1, SessionAssumption DEF Issued
      <4> QED
        BY <4>1, <4>2 DEF Held
    <3> QED
      BY <2>4, <2>6, <3>1, <3>5, <3>6, <3>7, <3>8, <3>9 DEF Held
  <2> QED
    BY <1>15, <2>5, <2>6 DEF DeliverLogin
<1>16. CASE DeliverLogout
  BY <1>0, <1>16 DEF DeliverLogout
<1>17. ASSUME NEW c \in Callers, DeliverRefresh(c) PROVE Held'
  BY <1>17, RefreshHolds DEF DeliverRefresh, Refreshers
<1>18. ASSUME NEW c \in Callers, LoseCall(c) PROVE Held'
  <2>1. /\ calls[c].pc = "sent" /\ Answered(c, Error(500))
        /\ UNCHANGED <<sess, users, ident, desk, keyring, kin, jar>>
    BY <1>18 DEF LoseCall
  <2>2. CASE c \in Clients
    <3>1. Error(500).status \notin {200, 401}
      BY DEF Error
    <3> QED
      BY <2>1, <2>2, <3>1, FailureHolds
  <2>3. CASE c = "others"
    <3>1. \E call : calls' = [calls EXCEPT !["others"] = call]
      BY <1>0, <2>1, <2>3, AnsweredCall
    <3> QED
      BY <1>1, <1>2, <2>1, <3>1
  <2>4. c # "logout"
    BY <1>0, <2>1
  <2> QED
    BY <2>2, <2>3, <2>4 DEF Callers, Clients, Refreshers
<1> QED
  BY <1>3, <1>4, <1>5, <1>6, <1>7, <1>8, <1>9, <1>10, <1>11, <1>12, <1>13, <1>14, <1>15, <1>16,
     <1>17, <1>18 DEF Agent, Network

(* A sign-in that succeeds, with nothing else under way, starts the session *)
(* anew: the keyring and no one else gets the token of the new row.        *)
LEMMA SignInHolds ==
  ASSUME TypeOK, Issued, SignedIn, spoiled' = {}
  PROVE  Held'
<1> USE DEF cloudVars
<1> DEFINE u == calls["login"].user
           tok == calls["login"].ans.tok
<1>0. AgentTyped /\ sess \in Seq(Sessions) /\ lastTok \in Nat
  BY TypeParts
<1>1. /\ Return("login") /\ UNCHANGED <<sess, users, jar>>
      /\ keyring' = [keyring EXCEPT ![u] = tok]
      /\ ident'.email = u
      /\ kin' = CHOOSE k \in ByHash(tok) \cup {0} : k # 0 \/ ByHash(tok) = {}
      /\ \A c \in Callers \ {"login"} : calls[c].pc = "idle"
      /\ \E k \in ByHash(tok) : CanRefresh(k)
      /\ \A v \in Operators \ {u} : ByHash(keyring[v]) \cap SessionsOf(u) = {}
  BY DEF SignedIn, EndLogin, Renewed, Return
<1>2. u \in Operators
  BY <1>0, <1>1, SessionAssumption, Callees DEF Return, AgentTyped
<1>3. \A c \in Callers : calls'[c].pc = "idle"
  <2>1. calls' = [calls EXCEPT !["login"] = Idle] /\ Idle.pc = "idle"
    BY <1>1 DEF Return, Idle
  <2>2. calls'["login"] = Idle /\ \A c \in Callers \ {"login"} : calls'[c] = calls[c]
    BY <1>0, <2>1, CallMoves, Callees
  <2> QED
    BY <1>1, <2>1, <2>2
<1> HIDE DEF u, tok
<1>4. PICK k \in ByHash(tok) : CanRefresh(k)
  BY <1>1
<1>5. k \in DOMAIN sess /\ k # 0 /\ sess[k].tok = tok /\ \A j \in ByHash(tok) : j = k
  <2>1. k \in DOMAIN sess /\ sess[k].tok = tok
    BY DEF ByHash
  <2>2. k # 0
    BY <1>0, <2>1, DomainSess
  <2> QED
    BY <2>1, <2>2 DEF ByHash, Issued
<1>6. kin' = k
  <2>1. \E j \in ByHash(tok) \cup {0} : j # 0 \/ ByHash(tok) = {}
    BY <1>5
  <2>2. (kin' \in ByHash(tok) /\ kin' # 0) \/ ByHash(tok) = {}
    BY <1>1, <2>1
  <2> QED
    BY <1>5, <2>2
<1>7. /\ sess[k].user = u
      /\ \A v \in Users : jar[v] # None => jar[v].tok # tok
  BY <1>5 DEF Issued, SignedIn, u, tok
<1>8. Owner' = u /\ CanRefresh(kin)' /\ kin' \in DOMAIN sess'
  BY <1>1, <1>4, <1>5, <1>6, <1>7 DEF Owner, CanRefresh
<1>9. OneCaller' /\ \A c \in Refreshers : Presented(c)' /\ BroughtBack(c)'
  BY <1>3, Callees DEF OneCaller, Presented, BroughtBack, Clients
<1>10. keyring'[u] = tok /\ \A v \in Operators \ {u} : keyring'[v] = keyring[v]
  BY <1>0, <1>1, <1>2 DEF AgentTyped
<1>11. \A v \in Operators \ {u} : \A j \in SessionsOf(u) : keyring[v] # sess[j].tok
  BY <1>1 DEF ByHash, SessionsOf
<1>12. SessionsOf(Owner)' = SessionsOf(u)
  BY <1>1, <1>8 DEF SessionsOf
<1> QED
  BY <1>1, <1>2, <1>5, <1>6, <1>7, <1>8, <1>9, <1>10, <1>11, <1>12 DEF Held

LEMMA GuardedStep ==
  TypeOK /\ Issued /\ Guarded /\ [Next]_vars => Guarded'
<1> SUFFICES ASSUME TypeOK, Issued, Guarded, [Next]_vars, spoiled' = {}, kin' # None
             PROVE  Held'
  BY DEF Guarded
<1>1. Moved
  BY SessionMoves
<1>2. CASE SignedIn
  BY <1>2, SignInHolds
<1>3. CASE ~SignedIn
  <2>1. spoiled = {} /\ kin' = kin /\ Held
    BY <1>3, ReasonsStay DEF Guarded
  <2>2. CASE UNCHANGED vars
    BY <2>1, <2>2 DEF vars, cloudVars, agentVars, Held, CanRefresh, Owner, OneCaller, Presented,
         BroughtBack, Renewed, SessionsOf
  <2>3. CASE Next
    BY <1>1, <1>3, <2>1, <2>3, CloudHolds, AgentHolds DEF Next
  <2> QED
    BY <2>2, <2>3
<1> QED
  BY <1>2, <1>3

-----------------------------------------------------------------------------
(* Every reachable state is well typed.                                    *)
THEOREM TypeCorrect == Spec => []TypeOK
<1>1. Init => TypeOK
  BY InitTyped
<1> QED
  BY <1>1, TypeStep, PTL DEF Spec

(* However many administrators' requests were authorised before any of     *)
(* them runs, an active administrator is left (count_active_admins in      *)
(* patch_user).                                                            *)
THEOREM AdminRemains == Spec => []LastAdmin
<1>1. Init => TypeOK /\ LastAdmin
  BY InitTyped
<1>2. TypeOK /\ LastAdmin /\ [Next]_vars => (TypeOK /\ LastAdmin)'
  BY TypeStep, AccountsManaged, LastAdminStep
<1> QED
  BY <1>1, <1>2, PTL DEF Spec

(* Sessions that a deactivation or a password reset ended are never alive  *)
(* again, whatever refresh was under way (revoke_session_family with       *)
(* set_user_active and set_password), and live ones are of active users.   *)
THEOREM EndedSessionsStay == Spec => []EndedStaysEnded
<1>1. Init => TypeOK /\ EndedStaysEnded
  BY InitTyped
<1>2. TypeOK /\ EndedStaysEnded /\ [Next]_vars => (TypeOK /\ EndedStaysEnded)'
  BY TypeStep, SessionMoves, AccountsManaged, EndedStep
<1> QED
  BY <1>1, <1>2, PTL DEF Spec

(* While nothing spoiled it, the agent's keyring holds the one token that   *)
(* the cloud accepts next (rotate_session, identity.refresh and             *)
(* _try_refresh_sync hand it on), however many coroutines refresh.         *)
THEOREM KeyringStaysLive == Spec => []KeyringLive
<1>1. Init => TypeOK /\ Issued /\ Guarded
  <2>1. Init => Issued
    BY DEF Init, Issued, Renewed, Refreshers, Callers, Idle
  <2> QED
    BY <2>1, InitTyped DEF Init, Guarded
<1>2. TypeOK /\ Issued /\ Guarded /\ [Next]_vars => (TypeOK /\ Issued /\ Guarded)'
  BY TypeStep, SessionMoves, TokensHanded, IssuedStep, GuardedStep
<1>3. TypeOK /\ Guarded => KeyringLive
  <2> SUFFICES ASSUME TypeOK, Held, \A c \in Callers : calls[c].pc = "idle" \/ c = "login"
               PROVE  keyring[Owner] = sess[kin].tok /\ CanRefresh(kin)
    BY DEF Guarded, KeyringLive, Owner
  <2>1. \A c \in Refreshers : ~Renewed(c)
    BY Callees DEF Renewed
  <2> QED
    BY <2>1 DEF Held
<1> QED
  BY <1>1, <1>2, <1>3, PTL DEF Spec
=============================================================================
