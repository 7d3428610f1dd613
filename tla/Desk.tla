-------------------------------- MODULE Desk --------------------------------
(***************************************************************************)
(* The outreach desk of the cloud: templates, blacklist, campaigns and     *)
(* their mails, SMTP credentials, their OAuth consents and the rotation of *)
(* the key they are encrypted with (cloud/api/templates.py, blacklist.py,  *)
(* campaigns.py, credentials.py, oauth.py, services/campaign_service.py,   *)
(* security/oauth.py, db/mixins/outreach_mixin.py, the rotation script).   *)
(*                                                                         *)
(* Handlers without an await are atomic.  A connection test, a callback of *)
(* a provider and a send wait for other servers between what they read and *)
(* what they write.  The database enforces foreign keys.  Of the           *)
(* dispatcher (module Dispatch) only what it does to the desk's rows is    *)
(* kept, as where it runs on the cloud's own loop: it queues, claims,      *)
(* sends and ends; it cannot read a campaign that has an owner, and it     *)
(* passes over a credential that never cooled down, so that only rows      *)
(* older than these two filters are ever sent.  One in a process of its    *)
(* own, whose steps come between a handler's, is in module Dispatch.       *)
(***************************************************************************)
EXTENDS Integers, FiniteSets, Sequences, SequencesExt, TLC

CONSTANTS
  None,
  Recipients,  \* e-mail addresses
  Domain,      \* [Recipients -> domains]
  Incomplete,  \* addresses whose lead lacks a name or a designation
  MaxOps, MaxCamps, MaxMails, MaxCreds, MaxFlows  \* bounds

ASSUME DeskAssumption ==
  /\ IsFiniteSet(Recipients) /\ Incomplete \subseteq Recipients
  /\ None \notin Nat \cup BOOLEAN \cup {"old", "new", "past", "future"}
  /\ MaxOps \in Nat /\ MaxCamps \in Nat /\ MaxMails \in Nat /\ MaxCreds \in Nat /\ MaxFlows \in Nat

VARIABLES
  template,  \* version of the only template, None once deleted
  blocked,   \* blacklisted addresses
  camps,     \* campaigns: sequence of [kind, status, owned, pool]
  mails,     \* campaign_emails: sequence of rows, "gone" once deleted
  creds,     \* smtp_credentials: sequence of rows, None once deleted
  flows,     \* oauth_pending_flows: [1..MaxFlows -> credential or None]
  begun,     \* sign-ins started so far
  waits,     \* handlers waiting for a provider or a mail server
  keys,      \* CREDENTIAL_ENC_KEY: "old", "both" (new first), "new" only
  script,    \* rotation script: "idle", "read" its rows, "ended"
  exchanges, \* history variable: [1..MaxFlows -> times its code was exchanged]
  asked,     \* history variable: [campaigns -> last pool asked for]
  ops

mailVars == <<template, blocked, camps, mails, asked>>
credVars == <<creds, flows, begun, exchanges>>
keyVars == <<keys, script>>
vars == <<mailVars, credVars, keyVars, waits, ops>>

Providers == {"basic", "google"}
Live == {"DRAFT", "QUEUED", "SENDING", "SENT", "FAILED"}

(* Rows of an older release: no owner, and a cooldown that has passed *)
OldCampaign == [kind |-> "production", status |-> "PAUSED", owned |-> FALSE, pool |-> {}]
OldCredential == [provider |-> "basic", active |-> TRUE, cooldown |-> "past", pw |-> "old",
                  tk |-> None, grant |-> 0, connected |-> 0]

Request == ops < MaxOps /\ ops' = ops + 1

-----------------------------------------------------------------------------
Init ==
  /\ template = 1 /\ blocked = {} /\ mails = <<>>
  /\ \/ camps = <<>> /\ creds = <<>>
     \/ camps = <<OldCampaign>> /\ creds = <<OldCredential>>
  /\ asked = [c \in DOMAIN camps |-> {}]
  /\ flows = [f \in 1..MaxFlows |-> None] /\ begun = 0
  /\ waits = {} /\ keys = "old" /\ script = "idle"
  /\ exchanges = [f \in 1..MaxFlows |-> 0]
  /\ ops = 0

-----------------------------------------------------------------------------
(* Rows *)

MailsOf(c) == {k \in DOMAIN mails : mails[k].camp = c /\ mails[k].status \in Live}
InStatus(c, S) == {k \in MailsOf(c) : mails[k].status \in S}
Selected(c) == {k \in InStatus(c, {"DRAFT"}) : mails[k].sel}
Existing == {i \in DOMAIN creds : creds[i] # None}
Ready == {i \in Existing : creds[i].active /\ creds[i].cooldown = "past"}

(* Every row of K updated by U *)
Updated(K, U(_)) == [k \in DOMAIN mails |-> IF k \in K THEN U(mails[k]) ELSE mails[k]]

(* is_blacklisted: an entry blocks its address and its whole domain. *)
Blacklisted(r) == \E b \in blocked : Domain[b] = Domain[r]

(* resolve_credential_pool: an empty pool means every credential.        *)
Usable(c) == IF camps[c].pool = {} THEN Ready ELSE camps[c].pool \cap Ready

(* The first of the chain encrypts. *)
Primary == IF keys = "old" THEN "old" ELSE "new"

-----------------------------------------------------------------------------
(* Templates and blacklist *)

UpdateTemplate ==
  /\ Request /\ template # None
  /\ template' = template + 1
  /\ UNCHANGED <<blocked, camps, mails, asked, credVars, keyVars, waits>>

(* delete_template; a campaign's foreign key refuses it *)
DeleteTemplate ==
  /\ Request /\ template # None /\ camps = <<>>
  /\ template' = None
  /\ UNCHANGED <<blocked, camps, mails, asked, credVars, keyVars, waits>>

Block(r) ==
  /\ Request /\ r \notin blocked
  /\ blocked' = blocked \cup {r}
  /\ UNCHANGED <<template, camps, mails, asked, credVars, keyVars, waits>>

Unblock(r) ==
  /\ Request /\ r \in blocked
  /\ blocked' = blocked \ {r}
  /\ UNCHANGED <<template, camps, mails, asked, credVars, keyVars, waits>>

-----------------------------------------------------------------------------
(* Campaigns *)

Draft(c, r, complete) ==
  [camp |-> c, to |-> r, text |-> template, sel |-> complete, status |-> "DRAFT",
   via |-> None, sent |-> None]

(* render_draft_emails: drafts for the leads that are neither blacklisted  *)
(* nor in the campaign; one that lacks a field is deselected.              *)
Rendered(c, leads, exclude) ==
  LET rs == {r \in leads : ~Blacklisted(r) /\ r \notin exclude}
  IN  SetToSeq({Draft(c, r, r \notin Incomplete) : r \in rs})

NewCampaign(kind, pool) ==
  Append(camps, [kind |-> kind, status |-> "PAUSED", owned |-> TRUE, pool |-> pool])

(* create_campaign, production: the pool is assigned after the drafts are  *)
(* committed, and an unknown credential makes only that last commit fail.  *)
CreateCampaign(leads, pool) ==
  /\ Request /\ Len(camps) < MaxCamps /\ template # None
  /\ leads # {} /\ \E r \in leads : ~Blacklisted(r)
  /\ camps' = NewCampaign("production", IF pool \subseteq Existing THEN pool ELSE {})
  /\ asked' = Append(asked, pool)
  /\ mails' = mails \o Rendered(Len(camps) + 1, leads, {})
  /\ Len(mails') <= MaxMails
  /\ UNCHANGED <<template, blocked, credVars, keyVars, waits>>

(* create_campaign, test: a mail per entry of dummy_details, selected,      *)
(* blacklist or not; an address that is listed twice has two mails.        *)
CreateTest(dummies, pool) ==
  /\ Request /\ Len(camps) < MaxCamps /\ template # None
  /\ dummies # <<>> /\ pool \subseteq Existing /\ Cardinality(pool) <= 1
  /\ camps' = NewCampaign("test", pool)
  /\ asked' = Append(asked, pool)
  /\ mails' = mails \o [n \in DOMAIN dummies |-> Draft(Len(camps) + 1, dummies[n], TRUE)]
  /\ Len(mails') <= MaxMails
  /\ UNCHANGED <<template, blocked, credVars, keyVars, waits>>

(* get_campaign_recipient_emails *)
InCampaign_Nobody(c) == {}
InCampaign(c) == {mails[k].to : k \in MailsOf(c)}

AddEmails(c, leads) ==
  /\ Request /\ template # None /\ leads # {}
  /\ camps[c].kind = "production" /\ camps[c].status # "CANCELLED"
  /\ mails' = mails \o Rendered(c, leads, InCampaign(c))
  /\ Len(mails') <= MaxMails
  /\ UNCHANGED <<template, blocked, camps, asked, credVars, keyVars, waits>>

(* set_campaign_credentials: the whole pool is replaced; a test campaign   *)
(* has one credential.  An unknown credential rolls everything back.       *)
Assignable(c, pool) ==
  pool \subseteq Existing /\ (camps[c].kind = "test" => Cardinality(pool) <= 1)

SetPool(c, pool) ==
  /\ Request /\ camps[c].status \notin {"CANCELLED", "COMPLETED"}
  /\ Assignable(c, pool)
  /\ camps' = [camps EXCEPT ![c].pool = pool]
  /\ asked' = [asked EXCEPT ![c] = pool]
  /\ UNCHANGED <<template, blocked, mails, credVars, keyVars, waits>>

(* update_campaign_status takes any status in any state. *)
SetStatus(c, s) ==
  /\ Request
  /\ camps' = [camps EXCEPT ![c].status = s]
  /\ UNCHANGED <<template, blocked, mails, asked, credVars, keyVars, waits>>

(* dispatch_campaign *)
StartCampaign(c) ==
  /\ Request
  /\ Selected(c) \cup InStatus(c, {"QUEUED"}) # {}
  /\ camps[c].status # "RUNNING" /\ Usable(c) # {}
  /\ camps' = [camps EXCEPT ![c].status = "RUNNING"]
  /\ UNCHANGED <<template, blocked, mails, asked, credVars, keyVars, waits>>

-----------------------------------------------------------------------------
(* Mails; nothing is changed in a cancelled campaign *)

Editable(k) == mails[k].status \in Live /\ camps[mails[k].camp].status # "CANCELLED"

(* update_email: 0 stands for the operator's own words. *)
EditMail(k) ==
  /\ Request /\ Editable(k)
  /\ mails' = [mails EXCEPT ![k].text = 0]
  /\ UNCHANGED <<template, blocked, camps, asked, credVars, keyVars, waits>>

(* set_email_selection: a deselected mail leaves the queue. *)
WithSelection(m, sel) ==
  [m EXCEPT !.sel = sel, !.status = IF @ = "QUEUED" /\ ~sel THEN "DRAFT" ELSE @]

SelectMail(k, sel) ==
  /\ Request /\ Editable(k) /\ mails[k].status \in {"DRAFT", "QUEUED"}
  /\ mails' = [mails EXCEPT ![k] = WithSelection(@, sel)]
  /\ UNCHANGED <<template, blocked, camps, asked, credVars, keyVars, waits>>

(* set_all_email_selection: drafts, and when deselecting the queue too *)
Selectable(c, sel) == InStatus(c, IF sel THEN {"DRAFT"} ELSE {"DRAFT", "QUEUED"})

SelectAll(c, sel) ==
  /\ Request /\ camps[c].status # "CANCELLED"
  /\ LET U(m) == WithSelection(m, sel) IN mails' = Updated(Selectable(c, sel), U)
  /\ UNCHANGED <<template, blocked, camps, asked, credVars, keyVars, waits>>

DeleteMail(k) ==
  /\ Request /\ Editable(k) /\ mails[k].status = "DRAFT"
  /\ mails' = [mails EXCEPT ![k].status = "gone"]
  /\ UNCHANGED <<template, blocked, camps, asked, credVars, keyVars, waits>>

-----------------------------------------------------------------------------
(* What the dispatcher does to the desk *)

(* It starts: the selected drafts are queued.  The loop then asks for the  *)
(* campaign without naming an owner, and ends at once if it has one.       *)
QueueMails(c) ==
  /\ camps[c].status = "RUNNING"
  /\ Selected(c) # {}
  /\ LET U(m) == [m EXCEPT !.status = "QUEUED"] IN mails' = Updated(Selected(c), U)
  /\ UNCHANGED <<template, blocked, camps, asked, credVars, keyVars, waits, ops>>

(* A claim reads the text; a connection to a server begins. *)
Talk(i, k) ==
  [for |-> IF k = None THEN "test" ELSE "send", cred |-> i, basic |-> creds[i].provider = "basic", grant |-> creds[i].grant,
   was |-> creds[i].active, mail |-> k]
Sending(c) == \E w \in waits : w.for = "send" /\ mails[w.mail].camp = c

Claim(k, i) ==
  LET c == mails[k].camp
  IN  /\ camps[c].status = "RUNNING" /\ ~camps[c].owned
      /\ mails[k].status = "QUEUED" /\ i \in Usable(c)
      /\ ~Sending(c)
      /\ mails' = [mails EXCEPT ![k].status = "SENDING", ![k].sent = mails[k].text]
      /\ waits' = waits \cup {Talk(i, k)}
      /\ UNCHANGED <<template, blocked, camps, asked, credVars, keyVars, ops>>

(* A coroutine that finds nothing to queue completes the campaign; its     *)
(* loop, when nothing is queued any more, pauses it if drafts remain.      *)
Ended(c, s) == camps' = [camps EXCEPT ![c].status = s] /\ UNCHANGED mails

EndCampaign(c) ==
  /\ ~Sending(c)
  /\ \/ /\ camps[c].status = "RUNNING"
        /\ Selected(c) \cup InStatus(c, {"QUEUED"}) = {}
        /\ Ended(c, "COMPLETED")
     \/ /\ camps[c].status = "RUNNING" /\ ~camps[c].owned
        /\ InStatus(c, {"QUEUED"}) = {}
        /\ Ended(c, IF InStatus(c, {"DRAFT"}) = {} THEN "COMPLETED" ELSE "PAUSED")
     \/ /\ camps[c].status = "RUNNING" /\ Usable(c) = {}
        /\ Ended(c, "PAUSED")
     \/ /\ camps[c].status = "CANCELLED" /\ ~camps[c].owned
        /\ InStatus(c, {"QUEUED"}) # {}
        /\ LET U(m) == [m EXCEPT !.status = "FAILED"] IN mails' = Updated(InStatus(c, {"QUEUED"}), U)
        /\ UNCHANGED camps
  /\ UNCHANGED <<template, blocked, asked, credVars, keyVars, waits, ops>>

-----------------------------------------------------------------------------
(* Credentials *)

(* create_credential: active at once; basic needs a password, the page     *)
(* gives an OAuth credential none.                                         *)
NewCredential(p) ==
  [provider |-> p, active |-> TRUE, cooldown |-> None, pw |-> IF p = "basic" THEN Primary ELSE None,
   tk |-> None, grant |-> 0, connected |-> 0]

CreateCredential(p) ==
  /\ Request /\ Len(creds) < MaxCreds
  /\ creds' = Append(creds, NewCredential(p))
  /\ UNCHANGED <<mailVars, flows, begun, exchanges, keyVars, waits>>

(* update_credential: the fields that are given *)
UpdateCredential(i, password, active) ==
  /\ Request /\ (password \/ active # None)
  /\ creds' = [creds EXCEPT ![i].pw = IF password THEN Primary ELSE @,
                            ![i].active = IF active = None THEN @ ELSE active]
  /\ UNCHANGED <<mailVars, flows, begun, exchanges, keyVars, waits>>

(* delete_credential: unfinished sign-ins go with it; a campaign's pool or *)
(* a mail that went through it refuses the deletion.                       *)
Referenced(i) == \/ \E c \in DOMAIN camps : i \in camps[c].pool
                 \/ \E k \in DOMAIN mails : mails[k].status \in Live /\ mails[k].via = i

WithoutFlows(i) == [f \in DOMAIN flows |-> IF flows[f] = i THEN None ELSE flows[f]]

DeleteCredential_Cascade(i) ==
  /\ Request
  /\ camps' = [c \in DOMAIN camps |-> [camps[c] EXCEPT !.pool = @ \ {i}]]
  /\ flows' = WithoutFlows(i)
  /\ creds' = [creds EXCEPT ![i] = None]
  /\ UNCHANGED <<template, blocked, mails, asked, begun, exchanges, keyVars, waits>>

DeleteCredential(i) ==
  /\ Request /\ ~Referenced(i)
  /\ flows' = WithoutFlows(i)
  /\ creds' = [creds EXCEPT ![i] = None]
  /\ UNCHANGED <<mailVars, begun, exchanges, keyVars, waits>>

(* test_credential; an OAuth credential that was never connected is turned away *)
TestCredential(i) ==
  /\ Request
  /\ creds[i].provider # "basic" => creds[i].tk # None
  /\ waits' = waits \cup {Talk(i, None)}
  /\ UNCHANGED <<mailVars, credVars, keyVars>>

(* update_credential_tokens, of a grant *)
WithTokens(i, grant) == [creds EXCEPT ![i].tk = Primary, ![i].grant = grant]

(* get_valid_access_token stores what a refresh returned: tokens of the    *)
(* grant that was read when the connection began.                          *)
AfterRefresh(w, refreshed) ==
  IF refreshed /\ w.cred \in Existing THEN WithTokens(w.cred, w.grant) ELSE creds

WithActive(cs, i, active) == IF cs[i] = None THEN cs ELSE [cs EXCEPT ![i].active = active]

(* An OAuth connection starts with valid tokens, refreshed or still fresh. *)
HasTokens(w, refreshed) == IF w.basic THEN ~refreshed ELSE w.grant # 0

(* The server accepted: a tested credential is enabled if it was not, a    *)
(* mail is sent.                                                           *)
TalkAccepted(w, refreshed) ==
  /\ w \in waits /\ w.for # "callback" /\ waits' = waits \ {w}
  /\ HasTokens(w, refreshed)
  /\ LET cs == AfterRefresh(w, refreshed)
     IN  creds' = IF w.for = "test" /\ ~w.was THEN WithActive(cs, w.cred, TRUE) ELSE cs
  /\ mails' = IF w.for = "test" THEN mails
              ELSE [mails EXCEPT ![w.mail].status = "SENT", ![w.mail].via = w.cred]
  /\ UNCHANGED <<template, blocked, camps, asked, flows, begun, exchanges, keyVars, ops>>

(* It refused the login, or the provider the refresh: the credential is    *)
(* disabled, the mail is queued again.                                     *)
TalkRefused(w, refreshed) ==
  /\ w \in waits /\ w.for # "callback" /\ waits' = waits \ {w}
  /\ refreshed => HasTokens(w, refreshed)
  /\ creds' = WithActive(AfterRefresh(w, refreshed), w.cred, FALSE)
  /\ mails' = IF w.for = "test" THEN mails
              ELSE [mails EXCEPT ![w.mail].status = "QUEUED", ![w.mail].sent = None]
  /\ UNCHANGED <<template, blocked, camps, asked, flows, begun, exchanges, keyVars, ops>>

(* It asked to come back later, or was out of reach: the mail waits and    *)
(* the credential cools down.                                              *)
TalkPostponed(w, refreshed) ==
  /\ w \in waits /\ w.for = "send" /\ waits' = waits \ {w}
  /\ HasTokens(w, refreshed)
  /\ LET cs == AfterRefresh(w, refreshed)
     IN  creds' = IF w.cred \in Existing THEN [cs EXCEPT ![w.cred].cooldown = "future"] ELSE cs
  /\ mails' = [mails EXCEPT ![w.mail].status = "QUEUED", ![w.mail].sent = None]
  /\ UNCHANGED <<template, blocked, camps, asked, flows, begun, exchanges, keyVars, ops>>

CooldownPasses(i) ==
  /\ creds[i].cooldown = "future"
  /\ creds' = [creds EXCEPT ![i].cooldown = "past"]
  /\ UNCHANGED <<mailVars, flows, begun, exchanges, keyVars, waits, ops>>

(* It refused the mail; a hard bounce blacklists the recipient. *)
TalkBounced(w, refreshed, hard) ==
  /\ w \in waits /\ w.for = "send" /\ waits' = waits \ {w}
  /\ HasTokens(w, refreshed)
  /\ creds' = AfterRefresh(w, refreshed)
  /\ blocked' = IF hard THEN blocked \cup {mails[w.mail].to} ELSE blocked
  /\ mails' = [mails EXCEPT ![w.mail].status = "FAILED", ![w.mail].via = w.cred]
  /\ UNCHANGED <<template, camps, asked, flows, begun, exchanges, keyVars, ops>>

-----------------------------------------------------------------------------
(* Consents *)

(* start_credential_oauth; the page offers it for OAuth credentials only.  *)
(* create_oauth_flow also sweeps the sign-ins older than an hour.          *)
Started(i, aged) ==
  [f \in DOMAIN flows |-> IF f = begun + 1 THEN i ELSE IF f \in aged THEN None ELSE flows[f]]

StartOAuth(i, aged) ==
  /\ Request /\ begun < MaxFlows /\ creds[i].provider # "basic"
  /\ begun' = begun + 1 /\ flows' = Started(i, aged)
  /\ UNCHANGED <<mailVars, creds, exchanges, keyVars, waits>>

(* oauth_callback: the state is consumed before the code is exchanged.     *)
(* The browser may repeat the request.                                     *)
Consumed_Kept(f) == flows
Consumed(f) == [flows EXCEPT ![f] = None]

Exchange(f) == [for |-> "callback", cred |-> flows[f], basic |-> FALSE, grant |-> f, was |-> FALSE, mail |-> None]

Callback(f) ==
  /\ Request /\ flows[f] # None
  /\ flows' = Consumed(f)
  /\ exchanges' = [exchanges EXCEPT ![f] = @ + 1]
  /\ waits' = waits \cup {Exchange(f)}
  /\ UNCHANGED <<mailVars, creds, begun, keyVars>>

(* The provider's answer; without a refresh token nothing is stored. *)
EndCallback(w, granted) ==
  /\ w \in waits /\ w.for = "callback" /\ waits' = waits \ {w}
  /\ creds' = IF ~granted \/ w.cred \notin Existing THEN creds
              ELSE [WithTokens(w.cred, w.grant) EXCEPT ![w.cred].active = TRUE, ![w.cred].connected = w.grant]
  /\ UNCHANGED <<mailVars, flows, begun, exchanges, keyVars, ops>>

-----------------------------------------------------------------------------
(* Rotation of the encryption key, in the order of the runbook *)

DeployBothKeys ==
  /\ Request /\ keys = "old" /\ keys' = "both"
  /\ UNCHANGED <<mailVars, credVars, script, waits>>

(* main reads every row and decrypts every password; one without a         *)
(* password makes it raise, and nothing is written.                        *)
BeginRotation ==
  /\ keys = "both" /\ script = "idle"
  /\ script' = IF \E i \in Existing : creds[i].pw = None THEN "ended" ELSE "read"
  /\ UNCHANGED <<mailVars, credVars, keys, waits, ops>>

CommitRotation ==
  /\ script = "read" /\ script' = "ended"
  /\ creds' = [i \in DOMAIN creds |-> IF i \in Existing /\ creds[i].pw # None THEN [creds[i] EXCEPT !.pw = "new"] ELSE creds[i]]
  /\ UNCHANGED <<mailVars, flows, begun, exchanges, keys, waits, ops>>

-----------------------------------------------------------------------------
NewCampaignStep == \E pool \in SUBSET DOMAIN creds :
  \/ \E leads \in SUBSET Recipients : CreateCampaign(leads, pool)
  \/ \E n \in 1..MaxMails : \E dummies \in [1..n -> Recipients] : CreateTest(dummies, pool)

CampaignStep == \E c \in DOMAIN camps :
  \/ \E leads \in SUBSET Recipients : AddEmails(c, leads)
  \/ \E pool \in SUBSET DOMAIN creds : SetPool(c, pool)
  \/ \E s \in {"PAUSED", "RUNNING", "CANCELLED", "COMPLETED"} : SetStatus(c, s)
  \/ StartCampaign(c)
  \/ \E sel \in BOOLEAN : SelectAll(c, sel)
  \/ QueueMails(c)
  \/ EndCampaign(c)

MailStep == \E k \in DOMAIN mails :
  \/ EditMail(k)
  \/ \E sel \in BOOLEAN : SelectMail(k, sel)
  \/ DeleteMail(k)
  \/ \E i \in Existing : Claim(k, i)

CredentialStep == \E i \in Existing :
  \/ \E password \in BOOLEAN, active \in BOOLEAN \cup {None} : UpdateCredential(i, password, active)
  \/ DeleteCredential(i)
  \/ TestCredential(i)
  \/ CooldownPasses(i)
  \/ \E aged \in SUBSET (1..begun) : StartOAuth(i, aged)

WaitStep == \E w \in waits :
  \/ \E refreshed \in BOOLEAN :
       \/ TalkAccepted(w, refreshed) \/ TalkRefused(w, refreshed) \/ TalkPostponed(w, refreshed)
       \/ \E hard \in BOOLEAN : TalkBounced(w, refreshed, hard)
  \/ \E granted \in BOOLEAN : EndCallback(w, granted)

Next ==
  \/ UpdateTemplate \/ DeleteTemplate
  \/ \E r \in Recipients : Block(r) \/ Unblock(r)
  \/ NewCampaignStep \/ CampaignStep \/ MailStep \/ CredentialStep \/ WaitStep
  \/ \E p \in Providers : CreateCredential(p)
  \/ \E f \in 1..MaxFlows : Callback(f)
  \/ DeployBothKeys \/ BeginRotation \/ CommitRotation

Spec == Init /\ [][Next]_vars

-----------------------------------------------------------------------------
(* Properties *)

Campaign == [kind : {"production", "test"}, owned : BOOLEAN, pool : SUBSET Nat,
             status : {"PAUSED", "RUNNING", "CANCELLED", "COMPLETED"}]
Mail == [camp : Nat, to : Recipients, text : Nat, sel : BOOLEAN, status : Live \cup {"gone"},
         via : Nat \cup {None}, sent : Nat \cup {None}]
Credential == [provider : Providers, active : BOOLEAN, cooldown : {None, "past", "future"},
               pw : {None, "old", "new"}, tk : {None, "old", "new"}, grant : Nat, connected : Nat]
Wait == [for : {"test", "send", "callback"}, cred : Nat, basic : BOOLEAN, grant : Nat,
         was : BOOLEAN, mail : Nat \cup {None}]

TypeOK ==
  /\ template \in Nat \cup {None} /\ blocked \subseteq Recipients
  /\ camps \in Seq(Campaign) /\ asked \in [DOMAIN camps -> SUBSET Nat]
  /\ mails \in Seq(Mail) /\ \A k \in DOMAIN mails : mails[k].camp \in DOMAIN camps
  /\ creds \in Seq(Credential \cup {None})
  /\ flows \in [1..MaxFlows -> DOMAIN creds \cup {None}] /\ begun \in 0..MaxFlows
  /\ waits \subseteq Wait
  /\ \A w \in waits : w.cred \in DOMAIN creds /\ (w.for = "send" => w.mail \in DOMAIN mails)
  /\ keys \in {"old", "both", "new"} /\ script \in {"idle", "read", "ended"}
  /\ exchanges \in [1..MaxFlows -> Nat] /\ ops \in 0..MaxOps

(* However leads are added to a production campaign, deleted and added     *)
(* again, while its mails are queued, sent and fail, nobody has two mails  *)
(* in it.  (A test campaign mails an address as often as it is listed.)    *)
OncePerRecipient ==
  \A k, l \in DOMAIN mails :
    (/\ k # l /\ mails[k].camp = mails[l].camp /\ camps[mails[k].camp].kind = "production"
     /\ mails[k].status \in Live /\ mails[l].status \in Live)
      => mails[k].to # mails[l].to

(* ... because a mail that is being sent is nobody else's, and stays one's  *)
(* mail until the server has answered.                                     *)
InHand ==
  /\ \A w \in waits : w.for = "send" => mails[w.mail].status = "SENDING"
  /\ \A w, v \in waits : w.for = "send" /\ v.for = "send" /\ w.mail = v.mail => w = v

(* A browser that repeats the callback, before or after the provider       *)
(* answered, does not make the cloud exchange one sign-in's code twice.    *)
FlowUsedOnce == \A f \in DOMAIN exchanges : exchanges[f] <= 1

(* ... because a sign-in that is not begun, or was consumed, has no row.    *)
Pending ==
  \A f \in 1..MaxFlows :
    /\ flows[f] # None => exchanges[f] = 0
    /\ f > begun => flows[f] = None /\ exchanges[f] = 0

(* A campaign restricted to some credentials never comes to use them all   *)
(* because one of them went away: only an explicit choice lifts the        *)
(* restriction (an empty pool means no restriction).                       *)
PoolNeverWidens ==
  [][\A c \in DOMAIN camps :
       (camps[c].pool # {} /\ camps'[c].pool = {}) => asked'[c] = {}]_vars

(* "PUT .../emails: Email not found or not in DRAFT status": the row of a  *)
(* sent mail keeps the words that were sent.                               *)
SentIsRecord == \A k \in DOMAIN mails : mails[k].status = "SENT" => mails[k].text = mails[k].sent

(* After the page said "Connected", the tokens are those of that consent,  *)
(* whatever was under way with the ones before.                            *)
ConnectSticks == \A i \in Existing : creds[i].grant = creds[i].connected

(* A production campaign created with a pool is restricted to it. *)
PoolAsAsked == \A c \in DOMAIN camps : asked[c] # {} => camps[c].pool # {}

(* "Re-encrypts every stored credential under the new primary key": after  *)
(* the script no secret needs the old key.                                 *)
KeysRotated == script = "ended" => \A i \in Existing : creds[i].pw # "old" /\ creds[i].tk # "old"
=============================================================================
