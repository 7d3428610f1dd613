------------------------------ MODULE Dispatch ------------------------------
(***************************************************************************)
(* The e-mail dispatcher of the cloud tier: campaigns, their e-mail rows,  *)
(* the SMTP credentials, the dispatch coroutines run_campaign_dispatch     *)
(* (cloud/api/dispatcher.py), the HTTP handlers that race with them        *)
(* (cloud/api/campaigns.py), the stuck-SENDING recovery sweep and process  *)
(* restarts.                                                               *)
(*                                                                         *)
(* A step of a dispatch coroutine is one database transaction or one await *)
(* of the code.  Between two awaits a coroutine keeps its event loop, so   *)
(* in "embedded" mode (the API process runs the coroutines) nothing else   *)
(* of that process runs; in "external" mode the handlers live in another   *)
(* process and interleave with every transaction.  Where a function reads  *)
(* in one statement and writes in a later one without a guard, the two are *)
(* steps of their own (SelectionRead/Write, SweepRead/Write).              *)
(***************************************************************************)
EXTENDS Integers, FiniteSets

CONSTANTS
  Campaigns,                \* campaign ids
  Emails,                   \* campaign_emails ids: numbers, claimed in order
  Credentials,              \* smtp_credentials ids
  Tasks,                    \* slots for dispatch coroutines
  None,                     \* "no campaign / e-mail / credential"
  CampaignOf,               \* the campaign an e-mail row belongs to
  DomainOf,                 \* the recipient domain of an e-mail row
  InitialDrafts,            \* rows rendered when the campaign was created
  Owned,                    \* campaigns whose owner_id is not NULL
  DailyLimit,               \* daily_send_limit of every credential, 0 = none
  Mode,                     \* dispatch.mode
  MaxOps,                   \* bound: user operations in a behaviour
  MaxRestarts,              \* bound: restarts of the dispatching process
  MaxAgain                  \* bound: overdue live claims and failures after
                            \* acceptance, per row

ASSUME DispatchAssumption ==
  /\ Emails \subseteq Nat
  /\ CampaignOf \in [Emails -> Campaigns]
  /\ InitialDrafts \subseteq Emails
  /\ Owned \subseteq Campaigns
  /\ DailyLimit \in Nat
  /\ Mode \in {"embedded", "external"}
  /\ MaxOps \in Nat
  /\ MaxRestarts \in Nat
  /\ MaxAgain \in Nat
  /\ None \notin Campaigns \cup Emails \cup Credentials \cup Tasks

VARIABLES
  campaign,   \* campaigns.status
  assigned,   \* campaign_credentials: the explicit pool, {} = any credential
  estat,      \* campaign_emails.status; "NONE" = no row yet
  selected,   \* rows with campaign_emails.is_selected
  overdue,    \* SENDING rows whose sending_since is past the threshold
  sentVia,    \* credential of a row whose sent_at is today, else None
  active,     \* smtp_credentials.is_active
  cooldown,   \* smtp_credentials.cooldown_until: NULL, past or future
  blacklist,  \* blacklisted recipient domains
  pc,         \* where each dispatch coroutine is
  campOf,     \* the campaign a coroutine dispatches
  mailOf,     \* the row a coroutine has claimed
  credOf,     \* the credential it picked
  polled,     \* _poll_loop's map `active`: the task it started per campaign
  stopping,   \* dispatch_service received SIGTERM (external mode)
  edit,       \* the selection edit the API process has read but not written
  sweep,      \* the stuck rows its sweep has read but not written
  ops,        \* user operations so far
  restarts,   \* process restarts so far
  delivered,  \* history: how often the SMTP server accepted a row's message
  late,       \* history: coroutines that delivered since the kill switch
  taken,      \* history: how often a row was taken from a live coroutine, or
              \* its recorded outcome taken back
  resent,     \* history: how often a row was requeued after acceptance
  crossed     \* history: rows whose selection edit lost a race

dbVars    == <<campaign, assigned, estat, selected, overdue, sentVia, active,
               cooldown, blacklist>>
taskVars  == <<pc, campOf, mailOf, credOf>>
procVars  == <<polled, stopping>>
apiVars   == <<edit, sweep>>
againVars == <<taken, resent, crossed>>
histVars  == <<restarts, delivered, late, againVars>>
vars      == <<dbVars, taskVars, procVars, apiVars, ops, histVars>>

CampaignStatus == {"PAUSED", "RUNNING", "CANCELLED", "COMPLETED"}
EmailStatus    == {"NONE", "DRAFT", "QUEUED", "SENDING", "SENT", "FAILED",
                   "DELETED"}
Killed         == {"PAUSED", "CANCELLED"}
Editable       == {"DRAFT", "QUEUED"}
Edits          == [row : Emails, sel : BOOLEAN, seen : Editable]

(***************************************************************************)
(* Program counters.  A coroutine is suspended at an await (AwaitPc) or is *)
(* in the middle of a stretch that does not yield.                         *)
(***************************************************************************)
AwaitPc == {"idle", "start", "slot", "smtp", "quit"}
BusyPc  == {"check", "claim", "pick"}
HoldPc  == {"pick", "slot", "smtp", "quit"}   \* holds a claimed row

TypeOK ==
  /\ campaign \in [Campaigns -> CampaignStatus]
  /\ assigned \in [Campaigns -> SUBSET Credentials]
  /\ estat \in [Emails -> EmailStatus]
  /\ selected \subseteq Emails
  /\ overdue \in [Emails -> BOOLEAN]
  /\ sentVia \in [Emails -> Credentials \cup {None}]
  /\ active \in [Credentials -> BOOLEAN]
  /\ cooldown \in [Credentials -> {"null", "past", "future"}]
  /\ blacklist \subseteq {DomainOf[e] : e \in Emails}
  /\ pc \in [Tasks -> AwaitPc \cup BusyPc]
  /\ campOf \in [Tasks -> Campaigns \cup {None}]
  /\ mailOf \in [Tasks -> Emails \cup {None}]
  /\ credOf \in [Tasks -> Credentials \cup {None}]
  /\ polled \in [Campaigns -> Tasks \cup {None}]
  /\ stopping \in BOOLEAN
  /\ edit \subseteq Edits
  /\ sweep \subseteq Emails
  /\ ops \in 0..MaxOps
  /\ restarts \in 0..MaxRestarts
  /\ delivered \in [Emails -> Nat]
  /\ late \subseteq Tasks
  /\ taken \in [Emails -> Nat]
  /\ resent \in [Emails -> Nat]
  /\ crossed \subseteq Emails

-----------------------------------------------------------------------------
(* Queries *)

EmailsOf(c) == {e \in Emails : CampaignOf[e] = c}
DraftsOf(c) == {e \in EmailsOf(c) : estat[e] = "DRAFT"}

QueuedOf_OrSending(c) == {e \in EmailsOf(c) : estat[e] \in {"QUEUED", "SENDING"}}
QueuedOf(c) == {e \in EmailsOf(c) : estat[e] = "QUEUED"}

SelectedDrafts_All(c) == DraftsOf(c)
SelectedDrafts_AnyStatus(c) == {e \in EmailsOf(c) : estat[e] \notin {"NONE", "DELETED"}} \cap selected
SelectedDrafts(c) == DraftsOf(c) \cap selected

SentToday(k) == {e \in Emails : estat[e] = "SENT" /\ sentVia[e] = k}

(* or_(cooldown_until is None, cooldown_until < now): the Python identity  *)
(* test is the constant FALSE, so a NULL cooldown never qualifies.         *)
Usable(k) == active[k] /\ cooldown[k] = "past"

UnderLimit_Inclusive(k) == DailyLimit = 0 \/ Cardinality(SentToday(k)) <= DailyLimit
UnderLimit(k) == DailyLimit = 0 \/ Cardinality(SentToday(k)) < DailyLimit

Pool(c) ==
  {k \in (IF assigned[c] = {} THEN Credentials ELSE assigned[c]) :
      Usable(k) /\ UnderLimit(k)}

(* get_campaign called without owner_id and without view_all finds only    *)
(* the campaigns whose owner_id is NULL.                                   *)
Visible_Filtered(c) == FALSE
Visible(c) == c \notin Owned

(* May the loop go on after re-reading the campaign?  COMPLETED counts. *)
MayContinue_Unchecked(c) == Visible(c)
MayContinue(c) == Visible(c) /\ campaign[c] \notin Killed

TasksOf(c) == {t \in Tasks : campOf[t] = c}
Holds(t, e) == pc[t] \in HoldPc /\ mailOf[t] = e

(* Whose turn it is: see the head of the module. *)
ApiIdle     == edit = {} /\ sweep = {}
LoopIdle    == \A t \in Tasks : pc[t] \in AwaitPc
TaskTurn(t) == /\ \A u \in Tasks \ {t} : pc[u] \in AwaitPc
               /\ Mode = "external" \/ ApiIdle
ApiTurn     == ApiIdle /\ (Mode = "external" \/ LoopIdle)

(* Rows whose overwriting takes a claim from a live coroutine or takes     *)
(* back an outcome.                                                        *)
Reopened == {e \in Emails : \/ estat[e] \in {"SENT", "FAILED"}
                            \/ estat[e] = "SENDING" /\ \E t \in Tasks : Holds(t, e)}

-----------------------------------------------------------------------------
Init ==
  /\ campaign = [c \in Campaigns |-> "PAUSED"]
  /\ assigned = [c \in Campaigns |-> {}]
  /\ estat = [e \in Emails |-> IF e \in InitialDrafts THEN "DRAFT" ELSE "NONE"]
  /\ selected = InitialDrafts
  /\ overdue = [e \in Emails |-> FALSE]
  /\ sentVia = [e \in Emails |-> None]
  /\ active = [k \in Credentials |-> TRUE]
  /\ cooldown \in [Credentials -> {"null", "past"}]
  /\ blacklist = {}
  /\ pc = [t \in Tasks |-> "idle"]
  /\ campOf = [t \in Tasks |-> None]
  /\ mailOf = [t \in Tasks |-> None]
  /\ credOf = [t \in Tasks |-> None]
  /\ polled = [c \in Campaigns |-> None]
  /\ stopping = FALSE
  /\ edit = {} /\ sweep = {}
  /\ ops = 0
  /\ restarts = 0
  /\ delivered = [e \in Emails |-> 0]
  /\ late = {}
  /\ taken = [e \in Emails |-> 0]
  /\ resent = [e \in Emails |-> 0]
  /\ crossed = {}

-----------------------------------------------------------------------------
(* Moves shared by several actions *)

(* Set a campaign's status; leaving PAUSED/CANCELLED ends a kill-switch    *)
(* episode, so the history of late deliveries starts afresh.               *)
SetCampaign(c, s) ==
  campaign' = [campaign EXCEPT ![c] = s]

LateAfter(c, s) == IF s \in Killed THEN late ELSE late \ TasksOf(c)

(* The coroutine t returns. *)
Return(t) ==
  /\ pc' = [pc EXCEPT ![t] = "idle"]
  /\ campOf' = [campOf EXCEPT ![t] = None]
  /\ mailOf' = [mailOf EXCEPT ![t] = None]
  /\ credOf' = [credOf EXCEPT ![t] = None]

(* The coroutine t is done with its row and loops. *)
Loop(t) ==
  /\ pc' = [pc EXCEPT ![t] = "check"]
  /\ mailOf' = [mailOf EXCEPT ![t] = None]
  /\ credOf' = [credOf EXCEPT ![t] = None]
  /\ UNCHANGED campOf

Spawn(t, c) ==
  /\ pc[t] = "idle"
  /\ pc' = [pc EXCEPT ![t] = "start"]
  /\ campOf' = [campOf EXCEPT ![t] = c]
  /\ UNCHANGED <<mailOf, credOf>>

(* UPDATE ... WHERE id = e: unconditional, but a deleted row is not there. *)
SetEmail(e, s) ==
  /\ estat' = [estat EXCEPT ![e] = IF @ = "DELETED" THEN @ ELSE s]
  /\ overdue' = [overdue EXCEPT ![e] = FALSE]

-----------------------------------------------------------------------------
(* The dispatch coroutine: run_campaign_dispatch *)

(* Queue the selected drafts; complete at once when nothing is queued,     *)
(* pause when no credential is usable, else enter the loop.                *)
Start(t) ==
  /\ pc[t] = "start" /\ TaskTurn(t)
  /\ LET c == campOf[t]
         queued == SelectedDrafts(c)
     IN /\ estat' = [e \in Emails |-> IF e \in queued THEN "QUEUED" ELSE estat[e]]
        /\ \/ /\ queued = {} /\ QueuedOf(c) = {}
              /\ SetCampaign(c, "COMPLETED")
              /\ late' = LateAfter(c, "COMPLETED") \ {t}
              /\ Return(t)
           \/ /\ queued # {} \/ QueuedOf(c) # {}
              /\ Pool(c) = {}
              /\ SetCampaign(c, "PAUSED")
              /\ late' = late \ {t}
              /\ Return(t)
           \/ /\ queued # {} \/ QueuedOf(c) # {}
              /\ Pool(c) # {}
              /\ Loop(t)
              /\ UNCHANGED <<campaign, late>>
  /\ UNCHANGED <<assigned, selected, overdue, sentVia, active, cooldown,
                 blacklist, procVars, apiVars, ops, restarts,
                 delivered, againVars>>

(* Re-read the campaign: return when it is not found or PAUSED, fail the   *)
(* rest of the queue when it is CANCELLED.                                 *)
Check(t) ==
  /\ pc[t] = "check" /\ TaskTurn(t)
  /\ LET c == campOf[t]
     IN \/ /\ ~Visible(c) \/ campaign[c] = "PAUSED"
           /\ Return(t)
           /\ late' = late \ {t}
           /\ UNCHANGED estat
        \/ /\ Visible(c) /\ campaign[c] = "CANCELLED"
           /\ estat' = [e \in Emails |->
                          IF e \in QueuedOf(c) THEN "FAILED" ELSE estat[e]]
           /\ Return(t)
           /\ late' = late \ {t}
        \/ /\ MayContinue(c)
           /\ pc' = [pc EXCEPT ![t] = "claim"]
           /\ UNCHANGED <<campOf, mailOf, credOf, estat, late>>
  /\ UNCHANGED <<campaign, assigned, selected, overdue, sentVia, active,
                 cooldown, blacklist, procVars, apiVars, ops, restarts,
                 delivered, againVars>>

(* claim_next_queued_email: the oldest QUEUED row becomes SENDING. *)
Claim(t) ==
  /\ pc[t] = "claim" /\ TaskTurn(t)
  /\ \E e \in QueuedOf(campOf[t]) :
       /\ \A d \in QueuedOf(campOf[t]) : e <= d
       /\ estat' = [estat EXCEPT ![e] = "SENDING"]
       /\ overdue' = [overdue EXCEPT ![e] = FALSE]
       /\ mailOf' = [mailOf EXCEPT ![t] = e]
  /\ pc' = [pc EXCEPT ![t] = "pick"]
  /\ UNCHANGED <<campaign, assigned, selected, sentVia, active, cooldown,
                 blacklist, campOf, credOf, procVars, apiVars, ops, histVars>>

(* Nothing left to claim: PAUSED if drafts remain, else COMPLETED. *)
Drained(t) ==
  /\ pc[t] = "claim" /\ TaskTurn(t)
  /\ QueuedOf(campOf[t]) = {}
  /\ LET s == IF DraftsOf(campOf[t]) # {} THEN "PAUSED" ELSE "COMPLETED"
     IN /\ SetCampaign(campOf[t], s)
        /\ late' = LateAfter(campOf[t], s) \ {t}
  /\ Return(t)
  /\ UNCHANGED <<assigned, estat, selected, overdue, sentVia, active, cooldown,
                 blacklist, procVars, apiVars, ops, restarts,
                 delivered, againVars>>

(* Pick a credential of the freshly read pool ... *)
Pick(t) ==
  /\ pc[t] = "pick" /\ TaskTurn(t)
  /\ \E k \in Pool(campOf[t]) : credOf' = [credOf EXCEPT ![t] = k]
  /\ pc' = [pc EXCEPT ![t] = "slot"]
  /\ UNCHANGED <<dbVars, campOf, mailOf, procVars, apiVars, ops, histVars>>

(* ... or, when it is empty, pause the campaign and return: the row just   *)
(* claimed stays SENDING.                                                  *)
NoCredential(t) ==
  /\ pc[t] = "pick" /\ TaskTurn(t)
  /\ Pool(campOf[t]) = {}
  /\ SetCampaign(campOf[t], "PAUSED")
  /\ late' = late \ {t}
  /\ Return(t)
  /\ UNCHANGED <<assigned, estat, selected, overdue, sentVia, active, cooldown,
                 blacklist, procVars, apiVars, ops, restarts,
                 delivered, againVars>>

(* _wait_for_credential_slot returned: the SMTP dialogue begins. *)
SlotGranted(t) ==
  /\ pc[t] = "slot" /\ TaskTurn(t)
  /\ pc' = [pc EXCEPT ![t] = "smtp"]
  /\ UNCHANGED <<dbVars, campOf, mailOf, credOf, procVars, apiVars, ops, histVars>>

(* The server accepted the message; quit() is still to be awaited. *)
Accept(t) ==
  /\ pc[t] = "smtp" /\ TaskTurn(t)
  /\ pc' = [pc EXCEPT ![t] = "quit"]
  /\ delivered' = [delivered EXCEPT ![mailOf[t]] = @ + 1]
  /\ late' = IF campaign[campOf[t]] \in Killed THEN late \cup {t} ELSE late
  /\ UNCHANGED <<dbVars, campOf, mailOf, credOf, procVars, apiVars, ops, restarts,
                 againVars>>

(* _send_one_email returned: mark_email_sent. *)
MarkSent(t) ==
  /\ pc[t] = "quit" /\ TaskTurn(t)
  /\ SetEmail(mailOf[t], "SENT")
  /\ sentVia' = [sentVia EXCEPT ![mailOf[t]] = credOf[t]]
  /\ Loop(t)
  /\ UNCHANGED <<campaign, assigned, selected, active, cooldown, blacklist,
                 procVars, apiVars, ops, histVars>>

(* Where a network error or a protocol error may surface: quit() is inside *)
(* the same try as the sending.                                            *)
Failing(t) ==
  \/ pc[t] = "smtp"
  \/ pc[t] = "quit" /\ taken[mailOf[t]] + resent[mailOf[t]] < MaxAgain

(* Authentication failed: the credential is disabled, the row requeued. *)
AuthFails(t) ==
  /\ pc[t] = "smtp" /\ TaskTurn(t)
  /\ active' = [active EXCEPT ![credOf[t]] = FALSE]
  /\ SetEmail(mailOf[t], "QUEUED")
  /\ Loop(t)
  /\ UNCHANGED <<campaign, assigned, selected, sentVia, cooldown, blacklist,
                 procVars, apiVars, ops, histVars>>

(* 550/553: the recipient is blacklisted and the row FAILED. *)
HardBounce(t) ==
  /\ pc[t] = "smtp" /\ TaskTurn(t)
  /\ blacklist' = blacklist \cup {DomainOf[mailOf[t]]}
  /\ SetEmail(mailOf[t], "FAILED")
  /\ Loop(t)
  /\ UNCHANGED <<campaign, assigned, selected, sentVia, active, cooldown,
                 procVars, apiVars, ops, histVars>>

(* Rate limit, connect error, OSError or timeout: the credential cools     *)
(* down, the row is requeued -- also when the message was accepted.        *)
TemporaryFailure(t) ==
  /\ Failing(t) /\ TaskTurn(t)
  /\ cooldown' = [cooldown EXCEPT ![credOf[t]] = "future"]
  /\ SetEmail(mailOf[t], "QUEUED")
  /\ resent' = [resent EXCEPT ![mailOf[t]] = IF pc[t] = "quit" THEN @ + 1 ELSE @]
  /\ Loop(t)
  /\ UNCHANGED <<campaign, assigned, selected, sentVia, active, blacklist,
                 procVars, apiVars, ops, restarts, delivered, late, taken, crossed>>

(* Any other exception: the row is FAILED. *)
PermanentFailure(t) ==
  /\ Failing(t) /\ TaskTurn(t)
  /\ SetEmail(mailOf[t], "FAILED")
  /\ Loop(t)
  /\ UNCHANGED <<campaign, assigned, selected, sentVia, active, cooldown,
                 blacklist, procVars, apiVars, ops, histVars>>

TaskStep(t) ==
  \/ Start(t) \/ Check(t) \/ Claim(t) \/ Drained(t) \/ Pick(t)
  \/ NoCredential(t) \/ SlotGranted(t) \/ Accept(t) \/ MarkSent(t)
  \/ AuthFails(t) \/ HardBounce(t) \/ TemporaryFailure(t)
  \/ PermanentFailure(t)

-----------------------------------------------------------------------------
(* HTTP handlers: one user operation each *)

UserOp == ops < MaxOps /\ ops' = ops + 1 /\ ApiTurn

(* POST /campaigns/{id}/dispatch.  In embedded mode it spawns a coroutine; *)
(* in external mode the poll loop of the dispatcher process will.          *)
DispatchCampaign(c) ==
  /\ UserOp
  /\ SelectedDrafts(c) # {} \/ QueuedOf(c) # {}
  /\ campaign[c] # "RUNNING"
  /\ Pool(c) # {}
  /\ SetCampaign(c, "RUNNING")
  /\ late' = LateAfter(c, "RUNNING")
  /\ \/ Mode = "embedded" /\ \E t \in Tasks : Spawn(t, c)
     \/ Mode = "external" /\ UNCHANGED taskVars
  /\ UNCHANGED <<assigned, estat, selected, overdue, sentVia, active, cooldown,
                 blacklist, procVars, apiVars, restarts,
                 delivered, againVars>>

(* PATCH /campaigns/{id}: any status may be written over any other. *)
UpdateCampaignStatus(c, s) ==
  /\ UserOp
  /\ SetCampaign(c, s)
  /\ late' = LateAfter(c, s)
  /\ UNCHANGED <<assigned, estat, selected, overdue, sentVia, active, cooldown,
                 blacklist, taskVars, procVars, apiVars, restarts,
                 delivered, againVars>>

(* PUT /campaigns/{id}/credentials *)
UpdateCampaignCredentials(c, pool) ==
  /\ UserOp
  /\ campaign[c] \notin {"CANCELLED", "COMPLETED"}
  /\ assigned' = [assigned EXCEPT ![c] = pool]
  /\ UNCHANGED <<campaign, estat, selected, overdue, sentVia, active, cooldown,
                 blacklist, taskVars, procVars, apiVars, histVars>>

(* PATCH .../emails/{eid}/selection reads the row and refuses it unless it *)
(* is DRAFT or QUEUED.  The status checked is that of the campaign in the  *)
(* path, which need not be the row's own.                                  *)
SelectionRead(c, e, sel) ==
  /\ UserOp
  /\ campaign[c] # "CANCELLED"
  /\ estat[e] \in Editable
  /\ edit' = {[row |-> e, sel |-> sel, seen |-> estat[e]]}
  /\ UNCHANGED <<dbVars, taskVars, procVars, sweep, histVars>>

(* UPDATE ... WHERE id: deselecting a row that was seen QUEUED also writes *)
(* DRAFT, whatever the row has become since.                               *)
SelectionWrite ==
  \E w \in edit :
    LET drafts == w.seen = "QUEUED" /\ ~w.sel
    IN /\ edit' = {}
       /\ selected' = IF w.sel THEN selected \cup {w.row} ELSE selected \ {w.row}
       /\ IF drafts THEN SetEmail(w.row, "DRAFT") ELSE UNCHANGED <<estat, overdue>>
       /\ taken' = [taken EXCEPT ![w.row] =
                      IF drafts /\ w.row \in Reopened THEN @ + 1 ELSE @]
       /\ crossed' = IF estat[w.row] = w.seen THEN crossed ELSE crossed \cup {w.row}
       /\ UNCHANGED <<campaign, assigned, sentVia, active, cooldown, blacklist,
                      taskVars, procVars, sweep, ops, restarts, delivered, late,
                      resent>>

(* PATCH .../emails/selection-all *)
BulkToggleEmailSelection(c, sel) ==
  LET touched == IF sel THEN DraftsOf(c) ELSE DraftsOf(c) \cup QueuedOf(c)
  IN /\ UserOp
     /\ campaign[c] # "CANCELLED"
     /\ selected' = IF sel THEN selected \cup touched ELSE selected \ touched
     /\ estat' = [e \in Emails |-> IF e \in touched THEN "DRAFT" ELSE estat[e]]
     /\ UNCHANGED <<campaign, assigned, overdue, sentVia, active, cooldown,
                    blacklist, taskVars, procVars, apiVars, histVars>>

(* DELETE .../emails/{eid}: DRAFT rows only. *)
DeleteCampaignEmail(c, e) ==
  /\ UserOp
  /\ campaign[c] # "CANCELLED"
  /\ estat[e] = "DRAFT"
  /\ estat' = [estat EXCEPT ![e] = "DELETED"]
  /\ UNCHANGED <<campaign, assigned, selected, overdue, sentVia, active,
                 cooldown, blacklist, taskVars, procVars, apiVars, histVars>>

(* POST .../emails: stage drafts for the leads that are not blacklisted;   *)
(* a draft with missing fields starts deselected.                          *)
AddEmailsToCampaign(c, new, complete) ==
  LET staged == {e \in new : DomainOf[e] \notin blacklist}
  IN /\ UserOp
     /\ campaign[c] # "CANCELLED"
     /\ \A e \in new : estat[e] = "NONE"
     /\ estat' = [e \in Emails |-> IF e \in staged THEN "DRAFT" ELSE estat[e]]
     /\ selected' = selected \cup (staged \cap complete)
     /\ UNCHANGED <<campaign, assigned, overdue, sentVia, active, cooldown,
                    blacklist, taskVars, procVars, apiVars, histVars>>

(* POST /credentials/{id}/test activates or disables the credential, as    *)
(* does editing it.                                                        *)
TestCredential(k, ok) ==
  /\ UserOp
  /\ active' = [active EXCEPT ![k] = ok]
  /\ UNCHANGED <<campaign, assigned, estat, selected, overdue, sentVia,
                 cooldown, blacklist, taskVars, procVars, apiVars, histVars>>

UserStep ==
  \/ \E c \in Campaigns :
       \/ DispatchCampaign(c)
       \/ \E s \in CampaignStatus : UpdateCampaignStatus(c, s)
       \/ \E pool \in SUBSET Credentials : UpdateCampaignCredentials(c, pool)
       \/ \E sel \in BOOLEAN : BulkToggleEmailSelection(c, sel)
       \/ \E new \in (SUBSET EmailsOf(c)) \ {{}} : \E complete \in SUBSET new :
            AddEmailsToCampaign(c, new, complete)
       \/ \E e \in Emails, sel \in BOOLEAN : SelectionRead(c, e, sel)
       \/ \E e \in Emails : DeleteCampaignEmail(c, e)
  \/ \E k \in Credentials, ok \in BOOLEAN : TestCredential(k, ok)

-----------------------------------------------------------------------------
(* The processes and the clock *)

(* An iteration of the standalone dispatcher's _poll_loop, which awaits    *)
(* nothing: a task for every RUNNING campaign whose entry in the map is    *)
(* missing or done, then the entries that are done are dropped.            *)
Alive(c) == polled[c] # None /\ campOf[polled[c]] = c

Kept_Inverted(c) == IF Alive(c) THEN None ELSE polled[c]
Kept(c) == IF Alive(c) THEN polled[c] ELSE None

Poll ==
  /\ Mode = "external" /\ ~stopping
  /\ LoopIdle
  /\ LET fresh == {c \in Campaigns : campaign[c] = "RUNNING" /\ ~Alive(c)}
     IN \E slot \in [fresh -> {t \in Tasks : pc[t] = "idle"}] :
          /\ \A c, d \in fresh : slot[c] = slot[d] => c = d
          /\ pc' = [t \in Tasks |-> IF \E c \in fresh : slot[c] = t THEN "start"
                                    ELSE pc[t]]
          /\ campOf' = [t \in Tasks |-> IF \E c \in fresh : slot[c] = t
                                        THEN CHOOSE c \in fresh : slot[c] = t
                                        ELSE campOf[t]]
          /\ polled' = [c \in Campaigns |-> IF c \in fresh THEN slot[c] ELSE Kept(c)]
  /\ UNCHANGED <<dbVars, mailOf, credOf, stopping, apiVars, ops, histVars>>

(* SIGTERM: the poll loop ends and waits for the coroutines it spawned. *)
Sigterm ==
  /\ Mode = "external" /\ ~stopping
  /\ restarts < MaxRestarts
  /\ stopping' = TRUE
  /\ UNCHANGED <<dbVars, taskVars, polled, apiVars, ops, histVars>>

(* The rows recover_stuck_sending selects, and its UPDATE ... WHERE id IN. *)
Stuck == {e \in Emails : estat[e] = "SENDING" /\ overdue[e]}

Requeue_ToDraft(rows) ==
  /\ estat' = [e \in Emails |-> IF e \in rows THEN "DRAFT" ELSE estat[e]]
  /\ overdue' = [e \in Emails |-> e \notin rows /\ overdue[e]]
Requeue(rows) ==
  /\ estat' = [e \in Emails |-> IF e \in rows THEN "QUEUED" ELSE estat[e]]
  /\ overdue' = [e \in Emails |-> e \notin rows /\ overdue[e]]

TakenFrom(rows) ==
  taken' = [e \in Emails |-> IF e \in rows \cap Reopened THEN taken[e] + 1 ELSE taken[e]]

(* recover_stuck_sending on the loop that runs the coroutines: nothing     *)
(* comes between its SELECT and its UPDATE.                                *)
RecoverStuckSending_StartupOnly == FALSE /\ UNCHANGED vars

RecoverStuckSending ==
  /\ LoopIdle
  /\ Mode = "external" \/ ApiIdle
  /\ Stuck # {}
  /\ Requeue(Stuck)
  /\ TakenFrom(Stuck)
  /\ UNCHANGED <<campaign, assigned, selected, sentVia, active, cooldown,
                 blacklist, taskVars, procVars, apiVars, ops, restarts, delivered,
                 late, resent, crossed>>

(* In external mode the API process sweeps as well, and the dispatcher may *)
(* move between its SELECT and its UPDATE.                                 *)
SweepRead ==
  /\ Mode = "external" /\ ApiIdle
  /\ Stuck # {}
  /\ sweep' = Stuck
  /\ UNCHANGED <<dbVars, taskVars, procVars, edit, ops, histVars>>

SweepWrite ==
  /\ sweep # {}
  /\ sweep' = {}
  /\ Requeue(sweep)
  /\ TakenFrom(sweep)
  /\ UNCHANGED <<campaign, assigned, selected, sentVia, active, cooldown,
                 blacklist, taskVars, procVars, edit, ops, restarts, delivered,
                 late, resent, crossed>>

(* The process that runs the coroutines dies anywhere and comes back; its  *)
(* coroutines are gone and it sweeps at startup.  In embedded mode that is *)
(* the API process.                                                        *)
Restart ==
  /\ restarts < MaxRestarts
  /\ restarts' = restarts + 1
  /\ stopping' = FALSE
  /\ polled' = [c \in Campaigns |-> None]
  /\ edit' = IF Mode = "embedded" THEN {} ELSE edit
  /\ pc' = [t \in Tasks |-> "idle"]
  /\ campOf' = [t \in Tasks |-> None]
  /\ mailOf' = [t \in Tasks |-> None]
  /\ credOf' = [t \in Tasks |-> None]
  /\ late' = {}
  /\ Requeue(Stuck)
  /\ UNCHANGED <<campaign, assigned, selected, sentVia, active, cooldown,
                 blacklist, sweep, ops, delivered, againVars>>

(* 600 s pass over a SENDING row, whether or not a live coroutine still    *)
(* holds it: the claim precedes the wait for the credential's slot.        *)
ThresholdPasses(e) ==
  /\ estat[e] = "SENDING" /\ ~overdue[e]
  /\ (\E t \in Tasks : Holds(t, e)) => taken[e] + resent[e] < MaxAgain
  /\ overdue' = [overdue EXCEPT ![e] = TRUE]
  /\ UNCHANGED <<campaign, assigned, estat, selected, sentVia, active, cooldown,
                 blacklist, taskVars, procVars, apiVars, ops, histVars>>

(* A cooldown (15 min or 1 h) never runs out within one event-loop stretch. *)
CooldownExpires(k) ==
  /\ LoopIdle
  /\ cooldown[k] = "future"
  /\ cooldown' = [cooldown EXCEPT ![k] = "past"]
  /\ UNCHANGED <<campaign, assigned, estat, selected, overdue, sentVia, active,
                 blacklist, taskVars, procVars, apiVars, ops, histVars>>

(* 00:00 UTC: no row was sent "today" any more. *)
Midnight ==
  /\ DailyLimit > 0
  /\ \E e \in Emails : sentVia[e] # None
  /\ sentVia' = [e \in Emails |-> None]
  /\ UNCHANGED <<campaign, assigned, estat, selected, overdue, active, cooldown,
                 blacklist, taskVars, procVars, apiVars, ops, histVars>>

Environment ==
  \/ RecoverStuckSending \/ SweepRead \/ SweepWrite \/ Restart \/ Sigterm
  \/ Midnight \/ Poll \/ SelectionWrite
  \/ \E e \in Emails : ThresholdPasses(e)
  \/ \E k \in Credentials : CooldownExpires(k)

Next == UserStep \/ Environment \/ \E t \in Tasks : TaskStep(t)

Spec == Init /\ [][Next]_vars

(***************************************************************************)
(* Fairness.  The event loop runs every coroutine that can run, the slot   *)
(* of a credential is always released, an SMTP dialogue ends (30 s         *)
(* timeouts), time passes and the sweep and the poll loop run on their     *)
(* cadence.  Strong fairness where a coroutine in mid-stretch may disable  *)
(* the action for a moment.  A dispatcher told to stop is started again;   *)
(* nothing else is assumed of restarts, and nothing of users.              *)
(***************************************************************************)
Fairness ==
  /\ \A t \in Tasks : SF_vars(TaskStep(t))
  /\ SF_vars(RecoverStuckSending)
  /\ WF_vars(SweepWrite) /\ WF_vars(SelectionWrite)
  /\ WF_vars(stopping /\ Restart)
  /\ SF_vars(Poll)
  /\ \A e \in Emails : WF_vars(ThresholdPasses(e))
  /\ \A k \in Credentials : SF_vars(CooldownExpires(k))

FairSpec == Spec /\ Fairness

-----------------------------------------------------------------------------
(* Properties *)

(* A claimed row is held by one coroutine at a time and stays SENDING      *)
(* while it is held, unless the row was ever taken from a live coroutine:  *)
(* by a sweep after a wait longer than the threshold, or by a selection    *)
(* edit or a sweep that had read the row before its claim                  *)
(* (claim_next_queued_email against recover_stuck_sending and              *)
(* set_email_selection).                                                   *)
ClaimExclusive ==
  \A t \in Tasks : pc[t] \in HoldPc /\ taken[mailOf[t]] = 0 =>
    /\ estat[mailOf[t]] = "SENDING"
    /\ \A u \in Tasks \ {t} : ~Holds(u, mailOf[t])

(* Every delivery of a message beyond the first has a cause of its own: a  *)
(* restart of the dispatching process, a row taken from a live coroutine   *)
(* (or an outcome taken back), or a failure of quit() after the server     *)
(* accepted.  Two coroutines of one campaign, requeues, kill switches and  *)
(* dispatches in any order add none (run_campaign_dispatch's try around    *)
(* send_message and quit, recover_stuck_sending's docstring).              *)
DuplicatesHaveACause ==
  \A e \in Emails : delivered[e] <= 1 + restarts + taken[e] + resent[e]

(* Rows whose state a late writer may have overwritten. *)
Contested == {e \in Emails : taken[e] > 0} \cup crossed

(* A row that was deselected is not queued nor in flight, whatever the     *)
(* order of selection edits, dispatches, requeues and recovery sweeps,     *)
(* unless the edit itself lost a race to the dispatcher or the row was     *)
(* taken from a live coroutine (set_email_selection: "excluded from the    *)
(* next dispatch").                                                        *)
QueuedIsSelected ==
  \A e \in Emails \ Contested :
    estat[e] \in {"QUEUED", "SENDING"} => e \in selected

(* Coroutines that read the same count may overshoot daily_send_limit, but *)
(* by no more than one message each (resolve_credential_pool is read       *)
(* before the wait for the slot).                                          *)
DailyLimitOvershoot ==
  DailyLimit > 0 =>
    \A k \in Credentials :
      Cardinality(SentToday(k)) <= DailyLimit + Cardinality(Tasks) - 1

(* The dispatcher process never runs two coroutines for one campaign: the  *)
(* private map `active` of _poll_loop knows every task that is not done,   *)
(* however polls, early returns, dispatches and restarts fall.             *)
OneTaskPerCampaign ==
  \A c \in Campaigns : Cardinality(TasksOf(c)) <= 1

(* The kill switch takes effect within one send cycle: after PAUSED or     *)
(* CANCELLED is written a coroutine delivers at most one more message      *)
(* until the campaign is set running again (the status check at the head   *)
(* of run_campaign_dispatch's loop).                                       *)
KillSwitch == [][\A t \in late : ~(pc[t] = "smtp" /\ pc'[t] = "quit")]_vars

(* A row never stays SENDING for ever, whichever of crash, auto-pause and  *)
(* coroutine end left it there (recover_stuck_sending's sweep).            *)
NeverStuckSending ==
  \A e \in Emails : (estat[e] = "SENDING") ~> (estat[e] # "SENDING")

(* A RUNNING campaign does not sit on its queue: a queued row is claimed,  *)
(* or the campaign is paused, cancelled or completed (the poll loop and    *)
(* the dispatch loop together).                                            *)
RunningMakesProgress ==
  \A e \in Emails :
    (estat[e] = "QUEUED" /\ campaign[CampaignOf[e]] = "RUNNING")
      ~> (estat[e] # "QUEUED" \/ campaign[CampaignOf[e]] # "RUNNING")

(* "Retried, never silently dropped" (.docs/outreach.md:86-87): a row      *)
(* queued by the recovery sweep leaves the queue unless somebody stops the *)
(* campaign.                                                               *)
QueuedIsRetried ==
  \A e \in Emails :
    (estat[e] = "QUEUED")
      ~> (estat[e] # "QUEUED" \/ campaign[CampaignOf[e]] \in Killed)

(* A retryable failure "never relies on the row silently sitting in        *)
(* SENDING" (.docs/resilience.md): without a crash every SENDING row is    *)
(* held by a coroutine.                                                    *)
SendingIsHeld ==
  restarts = 0 =>
    \A e \in Emails : estat[e] = "SENDING" => \E t \in Tasks : Holds(t, e)

(* "Active, non-cooling credentials" (get_credentials_by_ids' docstring):  *)
(* an active credential that is not cooling down may send.                 *)
NonCoolingIsUsable ==
  \A k \in Credentials : active[k] /\ cooldown[k] # "future" => Usable(k)

(* "Deselecting a QUEUED email (e.g. one left over from a paused run)      *)
(* pulls it back to DRAFT so it's excluded from the next dispatch instead  *)
(* of still being sent" (set_email_selection's docstring).                 *)
DeselectedIsNotQueued == \A e \in Emails : estat[e] = "QUEUED" => e \in selected

(* "a crash never double-mails a recipient" (.docs/resilience.md:4).       *)
NeverDoubleMailed == \A e \in Emails : delivered[e] <= 1

(* On SIGTERM the dispatcher waits for its coroutines "to finish their     *)
(* current send" (the log line of _poll_loop): none claims another row.    *)
StoppingClaimsNothing ==
  [][stopping => \A t \in Tasks : ~(pc[t] = "claim" /\ pc'[t] = "pick")]_vars

-----------------------------------------------------------------------------
(* The inductive invariant behind the safety properties. *)

(* What a coroutine carries at each point of its program. *)
Carried ==
  \A t \in Tasks :
    /\ pc[t] # "idle" => campOf[t] \in Campaigns
    /\ pc[t] \in HoldPc => mailOf[t] \in Emails
    /\ pc[t] \in {"slot", "smtp", "quit"} => credOf[t] \in Credentials

Held ==
  \A t \in Tasks : pc[t] \in HoldPc =>
    /\ estat[mailOf[t]] # "NONE"
    /\ taken[mailOf[t]] = 0 =>
         /\ estat[mailOf[t]] = "SENDING"
         /\ \A u \in Tasks \ {t} : pc[u] \in HoldPc => mailOf[u] # mailOf[t]

(* The API process does one thing at a time, and the rows its sweep has    *)
(* read have been claimed once.                                            *)
Pending ==
  /\ edit = {} \/ sweep = {}
  /\ \A v, w \in edit : v = w
  /\ \A e \in sweep : estat[e] \in {"QUEUED", "SENDING", "SENT", "FAILED"}

(* A message awaiting quit(), and a row recorded SENT, were delivered. *)
Evidence ==
  /\ \A e \in Emails : estat[e] = "SENT" => delivered[e] > 0
  /\ \A t \in Tasks : pc[t] = "quit" => delivered[mailOf[t]] > 0

(* What may still lead to a delivery of a row: the coroutines that carry   *)
(* it towards the server and, unless one holds it, the row itself.         *)
Senders(e) == {t \in Tasks : pc[t] \in {"pick", "slot", "smtp"} /\ mailOf[t] = e}
Open(e) == \/ estat[e] \in {"NONE", "DRAFT", "QUEUED"}
           \/ estat[e] = "SENDING" /\ \A t \in Tasks : ~Holds(t, e)
Tickets(e) == Senders(e) \cup (IF Open(e) THEN {None} ELSE {})

Budget(e) == 1 + restarts + taken[e] + resent[e]

Paid ==
  \A e \in Emails :
    /\ IsFiniteSet(Tickets(e))
    /\ delivered[e] + Cardinality(Tickets(e)) <= Budget(e)

(* A coroutine that delivered after the kill switch is about to see it. *)
LateReturns ==
  \A t \in late : pc[t] \in {"quit", "check"} /\ campaign[campOf[t]] \in Killed

IInv == TypeOK /\ Carried /\ Held /\ Pending /\ Evidence /\ Paid /\ LateReturns

(* The poll loop's map knows every coroutine. *)
Tracked ==
  \A t \in Tasks : campOf[t] # None => polled[campOf[t]] = t

(* A coroutine that has picked a credential has still to be counted against *)
(* its limit: what was sent and what is in flight stay within the bound.   *)
InFlight(k) == {t \in Tasks : pc[t] \in {"slot", "smtp", "quit"} /\ credOf[t] = k}

Metered ==
  \A k \in Credentials :
    /\ IsFiniteSet(SentToday(k))
    /\ Cardinality(SentToday(k)) + Cardinality(InFlight(k))
         <= DailyLimit + Cardinality(Tasks) - 1

-----------------------------------------------------------------------------
(* What a row goes through, in the terms of EmailDelivery. *)
Delivery == INSTANCE EmailDelivery
              WITH status <- estat, reached <- {e \in Emails : delivered[e] > 0},
                   contested <- Contested
ImplementsDelivery == Delivery!Spec
=============================================================================
