--------------------------- MODULE Dispatch_proofs ---------------------------
(***************************************************************************)
(* Theorems about Dispatch, for every value of its constants.              *)
(***************************************************************************)
EXTENDS Dispatch, FiniteSetTheorems, TLAPS

(* Initially every coroutine is idle and every row is NONE or DRAFT. *)
LEMMA InitIInv == Init => IInv
<1> SUFFICES ASSUME Init PROVE IInv
  OBVIOUS
<1> USE DispatchAssumption DEF Init
<1>1. TypeOK
  <2>1. selected \subseteq Emails
    OBVIOUS
  <2>2. estat \in [Emails -> EmailStatus]
    BY DEF EmailStatus
  <2>3. cooldown \in [Credentials -> {"null", "past", "future"}]
    OBVIOUS
  <2>4. /\ ops \in 0..MaxOps /\ restarts \in 0..MaxRestarts
        /\ delivered \in [Emails -> Nat]
    OBVIOUS
  <2>8. /\ polled \in [Campaigns -> Tasks \cup {None}]
        /\ edit \subseteq Edits /\ sweep \subseteq Emails
        /\ taken \in [Emails -> Nat] /\ resent \in [Emails -> Nat]
        /\ crossed \subseteq Emails
    OBVIOUS
  <2>5. /\ campaign \in [Campaigns -> CampaignStatus]
        /\ assigned \in [Campaigns -> SUBSET Credentials]
        /\ pc \in [Tasks -> AwaitPc \cup BusyPc]
    BY DEF CampaignStatus, AwaitPc
  <2>6. /\ sentVia \in [Emails -> Credentials \cup {None}]
        /\ campOf \in [Tasks -> Campaigns \cup {None}]
        /\ mailOf \in [Tasks -> Emails \cup {None}]
        /\ credOf \in [Tasks -> Credentials \cup {None}]
    OBVIOUS
  <2>7. /\ overdue \in [Emails -> BOOLEAN]
        /\ active \in [Credentials -> BOOLEAN]
        /\ blacklist \subseteq {DomainOf[e] : e \in Emails}
        /\ stopping \in BOOLEAN /\ late \subseteq Tasks
    OBVIOUS
  <2> QED
    BY <2>1, <2>2, <2>3, <2>4, <2>5, <2>6, <2>7, <2>8, Zenon DEF TypeOK
<1>2. Carried /\ Held /\ Pending
  BY DEF Carried, Held, HoldPc, Pending
<1>3. Evidence
  BY DEF Evidence
<1>4. Paid
  <2> SUFFICES ASSUME NEW e \in Emails
               PROVE  IsFiniteSet(Tickets(e)) /\ delivered[e] + Cardinality(Tickets(e)) <= Budget(e)
    BY DEF Paid
  <2>1. Tickets(e) = {None}
    BY DEF Tickets, Senders, Open
  <2>2. IsFiniteSet({None}) /\ Cardinality({None}) = 1
    BY FS_Singleton, Zenon
  <2> QED
    BY <2>1, <2>2 DEF Budget
<1>5. LateReturns
  BY DEF LateReturns
<1> QED
  BY <1>1, <1>2, <1>3, <1>4, <1>5 DEF IInv

(* Types are kept by each operation; a coroutine that marks or delivers    *)
(* carries a row and a credential.                                         *)
LEMMA TypeStep == TypeOK /\ Carried /\ [Next]_vars => TypeOK'
<1> SUFFICES ASSUME TypeOK, Carried, [Next]_vars PROVE TypeOK'
  OBVIOUS
<1> USE DispatchAssumption
<1> USE DEF TypeOK, Carried, CampaignStatus, EmailStatus, AwaitPc, BusyPc, HoldPc,
            procVars, apiVars, againVars
<1>1. ASSUME NEW t \in Tasks, TaskStep(t) PROVE TypeOK'
  <2>1. CASE Start(t)
    BY <2>1 DEF Start, SetCampaign, LateAfter, Return, Loop
  <2>2. CASE Check(t)
    BY <2>2 DEF Check, Return, QueuedOf, EmailsOf
  <2>3. CASE Claim(t)
    <3>1. PICK e \in QueuedOf(campOf[t]) :
            /\ estat' = [estat EXCEPT ![e] = "SENDING"]
            /\ overdue' = [overdue EXCEPT ![e] = FALSE]
            /\ mailOf' = [mailOf EXCEPT ![t] = e]
      BY <2>3 DEF Claim
    <3>2. e \in Emails
      BY DEF QueuedOf, EmailsOf
    <3> QED
      BY <2>3, <3>1, <3>2 DEF Claim, histVars
  <2>4. CASE Drained(t)
    BY <2>4 DEF Drained, SetCampaign, LateAfter, Return
  <2>5. CASE Pick(t)
    BY <2>5 DEF Pick, Pool, dbVars, histVars
  <2>6. CASE NoCredential(t)
    BY <2>6 DEF NoCredential, SetCampaign, Return
  <2>7. CASE SlotGranted(t)
    BY <2>7 DEF SlotGranted, dbVars, histVars
  <2>8. CASE Accept(t)
    <3>1. mailOf[t] \in Emails
      BY <2>8 DEF Accept
    <3>2. delivered' \in [Emails -> Nat]
      <4>1. delivered[mailOf[t]] \in Nat
        BY <3>1
      <4> QED
        BY <2>8, <3>1, <4>1 DEF Accept
    <3>3. late' \subseteq Tasks
      BY <2>8 DEF Accept
    <3> QED
      BY <2>8, <3>2, <3>3 DEF Accept, dbVars
  <2>9. CASE MarkSent(t)
    BY <2>9 DEF MarkSent, SetEmail, Loop, histVars
  <2>10. CASE AuthFails(t)
    BY <2>10 DEF AuthFails, SetEmail, Loop, histVars
  <2>11. CASE HardBounce(t)
    <3>1. mailOf[t] \in Emails
      BY <2>11 DEF HardBounce
    <3>2. blacklist' \subseteq {DomainOf[e] : e \in Emails}
      <4>1. DomainOf[mailOf[t]] \in {DomainOf[e] : e \in Emails}
        BY <3>1
      <4>2. blacklist' = blacklist \cup {DomainOf[mailOf[t]]}
        BY <2>11 DEF HardBounce
      <4> QED
        BY <4>1, <4>2
    <3> QED
      BY <2>11, <3>2 DEF HardBounce, SetEmail, Loop, histVars
  <2>12. CASE TemporaryFailure(t)
    <3>1. resent' \in [Emails -> Nat]
      <4>1. mailOf[t] \in Emails
        BY <2>12 DEF TemporaryFailure, Failing
      <4>2. resent[mailOf[t]] \in Nat
        BY <4>1
      <4>3. \/ resent' = [resent EXCEPT ![mailOf[t]] = resent[mailOf[t]] + 1]
            \/ resent' = [resent EXCEPT ![mailOf[t]] = resent[mailOf[t]]]
        BY <2>12 DEF TemporaryFailure
      <4> QED
        BY <4>1, <4>2, <4>3
    <3> QED
      BY <2>12, <3>1 DEF TemporaryFailure, SetEmail, Loop, histVars
  <2>13. CASE PermanentFailure(t)
    BY <2>13 DEF PermanentFailure, SetEmail, Loop, histVars
  <2> QED
    BY <1>1, <2>1, <2>2, <2>3, <2>4, <2>5, <2>6, <2>7, <2>8, <2>9, <2>10,
       <2>11, <2>12, <2>13 DEF TaskStep
<1>2. ASSUME UserStep PROVE TypeOK'
  <2> USE DEF UserOp, taskVars, histVars
  <2>1. ASSUME NEW c \in Campaigns, DispatchCampaign(c) PROVE TypeOK'
    BY <2>1 DEF DispatchCampaign, SetCampaign, LateAfter, Spawn
  <2>2. ASSUME NEW c \in Campaigns, NEW s \in CampaignStatus,
               UpdateCampaignStatus(c, s)
        PROVE  TypeOK'
    BY <2>2 DEF UpdateCampaignStatus, SetCampaign, LateAfter
  <2>3. ASSUME NEW c \in Campaigns, NEW pool \in SUBSET Credentials,
               UpdateCampaignCredentials(c, pool)
        PROVE  TypeOK'
    BY <2>3 DEF UpdateCampaignCredentials
  <2>4. ASSUME NEW c \in Campaigns, NEW sel \in BOOLEAN,
               BulkToggleEmailSelection(c, sel)
        PROVE  TypeOK'
    <3>1. selected' \subseteq Emails
      BY <2>4 DEF BulkToggleEmailSelection, DraftsOf, QueuedOf, EmailsOf
    <3>2. estat' \in [Emails -> EmailStatus]
      BY <2>4 DEF BulkToggleEmailSelection
    <3> QED
      BY <2>4, <3>1, <3>2 DEF BulkToggleEmailSelection
  <2>5. ASSUME NEW c \in Campaigns, NEW new \in (SUBSET EmailsOf(c)) \ {{}},
               NEW complete \in SUBSET new, AddEmailsToCampaign(c, new, complete)
        PROVE  TypeOK'
    <3>1. selected' \subseteq Emails
      BY <2>5 DEF AddEmailsToCampaign, EmailsOf
    <3>2. estat' \in [Emails -> EmailStatus]
      BY <2>5 DEF AddEmailsToCampaign
    <3> QED
      BY <2>5, <3>1, <3>2 DEF AddEmailsToCampaign
  <2>6. ASSUME NEW c \in Campaigns, NEW e \in Emails, NEW sel \in BOOLEAN,
               SelectionRead(c, e, sel)
        PROVE  TypeOK'
    <3>1. edit' \subseteq Edits
      BY <2>6 DEF SelectionRead, Edits, Editable
    <3> QED
      BY <2>6, <3>1 DEF SelectionRead, dbVars
  <2>7. ASSUME NEW c \in Campaigns, NEW e \in Emails, DeleteCampaignEmail(c, e)
        PROVE  TypeOK'
    BY <2>7 DEF DeleteCampaignEmail
  <2>8. ASSUME NEW k \in Credentials, NEW ok \in BOOLEAN, TestCredential(k, ok)
        PROVE  TypeOK'
    BY <2>8 DEF TestCredential
  <2> HIDE DEF TypeOK
  <2> QED
    BY <1>2, <2>1, <2>2, <2>3, <2>4, <2>5, <2>6, <2>7, <2>8, Zenon DEF UserStep
<1>3. ASSUME Environment PROVE TypeOK'
  <2> USE DEF dbVars, taskVars, histVars
  <2>1. CASE RecoverStuckSending
    <3>1. taken' \in [Emails -> Nat]
      BY <2>1 DEF RecoverStuckSending, TakenFrom
    <3>2. estat' \in [Emails -> EmailStatus] /\ overdue' \in [Emails -> BOOLEAN]
      BY <2>1 DEF RecoverStuckSending, Requeue
    <3> QED
      BY <2>1, <3>1, <3>2 DEF RecoverStuckSending
  <2>8. CASE SweepRead
    BY <2>8 DEF SweepRead, Stuck
  <2>9. CASE SweepWrite
    <3>1. taken' \in [Emails -> Nat]
      BY <2>9 DEF SweepWrite, TakenFrom
    <3>2. estat' \in [Emails -> EmailStatus] /\ overdue' \in [Emails -> BOOLEAN]
      BY <2>9 DEF SweepWrite, Requeue
    <3> QED
      BY <2>9, <3>1, <3>2 DEF SweepWrite
  <2>10. CASE SelectionWrite
    <3>1. PICK w \in edit :
            /\ selected' = IF w.sel THEN selected \cup {w.row} ELSE selected \ {w.row}
            /\ SetEmail(w.row, "DRAFT") \/ UNCHANGED <<estat, overdue>>
            /\ \E b \in BOOLEAN :
                 taken' = [taken EXCEPT ![w.row] = IF b THEN @ + 1 ELSE @]
            /\ crossed' \in {crossed, crossed \cup {w.row}}
      BY <2>10 DEF SelectionWrite
    <3>2. w.row \in Emails
      BY <3>1 DEF Edits
    <3>3. /\ selected' \subseteq Emails /\ crossed' \subseteq Emails
          /\ taken' \in [Emails -> Nat]
      <4>1. selected' \subseteq Emails /\ crossed' \subseteq Emails
        BY <3>1, <3>2
      <4>2. taken[w.row] \in Nat
        BY <3>2
      <4>3. \/ taken' = [taken EXCEPT ![w.row] = taken[w.row] + 1]
            \/ taken' = [taken EXCEPT ![w.row] = taken[w.row]]
        BY <3>1
      <4>4. taken' \in [Emails -> Nat]
        BY <3>2, <4>2, <4>3
      <4> QED
        BY <4>1, <4>4
    <3>4. estat' \in [Emails -> EmailStatus] /\ overdue' \in [Emails -> BOOLEAN]
      <4>1. CASE SetEmail(w.row, "DRAFT")
        BY <3>2, <4>1 DEF SetEmail
      <4>2. CASE UNCHANGED <<estat, overdue>>
        BY <4>2
      <4> QED
        BY <3>1, <4>1, <4>2
    <3>5. edit' = {}
      BY <2>10 DEF SelectionWrite
    <3>6. UNCHANGED <<campaign, assigned, sentVia, active, cooldown, blacklist,
                      taskVars, procVars, sweep, ops, restarts, delivered, late,
                      resent>>
      BY <2>10 DEF SelectionWrite
    <3> QED
      BY <3>3, <3>4, <3>5, <3>6
  <2>2. CASE Restart
    <3>1. restarts' \in 0..MaxRestarts
      BY <2>2 DEF Restart
    <3>2. estat' \in [Emails -> EmailStatus]
      BY <2>2 DEF Restart, Requeue
    <3>3. overdue' \in [Emails -> BOOLEAN]
      BY <2>2 DEF Restart, Requeue
    <3>4. edit' \subseteq Edits
      BY <2>2 DEF Restart
    <3> QED
      BY <2>2, <3>1, <3>2, <3>3, <3>4 DEF Restart
  <2>3. CASE Sigterm
    BY <2>3 DEF Sigterm
  <2>4. CASE Midnight
    BY <2>4 DEF Midnight
  <2>5. CASE Poll
    <3> DEFINE fresh == {c \in Campaigns : campaign[c] = "RUNNING" /\ ~Alive(c)}
    <3>1. PICK slot \in [fresh -> {t \in Tasks : pc[t] = "idle"}] :
          /\ pc' = [t \in Tasks |-> IF \E c \in fresh : slot[c] = t THEN "start"
                                    ELSE pc[t]]
          /\ campOf' = [t \in Tasks |-> IF \E c \in fresh : slot[c] = t
                                        THEN CHOOSE c \in fresh : slot[c] = t
                                        ELSE campOf[t]]
          /\ polled' = [c \in Campaigns |-> IF c \in fresh THEN slot[c] ELSE Kept(c)]
      BY <2>5, Zenon DEF Poll
    <3>2. pc' \in [Tasks -> AwaitPc \cup BusyPc]
      BY <3>1
    <3>3. campOf' \in [Tasks -> Campaigns \cup {None}]
      <4>1. ASSUME NEW t \in Tasks, \E c \in fresh : slot[c] = t
            PROVE  (CHOOSE c \in fresh : slot[c] = t) \in Campaigns
        BY <4>1
      <4> HIDE DEF fresh
      <4> QED
        BY <3>1, <4>1
    <3>4. polled' \in [Campaigns -> Tasks \cup {None}]
      BY <3>1 DEF Kept
    <3>5. UNCHANGED <<dbVars, mailOf, credOf, stopping, apiVars, ops, histVars>>
      BY <2>5 DEF Poll
    <3> QED
      BY <3>2, <3>3, <3>4, <3>5
  <2>6. ASSUME NEW e \in Emails, ThresholdPasses(e) PROVE TypeOK'
    BY <2>6 DEF ThresholdPasses
  <2>7. ASSUME NEW k \in Credentials, CooldownExpires(k) PROVE TypeOK'
    BY <2>7 DEF CooldownExpires
  <2> QED
    BY <1>3, <2>1, <2>2, <2>3, <2>4, <2>5, <2>6, <2>7, <2>8, <2>9, <2>10
    DEF Environment
<1>4. CASE UNCHANGED vars
  BY <1>4 DEF vars, dbVars, taskVars, histVars
<1> QED
  BY <1>1, <1>2, <1>3, <1>4 DEF Next

-----------------------------------------------------------------------------
(* What everything but a coroutine's step and a restart may do to a row:   *)
(* a handler's legal move, or a write by a sweep or a selection edit that  *)
(* may be out of date and is then accounted for in taken and crossed.      *)
UserMoves == {<<"NONE", "DRAFT">>, <<"DRAFT", "DELETED">>, <<"QUEUED", "DRAFT">>}

Overwritten(e) ==
  /\ estat[e] \in {"QUEUED", "SENDING", "SENT", "FAILED"}
  /\ estat'[e] \in {"QUEUED", "DRAFT"}
  /\ taken'[e] = IF e \in Reopened THEN taken[e] + 1 ELSE taken[e]
  /\ estat[e] = "SENDING" /\ estat'[e] = "DRAFT" => e \in crossed'

RowFrame(e) ==
  \/ estat'[e] = estat[e] /\ taken'[e] = taken[e]
  \/ <<estat[e], estat'[e]>> \in UserMoves /\ taken'[e] = taken[e]
  \/ Overwritten(e)

(* ... and to the coroutines: at most start idle ones. *)
Spawned ==
  /\ UNCHANGED <<mailOf, credOf>>
  /\ \A t \in Tasks :
       \/ pc'[t] = pc[t] /\ campOf'[t] = campOf[t]
       \/ pc[t] = "idle" /\ pc'[t] = "start" /\ campOf'[t] \in Campaigns

Outside == UserStep \/ (Environment /\ ~Restart) \/ UNCHANGED vars

Framed ==
  /\ Spawned
  /\ UNCHANGED <<restarts, delivered, resent>>
  /\ crossed \subseteq crossed'
  /\ \A e \in Emails : sentVia'[e] \in {sentVia[e], None}
  /\ \A e \in Emails : RowFrame(e)

LEMMA SpawnFrame ==
  ASSUME TypeOK, NEW t \in Tasks, NEW c \in Campaigns, Spawn(t, c)
  PROVE  Spawned
  BY DEF TypeOK, Spawn, Spawned

LEMMA PollFrame == TypeOK /\ Poll => Spawned
<1> SUFFICES ASSUME TypeOK, Poll PROVE Spawned
  OBVIOUS
<1> DEFINE fresh == {c \in Campaigns : campaign[c] = "RUNNING" /\ ~Alive(c)}
<1>1. PICK slot \in [fresh -> {t \in Tasks : pc[t] = "idle"}] :
        /\ pc' = [t \in Tasks |-> IF \E c \in fresh : slot[c] = t THEN "start"
                                  ELSE pc[t]]
        /\ campOf' = [t \in Tasks |-> IF \E c \in fresh : slot[c] = t
                                      THEN CHOOSE c \in fresh : slot[c] = t
                                      ELSE campOf[t]]
  BY Zenon DEF Poll
<1>2. ASSUME NEW t \in Tasks, \E c \in fresh : slot[c] = t
      PROVE  /\ pc[t] = "idle" /\ pc'[t] = "start"
             /\ campOf'[t] \in Campaigns
  <2>1. (CHOOSE c \in fresh : slot[c] = t) \in Campaigns
    BY <1>2
  <2> QED
    BY <1>1, <1>2, <2>1
<1>3. ASSUME NEW t \in Tasks, ~\E c \in fresh : slot[c] = t
      PROVE  pc'[t] = pc[t] /\ campOf'[t] = campOf[t]
  BY <1>1, <1>3
<1>4. UNCHANGED <<mailOf, credOf>>
  BY DEF Poll
<1> HIDE DEF fresh
<1> QED
  BY <1>2, <1>3, <1>4 DEF Spawned

LEMMA UserFrame == TypeOK /\ UserStep => Framed
<1> SUFFICES ASSUME TypeOK, UserStep PROVE Framed
  OBVIOUS
<1>0. estat \in [Emails -> EmailStatus]
  BY DEF TypeOK
<1> USE DEF histVars, againVars, taskVars, UserMoves, RowFrame
<1>1. ASSUME NEW c \in Campaigns, DispatchCampaign(c) PROVE Framed
  <2>1. Spawned
    BY <1>1, SpawnFrame DEF DispatchCampaign, Spawned
  <2> QED
    BY <1>1, <2>1 DEF DispatchCampaign, Framed
<1>2. ASSUME NEW c \in Campaigns, NEW s \in CampaignStatus,
             UpdateCampaignStatus(c, s)
      PROVE  Framed
  BY <1>2 DEF UpdateCampaignStatus, Spawned, Framed
<1>3. ASSUME NEW c \in Campaigns, NEW pool \in SUBSET Credentials,
             UpdateCampaignCredentials(c, pool)
      PROVE  Framed
  BY <1>3 DEF UpdateCampaignCredentials, Spawned, Framed
<1>4. ASSUME NEW c \in Campaigns, NEW sel \in BOOLEAN,
             BulkToggleEmailSelection(c, sel)
      PROVE  Framed
  BY <1>0, <1>4 DEF BulkToggleEmailSelection, DraftsOf, QueuedOf, EmailsOf,
                   Spawned, Framed
<1>5. ASSUME NEW c \in Campaigns, NEW new \in (SUBSET EmailsOf(c)) \ {{}},
             NEW complete \in SUBSET new, AddEmailsToCampaign(c, new, complete)
      PROVE  Framed
  BY <1>0, <1>5 DEF AddEmailsToCampaign, Spawned, Framed
<1>6. ASSUME NEW c \in Campaigns, NEW e \in Emails, NEW sel \in BOOLEAN,
             SelectionRead(c, e, sel)
      PROVE  Framed
  BY <1>0, <1>6 DEF SelectionRead, dbVars, Spawned, Framed
<1>7. ASSUME NEW c \in Campaigns, NEW e \in Emails, DeleteCampaignEmail(c, e)
      PROVE  Framed
  BY <1>0, <1>7 DEF DeleteCampaignEmail, Spawned, Framed
<1>8. ASSUME NEW k \in Credentials, NEW ok \in BOOLEAN, TestCredential(k, ok)
      PROVE  Framed
  BY <1>8 DEF TestCredential, Spawned, Framed
<1> QED
  BY <1>1, <1>2, <1>3, <1>4, <1>5, <1>6, <1>7, <1>8, Zenon DEF UserStep

(* A sweep requeues rows that were claimed when it read them. *)
LEMMA RequeueFrame ==
  ASSUME TypeOK, NEW rows \in SUBSET Emails, Requeue(rows), TakenFrom(rows),
         \A e \in rows : estat[e] \in {"QUEUED", "SENDING", "SENT", "FAILED"}
  PROVE  \A e \in Emails : RowFrame(e)
  BY DEF Requeue, TakenFrom, RowFrame, Overwritten, TypeOK

(* A selection edit writes DRAFT over whatever the row has become. *)
LEMMA SelectionFrame == TypeOK /\ SelectionWrite => Framed
<1> SUFFICES ASSUME TypeOK, SelectionWrite PROVE Framed
  OBVIOUS
<1>0. /\ estat \in [Emails -> EmailStatus] /\ edit \subseteq Edits
      /\ taken \in [Emails -> Nat]
  BY DEF TypeOK
<1>1. PICK w \in edit :
        /\ \/ /\ w.seen = "QUEUED" /\ SetEmail(w.row, "DRAFT")
              /\ taken' = [taken EXCEPT ![w.row] =
                             IF w.row \in Reopened THEN @ + 1 ELSE @]
           \/ estat' = estat /\ taken' = [taken EXCEPT ![w.row] = @]
        /\ crossed' = IF estat[w.row] = w.seen THEN crossed ELSE crossed \cup {w.row}
  BY DEF SelectionWrite
<1>2. w.row \in Emails
  BY <1>0, <1>1 DEF Edits
<1>3. ASSUME NEW e \in Emails PROVE RowFrame(e)
  <2>1. CASE e # w.row \/ estat' = estat
    BY <1>0, <1>1, <1>2, <2>1 DEF RowFrame, SetEmail, Reopened
  <2>2. CASE e = w.row /\ estat' # estat
    <3>1. /\ w.seen = "QUEUED"
          /\ estat'[e] = IF estat[e] = "DELETED" THEN "DELETED" ELSE "DRAFT"
          /\ taken'[e] = IF e \in Reopened THEN taken[e] + 1 ELSE taken[e]
      BY <1>0, <1>1, <1>2, <2>2 DEF SetEmail
    <3>2. estat[e] = "SENDING" => e \in crossed'
      BY <1>1, <2>2, <3>1
    <3>3. estat[e] \in {"NONE", "DRAFT", "DELETED"} => e \notin Reopened
      BY DEF Reopened
    <3> QED
      BY <1>0, <3>1, <3>2, <3>3 DEF RowFrame, Overwritten, UserMoves, EmailStatus
  <2> QED
    BY <2>1, <2>2
<1>4. crossed \subseteq crossed'
  BY <1>1
<1>5. /\ UNCHANGED <<restarts, delivered, resent, sentVia>> /\ UNCHANGED taskVars
  BY DEF SelectionWrite
<1> QED
  BY <1>3, <1>4, <1>5 DEF Framed, Spawned, taskVars

LEMMA OutsideFrame == TypeOK /\ Pending /\ Outside => Framed
<1> SUFFICES ASSUME TypeOK, Pending, Outside PROVE Framed
  OBVIOUS
<1> USE DEF taskVars, histVars, againVars
<1>1. CASE UserStep
  BY <1>1, UserFrame
<1>2. CASE RecoverStuckSending
  <2>1. \A e \in Emails : RowFrame(e)
    BY <1>2, RequeueFrame DEF RecoverStuckSending, Stuck
  <2> QED
    BY <1>2, <2>1 DEF RecoverStuckSending, Framed, Spawned
<1>3. CASE SweepWrite
  <2>1. \A e \in Emails : RowFrame(e)
    BY <1>3, RequeueFrame DEF SweepWrite, Pending, TypeOK
  <2> QED
    BY <1>3, <2>1 DEF SweepWrite, Framed, Spawned
<1>4. CASE SelectionWrite
  BY <1>4, SelectionFrame
<1>5. CASE SweepRead \/ Sigterm
  BY <1>5 DEF SweepRead, Sigterm, dbVars, Framed, Spawned, RowFrame
<1>6. CASE Midnight
  BY <1>6 DEF Midnight, Framed, Spawned, RowFrame
<1>7. CASE Poll
  <2>1. UNCHANGED <<dbVars, histVars>>
    BY <1>7 DEF Poll
  <2> QED
    BY <1>7, <2>1, PollFrame DEF dbVars, Framed, RowFrame
<1>8. ASSUME NEW e \in Emails, ThresholdPasses(e) PROVE Framed
  BY <1>8 DEF ThresholdPasses, Framed, Spawned, RowFrame
<1>9. ASSUME NEW k \in Credentials, CooldownExpires(k) PROVE Framed
  BY <1>9 DEF CooldownExpires, Framed, Spawned, RowFrame
<1>10. CASE UNCHANGED vars
  BY <1>10 DEF vars, dbVars, Framed, Spawned, RowFrame
<1> QED
  BY <1>1, <1>2, <1>3, <1>4, <1>5, <1>6, <1>7, <1>8, <1>9, <1>10, Zenon
  DEF Outside, Environment

(* Every step is one of a coroutine, a restart, or outside of both. *)
LEMMA Cases == [Next]_vars => Outside \/ Restart \/ \E t \in Tasks : TaskStep(t)
  BY Zenon DEF Next, Outside

-----------------------------------------------------------------------------
(* What a coroutine carries is kept by its own steps, and a new coroutine  *)
(* carries a campaign.                                                     *)
LEMMA CarriedStep == TypeOK /\ Carried /\ Pending /\ [Next]_vars => Carried'
<1> SUFFICES ASSUME TypeOK, Carried, Pending, [Next]_vars PROVE Carried'
  OBVIOUS
<1>0. /\ pc \in [Tasks -> AwaitPc \cup BusyPc]
      /\ campOf \in [Tasks -> Campaigns \cup {None}]
      /\ mailOf \in [Tasks -> Emails \cup {None}]
      /\ credOf \in [Tasks -> Credentials \cup {None}]
  BY DEF TypeOK
<1> USE DEF HoldPc, Carried
<1>1. ASSUME NEW t \in Tasks, TaskStep(t) PROVE Carried'
  <2>1. CASE \/ Start(t) \/ Check(t) \/ Drained(t) \/ NoCredential(t)
    BY <1>0, <2>1 DEF Start, Check, Drained, NoCredential, Return, Loop
  <2>2. CASE Claim(t)
    <3>1. PICK e \in QueuedOf(campOf[t]) : mailOf' = [mailOf EXCEPT ![t] = e]
      BY <2>2 DEF Claim
    <3> QED
      BY <1>0, <2>2, <3>1 DEF Claim, QueuedOf, EmailsOf
  <2>3. CASE Pick(t)
    <3>1. PICK k \in Pool(campOf[t]) : credOf' = [credOf EXCEPT ![t] = k]
      BY <2>3 DEF Pick
    <3>2. k \in Credentials
      BY <1>0, <2>3 DEF Pool, Pick, TypeOK
    <3> QED
      BY <1>0, <2>3, <3>1, <3>2 DEF Pick
  <2>4. CASE SlotGranted(t) \/ Accept(t)
    BY <1>0, <2>4 DEF SlotGranted, Accept
  <2>5. CASE \/ MarkSent(t) \/ AuthFails(t) \/ HardBounce(t)
             \/ TemporaryFailure(t) \/ PermanentFailure(t)
    <3>1. Loop(t) /\ campOf[t] \in Campaigns
      BY <2>5 DEF MarkSent, AuthFails, HardBounce, TemporaryFailure,
                  PermanentFailure, Failing
    <3> QED
      BY <1>0, <3>1 DEF Loop
  <2> QED
    BY <1>1, <2>1, <2>2, <2>3, <2>4, <2>5 DEF TaskStep
<1>2. CASE Outside
  BY <1>2, OutsideFrame DEF Framed, Spawned
<1>3. CASE Restart
  BY <1>3 DEF Restart
<1> QED
  BY <1>1, <1>2, <1>3, Cases

(* The API process's reads in progress. *)
LEMMA PendingStep == TypeOK /\ Carried /\ Pending /\ [Next]_vars => Pending'
<1> SUFFICES ASSUME TypeOK, Carried, Pending, [Next]_vars PROVE Pending'
  OBVIOUS
<1>0. /\ estat \in [Emails -> EmailStatus] /\ sweep \subseteq Emails
  BY DEF TypeOK
<1> DEFINE Quiet == /\ edit' \subseteq edit /\ sweep' = sweep
                    /\ \A e \in Emails : estat'[e] \in {estat[e], "QUEUED", "SENDING",
                                                        "SENT", "FAILED"}
<1>1. ASSUME Quiet PROVE Pending'
  BY <1>0, <1>1 DEF Pending
<1>2. ASSUME NEW t \in Tasks, TaskStep(t) PROVE Pending'
  <2>1. edit' = edit /\ sweep' = sweep
    BY <1>2 DEF TaskStep, Start, Check, Claim, Drained, Pick, NoCredential,
         SlotGranted, Accept, MarkSent, AuthFails, HardBounce, TemporaryFailure,
         PermanentFailure, apiVars
  <2>2. \A e \in Emails : estat'[e] \in {estat[e], "QUEUED", "SENDING", "SENT", "FAILED"}
    <3>1. CASE \/ Start(t) \/ Check(t) \/ Claim(t) \/ Drained(t) \/ Pick(t)
               \/ NoCredential(t) \/ SlotGranted(t) \/ Accept(t)
      BY <1>0, <3>1 DEF Start, Check, Claim, Drained, Pick, NoCredential,
           SlotGranted, Accept, dbVars
    <3>2. CASE \/ MarkSent(t) \/ AuthFails(t) \/ HardBounce(t)
               \/ TemporaryFailure(t) \/ PermanentFailure(t)
      <4>1. \E s \in {"SENT", "QUEUED", "FAILED"} : SetEmail(mailOf[t], s)
        BY <3>2 DEF MarkSent, AuthFails, HardBounce, TemporaryFailure, PermanentFailure
      <4> QED
        BY <1>0, <4>1 DEF SetEmail
    <3> QED
      BY <1>2, <3>1, <3>2 DEF TaskStep
  <2> QED
    BY <1>1, <2>1, <2>2
<1>3. CASE UserStep
  <2>1. edit = {} /\ sweep = {}
    BY <1>3 DEF UserStep, DispatchCampaign, UpdateCampaignStatus,
         UpdateCampaignCredentials, BulkToggleEmailSelection, AddEmailsToCampaign,
         SelectionRead, DeleteCampaignEmail, TestCredential, UserOp, ApiTurn, ApiIdle
  <2>2. sweep' = sweep /\ \A v, w \in edit' : v = w
    BY <1>3, <2>1
    DEF UserStep, DispatchCampaign, UpdateCampaignStatus,
        UpdateCampaignCredentials, BulkToggleEmailSelection, AddEmailsToCampaign,
        SelectionRead, DeleteCampaignEmail, TestCredential, apiVars
  <2> QED
    BY <2>1, <2>2 DEF Pending
<1>4. CASE RecoverStuckSending \/ Restart
  <2>1. Quiet
    BY <1>0, <1>4 DEF RecoverStuckSending, Restart, Requeue, apiVars
  <2> QED
    BY <1>1, <2>1
<1>5. CASE SweepRead
  BY <1>0, <1>5 DEF SweepRead, ApiIdle, Stuck, dbVars, Pending
<1>6. CASE SweepWrite \/ SelectionWrite
  BY <1>6 DEF SweepWrite, SelectionWrite, Pending
<1>7. CASE \/ Sigterm \/ Midnight \/ Poll \/ UNCHANGED vars
           \/ \E e \in Emails : ThresholdPasses(e)
           \/ \E k \in Credentials : CooldownExpires(k)
  <2>1. Quiet
    BY <1>7 DEF Sigterm, Midnight, Poll, ThresholdPasses, CooldownExpires, vars,
         dbVars, apiVars
  <2> QED
    BY <1>1, <2>1
<1> QED
  BY <1>2, <1>3, <1>4, <1>5, <1>6, <1>7 DEF Next, Environment

-----------------------------------------------------------------------------
(* A coroutine that lets go of its row, whatever it records, leaves the    *)
(* rows of the others alone.                                               *)
LEMMA Release ==
  ASSUME TypeOK, Carried, Held, NEW t \in Tasks,
         NEW s \in {"QUEUED", "SENT", "FAILED"}, pc[t] \in HoldPc,
         SetEmail(mailOf[t], s), Loop(t), taken' = taken
  PROVE  Held'
<1>1. ASSUME NEW u \in Tasks, pc'[u] \in HoldPc
      PROVE  /\ u # t /\ pc[u] \in HoldPc
             /\ mailOf'[u] = mailOf[u] /\ mailOf[u] \in Emails
             /\ taken[mailOf[u]] = 0 => mailOf[u] # mailOf[t]
  BY <1>1 DEF Loop, TypeOK, Held, HoldPc, Carried
<1>2. /\ \A e \in Emails \ {mailOf[t]} : estat'[e] = estat[e]
      /\ \A e \in Emails : estat[e] # "NONE" => estat'[e] # "NONE"
  BY DEF SetEmail, TypeOK
<1> QED
  BY <1>1, <1>2 DEF Held

(* A row is claimed only while it is QUEUED, and while it is held neither  *)
(* a handler nor another coroutine moves it; a sweep or a late edit that   *)
(* does is counted.                                                        *)
LEMMA HeldStep == TypeOK /\ Carried /\ Held /\ Pending /\ [Next]_vars => Held'
<1> SUFFICES ASSUME TypeOK, Carried, Held, Pending, [Next]_vars PROVE Held'
  OBVIOUS
<1>0. /\ pc \in [Tasks -> AwaitPc \cup BusyPc]
      /\ mailOf \in [Tasks -> Emails \cup {None}]
      /\ estat \in [Emails -> EmailStatus]
      /\ taken \in [Emails -> Nat]
  BY DEF TypeOK
<1>1. ASSUME NEW t \in Tasks, TaskStep(t) PROVE Held'
  <2>1. CASE Start(t)
    <3>1. \A e \in Emails : \/ estat'[e] = estat[e]
                            \/ estat[e] = "DRAFT" /\ estat'[e] = "QUEUED"
      <4>1. estat' = [e \in Emails |-> IF e \in SelectedDrafts(campOf[t]) THEN "QUEUED"
                                      ELSE estat[e]]
        BY <2>1, Zenon DEF Start
      <4> QED
        BY <4>1, SMT DEF SelectedDrafts, DraftsOf
    <3>2. /\ mailOf' \in {mailOf, [mailOf EXCEPT ![t] = None]} /\ taken' = taken
          /\ pc' \in {[pc EXCEPT ![t] = "idle"], [pc EXCEPT ![t] = "check"]}
      BY <2>1 DEF Start, Return, Loop, againVars
    <3> QED
      BY <1>0, <3>1, <3>2 DEF Held, Carried, HoldPc
  <2>2. CASE Check(t)
    <3>1. \A e \in Emails : \/ estat'[e] = estat[e]
                            \/ estat[e] = "QUEUED" /\ estat'[e] = "FAILED"
      <4>1. \/ estat' = estat
            \/ estat' = [e \in Emails |-> IF e \in QueuedOf(campOf[t]) THEN "FAILED"
                                         ELSE estat[e]]
        BY <2>2, Zenon DEF Check
      <4> QED
        BY <4>1 DEF QueuedOf
    <3>2. /\ mailOf' \in {mailOf, [mailOf EXCEPT ![t] = None]} /\ taken' = taken
          /\ pc' \in {[pc EXCEPT ![t] = "idle"], [pc EXCEPT ![t] = "claim"]}
      BY <2>2 DEF Check, Return, againVars
    <3> QED
      BY <1>0, <3>1, <3>2 DEF Held, Carried, HoldPc
  <2>3. CASE Claim(t)
    <3>1. PICK e \in QueuedOf(campOf[t]) :
            /\ estat' = [estat EXCEPT ![e] = "SENDING"]
            /\ mailOf' = [mailOf EXCEPT ![t] = e]
      BY <2>3 DEF Claim
    <3>2. e \in Emails /\ estat[e] = "QUEUED"
      BY <3>1 DEF QueuedOf, EmailsOf
    <3>3. \A u \in Tasks \ {t} : pc[u] \in HoldPc /\ mailOf[u] = e => taken[e] # 0
      BY <3>2 DEF Held
    <3>4. pc[t] = "claim" /\ pc' = [pc EXCEPT ![t] = "pick"] /\ taken' = taken
      BY <2>3 DEF Claim, histVars, againVars
    <3> QED
      BY <1>0, <3>1, <3>2, <3>3, <3>4 DEF Held, Carried, HoldPc
  <2>4. CASE Pick(t) \/ SlotGranted(t) \/ Accept(t)
    <3>1. estat' = estat /\ taken' = taken /\ mailOf' = mailOf
      BY <2>4 DEF Pick, SlotGranted, Accept, dbVars, histVars, againVars
    <3>2. \A u \in Tasks : pc'[u] \in HoldPc => pc[u] \in HoldPc
      BY <1>0, <2>4 DEF Pick, SlotGranted, Accept, HoldPc
    <3> QED
      BY <3>1, <3>2 DEF Held
  <2>5. CASE Drained(t) \/ NoCredential(t)
    BY <1>0, <2>5 DEF Drained, NoCredential, Return, Held, Carried, HoldPc, againVars
  <2>6. CASE MarkSent(t)
    BY <2>6, Release DEF MarkSent, HoldPc, histVars, againVars
  <2>7. CASE AuthFails(t)
    BY <2>7, Release DEF AuthFails, HoldPc, histVars, againVars
  <2>8. CASE HardBounce(t)
    BY <2>8, Release DEF HardBounce, HoldPc, histVars, againVars
  <2>9. CASE TemporaryFailure(t)
    BY <2>9, Release DEF TemporaryFailure, Failing, HoldPc
  <2>10. CASE PermanentFailure(t)
    BY <2>10, Release DEF PermanentFailure, Failing, HoldPc, histVars, againVars
  <2> QED
    BY <1>1, <2>1, <2>2, <2>3, <2>4, <2>5, <2>6, <2>7, <2>8, <2>9, <2>10
    DEF TaskStep
<1>2. CASE Outside
  <2>1. /\ mailOf' = mailOf
        /\ \A u \in Tasks : pc'[u] \in HoldPc => pc[u] \in HoldPc
        /\ \A e \in Emails : RowFrame(e)
    BY <1>2, OutsideFrame DEF Framed, Spawned, HoldPc
  <2>2. ASSUME NEW t \in Tasks, pc[t] \in HoldPc
        PROVE  /\ estat'[mailOf[t]] # "NONE"
               /\ taken'[mailOf[t]] = 0 =>
                    taken[mailOf[t]] = 0 /\ estat'[mailOf[t]] = "SENDING"
    <3>1. mailOf[t] \in Emails /\ taken[mailOf[t]] \in Nat
      BY <1>0, <2>2 DEF Carried
    <3>2. estat[mailOf[t]] = "SENDING" => mailOf[t] \in Reopened
      BY <2>2, <3>1 DEF Reopened, Holds
    <3>3. /\ estat[mailOf[t]] # "NONE"
          /\ taken[mailOf[t]] = 0 => estat[mailOf[t]] = "SENDING"
      BY <2>2 DEF Held
    <3>4. RowFrame(mailOf[t])
      BY <2>1, <3>1
    <3> QED
      BY <3>1, <3>2, <3>3, <3>4 DEF RowFrame, Overwritten, UserMoves
  <2> QED
    BY <2>1, <2>2 DEF Held
<1>3. CASE Restart
  BY <1>3 DEF Restart, Held, HoldPc
<1> QED
  BY <1>1, <1>2, <1>3, Cases

-----------------------------------------------------------------------------
(* A message is marked sent, or waits for quit(), only after the server    *)
(* accepted it.                                                            *)
LEMMA EvidenceStep ==
  TypeOK /\ Carried /\ Pending /\ Evidence /\ [Next]_vars => Evidence'
<1> SUFFICES ASSUME TypeOK, Carried, Pending, Evidence, [Next]_vars PROVE Evidence'
  OBVIOUS
<1>0. /\ pc \in [Tasks -> AwaitPc \cup BusyPc]
      /\ mailOf \in [Tasks -> Emails \cup {None}]
      /\ estat \in [Emails -> EmailStatus]
      /\ delivered \in [Emails -> Nat]
  BY DEF TypeOK
<1> DEFINE Quiet == /\ delivered' = delivered
                    /\ \A e \in Emails : estat'[e] = "SENT" => estat[e] = "SENT"
                    /\ \A t \in Tasks : pc'[t] = "quit" =>
                         pc[t] = "quit" /\ mailOf'[t] = mailOf[t]
<1>1. ASSUME Quiet PROVE Evidence'
  BY <1>1 DEF Evidence, Carried, HoldPc
<1>2. ASSUME NEW t \in Tasks, TaskStep(t) PROVE Evidence'
  <2>1. CASE Start(t) \/ Check(t) \/ Drained(t) \/ NoCredential(t)
    <3>1. Quiet
      BY <1>0, <2>1 DEF Start, Check, Drained, NoCredential, Return, Loop,
                       SelectedDrafts, QueuedOf
    <3> QED
      BY <1>1, <3>1
  <2>2. CASE Claim(t) \/ Pick(t) \/ SlotGranted(t)
    <3>1. Quiet
      BY <1>0, <2>2 DEF Claim, Pick, SlotGranted, dbVars, histVars
    <3> QED
      BY <1>1, <3>1
  <2>3. CASE Accept(t)
    <3>1. /\ mailOf[t] \in Emails /\ mailOf' = mailOf /\ estat' = estat
          /\ pc' = [pc EXCEPT ![t] = "quit"]
          /\ delivered' = [delivered EXCEPT ![mailOf[t]] = @ + 1]
      BY <2>3 DEF Accept, dbVars, Carried, HoldPc
    <3>2. \A e \in Emails : delivered[e] > 0 => delivered'[e] > 0
      BY <1>0, <3>1
    <3>3. delivered'[mailOf[t]] > 0
      BY <1>0, <3>1
    <3> QED
      BY <1>0, <3>1, <3>2, <3>3 DEF Evidence, Carried, HoldPc
  <2>4. CASE MarkSent(t)
    BY <1>0, <2>4 DEF MarkSent, SetEmail, Loop, histVars, Evidence, Carried, HoldPc
  <2>5. CASE AuthFails(t) \/ HardBounce(t) \/ TemporaryFailure(t) \/ PermanentFailure(t)
    <3>1. Quiet
      BY <1>0, <2>5 DEF AuthFails, HardBounce, TemporaryFailure,
                       PermanentFailure, SetEmail, Loop, histVars
    <3> QED
      BY <1>1, <3>1
  <2> QED
    BY <1>2, <2>1, <2>2, <2>3, <2>4, <2>5 DEF TaskStep
<1>3. CASE Outside
  <2>1. Framed
    BY <1>3, OutsideFrame
  <2>2. \A e \in Emails : estat'[e] = "SENT" => estat[e] = "SENT"
    BY <1>0, <2>1 DEF Framed, RowFrame, Overwritten, UserMoves
  <2>3. Quiet
    BY <2>1, <2>2 DEF Framed, Spawned
  <2> QED
    BY <1>1, <2>3
<1>4. CASE Restart
  <2>1. Quiet
    BY <1>0, <1>4 DEF Restart, Requeue
  <2> QED
    BY <1>1, <2>1
<1> QED
  BY <1>2, <1>3, <1>4, Cases

-----------------------------------------------------------------------------
(* The kill switch: after a late delivery a coroutine marks the row and    *)
(* comes back to the status check, unless the campaign is set going again. *)
LEMMA LateStep ==
  TypeOK /\ Carried /\ Pending /\ LateReturns /\ [Next]_vars => LateReturns'
<1> SUFFICES ASSUME TypeOK, Carried, Pending, LateReturns, [Next]_vars
             PROVE  LateReturns'
  OBVIOUS
<1>0. /\ pc \in [Tasks -> AwaitPc \cup BusyPc]
      /\ campOf \in [Tasks -> Campaigns \cup {None}]
      /\ campaign \in [Campaigns -> CampaignStatus]
      /\ late \subseteq Tasks
  BY DEF TypeOK
<1> DEFINE Same == /\ UNCHANGED <<campaign, late>>
                   /\ \A t \in late : pc'[t] = pc[t] /\ campOf'[t] = campOf[t]
<1>1. ASSUME Same PROVE LateReturns'
  BY <1>1 DEF LateReturns
<1>2. ASSUME NEW t \in Tasks, TaskStep(t) PROVE LateReturns'
  <2>1. CASE Start(t)
    BY <1>0, <2>1 DEF Start, SetCampaign, LateAfter, TasksOf, Return, Loop,
                     LateReturns, Killed, Carried
  <2>2. CASE Check(t)
    BY <1>0, <2>2 DEF Check, MayContinue, Return, LateReturns
  <2>3. CASE Claim(t) \/ Pick(t) \/ SlotGranted(t)
    <3>1. Same
      BY <1>0, <2>3 DEF Claim, Pick, SlotGranted, dbVars, histVars, LateReturns
    <3> QED
      BY <1>1, <3>1
  <2>4. CASE Drained(t) \/ NoCredential(t)
    BY <1>0, <2>4 DEF Drained, NoCredential, SetCampaign, LateAfter, TasksOf,
                     Return, LateReturns, Killed, Carried
  <2>5. CASE Accept(t)
    BY <1>0, <2>5 DEF Accept, dbVars, LateReturns
  <2>6. CASE \/ MarkSent(t) \/ AuthFails(t) \/ HardBounce(t)
             \/ TemporaryFailure(t) \/ PermanentFailure(t)
    <3>1. Loop(t) /\ UNCHANGED <<campaign, late>>
      BY <2>6 DEF MarkSent, AuthFails, HardBounce, TemporaryFailure,
                  PermanentFailure, histVars
    <3> QED
      BY <1>0, <3>1 DEF Loop, LateReturns
  <2> QED
    BY <1>2, <2>1, <2>2, <2>3, <2>4, <2>5, <2>6 DEF TaskStep
<1>3. CASE Outside
  <2>1. \A t \in Tasks : \/ pc'[t] = pc[t] /\ campOf'[t] = campOf[t]
                         \/ pc[t] = "idle" /\ pc'[t] = "start"
    BY <1>3, OutsideFrame DEF Framed, Spawned
  <2>2. ASSUME NEW c \in Campaigns, NEW s \in CampaignStatus, SetCampaign(c, s),
               late' = LateAfter(c, s)
        PROVE  LateReturns'
    <3>1. \A t \in late : pc'[t] = pc[t] /\ campOf'[t] = campOf[t]
      BY <1>0, <2>1 DEF LateReturns
    <3> QED
      BY <1>0, <2>2, <3>1 DEF SetCampaign, LateAfter, TasksOf, LateReturns, Killed
  <2>3. CASE UNCHANGED <<campaign, late>>
    <3>1. Same
      BY <1>0, <2>1, <2>3 DEF LateReturns
    <3> QED
      BY <1>1, <3>1
  <2>4. \/ \E c \in Campaigns, s \in CampaignStatus :
               SetCampaign(c, s) /\ late' = LateAfter(c, s)
        \/ UNCHANGED <<campaign, late>>
    <3>1. CASE UserStep
      BY <3>1 DEF UserStep, DispatchCampaign, UpdateCampaignStatus,
                UpdateCampaignCredentials, BulkToggleEmailSelection,
                AddEmailsToCampaign, SelectionRead, DeleteCampaignEmail,
                TestCredential, histVars, dbVars, CampaignStatus
    <3>2. CASE Environment /\ ~Restart
      BY <3>2 DEF Environment, RecoverStuckSending, SweepRead, SweepWrite, Sigterm,
                Midnight, Poll, SelectionWrite, ThresholdPasses, CooldownExpires,
                dbVars, histVars
    <3> QED
      BY <1>3, <3>1, <3>2 DEF Outside, vars, dbVars, histVars
  <2> QED
    BY <2>2, <2>3, <2>4
<1>4. CASE Restart
  BY <1>4 DEF Restart, LateReturns
<1> QED
  BY <1>2, <1>3, <1>4, Cases

-----------------------------------------------------------------------------
(* The account of deliveries: tickets are what may still lead to one.      *)
LEMMA Account ==
  ASSUME NEW T, NEW U, IsFiniteSet(T), NEW d \in Nat, NEW b \in Nat,
         NEW d2 \in Nat, NEW b2 \in Nat, d + Cardinality(T) <= b, NEW x, NEW y,
         \/ U \subseteq T /\ d2 = d /\ b2 >= b
         \/ U \subseteq T \cup {x} /\ d2 = d /\ b2 >= b + 1
         \/ x \in T /\ U \subseteq (T \ {x}) \cup {y} /\ d2 = d /\ b2 >= b
         \/ x \in T /\ U \subseteq T \ {x} /\ d2 = d + 1 /\ b2 >= b
  PROVE  IsFiniteSet(U) /\ d2 + Cardinality(U) <= b2
<1>0. Cardinality(T) \in Nat
  BY FS_CardinalityType
<1>a. ASSUME NEW W, IsFiniteSet(W), U \subseteq W
      PROVE  IsFiniteSet(U) /\ Cardinality(U) \in Nat /\ Cardinality(U) <= Cardinality(W)
             /\ Cardinality(W) \in Nat
  BY <1>a, FS_Subset, FS_CardinalityType
<1>b. ASSUME NEW W, IsFiniteSet(W), NEW z
      PROVE  /\ IsFiniteSet(W \cup {z})
             /\ Cardinality(W \cup {z}) <= Cardinality(W) + 1
  <2>1. /\ IsFiniteSet(W \cup {z})
        /\ Cardinality(W \cup {z}) = IF z \in W THEN Cardinality(W) ELSE Cardinality(W) + 1
    BY <1>b, FS_AddElement, Zenon
  <2>2. Cardinality(W) \in Nat
    BY <1>b, FS_CardinalityType
  <2> QED
    BY <2>1, <2>2
<1>c. ASSUME x \in T
      PROVE  IsFiniteSet(T \ {x}) /\ Cardinality(T \ {x}) = Cardinality(T) - 1
  BY <1>c, FS_RemoveElement
<1>1. CASE U \subseteq T /\ d2 = d /\ b2 >= b
  BY <1>0, <1>1, <1>a
<1>2. CASE U \subseteq T \cup {x} /\ d2 = d /\ b2 >= b + 1
  <2>1. IsFiniteSet(T \cup {x}) /\ Cardinality(T \cup {x}) <= Cardinality(T) + 1
    BY <1>b
  <2>2. /\ IsFiniteSet(U) /\ Cardinality(U) \in Nat
        /\ Cardinality(U) <= Cardinality(T \cup {x})
        /\ Cardinality(T \cup {x}) \in Nat
    BY <1>2, <2>1, <1>a
  <2> QED
    BY <1>0, <1>2, <2>1, <2>2
<1>3. CASE x \in T /\ U \subseteq (T \ {x}) \cup {y} /\ d2 = d /\ b2 >= b
  <2>1. IsFiniteSet(T \ {x}) /\ Cardinality(T \ {x}) = Cardinality(T) - 1
    BY <1>3, <1>c
  <2>2. /\ IsFiniteSet((T \ {x}) \cup {y})
        /\ Cardinality((T \ {x}) \cup {y}) <= Cardinality(T \ {x}) + 1
    BY <2>1, <1>b
  <2>3. /\ IsFiniteSet(U) /\ Cardinality(U) \in Nat
        /\ Cardinality(U) <= Cardinality((T \ {x}) \cup {y})
        /\ Cardinality((T \ {x}) \cup {y}) \in Nat
    BY <1>3, <2>2, <1>a
  <2> QED
    BY <1>0, <1>3, <2>1, <2>2, <2>3
<1>4. CASE x \in T /\ U \subseteq T \ {x} /\ d2 = d + 1 /\ b2 >= b
  <2>1. IsFiniteSet(T \ {x}) /\ Cardinality(T \ {x}) = Cardinality(T) - 1
    BY <1>4, <1>c
  <2>2. /\ IsFiniteSet(U) /\ Cardinality(U) \in Nat
        /\ Cardinality(U) <= Cardinality(T \ {x})
    BY <1>4, <2>1, <1>a
  <2> QED
    BY <1>0, <1>4, <2>1, <2>2
<1> QED
  BY <1>1, <1>2, <1>3, <1>4

(* The same for one row. *)
PaidRow(e) ==
  IsFiniteSet(Tickets(e)) /\ delivered[e] + Cardinality(Tickets(e)) <= Budget(e)

LEMMA RowAccount ==
  ASSUME TypeOK, TypeOK', Paid, NEW e \in Emails, NEW x, NEW y,
         \/ /\ Tickets(e)' \subseteq Tickets(e)
            /\ delivered'[e] = delivered[e] /\ Budget(e)' >= Budget(e)
         \/ /\ Tickets(e)' \subseteq Tickets(e) \cup {x}
            /\ delivered'[e] = delivered[e] /\ Budget(e)' >= Budget(e) + 1
         \/ /\ x \in Tickets(e) /\ Tickets(e)' \subseteq (Tickets(e) \ {x}) \cup {y}
            /\ delivered'[e] = delivered[e] /\ Budget(e)' >= Budget(e)
         \/ /\ x \in Tickets(e) /\ Tickets(e)' \subseteq Tickets(e) \ {x}
            /\ delivered'[e] = delivered[e] + 1 /\ Budget(e)' >= Budget(e)
  PROVE  PaidRow(e)'
<1>1. /\ IsFiniteSet(Tickets(e)) /\ delivered[e] + Cardinality(Tickets(e)) <= Budget(e)
  BY DEF Paid
<1>2. /\ delivered[e] \in Nat /\ delivered'[e] \in Nat
      /\ Budget(e) \in Nat /\ Budget(e)' \in Nat
  BY DispatchAssumption DEF TypeOK, Budget
<1>3. IsFiniteSet(Tickets(e)') /\ delivered'[e] + Cardinality(Tickets(e)') <= Budget(e)'
  <2> DEFINE T == Tickets(e)  U == Tickets(e)'
             d == delivered[e]  d2 == delivered'[e]
             b == Budget(e)  b2 == Budget(e)'
  <2>1. /\ IsFiniteSet(T) /\ d + Cardinality(T) <= b
        /\ d \in Nat /\ d2 \in Nat /\ b \in Nat /\ b2 \in Nat
    BY <1>1, <1>2
  <2>2. \/ U \subseteq T /\ d2 = d /\ b2 >= b
        \/ U \subseteq T \cup {x} /\ d2 = d /\ b2 >= b + 1
        \/ x \in T /\ U \subseteq (T \ {x}) \cup {y} /\ d2 = d /\ b2 >= b
        \/ x \in T /\ U \subseteq T \ {x} /\ d2 = d + 1 /\ b2 >= b
    OBVIOUS
  <2> HIDE DEF T, U, d, d2, b, b2
  <2>3. IsFiniteSet(U) /\ d2 + Cardinality(U) <= b2
    BY <2>1, <2>2, Account
  <2> QED
    BY <2>3 DEF U, d2, b2
<1> QED
  BY <1>3 DEF PaidRow

(* A step that leaves the holders of a row alone and does not reopen it    *)
(* keeps its tickets.                                                      *)
LEMMA SameTickets ==
  ASSUME TypeOK, TypeOK', Paid, NEW e \in Emails,
         Senders(e)' \subseteq Senders(e),
         Open(e)' => Open(e),
         delivered'[e] = delivered[e],
         restarts' = restarts, taken'[e] = taken[e], resent'[e] = resent[e]
  PROVE  PaidRow(e)'
<1>1. Tickets(e)' \subseteq Tickets(e)
  BY DEF Tickets
<1>2. Budget(e)' >= Budget(e)
  BY DispatchAssumption DEF TypeOK, Budget
<1> QED
  BY <1>1, <1>2, RowAccount

(* A coroutine that lets go of a row it carried may hand its ticket to the *)
(* row.                                                                    *)
LEMMA HandBack ==
  ASSUME TypeOK, TypeOK', Paid, NEW t \in Tasks, NEW e \in Emails,
         pc[t] \in {"pick", "slot", "smtp"}, mailOf[t] = e,
         Senders(e)' \subseteq Senders(e) \ {t},
         UNCHANGED <<delivered, restarts, taken, resent>>
  PROVE  PaidRow(e)'
<1>1. t \in Tickets(e) /\ t # None
  BY DispatchAssumption DEF Tickets, Senders
<1>2. Tickets(e)' \subseteq (Tickets(e) \ {t}) \cup {None}
  BY <1>1 DEF Tickets
<1>3. Budget(e)' >= Budget(e)
  BY DispatchAssumption DEF TypeOK, Budget
<1> QED
  BY <1>1, <1>2, <1>3, RowAccount

(* The rows a coroutine does not hold do not notice what it does, unless   *)
(* its step writes them.                                                   *)
LEMMA OtherRows ==
  ASSUME TypeOK, TypeOK', Paid, NEW t \in Tasks, NEW e \in Emails,
         ~Holds(t, e), ~Holds(t, e)',
         \A u \in Tasks \ {t} : pc'[u] = pc[u] /\ mailOf'[u] = mailOf[u],
         \/ estat'[e] = estat[e]
         \/ estat[e] = "DRAFT" /\ estat'[e] = "QUEUED"
         \/ estat'[e] = "FAILED",
         delivered'[e] = delivered[e],
         restarts' = restarts, taken'[e] = taken[e], resent'[e] = resent[e]
  PROVE  PaidRow(e)'
<1>1. Senders(e)' \subseteq Senders(e)
  BY DEF Senders, Holds, HoldPc
<1>2. \A u \in Tasks : Holds(u, e)' <=> Holds(u, e)
  BY DEF Holds
<1>3. Open(e)' => Open(e)
  BY <1>2 DEF Open
<1> QED
  BY <1>1, <1>3, SameTickets


(* One step of a coroutine, for one row. *)
LEMMA PaidTask ==
  ASSUME TypeOK, TypeOK', Carried, Paid, NEW t \in Tasks, TaskStep(t), NEW e \in Emails
  PROVE  PaidRow(e)'
<1>0. /\ pc \in [Tasks -> AwaitPc \cup BusyPc]
      /\ mailOf \in [Tasks -> Emails \cup {None}]
      /\ estat \in [Emails -> EmailStatus]
      /\ delivered \in [Emails -> Nat] /\ resent \in [Emails -> Nat]
      /\ restarts \in Nat /\ taken \in [Emails -> Nat]
      /\ None \notin Tasks
  BY DispatchAssumption DEF TypeOK
<1> USE DEF HoldPc
<1>1. CASE Start(t) \/ Check(t) \/ Drained(t)
  <2>1. /\ ~Holds(t, e) /\ ~Holds(t, e)'
        /\ \A u \in Tasks \ {t} : pc'[u] = pc[u] /\ mailOf'[u] = mailOf[u]
    BY <1>0, <1>1 DEF Start, Check, Drained, Return, Loop, Holds
  <2>2. \/ estat'[e] = estat[e]
        \/ estat[e] = "DRAFT" /\ estat'[e] = "QUEUED"
        \/ estat'[e] = "FAILED"
    BY <1>0, <1>1 DEF Start, Check, Drained, SelectedDrafts, DraftsOf
  <2>3. UNCHANGED <<delivered, restarts, taken, resent>>
    BY <1>1 DEF Start, Check, Drained, againVars
  <2> QED
    BY <2>1, <2>2, <2>3, OtherRows
<1>2. CASE Claim(t)
  <2>1. PICK c \in QueuedOf(campOf[t]) :
          /\ estat' = [estat EXCEPT ![c] = "SENDING"]
          /\ mailOf' = [mailOf EXCEPT ![t] = c]
    BY <1>2 DEF Claim
  <2>2. /\ pc[t] = "claim" /\ pc' = [pc EXCEPT ![t] = "pick"]
        /\ UNCHANGED <<delivered, restarts, taken, resent>>
        /\ c \in Emails /\ estat[c] = "QUEUED"
    BY <1>2 DEF Claim, histVars, againVars, QueuedOf, EmailsOf
  <2>3. ASSUME e # c PROVE PaidRow(e)'
    <3>1. /\ ~Holds(t, e) /\ ~Holds(t, e)' /\ estat'[e] = estat[e]
          /\ \A u \in Tasks \ {t} : pc'[u] = pc[u] /\ mailOf'[u] = mailOf[u]
      BY <1>0, <2>1, <2>2, <2>3 DEF Holds
    <3> QED
      BY <2>2, <3>1, OtherRows
  <2>4. ASSUME e = c PROVE PaidRow(e)'
    <3>1. None \in Tickets(e)
      BY <2>2, <2>4 DEF Tickets, Open
    <3>2. Senders(e)' \subseteq Senders(e) \cup {t}
      BY <1>0, <2>1, <2>2 DEF Senders
    <3>3. ~Open(e)'
      BY <1>0, <2>1, <2>2, <2>4 DEF Open, Holds
    <3>4. Tickets(e)' \subseteq (Tickets(e) \ {None}) \cup {t}
      BY <1>0, <3>2, <3>3 DEF Tickets, Senders
    <3>5. delivered'[e] = delivered[e] /\ Budget(e)' >= Budget(e)
      BY <1>0, <2>2 DEF Budget
    <3> QED
      BY <3>1, <3>4, <3>5, RowAccount
  <2> QED
    BY <2>3, <2>4
<1>3. CASE Pick(t) \/ SlotGranted(t)
  <2>1. /\ UNCHANGED <<estat, mailOf, delivered, restarts, taken, resent>>
        /\ pc[t] \in {"pick", "slot"}
        /\ \E p \in {"slot", "smtp"} : pc' = [pc EXCEPT ![t] = p]
    BY <1>3 DEF Pick, SlotGranted, dbVars, histVars, againVars
  <2>2. Senders(e)' \subseteq Senders(e) /\ \A u \in Tasks : Holds(u, e)' <=> Holds(u, e)
    BY <1>0, <2>1 DEF Senders, Holds
  <2>3. Open(e)' => Open(e)
    BY <2>1, <2>2 DEF Open
  <2> QED
    BY <2>1, <2>2, <2>3, SameTickets
<1>4. CASE Accept(t)
  <2>1. /\ UNCHANGED <<estat, mailOf, restarts, taken, resent>>
        /\ pc[t] = "smtp" /\ pc' = [pc EXCEPT ![t] = "quit"]
        /\ delivered' = [delivered EXCEPT ![mailOf[t]] = @ + 1]
        /\ mailOf[t] \in Emails
    BY <1>4 DEF Accept, dbVars, againVars, Carried
  <2>2. /\ Senders(e)' \subseteq Senders(e) \ {t}
        /\ \A u \in Tasks : Holds(u, e)' <=> Holds(u, e)
    BY <1>0, <2>1 DEF Senders, Holds
  <2>3. Open(e)' => Open(e)
    BY <2>1, <2>2 DEF Open
  <2>4. CASE mailOf[t] # e
    BY <1>0, <2>1, <2>2, <2>3, <2>4, SameTickets
  <2>5. CASE mailOf[t] = e
    <3>1. t \in Tickets(e) /\ Tickets(e)' \subseteq Tickets(e) \ {t}
      BY <1>0, <2>1, <2>2, <2>3, <2>5 DEF Tickets, Senders
    <3>2. delivered'[e] = delivered[e] + 1 /\ Budget(e)' >= Budget(e)
      BY <1>0, <2>1, <2>5 DEF Budget
    <3> QED
      BY <3>1, <3>2, RowAccount
  <2> QED
    BY <2>4, <2>5
<1>5. CASE NoCredential(t)
  <2>1. /\ UNCHANGED <<estat, delivered, restarts, taken, resent>>
        /\ pc[t] = "pick" /\ Return(t)
    BY <1>5 DEF NoCredential, againVars
  <2>2. Senders(e)' \subseteq Senders(e) \ {t}
    BY <1>0, <2>1 DEF Senders, Return
  <2>3. CASE mailOf[t] = e
    BY <2>1, <2>2, <2>3, HandBack
  <2>4. CASE mailOf[t] # e
    <3>1. /\ ~Holds(t, e) /\ ~Holds(t, e)'
          /\ \A u \in Tasks \ {t} : pc'[u] = pc[u] /\ mailOf'[u] = mailOf[u]
      BY <1>0, <2>1, <2>4 DEF Holds, Return
    <3> QED
      BY <2>1, <3>1, OtherRows
  <2> QED
    BY <2>3, <2>4
<1>6. CASE \/ MarkSent(t) \/ AuthFails(t) \/ HardBounce(t)
           \/ TemporaryFailure(t) \/ PermanentFailure(t)
  <2>1. /\ pc[t] \in {"smtp", "quit"} /\ mailOf[t] \in Emails
        /\ Loop(t) /\ UNCHANGED <<delivered, restarts, taken>>
    BY <1>6 DEF MarkSent, AuthFails, HardBounce, TemporaryFailure, PermanentFailure,
         Failing, histVars, againVars, Carried
  <2>2. /\ \A u \in Tasks \ {t} : pc'[u] = pc[u] /\ mailOf'[u] = mailOf[u]
        /\ pc'[t] = "check"
    BY <1>0, <2>1 DEF Loop
  <2>3. \/ resent' = resent
        \/ TemporaryFailure(t) /\ pc[t] = "quit"
    BY <1>0, <1>6 DEF MarkSent, AuthFails, HardBounce, TemporaryFailure,
         PermanentFailure, histVars, againVars
  <2>4. \E s \in {"SENT", "QUEUED", "FAILED"} :
          /\ SetEmail(mailOf[t], s)
          /\ s = "QUEUED" => AuthFails(t) \/ TemporaryFailure(t)
    BY <1>6 DEF MarkSent, AuthFails, HardBounce, TemporaryFailure, PermanentFailure
  <2>5. Senders(e)' \subseteq Senders(e) \ {t}
    BY <1>0, <2>2 DEF Senders
  <2>6. CASE mailOf[t] # e
    <3>1. /\ ~Holds(t, e) /\ ~Holds(t, e)' /\ estat'[e] = estat[e]
      BY <1>0, <2>1, <2>2, <2>4, <2>6 DEF Holds, SetEmail
    <3>2. resent'[e] = resent[e]
      BY <1>0, <2>1, <2>3, <2>6 DEF TemporaryFailure
    <3> QED
      BY <2>1, <2>2, <3>1, <3>2, OtherRows
  <2>7. CASE mailOf[t] = e /\ pc[t] = "smtp"
    <3>1. resent' = resent
      BY <2>3, <2>7
    <3> QED
      BY <2>1, <2>5, <2>7, <3>1, HandBack
  <2>8. CASE mailOf[t] = e /\ pc[t] = "quit"
    <3>1. CASE TemporaryFailure(t)
      <4>1. resent'[e] = resent[e] + 1
        BY <1>0, <2>8, <3>1 DEF TemporaryFailure
      <4>2. Tickets(e)' \subseteq Tickets(e) \cup {None}
        BY <2>5 DEF Tickets
      <4>3. delivered'[e] = delivered[e] /\ Budget(e)' >= Budget(e) + 1
        BY <1>0, <2>1, <4>1 DEF Budget
      <4> QED
        BY <4>2, <4>3, RowAccount
    <3>2. CASE ~TemporaryFailure(t)
      <4>1. estat'[e] \in {"SENT", "FAILED", "DELETED"}
        BY <1>0, <2>4, <2>8, <3>2 DEF SetEmail, AuthFails
      <4>2. ~Open(e)' /\ resent' = resent
        BY <2>3, <3>2, <4>1 DEF Open
      <4> QED
        BY <2>1, <2>5, <4>2, SameTickets
    <3> QED
      BY <3>1, <3>2
  <2> QED
    BY <2>1, <2>6, <2>7, <2>8
<1> QED
  BY <1>1, <1>2, <1>3, <1>4, <1>5, <1>6 DEF TaskStep

(* Every delivery is paid for: the invariant behind DuplicatesHaveACause. *)
LEMMA PaidStep ==
  TypeOK /\ TypeOK' /\ Carried /\ Pending /\ Paid /\ [Next]_vars => Paid'
<1> SUFFICES ASSUME TypeOK, TypeOK', Carried, Pending, Paid, [Next]_vars,
                    NEW e \in Emails
             PROVE  PaidRow(e)'
  BY DEF Paid, PaidRow
<1>0. /\ pc \in [Tasks -> AwaitPc \cup BusyPc]
      /\ delivered \in [Emails -> Nat] /\ resent \in [Emails -> Nat]
      /\ restarts \in Nat /\ taken \in [Emails -> Nat]
      /\ estat \in [Emails -> EmailStatus]
  BY DispatchAssumption DEF TypeOK
<1>1. ASSUME NEW t \in Tasks, TaskStep(t) PROVE PaidRow(e)'
  BY <1>1, PaidTask
<1>2. CASE Outside
  <2>1. /\ UNCHANGED <<restarts, delivered, resent>> /\ RowFrame(e) /\ mailOf' = mailOf
        /\ \A t \in Tasks : \/ pc'[t] = pc[t]
                            \/ pc[t] = "idle" /\ pc'[t] = "start"
    BY <1>2, OutsideFrame DEF Framed, Spawned
  <2>2. /\ Senders(e)' \subseteq Senders(e)
        /\ \A u \in Tasks : Holds(u, e)' <=> Holds(u, e)
    BY <2>1 DEF Senders, Holds, HoldPc
  <2>3. CASE taken'[e] = taken[e] /\ (Open(e)' => Open(e))
    BY <2>1, <2>2, <2>3, SameTickets
  <2>4. CASE taken'[e] = taken[e] + 1
    <3>1. Tickets(e)' \subseteq Tickets(e) \cup {None}
      BY <2>2 DEF Tickets
    <3>2. delivered'[e] = delivered[e] /\ Budget(e)' >= Budget(e) + 1
      BY <1>0, <2>1, <2>4 DEF Budget
    <3> QED
      BY <3>1, <3>2, RowAccount
  <2>5. \/ taken'[e] = taken[e] /\ (Open(e)' => Open(e))
        \/ taken'[e] = taken[e] + 1
    <3>1. CASE estat'[e] = estat[e] /\ taken'[e] = taken[e]
      BY <2>2, <3>1 DEF Open
    <3>2. CASE <<estat[e], estat'[e]>> \in UserMoves /\ taken'[e] = taken[e]
      BY <3>2 DEF Open, UserMoves
    <3>3. CASE Overwritten(e)
      <4>1. e \notin Reopened => Open(e)
        BY <3>3 DEF Overwritten, Reopened, Open
      <4> QED
        BY <3>3, <4>1 DEF Overwritten
    <3> QED
      BY <2>1, <3>1, <3>2, <3>3 DEF RowFrame
  <2> QED
    BY <2>3, <2>4, <2>5
<1>3. CASE Restart
  <2>1. /\ restarts' = restarts + 1 /\ UNCHANGED <<delivered, taken, resent>>
        /\ pc' = [t \in Tasks |-> "idle"]
    BY <1>3 DEF Restart, againVars
  <2>2. Tickets(e)' \subseteq Tickets(e) \cup {None}
    BY <2>1 DEF Tickets, Senders
  <2>3. delivered'[e] = delivered[e] /\ Budget(e)' >= Budget(e) + 1
    BY <1>0, <2>1 DEF Budget
  <2> QED
    BY <2>2, <2>3, RowAccount
<1> QED
  BY <1>1, <1>2, <1>3, Cases

-----------------------------------------------------------------------------
(* Queueing, requeueing and recovery only ever queue a selected row, and   *)
(* deselecting a queued row takes it out of the queue; a write that comes  *)
(* too late for that leaves its mark in taken or crossed.                  *)
LEMMA SelectedStep ==
  TypeOK /\ Carried /\ Held /\ Pending /\ QueuedIsSelected /\ [Next]_vars
    => QueuedIsSelected'
<1> SUFFICES ASSUME TypeOK, Carried, Held, Pending, QueuedIsSelected, [Next]_vars
             PROVE  QueuedIsSelected'
  OBVIOUS
<1>0. /\ estat \in [Emails -> EmailStatus] /\ selected \subseteq Emails
      /\ taken \in [Emails -> Nat] /\ edit \subseteq Edits /\ sweep \subseteq Emails
  BY DEF TypeOK
<1> DEFINE Again == {"QUEUED", "SENDING"}
           Quiet == /\ UNCHANGED <<selected, taken, crossed>>
                    /\ \A e \in Emails \ Contested : estat'[e] \in Again => estat[e] \in Again
<1>1. ASSUME Quiet PROVE QueuedIsSelected'
  BY <1>1 DEF QueuedIsSelected, Contested
<1>2. ASSUME NEW t \in Tasks, TaskStep(t) PROVE QueuedIsSelected'
  <2>1. CASE Start(t)
    BY <1>0, <2>1 DEF Start, SelectedDrafts, QueuedIsSelected, Contested, againVars
  <2>2. CASE \/ Check(t) \/ Claim(t) \/ Drained(t) \/ Pick(t) \/ NoCredential(t)
             \/ SlotGranted(t) \/ Accept(t)
    <3>1. Quiet
      BY <1>0, <2>2 DEF Check, Claim, Drained, Pick, NoCredential, SlotGranted,
                       Accept, QueuedOf, dbVars, histVars, againVars
    <3> QED
      BY <1>1, <3>1
  <2>3. CASE \/ MarkSent(t) \/ AuthFails(t) \/ HardBounce(t)
             \/ TemporaryFailure(t) \/ PermanentFailure(t)
    <3>1. pc[t] \in HoldPc
      BY <2>3 DEF MarkSent, AuthFails, HardBounce, TemporaryFailure,
                  PermanentFailure, Failing, HoldPc
    <3>2. /\ mailOf[t] \in Emails
          /\ mailOf[t] \notin Contested => estat[mailOf[t]] = "SENDING"
      BY <1>0, <3>1 DEF Held, Carried, Contested
    <3>3. /\ UNCHANGED <<selected, taken, crossed>>
          /\ \E s : SetEmail(mailOf[t], s)
      BY <2>3 DEF MarkSent, AuthFails, HardBounce, TemporaryFailure, PermanentFailure,
           histVars, againVars
    <3>4. Quiet
      BY <1>0, <3>2, <3>3 DEF SetEmail
    <3> QED
      BY <1>1, <3>4
  <2> QED
    BY <1>2, <2>1, <2>2, <2>3 DEF TaskStep
<1>3. CASE UserStep
  <2>0. UNCHANGED <<taken, crossed>>
    BY <1>3 DEF UserStep, DispatchCampaign, UpdateCampaignStatus,
                UpdateCampaignCredentials, BulkToggleEmailSelection,
                AddEmailsToCampaign, SelectionRead, DeleteCampaignEmail,
                TestCredential, histVars, againVars
  <2>1. ASSUME NEW c \in Campaigns, NEW sel \in BOOLEAN,
               BulkToggleEmailSelection(c, sel)
        PROVE  QueuedIsSelected'
    BY <1>0, <2>0, <2>1 DEF BulkToggleEmailSelection, DraftsOf, QueuedOf, EmailsOf,
                     QueuedIsSelected, Contested
  <2>2. ASSUME NEW c \in Campaigns, NEW new \in (SUBSET EmailsOf(c)) \ {{}},
               NEW complete \in SUBSET new, AddEmailsToCampaign(c, new, complete)
        PROVE  QueuedIsSelected'
    BY <1>0, <2>0, <2>2 DEF AddEmailsToCampaign, QueuedIsSelected, Contested
  <2>3. CASE selected' = selected
    <3>1. \A e \in Emails : estat'[e] \in Again => estat[e] \in Again
      BY <1>0, <1>3, <2>0, UserFrame DEF Framed, RowFrame, Overwritten, UserMoves,
           Reopened
    <3> QED
      BY <1>1, <2>0, <2>3, <3>1
  <2>4. \/ selected' = selected
        \/ \E c \in Campaigns, sel \in BOOLEAN : BulkToggleEmailSelection(c, sel)
        \/ \E c \in Campaigns : \E new \in (SUBSET EmailsOf(c)) \ {{}} :
             \E complete \in SUBSET new : AddEmailsToCampaign(c, new, complete)
    BY <1>3 DEF UserStep, DispatchCampaign, UpdateCampaignStatus,
                UpdateCampaignCredentials, SelectionRead, DeleteCampaignEmail,
                TestCredential, dbVars
  <2> QED
    BY <2>1, <2>2, <2>3, <2>4
<1>4. ASSUME NEW rows \in SUBSET Emails, Requeue(rows), selected' = selected,
             crossed' = crossed,
             \/ TakenFrom(rows)
             \/ taken' = taken /\ rows = Stuck,
             \A e \in rows : estat[e] \in {"QUEUED", "SENDING", "SENT", "FAILED"}
      PROVE  QueuedIsSelected'
  <2> SUFFICES ASSUME NEW e \in Emails, e \notin Contested', estat'[e] \in Again
               PROVE  e \in selected'
    BY DEF QueuedIsSelected
  <2>1. e \notin Contested
    BY <1>0, <1>4 DEF Contested, TakenFrom
  <2>2. e \in rows => estat[e] \in Again
    BY <1>0, <1>4 DEF Contested, TakenFrom, Reopened, Stuck
  <2>3. e \notin rows => estat'[e] = estat[e]
    BY <1>0, <1>4 DEF Requeue
  <2> QED
    BY <1>4, <2>1, <2>2, <2>3 DEF QueuedIsSelected
<1>5. CASE RecoverStuckSending
  BY <1>4, <1>5 DEF RecoverStuckSending, Stuck
<1>6. CASE SweepWrite
  BY <1>0, <1>4, <1>6 DEF SweepWrite, Pending
<1>7. CASE Restart
  BY <1>4, <1>7 DEF Restart, Stuck, againVars
<1>8. CASE SelectionWrite
  <2>1. PICK w \in edit :
          /\ selected' = IF w.sel THEN selected \cup {w.row} ELSE selected \ {w.row}
          /\ IF w.seen = "QUEUED" /\ ~w.sel THEN SetEmail(w.row, "DRAFT")
             ELSE estat' = estat
          /\ crossed' = IF estat[w.row] = w.seen THEN crossed ELSE crossed \cup {w.row}
    BY <1>8 DEF SelectionWrite
  <2>2. w.row \in Emails /\ w.seen \in {"DRAFT", "QUEUED"}
    BY <1>0, <2>1 DEF Edits, Editable
  <2> SUFFICES ASSUME NEW e \in Emails, e \notin Contested', estat'[e] \in Again
               PROVE  e \in selected'
    BY DEF QueuedIsSelected
  <2>3. e \notin Contested
    <3>1. RowFrame(e) /\ crossed \subseteq crossed'
      BY <1>8, SelectionFrame DEF Framed
    <3>2. taken[e] \in Nat /\ (taken'[e] = taken[e] \/ taken'[e] = taken[e] + 1)
      BY <1>0, <3>1 DEF RowFrame, Overwritten
    <3> QED
      BY <3>1, <3>2 DEF Contested
  <2>4. estat'[e] = estat[e]
    BY <1>0, <2>1, <2>2 DEF SetEmail
  <2>5. e \in selected
    BY <2>3, <2>4 DEF QueuedIsSelected
  <2>6. CASE e = w.row /\ ~w.sel
    <3>1. w.seen # "QUEUED"
      BY <1>0, <2>1, <2>6 DEF SetEmail
    <3>2. estat[e] = "DRAFT"
      BY <2>1, <2>2, <2>6, <3>1 DEF Contested
    <3> QED
      BY <2>4, <3>2
  <2> QED
    BY <2>1, <2>5, <2>6
<1>9. CASE \/ SweepRead \/ Sigterm \/ Midnight \/ Poll \/ UNCHANGED vars
           \/ \E e \in Emails : ThresholdPasses(e)
           \/ \E k \in Credentials : CooldownExpires(k)
  <2>1. UNCHANGED <<selected, estat, taken, crossed>>
    BY <1>9 DEF SweepRead, Sigterm, Midnight, Poll, ThresholdPasses, CooldownExpires,
         vars, dbVars, histVars, againVars
  <2> QED
    BY <1>1, <2>1
<1> QED
  BY <1>2, <1>3, <1>5, <1>6, <1>7, <1>8, <1>9, Zenon DEF Next, Environment

-----------------------------------------------------------------------------
(* Every reachable state is well typed (all actions of Dispatch).          *)
THEOREM TypeCorrect == Spec => []TypeOK
<1>1. Init => TypeOK /\ Carried /\ Pending
  BY InitIInv DEF IInv
<1>2. TypeOK /\ Carried /\ Pending /\ [Next]_vars => (TypeOK /\ Carried /\ Pending)'
  BY TypeStep, CarriedStep, PendingStep
<1> QED
  BY <1>1, <1>2, PTL DEF Spec

(* A claimed row that was never taken from a live coroutine has one holder *)
(* and stays SENDING until that holder records an outcome                  *)
(* (claim_next_queued_email against recover_stuck_sending, the handlers    *)
(* and the other coroutines), however long the holder waits.               *)
THEOREM ClaimIsExclusive == Spec => []ClaimExclusive
<1>1. Init => TypeOK /\ Carried /\ Held /\ Pending
  BY InitIInv DEF IInv
<1>2. TypeOK /\ Carried /\ Held /\ Pending /\ [Next]_vars
        => (TypeOK /\ Carried /\ Held /\ Pending)'
  BY TypeStep, CarriedStep, HeldStep, PendingStep
<1>3. Held => ClaimExclusive
  BY DEF Held, ClaimExclusive, Holds
<1> QED
  BY <1>1, <1>2, <1>3, PTL DEF Spec

(* A message is delivered at most once more than the dispatching process   *)
(* was restarted, the row taken from a live coroutine, and a failure of    *)
(* quit() put an accepted row back in the queue: nothing else of           *)
(* run_campaign_dispatch, the handlers and the sweeps duplicates a mail.   *)
THEOREM DuplicatesArePaid == Spec => []DuplicatesHaveACause
<1>1. Init => TypeOK /\ Carried /\ Pending /\ Paid
  BY InitIInv DEF IInv
<1>2. TypeOK /\ Carried /\ Pending /\ Paid /\ [Next]_vars
        => (TypeOK /\ Carried /\ Pending /\ Paid)'
  BY TypeStep, CarriedStep, PendingStep, PaidStep
<1>3. TypeOK /\ Paid => DuplicatesHaveACause
  <2> SUFFICES ASSUME TypeOK, Paid, NEW e \in Emails
               PROVE  delivered[e] <= 1 + restarts + taken[e] + resent[e]
    BY DEF DuplicatesHaveACause
  <2>1. /\ Cardinality(Tickets(e)) \in Nat
        /\ delivered[e] + Cardinality(Tickets(e)) <= Budget(e)
    BY FS_CardinalityType DEF Paid
  <2>2. /\ delivered[e] \in Nat /\ restarts \in Nat /\ taken[e] \in Nat /\ resent[e] \in Nat
    BY DispatchAssumption DEF TypeOK
  <2> QED
    BY <2>1, <2>2 DEF Budget
<1> QED
  BY <1>1, <1>2, <1>3, PTL DEF Spec

(* Only selected rows are queued or in flight, but for the rows whose      *)
(* selection edit lost a race or whose claim was taken (set_email_selec-   *)
(* tion, queue_campaign_emails, requeue_email, recover_stuck_sending).     *)
THEOREM OnlySelectedQueued == Spec => []QueuedIsSelected
<1>1. Init => TypeOK /\ Carried /\ Held /\ Pending /\ QueuedIsSelected
  BY InitIInv DEF IInv, Init, QueuedIsSelected
<1>2. TypeOK /\ Carried /\ Held /\ Pending /\ QueuedIsSelected /\ [Next]_vars
        => (TypeOK /\ Carried /\ Held /\ Pending /\ QueuedIsSelected)'
  BY TypeStep, CarriedStep, HeldStep, PendingStep, SelectedStep
<1> QED
  BY <1>1, <1>2, PTL DEF Spec

(* The kill switch: between a PAUSE or CANCEL and the next status change a *)
(* coroutine delivers at most one message (the check at the head of        *)
(* run_campaign_dispatch's loop).                                          *)
THEOREM KillSwitchWorks == Spec => KillSwitch
<1>1. Init => TypeOK /\ Carried /\ Pending /\ LateReturns
  BY InitIInv DEF IInv
<1>2. TypeOK /\ Carried /\ Pending /\ LateReturns /\ [Next]_vars
        => (TypeOK /\ Carried /\ Pending /\ LateReturns)'
  BY TypeStep, CarriedStep, PendingStep, LateStep
<1>3. LateReturns => \A t \in late : ~(pc[t] = "smtp" /\ pc'[t] = "quit")
  BY DEF LateReturns
<1> QED
  BY <1>1, <1>2, <1>3, PTL DEF Spec, KillSwitch

-----------------------------------------------------------------------------
(* The poll loop's map: a task it starts is entered before the next await, *)
(* and an entry is dropped only when its task is done.                     *)
LEMMA TrackedStep ==
  ASSUME Mode = "external"
  PROVE  TypeOK /\ Tracked /\ [Next]_vars => Tracked'
<1> SUFFICES ASSUME TypeOK, Tracked, [Next]_vars PROVE Tracked'
  OBVIOUS
<1>0. /\ campOf \in [Tasks -> Campaigns \cup {None}]
      /\ polled \in [Campaigns -> Tasks \cup {None}]
      /\ None \notin Campaigns /\ None \notin Tasks
  BY DispatchAssumption DEF TypeOK
<1> DEFINE Quiet == /\ polled' = polled
                    /\ \A t \in Tasks : campOf'[t] \in {campOf[t], None}
<1>1. ASSUME Quiet PROVE Tracked'
  BY <1>1 DEF Tracked
<1>2. CASE Poll
  <2> DEFINE fresh == {c \in Campaigns : campaign[c] = "RUNNING" /\ ~Alive(c)}
  <2>1. PICK slot \in [fresh -> {t \in Tasks : pc[t] = "idle"}] :
          /\ \A c, d \in fresh : slot[c] = slot[d] => c = d
          /\ campOf' = [t \in Tasks |-> IF \E c \in fresh : slot[c] = t
                                        THEN CHOOSE c \in fresh : slot[c] = t
                                        ELSE campOf[t]]
          /\ polled' = [c \in Campaigns |-> IF c \in fresh THEN slot[c] ELSE Kept(c)]
    BY <1>2, Zenon DEF Poll
  <2> SUFFICES ASSUME NEW t \in Tasks, campOf'[t] # None
               PROVE  polled'[campOf'[t]] = t
    BY DEF Tracked
  <2>2. CASE \E c \in fresh : slot[c] = t
    <3>1. PICK c \in fresh : slot[c] = t
      BY <2>2
    <3>2. \A d \in fresh : slot[d] = t => d = c
      BY <2>1, <3>1
    <3>3. (CHOOSE d \in fresh : slot[d] = t) = c
      BY <3>1, <3>2
    <3>4. campOf'[t] = c
      BY <2>1, <2>2, <3>3
    <3> QED
      BY <2>1, <3>1, <3>4
  <2>3. CASE ~\E c \in fresh : slot[c] = t
    <3> DEFINE c == campOf[t]
    <3>1. campOf'[t] = c
      BY <2>1, <2>3
    <3>2. c \in Campaigns /\ polled[c] = t
      BY <1>0, <3>1 DEF Tracked
    <3>3. Alive(c) /\ c \notin fresh
      BY <1>0, <3>2 DEF Alive
    <3> QED
      BY <2>1, <3>1, <3>2, <3>3 DEF Kept
  <2> QED
    BY <2>2, <2>3
<1>3. ASSUME NEW t \in Tasks, TaskStep(t) PROVE Quiet
  BY <1>0, <1>3
  DEF TaskStep, Start, Check, Claim, Drained, Pick, NoCredential, SlotGranted,
      Accept, MarkSent, AuthFails, HardBounce, TemporaryFailure,
      PermanentFailure, Return, Loop, procVars
<1>4. CASE UserStep
  <2>1. campOf' = campOf /\ polled' = polled
    BY <1>4 DEF UserStep, DispatchCampaign, UpdateCampaignStatus,
                UpdateCampaignCredentials, BulkToggleEmailSelection,
                AddEmailsToCampaign, SelectionRead, DeleteCampaignEmail,
                TestCredential, taskVars, procVars
  <2> QED
    BY <1>1, <2>1
<1>5. CASE Restart
  BY <1>5 DEF Restart, Tracked
<1>6. CASE \/ RecoverStuckSending \/ SweepRead \/ SweepWrite \/ SelectionWrite
           \/ Sigterm \/ Midnight \/ UNCHANGED vars
           \/ \E e \in Emails : ThresholdPasses(e)
           \/ \E k \in Credentials : CooldownExpires(k)
  <2>1. campOf' = campOf /\ polled' = polled
    BY <1>6 DEF RecoverStuckSending, SweepRead, SweepWrite, SelectionWrite, Sigterm,
                Midnight, ThresholdPasses, CooldownExpires, vars, taskVars, procVars
  <2> QED
    BY <1>1, <2>1
<1> QED
  BY <1>1, <1>2, <1>3, <1>4, <1>5, <1>6, Zenon DEF Next, Environment

(* The dispatcher process never runs two coroutines for one campaign: the  *)
(* `active` map of _poll_loop names every task that is not done, though it *)
(* is only pruned after the tasks of an iteration are started.             *)
THEOREM OneCoroutinePerCampaign ==
  ASSUME Mode = "external"
  PROVE  Spec => []OneTaskPerCampaign
<1>1. Init => TypeOK /\ Carried /\ Pending /\ Tracked
  BY InitIInv DEF IInv, Init, Tracked
<1>2. TypeOK /\ Carried /\ Pending /\ Tracked /\ [Next]_vars
        => (TypeOK /\ Carried /\ Pending /\ Tracked)'
  BY TypeStep, CarriedStep, PendingStep, TrackedStep
<1>3. Tracked => OneTaskPerCampaign
  <2> SUFFICES ASSUME Tracked, NEW c \in Campaigns
               PROVE  Cardinality(TasksOf(c)) <= 1
    BY DEF OneTaskPerCampaign
  <2>1. CASE TasksOf(c) = {}
    BY <2>1, FS_EmptySet
  <2>2. CASE TasksOf(c) # {}
    <3>1. PICK t \in TasksOf(c) : TRUE
      BY <2>2
    <3>2. TasksOf(c) = {t}
      BY <3>1, DispatchAssumption DEF TasksOf, Tracked
    <3>3. Cardinality({t}) = 1
      BY FS_Singleton, Zenon
    <3> QED
      BY <3>2, <3>3
  <2> QED
    BY <2>1, <2>2
<1> QED
  BY <1>1, <1>2, <1>3, PTL DEF Spec

-----------------------------------------------------------------------------
(* Whatever neither records a row as sent nor puts a credential to use can *)
(* only lower what is sent and what is in flight.                          *)
LEMMA MeteredFrame ==
  ASSUME DispatchAssumption, IsFiniteSet(Tasks), TypeOK, Metered, DailyLimit > 0,
         \A k \in Credentials : /\ SentToday(k)' \subseteq SentToday(k)
                                /\ InFlight(k)' \subseteq InFlight(k)
  PROVE  Metered'
<1> SUFFICES ASSUME NEW k \in Credentials
             PROVE  /\ IsFiniteSet(SentToday(k)')
                    /\ Cardinality(SentToday(k)') + Cardinality(InFlight(k)')
                         <= DailyLimit + Cardinality(Tasks) - 1
  BY DEF Metered
<1>1. /\ IsFiniteSet(SentToday(k)) /\ IsFiniteSet(InFlight(k))
      /\ Cardinality(SentToday(k)) + Cardinality(InFlight(k))
           <= DailyLimit + Cardinality(Tasks) - 1
  BY FS_Subset DEF Metered, InFlight
<1>2. /\ IsFiniteSet(SentToday(k)') /\ Cardinality(SentToday(k)') <= Cardinality(SentToday(k))
  BY <1>1, FS_Subset
<1>3. /\ IsFiniteSet(InFlight(k)') /\ Cardinality(InFlight(k)') <= Cardinality(InFlight(k))
  BY <1>1, FS_Subset
<1>4. /\ Cardinality(SentToday(k)) \in Nat /\ Cardinality(SentToday(k)') \in Nat
      /\ Cardinality(InFlight(k)) \in Nat /\ Cardinality(InFlight(k)') \in Nat
      /\ Cardinality(Tasks) \in Nat /\ DailyLimit \in Nat
  BY <1>1, <1>2, <1>3, FS_CardinalityType DEF DispatchAssumption
<1> QED
  BY <1>1, <1>2, <1>3, <1>4

(* A coroutine comes to use a credential only below its limit; one that    *)
(* records a row as sent stops using it.                                   *)
LEMMA MeteredStep ==
  ASSUME IsFiniteSet(Tasks), DailyLimit > 0
  PROVE  TypeOK /\ Carried /\ Pending /\ Metered /\ [Next]_vars => Metered'
<1> SUFFICES ASSUME TypeOK, Carried, Pending, Metered, [Next]_vars PROVE Metered'
  OBVIOUS
<1>0. /\ pc \in [Tasks -> AwaitPc \cup BusyPc]
      /\ mailOf \in [Tasks -> Emails \cup {None}]
      /\ credOf \in [Tasks -> Credentials \cup {None}]
      /\ estat \in [Emails -> EmailStatus]
      /\ sentVia \in [Emails -> Credentials \cup {None}]
      /\ None \notin Credentials
  BY DispatchAssumption DEF TypeOK
<1> DEFINE Unsent == \A e \in Emails : estat'[e] = "SENT" =>
                       estat[e] = "SENT" /\ sentVia'[e] \in {sentVia[e], None}
           Unused == \A t \in Tasks : pc'[t] \in {"slot", "smtp", "quit"} =>
                       pc[t] \in {"slot", "smtp", "quit"} /\ credOf'[t] = credOf[t]
<1>1. ASSUME Unsent, Unused PROVE Metered'
  <2>1. \A k \in Credentials : SentToday(k)' \subseteq SentToday(k)
    BY <1>0, <1>1 DEF SentToday
  <2>2. \A k \in Credentials : InFlight(k)' \subseteq InFlight(k)
    BY <1>1 DEF InFlight
  <2> QED
    BY <2>1, <2>2, MeteredFrame, DispatchAssumption
<1>2. ASSUME NEW t \in Tasks, TaskStep(t) PROVE Metered'
  <2>1. CASE Start(t) \/ Check(t) \/ Claim(t) \/ Drained(t) \/ NoCredential(t)
             \/ SlotGranted(t) \/ Accept(t)
    <3>1. Unsent
      BY <1>0, <2>1 DEF Start, Check, Claim, Drained, NoCredential, SlotGranted,
                       Accept, dbVars
    <3>2. Unused
      BY <1>0, <2>1 DEF Start, Check, Claim, Drained, NoCredential, SlotGranted,
                       Accept, Return, Loop
    <3> QED
      BY <1>1, <3>1, <3>2
  <2>2. CASE Pick(t)
    <3>1. PICK j \in Pool(campOf[t]) : credOf' = [credOf EXCEPT ![t] = j]
      BY <2>2 DEF Pick
    <3>2. Cardinality(SentToday(j)) < DailyLimit
      BY <3>1 DEF Pool, UnderLimit
    <3>3. \A k \in Credentials : SentToday(k)' = SentToday(k)
      BY <2>2 DEF Pick, dbVars, SentToday
    <3>4. \A k \in Credentials \ {j} : InFlight(k)' \subseteq InFlight(k)
      BY <1>0, <2>2, <3>1 DEF Pick, InFlight
    <3> SUFFICES ASSUME NEW k \in Credentials
                 PROVE  /\ IsFiniteSet(SentToday(k)')
                        /\ Cardinality(SentToday(k)') + Cardinality(InFlight(k)')
                             <= DailyLimit + Cardinality(Tasks) - 1
      BY DEF Metered
    <3>5. /\ IsFiniteSet(SentToday(k)) /\ IsFiniteSet(InFlight(k))
          /\ IsFiniteSet(InFlight(k)') /\ Cardinality(InFlight(k)') <= Cardinality(Tasks)
          /\ Cardinality(SentToday(k)) + Cardinality(InFlight(k))
               <= DailyLimit + Cardinality(Tasks) - 1
      BY FS_Subset DEF Metered, InFlight
    <3>6. /\ Cardinality(SentToday(k)) \in Nat
          /\ Cardinality(InFlight(k)) \in Nat /\ Cardinality(InFlight(k)') \in Nat
          /\ Cardinality(Tasks) \in Nat /\ DailyLimit \in Nat
      BY <3>5, FS_CardinalityType, DispatchAssumption
    <3>7. CASE k = j
      BY <3>2, <3>3, <3>5, <3>6, <3>7
    <3>8. CASE k # j
      <4>1. Cardinality(InFlight(k)') <= Cardinality(InFlight(k))
        BY <3>4, <3>5, <3>8, FS_Subset
      <4> QED
        BY <3>3, <3>5, <3>6, <4>1
    <3> QED
      BY <3>7, <3>8
  <2>3. CASE MarkSent(t)
    <3> SUFFICES ASSUME NEW j, NEW m, j = credOf[t], m = mailOf[t] PROVE Metered'
      OBVIOUS
    <3>1. /\ pc[t] = "quit" /\ m \in Emails /\ j \in Credentials
          /\ pc' = [pc EXCEPT ![t] = "check"] /\ credOf' = [credOf EXCEPT ![t] = None]
          /\ sentVia' = [sentVia EXCEPT ![m] = j]
          /\ \A e \in Emails \ {m} : estat'[e] = estat[e]
      BY <1>0, <2>3 DEF MarkSent, Loop, SetEmail, Carried, HoldPc
    <3>2. \A k \in Credentials : InFlight(k)' \subseteq InFlight(k)
      BY <1>0, <3>1 DEF InFlight
    <3>3. \A k \in Credentials \ {j} : SentToday(k)' \subseteq SentToday(k)
      BY <1>0, <3>1 DEF SentToday
    <3>4. SentToday(j)' \subseteq SentToday(j) \cup {m}
      BY <1>0, <3>1 DEF SentToday
    <3>5. InFlight(j)' \subseteq InFlight(j) \ {t} /\ t \in InFlight(j)
      BY <1>0, <3>1 DEF InFlight
    <3> SUFFICES ASSUME NEW k \in Credentials
                 PROVE  /\ IsFiniteSet(SentToday(k)')
                        /\ Cardinality(SentToday(k)') + Cardinality(InFlight(k)')
                             <= DailyLimit + Cardinality(Tasks) - 1
      BY DEF Metered
    <3>6. /\ IsFiniteSet(SentToday(k)) /\ IsFiniteSet(InFlight(k))
          /\ Cardinality(SentToday(k)) + Cardinality(InFlight(k))
               <= DailyLimit + Cardinality(Tasks) - 1
      BY FS_Subset DEF Metered, InFlight
    <3>7. /\ IsFiniteSet(SentToday(k)')
          /\ IsFiniteSet(InFlight(k)')
          /\ Cardinality(SentToday(k)') + Cardinality(InFlight(k)')
               <= Cardinality(SentToday(k)) + Cardinality(InFlight(k))
      <4>1. CASE k = j
        <5>0. Cardinality(SentToday(k)) \in Nat
          BY <3>6, FS_CardinalityType
        <5>1. /\ IsFiniteSet(SentToday(k) \cup {m})
              /\ Cardinality(SentToday(k) \cup {m}) <= Cardinality(SentToday(k)) + 1
          <6>1. /\ IsFiniteSet(SentToday(k) \cup {m})
                /\ Cardinality(SentToday(k) \cup {m}) =
                     IF m \in SentToday(k) THEN Cardinality(SentToday(k))
                                           ELSE Cardinality(SentToday(k)) + 1
            BY <3>6, FS_AddElement, Zenon
          <6> QED
            BY <5>0, <6>1
        <5>2. /\ IsFiniteSet(InFlight(k) \ {t})
              /\ Cardinality(InFlight(k) \ {t}) = Cardinality(InFlight(k)) - 1
          BY <3>5, <3>6, <4>1, FS_RemoveElement
        <5>3. /\ IsFiniteSet(SentToday(k)')
              /\ Cardinality(SentToday(k)') <= Cardinality(SentToday(k) \cup {m})
          BY <3>4, <4>1, <5>1, FS_Subset
        <5>4. /\ IsFiniteSet(InFlight(k)')
              /\ Cardinality(InFlight(k)') <= Cardinality(InFlight(k) \ {t})
          BY <3>5, <4>1, <5>2, FS_Subset
        <5>5. /\ Cardinality(SentToday(k)) \in Nat /\ Cardinality(SentToday(k)') \in Nat
              /\ Cardinality(SentToday(k) \cup {m}) \in Nat
              /\ Cardinality(InFlight(k)) \in Nat /\ Cardinality(InFlight(k)') \in Nat
          BY <3>6, <5>1, <5>3, <5>4, FS_CardinalityType
        <5> QED
          BY <5>1, <5>2, <5>3, <5>4, <5>5
      <4>2. CASE k # j
        <5>1. /\ IsFiniteSet(SentToday(k)')
              /\ Cardinality(SentToday(k)') <= Cardinality(SentToday(k))
          BY <3>3, <3>6, <4>2, FS_Subset
        <5>2. /\ IsFiniteSet(InFlight(k)')
              /\ Cardinality(InFlight(k)') <= Cardinality(InFlight(k))
          BY <3>2, <3>6, FS_Subset
        <5>3. /\ Cardinality(SentToday(k)) \in Nat /\ Cardinality(SentToday(k)') \in Nat
              /\ Cardinality(InFlight(k)) \in Nat /\ Cardinality(InFlight(k)') \in Nat
          BY <3>6, <5>1, <5>2, FS_CardinalityType
        <5> QED
          BY <5>1, <5>2, <5>3
      <4> QED
        BY <4>1, <4>2
    <3>8. /\ Cardinality(SentToday(k)) \in Nat /\ Cardinality(SentToday(k)') \in Nat
          /\ Cardinality(InFlight(k)) \in Nat /\ Cardinality(InFlight(k)') \in Nat
          /\ Cardinality(Tasks) \in Nat /\ DailyLimit \in Nat
      BY <3>6, <3>7, FS_CardinalityType, DispatchAssumption
    <3> QED
      BY <3>6, <3>7, <3>8
  <2>4. CASE \/ AuthFails(t) \/ HardBounce(t) \/ TemporaryFailure(t)
             \/ PermanentFailure(t)
    <3>1. /\ Unused /\ sentVia' = sentVia
          /\ \E s \in {"QUEUED", "FAILED"} : SetEmail(mailOf[t], s)
      BY <1>0, <2>4 DEF AuthFails, HardBounce, TemporaryFailure, PermanentFailure, Loop
    <3>2. Unsent
      BY <1>0, <3>1 DEF SetEmail
    <3> QED
      BY <1>1, <3>1, <3>2
  <2> QED
    BY <1>2, <2>1, <2>2, <2>3, <2>4 DEF TaskStep
<1>3. CASE Outside
  <2>1. Framed
    BY <1>3, OutsideFrame
  <2>2. Unsent
    BY <1>0, <2>1 DEF Framed, RowFrame, Overwritten, UserMoves
  <2>3. Unused
    BY <2>1 DEF Framed, Spawned
  <2> QED
    BY <1>1, <2>2, <2>3
<1>4. CASE Restart
  <2>1. Unsent /\ Unused
    BY <1>0, <1>4 DEF Restart, Requeue
  <2> QED
    BY <1>1, <2>1
<1> QED
  BY <1>2, <1>3, <1>4, Cases

(* Coroutines that read the same count overshoot daily_send_limit by at    *)
(* most one message each, for every number of them, of credentials and of  *)
(* rows (resolve_credential_pool is read before the wait for the slot).    *)
THEOREM OvershootIsBounded ==
  ASSUME IsFiniteSet(Tasks)
  PROVE  Spec => []DailyLimitOvershoot
<1>1. CASE DailyLimit > 0
  <2>1. Init => TypeOK /\ Carried /\ Pending /\ Metered
    <3> SUFFICES ASSUME Init PROVE Metered
      BY InitIInv DEF IInv
    <3> SUFFICES ASSUME NEW k \in Credentials
                 PROVE  /\ IsFiniteSet(SentToday(k))
                        /\ Cardinality(SentToday(k)) + Cardinality(InFlight(k))
                             <= DailyLimit + Cardinality(Tasks) - 1
      BY DEF Metered
    <3>1. SentToday(k) = {} /\ InFlight(k) = {}
      BY DispatchAssumption DEF Init, SentToday, InFlight
    <3>2. IsFiniteSet({}) /\ Cardinality({}) = 0
      BY FS_EmptySet, Zenon
    <3>3. Cardinality(Tasks) \in Nat /\ DailyLimit \in Nat
      BY FS_CardinalityType, DispatchAssumption
    <3> QED
      BY <1>1, <3>1, <3>2, <3>3
  <2>2. TypeOK /\ Carried /\ Pending /\ Metered /\ [Next]_vars
          => (TypeOK /\ Carried /\ Pending /\ Metered)'
    BY <1>1, TypeStep, CarriedStep, PendingStep, MeteredStep
  <2>3. Metered => DailyLimitOvershoot
    <3> SUFFICES ASSUME Metered, NEW k \in Credentials
                 PROVE  Cardinality(SentToday(k)) <= DailyLimit + Cardinality(Tasks) - 1
      BY DEF DailyLimitOvershoot
    <3>1. IsFiniteSet(SentToday(k)) /\ IsFiniteSet(InFlight(k))
      BY FS_Subset DEF Metered, InFlight
    <3>2. /\ Cardinality(SentToday(k)) \in Nat /\ Cardinality(InFlight(k)) \in Nat
          /\ Cardinality(Tasks) \in Nat /\ DailyLimit \in Nat
      BY <3>1, FS_CardinalityType, DispatchAssumption
    <3> QED
      BY <3>2 DEF Metered
  <2> QED
    BY <2>1, <2>2, <2>3, PTL DEF Spec
<1>2. CASE ~(DailyLimit > 0)
  <2>1. DailyLimitOvershoot
    BY <1>2 DEF DailyLimitOvershoot
  <2> QED
    BY <2>1, PTL
<1> QED
  BY <1>1, <1>2

-----------------------------------------------------------------------------
(* Every step of the dispatcher, of a handler and of a sweep is a move of  *)
(* EmailDelivery.                                                          *)
LEMMA DeliveryStep ==
  TypeOK /\ Carried /\ Held /\ Pending /\ Evidence /\ [Next]_vars
    => [Delivery!Move]_(Delivery!vars)
<1> SUFFICES ASSUME TypeOK, Carried, Held, Pending, Evidence, [Next]_vars
             PROVE  Delivery!Move
  OBVIOUS
<1>0. /\ estat \in [Emails -> EmailStatus]
      /\ delivered \in [Emails -> Nat] /\ taken \in [Emails -> Nat]
  BY DEF TypeOK
<1> DEFINE Legal == \A e \in Emails :
              \/ estat'[e] = estat[e]
              \/ <<estat[e], estat'[e]>> \in Delivery!Moves
              \/ e \in Contested' /\ <<estat[e], estat'[e]>> \in Delivery!LateMoves
           Honest == \A e \in Emails : estat'[e] = "SENT" => delivered[e] > 0
           Growing == Contested \subseteq Contested'
<1>1. ASSUME Legal, Honest, Growing, delivered' = delivered PROVE Delivery!Move
  BY <1>1 DEF Delivery!Move
<1>2. ASSUME \A e \in Emails : estat'[e] = "SENT" => estat[e] = "SENT" PROVE Honest
  BY <1>2 DEF Evidence
<1>3. ASSUME NEW t \in Tasks, TaskStep(t) PROVE Delivery!Move
  <2>0. Contested' = Contested
    BY <1>3 DEF TaskStep, Start, Check, Claim, Drained, Pick, NoCredential, SlotGranted,
      Accept, MarkSent, AuthFails, HardBounce, TemporaryFailure, PermanentFailure,
      histVars, againVars, Contested
  <2>1. CASE \/ Start(t) \/ Check(t) \/ Claim(t) \/ Drained(t) \/ Pick(t)
             \/ NoCredential(t) \/ SlotGranted(t)
    <3>1. Legal /\ delivered' = delivered
      BY <1>0, <2>1 DEF Start, Check, Claim, Drained, Pick, NoCredential,
           SlotGranted, SelectedDrafts, DraftsOf, QueuedOf, dbVars, histVars,
           Delivery!Moves
    <3>2. \A e \in Emails : estat'[e] = "SENT" => estat[e] = "SENT"
      BY <1>0, <2>1 DEF Start, Check, Claim, Drained, Pick, NoCredential,
           SlotGranted, dbVars
    <3> QED
      BY <1>1, <1>2, <2>0, <3>1, <3>2
  <2>2. CASE Accept(t)
    <3>1. /\ mailOf[t] \in Emails /\ estat' = estat
          /\ estat[mailOf[t]] = "SENDING" \/ mailOf[t] \in Contested
          /\ delivered' = [delivered EXCEPT ![mailOf[t]] = @ + 1]
      BY <1>0, <2>2 DEF Accept, dbVars, Carried, Held, HoldPc, Contested
    <3>2. /\ delivered'[mailOf[t]] > 0
          /\ \A e \in Emails \ {mailOf[t]} : delivered'[e] = delivered[e]
      BY <1>0, <3>1
    <3>3. Honest
      BY <1>2, <3>1
    <3> QED
      BY <1>0, <2>0, <3>1, <3>2, <3>3 DEF Delivery!Move
  <2>3. CASE \/ MarkSent(t) \/ AuthFails(t) \/ HardBounce(t)
             \/ TemporaryFailure(t) \/ PermanentFailure(t)
    <3>1. pc[t] \in HoldPc
      BY <2>3 DEF MarkSent, AuthFails, HardBounce, TemporaryFailure,
                  PermanentFailure, Failing, HoldPc
    <3>2. /\ mailOf[t] \in Emails /\ estat[mailOf[t]] # "NONE"
          /\ estat[mailOf[t]] = "SENDING" \/ mailOf[t] \in Contested
      BY <1>0, <3>1 DEF Held, Carried, Contested
    <3>3. /\ delivered' = delivered
          /\ \E s \in {"SENT", "QUEUED", "FAILED"} :
               SetEmail(mailOf[t], s) /\ (s = "SENT" => pc[t] = "quit")
      BY <2>3 DEF MarkSent, AuthFails, HardBounce, TemporaryFailure,
                  PermanentFailure, histVars
    <3>4. Legal
      <4> SUFFICES ASSUME NEW e \in Emails, estat'[e] # estat[e]
                   PROVE  \/ <<estat[e], estat'[e]>> \in Delivery!Moves
                          \/ /\ e \in Contested'
                             /\ <<estat[e], estat'[e]>> \in Delivery!LateMoves
        OBVIOUS
      <4>1. /\ e = mailOf[t] /\ estat[e] # "DELETED"
            /\ estat'[e] \in {"SENT", "QUEUED", "FAILED"}
        BY <1>0, <3>3 DEF SetEmail
      <4>2. CASE estat[e] = "SENDING"
        BY <4>1, <4>2 DEF Delivery!Moves
      <4>3. CASE e \in Contested
        <5>1. estat[e] \in {"DRAFT", "QUEUED", "SENDING", "SENT", "FAILED"}
          BY <1>0, <3>2, <4>1 DEF EmailStatus
        <5> QED
          BY <2>0, <4>1, <4>3, <5>1 DEF Delivery!LateMoves
      <4> QED
        BY <3>2, <4>1, <4>2, <4>3
    <3>5. Honest
      BY <1>0, <3>2, <3>3 DEF SetEmail, Evidence
    <3> QED
      BY <1>1, <2>0, <3>3, <3>4, <3>5
  <2> QED
    BY <1>3, <2>1, <2>2, <2>3 DEF TaskStep
<1>4. CASE Outside
  <2>1. Framed
    BY <1>4, OutsideFrame
  <2>2. \A e \in Emails : taken[e] > 0 => taken'[e] > 0
    <3> SUFFICES ASSUME NEW e \in Emails, taken[e] > 0 PROVE taken'[e] > 0
      OBVIOUS
    <3>1. RowFrame(e) /\ taken[e] \in Nat
      BY <1>0, <2>1 DEF Framed
    <3> QED
      BY <3>1 DEF RowFrame, Overwritten
  <2>3. Growing /\ delivered' = delivered
    BY <2>1, <2>2 DEF Framed, Contested
  <2>4. Legal
    <3> SUFFICES ASSUME NEW e \in Emails, estat'[e] # estat[e]
                 PROVE  \/ <<estat[e], estat'[e]>> \in Delivery!Moves
                        \/ /\ e \in Contested'
                           /\ <<estat[e], estat'[e]>> \in Delivery!LateMoves
      OBVIOUS
    <3>1. CASE <<estat[e], estat'[e]>> \in UserMoves
      BY <3>1 DEF UserMoves, Delivery!Moves
    <3>2. CASE Overwritten(e)
      <4>1. e \in Reopened => e \in Contested'
        <5>1. e \in Reopened => taken'[e] = taken[e] + 1 /\ taken[e] \in Nat
          BY <1>0, <3>2 DEF Overwritten
        <5> QED
          BY <5>1 DEF Contested
      <4>2. \/ e \in Contested'
            \/ <<estat[e], estat'[e]>> \in {<<"QUEUED", "DRAFT">>, <<"SENDING", "QUEUED">>}
        BY <3>2, <4>1 DEF Overwritten, Reopened, Contested
      <4>3. <<estat[e], estat'[e]>> \in Delivery!LateMoves
        BY <3>2 DEF Overwritten, Delivery!LateMoves
      <4> QED
        BY <4>2, <4>3 DEF Delivery!Moves
    <3> QED
      BY <2>1, <3>1, <3>2 DEF Framed, RowFrame
  <2>5. Honest
    BY <1>0, <1>2, <2>1 DEF Framed, RowFrame, Overwritten, UserMoves
  <2> QED
    BY <1>1, <2>3, <2>4, <2>5
<1>5. CASE Restart
  <2>1. UNCHANGED <<delivered, taken, crossed>> /\ Requeue(Stuck)
    BY <1>5 DEF Restart, againVars
  <2>2. Legal /\ \A e \in Emails : estat'[e] = "SENT" => estat[e] = "SENT"
    BY <1>0, <2>1 DEF Requeue, Stuck, Delivery!Moves
  <2>3. Growing
    BY <2>1 DEF Contested
  <2> QED
    BY <1>1, <1>2, <2>1, <2>2, <2>3
<1> QED
  BY <1>3, <1>4, <1>5, Cases

(* The dispatcher implements the life cycle of a row: SENT means           *)
(* delivered, a claim comes from the queue, only drafts are deleted, and   *)
(* SENT and FAILED are final for every row that no late write reached.     *)
THEOREM Implementation == Spec => ImplementsDelivery
<1>1. Init => /\ TypeOK /\ Carried /\ Held /\ Pending /\ Evidence
              /\ Delivery!Init
  BY InitIInv, DispatchAssumption DEF IInv, Init, Delivery!Init, Contested
<1>2. TypeOK /\ Carried /\ Held /\ Pending /\ Evidence /\ [Next]_vars
        => (TypeOK /\ Carried /\ Held /\ Pending /\ Evidence)'
  BY TypeStep, CarriedStep, HeldStep, PendingStep, EvidenceStep
<1> QED
  BY <1>1, <1>2, DeliveryStep, PTL DEF Spec, ImplementsDelivery, Delivery!Spec
=============================================================================
