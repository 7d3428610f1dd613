---------------------------- MODULE EmailDelivery ----------------------------
(***************************************************************************)
(* What the dispatcher promises about campaign e-mail rows: the life cycle *)
(* of a row, and that it is recorded SENT only when its message reached    *)
(* the SMTP server.  A row becomes contested when somebody overwrites it   *)
(* with an outcome or a request that is out of date; from then on late     *)
(* writers may take it back and forth, but it is still SENT only if        *)
(* delivered, claimed only from the queue and deleted only as a draft.     *)
(***************************************************************************)
CONSTANT Emails

VARIABLES
  status,    \* status of each row
  reached,   \* rows whose message the SMTP server accepted at least once
  contested  \* rows a late writer has overwritten

vars == <<status, reached, contested>>

(* The moves a row may make; SENT, FAILED and DELETED are final. *)
Moves ==
  { <<"NONE", "DRAFT">>,
    <<"DRAFT", "QUEUED">>, <<"DRAFT", "DELETED">>,
    <<"QUEUED", "DRAFT">>, <<"QUEUED", "SENDING">>, <<"QUEUED", "FAILED">>,
    <<"SENDING", "QUEUED">>, <<"SENDING", "SENT">>, <<"SENDING", "FAILED">> }

(* The moves a late writer may add. *)
LateMoves ==
  {"DRAFT", "QUEUED", "SENDING", "SENT", "FAILED"}
    \X {"DRAFT", "QUEUED", "SENT", "FAILED"}

Init ==
  /\ status \in [Emails -> {"NONE", "DRAFT"}]
  /\ reached = {}
  /\ contested = {}

(* Any number of rows moves at once (queueing, cancelling, recovering). *)
Move ==
  /\ \A e \in Emails :
       \/ status'[e] = status[e]
       \/ <<status[e], status'[e]>> \in Moves
       \/ e \in contested' /\ <<status[e], status'[e]>> \in LateMoves
  /\ \A e \in Emails : status'[e] = "SENT" => e \in reached
  /\ reached \subseteq reached'
  /\ \A e \in reached' \ reached :
       e \in Emails /\ (status[e] = "SENDING" \/ e \in contested)
  /\ contested \subseteq contested'

Spec == Init /\ [][Move]_vars
=============================================================================
