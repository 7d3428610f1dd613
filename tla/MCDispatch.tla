----------------------------- MODULE MCDispatch -----------------------------
(* Instances of Dispatch for TLC. *)
EXTENDS Dispatch

OneCampaign == [e \in Emails |-> CHOOSE c \in Campaigns : TRUE]
OneEach == [e \in Emails |-> IF e = 1 THEN CHOOSE c \in Campaigns : TRUE
                             ELSE CHOOSE c \in Campaigns : c # CHOOSE d \in Campaigns : TRUE]
OneDomain == [e \in Emails |-> "gov"]
FirstDrafted == {1}
=============================================================================
