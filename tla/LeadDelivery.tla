---------------------------- MODULE LeadDelivery ----------------------------
(***************************************************************************)
(* What the agent and the cloud promise together about extracted leads: a  *)
(* lead stays buffered on the agent's disk until the cloud has dealt with  *)
(* it or it was put aside as a dead letter; nothing else makes it leave,   *)
(* and what the cloud has dealt with or was put aside stays so.            *)
(***************************************************************************)
VARIABLES
  found,     \* leads extracted so far
  buffered,  \* leads in the agent's durable buffer
  aside,     \* dead letters
  settled    \* leads the cloud saved or rejected

vars == <<found, buffered, aside, settled>>

Init == found = {} /\ buffered = {} /\ aside = {} /\ settled = {}

Move ==
  /\ found \subseteq found'
  /\ aside \subseteq aside' /\ aside' \subseteq aside \cup buffered
  /\ settled \subseteq settled' /\ settled' \subseteq found'
  /\ buffered' \ buffered = found' \ found
  /\ buffered \ buffered' \subseteq aside' \cup settled'

Spec == Init /\ [][Move]_vars
=============================================================================
