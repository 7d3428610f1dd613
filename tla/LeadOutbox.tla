----------------------------- MODULE LeadOutbox -----------------------------
(***************************************************************************)
(* The durable outbox of one crawl job (agent/local_store.py), the two     *)
(* coroutines that flush it to the cloud (the flush loop and the drain of  *)
(* finish_job, agent/cloud_client.py), the cloud's batch endpoint, crashes *)
(* of the agent and resumptions of the job.                                *)
(*                                                                         *)
(* Both flushers live on one event loop: a step is what happens between    *)
(* two awaits, except that every fail() commits on its own, so a crash may *)
(* fall between two of them.  The engine's database thread adds rows at    *)
(* any time.                                                               *)
(***************************************************************************)
EXTENDS Integers, FiniteSets

CONSTANTS
  Leads,        \* outbox row ids: numbers, handed out in order
  Poison,       \* rows whose payload the cloud rejects
  BatchSize,    \* _BATCH_SIZE
  MaxAttempts,  \* MAX_ATTEMPTS
  MaxCrashes    \* bound: crashes of the agent

(* With one attempt only, fail() on a row acknowledged meanwhile would put *)
(* it among the dead letters.                                              *)
ASSUME OutboxAssumption ==
  /\ Leads \subseteq Nat
  /\ Poison \subseteq Leads
  /\ BatchSize \in Nat \ {0}
  /\ MaxAttempts \in Nat \ {0, 1}
  /\ MaxCrashes \in Nat

VARIABLES
  phase,     \* the job's coroutine: crawling, draining, closed; or down
  expired,   \* the deadline of finish_job's drain has passed
  outbox,    \* rows of the table outbox
  attempts,  \* their column attempts
  dead,      \* rows of the table outbox_dead
  pc,        \* where each flusher is
  batch,     \* rows a flusher is posting, or has yet to fail
  served,    \* the cloud has processed the flusher's request
  wire,      \* requests whose sender is gone, still under way
  stored,    \* leads the cloud has saved
  rejected,  \* leads the cloud has skipped, answering 200
  found,     \* history: leads extracted so far
  failures,  \* history: failed posts of each row
  crashes    \* crashes so far

diskVars == <<outbox, attempts, dead>>
netVars  == <<pc, batch, served, wire>>
cloudVars == <<stored, rejected>>
vars == <<phase, expired, diskVars, netVars, cloudVars, found, failures, crashes>>

Flushers == {"loop", "drain"}

TypeOK ==
  /\ phase \in {"crawling", "draining", "closed", "down"}
  /\ expired \in BOOLEAN
  /\ outbox \subseteq Leads
  /\ attempts \in [Leads -> 0 .. MaxAttempts - 1]
  /\ dead \subseteq Leads
  /\ pc \in [Flushers -> {"idle", "posting", "failing", "asleep"}]
  /\ batch \in [Flushers -> SUBSET Leads]
  /\ served \in [Flushers -> BOOLEAN]
  /\ wire \subseteq SUBSET Leads
  /\ stored \subseteq Leads
  /\ rejected \subseteq Leads
  /\ found \subseteq Leads
  /\ failures \in [Leads -> Nat]
  /\ crashes \in 0..MaxCrashes

-----------------------------------------------------------------------------
Init ==
  /\ phase = "crawling" /\ expired = FALSE
  /\ outbox = {} /\ attempts = [l \in Leads |-> 0] /\ dead = {}
  /\ pc = [f \in Flushers |-> "idle"]
  /\ batch = [f \in Flushers |-> {}]
  /\ served = [f \in Flushers |-> FALSE]
  /\ wire = {}
  /\ stored = {} /\ rejected = {}
  /\ found = {} /\ failures = [l \in Leads |-> 0] /\ crashes = 0

(* pending_batch: ORDER BY id LIMIT n *)
PendingBatch == {l \in outbox : Cardinality({m \in outbox : m < l}) < BatchSize}

(* The loop over fail() does not yield to the other flusher. *)
Turn(f) == \A g \in Flushers \ {f} : pc[g] # "failing"

(* The flush loop runs until the client is closed; finish_job drains. *)
Running(f) ==
  \/ f = "loop" /\ phase \in {"crawling", "draining"}
  \/ f = "drain" /\ phase = "draining" /\ ~expired

(* The requests that flushers leave behind when they stop. *)
Abandoned(fs) == {batch[f] : f \in {g \in fs : pc[g] = "posting" /\ ~served[g]}}

-----------------------------------------------------------------------------
(* save_lead *)
Enqueue(l) ==
  /\ phase = "crawling"
  /\ \A m \in found : m < l
  /\ outbox' = outbox \cup {l}
  /\ found' = found \cup {l}
  /\ attempts' = [attempts EXCEPT ![l] = 0]
  /\ UNCHANGED <<phase, expired, dead, netVars, cloudVars, failures, crashes>>

(* _flush_kind reads a batch and posts it. *)
Post(f) ==
  /\ Running(f) /\ pc[f] = "idle" /\ Turn(f)
  /\ outbox # {}
  /\ batch' = [batch EXCEPT ![f] = PendingBatch]
  /\ pc' = [pc EXCEPT ![f] = "posting"]
  /\ served' = [served EXCEPT ![f] = FALSE]
  /\ UNCHANGED <<phase, expired, diskVars, wire, cloudVars, found, failures, crashes>>

(* bulk_save_leads: saving is idempotent; an item that raises is reported  *)
(* in the body of a 200 answer.                                            *)
Save_Replace(rows) ==
  /\ stored' = rows \ Poison
  /\ rejected' = rejected \cup (rows \cap Poison)

Save(rows) ==
  /\ stored' = stored \cup (rows \ Poison)
  /\ rejected' = rejected \cup (rows \cap Poison)

CloudSaves(f) ==
  /\ pc[f] = "posting" /\ ~served[f]
  /\ Save(batch[f])
  /\ served' = [served EXCEPT ![f] = TRUE]
  /\ UNCHANGED <<phase, expired, diskVars, pc, batch, wire, found, failures, crashes>>

(* A request arrives after its sender gave up, was closed or crashed. *)
CloudSavesLate ==
  /\ \E rows \in wire : Save(rows) /\ wire' = wire \ {rows}
  /\ UNCHANGED <<phase, expired, diskVars, pc, batch, served, found, failures, crashes>>

(* The answer arrives: the batch is deleted in one transaction. *)
Ack_Everything(f) ==
  /\ pc[f] = "posting" /\ served[f] /\ Turn(f)
  /\ outbox' = {}
  /\ pc' = [pc EXCEPT ![f] = "idle"]
  /\ batch' = [batch EXCEPT ![f] = {}]
  /\ UNCHANGED <<phase, expired, attempts, dead, served, wire, cloudVars, found,
                 failures, crashes>>

Ack(f) ==
  /\ pc[f] = "posting" /\ served[f] /\ Turn(f)
  /\ outbox' = outbox \ batch[f]
  /\ pc' = [pc EXCEPT ![f] = "idle"]
  /\ batch' = [batch EXCEPT ![f] = {}]
  /\ UNCHANGED <<phase, expired, attempts, dead, served, wire, cloudVars, found,
                 failures, crashes>>

(* Any exception: connection, timeout, status, refresh.  The request may   *)
(* have been processed, and if not may still be.                           *)
PostFails(f) ==
  /\ pc[f] = "posting" /\ Turn(f)
  /\ pc' = [pc EXCEPT ![f] = "failing"]
  /\ \/ wire' = wire \cup Abandoned({f})
     \/ ~served[f] /\ UNCHANGED wire
  /\ UNCHANGED <<phase, expired, diskVars, batch, served, cloudVars, found, failures,
                 crashes>>

(* fail(): one row of the batch; a row deleted meanwhile is left alone. *)
GivesUp_Early(l) == attempts[l] + 1 >= MaxAttempts - 1
GivesUp(l) == attempts[l] + 1 >= MaxAttempts

FailRow_YoungestFirst(f) ==
  /\ pc[f] = "failing"
  /\ \E l \in batch[f] :
       /\ \A m \in batch[f] : l >= m
       /\ failures' = [failures EXCEPT ![l] = @ + 1]
       /\ batch' = [batch EXCEPT ![f] = @ \ {l}]
       /\ \/ /\ l \notin outbox
             /\ UNCHANGED diskVars
          \/ /\ l \in outbox /\ ~GivesUp(l)
             /\ attempts' = [attempts EXCEPT ![l] = @ + 1]
             /\ UNCHANGED <<outbox, dead>>
          \/ /\ l \in outbox /\ GivesUp(l)
             /\ dead' = dead \cup {l}
             /\ outbox' = outbox \ {l}
             /\ UNCHANGED attempts
  /\ UNCHANGED <<phase, expired, pc, served, wire, cloudVars, found, crashes>>

FailRow(f) ==
  /\ pc[f] = "failing"
  /\ \E l \in batch[f] :
       /\ \A m \in batch[f] : l <= m
       /\ failures' = [failures EXCEPT ![l] = @ + 1]
       /\ batch' = [batch EXCEPT ![f] = @ \ {l}]
       /\ \/ /\ l \notin outbox
             /\ UNCHANGED diskVars
          \/ /\ l \in outbox /\ ~GivesUp(l)
             /\ attempts' = [attempts EXCEPT ![l] = @ + 1]
             /\ UNCHANGED <<outbox, dead>>
          \/ /\ l \in outbox /\ GivesUp(l)
             /\ dead' = dead \cup {l}
             /\ outbox' = outbox \ {l}
             /\ UNCHANGED attempts
  /\ UNCHANGED <<phase, expired, pc, served, wire, cloudVars, found, crashes>>

(* Every row has failed: sleep a second ... *)
Backoff(f) ==
  /\ pc[f] = "failing" /\ batch[f] = {}
  /\ pc' = [pc EXCEPT ![f] = "asleep"]
  /\ UNCHANGED <<phase, expired, diskVars, batch, served, wire, cloudVars, found,
                 failures, crashes>>

(* ... and go on. *)
Wake_Never(f) == FALSE /\ UNCHANGED vars

Wake(f) ==
  /\ pc[f] = "asleep" /\ Turn(f)
  /\ pc' = [pc EXCEPT ![f] = "idle"]
  /\ UNCHANGED <<phase, expired, diskVars, batch, served, wire, cloudVars, found,
                 failures, crashes>>

FlusherStep(f) ==
  Post(f) \/ Ack(f) \/ PostFails(f) \/ FailRow(f) \/ Backoff(f) \/ Wake(f)

-----------------------------------------------------------------------------
(* The crawl ends (done, failed or cancelled) and finish_job, or           *)
(* best_effort_drain before it, drains the outbox until a deadline.        *)
StartDrain ==
  /\ phase = "crawling" /\ phase' = "draining"
  /\ UNCHANGED <<expired, diskVars, netVars, cloudVars, found, failures, crashes>>

DeadlinePasses ==
  /\ phase = "draining" /\ ~expired /\ expired' = TRUE
  /\ UNCHANGED <<phase, diskVars, netVars, cloudVars, found, failures, crashes>>

(* finish is posted, drained or not, and aclose() cancels the flush loop,  *)
(* which neither acknowledges nor fails the batch it was posting.          *)
Finish ==
  /\ phase = "draining"
  /\ pc["drain"] = "idle" /\ Turn("drain")
  /\ outbox = {} \/ expired
  /\ phase' = "closed"
  /\ wire' = wire \cup Abandoned({"loop"})
  /\ pc' = [pc EXCEPT !["loop"] = "idle"]
  /\ batch' = [batch EXCEPT !["loop"] = {}]
  /\ UNCHANGED <<expired, diskVars, served, cloudVars, found, failures, crashes>>

(* The agent dies anywhere; the outbox file stays. *)
Crash ==
  /\ phase \in {"crawling", "draining"}
  /\ crashes < MaxCrashes /\ crashes' = crashes + 1
  /\ phase' = "down"
  /\ wire' = wire \cup Abandoned(Flushers)
  /\ pc' = [f \in Flushers |-> "idle"]
  /\ batch' = [f \in Flushers |-> {}]
  /\ UNCHANGED <<expired, diskVars, served, cloudVars, found, failures>>

(* resume_job opens the same file again, whatever the job's status. *)
Resume ==
  /\ phase \in {"closed", "down"}
  /\ phase' = "crawling" /\ expired' = FALSE
  /\ UNCHANGED <<diskVars, netVars, cloudVars, found, failures, crashes>>

Next ==
  \/ \E l \in Leads : Enqueue(l)
  \/ \E f \in Flushers : FlusherStep(f) \/ CloudSaves(f)
  \/ CloudSavesLate \/ StartDrain \/ DeadlinePasses \/ Finish \/ Crash \/ Resume

Spec == Init /\ [][Next]_vars

(* The event loop runs the flushers and requests end (15 s timeout).       *)
(* Nothing is assumed of the cloud: every request may fail.                *)
Fairness == \A f \in Flushers : SF_vars(FlusherStep(f))
FairSpec == Spec /\ Fairness

-----------------------------------------------------------------------------
(* Properties *)

(* A lead is deleted from the outbox only when the cloud has dealt with it *)
(* or it was put among the dead letters, whatever mixture of lost answers, *)
(* racing flushers, partial fail() loops and crashes came before           *)
(* (.docs/resilience.md: "deletes rows only on a successful ack").         *)
NothingVanishes == found \subseteq outbox \cup dead \cup stored \cup rejected

(* A row is given up only after MAX_ATTEMPTS failed posts: two flushers    *)
(* that fail the same row, a row acknowledged between a post and its       *)
(* failure, and a crash within the loop do not make a row die early.       *)
GivenUpWasRetried == \A l \in dead : failures[l] >= MaxAttempts

(* The outbox drains oldest-first: a row leaves only together with or      *)
(* after all older ones, acknowledged or given up (pending_batch's ORDER   *)
(* BY id with two flushers).                                               *)
OldestFirst ==
  [][\A l \in outbox \ outbox' : \A m \in outbox \cap outbox' : l < m]_vars

(* One bad row, or a cloud that fails for ever, cannot wedge the queue: a  *)
(* row leaves the outbox while the job's flushers run (.docs/resilience.md:*)
(* "so one poison record can't wedge the queue").                          *)
QueueNeverWedges ==
  \A l \in Leads :
    (l \in outbox) ~> (l \notin outbox \/ phase \notin {"crawling", "draining"})

(* "no extracted lead is ever lost" and, of an extended cloud outage, "lost*)
(* ... nothing" but new jobs, "drains on reconnect" (.docs/resilience.md): *)
(* without poison rows nothing is given up.                                *)
OutageLosesNothing == Poison = {} => dead = {}

(* "only the actual poison row gets retried/dead-lettered" (docstring of   *)
(* bulk_save_leads): a rejected item is still on the agent.                *)
PoisonIsKept == rejected \subseteq outbox \cup dead

(* finish is called "once it has actually stopped and drained its outbox"  *)
(* (docstring of coordination_cancel_job).                                 *)
FinishedIsDrained == phase = "closed" => outbox = {}

-----------------------------------------------------------------------------
(* The inductive invariant: what is on its way to the cloud was extracted, *)
(* what is being acknowledged was dealt with, and the column attempts      *)
(* counts no more than the failures.                                       *)
InFlight ==
  /\ \A f \in Flushers : batch[f] \subseteq found
  /\ \A rows \in wire : rows \subseteq found
  /\ \A f \in Flushers : pc[f] = "posting" /\ served[f] =>
       batch[f] \subseteq stored \cup rejected

Counted ==
  /\ outbox \subseteq found /\ dead \subseteq found
  /\ stored \cup rejected \subseteq found
  /\ \A l \in outbox : attempts[l] <= failures[l]

(* Batches are cut off the head of the queue, so that an older row has     *)
(* failed at least as often as a younger one; the loops over fail() do not *)
(* interleave.                                                             *)
Ordered ==
  /\ \A l, m \in outbox : m < l => attempts[m] >= attempts[l]
  /\ \A f \in Flushers : \A l \in batch[f] \cap outbox, m \in outbox \ batch[f] :
       m < l => pc[f] = "failing" /\ attempts[m] > attempts[l]

OneFails ==
  \A f, g \in Flushers : pc[f] = "failing" /\ pc[g] = "failing" => f = g

IInv == TypeOK /\ InFlight /\ Counted /\ Ordered /\ OneFails
          /\ NothingVanishes /\ GivenUpWasRetried

Delivery == INSTANCE LeadDelivery
              WITH buffered <- outbox, aside <- dead, settled <- stored \cup rejected
ImplementsDelivery == Delivery!Spec
=============================================================================
