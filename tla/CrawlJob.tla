------------------------------ MODULE CrawlJob ------------------------------
(***************************************************************************)
(* The life of one crawl job: its row in the cloud's database              *)
(* (cloud/db/mixins/job_mixin.py behind cloud/api/coordination.py), the    *)
(* stale-job reaper (cloud/api/server.py), the agents' handlers and their  *)
(* registry of crawl tasks (agent/api.py, agent/bff/local_system.py), and  *)
(* the tasks _run_crawl with the engine's heartbeats.                      *)
(*                                                                         *)
(* The cloud's handlers do not yield, so each is one step.  On the agent a *)
(* step is what happens between two awaits.                                *)
(***************************************************************************)
EXTENDS Integers, FiniteSets

CONSTANTS
  Agents,      \* agent ids
  Runs,        \* slots for tasks _run_crawl
  Starters,    \* slots for create and resume requests in progress
  Cancellers,  \* slots for cancel requests in progress
  None,        \* "no agent / task"
  MaxResumes,  \* bound: resume requests
  MaxCancels,  \* bound: cancel requests
  MaxCrashes   \* bound: crashes of agents

ASSUME JobAssumption ==
  /\ MaxResumes \in Nat /\ MaxCancels \in Nat /\ MaxCrashes \in Nat
  /\ None \notin Agents \cup Runs

VARIABLES
  status,      \* crawl_jobs.status, "none" before the row exists
  cancel,      \* crawl_jobs.cancel_requested
  host,        \* crawl_jobs.agent_hostname
  beat,        \* crawl_jobs.last_heartbeat_at: null, fresh or old
  started,     \* crawl_jobs.started_at: null, fresh or old
  pc,          \* where each task is
  agentOf,     \* the agent a task runs on
  outcome,     \* the status it will finish with
  served,      \* the cloud has processed the task's finish request
  registered,  \* _active_tasks[job_id] of each agent
  startPc,     \* where each create or resume request is
  startAgent,  \* the agent that serves it
  cancelAgent, \* agents whose cancel request has signalled the cloud
  latePulse,   \* a heartbeat whose sender is gone is still under way
  lateFinish,  \* finish requests whose sender is gone, still under way
  lateResume,  \* agents whose resume request is under way with nobody waiting
  asked,       \* history: somebody asked for a cancellation
  crawled,     \* history: some task worked off its queue
  called,      \* history: tasks that have called finish
  overlaps,    \* history: resume requests begun while another was in progress
  resumes, cancels, crashes

jobVars   == <<status, cancel, host, beat, started>>
runVars   == <<pc, agentOf, outcome, served, registered, called>>
startVars == <<startPc, startAgent>>
wireVars  == <<latePulse, lateFinish, lateResume>>
histVars  == <<asked, crawled, overlaps>>
counters  == <<resumes, cancels, crashes>>
vars == <<jobVars, runVars, startVars, cancelAgent, wireVars, histVars, counters>>

Terminal == {"done", "failed", "cancelled"}
Ages == {"null", "fresh", "old"}

TypeOK ==
  /\ status \in {"none", "pending", "running", "interrupted"} \cup Terminal
  /\ cancel \in BOOLEAN
  /\ host \in Agents \cup {None}
  /\ beat \in Ages /\ started \in Ages
  /\ pc \in [Runs -> {"idle", "created", "crawling", "ending",
                   "draining", "posting", "closing"}]
  /\ agentOf \in [Runs -> Agents \cup {None}]
  /\ outcome \in [Runs -> Terminal]
  /\ served \in [Runs -> BOOLEAN]
  /\ registered \in [Agents -> Runs \cup {None}]
  /\ called \subseteq Runs
  /\ startPc \in [Starters -> {"idle", "creating", "resuming", "accepted"}]
  /\ startAgent \in [Starters -> Agents \cup {None}]
  /\ cancelAgent \in [Cancellers -> Agents \cup {None}]
  /\ latePulse \in BOOLEAN
  /\ lateFinish \subseteq Terminal
  /\ lateResume \subseteq Agents
  /\ asked \in BOOLEAN /\ crawled \in BOOLEAN /\ overlaps \in Nat
  /\ resumes \in 0..MaxResumes /\ cancels \in 0..MaxCancels
  /\ crashes \in 0..MaxCrashes

Live(r) == pc[r] \in {"created", "crawling", "ending", "draining", "posting"}

(* The tasks that run on an agent, and the requests that will start one.   *)
LiveOn(a) == {r \in Runs : Live(r) /\ agentOf[r] = a}
Waiting(a) == {s \in Starters : startPc[s] # "idle" /\ startAgent[s] = a}

-----------------------------------------------------------------------------
(* No job yet, or one from before agents were recorded. *)
Init ==
  /\ \/ status = "none" /\ started = "null"
     \/ status = "interrupted" /\ started = "old"
  /\ cancel = FALSE /\ host = None /\ beat = "null"
  /\ pc = [r \in Runs |-> "idle"]
  /\ agentOf = [r \in Runs |-> None]
  /\ outcome = [r \in Runs |-> "done"]
  /\ served = [r \in Runs |-> FALSE]
  /\ registered = [a \in Agents |-> None]
  /\ called = {}
  /\ startPc = [s \in Starters |-> "idle"]
  /\ startAgent = [s \in Starters |-> None]
  /\ cancelAgent = [c \in Cancellers |-> None]
  /\ latePulse = FALSE /\ lateFinish = {} /\ lateResume = {}
  /\ asked = FALSE /\ crawled = FALSE /\ overlaps = 0
  /\ resumes = 0 /\ cancels = 0 /\ crashes = 0

-----------------------------------------------------------------------------
(* The cloud *)

(* heartbeat: note the time, revive an interrupted job. *)
Revived_Never(s) == s
Revived(s) == IF s = "interrupted" THEN "running" ELSE s

Pulse ==
  /\ beat' = "fresh"
  /\ status' = Revived(status)
  /\ UNCHANGED <<cancel, host, started>>

(* finish_job: a no-op on a finished job. *)
FinishJob_Unguarded(s) == status' = s /\ UNCHANGED <<cancel, host, beat, started>>
FinishJob(s) ==
  /\ status' = IF status \in Terminal THEN status ELSE s
  /\ UNCHANGED <<cancel, host, beat, started>>

(* reap_stale_jobs compares with last_heartbeat_at or, if that is NULL,    *)
(* with started_at; a NULL never compares.                                 *)
Stale_OnlyBeats == beat = "old"
Stale == beat = "old" \/ (beat = "null" /\ started = "old")

Reaped == "interrupted"

Reap ==
  /\ status = "running" /\ Stale
  /\ status' = Reaped
  /\ UNCHANGED <<cancel, host, beat, started, runVars, startVars, cancelAgent, wireVars,
                 histVars, counters>>

(* 150 seconds without a heartbeat. *)
Silence ==
  /\ beat = "fresh" \/ started = "fresh"
  /\ beat' = IF beat = "fresh" THEN "old" ELSE beat
  /\ started' = IF started = "fresh" THEN "old" ELSE started
  /\ UNCHANGED <<status, cancel, host, runVars, startVars, cancelAgent, wireVars,
                 histVars, counters>>

LatePulse ==
  /\ latePulse /\ latePulse' = FALSE
  /\ Pulse
  /\ UNCHANGED <<runVars, startVars, cancelAgent, lateFinish, lateResume, histVars, counters>>

LateFinish ==
  /\ \E s \in lateFinish : FinishJob(s) /\ lateFinish' = lateFinish \ {s}
  /\ UNCHANGED <<runVars, startVars, cancelAgent, latePulse, lateResume, histVars, counters>>

-----------------------------------------------------------------------------
(* Starting tasks *)

(* A task is created and registered over whatever was registered. *)
Spawn(a) ==
  \E r \in Runs :
    /\ pc[r] = "idle"
    /\ pc' = [pc EXCEPT ![r] = "created"]
    /\ agentOf' = [agentOf EXCEPT ![r] = a]
    /\ registered' = [registered EXCEPT ![a] = r]
    /\ UNCHANGED <<outcome, served, called>>

(* coordination_create_job: the row is committed pending, then set         *)
(* running, unless the cloud dies in between or no seed has a URL.         *)
CreateJob(s, a) ==
  /\ status = "none" /\ startPc[s] = "idle"
  /\ \/ /\ status' = "running" /\ started' = "fresh"
        /\ startPc' = [startPc EXCEPT ![s] = "creating"]
        /\ startAgent' = [startAgent EXCEPT ![s] = a]
     \/ /\ status' \in {"pending", "failed"}
        /\ UNCHANGED <<started, startVars>>
  /\ host' = a
  /\ UNCHANGED <<cancel, beat, runVars, cancelAgent, wireVars, histVars, counters>>

(* resume_job on the agent refuses while a task is registered and not done ... *)
NotRunning_Unchecked(a) == TRUE
NotRunning(a) == registered[a] = None

ResumeJob(s, a) ==
  /\ status # "none" /\ startPc[s] = "idle" /\ NotRunning(a)
  /\ resumes < MaxResumes /\ resumes' = resumes + 1
  /\ startPc' = [startPc EXCEPT ![s] = "resuming"]
  /\ startAgent' = [startAgent EXCEPT ![s] = a]
  /\ overlaps' = IF Waiting(a) = {} THEN overlaps ELSE overlaps + 1
  /\ UNCHANGED <<jobVars, runVars, cancelAgent, wireVars, asked, crawled, cancels,
                 crashes>>

(* ... awaits the cloud, which asks whose job it is, not how it is ... *)
MayResume_Anyone(a) == TRUE
MayResume(a) == host \in {None, a}

Resume(a) ==
  /\ MayResume(a)
  /\ host' = IF host = None THEN a ELSE host
  /\ status' = "running" /\ cancel' = FALSE
  /\ UNCHANGED <<beat, started>>

CloudResumes(s) ==
  /\ startPc[s] = "resuming"
  /\ \/ /\ Resume(startAgent[s])
        /\ startPc' = [startPc EXCEPT ![s] = "accepted"]
        /\ UNCHANGED startAgent
     \/ /\ ~MayResume(startAgent[s])
        /\ startPc' = [startPc EXCEPT ![s] = "idle"]
        /\ startAgent' = [startAgent EXCEPT ![s] = None]
        /\ UNCHANGED jobVars
  /\ UNCHANGED <<runVars, cancelAgent, wireVars, histVars, counters>>

LateResume ==
  /\ \E a \in lateResume :
       /\ lateResume' = lateResume \ {a}
       /\ Resume(a) \/ (~MayResume(a) /\ UNCHANGED jobVars)
  /\ UNCHANGED <<runVars, startVars, cancelAgent, latePulse, lateFinish, histVars, counters>>

(* ... and starts the task, without looking again. *)
StartTask(s) ==
  /\ startPc[s] \in {"creating", "accepted"}
  /\ Spawn(startAgent[s])
  /\ startPc' = [startPc EXCEPT ![s] = "idle"]
  /\ startAgent' = [startAgent EXCEPT ![s] = None]
  /\ UNCHANGED <<jobVars, cancelAgent, wireVars, histVars, counters>>

(* The answer or the request is lost, or the request is late. *)
StartFails(s) ==
  /\ startPc[s] # "idle"
  /\ \/ UNCHANGED lateResume
     \/ startPc[s] = "resuming" /\ lateResume' = lateResume \cup {startAgent[s]}
  /\ startPc' = [startPc EXCEPT ![s] = "idle"]
  /\ startAgent' = [startAgent EXCEPT ![s] = None]
  /\ UNCHANGED <<jobVars, runVars, cancelAgent, latePulse, lateFinish, histVars, counters>>

-----------------------------------------------------------------------------
(* A task: _run_crawl *)

(* The task goes on at p with outcome o; its finally clause removes        *)
(* whatever task is registered.  A finish request it was awaiting is       *)
(* abandoned, and may arrive yet.                                          *)
Goto(r, p, o) ==
  /\ pc' = [pc EXCEPT ![r] = p]
  /\ outcome' = [outcome EXCEPT ![r] = o]
  /\ served' = [served EXCEPT ![r] = FALSE]
  /\ registered' = IF p = "closing" THEN [registered EXCEPT ![agentOf[r]] = None]
                   ELSE registered
  /\ \/ /\ pc[r] = "posting" /\ ~served[r]
        /\ lateFinish' = lateFinish \cup {outcome[r]}
     \/ UNCHANGED lateFinish
  /\ UNCHANGED <<agentOf, latePulse, lateResume>>

(* task.cancel(): the engine is stopped and the outbox drained, but within *)
(* the clauses that report cancelled or failed it ends the task.  A task   *)
(* that has not begun yet just ends.                                       *)
Interrupted_Done == "done"
Interrupted == "cancelled"

Interrupt(r) ==
  \/ pc[r] = "created" /\ Goto(r, "closing", outcome[r])
  \/ pc[r] = "crawling" /\ Goto(r, "ending", Interrupted)
  \/ pc[r] = "ending" /\ Goto(r, "draining", Interrupted)
  \/ /\ pc[r] \in {"draining", "posting"} /\ outcome[r] = "done"
     /\ Goto(r, "draining", Interrupted)
  \/ /\ pc[r] \in {"draining", "posting"} /\ outcome[r] # "done"
     /\ Goto(r, "closing", outcome[r])

EngineStarts(r) ==
  /\ pc[r] = "created"
  /\ Goto(r, "crawling", outcome[r])
  /\ UNCHANGED <<jobVars, called, startVars, cancelAgent, histVars, counters>>

(* _reporter: the answer to a heartbeat may order the cancellation. *)
SeesCancel_Never == FALSE
SeesCancel == cancel

Heartbeat(r) ==
  /\ pc[r] = "crawling"
  /\ Pulse
  /\ \/ SeesCancel /\ Interrupt(r)
     \/ ~SeesCancel /\ UNCHANGED <<pc, agentOf, outcome, served, registered, wireVars>>
  /\ UNCHANGED <<called, startVars, cancelAgent, histVars, counters>>

(* The answer is lost, or the request is late. *)
HeartbeatFails(r) ==
  /\ pc[r] = "crawling"
  /\ \/ Pulse /\ UNCHANGED latePulse
     \/ latePulse' = TRUE /\ UNCHANGED jobVars
  /\ UNCHANGED <<runVars, startVars, cancelAgent, lateFinish, lateResume, histVars, counters>>

(* The queue is worked off, or the engine raises. *)
CrawlEnds(r) ==
  /\ pc[r] = "crawling"
  /\ \/ Goto(r, "ending", "done") /\ crawled' = TRUE
     \/ Goto(r, "ending", "failed") /\ UNCHANGED crawled
  /\ UNCHANGED <<jobVars, called, startVars, cancelAgent, asked, overlaps, counters>>

(* The engine's final heartbeat, which is not read and may fail. *)
FinalHeartbeat(r) ==
  /\ pc[r] = "ending"
  /\ Goto(r, "draining", outcome[r])
  /\ Pulse \/ UNCHANGED jobVars
  /\ UNCHANGED <<called, startVars, cancelAgent, histVars, counters>>

(* The outbox is drained, or the deadline has passed: finish is posted.    *)
PostFinish(r) ==
  /\ pc[r] = "draining"
  /\ Goto(r, "posting", outcome[r])
  /\ called' = called \cup {r}
  /\ UNCHANGED <<jobVars, startVars, cancelAgent, histVars, counters>>

CloudFinishes(r) ==
  /\ pc[r] = "posting" /\ ~served[r]
  /\ FinishJob(outcome[r])
  /\ served' = [served EXCEPT ![r] = TRUE]
  /\ UNCHANGED <<pc, agentOf, outcome, registered, called, startVars, cancelAgent,
                 wireVars, histVars, counters>>

FinishAnswered(r) ==
  /\ pc[r] = "posting" /\ served[r]
  /\ Goto(r, "closing", outcome[r])
  /\ UNCHANGED <<jobVars, called, startVars, cancelAgent, histVars, counters>>

(* finish raises: done becomes failed, otherwise the task ends.            *)
FinishFails(r) ==
  /\ pc[r] = "posting"
  /\ \/ outcome[r] = "done" /\ Goto(r, "draining", "failed")
     \/ outcome[r] # "done" /\ Goto(r, "closing", outcome[r])
  /\ UNCHANGED <<jobVars, called, startVars, cancelAgent, histVars, counters>>

(* aclose() returns, and the task is gone with what it knew. *)
TaskEnds(r) ==
  /\ pc[r] = "closing"
  /\ pc' = [pc EXCEPT ![r] = "idle"]
  /\ agentOf' = [agentOf EXCEPT ![r] = None]
  /\ outcome' = [outcome EXCEPT ![r] = "done"]
  /\ called' = called \ {r}
  /\ UNCHANGED <<jobVars, served, registered, startVars, cancelAgent, wireVars, histVars,
                 counters>>

-----------------------------------------------------------------------------
(* Cancelling *)

(* cancel_job and cancel_all signal the cloud; cancel_all goes on if that  *)
(* fails ...                                                               *)
CancelJob(c, a) ==
  /\ status # "none" /\ cancelAgent[c] = None
  /\ cancels < MaxCancels /\ cancels' = cancels + 1
  /\ cancel' = TRUE \/ UNCHANGED cancel
  /\ cancelAgent' = [cancelAgent EXCEPT ![c] = a]
  /\ asked' = TRUE
  /\ UNCHANGED <<status, host, beat, started, runVars, startVars, wireVars, crawled,
                 overlaps, resumes, crashes>>

(* ... then cancel the registered task, if any. *)
CancelJobIfRunning(c) ==
  /\ cancelAgent[c] # None
  /\ cancelAgent' = [cancelAgent EXCEPT ![c] = None]
  /\ LET r == registered[cancelAgent[c]]
     IN \/ r # None /\ Interrupt(r)
        \/ r = None /\ UNCHANGED <<pc, agentOf, outcome, served, registered, wireVars>>
  /\ UNCHANGED <<jobVars, called, startVars, histVars, counters>>

(* Somebody else signals the cloud only. *)
RemoteCancel ==
  /\ status # "none"
  /\ cancels < MaxCancels /\ cancels' = cancels + 1
  /\ cancel' = TRUE /\ asked' = TRUE
  /\ UNCHANGED <<status, host, beat, started, runVars, startVars, cancelAgent, wireVars,
                 crawled, overlaps, resumes, crashes>>

-----------------------------------------------------------------------------
(* An agent dies, with its tasks, its registry and the requests it serves. *)
Crash(a) ==
  LET gone == {r \in Runs : agentOf[r] = a}
  IN /\ crashes < MaxCrashes /\ crashes' = crashes + 1
     /\ pc' = [r \in Runs |-> IF r \in gone THEN "idle" ELSE pc[r]]
     /\ agentOf' = [r \in Runs |-> IF r \in gone THEN None ELSE agentOf[r]]
     /\ outcome' = [r \in Runs |-> IF r \in gone THEN "done" ELSE outcome[r]]
     /\ served' = [r \in Runs |-> r \notin gone /\ served[r]]
     /\ called' = called \ gone
     /\ registered' = [registered EXCEPT ![a] = None]
     /\ startPc' = [s \in Starters |-> IF startAgent[s] = a THEN "idle" ELSE startPc[s]]
     /\ startAgent' = [s \in Starters |-> IF startAgent[s] = a THEN None ELSE startAgent[s]]
     /\ cancelAgent' = [c \in Cancellers |-> IF cancelAgent[c] = a THEN None ELSE cancelAgent[c]]
     /\ lateFinish' = lateFinish \cup
          {outcome[r] : r \in {q \in gone : pc[q] = "posting" /\ ~served[q]}}
     /\ lateResume' = lateResume \cup
          {startAgent[s] : s \in {q \in Starters : startAgent[q] = a /\ startPc[q] = "resuming"}}
     /\ UNCHANGED <<jobVars, latePulse, histVars, resumes, cancels>>

TaskStep(r) ==
  \/ EngineStarts(r) \/ FinalHeartbeat(r) \/ PostFinish(r) \/ FinishAnswered(r)
  \/ FinishFails(r) \/ TaskEnds(r)

Next ==
  \/ Reap \/ Silence \/ LatePulse \/ LateFinish \/ LateResume \/ RemoteCancel
  \/ \E s \in Starters : CloudResumes(s) \/ StartTask(s) \/ StartFails(s)
  \/ \E s \in Starters, a \in Agents : CreateJob(s, a) \/ ResumeJob(s, a)
  \/ \E c \in Cancellers, a \in Agents : CancelJob(c, a)
  \/ \E c \in Cancellers : CancelJobIfRunning(c)
  \/ \E r \in Runs : TaskStep(r) \/ Heartbeat(r) \/ HeartbeatFails(r) \/ CrawlEnds(r)
                       \/ CloudFinishes(r)
  \/ \E a \in Agents : Crash(a)

Spec == Init /\ [][Next]_vars

(* The reaper runs on its cadence, time passes, tasks go on, requests end  *)
(* (15 s timeout), and of the heartbeats sent every 2 s while the engine   *)
(* works one is answered.                                                  *)
Fairness ==
  /\ WF_vars(Reap) /\ WF_vars(Silence)
  /\ \A r \in Runs : WF_vars(TaskStep(r)) /\ WF_vars(Heartbeat(r))
FairSpec == Spec /\ Fairness

-----------------------------------------------------------------------------
(* Properties *)

(* A job runs only on the agent recorded for it (.docs/resilience.md:      *)
(* resume "is agent-exclusive"), which no sequence of resumptions,         *)
(* rejections and crashes on several agents changes.                       *)
EngineOnOwner == \A r \in Runs : Live(r) => agentOf[r] = host

(* Every engine of a job beyond the first has been started by a resume     *)
(* request that overlapped another on the same agent: cancellations, late  *)
(* requests, crashes and the registry's forgetting of whatever task is     *)
(* registered add none.  Without such a request the one engine is the one  *)
(* a cancel finds (resume_job's check of the registry before its awaits).  *)
EnginesAreCounted ==
  /\ \A a \in Agents : Cardinality(LiveOn(a)) <= 1 + overlaps
  /\ overlaps = 0 => \A r \in Runs : Live(r) => registered[agentOf[r]] = r

(* "Job is already running" (resume_job's 409): a job has one engine.      *)
OneEngine == \A r, q \in Runs : Live(r) /\ Live(q) => r = q

(* The status a job ends with is earned: done only when a task worked off  *)
(* its queue, cancelled only when somebody asked, through lost answers,    *)
(* late requests and double reports (finish_job's racing paths).           *)
OutcomeIsEarned ==
  /\ status = "done" => crawled
  /\ status = "cancelled" => asked

(* A finished job changes only by a resumption: late heartbeats, the       *)
(* reaper and late finishes leave it alone (_TERMINAL_STATUSES).           *)
Resumed ==
  \/ \E s \in Starters : startPc[s] = "resuming" /\ startPc'[s] = "accepted"
  \/ \E a \in lateResume : a \notin lateResume'
TerminalStays == [][status' # status /\ status \in Terminal => Resumed]_vars

(* A job without an engine is "never left as a phantom running"            *)
(* (.docs/resilience.md, reap_stale_jobs), if it was ever started.         *)
NeverPhantom ==
  (status = "running" /\ started # "null" /\ \A r \in Runs : ~Live(r))
    ~> (status # "running" \/ \E r \in Runs : Live(r))

(* "A late-arriving heartbeat revives an interrupted job": an engine that  *)
(* works is not shown as interrupted for ever, also when a resumed job is  *)
(* reaped before its first heartbeat.                                      *)
EngineIsShown ==
  \A r \in Runs :
    (status = "interrupted" /\ pc[r] = "crawling")
      ~> (status # "interrupted" \/ pc[r] # "crawling")

(* A cancellation reaches the engine wherever it was requested ("that's    *)
(* how a coordination cancel propagates into the local task").             *)
CancelStops ==
  \A r \in Runs : (cancel /\ pc[r] = "crawling") ~> (~cancel \/ pc[r] # "crawling")

(* "Whoever is actually running the engine ... is responsible for calling  *)
(* finish once it has actually stopped" (docstring of                      *)
(* coordination_cancel_job): a task that was cancelled after its engine    *)
(* had started has called finish.                                          *)
StoppedIsReported ==
  \A r \in Runs : (pc[r] = "closing" /\ outcome[r] = "cancelled") => r \in called
-----------------------------------------------------------------------------
(* The inductive invariant *)

(* Tasks and requests in progress belong to an agent, a job without a row  *)
(* has none, and what the cloud has accepted is on the job's agent.        *)
Carried ==
  /\ \A r \in Runs : pc[r] # "idle" => agentOf[r] \in Agents
  /\ \A s \in Starters : startPc[s] # "idle" => startAgent[s] \in Agents
  /\ \A s \in Starters :
       startPc[s] \in {"creating", "accepted"} => startAgent[s] = host
  /\ status = "none" =>
       /\ \A r \in Runs : ~Live(r)
       /\ \A s \in Starters : startPc[s] = "idle"

(* What a task is about to report, or has left under way, is earned.       *)
Backed(s) == (s = "done" => crawled) /\ (s = "cancelled" => asked)
Justified ==
  /\ \A r \in Runs : pc[r] \in {"ending", "draining", "posting"} => Backed(outcome[r])
  /\ \A s \in lateFinish : Backed(s)
  /\ cancel => asked
  /\ \A c \in Cancellers : cancelAgent[c] # None => asked

IInv == TypeOK /\ Carried /\ EngineOnOwner /\ Justified /\ OutcomeIsEarned

(* What is registered runs; with a request that may start a task, or with  *)
(* what is registered, an agent has at most one task more than there were  *)
(* overlapping requests.                                                   *)
Registry ==
  /\ \A a \in Agents, r \in Runs : registered[a] = r => Live(r) /\ agentOf[r] = a
  /\ overlaps = 0 =>
       /\ \A r \in Runs : Live(r) => registered[agentOf[r]] = r
       /\ \A a \in Agents : registered[a] # None => Waiting(a) = {}

Registered(a) == IF registered[a] = None THEN 0 ELSE 1

Counted ==
  \A a \in Agents :
    /\ IsFiniteSet(LiveOn(a)) /\ IsFiniteSet(Waiting(a))
    /\ Cardinality(LiveOn(a)) - Registered(a) <= overlaps
    /\ Cardinality(LiveOn(a)) + Cardinality(Waiting(a)) <= 1 + overlaps
=============================================================================
