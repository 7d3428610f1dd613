--------------------------- MODULE CrawlJob_proofs ---------------------------
(***************************************************************************)
(* Theorems about CrawlJob, for every number of agents, tasks, requests,   *)
(* resumptions, cancellations and crashes.                                 *)
(***************************************************************************)
EXTENDS CrawlJob, FiniteSetTheorems, TLAPS

Places ==
  {"idle", "created", "crawling", "ending", "draining", "posting", "closing"}

(* What Goto leaves behind is well-typed ...                               *)
LEMMA GotoTyped ==
  ASSUME TypeOK, NEW r \in Runs, NEW p \in Places, NEW o \in Terminal, Goto(r, p, o)
  PROVE  /\ pc' \in [Runs -> Places]
         /\ outcome' \in [Runs -> Terminal]
         /\ served' \in [Runs -> BOOLEAN]
         /\ registered' \in [Agents -> Runs \cup {None}]
         /\ lateFinish' \subseteq Terminal
         /\ UNCHANGED <<agentOf, latePulse, lateResume>>
<1>1. /\ pc' \in [Runs -> Places]
      /\ outcome' \in [Runs -> Terminal]
      /\ served' \in [Runs -> BOOLEAN]
  BY DEF Goto, TypeOK, Places
<1>2. registered' \in [Agents -> Runs \cup {None}]
  BY DEF Goto, TypeOK
<1>3. lateFinish' \subseteq Terminal
  BY DEF Goto, TypeOK
<1> QED
  BY <1>1, <1>2, <1>3 DEF Goto

(* ... and so is what task.cancel() does.                                  *)
LEMMA InterruptTyped ==
  ASSUME TypeOK, NEW r \in Runs, Interrupt(r)
  PROVE  /\ pc' \in [Runs -> Places]
         /\ outcome' \in [Runs -> Terminal]
         /\ served' \in [Runs -> BOOLEAN]
         /\ registered' \in [Agents -> Runs \cup {None}]
         /\ lateFinish' \subseteq Terminal
         /\ UNCHANGED <<agentOf, latePulse, lateResume>>
<1>1. outcome[r] \in Terminal /\ Interrupted \in Terminal
  BY DEF TypeOK, Terminal, Interrupted
<1>2. PICK p \in Places, o \in Terminal : Goto(r, p, o)
  BY <1>1 DEF Interrupt, Places
<1> QED
  BY <1>2, GotoTyped

-----------------------------------------------------------------------------
(* Every step is well-typed; that a late resume request has an agent rests *)
(* on requests in progress having one (Carried).                           *)
LEMMA TypeStep ==
  TypeOK /\ Carried /\ [Next]_vars
    => TypeOK'
<1> SUFFICES ASSUME TypeOK, Carried, [Next]_vars
             PROVE  TypeOK'
  OBVIOUS
<1> USE JobAssumption
    DEF TypeOK, Carried, Terminal, Ages, Places,
        jobVars, runVars, startVars, wireVars, histVars, counters
<1>1. CASE Reap
  BY <1>1 DEF Reap, Reaped
<1>2. CASE Silence
  BY <1>2 DEF Silence
<1>3. CASE LatePulse
  BY <1>3 DEF LatePulse, Pulse, Revived
<1>4. CASE LateFinish
  BY <1>4 DEF LateFinish, FinishJob
<1>5. CASE LateResume
  BY <1>5 DEF LateResume, Resume
<1>6. CASE RemoteCancel
  BY <1>6 DEF RemoteCancel
<1>7. ASSUME NEW s \in Starters, CloudResumes(s)
      PROVE  TypeOK'
  <2>1. /\ startPc' \in [Starters -> {"idle", "creating", "resuming", "accepted"}]
        /\ startAgent' \in [Starters -> Agents \cup {None}]
    BY <1>7 DEF CloudResumes
  <2>2. host' \in Agents \cup {None} /\ cancel' \in BOOLEAN
    BY <1>7 DEF CloudResumes, Resume, MayResume
  <2> QED
    BY <1>7, <2>1, <2>2 DEF CloudResumes, Resume
<1>8. ASSUME NEW s \in Starters, StartTask(s)
      PROVE  TypeOK'
  <2>1. startAgent[s] \in Agents \cup {None}
    OBVIOUS
  <2>2. PICK r \in Runs :
          /\ pc' = [pc EXCEPT ![r] = "created"]
          /\ agentOf' = [agentOf EXCEPT ![r] = startAgent[s]]
          /\ registered' = [registered EXCEPT ![startAgent[s]] = r]
          /\ UNCHANGED <<outcome, served, called>>
    BY <1>8 DEF StartTask, Spawn
  <2>3. pc' \in [Runs -> Places] /\ outcome' \in [Runs -> Terminal]
    BY <2>2
  <2>4. agentOf' \in [Runs -> Agents \cup {None}]
    BY <2>1, <2>2
  <2>5. registered' \in [Agents -> Runs \cup {None}]
    BY <2>1, <2>2
  <2>6. /\ startPc' \in [Starters -> {"idle", "creating", "resuming", "accepted"}]
        /\ startAgent' \in [Starters -> Agents \cup {None}]
    BY <1>8 DEF StartTask
  <2> QED
    BY <1>8, <2>2, <2>3, <2>4, <2>5, <2>6 DEF StartTask
<1>9. ASSUME NEW s \in Starters, StartFails(s)
      PROVE  TypeOK'
  <2>1. /\ startPc' \in [Starters -> {"idle", "creating", "resuming", "accepted"}]
        /\ startAgent' \in [Starters -> Agents \cup {None}]
    BY <1>9 DEF StartFails
  <2>2. lateResume' \subseteq Agents
    BY <1>9 DEF StartFails
  <2> QED
    BY <1>9, <2>1, <2>2 DEF StartFails
<1>10. ASSUME NEW s \in Starters, NEW a \in Agents, CreateJob(s, a)
      PROVE  TypeOK'
  BY <1>10 DEF CreateJob
<1>11. ASSUME NEW s \in Starters, NEW a \in Agents, ResumeJob(s, a)
      PROVE  TypeOK'
  BY <1>11 DEF ResumeJob, NotRunning
<1>12. ASSUME NEW c \in Cancellers, NEW a \in Agents, CancelJob(c, a)
      PROVE  TypeOK'
  <2>1. cancel' \in BOOLEAN /\ asked' \in BOOLEAN
    BY <1>12, Zenon DEF CancelJob
  <2>2. cancelAgent' \in [Cancellers -> Agents \cup {None}]
    BY <1>12 DEF CancelJob
  <2>3. cancels' \in 0..MaxCancels
    BY <1>12 DEF CancelJob
  <2> QED
    BY <1>12, <2>1, <2>2, <2>3 DEF CancelJob
<1>13. ASSUME NEW c \in Cancellers, CancelJobIfRunning(c)
      PROVE  TypeOK'
  <2> DEFINE r == registered[cancelAgent[c]]
  <2>1. cancelAgent[c] \in Agents
    BY <1>13 DEF CancelJobIfRunning
  <2>2. CASE r # None /\ Interrupt(r)
    <3>1. r \in Runs
      BY <2>1, <2>2
    <3> QED
      BY <1>13, <2>2, <3>1, InterruptTyped DEF CancelJobIfRunning
  <2>3. CASE UNCHANGED <<pc, agentOf, outcome, served, registered, wireVars>>
    BY <1>13, <2>3 DEF CancelJobIfRunning
  <2> QED
    BY <1>13, <2>2, <2>3 DEF CancelJobIfRunning
<1>14. ASSUME NEW r \in Runs, EngineStarts(r)
      PROVE  TypeOK'
  BY <1>14, GotoTyped DEF EngineStarts
<1>15. ASSUME NEW r \in Runs, FinalHeartbeat(r)
      PROVE  TypeOK'
  BY <1>15, GotoTyped DEF FinalHeartbeat, Pulse, Revived
<1>16. ASSUME NEW r \in Runs, PostFinish(r)
      PROVE  TypeOK'
  BY <1>16, GotoTyped DEF PostFinish
<1>17. ASSUME NEW r \in Runs, FinishAnswered(r)
      PROVE  TypeOK'
  BY <1>17, GotoTyped DEF FinishAnswered
<1>18. ASSUME NEW r \in Runs, FinishFails(r)
      PROVE  TypeOK'
  BY <1>18, GotoTyped DEF FinishFails
<1>19. ASSUME NEW r \in Runs, TaskEnds(r)
      PROVE  TypeOK'
  BY <1>19 DEF TaskEnds
<1>20. ASSUME NEW r \in Runs, Heartbeat(r)
      PROVE  TypeOK'
  <2>1. CASE SeesCancel /\ Interrupt(r)
    BY <1>20, <2>1, InterruptTyped DEF Heartbeat, Pulse, Revived
  <2>2. CASE UNCHANGED <<pc, agentOf, outcome, served, registered, wireVars>>
    BY <1>20, <2>2 DEF Heartbeat, Pulse, Revived
  <2> QED
    BY <1>20, <2>1, <2>2 DEF Heartbeat
<1>21. ASSUME NEW r \in Runs, HeartbeatFails(r)
      PROVE  TypeOK'
  BY <1>21 DEF HeartbeatFails, Pulse, Revived
<1>22. ASSUME NEW r \in Runs, CrawlEnds(r)
      PROVE  TypeOK'
  <2>1. crawled' \in BOOLEAN
    BY <1>22, Zenon DEF CrawlEnds
  <2>2. PICK o \in Terminal : Goto(r, "ending", o)
    BY <1>22 DEF CrawlEnds, Terminal
  <2> QED
    BY <1>22, <2>1, <2>2, GotoTyped DEF CrawlEnds
<1>23. ASSUME NEW r \in Runs, CloudFinishes(r)
      PROVE  TypeOK'
  BY <1>23 DEF CloudFinishes, FinishJob
<1>24. ASSUME NEW a \in Agents, Crash(a)
      PROVE  TypeOK'
  BY <1>24 DEF Crash
<1>25. CASE UNCHANGED vars
  BY <1>25 DEF vars
<1> QED
  BY <1>1, <1>2, <1>3, <1>4, <1>5, <1>6, <1>7, <1>8, <1>9,
     <1>10, <1>11, <1>12, <1>13, <1>14, <1>15, <1>16, <1>17, <1>18,
     <1>19, <1>20, <1>21, <1>22, <1>23, <1>24, <1>25 DEF Next, TaskStep

-----------------------------------------------------------------------------
(* Tasks stay on the job's agent: the cloud accepts a resumption only from *)
(* that agent, and a job without one has no task.                          *)
LEMMA CarriedStep ==
  TypeOK /\ Carried /\ EngineOnOwner /\ [Next]_vars
    => (Carried /\ EngineOnOwner)'
<1> SUFFICES ASSUME TypeOK, Carried, EngineOnOwner, [Next]_vars
             PROVE  (Carried /\ EngineOnOwner)'
  OBVIOUS
<1> USE JobAssumption
    DEF TypeOK, Carried, EngineOnOwner, Live, Terminal,
        jobVars, runVars, startVars, wireVars, histVars, counters
<1>1. CASE Reap
  BY <1>1 DEF Reap, Reaped
<1>2. CASE Silence
  BY <1>2 DEF Silence
<1>3. CASE LatePulse
  BY <1>3 DEF LatePulse, Pulse, Revived
<1>4. CASE LateFinish
  BY <1>4 DEF LateFinish, FinishJob
<1>5. CASE LateResume
  BY <1>5 DEF LateResume, Resume
<1>6. CASE RemoteCancel
  BY <1>6 DEF RemoteCancel
<1>7. ASSUME NEW s \in Starters, CloudResumes(s)
      PROVE  (Carried /\ EngineOnOwner)'
  BY <1>7 DEF CloudResumes, Resume, MayResume
<1>8. ASSUME NEW s \in Starters, StartTask(s)
      PROVE  (Carried /\ EngineOnOwner)'
  BY <1>8 DEF StartTask, Spawn
<1>9. ASSUME NEW s \in Starters, StartFails(s)
      PROVE  (Carried /\ EngineOnOwner)'
  BY <1>9 DEF StartFails
<1>10. ASSUME NEW s \in Starters, NEW a \in Agents, CreateJob(s, a)
      PROVE  (Carried /\ EngineOnOwner)'
  BY <1>10 DEF CreateJob
<1>11. ASSUME NEW s \in Starters, NEW a \in Agents, ResumeJob(s, a)
      PROVE  (Carried /\ EngineOnOwner)'
  BY <1>11 DEF ResumeJob, NotRunning
<1>12. ASSUME NEW c \in Cancellers, NEW a \in Agents, CancelJob(c, a)
      PROVE  (Carried /\ EngineOnOwner)'
  BY <1>12 DEF CancelJob
<1>13. ASSUME NEW c \in Cancellers, CancelJobIfRunning(c)
      PROVE  (Carried /\ EngineOnOwner)'
  BY <1>13 DEF CancelJobIfRunning, Interrupt, Interrupted, Goto
<1>14. ASSUME NEW r \in Runs, EngineStarts(r)
      PROVE  (Carried /\ EngineOnOwner)'
  BY <1>14 DEF EngineStarts, Goto
<1>15. ASSUME NEW r \in Runs, FinalHeartbeat(r)
      PROVE  (Carried /\ EngineOnOwner)'
  BY <1>15 DEF FinalHeartbeat, Goto, Pulse, Revived
<1>16. ASSUME NEW r \in Runs, PostFinish(r)
      PROVE  (Carried /\ EngineOnOwner)'
  BY <1>16 DEF PostFinish, Goto
<1>17. ASSUME NEW r \in Runs, FinishAnswered(r)
      PROVE  (Carried /\ EngineOnOwner)'
  BY <1>17 DEF FinishAnswered, Goto
<1>18. ASSUME NEW r \in Runs, FinishFails(r)
      PROVE  (Carried /\ EngineOnOwner)'
  BY <1>18 DEF FinishFails, Goto
<1>19. ASSUME NEW r \in Runs, TaskEnds(r)
      PROVE  (Carried /\ EngineOnOwner)'
  BY <1>19 DEF TaskEnds
<1>20. ASSUME NEW r \in Runs, Heartbeat(r)
      PROVE  (Carried /\ EngineOnOwner)'
  BY <1>20 DEF Heartbeat, Pulse, Revived, Interrupt, Interrupted, Goto, SeesCancel
<1>21. ASSUME NEW r \in Runs, HeartbeatFails(r)
      PROVE  (Carried /\ EngineOnOwner)'
  BY <1>21 DEF HeartbeatFails, Pulse, Revived
<1>22. ASSUME NEW r \in Runs, CrawlEnds(r)
      PROVE  (Carried /\ EngineOnOwner)'
  BY <1>22 DEF CrawlEnds, Goto
<1>23. ASSUME NEW r \in Runs, CloudFinishes(r)
      PROVE  (Carried /\ EngineOnOwner)'
  BY <1>23 DEF CloudFinishes, FinishJob
<1>24. ASSUME NEW a \in Agents, Crash(a)
      PROVE  (Carried /\ EngineOnOwner)'
  BY <1>24 DEF Crash
<1>25. CASE UNCHANGED vars
  BY <1>25 DEF vars
<1> QED
  BY <1>1, <1>2, <1>3, <1>4, <1>5, <1>6, <1>7, <1>8, <1>9,
     <1>10, <1>11, <1>12, <1>13, <1>14, <1>15, <1>16, <1>17, <1>18,
     <1>19, <1>20, <1>21, <1>22, <1>23, <1>24, <1>25 DEF Next, TaskStep

-----------------------------------------------------------------------------
(* Reports are earned from the moment a task decides on them.              *)
LEMMA JustifiedStep ==
  TypeOK /\ Justified /\ OutcomeIsEarned /\ [Next]_vars
    => (Justified /\ OutcomeIsEarned)'
<1> SUFFICES ASSUME TypeOK, Justified, OutcomeIsEarned, [Next]_vars
             PROVE  (Justified /\ OutcomeIsEarned)'
  OBVIOUS
<1> USE JobAssumption
    DEF TypeOK, Justified, OutcomeIsEarned, Backed, Terminal,
        jobVars, runVars, startVars, wireVars, histVars, counters
<1>1. CASE Reap
  BY <1>1 DEF Reap, Reaped
<1>2. CASE Silence
  BY <1>2 DEF Silence
<1>3. CASE LatePulse
  BY <1>3 DEF LatePulse, Pulse, Revived
<1>4. CASE LateFinish
  BY <1>4 DEF LateFinish, FinishJob
<1>5. CASE LateResume
  BY <1>5 DEF LateResume, Resume
<1>6. CASE RemoteCancel
  BY <1>6 DEF RemoteCancel
<1>7. ASSUME NEW s \in Starters, CloudResumes(s)
      PROVE  (Justified /\ OutcomeIsEarned)'
  BY <1>7 DEF CloudResumes, Resume, MayResume
<1>8. ASSUME NEW s \in Starters, StartTask(s)
      PROVE  (Justified /\ OutcomeIsEarned)'
  BY <1>8 DEF StartTask, Spawn
<1>9. ASSUME NEW s \in Starters, StartFails(s)
      PROVE  (Justified /\ OutcomeIsEarned)'
  BY <1>9 DEF StartFails
<1>10. ASSUME NEW s \in Starters, NEW a \in Agents, CreateJob(s, a)
      PROVE  (Justified /\ OutcomeIsEarned)'
  BY <1>10 DEF CreateJob
<1>11. ASSUME NEW s \in Starters, NEW a \in Agents, ResumeJob(s, a)
      PROVE  (Justified /\ OutcomeIsEarned)'
  BY <1>11 DEF ResumeJob, NotRunning
<1>12. ASSUME NEW c \in Cancellers, NEW a \in Agents, CancelJob(c, a)
      PROVE  (Justified /\ OutcomeIsEarned)'
  BY <1>12 DEF CancelJob
<1>13. ASSUME NEW c \in Cancellers, CancelJobIfRunning(c)
      PROVE  (Justified /\ OutcomeIsEarned)'
  BY <1>13 DEF CancelJobIfRunning, Interrupt, Interrupted, Goto
<1>14. ASSUME NEW r \in Runs, EngineStarts(r)
      PROVE  (Justified /\ OutcomeIsEarned)'
  BY <1>14 DEF EngineStarts, Goto
<1>15. ASSUME NEW r \in Runs, FinalHeartbeat(r)
      PROVE  (Justified /\ OutcomeIsEarned)'
  BY <1>15 DEF FinalHeartbeat, Goto, Pulse, Revived
<1>16. ASSUME NEW r \in Runs, PostFinish(r)
      PROVE  (Justified /\ OutcomeIsEarned)'
  BY <1>16 DEF PostFinish, Goto
<1>17. ASSUME NEW r \in Runs, FinishAnswered(r)
      PROVE  (Justified /\ OutcomeIsEarned)'
  BY <1>17 DEF FinishAnswered, Goto
<1>18. ASSUME NEW r \in Runs, FinishFails(r)
      PROVE  (Justified /\ OutcomeIsEarned)'
  BY <1>18 DEF FinishFails, Goto
<1>19. ASSUME NEW r \in Runs, TaskEnds(r)
      PROVE  (Justified /\ OutcomeIsEarned)'
  BY <1>19 DEF TaskEnds
<1>20. ASSUME NEW r \in Runs, Heartbeat(r)
      PROVE  (Justified /\ OutcomeIsEarned)'
  BY <1>20 DEF Heartbeat, Pulse, Revived, Interrupt, Interrupted, Goto, SeesCancel
<1>21. ASSUME NEW r \in Runs, HeartbeatFails(r)
      PROVE  (Justified /\ OutcomeIsEarned)'
  BY <1>21 DEF HeartbeatFails, Pulse, Revived
<1>22. ASSUME NEW r \in Runs, CrawlEnds(r)
      PROVE  (Justified /\ OutcomeIsEarned)'
  BY <1>22 DEF CrawlEnds, Goto
<1>23. ASSUME NEW r \in Runs, CloudFinishes(r)
      PROVE  (Justified /\ OutcomeIsEarned)'
  BY <1>23 DEF CloudFinishes, FinishJob
<1>24. ASSUME NEW a \in Agents, Crash(a)
      PROVE  (Justified /\ OutcomeIsEarned)'
  BY <1>24 DEF Crash
<1>25. CASE UNCHANGED vars
  BY <1>25 DEF vars
<1> QED
  BY <1>1, <1>2, <1>3, <1>4, <1>5, <1>6, <1>7, <1>8, <1>9,
     <1>10, <1>11, <1>12, <1>13, <1>14, <1>15, <1>16, <1>17, <1>18,
     <1>19, <1>20, <1>21, <1>22, <1>23, <1>24, <1>25 DEF Next, TaskStep

-----------------------------------------------------------------------------
(* The tasks of an agent and the requests that may start one, counted.     *)

(* Nothing starts, and where a task stops, nothing is registered any more. *)
Shrunk ==
  /\ overlaps' = overlaps
  /\ \A a \in Agents :
       /\ LiveOn(a)' \subseteq LiveOn(a) /\ Waiting(a)' \subseteq Waiting(a)
       /\ registered'[a] # registered[a] =>
            registered'[a] = None /\ \E r \in LiveOn(a) : r \notin LiveOn(a)'
       /\ (\E r \in LiveOn(a) : r \notin LiveOn(a)') => registered'[a] = None

(* Such a step keeps the count: with what is no longer registered, a task  *)
(* has gone.                                                               *)
LEMMA ShrunkKeeps ==
  ASSUME TypeOK, TypeOK', Carried', Registry, Counted, Shrunk
  PROVE  (Registry /\ Counted)'
<1> USE JobAssumption
<1>1. ASSUME NEW a \in Agents
      PROVE  /\ IsFiniteSet(LiveOn(a)') /\ IsFiniteSet(Waiting(a)')
             /\ Cardinality(LiveOn(a)') - Registered(a)' <= overlaps
             /\ Cardinality(LiveOn(a)') + Cardinality(Waiting(a)') <= 1 + overlaps
  <2>1. IsFiniteSet(LiveOn(a)) /\ IsFiniteSet(Waiting(a))
    BY DEF Counted
  <2>2. /\ IsFiniteSet(LiveOn(a)') /\ Cardinality(LiveOn(a)') <= Cardinality(LiveOn(a))
        /\ IsFiniteSet(Waiting(a)') /\ Cardinality(Waiting(a)') <= Cardinality(Waiting(a))
    BY <2>1, FS_Subset DEF Shrunk
  <2>3. /\ Cardinality(LiveOn(a)) \in Nat /\ Cardinality(LiveOn(a)') \in Nat
        /\ Cardinality(Waiting(a)) \in Nat /\ Cardinality(Waiting(a)') \in Nat
    BY <2>1, <2>2, FS_CardinalityType
  <2>4. overlaps \in Nat
    BY DEF TypeOK
  <2>5. Cardinality(LiveOn(a)') + Cardinality(Waiting(a)') <= 1 + overlaps
    BY <2>2, <2>3, <2>4 DEF Counted
  <2>6. Cardinality(LiveOn(a)) - Registered(a) <= overlaps
    BY DEF Counted
  <2>7. CASE registered'[a] = registered[a]
    <3>1. Registered(a)' = Registered(a) /\ Registered(a) \in Nat
      BY <2>7 DEF Registered
    <3> QED
      BY <2>2, <2>3, <2>4, <2>5, <2>6, <3>1
  <2>8. CASE registered'[a] # registered[a]
    <3>1. LiveOn(a)' # LiveOn(a)
      BY <2>8 DEF Shrunk
    <3>2. Cardinality(LiveOn(a)') # Cardinality(LiveOn(a))
      BY <2>1, <3>1, FS_Subset DEF Shrunk
    <3>3. Registered(a)' = 0 /\ Registered(a) \in {0, 1}
      BY <2>8 DEF Shrunk, Registered
    <3> QED
      BY <2>2, <2>3, <2>4, <2>5, <2>6, <3>2, <3>3
  <2> QED
    BY <2>2, <2>5, <2>7, <2>8
<1>2. Counted'
  BY <1>1 DEF Counted, Shrunk
<1>3. ASSUME NEW a \in Agents, NEW r \in Runs, registered'[a] = r
      PROVE  Live(r)' /\ agentOf'[r] = a
  <2>1. registered[a] = r
    BY <1>3 DEF Shrunk
  <2>2. r \in LiveOn(a)
    BY <2>1 DEF Registry, LiveOn
  <2>3. r \in LiveOn(a)'
    BY <1>3, <2>2 DEF Shrunk
  <2> QED
    BY <2>3 DEF LiveOn
<1>4. ASSUME overlaps = 0, NEW r \in Runs, Live(r)', agentOf'[r] \in Agents
      PROVE  registered'[agentOf'[r]] = r
  <2>1. PICK a \in Agents : agentOf'[r] = a
    BY <1>4
  <2>2. r \in LiveOn(a)'
    BY <1>4, <2>1 DEF LiveOn
  <2>3. r \in LiveOn(a) /\ registered[a] = r
    BY <1>4, <2>2 DEF Shrunk, Registry, LiveOn
  <2>4. \A q \in LiveOn(a) : q = r
    BY <1>4, <2>3 DEF Registry, LiveOn
  <2> QED
    BY <2>1, <2>2, <2>3, <2>4 DEF Shrunk
<1>5. ASSUME overlaps = 0, NEW a \in Agents, registered'[a] # None
      PROVE  Waiting(a)' = {}
  BY <1>5 DEF Shrunk, Registry
<1>6. \A r \in Runs : Live(r)' => agentOf'[r] \in Agents
  BY DEF Carried, Live
<1>7. Registry'
  BY <1>3, <1>4, <1>5, <1>6 DEF Registry, Shrunk
<1> QED
  BY <1>2, <1>7

(* Where tasks, requests and the registry stay, nothing changes.           *)
LEMMA StillShrunk ==
  ASSUME UNCHANGED <<pc, agentOf, registered, startPc, startAgent, overlaps>>
  PROVE  Shrunk
BY DEF Shrunk, LiveOn, Waiting, Live

(* A task that has begun goes on, or ends and clears the registry.         *)
LEMMA GotoShrunk ==
  ASSUME TypeOK, Carried, NEW r \in Runs, Live(r), NEW p, NEW o, Goto(r, p, o),
         p \in {"crawling", "ending", "draining", "posting", "closing"},
         UNCHANGED <<startPc, startAgent, overlaps>>
  PROVE  Shrunk
<1>1. /\ pc' = [pc EXCEPT ![r] = p] /\ UNCHANGED agentOf
      /\ registered' = IF p = "closing" THEN [registered EXCEPT ![agentOf[r]] = None]
                       ELSE registered
  BY DEF Goto
<1>2. PICK b \in Agents : b = agentOf[r] /\ r \in LiveOn(b)
  BY DEF Carried, Live, LiveOn
<1>3. ASSUME NEW a \in Agents
      PROVE  /\ LiveOn(a)' \subseteq LiveOn(a)
             /\ Waiting(a)' \subseteq Waiting(a)
  BY <1>1 DEF LiveOn, Waiting, Live, TypeOK
<1>4. CASE p = "closing"
  <2>1. r \notin LiveOn(b)' /\ ~Live(r)'
    BY <1>1, <1>4 DEF LiveOn, Live, TypeOK
  <2>2. \A q \in Runs : q # r => (Live(q)' <=> Live(q))
    BY <1>1 DEF Live, TypeOK
  <2>3. \A a \in Agents : a # b => LiveOn(a)' = LiveOn(a)
    BY <1>1, <1>2, <2>1, <2>2 DEF LiveOn
  <2>4. /\ registered'[b] = None
        /\ \A a \in Agents : a # b => registered'[a] = registered[a]
    BY <1>1, <1>2, <1>4 DEF TypeOK
  <2> QED
    BY <1>2, <1>3, <2>1, <2>3, <2>4 DEF Shrunk
<1>5. CASE p # "closing"
  <2>1. \A a \in Agents : LiveOn(a)' = LiveOn(a)
    BY <1>1, <1>5 DEF LiveOn, Live, TypeOK
  <2> QED
    BY <1>1, <1>3, <1>5, <2>1 DEF Shrunk
<1> QED
  BY <1>4, <1>5

(* So does task.cancel(), which a task that is closing does not feel.      *)
LEMMA InterruptShrunk ==
  ASSUME TypeOK, Carried, NEW r \in Runs, Interrupt(r),
         UNCHANGED <<startPc, startAgent, overlaps>>
  PROVE  Shrunk
<1>1. Live(r)
  BY DEF Interrupt, Live
<1>2. PICK p \in {"ending", "draining", "closing"} : \E o : Goto(r, p, o)
  BY DEF Interrupt
<1>3. PICK o : Goto(r, p, o)
  BY <1>2
<1> QED
  BY <1>1, <1>2, <1>3, GotoShrunk

(* A task is started for a request that was waiting: the count stays.      *)
LEMMA StartKeeps ==
  ASSUME TypeOK, TypeOK', Carried, Carried', Registry, Counted,
         NEW s \in Starters, StartTask(s)
  PROVE  (Registry /\ Counted)'
<1> USE JobAssumption
<1>1. PICK b \in Agents : b = startAgent[s] /\ s \in Waiting(b) /\ UNCHANGED overlaps
  BY DEF StartTask, Carried, Waiting, histVars
<1>2. PICK r \in Runs :
        /\ pc[r] = "idle"
        /\ pc' = [pc EXCEPT ![r] = "created"]
        /\ agentOf' = [agentOf EXCEPT ![r] = b]
        /\ registered' = [registered EXCEPT ![b] = r]
  BY <1>1 DEF StartTask, Spawn
<1>3. LiveOn(b)' = LiveOn(b) \cup {r} /\ r \notin LiveOn(b)
  BY <1>1, <1>2 DEF LiveOn, Live, TypeOK
<1>4. Waiting(b)' = Waiting(b) \ {s}
  BY <1>1 DEF StartTask, Waiting, TypeOK
<1>5. \A a \in Agents : a # b => LiveOn(a)' = LiveOn(a) /\ Waiting(a)' = Waiting(a)
  <2>1. ASSUME NEW a \in Agents, a # b
        PROVE  LiveOn(a)' = LiveOn(a)
    BY <1>2, <2>1 DEF LiveOn, Live, TypeOK
  <2>2. ASSUME NEW a \in Agents, a # b
        PROVE  Waiting(a)' = Waiting(a)
    BY <1>1, <2>2 DEF StartTask, Waiting, TypeOK
  <2> QED
    BY <2>1, <2>2
<1>6. /\ registered'[b] = r
      /\ \A a \in Agents : a # b => registered'[a] = registered[a]
  BY <1>1, <1>2 DEF TypeOK
<1>7. /\ IsFiniteSet(LiveOn(b)) /\ IsFiniteSet(Waiting(b)) /\ overlaps \in Nat
      /\ Cardinality(LiveOn(b)) + Cardinality(Waiting(b)) <= 1 + overlaps
  BY <1>1 DEF Counted, TypeOK
<1>8. /\ Cardinality(LiveOn(b)) \in Nat /\ Cardinality(Waiting(b)) \in Nat
      /\ Cardinality(Waiting(b)) # 0
  BY <1>1, <1>7, FS_CardinalityType, FS_EmptySet
<1>9. /\ IsFiniteSet(LiveOn(b)') /\ Cardinality(LiveOn(b)') = Cardinality(LiveOn(b)) + 1
      /\ IsFiniteSet(Waiting(b)') /\ Cardinality(Waiting(b)') = Cardinality(Waiting(b)) - 1
  BY <1>1, <1>3, <1>4, <1>7, FS_AddElement, FS_RemoveElement
<1>10. Counted'
  <2>1. ASSUME NEW a \in Agents
        PROVE  /\ IsFiniteSet(LiveOn(a)') /\ IsFiniteSet(Waiting(a)')
               /\ Cardinality(LiveOn(a)') - Registered(a)' <= overlaps
               /\ Cardinality(LiveOn(a)') + Cardinality(Waiting(a)') <= 1 + overlaps
    <3>1. CASE a = b
      <4>1. Registered(b)' = 1
        BY <1>2, <1>6 DEF Registered
      <4> QED
        BY <1>7, <1>8, <1>9, <3>1, <4>1
    <3>2. CASE a # b
      BY <1>5, <1>6, <3>2 DEF Counted, Registered
    <3> QED
      BY <3>1, <3>2
  <2> QED
    BY <1>1, <2>1 DEF Counted
<1>11. ASSUME overlaps = 0
       PROVE  LiveOn(b) = {} /\ Waiting(b)' = {}
  <2>1. Cardinality(LiveOn(b)) = 0 /\ Cardinality(Waiting(b)') = 0
    BY <1>7, <1>8, <1>9, <1>11
  <2> QED
    BY <1>7, <1>9, <2>1, FS_EmptySet
<1>12. ASSUME NEW a \in Agents, NEW q \in Runs, registered'[a] = q
       PROVE  Live(q)' /\ agentOf'[q] = a
  <2>1. CASE a = b
    BY <1>2, <1>6, <1>12, <2>1 DEF Live, TypeOK
  <2>2. CASE a # b
    BY <1>2, <1>6, <1>12, <2>2 DEF Registry, Live, TypeOK
  <2> QED
    BY <2>1, <2>2
<1>13. ASSUME overlaps = 0, NEW q \in Runs, Live(q)'
       PROVE  registered'[agentOf'[q]] = q
  <2>1. CASE q = r
    BY <1>2, <1>6, <2>1 DEF TypeOK
  <2>2. CASE q # r
    <3>1. Live(q) /\ agentOf'[q] = agentOf[q] /\ agentOf[q] \in Agents
      BY <1>2, <1>13, <2>2 DEF Live, TypeOK, Carried
    <3>2. agentOf[q] # b
      BY <1>11, <1>13, <3>1 DEF LiveOn
    <3> QED
      BY <1>6, <1>13, <3>1, <3>2 DEF Registry
  <2> QED
    BY <2>1, <2>2
<1>14. ASSUME overlaps = 0, NEW a \in Agents, registered'[a] # None
       PROVE  Waiting(a)' = {}
  BY <1>5, <1>6, <1>11, <1>14 DEF Registry
<1> QED
  BY <1>1, <1>10, <1>12, <1>13, <1>14 DEF Registry

(* A request begins where nothing is registered; if it is not alone, it is *)
(* counted.                                                                *)
LEMMA RequestKeeps ==
  ASSUME TypeOK, TypeOK', Registry, Counted, NEW s \in Starters, NEW b \in Agents,
         registered[b] = None, startPc[s] = "idle",
         NEW p \in {"creating", "resuming"},
         startPc' = [startPc EXCEPT ![s] = p],
         startAgent' = [startAgent EXCEPT ![s] = b],
         overlaps' = IF Waiting(b) = {} THEN overlaps ELSE overlaps + 1,
         UNCHANGED <<pc, agentOf, registered>>
  PROVE  (Registry /\ Counted)'
<1> USE JobAssumption
<1>1. \A a \in Agents : LiveOn(a)' = LiveOn(a) /\ Registered(a)' = Registered(a)
  BY DEF LiveOn, Live, Registered
<1>2. Waiting(b)' = Waiting(b) \cup {s} /\ s \notin Waiting(b)
  BY DEF Waiting, TypeOK
<1>3. \A a \in Agents : a # b => Waiting(a)' = Waiting(a)
  BY DEF Waiting, TypeOK
<1>4. overlaps \in Nat /\ overlaps' \in Nat /\ overlaps <= overlaps'
  BY DEF TypeOK
<1>5. /\ IsFiniteSet(LiveOn(b)) /\ IsFiniteSet(Waiting(b))
      /\ Cardinality(LiveOn(b)) <= overlaps
      /\ Cardinality(LiveOn(b)) + Cardinality(Waiting(b)) <= 1 + overlaps
      /\ Cardinality(LiveOn(b)) \in Nat /\ Cardinality(Waiting(b)) \in Nat
  <2>1. /\ IsFiniteSet(LiveOn(b)) /\ IsFiniteSet(Waiting(b))
        /\ Cardinality(LiveOn(b)) - Registered(b) <= overlaps
        /\ Cardinality(LiveOn(b)) + Cardinality(Waiting(b)) <= 1 + overlaps
    BY DEF Counted
  <2>2. Registered(b) = 0
    BY DEF Registered
  <2> QED
    BY <1>4, <2>1, <2>2, FS_CardinalityType
<1>6. IsFiniteSet(Waiting(b)') /\ Cardinality(Waiting(b)') = Cardinality(Waiting(b)) + 1
  BY <1>2, <1>5, FS_AddElement
<1>7. Waiting(b) = {} => Cardinality(Waiting(b)) = 0
  BY FS_EmptySet
<1>8. Counted'
  <2>1. ASSUME NEW a \in Agents
        PROVE  /\ IsFiniteSet(LiveOn(a)') /\ IsFiniteSet(Waiting(a)')
               /\ Cardinality(LiveOn(a)') - Registered(a)' <= overlaps'
               /\ Cardinality(LiveOn(a)') + Cardinality(Waiting(a)') <= 1 + overlaps'
    <3>1. CASE a = b
      <4>1. Registered(b)' = 0
        BY DEF Registered
      <4>2. Cardinality(LiveOn(b)') = Cardinality(LiveOn(b)) /\ IsFiniteSet(LiveOn(b)')
        BY <1>1, <1>5
      <4>3. Cardinality(LiveOn(b)) + Cardinality(Waiting(b)) + 1 <= 1 + overlaps'
        <5>1. CASE Waiting(b) = {}
          BY <1>4, <1>5, <1>7, <5>1
        <5>2. CASE Waiting(b) # {}
          BY <1>4, <1>5, <5>2
        <5> QED
          BY <5>1, <5>2
      <4> QED
        BY <1>4, <1>5, <1>6, <3>1, <4>1, <4>2, <4>3
    <3>2. CASE a # b
      <4>1. /\ IsFiniteSet(LiveOn(a)) /\ IsFiniteSet(Waiting(a))
            /\ Cardinality(LiveOn(a)) - Registered(a) <= overlaps
            /\ Cardinality(LiveOn(a)) + Cardinality(Waiting(a)) <= 1 + overlaps
        BY DEF Counted
      <4>2. /\ Cardinality(LiveOn(a)) \in Nat /\ Cardinality(Waiting(a)) \in Nat
            /\ Registered(a) \in {0, 1}
        BY <4>1, FS_CardinalityType DEF Registered
      <4>3. /\ LiveOn(a)' = LiveOn(a) /\ Registered(a)' = Registered(a)
            /\ Waiting(a)' = Waiting(a)
        BY <1>1, <1>3, <3>2
      <4> QED
        BY <1>4, <4>1, <4>2, <4>3
    <3> QED
      BY <3>1, <3>2
  <2> QED
    BY <2>1 DEF Counted
<1>9. overlaps' = 0 => overlaps = 0
  BY <1>4
<1>10. overlaps' = 0 => \A a \in Agents : registered'[a] # None => Waiting(a)' = {}
  BY <1>3, <1>9 DEF Registry
<1>11. overlaps' = 0 => \A r \in Runs : Live(r)' => registered'[agentOf'[r]] = r
  BY <1>9 DEF Registry, Live
<1>12. \A a \in Agents, r \in Runs : registered'[a] = r => Live(r)' /\ agentOf'[r] = a
  BY DEF Registry, Live
<1> QED
  BY <1>8, <1>10, <1>11, <1>12 DEF Registry

(* A crash leaves nothing on its agent.                                    *)
LEMMA CrashShrunk ==
  ASSUME TypeOK, Carried, Registry, NEW b \in Agents, Crash(b)
  PROVE  Shrunk
<1> USE JobAssumption
<1>1. /\ pc' = [r \in Runs |-> IF agentOf[r] = b THEN "idle" ELSE pc[r]]
      /\ agentOf' = [r \in Runs |-> IF agentOf[r] = b THEN None ELSE agentOf[r]]
      /\ registered' = [registered EXCEPT ![b] = None]
      /\ startPc' = [s \in Starters |-> IF startAgent[s] = b THEN "idle" ELSE startPc[s]]
      /\ startAgent' = [s \in Starters |-> IF startAgent[s] = b THEN None ELSE startAgent[s]]
      /\ UNCHANGED overlaps
  BY DEF Crash, histVars
<1>2. LiveOn(b)' = {} /\ \A a \in Agents : a # b => LiveOn(a)' = LiveOn(a)
  BY <1>1 DEF LiveOn, Live
<1>3. Waiting(b)' = {} /\ \A a \in Agents : a # b => Waiting(a)' = Waiting(a)
  BY <1>1 DEF Waiting
<1>4. /\ registered'[b] = None
      /\ \A a \in Agents : a # b => registered'[a] = registered[a]
  BY <1>1 DEF TypeOK
<1>5. registered[b] # None => registered[b] \in LiveOn(b)
  BY DEF Registry, LiveOn, TypeOK
<1> QED
  BY <1>1, <1>2, <1>3, <1>4, <1>5 DEF Shrunk

(* The steps together.                                                     *)
LEMMA CountedStep ==
  TypeOK /\ TypeOK' /\ Carried /\ Carried' /\ Registry /\ Counted /\ [Next]_vars
    => (Registry /\ Counted)'
<1> SUFFICES ASSUME TypeOK, TypeOK', Carried, Carried', Registry, Counted, [Next]_vars
             PROVE  (Registry /\ Counted)'
  OBVIOUS
<1> USE DEF jobVars, runVars, startVars, wireVars, histVars, counters
<1>1. CASE Reap \/ Silence \/ LatePulse \/ LateFinish \/ LateResume \/ RemoteCancel
  <2>1. UNCHANGED <<pc, agentOf, registered, startPc, startAgent, overlaps>>
    BY <1>1 DEF Reap, Silence, LatePulse, LateFinish, LateResume, RemoteCancel
  <2> QED
    BY <2>1, StillShrunk, ShrunkKeeps
<1>2. ASSUME NEW s \in Starters, CloudResumes(s) \/ StartFails(s)
      PROVE  Shrunk
  <2>1. /\ UNCHANGED <<pc, agentOf, registered, overlaps>>
        /\ \/ /\ startPc[s] = "resuming"
              /\ startPc' = [startPc EXCEPT ![s] = "accepted"]
              /\ UNCHANGED startAgent
           \/ /\ startPc' = [startPc EXCEPT ![s] = "idle"]
              /\ startAgent' = [startAgent EXCEPT ![s] = None]
    BY <1>2 DEF CloudResumes, StartFails
  <2>2. \A a \in Agents : LiveOn(a)' = LiveOn(a)
    BY <2>1 DEF LiveOn, Live
  <2>3. \A a \in Agents : Waiting(a)' \subseteq Waiting(a)
    BY <2>1 DEF Waiting, TypeOK
  <2> QED
    BY <2>1, <2>2, <2>3 DEF Shrunk
<1>3. ASSUME NEW s \in Starters, NEW a \in Agents, CreateJob(s, a)
      PROVE  (Registry /\ Counted)'
  <2>1. CASE UNCHANGED startVars
    <3>1. UNCHANGED <<pc, agentOf, registered, startPc, startAgent, overlaps>>
      BY <1>3, <2>1 DEF CreateJob
    <3> QED
      BY <3>1, StillShrunk, ShrunkKeeps
  <2>2. CASE startPc' = [startPc EXCEPT ![s] = "creating"]
             /\ startAgent' = [startAgent EXCEPT ![s] = a]
    <3>1. Waiting(a) = {} /\ registered[a] = None
      BY <1>3, JobAssumption DEF CreateJob, Carried, Registry, Waiting, TypeOK
    <3>2. /\ startPc[s] = "idle" /\ UNCHANGED <<pc, agentOf, registered>>
          /\ overlaps' = IF Waiting(a) = {} THEN overlaps ELSE overlaps + 1
      BY <1>3, <3>1 DEF CreateJob
    <3> QED
      BY <2>2, <3>1, <3>2, RequestKeeps
  <2> QED
    BY <1>3, <2>1, <2>2 DEF CreateJob
<1>4. ASSUME NEW s \in Starters, NEW a \in Agents, ResumeJob(s, a)
      PROVE  (Registry /\ Counted)'
  <2>1. /\ registered[a] = None /\ startPc[s] = "idle"
        /\ startPc' = [startPc EXCEPT ![s] = "resuming"]
        /\ startAgent' = [startAgent EXCEPT ![s] = a]
        /\ overlaps' = IF Waiting(a) = {} THEN overlaps ELSE overlaps + 1
        /\ UNCHANGED <<pc, agentOf, registered>>
    BY <1>4 DEF ResumeJob, NotRunning
  <2> QED
    BY <2>1, RequestKeeps
<1>5. ASSUME NEW c \in Cancellers, NEW a \in Agents, CancelJob(c, a)
      PROVE  Shrunk
  <2>1. UNCHANGED <<pc, agentOf, registered, startPc, startAgent, overlaps>>
    BY <1>5 DEF CancelJob
  <2> QED
    BY <2>1, StillShrunk
<1>6. ASSUME NEW c \in Cancellers, CancelJobIfRunning(c)
      PROVE  Shrunk
  <2> DEFINE r == registered[cancelAgent[c]]
  <2>1. UNCHANGED <<startPc, startAgent, overlaps>>
    BY <1>6 DEF CancelJobIfRunning
  <2>2. r \in Runs \cup {None}
    BY <1>6 DEF CancelJobIfRunning, TypeOK
  <2>3. CASE r # None /\ Interrupt(r)
    BY <2>1, <2>2, <2>3, InterruptShrunk
  <2>4. CASE UNCHANGED <<pc, agentOf, outcome, served, registered, wireVars>>
    BY <2>1, <2>4, StillShrunk
  <2> QED
    BY <1>6, <2>3, <2>4 DEF CancelJobIfRunning
<1>7. ASSUME NEW r \in Runs,
             EngineStarts(r) \/ FinalHeartbeat(r) \/ PostFinish(r) \/ FinishAnswered(r)
               \/ FinishFails(r) \/ CrawlEnds(r)
      PROVE  Shrunk
  <2>1. Live(r) /\ UNCHANGED <<startPc, startAgent, overlaps>>
    BY <1>7 DEF EngineStarts, FinalHeartbeat, PostFinish, FinishAnswered, FinishFails,
                CrawlEnds, Live
  <2>2. PICK p \in {"crawling", "ending", "draining", "posting", "closing"} :
          \E o : Goto(r, p, o)
    BY <1>7 DEF EngineStarts, FinalHeartbeat, PostFinish, FinishAnswered, FinishFails,
                CrawlEnds
  <2>3. PICK o : Goto(r, p, o)
    BY <2>2
  <2> QED
    BY <2>1, <2>2, <2>3, GotoShrunk
<1>8. ASSUME NEW r \in Runs, TaskEnds(r)
      PROVE  Shrunk
  <2>1. /\ pc[r] = "closing" /\ pc' = [pc EXCEPT ![r] = "idle"]
        /\ agentOf' = [agentOf EXCEPT ![r] = None]
        /\ UNCHANGED <<registered, startPc, startAgent, overlaps>>
    BY <1>8 DEF TaskEnds
  <2>2. \A a \in Agents : LiveOn(a)' = LiveOn(a) /\ Waiting(a)' = Waiting(a)
    BY <2>1 DEF LiveOn, Live, Waiting, TypeOK
  <2> QED
    BY <2>1, <2>2 DEF Shrunk
<1>9. ASSUME NEW r \in Runs, Heartbeat(r)
      PROVE  Shrunk
  <2>1. UNCHANGED <<startPc, startAgent, overlaps>>
    BY <1>9 DEF Heartbeat
  <2>2. CASE Interrupt(r)
    BY <2>1, <2>2, InterruptShrunk
  <2>3. CASE UNCHANGED <<pc, agentOf, outcome, served, registered, wireVars>>
    BY <2>1, <2>3, StillShrunk
  <2> QED
    BY <1>9, <2>2, <2>3 DEF Heartbeat
<1>10. ASSUME NEW r \in Runs, HeartbeatFails(r) \/ CloudFinishes(r)
       PROVE  Shrunk
  <2>1. UNCHANGED <<pc, agentOf, registered, startPc, startAgent, overlaps>>
    BY <1>10 DEF HeartbeatFails, CloudFinishes
  <2> QED
    BY <2>1, StillShrunk
<1>11. CASE UNCHANGED vars
  <2>1. UNCHANGED <<pc, agentOf, registered, startPc, startAgent, overlaps>>
    BY <1>11 DEF vars
  <2> QED
    BY <2>1, StillShrunk, ShrunkKeeps
<1>12. Shrunk => (Registry /\ Counted)'
  BY ShrunkKeeps
<1>13. CASE \E r \in Runs : TaskStep(r) \/ Heartbeat(r) \/ HeartbeatFails(r) \/ CrawlEnds(r)
                              \/ CloudFinishes(r)
  BY <1>7, <1>8, <1>9, <1>10, <1>12, <1>13 DEF TaskStep
<1> QED
  BY <1>1, <1>2, <1>3, <1>4, <1>5, <1>6, <1>11, <1>12, <1>13, StartKeeps, CrashShrunk
  DEF Next

-----------------------------------------------------------------------------
(* Whatever arrives late, only a resumption changes a finished job.        *)
LEMMA TerminalStep ==
  TypeOK /\ [Next]_vars
    => (status' # status /\ status \in Terminal => Resumed)
<1> SUFFICES ASSUME TypeOK, [Next]_vars
             PROVE  (status' # status /\ status \in Terminal => Resumed)
  OBVIOUS
<1> USE JobAssumption
    DEF TypeOK, Terminal, Resumed,
        jobVars, runVars, startVars, wireVars, histVars, counters
<1>1. CASE Reap
  BY <1>1 DEF Reap, Reaped
<1>2. CASE Silence
  BY <1>2 DEF Silence
<1>3. CASE LatePulse
  BY <1>3 DEF LatePulse, Pulse, Revived
<1>4. CASE LateFinish
  BY <1>4 DEF LateFinish, FinishJob
<1>5. CASE LateResume
  BY <1>5 DEF LateResume, Resume
<1>6. CASE RemoteCancel
  BY <1>6 DEF RemoteCancel
<1>7. ASSUME NEW s \in Starters, CloudResumes(s)
      PROVE  (status' # status /\ status \in Terminal => Resumed)
  BY <1>7 DEF CloudResumes, Resume, MayResume
<1>8. ASSUME NEW s \in Starters, StartTask(s)
      PROVE  (status' # status /\ status \in Terminal => Resumed)
  BY <1>8 DEF StartTask, Spawn
<1>9. ASSUME NEW s \in Starters, StartFails(s)
      PROVE  (status' # status /\ status \in Terminal => Resumed)
  BY <1>9 DEF StartFails
<1>10. ASSUME NEW s \in Starters, NEW a \in Agents, CreateJob(s, a)
      PROVE  (status' # status /\ status \in Terminal => Resumed)
  BY <1>10 DEF CreateJob
<1>11. ASSUME NEW s \in Starters, NEW a \in Agents, ResumeJob(s, a)
      PROVE  (status' # status /\ status \in Terminal => Resumed)
  BY <1>11 DEF ResumeJob, NotRunning
<1>12. ASSUME NEW c \in Cancellers, NEW a \in Agents, CancelJob(c, a)
      PROVE  (status' # status /\ status \in Terminal => Resumed)
  BY <1>12 DEF CancelJob
<1>13. ASSUME NEW c \in Cancellers, CancelJobIfRunning(c)
      PROVE  (status' # status /\ status \in Terminal => Resumed)
  BY <1>13 DEF CancelJobIfRunning, Interrupt, Interrupted, Goto
<1>14. ASSUME NEW r \in Runs, EngineStarts(r)
      PROVE  (status' # status /\ status \in Terminal => Resumed)
  BY <1>14 DEF EngineStarts, Goto
<1>15. ASSUME NEW r \in Runs, FinalHeartbeat(r)
      PROVE  (status' # status /\ status \in Terminal => Resumed)
  BY <1>15 DEF FinalHeartbeat, Goto, Pulse, Revived
<1>16. ASSUME NEW r \in Runs, PostFinish(r)
      PROVE  (status' # status /\ status \in Terminal => Resumed)
  BY <1>16 DEF PostFinish, Goto
<1>17. ASSUME NEW r \in Runs, FinishAnswered(r)
      PROVE  (status' # status /\ status \in Terminal => Resumed)
  BY <1>17 DEF FinishAnswered, Goto
<1>18. ASSUME NEW r \in Runs, FinishFails(r)
      PROVE  (status' # status /\ status \in Terminal => Resumed)
  BY <1>18 DEF FinishFails, Goto
<1>19. ASSUME NEW r \in Runs, TaskEnds(r)
      PROVE  (status' # status /\ status \in Terminal => Resumed)
  BY <1>19 DEF TaskEnds
<1>20. ASSUME NEW r \in Runs, Heartbeat(r)
      PROVE  (status' # status /\ status \in Terminal => Resumed)
  BY <1>20 DEF Heartbeat, Pulse, Revived, Interrupt, Interrupted, Goto, SeesCancel
<1>21. ASSUME NEW r \in Runs, HeartbeatFails(r)
      PROVE  (status' # status /\ status \in Terminal => Resumed)
  BY <1>21 DEF HeartbeatFails, Pulse, Revived
<1>22. ASSUME NEW r \in Runs, CrawlEnds(r)
      PROVE  (status' # status /\ status \in Terminal => Resumed)
  BY <1>22 DEF CrawlEnds, Goto
<1>23. ASSUME NEW r \in Runs, CloudFinishes(r)
      PROVE  (status' # status /\ status \in Terminal => Resumed)
  BY <1>23 DEF CloudFinishes, FinishJob
<1>24. ASSUME NEW a \in Agents, Crash(a)
      PROVE  (status' # status /\ status \in Terminal => Resumed)
  BY <1>24 DEF Crash
<1>25. CASE UNCHANGED vars
  BY <1>25 DEF vars
<1> QED
  BY <1>1, <1>2, <1>3, <1>4, <1>5, <1>6, <1>7, <1>8, <1>9,
     <1>10, <1>11, <1>12, <1>13, <1>14, <1>15, <1>16, <1>17, <1>18,
     <1>19, <1>20, <1>21, <1>22, <1>23, <1>24, <1>25 DEF Next, TaskStep

-----------------------------------------------------------------------------
(* Nothing runs, nothing is under way.                                     *)
LEMMA InitIInv == Init => IInv
<1> SUFFICES ASSUME Init PROVE IInv
  OBVIOUS
<1> USE JobAssumption DEF Init
<1>1. TypeOK
  <2>1. resumes \in 0..MaxResumes /\ cancels \in 0..MaxCancels /\ crashes \in 0..MaxCrashes
    OBVIOUS
  <2>2. /\ asked \in BOOLEAN /\ crawled \in BOOLEAN
        /\ cancel \in BOOLEAN /\ latePulse \in BOOLEAN
    BY Zenon
  <2> QED
    BY <2>1, <2>2 DEF TypeOK, Terminal, Ages
<1>2. Carried /\ EngineOnOwner
  BY DEF Carried, EngineOnOwner, Live
<1>3. Justified /\ OutcomeIsEarned
  BY DEF Justified, OutcomeIsEarned
<1> QED
  BY <1>1, <1>2, <1>3 DEF IInv

(* The steps above together.                                               *)
LEMMA IInvStep == IInv /\ [Next]_vars => IInv'
  BY TypeStep, CarriedStep, JustifiedStep DEF IInv

(* The inductive invariant.                                                *)
THEOREM Invariance == Spec => []IInv
  BY InitIInv, IInvStep, PTL DEF Spec

(* Type correctness; in particular the status stays one of JobStatus.      *)
THEOREM TypeCorrect == Spec => []TypeOK
<1>1. IInv => TypeOK
  BY DEF IInv
<1> QED
  BY <1>1, Invariance, PTL

(* A job runs only on the agent recorded for it, through resumptions from  *)
(* several agents, some of them late, and crashes (the ownership check of  *)
(* claim_or_verify_job_agent).                                             *)
THEOREM RunsOnItsAgent == Spec => []EngineOnOwner
<1>1. IInv => EngineOnOwner
  BY DEF IInv
<1> QED
  BY <1>1, Invariance, PTL

(* A job ends done only if a task worked off its queue and cancelled only  *)
(* if somebody asked (_run_crawl's except clauses and finish_job).         *)
THEOREM OutcomesAreEarned == Spec => []OutcomeIsEarned
<1>1. IInv => OutcomeIsEarned
  BY DEF IInv
<1> QED
  BY <1>1, Invariance, PTL

(* A finished job changes only by a resumption (finish_job's check, and    *)
(* heartbeat and reap_stale_jobs, which look at the status).               *)
THEOREM FinishedStays == Spec => TerminalStays
<1>1. IInv /\ [Next]_vars => [status' # status /\ status \in Terminal => Resumed]_vars
  BY TerminalStep DEF IInv
<1> QED
  BY <1>1, Invariance, PTL DEF Spec, TerminalStays

(* Engines beyond the first come only from resume requests that overlapped *)
(* another on the same agent; without one the single engine is registered  *)
(* (resume_job's check of the registry, which it makes before its awaits   *)
(* and not again).                                                         *)
THEOREM EnginesCounted == Spec => []EnginesAreCounted
<1>1. Init => Registry /\ Counted
  <2>1. ASSUME Init
        PROVE  /\ \A a \in Agents : LiveOn(a) = {} /\ Waiting(a) = {} /\ Registered(a) = 0
               /\ overlaps = 0
    BY <2>1 DEF Init, LiveOn, Waiting, Registered, Live
  <2>2. Init => Counted
    BY <2>1, FS_EmptySet DEF Counted
  <2>3. Init => Registry
    BY JobAssumption DEF Init, Registry, Live
  <2> QED
    BY <2>2, <2>3
<1>2. Registry /\ Counted /\ IInv /\ IInv' /\ [Next]_vars => (Registry /\ Counted)'
  BY CountedStep DEF IInv
<1>3. Registry /\ Counted /\ IInv => EnginesAreCounted
  <2> SUFFICES ASSUME Registry, Counted, IInv PROVE EnginesAreCounted
    OBVIOUS
  <2>1. ASSUME NEW a \in Agents
        PROVE  Cardinality(LiveOn(a)) <= 1 + overlaps
    <3>1. /\ IsFiniteSet(LiveOn(a)) /\ Cardinality(LiveOn(a)) - Registered(a) <= overlaps
          /\ overlaps \in Nat
      BY DEF Counted, IInv, TypeOK
    <3>2. Cardinality(LiveOn(a)) \in Nat /\ Registered(a) \in {0, 1}
      BY <3>1, FS_CardinalityType DEF Registered
    <3> QED
      BY <3>1, <3>2
  <2>2. overlaps = 0 => \A r \in Runs : Live(r) => registered[agentOf[r]] = r
    BY DEF Registry
  <2> QED
    BY <2>1, <2>2 DEF EnginesAreCounted
<1> QED
  BY <1>1, <1>2, <1>3, Invariance, PTL DEF Spec
=============================================================================
