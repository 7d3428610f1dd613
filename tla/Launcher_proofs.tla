-------------------------- MODULE Launcher_proofs --------------------------
(***************************************************************************)
(* Theorems about Launcher, for every number of crawls, clicks, failures   *)
(* and crashes.                                                            *)
(***************************************************************************)
EXTENDS Launcher, TLAPS

(* What is left for the Tk thread is a bag; nothing is dropped from it but  *)
(* the callback that runs, and nothing gets in but what that one leaves.    *)
LEMMA BecomesIn ==
  ASSUME IsABag(inbox), NEW i, NEW S, Becomes(i, S)
  PROVE  /\ IsABag(inbox)'
         /\ \A j : j \in S => In(j)'
         /\ \A j : j # i /\ In(j) => In(j)'
         /\ \A j : In(j)' => j \in S \/ In(j)
<1> DEFINE left == inbox (-) SetToBag({i})
<1>1. inbox \in [DOMAIN inbox -> {n \in Nat : n > 0}]
  BY DEF IsABag
<1>2. /\ DOMAIN left \subseteq DOMAIN inbox
      /\ \A j \in DOMAIN left : left[j] \in Nat /\ left[j] > 0
      /\ \A j \in DOMAIN inbox : j # i => j \in DOMAIN left
      /\ left = [j \in DOMAIN left |-> left[j]]
  BY <1>1 DEF SetToBag, (-)
<1> HIDE DEF left
<1>3. /\ inbox' = left (+) SetToBag(S)
      /\ SetToBag(S) = [j \in S |-> 1]
  BY DEF Becomes, left, SetToBag
<1>4. /\ DOMAIN inbox' = DOMAIN left \cup S
      /\ \A j \in DOMAIN inbox' : inbox'[j] \in Nat /\ inbox'[j] > 0
      /\ inbox' = [j \in DOMAIN inbox' |-> inbox'[j]]
  BY <1>2, <1>3 DEF (+)
<1>5. IsABag(inbox)'
  BY <1>4 DEF IsABag
<1> QED
  BY <1>2, <1>4, <1>5 DEF In, BagIn, BagToSet

LEMMA PostIn ==
  ASSUME IsABag(inbox), NEW S, Post(S)
  PROVE  /\ IsABag(inbox)'
         /\ \A j : j \in S => In(j)'
         /\ \A j : In(j) => In(j)'
         /\ \A j : In(j)' => j \in S \/ In(j)
<1>1. inbox \in [DOMAIN inbox -> {n \in Nat : n > 0}]
  BY DEF IsABag
<1>2. inbox' = inbox (+) [j \in S |-> 1]
  BY DEF Post, SetToBag
<1>3. /\ DOMAIN inbox' = DOMAIN inbox \cup S
      /\ \A j \in DOMAIN inbox' : inbox'[j] \in Nat /\ inbox'[j] > 0
      /\ inbox' = [j \in DOMAIN inbox' |-> inbox'[j]]
  BY <1>1, <1>2 DEF (+)
<1>4. IsABag(inbox)'
  BY <1>3 DEF IsABag
<1> QED
  BY <1>3, <1>4 DEF In, BagIn, BagToSet

-----------------------------------------------------------------------------
(* A poll that is under way, or the dialog that resumes it                 *)
PollItems == {Timer("poll"), Dialog("confirm")}
               \cup {<<"poll", at>> : at \in {"sent", "none", "some", "err"}}

LEMMA PollItem == PollGoesOn <=> (state = "RUNNING" => \E i \in PollItems : In(i))
BY DEF PollGoesOn, PollItems

(* Nothing else that happens takes it away.                                *)
LEMMA PollKept ==
  ASSUME IsABag(inbox), PollGoesOn, state' = "RUNNING" => state = "RUNNING",
         \/ UNCHANGED inbox
         \/ \E S : Post(S)
         \/ \E i, S : i \notin PollItems /\ Becomes(i, S)
  PROVE  (IsABag(inbox) /\ PollGoesOn)'
<1>1. CASE UNCHANGED inbox
  BY <1>1 DEF PollGoesOn, In
<1>2. CASE \E S : Post(S)
  BY <1>2, PostIn, PollItem DEF PollGoesOn, PollItems
<1>3. ASSUME NEW i, NEW S, i \notin PollItems, Becomes(i, S)
      PROVE  (IsABag(inbox) /\ PollGoesOn)'
  <2>1. \A j \in PollItems : In(j) => In(j)'
    BY <1>3, BecomesIn
  <2>2. IsABag(inbox)'
    BY <1>3, BecomesIn
  <2> QED
    BY <2>1, <2>2, PollItem DEF PollGoesOn, PollItems
<1> QED
  BY <1>1, <1>2, <1>3

(* A callback of the poll leaves the next one, if the launcher still runs.  *)
LEMMA PollHandedOn ==
  ASSUME IsABag(inbox), NEW i, NEW S, Becomes(i, S),
         state' = "RUNNING" => \E j \in PollItems : j \in S
  PROVE  (IsABag(inbox) /\ PollGoesOn)'
<1>1. IsABag(inbox)' /\ \A j \in S : In(j)'
  BY BecomesIn
<1> QED
  BY <1>1 DEF PollGoesOn, PollItems

LEMMA ShutdownLeaves ==
  ASSUME NEW i, BeginGracefulShutdown(i)
  PROVE  state' # "RUNNING" /\ \E S : S \in {{}, {Timer("stopped")}} /\ Becomes(i, S)
BY DEF BeginGracefulShutdown, OnServerStopped

LEMMA PollStep ==
  IsABag(inbox) /\ PollGoesOn /\ [Next]_vars => (IsABag(inbox) /\ PollGoesOn)'
<1> SUFFICES ASSUME IsABag(inbox), PollGoesOn, [Next]_vars
             PROVE  (IsABag(inbox) /\ PollGoesOn)'
  OBVIOUS
<1> USE DEF tk
<1>i. /\ \A kind \in Requests \ {"poll"} : \A x : <<kind, x>> \notin PollItems
      /\ \A kind \in {"ready", "login", "stopped", "crashed", "force"} : \A x : <<kind, x>> \notin PollItems
      /\ Sent("poll") \in PollItems /\ Timer("poll") \in PollItems /\ Dialog("confirm") \in PollItems
      /\ \A x \in {"none", "some", "err"} : <<"poll", x>> \in PollItems
  BY DEF PollItems, Requests, Sent, Timer, Dialog
<1>1. CASE ServerCreated \/ ServerListens \/ ServerExits \/ FailsToStart \/ JobStarts
             \/ JobEnds \/ DeadlinePasses \/ UNCHANGED vars
  BY <1>1, PollKept DEF ServerCreated, ServerListens, FailsToStart, ServerExits, JobStarts, JobEnds, DeadlinePasses, vars, Run
<1>2. CASE ServerCrashes \/ Start \/ RequestQuit
  BY <1>2, PollKept DEF ServerCrashes, Start, RequestQuit
<1>3. ASSUME NEW kind \in Requests, Activity(kind) \/ Fails(kind)
      PROVE  (IsABag(inbox) /\ PollGoesOn)'
  <2>1. state' = state
    BY <1>3 DEF Activity, Fails
  <2>2. \E i, S : i \in {<<kind, "sent">>, <<kind, "served">>} /\ Becomes(i, S)
                    /\ \E x \in {"none", "some", "err"} : S = {<<kind, x>>}
    BY <1>3 DEF Activity, Fails, Sent
  <2>3. CASE kind = "poll"
    BY <1>i, <2>2, <2>3, PollHandedOn
  <2>4. CASE kind # "poll"
    BY <1>i, <2>1, <2>2, <2>4, PollKept
  <2> QED
    BY <2>3, <2>4
<1>4. CASE CancelAll
  BY <1>4, <1>i, PollKept DEF CancelAll, Sent, Requests
<1>5. CASE CancelTasks
  BY <1>5, <1>i, PollKept DEF CancelTasks, Requests
<1>6. CASE OnServerReady
  BY <1>6, <1>i, PollKept DEF OnServerReady, Sent
<1>7. CASE Login
  <2>1. CASE Becomes(Dialog("login"), {Sent("login")}) /\ UNCHANGED tk
    BY <1>i, <2>1, PollKept DEF Dialog
  <2>2. CASE BeginGracefulShutdown(Dialog("login"))
    BY <1>i, <2>2, ShutdownLeaves, PollKept DEF Dialog
  <2> QED
    BY <1>7, <2>1, <2>2 DEF Login
<1>8. CASE OnLoginFailed
  BY <1>8, <1>i, PollKept DEF OnLoginFailed, Sent
<1>9. CASE OnLoginSuccess
  BY <1>9, <1>i, PollHandedOn DEF OnLoginSuccess, NextPoll
<1>10. CASE OnActivity
  BY <1>10, <1>i, PollHandedOn DEF OnActivity
<1>11. CASE SchedulePoll
  BY <1>11, <1>i, PollHandedOn DEF SchedulePoll, NextPoll
<1>12. CASE OnActivityForShutdown
  <2>1. ASSUME NEW ans \in {"none", "err"}, BeginGracefulShutdown(<<"check", ans>>)
        PROVE  (IsABag(inbox) /\ PollGoesOn)'
    BY <1>i, <2>1, ShutdownLeaves, PollHandedOn
  <2>2. CASE Becomes(<<"check", "some">>, {Dialog("confirm")})
    BY <1>i, <2>2, PollHandedOn
  <2> QED
    BY <1>12, <2>1, <2>2 DEF OnActivityForShutdown
<1>13. CASE Confirm
  BY <1>13, <1>i, PollHandedOn DEF Confirm, NextPoll
<1>14. CASE OnCancelAllIssued
  BY <1>14, <1>i, PollHandedOn DEF OnCancelAllIssued, NextPoll
<1>15. CASE PollDrain
  BY <1>15, <1>i, PollKept DEF PollDrain, Timer, Requests
<1>16. CASE OnDrainActivity
  <2>1. PICK ans \in {"none", "some", "err"} :
          \/ state # "DRAINING" /\ Becomes(<<"drain", ans>>, {}) /\ UNCHANGED state
          \/ BeginGracefulShutdown(<<"drain", ans>>)
          \/ /\ UNCHANGED state
             /\ Becomes(<<"drain", ans>>, {IF late THEN Dialog("force") ELSE Timer("drain")})
    BY <1>16 DEF OnDrainActivity
  <2>2. CASE BeginGracefulShutdown(<<"drain", ans>>)
    BY <2>2, ShutdownLeaves, PollHandedOn
  <2>3. CASE UNCHANGED state /\ \E S : Becomes(<<"drain", ans>>, S)
    BY <1>i, <2>3, PollKept DEF Requests
  <2> QED
    BY <2>1, <2>2, <2>3
<1>17. CASE ForceStop
  BY <1>17, ShutdownLeaves, PollHandedOn DEF ForceStop
<1>18. CASE WaitOn
  BY <1>18, <1>i, PollKept DEF WaitOn, Dialog
<1>19. CASE CheckShutdownComplete
  BY <1>19, PollHandedOn DEF CheckShutdownComplete, OnServerStopped
<1>20. CASE OnServerCrashed
  BY <1>20, PollHandedOn DEF OnServerCrashed
<1> QED
  BY <1>1, <1>2, <1>3, <1>4, <1>5, <1>6, <1>7, <1>8, <1>9, <1>10, <1>11, <1>12, <1>13, <1>14,
     <1>15, <1>16, <1>17, <1>18, <1>19, <1>20 DEF Next, Server, Starting, Polling, Stopping

(* However often a stop was begun, declined, cut short by a crash or lost   *)
(* its answer: a launcher that runs has a poll under way, or a dialog open  *)
(* whose refusal resumes it (_on_activity, _begin_cancel_and_drain).        *)
THEOREM PollingNeverStops == Spec => []PollGoesOn
<1>1. Init => IsABag(inbox) /\ PollGoesOn
  BY DEF Init, IsABag, EmptyBag, SetToBag, PollGoesOn
<1> QED
  BY <1>1, PollStep, PTL DEF Spec

-----------------------------------------------------------------------------
(* An answer "nothing is running" that was not dealt with yet was true when *)
(* it was given, so no crawl was counted by all the open answers.          *)
Honest ==
  /\ IsABag(inbox)
  /\ seen \in [{"check", "drain"} -> SUBSET Jobs] /\ running \subseteq Jobs
  /\ \A q \in {"check", "drain"} : In(<<q, "none">>) => seen[q] = {}

LEMMA HonestFrame ==
  ASSUME Honest, UNCHANGED seen, running' \subseteq Jobs,
         \/ UNCHANGED inbox
         \/ \E S : Post(S) /\ \A q \in {"check", "drain"} : <<q, "none">> \notin S
         \/ \E i, S : Becomes(i, S) /\ \A q \in {"check", "drain"} : <<q, "none">> \notin S
  PROVE  Honest'
<1>1. IsABag(inbox)' /\ \A q \in {"check", "drain"} : In(<<q, "none">>)' => In(<<q, "none">>)
  <2>1. CASE UNCHANGED inbox
    BY <2>1 DEF Honest, In
  <2>2. ASSUME NEW S, Post(S), \A q \in {"check", "drain"} : <<q, "none">> \notin S
        PROVE  IsABag(inbox)' /\ \A q \in {"check", "drain"} : In(<<q, "none">>)' => In(<<q, "none">>)
    BY <2>2, PostIn DEF Honest
  <2>3. ASSUME NEW i, NEW S, Becomes(i, S), \A q \in {"check", "drain"} : <<q, "none">> \notin S
        PROVE  IsABag(inbox)' /\ \A q \in {"check", "drain"} : In(<<q, "none">>)' => In(<<q, "none">>)
    BY <2>3, BecomesIn DEF Honest
  <2> QED
    BY <2>1, <2>2, <2>3
<1> QED
  BY <1>1 DEF Honest

LEMMA HonestStep == Honest /\ [Next]_vars => Honest'
<1> SUFFICES ASSUME Honest, [Next]_vars PROVE Honest'
  OBVIOUS
<1> USE DEF tk, crawls, Sent, Timer, Dialog
<1> DEFINE Quiet(S) == \A q \in {"check", "drain"} : <<q, "none">> \notin S
<1>r. running \subseteq Jobs
  BY DEF Honest
<1>1. CASE ServerCreated \/ ServerListens \/ ServerExits \/ FailsToStart \/ JobStarts
             \/ JobEnds \/ DeadlinePasses \/ UNCHANGED vars
  BY <1>1, <1>r, HonestFrame DEF ServerCreated, ServerListens, FailsToStart, ServerExits, Ended, JobStarts, JobEnds,
       DeadlinePasses, vars
<1>2. CASE ServerCrashes \/ Start
  BY <1>2, <1>r, HonestFrame DEF ServerCrashes, Ended, Start
<1>3. CASE RequestQuit
  <2>1. running' = running
    BY <1>3 DEF RequestQuit
  <2>2. CASE UNCHANGED <<inbox, seen>>
    BY <1>r, <2>1, <2>2, HonestFrame
  <2>3. CASE Post({Sent("check")}) /\ seen' = Counted("drain", Jobs)
    <3>1. /\ IsABag(inbox)'
          /\ \A q \in {"check", "drain"} : In(<<q, "none">>)' => In(<<q, "none">>)
      BY <2>3, PostIn DEF Honest
    <3>2. /\ seen' \in [{"check", "drain"} -> SUBSET Jobs]
          /\ \A q \in {"check", "drain"} : In(<<q, "none">>) => seen'[q] = {}
      BY <2>3 DEF Honest, Counted, Open
    <3> QED
      BY <2>1, <3>1, <3>2 DEF Honest
  <2> QED
    BY <1>3, <2>2, <2>3 DEF RequestQuit
<1>4. ASSUME NEW kind \in Requests, Fails(kind) PROVE Honest'
  BY <1>4, <1>r, HonestFrame DEF Fails
<1>5. ASSUME NEW kind \in Requests, Activity(kind) PROVE Honest'
  <2> DEFINE ans == IF running = {} THEN "none" ELSE "some"
  <2>1. running' = running /\ Becomes(Sent(kind), {<<kind, ans>>})
    BY <1>5 DEF Activity
  <2>2. /\ IsABag(inbox)'
        /\ \A j : In(j)' => j = <<kind, ans>> \/ In(j)
    BY <2>1, BecomesIn DEF Honest
  <2>3. CASE kind = "poll"
    BY <1>5, <2>1, <2>2, <2>3 DEF Activity, Honest
  <2>4. CASE kind \in {"check", "drain"}
    <3>1. seen' = [seen EXCEPT ![kind] = IF Open(kind) THEN @ \cap running ELSE running]
      BY <1>5, <2>4 DEF Activity, Counted
    <3>2. /\ seen' \in [{"check", "drain"} -> SUBSET Jobs]
          /\ \A q \in {"check", "drain"} : q # kind => seen'[q] = seen[q]
          /\ seen'[kind] = IF Open(kind) THEN seen[kind] \cap running ELSE running
      BY <1>r, <2>4, <3>1 DEF Honest
    <3>3. In(<<kind, "none">>)' => seen'[kind] = {}
      <4>1. CASE In(<<kind, "none">>)
        BY <2>4, <3>2, <4>1 DEF Honest, Open
      <4>2. CASE running = {}
        BY <3>2, <4>2
      <4>3. CASE ~In(<<kind, "none">>) /\ running # {}
        BY <2>2, <4>3
      <4> QED
        BY <4>1, <4>2, <4>3
    <3>4. \A q \in {"check", "drain"} : q # kind => (In(<<q, "none">>)' => seen'[q] = {})
      BY <2>2, <3>2 DEF Honest
    <3> QED
      BY <2>1, <2>2, <3>2, <3>3, <3>4 DEF Honest
  <2>5. kind # "cancel"
    BY <1>5 DEF Activity
  <2> QED
    BY <2>3, <2>4, <2>5 DEF Requests
<1>6. CASE CancelAll \/ CancelTasks
  BY <1>6, <1>r, HonestFrame DEF CancelAll, CancelTasks
<1>7. ASSUME NEW i, BeginGracefulShutdown(i), UNCHANGED <<seen, running>> PROVE Honest'
  BY <1>7, <1>r, ShutdownLeaves, HonestFrame
<1>8. CASE OnServerReady \/ OnLoginFailed \/ OnLoginSuccess \/ OnActivity \/ SchedulePoll
  BY <1>8, <1>r, HonestFrame DEF OnServerReady, OnLoginFailed, OnLoginSuccess, OnActivity,
       SchedulePoll, Run, NextPoll
<1>9. CASE Confirm \/ OnCancelAllIssued \/ PollDrain \/ WaitOn \/ CheckShutdownComplete
             \/ OnServerCrashed
  BY <1>9, <1>r, HonestFrame DEF Confirm, OnCancelAllIssued, PollDrain, WaitOn,
       CheckShutdownComplete, OnServerCrashed, Run, NextPoll
<1>10. CASE Login \/ OnActivityForShutdown \/ OnDrainActivity \/ ForceStop
  <2>1. /\ UNCHANGED <<seen, running>>
        /\ \/ \E i : BeginGracefulShutdown(i)
           \/ \E i, S : Becomes(i, S) /\ Quiet(S)
    BY <1>10 DEF Login, OnActivityForShutdown, OnDrainActivity, ForceStop, Run
  <2> QED
    BY <1>7, <1>r, <2>1, HonestFrame
<1> QED
  BY <1>1, <1>2, <1>3, <1>4, <1>5, <1>6, <1>8, <1>9, <1>10
  DEF Next, Server, Starting, Polling, Stopping

LEMMA KillStep ==
  ASSUME Honest, [Next]_vars, exiting', ~exiting
  PROVE  forced' \/ \E q \in DOMAIN seen : In(<<q, "none">>) /\ running \cap seen[q] = {}
<1> USE DEF tk, crawls
<1>1. CASE Login \/ ForceStop
  BY <1>1 DEF Login, ForceStop
<1>2. CASE OnActivityForShutdown
  BY <1>2 DEF OnActivityForShutdown, Run, Honest
<1>3. CASE OnDrainActivity
  BY <1>3 DEF OnDrainActivity, Run, Honest
<1>4. CASE ~(Login \/ ForceStop \/ OnActivityForShutdown \/ OnDrainActivity)
  BY <1>4 DEF Next, Server, Starting, Polling, Stopping, ServerCreated, ServerListens, ServerExits,
     FailsToStart, ServerCrashes, JobStarts, JobEnds, DeadlinePasses, Fails, Activity, CancelAll, CancelTasks, Start, RequestQuit,
     OnServerReady, OnLoginFailed, OnLoginSuccess, OnActivity, SchedulePoll, Confirm,
     OnCancelAllIssued, PollDrain, WaitOn, CheckShutdownComplete, OnServerCrashed, vars
<1> QED
  BY <1>1, <1>2, <1>3, <1>4

(* Without force, the server is only stopped on an answer that nothing is   *)
(* running, which was true when it was given, however many questions are    *)
(* under way at once (_on_activity_for_shutdown and _on_drain_activity).    *)
THEOREM CrawlsAreAskedAbout == Spec => KillsOnlyForced
<1>1. Init => Honest
  BY DEF Init, Honest, IsABag, EmptyBag, SetToBag, In, BagIn, BagToSet
<1>2. Honest /\ [Next]_vars =>
        [exiting' /\ ~exiting =>
           forced' \/ \E q \in DOMAIN seen : In(<<q, "none">>) /\ running \cap seen[q] = {}]_vars
  BY KillStep
<1> QED
  BY <1>1, <1>2, HonestStep, PTL DEF Spec, KillsOnlyForced
-----------------------------------------------------------------------------
(* A callback leaves callbacks.                                            *)
LEMMA CallbacksFrame ==
  ASSUME IsABag(inbox), BagToSet(inbox) \subseteq Callbacks,
         \/ UNCHANGED inbox
         \/ \E S : S \subseteq Callbacks /\ Post(S)
         \/ \E i, S : S \subseteq Callbacks /\ Becomes(i, S)
  PROVE  (IsABag(inbox) /\ BagToSet(inbox) \subseteq Callbacks)'
<1>1. \A i : In(i) => i \in Callbacks
  BY DEF In, BagIn
<1>2. CASE UNCHANGED inbox
  BY <1>2
<1>3. ASSUME NEW S, S \subseteq Callbacks,
             IsABag(inbox)', \A j : In(j)' => j \in S \/ In(j)
      PROVE  (IsABag(inbox) /\ BagToSet(inbox) \subseteq Callbacks)'
  <2>1. \A i : i \in BagToSet(inbox)' => In(i)'
    BY DEF In, BagIn
  <2>2. \A i : i \in BagToSet(inbox)' => i \in Callbacks
    BY <1>1, <1>3, <2>1
  <2>3. Callbacks' = Callbacks
    BY DEF Callbacks, Sent, Dialog, Timer, Requests
  <2> QED
    BY <1>3, <2>2, <2>3
<1>4. ASSUME NEW S, S \subseteq Callbacks, Post(S)
      PROVE  (IsABag(inbox) /\ BagToSet(inbox) \subseteq Callbacks)'
  BY <1>3, <1>4, PostIn
<1>5. ASSUME NEW i, NEW S, S \subseteq Callbacks, Becomes(i, S)
      PROVE  (IsABag(inbox) /\ BagToSet(inbox) \subseteq Callbacks)'
  BY <1>3, <1>5, BecomesIn
<1> QED
  BY <1>2, <1>4, <1>5

LEMMA CallbacksStep ==
  ASSUME IsABag(inbox), BagToSet(inbox) \subseteq Callbacks, [Next]_vars
  PROVE  (IsABag(inbox) /\ BagToSet(inbox) \subseteq Callbacks)'
<1> USE DEF tk
<1>c. /\ {Sent("ready"), Sent("login"), Dialog("login"), Dialog("confirm"), Dialog("force"),
          Timer("stopped"), <<"crashed", "posted">>, <<"cancel", "served">>, <<"cancel", "ok">>,
          Timer("poll"), Timer("drain")} \subseteq Callbacks
      /\ \A kind \in Requests : Sent(kind) \in Callbacks /\ <<kind, "err">> \in Callbacks
      /\ \A kind \in Requests \ {"cancel"} : <<kind, "none">> \in Callbacks /\ <<kind, "some">> \in Callbacks
      /\ {"check", "cancel", "drain", "poll"} = Requests
      /\ \A new : NextPoll(new) \subseteq Callbacks
  BY DEF Callbacks, Sent, Timer, Dialog, Requests, NextPoll
<1>1. CASE UNCHANGED inbox
  BY <1>1, CallbacksFrame
<1>2. CASE ServerCrashes \/ Start
  <2>1. \E S : S \subseteq Callbacks /\ Post(S)
    BY <1>2, <1>c DEF ServerCrashes, Start
  <2> QED
    BY <2>1, CallbacksFrame
<1>3. CASE RequestQuit
  <2>1. UNCHANGED inbox \/ Post({Sent("check")})
    BY <1>3 DEF RequestQuit
  <2> QED
    BY <1>c, <2>1, CallbacksFrame
<1>4. ASSUME NEW kind \in Requests, Activity(kind) \/ Fails(kind)
      PROVE  (IsABag(inbox) /\ BagToSet(inbox) \subseteq Callbacks)'
  <2>1. \E i, S : S \subseteq Callbacks /\ Becomes(i, S)
    BY <1>4, <1>c DEF Activity, Fails
  <2> QED
    BY <2>1, CallbacksFrame
<1>5. ASSUME NEW i, BeginGracefulShutdown(i)
      PROVE  (IsABag(inbox) /\ BagToSet(inbox) \subseteq Callbacks)'
  BY <1>5, <1>c, ShutdownLeaves, CallbacksFrame
<1>6. CASE CancelAll \/ CancelTasks \/ OnServerReady \/ OnLoginFailed \/ OnLoginSuccess
             \/ OnActivity \/ SchedulePoll
  <2>1. UNCHANGED inbox \/ \E i, S : S \subseteq Callbacks /\ Becomes(i, S)
    BY <1>6, <1>c DEF CancelAll, CancelTasks, OnServerReady, OnLoginFailed, OnLoginSuccess,
         OnActivity, SchedulePoll
  <2> QED
    BY <2>1, CallbacksFrame
<1>7. CASE Confirm \/ OnCancelAllIssued \/ PollDrain \/ WaitOn \/ CheckShutdownComplete
             \/ OnServerCrashed
  <2>1. \E i, S : S \subseteq Callbacks /\ Becomes(i, S)
    BY <1>7, <1>c DEF Confirm, OnCancelAllIssued, PollDrain, WaitOn, CheckShutdownComplete,
         OnServerCrashed
  <2> QED
    BY <2>1, CallbacksFrame
<1>8. CASE Login \/ OnActivityForShutdown \/ OnDrainActivity \/ ForceStop
  <2>1. \/ \E i : BeginGracefulShutdown(i)
        \/ \E i, S : S \subseteq Callbacks /\ Becomes(i, S)
    BY <1>8, <1>c DEF Login, OnActivityForShutdown, OnDrainActivity, ForceStop
  <2> QED
    BY <1>5, <2>1, CallbacksFrame
<1>9. CASE ServerCreated \/ ServerListens \/ ServerExits \/ FailsToStart \/ JobStarts
             \/ JobEnds \/ DeadlinePasses \/ UNCHANGED vars
  BY <1>1, <1>9 DEF ServerCreated, ServerListens, FailsToStart, ServerExits, JobStarts, JobEnds, DeadlinePasses, vars
<1> QED
  BY <1>2, <1>3, <1>4, <1>6, <1>7, <1>8, <1>9 DEF Next, Server, Starting, Polling, Stopping

(* The rest of the type invariant, without what it says of the callbacks.  *)
AppTyped ==
  /\ state \in {"IDLE", "STARTING", "RUNNING", "CHECKING", "CANCELLING", "DRAINING", "STOPPING", "exited"}
  /\ server \in BOOLEAN /\ exiting \in BOOLEAN /\ http \in BOOLEAN
  /\ fullQuit \in BOOLEAN /\ late \in BOOLEAN /\ forced \in BOOLEAN
  /\ clicks \in Nat /\ errs \in Nat

CrawlsTyped ==
  /\ thread \in {"none", "starting", "binding", "up", "dead"}
  /\ running \subseteq started /\ started \subseteq Jobs /\ cancelled \subseteq started
  /\ sweep \subseteq started
  /\ running # {} \/ cancelled # {} \/ sweep # {} => thread = "up"

LEMMA AppTypedStep == AppTyped /\ [Next]_vars => AppTyped'
<1> SUFFICES ASSUME AppTyped, [Next]_vars PROVE AppTyped'
  OBVIOUS
<1> USE DEF AppTyped, tk, Run
<1>1. CASE ServerCreated \/ ServerListens \/ DeadlinePasses \/ UNCHANGED vars
  BY <1>1 DEF ServerCreated, ServerListens, DeadlinePasses, vars
<1>8. CASE ServerExits \/ JobStarts \/ JobEnds \/ CancelAll \/ CancelTasks
  BY <1>8 DEF ServerExits, JobStarts, JobEnds, CancelAll, CancelTasks
<1>9. CASE FailsToStart \/ ServerCrashes
  BY <1>9 DEF FailsToStart, ServerCrashes
<1>2. ASSUME NEW kind \in Requests, Activity(kind) \/ Fails(kind) PROVE AppTyped'
  BY <1>2 DEF Activity, Fails
<1>3. CASE Start
  <2>1. /\ clicks' \in Nat /\ state' = "STARTING" /\ http' = TRUE /\ forced' = FALSE
        /\ UNCHANGED <<server, exiting, fullQuit, late, errs>>
    BY <1>3 DEF Start, Click
  <2> QED
    BY <2>1
<1>10. CASE RequestQuit
  <2>1. clicks' \in Nat /\ state' \in {"exited", "CHECKING"} /\ UNCHANGED <<server, exiting, http, late, errs>>
    BY <1>10 DEF RequestQuit, Click
  <2>2. fullQuit' \in BOOLEAN /\ forced' \in BOOLEAN
    BY <1>10, Zenon DEF RequestQuit
  <2> QED
    BY <2>1, <2>2
<1>4. CASE OnServerReady \/ OnLoginFailed \/ OnLoginSuccess \/ OnActivity \/ SchedulePoll
  BY <1>4 DEF OnServerReady, OnLoginFailed, OnLoginSuccess, OnActivity, SchedulePoll
<1>5. CASE Confirm \/ OnCancelAllIssued \/ PollDrain \/ WaitOn \/ CheckShutdownComplete
             \/ OnServerCrashed
  BY <1>5 DEF Confirm, OnCancelAllIssued, PollDrain, WaitOn, CheckShutdownComplete,
     OnServerCrashed, OnServerStopped
<1>6. CASE Login \/ OnActivityForShutdown \/ ForceStop
  BY <1>6 DEF Login, OnActivityForShutdown, ForceStop, BeginGracefulShutdown, OnServerStopped
<1>7. CASE OnDrainActivity
  BY <1>7 DEF OnDrainActivity, BeginGracefulShutdown, OnServerStopped
<1> QED
  BY <1>1, <1>2, <1>3, <1>4, <1>5, <1>6, <1>7, <1>8, <1>9, <1>10
  DEF Next, Server, Starting, Polling, Stopping

LEMMA CrawlsTypedStep == CrawlsTyped /\ [Next]_vars => CrawlsTyped'
<1> SUFFICES ASSUME CrawlsTyped, [Next]_vars PROVE CrawlsTyped'
  OBVIOUS
<1> USE DEF CrawlsTyped, crawls
<1>1. CASE \/ ServerCreated \/ ServerListens \/ ServerExits \/ FailsToStart \/ ServerCrashes
           \/ JobStarts \/ JobEnds \/ CancelAll \/ CancelTasks
  BY <1>1 DEF ServerCreated, ServerListens, ServerExits, FailsToStart, ServerCrashes, Ended, JobStarts, JobEnds, CancelAll,
     CancelTasks, Reachable
<1>2. CASE Start
  BY <1>2 DEF Start, Alive
<1>3. CASE UNCHANGED <<thread, crawls>>
  BY <1>3
<1>4. ASSUME NEW kind \in Requests, Activity(kind) \/ Fails(kind) PROVE CrawlsTyped'
  BY <1>3, <1>4 DEF Activity, Fails
<1>5. CASE \/ DeadlinePasses \/ RequestQuit \/ Starting \/ Polling \/ Stopping \/ UNCHANGED vars
  BY <1>3, <1>5 DEF Starting, Polling, Stopping, DeadlinePasses, RequestQuit, OnServerReady, Login,
     OnLoginFailed, OnLoginSuccess, OnActivity, SchedulePoll, OnActivityForShutdown, Confirm,
     OnCancelAllIssued, PollDrain, OnDrainActivity, ForceStop, WaitOn, CheckShutdownComplete,
     OnServerCrashed, Run, vars
<1> QED
  BY <1>1, <1>2, <1>4, <1>5 DEF Next, Server

(* The app's attributes, and every callback, are ones its handlers expect,  *)
(* and crawls run or are being stopped in a server that is up only          *)
(* (_run_server_task: the loop's tasks end with the loop).                  *)
THEOREM TypeCorrect == Spec => []TypeOK
<1> DEFINE Inbox == IsABag(inbox) /\ BagToSet(inbox) \subseteq Callbacks
           I == Honest /\ Inbox /\ AppTyped /\ CrawlsTyped
<1>1. ASSUME Init PROVE I
  <2>1. Honest /\ Inbox
    BY <1>1 DEF Init, Honest, IsABag, EmptyBag, SetToBag, In, BagIn, BagToSet
  <2>2. AppTyped
    BY <1>1 DEF Init, AppTyped
  <2>3. CrawlsTyped
    BY <1>1 DEF Init, CrawlsTyped
  <2> QED
    BY <2>1, <2>2, <2>3
<1>2. I /\ [Next]_vars => I'
  BY HonestStep, CallbacksStep, AppTypedStep, CrawlsTypedStep
<1>3. I => TypeOK
  BY DEF TypeOK, Honest, AppTyped, CrawlsTyped
<1> QED
  BY <1>1, <1>2, <1>3, PTL DEF Spec
=============================================================================
