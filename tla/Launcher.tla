------------------------------ MODULE Launcher ------------------------------
(***************************************************************************)
(* The desktop launcher (agent/launcher/app.py), the server thread it      *)
(* starts and stops, and the part of that server it talks to               *)
(* (agent/bff/local_system.py).                                            *)
(*                                                                         *)
(* Everything the launcher does runs on the Tk thread: its buttons, and    *)
(* callbacks that timers and background threads leave for it.  inbox holds *)
(* those callbacks, the requests that will become one, and the dialogs     *)
(* that are open, because Tk keeps running callbacks under a dialog.       *)
(***************************************************************************)
EXTENDS Integers, FiniteSets, Bags

CONSTANTS
  Jobs,      \* crawls that may be started on this machine
  MaxClicks, \* bound: uses of the buttons and of the tray
  MaxErrs    \* bound: requests that fail, and crashes of the server

VARIABLES
  state,     \* AppState, or "exited"
  thread,    \* the server's thread: "none", "starting", "binding", "up" or "dead"
  server,    \* self.uvicorn_server is set
  exiting,   \* its should_exit
  http,      \* self.http is set
  fullQuit,  \* _full_quit_requested
  late,      \* _drain_deadline has passed
  inbox,     \* bag of <<kind, content>>
  running,   \* crawls that are running
  cancelled, \* those told to stop
  sweep,     \* crawls that a cancel_all under way found, or {}
  started,   \* crawls started so far
  seen,      \* history variable: crawls counted by every answer to a question that is open
  forced,    \* history variable: the operator accepted to stop them, or could not be asked
  clicks, errs

tk == <<state, server, http, fullQuit, late>>
crawls == <<running, cancelled, sweep, started>>
vars == <<tk, thread, exiting, inbox, crawls, seen, forced, clicks, errs>>

Alive == thread \in {"starting", "binding", "up"}
Stopped == {"IDLE", "exited"}

Init ==
  /\ state = "IDLE" /\ thread = "none" /\ server = FALSE /\ exiting = FALSE
  /\ http = FALSE /\ fullQuit = FALSE /\ late = FALSE
  /\ inbox = EmptyBag
  /\ running = {} /\ cancelled = {} /\ sweep = {} /\ started = {}
  /\ seen = [q \in {"check", "drain"} |-> Jobs] /\ forced = FALSE /\ clicks = 0 /\ errs = 0

-----------------------------------------------------------------------------
(* Callbacks *)

In(i) == BagIn(i, inbox)
Becomes(i, S) == inbox' = (inbox (-) SetToBag({i})) (+) SetToBag(S)
Post(S) == inbox' = inbox (+) SetToBag(S)
Run(i) == state # "exited" /\ In(i) /\ UNCHANGED <<crawls, seen, clicks, errs>>

Sent(kind) == <<kind, "sent">>
Timer(kind) == <<kind, "timer">>
Dialog(kind) == <<kind, "dialog">>

(* _schedule_poll *)
NextPoll(new) == IF new = "RUNNING" THEN {Sent("poll")} ELSE {}

(* What the answers to a question that were not dealt with yet agree on.   *)
Open(q) == \E ans \in {"none", "some"} : In(<<q, ans>>)
Counted(q, S) == [seen EXCEPT ![q] = IF Open(q) THEN @ \cap S ELSE S]

(* The buttons, which an open dialog disables; the tray's menu stays.       *)
Modal == \E kind \in {"login", "confirm", "force"} : In(Dialog(kind))
Click == state # "exited" /\ clicks < MaxClicks /\ clicks' = clicks + 1

-----------------------------------------------------------------------------
(* The server's thread *)

(* _run_server_task, up to run(), which takes the port before it serves *)
ServerCreated ==
  /\ thread = "starting"
  /\ thread' = "binding" /\ server' = TRUE /\ exiting' = FALSE
  /\ UNCHANGED <<state, http, fullQuit, late, inbox, crawls, seen, forced, clicks, errs>>

ServerListens ==
  /\ thread = "binding" /\ thread' = "up"
  /\ UNCHANGED <<tk, exiting, inbox, crawls, seen, forced, clicks, errs>>

(* The loop ends, and its tasks with it: asked to, by an exception, which   *)
(* leaves a callback, or by uvicorn itself when it cannot start (the port   *)
(* is taken: SystemExit is no Exception), which nobody is told of.          *)
Ended == thread' = "dead" /\ running' = {} /\ cancelled' = {} /\ sweep' = {}

ServerExits ==
  /\ thread = "up" /\ exiting /\ Ended
  /\ UNCHANGED <<tk, exiting, inbox, started, seen, forced, clicks, errs>>

FailsToStart ==
  /\ thread = "binding" /\ errs < MaxErrs /\ errs' = errs + 1 /\ Ended
  /\ UNCHANGED <<tk, exiting, inbox, started, seen, forced, clicks>>

ServerCrashes ==
  /\ Alive /\ errs < MaxErrs /\ errs' = errs + 1
  /\ Ended /\ Post({<<"crashed", "posted">>})
  /\ UNCHANGED <<tk, exiting, started, seen, forced, clicks>>

(* Crawls begin and end; a crawl told to stop takes a while. *)
JobStarts ==
  /\ thread = "up"
  /\ \E j \in Jobs \ started : running' = running \cup {j} /\ started' = started \cup {j}
  /\ UNCHANGED <<tk, thread, exiting, inbox, cancelled, sweep, seen, forced, clicks, errs>>

JobEnds ==
  /\ \E j \in running : running' = running \ {j}
  /\ UNCHANGED <<tk, thread, exiting, inbox, cancelled, sweep, started, seen, forced, clicks, errs>>

(* _api_async: requests fail when there is no client or no server, ... *)
Requests == {"poll", "check", "cancel", "drain"}
Reachable == http /\ thread = "up"

Fails(kind) ==
  /\ \E at \in {"sent", "served"} : In(<<kind, at>>) /\ Becomes(<<kind, at>>, {<<kind, "err">>})
  /\ IF Reachable THEN errs < MaxErrs /\ errs' = errs + 1 ELSE UNCHANGED errs
  /\ UNCHANGED <<tk, thread, exiting, crawls, seen, forced, clicks>>

(* ... are answered by get_activity ... *)
Activity(kind) ==
  /\ kind # "cancel" /\ In(Sent(kind)) /\ Reachable
  /\ Becomes(Sent(kind), {<<kind, IF running = {} THEN "none" ELSE "some">>})
  /\ seen' = IF kind = "poll" THEN seen ELSE Counted(kind, running)
  /\ UNCHANGED <<tk, thread, exiting, crawls, forced, clicks, errs>>

(* ... or start cancel_all, which tells the cloud about each job first, for *)
(* longer than the launcher may wait.                                       *)
CancelAll ==
  /\ In(Sent("cancel")) /\ Reachable
  /\ Becomes(Sent("cancel"), {<<"cancel", "served">>})
  /\ sweep' = running
  /\ UNCHANGED <<tk, thread, exiting, running, cancelled, started, seen, forced, clicks, errs>>

CancelTasks ==
  /\ thread = "up" /\ (sweep # {} \/ In(<<"cancel", "served">>))
  /\ cancelled' = cancelled \cup (sweep \cap running) /\ sweep' = {}
  /\ IF In(<<"cancel", "served">>) THEN Becomes(<<"cancel", "served">>, {<<"cancel", "ok">>})
     ELSE UNCHANGED inbox
  /\ UNCHANGED <<tk, thread, exiting, running, started, seen, forced, clicks, errs>>

-----------------------------------------------------------------------------
(* Starting *)

(* on_toggle_server, trigger_start_server; a start on top of a server that  *)
(* the launcher lost track of (IdleIsStopped) is left out                   *)
Start ==
  /\ Click /\ ~Modal /\ state = "IDLE" /\ ~Alive
  /\ state' = "STARTING" /\ http' = TRUE /\ thread' = "starting"
  /\ forced' = FALSE
  /\ Post({Sent("ready")})
  /\ UNCHANGED <<server, exiting, fullQuit, late, crawls, seen, errs>>

(* _wait_for_server_ready: an answer, or fifteen failures, and then          *)
(* _on_server_ready; a timer of a start before finds another state.         *)
OnServerReady ==
  /\ Run(Sent("ready"))
  /\ Becomes(Sent("ready"), IF state = "STARTING" THEN {Dialog("login")} ELSE {})
  /\ UNCHANGED <<tk, thread, exiting, forced>>

(* _begin_graceful_shutdown, with i the callback under way *)
OnServerStopped ==
  /\ state' = (IF fullQuit THEN "exited" ELSE "IDLE") /\ server' = FALSE /\ http' = FALSE

BeginGracefulShutdown(i) ==
  IF server
  THEN /\ state' = "STOPPING" /\ exiting' = TRUE /\ Becomes(i, {Timer("stopped")})
       /\ UNCHANGED <<server, http>>
  ELSE OnServerStopped /\ Becomes(i, {}) /\ UNCHANGED exiting

(* _prompt_login and what follows; a failure opens the dialog again *)
Login ==
  /\ Run(Dialog("login"))
  /\ \/ Becomes(Dialog("login"), {Sent("login")}) /\ UNCHANGED <<tk, exiting, forced>>
     \/ /\ BeginGracefulShutdown(Dialog("login"))
        /\ forced' = TRUE /\ UNCHANGED <<fullQuit, late>>
  /\ UNCHANGED thread

OnLoginFailed ==
  /\ state # "exited" /\ In(Sent("login")) /\ errs < MaxErrs /\ errs' = errs + 1
  /\ Becomes(Sent("login"), {Dialog("login")})
  /\ UNCHANGED <<tk, thread, exiting, crawls, seen, forced, clicks>>

OnLoginSuccess ==
  /\ Run(Sent("login"))
  /\ state' = "RUNNING" /\ Becomes(Sent("login"), NextPoll("RUNNING"))
  /\ UNCHANGED <<server, http, fullQuit, late, thread, exiting, forced>>

-----------------------------------------------------------------------------
(* Polling *)

OnActivity ==
  /\ \E ans \in {"none", "some", "err"} :
       /\ Run(<<"poll", ans>>)
       /\ Becomes(<<"poll", ans>>, IF state = "RUNNING" THEN {Timer("poll")} ELSE {})
  /\ UNCHANGED <<tk, thread, exiting, forced>>

SchedulePoll ==
  /\ Run(Timer("poll")) /\ Becomes(Timer("poll"), NextPoll(state))
  /\ UNCHANGED <<tk, thread, exiting, forced>>

-----------------------------------------------------------------------------
(* Stopping *)

(* on_toggle_server and _request_quit; on_window_close only hides a window *)
RequestQuit ==
  /\ Click
  /\ \E full \in BOOLEAN :
       \/ /\ state = "IDLE" /\ full
          /\ state' = "exited" /\ UNCHANGED <<inbox, fullQuit, forced, seen>>
       \/ /\ state = "RUNNING"
          /\ full \/ ~Modal
          /\ fullQuit' = full /\ state' = "CHECKING" /\ forced' = FALSE
          /\ seen' = Counted("drain", Jobs)
          /\ Post({Sent("check")})
  /\ UNCHANGED <<server, http, late, thread, exiting, crawls, errs>>

OnActivityForShutdown_NeverAsks ==
  /\ \E ans \in {"none", "some", "err"} :
       /\ Run(<<"check", ans>>) /\ BeginGracefulShutdown(<<"check", ans>>)
       /\ forced' = (forced \/ ans = "err")
  /\ UNCHANGED <<thread, fullQuit, late>>

OnActivityForShutdown ==
  /\ \/ \E ans \in {"none", "err"} :
          /\ Run(<<"check", ans>>) /\ BeginGracefulShutdown(<<"check", ans>>)
          /\ forced' = (forced \/ ans = "err")
     \/ /\ Run(<<"check", "some">>)
        /\ state' = "RUNNING" /\ Becomes(<<"check", "some">>, {Dialog("confirm")})
        /\ UNCHANGED <<server, http, exiting, forced>>
  /\ UNCHANGED <<thread, fullQuit, late>>

Confirm_NoStopsPolling ==
  /\ Run(Dialog("confirm"))
  /\ \/ state' = "CANCELLING" /\ Becomes(Dialog("confirm"), {Sent("cancel")})
     \/ Becomes(Dialog("confirm"), {}) /\ UNCHANGED state
  /\ UNCHANGED <<server, http, fullQuit, late, thread, exiting, forced>>

Confirm ==
  /\ Run(Dialog("confirm"))
  /\ \/ state' = "CANCELLING" /\ Becomes(Dialog("confirm"), {Sent("cancel")})
     \/ Becomes(Dialog("confirm"), NextPoll(state)) /\ UNCHANGED state
  /\ UNCHANGED <<server, http, fullQuit, late, thread, exiting, forced>>

OnCancelAllIssued ==
  /\ \/ /\ Run(<<"cancel", "err">>)
        /\ state' = "RUNNING" /\ Becomes(<<"cancel", "err">>, NextPoll("RUNNING"))
        /\ UNCHANGED late
     \/ /\ Run(<<"cancel", "ok">>)
        /\ state' = "DRAINING" /\ late' = FALSE /\ Becomes(<<"cancel", "ok">>, {Sent("drain")})
  /\ UNCHANGED <<server, http, fullQuit, thread, exiting, forced>>

DeadlinePasses ==
  /\ state = "DRAINING" /\ ~late /\ late' = TRUE
  /\ UNCHANGED <<state, server, http, fullQuit, thread, exiting, inbox, crawls, seen, forced, clicks, errs>>

PollDrain ==
  /\ Run(Timer("drain")) /\ Becomes(Timer("drain"), {Sent("drain")})
  /\ UNCHANGED <<tk, thread, exiting, forced>>

OnDrainActivity ==
  /\ \E ans \in {"none", "some", "err"} :
       LET i == <<"drain", ans>>
       IN  /\ Run(i)
           /\ \/ state # "DRAINING" /\ Becomes(i, {}) /\ UNCHANGED <<tk, exiting>>
              \/ state = "DRAINING" /\ ans = "none" /\ BeginGracefulShutdown(i) /\ UNCHANGED <<fullQuit, late>>
              \/ /\ state = "DRAINING" /\ ans # "none"
                 /\ Becomes(i, {IF late THEN Dialog("force") ELSE Timer("drain")})
                 /\ UNCHANGED <<tk, exiting>>
  /\ UNCHANGED <<thread, forced>>

ForceStop ==
  /\ Run(Dialog("force")) /\ BeginGracefulShutdown(Dialog("force"))
  /\ forced' = TRUE
  /\ UNCHANGED <<thread, fullQuit, late>>

WaitOn ==
  /\ Run(Dialog("force")) /\ Becomes(Dialog("force"), {Timer("drain")})
  /\ late' = FALSE
  /\ UNCHANGED <<state, server, http, fullQuit, thread, exiting, forced>>

(* _check_shutdown_complete *)
CheckShutdownComplete_Once ==
  /\ Run(Timer("stopped")) /\ Becomes(Timer("stopped"), {})
  /\ IF Alive THEN UNCHANGED <<state, server, http>> ELSE OnServerStopped
  /\ UNCHANGED <<thread, exiting, fullQuit, late, forced>>

CheckShutdownComplete ==
  /\ Run(Timer("stopped")) /\ ~Alive
  /\ OnServerStopped /\ Becomes(Timer("stopped"), {})
  /\ UNCHANGED <<thread, exiting, fullQuit, late, forced>>

OnServerCrashed ==
  /\ Run(<<"crashed", "posted">>) /\ Becomes(<<"crashed", "posted">>, {})
  /\ state' = "IDLE" /\ server' = FALSE /\ http' = FALSE
  /\ UNCHANGED <<thread, exiting, fullQuit, late, forced>>

-----------------------------------------------------------------------------
Server == ServerCreated \/ ServerListens \/ ServerExits \/ CancelAll \/ CancelTasks
            \/ \E kind \in Requests : Activity(kind) \/ Fails(kind)
Starting == OnServerReady \/ Login \/ OnLoginFailed \/ OnLoginSuccess
Polling == OnActivity \/ SchedulePoll
Stopping == OnActivityForShutdown \/ Confirm \/ OnCancelAllIssued \/ PollDrain
              \/ OnDrainActivity \/ ForceStop \/ WaitOn \/ CheckShutdownComplete \/ OnServerCrashed

Next == Server \/ FailsToStart \/ ServerCrashes \/ JobStarts \/ JobEnds \/ DeadlinePasses
          \/ Start \/ RequestQuit \/ Starting \/ Polling \/ Stopping

Spec == Init /\ [][Next]_vars

(* The Tk loop runs every callback, every request comes back, time passes,  *)
(* dialogs are answered and an operator who is asked again and again to     *)
(* stop by force accepts, a server that was asked to exit does, crawls end. *)
Fairness ==
  /\ WF_vars(ServerCreated) /\ WF_vars(ServerListens \/ FailsToStart)
  /\ WF_vars(ServerExits) /\ WF_vars(JobEnds)
  /\ WF_vars(CancelAll) /\ WF_vars(CancelTasks)
  /\ \A kind \in Requests : WF_vars(Activity(kind) \/ Fails(kind))
  /\ WF_vars(OnActivityForShutdown) /\ WF_vars(Confirm) /\ WF_vars(OnCancelAllIssued)
  /\ WF_vars(PollDrain) /\ WF_vars(OnDrainActivity) /\ WF_vars(DeadlinePasses)
  /\ SF_vars(ForceStop) /\ WF_vars(WaitOn)
  /\ WF_vars(CheckShutdownComplete) /\ WF_vars(OnServerCrashed)

FairSpec == Spec /\ Fairness

-----------------------------------------------------------------------------
(* What may wait for the Tk thread: an answer is one its callback handles,  *)
(* and only a sweep under way is "served".                                  *)
Callbacks ==
  {Sent("ready"), Sent("login"), Dialog("login"), Dialog("confirm"), Dialog("force"),
   Timer("stopped"), <<"crashed", "posted">>, <<"cancel", "served">>, <<"cancel", "ok">>}
    \cup (Requests \X {"sent", "err"})
    \cup ({"poll", "check", "drain"} \X {"none", "some"})
    \cup ({"poll", "drain"} \X {"timer"})

(* The attributes of the app hold what its callbacks expect, and crawls run *)
(* or are being told to stop only in a server that is up (AppState,         *)
(* _run_server_task).                                                       *)
TypeOK ==
  /\ state \in {"IDLE", "STARTING", "RUNNING", "CHECKING", "CANCELLING", "DRAINING", "STOPPING", "exited"}
  /\ thread \in {"none", "starting", "binding", "up", "dead"}
  /\ server \in BOOLEAN /\ exiting \in BOOLEAN /\ http \in BOOLEAN
  /\ fullQuit \in BOOLEAN /\ late \in BOOLEAN /\ forced \in BOOLEAN
  /\ IsABag(inbox) /\ BagToSet(inbox) \subseteq Callbacks
  /\ running \subseteq started /\ started \subseteq Jobs /\ cancelled \subseteq started
  /\ sweep \subseteq started
  /\ running # {} \/ cancelled # {} \/ sweep # {} => thread = "up"
  /\ seen \in [{"check", "drain"} -> SUBSET Jobs]
  /\ clicks \in Nat /\ errs \in Nat

(* A running launcher goes on polling: whatever was asked, declined or      *)
(* failed in between, one poll is under way, or the dialog that resumes it. *)
PollGoesOn ==
  state = "RUNNING" =>
    \/ In(Timer("poll")) \/ In(Dialog("confirm"))
    \/ \E at \in {"sent", "none", "some", "err"} : In(<<"poll", at>>)

(* The server is told to exit only on an answer that counted none of the    *)
(* crawls that it ends, and was true when it was given, unless the operator *)
(* accepted that, or the launcher could not find out, or nobody signed in.  *)
(* A crawl that began after the answer is not protected.                    *)
KillsOnlyForced ==
  [][exiting' /\ ~exiting =>
       forced' \/ \E q \in DOMAIN seen : In(<<q, "none">>) /\ running \cap seen[q] = {}]_vars

(* A launcher that waits for its server to stop has told it to. *)
StoppingIsTold == state = "STOPPING" /\ Alive => exiting

(* Whatever crashes or fails on the way, stopping ends: the launcher comes  *)
(* to rest, or is running again because a step failed or was declined. A    *)
(* server that came up after another one was told to exit is the exception. *)
StopEnds ==
  \A s \in {"CHECKING", "CANCELLING", "DRAINING", "STOPPING"} :
    state = s ~> state \in Stopped \cup {"STARTING", "RUNNING"} \/ ~StoppingIsTold

(* An idle launcher has no server. *)
IdleIsStopped == state = "IDLE" => ~Alive
=============================================================================
