----------------------------- MODULE ConsolePage -----------------------------
(***************************************************************************)
(* The page that SecurityConsole serves (the script in ui_server.py), in    *)
(* front of the console: it asks for /api/state again and again, starts     *)
(* monitoring by itself when the device does not monitor, and enables the   *)
(* buttons for actions and for clearing the run.  A poller is one call of   *)
(* refreshState(); its requests are served by a thread of the console, and  *)
(* calls overlap because each of them waits for its answers.                *)
(***************************************************************************)
EXTENDS SecurityConsole

VARIABLES
  connected,  \* the control panel is enabled
  starting,   \* startingMonitoring
  call        \* where each refreshState() is

page == <<connected, starting, call>>
pageVars == <<vars, page>>

\* What an answer says, {robot: {ok}, monitoring}: "monitored", "quiet", or
\* "unavailable" without a healthy robot; "broken" when fetch() throws.
Answers == {"monitored", "quiet", "unavailable", "broken"}

Says(running) == IF running THEN "monitored" ELSE "quiet"

(* Type invariant: also, a request of the page is being served only while   *)
(* its refreshState() waits for it.                                         *)
PageTypeOK ==
  /\ TypeOK
  /\ connected \in BOOLEAN
  /\ starting \in BOOLEAN
  /\ call \in [Pollers -> {"idle", "asked", "start", "posted"} \cup Answers]
  /\ \A p \in Pollers : /\ pc[p] = "write" <=> call[p] = "asked"
                        /\ Locked(p) => call[p] = "posted"

PageInit ==
  /\ Init
  /\ connected = FALSE
  /\ starting = FALSE
  /\ call = [p \in Pollers |-> "idle"]

Becomes(p, stage) == call' = [call EXCEPT ![p] = stage]

NoAnswer == "page" \in Faults

-----------------------------------------------------------------------------
(* refreshState(). *)

(* state() reaches the device, or fails: at health(), which leaves no       *)
(* `robot` in the answer, or at monitor_status(), which leaves the flag as  *)
(* it was read first.                                                       *)
Ask(p) ==
  /\ call[p] = "idle"
  /\ \/ PollStatus(p) /\ Becomes(p, "asked")
     \/ /\ \/ Lost /\ Becomes(p, "unavailable")
           \/ Lost /\ Becomes(p, Says(monitoring))
           \/ NoAnswer /\ Becomes(p, "broken")
        /\ UNCHANGED vars
  /\ UNCHANGED <<connected, starting>>

Answer(p) ==
  /\ call[p] = "asked"
  /\ PollWrite(p)
  /\ Becomes(p, Says(reply[p].running))
  /\ UNCHANGED <<connected, starting>>

React_OnlyAfterStart(p) ==  \* mutant: setConnected(true) after a start only
  /\ call[p] \in Answers
  /\ \/ call[p] = "monitored" /\ Becomes(p, "idle") /\ UNCHANGED <<connected, starting>>
     \/ /\ call[p] = "quiet" /\ ~starting
        /\ starting' = TRUE
        /\ Becomes(p, "start")
        /\ UNCHANGED connected
     \/ /\ call[p] \in {"unavailable", "broken"} \/ (call[p] = "quiet" /\ starting)
        /\ connected' = FALSE
        /\ starting' = (starting /\ call[p] # "broken")
        /\ Becomes(p, "idle")
  /\ UNCHANGED vars

(* The page acts on the answer; `catch` also takes startingMonitoring back. *)
React(p) ==
  /\ call[p] \in Answers
  /\ \/ /\ call[p] = "monitored"
        /\ connected' = TRUE
        /\ Becomes(p, "idle")
        /\ UNCHANGED starting
     \/ /\ call[p] = "quiet" /\ ~starting
        /\ starting' = TRUE
        /\ Becomes(p, "start")
        /\ UNCHANGED connected
     \/ /\ call[p] \in {"unavailable", "broken"} \/ (call[p] = "quiet" /\ starting)
        /\ connected' = FALSE
        /\ starting' = (starting /\ call[p] # "broken")
        /\ Becomes(p, "idle")
  /\ UNCHANGED vars

(* startRun() posts /api/monitor/start, which is served like any other, ... *)
AutoStart(p) ==
  /\ call[p] = "start"
  /\ StartBegin(p)
  /\ Becomes(p, "posted")
  /\ UNCHANGED <<connected, starting>>

(* ... and refused when the flag has been set meanwhile.                    *)
AutoRefused(p) ==
  /\ call[p] = "start"
  /\ monitoring /\ lock = NoOne
  /\ Becomes(p, "posted")
  /\ UNCHANGED <<vars, connected, starting>>

AutoCall(p) == StartCall(p) /\ UNCHANGED page

StartEnds_NoAwait(p) ==  \* mutant: `startRun()` without await
  /\ call[p] = "posted"
  /\ starting' = FALSE
  /\ connected' = TRUE
  /\ Becomes(p, "idle")
  /\ UNCHANGED vars

StartEnds_Stuck(p) ==  \* mutant: leaves startingMonitoring behind
  /\ call[p] = "posted" /\ pc[p] = "idle"
  /\ connected' = TRUE
  /\ Becomes(p, "idle")
  /\ UNCHANGED <<vars, starting>>

(* startRun() has caught every error of its own: the page takes the start   *)
(* for done.                                                                *)
StartEnds(p) ==
  /\ call[p] = "posted" /\ pc[p] = "idle"
  /\ starting' = FALSE
  /\ connected' = TRUE
  /\ Becomes(p, "idle")
  /\ UNCHANGED vars

RefreshState(p) ==
  Ask(p) \/ Answer(p) \/ React(p) \/ AutoStart(p) \/ AutoRefused(p)
    \/ AutoCall(p) \/ StartEnds(p)

-----------------------------------------------------------------------------
(* executeAction() and stopRun(): buttons of an enabled panel. *)

Click(w) ==
  /\ connected
  /\ ActionBegin(w) \/ StopBegin(w)
  /\ UNCHANGED page

Served(w) == Inside(w) /\ UNCHANGED page

DeviceChanges ==
  /\ DeviceRestarts \/ OtherStarts \/ OtherStops
  /\ UNCHANGED page

PageNext ==
  \/ \E w \in Requesters : Click(w) \/ Served(w)
  \/ \E p \in Pollers : RefreshState(p)
  \/ DeviceChanges

PageSpec == PageInit /\ [][PageNext]_pageVars

(* What the page and the polls do by themselves.  setInterval calls         *)
(* refreshState every one and a half seconds for ever (ui_server.py:198),   *)
(* and of all these polls not every one fails.  A poll waits neither for    *)
(* the lock nor, on the device, for anything (agent.py:156-157).            *)
PollFair ==
  \A p \in Pollers :
    /\ WF_pageVars(Ask(p) \/ Answer(p) \/ React(p) \/ StartEnds(p))
    /\ SF_pageVars(Ask(p) /\ call'[p] = "asked")

(* What nothing in the code enforces: every call that a thread makes with   *)
(* the lock in its hands is answered or fails (grpc_sdk.py:164-184 sets no  *)
(* deadline), a start waiting for the lock gets it once, since clicks leave *)
(* it free again and again, and of all the starts not every one fails.      *)
CallsEnd ==
  /\ \A w \in Requesters : WF_pageVars(Served(w))
  /\ \A p \in Pollers :
       /\ WF_pageVars(AutoCall(p))
       /\ SF_pageVars(AutoStart(p) \/ AutoRefused(p))
       /\ SF_pageVars(AutoCall(p) /\ device'.started /\ monitoring')

PollSpec == PageSpec /\ PollFair
FairSpec == PollSpec /\ CallsEnd

-----------------------------------------------------------------------------
(* Properties. *)

(* The flag follows the device in the end (ui_server.py:152-164), however   *)
(* many replies were lost or came late, and also while a call that holds    *)
(* the lock hangs (ui_server.py:90, 115, 127).                              *)
FlagCatchesUp ==
  /\ <>[]device.started => <>[]monitoring
  /\ <>[]~device.started => <>[]~monitoring

(* "The console starts monitoring automatically when the robot is available *)
(* and keeps a session active" (README.md:116-117): a device that does not  *)
(* monitor gets a new run, after a clear, a restart or a lost start as      *)
(* well.                                                                    *)
AutoStarts == ~device.started ~> device.started \/ device.made = MaxRuns

(* A device that goes on monitoring gets its buttons back, whatever answers *)
(* disabled them (ui_server.py:195-196).                                   *)
PanelReturns == <>[]device.started => []<>connected

(* "The control panel stays disabled until both the robot connection and    *)
(* monitoring session are confirmed" (README.md:117-118): it is not enabled *)
(* before the device has made a run (ui_server.py:196, 198).                *)
PanelConfirmed == connected => device.made > 0
=============================================================================
