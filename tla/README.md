# Verification of boundary-audit

TLA+ models of the robot audit harness (`boundary_audit/`), checked with TLC on
small instances, and theorems about them checked with TLAPS. All paths below are
relative to the repository.

## The system

A *device host* (the robot's computer) runs a gRPC server with 16 threads. It
owns the evidence: it starts a packet capture, executes actions of the simulated
robot, records them, and keeps everything in a run directory. A *controller*
runs the security console, an HTTP server that calls the device host and copies
its files. A demo script is a second kind of controller.

| part | state it keeps | operations | what makes it correct |
|---|---|---|---|
| capture manager (`capture/manager.py`) | the child process, the temporary capture file, `packets.pcap` | `start`, `snapshot`, `stop` with `_finalize_capture` and `_recover_minimal_capture` | no captured packet is lost, no half copy is published, `stop` leaves the whole capture and no temporary file, a capture ends |
| monitoring agent, session (`monitoring/agent.py`) | the current session, its `started` flag, the run directory | `start`, `stop`, `snapshot`, `mark_event`, `record_api`, manifest | one capture at a time and always within reach, a finished run is closed and sealed, seals agree with the files |
| gRPC service (`grpc_sdk.py`) | none of its own: handlers share the agent | `Execute`, `StartMonitor`, `StopMonitor`, `SnapshotMonitor`, `MarkEvent`, reads | records of an action are bracketed by its markers |
| collectors, replay (`monitoring/collectors.py`, `replay.py`) | files of the run | host snapshots, probes, decoding, `replay_run` | `layers.json` counts what the files hold and can be read |
| flow extraction (`live.py`) | none: a function of `packets.pcap` and `events.jsonl` | `_scenario_for`, `extract_flows`, `enrich_live_run` | flows are bidirectional and linked to the right actions, replays agree |
| policy, analysis (`analysis.py`) | none | `generate_policy`, `differential`, `attribute` | one rule for each observed endpoint, no other; every contacted host listed under its action |
| security console (`ui_server.py`) | `monitoring`, `active_run_id`, a lock, the copies | `action`, `start_monitor`, `stop_monitor`, `state`, `_download_run` | actions are monitored, copies are those of their run, refreshed and final, the flag follows the device |
| browser script (in `ui_server.py`) | `connected`, `startingMonitoring` | `refreshState`, `startRun`, buttons | monitoring starts by itself, the control panel is enabled when a session is confirmed and comes back after failures |
| demo controller (`scripts/remote_robot_demo.py`) | none | start, execute, stop, download | appears as the second controller of the console's model |
| device simulator (`dut_simulator.py`) | power, network, posture, streams | `execute`, `cleanup` | appears as an action that returns or raises |
| configuration, models, CLI, installation scripts | none | parsing, printing | not modelled |

How the parts interact: the console calls the gRPC service (remote calls without
deadlines, several HTTP threads); handlers of the service run concurrently on
one `MonitoringAgent`, whose current session they read again and again without a
lock; a session calls its `CaptureManager`, also without one; the replay reads
files that other handlers are appending to.

The hard behaviour is therefore: interleavings inside the agent and inside the
capture manager, state read twice, failures between two steps of a stop, a crash
of the agent that leaves its capture behind, lost answers and stale polls in the
console, a page that acts on them by itself, and markers of overlapping actions that
reach the file in another order than they were stamped. `PROJECT.json` lists these hazards
at their lines.

## Modules

| module | models |
|---|---|
| `CaptureManager` | one `CaptureManager`, its capture program and its files |
| `CaptureManager_proofs` | theorems about it |
| `RunLifecycle` | abstract: what the agent promises about a run |
| `MonitoringAgent` | agent, session and the gRPC handlers that use them; `ImplementsLifecycle` is its refinement of `RunLifecycle` |
| `MonitoringAgent_proofs` | theorems about it, for any number of workers and one controller |
| `MonitoringAgentSerial_proofs` | theorems about it, mostly for one call at a time and every fault |
| `FlowAttribution` | markers, packets, flows, action links, differential analysis and policy |
| `FlowAttribution_proofs` | theorems about its types, `_scenario_for`, the intervals and replays |
| `SequenceFolds` | no model: what `FoldLeft` does, and induction over sequences, for the next module |
| `FlowExtraction_proofs` | theorems about flows, links, policy and differential analysis |
| `SecurityConsole` | the console's threads and the device host as seen through its replies |
| `SecurityConsole_proofs` | theorems about it |
| `ConsolePage` | composes `SecurityConsole` with the script of its page |
| `ConsolePage_proofs` | theorems about the composition |
| `MC...` | the modules that TLC runs: symmetry, and the connections of `FlowAttribution` |

Operators named `X_Something` with the comment *mutant* are changed versions of
`X` as a bug in the code would have it. They are in no specification. Put in the
place of `X` they break the property that `PROJECT.json` names, which shows that
the property depends on the code.

**CaptureManager.** Each worker is at a place `pc` inside `start`, `snapshot` or
`stop`; an action is what the code does between two operations on files or
processes. A file holds the first *n* packets of the capture, or is absent, cut
short (`Partial`), or the result of a recovery capture. A worker's open copy is
`fd`: opening a file for writing truncates it and disowns other copies into it,
a rename takes an open copy along. `process`, `capturePath` and `life` are
`self.process`, `self._capture_path` and the progress of the owning session. The
capture program opens its file after the spawn, writes packets, reaches its limit
(tcpdump only) or dies. Faults: `sudo -n` refused, a copy that fails, a child that
outlives its signals. `start` may return at its deadline whatever the program has done by
then, which is how it ends for dumpcap. `Crash` is the death of the agent at any point.

**MonitoringAgent.** `session`, `started`, `status`, `sealed` are the attributes and
files of the same names; `files` and `layers` count lines, which is all that the
replay reports of most files. `text` is what is in `layers.json`: opening it for
writing empties it (`ReplayOpen`), the write may fail midway and leave a part of it
(`ReplayWriteFails`), and two writers leave a mixture. `children` counts the capture programs of a run and
`held` says whether its manager has the handle of one. Every read of
`self.session` that is separated from the previous one by another statement with
an effect is an action of its own: that is where threads interleave. The pc of a
worker is idle between calls. The inside of the capture is abstracted to start,
stop, and a stop that raises, which is what `CaptureManager` shows of it.

**FlowAttribution.** A worker's `call` is stamped and appended in two steps for each of
its two markers, as `mark_event` does; other workers come between. A call may have begun
before the run, and then has an end marker only. The clock gives every stamp and packet a
tick of its own; packets of hosts that the filter leaves out let time pass. Whether the
line that tcpdump prints of a packet matches `_PACKET` is a choice (`matched`): lines of
decoded protocols do not, and are passed over as in the code. `Flows`,
`Differential` and `Policy` are functions of the state because `replay_run` may be called
at any time. `windows` is a history variable with the true intervals of the calls: the
properties compare what the code computes from the markers with them. Addresses and
ports are kept as far as flow keys tell them apart; sizes and times of a flow are left
out. `Slack` is the quarter of a second of `_scenario_for`.

**SecurityConsole.** An HTTP request is a worker that waits for the lock and then
makes one call after the other; a call takes effect in one step and may be lost
before or after it, or with a part of it done (a session made and not started, a capture
ended and not sealed). `_download_run` is one `GetArtifact` for each name of
`DownloadList`, answered from the session that is current on the device, and a name that
cannot be fetched is skipped. Polls (`state`) take no lock; their answer is kept in `reply`
and written one step later. The two assignments of the flag and the run are one
step, in all four places. `copy` says for each local directory and file which run the file
is from, how many recorded actions that run had and whether it was sealed when it was
fetched; `skipped` and `mine` are history variables. A device that restarts forgets its
session, another controller starts and stops runs.

**ConsolePage.** A poller is one call of `refreshState`: it asks (`Ask`, which is
`PollStatus` or a failure of one of the two calls of `state`), is answered (`Answer`, which
is `PollWrite`), and reacts: it enables the panel, disables it, or starts monitoring, which
takes the console's lock and the step `StartCall` like any other request. `StartEnds` does
what the script does after `await startRun()`, which has caught every error. Clicks
(`Click`) are possible while the panel is enabled. Every step of the composition is a step
of the console by one thread, a change of the device, or a step of the page alone; that
is lemma `PageSteps`.

## Runs

| run | instance | shows |
|---|---|---|
| `CaptureSerial` | 1 caller, both programs, all faults, 3 packets | types; no packet is lost; snapshots are whole; a stop that collects the program publishes everything |
| `CaptureConcurrent` | 2 workers, both programs, waits that time out, 2 packets, fair | no temporary or snapshot file is left; every stop ends; a tcpdump without its agent ends |
| `CaptureStaleSnapshot` | 2 workers | **violated**: the final capture is complete after stop |
| `AgentSerial` | 1 worker, all faults, 2 runs, 4 calls | types; results are bracketed by markers; finished runs are not captured, also after restarts; manifests seal true counts in a whole file; actions of a sealed run stay as they are |
| `AgentShared` | 2 workers, 1 controller, failing starts, stops and actions, 2 runs, 4 calls | one capture, within reach; finished runs are sealed; `RunLifecycle` is implemented |
| `AgentTwoCaptures` | 2 controllers | **violated**: one capture at a time |
| `FlowAttribution` | 2 workers, 2 calls, 2 actions, 3 connections, 2 packets | flows, links, stability of replays, policy, differential analysis |
| `ConsoleLocked` | 2 requests, lost calls, restarts, another controller that stops runs and starts them between requests, 3 runs, 2 actions | types; copies refreshed, final after a stop, of their run |
| `ConsoleFair` | page, 1 request thread, 1 poller, lost calls, restarts, a second controller, unanswered polls, 2 runs, 1 action, fair polls and calls that end | types; the flag follows the device; monitoring starts by itself; the panel comes back |
| `ConsoleHungCall` | page, 2 request threads, 2 pollers, lost calls, 2 runs, 1 action, fair polls only | actions are monitored; the flag follows the device and the panel comes back while a call hangs with the lock |
| `ConsoleMixedRuns` | 1 request thread, 1 poller, no fault | **violated**: a directory has files of one run only |
| `ConsolePanel` | page, 1 request thread, 1 poller, lost calls | **violated**: the panel is disabled until a session is confirmed |

The four runs whose property is violated show disagreements of the code with its docs, comments or
error messages; `PROJECT.json` quotes the lines under `findings`.

Deadlock is not checked: every counter is bounded, so a model stops when its
bounds are used up, and a process that nobody calls may stop as well.

*Bounds.* Every bound is a constant. Three packets let a copy be empty, partial
and complete with more to come; tcpdump's limit equals the bound so that it is
reached. Two runs are enough for a run to be replaced by a later one and for two to
be mixed up; a third lets the console lose one in between. Two workers give every
interleaving of two calls. Four calls are a snapshot or an action on both sides of
a stop, and a repeated stop. Two calls and two packets take at most six ticks, the
bound of the clock in `FlowAttribution`: it cuts nothing off. Two calls overlap, nest,
follow each other, share an action, raise, or began before the run, around both packets.
Three names stand for the thirteen of `DownloadList`: the records that grow with each action,
the capture and the manifest, which is not there before the stop. The page sees no file,
and its runs have one name. `AutoStarts` is checked with one poll at a time; `ConsoleHungCall` has two that
overlap: one may hang in its automatic start, and the other stands for all the polls that
`setInterval` goes on making.

*Conditions.* Several properties hold under a condition, and this is what the runs
and theorems establish about it:

- `EvidenceNotLost`, `SnapshotPublishesWhole`, `StopPublishesAll`: one caller at a
  time in the capture manager (`OneWorker` in the theorems). Two workers break the
  last two: two snapshots share one file name, and `CaptureStaleSnapshot` shows
  the other way.
- `FinalCaptureComplete` needs one caller and no refused `sudo` or failing copy: a
  stop that raised has dropped its process, and the next one reports success
  (theorem `ClosedComplete`).
- `NoOrphanCapture`, `FinishedNotCapturing`, `ImplementsLifecycle`: one controller
  (`OneController`), no restart (`NoRestart`). The other workers are not restricted.
  `FinishedNotCapturing` survives restarts with one worker in `AgentSerial`.
- `OrphanEnds` is that of tcpdump. dumpcap, which is used when it is installed, is started
  without the limit that the comment at `manager.py:34-36` is about and runs on.
- `SealedActions`: one call at a time. An action that has looked at the session before a
  stop writes after it. Other lines are added to a sealed run by one caller as well (below).
- `ActionsBracketed` and `LayersSealed`: one call at a time. A start between the two
  looks at the session gives a result without begin marker; an append between the
  count and the manifest makes the count old. `LayersSealed` is about what is sealed: a
  write that fails leaves the unsealed run with a `layers.json` that `status` cannot parse.
- `FinishedIsSealed`: the capture can be replayed and `layers.json` written. A failing
  replay, tcpdump missing for one, leaves a run complete and unsealed.
- The properties of flows, policy and analysis are about the packets whose lines match.
- `WindowPacketsLinked`: only one call is open around the packet and no marker of
  another call of the same action is between its two markers in the file (`Clear`).
  A call that is still running counts: with three workers it can lend its begin to the
  interval of another call, so that the packet of a third is given to its action.
  A packet may also be linked to an action that begins up to a quarter of a second
  later, outside of its window: `LinkedNear`.
- `EvidenceRefreshed`, `SavedIsSealed`, `FilesBelong`: no polls, and no other controller
  that starts a run in the middle of a request (`Alone` in the theorems). `ConsoleMixedRuns` shows what polls do; a run
  that another controller starts during a download breaks them as well, since its files are
  the ones that are answered; one started between two requests does not. Calls may be lost, files skipped, the agent restarted and
  runs stopped by others. The first two say nothing of a file that was skipped, which the
  console does not report.
- `FlowsBidirectional`: the device is exactly one end of every connection (`OneDevice`),
  as in the connections of the run. `PolicyMatchesTraffic`: all connections are TCP
  (`OnlyTcp`), because the code takes every packet for one of TCP.
- `ActionMonitored`: no restart of the device and no other controller that stops runs
  (`NobodyStops`).

*What the code does not promise.* The models show these as well, and no property is stated
for them, since it would not hold:

- `start` says that it does not return before the interface is open (`manager.py:69-71`), but
  waits for two seconds at most, and dumpcap never prints the words it waits for.
- `MarkEvent` and `SnapshotMonitor` work on the session that is there, started or not
  (`agent.py:138-154`), and write to a run that is sealed.
- Every packet is labelled TCP (`live.py:68`): UDP packets that match the pattern, such as
  those of time synchronisation, get a tcp rule in the policy.
- Packets whose line does not match (`live.py:57`) are in no flow and linked to no action.
- What a stop saves on the controller (`ui_server.py:139-141`) is a part of the run on the
  device: `generated-policy.nft`, `checksums.sha256` and `tcpdump.log` are not in the list, and
  a file that cannot be fetched is skipped without a word. `SavedIsSealed` is about the files
  of the list that were fetched.
- A call that is never answered keeps the console's lock.

## Fairness

`CaptureManager!FairSpec`: weak fairness of the steps of a worker inside `stop` (a
thread that runs and whose every wait has a timeout, `manager.py:104, 121-125, 189`),
and of the capture program opening its interface and writing packets (an interface
in use). Nothing is assumed of when anybody calls `start`, `snapshot` or `stop`.
`StopTerminates` rests on the first part, `OrphanEnds` on the second.

`ConsolePage!PollFair` (in `PollSpec`): weak fairness of the steps of each poll, which waits
for no lock, and on the device for nothing (`agent.py:156-157`). `setInterval` repeats the
poll every one and a half seconds for ever (`ui_server.py:198`), and strong fairness says
that not every one of infinitely many polls fails. Nothing is assumed of a call that holds
the console's lock: it may hang for ever. `FlagCatchesUp` and `PanelReturns` hold under this
alone (`ConsoleHungCall`). That the requests which wait for the lock are ever served does
not, and no property claims it.

`ConsolePage!CallsEnd` (with `PollFair` in `FairSpec`): each call that is made with the lock
is answered or fails, a start that waits for the lock gets it once while requests free it
again and again, and not every one of infinitely many automatic starts fails. The client
sets no deadline (`grpc_sdk.py:164-184`) and `threading.Lock` promises no order: nothing in
the code enforces this part. It is an assumption about the network and about people who do
not click without a pause, and `AutoStarts` rests on it.

Nothing forces requests to come or faults to happen or stop. `FlagCatchesUp` and
`PanelReturns` are about devices that settle; `AutoStarts` ends with the bound on the runs.

## What is proved

The proofs hold for any number of workers, any faults, packets, runs and calls,
from the named assumptions on the constants (`CaptureAssumption`,
`AgentAssumption`, `ConsoleAssumption`, `FlowAssumption`). What a theorem takes in
addition is in its ASSUME: `OneWorker` (one caller at a time), `OneController`,
`NoRestart`, `OneDevice`, `OnlyTcp`, or that a kind of fault is not among `Faults`.

*CaptureManager_proofs.* `TypeCorrect` is inductive as it stands.
`SnapshotFileTemporary`: the file only exists while a snapshot works; the
strengthening `NoStrayInv` adds that an open copy into it belongs to a worker inside
the copy, and that a crash ends all calls. For one caller at a time `OneInv` says, for
tcpdump, that `packets.pcap` is the capture and, for dumpcap, that the packets are
in the temporary file until a copy has all of them, together with what each stage of
a copy has done (`StageInv`). It gives `PacketsSurvive` and `SnapshotsWhole`. `StopInv`
adds that `_capture_path` still names dumpcap's file as long as somebody has the
process, and gives `StopsPublish`; `ClosedInv` adds that, without host faults, a
session is closed only by a stop that went through, and gives `ClosedComplete`.
`TempRemoved` needs no bound on the callers: while a closed session has a temporary file,
some stop is still on its way to remove it.

*MonitoringAgent_proofs.* `TypeCorrect` needs that a handle belongs to a running
program, as `children` would become negative otherwise. With one controller and no
restart, an inductive invariant relates the place of the controller in start and stop
to the session, its flag and its capture: a capture exists only for the current
session, from `StartCapture` until `EndHeld`, and `started` is false once status has been
written. From it follow `OneCapture`, `FinishedIsOver`, and `LifecycleImplemented`, whose
step lemma maps each action of the agent to a step or a stutter of `RunLifecycle`:
`StartCapture` to `Capture`, the end of the program to `Close`, `StopMeta` to
`Finish`, `StopManifest` to `Seal`, the others to stutters.

*MonitoringAgentSerial_proofs.* `FinishedSealed` holds for any workers: a run that was
finished is sealed or some worker is between `StopMeta` and `StopManifest` with it, and a
replay that cannot fail takes that worker on. The others are for one caller at a time, any
fault and restarts. One invariant, `SerialInv`, says by the place of the worker what it has
left in the run: how far an action's markers and result are (`ActionInv`), that a stop has
the current session, whose flag is down (`FreshInv`), and that a replay counted the files
as they still are (`ReplayInv`), whatever earlier replays have left in `layers.json`.
`Bracketed`, `SealedLayers` and `SealedUnchanged` follow from it.

*SecurityConsole_proofs.* Type correctness includes that the lock belongs to the one thread
that is inside a locked block. `ActionsMonitored`: the thread that is about to execute has
seen a monitoring device, and only the thread inside the lock could stop it; polls, lost
answers and runs that others start do not matter. `ActionsInCopy`, `DirectoriesSeparate` and `StopSavesSealed` assume
`Alone`; lost calls, skipped files, restarts, stops by another controller and its starts
between two requests are all allowed. Their invariant `LockedInv` relates the run that the thread inside the lock downloads to that
of the device, and each name that it has passed to the copy: fetched from this run, with at
least the line of the thread's action, sealed for a stop, or among those skipped.

*ConsolePage_proofs.* `PageTypeCorrect` and `PageActionsMonitored` carry this over to the
composition by lemma `PageSteps`.

*SequenceFolds.* The replay reads whole files, so that `Flows`, `Policy` and the intervals are
folds over sequences of any length. The induction theorems of the library take an operator as
a parameter, which the provers cannot instantiate; this module takes the step of the fold as
a CONSTANT instead, and an INSTANCE per fold gives it. `FoldAppend` says that the fold of a
longer sequence is one more step, `SeqInduction` that a set of sequences which has `<<>>` and
is closed under `Append` has them all. Both come from the least number that is a
counterexample; that the recursive function of `FoldLeft` exists is proved, not assumed.

*FlowAttribution_proofs.* `TypeCorrect` needs that a marker that waits to be appended was
stamped. `ScenarioSound` and `ScenarioStable` say what `_scenario_for` returns for every
list of intervals. `ReplaysAgree` combines the latter with the fold of the markers: one more
marker leaves the intervals alone or adds one behind them.

*FlowExtraction_proofs.* Two arguments meet here. The first is an induction over the packets:
`Extracted` says that the flows have distinct keys, that each counts exactly the packets of
its key by direction, and that its ids are the actions those packets were given, or
"unattributed" alone (`IdsOf`). It needs that no two packets are equal, an invariant because
each has a tick of its own. The second is an invariant of the running system, `CallInv`: an
interval may join the begin of one call to the end of another, but then each moment of it
lies inside some call of that action, running ones included, and it begins where one of
them does. It is inductive together with the same for the begin that is still open and
each call that may yet end (`OpenInv`). From both follow
`NoneMatchedIfUnattributed` (with `ScenarioSound`), `LinksAreNear` and
`ClearPacketsLinked` (which adds that two markers with none of their action between them
do pair up, `AllPairUp`). `DirectionsInOneFlow` adds that a key determines both ends of a
connection, `PolicyExact` an induction over the flows, and `AnalysisCovers` a lemma about
sums: the total of a count is at least the size of the union of what is counted
(`TotalBounds`).

Every invariant that a passing run checks is also stated by a theorem, and so are the action
properties and the refinement. Only model-checked: liveness (`StopTerminates`, `OrphanEnds`,
`FlagCatchesUp`, `AutoStarts`, `PanelReturns`), which these provers do not
handle; the counterexamples of the violated runs; and the mutants.

## Not modelled

- What `tshark`, `nft`, `/proc` and DNS print, decoding of packets, the gRPC encoding, and
  the contents of the manifest: data that no property tells apart. `decode_with_tshark`
  appends to `dns.jsonl` and `tls.jsonl` at each replay, so that their lines repeat; the
  models count them as the code does.
- Concurrent reads: `status` and `GetArtifact` while `layers.json` is being written, and
  the console's directory listing while a download is writing. The other results of a
  replay are written in the same step as `layers.json`.
- Writes that fail other than that of `layers.json` and those of the capture:
  `metadata.json`, the manifest and markers on the device, and `write_bytes` of a download.
- `enrich_live_run` (`live.py:98-127`), a command for the shell that rewrites the files of
  a bundle.
- `attribute` and `classify_scope`: nothing in the sources calls them.
- The state of the simulated robot (power, posture, streams): no part of the harness reads
  it back, and no document says how it should evolve. Its actions appear as calls that
  return or raise.
- `ensureMonitoring` at the load of the page, an answer of the console that is lost after
  the console has served it, and rendering.
- The demo controller's own download, which goes to a directory of its own. Its starts and
  stops are those of the second controller.
- Configuration, data models, the rest of the CLI, and installation: no state of their own.
- Real time: the two seconds of `start` and the timeouts of `stop` are choices.

## Plan

Done, in this order: capture manager, agent with its abstract lifecycle, flow attribution
with the differential analysis, console, page, and the proofs above.

Open: the reads of `layers.json` during a replay; `AutoStarts` with two overlapping polls;
writes that fail at `metadata.json` and the manifest; a console that reports what a download
has skipped, should the code come to do so.
