--------------------------- MODULE CaptureManager ---------------------------
(***************************************************************************)
(* One CaptureManager (boundary_audit/capture/manager.py): the packet      *)
(* capture program it runs as a child process, the capture file that the   *)
(* program writes, and packets.pcap in the run directory, where snapshot   *)
(* and stop publish the captured packets.  The manager has no lock: every  *)
(* gRPC worker thread may be inside one of its methods at the same time.   *)
(***************************************************************************)
EXTENDS Integers

CONSTANTS
  Workers,      \* the gRPC worker threads that call into the manager
  Tools,        \* the capture programs that shutil.which may find
  Faults,       \* what may fail on the host, a subset of FaultKinds
  PacketLimit,  \* packet_limit, the -c argument of tcpdump
  MaxPackets    \* bound on the packets a capture program writes

\* "sudo": a `sudo -n` command is refused; "disk": a copy into the run
\* directory fails; "wait": the child outlives SIGINT and SIGTERM.
FaultKinds == {"sudo", "disk", "wait"}

ASSUME CaptureAssumption ==
  /\ Workers # {}
  /\ Tools \subseteq {"dumpcap", "tcpdump"}
  /\ Faults \subseteq FaultKinds
  /\ PacketLimit \in Nat \ {0}
  /\ MaxPackets \in Nat

(* What a file holds: the first n packets of the run (n >= 0, a mere header *)
(* when n = 0), or one of the following.                                    *)
Absent   == -1   \* the file does not exist
Partial  == -2   \* a copy is under way: truncated or cut short
Recovery == -3   \* packets of the recovery capture, none of the run's

Content == 0..MaxPackets \cup {Absent, Partial, Recovery}

VARIABLES
  tool,         \* the program that start found
  life,         \* progress of the session that owns the manager
  process,      \* the child: self.process, or after a crash the orphan
  written,      \* packets the child has written, Absent until it opens
  capturePath,  \* _capture_path: "none", "tmp" (dumpcap) or "output"
  tmpExists,    \* dumpcap's file in /tmp exists; it holds `written` packets
  snap,         \* packets.snapshot.pcap
  output,       \* packets.pcap
  pc,           \* where each worker is
  fd,           \* the file the worker's copy is going into
  interrupted   \* workers whose stop found the child alive

child == <<tool, process, written>>
files == <<tmpExists, snap, output>>
vars  == <<tool, life, process, written, capturePath, tmpExists, snap,
           output, pc, fd, interrupted>>

WorkerStates == {"idle", "starting", "snapOpen", "snapCopy", "snapReplace",
                 "stopWait", "finalize", "finalOpen", "finalCopy", "finalRm",
                 "recover"}

(* Type invariant. *)
TypeOK ==
  /\ tool \in Tools
  /\ life \in {"new", "starting", "ready", "failed", "closed", "crashed"}
  /\ process \in {"none", "running", "exited"}
  /\ written \in 0..MaxPackets \cup {Absent}
  /\ capturePath \in {"none", "tmp", "output"}
  /\ tmpExists \in BOOLEAN
  /\ snap \in Content
  /\ output \in Content
  /\ pc \in [Workers -> WorkerStates]
  /\ fd \in [Workers -> {"none", "snap", "out", "gone"}]
  /\ interrupted \subseteq Workers

Init ==
  /\ tool \in Tools
  /\ life = "new"
  /\ process = "none"
  /\ written = Absent
  /\ capturePath = "none"
  /\ tmpExists = FALSE
  /\ snap = Absent
  /\ output = Absent
  /\ pc = [w \in Workers |-> "idle"]
  /\ fd = [w \in Workers |-> "none"]
  /\ interrupted = {}

Goto(w, label) == pc' = [pc EXCEPT ![w] = label]

(* _capture_path names a file that is not packets.pcap and that exists. *)
TmpThere == capturePath = "tmp" /\ tmpExists

-----------------------------------------------------------------------------
(* Files.  A worker that opens a file for writing truncates it, so what any *)
(* other worker has already copied into that file is lost: the truncation   *)
(* disowns the other copies.  os.replace and unlink act on names, an open   *)
(* copy follows its file.                                                   *)

OpenTruncated(w, file) ==
  fd' = [v \in Workers |-> IF v = w THEN file
                           ELSE IF fd[v] = file THEN "gone" ELSE fd[v]]

(* The copy of worker w ends: its file holds all that was written so far. *)
CopyEnds(w) ==
  /\ snap' = IF fd[w] = "snap" THEN written ELSE snap
  /\ output' = IF fd[w] = "out" THEN written ELSE output
  /\ fd' = [fd EXCEPT ![w] = "none"]

(* packets.pcap is replaced by `content`; the replaced file has no name. *)
ReplaceOutput(content) ==
  /\ output' = content
  /\ fd' = [v \in Workers |-> IF fd[v] = "out" THEN "gone"
                              ELSE IF fd[v] = "snap" THEN "out" ELSE fd[v]]

-----------------------------------------------------------------------------
(* The capture program (external). *)

(* The program opens the interface, then creates the file it writes. *)
OpenInterface ==
  /\ process = "running" /\ written = Absent
  /\ written' = 0
  /\ tmpExists' = (tool = "dumpcap")
  /\ output' = IF tool = "tcpdump" THEN 0 ELSE output
  /\ UNCHANGED <<tool, life, process, capturePath, snap, pc, fd, interrupted>>

CapturePacket_OneLate ==  \* mutant: the child exits one packet after its limit
  /\ process = "running" /\ written \in 0..MaxPackets
  /\ written' = written + 1
  /\ output' = IF tool = "tcpdump" THEN written' ELSE output
  /\ process' = IF tool = "tcpdump" /\ written' > PacketLimit
                THEN "exited" ELSE process
  /\ UNCHANGED <<tool, life, capturePath, tmpExists, snap, pc, fd, interrupted>>

CapturePacket_Unlimited ==  \* mutant: tcpdump is started without a limit
  /\ process = "running" /\ written \in 0..MaxPackets
  /\ written' = IF written < MaxPackets THEN written + 1 ELSE written
  /\ output' = IF tool = "tcpdump" THEN written' ELSE output
  /\ UNCHANGED <<tool, life, process, capturePath, tmpExists, snap, pc, fd, interrupted>>

(* One packet reaches the file.  tcpdump exits at its -c limit; dumpcap is *)
(* started without a limit.                                                *)
CapturePacket ==
  /\ process = "running" /\ written \in 0..MaxPackets
  /\ written' = IF written < MaxPackets THEN written + 1 ELSE written
  /\ output' = IF tool = "tcpdump" THEN written' ELSE output
  /\ process' = IF tool = "tcpdump" /\ written' >= PacketLimit
                THEN "exited" ELSE process
  /\ UNCHANGED <<tool, life, capturePath, tmpExists, snap, pc, fd, interrupted>>

(* The program dies by itself: interface lost, killed by the system. *)
ChildDies ==
  /\ process = "running"
  /\ process' = "exited"
  /\ UNCHANGED <<tool, life, written, capturePath, files, pc, fd, interrupted>>

-----------------------------------------------------------------------------
(* start(): called once, by the worker that creates the session. *)

StartSpawn(w) ==
  /\ life = "new" /\ pc[w] = "idle"
  /\ life' = "starting"
  /\ capturePath' = IF tool = "dumpcap" THEN "tmp" ELSE "output"
  /\ process' \in {"running", "exited"}   \* "exited": no permission, no retry
  /\ Goto(w, "starting")
  /\ UNCHANGED <<tool, written, files, fd, interrupted>>

(* Popen raises: neither dumpcap nor tcpdump is installed. *)
StartRaises(w) ==
  /\ life = "new" /\ pc[w] = "idle" /\ tool = "tcpdump"
  /\ life' = "failed"
  /\ capturePath' = "output"
  /\ UNCHANGED <<child, files, pc, fd, interrupted>>

(* The log shows "listening on", which tcpdump prints and dumpcap does not, *)
(* or the child is dead.                                                    *)
StartReturns(w) ==
  /\ pc[w] = "starting"
  /\ process = "exited" \/ (tool = "tcpdump" /\ written # Absent)
  /\ life' = "ready"
  /\ Goto(w, "idle")
  /\ UNCHANGED <<child, capturePath, files, fd, interrupted>>

(* The two seconds are over: start returns whatever the program has done by *)
(* then.  This is how every start of dumpcap ends.                          *)
StartDeadline(w) ==
  /\ pc[w] = "starting" /\ process = "running"
  /\ life' = "ready"
  /\ Goto(w, "idle")
  /\ UNCHANGED <<child, capturePath, files, fd, interrupted>>

-----------------------------------------------------------------------------
(* snapshot(): copy the capture file to packets.snapshot.pcap, then rename *)
(* it to packets.pcap.  Without a temporary capture file it does nothing.  *)

SnapshotCheck(w) ==
  /\ life # "crashed" /\ pc[w] = "idle" /\ TmpThere
  /\ Goto(w, "snapOpen")
  /\ UNCHANGED <<child, life, capturePath, files, fd, interrupted>>

SnapshotOpen(w) ==
  /\ pc[w] = "snapOpen" /\ TmpThere
  /\ snap' = Partial
  /\ OpenTruncated(w, "snap")
  /\ Goto(w, "snapCopy")
  /\ UNCHANGED <<child, life, capturePath, tmpExists, output, interrupted>>

SnapshotCopy(w) ==
  /\ pc[w] = "snapCopy"
  /\ CopyEnds(w)
  /\ Goto(w, "snapReplace")
  /\ UNCHANGED <<child, life, capturePath, tmpExists, interrupted>>

SnapshotAbort_Publishes(w) ==  \* mutant: a failed copy is renamed all the same
  /\ pc[w] \in {"snapOpen", "snapCopy"}
  /\ Goto(w, "snapReplace")
  /\ UNCHANGED <<child, life, capturePath, files, fd, interrupted>>

SnapshotAbort_NoUnlink(w) ==  \* mutant: a failed copy is left behind
  /\ pc[w] \in {"snapOpen", "snapCopy"}
  /\ fd' = [fd EXCEPT ![w] = "none"]
  /\ Goto(w, "idle")
  /\ UNCHANGED <<child, life, capturePath, files, interrupted>>

(* OSError: no source any more, no permission to read it, disk full. *)
SnapshotAbort(w) ==
  /\ pc[w] \in {"snapOpen", "snapCopy"}
  /\ snap' = Absent
  /\ fd' = [v \in Workers |-> IF v = w THEN "none"
                              ELSE IF fd[v] = "snap" THEN "gone" ELSE fd[v]]
  /\ Goto(w, "idle")
  /\ UNCHANGED <<child, life, capturePath, tmpExists, output, interrupted>>

(* Another worker may have renamed or unlinked the file: the rename fails. *)
SnapshotReplace(w) ==
  /\ pc[w] = "snapReplace"
  /\ \/ /\ snap # Absent
        /\ ReplaceOutput(snap)
        /\ snap' = Absent
     \/ /\ snap = Absent
        /\ UNCHANGED <<snap, output, fd>>
  /\ Goto(w, "idle")
  /\ UNCHANGED <<child, life, capturePath, tmpExists, interrupted>>

-----------------------------------------------------------------------------
(* stop(), called while the session is started. *)

(* stop returns normally; the session then clears its `started` flag. *)
StopReturns(w) ==
  /\ life' = "closed"
  /\ Goto(w, "idle")
  /\ interrupted' = interrupted \ {w}

(* stop raises; the session stays started and stop may be called again. *)
StopRaises(w) ==
  /\ Goto(w, "idle")
  /\ interrupted' = interrupted \ {w}
  /\ UNCHANGED life

StopNoProcess(w) ==
  /\ life = "ready" /\ pc[w] = "idle" /\ process = "none"
  /\ StopReturns(w)
  /\ UNCHANGED <<child, capturePath, files, fd>>

StopExited_NoFinalize(w) ==  \* mutant: a child that exited is only collected
  /\ life = "ready" /\ pc[w] = "idle" /\ process = "exited"
  /\ process' = "none"
  /\ StopReturns(w)
  /\ UNCHANGED <<tool, written, capturePath, files, fd>>

StopExited(w) ==
  /\ life = "ready" /\ pc[w] = "idle" /\ process = "exited"
  /\ process' = "none"
  /\ Goto(w, "finalize")
  /\ UNCHANGED <<tool, written, life, capturePath, files, fd, interrupted>>

(* SIGINT, sent to the child of sudo when there is one. *)
StopSignal(w) ==
  /\ life = "ready" /\ pc[w] = "idle" /\ process = "running"
  /\ Goto(w, "stopWait")
  /\ interrupted' = interrupted \cup {w}
  /\ UNCHANGED <<child, life, capturePath, files, fd>>

StopWait_NeedsChild(w) ==  \* mutant: wait only returns on a child still alive
  /\ pc[w] = "stopWait" /\ process = "running"
  /\ process' = "none"
  /\ Goto(w, "finalize")
  /\ UNCHANGED <<tool, written, life, capturePath, files, fd, interrupted>>

(* wait returns: the child has exited, on our signal or before it. *)
StopWait(w) ==
  /\ pc[w] = "stopWait"
  /\ process' = "none"
  /\ Goto(w, "finalize")
  /\ UNCHANGED <<tool, written, life, capturePath, files, fd, interrupted>>

(* Another stop has set self.process to None before this one reaches wait: *)
(* AttributeError.                                                         *)
StopLosesProcess(w) ==
  /\ pc[w] = "stopWait" /\ process = "none"
  /\ StopRaises(w)
  /\ UNCHANGED <<child, capturePath, files, fd>>

(* TimeoutExpired after terminate(). *)
StopTimeout(w) ==
  /\ pc[w] = "stopWait" /\ process = "running" /\ "wait" \in Faults
  /\ StopRaises(w)
  /\ UNCHANGED <<child, capturePath, files, fd>>

(* After _finalize_capture: a header-only file is worth a recovery attempt *)
(* if the child had to be interrupted.                                     *)
AfterFinalize(w) ==
  IF w \in interrupted
  THEN Goto(w, "recover") /\ UNCHANGED <<life, interrupted>>
  ELSE StopReturns(w)

(* _finalize_capture(): nothing to copy, or make the file readable. *)
FinalizeNothing(w) ==
  /\ pc[w] = "finalize" /\ ~TmpThere
  /\ capturePath' = "none"
  /\ AfterFinalize(w)
  /\ UNCHANGED <<child, files, fd>>

FinalizeChmod(w) ==
  /\ pc[w] = "finalize" /\ TmpThere
  /\ \/ /\ Goto(w, "finalOpen")
        /\ UNCHANGED <<life, interrupted>>
     \/ /\ "sudo" \in Faults
        /\ StopRaises(w)
  /\ UNCHANGED <<child, capturePath, files, fd>>

FinalizeOpen(w) ==
  /\ pc[w] = "finalOpen" /\ TmpThere
  /\ output' = Partial
  /\ OpenTruncated(w, "out")
  /\ Goto(w, "finalCopy")
  /\ UNCHANGED <<child, life, capturePath, tmpExists, snap, interrupted>>

FinalizeCopy(w) ==
  /\ pc[w] = "finalCopy"
  /\ CopyEnds(w)
  /\ Goto(w, "finalRm")
  /\ UNCHANGED <<child, life, capturePath, tmpExists, interrupted>>

FinalizeAbort_Swallows(w) ==  \* mutant: a failed copy does not stop the removal
  /\ \/ pc[w] = "finalOpen" /\ ~TmpThere
     \/ pc[w] = "finalCopy" /\ "disk" \in Faults
  /\ Goto(w, "finalRm")
  /\ fd' = [fd EXCEPT ![w] = "none"]
  /\ UNCHANGED <<child, life, capturePath, files, interrupted>>

(* copyfile raises: the source is gone, or the disk is full. *)
FinalizeAbort(w) ==
  /\ \/ pc[w] = "finalOpen" /\ ~TmpThere
     \/ pc[w] = "finalCopy" /\ "disk" \in Faults
  /\ StopRaises(w)
  /\ fd' = [fd EXCEPT ![w] = "none"]
  /\ UNCHANGED <<child, capturePath, files>>

FinalizeRm_NoRm(w) ==  \* mutant: the temporary file is not removed
  /\ pc[w] = "finalRm"
  /\ capturePath' = "none"
  /\ AfterFinalize(w)
  /\ UNCHANGED <<child, files, fd>>

(* `rm -f` of the temporary file, whose failure is not checked. *)
FinalizeRm(w) ==
  /\ pc[w] = "finalRm"
  /\ \/ tmpExists' = (tmpExists /\ capturePath # "tmp")
     \/ "sudo" \in Faults /\ UNCHANGED tmpExists
  /\ capturePath' = "none"
  /\ AfterFinalize(w)
  /\ UNCHANGED <<child, snap, output, fd>>

(* packets.pcap has 24 bytes or less.  That is the header of tcpdump's file *)
(* (dumpcap's pcapng header is longer); a copy that another worker has just *)
(* begun, or that was cut short, may be as small whatever the program.      *)
HeaderOnly == output = Partial \/ (output = 0 /\ tool = "tcpdump")

(* _recover_minimal_capture() captures traffic of its own making; a failed *)
(* attempt leaves packets.pcap alone, and so does a copy of some size.     *)
Recover(w) ==
  /\ pc[w] = "recover"
  /\ \/ /\ HeaderOnly
        /\ ReplaceOutput(Recovery)
     \/ UNCHANGED <<output, fd>>
  /\ StopReturns(w)
  /\ UNCHANGED <<child, capturePath, tmpExists, snap>>

-----------------------------------------------------------------------------
(* The agent process dies.  Its threads are gone, the child is orphaned. *)
Crash ==
  /\ life \notin {"new", "crashed"}
  /\ life' = "crashed"
  /\ pc' = [w \in Workers |-> "idle"]
  /\ fd' = [w \in Workers |-> "none"]
  /\ interrupted' = {}
  /\ UNCHANGED <<child, capturePath, files>>

StopStep(w) ==
  \/ StopWait(w) \/ StopLosesProcess(w) \/ StopTimeout(w)
  \/ FinalizeNothing(w) \/ FinalizeChmod(w) \/ FinalizeOpen(w)
  \/ FinalizeCopy(w) \/ FinalizeAbort(w) \/ FinalizeRm(w) \/ Recover(w)

Start(w) == StartSpawn(w) \/ StartRaises(w) \/ StartReturns(w) \/ StartDeadline(w)

Snapshot(w) ==
  \/ SnapshotCheck(w) \/ SnapshotOpen(w) \/ SnapshotCopy(w)
  \/ SnapshotAbort(w) \/ SnapshotReplace(w)

Stop(w) == StopNoProcess(w) \/ StopExited(w) \/ StopSignal(w) \/ StopStep(w)

Next ==
  \/ \E w \in Workers : Start(w) \/ Snapshot(w) \/ Stop(w)
  \/ OpenInterface \/ CapturePacket \/ ChildDies
  \/ Crash

Spec == Init /\ [][Next]_vars

(* A worker that is inside stop keeps running (the scheduler is fair and    *)
(* every wait has a timeout); an open interface keeps receiving packets.    *)
FairSpec ==
  /\ Spec
  /\ \A w \in Workers : WF_vars(StopStep(w))
  /\ WF_vars(OpenInterface) /\ WF_vars(CapturePacket)

-----------------------------------------------------------------------------
(* Properties. *)

Quiet == \A w \in Workers : pc[w] = "idle"

(* packets.pcap has everything the program wrote; a recovery capture may    *)
(* stand in for a capture that saw no packet.                               *)
OutputComplete == output = written \/ (output = Recovery /\ written = 0)

(* No captured packet is lost: until packets.pcap has all of them, the      *)
(* temporary file they were written to is still there.  It holds through    *)
(* crashes and failed sudo, copy and wait calls as long as one controller   *)
(* at a time uses the agent (stop copies before it removes, manager.py:163).*)
EvidenceNotLost == written # Absent => tmpExists \/ OutputComplete

(* "The replacement is atomic so readers never see a half-copy"             *)
(* (manager.py:140): what a snapshot renames to packets.pcap is whole.      *)
SnapshotPublishesWhole ==
  [][\A w \in Workers : SnapshotReplace(w) => output' = output \/ output' >= 0]_vars

(* A stop that collected the capture program and returns normally has       *)
(* published every packet that the program wrote (manager.py:79-132),       *)
(* however many earlier stops and snapshots of the run have failed.         *)
StopPublishesAll ==
  [][\A w \in Workers :
       /\ StopExited(w) \/ FinalizeNothing(w) \/ FinalizeRm(w) \/ Recover(w)
       /\ life' = "closed" /\ written # Absent
       => OutputComplete']_vars

(* "The final clear/stop operation adds the fully flushed capture"          *)
(* (docs/results.md:25): once stop has returned and no call is under way,   *)
(* packets.pcap has every packet that the program captured.                 *)
FinalCaptureComplete ==
  life = "closed" /\ Quiet /\ written # Absent => OutputComplete

(* Nothing is left behind: a finished stop has removed the privileged       *)
(* temporary file (manager.py:165), whatever other stops and snapshots were *)
(* running at the same time.                                                *)
NoTempLeft == life = "closed" /\ Quiet => ~tmpExists

(* packets.snapshot.pcap only exists while a snapshot is at work, so that a *)
(* quiet run directory, and a manifest made of it, never lists it.          *)
NoStraySnapshot ==
  life # "crashed" /\ snap # Absent =>
    \E w \in Workers : pc[w] \in {"snapCopy", "snapReplace"}

(* A stop call returns or raises, also when the child died before it was    *)
(* signalled or another stop has already collected it (manager.py:121-125). *)
StopTerminates ==
  \A w \in Workers : pc[w] = "stopWait" ~> pc[w] = "idle"

(* The packet limit "prevents an accidentally orphaned capture from running *)
(* forever after an agent crash" (manager.py:34-36): so it is for tcpdump;  *)
(* dumpcap is started without a limit (manager.py:43) and runs on.          *)
OrphanEnds == life = "crashed" /\ tool = "tcpdump" ~> process # "running"

=============================================================================
