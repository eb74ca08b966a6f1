------------------------ MODULE CaptureManager_proofs ------------------------
(* Theorems about CaptureManager, for any number of workers, any faults and *)
(* any packet limit.                                                        *)
EXTENDS CaptureManager, TLAPS

-----------------------------------------------------------------------------
(* Type correctness.  One step per action of Next; `Start`, `Snapshot` and  *)
(* `Stop` are split below it.                                               *)

(* The state of the manager always has its type, whatever calls overlap and *)
(* whatever fails (manager.py:26-28 and the locals of start and stop).      *)
THEOREM TypeCorrect == Spec => []TypeOK
<1> USE CaptureAssumption DEF TypeOK, Content, Absent, Partial, Recovery,
        WorkerStates, child, files, Goto
<1>1. Init => TypeOK
  BY DEF Init
<1>2. TypeOK /\ [Next]_vars => TypeOK'
  <2> SUFFICES ASSUME TypeOK, [Next]_vars PROVE TypeOK'
    OBVIOUS
  <2>1. ASSUME NEW w \in Workers, Start(w) PROVE TypeOK'
    BY <2>1 DEF Start, StartSpawn, StartRaises, StartReturns, StartDeadline
  <2>2. ASSUME NEW w \in Workers, Snapshot(w) PROVE TypeOK'
    <3>1. CASE SnapshotCheck(w)
      BY <3>1 DEF SnapshotCheck
    <3>2. CASE SnapshotOpen(w)
      BY <3>2 DEF SnapshotOpen, OpenTruncated
    <3>3. CASE SnapshotCopy(w)
      BY <3>3 DEF SnapshotCopy, CopyEnds
    <3>4. CASE SnapshotAbort(w)
      BY <3>4 DEF SnapshotAbort
    <3>5. CASE SnapshotReplace(w)
      BY <3>5 DEF SnapshotReplace, ReplaceOutput
    <3> QED
      BY <2>2, <3>1, <3>2, <3>3, <3>4, <3>5 DEF Snapshot
  <2>3. ASSUME NEW w \in Workers, Stop(w) PROVE TypeOK'
    <3> USE DEF StopReturns, StopRaises, AfterFinalize
    <3>1. CASE StopNoProcess(w) \/ StopExited(w) \/ StopSignal(w)
      BY <3>1 DEF StopNoProcess, StopExited, StopSignal
    <3>2. CASE StopWait(w) \/ StopLosesProcess(w) \/ StopTimeout(w)
      BY <3>2 DEF StopWait, StopLosesProcess, StopTimeout
    <3>3. CASE FinalizeNothing(w)
      BY <3>3 DEF FinalizeNothing
    <3>4. CASE FinalizeChmod(w)
      BY <3>4 DEF FinalizeChmod
    <3>5. CASE FinalizeOpen(w)
      BY <3>5 DEF FinalizeOpen, OpenTruncated
    <3>6. CASE FinalizeCopy(w)
      BY <3>6 DEF FinalizeCopy, CopyEnds
    <3>7. CASE FinalizeAbort(w)
      BY <3>7 DEF FinalizeAbort
    <3>8. CASE FinalizeRm(w)
      <4>1. AfterFinalize(w) /\ UNCHANGED <<child, snap, output, fd>>
        BY <3>8 DEF FinalizeRm
      <4>2. tmpExists' \in BOOLEAN /\ capturePath' = "none"
        BY <3>8 DEF FinalizeRm
      <4> QED
        BY <4>1, <4>2
    <3>9. CASE Recover(w)
      BY <3>9 DEF Recover, ReplaceOutput
    <3> QED
      BY <2>3, <3>1, <3>2, <3>3, <3>4, <3>5, <3>6, <3>7, <3>8, <3>9
         DEF Stop, StopStep
  <2>4. CASE OpenInterface
    BY <2>4 DEF OpenInterface
  <2>5. CASE CapturePacket
    BY <2>5 DEF CapturePacket
  <2>6. CASE ChildDies \/ Crash
    BY <2>6 DEF ChildDies, Crash
  <2>7. CASE UNCHANGED vars
    BY <2>7 DEF vars
  <2> QED
    BY <2>1, <2>2, <2>3, <2>4, <2>5, <2>6, <2>7 DEF Next
<1> QED
  BY <1>1, <1>2, PTL DEF Spec
-----------------------------------------------------------------------------
(* No stray snapshot file.  It needs to know that only a copy of a snapshot *)
(* writes to the file of that name, and that a crash ends every call.       *)

NoStrayInv ==
  /\ \A w \in Workers : fd[w] = "snap" => pc[w] = "snapCopy"
  /\ life = "crashed" => \A w \in Workers : pc[w] = "idle"
  /\ NoStraySnapshot

LEMMA NoStrayStep == TypeOK /\ NoStrayInv /\ [Next]_vars => NoStrayInv'
<1> USE DEF NoStrayInv, NoStraySnapshot, TypeOK, child, files, Goto
<1> SUFFICES ASSUME TypeOK, NoStrayInv, [Next]_vars PROVE NoStrayInv'
  OBVIOUS
<1>1. ASSUME NEW w \in Workers, Start(w) PROVE NoStrayInv'
  BY <1>1 DEF Start, StartSpawn, StartRaises, StartReturns, StartDeadline
<1>2. ASSUME NEW w \in Workers, Snapshot(w) PROVE NoStrayInv'
  <2>1. CASE SnapshotCheck(w)
    BY <2>1 DEF SnapshotCheck
  <2>2. CASE SnapshotOpen(w)
    BY <2>2 DEF SnapshotOpen, OpenTruncated
  <2>3. CASE SnapshotCopy(w)
    BY <2>3 DEF SnapshotCopy, CopyEnds
  <2>4. CASE SnapshotAbort(w)
    BY <2>4 DEF SnapshotAbort
  <2>5. CASE SnapshotReplace(w)
    BY <2>5 DEF SnapshotReplace, ReplaceOutput
  <2> QED
    BY <1>2, <2>1, <2>2, <2>3, <2>4, <2>5 DEF Snapshot
<1>3. ASSUME NEW w \in Workers, Stop(w) PROVE NoStrayInv'
  <2> USE DEF StopReturns, StopRaises, AfterFinalize
  <2>1. CASE StopNoProcess(w) \/ StopExited(w) \/ StopSignal(w)
    BY <2>1 DEF StopNoProcess, StopExited, StopSignal
  <2>2. CASE StopWait(w) \/ StopLosesProcess(w) \/ StopTimeout(w)
    BY <2>2 DEF StopWait, StopLosesProcess, StopTimeout
  <2>3. CASE FinalizeNothing(w)
    BY <2>3 DEF FinalizeNothing
  <2>4. CASE FinalizeChmod(w)
    BY <2>4 DEF FinalizeChmod
  <2>5. CASE FinalizeOpen(w)
    BY <2>5 DEF FinalizeOpen, OpenTruncated
  <2>6. CASE FinalizeCopy(w)
    BY <2>6 DEF FinalizeCopy, CopyEnds
  <2>7. CASE FinalizeAbort(w)
    BY <2>7 DEF FinalizeAbort
  <2>8. CASE FinalizeRm(w)
    BY <2>8 DEF FinalizeRm
  <2>9. CASE Recover(w)
    BY <2>9 DEF Recover, ReplaceOutput
  <2> QED
    BY <1>3, <2>1, <2>2, <2>3, <2>4, <2>5, <2>6, <2>7, <2>8, <2>9
       DEF Stop, StopStep
<1>4. CASE OpenInterface \/ CapturePacket \/ ChildDies \/ Crash
  BY <1>4 DEF OpenInterface, CapturePacket, ChildDies, Crash
<1>5. CASE UNCHANGED vars
  BY <1>5 DEF vars
<1> QED
  BY <1>1, <1>2, <1>3, <1>4, <1>5 DEF Next

(* However snapshots, stops and failures overlap, packets.snapshot.pcap is  *)
(* only there while a snapshot is being made (manager.py:150-155).          *)
THEOREM SnapshotFileTemporary == Spec => []NoStraySnapshot
<1>1. Init => NoStrayInv
  BY DEF Init, NoStrayInv, NoStraySnapshot
<1>2. NoStrayInv => NoStraySnapshot
  BY DEF NoStrayInv
<1> QED
  BY <1>1, <1>2, NoStrayStep, TypeCorrect, PTL DEF Spec
-----------------------------------------------------------------------------
(* One caller at a time.  With a single worker no packet is lost, whatever  *)
(* fails and wherever the agent dies.  OneInv says, for each program, where *)
(* the packets are, and what each stage of a copy has already done.         *)

OneWorker == \A v, w \in Workers : v = w

SnapStates  == {"snapOpen", "snapCopy", "snapReplace"}
CopyStates  == {"finalOpen", "finalCopy"}
FinalStates == {"finalize", "finalOpen", "finalCopy", "finalRm", "recover"}

(* tcpdump writes packets.pcap itself: there is nothing to copy. *)
TcpdumpInv ==
  /\ ~tmpExists /\ capturePath # "tmp"
  /\ output = written \/ (output = Recovery /\ written = 0)
  /\ \A w \in Workers :
       pc[w] \notin SnapStates \cup CopyStates \cup {"finalRm"} /\ fd[w] = "none"

(* dumpcap's packets are in /tmp until stop has copied all of them, and the *)
(* manager knows the file as long as it has the program.                    *)
DumpcapInv ==
  /\ written = Absent => output = Absent
  /\ process # "none" => capturePath = "tmp"
  /\ output # Recovery
  /\ tmpExists => written >= 0
  /\ written >= 0 /\ ~tmpExists => output = written /\ process # "running"
  /\ \A w \in Workers :
       /\ pc[w] \in SnapStates \cup CopyStates => tmpExists
       /\ pc[w] \in {"stopWait", "finalize"} => capturePath = "tmp"
       /\ pc[w] = "recover" => output # Partial

StageInv(w) ==
  /\ pc[w] \in FinalStates => process = "none"
  /\ pc[w] = "snapCopy" => fd[w] = "snap"
  /\ pc[w] = "snapReplace" => snap >= 0
  /\ pc[w] = "finalCopy" => fd[w] = "out"
  /\ pc[w] = "finalRm" => output = written

OneInv ==
  /\ life = "new" => written = Absent /\ output = Absent /\ process = "none"
  /\ process = "running" => output # Recovery
  /\ tool = "tcpdump" => TcpdumpInv
  /\ tool = "dumpcap" => DumpcapInv
  /\ \A w \in Workers : StageInv(w)

(* When sudo and the copies do not fail either, a stop only returns once    *)
(* packets.pcap is complete, and the session stays started until then.      *)
NoHostFault == Faults \cap {"sudo", "disk"} = {}

ClosedInv ==
  /\ life = "closed" =>
       /\ process = "none" /\ capturePath = "none"
       /\ written >= 0 => OutputComplete
       /\ \A w \in Workers : pc[w] = "idle"
  /\ life = "ready" /\ process = "none" => \E w \in Workers : pc[w] \in FinalStates
  /\ tool = "dumpcap" /\ process # "none" => capturePath = "tmp"
  /\ \A w \in Workers :
       /\ pc[w] \in {"starting", "stopWait"} => process # "none"
       /\ pc[w] \in CopyStates \cup {"finalRm"} => capturePath = "tmp"
       /\ pc[w] = "finalize" /\ tool = "dumpcap" => capturePath = "tmp"
       /\ pc[w] = "recover" => capturePath = "none"
       /\ pc[w] = "recover" /\ written >= 0 => OutputComplete

LEMMA OneStep ==
  ASSUME OneWorker, TypeOK, TypeOK', OneInv, [Next]_vars
  PROVE  OneInv'
<1> USE CaptureAssumption
    DEF OneWorker, OneInv, TcpdumpInv, DumpcapInv, StageInv, SnapStates,
        CopyStates, FinalStates, TypeOK, Content, Absent, Partial, Recovery,
        TmpThere, child, files, Goto
<1>1. ASSUME NEW w \in Workers, Start(w) PROVE OneInv'
  BY <1>1 DEF Start, StartSpawn, StartRaises, StartReturns, StartDeadline
<1>2. ASSUME NEW w \in Workers, Snapshot(w) PROVE OneInv'
  <2>1. CASE SnapshotCheck(w)
    BY <2>1 DEF SnapshotCheck
  <2>2. CASE SnapshotOpen(w)
    BY <2>2 DEF SnapshotOpen, OpenTruncated
  <2>3. CASE SnapshotCopy(w)
    BY <2>3 DEF SnapshotCopy, CopyEnds
  <2>4. CASE SnapshotAbort(w)
    BY <2>4 DEF SnapshotAbort
  <2>5. CASE SnapshotReplace(w)
    BY <2>5 DEF SnapshotReplace, ReplaceOutput
  <2> QED
    BY <1>2, <2>1, <2>2, <2>3, <2>4, <2>5 DEF Snapshot
<1>3. ASSUME NEW w \in Workers, Stop(w) PROVE OneInv'
  <2> USE DEF StopReturns, StopRaises, AfterFinalize
  <2>1. CASE StopNoProcess(w) \/ StopExited(w) \/ StopSignal(w)
    BY <2>1 DEF StopNoProcess, StopExited, StopSignal
  <2>2. CASE StopWait(w) \/ StopLosesProcess(w) \/ StopTimeout(w)
    BY <2>2 DEF StopWait, StopLosesProcess, StopTimeout
  <2>3. CASE FinalizeNothing(w)
    BY <2>3 DEF FinalizeNothing
  <2>4. CASE FinalizeChmod(w)
    BY <2>4 DEF FinalizeChmod
  <2>5. CASE FinalizeOpen(w)
    BY <2>5 DEF FinalizeOpen, OpenTruncated
  <2>6. CASE FinalizeCopy(w)
    BY <2>6 DEF FinalizeCopy, CopyEnds
  <2>7. CASE FinalizeAbort(w)
    BY <2>7 DEF FinalizeAbort
  <2>8. CASE FinalizeRm(w)
    BY <2>8 DEF FinalizeRm
  <2>9. CASE Recover(w)
    BY <2>9 DEF Recover, ReplaceOutput, HeaderOnly
  <2> QED
    BY <1>3, <2>1, <2>2, <2>3, <2>4, <2>5, <2>6, <2>7, <2>8, <2>9
       DEF Stop, StopStep
<1>4. CASE OpenInterface
  <2>1. CASE tool = "dumpcap"
    <3>1. tmpExists'
      BY <1>4, <2>1, Zenon DEF OpenInterface
    <3> QED
      BY <1>4, <2>1, <3>1 DEF OpenInterface
  <2>2. CASE tool = "tcpdump"
    BY <1>4, <2>2 DEF OpenInterface
  <2> QED
    BY <2>1, <2>2
<1>5. CASE CapturePacket
  BY <1>5 DEF CapturePacket
<1>6. CASE ChildDies \/ Crash
  BY <1>6 DEF ChildDies, Crash
<1>7. CASE UNCHANGED vars
  BY <1>7 DEF vars
<1> QED
  BY <1>1, <1>2, <1>3, <1>4, <1>5, <1>6, <1>7 DEF Next

LEMMA OneInvariant == ASSUME OneWorker PROVE Spec => []OneInv
<1>1. Init => OneInv
  BY DEF Init, OneInv, TcpdumpInv, DumpcapInv, StageInv, SnapStates,
         CopyStates, FinalStates, Absent, Partial, Recovery
<1> QED
  BY <1>1, OneStep, TypeCorrect, PTL DEF Spec

(* With one caller at a time every captured packet is in packets.pcap or    *)
(* still in the temporary file, through any crash and any failure of sudo,  *)
(* of a copy or of the wait for the child (manager.py:157-166).             *)
THEOREM PacketsSurvive == ASSUME OneWorker PROVE Spec => []EvidenceNotLost
<1>1. TypeOK /\ OneInv => EvidenceNotLost
  BY CaptureAssumption
     DEF TypeOK, OneInv, TcpdumpInv, DumpcapInv, EvidenceNotLost,
         OutputComplete, Content, Absent, Partial, Recovery
<1> QED
  BY <1>1, OneInvariant, TypeCorrect, PTL

(* With one caller at a time a snapshot never publishes a cut copy, nor the *)
(* remains of one that failed (manager.py:152-155).                         *)
THEOREM SnapshotsWhole == ASSUME OneWorker PROVE Spec => SnapshotPublishesWhole
<1>1. ASSUME TypeOK, OneInv, NEW w \in Workers, SnapshotReplace(w)
      PROVE  output' = output \/ output' >= 0
  BY <1>1 DEF OneInv, StageInv, SnapshotReplace, ReplaceOutput, TypeOK,
              Content, Absent, Partial, Recovery
<1>2. TypeOK /\ OneInv /\ [Next]_vars
        => [\A w \in Workers : SnapshotReplace(w) => output' = output \/ output' >= 0]_vars
  BY <1>1
<1> QED
  BY <1>2, OneInvariant, TypeCorrect, PTL DEF Spec, SnapshotPublishesWhole

(* After the copy packets.pcap is complete, also for the recovery attempt.  *)
StopInv ==
  \A w \in Workers : pc[w] = "recover" /\ written >= 0 => OutputComplete

LEMMA StopInvStep ==
  ASSUME OneWorker, TypeOK, TypeOK', OneInv, OneInv', StopInv, [Next]_vars
  PROVE  StopInv'
<1> USE CaptureAssumption
    DEF OneWorker, StopInv, OneInv, TcpdumpInv, DumpcapInv, StageInv,
        SnapStates, CopyStates, FinalStates, OutputComplete, TypeOK, Content,
        Absent, Partial, Recovery, TmpThere, child, files, Goto
<1>1. ASSUME NEW w \in Workers, Start(w) PROVE StopInv'
  BY <1>1 DEF Start, StartSpawn, StartRaises, StartReturns, StartDeadline
<1>2. ASSUME NEW w \in Workers, Snapshot(w) PROVE StopInv'
  <2>1. CASE SnapshotCheck(w) \/ SnapshotAbort(w)
    BY <2>1 DEF SnapshotCheck, SnapshotAbort
  <2>2. CASE SnapshotOpen(w) \/ SnapshotCopy(w)
    BY <2>2 DEF SnapshotOpen, OpenTruncated, SnapshotCopy, CopyEnds
  <2>3. CASE SnapshotReplace(w)
    BY <2>3 DEF SnapshotReplace, ReplaceOutput
  <2> QED
    BY <1>2, <2>1, <2>2, <2>3 DEF Snapshot
<1>3. ASSUME NEW w \in Workers, Stop(w) PROVE StopInv'
  <2> USE DEF StopReturns, StopRaises, AfterFinalize
  <2>1. CASE StopNoProcess(w) \/ StopExited(w) \/ StopSignal(w)
    BY <2>1 DEF StopNoProcess, StopExited, StopSignal
  <2>2. CASE StopWait(w) \/ StopLosesProcess(w) \/ StopTimeout(w)
    BY <2>2 DEF StopWait, StopLosesProcess, StopTimeout
  <2>3. CASE FinalizeNothing(w)
    BY <2>3 DEF FinalizeNothing
  <2>4. CASE FinalizeChmod(w) \/ FinalizeAbort(w)
    BY <2>4 DEF FinalizeChmod, FinalizeAbort
  <2>5. CASE FinalizeOpen(w) \/ FinalizeCopy(w)
    BY <2>5 DEF FinalizeOpen, OpenTruncated, FinalizeCopy, CopyEnds
  <2>6. CASE FinalizeRm(w)
    BY <2>6 DEF FinalizeRm
  <2>7. CASE Recover(w)
    BY <2>7 DEF Recover, ReplaceOutput, HeaderOnly
  <2> QED
    BY <1>3, <2>1, <2>2, <2>3, <2>4, <2>5, <2>6, <2>7 DEF Stop, StopStep
<1>4. CASE OpenInterface
  BY <1>4 DEF OpenInterface
<1>5. CASE CapturePacket
  BY <1>5 DEF CapturePacket
<1>6. CASE ChildDies \/ Crash
  BY <1>6 DEF ChildDies, Crash
<1>7. CASE UNCHANGED vars
  BY <1>7 DEF vars
<1> QED
  BY <1>1, <1>2, <1>3, <1>4, <1>5, <1>6, <1>7 DEF Next

(* With one caller at a time a stop that collected the program and returns  *)
(* has published all packets, whatever has failed before (manager.py:79-132).*)
THEOREM StopsPublish == ASSUME OneWorker PROVE Spec => StopPublishesAll
<1> USE CaptureAssumption
    DEF OneInv, StageInv, TcpdumpInv, DumpcapInv, StopInv, SnapStates,
        CopyStates, FinalStates, TypeOK, Content, Absent, Partial, Recovery,
        OutputComplete, child, files, Goto, TmpThere, StopReturns, AfterFinalize
<1> DEFINE Complete == written # Absent /\ life' = "closed" => OutputComplete'
<1>1. Init => StopInv
  BY DEF Init
<1>2. ASSUME TypeOK, OneInv, StopInv, NEW w \in Workers, StopExited(w)
      PROVE  Complete
  BY <1>2 DEF StopExited
<1>3. ASSUME TypeOK, OneInv, StopInv, NEW w \in Workers, FinalizeNothing(w)
      PROVE  Complete
  BY <1>3 DEF FinalizeNothing
<1>4. ASSUME TypeOK, OneInv, StopInv, NEW w \in Workers, FinalizeRm(w)
      PROVE  Complete
  BY <1>4 DEF FinalizeRm
<1>5. ASSUME TypeOK, OneInv, StopInv, NEW w \in Workers, Recover(w)
      PROVE  Complete
  BY <1>5 DEF Recover, ReplaceOutput, HeaderOnly
<1> HIDE DEF Complete
<1>6. TypeOK /\ OneInv /\ StopInv /\ [Next]_vars =>
        [\A w \in Workers :
           /\ StopExited(w) \/ FinalizeNothing(w) \/ FinalizeRm(w) \/ Recover(w)
           /\ life' = "closed" /\ written # Absent
           => OutputComplete']_vars
  BY <1>2, <1>3, <1>4, <1>5, Zenon DEF Complete
<1> QED
  BY <1>1, <1>6, StopInvStep, OneInvariant, TypeCorrect, PTL
     DEF Spec, StopPublishesAll

LEMMA ClosedStep ==
  ASSUME OneWorker, NoHostFault, TypeOK, TypeOK', OneInv, OneInv', ClosedInv,
         [Next]_vars
  PROVE  ClosedInv'
<1> USE CaptureAssumption
    DEF OneWorker, NoHostFault, ClosedInv, OneInv, TcpdumpInv, DumpcapInv,
        StageInv, SnapStates, CopyStates, FinalStates, OutputComplete, TypeOK,
        Content, Absent, Partial, Recovery, TmpThere, child, files, Goto
<1>1. ASSUME NEW w \in Workers, Start(w) PROVE ClosedInv'
  BY <1>1 DEF Start, StartSpawn, StartRaises, StartReturns, StartDeadline
<1>2. ASSUME NEW w \in Workers, Snapshot(w) PROVE ClosedInv'
  <2>1. CASE SnapshotCheck(w)
    BY <2>1 DEF SnapshotCheck
  <2>2. CASE SnapshotOpen(w)
    BY <2>2 DEF SnapshotOpen, OpenTruncated
  <2>3. CASE SnapshotCopy(w)
    BY <2>3 DEF SnapshotCopy, CopyEnds
  <2>4. CASE SnapshotAbort(w)
    BY <2>4 DEF SnapshotAbort
  <2>5. CASE SnapshotReplace(w)
    BY <2>5 DEF SnapshotReplace, ReplaceOutput
  <2> QED
    BY <1>2, <2>1, <2>2, <2>3, <2>4, <2>5 DEF Snapshot
<1>3. ASSUME NEW w \in Workers, Stop(w) PROVE ClosedInv'
  <2> USE DEF StopReturns, StopRaises, AfterFinalize
  <2>1. CASE StopNoProcess(w) \/ StopExited(w) \/ StopSignal(w)
    BY <2>1 DEF StopNoProcess, StopExited, StopSignal
  <2>2. CASE StopWait(w) \/ StopLosesProcess(w) \/ StopTimeout(w)
    BY <2>2 DEF StopWait, StopLosesProcess, StopTimeout
  <2>3. CASE FinalizeNothing(w)
    BY <2>3 DEF FinalizeNothing
  <2>4. CASE FinalizeChmod(w)
    BY <2>4 DEF FinalizeChmod
  <2>5. CASE FinalizeOpen(w)
    BY <2>5 DEF FinalizeOpen, OpenTruncated
  <2>6. CASE FinalizeCopy(w)
    BY <2>6 DEF FinalizeCopy, CopyEnds
  <2>7. CASE FinalizeAbort(w)
    BY <2>7 DEF FinalizeAbort
  <2>8. CASE FinalizeRm(w)
    BY <2>8 DEF FinalizeRm
  <2>9. CASE Recover(w)
    BY <2>9 DEF Recover, ReplaceOutput, HeaderOnly
  <2> QED
    BY <1>3, <2>1, <2>2, <2>3, <2>4, <2>5, <2>6, <2>7, <2>8, <2>9
       DEF Stop, StopStep
<1>4. CASE OpenInterface
  BY <1>4 DEF OpenInterface
<1>5. CASE CapturePacket
  BY <1>5 DEF CapturePacket
<1>6. CASE ChildDies \/ Crash
  BY <1>6 DEF ChildDies, Crash
<1>7. CASE UNCHANGED vars
  BY <1>7 DEF vars
<1> QED
  BY <1>1, <1>2, <1>3, <1>4, <1>5, <1>6, <1>7 DEF Next

(* With one caller at a time and no failing sudo or copy, packets.pcap is   *)
(* complete when stop has returned (docs/results.md:25-26).                 *)
THEOREM ClosedComplete ==
  ASSUME OneWorker, NoHostFault PROVE Spec => []FinalCaptureComplete
<1>1. Init => ClosedInv
  BY DEF Init, ClosedInv, SnapStates, CopyStates, FinalStates
<1>2. TypeOK /\ ClosedInv => FinalCaptureComplete
  BY DEF TypeOK, ClosedInv, FinalCaptureComplete, Absent
<1> QED
  BY <1>1, <1>2, ClosedStep, OneInvariant, TypeCorrect, PTL DEF Spec
-----------------------------------------------------------------------------
(* Nothing left in /tmp, for any number of workers: the temporary file that *)
(* exists is named by _capture_path, and once the program is collected some *)
(* worker is still on its way to remove it.                                 *)

TempInv ==
  /\ tool = "tcpdump" => ~tmpExists /\ capturePath # "tmp"
  /\ tmpExists => capturePath = "tmp"
  /\ tool = "dumpcap" /\ process # "none" => capturePath = "tmp"
  /\ life = "new" => ~tmpExists /\ process = "none"
  /\ life \in {"new", "crashed"} => \A w \in Workers : pc[w] = "idle"
  /\ life = "closed" => process = "none"
  /\ \A w \in Workers : pc[w] \in FinalStates => process = "none"
  /\ life # "crashed" /\ tmpExists /\ process = "none" =>
       \E w \in Workers : pc[w] \in FinalStates \ {"recover"}

LEMMA TempStep ==
  ASSUME NoHostFault, TypeOK, TypeOK', TempInv, [Next]_vars
  PROVE  TempInv'
<1> USE CaptureAssumption
    DEF NoHostFault, TempInv, FinalStates, TypeOK, TmpThere, child, files,
        Goto, Absent
<1>1. ASSUME NEW w \in Workers, Start(w) PROVE TempInv'
  BY <1>1 DEF Start, StartSpawn, StartRaises, StartReturns, StartDeadline
<1>2. ASSUME NEW w \in Workers, Snapshot(w) PROVE TempInv'
  BY <1>2 DEF Snapshot, SnapshotCheck, SnapshotOpen, SnapshotCopy,
              SnapshotAbort, SnapshotReplace
<1>3. ASSUME NEW w \in Workers, Stop(w) PROVE TempInv'
  <2> USE DEF StopReturns, StopRaises, AfterFinalize
  <2>1. CASE StopNoProcess(w) \/ StopExited(w) \/ StopSignal(w)
    BY <2>1 DEF StopNoProcess, StopExited, StopSignal
  <2>2. CASE StopWait(w) \/ StopLosesProcess(w) \/ StopTimeout(w)
    BY <2>2 DEF StopWait, StopLosesProcess, StopTimeout
  <2>3. CASE FinalizeNothing(w)
    BY <2>3 DEF FinalizeNothing
  <2>4. CASE FinalizeChmod(w) \/ FinalizeAbort(w)
    BY <2>4 DEF FinalizeChmod, FinalizeAbort
  <2>5. CASE FinalizeOpen(w) \/ FinalizeCopy(w)
    BY <2>5 DEF FinalizeOpen, FinalizeCopy
  <2>6. CASE FinalizeRm(w)
    BY <2>6 DEF FinalizeRm
  <2>7. CASE Recover(w)
    BY <2>7 DEF Recover
  <2> QED
    BY <1>3, <2>1, <2>2, <2>3, <2>4, <2>5, <2>6, <2>7 DEF Stop, StopStep
<1>4. CASE OpenInterface
  <2>1. CASE tool = "dumpcap"
    BY <1>4, <2>1 DEF OpenInterface
  <2>2. CASE tool = "tcpdump"
    BY <1>4, <2>2 DEF OpenInterface
  <2> QED
    BY <2>1, <2>2
<1>5. CASE CapturePacket \/ ChildDies \/ Crash
  BY <1>5 DEF CapturePacket, ChildDies, Crash
<1>6. CASE UNCHANGED vars
  BY <1>6 DEF vars
<1> QED
  BY <1>1, <1>2, <1>3, <1>4, <1>5, <1>6 DEF Next

(* However stops and snapshots overlap, a finished stop has removed the     *)
(* privileged temporary file (manager.py:157-166), if sudo and the copies   *)
(* work.                                                                    *)
THEOREM TempRemoved == ASSUME NoHostFault PROVE Spec => []NoTempLeft
<1>1. Init => TempInv
  BY CaptureAssumption DEF Init, TempInv, FinalStates
<1>2. TempInv => NoTempLeft
  BY DEF TempInv, NoTempLeft, Quiet, FinalStates
<1> QED
  BY <1>1, <1>2, TempStep, TypeCorrect, PTL DEF Spec
=============================================================================
