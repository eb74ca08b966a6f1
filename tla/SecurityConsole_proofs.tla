------------------------ MODULE SecurityConsole_proofs ------------------------
(***************************************************************************)
(* Proofs about SecurityConsole.  The lock is what everything rests on: the *)
(* worker inside it is the only one that changes the session of the device, *)
(* unless the device restarts or another controller uses it.                *)
(***************************************************************************)
EXTENDS SecurityConsole, TLAPS

-----------------------------------------------------------------------------
(* Type correctness. *)

LEMMA Bounds ==
  /\ MaxRuns \in Nat /\ MaxActions \in Nat /\ NoOne \notin Workers
  /\ Len(DownloadList) \in Nat /\ Len(DownloadList) > 0
  /\ \A i \in 1..Len(DownloadList) : DownloadList[i] \in Bundle
<1>1. MaxRuns \in Nat /\ MaxActions \in Nat /\ NoOne \notin Workers
  BY ConsoleAssumption DEF ConsoleAssumption, Workers, NoOne
<1>2. DownloadList \in Seq(Bundle) /\ \E i \in 1..Len(DownloadList) : TRUE
  BY ConsoleAssumption DEF ConsoleAssumption
<1>3. Len(DownloadList) \in Nat /\ \A i \in 1..Len(DownloadList) : DownloadList[i] \in Bundle
  BY <1>2
<1>4. Len(DownloadList) > 0
  BY <1>2, <1>3
<1> QED
  BY <1>1, <1>3, <1>4

(* The two halves of TypeOK: where the threads are, and what the rest of    *)
(* the state holds.                                                         *)
PcOK ==
  /\ lock \in Workers \cup {NoOne}
  /\ pc \in [Workers -> Labels]
  /\ \A w \in Workers : Locked(w) <=> lock = w

Copied   == [Bundle -> Versions]
Recorded == [run : 0..MaxRuns, line : 0..MaxActions]
Session  == [run : 0..MaxRuns, started : BOOLEAN, made : 0..MaxRuns]

JobOK ==
  /\ target \in [Workers -> 0..MaxRuns]
  /\ nextFile \in [Workers -> 1..Len(DownloadList) + 1]
  /\ \A w \in Workers :
       /\ pc[w] \in {"fetch", "stopFetch"} => nextFile[w] <= Len(DownloadList)
       /\ pc[w] \notin {"fetch", "stopFetch", "return", "clear"} => nextFile[w] = 1
  /\ skipped \in [Workers -> SUBSET Bundle]
  /\ mine \in [Workers -> Recorded]

DataOK ==
  /\ monitoring \in BOOLEAN
  /\ active \in 0..MaxRuns
  /\ copy \in [Runs -> Copied]
  /\ JobOK
  /\ reply \in [Workers -> [running : BOOLEAN, run : 0..MaxRuns]]
  /\ calls \in 0..MaxActions
  /\ device \in Session
  /\ lines \in [Runs -> 0..MaxActions]
  /\ sealed \subseteq Runs

LEMMA Halves == TypeOK <=> PcOK /\ DataOK
BY DEF TypeOK, PcOK, DataOK, JobOK, Copied, Recorded, Session

(* Each action adds one line at most, so lines are bounded by the calls.    *)
Announced(w) == pc[w] \in {"status", "autoStart", "execute"}

LinesInv ==
  \A r \in Runs : /\ lines[r] <= calls
                  /\ (\E w \in Workers : Announced(w)) => lines[r] < calls

SessionInv == device.started => device.run \in Runs

TypeInv == TypeOK /\ LinesInv /\ SessionInv

LEMMA CopyUpdate ==
  ASSUME NEW f \in [Runs -> Copied], NEW t, NEW name \in Bundle, NEW v \in Versions
  PROVE  /\ [f EXCEPT ![t][name] = v] \in [Runs -> Copied]
         /\ \A r \in Runs, m \in Bundle :
              [f EXCEPT ![t][name] = v][r][m] = IF r = t /\ m = name THEN v ELSE f[r][m]
<1> DEFINE c == [f[t] EXCEPT ![name] = v]
<1>1. t \in Runs => c \in Copied /\ \A m \in Bundle : c[m] = IF m = name THEN v ELSE f[t][m]
  BY DEF Copied
<1>2. [f EXCEPT ![t][name] = v] = [f EXCEPT ![t] = c]
  OBVIOUS
<1> HIDE DEF c
<1>3. [f EXCEPT ![t] = c] \in [Runs -> Copied]
      /\ \A r \in Runs : [f EXCEPT ![t] = c][r] = IF r = t THEN c ELSE f[r]
  BY <1>1
<1> DEFINE g == [f EXCEPT ![t] = c]
<1>4. g \in [Runs -> Copied] /\ \A r \in Runs : g[r] = IF r = t THEN c ELSE f[r]
  BY <1>3
<1>5. [f EXCEPT ![t][name] = v] = g
  BY <1>2
<1> HIDE DEF g
<1>6. \A r \in Runs, m \in Bundle : g[r][m] = IF r = t /\ m = name THEN v ELSE f[r][m]
  BY <1>1, <1>4
<1> QED
  BY <1>4, <1>5, <1>6

LEMMA LinesFrame ==
  ASSUME LinesInv, UNCHANGED <<lines, calls>>,
         \A v \in Workers : Announced(v)' => \E u \in Workers : Announced(u)
  PROVE  LinesInv'
BY DEF LinesInv

LEMMA OneInside ==
  ASSUME PcOK, NEW v \in Workers, NEW w \in Workers, Locked(v), Locked(w)
  PROVE  v = w
BY DEF PcOK

LEMMA AcquirePc ==
  ASSUME PcOK, NEW w \in Workers, NEW label \in Labels \ {"idle", "write"}, Acquire(w, label)
  PROVE  PcOK' /\ pc'[w] = label /\ \A v \in Workers \ {w} : pc'[v] = pc[v]
BY Bounds DEF PcOK, Locked, Acquire

LEMMA MovePc ==
  ASSUME PcOK, NEW w \in Workers, NEW label \in Labels, pc' = [pc EXCEPT ![w] = label],
         UNCHANGED lock, Locked(w) <=> label \notin {"idle", "write"}
  PROVE  PcOK' /\ pc'[w] = label /\ \A v \in Workers \ {w} : pc'[v] = pc[v]
BY DEF PcOK, Locked

LEMMA LeavePc ==
  ASSUME PcOK, NEW w \in Workers, Locked(w), Leave(w)
  PROVE  PcOK' /\ pc'[w] = "idle" /\ \A v \in Workers \ {w} : pc'[v] = pc[v]
<1>1. pc' = [pc EXCEPT ![w] = "idle"] /\ lock' = NoOne
  BY DEF Leave
<1>2. lock = w /\ NoOne \notin Workers
  BY Bounds DEF PcOK
<1>3. pc' \in [Workers -> Labels]
  BY <1>1 DEF PcOK, Labels
<1>4. \A v \in Workers : ~Locked(v)'
  BY <1>1, <1>2 DEF PcOK, Locked
<1> QED
  BY <1>1, <1>2, <1>3, <1>4 DEF PcOK

LEMMA LeaveData ==
  ASSUME JobOK, PcOK, NEW w \in Workers, Leave(w)
  PROVE  JobOK'
<1>1. NoLine \in Recorded /\ None \in 0..MaxRuns
  BY Bounds DEF NoLine, None, Recorded
<1>2. 1 \in 1..Len(DownloadList) + 1 /\ 1 <= Len(DownloadList)
  BY Bounds
<1> QED
  BY <1>1, <1>2 DEF JobOK, PcOK, Leave, Forget

LEMMA NoLineOK == NoLine \in Recorded
BY Bounds DEF NoLine, None, Recorded

LEMMA GotoData ==
  ASSUME JobOK, PcOK, NEW w \in Workers, NEW label,
         pc' = [pc EXCEPT ![w] = label], UNCHANGED <<target, nextFile, skipped>>,
         mine' \in [Workers -> Recorded],
         label \in {"fetch", "stopFetch", "return", "clear"} \/ nextFile[w] = 1,
         label \in {"fetch", "stopFetch"} => nextFile[w] <= Len(DownloadList)
  PROVE  JobOK'
BY DEF JobOK, PcOK

LEMMA AdvanceData ==
  ASSUME JobOK, PcOK, NEW w \in Workers, pc[w] \in {"fetch", "stopFetch"}, Advance(w),
         UNCHANGED <<target, mine>>, skipped' \in [Workers -> SUBSET Bundle]
  PROVE  /\ JobOK'
         /\ nextFile' = [nextFile EXCEPT ![w] = @ + 1]
         /\ nextFile[w] \in 1..Len(DownloadList)
         /\ \/ pc'[w] = pc[w] /\ nextFile'[w] <= Len(DownloadList)
            \/ /\ pc'[w] = IF pc[w] = "fetch" THEN "return" ELSE "clear"
               /\ nextFile'[w] = Len(DownloadList) + 1
<1>1. nextFile[w] \in 1..Len(DownloadList) /\ Len(DownloadList) \in Nat
  BY Bounds DEF JobOK
<1>2. /\ nextFile' = [nextFile EXCEPT ![w] = nextFile[w] + 1]
      /\ nextFile' \in [Workers -> 1..Len(DownloadList) + 1]
      /\ nextFile'[w] = nextFile[w] + 1
      /\ \A v \in Workers \ {w} : nextFile'[v] = nextFile[v] /\ pc'[v] = pc[v]
  BY <1>1 DEF Advance, JobOK, PcOK
<1>3. pc'[w] = IF nextFile[w] < Len(DownloadList) THEN pc[w]
               ELSE IF pc[w] = "fetch" THEN "return" ELSE "clear"
  BY DEF Advance, PcOK
<1>4. \/ pc'[w] = pc[w] /\ nextFile'[w] <= Len(DownloadList)
      \/ /\ pc'[w] = IF pc[w] = "fetch" THEN "return" ELSE "clear"
         /\ nextFile'[w] = Len(DownloadList) + 1
  BY <1>1, <1>2, <1>3
<1>5. JobOK'
  BY <1>2, <1>4 DEF JobOK
<1> QED
  BY <1>1, <1>2, <1>4, <1>5

-----------------------------------------------------------------------------
(* Each step of a worker keeps the types, whoever the worker is. *)

Step(w) ==
  \/ ActionBegin(w) \/ StartBegin(w) \/ StopBegin(w) \/ Inside(w)
  \/ PollStatus(w) \/ PollWrite(w)

LEMMA StepPc ==
  ASSUME PcOK, NEW w \in Workers, Step(w)
  PROVE  PcOK' /\ \A v \in Workers \ {w} : pc'[v] = pc[v]
<1>1. CASE ActionBegin(w) \/ StartBegin(w) \/ StopBegin(w)
  BY <1>1, AcquirePc DEF ActionBegin, StartBegin, StopBegin, Labels
<1>2. CASE Inside(w)
  <2>1. Locked(w)
    BY <1>2 DEF Inside, Locked, EnsureStatus, StartCall, ActionExecute, ActionCheck,
                ActionSnapshot, ActionDownload, ActionReturn, GetArtifact, StopCall, StopClear
  <2>2. CASE Leave(w)
    BY <2>1, <2>2, LeavePc
  <2>3. CASE \E label \in Labels \ {"idle", "write"} :
               pc' = [pc EXCEPT ![w] = label] /\ UNCHANGED lock
    BY <2>1, <2>3, MovePc
  <2>4. CASE EnsureStatus(w) \/ StartCall(w) \/ ActionExecute(w) \/ ActionCheck(w)
    BY <2>2, <2>3, <2>4
       DEF Goto, Labels, EnsureStatus, StartCall, ActionExecute, ActionCheck
  <2>5. CASE ActionSnapshot(w) \/ ActionDownload(w) \/ ActionReturn(w)
    BY <2>2, <2>3, <2>5 DEF Goto, Labels, ActionSnapshot, ActionDownload, ActionReturn
  <2>7. CASE GetArtifact(w)
    <3> DEFINE label == IF nextFile[w] < Len(DownloadList) THEN pc[w]
                        ELSE IF pc[w] = "fetch" THEN "return" ELSE "clear"
    <3>1. label \in Labels \ {"idle", "write"}
      BY <2>7 DEF GetArtifact, Labels
    <3>2. pc' = [pc EXCEPT ![w] = label] /\ UNCHANGED lock
      BY <2>7 DEF GetArtifact, Advance
    <3> HIDE DEF label
    <3> QED
      BY <2>3, <3>1, <3>2
  <2>6. CASE StopCall(w) \/ StopClear(w)
    BY <2>2, <2>3, <2>6 DEF Goto, Labels, StopCall, StopClear
  <2> QED
    BY <1>2, <2>4, <2>5, <2>6, <2>7 DEF Inside
<1>3. CASE PollStatus(w) \/ PollWrite(w)
  BY <1>3, MovePc DEF PollStatus, PollWrite, Goto, Locked, Labels
<1> QED
  BY <1>1, <1>2, <1>3 DEF Step

LEMMA SessionFields ==
  ASSUME DataOK
  PROVE  device.run \in 0..MaxRuns /\ device.started \in BOOLEAN /\ device.made \in 0..MaxRuns
BY DEF DataOK, Session

LEMMA NewSessionTypes ==
  ASSUME DataOK, NEW up \in BOOLEAN, NewSession(up)
  PROVE  /\ device' \in Session /\ SessionInv'
         /\ device'.run \in Runs /\ device'.started = up
<1> DEFINE n == device.made + 1
<1>1. n \in 1..MaxRuns /\ n \in 0..MaxRuns /\ device' = [run |-> n, started |-> up, made |-> n]
  BY Bounds, SessionFields DEF NewSession
<1> HIDE DEF n
<1> QED
  BY <1>1 DEF Session, SessionInv, Runs

LEMMA StopsTypes ==
  ASSUME DataOK, device.run # None, device' = [device EXCEPT !.started = FALSE],
         sealed' \in {sealed, sealed \cup {device.run}}
  PROVE  /\ device' \in Session /\ SessionInv'
         /\ device'.run = device.run /\ device.run \in Runs
         /\ device'.started = FALSE
         /\ sealed' \subseteq Runs
<1>1. device.run \in Runs
  BY SessionFields, Bounds DEF Runs, None
<1> QED
  BY <1>1 DEF DataOK, Session, SessionInv

LEMMA StepJob ==
  ASSUME TypeInv, NEW w \in Workers, Step(w)
  PROVE  JobOK'
<1>0. PcOK /\ DataOK /\ JobOK /\ LinesInv /\ SessionInv
  BY Halves DEF TypeInv, DataOK
<1>1. ASSUME Leave(w) PROVE JobOK'
  BY <1>0, <1>1, LeaveData
<1>2. ASSUME NEW label, pc' = [pc EXCEPT ![w] = label], UNCHANGED job,
             label \notin {"fetch", "stopFetch"},
             pc[w] \notin {"fetch", "stopFetch", "return", "clear"}
      PROVE  JobOK'
  BY <1>0, <1>2, GotoData DEF JobOK, job
<1>3. CASE ActionBegin(w) \/ StartBegin(w) \/ StopBegin(w)
  BY <1>2, <1>3 DEF ActionBegin, StartBegin, StopBegin, Acquire
<1>4. CASE EnsureStatus(w) \/ StartCall(w) \/ ActionCheck(w) \/ ActionSnapshot(w)
  BY <1>1, <1>2, <1>4 DEF EnsureStatus, StartCall, ActionCheck, ActionSnapshot, Goto
<1>5. CASE ActionReturn(w) \/ StopClear(w)
  BY <1>1, <1>5 DEF ActionReturn, StopClear
<1>6. CASE PollStatus(w) \/ PollWrite(w)
  BY <1>2, <1>6 DEF PollStatus, PollWrite, Goto
<1>7. CASE ActionExecute(w)
  <2>1. CASE pc' = [pc EXCEPT ![w] = "check"] /\ UNCHANGED <<lock, target, nextFile, skipped>>
             /\ IF device.started
                THEN /\ lines' = [lines EXCEPT ![device.run] = @ + 1]
                     /\ mine' = [mine EXCEPT ![w] = [run |-> device.run, line |-> lines'[device.run]]]
                ELSE mine' = [mine EXCEPT ![w] = NoLine] /\ UNCHANGED lines
    <3>1. mine' \in [Workers -> Recorded]
      <4>1. CASE device.started
        <5>1. device.run \in Runs /\ device.run \in 0..MaxRuns /\ lines[device.run] \in Nat
              /\ lines[device.run] < calls
          BY <1>0, <1>7, <4>1, SessionFields, Bounds
             DEF SessionInv, DataOK, LinesInv, Announced, ActionExecute
        <5>2. lines'[device.run] \in 0..MaxActions
          BY <1>0, <2>1, <4>1, <5>1, Bounds DEF DataOK
        <5>3. [run |-> device.run, line |-> lines'[device.run]] \in Recorded
          BY <5>1, <5>2 DEF Recorded
        <5> QED
          BY <1>0, <2>1, <4>1, <5>3 DEF JobOK
      <4>2. CASE ~device.started
        BY <1>0, <2>1, <4>2, NoLineOK DEF JobOK
      <4> QED
        BY <4>1, <4>2
    <3>2. nextFile[w] = 1
      BY <1>0, <1>7 DEF ActionExecute, JobOK
    <3> QED
      BY <1>0, <2>1, <3>1, <3>2, GotoData
  <2> QED
    BY <1>1, <1>7, <2>1 DEF ActionExecute
<1>8. ASSUME NEW label \in {"fetch", "stopFetch"}, NEW r \in 0..MaxRuns,
             pc' = [pc EXCEPT ![w] = label], target' = [target EXCEPT ![w] = r],
             UNCHANGED <<nextFile, skipped, mine>>,
             pc[w] \notin {"fetch", "stopFetch", "return", "clear"}
      PROVE  JobOK'
  <2>1. nextFile[w] = 1 /\ 1 <= Len(DownloadList)
    BY <1>0, <1>8, Bounds DEF JobOK
  <2> QED
    BY <1>0, <1>8, <2>1 DEF JobOK, PcOK
<1>9. CASE ActionDownload(w)
  BY <1>0, <1>1, <1>8, <1>9 DEF ActionDownload, DataOK
<1>10. CASE StopCall(w)
  BY <1>0, <1>1, <1>8, <1>10, SessionFields DEF StopCall
<1>11. CASE GetArtifact(w)
  <2>1. DownloadList[nextFile[w]] \in Bundle
    BY <1>0, <1>11, Bounds DEF GetArtifact, JobOK
  <2>2. skipped' \in [Workers -> SUBSET Bundle]
    BY <1>0, <1>11, <2>1 DEF GetArtifact, JobOK
  <2> QED
    BY <1>0, <1>11, <2>2, AdvanceData DEF GetArtifact
<1> QED
  BY <1>3, <1>4, <1>5, <1>6, <1>7, <1>9, <1>10, <1>11 DEF Step, Inside

LEMMA StepData ==
  ASSUME TypeInv, NEW w \in Workers, Step(w)
  PROVE  DataOK' /\ SessionInv'
<1>0. /\ DataOK /\ LinesInv /\ SessionInv /\ JobOK'
      /\ device.run \in 0..MaxRuns /\ device.made \in 0..MaxRuns
      /\ Runs \subseteq 0..MaxRuns
  BY Halves, StepJob, SessionFields, Bounds DEF TypeInv, Runs
<1> USE <1>0, Bounds DEF DataOK, remote
<1>1. CASE ActionBegin(w) \/ StartBegin(w) \/ StopBegin(w)
  <2>1. calls' \in 0..MaxActions
    BY <1>1 DEF ActionBegin, StartBegin, StopBegin
  <2>2. UNCHANGED <<monitoring, active, copy, reply, device, lines, sealed>>
    BY <1>1 DEF ActionBegin, StartBegin, StopBegin
  <2> QED
    BY <2>1, <2>2 DEF SessionInv
<1>2. CASE EnsureStatus(w)
  BY <1>2 DEF EnsureStatus, SessionInv
<1>3. CASE StartCall(w)
  <2>1. device' \in Session /\ SessionInv'
    BY <1>3, NewSessionTypes DEF StartCall, SessionInv
  <2>2. monitoring' \in BOOLEAN /\ active' \in 0..MaxRuns
    BY <1>3, NewSessionTypes DEF StartCall
  <2> QED
    BY <1>3, <2>1, <2>2 DEF StartCall
<1>4. CASE ActionExecute(w)
  <2>1. \A r \in Runs : lines[r] < calls
    BY <1>4 DEF ActionExecute, LinesInv, Announced
  <2>2. ASSUME device.started
        PROVE  [lines EXCEPT ![device.run] = @ + 1] \in [Runs -> 0..MaxActions]
    <3>1. lines[device.run] + 1 \in 0..MaxActions
      BY <2>1, <2>2 DEF SessionInv
    <3> QED
      BY <3>1
  <2>3. lines' \in [Runs -> 0..MaxActions]
    BY <1>4, <2>2 DEF ActionExecute
  <2> QED
    BY <1>4, <2>3 DEF ActionExecute, SessionInv
<1>5. CASE ActionCheck(w) \/ ActionSnapshot(w) \/ ActionDownload(w) \/ ActionReturn(w)
  BY <1>5 DEF ActionCheck, ActionSnapshot, ActionDownload, ActionReturn, SessionInv
<1>6. CASE GetArtifact(w)
  <2> DEFINE name == DownloadList[nextFile[w]]
             v == Version(device.run)
  <2>1. device.run # None => v \in Versions
    BY DEF Version, Versions, Runs, None
  <2>2. \/ UNCHANGED copy
        \/ device.run # None /\ copy' = [copy EXCEPT ![target[w]][name] = v]
    BY <1>6 DEF GetArtifact, OnDevice
  <2>3. copy \in [Runs -> Copied] /\ name \in Bundle
    BY <1>6, Halves DEF TypeInv, JobOK, GetArtifact
  <2>4. copy' \in [Runs -> Copied]
    <3> HIDE DEF name, v
    <3> DEFINE t == target[w]
    <3>1. ASSUME v \in Versions PROVE [copy EXCEPT ![t][name] = v] \in [Runs -> Copied]
      <4> HIDE DEF t
      <4> QED
        BY <2>3, <3>1, CopyUpdate
    <3> QED
      BY <2>1, <2>2, <2>3, <3>1
  <2> QED
    BY <1>6, <2>4 DEF GetArtifact, SessionInv
<1>8. CASE StopCall(w)
  <2>1. device' \in Session /\ SessionInv' /\ sealed' \subseteq Runs
    BY <1>8, StopsTypes DEF StopCall, StopsPartly, SessionInv
  <2> QED
    BY <1>8, <2>1 DEF StopCall
<1>9. CASE StopClear(w)
  BY <1>9 DEF StopClear, SessionInv, None
<1>10. CASE PollStatus(w)
  <2>1. [running |-> device.started, run |-> device.run] \in [running : BOOLEAN, run : 0..MaxRuns]
    BY SessionFields
  <2> QED
    BY <1>10, <2>1 DEF PollStatus, SessionInv
<1>11. CASE PollWrite(w)
  <2>1. NoReply \in [running : BOOLEAN, run : 0..MaxRuns]
    BY DEF NoReply, None
  <2>2. reply[w] \in [running : BOOLEAN, run : 0..MaxRuns]
    OBVIOUS
  <2>3. monitoring' \in BOOLEAN /\ active' \in 0..MaxRuns
    BY <1>11, <2>2 DEF PollWrite, None
  <2> QED
    BY <1>11, <2>1, <2>3 DEF PollWrite, SessionInv
<1> QED
  BY <1>1, <1>2, <1>3, <1>4, <1>5, <1>6, <1>8, <1>9, <1>10, <1>11 DEF Step, Inside

LEMMA StepLines ==
  ASSUME TypeInv, NEW w \in Workers, Step(w)
  PROVE  LinesInv'
<1>0. PcOK /\ DataOK /\ LinesInv /\ \A v \in Workers \ {w} : pc'[v] = pc[v]
  BY Halves, StepPc DEF TypeInv
<1> USE <1>0 DEF remote
<1>1. CASE ActionBegin(w)
  <2>1. calls' = calls + 1 /\ lines' = lines
    BY <1>1 DEF ActionBegin
  <2>2. calls \in Nat /\ \A r \in Runs : lines[r] \in Nat
    BY Bounds DEF DataOK
  <2> QED
    BY <2>1, <2>2 DEF LinesInv
<1>2. CASE ActionExecute(w)
  <2>1. \A r \in Runs : lines[r] < calls /\ lines[r] \in Nat
    BY <1>2, Bounds DEF ActionExecute, LinesInv, Announced, DataOK
  <2>2. calls' = calls /\ \A r \in Runs : lines'[r] = lines[r] \/ lines'[r] = lines[r] + 1
    BY <1>2 DEF ActionExecute, DataOK
  <2>3. \A r \in Runs : lines'[r] <= calls'
    BY <2>1, <2>2, Bounds DEF DataOK
  <2>4. pc'[w] \in {"check", "idle"}
    BY <1>2 DEF ActionExecute, Leave, PcOK
  <2>5. \A v \in Workers : ~Announced(v)'
    BY <1>2, <2>4, OneInside DEF ActionExecute, Announced, Locked
  <2> QED
    BY <2>3, <2>5 DEF LinesInv
<1>3. ASSUME UNCHANGED <<lines, calls>>, Announced(w)' => Announced(w) PROVE LinesInv'
  BY <1>3, LinesFrame DEF Announced
<1>4. CASE EnsureStatus(w) \/ StartCall(w)
  BY <1>4, <1>3 DEF EnsureStatus, StartCall, Announced, Goto, Leave, PcOK
<1>5. CASE Step(w) /\ ~ActionBegin(w) /\ ~ActionExecute(w) /\ ~EnsureStatus(w) /\ ~StartCall(w)
  <2>1. UNCHANGED <<lines, calls>>
    BY <1>5 DEF Step, Inside, StartBegin, StopBegin, ActionCheck, ActionSnapshot,
                ActionDownload, ActionReturn, GetArtifact, StopCall, StopClear,
                PollStatus, PollWrite
  <2>2. ~Announced(w)'
    BY <1>5 DEF Step, Inside, StartBegin, StopBegin, ActionCheck, ActionSnapshot,
                ActionDownload, ActionReturn, GetArtifact, StopCall, StopClear,
                PollStatus, PollWrite, Announced, Advance, Goto, Leave, Acquire, PcOK
  <2> QED
    BY <1>3, <2>1, <2>2
<1> QED
  BY <1>1, <1>2, <1>4, <1>5 DEF Step, Inside

LEMMA DeviceTypes ==
  ASSUME TypeInv, DeviceRestarts \/ OtherStarts \/ OtherStops
  PROVE  TypeInv'
<1>0. PcOK /\ DataOK /\ JobOK /\ LinesInv /\ SessionInv
  BY Halves DEF TypeInv, DataOK
<1>1. PcOK' /\ JobOK'
  BY <1>0 DEF PcOK, JobOK, Locked, job, DeviceRestarts, OtherStarts, OtherStops
<1>2. LinesInv'
  BY <1>0, LinesFrame DEF Announced, DeviceRestarts, OtherStarts, OtherStops
<1>3. device' \in Session /\ SessionInv' /\ sealed' \subseteq Runs
  <2>1. CASE DeviceRestarts
    <3>1. device \in Session /\ sealed \subseteq Runs /\ 0 \in 0..MaxRuns
      BY <1>0, Bounds DEF DataOK
    <3>2. device' = [device EXCEPT !.run = 0, !.started = FALSE] /\ sealed' = sealed
      BY <2>1 DEF DeviceRestarts, None
    <3>3. device' \in Session /\ device'.started = FALSE
      BY <3>1, <3>2 DEF Session
    <3> QED
      BY <3>1, <3>2, <3>3 DEF SessionInv
  <2>2. CASE OtherStarts
    BY <1>0, <2>2, NewSessionTypes DEF DataOK, OtherStarts
  <2>3. CASE OtherStops
    BY <1>0, <2>3, StopsTypes DEF OtherStops, StopsPartly
  <2> QED
    BY <2>1, <2>2, <2>3
<1>4. DataOK'
  BY <1>0, <1>1, <1>3 DEF DataOK, DeviceRestarts, OtherStarts, OtherStops
<1>5. TypeOK'
  BY <1>1, <1>4 DEF TypeOK, PcOK, DataOK, JobOK, Copied, Recorded, Session
<1> QED
  BY <1>2, <1>3, <1>5 DEF TypeInv

LEMMA WorkerTypes ==
  ASSUME TypeInv, NEW w \in Workers, Step(w)
  PROVE  TypeInv'
<1>1. PcOK' /\ DataOK' /\ LinesInv' /\ SessionInv'
  BY Halves, StepPc, StepData, StepLines DEF TypeInv
<1>2. TypeOK'
  BY <1>1 DEF TypeOK, PcOK, DataOK, JobOK, Copied, Recorded, Session
<1> QED
  BY <1>1, <1>2 DEF TypeInv

LEMMA TypeStutter == TypeInv /\ UNCHANGED vars => TypeInv'
BY DEF TypeInv, TypeOK, LinesInv, SessionInv, Announced, Locked, vars, job, remote

LEMMA TypeInit == Init => TypeInv
<1> SUFFICES ASSUME Init PROVE TypeInv
  OBVIOUS
<1>1. DataOK
  <2>1. 0 \in 0..MaxRuns /\ 0 \in 0..MaxActions
    BY Bounds
  <2>2. /\ NoFile \in Versions
        /\ NoLine \in Recorded
        /\ NoReply \in [running : BOOLEAN, run : 0..MaxRuns]
        /\ [run |-> None, started |-> FALSE, made |-> 0] \in Session
    BY <2>1 DEF Versions, NoFile, Recorded, Session, None, NoReply, NoLine
  <2>3. JobOK
    BY <2>1, <2>2, Bounds DEF Init, JobOK, None
  <2> QED
    BY <2>1, <2>2, <2>3 DEF Init, DataOK, Copied, None
<1>2. PcOK
  BY Bounds DEF Init, PcOK, Labels, Locked, NoOne
<1>3. LinesInv /\ SessionInv
  BY DEF Init, LinesInv, SessionInv, Announced
<1> QED
  BY <1>1, <1>2, <1>3, Halves DEF TypeInv

LEMMA TypeStep == TypeInv /\ [Next]_vars => TypeInv'
BY WorkerTypes, DeviceTypes, TypeStutter DEF Next, Requests, Step, Workers

LEMMA TypeInvariant == Spec => []TypeInv
BY TypeInit, TypeStep, PTL DEF Spec

(* Every variable of the console keeps its type, whatever fails and however *)
(* many threads there are, and the lock is held by the one thread that is   *)
(* inside of a locked block.                                                *)
THEOREM TypeCorrect == Spec => []TypeOK
<1>1. TypeInv => TypeOK
  BY DEF TypeInv
<1> QED
  BY <1>1, TypeInvariant, PTL

-----------------------------------------------------------------------------
(* Actions reach a monitoring device: the thread inside the lock has seen   *)
(* the session, which nobody else stops, so that nobody else starts one.    *)

NobodyStops == Faults \cap {"restart", "otherStops"} = {}

ExecuteInv == \A w \in Workers : pc[w] = "execute" => device.started

LEMMA ExecuteStep ==
  ASSUME TypeInv, ExecuteInv, NEW w \in Workers, Step(w)
  PROVE  ExecuteInv'
<1>0. PcOK /\ DataOK /\ \A v \in Workers \ {w} : pc'[v] = pc[v]
  BY Halves, StepPc DEF TypeInv
<1>1. CASE StopCall(w) \/ (StartCall(w) /\ Leave(w))
  <2>1. \A v \in Workers : pc'[v] # "execute"
    BY <1>0, <1>1, OneInside DEF StopCall, StartCall, Locked, Leave, PcOK
  <2> QED
    BY <2>1 DEF ExecuteInv
<1>2. CASE ~StopCall(w) /\ ~(StartCall(w) /\ Leave(w))
  <2>1. UNCHANGED device \/ device'.started
    BY <1>2 DEF Step, Inside, ActionBegin, StartBegin, StopBegin, EnsureStatus, StartCall,
                NewSession, ActionExecute, ActionCheck, ActionSnapshot, ActionDownload,
                ActionReturn, GetArtifact, StopClear, PollStatus, PollWrite, remote
  <2>2. pc'[w] = "execute" => device'.started
    BY <1>0, <1>2 DEF Step, Inside, ActionBegin, StartBegin, StopBegin, EnsureStatus, StartCall,
                ActionExecute, ActionCheck, ActionSnapshot, ActionDownload, ActionReturn,
                GetArtifact, StopClear, PollStatus, PollWrite, remote,
                NewSession, Advance, Goto, Leave, Acquire, PcOK
  <2> QED
    BY <1>0, <2>1, <2>2 DEF ExecuteInv
<1> QED
  BY <1>1, <1>2

LEMMA ExecuteOther ==
  ASSUME ExecuteInv, OtherStarts
  PROVE  ExecuteInv'
BY DEF ExecuteInv, OtherStarts

(* While nobody else stops runs and the device does not restart, no action  *)
(* reaches a device that does not monitor, with any number of requests and  *)
(* polls, whichever replies are lost and whoever starts runs.               *)
THEOREM ActionsMonitored == ASSUME NobodyStops PROVE Spec => ActionMonitored
<1>1. Init => ExecuteInv
  BY DEF Init, ExecuteInv
<1>2. TypeInv /\ ExecuteInv /\ [Next]_vars => ExecuteInv'
  <2>1. ASSUME ExecuteInv, UNCHANGED vars PROVE ExecuteInv'
    BY <2>1 DEF ExecuteInv, vars, remote
  <2>2. ~DeviceRestarts /\ ~OtherStops
    BY DEF NobodyStops, DeviceRestarts, OtherStops
  <2> QED
    BY <2>1, <2>2, ExecuteStep, ExecuteOther DEF Next, Requests, Step, Workers
<1>3. ExecuteInv /\ [Next]_vars => [\A w \in Requesters : ActionExecute(w) => device.started]_vars
  BY DEF ExecuteInv, ActionExecute, Workers
<1> QED
  BY <1>1, <1>2, <1>3, TypeInvariant, PTL DEF Spec, ActionMonitored

-----------------------------------------------------------------------------
(* The copies of a console without polls, on a device where no other        *)
(* controller starts a run in the middle of a request.  From the status     *)
(* that it asks for on, the thread inside the lock works for the session of *)
(* the device, or for one that the device has forgotten and does not serve  *)
(* any more.                                                                *)

Alone == Pollers = {} /\ "otherStarts" \notin Faults

Acting   == {"execute", "check", "snapshot", "download"}
Recorder == {"check", "snapshot", "download"}
Fetching == {"fetch", "return"}
Stopping == {"stopFetch", "clear"}

Fetched(w, name) ==
  name \notin skipped[w] =>
    /\ copy[target[w]][name].of = target[w]
    /\ copy[target[w]][name].lines = lines[target[w]]
    /\ pc[w] \in Stopping => copy[target[w]][name].sealed = TRUE

\* What the thread is busy with, what it remembers of its action, and what it
\* has fetched.
WorkInv(w) ==
  /\ pc[w] \in Acting => active \in Runs /\ device.run \in {active, None}
  /\ pc[w] \in Fetching \cup Stopping => target[w] \in Runs /\ device.run \in {target[w], None}
  /\ pc[w] \in Stopping => target[w] \in sealed

MineInv(w) ==
  /\ pc[w] \in Recorder => mine[w].run \in {None, active}
  /\ pc[w] \in Fetching => mine[w].run \in {None, target[w]}
  /\ pc[w] \in Recorder \cup Fetching /\ mine[w].run # None => mine[w].line <= lines[mine[w].run]

FetchInv(w) ==
  /\ pc[w] \in Fetching \cup Stopping =>
       \A i \in 1..Len(DownloadList) : i < nextFile[w] => Fetched(w, DownloadList[i])
  /\ pc[w] \in {"return", "clear"} => nextFile[w] = Len(DownloadList) + 1

CopyInv(w) == WorkInv(w) /\ MineInv(w) /\ FetchInv(w)

LockedInv == FilesBelong /\ \A w \in Requesters : CopyInv(w)

(* Nothing is asked of a thread that is outside of the lock, or that has    *)
(* not yet heard of a session.                                              *)
LEMMA Outside ==
  ASSUME NEW w, pc[w] \in {"idle", "write", "status", "autoStart", "start", "stop"}
  PROVE  CopyInv(w)
BY DEF CopyInv, WorkInv, MineInv, FetchInv, Acting, Recorder, Fetching, Stopping

LEMMA OthersOutside ==
  ASSUME PcOK, PcOK', NEW w \in Requesters, Locked(w) \/ Locked(w)',
         \A v \in Workers \ {w} : pc'[v] = pc[v], NEW v \in Requesters \ {w}
  PROVE  CopyInv(v)'
<1>1. pc'[v] \in {"idle", "write"}
  BY OneInside DEF PcOK, Locked, Workers
<1> QED
  BY <1>1, Outside DEF CopyInv, WorkInv, MineInv, FetchInv, Acting, Recorder, Fetching, Stopping

LEMMA ArtifactStep ==
  ASSUME TypeInv, LockedInv, NEW w \in Requesters, GetArtifact(w)
  PROVE  FilesBelong' /\ CopyInv(w)'
<1> PICK name : name = DownloadList[nextFile[w]]
  OBVIOUS
<1> DEFINE v == Version(device.run)
<1>0. /\ w \in Workers /\ PcOK /\ DataOK /\ JobOK /\ FilesBelong
      /\ WorkInv(w) /\ MineInv(w) /\ FetchInv(w)
  BY Halves DEF TypeInv, DataOK, LockedInv, CopyInv, Workers
<1>1. /\ pc[w] \in {"fetch", "stopFetch"} /\ Advance(w)
      /\ UNCHANGED <<active, target, mine, device, lines, sealed>>
      /\ \/ /\ OnDevice(name) /\ copy' = [copy EXCEPT ![target[w]][name] = v]
            /\ UNCHANGED skipped
         \/ skipped' = [skipped EXCEPT ![w] = @ \cup {name}] /\ UNCHANGED copy
  BY DEF GetArtifact, remote
<1>2. /\ nextFile' = [nextFile EXCEPT ![w] = @ + 1] /\ nextFile[w] \in 1..Len(DownloadList)
      /\ \/ pc'[w] = pc[w] /\ nextFile'[w] <= Len(DownloadList)
         \/ /\ pc'[w] = IF pc[w] = "fetch" THEN "return" ELSE "clear"
            /\ nextFile'[w] = Len(DownloadList) + 1
  <2>1. DataOK' /\ JobOK'
    BY StepData, <1>0 DEF Step, Inside, DataOK
  <2> QED
    BY <1>0, <1>1, <2>1, AdvanceData DEF JobOK
<1>3. /\ pc[w] \in Fetching \cup Stopping /\ pc'[w] \in Fetching \cup Stopping
      /\ pc[w] \in Stopping <=> pc'[w] \in Stopping
      /\ pc[w] \in Fetching <=> pc'[w] \in Fetching
      /\ pc'[w] \notin Acting /\ pc'[w] \notin Recorder
  BY <1>1, <1>2 DEF Fetching, Stopping, Acting, Recorder
<1>4. /\ target[w] \in Runs /\ device.run \in {target[w], None} /\ name \in Bundle
      /\ pc[w] \in Stopping => target[w] \in sealed
  BY <1>0, <1>2, <1>3, Bounds DEF WorkInv
<1>5. WorkInv(w)' /\ MineInv(w)'
  BY <1>0, <1>1, <1>3 DEF WorkInv, MineInv
<1>6. ASSUME OnDevice(name), copy' = [copy EXCEPT ![target[w]][name] = v], UNCHANGED skipped
      PROVE  /\ FilesBelong'
             /\ Fetched(w, name)'
             /\ \A m \in Bundle : Fetched(w, m) => Fetched(w, m)'
  <2>1. device.run = target[w]
    BY <1>4, <1>6 DEF OnDevice
  <2>2. /\ v \in Versions /\ v.of = target[w] /\ v.lines = lines[target[w]]
        /\ pc[w] \in Stopping => v.sealed = TRUE
    <3>1. lines[target[w]] \in 0..MaxActions /\ target[w] \in 0..MaxRuns
      BY <1>0, <1>4, Bounds DEF DataOK, Runs
    <3>2. v = [of |-> target[w], lines |-> lines[target[w]], sealed |-> target[w] \in sealed]
      BY <2>1 DEF Version
    <3>3. v \in Versions /\ v.of = target[w] /\ v.lines = lines[target[w]]
      BY <3>1, <3>2 DEF Versions
    <3>4. ASSUME target[w] \in sealed PROVE v.sealed = TRUE
      <4>1. v.sealed = (target[w] \in sealed)
        BY <3>2
      <4> QED
        BY <3>4, <4>1, Zenon
    <3> QED
      BY <1>4, <3>3, <3>4
  <2>3. \A r \in Runs, m \in Bundle :
          copy'[r][m] = IF r = target[w] /\ m = name THEN v ELSE copy[r][m]
    <3>1. copy \in [Runs -> Copied] /\ name \in Bundle /\ v \in Versions
      BY <1>0, <1>4, <2>2 DEF DataOK
    <3> HIDE DEF v
    <3> QED
      BY <1>6, <3>1, CopyUpdate
  <2>4. FilesBelong'
    BY <1>0, <2>2, <2>3 DEF FilesBelong
  <2>5. Fetched(w, name)'
    <3> HIDE DEF v
    <3>1. copy'[target[w]][name] = v
      BY <1>4, <2>3
    <3> QED
      BY <1>1, <1>3, <2>2, <3>1 DEF Fetched
  <2>6. \A m \in Bundle : Fetched(w, m) => Fetched(w, m)'
    <3> HIDE DEF v
    <3>1. \A m \in Bundle : copy'[target[w]][m] = v \/ copy'[target[w]][m] = copy[target[w]][m]
      BY <1>4, <2>3
    <3> QED
      BY <1>1, <1>3, <1>6, <2>2, <3>1 DEF Fetched
  <2> QED
    BY <2>4, <2>5, <2>6
<1>7. ASSUME skipped' = [skipped EXCEPT ![w] = @ \cup {name}], UNCHANGED copy
      PROVE  /\ FilesBelong'
             /\ Fetched(w, name)'
             /\ \A m \in Bundle : Fetched(w, m) => Fetched(w, m)'
  <2>1. skipped'[w] = skipped[w] \cup {name}
    BY <1>0, <1>7 DEF JobOK
  <2> QED
    BY <1>0, <1>1, <1>3, <1>7, <2>1 DEF FilesBelong, Fetched
<1>8. FilesBelong' /\ Fetched(w, name)' /\ \A m \in Bundle : Fetched(w, m) => Fetched(w, m)'
  BY <1>1, <1>6, <1>7
<1>9. ASSUME NEW i \in 1..Len(DownloadList), i < nextFile'[w] PROVE Fetched(w, DownloadList[i])'
  <2>1. i < nextFile[w] \/ i = nextFile[w]
    BY <1>0, <1>2, <1>9, Bounds DEF JobOK
  <2>2. CASE i < nextFile[w]
    BY <1>0, <1>3, <1>8, <2>2, Bounds DEF FetchInv
  <2> QED
    BY <1>8, <2>1, <2>2
<1>10. FetchInv(w)'
  BY <1>1, <1>2, <1>9 DEF FetchInv
<1> QED
  BY <1>5, <1>8, <1>10 DEF CopyInv

LEMMA LockedStep ==
  ASSUME TypeInv, LockedInv, NEW w \in Requesters,
         ActionBegin(w) \/ StartBegin(w) \/ StopBegin(w) \/ Inside(w)
  PROVE  LockedInv'
<1>0. /\ w \in Workers /\ PcOK /\ DataOK /\ JobOK /\ PcOK' /\ JobOK' /\ SessionInv
      /\ CopyInv(w) /\ WorkInv(w) /\ MineInv(w) /\ FetchInv(w) /\ FilesBelong
      /\ \A u \in Workers \ {w} : pc'[u] = pc[u]
  BY Halves, StepPc, StepJob DEF TypeInv, LockedInv, Step, Workers, DataOK, CopyInv
<1>1. Locked(w) \/ Locked(w)'
  BY <1>0 DEF ActionBegin, StartBegin, StopBegin, Acquire, Inside, Locked, PcOK, EnsureStatus,
              StartCall, ActionExecute, ActionCheck, ActionSnapshot, ActionDownload,
              ActionReturn, GetArtifact, StopCall, StopClear
<1>2. SUFFICES CopyInv(w)' /\ FilesBelong'
  BY <1>0, <1>1, OthersOutside DEF LockedInv
<1>3. ASSUME pc'[w] \in {"idle", "status", "autoStart", "start", "stop"} PROVE CopyInv(w)'
  BY <1>3 DEF CopyInv, WorkInv, MineInv, FetchInv, Acting, Recorder, Fetching, Stopping
<1>4. ASSUME UNCHANGED copy PROVE FilesBelong'
  BY <1>0, <1>4 DEF FilesBelong
<1>5. ASSUME pc'[w] \in Acting PROVE FetchInv(w)'
  BY <1>5 DEF FetchInv, Acting, Fetching, Stopping
<1> USE <1>0 DEF remote
<1>6. CASE ActionBegin(w) \/ StartBegin(w) \/ StopBegin(w)
  BY <1>3, <1>4, <1>6 DEF ActionBegin, StartBegin, StopBegin, Acquire, PcOK
<1>7. CASE EnsureStatus(w)
  <2>1. CASE pc'[w] = "execute"
    <3>1. active' = device'.run /\ device'.run \in Runs /\ UNCHANGED copy
      BY <1>7, <2>1 DEF EnsureStatus, Leave, Goto, PcOK, SessionInv
    <3> QED
      BY <1>4, <1>5, <2>1, <3>1
         DEF CopyInv, WorkInv, MineInv, Acting, Recorder, Fetching, Stopping
  <2>2. CASE pc'[w] # "execute"
    BY <1>3, <1>4, <1>7, <2>2 DEF EnsureStatus, Leave, Goto, PcOK
  <2> QED
    BY <2>1, <2>2
<1>8. CASE StartCall(w)
  <2>1. CASE pc'[w] = "execute"
    <3>1. NewSession(TRUE) /\ active' = device'.run /\ UNCHANGED copy
      BY <1>8, <2>1 DEF StartCall, Leave, PcOK
    <3>2. device'.run \in Runs
      BY <3>1, NewSessionTypes
    <3> QED
      BY <1>4, <1>5, <2>1, <3>1, <3>2
         DEF CopyInv, WorkInv, MineInv, Acting, Recorder, Fetching, Stopping
  <2>2. CASE pc'[w] # "execute"
    BY <1>3, <1>4, <1>8, <2>2 DEF StartCall, Leave, Goto, PcOK
  <2> QED
    BY <2>1, <2>2
<1>9. CASE ActionExecute(w)
  <2>1. CASE pc'[w] = "check"
    <3>1. /\ active \in Runs /\ device.run \in {active, None} /\ UNCHANGED <<copy, device, active>>
          /\ IF device.started
             THEN /\ lines' = [lines EXCEPT ![device.run] = @ + 1]
                  /\ mine' = [mine EXCEPT ![w] = [run |-> device.run, line |-> lines'[device.run]]]
             ELSE mine' = [mine EXCEPT ![w] = NoLine] /\ UNCHANGED lines
      BY <1>9, <2>1 DEF ActionExecute, WorkInv, Acting, Leave, PcOK
    <3>2. mine'[w].run \in {None, active} /\ (mine'[w].run # None => mine'[w].line <= lines'[mine'[w].run])
      <4>1. CASE device.started
        <5>1. device.run = active
          BY <3>1, <4>1, Bounds DEF SessionInv, Runs, None
        <5>2. mine'[w] = [run |-> active, line |-> lines'[active]]
          BY <3>1, <4>1, <5>1 DEF JobOK
        <5>3. lines'[active] \in Nat
          BY StepData, <3>1, Bounds, <1>9 DEF Step, Inside, DataOK
        <5> QED
          BY <5>2, <5>3
      <4>2. CASE ~device.started
        BY <3>1, <4>2 DEF JobOK, NoLine
      <4> QED
        BY <4>1, <4>2
    <3> QED
      BY <1>4, <1>5, <2>1, <3>1, <3>2
         DEF CopyInv, WorkInv, MineInv, Acting, Recorder, Fetching, Stopping
  <2>2. CASE pc'[w] # "check"
    BY <1>3, <1>4, <1>9, <2>2 DEF ActionExecute, Leave, PcOK
  <2> QED
    BY <2>1, <2>2
<1>10. CASE ActionCheck(w) \/ ActionSnapshot(w)
  <2>1. pc[w] \in {"check", "snapshot"} /\ UNCHANGED <<copy, active, device, lines>>
    BY <1>10 DEF ActionCheck, ActionSnapshot
  <2>2. active # None
    BY <2>1, Bounds DEF WorkInv, Acting, Runs, None
  <2>3. CASE pc'[w] \in {"snapshot", "download"} /\ UNCHANGED mine
    BY <1>4, <1>5, <2>1, <2>3
       DEF CopyInv, WorkInv, MineInv, Acting, Recorder, Fetching, Stopping
  <2>4. CASE pc'[w] = "idle"
    BY <1>3, <1>4, <2>1, <2>4
  <2> QED
    BY <1>10, <2>2, <2>3, <2>4 DEF ActionCheck, ActionSnapshot, Leave, Goto, job, PcOK
<1>11. CASE ActionDownload(w)
  <2>1. CASE pc'[w] = "fetch"
    <3>1. /\ target'[w] = active /\ UNCHANGED <<copy, active, nextFile, mine, device, lines>>
          /\ pc[w] = "download"
      BY <1>11, <2>1 DEF ActionDownload, Leave, PcOK, JobOK
    <3>2. nextFile[w] = 1
      BY <3>1 DEF JobOK
    <3>3. WorkInv(w)' /\ MineInv(w)'
      BY <2>1, <3>1 DEF WorkInv, MineInv, Acting, Recorder, Fetching, Stopping
    <3>4. FetchInv(w)'
      BY <2>1, <3>1, <3>2 DEF FetchInv
    <3> QED
      BY <1>4, <3>1, <3>3, <3>4 DEF CopyInv
  <2>2. CASE pc'[w] # "fetch"
    BY <1>3, <1>4, <1>11, <2>2 DEF ActionDownload, Leave, PcOK
  <2> QED
    BY <2>1, <2>2
<1>12. CASE GetArtifact(w)
  BY <1>12, ArtifactStep
<1>13. CASE StopCall(w)
  <2>1. CASE pc'[w] = "stopFetch"
    <3>1. /\ device.run # None /\ device' = [device EXCEPT !.started = FALSE]
          /\ sealed' = sealed \cup {device.run} /\ target'[w] = device.run
          /\ UNCHANGED <<copy, nextFile>> /\ pc[w] = "stop"
      BY <1>13, <2>1 DEF StopCall, Leave, PcOK, JobOK
    <3>2. device'.run = device.run /\ device.run \in Runs
      BY <3>1, StopsTypes
    <3>3. nextFile[w] = 1
      BY <3>1 DEF JobOK
    <3>4. WorkInv(w)' /\ MineInv(w)'
      BY <2>1, <3>1, <3>2 DEF WorkInv, MineInv, Acting, Recorder, Fetching, Stopping
    <3>5. FetchInv(w)'
      BY <2>1, <3>1, <3>3 DEF FetchInv
    <3> QED
      BY <1>4, <3>1, <3>4, <3>5 DEF CopyInv
  <2>2. CASE pc'[w] # "stopFetch"
    BY <1>3, <1>4, <1>13, <2>2 DEF StopCall, Leave, PcOK
  <2> QED
    BY <2>1, <2>2
<1>14. CASE ActionReturn(w) \/ StopClear(w)
  BY <1>3, <1>4, <1>14 DEF ActionReturn, StopClear, Leave, PcOK
<1> QED
  BY <1>6, <1>7, <1>8, <1>9, <1>10, <1>11, <1>12, <1>13, <1>14 DEF Inside

(* A restart and a stop by another controller only take the session away,   *)
(* or end and seal it.                                                      *)
LEMMA LockedDevice ==
  ASSUME TypeInv, LockedInv, DeviceRestarts \/ OtherStops
  PROVE  LockedInv'
<1>0. DataOK
  BY Halves DEF TypeInv
<1>1. /\ UNCHANGED <<active, copy, pc, job, lines>>
      /\ device'.run \in {device.run, None} /\ sealed \subseteq sealed'
  BY <1>0 DEF DeviceRestarts, OtherStops, StopsPartly, DataOK, Session
<1>2. ASSUME NEW w \in Requesters, CopyInv(w) PROVE CopyInv(w)'
  <2>1. WorkInv(w)'
    BY <1>1, <1>2 DEF CopyInv, WorkInv, job
  <2>2. MineInv(w)' /\ FetchInv(w)'
    BY <1>1, <1>2 DEF CopyInv, MineInv, FetchInv, Fetched, job
  <2> QED
    BY <2>1, <2>2 DEF CopyInv
<1> QED
  BY <1>1, <1>2 DEF LockedInv, FilesBelong

(* Between two requests another controller may start a run: no thread of    *)
(* the console is at work, and the next one asks for the session first.     *)
LEMMA LockedStart ==
  ASSUME TypeInv, LockedInv, OtherStarts, lock = NoOne
  PROVE  LockedInv'
<1>0. lock = NoOne
  OBVIOUS
<1>1. /\ PcOK /\ UNCHANGED <<pc, copy>>
  BY Halves DEF TypeInv, OtherStarts
<1>2. ASSUME NEW w \in Requesters PROVE CopyInv(w)'
  <2>1. w # lock
    BY ConsoleAssumption, <1>0 DEF Workers, NoOne
  <2>2. pc'[w] \in {"idle", "write"}
    BY <1>1, <2>1 DEF PcOK, Locked, Workers
  <2> QED
    BY <2>2 DEF CopyInv, WorkInv, MineInv, FetchInv, Acting, Recorder, Fetching, Stopping
<1> QED
  BY <1>1, <1>2 DEF LockedInv, FilesBelong

LEMMA LockedInvariant == ASSUME Alone PROVE Spec => [](TypeInv /\ LockedInv)
<1>1. Init => LockedInv
  <2>1. Init => FilesBelong
    BY DEF Init, FilesBelong, NoFile
  <2> QED
    BY <2>1, Outside DEF Init, LockedInv, Workers
<1>2. TypeInv /\ LockedInv /\ [Next]_vars => (TypeInv /\ LockedInv)'
  <2>1. ASSUME TypeInv, LockedInv, UNCHANGED vars PROVE LockedInv'
    BY <2>1 DEF LockedInv, FilesBelong, CopyInv, WorkInv, MineInv, FetchInv, Fetched, vars, job,
                remote
  <2>2. ASSUME TypeInv, LockedInv, Next PROVE LockedInv'
    BY <2>2, LockedStep, LockedDevice, LockedStart DEF Alone, Next, Requests, OtherStarts
  <2> QED
    BY <2>1, <2>2, TypeStep
<1> QED
  BY <1>1, <1>2, TypeInit, PTL DEF Spec

(* Without polls, and if another controller starts its runs between the     *)
(* requests of the console only, a directory never has a file of another    *)
(* run, whatever calls fail and whichever files are passed over, and also   *)
(* when the agent restarts or another controller stops the run in the       *)
(* middle of a download.  Neither hypothesis can go.                        *)
THEOREM DirectoriesSeparate == ASSUME Alone PROVE Spec => []FilesBelong
<1>1. LockedInv => FilesBelong
  BY DEF LockedInv
<1> QED
  BY <1>1, LockedInvariant, PTL

(* Under the same hypotheses an action that returns its result left the     *)
(* line that recorded it in the copy of its run, unless it passed over that *)
(* file.                                                                    *)
THEOREM ActionsInCopy == ASSUME Alone PROVE Spec => EvidenceRefreshed
<1> DEFINE file == "api-results.jsonl"
<1>1. ASSUME TypeInv, LockedInv, NEW w \in Requesters, ActionReturn(w), mine[w].run # None,
             file \notin skipped[w]
      PROVE  /\ copy[mine[w].run][file].of = mine[w].run
             /\ copy[mine[w].run][file].lines >= mine[w].line
  <2>0. WorkInv(w) /\ MineInv(w) /\ FetchInv(w) /\ DataOK /\ JobOK /\ w \in Workers
    BY <1>1, Halves DEF TypeInv, LockedInv, CopyInv, DataOK, Workers
  <2>1. /\ target[w] \in Runs /\ mine[w].run = target[w] /\ mine[w].line <= lines[target[w]]
        /\ nextFile[w] = Len(DownloadList) + 1
    BY <1>1, <2>0 DEF ActionReturn, WorkInv, MineInv, FetchInv, Fetching
  <2>2. PICK i \in 1..Len(DownloadList) : DownloadList[i] = file
    BY ConsoleAssumption DEF ConsoleAssumption
  <2>3. Fetched(w, file)
    BY <1>1, <2>0, <2>1, <2>2, Bounds DEF ActionReturn, FetchInv, Fetching
  <2>4. copy[target[w]][file].of = target[w] /\ copy[target[w]][file].lines = lines[target[w]]
    BY <1>1, <2>3 DEF Fetched
  <2>5. mine[w].line \in Nat /\ lines[target[w]] \in Nat
    BY <2>0, <2>1, Bounds DEF DataOK, JobOK, Recorded
  <2> QED
    BY <2>1, <2>4, <2>5
<1>2. TypeInv /\ LockedInv =>
        [\A w \in Requesters :
           ActionReturn(w) /\ mine[w].run # None /\ "api-results.jsonl" \notin skipped[w] =>
             /\ copy[mine[w].run]["api-results.jsonl"].of = mine[w].run
             /\ copy[mine[w].run]["api-results.jsonl"].lines >= mine[w].line]_vars
  BY <1>1
<1> QED
  BY <1>2, LockedInvariant, PTL DEF EvidenceRefreshed

(* Under the same hypotheses, and for any list of names, each file that a   *)
(* stop has fetched is the final one of the sealed run.                     *)
THEOREM StopSavesSealed == ASSUME Alone PROVE Spec => SavedIsSealed
<1>1. ASSUME TypeInv, LockedInv, NEW w \in Requesters, StopClear(w),
             NEW i \in 1..Len(DownloadList), DownloadList[i] \notin skipped[w]
      PROVE  copy[target[w]][DownloadList[i]] =
               [of |-> target[w], lines |-> lines[target[w]], sealed |-> TRUE]
  <2>1. /\ target[w] \in Runs /\ nextFile[w] = Len(DownloadList) + 1
        /\ pc[w] \in Stopping /\ FetchInv(w)
    BY <1>1 DEF LockedInv, CopyInv, WorkInv, FetchInv, Stopping, StopClear
  <2>2. Fetched(w, DownloadList[i])
    BY <2>1, Bounds DEF FetchInv
  <2>3. copy[target[w]][DownloadList[i]] \in Versions
    BY <1>1, <2>1, Halves, Bounds DEF TypeInv, DataOK, Copied
  <2> QED
    BY <1>1, <2>1, <2>2, <2>3 DEF Fetched, Versions
<1>2. TypeInv /\ LockedInv =>
        [\A w \in Requesters : StopClear(w) =>
           \A i \in 1..Len(DownloadList) : DownloadList[i] \notin skipped[w] =>
             copy[target[w]][DownloadList[i]] =
               [of |-> target[w], lines |-> lines[target[w]], sealed |-> TRUE]]_vars
  BY <1>1
<1> QED
  BY <1>2, LockedInvariant, PTL DEF SavedIsSealed
=============================================================================
