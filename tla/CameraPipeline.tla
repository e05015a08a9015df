---------------------------- MODULE CameraPipeline ----------------------------
(***************************************************************************)
(* The thread structure of the program: the supervisor loop of             *)
(* AnalysisManager::run, one Analysis capture thread per camera            *)
(* (Analysis::Run), and the threads each Analysis starts and stops         *)
(* (Analysis::StartAnalysis / StopAnalysis): one thread per detector that *)
(* loaded its configuration and one HttpClient dispatcher.  All of them    *)
(* are RiverThreads; their start/stop/join contract is RiverThread.        *)
(* What a frame contains, what the detectors compute and what goes through *)
(* the alarm queue is left out here (AlarmMsgQueue models the queue): this *)
(* module is about who starts, stops, joins and restarts whom.             *)
(*                                                                         *)
(* Time is not modelled, with one exception the code's constants justify: *)
(* the supervisor sleeps 10 s after starting the pipelines and waits 5 s   *)
(* after each check, and a thread it has just created has run its first    *)
(* statement by then (Sleep and WaitFor wait for that).  No such margin   *)
(* exists between StartAnalysis and StopAnalysis: a source that fails      *)
(* twelve reads in a row gets there at once.                               *)
(***************************************************************************)
EXTENDS Integers, Sequences
LOCAL INSTANCE SequencesExt

CONSTANTS
  Instances,    \* inst_vec: the Analysis instances, in supervision order
  Configured,   \* config.algorithms of every camera, in order
  Dispatcher,   \* the HttpClient send_client of a camera
  RetryLimit    \* the `retrytime > 10` bound of the capture loop

Pipelines == ToSet(Instances)
Detectors == ToSet(Configured)

ASSUME Instances /= <<>>   \* run() returns -1 at once on an empty inst_vec
ASSUME Dispatcher \notin Detectors
ASSUME RetryLimit \in Nat

\* The threads an Analysis owns, named by the camera and the component.
Workers(p) == {<<p, w>> : w \in Detectors \cup {Dispatcher}}
Threads == Pipelines \cup UNION {Workers(p) : p \in Pipelines}

VARIABLES
  thread, isRun, aborted,   \* RiverThread state of every thread
  algorithms,   \* Analysis::algorithms: the detectors whose LoadConfig succeeded
  apc,          \* where each Analysis::Run is
  cap,          \* its cv::VideoCapture: "open" or "closed"
  retrytime,    \* its retrytime counter
  stopIdx,      \* which worker StopAnalysis is stopping
  spc,          \* where AnalysisManager::run is
  sidx          \* which inst_vec entry it is looking at

RT == INSTANCE RiverThread

vars == <<thread, isRun, aborted, algorithms, apc, cap, retrytime, stopIdx,
          spc, sidx>>

CapStates == {"open", "closed"}
PipelineStates == {"idle", "open", "start", "loop", "stopping", "joining", "end"}
SupervisorStates == {"startAll", "sleep", "check", "restart", "waitFor"}

\* The threads of camera p that StartAnalysis starts.
Started(p) == {<<p, algorithms[p][i]>> : i \in 1 .. Len(algorithms[p])}
                \cup {<<p, Dispatcher>>}

(***************************************************************************)
(* Plausible bugs of the code, used as mutants of the definitions below.   *)
(***************************************************************************)
\* StopAnalysis forgets send_client->Stop().
StopOrderNoDispatcher(p) ==
  [i \in 1 .. Len(algorithms[p]) |-> <<p, algorithms[p][i]>>]

\* The `retrytime > 10` exit jumps straight to _thread_end, past StopAnalysis.
CaptureFailSkipsStop(p) ==
  /\ apc[p] = "loop"
  /\ isRun[p]
  /\ \/ /\ retrytime[p] > RetryLimit
        /\ apc' = [apc EXCEPT ![p] = "end"]
        /\ UNCHANGED <<cap, retrytime, stopIdx>>
     \/ /\ retrytime[p] <= RetryLimit
        /\ \E c \in CapStates : cap' = [cap EXCEPT ![p] = c]
        /\ retrytime' = [retrytime EXCEPT ![p] = @ + 1]
        /\ UNCHANGED <<apc, stopIdx>>
  /\ UNCHANGED <<thread, isRun, aborted, algorithms, spc, sidx>>

\* The capture loop tests `retrytime > 11`.
CaptureFailOffByOne(p) ==
  /\ apc[p] = "loop"
  /\ isRun[p]
  /\ \/ /\ retrytime[p] > RetryLimit + 1
        /\ apc' = [apc EXCEPT ![p] = "stopping"]
        /\ stopIdx' = [stopIdx EXCEPT ![p] = 1]
        /\ UNCHANGED <<cap, retrytime>>
     \/ /\ retrytime[p] <= RetryLimit + 1
        /\ \E c \in CapStates : cap' = [cap EXCEPT ![p] = c]
        /\ retrytime' = [retrytime EXCEPT ![p] = @ + 1]
        /\ UNCHANGED <<apc, stopIdx>>
  /\ UNCHANGED <<thread, isRun, aborted, algorithms, spc, sidx>>

(***************************************************************************)
(* Analysis::StopAnalysis stops the detectors in vector order, then the    *)
(* dispatcher.                                                             *)
(***************************************************************************)
StopOrder(p) ==
  [i \in 1 .. Len(algorithms[p]) |-> <<p, algorithms[p][i]>>]
    \o << <<p, Dispatcher>> >>

Init ==
  /\ RT!Init
  \* AnalysisManager::LoadConfig -> Analysis::LoadConfig -> GetAlgorithm:
  \* a detector whose LoadConfig fails is left out of the vector.
  /\ algorithms \in [Pipelines -> AllSubSeqs(Configured)]
  /\ apc = [p \in Pipelines |-> "idle"]
  /\ cap = [p \in Pipelines |-> "closed"]
  /\ retrytime = [p \in Pipelines |-> 0]
  /\ stopIdx = [p \in Pipelines |-> 1]
  /\ spc = "startAll"
  /\ sidx = 1

(***************************************************************************)
(* AnalysisManager::run                                                    *)
(***************************************************************************)
\* for (ptr : inst_vec) ptr->Start();
SupervisorStartAll ==
  /\ spc = "startAll"
  /\ RT!StartAll(Pipelines)
  /\ spc' = "sleep"
  /\ UNCHANGED <<algorithms, apc, cap, retrytime, stopIdx, sidx>>

\* sleep(10);
SupervisorSleep ==
  /\ spc = "sleep"
  /\ \A p \in Pipelines : thread[p] /= "spawned"
  /\ spc' = "check"
  /\ sidx' = 1
  /\ UNCHANGED <<thread, isRun, aborted, algorithms, apc, cap, retrytime, stopIdx>>

\* if (!ptr->_is_run) ptr->Stop() ... : the test and Stop() up to join().
Check ==
  /\ spc = "check"
  /\ \/ /\ ~isRun[Instances[sidx]]
        /\ RT!StopSignal(Instances[sidx])
        /\ spc' = "restart"
     \/ /\ isRun[Instances[sidx]]
        /\ spc' = "waitFor"
        /\ UNCHANGED <<thread, isRun, aborted>>
  /\ UNCHANGED <<algorithms, apc, cap, retrytime, stopIdx, sidx>>

\* ... join() returns, `_thread = NULL`; then ptr->Start().
Restart ==
  /\ spc = "restart"
  /\ thread[Instances[sidx]] \in {"null", "exited"}
  /\ thread' = [thread EXCEPT ![Instances[sidx]] = "spawned"]
  /\ spc' = "waitFor"
  /\ UNCHANGED <<isRun, aborted, algorithms, apc, cap, retrytime, stopIdx, sidx>>

\* ptr->WaitFor(5000): ends on CallStop() or after 5 s; next instance.
WaitFor ==
  /\ spc = "waitFor"
  /\ thread[Instances[sidx]] /= "spawned"
  /\ sidx' = IF sidx = Len(Instances) THEN 1 ELSE sidx + 1
  /\ spc' = "check"
  /\ UNCHANGED <<thread, isRun, aborted, algorithms, apc, cap, retrytime, stopIdx>>

(***************************************************************************)
(* Analysis::Run of camera p                                               *)
(***************************************************************************)
\* `_is_run = true; retrytime = 0;` and the `algorithms.empty()` test.
PipelineBegin(p) ==
  /\ RT!RunBegin(p)
  /\ apc[p] = "idle"
  /\ \/ algorithms[p] = <<>> /\ apc' = [apc EXCEPT ![p] = "end"]
     \/ algorithms[p] /= <<>> /\ apc' = [apc EXCEPT ![p] = "open"]
  /\ cap' = [cap EXCEPT ![p] = "closed"]
  /\ retrytime' = [retrytime EXCEPT ![p] = 0]
  /\ UNCHANGED <<algorithms, stopIdx, spc, sidx>>

(* cap.open(url); if (!cap.isOpened()) { if (retrytime > 3) goto end;      *)
(* cap.open(url); retrytime++; }  -- an `if`, not a loop, entered with     *)
(* retrytime = 0, so the `goto` is never taken and a source that fails     *)
(* both opens is captured from all the same.                               *)
OpenSource(p) ==
  /\ apc[p] = "open"
  /\ \E first, second \in CapStates :
       /\ cap' = [cap EXCEPT ![p] = IF first = "open" THEN "open" ELSE second]
       /\ retrytime' = [retrytime EXCEPT ![p] = IF first = "open" THEN 0 ELSE 1]
  /\ apc' = [apc EXCEPT ![p] = "start"]
  /\ UNCHANGED <<thread, isRun, aborted, algorithms, stopIdx, spc, sidx>>

\* StartAnalysis(): send_client->Start(), each algorithm->Start(); retrytime = 0.
StartAnalysis(p) ==
  /\ apc[p] = "start"
  /\ RT!StartAll(Started(p))
  /\ retrytime' = [retrytime EXCEPT ![p] = 0]
  /\ apc' = [apc EXCEPT ![p] = "loop"]
  /\ UNCHANGED <<algorithms, cap, stopIdx, spc, sidx>>

\* `cap >> img` gives a frame: retrytime = 0, publish, DrawInfo, usleep.
CaptureFrame(p) ==
  /\ apc[p] = "loop"
  /\ isRun[p]
  /\ cap[p] = "open"
  /\ retrytime' = [retrytime EXCEPT ![p] = 0]
  /\ UNCHANGED <<thread, isRun, aborted, algorithms, apc, cap, stopIdx, spc, sidx>>

(* `cap >> img` gives an empty image or leaves the source closed:          *)
(* `if (retrytime > 10) break;` else reopen a closed source, retrytime++.  *)
(* A read can close the source and a reopen can fail, so either state of  *)
(* the source may follow.                                                  *)
CaptureFail(p) ==
  /\ apc[p] = "loop"
  /\ isRun[p]
  /\ \/ /\ retrytime[p] > RetryLimit
        /\ apc' = [apc EXCEPT ![p] = "stopping"]
        /\ stopIdx' = [stopIdx EXCEPT ![p] = 1]
        /\ UNCHANGED <<cap, retrytime>>
     \/ /\ retrytime[p] <= RetryLimit
        /\ \E c \in CapStates : cap' = [cap EXCEPT ![p] = c]
        /\ retrytime' = [retrytime EXCEPT ![p] = @ + 1]
        /\ UNCHANGED <<apc, stopIdx>>
  /\ UNCHANGED <<thread, isRun, aborted, algorithms, spc, sidx>>

\* StopAnalysis: Stop() of the next worker, up to its join().
StopWorker(p) ==
  /\ apc[p] = "stopping"
  /\ RT!StopSignal(StopOrder(p)[stopIdx[p]])
  /\ apc' = [apc EXCEPT ![p] = "joining"]
  /\ UNCHANGED <<algorithms, cap, retrytime, stopIdx, spc, sidx>>

\* StopAnalysis: that join() returns; on to the next worker or to the end.
JoinWorker(p) ==
  /\ apc[p] = "joining"
  /\ RT!Join(StopOrder(p)[stopIdx[p]])
  /\ \/ /\ stopIdx[p] < Len(StopOrder(p))
        /\ apc' = [apc EXCEPT ![p] = "stopping"]
        /\ stopIdx' = [stopIdx EXCEPT ![p] = @ + 1]
     \/ /\ stopIdx[p] = Len(StopOrder(p))
        /\ apc' = [apc EXCEPT ![p] = "end"]
        /\ UNCHANGED stopIdx
  /\ UNCHANGED <<algorithms, cap, retrytime, spc, sidx>>

\* _thread_end: `_is_run = false; CallStop(); return;`
PipelineEnd(p) ==
  /\ apc[p] = "end"
  /\ RT!RunEnd(p)
  /\ apc' = [apc EXCEPT ![p] = "idle"]
  /\ UNCHANGED <<algorithms, cap, retrytime, stopIdx, spc, sidx>>

(***************************************************************************)
(* A detector's or HttpClient's Run(): `_is_run = true`, then              *)
(* `while (_is_run) { ... usleep / timed wait ... }`, then                 *)
(* `_is_run = false; CallStop();`.  Every iteration ends in a bounded      *)
(* sleep or timed wait, so a cleared _is_run is seen in bounded time.      *)
(***************************************************************************)
WorkerBegin(w) ==
  /\ RT!RunBegin(w)
  /\ UNCHANGED <<algorithms, apc, cap, retrytime, stopIdx, spc, sidx>>

WorkerEnd(w) ==
  /\ ~isRun[w]
  /\ RT!RunEnd(w)
  /\ UNCHANGED <<algorithms, apc, cap, retrytime, stopIdx, spc, sidx>>

Supervisor == SupervisorStartAll \/ SupervisorSleep \/ Check \/ Restart \/ WaitFor

(* `while (_is_run)` never finds _is_run cleared: only Stop() of this     *)
(* instance clears it, and the supervisor calls that only once _is_run is  *)
(* already false.  The loop is left by the `break` of CaptureFail alone.    *)
Capture(p) == CaptureFrame(p) \/ CaptureFail(p)

Pipeline(p) ==
  \/ PipelineBegin(p) \/ OpenSource(p) \/ StartAnalysis(p) \/ Capture(p)
  \/ StopWorker(p) \/ JoinWorker(p) \/ PipelineEnd(p)

Worker(w) == WorkerBegin(w) \/ WorkerEnd(w)

Next ==
  \/ Supervisor
  \/ \E p \in Pipelines : Pipeline(p)
  \/ \E p \in Pipelines : \E w \in Workers(p) : Worker(w)

(***************************************************************************)
(* Every thread is an OS thread and is scheduled whenever it can run.  The *)
(* capture loop takes a step whenever it can, but whether the source       *)
(* gives frames is not up to it: fairness is on the loop as a whole.       *)
(***************************************************************************)
Fairness ==
  /\ WF_vars(Supervisor)
  /\ \A p \in Pipelines :
       /\ WF_vars(PipelineBegin(p)) /\ WF_vars(OpenSource(p))
       /\ WF_vars(StartAnalysis(p)) /\ WF_vars(Capture(p))
       /\ WF_vars(StopWorker(p)) /\ WF_vars(JoinWorker(p))
       /\ WF_vars(PipelineEnd(p))
  /\ \A w \in Threads \ Pipelines : WF_vars(Worker(w))

Spec == Init /\ [][Next]_vars /\ Fairness

-----------------------------------------------------------------------------
TypeOK ==
  /\ RT!TypeOK
  /\ algorithms \in [Pipelines -> AllSubSeqs(Configured)]
  /\ apc \in [Pipelines -> PipelineStates]
  /\ cap \in [Pipelines -> CapStates]
  /\ retrytime \in [Pipelines -> 0 .. RetryLimit + 1]
  /\ stopIdx \in [Pipelines -> 1 .. Len(Configured) + 1]
  /\ spc \in SupervisorStates
  /\ sidx \in 1 .. Len(Instances)

(* RiverThread::Start is never called on a thread object that is still    *)
(* there: every Start() of an Analysis, a detector or the dispatcher,      *)
(* through every restart, follows a Stop() that joined and deleted it      *)
(* (deleting a joinable std::thread would call std::terminate).            *)
NoAbort == ~aborted

(* When an Analysis::Run has returned, none of the detector or dispatcher  *)
(* threads it started is left behind: StopAnalysis has stopped and joined  *)
(* every one of them on every way out of the capture loop.                 *)
NoOrphanWorkers ==
  \A p \in Pipelines :
    apc[p] = "idle" => \A w \in Workers(p) : thread[w] = "null"

(* A camera whose capture loop gives up (StopAnalysis begins) is           *)
(* eventually started again by the supervisor: Analysis::Run runs anew and *)
(* opens the source.                                                       *)
FailedPipelineRestarted ==
  \A p \in Pipelines : (apc[p] = "stopping") ~> (apc[p] = "open")

(* The detectors and the dispatcher are started only once the video source *)
(* has opened: a source that cannot be opened never enters the capture     *)
(* loop (spec 4.4, Starting).                                              *)
StartsOnlyWithOpenSource ==
  [][\A p \in Pipelines : StartAnalysis(p) => cap[p] = "open"]_vars

(* A capture loop that has read RetryLimit + 1 empty frames in a row has   *)
(* left the loop (spec 8: eleven consecutive empty reads drain the camera). *)
DrainsAfterRetryLimitFailures ==
  \A p \in Pipelines : apc[p] = "loop" => retrytime[p] <= RetryLimit
=============================================================================
