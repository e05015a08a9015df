----------------------------- MODULE RiverThread -----------------------------
(***************************************************************************)
(* The start/stop contract every long-running stage inherits from          *)
(* RiverThread (src/.../RiverThread.cpp): Analysis (one capture loop per   *)
(* camera), each detector thread and HttpClient.  Per thread object:       *)
(*   thread[t]  the std::thread* _thread:                                  *)
(*                "null"     _thread == NULL                               *)
(*                "spawned"  created, Run() has not yet set _is_run        *)
(*                "running"  Run() has set _is_run = true                  *)
(*                "exited"   Run() has returned, not yet joined            *)
(*              A non-null _thread is always joinable: nothing detaches    *)
(*              or joins it without deleting it.                           *)
(*   isRun[t]   the volatile bool _is_run                                  *)
(*   aborted    std::terminate has been called (the process is gone).      *)
(* Stop() is a call that blocks in join(); the caller's program counter    *)
(* lives in the module that composes the threads, so Stop is split into   *)
(* StopSignal (the test and `_is_run = false`) and Join (join, delete,     *)
(* `_thread = NULL`), which the caller takes in that order.                *)
(***************************************************************************)
CONSTANT Threads

VARIABLES thread, isRun, aborted

ThreadStates == {"null", "spawned", "running", "exited"}

Init ==
  /\ thread = [t \in Threads |-> "null"]
  /\ isRun = [t \in Threads |-> FALSE]
  /\ aborted = FALSE

(* Start() on every thread of S, one after the other with nothing in       *)
(* between that another thread could observe.  A thread object that is     *)
(* still there is joinable, so `delete _thread` runs ~thread() on a        *)
(* joinable std::thread: std::terminate.                                   *)
StartAll(S) ==
  \/ /\ \A t \in S : thread[t] = "null"
     /\ thread' = [t \in Threads |-> IF t \in S THEN "spawned" ELSE thread[t]]
     /\ UNCHANGED <<isRun, aborted>>
  \/ /\ \E t \in S : thread[t] /= "null"
     /\ aborted' = TRUE
     /\ UNCHANGED <<thread, isRun>>

Start(t) == StartAll({t})

\* Stop(), up to the join: a no-op on a NULL thread, else `_is_run = false`.
StopSignal(t) ==
  /\ isRun' = IF thread[t] = "null" THEN isRun ELSE [isRun EXCEPT ![t] = FALSE]
  /\ UNCHANGED <<thread, aborted>>

\* Stop(), the rest: join() returns once Run() has returned; delete; NULL.
Join(t) ==
  /\ thread[t] \in {"null", "exited"}
  /\ thread' = [thread EXCEPT ![t] = "null"]
  /\ UNCHANGED <<isRun, aborted>>

\* The first statement of every Run(): `_is_run = true`.
RunBegin(t) ==
  /\ thread[t] = "spawned"
  /\ thread' = [thread EXCEPT ![t] = "running"]
  /\ isRun' = [isRun EXCEPT ![t] = TRUE]
  /\ UNCHANGED aborted

\* The last statements of every Run(): `_is_run = false; CallStop();`.
RunEnd(t) ==
  /\ thread[t] = "running"
  /\ thread' = [thread EXCEPT ![t] = "exited"]
  /\ isRun' = [isRun EXCEPT ![t] = FALSE]
  /\ UNCHANGED aborted

TypeOK ==
  /\ thread \in [Threads -> ThreadStates]
  /\ isRun \in [Threads -> BOOLEAN]
  /\ aborted \in BOOLEAN
=============================================================================
