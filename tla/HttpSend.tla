------------------------------ MODULE HttpSend ------------------------------
(***************************************************************************)
(* The dispatcher thread of one camera, HttpClient::Run, and the HTTP      *)
(* exchange of HttpClient::SendReq (http_client.cpp).                      *)
(* SendReq opens one mongoose connection, arms a 0.5 s timer on it, clears *)
(* s_exit_flag, and calls mg_mgr_poll(50 ms) until the event handler       *)
(* OnHttpEvent has set s_exit_flag.  mongoose delivers events only inside  *)
(* mg_mgr_poll, one handler call per event; which event comes is up to the *)
(* peer and the network, described by the peer's behaviour:                *)
(*   "refuse"  the connect fails       (MG_EV_CONNECT with an error code);  *)
(*   "reply"   the server answers      (MG_EV_CONNECT, MG_EV_HTTP_REPLY);   *)
(*   "close"   it closes, no answer    (MG_EV_CONNECT, MG_EV_CLOSE);        *)
(*   "silent"  it accepts, never answers (MG_EV_CONNECT and nothing more).  *)
(* Before the connect completes the timer may fire instead (MG_EV_TIMER),  *)
(* which closes the connection (MG_EV_CLOSE).  mongoose fires a timer once *)
(* and mg_set_timer(c, 0) disarms it.  The queue is left abstract: a read  *)
(* returns a slot or, on its timeout, NULL.                                *)
(***************************************************************************)
EXTENDS Naturals

CONSTANTS
  Behaviours,  \* what the peer of a request may do
  MaxSends     \* bound: requests the thread makes

ASSUME Behaviours \subseteq {"refuse", "reply", "close", "silent"}
ASSUME MaxSends \in Nat \ {0}

VARIABLES
  dpc,     \* HttpClient::Run: "loop", "read", "poll", "exited"
  isRun,   \* _is_run
  conn,    \* the connection: "none", "connecting", "connected", "closing", "closed"
  timer,   \* the connection's MG_EV_TIMER is armed
  flag,    \* s_exit_flag
  server,  \* the behaviour of this request's peer
  sends    \* requests made so far

vars == <<dpc, isRun, conn, timer, flag, server, sends>>

Init ==
  /\ dpc = "loop" /\ isRun = TRUE
  /\ conn = "none" /\ timer = FALSE /\ flag = 0
  /\ server \in Behaviours
  /\ sends = 0

(***************************************************************************)
(* Plausible bugs, used as mutants.                                        *)
(***************************************************************************)
\* The MG_EV_CLOSE case without `s_exit_flag = 1`.
ClosedNoExit ==
  /\ dpc = "poll" /\ conn = "closing"
  /\ conn' = "closed"
  /\ UNCHANGED <<dpc, isRun, timer, flag, server, sends>>

\* `while (true)` in place of `while (_is_run)`.
LoopTestIgnoresStop ==
  /\ dpc = "loop"
  /\ dpc' = "read"
  /\ UNCHANGED <<isRun, conn, timer, flag, server, sends>>

(***************************************************************************)
(* HttpClient::Run                                                         *)
(***************************************************************************)
\* `while (_is_run)`; on leaving, `_is_run = false; CallStop();`.
LoopTest ==
  /\ dpc = "loop"
  /\ dpc' = IF isRun THEN "read" ELSE "exited"
  /\ UNCHANGED <<isRun, conn, timer, flag, server, sends>>

\* get_tail_to_read timed out: NULL, usleep(100 ms), `continue`.
ReadNull ==
  /\ dpc = "read"
  /\ dpc' = "loop"
  /\ UNCHANGED <<isRun, conn, timer, flag, server, sends>>

(* A slot: serialize it, tail_next (the alarm is retired), then SendReq up *)
(* to its poll loop: mg_connect_http, mg_set_timer(now + 0.5),             *)
(* s_exit_flag = 0.                                                        *)
ReadSlot ==
  /\ dpc = "read"
  /\ sends < MaxSends
  /\ sends' = sends + 1
  /\ conn' = "connecting" /\ timer' = TRUE /\ flag' = 0
  /\ server' \in Behaviours
  /\ dpc' = "poll"
  /\ UNCHANGED isRun

\* `while (s_exit_flag == 0)` has ended: mg_mgr_free closes what is left.
PollDone ==
  /\ dpc = "poll" /\ flag = 1
  /\ conn' = "none" /\ timer' = FALSE
  /\ dpc' = "loop"
  /\ UNCHANGED <<isRun, flag, server, sends>>

\* StopAnalysis calls Stop(): `_is_run = false`, then joins.
Stop ==
  /\ isRun
  /\ isRun' = FALSE
  /\ UNCHANGED <<dpc, conn, timer, flag, server, sends>>

(***************************************************************************)
(* OnHttpEvent, for the event one mg_mgr_poll delivers.                    *)
(***************************************************************************)
\* MG_EV_CONNECT, status 0: `mg_set_timer(connection, 0)`.
ConnectOk ==
  /\ dpc = "poll" /\ conn = "connecting" /\ server /= "refuse"
  /\ conn' = "connected" /\ timer' = FALSE
  /\ UNCHANGED <<dpc, isRun, flag, server, sends>>

\* MG_EV_CONNECT with an error: the timer is disarmed, s_exit_flag = 1, and
\* mongoose closes the connection.
ConnectFail ==
  /\ dpc = "poll" /\ conn = "connecting" /\ server = "refuse"
  /\ conn' = "closing" /\ timer' = FALSE /\ flag' = 1
  /\ UNCHANGED <<dpc, isRun, server, sends>>

\* MG_EV_TIMER: `connection->flags |= MG_F_CLOSE_IMMEDIATELY`.
TimerFires ==
  /\ dpc = "poll" /\ timer
  /\ timer' = FALSE /\ conn' = "closing"
  /\ UNCHANGED <<dpc, isRun, flag, server, sends>>

\* MG_EV_HTTP_REPLY: MG_F_SEND_AND_CLOSE and s_exit_flag = 1.
Reply ==
  /\ dpc = "poll" /\ conn = "connected" /\ server = "reply"
  /\ conn' = "closing" /\ flag' = 1
  /\ UNCHANGED <<dpc, isRun, timer, server, sends>>

\* MG_EV_CLOSE from the peer: `if (s_exit_flag == 0) s_exit_flag = 1`.
PeerClose ==
  /\ dpc = "poll" /\ conn = "connected" /\ server = "close"
  /\ conn' = "closed" /\ flag' = 1
  /\ UNCHANGED <<dpc, isRun, timer, server, sends>>

\* MG_EV_CLOSE of a connection mongoose is closing.
Closed ==
  /\ dpc = "poll" /\ conn = "closing"
  /\ conn' = "closed" /\ flag' = 1
  /\ UNCHANGED <<dpc, isRun, timer, server, sends>>

Dispatcher == LoopTest \/ ReadNull \/ ReadSlot \/ PollDone
Network == ConnectOk \/ ConnectFail \/ TimerFires \/ Reply \/ PeerClose \/ Closed

Next == Dispatcher \/ Network \/ Stop

(***************************************************************************)
(* The dispatcher is an OS thread and mg_mgr_poll returns every 50 ms      *)
(* (weak fairness of both); the network eventually delivers an event that  *)
(* is pending, and an armed timer eventually fires.  Stop is up to the     *)
(* camera and need not happen.                                             *)
(***************************************************************************)
Spec == Init /\ [][Next]_vars /\ WF_vars(Dispatcher) /\ WF_vars(Network)

-----------------------------------------------------------------------------
TypeOK ==
  /\ dpc \in {"loop", "read", "poll", "exited"} /\ isRun \in BOOLEAN
  /\ conn \in {"none", "connecting", "connected", "closing", "closed"}
  /\ timer \in BOOLEAN /\ flag \in {0, 1}
  /\ server \in Behaviours /\ sends \in 0 .. MaxSends

(* Every SendReq returns: the send is synchronous "with its own            *)
(* protocol-level timeout" (spec 4.5), so whatever the peer does the poll  *)
(* loop ends and HttpClient::Run goes back to its queue.                   *)
SendReqReturns ==
  dpc = "poll" ~> dpc = "loop"

(* Stop() is eventually observed: after StopAnalysis has cleared _is_run   *)
(* the dispatcher leaves Run, so the join in Stop() returns (spec 5,       *)
(* Cancellation).                                                          *)
StopObserved ==
  ~isRun ~> dpc = "exited"
=============================================================================
