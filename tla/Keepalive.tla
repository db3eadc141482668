------------------------------- MODULE Keepalive -------------------------------
(***************************************************************************)
(* The websocket of one pod operation and its keepalive thread             *)
(* (create_websocket_client_for_exec and _send_keepalive, _pod/op.py),     *)
(* against a server that closes connections on which it has received no    *)
(* data frame for IdleTimeout.  One tick is the unit of all the times.     *)
(***************************************************************************)
EXTENDS Integers

CONSTANTS
    Interval,     \* _KEEPALIVE_INTERVAL_SECONDS
    IdleTimeout,  \* stream_idle_timeout of the container runtime
    MaxDelay      \* bound: ticks by which the thread may run late

ASSUME KeepaliveAssumption ==
    /\ Interval \in Nat \ {0} /\ IdleTimeout \in Nat /\ MaxDelay \in Nat
    /\ Interval + MaxDelay < IdleTimeout   \* "well under any realistic idle timeout"

VARIABLES
    op,      \* the operation's thread: "open", "working", "closing", "ended"
    conn,    \* the connection: "open", "closed", "idleClosed"
    idle,    \* ticks since the server last received a data frame
    stop,    \* stop_keepalive.is_set()
    ka,      \* the keepalive thread: "none", "waiting", "awake", "send", "ended"
    waited,  \* ticks since the thread last entered stop.wait()
    failed   \* history: a frame could not be sent on an open connection

vars == <<op, conn, idle, stop, ka, waited, failed>>

Init ==
    /\ op = "open"
    /\ conn = "open"
    /\ idle = 0
    /\ stop = FALSE
    /\ ka = "none"
    /\ waited = 0
    /\ failed = FALSE

-------------------------------------------------------------------------------
(* The operation's thread                                                  *)

\* The connection is up: keepalive.start(), then the body of the `with`.
StartKeepalive ==
    /\ op = "open"
    /\ op' = "working"
    /\ ka' = "waiting"
    /\ waited' = 0
    /\ UNCHANGED <<conn, idle, stop, failed>>

\* The operation itself writes to stdin.
WriteStdin ==
    /\ op = "working" /\ conn = "open"
    /\ idle' = 0
    /\ UNCHANGED <<op, conn, stop, ka, waited, failed>>

\* BUG: no `finally`.
BodyEndsWithoutFinally ==
    /\ op = "working"
    /\ op' = "ended"
    /\ UNCHANGED <<conn, idle, stop, ka, waited, failed>>

\* The body ends, with a result or an exception; stop_keepalive.set().
BodyEnds ==
    /\ op = "working"
    /\ op' = "closing"
    /\ stop' = TRUE
    /\ UNCHANGED <<conn, idle, ka, waited, failed>>

\* ws_client.close().
CloseWebsocket ==
    /\ op = "closing"
    /\ op' = "ended"
    /\ conn' = IF conn = "open" THEN "closed" ELSE conn
    /\ UNCHANGED <<idle, stop, ka, waited, failed>>

-------------------------------------------------------------------------------
(* _send_keepalive                                                         *)

\* stop.wait(Interval) times out.
WaitTimesOut ==
    /\ ka = "waiting"
    /\ ~stop
    /\ waited >= Interval
    /\ ka' = "awake"
    /\ UNCHANGED <<op, conn, idle, stop, waited, failed>>

\* stop.wait() returns because the event is set.
WaitStopped ==
    /\ ka = "waiting"
    /\ stop
    /\ ka' = "ended"
    /\ UNCHANGED <<op, conn, idle, stop, waited, failed>>

\* ws_client.is_open()
CheckOpen ==
    /\ ka = "awake"
    /\ ka' = IF conn = "open" THEN "send" ELSE "ended"
    /\ UNCHANGED <<op, conn, idle, stop, waited, failed>>

\* An exception ends the loop.
BailOut == "ended"

\* BUG: a ping, which does not reach the server's idle timer.
IdleAfterPing == idle

\* A frame on the resize channel resets the server's idle timer.
IdleAfterFrame == 0

\* write_channel on the open connection.
FrameSent ==
    /\ conn = "open"
    /\ ka' = "waiting"
    /\ waited' = 0
    /\ idle' = IdleAfterFrame
    /\ UNCHANGED failed

\* write_channel raises: the connection has been closed since the check, or the
\* send fails although it is open.
FrameFails ==
    /\ ka' = BailOut
    /\ failed' = (failed \/ conn = "open")
    /\ UNCHANGED <<waited, idle>>

SendFrame ==
    /\ ka = "send"
    /\ FrameSent \/ FrameFails
    /\ UNCHANGED <<op, conn, stop>>

-------------------------------------------------------------------------------
(* Time and the server (external)                                          *)

\* The keepalive thread is never more than MaxDelay behind.
Tick ==
    /\ ka \in {"waiting", "awake", "send"} => waited < Interval + MaxDelay
    /\ op # "open"
    /\ conn = "open" => idle < IdleTimeout
    /\ idle' = IF conn = "open" THEN idle + 1 ELSE idle
    /\ waited' = IF ka \in {"waiting", "awake", "send"} THEN waited + 1 ELSE waited
    /\ UNCHANGED <<op, conn, stop, ka, failed>>

IdleClose ==
    /\ conn = "open"
    /\ idle = IdleTimeout
    /\ conn' = "idleClosed"
    /\ UNCHANGED <<op, idle, stop, ka, waited, failed>>

\* The command ends, exec closes the connection on the sentinel, or it breaks.
ServerCloses ==
    /\ conn = "open" /\ op = "working"
    /\ conn' = "closed"
    /\ UNCHANGED <<op, idle, stop, ka, waited, failed>>

Next ==
    \/ StartKeepalive \/ WriteStdin \/ BodyEnds \/ CloseWebsocket
    \/ WaitTimesOut \/ WaitStopped \/ CheckOpen \/ SendFrame
    \/ Tick \/ IdleClose \/ ServerCloses

Spec == Init /\ [][Next]_vars

\* Threads run; operations end.
FairSpec ==
    /\ Spec
    /\ WF_vars(StartKeepalive) /\ WF_vars(BodyEnds) /\ WF_vars(CloseWebsocket)
    /\ WF_vars(WaitTimesOut \/ WaitStopped \/ CheckOpen \/ SendFrame)

-------------------------------------------------------------------------------
(* Properties                                                              *)

\* "Send periodic resize-channel frames to prevent idle timeout"
\* (_send_keepalive): however long the command stays silent, and however the
\* thread's wake-ups fall within their delay, the server never closes the
\* connection of an operation under way for being idle, unless a frame could not
\* be sent on it: the first such failure ends the thread for good.
KeptAlive == op = "working" /\ conn = "idleClosed" => failed

\* No keepalive thread outlives its operation for ever.
KeepaliveEnds == <>[](ka = "ended")

===============================================================================
