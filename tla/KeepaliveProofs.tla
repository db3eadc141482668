--------------------------- MODULE KeepaliveProofs -----------------------------
(***************************************************************************)
(* What Keepalive satisfies for every interval, idle timeout and delay     *)
(* with Interval + MaxDelay < IdleTimeout.                                 *)
(***************************************************************************)
EXTENDS Keepalive, TLAPS

Running == ka \in {"waiting", "awake", "send"}

TypeOK ==
    /\ op \in {"open", "working", "closing", "ended"}
    /\ conn \in {"open", "closed", "idleClosed"}
    /\ idle \in 0..IdleTimeout
    /\ stop \in BOOLEAN
    /\ ka \in {"none", "waiting", "awake", "send", "ended"}
    /\ waited \in 0..(Interval + MaxDelay)
    /\ failed \in BOOLEAN

\* Before keepalive.start() no time has passed on the connection and nothing stops.
BeforeStart == op = "open" => conn = "open" /\ idle = 0 /\ ka = "none" /\ ~stop

\* While the body runs on an open connection the thread runs too, unless a frame
\* has failed on it, and the server has been without a frame no longer than the
\* thread has been in its round:
\* SendFrame resets both, WriteStdin the first, and waited is bounded by the delay.
WhileWorking ==
    op = "working" =>
        /\ ~stop
        /\ conn = "idleClosed" => failed
        /\ conn = "open" => failed \/ (Running /\ idle <= waited)

KeepaliveInv == TypeOK /\ BeforeStart /\ WhileWorking

LEMMA KeepaliveInit == Init => KeepaliveInv
  <1> SUFFICES ASSUME Init PROVE KeepaliveInv
    OBVIOUS
  <1>1. stop \in BOOLEAN /\ failed \in BOOLEAN
    BY Zenon DEF Init
  <1> QED
    BY <1>1, KeepaliveAssumption DEF Init, KeepaliveInv, TypeOK, BeforeStart, WhileWorking

LEMMA KeepaliveStep == KeepaliveInv /\ [Next]_vars => KeepaliveInv'
  <1> SUFFICES ASSUME KeepaliveInv, [Next]_vars PROVE KeepaliveInv'
    OBVIOUS
  <1>0. stop' \in BOOLEAN /\ failed' \in BOOLEAN
    BY Zenon DEF KeepaliveInv, TypeOK, Next, vars, StartKeepalive, WriteStdin, BodyEnds,
      CloseWebsocket, WaitTimesOut, WaitStopped, CheckOpen, SendFrame, FrameSent, FrameFails,
      Tick, IdleClose, ServerCloses
  <1> USE <1>0, KeepaliveAssumption
      DEF KeepaliveInv, TypeOK, BeforeStart, WhileWorking, Running
  <1>1. CASE StartKeepalive
    BY <1>1 DEF StartKeepalive
  <1>2. CASE WriteStdin
    BY <1>2 DEF WriteStdin
  <1>3. CASE BodyEnds
    BY <1>3 DEF BodyEnds
  <1>4. CASE CloseWebsocket
    BY <1>4 DEF CloseWebsocket
  <1>5. CASE WaitTimesOut
    BY <1>5 DEF WaitTimesOut
  <1>6. CASE WaitStopped
    BY <1>6 DEF WaitStopped
  <1>7. CASE CheckOpen
    BY <1>7 DEF CheckOpen
  <1>8. CASE SendFrame
    BY <1>8 DEF SendFrame, FrameSent, FrameFails, IdleAfterFrame, BailOut
  <1>9. CASE Tick
    BY <1>9 DEF Tick
  <1>10. CASE IdleClose
    BY <1>10 DEF IdleClose
  <1>11. CASE ServerCloses
    BY <1>11 DEF ServerCloses
  <1>12. CASE UNCHANGED vars
    BY <1>12 DEF vars
  <1> QED
    BY <1>1, <1>2, <1>3, <1>4, <1>5, <1>6, <1>7, <1>8, <1>9, <1>10, <1>11, <1>12 DEF Next

\* The connection of an operation under way is closed for being idle only after a
\* keepalive frame has failed on it, whatever the interval, the idle timeout and
\* the lateness of the thread, as long as the first and the last together stay
\* under the timeout (_send_keepalive).
THEOREM KeptAliveHolds == Spec => []KeptAlive
  <1>1. KeepaliveInv => KeptAlive
    BY DEF KeepaliveInv, WhileWorking, KeptAlive
  <1> QED
    BY KeepaliveInit, KeepaliveStep, <1>1, PTL DEF Spec

===============================================================================
