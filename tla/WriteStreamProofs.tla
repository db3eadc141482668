-------------------------- MODULE WriteStreamProofs ----------------------------
(***************************************************************************)
(* What WriteStream satisfies for data of any number of chunks and any     *)
(* number of attempts.                                                     *)
(***************************************************************************)
EXTENDS WriteStream, TLAPS

TypeOK ==
    /\ size \in Nat
    /\ pc \in {"connect", "writing", "runForever", "returncode", "backoff"} \cup Outcomes
    /\ attempt \in Attempts
    /\ sent \in [Attempts -> Nat]
    /\ conn \in [Attempts -> {"none", "open", "closed"}]
    /\ status \in {"none", "success", "exitCode"}
    /\ shell \in [Attempts -> {"none", "starting", "running", "failed", "exited"}]
    /\ stdin \in [Attempts -> BOOLEAN]
    /\ got \in [Attempts -> Nat]
    /\ file \in SUBSET (1..size)
    /\ late \in BOOLEAN

\* An attempt that has not connected has left no trace; nor has a later one.
Unconnected ==
    \A a \in Attempts : a > attempt \/ (a = attempt /\ pc = "connect") =>
        shell[a] = "none" /\ conn[a] = "none" /\ got[a] = 0 /\ sent[a] = 0

\* What a head has read was sent, and nothing more than the data is sent; one
\* that has not started has read nothing.
Amounts ==
    \A a \in Attempts :
        /\ got[a] <= sent[a] /\ sent[a] <= size
        /\ shell[a] \in {"none", "starting"} => got[a] = 0

\* As long as the connection is open nothing closes head's stdin (fd 3 holds the
\* pipe), so that a head which has ended there has counted to the size.
CountedWhileOpen ==
    conn[attempt] = "open" =>
        /\ stdin[attempt]
        /\ shell[attempt] # "none"
        /\ shell[attempt] = "exited" => got[attempt] = size

\* A success is reported for a head that has read everything; only then does
\* write_file() return, and another attempt is only made while one is left.
Reported ==
    /\ status = "success" =>
          conn[attempt] = "closed" /\ shell[attempt] = "exited" /\ got[attempt] = size
    /\ pc = "written" => status = "success"
    /\ pc = "connect" => status = "none"
    /\ pc = "backoff" => attempt < MaxAttempts

\* Unless a late shell has emptied the file it holds what the current head read,
\* whatever the heads of earlier attempts write into it.
FileHolds == ~late => 1..got[attempt] \subseteq file

WriteInv == TypeOK /\ Unconnected /\ Amounts /\ CountedWhileOpen /\ Reported /\ FileHolds

LEMMA WriteInit == Init => WriteInv
  <1> SUFFICES ASSUME Init PROVE WriteInv
    OBVIOUS
  <1>1. late \in BOOLEAN /\ stdin \in [Attempts -> BOOLEAN]
    BY Zenon DEF Init
  <1>2. TypeOK
    BY <1>1, WriteAssumption DEF Init, TypeOK, Attempts
  <1> QED
    BY <1>2, WriteAssumption
    DEF Init, WriteInv, TypeOK, Unconnected, Amounts, CountedWhileOpen, Reported, FileHolds,
      Attempts

\* A step of the worker thread other than connecting and the next attempt: only
\* where it is and what it has sent change.
WorkerOnly ==
    /\ UNCHANGED <<size, attempt, conn, status, podVars>>
    /\ pc # "connect" \/ (sent' = sent /\ pc' \in {"backoff", "raised"})
    /\ pc' # "connect"
    /\ pc' \in {"writing", "runForever", "returncode", "backoff"} \cup Outcomes
    /\ pc' = "written" => status = "success"
    /\ pc' = "backoff" => attempt < MaxAttempts
    /\ \/ sent' = sent
       \/ sent[attempt] < size /\ sent' = [sent EXCEPT ![attempt] = @ + 1]

LEMMA WorkerStep ==
  ASSUME TypeOK,
         ConnectFails \/ WriteChunk \/ WriteFails \/ AllWritten \/ RunForeverEnds \/ Conclude
  PROVE  WorkerOnly
  BY WriteAssumption
  DEF TypeOK, Attempts, ConnectFails, WriteChunk, WriteFails, AllWritten, RunForeverEnds,
    Conclude, WorkerOnly, AfterTransient, OutcomeOf, Outcomes, Reported

LEMMA WriteStep == WriteInv /\ [Next]_vars => WriteInv'
  <1> SUFFICES ASSUME WriteInv, [Next]_vars PROVE WriteInv'
    OBVIOUS
  <1> USE DEF WriteInv
  <1>0. attempt \in Nat /\ attempt \in Attempts /\ Attempts \subseteq Nat
    BY WriteAssumption DEF TypeOK, Attempts
  <1>1. CASE Connect
    <2>1. TypeOK'
      <3>1. late' \in BOOLEAN /\ stdin' \in [Attempts -> BOOLEAN]
        BY <1>1, Zenon DEF Connect, TypeOK
      <3> QED BY <1>1, <3>1 DEF Connect, TypeOK
    <2> QED
      BY <1>0, <1>1, <2>1
      DEF Connect, TypeOK, Unconnected, Amounts, CountedWhileOpen, Reported, FileHolds
  <1>2. CASE ConnectFails \/ WriteChunk \/ WriteFails \/ AllWritten \/ RunForeverEnds \/ Conclude
    <2>0. WorkerOnly
      BY <1>2, WorkerStep
    <2>1. UNCHANGED <<size, attempt, conn, status, shell, stdin, got, file, late>>
      BY <2>0 DEF WorkerOnly, podVars
    <2>2. \A a \in Attempts : sent'[a] \in Nat /\ sent[a] <= sent'[a] /\ sent'[a] <= size
      BY <2>0, <1>0 DEF WorkerOnly, TypeOK, Amounts
    <2>3. sent' \in [Attempts -> Nat]
      BY <2>0 DEF WorkerOnly, TypeOK
    <2>4. TypeOK'
      BY <2>0, <2>1, <2>3 DEF WorkerOnly, TypeOK
    <2>5. Unconnected'
      BY <2>0, <2>1, <1>0 DEF WorkerOnly, TypeOK, Unconnected
    <2>6. Amounts'
      BY <2>1, <2>2 DEF TypeOK, Amounts
    <2>7. CountedWhileOpen' /\ FileHolds'
      BY <2>1 DEF CountedWhileOpen, FileHolds
    <2>8. Reported'
      BY <2>0, <2>1 DEF WorkerOnly, Reported
    <2> QED BY <2>4, <2>5, <2>6, <2>7, <2>8
  <1>3. CASE NextAttempt
    <2>1. attempt' \in Attempts /\ attempt' > attempt /\ got'[attempt'] = 0
      BY <1>0, <1>3, WriteAssumption
      DEF NextAttempt, Reported, Attempts, Unconnected, podVars
    <2>2. TypeOK'
      BY <1>3, <2>1 DEF NextAttempt, TypeOK, podVars
    <2>3. conn'[attempt'] = "none"
      BY <1>0, <1>3, <2>1 DEF NextAttempt, TypeOK, Unconnected
    <2> QED
      BY <1>0, <1>3, <2>1, <2>2, <2>3
      DEF NextAttempt, TypeOK, Unconnected, Amounts, CountedWhileOpen, Reported, FileHolds,
        podVars
  <1>4. ASSUME NEW a \in Attempts, ShellStarts(a) PROVE WriteInv'
    <2>1. late' \in BOOLEAN
      BY <1>4, Zenon DEF ShellStarts
    <2>2. ~late' => a = attempt
      BY <1>4 DEF ShellStarts
    <2>3. TypeOK'
      BY <1>4, <2>1 DEF ShellStarts, TypeOK, clientVars
    <2>4. FileHolds'
      BY <1>0, <1>4, <2>2 DEF ShellStarts, FileHolds, Amounts, clientVars
    <2> QED
      BY <1>0, <1>4, <2>3, <2>4
      DEF ShellStarts, TypeOK, Unconnected, Amounts, CountedWhileOpen, Reported, clientVars
  <1>5. ASSUME NEW a \in Attempts, ShellFails(a) PROVE WriteInv'
    BY <1>0, <1>5
    DEF ShellFails, TypeOK, Unconnected, Amounts, CountedWhileOpen, Reported, FileHolds,
      clientVars
  <1>6. ASSUME NEW a \in Attempts, NeverStarts(a) PROVE WriteInv'
    BY <1>0, <1>6
    DEF NeverStarts, TypeOK, Unconnected, Amounts, CountedWhileOpen, Reported, FileHolds,
      clientVars
  <1>7. ASSUME NEW a \in Attempts, HeadReads(a) PROVE WriteInv'
    <2>1. got[a] \in Nat /\ sent[a] \in Nat /\ size \in Nat /\ got[a] + 1 <= size
      BY <1>7 DEF HeadReads, TypeOK, Amounts
    <2>2. TypeOK'
      <3>1. file' \in SUBSET (1..size)
        <4>1. got[a] + 1 \in 1..size
          BY <2>1
        <4>2. file' = file \cup {got[a] + 1} /\ file \in SUBSET (1..size)
          BY <1>7 DEF HeadReads, TypeOK
        <4> QED BY <4>1, <4>2, Zenon
      <3>2. got' \in [Attempts -> Nat]
        BY <1>7, <2>1 DEF HeadReads, TypeOK
      <3> QED BY <1>7, <3>1, <3>2 DEF HeadReads, TypeOK, clientVars
    <2>3. FileHolds'
      <3>1. UNCHANGED <<attempt, late>> /\ file' = file \cup {got[a] + 1}
        BY <1>7 DEF HeadReads, clientVars
      <3>2. got'[attempt] = IF a = attempt THEN got[a] + 1 ELSE got[attempt]
        BY <1>0, <1>7 DEF HeadReads, TypeOK
      <3>3. \A n \in Nat : 1..(n + 1) = 1..n \cup {n + 1}
        OBVIOUS
      <3> QED BY <2>1, <3>1, <3>2, <3>3 DEF FileHolds
    <2>4. Amounts'
      BY <1>7, <2>1 DEF HeadReads, TypeOK, Amounts, clientVars
    <2>5. Unconnected'
      BY <1>0, <1>7 DEF HeadReads, TypeOK, Unconnected, clientVars
    <2>6. CountedWhileOpen' /\ Reported'
      BY <1>0, <1>7 DEF HeadReads, TypeOK, CountedWhileOpen, Reported, clientVars
    <2> QED BY <2>2, <2>3, <2>4, <2>5, <2>6
  <1>8. ASSUME NEW a \in Attempts, StdinCloses(a) PROVE WriteInv'
    <2>1. stdin' \in [Attempts -> BOOLEAN]
      BY <1>8, Zenon DEF StdinCloses, TypeOK
    <2>2. conn[a] = "closed"
      BY <1>8 DEF StdinCloses, StdoutHeld
    <2>3. TypeOK'
      BY <1>8, <2>1 DEF StdinCloses, TypeOK, clientVars
    <2> QED
      BY <1>0, <1>8, <2>2, <2>3
      DEF StdinCloses, TypeOK, Unconnected, Amounts, CountedWhileOpen, Reported, FileHolds,
        clientVars
  <1>9. ASSUME NEW a \in Attempts, HeadExits(a) PROVE WriteInv'
    BY <1>0, <1>9
    DEF HeadExits, HeadEnds, TypeOK, Unconnected, Amounts, CountedWhileOpen, Reported,
      FileHolds, clientVars
  <1>10. CASE ServerReports
    BY <1>0, <1>10
    DEF ServerReports, TypeOK, Unconnected, Amounts, CountedWhileOpen, Reported, FileHolds,
      podVars
  <1>11. CASE ConnectionBreaks
    BY <1>0, <1>11
    DEF ConnectionBreaks, TypeOK, Unconnected, Amounts, CountedWhileOpen, Reported, FileHolds,
      podVars, clientVars
  <1>12. CASE UNCHANGED vars
    BY <1>12
    DEF vars, TypeOK, Unconnected, Amounts, CountedWhileOpen, Reported, FileHolds
  <1> QED
    BY <1>1, <1>2, <1>3, <1>4, <1>5, <1>6, <1>7, <1>8, <1>9, <1>10, <1>11, <1>12
    DEF Next, ClientStep, PodStep, Over

\* When write_file() has returned, the file holds all of the data, however many
\* attempts were made and whichever heads of earlier ones still write, unless an
\* earlier attempt's shell started late (write_file, _start_write_command).
THEOREM WrittenMeansCompleteHolds == Spec => []WrittenMeansComplete
  <1>1. WriteInv => WrittenMeansComplete
    BY DEF WriteInv, TypeOK, Reported, FileHolds, WrittenMeansComplete
  <1> QED
    BY WriteInit, WriteStep, <1>1, PTL DEF Spec

===============================================================================
