----------------------------- MODULE WriteStream ------------------------------
(***************************************************************************)
(* write_file: WriteFileOperation (_pod/write.py) over the chunked stdin   *)
(* and the websocket of _pod/op.py, and the retries around it.  The pod    *)
(* runs `exec 3>&1; mkdir -p D && head -c N > F`; stdin cannot be closed   *)
(* by the client (v4.channel.k8s.io), so head must end by counting.        *)
(*                                                                         *)
(* Every attempt is a connection and a shell of its own.  A connection may *)
(* break at any time, and the shell it started may live on, or start late. *)
(***************************************************************************)
EXTENDS Integers, FiniteSets

CONSTANTS
    MaxChunks,    \* bound: stdin frames of _STDIN_CHUNK_SIZE in the data
    MaxAttempts   \* stop_after_attempt

ASSUME WriteAssumption ==
    /\ MaxChunks \in Nat
    /\ MaxAttempts \in Nat \ {0}

Attempts == 1..MaxAttempts

VARIABLES
    size,     \* chunks of the data
    pc,       \* where the worker thread, or the retry loop, is
    attempt,  \* current attempt
    sent,     \* chunks written to each attempt's connection
    conn,     \* each attempt's connection, as the server sees it
    status,   \* what the current connection's error channel holds
    shell,    \* each attempt's process in the pod
    stdin,    \* TRUE while the process's stdin is open
    got,      \* chunks each head has read from stdin and written
    file,     \* chunks the file in the pod holds
    late      \* history: a shell started after its attempt had been given up

vars == <<size, pc, attempt, sent, conn, status, shell, stdin, got, file, late>>

Outcomes == {"written", "raised"}

Init ==
    /\ size \in 0..MaxChunks
    /\ pc = "connect"
    /\ attempt = 1
    /\ sent = [a \in Attempts |-> 0]
    /\ conn = [a \in Attempts |-> "none"]
    /\ status = "none"
    /\ shell = [a \in Attempts |-> "none"]
    /\ stdin = [a \in Attempts |-> FALSE]
    /\ got = [a \in Attempts |-> 0]
    /\ file = {}
    /\ late = FALSE

podVars == <<shell, stdin, got, file, late>>
clientVars == <<size, pc, attempt, sent, status>>

-------------------------------------------------------------------------------
(* The worker thread                                                       *)

\* A transient error: another attempt, or the last one's error is re-raised.
AfterTransient == IF attempt < MaxAttempts THEN "backoff" ELSE "raised"

\* stream() opens the connection; the container runtime is to start the shell.
Connect ==
    /\ pc = "connect"
    /\ pc' = "writing"
    /\ conn' = [conn EXCEPT ![attempt] = "open"]
    /\ shell' = [shell EXCEPT ![attempt] = "starting"]
    /\ stdin' = [stdin EXCEPT ![attempt] = TRUE]
    /\ UNCHANGED <<size, attempt, sent, status, got, file, late>>

\* stream() raises ApiException.
ConnectFails ==
    /\ pc = "connect"
    /\ pc' = AfterTransient
    /\ UNCHANGED <<size, attempt, sent, conn, status, podVars>>

\* _write_stdin_chunked: one frame after the other, none for empty data.  The
\* client may not know yet that the connection is over.
WriteChunk ==
    /\ pc = "writing"
    /\ sent[attempt] < size
    /\ sent' = [sent EXCEPT ![attempt] = @ + 1]
    /\ UNCHANGED <<size, pc, attempt, conn, status, podVars>>

\* Writing to a connection that is over raises (OSError).
WriteFails ==
    /\ pc = "writing"
    /\ sent[attempt] < size
    /\ conn[attempt] = "closed"
    /\ pc' = AfterTransient
    /\ UNCHANGED <<size, attempt, sent, conn, status, podVars>>

AllWritten ==
    /\ pc = "writing"
    /\ sent[attempt] = size
    /\ pc' = "runForever"
    /\ UNCHANGED <<size, attempt, sent, conn, status, podVars>>

\* run_forever returns when the connection is closed, or raises on a reset.
RunForeverEnds ==
    /\ pc = "runForever"
    /\ conn[attempt] = "closed"
    /\ pc' \in IF status = "none" THEN {"returncode", AfterTransient} ELSE {"returncode"}
    /\ UNCHANGED <<size, attempt, sent, conn, status, podVars>>

\* get_returncode and what follows: an empty error channel raises
\* GetReturncodeError (transient), a failed command a known error (permanent) or
\* PodError (transient).
OutcomeOf(st) ==
    IF st = "success" THEN {"written"}
    ELSE IF st = "none" THEN {AfterTransient} ELSE {"raised", AfterTransient}

Conclude ==
    /\ pc = "returncode"
    /\ pc' \in OutcomeOf(status)
    /\ UNCHANGED <<size, attempt, sent, conn, status, podVars>>

\* `finally` has closed the old connection; the next attempt begins.
NextAttempt ==
    /\ pc = "backoff"
    /\ pc' = "connect"
    /\ attempt' = attempt + 1
    /\ status' = "none"
    /\ conn' = [conn EXCEPT ![attempt] = "closed"]
    /\ UNCHANGED <<size, sent, podVars>>

-------------------------------------------------------------------------------
(* The pod (external): shell and head, with what the command makes of them *)

\* The shell runs: the directory is made and the redirect empties the file.
ShellStarts(a) ==
    /\ shell[a] = "starting"
    /\ shell' = [shell EXCEPT ![a] = "running"]
    /\ file' = {}
    /\ late' = (late \/ a # attempt)
    /\ UNCHANGED <<clientVars, conn, stdin, got>>

\* The command fails: no permission, a directory in the way, a full disk.
ShellFails(a) ==
    /\ shell[a] \in {"starting", "running"}
    /\ shell' = [shell EXCEPT ![a] = "failed"]
    /\ UNCHANGED <<clientVars, conn, stdin, got, file, late>>

\* A shell whose connection is gone before it has started need not start at all.
NeverStarts(a) ==
    /\ shell[a] = "starting"
    /\ conn[a] = "closed"
    /\ shell' = [shell EXCEPT ![a] = "exited"]
    /\ UNCHANGED <<clientVars, conn, stdin, got, file, late>>

\* Data that was on its way when the connection ended may still arrive.
HeadReads(a) ==
    /\ shell[a] = "running"
    /\ stdin[a]
    /\ got[a] < sent[a]
    /\ got' = [got EXCEPT ![a] = @ + 1]
    /\ file' = file \cup {got[a] + 1}
    /\ UNCHANGED <<clientVars, conn, shell, stdin, late>>

\* BUG: without `exec 3>&1` nothing holds the exec's stdout open.
NotHeld(a) == FALSE

\* fd 3 keeps the stdout pipe open for as long as head runs.
StdoutHeld(a) == shell[a] \in {"starting", "running"}

\* The runtime closes stdin when the exec's stdout is at end of file, or with
\* the connection.
StdinCloses(a) ==
    /\ shell[a] = "running"
    /\ stdin[a]
    /\ ~StdoutHeld(a) \/ conn[a] = "closed"
    /\ stdin' = [stdin EXCEPT ![a] = FALSE]
    /\ UNCHANGED <<clientVars, conn, shell, got, file, late>>

\* BUG: `cat`, which only ends with its input.
CatEnds(a) == ~stdin[a]

\* head -c N: N bytes, or the end of its input.
HeadEnds(a) == got[a] = size \/ ~stdin[a]

\* head exits 0, also when its input ended early.
HeadExits(a) ==
    /\ shell[a] = "running"
    /\ HeadEnds(a)
    /\ shell' = [shell EXCEPT ![a] = "exited"]
    /\ UNCHANGED <<clientVars, conn, stdin, got, file, late>>

\* The process is gone: the server sends its status and closes.
ServerReports ==
    /\ conn[attempt] = "open"
    /\ shell[attempt] \in {"exited", "failed"}
    /\ status' = IF shell[attempt] = "exited" THEN "success" ELSE "exitCode"
    /\ conn' = [conn EXCEPT ![attempt] = "closed"]
    /\ UNCHANGED <<size, pc, attempt, sent, podVars>>

\* The connection breaks without a status.
ConnectionBreaks ==
    /\ conn[attempt] = "open"
    /\ conn' = [conn EXCEPT ![attempt] = "closed"]
    /\ UNCHANGED <<clientVars, podVars>>

-------------------------------------------------------------------------------
ClientStep ==
    \/ Connect \/ ConnectFails \/ WriteChunk \/ WriteFails \/ AllWritten
    \/ RunForeverEnds \/ Conclude \/ NextAttempt

PodStep(a) ==
    \/ ShellStarts(a) \/ NeverStarts(a) \/ HeadReads(a) \/ StdinCloses(a) \/ HeadExits(a)

Over == pc \in Outcomes /\ UNCHANGED vars

Next ==
    \/ ClientStep
    \/ \E a \in Attempts : PodStep(a) \/ ShellFails(a)
    \/ ServerReports \/ ConnectionBreaks
    \/ Over

Spec == Init /\ [][Next]_vars

\* The worker thread and the pod's processes run, and the server reports the end
\* of a process.  Nothing need ever break.
FairSpec ==
    /\ Spec
    /\ WF_vars(ClientStep)
    /\ WF_vars(ServerReports)
    /\ \A a \in Attempts : WF_vars(PodStep(a))

-------------------------------------------------------------------------------
(* Properties                                                              *)

\* "Fix write_file() silently writing a truncated or empty file while reporting
\* success" (CHANGELOG): when write_file() has returned, and for as long as
\* nothing else happens to the file, it holds all of the data.  Connections that
\* break in the middle, and heads of earlier attempts that are still writing,
\* included; excepted is a shell of an earlier attempt that starts late, since
\* it empties the file whenever that is.
WrittenMeansComplete == pc = "written" /\ ~late => file = 1..size

\* "... we have no way of closing the stdin stream (which means the websocket
\* connection would never close)" (_start_write_command): head counts, so that
\* every write_file() comes to an end.
WriteEnds == <>(pc \in Outcomes)

===============================================================================
