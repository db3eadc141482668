------------------------------- MODULE OpStream -------------------------------
(***************************************************************************)
(* The client end of one websocket connection to a pod: the loops of       *)
(* ExecuteOperation._handle_shell_output and                               *)
(* ReadFileOperation._handle_stream_output over the kubernetes WSClient,   *)
(* LimitedBuffer and get_returncode.                                       *)
(*                                                                         *)
(* The server end (external) runs the command: it sends output frames on   *)
(* two channels, for exec the sentinel with the exit code on stdout, and   *)
(* at the very end a status frame and the close.  Background processes of  *)
(* the command may keep the connection open, and write to it, after the    *)
(* sentinel.  The connection may break at any time.                        *)
(***************************************************************************)
EXTENDS Integers, Sequences

CONSTANTS
    Limit,      \* MAX_EXEC_OUTPUT_SIZE / MAX_READ_FILE_SIZE, in data units
    MaxData,    \* bound: data units the command writes
    Codes       \* exit codes of the command

ASSUME StreamAssumption ==
    /\ Limit \in Nat
    /\ MaxData \in Nat
    /\ Codes \subseteq Nat /\ 0 \in Codes

VARIABLES
    op,          \* "exec" or "read"
    exit,        \* exit code of the command
    timeout,     \* exec was given a timeout
    user,        \* exec was given a user
    srv,         \* server: "command", "lingering" (sentinel sent), "exited", "closed"
    wire,        \* frames that have reached the client's socket
    sent,        \* history: data and sentinel frames in the order sent
    pc,          \* where the client's loop is, or how the operation ended
    connected,   \* WSClient._connected (is_open())
    buf,         \* WSClient._channels
    stdout,      \* LimitedBuffer of exec, or dst of read_file
    stderr,      \* LimitedBuffer
    truncated,   \* stdout.truncated or stderr.truncated
    returncode,  \* local `returncode` of stream_output, NoCode for None
    closeRaised  \* ws_client.close() raised after the sentinel

vars == <<op, exit, timeout, user, srv, wire, sent, pc, connected, buf, stdout,
          stderr, truncated, returncode, closeRaised>>

serverVars == <<srv, sent>>
givenVars == <<op, exit, timeout, user>>

-------------------------------------------------------------------------------
NoCode == -1

Data(ch, n) == [ch |-> ch, kind |-> "data", n |-> n]
Sentinel == [ch |-> "out", kind |-> "sentinel", n |-> exit]
Status(k) == [ch |-> "status", kind |-> k, n |-> exit]
Close == [ch |-> "control", kind |-> "close", n |-> 0]
Reset == [ch |-> "control", kind |-> "reset", n |-> 0]

Channels == {"out", "err", "status"}

\* How an operation ends: "result" is an ExecResult or a complete file.
Results == {"result", "timeout", "permission", "runuser", "fileError"}
Done == Results \cup {"limit", "connectionLost", "noReturncode", "noExecutable"}
PC == {"write", "loop", "update", "peekErr", "peekOut", "returncode"} \cup Done

Init ==
    /\ op \in {"exec", "read"}
    /\ exit \in Codes
    /\ timeout \in BOOLEAN
    /\ user \in BOOLEAN
    /\ srv = "command"
    /\ wire = << >>
    /\ sent = << >>
    /\ pc = "write"
    /\ connected = TRUE
    /\ buf = [ch \in Channels |-> << >>]
    /\ stdout = << >>
    /\ stderr = << >>
    /\ truncated = FALSE
    /\ returncode = NoCode
    /\ closeRaised = FALSE

-------------------------------------------------------------------------------
(* The server end and the network (external)                               *)

clientVars == <<pc, connected, buf, stdout, stderr, truncated, returncode, closeRaised>>

SendData(ch) ==
    /\ srv \in {"command", "lingering"}
    /\ Len(sent) < MaxData
    /\ wire' = Append(wire, Data(ch, Len(sent) + 1))
    /\ sent' = Append(sent, Data(ch, Len(sent) + 1))
    /\ UNCHANGED <<givenVars, srv, clientVars>>

\* The shell script's last echo, in a frame of its own.
SendSentinel ==
    /\ op = "exec" /\ srv = "command"
    /\ srv' = "lingering"
    /\ wire' = Append(wire, Sentinel)
    /\ sent' = Append(sent, Sentinel)
    /\ UNCHANGED <<givenVars, clientVars>>

\* The process has exited and nothing holds its streams.  A shell that ends
\* before the sentinel (a failed `cd`) does so with a non-zero code; the
\* executable may not have been found, or the status say nothing of a code.
SendStatus ==
    /\ \/ srv = "lingering"
       \/ srv = "command" /\ (op = "exec" => exit # 0)
    /\ \E k \in {"exitCode", "noExecutable", "unknown"} :
          /\ k # "exitCode" => sent = << >>
          /\ wire' = Append(wire, Status(k))
    /\ srv' = "exited"
    /\ UNCHANGED <<givenVars, sent, clientVars>>

\* The normal end, or the pod going away without a status.
CloseConnection ==
    /\ srv # "closed"
    /\ srv' = "closed"
    /\ wire' = Append(wire, Close)
    /\ UNCHANGED <<givenVars, sent, clientVars>>

\* The connection breaks; frames that have arrived may still be readable.
ResetConnection ==
    /\ srv # "closed"
    /\ srv' = "closed"
    /\ \E readable \in {wire, << >>} : wire' = Append(readable, Reset)
    /\ UNCHANGED <<givenVars, sent, clientVars>>

-------------------------------------------------------------------------------
(* WSClient (external): update() takes at most one frame off the socket    *)

Readable == connected /\ wire # << >>
Broken == Readable /\ Head(wire) = Reset

WireAfter == IF Readable THEN Tail(wire) ELSE wire
ConnectedAfter == connected /\ ~(Readable /\ Head(wire) = Close)
BufAfter ==
    IF Readable /\ Head(wire).ch \in Channels
    THEN [buf EXCEPT ![Head(wire).ch] = Append(@, Head(wire))]
    ELSE buf

-------------------------------------------------------------------------------
(* LimitedBuffer                                                           *)

\* BUG: append() takes everything.
RoomUnlimited(b, data) == data

\* The part of data that append() still takes.
Room(b, data) ==
    LET remaining == Limit - Len(b)
    IN  SubSeq(data, 1, IF Len(data) < remaining THEN Len(data) ELSE remaining)

AppendLimited(b, data) == b \o Room(b, data)
Overflows(b, data) == Len(data) > Limit - Len(b)

-------------------------------------------------------------------------------
(* The client                                                              *)

\* _write_stdin_chunked (exec): the shell script goes to stdin.  Writing to a
\* connection that is over may raise, which nothing catches there.
WriteStdin ==
    /\ pc = "write"
    /\ \/ pc' = "loop"
       \/ op = "exec" /\ srv = "closed" /\ pc' = "connectionLost"
    /\ UNCHANGED <<givenVars, serverVars, wire, connected, buf, stdout, stderr,
                   truncated, returncode, closeRaised>>

\* while ws_client.is_open()
LoopTest ==
    /\ pc = "loop"
    /\ pc' = IF connected THEN "update" ELSE "returncode"
    /\ UNCHANGED <<givenVars, serverVars, wire, connected, buf, stdout, stderr,
                   truncated, returncode, closeRaised>>

\* BUG: stdout is handled before stderr.
FirstPeekOut == "peekOut"

\* exec handles stdout after stderr, read_file before.
FirstPeek == IF op = "exec" THEN "peekErr" ELSE "peekOut"

\* What follows the handling of the channel peeked at p.
AfterPeek(p) == IF p = FirstPeek THEN (IF p = "peekErr" THEN "peekOut" ELSE "peekErr")
                                 ELSE "loop"

\* update(timeout=None) blocks until a frame can be read.
BlockingUpdate ==
    /\ pc = "update"
    /\ Readable /\ ~Broken
    /\ wire' = WireAfter
    /\ connected' = ConnectedAfter
    /\ buf' = BufAfter
    /\ pc' = FirstPeek
    /\ UNCHANGED <<givenVars, serverVars, stdout, stderr, truncated, returncode,
                   closeRaised>>

\* BrokenPipeError / ConnectionResetError out of an update(): PodError for exec,
\* the error itself for read_file.  Both are transient.
ConnectionLost ==
    /\ pc \in {"update", "peekErr", "peekOut"}
    /\ Broken
    /\ pc' = "connectionLost"
    /\ UNCHANGED <<givenVars, serverVars, wire, connected, buf, stdout, stderr,
                   truncated, returncode, closeRaised>>

\* peek_stderr (with its update(0)) and read_stderr.
HandleStderr ==
    /\ pc = "peekErr" /\ ~Broken
    /\ LET got == BufAfter["err"]
       IN  /\ stderr' = AppendLimited(stderr, got)
           /\ truncated' = (truncated \/ Overflows(stderr, got))
    /\ wire' = WireAfter
    /\ connected' = ConnectedAfter
    /\ buf' = [BufAfter EXCEPT !["err"] = << >>]
    /\ pc' = AfterPeek("peekErr")
    /\ UNCHANGED <<givenVars, serverVars, stdout, returncode, closeRaised>>

\* _filter_sentinel_and_returncode splits what has been read at the sentinel: what
\* comes before and after it, and the code it carries.
HasSentinel(frame) == \E i \in 1..Len(frame) : frame[i].kind = "sentinel"
SentinelAt(frame) == CHOOSE i \in 1..Len(frame) : frame[i].kind = "sentinel"
Filtered(frame) ==
    IF HasSentinel(frame)
    THEN SubSeq(frame, 1, SentinelAt(frame) - 1)
            \o SubSeq(frame, SentinelAt(frame) + 1, Len(frame))
    ELSE frame

\* BUG: the wrong part of the split is taken for the code.
CodeOfFirstPart(frame) == frame[1].n

CodeOf(frame) == frame[SentinelAt(frame)].n

\* BUG: an output over the limit is returned as if it were complete.
LimitNeverVerified(over) == FALSE

\* _verify_output_limit raises OutputLimitExceededError.
LimitExceeded(over) == over

\* exec: peek_stdout, read_stdout, sentinel, close, limit.  When close() raises,
\* the result is already known and the loop is left without checking the limit.
ExecStdout ==
    /\ op = "exec" /\ pc = "peekOut" /\ ~Broken
    /\ LET got == BufAfter["out"]
           over == truncated \/ Overflows(stdout, Filtered(got))
       IN  /\ stdout' = AppendLimited(stdout, Filtered(got))
           /\ truncated' = over
           /\ IF HasSentinel(got)
              THEN /\ returncode' = CodeOf(got)
                   /\ connected' = FALSE
                   /\ closeRaised' \in BOOLEAN
              ELSE /\ connected' = ConnectedAfter
                   /\ UNCHANGED <<returncode, closeRaised>>
           /\ pc' = IF closeRaised' THEN "returncode"
                    ELSE IF LimitExceeded(over) THEN "limit" ELSE AfterPeek("peekOut")
    /\ wire' = WireAfter
    /\ buf' = [BufAfter EXCEPT !["out"] = << >>]
    /\ UNCHANGED <<givenVars, serverVars, stderr>>

\* read_file: what has arrived is written to dst, then the limit is verified.
ReadStdout ==
    /\ op = "read" /\ pc = "peekOut" /\ ~Broken
    /\ stdout' = stdout \o BufAfter["out"]
    /\ pc' = IF LimitExceeded(Len(stdout') > Limit) THEN "limit" ELSE AfterPeek("peekOut")
    /\ wire' = WireAfter
    /\ connected' = ConnectedAfter
    /\ buf' = [BufAfter EXCEPT !["out"] = << >>]
    /\ UNCHANGED <<givenVars, serverVars, stderr, truncated, returncode, closeRaised>>

\* BUG: an empty error channel counts as success.
GetReturncodeLenient ==
    IF buf["status"] = << >> THEN 0
    ELSE IF buf["status"][1].kind = "exitCode" THEN buf["status"][1].n ELSE NoCode

\* get_returncode on the error channel; NoCode when it raises.
GetReturncode ==
    IF buf["status"] = << >> THEN NoCode
    ELSE IF buf["status"][1].kind = "exitCode" THEN buf["status"][1].n ELSE NoCode

\* How a return code is turned into an outcome.  Some depend on what stderr says.
OutcomesOf(code) ==
    IF op = "read" THEN IF code = 0 THEN {"result"} ELSE {"fileError"}
    ELSE IF timeout /\ code = 124 THEN {"timeout"}
    ELSE {"result"} \cup (IF code = 126 THEN {"permission"} ELSE {})
            \cup (IF code # 0 /\ user /\ returncode = NoCode THEN {"runuser"} ELSE {})

Conclude ==
    /\ pc = "returncode"
    /\ LET code == IF returncode # NoCode THEN returncode ELSE GetReturncode
       IN  pc' \in IF code # NoCode THEN OutcomesOf(code)
                   ELSE IF buf["status"] # << >> /\ buf["status"][1].kind = "noExecutable"
                        THEN {"noExecutable"} ELSE {"noReturncode"}
    /\ UNCHANGED <<givenVars, serverVars, wire, connected, buf, stdout, stderr,
                   truncated, returncode, closeRaised>>

Finished == pc \in Done /\ UNCHANGED vars

ServerStep ==
    \/ \E ch \in {"out", "err"} : SendData(ch)
    \/ SendSentinel \/ SendStatus \/ CloseConnection \/ ResetConnection

ClientStep ==
    \/ WriteStdin \/ LoopTest \/ BlockingUpdate \/ ConnectionLost
    \/ HandleStderr \/ ExecStdout \/ ReadStdout \/ Conclude

Next == (pc \notin Done /\ ServerStep) \/ ClientStep \/ Finished

Spec == Init /\ [][Next]_vars

\* The worker thread runs whenever it is not blocked in update(None).  The
\* server owes the client nothing.
FairSpec == Spec /\ WF_vars(ClientStep)

-------------------------------------------------------------------------------
(* Properties                                                              *)

Frames ==
    [ch : {"out", "err"}, kind : {"data"}, n : Nat]
        \cup [ch : {"out"}, kind : {"sentinel"}, n : Codes]
        \cup [ch : {"status"}, kind : {"exitCode", "noExecutable", "unknown"}, n : Codes]
        \cup {Close, Reset}

\* Types; the exit code of a result is one that the command can have.
TypeOK ==
    /\ op \in {"exec", "read"}
    /\ exit \in Codes
    /\ timeout \in BOOLEAN /\ user \in BOOLEAN
    /\ srv \in {"command", "lingering", "exited", "closed"}
    /\ wire \in Seq(Frames)
    /\ sent \in Seq(Frames)
    /\ pc \in PC
    /\ connected \in BOOLEAN
    /\ buf \in [Channels -> Seq(Frames)]
    /\ stdout \in Seq(Frames)
    /\ stderr \in Seq(Frames)
    /\ truncated \in BOOLEAN
    /\ returncode \in Codes \cup {NoCode}
    /\ closeRaised \in BOOLEAN

\* A LimitedBuffer never grows past its limit.
BuffersLimited ==
    /\ Len(stderr) <= Limit
    /\ op = "exec" => Len(stdout) <= Limit

\* exec is never about to block in update(None) with the sentinel already in
\* WSClient's buffer: with a silent background process holding the connection
\* open it would wait for ever ("Handle stdout _after_ stderr to guarantee ...").
NeverBlocksOnSentinel == op = "exec" /\ pc = "update" => ~HasSentinel(buf["out"])

\* A frame of data on channel ch, and the frames that a sequence holds.
IsData(f, ch) == f.kind = "data" /\ f.ch = ch
Holds(frames, f) == \E j \in 1..Len(frames) : frames[j] = f

\* Data frames carry their place in the stream, so that each of them is told apart.
\* got is, in order and without a gap, what was written to channel ch.
PrefixOf(written, got, ch) ==
    /\ \A j \in 1..Len(got) : IsData(got[j], ch) /\ Holds(written, got[j])
    /\ \A j, k \in 1..Len(got) : j < k => got[j].n < got[k].n
    /\ \A i \in 1..Len(written), j \in 1..Len(got) :
          IsData(written[i], ch) /\ written[i].n < got[j].n => Holds(got, written[i])

\* got holds what was written to channel ch before the sentinel, or all of it.
HoldsUpToSentinel(written, got, ch) ==
    \A i \in 1..Len(written) :
        IsData(written[i], ch) /\ (\A k \in 1..i : written[k].kind # "sentinel")
            => Holds(got, written[i])

\* A result holds, per channel and in order, everything the command wrote before
\* the sentinel (before its end, if there is no sentinel), and nothing that it
\* did not write: frames that a peek buffered on the way are not lost, and an
\* output over the limit is not returned.
OutputComplete ==
    pc = "result" /\ ~closeRaised =>
        /\ PrefixOf(sent, stdout, "out") /\ HoldsUpToSentinel(sent, stdout, "out")
        /\ op = "exec" => /\ PrefixOf(sent, stderr, "err")
                          /\ HoldsUpToSentinel(sent, stderr, "err")

\* An operation only comes to a result once the command has really ended: the
\* connection closing early, or breaking, is never taken for an exit.
ResultMeansCommandEnded ==
    pc \in Results => HasSentinel(sent) \/ buf["status"] # << >>

\* Once the sentinel has been sent, or the connection is over, the operation
\* ends, whatever the server does from then on.
EndsAfterCommand ==
    (HasSentinel(sent) \/ srv = "closed") ~> pc \in Done

-------------------------------------------------------------------------------
(* The inductive invariant                                                 *)

\* The client learns of a sentinel from the server only.
SentinelOnlyIfSent ==
    HasSentinel(wire) \/ HasSentinel(buf["out"]) \/ returncode # NoCode => HasSentinel(sent)

\* Every round of exec's loop ends with stdout read, and nothing is taken off the
\* socket before the next blocking update.
StdoutDrained ==
    op = "exec" /\ pc \in {"write", "loop", "update"} => buf["out"] = << >>

StreamInv ==
    /\ TypeOK
    /\ BuffersLimited
    /\ SentinelOnlyIfSent
    /\ StdoutDrained
    /\ ResultMeansCommandEnded

===============================================================================
