---------------------------- MODULE OpStreamProofs ----------------------------
(***************************************************************************)
(* Proofs about OpStream, for every limit, every number of frames and any  *)
(* exit codes.                                                             *)
(***************************************************************************)
EXTENDS OpStream, SequenceTheorems, TLAPS

LEMMA StepCases ==
    ASSUME [Next]_vars
    PROVE  \/ \E ch \in {"out", "err"} : SendData(ch)
           \/ SendSentinel \/ SendStatus \/ CloseConnection \/ ResetConnection
           \/ WriteStdin \/ LoopTest \/ BlockingUpdate \/ ConnectionLost
           \/ HandleStderr \/ ExecStdout \/ ReadStdout \/ Conclude
           \/ UNCHANGED vars
BY DEF Next, ServerStep, ClientStep, Finished

-------------------------------------------------------------------------------
(* Frames and sentinels                                                    *)

LEMMA FrameTypes ==
    ASSUME exit \in Codes
    PROVE  /\ \A ch \in {"out", "err"}, n \in Nat : Data(ch, n) \in Frames
           /\ Sentinel \in Frames
           /\ \A k \in {"exitCode", "noExecutable", "unknown"} : Status(k) \in Frames
           /\ Close \in Frames /\ Reset \in Frames
BY DEF Frames, Data, Sentinel, Status, Close, Reset

LEMMA SentinelAppend ==
    ASSUME NEW s \in Seq(Frames), NEW f \in Frames
    PROVE  /\ HasSentinel(s) => HasSentinel(Append(s, f))
           /\ HasSentinel(Append(s, f)) => HasSentinel(s) \/ f.kind = "sentinel"
           /\ f.kind = "sentinel" => HasSentinel(Append(s, f))
BY AppendProperties DEF HasSentinel

LEMMA SentinelHeadTail ==
    ASSUME NEW s \in Seq(Frames), s # << >>
    PROVE  /\ Head(s) \in Frames /\ Tail(s) \in Seq(Frames)
           /\ Head(s).kind = "sentinel" => HasSentinel(s)
           /\ HasSentinel(Tail(s)) => HasSentinel(s)
  <1>1. Head(s) \in Frames /\ Tail(s) \in Seq(Frames)
    BY HeadTailProperties
  <1>2. Head(s).kind = "sentinel" => HasSentinel(s)
    BY DEF HasSentinel
  <1>3. ASSUME NEW i \in 1..Len(Tail(s)), Tail(s)[i].kind = "sentinel"
        PROVE  HasSentinel(s)
    <2>1. i + 1 \in 1..Len(s) /\ s[i + 1].kind = "sentinel"
      BY <1>3, HeadTailProperties, LenProperties
    <2> QED BY <2>1 DEF HasSentinel
  <1> QED BY <1>1, <1>2, <1>3 DEF HasSentinel

LEMMA SentinelFacts ==
    ASSUME NEW s \in Seq(Frames), HasSentinel(s)
    PROVE  SentinelAt(s) \in 1..Len(s) /\ CodeOf(s) \in Codes
  <1>1. SentinelAt(s) \in 1..Len(s) /\ s[SentinelAt(s)].kind = "sentinel"
    BY DEF SentinelAt, HasSentinel
  <1>2. s[SentinelAt(s)] \in Frames
    BY <1>1, ElementOfSeq
  <1> QED BY <1>1, <1>2 DEF CodeOf, Frames, Close, Reset

LEMMA FilteredType ==
    ASSUME NEW s \in Seq(Frames)
    PROVE  Filtered(s) \in Seq(Frames)
  <1>1. CASE HasSentinel(s)
    <2> DEFINE i == SentinelAt(s)
    <2>1. i \in 1..Len(s) /\ Len(s) \in Nat
      BY <1>1, SentinelFacts, LenProperties
    <2>2. \A j \in 1..Len(s) : s[j] \in Frames
      BY ElementOfSeq
    <2> HIDE DEF i
    <2>3. SubSeq(s, 1, i - 1) \in Seq(Frames)
      BY <2>1, <2>2, SubSeqProperties
    <2>4. SubSeq(s, i + 1, Len(s)) \in Seq(Frames)
      BY <2>1, <2>2, SubSeqProperties
    <2> QED BY <1>1, <2>3, <2>4, ConcatProperties DEF Filtered, i
  <1>2. CASE ~HasSentinel(s)
    BY <1>2 DEF Filtered
  <1> QED BY <1>1, <1>2

\* LimitedBuffer.append keeps the buffer within its limit.
LEMMA AppendLimitedBound ==
    ASSUME NEW b \in Seq(Frames), Len(b) <= Limit, NEW data \in Seq(Frames)
    PROVE  AppendLimited(b, data) \in Seq(Frames) /\ Len(AppendLimited(b, data)) <= Limit
  <1> DEFINE remaining == Limit - Len(b)
             n == IF Len(data) < remaining THEN Len(data) ELSE remaining
  <1>1. Len(b) \in Nat /\ Len(data) \in Nat
    BY LenProperties
  <1>2. n \in Nat /\ n <= Len(data) /\ n <= remaining
    BY <1>1, StreamAssumption
  <1>3. \A j \in 1..n : data[j] \in Frames
    BY <1>1, <1>2, ElementOfSeq
  <1> HIDE DEF n
  <1>4. SubSeq(data, 1, n) \in Seq(Frames) /\ Len(SubSeq(data, 1, n)) = n
    BY <1>2, <1>3, SubSeqProperties
  <1>5. AppendLimited(b, data) = b \o SubSeq(data, 1, n)
    BY DEF AppendLimited, Room, n
  <1> QED BY <1>1, <1>2, <1>4, <1>5, ConcatProperties, StreamAssumption

\* WSClient.update() moves frames from the socket to its buffers.
LEMMA UpdateFacts ==
    ASSUME TypeOK, SentinelOnlyIfSent
    PROVE  /\ WireAfter \in Seq(Frames) /\ ConnectedAfter \in BOOLEAN
           /\ BufAfter \in [Channels -> Seq(Frames)]
           /\ HasSentinel(WireAfter) \/ HasSentinel(BufAfter["out"]) => HasSentinel(sent)
           /\ buf["status"] # << >> => BufAfter["status"] # << >>
  <1>1. CASE Readable
    <2>1. /\ wire # << >> /\ wire \in Seq(Frames) /\ WireAfter = Tail(wire)
          /\ ConnectedAfter \in BOOLEAN
      BY <1>1 DEF Readable, TypeOK, WireAfter, ConnectedAfter
    <2>2. /\ Head(wire) \in Frames /\ Tail(wire) \in Seq(Frames)
          /\ Head(wire).kind = "sentinel" => HasSentinel(wire)
          /\ HasSentinel(Tail(wire)) => HasSentinel(wire)
      BY <2>1, SentinelHeadTail
    <2>3. CASE Head(wire).ch \in Channels
      <3> DEFINE h == Head(wire)
                 new == Append(buf[h.ch], h)
      <3>1. buf[h.ch] \in Seq(Frames) /\ new \in Seq(Frames) /\ new # << >>
        <4>1. buf[h.ch] \in Seq(Frames)
          BY <2>3 DEF TypeOK
        <4> QED BY <2>2, <4>1, AppendProperties
      <3>2. BufAfter = [buf EXCEPT ![h.ch] = new]
        BY <1>1, <2>3 DEF BufAfter
      <3>3. HasSentinel(new) => HasSentinel(buf[h.ch]) \/ h.kind = "sentinel"
        BY <2>2, <3>1, SentinelAppend
      <3> HIDE DEF new, h
      <3>4. /\ BufAfter \in [Channels -> Seq(Frames)]
            /\ BufAfter["out"] = IF h.ch = "out" THEN new ELSE buf["out"]
            /\ BufAfter["status"] = IF h.ch = "status" THEN new ELSE buf["status"]
        BY <2>3, <3>1, <3>2 DEF TypeOK, Channels, h
      <3>5. HasSentinel(BufAfter["out"]) => HasSentinel(sent)
        BY <2>2, <3>3, <3>4 DEF SentinelOnlyIfSent, h
      <3> QED BY <2>1, <2>2, <3>1, <3>4, <3>5 DEF SentinelOnlyIfSent
    <2>4. CASE Head(wire).ch \notin Channels
      BY <2>1, <2>2, <2>4 DEF BufAfter, TypeOK, SentinelOnlyIfSent
    <2> QED BY <2>3, <2>4
  <1>2. CASE ~Readable
    BY <1>2 DEF WireAfter, ConnectedAfter, BufAfter, TypeOK, SentinelOnlyIfSent
  <1> QED BY <1>1, <1>2

-------------------------------------------------------------------------------
(* The invariant                                                           *)

LEMMA StreamInvInit == Init => StreamInv
  <1> SUFFICES ASSUME Init PROVE StreamInv
    OBVIOUS
  <1>1. << >> \in Seq(Frames) /\ Len(<< >>) = 0 /\ ~HasSentinel(<< >>)
    BY DEF HasSentinel
  <1>2. TypeOK
    BY <1>1 DEF Init, TypeOK, PC, NoCode
  <1>3. BuffersLimited
    BY <1>1, StreamAssumption DEF Init, BuffersLimited
  <1>4. SentinelOnlyIfSent
    BY <1>1 DEF Init, SentinelOnlyIfSent, Channels
  <1>5. StdoutDrained
    BY DEF Init, StdoutDrained, Channels
  <1>6. ResultMeansCommandEnded
    BY DEF Init, ResultMeansCommandEnded, Results
  <1> QED BY <1>2, <1>3, <1>4, <1>5, <1>6 DEF StreamInv
LEMMA StreamInvStep == StreamInv /\ [Next]_vars => StreamInv'
  <1> SUFFICES ASSUME StreamInv, [Next]_vars PROVE StreamInv'
    OBVIOUS
  <1> USE DEF StreamInv
  <1>0. /\ \A ch \in {"out", "err"}, n \in Nat : Data(ch, n) \in Frames
        /\ Sentinel \in Frames
        /\ \A k \in {"exitCode", "noExecutable", "unknown"} : Status(k) \in Frames
        /\ Close \in Frames /\ Reset \in Frames
    BY FrameTypes DEF TypeOK
  \* A step of the server that puts a frame other than the sentinel on the wire.
  <1>1. ASSUME NEW f \in Frames, f.kind # "sentinel",
               NEW w \in {wire, << >>}, wire' = Append(w, f),
               sent' = sent \/ sent' = Append(sent, f),
               srv' \in {"command", "lingering", "exited", "closed"},
               UNCHANGED <<givenVars, clientVars>>
        PROVE  StreamInv'
    <2>0. w \in Seq(Frames) /\ sent \in Seq(Frames) /\ (HasSentinel(w) => HasSentinel(wire))
      <3>1. wire \in Seq(Frames) /\ sent \in Seq(Frames)
        BY DEF TypeOK
      <3>2. << >> \in Seq(Frames) /\ ~HasSentinel(<< >>)
        BY DEF HasSentinel
      <3> QED BY <3>1, <3>2
    <2>1. wire' \in Seq(Frames) /\ sent' \in Seq(Frames)
      BY <1>1, <2>0, AppendProperties
    <2>2. TypeOK'
      BY <1>1, <2>1 DEF TypeOK, givenVars, clientVars, Frames, Close, Reset
    <2>3. (HasSentinel(sent) => HasSentinel(sent')) /\ (HasSentinel(wire') => HasSentinel(wire))
      <3>1. HasSentinel(sent) => HasSentinel(Append(sent, f))
        BY <2>0, SentinelAppend
      <3>2. HasSentinel(sent) => HasSentinel(sent')
        BY <1>1, <3>1
      <3>3. HasSentinel(Append(w, f)) => HasSentinel(w)
        BY <1>1, <2>0, SentinelAppend
      <3> QED BY <1>1, <2>0, <3>2, <3>3
    <2> QED
      BY <1>1, <2>2, <2>3 DEF BuffersLimited, SentinelOnlyIfSent, StdoutDrained,
         ResultMeansCommandEnded, givenVars, clientVars
  <1>2. ASSUME NEW ch \in {"out", "err"}, SendData(ch) PROVE StreamInv'
    <2>1. Len(sent) + 1 \in Nat
      BY LenProperties DEF TypeOK
    <2> QED BY <1>0, <1>1, <1>2, <2>1 DEF SendData, Data, TypeOK, givenVars, clientVars
  <1>3. CASE SendSentinel
    <2>0. wire \in Seq(Frames) /\ sent \in Seq(Frames)
      BY DEF TypeOK
    <2>1. /\ wire' \in Seq(Frames) /\ sent' \in Seq(Frames)
          /\ HasSentinel(sent')
      BY <1>0, <1>3, <2>0, AppendProperties, SentinelAppend DEF SendSentinel, Sentinel
    <2>2. TypeOK'
      BY <1>3, <2>1 DEF SendSentinel, TypeOK, givenVars, clientVars, Frames, Close, Reset
    <2> QED
      BY <1>3, <2>1, <2>2 DEF SendSentinel, BuffersLimited, SentinelOnlyIfSent,
         StdoutDrained, ResultMeansCommandEnded, givenVars, clientVars
  <1>4. CASE SendStatus
    BY <1>0, <1>1, <1>4 DEF SendStatus, Status, TypeOK, givenVars, clientVars
  <1>5. CASE CloseConnection
    BY <1>0, <1>1, <1>5 DEF CloseConnection, Close, TypeOK, givenVars, clientVars
  <1>6. CASE ResetConnection
    BY <1>0, <1>1, <1>6 DEF ResetConnection, Reset, TypeOK, givenVars, clientVars
  <1>7. CASE WriteStdin
    BY <1>7 DEF WriteStdin, TypeOK, BuffersLimited, SentinelOnlyIfSent, StdoutDrained,
       ResultMeansCommandEnded, givenVars, serverVars, PC, Done, Results
  <1>8. CASE LoopTest
    BY <1>8 DEF LoopTest, TypeOK, BuffersLimited, SentinelOnlyIfSent, StdoutDrained,
       ResultMeansCommandEnded, givenVars, serverVars, PC, Done, Results
  <1>9. CASE ConnectionLost
    BY <1>9 DEF ConnectionLost, TypeOK, BuffersLimited, SentinelOnlyIfSent, StdoutDrained,
       ResultMeansCommandEnded, givenVars, serverVars, PC, Done, Results
  <1>10. /\ WireAfter \in Seq(Frames) /\ ConnectedAfter \in BOOLEAN
         /\ BufAfter \in [Channels -> Seq(Frames)]
         /\ HasSentinel(WireAfter) \/ HasSentinel(BufAfter["out"]) => HasSentinel(sent)
         /\ buf["status"] # << >> => BufAfter["status"] # << >>
    BY UpdateFacts
  <1>11. CASE BlockingUpdate
    BY <1>10, <1>11 DEF BlockingUpdate, FirstPeek, TypeOK, BuffersLimited,
       SentinelOnlyIfSent, StdoutDrained, ResultMeansCommandEnded, givenVars, serverVars,
       PC, Results
  <1>12. CASE HandleStderr
    <2>1. BufAfter["err"] \in Seq(Frames)
      BY <1>10 DEF Channels
    <2>2. stderr' \in Seq(Frames) /\ Len(stderr') <= Limit
      BY <1>12, <2>1, AppendLimitedBound DEF HandleStderr, TypeOK, BuffersLimited
    <2>3. /\ buf' \in [Channels -> Seq(Frames)] /\ buf'["out"] = BufAfter["out"]
          /\ buf'["status"] = BufAfter["status"]
      BY <1>10, <1>12 DEF HandleStderr, Channels
    <2>4. truncated' \in BOOLEAN
      BY <1>12 DEF HandleStderr, TypeOK
    <2>5. pc' \in PC \ Results /\ (op = "exec" => pc' = "peekOut")
      BY <1>12 DEF HandleStderr, AfterPeek, FirstPeek, PC, Results
    <2>6. TypeOK'
      BY <1>10, <1>12, <2>2, <2>3, <2>4, <2>5 DEF HandleStderr, TypeOK, givenVars, serverVars,
         Frames, Close, Reset
    <2> QED
      BY <1>10, <1>12, <2>2, <2>3, <2>5, <2>6 DEF HandleStderr, BuffersLimited,
         SentinelOnlyIfSent, StdoutDrained, ResultMeansCommandEnded, givenVars, serverVars
  <1>13. CASE ExecStdout
    <2> DEFINE got == BufAfter["out"]
    <2>1. got \in Seq(Frames) /\ Filtered(got) \in Seq(Frames)
      BY <1>10, FilteredType DEF Channels
    <2>2. stdout' \in Seq(Frames) /\ Len(stdout') <= Limit
      BY <1>13, <2>1, AppendLimitedBound DEF ExecStdout, TypeOK, BuffersLimited
    <2>3. /\ buf' \in [Channels -> Seq(Frames)] /\ buf'["out"] = << >>
          /\ buf'["status"] = BufAfter["status"]
      BY <1>10, <1>13 DEF ExecStdout, Channels
    <2>4. /\ returncode' \in Codes \cup {NoCode}
          /\ returncode' # NoCode => HasSentinel(sent)
      BY <1>10, <1>13, <2>1, SentinelFacts DEF ExecStdout, TypeOK, SentinelOnlyIfSent
    <2>5. truncated' \in BOOLEAN
      BY <1>13 DEF ExecStdout, TypeOK, Overflows
    <2>6. connected' \in BOOLEAN /\ closeRaised' \in BOOLEAN
      BY <1>10, <1>13 DEF ExecStdout, TypeOK
    <2>7. pc' \in PC \ Results
      BY <1>13 DEF ExecStdout, AfterPeek, FirstPeek, PC, Done, Results
    <2>8. TypeOK'
      BY <1>10, <1>13, <2>2, <2>3, <2>4, <2>5, <2>6, <2>7 DEF ExecStdout, TypeOK,
         givenVars, serverVars, Frames, Close, Reset
    <2>9. ~HasSentinel(<< >>)
      BY DEF HasSentinel
    <2> QED
      BY <1>10, <1>13, <2>2, <2>3, <2>4, <2>7, <2>8, <2>9 DEF ExecStdout, BuffersLimited,
         SentinelOnlyIfSent, StdoutDrained, ResultMeansCommandEnded, givenVars, serverVars
  <1>14. CASE ReadStdout
    <2>1. stdout' \in Seq(Frames)
      <3>1. BufAfter["out"] \in Seq(Frames) /\ stdout \in Seq(Frames)
        BY <1>10 DEF Channels, TypeOK
      <3> QED BY <1>14, <3>1, ConcatProperties DEF ReadStdout
    <2>2. /\ buf' \in [Channels -> Seq(Frames)] /\ buf'["out"] = << >>
          /\ buf'["status"] = BufAfter["status"]
      BY <1>10, <1>14 DEF ReadStdout, Channels
    <2>3. pc' \in PC \ Results
      BY <1>14 DEF ReadStdout, AfterPeek, FirstPeek, PC, Done, Results
    <2>4. TypeOK'
      BY <1>10, <1>14, <2>1, <2>2, <2>3 DEF ReadStdout, TypeOK, givenVars, serverVars,
         Frames, Close, Reset
    <2>5. ~HasSentinel(<< >>)
      BY DEF HasSentinel
    <2> QED
      BY <1>10, <1>14, <2>2, <2>3, <2>4, <2>5 DEF ReadStdout, BuffersLimited,
         SentinelOnlyIfSent, StdoutDrained, ResultMeansCommandEnded, givenVars, serverVars
  <1>15. CASE Conclude
    <2>1. pc' \in Done
      BY <1>15 DEF Conclude, OutcomesOf, Done, Results
    <2>2. pc' \in Results => returncode # NoCode \/ buf["status"] # << >>
      BY <1>15 DEF Conclude, GetReturncode, Results
    <2>3. TypeOK'
      BY <1>15, <2>1 DEF Conclude, TypeOK, PC, givenVars, serverVars, Frames, Close, Reset
    <2> QED
      BY <1>15, <2>1, <2>2, <2>3 DEF Conclude, BuffersLimited, SentinelOnlyIfSent,
         StdoutDrained, ResultMeansCommandEnded, givenVars, serverVars, Done, Results
  <1>16. CASE UNCHANGED vars
    BY <1>16 DEF vars, TypeOK, BuffersLimited, SentinelOnlyIfSent, StdoutDrained,
       ResultMeansCommandEnded, Frames, Close, Reset
  <1> QED
    BY StepCases, <1>2, <1>3, <1>4, <1>5, <1>6, <1>7, <1>8, <1>9, <1>11, <1>12,
       <1>13, <1>14, <1>15, <1>16

LEMMA StreamInvariant == Spec => []StreamInv
BY StreamInvInit, StreamInvStep, PTL DEF Spec

\* The client's state keeps its type; a parsed exit code is one of the command's.
THEOREM StreamTypeCorrect == Spec => []TypeOK
  <1>1. StreamInv => TypeOK
    BY DEF StreamInv
  <1> QED BY <1>1, StreamInvariant, PTL

\* LimitedBuffer keeps to its limit, whatever the command writes.
THEOREM BuffersLimitedHolds == Spec => []BuffersLimited
  <1>1. StreamInv => BuffersLimited
    BY DEF StreamInv
  <1> QED BY <1>1, StreamInvariant, PTL

\* exec never blocks in update(None) on a sentinel it has already buffered: its
\* round always ends by reading stdout.
THEOREM NeverBlocksOnSentinelHolds == Spec => []NeverBlocksOnSentinel
  <1>1. StreamInv => NeverBlocksOnSentinel
    BY DEF StreamInv, StdoutDrained, NeverBlocksOnSentinel, HasSentinel
  <1> QED BY <1>1, StreamInvariant, PTL

\* A closed or broken connection is never taken for the exit of the command.
THEOREM ResultMeansCommandEndedHolds == Spec => []ResultMeansCommandEnded
  <1>1. StreamInv => ResultMeansCommandEnded
    BY DEF StreamInv
  <1> QED BY <1>1, StreamInvariant, PTL

-------------------------------------------------------------------------------
(* From the command to the result: nothing is lost on the way              *)

\* The outputs that a result is built from, and what the client has of each: the
\* part kept so far, and the frames in WSClient's buffer less the sentinel.
Kept == IF op = "exec" THEN {"out", "err"} ELSE {"out"}
Output(ch) == IF ch = "out" THEN stdout ELSE stderr
Taken(ch) == Output(ch) \o Filtered(buf[ch])

\* Data frames are numbered by their place in the stream.
Numbered(s) ==
    \A i \in 1..Len(s) : s[i].kind \in {"data", "sentinel"} /\ (s[i].kind = "data" => s[i].n = i)

\* What is on the wire is in the order in which it was sent: what follows the
\* sentinel there was sent after it, no data follows a status, nothing a close.
WireInOrder(s, w) ==
    /\ \A k \in 1..Len(w) : w[k].kind = "data" => w[k].n \in 1..Len(s) /\ s[w[k].n] = w[k]
    /\ \A j, k \in 1..Len(w) : j < k =>
          /\ w[j] # Close
          /\ w[k].kind = "data" =>
                \/ w[j].kind = "data" /\ w[j].n < w[k].n
                \/ w[j].kind = "sentinel" /\ \E i \in 1..w[k].n : s[i].kind = "sentinel"
          /\ w[j].kind = "sentinel" => w[k].kind # "sentinel"

\* What has been taken of channel ch is a prefix of what was sent, the wire holds
\* the rest, and only a reset can have destroyed any of it.
Flow(s, t, w, ch) ==
    /\ PrefixOf(s, t, ch)
    /\ \A j \in 1..Len(t), k \in 1..Len(w) : w[k].kind = "data" => t[j].n < w[k].n
    /\ w # <<Reset>> =>
          \A i \in 1..Len(s) : IsData(s[i], ch) => Holds(t, s[i]) \/ Holds(w, s[i])

\* How far the server has come bounds what is on the wire.
WireBound(w) ==
    /\ srv \in {"command", "lingering"} =>
          \A k \in 1..Len(w) : w[k].kind \in {"data", "sentinel"}
    /\ srv # "closed" => ~Holds(w, Close) /\ ~Holds(w, Reset)

ServerOrder ==
    /\ Numbered(sent)
    /\ WireInOrder(sent, wire)
    /\ srv = "command" \/ op = "read" => ~HasSentinel(sent)
    /\ WireBound(wire)

\* The sentinel is in one place at a time, and each frame in its channel's buffer.
BufferOrder(w, b) ==
    /\ \A ch \in Channels : \A j \in 1..Len(b[ch]) : b[ch][j].ch = ch
    /\ \A j, k \in 1..Len(b["out"]) :
          j < k /\ b["out"][j].kind = "sentinel" => b["out"][k].kind # "sentinel"
    /\ HasSentinel(w) => ~HasSentinel(b["out"])

\* The loop is left when the sentinel has been read or the close; a truncated
\* output is on its way to the limit error.
LoopOrder ==
    /\ returncode # NoCode => ~connected /\ pc \in {"loop", "returncode"} \cup Done
    /\ closeRaised => returncode # NoCode
    /\ ~connected /\ returncode = NoCode => wire = << >> /\ srv = "closed"
    /\ pc = "write" => connected
    /\ pc \in {"returncode", "result"} => ~connected
    /\ pc = "peekOut" /\ op = "exec" => buf["err"] = << >>
    /\ pc = "peekErr" /\ op = "read" => buf["out"] = << >>
    /\ op = "exec" /\ truncated /\ ~closeRaised => pc \in {"peekOut", "limit", "connectionLost"}

\* Nothing of an output that is not truncated is lost before the loop is left, and
\* once it is left what came before the sentinel is in the output itself.
Delivery ==
    op = "read" \/ ~truncated => \A ch \in Kept :
        /\ Flow(sent, Taken(ch), wire, ch)
        /\ HasSentinel(buf["out"]) \/ returncode # NoCode =>
              HoldsUpToSentinel(sent, Taken(ch), ch)
        /\ pc \in {"loop", "returncode", "result"} /\ ~connected =>
              HoldsUpToSentinel(sent, Output(ch), ch)

DeliveryInv == ServerOrder /\ BufferOrder(wire, buf) /\ LoopOrder /\ Delivery

\* Sending a frame of data keeps the streams in order.
LEMMA FlowSendData ==
    ASSUME NEW s \in Seq(Frames), NEW w \in Seq(Frames), NEW c \in {"out", "err"},
           Numbered(s), WireInOrder(s, w), HasSentinel(w) => HasSentinel(s),
           \A k \in 1..Len(w) : w[k].kind \in {"data", "sentinel"},
           NEW f, f = Data(c, Len(s) + 1)
    PROVE  /\ Numbered(Append(s, f))
           /\ WireInOrder(Append(s, f), Append(w, f))
           /\ \A t \in Seq(Frames), ch \in {"out", "err"} :
                 Flow(s, t, w, ch) => Flow(Append(s, f), t, Append(w, f), ch)
  <1> DEFINE s2 == Append(s, f)
             w2 == Append(w, f)
  <1>1. Len(s) \in Nat /\ Len(w) \in Nat /\ f \in Frames /\ f.kind = "data" /\ f.n = Len(s) + 1
    BY LenProperties DEF Data, Frames
  <1>2. /\ s2 \in Seq(Frames) /\ Len(s2) = Len(s) + 1 /\ s2[Len(s) + 1] = f
        /\ \A i \in 1..Len(s) : s2[i] = s[i]
    BY <1>1, AppendProperties
  <1>3. /\ w2 \in Seq(Frames) /\ Len(w2) = Len(w) + 1 /\ w2[Len(w) + 1] = f
        /\ \A i \in 1..Len(w) : w2[i] = w[i]
    BY <1>1, AppendProperties
  <1> HIDE DEF s2, w2
  <1>4. Numbered(s2)
    BY <1>1, <1>2 DEF Numbered
  <1>5. WireInOrder(s2, w2)
    <2>1. ASSUME NEW k \in 1..Len(w2), w2[k].kind = "data"
          PROVE  w2[k].n \in 1..Len(s2) /\ s2[w2[k].n] = w2[k]
      BY <1>1, <1>2, <1>3, <2>1 DEF WireInOrder
    <2>2. ASSUME NEW j \in 1..Len(w2), NEW k \in 1..Len(w2), j < k
          PROVE  /\ w2[j] # Close
                 /\ w2[k].kind = "data" =>
                       \/ w2[j].kind = "data" /\ w2[j].n < w2[k].n
                       \/ w2[j].kind = "sentinel" /\ \E i \in 1..w2[k].n : s2[i].kind = "sentinel"
                 /\ w2[j].kind = "sentinel" => w2[k].kind # "sentinel"
      <3>1. j \in 1..Len(w) /\ w2[j] = w[j]
        BY <1>1, <1>3, <2>2
      <3>2. w[j].kind \in {"data", "sentinel"} /\ w[j] # Close
        BY <3>1 DEF Close
      <3>3. CASE k \in 1..Len(w)
        <4>1. w2[k] = w[k]
          BY <1>3, <3>3
        <4>2. w[k].kind = "data" => w[k].n \in 1..Len(s)
          BY <3>3 DEF WireInOrder
        <4>3. ASSUME w[k].kind = "data", w[j].kind = "sentinel"
              PROVE  \E i \in 1..w[k].n : s2[i].kind = "sentinel"
          <5>1. PICK i \in 1..w[k].n : s[i].kind = "sentinel"
            BY <2>2, <3>1, <3>3, <4>3 DEF WireInOrder
          <5>2. i \in 1..Len(s)
            BY <1>1, <4>2, <4>3
          <5> QED BY <1>2, <5>1, <5>2
        <4> QED BY <2>2, <3>1, <3>2, <3>3, <4>1, <4>3 DEF WireInOrder
      <3>4. CASE k = Len(w) + 1
        <4>1. w2[k] = f
          BY <1>3, <3>4
        <4>2. ASSUME w[j].kind = "data" PROVE w[j].n < f.n
          <5>1. w[j].n \in 1..Len(s)
            BY <3>1, <4>2 DEF WireInOrder
          <5> QED BY <1>1, <5>1
        <4>3. ASSUME w[j].kind = "sentinel" PROVE \E i \in 1..f.n : s2[i].kind = "sentinel"
          <5>1. HasSentinel(w)
            BY <3>1, <4>3 DEF HasSentinel
          <5>2. PICK i \in 1..Len(s) : s[i].kind = "sentinel"
            BY <5>1 DEF HasSentinel
          <5>3. i \in 1..f.n
            BY <1>1
          <5> QED BY <1>2, <5>2, <5>3
        <4> QED BY <1>1, <3>1, <3>2, <4>1, <4>2, <4>3
      <3> QED BY <1>1, <1>3, <3>3, <3>4
    <2> QED BY <2>1, <2>2 DEF WireInOrder
  <1>6. ASSUME NEW t \in Seq(Frames), NEW ch \in {"out", "err"}, Flow(s, t, w, ch)
        PROVE  Flow(s2, t, w2, ch)
    <2>0. Len(t) \in Nat
      BY LenProperties
    <2>1. ASSUME NEW j \in 1..Len(t)
          PROVE  IsData(t[j], ch) /\ Holds(s2, t[j]) /\ t[j].n \in 1..Len(s)
      <3>1. IsData(t[j], ch) /\ Holds(s, t[j])
        BY <1>6 DEF Flow, PrefixOf
      <3>2. PICK i \in 1..Len(s) : s[i] = t[j]
        BY <3>1 DEF Holds
      <3>3. t[j].n = i
        BY <3>1, <3>2 DEF Numbered, IsData
      <3>4. Holds(s2, t[j])
        BY <1>1, <1>2, <3>2 DEF Holds
      <3> QED BY <3>1, <3>3, <3>4
    <2>2. PrefixOf(s2, t, ch)
      <3>1. ASSUME NEW i \in 1..Len(s2), NEW j \in 1..Len(t), IsData(s2[i], ch), s2[i].n < t[j].n
            PROVE  Holds(t, s2[i])
        <4>1. i # Len(s) + 1
          BY <1>1, <1>2, <2>1, <3>1
        <4>2. i \in 1..Len(s) /\ s2[i] = s[i]
          BY <1>1, <1>2, <4>1
        <4> QED BY <1>6, <3>1, <4>2 DEF Flow, PrefixOf
      <3> QED BY <1>6, <2>1, <3>1 DEF Flow, PrefixOf
    <2>3. ASSUME NEW j \in 1..Len(t), NEW k \in 1..Len(w2), w2[k].kind = "data"
          PROVE  t[j].n < w2[k].n
      <3>1. CASE k \in 1..Len(w)
        BY <1>3, <1>6, <2>3, <3>1 DEF Flow
      <3>2. CASE k = Len(w) + 1
        <4>1. w2[k].n = Len(s) + 1
          BY <1>1, <1>3, <3>2
        <4>2. t[j].n \in 1..Len(s)
          BY <2>1
        <4> QED BY <1>1, <4>1, <4>2
      <3> QED BY <1>1, <1>3, <3>1, <3>2
    <2>4. ASSUME NEW i \in 1..Len(s2), IsData(s2[i], ch)
          PROVE  Holds(t, s2[i]) \/ Holds(w2, s2[i])
      <3>1. CASE i = Len(s) + 1
        <4>1. Len(w2) \in 1..Len(w2) /\ w2[Len(w2)] = s2[i]
          BY <1>1, <1>2, <1>3, <3>1
        <4> QED BY <4>1 DEF Holds
      <3>2. CASE i \in 1..Len(s)
        <4>1. w # <<Reset>>
          <5>1. ASSUME w = <<Reset>> PROVE FALSE
            <6>1. 1 \in 1..Len(w) /\ w[1].kind = "reset"
              BY <5>1 DEF Reset
            <6> QED BY <6>1
          <5> QED BY <5>1
        <4>2. s2[i] = s[i]
          BY <1>2, <3>2
        <4>3. Holds(t, s[i]) \/ Holds(w, s[i])
          BY <1>6, <2>4, <3>2, <4>1, <4>2 DEF Flow
        <4>4. Holds(w, s[i]) => Holds(w2, s[i])
          BY <1>1, <1>3 DEF Holds
        <4> QED BY <4>2, <4>3, <4>4
      <3> QED BY <1>1, <1>2, <3>1, <3>2
    <2> QED BY <2>2, <2>3, <2>4 DEF Flow
  <1> QED BY <1>4, <1>5, <1>6 DEF s2, w2

\* So does sending the sentinel.
LEMMA FlowSendSentinel ==
    ASSUME NEW s \in Seq(Frames), NEW w \in Seq(Frames),
           Numbered(s), WireInOrder(s, w), ~HasSentinel(w),
           \A k \in 1..Len(w) : w[k].kind \in {"data", "sentinel"},
           NEW f \in Frames, f.kind = "sentinel"
    PROVE  /\ Numbered(Append(s, f))
           /\ WireInOrder(Append(s, f), Append(w, f))
           /\ \A t \in Seq(Frames), ch \in {"out", "err"} :
                 Flow(s, t, w, ch) => Flow(Append(s, f), t, Append(w, f), ch)
  <1> DEFINE s2 == Append(s, f)
             w2 == Append(w, f)
  <1>1. Len(s) \in Nat /\ Len(w) \in Nat
    BY LenProperties
  <1>2. /\ s2 \in Seq(Frames) /\ Len(s2) = Len(s) + 1 /\ s2[Len(s) + 1] = f
        /\ \A i \in 1..Len(s) : s2[i] = s[i]
    BY AppendProperties
  <1>3. /\ w2 \in Seq(Frames) /\ Len(w2) = Len(w) + 1 /\ w2[Len(w) + 1] = f
        /\ \A i \in 1..Len(w) : w2[i] = w[i]
    BY AppendProperties
  <1>0. \A k \in 1..Len(w) : w[k].kind = "data"
    BY DEF HasSentinel
  <1> HIDE DEF s2, w2
  <1>4. Numbered(s2)
    BY <1>1, <1>2 DEF Numbered
  <1>5. WireInOrder(s2, w2)
    <2>1. ASSUME NEW k \in 1..Len(w2), w2[k].kind = "data"
          PROVE  w2[k].n \in 1..Len(s2) /\ s2[w2[k].n] = w2[k]
      <3>1. k \in 1..Len(w) /\ w2[k] = w[k]
        BY <1>1, <1>3, <2>1
      <3>2. w[k].n \in 1..Len(s) /\ s[w[k].n] = w[k]
        BY <2>1, <3>1 DEF WireInOrder
      <3> QED BY <1>1, <1>2, <3>1, <3>2
    <2>2. ASSUME NEW j \in 1..Len(w2), NEW k \in 1..Len(w2), j < k
          PROVE  /\ w2[j] # Close /\ w2[j].kind = "data"
                 /\ w2[k].kind = "data" => w2[j].n < w2[k].n
      <3>1. j \in 1..Len(w) /\ w2[j] = w[j] /\ w[j].kind = "data"
        BY <1>0, <1>1, <1>3, <2>2
      <3>2. w2[k].kind = "data" => k \in 1..Len(w) /\ w2[k] = w[k]
        BY <1>1, <1>3
      <3> QED BY <2>2, <3>1, <3>2 DEF WireInOrder, Close
    <2> QED BY <2>1, <2>2 DEF WireInOrder
  <1>6. ASSUME NEW t \in Seq(Frames), NEW ch \in {"out", "err"}, Flow(s, t, w, ch)
        PROVE  Flow(s2, t, w2, ch)
    <2>1. PrefixOf(s2, t, ch)
      <3>1. ASSUME NEW x, Holds(s, x) PROVE Holds(s2, x)
        BY <1>1, <1>2, <3>1 DEF Holds
      <3>2. \A i \in 1..Len(s2) : IsData(s2[i], ch) => i \in 1..Len(s) /\ s2[i] = s[i]
        BY <1>1, <1>2 DEF IsData
      <3> QED BY <1>6, <3>1, <3>2 DEF Flow, PrefixOf
    <2>2. \A k \in 1..Len(w2) : w2[k].kind = "data" => k \in 1..Len(w) /\ w2[k] = w[k]
      BY <1>1, <1>3
    <2>3. ASSUME NEW i \in 1..Len(s2), IsData(s2[i], ch)
          PROVE  Holds(t, s2[i]) \/ Holds(w2, s2[i])
      <3>1. i \in 1..Len(s) /\ s2[i] = s[i]
        BY <1>1, <1>2, <2>3 DEF IsData
      <3>2. w # <<Reset>>
        <4>1. ASSUME w = <<Reset>> PROVE FALSE
          <5>1. 1 \in 1..Len(w) /\ w[1].kind = "reset"
            BY <4>1 DEF Reset
          <5> QED BY <1>0, <5>1
        <4> QED BY <4>1
      <3>3. Holds(t, s[i]) \/ Holds(w, s[i])
        BY <1>6, <2>3, <3>1, <3>2 DEF Flow
      <3>4. Holds(w, s[i]) => Holds(w2, s[i])
        BY <1>1, <1>3 DEF Holds
      <3> QED BY <3>1, <3>3, <3>4
    <2> QED BY <1>6, <2>1, <2>2, <2>3 DEF Flow
  <1> QED BY <1>4, <1>5, <1>6 DEF s2, w2

\* A status, a close and a reset say nothing of the output; a reset may destroy
\* what was on the wire.
LEMMA FlowSendControl ==
    ASSUME NEW s \in Seq(Frames), NEW w \in Seq(Frames),
           WireInOrder(s, w), ~Holds(w, Close), ~Holds(w, Reset),
           NEW f \in Frames, f.kind \notin {"data", "sentinel"},
           NEW r \in {w, << >>}, r = << >> => f = Reset \/ w = << >>
    PROVE  /\ WireInOrder(s, Append(r, f))
           /\ \A t \in Seq(Frames), ch \in {"out", "err"} :
                 Flow(s, t, w, ch) => Flow(s, t, Append(r, f), ch)
  <1> DEFINE w2 == Append(r, f)
  <1>0. r \in Seq(Frames) /\ Len(<< >>) = 0
    <2>1. << >> \in Seq(Frames) /\ Len(<< >>) = 0
      BY EmptySeq
    <2> QED BY <2>1
  <1>1. Len(s) \in Nat /\ Len(w) \in Nat /\ Len(r) \in Nat
    BY <1>0, LenProperties
  <1>2. /\ w2 \in Seq(Frames) /\ Len(w2) = Len(r) + 1 /\ w2[Len(r) + 1] = f
        /\ \A i \in 1..Len(r) : w2[i] = r[i]
    BY <1>0, AppendProperties
  <1>3. \A k \in 1..Len(r) : k \in 1..Len(w) /\ w[k] = r[k]
    BY <1>0
  <1>4. f = Reset /\ r = << >> => w2 = <<Reset>>
    OBVIOUS
  <1> HIDE DEF w2
  <1>5. \A k \in 1..Len(w2) : w2[k].kind \in {"data", "sentinel"} \/ k < Len(w2)
            => k \in 1..Len(w) /\ w2[k] = w[k]
    BY <1>1, <1>2, <1>3
  <1>6. WireInOrder(s, w2)
    <2>1. \A k \in 1..Len(w) : w[k] # Close
      BY DEF Holds
    <2>2. ASSUME NEW j \in 1..Len(w2), NEW k \in 1..Len(w2), j < k
          PROVE  /\ w2[j] # Close
                 /\ w2[k].kind = "data" =>
                       \/ w2[j].kind = "data" /\ w2[j].n < w2[k].n
                       \/ w2[j].kind = "sentinel" /\ \E i \in 1..w2[k].n : s[i].kind = "sentinel"
                 /\ w2[j].kind = "sentinel" => w2[k].kind # "sentinel"
      <3>1. j \in 1..Len(w) /\ w2[j] = w[j]
        BY <1>1, <1>2, <1>5, <2>2
      <3>2. w2[k].kind \in {"data", "sentinel"} => k \in 1..Len(w) /\ w2[k] = w[k]
        BY <1>5
      <3> QED BY <2>1, <2>2, <3>1, <3>2 DEF WireInOrder
    <2> QED BY <1>5, <2>2 DEF WireInOrder
  <1>7. ASSUME NEW t \in Seq(Frames), NEW ch \in {"out", "err"}, Flow(s, t, w, ch)
        PROVE  Flow(s, t, w2, ch)
    <2>1. \A j \in 1..Len(t), k \in 1..Len(w2) : w2[k].kind = "data" => t[j].n < w2[k].n
      BY <1>5, <1>7 DEF Flow
    <2>2. ASSUME w2 # <<Reset>>, NEW i \in 1..Len(s), IsData(s[i], ch)
          PROVE  Holds(t, s[i]) \/ Holds(w2, s[i])
      <3>1. r = w
        BY <1>4, <2>2
      <3>2. w # <<Reset>>
        <4>1. ASSUME w = <<Reset>> PROVE FALSE
          <5>1. 1 \in 1..Len(w) /\ w[1] = Reset
            BY <4>1
          <5> QED BY <5>1 DEF Holds
        <4> QED BY <4>1
      <3>3. Holds(t, s[i]) \/ Holds(w, s[i])
        BY <1>7, <2>2, <3>2 DEF Flow
      <3>4. Holds(w, s[i]) => Holds(w2, s[i])
        BY <1>1, <1>2, <3>1 DEF Holds
      <3> QED BY <3>3, <3>4
    <2> QED BY <1>7, <2>1, <2>2 DEF Flow
  <1> QED BY <1>6, <1>7 DEF w2

\* A sequence holds what it held when a frame is added.
LEMMA HoldsAppend ==
    ASSUME NEW s \in Seq(Frames), NEW f \in Frames
    PROVE  /\ \A x : Holds(s, x) => Holds(Append(s, f), x)
           /\ Holds(Append(s, f), f)
           /\ \A x : Holds(Append(s, f), x) => Holds(s, x) \/ x = f
  <1> DEFINE s2 == Append(s, f)
  <1>1. /\ Len(s) \in Nat /\ Len(s2) = Len(s) + 1 /\ s2[Len(s) + 1] = f
        /\ \A i \in 1..Len(s) : s2[i] = s[i]
    BY LenProperties, AppendProperties
  <1> HIDE DEF s2
  <1>2. Len(s) + 1 \in 1..Len(s2)
    BY <1>1
  <1>3. \A i \in 1..Len(s) : i \in 1..Len(s2)
    BY <1>1
  <1>4. \A i \in 1..Len(s2) : i \in 1..Len(s) \/ i = Len(s) + 1
    BY <1>1
  <1> QED BY <1>1, <1>2, <1>3, <1>4 DEF Holds, s2

\* What is sent after the sentinel does not count.
LEMMA UpToSentinelStable ==
    ASSUME NEW s \in Seq(Frames), NEW t, NEW ch, NEW f \in Frames,
           HasSentinel(s) \/ f.kind = "sentinel", HoldsUpToSentinel(s, t, ch)
    PROVE  HoldsUpToSentinel(Append(s, f), t, ch)
  <1> DEFINE s2 == Append(s, f)
  <1>1. /\ Len(s) \in Nat /\ Len(s2) = Len(s) + 1 /\ s2[Len(s) + 1] = f
        /\ \A i \in 1..Len(s) : s2[i] = s[i]
    BY LenProperties, AppendProperties
  <1> HIDE DEF s2
  <1>2. SUFFICES ASSUME NEW i \in 1..Len(s2), IsData(s2[i], ch),
                        \A k \in 1..i : s2[k].kind # "sentinel"
                 PROVE  Holds(t, s2[i])
    BY DEF HoldsUpToSentinel, s2
  <1>3. i # Len(s) + 1
    <2>1. ASSUME i = Len(s) + 1, f.kind # "sentinel" PROVE FALSE
      <3>1. PICK m \in 1..Len(s) : s[m].kind = "sentinel"
        BY <2>1 DEF HasSentinel
      <3>2. m \in 1..i /\ s2[m].kind = "sentinel"
        BY <1>1, <2>1, <3>1
      <3> QED BY <1>2, <3>2
    <2> QED BY <1>1, <1>2, <2>1 DEF IsData
  <1>4. i \in 1..Len(s) /\ s2[i] = s[i] /\ \A k \in 1..i : k \in 1..Len(s) /\ s2[k] = s[k]
    BY <1>1, <1>3
  <1> QED BY <1>2, <1>4 DEF HoldsUpToSentinel

\* Taking a frame off the wire: data of channel ch goes to what has been taken of
\* it, and the sentinel comes after everything that was sent before it.
LEMMA FlowTake ==
    ASSUME NEW s \in Seq(Frames), NEW w \in Seq(Frames), w # << >>, Head(w) # Reset,
           Numbered(s), WireInOrder(s, w)
    PROVE  /\ WireInOrder(s, Tail(w))
           /\ Head(w) = Close => Tail(w) = << >>
           /\ \A t \in Seq(Frames), ch \in {"out", "err"} : Flow(s, t, w, ch) =>
                 /\ IsData(Head(w), ch) => Flow(s, Append(t, Head(w)), Tail(w), ch)
                 /\ ~IsData(Head(w), ch) => Flow(s, t, Tail(w), ch)
                 /\ Head(w).kind = "sentinel" => HoldsUpToSentinel(s, t, ch)
  <1> DEFINE h == Head(w)
             v == Tail(w)
  <1>1. /\ Len(w) \in Nat \ {0} /\ Len(s) \in Nat /\ h = w[1] /\ h \in Frames
        /\ v \in Seq(Frames) /\ Len(v) = Len(w) - 1 /\ \A k \in 1..Len(v) : v[k] = w[k + 1]
    BY LenProperties, EmptySeq, HeadTailProperties
  <1>2. w # <<Reset>>
    OBVIOUS
  <1> HIDE DEF h, v
  <1>3. /\ 1 \in 1..Len(w)
        /\ \A k \in 1..Len(v) : k + 1 \in 1..Len(w) /\ 1 < k + 1
        /\ \A k \in 1..Len(w) : k = 1 \/ (k - 1 \in 1..Len(v) /\ v[k - 1] = w[k])
    BY <1>1
  <1>4. WireInOrder(s, v)
    <2>1. ASSUME NEW k \in 1..Len(v), v[k].kind = "data"
          PROVE  v[k].n \in 1..Len(s) /\ s[v[k].n] = v[k]
      <3>1. k + 1 \in 1..Len(w) /\ v[k] = w[k + 1]
        BY <1>1, <1>3
      <3> QED BY <2>1, <3>1 DEF WireInOrder
    <2>2. ASSUME NEW j \in 1..Len(v), NEW k \in 1..Len(v), j < k
          PROVE  /\ v[j] # Close
                 /\ v[k].kind = "data" =>
                       \/ v[j].kind = "data" /\ v[j].n < v[k].n
                       \/ v[j].kind = "sentinel" /\ \E i \in 1..v[k].n : s[i].kind = "sentinel"
                 /\ v[j].kind = "sentinel" => v[k].kind # "sentinel"
      <3>1. j + 1 \in 1..Len(w) /\ k + 1 \in 1..Len(w) /\ j + 1 < k + 1
        BY <1>3, <2>2
      <3>2. v[j] = w[j + 1] /\ v[k] = w[k + 1]
        BY <1>1
      <3> QED BY <3>1, <3>2 DEF WireInOrder
    <2> QED BY <2>1, <2>2 DEF WireInOrder
  <1>5. ASSUME h = Close PROVE v = << >>
    <2>1. Len(v) = 0
      <3>1. ASSUME Len(w) # 1 PROVE FALSE
        <4>1. 1 \in 1..Len(w) /\ 2 \in 1..Len(w) /\ 1 < 2 /\ w[1] = Close
          BY <1>1, <1>5, <3>1
        <4> QED BY <4>1 DEF WireInOrder
      <3> QED BY <1>1, <3>1
    <2> QED BY <1>1, <2>1, EmptySeq
  \* What comes after the first frame of the wire was sent after it.
  <1>6. ASSUME NEW k \in 1..Len(v), v[k].kind = "data"
        PROVE  \/ h.kind = "data" /\ h.n < v[k].n
               \/ h.kind = "sentinel" /\ \E i \in 1..v[k].n : s[i].kind = "sentinel"
    <2>1. k + 1 \in 1..Len(w) /\ 1 < k + 1 /\ v[k] = w[k + 1] /\ 1 \in 1..Len(w)
      BY <1>1, <1>3
    <2> QED BY <1>1, <1>6, <2>1 DEF WireInOrder
  <1>7. ASSUME NEW x, Holds(w, x) PROVE x = h \/ Holds(v, x)
    <2>1. PICK k \in 1..Len(w) : w[k] = x
      BY <1>7 DEF Holds
    <2> QED BY <1>1, <1>3, <2>1 DEF Holds
  <1>8. h.kind = "data" => h.n \in 1..Len(s) /\ s[h.n] = h
    BY <1>1, <1>3 DEF WireInOrder
  <1>9. ASSUME NEW t \in Seq(Frames), NEW ch \in {"out", "err"}, Flow(s, t, w, ch)
        PROVE  /\ IsData(h, ch) => Flow(s, Append(t, h), v, ch)
               /\ ~IsData(h, ch) => Flow(s, t, v, ch)
               /\ h.kind = "sentinel" => HoldsUpToSentinel(s, t, ch)
    <2>1. \A i \in 1..Len(s) : IsData(s[i], ch) => Holds(t, s[i]) \/ s[i] = h \/ Holds(v, s[i])
      BY <1>2, <1>7, <1>9 DEF Flow
    <2>2. \A j \in 1..Len(t), k \in 1..Len(v) : v[k].kind = "data" => t[j].n < v[k].n
      BY <1>1, <1>3, <1>9 DEF Flow
    <2>3. ASSUME ~IsData(h, ch) PROVE Flow(s, t, v, ch)
      <3>1. \A i \in 1..Len(s) : IsData(s[i], ch) => Holds(t, s[i]) \/ Holds(v, s[i])
        BY <2>1, <2>3
      <3> QED BY <1>9, <2>2, <3>1 DEF Flow
    <2>4. ASSUME h.kind = "sentinel" PROVE HoldsUpToSentinel(s, t, ch)
      <3>1. SUFFICES ASSUME NEW i \in 1..Len(s), IsData(s[i], ch),
                            \A k \in 1..i : s[k].kind # "sentinel"
                     PROVE  Holds(t, s[i])
        BY DEF HoldsUpToSentinel
      <3>2. s[i].n = i /\ s[i].kind = "data"
        BY <3>1 DEF Numbered, IsData
      <3>3. ~Holds(v, s[i])
        <4>1. ASSUME NEW k \in 1..Len(v), v[k] = s[i] PROVE FALSE
          <5>1. \E m \in 1..i : s[m].kind = "sentinel"
            BY <1>6, <2>4, <3>2, <4>1
          <5> QED BY <3>1, <5>1
        <4> QED BY <4>1 DEF Holds
      <3> QED BY <2>1, <2>4, <3>1, <3>2, <3>3
    <2>5. ASSUME IsData(h, ch) PROVE Flow(s, Append(t, h), v, ch)
      <3> DEFINE u == Append(t, h)
      <3>1. /\ u \in Seq(Frames) /\ Len(t) \in Nat /\ Len(u) = Len(t) + 1 /\ u[Len(t) + 1] = h
            /\ \A j \in 1..Len(t) : u[j] = t[j]
        BY <1>1, AppendProperties, LenProperties
      <3>2. (\A x : Holds(t, x) => Holds(u, x)) /\ Holds(u, h)
        BY <1>1, HoldsAppend
      <3> HIDE DEF u
      <3>3. \A j \in 1..Len(u) : (j \in 1..Len(t) /\ u[j] = t[j]) \/ (j = Len(t) + 1 /\ u[j] = h)
        BY <3>1
      <3>4. h.kind = "data" /\ h.n \in 1..Len(s) /\ s[h.n] = h
        BY <1>8, <2>5 DEF IsData
      <3>5. \A j \in 1..Len(t) : t[j].n < h.n
        BY <1>1, <1>3, <1>9, <3>4 DEF Flow
      <3>6. ASSUME NEW i \in 1..Len(s), IsData(s[i], ch), i < h.n
            PROVE  Holds(t, s[i])
        <4>1. s[i].n = i /\ s[i].kind = "data"
          BY <3>6 DEF Numbered, IsData
        <4>2. s[i] # h
          BY <3>4, <3>6, <4>1
        <4>3. ~Holds(v, s[i])
          <5>1. ASSUME NEW k \in 1..Len(v), v[k] = s[i] PROVE FALSE
            <6>1. h.n < i
              BY <1>6, <3>4, <4>1, <5>1
            <6> QED BY <3>4, <3>6, <6>1
          <5> QED BY <5>1 DEF Holds
        <4> QED BY <2>1, <3>6, <4>2, <4>3
      <3>7. PrefixOf(s, u, ch)
        <4>1. \A j \in 1..Len(u) : IsData(u[j], ch) /\ Holds(s, u[j])
          <5>1. Holds(s, h)
            BY <3>4 DEF Holds
          <5>2. \A j \in 1..Len(t) : IsData(t[j], ch) /\ Holds(s, t[j])
            BY <1>9 DEF Flow, PrefixOf
          <5> QED BY <2>5, <3>3, <5>1, <5>2
        <4>2. ASSUME NEW j \in 1..Len(u), NEW k \in 1..Len(u), j < k
              PROVE  u[j].n < u[k].n
          <5>1. j \in 1..Len(t) /\ u[j] = t[j]
            BY <3>1, <4>2
          <5>2. CASE k \in 1..Len(t)
            <6>1. u[k] = t[k]
              BY <3>1, <5>2
            <6> QED BY <1>9, <4>2, <5>1, <5>2, <6>1 DEF Flow, PrefixOf
          <5>3. CASE k = Len(t) + 1
            BY <3>1, <3>5, <5>1, <5>3
          <5> QED BY <3>1, <5>2, <5>3
        <4>3. ASSUME NEW i \in 1..Len(s), NEW j \in 1..Len(u), IsData(s[i], ch), s[i].n < u[j].n
              PROVE  Holds(u, s[i])
          <5>1. s[i].n = i
            BY <4>3 DEF Numbered, IsData
          <5>2. CASE j \in 1..Len(t) /\ u[j] = t[j]
            <6>1. Holds(t, s[i])
              BY <1>9, <4>3, <5>2 DEF Flow, PrefixOf
            <6> QED BY <3>2, <6>1
          <5>3. CASE u[j] = h
            BY <3>2, <3>6, <4>3, <5>1, <5>3
          <5> QED BY <3>3, <5>2, <5>3
        <4> QED BY <4>1, <4>2, <4>3 DEF PrefixOf
      <3>8. \A j \in 1..Len(u), k \in 1..Len(v) : v[k].kind = "data" => u[j].n < v[k].n
        BY <1>6, <2>2, <3>3, <3>4
      <3>9. \A i \in 1..Len(s) : IsData(s[i], ch) => Holds(u, s[i]) \/ Holds(v, s[i])
        BY <2>1, <3>2
      <3> QED BY <3>7, <3>8, <3>9 DEF Flow, u
    <2> QED BY <2>3, <2>4, <2>5
  <1> QED BY <1>4, <1>5, <1>9 DEF h, v

\* _filter_sentinel_and_returncode takes out the sentinel and nothing else.
LEMMA FilteredAppend ==
    ASSUME NEW b \in Seq(Frames), NEW f \in Frames,
           \A j, k \in 1..Len(b) : j < k /\ b[j].kind = "sentinel" => b[k].kind # "sentinel"
    PROVE  /\ f.kind # "sentinel" => Filtered(Append(b, f)) = Append(Filtered(b), f)
           /\ f.kind = "sentinel" /\ ~HasSentinel(b) => Filtered(Append(b, f)) = b
  <1> DEFINE c == Append(b, f)
  <1>1. /\ c \in Seq(Frames) /\ Len(b) \in Nat /\ Len(c) = Len(b) + 1 /\ c[Len(b) + 1] = f
        /\ \A i \in 1..Len(b) : c[i] = b[i]
    BY AppendProperties, LenProperties
  <1>2. \A i \in 1..Len(c) : (i \in 1..Len(b) /\ c[i] = b[i]) \/ (i = Len(b) + 1 /\ c[i] = f)
    BY <1>1
  <1> HIDE DEF c
  <1>3. ASSUME f.kind # "sentinel", ~HasSentinel(b) PROVE Filtered(c) = Append(Filtered(b), f)
    <2>1. ~HasSentinel(c)
      BY <1>2, <1>3 DEF HasSentinel
    <2> QED BY <1>3, <2>1 DEF Filtered, c
  <1>4. ASSUME f.kind # "sentinel", HasSentinel(b) PROVE Filtered(c) = Append(Filtered(b), f)
    <2> DEFINE m == SentinelAt(b)
               x == SubSeq(b, 1, m - 1)
               y == SubSeq(b, m + 1, Len(b))
    <2>1. m \in 1..Len(b) /\ b[m].kind = "sentinel"
      BY <1>4 DEF SentinelAt, HasSentinel
    <2>2. HasSentinel(c) /\ SentinelAt(c) = m
      <3>1. m \in 1..Len(c) /\ c[m].kind = "sentinel"
        BY <1>1, <2>1
      <3>2. HasSentinel(c)
        BY <3>1 DEF HasSentinel
      <3>3. SentinelAt(c) \in 1..Len(c) /\ c[SentinelAt(c)].kind = "sentinel"
        BY <3>2 DEF SentinelAt, HasSentinel
      <3>4. SentinelAt(c) \in 1..Len(b) /\ b[SentinelAt(c)].kind = "sentinel"
        BY <1>2, <1>4, <3>3
      <3>5. ~(m < SentinelAt(c)) /\ ~(SentinelAt(c) < m)
        BY <2>1, <3>4
      <3>6. SentinelAt(c) = m
        BY <1>1, <2>1, <3>4, <3>5
      <3> QED BY <3>2, <3>6
    <2> HIDE DEF m
    <2>3. /\ \A j \in 1..Len(b) : b[j] \in Frames
          /\ \A j \in 1..Len(c) : c[j] \in Frames
      BY <1>1, ElementOfSeq
    <2>4. /\ x \in Seq(Frames) /\ Len(x) = m - 1
          /\ \A j \in 1..(m - 1) : x[j] = b[j]
      BY <1>1, <2>1, <2>3, SubSeqProperties
    <2>5. /\ y \in Seq(Frames) /\ Len(y) = Len(b) - m
          /\ \A j \in 1..(Len(b) - m) : y[j] = b[m + j]
      BY <1>1, <2>1, <2>3, SubSeqProperties
    <2>6. SubSeq(c, 1, m - 1) = x
      <3> DEFINE z == SubSeq(c, 1, m - 1)
      <3>1. /\ z \in Seq(Frames) /\ Len(z) = m - 1
            /\ \A j \in 1..(m - 1) : z[j] = c[j]
        BY <1>1, <2>1, <2>3, SubSeqProperties
      <3>2. \A j \in 1..(m - 1) : z[j] = x[j]
        BY <1>1, <2>1, <2>4, <3>1
      <3> HIDE DEF z, x
      <3> QED BY <2>4, <3>1, <3>2, SeqEqual DEF z
    <2>7. SubSeq(c, m + 1, Len(c)) = Append(y, f)
      <3> DEFINE z == SubSeq(c, m + 1, Len(c))
                 a == Append(y, f)
      <3>1. /\ z \in Seq(Frames) /\ Len(z) = Len(b) - m + 1
            /\ \A j \in 1..(Len(b) - m + 1) : z[j] = c[m + j]
        BY <1>1, <2>1, <2>3, SubSeqProperties
      <3> HIDE DEF z, y
      <3>2. /\ a \in Seq(Frames) /\ Len(a) = Len(b) - m + 1 /\ a[Len(b) - m + 1] = f
            /\ \A j \in 1..(Len(b) - m) : a[j] = y[j]
        BY <2>5, AppendProperties
      <3> HIDE DEF a
      <3>3. ASSUME NEW j \in 1..(Len(b) - m + 1) PROVE z[j] = a[j]
        <4>1. CASE j \in 1..(Len(b) - m)
          <5>1. m + j \in 1..Len(b)
            BY <1>1, <2>1, <4>1
          <5> QED BY <1>1, <2>5, <3>1, <3>2, <4>1, <5>1
        <4>2. CASE j = Len(b) - m + 1
          <5>1. m + j = Len(b) + 1
            BY <1>1, <2>1, <4>2
          <5> QED BY <1>1, <3>1, <3>2, <4>2, <5>1
        <4> QED BY <1>1, <2>1, <4>1, <4>2
      <3> QED BY <3>1, <3>2, <3>3, SeqEqual DEF z, a
    <2> HIDE DEF x, y
    <2>8. Filtered(c) = x \o Append(y, f)
      BY <2>2, <2>6, <2>7 DEF Filtered
    <2>9. Filtered(b) = x \o y
      BY <1>4 DEF Filtered, x, y, m
    <2>10. x \o Append(y, f) = Append(x \o y, f)
      BY <2>4, <2>5
    <2> QED BY <2>8, <2>9, <2>10
  <1>5. ASSUME f.kind = "sentinel", ~HasSentinel(b) PROVE Filtered(c) = b
    <2>1. HasSentinel(c) /\ SentinelAt(c) = Len(c)
      <3>1. Len(c) \in 1..Len(c) /\ c[Len(c)].kind = "sentinel"
        BY <1>1, <1>5
      <3>2. HasSentinel(c)
        BY <3>1 DEF HasSentinel
      <3>3. SentinelAt(c) \in 1..Len(c) /\ c[SentinelAt(c)].kind = "sentinel"
        BY <3>2 DEF SentinelAt, HasSentinel
      <3> QED BY <1>1, <1>2, <1>5, <3>2, <3>3 DEF HasSentinel
    <2>2. \A j \in 1..Len(b) : c[j] \in Frames
      BY <1>1, ElementOfSeq
    <2> DEFINE x == SubSeq(c, 1, Len(b))
    <2>3. x \in Seq(Frames) /\ Len(x) = Len(b) /\ \A j \in 1..Len(b) : x[j] = c[j]
      BY <1>1, <2>2, SubSeqProperties
    <2> HIDE DEF x
    <2>4. x = b
      BY <1>1, <2>3, SeqEqual
    <2>5. SubSeq(c, Len(c) + 1, Len(c)) = << >>
      BY <1>1, SubSeqEmpty
    <2>6. Filtered(c) = SubSeq(c, 1, Len(c) - 1) \o SubSeq(c, Len(c) + 1, Len(c))
      BY <2>1 DEF Filtered
    <2>7. SubSeq(c, 1, Len(c) - 1) = b
      BY <1>1, <2>4 DEF x
    <2> QED BY <2>5, <2>6, <2>7, ConcatEmptySeq
  <1> QED BY <1>3, <1>4, <1>5 DEF c

\* What fits is appended whole.
LEMMA AppendLimitedExact ==
    ASSUME NEW b \in Seq(Frames), NEW data \in Seq(Frames), ~Overflows(b, data)
    PROVE  AppendLimited(b, data) = b \o data
  <1>1. Len(b) \in Nat /\ Len(data) \in Nat /\ Limit \in Nat
    BY LenProperties, StreamAssumption
  <1>2. SubSeq(data, 1, Len(data)) = data
    BY SubSeqFull
  <1>3. Room(b, data) = data
    BY <1>1, <1>2 DEF Room, Overflows
  <1> QED BY <1>3 DEF AppendLimited

\* With the wire empty, everything sent has been taken.
LEMMA FlowEnd ==
    ASSUME NEW s \in Seq(Frames), NEW t \in Seq(Frames), NEW ch, Flow(s, t, << >>, ch)
    PROVE  HoldsUpToSentinel(s, t, ch)
  <1>1. << >> # <<Reset>> /\ \A x : ~Holds(<< >>, x)
    BY DEF Holds
  <1> QED BY <1>1 DEF Flow, HoldsUpToSentinel

\* What the client has of channel ch once the frame it can read is in its buffer.
TakenAfter(ch) == Output(ch) \o Filtered(BufAfter[ch])

\* Types of the sequences that the flow is about.
LEMMA TakenTypes ==
    ASSUME StreamInv, NEW ch \in {"out", "err"}
    PROVE  /\ Output(ch) \in Seq(Frames) /\ buf[ch] \in Seq(Frames)
           /\ Taken(ch) \in Seq(Frames) /\ TakenAfter(ch) \in Seq(Frames)
           /\ buf[ch] = << >> => Taken(ch) = Output(ch)
           /\ BufAfter[ch] = << >> => TakenAfter(ch) = Output(ch)
  <1>1. Output(ch) \in Seq(Frames) /\ buf[ch] \in Seq(Frames) /\ BufAfter[ch] \in Seq(Frames)
    BY UpdateFacts DEF Output, StreamInv, TypeOK, Channels
  <1>2. Filtered(buf[ch]) \in Seq(Frames) /\ Filtered(BufAfter[ch]) \in Seq(Frames)
    BY <1>1, FilteredType
  <1>3. Filtered(<< >>) = << >>
    BY DEF Filtered, HasSentinel
  <1>4. Output(ch) \o << >> = Output(ch)
    BY <1>1, ConcatEmptySeq
  <1> QED BY <1>1, <1>2, <1>3, <1>4, ConcatProperties DEF Taken, TakenAfter

\* One update() of WSClient keeps the streams in order.
LEMMA UpdateDelivery ==
    ASSUME StreamInv, DeliveryInv, ~Broken
    PROVE  /\ WireInOrder(sent, WireAfter) /\ WireBound(WireAfter)
           /\ BufferOrder(WireAfter, BufAfter)
           /\ ~ConnectedAfter => \A ch \in Channels : BufAfter[ch] = buf[ch]
           /\ ~ConnectedAfter /\ returncode = NoCode => WireAfter = << >> /\ srv = "closed"
           /\ op = "read" \/ ~truncated => \A ch \in Kept :
                 /\ Flow(sent, TakenAfter(ch), WireAfter, ch)
                 /\ HasSentinel(BufAfter["out"]) => HoldsUpToSentinel(sent, Taken(ch), ch)
                 /\ HasSentinel(BufAfter["out"]) \/ returncode # NoCode =>
                       HoldsUpToSentinel(sent, TakenAfter(ch), ch)
  <1>0. /\ sent \in Seq(Frames) /\ wire \in Seq(Frames) /\ buf \in [Channels -> Seq(Frames)]
        /\ connected \in BOOLEAN
    BY DEF StreamInv, TypeOK
  <1>1. CASE ~Readable
    <2>1. /\ WireAfter = wire /\ BufAfter = buf /\ ConnectedAfter = connected
          /\ \A ch : TakenAfter(ch) = Taken(ch)
      BY <1>0, <1>1 DEF WireAfter, BufAfter, ConnectedAfter, TakenAfter, Taken
    <2> QED
      BY <2>1 DEF DeliveryInv, ServerOrder, LoopOrder, Delivery
  <1>2. CASE Readable
    <2> DEFINE h == Head(wire)
    <2>1. /\ connected /\ wire # << >> /\ h # Reset /\ WireAfter = Tail(wire)
          /\ ConnectedAfter = (h # Close)
          /\ BufAfter = IF h.ch \in Channels THEN [buf EXCEPT ![h.ch] = Append(@, h)] ELSE buf
      BY <1>0, <1>2 DEF Readable, Broken, WireAfter, ConnectedAfter, BufAfter
    <2>2. /\ Len(wire) \in Nat \ {0} /\ h = wire[1] /\ h \in Frames
          /\ Tail(wire) \in Seq(Frames) /\ Len(Tail(wire)) = Len(wire) - 1
          /\ \A k \in 1..Len(Tail(wire)) : Tail(wire)[k] = wire[k + 1]
      BY <1>0, <2>1, LenProperties, EmptySeq, HeadTailProperties
    <2> HIDE DEF h
    <2>3. Numbered(sent) /\ WireInOrder(sent, wire) /\ WireBound(wire)
      BY DEF DeliveryInv, ServerOrder
    <2>4. /\ WireInOrder(sent, WireAfter)
          /\ h = Close => WireAfter = << >>
          /\ \A t \in Seq(Frames), ch \in {"out", "err"} : Flow(sent, t, wire, ch) =>
                 /\ IsData(h, ch) => Flow(sent, Append(t, h), WireAfter, ch)
                 /\ ~IsData(h, ch) => Flow(sent, t, WireAfter, ch)
                 /\ h.kind = "sentinel" => HoldsUpToSentinel(sent, t, ch)
      BY <1>0, <2>1, <2>3, FlowTake DEF h
    <2>5. \A k \in 1..Len(WireAfter) : k + 1 \in 1..Len(wire) /\ 1 < k + 1
                                         /\ WireAfter[k] = wire[k + 1]
      BY <2>1, <2>2
    <2>6. WireBound(WireAfter)
      BY <2>3, <2>5 DEF WireBound, Holds
    <2>7. HasSentinel(WireAfter) => HasSentinel(wire) /\ h.kind # "sentinel"
      <3>1. ASSUME NEW k \in 1..Len(WireAfter), WireAfter[k].kind = "sentinel"
            PROVE  HasSentinel(wire) /\ h.kind # "sentinel"
        <4>1. k + 1 \in 1..Len(wire) /\ 1 < k + 1 /\ wire[k + 1].kind = "sentinel"
              /\ 1 \in 1..Len(wire)
          BY <2>2, <2>5, <3>1
        <4> QED BY <2>2, <2>3, <4>1 DEF HasSentinel, WireInOrder
      <3> QED BY <3>1 DEF HasSentinel
    <2>8. h.kind = "sentinel" => HasSentinel(wire) /\ ~HasSentinel(buf["out"])
      <3>1. h.kind = "sentinel" => HasSentinel(wire)
        BY <2>2 DEF HasSentinel
      <3> QED BY <3>1 DEF DeliveryInv, BufferOrder
    <2>9. /\ h.kind = "sentinel" => h.ch = "out"
          /\ h.ch \in {"out", "err"} => h.kind \in {"data", "sentinel"}
          /\ h.kind = "data" => h.ch \in {"out", "err"}
          /\ h = Close => h.ch \notin Channels
      BY <2>2 DEF Frames, Close, Reset, Channels
    <2>10. ~ConnectedAfter => \A ch \in Channels : BufAfter[ch] = buf[ch]
      BY <2>1, <2>9
    <2>11. ~ConnectedAfter /\ returncode = NoCode => WireAfter = << >> /\ srv = "closed"
      <3>1. 1 \in 1..Len(wire)
        BY <2>2
      <3>2. h = Close => Holds(wire, Close)
        BY <2>2, <3>1 DEF Holds
      <3>3. h = Close => srv = "closed"
        BY <2>3, <3>2 DEF WireBound
      <3> QED BY <2>1, <2>4, <3>3
    \* The buffers after the update, channel by channel.
    <2>12. ASSUME NEW ch \in Channels
           PROVE  /\ h.ch = ch => BufAfter[ch] = Append(buf[ch], h)
                  /\ h.ch # ch => BufAfter[ch] = buf[ch]
      BY <1>0, <2>1
    <2>13. BufferOrder(WireAfter, BufAfter)
      <3>1. ASSUME NEW ch \in Channels, NEW j \in 1..Len(BufAfter[ch])
            PROVE  BufAfter[ch][j].ch = ch
        <4>1. CASE h.ch = ch
          <5>1. BufAfter[ch] = Append(buf[ch], h) /\ buf[ch] \in Seq(Frames)
            BY <1>0, <2>12, <4>1
          <5>2. (j \in 1..Len(buf[ch]) /\ BufAfter[ch][j] = buf[ch][j]) \/ BufAfter[ch][j] = h
            BY <2>2, <3>1, <5>1, AppendProperties, LenProperties
          <5> QED BY <4>1, <5>2 DEF DeliveryInv, BufferOrder
        <4>2. CASE h.ch # ch
          BY <2>12, <3>1, <4>2 DEF DeliveryInv, BufferOrder
        <4> QED BY <4>1, <4>2
      <3> DEFINE b == buf["out"]
                 c == BufAfter["out"]
      <3>2. b \in Seq(Frames) /\ "out" \in Channels
        BY <1>0 DEF Channels
      <3>3. \A j, k \in 1..Len(b) : j < k /\ b[j].kind = "sentinel" => b[k].kind # "sentinel"
        BY DEF DeliveryInv, BufferOrder
      <3>4. CASE h.ch = "out"
        <4>1. c = Append(b, h)
          BY <2>12, <3>2, <3>4
        <4>2. /\ Len(b) \in Nat /\ Len(c) = Len(b) + 1 /\ c[Len(b) + 1] = h
              /\ \A j \in 1..Len(b) : c[j] = b[j]
          BY <2>2, <3>2, <4>1, AppendProperties, LenProperties
        <4>3. HasSentinel(c) => HasSentinel(b) \/ h.kind = "sentinel"
          BY <2>2, <3>2, <4>1, SentinelAppend
        <4> HIDE DEF b, c
        <4>4. ASSUME NEW j \in 1..Len(c), NEW k \in 1..Len(c), j < k, c[j].kind = "sentinel"
              PROVE  c[k].kind # "sentinel"
          <5>1. j \in 1..Len(b) /\ c[j] = b[j]
            BY <4>2, <4>4
          <5>2. HasSentinel(b)
            BY <4>4, <5>1 DEF HasSentinel
          <5>3. CASE k \in 1..Len(b)
            BY <3>3, <4>2, <4>4, <5>1, <5>3
          <5>4. CASE k = Len(b) + 1
            BY <2>8, <4>2, <5>2, <5>4 DEF b
          <5> QED BY <4>2, <5>3, <5>4
        <4>5. HasSentinel(WireAfter) => ~HasSentinel(c)
          BY <2>7, <4>3 DEF DeliveryInv, BufferOrder, b
        <4> QED BY <3>1, <4>4, <4>5 DEF BufferOrder, c
      <3>5. CASE h.ch # "out"
        <4>1. c = b
          BY <2>12, <3>2, <3>5
        <4>2. HasSentinel(WireAfter) => ~HasSentinel(c)
          BY <2>7, <4>1 DEF DeliveryInv, BufferOrder
        <4> QED BY <3>1, <3>3, <4>1, <4>2 DEF BufferOrder
      <3> QED BY <3>4, <3>5
    <2>14. ASSUME op = "read" \/ ~truncated, NEW ch \in Kept
           PROVE  /\ Flow(sent, TakenAfter(ch), WireAfter, ch)
                  /\ HasSentinel(BufAfter["out"]) => HoldsUpToSentinel(sent, Taken(ch), ch)
                  /\ HasSentinel(BufAfter["out"]) \/ returncode # NoCode =>
                        HoldsUpToSentinel(sent, TakenAfter(ch), ch)
      <3>1. ch \in {"out", "err"} /\ ch \in Channels /\ "out" \in Channels
        BY <2>14 DEF Kept, Channels
      <3>2. /\ Output(ch) \in Seq(Frames) /\ buf[ch] \in Seq(Frames)
            /\ Taken(ch) \in Seq(Frames) /\ Filtered(buf[ch]) \in Seq(Frames)
        BY <3>1, TakenTypes, FilteredType
      <3>3. /\ Flow(sent, Taken(ch), wire, ch)
            /\ HasSentinel(buf["out"]) => HoldsUpToSentinel(sent, Taken(ch), ch)
            /\ returncode = NoCode
        <4>1. returncode = NoCode
          BY <2>1 DEF DeliveryInv, LoopOrder
        <4> QED BY <2>14, <4>1 DEF DeliveryInv, Delivery
      <3>4. \A j, k \in 1..Len(buf[ch]) :
               j < k /\ buf[ch][j].kind = "sentinel" => buf[ch][k].kind # "sentinel"
        <4>1. CASE ch = "out"
          BY <4>1 DEF DeliveryInv, BufferOrder
        <4>2. CASE ch = "err"
          <5>1. ASSUME NEW j \in 1..Len(buf[ch]) PROVE buf[ch][j].kind # "sentinel"
            <6>1. buf[ch][j] \in Frames /\ buf[ch][j].ch = "err"
              BY <3>1, <3>2, <4>2, ElementOfSeq DEF DeliveryInv, BufferOrder
            <6> QED BY <6>1 DEF Frames, Close, Reset
          <5> QED BY <5>1
        <4> QED BY <3>1, <4>1, <4>2
      <3>5. IsData(h, ch) => TakenAfter(ch) = Append(Taken(ch), h)
        <4>1. ASSUME IsData(h, ch) PROVE Filtered(BufAfter[ch]) = Append(Filtered(buf[ch]), h)
          BY <2>2, <2>12, <3>1, <3>2, <3>4, <4>1, FilteredAppend DEF IsData
        <4>2. Output(ch) \o Append(Filtered(buf[ch]), h) = Append(Output(ch) \o Filtered(buf[ch]), h)
          BY <2>2, <3>2
        <4> QED BY <4>1, <4>2 DEF TakenAfter, Taken
      <3>6. ~IsData(h, ch) => TakenAfter(ch) = Taken(ch)
        <4>1. CASE h.ch # ch
          BY <2>12, <3>1, <4>1 DEF TakenAfter, Taken
        <4>2. CASE h.ch = ch /\ h.kind = "sentinel"
          <5>1. ch = "out" /\ ~HasSentinel(buf[ch])
            BY <2>8, <2>9, <4>2
          <5>2. Filtered(BufAfter[ch]) = buf[ch]
            <6>1. BufAfter[ch] = Append(buf[ch], h)
              BY <2>12, <3>1, <4>2
            <6>2. Filtered(Append(buf[ch], h)) = buf[ch]
              BY <2>2, <3>2, <3>4, <4>2, <5>1, FilteredAppend
            <6> QED BY <6>1, <6>2
          <5>3. Filtered(buf[ch]) = buf[ch]
            BY <5>1 DEF Filtered
          <5> QED BY <5>2, <5>3 DEF TakenAfter, Taken
        <4> QED BY <2>9, <3>1, <4>1, <4>2 DEF IsData
      <3>7. Flow(sent, TakenAfter(ch), WireAfter, ch)
        BY <2>4, <3>1, <3>2, <3>3, <3>5, <3>6
      <3>8. ASSUME HasSentinel(BufAfter["out"]) PROVE HoldsUpToSentinel(sent, Taken(ch), ch)
        <4>1. HasSentinel(buf["out"]) \/ h.kind = "sentinel"
          <5>1. h.ch = "out" => BufAfter["out"] = Append(buf["out"], h)
            BY <2>12, <3>1
          <5>2. buf["out"] \in Seq(Frames)
            BY <1>0, <3>1
          <5>3. HasSentinel(Append(buf["out"], h)) => HasSentinel(buf["out"]) \/ h.kind = "sentinel"
            BY <2>2, <5>2, SentinelAppend
          <5> QED BY <2>12, <3>1, <3>8, <5>1, <5>3
        <4> QED BY <2>4, <3>1, <3>2, <3>3, <4>1
      <3>9. ASSUME HasSentinel(BufAfter["out"]) PROVE HoldsUpToSentinel(sent, TakenAfter(ch), ch)
        <4>1. \A x : Holds(Taken(ch), x) => Holds(TakenAfter(ch), x)
          <5>1. \A x : Holds(Taken(ch), x) => Holds(Append(Taken(ch), h), x)
            BY <2>2, <3>2, HoldsAppend
          <5> QED BY <3>5, <3>6, <5>1
        <4> QED BY <3>8, <3>9, <4>1 DEF HoldsUpToSentinel
      <3> QED BY <3>3, <3>7, <3>8, <3>9
    <2> QED BY <2>4, <2>6, <2>10, <2>11, <2>13, <2>14
  <1> QED BY <1>1, <1>2

\* A step of the server or of the network leaves what the client has untouched.
LEMMA DeliveryServer ==
    ASSUME StreamInv, DeliveryInv, srv # "closed", UNCHANGED <<givenVars, clientVars>>,
           ServerOrder', HasSentinel(wire') => ~HasSentinel(buf["out"]),
           sent' = sent \/ \E f \in Frames : sent' = Append(sent, f),
           \A t \in Seq(Frames), ch \in {"out", "err"} :
              Flow(sent, t, wire, ch) => Flow(sent', t, wire', ch)
    PROVE  DeliveryInv'
  <1> USE DEF givenVars, clientVars
  <1>1. sent \in Seq(Frames)
    BY DEF StreamInv, TypeOK
  <1>2. LoopOrder'
    BY DEF DeliveryInv, LoopOrder, Done
  <1>3. BufferOrder(wire, buf)'
    BY DEF DeliveryInv, BufferOrder
  <1>4. Delivery'
    <2>1. SUFFICES ASSUME op = "read" \/ ~truncated, NEW ch \in Kept
                   PROVE  /\ Flow(sent', Taken(ch), wire', ch)
                          /\ HasSentinel(buf["out"]) \/ returncode # NoCode =>
                                HoldsUpToSentinel(sent', Taken(ch), ch)
                          /\ pc \in {"loop", "returncode", "result"} /\ ~connected =>
                                HoldsUpToSentinel(sent', Output(ch), ch)
      BY DEF Delivery, Kept, Taken, Output
    <2>2. ch \in {"out", "err"}
      BY DEF Kept
    <2>3. /\ Flow(sent, Taken(ch), wire, ch)
          /\ HasSentinel(buf["out"]) \/ returncode # NoCode => HoldsUpToSentinel(sent, Taken(ch), ch)
          /\ pc \in {"loop", "returncode", "result"} /\ ~connected =>
                HoldsUpToSentinel(sent, Output(ch), ch)
      BY <2>1 DEF DeliveryInv, Delivery
    <2>4. ~connected => returncode # NoCode
      BY DEF DeliveryInv, LoopOrder
    <2>5. HasSentinel(buf["out"]) \/ returncode # NoCode => HasSentinel(sent)
      BY DEF StreamInv, SentinelOnlyIfSent
    <2>6. ASSUME NEW t, HasSentinel(sent), HoldsUpToSentinel(sent, t, ch)
          PROVE  HoldsUpToSentinel(sent', t, ch)
      BY <1>1, <2>6, UpToSentinelStable
    <2>7. Flow(sent', Taken(ch), wire', ch)
      BY <2>2, <2>3, TakenTypes
    <2> QED BY <2>3, <2>4, <2>5, <2>6, <2>7
  <1> QED BY <1>2, <1>3, <1>4 DEF DeliveryInv

LEMMA DeliveryInvInit == Init => DeliveryInv
  <1> SUFFICES ASSUME Init PROVE DeliveryInv
    OBVIOUS
  <1>1. Len(<< >>) = 0 /\ ~HasSentinel(<< >>) /\ Filtered(<< >>) = << >> /\ << >> \o << >> = << >>
    BY DEF HasSentinel, Filtered
  <1>2. ServerOrder
    BY <1>1 DEF Init, ServerOrder, Numbered, WireInOrder, WireBound, Holds
  <1>3. BufferOrder(wire, buf)
    BY <1>1 DEF Init, BufferOrder, Channels
  <1>4. LoopOrder
    BY DEF Init, LoopOrder, NoCode
  <1>5. ASSUME NEW ch \in {"out", "err"} PROVE Taken(ch) = << >>
    BY <1>1 DEF Init, Taken, Output, Channels
  <1>6. \A ch : Flow(<< >>, << >>, << >>, ch)
    BY <1>1 DEF Flow, PrefixOf
  <1>7. Delivery
    BY <1>1, <1>5, <1>6 DEF Init, Delivery, Kept, Channels, NoCode
  <1> QED BY <1>2, <1>3, <1>4, <1>7 DEF DeliveryInv

\* The server's steps.
LEMMA DeliveryServerSteps ==
    ASSUME StreamInv, DeliveryInv,
           \/ \E ch \in {"out", "err"} : SendData(ch)
           \/ SendSentinel \/ SendStatus \/ CloseConnection \/ ResetConnection
    PROVE  DeliveryInv'
  <1>0. /\ sent \in Seq(Frames) /\ wire \in Seq(Frames) /\ exit \in Codes
        /\ HasSentinel(wire) => HasSentinel(sent)
        /\ HasSentinel(buf["out"]) => HasSentinel(sent)
        /\ HasSentinel(wire) => ~HasSentinel(buf["out"])
        /\ Numbered(sent) /\ WireInOrder(sent, wire) /\ WireBound(wire)
        /\ srv = "command" \/ op = "read" => ~HasSentinel(sent)
    BY DEF StreamInv, TypeOK, SentinelOnlyIfSent, DeliveryInv, ServerOrder, BufferOrder
  <1>1. /\ \A ch \in {"out", "err"}, n \in Nat : Data(ch, n) \in Frames
        /\ Sentinel \in Frames
        /\ \A k \in {"exitCode", "noExecutable", "unknown"} : Status(k) \in Frames
        /\ Close \in Frames /\ Reset \in Frames
    BY <1>0, FrameTypes
  <1>2. ASSUME NEW c \in {"out", "err"}, SendData(c) PROVE DeliveryInv'
    <2> DEFINE f == Data(c, Len(sent) + 1)
    <2>1. /\ srv \in {"command", "lingering"} /\ srv' = srv
          /\ wire' = Append(wire, f) /\ sent' = Append(sent, f)
          /\ UNCHANGED <<givenVars, clientVars>>
      BY <1>2 DEF SendData
    <2>2. f \in Frames /\ f.kind = "data" /\ f # Close /\ f # Reset
      BY <1>0, <1>1, LenProperties DEF Data, Close, Reset
    <2>3. \A k \in 1..Len(wire) : wire[k].kind \in {"data", "sentinel"}
      BY <1>0, <2>1 DEF WireBound
    <2>4. /\ Numbered(sent') /\ WireInOrder(sent', wire')
          /\ \A t \in Seq(Frames), ch \in {"out", "err"} :
                Flow(sent, t, wire, ch) => Flow(sent', t, wire', ch)
      BY <1>0, <2>1, <2>3, FlowSendData
    <2> HIDE DEF f
    <2>5. /\ HasSentinel(wire') => HasSentinel(wire)
          /\ HasSentinel(sent') => HasSentinel(sent)
      BY <1>0, <2>1, <2>2, SentinelAppend
    <2>6. WireBound(wire)'
      <3>1. \A k \in 1..Len(wire') : wire'[k].kind \in {"data", "sentinel"}
        BY <1>0, <2>1, <2>2, <2>3, AppendProperties, LenProperties
      <3>2. ~Holds(wire', Close) /\ ~Holds(wire', Reset)
        BY <3>1 DEF Holds, Close, Reset
      <3> QED BY <3>1, <3>2 DEF WireBound
    <2>7. ServerOrder'
      BY <1>0, <2>1, <2>4, <2>5, <2>6 DEF ServerOrder, givenVars
    <2> QED BY <1>0, <2>1, <2>2, <2>4, <2>5, <2>7, DeliveryServer
  <1>3. CASE SendSentinel
    <2>1. /\ srv = "command" /\ srv' = "lingering" /\ op = "exec"
          /\ wire' = Append(wire, Sentinel) /\ sent' = Append(sent, Sentinel)
          /\ UNCHANGED <<givenVars, clientVars>>
      BY <1>3 DEF SendSentinel
    <2>2. Sentinel \in Frames /\ Sentinel.kind = "sentinel"
      BY <1>1 DEF Sentinel
    <2>3. \A k \in 1..Len(wire) : wire[k].kind \in {"data", "sentinel"}
      BY <1>0, <2>1 DEF WireBound
    <2>4. ~HasSentinel(wire) /\ ~HasSentinel(buf["out"])
      BY <1>0, <2>1
    <2>5. /\ Numbered(sent') /\ WireInOrder(sent', wire')
          /\ \A t \in Seq(Frames), ch \in {"out", "err"} :
                Flow(sent, t, wire, ch) => Flow(sent', t, wire', ch)
      BY <1>0, <2>1, <2>2, <2>3, <2>4, FlowSendSentinel
    <2>6. WireBound(wire)'
      <3>1. \A k \in 1..Len(wire') : wire'[k].kind \in {"data", "sentinel"}
        BY <1>0, <2>1, <2>2, <2>3, AppendProperties, LenProperties
      <3>2. ~Holds(wire', Close) /\ ~Holds(wire', Reset)
        BY <3>1 DEF Holds, Close, Reset
      <3> QED BY <3>1, <3>2 DEF WireBound
    <2>7. ServerOrder'
      BY <2>1, <2>5, <2>6 DEF ServerOrder, givenVars
    <2> QED BY <1>0, <2>1, <2>2, <2>4, <2>5, <2>7, DeliveryServer
  \* A frame that says nothing of the output, after which no output is sent.
  <1>4. ASSUME NEW f \in Frames, f.kind \notin {"data", "sentinel"}, srv # "closed",
               NEW r \in {wire, << >>}, r = << >> => f = Reset \/ wire = << >>,
               wire' = Append(r, f), sent' = sent, UNCHANGED <<givenVars, clientVars>>,
               (srv' = "exited" /\ f # Close /\ f # Reset) \/ srv' = "closed"
        PROVE  DeliveryInv'
    <2>1. ~Holds(wire, Close) /\ ~Holds(wire, Reset)
      BY <1>0, <1>4 DEF WireBound
    <2>2. /\ WireInOrder(sent', wire')
          /\ \A t \in Seq(Frames), ch \in {"out", "err"} :
                Flow(sent, t, wire, ch) => Flow(sent', t, wire', ch)
      <3>1. /\ WireInOrder(sent, Append(r, f))
            /\ \A t \in Seq(Frames), ch \in {"out", "err"} :
                  Flow(sent, t, wire, ch) => Flow(sent, t, Append(r, f), ch)
        BY <1>0, <1>4, <2>1, FlowSendControl
      <3> QED BY <1>4, <3>1
    <2>3. r \in Seq(Frames) /\ (\A x : Holds(r, x) => Holds(wire, x))
          /\ (HasSentinel(r) => HasSentinel(wire))
      <3>1. << >> \in Seq(Frames) /\ (\A x : ~Holds(<< >>, x)) /\ ~HasSentinel(<< >>)
        BY EmptySeq DEF Holds, HasSentinel
      <3> QED BY <1>0, <1>4, <3>1
    <2>4. HasSentinel(wire') => HasSentinel(wire)
      BY <1>4, <2>3, SentinelAppend
    <2>5. WireBound(wire)'
      <3>1. \A x : Holds(wire', x) => Holds(wire, x) \/ x = f
        BY <1>4, <2>3, HoldsAppend
      <3> QED BY <1>4, <2>1, <3>1 DEF WireBound
    <2>6. ServerOrder'
      BY <1>0, <1>4, <2>2, <2>5 DEF ServerOrder, givenVars
    <2> QED BY <1>0, <1>4, <2>2, <2>4, <2>6, DeliveryServer
  <1>5. CASE SendStatus
    <2>1. PICK k \in {"exitCode", "noExecutable", "unknown"} : wire' = Append(wire, Status(k))
      BY <1>5 DEF SendStatus
    <2>2. /\ Status(k) \in Frames /\ Status(k).kind \notin {"data", "sentinel"}
          /\ Status(k) # Close /\ Status(k) # Reset
      BY <1>1 DEF Status, Close, Reset
    <2> QED BY <1>4, <1>5, <2>1, <2>2 DEF SendStatus
  <1>6. CASE CloseConnection
    BY <1>1, <1>4, <1>6 DEF CloseConnection, Close
  <1>7. CASE ResetConnection
    BY <1>1, <1>4, <1>7 DEF ResetConnection, Reset
  <1> QED BY <1>2, <1>3, <1>5, <1>6, <1>7

\* The client's steps that read the wire.
LEMMA DeliveryReads ==
    ASSUME StreamInv, DeliveryInv, UNCHANGED <<givenVars, serverVars>>,
           BlockingUpdate \/ HandleStderr \/ ExecStdout \/ ReadStdout
    PROVE  DeliveryInv'
  <1> USE DEF givenVars, serverVars
  <1>0. /\ sent \in Seq(Frames) /\ stdout \in Seq(Frames) /\ stderr \in Seq(Frames)
        /\ op \in {"exec", "read"} /\ truncated \in BOOLEAN /\ connected \in BOOLEAN
        /\ WireAfter \in Seq(Frames)
        /\ BufAfter \in [Channels -> Seq(Frames)] /\ ConnectedAfter \in BOOLEAN
        /\ Channels = {"out", "err", "status"}
    BY UpdateFacts DEF StreamInv, TypeOK, Channels
  <1>1. ~Broken /\ wire' = WireAfter
    BY DEF BlockingUpdate, HandleStderr, ExecStdout, ReadStdout
  <1>2. /\ WireInOrder(sent, WireAfter) /\ WireBound(WireAfter)
        /\ BufferOrder(WireAfter, BufAfter)
        /\ ~ConnectedAfter => \A ch \in Channels : BufAfter[ch] = buf[ch]
        /\ ~ConnectedAfter /\ returncode = NoCode => WireAfter = << >> /\ srv = "closed"
        /\ op = "read" \/ ~truncated => \A ch \in Kept :
              /\ Flow(sent, TakenAfter(ch), WireAfter, ch)
              /\ HasSentinel(BufAfter["out"]) => HoldsUpToSentinel(sent, Taken(ch), ch)
              /\ HasSentinel(BufAfter["out"]) \/ returncode # NoCode =>
                    HoldsUpToSentinel(sent, TakenAfter(ch), ch)
    BY <1>1, UpdateDelivery
  <1>3. ServerOrder'
    BY <1>1, <1>2 DEF DeliveryInv, ServerOrder, WireBound
  <1>4. \A ch \in {"out", "err"} :
           /\ Output(ch) \in Seq(Frames) /\ Taken(ch) \in Seq(Frames)
           /\ TakenAfter(ch) \in Seq(Frames)
           /\ buf[ch] = << >> => Taken(ch) = Output(ch)
           /\ BufAfter[ch] = << >> => TakenAfter(ch) = Output(ch)
    BY TakenTypes
  <1>5. ~HasSentinel(<< >>) /\ Filtered(<< >>) = << >> /\ Len(<< >>) = 0
    BY DEF HasSentinel, Filtered
  <1>6. /\ returncode = NoCode /\ closeRaised = FALSE
        /\ pc \in {"update", "peekErr", "peekOut"}
    <2>1. pc \in {"update", "peekErr", "peekOut"}
      BY DEF BlockingUpdate, HandleStderr, ExecStdout, ReadStdout
    <2>2. returncode = NoCode
      BY <2>1 DEF DeliveryInv, LoopOrder, Done, Results
    <2> QED BY <2>1, <2>2 DEF DeliveryInv, LoopOrder, StreamInv, TypeOK
  \* Emptying the buffer of a channel keeps the buffers in order.
  <1>7. ASSUME NEW ch \in {"out", "err"}
        PROVE  BufferOrder(WireAfter, [BufAfter EXCEPT ![ch] = << >>])
    <2> DEFINE b == [BufAfter EXCEPT ![ch] = << >>]
    <2>1. \A c \in Channels : b[c] = IF c = ch THEN << >> ELSE BufAfter[c]
      BY <1>0
    <2>2. "out" \in Channels
      BY <1>0
    <2> HIDE DEF b
    <2>3. \A c \in Channels : \A j \in 1..Len(b[c]) : b[c][j].ch = c
      BY <1>2, <1>5, <2>1 DEF BufferOrder
    <2>4. \A j, k \in 1..Len(b["out"]) :
             j < k /\ b["out"][j].kind = "sentinel" => b["out"][k].kind # "sentinel"
      BY <1>2, <1>5, <2>1, <2>2 DEF BufferOrder
    <2>5. HasSentinel(WireAfter) => ~HasSentinel(b["out"])
      BY <1>2, <1>5, <2>1, <2>2 DEF BufferOrder
    <2> QED BY <2>3, <2>4, <2>5 DEF BufferOrder, b
  \* The err channel never holds a sentinel.
  <1>8. Filtered(BufAfter["err"]) = BufAfter["err"]
    <2>1. ASSUME NEW j \in 1..Len(BufAfter["err"]) PROVE BufAfter["err"][j].kind # "sentinel"
      <3>1. BufAfter["err"] \in Seq(Frames) /\ BufAfter["err"][j].ch = "err"
        BY <1>0, <1>2 DEF BufferOrder
      <3>2. BufAfter["err"][j] \in Frames
        BY <3>1, ElementOfSeq
      <3> QED BY <3>1, <3>2 DEF Frames, Close, Reset
    <2> QED BY <2>1 DEF Filtered, HasSentinel
  <1>9. CASE BlockingUpdate
    <2>1. /\ pc = "update" /\ connected' = ConnectedAfter /\ buf' = BufAfter
          /\ pc' = IF op = "exec" THEN "peekErr" ELSE "peekOut"
          /\ UNCHANGED <<stdout, stderr, truncated, returncode, closeRaised>>
      BY <1>9 DEF BlockingUpdate, FirstPeek
    <2>2. BufferOrder(wire, buf)'
      BY <1>1, <1>2, <2>1
    <2>3. LoopOrder'
      BY <1>0, <1>1, <1>2, <1>6, <2>1 DEF DeliveryInv, LoopOrder
    <2>4. \A ch : Taken(ch)' = TakenAfter(ch)
      BY <2>1 DEF Taken, TakenAfter, Output
    <2>5. Delivery'
      BY <1>1, <1>2, <1>6, <2>1, <2>4 DEF Delivery, Kept
    <2> QED BY <1>3, <2>2, <2>3, <2>5 DEF DeliveryInv
  <1>10. CASE HandleStderr
    <2>1. /\ pc = "peekErr" /\ connected' = ConnectedAfter
          /\ buf' = [BufAfter EXCEPT !["err"] = << >>]
          /\ stderr' = AppendLimited(stderr, BufAfter["err"])
          /\ truncated' = (truncated \/ Overflows(stderr, BufAfter["err"]))
          /\ pc' = IF op = "exec" THEN "peekOut" ELSE "loop"
          /\ UNCHANGED <<stdout, returncode, closeRaised>>
      BY <1>0, <1>10 DEF HandleStderr, AfterPeek, FirstPeek
    <2>2. BufferOrder(wire, buf)'
      BY <1>1, <1>7, <2>1
    <2>3. buf'["err"] = << >> /\ buf'["out"] = BufAfter["out"]
      BY <1>0, <2>1
    <2>4. LoopOrder'
      BY <1>0, <1>1, <1>2, <1>6, <2>1, <2>3 DEF DeliveryInv, LoopOrder
    <2>5. Taken("out")' = TakenAfter("out")
      BY <2>1, <2>3 DEF Taken, TakenAfter, Output
    <2>6. ~truncated' => ~truncated /\ Taken("err")' = TakenAfter("err")
      <3>1. ASSUME ~truncated' PROVE ~truncated /\ stderr' = stderr \o BufAfter["err"]
        BY <1>0, <2>1, <3>1, AppendLimitedExact
      <3>2. stderr \o BufAfter["err"] \in Seq(Frames)
        BY <1>0, ConcatProperties
      <3>3. (stderr \o BufAfter["err"]) \o << >> = stderr \o BufAfter["err"]
        BY <3>2, ConcatEmptySeq
      <3> QED BY <1>5, <1>8, <2>3, <3>1, <3>3 DEF Taken, TakenAfter, Output
    <2>7. ASSUME op = "read" \/ ~truncated', NEW ch \in Kept PROVE Taken(ch)' = TakenAfter(ch)
      BY <1>0, <2>5, <2>6, <2>7 DEF Kept
    <2>8. ASSUME op = "read", ~ConnectedAfter PROVE HoldsUpToSentinel(sent, stdout, "out")
      <3>1. buf["out"] = << >>
        BY <2>1, <2>8 DEF DeliveryInv, LoopOrder
      <3>2. BufAfter["out"] = << >>
        BY <1>0, <1>2, <2>8, <3>1
      <3>3. TakenAfter("out") = stdout
        BY <1>4, <3>2 DEF Output
      <3>4. Flow(sent, stdout, << >>, "out")
        BY <1>2, <1>6, <2>8, <3>3 DEF Kept
      <3> QED BY <1>0, <3>4, FlowEnd
    <2>9. Delivery'
      <3>1. SUFFICES ASSUME op = "read" \/ ~truncated', NEW ch \in Kept
                     PROVE  /\ Flow(sent, TakenAfter(ch), WireAfter, ch)
                            /\ HasSentinel(buf'["out"]) \/ returncode # NoCode =>
                                  HoldsUpToSentinel(sent, TakenAfter(ch), ch)
                            /\ pc' \in {"loop", "returncode", "result"} /\ ~ConnectedAfter =>
                                  HoldsUpToSentinel(sent, Output(ch)', ch)
        BY <1>1, <2>1, <2>7 DEF Delivery, Kept
      <3>2. op = "read" \/ ~truncated
        BY <2>6, <3>1
      <3>3. ASSUME pc' \in {"loop", "returncode", "result"}, ~ConnectedAfter
            PROVE  HoldsUpToSentinel(sent, Output(ch)', ch)
        BY <1>0, <2>1, <2>8, <3>3 DEF Kept, Output
      <3> QED BY <1>2, <2>3, <3>2, <3>3
    <2> QED BY <1>3, <2>2, <2>4, <2>9 DEF DeliveryInv
  <1>11. CASE ReadStdout
    <2>1. /\ pc = "peekOut" /\ op = "read" /\ connected' = ConnectedAfter
          /\ buf' = [BufAfter EXCEPT !["out"] = << >>]
          /\ stdout' = stdout \o BufAfter["out"]
          /\ pc' \in {"limit", "peekErr"}
          /\ UNCHANGED <<stderr, truncated, returncode, closeRaised>>
      BY <1>11 DEF ReadStdout, AfterPeek, FirstPeek
    <2>2. BufferOrder(wire, buf)'
      BY <1>1, <1>7, <2>1
    <2>3. buf'["out"] = << >>
      BY <1>0, <2>1
    <2>4. LoopOrder'
      BY <1>0, <1>1, <1>2, <1>6, <2>1, <2>3 DEF DeliveryInv, LoopOrder
    <2>5. ~HasSentinel(BufAfter["out"])
      <3>1. ~HasSentinel(sent)
        BY <2>1 DEF DeliveryInv, ServerOrder
      <3> QED BY <3>1, UpdateFacts DEF StreamInv
    <2>6. Taken("out")' = TakenAfter("out")
      <3>1. stdout' \in Seq(Frames)
        BY <1>0, <2>1, ConcatProperties
      <3>2. stdout' \o << >> = stdout'
        BY <3>1, ConcatEmptySeq
      <3>3. Filtered(BufAfter["out"]) = BufAfter["out"]
        BY <2>5 DEF Filtered
      <3> QED BY <1>5, <2>1, <2>3, <3>2, <3>3 DEF Taken, TakenAfter, Output
    <2>7. Delivery'
      BY <1>1, <1>2, <1>5, <1>6, <2>1, <2>3, <2>6 DEF Delivery, Kept
    <2> QED BY <1>3, <2>2, <2>4, <2>7 DEF DeliveryInv
  <1>12. CASE ExecStdout
    <2> DEFINE got == BufAfter["out"]
    <2>1. /\ pc = "peekOut" /\ op = "exec"
          /\ buf' = [BufAfter EXCEPT !["out"] = << >>]
          /\ stdout' = AppendLimited(stdout, Filtered(got))
          /\ truncated' = (truncated \/ Overflows(stdout, Filtered(got)))
          /\ UNCHANGED stderr
      BY <1>12 DEF ExecStdout
    <2>2. /\ HasSentinel(got) => connected' = FALSE /\ returncode' = CodeOf(got)
          /\ ~HasSentinel(got) => /\ connected' = ConnectedAfter
                                  /\ returncode' = NoCode /\ closeRaised' = FALSE
          /\ closeRaised' \in BOOLEAN
          /\ pc' = IF closeRaised' THEN "returncode" ELSE IF truncated' THEN "limit" ELSE "loop"
      BY <1>0, <1>6, <1>12 DEF ExecStdout, AfterPeek, FirstPeek, LimitExceeded
    <2>3. got \in Seq(Frames) /\ Filtered(got) \in Seq(Frames)
      BY <1>0, FilteredType
    <2>4. HasSentinel(got) => returncode' # NoCode
      BY <2>2, <2>3, SentinelFacts, StreamAssumption DEF NoCode
    <2>5. buf'["out"] = << >> /\ buf'["err"] = BufAfter["err"] /\ buf["err"] = << >>
      BY <1>0, <2>1 DEF DeliveryInv, LoopOrder
    <2>6. BufferOrder(wire, buf)'
      BY <1>1, <1>7, <2>1
    <2>7. LoopOrder'
      <3>1. CASE HasSentinel(got)
        BY <1>1, <2>1, <2>2, <2>4, <3>1 DEF LoopOrder, Done
      <3>2. CASE ~HasSentinel(got)
        BY <1>1, <1>2, <1>6, <2>1, <2>2, <3>2 DEF LoopOrder, Done
      <3> QED BY <3>1, <3>2
    <2>8. ~truncated' => /\ ~truncated
                         /\ stdout' = TakenAfter("out") /\ Taken("out")' = TakenAfter("out")
      <3>1. ASSUME ~truncated' PROVE ~truncated /\ stdout' = TakenAfter("out")
        BY <1>0, <2>1, <2>3, <3>1, AppendLimitedExact DEF TakenAfter, Output
      <3>2. TakenAfter("out") \o << >> = TakenAfter("out")
        BY <1>4, ConcatEmptySeq
      <3> QED BY <1>5, <2>5, <3>1, <3>2 DEF Taken, Output
    <2>9. Taken("err")' = TakenAfter("err") /\ Taken("err") = stderr
      BY <1>4, <2>1, <2>5 DEF Taken, TakenAfter, Output
    <2>10. ASSUME ~truncated', NEW ch \in {"out", "err"}
           PROVE  /\ Taken(ch)' = TakenAfter(ch) /\ ch \in Kept /\ ~truncated
                  /\ Output(ch)' = IF ch = "out" THEN TakenAfter("out") ELSE Taken("err")
      BY <2>1, <2>8, <2>9, <2>10 DEF Output, Kept
    \* What came before the sentinel is in the outputs when the loop is left.
    <2>11. ASSUME ~truncated', NEW ch \in {"out", "err"}, ~connected'
           PROVE  HoldsUpToSentinel(sent, Output(ch)', ch)
      <3>1. CASE HasSentinel(got)
        BY <1>2, <2>10, <2>11, <3>1
      <3>2. CASE ~HasSentinel(got)
        <4>1. ~ConnectedAfter /\ WireAfter = << >>
          BY <1>2, <1>6, <2>2, <2>11, <3>2
        <4>2. BufAfter["err"] = << >>
          BY <1>0, <1>2, <2>5, <4>1
        <4>3. TakenAfter("err") = Taken("err")
          BY <1>4, <2>5, <4>2
        <4>4. Output(ch)' = TakenAfter(ch)
          BY <2>10, <2>11, <4>3
        <4>5. Flow(sent, TakenAfter(ch), << >>, ch)
          BY <1>2, <2>10, <2>11, <4>1
        <4>6. TakenAfter(ch) \in Seq(Frames)
          BY <1>4
        <4> QED BY <1>0, <4>4, <4>5, <4>6, FlowEnd
      <3> QED BY <3>1, <3>2
    <2>12. Delivery'
      <3>1. SUFFICES ASSUME ~truncated', NEW ch \in {"out", "err"}
                     PROVE  /\ Flow(sent, TakenAfter(ch), WireAfter, ch)
                            /\ returncode' # NoCode => HoldsUpToSentinel(sent, TakenAfter(ch), ch)
                            /\ ~connected' => HoldsUpToSentinel(sent, Output(ch)', ch)
        BY <1>1, <1>5, <2>1, <2>5, <2>10 DEF Delivery, Kept
      <3>2. returncode' # NoCode => HasSentinel(got)
        BY <2>2
      <3> QED BY <1>2, <2>10, <2>11, <3>1, <3>2
    <2> QED BY <1>3, <2>6, <2>7, <2>12 DEF DeliveryInv
  <1> QED BY <1>9, <1>10, <1>11, <1>12

\* Every step keeps the streams in order.
LEMMA DeliveryInvStep == StreamInv /\ DeliveryInv /\ [Next]_vars => DeliveryInv'
  <1> SUFFICES ASSUME StreamInv, DeliveryInv, [Next]_vars PROVE DeliveryInv'
    OBVIOUS
  \* A step that leaves the wire, the buffers and the outputs alone.
  <1>1. ASSUME UNCHANGED <<givenVars, serverVars, wire, connected, buf, stdout, stderr,
                           truncated, returncode, closeRaised>>,
               LoopOrder', pc' \in {"loop", "returncode", "result"} /\ ~connected =>
                              pc \in {"loop", "returncode", "result"}
        PROVE  DeliveryInv'
    <2>1. ServerOrder' /\ BufferOrder(wire, buf)'
      BY <1>1 DEF DeliveryInv, ServerOrder, WireBound, BufferOrder, givenVars, serverVars
    <2>2. Delivery'
      BY <1>1 DEF DeliveryInv, Delivery, Taken, Output, Kept, givenVars, serverVars
    <2> QED BY <1>1, <2>1, <2>2 DEF DeliveryInv
  <1>2. CASE WriteStdin
    <2>1. LoopOrder'
      BY <1>2 DEF WriteStdin, DeliveryInv, LoopOrder, Done, Results, givenVars, serverVars
    <2> QED BY <1>1, <1>2, <2>1 DEF WriteStdin, DeliveryInv, LoopOrder
  <1>3. CASE LoopTest
    <2>1. LoopOrder'
      BY <1>3 DEF LoopTest, DeliveryInv, LoopOrder, Done, Results, givenVars, serverVars
    <2> QED BY <1>1, <1>3, <2>1 DEF LoopTest
  <1>4. CASE ConnectionLost
    <2>1. LoopOrder'
      BY <1>4 DEF ConnectionLost, DeliveryInv, LoopOrder, Done, Results, givenVars, serverVars
    <2> QED BY <1>1, <1>4, <2>1 DEF ConnectionLost
  <1>5. CASE Conclude
    <2>0. pc' \in Done \ {"limit", "connectionLost"}
      BY <1>5 DEF Conclude, OutcomesOf, Done, Results
    <2>1. LoopOrder'
      BY <1>5, <2>0 DEF Conclude, DeliveryInv, LoopOrder, Done, Results, givenVars, serverVars
    <2> QED BY <1>1, <1>5, <2>1 DEF Conclude
  <1>6. CASE UNCHANGED vars
    <2>1. LoopOrder'
      BY <1>6 DEF vars, DeliveryInv, LoopOrder
    <2> QED BY <1>1, <1>6, <2>1 DEF vars, givenVars, serverVars
  <1>7. CASE BlockingUpdate \/ HandleStderr \/ ExecStdout \/ ReadStdout
    <2>1. UNCHANGED <<givenVars, serverVars>>
      BY <1>7 DEF BlockingUpdate, HandleStderr, ExecStdout, ReadStdout
    <2> QED BY <1>7, <2>1, DeliveryReads
  <1> QED BY StepCases, DeliveryServerSteps, <1>2, <1>3, <1>4, <1>5, <1>6, <1>7

\* At a result the invariant says that the outputs are complete.
LEMMA DeliveryImpliesComplete == StreamInv /\ DeliveryInv => OutputComplete
  <1> SUFFICES ASSUME StreamInv, DeliveryInv, pc = "result", ~closeRaised, NEW ch \in Kept
               PROVE  PrefixOf(sent, Output(ch), ch) /\ HoldsUpToSentinel(sent, Output(ch), ch)
    BY DEF OutputComplete, Kept, Output, StreamInv, TypeOK
  <1>1. op = "read" \/ ~truncated
    BY DEF DeliveryInv, LoopOrder, StreamInv, TypeOK
  <1>2. /\ PrefixOf(sent, Taken(ch), ch)
        /\ HoldsUpToSentinel(sent, Output(ch), ch)
    BY <1>1 DEF DeliveryInv, LoopOrder, Delivery, Flow
  <1> DEFINE t == Taken(ch)
             o == Output(ch)
             x == Filtered(buf[ch])
  <1>3. /\ o \in Seq(Frames) /\ x \in Seq(Frames) /\ t \in Seq(Frames) /\ t = o \o x
        /\ sent \in Seq(Frames)
    BY TakenTypes, FilteredType DEF Kept, StreamInv, TypeOK, Taken
  <1>4. /\ Len(o) \in Nat /\ Len(x) \in Nat /\ Len(t) = Len(o) + Len(x)
        /\ \A j \in 1..Len(o) : j \in 1..Len(t) /\ t[j] = o[j]
    BY <1>3, LenProperties, ConcatProperties
  <1> HIDE DEF t, o, x
  <1>5. PrefixOf(sent, t, ch)
    BY <1>2 DEF t
  <1>6. ASSUME NEW i \in 1..Len(sent), NEW j \in 1..Len(o), IsData(sent[i], ch),
               sent[i].n < o[j].n
        PROVE  Holds(o, sent[i])
    <2>1. j \in 1..Len(t) /\ t[j] = o[j]
      BY <1>4
    <2>2. Holds(t, sent[i])
      BY <1>5, <1>6, <2>1 DEF PrefixOf
    <2>3. PICK m \in 1..Len(t) : t[m] = sent[i]
      BY <2>2 DEF Holds
    <2>4. sent[i].n = i /\ i \in Nat
      BY <1>6 DEF DeliveryInv, ServerOrder, Numbered, IsData
    <2>5. ~(j < m)
      <3>1. ASSUME j < m PROVE FALSE
        <4>1. t[j].n < t[m].n
          BY <1>5, <2>1, <2>3, <3>1 DEF PrefixOf
        <4>2. t[j].n \in Int
          <5>1. t[j] \in Frames
            BY <1>3, <2>1, ElementOfSeq
          <5>2. IsData(t[j], ch)
            BY <1>5, <2>1 DEF PrefixOf
          <5> QED BY <5>1, <5>2 DEF Frames, IsData, Close, Reset
        <4> QED BY <1>6, <2>1, <2>3, <2>4, <4>1, <4>2
      <3> QED BY <3>1
    <2>6. m \in 1..Len(o)
      BY <1>4, <2>1, <2>3, <2>5
    <2> QED BY <1>4, <2>3, <2>6 DEF Holds
  <1>7. PrefixOf(sent, o, ch)
    <2>1. \A j \in 1..Len(o) : IsData(o[j], ch) /\ Holds(sent, o[j])
      BY <1>4, <1>5 DEF PrefixOf
    <2>2. \A j, k \in 1..Len(o) : j < k => o[j].n < o[k].n
      BY <1>4, <1>5 DEF PrefixOf
    <2> QED BY <1>6, <2>1, <2>2 DEF PrefixOf
  <1> QED BY <1>2, <1>7 DEF o

\* A result holds everything the command wrote before its end, in order and with
\* nothing added: no frame is lost between the socket, WSClient's buffers and the
\* LimitedBuffers, in whatever order the frames arrive and the loop reads them.
THEOREM OutputCompleteHolds == Spec => []OutputComplete
  <1>1. Spec => []DeliveryInv
    BY StreamInvariant, DeliveryInvInit, DeliveryInvStep, PTL DEF Spec
  <1> QED BY <1>1, StreamInvariant, DeliveryImpliesComplete, PTL

===============================================================================
