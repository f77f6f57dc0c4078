---- MODULE StreamProofs ----
(****************************************************************************)
(* The theorems of the two streams of a pod, its log and its terminal: what *)
(* is delivered before a stream stops, who may still be inside a connection *)
(* that is closed, and what nothing frees any more.                         *)
(****************************************************************************)
EXTENDS LogStream, PodTerminal, TLAPS

(****************************************************************************)
(* The log stream.  For any capacity, number of retries and log: a stream   *)
(* that stops under a client that is still there has delivered all that was *)
(* read.                                                                    *)
(****************************************************************************)

\* The context is done only when the client has gone or the request is over, so the producer ends
\* early only then; the lines read come from those written, and what was made of
\* them is on its way as long as the client is there.
LogInv ==
  /\ LogTypeOK /\ unread <= written
  /\ producer = "send" <=> pending > 0
  /\ cancelled => client = "gone" \/ streamer = "returned"
  /\ ~monitoring => cancelled
  /\ producer = "done" =>
       \/ client = "gone" \/ log \in {"timedOut", "broken"}
       \/ log = "ended" /\ unread = 0
  /\ streamer = "returned" => producer = "done"
  /\ streamer \in {"wait", "returned"} /\ client = "there" => producer = "done" /\ buffered = 0
  /\ client = "there" => made = delivered + buffered + pending

\* Holds initially.
LEMMA InitHasLogInv == LogInit => LogInv
<1> SUFFICES ASSUME LogInit PROVE LogInv
  OBVIOUS
<1>1. LogTypeOK
  <2>1. follow \in BOOLEAN /\ monitoring \in BOOLEAN /\ cancelled \in BOOLEAN
    BY DEF LogInit
  <2>2. log \in {"open", "ended", "timedOut", "broken"}
    BY DEF LogInit
  <2> QED BY <2>1, <2>2, LogAssumption DEF LogInit, LogTypeOK
<1>2. QED
  BY <1>1 DEF LogInit, LogInv, LogTypeOK

\* The pod, the cluster and the client keep the invariant.
LEMMA WorldKeeps ==
  ASSUME LogInv, PodWrites \/ (\E how \in {"ended", "timedOut", "broken"} : LogStops(how)) \/ ClientLeaves
  PROVE  LogInv'
<1>1. CASE PodWrites
  BY <1>1, LogAssumption DEF LogInv, LogTypeOK, PodWrites, producerVars
<1>2. ASSUME NEW how \in {"ended", "timedOut", "broken"}, LogStops(how) PROVE LogInv'
  BY <1>2 DEF LogInv, LogTypeOK, LogStops, producerVars
<1>3. CASE ClientLeaves
  BY <1>3 DEF LogInv, LogTypeOK, ClientLeaves, producerVars, podVars
<1> QED BY <1>1, <1>2, <1>3

\* The producer keeps it: only a context that is done, an error or the end of the log ends it.
LEMMA ProducerKeeps == ASSUME LogInv, ProducerStep PROVE LogInv'
<1> USE LogAssumption DEF LogInv, LogTypeOK
<1>1. CASE Check
  BY <1>1 DEF Check, ProducerRests
<1>2. CASE ReadLine
  BY <1>2 DEF ReadLine, ProducerRests
<1>3. CASE ReadEnd
  BY <1>3 DEF ReadEnd, ProducerRests
<1>4. CASE ReadFails
  BY <1>4 DEF ReadFails, ProducerRests
<1>5. CASE Send
  BY <1>5 DEF Send, podVars
<1>6. CASE Pause
  BY <1>6 DEF Pause, ProducerRests
<1> QED BY <1>1, <1>2, <1>3, <1>4, <1>5, <1>6 DEF ProducerStep

\* The request goroutine keeps it: it stops when the channel is closed and empty, or the client gone.
LEMMA StreamerKeeps == ASSUME LogInv, StreamerStep PROVE LogInv'
<1> USE LogAssumption DEF LogInv, LogTypeOK, StreamerRests, podVars, producerVars
<1>1. CASE NextTurn
  BY <1>1 DEF NextTurn
<1>2. CASE Receive
  BY <1>2 DEF Receive
<1>3. CASE StopStreaming
  BY <1>3 DEF StopStreaming
<1>4. CASE Return
  BY <1>4 DEF Return
<1> QED BY <1>1, <1>2, <1>3, <1>4 DEF StreamerStep

\* So does the monitor.
LEMMA MonitorKeeps == ASSUME LogInv, MonitorStep PROVE LogInv'
BY DEF LogInv, LogTypeOK, MonitorStep, podVars, producerVars

\* LogInv holds in every reachable state.
THEOREM LogInvariant == LogSafety => []LogInv
<1>1. LogInv /\ [LogNext]_logVars => LogInv'
  <2> SUFFICES ASSUME LogInv, [LogNext]_logVars PROVE LogInv'
    OBVIOUS
  <2>1. CASE UNCHANGED logVars
    BY <2>1 DEF LogInv, LogTypeOK, logVars, podVars, producerVars
  <2>2. CASE LogNext
    BY <2>2, WorldKeeps, ProducerKeeps, StreamerKeeps, MonitorKeeps DEF LogNext
  <2> QED BY <2>1, <2>2
<1> QED BY <1>1, InitHasLogInv, PTL DEF LogSafety

\* A stream that stops under a client that is still there has delivered every message made of the
\* lines read, and every line was read unless the log timed out or broke (pkg/sse/stream.go).
THEOREM StreamDelivers == LogSafety => []DeliveredInFull
<1>1. LogInv => DeliveredInFull
  BY DEF LogInv, LogTypeOK, DeliveredInFull
<1> QED BY <1>1, LogInvariant, PTL

\* A producer in a send that nobody will receive: the request waits for it, and it for the request.
AbandonedSend == streamer = "wait" /\ producer = "send" /\ buffered = Capacity

\* No client, pod or context frees such a producer: its goroutine and the request goroutine are held
\* until the process ends (pkg/sse/stream.go:127, internal/k8s/service/pod_service.go:583).
THEOREM AbandonedForever == LogSafety => [][AbandonedSend => AbandonedSend']_logVars
<1>1. ASSUME AbandonedSend, [LogNext]_logVars PROVE AbandonedSend'
  <2> USE <1>1 DEF AbandonedSend
  <2>1. CASE UNCHANGED logVars
    BY <2>1 DEF logVars, producerVars
  <2>2. CASE PodWrites \/ (\E how \in {"ended", "timedOut", "broken"} : LogStops(how)) \/ ClientLeaves
    BY <2>2 DEF PodWrites, LogStops, ClientLeaves, producerVars
  <2>3. CASE ProducerStep
    BY <2>3, LogAssumption
    DEF ProducerStep, Check, ReadLine, ReadEnd, ReadFails, Send, Pause
  <2>4. CASE StreamerStep
    BY <2>4 DEF StreamerStep, NextTurn, Receive, StopStreaming, Return
  <2>5. CASE MonitorStep
    BY <2>5 DEF MonitorStep, producerVars
  <2> QED BY <1>1, <2>1, <2>2, <2>3, <2>4, <2>5 DEF LogNext
<1> QED BY <1>1, PTL DEF LogSafety

(****************************************************************************)
(* The terminal.  For any number of shells and messages: nobody is inside a *)
(* connection that is closed, and the websocket has one writer at a time.   *)
(****************************************************************************)

\* A shell whose output may still be copied is the last one started, and while another is being
\* started or the client is told of an error there is none.
OutputInv ==
  /\ \A k \in Attempts : k # session.shell => output[k] \in {"none", "ended"}
  /\ session.pc \in {"detect", "start", "report", "inside"} =>
       \A k \in Attempts : output[k] \in {"none", "ended"}

TerminalInv == TerminalTypeOK /\ OutputInv /\ NobodyAfterClose

\* Holds initially.
LEMMA InitHasTerminalInv == TerminalInit => TerminalInv
<1> SUFFICES ASSUME TerminalInit PROVE TerminalInv
  OBVIOUS
<1>1. 1 \in Attempts /\ 0 \in 0..MaxMessages
  BY TerminalAssumption DEF Attempts
<1>2. expired \in BOOLEAN /\ done \in BOOLEAN /\ resizing \in BOOLEAN
  BY DEF TerminalInit
<1>3. TerminalTypeOK
  BY <1>1, <1>2 DEF TerminalInit, TerminalTypeOK
<1> QED BY <1>3 DEF TerminalInit, TerminalInv, OutputInv, NobodyAfterClose

\* The client and the clock keep the invariant.
LEMMA PeerKeeps ==
  ASSUME TerminalInv, ClientSends \/ ClientGoes \/ DeadlinePasses
  PROVE  TerminalInv'
<1> USE TerminalAssumption DEF TerminalInv, TerminalTypeOK, OutputInv, NobodyAfterClose, ReadLocked, Reading, Writing
<1>1. CASE ClientSends
  BY <1>1 DEF ClientSends, Messages
<1>2. CASE ClientGoes
  BY <1>2 DEF ClientGoes
<1>3. CASE DeadlinePasses
  BY <1>3 DEF DeadlinePasses
<1> QED BY <1>1, <1>2, <1>3

\* The goroutine of the request keeps it: a shell starts, and an error is reported, only after the
\* output of the shell before is copied.
LEMMA SessionKeeps ==
  ASSUME TerminalInv, SessionStep \/ ShellExits
  PROVE  TerminalInv'
<1> USE TerminalAssumption
    DEF TerminalInv, TerminalTypeOK, OutputInv, NobodyAfterClose, ReadLocked, Reading, Writing, SessionRests,
        peerVars, SessionAt, Attempts
<1>1. CASE Detect
  BY <1>1 DEF Detect
<1>2. CASE StartShell
  BY <1>2 DEF StartShell
<1>3. CASE StartFails
  BY <1>3 DEF StartFails, NextShell
<1>4. CASE RunCancelled
  BY <1>4 DEF RunCancelled
<1>5. CASE Report
  BY <1>5 DEF Report
<1>6. CASE Close
  BY <1>6 DEF Close
<1>7. CASE TearDown
  BY <1>7 DEF TearDown
<1>8. CASE ShellExits
  BY <1>8 DEF ShellExits, NextShell
<1> QED BY <1>1, <1>2, <1>3, <1>4, <1>5, <1>6, <1>7, <1>8 DEF SessionStep

\* The input copiers keep it: those that enter late find the session closed.
LEMMA InputKeeps ==
  ASSUME TerminalInv, NEW k \in Attempts, InputStep(k)
  PROVE  TerminalInv'
<1> USE DEF TerminalInv, TerminalTypeOK, OutputInv, NobodyAfterClose, ReadLocked, Reading, Writing, InputRests,
            InputAt, Closed, MayEnter
<1>1. CASE CheckRead(k)
  BY <1>1 DEF CheckRead
<1>2. CASE EnterRead(k)
  BY <1>2 DEF EnterRead
<1>3. CASE ReadInput(k)
  BY <1>3 DEF ReadInput, Message
<1>4. CASE ReadSize(k)
  BY <1>4 DEF ReadSize, Message
<1>5. CASE ReadPong(k)
  BY <1>5 DEF ReadPong, Message
<1>6. CASE HandlePong(k)
  BY <1>6 DEF HandlePong
<1>7. CASE ReadEnds(k)
  BY <1>7 DEF ReadEnds
<1> QED BY <1>1, <1>2, <1>3, <1>4, <1>5, <1>6, <1>7 DEF InputStep

\* So do the output copiers,
LEMMA OutputKeeps ==
  ASSUME TerminalInv, NEW k \in Attempts, ShellPrints(k) \/ WriteOutput(k)
  PROVE  TerminalInv'
<1> USE DEF TerminalInv, TerminalTypeOK, OutputInv, NobodyAfterClose, ReadLocked, Reading, Writing, OutputRests,
            OutputAt, Closed, MayEnter, peerVars
<1>1. CASE ShellPrints(k)
  BY <1>1 DEF ShellPrints, Running
<1>2. CASE WriteOutput(k)
  BY <1>2 DEF WriteOutput
<1> QED BY <1>1, <1>2

\* and the heartbeat and the questions for sizes.
LEMMA OthersKeep ==
  ASSUME TerminalInv, BeatStep \/ NextSize
  PROVE  TerminalInv'
<1> USE DEF TerminalInv, TerminalTypeOK, OutputInv, NobodyAfterClose, ReadLocked, Reading, Writing, BeatRests,
            Closed, MayEnter, peerVars
<1>1. CASE BeatStarts
  BY <1>1 DEF BeatStarts
<1>2. CASE BeatEnters
  BY <1>2 DEF BeatEnters
<1>3. CASE Ping
  BY <1>3 DEF Ping
<1>4. CASE NextSize
  BY <1>4 DEF NextSize
<1> QED BY <1>1, <1>2, <1>3, <1>4 DEF BeatStep

\* TerminalInv holds in every reachable state.
THEOREM TerminalInvariant == TerminalSafety => []TerminalInv
<1>1. TerminalInv /\ [TerminalNext]_terminalVars => TerminalInv'
  <2> SUFFICES ASSUME TerminalInv, [TerminalNext]_terminalVars PROVE TerminalInv'
    OBVIOUS
  <2>1. CASE UNCHANGED terminalVars
    BY <2>1 DEF TerminalInv, TerminalTypeOK, OutputInv, NobodyAfterClose, ReadLocked, Reading, Writing,
                terminalVars, peerVars
  <2>2. CASE TerminalNext
    BY <2>2, PeerKeeps, SessionKeeps, InputKeeps, OutputKeeps, OthersKeep DEF TerminalNext
  <2> QED BY <2>1, <2>2
<1> QED BY <1>1, InitHasTerminalInv, PTL DEF TerminalSafety

\* After Close no goroutine is inside the connection or may send a size (pkg/utils/terminal/terminal.go).
THEOREM ClosedIsLeft == TerminalSafety => []NobodyAfterClose
<1>1. TerminalInv => NobodyAfterClose
  BY DEF TerminalInv
<1> QED BY <1>1, TerminalInvariant, PTL

\* The websocket has one writer at a time, although writers hold a read lock only.
THEOREM WritersTakeTurns == TerminalSafety => []OneWriter
<1>1. TerminalInv => OneWriter
  BY DEF TerminalInv, OutputInv, OneWriter, Writing
<1> QED BY <1>1, TerminalInvariant, PTL

\* A session held by a pong is held for ever: the reader waits for Close, Close for the reader
\* (pkg/utils/terminal/terminal.go:171 and 437).
THEOREM HeldForever == TerminalSafety => [][PongHeld => PongHeld']_terminalVars
<1>1. ASSUME TerminalInv, PongHeld, [TerminalNext]_terminalVars PROVE PongHeld'
  <2> USE DEF PongHeld
  <2>0. PICK k \in Attempts : session.pc = "lock" /\ input[k] = "pong"
    BY <1>1
  <2> SUFFICES session' = session /\ input'[k] = "pong"
    BY <2>0
  <2>1. CASE UNCHANGED terminalVars
    BY <2>0, <2>1 DEF terminalVars
  <2>2. CASE ClientSends \/ ClientGoes \/ DeadlinePasses
    BY <2>0, <2>2 DEF ClientSends, ClientGoes, DeadlinePasses
  <2>3. CASE SessionStep \/ ShellExits
    BY <2>0, <2>3
    DEF SessionStep, ShellExits, Detect, StartShell, StartFails, RunCancelled, Report, Close, TearDown,
        ReadLocked, Reading
  <2>4. ASSUME NEW l \in Attempts, InputStep(l) PROVE session' = session /\ input'[k] = "pong"
    BY <1>1, <2>0, <2>4
    DEF TerminalInv, TerminalTypeOK, InputStep, CheckRead, EnterRead, ReadInput, ReadSize, ReadPong, HandlePong, ReadEnds, Message,
        InputAt, InputRests, MayEnter
  <2>5. ASSUME NEW l \in Attempts, ShellPrints(l) \/ WriteOutput(l) PROVE session' = session /\ input'[k] = "pong"
    BY <2>0, <2>5 DEF ShellPrints, WriteOutput, OutputRests
  <2>6. CASE BeatStep \/ NextSize
    BY <2>0, <2>6 DEF BeatStep, BeatStarts, BeatEnters, Ping, BeatRests, NextSize
  <2> QED BY <1>1, <2>1, <2>2, <2>3, <2>4, <2>5, <2>6 DEF TerminalNext
<1> QED BY <1>1, TerminalInvariant, PTL DEF TerminalSafety
====
