---- MODULE PodTerminal ----
(******************************************************************************)
(* One terminal in a pod: a websocket to the client, and one shell after      *)
(* another until one ends well.  Every shell gets a goroutine that copies its *)
(* input from the websocket and one that copies its output to it; a heartbeat *)
(* sends pings.  All enter the connection under the read lock, and look again *)
(* under it whether the session is closed; Close takes the write lock.  As    *)
(* Go's RWMutex has it, nobody gets the read lock once Close waits for the    *)
(* write lock.                                                                *)
(*                                                                            *)
(*   check -> enter -> inside                                                 *)
(*                                                                            *)
(* A pong is handled inside a read, and enters a second time.  The reads of   *)
(* two shells are a data race: either gets the message, or an error.          *)
(******************************************************************************)
EXTENDS Naturals

CONSTANTS
  Shells,       \* number of shells on the list
  MaxMessages   \* bound: messages the client sends

ASSUME TerminalAssumption == Shells \in Nat \ {0} /\ MaxMessages \in Nat

VARIABLES
  peer,      \* the client, "there" or "gone"
  arriving,  \* the message on its way from the client
  sent,      \* messages sent so far
  expired,   \* the read deadline has passed: every read fails from now on
  session,   \* the goroutine of the request: where it is, and at which shell
  done,      \* its context is cancelled
  input,     \* each shell's input copier
  output,    \* each shell's output copier
  beat,      \* the heartbeat
  sizes,     \* the channel of terminal sizes
  resizing   \* a goroutine of client-go asks Next for sizes

peerVars == <<peer, arriving, sent, expired>>
terminalVars == <<peerVars, session, done, input, output, beat, sizes, resizing>>

Attempts == 1..Shells
Messages == {"stdin", "resize", "pong"}

TerminalInit ==
  /\ peer = "there" /\ arriving = "none" /\ sent = 0 /\ expired = FALSE
  /\ session = [pc |-> "detect", shell |-> 1] /\ done = FALSE
  /\ input = [k \in Attempts |-> "none"] /\ output = [k \in Attempts |-> "none"]
  /\ beat = "wait" /\ sizes = "empty" /\ resizing = FALSE

TerminalTypeOK ==
  /\ peer \in {"there", "gone"} /\ arriving \in Messages \cup {"none"}
  /\ sent \in 0..MaxMessages /\ expired \in BOOLEAN /\ done \in BOOLEAN
  /\ session \in [pc : {"detect", "start", "run", "report", "inside", "close", "closed", "lock", "over"},
                  shell : Attempts]
  /\ input \in [Attempts -> {"none", "check", "enter", "inside", "pong", "ended"}]
  /\ output \in [Attempts -> {"none", "idle", "enter", "inside", "ended"}]
  /\ beat \in {"wait", "enter", "inside", "ended"}
  /\ sizes \in {"empty", "full", "closed"} /\ resizing \in BOOLEAN

\* closed = 1; the connection itself is closed when the session is over.
Closed == session.pc \in {"closed", "lock", "over"}
Running(k) == session = [pc |-> "run", shell |-> k]

Reading == {k \in Attempts : input[k] \in {"inside", "pong"}}
Writing == {k \in Attempts : output[k] = "inside"}
ReadLocked == Reading # {} \/ Writing # {} \/ beat = "inside" \/ session.pc = "inside"
MayEnter == session.pc # "lock"

----
\* The client, the shell and the clock.

ClientSends ==
  /\ peer = "there" /\ arriving = "none" /\ sent < MaxMessages
  /\ arriving' \in Messages /\ sent' = sent + 1
  /\ UNCHANGED <<peer, expired, session, done, input, output, beat, sizes, resizing>>

ClientGoes ==
  /\ peer = "there" /\ peer' = "gone"
  /\ UNCHANGED <<arriving, sent, expired, session, done, input, output, beat, sizes, resizing>>

\* 30 seconds without a pong that was read: nothing reads while the container is examined.
DeadlinePasses ==
  /\ ~expired /\ expired' = TRUE
  /\ UNCHANGED <<peer, arriving, sent, session, done, input, output, beat, sizes, resizing>>

----
\* The goroutine of the request.

SessionRests == UNCHANGED <<peerVars, beat>>
SessionAt(pc) == session' = [session EXCEPT !.pc = pc]

\* What examining the container finds decides which shells are tried.
Detect ==
  /\ session.pc = "detect" /\ SessionAt("start")
  /\ UNCHANGED <<done, input, output, sizes, resizing>> /\ SessionRests

\* The next shell after an error; after the last one the client is told.
NextShell ==
  IF session.shell < Shells
  THEN session' = [pc |-> "start", shell |-> session.shell + 1]
  ELSE SessionAt("report")

StartShell ==
  /\ session.pc = "start" /\ ~done /\ SessionAt("run")
  /\ input' = [input EXCEPT ![session.shell] = "check"]
  /\ output' = [output EXCEPT ![session.shell] = "idle"]
  /\ resizing' = TRUE
  /\ UNCHANGED <<done, sizes>> /\ SessionRests

\* The stream does not come about; with a cancelled context nothing else is tried.
StartFails ==
  /\ session.pc = "start"
  /\ IF done THEN SessionAt("close") ELSE NextShell
  /\ UNCHANGED <<done, input, output, sizes, resizing>> /\ SessionRests

\* The shell has exited, or could not be run, and its output is copied; an exit code is an error.
ShellExits ==
  /\ session.pc = "run" /\ output[session.shell] \in {"idle", "ended"}
  /\ SessionAt("close") \/ NextShell
  /\ output' = [output EXCEPT ![session.shell] = "ended"]
  /\ UNCHANGED <<done, input, sizes, resizing>> /\ SessionRests

\* mutant: a session that was cancelled is reported as an error too.
RunCancelledReported ==
  /\ session.pc = "run" /\ done /\ SessionAt("report")
  /\ UNCHANGED <<done, input, output, sizes, resizing>> /\ SessionRests

\* The context is cancelled: the copiers are left to themselves and no other shell is tried.
RunCancelled ==
  /\ session.pc = "run" /\ done /\ SessionAt("close")
  /\ UNCHANGED <<done, input, output, sizes, resizing>> /\ SessionRests

\* writeErrorMessage: enter and write, and leave.
Report ==
  /\ \/ session.pc = "report" /\ SessionAt("inside")
     \/ session.pc = "inside" /\ SessionAt("close")
  /\ UNCHANGED <<done, input, output, sizes, resizing>> /\ SessionRests

\* Close: mark the session, then ask for the write lock.
Close ==
  /\ \/ session.pc = "close" /\ SessionAt("closed")
     \/ session.pc = "closed" /\ SessionAt("lock")
  /\ UNCHANGED <<done, input, output, sizes, resizing>> /\ SessionRests

\* A size in the channel is taken for its end, and the channel not closed; then the deferred cancel.
TearDown ==
  /\ session.pc = "lock" /\ ~ReadLocked /\ SessionAt("over")
  /\ sizes' = IF sizes = "full" THEN "empty" ELSE "closed"
  /\ done' = TRUE
  /\ UNCHANGED <<input, output, resizing>> /\ SessionRests

SessionStep == Detect \/ StartShell \/ StartFails \/ RunCancelled \/ Report \/ Close \/ TearDown

----
\* The input copier of shell k: Read, and a write to the shell.

InputRests == UNCHANGED <<peer, sent, expired, session, done, output, beat, resizing>>
InputAt(k, pc) == input' = [input EXCEPT ![k] = pc]

CheckRead(k) ==
  /\ input[k] = "check" /\ InputAt(k, IF Closed THEN "ended" ELSE "enter")
  /\ UNCHANGED <<arriving, sizes>> /\ InputRests

\* mutant: the session is not looked at again under the lock.
EnterReadUnchecked(k) ==
  /\ input[k] = "enter" /\ MayEnter /\ InputAt(k, "inside")
  /\ UNCHANGED <<arriving, sizes>> /\ InputRests

EnterRead(k) ==
  /\ input[k] = "enter" /\ MayEnter /\ InputAt(k, IF Closed THEN "ended" ELSE "inside")
  /\ UNCHANGED <<arriving, sizes>> /\ InputRests

Message(k, m) == input[k] = "inside" /\ ~expired /\ arriving = m /\ arriving' = "none"

\* Input for a shell that is not running any more is lost, and ends the copier that took it.
ReadInput(k) ==
  /\ Message(k, "stdin")
  /\ InputAt(k, IF Running(k) THEN "check" ELSE "ended")
  /\ UNCHANGED sizes /\ InputRests

\* A size is dropped when the last one has not been asked for.
ReadSize(k) ==
  /\ Message(k, "resize") /\ InputAt(k, "check")
  /\ sizes' = IF sizes = "empty" THEN "full" ELSE sizes
  /\ InputRests

\* The first look of the pong handler; the read goes on when the session is closed.
ReadPong(k) ==
  /\ Message(k, "pong") /\ InputAt(k, IF Closed THEN "inside" ELSE "pong")
  /\ UNCHANGED sizes /\ InputRests

\* The handler takes the read lock again, and moves the deadline.
HandlePong(k) ==
  /\ input[k] = "pong" /\ MayEnter /\ InputAt(k, "inside")
  /\ UNCHANGED <<arriving, sizes>> /\ InputRests

ReadEnds(k) ==
  /\ input[k] = "inside"
  /\ expired \/ Reading # {k} \/ (peer = "gone" /\ arriving = "none")
  /\ InputAt(k, "ended")
  /\ UNCHANGED <<arriving, sizes>> /\ InputRests

InputStep(k) ==
  \/ CheckRead(k) \/ EnterRead(k) \/ ReadInput(k) \/ ReadSize(k) \/ ReadPong(k) \/ HandlePong(k)
  \/ ReadEnds(k)

----
\* The output copier of shell k, the heartbeat and the sizes.

OutputRests == UNCHANGED <<peerVars, session, done, input, beat, sizes, resizing>>
OutputAt(k, pc) == output' = [output EXCEPT ![k] = pc]

\* The shell prints, or is not read any more.
ShellPrints(k) ==
  /\ output[k] = "idle"
  /\ OutputAt(k, IF Running(k) /\ ~Closed THEN "enter" ELSE "ended") /\ OutputRests

WriteOutput(k) ==
  /\ \/ output[k] = "enter" /\ MayEnter /\ OutputAt(k, IF Closed THEN "ended" ELSE "inside")
     \/ output[k] = "inside" /\ OutputAt(k, IF peer = "there" THEN "idle" ELSE "ended")
  /\ OutputRests

OutputStep(k) == WriteOutput(k) \/ (~Running(k) /\ ShellPrints(k))

BeatRests == UNCHANGED <<peerVars, session, input, output, sizes, resizing>>

\* A session found closed ends the heartbeat, and its context.
BeatStarts ==
  /\ beat = "wait"
  /\ beat' = IF done \/ Closed THEN "ended" ELSE "enter"
  /\ done' = (done \/ Closed)
  /\ BeatRests

BeatEnters ==
  /\ beat = "enter" /\ MayEnter
  /\ beat' = IF Closed THEN "ended" ELSE "inside"
  /\ done' = (done \/ Closed)
  /\ BeatRests

\* mutant: a ping that fails ends the heartbeat only.
PingOnly ==
  /\ beat = "inside" /\ beat' = IF peer = "there" THEN "wait" ELSE "ended"
  /\ UNCHANGED done /\ BeatRests

\* A ping that fails cancels the session.
Ping ==
  /\ beat = "inside"
  /\ beat' = IF peer = "there" THEN "wait" ELSE "ended"
  /\ done' = (done \/ peer = "gone")
  /\ BeatRests

BeatStep == BeatStarts \/ BeatEnters \/ Ping

\* client-go asks for sizes until it gets none, and Next does not wait for one.
NextSize ==
  /\ resizing
  /\ IF sizes = "full" /\ ~Closed
     THEN sizes' = "empty" /\ UNCHANGED resizing
     ELSE resizing' = FALSE /\ UNCHANGED sizes
  /\ UNCHANGED <<peerVars, session, done, input, output, beat>>

----
TerminalNext ==
  \/ ClientSends \/ ClientGoes \/ DeadlinePasses \/ ShellExits
  \/ SessionStep \/ BeatStep \/ NextSize
  \/ \E k \in Attempts : InputStep(k) \/ ShellPrints(k) \/ WriteOutput(k)

TerminalSafety == TerminalInit /\ [][TerminalNext]_terminalVars

\* A goroutine that can go on does, and the read deadline passes when no pong can move it any more.
\* Clients and shells owe nothing.
LastDeadline == (Closed \/ peer = "gone") /\ DeadlinePasses
TerminalFairness ==
  /\ WF_terminalVars(SessionStep) /\ WF_terminalVars(BeatStep) /\ WF_terminalVars(LastDeadline)
  /\ \A k \in Attempts : WF_terminalVars(InputStep(k)) /\ WF_terminalVars(OutputStep(k))

TerminalSpec == TerminalSafety /\ TerminalFairness

----
\* After Close no goroutine is inside the connection or may send a size: Close waits for those
\* inside, and those that come later look again under the lock (pkg/utils/terminal/terminal.go).
NobodyAfterClose == session.pc = "over" => ~ReadLocked

\* The websocket allows one writer at a time, and writers hold a read lock only: the output of one
\* shell, of the next and the error message take turns although copiers outlive their shells.
OneWriter ==
  /\ session.pc = "inside" => Writing = {}
  /\ \A k, l \in Writing : k = l

\* Close waits for a read that has begun to handle a pong and cannot get the read lock again.
PongHeld == session.pc = "lock" /\ \E k \in Attempts : input[k] = "pong"

\* A session whose client is gone or that is being closed ends, whatever the shell does, unless a
\* pong holds it (handleTerminalSession's deferred Close, terminal.go:454).
SessionEnds == (peer = "gone" \/ Closed) ~> (session.pc = "over" \/ PongHeld)
====
