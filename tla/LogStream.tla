---- MODULE LogStream ----
(****************************************************************************)
(* One pod's log, streamed to one client as server-sent events.             *)
(*                                                                          *)
(*   pod -> unread -> producer -> channel -> request goroutine -> client    *)
(*                                                                          *)
(* The producer reads the log and sends into a bounded channel; the request *)
(* goroutine writes what it receives, and then waits for the producer and   *)
(* for the monitor, which cancels both when the client's connection ends.   *)
(* The log is read with a context that no departing client cancels (gin's   *)
(* own) and a client that gives up after ten seconds (config.Timeout).      *)
(****************************************************************************)
EXTENDS Integers

CONSTANTS
  Capacity,     \* of the channel
  MaxRetries,   \* failed reads the producer tolerates in a row
  MaxLines,     \* bound: lines the pod writes
  MaxSegments   \* bound: messages one line becomes

ASSUME LogAssumption ==
  /\ Capacity \in Nat \ {0} /\ MaxRetries \in Nat
  /\ MaxLines \in Nat /\ MaxSegments \in Nat

VARIABLES
  follow,      \* the request asks to follow the log
  client,      \* the connection
  log,         \* the log as the producer finds it: open, ended, timed out or broken
  written,     \* lines the pod has written
  unread,      \* lines the producer has not read
  producer,    \* where the producer is
  pending,     \* messages of the line in the producer's hands
  retries,     \* retryCount
  buffered,    \* messages in the channel
  made,        \* messages the producer made of lines
  delivered,   \* messages the client got
  streamer,    \* where the request goroutine is
  monitoring,  \* the monitor runs
  cancelled    \* cancelCtx is done

podVars == <<log, written, unread>>
producerVars == <<producer, pending, retries, made>>
logVars == <<follow, client, podVars, producerVars, buffered, delivered, streamer, monitoring, cancelled>>

\* A log that is not followed has ended where it stands.
LogInit ==
  /\ follow \in BOOLEAN /\ client = "there"
  /\ written \in 0..MaxLines /\ unread = written
  /\ log = IF follow THEN "open" ELSE "ended"
  /\ producer = "check" /\ pending = 0 /\ retries = 0 /\ made = 0
  /\ buffered = 0 /\ delivered = 0
  /\ streamer = "next" /\ monitoring = TRUE /\ cancelled = FALSE

LogTypeOK ==
  /\ follow \in BOOLEAN /\ client \in {"there", "gone"}
  /\ log \in {"open", "ended", "timedOut", "broken"}
  /\ written \in 0..MaxLines /\ unread \in 0..MaxLines
  /\ producer \in {"check", "read", "send", "pause", "done"}
  /\ pending \in 0..MaxSegments /\ retries \in 0..MaxRetries
  /\ buffered \in 0..Capacity /\ made \in Nat /\ delivered \in Nat
  /\ streamer \in {"next", "select", "wait", "returned"}
  /\ monitoring \in BOOLEAN /\ cancelled \in BOOLEAN

----
\* The world: the pod, its API server, the client.

PodWrites ==
  /\ log = "open" /\ written < MaxLines
  /\ written' = written + 1 /\ unread' = unread + 1
  /\ UNCHANGED <<follow, client, log, producerVars, buffered, delivered, streamer, monitoring, cancelled>>

\* The container terminates, ten seconds are over, or the connection to the cluster breaks.
LogStops(how) ==
  /\ \/ log = "open"
     \/ log = "ended" /\ how # "ended"
  /\ log' = how
  /\ UNCHANGED <<follow, client, written, unread, producerVars, buffered, delivered, streamer, monitoring,
                 cancelled>>

ClientLeaves ==
  /\ client = "there" /\ client' = "gone"
  /\ UNCHANGED <<follow, podVars, producerVars, buffered, delivered, streamer, monitoring, cancelled>>

----
\* The producer.

ProducerRests == UNCHANGED <<follow, client, log, written, buffered, delivered, streamer, monitoring, cancelled>>

Check ==
  /\ producer = "check"
  /\ producer' = IF cancelled THEN "done" ELSE "read"
  /\ UNCHANGED <<unread, pending, retries, made>> /\ ProducerRests

\* mutant: the producer does not look at the context.
CheckNothing ==
  /\ producer = "check" /\ producer' = "read"
  /\ UNCHANGED <<unread, pending, retries, made>> /\ ProducerRests

\* A line is one message, or one for every piece between carriage returns that is not blank.
ReadLine ==
  /\ producer = "read" /\ unread > 0
  /\ unread' = unread - 1 /\ retries' = 0
  /\ \E n \in 0..MaxSegments :
       pending' = n /\ made' = made + n /\ producer' = IF n = 0 THEN "check" ELSE "send"
  /\ ProducerRests

\* mutant: the context is cancelled when the producer has finished.
ReadEndCancels ==
  /\ producer = "read" /\ log = "ended" /\ unread = 0
  /\ producer' = IF follow THEN "pause" ELSE "done"
  /\ cancelled' = (cancelled \/ ~follow)
  /\ UNCHANGED <<follow, client, podVars, pending, retries, made, buffered, delivered, streamer, monitoring>>

\* The end of a log that is followed counts as no news.
ReadEnd ==
  /\ producer = "read" /\ log = "ended" /\ unread = 0
  /\ producer' = IF follow THEN "pause" ELSE "done"
  /\ UNCHANGED <<unread, pending, retries, made>> /\ ProducerRests

\* A timeout ends the producer, any other error is tried again.
ReadFails ==
  /\ producer = "read" /\ log \in {"timedOut", "broken"}
  /\ IF log = "broken" /\ retries < MaxRetries
     THEN producer' = "pause" /\ retries' = retries + 1
     ELSE producer' = "done" /\ UNCHANGED retries
  /\ UNCHANGED <<unread, pending, made>> /\ ProducerRests

\* A send into a full channel waits, whatever becomes of the context.
Send ==
  /\ producer = "send" /\ buffered < Capacity
  /\ buffered' = buffered + 1 /\ pending' = pending - 1
  /\ producer' = IF pending = 1 THEN "check" ELSE "send"
  /\ UNCHANGED <<follow, client, podVars, retries, made, delivered, streamer, monitoring, cancelled>>

\* 100 ms, or the end of the context.
Pause ==
  /\ producer = "pause"
  /\ producer' \in {"check"} \cup (IF cancelled THEN {"done"} ELSE {})
  /\ UNCHANGED <<unread, pending, retries, made>> /\ ProducerRests

ProducerStep == Check \/ ReadLine \/ ReadEnd \/ ReadFails \/ Send \/ Pause

----
\* The request goroutine and the monitor.

StreamerRests == UNCHANGED <<follow, client, podVars, producerVars, monitoring>>

\* gin looks whether the client is still there before every turn.
NextTurn ==
  /\ streamer = "next" /\ streamer' = IF client = "gone" THEN "wait" ELSE "select"
  /\ UNCHANGED <<buffered, delivered, cancelled>> /\ StreamerRests

Receive ==
  /\ streamer = "select" /\ buffered > 0
  /\ buffered' = buffered - 1 /\ streamer' = "next"
  /\ delivered' = IF client = "there" THEN delivered + 1 ELSE delivered
  /\ UNCHANGED cancelled /\ StreamerRests

\* The channel is closed and empty, or the context is done: select takes either.
StopStreaming ==
  /\ streamer = "select"
  /\ \/ producer = "done" /\ buffered = 0
     \/ cancelled
  /\ streamer' = "wait"
  /\ UNCHANGED <<buffered, delivered, cancelled>> /\ StreamerRests

\* wg.Wait, and then the deferred cancel.
Return ==
  /\ streamer = "wait" /\ producer = "done" /\ ~monitoring
  /\ streamer' = "returned" /\ cancelled' = TRUE
  /\ UNCHANGED <<buffered, delivered>> /\ StreamerRests

StreamerStep == NextTurn \/ Receive \/ StopStreaming \/ Return

MonitorStep ==
  /\ monitoring /\ (client = "gone" \/ cancelled)
  /\ monitoring' = FALSE /\ cancelled' = TRUE
  /\ UNCHANGED <<follow, client, podVars, producerVars, buffered, delivered, streamer>>

----
LogNext ==
  \/ PodWrites
  \/ \E how \in {"ended", "timedOut", "broken"} : LogStops(how)
  \/ ClientLeaves
  \/ ProducerStep \/ StreamerStep \/ MonitorStep

LogSafety == LogInit /\ [][LogNext]_logVars

\* A goroutine that can go on does; pods, clusters and clients owe nothing.
LogFairness == WF_logVars(ProducerStep) /\ WF_logVars(StreamerStep) /\ WF_logVars(MonitorStep)
LogSpec == LogSafety /\ LogFairness

----
\* The stream stops under a client that is still there only when it got every message made of
\* the lines read, and every line was read unless the log timed out or broke: Stream
\* (pkg/sse/stream.go) drains the channel before it stops, although select may prefer the context.
DeliveredInFull ==
  streamer \in {"wait", "returned"} /\ client = "there" =>
    /\ delivered = made /\ pending = 0 /\ buffered = 0
    /\ unread = 0 \/ log \in {"timedOut", "broken"}

\* The producer waits where nothing wakes it: in a send that nobody receives, or for a line of a
\* silent pod.
ProducerHeld ==
  \/ producer = "send" /\ buffered = Capacity
  \/ producer = "read" /\ log = "open" /\ unread = 0

\* When the client is gone the request ends too, whatever the log does, unless the producer is held
\* (pkg/sse/stream.go, internal/k8s/service/pod_service.go): polling and retries see the context.
OnlyProducerHolds == client = "gone" ~> (streamer = "returned" \/ ProducerHeld)

\* "非Follow模式：EOF表示日志结束，可以关闭连接" (internal/k8s/service/pod_service.go:515), the end of
\* the log means that the connection may be closed: a log that is not followed, that neither times
\* out nor breaks, and whose client stays, is read to its end, and then the request is over.
EndedLogEndsRequest ==
  [](~follow /\ log = "ended" /\ client = "there") => <>(streamer = "returned")
====
