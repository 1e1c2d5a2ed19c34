----------------------------- MODULE TaskStream -----------------------------
(***************************************************************************)
(* The live output of a task and the WebSockets that show it.              *)
(*                                                                         *)
(* LiveStream keeps the last chunks of the output and hands new ones to    *)
(* its subscribers without waiting for them.  A viewer is one connection   *)
(* of TaskHandler.stream and its goroutines:                               *)
(*   - the reader, which takes the user's messages;                        *)
(*   - the pump, TaskLive, which replays the buffer, subscribes and then   *)
(*     moves chunks from its subscription;                                 *)
(*   - in attach mode the consumer, attachStream, which writes the latest  *)
(*     turn from the log store and then what the pump passes on.  Without  *)
(*     a log store (locally) the replayed buffer is all the history.       *)
(* In new mode the first user-input starts the pump, which then writes to  *)
(* the socket itself.                                                      *)
(*                                                                         *)
(* A chunk is its position in the output, which is also the order of the   *)
(* timestamps: Publish stamps chunks under its mutex.  A turn ends with a  *)
(* task-ended chunk.                                                       *)
(***************************************************************************)
EXTENDS Naturals, Sequences, FiniteSets

CONSTANTS
    Viewers,    \* connections
    Logs,       \* whether there is a log store: a subset of BOOLEAN
    BufferSize, \* liveChunkLimit (20000)
    QueueSize,  \* capacity of a subscription (256)
    PipeSize,   \* capacity of streamCh, and the chunk in the pump's hand (101)
    MaxChunks   \* bound: chunks of one behaviour

Chunks == 1 .. MaxChunks

ASSUME StreamAssumption ==
    /\ Logs \subseteq BOOLEAN
    /\ {BufferSize, QueueSize, PipeSize} \subseteq Nat \ {0}
    /\ MaxChunks \in Nat

VARIABLES
    log,        \* there is a log store
    published,  \* chunks published so far
    ends,       \* those that are task-ended
    ingested,   \* chunks the log store has
    queue,      \* each viewer's subscription
    reader, pump, consumer,  \* where its goroutines are
    mode,       \* "attach" | "new"
    replay,     \* chunks the pump has still to replay
    pipe,       \* streamCh
    since,      \* attachNow: chunks up to it are history
    turn,       \* the turn to load from the log store
    history,    \* chunks the consumer has still to write from it
    cancelled,  \* the connection's context is cancelled
    broken,     \* its socket is
    written,    \* chunks written to it
    \* History variables, read by properties only.
    from,       \* the first chunk the viewer should see; 0: not known yet
    missed      \* chunks that passed it by

output == <<log, published, ends, ingested>>
locals == <<mode, replay, since, turn, history>>
channels == <<queue, pipe>>
socket == <<cancelled, broken, written>>
ghosts == <<from, missed>>
vars == <<output, queue, reader, pump, consumer, mode, replay, pipe, since, turn,
          history, socket, ghosts>>

TypeOK ==
    /\ log \in Logs
    /\ published \in 0 .. MaxChunks
    /\ ends \subseteq 1 .. published
    /\ ingested \in 0 .. published
    /\ queue \in [Viewers -> Seq(Chunks)]
    /\ \A v \in Viewers : Len(queue[v]) <= QueueSize
    /\ pipe \in [Viewers -> Seq(Chunks)]
    /\ \A v \in Viewers : Len(pipe[v]) <= PipeSize
    /\ reader \in [Viewers -> {"none", "read", "echo", "handle", "over"}]
    /\ pump \in [Viewers -> {"none", "copy", "replay", "subscribe", "pump", "over"}]
    /\ consumer \in [Viewers -> {"none", "now", "turn", "entries", "history", "consume", "over"}]
    /\ mode \in [Viewers -> {"attach", "new"}]
    /\ replay \in [Viewers -> SUBSET Chunks]
    /\ since \in [Viewers -> 0 .. MaxChunks]
    /\ turn \in [Viewers -> 0 .. MaxChunks]
    /\ history \in [Viewers -> SUBSET Chunks]
    /\ cancelled \in [Viewers -> BOOLEAN]
    /\ broken \in [Viewers -> BOOLEAN]
    /\ written \in [Viewers -> Seq(Chunks)]
    /\ from \in [Viewers -> 0 .. MaxChunks + 1]
    /\ missed \in [Viewers -> SUBSET Chunks]

\* Nobody watches yet; the task may have run for a while.
Init ==
    /\ log \in Logs
    /\ published = 0 /\ ends = {} /\ ingested = 0
    /\ queue = [v \in Viewers |-> <<>>] /\ pipe = [v \in Viewers |-> <<>>]
    /\ reader = [v \in Viewers |-> "none"]
    /\ pump = [v \in Viewers |-> "none"]
    /\ consumer = [v \in Viewers |-> "none"]
    /\ mode = [v \in Viewers |-> "new"]
    /\ replay = [v \in Viewers |-> {}] /\ history = [v \in Viewers |-> {}]
    /\ since = [v \in Viewers |-> 0] /\ turn = [v \in Viewers |-> 0]
    /\ cancelled = [v \in Viewers |-> FALSE] /\ broken = [v \in Viewers |-> FALSE]
    /\ written = [v \in Viewers |-> <<>>]
    /\ from = [v \in Viewers |-> 0] /\ missed = [v \in Viewers |-> {}]

-----------------------------------------------------------------------------
Set(f, v, x) == f' = [f EXCEPT ![v] = x]

Subscribed(v) == pump[v] = "pump"
Least(S) == CHOOSE p \in S : \A q \in S : p <= q

\* Turns are numbered from 1 by the ends before a chunk.
TurnOf(p) == 1 + Cardinality({e \in ends : e < p})

-----------------------------------------------------------------------------
(* The engine, the log store, and the viewer's side of a connection.       *)

\* Mutant: a full queue takes the chunk all the same.
PublishToAll(isEnd) ==
    /\ published < MaxChunks
    /\ published' = published + 1
    /\ ends' = IF isEnd THEN ends \cup {published + 1} ELSE ends
    /\ queue' = [v \in Viewers |->
                   IF Subscribed(v) THEN Append(queue[v], published + 1) ELSE queue[v]]
    /\ UNCHANGED <<log, ingested, reader, pump, consumer, locals, pipe, socket, ghosts>>

\* Publish: a subscriber whose queue is full goes without the chunk.
Publish(isEnd) ==
    /\ published < MaxChunks
    /\ published' = published + 1
    /\ ends' = IF isEnd THEN ends \cup {published + 1} ELSE ends
    /\ queue' = [v \in Viewers |->
                   IF Subscribed(v) /\ Len(queue[v]) < QueueSize
                   THEN Append(queue[v], published + 1) ELSE queue[v]]
    /\ missed' = [v \in Viewers |->
                   IF \/ pump[v] \in {"replay", "subscribe"}
                      \/ Subscribed(v) /\ Len(queue[v]) >= QueueSize
                   THEN missed[v] \cup {published + 1} ELSE missed[v]]
    /\ UNCHANGED <<log, ingested, reader, pump, consumer, locals, pipe, socket, from>>

\* The taskflow service writes its chunks to the log store, some time later.
Ingest ==
    /\ log /\ ingested < published
    /\ ingested' = ingested + 1
    /\ UNCHANGED <<log, published, ends, channels, reader, pump, consumer, locals, socket, ghosts>>

Open(v, m) ==
    /\ reader[v] = "none"
    /\ Set(reader, v, "read")
    /\ Set(mode, v, m)
    /\ Set(pump, v, IF m = "attach" THEN "copy" ELSE "none")
    /\ Set(consumer, v, IF m = "attach" THEN "now" ELSE "none")
    /\ UNCHANGED <<output, channels, replay, since, turn, history, socket, ghosts>>

\* The client leaves, or the network does.
Break(v) ==
    /\ reader[v] \notin {"none", "over"} /\ ~broken[v]
    /\ Set(broken, v, TRUE)
    /\ UNCHANGED <<output, channels, reader, pump, consumer, locals, cancelled, written, ghosts>>

Ping(v) ==
    /\ reader[v] \notin {"none", "over"} /\ broken[v] /\ ~cancelled[v]
    /\ Set(cancelled, v, TRUE)
    /\ UNCHANGED <<output, channels, reader, pump, consumer, locals, broken, written, ghosts>>

-----------------------------------------------------------------------------
(* The pump: TaskLive.                                                     *)

\* Writes chunk p to v's socket, or finds the socket broken.
Write(v, p) == Set(written, v, Append(written[v], p))

NotPump == UNCHANGED <<output, reader, consumer, mode, since, turn, history, broken>>

\* Mutant: the buffer is not replayed (flush is false).
CopyNothing(v) ==
    /\ pump[v] = "copy"
    /\ Set(pump, v, "replay")
    /\ Set(from, v, IF log THEN from[v] ELSE 1)
    /\ NotPump /\ UNCHANGED <<replay, channels, cancelled, written, missed>>

\* Replay copies the buffer under the mutex.
Copy(v) ==
    /\ pump[v] = "copy"
    /\ Set(pump, v, "replay")
    /\ Set(replay, v, {p \in 1 .. published : p + BufferSize > published})
    /\ Set(from, v, IF log THEN from[v]
                    ELSE IF published > BufferSize THEN published - BufferSize + 1 ELSE 1)
    /\ Set(missed, v, missed[v] \cup {p \in 1 .. published : p > since[v] /\ p + BufferSize <= published})
    /\ NotPump /\ UNCHANGED <<channels, cancelled, written>>

\* No VM has this task yet, or any more: nothing will come.  In new mode the
\* connection is given up, in attach mode it stays open.
TaskLiveFails(v) ==
    /\ \/ pump[v] = "copy"
       \/ pump[v] = "subscribe" /\ mode[v] = "new"
    /\ Set(pump, v, "over")
    /\ IF mode[v] = "new" THEN Set(cancelled, v, TRUE) ELSE UNCHANGED cancelled
    /\ NotPump /\ UNCHANGED <<replay, channels, written, from, missed>>

Replay(v) ==
    /\ pump[v] = "replay"
    /\ replay[v] # {} /\ Len(pipe[v]) < PipeSize
    /\ Set(pipe, v, Append(pipe[v], Least(replay[v])))
    /\ Set(replay, v, replay[v] \ {Least(replay[v])})
    /\ NotPump /\ UNCHANGED <<pump, queue, cancelled, written, from, missed>>

ReplayDone(v) ==
    /\ pump[v] = "replay"
    /\ replay[v] = {}
    /\ Set(pump, v, "subscribe")
    /\ NotPump /\ UNCHANGED <<replay, channels, cancelled, written, from, missed>>

Subscribe(v) ==
    /\ pump[v] = "subscribe"
    /\ Set(pump, v, "pump")
    /\ NotPump /\ UNCHANGED <<replay, channels, cancelled, written, from, missed>>

\* Attach mode: the next chunk goes to the consumer.
Pass(v) ==
    /\ pump[v] = "pump" /\ mode[v] = "attach"
    /\ queue[v] # <<>> /\ Len(pipe[v]) < PipeSize
    /\ Set(queue, v, Tail(queue[v]))
    /\ Set(pipe, v, Append(pipe[v], Head(queue[v])))
    /\ NotPump /\ UNCHANGED <<pump, replay, cancelled, written, from, missed>>

\* Mutant: the end of a turn is shown like any other chunk.
ShowGoesOn(v) ==
    /\ pump[v] = "pump" /\ mode[v] = "new"
    /\ queue[v] # <<>>
    /\ Set(queue, v, Tail(queue[v]))
    /\ IF broken[v]
       THEN Set(cancelled, v, TRUE) /\ Set(pump, v, "over") /\ UNCHANGED written
       ELSE Write(v, Head(queue[v])) /\ UNCHANGED <<cancelled, pump>>
    /\ NotPump /\ UNCHANGED <<replay, pipe, from, missed>>

\* New mode: it is written to the socket; after the end of a turn, or when the
\* write fails, the context is cancelled and the subscription ends.
Show(v) ==
    /\ pump[v] = "pump" /\ mode[v] = "new"
    /\ queue[v] # <<>>
    /\ Set(queue, v, Tail(queue[v]))
    /\ IF broken[v] THEN UNCHANGED written ELSE Write(v, Head(queue[v]))
    /\ IF broken[v] \/ Head(queue[v]) \in ends
       THEN Set(cancelled, v, TRUE) /\ Set(pump, v, "over")
       ELSE UNCHANGED <<cancelled, pump>>
    /\ NotPump /\ UNCHANGED <<replay, pipe, from, missed>>

\* Wherever it waits, the end of the context ends it; its subscription with it.
PumpCancelled(v) ==
    /\ cancelled[v]
    /\ pump[v] \in {"replay", "pump"}
    /\ replay[v] # {} \/ pump[v] = "pump"
    /\ Set(pump, v, "over")
    /\ Set(queue, v, <<>>)
    /\ NotPump /\ UNCHANGED <<replay, pipe, cancelled, written, from, missed>>

-----------------------------------------------------------------------------
(* The consumer: attachStream.                                             *)

NotConsumer == UNCHANGED <<output, queue, reader, pump, mode, replay, broken>>

\* attachNow, while TaskLive starts.
Now(v) ==
    /\ consumer[v] = "now"
    /\ Set(consumer, v, "turn")
    /\ Set(since, v, published)
    /\ NotConsumer /\ UNCHANGED <<pipe, turn, history, cancelled, written, from, missed>>

\* QueryLatestTurn up to attachNow: first which turn, ...  Without a log store
\* everything the pump passes on is to be shown.
LatestTurn(v) ==
    /\ consumer[v] = "turn"
    /\ IF log
       THEN /\ Set(consumer, v, "entries")
            /\ LET last == IF ingested < since[v] THEN ingested ELSE since[v]
               IN  Set(turn, v, IF last = 0 THEN 0 ELSE TurnOf(last))
            /\ UNCHANGED since
       ELSE /\ Set(consumer, v, "consume")
            /\ Set(since, v, 0)
            /\ UNCHANGED turn
    /\ NotConsumer /\ UNCHANGED <<pipe, history, cancelled, written, from, missed>>

\* ... then its entries.  What the log store does not have yet is in neither
\* the history nor, by its timestamp, the stream.
Entries(v) ==
    /\ consumer[v] = "entries"
    /\ Set(consumer, v, "history")
    /\ Set(turn, v, 0)
    /\ LET stored == {p \in 1 .. since[v] : p <= ingested /\ TurnOf(p) = turn[v]}
       IN  /\ Set(history, v, stored)
           /\ Set(from, v, IF stored = {} THEN since[v] + 1 ELSE Least(stored))
           /\ Set(missed, v, (missed[v] \ stored)
                      \cup {p \in 1 .. since[v] : p > ingested \/ TurnOf(p) # turn[v]})
    /\ NotConsumer /\ UNCHANGED <<pipe, since, cancelled, written>>

\* The log store answers with an error: the consumer reports it and ends.
QueryFails(v) ==
    /\ consumer[v] \in {"turn", "entries"} /\ log
    /\ Set(consumer, v, "over")
    /\ NotConsumer /\ UNCHANGED <<pipe, since, turn, history, cancelled, written, from, missed>>

\* A chunk is written to the socket: after the end of a turn the context is
\* cancelled; when the write fails the consumer just ends.
ConsumerWrites(v, p, next) ==
    IF broken[v]
    THEN Set(consumer, v, "over") /\ UNCHANGED <<cancelled, written>>
    ELSE /\ Write(v, p)
         /\ Set(consumer, v, IF p \in ends THEN "over" ELSE next)
         /\ IF p \in ends THEN Set(cancelled, v, TRUE) ELSE UNCHANGED cancelled

WriteHistory(v) ==
    /\ consumer[v] = "history" /\ history[v] # {}
    /\ ConsumerWrites(v, Least(history[v]), "history")
    /\ Set(history, v, history[v] \ {Least(history[v])})
    /\ NotConsumer /\ UNCHANGED <<pipe, since, turn, from, missed>>

HistoryDone(v) ==
    /\ consumer[v] = "history" /\ history[v] = {}
    /\ Set(consumer, v, "consume")
    /\ NotConsumer /\ UNCHANGED <<pipe, since, turn, history, cancelled, written, from, missed>>

\* Mutant: the stream is shown whole after the history.
ConsumeAll(v) ==
    /\ consumer[v] = "consume" /\ pipe[v] # <<>>
    /\ Set(pipe, v, Tail(pipe[v]))
    /\ ConsumerWrites(v, Head(pipe[v]), "consume")
    /\ NotConsumer /\ UNCHANGED <<since, turn, history, from, missed>>

\* consumeLiveStream: what is history by its timestamp is passed over.
Consume(v) ==
    /\ consumer[v] = "consume" /\ pipe[v] # <<>>
    /\ Set(pipe, v, Tail(pipe[v]))
    /\ IF Head(pipe[v]) <= since[v]
       THEN UNCHANGED <<consumer, cancelled, written>>
       ELSE ConsumerWrites(v, Head(pipe[v]), "consume")
    /\ NotConsumer /\ UNCHANGED <<since, turn, history, from, missed>>

ConsumerEnds(v) ==
    /\ consumer[v] = "consume"
    /\ cancelled[v] \/ (pipe[v] = <<>> /\ pump[v] = "over")
    /\ Set(consumer, v, "over")
    /\ NotConsumer /\ UNCHANGED <<pipe, since, turn, history, cancelled, written, from, missed>>

-----------------------------------------------------------------------------
(* The reader: readClientMessages.                                         *)

NotReader == UNCHANGED <<output, channels, consumer, locals, broken, written, missed>>

\* A user-input that the viewer may send: in new mode the first one starts the
\* pump, in a goroutine of its own, and is echoed.
UserInput(v) ==
    /\ reader[v] = "read" /\ ~broken[v]
    /\ IF mode[v] = "new" /\ pump[v] = "none"
       THEN Set(pump, v, "subscribe") /\ Set(from, v, published + 1) /\ Set(reader, v, "echo")
       ELSE UNCHANGED <<pump, from>> /\ Set(reader, v, "handle")
    /\ NotReader /\ UNCHANGED cancelled

\* When it cannot be echoed, it is not handled either.
Echo(v) ==
    /\ reader[v] = "echo"
    /\ Set(reader, v, IF broken[v] THEN "over" ELSE "handle")
    /\ NotReader /\ UNCHANGED <<pump, cancelled, from>>

\* Any other message of a user who may send some: a stop, a cancel, an answer.
OtherMessage(v) ==
    /\ reader[v] = "read" /\ ~broken[v]
    /\ Set(reader, v, "handle")
    /\ NotReader /\ UNCHANGED <<pump, cancelled, from>>

\* The loop looks at the context before it reads, not while it waits.
ReadOn(v) == Set(reader, v, IF cancelled[v] THEN "over" ELSE "read")

\* From a user who may only watch, or not to be parsed.
IgnoredMessage(v) ==
    /\ reader[v] = "read" /\ ~broken[v]
    /\ ReadOn(v)
    /\ NotReader /\ UNCHANGED <<pump, cancelled, from>>

\* The message is handled with the connection's context: cancelled, Continue
\* and the others do nothing, and the message is lost.
HandleMessage(v) ==
    /\ reader[v] = "handle"
    /\ ReadOn(v)
    /\ NotReader /\ UNCHANGED <<pump, cancelled, from>>

ReadFails(v) ==
    /\ reader[v] = "read" /\ broken[v]
    /\ Set(reader, v, "over")
    /\ NotReader /\ UNCHANGED <<pump, cancelled, from>>

\* Mutant: the context is not cancelled.
CloseSocketOnly(v) ==
    /\ reader[v] = "over" /\ ~broken[v]
    /\ Set(broken, v, TRUE)
    /\ UNCHANGED <<output, channels, reader, pump, consumer, locals, cancelled, written, ghosts>>

\* stream returns: its context is cancelled and the socket closed.
Close(v) ==
    /\ reader[v] = "over" /\ ~(cancelled[v] /\ broken[v])
    /\ Set(cancelled, v, TRUE)
    /\ Set(broken, v, TRUE)
    /\ UNCHANGED <<output, channels, reader, pump, consumer, locals, written, ghosts>>

-----------------------------------------------------------------------------
PumpStep(v) ==
    \/ Copy(v) \/ Replay(v) \/ ReplayDone(v) \/ Subscribe(v)
    \/ Pass(v) \/ Show(v) \/ PumpCancelled(v)

ConsumerStep(v) ==
    \/ Now(v) \/ LatestTurn(v) \/ Entries(v)
    \/ WriteHistory(v) \/ HistoryDone(v) \/ Consume(v) \/ ConsumerEnds(v)

Message(v) == UserInput(v) \/ OtherMessage(v) \/ IgnoredMessage(v)

ReaderStep(v) == Echo(v) \/ HandleMessage(v) \/ ReadFails(v) \/ Close(v)

Next ==
    \/ \E isEnd \in BOOLEAN : Publish(isEnd)
    \/ Ingest
    \/ \E v \in Viewers :
         \/ \E m \in {"attach", "new"} : Open(v, m)
         \/ Break(v) \/ Ping(v) \/ Message(v)
         \/ PumpStep(v) \/ ConsumerStep(v) \/ ReaderStep(v)
         \/ TaskLiveFails(v) \/ QueryFails(v)

Spec == Init /\ [][Next]_vars

\* The goroutines of a connection go on; sockets take what is written to them.
Fairness ==
    \A v \in Viewers :
       WF_vars(PumpStep(v)) /\ WF_vars(ConsumerStep(v)) /\ WF_vars(ReaderStep(v))

FairSpec == Spec /\ Fairness

-----------------------------------------------------------------------------
(* Properties.                                                             *)

Last(s) == s[Len(s)]

\* A viewer is shown the output in order and nothing twice, although it comes
\* from two sources, the history and the stream, that overlap.
InOrder ==
    \A v \in Viewers : \A i, j \in DOMAIN written[v] :
       i < j => written[v][i] < written[v][j]

\* What a viewer has not been shown, between the first chunk it should see and
\* the last one it saw, was published between its replay, or in new mode its
\* first user-input, and its subscription, found its queue full, or was not in
\* the log store when it was asked.
SeesAll ==
    \A v \in Viewers : \A p \in Chunks :
       /\ from[v] # 0 /\ from[v] <= p
       /\ written[v] # <<>> /\ p < Last(written[v])
       => p \in missed[v] \/ \E i \in DOMAIN written[v] : written[v][i] = p

\* On its way to be shown, not to be passed over as history.
OnItsWay(v, p) ==
    \/ p \in history[v] /\ consumer[v] = "history"
    \/ /\ mode[v] = "new" \/ (consumer[v] = "consume" /\ p > since[v])
       /\ p \in replay[v] \cup {queue[v][i] : i \in DOMAIN queue[v]} \cup {pipe[v][i] : i \in DOMAIN pipe[v]}

\* The end of a turn that is on its way to a viewer ends its stream: nobody
\* goes on waiting for an end that was delivered.
EndReaches ==
    \A v \in Viewers :
       (\E e \in ends : OnItsWay(v, e)) ~> (cancelled[v] \/ broken[v])

\* What the attach design says: once the end of the turn is shown, the WebSocket
\* is closed.
ClosedAtEnd ==
    \A v \in Viewers :
       (mode[v] = "attach" /\ \E i \in DOMAIN written[v] : written[v][i] \in ends) ~> broken[v]

\* A connection that is over leaves no subscription behind.
LeavesNoSubscriber ==
    \A v \in Viewers : reader[v] = "over" ~> pump[v] \in {"none", "over"}

=============================================================================
