-------------------------- MODULE TaskStreamProofs --------------------------
(***************************************************************************)
(* Proofs about TaskStream, for any number of viewers, chunks and any      *)
(* capacities.                                                             *)
(*                                                                         *)
(* StreamInv is inductive.  It says of one viewer where its goroutines can *)
(* be, that what its chunks pass through (the buffer's copy, the queue,    *)
(* the pipe, the socket) is ordered, each and one after the other, and     *)
(* where a chunk that was not written is.                                  *)
(***************************************************************************)
EXTENDS TaskStream, TLAPS, FiniteSetTheorems, WellFoundedInduction, NaturalsInduction

-----------------------------------------------------------------------------
(* Sequences of chunks.                                                    *)

In(s, p) == \E i \in DOMAIN s : s[i] = p
Sorted(s) == \A i, j \in DOMAIN s : i < j => s[i] < s[j]

LEMMA InEmpty ==
    ASSUME NEW s, s = <<>>, NEW p
    PROVE  ~In(s, p) /\ Sorted(s)
BY DEF In, Sorted

LEMMA InChunks ==
    ASSUME NEW s \in Seq(Chunks), NEW p, In(s, p)
    PROVE  p \in Chunks /\ p \in Nat
<1>1. PICK i \in DOMAIN s : s[i] = p
  BY DEF In
<1>2. s[i] \in Chunks
  OBVIOUS
<1> QED
  BY <1>1, <1>2 DEF Chunks

LEMMA InAppend ==
    ASSUME NEW s \in Seq(Chunks), NEW x \in Chunks, NEW p
    PROVE  In(Append(s, x), p) <=> In(s, p) \/ p = x
<1>1. DOMAIN Append(s, x) = 1 .. Len(s) + 1 /\ DOMAIN s = 1 .. Len(s) /\ Len(s) \in Nat
  OBVIOUS
<1>2. \A i \in DOMAIN s : Append(s, x)[i] = s[i]
  OBVIOUS
<1>3. Append(s, x)[Len(s) + 1] = x
  OBVIOUS
<1> QED
  BY <1>1, <1>2, <1>3 DEF In

LEMMA SortedAppend ==
    ASSUME NEW s \in Seq(Chunks), NEW x \in Chunks, Sorted(s),
           \A p : In(s, p) => p < x
    PROVE  Sorted(Append(s, x))
<1>1. DOMAIN Append(s, x) = 1 .. Len(s) + 1 /\ DOMAIN s = 1 .. Len(s) /\ Len(s) \in Nat
  OBVIOUS
<1>2. \A i \in DOMAIN s : Append(s, x)[i] = s[i] /\ s[i] < x
  BY DEF In
<1>3. Append(s, x)[Len(s) + 1] = x
  OBVIOUS
<1> QED
  BY <1>1, <1>2 DEF Sorted

LEMMA InTail ==
    ASSUME NEW s \in Seq(Chunks), s # <<>>, NEW p
    PROVE  In(s, p) <=> p = Head(s) \/ In(Tail(s), p)
<1>1. Len(s) \in Nat \ {0} /\ DOMAIN s = 1 .. Len(s) /\ DOMAIN Tail(s) = 1 .. Len(s) - 1
  OBVIOUS
<1>2. \A i \in 1 .. Len(s) - 1 : Tail(s)[i] = s[i + 1]
  OBVIOUS
<1>3. Head(s) = s[1]
  OBVIOUS
<1>4. ASSUME In(s, p), p # Head(s) PROVE In(Tail(s), p)
  <2>1. PICK i \in DOMAIN s : s[i] = p
    BY <1>4 DEF In
  <2>2. i - 1 \in 1 .. Len(s) - 1 /\ Tail(s)[i - 1] = s[i]
    BY <1>1, <1>2, <1>3, <1>4, <2>1
  <2> QED
    BY <1>1, <2>1, <2>2 DEF In
<1>5. ASSUME In(Tail(s), p) PROVE In(s, p)
  <2>1. PICK i \in 1 .. Len(s) - 1 : Tail(s)[i] = p
    BY <1>1, <1>5 DEF In
  <2>2. i + 1 \in DOMAIN s /\ s[i + 1] = p
    BY <1>1, <1>2, <2>1
  <2> QED
    BY <2>2 DEF In
<1> QED
  BY <1>1, <1>3, <1>4 DEF In

LEMMA SortedTail ==
    ASSUME NEW s \in Seq(Chunks), s # <<>>, Sorted(s)
    PROVE  Sorted(Tail(s)) /\ \A p : In(Tail(s), p) => Head(s) < p
<1>1. Len(s) \in Nat \ {0} /\ DOMAIN s = 1 .. Len(s) /\ DOMAIN Tail(s) = 1 .. Len(s) - 1
  OBVIOUS
<1>2. \A i \in 1 .. Len(s) - 1 : Tail(s)[i] = s[i + 1]
  OBVIOUS
<1>3. Head(s) = s[1]
  OBVIOUS
<1>4. Sorted(Tail(s))
  BY <1>1 DEF Sorted
<1>5. \A p : In(Tail(s), p) => Head(s) < p
  BY <1>1, <1>2 DEF In, Sorted
<1> QED
  BY <1>4, <1>5

LEMMA LeastIsLeast ==
    ASSUME NEW S, S \subseteq Nat, S # {}
    PROVE  Least(S) \in S /\ \A q \in S : Least(S) <= q
<1> DEFINE less == {x \in Nat \X Nat : x[1] < x[2]}
<1>1. IsWellFoundedOn(less, Nat)
  BY NatLessThanWellFounded DEF OpToRel
<1>2. PICK p \in S : \A q \in S : ~(<<q, p>> \in less)
  <2> HIDE DEF less
  <2> QED
    BY <1>1, WFMin
<1>3. \A q \in S : p <= q
  <2> TAKE q \in S
  <2>1. <<q, p>> \notin less /\ p \in Nat /\ q \in Nat
    BY <1>2
  <2>2. ~(q < p)
    BY <2>1
  <2> QED
    BY <2>1
<1> QED
  BY <1>3 DEF Least

LEMMA TurnType ==
    ASSUME TypeOK, NEW p \in Chunks
    PROVE  TurnOf(p) \in Chunks
<1> DEFINE E == {e \in ends : e < p}
<1>1. p \in 1 .. MaxChunks /\ MaxChunks \in Nat
  BY StreamAssumption DEF Chunks
<1>2. ends \subseteq 1 .. published /\ published \in Nat
  BY DEF TypeOK
<1>3. E \subseteq 1 .. p - 1 /\ p - 1 \in Nat
  <2>1. \A e \in E : e \in Nat /\ 1 <= e /\ e < p
    BY <1>2
  <2>2. p \in Nat /\ 1 <= p
    BY <1>1
  <2> HIDE DEF E
  <2> QED
    BY <2>1, <2>2
<1>4. IsFiniteSet(1 .. p - 1) /\ Cardinality(1 .. p - 1) = p - 1
  BY <1>3, FS_Interval
<1>5. IsFiniteSet(E) /\ Cardinality(E) <= p - 1
  BY <1>3, <1>4, FS_Subset
<1>6. Cardinality(E) \in Nat
  BY <1>5, FS_CardinalityType
<1> QED
  BY <1>1, <1>5, <1>6 DEF TurnOf, Chunks

-----------------------------------------------------------------------------
(* The inductive invariant, of one viewer.                                 *)

\* Where its goroutines can be, and what is empty then.
Stages(v) ==
    /\ reader[v] = "none" => pump[v] = "none" /\ consumer[v] = "none" /\ mode[v] = "new"
    /\ pump[v] \in {"none", "copy"} => replay[v] = {} /\ pipe[v] = <<>>
    /\ pump[v] \in {"none", "copy", "replay", "subscribe"} => queue[v] = <<>>
    /\ pump[v] \in {"subscribe", "pump"} => replay[v] = {}
    /\ pump[v] = "none" => written[v] = <<>>
    /\ mode[v] = "new" => /\ consumer[v] = "none" /\ pump[v] \notin {"copy", "replay"}
                          /\ pipe[v] = <<>> /\ replay[v] = {}
    /\ mode[v] = "attach" => consumer[v] # "none" /\ pump[v] # "none"
    /\ consumer[v] \in {"now", "turn", "entries"} => written[v] = <<>>
    /\ consumer[v] \in {"entries", "history"} => log

\* Chunks are somewhere after they were published; history is up to since.
Bounds(v) ==
    /\ \A p : In(queue[v], p) \/ In(pipe[v], p) \/ In(written[v], p) => p <= published
    /\ \A p \in replay[v] : p <= published
    /\ since[v] <= published
    /\ consumer[v] = "history" =>
          /\ \A p \in history[v] : p <= since[v]
          /\ \A p : In(written[v], p) => p <= since[v]

Queues(v) ==
    /\ Sorted(queue[v]) /\ Sorted(pipe[v]) /\ Sorted(written[v])
    /\ \A p, q : In(pipe[v], p) /\ (q \in replay[v] \/ In(queue[v], q)) => p < q

\* What the stream has still to bring, except what is passed over.
Ahead(v, q) == q \in replay[v] \/ In(pipe[v], q) \/ In(queue[v], q)

AfterWritten(v) ==
    /\ mode[v] = "new" => \A p, q : In(written[v], p) /\ In(queue[v], q) => p < q
    /\ consumer[v] = "history" =>
          \A p, q : In(written[v], p) /\ q \in history[v] => p < q
    /\ consumer[v] \in {"consume", "over"} =>
          /\ \A p, q : In(written[v], p) /\ Ahead(v, q) /\ q > since[v] => p < q
          /\ pump[v] = "copy" => \A p : In(written[v], p) => p <= since[v]

\* Where a chunk is that the viewer should see: past it, shown, on its way, or
\* behind all that will ever be shown.
Passed(v, p) == p \in missed[v] \/ In(written[v], p)
Cut(v, p) ==
    /\ consumer[v] = "over"
    /\ \A q : In(written[v], q) => q < p
Dropped(v, p) ==
    /\ pump[v] = "over"
    /\ \A q : In(written[v], q) \/ In(pipe[v], q) => q < p
InStream(v, p) == pump[v] = "copy" \/ Ahead(v, p) \/ Dropped(v, p)
InHistory(v, p) == consumer[v] = "history" /\ p \in history[v]

\* The first chunk to see is not known before the stream, or the history, is.
Origins(v) ==
    /\ mode[v] = "new" => since[v] = 0 /\ (pump[v] = "none" => from[v] = 0)
    /\ ~log /\ mode[v] = "attach" /\ pump[v] = "copy" => from[v] = 0
    /\ ~log /\ consumer[v] \in {"consume", "over"} => since[v] = 0
    /\ log /\ consumer[v] \in {"now", "turn", "entries"} => from[v] = 0
    /\ consumer[v] = "now" => since[v] = 0

NewCovered(v) ==
    mode[v] = "new" /\ from[v] # 0 =>
       \A p \in from[v] .. published : Passed(v, p) \/ In(queue[v], p) \/ Dropped(v, p)

ToStream(v, p) == IF log THEN since[v] < p ELSE from[v] # 0 /\ from[v] <= p
StreamCovered(v) ==
    mode[v] = "attach" =>
       \A p \in 1 .. published : ToStream(v, p) =>
          Passed(v, p) \/ Cut(v, p) \/ InStream(v, p)

HistoryCovered(v) ==
    mode[v] = "attach" /\ log /\ from[v] # 0 =>
       \A p \in from[v] .. since[v] : Passed(v, p) \/ Cut(v, p) \/ InHistory(v, p)

ViewerInv(v) ==
    /\ Stages(v) /\ Bounds(v) /\ Queues(v) /\ AfterWritten(v)
    /\ Origins(v) /\ NewCovered(v) /\ StreamCovered(v) /\ HistoryCovered(v)

StreamInv == \A v \in Viewers : ViewerInv(v)

\* What a step of one viewer leaves as it is.
Same(w) ==
    /\ queue'[w] = queue[w] /\ reader'[w] = reader[w] /\ pump'[w] = pump[w]
    /\ consumer'[w] = consumer[w] /\ mode'[w] = mode[w] /\ replay'[w] = replay[w]
    /\ pipe'[w] = pipe[w] /\ since'[w] = since[w] /\ turn'[w] = turn[w]
    /\ history'[w] = history[w] /\ cancelled'[w] = cancelled[w] /\ broken'[w] = broken[w]
    /\ written'[w] = written[w] /\ from'[w] = from[w] /\ missed'[w] = missed[w]

Typed(v) ==
    /\ published \in Nat /\ ingested \in Nat /\ since[v] \in Nat /\ from[v] \in Nat
    /\ mode[v] \in {"attach", "new"}
    /\ consumer[v] \in {"none", "now", "turn", "entries", "history", "consume", "over"}
    /\ queue[v] \in Seq(Chunks) /\ pipe[v] \in Seq(Chunks) /\ written[v] \in Seq(Chunks)
    /\ replay[v] \subseteq Chunks /\ history[v] \subseteq Chunks
    /\ \A p : p \in replay[v] \/ p \in history[v] => p \in Nat /\ 0 < p
    /\ \A p : In(written[v], p) \/ In(pipe[v], p) \/ In(queue[v], p) => p \in Nat /\ 0 < p

LEMMA TypesOf ==
    ASSUME TypeOK, NEW v \in Viewers
    PROVE  Typed(v)
<1>1. /\ queue[v] \in Seq(Chunks) /\ pipe[v] \in Seq(Chunks)
      /\ written[v] \in Seq(Chunks)
  BY DEF TypeOK
<1>2. \A p \in Chunks : p \in Nat /\ 0 < p
  BY DEF Chunks
<1>3. \A p : In(written[v], p) \/ In(pipe[v], p) \/ In(queue[v], p) => p \in Nat /\ 0 < p
  BY <1>1, <1>2, InChunks
<1>4. /\ published \in Nat /\ ingested \in Nat /\ since[v] \in Nat /\ from[v] \in Nat
      /\ mode[v] \in {"attach", "new"}
      /\ consumer[v] \in {"none", "now", "turn", "entries", "history", "consume", "over"}
  BY DEF TypeOK
<1>5. replay[v] \subseteq Chunks /\ history[v] \subseteq Chunks
  BY DEF TypeOK
<1> QED
  BY <1>1, <1>2, <1>3, <1>4, <1>5 DEF Typed

\* What comes with the stream comes after all that was written.
LEMMA StreamIsNew ==
    ASSUME NEW v \in Viewers, ViewerInv(v), Typed(v), mode[v] = "attach",
           NEW p \in Nat, ToStream(v, p), pump[v] = "copy" \/ Ahead(v, p)
    PROVE  consumer[v] # "none" /\ \A q : In(written[v], q) => q < p
<1>1. /\ consumer[v] \in {"now", "turn", "entries", "history", "consume", "over"}
      /\ since[v] \in Nat /\ from[v] \in Nat
      /\ \A q : In(written[v], q) => q \in Nat /\ 0 < q
  BY DEF ViewerInv, Stages, Typed
<1>2. CASE consumer[v] \in {"now", "turn", "entries"}
  BY <1>1, <1>2, InEmpty DEF ViewerInv, Stages
<1>3. CASE consumer[v] = "history"
  <2>1. log /\ \A q : In(written[v], q) => q <= since[v]
    BY <1>3 DEF ViewerInv, Stages, Bounds
  <2> QED
    BY <1>1, <2>1 DEF ToStream
<1>4. CASE consumer[v] \in {"consume", "over"}
  <2>1. pump[v] = "copy" => log
    BY DEF ViewerInv, Origins, ToStream
  <2>2. since[v] < p \/ p = 0
    BY <1>1, <1>4 DEF ViewerInv, Origins, ToStream
  <2>3. 0 < p
    BY <1>1 DEF ToStream
  <2>4. CASE pump[v] = "copy"
    BY <1>1, <1>4, <2>2, <2>3 DEF ViewerInv, AfterWritten
  <2>5. CASE Ahead(v, p)
    BY <1>1, <1>4, <2>2, <2>3 DEF ViewerInv, AfterWritten
  <2> QED
    BY <1>1, <2>4, <2>5
<1> QED
  BY <1>1, <1>2, <1>3, <1>4

LEMMA Domains ==
    ASSUME TypeOK
    PROVE  /\ DOMAIN queue = Viewers /\ DOMAIN reader = Viewers /\ DOMAIN pump = Viewers
           /\ DOMAIN consumer = Viewers /\ DOMAIN mode = Viewers /\ DOMAIN replay = Viewers
           /\ DOMAIN pipe = Viewers /\ DOMAIN since = Viewers /\ DOMAIN turn = Viewers
           /\ DOMAIN history = Viewers /\ DOMAIN cancelled = Viewers
           /\ DOMAIN broken = Viewers /\ DOMAIN written = Viewers /\ DOMAIN from = Viewers
           /\ DOMAIN missed = Viewers
BY DEF TypeOK

LEMMA Elsewhere ==
    ASSUME StreamInv, UNCHANGED output, NEW w \in Viewers, Same(w)
    PROVE  ViewerInv(w)'
<1>1. ViewerInv(w)
  BY DEF StreamInv
<1>2. Stages(w)'
  BY <1>1 DEF ViewerInv, Same, Stages, output
<1>3. Bounds(w)'
  BY <1>1 DEF ViewerInv, Same, Bounds, output
<1>4. Queues(w)'
  BY <1>1 DEF ViewerInv, Same, Queues
<1>5. AfterWritten(w)'
  BY <1>1 DEF ViewerInv, Same, AfterWritten, Ahead
<1>6. Origins(w)'
  BY <1>1 DEF ViewerInv, Same, Origins, output
<1>7. NewCovered(w)'
  BY <1>1 DEF ViewerInv, Same, NewCovered, Passed, Dropped, output
<1>8. StreamCovered(w)'
  BY <1>1 DEF ViewerInv, Same, StreamCovered, ToStream, Passed, Cut, InStream, Dropped,
     Ahead, output
<1>9. HistoryCovered(w)'
  BY <1>1 DEF ViewerInv, Same, HistoryCovered, Passed, Cut, InHistory, output
<1> QED
  BY <1>2, <1>3, <1>4, <1>5, <1>6, <1>7, <1>8, <1>9 DEF ViewerInv

-----------------------------------------------------------------------------
(* Each action of a viewer keeps the invariant.                            *)

LEMMA OpenKeeps ==
    ASSUME TypeOK, TypeOK', StreamInv, NEW v \in Viewers, NEW m \in {"attach", "new"},
           Open(v, m)
    PROVE  StreamInv'
<1>0. ViewerInv(v) /\ Typed(v)
  BY TypesOf DEF StreamInv
<1>1. /\ reader[v] = "none"
      /\ reader'[v] = "read"
      /\ mode'[v] = m
      /\ m \in {"attach", "new"}
      /\ m = "attach" => pump'[v] = "copy" /\ consumer'[v] = "now"
      /\ m = "new" => pump'[v] = "none" /\ consumer'[v] = "none"
  BY Domains DEF Open, Set
<1>2. UNCHANGED output /\ UNCHANGED <<queue, replay, pipe, since, turn, history, cancelled,
                                      broken, written, from, missed>>
  BY DEF Open, output, locals, channels, socket, ghosts
<1>3. \A w \in Viewers : w # v => Same(w)
  <2>1. \A w \in Viewers : w # v => reader'[w] = reader[w]
    BY DEF Set, Open
  <2>2. \A w \in Viewers : w # v => mode'[w] = mode[w]
    BY DEF Set, Open
  <2>3. \A w \in Viewers : w # v => pump'[w] = pump[w]
    BY DEF Set, Open
  <2>4. \A w \in Viewers : w # v => consumer'[w] = consumer[w]
    BY DEF Set, Open
  <2> QED
    BY <1>2, <2>1, <2>2, <2>3, <2>4 DEF Same
<1>4. Stages(v)'
  BY <1>0, <1>1, <1>2 DEF ViewerInv, Stages, Typed, output
<1>5. Bounds(v)'
  BY <1>0, <1>1, <1>2 DEF ViewerInv, Bounds, Stages, Ahead, Typed, output
<1>6. Queues(v)'
  BY <1>0, <1>2 DEF ViewerInv, Queues
<1>7. AfterWritten(v)'
  BY <1>0, <1>1, <1>2 DEF ViewerInv, AfterWritten, Ahead, Stages, Bounds, Queues, Typed
<1>8. Origins(v)'
  BY <1>0, <1>1, <1>2 DEF ViewerInv, Origins, Stages, Typed, output
<1>9. NewCovered(v)'
  BY <1>0, <1>1, <1>2 DEF ViewerInv, NewCovered, Passed, Dropped, AfterWritten, Origins,
     Queues, Bounds, Stages, Typed, output
<1>10. StreamCovered(v)'
  BY <1>0, <1>1, <1>2 DEF ViewerInv, StreamCovered, ToStream, Passed, Cut, InStream,
     Dropped, Ahead, AfterWritten, Origins, Queues, Bounds, Stages, Typed, output
<1>11. HistoryCovered(v)'
  BY <1>0, <1>1, <1>2 DEF ViewerInv, HistoryCovered, Passed, Cut, InHistory, AfterWritten,
     Origins, Bounds, Stages, Typed, output
<1> QED
  BY <1>2, <1>3, <1>4, <1>5, <1>6, <1>7, <1>8, <1>9, <1>10, <1>11, Elsewhere DEF
     StreamInv, ViewerInv

LEMMA BreakKeeps ==
    ASSUME TypeOK, TypeOK', StreamInv, NEW v \in Viewers, Break(v)
    PROVE  StreamInv'
<1>0. ViewerInv(v) /\ Typed(v)
  BY TypesOf DEF StreamInv
<1>1. /\ broken'[v] = TRUE
  BY Domains DEF Break, Set
<1>2. UNCHANGED output /\ UNCHANGED <<queue, reader, pump, consumer, mode, replay, pipe, since,
                                      turn, history, cancelled, written, from, missed>>
  BY DEF Break, output, locals, channels, socket, ghosts
<1>3. \A w \in Viewers : w # v => Same(w)
  BY <1>2 DEF Same, Set, Break
<1>4. Stages(v)'
  BY <1>0, <1>2 DEF ViewerInv, Stages, output
<1>5. Bounds(v)'
  BY <1>0, <1>2 DEF ViewerInv, Bounds, Ahead, output
<1>6. Queues(v)'
  BY <1>0, <1>2 DEF ViewerInv, Queues
<1>7. AfterWritten(v)'
  BY <1>0, <1>2 DEF ViewerInv, AfterWritten, Ahead
<1>8. Origins(v)'
  BY <1>0, <1>2 DEF ViewerInv, Origins, output
<1>9. NewCovered(v)'
  BY <1>0, <1>2 DEF ViewerInv, NewCovered, Passed, Dropped, output
<1>10. StreamCovered(v)'
  BY <1>0, <1>2 DEF ViewerInv, StreamCovered, Passed, Cut, InStream, Dropped, Ahead,
     ToStream, output
<1>11. HistoryCovered(v)'
  BY <1>0, <1>2 DEF ViewerInv, HistoryCovered, Passed, Cut, InHistory, output
<1> QED
  BY <1>2, <1>3, <1>4, <1>5, <1>6, <1>7, <1>8, <1>9, <1>10, <1>11, Elsewhere DEF
     StreamInv, ViewerInv

LEMMA PingKeeps ==
    ASSUME TypeOK, TypeOK', StreamInv, NEW v \in Viewers, Ping(v)
    PROVE  StreamInv'
<1>0. ViewerInv(v) /\ Typed(v)
  BY TypesOf DEF StreamInv
<1>1. /\ broken[v]
      /\ cancelled'[v] = TRUE
  BY Domains DEF Ping, Set
<1>2. UNCHANGED output /\ UNCHANGED <<queue, reader, pump, consumer, mode, replay, pipe, since,
                                      turn, history, broken, written, from, missed>>
  BY DEF Ping, output, locals, channels, socket, ghosts
<1>3. \A w \in Viewers : w # v => Same(w)
  BY <1>2 DEF Same, Set, Ping
<1>4. Stages(v)'
  BY <1>0, <1>2 DEF ViewerInv, Stages, output
<1>5. Bounds(v)'
  BY <1>0, <1>2 DEF ViewerInv, Bounds, Ahead, output
<1>6. Queues(v)'
  BY <1>0, <1>2 DEF ViewerInv, Queues
<1>7. AfterWritten(v)'
  BY <1>0, <1>2 DEF ViewerInv, AfterWritten, Ahead
<1>8. Origins(v)'
  BY <1>0, <1>2 DEF ViewerInv, Origins, output
<1>9. NewCovered(v)'
  BY <1>0, <1>2 DEF ViewerInv, NewCovered, Passed, Dropped, output
<1>10. StreamCovered(v)'
  BY <1>0, <1>2 DEF ViewerInv, StreamCovered, Passed, Cut, InStream, Dropped, Ahead,
     ToStream, output
<1>11. HistoryCovered(v)'
  BY <1>0, <1>2 DEF ViewerInv, HistoryCovered, Passed, Cut, InHistory, output
<1> QED
  BY <1>2, <1>3, <1>4, <1>5, <1>6, <1>7, <1>8, <1>9, <1>10, <1>11, Elsewhere DEF
     StreamInv, ViewerInv

LEMMA CopyKeeps ==
    ASSUME TypeOK, TypeOK', StreamInv, NEW v \in Viewers, Copy(v)
    PROVE  StreamInv'
<1>0. ViewerInv(v) /\ Typed(v)
  BY TypesOf DEF StreamInv
<1>1. /\ pump[v] = "copy"
      /\ pump'[v] = "replay"
      /\ replay'[v] = {p \in 1 .. published : p + BufferSize > published}
      /\ log => from'[v] = from[v]
      /\ ~log => from'[v] = (IF published > BufferSize THEN published - BufferSize + 1 ELSE 1)
      /\ missed'[v] = missed[v] \cup {p \in 1 .. published : p > since[v]
         /\ p + BufferSize <= published}
  BY Domains DEF Copy, Set, NotPump
<1>2. UNCHANGED output /\ UNCHANGED <<queue, reader, consumer, mode, pipe, since, turn,
                                      history, cancelled, broken, written>>
  BY DEF Copy, NotPump, output, locals, channels, socket
<1>3. \A w \in Viewers : w # v => Same(w)
  <2>1. \A w \in Viewers : w # v => pump'[w] = pump[w]
    BY DEF Set, Copy, NotPump
  <2>2. \A w \in Viewers : w # v => replay'[w] = replay[w]
    BY DEF Set, Copy, NotPump
  <2>3. \A w \in Viewers : w # v => from'[w] = from[w]
    BY DEF Set, Copy, NotPump
  <2>4. \A w \in Viewers : w # v => missed'[w] = missed[w]
    BY DEF Set, Copy, NotPump
  <2> QED
    BY <1>2, <2>1, <2>2, <2>3, <2>4 DEF Same
<1>4. \A p : ~In(pipe[v], p) /\ ~In(queue[v], p)
  BY <1>0, <1>1, InEmpty DEF ViewerInv, Stages
<1>5. Stages(v)'
  BY <1>0, <1>1, <1>2 DEF ViewerInv, Stages, Typed, output
<1>6. Bounds(v)'
  BY <1>0, <1>1, <1>2, <1>4 DEF ViewerInv, Bounds, Stages, Ahead, Typed, output
<1>7. Queues(v)'
  BY <1>0, <1>1, <1>2, <1>4 DEF ViewerInv, Queues, Bounds, Stages, Typed
<1>8. AfterWritten(v)'
  BY <1>0, <1>1, <1>2, <1>4 DEF ViewerInv, AfterWritten, Ahead, Stages, Bounds, Queues,
     Typed
<1>9. Origins(v)'
  BY <1>0, <1>1, <1>2 DEF ViewerInv, Origins, Stages, Typed, output
<1>10. NewCovered(v)'
  BY <1>0, <1>1, <1>2, <1>4, InEmpty DEF ViewerInv, NewCovered, Passed, Dropped,
     AfterWritten, Origins, Queues, Bounds, Stages, Typed, output
<1>11. StreamCovered(v)'
  BY <1>0, <1>1, <1>2, <1>4, InEmpty, StreamAssumption DEF ViewerInv, StreamCovered,
     ToStream, Passed, Cut, InStream, Dropped, Ahead, AfterWritten, Origins, Queues,
     Bounds, Stages, Typed, output
<1>12. HistoryCovered(v)'
  BY <1>0, <1>1, <1>2, <1>4, InEmpty DEF ViewerInv, HistoryCovered, Passed, Cut,
     InHistory, AfterWritten, Origins, Bounds, Stages, Typed, output
<1> QED
  BY <1>2, <1>3, <1>5, <1>6, <1>7, <1>8, <1>9, <1>10, <1>11, <1>12, Elsewhere DEF
     StreamInv, ViewerInv

LEMMA TaskLiveFailsKeeps ==
    ASSUME TypeOK, TypeOK', StreamInv, NEW v \in Viewers, TaskLiveFails(v)
    PROVE  StreamInv'
<1>0. ViewerInv(v) /\ Typed(v)
  BY TypesOf DEF StreamInv
<1>1. /\ pump[v] = "copy" \/ (pump[v] = "subscribe" /\ mode[v] = "new")
      /\ pump'[v] = "over"
  BY Domains DEF TaskLiveFails, Set, NotPump
<1>2. UNCHANGED output /\ UNCHANGED <<queue, reader, consumer, mode, replay, pipe, since, turn,
                                      history, broken, written, from, missed>>
  BY DEF TaskLiveFails, NotPump, output, locals, channels, socket
<1>3. \A w \in Viewers : w # v => Same(w)
  <2>1. \A w \in Viewers : w # v => pump'[w] = pump[w]
    BY DEF Set, TaskLiveFails, NotPump
  <2>2. \A w \in Viewers : w # v => cancelled'[w] = cancelled[w]
    BY Domains DEF Set, TaskLiveFails, NotPump
  <2> QED
    BY <1>2, <2>1, <2>2 DEF Same
<1>4. Stages(v)'
  BY <1>0, <1>1, <1>2 DEF ViewerInv, Stages, Typed, output
<1>5. Bounds(v)'
  BY <1>0, <1>2 DEF ViewerInv, Bounds, Ahead, output
<1>6. Queues(v)'
  BY <1>0, <1>2 DEF ViewerInv, Queues
<1>7. AfterWritten(v)'
  BY <1>0, <1>1, <1>2 DEF ViewerInv, AfterWritten, Ahead, Stages, Bounds, Queues, Typed
<1>8. Origins(v)'
  BY <1>0, <1>1, <1>2 DEF ViewerInv, Origins, Stages, Typed, output
<1>9. NewCovered(v)'
  BY <1>0, <1>1, <1>2, InEmpty DEF ViewerInv, NewCovered, Passed, Dropped, AfterWritten,
     Origins, Queues, Bounds, Stages, Typed, output
<1>10. StreamCovered(v)'
  <2> SUFFICES ASSUME mode[v] = "attach", NEW p \in 1 .. published, ToStream(v, p)
               PROVE  Passed(v, p)' \/ Cut(v, p)' \/ InStream(v, p)'
    BY <1>2 DEF StreamCovered, ToStream, output
  <2>1. p \in Nat /\ pump[v] = "copy" /\ pipe[v] = <<>>
    BY <1>0, <1>1 DEF Typed, ViewerInv, Stages
  <2>2. \A q : In(written[v], q) \/ In(pipe[v], q) => q < p
    BY <1>0, <2>1, StreamIsNew, InEmpty
  <2> QED
    BY <1>1, <1>2, <2>2 DEF InStream, Dropped
<1>11. HistoryCovered(v)'
  BY <1>0, <1>2 DEF ViewerInv, HistoryCovered, Passed, Cut, InHistory, output
<1> QED
  BY <1>2, <1>3, <1>4, <1>5, <1>6, <1>7, <1>8, <1>9, <1>10, <1>11, Elsewhere DEF
     StreamInv, ViewerInv

LEMMA ReplayKeeps ==
    ASSUME TypeOK, TypeOK', StreamInv, NEW v \in Viewers, Replay(v)
    PROVE  StreamInv'
<1>0. ViewerInv(v) /\ Typed(v)
  BY TypesOf DEF StreamInv
<1>1. /\ pump[v] = "replay"
      /\ replay[v] # {}
      /\ pipe'[v] = Append(pipe[v], Least(replay[v]))
      /\ replay'[v] = replay[v] \ {Least(replay[v])}
  BY Domains DEF Replay, Set, NotPump
<1>2. UNCHANGED output /\ UNCHANGED <<queue, reader, pump, consumer, mode, since, turn,
                                      history, cancelled, broken, written, from, missed>>
  BY DEF Replay, NotPump, output, locals, channels, socket
<1>3. \A w \in Viewers : w # v => Same(w)
  BY <1>2 DEF Same, Set, Replay, NotPump
<1>4. Least(replay[v]) \in replay[v] /\ \A q \in replay[v] : Least(replay[v]) <= q
  BY <1>1, <1>2, <1>0, LeastIsLeast DEF Typed
<1>5. \A p : In(pipe'[v], p) <=> In(pipe[v], p) \/ p = Least(replay[v])
  <2>1. pipe[v] \in Seq(Chunks) /\ Least(replay[v]) \in Chunks
    BY <1>0, <1>4 DEF Typed
  <2> QED
    BY <1>1, <2>1, InAppend
<1>6. Sorted(pipe'[v])
  <2>1. pipe[v] \in Seq(Chunks) /\ Least(replay[v]) \in Chunks
    BY <1>0, <1>4 DEF ViewerInv, Typed
  <2>2. Sorted(pipe[v]) /\ \A p : In(pipe[v], p) => p < Least(replay[v])
    BY <1>0, <1>1, <1>4 DEF ViewerInv, Queues
  <2> QED
    BY <1>1, <2>1, <2>2, SortedAppend
<1>7. Stages(v)'
  BY <1>0, <1>1, <1>2, <1>4, <1>5 DEF ViewerInv, Stages, Typed, output
<1>8. Bounds(v)'
  BY <1>0, <1>1, <1>2, <1>4, <1>5, <1>6 DEF ViewerInv, Bounds, Stages, Ahead, Typed,
     output
<1>9. Queues(v)'
  <2>1. queue[v] = <<>> /\ \A p : ~In(queue[v], p)
    BY <1>0, <1>1, InEmpty DEF ViewerInv, Stages
  <2>2. \A q \in replay'[v] : q \in replay[v] /\ Least(replay[v]) < q
    BY <1>0, <1>1, <1>4 DEF Typed
  <2> QED
    BY <1>0, <1>2, <1>5, <1>6, <2>1, <2>2 DEF ViewerInv, Queues
<1>10. AfterWritten(v)'
  BY <1>0, <1>1, <1>2, <1>4, <1>5, <1>6 DEF ViewerInv, AfterWritten, Ahead, Stages,
     Bounds, Queues, Typed
<1>11. Origins(v)'
  BY <1>0, <1>2 DEF ViewerInv, Origins, output
<1>12. NewCovered(v)'
  BY <1>0, <1>1, <1>2, <1>4, <1>5, <1>6 DEF ViewerInv, NewCovered, Passed, Dropped,
     AfterWritten, Origins, Queues, Bounds, Stages, Typed, output
<1>13. StreamCovered(v)'
  BY <1>0, <1>1, <1>2, <1>4, <1>5, <1>6 DEF ViewerInv, StreamCovered, ToStream, Passed,
     Cut, InStream, Dropped, Ahead, AfterWritten, Origins, Queues, Bounds, Stages, Typed,
     output
<1>14. HistoryCovered(v)'
  BY <1>0, <1>2 DEF ViewerInv, HistoryCovered, Passed, Cut, InHistory, output
<1> QED
  BY <1>2, <1>3, <1>7, <1>8, <1>9, <1>10, <1>11, <1>12, <1>13, <1>14, Elsewhere DEF
     StreamInv, ViewerInv

LEMMA ReplayDoneKeeps ==
    ASSUME TypeOK, TypeOK', StreamInv, NEW v \in Viewers, ReplayDone(v)
    PROVE  StreamInv'
<1>0. ViewerInv(v) /\ Typed(v)
  BY TypesOf DEF StreamInv
<1>1. /\ pump[v] = "replay"
      /\ replay[v] = {}
      /\ pump'[v] = "subscribe"
  BY Domains DEF ReplayDone, Set, NotPump
<1>2. UNCHANGED output /\ UNCHANGED <<queue, reader, consumer, mode, replay, pipe, since, turn,
                                      history, cancelled, broken, written, from, missed>>
  BY DEF ReplayDone, NotPump, output, locals, channels, socket
<1>3. \A w \in Viewers : w # v => Same(w)
  BY <1>2 DEF Same, Set, ReplayDone, NotPump
<1>4. Stages(v)'
  BY <1>0, <1>1, <1>2 DEF ViewerInv, Stages, Typed, output
<1>5. Bounds(v)'
  BY <1>0, <1>2 DEF ViewerInv, Bounds, Ahead, output
<1>6. Queues(v)'
  BY <1>0, <1>2 DEF ViewerInv, Queues
<1>7. AfterWritten(v)'
  BY <1>0, <1>1, <1>2 DEF ViewerInv, AfterWritten, Ahead, Stages, Bounds, Queues, Typed
<1>8. Origins(v)'
  BY <1>0, <1>1, <1>2 DEF ViewerInv, Origins, Stages, Typed, output
<1>9. NewCovered(v)'
  BY <1>0, <1>1, <1>2 DEF ViewerInv, NewCovered, Passed, Dropped, AfterWritten, Origins,
     Queues, Bounds, Stages, Typed, output
<1>10. StreamCovered(v)'
  BY <1>0, <1>1, <1>2 DEF ViewerInv, StreamCovered, ToStream, Passed, Cut, InStream,
     Dropped, Ahead, AfterWritten, Origins, Queues, Bounds, Stages, Typed, output
<1>11. HistoryCovered(v)'
  BY <1>0, <1>2 DEF ViewerInv, HistoryCovered, Passed, Cut, InHistory, output
<1> QED
  BY <1>2, <1>3, <1>4, <1>5, <1>6, <1>7, <1>8, <1>9, <1>10, <1>11, Elsewhere DEF
     StreamInv, ViewerInv

LEMMA SubscribeKeeps ==
    ASSUME TypeOK, TypeOK', StreamInv, NEW v \in Viewers, Subscribe(v)
    PROVE  StreamInv'
<1>0. ViewerInv(v) /\ Typed(v)
  BY TypesOf DEF StreamInv
<1>1. /\ pump[v] = "subscribe"
      /\ pump'[v] = "pump"
  BY Domains DEF Subscribe, Set, NotPump
<1>2. UNCHANGED output /\ UNCHANGED <<queue, reader, consumer, mode, replay, pipe, since, turn,
                                      history, cancelled, broken, written, from, missed>>
  BY DEF Subscribe, NotPump, output, locals, channels, socket
<1>3. \A w \in Viewers : w # v => Same(w)
  BY <1>2 DEF Same, Set, Subscribe, NotPump
<1>4. Stages(v)'
  BY <1>0, <1>1, <1>2 DEF ViewerInv, Stages, Typed, output
<1>5. Bounds(v)'
  BY <1>0, <1>2 DEF ViewerInv, Bounds, Ahead, output
<1>6. Queues(v)'
  BY <1>0, <1>2 DEF ViewerInv, Queues
<1>7. AfterWritten(v)'
  BY <1>0, <1>1, <1>2 DEF ViewerInv, AfterWritten, Ahead, Stages, Bounds, Queues, Typed
<1>8. Origins(v)'
  BY <1>0, <1>1, <1>2 DEF ViewerInv, Origins, Stages, Typed, output
<1>9. NewCovered(v)'
  BY <1>0, <1>1, <1>2 DEF ViewerInv, NewCovered, Passed, Dropped, AfterWritten, Origins,
     Queues, Bounds, Stages, Typed, output
<1>10. StreamCovered(v)'
  BY <1>0, <1>1, <1>2 DEF ViewerInv, StreamCovered, ToStream, Passed, Cut, InStream,
     Dropped, Ahead, AfterWritten, Origins, Queues, Bounds, Stages, Typed, output
<1>11. HistoryCovered(v)'
  BY <1>0, <1>1, <1>2 DEF ViewerInv, HistoryCovered, Passed, Cut, InHistory, AfterWritten,
     Origins, Bounds, Stages, Typed, output
<1> QED
  BY <1>2, <1>3, <1>4, <1>5, <1>6, <1>7, <1>8, <1>9, <1>10, <1>11, Elsewhere DEF
     StreamInv, ViewerInv

LEMMA PassKeeps ==
    ASSUME TypeOK, TypeOK', StreamInv, NEW v \in Viewers, Pass(v)
    PROVE  StreamInv'
<1>0. ViewerInv(v) /\ Typed(v)
  BY TypesOf DEF StreamInv
<1>1. /\ pump[v] = "pump"
      /\ mode[v] = "attach"
      /\ queue[v] # <<>>
      /\ queue'[v] = Tail(queue[v])
      /\ pipe'[v] = Append(pipe[v], Head(queue[v]))
  BY Domains DEF Pass, Set, NotPump
<1>2. UNCHANGED output /\ UNCHANGED <<reader, pump, consumer, mode, replay, since, turn,
                                      history, cancelled, broken, written, from, missed>>
  BY DEF Pass, NotPump, output, locals, channels, socket
<1>3. \A w \in Viewers : w # v => Same(w)
  BY <1>2 DEF Same, Set, Pass, NotPump
<1>4. /\ Head(queue[v]) \in Chunks /\ In(queue[v], Head(queue[v]))
      /\ \A p : In(queue[v], p) <=> p = Head(queue[v]) \/ In(queue'[v], p)
      /\ Sorted(queue'[v]) /\ \A p : In(queue'[v], p) => Head(queue[v]) < p
  BY <1>1, <1>2, <1>0, InTail, SortedTail DEF ViewerInv, Typed, Queues
<1>5. \A p : In(pipe'[v], p) <=> In(pipe[v], p) \/ p = Head(queue[v])
  <2>1. pipe[v] \in Seq(Chunks) /\ Head(queue[v]) \in Chunks
    BY <1>0, <1>4 DEF Typed
  <2> QED
    BY <1>1, <2>1, InAppend
<1>6. Sorted(pipe'[v])
  <2>1. pipe[v] \in Seq(Chunks) /\ Head(queue[v]) \in Chunks
    BY <1>0, <1>4 DEF ViewerInv, Typed
  <2>2. Sorted(pipe[v]) /\ \A p : In(pipe[v], p) => p < Head(queue[v])
    BY <1>0, <1>1, <1>4 DEF ViewerInv, Queues
  <2> QED
    BY <1>1, <2>1, <2>2, SortedAppend
<1>7. Stages(v)'
  BY <1>0, <1>1, <1>2, <1>4, <1>5 DEF ViewerInv, Stages, Typed, output
<1>8. Bounds(v)'
  BY <1>0, <1>1, <1>2, <1>4, <1>5, <1>6 DEF ViewerInv, Bounds, Stages, Ahead, Typed,
     output
<1>9. Queues(v)'
  BY <1>0, <1>1, <1>2, <1>4, <1>5, <1>6 DEF ViewerInv, Queues, Bounds, Stages, Typed
<1>10. AfterWritten(v)'
  BY <1>0, <1>1, <1>2, <1>4, <1>5, <1>6 DEF ViewerInv, AfterWritten, Ahead, Stages,
     Bounds, Queues, Typed
<1>11. Origins(v)'
  BY <1>0, <1>2 DEF ViewerInv, Origins, output
<1>12. NewCovered(v)'
  BY <1>0, <1>1, <1>2, <1>4, <1>5, <1>6 DEF ViewerInv, NewCovered, Passed, Dropped,
     AfterWritten, Origins, Queues, Bounds, Stages, Typed, output
<1>13. StreamCovered(v)'
  BY <1>0, <1>1, <1>2, <1>4, <1>5, <1>6 DEF ViewerInv, StreamCovered, ToStream, Passed,
     Cut, InStream, Dropped, Ahead, AfterWritten, Origins, Queues, Bounds, Stages, Typed,
     output
<1>14. HistoryCovered(v)'
  BY <1>0, <1>2 DEF ViewerInv, HistoryCovered, Passed, Cut, InHistory, output
<1> QED
  BY <1>2, <1>3, <1>7, <1>8, <1>9, <1>10, <1>11, <1>12, <1>13, <1>14, Elsewhere DEF
     StreamInv, ViewerInv

LEMMA ShowKeeps ==
    ASSUME TypeOK, TypeOK', StreamInv, NEW v \in Viewers, Show(v)
    PROVE  StreamInv'
<1>0. ViewerInv(v) /\ Typed(v)
  BY TypesOf DEF StreamInv
<1>1. /\ pump[v] = "pump"
      /\ mode[v] = "new"
      /\ queue[v] # <<>>
      /\ queue'[v] = Tail(queue[v])
      /\ broken[v] => written'[v] = written[v]
      /\ ~broken[v] => written'[v] = Append(written[v], Head(queue[v]))
      /\ \/ pump'[v] = pump[v] /\ cancelled'[v] = cancelled[v] /\ ~broken[v]
         \/ pump'[v] = "over"
      /\ cancelled'[v] => cancelled[v] \/ broken[v] \/ Head(queue[v]) \in ends
  BY Domains DEF Show, Set, NotPump, Write
<1>2. UNCHANGED output /\ UNCHANGED <<reader, consumer, mode, replay, pipe, since, turn,
                                      history, broken, from, missed>>
  BY DEF Show, NotPump, output, locals, channels, socket
<1>3. \A w \in Viewers : w # v => Same(w)
  <2>1. \A w \in Viewers : w # v => queue'[w] = queue[w]
    BY DEF Set, Show, NotPump, Write
  <2>2. \A w \in Viewers : w # v => written'[w] = written[w]
    BY Domains DEF Set, Show, NotPump, Write
  <2>3. \A w \in Viewers : w # v => pump'[w] = pump[w]
    BY Domains DEF Set, Show, NotPump, Write
  <2>4. \A w \in Viewers : w # v => cancelled'[w] = cancelled[w]
    BY Domains DEF Set, Show, NotPump, Write
  <2> QED
    BY <1>2, <2>1, <2>2, <2>3, <2>4 DEF Same
<1>4. /\ Head(queue[v]) \in Chunks /\ In(queue[v], Head(queue[v]))
      /\ \A p : In(queue[v], p) <=> p = Head(queue[v]) \/ In(queue'[v], p)
      /\ Sorted(queue'[v]) /\ \A p : In(queue'[v], p) => Head(queue[v]) < p
  BY <1>1, <1>2, <1>0, InTail, SortedTail DEF ViewerInv, Typed, Queues
<1>5. \A p : In(written'[v], p) <=> In(written[v], p) \/ (~broken[v] /\ p = Head(queue[v]))
  <2>1. written[v] \in Seq(Chunks) /\ Head(queue[v]) \in Chunks
    BY <1>0, <1>4 DEF Typed
  <2>2. CASE broken[v]
    BY <1>1, <2>2
  <2>3. CASE ~broken[v]
    <3>1. written'[v] = Append(written[v], Head(queue[v]))
      BY <1>1, <2>3
    <3> QED
      BY <2>1, <2>3, <3>1, InAppend
  <2> QED
    BY <2>2, <2>3
<1>6. Sorted(written'[v])
  <2>1. written[v] \in Seq(Chunks) /\ Head(queue[v]) \in Chunks
    BY <1>0, <1>4 DEF ViewerInv, Typed
  <2>2. Sorted(written[v]) /\ \A p : In(written[v], p) => p < Head(queue[v])
    BY <1>0, <1>1, <1>4 DEF ViewerInv, Queues, AfterWritten
  <2> QED
    BY <1>1, <2>1, <2>2, SortedAppend
<1>7. Stages(v)'
  BY <1>0, <1>1, <1>2, <1>4, <1>5 DEF ViewerInv, Stages, Typed, output
<1>8. Bounds(v)'
  BY <1>0, <1>1, <1>2, <1>4, <1>5, <1>6 DEF ViewerInv, Bounds, Stages, Ahead, Typed,
     output
<1>9. Queues(v)'
  BY <1>0, <1>1, <1>2, <1>4, <1>5, <1>6 DEF ViewerInv, Queues, Bounds, Stages, Typed
<1>10. AfterWritten(v)'
  BY <1>0, <1>1, <1>2, <1>4, <1>5, <1>6 DEF ViewerInv, AfterWritten, Ahead, Stages,
     Bounds, Queues, Typed
<1>11. Origins(v)'
  BY <1>0, <1>1, <1>2, <1>4, <1>5 DEF ViewerInv, Origins, Stages, Typed, output
<1>12. NewCovered(v)'
  BY <1>0, <1>1, <1>2, <1>4, <1>5, <1>6 DEF ViewerInv, NewCovered, Passed, Dropped,
     AfterWritten, Origins, Queues, Bounds, Stages, Typed, output
<1>13. StreamCovered(v)'
  BY <1>0, <1>1, <1>2, <1>4, <1>5, <1>6 DEF ViewerInv, StreamCovered, ToStream, Passed,
     Cut, InStream, Dropped, Ahead, AfterWritten, Origins, Queues, Bounds, Stages, Typed,
     output
<1>14. HistoryCovered(v)'
  BY <1>0, <1>1, <1>2, <1>4, <1>5, <1>6 DEF ViewerInv, HistoryCovered, Passed, Cut,
     InHistory, AfterWritten, Origins, Bounds, Stages, Typed, output
<1> QED
  BY <1>2, <1>3, <1>7, <1>8, <1>9, <1>10, <1>11, <1>12, <1>13, <1>14, Elsewhere DEF
     StreamInv, ViewerInv

LEMMA PumpCancelledKeeps ==
    ASSUME TypeOK, TypeOK', StreamInv, NEW v \in Viewers, PumpCancelled(v)
    PROVE  StreamInv'
<1>0. ViewerInv(v) /\ Typed(v)
  BY TypesOf DEF StreamInv
<1>1. /\ cancelled[v]
      /\ pump[v] \in {"replay", "pump"}
      /\ pump'[v] = "over"
      /\ queue'[v] = <<>>
  BY Domains DEF PumpCancelled, Set, NotPump
<1>2. UNCHANGED output /\ UNCHANGED <<reader, consumer, mode, replay, pipe, since, turn,
                                      history, cancelled, broken, written, from, missed>>
  BY DEF PumpCancelled, NotPump, output, locals, channels, socket
<1>3. \A w \in Viewers : w # v => Same(w)
  BY <1>2 DEF Same, Set, PumpCancelled, NotPump
<1>4. Sorted(queue'[v]) /\ \A p : ~In(queue'[v], p)
  BY <1>1, <1>2, InEmpty
<1>5. Stages(v)'
  BY <1>0, <1>1, <1>2 DEF ViewerInv, Stages, Typed, output
<1>6. Bounds(v)'
  BY <1>0, <1>1, <1>2, <1>4 DEF ViewerInv, Bounds, Stages, Ahead, Typed, output
<1>7. Queues(v)'
  BY <1>0, <1>1, <1>2, <1>4 DEF ViewerInv, Queues, Bounds, Stages, Typed
<1>8. AfterWritten(v)'
  BY <1>0, <1>1, <1>2, <1>4 DEF ViewerInv, AfterWritten, Ahead, Stages, Bounds, Queues,
     Typed
<1>9. Origins(v)'
  BY <1>0, <1>1, <1>2 DEF ViewerInv, Origins, Stages, Typed, output
<1>10. NewCovered(v)'
  BY <1>0, <1>1, <1>2, <1>4 DEF ViewerInv, NewCovered, Passed, Dropped, AfterWritten,
     Origins, Queues, Bounds, Stages, Typed, output
<1>11. StreamCovered(v)'
  <2> SUFFICES ASSUME mode[v] = "attach", NEW p \in 1 .. published, ToStream(v, p)
               PROVE  Passed(v, p)' \/ Cut(v, p)' \/ InStream(v, p)'
    BY <1>2 DEF StreamCovered, ToStream, output
  <2>1. p \in Nat /\ since[v] \in Nat
    BY <1>0 DEF Typed
  <2>2. Passed(v, p) \/ Cut(v, p) \/ InStream(v, p)
    BY <1>0 DEF ViewerInv, StreamCovered
  <2>3. CASE In(queue[v], p)
    <3>1. pump[v] = "pump"
      BY <1>0, <1>1, <2>3, InEmpty DEF ViewerInv, Stages
    <3>2. \A q : In(pipe[v], q) => q < p
      BY <1>0, <2>3 DEF ViewerInv, Queues
    <3>3. \A q : In(written[v], q) => q < p
      BY <1>0, <2>1, <2>3, StreamIsNew DEF Ahead
    <3> QED
      BY <1>1, <1>2, <3>2, <3>3 DEF InStream, Dropped
  <2>4. CASE p \in replay[v] \/ In(pipe[v], p)
    BY <1>2, <2>4 DEF InStream, Ahead
  <2>5. CASE Passed(v, p) \/ Cut(v, p)
    BY <1>2, <2>5 DEF Passed, Cut
  <2> QED
    BY <1>1, <2>2, <2>3, <2>4, <2>5 DEF InStream, Ahead, Dropped
<1>12. HistoryCovered(v)'
  BY <1>0, <1>2 DEF ViewerInv, HistoryCovered, Passed, Cut, InHistory, output
<1> QED
  BY <1>2, <1>3, <1>5, <1>6, <1>7, <1>8, <1>9, <1>10, <1>11, <1>12, Elsewhere DEF
     StreamInv, ViewerInv

LEMMA NowKeeps ==
    ASSUME TypeOK, TypeOK', StreamInv, NEW v \in Viewers, Now(v)
    PROVE  StreamInv'
<1>0. ViewerInv(v) /\ Typed(v)
  BY TypesOf DEF StreamInv
<1>1. /\ consumer[v] = "now"
      /\ consumer'[v] = "turn"
      /\ since'[v] = published
  BY Domains DEF Now, Set, NotConsumer
<1>2. UNCHANGED output /\ UNCHANGED <<queue, reader, pump, mode, replay, pipe, turn, history,
                                      cancelled, broken, written, from, missed>>
  BY DEF Now, NotConsumer, output, locals, channels, socket
<1>3. \A w \in Viewers : w # v => Same(w)
  BY <1>2 DEF Same, Set, Now, NotConsumer
<1>4. Stages(v)'
  BY <1>0, <1>1, <1>2 DEF ViewerInv, Stages, Typed, output
<1>5. Bounds(v)'
  BY <1>0, <1>1, <1>2 DEF ViewerInv, Bounds, Stages, Ahead, Typed, output
<1>6. Queues(v)'
  BY <1>0, <1>2 DEF ViewerInv, Queues
<1>7. AfterWritten(v)'
  BY <1>0, <1>1, <1>2 DEF ViewerInv, AfterWritten, Ahead, Stages, Bounds, Queues, Typed
<1>8. Origins(v)'
  BY <1>0, <1>1, <1>2 DEF ViewerInv, Origins, Stages, Typed, output
<1>9. NewCovered(v)'
  BY <1>0, <1>2 DEF ViewerInv, NewCovered, Passed, Dropped, output
<1>10. StreamCovered(v)'
  BY <1>0, <1>1, <1>2 DEF ViewerInv, StreamCovered, ToStream, Passed, Cut, InStream,
     Dropped, Ahead, AfterWritten, Origins, Queues, Bounds, Stages, Typed, output
<1>11. HistoryCovered(v)'
  BY <1>0, <1>1, <1>2 DEF ViewerInv, HistoryCovered, Passed, Cut, InHistory, AfterWritten,
     Origins, Bounds, Stages, Typed, output
<1> QED
  BY <1>2, <1>3, <1>4, <1>5, <1>6, <1>7, <1>8, <1>9, <1>10, <1>11, Elsewhere DEF
     StreamInv, ViewerInv

LEMMA LatestTurnKeeps ==
    ASSUME TypeOK, TypeOK', StreamInv, NEW v \in Viewers, LatestTurn(v)
    PROVE  StreamInv'
<1>0. ViewerInv(v) /\ Typed(v)
  BY TypesOf DEF StreamInv
<1>1. /\ consumer[v] = "turn"
      /\ log => consumer'[v] = "entries" /\ since'[v] = since[v]
      /\ ~log => consumer'[v] = "consume" /\ since'[v] = 0
  BY Domains DEF LatestTurn, Set, NotConsumer
<1>2. UNCHANGED output /\ UNCHANGED <<queue, reader, pump, mode, replay, pipe, history,
                                      cancelled, broken, written, from, missed>>
  BY DEF LatestTurn, NotConsumer, output, locals, channels, socket
<1>3. \A w \in Viewers : w # v => Same(w)
  <2>1. \A w \in Viewers : w # v => consumer'[w] = consumer[w]
    BY Domains DEF Set, LatestTurn, NotConsumer
  <2>2. \A w \in Viewers : w # v => since'[w] = since[w]
    BY Domains DEF Set, LatestTurn, NotConsumer
  <2>3. \A w \in Viewers : w # v => turn'[w] = turn[w]
    BY Domains DEF Set, LatestTurn, NotConsumer
  <2> QED
    BY <1>2, <2>1, <2>2, <2>3 DEF Same
<1>4. \A p : ~In(written[v], p)
  BY <1>0, <1>1, InEmpty DEF ViewerInv, Stages
<1>5. Stages(v)'
  BY <1>0, <1>1, <1>2 DEF ViewerInv, Stages, Typed, output
<1>6. Bounds(v)'
  BY <1>0, <1>1, <1>2, <1>4 DEF ViewerInv, Bounds, Stages, Ahead, Typed, output
<1>7. Queues(v)'
  BY <1>0, <1>2 DEF ViewerInv, Queues
<1>8. AfterWritten(v)'
  BY <1>0, <1>1, <1>2, <1>4 DEF ViewerInv, AfterWritten, Ahead, Stages, Bounds, Queues,
     Typed
<1>9. Origins(v)'
  BY <1>0, <1>1, <1>2 DEF ViewerInv, Origins, Stages, Typed, output
<1>10. NewCovered(v)'
  BY <1>0, <1>2 DEF ViewerInv, NewCovered, Passed, Dropped, output
<1>11. StreamCovered(v)'
  BY <1>0, <1>1, <1>2, <1>4 DEF ViewerInv, StreamCovered, ToStream, Passed, Cut, InStream,
     Dropped, Ahead, AfterWritten, Origins, Queues, Bounds, Stages, Typed, output
<1>12. HistoryCovered(v)'
  BY <1>0, <1>1, <1>2, <1>4 DEF ViewerInv, HistoryCovered, Passed, Cut, InHistory,
     AfterWritten, Origins, Bounds, Stages, Typed, output
<1> QED
  BY <1>2, <1>3, <1>5, <1>6, <1>7, <1>8, <1>9, <1>10, <1>11, <1>12, Elsewhere DEF
     StreamInv, ViewerInv

LEMMA EntriesKeeps ==
    ASSUME TypeOK, TypeOK', StreamInv, NEW v \in Viewers, Entries(v)
    PROVE  StreamInv'
<1>0. ViewerInv(v) /\ Typed(v)
  BY TypesOf DEF StreamInv
<1>1. /\ consumer[v] = "entries"
      /\ consumer'[v] = "history"
      /\ history'[v] = {p \in 1 .. since[v] : p <= ingested /\ TurnOf(p) = turn[v]}
      /\ from'[v] = (IF history'[v] = {} THEN since[v] + 1 ELSE Least(history'[v]))
      /\ missed'[v] = (missed[v] \ history'[v]) \cup {p \in 1 .. since[v] : p > ingested
         \/ TurnOf(p) # turn[v]}
  BY Domains DEF Entries, Set, NotConsumer
<1>2. UNCHANGED output /\ UNCHANGED <<queue, reader, pump, mode, replay, pipe, since,
                                      cancelled, broken, written>>
  BY DEF Entries, NotConsumer, output, locals, channels, socket
<1>3. \A w \in Viewers : w # v => Same(w)
  <2>1. \A w \in Viewers : w # v => consumer'[w] = consumer[w]
    BY DEF Set, Entries, NotConsumer
  <2>2. \A w \in Viewers : w # v => turn'[w] = turn[w]
    BY DEF Set, Entries, NotConsumer
  <2>3. \A w \in Viewers : w # v => history'[w] = history[w]
    BY DEF Set, Entries, NotConsumer
  <2>4. \A w \in Viewers : w # v => from'[w] = from[w]
    BY DEF Set, Entries, NotConsumer
  <2>5. \A w \in Viewers : w # v => missed'[w] = missed[w]
    BY DEF Set, Entries, NotConsumer
  <2> QED
    BY <1>2, <2>1, <2>2, <2>3, <2>4, <2>5 DEF Same
<1>4. \A p : ~In(written[v], p)
  BY <1>0, <1>1, InEmpty DEF ViewerInv, Stages
<1>5. Stages(v)'
  BY <1>0, <1>1, <1>2 DEF ViewerInv, Stages, Typed, output
<1>6. Bounds(v)'
  BY <1>0, <1>1, <1>2, <1>4 DEF ViewerInv, Bounds, Stages, Ahead, Typed, output
<1>7. Queues(v)'
  BY <1>0, <1>2 DEF ViewerInv, Queues
<1>8. AfterWritten(v)'
  BY <1>0, <1>1, <1>2, <1>4 DEF ViewerInv, AfterWritten, Ahead, Stages, Bounds, Queues,
     Typed
<1>9. Origins(v)'
  BY <1>0, <1>1, <1>2 DEF ViewerInv, Origins, Stages, Typed, output
<1>10. NewCovered(v)'
  BY <1>0, <1>1, <1>2, <1>4 DEF ViewerInv, NewCovered, Passed, Dropped, AfterWritten,
     Origins, Queues, Bounds, Stages, Typed, output
<1>11. StreamCovered(v)'
  BY <1>0, <1>1, <1>2, <1>4, SMTT(30) DEF ViewerInv, StreamCovered, ToStream, Passed,
     Cut, InStream, Dropped, Ahead, AfterWritten, Origins, Queues, Bounds, Stages, Typed, output
<1>12. HistoryCovered(v)'
  <2> SUFFICES ASSUME NEW p \in from'[v] .. since[v]
               PROVE  Passed(v, p)' \/ Cut(v, p)' \/ InHistory(v, p)'
    BY <1>2 DEF HistoryCovered
  <2>1. from'[v] \in Nat /\ from'[v] # 0 /\ since[v] \in Nat
    <3>1. history'[v] \subseteq Nat
      BY <1>0, <1>1 DEF Typed
    <3>2. history'[v] # {} => Least(history'[v]) \in history'[v]
      BY <3>1, LeastIsLeast
    <3> QED
      BY <1>0, <1>1, <3>2 DEF Typed
  <2>2. p \in 1 .. since[v]
    BY <2>1
  <2>3. p \in history'[v] \/ p \in missed'[v]
    <3>1. ingested \in Nat /\ p \in Nat
      BY <1>0, <2>2 DEF Typed
    <3> QED
      BY <1>1, <2>2, <3>1
  <2> QED
    BY <1>1, <2>3 DEF Passed, InHistory
<1> QED
  BY <1>2, <1>3, <1>5, <1>6, <1>7, <1>8, <1>9, <1>10, <1>11, <1>12, Elsewhere DEF
     StreamInv, ViewerInv

LEMMA QueryFailsKeeps ==
    ASSUME TypeOK, TypeOK', StreamInv, NEW v \in Viewers, QueryFails(v)
    PROVE  StreamInv'
<1>0. ViewerInv(v) /\ Typed(v)
  BY TypesOf DEF StreamInv
<1>1. /\ consumer[v] \in {"turn", "entries"}
      /\ log
      /\ consumer'[v] = "over"
  BY Domains DEF QueryFails, Set, NotConsumer
<1>2. UNCHANGED output /\ UNCHANGED <<queue, reader, pump, mode, replay, pipe, since, turn,
                                      history, cancelled, broken, written, from, missed>>
  BY DEF QueryFails, NotConsumer, output, locals, channels, socket
<1>3. \A w \in Viewers : w # v => Same(w)
  BY <1>2 DEF Same, Set, QueryFails, NotConsumer
<1>4. \A p : ~In(written[v], p)
  BY <1>0, <1>1, InEmpty DEF ViewerInv, Stages
<1>5. Stages(v)'
  BY <1>0, <1>1, <1>2 DEF ViewerInv, Stages, Typed, output
<1>6. Bounds(v)'
  BY <1>0, <1>1, <1>2, <1>4 DEF ViewerInv, Bounds, Stages, Ahead, Typed, output
<1>7. Queues(v)'
  BY <1>0, <1>2 DEF ViewerInv, Queues
<1>8. AfterWritten(v)'
  BY <1>0, <1>1, <1>2, <1>4 DEF ViewerInv, AfterWritten, Ahead, Stages, Bounds, Queues,
     Typed
<1>9. Origins(v)'
  BY <1>0, <1>1, <1>2 DEF ViewerInv, Origins, Stages, Typed, output
<1>10. NewCovered(v)'
  BY <1>0, <1>2 DEF ViewerInv, NewCovered, Passed, Dropped, output
<1>11. StreamCovered(v)'
  BY <1>0, <1>1, <1>2, <1>4 DEF ViewerInv, StreamCovered, ToStream, Passed, Cut, InStream,
     Dropped, Ahead, AfterWritten, Origins, Queues, Bounds, Stages, Typed, output
<1>12. HistoryCovered(v)'
  BY <1>0, <1>1, <1>2, <1>4 DEF ViewerInv, HistoryCovered, Passed, Cut, InHistory,
     AfterWritten, Origins, Bounds, Stages, Typed, output
<1> QED
  BY <1>2, <1>3, <1>5, <1>6, <1>7, <1>8, <1>9, <1>10, <1>11, <1>12, Elsewhere DEF
     StreamInv, ViewerInv

LEMMA WriteHistoryKeeps ==
    ASSUME TypeOK, TypeOK', StreamInv, NEW v \in Viewers, WriteHistory(v)
    PROVE  StreamInv'
<1>0. ViewerInv(v) /\ Typed(v)
  BY TypesOf DEF StreamInv
<1>1. /\ consumer[v] = "history"
      /\ history[v] # {}
      /\ history'[v] = history[v] \ {Least(history[v])}
      /\ broken[v] => consumer'[v] = "over" /\ cancelled'[v] = cancelled[v]
         /\ written'[v] = written[v]
      /\ ~broken[v] => written'[v] = Append(written[v], Least(history[v]))
      /\ ~broken[v] => consumer'[v] \in {"over", "history"}
      /\ cancelled'[v] => cancelled[v] \/ (~broken[v] /\ Least(history[v]) \in ends)
  BY Domains DEF WriteHistory, Set, NotConsumer, ConsumerWrites, Write
<1>2. UNCHANGED output /\ UNCHANGED <<queue, reader, pump, mode, replay, pipe, since, turn,
                                      broken, from, missed>>
  BY DEF WriteHistory, NotConsumer, ConsumerWrites, output, locals, channels, socket
<1>3. \A w \in Viewers : w # v => Same(w)
  <2>1. \A w \in Viewers : w # v => consumer'[w] = consumer[w]
    BY Domains DEF Set, WriteHistory, NotConsumer, ConsumerWrites, Write
  <2>2. \A w \in Viewers : w # v => history'[w] = history[w]
    BY DEF Set, WriteHistory, NotConsumer, ConsumerWrites, Write
  <2>3. \A w \in Viewers : w # v => cancelled'[w] = cancelled[w]
    BY Domains DEF Set, WriteHistory, NotConsumer, ConsumerWrites, Write
  <2>4. \A w \in Viewers : w # v => written'[w] = written[w]
    BY Domains DEF Set, WriteHistory, NotConsumer, ConsumerWrites, Write
  <2> QED
    BY <1>2, <2>1, <2>2, <2>3, <2>4 DEF Same
<1>4. /\ Least(history[v]) \in history[v]
         /\ \A q \in history[v] : Least(history[v]) <= q
  BY <1>1, <1>2, <1>0, LeastIsLeast DEF Typed
<1>5. \A p : In(written'[v], p) <=> In(written[v], p) \/ (~broken[v] /\ p = Least(history[v]))
  <2>1. written[v] \in Seq(Chunks) /\ Least(history[v]) \in Chunks
    BY <1>0, <1>4 DEF Typed
  <2>2. CASE broken[v]
    BY <1>1, <2>2
  <2>3. CASE ~broken[v]
    <3>1. written'[v] = Append(written[v], Least(history[v]))
      BY <1>1, <2>3
    <3> QED
      BY <2>1, <2>3, <3>1, InAppend
  <2> QED
    BY <2>2, <2>3
<1>6. Sorted(written'[v])
  <2>1. written[v] \in Seq(Chunks) /\ Least(history[v]) \in Chunks
    BY <1>0, <1>4 DEF ViewerInv, Typed
  <2>2. Sorted(written[v]) /\ \A p : In(written[v], p) => p < Least(history[v])
    BY <1>0, <1>1, <1>4 DEF ViewerInv, Queues, AfterWritten
  <2> QED
    BY <1>1, <2>1, <2>2, SortedAppend
<1>7. Stages(v)'
  BY <1>0, <1>1, <1>2, <1>4, <1>5 DEF ViewerInv, Stages, Typed, output
<1>8. Bounds(v)'
  BY <1>0, <1>1, <1>2, <1>4, <1>5, <1>6 DEF ViewerInv, Bounds, Stages, Ahead, Typed,
     output
<1>9. Queues(v)'
  BY <1>0, <1>1, <1>2, <1>4, <1>5, <1>6 DEF ViewerInv, Queues, Bounds, Stages, Typed
<1>10. AfterWritten(v)'
  <2>1. mode'[v] # "new" /\ consumer'[v] \in {"history", "over"} /\ UNCHANGED <<since, pump>>
    BY <1>0, <1>1, <1>2 DEF ViewerInv, Stages
  <2>2. \A p, q : In(written'[v], p) /\ q \in history'[v] => p < q
    <3> SUFFICES ASSUME NEW p, NEW q, In(written'[v], p), q \in history'[v]
                 PROVE  p < q
      OBVIOUS
    <3>1. q \in history[v] /\ q # Least(history[v]) /\ Least(history[v]) <= q
      BY <1>1, <1>4
    <3>2. CASE In(written[v], p)
      BY <1>0, <1>1, <3>1, <3>2 DEF ViewerInv, AfterWritten
    <3>3. CASE p = Least(history[v])
      BY <1>0, <1>4, <3>1, <3>3 DEF Typed
    <3> QED
      BY <1>5, <3>2, <3>3
  <2>3. \A p : In(written'[v], p) => p \in Nat /\ p <= since[v]
    BY <1>0, <1>1, <1>4, <1>5 DEF ViewerInv, Bounds, Typed
  <2>4. \A p, q : In(written'[v], p) /\ Ahead(v, q)' /\ q > since[v] => p < q
    <3> SUFFICES ASSUME NEW p, NEW q, In(written'[v], p), Ahead(v, q)', q > since[v]
                 PROVE  p < q
      OBVIOUS
    <3>1. q \in Nat
      BY <1>0, <1>2 DEF Ahead, Typed
    <3> QED
      BY <1>0, <2>3, <3>1 DEF Typed
  <2> QED
    BY <2>1, <2>2, <2>3, <2>4 DEF AfterWritten
<1>11. Origins(v)'
  BY <1>0, <1>1, <1>2, <1>4, <1>5 DEF ViewerInv, Origins, Stages, Typed, output
<1>12. NewCovered(v)'
  BY <1>0, <1>1, <1>2, <1>4, <1>5, <1>6 DEF ViewerInv, NewCovered, Passed, Dropped,
     AfterWritten, Origins, Queues, Bounds, Stages, Typed, output
<1>13. StreamCovered(v)'
  BY <1>0, <1>1, <1>2, <1>4, <1>5, <1>6, InEmpty, SMTT(30) DEF ViewerInv, StreamCovered,
     ToStream, Passed, Cut, InStream, Dropped, Ahead, AfterWritten, Origins, Queues, Bounds, Stages,
     Typed, output
<1>14. HistoryCovered(v)'
  BY <1>0, <1>1, <1>2, <1>4, <1>5, <1>6 DEF ViewerInv, HistoryCovered, Passed, Cut,
     InHistory, AfterWritten, Origins, Bounds, Stages, Typed, output
<1> QED
  BY <1>2, <1>3, <1>7, <1>8, <1>9, <1>10, <1>11, <1>12, <1>13, <1>14, Elsewhere DEF
     StreamInv, ViewerInv

LEMMA HistoryDoneKeeps ==
    ASSUME TypeOK, TypeOK', StreamInv, NEW v \in Viewers, HistoryDone(v)
    PROVE  StreamInv'
<1>0. ViewerInv(v) /\ Typed(v)
  BY TypesOf DEF StreamInv
<1>1. /\ consumer[v] = "history"
      /\ history[v] = {}
      /\ consumer'[v] = "consume"
  BY Domains DEF HistoryDone, Set, NotConsumer
<1>2. UNCHANGED output /\ UNCHANGED <<queue, reader, pump, mode, replay, pipe, since, turn,
                                      history, cancelled, broken, written, from, missed>>
  BY DEF HistoryDone, NotConsumer, output, locals, channels, socket
<1>3. \A w \in Viewers : w # v => Same(w)
  BY <1>2 DEF Same, Set, HistoryDone, NotConsumer
<1>4. Stages(v)'
  BY <1>0, <1>1, <1>2 DEF ViewerInv, Stages, Typed, output
<1>5. Bounds(v)'
  BY <1>0, <1>1, <1>2 DEF ViewerInv, Bounds, Stages, Ahead, Typed, output
<1>6. Queues(v)'
  BY <1>0, <1>2 DEF ViewerInv, Queues
<1>7. AfterWritten(v)'
  <2>1. \A p : In(written[v], p) => p <= since[v]
    BY <1>0, <1>1 DEF ViewerInv, Bounds
  <2>2. mode[v] # "new"
    BY <1>0, <1>1 DEF ViewerInv, Stages
  <2>3. \A p, q : In(written[v], p) /\ Ahead(v, q) /\ q > since[v] => p < q
    BY <1>0, <2>1 DEF Typed, Ahead
  <2> QED
    BY <1>1, <1>2, <2>1, <2>2, <2>3 DEF AfterWritten, Ahead
<1>8. Origins(v)'
  BY <1>0, <1>1, <1>2 DEF ViewerInv, Origins, Stages, Typed, output
<1>9. NewCovered(v)'
  BY <1>0, <1>2 DEF ViewerInv, NewCovered, Passed, Dropped, output
<1>10. StreamCovered(v)'
  BY <1>0, <1>1, <1>2 DEF ViewerInv, StreamCovered, ToStream, Passed, Cut, InStream,
     Dropped, Ahead, AfterWritten, Origins, Queues, Bounds, Stages, Typed, output
<1>11. HistoryCovered(v)'
  BY <1>0, <1>1, <1>2 DEF ViewerInv, HistoryCovered, Passed, Cut, InHistory, AfterWritten,
     Origins, Bounds, Stages, Typed, output
<1> QED
  BY <1>2, <1>3, <1>4, <1>5, <1>6, <1>7, <1>8, <1>9, <1>10, <1>11, Elsewhere DEF
     StreamInv, ViewerInv

LEMMA ConsumeKeeps ==
    ASSUME TypeOK, TypeOK', StreamInv, NEW v \in Viewers, Consume(v)
    PROVE  StreamInv'
<1>0. ViewerInv(v) /\ Typed(v)
  BY TypesOf DEF StreamInv
<1>1. /\ consumer[v] = "consume"
      /\ pipe[v] # <<>>
      /\ pipe'[v] = Tail(pipe[v])
      /\ consumer'[v] \in {"consume", "over"}
      /\ ~(Head(pipe[v]) <= since[v]) /\ ~broken[v] => written'[v] = Append(written[v],
         Head(pipe[v]))
      /\ Head(pipe[v]) <= since[v] => consumer'[v] = "consume"
      /\ Head(pipe[v]) <= since[v] \/ broken[v] => written'[v] = written[v]
      /\ broken[v] /\ ~(Head(pipe[v]) <= since[v]) => consumer'[v] = "over"
      /\ cancelled'[v] => cancelled[v] \/ (~broken[v] /\ ~(Head(pipe[v]) <= since[v])
         /\ Head(pipe[v]) \in ends)
  BY Domains DEF Consume, Set, NotConsumer, ConsumerWrites, Write
<1>2. UNCHANGED output /\ UNCHANGED <<queue, reader, pump, mode, replay, since, turn, history,
                                      broken, from, missed>>
  BY DEF Consume, NotConsumer, ConsumerWrites, output, locals, channels, socket
<1>3. \A w \in Viewers : w # v => Same(w)
  <2>1. \A w \in Viewers : w # v => consumer'[w] = consumer[w]
    BY Domains DEF Set, Consume, NotConsumer, ConsumerWrites, Write
  <2>2. \A w \in Viewers : w # v => pipe'[w] = pipe[w]
    BY DEF Set, Consume, NotConsumer, ConsumerWrites, Write
  <2>3. \A w \in Viewers : w # v => cancelled'[w] = cancelled[w]
    BY Domains DEF Set, Consume, NotConsumer, ConsumerWrites, Write
  <2>4. \A w \in Viewers : w # v => written'[w] = written[w]
    BY Domains DEF Set, Consume, NotConsumer, ConsumerWrites, Write
  <2> QED
    BY <1>2, <2>1, <2>2, <2>3, <2>4 DEF Same
<1>4. /\ Head(pipe[v]) \in Chunks /\ In(pipe[v], Head(pipe[v]))
      /\ \A p : In(pipe[v], p) <=> p = Head(pipe[v]) \/ In(pipe'[v], p)
      /\ Sorted(pipe'[v]) /\ \A p : In(pipe'[v], p) => Head(pipe[v]) < p
  BY <1>1, <1>2, <1>0, InTail, SortedTail DEF ViewerInv, Typed, Queues
<1>5. \A p : In(written'[v], p)
                  <=> In(written[v], p) \/ (~broken[v] /\ ~(p <= since[v]) /\ p = Head(pipe[v]))
  <2>1. written[v] \in Seq(Chunks) /\ Head(pipe[v]) \in Chunks
    BY <1>0, <1>4 DEF Typed
  <2>2. CASE ~(~broken[v] /\ ~(Head(pipe[v]) <= since[v]))
    BY <1>1, <2>2
  <2>3. CASE ~broken[v] /\ ~(Head(pipe[v]) <= since[v])
    <3>1. written'[v] = Append(written[v], Head(pipe[v]))
      BY <1>1, <2>3
    <3> QED
      BY <2>1, <2>3, <3>1, InAppend
  <2> QED
    BY <2>2, <2>3
<1>6. Sorted(written'[v])
  <2>1. written[v] \in Seq(Chunks) /\ Head(pipe[v]) \in Chunks
    BY <1>0, <1>4 DEF ViewerInv, Typed
  <2>2. Sorted(written[v]) /\ (~(Head(pipe[v]) <= since[v]) => \A p : In(written[v], p) =>
        p < Head(pipe[v]))
    <3>1. Ahead(v, Head(pipe[v])) /\ Head(pipe[v]) \in Nat /\ since[v] \in Nat
      BY <1>0, <1>4 DEF ViewerInv, Typed, Ahead
    <3> QED
      BY <1>0, <1>1, <3>1 DEF ViewerInv, Queues, AfterWritten
  <2> QED
    BY <1>1, <2>1, <2>2, SortedAppend
<1>7. Stages(v)'
  BY <1>0, <1>1, <1>2, <1>4, <1>5 DEF ViewerInv, Stages, Typed, output
<1>8. Bounds(v)'
  BY <1>0, <1>1, <1>2, <1>4, <1>5, <1>6 DEF ViewerInv, Bounds, Stages, Ahead, Typed,
     output
<1>9. Queues(v)'
  BY <1>0, <1>1, <1>2, <1>4, <1>5, <1>6 DEF ViewerInv, Queues, Bounds, Stages, Typed
<1>10. AfterWritten(v)'
  BY <1>0, <1>1, <1>2, <1>4, <1>5, <1>6 DEF ViewerInv, AfterWritten, Ahead, Stages,
     Bounds, Queues, Typed
<1>11. Origins(v)'
  BY <1>0, <1>1, <1>2, <1>4, <1>5 DEF ViewerInv, Origins, Stages, Typed, output
<1>12. NewCovered(v)'
  BY <1>0, <1>1, <1>2, <1>4, <1>5, <1>6 DEF ViewerInv, NewCovered, Passed, Dropped,
     AfterWritten, Origins, Queues, Bounds, Stages, Typed, output
<1>13. StreamCovered(v)'
  BY <1>0, <1>1, <1>2, <1>4, <1>5, <1>6 DEF ViewerInv, StreamCovered, ToStream, Passed,
     Cut, InStream, Dropped, Ahead, AfterWritten, Origins, Queues, Bounds, Stages, Typed,
     output
<1>14. HistoryCovered(v)'
  BY <1>0, <1>1, <1>2, <1>4, <1>5, <1>6 DEF ViewerInv, HistoryCovered, Passed, Cut,
     InHistory, AfterWritten, Origins, Bounds, Stages, Typed, output
<1> QED
  BY <1>2, <1>3, <1>7, <1>8, <1>9, <1>10, <1>11, <1>12, <1>13, <1>14, Elsewhere DEF
     StreamInv, ViewerInv

LEMMA ConsumerEndsKeeps ==
    ASSUME TypeOK, TypeOK', StreamInv, NEW v \in Viewers, ConsumerEnds(v)
    PROVE  StreamInv'
<1>0. ViewerInv(v) /\ Typed(v)
  BY TypesOf DEF StreamInv
<1>1. /\ consumer[v] = "consume"
      /\ consumer'[v] = "over"
  BY Domains DEF ConsumerEnds, Set, NotConsumer
<1>2. UNCHANGED output /\ UNCHANGED <<queue, reader, pump, mode, replay, pipe, since, turn,
                                      history, cancelled, broken, written, from, missed>>
  BY DEF ConsumerEnds, NotConsumer, output, locals, channels, socket
<1>3. \A w \in Viewers : w # v => Same(w)
  BY <1>2 DEF Same, Set, ConsumerEnds, NotConsumer
<1>4. Stages(v)'
  BY <1>0, <1>1, <1>2 DEF ViewerInv, Stages, Typed, output
<1>5. Bounds(v)'
  BY <1>0, <1>1, <1>2 DEF ViewerInv, Bounds, Stages, Ahead, Typed, output
<1>6. Queues(v)'
  BY <1>0, <1>2 DEF ViewerInv, Queues
<1>7. AfterWritten(v)'
  BY <1>0, <1>1, <1>2 DEF ViewerInv, AfterWritten, Ahead, Stages, Bounds, Queues, Typed
<1>8. Origins(v)'
  BY <1>0, <1>1, <1>2 DEF ViewerInv, Origins, Stages, Typed, output
<1>9. NewCovered(v)'
  BY <1>0, <1>2 DEF ViewerInv, NewCovered, Passed, Dropped, output
<1>10. StreamCovered(v)'
  BY <1>0, <1>1, <1>2 DEF ViewerInv, StreamCovered, ToStream, Passed, Cut, InStream,
     Dropped, Ahead, AfterWritten, Origins, Queues, Bounds, Stages, Typed, output
<1>11. HistoryCovered(v)'
  BY <1>0, <1>1, <1>2 DEF ViewerInv, HistoryCovered, Passed, Cut, InHistory, AfterWritten,
     Origins, Bounds, Stages, Typed, output
<1> QED
  BY <1>2, <1>3, <1>4, <1>5, <1>6, <1>7, <1>8, <1>9, <1>10, <1>11, Elsewhere DEF
     StreamInv, ViewerInv

\* The two ways a user-input goes.
LEMMA UserInputForms ==
    ASSUME NEW v \in Viewers, UserInput(v)
    PROVE  /\ \/ reader' = [reader EXCEPT ![v] = "echo"]
              \/ reader' = [reader EXCEPT ![v] = "handle"]
           /\ pump' = pump \/ pump' = [pump EXCEPT ![v] = "subscribe"]
           /\ from' = from \/ from' = [from EXCEPT ![v] = published + 1]
<1>1. CASE mode[v] = "new" /\ pump[v] = "none"
  BY <1>1 DEF UserInput, Set
<1>2. CASE ~(mode[v] = "new" /\ pump[v] = "none")
  BY <1>2 DEF UserInput, Set
<1> QED
  BY <1>1, <1>2

LEMMA UserInputKeeps ==
    ASSUME TypeOK, TypeOK', StreamInv, NEW v \in Viewers, UserInput(v)
    PROVE  StreamInv'
<1>0. ViewerInv(v) /\ Typed(v)
  BY TypesOf DEF StreamInv
<1>1. /\ reader[v] = "read"
      /\ reader'[v] # "none"
      /\ \/ /\ mode[v] = "new" /\ pump[v] = "none"
            /\ pump'[v] = "subscribe" /\ from'[v] = published + 1
         \/ pump'[v] = pump[v] /\ from'[v] = from[v]
  BY Domains DEF UserInput, Set, NotReader
<1>2. UNCHANGED output /\ UNCHANGED <<queue, consumer, mode, replay, pipe, since, turn,
                                      history, cancelled, broken, written, missed>>
  BY DEF UserInput, NotReader, output, locals, channels, socket
<1>3. \A w \in Viewers : w # v => Same(w)
  <2>1. \A w \in Viewers : w # v => reader'[w] = reader[w]
    BY UserInputForms, Domains
  <2>2. \A w \in Viewers : w # v => pump'[w] = pump[w]
    BY UserInputForms, Domains
  <2>3. \A w \in Viewers : w # v => from'[w] = from[w]
    BY UserInputForms, Domains
  <2> QED
    BY <1>2, <2>1, <2>2, <2>3 DEF Same
<1>4. Stages(v)'
  BY <1>0, <1>1, <1>2 DEF ViewerInv, Stages, Typed, output
<1>5. Bounds(v)'
  BY <1>0, <1>2 DEF ViewerInv, Bounds, Ahead, output
<1>6. Queues(v)'
  BY <1>0, <1>2 DEF ViewerInv, Queues
<1>7. AfterWritten(v)'
  BY <1>0, <1>1, <1>2 DEF ViewerInv, AfterWritten, Ahead, Stages, Bounds, Queues, Typed
<1>8. Origins(v)'
  BY <1>0, <1>1, <1>2 DEF ViewerInv, Origins, Stages, Typed, output
<1>9. NewCovered(v)'
  BY <1>0, <1>1, <1>2 DEF ViewerInv, NewCovered, Passed, Dropped, AfterWritten, Origins,
     Queues, Bounds, Stages, Typed, output
<1>10. StreamCovered(v)'
  BY <1>0, <1>1, <1>2 DEF ViewerInv, StreamCovered, ToStream, Passed, Cut, InStream,
     Dropped, Ahead, AfterWritten, Origins, Queues, Bounds, Stages, Typed, output
<1>11. HistoryCovered(v)'
  BY <1>0, <1>1, <1>2 DEF ViewerInv, HistoryCovered, Passed, Cut, InHistory, output
<1> QED
  BY <1>2, <1>3, <1>4, <1>5, <1>6, <1>7, <1>8, <1>9, <1>10, <1>11, Elsewhere DEF
     StreamInv, ViewerInv

\* What most steps of the reader have in common: only its place changes.
ReaderMoves(v) ==
    /\ reader[v] # "none"
    /\ \E r \in {"read", "handle", "over"} : Set(reader, v, r)
    /\ NotReader /\ UNCHANGED <<pump, cancelled, from>>

LEMMA ReaderOnlyMoves ==
    ASSUME NEW v \in Viewers,
           \/ Echo(v) \/ OtherMessage(v) \/ IgnoredMessage(v)
           \/ HandleMessage(v) \/ ReadFails(v)
    PROVE  ReaderMoves(v)
<1>1. CASE Echo(v)
  BY <1>1 DEF Echo, ReaderMoves
<1>2. CASE OtherMessage(v)
  BY <1>2 DEF OtherMessage, ReaderMoves
<1>3. CASE IgnoredMessage(v)
  BY <1>3 DEF IgnoredMessage, ReadOn, ReaderMoves
<1>4. CASE HandleMessage(v)
  BY <1>4 DEF HandleMessage, ReadOn, ReaderMoves
<1>5. CASE ReadFails(v)
  BY <1>5 DEF ReadFails, ReaderMoves
<1> QED
  BY <1>1, <1>2, <1>3, <1>4, <1>5

LEMMA ReaderMovesKeeps ==
    ASSUME TypeOK, TypeOK', StreamInv, NEW v \in Viewers, ReaderMoves(v)
    PROVE  StreamInv'
<1>0. ViewerInv(v) /\ Typed(v)
  BY TypesOf DEF StreamInv
<1>1. reader[v] # "none" /\ reader'[v] # "none"
  BY Domains DEF ReaderMoves, Set
<1>2. UNCHANGED output /\ UNCHANGED <<queue, pump, consumer, mode, replay, pipe, since, turn,
                                      history, cancelled, broken, written, from, missed>>
  BY DEF ReaderMoves, NotReader, output, locals, channels, socket
<1>3. \A w \in Viewers : w # v => Same(w)
  BY <1>2 DEF Same, Set, ReaderMoves
<1>4. Stages(v)'
  BY <1>0, <1>1, <1>2 DEF ViewerInv, Stages, Typed, output
<1>5. Bounds(v)'
  BY <1>0, <1>2 DEF ViewerInv, Bounds, Ahead, output
<1>6. Queues(v)'
  BY <1>0, <1>2 DEF ViewerInv, Queues
<1>7. AfterWritten(v)'
  BY <1>0, <1>2 DEF ViewerInv, AfterWritten, Ahead
<1>8. Origins(v)'
  BY <1>0, <1>2 DEF ViewerInv, Origins, output
<1>9. NewCovered(v)'
  BY <1>0, <1>2 DEF ViewerInv, NewCovered, Passed, Dropped, output
<1>10. StreamCovered(v)'
  BY <1>0, <1>2 DEF ViewerInv, StreamCovered, Passed, Cut, InStream, Dropped, Ahead,
     ToStream, output
<1>11. HistoryCovered(v)'
  BY <1>0, <1>2 DEF ViewerInv, HistoryCovered, Passed, Cut, InHistory, output
<1> QED
  BY <1>2, <1>3, <1>4, <1>5, <1>6, <1>7, <1>8, <1>9, <1>10, <1>11, Elsewhere DEF
     StreamInv, ViewerInv

LEMMA CloseKeeps ==
    ASSUME TypeOK, TypeOK', StreamInv, NEW v \in Viewers, Close(v)
    PROVE  StreamInv'
<1>0. ViewerInv(v) /\ Typed(v)
  BY TypesOf DEF StreamInv
<1>1. /\ reader[v] = "over"
      /\ cancelled'[v] = TRUE
      /\ broken'[v] = TRUE
  BY Domains DEF Close, Set
<1>2. UNCHANGED output /\ UNCHANGED <<queue, reader, pump, consumer, mode, replay, pipe, since,
                                      turn, history, written, from, missed>>
  BY DEF Close, output, locals, channels, socket, ghosts
<1>3. \A w \in Viewers : w # v => Same(w)
  BY <1>2 DEF Same, Set, Close
<1>4. Stages(v)'
  BY <1>0, <1>2 DEF ViewerInv, Stages, output
<1>5. Bounds(v)'
  BY <1>0, <1>2 DEF ViewerInv, Bounds, Ahead, output
<1>6. Queues(v)'
  BY <1>0, <1>2 DEF ViewerInv, Queues
<1>7. AfterWritten(v)'
  BY <1>0, <1>2 DEF ViewerInv, AfterWritten, Ahead
<1>8. Origins(v)'
  BY <1>0, <1>2 DEF ViewerInv, Origins, output
<1>9. NewCovered(v)'
  BY <1>0, <1>2 DEF ViewerInv, NewCovered, Passed, Dropped, output
<1>10. StreamCovered(v)'
  BY <1>0, <1>2 DEF ViewerInv, StreamCovered, Passed, Cut, InStream, Dropped, Ahead,
     ToStream, output
<1>11. HistoryCovered(v)'
  BY <1>0, <1>2 DEF ViewerInv, HistoryCovered, Passed, Cut, InHistory, output
<1> QED
  BY <1>2, <1>3, <1>4, <1>5, <1>6, <1>7, <1>8, <1>9, <1>10, <1>11, Elsewhere DEF
     StreamInv, ViewerInv

-----------------------------------------------------------------------------
(* The output, which concerns every viewer.                                *)

LEMMA PublishKeeps ==
    ASSUME TypeOK, TypeOK', StreamInv, NEW isEnd \in BOOLEAN, Publish(isEnd)
    PROVE  StreamInv'
<1> DEFINE p0 == published + 1
<1>1. /\ published' = p0 /\ p0 \in Chunks /\ log' = log /\ ends \subseteq ends'
      /\ UNCHANGED <<reader, pump, consumer, mode, replay, pipe, since, turn, history,
                     cancelled, broken, written, from>>
  <2>1. p0 \in Chunks
    BY DEF Publish, TypeOK, Chunks
  <2> QED
    BY <2>1 DEF Publish, locals, socket
<1> SUFFICES ASSUME NEW v \in Viewers PROVE ViewerInv(v)'
  BY DEF StreamInv
<1>0. ViewerInv(v) /\ Typed(v) /\ published \in Nat
  BY TypesOf DEF StreamInv, Typed
<1>2. /\ Subscribed(v) /\ Len(queue[v]) < QueueSize => queue'[v] = Append(queue[v], p0)
      /\ ~(Subscribed(v) /\ Len(queue[v]) < QueueSize) => queue'[v] = queue[v]
  BY DEF Publish
<1>3. /\ missed[v] \subseteq missed'[v]
      /\ pump[v] \in {"replay", "subscribe"} => p0 \in missed'[v]
      /\ Subscribed(v) => queue'[v] = Append(queue[v], p0) \/ p0 \in missed'[v]
  <2>1. missed'[v] =
           IF \/ pump[v] \in {"replay", "subscribe"}
              \/ Subscribed(v) /\ Len(queue[v]) >= QueueSize
           THEN missed[v] \cup {p0} ELSE missed[v]
    BY DEF Publish
  <2>2. Len(queue[v]) \in Nat /\ QueueSize \in Nat
    BY <1>0, StreamAssumption DEF Typed
  <2> QED
    BY <1>2, <2>1, <2>2
<1> HIDE DEF p0
<1>4. \A p : In(queue'[v], p) => In(queue[v], p) \/ (p = p0 /\ pump[v] = "pump")
  <2>1. CASE queue'[v] = queue[v]
    BY <2>1
  <2>2. CASE queue'[v] = Append(queue[v], p0) /\ pump[v] = "pump"
    BY <1>0, <1>1, <2>2, InAppend DEF Typed
  <2> QED
    BY <1>2, <2>1, <2>2 DEF Subscribed
<1>5. /\ \A p : In(queue[v], p) => In(queue'[v], p)
      /\ pump[v] = "pump" => In(queue'[v], p0) \/ p0 \in missed'[v]
  <2>1. CASE queue'[v] = queue[v]
    <3>1. queue[v] # Append(queue[v], p0)
      BY <1>0 DEF Typed
    <3> QED
      BY <1>3, <2>1 DEF Subscribed
  <2>2. CASE queue'[v] = Append(queue[v], p0)
    BY <1>0, <1>1, <2>2, InAppend DEF Typed
  <2> QED
    BY <1>2, <2>1, <2>2
<1>6. p0 \in Nat /\ published < p0 /\ \A p \in Nat : p <= p0 => p <= published \/ p = p0
  BY <1>0 DEF p0
<1>7. \A p : In(queue[v], p) \/ In(pipe[v], p) \/ In(written[v], p) \/ p \in replay[v]
         => p \in Nat /\ p <= published /\ p < p0
  BY <1>0, <1>6 DEF ViewerInv, Bounds, Typed
<1>8. Sorted(queue'[v])
  <2>1. CASE queue'[v] = queue[v]
    BY <1>0, <2>1 DEF ViewerInv, Queues
  <2>2. CASE queue'[v] = Append(queue[v], p0)
    BY <1>0, <1>1, <1>7, <2>2, SortedAppend DEF ViewerInv, Queues, Typed
  <2> QED
    BY <1>2, <2>1, <2>2
<1>9. Stages(v)'
  BY <1>0, <1>1, <1>2 DEF ViewerInv, Stages, Subscribed
<1>10. Bounds(v)'
  BY <1>0, <1>1, <1>4, <1>6, SMTT(30) DEF ViewerInv, Bounds, Typed
<1>11. Queues(v)'
  BY <1>0, <1>1, <1>4, <1>7, <1>8 DEF ViewerInv, Queues, Stages
<1>12. AfterWritten(v)'
  BY <1>0, <1>1, <1>4, <1>7 DEF ViewerInv, AfterWritten, Ahead
<1>13. Origins(v)'
  BY <1>0, <1>1 DEF ViewerInv, Origins
<1>14. NewCovered(v)'
  <2> SUFFICES ASSUME mode[v] = "new", from[v] # 0, NEW p \in from[v] .. p0
               PROVE  Passed(v, p)' \/ In(queue'[v], p) \/ Dropped(v, p)'
    BY <1>1 DEF NewCovered
  <2>1. p \in Nat /\ (p \in from[v] .. published \/ p = p0)
    <3>1. from[v] \in Nat /\ published \in Nat
      BY <1>0 DEF Typed
    <3> QED
      BY <1>6, <3>1
  <2>2. CASE p = p0
    <3>1. pump[v] \in {"subscribe", "pump", "over"}
      BY <1>0 DEF ViewerInv, Stages, Origins, TypeOK
    <3> QED
      BY <1>1, <1>3, <1>5, <1>7, <2>2, <3>1 DEF Passed, Dropped
  <2>3. CASE p \in from[v] .. published
    BY <1>0, <1>1, <1>3, <1>5, <2>3 DEF ViewerInv, NewCovered, Passed, Dropped
  <2> QED
    BY <2>1, <2>2, <2>3
<1>15. StreamCovered(v)'
  <2> SUFFICES ASSUME mode[v] = "attach", NEW p \in 1 .. p0, ToStream(v, p)
               PROVE  Passed(v, p)' \/ Cut(v, p)' \/ InStream(v, p)'
    BY <1>1 DEF StreamCovered, ToStream
  <2>1. p \in Nat /\ (p \in 1 .. published \/ p = p0)
    BY <1>0, <1>6 DEF Typed
  <2>2. CASE p = p0
    <3>1. pump[v] \in {"copy", "replay", "subscribe", "pump", "over"}
      BY <1>0 DEF ViewerInv, Stages, TypeOK
    <3> QED
      BY <1>1, <1>3, <1>5, <1>7, <2>2, <3>1 DEF Passed, InStream, Ahead, Dropped
  <2>3. CASE p \in 1 .. published
    BY <1>0, <1>1, <1>3, <1>5, <2>3 DEF ViewerInv, StreamCovered, Passed, Cut, InStream,
       Ahead, Dropped
  <2> QED
    BY <2>1, <2>2, <2>3
<1>16. HistoryCovered(v)'
  BY <1>0, <1>1, <1>3 DEF ViewerInv, HistoryCovered, Passed, Cut, InHistory
<1> QED
  BY <1>9, <1>10, <1>11, <1>12, <1>13, <1>14, <1>15, <1>16 DEF ViewerInv

LEMMA IngestKeeps ==
    ASSUME StreamInv, Ingest
    PROVE  StreamInv'
<1> SUFFICES ASSUME NEW v \in Viewers PROVE ViewerInv(v)'
  BY DEF StreamInv
<1>1. /\ UNCHANGED <<log, published, ends>> /\ Same(v)
  BY DEF Ingest, Same, channels, locals, socket, ghosts
<1>2. ViewerInv(v)
  BY DEF StreamInv
<1>3. (Stages(v) /\ Bounds(v) /\ Queues(v) /\ AfterWritten(v))'
  BY <1>1, <1>2 DEF ViewerInv, Same, Stages, Bounds, Queues, AfterWritten, Ahead
<1>4. (Origins(v) /\ NewCovered(v))'
  BY <1>1, <1>2 DEF ViewerInv, Same, Origins, NewCovered, Passed, Dropped
<1>5. (StreamCovered(v) /\ HistoryCovered(v))'
  BY <1>1, <1>2 DEF ViewerInv, Same, StreamCovered, HistoryCovered, ToStream, Passed, Cut,
     InStream, InHistory, Dropped, Ahead
<1> QED
  BY <1>3, <1>4, <1>5 DEF ViewerInv

-----------------------------------------------------------------------------
LEMMA InitStream ==
    ASSUME Init
    PROVE  StreamInv
<1> SUFFICES ASSUME NEW v \in Viewers PROVE ViewerInv(v)
  BY DEF StreamInv
<1>1. /\ \A p : ~In(queue[v], p) /\ ~In(pipe[v], p) /\ ~In(written[v], p)
      /\ Sorted(queue[v]) /\ Sorted(pipe[v]) /\ Sorted(written[v])
  BY InEmpty DEF Init
<1>2. Stages(v) /\ Queues(v) /\ AfterWritten(v)
  BY <1>1 DEF Init, Stages, Queues, AfterWritten, Ahead
<1>3. Bounds(v) /\ Origins(v)
  BY <1>1 DEF Init, Bounds, Origins
<1>4. NewCovered(v) /\ StreamCovered(v) /\ HistoryCovered(v)
  BY DEF Init, NewCovered, StreamCovered, HistoryCovered
<1> QED
  BY <1>2, <1>3, <1>4 DEF ViewerInv

LEMMA StreamStep ==
    ASSUME TypeOK, TypeOK', StreamInv, [Next]_vars
    PROVE  StreamInv'
<1>1. CASE \E isEnd \in BOOLEAN : Publish(isEnd)
  BY <1>1, PublishKeeps
<1>2. CASE Ingest
  BY <1>2, IngestKeeps
<1>3. ASSUME NEW v \in Viewers,
             (\E m \in {"attach", "new"} : Open(v, m)) \/ Break(v) \/ Ping(v) \/ Message(v)
      PROVE  StreamInv'
  BY <1>3, OpenKeeps, BreakKeeps, PingKeeps, UserInputKeeps, ReaderOnlyMoves,
     ReaderMovesKeeps DEF Message
<1>4. ASSUME NEW v \in Viewers, PumpStep(v) PROVE StreamInv'
  BY <1>4, CopyKeeps, ReplayKeeps, ReplayDoneKeeps, SubscribeKeeps, PassKeeps, ShowKeeps,
     PumpCancelledKeeps DEF PumpStep
<1>5. ASSUME NEW v \in Viewers, ConsumerStep(v) PROVE StreamInv'
  BY <1>5, NowKeeps, LatestTurnKeeps, EntriesKeeps, WriteHistoryKeeps, HistoryDoneKeeps,
     ConsumeKeeps, ConsumerEndsKeeps DEF ConsumerStep
<1>6. ASSUME NEW v \in Viewers, ReaderStep(v) PROVE StreamInv'
  BY <1>6, ReaderOnlyMoves, ReaderMovesKeeps, CloseKeeps DEF ReaderStep
<1>7. ASSUME NEW v \in Viewers, TaskLiveFails(v) \/ QueryFails(v) PROVE StreamInv'
  BY <1>7, TaskLiveFailsKeeps, QueryFailsKeeps
<1>8. CASE UNCHANGED vars
  <2> SUFFICES ASSUME NEW v \in Viewers PROVE ViewerInv(v)'
    BY DEF StreamInv
  <2>1. Same(v) /\ UNCHANGED output
    BY <1>8 DEF vars, Same, socket, ghosts
  <2> QED
    BY <2>1, Elsewhere
<1> QED
  BY <1>1, <1>2, <1>3, <1>4, <1>5, <1>6, <1>7, <1>8 DEF Next

-----------------------------------------------------------------------------
(* Types.                                                                  *)

LEMMA LeastType ==
    ASSUME NEW S, S \subseteq Chunks, S # {}
    PROVE  Least(S) \in S
<1>1. S \subseteq Nat
  BY DEF Chunks
<1> QED
  BY <1>1, LeastIsLeast

LEMMA LenAppend ==
    ASSUME NEW s \in Seq(Chunks), NEW x \in Chunks
    PROVE  Append(s, x) \in Seq(Chunks) /\ Len(Append(s, x)) = Len(s) + 1 /\ Len(s) \in Nat
OBVIOUS

LEMMA LenTail ==
    ASSUME NEW s \in Seq(Chunks), s # <<>>
    PROVE  /\ Tail(s) \in Seq(Chunks) /\ Len(Tail(s)) < Len(s) /\ Len(s) \in Nat
           /\ Len(Tail(s)) \in Nat /\ Head(s) \in Chunks
OBVIOUS

LEMMA TypeInit ==
    ASSUME Init
    PROVE  TypeOK
BY StreamAssumption DEF Init, TypeOK, Chunks

LEMMA OpenTyped ==
    ASSUME TypeOK, NEW v \in Viewers, NEW m \in {"attach", "new"}, Open(v, m)
    PROVE  TypeOK'
<1>1. UNCHANGED output /\ UNCHANGED <<queue, replay, pipe, since, turn, history, cancelled,
                                      broken, written, from, missed>>
  BY DEF Open, output, locals, channels, socket, ghosts
<1>2. reader' \in [Viewers -> {"none", "read", "echo", "handle", "over"}]
  BY DEF TypeOK, Set, Open
<1>3. mode' \in [Viewers -> {"attach", "new"}]
  BY DEF TypeOK, Set, Open
<1>4. pump' \in [Viewers -> {"none", "copy", "replay", "subscribe", "pump", "over"}]
  BY DEF TypeOK, Set, Open
<1>5. consumer' \in [Viewers -> {"none", "now", "turn", "entries", "history", "consume",
      "over"}]
  BY DEF TypeOK, Set, Open
<1> QED
  BY <1>1, <1>2, <1>3, <1>4, <1>5 DEF TypeOK, output

LEMMA BreakTyped ==
    ASSUME TypeOK, NEW v \in Viewers, Break(v)
    PROVE  TypeOK'
<1>1. UNCHANGED output /\ UNCHANGED <<queue, reader, pump, consumer, mode, replay, pipe, since,
                                      turn, history, cancelled, written, from, missed>>
  BY DEF Break, output, locals, channels, socket, ghosts
<1>2. broken' \in [Viewers -> BOOLEAN]
  BY DEF TypeOK, Set, Break
<1> QED
  BY <1>1, <1>2 DEF TypeOK, output

LEMMA PingTyped ==
    ASSUME TypeOK, NEW v \in Viewers, Ping(v)
    PROVE  TypeOK'
<1>1. UNCHANGED output /\ UNCHANGED <<queue, reader, pump, consumer, mode, replay, pipe, since,
                                      turn, history, broken, written, from, missed>>
  BY DEF Ping, output, locals, channels, socket, ghosts
<1>2. cancelled' \in [Viewers -> BOOLEAN]
  BY DEF TypeOK, Set, Ping
<1> QED
  BY <1>1, <1>2 DEF TypeOK, output

LEMMA CopyTyped ==
    ASSUME TypeOK, NEW v \in Viewers, Copy(v)
    PROVE  TypeOK'
<1>1. UNCHANGED output /\ UNCHANGED <<queue, reader, consumer, mode, pipe, since, turn,
                                      history, cancelled, broken, written>>
  BY DEF Copy, NotPump, output, locals, channels, socket
<1>2. pump' \in [Viewers -> {"none", "copy", "replay", "subscribe", "pump", "over"}]
  BY DEF TypeOK, Set, Copy
<1>3. replay' \in [Viewers -> SUBSET Chunks]
  <2>1. {p \in 1 .. published : p + BufferSize > published} \in SUBSET Chunks
    <3>1. MaxChunks \in Nat /\ published \in Nat /\ published <= MaxChunks /\ BufferSize
          \in Nat \ {0}
      BY StreamAssumption DEF TypeOK
    <3> QED
      BY <3>1 DEF Chunks
  <2>2. replay' = [replay EXCEPT ![v] = {p \in 1 .. published : p + BufferSize > published}]
    BY DEF Set, Copy
  <2>3. replay \in [Viewers -> SUBSET Chunks]
    BY DEF TypeOK
  <2> QED
    BY <2>1, <2>2, <2>3
<1>4. from' \in [Viewers -> 0 .. MaxChunks + 1]
  <2>1. (IF log THEN from[v]
                    ELSE IF published > BufferSize THEN published - BufferSize + 1 ELSE 1)
          \in 0 .. MaxChunks + 1
    <3>1. MaxChunks \in Nat /\ published \in Nat /\ published <= MaxChunks /\ BufferSize
          \in Nat \ {0}
      BY StreamAssumption DEF TypeOK
    <3>2. from[v] \in 0 .. MaxChunks + 1
      BY DEF TypeOK
    <3> QED
      BY <3>1, <3>2
  <2>2. from' = [from EXCEPT ![v] = (IF log THEN from[v]
                    ELSE IF published > BufferSize THEN published - BufferSize + 1 ELSE 1)]
    BY DEF Set, Copy
  <2>3. from \in [Viewers -> 0 .. MaxChunks + 1]
    BY DEF TypeOK
  <2> QED
    BY <2>1, <2>2, <2>3
<1>5. missed' \in [Viewers -> SUBSET Chunks]
  <2>1. (missed[v] \cup {p \in 1 .. published : p > since[v] /\ p + BufferSize <= published})
          \in SUBSET Chunks
    <3>1. MaxChunks \in Nat /\ published \in Nat /\ published <= MaxChunks /\ BufferSize
          \in Nat \ {0}
      BY StreamAssumption DEF TypeOK
    <3>2. missed[v] \subseteq Chunks
      BY DEF TypeOK
    <3> QED
      BY <3>1, <3>2 DEF Chunks
  <2>2. missed' = [missed EXCEPT ![v] = (missed[v] \cup {p \in 1 .. published : p > since[v]
        /\ p + BufferSize <= published})]
    BY DEF Set, Copy
  <2>3. missed \in [Viewers -> SUBSET Chunks]
    BY DEF TypeOK
  <2> QED
    BY <2>1, <2>2, <2>3
<1> QED
  BY <1>1, <1>2, <1>3, <1>4, <1>5 DEF TypeOK, output

LEMMA TaskLiveFailsTyped ==
    ASSUME TypeOK, NEW v \in Viewers, TaskLiveFails(v)
    PROVE  TypeOK'
<1>1. UNCHANGED output /\ UNCHANGED <<queue, reader, consumer, mode, replay, pipe, since, turn,
                                      history, broken, written, from, missed>>
  BY DEF TaskLiveFails, NotPump, output, locals, channels, socket
<1>2. pump' \in [Viewers -> {"none", "copy", "replay", "subscribe", "pump", "over"}]
  BY DEF TypeOK, Set, TaskLiveFails
<1>3. cancelled' \in [Viewers -> BOOLEAN]
  BY DEF TypeOK, Set, TaskLiveFails
<1> QED
  BY <1>1, <1>2, <1>3 DEF TypeOK, output

LEMMA ReplayTyped ==
    ASSUME TypeOK, NEW v \in Viewers, Replay(v)
    PROVE  TypeOK'
<1>1. UNCHANGED output /\ UNCHANGED <<queue, reader, pump, consumer, mode, since, turn,
                                      history, cancelled, broken, written, from, missed>>
  BY DEF Replay, NotPump, output, locals, channels, socket
<1>2. pipe' \in [Viewers -> Seq(Chunks)] /\ \A w \in Viewers : Len(pipe'[w]) <= PipeSize
  <2>1. Append(pipe[v], Least(replay[v])) \in Seq(Chunks) /\ Len(Append(pipe[v],
        Least(replay[v]))) <= PipeSize
    <3>1. pipe[v] \in Seq(Chunks) /\ Least(replay[v]) \in Chunks
      BY LeastType DEF TypeOK, Replay
    <3>2. Len(pipe[v]) < PipeSize /\ PipeSize \in Nat
      BY StreamAssumption DEF Replay
    <3> QED
      BY <3>1, <3>2
  <2>2. pipe' = [pipe EXCEPT ![v] = Append(pipe[v], Least(replay[v]))]
    BY DEF Set, Replay
  <2>3. pipe \in [Viewers -> Seq(Chunks)] /\ \A w \in Viewers : Len(pipe[w]) <= PipeSize
    BY DEF TypeOK
  <2> QED
    BY <2>1, <2>2, <2>3
<1>3. replay' \in [Viewers -> SUBSET Chunks]
  BY DEF TypeOK, Set, Replay
<1> QED
  BY <1>1, <1>2, <1>3 DEF TypeOK, output

LEMMA ReplayDoneTyped ==
    ASSUME TypeOK, NEW v \in Viewers, ReplayDone(v)
    PROVE  TypeOK'
<1>1. UNCHANGED output /\ UNCHANGED <<queue, reader, consumer, mode, replay, pipe, since, turn,
                                      history, cancelled, broken, written, from, missed>>
  BY DEF ReplayDone, NotPump, output, locals, channels, socket
<1>2. pump' \in [Viewers -> {"none", "copy", "replay", "subscribe", "pump", "over"}]
  BY DEF TypeOK, Set, ReplayDone
<1> QED
  BY <1>1, <1>2 DEF TypeOK, output

LEMMA SubscribeTyped ==
    ASSUME TypeOK, NEW v \in Viewers, Subscribe(v)
    PROVE  TypeOK'
<1>1. UNCHANGED output /\ UNCHANGED <<queue, reader, consumer, mode, replay, pipe, since, turn,
                                      history, cancelled, broken, written, from, missed>>
  BY DEF Subscribe, NotPump, output, locals, channels, socket
<1>2. pump' \in [Viewers -> {"none", "copy", "replay", "subscribe", "pump", "over"}]
  BY DEF TypeOK, Set, Subscribe
<1> QED
  BY <1>1, <1>2 DEF TypeOK, output

LEMMA PassTyped ==
    ASSUME TypeOK, NEW v \in Viewers, Pass(v)
    PROVE  TypeOK'
<1>1. UNCHANGED output /\ UNCHANGED <<reader, pump, consumer, mode, replay, since, turn,
                                      history, cancelled, broken, written, from, missed>>
  BY DEF Pass, NotPump, output, locals, channels, socket
<1>2. queue' \in [Viewers -> Seq(Chunks)] /\ \A w \in Viewers : Len(queue'[w]) <= QueueSize
  <2>1. Tail(queue[v]) \in Seq(Chunks) /\ Len(Tail(queue[v])) <= QueueSize
    <3>1. queue[v] \in Seq(Chunks) /\ queue[v] # <<>> /\ Len(queue[v]) <= QueueSize
          /\ QueueSize \in Nat
      BY StreamAssumption DEF TypeOK, Pass
    <3> QED
      BY <3>1
  <2>2. queue' = [queue EXCEPT ![v] = Tail(queue[v])]
    BY DEF Set, Pass
  <2>3. queue \in [Viewers -> Seq(Chunks)] /\ \A w \in Viewers : Len(queue[w]) <= QueueSize
    BY DEF TypeOK
  <2> QED
    BY <2>1, <2>2, <2>3
<1>3. pipe' \in [Viewers -> Seq(Chunks)] /\ \A w \in Viewers : Len(pipe'[w]) <= PipeSize
  <2>1. Append(pipe[v], Head(queue[v])) \in Seq(Chunks) /\ Len(Append(pipe[v],
        Head(queue[v]))) <= PipeSize
    <3>1. pipe[v] \in Seq(Chunks) /\ Head(queue[v]) \in Chunks
      BY DEF TypeOK, Pass
    <3>2. Len(pipe[v]) < PipeSize /\ PipeSize \in Nat
      BY StreamAssumption DEF Pass
    <3> QED
      BY <3>1, <3>2
  <2>2. pipe' = [pipe EXCEPT ![v] = Append(pipe[v], Head(queue[v]))]
    BY DEF Set, Pass
  <2>3. pipe \in [Viewers -> Seq(Chunks)] /\ \A w \in Viewers : Len(pipe[w]) <= PipeSize
    BY DEF TypeOK
  <2> QED
    BY <2>1, <2>2, <2>3
<1> QED
  BY <1>1, <1>2, <1>3 DEF TypeOK, output

LEMMA ShowTyped ==
    ASSUME TypeOK, NEW v \in Viewers, Show(v)
    PROVE  TypeOK'
<1>1. UNCHANGED output /\ UNCHANGED <<reader, consumer, mode, replay, pipe, since, turn,
                                      history, broken, from, missed>>
  BY DEF Show, NotPump, output, locals, channels, socket
<1>2. queue' \in [Viewers -> Seq(Chunks)] /\ \A w \in Viewers : Len(queue'[w]) <= QueueSize
  <2>1. Tail(queue[v]) \in Seq(Chunks) /\ Len(Tail(queue[v])) <= QueueSize
    <3>1. queue[v] \in Seq(Chunks) /\ queue[v] # <<>> /\ Len(queue[v]) <= QueueSize
          /\ QueueSize \in Nat
      BY StreamAssumption DEF TypeOK, Show
    <3> QED
      BY <3>1
  <2>2. queue' = [queue EXCEPT ![v] = Tail(queue[v])]
    BY DEF Set, Show, NotPump
  <2>3. queue \in [Viewers -> Seq(Chunks)] /\ \A w \in Viewers : Len(queue[w]) <= QueueSize
    BY DEF TypeOK
  <2> QED
    BY <2>1, <2>2, <2>3
<1>3. written' \in [Viewers -> Seq(Chunks)]
  <2>1. Append(written[v], Head(queue[v])) \in Seq(Chunks)
    <3>1. written[v] \in Seq(Chunks) /\ Head(queue[v]) \in Chunks
      BY DEF TypeOK, Show
    <3> QED
      BY <3>1
  <2>2. written' = written \/ written' = [written EXCEPT ![v] = Append(written[v],
        Head(queue[v]))]
    BY DEF Set, Show, NotPump, Write
  <2>3. written \in [Viewers -> Seq(Chunks)]
    BY DEF TypeOK
  <2> QED
    BY <2>1, <2>2, <2>3
<1>4. pump' \in [Viewers -> {"none", "copy", "replay", "subscribe", "pump", "over"}]
  <2>1. pump' = pump \/ pump' = [pump EXCEPT ![v] = "over"]
    BY DEF Set, Show, NotPump
  <2>2. pump \in [Viewers -> {"none", "copy", "replay", "subscribe", "pump", "over"}]
    BY DEF TypeOK
  <2> QED
    BY <2>1, <2>2
<1>5. cancelled' \in [Viewers -> BOOLEAN]
  BY DEF TypeOK, Set, Show, NotPump
<1> QED
  BY <1>1, <1>2, <1>3, <1>4, <1>5 DEF TypeOK, output

LEMMA PumpCancelledTyped ==
    ASSUME TypeOK, NEW v \in Viewers, PumpCancelled(v)
    PROVE  TypeOK'
<1>1. UNCHANGED output /\ UNCHANGED <<reader, consumer, mode, replay, pipe, since, turn,
                                      history, cancelled, broken, written, from, missed>>
  BY DEF PumpCancelled, NotPump, output, locals, channels, socket
<1>2. pump' \in [Viewers -> {"none", "copy", "replay", "subscribe", "pump", "over"}]
  BY DEF TypeOK, Set, PumpCancelled
<1>3. queue' \in [Viewers -> Seq(Chunks)] /\ \A w \in Viewers : Len(queue'[w]) <= QueueSize
  <2>1. <<>> \in Seq(Chunks) /\ Len(<<>>) <= QueueSize
    BY StreamAssumption
  <2>2. queue' = [queue EXCEPT ![v] = <<>>]
    BY DEF Set, PumpCancelled
  <2>3. queue \in [Viewers -> Seq(Chunks)] /\ \A w \in Viewers : Len(queue[w]) <= QueueSize
    BY DEF TypeOK
  <2> QED
    BY <2>1, <2>2, <2>3
<1> QED
  BY <1>1, <1>2, <1>3 DEF TypeOK, output

LEMMA NowTyped ==
    ASSUME TypeOK, NEW v \in Viewers, Now(v)
    PROVE  TypeOK'
<1>1. UNCHANGED output /\ UNCHANGED <<queue, reader, pump, mode, replay, pipe, turn, history,
                                      cancelled, broken, written, from, missed>>
  BY DEF Now, NotConsumer, output, locals, channels, socket
<1>2. consumer' \in [Viewers -> {"none", "now", "turn", "entries", "history", "consume",
      "over"}]
  BY DEF TypeOK, Set, Now
<1>3. since' \in [Viewers -> 0 .. MaxChunks]
  BY DEF TypeOK, Set, Now
<1> QED
  BY <1>1, <1>2, <1>3 DEF TypeOK, output

LEMMA LatestTurnTyped ==
    ASSUME TypeOK, NEW v \in Viewers, LatestTurn(v)
    PROVE  TypeOK'
<1>1. UNCHANGED output /\ UNCHANGED <<queue, reader, pump, mode, replay, pipe, history,
                                      cancelled, broken, written, from, missed>>
  BY DEF LatestTurn, NotConsumer, output, locals, channels, socket
<1>2. consumer' \in [Viewers -> {"none", "now", "turn", "entries", "history", "consume",
      "over"}]
  <2>1. consumer' = consumer \/ consumer' = [consumer EXCEPT ![v] = "entries"]
        \/ consumer' = [consumer EXCEPT ![v] = "consume"]
    BY DEF Set, LatestTurn
  <2>2. consumer \in [Viewers -> {"none", "now", "turn", "entries", "history", "consume",
        "over"}]
    BY DEF TypeOK
  <2> QED
    BY <2>1, <2>2
<1>3. since' \in [Viewers -> 0 .. MaxChunks]
  <2>1. since' = since \/ since' = [since EXCEPT ![v] = 0]
    BY DEF Set, LatestTurn
  <2>2. since \in [Viewers -> 0 .. MaxChunks]
    BY DEF TypeOK
  <2> QED
    BY <2>1, <2>2, StreamAssumption
<1>4. turn' \in [Viewers -> 0 .. MaxChunks]
  <2> DEFINE last == IF ingested < since[v] THEN ingested ELSE since[v]
            t == IF last = 0 THEN 0 ELSE TurnOf(last)
  <2>1. t \in 0 .. MaxChunks
    <3>1. last \in 0 .. MaxChunks /\ MaxChunks \in Nat
      BY StreamAssumption DEF TypeOK
    <3>2. last # 0 => last \in Chunks
      BY <3>1 DEF Chunks
    <3> HIDE DEF last
    <3>3. last # 0 => TurnOf(last) \in Chunks
      BY <3>2, TurnType
    <3> QED
      BY <3>1, <3>3 DEF Chunks
  <2>2. turn' = turn \/ turn' = [turn EXCEPT ![v] = t]
    BY DEF Set, LatestTurn
  <2>3. turn \in [Viewers -> 0 .. MaxChunks]
    BY DEF TypeOK
  <2> HIDE DEF t
  <2> QED
    BY <2>1, <2>2, <2>3
<1> QED
  BY <1>1, <1>2, <1>3, <1>4 DEF TypeOK, output

LEMMA EntriesTyped ==
    ASSUME TypeOK, NEW v \in Viewers, Entries(v)
    PROVE  TypeOK'
<1>1. UNCHANGED output /\ UNCHANGED <<queue, reader, pump, mode, replay, pipe, since,
                                      cancelled, broken, written>>
  BY DEF Entries, NotConsumer, output, locals, channels, socket
<1>2. consumer' \in [Viewers -> {"none", "now", "turn", "entries", "history", "consume",
      "over"}]
  BY DEF TypeOK, Set, Entries
<1>3. turn' \in [Viewers -> 0 .. MaxChunks]
  <2>1. 0 \in 0 .. MaxChunks
    BY StreamAssumption
  <2>2. turn' = [turn EXCEPT ![v] = 0]
    BY DEF Set, Entries
  <2>3. turn \in [Viewers -> 0 .. MaxChunks]
    BY DEF TypeOK
  <2> QED
    BY <2>1, <2>2, <2>3
<1>4. history' \in [Viewers -> SUBSET Chunks]
  <2>1. {p \in 1 .. since[v] : p <= ingested /\ TurnOf(p) = turn[v]} \in SUBSET Chunks
    <3>1. MaxChunks \in Nat /\ since[v] \in 0 .. MaxChunks
      BY StreamAssumption DEF TypeOK
    <3> QED
      BY <3>1 DEF Chunks
  <2>2. history' = [history EXCEPT ![v] = {p \in 1 .. since[v] : p <= ingested
        /\ TurnOf(p) = turn[v]}]
    BY DEF Set, Entries
  <2>3. history \in [Viewers -> SUBSET Chunks]
    BY DEF TypeOK
  <2> QED
    BY <2>1, <2>2, <2>3
<1>5. from' \in [Viewers -> 0 .. MaxChunks + 1]
  <2> DEFINE S == {p \in 1 .. since[v] : p <= ingested /\ TurnOf(p) = turn[v]}
  <2>1. S \subseteq Chunks /\ MaxChunks \in Nat /\ since[v] \in 0 .. MaxChunks
    <3>1. MaxChunks \in Nat /\ since[v] \in 0 .. MaxChunks
      BY StreamAssumption DEF TypeOK
    <3> QED
      BY <3>1 DEF Chunks
  <2>2. (IF S = {} THEN since[v] + 1 ELSE Least(S)) \in 0 .. MaxChunks + 1
    <3> HIDE DEF S
    <3>1. S # {} => Least(S) \in Chunks
      BY <2>1, LeastType
    <3> QED
      BY <2>1, <3>1 DEF Chunks
  <2>3. from' = [from EXCEPT ![v] = IF S = {} THEN since[v] + 1 ELSE Least(S)]
    BY DEF Set, Entries
  <2>4. from \in [Viewers -> 0 .. MaxChunks + 1]
    BY DEF TypeOK
  <2> QED
    BY <2>2, <2>3, <2>4
<1>6. missed' \in [Viewers -> SUBSET Chunks]
  <2> DEFINE S == {p \in 1 .. since[v] : p <= ingested /\ TurnOf(p) = turn[v]}
  <2>1. S \subseteq Chunks /\ MaxChunks \in Nat /\ since[v] \in 0 .. MaxChunks
    <3>1. MaxChunks \in Nat /\ since[v] \in 0 .. MaxChunks
      BY StreamAssumption DEF TypeOK
    <3> QED
      BY <3>1 DEF Chunks
  <2>2. (missed[v] \ S) \cup {p \in 1 .. since[v] : p > ingested \/ TurnOf(p) # turn[v]}
          \in SUBSET Chunks
    BY <2>1 DEF TypeOK, Chunks
  <2>3. missed' = [missed EXCEPT ![v] = (missed[v] \ S)
                      \cup {p \in 1 .. since[v] : p > ingested \/ TurnOf(p) # turn[v]}]
    BY DEF Set, Entries
  <2>4. missed \in [Viewers -> SUBSET Chunks]
    BY DEF TypeOK
  <2> QED
    BY <2>2, <2>3, <2>4
<1> QED
  BY <1>1, <1>2, <1>3, <1>4, <1>5, <1>6 DEF TypeOK, output

LEMMA QueryFailsTyped ==
    ASSUME TypeOK, NEW v \in Viewers, QueryFails(v)
    PROVE  TypeOK'
<1>1. UNCHANGED output /\ UNCHANGED <<queue, reader, pump, mode, replay, pipe, since, turn,
                                      history, cancelled, broken, written, from, missed>>
  BY DEF QueryFails, NotConsumer, output, locals, channels, socket
<1>2. consumer' \in [Viewers -> {"none", "now", "turn", "entries", "history", "consume",
      "over"}]
  BY DEF TypeOK, Set, QueryFails
<1> QED
  BY <1>1, <1>2 DEF TypeOK, output

LEMMA WriteHistoryTyped ==
    ASSUME TypeOK, NEW v \in Viewers, WriteHistory(v)
    PROVE  TypeOK'
<1>1. UNCHANGED output /\ UNCHANGED <<queue, reader, pump, mode, replay, pipe, since, turn,
                                      broken, from, missed>>
  BY DEF WriteHistory, NotConsumer, ConsumerWrites, output, locals, channels, socket
<1>2. consumer' \in [Viewers -> {"none", "now", "turn", "entries", "history", "consume",
      "over"}]
  <2>1. consumer' = consumer \/ consumer' = [consumer EXCEPT ![v] = "over"]
        \/ consumer' = [consumer EXCEPT ![v] = "history"]
    BY DEF Set, WriteHistory, NotConsumer, ConsumerWrites
  <2>2. consumer \in [Viewers -> {"none", "now", "turn", "entries", "history", "consume",
        "over"}]
    BY DEF TypeOK
  <2> QED
    BY <2>1, <2>2
<1>3. history' \in [Viewers -> SUBSET Chunks]
  BY DEF TypeOK, Set, WriteHistory, NotConsumer, ConsumerWrites
<1>4. cancelled' \in [Viewers -> BOOLEAN]
  BY DEF TypeOK, Set, WriteHistory, NotConsumer, ConsumerWrites
<1>5. written' \in [Viewers -> Seq(Chunks)]
  <2>1. Append(written[v], Least(history[v])) \in Seq(Chunks)
    <3>1. written[v] \in Seq(Chunks) /\ Least(history[v]) \in Chunks
      BY LeastType DEF TypeOK, WriteHistory
    <3> QED
      BY <3>1
  <2>2. written' = written \/ written' = [written EXCEPT ![v] = Append(written[v],
        Least(history[v]))]
    BY DEF Set, WriteHistory, NotConsumer, ConsumerWrites, Write
  <2>3. written \in [Viewers -> Seq(Chunks)]
    BY DEF TypeOK
  <2> QED
    BY <2>1, <2>2, <2>3
<1> QED
  BY <1>1, <1>2, <1>3, <1>4, <1>5 DEF TypeOK, output

LEMMA HistoryDoneTyped ==
    ASSUME TypeOK, NEW v \in Viewers, HistoryDone(v)
    PROVE  TypeOK'
<1>1. UNCHANGED output /\ UNCHANGED <<queue, reader, pump, mode, replay, pipe, since, turn,
                                      history, cancelled, broken, written, from, missed>>
  BY DEF HistoryDone, NotConsumer, output, locals, channels, socket
<1>2. consumer' \in [Viewers -> {"none", "now", "turn", "entries", "history", "consume",
      "over"}]
  BY DEF TypeOK, Set, HistoryDone
<1> QED
  BY <1>1, <1>2 DEF TypeOK, output

LEMMA ConsumeTyped ==
    ASSUME TypeOK, NEW v \in Viewers, Consume(v)
    PROVE  TypeOK'
<1>1. UNCHANGED output /\ UNCHANGED <<queue, reader, pump, mode, replay, since, turn, history,
                                      broken, from, missed>>
  BY DEF Consume, NotConsumer, ConsumerWrites, output, locals, channels, socket
<1>2. consumer' \in [Viewers -> {"none", "now", "turn", "entries", "history", "consume",
      "over"}]
  <2>1. consumer' = consumer \/ consumer' = [consumer EXCEPT ![v] = "over"]
        \/ consumer' = [consumer EXCEPT ![v] = "consume"]
    BY DEF Set, Consume, NotConsumer, ConsumerWrites
  <2>2. consumer \in [Viewers -> {"none", "now", "turn", "entries", "history", "consume",
        "over"}]
    BY DEF TypeOK
  <2> QED
    BY <2>1, <2>2
<1>3. pipe' \in [Viewers -> Seq(Chunks)] /\ \A w \in Viewers : Len(pipe'[w]) <= PipeSize
  <2>1. Tail(pipe[v]) \in Seq(Chunks) /\ Len(Tail(pipe[v])) <= PipeSize
    <3>1. pipe[v] \in Seq(Chunks) /\ pipe[v] # <<>> /\ Len(pipe[v]) <= PipeSize /\ PipeSize
          \in Nat
      BY StreamAssumption DEF TypeOK, Consume
    <3> QED
      BY <3>1
  <2>2. pipe' = [pipe EXCEPT ![v] = Tail(pipe[v])]
    BY DEF Set, Consume, NotConsumer, ConsumerWrites
  <2>3. pipe \in [Viewers -> Seq(Chunks)] /\ \A w \in Viewers : Len(pipe[w]) <= PipeSize
    BY DEF TypeOK
  <2> QED
    BY <2>1, <2>2, <2>3
<1>4. cancelled' \in [Viewers -> BOOLEAN]
  BY DEF TypeOK, Set, Consume, NotConsumer, ConsumerWrites
<1>5. written' \in [Viewers -> Seq(Chunks)]
  <2>1. Append(written[v], Head(pipe[v])) \in Seq(Chunks)
    <3>1. written[v] \in Seq(Chunks) /\ Head(pipe[v]) \in Chunks
      BY DEF TypeOK, Consume
    <3> QED
      BY <3>1
  <2>2. written' = written \/ written' = [written EXCEPT ![v] = Append(written[v],
        Head(pipe[v]))]
    BY DEF Set, Consume, NotConsumer, ConsumerWrites, Write
  <2>3. written \in [Viewers -> Seq(Chunks)]
    BY DEF TypeOK
  <2> QED
    BY <2>1, <2>2, <2>3
<1> QED
  BY <1>1, <1>2, <1>3, <1>4, <1>5 DEF TypeOK, output

LEMMA ConsumerEndsTyped ==
    ASSUME TypeOK, NEW v \in Viewers, ConsumerEnds(v)
    PROVE  TypeOK'
<1>1. UNCHANGED output /\ UNCHANGED <<queue, reader, pump, mode, replay, pipe, since, turn,
                                      history, cancelled, broken, written, from, missed>>
  BY DEF ConsumerEnds, NotConsumer, output, locals, channels, socket
<1>2. consumer' \in [Viewers -> {"none", "now", "turn", "entries", "history", "consume",
      "over"}]
  BY DEF TypeOK, Set, ConsumerEnds
<1> QED
  BY <1>1, <1>2 DEF TypeOK, output

LEMMA UserInputTyped ==
    ASSUME TypeOK, NEW v \in Viewers, UserInput(v)
    PROVE  TypeOK'
<1>1. UNCHANGED output /\ UNCHANGED <<queue, consumer, mode, replay, pipe, since, turn,
                                      history, cancelled, broken, written, missed>>
  BY DEF UserInput, NotReader, output, locals, channels, socket
<1>2. reader' \in [Viewers -> {"none", "read", "echo", "handle", "over"}]
  BY UserInputForms DEF TypeOK
<1>3. pump' \in [Viewers -> {"none", "copy", "replay", "subscribe", "pump", "over"}]
  BY UserInputForms DEF TypeOK
<1>4. from' \in [Viewers -> 0 .. MaxChunks + 1]
  <2>1. published + 1 \in 0 .. MaxChunks + 1
    BY StreamAssumption DEF TypeOK
  <2>2. from' = from \/ from' = [from EXCEPT ![v] = published + 1]
    BY UserInputForms
  <2>3. from \in [Viewers -> 0 .. MaxChunks + 1]
    BY DEF TypeOK
  <2> QED
    BY <2>1, <2>2, <2>3
<1> QED
  BY <1>1, <1>2, <1>3, <1>4 DEF TypeOK, output

LEMMA ReaderMovesTyped ==
    ASSUME TypeOK, NEW v \in Viewers, ReaderMoves(v)
    PROVE  TypeOK'
<1>1. UNCHANGED output /\ UNCHANGED <<queue, pump, consumer, mode, replay, pipe, since, turn,
                                      history, cancelled, broken, written, from, missed>>
  BY DEF ReaderMoves, NotReader, output, locals, channels, socket
<1>2. reader' \in [Viewers -> {"none", "read", "echo", "handle", "over"}]
  BY DEF TypeOK, Set, ReaderMoves
<1> QED
  BY <1>1, <1>2 DEF TypeOK, output

LEMMA CloseTyped ==
    ASSUME TypeOK, NEW v \in Viewers, Close(v)
    PROVE  TypeOK'
<1>1. UNCHANGED output /\ UNCHANGED <<queue, reader, pump, consumer, mode, replay, pipe, since,
                                      turn, history, written, from, missed>>
  BY DEF Close, output, locals, channels, socket, ghosts
<1>2. cancelled' \in [Viewers -> BOOLEAN]
  BY DEF TypeOK, Set, Close
<1>3. broken' \in [Viewers -> BOOLEAN]
  BY DEF TypeOK, Set, Close
<1> QED
  BY <1>1, <1>2, <1>3 DEF TypeOK, output
LEMMA PublishTyped ==
    ASSUME TypeOK, NEW isEnd \in BOOLEAN, Publish(isEnd)
    PROVE  TypeOK'
<1>1. UNCHANGED <<log, ingested, reader, pump, consumer, mode, replay, pipe, since, turn,
                  history, cancelled, broken, written, from>>
  BY DEF Publish, locals, socket
<1>2. /\ published' = published + 1 /\ published' \in Chunks /\ published' \in 0 .. MaxChunks
      /\ published \in Nat
  BY StreamAssumption DEF Publish, TypeOK, Chunks
<1>3. ends' \subseteq 1 .. published' /\ ingested \in 0 .. published'
  BY DEF Publish, TypeOK
<1>4. queue' \in [Viewers -> Seq(Chunks)] /\ \A w \in Viewers : Len(queue'[w]) <= QueueSize
  <2>1. \A w \in Viewers : queue[w] \in Seq(Chunks) /\ Len(queue[w]) <= QueueSize
        /\ QueueSize \in Nat
    BY StreamAssumption DEF TypeOK
  <2>2. \A w \in Viewers : Append(queue[w], published') \in Seq(Chunks)
                           /\ Len(Append(queue[w], published')) = Len(queue[w]) + 1
                           /\ Len(queue[w]) \in Nat
    BY <1>2, <2>1
  <2>3. queue' = [w \in Viewers |->
                    IF Subscribed(w) /\ Len(queue[w]) < QueueSize
                    THEN Append(queue[w], published') ELSE queue[w]]
    BY DEF Publish
  <2> QED
    BY <2>1, <2>2, <2>3
<1>5. missed' \in [Viewers -> SUBSET Chunks]
  <2>1. \A w \in Viewers : missed[w] \subseteq Chunks
    BY DEF TypeOK
  <2>2. missed' = [w \in Viewers |->
                   IF \/ pump[w] \in {"replay", "subscribe"}
                      \/ Subscribed(w) /\ Len(queue[w]) >= QueueSize
                   THEN missed[w] \cup {published'} ELSE missed[w]]
    BY DEF Publish
  <2> QED
    BY <1>2, <2>1, <2>2
<1> QED
  BY <1>1, <1>2, <1>3, <1>4, <1>5 DEF TypeOK

LEMMA IngestTyped ==
    ASSUME TypeOK, Ingest
    PROVE  TypeOK'
<1>1. UNCHANGED <<log, published, ends, queue, reader, pump, consumer, mode, replay, pipe,
      since,
                  turn, history, cancelled, broken, written, from, missed>>
  BY DEF Ingest, channels, locals, socket, ghosts
<1>2. ingested' \in 0 .. published
  BY DEF Ingest, TypeOK
<1> QED
  BY <1>1, <1>2 DEF TypeOK

LEMMA TypeStep ==
    ASSUME TypeOK, [Next]_vars
    PROVE  TypeOK'
<1>1. CASE (\E isEnd \in BOOLEAN : Publish(isEnd)) \/ Ingest
  BY <1>1, PublishTyped, IngestTyped
<1>2. ASSUME NEW v \in Viewers,
             (\E m \in {"attach", "new"} : Open(v, m)) \/ Break(v) \/ Ping(v) \/ Message(v)
      PROVE  TypeOK'
  BY <1>2, OpenTyped, BreakTyped, PingTyped, UserInputTyped, ReaderOnlyMoves,
     ReaderMovesTyped DEF Message
<1>3. ASSUME NEW v \in Viewers, PumpStep(v) PROVE TypeOK'
  BY <1>3, CopyTyped, ReplayTyped, ReplayDoneTyped, SubscribeTyped, PassTyped, ShowTyped,
     PumpCancelledTyped DEF PumpStep
<1>4. ASSUME NEW v \in Viewers, ConsumerStep(v) PROVE TypeOK'
  BY <1>4, NowTyped, LatestTurnTyped, EntriesTyped, WriteHistoryTyped, HistoryDoneTyped,
     ConsumeTyped, ConsumerEndsTyped DEF ConsumerStep
<1>5. ASSUME NEW v \in Viewers, ReaderStep(v) PROVE TypeOK'
  BY <1>5, ReaderOnlyMoves, ReaderMovesTyped, CloseTyped DEF ReaderStep
<1>6. ASSUME NEW v \in Viewers, TaskLiveFails(v) \/ QueryFails(v) PROVE TypeOK'
  BY <1>6, TaskLiveFailsTyped, QueryFailsTyped
<1>7. CASE UNCHANGED vars
  BY <1>7 DEF vars, output, locals, channels, socket, ghosts, TypeOK
<1> QED
  BY <1>1, <1>2, <1>3, <1>4, <1>5, <1>6, <1>7 DEF Next

-----------------------------------------------------------------------------
(* The theorems.                                                           *)

\* Every variable keeps its type, and StreamInv holds: what a viewer has not
\* been shown is on its way, in order, or passed it by for a known reason.
THEOREM StreamInvariant == Spec => [](TypeOK /\ StreamInv)
<1>1. Init => TypeOK /\ StreamInv
  BY TypeInit, InitStream
<1>2. TypeOK /\ StreamInv /\ [Next]_vars => TypeOK' /\ StreamInv'
  BY TypeStep, StreamStep
<1> QED
  BY <1>1, <1>2, PTL DEF Spec

\* Every variable keeps its type, and no channel holds more than its capacity.
THEOREM StreamTyped == Spec => []TypeOK
BY StreamInvariant

\* Replay, subscription and history together show the output in its order and
\* no chunk twice.
THEOREM ShownInOrder == Spec => []InOrder
<1>1. StreamInv => InOrder
  BY DEF StreamInv, ViewerInv, Queues, Sorted, InOrder
<1> QED
  BY <1>1, StreamInvariant, PTL

\* A chunk is skipped only for the reasons collected in missed.
THEOREM NothingSkipped == Spec => []SeesAll
<1>1. TypeOK /\ StreamInv => SeesAll
  <2> SUFFICES ASSUME TypeOK, StreamInv, NEW v \in Viewers, NEW p \in Chunks,
                      from[v] # 0, from[v] <= p, written[v] # <<>>, p < Last(written[v])
               PROVE  Passed(v, p)
    BY DEF SeesAll, Passed, In
  <2>0. ViewerInv(v) /\ Typed(v) /\ p \in Nat
    BY TypesOf DEF StreamInv, Chunks
  <2> DEFINE l == Last(written[v])
  <2>1. In(written[v], l) /\ l \in Nat /\ l <= published
    <3>1. Len(written[v]) \in DOMAIN written[v]
      BY DEF Typed
    <3>2. In(written[v], l)
      BY DEF In, Last
    <3> QED
      BY <2>0, <3>2 DEF Typed, ViewerInv, Bounds
  <2> HIDE DEF l
  <2>2. p \in 1 .. published /\ p \in from[v] .. published /\ p < l
    BY <2>0, <2>1 DEF Typed, Chunks, l
  <2>3. ~Cut(v, p) /\ ~Dropped(v, p)
    BY <2>0, <2>1, <2>2 DEF Cut, Dropped
  <2>4. ~(l < p) /\ written[v] # <<>>
    BY <2>0, <2>1, <2>2
  <2>5. CASE mode[v] = "new"
    <3>1. ~In(queue[v], p)
      BY <2>0, <2>1, <2>4, <2>5 DEF ViewerInv, AfterWritten
    <3> QED
      BY <2>0, <2>2, <2>3, <2>5, <3>1 DEF ViewerInv, NewCovered
  <2>6. CASE mode[v] = "attach" /\ ToStream(v, p)
    <3>1. consumer[v] \in {"history", "consume", "over"}
      BY <2>0, <2>4, <2>6 DEF ViewerInv, Stages, TypeOK
    <3>2. since[v] < p /\ ~(l <= since[v])
      <4>1. ~log => consumer[v] # "history"
        BY <2>0 DEF ViewerInv, Stages
      <4>2. ~log => since[v] = 0
        BY <2>0, <2>6, <3>1, <4>1 DEF ViewerInv, Origins
      <4>3. since[v] \in Nat /\ 0 < p
        BY <2>0 DEF Typed
      <4> QED
        BY <2>0, <2>1, <2>2, <2>6, <4>2, <4>3 DEF ToStream
    <3>3. consumer[v] # "history"
      BY <2>0, <2>1, <3>2 DEF ViewerInv, Bounds
    <3>4. ~Ahead(v, p) /\ pump[v] # "copy"
      BY <2>0, <2>1, <2>4, <3>1, <3>2, <3>3 DEF ViewerInv, AfterWritten, Typed
    <3> QED
      BY <2>0, <2>2, <2>3, <2>6, <3>4 DEF ViewerInv, StreamCovered, InStream
  <2>7. CASE mode[v] = "attach" /\ ~ToStream(v, p)
    <3>1. log /\ p \in from[v] .. since[v]
      <4>1. log /\ ~(since[v] < p)
        BY <2>7 DEF ToStream
      <4> QED
        BY <2>0, <2>2, <4>1 DEF Typed
    <3>2. ~InHistory(v, p)
      BY <2>0, <2>1, <2>4 DEF ViewerInv, AfterWritten, InHistory
    <3> QED
      BY <2>0, <2>3, <2>7, <3>1, <3>2 DEF ViewerInv, HistoryCovered
  <2> QED
    BY <2>0, <2>5, <2>6, <2>7 DEF TypeOK
<1> QED
  BY <1>1, StreamInvariant, PTL
=============================================================================
