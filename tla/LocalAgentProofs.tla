-------------------------- MODULE LocalAgentProofs --------------------------
(***************************************************************************)
(* Proofs about LocalAgent, for any number of requests and turns.          *)
(*                                                                         *)
(* AgentInv is inductive.  Its parts say where a turn is while a request   *)
(* or its reader has it in hand, and, as long as no engine was started     *)
(* beside another request, that starting is done alone.                    *)
(***************************************************************************)
EXTENDS LocalAgent, TLAPS

-----------------------------------------------------------------------------
(* The inductive invariant.                                                *)

Stopping(c) == caller[c].pc \in {"kill", "publish"}

\* What a request carries at each step.
HandsTyped ==
    \A c \in Callers :
       /\ caller[c].pc \in {"kill", "attach", "publish"} => caller[c].turn \in Turns
       /\ caller[c].pc \in {"check", "launch", "attach"} => caller[c].op \in Starting
       /\ caller[c].pc \in {"stop", "publish"} => caller[c].op = "cancel"

\* A turn whose reader is past reading has a process that ended.
Published ==
    \A t \in Turns :
       reader[t] \in {"decide", "publish", "done"} => process[t] \in Exits

\* A turn not started has no reader and no end, and only turns that were
\* attached are stopped.
TurnsFresh ==
    \A t \in Turns :
       /\ process[t] = "none" => reader[t] = "none" /\ EndsOf(t) = {}
       /\ t \in ignored => reader[t] # "none"

\* A turn is attached once, by the request that started it.
AttachFresh ==
    \A c \in Callers, t \in Turns : At(c, "attach") /\ caller[c].turn = t =>
       /\ reader[t] = "none"
       /\ process[t] # "none"
       /\ EndsOf(t) = {}

AttachOnce ==
    \A c, d \in Callers :
       At(c, "attach") /\ At(d, "attach") /\ caller[c].turn = caller[d].turn => c = d

\* A turn is taken by one request, which leaves it stopped.
StopsTaken ==
    \A c \in Callers, t \in Turns : Stopping(c) /\ caller[c].turn = t =>
       /\ reader[t] # "none"
       /\ t # agent
       /\ At(c, "publish") => t \in ignored

StopsOnce ==
    \A c, d \in Callers :
       Stopping(c) /\ Stopping(d) /\ caller[c].turn = caller[d].turn => c = d

\* stopped speaks of turns that were being read when a Cancel came.
Silence == stopped => \A t \in Turns : reader[t] = "reading" => t \in cancelled

\* Without a clash an engine is started alone, and with the old one taken.
StartsAlone ==
    ~clash => \A c \in Callers :
       Busy(c) /\ caller[c].op \in Starting =>
          /\ registered
          /\ \A d \in Callers : d # c => ~Busy(d)
          /\ caller[c].pc \in {"kill", "launch", "attach"} => agent = NoTurn

\* A process at work is the agent, or in the hands of who takes or attaches it.
AtWork ==
    ~clash => \A t \in Turns : Working(t) =>
       \/ agent = t
       \/ \E c \in Callers : caller[c].pc \in {"kill", "attach"} /\ caller[c].turn = t

OneAtWork ==
    ~clash => \A s, t \in Turns : Working(s) /\ Working(t) => s = t

\* Without a clash the turn that a Cancel has taken is ended by it alone.
CancelStops ==
    ~clash => \A c \in Callers :
       caller[c].op = "cancel" /\ caller[c].pc \in {"take", "kill", "publish"} => stopped

CancelSilences ==
    ~clash => \A c \in Callers, t \in Turns :
       caller[c].op = "cancel" /\ Stopping(c) /\ caller[c].turn = t =>
          reader[t] \in {"reading", "done"} /\ EndsOf(t) = {}

NoEndYet ==
    ~clash => \A t \in Turns :
       /\ reader[t] \in {"reading", "decide"} /\ t \notin ignored => EndsOf(t) = {}
       /\ reader[t] = "publish" => EndsOf(t) = {}

\* Once the VM is off the registry its agent is about to be taken.
DeleteTakes ==
    ~clash /\ ~registered /\ agent # NoTurn => \E c \in Callers : At(c, "take")

AgentInv ==
    /\ Published /\ HandsTyped /\ TurnsFresh
    /\ AttachFresh /\ AttachOnce /\ StopsTaken /\ StopsOnce
    /\ AgentIsRead /\ Silence /\ SilentOnlyIfAsked
    /\ StartsAlone /\ AtWork /\ OneAtWork
    /\ CancelStops /\ CancelSilences /\ NoEndYet /\ EndsOnce
    /\ DeleteTakes

-----------------------------------------------------------------------------
(* What the helpers of the model do.                                       *)

LEMMA BecomeEffect ==
    ASSUME TypeOK, NEW c \in Callers, NEW s, Become(c, s)
    PROVE  caller'[c] = s /\ \A d \in Callers : d # c => caller'[d] = caller[d]
BY DEF TypeOK, Become

LEMMA GotoEffect ==
    ASSUME TypeOK, NEW c \in Callers, NEW pc, Goto(c, pc)
    PROVE  /\ caller'[c].pc = pc
           /\ caller'[c].op = caller[c].op
           /\ caller'[c].turn = caller[c].turn
           /\ \A d \in Callers : d # c => caller'[d] = caller[d]
BY BecomeEffect DEF TypeOK, Goto, CallerStates

LEMMA ReturnEffect ==
    ASSUME TypeOK, NEW c \in Callers, Return(c)
    PROVE  /\ caller'[c].pc = "idle"
           /\ caller'[c].op = "restart"
           /\ caller'[c].turn = NoTurn
           /\ \A d \in Callers : d # c => caller'[d] = caller[d]
BY BecomeEffect DEF Return, IdleCaller

LEMMA HoldEffect ==
    ASSUME TypeOK, NEW c \in Callers, NEW pc, NEW t, Hold(c, pc, t)
    PROVE  /\ caller'[c].pc = pc
           /\ caller'[c].op = caller[c].op
           /\ caller'[c].turn = t
           /\ \A d \in Callers : d # c => caller'[d] = caller[d]
BY BecomeEffect DEF Hold

LEMMA SameEnds ==
    ASSUME UNCHANGED live
    PROVE  \A t \in Turns : EndsOf(t)' = EndsOf(t)
BY DEF EndsOf

LEMMA PublishEffect ==
    ASSUME TypeOK, NEW t \in Turns, NEW k \in Kinds, Publish(t, k)
    PROVE  /\ live' \in Seq([turn : Turns, kind : Kinds])
           /\ EndsOf(t)' # {}
           /\ EndsOf(t) = {} => \A i, j \in EndsOf(t)' : i = j
           /\ \A s \in Turns : s # t => EndsOf(s)' = EndsOf(s)
<1> DEFINE chunk == [turn |-> t, kind |-> k]
<1>1. live \in Seq([turn : Turns, kind : Kinds]) /\ live' = Append(live, chunk)
  BY DEF TypeOK, Publish
<1>2. chunk \in [turn : Turns, kind : Kinds] /\ chunk.turn = t
  OBVIOUS
<1> HIDE DEF chunk
<1>3. /\ live' \in Seq([turn : Turns, kind : Kinds])
      /\ Len(live) \in Nat
      /\ DOMAIN live = 1 .. Len(live)
      /\ DOMAIN live' = 1 .. Len(live) + 1
      /\ live'[Len(live) + 1] = chunk
      /\ \A i \in 1 .. Len(live) : live'[i] = live[i]
  BY <1>1, <1>2
<1>4. EndsOf(t)' = EndsOf(t) \cup {Len(live) + 1}
  BY <1>2, <1>3 DEF EndsOf
<1>5. \A s \in Turns : s # t => EndsOf(s)' = EndsOf(s)
  BY <1>2, <1>3 DEF EndsOf
<1> QED
  BY <1>3, <1>4, <1>5

-----------------------------------------------------------------------------
(* One lemma per action: what the action does to the request and the turn  *)
(* it is about, that the rest is unchanged, and so each part of AgentInv.  *)

\* A request that only looks up the VM.
LEMMA BeginKeeps ==
    ASSUME TypeOK, AgentInv,
           NEW c \in Callers,
           NEW op \in Requests,
           NEW pc \in {"check", "stop", "take"},
           Begin(c, op, pc),
           UNCHANGED <<rec, engine, registered, cancelled>>,
           pc = "check" => op \in Starting,
           pc = "stop" => op = "cancel",
           op = "cancel" => pc = "stop"
    PROVE  TypeOK' /\ AgentInv'
<1>1. /\ ~Busy(c)
      /\ registered
      /\ caller'[c] = [pc |-> pc, op |-> op, turn |-> NoTurn]
      /\ \A d \in Callers : d # c => caller'[d] = caller[d]
      /\ ~clash' => /\ ~clash
                    /\ op \in Starting => \A d \in Callers : d # c => ~Busy(d)
                    /\ \A d \in Callers : d # c /\ Busy(d) => caller[d].op \notin Starting
  BY BecomeEffect DEF Begin
<1>2. /\ UNCHANGED <<agent, stopped, ignored, process, reader, live, registered, cancelled>>
      /\ \A s \in Turns : EndsOf(s)' = EndsOf(s)
  BY SameEnds DEF rec, engine
<1>3. TypeOK'
  BY DEF TypeOK, Begin, Become, CallerStates, rec, engine
<1>4. (Published /\ HandsTyped /\ TurnsFresh)'
  BY <1>1, <1>2, AgentAssumption DEF AgentInv, Published, TurnsFresh, HandsTyped
<1>5. (AttachFresh /\ AttachOnce)'
  BY <1>1, <1>2 DEF AgentInv, AttachFresh, AttachOnce, At
<1>6. (StopsTaken /\ StopsOnce /\ AgentIsRead)'
  BY <1>1, <1>2, AgentAssumption DEF AgentInv, StopsTaken, AgentIsRead,
       StopsOnce, Stopping, At
<1>7. (Silence /\ SilentOnlyIfAsked)'
  BY <1>1, <1>2 DEF AgentInv, Silence, SilentOnlyIfAsked
<1>8. (StartsAlone /\ CancelStops /\ DeleteTakes)'
  BY <1>1, <1>2 DEF AgentInv, StartsAlone, Busy, CancelStops, DeleteTakes
<1>9. (AtWork /\ OneAtWork)'
  BY <1>1, <1>2, AgentAssumption DEF AgentInv, AtWork, Working, Busy, OneAtWork
<1>10. (CancelSilences /\ NoEndYet /\ EndsOnce)'
  BY <1>1, <1>2 DEF AgentInv, CancelSilences, NoEndYet, Stopping, EndsOnce
<1> QED
  BY <1>3, <1>4, <1>5, <1>6, <1>7, <1>8, <1>9, <1>10 DEF AgentInv

LEMMA DeleteKeeps ==
    ASSUME TypeOK, AgentInv,
           NEW c \in Callers,
           Delete(c)
    PROVE  TypeOK' /\ AgentInv'
<1>1. /\ ~Busy(c)
      /\ caller'[c] = [pc |-> "take", op |-> "delete", turn |-> NoTurn]
      /\ \A d \in Callers : d # c => caller'[d] = caller[d]
      /\ ~clash' => /\ ~clash
                    /\ \A d \in Callers : d # c /\ Busy(d) => caller[d].op \notin Starting
  BY BecomeEffect DEF Delete, Begin
<1>2. /\ registered' = FALSE
      /\ UNCHANGED <<agent, stopped, ignored, process, reader, live, cancelled>>
      /\ \A s \in Turns : EndsOf(s)' = EndsOf(s)
  BY SameEnds DEF Delete, rec, engine
<1>3. TypeOK'
  BY DEF TypeOK, Delete, Begin, Become, CallerStates, Requests, rec, engine
<1>4. (Published /\ HandsTyped /\ TurnsFresh)'
  BY <1>1, <1>2, AgentAssumption DEF AgentInv, Published, TurnsFresh, HandsTyped
<1>5. (AttachFresh /\ AttachOnce)'
  BY <1>1, <1>2 DEF AgentInv, AttachFresh, AttachOnce, At
<1>6. (StopsTaken /\ StopsOnce /\ AgentIsRead)'
  BY <1>1, <1>2, AgentAssumption DEF AgentInv, StopsTaken, AgentIsRead,
       StopsOnce, Stopping, At
<1>7. (Silence /\ SilentOnlyIfAsked)'
  BY <1>1, <1>2 DEF AgentInv, Silence, SilentOnlyIfAsked
<1>8. (StartsAlone /\ CancelStops /\ DeleteTakes)'
  BY <1>1, <1>2 DEF AgentInv, StartsAlone, Busy, At, Starting, CancelStops,
       DeleteTakes
<1>9. (AtWork /\ OneAtWork)'
  BY <1>1, <1>2, AgentAssumption DEF AgentInv, AtWork, Working, Busy, OneAtWork
<1>10. (CancelSilences /\ NoEndYet /\ EndsOnce)'
  BY <1>1, <1>2 DEF AgentInv, CancelSilences, NoEndYet, Stopping, EndsOnce
<1> QED
  BY <1>3, <1>4, <1>5, <1>6, <1>7, <1>8, <1>9, <1>10 DEF AgentInv

LEMMA CheckAgentKeeps ==
    ASSUME TypeOK, AgentInv,
           NEW c \in Callers,
           CheckAgent(c)
    PROVE  TypeOK' /\ AgentInv'
<1>1. /\ At(c, "check")
      /\ \/ caller'[c].pc = "take" /\ caller'[c].op = caller[c].op /\ caller'[c].turn = caller[c].turn
         \/ caller'[c].pc = "idle" /\ caller'[c].op = "restart" /\ caller'[c].turn = NoTurn
      /\ \A d \in Callers : d # c => caller'[d] = caller[d]
  BY GotoEffect, ReturnEffect DEF CheckAgent
<1>2. /\ UNCHANGED <<agent, stopped, ignored, process, reader, live, registered, cancelled, clash>>
      /\ \A s \in Turns : EndsOf(s)' = EndsOf(s)
  BY SameEnds DEF CheckAgent, NoNews, rec, engine
<1>3. TypeOK'
  BY DEF TypeOK, CheckAgent, Goto, Return, Become, IdleCaller, CallerStates,
       Requests, NoNews, rec, engine
<1>4. (Published /\ HandsTyped /\ TurnsFresh)'
  BY <1>1, <1>2, AgentAssumption DEF AgentInv, Published, TurnsFresh, HandsTyped
<1>5. (AttachFresh /\ AttachOnce)'
  BY <1>1, <1>2 DEF AgentInv, AttachFresh, AttachOnce, At
<1>6. (StopsTaken /\ StopsOnce /\ AgentIsRead)'
  BY <1>1, <1>2, AgentAssumption DEF AgentInv, StopsTaken, AgentIsRead,
       StopsOnce, Stopping, At
<1>7. (Silence /\ SilentOnlyIfAsked)'
  BY <1>1, <1>2 DEF AgentInv, Silence, SilentOnlyIfAsked
<1>8. (StartsAlone /\ CancelStops /\ DeleteTakes)'
  BY <1>1, <1>2 DEF AgentInv, StartsAlone, HandsTyped, Busy, At, Starting,
       CancelStops, DeleteTakes
<1>9. (AtWork /\ OneAtWork)'
  BY <1>1, <1>2, AgentAssumption DEF AgentInv, AtWork, Working, At, OneAtWork
<1>10. (CancelSilences /\ NoEndYet /\ EndsOnce)'
  BY <1>1, <1>2 DEF AgentInv, CancelSilences, NoEndYet, Stopping, EndsOnce
<1> QED
  BY <1>3, <1>4, <1>5, <1>6, <1>7, <1>8, <1>9, <1>10 DEF AgentInv

LEMMA SetStoppedKeeps ==
    ASSUME TypeOK, AgentInv,
           NEW c \in Callers,
           SetStopped(c)
    PROVE  TypeOK' /\ AgentInv'
<1>1. /\ At(c, "stop")
      /\ caller'[c].pc = "take"
      /\ caller'[c].op = caller[c].op
      /\ caller'[c].turn = caller[c].turn
      /\ \A d \in Callers : d # c => caller'[d] = caller[d]
  BY GotoEffect DEF SetStopped
<1>2. /\ stopped' = TRUE
      /\ cancelled' = cancelled \cup {t \in Turns : reader[t] = "reading"}
      /\ UNCHANGED <<agent, ignored, process, reader, live, registered, clash>>
      /\ \A s \in Turns : EndsOf(s)' = EndsOf(s)
  BY SameEnds DEF SetStopped, engine
<1>3. TypeOK'
  BY DEF TypeOK, SetStopped, Goto, Become, CallerStates, engine
<1>4. (Published /\ HandsTyped /\ TurnsFresh)'
  BY <1>1, <1>2, AgentAssumption DEF AgentInv, Published, TurnsFresh, HandsTyped
<1>5. (AttachFresh /\ AttachOnce)'
  BY <1>1, <1>2 DEF AgentInv, AttachFresh, AttachOnce, At
<1>6. (StopsTaken /\ StopsOnce /\ AgentIsRead)'
  BY <1>1, <1>2, AgentAssumption DEF AgentInv, StopsTaken, AgentIsRead,
       StopsOnce, Stopping, At
<1>7. (Silence /\ SilentOnlyIfAsked)'
  BY <1>1, <1>2 DEF AgentInv, Silence, SilentOnlyIfAsked
<1>8. (StartsAlone /\ CancelStops /\ DeleteTakes)'
  BY <1>1, <1>2 DEF AgentInv, StartsAlone, Busy, At, CancelStops, DeleteTakes
<1>9. (AtWork /\ OneAtWork)'
  BY <1>1, <1>2, AgentAssumption DEF AgentInv, AtWork, Working, At, OneAtWork
<1>10. (CancelSilences /\ NoEndYet /\ EndsOnce)'
  BY <1>1, <1>2 DEF AgentInv, CancelSilences, NoEndYet, Stopping, EndsOnce
<1> QED
  BY <1>3, <1>4, <1>5, <1>6, <1>7, <1>8, <1>9, <1>10 DEF AgentInv

LEMMA TakeKeeps ==
    ASSUME TypeOK, AgentInv,
           NEW c \in Callers,
           Take(c)
    PROVE  TypeOK' /\ AgentInv'
<1>1. /\ At(c, "take")
      /\ agent' = NoTurn
      /\ agent \in Turns \cup {NoTurn}
      /\ \A d \in Callers : d # c => caller'[d] = caller[d]
      /\ \/ /\ agent # NoTurn
            /\ caller'[c].pc = "kill" /\ caller'[c].op = caller[c].op /\ caller'[c].turn = agent
         \/ /\ agent = NoTurn /\ caller[c].op \in Starting
            /\ caller'[c].pc = "launch" /\ caller'[c].op = caller[c].op
         \/ /\ agent = NoTurn /\ caller[c].op \notin Starting
            /\ caller'[c].pc = "idle" /\ caller'[c].op = "restart"
  <2>1. CASE agent # NoTurn
    BY <2>1, HoldEffect DEF Take, TypeOK
  <2>2. CASE agent = NoTurn
    BY <2>2, GotoEffect, ReturnEffect DEF Take, TypeOK
  <2> QED
    BY <2>1, <2>2
<1>2. /\ UNCHANGED <<stopped, ignored, process, reader, live, registered, cancelled, clash>>
      /\ \A s \in Turns : EndsOf(s)' = EndsOf(s)
  BY SameEnds DEF Take, NoNews, engine
<1>3. TypeOK'
  <2>1. CASE agent # NoTurn
    BY <2>1 DEF TypeOK, Take, Hold, Become, CallerStates, NoNews, engine
  <2>2. CASE agent = NoTurn
    BY <2>2 DEF TypeOK, Take, Goto, Return, Become, IdleCaller,
         CallerStates, Requests, NoNews, engine
  <2> QED
    BY <2>1, <2>2
<1>4. (Published /\ HandsTyped /\ TurnsFresh)'
  BY <1>1, <1>2, AgentAssumption DEF AgentInv, Published, TurnsFresh, HandsTyped
<1>5. (AttachFresh /\ AttachOnce)'
  BY <1>1, <1>2 DEF AgentInv, AttachFresh, AttachOnce, At
<1>6. (StopsTaken /\ StopsOnce /\ AgentIsRead)'
  BY <1>1, <1>2, AgentAssumption DEF AgentInv, StopsTaken, AgentIsRead,
       StopsOnce, Stopping, At
<1>7. (Silence /\ SilentOnlyIfAsked)'
  BY <1>1, <1>2 DEF AgentInv, Silence, SilentOnlyIfAsked
<1>8. (StartsAlone /\ CancelStops /\ DeleteTakes)'
  BY <1>1, <1>2 DEF AgentInv, StartsAlone, Busy, At, CancelStops, DeleteTakes
<1>9. (AtWork /\ OneAtWork)'
  BY <1>1, <1>2, AgentAssumption DEF AgentInv, AtWork, Working, At, OneAtWork
<1>10. (CancelSilences /\ NoEndYet /\ EndsOnce)'
  BY <1>1, <1>2 DEF AgentInv, CancelSilences, AgentIsRead, NoEndYet, Stopping,
       EndsOnce
<1> QED
  BY <1>3, <1>4, <1>5, <1>6, <1>7, <1>8, <1>9, <1>10 DEF AgentInv

LEMMA KillKeeps ==
    ASSUME TypeOK, AgentInv,
           NEW c \in Callers,
           Kill(c)
    PROVE  TypeOK' /\ AgentInv'
<1>1. /\ At(c, "kill")
      /\ \A d \in Callers : d # c => caller'[d] = caller[d]
      /\ ignored' = ignored \cup {caller[c].turn}
      /\ caller[c].turn \in Turns
      /\ \/ /\ caller[c].op \in Starting
            /\ caller'[c].pc = "launch" /\ caller'[c].op = caller[c].op /\ caller'[c].turn = caller[c].turn
         \/ /\ caller[c].op = "cancel"
            /\ caller'[c].pc = "publish" /\ caller'[c].op = "cancel" /\ caller'[c].turn = caller[c].turn
         \/ caller'[c].pc = "idle" /\ caller'[c].op = "restart" /\ caller'[c].turn = NoTurn
  BY GotoEffect, ReturnEffect DEF Kill, AgentInv, HandsTyped, At, Starting
<1>2. /\ UNCHANGED <<agent, stopped, process, reader, live, registered, cancelled, clash>>
      /\ \A s \in Turns : EndsOf(s)' = EndsOf(s)
  BY SameEnds DEF Kill, NoNews, rec
<1>3. TypeOK'
  BY <1>1 DEF TypeOK, Kill, Goto, Return, Become, IdleCaller, CallerStates,
       Requests, NoNews, rec
<1>4. (Published /\ HandsTyped /\ TurnsFresh)'
  BY <1>1, <1>2, AgentAssumption DEF AgentInv, Published, TurnsFresh, At,
       HandsTyped, StopsTaken, Stopping
<1>5. (AttachFresh /\ AttachOnce)'
  BY <1>1, <1>2 DEF AgentInv, AttachFresh, AttachOnce, At
<1>6. (StopsTaken /\ StopsOnce /\ AgentIsRead)'
  BY <1>1, <1>2, AgentAssumption DEF AgentInv, StopsTaken, AgentIsRead,
       StopsOnce, Stopping, At
<1>7. (Silence /\ SilentOnlyIfAsked)'
  BY <1>1, <1>2 DEF AgentInv, Silence, SilentOnlyIfAsked
<1>8. (StartsAlone /\ CancelStops /\ DeleteTakes)'
  BY <1>1, <1>2 DEF AgentInv, StartsAlone, Busy, At, CancelStops, DeleteTakes
<1>9. (AtWork /\ OneAtWork)'
  BY <1>1, <1>2, AgentAssumption DEF AgentInv, AtWork, Working, OneAtWork
<1>10. (CancelSilences /\ NoEndYet /\ EndsOnce)'
  BY <1>1, <1>2 DEF AgentInv, CancelSilences, NoEndYet, Stopping, At, EndsOnce
<1> QED
  BY <1>3, <1>4, <1>5, <1>6, <1>7, <1>8, <1>9, <1>10 DEF AgentInv

LEMMA PublishCancelledKeeps ==
    ASSUME TypeOK, AgentInv,
           NEW c \in Callers,
           NEW t \in Turns,
           caller[c].turn = t,
           PublishCancelled(c)
    PROVE  TypeOK' /\ AgentInv'
<1>1. /\ At(c, "publish")
      /\ caller[c].op = "cancel"
      /\ reader[t] # "none"
      /\ ~clash => EndsOf(t) = {}
      /\ caller'[c].pc = "idle"
      /\ caller'[c].op = "restart"
      /\ caller'[c].turn = NoTurn
      /\ \A d \in Callers : d # c => caller'[d] = caller[d]
  BY ReturnEffect DEF PublishCancelled, AgentInv, HandsTyped, StopsTaken,
       CancelSilences, Stopping, At
<1>2. /\ \A s \in Turns : s # t => EndsOf(s)' = EndsOf(s)
      /\ UNCHANGED <<agent, stopped, ignored, process, reader, registered, cancelled, clash>>
  BY PublishEffect DEF PublishCancelled, NoNews, rec, Kinds
<1>3. /\ EndsOf(t)' # {}
      /\ EndsOf(t) = {} => \A i, j \in EndsOf(t)' : i = j
      /\ live' \in Seq([turn : Turns, kind : Kinds])
  BY PublishEffect DEF PublishCancelled, Kinds
<1>4. TypeOK'
  BY <1>2, <1>3 DEF TypeOK, PublishCancelled, Return, Become, IdleCaller,
       CallerStates, Requests
<1>5. (Published /\ HandsTyped /\ TurnsFresh)'
  BY <1>1, <1>2, AgentAssumption DEF AgentInv, Published, TurnsFresh, HandsTyped
<1>6. (AttachFresh /\ AttachOnce)'
  BY <1>1, <1>2 DEF AgentInv, AttachFresh, At, AttachOnce
<1>7. (StopsTaken /\ StopsOnce /\ AgentIsRead)'
  BY <1>1, <1>2, AgentAssumption DEF AgentInv, StopsTaken, AgentIsRead,
       StopsOnce, Stopping, At
<1>8. (Silence /\ SilentOnlyIfAsked)'
  BY <1>1, <1>2, <1>3 DEF AgentInv, Silence, SilentOnlyIfAsked
<1>9. (StartsAlone /\ CancelStops /\ DeleteTakes)'
  BY <1>1, <1>2 DEF AgentInv, StartsAlone, Busy, At, CancelStops, DeleteTakes
<1>10. (AtWork /\ OneAtWork)'
  BY <1>1, <1>2, AgentAssumption DEF AgentInv, AtWork, Working, At, OneAtWork
<1>11. CancelSilences'
  BY <1>1, <1>2 DEF AgentInv, CancelSilences, StopsOnce, Stopping, At
<1>12. NoEndYet'
  BY <1>1, <1>2 DEF AgentInv, NoEndYet, CancelSilences, StopsTaken, Stopping, At
<1>13. EndsOnce'
  BY <1>1, <1>2, <1>3 DEF AgentInv, EndsOnce
<1> QED
  BY <1>4, <1>5, <1>6, <1>7, <1>8, <1>9, <1>10, <1>11, <1>12, <1>13 DEF AgentInv

LEMMA CreateFailsKeeps ==
    ASSUME TypeOK, AgentInv,
           NEW c \in Callers,
           NEW t \in Turns,
           CreateFails(c, t)
    PROVE  TypeOK' /\ AgentInv'
<1>1. /\ At(c, "take")
      /\ caller[c].op \in Starting
      /\ caller'[c].pc = "idle"
      /\ caller'[c].op = "restart"
      /\ caller'[c].turn = NoTurn
      /\ \A d \in Callers : d # c => caller'[d] = caller[d]
  BY ReturnEffect DEF CreateFails, AgentInv, HandsTyped, At, Starting
<1>2. /\ process[t] = "none"
      /\ reader[t] = "none"
      /\ EndsOf(t) = {}
      /\ process'[t] = "failed"
      /\ \A s \in Turns : s # t => process'[s] = process[s]
      /\ \A s \in Turns : s # t => EndsOf(s)' = EndsOf(s)
      /\ UNCHANGED <<agent, stopped, ignored, reader, registered, cancelled, clash>>
  BY PublishEffect DEF CreateFails, NoNews, rec, Kinds, Exits, Fresh, TypeOK,
       AgentInv, TurnsFresh
<1>3. /\ EndsOf(t)' # {}
      /\ EndsOf(t) = {} => \A i, j \in EndsOf(t)' : i = j
      /\ live' \in Seq([turn : Turns, kind : Kinds])
  BY PublishEffect DEF CreateFails, Kinds, Exits
<1>4. TypeOK'
  BY <1>2, <1>3 DEF TypeOK, CreateFails, Return, Become, IdleCaller,
       CallerStates, Requests, Exits
<1>5. (Published /\ HandsTyped /\ TurnsFresh)'
  BY <1>1, <1>2, AgentAssumption DEF AgentInv, Published, TurnsFresh, HandsTyped
<1>6. (AttachFresh /\ AttachOnce)'
  BY <1>1, <1>2 DEF AgentInv, AttachFresh, AttachOnce, At
<1>7. (StopsTaken /\ StopsOnce /\ AgentIsRead)'
  BY <1>1, <1>2, AgentAssumption DEF AgentInv, StopsTaken, AgentIsRead,
       StopsOnce, Stopping, At
<1>8. (Silence /\ SilentOnlyIfAsked)'
  BY <1>1, <1>2, <1>3 DEF AgentInv, Silence, SilentOnlyIfAsked
<1>9. (StartsAlone /\ CancelStops /\ DeleteTakes)'
  BY <1>1, <1>2 DEF AgentInv, StartsAlone, Busy, At, CancelStops, DeleteTakes
<1>10. (AtWork /\ OneAtWork)'
  BY <1>1, <1>2, AgentAssumption DEF AgentInv, AtWork, Working, At, OneAtWork
<1>11. CancelSilences'
  BY <1>1, <1>2 DEF AgentInv, CancelSilences, Stopping
<1>12. NoEndYet'
  BY <1>1, <1>2 DEF AgentInv, NoEndYet
<1>13. EndsOnce'
  BY <1>1, <1>2, <1>3 DEF AgentInv, EndsOnce
<1> QED
  BY <1>4, <1>5, <1>6, <1>7, <1>8, <1>9, <1>10, <1>11, <1>12, <1>13 DEF AgentInv

\* Create publishes a failed turn.
LEMMA LaunchFailsKeeps ==
    ASSUME TypeOK, AgentInv,
           NEW c \in Callers,
           NEW t \in Turns,
           LaunchFails(c, t),
           caller[c].op = "create"
    PROVE  TypeOK' /\ AgentInv'
<1>1. /\ At(c, "launch")
      /\ caller[c].op \in Starting
      /\ caller'[c].pc = "idle"
      /\ caller'[c].op = "restart"
      /\ caller'[c].turn = NoTurn
      /\ \A d \in Callers : d # c => caller'[d] = caller[d]
  BY ReturnEffect DEF LaunchFails, AgentInv, HandsTyped, At, Starting
<1>2. /\ process[t] = "none"
      /\ reader[t] = "none"
      /\ EndsOf(t) = {}
      /\ process'[t] = "failed"
      /\ \A s \in Turns : s # t => process'[s] = process[s]
      /\ \A s \in Turns : s # t => EndsOf(s)' = EndsOf(s)
      /\ UNCHANGED <<agent, stopped, ignored, reader, registered, cancelled, clash>>
  BY PublishEffect DEF LaunchFails, NoNews, rec, Kinds, Exits, Fresh, TypeOK,
       AgentInv, TurnsFresh
<1>3. /\ EndsOf(t)' # {}
      /\ EndsOf(t) = {} => \A i, j \in EndsOf(t)' : i = j
      /\ live' \in Seq([turn : Turns, kind : Kinds])
  BY PublishEffect DEF LaunchFails, Kinds, Exits
<1>4. TypeOK'
  BY <1>2, <1>3, SMTT(20) DEF TypeOK, LaunchFails, Return, Become, IdleCaller,
       CallerStates, Requests, Exits
<1>5. (Published /\ HandsTyped /\ TurnsFresh)'
  BY <1>1, <1>2, AgentAssumption DEF AgentInv, Published, TurnsFresh, HandsTyped
<1>6. (AttachFresh /\ AttachOnce)'
  BY <1>1, <1>2 DEF AgentInv, AttachFresh, AttachOnce, At
<1>7. (StopsTaken /\ StopsOnce /\ AgentIsRead)'
  BY <1>1, <1>2, AgentAssumption DEF AgentInv, StopsTaken, AgentIsRead,
       StopsOnce, Stopping, At
<1>8. (Silence /\ SilentOnlyIfAsked)'
  BY <1>1, <1>2, <1>3 DEF AgentInv, Silence, SilentOnlyIfAsked
<1>9. (StartsAlone /\ CancelStops /\ DeleteTakes)'
  BY <1>1, <1>2 DEF AgentInv, StartsAlone, Busy, At, CancelStops, DeleteTakes
<1>10. (AtWork /\ OneAtWork)'
  BY <1>1, <1>2, AgentAssumption DEF AgentInv, AtWork, Working, At, OneAtWork
<1>11. (CancelSilences /\ NoEndYet /\ EndsOnce)'
  BY <1>1, <1>2, <1>3 DEF AgentInv, CancelSilences, CancelStops, StopsTaken,
       HandsTyped, NoEndYet, TurnsFresh, Stopping, At, EndsOnce
<1> QED
  BY <1>4, <1>5, <1>6, <1>7, <1>8, <1>9, <1>10, <1>11 DEF AgentInv

\* Continue returns the error.
LEMMA ContinueFailsKeeps ==
    ASSUME TypeOK, AgentInv,
           NEW c \in Callers,
           NEW t \in Turns,
           LaunchFails(c, t),
           caller[c].op # "create"
    PROVE  TypeOK' /\ AgentInv'
<1>1. /\ At(c, "launch")
      /\ caller[c].op \in Starting
      /\ caller'[c].pc = "idle"
      /\ caller'[c].op = "restart"
      /\ caller'[c].turn = NoTurn
      /\ \A d \in Callers : d # c => caller'[d] = caller[d]
  BY ReturnEffect DEF LaunchFails, AgentInv, HandsTyped, At, Starting
<1>2. /\ UNCHANGED <<agent, stopped, ignored, process, reader, live, registered, cancelled, clash>>
      /\ \A s \in Turns : EndsOf(s)' = EndsOf(s)
  BY SameEnds DEF LaunchFails, NoNews, rec
<1>3. TypeOK'
  BY <1>2 DEF TypeOK, LaunchFails, Return, Become, IdleCaller, CallerStates,
       Requests
<1>4. (Published /\ HandsTyped /\ TurnsFresh)'
  BY <1>1, <1>2, AgentAssumption DEF AgentInv, Published, TurnsFresh, HandsTyped
<1>5. (AttachFresh /\ AttachOnce)'
  BY <1>1, <1>2 DEF AgentInv, AttachFresh, AttachOnce, At
<1>6. (StopsTaken /\ StopsOnce /\ AgentIsRead)'
  BY <1>1, <1>2, AgentAssumption DEF AgentInv, StopsTaken, AgentIsRead,
       StopsOnce, Stopping, At
<1>7. (Silence /\ SilentOnlyIfAsked)'
  BY <1>1, <1>2 DEF AgentInv, Silence, SilentOnlyIfAsked
<1>8. (StartsAlone /\ CancelStops /\ DeleteTakes)'
  BY <1>1, <1>2 DEF AgentInv, StartsAlone, Busy, At, CancelStops, DeleteTakes
<1>9. (AtWork /\ OneAtWork)'
  BY <1>1, <1>2, AgentAssumption DEF AgentInv, AtWork, Working, At, OneAtWork
<1>10. (CancelSilences /\ NoEndYet /\ EndsOnce)'
  BY <1>1, <1>2 DEF AgentInv, CancelSilences, NoEndYet, Stopping, EndsOnce
<1> QED
  BY <1>3, <1>4, <1>5, <1>6, <1>7, <1>8, <1>9, <1>10 DEF AgentInv

LEMMA LaunchKeeps ==
    ASSUME TypeOK, AgentInv,
           NEW c \in Callers,
           NEW t \in Turns,
           Launch(c, t)
    PROVE  TypeOK' /\ AgentInv'
<1>1. /\ At(c, "launch")
      /\ caller[c].op \in Starting
      /\ caller'[c].pc = "attach"
      /\ caller'[c].op = caller[c].op
      /\ caller'[c].turn = t
      /\ \A d \in Callers : d # c => caller'[d] = caller[d]
  BY HoldEffect DEF Launch, AgentInv, HandsTyped, At
<1>2. /\ process[t] = "none"
      /\ process'[t] = "running"
      /\ \A s \in Turns : s # t => process'[s] = process[s]
      /\ UNCHANGED <<agent, stopped, ignored, reader, live, registered, cancelled, clash>>
      /\ \A s \in Turns : EndsOf(s)' = EndsOf(s)
  BY SameEnds DEF Launch, Fresh, NoNews, rec, TypeOK
<1>3. TypeOK'
  BY <1>2 DEF TypeOK, Launch, Hold, Become, CallerStates
<1>4. (Published /\ HandsTyped /\ TurnsFresh)'
  BY <1>1, <1>2, AgentAssumption DEF AgentInv, Published, TurnsFresh, HandsTyped
<1>5. (AttachFresh /\ AttachOnce)'
  BY <1>1, <1>2 DEF AgentInv, AttachFresh, AttachOnce, TurnsFresh, At
<1>6. (StopsTaken /\ StopsOnce /\ AgentIsRead)'
  BY <1>1, <1>2, AgentAssumption DEF AgentInv, StopsTaken, AgentIsRead,
       StopsOnce, Stopping, At
<1>7. (Silence /\ SilentOnlyIfAsked)'
  BY <1>1, <1>2 DEF AgentInv, Silence, SilentOnlyIfAsked
<1>8. (StartsAlone /\ CancelStops /\ DeleteTakes)'
  BY <1>1, <1>2 DEF AgentInv, StartsAlone, Busy, At, CancelStops, DeleteTakes
<1>9. (AtWork /\ OneAtWork)'
  BY <1>1, <1>2, AgentAssumption DEF AgentInv, AtWork, StartsAlone, Working,
       Busy, At, OneAtWork
<1>10. (CancelSilences /\ NoEndYet /\ EndsOnce)'
  BY <1>1, <1>2 DEF AgentInv, CancelSilences, NoEndYet, Stopping, EndsOnce
<1> QED
  BY <1>3, <1>4, <1>5, <1>6, <1>7, <1>8, <1>9, <1>10 DEF AgentInv

LEMMA AttachKeeps ==
    ASSUME TypeOK, AgentInv,
           NEW c \in Callers,
           NEW t \in Turns,
           caller[c].turn = t,
           Attach(c)
    PROVE  TypeOK' /\ AgentInv'
<1>1. /\ At(c, "attach")
      /\ caller[c].op \in Starting
      /\ caller'[c].pc = "idle"
      /\ caller'[c].op = "restart"
      /\ caller'[c].turn = NoTurn
      /\ \A d \in Callers : d # c => caller'[d] = caller[d]
  BY ReturnEffect DEF Attach, AgentInv, HandsTyped, At
<1>2. /\ agent' = t
      /\ stopped' = FALSE
      /\ reader'[t] = "reading"
      /\ \A s \in Turns : s # t => reader'[s] = reader[s]
      /\ UNCHANGED <<ignored, process, live, registered, cancelled, clash>>
      /\ \A s \in Turns : EndsOf(s)' = EndsOf(s)
  BY SameEnds DEF Attach, NoNews, TypeOK
<1>3. TypeOK'
  BY <1>2 DEF TypeOK, Attach, Return, Become, IdleCaller, CallerStates, Requests
<1>4. (Published /\ HandsTyped /\ TurnsFresh)'
  BY <1>1, <1>2, AgentAssumption DEF AgentInv, Published, AttachFresh,
       TurnsFresh, HandsTyped
<1>5. (AttachFresh /\ AttachOnce)'
  BY <1>1, <1>2 DEF AgentInv, AttachFresh, AttachOnce, At
<1>6. (StopsTaken /\ StopsOnce /\ AgentIsRead)'
  BY <1>1, <1>2, AgentAssumption DEF AgentInv, StopsTaken, AgentIsRead,
       AttachFresh, StopsOnce, Stopping, At, TurnsFresh
<1>7. (Silence /\ SilentOnlyIfAsked)'
  BY <1>1, <1>2 DEF AgentInv, Silence, SilentOnlyIfAsked
<1>8. (StartsAlone /\ CancelStops /\ DeleteTakes)'
  BY <1>1, <1>2 DEF AgentInv, StartsAlone, Busy, At, CancelStops, DeleteTakes
<1>9. (AtWork /\ OneAtWork)'
  BY <1>1, <1>2, AgentAssumption DEF AgentInv, AtWork, StartsAlone, Working,
       Busy, At, OneAtWork
<1>10. (CancelSilences /\ NoEndYet /\ EndsOnce)'
  BY <1>1, <1>2 DEF AgentInv, CancelSilences, CancelStops, StopsOnce,
       NoEndYet, Stopping, At, AttachFresh, EndsOnce
<1> QED
  BY <1>3, <1>4, <1>5, <1>6, <1>7, <1>8, <1>9, <1>10 DEF AgentInv

LEMMA ExitKeeps ==
    ASSUME TypeOK, AgentInv,
           NEW t \in Turns,
           Exit(t)
    PROVE  TypeOK' /\ AgentInv'
<1>1. /\ process[t] = "running"
      /\ process'[t] \in Exits
      /\ \A s \in Turns : s # t => process'[s] = process[s]
      /\ UNCHANGED caller
  BY DEF Exit, TypeOK
<1>2. /\ UNCHANGED <<agent, stopped, ignored, reader, live, registered, cancelled, clash>>
      /\ \A s \in Turns : EndsOf(s)' = EndsOf(s)
  BY SameEnds DEF Exit, NoNews, rec
<1>3. TypeOK'
  BY <1>2 DEF TypeOK, Exit, Exits
<1>4. (Published /\ HandsTyped /\ TurnsFresh)'
  BY <1>1, <1>2, AgentAssumption DEF AgentInv, Published, Exits, TurnsFresh,
       HandsTyped
<1>5. (AttachFresh /\ AttachOnce)'
  BY <1>1, <1>2 DEF AgentInv, AttachFresh, AttachOnce, At, Exits
<1>6. (StopsTaken /\ StopsOnce /\ AgentIsRead)'
  BY <1>1, <1>2, AgentAssumption DEF AgentInv, StopsTaken, AgentIsRead,
       StopsOnce, Stopping, At
<1>7. (Silence /\ SilentOnlyIfAsked)'
  BY <1>1, <1>2 DEF AgentInv, Silence, SilentOnlyIfAsked
<1>8. (StartsAlone /\ CancelStops /\ DeleteTakes)'
  BY <1>1, <1>2 DEF AgentInv, StartsAlone, Busy, At, CancelStops, DeleteTakes
<1>9. (AtWork /\ OneAtWork)'
  BY <1>1, <1>2, AgentAssumption DEF AgentInv, AtWork, Working, OneAtWork
<1>10. (CancelSilences /\ NoEndYet /\ EndsOnce)'
  BY <1>1, <1>2 DEF AgentInv, CancelSilences, NoEndYet, Stopping, EndsOnce
<1> QED
  BY <1>3, <1>4, <1>5, <1>6, <1>7, <1>8, <1>9, <1>10 DEF AgentInv

LEMMA ReapKeeps ==
    ASSUME TypeOK, AgentInv,
           NEW t \in Turns,
           Reap(t)
    PROVE  TypeOK' /\ AgentInv'
<1>1. /\ agent \in Turns \cup {NoTurn}
      /\ reader[t] = "reading"
      /\ process[t] \in Exits
      /\ agent' = IF agent = t THEN NoTurn ELSE agent
      /\ reader'[t] = (IF stopped THEN "done" ELSE "decide")
      /\ \A s \in Turns : s # t => reader'[s] = reader[s]
      /\ UNCHANGED caller
  BY DEF Reap, TypeOK
<1>2. /\ UNCHANGED <<stopped, ignored, process, live, registered, cancelled, clash>>
      /\ \A s \in Turns : EndsOf(s)' = EndsOf(s)
  BY SameEnds DEF Reap, NoNews
<1>3. TypeOK'
  BY DEF TypeOK, Reap, NoNews
<1>4. (Published /\ HandsTyped /\ TurnsFresh)'
  BY <1>1, <1>2, AgentAssumption DEF AgentInv, Published, TurnsFresh, HandsTyped
<1>5. (AttachFresh /\ AttachOnce)'
  BY <1>1, <1>2 DEF AgentInv, AttachFresh, AttachOnce, At
<1>6. (StopsTaken /\ StopsOnce /\ AgentIsRead)'
  BY <1>1, <1>2, AgentAssumption DEF AgentInv, StopsTaken, AgentIsRead,
       StopsOnce, Stopping, At
<1>7. (Silence /\ SilentOnlyIfAsked)'
  BY <1>1, <1>2 DEF AgentInv, Silence, SilentOnlyIfAsked
<1>8. (StartsAlone /\ CancelStops /\ DeleteTakes)'
  BY <1>1, <1>2 DEF AgentInv, StartsAlone, Busy, At, CancelStops, DeleteTakes
<1>9. (AtWork /\ OneAtWork)'
  BY <1>1, <1>2, AgentAssumption DEF AgentInv, AtWork, Working, Exits, OneAtWork
<1>10. (CancelSilences /\ NoEndYet /\ EndsOnce)'
  BY <1>1, <1>2 DEF AgentInv, CancelSilences, CancelStops, HandsTyped,
       NoEndYet, Stopping, EndsOnce
<1> QED
  BY <1>3, <1>4, <1>5, <1>6, <1>7, <1>8, <1>9, <1>10 DEF AgentInv

LEMMA DecideKeeps ==
    ASSUME TypeOK, AgentInv,
           NEW t \in Turns,
           Decide(t)
    PROVE  TypeOK' /\ AgentInv'
<1>1. /\ agent \in Turns \cup {NoTurn}
      /\ reader[t] = "decide"
      /\ reader'[t] = (IF t \in ignored THEN "done" ELSE "publish")
      /\ \A s \in Turns : s # t => reader'[s] = reader[s]
      /\ UNCHANGED caller
  BY DEF Decide, TypeOK
<1>2. /\ UNCHANGED <<agent, stopped, ignored, process, live, registered, cancelled, clash>>
      /\ \A s \in Turns : EndsOf(s)' = EndsOf(s)
  BY SameEnds DEF Decide, NoNews, rec
<1>3. TypeOK'
  BY DEF TypeOK, Decide, NoNews, rec
<1>4. (Published /\ HandsTyped /\ TurnsFresh)'
  BY <1>1, <1>2, AgentAssumption DEF AgentInv, Published, TurnsFresh, HandsTyped
<1>5. (AttachFresh /\ AttachOnce)'
  BY <1>1, <1>2 DEF AgentInv, AttachFresh, AttachOnce, At
<1>6. (StopsTaken /\ StopsOnce /\ AgentIsRead)'
  BY <1>1, <1>2, AgentAssumption DEF AgentInv, StopsTaken, AgentIsRead,
       StopsOnce, Stopping, At
<1>7. (Silence /\ SilentOnlyIfAsked)'
  BY <1>1, <1>2 DEF AgentInv, Silence, SilentOnlyIfAsked
<1>8. (StartsAlone /\ CancelStops /\ DeleteTakes)'
  BY <1>1, <1>2 DEF AgentInv, StartsAlone, Busy, At, CancelStops, DeleteTakes
<1>9. (AtWork /\ OneAtWork)'
  BY <1>1, <1>2, AgentAssumption DEF AgentInv, AtWork, Working, OneAtWork
<1>10. (CancelSilences /\ NoEndYet /\ EndsOnce)'
  BY <1>1, <1>2 DEF AgentInv, CancelSilences, NoEndYet, Stopping, At, EndsOnce
<1> QED
  BY <1>3, <1>4, <1>5, <1>6, <1>7, <1>8, <1>9, <1>10 DEF AgentInv

LEMMA PublishEndKeeps ==
    ASSUME TypeOK, AgentInv,
           NEW t \in Turns,
           PublishEnd(t)
    PROVE  TypeOK' /\ AgentInv'
<1>1. /\ agent \in Turns \cup {NoTurn}
      /\ reader[t] = "publish"
      /\ process[t] \in Exits
      /\ reader'[t] = "done"
      /\ \A s \in Turns : s # t => reader'[s] = reader[s]
      /\ UNCHANGED caller
  BY DEF PublishEnd, AgentInv, Published, TypeOK
<1>2. /\ \A s \in Turns : s # t => EndsOf(s)' = EndsOf(s)
      /\ UNCHANGED <<agent, stopped, ignored, process, registered, cancelled, clash>>
  BY PublishEffect, <1>1 DEF PublishEnd, NoNews, rec, Kinds, TypeOK
<1>3. /\ EndsOf(t)' # {}
      /\ EndsOf(t) = {} => \A i, j \in EndsOf(t)' : i = j
      /\ live' \in Seq([turn : Turns, kind : Kinds])
  BY PublishEffect, <1>1 DEF PublishEnd, Kinds
<1>4. TypeOK'
  BY <1>2, <1>3 DEF TypeOK, PublishEnd
<1>5. (Published /\ HandsTyped /\ TurnsFresh)'
  BY <1>1, <1>2, AgentAssumption DEF AgentInv, Published, TurnsFresh, HandsTyped
<1>6. (AttachFresh /\ AttachOnce)'
  BY <1>1, <1>2 DEF AgentInv, AttachFresh, AttachOnce, At
<1>7. (StopsTaken /\ StopsOnce /\ AgentIsRead)'
  BY <1>1, <1>2, AgentAssumption DEF AgentInv, StopsTaken, AgentIsRead,
       StopsOnce, Stopping, At
<1>8. (Silence /\ SilentOnlyIfAsked)'
  BY <1>1, <1>2, <1>3 DEF AgentInv, Silence, SilentOnlyIfAsked
<1>9. (StartsAlone /\ CancelStops /\ DeleteTakes)'
  BY <1>1, <1>2 DEF AgentInv, StartsAlone, Busy, At, CancelStops, DeleteTakes
<1>10. (AtWork /\ OneAtWork)'
  BY <1>1, <1>2, AgentAssumption DEF AgentInv, AtWork, Working, OneAtWork
<1>11. (CancelSilences /\ NoEndYet /\ EndsOnce)'
  BY <1>1, <1>2, <1>3 DEF AgentInv, CancelSilences, CancelStops, StopsOnce,
       AgentIsRead, NoEndYet, Stopping, AttachFresh, EndsOnce
<1> QED
  BY <1>4, <1>5, <1>6, <1>7, <1>8, <1>9, <1>10, <1>11 DEF AgentInv

-----------------------------------------------------------------------------
(* The invariant holds, and what follows from it.                          *)

LEMMA InitTyped == Init => TypeOK
<1> SUFFICES ASSUME Init PROVE TypeOK
  OBVIOUS
<1>1. IdleCaller \in CallerStates
  BY DEF IdleCaller, CallerStates, Requests
<1>2. live \in Seq([turn : Turns, kind : Kinds])
  BY DEF Init
<1> QED
  BY <1>1, <1>2 DEF Init, TypeOK

LEMMA InitInv == Init => AgentInv
<1> SUFFICES ASSUME Init PROVE AgentInv
  OBVIOUS
<1>1. \A t \in Turns : EndsOf(t) = {}
  BY DEF Init, EndsOf
<1>2. \A c \in Callers : caller[c].pc = "idle" /\ caller[c].op = "restart"
  BY DEF Init, IdleCaller
<1>3. /\ HandsTyped /\ AttachFresh /\ AttachOnce /\ StopsTaken /\ StopsOnce
      /\ StartsAlone /\ CancelStops /\ CancelSilences
  BY <1>2 DEF HandsTyped, AttachFresh, AttachOnce, StopsTaken, StopsOnce,
       StartsAlone, CancelStops, CancelSilences, Stopping, At, Busy, Starting
<1>4. Published /\ TurnsFresh /\ Silence /\ SilentOnlyIfAsked /\ NoEndYet
  BY <1>1 DEF Init, Published, TurnsFresh, Silence, SilentOnlyIfAsked, NoEndYet
<1>5. AgentIsRead /\ AtWork /\ OneAtWork /\ DeleteTakes
  BY DEF Init, AgentIsRead, AtWork, OneAtWork, DeleteTakes, Working
<1>6. EndsOnce
  BY <1>1 DEF EndsOnce
<1> QED
  BY <1>3, <1>4, <1>5, <1>6 DEF AgentInv

LEMMA StutterKeeps ==
    ASSUME TypeOK, AgentInv, UNCHANGED vars
    PROVE  TypeOK' /\ AgentInv'
<1>1. /\ UNCHANGED <<agent, stopped, ignored, process, reader, registered>>
      /\ UNCHANGED <<caller, cancelled, clash>>
      /\ UNCHANGED live
  BY DEF vars, rec, engine
<1>2. \A t \in Turns : EndsOf(t)' = EndsOf(t)
  BY <1>1, SameEnds
<1>3. TypeOK'
  BY <1>1 DEF TypeOK
<1>4. (Published /\ HandsTyped /\ TurnsFresh /\ AttachFresh /\ AttachOnce)'
  BY <1>1, <1>2 DEF AgentInv, Published, HandsTyped, TurnsFresh, AttachFresh,
       AttachOnce, At
<1>5. (StopsTaken /\ StopsOnce /\ AgentIsRead /\ Silence)'
  BY <1>1 DEF AgentInv, StopsTaken, StopsOnce, AgentIsRead, Silence, Stopping,
       At
<1>6. (SilentOnlyIfAsked /\ NoEndYet /\ CancelSilences)'
  BY <1>1, <1>2 DEF AgentInv, SilentOnlyIfAsked, NoEndYet, CancelSilences,
       Stopping
<1>7. (StartsAlone /\ AtWork /\ OneAtWork /\ CancelStops /\ DeleteTakes)'
  BY <1>1 DEF AgentInv, StartsAlone, AtWork, OneAtWork, CancelStops,
       DeleteTakes, Working, Busy, At
<1>8. EndsOnce'
  BY <1>1, <1>2 DEF AgentInv, EndsOnce
<1> QED
  BY <1>3, <1>4, <1>5, <1>6, <1>7, <1>8 DEF AgentInv

LEMMA RequestKeeps ==
    ASSUME TypeOK, AgentInv, NEW c \in Callers, Request(c)
    PROVE  TypeOK' /\ AgentInv'
<1>1. CASE Create(c)
  BY <1>1, BeginKeeps DEF Create, Requests
<1>2. CASE Continue(c)
  BY <1>2, BeginKeeps DEF Continue, Requests, Starting
<1>3. CASE Cancel(c)
  BY <1>3, BeginKeeps DEF Cancel, Requests
<1>4. CASE Restart(c)
  BY <1>4, BeginKeeps DEF Restart, Requests
<1>5. CASE Delete(c)
  BY <1>5, DeleteKeeps
<1> QED
  BY <1>1, <1>2, <1>3, <1>4, <1>5 DEF Request

LEMMA CallerStepKeeps ==
    ASSUME TypeOK, AgentInv, NEW c \in Callers, CallerStep(c)
    PROVE  TypeOK' /\ AgentInv'
<1>1. CASE CheckAgent(c) \/ SetStopped(c) \/ Take(c) \/ Kill(c)
  BY <1>1, CheckAgentKeeps, SetStoppedKeeps, TakeKeeps, KillKeeps
<1>2. CASE PublishCancelled(c)
  BY <1>2, PublishCancelledKeeps DEF PublishCancelled, AgentInv, HandsTyped, At
<1>3. CASE Attach(c)
  BY <1>3, AttachKeeps DEF Attach, AgentInv, HandsTyped, At
<1>4. ASSUME NEW t \in Turns, CreateFails(c, t) \/ Launch(c, t) \/ LaunchFails(c, t)
      PROVE  TypeOK' /\ AgentInv'
  BY <1>4, CreateFailsKeeps, LaunchKeeps, LaunchFailsKeeps, ContinueFailsKeeps
<1> QED
  BY <1>1, <1>2, <1>3, <1>4 DEF CallerStep

LEMMA NextKeeps ==
    ASSUME TypeOK, AgentInv, Next
    PROVE  TypeOK' /\ AgentInv'
<1>1. ASSUME NEW t \in Turns, Exit(t) \/ ReaderStep(t)
      PROVE  TypeOK' /\ AgentInv'
  BY <1>1, ExitKeeps, ReapKeeps, DecideKeeps, PublishEndKeeps DEF ReaderStep
<1> QED
  BY <1>1, RequestKeeps, CallerStepKeeps DEF Next

\* Types, and the inductive invariant, hold in every state that requests,
\* processes and readers can reach (backend/pkg/taskflow/local).
THEOREM AgentInvariant == Spec => [](TypeOK /\ AgentInv)
<1>1. Init => TypeOK /\ AgentInv
  BY InitTyped, InitInv
<1>2. TypeOK /\ AgentInv /\ [Next]_vars => (TypeOK /\ AgentInv)'
  BY NextKeeps, StutterKeeps
<1> QED
  BY <1>1, <1>2, PTL DEF Spec

\* The state of a VM's engine keeps its types.
THEOREM TypeCorrect == Spec => []TypeOK
BY AgentInvariant, PTL

\* Unless an engine is started beside another request, there is one process at
\* work, and stopAgent or Attach has a hand on it.
THEOREM OneEngineAtWork == Spec => []OneEngine
<1>1. AgentInv => OneEngine
  BY DEF AgentInv, AtWork, OneAtWork, OneEngine, InHand
<1> QED
  BY <1>1, AgentInvariant, PTL

\* Under the same proviso Cancel and the reader never both publish the end.
THEOREM TurnsEndOnce == Spec => []EndsOnce
<1>1. AgentInv => EndsOnce
  BY DEF AgentInv
<1> QED
  BY <1>1, AgentInvariant, PTL

\* streamOpenCode returns silently only for a process that was stopped, replaced
\* or being read when a Cancel came.
THEOREM SilenceWasAsked == Spec => []SilentOnlyIfAsked
<1>1. AgentInv => SilentOnlyIfAsked
  BY DEF AgentInv
<1> QED
  BY <1>1, AgentInvariant, PTL

\* What makes Continue refuse is a process that is being read and not signalled.
THEOREM AgentStaysRead == Spec => []AgentIsRead
<1>1. AgentInv => AgentIsRead
  BY DEF AgentInv
<1> QED
  BY <1>1, AgentInvariant, PTL

\* Delete leaves no process at work, unless it overlapped a start.
THEOREM DeleteLeavesNothing == Spec => []DeleteStopsEngine
<1>1. AgentInv => DeleteStopsEngine
  <2> SUFFICES ASSUME AgentInv, ~registered, ~clash,
                      \A c \in Callers : ~Busy(c),
                      NEW t \in Turns, Working(t)
               PROVE  FALSE
    BY DEF DeleteStopsEngine
  <2>1. agent = NoTurn
    BY DEF AgentInv, DeleteTakes, Busy, At
  <2>2. agent = t
    BY DEF AgentInv, AtWork, Busy
  <2> QED
    BY <2>1, <2>2, AgentAssumption
<1> QED
  BY <1>1, AgentInvariant, PTL

-----------------------------------------------------------------------------
(* The engine as its users see it.                                         *)

\* What a Cancel has taken was being read when the Cancel came: nobody is told
\* that a turn was cancelled which started later.
CancelAsked ==
    ~clash => \A c \in Callers, t \in Turns :
       caller[c].op = "cancel" /\ Stopping(c) /\ caller[c].turn = t => t \in cancelled

\* Nothing is taken back, and a request is moved by its own steps only.
LEMMA NothingTakenBack ==
    ASSUME TypeOK, Next
    PROVE  clash => clash'
  BY DEF Next, Request, CallerStep, Create, Continue, Cancel, Restart, Delete, Begin,
     CheckAgent, SetStopped, Take, Kill, PublishCancelled, CreateFails, Launch, LaunchFails,
     Attach, Exit, ReaderStep, Reap, Decide, PublishEnd, NoNews

\* A step that puts no request into stopping leaves CancelAsked alone.
LEMMA AskedKept ==
    ASSUME CancelAsked, clash => clash', cancelled \subseteq cancelled',
           \A d \in Callers : Stopping(d)' =>
              /\ Stopping(d)
              /\ caller'[d].op = caller[d].op /\ caller'[d].turn = caller[d].turn
    PROVE  CancelAsked'
  BY DEF CancelAsked

LEMMA AskedStep ==
    ASSUME TypeOK, AgentInv, CancelAsked, Next
    PROVE  CancelAsked'
<1>1. clash => clash' BY NothingTakenBack
<1>2. ASSUME NEW c \in Callers, Request(c) PROVE CancelAsked'
  <2>1. /\ caller'[c].pc \in {"take", "check", "stop"}
        /\ \A d \in Callers : d # c => caller'[d] = caller[d]
    BY <1>2, BecomeEffect DEF Request, Create, Continue, Cancel, Restart, Delete, Begin
  <2>2. cancelled' = cancelled
    BY <1>2 DEF Request, Create, Continue, Cancel, Restart, Delete
  <2>. QED BY <1>1, <2>1, <2>2, AskedKept DEF Stopping
<1>3. ASSUME NEW c \in Callers, Take(c) PROVE CancelAsked'
  <2>1. cancelled' = cancelled /\ clash' = clash BY <1>3 DEF Take, NoNews
  <2>2. CASE agent = NoTurn
    <3>1. /\ caller'[c].pc \in {"launch", "idle"}
          /\ \A d \in Callers : d # c => caller'[d] = caller[d]
      BY <1>3, <2>2, GotoEffect, ReturnEffect DEF Take
    <3>. QED BY <1>1, <2>1, <3>1, AskedKept DEF Stopping
  <2>3. CASE agent # NoTurn
    <3>1. /\ caller'[c].op = caller[c].op /\ caller'[c].turn = agent
          /\ \A d \in Callers : d # c => caller'[d] = caller[d]
      BY <1>3, <2>3, HoldEffect DEF Take
    <3>2. ~clash /\ caller[c].op = "cancel" => agent \in cancelled
      <4>1. agent \in Turns /\ reader[agent] = "reading"
        BY <2>3 DEF TypeOK, AgentInv, AgentIsRead
      <4>2. ~clash /\ caller[c].op = "cancel" => stopped
        BY <1>3 DEF Take, At, AgentInv, CancelStops
      <4>. QED BY <4>1, <4>2 DEF AgentInv, Silence
    <3>. QED BY <2>1, <3>1, <3>2 DEF CancelAsked, Stopping
  <2>. QED BY <2>2, <2>3
<1>4. ASSUME NEW c \in Callers, Kill(c) PROVE CancelAsked'
  <2>1. cancelled' = cancelled BY <1>4 DEF Kill, NoNews
  <2>2. Stopping(c) BY <1>4 DEF Kill, Stopping, At
  <2>3. Stopping(c)' => caller'[c].op = caller[c].op /\ caller'[c].turn = caller[c].turn
    <3>1. CASE caller[c].op \in Starting \/ caller[c].op = "cancel"
      BY <1>4, <3>1, GotoEffect DEF Kill, Starting
    <3>2. CASE ~(caller[c].op \in Starting \/ caller[c].op = "cancel")
      BY <1>4, <3>2, ReturnEffect DEF Kill, Stopping
    <3>. QED BY <3>1, <3>2
  <2>4. \A d \in Callers : d # c => caller'[d] = caller[d]
    BY <1>4, GotoEffect, ReturnEffect DEF Kill
  <2>. QED BY <1>1, <2>1, <2>2, <2>3, <2>4, AskedKept DEF Stopping
<1>5. ASSUME NEW c \in Callers, SetStopped(c) \/ CheckAgent(c) PROVE CancelAsked'
  <2>1. /\ caller'[c].pc \in {"take", "idle"}
        /\ \A d \in Callers : d # c => caller'[d] = caller[d]
    BY <1>5, GotoEffect, ReturnEffect DEF SetStopped, CheckAgent
  <2>2. cancelled \subseteq cancelled' BY <1>5 DEF SetStopped, CheckAgent, NoNews
  <2>. QED BY <1>1, <2>1, <2>2, AskedKept DEF Stopping
<1>6. ASSUME NEW c \in Callers,
             \/ PublishCancelled(c) \/ Attach(c)
             \/ \E t \in Turns : CreateFails(c, t) \/ Launch(c, t) \/ LaunchFails(c, t)
      PROVE  CancelAsked'
  <2>1. /\ caller'[c].pc \in {"attach", "idle"}
        /\ \A d \in Callers : d # c => caller'[d] = caller[d]
    BY <1>6, HoldEffect, ReturnEffect
    DEF PublishCancelled, Attach, CreateFails, Launch, LaunchFails
  <2>2. cancelled' = cancelled
    BY <1>6 DEF PublishCancelled, Attach, CreateFails, Launch, LaunchFails, NoNews
  <2>. QED BY <1>1, <2>1, <2>2, AskedKept DEF Stopping
<1>7. ASSUME NEW t \in Turns, Exit(t) \/ ReaderStep(t) PROVE CancelAsked'
  <2>1. caller' = caller /\ cancelled' = cancelled
    BY <1>7 DEF Exit, ReaderStep, Reap, Decide, PublishEnd, NoNews
  <2>. QED BY <1>1, <2>1, AskedKept DEF Stopping
<1>. QED BY <1>2, <1>3, <1>4, <1>5, <1>6, <1>7 DEF Next, CallerStep

\* Where the reader of a turn ends is what the contract calls over.
LEMMA ReaderEnds ==
    ASSUME TypeOK, NEW t \in Turns, reader' = [reader EXCEPT ![t] = "done"]
    PROVE  {s \in Turns : reader'[s] = "done"} = {s \in Turns : reader[s] = "done"} \cup {t}
  BY DEF TypeOK

LEMMA ReaderGoesOn ==
    ASSUME TypeOK, NEW t \in Turns, reader[t] # "done", NEW pc, pc # "done",
           reader' = [reader EXCEPT ![t] = pc]
    PROVE  {s \in Turns : reader'[s] = "done"} = {s \in Turns : reader[s] = "done"}
  BY DEF TypeOK

LEMMA UntoldEnd ==
    ASSUME NEW t \in Turns, EndsOf(t) = {}
    PROVE  Contract!Untold(t)
  BY DEF EndsOf, Contract!Untold

\* Who an engine is started by is alone, so no other turn is at work.
LEMMA StartedAlone ==
    ASSUME AgentInv, ~clash, NEW c \in Callers, NEW t \in Turns,
           At(c, "launch"), Fresh(t)
    PROVE  /\ registered
           /\ \A s \in Turns : ~Working(s)
           /\ EndsOf(t) = {}
<1>1. Busy(c) /\ caller[c].op \in Starting
  BY DEF At, Busy, AgentInv, HandsTyped
<1>2. registered /\ agent = NoTurn /\ \A d \in Callers : d # c => ~Busy(d)
  BY <1>1 DEF At, AgentInv, StartsAlone
<1>3. \A d \in Callers : caller[d].pc \notin {"kill", "attach"}
  BY <1>2 DEF At, Busy
<1>4. \A s \in Turns : ~Working(s)
  BY <1>2, <1>3, AgentAssumption DEF AgentInv, AtWork
<1>. QED BY <1>2, <1>4 DEF Fresh, AgentInv, TurnsFresh

\* The moves requests make.
LEMMA RequestMove ==
    ASSUME NEW c \in Callers, Request(c)
    PROVE  Contract!Remove \/ UNCHANGED Contract!promised
<1>1. CASE Delete(c)
  BY <1>1 DEF Delete, engine, Contract!Remove
<1>2. CASE Create(c) \/ Continue(c) \/ Cancel(c) \/ Restart(c)
  BY <1>2 DEF Create, Continue, Cancel, Restart, engine, Contract!promised
<1>. QED BY <1>1, <1>2 DEF Request

LEMMA QuietMove ==
    ASSUME NEW c \in Callers, CheckAgent(c) \/ Take(c)
    PROVE  UNCHANGED Contract!promised
  BY DEF CheckAgent, Take, NoNews, engine, Contract!promised

LEMMA SetStoppedMove ==
    ASSUME AgentInv, NEW c \in Callers, SetStopped(c)
    PROVE  Contract!Move
<1> DEFINE S == {t \in Turns : reader[t] = "reading"}
<1>1. \A t \in S : process[t] # "none" /\ t \notin {s \in Turns : reader[s] = "done"}
  BY DEF AgentInv, TurnsFresh
<1>2. Contract!Ask(S) BY <1>1 DEF SetStopped, engine, Contract!Ask
<1>3. S \in SUBSET Turns OBVIOUS
<1>. QED BY <1>2, <1>3 DEF Contract!Move

LEMMA KillMove ==
    ASSUME AgentInv, NEW c \in Callers, Kill(c)
    PROVE  Contract!Move
<1>1. PICK t \in Turns : t = caller[c].turn
  BY DEF Kill, At, AgentInv, HandsTyped
<1>2. process[t] # "none"
  BY <1>1 DEF Kill, At, AgentInv, StopsTaken, Stopping, TurnsFresh
<1>3. Contract!Signal(t) BY <1>1, <1>2 DEF Kill, NoNews, Contract!Signal
<1>. QED BY <1>3 DEF Contract!Move

LEMMA PublishCancelledMove ==
    ASSUME AgentInv, CancelAsked, ~clash, NEW c \in Callers, PublishCancelled(c)
    PROVE  Contract!Move
<1>1. PICK t \in Turns : t = caller[c].turn
  BY DEF PublishCancelled, At, AgentInv, HandsTyped
<1>2. Stopping(c) /\ caller[c].op = "cancel"
  BY DEF PublishCancelled, At, AgentInv, HandsTyped, Stopping
<1>3. t \in ignored /\ t \in cancelled
  BY <1>1, <1>2 DEF PublishCancelled, AgentInv, StopsTaken, CancelAsked
<1>4. Contract!Untold(t)
  BY <1>1, <1>2, UntoldEnd DEF AgentInv, CancelSilences
<1>5. Contract!TellCancelled(t)
  BY <1>1, <1>3, <1>4 DEF PublishCancelled, Publish, NoNews, Contract!TellCancelled,
     Contract!Tell
<1>. QED BY <1>5 DEF Contract!Move

\* A turn that cannot be started.
LEMMA NoStartMove ==
    ASSUME TypeOK, registered, NEW t \in Turns, Fresh(t), EndsOf(t) = {},
           process' = [process EXCEPT ![t] = "failed"], Publish(t, "failed"),
           UNCHANGED <<ignored, reader>>, NoNews
    PROVE  Contract!Move
<1>1. Contract!Untold(t) BY UntoldEnd
<1>2. Contract!NoStart(t)
  BY <1>1 DEF Fresh, Publish, NoNews, Contract!NoStart, Contract!NextTurn, Contract!Tell
<1>. QED BY <1>2 DEF Contract!Move

LEMMA CreateFailsMove ==
    ASSUME TypeOK, AgentInv, ~clash, NEW c \in Callers, NEW t \in Turns, CreateFails(c, t)
    PROVE  Contract!Move
<1>1. registered
  BY DEF CreateFails, At, Busy, Starting, AgentInv, StartsAlone
<1>2. EndsOf(t) = {} BY DEF CreateFails, Fresh, AgentInv, TurnsFresh
<1>. QED BY <1>1, <1>2, NoStartMove DEF CreateFails

LEMMA LaunchFailsMove ==
    ASSUME TypeOK, AgentInv, ~clash, NEW c \in Callers, NEW t \in Turns, LaunchFails(c, t)
    PROVE  Contract!Move \/ UNCHANGED Contract!promised
<1>1. CASE caller[c].op = "create"
  <2>1. registered /\ EndsOf(t) = {} BY <1>1, StartedAlone DEF LaunchFails
  <2>. QED BY <1>1, <2>1, NoStartMove DEF LaunchFails
<1>2. CASE caller[c].op # "create"
  BY <1>2 DEF LaunchFails, NoNews, Contract!promised
<1>. QED BY <1>1, <1>2

LEMMA LaunchMove ==
    ASSUME AgentInv, ~clash, NEW c \in Callers, NEW t \in Turns, Launch(c, t)
    PROVE  Contract!Move
<1>1. registered /\ \A s \in Turns : ~Working(s) BY StartedAlone DEF Launch
<1>2. Contract!Start(t)
  BY <1>1 DEF Launch, Fresh, Working, NoNews, Contract!Start, Contract!NextTurn,
     Contract!AtWork
<1>. QED BY <1>2 DEF Contract!Move

LEMMA AttachMove ==
    ASSUME TypeOK, AgentInv, NEW c \in Callers, Attach(c)
    PROVE  UNCHANGED Contract!promised
<1>1. PICK t \in Turns : t = caller[c].turn
  BY DEF Attach, At, AgentInv, HandsTyped
<1>2. reader[t] # "done" BY <1>1 DEF Attach, AgentInv, AttachFresh
<1>. QED BY <1>1, <1>2, ReaderGoesOn DEF Attach, NoNews, Contract!promised

\* The moves of processes and readers.
LEMMA ExitMove ==
    ASSUME NEW t \in Turns, Exit(t)
    PROVE  Contract!Move
<1>1. Contract!End(t) BY DEF Exit, Exits, NoNews, Contract!End
<1>. QED BY <1>1 DEF Contract!Move

\* A reader that ends without a word was asked to.
LEMMA PassOverMove ==
    ASSUME TypeOK, AgentInv, NEW t \in Turns,
           reader[t] \in {"reading", "decide"}, process[t] \in Exits,
           t \in ignored \cup cancelled,
           reader' = [reader EXCEPT ![t] = "done"],
           UNCHANGED <<ignored, process, live>>, NoNews
    PROVE  Contract!Move
<1>1. Contract!PassOver(t)
  BY ReaderEnds DEF Exits, NoNews, Contract!PassOver, Contract!Ended
<1>. QED BY <1>1 DEF Contract!Move

LEMMA ReapMove ==
    ASSUME TypeOK, AgentInv, NEW t \in Turns, Reap(t)
    PROVE  Contract!Move \/ UNCHANGED Contract!promised
<1>1. CASE stopped
  <2>1. t \in cancelled BY <1>1 DEF Reap, AgentInv, Silence
  <2>. QED BY <1>1, <2>1, PassOverMove DEF Reap
<1>2. CASE ~stopped
  BY <1>2, ReaderGoesOn DEF Reap, NoNews, Contract!promised
<1>. QED BY <1>1, <1>2

LEMMA DecideMove ==
    ASSUME TypeOK, AgentInv, NEW t \in Turns, Decide(t)
    PROVE  Contract!Move \/ UNCHANGED Contract!promised
<1>1. CASE t \in ignored
  <2>1. process[t] \in Exits BY DEF Decide, AgentInv, Published
  <2>. QED BY <1>1, <2>1, PassOverMove DEF Decide
<1>2. CASE t \notin ignored
  BY <1>2, ReaderGoesOn DEF Decide, NoNews, Contract!promised
<1>. QED BY <1>1, <1>2

LEMMA PublishEndMove ==
    ASSUME TypeOK, AgentInv, ~clash, NEW t \in Turns, PublishEnd(t)
    PROVE  Contract!Move
<1>1. process[t] \in Exits BY DEF PublishEnd, AgentInv, Published
<1>2. Contract!Untold(t) BY UntoldEnd DEF PublishEnd, AgentInv, NoEndYet
<1>3. Contract!TellEnd(t)
  BY <1>1, <1>2, ReaderEnds DEF PublishEnd, Exits, Publish, NoNews, Contract!TellEnd,
     Contract!Ended, Contract!Tell
<1>. QED BY <1>3 DEF Contract!Move

\* Every step of the engine is one of the contract, or none.
LEMMA EngineStep ==
    /\ TypeOK /\ AgentInv /\ CancelAsked /\ [Next]_vars
    => Contract!Next \/ UNCHANGED Contract!vars
<1> SUFFICES ASSUME TypeOK, AgentInv, CancelAsked, [Next]_vars
             PROVE  Contract!Next \/ UNCHANGED Contract!vars
  OBVIOUS
<1>1. CASE UNCHANGED vars
  BY <1>1 DEF vars, engine, Contract!vars, Contract!promised
<1>2. CASE Next
  <2>1. clash => clash' BY <1>2, NothingTakenBack
  <2>2. ASSUME ~clash PROVE Contract!Move \/ UNCHANGED Contract!promised
    <3>1. ASSUME NEW c \in Callers, Request(c)
          PROVE  Contract!Move \/ UNCHANGED Contract!promised
      BY <3>1, RequestMove DEF Contract!Move
    <3>2. ASSUME NEW c \in Callers, CallerStep(c)
          PROVE  Contract!Move \/ UNCHANGED Contract!promised
      <4>1. ASSUME NEW t \in Turns, CreateFails(c, t) \/ Launch(c, t) \/ LaunchFails(c, t)
            PROVE  Contract!Move \/ UNCHANGED Contract!promised
        BY <2>2, <4>1, CreateFailsMove, LaunchMove, LaunchFailsMove
      <4>. QED BY <2>2, <3>2, <4>1, QuietMove, SetStoppedMove, KillMove,
                  PublishCancelledMove, AttachMove DEF CallerStep
    <3>3. ASSUME NEW t \in Turns, Exit(t) \/ ReaderStep(t)
          PROVE  Contract!Move \/ UNCHANGED Contract!promised
      BY <2>2, <3>3, ExitMove, ReapMove, DecideMove, PublishEndMove DEF ReaderStep
    <3>. QED BY <1>2, <3>1, <3>2, <3>3 DEF Next
  <2>. QED BY <2>1, <2>2 DEF Contract!Next
<1>. QED BY <1>1, <1>2

LEMMA EngineInit == Init => Contract!Init /\ CancelAsked
<1> SUFFICES ASSUME Init PROVE Contract!Init /\ CancelAsked
  OBVIOUS
<1>1. Contract!Init BY DEF Init, Contract!Init
<1>2. CancelAsked BY DEF Init, IdleCaller, CancelAsked, Stopping
<1>. QED BY <1>1, <1>2

LEMMA AskedStutter ==
    ASSUME CancelAsked, UNCHANGED vars
    PROVE  CancelAsked'
  BY DEF vars, CancelAsked, Stopping

\* Cancel publishes the end of turns only that were being read when it came
\* (local/task.go), unless an engine is started beside another request.
THEOREM CancelledWasAsked == Spec => []CancelAsked
<1>1. TypeOK /\ AgentInv /\ CancelAsked /\ [Next]_vars => CancelAsked'
  BY AskedStep, AskedStutter
<1>. QED BY <1>1, EngineInit, AgentInvariant, PTL DEF Spec

\* However the critical sections of requests and readers interleave, and until
\* an engine is started beside another request, what they do together is what
\* an engine without them would: it starts one turn at a time and none once the
\* VM is deleted, and of each turn it tells the end once and truly, or, if
\* somebody asked for that, not at all.
THEOREM EngineImplementsContract == Spec => ImplementsContract
<1>1. TypeOK /\ AgentInv /\ CancelAsked /\ [Next]_vars
        => [Contract!Next]_(Contract!vars)
  BY EngineStep
<1>. QED BY <1>1, EngineInit, AgentInvariant, CancelledWasAsked, PTL
     DEF Spec, ImplementsContract, Contract!Spec
=============================================================================
