------------------------ MODULE TaskLifecycleProofs -------------------------
(***************************************************************************)
(* Proofs about TaskLifecycle, for any number of callbacks, attempts and   *)
(* faults, on a local backend and on the cloud's.                          *)
(*                                                                         *)
(* LifecycleInv is inductive.  It has three layers: what holds whatever    *)
(* happens, what holds until a command fails, and what holds until two     *)
(* transitions of the task overlap.                                        *)
(***************************************************************************)
EXTENDS TaskLifecycle, TLAPS

-----------------------------------------------------------------------------
(* The inductive invariant.                                                *)

Starting(c) == callback[c].pc \in {"set", "check", "fetch", "update", "start", "drop"}
Failing(c) == callback[c].pc \in {"fail", "fail set", "fail update"}
FromReady(c) == callback[c].op = "ready"

\* Whatever happens.
Phases ==
    /\ create = "idle" <=> status = "none"
    /\ state # "none" => status # "none"
    /\ answered => status # "none"
    /\ starts > 0 => state # "none"
    /\ named => create \in {"store", "pending", "done"}

StopKnows ==
    /\ stop.pc = "idle" => ~stop.named
    /\ stop.named => named
    /\ stop.pc # "idle" => status # "none" /\ (overtaken <=> ~stop.named)
    /\ stop.pc \in {"delete", "finish"} /\ ~stop.open => status # "pending"
    /\ stop.pc = "drop" => status # "pending"

CallbackKnows ==
    \A c \in Callbacks :
       /\ Transiting(c) => state # "none"
       /\ At(c, "get") \/ Starting(c) => FromReady(c)
       /\ FromReady(c) => callback[c].seen # "finished"
       /\ Failing(c) /\ FromReady(c) => state # "none"

\* As long as nothing has failed, Redis has the request when it has the task,
\* until the task has been taken over.
RequestIsThere ==
    faults = 0 =>
       /\ state # "none" <=> create = "done"
       /\ create \in {"pending", "done"} => request \/ status # "pending"

Taken ==
    faults = 0 => \A c \in Callbacks :
       callback[c].pc \in {"start", "drop"} \/ (Failing(c) /\ FromReady(c))
          => status # "pending"

BeforeStop ==
    faults = 0 /\ stop.pc = "idle" =>
       /\ create \notin {"idle", "create"} => env
       /\ state = "none" => status \in {"none", "pending"}

StopDeleted ==
    faults = 0 /\ stop.named /\ stop.pc \in {"finish", "drop", "commit", "done"}
       => ~env /\ ~engine

\* As long as nothing has raced either, one callback at a time is past the
\* hook's look at the row, and a task fails with nobody else on the way.
Calm == faults = 0 /\ ~raced
Hooked(c) == callback[c].pc \in {"fetch", "update", "start", "drop"}
WritesError(c) == callback[c].pc \in {"fail set", "fail update"}

OneHooked == Calm => \A c, d \in Callbacks : Hooked(c) /\ Hooked(d) => c = d

FailsAlone ==
    Calm => \A c, d \in Callbacks : WritesError(c) /\ Transiting(d) => c = d

StartSeen ==
    Calm => \A c \in Callbacks :
       /\ callback[c].pc \in {"start", "drop"} => status = "processing"
       /\ Starting(c) /\ ~At(c, "set") => state = "processing"
       /\ At(c, "fail update") => state = "error"

RequestIsUsed ==
    Calm /\ starts > 0 =>
       /\ \A c \in Callbacks : callback[c].pc \notin {"update", "start"}
       /\ request => \E c \in Callbacks : At(c, "drop")

\* Redis is ahead of the database by what a callback is about to write; what
\* Stop finishes is left behind in Redis.
Ahead(c) ==
    \/ callback[c].pc \in {"check", "fetch", "update"}
    \/ callback[c].pc \in {"fail", "fail set"} /\ FromReady(c)

Agreement ==
    Calm =>
       \/ state = status
       \/ state = "none" /\ status = "pending"
       \/ status = "finished" /\ stop.pc # "idle"
       \/ state = "processing" /\ \E c \in Callbacks : Ahead(c)
       \/ state = "error" /\ \E c \in Callbacks : At(c, "fail update")

NothingFails ==
    Calm /\ stop.pc = "idle" /\ ~condition =>
       /\ status \in {"none", "pending", "processing"}
       /\ \A c \in Callbacks :
             /\ FromReady(c) /\ ~callback[c].failed /\ ~Failing(c)
             /\ callback[c].pc \in {"fetch", "update"} => status = "pending"

Always == Phases /\ StopKnows /\ CallbackKnows
UntilFault == RequestIsThere /\ Taken /\ BeforeStop /\ StopDeleted /\ SuccessIsTaken
UntilRace ==
    /\ OneHooked /\ FailsAlone /\ StartSeen /\ RequestIsUsed
    /\ Agreement /\ NothingFails /\ StartedOnce

LifecycleInv == Always /\ UntilFault /\ UntilRace

-----------------------------------------------------------------------------
(* What the helpers of the model do.                                       *)

LEMMA BecomeEffect ==
    ASSUME TypeOK, NEW b \in Callbacks, NEW s, Become(b, s)
    PROVE  callback'[b] = s /\ \A c \in Callbacks : c # b => callback'[c] = callback[c]
BY DEF TypeOK, Become

LEMMA HoldEffect ==
    ASSUME TypeOK, NEW b \in Callbacks, NEW pc, NEW failed, Hold(b, pc, failed)
    PROVE  /\ callback'[b].pc = pc
           /\ callback'[b].op = callback[b].op
           /\ callback'[b].seen = callback[b].seen
           /\ callback'[b].failed = failed
           /\ \A c \in Callbacks : c # b => callback'[c] = callback[c]
BY BecomeEffect DEF Hold

LEMMA GotoEffect ==
    ASSUME TypeOK, NEW b \in Callbacks, NEW pc, Goto(b, pc)
    PROVE  /\ callback'[b].pc = pc
           /\ callback'[b].op = callback[b].op
           /\ callback'[b].seen = callback[b].seen
           /\ callback'[b].failed = callback[b].failed
           /\ \A c \in Callbacks : c # b => callback'[c] = callback[c]
BY HoldEffect DEF Goto

LEMMA ReplyEffect ==
    ASSUME TypeOK, NEW b \in Callbacks, NEW ok \in BOOLEAN, Reply(b, ok)
    PROVE  /\ callback'[b].pc = "idle"
           /\ callback'[b].op = "ready"
           /\ callback'[b].seen = "none"
           /\ callback'[b].failed = FALSE
           /\ \A c \in Callbacks : c # b => callback'[c] = callback[c]
           /\ answered' = (answered \/ (ok /\ FromReady(b)))
BY BecomeEffect DEF Reply, IdleCallback, FromReady

\* Typing, of what a callback becomes.
LEMMA HoldTyped ==
    ASSUME TypeOK, NEW b \in Callbacks, NEW failed \in BOOLEAN,
           NEW pc \in {"get", "set", "check", "fetch", "update", "start", "drop",
                       "fail", "fail set", "fail update"},
           Hold(b, pc, failed)
    PROVE  callback' \in [Callbacks -> CallbackStates]
BY DEF TypeOK, Hold, Become, CallbackStates

LEMMA GotoTyped ==
    ASSUME TypeOK, NEW b \in Callbacks,
           NEW pc \in {"get", "set", "check", "fetch", "update", "start", "drop",
                       "fail", "fail set", "fail update"},
           Goto(b, pc)
    PROVE  callback' \in [Callbacks -> CallbackStates]
<1>1. callback[b].failed \in BOOLEAN
  BY DEF TypeOK, CallbackStates
<1> QED
  BY <1>1, HoldTyped DEF Goto

LEMMA ReplyTyped ==
    ASSUME TypeOK, NEW b \in Callbacks, NEW ok \in BOOLEAN, Reply(b, ok)
    PROVE  /\ callback' \in [Callbacks -> CallbackStates]
           /\ answered' \in BOOLEAN
           /\ attempts' \in 0 .. Attempts
<1>1. callback' \in [Callbacks -> CallbackStates]
  BY DEF TypeOK, Reply, Become, IdleCallback, CallbackStates, States
<1>2. answered' \in BOOLEAN
  BY DEF Reply
<1>3. attempts' \in 0 .. Attempts
  BY LifecycleAssumption DEF TypeOK, Reply
<1> QED
  BY <1>1, <1>2, <1>3

\* A fault ends the second and the third layer.
LEMMA FaultEnds ==
    ASSUME faults' > 0
    PROVE  UntilFault' /\ UntilRace'
<1>1. UntilFault'
  BY DEF UntilFault, RequestIsThere, Taken, BeforeStop, StopDeleted, SuccessIsTaken
<1>2. ~Calm'
  BY SMT DEF Calm
<1>3. (OneHooked /\ FailsAlone /\ StartSeen /\ RequestIsUsed)'
  BY <1>2 DEF OneHooked, FailsAlone, StartSeen, RequestIsUsed
<1>4. (Agreement /\ NothingFails /\ StartedOnce)'
  BY <1>2 DEF Agreement, NothingFails, StartedOnce, Calm
<1> QED
  BY <1>1, <1>3, <1>4 DEF UntilRace

LEMMA FaultCounts ==
    ASSUME TypeOK, Fault
    PROVE  faults' \in 0 .. MaxFaults /\ faults' > 0
BY LifecycleAssumption DEF TypeOK, Fault

-----------------------------------------------------------------------------
(* Each action keeps the invariant.                                        *)

LEMMA PrepareCreateKeeps ==
    ASSUME TypeOK, LifecycleInv,
           PrepareCreate
    PROVE  TypeOK' /\ LifecycleInv'
<1>1. /\ create = "idle"
      /\ create' = "create"
      /\ status' = "pending"
  BY DEF PrepareCreate, CreateStep, NoCallback, stores, host, Transitions, TypeOK, States
<1>2. /\ UNCHANGED <<mode, state, request, named, env, engine, stop, attempts, callback,
                     faults, starts, answered, raced, condition, overtaken>>
  BY DEF PrepareCreate, CreateStep, NoCallback, stores, host
<1>3. TypeOK'
  BY <1>1, <1>2, LifecycleAssumption DEF TypeOK, States
<1>4. Always'
  <2>1. Phases'
    BY <1>1, <1>2 DEF LifecycleInv, Always, Phases
  <2>2. StopKnows'
    BY <1>1, <1>2 DEF LifecycleInv, Always, StopKnows, Phases
  <2>3. CallbackKnows'
    BY <1>2 DEF LifecycleInv, Always, CallbackKnows, Transiting, At, Starting, Failing,
       FromReady
  <2> QED
    BY <2>1, <2>2, <2>3 DEF Always
<1>5. UntilFault'
  <2>1. RequestIsThere'
    BY <1>1, <1>2 DEF LifecycleInv, UntilFault, RequestIsThere
  <2>2. Taken'
    BY <1>1, <1>2 DEF LifecycleInv, Always, UntilFault, Taken, RequestIsThere,
       CallbackKnows, Transiting, Failing, FromReady
  <2>3. BeforeStop'
    BY <1>1 DEF BeforeStop
  <2>4. StopDeleted'
    BY <1>2 DEF LifecycleInv, UntilFault, StopDeleted
  <2>5. SuccessIsTaken'
    BY <1>1, <1>2 DEF LifecycleInv, Always, SuccessIsTaken, Phases
  <2> QED
    BY <2>1, <2>2, <2>3, <2>4, <2>5 DEF UntilFault
<1>6. UntilRace'
  <2>1. OneHooked'
    BY <1>2 DEF LifecycleInv, UntilRace, OneHooked, Hooked, Calm
  <2>2. FailsAlone'
    BY <1>2 DEF LifecycleInv, UntilRace, FailsAlone, WritesError, Transiting, Calm
  <2>3. StartSeen'
    BY <1>1, <1>2 DEF LifecycleInv, Always, StartSeen, CallbackKnows, Phases, Starting,
       Transiting, At
  <2>4. RequestIsUsed'
    BY <1>2 DEF LifecycleInv, UntilRace, RequestIsUsed, Calm, At
  <2>5. Agreement'
    BY <1>1, <1>2 DEF LifecycleInv, Always, Phases, Agreement
  <2>6. NothingFails'
    BY <1>1, <1>2 DEF LifecycleInv, UntilRace, NothingFails, Failing, Calm, FromReady
  <2>7. StartedOnce'
    BY <1>2 DEF LifecycleInv, UntilRace, StartedOnce
  <2> QED
    BY <2>1, <2>2, <2>3, <2>4, <2>5, <2>6, <2>7 DEF UntilRace
<1> QED
  BY <1>3, <1>4, <1>5, <1>6 DEF LifecycleInv

LEMMA CreateEnvironmentKeeps ==
    ASSUME TypeOK, LifecycleInv,
           CreateEnvironment
    PROVE  TypeOK' /\ LifecycleInv'
<1>1. /\ create = "create"
      /\ create' = "complete"
      /\ env' = TRUE
      /\ attempts' \in {0, Attempts}
  BY DEF CreateEnvironment, CreateStep, NoCallback, stores, host, Transitions, TypeOK,
     States
<1>2. /\ UNCHANGED <<mode, status, state, request, named, engine, stop, callback, faults,
                     starts, answered, raced, condition, overtaken>>
  BY DEF CreateEnvironment, CreateStep, NoCallback, stores, host
<1>3. TypeOK'
  BY <1>1, <1>2, LifecycleAssumption DEF TypeOK, States
<1>4. Always'
  <2>1. Phases'
    BY <1>1, <1>2 DEF LifecycleInv, Always, Phases
  <2>2. StopKnows'
    BY <1>2 DEF LifecycleInv, Always, StopKnows
  <2>3. CallbackKnows'
    BY <1>2 DEF LifecycleInv, Always, CallbackKnows, Transiting, At, Starting, Failing,
       FromReady
  <2> QED
    BY <2>1, <2>2, <2>3 DEF Always
<1>5. UntilFault'
  <2>1. RequestIsThere'
    BY <1>1, <1>2 DEF LifecycleInv, UntilFault, RequestIsThere
  <2>2. Taken'
    BY <1>2 DEF LifecycleInv, UntilFault, Taken, Failing, FromReady
  <2>3. BeforeStop'
    BY <1>1, <1>2 DEF LifecycleInv, UntilFault, BeforeStop
  <2>4. StopDeleted'
    BY <1>1, <1>2 DEF LifecycleInv, Always, StopDeleted, StopKnows, Phases
  <2>5. SuccessIsTaken'
    BY <1>2 DEF LifecycleInv, UntilFault, SuccessIsTaken
  <2> QED
    BY <2>1, <2>2, <2>3, <2>4, <2>5 DEF UntilFault
<1>6. UntilRace'
  <2>1. OneHooked'
    BY <1>2 DEF LifecycleInv, UntilRace, OneHooked, Hooked, Calm
  <2>2. FailsAlone'
    BY <1>2 DEF LifecycleInv, UntilRace, FailsAlone, WritesError, Transiting, Calm
  <2>3. StartSeen'
    BY <1>2 DEF LifecycleInv, UntilRace, StartSeen, Starting, Calm, At
  <2>4. RequestIsUsed'
    BY <1>2 DEF LifecycleInv, UntilRace, RequestIsUsed, Calm, At
  <2>5. Agreement'
    BY <1>2 DEF LifecycleInv, UntilRace, Agreement, Ahead, Calm, At, FromReady
  <2>6. NothingFails'
    BY <1>2 DEF LifecycleInv, UntilRace, NothingFails, Failing, Calm, FromReady
  <2>7. StartedOnce'
    BY <1>2 DEF LifecycleInv, UntilRace, StartedOnce
  <2> QED
    BY <2>1, <2>2, <2>3, <2>4, <2>5, <2>6, <2>7 DEF UntilRace
<1> QED
  BY <1>3, <1>4, <1>5, <1>6 DEF LifecycleInv

LEMMA CompleteCreateKeeps ==
    ASSUME TypeOK, LifecycleInv,
           CompleteCreate
    PROVE  TypeOK' /\ LifecycleInv'
<1>1. /\ create = "complete"
      /\ create' = "store"
      /\ named' \in BOOLEAN
  BY DEF CompleteCreate, CreateStep, NoCallback, stores, host, Transitions, TypeOK, States
<1>2. /\ UNCHANGED <<mode, status, state, request, env, engine, stop, attempts, callback,
                     faults, starts, answered, raced, condition, overtaken>>
  BY DEF CompleteCreate, CreateStep, NoCallback, stores, host
<1>3. TypeOK'
  BY <1>1, <1>2, LifecycleAssumption DEF TypeOK, States
<1>4. Always'
  <2>1. Phases'
    BY <1>1, <1>2 DEF LifecycleInv, Always, Phases
  <2>2. StopKnows'
    BY <1>1, <1>2 DEF LifecycleInv, Always, StopKnows, Phases
  <2>3. CallbackKnows'
    BY <1>2 DEF LifecycleInv, Always, CallbackKnows, Transiting, At, Starting, Failing,
       FromReady
  <2> QED
    BY <2>1, <2>2, <2>3 DEF Always
<1>5. UntilFault'
  <2>1. RequestIsThere'
    BY <1>1, <1>2 DEF LifecycleInv, UntilFault, RequestIsThere
  <2>2. Taken'
    BY <1>2 DEF LifecycleInv, UntilFault, Taken, Failing, FromReady
  <2>3. BeforeStop'
    BY <1>1, <1>2 DEF LifecycleInv, UntilFault, BeforeStop
  <2>4. StopDeleted'
    BY <1>2 DEF LifecycleInv, UntilFault, StopDeleted
  <2>5. SuccessIsTaken'
    BY <1>2 DEF LifecycleInv, UntilFault, SuccessIsTaken
  <2> QED
    BY <2>1, <2>2, <2>3, <2>4, <2>5 DEF UntilFault
<1>6. UntilRace'
  <2>1. OneHooked'
    BY <1>2 DEF LifecycleInv, UntilRace, OneHooked, Hooked, Calm
  <2>2. FailsAlone'
    BY <1>2 DEF LifecycleInv, UntilRace, FailsAlone, WritesError, Transiting, Calm
  <2>3. StartSeen'
    BY <1>2 DEF LifecycleInv, UntilRace, StartSeen, Starting, Calm, At
  <2>4. RequestIsUsed'
    BY <1>2 DEF LifecycleInv, UntilRace, RequestIsUsed, Calm, At
  <2>5. Agreement'
    BY <1>2 DEF LifecycleInv, UntilRace, Agreement, Ahead, Calm, At, FromReady
  <2>6. NothingFails'
    BY <1>2 DEF LifecycleInv, UntilRace, NothingFails, Failing, Calm, FromReady
  <2>7. StartedOnce'
    BY <1>2 DEF LifecycleInv, UntilRace, StartedOnce
  <2> QED
    BY <2>1, <2>2, <2>3, <2>4, <2>5, <2>6, <2>7 DEF UntilRace
<1> QED
  BY <1>3, <1>4, <1>5, <1>6 DEF LifecycleInv

LEMMA StoreRequestKeeps ==
    ASSUME TypeOK, LifecycleInv,
           StoreRequest
    PROVE  TypeOK' /\ LifecycleInv'
<1>1. /\ create = "store"
      /\ create' = "pending"
      /\ request' = TRUE
  BY DEF StoreRequest, CreateStep, NoCallback, stores, host, Transitions, TypeOK, States
<1>2. /\ UNCHANGED <<mode, status, state, named, env, engine, stop, attempts, callback, faults,
                     starts, answered, raced, condition, overtaken>>
  BY DEF StoreRequest, CreateStep, NoCallback, stores, host
<1>3. TypeOK'
  BY <1>1, <1>2, LifecycleAssumption DEF TypeOK, States
<1>4. Always'
  <2>1. Phases'
    BY <1>1, <1>2 DEF LifecycleInv, Always, Phases
  <2>2. StopKnows'
    BY <1>2 DEF LifecycleInv, Always, StopKnows
  <2>3. CallbackKnows'
    BY <1>2 DEF LifecycleInv, Always, CallbackKnows, Transiting, At, Starting, Failing,
       FromReady
  <2> QED
    BY <2>1, <2>2, <2>3 DEF Always
<1>5. UntilFault'
  <2>1. RequestIsThere'
    BY <1>1, <1>2 DEF LifecycleInv, UntilFault, RequestIsThere
  <2>2. Taken'
    BY <1>2 DEF LifecycleInv, UntilFault, Taken, Failing, FromReady
  <2>3. BeforeStop'
    BY <1>1, <1>2 DEF LifecycleInv, UntilFault, BeforeStop
  <2>4. StopDeleted'
    BY <1>2 DEF LifecycleInv, UntilFault, StopDeleted
  <2>5. SuccessIsTaken'
    BY <1>2 DEF LifecycleInv, UntilFault, SuccessIsTaken
  <2> QED
    BY <2>1, <2>2, <2>3, <2>4, <2>5 DEF UntilFault
<1>6. UntilRace'
  <2>1. OneHooked'
    BY <1>2 DEF LifecycleInv, UntilRace, OneHooked, Hooked, Calm
  <2>2. FailsAlone'
    BY <1>2 DEF LifecycleInv, UntilRace, FailsAlone, WritesError, Transiting, Calm
  <2>3. StartSeen'
    BY <1>2 DEF LifecycleInv, UntilRace, StartSeen, Starting, Calm, At
  <2>4. RequestIsUsed'
    BY <1>1, <1>2 DEF LifecycleInv, Always, UntilFault, RequestIsUsed, Phases,
       RequestIsThere, Calm
  <2>5. Agreement'
    BY <1>2 DEF LifecycleInv, UntilRace, Agreement, Ahead, Calm, At, FromReady
  <2>6. NothingFails'
    BY <1>2 DEF LifecycleInv, UntilRace, NothingFails, Failing, Calm, FromReady
  <2>7. StartedOnce'
    BY <1>2 DEF LifecycleInv, UntilRace, StartedOnce
  <2> QED
    BY <2>1, <2>2, <2>3, <2>4, <2>5, <2>6, <2>7 DEF UntilRace
<1> QED
  BY <1>3, <1>4, <1>5, <1>6 DEF LifecycleInv

LEMMA MakePendingKeeps ==
    ASSUME TypeOK, LifecycleInv,
           MakePending
    PROVE  TypeOK' /\ LifecycleInv'
<1>1. /\ create = "pending"
      /\ create' = "done"
      /\ state = "none" => state' = "pending"
      /\ state # "none" => state' = state
  BY DEF MakePending, CreateStep, NoCallback, stores, host, Transitions, TypeOK, States
<1>2. /\ UNCHANGED <<mode, status, request, named, env, engine, stop, attempts, callback,
                     faults, starts, answered, raced, condition, overtaken>>
  BY DEF MakePending, CreateStep, NoCallback, stores, host
<1>3. TypeOK'
  BY <1>1, <1>2, LifecycleAssumption DEF TypeOK, States
<1>4. Always'
  <2>1. Phases'
    BY <1>1, <1>2 DEF LifecycleInv, Always, Phases
  <2>2. StopKnows'
    BY <1>2 DEF LifecycleInv, Always, StopKnows
  <2>3. CallbackKnows'
    BY <1>1, <1>2 DEF LifecycleInv, Always, CallbackKnows, At, Starting, FromReady
  <2> QED
    BY <2>1, <2>2, <2>3 DEF Always
<1>5. UntilFault'
  <2>1. RequestIsThere'
    BY <1>1, <1>2 DEF LifecycleInv, UntilFault, RequestIsThere
  <2>2. Taken'
    BY <1>2 DEF LifecycleInv, UntilFault, Taken, Failing, FromReady
  <2>3. BeforeStop'
    BY <1>1, <1>2 DEF LifecycleInv, UntilFault, BeforeStop
  <2>4. StopDeleted'
    BY <1>2 DEF LifecycleInv, UntilFault, StopDeleted
  <2>5. SuccessIsTaken'
    BY <1>2 DEF LifecycleInv, UntilFault, SuccessIsTaken
  <2> QED
    BY <2>1, <2>2, <2>3, <2>4, <2>5 DEF UntilFault
<1>6. UntilRace'
  <2>1. OneHooked'
    BY <1>2 DEF LifecycleInv, UntilRace, OneHooked, Hooked, Calm
  <2>2. FailsAlone'
    BY <1>2 DEF LifecycleInv, UntilRace, FailsAlone, WritesError, Transiting, Calm
  <2>3. StartSeen'
    BY <1>1, <1>2 DEF LifecycleInv, UntilRace, StartSeen, Starting, Calm, At
  <2>4. RequestIsUsed'
    BY <1>2 DEF LifecycleInv, UntilRace, RequestIsUsed, Calm, At
  <2>5. Agreement'
    BY <1>1, <1>2 DEF LifecycleInv, Always, UntilFault, UntilRace, Agreement,
       RequestIsThere, Phases, Calm
  <2>6. NothingFails'
    BY <1>2 DEF LifecycleInv, UntilRace, NothingFails, Failing, Calm, FromReady
  <2>7. StartedOnce'
    BY <1>2 DEF LifecycleInv, UntilRace, StartedOnce
  <2> QED
    BY <2>1, <2>2, <2>3, <2>4, <2>5, <2>6, <2>7 DEF UntilRace
<1> QED
  BY <1>3, <1>4, <1>5, <1>6 DEF LifecycleInv

LEMMA CreateFailsKeeps ==
    ASSUME TypeOK, LifecycleInv,
           CreateFails
    PROVE  TypeOK' /\ LifecycleInv'
<1>1. /\ create \in {"create", "complete", "store", "pending"}
      /\ create' = (IF create = "store" THEN "pending" ELSE "done")
      /\ env' \in BOOLEAN
      /\ faults' \in 0 .. MaxFaults
  BY FaultCounts DEF CreateFails, TypeOK
<1>2. /\ UNCHANGED <<mode, status, state, request, named, engine, stop, attempts, callback,
                     starts, answered, raced, condition, overtaken>>
  BY DEF CreateFails, NoCallback, stores
<1>3. TypeOK'
  BY <1>1, <1>2 DEF TypeOK
<1>4. Always'
  <2>1. Phases'
    BY <1>1, <1>2 DEF LifecycleInv, Always, Phases
  <2>2. StopKnows'
    BY <1>2 DEF LifecycleInv, Always, StopKnows
  <2>3. CallbackKnows'
    BY <1>2 DEF LifecycleInv, Always, CallbackKnows, Transiting, At, Starting, Failing,
       FromReady
  <2> QED
    BY <2>1, <2>2, <2>3 DEF Always
<1>5. UntilFault' /\ UntilRace'
  BY FaultCounts, FaultEnds DEF CreateFails
<1> QED
  BY <1>3, <1>4, <1>5 DEF LifecycleInv

LEMMA RequestExpiresKeeps ==
    ASSUME TypeOK, LifecycleInv,
           RequestExpires
    PROVE  TypeOK' /\ LifecycleInv'
<1>1. /\ request' = FALSE
      /\ request' \in BOOLEAN
      /\ faults' \in 0 .. MaxFaults
  BY FaultCounts DEF RequestExpires
<1>2. /\ UNCHANGED <<mode, status, state, named, env, engine, create, stop, attempts, callback,
                     starts, answered, raced, condition, overtaken>>
  BY DEF RequestExpires, NoCallback, host
<1>3. TypeOK'
  BY <1>1, <1>2 DEF TypeOK
<1>4. Always'
  <2>1. Phases'
    BY <1>2 DEF LifecycleInv, Always, Phases
  <2>2. StopKnows'
    BY <1>2 DEF LifecycleInv, Always, StopKnows
  <2>3. CallbackKnows'
    BY <1>2 DEF LifecycleInv, Always, CallbackKnows, Transiting, At, Starting, Failing,
       FromReady
  <2> QED
    BY <2>1, <2>2, <2>3 DEF Always
<1>5. UntilFault' /\ UntilRace'
  BY FaultCounts, FaultEnds DEF RequestExpires
<1> QED
  BY <1>3, <1>4, <1>5 DEF LifecycleInv

LEMMA ReadyKeeps ==
    ASSUME TypeOK, LifecycleInv,
           NEW b \in Callbacks,
           Ready(b)
    PROVE  TypeOK' /\ LifecycleInv'
<1>1. /\ At(b, "idle")
      /\ \A c \in Callbacks : c # b => callback'[c] = callback[c]
      /\ \/ /\ status \in {"processing", "finished"}
            /\ callback'[b].pc = "idle" /\ callback'[b].op = "ready"
               /\ callback'[b].seen = "none"
            /\ callback'[b].failed = FALSE
         \/ /\ status \notin {"processing", "finished"}
            /\ callback'[b].pc = "get" /\ callback'[b].op = "ready"
               /\ callback'[b].seen = status
            /\ callback'[b].failed = FALSE
  <2>1. CASE status \in {"processing", "finished"}
    BY <2>1, ReplyEffect DEF Ready, MayCall
  <2>2. CASE status \notin {"processing", "finished"}
    <3>1. Become(b, [pc |-> "get", op |-> "ready", seen |-> status, failed |-> FALSE])
      BY <2>2 DEF Ready
    <3> QED
      BY <2>2, <3>1, BecomeEffect DEF Ready, MayCall
  <2> QED
    BY <2>1, <2>2
<1>2. /\ UNCHANGED <<mode, status, state, request, named, env, engine, create, stop, faults,
                     starts, raced, condition, overtaken>>
  BY DEF Ready, stores, host
<1>3. /\ answered' => answered \/ status \in {"processing", "finished"}
  BY DEF Ready, Reply, TypeOK
<1>4. TypeOK'
  <2>1. CASE status \in {"processing", "finished"}
    BY <1>2, <2>1, ReplyTyped, ZenonT(30) DEF TypeOK, Ready
  <2>2. CASE status \notin {"processing", "finished"}
    <3>1. callback' \in [Callbacks -> CallbackStates]
      <4>1. [pc |-> "get", op |-> "ready", seen |-> status, failed |-> FALSE] \in CallbackStates
        BY DEF TypeOK, CallbackStates
      <4> QED
        BY <2>2, <4>1 DEF TypeOK, Ready, Become
    <3>2. answered' \in BOOLEAN
      BY <2>2 DEF TypeOK, Ready
    <3>3. attempts' \in 0 .. Attempts
      BY <2>2, LifecycleAssumption DEF TypeOK, Ready, MayCall
    <3> QED
      BY <1>2, <3>1, <3>2, <3>3 DEF TypeOK
  <2> QED
    BY <2>1, <2>2
<1>5. Always'
  <2>1. Phases'
    BY <1>2, <1>3 DEF LifecycleInv, Always, Phases
  <2>2. StopKnows'
    BY <1>2 DEF LifecycleInv, Always, StopKnows
  <2>3. CallbackKnows'
    BY <1>1, <1>2 DEF LifecycleInv, Always, CallbackKnows, Transiting, At, Starting,
       Failing, FromReady
  <2> QED
    BY <2>1, <2>2, <2>3 DEF Always
<1>6. UntilFault'
  <2>1. RequestIsThere'
    BY <1>2 DEF LifecycleInv, UntilFault, RequestIsThere
  <2>2. Taken'
    BY <1>1, <1>2 DEF LifecycleInv, UntilFault, Taken, Failing, FromReady
  <2>3. BeforeStop'
    BY <1>2 DEF LifecycleInv, UntilFault, BeforeStop
  <2>4. StopDeleted'
    BY <1>2 DEF LifecycleInv, UntilFault, StopDeleted
  <2>5. SuccessIsTaken'
    BY <1>2, <1>3 DEF LifecycleInv, UntilFault, SuccessIsTaken
  <2> QED
    BY <2>1, <2>2, <2>3, <2>4, <2>5 DEF UntilFault
<1>7. UntilRace'
  <2>1. OneHooked'
    BY <1>1, <1>2 DEF LifecycleInv, UntilRace, OneHooked, Hooked, Calm
  <2>2. FailsAlone'
    BY <1>1, <1>2 DEF LifecycleInv, UntilRace, FailsAlone, WritesError, Transiting, Calm
  <2>3. StartSeen'
    BY <1>1, <1>2 DEF LifecycleInv, UntilRace, StartSeen, Starting, Calm, At
  <2>4. RequestIsUsed'
    BY <1>1, <1>2 DEF LifecycleInv, UntilRace, RequestIsUsed, Calm, At
  <2>5. Agreement'
    BY <1>1, <1>2 DEF LifecycleInv, UntilRace, Agreement, Ahead, Calm, At, FromReady,
       TypeOK
  <2>6. NothingFails'
    BY <1>1, <1>2 DEF LifecycleInv, UntilRace, NothingFails, Failing, Calm, FromReady
  <2>7. StartedOnce'
    BY <1>2 DEF LifecycleInv, UntilRace, StartedOnce
  <2> QED
    BY <2>1, <2>2, <2>3, <2>4, <2>5, <2>6, <2>7 DEF UntilRace
<1> QED
  BY <1>4, <1>5, <1>6, <1>7 DEF LifecycleInv

LEMMA ConditionKeeps ==
    ASSUME TypeOK, LifecycleInv,
           NEW b \in Callbacks,
           Condition(b)
    PROVE  TypeOK' /\ LifecycleInv'
<1>1. /\ At(b, "idle")
      /\ named
      /\ callback'[b].pc = "fail"
      /\ callback'[b].op = "condition"
      /\ \A c \in Callbacks : c # b => callback'[c] = callback[c]
      /\ condition' = TRUE
  BY BecomeEffect DEF Condition
<1>2. /\ UNCHANGED <<mode, status, state, request, named, env, engine, create, stop, attempts,
                     faults, starts, answered, raced, overtaken>>
  BY DEF Condition, stores, host
<1>3. TypeOK'
  <2>1. callback' \in [Callbacks -> CallbackStates]
    BY DEF TypeOK, Condition, Become, CallbackStates
  <2> QED
    BY <1>1, <1>2, <2>1 DEF TypeOK
<1>4. Always'
  <2>1. Phases'
    BY <1>2 DEF LifecycleInv, Always, Phases
  <2>2. StopKnows'
    BY <1>2 DEF LifecycleInv, Always, StopKnows
  <2>3. CallbackKnows'
    BY <1>1, <1>2 DEF LifecycleInv, Always, CallbackKnows, Transiting, At, Starting,
       Failing, FromReady
  <2> QED
    BY <2>1, <2>2, <2>3 DEF Always
<1>5. UntilFault'
  <2>1. RequestIsThere'
    BY <1>2 DEF LifecycleInv, UntilFault, RequestIsThere
  <2>2. Taken'
    BY <1>1, <1>2 DEF LifecycleInv, UntilFault, Taken, Failing, FromReady
  <2>3. BeforeStop'
    BY <1>2 DEF LifecycleInv, UntilFault, BeforeStop
  <2>4. StopDeleted'
    BY <1>2 DEF LifecycleInv, UntilFault, StopDeleted
  <2>5. SuccessIsTaken'
    BY <1>2 DEF LifecycleInv, UntilFault, SuccessIsTaken
  <2> QED
    BY <2>1, <2>2, <2>3, <2>4, <2>5 DEF UntilFault
<1>6. UntilRace'
  <2>1. OneHooked'
    BY <1>1, <1>2 DEF LifecycleInv, UntilRace, OneHooked, Hooked, Calm
  <2>2. FailsAlone'
    BY <1>1, <1>2 DEF LifecycleInv, UntilRace, FailsAlone, WritesError, Transiting, Calm
  <2>3. StartSeen'
    BY <1>1, <1>2 DEF LifecycleInv, UntilRace, StartSeen, Starting, Calm, At
  <2>4. RequestIsUsed'
    BY <1>1, <1>2 DEF LifecycleInv, UntilRace, RequestIsUsed, Calm, At
  <2>5. Agreement'
    BY <1>1, <1>2 DEF LifecycleInv, UntilRace, Agreement, Ahead, Calm, At, FromReady,
       TypeOK
  <2>6. NothingFails'
    BY <1>1 DEF NothingFails
  <2>7. StartedOnce'
    BY <1>2 DEF LifecycleInv, UntilRace, StartedOnce
  <2> QED
    BY <2>1, <2>2, <2>3, <2>4, <2>5, <2>6, <2>7 DEF UntilRace
<1> QED
  BY <1>3, <1>4, <1>5, <1>6 DEF LifecycleInv

LEMMA GetKeeps ==
    ASSUME TypeOK, LifecycleInv,
           NEW b \in Callbacks,
           Get(b)
    PROVE  TypeOK' /\ LifecycleInv'
<1>1. /\ At(b, "get")
      /\ \A c \in Callbacks : c # b => callback'[c] = callback[c]
      /\ \/ /\ state \in {"pending", "error"}
            /\ callback'[b].pc = "set"
            /\ callback'[b].op = callback[b].op
            /\ callback'[b].seen = callback[b].seen
            /\ callback'[b].failed = callback[b].failed
         \/ /\ state \notin {"pending", "error"}
            /\ callback'[b].pc = "idle"
            /\ callback'[b].op = "ready"
            /\ callback'[b].seen = "none"
            /\ callback'[b].failed = FALSE
  <2>0. "processing" \in Transitions[state] <=> state \in {"pending", "error"}
    BY DEF Transitions, TypeOK, States
  <2>1. CASE state \in {"pending", "error"}
    BY <2>0, <2>1, GotoEffect, HoldEffect, ReplyEffect DEF Get, Silent
  <2>2. CASE state \notin {"pending", "error"}
    BY <2>0, <2>2, GotoEffect, HoldEffect, ReplyEffect DEF Get, Silent
  <2> QED
    BY <2>1, <2>2
<1>2. /\ UNCHANGED <<mode, status, state, request, named, env, engine, create, stop, faults,
                     starts, condition, overtaken>>
  BY DEF Get, Undisturbed, Silent, stores, Reply, Racing
<1>3. /\ raced' \in BOOLEAN /\ (~raced' => ~raced /\ \A c \in Callbacks : ~WritesError(c))
  BY DEF Get, Racing, WritesError, TypeOK
<1>4. /\ answered' = answered
  BY DEF Get, Reply, Silent, TypeOK
<1>5. TypeOK'
  <2>0. "processing" \in Transitions[state] <=> state \in {"pending", "error"}
    BY DEF Transitions, TypeOK, States
  <2>1. CASE state \in {"pending", "error"}
    <3>1. callback' \in [Callbacks -> CallbackStates] /\ answered' \in BOOLEAN /\ attempts'
          \in 0 .. Attempts
      BY <2>0, <2>1, GotoTyped, HoldTyped, ReplyTyped DEF Get, Silent, TypeOK
    <3> QED
      BY <1>2, <1>3, <3>1 DEF TypeOK, States
  <2>2. CASE state \notin {"pending", "error"}
    <3>1. callback' \in [Callbacks -> CallbackStates] /\ answered' \in BOOLEAN /\ attempts'
          \in 0 .. Attempts
      BY <2>0, <2>2, GotoTyped, HoldTyped, ReplyTyped DEF Get, Silent, TypeOK
    <3> QED
      BY <1>2, <1>3, <3>1 DEF TypeOK, States
  <2> QED
    BY <2>1, <2>2
<1>6. Always'
  <2>1. Phases'
    BY <1>2, <1>4 DEF LifecycleInv, Always, Phases
  <2>2. StopKnows'
    BY <1>2 DEF LifecycleInv, Always, StopKnows
  <2>3. CallbackKnows'
    BY <1>1, <1>2 DEF LifecycleInv, Always, CallbackKnows, Transiting, At, Starting,
       Failing, FromReady
  <2> QED
    BY <2>1, <2>2, <2>3 DEF Always
<1>7. UntilFault'
  <2>1. RequestIsThere'
    BY <1>2 DEF LifecycleInv, UntilFault, RequestIsThere
  <2>2. Taken'
    BY <1>1, <1>2 DEF LifecycleInv, UntilFault, Taken, Failing, FromReady
  <2>3. BeforeStop'
    BY <1>2 DEF LifecycleInv, UntilFault, BeforeStop
  <2>4. StopDeleted'
    BY <1>2 DEF LifecycleInv, UntilFault, StopDeleted
  <2>5. SuccessIsTaken'
    BY <1>2, <1>4 DEF LifecycleInv, UntilFault, SuccessIsTaken
  <2> QED
    BY <2>1, <2>2, <2>3, <2>4, <2>5 DEF UntilFault
<1>8. UntilRace'
  <2>1. OneHooked'
    BY <1>1, <1>2, <1>3 DEF LifecycleInv, UntilRace, OneHooked, Hooked, Calm
  <2>2. FailsAlone'
    BY <1>1, <1>3 DEF FailsAlone, WritesError, Calm
  <2>3. StartSeen'
    BY <1>1, <1>2, <1>3 DEF LifecycleInv, UntilRace, StartSeen, Starting, Calm, At
  <2>4. RequestIsUsed'
    BY <1>1, <1>2, <1>3 DEF LifecycleInv, UntilRace, RequestIsUsed, Calm, At
  <2>5. Agreement'
    BY <1>1, <1>2, <1>3 DEF LifecycleInv, UntilRace, Agreement, Ahead, Calm, At, FromReady
  <2>6. NothingFails'
    BY <1>1, <1>2, <1>3 DEF LifecycleInv, UntilRace, NothingFails, Failing, Calm,
       FromReady, States
  <2>7. StartedOnce'
    BY <1>2, <1>3 DEF LifecycleInv, UntilRace, StartedOnce
  <2> QED
    BY <2>1, <2>2, <2>3, <2>4, <2>5, <2>6, <2>7 DEF UntilRace
<1> QED
  BY <1>5, <1>6, <1>7, <1>8 DEF LifecycleInv

LEMMA SetKeeps ==
    ASSUME TypeOK, LifecycleInv,
           NEW b \in Callbacks,
           Set(b)
    PROVE  TypeOK' /\ LifecycleInv'
<1>1. /\ At(b, "set")
      /\ state' = "processing"
      /\ callback'[b].pc = "check"
      /\ callback'[b].op = callback[b].op
      /\ callback'[b].seen = callback[b].seen
      /\ \A c \in Callbacks : c # b => callback'[c] = callback[c]
      /\ callback'[b].failed = callback[b].failed
  BY GotoEffect DEF Set
<1>2. /\ UNCHANGED <<mode, status, request, named, env, engine, create, stop, attempts, faults,
                     starts, answered, raced, condition, overtaken>>
  BY DEF Set, Undisturbed, Silent, stores
<1>3. TypeOK'
  <2>1. callback' \in [Callbacks -> CallbackStates]
    BY GotoTyped DEF Set
  <2>2. status' \in States /\ state' \in States \ {"finished"}
    BY <1>1, <1>2 DEF TypeOK, States
  <2> QED
    BY <1>2, <2>1, <2>2 DEF TypeOK
<1>4. Always'
  <2>1. Phases'
    BY <1>1, <1>2 DEF LifecycleInv, Always, Phases, CallbackKnows, Transiting, At
  <2>2. StopKnows'
    BY <1>2 DEF LifecycleInv, Always, StopKnows
  <2>3. CallbackKnows'
    BY <1>1 DEF LifecycleInv, Always, CallbackKnows, At, Starting, FromReady
  <2> QED
    BY <2>1, <2>2, <2>3 DEF Always
<1>5. UntilFault'
  <2>1. RequestIsThere'
    BY <1>1, <1>2 DEF LifecycleInv, Always, UntilFault, RequestIsThere, CallbackKnows,
       Transiting, At
  <2>2. Taken'
    BY <1>1, <1>2 DEF LifecycleInv, UntilFault, Taken, Failing, FromReady
  <2>3. BeforeStop'
    BY <1>1, <1>2 DEF LifecycleInv, UntilFault, BeforeStop
  <2>4. StopDeleted'
    BY <1>2 DEF LifecycleInv, UntilFault, StopDeleted
  <2>5. SuccessIsTaken'
    BY <1>2 DEF LifecycleInv, UntilFault, SuccessIsTaken
  <2> QED
    BY <2>1, <2>2, <2>3, <2>4, <2>5 DEF UntilFault
<1>6. UntilRace'
  <2>1. OneHooked'
    BY <1>1, <1>2 DEF LifecycleInv, UntilRace, OneHooked, Hooked, Calm
  <2>2. FailsAlone'
    BY <1>1, <1>2 DEF LifecycleInv, UntilRace, FailsAlone, WritesError, Transiting, Calm,
       At
  <2>3. StartSeen'
    BY <1>1, <1>2 DEF LifecycleInv, UntilRace, StartSeen, FailsAlone, WritesError,
       Transiting, Calm, At
  <2>4. RequestIsUsed'
    BY <1>1, <1>2 DEF LifecycleInv, UntilRace, RequestIsUsed, Calm, At
  <2>5. Agreement'
    BY <1>1 DEF Agreement, Ahead
  <2>6. NothingFails'
    BY <1>1, <1>2 DEF LifecycleInv, UntilRace, NothingFails, Failing, Calm, FromReady
  <2>7. StartedOnce'
    BY <1>2 DEF LifecycleInv, UntilRace, StartedOnce
  <2> QED
    BY <2>1, <2>2, <2>3, <2>4, <2>5, <2>6, <2>7 DEF UntilRace
<1> QED
  BY <1>3, <1>4, <1>5, <1>6 DEF LifecycleInv

LEMMA CheckKeeps ==
    ASSUME TypeOK, LifecycleInv,
           NEW b \in Callbacks,
           Check(b)
    PROVE  TypeOK' /\ LifecycleInv'
<1>1. /\ At(b, "check")
      /\ \A c \in Callbacks : c # b => callback'[c] = callback[c]
      /\ \/ /\ status = "processing"
            /\ callback'[b].pc = "idle"
            /\ callback'[b].op = "ready"
            /\ callback'[b].seen = "none"
            /\ callback'[b].failed = FALSE
            /\ answered' = (answered \/ FromReady(b))
         \/ /\ status # "processing"
            /\ callback'[b].pc = "fetch"
            /\ callback'[b].op = callback[b].op
            /\ callback'[b].seen = callback[b].seen
            /\ callback'[b].failed = callback[b].failed
            /\ answered' = answered
  <2>1. CASE status = "processing"
    BY <2>1, GotoEffect, HoldEffect, ReplyEffect DEF Check, Silent, Racing
  <2>2. CASE status # "processing"
    BY <2>2, GotoEffect, HoldEffect, ReplyEffect DEF Check, Silent, Racing
  <2> QED
    BY <2>1, <2>2
<1>2. /\ UNCHANGED <<mode, status, state, request, named, env, engine, create, stop, faults,
                     starts, condition, overtaken>>
  BY DEF Check, Undisturbed, Silent, stores, Reply, Racing
<1>3. /\ raced' \in BOOLEAN /\ (~raced' => ~raced /\ (status = "processing" \/ \A c
         \in Callbacks : c # b => callback[c].pc \notin {"fetch", "update"}))
  BY DEF Check, Racing, WritesError, TypeOK
<1>4. TypeOK'
  <2>1. CASE status = "processing"
    <3>1. callback' \in [Callbacks -> CallbackStates] /\ answered' \in BOOLEAN /\ attempts'
          \in 0 .. Attempts
      BY <2>1, GotoTyped, HoldTyped, ReplyTyped DEF Check, Silent, TypeOK
    <3> QED
      BY <1>2, <1>3, <3>1 DEF TypeOK, States
  <2>2. CASE status # "processing"
    <3>1. callback' \in [Callbacks -> CallbackStates] /\ answered' \in BOOLEAN /\ attempts'
          \in 0 .. Attempts
      BY <2>2, GotoTyped, HoldTyped, ReplyTyped DEF Check, Silent, TypeOK
    <3> QED
      BY <1>2, <1>3, <3>1 DEF TypeOK, States
  <2> QED
    BY <2>1, <2>2
<1>5. Always'
  <2>1. Phases'
    BY <1>1, <1>2 DEF LifecycleInv, Always, Phases
  <2>2. StopKnows'
    BY <1>2 DEF LifecycleInv, Always, StopKnows
  <2>3. CallbackKnows'
    BY <1>1, <1>2 DEF LifecycleInv, Always, CallbackKnows, Transiting, At, Starting,
       FromReady
  <2> QED
    BY <2>1, <2>2, <2>3 DEF Always
<1>6. UntilFault'
  <2>1. RequestIsThere'
    BY <1>2 DEF LifecycleInv, UntilFault, RequestIsThere
  <2>2. Taken'
    BY <1>1, <1>2 DEF LifecycleInv, UntilFault, Taken, Failing, FromReady
  <2>3. BeforeStop'
    BY <1>2 DEF LifecycleInv, UntilFault, BeforeStop
  <2>4. StopDeleted'
    BY <1>2 DEF LifecycleInv, UntilFault, StopDeleted
  <2>5. SuccessIsTaken'
    BY <1>1, <1>2 DEF LifecycleInv, UntilFault, SuccessIsTaken
  <2> QED
    BY <2>1, <2>2, <2>3, <2>4, <2>5 DEF UntilFault
<1>7. UntilRace'
  <2>1. OneHooked'
    BY <1>1, <1>2, <1>3, ZenonT(30) DEF LifecycleInv, UntilRace, OneHooked, StartSeen, Hooked,
       Calm, At, Starting
  <2>2. FailsAlone'
    BY <1>1, <1>2, <1>3 DEF LifecycleInv, UntilRace, FailsAlone, WritesError, Transiting,
       Calm, At
  <2>3. StartSeen'
    BY <1>1, <1>2, <1>3 DEF LifecycleInv, UntilRace, StartSeen, Starting, Calm, At
  <2>4. RequestIsUsed'
    BY <1>1, <1>2, <1>3 DEF LifecycleInv, UntilRace, RequestIsUsed, Calm, At
  <2>5. Agreement'
    BY <1>1, <1>2, <1>3 DEF LifecycleInv, UntilRace, Agreement, Ahead, Calm, At
  <2>6. NothingFails'
    BY <1>1, <1>2, <1>3 DEF LifecycleInv, Always, UntilRace, NothingFails, Phases,
       StartSeen, Starting, Failing, Calm, At, FromReady
  <2>7. StartedOnce'
    BY <1>2, <1>3 DEF LifecycleInv, UntilRace, StartedOnce
  <2> QED
    BY <2>1, <2>2, <2>3, <2>4, <2>5, <2>6, <2>7 DEF UntilRace
<1> QED
  BY <1>4, <1>5, <1>6, <1>7 DEF LifecycleInv

LEMMA FetchKeeps ==
    ASSUME TypeOK, LifecycleInv,
           NEW b \in Callbacks,
           Fetch(b)
    PROVE  TypeOK' /\ LifecycleInv'
<1>1. /\ At(b, "fetch")
      /\ \A c \in Callbacks : c # b => callback'[c] = callback[c]
      /\ \/ /\ request
            /\ callback'[b].pc = "update"
            /\ callback'[b].op = callback[b].op
            /\ callback'[b].seen = callback[b].seen
            /\ callback'[b].failed = callback[b].failed
            /\ answered' = answered
         \/ /\ ~request
            /\ callback'[b].pc = "fail"
            /\ callback'[b].op = callback[b].op
            /\ callback'[b].seen = callback[b].seen
            /\ callback'[b].failed = callback[b].failed
            /\ answered' = answered
  <2>1. CASE request
    BY <2>1, GotoEffect, HoldEffect, ReplyEffect DEF Fetch, Silent
  <2>2. CASE ~request
    BY <2>2, GotoEffect, HoldEffect, ReplyEffect DEF Fetch, Silent
  <2> QED
    BY <2>1, <2>2
<1>2. /\ UNCHANGED <<mode, status, state, request, named, env, engine, create, stop, faults,
                     starts, raced, condition, overtaken>>
  BY DEF Fetch, Undisturbed, Silent, stores, Reply, Racing
<1>3. TypeOK'
  <2>1. CASE request
    <3>1. callback' \in [Callbacks -> CallbackStates] /\ answered' \in BOOLEAN /\ attempts'
          \in 0 .. Attempts
      BY <2>1, GotoTyped, HoldTyped, ReplyTyped DEF Fetch, Silent, TypeOK
    <3> QED
      BY <1>2, <1>3, <3>1 DEF TypeOK, States
  <2>2. CASE ~request
    <3>1. callback' \in [Callbacks -> CallbackStates] /\ answered' \in BOOLEAN /\ attempts'
          \in 0 .. Attempts
      BY <2>2, GotoTyped, HoldTyped, ReplyTyped DEF Fetch, Silent, TypeOK
    <3> QED
      BY <1>2, <1>3, <3>1 DEF TypeOK, States
  <2> QED
    BY <2>1, <2>2
<1>4. Always'
  <2>1. Phases'
    BY <1>1, <1>2 DEF LifecycleInv, Always, Phases
  <2>2. StopKnows'
    BY <1>2 DEF LifecycleInv, Always, StopKnows
  <2>3. CallbackKnows'
    BY <1>1, <1>2 DEF LifecycleInv, Always, CallbackKnows, Transiting, At, Starting,
       FromReady
  <2> QED
    BY <2>1, <2>2, <2>3 DEF Always
<1>5. UntilFault'
  <2>1. RequestIsThere'
    BY <1>2 DEF LifecycleInv, UntilFault, RequestIsThere
  <2>2. Taken'
    BY <1>1, <1>2 DEF LifecycleInv, Always, UntilFault, Taken, RequestIsThere,
       CallbackKnows, Transiting, Failing, FromReady, At
  <2>3. BeforeStop'
    BY <1>2 DEF LifecycleInv, UntilFault, BeforeStop
  <2>4. StopDeleted'
    BY <1>2 DEF LifecycleInv, UntilFault, StopDeleted
  <2>5. SuccessIsTaken'
    BY <1>1, <1>2 DEF LifecycleInv, UntilFault, SuccessIsTaken
  <2> QED
    BY <2>1, <2>2, <2>3, <2>4, <2>5 DEF UntilFault
<1>6. UntilRace'
  <2>1. OneHooked'
    BY <1>1, <1>2 DEF LifecycleInv, UntilRace, OneHooked, Hooked, Calm, At
  <2>2. FailsAlone'
    BY <1>1, <1>2 DEF LifecycleInv, UntilRace, FailsAlone, WritesError, Transiting, Calm,
       At
  <2>3. StartSeen'
    BY <1>1, <1>2 DEF LifecycleInv, UntilRace, StartSeen, Starting, Calm, At
  <2>4. RequestIsUsed'
    BY <1>1, <1>2 DEF LifecycleInv, UntilRace, RequestIsUsed, OneHooked, Hooked, Calm, At
  <2>5. Agreement'
    BY <1>1, <1>2 DEF LifecycleInv, Always, UntilRace, Agreement, CallbackKnows, Ahead,
       Starting, Calm, At, FromReady
  <2>6. NothingFails'
    BY <1>1, <1>2 DEF LifecycleInv, UntilFault, UntilRace, NothingFails, RequestIsThere,
       StartSeen, Starting, Failing, Calm, At, FromReady
  <2>7. StartedOnce'
    BY <1>2 DEF LifecycleInv, UntilRace, StartedOnce
  <2> QED
    BY <2>1, <2>2, <2>3, <2>4, <2>5, <2>6, <2>7 DEF UntilRace
<1> QED
  BY <1>3, <1>4, <1>5, <1>6 DEF LifecycleInv

LEMMA UpdateKeeps ==
    ASSUME TypeOK, LifecycleInv,
           NEW b \in Callbacks,
           Update(b)
    PROVE  TypeOK' /\ LifecycleInv'
<1>1. /\ At(b, "update")
      /\ status' = "processing"
      /\ callback'[b].pc = "start"
      /\ callback'[b].op = callback[b].op
      /\ callback'[b].seen = callback[b].seen
      /\ \A c \in Callbacks : c # b => callback'[c] = callback[c]
      /\ callback'[b].failed = callback[b].failed
  BY GotoEffect DEF Update
<1>2. /\ UNCHANGED <<mode, state, request, named, env, engine, create, stop, attempts, faults,
                     starts, answered, raced, condition, overtaken>>
  BY DEF Update, Undisturbed, Silent, stores
<1>3. TypeOK'
  <2>1. callback' \in [Callbacks -> CallbackStates]
    BY GotoTyped DEF Update
  <2>2. status' \in States /\ state' \in States \ {"finished"}
    BY <1>1, <1>2 DEF TypeOK, States
  <2> QED
    BY <1>2, <2>1, <2>2 DEF TypeOK
<1>4. Always'
  <2>1. Phases'
    BY <1>1, <1>2 DEF LifecycleInv, Always, Phases, CallbackKnows, Transiting, At
  <2>2. StopKnows'
    BY <1>1, <1>2 DEF LifecycleInv, Always, StopKnows
  <2>3. CallbackKnows'
    BY <1>1, <1>2 DEF LifecycleInv, Always, CallbackKnows, Transiting, At, Starting,
       FromReady
  <2> QED
    BY <2>1, <2>2, <2>3 DEF Always
<1>5. UntilFault'
  <2>1. RequestIsThere'
    BY <1>1, <1>2 DEF LifecycleInv, UntilFault, RequestIsThere
  <2>2. Taken'
    BY <1>1 DEF Taken
  <2>3. BeforeStop'
    BY <1>1, <1>2 DEF LifecycleInv, Always, UntilFault, BeforeStop, CallbackKnows,
       Transiting, At
  <2>4. StopDeleted'
    BY <1>2 DEF LifecycleInv, UntilFault, StopDeleted
  <2>5. SuccessIsTaken'
    BY <1>1 DEF SuccessIsTaken
  <2> QED
    BY <2>1, <2>2, <2>3, <2>4, <2>5 DEF UntilFault
<1>6. UntilRace'
  <2>1. OneHooked'
    BY <1>1, <1>2 DEF LifecycleInv, UntilRace, OneHooked, Hooked, Calm, At
  <2>2. FailsAlone'
    BY <1>1, <1>2 DEF LifecycleInv, UntilRace, FailsAlone, WritesError, Transiting, Calm,
       At
  <2>3. StartSeen'
    BY <1>1, <1>2 DEF LifecycleInv, UntilRace, StartSeen, Starting, Calm, At
  <2>4. RequestIsUsed'
    BY <1>1, <1>2 DEF LifecycleInv, UntilRace, RequestIsUsed, Calm, At
  <2>5. Agreement'
    BY <1>1, <1>2 DEF LifecycleInv, UntilRace, Agreement, StartSeen, Starting, Calm, At
  <2>6. NothingFails'
    BY <1>1, <1>2 DEF LifecycleInv, UntilRace, NothingFails, OneHooked, Hooked, Calm,
       FromReady, Failing, At
  <2>7. StartedOnce'
    BY <1>2 DEF LifecycleInv, UntilRace, StartedOnce
  <2> QED
    BY <2>1, <2>2, <2>3, <2>4, <2>5, <2>6, <2>7 DEF UntilRace
<1> QED
  BY <1>3, <1>4, <1>5, <1>6 DEF LifecycleInv

LEMMA StartEngineKeeps ==
    ASSUME TypeOK, LifecycleInv,
           NEW b \in Callbacks,
           StartEngine(b)
    PROVE  TypeOK' /\ LifecycleInv'
<1>1. /\ At(b, "start")
      /\ callback'[b].pc = "drop"
      /\ callback'[b].op = callback[b].op
      /\ callback'[b].seen = callback[b].seen
      /\ \A c \in Callbacks : c # b => callback'[c] = callback[c]
      /\ callback'[b].failed = ~env
      /\ env => starts' = (IF starts < 2 THEN starts + 1 ELSE starts)
      /\ ~env => UNCHANGED <<engine, starts>>
      /\ env => engine' = TRUE
  BY HoldEffect DEF StartEngine, EngineStarts
<1>2. /\ UNCHANGED <<mode, status, state, request, named, env, create, stop, attempts, faults,
                     answered, raced, condition, overtaken>>
  BY DEF StartEngine, Undisturbed, Silent, stores
<1>3. TypeOK'
  <2>1. callback' \in [Callbacks -> CallbackStates]
    BY HoldTyped DEF StartEngine, TypeOK
  <2>2. engine' \in BOOLEAN
    BY DEF TypeOK, StartEngine, EngineStarts
  <2>3. starts' \in 0 .. 2
    BY DEF TypeOK, StartEngine, EngineStarts
  <2> QED
    BY <1>2, <2>1, <2>2, <2>3 DEF TypeOK
<1>4. Always'
  <2>1. Phases'
    BY <1>1, <1>2 DEF LifecycleInv, Always, Phases, CallbackKnows, Transiting, At
  <2>2. StopKnows'
    BY <1>2 DEF LifecycleInv, Always, StopKnows
  <2>3. CallbackKnows'
    BY <1>1, <1>2 DEF LifecycleInv, Always, CallbackKnows, Transiting, At, Starting,
       FromReady
  <2> QED
    BY <2>1, <2>2, <2>3 DEF Always
<1>5. UntilFault'
  <2>1. RequestIsThere'
    BY <1>2 DEF LifecycleInv, UntilFault, RequestIsThere
  <2>2. Taken'
    BY <1>1, <1>2 DEF LifecycleInv, UntilFault, Taken, At
  <2>3. BeforeStop'
    BY <1>2 DEF LifecycleInv, UntilFault, BeforeStop
  <2>4. StopDeleted'
    BY <1>1, <1>2 DEF LifecycleInv, UntilFault, StopDeleted
  <2>5. SuccessIsTaken'
    BY <1>2 DEF LifecycleInv, UntilFault, SuccessIsTaken
  <2> QED
    BY <2>1, <2>2, <2>3, <2>4, <2>5 DEF UntilFault
<1>6. UntilRace'
  <2>1. OneHooked'
    BY <1>1, <1>2 DEF LifecycleInv, UntilRace, OneHooked, Hooked, Calm, At
  <2>2. FailsAlone'
    BY <1>1, <1>2 DEF LifecycleInv, UntilRace, FailsAlone, WritesError, Transiting, Calm,
       At
  <2>3. StartSeen'
    BY <1>1, <1>2 DEF LifecycleInv, UntilRace, StartSeen, Starting, Calm, At
  <2>4. RequestIsUsed'
    BY <1>1, <1>2 DEF LifecycleInv, UntilRace, RequestIsUsed, OneHooked, Hooked, Calm, At
  <2>5. Agreement'
    BY <1>1, <1>2 DEF LifecycleInv, UntilRace, Agreement, StartSeen, Calm, At
  <2>6. NothingFails'
    BY <1>1, <1>2 DEF LifecycleInv, UntilFault, UntilRace, NothingFails, RequestIsThere,
       BeforeStop, StartSeen, Failing, Calm, At, FromReady
  <2>7. StartedOnce'
    BY <1>1, <1>2 DEF LifecycleInv, UntilRace, StartedOnce, RequestIsUsed, Calm, At,
       TypeOK
  <2> QED
    BY <2>1, <2>2, <2>3, <2>4, <2>5, <2>6, <2>7 DEF UntilRace
<1> QED
  BY <1>3, <1>4, <1>5, <1>6 DEF LifecycleInv

LEMMA DropKeeps ==
    ASSUME TypeOK, LifecycleInv,
           NEW b \in Callbacks,
           Drop(b)
    PROVE  TypeOK' /\ LifecycleInv'
<1>1. /\ At(b, "drop")
      /\ \A c \in Callbacks : c # b => callback'[c] = callback[c]
      /\ request' = FALSE
      /\ request' \in BOOLEAN
      /\ \/ /\ callback[b].failed
            /\ callback'[b].pc = "fail"
            /\ callback'[b].op = callback[b].op
            /\ callback'[b].seen = callback[b].seen
            /\ callback'[b].failed = callback[b].failed
            /\ answered' = answered
         \/ /\ ~callback[b].failed
            /\ callback'[b].pc = "idle"
            /\ callback'[b].op = "ready"
            /\ callback'[b].seen = "none"
            /\ callback'[b].failed = FALSE
            /\ answered' = (answered \/ FromReady(b))
  <2>1. CASE callback[b].failed
    BY <2>1, GotoEffect, HoldEffect, ReplyEffect DEF Drop, Silent
  <2>2. CASE ~callback[b].failed
    BY <2>2, GotoEffect, HoldEffect, ReplyEffect DEF Drop, Silent
  <2> QED
    BY <2>1, <2>2
<1>2. /\ UNCHANGED <<mode, status, state, named, env, engine, create, stop, faults, starts,
                     raced, condition, overtaken>>
  BY DEF Drop, Undisturbed, Silent, stores, Reply, Racing
<1>3. TypeOK'
  <2>1. CASE callback[b].failed
    <3>1. callback' \in [Callbacks -> CallbackStates] /\ answered' \in BOOLEAN /\ attempts'
          \in 0 .. Attempts
      BY <2>1, GotoTyped, HoldTyped, ReplyTyped DEF Drop, Silent, TypeOK
    <3> QED
      BY <1>1, <1>2, <1>3, <3>1 DEF TypeOK, States
  <2>2. CASE ~callback[b].failed
    <3>1. callback' \in [Callbacks -> CallbackStates] /\ answered' \in BOOLEAN /\ attempts'
          \in 0 .. Attempts
      BY <2>2, GotoTyped, HoldTyped, ReplyTyped DEF Drop, Silent, TypeOK
    <3> QED
      BY <1>1, <1>2, <1>3, <3>1 DEF TypeOK, States
  <2> QED
    BY <2>1, <2>2
<1>4. Always'
  <2>1. Phases'
    BY <1>1, <1>2 DEF LifecycleInv, Always, Phases, CallbackKnows, Transiting, At
  <2>2. StopKnows'
    BY <1>2 DEF LifecycleInv, Always, StopKnows
  <2>3. CallbackKnows'
    BY <1>1, <1>2 DEF LifecycleInv, Always, CallbackKnows, Transiting, At, Starting,
       FromReady
  <2> QED
    BY <2>1, <2>2, <2>3 DEF Always
<1>5. UntilFault'
  <2>1. RequestIsThere'
    BY <1>1, <1>2 DEF LifecycleInv, UntilFault, RequestIsThere, At, Taken
  <2>2. Taken'
    BY <1>1, <1>2 DEF LifecycleInv, UntilFault, Taken, At
  <2>3. BeforeStop'
    BY <1>2 DEF LifecycleInv, UntilFault, BeforeStop
  <2>4. StopDeleted'
    BY <1>2 DEF LifecycleInv, UntilFault, StopDeleted
  <2>5. SuccessIsTaken'
    BY <1>1, <1>2 DEF LifecycleInv, UntilFault, SuccessIsTaken, Taken, At
  <2> QED
    BY <2>1, <2>2, <2>3, <2>4, <2>5 DEF UntilFault
<1>6. UntilRace'
  <2>1. OneHooked'
    BY <1>1, <1>2 DEF LifecycleInv, UntilRace, OneHooked, Hooked, Calm
  <2>2. FailsAlone'
    BY <1>1, <1>2 DEF LifecycleInv, UntilRace, FailsAlone, WritesError, Transiting, Calm
  <2>3. StartSeen'
    BY <1>1, <1>2 DEF LifecycleInv, UntilRace, StartSeen, Starting, Calm, At
  <2>4. RequestIsUsed'
    BY <1>1, <1>2 DEF LifecycleInv, UntilRace, RequestIsUsed, Calm
  <2>5. Agreement'
    BY <1>1, <1>2 DEF LifecycleInv, UntilRace, Agreement, StartSeen, Calm, At
  <2>6. NothingFails'
    BY <1>1, <1>2 DEF LifecycleInv, UntilRace, NothingFails, Failing, Calm, FromReady
  <2>7. StartedOnce'
    BY <1>2 DEF LifecycleInv, UntilRace, StartedOnce
  <2> QED
    BY <2>1, <2>2, <2>3, <2>4, <2>5, <2>6, <2>7 DEF UntilRace
<1> QED
  BY <1>3, <1>4, <1>5, <1>6 DEF LifecycleInv

LEMMA FailKeeps ==
    ASSUME TypeOK, LifecycleInv,
           NEW b \in Callbacks,
           Fail(b)
    PROVE  TypeOK' /\ LifecycleInv'
<1>1. /\ At(b, "fail")
      /\ \A c \in Callbacks : c # b => callback'[c] = callback[c]
      /\ \/ /\ state \in {"pending", "processing"}
            /\ callback'[b].pc = "fail set"
            /\ callback'[b].op = callback[b].op
            /\ callback'[b].seen = callback[b].seen
            /\ callback'[b].failed = callback[b].failed
            /\ answered' = answered
         \/ /\ state \notin {"pending", "processing"}
            /\ callback'[b].pc = "idle"
            /\ callback'[b].op = "ready"
            /\ callback'[b].seen = "none"
            /\ callback'[b].failed = FALSE
            /\ answered' = (answered \/ FromReady(b))
  <2>0. "error" \in Transitions[state] <=> state \in {"pending", "processing"}
    BY DEF Transitions, TypeOK, States
  <2>1. CASE state \in {"pending", "processing"}
    BY <2>0, <2>1, GotoEffect, HoldEffect, ReplyEffect DEF Fail, Silent
  <2>2. CASE state \notin {"pending", "processing"}
    BY <2>0, <2>2, GotoEffect, HoldEffect, ReplyEffect DEF Fail, Silent
  <2> QED
    BY <2>1, <2>2
<1>2. /\ UNCHANGED <<mode, status, state, request, named, env, engine, create, stop, faults,
                     starts, condition, overtaken>>
  BY DEF Fail, Undisturbed, Silent, stores, Reply, Racing
<1>3. /\ raced' \in BOOLEAN /\ (~raced' => ~raced /\ \A c \in Callbacks : c # b =>
         ~Transiting(c))
  BY DEF Fail, Racing, WritesError, TypeOK
<1>4. TypeOK'
  <2>0. "error" \in Transitions[state] <=> state \in {"pending", "processing"}
    BY DEF Transitions, TypeOK, States
  <2>1. CASE state \in {"pending", "processing"}
    <3>1. callback' \in [Callbacks -> CallbackStates] /\ answered' \in BOOLEAN /\ attempts'
          \in 0 .. Attempts
      BY <2>0, <2>1, GotoTyped, HoldTyped, ReplyTyped DEF Fail, Silent, TypeOK
    <3> QED
      BY <1>2, <1>3, <3>1 DEF TypeOK, States
  <2>2. CASE state \notin {"pending", "processing"}
    <3>1. callback' \in [Callbacks -> CallbackStates] /\ answered' \in BOOLEAN /\ attempts'
          \in 0 .. Attempts
      BY <2>0, <2>2, GotoTyped, HoldTyped, ReplyTyped DEF Fail, Silent, TypeOK
    <3> QED
      BY <1>2, <1>3, <3>1 DEF TypeOK, States
  <2> QED
    BY <2>1, <2>2
<1>5. Always'
  <2>1. Phases'
    BY <1>1, <1>2 DEF LifecycleInv, Always, Phases, CallbackKnows, At, Failing
  <2>2. StopKnows'
    BY <1>2 DEF LifecycleInv, Always, StopKnows
  <2>3. CallbackKnows'
    BY <1>1, <1>2 DEF LifecycleInv, Always, CallbackKnows, Transiting, At, Starting,
       Failing, FromReady
  <2> QED
    BY <2>1, <2>2, <2>3 DEF Always
<1>6. UntilFault'
  <2>1. RequestIsThere'
    BY <1>2 DEF LifecycleInv, UntilFault, RequestIsThere
  <2>2. Taken'
    BY <1>1, <1>2 DEF LifecycleInv, UntilFault, Taken, Failing, FromReady, At
  <2>3. BeforeStop'
    BY <1>2 DEF LifecycleInv, UntilFault, BeforeStop
  <2>4. StopDeleted'
    BY <1>2 DEF LifecycleInv, UntilFault, StopDeleted
  <2>5. SuccessIsTaken'
    BY <1>1, <1>2 DEF LifecycleInv, UntilFault, SuccessIsTaken, Taken, Failing, At
  <2> QED
    BY <2>1, <2>2, <2>3, <2>4, <2>5 DEF UntilFault
<1>7. UntilRace'
  <2>1. OneHooked'
    BY <1>1, <1>2, <1>3 DEF LifecycleInv, UntilRace, OneHooked, Hooked, Calm
  <2>2. FailsAlone'
    BY <1>1, <1>3 DEF FailsAlone, WritesError, Transiting, Calm
  <2>3. StartSeen'
    BY <1>1, <1>3 DEF StartSeen, Starting, Transiting, Calm, At
  <2>4. RequestIsUsed'
    BY <1>1, <1>2, <1>3 DEF LifecycleInv, UntilRace, RequestIsUsed, Calm, At
  <2>5. Agreement'
    BY <1>1, <1>2, <1>3 DEF LifecycleInv, UntilRace, Agreement, Ahead, FromReady, Calm, At
  <2>6. NothingFails'
    BY <1>1, <1>2, <1>3 DEF LifecycleInv, UntilRace, NothingFails, Failing, Calm, At
  <2>7. StartedOnce'
    BY <1>2, <1>3 DEF LifecycleInv, UntilRace, StartedOnce
  <2> QED
    BY <2>1, <2>2, <2>3, <2>4, <2>5, <2>6, <2>7 DEF UntilRace
<1> QED
  BY <1>4, <1>5, <1>6, <1>7 DEF LifecycleInv

LEMMA FailSetKeeps ==
    ASSUME TypeOK, LifecycleInv,
           NEW b \in Callbacks,
           FailSet(b)
    PROVE  TypeOK' /\ LifecycleInv'
<1>1. /\ At(b, "fail set")
      /\ state' = "error"
      /\ callback'[b].pc = "fail update"
      /\ callback'[b].op = callback[b].op
      /\ callback'[b].seen = callback[b].seen
      /\ \A c \in Callbacks : c # b => callback'[c] = callback[c]
      /\ callback'[b].failed = callback[b].failed
  BY GotoEffect DEF FailSet
<1>2. /\ UNCHANGED <<mode, status, request, named, env, engine, create, stop, attempts, faults,
                     starts, answered, raced, condition, overtaken>>
  BY DEF FailSet, Undisturbed, Silent, stores
<1>3. TypeOK'
  <2>1. callback' \in [Callbacks -> CallbackStates]
    BY GotoTyped DEF FailSet
  <2>2. status' \in States /\ state' \in States \ {"finished"}
    BY <1>1, <1>2 DEF TypeOK, States
  <2> QED
    BY <1>2, <2>1, <2>2 DEF TypeOK
<1>4. Always'
  <2>1. Phases'
    BY <1>1, <1>2 DEF LifecycleInv, Always, Phases, CallbackKnows, Transiting, At
  <2>2. StopKnows'
    BY <1>2 DEF LifecycleInv, Always, StopKnows
  <2>3. CallbackKnows'
    BY <1>1 DEF LifecycleInv, Always, CallbackKnows, At, Starting, FromReady
  <2> QED
    BY <2>1, <2>2, <2>3 DEF Always
<1>5. UntilFault'
  <2>1. RequestIsThere'
    BY <1>1, <1>2 DEF LifecycleInv, Always, UntilFault, RequestIsThere, CallbackKnows,
       Transiting, At
  <2>2. Taken'
    BY <1>1, <1>2 DEF LifecycleInv, UntilFault, Taken, Failing, FromReady, At
  <2>3. BeforeStop'
    BY <1>1, <1>2 DEF LifecycleInv, UntilFault, BeforeStop
  <2>4. StopDeleted'
    BY <1>2 DEF LifecycleInv, UntilFault, StopDeleted
  <2>5. SuccessIsTaken'
    BY <1>2 DEF LifecycleInv, UntilFault, SuccessIsTaken
  <2> QED
    BY <2>1, <2>2, <2>3, <2>4, <2>5 DEF UntilFault
<1>6. UntilRace'
  <2>1. OneHooked'
    BY <1>1, <1>2 DEF LifecycleInv, UntilRace, OneHooked, Hooked, Calm
  <2>2. FailsAlone'
    BY <1>1, <1>2 DEF LifecycleInv, UntilRace, FailsAlone, WritesError, Transiting, Calm,
       At
  <2>3. StartSeen'
    BY <1>1, <1>2 DEF LifecycleInv, UntilRace, StartSeen, FailsAlone, WritesError,
       Starting, Transiting, Calm, At
  <2>4. RequestIsUsed'
    BY <1>1, <1>2 DEF LifecycleInv, UntilRace, RequestIsUsed, Calm, At
  <2>5. Agreement'
    BY <1>1 DEF Agreement, At
  <2>6. NothingFails'
    BY <1>1, <1>2 DEF LifecycleInv, UntilRace, NothingFails, Failing, Calm, At
  <2>7. StartedOnce'
    BY <1>2 DEF LifecycleInv, UntilRace, StartedOnce
  <2> QED
    BY <2>1, <2>2, <2>3, <2>4, <2>5, <2>6, <2>7 DEF UntilRace
<1> QED
  BY <1>3, <1>4, <1>5, <1>6 DEF LifecycleInv

LEMMA FailUpdateKeeps ==
    ASSUME TypeOK, LifecycleInv,
           NEW b \in Callbacks,
           FailUpdate(b)
    PROVE  TypeOK' /\ LifecycleInv'
<1>1. /\ At(b, "fail update")
      /\ status' = "error"
      /\ answered' = (answered \/ FromReady(b))
      /\ callback'[b].pc = "idle"
      /\ callback'[b].op = "ready"
      /\ callback'[b].seen = "none"
      /\ callback'[b].failed = FALSE
      /\ \A c \in Callbacks : c # b => callback'[c] = callback[c]
  BY ReplyEffect DEF FailUpdate
<1>2. /\ UNCHANGED <<mode, state, request, named, env, engine, create, stop, faults, starts,
                     raced, condition, overtaken>>
  BY DEF FailUpdate, Undisturbed
<1>3. TypeOK'
  <2>1. callback' \in [Callbacks -> CallbackStates] /\ answered' \in BOOLEAN /\ attempts'
        \in 0 .. Attempts
    BY ReplyTyped DEF FailUpdate
  <2>2. status' \in States
    BY <1>1 DEF States
  <2> QED
    BY <1>2, <2>1, <2>2 DEF TypeOK
<1>4. Always'
  <2>1. Phases'
    BY <1>1, <1>2 DEF LifecycleInv, Always, Phases, CallbackKnows, Transiting, At
  <2>2. StopKnows'
    BY <1>1, <1>2 DEF LifecycleInv, Always, StopKnows
  <2>3. CallbackKnows'
    BY <1>1, <1>2 DEF LifecycleInv, Always, CallbackKnows, Transiting, At, Starting,
       FromReady
  <2> QED
    BY <2>1, <2>2, <2>3 DEF Always
<1>5. UntilFault'
  <2>1. RequestIsThere'
    BY <1>1, <1>2 DEF LifecycleInv, UntilFault, RequestIsThere
  <2>2. Taken'
    BY <1>1 DEF Taken
  <2>3. BeforeStop'
    BY <1>1, <1>2 DEF LifecycleInv, Always, UntilFault, BeforeStop, CallbackKnows,
       Transiting, At
  <2>4. StopDeleted'
    BY <1>2 DEF LifecycleInv, UntilFault, StopDeleted
  <2>5. SuccessIsTaken'
    BY <1>1 DEF SuccessIsTaken
  <2> QED
    BY <2>1, <2>2, <2>3, <2>4, <2>5 DEF UntilFault
<1>6. UntilRace'
  <2>1. OneHooked'
    BY <1>1, <1>2 DEF LifecycleInv, UntilRace, OneHooked, Hooked, Calm
  <2>2. FailsAlone'
    BY <1>1, <1>2 DEF LifecycleInv, UntilRace, FailsAlone, WritesError, Transiting, Calm
  <2>3. StartSeen'
    BY <1>1, <1>2 DEF LifecycleInv, UntilRace, StartSeen, Starting, Calm, At
  <2>4. RequestIsUsed'
    BY <1>1, <1>2 DEF LifecycleInv, UntilRace, RequestIsUsed, Calm, At
  <2>5. Agreement'
    BY <1>1, <1>2 DEF LifecycleInv, UntilRace, Agreement, StartSeen, Calm
  <2>6. NothingFails'
    BY <1>1, <1>2 DEF LifecycleInv, UntilRace, NothingFails, Failing, Calm, At
  <2>7. StartedOnce'
    BY <1>2 DEF LifecycleInv, UntilRace, StartedOnce
  <2> QED
    BY <2>1, <2>2, <2>3, <2>4, <2>5, <2>6, <2>7 DEF UntilRace
<1> QED
  BY <1>3, <1>4, <1>5, <1>6 DEF LifecycleInv

\* The engine of a command that failed may have been started.
LEMMA CommandFailsKeeps ==
    ASSUME TypeOK, LifecycleInv,
           NEW b \in Callbacks,
           CommandFails(b)
    PROVE  TypeOK' /\ LifecycleInv'
<1>1. /\ ~At(b, "idle")
      /\ \A c \in Callbacks : c # b => callback'[c] = callback[c]
      /\ callback' \in [Callbacks -> CallbackStates]
      /\ attempts' \in 0 .. Attempts
      /\ answered' \in BOOLEAN
      /\ answered' => answered \/ At(b, "drop") \/ (Failing(b) /\ FromReady(b))
      /\ \/ /\ callback'[b].pc = "idle" /\ callback'[b].op = "ready"
               /\ callback'[b].seen = "none"
         \/ /\ callback'[b].pc \in {"fail", "drop"} /\ Starting(b)
            /\ callback'[b].op = callback[b].op /\ callback'[b].seen = callback[b].seen
  <2> DEFINE ends == /\ callback'[b].pc = "idle" /\ callback'[b].op = "ready"
                    /\ callback'[b].seen = "none"
  <2> DEFINE goes == /\ callback'[b].pc \in {"fail", "drop"} /\ callback'[b].op = callback[b].op
                    /\ callback'[b].seen = callback[b].seen
  <2> DEFINE typed == /\ callback' \in [Callbacks -> CallbackStates]
                     /\ attempts' \in 0 .. Attempts /\ answered' \in BOOLEAN
  <2> DEFINE same == \A c \in Callbacks : c # b => callback'[c] = callback[c]
  <2>a. answered \in BOOLEAN /\ attempts \in 0 .. Attempts
    BY DEF TypeOK
  <2>1. CASE Reply(b, FALSE)
    <3>1. ends /\ same /\ answered' = (answered \/ (FALSE /\ FromReady(b)))
      BY <2>1, ReplyEffect
    <3>2. typed
      BY <2>1, ReplyTyped
    <3>3. ~At(b, "idle")
      BY DEF CommandFails, At
    <3> QED
      BY <2>a, <3>1, <3>2, <3>3
  <2>2. CASE Reply(b, TRUE) /\ (At(b, "drop") \/ Failing(b))
    <3>1. ends /\ same /\ answered' = (answered \/ (TRUE /\ FromReady(b)))
      BY <2>2, ReplyEffect
    <3>2. typed
      BY <2>2, ReplyTyped
    <3> QED
      BY <2>2, <2>a, <3>1, <3>2 DEF At, Failing
  <2>3. CASE Goto(b, "fail") /\ Silent /\ Starting(b)
    <3>1. goes /\ same
      BY <2>3, GotoEffect
    <3>2. typed /\ answered' = answered
      BY <2>3, <2>a, GotoTyped DEF Silent
    <3> QED
      BY <2>3, <2>a, <3>1, <3>2 DEF At, Starting
  <2>4. CASE Hold(b, "drop", TRUE) /\ Silent /\ Starting(b)
    <3>1. goes /\ same
      BY <2>4, HoldEffect
    <3>2. typed /\ answered' = answered
      BY <2>4, <2>a, HoldTyped DEF Silent
    <3> QED
      BY <2>4, <2>a, <3>1, <3>2 DEF At, Starting
  <2> QED
    BY <2>1, <2>2, <2>3, <2>4 DEF CommandFails, At, Starting, Failing
<1>2. /\ faults' \in 0 .. MaxFaults
      /\ engine' \in BOOLEAN
      /\ starts' \in 0 .. 2
      /\ starts' # starts => At(b, "start")
  <2>1. faults' \in 0 .. MaxFaults
    BY FaultCounts DEF CommandFails
  <2>2. engine' \in BOOLEAN
    BY DEF CommandFails, EngineStarts, TypeOK
  <2>3. starts' \in 0 .. 2 /\ (starts' # starts => At(b, "start"))
    <3>1. starts' = starts \/ (At(b, "start")
          /\ starts' = IF starts < 2 THEN starts + 1 ELSE starts)
      BY DEF CommandFails, EngineStarts
    <3> QED
      BY <3>1 DEF TypeOK
  <2> QED
    BY <2>1, <2>2, <2>3
<1>3. /\ UNCHANGED <<mode, status, state, request, named, env, create, stop, raced, condition,
                     overtaken>>
  BY DEF CommandFails, Undisturbed, stores
<1>4. TypeOK'
  BY <1>1, <1>2, <1>3 DEF TypeOK
<1>5. Always'
  <2>1. Phases'
    BY <1>1, <1>2, <1>3 DEF LifecycleInv, Always, Phases, CallbackKnows, Transiting, At
  <2>2. StopKnows'
    BY <1>3 DEF LifecycleInv, Always, StopKnows
  <2>3. CallbackKnows'
    BY <1>1, <1>3 DEF LifecycleInv, Always, CallbackKnows, Transiting, At, Starting,
       Failing, FromReady
  <2> QED
    BY <2>1, <2>2, <2>3 DEF Always
<1>6. UntilFault' /\ UntilRace'
  BY FaultCounts, FaultEnds DEF CommandFails
<1> QED
  BY <1>4, <1>5, <1>6 DEF LifecycleInv

LEMMA CutKeeps ==
    ASSUME TypeOK, LifecycleInv,
           NEW b \in Callbacks,
           Cut(b)
    PROVE  TypeOK' /\ LifecycleInv'
<1>1. /\ answered' = answered
      /\ callback'[b].pc = "idle"
      /\ callback'[b].op = "ready"
      /\ callback'[b].seen = "none"
      /\ callback'[b].failed = FALSE
      /\ \A c \in Callbacks : c # b => callback'[c] = callback[c]
  <2>1. Reply(b, FALSE)
    BY DEF Cut
  <2>2. answered' = answered
    BY <2>1 DEF Reply, TypeOK
  <2> QED
    BY <2>1, <2>2, ReplyEffect
<1>2. /\ faults' \in 0 .. MaxFaults
  BY FaultCounts DEF Cut
<1>3. /\ UNCHANGED <<mode, status, state, request, named, env, engine, create, stop, starts,
                     raced, condition, overtaken>>
  BY DEF Cut, Undisturbed, stores
<1>4. TypeOK'
  <2>1. callback' \in [Callbacks -> CallbackStates] /\ answered' \in BOOLEAN /\ attempts'
        \in 0 .. Attempts
    BY ReplyTyped DEF Cut
  <2> QED
    BY <1>2, <1>3, <2>1 DEF TypeOK
<1>5. Always'
  <2>1. Phases'
    BY <1>1, <1>3 DEF LifecycleInv, Always, Phases
  <2>2. StopKnows'
    BY <1>3 DEF LifecycleInv, Always, StopKnows
  <2>3. CallbackKnows'
    BY <1>1, <1>3 DEF LifecycleInv, Always, CallbackKnows, Transiting, At, Starting,
       Failing, FromReady
  <2> QED
    BY <2>1, <2>2, <2>3 DEF Always
<1>6. UntilFault' /\ UntilRace'
  BY FaultCounts, FaultEnds DEF Cut
<1> QED
  BY <1>4, <1>5, <1>6 DEF LifecycleInv

LEMMA StopLoadsKeeps ==
    ASSUME TypeOK, LifecycleInv,
           StopLoads
    PROVE  TypeOK' /\ LifecycleInv'
<1>1. /\ stop.pc = "idle"
      /\ status # "none"
      /\ stop'.pc = "delete"
      /\ stop'.open <=> status \notin {"finished", "error"}
      /\ stop'.named = named
      /\ overtaken' <=> ~named
  BY DEF StopLoads
<1>2. /\ UNCHANGED <<mode, status, state, request, named, env, engine, create, attempts,
                     callback, faults, starts, answered, raced, condition>>
  BY DEF StopLoads, NotStop, stores, host
<1>3. TypeOK'
  BY <1>2 DEF TypeOK, StopLoads
<1>4. Always'
  <2>1. Phases'
    BY <1>2 DEF LifecycleInv, Always, Phases
  <2>2. StopKnows'
    BY <1>1, <1>2 DEF StopKnows
  <2>3. CallbackKnows'
    BY <1>2 DEF LifecycleInv, Always, CallbackKnows, Transiting, At, Starting, Failing,
       FromReady
  <2> QED
    BY <2>1, <2>2, <2>3 DEF Always
<1>5. UntilFault'
  <2>1. RequestIsThere'
    BY <1>2 DEF LifecycleInv, UntilFault, RequestIsThere
  <2>2. Taken'
    BY <1>2 DEF LifecycleInv, UntilFault, Taken, Failing, FromReady
  <2>3. BeforeStop'
    BY <1>1 DEF BeforeStop
  <2>4. StopDeleted'
    BY <1>1 DEF StopDeleted
  <2>5. SuccessIsTaken'
    BY <1>2 DEF LifecycleInv, UntilFault, SuccessIsTaken
  <2> QED
    BY <2>1, <2>2, <2>3, <2>4, <2>5 DEF UntilFault
<1>6. UntilRace'
  <2>1. OneHooked'
    BY <1>2 DEF LifecycleInv, UntilRace, OneHooked, Hooked, Calm
  <2>2. FailsAlone'
    BY <1>2 DEF LifecycleInv, UntilRace, FailsAlone, WritesError, Transiting, Calm
  <2>3. StartSeen'
    BY <1>2 DEF LifecycleInv, UntilRace, StartSeen, Starting, Calm, At
  <2>4. RequestIsUsed'
    BY <1>2 DEF LifecycleInv, UntilRace, RequestIsUsed, Calm, At
  <2>5. Agreement'
    BY <1>1, <1>2 DEF LifecycleInv, UntilRace, Agreement, Ahead, Calm, At, FromReady
  <2>6. NothingFails'
    BY <1>1 DEF NothingFails
  <2>7. StartedOnce'
    BY <1>2 DEF LifecycleInv, UntilRace, StartedOnce
  <2> QED
    BY <2>1, <2>2, <2>3, <2>4, <2>5, <2>6, <2>7 DEF UntilRace
<1> QED
  BY <1>3, <1>4, <1>5, <1>6 DEF LifecycleInv

LEMMA StopDeletesKeeps ==
    ASSUME TypeOK, LifecycleInv,
           StopDeletes
    PROVE  TypeOK' /\ LifecycleInv'
<1>1. /\ stop.pc = "delete"
      /\ stop'.pc = "finish"
      /\ stop'.open = stop.open
      /\ stop'.named = stop.named
      /\ env' = (env /\ ~stop.named)
      /\ engine' = (engine /\ ~stop.named)
  BY DEF StopDeletes, StopStep, TypeOK, Racing
<1>2. /\ UNCHANGED <<mode, status, state, request, named, create, attempts, callback, faults,
                     starts, answered, raced, condition, overtaken>>
  BY DEF StopDeletes, NotStop, StopStep, stores, host, Racing
<1>3. TypeOK'
  <2>1. stop' \in [pc : {"idle", "delete", "finish", "drop", "commit", "done"}, open : BOOLEAN,
        named : BOOLEAN]
    BY DEF TypeOK, StopDeletes, StopStep
  <2> QED
    BY <1>1, <1>2, <2>1 DEF TypeOK, States
<1>4. Always'
  <2>1. Phases'
    BY <1>2 DEF LifecycleInv, Always, Phases
  <2>2. StopKnows'
    BY <1>1, <1>2 DEF LifecycleInv, Always, StopKnows
  <2>3. CallbackKnows'
    BY <1>2 DEF LifecycleInv, Always, CallbackKnows, Transiting, At, Starting, Failing,
       FromReady
  <2> QED
    BY <2>1, <2>2, <2>3 DEF Always
<1>5. UntilFault'
  <2>1. RequestIsThere'
    BY <1>2 DEF LifecycleInv, UntilFault, RequestIsThere
  <2>2. Taken'
    BY <1>2 DEF LifecycleInv, UntilFault, Taken, Failing, FromReady
  <2>3. BeforeStop'
    BY <1>1 DEF BeforeStop
  <2>4. StopDeleted'
    BY <1>1 DEF StopDeleted
  <2>5. SuccessIsTaken'
    BY <1>2 DEF LifecycleInv, UntilFault, SuccessIsTaken
  <2> QED
    BY <2>1, <2>2, <2>3, <2>4, <2>5 DEF UntilFault
<1>6. UntilRace'
  <2>1. OneHooked'
    BY <1>2 DEF LifecycleInv, UntilRace, OneHooked, Hooked, Calm
  <2>2. FailsAlone'
    BY <1>2 DEF LifecycleInv, UntilRace, FailsAlone, WritesError, Transiting, Calm
  <2>3. StartSeen'
    BY <1>2 DEF LifecycleInv, UntilRace, StartSeen, Starting, Calm, At
  <2>4. RequestIsUsed'
    BY <1>2 DEF LifecycleInv, UntilRace, RequestIsUsed, Calm, At
  <2>5. Agreement'
    BY <1>1, <1>2 DEF LifecycleInv, UntilRace, Agreement, Ahead, Calm, At, FromReady
  <2>6. NothingFails'
    BY <1>1 DEF NothingFails
  <2>7. StartedOnce'
    BY <1>2 DEF LifecycleInv, UntilRace, StartedOnce
  <2> QED
    BY <2>1, <2>2, <2>3, <2>4, <2>5, <2>6, <2>7 DEF UntilRace
<1> QED
  BY <1>3, <1>4, <1>5, <1>6 DEF LifecycleInv

LEMMA StopFinishesTasksKeeps ==
    ASSUME TypeOK, LifecycleInv,
           StopFinishesTasks
    PROVE  TypeOK' /\ LifecycleInv'
<1>1. /\ stop.pc = "finish"
      /\ stop'.pc = "drop"
      /\ stop'.open = stop.open
      /\ stop'.named = stop.named
      /\ status' = (IF stop.open THEN "finished" ELSE status)
      /\ raced' \in BOOLEAN /\ (~raced' => ~raced /\ \A c \in Callbacks : ~Transiting(c))
  BY DEF StopFinishesTasks, StopStep, TypeOK, Racing
<1>2. /\ UNCHANGED <<mode, state, request, named, env, engine, create, attempts, callback,
                     faults, starts, answered, condition, overtaken>>
  BY DEF StopFinishesTasks, NotStop, StopStep, stores, host, Racing
<1>3. TypeOK'
  <2>1. stop' \in [pc : {"idle", "delete", "finish", "drop", "commit", "done"}, open : BOOLEAN,
        named : BOOLEAN]
    BY DEF TypeOK, StopFinishesTasks, StopStep
  <2> QED
    BY <1>1, <1>2, <2>1 DEF TypeOK, States
<1>4. Always'
  <2>1. Phases'
    BY <1>1, <1>2 DEF LifecycleInv, Always, Phases, StopKnows
  <2>2. StopKnows'
    BY <1>1, <1>2 DEF LifecycleInv, Always, StopKnows
  <2>3. CallbackKnows'
    BY <1>2 DEF LifecycleInv, Always, CallbackKnows, Transiting, At, Starting, Failing,
       FromReady
  <2> QED
    BY <2>1, <2>2, <2>3 DEF Always
<1>5. UntilFault'
  <2>1. RequestIsThere'
    BY <1>1, <1>2 DEF LifecycleInv, UntilFault, RequestIsThere
  <2>2. Taken'
    BY <1>1, <1>2 DEF LifecycleInv, UntilFault, Taken, Failing, FromReady
  <2>3. BeforeStop'
    BY <1>1 DEF BeforeStop
  <2>4. StopDeleted'
    BY <1>1, <1>2 DEF LifecycleInv, UntilFault, StopDeleted
  <2>5. SuccessIsTaken'
    BY <1>1, <1>2 DEF LifecycleInv, UntilFault, SuccessIsTaken
  <2> QED
    BY <2>1, <2>2, <2>3, <2>4, <2>5 DEF UntilFault
<1>6. UntilRace'
  <2>1. OneHooked'
    BY <1>1, <1>2 DEF LifecycleInv, UntilRace, OneHooked, Hooked, Calm
  <2>2. FailsAlone'
    BY <1>1, <1>2 DEF FailsAlone, Transiting, Calm
  <2>3. StartSeen'
    BY <1>1, <1>2 DEF StartSeen, Starting, Transiting, Calm, At
  <2>4. RequestIsUsed'
    BY <1>1, <1>2 DEF LifecycleInv, UntilRace, RequestIsUsed, Calm, At
  <2>5. Agreement'
    BY <1>1, <1>2 DEF LifecycleInv, UntilRace, Agreement, Ahead, Calm, At, FromReady
  <2>6. NothingFails'
    BY <1>1 DEF NothingFails
  <2>7. StartedOnce'
    BY <1>1, <1>2 DEF LifecycleInv, UntilRace, StartedOnce
  <2> QED
    BY <2>1, <2>2, <2>3, <2>4, <2>5, <2>6, <2>7 DEF UntilRace
<1> QED
  BY <1>3, <1>4, <1>5, <1>6 DEF LifecycleInv

LEMMA StopDropsRequestKeeps ==
    ASSUME TypeOK, LifecycleInv,
           StopDropsRequest
    PROVE  TypeOK' /\ LifecycleInv'
<1>1. /\ stop.pc = "drop"
      /\ stop'.pc = "commit"
      /\ stop'.open = stop.open
      /\ stop'.named = stop.named
      /\ request' = FALSE
      /\ request' \in BOOLEAN
  BY DEF StopDropsRequest, StopStep, TypeOK, Racing
<1>2. /\ UNCHANGED <<mode, status, state, named, env, engine, create, attempts, callback,
                     faults, starts, answered, raced, condition, overtaken>>
  BY DEF StopDropsRequest, NotStop, StopStep, stores, host, Racing
<1>3. TypeOK'
  <2>1. stop' \in [pc : {"idle", "delete", "finish", "drop", "commit", "done"}, open : BOOLEAN,
        named : BOOLEAN]
    BY DEF TypeOK, StopDropsRequest, StopStep
  <2> QED
    BY <1>1, <1>2, <2>1 DEF TypeOK, States
<1>4. Always'
  <2>1. Phases'
    BY <1>2 DEF LifecycleInv, Always, Phases
  <2>2. StopKnows'
    BY <1>1, <1>2 DEF LifecycleInv, Always, StopKnows
  <2>3. CallbackKnows'
    BY <1>2 DEF LifecycleInv, Always, CallbackKnows, Transiting, At, Starting, Failing,
       FromReady
  <2> QED
    BY <2>1, <2>2, <2>3 DEF Always
<1>5. UntilFault'
  <2>1. RequestIsThere'
    BY <1>1, <1>2 DEF LifecycleInv, Always, UntilFault, RequestIsThere, StopKnows
  <2>2. Taken'
    BY <1>2 DEF LifecycleInv, UntilFault, Taken, Failing, FromReady
  <2>3. BeforeStop'
    BY <1>1 DEF BeforeStop
  <2>4. StopDeleted'
    BY <1>1, <1>2 DEF LifecycleInv, UntilFault, StopDeleted
  <2>5. SuccessIsTaken'
    BY <1>2 DEF LifecycleInv, UntilFault, SuccessIsTaken
  <2> QED
    BY <2>1, <2>2, <2>3, <2>4, <2>5 DEF UntilFault
<1>6. UntilRace'
  <2>1. OneHooked'
    BY <1>2 DEF LifecycleInv, UntilRace, OneHooked, Hooked, Calm
  <2>2. FailsAlone'
    BY <1>2 DEF LifecycleInv, UntilRace, FailsAlone, WritesError, Transiting, Calm
  <2>3. StartSeen'
    BY <1>2 DEF LifecycleInv, UntilRace, StartSeen, Starting, Calm, At
  <2>4. RequestIsUsed'
    BY <1>1, <1>2 DEF LifecycleInv, UntilRace, RequestIsUsed, Calm
  <2>5. Agreement'
    BY <1>1, <1>2 DEF LifecycleInv, UntilRace, Agreement, Ahead, Calm, At, FromReady
  <2>6. NothingFails'
    BY <1>1 DEF NothingFails
  <2>7. StartedOnce'
    BY <1>2 DEF LifecycleInv, UntilRace, StartedOnce
  <2> QED
    BY <2>1, <2>2, <2>3, <2>4, <2>5, <2>6, <2>7 DEF UntilRace
<1> QED
  BY <1>3, <1>4, <1>5, <1>6 DEF LifecycleInv

LEMMA StopCommitsKeeps ==
    ASSUME TypeOK, LifecycleInv,
           StopCommits
    PROVE  TypeOK' /\ LifecycleInv'
<1>1. /\ stop.pc = "commit"
      /\ stop'.pc = "done"
      /\ stop'.open = stop.open
      /\ stop'.named = stop.named
      /\ status' = "finished"
      /\ raced' \in BOOLEAN /\ (~raced' => ~raced /\ \A c \in Callbacks : ~Transiting(c))
  BY DEF StopCommits, StopStep, TypeOK, Racing
<1>2. /\ UNCHANGED <<mode, state, request, named, env, engine, create, attempts, callback,
                     faults, starts, answered, condition, overtaken>>
  BY DEF StopCommits, NotStop, StopStep, stores, host, Racing
<1>3. TypeOK'
  <2>1. stop' \in [pc : {"idle", "delete", "finish", "drop", "commit", "done"}, open : BOOLEAN,
        named : BOOLEAN]
    BY DEF TypeOK, StopCommits, StopStep
  <2> QED
    BY <1>1, <1>2, <2>1 DEF TypeOK, States
<1>4. Always'
  <2>1. Phases'
    BY <1>1, <1>2 DEF LifecycleInv, Always, Phases, StopKnows
  <2>2. StopKnows'
    BY <1>1, <1>2 DEF LifecycleInv, Always, StopKnows
  <2>3. CallbackKnows'
    BY <1>2 DEF LifecycleInv, Always, CallbackKnows, Transiting, At, Starting, Failing,
       FromReady
  <2> QED
    BY <2>1, <2>2, <2>3 DEF Always
<1>5. UntilFault'
  <2>1. RequestIsThere'
    BY <1>1, <1>2 DEF LifecycleInv, UntilFault, RequestIsThere
  <2>2. Taken'
    BY <1>1 DEF Taken
  <2>3. BeforeStop'
    BY <1>1 DEF BeforeStop
  <2>4. StopDeleted'
    BY <1>1, <1>2 DEF LifecycleInv, UntilFault, StopDeleted
  <2>5. SuccessIsTaken'
    BY <1>1 DEF SuccessIsTaken
  <2> QED
    BY <2>1, <2>2, <2>3, <2>4, <2>5 DEF UntilFault
<1>6. UntilRace'
  <2>1. OneHooked'
    BY <1>1, <1>2 DEF LifecycleInv, UntilRace, OneHooked, Hooked, Calm
  <2>2. FailsAlone'
    BY <1>1, <1>2 DEF FailsAlone, Transiting, Calm
  <2>3. StartSeen'
    BY <1>1, <1>2 DEF StartSeen, Starting, Transiting, Calm, At
  <2>4. RequestIsUsed'
    BY <1>1, <1>2 DEF LifecycleInv, UntilRace, RequestIsUsed, Calm, At
  <2>5. Agreement'
    BY <1>1 DEF Agreement
  <2>6. NothingFails'
    BY <1>1 DEF NothingFails
  <2>7. StartedOnce'
    BY <1>1, <1>2 DEF LifecycleInv, UntilRace, StartedOnce
  <2> QED
    BY <2>1, <2>2, <2>3, <2>4, <2>5, <2>6, <2>7 DEF UntilRace
<1> QED
  BY <1>3, <1>4, <1>5, <1>6 DEF LifecycleInv

\* A refusal without a fault comes to a Stop that has no name.
LEMMA StopRefusedKeeps ==
    ASSUME TypeOK, LifecycleInv,
           StopRefused
    PROVE  TypeOK' /\ LifecycleInv'
<1>1. /\ stop.pc = "delete"
      /\ stop'.pc = "commit"
      /\ stop'.open = stop.open
      /\ stop'.named = stop.named
      /\ faults' \in 0 .. MaxFaults
      /\ faults' = 0 => ~stop.named /\ faults = 0
  BY FaultCounts DEF StopRefused, StopStep, TypeOK
<1>2. /\ UNCHANGED <<mode, status, state, request, named, env, engine, create, attempts,
                     callback, starts, answered, raced, condition, overtaken>>
  BY DEF StopRefused, StopStep, stores, host, history
<1>3. TypeOK'
  <2>1. stop' \in [pc : {"idle", "delete", "finish", "drop", "commit", "done"}, open : BOOLEAN,
        named : BOOLEAN]
    BY DEF TypeOK, StopRefused, StopStep
  <2> QED
    BY <1>1, <1>2, <2>1 DEF TypeOK
<1>4. Always'
  <2>1. Phases'
    BY <1>2 DEF LifecycleInv, Always, Phases
  <2>2. StopKnows'
    BY <1>1, <1>2 DEF LifecycleInv, Always, StopKnows
  <2>3. CallbackKnows'
    BY <1>2 DEF LifecycleInv, Always, CallbackKnows, Transiting, At, Starting, Failing,
       FromReady
  <2> QED
    BY <2>1, <2>2, <2>3 DEF Always
<1>5. UntilFault'
  <2>1. RequestIsThere'
    BY <1>1, <1>2 DEF LifecycleInv, UntilFault, RequestIsThere
  <2>2. Taken'
    BY <1>1, <1>2 DEF LifecycleInv, UntilFault, Taken, Failing, FromReady
  <2>3. BeforeStop'
    BY <1>1 DEF BeforeStop
  <2>4. StopDeleted'
    BY <1>1 DEF StopDeleted
  <2>5. SuccessIsTaken'
    BY <1>1, <1>2 DEF LifecycleInv, UntilFault, SuccessIsTaken
  <2> QED
    BY <2>1, <2>2, <2>3, <2>4, <2>5 DEF UntilFault
<1>6. UntilRace'
  <2>1. OneHooked'
    BY <1>1, <1>2 DEF LifecycleInv, UntilRace, OneHooked, Hooked, Calm
  <2>2. FailsAlone'
    BY <1>1, <1>2 DEF LifecycleInv, UntilRace, FailsAlone, WritesError, Transiting, Calm
  <2>3. StartSeen'
    BY <1>1, <1>2 DEF LifecycleInv, UntilRace, StartSeen, Starting, Calm, At
  <2>4. RequestIsUsed'
    BY <1>1, <1>2 DEF LifecycleInv, UntilRace, RequestIsUsed, Calm, At
  <2>5. Agreement'
    BY <1>1, <1>2 DEF LifecycleInv, UntilRace, Agreement, Ahead, Calm, At, FromReady
  <2>6. NothingFails'
    BY <1>1 DEF NothingFails
  <2>7. StartedOnce'
    BY <1>1, <1>2 DEF LifecycleInv, UntilRace, StartedOnce
  <2> QED
    BY <2>1, <2>2, <2>3, <2>4, <2>5, <2>6, <2>7 DEF UntilRace
<1> QED
  BY <1>3, <1>4, <1>5, <1>6 DEF LifecycleInv

LEMMA RestartKeeps ==
    ASSUME TypeOK, LifecycleInv,
           Restart
    PROVE  TypeOK' /\ LifecycleInv'
<1>1. /\ create' = (IF create = "idle" THEN "idle" ELSE "done")
      /\ stop'.pc = (IF stop.pc = "idle" THEN "idle" ELSE "done")
      /\ stop'.named = stop.named
      /\ \A c \in Callbacks : callback'[c].pc = "idle" /\ callback'[c].op = "ready"
         /\ callback'[c].seen = "none"
      /\ faults' \in 0 .. MaxFaults
      /\ status' \in {status, "error"}
      /\ status = "none" => status' = "none"
  BY FaultCounts DEF Restart, TypeOK, IdleCallback
<1>2. /\ UNCHANGED <<mode, state, request, named, env, starts, answered, raced, condition,
                     overtaken>>
  BY DEF Restart, history
<1>3. TypeOK'
  <2>1. stop' \in [pc : {"idle", "delete", "finish", "drop", "commit", "done"}, open : BOOLEAN,
        named : BOOLEAN]
    BY DEF TypeOK, Restart
  <2>2. callback' \in [Callbacks -> CallbackStates]
    BY DEF Restart, IdleCallback, CallbackStates, States
  <2>3. engine' \in BOOLEAN
    BY DEF TypeOK, Restart
  <2>4. attempts' \in 0 .. Attempts
    BY LifecycleAssumption DEF TypeOK, Restart
  <2> QED
    BY <1>1, <1>2, <2>1, <2>2, <2>3, <2>4 DEF TypeOK, States
<1>4. Always'
  <2>1. Phases'
    BY <1>1, <1>2 DEF LifecycleInv, Always, Phases
  <2>2. StopKnows'
    BY <1>1, <1>2 DEF LifecycleInv, Always, StopKnows
  <2>3. CallbackKnows'
    BY <1>1 DEF CallbackKnows, Transiting, At, Starting, Failing
  <2> QED
    BY <2>1, <2>2, <2>3 DEF Always
<1>5. UntilFault' /\ UntilRace'
  BY FaultCounts, FaultEnds DEF Restart
<1> QED
  BY <1>3, <1>4, <1>5 DEF LifecycleInv

LEMMA StutterKeeps ==
    ASSUME TypeOK, LifecycleInv, UNCHANGED vars
    PROVE  TypeOK' /\ LifecycleInv'
<1>1. UNCHANGED <<mode, status, state, request, named, env, engine, create, stop, attempts,
                  callback, faults, starts, answered, raced, condition, overtaken>>
  BY DEF vars, stores, host, history
<1>2. TypeOK'
  BY <1>1 DEF TypeOK
<1>3. Always'
  BY <1>1 DEF LifecycleInv, Always, Phases, StopKnows, CallbackKnows, Transiting,
     Starting, Failing, FromReady, At
<1>4. UntilFault'
  BY <1>1 DEF LifecycleInv, UntilFault, RequestIsThere, Taken, BeforeStop, StopDeleted,
     SuccessIsTaken, Failing, FromReady
<1>5. (OneHooked /\ FailsAlone /\ StartSeen)'
  BY <1>1 DEF LifecycleInv, UntilRace, OneHooked, FailsAlone, StartSeen, Calm, Hooked,
     WritesError, Transiting, Starting, At
<1>6. (RequestIsUsed /\ Agreement /\ NothingFails /\ StartedOnce)'
  BY <1>1 DEF LifecycleInv, UntilRace, RequestIsUsed, Agreement, NothingFails,
     StartedOnce, Calm, Ahead, FromReady, Failing, At
<1> QED
  BY <1>2, <1>3, <1>4, <1>5, <1>6 DEF LifecycleInv, UntilRace

LEMMA CallbackKeeps ==
    ASSUME TypeOK, LifecycleInv, NEW b \in Callbacks,
           Ready(b) \/ Condition(b) \/ CallbackNext(b) \/ CommandFails(b) \/ Cut(b)
    PROVE  TypeOK' /\ LifecycleInv'
BY ReadyKeeps, ConditionKeeps, GetKeeps, SetKeeps, CheckKeeps, FetchKeeps, UpdateKeeps,
   StartEngineKeeps, DropKeeps, FailKeeps, FailSetKeeps, FailUpdateKeeps,
   CommandFailsKeeps, CutKeeps DEF CallbackNext

LEMMA StepKeeps == TypeOK /\ LifecycleInv /\ [Next]_vars => TypeOK' /\ LifecycleInv'
<1> SUFFICES ASSUME TypeOK, LifecycleInv, [Next]_vars PROVE TypeOK' /\ LifecycleInv'
  OBVIOUS
<1>1. CASE PrepareCreate \/ CreateNext
  BY <1>1, PrepareCreateKeeps, CreateEnvironmentKeeps, CompleteCreateKeeps,
     StoreRequestKeeps, MakePendingKeeps DEF CreateNext
<1>2. CASE \E b \in Callbacks :
             Ready(b) \/ Condition(b) \/ CallbackNext(b) \/ CommandFails(b) \/ Cut(b)
  BY <1>2, CallbackKeeps
<1>3. CASE StopLoads \/ StopNext \/ StopRefused
  BY <1>3, StopLoadsKeeps, StopDeletesKeeps, StopFinishesTasksKeeps,
     StopDropsRequestKeeps, StopCommitsKeeps, StopRefusedKeeps DEF StopNext
<1>4. CASE CreateFails \/ RequestExpires \/ Restart
  BY <1>4, CreateFailsKeeps, RequestExpiresKeeps, RestartKeeps
<1>5. CASE UNCHANGED vars
  BY <1>5, StutterKeeps
<1> QED
  BY <1>1, <1>2, <1>3, <1>4, <1>5 DEF Next, Faults

LEMMA InitKeeps == Init => TypeOK /\ LifecycleInv
<1> SUFFICES ASSUME Init PROVE TypeOK /\ LifecycleInv
  OBVIOUS
<1>1. \A c \in Callbacks : callback[c].pc = "idle" /\ callback[c].op = "ready"
                             /\ callback[c].seen = "none" /\ ~callback[c].failed
  BY DEF Init, IdleCallback
<1>2. TypeOK
  <2>1. callback \in [Callbacks -> CallbackStates]
    BY DEF Init, IdleCallback, CallbackStates, States
  <2>2. stop \in [pc : {"idle", "delete", "finish", "drop", "commit", "done"},
                 open : BOOLEAN, named : BOOLEAN]
    BY DEF Init, IdleStop
  <2>3. /\ request \in BOOLEAN /\ named \in BOOLEAN /\ env \in BOOLEAN
        /\ engine \in BOOLEAN /\ answered \in BOOLEAN /\ raced \in BOOLEAN
        /\ condition \in BOOLEAN /\ overtaken \in BOOLEAN
    BY DEF Init
  <2>4. attempts \in 0 .. Attempts /\ faults \in 0 .. MaxFaults /\ starts \in 0 .. 2
    BY LifecycleAssumption DEF Init
  <2> QED
    BY <2>1, <2>2, <2>3, <2>4 DEF Init, TypeOK, States
<1>3. Always
  <2>1. Phases
    BY DEF Init, Phases
  <2>2. StopKnows
    BY DEF Init, StopKnows, IdleStop
  <2>3. CallbackKnows
    BY <1>1 DEF CallbackKnows, Transiting, Starting, Failing, At
  <2> QED
    BY <2>1, <2>2, <2>3 DEF Always
<1>4. UntilFault
  BY <1>1 DEF Init, UntilFault, RequestIsThere, Taken, BeforeStop, StopDeleted,
     SuccessIsTaken, IdleStop, Failing
<1>5. UntilRace
  <2>1. OneHooked /\ FailsAlone /\ StartSeen /\ NothingFails
    BY <1>1 DEF Init, OneHooked, FailsAlone, StartSeen, NothingFails, Hooked, WritesError,
       Starting, Failing, FromReady, At
  <2>2. RequestIsUsed /\ Agreement /\ StartedOnce
    BY DEF Init, RequestIsUsed, Agreement, StartedOnce
  <2> QED
    BY <2>1, <2>2 DEF UntilRace
<1> QED
  BY <1>2, <1>3, <1>4, <1>5 DEF LifecycleInv

-----------------------------------------------------------------------------
(* The theorems.                                                           *)

THEOREM LifecycleInvariant == Spec => [](TypeOK /\ LifecycleInv)
BY InitKeeps, StepKeeps, PTL DEF Spec

\* TypeOK for every instance.
THEOREM LifecycleTyped == Spec => []TypeOK
BY LifecycleInvariant, PTL

\* What notifyVMReady relies on: SuccessIsTaken for every instance.
THEOREM SuccessNeedsNoRetry == Spec => []SuccessIsTaken
<1>1. LifecycleInv => SuccessIsTaken
  BY DEF LifecycleInv, UntilFault
<1> QED
  BY <1>1, LifecycleInvariant, PTL

\* One engine for one task: StartedOnce for every instance.
THEOREM EngineStartsOnce == Spec => []StartedOnce
<1>1. LifecycleInv => StartedOnce
  BY DEF LifecycleInv, UntilRace
<1> QED
  BY <1>1, LifecycleInvariant, PTL

\* A task fails for a reason: NoSpuriousError for every instance.
THEOREM TaskFailsForAReason == Spec => []NoSpuriousError
<1>1. TypeOK /\ LifecycleInv => NoSpuriousError
  BY LifecycleAssumption DEF TypeOK, LifecycleInv, UntilRace, NothingFails,
     NoSpuriousError, Calm
<1> QED
  BY <1>1, LifecycleInvariant, PTL

\* Redis and the database agree at rest, but for what Stop has finished:
\* StoresAgree for every instance.
THEOREM StoresAgreeAtRest == Spec => []StoresAgree
<1>1. LifecycleInv => StoresAgree
  BY DEF LifecycleInv, UntilFault, UntilRace, RequestIsThere, Agreement, StoresAgree,
     Calm, Quiet, Ahead, At
<1> QED
  BY <1>1, LifecycleInvariant, PTL

\* A Stop that knows the environment deletes it, and no start that is under way
\* brings an engine back: StopLeavesNothing for every instance.
THEOREM StopIsThorough == Spec => []StopLeavesNothing
<1>1. LifecycleInv => StopLeavesNothing
  BY DEF LifecycleInv, Always, UntilFault, StopKnows, StopDeleted, StopLeavesNothing
<1> QED
  BY <1>1, LifecycleInvariant, PTL

\* A finished task is undone only by what was under way, or by a failed
\* condition: FinishedStays for every instance.
THEOREM FinishedIsLeftAlone == Spec => FinishedStays
<1>1. ASSUME TypeOK, LifecycleInv, [Next]_vars, status = "finished", status' # "finished"
      PROVE  \E b \in Callbacks : /\ callback[b].pc \in {"update", "fail update"}
                                  /\ \/ callback[b].seen # "finished"
                                     \/ callback[b].op = "condition"
  <2>1. PICK b \in Callbacks : Update(b) \/ FailUpdate(b)
    <3>1. ~PrepareCreate
      BY <1>1 DEF LifecycleInv, Always, Phases, PrepareCreate, CreateStep
    <3>2. ~(CreateNext \/ StopLoads \/ StopNext)
      BY <1>1 DEF CreateNext, CreateEnvironment, CompleteCreate, StoreRequest,
         MakePending, StopLoads, StopNext, StopDeletes, StopFinishesTasks,
         StopDropsRequest, StopCommits, stores
    <3>3. ~(CreateFails \/ RequestExpires \/ Restart \/ StopRefused \/ UNCHANGED vars)
      BY <1>1 DEF CreateFails, RequestExpires, Restart, StopRefused, vars, stores
    <3>4. ASSUME NEW b \in Callbacks, ~Update(b), ~FailUpdate(b)
          PROVE  ~(Ready(b) \/ Condition(b) \/ CallbackNext(b) \/ CommandFails(b) \/ Cut(b))
      BY <1>1, <3>4 DEF Ready, Condition, CallbackNext, Get, Set, Check, Fetch,
         StartEngine, Drop, Fail, FailSet, CommandFails, Cut, stores
    <3> QED
      BY <1>1, <3>1, <3>2, <3>3, <3>4 DEF Next, Faults
  <2>2. callback[b].pc \in {"update", "fail update"}
    BY <2>1 DEF Update, FailUpdate, At
  <2>3. callback[b].op \in {"ready", "condition"}
    BY <1>1 DEF TypeOK, CallbackStates
  <2>4. callback[b].seen # "finished" \/ callback[b].op = "condition"
    BY <1>1, <2>3 DEF LifecycleInv, Always, CallbackKnows, FromReady
  <2> QED
    BY <2>2, <2>4
<1>2. TypeOK /\ LifecycleInv /\ [Next]_vars =>
        [status = "finished" /\ status' # "finished" =>
           \E b \in Callbacks : /\ callback[b].pc \in {"update", "fail update"}
                                /\ \/ callback[b].seen # "finished"
                                   \/ callback[b].op = "condition"]_vars
  BY <1>1
<1> QED
  BY <1>2, LifecycleInvariant, PTL DEF Spec, FinishedStays
=============================================================================
