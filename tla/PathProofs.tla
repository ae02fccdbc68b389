------------------------------ MODULE PathProofs ------------------------------
(***************************************************************************)
(* The path to the hardware, for every board and every processor: what     *)
(* the audio task does to the hardware between and in its sessions is what *)
(* Hardware says, and that is what AudioPath promises.                     *)
(*                                                                         *)
(* Both the promise and Hardware's own invariants come from one inductive  *)
(* invariant, HwInv: which objects exist, which channels run and what is   *)
(* tracked follow, in an opening, from the call it is at; in a deinit, from*)
(* the calls it has made; and at rest, from the state.                     *)
(***************************************************************************)
EXTENDS FramePath, TLAPS

----------------------------------------------------------------------------
(* FramePath implements Hardware.                                          *)

\* Sessions, processor and main leave the hardware alone, and between sessions
\* the audio task's steps on it are Hardware's.
LEMMA PathSteps == ASSUME [Next]_vars PROVE [HwNext]_hwVars
  <1>1. CASE PathStep
    <2>1. CASE OpenPath
      BY <2>1 DEF OpenPath, HwNext
    <2>2. CASE MovePath
      BY <2>2 DEF MovePath, HwNext
    <2>3. CASE ClosePath
      BY <2>3 DEF ClosePath, HwNext
    <2>4. CASE ServeIdle
      BY <2>4 DEF ServeIdle
    <2>5. CASE StartSession
      BY <2>5 DEF StartSession
    <2>6. QED
      BY <1>1, <2>1, <2>2, <2>3, <2>4, <2>5 DEF PathStep
  <1>2. CASE Session
    <2>1. CASE EndSession \/ PrepareRevision \/ PrepareSpec \/ Allocate
      BY <2>1 DEF EndSession, PrepareRevision, PrepareSpec, Allocate
    <2>2. CASE Snapshot \/ ReadFrame \/ ReadFails
      BY <2>2 DEF Snapshot, ReadFrame, ReadFails
    <2>3. CASE Process \/ Transmit \/ CheckRevision \/ Decide
      BY <2>3 DEF Process, Transmit, CheckRevision, Decide
    <2>4. QED
      BY <1>2, <2>1, <2>2, <2>3 DEF Session
  <1>3. CASE Processor
    BY <1>3 DEF Processor, Rebuild, Resize, Bump, Publish
  <1>4. CASE Switch \/ StartSpeaker \/ Stop
    BY <1>4 DEF Switch, StartSpeaker, Stop
  <1>5. CASE UNCHANGED vars
    BY <1>5 DEF vars
  <1>6. QED
    BY <1>1, <1>2, <1>3, <1>4, <1>5 DEF Next

\* The sessions of the audio task run on the hardware Hardware describes, and
\* on nothing else (service_audio_lifecycle_(), audio_session_()).
THEOREM SessionsOnHardware == Spec => HwSpec
  <1>1. Init => HwInit
    BY DEF Init
  <1>2. [Next]_vars => [HwNext]_hwVars
    BY PathSteps
  <1>3. QED
    BY <1>1, <1>2, PTL DEF Spec, HwSpec

----------------------------------------------------------------------------
(* What Hardware says of its calls, call by call.                          *)

Objects == Channels \cup CodecObjects

\* The place of an object's call in an opening.
Place(object) ==
    CASE object = "tx" -> 2       [] object = "rx" -> 3
      [] object = "rxData" -> 8   [] object = "txData" -> 9    [] object = "data" -> 10
      [] object = "rxCtrl" -> 11  [] object = "rxCodec" -> 12
      [] object = "txCtrl" -> 13  [] object = "txCodec" -> 14
      [] object = "rxDev" -> 15   [] object = "txDev" -> 16

\* An opening makes the objects of its board in the order of their places, each
\* after the ones it uses; the channels run, the codec is open and the DMA
\* tracked from the call that does it.
Made(step) == {object \in Objects : Called(object) /\ Place(object) < step}

Started(step) ==
    {c \in {"tx"} : IF On("codec") THEN step > 20 ELSE step > 26}
        \cup {c \in {"rx"} : On("rx") /\ IF On("codec") THEN step > 21 ELSE step > 27}

OpenInv ==
    at.op = "open" =>
        /\ state \in {"PREPARING", "READY"}
        /\ state = "PREPARING" => at.step <= 6
        /\ state = "READY" => at.step > 6
        /\ held = Made(at.step)
        /\ enabled = Started(at.step)
        /\ opened <=> On("codec") /\ at.step > 23
        /\ tracking <=> at.step > 25

\* A deinit has taken down what its calls so far are for; it stays in ERROR,
\* once a preparation has failed, only until it is made again.
Gone(step) ==
    {object \in CodecObjects :
        \E i \in 4 .. 12 : i < step /\ DeinitPlan[i] = object}

DeinitInv ==
    at.op = "deinit" =>
        /\ at.step <= Len(DeinitPlan)
        /\ UsesHeld
        /\ held \cap Gone(at.step) = {}
        /\ at.step > 1 => ~tracking
        /\ at.step > 2 => state # "RUNNING"
        /\ at.step > 3 => ~opened
        /\ at.error => at.again

HwInv == HwTypeOK /\ OpenInv /\ DeinitInv /\ RestIsHonest

\* The audio task's place in an opening or a deinit.
Ats == [op : {"rest", "open", "deinit"}, step : 1 .. Len(OpenPlan), error : BOOLEAN, again : BOOLEAN]

\* The calls of an opening and of a deinit, one by one.
LEMMA Calls ==
    /\ Len(OpenPlan) = 27 /\ Len(DeinitPlan) = 15
    /\ OpenPlan[1] = "config" /\ OpenPlan[2] = "tx" /\ OpenPlan[3] = "rx"
    /\ OpenPlan[4] = "txMode" /\ OpenPlan[5] = "rxMode" /\ OpenPlan[6] = "ready"
    /\ OpenPlan[7] = "geometry" /\ OpenPlan[8] = "rxData" /\ OpenPlan[9] = "txData"
    /\ OpenPlan[10] = "data" /\ OpenPlan[11] = "rxCtrl" /\ OpenPlan[12] = "rxCodec"
    /\ OpenPlan[13] = "txCtrl" /\ OpenPlan[14] = "txCodec" /\ OpenPlan[15] = "rxDev"
    /\ OpenPlan[16] = "txDev" /\ OpenPlan[17] = "records" /\ OpenPlan[18] = "callback"
    /\ OpenPlan[19] = "prime" /\ OpenPlan[20] = "txOpen" /\ OpenPlan[21] = "rxOpen"
    /\ OpenPlan[22] = "gains" /\ OpenPlan[23] = "layouts" /\ OpenPlan[24] = "negotiated"
    /\ OpenPlan[25] = "track" /\ OpenPlan[26] = "txEnable" /\ OpenPlan[27] = "rxEnable"
    /\ DeinitPlan[1] = "untrack" /\ DeinitPlan[2] = "closeIo" /\ DeinitPlan[3] = "closeCodec"
    /\ DeinitPlan[4] = "rxDev" /\ DeinitPlan[5] = "txDev" /\ DeinitPlan[6] = "rxCodec"
    /\ DeinitPlan[7] = "txCodec" /\ DeinitPlan[8] = "rxCtrl" /\ DeinitPlan[9] = "txCtrl"
    /\ DeinitPlan[10] = "rxData" /\ DeinitPlan[11] = "txData" /\ DeinitPlan[12] = "data"
    /\ DeinitPlan[13] = "tx" /\ DeinitPlan[14] = "rx" /\ DeinitPlan[15] = "settle"
  BY DEF OpenPlan, DeinitPlan

\* A call of an opening that has an object's name makes the object of that place.
LEMMA Places ==
    ASSUME NEW i \in 1 .. Len(OpenPlan), NEW object \in Objects
    PROVE  OpenPlan[i] = object <=> Place(object) = i
  <1>1. i \in 1 .. 7 \/ i \in 8 .. 12 \/ i \in 13 .. 16 \/ i \in 17 .. 27
    BY Calls
  <1>2. CASE i \in 1 .. 7
    BY <1>2, Calls DEF Place, Objects, Channels, CodecObjects
  <1>3. CASE i \in 8 .. 12
    BY <1>3, Calls DEF Place, Objects, Channels, CodecObjects
  <1>4. CASE i \in 13 .. 16
    BY <1>4, Calls DEF Place, Objects, Channels, CodecObjects
  <1>5. CASE i \in 17 .. 27
    BY <1>5, Calls DEF Place, Objects, Channels, CodecObjects
  <1>6. QED
    BY <1>1, <1>2, <1>3, <1>4, <1>5

\* What the first calls of an opening have made, one call on.
LEMMA MadeNext ==
    ASSUME NEW i \in 1 .. Len(OpenPlan)
    PROVE  Made(i + 1) = Made(i) \cup {object \in Objects : object = OpenPlan[i] /\ Called(object)}
  <1>1. \A object \in Objects : Place(object) \in Nat
    BY DEF Place, Objects, Channels, CodecObjects
  <1>2. i \in Nat
    BY Calls
  <1>3. \A object \in Objects : Place(object) < i + 1 <=> Place(object) < i \/ object = OpenPlan[i]
    BY <1>1, <1>2, Places
  <1>4. QED
    BY <1>3 DEF Made

\* An opening makes what an object uses before the object.
LEMMA MadeUses ==
    ASSUME NEW i \in Nat, NEW object \in Made(i)
    PROVE  Uses(object) \subseteq Made(i)
  <1>1. object \in Objects /\ Called(object) /\ Place(object) < i
    BY DEF Made
  <1>2. ASSUME NEW used \in Uses(object)
        PROVE  used \in Objects /\ Called(used) /\ Place(used) < Place(object)
    <2> USE DEF Objects, Channels, CodecObjects
    <2>1. CASE object \in Channels
      BY <1>1, <1>2, <2>1 DEF Uses
    <2>2. CASE object \in {"rxData", "txData", "data"}
      BY <1>1, <1>2, <2>2 DEF Uses, Called, OfRx, OfCodec, Place
    <2>3. CASE object \in {"rxCtrl", "rxCodec", "txCtrl", "txCodec"}
      BY <1>1, <1>2, <2>3 DEF Uses, Called, OfRx, OfCodec, Place
    <2>4. CASE object = "rxDev"
      BY <1>1, <1>2, <2>4 DEF Uses, Interface, Called, OfRx, OfCodec, Place
    <2>5. CASE object = "txDev"
      BY <1>1, <1>2, <2>5 DEF Uses, Interface, Called, OfRx, OfCodec, Place
    <2>6. QED
      BY <1>1, <2>1, <2>2, <2>3, <2>4, <2>5
  <1>3. \A o \in Objects : Place(o) \in Nat
    BY DEF Place, Objects, Channels, CodecObjects
  <1>4. QED
    BY <1>1, <1>2, <1>3 DEF Made

\* Channels that run have a handle, in an opening.
LEMMA StartedMade ==
    ASSUME NEW i \in 1 .. Len(OpenPlan)
    PROVE  Started(i) \subseteq Made(i) \cap Channels
  BY Calls DEF Started, Made, Called, OfRx, OfCodec, Place, Objects, Channels, CodecObjects

\* No object that is still there uses one that a deinit has yet to come to.
LEMMA DeletedUnused ==
    ASSUME NEW i \in 4 .. 12, NEW obj \in Objects, DeinitPlan[i] \in Uses(obj)
    PROVE  obj \in Gone(i)
  <1> USE DEF Objects, Channels, CodecObjects
  <1>1. obj \in {"rxDev", "txDev"} \/ Uses(obj) \subseteq {"tx", "rx", "rxCtrl", "txCtrl"}
    BY DEF Uses
  <1>2. {"rxDev", "txDev"} \subseteq Gone(6)
    BY Calls DEF Gone
  <1> QED
    BY Calls DEF Uses, Interface, Gone

----------------------------------------------------------------------------
(* HwInv is inductive.                                                     *)

\* A deinit begins, from rest or after a failed call.
LEMMA DeinitBegins ==
    ASSUME NEW error \in BOOLEAN, NEW again \in BOOLEAN, error => again,
           at' = DeinitThen(error, again), HwTypeOK', UsesHeld'
    PROVE  HwInv'
  <1>1. /\ at'.op = "deinit" /\ at'.step = 1 /\ at'.error = error /\ at'.again = again
    BY DEF DeinitThen
  <1>2. Gone(1) = {}
    BY DEF Gone
  <1>3. DeinitInv'
    BY <1>1, <1>2, Calls DEF DeinitInv, Gone
  <1>4. QED
    BY <1>1, <1>3 DEF HwInv, OpenInv, RestIsHonest

\* An object is there with what it uses, at rest and in an opening too.
LEMMA HwUses == ASSUME HwInv PROVE UsesHeld
  <1>1. at.op \in {"rest", "open", "deinit"} /\ at.step \in Nat
    BY DEF HwInv, HwTypeOK
  <1>2. CASE at.op = "deinit"
    BY <1>2 DEF HwInv, DeinitInv
  <1>3. CASE at.op = "open"
    BY <1>1, <1>3, MadeUses DEF HwInv, OpenInv, UsesHeld
  <1>4. CASE at.op = "rest"
    <2>1. held \subseteq Channels \/ held = {o \in Objects : Called(o)}
      BY <1>4 DEF HwInv, RestIsHonest, Objects
    <2>2. CASE held \subseteq Channels
      BY <2>2 DEF UsesHeld, Uses, Channels
    <2>3. CASE held = {o \in Objects : Called(o)}
      <3>1. held = Made(28)
        BY <2>3 DEF Made, Place, Objects, Channels, CodecObjects
      <3>2. QED
        BY <3>1, MadeUses DEF UsesHeld
    <2>4. QED
      BY <2>1, <2>2, <2>3
  <1>5. QED
    BY <1>1, <1>2, <1>3, <1>4

\* The services of the audio task: an opening or a deinit.
LEMMA BeginStep == ASSUME HwInv, Begin PROVE HwInv'
  <1>1. CASE state = "ERROR"
    <2>1. at' = DeinitThen(FALSE, FALSE) /\ UNCHANGED <<board, state, held, enabled, opened, tracking>>
      BY <1>1 DEF Begin
    <2>2. UsesHeld'
      BY <2>1, HwUses DEF UsesHeld, Uses, Interface, On
    <2>3. HwTypeOK'
      BY <2>1, Calls DEF HwInv, HwTypeOK, DeinitThen, On
    <2>4. QED
      BY <2>1, <2>2, <2>3, DeinitBegins
  <1>2. CASE state # "ERROR"
    <2>1. held = {} /\ enabled = {} /\ ~opened /\ ~tracking
      BY <1>2 DEF Begin, HwInv, RestIsHonest, HwTypeOK
    <2>2. /\ at' = [Rest EXCEPT !.op = "open", !.step = 1]
          /\ state' = "PREPARING" /\ UNCHANGED <<board, held, enabled, opened, tracking>>
      BY <1>2, <2>1 DEF Begin
    <2>3. at'.op = "open" /\ at'.step = 1
      BY <2>2 DEF Rest
    <2>4. at' = [op |-> "open", step |-> 1, error |-> FALSE, again |-> FALSE]
      BY <2>2 DEF Rest
    <2>5. at' \in Ats
      BY <2>4, Calls DEF Ats
    <2>6. HwTypeOK'
      BY <2>2, <2>5 DEF HwInv, HwTypeOK, Ats, On
    <2>7. Made(1)' = {} /\ Started(1)' = {}
      BY DEF Made, Place, Objects, Channels, CodecObjects, Started
    <2>8. OpenInv'
      BY <2>1, <2>2, <2>3, <2>7 DEF OpenInv, Made, Started
    <2>9. QED
      BY <2>3, <2>6, <2>8 DEF HwInv, DeinitInv, RestIsHonest
  <1>3. QED
    BY <1>1, <1>2

LEMMA DeinitStep == ASSUME HwInv, Deinit PROVE HwInv'
  <1>1. at' = DeinitThen(FALSE, FALSE) /\ UNCHANGED <<board, state, held, enabled, opened, tracking>>
    BY DEF Deinit
  <1>2. UsesHeld'
    BY <1>1, HwUses DEF UsesHeld, Uses, Interface, On
  <1>3. HwTypeOK'
    BY <1>1, Calls DEF HwInv, HwTypeOK, DeinitThen, On
  <1>4. QED
    BY <1>1, <1>2, <1>3, DeinitBegins

\* A call of an opening that works.
LEMMA ProceedStep == ASSUME HwInv, Proceed PROVE HwInv'
  <1> DEFINE s == at.step  step == OpenPlan[s]
  <1>1. at.op = "open" /\ s \in 1 .. 27 /\ board' = board
    BY Calls DEF HwInv, HwTypeOK, Proceed
  <1>2. /\ state \in {"PREPARING", "READY"} /\ (state = "PREPARING" => s <= 6) /\ (state = "READY" => s > 6)
        /\ held = Made(s) /\ enabled = Started(s) /\ (opened <=> On("codec") /\ s > 23) /\ (tracking <=> s > 25)
    BY <1>1 DEF HwInv, OpenInv
  <1>3. held' = Made(s + 1)
    <2>1. held' = IF Called(step) /\ step \in Objects THEN held \cup {step} ELSE held
      BY DEF Proceed, Effect, Objects
    <2>2. Made(s + 1) = Made(s) \cup {object \in Objects : object = step /\ Called(object)}
      BY <1>1, MadeNext, Calls
    <2>3. QED
      BY <1>2, <2>1, <2>2
  <1>4. enabled' = Started(s + 1)
    <2>1. enabled' = IF Called(step)
                     THEN enabled \cup {c \in Channels : \/ c = "tx" /\ step \in {"txOpen", "txEnable"}
                                                         \/ c = "rx" /\ step \in {"rxOpen", "rxEnable"}}
                     ELSE enabled
      BY DEF Proceed, Effect
    <2>2. CASE s \in 1 .. 19
      BY <1>1, <1>2, <2>1, <2>2, Calls DEF Started
    <2>3. CASE s \in 20 .. 27
      BY <1>1, <1>2, <2>1, <2>3, Calls DEF Started, Called, OfRx, OfCodec, CodecObjects, Channels
    <2>4. QED
      BY <1>1, <2>2, <2>3
  <1>5. opened' <=> On("codec") /\ s + 1 > 23
    <2>1. opened' <=> opened \/ (Called(step) /\ step = "layouts")
      BY DEF Proceed, Effect, HwInv, HwTypeOK
    <2>2. Called("layouts") <=> On("codec")
      BY DEF Called, OfRx, OfCodec, CodecObjects
    <2>3. step = "layouts" <=> s = 23
      BY <1>1, Calls
    <2>4. QED
      BY <1>1, <1>2, <2>1, <2>2, <2>3
  <1>6. tracking' <=> s + 1 > 25
    <2>1. tracking' <=> IF Called(step) THEN step = "track" \/ (tracking /\ step # "records") ELSE tracking
      BY DEF Proceed, Effect, HwInv, HwTypeOK
    <2>2. Called("track") /\ Called("records")
      BY DEF Called, OfRx, OfCodec, CodecObjects
    <2>3. (step = "track" <=> s = 25) /\ (step = "records" <=> s = 17)
      BY <1>1, Calls
    <2>4. QED
      BY <1>1, <1>2, <2>1, <2>2, <2>3
  <1>7. at \in Ats
    BY DEF HwInv, HwTypeOK, Ats
  <1>8. opened' \in BOOLEAN /\ tracking' \in BOOLEAN
    BY DEF Proceed, Effect, HwInv, HwTypeOK
  <1>9. CASE s < 27
    <2>1. at' = [at EXCEPT !.step = s + 1] /\ state' = IF step = "ready" THEN "READY" ELSE state
      BY <1>1, <1>9, Calls DEF Proceed
    <2>2. s + 1 \in 1 .. 27
      BY <1>1, <1>9
    <2>3. at'.op = "open" /\ at'.step = s + 1 /\ s + 1 \in 1 .. 27
      BY <1>1, <1>7, <2>1, <2>2
    <2>4. (step = "ready" <=> s = 6)
      BY <1>1, Calls
    <2>5. OpenInv'
      BY <1>1, <1>2, <1>3, <1>4, <1>5, <1>6, <2>1, <2>3, <2>4 DEF OpenInv, Made, Started, Called, On
    <2>6. Started(s + 1) \subseteq Made(s + 1) \cap Channels
      BY <2>3, StartedMade, Calls
    <2>7. HwTypeOK'
      BY <1>1, <1>2, <1>3, <1>4, <1>5, <1>8, <2>1, <2>3, <2>6, Calls
         DEF HwInv, HwTypeOK, Made, Objects, On
    <2>8. QED
      BY <2>3, <2>5, <2>7 DEF HwInv, DeinitInv, RestIsHonest
  <1>10. CASE s = 27
    <2>1. at' = Rest /\ state' = "RUNNING"
      BY <1>10, Calls DEF Proceed
    <2>2. held' = {o \in Objects : Called(o)}
      BY <1>3, <1>10 DEF Made, Place, Objects, Channels, CodecObjects
    <2>3. enabled' = held' \cap Channels
      BY <1>4, <1>10, <2>2 DEF Started, Called, OfRx, OfCodec, CodecObjects, Channels, Objects
    <2>4. tracking' /\ (opened' <=> On("codec")) 
      BY <1>5, <1>6, <1>10
    <2>5. HwTypeOK'
      BY <1>1, <1>8, <2>1, <2>2, <2>3, <2>4, Calls DEF HwInv, HwTypeOK, Objects, Rest, On
    <2>6. RestIsHonest'
      BY <1>1, <2>1, <2>2, <2>3, <2>4 DEF RestIsHonest, Objects, Called, On
    <2>7. QED
      BY <2>1, <2>5, <2>6 DEF HwInv, OpenInv, DeinitInv, Rest
  <1>11. QED
    BY <1>1, <1>9, <1>10

\* A call of an opening that fails.
LEMMA FailStep == ASSUME HwInv, Fail PROVE HwInv'
  <1>1. \E error, again \in BOOLEAN : at' = DeinitThen(error, again) /\ (error => again)
    BY DEF Fail
  <1>2. UNCHANGED <<board, held, opened, tracking>>
    BY DEF Fail
  <1>3. UsesHeld'
    BY <1>2, HwUses DEF UsesHeld, Uses, Interface, On
  <1>4. state' \in {"UNPREPARED", "PREPARING", "READY", "RUNNING", "ERROR"}
    BY DEF Fail, HwInv, HwTypeOK
  <1>5. enabled' \subseteq held \cap Channels
    <2> DEFINE s == at.step  step == OpenPlan[s]
    <2>1. s \in 1 .. 27 /\ held = Made(s) /\ enabled \subseteq held \cap Channels
      BY Calls DEF Fail, HwInv, HwTypeOK, OpenInv
    <2>2. enabled' \subseteq MayRun(step)
      BY DEF Fail
    <2>3. CASE step \in {"txOpen", "rxOpen", "gains", "layouts"}
      <3>1. s \in 20 .. 23
        BY <2>1, <2>3, Calls
      <3>2. "tx" \in Made(s) /\ (On("rx") => "rx" \in Made(s))
        BY <3>1 DEF Made, Place, Called, OfRx, OfCodec, CodecObjects, Channels, Objects
      <3>3. QED
        BY <2>1, <2>2, <2>3, <3>2 DEF MayRun, Channels
    <2>4. CASE step \notin {"txOpen", "rxOpen", "gains", "layouts"}
      BY <2>1, <2>2, <2>4 DEF MayRun
    <2>5. QED
      BY <2>3, <2>4
  <1>6. HwTypeOK'
    BY <1>1, <1>2, <1>4, <1>5, Calls DEF HwInv, HwTypeOK, DeinitThen, On
  <1>7. QED
    BY <1>1, <1>3, <1>6, DeinitBegins

\* The next call of a deinit.
LEMMA AtNextTyping ==
    ASSUME HwInv, at.op = "deinit", at.step < 15, at' = AtNext
    PROVE  /\ at' \in Ats
           /\ at'.op = "deinit" /\ at'.step = at.step + 1 /\ at'.error = at.error /\ at'.again = at.again
           /\ at.step \in 1 .. 14
  BY Calls DEF HwInv, HwTypeOK, AtNext, Ats

\* What is gone one call on.
LEMMA GoneNext ==
    ASSUME NEW i \in 1 .. 14
    PROVE  /\ i \in 4 .. 12 => Gone(i + 1) = Gone(i) \cup {DeinitPlan[i]}
           /\ i \notin 4 .. 12 => Gone(i + 1) = Gone(i)
  <1>1. \A j \in 4 .. 12 : DeinitPlan[j] \in CodecObjects
    BY Calls DEF CodecObjects
  <1>2. \A j \in 4 .. 12 : j < i + 1 <=> j < i \/ j = i
    OBVIOUS
  <1>3. CASE i \in 4 .. 12
    BY <1>1, <1>2, <1>3 DEF Gone
  <1>4. CASE i \notin 4 .. 12
    BY <1>2, <1>4 DEF Gone
  <1>5. QED
    BY <1>3, <1>4

\* The calls of a deinit: each takes down its part, and what uses it is gone.
LEMMA UntrackStep == ASSUME HwInv, Untrack PROVE HwInv'
  <1>1. at.op = "deinit" /\ at.step = 1
    BY Calls DEF Untrack, Deiniting, HwInv, HwTypeOK, DeinitInv
  <1>2. at' = AtNext /\ tracking' = FALSE /\ UNCHANGED <<board, state, held, enabled, opened>>
    BY DEF Untrack
  <1>3. at'.op = "deinit" /\ at'.step = 2 /\ at'.error = at.error /\ at'.again = at.again
    BY <1>1, <1>2, AtNextTyping
  <1>4. at' \in Ats
    BY <1>1, <1>2, AtNextTyping
  <1>5. HwTypeOK'
    BY <1>2, <1>4 DEF HwInv, HwTypeOK, Ats, On
  <1>6. UsesHeld'
    BY <1>2, HwUses DEF UsesHeld, Uses, Interface, On
  <1>7. Gone(2)' = {}
    BY DEF Gone
  <1>8. DeinitInv'
    BY <1>1, <1>2, <1>3, <1>6, <1>7, Calls DEF DeinitInv, HwInv, Gone
  <1>9. QED
    BY <1>3, <1>5, <1>8 DEF HwInv, OpenInv, RestIsHonest

LEMMA ShutStep == ASSUME HwInv, Shut \/ NothingToShut PROVE HwInv'
  <1>1. at.op = "deinit" /\ at.step \in {2, 3} /\ at' = AtNext
    BY Calls DEF Shut, NothingToShut, Deiniting, HwInv, HwTypeOK, DeinitInv
  <1>2. /\ UNCHANGED <<board, held, tracking>> /\ enabled' \subseteq enabled
        /\ opened' \in BOOLEAN /\ (opened' => opened)
        /\ (state' = state \/ state' = "READY")
    <2>1. CASE Shut
      BY <2>1 DEF Shut, HwInv, HwTypeOK
    <2>2. CASE NothingToShut
      BY <2>2 DEF NothingToShut, HwInv, HwTypeOK
    <2>3. QED
      BY <2>1, <2>2
  <1>3. at'.op = "deinit" /\ at'.step = at.step + 1 /\ at'.error = at.error /\ at'.again = at.again
    BY <1>1, AtNextTyping
  <1>4. HwTypeOK'
    BY <1>1, <1>2, AtNextTyping DEF HwInv, HwTypeOK, Ats, On
  <1>5. UsesHeld'
    BY <1>2, HwUses DEF UsesHeld, Uses, Interface, On
  <1>6. state' # "RUNNING"
    BY <1>1, Calls DEF Shut, NothingToShut, Deiniting, HwInv, DeinitInv
  <1>7. at.step = 3 => ~opened'
    BY <1>1, Calls DEF Shut, NothingToShut, Deiniting, HwInv, DeinitInv
  <1>8. Gone(3) = {} /\ Gone(4) = {}
    BY DEF Gone
  <1>9. DeinitInv'
    BY <1>1, <1>2, <1>3, <1>5, <1>6, <1>7, <1>8, Calls DEF DeinitInv, HwInv, Gone
  <1>10. QED
    BY <1>3, <1>4, <1>9 DEF HwInv, OpenInv, RestIsHonest

LEMMA DeleteStep == ASSUME HwInv, Delete PROVE HwInv'
  <1> DEFINE s == at.step
  <1>1. at.op = "deinit" /\ s \in 4 .. 12 /\ held' = held \ {DeinitPlan[s]}
    BY Calls DEF Delete, Deiniting, CodecObjects, HwInv, HwTypeOK, DeinitInv
  <1>2. at' = AtNext /\ UNCHANGED <<board, state, enabled, opened, tracking>>
    BY DEF Delete
  <1>3. at'.op = "deinit" /\ at'.step = s + 1 /\ at'.error = at.error /\ at'.again = at.again
    BY <1>1, <1>2, AtNextTyping
  <1>4. DeinitPlan[s] \in CodecObjects
    BY <1>1, Calls DEF CodecObjects
  <1>5. HwTypeOK'
    <2>1. at' \in Ats
      BY <1>1, <1>2, AtNextTyping
    <2>2. enabled' \subseteq held' \cap Channels
      BY <1>1, <1>2, <1>4 DEF HwInv, HwTypeOK, CodecObjects, Channels
    <2>3. QED
      BY <1>1, <1>2, <2>1, <2>2 DEF HwInv, HwTypeOK, Ats, On
  <1>6. \A obj \in held : DeinitPlan[s] \notin Uses(obj)
    BY <1>1, DeletedUnused DEF HwInv, DeinitInv, HwTypeOK, Objects
  <1>7. UsesHeld'
    BY <1>1, <1>2, <1>6, HwUses DEF UsesHeld, Uses, Interface, On
  <1>8. Gone(s + 1) = Gone(s) \cup {DeinitPlan[s]}
    BY <1>1, GoneNext
  <1>9. held' \cap Gone(s + 1) = {}
    BY <1>1, <1>8 DEF HwInv, DeinitInv
  <1>10. DeinitInv'
    BY <1>1, <1>2, <1>3, <1>7, <1>9, Calls DEF DeinitInv, HwInv, Gone
  <1>11. QED
    BY <1>3, <1>5, <1>10 DEF HwInv, OpenInv, RestIsHonest

LEMMA ReleaseStep == ASSUME HwInv, Release PROVE HwInv'
  <1> DEFINE s == at.step
  <1>1. PICK channel \in Channels :
            /\ Deiniting(channel)
            /\ \/ held' = held \ {channel} /\ enabled' = enabled \ {channel}
               \/ channel \in held /\ held' = held /\ enabled' \in {enabled, enabled \ {channel}}
    BY DEF Release
  <1>2. at.op = "deinit" /\ s \in {13, 14}
    BY <1>1, Calls DEF Deiniting, Channels, HwInv, HwTypeOK, DeinitInv
  <1>3. at' = AtNext /\ UNCHANGED <<board, state, opened, tracking>>
    BY DEF Release
  <1>4. at'.op = "deinit" /\ at'.step = s + 1 /\ at'.error = at.error /\ at'.again = at.again
    BY <1>2, <1>3, AtNextTyping
  <1>5. HwTypeOK'
    BY <1>1, <1>2, <1>3, AtNextTyping DEF HwInv, HwTypeOK, Ats, On
  <1>6. Gone(13) = CodecObjects /\ Gone(14) = CodecObjects /\ Gone(15) = CodecObjects
    BY Calls DEF Gone, CodecObjects
  <1>7. held' \subseteq held /\ held \cap CodecObjects = {}
    BY <1>1, <1>2, <1>6 DEF HwInv, DeinitInv
  <1>8. held' \subseteq Channels
    BY <1>7 DEF HwInv, HwTypeOK
  <1>9. UsesHeld'
    BY <1>8 DEF UsesHeld, Uses, Channels
  <1>10. DeinitInv'
    BY <1>2, <1>3, <1>4, <1>6, <1>7, <1>9, Calls DEF DeinitInv, HwInv, Gone
  <1>11. QED
    BY <1>4, <1>5, <1>10 DEF HwInv, OpenInv, RestIsHonest

\* The end of a deinit: rest, or the second deinit of a failed opening.
LEMMA SettleStep == ASSUME HwInv, Settle PROVE HwInv'
  <1>1. at.op = "deinit" /\ at.step = 15
    BY Calls DEF Settle, Deiniting, HwInv, HwTypeOK, DeinitInv
  <1>2. /\ UNCHANGED <<board, held, enabled, opened, tracking>>
        /\ state' = IF at.error \/ held \cap Channels # {} THEN "ERROR" ELSE "UNPREPARED"
        /\ at' = IF at.again THEN DeinitThen(FALSE, FALSE) ELSE Rest
    BY DEF Settle
  <1>3. Gone(15) = CodecObjects
    BY Calls DEF Gone, CodecObjects
  <1>4. held \subseteq Channels /\ ~opened /\ ~tracking /\ (at.error => at.again)
    BY <1>1, <1>3 DEF HwInv, HwTypeOK, DeinitInv
  <1>5. at' \in Ats
    BY <1>2, Calls DEF DeinitThen, Rest, Ats
  <1>6. HwTypeOK'
    BY <1>2, <1>5 DEF HwInv, HwTypeOK, Ats, On
  <1>7. UsesHeld'
    BY <1>2, HwUses DEF UsesHeld, Uses, Interface, On
  <1>8. CASE at.again
    BY <1>2, <1>6, <1>7, <1>8, DeinitBegins
  <1>9. CASE ~at.again
    <2>1. at' = Rest /\ at'.op = "rest"
      BY <1>2, <1>9 DEF Rest
    <2>2. RestIsHonest'
      BY <1>2, <1>4, <1>9 DEF RestIsHonest
    <2>3. QED
      BY <1>6, <2>1, <2>2 DEF HwInv, OpenInv, DeinitInv
  <1>10. QED
    BY <1>8, <1>9

LEMMA HwStays == ASSUME HwInv, UNCHANGED hwVars PROVE HwInv'
  BY DEF hwVars, HwInv, HwTypeOK, OpenInv, DeinitInv, RestIsHonest, UsesHeld, Uses, Interface,
         Made, Started, Gone, Called, On

LEMMA HwBegins == ASSUME HwInit PROVE HwInv
  <1>1. at \in Ats
    BY Calls DEF HwInit, Rest, Ats
  <1>2. HwTypeOK
    BY <1>1 DEF HwInit, HwTypeOK, Ats
  <1>3. QED
    BY <1>2 DEF HwInit, HwInv, OpenInv, DeinitInv, RestIsHonest, Rest

\* HwInv holds of every opening and every deinit.
LEMMA HwAlways == HwSpec => []HwInv
  <1>1. HwInv /\ [HwNext]_hwVars => HwInv'
    BY BeginStep, DeinitStep, ProceedStep, FailStep, UntrackStep, ShutStep, DeleteStep, ReleaseStep,
       SettleStep, HwStays DEF HwNext, HwStep
  <1>2. QED
    BY HwBegins, <1>1, PTL DEF HwSpec

\* On every board and whichever calls fail, no codec object outlives the object it
\* was made with (CodecDevBackend::teardown(), deinit_i2s_()).
THEOREM NothingOutlives == HwSpec => []UsesHeld
  BY HwUses, HwAlways, PTL

\* i2s_hardware_state_ says, between two services of the lifecycle, what there is
\* of the hardware.
THEOREM HonestAtRest == HwSpec => []RestIsHonest
  <1>1. HwInv => RestIsHonest
    BY DEF HwInv
  <1>2. QED
    BY <1>1, HwAlways, PTL

\* prepare_tx_completion_tracking_() makes its queues while no channel runs.
THEOREM QueuesAreQuiet == HwSpec => []QuietQueues
  <1>1. HwInv => QuietQueues
    <2>1. SUFFICES ASSUME HwInv, at.op = "open", OpenPlan[at.step] = "records"
                   PROVE  enabled = {} /\ ~tracking
      BY DEF QuietQueues
    <2>2. at.step = 17
      BY <2>1, Calls DEF HwInv, HwTypeOK
    <2>3. QED
      BY <2>1, <2>2 DEF HwInv, OpenInv, Started
  <1>2. QED
    BY <1>1, HwAlways, PTL

----------------------------------------------------------------------------
(* Hardware implements AudioPath.                                          *)

\* Each call is a step of AudioPath, or none that it can see.
LEMMA PathSimulates == ASSUME HwInv, [HwNext]_hwVars PROVE [Path!Next]_PathOf
  <1> USE DEF Path!Next, Path!Open, Path!Stick, Path!GiveBack
  <1>1. CASE Begin \/ Deinit
    BY <1>1 DEF Begin, Deinit, PathOf
  <1>2. CASE Proceed
    BY <1>2 DEF Proceed, HwInv, OpenInv, PathOf
  <1>3. CASE Fail
    BY <1>3 DEF Fail, HwInv, OpenInv, PathOf
  <1>4. CASE Untrack \/ NothingToShut
    BY <1>4 DEF Untrack, NothingToShut, PathOf
  <1>5. CASE Shut
    BY <1>5 DEF Shut, PathOf
  <1>6. CASE Delete
    BY <1>6 DEF Delete, PathOf
  <1>7. CASE Release
    BY <1>7 DEF Release, PathOf
  <1>8. CASE Settle
    BY <1>8 DEF Settle, PathOf
  <1>9. CASE UNCHANGED hwVars
    BY <1>9 DEF hwVars, PathOf
  <1>10. QED
    BY <1>1, <1>2, <1>3, <1>4, <1>5, <1>6, <1>7, <1>8, <1>9 DEF HwNext, HwStep

\* enable_i2s_channels_() and deinit_i2s_(), call by call and with every call
\* failing, keep AudioPath's promise on every board.
THEOREM HardwareKeepsPath == HwSpec => PathContract
  <1>1. HwInit => Path!Init
    BY DEF HwInit, Path!Init, PathOf
  <1>2. HwInv /\ [HwNext]_hwVars => [Path!Next]_PathOf
    BY PathSimulates
  <1>3. QED
    BY <1>1, <1>2, HwAlways, PTL DEF HwSpec, PathContract, Path!Spec

\* So do the sessions with their openings and closings.
THEOREM SessionsKeepPath == Spec => PathContract
  BY SessionsOnHardware, HardwareKeepsPath

\* With sessions, rebuilds and main on the path, all three still hold.
THEOREM SessionsKeepHardware == Spec => [](UsesHeld /\ RestIsHonest /\ QuietQueues)
  BY SessionsOnHardware, NothingOutlives, HonestAtRest, QueuesAreQuiet, PTL
=============================================================================
