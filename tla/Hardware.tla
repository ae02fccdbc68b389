------------------------------- MODULE Hardware -------------------------------
(***************************************************************************)
(* How the audio task opens and closes the path to the hardware: the I2S   *)
(* channels, the objects of the codec back end that are built on them, the *)
(* tracking of the DMA.  enable_i2s_channels_() is a list of driver calls, *)
(* each of which may fail; deinit_i2s_() takes down whatever there is.     *)
(*                                                                         *)
(* A board is the set of its features: "rx" (it has a microphone), "codec" *)
(* (a codec opens the channels, otherwise the driver does), "split" (TX    *)
(* and RX are two I2S ports), "adc" and "dac" (codec chips with a control  *)
(* interface).  The TX channel always exists: it owns the clock of RX.     *)
(***************************************************************************)
EXTENDS Naturals, Sequences

CONSTANT Boards     \* the boards, each a set of features

ASSUME BoardsAssumption == Boards \subseteq SUBSET {"rx", "codec", "split", "adc", "dac"}

VARIABLES
    board,      \* the features compiled in
    state,      \* i2s_hardware_state_
    held,       \* channels and codec objects that exist
    enabled,    \* channels the driver is running
    opened,     \* CodecDevBackend::open_
    tracking,   \* tx_completion_tracking_active_
    at          \* the audio task: operation, next step of it, what follows a deinit

hwVars == <<board, state, held, enabled, opened, tracking, at>>

Channels == {"tx", "rx"}
CodecObjects == {"rxData", "txData", "data", "rxCtrl", "rxCodec", "txCtrl", "txCodec", "rxDev", "txDev"}

On(feature) == feature \in board

\* The audio task between two services of the lifecycle.
Rest == [op |-> "rest", step |-> 1, error |-> FALSE, again |-> FALSE]

HwInit ==
    /\ board \in Boards
    /\ state = "UNPREPARED" /\ held = {} /\ enabled = {}
    /\ opened = FALSE /\ tracking = FALSE
    /\ at = Rest

----------------------------------------------------------------------------
(* The calls of an opening, in order: the channels, the codec objects, the *)
(* records of the DMA, the start.  A call that creates an object has the   *)
(* object's name; "config" is all that is checked and computed before.  A  *)
(* call the board has no use for is passed over.                           *)

OpenPlan ==
    <<"config", "tx", "rx", "txMode", "rxMode", "ready", "geometry",
      "rxData", "txData", "data", "rxCtrl", "rxCodec", "txCtrl", "txCodec", "rxDev", "txDev",
      "records", "callback", "prime",
      "txOpen", "rxOpen", "gains", "layouts", "negotiated", "track", "txEnable", "rxEnable">>

\* The first call after prepare_i2s_channels_(), which a path that still has
\* its handles starts at.
Prepared == 17

\* The checks of the configuration, the layout of the DMA and the first channel:
\* where they fail there is nothing to take down yet.
FirstCalls == {"config", "tx"}

OfRx == {"rx", "rxMode", "rxData", "rxCtrl", "rxCodec", "rxDev", "rxOpen", "gains", "rxEnable"}
OfCodec == CodecObjects \cup {"txOpen", "rxOpen", "gains", "layouts", "negotiated"}

Called(step) ==
    /\ step \in OfRx => On("rx")
    /\ step \in OfCodec => On("codec")
    /\ step \in {"rxData", "txData"} => On("split")
    /\ step = "data" => ~On("split")
    /\ step \in {"rxCtrl", "rxCodec", "gains"} => On("adc")
    /\ step \in {"txCtrl", "txCodec"} => On("dac")
    /\ step \in {"txEnable", "rxEnable"} => ~On("codec")

\* The objects an object is created with, and uses until it is deleted.
Interface(own) == IF On("split") THEN own ELSE "data"
Uses(object) ==
    CASE object = "data" -> IF On("rx") THEN {"tx", "rx"} ELSE {"tx"}
      [] object = "rxData" -> {"rx"}
      [] object = "txData" -> {"tx"}
      [] object = "rxCodec" -> {"rxCtrl"}
      [] object = "txCodec" -> {"txCtrl"}
      [] object = "rxDev" -> {Interface("rxData")} \cup {c \in {"rxCodec"} : On("adc")}
      [] object = "txDev" -> {Interface("txData")} \cup {c \in {"txCodec"} : On("dac")}
      [] OTHER -> {}

\* A call that works.  The codec's open calls start the channels of its board.
Effect(step) ==
    /\ held' = IF step \in Channels \cup CodecObjects THEN held \cup {step} ELSE held
    /\ enabled' = enabled \cup {c \in Channels : \/ c = "tx" /\ step \in {"txOpen", "txEnable"}
                                                 \/ c = "rx" /\ step \in {"rxOpen", "rxEnable"}}
    /\ opened' = (opened \/ step = "layouts")
    /\ tracking' = (step = "track" \/ (tracking /\ step # "records"))

\* What a failed call may leave running: the codec can fail half-way, and the
\* calls that close again what was opened before are not looked at.
MayRun(step) ==
    CASE step = "txOpen" -> {"tx"}
      [] step \in {"rxOpen", "gains", "layouts"} -> {c \in Channels : c = "tx" \/ On("rx")}
      [] OTHER -> enabled

DeinitThen(error, again) == [op |-> "deinit", step |-> 1, error |-> error, again |-> again]

\* Defect: a path in ERROR is opened on the handles it still has.
Begin_FromError ==
    /\ at.op = "rest" /\ state # "RUNNING"
    /\ at' = [Rest EXCEPT !.op = "open", !.step = IF held \cap Channels # {} THEN Prepared ELSE 1]
    /\ state' = IF held \cap Channels # {} THEN state ELSE "PREPARING"
    /\ UNCHANGED <<board, held, enabled, opened, tracking>>

\* start_phase_ asks for the hardware: in ERROR it is refused, and released.
Begin ==
    /\ at.op = "rest" /\ state # "RUNNING"
    /\ IF state = "ERROR"
       THEN at' = DeinitThen(FALSE, FALSE) /\ UNCHANGED state
       ELSE /\ at' = [Rest EXCEPT !.op = "open", !.step = IF held \cap Channels # {} THEN Prepared ELSE 1]
            /\ state' = IF held \cap Channels # {} THEN state ELSE "PREPARING"
    /\ UNCHANGED <<board, held, enabled, opened, tracking>>

Proceed ==
    LET last == at.step = Len(OpenPlan)
        step == OpenPlan[at.step]
    IN  /\ at.op = "open"
        /\ IF Called(step) THEN Effect(step) ELSE UNCHANGED <<held, enabled, opened, tracking>>
        /\ at' = IF last THEN Rest ELSE [at EXCEPT !.step = @ + 1]
        /\ state' = IF last THEN "RUNNING" ELSE IF step = "ready" THEN "READY" ELSE state
        /\ UNCHANGED board

\* A call that fails.  deinit_i2s_() runs in the failed call's function and,
\* with the lifecycle's, twice; after the first calls only the lifecycle's.  ERROR is
\* set after the first one for the calls of prepare_i2s_channels_(), but not
\* for the geometry.
Fail ==
    LET step == OpenPlan[at.step]
    IN  /\ at.op = "open"
        /\ Called(step) /\ step \notin {"ready", "track"}
        /\ enabled' \in SUBSET MayRun(step)
        /\ IF step \in FirstCalls
           THEN state' = "ERROR" /\ at' = DeinitThen(FALSE, FALSE)
           ELSE /\ at' = DeinitThen(at.step < Prepared /\ step # "geometry", TRUE)
                /\ UNCHANGED state
        /\ UNCHANGED <<board, held, opened, tracking>>

----------------------------------------------------------------------------
(* deinit_i2s_(): the calls of the codec and of the I/O are not looked at; *)
(* a channel that cannot be released keeps its handle.                     *)

\* Defect: the data interfaces go after the channels they were made with.
DeinitPlan_ChannelsFirst ==
    <<"untrack", "closeIo", "closeCodec", "rxDev", "txDev", "rxCodec", "txCodec", "rxCtrl", "txCtrl",
      "tx", "rx", "rxData", "txData", "data", "settle">>

DeinitPlan ==
    <<"untrack", "closeIo", "closeCodec", "rxDev", "txDev", "rxCodec", "txCodec", "rxCtrl", "txCtrl",
      "rxData", "txData", "data", "tx", "rx", "settle">>

\* Called for the end of a session, for a start that was withdrawn and for the
\* barrier of stop(), whatever the state.
Deinit ==
    /\ at.op = "rest"
    /\ at' = DeinitThen(FALSE, FALSE)
    /\ UNCHANGED <<board, state, held, enabled, opened, tracking>>

AtNext == [at EXCEPT !.step = @ + 1]
Deiniting(step) == at.op = "deinit" /\ DeinitPlan[at.step] = step

Untrack ==
    /\ Deiniting("untrack")
    /\ tracking' = FALSE
    /\ at' = AtNext
    /\ UNCHANGED <<board, state, held, enabled, opened>>

\* close_audio_io_(), then the close of CodecDevBackend::teardown().
Shut ==
    /\ \/ Deiniting("closeIo") /\ state = "RUNNING"
       \/ Deiniting("closeCodec") /\ opened
    /\ opened' = FALSE
    /\ enabled' \in SUBSET enabled
    /\ state' = IF state = "RUNNING" THEN "READY" ELSE state
    /\ at' = AtNext
    /\ UNCHANGED <<board, held, tracking>>

NothingToShut ==
    /\ \/ Deiniting("closeIo") /\ state # "RUNNING"
       \/ Deiniting("closeCodec") /\ ~opened
    /\ at' = AtNext
    /\ UNCHANGED <<board, state, held, enabled, opened, tracking>>

Delete ==
    /\ \E object \in CodecObjects : Deiniting(object) /\ held' = held \ {object}
    /\ at' = AtNext
    /\ UNCHANGED <<board, state, enabled, opened, tracking>>

\* The driver is asked whether the channel runs, disables it and deletes it;
\* any of the three may fail.
Release ==
    /\ \E channel \in Channels :
          /\ Deiniting(channel)
          /\ \/ held' = held \ {channel} /\ enabled' = enabled \ {channel}
             \/ channel \in held /\ held' = held /\ enabled' \in {enabled, enabled \ {channel}}
    /\ at' = AtNext
    /\ UNCHANGED <<board, state, opened, tracking>>

\* Defect: the failure of the caller is reported, the kept handle is not.
Settle_Unprepared ==
    /\ Deiniting("settle")
    /\ state' = IF at.error THEN "ERROR" ELSE "UNPREPARED"
    /\ at' = IF at.again THEN DeinitThen(FALSE, FALSE) ELSE Rest
    /\ UNCHANGED <<board, held, enabled, opened, tracking>>

\* A kept handle is an error; so is, until the next pass, a failed preparation.
Settle ==
    /\ Deiniting("settle")
    /\ state' = IF at.error \/ held \cap Channels # {} THEN "ERROR" ELSE "UNPREPARED"
    /\ at' = IF at.again THEN DeinitThen(FALSE, FALSE) ELSE Rest
    /\ UNCHANGED <<board, held, enabled, opened, tracking>>

HwStep == Proceed \/ Fail \/ Untrack \/ Shut \/ NothingToShut \/ Delete \/ Release \/ Settle
HwNext == Begin \/ Deinit \/ HwStep
HwSpec == HwInit /\ [][HwNext]_hwVars

----------------------------------------------------------------------------
(* Properties *)

\* The type of the state.  The driver runs channels that have a handle, and
\* a codec is open only on a board that has one.
HwTypeOK ==
    /\ board \in Boards
    /\ state \in {"UNPREPARED", "PREPARING", "READY", "RUNNING", "ERROR"}
    /\ held \subseteq Channels \cup CodecObjects
    /\ enabled \subseteq held \cap Channels
    /\ opened \in BOOLEAN /\ (opened => On("codec"))
    /\ tracking \in BOOLEAN
    /\ at \in [op : {"rest", "open", "deinit"}, step : 1 .. Len(OpenPlan),
               error : BOOLEAN, again : BOOLEAN]

\* Whichever call fails, and in whichever order things are taken down, an
\* object is never left without an object it was created with: no device
\* outlives its interface, no interface its channel.
UsesHeld == \A object \in held : Uses(object) \subseteq held

\* What the state says when the task is at rest is so: RUNNING has every
\* object of the board, every channel running and its DMA tracked; UNPREPARED
\* has nothing; ERROR, and only it, a channel the driver would not release.
RestIsHonest ==
    at.op = "rest" =>
        CASE state = "RUNNING" ->
               /\ held = {o \in Channels \cup CodecObjects : Called(o)}
               /\ enabled = held \cap Channels
               /\ tracking /\ (opened <=> On("codec"))
          [] state = "UNPREPARED" -> held = {} /\ ~opened /\ ~tracking
          [] state = "ERROR" -> held # {} /\ held \subseteq Channels /\ ~opened /\ ~tracking
          [] OTHER -> FALSE

\* The queues the interrupt works on are deleted and made anew
\* (prepare_tx_completion_tracking_()) only while no channel runs.
QuietQueues ==
    at.op = "open" /\ OpenPlan[at.step] = "records" => enabled = {} /\ ~tracking

\* The path as AudioPath has it.
PathOf ==
    IF state = "RUNNING" THEN "open"
    ELSE IF state = "ERROR" /\ held \cap Channels # {} THEN "stuck" ELSE "closed"

Path == INSTANCE AudioPath WITH path <- PathOf

\* The opening and closing of the hardware, call by call, is what AudioPath
\* promises: a path the driver has not given back is never opened.
PathContract == Path!Spec
=============================================================================
