--------------------------- MODULE AudioLifecycle ---------------------------
(***************************************************************************)
(* The shared-hardware lifecycle of ESPAudioStack: how the component loop  *)
(* asks for the codec/I2S path, and how the permanent audio task opens it, *)
(* runs sessions on it and closes it.  Three tasks share atomics, no lock: *)
(*                                                                         *)
(*   main    the ESPHome loop: start(), stop(), the microphone consumer    *)
(*           registry, start_speaker(), stop_speaker(), loop() and every   *)
(*           callback (automation) these fire;                             *)
(*   audio   audio_task_(): service_audio_lifecycle_(), audio_session_();  *)
(*   player  a PCM producer, whose play() may restart a failed session.    *)
(*                                                                         *)
(* A step is one access to the atomics, or a run of accesses that no other *)
(* task can tell apart.  What main has still to do is the sequence todo: a *)
(* callback that calls start() or stop() pushes that call's steps before   *)
(* the rest of its caller, as the C++ stack does.                          *)
(***************************************************************************)
EXTENDS Naturals, Sequences, FiniteSets

CONSTANTS
    Tokens,        \* microphone consumers: facades, capture, processor
    MaxListeners,  \* MAX_LISTENERS of the registry
    MaxGeneration, \* bound of the model: no new call once req.generation is there
    Calls,         \* the public calls that reach main, a subset of AllCalls
    Automations,   \* <<trigger, call>>: callbacks that call start() or stop()
    Faults,        \* what may go wrong, a subset of AllFaults
    Recoveries     \* TRUE: the player task is there

AllCalls == {"start", "stop", "register", "unregister", "start_speaker", "stop_speaker"}
AllFaults == {"open", "release", "setup", "io", "desync", "respec"}
Triggers == {"on_start", "on_idle", "on_mic_start", "on_mic_idle",
             "on_speaker_start", "on_speaker_idle"}

ASSUME BoundAssumption == MaxListeners \in Nat /\ MaxGeneration \in Nat
ASSUME CallAssumption ==
    /\ Calls \subseteq AllCalls
    /\ Automations \subseteq (Triggers \X {"start", "stop"})
    /\ Faults \subseteq AllFaults
    /\ Recoveries \in BOOLEAN

VARIABLES
    req,    \* requests: start_requested_, start_generation_, speaker_requested_
    sh,     \* atomics written by main and by the audio task
    hw,     \* atomics written by the audio task alone, the I2S state at rest
    mics,   \* mic_consumers_
    outside, \* what other components see: processor, runtime state, automations
    todo,   \* main: the steps of the call in progress
    seen,   \* main: the phase and generation finish_audio_lifecycle_ loaded
    pc,     \* audio task: its next step
    task,   \* audio task: its locals
    player, \* player task: its next step
    raced   \* history: the player's restart has met a call or a decision to open

vars == <<req, sh, hw, mics, outside, todo, seen, pc, task, player, raced>>

Phases == {"STOPPED", "STARTING", "READY", "COMMITTING", "RUNNING", "FAILED"}
RuntimeStates == {"idle", "mic", "speaker", "duplex"}

Init ==
    /\ req = [start |-> FALSE, generation |-> 0, speaker |-> FALSE]
    /\ sh = [running |-> FALSE, speakerRunning |-> FALSE, phase |-> "STOPPED",
             teardownPending |-> FALSE, i2sError |-> FALSE, speakerReset |-> FALSE,
             tracking |-> FALSE, eventPending |-> FALSE, notified |-> FALSE]
    /\ hw = [readyGeneration |-> 0, taskIdle |-> TRUE, state |-> "UNPREPARED", handles |-> FALSE]
    /\ mics = {}
    /\ outside = [processor |-> FALSE, state |-> "idle", amplifier |-> FALSE, announced |-> 0]
    /\ todo = <<>>
    /\ seen = [phase |-> "STOPPED", generation |-> 0]
    /\ pc = "top"
    /\ task = [phase |-> "STOPPED", generation |-> 0, closing |-> "no", opened |-> FALSE]
    /\ player = "idle"
    /\ raced = FALSE

----------------------------------------------------------------------------
(* Main. s heads todo and is executed; steps are what it calls or leaves.  *)

At(s) == todo # <<>> /\ Head(todo) = s
Then(steps) == todo' = steps \o Tail(todo)
When(c, steps) == IF c THEN steps ELSE <<>>

ComputedRuntimeState ==
    IF mics # {} THEN IF sh.speakerRunning THEN "duplex" ELSE "mic"
                 ELSE IF sh.speakerRunning THEN "speaker" ELSE "idle"

\* start(): refuse while requested or running, then publish a new generation.
StartCheck ==
    /\ At("start")
    /\ Then(When(~req.start /\ ~sh.running, <<"start_generation", "start_request">>))
    /\ UNCHANGED <<req, sh, mics, outside, seen>>

NextGeneration ==
    /\ At("start_generation") \/ At("stop_generation")
    /\ req' = [req EXCEPT !.generation = @ + 1]
    /\ Then(<<>>)
    /\ UNCHANGED <<sh, mics, outside, seen>>

StartRequest ==
    /\ At("start_request")
    /\ req' = [req EXCEPT !.start = TRUE]
    /\ Then(<<"notify">>)
    /\ UNCHANGED <<sh, mics, outside, seen>>

\* Defect: the cleanup barrier is published only after the callbacks.
StopTake_BarrierLast ==
    /\ At("stop")
    /\ req' = [req EXCEPT !.start = FALSE]
    /\ Then(When(req.start \/ sh.running,
                 <<"stop_generation", "stop_speaker_running", "processor_off",
                   "stop_running", "on_idle", "stop_teardown", "notify">>))
    /\ UNCHANGED <<sh, mics, outside, seen>>

\* Defect: the parked audio task is not woken for the cleanup.
StopTake_NoWake ==
    /\ At("stop")
    /\ req' = [req EXCEPT !.start = FALSE]
    /\ Then(When(req.start \/ sh.running,
                 <<"stop_teardown", "stop_generation", "stop_speaker_running",
                   "processor_off", "stop_running", "on_idle">>))
    /\ UNCHANGED <<sh, mics, outside, seen>>

\* stop(): take the request back; publish the cleanup barrier, the generation,
\* the end of TX tracking and of the speaker; last, the end of the session.
StopTake ==
    /\ At("stop")
    /\ req' = [req EXCEPT !.start = FALSE]
    /\ Then(When(req.start \/ sh.running,
                 <<"stop_teardown", "stop_generation", "stop_speaker_running",
                   "processor_off", "stop_running", "on_idle", "notify">>))
    /\ UNCHANGED <<sh, mics, outside, seen>>

StopTeardown ==
    /\ At("stop_teardown")
    /\ sh' = [sh EXCEPT !.teardownPending = TRUE]
    /\ Then(<<>>)
    /\ UNCHANGED <<req, mics, outside, seen>>

\* Defect: the speaker's end is not announced when the whole stack stops.
StopSpeakerRunning_Silent ==
    /\ At("stop_speaker_running")
    /\ req' = [req EXCEPT !.speaker = FALSE]
    /\ sh' = [sh EXCEPT !.tracking = FALSE, !.speakerRunning = FALSE]
    /\ Then(<<>>)
    /\ UNCHANGED <<mics, outside, seen>>

StopSpeakerRunning ==
    /\ At("stop_speaker_running")
    /\ req' = [req EXCEPT !.speaker = FALSE]
    /\ sh' = [sh EXCEPT !.tracking = FALSE, !.speakerRunning = FALSE]
    /\ Then(When(sh.speakerRunning, <<"on_speaker_idle", "update">>))
    /\ UNCHANGED <<mics, outside, seen>>

StopRunning ==
    /\ At("stop_running")
    /\ sh' = [sh EXCEPT !.running = FALSE]
    /\ Then(<<>>)
    /\ UNCHANGED <<req, mics, outside, seen>>

\* xTaskNotifyGive(audio_task_handle_).
Notify ==
    /\ At("notify")
    /\ sh' = [sh EXCEPT !.notified = TRUE]
    /\ Then(<<>>)
    /\ UNCHANGED <<req, mics, outside, seen>>

\* A callback runs its automations, if any, before its caller goes on.  The
\* amplifier's supply follows on_speaker_start and on_speaker_idle.
FireTrigger(t) ==
    /\ At(t)
    /\ outside' = [outside EXCEPT
           !.amplifier = IF t = "on_speaker_start" THEN TRUE
                         ELSE IF t = "on_speaker_idle" THEN FALSE ELSE @,
           !.announced = IF t = "on_start" THEN seen.generation ELSE @]
    /\ \/ Then(<<>>)
       \/ \E call \in {"start", "stop"} : /\ <<t, call>> \in Automations
                                          /\ req.generation < MaxGeneration
                                          /\ Then(<<call>>)
    /\ UNCHANGED <<req, sh, mics, seen>>

\* processor_->set_processing_active().
SetProcessingActive(active) ==
    /\ At(IF active THEN "processor_on" ELSE "processor_off")
    /\ outside' = [outside EXCEPT !.processor = active]
    /\ Then(<<>>)
    /\ UNCHANGED <<req, sh, mics, seen>>

UpdateRuntimeState ==
    /\ At("update")
    /\ outside' = [outside EXCEPT !.state = ComputedRuntimeState]
    /\ Then(<<>>)
    /\ UNCHANGED <<req, sh, mics, seen>>

\* register_mic_consumer(token): whether the stack must be started is read
\* under the registry's lock, and acted on after the callbacks.
RegisterMicConsumer(token) ==
    LET first == mics = {}
    IN  /\ todo = <<>>
        /\ token \notin mics
        /\ Cardinality(mics) < MaxListeners
        /\ mics' = mics \cup {token}
        /\ todo' = When(first, <<"on_mic_start">>)
                   \o When(first /\ sh.running, <<"processor_on">>)
                   \o When(~sh.running, <<"start">>)
                   \o When(first, <<"update">>)
        /\ UNCHANGED <<req, sh, outside, seen>>

UnregisterMicConsumer(token) ==
    /\ todo = <<>>
    /\ token \in mics
    /\ mics' = mics \ {token}
    /\ todo' = When(mics' = {}, <<"on_mic_idle", "processor_off", "stop_if_silent", "update">>)
    /\ UNCHANGED <<req, sh, outside, seen>>

StopIfSilent ==
    /\ At("stop_if_silent")
    /\ Then(When(~req.speaker, <<"stop">>))
    /\ UNCHANGED <<req, sh, mics, outside, seen>>

\* start_speaker(): keep the intent, start the stack, and publish the speaker
\* only if the hardware is already running.
StartSpeaker ==
    /\ At("start_speaker")
    /\ req' = [req EXCEPT !.speaker = TRUE]
    /\ Then(When(~sh.running, <<"start">>) \o <<"speaker_if_running">>)
    /\ UNCHANGED <<sh, mics, outside, seen>>

SpeakerIfRunning ==
    /\ At("speaker_if_running")
    /\ Then(When(sh.running, <<"speaker_running">>))
    /\ UNCHANGED <<req, sh, mics, outside, seen>>

SpeakerRunning ==
    /\ At("speaker_running")
    /\ sh' = [sh EXCEPT !.speakerRunning = TRUE]
    /\ Then(When(~sh.speakerRunning, <<"on_speaker_start", "update">>))
    /\ UNCHANGED <<req, mics, outside, seen>>

\* Defect: the runtime state is not recomputed when the speaker stops.
StopSpeaker_StaleState ==
    /\ At("stop_speaker")
    /\ req' = [req EXCEPT !.speaker = FALSE]
    /\ sh' = [sh EXCEPT !.speakerRunning = FALSE]
    /\ Then(When(sh.speakerRunning, <<"on_speaker_idle">>) \o <<"stop_speaker_reset">>)
    /\ UNCHANGED <<mics, outside, seen>>

\* stop_speaker(): the PCM still queued is discarded by the audio task; the
\* stack stops with the speaker when no microphone consumer is left.
StopSpeaker ==
    /\ At("stop_speaker")
    /\ req' = [req EXCEPT !.speaker = FALSE]
    /\ sh' = [sh EXCEPT !.speakerRunning = FALSE]
    /\ Then(When(sh.speakerRunning, <<"on_speaker_idle", "update">>) \o <<"stop_speaker_reset">>)
    /\ UNCHANGED <<mics, outside, seen>>

\* Defect: the stack stops with the speaker although a microphone consumer is left.
StopSpeakerReset_IgnoresMics ==
    /\ At("stop_speaker_reset")
    /\ sh' = [sh EXCEPT !.speakerReset = TRUE]
    /\ Then(<<"processor_off", "stop">>)
    /\ UNCHANGED <<req, mics, outside, seen>>

StopSpeakerReset ==
    /\ At("stop_speaker_reset")
    /\ sh' = [sh EXCEPT !.speakerReset = TRUE]
    /\ Then(When(mics = {}, <<"processor_off", "stop">>))
    /\ UNCHANGED <<req, mics, outside, seen>>

\* finish_audio_lifecycle_(), from loop(): consume the event, then load the
\* phase, then the generation it is for, and act only on a current result.
Loop ==
    /\ todo = <<>>
    /\ sh.eventPending
    /\ sh' = [sh EXCEPT !.eventPending = FALSE]
    /\ todo' = <<"finish_phase", "finish_generation", "finish">>
    /\ UNCHANGED <<req, mics, outside, seen>>

FinishPhase ==
    /\ At("finish_phase")
    /\ seen' = [seen EXCEPT !.phase = sh.phase]
    /\ Then(<<>>)
    /\ UNCHANGED <<req, sh, mics, outside>>

FinishGeneration ==
    /\ At("finish_generation")
    /\ seen' = [seen EXCEPT !.generation = hw.readyGeneration]
    /\ Then(<<>>)
    /\ UNCHANGED <<req, sh, mics, outside>>

\* Defect: the result of any generation is taken for the requested one.
Finish_AnyGeneration ==
    /\ At("finish")
    /\ Then(When(req.start /\ seen.phase = "READY", <<"commit">>)
            \o When(req.start /\ seen.phase = "FAILED",
                    <<"fail", "fail_speaker", "processor_off", "update", "on_idle">>))
    /\ UNCHANGED <<req, sh, mics, outside, seen>>

Finish ==
    LET current == req.start /\ seen.generation = req.generation
    IN  /\ At("finish")
        /\ Then(When(current /\ seen.phase = "READY", <<"commit">>)
                \o When(current /\ seen.phase = "FAILED",
                        <<"fail", "fail_speaker", "processor_off", "update", "on_idle">>))
        /\ UNCHANGED <<req, sh, mics, outside, seen>>

\* Defect: COMMITTING is stored without comparing.
Commit_Unchecked ==
    /\ At("commit")
    /\ sh' = [sh EXCEPT !.phase = "COMMITTING"]
    /\ Then(<<"commit_running", "commit_phase", "notify">>
            \o When(mics # {}, <<"processor_on">>) \o <<"on_start", "started">>)
    /\ UNCHANGED <<req, mics, outside, seen>>

\* Defect: the processor is not resumed for the consumers already there.
Commit_ProcessorAsleep ==
    /\ At("commit")
    /\ sh' = IF sh.phase = "READY" THEN [sh EXCEPT !.phase = "COMMITTING"] ELSE sh
    /\ Then(When(sh.phase = "READY",
                 <<"commit_running", "commit_phase", "notify", "on_start", "started">>))
    /\ UNCHANGED <<req, mics, outside, seen>>

\* compare_exchange READY -> COMMITTING, then running, then RUNNING.
Commit ==
    /\ At("commit")
    /\ sh' = IF sh.phase = "READY" THEN [sh EXCEPT !.phase = "COMMITTING"] ELSE sh
    /\ Then(When(sh.phase = "READY", <<"commit_running", "commit_phase", "notify">>
                 \o When(mics # {}, <<"processor_on">>) \o <<"on_start", "started">>))
    /\ UNCHANGED <<req, mics, outside, seen>>

CommitRunning ==
    /\ At("commit_running")
    /\ sh' = [sh EXCEPT !.running = TRUE]
    /\ Then(<<>>)
    /\ UNCHANGED <<req, mics, outside, seen>>

CommitPhase ==
    /\ At("commit_phase")
    /\ sh' = [sh EXCEPT !.phase = "RUNNING"]
    /\ Then(<<>>)
    /\ UNCHANGED <<req, mics, outside, seen>>

\* on_start may have cancelled or superseded this start.
Started ==
    /\ At("started")
    /\ Then(When(req.start /\ seen.generation = req.generation /\ req.speaker,
                 <<"start_speaker">>))
    /\ UNCHANGED <<req, sh, mics, outside, seen>>

Fail ==
    /\ At("fail")
    /\ req' = [req EXCEPT !.start = FALSE]
    /\ sh' = [sh EXCEPT !.i2sError = TRUE]
    /\ Then(<<>>)
    /\ UNCHANGED <<mics, outside, seen>>

FailSpeaker ==
    /\ At("fail_speaker")
    /\ sh' = [sh EXCEPT !.speakerRunning = FALSE]
    /\ Then(When(sh.speakerRunning, <<"on_speaker_idle">>))
    /\ UNCHANGED <<req, mics, outside, seen>>

\* What the environment asks of main, between two of its steps.
CallMain(call) ==
    /\ todo = <<>>
    /\ todo' = <<call>>
    /\ UNCHANGED <<req, sh, mics, outside, seen>>

Request ==
    /\ req.generation < MaxGeneration
    /\ \/ \E call \in Calls \ {"register", "unregister"} : CallMain(call)
       \/ "register" \in Calls /\ \E token \in Tokens : RegisterMicConsumer(token)
       \/ "unregister" \in Calls /\ \E token \in Tokens : UnregisterMicConsumer(token)

MainStep ==
    \/ StartCheck \/ NextGeneration \/ StartRequest
    \/ StopTake \/ StopTeardown \/ StopSpeakerRunning \/ StopRunning
    \/ Notify \/ UpdateRuntimeState \/ StopIfSilent
    \/ \E t \in Triggers : FireTrigger(t)
    \/ \E active \in BOOLEAN : SetProcessingActive(active)
    \/ StartSpeaker \/ SpeakerIfRunning \/ SpeakerRunning
    \/ StopSpeaker \/ StopSpeakerReset
    \/ Loop \/ FinishPhase \/ FinishGeneration \/ Finish
    \/ Commit \/ CommitRunning \/ CommitPhase \/ Started
    \/ Fail \/ FailSpeaker

----------------------------------------------------------------------------
(* The audio task.                                                         *)

Goto(l) == pc' = l

\* The head of audio_task_()'s loop: idle, and a pending speaker reset done.
Top ==
    /\ pc = "top"
    /\ hw' = [hw EXCEPT !.taskIdle = TRUE]
    /\ sh' = [sh EXCEPT !.speakerReset = FALSE]
    /\ Goto("service_phase")
    /\ UNCHANGED task

\* service_audio_lifecycle_(): three reasons to close, in the order of the
\* loads: a session that died, a READY nobody wants any more, a stop().
ServicePhase ==
    /\ pc = "service_phase"
    /\ task' = [task EXCEPT !.phase = sh.phase, !.closing = "no"]
    /\ Goto(CASE sh.phase = "RUNNING" -> "service_running"
              [] sh.phase = "READY" -> "service_requested"
              [] OTHER -> "service_teardown")
    /\ UNCHANGED <<sh, hw>>

ServiceRunning ==
    /\ pc = "service_running"
    /\ Goto(IF sh.running THEN "service_teardown" ELSE "service_requested")
    /\ UNCHANGED <<sh, hw, task>>

\* A dead session is one still requested; a READY no longer requested is
\* abandoned at once.
ServiceRequested ==
    /\ pc = "service_requested"
    /\ Goto(IF req.start THEN "service_generation" ELSE "service_teardown")
    /\ task' = [task EXCEPT !.closing =
                   IF task.phase = "READY" /\ ~req.start THEN "abandoned" ELSE @]
    /\ UNCHANGED <<sh, hw>>

\* Defect: a session that died is not told from one that was stopped.
ServiceGeneration_NoFailure ==
    /\ pc = "service_generation"
    /\ task' = [task EXCEPT !.closing =
           IF task.phase = "READY" /\ hw.readyGeneration # req.generation THEN "abandoned"
           ELSE "no"]
    /\ Goto("service_teardown")
    /\ UNCHANGED <<sh, hw>>

ServiceGeneration ==
    /\ pc = "service_generation"
    /\ task' = [task EXCEPT !.closing =
           IF task.phase = "RUNNING" /\ hw.readyGeneration = req.generation THEN "failed"
           ELSE IF task.phase = "READY" /\ hw.readyGeneration # req.generation THEN "abandoned"
           ELSE "no"]
    /\ Goto("service_teardown")
    /\ UNCHANGED <<sh, hw>>

ServiceTeardown ==
    /\ pc = "service_teardown"
    /\ Goto(IF sh.teardownPending \/ task.closing # "no" THEN "close" ELSE "open_requested")
    /\ UNCHANGED <<sh, hw, task>>

\* deinit_i2s_(): a channel the driver will not release keeps its handle, and
\* the hardware stays in ERROR until a later deinit releases it.
DeinitI2S ==
    /\ sh' = [sh EXCEPT !.tracking = FALSE]
    /\ \E kept \in BOOLEAN :
          /\ kept => hw.handles /\ "release" \in Faults
          /\ hw' = [hw EXCEPT !.taskIdle = FALSE, !.handles = kept,
                              !.state = IF kept THEN "ERROR" ELSE "UNPREPARED"]

Close ==
    /\ pc = "close"
    /\ DeinitI2S
    /\ Goto("close_done")
    /\ UNCHANGED task

\* Only the closing of a dead session discards the speaker's PCM here.
CloseDone ==
    /\ pc = "close_done"
    /\ sh' = [sh EXCEPT !.teardownPending = FALSE,
                        !.speakerReset = IF task.closing = "failed" THEN FALSE ELSE @]
    /\ task' = [task EXCEPT !.phase = IF task.closing = "failed" THEN "FAILED" ELSE "STOPPED"]
    /\ Goto("close_publish")
    /\ UNCHANGED hw

ClosePublish ==
    /\ pc = "close_publish"
    /\ sh' = [sh EXCEPT !.phase = task.phase]
    /\ Goto("close_event")
    /\ UNCHANGED <<hw, task>>

CloseEvent ==
    /\ pc = "close_event"
    /\ sh' = [sh EXCEPT !.eventPending = TRUE]
    /\ Goto("open_requested")
    /\ UNCHANGED <<hw, task>>

\* The second half of service_audio_lifecycle_(): open for the generation
\* loaded now, unless it is already open, being committed or has failed.
OpenRequested ==
    /\ pc = "open_requested"
    /\ Goto(IF req.start THEN "open_generation" ELSE "park")
    /\ UNCHANGED <<sh, hw, task>>

OpenGeneration ==
    LET settled == \/ task.phase \in {"READY", "COMMITTING", "RUNNING"}
                   \/ task.phase = "FAILED" /\ hw.readyGeneration = req.generation
    IN  /\ pc = "open_generation"
        /\ task' = IF settled THEN task ELSE [task EXCEPT !.generation = req.generation]
        /\ Goto(IF settled THEN "park" ELSE "open_starting")
        /\ UNCHANGED <<sh, hw>>

OpenStarting ==
    /\ pc = "open_starting"
    /\ hw' = [hw EXCEPT !.taskIdle = FALSE]
    /\ sh' = [sh EXCEPT !.phase = "STARTING"]
    /\ Goto("open")
    /\ UNCHANGED task

\* Defect: hardware in ERROR is opened on the handles it still has.
Open_FromError ==
    /\ pc = "open"
    /\ hw' = [hw EXCEPT !.state = "RUNNING", !.handles = TRUE]
    /\ sh' = IF hw.state = "RUNNING" THEN sh ELSE [sh EXCEPT !.tracking = TRUE]
    /\ task' = [task EXCEPT !.opened = TRUE]
    /\ Goto("open_current")

\* enable_i2s_channels_(): refused in ERROR; a failure releases the handles if
\* the driver lets it, and can leave ERROR behind either way.
Open ==
    /\ pc = "open"
    /\ \/ /\ hw.state # "ERROR"
          /\ hw' = [hw EXCEPT !.state = "RUNNING", !.handles = TRUE]
          /\ sh' = IF hw.state = "RUNNING" THEN sh ELSE [sh EXCEPT !.tracking = TRUE]
          /\ task' = [task EXCEPT !.opened = TRUE]
       \/ /\ hw.state = "ERROR"
          /\ task' = [task EXCEPT !.opened = FALSE]
          /\ UNCHANGED <<sh, hw>>
       \/ /\ hw.state = "UNPREPARED"
          /\ "open" \in Faults
          /\ \E state \in {"UNPREPARED", "ERROR"}, kept \in BOOLEAN :
                /\ kept => state = "ERROR" /\ "release" \in Faults
                /\ hw' = [hw EXCEPT !.state = state, !.handles = kept]
          /\ sh' = [sh EXCEPT !.tracking = FALSE]
          /\ task' = [task EXCEPT !.opened = FALSE]
    /\ Goto("open_current")

\* Whether the result is still wanted: the request, then its generation.
OpenCurrent ==
    /\ pc = "open_current"
    /\ Goto(IF req.start THEN "open_current_generation" ELSE "open_abort")
    /\ UNCHANGED <<sh, hw, task>>

OpenCurrentGeneration ==
    /\ pc = "open_current_generation"
    /\ Goto(IF task.opened /\ task.generation = req.generation
            THEN "open_ready" ELSE "open_abort")
    /\ UNCHANGED <<sh, hw, task>>

OpenAbort ==
    /\ pc = "open_abort"
    /\ DeinitI2S
    /\ Goto("open_aborted")
    /\ UNCHANGED task

OpenAborted ==
    /\ pc = "open_aborted"
    /\ sh' = [sh EXCEPT !.teardownPending = FALSE, !.i2sError = ~task.opened,
                        !.speakerReset = IF task.opened THEN @ ELSE FALSE]
    /\ task' = [task EXCEPT !.phase = IF task.opened THEN "STOPPED" ELSE "FAILED"]
    /\ Goto("publish_generation")
    /\ UNCHANGED hw

OpenReady ==
    /\ pc = "open_ready"
    /\ sh' = [sh EXCEPT !.i2sError = FALSE]
    /\ task' = [task EXCEPT !.phase = "READY"]
    /\ Goto("publish_generation")
    /\ UNCHANGED hw

PublishGeneration ==
    /\ pc = "publish_generation"
    /\ hw' = [hw EXCEPT !.readyGeneration = task.generation]
    /\ Goto("publish_phase")
    /\ UNCHANGED <<sh, task>>

PublishPhase ==
    /\ pc = "publish_phase"
    /\ sh' = [sh EXCEPT !.phase = task.phase]
    /\ Goto("publish_event")
    /\ UNCHANGED <<hw, task>>

PublishEvent ==
    /\ pc = "publish_event"
    /\ sh' = [sh EXCEPT !.eventPending = TRUE]
    /\ Goto("park")
    /\ UNCHANGED <<hw, task>>

\* Back in audio_task_(): a running stack is given a session; otherwise the
\* task parks, unless a new request superseded the open it just gave up.
Park ==
    /\ pc = "park"
    /\ hw' = [hw EXCEPT !.taskIdle = TRUE]
    /\ Goto("park_running")
    /\ UNCHANGED <<sh, task>>

ParkRunning ==
    /\ pc = "park_running"
    /\ Goto(IF sh.running THEN "park_phase" ELSE "park_requested")
    /\ UNCHANGED <<sh, hw, task>>

ParkPhase ==
    /\ pc = "park_phase"
    /\ Goto(IF sh.phase = "RUNNING" THEN "session_setup" ELSE "park_requested")
    /\ UNCHANGED <<sh, hw, task>>

ParkRequested ==
    /\ pc = "park_requested"
    /\ Goto(IF req.start THEN "park_stopped" ELSE "wait")
    /\ UNCHANGED <<sh, hw, task>>

ParkStopped ==
    /\ pc = "park_stopped"
    /\ Goto(IF sh.phase = "STOPPED" THEN "top" ELSE "wait")
    /\ UNCHANGED <<sh, hw, task>>

\* ulTaskNotifyTake(pdTRUE, portMAX_DELAY).
Wait ==
    /\ pc = "wait"
    /\ sh.notified
    /\ sh' = [sh EXCEPT !.notified = FALSE]
    /\ Goto("top")
    /\ UNCHANGED <<hw, task>>

\* audio_session_(): the frame shape or the buffers may not fit.
SessionSetup ==
    /\ pc = "session_setup"
    /\ hw' = [hw EXCEPT !.taskIdle = FALSE]
    /\ \/ Goto("session") /\ UNCHANGED sh
       \/ /\ "setup" \in Faults
          /\ sh' = [sh EXCEPT !.i2sError = TRUE, !.running = FALSE, !.speakerRunning = FALSE]
          /\ Goto("top")
    /\ UNCHANGED task

Session ==
    /\ pc = "session"
    /\ Goto(IF sh.running THEN "frame" ELSE "top")
    /\ UNCHANGED <<sh, hw, task>>

\* One period: the pending reset, the I/O (which can fail), the TX admission
\* (refused once tracking is off), a new frame_spec of the processor.
Frame ==
    /\ pc = "frame"
    /\ \/ /\ sh' = [sh EXCEPT !.speakerReset = FALSE]
          /\ Goto(IF sh.tracking THEN "session" ELSE "frame_rejected")
       \/ /\ "io" \in Faults
          /\ sh' = [sh EXCEPT !.speakerReset = FALSE, !.i2sError = TRUE, !.running = FALSE]
          /\ Goto("session")
       \/ /\ "desync" \in Faults
          /\ sh.tracking
          /\ sh' = [sh EXCEPT !.speakerReset = FALSE]
          /\ Goto("frame_desync")
       \/ /\ "respec" \in Faults
          /\ sh' = [sh EXCEPT !.speakerReset = FALSE]
          /\ Goto("top")
    /\ UNCHANGED <<hw, task>>

FrameRejected ==
    /\ pc = "frame_rejected"
    /\ Goto(IF sh.running THEN "frame_desync" ELSE "session")
    /\ UNCHANGED <<sh, hw, task>>

\* fail_tx_completion_tracking_().
FrameDesync ==
    /\ pc = "frame_desync"
    /\ sh' = [sh EXCEPT !.tracking = FALSE, !.i2sError = TRUE, !.running = FALSE,
                        !.teardownPending = TRUE]
    /\ Goto("session")
    /\ UNCHANGED <<hw, task>>

AudioStep ==
    \/ Top \/ ServicePhase \/ ServiceRunning \/ ServiceRequested \/ ServiceGeneration
    \/ ServiceTeardown \/ Close \/ CloseDone \/ ClosePublish \/ CloseEvent
    \/ OpenRequested \/ OpenGeneration \/ OpenStarting \/ Open \/ OpenCurrent
    \/ OpenCurrentGeneration \/ OpenAbort \/ OpenAborted \/ OpenReady
    \/ PublishGeneration \/ PublishPhase \/ PublishEvent
    \/ Park \/ ParkRunning \/ ParkPhase \/ ParkRequested \/ ParkStopped \/ Wait
    \/ SessionSetup \/ Session \/ Frame \/ FrameRejected \/ FrameDesync

----------------------------------------------------------------------------
(* The player: play() restarts a failed session from the producer's task,  *)
(* through the same start() that main may be in.                           *)

PlayerCheck ==
    /\ Recoveries
    /\ player = "idle"
    /\ req.generation < MaxGeneration
    /\ sh.phase = "FAILED" /\ ~req.start /\ ~sh.running
    /\ player' = "generation"
    /\ UNCHANGED <<req, sh>>

PlayerGeneration ==
    /\ player = "generation"
    /\ req' = [req EXCEPT !.generation = @ + 1]
    /\ player' = "request"
    /\ UNCHANGED sh

PlayerRequest ==
    /\ player = "request"
    /\ req' = [req EXCEPT !.start = TRUE]
    /\ sh' = [sh EXCEPT !.notified = TRUE]
    /\ player' = "idle"

PlayerStep == PlayerCheck \/ PlayerGeneration \/ PlayerRequest

----------------------------------------------------------------------------
\* The history variable: play() has stored into the request while main was in
\* a call, or while the audio task was deciding to open.  It is forgotten once
\* neither goes on; no action reads it.
Race(store) ==
    raced' = /\ todo' # <<>> \/ pc' \in {"open_generation", "open_starting"}
             /\ raced \/ (store /\ (todo # <<>> \/ pc = "open_generation"))

Main == (MainStep \/ Request) /\ UNCHANGED <<hw, pc, task, player>> /\ Race(FALSE)
Audio == AudioStep /\ UNCHANGED <<req, mics, outside, todo, seen, player>> /\ Race(FALSE)
Player == /\ PlayerStep /\ UNCHANGED <<hw, mics, outside, todo, seen, pc, task>>
          /\ Race(player # "idle")

Next == Main \/ Audio \/ Player

Spec == Init /\ [][Next]_vars

\* The scheduler runs every task that can run, a call ends once begun, and
\* loop() comes round whatever else main is asked; nobody has to ask.
MainProgress == MainStep /\ UNCHANGED <<hw, pc, task, player>> /\ Race(FALSE)
LoopRuns == Loop /\ UNCHANGED <<hw, pc, task, player>> /\ Race(FALSE)
Fairness == /\ WF_vars(MainProgress) /\ SF_vars(LoopRuns)
            /\ WF_vars(Audio) /\ WF_vars(Player /\ player # "idle")
FairSpec == Spec /\ Fairness

----------------------------------------------------------------------------
MainLabels == {"start", "start_generation", "start_request", "stop", "stop_teardown",
    "stop_generation", "stop_speaker_running", "processor_on", "processor_off", "stop_running",
    "notify", "update", "stop_if_silent", "start_speaker", "speaker_if_running",
    "speaker_running", "stop_speaker", "stop_speaker_reset", "finish_phase",
    "finish_generation", "finish", "commit", "commit_running", "commit_phase", "started",
    "fail", "fail_speaker"} \cup Triggers
TaskLabels == {"top", "service_phase", "service_running", "service_requested",
    "service_generation", "service_teardown", "close", "close_done", "close_publish",
    "close_event", "open_requested", "open_generation", "open_starting", "open",
    "open_current", "open_current_generation", "open_abort", "open_aborted", "open_ready",
    "publish_generation", "publish_phase", "publish_event", "park", "park_running",
    "park_phase", "park_requested", "park_stopped", "wait", "session_setup", "session",
    "frame", "frame_rejected", "frame_desync"}

Requests == [start : BOOLEAN, generation : Nat, speaker : BOOLEAN]
Shared == [running : BOOLEAN, speakerRunning : BOOLEAN, phase : Phases,
           teardownPending : BOOLEAN, i2sError : BOOLEAN, speakerReset : BOOLEAN,
           tracking : BOOLEAN, eventPending : BOOLEAN, notified : BOOLEAN]
Hardware == [readyGeneration : Nat, taskIdle : BOOLEAN,
             state : {"UNPREPARED", "RUNNING", "ERROR"}, handles : BOOLEAN]
Outside == [processor : BOOLEAN, state : RuntimeStates, amplifier : BOOLEAN, announced : Nat]
Results == [phase : Phases, generation : Nat]
TaskLocals == [phase : Phases, generation : Nat, closing : {"no", "abandoned", "failed"},
               opened : BOOLEAN]

StateTyped ==
    /\ req \in Requests
    /\ sh \in Shared
    /\ hw \in Hardware
    /\ mics \subseteq Tokens
    /\ outside \in Outside
    /\ seen \in Results
    /\ pc \in TaskLabels
    /\ task \in TaskLocals
    /\ player \in {"idle", "generation", "request"}

\* Every variable keeps its type, and the call stack of main holds known steps
\* only: close_audio_io_ leaves no state but the three it may end in.
TypeOK == StateTyped /\ todo \in Seq(MainLabels) /\ raced \in BOOLEAN

----------------------------------------------------------------------------
(* Safety.                                                                 *)

\* Where main runs user code: between calls and inside a callback.
UserRuns == todo = <<>> \/ Head(todo) \in Triggers

\* is_idle(), as the esp_audio_stack.is_idle condition evaluates it.
IsIdle ==
    /\ ~req.start /\ ~sh.running /\ hw.taskIdle /\ ~sh.teardownPending
    /\ hw.state = "UNPREPARED"

Opening == {"open_starting", "open", "open_current", "open_current_generation",
            "open_ready", "open_abort"}

\* Whenever user code can ask, is_idle is true only with both I2S channels
\* released and no open under way: a stop() that catches the audio task about
\* to open must have published the barrier before anyone may look.  Only the
\* decision to open, not yet acted on, may go unseen, and only if a restart
\* from the producer's task came in between.
IdleMeansReleased ==
    UserRuns /\ IsIdle => /\ ~hw.handles
                          /\ pc \in Opening => pc = "open_starting" /\ raced

\* A start is READY, and stays so while main commits it, only with the
\* hardware open; it is the audio task itself that takes the hardware away,
\* and it then withdraws READY.
ReadyIsOpen ==
    sh.phase \in {"READY", "COMMITTING"} /\ pc \notin {"close_done", "close_publish"}
        => hw.state = "RUNNING"

\* The path as AudioPath has it.
PathOf ==
    IF hw.state = "RUNNING" THEN "open"
    ELSE IF hw.state = "ERROR" /\ hw.handles THEN "stuck" ELSE "closed"

Path == INSTANCE AudioPath WITH path <- PathOf

\* Whatever starts and stops ask for, the audio task uses the path the way
\* AudioPath promises it, as Hardware does call by call: what the driver has
\* not given back is never opened.
PathContract == Path!Spec

\* A commit belongs to the start that is requested now and to the hardware
\* opened for it, although phase and generation are loaded one after the
\* other while the audio task may replace both.  A restart from the producer's
\* task in the middle of it is newer than the commit; the request stands even so.
CommitIsCurrent ==
    At("commit_running") =>
        /\ req.start
        /\ \/ raced
           \/ seen.generation = req.generation /\ hw.readyGeneration = req.generation

\* The amplifier's supply, switched by the speaker triggers, is on between
\* calls exactly while the speaker is running.
AmplifierFollows == todo = <<>> => outside.amplifier = sh.speakerRunning

\* Once nothing is in progress, the published runtime state is the computed
\* one: no change of consumers or speaker leaves a stale state behind.
Quiet == todo = <<>> /\ pc = "wait" /\ ~sh.notified /\ ~sh.eventPending
RuntimeStateFresh == Quiet => outside.state = ComputedRuntimeState

\* In a running stack the processor works exactly when someone listens.
ProcessorMatches ==
    todo = <<>> /\ sh.running /\ sh.phase = "RUNNING" => outside.processor = (mics # {})

\* on_start runs with the hardware ready, unless a fault has closed it.
OnStartFindsHardware == At("on_start") /\ Faults = {} => hw.state = "RUNNING"

----------------------------------------------------------------------------
(* Liveness.                                                               *)

\* A requested start is eventually running or withdrawn: no completion, no
\* cancellation and no notification is lost on the way.
StartSettles == req.start ~> (sh.running \/ ~req.start)

\* A stop that set the barrier ends with the hardware closed or asked for anew.
StopCleansUp == sh.teardownPending ~> (hw.state # "RUNNING" \/ req.start)

\* Hardware nobody requests is eventually closed.
UnwantedIsClosed == ~req.start ~> (hw.state # "RUNNING" \/ req.start)

\* While microphone consumers or a speaker want the stack, it comes up, and
\* when the last one leaves, it goes down.
Wanted == mics # {} \/ req.speaker
ConsumersServed == Wanted ~> (sh.running \/ ~Wanted)
=============================================================================
