# Verification of esphome-audio-stack

TLA+ models of the ESPHome components under `esphome/components`, model-checked with TLC and, for
their central invariants, proved with TLAPS. The source is the reference: each definition that
models code is listed under `map` in `PROJECT.json` with the lines it stands for. File names below
are those of `esphome/components/esp_audio_stack/` unless another directory is given.

## 1. The system

One ESP32 runs a full-duplex audio path: a microphone and a speaker on one I2S bus (or two),
optionally through a codec, optionally through an echo-cancelling processor. Concurrency is the
hard part: the ESPHome main loop, one permanent audio task, the I2S interrupt, the processor's own
tasks, producers of PCM and an optional TCP capture worker share state through atomics, FreeRTOS
queues and task notifications, mostly without locks, on one or two cores.

| Component | State it keeps | Operations | Talks to |
|---|---|---|---|
| Lifecycle (`ESPAudioStack`, `esp_audio_stack.cpp` 1480-1836, `audio_pipeline.cpp` 455-490, 640-845) | request, generation, phase, cleanup barrier, running flags, consumer registry, I2S state | `start`, `stop`, `register/unregister_mic_consumer`, `start/stop_speaker`, `loop`; `service_audio_lifecycle_`, `audio_session_` | both facades, processor, automations, ISR |
| TX DMA completion (`esp_audio_stack.cpp` 1240-1478) | free/ready/event queues, staging records, descriptors, pending count, playback generation, desync flag | `queue_tx_dma_block_`, `drain_tx_completion_events_`, `reset_tx_playback_`; `tx_on_sent_callback` in the interrupt | lifecycle, speaker output callbacks |
| Frame pipeline (`audio_pipeline.cpp`) | per-session buffers | one period: RX, conversion, processor, mixing, TX | all of the above |
| Speaker facade (`speaker/`) | state machine, listener flag, finishing, timeout | `start`, `stop`, `finish`, `play`, `loop` | lifecycle, ring buffer |
| Microphone facade (`microphone/`) | listener count, state | `start`, `stop`, `loop`, `on_audio_data_` | registry |
| Ring buffers (`audio_core_ring_buffer_caps.h`) | FreeRTOS ring buffer | `read`, `write`, `reset`, `acquire/complete/receive/return` | speaker, processor, capture |
| `EspAfe` (`../esp_afe/`) | AFE instance, manager, rings, acquisition request and epoch, mode queue, result flag | `process`, `reconfigure`, `request_reinit_by_name`, `set_processing_active`, feature toggles, owner task | lifecycle (active/background), audio task |
| `EspAec` (`../esp_aec/`) | AEC handle under a mutex, frame-spec revision | `process` (try-lock), `reconfigure` | audio task |
| `ESPAudioCapture` (`../esp_audio_capture/`) | queue, writer count, socket, worker task | `start`, `stop`, `loop`, `on_capture_frame`, worker | registry, frame pipeline |
| Path to the hardware (`esp_audio_stack.cpp` 592-1238, `codec_dev_backend.cpp`) | I2S state, channel handles, codec objects | `enable_i2s_channels_`, `deinit_i2s_`, `setup`, `open`, `close`, `teardown` | audio task, vendor driver |
| Codec controls (`audio_codec_controls.cpp`) | gain requests by revision | gain, volume, mute | audio task |
| Conversions (`audio_effects_rate_converter.cpp`, `audio_core_audio_utils.h`, `audio_slot_layout.h`) | resampler handles, DC blocker | pure arithmetic | frame pipeline |
| Diagnostics, entities, Python generators | snapshots, build-time data | logging, YAML validation | - |

**What makes each component correct.**

* Lifecycle: a start is answered exactly once, by the hardware opened for it; a cancelled start
  leaves nothing open; `is_idle` is true only when everything is released; consumers and the
  speaker bring the stack up and take it down; edges (triggers, processor activity, runtime state)
  match the state they announce.
* TX completion: a staging block has one owner; the pending count is the real audio not yet sent;
  frames are credited once, in order, and never to a later playback; no false desynchronisation.
* Path to the hardware: whichever call fails, nothing outlives what it was created with, the I2S
  state tells what is there, and a path that was not given back is never opened.
* Frame pipeline: what a period dispatches is that period's, and never the raw microphone while the
  processor is enabled; the echo reference stays in its place; a new frame size is noticed.
* `EspAfe`: `process()` never runs on an instance being replaced; nothing of an older acquisition
  is delivered to a newer one; what is asked for is done, and the owner never sleeps on work.
* `ESPAudioCapture`: the queue is freed only when no producer is inside; the capture always ends.
* Facades: a stream that was started runs or is reported stopped; a failed session is retried a
  bounded number of times; `finish()` ends after the last sample.

The hard behaviours, each at its line, are the `hazards` of `PROJECT.json`.

## 2. Modules and plan

```
  AudioPath            what the path to the hardware promises
    |  \
    |   Hardware       opening and closing, call by call
    |     |
    |   FramePath      the sessions and periods on it, with the processor's rebuilds
    |
  AudioLifecycle       who opens and closes it, and when

  SpeakerOutput        PCM to the DMA and its credit back     } each with what it sees
  Capture              the capture queue and its worker       } of the others as
  EspAfe               the AFE's instance and its owner       } actions of its own
```

`AudioLifecycle`, `Hardware` and `FramePath` are each shown to implement `AudioPath`, and
`FramePath`, which extends `Hardware`, to implement `Hardware`. In `AudioLifecycle` the path is one
variable that a step opens, closes or spoils; in `Hardware` each of these is a list of driver calls.

| Module | Models | Proofs |
|---|---|---|
| `AudioLifecycle` (section 3) | three tasks over atomics | `AudioLifecycleProofs`, `AudioLifecycleSafety` |
| `SpeakerOutput` (4) | `play()` to the DMA and its credit back | `SpeakerProofs` |
| `Capture` (5) | writers, worker and main over the capture queue | `CaptureProofs` |
| `AudioPath`, `Hardware` (6) | the path and its driver calls | `PathProofs` |
| `FramePath` (7) | sessions, periods, reference, frame sizes | `PathProofs`, `FrameProofs` |
| `EspAfe` (8) | drain, rebuild, acquisitions, mode queue | `EspAfeProofs`, `EspAfeSafety` |

What remains, in this order:

1. the abstract specification of a playback (a FIFO whose chunks are credited once or discarded by
   a reset), which `SpeakerOutput` should implement; `PlayedInOrder` and `CreditsFollowDma` are the two
   halves of it;
2. liveness of the AFE under the fairness of its two tasks; today the lost wake-up is excluded as an
   invariant (`ParkedIsIdle`);
3. arithmetic: slot layout, boost and DC blocker as operators against reference definitions.

## 3. `AudioLifecycle`

### State

| Variable | Code |
|---|---|
| `req` | `start_requested_`, `start_generation_`, `speaker_requested_` |
| `sh` | `audio_stack_running_`, `speaker_running_`, `start_phase_`, `teardown_pending_`, `has_i2s_error_`, `request_speaker_reset_`, `tx_completion_tracking_active_`, `lifecycle_events_`, the audio task's notification slot |
| `hw` | `ready_generation_`, `audio_task_idle_`, `i2s_hardware_state_` (only the values visible at rest) and whether channel handles exist |
| `mics` | `mic_consumers_` |
| `outside` | what others observe: whether the processor is told to work, the published runtime state, an amplifier switched by the speaker triggers, the generation last announced by `on_start` |
| `todo`, `seen` | main: the rest of the call in progress, and the locals of `finish_audio_lifecycle_` |
| `pc`, `task` | audio task: its next step and its locals |
| `player` | a PCM producer inside `play()` |
| `raced` | history, no code: a store of `play()`'s restart has landed while main was in a call, or while the audio task was deciding to open. It lasts until neither goes on; no action reads it |

### Actions

A step is one access to the shared atomics, or several that no other task can tell apart. Main's
calls are sequences of steps in `todo`; a callback that calls `start()` or `stop()` puts that call's
steps in front of the rest of its caller, which is what the C++ call stack does (`FireTrigger`).
`start()` is `StartCheck`, `NextGeneration`, `StartRequest`, `Notify`; `stop()` is `StopTake`,
`StopTeardown`, ..., `StopRunning`, `on_idle`, `Notify`; `finish_audio_lifecycle_()` loads phase and
generation in two steps and then commits or fails. The audio task follows
`service_audio_lifecycle_` (`Top` to `PublishEvent`), the parking code of `audio_task_` (`Park` to
`Wait`) and `audio_session_` (`SessionSetup` to `FrameDesync`). `PlayerStep` is `start()` called
from `play()` in a producer's task; it is enabled by the constant `Recoveries`.

`Faults` names what may go wrong: `open` (channels or codec do not come up), `release` (a handle
cannot be deleted, state `ERROR`), `setup` (frame shape or buffers of a session), `io` (read or
write error of a period), `desync` (TX completion contract broken), `respec` (the processor changed
its frame shape, the session is restarted). `Automations` names the triggers whose user code calls
`start()` or `stop()`.

### Left out

Gain and volume requests, the preallocation of buffers (folded into the `setup` fault), logging,
`on_state` automations, `start()`'s creation of the audio task and its failure (`1598`-`1606`: the task
is there, or `start()` leaves only the error flag), `lifecycle_callback_` (`1593`, the last thing a result
does: what the child components call in it is here a call right after), a board without TX (tracking is then always off), separate RX and TX
handles (one flag), and the transient I2S states PREPARING, READY and STOPPING, which no other task
bases a decision on. `stop()`'s exchange of the request and its load of the running flag are one
step: the audio task changes `audio_stack_running_` only from true to false, and a stop that takes
the request back proceeds either way. `play()`'s flags `listener_registered_` and
`implicit_recovery_used_` only limit how often the player may act; the player here may act whenever
the session has failed, which includes all of those behaviours.

### Runs

| Run | Question | Bounds |
|---|---|---|
| `lifecycle_safety` | READY means open hardware; the amplifier follows the speaker; `is_idle` and a commit, with the restarts of a player; the path is used as `AudioPath` allows | one consumer, generations up to 3, `stop` and the speaker's calls, the faults `open`, `release` and `respec`, the automations of the repository's lifecycle test (restart on `on_idle`, stop on `on_start`), with the player |
| `lifecycle_settles` | every start settles, every stop cleans up | `start`/`stop`, the same automations, all faults but `respec`, no player |
| `lifecycle_consumers` | consumers and speaker are served, unwanted hardware closes, derived state is fresh | two consumers, the speaker, no faults |
| `lifecycle_late_teardown` | a disagreement between the documentation of `on_start` and the code | the smallest bounds that show it |

`MaxGeneration` bounds the number of starts and stops (each call takes one generation). Three are
enough for a request to be open, cancelled and superseded at once, which is the most the protocol
can hold: it has four copies of a generation (requested, being opened, published, seen by main),
and a fourth call adds no new relation among them. `lifecycle_late_teardown` needs four for its
counterexample. Two consumers are needed for "first" and "last" to be different events. The state spaces are finite
without a state constraint; deadlock checking is off because a stack nobody asks for is at rest.

### What the violation run shows

`lifecycle_late_teardown`: the barrier of an old `stop()` closes the hardware of a newer `start()`
(`esp_audio_stack.cpp:1507` against `1522`), and `on_start` runs without hardware.

The sentence of the documentation it contradicts is quoted in `PROJECT.json` under `findings`.

Four more behaviours of the model are known and have no run of their own:

* `finish_audio_lifecycle_` loads the phase (`1557`) and then the generation (`1558`). With FAILED of an
  open that a `stop()` and a `start()` have superseded, and the generation of the newer one, whose
  hardware has just come up, it withdraws the start that succeeded (`1581`): `on_idle` fires, the published
  READY has no request, the audio task sleeps, and a later `stop()` returns early, so that the hardware
  stays open until somebody starts again. The READY branch is protected by its compare-exchange
  (`1562`), the FAILED branch has none. With the fault `open`, TLC shows it as a violation of
  `UnwantedIsClosed`, which `lifecycle_consumers` therefore checks without faults.
* An orderly `stop()` may raise the I2S error, because tracking is turned off (`1631`) before
  `audio_stack_running_` (`1644`) and a period in between takes the refusal for a desynchronisation
  (`audio_pipeline.cpp:1613-1616`).
* A session that cannot be set up clears `speaker_running_` from the audio task
  (`audio_pipeline.cpp:670`, `685`), so `on_speaker_idle` is never fired and an amplifier switched by it
  stays on; `lifecycle_safety` therefore runs without the `setup` fault.
* With the player (`Recoveries = TRUE`) `StartSettles` is false: `play()` publishes a generation and its
  request in two steps from another task (`1609`, `1610`), and a failure of that generation which main
  consumes in between leaves the request unserved. `lifecycle_settles` therefore runs without the player.

### Fairness

`FairSpec` assumes weak fairness of a call main has begun, of the audio task, and of a player inside
`start()`: FreeRTOS runs every task that can run, and each of these steps is bounded work. `loop()`
has strong fairness, because ESPHome's loop comes round between any two public calls. Nobody is
obliged to call anything: `Request` and the player's first step are unfair.

### Proofs

`AudioLifecycleProofs` proves `Spec => []TypeOK` (`Typing`). `AudioLifecycleSafety` proves, on top:

* `ReadyHardware`: `Spec => []ReadyIsOpen`, for every constant. The invariant is not inductive: the
  audio task opens the hardware some steps before it publishes READY, and closes it before it
  withdraws READY. `OpenedAsPublished` adds what the task knows in between: while it is opening, the
  phase is neither READY nor COMMITTING, and its local result is READY only with the hardware open.
* `LifecycleKeepsPath`: `Spec => PathContract`, the refinement of `AudioPath`: with everybody
  interleaved in any way the audio task never opens a path that was not given back. Types are all
  it needs: no task but that one moves the path, and it refuses ERROR in the step that would open.
* `CurrentCommit`: `Spec => []CommitIsCurrent`, for every constant. `GenerationsOrdered` orders the four
  copies of the generation (what main saw, what is published, what the task opens, what is
  requested), and `DecisionHolds` says that from main's decision to its store the request stands and,
  unless `raced`, is the one it decided on: the audio task can publish nothing newer. The exception is
  in the code. The comment "Requests originate in the component loop" (`esp_audio_stack.h:800`) is not
  true of `play()` (`esp_audio_stack_speaker.cpp:105-111`), which may raise the generation between
  main's comparison (`1559`) and its store (`1565`). It can do so only if it tested the failed phase
  before, and it never takes a request back, so that `start_requested_` is true at every commit.

* `AmplifierIsRight` and `RuntimeStateIsRight`: `"setup" \notin Faults` and `Spec` give
  `[]AmplifierFollows` and `[]RuntimeStateFresh`. Both say what holds when main's call stack is empty, so
  the invariants say what an unfinished stack still owes: `AmpInv`, that a due speaker trigger is on top
  of it, and `FreshInv`, that a stale runtime state has an `update` somewhere in it. `StackInv`
  (`StackAlways`) carries them: a step of `finish_audio_lifecycle_` is found only in one of the stacks
  that call can leave (`LoopStacks`), and a speaker trigger only on top, whatever the automations push.
  The assumption is the swallowed `on_speaker_idle` above (`audio_pipeline.cpp:670`).
* `ProcessorIsRight`: `Spec => []ProcessorMatches`, with no assumption. `ListenInv` pairs each
  processor step on the stack with what it is owed for, says that below a `processor_off` of a stack
  with listeners the session's end is to come (`Ends`), and that main never handles a FAILED while the
  phase is RUNNING (`FailureStands`).

* `IdleIsReleased`: `Spec => []IdleMeansReleased`, for every constant. `is_idle()` reads five atomics
  (`esp_audio_stack.h:417`), and the idle flag of the audio task may still be up from its last park
  while it decides to open (`Deciding`). `IdleInv` says why no one can look then: the decision was for a
  request that is live, or whose withdrawal has a barrier on top of main's stack, or that the next
  step of main renews, or the task has loaded an answer to the requested generation and will not open
  after all (`Answered`). The last case is `Fail`, which takes the request back without a barrier: once
  main has seen FAILED with the request live, whatever the task publishes for that generation is READY
  or FAILED (`AnswerStands`), so what it has loaded cannot make it open again. `Nested` says where
  `stop_teardown`, `stop_generation` and `start_generation` can lie on the stack: on top, in the order
  of the stores. The player adds the one exception, which `raced` marks: between the two stores of
  `start()` in `play()` (`1609`, `1610`), right after `Fail`, the generation is new and the request is not
  there yet; a task that has loaded FAILED and tested the request earlier then goes on to open, and until
  it has stored its idle flag (`1526`) `is_idle()` is true. The theorem says that this is all a restart can
  do: no handle exists in such a state, and at the next step of the audio task `is_idle()` is false.
  `IdleInv` keeps what the task knows (`TaskInv`) and the order of main's steps in every state, and the
  rest (`RequestInv`) unless `raced`; when a race is forgotten, there is nothing left to cover
  (`Forgotten`).

The proofs have one step per action. `StackInv`, `AmpInv`, `FreshInv`, `ListenInv` and `IdleInv` were also
checked by TLC, with every call and fault. Only model-checked: the liveness properties, which are out of
the prover's reach.

## 4. `SpeakerOutput`

Four tasks: a producer in `play()`, main (the facade's calls and `loop()`, the stack's `start()`,
`stop()` and commit), the audio task, and the interrupt `tx_on_sent_callback`, which may run on the
other core. A chunk is the PCM of one DMA buffer, numbered as it is offered; 0 is silence.

### State

| Variable | Code |
|---|---|
| `ring` | `speaker_buffer_` |
| `flag` | `request_speaker_reset_`, `speaker_running_`, `speaker_requested_` (`wanted`), `speaker_paused_`, `tx_completion_tracking_active_`, `tx_completion_desync_`, `has_i2s_error_`; of the lifecycle `start_requested_`, whether the ready generation is the requested one (`current`), `audio_stack_running_` (`stack`), and the phase FAILED (`failed`) |
| `queues` | `tx_free_queue_`, `tx_ready_queue_`, `tx_completion_event_queue_` |
| `staged`, `dma` | `tx_staging_records_`, `tx_dma_descriptors_` |
| `play` | `tx_playback_generation_`, `tx_completion_pending_real_records_` |
| `isr`, `audio`, `producer` | next step and locals of the interrupt, of a period, of `play()` |
| `facade` | `state_`, `listener_registered_`, `finishing_`, `parent_requested_` (`asked`), `implicit_recovery_used_`, and main's next step |
| `history` | chunks of this playback sent and credited; counts for the bounds |

### Actions

The interrupt is `IsrSent` (the record leaves the count), `IsrEvent` (the credit is posted),
`IsrTake` and `IsrRefill` (ready blocks are tried until one is of this generation). The audio task
goes through one period: `ResetRing` to `ResetDone` when a reset is due, `Period` (the drain, and
the snapshot of the speaker flags, which `Read` uses only after the capture half), `Read`, then
`Block` and `Admit` per DMA buffer; `Rejected` is the refusal by a stack that stops; `SessionEnds`
and `Close` end the session. The facade's `loop()` is `LoopFailed` to `LoopStopping`, one action
per branch; `stop_speaker()` sets the flags first and the reset in `StopSpeakerReset`.

Steps of one task are merged where no other task can tell them apart: `Admit` stages, counts and
then makes a block ready, and the interrupt reads the first two only after the last; `Close` runs
with the interrupt off; the reset's reading of the ready queue is one step per block because the
interrupt takes from the same queue. The facade's loop may always run, although the code disables
it while it has nothing to do: `enable_loop_soon_any_context()` follows every event it waits for.

### Runs

| Run | Question | Bounds |
|---|---|---|
| `speaker_output` | credits, order and overflow, from one stream to the next | two staging blocks, two DMA buffers, two per period, a ring of two, two streams with three chunks, or five while there is one stream; a stop at any step |
| `speaker_finish` | `finish()` ends, resets are served | a ring of one and two chunks; a microphone or none; a pause at any step |
| `speaker_sessions` | the count and the blocks survive a close with PCM on the way | one stream of two chunks, one reopening; stop, fault, the stack's own `start`/`stop`; a microphone or none |

Two blocks and two descriptors are the smallest sizes the code allows (`esp_audio_stack.cpp:1333`,
`1337`), and every queue fills and empties at them. With three chunks and two streams, PCM of the
first can still be in the DMA ring while the second fills the staging. Five chunks of one stream
(`MaxAlone`) are one more than the event queue has room for. One period admits two blocks, so it
can be cut by a stop between its blocks.

`OverflowOnlyDry`: the event queue holds blocks + descriptors events and is drained before each
block. It can still fill, but only if the audio task is held up until the whole staging and the
whole DMA ring have been played out; sound has then already stopped, and the desynchronisation
that is reported costs no flowing PCM.

### Behaviours to know of

Four sequences are in the model and no property excludes them.

1. `play()` tests for a pending reset once (`1798`) and then waits for space (`1823`); what was let in
   before the reset is written after it (`262-265`), so PCM of a stopped stream may be played in the
   next. The comment at `esp_audio_stack.cpp:273-275` says otherwise.
2. Nothing withdraws `speaker_requested_` when a session fails (`1581-1593`, facade `210-216`): the
   next start by another consumer runs the speaker (`1578`) for a stream that has ended, contrary to
   `CHANGELOG.md:53-54`.
3. If the stack is stopped and started again and commits between two loops of the facade, the facade
   stays RUNNING over a speaker that nobody has asked for
   (`speaker/esp_audio_stack_speaker.cpp:217`): what it accepts is not played, and `finish()` waits.
   The window is a hardware open shorter than one round of the main loop.
4. `finish()` may stop the facade while the audio task holds PCM that has left the ring and is not
   yet counted as pending (`audio_pipeline.cpp:1687` to `1613`), which loses at most one period.

### Fairness

Weak fairness of the interrupt (the I2S clock runs), of the audio task, of main's steps that follow
from a loop, and of the commit. `play()` and all calls by automations are unfair. `FinishEnds` asks
for a facade and a speaker that stay up and are not paused; a paused stream rightly waits, and
the missed restart above is why the speaker is named as well as the facade.

### Left out

Partly filled DMA buffers and their timestamps, a completion for an unknown buffer or size, an
admission timeout with a stopped clock, a failing format conversion after the ring was read, the
extra generations a close takes, the hardware open (it succeeds; its failures are `AudioLifecycle`'s
subject), volume and mute.

### Proofs

`SpeakerProofs`, for every number of blocks, DMA buffers and ring places and every bound:

* `BlocksAreConserved`: `Spec => []BlocksConserved`. `Placed` says it of the sets of blocks in each
  queue, and that no queue has a block twice; each of the five steps that move a block
  (`IsrTake`, `IsrRefill`, `ResetReady`, `Admit`, `Close`) takes it from one set and adds it to
  another. `OnceCounts` turns sets into the counts of the property.
* `PendingIsExact`: `Spec => []PendingExact`, by `Counted`: the count is the cardinality of `Carried`
  (blocks ready or in the interrupt's hand with PCM) plus that of `Playing` (DMA buffers with PCM), and
  the buffer the interrupt is about to refill holds none, for it was cleared when it was sent. `Placed`
  is needed: were an admitted block still ready, its new record would replace one that is counted.
* `Typing`: `Spec => []TypeOK`. `Typed` lets the count be any integer and the block queues any
  length; that the one is never negative and the others fit in the staging follows from the two above.
* `OverflowIsDry`: `Spec => OverflowOnlyDry`, by `Spacious`: the events queued or due, the blocks loaded, the
  buffers that sound and one more for a drain just done never exceed the room of the event queue by more
  than one. One block is admitted for each drain, so the event that finds no place is the last.
* `CreditsFollowTheDma`: `Spec => []CreditsFollowDma`, by `Account`: events are dated in the order of their
  playbacks (`Dated`), no event of an older playback comes after one of the current (`OldFirst`), and what
  was sent is what was credited followed by what is queued and in hand (`Owed`).
* `PlaysInOrder`: `Spec => []PlayedInOrder`, by `InOrder`: sent, in the DMA ring, in hand or ready, held by
  the period, in the speaker's ring, about to be written: a chunk of a later place is larger than any of
  an earlier (`Line`), and within a place they rise, in the DMA ring counted from the buffer that is sent
  next. `Tidy` is needed for the places a reset or a close leaves empty.

## 5. `Capture`

Three tasks: main (`start()`, `stop()`, `loop()` of `ESPAudioCapture`), the audio task in
`on_capture_frame()`, which is the only producer (all callers of `capture_audio_` are in its frame),
and a worker per capture. The queue belongs to main, and must outlive the producer's last use of it
although the audio callback takes no lock: `writers_` counts who is inside, `active_` admits, and
the worker leaves only when it has cleared the one and then seen the other at zero.

### State and actions

| Variable | Code |
|---|---|
| `atomics` | `active_`, `stopping_`, `connected_`, `worker_done_`, `writers_`, `bound_generation_` |
| `queue` | `queue_`: existence, completed records, a reservation |
| `point` | per capture point the format first seen, `sequences_`, `drops_` |
| `held` | `microphone_held_` |
| `main`, `worker`, `producer` | next step and locals; `worker.pc = "none"` is a null `worker_handle_` |
| `env` | the deadline has passed; `capture_generation()` of the stack (`session`) |
| `history` | what the peer received of this capture, a late opening, counts for the bounds |

Every access to an atomic is a step, but for these: `start()` is one step, because nobody else acts
on what it writes before `active_` is set, much later; `loop()`'s tests that only lead to the same
`stop()` are one (`LoopChecks`); a test whose outcome cannot change until main itself acts is one
with what follows. `stop()` is three steps (`StopAdmission`, `StopWorker`, `StopRelease`) wherever it
is called from, and returns to `main.then`. The mute state and `has_failed_session()` may have either
value at each look. `loop()` is called while there is a worker: it is disabled only without one.

Left out: sizes, and so which frame the queue refuses (`Drop` is always possible, `Keep` only with
room); sample copying; the text of a record; `connect`, `send` and `select`, which succeed or fail
(a `send` always ends, its budget is a second); positions and timestamps; the points mask.

### Runs

| Run | Question | Bounds |
|---|---|---|
| `capture_session` | the queue is held, one stream with declared gaps, everything given back, every capture ends | two captures, two frames in all, two formats, two sessions of the stack, a queue of one |
| `capture_late_open` | a disagreement with the ring buffer's contract | one capture, one frame |

Two captures are what lets a call of the first reach the second, and a queue of one fills with the
first frame. A capture opened late is followed to its end, and none is started after it. `stop()`
from outside is not bounded.

`capture_late_open` shows `loop()` opening admission (`esp_audio_capture.cpp:121`) after the deadline
it tested before (`108`) has made the worker leave: the next `loop()` deletes the queue under a
producer. `history.late` marks this, and `QueueHeldInTime`, `OneStream` and `GapsDeclared` are stated
for the behaviours without it; `Released` and `Ends` for all. One more sequence is visible and has no
run: a call that has passed the first look at `active_` (`127`) and is overtaken by `stop()`, the end
of the capture and a new `start()` is counted in the new capture, binds it to the old session
(`144`), and the new capture ends at the next frame or loop. `OneStream` says that the peer still
never sees two sessions.

### Fairness

Weak fairness of the worker, of the producer inside a call, and of main inside `stop()` or `loop()`;
strong fairness of the call of `loop()`, which ESPHome makes again and again between the calls of
automations. Calls of `start()`, `stop()` and frames are unfair. `Ends` needs the loop: a worker that
waits for the writers has no timeout, and only `loop()` (`104`) wakes it once they have left.

### Proofs

`CaptureProofs`, for any number of captures, calls, points, formats and sessions:

* `Typing`: `Spec => []TypeOK`, with `WritersExact`: the count is one exactly from the increment to
  the decrement, on each of the four ways out.
* `Reclamation`: `Spec => []QueueHeldInTime`. Not inductive alone; `Shut` adds that admission stays
  closed once the worker has closed it, and `Owned` that main deletes only a parked worker and goes
  through `loop()` only with one. The worker passes `299` only with no writer inside, and by `Shut`
  nobody gets in afterwards.
* `Release`: `Spec => []Released`, by `Cleared`: between the last `stop()` and the deletion neither
  the microphone nor admission can come back.

* `StreamIsOne`: `Spec => []OneStream`. `OneInv` says it of each record against the binding and the format
  of its point (`Fits`), of those queued and of the one being written as well.
* `GapsAreDeclared`: `Spec => []GapsDeclared`. `GapInv` carries the account through the queue to the counters:
  a point's sequence number is the records of it sent and queued, plus one reserved, plus its drops.

Only model-checked: the liveness of `Ends`.

## 6. `AudioPath` and `Hardware`

`AudioPath` is the promise: the path is closed or open; one the driver would not give back is stuck,
and a stuck path is given back before it is opened. `Hardware` is the code behind it
(`esp_audio_stack.cpp` 592-1238, `codec_dev_backend.cpp`): an opening is `OpenPlan`, a list of calls
that the board's features choose from and each of which may fail; a closing is `DeinitPlan`, whose
calls are not looked at, save that a channel which cannot be released keeps its handle.

| Variable | Code |
|---|---|
| `board` | what is compiled in: a microphone, a codec, two I2S ports, ADC and DAC chips |
| `state` | `i2s_hardware_state_` |
| `held`, `enabled` | channel handles and codec objects that exist; channels the driver runs |
| `opened`, `tracking` | `CodecDevBackend::open_`, `tx_completion_tracking_active_` |
| `at` | the audio task: operation, next call, whether another `deinit_i2s_` follows and what it sets |

`Begin` is the lifecycle's decision to open (in ERROR it is refused and released), `Proceed` and
`Fail` a call that works or fails, `Deinit` a closing that was asked for, `Untrack` to `Settle` its
calls. `UsesHeld`: no object outlives one it was created with. `RestIsHonest`: what the I2S state
says between operations is so. `QuietQueues`: the queues of the interrupt are made anew only while
no channel runs. The vendor's `esp_codec_dev` and the I2S driver are external: a call works, or fails
and may leave channels running.

`PathProofs` proves for every board and every build that `FramePath` implements `Hardware`
(`SessionsOnHardware`), `Hardware` implements `AudioPath` (`HardwareKeepsPath`), and so `FramePath`
does (`SessionsKeepPath`). What carries the second proof is that an opening is begun only on a path
that is not in ERROR, and that during it the state is never ERROR.

`NothingOutlives`, `HonestAtRest` and `QueuesAreQuiet` prove `UsesHeld`, `RestIsHonest` and `QuietQueues` of
`Hardware` on every board, and `SessionsKeepHardware` carries them to `FramePath` by the refinement. The
invariant `HwInv` says for each of the 27 calls of an opening and the 15 of a closing what is held,
enabled and tracked before it: an opening holds the objects of the calls behind it and no others
(`OpenInv`), a closing none of the objects whose calls it has passed, save a channel the driver kept
(`DeinitInv`). TLC checked it on all 32 boards. The runs have three of them: the plain driver, a speaker
alone on a codec, and both codec chips on two ports, which together take every call of both plans.

## 7. `FramePath`

The sessions of the audio task on an open path. Every period reads a frame, takes the echo reference
of what was transmitted, has the frame processed, dispatches it and transmits the next block. Main
switches consumers, processor and speaker at any step, and the processor (`EspAec` under its mutex,
or `EspAfe`, which detaches its instance) is rebuilt with another frame size at any step. PCM is
abstracted to the period it is from and to what was done to it.

| Variable | Code |
|---|---|
| `setup` | the processor and the kind of reference compiled in |
| `user` | `has_mic_consumers_`, `processor_enabled_`, `request_speaker_reset_` |
| `proc` | `is_initialized()`, `frame_spec()`, `frame_spec_revision()`, and a rebuild's progress |
| `run`, `room` | `audio_stack_running_` and how a session ended; the frame the buffers hold |
| `ses`, `per` | `AudioTaskCtx`: of the session, of the period; the next step |
| `direct`, `ring` | `direct_aec_ref_`; the ages in `aec_ref_ring_buffer_` |
| `history` | periods since the ring was emptied in which no reference was taken; a revision taken over |

`PrepareRevision`, `PrepareSpec`, `Allocate` are `prepare_audio_context_()` and the buffers;
`Snapshot`, `ReadFrame`/`ReadFails`, `Process`, `Transmit`, `CheckRevision`, `Decide` are the period;
`OpenPath`, `MovePath`, `ClosePath` are `Hardware`'s steps with what they do to the session's state;
`Rebuild`, `Resize`, `Bump`, `Publish` are the processor's.

Run `frame_path` checks `DispatchClean`, `ReferenceLag`, `PreviousFrame`, `SpecFollowed`, the path
properties of section 6 and the refinement. Bounds: two frame sizes (a larger and a smaller, so that
buffers fit or do not), a ring of two frames, one change of revision, ages and slips told apart up to
"3 or more", which is more than the ring can hold.

`FrameProofs` proves, for every build, size and bound:

* `CleanDispatch`: `Spec => []DispatchClean`, by `CleanInv`, which follows the frame from the read
  through the answer of the processor.
* `PreviousIsPrevious`: `Spec => []PreviousFrame`, by `PreviousInv`: a valid reference has the
  preceding period's age and its frame's size except in the first period after an opening or restart.
* `SpecIsFollowed`: `Spec => []SpecFollowed`, by `SpecInv`: reading the revision before the size, and
  publishing it after, leaves a session of the current revision with the current size.
* `RingIsBehind`: `Spec => []ReferenceLag`, by `LagInv`: while the microphone is wanted the ages in the ring
  fall from the oldest to the newest, and the oldest is behind by the slips at most. A take that makes the
  ring one period younger and a transmission that makes it one older have to be told apart.
* `FrameTypes`: `Spec => []TypeOK`, by `Bounded`: among others, that the frame of a session fits its buffers.

Behaviours to know of:

* **A revision is absorbed.** A revision seen while the processor is not ready is taken over by the
  session (`audio_pipeline.cpp:841`), whose frame size stays the old one when the processor is ready
  again. `audio_core_processor.h:100-102` says the consumer must restart. `SpecFollowed` exempts it
  (`absorbed`).
* **Buffers are lost for good.** A frame that no longer fits releases all buffers and allocates anew
  (`283-287`), though the component's `README.md:949-951` says that this path does not allocate. If
  it fails, or a converter cannot be prepared (`277`), there are none, and because
  `prealloc_attempted_` stays set (`629`) every later session fails at `711`.
* **One period of old PCM.** A failed conversion leaves `output_buffer` set (`1012-1016`), and the
  buffer of the period before is dispatched once, in a session that ends; the comment at `996` is
  about failed reads. `DispatchClean` allows just this.
* **Slips last.** A period in which a reference is there and not taken (processor not ready or
  disabled, failed read) delays the ring by one frame until the demand for the microphone changes
  (`789-793`).
* **Old references.** An orderly stop leaves `direct_aec_ref_valid_` set: the first period after
  reopening may get the last of the session before, and one of another size after a restart.
* **Sizes of two sources.** The DMA geometry follows the frame at preparation
  (`esp_audio_stack.cpp:730-738`), the session the size it reads (`545`); a size that is no multiple
  ends the session (`1593-1601`). Between a rebuild and the end of the period `process()` uses its new
  size on the session's buffers; the interface says a reconfiguration "Requires audio stop".

Left out: samples, mixing, gain, slot layouts, the size of a DMA buffer, builds without a processor,
what a hardware reference holds, and the counting of failed reads (any may be the one too many).

## 8. `EspAfe`

The vendor's front end is torn down and rebuilt while audio may be running. `process()` takes no lock:
a rebuild raises `drain_request_`, waits for `process_busy_` to clear, and then detaches. Main makes
calls, an owner task takes the queued mode and reconciles the instance with the activity asked for,
the audio task runs `process()`, and the vendor's tasks call back.

| Variable | Code |
|---|---|
| `request` | `processing_request_`: activity asked for and acquisition epoch |
| `sh` | `manager_epoch_`, `processing_active_` (`admit`), `activity_pending_`, `reconfigure_busy_`, `instance_ready_`, `afe_stopped_`, `voice_present_`, `drain_request_`, the waiter |
| `config`, `queue` | mode and enabled features; `reconfigure_queue_` |
| `notified`, `lock` | the notification slots of main and owner; `config_mutex_` |
| `instance`, `pcm` | existence, rings, callbacks attached; acquisitions whose PCM is on its way |
| `act`, `frame`, `fetch` | next step and locals of main and owner, of `process()`, of the result callback |
| `history` | whether something failed since activity was last asked for; counts for the bounds |

`Lock` to `Up` is the procedure both main and owner run: mutex, drain, detach, build, epoch,
admission, publication; `Retired` ends an acquisition. `Apply` and `Restore` are a change with its
rollback. `Look` to `Done` is a pass of the owner; `SetProcessingActive`, `RequestReinit`,
`VadIntent`, `ToggleStopped`, `ToggleRebuild`, `ToggleLive` are main's calls; `Enter` to `Tell` is
`process()`; `Fetch`, `Voice`, `Release` is the result callback. A step is one access to what is
shared, but that a pass's test and its busy flag are one step, as are the stores that end it.

| Run | Question | Bounds |
|---|---|---|
| `afe_rebuild` | a frame keeps its instance; PCM and voice of an older acquisition never come through; what is idle is settled; the owner never sleeps on work | two modes, every feature, booted with VAD or stopped; activity withdrawn once, one mode or toggle, one failure or timeout |
| `afe_rings` | a disagreement with a comment of the code | one feature switched off and on |

One withdrawal gives two acquisitions, and one failure with one change reaches the rollback; at any of
them `process()`, the callback and the other actor may be at any step. One microphone (`Dual` is
FALSE): only there can the AFE be all off. Deadlock checking is off, since an AFE may rest for ever
between calls. `afe_rings` shows a rebuild after "all features off" that publishes an instance without
rings as ready (`esp_afe.cpp:2003`, `816`): `process()` gives silence until another rebuild.

Proofs, for every set of modes and features and every bound:

* `Typing` (`EspAfeProofs`): `Spec => []TypeOK`. It needs `ActTyped`: no procedure returns to a step
  its caller is not in.
* `FrameKeeps` (`EspAfeProofs`): `Spec => []FrameKeepsInstance`, the drain protocol. `DrainInv` says what
  the one who changes the instance knows at each of its steps: it holds the mutex and has the drain
  request up; from "detach" on nobody is admitted; from "retired" or "build" on nothing is ready; from
  "epoch" on an instance exists. `DrainInv` was also checked by TLC.
* `OwnerNeverSleepsOnWork` (`EspAfeSafety`): `Spec => []ParkedIsIdle`. `WakeInv`: whatever is pending while
  the owner sleeps has been announced or is about to be. The drain of a pass takes notifications from
  the slot main uses, and that is harmless only because the owner looks again before it parks.
* `FramesAreFresh`, `VoiceIsFresh` (`EspAfeSafety`): `Spec => []FreshFrames`, `Spec => []FreshVoice`. `FreshInv`:
  all PCM on its way, the result in the callback's hands, an admitted frame and the VAD state of a ready
  AFE are of the published epoch, and from the detachment of an instance to the end of the procedure there
  is no PCM and no result at all. That is why an epoch may be published without looking at them.
* `IdleSettles` (`EspAfeSafety`): `Spec => []IdleIsSettled`. `JobInv` is which procedure each actor is in and
  for whom, `InstanceInv` where the instance is meanwhile (gone, made, running, ready), and `SettleInv` that
  a request is either still pending or being served, or the AFE is as it asks.

Behaviours to know of:

* VAD enabled again while all features are off and nothing is acquired stores the intent, and the owner
  leaves at `afe_stopped_` (`1914`) without a rebuild; the comment at `914-916` expects it to apply it.
* A notification meant for the owner ends its wait for `process()` early (one slot, one
  `ulTaskNotifyTake` at `633`): the pass reports a drain timeout and rolls back, and nothing timed out.
* `get_last_reconfigure_ok()` is stored by empty passes too (`1540`), so a failure may be overwritten.
* If a change and its rollback fail while main rebuilds, the mode reported is not the instance's.
* `is_voice_present()` asks for the admission, not for the drain (`esp_afe.h:194`), so in a rebuild it
  may show the state of the acquisition before from the admission (`567`) until the state is cleared
  (`811`), and after a failed installation for good: the path that takes it back
  (`756-762`) does not clear the flag. `FreshVoice` is therefore stated for an
  AFE that is ready.
* A failed rebuild and rollback leave `processing_active_` set, and `set_processing_active(true)` then
  returns at `1877` instead of retrying.
* "already in mode" (`1475`) is the answer also while another mode is queued but not taken.
* `activity_pending_` is cleared (`1537`) before a pass that may fail, and nobody sets it again.

Left out: the destructor, `reinit_by_name` called from main (nothing in `src/` does), unknown mode
names, prebuffering, copying of samples, diagnostics, the frame spec (in `FramePath`), the result flag,
and which mode the live instance has. The test of `afe_stopped_` (`988`) and the store of the flag
(`1007`) are one step in `ToggleRebuild` and `ToggleStopped`. Liveness is not run.

## 9. What rests on what

Proved for every value of the constants (`theorems` in `PROJECT.json`): every safety property the passing
runs check, invariants, action properties and refinements alike. The assumptions are those the modules
state of their constants, and `"setup" \notin Faults` for `AmplifierIsRight` and `RuntimeStateIsRight`,
which is needed, as section 3 says. The proofs have a lemma per action or group of actions.

Only model-checked, within the bounds given: all liveness (`StartSettles`, `StopCleansUp`,
`UnwantedIsClosed`, `ConsumersServed`, `FinishEnds`, `ResetServed`, `Ends`), which is out of the prover's
reach.

Every invariant, action property and liveness property of a passing run has a mutant in
`PROJECT.json`: a defect of the mapped code that makes it false. Their definitions stand before the one
they replace, marked "Defect".

## 10. Not modelled

* Samples: mixing, gain, conversion, resampling, slot layouts and DC blocker are arithmetic on data that
  no property here tells apart. One thing seen on the way: the DC blocker
  (`audio_core_audio_utils.h:101`) overflows `int32_t` on a full-scale step.
* Gain, volume and mute requests of the codec, and mute and volume of the facades: main alone sets them,
  and the audio task applies the latest revision.
* Diagnostics and entities: snapshots and forwarded values that nothing reads back.
* The Python that validates the configuration and emits C++ at build time.
* `EspAec`'s modes and setup; the speaker facade's volume; the microphone facade's own listener count.

`components` in `PROJECT.json` has the same per component.
