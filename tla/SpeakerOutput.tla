--------------------------- MODULE SpeakerOutput ---------------------------
(***************************************************************************)
(* The way of speaker PCM from play() to the I2S clock, and of the credit  *)
(* for it back.  Four tasks share queues and atomics without a lock:       *)
(*                                                                         *)
(*   producer  a mixer task in ESPAudioStackSpeaker::play();               *)
(*   main      the calls and the loop() of that facade (the ESPHome        *)
(*             speaker), and the start(), stop() and loop() of the stack;  *)
(*   audio     one period of audio_session_(): the pending reset, the      *)
(*             drain of completion events, the read of the ring and the    *)
(*             admission of its blocks to the DMA staging;                 *)
(*   isr       tx_on_sent_callback(), which may run on the other core.     *)
(*                                                                         *)
(* A chunk is the PCM of one DMA buffer; chunks are numbered as they are   *)
(* offered.  The lifecycle of the stack is AudioLifecycle's: of it, only   *)
(* what the speaker sees is kept here.                                     *)
(***************************************************************************)
EXTENDS Naturals, Integers, Sequences, FiniteSets

CONSTANTS
    StagingBlocks,  \* tx_staging_capacity_
    Descriptors,    \* tx_dma_descriptor_count_
    Quantum,        \* DMA buffers in one period
    RingSize,       \* chunks the speaker's ring buffer holds
    MaxStreams,     \* bound of the model: starts of the facade
    MaxChunks,      \* bound of the model: chunks offered to all streams
    MaxAlone,       \* bound of the model: chunks offered while there is one stream only
    MaxCloses,      \* bound of the model: how often the hardware may reopen
    Inputs,         \* what the environment of this model does
    Microphones     \* whether a microphone keeps the stack up: subset of BOOLEAN

ASSUME SizeAssumption ==
    /\ StagingBlocks \in Nat \ {0} /\ Descriptors \in Nat \ {0}
    /\ Quantum \in 1 .. StagingBlocks
    /\ RingSize \in Nat \ {0}
ASSUME SpeakerBoundAssumption ==
    /\ MaxStreams \in Nat /\ MaxChunks \in Nat /\ MaxAlone \in Nat /\ MaxCloses \in Nat
    /\ MaxChunks <= MaxAlone
    /\ Inputs \subseteq {"stack", "stop", "finish", "pause", "timeout", "fault"}
    /\ Microphones \subseteq BOOLEAN

VARIABLES
    ring,     \* speaker_buffer_
    flag,     \* atomics of the stack
    queues,   \* tx_free_queue_, tx_ready_queue_, tx_completion_event_queue_
    staged,   \* tx_staging_records_
    dma,      \* tx_dma_descriptors_: what each DMA buffer holds
    play,     \* tx_playback_generation_, the pending count
    isr,      \* the interrupt: its next step and locals
    audio,    \* the audio task: its next step and locals
    facade,   \* the speaker: its fields; main's next step
    producer, \* the producer: its next step and the chunk it offers
    history   \* chunks of this playback sent and credited; counts for the bounds

vars == <<ring, flag, queues, staged, dma, play, isr, audio, facade, producer, history>>

Blocks == 1 .. StagingBlocks
Buffers == 0 .. Descriptors - 1
\* Defect: the event queue only has room for the staging.
EventCapacity_Blocks == StagingBlocks
EventCapacity == StagingBlocks + Descriptors
Silence == 0
Chunks == 1 .. MaxAlone
Records == [pcm : Chunks \cup {Silence}, generation : Nat]
NoRecord == [pcm |-> Silence, generation |-> 0]
Real(record) == record.pcm # Silence

Init ==
    /\ ring = <<>>
    /\ flag = [reset |-> FALSE, running |-> FALSE, wanted |-> FALSE, paused |-> FALSE,
               tracking |-> TRUE, desync |-> FALSE, error |-> FALSE,
               requested |-> TRUE, current |-> TRUE, stack |-> TRUE, failed |-> FALSE]
    /\ queues = [free |-> [b \in Blocks |-> b], ready |-> <<>>, events |-> <<>>]
    /\ staged = [b \in Blocks |-> NoRecord]
    /\ dma = [d \in Buffers |-> NoRecord]
    /\ play = [generation |-> 0, pending |-> 0]
    /\ isr = [pc |-> "idle", next |-> 0, record |-> NoRecord, block |-> 0, tries |-> 0]
    /\ audio = [pc |-> "session", speaker |-> FALSE, got |-> <<>>, left |-> 0]
    /\ facade = [pc |-> "idle", state |-> "STOPPED", listener |-> FALSE, finishing |-> FALSE,
                 asked |-> FALSE, recovered |-> FALSE]
    /\ producer = [pc |-> "play", chunk |-> 1]
    /\ history = [sent |-> <<>>, credited |-> <<>>, starts |-> 0, closes |-> 0]

----------------------------------------------------------------------------
(* The interrupt: the buffer isr.next has been sent.                       *)

Isr(pc) == isr.pc = pc
IsrUnchanged == UNCHANGED <<ring, staged, audio, facade, producer>>
BufferDone == [isr EXCEPT !.pc = "idle", !.next = (@ + 1) % Descriptors, !.block = 0, !.tries = 0]

\* While tracking is off the buffer is only silenced.  Otherwise its record is
\* taken off the pending count; it earns an event if its playback still runs.
IsrSent ==
    LET record == dma[isr.next]
        credit == Real(record) /\ record.generation = play.generation
    IN  /\ Isr("idle")
        /\ audio.pc \notin {"close", "closed"}
        /\ \/ /\ ~flag.tracking
              /\ isr' = BufferDone
              /\ UNCHANGED <<dma, play, history>>
           \/ /\ flag.tracking
              /\ dma' = [dma EXCEPT ![isr.next] = NoRecord]
              /\ play' = [play EXCEPT !.pending = IF Real(record) THEN @ - 1 ELSE @]
              /\ isr' = [isr EXCEPT !.pc = IF credit THEN "event" ELSE "take",
                                    !.record = IF credit THEN record ELSE NoRecord]
              /\ history' = [history EXCEPT !.sent = IF credit THEN Append(@, record.pcm) ELSE @]
        /\ IsrUnchanged /\ UNCHANGED <<flag, queues>>

IsrEvent ==
    /\ Isr("event")
    /\ \/ /\ Len(queues.events) < EventCapacity
          /\ queues' = [queues EXCEPT !.events = Append(@, isr.record)]
          /\ UNCHANGED flag
       \/ /\ Len(queues.events) = EventCapacity
          /\ flag' = [flag EXCEPT !.desync = TRUE]
          /\ UNCHANGED queues
    /\ isr' = [isr EXCEPT !.pc = "take", !.record = NoRecord]
    /\ IsrUnchanged /\ UNCHANGED <<dma, play, history>>

\* The refill: the next block that is ready; silence when there is none, or
\* when a whole staging of old blocks has been discarded for this buffer.
IsrTake ==
    /\ Isr("take")
    /\ \/ /\ queues.ready = <<>> \/ isr.tries = StagingBlocks
          /\ isr' = BufferDone
          /\ UNCHANGED queues
       \/ /\ queues.ready # <<>> /\ isr.tries < StagingBlocks
          /\ isr' = [isr EXCEPT !.pc = "refill", !.block = Head(queues.ready), !.tries = @ + 1]
          /\ queues' = [queues EXCEPT !.ready = Tail(@)]
    /\ IsrUnchanged /\ UNCHANGED <<flag, dma, play, history>>

\* Defect: a block of silence is taken off the count too.
Uncounted_Every(block) == play.pending - 1

\* The pending count without a block that is given back unplayed.
Uncounted(block) == IF Real(staged[block]) THEN play.pending - 1 ELSE play.pending

\* Defects: an old block is not given back; the descriptor does not learn what
\* its buffer was filled with.
FreeAfterRefill_Leak(current) == IF current THEN Append(queues.free, isr.block) ELSE queues.free
FilledDma_NoRecord(current) == dma

FreeAfterRefill(current) == Append(queues.free, isr.block)
FilledDma(current) == IF current THEN [dma EXCEPT ![isr.next] = staged[isr.block]] ELSE dma

\* A block of this playback fills the buffer; one of an older playback is
\* discarded, and the next one tried.  The block is given back either way.
IsrRefill ==
    LET current == staged[isr.block].generation = play.generation
    IN  /\ Isr("refill")
        /\ queues' = [queues EXCEPT !.free = FreeAfterRefill(current)]
        /\ dma' = FilledDma(current)
        /\ play' = [play EXCEPT !.pending = IF current THEN @ ELSE Uncounted(isr.block)]
        /\ isr' = IF current THEN BufferDone ELSE [isr EXCEPT !.pc = "take", !.block = 0]
        /\ IsrUnchanged /\ UNCHANGED <<flag, history>>

IsrStep == IsrSent \/ IsrEvent \/ IsrTake \/ IsrRefill

----------------------------------------------------------------------------
(* The audio task: one period, from the top of audio_session_'s loop.      *)

At(pc) == audio.pc = pc
Goto(pc) == audio' = [audio EXCEPT !.pc = pc]
AudioUnchanged == UNCHANGED <<isr, facade, producer>>

\* fail_tx_completion_tracking_().
TrackingFailed == [flag EXCEPT !.tracking = FALSE, !.error = TRUE, !.stack = FALSE]

\* Defect: an event is credited whatever playback it belongs to.
Credits_AnyGeneration(events) == [i \in DOMAIN events |-> events[i].pcm]

\* What the speaker's callbacks are told of: the events of this playback.
Credits(events) ==
    LET current == {i \in DOMAIN events : events[i].generation = play.generation}
        Nth(n) == CHOOSE i \in current : Cardinality({j \in current : j <= i}) = n
    IN  [n \in 1 .. Cardinality(current) |-> events[Nth(n)].pcm]

\* drain_tx_completion_events_(): a broken contract ends the session.
Drain ==
    \/ /\ ~flag.tracking
       /\ UNCHANGED <<flag, queues, history>>
    \/ /\ flag.tracking /\ flag.desync
       /\ flag' = TrackingFailed
       /\ UNCHANGED <<queues, history>>
    \/ /\ flag.tracking /\ ~flag.desync
       /\ queues' = [queues EXCEPT !.events = <<>>]
       /\ history' = [history EXCEPT !.credited = @ \o Credits(queues.events)]
       /\ UNCHANGED flag

SessionEnds ==
    /\ At("session") /\ ~flag.stack
    /\ Goto("close")
    /\ AudioUnchanged /\ UNCHANGED <<ring, flag, queues, staged, dma, play, history>>

\* Defect: the reset is only done for a speaker that runs.
ResetDue_WhileRunning == flag.reset /\ flag.running
ResetDue == flag.reset

\* The top of a period, after the reset if one was due: it drains, and notes
\* whether the speaker plays; the capture half of the period comes first.
Period ==
    /\ (At("session") /\ flag.stack /\ ~ResetDue) \/ At("period")
    /\ Drain
    /\ audio' = [audio EXCEPT !.pc = "read", !.speaker = flag.running /\ ~flag.paused]
    /\ AudioUnchanged /\ UNCHANGED <<ring, staged, dma, play>>

\* service_speaker_reset_(): empty the ring; reset_tx_playback_(): give back
\* the blocks not yet taken, then a new generation, and drop the events of the
\* old one; only then is admission open again.
ResetRing ==
    /\ At("session") /\ flag.stack /\ ResetDue
    /\ ring' = <<>>
    /\ Goto("reset_ready")
    /\ AudioUnchanged /\ UNCHANGED <<flag, queues, staged, dma, play, history>>

ResetReady ==
    /\ At("reset_ready")
    /\ queues.ready # <<>>
    /\ queues' = [queues EXCEPT !.ready = Tail(@), !.free = Append(@, Head(queues.ready))]
    /\ play' = [play EXCEPT !.pending = Uncounted(Head(queues.ready))]
    /\ AudioUnchanged /\ UNCHANGED <<ring, flag, staged, dma, audio, history>>

ResetGeneration ==
    /\ At("reset_ready")
    /\ queues.ready = <<>>
    /\ play' = [play EXCEPT !.generation = @ + 1]
    /\ history' = [history EXCEPT !.sent = <<>>, !.credited = <<>>]
    /\ Goto("reset_done")
    /\ AudioUnchanged /\ UNCHANGED <<ring, flag, queues, staged, dma>>

ResetDone ==
    /\ At("reset_done")
    /\ queues' = [queues EXCEPT !.events = <<>>]
    /\ flag' = [flag EXCEPT !.reset = FALSE]
    /\ Goto("period")
    /\ AudioUnchanged /\ UNCHANGED <<ring, staged, dma, play, history>>

\* The capture half of the period, or the processor, fails the session, which
\* ends with this period.
SessionFault ==
    /\ "fault" \in Inputs
    /\ At("read") /\ flag.stack
    /\ flag' = [flag EXCEPT !.error = TRUE, !.stack = FALSE]
    /\ AudioUnchanged /\ UNCHANGED <<ring, queues, staged, dma, play, audio, history>>

\* Defect: the ring is read without being consumed.
Consumed_Peek(count) == ring
Consumed(count) == SubSeq(ring, count + 1, Len(ring))

\* process_tx_path_() of a speaker that ran and was not paused at the top of the
\* period; otherwise, and in process_tx_clock_only_(), it is all silence.
Read ==
    LET count == IF ~audio.speaker THEN 0
                 ELSE IF Len(ring) < Quantum THEN Len(ring) ELSE Quantum
    IN  /\ At("read")
        /\ ring' = Consumed(count)
        /\ audio' = [pc |-> "block", speaker |-> FALSE, got |-> SubSeq(ring, 1, count), left |-> Quantum]
        /\ AudioUnchanged /\ UNCHANGED <<flag, queues, staged, dma, play, history>>

PeriodEnds ==
    /\ At("block") /\ audio.left = 0
    /\ Goto("session")
    /\ AudioUnchanged /\ UNCHANGED <<ring, flag, queues, staged, dma, play, history>>

\* queue_tx_dma_block_() of the period's next block: it drains, and waits.
Block ==
    /\ At("block") /\ audio.left > 0 /\ flag.tracking
    /\ Drain
    /\ Goto("admit")
    /\ AudioUnchanged /\ UNCHANGED <<ring, staged, dma, play>>

\* A free block is staged, counted and made ready in this order: no other task
\* can tell these steps apart, for the interrupt sees the block only at the end.
Admit ==
    LET block == Head(queues.free)
        pcm == IF audio.got = <<>> THEN Silence ELSE Head(audio.got)
    IN  /\ At("admit") /\ flag.tracking /\ queues.free # <<>>
        /\ staged' = [staged EXCEPT ![block] = [pcm |-> pcm, generation |-> play.generation]]
        /\ queues' = [queues EXCEPT !.free = Tail(@), !.ready = Append(@, block)]
        /\ play' = [play EXCEPT !.pending = IF pcm # Silence THEN @ + 1 ELSE @]
        /\ audio' = [audio EXCEPT !.pc = "block", !.left = @ - 1,
                                  !.got = IF @ = <<>> THEN <<>> ELSE Tail(@)]
        /\ AudioUnchanged /\ UNCHANGED <<ring, flag, dma, history>>

\* Tracking is off, before or after the wait: the rest of the period is lost,
\* and in a stack that still runs this is a broken contract.
Rejected ==
    /\ At("admit") \/ (At("block") /\ audio.left > 0)
    /\ ~flag.tracking
    /\ flag' = IF flag.stack THEN [TrackingFailed EXCEPT !.desync = TRUE] ELSE flag
    /\ audio' = [audio EXCEPT !.pc = "session", !.got = <<>>, !.left = 0]
    /\ AudioUnchanged /\ UNCHANGED <<ring, queues, staged, dma, play, history>>

\* reset_tx_completion_tracking_().  Defect: what was pending stays
\* pending.
ResetPlay_Pending == [play EXCEPT !.generation = @ + 1]
ResetQueues == [free |-> [b \in Blocks |-> b], ready |-> <<>>, events |-> <<>>]
ResetPlay == [generation |-> play.generation + 1, pending |-> 0]

\* The session is over and the hardware closes: no interrupt any more,
\* and nothing left to complete.  A session that failed also loses its PCM.
Close ==
    /\ At("close")
    /\ Isr("idle")
    /\ Goto("closed")
    /\ flag' = [flag EXCEPT !.tracking = FALSE, !.desync = FALSE,
                            !.failed = flag.current,
                            !.reset = IF flag.current THEN FALSE ELSE @]
    /\ ring' = IF flag.current THEN <<>> ELSE ring
    /\ queues' = ResetQueues
    /\ dma' = [d \in Buffers |-> NoRecord]
    /\ play' = ResetPlay
    /\ history' = [history EXCEPT !.sent = <<>>, !.credited = <<>>, !.closes = @ + 1]
    /\ AudioUnchanged /\ UNCHANGED staged

\* The teardown that stop() asks for after a failed session ends the failure.
FailureEnds ==
    /\ At("closed")
    /\ flag.failed /\ ~flag.current /\ ~flag.requested
    /\ flag' = [flag EXCEPT !.failed = FALSE]
    /\ AudioUnchanged /\ UNCHANGED <<ring, queues, staged, dma, play, audio, history>>

AudioStep ==
    \/ SessionEnds \/ Period \/ ResetRing \/ ResetReady \/ ResetGeneration \/ ResetDone
    \/ Read \/ SessionFault \/ PeriodEnds \/ Block \/ Admit \/ Rejected \/ Close
    \/ FailureEnds

----------------------------------------------------------------------------
(* The stack's side of main.                                               *)

Main(pc) == facade.pc = pc
MainUnchanged == UNCHANGED <<ring, queues, staged, dma, play, isr, producer>>

\* start(): a new generation, unless the stack is requested or up already.
Started(f) == IF f.requested \/ f.stack THEN f ELSE [f EXCEPT !.requested = TRUE, !.current = FALSE]
HasFailedSession == flag.failed /\ ~flag.requested
IsStarting == flag.requested /\ ~flag.stack

StackStart ==
    /\ "stack" \in Inputs
    /\ Main("idle")
    /\ ~flag.requested /\ ~flag.stack
    /\ flag' = Started(flag)
    /\ MainUnchanged /\ UNCHANGED <<audio, facade, history>>

\* stop(), by an automation or by stop_speaker(): tracking and the speaker end
\* first, and only then the session.
StackStop ==
    /\ Main("stop") \/ (Main("idle") /\ "stack" \in Inputs)
    /\ flag.requested
    /\ flag' = [flag EXCEPT !.requested = FALSE, !.current = FALSE, !.wanted = FALSE,
                            !.tracking = FALSE, !.running = FALSE]
    /\ facade' = [facade EXCEPT !.pc = "park"]
    /\ MainUnchanged /\ UNCHANGED <<audio, history>>

StackStopNothing ==
    /\ Main("stop")
    /\ ~flag.requested
    /\ facade' = [facade EXCEPT !.pc = "idle"]
    /\ MainUnchanged /\ UNCHANGED <<flag, audio, history>>

StackPark ==
    /\ Main("park")
    /\ flag' = [flag EXCEPT !.stack = FALSE]
    /\ facade' = [facade EXCEPT !.pc = "idle"]
    /\ MainUnchanged /\ UNCHANGED <<audio, history>>

\* finish_audio_lifecycle_(): the hardware has come up, and a speaker that was
\* requested runs; or main takes note of a session that failed.
Commit ==
    /\ Main("idle") /\ At("closed")
    /\ flag.requested /\ ~(flag.failed /\ flag.current)
    /\ history.closes <= MaxCloses
    /\ flag' = [flag EXCEPT !.tracking = TRUE, !.error = FALSE, !.current = TRUE, !.failed = FALSE,
                            !.stack = TRUE, !.running = flag.wanted]
    /\ Goto("session")
    /\ MainUnchanged /\ UNCHANGED <<facade, history>>

FailedSeen ==
    /\ Main("idle") /\ At("closed")
    /\ flag.requested /\ flag.failed /\ flag.current
    /\ flag' = [flag EXCEPT !.requested = FALSE, !.error = TRUE, !.running = FALSE]
    /\ MainUnchanged /\ UNCHANGED <<audio, facade, history>>

----------------------------------------------------------------------------
(* The facade's calls and its loop().                                      *)

FacadeUnchanged == MainUnchanged /\ UNCHANGED <<audio, history>>
Running == facade.state = "RUNNING"

\* start(), from main or from a play() that finds the facade stopped.
Start ==
    /\ history.starts < MaxStreams
    /\ flag' = [(IF HasFailedSession THEN Started(flag) ELSE flag) EXCEPT !.paused = FALSE]
    /\ facade' = [facade EXCEPT !.recovered = FALSE, !.finishing = FALSE, !.listener = TRUE]
    /\ history' = [history EXCEPT !.starts = @ + 1]
    /\ MainUnchanged /\ UNCHANGED audio

StartStream == Main("idle") /\ Start

Stopped(f) == [f EXCEPT !.recovered = FALSE, !.finishing = FALSE, !.listener = FALSE]

StopStream ==
    /\ "stop" \in Inputs
    /\ Main("idle")
    /\ facade.listener
    /\ facade' = Stopped(facade)
    /\ flag' = [flag EXCEPT !.paused = FALSE]
    /\ FacadeUnchanged

Finish ==
    /\ "finish" \in Inputs
    /\ Main("idle")
    /\ facade' = [facade EXCEPT !.finishing = TRUE]
    /\ flag' = [flag EXCEPT !.paused = FALSE]
    /\ FacadeUnchanged

Pause ==
    /\ "pause" \in Inputs
    /\ Main("idle")
    /\ flag' = [flag EXCEPT !.paused = ~@]
    /\ FacadeUnchanged /\ UNCHANGED facade

\* loop(): a failed session stops the facade; a stack that starts again takes
\* it back to STARTING; then the listener decides.
Again == Running /\ IsStarting
LoopState ==
    IF Again \/ (facade.listener /\ facade.state = "STOPPED") THEN "STARTING"
    ELSE IF ~facade.listener /\ Running THEN "STOPPING" ELSE facade.state
LoopIn(state) == Main("idle") /\ ~HasFailedSession /\ LoopState = state
Asked == facade.asked /\ ~Again

LoopFailed ==
    /\ Main("idle") /\ HasFailedSession
    /\ facade' = [facade EXCEPT !.asked = FALSE, !.finishing = FALSE, !.state = "STOPPED"]
    /\ FacadeUnchanged /\ UNCHANGED flag

\* STARTING without a listener any more.
LoopUnlistened ==
    /\ LoopIn("STARTING") /\ ~facade.listener
    /\ \/ /\ Asked
          /\ facade' = [facade EXCEPT !.pc = "reset", !.state = "STARTING"]
          /\ flag' = [flag EXCEPT !.wanted = FALSE, !.running = FALSE]
       \/ /\ ~Asked
          /\ facade' = [facade EXCEPT !.asked = FALSE, !.state = "STOPPED"]
          /\ UNCHANGED flag
    /\ FacadeUnchanged

\* STARTING: start_speaker() once; RUNNING as soon as the stack is, STOPPED if
\* it neither runs nor starts any more.
LoopStarting ==
    /\ LoopIn("STARTING") /\ facade.listener
    /\ flag' = IF Asked THEN flag
               ELSE [Started(flag) EXCEPT !.wanted = TRUE, !.running = @ \/ flag.stack]
    /\ facade' = [facade EXCEPT !.asked = TRUE, !.state = "STARTING",
                                !.pc = IF flag'.requested /\ ~flag'.stack THEN "idle" ELSE "is_running"]
    /\ FacadeUnchanged

LoopIsRunning ==
    /\ Main("is_running")
    /\ \/ /\ flag.stack
          /\ facade' = [facade EXCEPT !.pc = "idle", !.state = "RUNNING"]
          /\ UNCHANGED flag
       \/ /\ ~flag.stack
          /\ facade' = [Stopped(facade) EXCEPT !.pc = "reset"]
          /\ flag' = [flag EXCEPT !.paused = FALSE, !.wanted = FALSE, !.running = FALSE]
    /\ FacadeUnchanged

\* RUNNING: a stream that finishes, or has been silent for its timeout, stops
\* once has_buffered_data() finds the ring empty and then nothing pending.
LoopRing ==
    /\ LoopIn("RUNNING")
    /\ facade.finishing \/ ("timeout" \in Inputs /\ ~flag.paused)
    /\ ring = <<>>
    /\ facade' = [facade EXCEPT !.pc = "pending"]
    /\ FacadeUnchanged /\ UNCHANGED flag

LoopPending ==
    /\ Main("pending")
    /\ \/ /\ play.pending = 0
          /\ facade' = [Stopped(facade) EXCEPT !.pc = "idle"]
          /\ flag' = [flag EXCEPT !.paused = FALSE]
       \/ /\ play.pending > 0
          /\ facade' = [facade EXCEPT !.pc = "idle"]
          /\ UNCHANGED flag
    /\ FacadeUnchanged

LoopStopping ==
    /\ LoopIn("STOPPING")
    /\ facade' = [facade EXCEPT !.pc = "reset", !.state = "STOPPING"]
    /\ flag' = [flag EXCEPT !.wanted = FALSE, !.running = FALSE]
    /\ FacadeUnchanged

\* The second half of stop_speaker(): the request for the reset.  The stack
\* stops too if there is no microphone.
StopSpeakerReset ==
    /\ Main("reset")
    /\ flag' = [flag EXCEPT !.reset = TRUE]
    /\ \E microphone \in Microphones :
          facade' = [facade EXCEPT !.pc = IF microphone THEN "idle" ELSE "stop",
                                  !.asked = FALSE, !.state = "STOPPED"]
    /\ FacadeUnchanged

MainStep ==
    \/ LoopFailed \/ LoopUnlistened \/ LoopStarting \/ LoopIsRunning \/ LoopRing \/ LoopPending
    \/ LoopStopping \/ StopSpeakerReset \/ StackStopNothing \/ StackPark
    \/ (Main("stop") /\ StackStop)

Calls == StackStart \/ StackStop \/ StartStream \/ StopStream \/ Finish \/ Pause

----------------------------------------------------------------------------
(* The producer: play() of the facade, and of the stack.                   *)

ProducerUnchanged == UNCHANGED <<flag, queues, staged, dma, play, isr, audio, facade, history>>
Producer(pc) ==
    /\ producer.pc = pc
    /\ producer.chunk <= IF history.starts > 1 THEN MaxChunks ELSE MaxAlone

\* A failed session is started again once per stream; a stopped facade is
\* started; otherwise the facade must be running.
PlayRecovers ==
    /\ Producer("play")
    /\ HasFailedSession /\ facade.listener /\ ~facade.recovered
    /\ facade' = [facade EXCEPT !.recovered = TRUE]
    /\ flag' = Started(flag)
    /\ UNCHANGED <<ring, queues, staged, dma, play, isr, audio, producer, history>>

PlayStarts ==
    /\ Producer("play")
    /\ ~facade.listener /\ facade.state \notin {"RUNNING", "STARTING"}
    /\ Start

PlayAdmitted ==
    /\ Producer("play")
    /\ facade.listener /\ Running /\ ~HasFailedSession
    /\ producer' = [producer EXCEPT !.pc = "admission"]
    /\ ProducerUnchanged /\ UNCHANGED ring

\* ESPAudioStack::play(): nothing is accepted while a reset is pending or the
\* hardware has failed; then the write waits for space.
Admission ==
    /\ Producer("admission")
    /\ producer' = [producer EXCEPT !.pc = IF flag.reset \/ flag.error THEN "play" ELSE "write"]
    /\ ProducerUnchanged /\ UNCHANGED ring

Write ==
    /\ Producer("write")
    /\ Len(ring) < RingSize
    /\ ring' = Append(ring, producer.chunk)
    /\ producer' = [pc |-> "play", chunk |-> producer.chunk + 1]
    /\ ProducerUnchanged

WriteTimeout ==
    /\ Producer("write")
    /\ Len(ring) = RingSize
    /\ producer' = [producer EXCEPT !.pc = "play"]
    /\ ProducerUnchanged /\ UNCHANGED ring

\* PCM that is not accepted stays with the caller, which offers it again.
ProducerStep == PlayRecovers \/ PlayStarts \/ PlayAdmitted \/ Admission \/ Write \/ WriteTimeout

----------------------------------------------------------------------------
Next == IsrStep \/ AudioStep \/ MainStep \/ Commit \/ FailedSeen \/ Calls \/ ProducerStep

Spec == Init /\ [][Next]_vars

\* The I2S clock runs, the scheduler runs the tasks, ESPHome runs every loop().
\* Nobody has to call anything: producers and automations are not fair.
FairSpec ==
    /\ Spec
    /\ WF_vars(IsrStep) /\ WF_vars(AudioStep)
    /\ WF_vars(MainStep) /\ WF_vars(Commit \/ FailedSeen)

----------------------------------------------------------------------------
\* The types of the variables; no queue holds more than it was created for.
TypeOK ==
    /\ ring \in Seq(Chunks) /\ Len(ring) <= RingSize
    /\ flag \in [reset : BOOLEAN, running : BOOLEAN, wanted : BOOLEAN, paused : BOOLEAN,
                tracking : BOOLEAN, desync : BOOLEAN, error : BOOLEAN, requested : BOOLEAN,
                current : BOOLEAN, stack : BOOLEAN, failed : BOOLEAN]
    /\ queues.free \in Seq(Blocks) /\ queues.ready \in Seq(Blocks) /\ queues.events \in Seq(Records)
    /\ Len(queues.free) <= StagingBlocks /\ Len(queues.ready) <= StagingBlocks
    /\ Len(queues.events) <= EventCapacity
    /\ staged \in [Blocks -> Records] /\ dma \in [Buffers -> Records]
    /\ play.generation \in Nat /\ play.pending \in Nat
    /\ isr.pc \in {"idle", "event", "take", "refill"} /\ isr.next \in Buffers
    /\ isr.record \in Records /\ isr.block \in 0 .. StagingBlocks /\ isr.tries \in 0 .. StagingBlocks
    /\ audio.speaker \in BOOLEAN /\ audio.got \in Seq(Chunks) /\ audio.left \in 0 .. Quantum
    /\ facade.state \in {"STOPPED", "STARTING", "RUNNING", "STOPPING"}
    /\ producer.chunk \in 1 .. MaxAlone + 1

Count(s, Test(_)) == Cardinality({i \in DOMAIN s : Test(s[i])})

\* A staging block is always in exactly one place: free, ready, or in the
\* interrupt's hand.  A block lost once is missing for the rest of the session,
\* and two copies of one overwrite PCM that is still to be played.
BlocksConserved ==
    \A b \in Blocks :
        LET Is(x) == x = b
        IN  Count(queues.free, Is) + Count(queues.ready, Is) + (IF isr.block = b THEN 1 ELSE 0) = 1

\* The pending count, which decides when the facade may stop, is the number of
\* records with PCM that are staged, in the interrupt's hand or in DMA buffers,
\* of whatever playback: with one too many no stream ever finishes, with one
\* too few it wraps.
PendingExact ==
    LET StagedReal(b) == Real(staged[b])
    IN  play.pending = Count(queues.ready, StagedReal)
                       + (IF isr.block # 0 /\ Real(staged[isr.block]) THEN 1 ELSE 0)
                       + Cardinality({d \in Buffers : Real(dma[d])})

\* Mixers count on a credit for every chunk that was played and for no other:
\* in the event queue, what is left of older playbacks comes first, and as long as
\* the contract holds, what was credited, then the rest of the queue, then what the
\* interrupt is about to post, is what was sent.
CreditsFollowDma ==
    LET Current(event) == event.generation = play.generation
        posted == Len(queues.events)
        inHand == IF Isr("event") /\ Current(isr.record) THEN <<isr.record.pcm>> ELSE <<>>
    IN  \E old \in 0 .. posted :
           /\ \A i \in 1 .. posted : i > old <=> Current(queues.events[i])
           /\ ~flag.desync =>
                history.sent = history.credited
                               \o [i \in 1 .. posted - old |-> queues.events[old + i].pcm] \o inHand

\* Within a playback chunks leave in the order they were offered in, each once.
PlayedInOrder ==
    \A i, j \in DOMAIN history.sent : i < j => history.sent[i] < history.sent[j]

\* The event queue, which no one drains while the audio task is in a callback or
\* waits for a block, is full only after the DMA ring has run dry: an overflow,
\* which ends the session, never cuts PCM that was flowing.
OverflowOnlyDry ==
    [][Isr("event") /\ isr'.pc = "take" /\ flag'.desync /\ ~flag.desync =>
         queues.ready = <<>> /\ \A d \in Buffers : ~Real(dma[d])]_vars

\* If from some time on the facade runs, its speaker too, and neither pauses, no
\* finish() is left waiting: the PCM drains and the facade stops.
FinishEnds == <>[](Running /\ flag.running /\ ~flag.paused) => []<>~facade.finishing

\* A reset that is requested is done and admission opens again, unless the stack
\* stops: play() is never refused for ever in a stack that runs.
ResetServed == flag.reset ~> (~flag.reset \/ ~flag.stack)
============================================================================
