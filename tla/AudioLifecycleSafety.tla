------------------------ MODULE AudioLifecycleSafety ------------------------
(***************************************************************************)
(* Safety properties of AudioLifecycle and its refinement of AudioPath for *)
(* every value of its constants, on top of the types that                  *)
(* AudioLifecycleProofs establishes.                                       *)
(*                                                                         *)
(*   ReadyIsOpen      holds with the player and with every fault.  It is   *)
(*                    not inductive: OpenedAsPublished adds what the audio *)
(*                    task knows between opening (or closing) the hardware *)
(*                    and publishing the phase.                            *)
(*   CommitIsCurrent  holds with the player and with every fault.  The two *)
(*                    loads of finish_audio_lifecycle_ are not atomic;     *)
(*                    what makes them safe is that the four copies of the  *)
(*                    generation are ordered and only the newest can be    *)
(*                    current.  The player can raise the newest in the     *)
(*                    middle of main's call: raced records it.             *)
(*   PathContract     holds step by step: only the audio task moves the    *)
(*                    path, and it opens none that is in ERROR.            *)
(*   AmplifierFollows, RuntimeStateFresh, ProcessorMatches                 *)
(*                    hold of what main has done once its call is over, so *)
(*                    they rest on what it has still to do: StackInv says  *)
(*                    in which order its steps can lie on the stack, AmpInv,*)
(*                    FreshInv and ListenInv which of them is to come when *)
(*                    the property does not hold yet.  The first two need  *)
(*                    that a session can always be set up: audio_session_()*)
(*                    clears speaker_running_ silently when it cannot.     *)
(*   IdleMeansReleased                                                     *)
(*                    holds with the player and with every fault.  IdleInv *)
(*                    says what covers a decision to open that is taken    *)
(*                    with the idle flag still up: the request, a barrier  *)
(*                    that is to come, an answer that makes the audio task *)
(*                    not open at all, or, uncovered, a restart of the     *)
(*                    player that has met the decision.                    *)
(***************************************************************************)
EXTENDS AudioLifecycleProofs

----------------------------------------------------------------------------
(* READY means open.                                                       *)

OpenedAsPublished ==
    /\ pc \in {"open", "open_current", "open_current_generation", "open_ready", "open_abort",
               "open_aborted", "publish_generation", "publish_phase"}
           => sh.phase \notin {"READY", "COMMITTING"}
    /\ pc \in {"open_current", "open_current_generation"} /\ task.opened => hw.state = "RUNNING"
    /\ pc = "open_ready" => hw.state = "RUNNING"
    /\ pc \in {"publish_generation", "publish_phase"} =>
           \/ task.phase \in {"STOPPED", "FAILED"}
           \/ task.phase = "READY" /\ hw.state = "RUNNING"
    /\ pc = "close_publish" => task.phase \in {"STOPPED", "FAILED"}

OpenInv == ReadyIsOpen /\ OpenedAsPublished

\* Main moves the phase only along READY, COMMITTING, RUNNING.
LEMMA MainPhase ==
    ASSUME StateTyped, MainStep
    PROVE  \/ sh'.phase = sh.phase
           \/ sh.phase = "READY" /\ sh'.phase = "COMMITTING"
           \/ sh'.phase = "RUNNING"
  <1> USE DEF StateTyped, Shared
  <1>1. CASE StopTeardown
    BY <1>1 DEF StopTeardown
  <1>2. CASE StopSpeakerRunning
    BY <1>2 DEF StopSpeakerRunning
  <1>3. CASE StopRunning
    BY <1>3 DEF StopRunning
  <1>4. CASE Notify
    BY <1>4 DEF Notify
  <1>5. CASE SpeakerRunning
    BY <1>5 DEF SpeakerRunning
  <1>6. CASE StopSpeaker
    BY <1>6 DEF StopSpeaker
  <1>7. CASE StopSpeakerReset
    BY <1>7 DEF StopSpeakerReset
  <1>8. CASE Loop
    BY <1>8 DEF Loop
  <1>9. CASE Commit
    BY <1>9 DEF Commit
  <1>10. CASE CommitRunning
    BY <1>10 DEF CommitRunning
  <1>11. CASE CommitPhase
    BY <1>11 DEF CommitPhase
  <1>12. CASE Fail
    BY <1>12 DEF Fail
  <1>13. CASE FailSpeaker
    BY <1>13 DEF FailSpeaker
  <1>14. CASE UNCHANGED sh
    BY <1>14
  <1>15. QED
    BY <1>1, <1>2, <1>3, <1>4, <1>5, <1>6, <1>7, <1>8, <1>9, <1>10, <1>11, <1>12, <1>13, <1>14
       DEF MainStep, StartCheck, NextGeneration, StartRequest, StopTake, UpdateRuntimeState, StopIfSilent,
           StartSpeaker, SpeakerIfRunning, FinishPhase, FinishGeneration, Finish, Started, FireTrigger,
           SetProcessingActive

\* The audio task opens before it publishes READY and withdraws READY after it
\* closes.
LEMMA AudioOpen ==
    ASSUME StateTyped, OpenInv, Audio
    PROVE  OpenInv'
  <1> USE DEF StateTyped, Shared, Hardware, TaskLocals, OpenInv, ReadyIsOpen, OpenedAsPublished, Goto
  <1>1. CASE Top
    BY <1>1 DEF Top
  <1>2. CASE ServicePhase
    BY <1>2 DEF ServicePhase
  <1>3. CASE ServiceRunning
    BY <1>3 DEF ServiceRunning
  <1>4. CASE ServiceRequested
    BY <1>4 DEF ServiceRequested
  <1>5. CASE ServiceGeneration
    BY <1>5 DEF ServiceGeneration
  <1>6. CASE ServiceTeardown
    BY <1>6 DEF ServiceTeardown
  <1>7. CASE Close
    BY <1>7 DEF Close, DeinitI2S
  <1>8. CASE CloseDone
    BY <1>8 DEF CloseDone
  <1>9. CASE ClosePublish
    BY <1>9 DEF ClosePublish
  <1>10. CASE CloseEvent
    BY <1>10 DEF CloseEvent
  <1>11. CASE OpenRequested
    BY <1>11 DEF OpenRequested
  <1>12. CASE OpenGeneration
    BY <1>12 DEF OpenGeneration
  <1>13. CASE OpenStarting
    BY <1>13 DEF OpenStarting
  <1>14. CASE Open
    BY <1>14 DEF Open
  <1>15. CASE OpenCurrent
    BY <1>15 DEF OpenCurrent
  <1>16. CASE OpenCurrentGeneration
    BY <1>16 DEF OpenCurrentGeneration
  <1>17. CASE OpenAbort
    BY <1>17 DEF OpenAbort, DeinitI2S
  <1>18. CASE OpenAborted
    BY <1>18 DEF OpenAborted
  <1>19. CASE OpenReady
    BY <1>19 DEF OpenReady
  <1>20. CASE PublishGeneration
    BY <1>20 DEF PublishGeneration
  <1>21. CASE PublishPhase
    BY <1>21 DEF PublishPhase
  <1>22. CASE PublishEvent
    BY <1>22 DEF PublishEvent
  <1>23. CASE Park
    BY <1>23 DEF Park
  <1>24. CASE ParkRunning
    BY <1>24 DEF ParkRunning
  <1>25. CASE ParkPhase
    BY <1>25 DEF ParkPhase
  <1>26. CASE ParkRequested
    BY <1>26 DEF ParkRequested
  <1>27. CASE ParkStopped
    BY <1>27 DEF ParkStopped
  <1>28. CASE Wait
    BY <1>28 DEF Wait
  <1>29. CASE SessionSetup
    BY <1>29 DEF SessionSetup
  <1>30. CASE Session
    BY <1>30 DEF Session
  <1>31. CASE Frame
    BY <1>31 DEF Frame
  <1>32. CASE FrameRejected
    BY <1>32 DEF FrameRejected
  <1>33. CASE FrameDesync
    BY <1>33 DEF FrameDesync
  <1>34. QED
    BY <1>1, <1>2, <1>3, <1>4, <1>5, <1>6, <1>7, <1>8, <1>9, <1>10, <1>11, <1>12, <1>13,
       <1>14, <1>15, <1>16, <1>17, <1>18, <1>19, <1>20, <1>21, <1>22, <1>23, <1>24, <1>25,
       <1>26, <1>27, <1>28, <1>29, <1>30, <1>31, <1>32, <1>33 DEF Audio, AudioStep

\* Every step of main, of the audio task and of the player keeps OpenInv.
LEMMA OpenInduction == TypeOK /\ OpenInv /\ [Next]_vars => OpenInv'
  <1> SUFFICES ASSUME TypeOK, OpenInv, [Next]_vars
               PROVE  OpenInv'
    OBVIOUS
  <1> USE DEF OpenInv, ReadyIsOpen, OpenedAsPublished
  <1>1. CASE Main
    <2>1. UNCHANGED <<hw, pc, task>>
      BY <1>1 DEF Main
    <2>2. CASE MainStep
      BY <2>1, <2>2, MainPhase DEF TypeOK
    <2>3. CASE Request
      BY <2>1, <2>3 DEF Request, CallMain, RegisterMicConsumer, UnregisterMicConsumer
    <2>4. QED
      BY <1>1, <2>2, <2>3 DEF Main
  <1>2. CASE Audio
    BY <1>2, AudioOpen DEF TypeOK
  <1>3. CASE Player
    BY <1>3 DEF Player, PlayerStep, PlayerCheck, PlayerGeneration, PlayerRequest, TypeOK,
       StateTyped, Shared
  <1>4. CASE UNCHANGED vars
    BY <1>4 DEF vars
  <1>5. QED
    BY <1>1, <1>2, <1>3, <1>4 DEF Next

\* A start that is READY, or that main is committing, has the I2S hardware open
\* unless the audio task is in the middle of withdrawing it.
THEOREM ReadyHardware == Spec => []ReadyIsOpen
  <1>1. Init => OpenInv
    BY DEF Init, OpenInv, ReadyIsOpen, OpenedAsPublished
  <1>2. OpenInv => ReadyIsOpen
    BY DEF OpenInv
  <1>3. QED
    BY <1>1, <1>2, OpenInduction, Typing, PTL DEF Spec

----------------------------------------------------------------------------
(* A commit is for the start that is requested now.                        *)

\* No copy of the generation is ahead of the one it was loaded from.
GenerationsOrdered ==
    /\ seen.generation <= hw.readyGeneration
    /\ hw.readyGeneration <= task.generation
    /\ task.generation <= req.generation

\* From the decision of finish_audio_lifecycle_ to the store of running, the
\* request main decided on stands, and is the current one unless a restart from
\* the producer's task has come in between.
DecisionHolds ==
    At("commit") \/ At("commit_running") =>
        req.start /\ (raced \/ seen.generation = req.generation)

CommitInv == GenerationsOrdered /\ DecisionHolds

\* While a call goes on, a step of main or of the audio task neither makes a
\* race nor forgets one.
LEMMA RaceKept ==
    ASSUME TypeOK, Race(FALSE), todo' # <<>>
    PROVE  raced' = raced
  BY DEF Race, TypeOK

\* What a plain stack leaves to do next is not a commit.
LEMMA PlainHead ==
    ASSUME todo' \in Seq(Plain)
    PROVE  ~At("commit")' /\ ~At("commit_running")'
  <1>1. CASE todo' = <<>>
    BY <1>1 DEF At
  <1>2. CASE todo' # <<>>
    <2>1. Head(todo') \in Plain
      BY <1>2
    <2>2. QED
      BY <2>1 DEF At, Plain, CommitSteps
  <1>3. QED
    BY <1>1, <1>2

\* Main only ever raises its own generation, and loads readyGeneration.
LEMMA MainGenerations ==
    ASSUME StateTyped, GenerationsOrdered, MainStep, UNCHANGED <<hw, pc, task, player>>
    PROVE  GenerationsOrdered'
  <1> USE DEF StateTyped, GenerationsOrdered, Requests, Hardware, TaskLocals, Results
  <1>1. CASE NextGeneration
    BY <1>1 DEF NextGeneration
  <1>2. CASE StartRequest
    BY <1>2 DEF StartRequest
  <1>3. CASE StopTake
    BY <1>3 DEF StopTake
  <1>4. CASE StopSpeakerRunning
    BY <1>4 DEF StopSpeakerRunning
  <1>5. CASE StartSpeaker
    BY <1>5 DEF StartSpeaker
  <1>6. CASE StopSpeaker
    BY <1>6 DEF StopSpeaker
  <1>7. CASE FinishPhase
    BY <1>7 DEF FinishPhase
  <1>8. CASE FinishGeneration
    BY <1>8 DEF FinishGeneration
  <1>9. CASE Fail
    BY <1>9 DEF Fail
  <1>10. CASE UNCHANGED <<req, seen>>
    BY <1>10
  <1>11. QED
    BY <1>1, <1>2, <1>3, <1>4, <1>5, <1>6, <1>7, <1>8, <1>9, <1>10
       DEF MainStep, StartCheck, StopTeardown, StopRunning, Notify, UpdateRuntimeState, StopIfSilent,
           SpeakerIfRunning, SpeakerRunning, StopSpeakerReset,
           Loop, Finish, Commit, CommitRunning, CommitPhase, Started, FailSpeaker, FireTrigger,
               SetProcessingActive

\* The audio task loads its generation from the request and publishes it.
LEMMA AudioGenerations ==
    ASSUME StateTyped, GenerationsOrdered, Audio
    PROVE  GenerationsOrdered'
  <1> USE DEF StateTyped, GenerationsOrdered, Requests, Hardware, TaskLocals, Results, Audio
  <1>1. CASE Top
    BY <1>1 DEF Top
  <1>2. CASE ServicePhase
    BY <1>2 DEF ServicePhase
  <1>3. CASE ServiceRequested
    BY <1>3 DEF ServiceRequested
  <1>4. CASE ServiceGeneration
    BY <1>4 DEF ServiceGeneration
  <1>5. CASE Close
    BY <1>5 DEF Close, DeinitI2S
  <1>6. CASE CloseDone
    BY <1>6 DEF CloseDone
  <1>7. CASE OpenGeneration
    BY <1>7 DEF OpenGeneration
  <1>8. CASE OpenStarting
    BY <1>8 DEF OpenStarting
  <1>9. CASE Open
    BY <1>9 DEF Open
  <1>10. CASE OpenAbort
    BY <1>10 DEF OpenAbort, DeinitI2S
  <1>11. CASE OpenAborted
    BY <1>11 DEF OpenAborted
  <1>12. CASE OpenReady
    BY <1>12 DEF OpenReady
  <1>13. CASE PublishGeneration
    BY <1>13 DEF PublishGeneration
  <1>14. CASE Park
    BY <1>14 DEF Park
  <1>15. CASE SessionSetup
    BY <1>15 DEF SessionSetup
  <1>16. CASE UNCHANGED <<hw, task>>
    BY <1>16
  <1>17. QED
    BY <1>1, <1>2, <1>3, <1>4, <1>5, <1>6, <1>7, <1>8, <1>9, <1>10, <1>11, <1>12, <1>13,
       <1>14, <1>15, <1>16
       DEF AudioStep, ServiceRunning, ServiceTeardown, ClosePublish, CloseEvent, OpenRequested, OpenCurrent,
           OpenCurrentGeneration,
           PublishPhase, PublishEvent, ParkRunning, ParkPhase, ParkRequested, ParkStopped, Wait, Session,
               Frame, FrameRejected, FrameDesync

\* Main decides last and commits without another step of its own in between.
LEMMA MainDecision ==
    ASSUME TypeInv, CommitInv, MainStep, Race(FALSE)
    PROVE  DecisionHolds'
  <1>1. CASE Finish
    <2>1. todo # <<>> /\ Tail(todo) \in Seq(Plain)
      BY <1>1 DEF Finish, At, TypeInv, CallsBelow
    <2>2. CASE req.start /\ seen.generation = req.generation
      BY <1>1, <2>2 DEF Finish, DecisionHolds
    <2>3. CASE ~(req.start /\ seen.generation = req.generation)
      <3>1. todo' = (<<>> \o <<>>) \o Tail(todo)
        BY <1>1, <2>3 DEF Finish, Then, When
      <3>2. QED
        BY <2>1, <3>1, PlainHead DEF DecisionHolds
    <2>4. QED
      BY <2>2, <2>3
  <1>2. CASE Commit
    <2>1. req.start /\ (raced \/ seen.generation = req.generation)
      BY <1>2 DEF Commit, CommitInv, DecisionHolds
    <2>2. UNCHANGED <<req, seen>>
      BY <1>2 DEF Commit
    <2>3. ASSUME At("commit")' \/ At("commit_running")'
          PROVE  raced' = raced
      BY <2>3, RaceKept DEF At, TypeInv
    <2>4. QED
      BY <2>1, <2>2, <2>3 DEF DecisionHolds
  <1>3. CASE ~Finish /\ ~Commit
    BY <1>3, PlainStep, PlainHead DEF TypeInv, DecisionHolds
  <1>4. QED
    BY <1>1, <1>2, <1>3

\* Every step keeps the order of the generations and main's decision: the
\* player only raises the newest of them, and leaves a race behind when it does
\* so in the middle of a call.
LEMMA CommitInduction == TypeInv /\ CommitInv /\ [Next]_vars => CommitInv'
  <1> SUFFICES ASSUME TypeInv, CommitInv, [Next]_vars
               PROVE  CommitInv'
    OBVIOUS
  <1> USE DEF CommitInv
  <1>1. CASE Main
    <2>1. UNCHANGED <<hw, pc, task, player>> /\ Race(FALSE)
      BY <1>1 DEF Main
    <2>2. CASE MainStep
      BY <2>1, <2>2, MainGenerations, MainDecision DEF TypeInv, TypeOK
    <2>3. CASE Request
      <3>1. DecisionHolds'
        BY <2>3, RequestStack, PlainHead DEF DecisionHolds
      <3>2. UNCHANGED <<req, seen>>
        BY <2>3 DEF Request, CallMain, RegisterMicConsumer, UnregisterMicConsumer
      <3>3. QED
        BY <2>1, <3>1, <3>2 DEF GenerationsOrdered
    <2>4. QED
      BY <1>1, <2>2, <2>3 DEF Main
  <1>2. CASE Audio
    <2>1. UNCHANGED <<req, todo, seen>> /\ Race(FALSE)
      BY <1>2 DEF Audio
    <2>2. ASSUME At("commit") \/ At("commit_running")
          PROVE  raced' = raced
      BY <2>1, <2>2, RaceKept DEF At, TypeInv
    <2>3. DecisionHolds'
      BY <2>1, <2>2 DEF DecisionHolds, At
    <2>4. QED
      BY <1>2, <2>3, AudioGenerations DEF TypeInv, TypeOK
  <1>3. CASE Player
    <2>1. UNCHANGED <<hw, todo, seen, task>>
      BY <1>3 DEF Player
    <2>2. /\ req.start => req'.start
          /\ req'.generation \in Nat /\ req'.generation >= req.generation
      BY <1>3 DEF Player, PlayerStep, PlayerCheck, PlayerGeneration, PlayerRequest, TypeInv,
         TypeOK, StateTyped, Requests
    <2>3. GenerationsOrdered'
      BY <2>1, <2>2 DEF GenerationsOrdered, TypeInv, TypeOK, StateTyped, Requests, TaskLocals
    <2>4. todo # <<>> => raced' \/ (UNCHANGED req /\ raced' = raced)
      BY <1>3 DEF Player, PlayerStep, PlayerCheck, PlayerGeneration, PlayerRequest, Race, TypeInv,
         TypeOK
    <2>5. DecisionHolds'
      BY <2>1, <2>2, <2>4 DEF DecisionHolds, At
    <2>6. QED
      BY <2>3, <2>5
  <1>4. CASE UNCHANGED vars
    BY <1>4 DEF vars, GenerationsOrdered, DecisionHolds, At
  <1>5. QED
    BY <1>1, <1>2, <1>3, <1>4 DEF Next

\* When main stores running, the request it decided on still stands, and the
\* hardware was opened for that very generation, whatever the audio task has
\* published in between; only a restart from the producer's task in the middle
\* of it can be newer than the commit.
THEOREM CurrentCommit == Spec => []CommitIsCurrent
  <1>1. Init => CommitInv
    BY DEF Init, CommitInv, GenerationsOrdered, DecisionHolds, At
  <1>2. TypeInv /\ CommitInv => CommitIsCurrent
    BY DEF TypeInv, TypeOK, StateTyped, Requests, Hardware, TaskLocals, Results, CommitInv,
       GenerationsOrdered, DecisionHolds, CommitIsCurrent
  <1>3. Spec => []TypeInv
    BY Typing DEF TypeInv
  <1>4. QED
    BY <1>1, <1>2, <1>3, CommitInduction, PTL DEF Spec

----------------------------------------------------------------------------
(* The path is used as AudioPath promises.                                 *)

\* A deinit gives the path back or leaves it stuck.
LEMMA DeinitPath ==
    ASSUME StateTyped, DeinitI2S
    PROVE  [Path!Next]_PathOf
  BY DEF StateTyped, Hardware, DeinitI2S, PathOf, Path!Next, Path!Open, Path!Stick, Path!GiveBack

\* The audio task opens, closes, or leaves the path as it is.
LEMMA AudioUsesPath ==
    ASSUME StateTyped, Audio
    PROVE  [Path!Next]_PathOf
  <1> USE DEF StateTyped, Hardware
  <1>1. CASE Open
    <2>1. \/ hw.state # "ERROR" /\ hw'.state = "RUNNING"
          \/ UNCHANGED hw
          \/ hw.state = "UNPREPARED" /\ hw'.state \in {"UNPREPARED", "ERROR"}
      BY <1>1 DEF Open
    <2>2. QED
      BY <2>1 DEF PathOf, Path!Next, Path!Open, Path!Stick
  <1>2. CASE Close \/ OpenAbort
    BY <1>2, DeinitPath DEF Close, OpenAbort
  <1>3. CASE Top \/ OpenStarting \/ PublishGeneration \/ Park \/ SessionSetup
    <2>1. hw'.state = hw.state /\ hw'.handles = hw.handles
      BY <1>3 DEF Top, OpenStarting, PublishGeneration, Park, SessionSetup
    <2>2. QED
      BY <2>1 DEF PathOf
  <1>4. CASE UNCHANGED hw
    BY <1>4 DEF PathOf
  <1>5. QED
    BY <1>1, <1>2, <1>3, <1>4 DEF Audio, AudioStep, ServicePhase, ServiceRunning,
       ServiceRequested, ServiceGeneration, ServiceTeardown, CloseDone, ClosePublish, CloseEvent,
       OpenRequested, OpenGeneration, OpenCurrent, OpenCurrentGeneration, OpenAborted, OpenReady,
       PublishPhase, PublishEvent, ParkRunning, ParkPhase, ParkRequested, ParkStopped, Wait,
       Session, Frame, FrameRejected, FrameDesync

\* The lifecycle, with every fault and whoever starts and stops it, uses the
\* path as AudioPath promises it (enable_i2s_channels_(), deinit_i2s_()).
THEOREM LifecycleKeepsPath == Spec => PathContract
  <1>1. Init => Path!Init
    BY DEF Init, Path!Init, PathOf
  <1>2. TypeOK /\ [Next]_vars => [Path!Next]_PathOf
    <2> SUFFICES ASSUME TypeOK, [Next]_vars PROVE [Path!Next]_PathOf
      OBVIOUS
    <2>1. CASE Audio
      BY <2>1, AudioUsesPath DEF TypeOK
    <2>2. CASE UNCHANGED hw
      BY <2>2 DEF PathOf
    <2>3. QED
      BY <2>1, <2>2 DEF Next, Main, Player, vars
  <1>3. QED
    BY <1>1, <1>2, Typing, PTL DEF Spec, PathContract, Path!Spec

----------------------------------------------------------------------------
(* What main has still to do.                                              *)

\* The steps main has still to do, and the order they are in.
Pending(step) == step \in Range(todo)

\* loop() finishes a lifecycle result with nothing else in progress, so the
\* stack is then one of these; the calls have the other steps.
LoopSteps == {"finish_phase", "finish_generation", "finish", "commit", "commit_running",
              "commit_phase", "fail", "fail_speaker"}
CommitRest == {<<"commit_phase", "notify", "on_start", "started">>,
               <<"commit_phase", "notify", "processor_on", "on_start", "started">>}
LoopStacks ==
    {<<"finish_phase", "finish_generation", "finish">>, <<"finish_generation", "finish">>,
     <<"finish">>, <<"commit">>,
     <<"commit_running", "commit_phase", "notify", "on_start", "started">>,
     <<"commit_running", "commit_phase", "notify", "processor_on", "on_start", "started">>,
     <<"fail", "fail_speaker", "processor_off", "update", "on_idle">>,
     <<"fail_speaker", "processor_off", "update", "on_idle">>} \cup CommitRest
LoopAlone == todo \in LoopStacks \/ Range(todo) \cap LoopSteps = {}

\* A speaker trigger is fired as soon as it is due.
SpeakerTriggers == {"on_speaker_start", "on_speaker_idle"}
TriggersOnTop == todo # <<>> => Range(Tail(todo)) \cap SpeakerTriggers = {}

\* Below every processor_off of the stack q, the session's end is to come.
Ends(q) ==
    \A i \in DOMAIN q : q[i] = "processor_off" => \E j \in DOMAIN q : j > i /\ q[j] = "stop_running"

StackInv == LoopAlone /\ TriggersOnTop

AmpInv ==
    IF At("on_speaker_start") THEN sh.speakerRunning
    ELSE IF At("on_speaker_idle") THEN ~sh.speakerRunning
    ELSE outside.amplifier = sh.speakerRunning
FreshInv == outside.state = ComputedRuntimeState \/ Pending("update")

\* Between its load of FAILED and the end of the call that handles it, main
\* commits nothing, and the audio task never publishes RUNNING.
FailureStands ==
    At("finish_generation") \/ At("finish") => seen.phase # "FAILED" \/ sh.phase # "RUNNING"

ProcessorInv ==
    /\ outside.processor /\ mics = {} => Pending("processor_off")
    /\ Pending("processor_on") => mics # {}
    /\ At("commit_running") \/ At("commit_phase") => mics = {} \/ Pending("processor_on")
    /\ mics # {} /\ sh.phase = "RUNNING" => Ends(todo)
    /\ mics # {} /\ sh.phase = "RUNNING" /\ sh.running /\ ~outside.processor
           => Pending("processor_on") \/ Pending("stop_running")

\* The steps of finish_audio_lifecycle_, and those of every other call.
LoopStep ==
    \/ Loop \/ FinishPhase \/ FinishGeneration \/ Finish
    \/ Commit \/ CommitRunning \/ CommitPhase \/ Fail \/ FailSpeaker
SpeakerStep == SpeakerRunning \/ StopSpeakerRunning \/ StopSpeaker

\* In the stack q the publications of a stop() and of a start() follow each
\* other at once, with nothing of another call above them.
Nested(q) ==
    \A i \in DOMAIN q :
        /\ q[i] \in {"stop_teardown", "start_generation"} => i = 1
        /\ q[i] = "stop_generation" => i = 1 \/ (i = 2 /\ q[1] = "stop_teardown")
        /\ q[i] = "start_generation" => 2 \in DOMAIN q /\ q[2] = "start_request"

\* The steps a call pushes: none of loop's, a speaker trigger only first, and
\* the publications of stop() and start() in their order and nowhere else.
Orderly(steps) ==
    /\ steps \in Seq(MainLabels)
    /\ \A i \in DOMAIN steps :
           /\ steps[i] \notin LoopSteps \cup {"processor_on"}
           /\ i > 1 \/ ~SpeakerStep => steps[i] \notin SpeakerTriggers
           /\ i = 1 => steps[i] # "stop_generation"
           /\ ~StopTake => steps[i] # "stop_teardown"
    /\ Nested(steps)
    /\ mics = {} \/ Ends(steps)
Pushes == todo # <<>> /\ \E steps : Orderly(steps) /\ todo' = steps \o Tail(todo)

\* A step that is done leaves nothing, one that does nothing but call leaves
\* its call.
LEMMA NothingPushed == Orderly(<<>>)
  BY DEF Orderly, Nested, Ends

LEMMA OnePushed ==
    ASSUME NEW step \in MainLabels \ (LoopSteps \cup {"processor_on", "processor_off"}),
           step \notin SpeakerTriggers \cup {"stop_teardown", "stop_generation", "start_generation"}
    PROVE  Orderly(<<step>>)
  BY DEF Orderly, Nested, Ends

\* Every step of a call pushes an orderly stack.
LEMMA CallPushes ==
    ASSUME TypeOK, MainStep, ~LoopStep
    PROVE  Pushes
  <1> USE DEF Pushes, Then, At
  <1>1. CASE StartCheck
    <2>1. Orderly(<<"start_generation", "start_request">>)
      BY DEF Orderly, Nested, Ends, MainLabels, LoopSteps, SpeakerTriggers
    <2>2. QED
      BY <1>1, <2>1, NothingPushed DEF StartCheck, When
  <1>2. CASE StartRequest
    BY <1>2, OnePushed DEF StartRequest, MainLabels, LoopSteps, SpeakerTriggers
  <1>3. CASE StopTake
    <2>1. Orderly(<<"stop_teardown", "stop_generation", "stop_speaker_running",
                    "processor_off", "stop_running", "on_idle", "notify">>)
      <3> DEFINE steps == <<"stop_teardown", "stop_generation", "stop_speaker_running",
                            "processor_off", "stop_running", "on_idle", "notify">>
      <3>1. steps \in Seq(MainLabels) /\ DOMAIN steps = 1..7
        BY DEF MainLabels, Triggers
      <3>2. Ends(steps)
        <4>1. 5 \in DOMAIN steps /\ steps[5] = "stop_running"
          OBVIOUS
        <4>2. \A i \in DOMAIN steps : steps[i] = "processor_off" => i = 4
          OBVIOUS
        <4>3. QED
          BY <4>1, <4>2 DEF Ends
      <3>3. \A i \in DOMAIN steps :
                steps[i] \notin LoopSteps \cup {"processor_on"} \cup SpeakerTriggers
        BY DEF LoopSteps, SpeakerTriggers
      <3>4. Nested(steps) /\ \A i \in DOMAIN steps : i = 1 => steps[i] # "stop_generation"
        BY DEF Nested
      <3>5. QED
        BY <1>3, <3>1, <3>2, <3>3, <3>4 DEF Orderly
    <2>2. QED
      BY <1>3, <2>1, NothingPushed DEF StopTake, When
  <1>4. CASE StopSpeakerRunning
    <2>1. Orderly(<<"on_speaker_idle", "update">>)
      BY <1>4 DEF Orderly, Nested, Ends, MainLabels, Triggers, LoopSteps, SpeakerTriggers, SpeakerStep
    <2>2. QED
      BY <1>4, <2>1, NothingPushed DEF StopSpeakerRunning, When
  <1>5. CASE StopIfSilent
    <2>1. Orderly(<<"stop">>)
      BY OnePushed DEF MainLabels, LoopSteps, SpeakerTriggers
    <2>2. QED
      BY <1>5, <2>1, NothingPushed DEF StopIfSilent, When
  <1>6. CASE StartSpeaker
    <2>1. Orderly(<<"speaker_if_running">>)
      BY OnePushed DEF MainLabels, LoopSteps, SpeakerTriggers
    <2>2. Orderly(<<"start", "speaker_if_running">>)
      BY DEF Orderly, Nested, Ends, MainLabels, LoopSteps, SpeakerTriggers
    <2>3. <<"start">> \o <<"speaker_if_running">> = <<"start", "speaker_if_running">>
      <3>1. /\ <<"start">> \in Seq(MainLabels) /\ <<"speaker_if_running">> \in Seq(MainLabels)
            /\ <<"start", "speaker_if_running">> \in Seq(MainLabels)
        BY DEF MainLabels
      <3> DEFINE both == <<"start">> \o <<"speaker_if_running">>
      <3>2. both \in Seq(MainLabels) /\ Len(both) = 2 /\ both[1] = "start" /\ both[2] = "speaker_if_running"
        BY <3>1, ConcatProperties
      <3> HIDE DEF both
      <3>3. both = <<"start", "speaker_if_running">>
        BY <3>1, <3>2
      <3>4. QED
        BY <3>3 DEF both
    <2>4. <<>> \o <<"speaker_if_running">> = <<"speaker_if_running">>
      <3>1. <<"speaker_if_running">> \in Seq(MainLabels)
        BY DEF MainLabels
      <3>2. QED
        BY <3>1, ConcatEmptySeq
    <2>5. QED
      BY <1>6, <2>1, <2>2, <2>3, <2>4 DEF StartSpeaker, When
  <1>7. CASE SpeakerIfRunning
    <2>1. Orderly(<<"speaker_running">>)
      BY OnePushed DEF MainLabels, LoopSteps, SpeakerTriggers
    <2>2. QED
      BY <1>7, <2>1, NothingPushed DEF SpeakerIfRunning, When
  <1>8. CASE SpeakerRunning
    <2>1. Orderly(<<"on_speaker_start", "update">>)
      BY <1>8 DEF Orderly, Nested, Ends, MainLabels, Triggers, LoopSteps, SpeakerTriggers, SpeakerStep
    <2>2. QED
      BY <1>8, <2>1, NothingPushed DEF SpeakerRunning, When
  <1>9. CASE StopSpeaker
    <2>1. Orderly(<<"stop_speaker_reset">>)
      BY OnePushed DEF MainLabels, LoopSteps, SpeakerTriggers
    <2>2. Orderly(<<"on_speaker_idle", "update", "stop_speaker_reset">>)
      BY <1>9 DEF Orderly, Nested, Ends, MainLabels, Triggers, LoopSteps, SpeakerTriggers, SpeakerStep
    <2>3. <<"on_speaker_idle", "update">> \o <<"stop_speaker_reset">>
          = <<"on_speaker_idle", "update", "stop_speaker_reset">>
      <3>1. /\ <<"on_speaker_idle", "update">> \in Seq(MainLabels)
            /\ <<"stop_speaker_reset">> \in Seq(MainLabels)
            /\ <<"on_speaker_idle", "update", "stop_speaker_reset">> \in Seq(MainLabels)
        BY DEF MainLabels, Triggers
      <3> DEFINE all == <<"on_speaker_idle", "update">> \o <<"stop_speaker_reset">>
      <3>2. /\ all \in Seq(MainLabels) /\ Len(all) = 3
            /\ all[1] = "on_speaker_idle" /\ all[2] = "update" /\ all[3] = "stop_speaker_reset"
        BY <3>1, ConcatProperties
      <3> HIDE DEF all
      <3>3. all = <<"on_speaker_idle", "update", "stop_speaker_reset">>
        BY <3>1, <3>2
      <3>4. QED
        BY <3>3 DEF all
    <2>4. <<>> \o <<"stop_speaker_reset">> = <<"stop_speaker_reset">>
      <3>1. <<"stop_speaker_reset">> \in Seq(MainLabels)
        BY DEF MainLabels
      <3>2. QED
        BY <3>1, ConcatEmptySeq
    <2>5. QED
      BY <1>9, <2>1, <2>2, <2>3, <2>4 DEF StopSpeaker, When
  <1>10. CASE StopSpeakerReset
    <2>1. mics = {} => Orderly(<<"processor_off", "stop">>)
      BY DEF Orderly, Nested, MainLabels, LoopSteps, SpeakerTriggers
    <2>2. QED
      BY <1>10, <2>1, NothingPushed DEF StopSpeakerReset, When
  <1>11. CASE Started
    <2>1. Orderly(<<"start_speaker">>)
      BY OnePushed DEF MainLabels, LoopSteps, SpeakerTriggers
    <2>2. QED
      BY <1>11, <2>1, NothingPushed DEF Started, When
  <1>12. CASE \E t \in Triggers : FireTrigger(t)
    <2>1. Orderly(<<"start">>) /\ Orderly(<<"stop">>)
      BY OnePushed DEF MainLabels, LoopSteps, SpeakerTriggers
    <2>2. QED
      BY <1>12, <2>1, NothingPushed DEF FireTrigger
  <1>13. CASE todo # <<>> /\ Then(<<>>)
    BY <1>13, NothingPushed
  <1>14. QED
    BY <1>1, <1>2, <1>3, <1>4, <1>5, <1>6, <1>7, <1>8, <1>9, <1>10, <1>11, <1>12, <1>13
       DEF MainStep, LoopStep, NextGeneration, StopTeardown, StopRunning, Notify, UpdateRuntimeState,
           SetProcessingActive

\* The steps of two stacks joined.
LEMMA JoinedSteps ==
    \A s, t \in Seq(MainLabels) : Range(s \o t) = Range(s) \cup Range(t)
  BY RangeConcatenation

\* What a step pushes comes first, then what its caller has still to do.
LEMMA Stacked ==
    ASSUME TypeOK, todo # <<>>, NEW steps \in Seq(MainLabels), todo' = steps \o Tail(todo)
    PROVE  /\ Range(todo) = {Head(todo)} \cup Range(Tail(todo))
           /\ Range(todo') = Range(steps) \cup Range(Tail(todo))
           /\ steps = <<>> => todo' = Tail(todo)
           /\ steps # <<>> => /\ todo' # <<>>
                              /\ Head(todo') = Head(steps)
                              /\ Range(Tail(todo')) = Range(Tail(steps)) \cup Range(Tail(todo))
  <1>1. todo \in Seq(MainLabels) /\ Tail(todo) \in Seq(MainLabels)
    BY DEF TypeOK
  <1>2. todo = <<Head(todo)>> \o Tail(todo)
    BY <1>1
  <1>3. Range(todo) = {Head(todo)} \cup Range(Tail(todo))
    <2>1. Range(<<Head(todo)>>) = {Head(todo)}
      BY DEF Range
    <2>2. <<Head(todo)>> \in Seq(MainLabels)
      BY <1>1
    <2>3. QED
      BY <1>1, <1>2, <2>1, <2>2, JoinedSteps
  <1>4. Range(todo') = Range(steps) \cup Range(Tail(todo))
    BY <1>1, JoinedSteps
  <1>5. steps = <<>> => todo' = Tail(todo)
    BY <1>1
  <1>6. ASSUME steps # <<>>
        PROVE  /\ todo' # <<>>
               /\ Head(todo') = Head(steps)
               /\ Range(Tail(todo')) = Range(Tail(steps)) \cup Range(Tail(todo))
    <2>1. todo' # <<>> /\ Head(todo') = Head(steps)
      BY <1>1, <1>6
    <2>2. Tail(steps) \in Seq(MainLabels)
      BY <1>6
    <2>3. Tail(todo') = Tail(steps) \o Tail(todo)
      BY <1>1, <1>6, <2>2
    <2>4. QED
      BY <1>1, <2>1, <2>2, <2>3, JoinedSteps
  <1>7. QED
    BY <1>3, <1>4, <1>5, <1>6

\* loop's steps are on the stack alone, so each knows what it leaves.
LEMMA LoopOwns ==
    ASSUME TypeOK, LoopAlone, todo # <<>>, Head(todo) \in LoopSteps
    PROVE  todo \in LoopStacks
  <1>1. todo[1] = Head(todo) /\ 1 \in DOMAIN todo
    BY DEF TypeOK
  <1>2. Head(todo) \in Range(todo)
    BY <1>1 DEF Range
  <1>3. QED
    BY <1>2 DEF LoopAlone

\* What finish_audio_lifecycle_ leaves on the stack, step by step.
LoopLeaves ==
    \/ Loop /\ todo' = <<"finish_phase", "finish_generation", "finish">>
    \/ FinishPhase /\ todo' = <<"finish_generation", "finish">>
    \/ FinishGeneration /\ todo' = <<"finish">>
    \/ Finish /\ todo' \in {<<>>, <<"commit">>}
    \/ /\ Finish
       /\ seen.phase = "FAILED"
       /\ todo' = <<"fail", "fail_speaker", "processor_off", "update", "on_idle">>
    \/ Commit /\ todo' = <<>>
    \/ /\ Commit
       /\ mics = {}
       /\ todo' = <<"commit_running", "commit_phase", "notify", "on_start", "started">>
    \/ /\ Commit
       /\ mics # {}
       /\ todo' = <<"commit_running", "commit_phase", "notify", "processor_on",
                    "on_start", "started">>
    \/ CommitRunning /\ todo' \in CommitRest
    \/ CommitPhase /\ todo' \in {<<"notify", "on_start", "started">>,
                                 <<"notify", "processor_on", "on_start", "started">>}
    \/ Fail /\ todo' = <<"fail_speaker", "processor_off", "update", "on_idle">>
    \/ /\ FailSpeaker
       /\ todo' = IF sh.speakerRunning
                  THEN <<"on_speaker_idle", "processor_off", "update", "on_idle">>
                  ELSE <<"processor_off", "update", "on_idle">>

\* A step called before three others.
LEMMA OneMore ==
    ASSUME NEW a \in MainLabels, NEW b \in MainLabels, NEW c \in MainLabels, NEW d \in MainLabels
    PROVE  <<a>> \o <<b, c, d>> = <<a, b, c, d>>
  <1>1. \A s, t \in Seq(MainLabels) : 
          /\ s \o t \in Seq(MainLabels)
          /\ Len(s \o t) = Len(s) + Len(t)
          /\ \A i \in 1..Len(s)+Len(t) : (s \o t)[i] = IF i <= Len(s) THEN s[i] ELSE t[i - Len(s)]
    BY ConcatProperties
  <1>2. <<a>> \in Seq(MainLabels) /\ <<b, c, d>> \in Seq(MainLabels)
    OBVIOUS
  <1> DEFINE all == <<a>> \o <<b, c, d>>
  <1>3. all \in Seq(MainLabels) /\ Len(all) = 4
    BY <1>1, <1>2
  <1>4. all[1] = a /\ all[2] = b /\ all[3] = c /\ all[4] = d
    BY <1>1, <1>2
  <1> HIDE DEF all
  <1>5. all = <<a, b, c, d>>
    BY <1>3, <1>4
  <1>6. QED
    BY <1>5 DEF all

\* Each step of loop's leaves one of these.
LEMMA LoopPushes ==
    ASSUME TypeOK, LoopAlone, LoopStep
    PROVE  LoopLeaves
  <1> USE DEF LoopLeaves
  <1>1. ASSUME todo # <<>>, Head(todo) \in LoopSteps
        PROVE  todo \in LoopStacks
    BY <1>1, LoopOwns
  <1>a. ASSUME NEW q \in Seq(MainLabels)
        PROVE  <<>> \o q = q
    BY <1>a, ConcatEmptySeq
  <1>2. CASE Loop
    BY <1>2 DEF Loop
  <1>3. CASE FinishPhase
    <2>1. todo = <<"finish_phase", "finish_generation", "finish">>
      BY <1>1, <1>3 DEF FinishPhase, At, LoopSteps, LoopStacks, CommitRest
    <2>2. Tail(todo) = <<"finish_generation", "finish">> /\ Tail(todo) \in Seq(MainLabels)
      BY <2>1 DEF MainLabels
    <2>3. QED
      BY <1>3, <1>a, <2>2 DEF FinishPhase, Then
  <1>4. CASE FinishGeneration
    <2>1. todo = <<"finish_generation", "finish">>
      BY <1>1, <1>4 DEF FinishGeneration, At, LoopSteps, LoopStacks, CommitRest
    <2>2. Tail(todo) = <<"finish">> /\ Tail(todo) \in Seq(MainLabels)
      BY <2>1 DEF MainLabels
    <2>3. QED
      BY <1>4, <1>a, <2>2 DEF FinishGeneration, Then
  <1>5. CASE Finish
    <2>1. todo = <<"finish">>
      BY <1>1, <1>5 DEF Finish, At, LoopSteps, LoopStacks, CommitRest
    <2> DEFINE current == req.start /\ seen.generation = req.generation
               going == When(current /\ seen.phase = "READY", <<"commit">>)
               failing == When(current /\ seen.phase = "FAILED",
                               <<"fail", "fail_speaker", "processor_off", "update", "on_idle">>)
    <2>2. todo' = (going \o failing) \o <<>>
      BY <1>5, <2>1 DEF Finish, Then
    <2>3. \/ going = <<>> /\ failing = <<>>
          \/ going = <<"commit">> /\ failing = <<>>
          \/ /\ going = <<>> /\ seen.phase = "FAILED"
             /\ failing = <<"fail", "fail_speaker", "processor_off", "update", "on_idle">>
      BY DEF When
    <2>4. going \in Seq(MainLabels) /\ failing \in Seq(MainLabels)
      <3>1. /\ <<"commit">> \in Seq(MainLabels)
            /\ <<"fail", "fail_speaker", "processor_off", "update", "on_idle">> \in Seq(MainLabels)
            /\ <<>> \in Seq(MainLabels)
        BY DEF MainLabels, Triggers
      <3> HIDE DEF going, failing
      <3>2. QED
        BY <2>3, <3>1
    <2> HIDE DEF going, failing
    <2>5. todo' = going \o failing
      BY <2>2, <2>4, ConcatEmptySeq
    <2>6. todo' = IF going = <<>> THEN failing ELSE going
      BY <2>3, <2>4, <2>5, ConcatEmptySeq
    <2>7. QED
      BY <1>5, <2>3, <2>6
  <1>6. CASE Commit
    <2>1. todo = <<"commit">>
      BY <1>1, <1>6 DEF Commit, At, LoopSteps, LoopStacks, CommitRest
    <2> DEFINE on == When(mics # {}, <<"processor_on">>)
               steps == <<"commit_running", "commit_phase", "notify">> \o on
                        \o <<"on_start", "started">>
    <2>2. todo' = When(sh.phase = "READY", steps) \o <<>>
      BY <1>6, <2>1 DEF Commit, Then
    <2>3. mics = {} => on = <<>>
      BY DEF When
    <2>4. mics # {} => on = <<"processor_on">>
      BY DEF When
    <2>5. /\ on \in Seq(MainLabels)
          /\ <<"commit_running", "commit_phase", "notify">> \in Seq(MainLabels)
          /\ <<"on_start", "started">> \in Seq(MainLabels)
      <3>1. /\ <<"processor_on">> \in Seq(MainLabels) /\ <<>> \in Seq(MainLabels)
            /\ <<"commit_running", "commit_phase", "notify">> \in Seq(MainLabels)
            /\ <<"on_start", "started">> \in Seq(MainLabels)
        BY DEF MainLabels, Triggers
      <3> HIDE DEF on
      <3>2. QED
        BY <2>3, <2>4, <3>1
    <2> HIDE DEF on
    <2>6. /\ steps \in Seq(MainLabels)
          /\ Len(steps) = 5 + Len(on)
          /\ steps[1] = "commit_running" /\ steps[2] = "commit_phase" /\ steps[3] = "notify"
          /\ \A i \in 1..Len(on) : steps[3 + i] = on[i]
          /\ steps[4 + Len(on)] = "on_start" /\ steps[5 + Len(on)] = "started"
      <3> DEFINE front == <<"commit_running", "commit_phase", "notify">> \o on
      <3>1. /\ front \in Seq(MainLabels)
            /\ Len(front) = 3 + Len(on)
            /\ front[1] = "commit_running" /\ front[2] = "commit_phase" /\ front[3] = "notify"
            /\ \A i \in 1..Len(on) : front[3 + i] = on[i]
        BY <2>5, ConcatProperties
      <3> HIDE DEF front
      <3>2. steps = front \o <<"on_start", "started">>
        BY DEF front
      <3> HIDE DEF steps
      <3>3. QED
        BY <2>5, <3>1, <3>2, ConcatProperties
    <2> HIDE DEF steps
    <2>7. mics = {} => steps = <<"commit_running", "commit_phase", "notify", "on_start", "started">>
      BY <2>3, <2>6
    <2>8. mics # {} => steps = <<"commit_running", "commit_phase", "notify", "processor_on",
                                 "on_start", "started">>
      BY <2>4, <2>6
    <2>9. todo' = <<>> \/ todo' = steps
      BY <2>2, <2>6, ConcatEmptySeq DEF When
    <2>10. QED
      BY <1>6, <2>7, <2>8, <2>9
  <1>7. CASE CommitRunning
    <2>1. \/ todo = <<"commit_running", "commit_phase", "notify", "on_start", "started">>
          \/ todo = <<"commit_running", "commit_phase", "notify", "processor_on",
                      "on_start", "started">>
      BY <1>1, <1>7 DEF CommitRunning, At, LoopSteps, LoopStacks, CommitRest
    <2>2. Tail(todo) \in CommitRest
      <3>1. CASE todo = <<"commit_running", "commit_phase", "notify", "on_start", "started">>
        <4>1. Tail(todo) = <<"commit_phase", "notify", "on_start", "started">>
          BY <3>1
        <4>2. QED
          BY <4>1 DEF CommitRest
      <3>2. CASE todo = <<"commit_running", "commit_phase", "notify", "processor_on",
                          "on_start", "started">>
        <4>1. Tail(todo) = <<"commit_phase", "notify", "processor_on", "on_start", "started">>
          BY <3>2
        <4>2. QED
          BY <4>1 DEF CommitRest
      <3>3. QED
        BY <2>1, <3>1, <3>2
    <2>3. QED
      BY <1>7, <1>a, <2>2 DEF CommitRunning, Then, At, TypeOK
  <1>8. CASE CommitPhase
    <2>1. todo \in CommitRest
      BY <1>1, <1>8 DEF CommitPhase, At, LoopSteps, LoopStacks, CommitRest
    <2>2. Tail(todo) \in {<<"notify", "on_start", "started">>,
                          <<"notify", "processor_on", "on_start", "started">>}
      <3>1. CASE todo = <<"commit_phase", "notify", "on_start", "started">>
        <4>1. Tail(todo) = <<"notify", "on_start", "started">>
          BY <3>1
        <4>2. QED
          BY <4>1
      <3>2. CASE todo = <<"commit_phase", "notify", "processor_on", "on_start", "started">>
        <4>1. Tail(todo) = <<"notify", "processor_on", "on_start", "started">>
          BY <3>2
        <4>2. QED
          BY <4>1
      <3>3. QED
        BY <2>1, <3>1, <3>2 DEF CommitRest
    <2>3. QED
      BY <1>8, <1>a, <2>2 DEF CommitPhase, Then, At, TypeOK
  <1>9. CASE Fail
    <2>1. todo = <<"fail", "fail_speaker", "processor_off", "update", "on_idle">>
      BY <1>1, <1>9 DEF Fail, At, LoopSteps, LoopStacks, CommitRest
    <2>2. /\ Tail(todo) = <<"fail_speaker", "processor_off", "update", "on_idle">>
          /\ Tail(todo) \in Seq(MainLabels)
      BY <2>1 DEF MainLabels, Triggers
    <2>3. QED
      BY <1>9, <1>a, <2>2 DEF Fail, Then
  <1>10. CASE FailSpeaker
    <2>1. todo = <<"fail_speaker", "processor_off", "update", "on_idle">>
      BY <1>1, <1>10 DEF FailSpeaker, At, LoopSteps, LoopStacks, CommitRest
    <2>2. /\ Tail(todo) = <<"processor_off", "update", "on_idle">>
          /\ Tail(todo) \in Seq(MainLabels)
      BY <2>1 DEF MainLabels, Triggers
    <2>3. CASE ~sh.speakerRunning
      BY <1>10, <1>a, <2>2, <2>3 DEF FailSpeaker, Then, When
    <2>4. CASE sh.speakerRunning
      <3>1. todo' = <<"on_speaker_idle">> \o Tail(todo)
        BY <1>10, <2>4 DEF FailSpeaker, Then, When
      <3>2. /\ "on_speaker_idle" \in MainLabels /\ "processor_off" \in MainLabels
            /\ "update" \in MainLabels /\ "on_idle" \in MainLabels
        BY DEF MainLabels, Triggers
      <3>3. todo' = <<"on_speaker_idle", "processor_off", "update", "on_idle">>
        <4>1. <<"on_speaker_idle">> \o <<"processor_off", "update", "on_idle">>
              = <<"on_speaker_idle", "processor_off", "update", "on_idle">>
          BY <3>2, OneMore
        <4>2. QED
          BY <2>2, <3>1, <4>1
      <3>4. QED
        BY <1>10, <2>4, <3>3
    <2>5. QED
      BY <2>3, <2>4
  <1>11. QED
    BY <1>2, <1>3, <1>4, <1>5, <1>6, <1>7, <1>8, <1>9, <1>10 DEF LoopStep

\* A processor_off that a step pushes has its stop_running with it, one that
\* was there keeps its own below it.
LEMMA EndsBelow ==
    ASSUME NEW q \in Seq(MainLabels), q # <<>>, Ends(q),
           NEW steps \in Seq(MainLabels), Ends(steps)
    PROVE  Ends(steps \o Tail(q))
  <1> DEFINE rest == Tail(q)
             next == steps \o rest
             n == Len(steps)
  <1>1. /\ q \in Seq(MainLabels) /\ rest \in Seq(MainLabels)
        /\ Len(rest) = Len(q) - 1
        /\ \A i \in 1..Len(rest) : rest[i] = q[i + 1]
    BY HeadTailProperties
  <1>2. /\ next \in Seq(MainLabels)
        /\ Len(next) = n + Len(rest)
        /\ \A i \in 1..(n + Len(rest)) :
               next[i] = IF i <= n THEN steps[i] ELSE rest[i - n]
    BY <1>1, ConcatProperties
  <1>3. n \in Nat /\ Len(rest) \in Nat
    BY <1>1
  <1> HIDE DEF rest, next
  <1>e. Ends(next) => Ends(steps \o Tail(q))
    BY DEF next, rest
  <1> SUFFICES ASSUME NEW i \in DOMAIN next, next[i] = "processor_off"
               PROVE  \E j \in DOMAIN next : j > i /\ next[j] = "stop_running"
    BY <1>e DEF Ends
  <1>4. DOMAIN next = 1..(n + Len(rest)) /\ DOMAIN steps = 1..n /\ DOMAIN q = 1..(Len(rest) + 1)
    BY <1>1, <1>2
  <1>5. CASE i <= n
    <2>1. i \in DOMAIN steps /\ steps[i] = "processor_off"
      BY <1>2, <1>3, <1>4, <1>5
    <2>2. PICK j \in DOMAIN steps : j > i /\ steps[j] = "stop_running"
      BY <2>1 DEF Ends
    <2>3. j \in DOMAIN next /\ next[j] = "stop_running"
      BY <1>2, <1>3, <1>4, <2>2
    <2>4. QED
      BY <2>2, <2>3
  <1>6. CASE i > n
    <2>1. i - n + 1 \in DOMAIN q /\ q[i - n + 1] = "processor_off"
      <3>1. i - n \in 1..Len(rest)
        BY <1>3, <1>4, <1>6
      <3>2. rest[i - n] = "processor_off"
        BY <1>2, <1>3, <1>4, <1>6
      <3>3. QED
        BY <1>1, <1>3, <1>4, <3>1, <3>2
    <2>2. PICK j \in DOMAIN q : j > i - n + 1 /\ q[j] = "stop_running"
      BY <2>1 DEF Ends
    <2>3. j \in Int /\ i \in Int /\ n \in Int
      BY <1>3, <1>4
    <2>4. j - 1 \in 1..Len(rest)
      BY <1>3, <1>4, <1>6, <2>2, <2>3
    <2>5. rest[j - 1] = "stop_running"
      BY <1>1, <2>2, <2>3, <2>4
    <2>6. j - 1 + n \in 1..(n + Len(rest)) /\ j - 1 + n > n /\ j - 1 + n > i
      BY <1>3, <1>6, <2>2, <2>3, <2>4
    <2>7. next[j - 1 + n] = rest[(j - 1 + n) - n]
      BY <1>2, <1>3, <2>3, <2>6
    <2>8. QED
      BY <1>4, <2>3, <2>5, <2>6, <2>7
  <1>7. QED
    BY <1>3, <1>4, <1>5, <1>6

\* What a step of a call does to the stack.
LEMMA CallStack ==
    ASSUME TypeOK, StackInv, MainStep, ~LoopStep
    PROVE  /\ StackInv' /\ Range(todo') \cap LoopSteps = {}
           /\ ~SpeakerStep => ~At("on_speaker_start")' /\ ~At("on_speaker_idle")'
           /\ todo # <<>> /\ Range(todo) = {Head(todo)} \cup Range(Tail(todo))
           /\ Range(Tail(todo)) \subseteq Range(todo')
           /\ Pending("processor_on")' => Pending("processor_on")
           /\ mics = {} \/ (Ends(todo) => Ends(todo'))
  <1>1. PICK steps : Orderly(steps) /\ todo' = steps \o Tail(todo)
    BY CallPushes DEF Pushes
  <1>2. todo # <<>> /\ Head(todo) \notin LoopSteps
    BY DEF MainStep, LoopStep, StartCheck, NextGeneration, StartRequest, StopTake,
       StopTeardown, StopSpeakerRunning, StopRunning, Notify, UpdateRuntimeState, StopIfSilent,
       FireTrigger, SetProcessingActive, StartSpeaker, SpeakerIfRunning, SpeakerRunning, StopSpeaker,
       StopSpeakerReset, Started, At, LoopSteps, Triggers
  <1>3. steps \in Seq(MainLabels)
    BY <1>1 DEF Orderly
  <1>4. /\ Range(todo) = {Head(todo)} \cup Range(Tail(todo))
        /\ Range(todo') = Range(steps) \cup Range(Tail(todo))
        /\ steps = <<>> => todo' = Tail(todo)
        /\ steps # <<>> => /\ todo' # <<>>
                           /\ Head(todo') = Head(steps)
                           /\ Range(Tail(todo')) = Range(Tail(steps)) \cup Range(Tail(todo))
    BY <1>1, <1>2, <1>3, Stacked
  <1>5. Range(todo) \cap LoopSteps = {}
    <2>1. todo \notin LoopStacks
      BY <1>2 DEF LoopStacks, CommitRest, LoopSteps
    <2>2. QED
      BY <2>1 DEF StackInv, LoopAlone
  <1>6. Range(steps) \cap (LoopSteps \cup {"processor_on"}) = {}
    BY <1>1 DEF Range, Orderly
  <1>7. Range(todo') \cap LoopSteps = {} /\ LoopAlone'
    BY <1>4, <1>5, <1>6 DEF LoopAlone
  <1>8. TriggersOnTop' /\ (~SpeakerStep => ~At("on_speaker_start")' /\ ~At("on_speaker_idle")')
    <2>1. Range(Tail(todo)) \cap SpeakerTriggers = {}
      BY <1>2 DEF StackInv, TriggersOnTop
    <2>2. CASE steps = <<>>
      <3>1. todo' \in Seq(MainLabels) /\ Range(todo') \cap SpeakerTriggers = {}
        <4>1. todo' = Tail(todo)
          BY <1>4, <2>2
        <4>2. Tail(todo) \in Seq(MainLabels)
          BY <1>2 DEF TypeOK
        <4>3. QED
          BY <2>1, <4>1, <4>2
      <3>2. ASSUME todo' # <<>>
            PROVE  Range(Tail(todo')) \subseteq Range(todo') /\ Head(todo') \in Range(todo')
        <4> DEFINE next == todo'
        <4>1. next \in Seq(MainLabels) /\ next # <<>>
          BY <3>1, <3>2
        <4> HIDE DEF next
        <4>2. /\ Range(Tail(next)) \subseteq Range(next) /\ Head(next) \in Range(next)
          BY <4>1 DEF Range
        <4>3. QED
          BY <4>2 DEF next
      <3>3. QED
        BY <3>1, <3>2 DEF TriggersOnTop, At, SpeakerTriggers
    <2>3. CASE steps # <<>>
      <3>1. Range(Tail(steps)) \cap SpeakerTriggers = {}
        <4>1. /\ Tail(steps) \in Seq(MainLabels) /\ Len(Tail(steps)) = Len(steps) - 1
              /\ \A i \in 1..Len(Tail(steps)) : Tail(steps)[i] = steps[i + 1]
          BY <1>3, <2>3, HeadTailProperties
        <4>2. \A i \in DOMAIN Tail(steps) : i + 1 \in DOMAIN steps /\ i + 1 > 1
          BY <1>3, <4>1
        <4>3. \A i \in DOMAIN Tail(steps) : Tail(steps)[i] \notin SpeakerTriggers
          BY <1>1, <4>1, <4>2 DEF Orderly
        <4>4. QED
          BY <4>3 DEF Range
      <3>2. ~SpeakerStep => Head(steps) \notin SpeakerTriggers
        <4>1. 1 \in DOMAIN steps /\ Head(steps) = steps[1]
          BY <1>3, <2>3
        <4>2. QED
          BY <1>1, <4>1 DEF Orderly
      <3>3. QED
        BY <1>4, <2>1, <2>3, <3>1, <3>2 DEF TriggersOnTop, At, SpeakerTriggers
    <2>4. QED
      BY <2>2, <2>3
  <1>9. Pending("processor_on")' => Pending("processor_on")
    BY <1>4, <1>6 DEF Pending
  <1>10. mics = {} \/ (Ends(todo) => Ends(todo'))
    BY <1>1, <1>2, <1>3, EndsBelow DEF Orderly, TypeOK
  <1>11. QED
    BY <1>2, <1>4, <1>7, <1>8, <1>9, <1>10 DEF StackInv

\* What the environment's calls put on the empty stack.
RequestLeaves ==
    \/ UNCHANGED mics /\ \E call \in AllCalls \ {"register", "unregister"} : todo' = <<call>>
    \/ mics # {} /\ mics' # {} /\ todo' \in {<<>>, <<"start">>}
    \/ /\ mics = {} /\ mics' # {}
       /\ todo' = IF sh.running THEN <<"on_mic_start", "processor_on", "update">>
                  ELSE <<"on_mic_start", "start", "update">>
    \/ mics' = {} /\ todo' = <<"on_mic_idle", "processor_off", "stop_if_silent", "update">>

\* Three steps, each called by itself.
LEMMA Three ==
    ASSUME NEW a \in MainLabels, NEW b \in MainLabels, NEW c \in MainLabels
    PROVE  (<<a>> \o <<b>>) \o <<c>> = <<a, b, c>>
  <1>1. \A s, t \in Seq(MainLabels) :
          /\ s \o t \in Seq(MainLabels)
          /\ Len(s \o t) = Len(s) + Len(t)
          /\ \A i \in 1..Len(s)+Len(t) : (s \o t)[i] = IF i <= Len(s) THEN s[i] ELSE t[i - Len(s)]
    BY ConcatProperties
  <1>2. <<a>> \in Seq(MainLabels) /\ <<b>> \in Seq(MainLabels) /\ <<c>> \in Seq(MainLabels)
    OBVIOUS
  <1> DEFINE two == <<a>> \o <<b>>
  <1>3. two \in Seq(MainLabels) /\ Len(two) = 2 /\ two[1] = a /\ two[2] = b
    BY <1>1, <1>2
  <1> HIDE DEF two
  <1> DEFINE all == two \o <<c>>
  <1>4. all \in Seq(MainLabels) /\ Len(all) = 3 /\ all[1] = a /\ all[2] = b /\ all[3] = c
    <2> DEFINE third == <<c>>
    <2>1. third \in Seq(MainLabels) /\ Len(third) = 1 /\ third[1] = c
      BY <1>2
    <2> HIDE DEF third
    <2> DEFINE both == two \o third
    <2>2. /\ both \in Seq(MainLabels)
          /\ Len(both) = Len(two) + Len(third)
          /\ \A i \in 1..Len(two)+Len(third) :
                 both[i] = IF i <= Len(two) THEN two[i] ELSE third[i - Len(two)]
      BY <1>1, <1>3, <2>1
    <2> HIDE DEF both
    <2>3. Len(both) = 3 /\ \A i \in 1..3 : both[i] = IF i <= 2 THEN two[i] ELSE third[i - 2]
      BY <1>3, <2>1, <2>2
    <2>4. both[1] = two[1] /\ both[2] = two[2] /\ both[3] = third[1]
      BY <2>3
    <2>5. QED
      BY <1>3, <2>1, <2>2, <2>3, <2>4 DEF all, both, third
  <1> HIDE DEF all
  <1>5. all = <<a, b, c>>
    BY <1>4
  <1>6. QED
    BY <1>5 DEF all, two

\* Each call of the environment leaves one of these.
LEMMA RequestPushes ==
    ASSUME Request
    PROVE  todo = <<>> /\ RequestLeaves
  <1>1. ASSUME NEW call \in Calls \ {"register", "unregister"}, CallMain(call)
        PROVE  todo = <<>> /\ RequestLeaves
    BY <1>1, CallAssumption DEF CallMain, RequestLeaves
  <1>2. ASSUME NEW token \in Tokens, RegisterMicConsumer(token)
        PROVE  todo = <<>> /\ RequestLeaves
    <2> DEFINE a == When(mics = {}, <<"on_mic_start">>)
               b == When(mics = {} /\ sh.running, <<"processor_on">>)
               c == When(~sh.running, <<"start">>)
               d == When(mics = {}, <<"update">>)
    <2>1. todo = <<>> /\ mics' # {} /\ todo' = ((a \o b) \o c) \o d
      BY <1>2 DEF RegisterMicConsumer
    <2>2. \A s \in Seq(MainLabels) : <<>> \o s = s /\ s \o <<>> = s
      BY ConcatEmptySeq
    <2>3. /\ "on_mic_start" \in MainLabels /\ "processor_on" \in MainLabels
          /\ "start" \in MainLabels /\ "update" \in MainLabels
      BY DEF MainLabels, Triggers
    <2>4. /\ <<"on_mic_start">> \in Seq(MainLabels) /\ <<"start">> \in Seq(MainLabels)
          /\ <<"processor_on">> \in Seq(MainLabels)
          /\ <<"on_mic_start">> \o <<"processor_on">> \in Seq(MainLabels)
          /\ <<>> \in Seq(MainLabels)
      BY <2>3
    <2>5. CASE mics # {}
      <3>1. a = <<>> /\ b = <<>> /\ d = <<>> /\ c \in {<<>>, <<"start">>}
        BY <2>5 DEF When
      <3> HIDE DEF a, b, c, d
      <3>2. c \in Seq(MainLabels)
        BY <2>4, <3>1
      <3>3. todo' = c
        BY <2>1, <2>2, <3>1, <3>2
      <3>4. QED
        BY <2>1, <2>5, <3>1, <3>3 DEF RequestLeaves
    <2>6. CASE mics = {} /\ sh.running
      <3>1. a = <<"on_mic_start">> /\ b = <<"processor_on">> /\ c = <<>> /\ d = <<"update">>
        BY <2>6 DEF When
      <3> HIDE DEF a, b, c, d
      <3>2. todo' = (<<"on_mic_start">> \o <<"processor_on">>) \o <<"update">>
        BY <2>1, <2>2, <2>4, <3>1
      <3>3. todo' = <<"on_mic_start", "processor_on", "update">>
        BY <2>3, <3>2, Three
      <3>4. QED
        BY <2>1, <2>6, <3>3 DEF RequestLeaves
    <2>7. CASE mics = {} /\ ~sh.running
      <3>1. a = <<"on_mic_start">> /\ b = <<>> /\ c = <<"start">> /\ d = <<"update">>
        BY <2>7 DEF When
      <3> HIDE DEF a, b, c, d
      <3>2. todo' = (<<"on_mic_start">> \o <<"start">>) \o <<"update">>
        BY <2>1, <2>2, <2>4, <3>1
      <3>3. todo' = <<"on_mic_start", "start", "update">>
        BY <2>3, <3>2, Three
      <3>4. QED
        BY <2>1, <2>7, <3>3 DEF RequestLeaves
    <2>8. QED
      BY <2>5, <2>6, <2>7
  <1>3. ASSUME NEW token \in Tokens, UnregisterMicConsumer(token)
        PROVE  todo = <<>> /\ RequestLeaves
    <2>1. CASE mics' = {}
      BY <1>3, <2>1 DEF UnregisterMicConsumer, When, RequestLeaves
    <2>2. CASE mics' # {}
      BY <1>3, <2>2 DEF UnregisterMicConsumer, When, RequestLeaves
    <2>3. QED
      BY <2>1, <2>2
  <1>4. QED
    BY <1>1, <1>2, <1>3 DEF Request

\* What main's steps change of the state the properties are about.
LEMMA MainChanges ==
    ASSUME StateTyped, MainStep
    PROVE  /\ UNCHANGED mics
           /\ sh'.running => sh.running \/ CommitRunning
           /\ sh'.phase = "RUNNING" => sh.phase = "RUNNING" \/ CommitPhase
           /\ \/ sh'.speakerRunning = sh.speakerRunning
              \/ SpeakerStep \/ FailSpeaker
           /\ \/ UNCHANGED outside
              \/ UpdateRuntimeState
              \/ \E t \in Triggers : FireTrigger(t)
              \/ \E active \in BOOLEAN : SetProcessingActive(active)
           /\ UNCHANGED seen \/ FinishPhase \/ FinishGeneration
  <1> USE DEF StateTyped, Shared
  <1>1. UNCHANGED mics
    BY DEF MainStep, StartCheck, NextGeneration, StartRequest, StopTake,
       StopTeardown, StopSpeakerRunning, StopRunning, Notify, UpdateRuntimeState, StopIfSilent,
       FireTrigger, SetProcessingActive, StartSpeaker, SpeakerIfRunning, SpeakerRunning, StopSpeaker,
       StopSpeakerReset, Started, Loop, FinishPhase, FinishGeneration, Finish, Commit, CommitRunning,
       CommitPhase, Fail, FailSpeaker
  <1>2. \/ UNCHANGED outside
        \/ UpdateRuntimeState
        \/ \E t \in Triggers : FireTrigger(t)
        \/ \E active \in BOOLEAN : SetProcessingActive(active)
    BY DEF MainStep, StartCheck, NextGeneration, StartRequest, StopTake,
       StopTeardown, StopSpeakerRunning, StopRunning, Notify, StopIfSilent,
       StartSpeaker, SpeakerIfRunning, SpeakerRunning, StopSpeaker,
       StopSpeakerReset, Started, Loop, FinishPhase, FinishGeneration, Finish, Commit, CommitRunning,
       CommitPhase, Fail, FailSpeaker
  <1>3. UNCHANGED seen \/ FinishPhase \/ FinishGeneration
    BY DEF MainStep, StartCheck, NextGeneration, StartRequest, StopTake,
       StopTeardown, StopSpeakerRunning, StopRunning, Notify, UpdateRuntimeState, StopIfSilent,
       FireTrigger, SetProcessingActive, StartSpeaker, SpeakerIfRunning, SpeakerRunning, StopSpeaker,
       StopSpeakerReset, Started, Loop, Finish, Commit, CommitRunning, CommitPhase, Fail, FailSpeaker
  <1>4. /\ sh'.running => sh.running \/ CommitRunning
        /\ sh'.phase = "RUNNING" => sh.phase = "RUNNING" \/ CommitPhase
        /\ sh'.speakerRunning = sh.speakerRunning \/ SpeakerStep \/ FailSpeaker
    <2>1. CASE UNCHANGED sh
      BY <2>1
    <2>2. CASE StopTeardown \/ Notify \/ StopSpeakerReset \/ Loop \/ Fail
      BY <2>2 DEF StopTeardown, Notify, StopSpeakerReset, Loop, Fail
    <2>3. CASE StopRunning \/ Commit \/ CommitRunning \/ CommitPhase
      BY <2>3 DEF StopRunning, Commit, CommitRunning, CommitPhase
    <2>4. CASE SpeakerStep \/ FailSpeaker
      BY <2>4 DEF SpeakerStep, StopSpeakerRunning, SpeakerRunning, StopSpeaker, FailSpeaker
    <2>5. QED
      BY <2>1, <2>2, <2>3, <2>4 DEF MainStep, StartCheck, NextGeneration, StartRequest, StopTake,
         UpdateRuntimeState, StopIfSilent, FireTrigger, SetProcessingActive, StartSpeaker,
         SpeakerIfRunning, Started, FinishPhase, FinishGeneration, Finish, SpeakerStep
  <1>5. QED
    BY <1>1, <1>2, <1>3, <1>4

\* A stack that fires no speaker trigger, or one at once only.
LEMMA Silent ==
    ASSUME NEW q \in Seq(MainLabels),
           \A i \in 2..Len(q) : q[i] \notin SpeakerTriggers
    PROVE  q # <<>> => Range(Tail(q)) \cap SpeakerTriggers = {}
  <1> SUFFICES ASSUME q # <<>>
               PROVE  Range(Tail(q)) \cap SpeakerTriggers = {}
    OBVIOUS
  <1>1. /\ Tail(q) \in Seq(MainLabels) /\ Len(Tail(q)) = Len(q) - 1
        /\ \A i \in 1..Len(Tail(q)) : Tail(q)[i] = q[i + 1]
    BY HeadTailProperties
  <1>2. \A i \in DOMAIN Tail(q) : i + 1 \in 2..Len(q) /\ Tail(q)[i] = q[i + 1]
    BY <1>1
  <1>3. QED
    BY <1>2 DEF Range

\* finish_audio_lifecycle_ leaves a stack of its own or one of plain calls.
LEMMA LoopStack ==
    ASSUME TypeOK, LoopAlone, LoopStep, todo' \in Seq(MainLabels)
    PROVE  StackInv'
  <1>1. LoopLeaves
    BY LoopPushes
  <1>2. \A i \in 2..Len(todo') : todo'[i] \notin SpeakerTriggers
    BY <1>1 DEF LoopLeaves, CommitRest, SpeakerTriggers
  <1>3. TriggersOnTop'
    BY <1>2, Silent DEF TriggersOnTop
  <1>4. \/ todo' \in LoopStacks
        \/ todo' = <<>>
        \/ todo' = <<"notify", "on_start", "started">>
        \/ todo' = <<"notify", "processor_on", "on_start", "started">>
        \/ todo' = <<"on_speaker_idle", "processor_off", "update", "on_idle">>
        \/ todo' = <<"processor_off", "update", "on_idle">>
    BY <1>1 DEF LoopLeaves, LoopStacks
  <1>5. todo' \in LoopStacks \/ (\A i \in DOMAIN todo' : todo'[i] \notin LoopSteps)
    BY <1>4 DEF LoopSteps
  <1>6. LoopAlone'
    BY <1>5 DEF LoopAlone, Range
  <1>7. QED
    BY <1>3, <1>6 DEF StackInv

\* Nor does the environment call loop's steps, or fire a speaker trigger.
LEMMA RequestsStack ==
    ASSUME Request, todo' \in Seq(MainLabels)
    PROVE  StackInv' /\ Range(todo') \cap LoopSteps = {} /\ ~At("on_speaker_start")' /\ ~At("on_speaker_idle")'
  <1>1. RequestLeaves
    BY RequestPushes
  <1>2. \A i \in DOMAIN todo' : todo'[i] \notin SpeakerTriggers \cup LoopSteps
    BY <1>1 DEF RequestLeaves, AllCalls, SpeakerTriggers, LoopSteps
  <1>3. \A i \in 2..Len(todo') : todo'[i] \notin SpeakerTriggers
    BY <1>2
  <1>4. TriggersOnTop'
    BY <1>3, Silent DEF TriggersOnTop
  <1>5. Range(todo') \cap LoopSteps = {} /\ LoopAlone'
    BY <1>2 DEF LoopAlone, Range
  <1>6. todo' # <<>> => Head(todo') = todo'[1] /\ 1 \in DOMAIN todo'
    OBVIOUS
  <1>7. QED
    BY <1>2, <1>4, <1>5, <1>6 DEF StackInv, At, SpeakerTriggers

\* Every step keeps the order of the stack.
LEMMA StackInduction == TypeOK /\ TypeOK' /\ StackInv /\ [Next]_vars => StackInv'
  <1> SUFFICES ASSUME TypeOK, TypeOK', StackInv, [Next]_vars
               PROVE  StackInv'
    OBVIOUS
  <1>1. todo' \in Seq(MainLabels)
    BY DEF TypeOK
  <1>2. CASE MainStep
    BY <1>1, <1>2, CallStack, LoopStack DEF StackInv
  <1>3. CASE Request
    BY <1>1, <1>3, RequestsStack
  <1>4. CASE UNCHANGED todo
    BY <1>4 DEF StackInv, LoopAlone, TriggersOnTop
  <1>5. QED
    BY <1>2, <1>3, <1>4 DEF Next, Main, Audio, Player, vars

----------------------------------------------------------------------------
(* The amplifier and the runtime state follow the speaker and the consumers. *)

\* The audio task and the player leave what these properties are about alone,
\* unless a session cannot be set up: it then ends the speaker silently.
LEMMA OthersLeave ==
    ASSUME StateTyped, "setup" \notin Faults, Audio \/ Player
    PROVE  /\ UNCHANGED <<mics, outside, todo>>
           /\ sh'.speakerRunning = sh.speakerRunning
  <1> USE DEF StateTyped, Shared
  <1>1. UNCHANGED <<mics, outside, todo>>
    BY DEF Audio, Player
  <1>2. CASE Audio
    <2>1. CASE UNCHANGED sh
      BY <1>1, <2>1
    <2>2. CASE Top \/ Close \/ CloseDone \/ ClosePublish \/ CloseEvent
      BY <1>1, <2>2 DEF Top, Close, DeinitI2S, CloseDone, ClosePublish, CloseEvent
    <2>3. CASE OpenStarting \/ Open \/ OpenAbort \/ OpenAborted \/ OpenReady
      BY <1>1, <2>3 DEF OpenStarting, Open, OpenAbort, DeinitI2S, OpenAborted, OpenReady
    <2>4. CASE PublishPhase \/ PublishEvent \/ Wait \/ SessionSetup \/ Frame \/ FrameDesync
      BY <1>1, <2>4 DEF PublishPhase, PublishEvent, Wait, SessionSetup, Frame, FrameDesync
    <2>5. QED
      BY <1>2, <2>1, <2>2, <2>3, <2>4 DEF Audio, AudioStep, ServicePhase, ServiceRunning,
         ServiceRequested, ServiceGeneration, ServiceTeardown, OpenRequested, OpenGeneration,
         OpenCurrent, OpenCurrentGeneration, PublishGeneration, Park, ParkRunning, ParkPhase,
         ParkRequested, ParkStopped, Session, FrameRejected
  <1>3. CASE Player
    BY <1>3 DEF Player, PlayerStep, PlayerCheck, PlayerGeneration, PlayerRequest
  <1>4. QED
    BY <1>1, <1>2, <1>3

\* What a step leaves under itself fires no speaker trigger.
LEMMA RestSilent ==
    ASSUME TypeOK, StackInv, todo # <<>>,
           todo' = <<>> \o Tail(todo) \/ todo' = (<<>> \o <<"stop_speaker_reset">>) \o Tail(todo)
    PROVE  ~At("on_speaker_start")' /\ ~At("on_speaker_idle")'
  <1> DEFINE rest == Tail(todo)
  <1>1. rest \in Seq(MainLabels) /\ Range(rest) \cap SpeakerTriggers = {}
    BY DEF TypeOK, StackInv, TriggersOnTop
  <1>2. <<"stop_speaker_reset">> \in Seq(MainLabels)
    BY DEF MainLabels
  <1> HIDE DEF rest
  <1>3. \/ todo' = rest
        \/ todo' = <<"stop_speaker_reset">> \o rest
    BY <1>1, <1>2, ConcatEmptySeq DEF rest
  <1>4. CASE todo' = rest
    <2>1. rest # <<>> => Head(rest) \in Range(rest)
      BY <1>1 DEF Range
    <2>2. QED
      BY <1>1, <1>4, <2>1 DEF At, SpeakerTriggers
  <1>5. CASE todo' = <<"stop_speaker_reset">> \o rest
    <2>1. Head(<<"stop_speaker_reset">> \o rest) = "stop_speaker_reset"
      BY <1>1, <1>2
    <2>2. QED
      BY <1>5, <2>1 DEF At
  <1>6. QED
    BY <1>3, <1>4, <1>5

\* A trigger that is pushed is what main does next.
LEMMA FirstOfTwo ==
    ASSUME NEW a \in MainLabels, NEW b \in MainLabels, TypeOK, todo # <<>>,
           \/ todo' = <<a, b>> \o Tail(todo)
           \/ todo' = (<<a, b>> \o <<"stop_speaker_reset">>) \o Tail(todo)
    PROVE  todo' # <<>> /\ Head(todo') = a /\ b \in Range(todo')
  <1> DEFINE two == <<a, b>>
             rest == Tail(todo)
  <1>1. /\ rest \in Seq(MainLabels) /\ <<"stop_speaker_reset">> \in Seq(MainLabels)
        /\ two \in Seq(MainLabels) /\ two # <<>> /\ Head(two) = a
    BY DEF TypeOK, MainLabels
  <1>b. b \in Range(two)
    BY DEF Range
  <1> HIDE DEF two, rest
  <1>2. CASE todo' = two \o rest
    <2>1. Range(two \o rest) = Range(two) \cup Range(rest)
      BY <1>1, JoinedSteps
    <2>2. QED
      BY <1>1, <1>b, <1>2, <2>1
  <1>3. CASE todo' = (two \o <<"stop_speaker_reset">>) \o rest
    <2> DEFINE three == two \o <<"stop_speaker_reset">>
    <2>a. Range(three) = Range(two) \cup Range(<<"stop_speaker_reset">>)
      BY <1>1, JoinedSteps
    <2>1. three \in Seq(MainLabels) /\ three # <<>> /\ Head(three) = a
      BY <1>1
    <2>b. b \in Range(three)
      BY <1>b, <2>a
    <2> HIDE DEF three
    <2>2. todo' = three \o rest
      BY <1>3 DEF three
    <2>3. Range(three \o rest) = Range(three) \cup Range(rest)
      BY <1>1, <2>1, JoinedSteps
    <2>4. QED
      BY <1>1, <2>1, <2>b, <2>2, <2>3
  <1>4. QED
    BY <1>2, <1>3 DEF two, rest

\* The trigger is fired before anything else changes the speaker.
LEMMA AmpInduction ==
    ASSUME "setup" \notin Faults
    PROVE  TypeOK /\ TypeOK' /\ StackInv /\ AmpInv /\ [Next]_vars => AmpInv'
  <1> SUFFICES ASSUME TypeOK, TypeOK', StackInv, AmpInv, [Next]_vars
               PROVE  AmpInv'
    OBVIOUS
  <1> DEFINE Fired == At("on_speaker_start") \/ At("on_speaker_idle")
  <1>0. StateTyped
    BY DEF TypeOK
  <1>1. CASE MainStep /\ SpeakerStep
    <2>1. todo # <<>> /\ todo \in Seq(MainLabels)
      BY <1>1 DEF SpeakerStep, SpeakerRunning, StopSpeakerRunning, StopSpeaker, At, TypeOK
    <2>2. CASE SpeakerRunning
      <3>1. sh'.speakerRunning /\ UNCHANGED outside /\ ~Fired
        BY <1>0, <2>2 DEF SpeakerRunning, At, StateTyped, Shared
      <3>2. CASE sh.speakerRunning
        <4>1. todo' = <<>> \o Tail(todo)
          BY <2>2, <3>2 DEF SpeakerRunning, Then, When
        <4>2. ~At("on_speaker_start")' /\ ~At("on_speaker_idle")'
          BY <2>1, <4>1, RestSilent
        <4>3. QED
          BY <3>1, <3>2, <4>2 DEF AmpInv
      <3>3. CASE ~sh.speakerRunning
        <4>1. todo' = <<"on_speaker_start", "update">> \o Tail(todo)
          BY <2>2, <3>3 DEF SpeakerRunning, Then, When
        <4>2. At("on_speaker_start")'
          <5>1. "on_speaker_start" \in MainLabels /\ "update" \in MainLabels
            BY DEF MainLabels, Triggers
          <5>2. todo' # <<>> /\ Head(todo') = "on_speaker_start"
            BY <2>1, <4>1, <5>1, FirstOfTwo
          <5>3. QED
            BY <5>2 DEF At
        <4>3. QED
          BY <3>1, <4>2 DEF AmpInv
      <3>4. QED
        BY <3>2, <3>3
    <2>3. CASE StopSpeakerRunning \/ StopSpeaker
      <3>1. sh'.speakerRunning = FALSE /\ UNCHANGED outside /\ ~Fired
        BY <1>0, <2>3 DEF StopSpeakerRunning, StopSpeaker, At, StateTyped, Shared
      <3>2. CASE sh.speakerRunning
        <4>1. \/ todo' = <<"on_speaker_idle", "update">> \o Tail(todo)
              \/ todo' = (<<"on_speaker_idle", "update">> \o <<"stop_speaker_reset">>) \o Tail(todo)
          BY <2>3, <3>2 DEF StopSpeakerRunning, StopSpeaker, Then, When
        <4>2. At("on_speaker_idle")' /\ ~At("on_speaker_start")'
          <5>1. "on_speaker_idle" \in MainLabels /\ "update" \in MainLabels
            BY DEF MainLabels, Triggers
          <5>2. todo' # <<>> /\ Head(todo') = "on_speaker_idle"
            BY <2>1, <4>1, <5>1, FirstOfTwo
          <5>3. QED
            BY <5>2 DEF At
        <4>3. QED
          BY <3>1, <4>2 DEF AmpInv
      <3>3. CASE ~sh.speakerRunning
        <4>1. \/ todo' = <<>> \o Tail(todo)
              \/ todo' = (<<>> \o <<"stop_speaker_reset">>) \o Tail(todo)
          BY <2>3, <3>3 DEF StopSpeakerRunning, StopSpeaker, Then, When
        <4>2. ~At("on_speaker_start")' /\ ~At("on_speaker_idle")'
          BY <2>1, <4>1, RestSilent
        <4>3. ~sh.speakerRunning = ~sh'.speakerRunning
          BY <3>1, <3>3
        <4>4. QED
          BY <1>0, <3>1, <3>3, <4>2 DEF AmpInv, StateTyped, Shared
      <3>4. QED
        BY <3>2, <3>3
    <2>4. QED
      BY <1>1, <2>2, <2>3 DEF SpeakerStep
  <1>2. CASE MainStep /\ ~SpeakerStep /\ ~LoopStep
    <2>1. ~At("on_speaker_start")' /\ ~At("on_speaker_idle")'
      BY <1>2, CallStack
    <2>2. sh'.speakerRunning = sh.speakerRunning
      BY <1>0, <1>2, MainChanges DEF LoopStep
    <2>3. CASE \E t \in Triggers : FireTrigger(t)
      <3>1. PICK t \in Triggers : FireTrigger(t)
        BY <2>3
      <3>2. /\ At(t)
            /\ outside'.amplifier = IF t = "on_speaker_start" THEN TRUE
                                    ELSE IF t = "on_speaker_idle" THEN FALSE ELSE outside.amplifier
        BY <1>0, <3>1 DEF FireTrigger, StateTyped, Outside
      <3>3. QED
        BY <1>0, <2>1, <2>2, <3>2 DEF AmpInv, At, StateTyped, Shared, Outside
    <2>4. CASE ~(\E t \in Triggers : FireTrigger(t))
      <3>1. ~Fired
        BY <1>2, <2>4 DEF MainStep, SpeakerStep, LoopStep, StartCheck, NextGeneration, StartRequest,
           StopTake, StopTeardown, StopRunning, Notify, UpdateRuntimeState, StopIfSilent,
           SetProcessingActive, StartSpeaker, SpeakerIfRunning, StopSpeakerReset, Started, At
      <3>2. outside'.amplifier = outside.amplifier
        BY <1>0, <1>2, <2>4, MainChanges
           DEF UpdateRuntimeState, SetProcessingActive, StateTyped, Outside
      <3>3. QED
        BY <2>1, <2>2, <3>1, <3>2 DEF AmpInv
    <2>5. QED
      BY <2>3, <2>4
  <1>3. CASE MainStep /\ LoopStep
    <2>1. LoopLeaves
      BY <1>3, LoopPushes DEF StackInv
    <2>2. ~Fired
      BY <1>3 DEF LoopStep, Loop, FinishPhase, FinishGeneration, Finish, Commit, CommitRunning,
         CommitPhase, Fail, FailSpeaker, At
    <2>3. UNCHANGED outside
      BY <1>3 DEF LoopStep, Loop, FinishPhase, FinishGeneration, Finish, Commit, CommitRunning,
         CommitPhase, Fail, FailSpeaker
    <2>4. CASE FailSpeaker
      <3>1. /\ sh'.speakerRunning = FALSE
            /\ Head(todo) = "fail_speaker"
        BY <1>0, <2>4 DEF FailSpeaker, At, StateTyped, Shared
      <3>2. todo' = IF sh.speakerRunning
                    THEN <<"on_speaker_idle", "processor_off", "update", "on_idle">>
                    ELSE <<"processor_off", "update", "on_idle">>
        <4>1. todo # <<>>
          BY <2>4 DEF FailSpeaker, At
        <4>2. /\ ~Loop /\ ~FinishPhase /\ ~FinishGeneration /\ ~Finish /\ ~Commit
              /\ ~CommitRunning /\ ~CommitPhase /\ ~Fail
          BY <3>1, <4>1 DEF Loop, FinishPhase, FinishGeneration, Finish, Commit, CommitRunning,
             CommitPhase, Fail, At
        <4>3. QED
          BY <2>1, <4>2 DEF LoopLeaves
      <3>3. CASE sh.speakerRunning
        <4>1. At("on_speaker_idle")' /\ ~At("on_speaker_start")'
          BY <3>2, <3>3 DEF At
        <4>2. QED
          BY <3>1, <4>1 DEF AmpInv
      <3>4. CASE ~sh.speakerRunning
        <4>1. ~At("on_speaker_idle")' /\ ~At("on_speaker_start")'
          BY <3>2, <3>4 DEF At
        <4>2. QED
          BY <1>0, <2>2, <2>3, <3>1, <3>4, <4>1 DEF AmpInv, StateTyped, Shared
      <3>5. QED
        BY <3>3, <3>4
    <2>5. CASE ~FailSpeaker
      <3>1. ~At("on_speaker_idle")' /\ ~At("on_speaker_start")'
        BY <2>1, <2>5 DEF LoopLeaves, CommitRest, At
      <3>2. sh'.speakerRunning = sh.speakerRunning
        BY <1>0, <1>3, <2>5, MainChanges DEF LoopStep, SpeakerStep, SpeakerRunning,
           StopSpeakerRunning, StopSpeaker, Loop, FinishPhase, FinishGeneration, Finish, Commit,
           CommitRunning, CommitPhase, Fail, At
      <3>3. QED
        BY <2>2, <2>3, <3>1, <3>2 DEF AmpInv
    <2>6. QED
      BY <2>4, <2>5
  <1>4. CASE Request
    <2>1. ~At("on_speaker_start")' /\ ~At("on_speaker_idle")' /\ ~Fired
      BY <1>4, RequestsStack, RequestPushes DEF At, TypeOK
    <2>2. UNCHANGED <<sh, outside>>
      BY <1>4 DEF Request, CallMain, RegisterMicConsumer, UnregisterMicConsumer
    <2>3. QED
      BY <2>1, <2>2 DEF AmpInv
  <1>5. CASE Audio \/ Player
    BY <1>0, <1>5, OthersLeave DEF AmpInv, At
  <1>6. CASE UNCHANGED vars
    BY <1>6 DEF vars, AmpInv, At
  <1>7. QED
    BY <1>1, <1>2, <1>3, <1>4, <1>5, <1>6 DEF Next, Main

\* Whatever changes what the runtime state is computed from has an update to
\* come, in its own call or in the one it was called from.
LEMMA FreshInduction ==
    ASSUME "setup" \notin Faults
    PROVE  TypeOK /\ TypeOK' /\ StackInv /\ FreshInv /\ [Next]_vars => FreshInv'
  <1> SUFFICES ASSUME TypeOK, TypeOK', StackInv, FreshInv, [Next]_vars
               PROVE  FreshInv'
    OBVIOUS
  <1>0. StateTyped /\ "update" \in MainLabels
    BY DEF TypeOK, MainLabels
  <1>1. CASE MainStep /\ ~LoopStep
    <2>1. /\ todo # <<>> /\ Range(todo) = {Head(todo)} \cup Range(Tail(todo))
          /\ Range(Tail(todo)) \subseteq Range(todo')
      BY <1>1, CallStack
    <2>2. UNCHANGED mics
      BY <1>0, <1>1, MainChanges
    <2>3. CASE UpdateRuntimeState
      <3>1. outside'.state = ComputedRuntimeState /\ UNCHANGED sh
        BY <1>0, <2>3 DEF UpdateRuntimeState, StateTyped, Outside
      <3>2. QED
        BY <2>2, <3>1 DEF FreshInv, ComputedRuntimeState
    <2>4. CASE ~UpdateRuntimeState
      <3>1. Head(todo) # "update"
        BY <1>1, <2>1, <2>4 DEF MainStep, LoopStep, StartCheck, NextGeneration, StartRequest,
           StopTake, StopTeardown, StopSpeakerRunning, StopRunning, Notify, StopIfSilent, FireTrigger,
           SetProcessingActive, StartSpeaker, SpeakerIfRunning, SpeakerRunning, StopSpeaker,
           StopSpeakerReset, Started, At, Triggers
      <3>2. Pending("update") => Pending("update")'
        BY <2>1, <3>1 DEF Pending
      <3>3. outside'.state = outside.state
        BY <1>0, <1>1, <2>4, MainChanges DEF FireTrigger, SetProcessingActive, StateTyped, Outside
      <3>4. CASE sh'.speakerRunning = sh.speakerRunning
        BY <2>2, <3>2, <3>3, <3>4 DEF FreshInv, ComputedRuntimeState
      <3>5. CASE sh'.speakerRunning # sh.speakerRunning
        <4>1. SpeakerStep
          BY <1>0, <1>1, <3>5, MainChanges DEF LoopStep
        <4>2. /\ SpeakerRunning => ~sh.speakerRunning
              /\ StopSpeakerRunning \/ StopSpeaker => sh.speakerRunning
          BY <1>0, <3>5 DEF SpeakerRunning, StopSpeakerRunning, StopSpeaker, StateTyped, Shared
        <4>3. \/ todo' = <<"on_speaker_start", "update">> \o Tail(todo)
              \/ todo' = <<"on_speaker_idle", "update">> \o Tail(todo)
              \/ todo' = (<<"on_speaker_idle", "update">> \o <<"stop_speaker_reset">>) \o Tail(todo)
          BY <4>1, <4>2 DEF SpeakerStep, SpeakerRunning, StopSpeakerRunning, StopSpeaker, Then, When
        <4>4. "on_speaker_start" \in MainLabels /\ "on_speaker_idle" \in MainLabels
          BY DEF MainLabels, Triggers
        <4>5. "update" \in Range(todo')
          BY <1>0, <2>1, <4>3, <4>4, FirstOfTwo
        <4>6. QED
          BY <4>5 DEF FreshInv, Pending
      <3>6. QED
        BY <3>4, <3>5
    <2>5. QED
      BY <2>3, <2>4
  <1>2. CASE MainStep /\ LoopStep
    <2>1. LoopLeaves
      BY <1>2, LoopPushes DEF StackInv
    <2>2. UNCHANGED <<mics, outside>>
      BY <1>2 DEF LoopStep, Loop, FinishPhase, FinishGeneration, Finish, Commit, CommitRunning,
         CommitPhase, Fail, FailSpeaker
    <2>3. CASE Fail \/ FailSpeaker
      <3>1. /\ ~Loop /\ ~FinishPhase /\ ~FinishGeneration /\ ~Finish /\ ~Commit
            /\ ~CommitRunning /\ ~CommitPhase
        BY <2>3 DEF Loop, FinishPhase, FinishGeneration, Finish, Commit, CommitRunning,
           CommitPhase, Fail, FailSpeaker, At
      <3>2. \/ todo' = <<"fail_speaker", "processor_off", "update", "on_idle">>
            \/ todo' = <<"on_speaker_idle", "processor_off", "update", "on_idle">>
            \/ todo' = <<"processor_off", "update", "on_idle">>
        BY <2>1, <3>1 DEF LoopLeaves
      <3>3. "update" \in Range(todo')
        BY <3>2 DEF Range
      <3>4. QED
        BY <3>3 DEF FreshInv, Pending
    <2>4. CASE ~Fail /\ ~FailSpeaker
      <3>1. ~Pending("update")
        <4>1. CASE Loop
          BY <4>1 DEF Loop, Pending, Range
        <4>2. CASE ~Loop
          <5>1. /\ todo # <<>>
                /\ Head(todo) \in {"finish_phase", "finish_generation", "finish", "commit",
                                   "commit_running", "commit_phase"}
            BY <1>2, <2>4, <4>2 DEF LoopStep, FinishPhase, FinishGeneration, Finish, Commit,
               CommitRunning, CommitPhase, At
          <5>2. todo \in LoopStacks
            BY <5>1, LoopOwns DEF StackInv, LoopSteps
          <5>3. \A i \in DOMAIN todo : todo[i] # "update"
            BY <5>1, <5>2 DEF LoopStacks, CommitRest
          <5>4. QED
            BY <5>3 DEF Pending, Range
        <4>3. QED
          BY <4>1, <4>2
      <3>2. sh'.speakerRunning = sh.speakerRunning
        BY <1>0, <1>2, <2>4 DEF LoopStep, Loop, FinishPhase, FinishGeneration, Finish, Commit,
           CommitRunning, CommitPhase, StateTyped, Shared
      <3>3. QED
        BY <2>2, <3>1, <3>2 DEF FreshInv, ComputedRuntimeState
    <2>5. QED
      BY <2>3, <2>4
  <1>3. CASE Request
    <2>1. todo = <<>> /\ RequestLeaves
      BY <1>3, RequestPushes
    <2>2. UNCHANGED <<sh, outside>>
      BY <1>3 DEF Request, CallMain, RegisterMicConsumer, UnregisterMicConsumer
    <2>3. outside.state = ComputedRuntimeState
      BY <2>1 DEF FreshInv, Pending, Range
    <2>4. (mics' = {} <=> mics = {}) \/ "update" \in Range(todo')
      <3>1. \/ (mics' = {} <=> mics = {})
            \/ todo' = <<"on_mic_start", "processor_on", "update">>
            \/ todo' = <<"on_mic_start", "start", "update">>
            \/ todo' = <<"on_mic_idle", "processor_off", "stop_if_silent", "update">>
        BY <2>1 DEF RequestLeaves
      <3>2. QED
        BY <3>1 DEF Range
    <2>5. QED
      BY <2>2, <2>3, <2>4 DEF FreshInv, Pending, ComputedRuntimeState
  <1>4. CASE Audio \/ Player
    BY <1>0, <1>4, OthersLeave DEF FreshInv, Pending, ComputedRuntimeState
  <1>5. CASE UNCHANGED vars
    BY <1>5 DEF vars, FreshInv, Pending, ComputedRuntimeState
  <1>6. QED
    BY <1>1, <1>2, <1>3, <1>4, <1>5 DEF Next, Main

\* The stack of main is ordered in every reachable state.
LEMMA StackAlways == Spec => [](TypeOK /\ StackInv)
  <1>1. Init => StackInv
    BY DEF Init, StackInv, LoopAlone, TriggersOnTop, Range
  <1>2. QED
    BY <1>1, StackInduction, Typing, PTL DEF Spec

\* If a session can always be set up, the amplifier's supply is on between calls
\* exactly while the speaker runs: every end of the speaker, by stop(), by
\* stop_speaker() or by a failed start, fires its trigger once.
THEOREM AmplifierIsRight ==
    ASSUME "setup" \notin Faults
    PROVE  Spec => []AmplifierFollows
  <1>1. Init => AmpInv
    BY DEF Init, AmpInv, At
  <1>2. AmpInv => AmplifierFollows
    BY DEF AmpInv, AmplifierFollows, At
  <1>3. QED
    BY <1>1, <1>2, StackAlways, AmpInduction, PTL DEF Spec

\* Under the same assumption the runtime state is the computed one whenever
\* main has no call in progress: no call returns leaving a stale state.
THEOREM RuntimeStateIsRight ==
    ASSUME "setup" \notin Faults
    PROVE  Spec => []RuntimeStateFresh
  <1>1. Init => FreshInv
    BY DEF Init, FreshInv, ComputedRuntimeState
  <1>2. FreshInv => RuntimeStateFresh
    BY DEF FreshInv, Pending, Range, RuntimeStateFresh, Quiet
  <1>3. QED
    BY <1>1, <1>2, StackAlways, FreshInduction, PTL DEF Spec

----------------------------------------------------------------------------
(* The processor follows the consumers.                                    *)

\* Neither the audio task nor the player starts a session.
LEMMA OthersStart ==
    ASSUME StateTyped, OpenInv, Audio \/ Player
    PROVE  /\ UNCHANGED <<mics, outside, todo, seen>>
           /\ sh'.running => sh.running
           /\ sh'.phase = "RUNNING" => sh.phase = "RUNNING"
  <1> USE DEF StateTyped, Shared
  <1>1. UNCHANGED <<mics, outside, todo, seen>>
    BY DEF Audio, Player
  <1>2. CASE Audio
    <2>1. CASE UNCHANGED sh
      BY <1>1, <2>1
    <2>2. CASE Top \/ Close \/ CloseDone \/ CloseEvent
      BY <1>1, <2>2 DEF Top, Close, DeinitI2S, CloseDone, CloseEvent
    <2>3. CASE OpenStarting \/ Open \/ OpenAbort \/ OpenAborted \/ OpenReady
      BY <1>1, <2>3 DEF OpenStarting, Open, OpenAbort, DeinitI2S, OpenAborted, OpenReady
    <2>4. CASE PublishEvent \/ Wait \/ SessionSetup \/ Frame \/ FrameDesync
      BY <1>1, <2>4 DEF PublishEvent, Wait, SessionSetup, Frame, FrameDesync
    <2>5. CASE ClosePublish \/ PublishPhase
      BY <1>1, <2>5 DEF ClosePublish, PublishPhase, OpenInv, OpenedAsPublished
    <2>6. QED
      BY <1>2, <2>1, <2>2, <2>3, <2>4, <2>5 DEF Audio, AudioStep, ServicePhase, ServiceRunning,
         ServiceRequested, ServiceGeneration, ServiceTeardown, OpenRequested, OpenGeneration,
         OpenCurrent, OpenCurrentGeneration, PublishGeneration, Park, ParkRunning, ParkPhase,
         ParkRequested, ParkStopped, Session, FrameRejected
  <1>3. CASE Player
    BY <1>1, <1>3 DEF Player, PlayerStep, PlayerCheck, PlayerGeneration, PlayerRequest
  <1>4. QED
    BY <1>2, <1>3

ListenInv == FailureStands /\ ProcessorInv

\* A stack without processor_off waits for no end of the session.
LEMMA NothingEnds ==
    ASSUME NEW q, "processor_off" \notin Range(q)
    PROVE  Ends(q)
  BY DEF Ends, Range

\* Steps of a call.
LEMMA CallListens ==
    ASSUME TypeOK, StackInv, ListenInv, MainStep, ~LoopStep
    PROVE  ListenInv'
  <1>0. StateTyped
    BY DEF TypeOK
  <1>1. /\ Range(todo') \cap LoopSteps = {}
        /\ todo # <<>> /\ Range(todo) = {Head(todo)} \cup Range(Tail(todo))
        /\ Range(Tail(todo)) \subseteq Range(todo')
        /\ Pending("processor_on")' => Pending("processor_on")
        /\ mics = {} \/ (Ends(todo) => Ends(todo'))
    BY CallStack
  <1>2. /\ UNCHANGED mics
        /\ sh'.running => sh.running
        /\ sh'.phase = "RUNNING" => sh.phase = "RUNNING"
    BY <1>0, MainChanges DEF LoopStep
  <1>3. ASSUME NEW s \in LoopSteps
        PROVE  ~At(s)'
    <2> DEFINE next == todo'
    <2>1. next # <<>> => Head(next) \in Range(next)
      <3>1. CASE next = <<>>
        BY <3>1
      <3>2. CASE next # <<>>
        <4>1. next \in Seq(MainLabels)
          <5>1. PICK steps : Orderly(steps) /\ todo' = steps \o Tail(todo)
            BY CallPushes DEF Pushes
          <5>2. steps \in Seq(MainLabels) /\ Tail(todo) \in Seq(MainLabels)
            BY <1>1, <5>1 DEF Orderly, TypeOK
          <5>3. QED
            BY <5>1, <5>2
        <4> HIDE DEF next
        <4>2. QED
          BY <3>2, <4>1 DEF Range
      <3>3. QED
        BY <3>1, <3>2
    <2>2. QED
      BY <1>1, <1>3, <2>1 DEF At
  <1>4. FailureStands'
    BY <1>3 DEF FailureStands, LoopSteps
  <1>5. CASE SetProcessingActive(TRUE)
    <2>1. At("processor_on") /\ outside'.processor = TRUE
      BY <1>0, <1>5 DEF SetProcessingActive, StateTyped, Outside
    <2>2. mics # {}
      BY <1>1, <2>1 DEF At, ListenInv, ProcessorInv, Pending
    <2>3. QED
      BY <1>1, <1>2, <1>3, <1>4, <2>1, <2>2 DEF ListenInv, ProcessorInv, LoopSteps
  <1>6. CASE SetProcessingActive(FALSE)
    <2>1. At("processor_off") /\ outside'.processor = FALSE /\ UNCHANGED sh
      BY <1>0, <1>6 DEF SetProcessingActive, StateTyped, Outside
    <2>2. Ends(todo) => "stop_running" \in Range(Tail(todo))
      <3>1. 1 \in DOMAIN todo /\ todo[1] = "processor_off"
        BY <1>1, <2>1 DEF At, TypeOK
      <3>2. ASSUME NEW j \in DOMAIN todo, j > 1
            PROVE  todo[j] \in Range(Tail(todo))
        <4>1. /\ Tail(todo) \in Seq(MainLabels) /\ Len(Tail(todo)) = Len(todo) - 1
              /\ \A i \in 1..Len(Tail(todo)) : Tail(todo)[i] = todo[i + 1]
          BY <1>1, HeadTailProperties DEF TypeOK
        <4>2. j - 1 \in 1..Len(Tail(todo)) /\ (j - 1) + 1 = j
          BY <3>2, <4>1 DEF TypeOK
        <4>3. Tail(todo)[j - 1] = todo[j] /\ j - 1 \in DOMAIN Tail(todo)
          BY <4>1, <4>2
        <4>4. QED
          BY <4>3 DEF Range
      <3>3. QED
        BY <3>1, <3>2 DEF Ends
    <2>3. mics # {} /\ sh.phase = "RUNNING" => Pending("stop_running")'
      BY <1>1, <2>2 DEF ListenInv, ProcessorInv, Pending
    <2>4. QED
      BY <1>1, <1>2, <1>3, <1>4, <2>1, <2>3 DEF ListenInv, ProcessorInv, LoopSteps
  <1>7. CASE ~(\E active \in BOOLEAN : SetProcessingActive(active))
    <2>1. outside'.processor = outside.processor
      BY <1>0, <1>7, MainChanges DEF UpdateRuntimeState, FireTrigger, StateTyped, Outside
    <2>2. Head(todo) # "processor_off" /\ Head(todo) # "processor_on"
      BY <1>1, <1>7 DEF MainStep, LoopStep, StartCheck, NextGeneration, StartRequest,
         StopTake, StopTeardown, StopSpeakerRunning, StopRunning, Notify, UpdateRuntimeState,
         StopIfSilent, FireTrigger, StartSpeaker, SpeakerIfRunning, SpeakerRunning, StopSpeaker,
         StopSpeakerReset, Started, At, Triggers
    <2>3. /\ Pending("processor_off") => Pending("processor_off")'
          /\ Pending("processor_on") => Pending("processor_on")'
      BY <1>1, <2>2 DEF Pending
    <2>4. sh'.running => (Pending("stop_running") => Pending("stop_running")')
      <3>1. CASE StopRunning
        BY <1>0, <3>1 DEF StopRunning, StateTyped, Shared
      <3>2. CASE ~StopRunning
        <4>1. Head(todo) # "stop_running"
          BY <1>1, <1>7, <3>2 DEF MainStep, LoopStep, StartCheck, NextGeneration, StartRequest,
             StopTake, StopTeardown, StopSpeakerRunning, Notify, UpdateRuntimeState,
             StopIfSilent, FireTrigger, StartSpeaker, SpeakerIfRunning, SpeakerRunning, StopSpeaker,
             StopSpeakerReset, Started, At, Triggers
        <4>2. QED
          BY <1>1, <4>1 DEF Pending
      <3>3. QED
        BY <3>1, <3>2
    <2>5. QED
      BY <1>1, <1>2, <1>3, <1>4, <2>1, <2>3, <2>4 DEF ListenInv, ProcessorInv, LoopSteps
  <1>8. QED
    BY <1>5, <1>6, <1>7

\* Steps of finish_audio_lifecycle_.
LEMMA LoopListens ==
    ASSUME TypeOK, StackInv, ListenInv, MainStep, LoopStep
    PROVE  ListenInv'
  <1>0. StateTyped
    BY DEF TypeOK
  <1>1. LoopLeaves
    BY LoopPushes DEF StackInv
  <1>2. UNCHANGED <<mics, outside>>
    BY DEF LoopStep, Loop, FinishPhase, FinishGeneration, Finish, Commit, CommitRunning,
       CommitPhase, Fail, FailSpeaker
  <1>3. ASSUME todo # <<>>, Head(todo) \in LoopSteps
        PROVE  todo \in LoopStacks
    BY <1>3, LoopOwns DEF StackInv
  <1>4. CASE Loop
    <2>1. todo = <<>> /\ sh'.phase = sh.phase /\ sh'.running = sh.running
      BY <1>0, <1>4 DEF Loop, StateTyped, Shared
    <2>2. todo' = <<"finish_phase", "finish_generation", "finish">>
      BY <1>4 DEF Loop
    <2>3. /\ "processor_off" \notin Range(todo') /\ "processor_on" \notin Range(todo')
          /\ Range(todo) = {}
      BY <2>1, <2>2 DEF Range
    <2>4. ~At("finish_generation")' /\ ~At("finish")' /\ ~At("commit_running")' /\ ~At("commit_phase")'
      BY <2>2 DEF At
    <2>5. QED
      BY <1>2, <2>1, <2>3, <2>4, NothingEnds DEF ListenInv, FailureStands, ProcessorInv, Pending
  <1>5. CASE FinishPhase \/ FinishGeneration
    <2>1. todo # <<>> /\ Head(todo) \in {"finish_phase", "finish_generation"} /\ UNCHANGED sh
      BY <1>5 DEF FinishPhase, FinishGeneration, At
    <2>2. \/ todo = <<"finish_phase", "finish_generation", "finish">>
          \/ todo = <<"finish_generation", "finish">>
      BY <1>3, <2>1 DEF LoopSteps, LoopStacks, CommitRest
    <2>3. todo' = <<"finish_generation", "finish">> \/ todo' = <<"finish">>
      BY <1>1, <1>5, <2>1 DEF LoopLeaves, Loop, Finish, Commit, CommitRunning, CommitPhase, Fail,
         FailSpeaker, At
    <2>4. /\ "processor_off" \notin Range(todo') /\ "processor_on" \notin Range(todo')
          /\ "processor_off" \notin Range(todo) /\ "processor_on" \notin Range(todo)
          /\ "stop_running" \notin Range(todo)
      BY <2>2, <2>3 DEF Range
    <2>5. ~At("commit_running")' /\ ~At("commit_phase")'
      BY <2>3 DEF At
    <2>6. FailureStands'
      <3>1. CASE FinishPhase
        BY <1>0, <3>1 DEF FinishPhase, FailureStands, StateTyped, Results
      <3>2. CASE FinishGeneration
        BY <1>0, <3>2 DEF FinishGeneration, ListenInv, FailureStands, StateTyped, Results
      <3>3. QED
        BY <1>5, <3>1, <3>2
    <2>7. QED
      BY <1>2, <2>1, <2>4, <2>5, <2>6, NothingEnds DEF ListenInv, ProcessorInv, Pending
  <1>6. CASE Finish
    <2>1. todo # <<>> /\ Head(todo) = "finish" /\ UNCHANGED <<sh, seen>>
      BY <1>6 DEF Finish, At
    <2>2. todo = <<"finish">>
      BY <1>3, <2>1 DEF LoopSteps, LoopStacks, CommitRest
    <2>3. \/ todo' = <<>>
          \/ todo' = <<"commit">>
          \/ /\ seen.phase = "FAILED"
             /\ todo' = <<"fail", "fail_speaker", "processor_off", "update", "on_idle">>
      BY <1>1, <2>1 DEF LoopLeaves, Loop, FinishPhase, FinishGeneration, Commit, CommitRunning,
         CommitPhase, Fail, FailSpeaker, At
    <2>4. /\ "processor_off" \notin Range(todo) /\ "processor_on" \notin Range(todo)
          /\ "stop_running" \notin Range(todo) /\ "processor_on" \notin Range(todo')
      BY <2>2, <2>3 DEF Range
    <2>5. ~At("finish_generation")' /\ ~At("finish")' /\ ~At("commit_running")' /\ ~At("commit_phase")'
      BY <2>3 DEF At
    <2>6. sh.phase = "RUNNING" => "processor_off" \notin Range(todo')
      <3>1. sh.phase = "RUNNING" => todo' \in {<<>>, <<"commit">>}
        BY <2>1, <2>3 DEF ListenInv, FailureStands, At
      <3>2. QED
        BY <3>1 DEF Range
    <2>7. QED
      BY <1>2, <2>1, <2>4, <2>5, <2>6, NothingEnds DEF ListenInv, FailureStands, ProcessorInv, Pending
  <1>7. CASE Commit
    <2>1. /\ todo # <<>> /\ Head(todo) = "commit" /\ sh'.running = sh.running
          /\ sh'.phase = "RUNNING" => sh.phase = "RUNNING"
      BY <1>0, <1>7 DEF Commit, At, StateTyped, Shared
    <2>2. todo = <<"commit">>
      BY <1>3, <2>1 DEF LoopSteps, LoopStacks, CommitRest
    <2>3. \/ todo' = <<>>
          \/ /\ mics = {}
             /\ todo' = <<"commit_running", "commit_phase", "notify", "on_start", "started">>
          \/ /\ mics # {}
             /\ todo' = <<"commit_running", "commit_phase", "notify", "processor_on",
                          "on_start", "started">>
      BY <1>1, <2>1 DEF LoopLeaves, Loop, FinishPhase, FinishGeneration, Finish, CommitRunning,
         CommitPhase, Fail, FailSpeaker, At
    <2>4. /\ "processor_off" \notin Range(todo) /\ "processor_on" \notin Range(todo)
          /\ "stop_running" \notin Range(todo) /\ "processor_off" \notin Range(todo')
      BY <2>2, <2>3 DEF Range
    <2>5. /\ "processor_on" \in Range(todo') => mics # {}
          /\ todo' # <<>> => mics = {} \/ "processor_on" \in Range(todo')
      BY <2>3 DEF Range
    <2>6. ~At("finish_generation")' /\ ~At("finish")'
      BY <2>3 DEF At
    <2>7. At("commit_running")' \/ At("commit_phase")' => mics = {} \/ "processor_on" \in Range(todo')
      BY <2>5 DEF At
    <2>8. QED
      BY <1>2, <2>1, <2>4, <2>5, <2>6, <2>7, NothingEnds
         DEF ListenInv, FailureStands, ProcessorInv, Pending
  <1>8. CASE CommitRunning \/ CommitPhase
    <2>1. /\ todo # <<>> /\ Head(todo) \in {"commit_running", "commit_phase"}
          /\ todo' = <<>> \o Tail(todo)
          /\ CommitRunning => sh'.phase = sh.phase
          /\ At("commit_running") \/ At("commit_phase")
      BY <1>0, <1>8 DEF CommitRunning, CommitPhase, At, Then, StateTyped, Shared
    <2>2. /\ Range(todo) = {Head(todo)} \cup Range(Tail(todo))
          /\ todo' = Tail(todo)
      <3> DEFINE steps == <<>>
      <3>1. steps \in Seq(MainLabels) /\ steps = <<>> /\ todo' = steps \o Tail(todo)
        BY <2>1
      <3> HIDE DEF steps
      <3>2. QED
        BY <2>1, <3>1, Stacked
    <2>3. Pending("processor_on")' <=> Pending("processor_on")
      BY <2>1, <2>2 DEF Pending
    <2>4. /\ todo' \in CommitRest \cup {<<"notify", "on_start", "started">>,
                                        <<"notify", "processor_on", "on_start", "started">>}
      BY <1>1, <2>1 DEF LoopLeaves, Loop, FinishPhase, FinishGeneration, Finish, Commit, Fail,
         FailSpeaker, At
    <2>5. "processor_off" \notin Range(todo')
      BY <2>4 DEF CommitRest, Range
    <2>6. "processor_off" \notin Range(todo)
      BY <2>1, <2>2, <2>5
    <2>7. ~At("finish_generation")' /\ ~At("finish")'
      BY <2>4 DEF CommitRest, At
    <2>8. mics = {} \/ Pending("processor_on")
      BY <2>1 DEF ListenInv, ProcessorInv
    <2>9. QED
      BY <1>2, <2>3, <2>5, <2>6, <2>7, <2>8, NothingEnds
         DEF ListenInv, FailureStands, ProcessorInv, Pending
  <1>9. CASE Fail \/ FailSpeaker
    <2>1. /\ todo # <<>> /\ Head(todo) \in {"fail", "fail_speaker"}
          /\ sh'.phase = sh.phase /\ sh'.running = sh.running
      BY <1>0, <1>9 DEF Fail, FailSpeaker, At, StateTyped, Shared
    <2>2. \/ todo = <<"fail", "fail_speaker", "processor_off", "update", "on_idle">>
          \/ todo = <<"fail_speaker", "processor_off", "update", "on_idle">>
      BY <1>3, <2>1 DEF LoopSteps, LoopStacks, CommitRest
    <2>3. \/ todo' = <<"fail_speaker", "processor_off", "update", "on_idle">>
          \/ todo' = <<"on_speaker_idle", "processor_off", "update", "on_idle">>
          \/ todo' = <<"processor_off", "update", "on_idle">>
      BY <1>1, <2>1 DEF LoopLeaves, Loop, FinishPhase, FinishGeneration, Finish, Commit,
         CommitRunning, CommitPhase, At
    <2>4. /\ "processor_off" \in Range(todo') /\ "processor_on" \notin Range(todo')
      BY <2>3 DEF Range
    <2>5. ~Ends(todo)
      BY <2>2 DEF Ends
    <2>6. mics = {} \/ sh.phase # "RUNNING"
      BY <2>5 DEF ListenInv, ProcessorInv
    <2>7. ~At("finish_generation")' /\ ~At("finish")' /\ ~At("commit_running")' /\ ~At("commit_phase")'
      BY <2>3 DEF At
    <2>8. QED
      BY <1>2, <2>1, <2>4, <2>6, <2>7 DEF ListenInv, FailureStands, ProcessorInv, Pending
  <1>10. QED
    BY <1>4, <1>5, <1>6, <1>7, <1>8, <1>9 DEF LoopStep

\* Calls of the environment.
LEMMA RequestListens ==
    ASSUME TypeOK, TypeOK', ListenInv, Request
    PROVE  ListenInv'
  <1>1. todo = <<>> /\ RequestLeaves
    BY RequestPushes
  <1>2. UNCHANGED <<sh, outside>>
    BY DEF Request, CallMain, RegisterMicConsumer, UnregisterMicConsumer
  <1>3. Range(todo) = {}
    BY <1>1 DEF Range
  <1>4. \/ UNCHANGED mics
        \/ mics # {} /\ mics' # {}
        \/ mics' = {}
        \/ mics = {} /\ mics' # {}
    OBVIOUS
  <1>5. /\ ~At("finish_generation")' /\ ~At("finish")'
        /\ ~At("commit_running")' /\ ~At("commit_phase")'
    BY <1>1 DEF RequestLeaves, AllCalls, At
  <1>6. CASE mics' = {} /\ mics # {}
    <2>1. todo' = <<"on_mic_idle", "processor_off", "stop_if_silent", "update">>
      BY <1>1, <1>6 DEF RequestLeaves
    <2>2. "processor_off" \in Range(todo') /\ "processor_on" \notin Range(todo')
      BY <2>1 DEF Range
    <2>3. QED
      BY <1>5, <1>6, <2>2 DEF ListenInv, FailureStands, ProcessorInv, Pending
  <1>7. CASE mics = {} /\ mics' # {}
    <2>1. todo' = IF sh.running THEN <<"on_mic_start", "processor_on", "update">>
                  ELSE <<"on_mic_start", "start", "update">>
      BY <1>1, <1>7 DEF RequestLeaves
    <2>2. /\ "processor_off" \notin Range(todo')
          /\ sh.running => "processor_on" \in Range(todo')
      BY <2>1 DEF Range
    <2>3. QED
      BY <1>2, <1>5, <1>7, <2>2, NothingEnds DEF ListenInv, FailureStands, ProcessorInv, Pending
  <1>8. CASE (mics = {}) <=> (mics' = {})
    <2>1. \/ \E call \in AllCalls \ {"register", "unregister"} : todo' = <<call>>
          \/ todo' \in {<<>>, <<"start">>}
          \/ mics' = {} /\ todo' = <<"on_mic_idle", "processor_off", "stop_if_silent", "update">>
      BY <1>1, <1>8 DEF RequestLeaves
    <2>2. /\ "processor_on" \notin Range(todo')
          /\ "processor_off" \notin Range(todo') \/ mics' = {}
      BY <2>1 DEF Range, AllCalls
    <2>3. QED
      BY <1>2, <1>3, <1>5, <1>8, <2>2, NothingEnds
         DEF ListenInv, FailureStands, ProcessorInv, Pending
  <1>9. QED
    BY <1>6, <1>7, <1>8

\* Every step keeps what the processor's state rests on.
LEMMA ListenInduction ==
    TypeOK /\ TypeOK' /\ StackInv /\ OpenInv /\ ListenInv /\ [Next]_vars => ListenInv'
  <1> SUFFICES ASSUME TypeOK, TypeOK', StackInv, OpenInv, ListenInv, [Next]_vars
               PROVE  ListenInv'
    OBVIOUS
  <1>1. CASE MainStep
    BY <1>1, CallListens, LoopListens
  <1>2. CASE Request
    BY <1>2, RequestListens
  <1>3. CASE Audio \/ Player
    BY <1>3, OthersStart DEF TypeOK, ListenInv, FailureStands, ProcessorInv, Pending, At
  <1>4. CASE UNCHANGED vars
    BY <1>4 DEF vars, ListenInv, FailureStands, ProcessorInv, Pending, At
  <1>5. QED
    BY <1>1, <1>2, <1>3, <1>4 DEF Next, Main

\* In a running stack the processor works exactly when someone listens, with
\* every fault, every automation and the player: a stop() that puts it to sleep
\* ends the session in the same call, and a failure handled late finds no
\* session running.
THEOREM ProcessorIsRight == Spec => []ProcessorMatches
  <1>1. Init => ListenInv /\ OpenInv
    BY DEF Init, ListenInv, FailureStands, ProcessorInv, Pending, At, Ends, Range, OpenInv,
       ReadyIsOpen, OpenedAsPublished
  <1>2. ListenInv /\ TypeOK => ProcessorMatches
    BY DEF ListenInv, ProcessorInv, Pending, Range, ProcessorMatches, TypeOK, StateTyped, Outside
  <1>3. QED
    BY <1>1, <1>2, StackAlways, OpenInduction, ListenInduction, PTL DEF Spec
-----------------------------------------------------------------------------
(* is_idle() tells the truth.                                              *)

\* Steps from the load of the phase to the store of STARTING, and the last two
\* of them, which may be reached with the idle flag of the park before; steps
\* at which an opening is in progress; steps with no opening or closing.
Deciding == {"open_generation", "open_starting"}
Serving == {"service_running", "service_requested", "service_generation", "service_teardown",
            "open_requested"} \cup Deciding
InOpening == {"open", "open_current", "open_current_generation", "open_ready", "open_abort",
              "open_aborted", "publish_generation", "publish_phase"}
Resting == {"publish_event", "park", "park_running", "park_phase", "park_requested",
            "park_stopped", "wait", "top", "service_phase", "session_setup", "session", "frame",
            "frame_rejected", "frame_desync"}
Gone == {"STOPPED", "STARTING"}
Held == {"READY", "COMMITTING", "RUNNING"}

\* What is not prepared has no handles; the task is not idle while it opens,
\* nor between closing and its next decision.
HandlesFreed == hw.state = "UNPREPARED" => ~hw.handles
NotIdle ==
    pc \in (Opening \ {"open_starting"}) \cup {"close_done", "close_publish", "close_event"}
        => ~hw.taskIdle

\* stop() publishes its barrier and its generation with the request taken back.
Revoked == At("stop_teardown") \/ At("stop_generation") => ~req.start

\* The decision to open is for a live request, or one that a barrier follows or
\* the next step of main renews; or it will be not to open, for what the task
\* has loaded is an answer to the requested generation.
Settled ==
    \/ task.phase \in Held
    \/ task.phase = "FAILED" /\ hw.readyGeneration = req.generation
Answered ==
    pc \in Deciding /\ hw.taskIdle =>
        \/ req.start \/ sh.teardownPending \/ At("stop_teardown") \/ At("start_request")
        \/ pc = "open_generation" /\ Settled /\ ~At("stop_generation")

\* The phase the task has loaded, against the phase now.
PhaseLoaded ==
    /\ pc \in Serving \cup {"close_event"} /\ sh.phase \in Gone => task.phase \in Gone
    /\ pc \in Serving /\ hw.taskIdle /\ task.phase \in Gone => sh.phase # "FAILED"
    /\ pc \in InOpening => sh.phase # "FAILED"
    /\ pc = "open_starting" =>
           /\ task.phase \notin Held
           /\ task.phase = "FAILED" => hw.readyGeneration < req.generation

\* Main has seen FAILED with the request live.  From then on what the audio task
\* publishes for the requested generation is READY or FAILED, so that it does
\* not decide, while it counts as idle, to open for that generation again.
FailureSeen ==
    /\ At("finish_generation") \/ At("finish") \/ At("fail")
    /\ seen.phase = "FAILED" /\ req.start
FailureHolds == At("fail") => FailureSeen /\ seen.generation = req.generation
AnswerStands ==
    FailureSeen =>
        /\ hw.readyGeneration = req.generation =>
               /\ pc \in Serving /\ hw.taskIdle => task.phase \notin Gone
               /\ pc \in Resting => sh.phase \notin Gone
               /\ pc = "publish_phase" => task.phase \notin Gone
        /\ task.generation = req.generation =>
               /\ pc \in {"open_abort", "open_aborted"} => ~task.opened
               /\ pc = "publish_generation" => task.phase \notin Gone

\* What the task knows, and how main's steps lie, hold in every state; what
\* covers a decision to open holds unless a restart of the player has met it.
TaskInv == HandlesFreed /\ NotIdle /\ PhaseLoaded
RequestInv == Revoked /\ Answered /\ FailureHolds /\ AnswerStands
IdleInv == TaskInv /\ Nested(todo) /\ (raced \/ RequestInv)

\* The steps of stop() and start() that publish are on top when they are due.
LEMMA Publishes ==
    ASSUME MainStep
    PROVE  /\ At("start_generation") \/ At("stop_generation") => NextGeneration
           /\ At("stop_teardown") => StopTeardown
           /\ At("start_request") => StartRequest
           /\ At("stop") => StopTake
  BY DEF At, MainStep, StartCheck, NextGeneration, StartRequest, StopTake, StopTeardown,
     StopSpeakerRunning, StopRunning, Notify, UpdateRuntimeState, StopIfSilent, FireTrigger,
     SetProcessingActive, StartSpeaker, SpeakerIfRunning, SpeakerRunning, StopSpeaker,
     StopSpeakerReset, Started, Loop, FinishPhase, FinishGeneration, Finish, Commit, CommitRunning,
     CommitPhase, Fail, FailSpeaker, Triggers

\* What main's steps change of the request.
LEMMA MainRequests ==
    ASSUME StateTyped, MainStep
    PROVE  /\ req'.start = req.start \/ StartRequest \/ StopTake \/ Fail
           /\ StartRequest => req'.start
           /\ StopTake \/ Fail => ~req'.start
           /\ req'.generation = req.generation \/ (NextGeneration /\ req'.generation = req.generation + 1)
           /\ sh.teardownPending => sh'.teardownPending
           /\ StopTeardown => sh'.teardownPending
  <1> USE DEF StateTyped, Requests, Shared
  <1>1. CASE UNCHANGED <<req, sh>> /\ ~StopTeardown /\ ~StartRequest /\ ~StopTake /\ ~Fail
    BY <1>1
  <1>2. CASE NextGeneration
    BY <1>2 DEF NextGeneration, StopTeardown, StartRequest, StopTake, Fail, At
  <1>3. CASE StartRequest
    BY <1>3 DEF StartRequest, StopTeardown, StopTake, Fail, At
  <1>4. CASE StopTake
    BY <1>4 DEF StopTake, StopTeardown, StartRequest, Fail, At
  <1>5. CASE StopTeardown
    BY <1>5 DEF StopTeardown, StartRequest, StopTake, Fail, At
  <1>6. CASE Fail
    BY <1>6 DEF Fail, StopTeardown, StartRequest, StopTake, At
  <1>7. CASE StopSpeakerRunning
    BY <1>7 DEF StopSpeakerRunning, StopTeardown, StartRequest, StopTake, Fail, At
  <1>8. CASE StartSpeaker
    BY <1>8 DEF StartSpeaker, StopTeardown, StartRequest, StopTake, Fail, At
  <1>9. CASE StopSpeaker
    BY <1>9 DEF StopSpeaker, StopTeardown, StartRequest, StopTake, Fail, At
  <1>10. CASE StopRunning \/ Notify \/ SpeakerRunning \/ StopSpeakerReset \/ Loop
    BY <1>10 DEF StopRunning, Notify, SpeakerRunning, StopSpeakerReset, Loop,
       StopTeardown, StartRequest, StopTake, Fail, At
  <1>11. CASE Commit \/ CommitRunning \/ CommitPhase \/ FailSpeaker
    BY <1>11 DEF Commit, CommitRunning, CommitPhase, FailSpeaker,
       StopTeardown, StartRequest, StopTake, Fail, At
  <1>12. CASE UNCHANGED <<req, sh>>
    BY <1>1, <1>3, <1>4, <1>5, <1>6, <1>12
  <1>13. QED
    BY <1>2, <1>3, <1>4, <1>5, <1>6, <1>7, <1>8, <1>9, <1>10, <1>11, <1>12
       DEF MainStep, StartCheck, UpdateRuntimeState, StopIfSilent, FireTrigger, SetProcessingActive,
           SpeakerIfRunning, Started, FinishPhase, FinishGeneration, Finish

\* A stack of a call with its caller's rest below it.
LEMMA NestedJoin ==
    ASSUME NEW q \in Seq(MainLabels), q # <<>>, Nested(q),
           NEW s \in Seq(MainLabels), Nested(s),
           \A i \in DOMAIN s : i = 1 => s[i] # "stop_generation",
           s # <<>> => Head(q) \notin {"stop_teardown", "start_generation"},
           NEW r, r = s \o Tail(q)
    PROVE  /\ Nested(r)
           /\ r # <<>> /\ Head(r) = "stop_generation" => Head(q) = "stop_teardown"
           /\ r # <<>> /\ Head(r) = "stop_teardown" => s # <<>> /\ s[1] = "stop_teardown"
           /\ s = <<>> /\ Head(q) = "start_generation" => r # <<>> /\ Head(r) = "start_request"
  <1>1. /\ Tail(q) \in Seq(MainLabels) /\ Len(Tail(q)) = Len(q) - 1 /\ Len(q) \in Nat \ {0}
        /\ \A i \in 1..Len(q) - 1 : Tail(q)[i] = q[i + 1]
        /\ DOMAIN q = 1..Len(q) /\ Head(q) = q[1]
    BY HeadTailProperties
  <1> DEFINE t == Tail(q)
  <1>2. t \in Seq(MainLabels) /\ Len(t) = Len(q) - 1 /\ \A i \in 1..Len(q) - 1 : t[i] = q[i + 1]
    BY <1>1
  <1>3. r = s \o t
    OBVIOUS
  <1> HIDE DEF t
  <1>4. /\ r \in Seq(MainLabels) /\ Len(r) = Len(s) + Len(t) /\ DOMAIN r = 1..Len(r)
        /\ \A i \in 1..Len(s) + Len(t) : r[i] = IF i <= Len(s) THEN s[i] ELSE t[i - Len(s)]
    <2>1. \A u, v \in Seq(MainLabels) :
            /\ u \o v \in Seq(MainLabels)
            /\ Len(u \o v) = Len(u) + Len(v)
            /\ \A i \in 1..Len(u)+Len(v) :
                   (u \o v)[i] = IF i <= Len(u) THEN u[i] ELSE v[i - Len(u)]
      BY ConcatProperties
    <2>2. t \in Seq(MainLabels) =>
            /\ s \o t \in Seq(MainLabels)
            /\ Len(s \o t) = Len(s) + Len(t)
            /\ \A i \in 1..Len(s)+Len(t) :
                   (s \o t)[i] = IF i <= Len(s) THEN s[i] ELSE t[i - Len(s)]
      BY <2>1
    <2>3. DOMAIN r = 1..Len(r)
      BY <1>2, <1>3, <2>2
    <2>4. QED
      BY <1>2, <1>3, <2>2, <2>3
  <1>5. Len(s) \in Nat /\ DOMAIN s = 1..Len(s) /\ (Len(s) = 0 <=> s = <<>>)
    OBVIOUS
  <1>6. ASSUME NEW i \in 1..Len(r), i > Len(s)
        PROVE  i - Len(s) + 1 \in 2..Len(q) /\ r[i] = q[i - Len(s) + 1]
    <2>1. i - Len(s) \in 1..Len(q) - 1
      BY <1>1, <1>2, <1>4, <1>5, <1>6
    <2>2. r[i] = t[i - Len(s)]
      BY <1>1, <1>2, <1>4, <1>5, <1>6
    <2>3. QED
      BY <1>1, <1>2, <1>5, <2>1, <2>2
  <1>7. ASSUME NEW i \in 1..Len(r), i <= Len(s)
        PROVE  i \in DOMAIN s /\ r[i] = s[i]
    BY <1>2, <1>4, <1>5, <1>7
  <1>8. ASSUME NEW j \in 2..Len(q)
        PROVE  /\ q[j] \notin {"stop_teardown", "start_generation"}
               /\ q[j] = "stop_generation" => j = 2 /\ Head(q) = "stop_teardown"
    BY <1>1 DEF Nested
  <1>9. r # <<>> => 1 \in 1..Len(r) /\ Head(r) = r[1]
    BY <1>4
  <1>10. Nested(r)
    <2> SUFFICES ASSUME NEW i \in 1..Len(r)
                 PROVE  /\ r[i] \in {"stop_teardown", "start_generation"} => i = 1
                        /\ r[i] = "stop_generation" => i = 1 \/ (i = 2 /\ r[1] = "stop_teardown")
                        /\ r[i] = "start_generation" => 2 \in DOMAIN r /\ r[2] = "start_request"
      BY <1>4 DEF Nested
    <2>1. CASE i <= Len(s)
      <3>1. i \in DOMAIN s /\ r[i] = s[i]
        BY <1>7, <2>1
      <3>2. 1 \in 1..Len(r) /\ 1 <= Len(s)
        BY <1>5, <2>1
      <3>3. r[1] = s[1]
        BY <1>7, <3>2
      <3>4. 2 \in DOMAIN s => 2 \in 1..Len(r) /\ 2 <= Len(s)
        BY <1>2, <1>1, <1>4, <1>5
      <3>5. 2 \in DOMAIN s => 2 \in DOMAIN r /\ r[2] = s[2]
        BY <1>4, <1>7, <3>4
      <3>6. QED
        BY <3>1, <3>3, <3>5 DEF Nested
    <2>2. CASE i > Len(s)
      <3>1. i - Len(s) + 1 \in 2..Len(q) /\ r[i] = q[i - Len(s) + 1]
        BY <1>6, <2>2
      <3>2. r[i] \notin {"stop_teardown", "start_generation"}
        BY <1>8, <3>1
      <3>3. r[i] = "stop_generation" => i - Len(s) + 1 = 2 /\ Head(q) = "stop_teardown"
        BY <1>8, <3>1
      <3>4. r[i] = "stop_generation" => i = 1
        BY <1>5, <3>3
      <3>5. QED
        BY <3>2, <3>4
    <2>3. QED
      BY <1>4, <1>5, <2>1, <2>2
  <1>11. CASE s = <<>>
    <2>1. ASSUME r # <<>>
          PROVE  2 \in 2..Len(q) /\ Head(r) = q[2]
      <3>1. 1 \in 1..Len(r) /\ 1 > Len(s) /\ Len(s) = 0
        BY <1>5, <1>9, <1>11, <2>1
      <3>2. 1 - Len(s) + 1 = 2
        BY <3>1
      <3>3. QED
        BY <1>6, <1>9, <2>1, <3>1, <3>2
    <2>2. Head(q) = "start_generation" => 2 \in DOMAIN q /\ q[2] = "start_request"
      BY <1>1 DEF Nested
    <2>3. 2 \in DOMAIN q => r # <<>>
      BY <1>1, <1>2, <1>4, <1>5, <1>11
    <2>4. QED
      BY <1>8, <1>10, <2>1, <2>2, <2>3
  <1>12. CASE s # <<>>
    <2>1. r # <<>> /\ 1 \in 1..Len(r) /\ 1 <= Len(s) /\ 1 \in DOMAIN s
      BY <1>1, <1>2, <1>4, <1>5, <1>12
    <2>2. Head(r) = s[1]
      BY <1>7, <1>9, <2>1
    <2>3. QED
      BY <1>10, <1>12, <2>1, <2>2
  <1>13. QED
    BY <1>11, <1>12

\* What a step leaves of the publications of stop() and start().
LEMMA StepNested ==
    ASSUME TypeOK, StackInv, Nested(todo), MainStep
    PROVE  /\ Nested(todo')
           /\ At("stop_generation")' => StopTeardown
           /\ At("stop_teardown")' => StopTake
           /\ At("start_generation") => At("start_request")'
  <1>0. todo \in Seq(MainLabels)
    BY DEF TypeOK
  <1>1. CASE LoopStep
    <2>1. LoopLeaves
      BY <1>1, LoopPushes DEF StackInv
    <2>2. todo = <<>> \/ Head(todo) # "start_generation"
      BY <1>1 DEF LoopStep, Loop, FinishPhase, FinishGeneration, Finish, Commit, CommitRunning,
         CommitPhase, Fail, FailSpeaker, At
    <2>3. /\ todo' # <<>> => Head(todo') \notin {"stop_generation", "stop_teardown"}
          /\ Nested(todo')
      BY <2>1 DEF LoopLeaves, CommitRest, Nested
    <2>4. QED
      BY <2>2, <2>3 DEF At
  <1>2. CASE NextGeneration \/ StopTeardown
    <2>1. todo # <<>> /\ todo' = <<>> \o Tail(todo)
      BY <1>2 DEF NextGeneration, StopTeardown, Then, At
    <2>2. Nested(<<>>) /\ <<>> \in Seq(MainLabels) /\ \A i \in DOMAIN <<>> : i # 1
      BY DEF Nested
    <2>3. /\ Nested(todo')
          /\ todo' # <<>> /\ Head(todo') = "stop_generation" => Head(todo) = "stop_teardown"
          /\ ~(todo' # <<>> /\ Head(todo') = "stop_teardown")
          /\ Head(todo) = "start_generation" => todo' # <<>> /\ Head(todo') = "start_request"
      BY <1>0, <2>1, <2>2, NestedJoin
    <2>4. QED
      BY <2>1, <2>3, Publishes DEF At
  <1>3. CASE ~LoopStep /\ ~NextGeneration /\ ~StopTeardown
    <2>1. todo # <<>> /\ Head(todo) \notin {"stop_teardown", "start_generation", "stop_generation"}
      BY <1>3, CallPushes, Publishes DEF Pushes, At
    <2>2. PICK steps : Orderly(steps) /\ todo' = steps \o Tail(todo)
      BY <1>3, CallPushes DEF Pushes
    <2>3. /\ steps \in Seq(MainLabels) /\ Nested(steps)
          /\ \A i \in DOMAIN steps : i = 1 => steps[i] # "stop_generation"
          /\ steps # <<>> /\ steps[1] = "stop_teardown" => StopTake
      BY <2>2 DEF Orderly
    <2>4. /\ Nested(todo')
          /\ todo' # <<>> /\ Head(todo') = "stop_generation" => Head(todo) = "stop_teardown"
          /\ todo' # <<>> /\ Head(todo') = "stop_teardown" => steps # <<>> /\ steps[1] = "stop_teardown"
      BY <1>0, <2>1, <2>2, <2>3, NestedJoin
    <2>5. QED
      BY <2>1, <2>3, <2>4 DEF At
  <1>4. QED
    BY <1>1, <1>2, <1>3

\* What finish_audio_lifecycle_ has seen, main keeps until it has acted on it.
LEMMA StepSees ==
    ASSUME TypeOK, TypeOK', StackInv, MainStep
    PROVE  /\ At("fail")' => /\ Finish /\ seen.phase = "FAILED"
                             /\ req.start /\ seen.generation = req.generation
           /\ At("finish")' => FinishGeneration
           /\ At("finish_generation")' => FinishPhase
  <1>0. todo \in Seq(MainLabels)
    BY DEF TypeOK
  <1>1. CASE LoopStep
    <2>1. LoopLeaves
      BY <1>1, LoopPushes DEF StackInv
    <2>2. CASE Finish
      <3>1. todo = <<"finish">>
        <4>1. todo # <<>> /\ Head(todo) = "finish"
          BY <2>2 DEF Finish, At
        <4>2. todo \in LoopStacks
          BY <4>1, LoopOwns DEF StackInv, LoopSteps
        <4>3. QED
          BY <4>1, <4>2 DEF LoopStacks, CommitRest
      <3>2. CASE req.start /\ seen.generation = req.generation
        BY <2>1, <2>2, <3>2 DEF LoopLeaves, At, Loop, FinishPhase, FinishGeneration, Finish, Commit,
           CommitRunning, CommitPhase, Fail, FailSpeaker
      <3>3. CASE ~(req.start /\ seen.generation = req.generation)
        <4>1. todo' = (<<>> \o <<>>) \o Tail(todo)
          BY <2>2, <3>3 DEF Finish, Then, When
        <4>2. Tail(todo) = <<>>
          BY <3>1
        <4>3. \A q \in Seq(MainLabels) : <<>> \o q = q
          BY ConcatEmptySeq
        <4>4. <<>> \in Seq(MainLabels)
          OBVIOUS
        <4>5. todo' = <<>>
          BY <4>1, <4>2, <4>3, <4>4
        <4>6. QED
          BY <4>5 DEF At
      <3>4. QED
        BY <3>2, <3>3
    <2>3. CASE ~Finish
      BY <2>1, <2>3 DEF LoopLeaves, CommitRest, At
    <2>4. QED
      BY <2>2, <2>3
  <1>2. CASE ~LoopStep
    <2>1. Range(todo') \cap LoopSteps = {}
      BY <1>2, CallPushes, CallStack
    <2>2. todo' \in Seq(MainLabels)
      BY DEF TypeOK
    <2>3. ASSUME todo' # <<>>
          PROVE  Head(todo') \in Range(todo')
      <3> DEFINE next == todo'
      <3>1. next \in Seq(MainLabels) /\ next # <<>>
        BY <2>2, <2>3
      <3> HIDE DEF next
      <3>2. Head(next) \in Range(next)
        BY <3>1 DEF Range
      <3>3. QED
        BY <3>2 DEF next
    <2>4. QED
      BY <2>1, <2>3 DEF At, LoopSteps
  <1>3. QED
    BY <1>1, <1>2

\* Main takes back its request only with a barrier to follow, or with an answer
\* that keeps the audio task from opening.
LEMMA MainAnswers ==
    ASSUME TypeOK, StackInv, CommitInv, TaskInv, Nested(todo), RequestInv, MainStep,
           UNCHANGED <<hw, pc, task>>
    PROVE  Answered'
  <1>0. StateTyped
    BY DEF TypeOK
  <1> SUFFICES ASSUME pc \in Deciding, hw.taskIdle
               PROVE  \/ req'.start \/ sh'.teardownPending
                      \/ At("stop_teardown")' \/ At("start_request")'
                      \/ pc = "open_generation" /\ Settled' /\ ~At("stop_generation")'
    BY DEF Answered
  <1>1. \/ req.start \/ sh.teardownPending \/ At("stop_teardown") \/ At("start_request")
        \/ pc = "open_generation" /\ Settled /\ ~At("stop_generation")
    BY DEF RequestInv, Answered
  <1>2. /\ At("stop_generation")' => StopTeardown
        /\ At("start_generation") => At("start_request")'
    BY StepNested
  <1>3. /\ req'.start = req.start \/ StartRequest \/ StopTake \/ Fail
        /\ StartRequest => req'.start
        /\ req'.generation = req.generation \/ NextGeneration
        /\ sh.teardownPending => sh'.teardownPending
        /\ StopTeardown => sh'.teardownPending
    BY <1>0, MainRequests
  <1>4. CASE StopTake
    <2>1. CASE req.start \/ sh.running
      <3> DEFINE steps == <<"stop_teardown", "stop_generation", "stop_speaker_running",
                            "processor_off", "stop_running", "on_idle", "notify">>
      <3>1. steps \in Seq(MainLabels) /\ steps # <<>> /\ Head(steps) = "stop_teardown"
        BY DEF MainLabels, Triggers
      <3>2. todo # <<>> /\ todo' = steps \o Tail(todo)
        BY <1>4, <2>1 DEF StopTake, Then, When, At
      <3> HIDE DEF steps
      <3>3. todo' # <<>> /\ Head(todo') = "stop_teardown"
        BY <3>1, <3>2, Stacked
      <3>4. QED
        BY <3>3 DEF At
    <2>2. CASE ~req.start /\ ~sh.running
      <3>1. ~StopTeardown /\ ~NextGeneration /\ ~At("stop_teardown") /\ ~At("start_request")
        BY <1>4 DEF StopTake, StopTeardown, NextGeneration, At
      <3>2. req'.generation = req.generation
        BY <1>3, <3>1
      <3>3. Settled => Settled'
        BY <3>2 DEF Settled
      <3>4. QED
        BY <1>1, <1>2, <1>3, <2>2, <3>1, <3>3
    <2>3. QED
      BY <2>1, <2>2
  <1>5. CASE NextGeneration
    <2>1. CASE At("start_generation")
      BY <1>2, <2>1
    <2>2. CASE At("stop_generation")
      <3>1. ~req.start /\ ~At("stop_teardown") /\ ~At("start_request")
        BY <2>2 DEF RequestInv, Revoked, At
      <3>2. QED
        BY <1>1, <1>3, <2>2, <3>1
    <2>3. QED
      BY <1>5, <2>1, <2>2 DEF NextGeneration
  <1>6. CASE Fail
    <2>1. At("fail") /\ ~StopTeardown /\ ~NextGeneration
      BY <1>6 DEF Fail, StopTeardown, NextGeneration, At
    <2>2. FailureSeen /\ seen.generation = req.generation
      BY <2>1 DEF RequestInv, FailureHolds
    <2>3. hw.readyGeneration = req.generation
      BY <1>0, <2>2 DEF CommitInv, GenerationsOrdered, StateTyped, Requests, Hardware, Results, TaskLocals
    <2>4. task.phase \notin Gone
      BY <2>2, <2>3 DEF RequestInv, AnswerStands, Serving
    <2>5. task.phase \in Phases
      BY <1>0 DEF StateTyped, TaskLocals
    <2>6. task.phase \in Held \cup {"FAILED"}
      BY <2>4, <2>5 DEF Phases, Gone, Held
    <2>7. Settled
      BY <2>3, <2>6 DEF Settled
    <2>8. pc # "open_starting"
      <3>1. pc = "open_starting" => task.phase \notin Held /\ ~(hw.readyGeneration < req.generation)
        BY <1>0, <2>3 DEF TaskInv, PhaseLoaded, StateTyped, Requests
      <3>2. QED
        BY <2>6, <3>1 DEF TaskInv, PhaseLoaded
    <2>9. Settled'
      BY <1>3, <2>1, <2>7 DEF Settled
    <2>10. QED
      BY <1>2, <2>1, <2>8, <2>9 DEF Deciding
  <1>7. CASE ~StopTake /\ ~NextGeneration /\ ~Fail
    <2>1. CASE StartRequest \/ StopTeardown
      BY <1>3, <2>1
    <2>2. CASE ~StartRequest /\ ~StopTeardown
      <3>1. ~At("stop_teardown") /\ ~At("start_request") /\ ~At("stop_generation")'
        BY <1>2, <2>2, Publishes
      <3>2. req'.start = req.start /\ req'.generation = req.generation
        BY <1>3, <1>7, <2>2
      <3>3. Settled => Settled'
        BY <3>2 DEF Settled
      <3>4. QED
        BY <1>1, <1>3, <3>1, <3>2, <3>3
    <2>3. QED
      BY <2>1, <2>2
  <1>8. QED
    BY <1>4, <1>5, <1>6, <1>7

\* What the task has loaded stays right, and main's steps stay in order.
LEMMA MainTask ==
    ASSUME TypeOK, StackInv, TaskInv, Nested(todo), MainStep, UNCHANGED <<hw, pc, task>>
    PROVE  TaskInv' /\ Nested(todo')
  <1>0. StateTyped
    BY DEF TypeOK
  <1>1. Nested(todo')
    BY StepNested
  <1>2. \/ req'.generation = req.generation
        \/ req'.generation = req.generation + 1
    BY <1>0, MainRequests
  <1>3. \/ sh'.phase = sh.phase
        \/ sh.phase = "READY" /\ sh'.phase = "COMMITTING"
        \/ sh'.phase = "RUNNING"
    BY <1>0, MainPhase
  <1>4. HandlesFreed' /\ NotIdle'
    BY DEF TaskInv, HandlesFreed, NotIdle
  <1>5. PhaseLoaded'
    <2>1. sh'.phase \in Gone => sh.phase \in Gone
      BY <1>3 DEF Gone
    <2>2. sh'.phase = "FAILED" => sh.phase = "FAILED"
      BY <1>3
    <2>3. hw.readyGeneration < req.generation => hw.readyGeneration < req'.generation
      BY <1>0, <1>2 DEF StateTyped, Hardware, Requests
    <2>4. PhaseLoaded
      BY DEF TaskInv
    <2>5. QED
      BY <2>1, <2>2, <2>3, <2>4 DEF PhaseLoaded
  <1>6. QED
    BY <1>1, <1>4, <1>5 DEF TaskInv

\* The other invariants under main's steps.
LEMMA MainRequest ==
    ASSUME TypeOK, TypeOK', StackInv, CommitInv, TaskInv, Nested(todo), RequestInv, MainStep,
           UNCHANGED <<hw, pc, task>>
    PROVE  RequestInv'
  <1>0. StateTyped
    BY DEF TypeOK
  <1>1. /\ Nested(todo')
        /\ At("stop_generation")' => StopTeardown
        /\ At("stop_teardown")' => StopTake
    BY StepNested
  <1>2. /\ req'.start = req.start \/ StartRequest \/ StopTake \/ Fail
        /\ StopTake \/ Fail => ~req'.start
        /\ \/ req'.generation = req.generation
           \/ NextGeneration /\ req'.generation = req.generation + 1
    BY <1>0, MainRequests
  <1>3. /\ At("fail")' => /\ Finish /\ seen.phase = "FAILED"
                          /\ req.start /\ seen.generation = req.generation
        /\ At("finish")' => FinishGeneration
        /\ At("finish_generation")' => FinishPhase
    BY StepSees
  <1>4. Revoked'
    <2>1. CASE At("stop_teardown")'
      BY <1>1, <1>2, <2>1 DEF Revoked
    <2>2. CASE At("stop_generation")'
      <3>1. StopTeardown /\ ~req.start
        BY <1>1, <2>2 DEF StopTeardown, RequestInv, Revoked
      <3>2. req' = req
        BY <3>1 DEF StopTeardown
      <3>3. QED
        BY <3>1, <3>2 DEF Revoked
    <2>3. QED
      BY <2>1, <2>2 DEF Revoked
  <1>5. Answered'
    BY MainAnswers
  <1>6. FailureHolds'
    <2>1. ASSUME At("fail")'
          PROVE  req' = req /\ seen' = seen
      BY <1>3, <2>1 DEF Finish
    <2>2. QED
      BY <1>3, <2>1 DEF FailureHolds, FailureSeen
  <1>7. AnswerStands'
    <2>1. CASE FinishPhase
      <3>1. req' = req /\ sh' = sh /\ seen'.phase = sh.phase
        BY <1>0, <2>1 DEF FinishPhase, StateTyped, Results
      <3>2. ASSUME sh.phase = "FAILED"
            PROVE  /\ pc \in Serving /\ hw.taskIdle => task.phase \notin Gone
                   /\ sh.phase \notin Gone
                   /\ pc \notin InOpening
        BY <3>2 DEF TaskInv, PhaseLoaded, Gone
      <3>3. CASE sh.phase = "FAILED"
        BY <3>1, <3>2, <3>3 DEF AnswerStands, InOpening
      <3>4. CASE sh.phase # "FAILED"
        BY <3>1, <3>4 DEF AnswerStands, FailureSeen
      <3>5. QED
        BY <3>3, <3>4
    <2>2. CASE ~FinishPhase
      <3>1. SUFFICES ASSUME FailureSeen'
                     PROVE  FailureSeen /\ UNCHANGED <<req, sh>>
        BY DEF RequestInv, AnswerStands
      <3>2. Finish \/ FinishGeneration
        BY <1>3, <2>2, <3>1 DEF FailureSeen
      <3>3. UNCHANGED <<req, sh>> /\ seen'.phase = seen.phase /\ (At("finish") \/ At("finish_generation"))
        BY <1>0, <3>2 DEF Finish, FinishGeneration, StateTyped, Results
      <3>4. QED
        BY <3>1, <3>3 DEF FailureSeen
    <2>3. QED
      BY <2>1, <2>2
  <1>8. QED
    BY <1>4, <1>5, <1>6, <1>7 DEF RequestInv

\* A call begins with none of the steps that publish or answer.
LEMMA RequestIdle ==
    ASSUME TaskInv, Request, UNCHANGED <<hw, pc, task>>
    PROVE  TaskInv' /\ Nested(todo') /\ (RequestInv => RequestInv')
  <1>1. todo = <<>> /\ RequestLeaves
    BY RequestPushes
  <1>2. UNCHANGED <<req, sh, seen>>
    BY DEF Request, CallMain, RegisterMicConsumer, UnregisterMicConsumer
  <1> DEFINE begins == {"start", "stop", "start_speaker", "stop_speaker", "on_mic_start",
                        "on_mic_idle"}
             calls == begins \cup {"processor_on", "processor_off", "update", "stop_if_silent"}
  <1>3. /\ todo' # <<>> => Head(todo') \in begins
        /\ \A i \in DOMAIN todo' : todo'[i] \in calls
    BY <1>1 DEF RequestLeaves, AllCalls
  <1>4. Nested(todo')
    BY <1>3 DEF Nested
  <1>5. /\ ~At("stop_teardown")' /\ ~At("stop_generation")' /\ ~At("start_request")'
        /\ ~At("fail")' /\ ~At("finish")' /\ ~At("finish_generation")'
    BY <1>3 DEF At
  <1>6. ~At("stop_teardown") /\ ~At("stop_generation") /\ ~At("start_request")
    BY <1>1 DEF At
  <1>7. TaskInv'
    BY <1>2 DEF TaskInv, HandlesFreed, NotIdle, PhaseLoaded
  <1>8. Answered => Answered'
    BY <1>2, <1>5, <1>6 DEF Answered, Settled
  <1>9. QED
    BY <1>4, <1>5, <1>7, <1>8
       DEF RequestInv, Revoked, FailureHolds, AnswerStands, FailureSeen

\* The audio task loads the phase before it closes or opens, and is not idle
\* while it does.
LEMMA AudioTask ==
    ASSUME StateTyped, GenerationsOrdered, TaskInv, Audio
    PROVE  TaskInv'
  <1> USE DEF StateTyped, Requests, Shared, Hardware, TaskLocals, TaskInv, HandlesFreed, NotIdle, PhaseLoaded,
             GenerationsOrdered, Serving, Deciding, InOpening, Gone, Held, Opening, Goto
  <1>0. UNCHANGED req
    BY DEF Audio
  <1>1. CASE Top
    BY <1>1 DEF Top
  <1>2. CASE ServicePhase
    BY <1>2 DEF ServicePhase
  <1>3. CASE ServiceRunning
    BY <1>3 DEF ServiceRunning
  <1>4. CASE ServiceRequested
    BY <1>4 DEF ServiceRequested
  <1>5. CASE ServiceGeneration
    BY <1>5 DEF ServiceGeneration
  <1>6. CASE ServiceTeardown
    BY <1>6 DEF ServiceTeardown
  <1>7. CASE Close
    BY <1>7 DEF Close, DeinitI2S
  <1>8. CASE CloseDone
    BY <1>8 DEF CloseDone
  <1>9. CASE ClosePublish
    BY <1>9 DEF ClosePublish
  <1>10. CASE CloseEvent
    BY <1>10 DEF CloseEvent
  <1>11. CASE OpenRequested
    BY <1>11 DEF OpenRequested
  <1>12. CASE OpenGeneration
    BY <1>0, <1>12 DEF OpenGeneration
  <1>13. CASE OpenStarting
    BY <1>13 DEF OpenStarting
  <1>14. CASE Open
    BY <1>14 DEF Open
  <1>15. CASE OpenCurrent
    BY <1>15 DEF OpenCurrent
  <1>16. CASE OpenCurrentGeneration
    BY <1>16 DEF OpenCurrentGeneration
  <1>17. CASE OpenAbort
    BY <1>17 DEF OpenAbort, DeinitI2S
  <1>18. CASE OpenAborted
    BY <1>18 DEF OpenAborted
  <1>19. CASE OpenReady
    BY <1>19 DEF OpenReady
  <1>20. CASE PublishGeneration
    BY <1>20 DEF PublishGeneration
  <1>21. CASE PublishPhase
    BY <1>21 DEF PublishPhase
  <1>22. CASE PublishEvent
    BY <1>22 DEF PublishEvent
  <1>23. CASE Park
    BY <1>23 DEF Park
  <1>24. CASE ParkRunning
    BY <1>24 DEF ParkRunning
  <1>25. CASE ParkPhase
    BY <1>25 DEF ParkPhase
  <1>26. CASE ParkRequested
    BY <1>26 DEF ParkRequested
  <1>27. CASE ParkStopped
    BY <1>27 DEF ParkStopped
  <1>28. CASE Wait
    BY <1>28 DEF Wait
  <1>29. CASE SessionSetup
    BY <1>29 DEF SessionSetup
  <1>30. CASE Session
    BY <1>30 DEF Session
  <1>31. CASE Frame
    BY <1>31 DEF Frame
  <1>32. CASE FrameRejected
    BY <1>32 DEF FrameRejected
  <1>33. CASE FrameDesync
    BY <1>33 DEF FrameDesync
  <1>34. QED
    BY <1>1, <1>2, <1>3, <1>4, <1>5, <1>6, <1>7, <1>8, <1>9, <1>10, <1>11, <1>12, <1>13, <1>14, <1>15,
       <1>16, <1>17, <1>18, <1>19, <1>20, <1>21, <1>22, <1>23, <1>24, <1>25, <1>26, <1>27, <1>28, <1>29, <1>30,
       <1>31, <1>32, <1>33 DEF Audio, AudioStep

\* What it publishes for the requested generation is READY or FAILED.
LEMMA AudioAnswer ==
    ASSUME StateTyped, TaskInv, AnswerStands, FailureSeen, Audio
    PROVE  AnswerStands'
  <1> USE DEF StateTyped, Requests, Shared, Hardware, TaskLocals, TaskInv, NotIdle, PhaseLoaded, AnswerStands,
             Serving, Deciding, InOpening, Resting, Gone, Held, Opening, Goto
  <1>0. UNCHANGED req /\ req.start
    BY DEF Audio, FailureSeen
  <1>1. CASE Top
    BY <1>0, <1>1 DEF Top
  <1>2. CASE ServicePhase
    BY <1>0, <1>2 DEF ServicePhase
  <1>3. CASE ServiceRunning
    BY <1>0, <1>3 DEF ServiceRunning
  <1>4. CASE ServiceRequested
    BY <1>0, <1>4 DEF ServiceRequested
  <1>5. CASE ServiceGeneration
    BY <1>0, <1>5 DEF ServiceGeneration
  <1>6. CASE ServiceTeardown
    BY <1>0, <1>6 DEF ServiceTeardown
  <1>7. CASE Close
    BY <1>0, <1>7 DEF Close, DeinitI2S
  <1>8. CASE CloseDone
    BY <1>0, <1>8 DEF CloseDone
  <1>9. CASE ClosePublish
    BY <1>0, <1>9 DEF ClosePublish
  <1>10. CASE CloseEvent
    BY <1>0, <1>10 DEF CloseEvent
  <1>11. CASE OpenRequested
    BY <1>0, <1>11 DEF OpenRequested
  <1>12. CASE OpenGeneration
    BY <1>0, <1>12 DEF OpenGeneration
  <1>13. CASE OpenStarting
    BY <1>0, <1>13 DEF OpenStarting
  <1>14. CASE Open
    BY <1>0, <1>14 DEF Open
  <1>15. CASE OpenCurrent
    BY <1>0, <1>15 DEF OpenCurrent
  <1>16. CASE OpenCurrentGeneration
    BY <1>0, <1>16 DEF OpenCurrentGeneration
  <1>17. CASE OpenAbort
    BY <1>0, <1>17 DEF OpenAbort, DeinitI2S
  <1>18. CASE OpenAborted
    BY <1>0, <1>18 DEF OpenAborted
  <1>19. CASE OpenReady
    BY <1>0, <1>19 DEF OpenReady
  <1>20. CASE PublishGeneration
    BY <1>0, <1>20 DEF PublishGeneration
  <1>21. CASE PublishPhase
    BY <1>0, <1>21 DEF PublishPhase
  <1>22. CASE PublishEvent
    BY <1>0, <1>22 DEF PublishEvent
  <1>23. CASE Park
    BY <1>0, <1>23 DEF Park
  <1>24. CASE ParkRunning
    BY <1>0, <1>24 DEF ParkRunning
  <1>25. CASE ParkPhase
    BY <1>0, <1>25 DEF ParkPhase
  <1>26. CASE ParkRequested
    BY <1>0, <1>26 DEF ParkRequested
  <1>27. CASE ParkStopped
    BY <1>0, <1>27 DEF ParkStopped
  <1>28. CASE Wait
    BY <1>0, <1>28 DEF Wait
  <1>29. CASE SessionSetup
    BY <1>0, <1>29 DEF SessionSetup
  <1>30. CASE Session
    BY <1>0, <1>30 DEF Session
  <1>31. CASE Frame
    BY <1>0, <1>31 DEF Frame
  <1>32. CASE FrameRejected
    BY <1>0, <1>32 DEF FrameRejected
  <1>33. CASE FrameDesync
    BY <1>0, <1>33 DEF FrameDesync
  <1>34. QED
    BY <1>1, <1>2, <1>3, <1>4, <1>5, <1>6, <1>7, <1>8, <1>9, <1>10, <1>11, <1>12, <1>13, <1>14, <1>15,
       <1>16, <1>17, <1>18, <1>19, <1>20, <1>21, <1>22, <1>23, <1>24, <1>25, <1>26, <1>27, <1>28, <1>29, <1>30,
       <1>31, <1>32, <1>33 DEF Audio, AudioStep

\* It decides to open for a live request, or the request is being replaced.
LEMMA AudioDecides ==
    ASSUME StateTyped, Answered, Audio
    PROVE  Answered'
  <1>0. UNCHANGED <<req, todo>>
    BY DEF Audio
  <1>1. CASE OpenRequested
    BY <1>0, <1>1 DEF OpenRequested, Answered, Deciding, Goto
  <1>2. CASE OpenGeneration
    BY <1>0, <1>2 DEF OpenGeneration, Answered, Settled, Held, Deciding, At, Goto
  <1>3. CASE ~OpenRequested /\ ~OpenGeneration
    <2>1. pc' \notin Deciding
      BY <1>3 DEF Audio, AudioStep, Top, ServicePhase, ServiceRunning, ServiceRequested, ServiceGeneration, ServiceTeardown,
         Close, CloseDone, ClosePublish, CloseEvent, OpenStarting, Open,
         OpenCurrent, OpenCurrentGeneration, OpenAbort, OpenAborted, OpenReady, PublishGeneration,
         PublishPhase, PublishEvent, Park, ParkRunning, ParkPhase, ParkRequested,
         ParkStopped, Wait, SessionSetup, Session, Frame, FrameRejected,
         FrameDesync, Deciding, Goto
    <2>2. QED
      BY <2>1 DEF Answered
  <1>4. QED
    BY <1>1, <1>2, <1>3

\* The audio task keeps what covers its decisions.
LEMMA AudioRequest ==
    ASSUME TypeOK, TaskInv, RequestInv, Audio
    PROVE  RequestInv'
  <1>1. StateTyped /\ Revoked /\ Answered /\ FailureHolds /\ AnswerStands
    BY DEF TypeOK, RequestInv
  <1>2. UNCHANGED <<req, todo, seen>>
    BY DEF Audio
  <1>3. AnswerStands'
    <2>1. CASE FailureSeen
      BY <1>1, <2>1, AudioAnswer
    <2>2. CASE ~FailureSeen
      BY <1>2, <2>2 DEF AnswerStands, FailureSeen, At
    <2>3. QED
      BY <2>1, <2>2
  <1>4. Revoked' /\ FailureHolds'
    BY <1>1, <1>2 DEF Revoked, FailureHolds, FailureSeen, At
  <1>5. QED
    BY <1>1, <1>3, <1>4, AudioDecides DEF RequestInv

\* A restart from the producer's task that meets no call and no decision to
\* open leaves what covers such a decision: it only raises the generation, once
\* the task has read it, and requests.
LEMMA PlayerRequests ==
    ASSUME TypeOK, RequestInv, ~raced', Player
    PROVE  RequestInv'
  <1>1. UNCHANGED <<hw, todo, seen, pc, task>>
    BY DEF Player
  <1>2. CASE PlayerCheck
    <2>1. UNCHANGED <<req, sh>>
      BY <1>2 DEF PlayerCheck
    <2>2. QED
      BY <1>1, <2>1 DEF RequestInv, Revoked, Answered, Settled, FailureHolds, AnswerStands,
         FailureSeen, At
  <1>3. CASE PlayerGeneration \/ PlayerRequest
    <2>1. /\ req.start => req'.start
          /\ sh'.teardownPending = sh.teardownPending
          /\ player # "idle"
      BY <1>3 DEF PlayerGeneration, PlayerRequest, TypeOK, StateTyped, Requests, Shared
    <2>2. Race(TRUE)
      BY <2>1 DEF Player
    <2>3. pc \in Deciding => todo = <<>> /\ pc = "open_starting"
      BY <1>1, <2>2 DEF Race, Deciding
    <2>4. CASE pc \in Deciding
      BY <1>1, <2>1, <2>3, <2>4 DEF RequestInv, Revoked, Answered, FailureHolds, AnswerStands,
         FailureSeen, At
    <2>5. CASE pc \notin Deciding
      <3>1. todo = <<>>
        BY <1>1, <2>2, <2>5 DEF Race, Deciding
      <3>2. QED
        BY <1>1, <2>5, <3>1 DEF RequestInv, Revoked, Answered, FailureHolds, AnswerStands,
           FailureSeen, At
    <2>6. QED
      BY <2>4, <2>5
  <1>4. QED
    BY <1>2, <1>3 DEF Player, PlayerStep

\* It raises the generation and touches neither the phase nor the hardware.
LEMMA PlayerTask ==
    ASSUME TypeOK, TaskInv, Player
    PROVE  TaskInv'
  <1>1. UNCHANGED <<hw, pc, task>>
    BY DEF Player
  <1>2. /\ sh'.phase = sh.phase
        /\ req'.generation \in Nat /\ req'.generation >= req.generation
    BY DEF Player, PlayerStep, PlayerCheck, PlayerGeneration, PlayerRequest, TypeOK, StateTyped,
       Requests, Shared
  <1>3. hw.readyGeneration < req.generation => hw.readyGeneration < req'.generation
    BY <1>2 DEF TypeOK, StateTyped, Hardware, Requests
  <1>4. QED
    BY <1>1, <1>2, <1>3 DEF TaskInv, HandlesFreed, NotIdle, PhaseLoaded

\* A race is forgotten where there is nothing to cover.
LEMMA Forgotten ==
    ASSUME NEW store \in BOOLEAN, Race(store), raced, ~raced'
    PROVE  RequestInv'
  <1>1. todo' = <<>> /\ pc' \notin Deciding
    BY DEF Race, Deciding
  <1>2. QED
    BY <1>1 DEF RequestInv, Revoked, Answered, FailureHolds, AnswerStands, FailureSeen, At

\* Every step keeps the invariant.
LEMMA IdleInduction ==
    TypeOK /\ TypeOK' /\ StackInv /\ CommitInv /\ IdleInv /\ [Next]_vars => IdleInv'
  <1> SUFFICES ASSUME TypeOK, TypeOK', StackInv, CommitInv, IdleInv, [Next]_vars
               PROVE  IdleInv'
    OBVIOUS
  <1>1. TaskInv /\ Nested(todo) /\ (raced \/ RequestInv)
    BY DEF IdleInv
  <1>2. TaskInv' /\ Nested(todo')
    <2>1. CASE Main
      BY <1>1, <2>1, MainTask, RequestIdle DEF Main
    <2>2. CASE Audio
      BY <1>1, <2>2, AudioTask DEF TypeOK, CommitInv, Audio
    <2>3. CASE Player
      BY <1>1, <2>3, PlayerTask DEF Player
    <2>4. CASE UNCHANGED vars
      BY <1>1, <2>4 DEF vars, TaskInv, HandlesFreed, NotIdle, PhaseLoaded
    <2>5. QED
      BY <2>1, <2>2, <2>3, <2>4 DEF Next
  <1>3. CASE Next /\ raced /\ ~raced'
    <2>1. PICK store \in BOOLEAN : Race(store)
      BY <1>3 DEF Next, Main, Audio, Player
    <2>2. QED
      BY <1>2, <1>3, <2>1, Forgotten DEF IdleInv
  <1>4. CASE Next /\ ~raced /\ ~raced'
    <2>1. RequestInv
      BY <1>1, <1>4
    <2>2. CASE Main
      BY <1>1, <1>2, <2>1, <2>2, MainRequest, RequestIdle DEF Main, IdleInv
    <2>3. CASE Audio
      BY <1>1, <1>2, <2>1, <2>3, AudioRequest DEF IdleInv
    <2>4. CASE Player
      BY <1>2, <1>4, <2>1, <2>4, PlayerRequests DEF IdleInv
    <2>5. QED
      BY <1>4, <2>2, <2>3, <2>4 DEF Next
  <1>5. CASE UNCHANGED vars
    BY <1>1, <1>2, <1>5 DEF vars, IdleInv, RequestInv, Revoked, Answered, Settled, FailureHolds,
       AnswerStands, FailureSeen, At
  <1>6. CASE Next /\ raced'
    BY <1>2, <1>6 DEF IdleInv
  <1>7. QED
    <2>1. raced \in BOOLEAN /\ raced' \in BOOLEAN
      BY DEF TypeOK
    <2>2. QED
      BY <1>2, <1>3, <1>4, <1>5, <1>6, <2>1 DEF IdleInv

\* is_idle() is true, where user code can ask, only with both channels released
\* and no opening begun; a decision to open can go unseen only if a restart from
\* the producer's task has met it, or the call that asks.
THEOREM IdleIsReleased == Spec => []IdleMeansReleased
  <1>1. Init => CommitInv
    BY DEF Init, CommitInv, GenerationsOrdered, DecisionHolds, At
  <1>2. Init => IdleInv
    BY DEF Init, IdleInv, TaskInv, HandlesFreed, NotIdle, PhaseLoaded, RequestInv, Nested, Revoked,
       Answered, FailureHolds, AnswerStands, FailureSeen, At, Serving, Deciding, InOpening, Opening
  <1>3. IdleInv => IdleMeansReleased
    <2> SUFFICES ASSUME IdleInv, UserRuns, IsIdle
                 PROVE  ~hw.handles /\ (pc \in Opening => pc = "open_starting" /\ raced)
      BY DEF IdleMeansReleased
    <2>1. ~At("stop_teardown") /\ ~At("start_request")
      BY DEF UserRuns, At, Triggers
    <2>2. pc = "open_starting" => raced
      BY <2>1 DEF IdleInv, RequestInv, Answered, IsIdle, Deciding
    <2>3. pc \in Opening => pc = "open_starting"
      BY DEF IdleInv, TaskInv, NotIdle, IsIdle
    <2>4. QED
      BY <2>2, <2>3 DEF IdleInv, TaskInv, HandlesFreed, IsIdle
  <1>4. Spec => []TypeInv
    BY Typing DEF TypeInv
  <1>5. TypeInv => TypeOK
    BY DEF TypeInv
  <1>6. QED
    BY <1>1, <1>2, <1>3, <1>4, <1>5, StackAlways, CommitInduction, IdleInduction, PTL DEF Spec
=============================================================================
