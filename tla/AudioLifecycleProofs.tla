------------------------ MODULE AudioLifecycleProofs ------------------------
(***************************************************************************)
(* Type correctness of AudioLifecycle for every value of its constants.    *)
(* The call stack of main needs a stronger induction than its type: only   *)
(* its first step may be a step of a commit, since finish_audio_lifecycle_ *)
(* is called by loop() alone and decides last.  CallsBelow says so, and    *)
(* AudioLifecycleSafety uses it again.                                     *)
(***************************************************************************)
EXTENDS AudioLifecycle, SequenceTheorems, TLAPS

CommitSteps == {"commit", "commit_running"}
Plain == MainLabels \ CommitSteps
CallsBelow == todo # <<>> => Tail(todo) \in Seq(Plain)

----------------------------------------------------------------------------
(* Sequences of steps.                                                     *)

\* What an action leaves on the stack under the steps it adds is what its
\* caller had still to do.
LEMMA PushTyping ==
    ASSUME CallsBelow, todo # <<>>, NEW steps \in Seq(Plain)
    PROVE  steps \o Tail(todo) \in Seq(Plain)
  BY DEF CallsBelow

\* A stack without commit steps is a stack of main's steps.
LEMMA PlainTyping ==
    ASSUME NEW steps \in Seq(Plain)
    PROVE  steps \in Seq(MainLabels) /\ (steps # <<>> => Tail(steps) \in Seq(Plain))
  BY DEF Plain

\* A finished step leaves nothing.
LEMMA EmptyTyping == <<>> \in Seq(Plain)
  OBVIOUS

\* A conditional call is a stack of plain steps if the call is.
LEMMA WhenTyping ==
    ASSUME NEW c, NEW steps \in Seq(Plain)
    PROVE  When(c, steps) \in Seq(Plain)
  BY DEF When

\* Two plain parts make a plain stack.
LEMMA CatTyping ==
    ASSUME NEW steps \in Seq(Plain), NEW more \in Seq(Plain)
    PROVE  steps \o more \in Seq(Plain)
  OBVIOUS

\* One step on top of plain ones keeps CallsBelow.
LEMMA OnTop ==
    ASSUME NEW step \in MainLabels, NEW rest \in Seq(Plain)
    PROVE  /\ <<step>> \o rest \in Seq(MainLabels)
           /\ Tail(<<step>> \o rest) \in Seq(Plain)
  <1>1. rest \in Seq(MainLabels) /\ <<step>> \in Seq(MainLabels)
    BY DEF Plain
  <1>2. <<step>> \o rest \in Seq(MainLabels)
    BY <1>1
  <1>3. Tail(<<step>> \o rest) = rest
    BY <1>1
  <1>4. QED
    BY <1>2, <1>3

----------------------------------------------------------------------------
(* The call stack of main.                                                 *)

\* Every step of main but the decision to commit and the commit itself leaves
\* no commit step behind.
LEMMA PlainStep ==
    ASSUME CallsBelow, MainStep, ~Finish, ~Commit
    PROVE  todo' \in Seq(Plain)
  <1>1. CASE StartCheck
    <2>1. <<"start_generation", "start_request">> \in Seq(Plain)
      BY DEF Plain, CommitSteps, MainLabels, Triggers
    <2>2. QED
      BY <1>1, <2>1, PushTyping, EmptyTyping DEF StartCheck, At, Then, When
  <1>2. CASE NextGeneration
    BY <1>2, PushTyping, EmptyTyping DEF NextGeneration, At, Then
  <1>3. CASE StartRequest
    <2>1. <<"notify">> \in Seq(Plain)
      BY DEF Plain, CommitSteps, MainLabels, Triggers
    <2>2. QED
      BY <1>3, <2>1, PushTyping, EmptyTyping DEF StartRequest, At, Then, When
  <1>4. CASE StopTake
    <2>1. <<"stop_teardown", "stop_generation", "stop_speaker_running",
           "processor_off", "stop_running", "on_idle", "notify">> \in Seq(Plain)
      BY DEF Plain, CommitSteps, MainLabels, Triggers
    <2>2. QED
      BY <1>4, <2>1, PushTyping, EmptyTyping DEF StopTake, At, Then, When
  <1>5. CASE StopTeardown
    BY <1>5, PushTyping, EmptyTyping DEF StopTeardown, At, Then
  <1>6. CASE StopSpeakerRunning
    <2>1. <<"on_speaker_idle", "update">> \in Seq(Plain)
      BY DEF Plain, CommitSteps, MainLabels, Triggers
    <2>2. QED
      BY <1>6, <2>1, PushTyping, EmptyTyping DEF StopSpeakerRunning, At, Then, When
  <1>7. CASE StopRunning
    BY <1>7, PushTyping, EmptyTyping DEF StopRunning, At, Then
  <1>8. CASE Notify
    BY <1>8, PushTyping, EmptyTyping DEF Notify, At, Then
  <1>9. CASE UpdateRuntimeState
    BY <1>9, PushTyping, EmptyTyping DEF UpdateRuntimeState, At, Then
  <1>10. CASE StopIfSilent
    <2>1. <<"stop">> \in Seq(Plain)
      BY DEF Plain, CommitSteps, MainLabels, Triggers
    <2>2. QED
      BY <1>10, <2>1, PushTyping, EmptyTyping DEF StopIfSilent, At, Then, When
  <1>11. CASE StartSpeaker
    <2>1. /\ <<"start">> \in Seq(Plain)
           /\ <<"speaker_if_running">> \in Seq(Plain)
      BY DEF Plain, CommitSteps, MainLabels, Triggers
    <2>2. QED
      BY <1>11, <2>1, PushTyping, EmptyTyping, CatTyping DEF StartSpeaker, At, Then, When
  <1>12. CASE SpeakerIfRunning
    <2>1. <<"speaker_running">> \in Seq(Plain)
      BY DEF Plain, CommitSteps, MainLabels, Triggers
    <2>2. QED
      BY <1>12, <2>1, PushTyping, EmptyTyping DEF SpeakerIfRunning, At, Then, When
  <1>13. CASE SpeakerRunning
    <2>1. <<"on_speaker_start", "update">> \in Seq(Plain)
      BY DEF Plain, CommitSteps, MainLabels, Triggers
    <2>2. QED
      BY <1>13, <2>1, PushTyping, EmptyTyping DEF SpeakerRunning, At, Then, When
  <1>14. CASE StopSpeaker
    <2>1. /\ <<"on_speaker_idle", "update">> \in Seq(Plain)
           /\ <<"stop_speaker_reset">> \in Seq(Plain)
      BY DEF Plain, CommitSteps, MainLabels, Triggers
    <2>2. QED
      BY <1>14, <2>1, PushTyping, EmptyTyping, CatTyping DEF StopSpeaker, At, Then, When
  <1>15. CASE StopSpeakerReset
    <2>1. <<"processor_off", "stop">> \in Seq(Plain)
      BY DEF Plain, CommitSteps, MainLabels, Triggers
    <2>2. QED
      BY <1>15, <2>1, PushTyping, EmptyTyping DEF StopSpeakerReset, At, Then, When
  <1>16. CASE FinishPhase
    BY <1>16, PushTyping, EmptyTyping DEF FinishPhase, At, Then
  <1>17. CASE FinishGeneration
    BY <1>17, PushTyping, EmptyTyping DEF FinishGeneration, At, Then
  <1>19. CASE CommitRunning
    BY <1>19, PushTyping, EmptyTyping DEF CommitRunning, At, Then
  <1>20. CASE CommitPhase
    BY <1>20, PushTyping, EmptyTyping DEF CommitPhase, At, Then
  <1>21. CASE Started
    <2>1. <<"start_speaker">> \in Seq(Plain)
      BY DEF Plain, CommitSteps, MainLabels, Triggers
    <2>2. QED
      BY <1>21, <2>1, PushTyping, EmptyTyping DEF Started, At, Then, When
  <1>22. CASE Fail
    BY <1>22, PushTyping, EmptyTyping DEF Fail, At, Then
  <1>23. CASE FailSpeaker
    <2>1. <<"on_speaker_idle">> \in Seq(Plain)
      BY DEF Plain, CommitSteps, MainLabels, Triggers
    <2>2. QED
      BY <1>23, <2>1, PushTyping, EmptyTyping DEF FailSpeaker, At, Then, When
  <1>24. CASE \E t \in Triggers : FireTrigger(t)
    <2>1. /\ <<"start">> \in Seq(Plain)
          /\ <<"stop">> \in Seq(Plain)
      BY DEF Plain, CommitSteps, MainLabels
    <2>2. PICK t \in Triggers : FireTrigger(t)
      BY <1>24
    <2>3. QED
      BY <2>1, <2>2, PushTyping, EmptyTyping DEF FireTrigger, At, Then
  <1>25. CASE \E active \in BOOLEAN : SetProcessingActive(active)
    BY <1>25, PushTyping, EmptyTyping DEF SetProcessingActive, At, Then
  <1>26. CASE Loop
    <2>1. <<"finish_phase", "finish_generation", "finish">> \in Seq(Plain)
      BY DEF Plain, CommitSteps, MainLabels
    <2>2. QED
      BY <1>26, <2>1 DEF Loop
  <1>27. QED
    BY <1>1, <1>2, <1>3, <1>4, <1>5, <1>6, <1>7, <1>8, <1>9, <1>10, <1>11, <1>12, <1>13,
       <1>14, <1>15, <1>16, <1>17, <1>19, <1>20, <1>21, <1>22, <1>23, <1>24, <1>25,
       <1>26 DEF MainStep

\* Finish puts the commit, or the failure's steps, on top of its caller's.
LEMMA FinishStack ==
    ASSUME CallsBelow, Finish
    PROVE  todo' \in Seq(MainLabels) /\ CallsBelow'
  <1>1. todo # <<>> /\ Tail(todo) \in Seq(Plain)
    BY DEF Finish, At, CallsBelow
  <1>2. CASE req.start /\ seen.generation = req.generation /\ seen.phase = "READY"
    <2>1. todo' = <<"commit">> \o Tail(todo)
      BY <1>1, <1>2 DEF Finish, Then, When
    <2>2. QED
      BY <1>1, <2>1, OnTop DEF CallsBelow, MainLabels
  <1>3. CASE ~(req.start /\ seen.generation = req.generation /\ seen.phase = "READY")
    <2> DEFINE failing == When(req.start /\ seen.generation = req.generation
                                 /\ seen.phase = "FAILED",
                               <<"fail", "fail_speaker", "processor_off", "update", "on_idle">>)
    <2>1. failing \in Seq(Plain)
      <3>1. <<"fail", "fail_speaker", "processor_off", "update", "on_idle">> \in Seq(Plain)
        BY DEF Plain, CommitSteps, MainLabels, Triggers
      <3>2. QED
        BY <3>1, WhenTyping
    <2>2. todo' = (<<>> \o failing) \o Tail(todo)
      BY <1>3 DEF Finish, Then, When
    <2> HIDE DEF failing
    <2>3. todo' \in Seq(Plain)
      BY <1>1, <2>1, <2>2
    <2>4. QED
      BY <2>3, PlainTyping DEF CallsBelow
  <1>4. QED
    BY <1>2, <1>3

\* A commit that wins its compare_exchange goes on to publish running.
LEMMA CommitStack ==
    ASSUME CallsBelow, Commit
    PROVE  todo' \in Seq(MainLabels) /\ CallsBelow'
  <1>1. todo # <<>> /\ Tail(todo) \in Seq(Plain)
    BY DEF Commit, At, CallsBelow
  <1>2. CASE sh.phase = "READY"
    <2> DEFINE on == When(mics # {}, <<"processor_on">>)
               more == <<"commit_phase", "notify">> \o on \o <<"on_start", "started">>
    <2>1. on \in Seq(Plain)
      <3>1. <<"processor_on">> \in Seq(Plain)
        BY DEF Plain, CommitSteps, MainLabels
      <3>2. QED
        BY <3>1, WhenTyping
    <2>2. todo' = (<<"commit_running", "commit_phase", "notify">> \o on
                   \o <<"on_start", "started">>) \o Tail(todo)
      BY <1>2 DEF Commit, Then, When
    <2> HIDE DEF on
    <2>3. <<"commit_phase", "notify">> \in Seq(Plain) /\ <<"on_start", "started">> \in Seq(Plain)
      BY DEF Plain, CommitSteps, MainLabels, Triggers
    <2>4. more \in Seq(Plain)
      BY <2>1, <2>3
    <2>5. <<"commit_running", "commit_phase", "notify">> \o on \o <<"on_start", "started">>
          = <<"commit_running">> \o more
      BY <2>1, <2>3
    <2> HIDE DEF more
    <2>6. todo' = <<"commit_running">> \o (more \o Tail(todo))
      <3>1. todo' = (<<"commit_running">> \o more) \o Tail(todo)
        BY <2>2, <2>5
      <3>2. /\ more \in Seq(MainLabels)
            /\ Tail(todo) \in Seq(MainLabels)
            /\ <<"commit_running">> \in Seq(MainLabels)
        BY <1>1, <2>4, PlainTyping DEF MainLabels
      <3>3. QED
        BY <3>1, <3>2, ConcatAssociative
    <2>7. more \o Tail(todo) \in Seq(Plain)
      BY <1>1, <2>4
    <2>8. QED
      BY <2>6, <2>7, OnTop DEF CallsBelow, MainLabels
  <1>3. CASE sh.phase # "READY"
    <2>1. todo' \in Seq(Plain)
      BY <1>1, <1>3 DEF Commit, Then, When
    <2>2. QED
      BY <2>1, PlainTyping DEF CallsBelow
  <1>4. QED
    BY <1>2, <1>3

\* Whatever main does, its callers have no commit left to do.
LEMMA StackStep ==
    ASSUME CallsBelow, MainStep
    PROVE  todo' \in Seq(MainLabels) /\ CallsBelow'
  <1>1. CASE ~Finish /\ ~Commit
    <2>1. todo' \in Seq(Plain)
      BY <1>1, PlainStep
    <2>2. QED
      BY <2>1, PlainTyping DEF CallsBelow
  <1>2. QED
    BY <1>1, FinishStack, CommitStack

\* A call from the environment finds no call in progress.
LEMMA RequestStack ==
    ASSUME Request
    PROVE  todo' \in Seq(Plain)

  <1>1. ASSUME NEW call \in Calls \ {"register", "unregister"}, CallMain(call)
        PROVE  todo' \in Seq(Plain)
    BY <1>1, CallAssumption DEF CallMain, Plain, CommitSteps, MainLabels, AllCalls
  <1>2. ASSUME NEW token \in Tokens, RegisterMicConsumer(token)
        PROVE  todo' \in Seq(Plain)
    <2>1. /\ <<"on_mic_start">> \in Seq(Plain)
          /\ <<"processor_on">> \in Seq(Plain)
          /\ <<"start">> \in Seq(Plain)
          /\ <<"update">> \in Seq(Plain)
      BY DEF Plain, CommitSteps, MainLabels, Triggers
    <2>2. QED
      BY <1>2, <2>1, WhenTyping, CatTyping DEF RegisterMicConsumer
  <1>3. ASSUME NEW token \in Tokens, UnregisterMicConsumer(token)
        PROVE  todo' \in Seq(Plain)
    <2>1. <<"on_mic_idle", "processor_off", "stop_if_silent", "update">> \in Seq(Plain)
      BY DEF Plain, CommitSteps, MainLabels, Triggers
    <2>2. QED
      BY <1>3, <2>1, WhenTyping DEF UnregisterMicConsumer
  <1>4. QED
    BY <1>1, <1>2, <1>3 DEF Request

----------------------------------------------------------------------------
(* The other variables.                                                    *)

\* A step of main keeps the type of every variable but its stack.
LEMMA MainTyping ==
    ASSUME StateTyped, MainStep, UNCHANGED <<hw, pc, task, player>>
    PROVE  StateTyped'
  <1> USE DEF StateTyped
  <1>1. CASE StartCheck
    BY <1>1 DEF StartCheck
  <1>2. CASE NextGeneration
    <2>1. req' \in Requests
      BY <1>2 DEF NextGeneration, Requests
    <2>2. QED
      BY <1>2, <2>1 DEF NextGeneration
  <1>3. CASE StartRequest
    <2>1. req' \in Requests
      BY <1>3 DEF StartRequest, Requests
    <2>2. QED
      BY <1>3, <2>1 DEF StartRequest
  <1>4. CASE StopTake
    <2>1. req' \in Requests
      BY <1>4 DEF StopTake, Requests
    <2>2. QED
      BY <1>4, <2>1 DEF StopTake
  <1>5. CASE StopTeardown
    <2>1. sh' \in Shared
      BY <1>5 DEF StopTeardown, Shared
    <2>2. QED
      BY <1>5, <2>1 DEF StopTeardown
  <1>6. CASE StopSpeakerRunning
    <2>1. req' \in Requests
      BY <1>6 DEF StopSpeakerRunning, Requests
    <2>2. sh' \in Shared
      BY <1>6 DEF StopSpeakerRunning, Shared
    <2>3. QED
      BY <1>6, <2>1, <2>2 DEF StopSpeakerRunning
  <1>7. CASE StopRunning
    <2>1. sh' \in Shared
      BY <1>7 DEF StopRunning, Shared
    <2>2. QED
      BY <1>7, <2>1 DEF StopRunning
  <1>8. CASE Notify
    <2>1. sh' \in Shared
      BY <1>8 DEF Notify, Shared
    <2>2. QED
      BY <1>8, <2>1 DEF Notify
  <1>9. CASE UpdateRuntimeState
    <2>1. outside' \in Outside
      BY <1>9 DEF UpdateRuntimeState, Outside, ComputedRuntimeState, RuntimeStates
    <2>2. QED
      BY <1>9, <2>1 DEF UpdateRuntimeState
  <1>10. CASE StopIfSilent
    BY <1>10 DEF StopIfSilent
  <1>11. CASE StartSpeaker
    <2>1. req' \in Requests
      BY <1>11 DEF StartSpeaker, Requests
    <2>2. QED
      BY <1>11, <2>1 DEF StartSpeaker
  <1>12. CASE SpeakerIfRunning
    BY <1>12 DEF SpeakerIfRunning
  <1>13. CASE SpeakerRunning
    <2>1. sh' \in Shared
      BY <1>13 DEF SpeakerRunning, Shared
    <2>2. QED
      BY <1>13, <2>1 DEF SpeakerRunning
  <1>14. CASE StopSpeaker
    <2>1. req' \in Requests
      BY <1>14 DEF StopSpeaker, Requests
    <2>2. sh' \in Shared
      BY <1>14 DEF StopSpeaker, Shared
    <2>3. QED
      BY <1>14, <2>1, <2>2 DEF StopSpeaker
  <1>15. CASE StopSpeakerReset
    <2>1. sh' \in Shared
      BY <1>15 DEF StopSpeakerReset, Shared
    <2>2. QED
      BY <1>15, <2>1 DEF StopSpeakerReset
  <1>16. CASE Loop
    <2>1. sh' \in Shared
      BY <1>16 DEF Loop, Shared, Phases
    <2>2. QED
      BY <1>16, <2>1 DEF Loop
  <1>17. CASE FinishPhase
    <2>1. seen' \in Results
      BY <1>17 DEF FinishPhase, Results, Shared
    <2>2. QED
      BY <1>17, <2>1 DEF FinishPhase
  <1>18. CASE FinishGeneration
    <2>1. seen' \in Results
      BY <1>18 DEF FinishGeneration, Results, Hardware
    <2>2. QED
      BY <1>18, <2>1 DEF FinishGeneration
  <1>19. CASE Finish
    BY <1>19 DEF Finish
  <1>20. CASE Commit
    <2>1. sh' \in Shared
      BY <1>20 DEF Commit, Shared, Phases
    <2>2. QED
      BY <1>20, <2>1 DEF Commit
  <1>21. CASE CommitRunning
    <2>1. sh' \in Shared
      BY <1>21 DEF CommitRunning, Shared
    <2>2. QED
      BY <1>21, <2>1 DEF CommitRunning
  <1>22. CASE CommitPhase
    <2>1. sh' \in Shared
      BY <1>22 DEF CommitPhase, Shared, Phases
    <2>2. QED
      BY <1>22, <2>1 DEF CommitPhase
  <1>23. CASE Started
    BY <1>23 DEF Started
  <1>24. CASE Fail
    <2>1. req' \in Requests
      BY <1>24 DEF Fail, Requests
    <2>2. sh' \in Shared
      BY <1>24 DEF Fail, Shared
    <2>3. QED
      BY <1>24, <2>1, <2>2 DEF Fail
  <1>25. CASE FailSpeaker
    <2>1. sh' \in Shared
      BY <1>25 DEF FailSpeaker, Shared
    <2>2. QED
      BY <1>25, <2>1 DEF FailSpeaker
  <1>26. CASE \E t \in Triggers : FireTrigger(t)
    BY <1>26 DEF FireTrigger, Outside, Results
  <1>27. CASE \E active \in BOOLEAN : SetProcessingActive(active)
    BY <1>27 DEF SetProcessingActive, Outside
  <1>28. QED
    BY <1>1, <1>2, <1>3, <1>4, <1>5, <1>6, <1>7, <1>8, <1>9, <1>10, <1>11, <1>12, <1>13,
       <1>14, <1>15, <1>16, <1>17, <1>18, <1>19, <1>20, <1>21, <1>22, <1>23, <1>24, <1>25,
       <1>26, <1>27 DEF MainStep

\* So does a call of the environment.
LEMMA RequestTyping ==
    ASSUME StateTyped, Request, UNCHANGED <<hw, pc, task, player>>
    PROVE  StateTyped'
  BY DEF Request, CallMain, RegisterMicConsumer, UnregisterMicConsumer, StateTyped

\* So does every step of the audio task: in particular Close and OpenAbort
\* leave the hardware UNPREPARED or in ERROR.
LEMMA AudioTyping ==
    ASSUME StateTyped, Audio
    PROVE  StateTyped'
  <1> USE DEF Audio, StateTyped, TaskLabels, Goto
  <1>1. CASE Top
    <2>1. sh' \in Shared
      BY <1>1 DEF Top, Shared, Phases
    <2>2. hw' \in Hardware
      BY <1>1 DEF Top, Hardware
    <2>3. QED
      BY <1>1, <2>1, <2>2 DEF Top
  <1>2. CASE ServicePhase
    <2>1. task' \in TaskLocals
      BY <1>2 DEF ServicePhase, TaskLocals, Phases, Shared
    <2>2. QED
      BY <1>2, <2>1 DEF ServicePhase
  <1>3. CASE ServiceRunning
    BY <1>3 DEF ServiceRunning
  <1>4. CASE ServiceRequested
    <2>1. task' \in TaskLocals
      BY <1>4 DEF ServiceRequested, TaskLocals, Phases
    <2>2. QED
      BY <1>4, <2>1 DEF ServiceRequested
  <1>5. CASE ServiceGeneration
    <2>1. task' \in TaskLocals
      BY <1>5 DEF ServiceGeneration, TaskLocals, Phases
    <2>2. QED
      BY <1>5, <2>1 DEF ServiceGeneration
  <1>6. CASE ServiceTeardown
    BY <1>6 DEF ServiceTeardown
  <1>7. CASE Close
    <2>1. sh' \in Shared
      BY <1>7 DEF Close, DeinitI2S, Shared
    <2>2. hw' \in Hardware
      BY <1>7 DEF Close, DeinitI2S, Hardware
    <2>3. QED
      BY <1>7, <2>1, <2>2 DEF Close, DeinitI2S
  <1>8. CASE CloseDone
    <2>1. sh' \in Shared
      BY <1>8 DEF CloseDone, Shared, Phases
    <2>2. task' \in TaskLocals
      BY <1>8 DEF CloseDone, TaskLocals, Phases
    <2>3. QED
      BY <1>8, <2>1, <2>2 DEF CloseDone
  <1>9. CASE ClosePublish
    <2>1. sh' \in Shared
      BY <1>9 DEF ClosePublish, Shared, Phases, TaskLocals
    <2>2. QED
      BY <1>9, <2>1 DEF ClosePublish
  <1>10. CASE CloseEvent
    <2>1. sh' \in Shared
      BY <1>10 DEF CloseEvent, Shared
    <2>2. QED
      BY <1>10, <2>1 DEF CloseEvent
  <1>11. CASE OpenRequested
    BY <1>11 DEF OpenRequested
  <1>12. CASE OpenGeneration
    <2>1. task' \in TaskLocals
      BY <1>12 DEF OpenGeneration, TaskLocals, Phases, Requests
    <2>2. QED
      BY <1>12, <2>1 DEF OpenGeneration
  <1>13. CASE OpenStarting
    <2>1. sh' \in Shared
      BY <1>13 DEF OpenStarting, Shared, Phases
    <2>2. hw' \in Hardware
      BY <1>13 DEF OpenStarting, Hardware
    <2>3. QED
      BY <1>13, <2>1, <2>2 DEF OpenStarting
  <1>14. CASE Open
    <2>1. sh' \in Shared
      BY <1>14 DEF Open, Shared
    <2>2. hw' \in Hardware
      BY <1>14 DEF Open, Hardware
    <2>3. task' \in TaskLocals
      BY <1>14 DEF Open, TaskLocals
    <2>4. QED
      BY <1>14, <2>1, <2>2, <2>3 DEF Open
  <1>15. CASE OpenCurrent
    BY <1>15 DEF OpenCurrent
  <1>16. CASE OpenCurrentGeneration
    BY <1>16 DEF OpenCurrentGeneration
  <1>17. CASE OpenAbort
    <2>1. sh' \in Shared
      BY <1>17 DEF OpenAbort, DeinitI2S, Shared
    <2>2. hw' \in Hardware
      BY <1>17 DEF OpenAbort, DeinitI2S, Hardware
    <2>3. QED
      BY <1>17, <2>1, <2>2 DEF OpenAbort, DeinitI2S
  <1>18. CASE OpenAborted
    <2>1. sh' \in Shared
      BY <1>18 DEF OpenAborted, Shared, Phases
    <2>2. task' \in TaskLocals
      BY <1>18 DEF OpenAborted, TaskLocals, Phases
    <2>3. QED
      BY <1>18, <2>1, <2>2 DEF OpenAborted
  <1>19. CASE OpenReady
    <2>1. sh' \in Shared
      BY <1>19 DEF OpenReady, Shared, Phases
    <2>2. task' \in TaskLocals
      BY <1>19 DEF OpenReady, TaskLocals, Phases
    <2>3. QED
      BY <1>19, <2>1, <2>2 DEF OpenReady
  <1>20. CASE PublishGeneration
    <2>1. hw' \in Hardware
      BY <1>20 DEF PublishGeneration, Hardware, TaskLocals
    <2>2. QED
      BY <1>20, <2>1 DEF PublishGeneration
  <1>21. CASE PublishPhase
    <2>1. sh' \in Shared
      BY <1>21 DEF PublishPhase, Shared, Phases, TaskLocals
    <2>2. QED
      BY <1>21, <2>1 DEF PublishPhase
  <1>22. CASE PublishEvent
    <2>1. sh' \in Shared
      BY <1>22 DEF PublishEvent, Shared
    <2>2. QED
      BY <1>22, <2>1 DEF PublishEvent
  <1>23. CASE Park
    <2>1. hw' \in Hardware
      BY <1>23 DEF Park, Hardware
    <2>2. QED
      BY <1>23, <2>1 DEF Park
  <1>24. CASE ParkRunning
    BY <1>24 DEF ParkRunning
  <1>25. CASE ParkPhase
    BY <1>25 DEF ParkPhase
  <1>26. CASE ParkRequested
    BY <1>26 DEF ParkRequested
  <1>27. CASE ParkStopped
    BY <1>27 DEF ParkStopped
  <1>28. CASE Wait
    <2>1. sh' \in Shared
      BY <1>28 DEF Wait, Shared
    <2>2. QED
      BY <1>28, <2>1 DEF Wait
  <1>29. CASE SessionSetup
    <2>1. sh' \in Shared
      BY <1>29 DEF SessionSetup, Shared
    <2>2. hw' \in Hardware
      BY <1>29 DEF SessionSetup, Hardware
    <2>3. QED
      BY <1>29, <2>1, <2>2 DEF SessionSetup
  <1>30. CASE Session
    BY <1>30 DEF Session
  <1>31. CASE Frame
    <2>1. sh' \in Shared
      BY <1>31 DEF Frame, Shared
    <2>2. QED
      BY <1>31, <2>1 DEF Frame
  <1>32. CASE FrameRejected
    BY <1>32 DEF FrameRejected
  <1>33. CASE FrameDesync
    <2>1. sh' \in Shared
      BY <1>33 DEF FrameDesync, Shared
    <2>2. QED
      BY <1>33, <2>1 DEF FrameDesync
  <1>34. QED
    BY <1>1, <1>2, <1>3, <1>4, <1>5, <1>6, <1>7, <1>8, <1>9, <1>10, <1>11, <1>12, <1>13,
       <1>14, <1>15, <1>16, <1>17, <1>18, <1>19, <1>20, <1>21, <1>22, <1>23, <1>24, <1>25,
       <1>26, <1>27, <1>28, <1>29, <1>30, <1>31, <1>32, <1>33 DEF AudioStep

\* And so does play() in the producer's task.
LEMMA PlayerTyping ==
    ASSUME StateTyped, Player
    PROVE  StateTyped'
  <1> USE DEF StateTyped, Player
  <1>1. CASE PlayerCheck
    BY <1>1 DEF PlayerCheck
  <1>2. CASE PlayerGeneration
    <2>1. req' \in Requests
      BY <1>2 DEF PlayerGeneration, Requests
    <2>2. QED
      BY <1>2, <2>1 DEF PlayerGeneration
  <1>3. CASE PlayerRequest
    <2>1. req' \in Requests
      BY <1>3 DEF PlayerRequest, Requests
    <2>2. sh' \in Shared
      BY <1>3 DEF PlayerRequest, Shared
    <2>3. QED
      BY <1>3, <2>1, <2>2 DEF PlayerRequest
  <1>4. QED
    BY <1>1, <1>2, <1>3 DEF PlayerStep

----------------------------------------------------------------------------
\* In every reachable state each variable has its type (TypeOK), and main's
\* callers have no commit left to do: loop() calls finish_audio_lifecycle_ on
\* an empty stack, and nothing calls it from inside a callback.
TypeInv == TypeOK /\ CallsBelow

\* TypeInv is inductive.
LEMMA TypeInduction == TypeInv /\ [Next]_vars => TypeInv'
  <1> SUFFICES ASSUME TypeInv, [Next]_vars
               PROVE  TypeInv'
    OBVIOUS
  <1>0. raced' \in BOOLEAN
    BY DEF Next, Main, Audio, Player, Race, vars, TypeInv, TypeOK
  <1>1. CASE Main
    <2>1. StateTyped'
      BY <1>1, MainTyping, RequestTyping DEF Main, TypeInv, TypeOK
    <2>2. todo' \in Seq(MainLabels) /\ CallsBelow'
      <3>1. CASE MainStep
        BY <3>1, StackStep DEF TypeInv
      <3>2. CASE Request
        BY <3>2, RequestStack, PlainTyping DEF CallsBelow
      <3>3. QED
        BY <1>1, <3>1, <3>2 DEF Main
    <2>3. QED
      BY <1>0, <2>1, <2>2 DEF TypeInv, TypeOK
  <1>2. CASE Audio
    BY <1>0, <1>2, AudioTyping DEF Audio, TypeInv, TypeOK, CallsBelow
  <1>3. CASE Player
    BY <1>0, <1>3, PlayerTyping DEF Player, TypeInv, TypeOK, CallsBelow
  <1>4. CASE UNCHANGED vars
    BY <1>4 DEF vars, TypeInv, TypeOK, StateTyped, CallsBelow
  <1>5. QED
    BY <1>1, <1>2, <1>3, <1>4 DEF Next

\* Type correctness, for every set of tokens, calls, automations and faults
\* and every bound: TypeInv is inductive and implies it.
THEOREM Typing == Spec => [](TypeOK /\ CallsBelow)
  <1>1. Init => TypeInv
    <2> SUFFICES ASSUME Init
                 PROVE  TypeInv
      OBVIOUS
    <2>1. StateTyped
      BY DEF Init, StateTyped, Requests, Shared, Hardware, Outside, Results, TaskLocals, Phases,
         RuntimeStates, TaskLabels
    <2>2. todo = <<>> /\ raced \in BOOLEAN
      BY DEF Init
    <2>3. QED
      BY <2>1, <2>2 DEF TypeInv, TypeOK, CallsBelow
  <1>2. TypeInv => TypeOK /\ CallsBelow
    BY DEF TypeInv
  <1>3. QED
    BY <1>1, <1>2, TypeInduction, PTL DEF Spec
=============================================================================
