----------------------------- MODULE EspAfeSafety -----------------------------
(***************************************************************************)
(* What EspAfe keeps, for every value of the constants, beyond its drain   *)
(* protocol:                                                               *)
(*                                                                         *)
(*   FreshFrames, FreshVoice   PCM and VAD state are of the acquisition    *)
(*                             that is published, though fetch takes no    *)
(*                             lock;                                       *)
(*   IdleIsSettled             a reconfiguration that ends without a       *)
(*                             failure ends with what was asked for;       *)
(*   ParkedIsIdle              the owner task never sleeps on work.        *)
(*                                                                         *)
(* None of them is inductive: FreshInv, SettleInv (with JobInv and         *)
(* InstanceInv) and WakeInv are.                                           *)
(***************************************************************************)
EXTENDS EspAfeProofs

\* What a step of the procedure does to its actor, and all it does to the others' requests.
LEMMA ProcedureMoves ==
    ASSUME TypeInv, NEW a \in Actors, Procedure(a)
    PROVE  /\ act[a].pc \in Critical \cup {"lock"}
           /\ \/ \E pc \in Critical : Goto(a, pc)
              \/ \E value \in BOOLEAN : Result(a, value)
              \/ act' = [act EXCEPT ![a].wanted = request.active /\ sh.epoch = request.epoch,
                                    ![a].pc = "install"]
           /\ queue' = queue /\ sh'.pending = sh.pending /\ sh'.busy = sh.busy
           /\ notified' = notified \/ notified' = [notified EXCEPT ![a] = FALSE]
  <1> USE DEF Critical, At
  <1>0. sh \in Shared
    BY DEF TypeInv, TypeOK
  <1>1. CASE Lock(a) \/ Drain(a) \/ DrainCheck(a)
    BY <1>0, <1>1 DEF Lock, Drain, DrainCheck, Shared
  <1>2. CASE DrainRegister(a)
    BY <1>0, <1>2 DEF DrainRegister, Shared
  <1>3. CASE DrainWait(a)
    BY <1>0, <1>3 DEF DrainWait, Shared
  <1>4. CASE DrainSettle(a)
    BY <1>0, <1>4 DEF DrainSettle, Leave, Shared
  <1>5. CASE Detach(a)
    BY <1>0, <1>5 DEF Detach, Shared
  <1>6. CASE Retired(a)
    BY <1>0, <1>6 DEF Retired, Leave, Shared
  <1>7. CASE Build(a)
    BY <1>0, <1>7 DEF Build, Leave, Shared
  <1>8. CASE PublishEpoch(a) \/ LoadRequest(a)
    BY <1>0, <1>8 DEF PublishEpoch, LoadRequest, Shared
  <1>9. CASE Install(a)
    BY <1>0, <1>9 DEF Install, Leave, Shared
  <1>10. CASE Up(a)
    BY <1>0, <1>10 DEF Up, Leave, Shared
  <1>11. QED
    BY <1>1, <1>2, <1>3, <1>4, <1>5, <1>6, <1>7, <1>8, <1>9, <1>10 DEF Procedure

----------------------------------------------------------------------------
(* What comes through is of the acquisition that is published.             *)

\* The PCM under way, the result in the callback's hands, the frame admitted and, of an AFE that is
\* ready, the VAD state are of the acquisition published; from the detachment of an instance to the
\* end of the procedure there is no PCM and no result.
FreshInv ==
    /\ pcm.input \subseteq {sh.epoch} /\ pcm.output \subseteq {sh.epoch}
    /\ fetch.pc # "idle" => fetch.epoch = sh.epoch
    /\ frame.pc = "admitted" => frame.epoch = sh.epoch
    /\ sh.ready => sh.voice \subseteq {sh.epoch}
    /\ \A a \in Actors : act[a].pc \in Detached => pcm = NoPcm /\ fetch.pc = "idle"

\* Only the actor moved, and into the procedure past the detachment only with the PCM gone.
Secluded(a) ==
    /\ \A b \in Actors : b # a => act'[b] = act[b]
    /\ act'[a].pc \in Detached => act[a].pc \in Detached \/ (pcm' = NoPcm /\ fetch'.pc = "idle")

\* A step that publishes no epoch and brings no PCM and no VAD state.
LEMMA BringsNothing ==
    ASSUME TypeInv, FreshInv, NEW a \in Actors, Secluded(a),
           UNCHANGED <<fetch, frame>>, pcm' = pcm \/ pcm' = NoPcm,
           sh'.epoch = sh.epoch, sh'.voice = sh.voice \/ sh'.voice = {},
           sh'.ready => sh.ready \/ sh'.voice = {}
    PROVE  FreshInv'
  <1>1. pcm'.input \subseteq {sh'.epoch} /\ pcm'.output \subseteq {sh'.epoch}
    BY DEF FreshInv, NoPcm
  <1>2. ASSUME NEW b \in Actors, act'[b].pc \in Detached PROVE pcm' = NoPcm /\ fetch'.pc = "idle"
    <2>1. CASE act[b].pc \in Detached
      BY <2>1 DEF FreshInv
    <2>2. CASE act[b].pc \notin Detached
      BY <1>2, <2>2 DEF Secluded
    <2>3. QED
      BY <2>1, <2>2
  <1>3. QED
    BY <1>1, <1>2 DEF FreshInv

\* A step that publishes an epoch does it with the PCM gone and nobody ready for it.
LEMMA PublishesAlone ==
    ASSUME TypeInv, DrainInv, FreshInv, NEW a \in Actors, Secluded(a), act[a].pc \in Detached,
           UNCHANGED <<fetch, frame, pcm>>, sh'.ready = sh.ready
    PROVE  FreshInv'
  <1>1. pcm = NoPcm /\ fetch.pc = "idle" /\ frame.pc # "admitted" /\ ~sh.ready
    BY DEF FreshInv, DrainInv, ActorInv, Detached
  <1>2. QED
    BY <1>1 DEF FreshInv, NoPcm

\* A step to a named part is secluded, if it is not the one that takes the instance away with PCM left.
LEMMA SecludedGoto ==
    ASSUME TypeInv, NEW a \in Actors, NEW pc \in Steps \ {"live"}, Goto(a, pc),
           pc \notin Detached \/ act[a].pc \in Detached \/ (pcm' = NoPcm /\ fetch'.pc = "idle")
    PROVE  Secluded(a)
  <1>1. Moved(a, {pc})
    BY GotoMoves DEF TypeInv
  <1>2. act'[a].pc = pc /\ \A b \in Actors : b # a => act'[b] = act[b]
    BY <1>1, MoveTyping DEF TypeInv
  <1>3. QED
    BY <1>2 DEF Secluded

\* So is one out of the procedure.
LEMMA SecludedMove ==
    ASSUME TypeInv, NEW a \in Actors, Moved(a, Outside)
    PROVE  Secluded(a)
  BY MoveTyping DEF TypeInv, Secluded, Outside, Held, Critical, Detached, Emptied

\* The procedure, whoever runs it.
LEMMA ProcedureFresh ==
    ASSUME TypeInv, DrainInv, FreshInv, NEW a \in Actors, Procedure(a)
    PROVE  FreshInv'
  <1> USE DEF Critical, Emptied, Detached, Steps
  <1>0. sh \in Shared
    BY DEF TypeInv, TypeOK
  <1>1. CASE Lock(a)
    <2>1. Secluded(a)
      BY <1>1, SecludedGoto, ResultMoves, SecludedMove DEF Lock, TypeInv
    <2>2. QED
      BY <1>1, <2>1, BringsNothing DEF Lock
  <1>2. CASE Drain(a) \/ DrainCheck(a) \/ DrainRegister(a) \/ DrainWait(a)
    <2>1. Secluded(a)
      BY <1>2, SecludedGoto DEF Drain, DrainCheck, DrainRegister, DrainWait
    <2>2. UNCHANGED <<fetch, frame, pcm>> /\ sh'.epoch = sh.epoch /\ sh'.voice = sh.voice
          /\ sh'.ready = sh.ready
      BY <1>0, <1>2 DEF Drain, DrainCheck, DrainRegister, DrainWait, Shared
    <2>3. QED
      BY <2>1, <2>2, BringsNothing
  <1>3. CASE DrainSettle(a)
    <2>1. Secluded(a)
      BY <1>3, SecludedGoto, ResultMoves, SecludedMove DEF DrainSettle, Leave, TypeInv
    <2>2. UNCHANGED <<fetch, frame, pcm>> /\ sh'.epoch = sh.epoch /\ sh'.voice = sh.voice
          /\ sh'.ready = sh.ready
      BY <1>0, <1>3 DEF DrainSettle, Leave, Failed, Shared
    <2>3. QED
      BY <2>1, <2>2, BringsNothing
  <1>4. CASE Detach(a)
    <2>1. pcm' = NoPcm /\ UNCHANGED <<fetch, frame>> /\ fetch.pc = "idle"
      BY <1>4 DEF Detach
    <2>2. sh'.epoch = sh.epoch /\ sh'.voice = sh.voice /\ ~sh'.ready
      BY <1>0, <1>4 DEF Detach, Shared
    <2>3. Goto(a, "build") \/ Goto(a, "retired")
      BY <1>4 DEF Detach
    <2>4. Secluded(a)
      BY <2>1, <2>3, SecludedGoto
    <2>5. QED
      BY <2>1, <2>2, <2>4, BringsNothing
  <1>5. CASE Retired(a)
    <2>1. Secluded(a)
      BY <1>5, ResultMoves, SecludedMove DEF Retired, Leave, TypeInv
    <2>2. UNCHANGED <<fetch, frame, pcm>> /\ act[a].pc \in Detached /\ sh'.ready = sh.ready
      BY <1>0, <1>5 DEF Retired, Leave, At, Shared
    <2>3. QED
      BY <2>1, <2>2, PublishesAlone
  <1>6. CASE Build(a)
    <2>1. Secluded(a)
      BY <1>6, SecludedGoto, ResultMoves, SecludedMove DEF Build, Leave, At, TypeInv
    <2>2. UNCHANGED <<fetch, frame, pcm>> /\ sh'.epoch = sh.epoch /\ sh'.voice = sh.voice
          /\ sh'.ready = sh.ready
      BY <1>0, <1>6 DEF Build, Leave, Shared
    <2>3. QED
      BY <2>1, <2>2, BringsNothing
  <1>7. CASE PublishEpoch(a)
    <2>1. Secluded(a)
      BY <1>7, SecludedGoto DEF PublishEpoch, At
    <2>2. UNCHANGED <<fetch, frame, pcm>> /\ act[a].pc \in Detached /\ sh'.ready = sh.ready
      BY <1>0, <1>7 DEF PublishEpoch, At, Shared
    <2>3. QED
      BY <2>1, <2>2, PublishesAlone
  <1>8. CASE LoadRequest(a)
    <2>1. Secluded(a)
      BY <1>8, LoadMoves, MoveTyping DEF LoadRequest, At, Secluded, TypeInv
    <2>2. UNCHANGED <<fetch, frame, pcm, sh>>
      BY <1>8 DEF LoadRequest
    <2>3. QED
      BY <2>1, <2>2, BringsNothing
  <1>9. CASE Install(a)
    <2>1. Secluded(a)
      BY <1>9, SecludedGoto, ResultMoves, SecludedMove DEF Install, Leave, At, TypeInv
    <2>2. UNCHANGED <<fetch, frame, pcm>> /\ sh'.epoch = sh.epoch /\ sh'.voice = sh.voice
          /\ sh'.ready = sh.ready
      BY <1>0, <1>9 DEF Install, Leave, Shared
    <2>3. QED
      BY <2>1, <2>2, BringsNothing
  <1>10. CASE Up(a)
    <2>1. Secluded(a)
      BY <1>10, ResultMoves, SecludedMove DEF Up, Leave, TypeInv
    <2>2. UNCHANGED <<fetch, frame>> /\ (pcm' = pcm \/ pcm' = NoPcm)
      BY <1>10 DEF Up
    <2>3. /\ sh'.epoch = sh.epoch
          /\ \/ sh'.voice = sh.voice /\ sh'.ready = sh.ready
             \/ sh'.voice = {}
      BY <1>0, <1>10 DEF Up, Leave, Shared
    <2>4. QED
      BY <2>1, <2>2, <2>3, BringsNothing
  <1>11. QED
    BY <1>1, <1>2, <1>3, <1>4, <1>5, <1>6, <1>7, <1>8, <1>9, <1>10 DEF Procedure

\* A step of an actor outside the procedure.
LEMMA OutsideFresh ==
    ASSUME TypeInv, FreshInv, NEW a \in Actors, NEW pcs, Moved(a, pcs), pcs \cap Detached = {},
           UNCHANGED <<fetch, frame>>, pcm' = pcm \/ pcm' = NoPcm,
           sh'.epoch = sh.epoch, sh'.voice = sh.voice \/ sh'.voice = {}, sh'.ready = sh.ready
    PROVE  FreshInv'
  <1>1. Secluded(a)
    BY MoveTyping DEF Secluded, TypeInv
  <1>2. QED
    BY <1>1, BringsNothing

\* Outside the procedure an actor goes to a step outside its detached part.
Elsewhere == Steps \ Critical

\* A step outside the procedure stays outside its critical part.
LEMMA GoesElsewhere ==
    ASSUME TypeInv, NEW a \in Actors,
           \/ Moved(a, Outside) \/ Moved(a, {"lock"})
           \/ \E pc \in Elsewhere \ {"live"} : Goto(a, pc)
    PROVE  Moved(a, Elsewhere)
  <1>1. Outside \subseteq Elsewhere /\ {"lock"} \subseteq Elsewhere
    BY DEF Outside, Elsewhere, Held, Steps, Critical
  <1>2. ASSUME NEW pc \in Elsewhere \ {"live"}, Goto(a, pc) PROVE Moved(a, Elsewhere)
    <2>1. Moved(a, {pc}) /\ {pc} \subseteq Elsewhere
      BY <1>2, GotoMoves DEF TypeInv, Elsewhere
    <2>2. QED
      BY <2>1, MovesWithin
  <1>3. QED
    BY <1>1, <1>2, MovesWithin

\* The owner's own steps.
OwnerPass ==
    \/ Restore("owner")
    \/ Look \/ Awake \/ Take \/ Serve \/ Service \/ Decide
    \/ AdmissionLock \/ Latest \/ Admit \/ Start \/ Done

\* The owner's own steps do.
LEMMA OwnerMoves ==
    ASSUME TypeInv, OwnerPass
    PROVE  Moved("owner", Elsewhere)
  <1> USE StepNames DEF Elsewhere, Critical, Steps
  <1>0. "owner" \in Actors /\ ActTyped /\ config \in Configs
    BY DEF Actors, TypeInv, TypeOK
  <1>1. CASE Restore("owner")
    BY <1>0, <1>1, RestoreMoves, GoesElsewhere
  <1>2. CASE Look \/ Awake \/ Serve \/ AdmissionLock \/ Latest \/ Admit \/ Start
    <2>1. \E pc \in Elsewhere \ {"live"} : Goto("owner", pc)
      BY <1>2 DEF Look, Awake, Serve, AdmissionLock, Latest, Admit, Start
    <2>2. QED
      BY <1>0, <2>1, GoesElsewhere
  <1>3. CASE Take
    <2>1. Goto("owner", "serve") \/ Apply("owner", "mode", [config EXCEPT !.mode = Head(queue)], "serve")
      BY <1>3 DEF Take
    <2>2. QED
      BY <1>0, <2>1, ApplyMoves, GoesElsewhere DEF Returns
  <1>4. CASE Service
    <2>1. Goto("owner", "decide") \/ Call("owner", "retire", "decide", "done")
      BY <1>4 DEF Service
    <2>2. QED
      BY <1>0, <2>1, CallMoves, GoesElsewhere DEF Returns
  <1>5. CASE Decide
    <2>1. \/ Goto("owner", "done") \/ Goto("owner", "admission")
          \/ Call("owner", "rebuild", "admission", "done")
      BY <1>5 DEF Decide
    <2>2. QED
      BY <1>0, <2>1, CallMoves, GoesElsewhere DEF Returns
  <1>6. CASE Done
    BY <1>0, <1>6, RestMoves, GoesElsewhere DEF Done
  <1>7. QED
    BY <1>1, <1>2, <1>3, <1>4, <1>5, <1>6 DEF OwnerPass

\* The owner brings nothing of another acquisition.
LEMMA OwnerFresh ==
    ASSUME TypeInv, DrainInv, FreshInv, OwnerStep
    PROVE  FreshInv'
  <1>0. "owner" \in Actors /\ sh \in Shared
    BY DEF Actors, TypeInv, TypeOK
  <1>1. CASE OwnerPass
    <2>1. Moved("owner", Elsewhere) /\ Elsewhere \cap Detached = {}
      BY <1>1, OwnerMoves DEF Elsewhere, Critical, Detached, Emptied
    <2>2. UNCHANGED <<fetch, frame>> /\ (pcm' = pcm \/ pcm' = NoPcm)
      BY <1>1 DEF OwnerPass, Restore, Look, Awake, Take, Serve, Service, Decide, AdmissionLock, Latest,
                  Admit, Start, Done
    <2>3. sh'.epoch = sh.epoch /\ sh'.voice = sh.voice /\ sh'.ready = sh.ready
      BY <1>0, <1>1 DEF OwnerPass, Restore, Look, Awake, Take, Serve, Service, Decide, AdmissionLock, Latest,
                  Admit, Start, Done, Shared
    <2>4. QED
      BY <1>0, <2>1, <2>2, <2>3, OutsideFresh
  <1>2. QED
    BY <1>0, <1>1, ProcedureFresh DEF OwnerStep, OwnerPass

\* Main's own steps.
MainPass == Restore("main") \/ Withdraw \/ Pend \/ Notify \/ Overwrite \/ Live

\* Main's own steps do, or leave it where it is.
LEMMA MainMoves ==
    ASSUME TypeInv, MainCall \/ MainPass
    PROVE  Moved("main", Elsewhere) \/ UNCHANGED act
  <1> USE StepNames DEF Elsewhere, Critical, Steps
  <1>0. "main" \in Actors /\ ActTyped /\ config \in Configs
    BY DEF Actors, TypeInv, TypeOK
  <1>1. CASE Restore("main")
    BY <1>0, <1>1, RestoreMoves, GoesElsewhere
  <1>2. CASE Withdraw \/ Pend \/ VadIntent \/ \E active \in BOOLEAN : SetProcessingActive(active)
    <2>1. \E pc \in Elsewhere \ {"live"} : Goto("main", pc)
      BY <1>2 DEF Withdraw, Pend, VadIntent, SetProcessingActive
    <2>2. QED
      BY <1>0, <2>1, GoesElsewhere
  <1>3. CASE Notify
    BY <1>0, <1>3, RestMoves, GoesElsewhere DEF Notify
  <1>4. CASE Overwrite
    BY <1>0, <1>4, OverwriteMoves, GoesElsewhere
  <1>5. CASE Live
    <2>1. Call("main", "rebuild", "none", "none") \/ Return
      BY <1>5 DEF Live
    <2>2. QED
      BY <1>0, <2>1, RebuildOutside, RestMoves, GoesElsewhere DEF Return
  <1>6. CASE \E m \in Modes : RequestReinit(m)
    BY <1>0, <1>6, ReinitMoves, GoesElsewhere
  <1>7. ASSUME NEW f \in Switches, ToggleStopped(f) PROVE Moved("main", Elsewhere) \/ UNCHANGED act
    BY <1>0, <1>7, RebuildOutside, GoesElsewhere DEF ToggleStopped
  <1>8. ASSUME NEW f \in Switches, ToggleRebuild(f) PROVE Moved("main", Elsewhere)
    <2>1. Apply("main", f, Switched(f, f \notin config.on), "none") /\ f \in FeatureNames
      BY <1>8, SomeValues DEF ToggleRebuild
    <2>2. QED
      BY <1>0, <2>1, ApplyMoves, GoesElsewhere DEF Returns
  <1>9. ASSUME NEW f \in Switches, ToggleLive(f) PROVE Moved("main", Elsewhere)
    BY <1>0, <1>9, LiveMoves, GoesElsewhere
  <1>10. QED
    BY <1>1, <1>2, <1>3, <1>4, <1>5, <1>6, <1>7, <1>8, <1>9 DEF MainCall, MainPass

\* Main brings nothing of another acquisition.
LEMMA MainFresh ==
    ASSUME TypeInv, DrainInv, FreshInv, MainCall \/ MainStep
    PROVE  FreshInv'
  <1>0. "main" \in Actors /\ sh \in Shared
    BY DEF Actors, TypeInv, TypeOK
  <1>1. CASE MainCall \/ MainPass
    <2>1. UNCHANGED <<fetch, frame, pcm>>
      BY <1>1 DEF MainPass, Restore, Withdraw, Pend, Notify, Overwrite, Live, MainCall,
                  SetProcessingActive, RequestReinit, VadIntent, ToggleStopped, ToggleRebuild, ToggleLive
    <2>2. sh'.epoch = sh.epoch /\ (sh'.voice = sh.voice \/ sh'.voice = {}) /\ sh'.ready = sh.ready
      <3>1. CASE MainCall
        BY <1>0, <3>1 DEF MainCall, SetProcessingActive, RequestReinit, VadIntent, ToggleStopped,
                          ToggleRebuild, ToggleLive, Shared
      <3>2. CASE MainPass
        BY <1>0, <3>2 DEF MainPass, Restore, Withdraw, Pend, Notify, Overwrite, Live, Shared
      <3>3. QED
        BY <1>1, <3>1, <3>2
    <2>3. CASE Moved("main", Elsewhere)
      <3>1. Elsewhere \cap Detached = {}
        BY DEF Elsewhere, Critical, Detached, Emptied
      <3>2. QED
        BY <1>0, <2>1, <2>2, <2>3, <3>1, OutsideFresh
    <2>4. CASE UNCHANGED act
      <3>1. Secluded("main")
        BY <2>4 DEF Secluded
      <3>2. QED
        BY <1>0, <2>1, <2>2, <3>1, BringsNothing
    <2>5. QED
      BY <1>1, <2>3, <2>4, MainMoves
  <1>2. QED
    BY <1>0, <1>1, ProcedureFresh DEF MainStep, MainPass

\* process() stages PCM of its epoch, the manager hands on what it was given: nothing while an
\* instance is away, for then no frame is admitted and there is nothing to fetch.
LEMMA AudioFresh ==
    ASSUME TypeInv, DrainInv, FreshInv, Enter \/ AudioStep \/ ManagerStep
    PROVE  FreshInv'
  <1>0. sh \in Shared /\ frame \in Frames /\ fetch \in Fetches /\ pcm \in Pcm
    BY DEF TypeInv, TypeOK, Frames, Fetches
  <1>1. CASE Enter \/ ClearBusy \/ LoadWaiter \/ Tell
    <2>1. UNCHANGED <<act, sh, pcm, fetch>> /\ frame'.pc # "admitted"
      BY <1>0, <1>1 DEF Enter, ClearBusy, LoadWaiter, Tell, Frames
    <2>2. QED
      BY <2>1 DEF FreshInv
  <1>2. CASE Screen
    <2>1. UNCHANGED <<act, sh, pcm, fetch>>
      BY <1>2 DEF Screen
    <2>2. frame'.pc = "admitted" => frame'.epoch = sh.epoch
      BY <1>0, <1>2 DEF Screen, Accepting, Frames
    <2>3. QED
      BY <2>1, <2>2 DEF FreshInv
  <1>3. CASE Work
    <2>1. UNCHANGED <<act, sh, fetch>> /\ frame.pc = "admitted" /\ frame.epoch = sh.epoch
      BY <1>3 DEF Work, FreshInv
    <2>2. frame'.pc # "admitted" /\ pcm'.input \subseteq {sh.epoch} /\ pcm'.output \subseteq {sh.epoch}
      BY <1>0, <1>3, <2>1 DEF Work, FreshInv, Frames, Pcm
    <2>3. \A a \in Actors : act[a].pc \notin Detached
      BY <2>1 DEF DrainInv, ActorInv, Detached
    <2>4. QED
      BY <2>1, <2>2, <2>3 DEF FreshInv
  <1>4. CASE Fetch
    <2>1. UNCHANGED <<act, sh, pcm, frame>> /\ pcm.input # {} /\ fetch'.epoch = sh.epoch
      BY <1>4 DEF Fetch, FreshInv
    <2>2. \A a \in Actors : act[a].pc \notin Detached
      BY <2>1 DEF FreshInv, NoPcm
    <2>3. QED
      BY <2>1, <2>2 DEF FreshInv
  <1>5. CASE Voice
    <2>1. UNCHANGED <<act, pcm, frame>> /\ fetch.pc = "voice" /\ fetch.epoch = sh.epoch
      BY <1>5 DEF Voice, FreshInv
    <2>2. sh'.epoch = sh.epoch /\ sh'.ready = sh.ready /\ sh'.voice \subseteq {sh.epoch}
      BY <1>0, <1>5, <2>1 DEF Voice, Shared
    <2>3. fetch'.epoch = fetch.epoch
      BY <1>0, <1>5 DEF Voice, Fetches
    <2>4. \A a \in Actors : act[a].pc \notin Detached
      BY <2>1 DEF FreshInv
    <2>5. QED
      BY <2>1, <2>2, <2>3, <2>4 DEF FreshInv
  <1>6. CASE Release
    <2>1. UNCHANGED <<act, sh, frame>> /\ fetch.pc = "release" /\ fetch.epoch = sh.epoch /\ fetch'.pc = "idle"
      BY <1>6 DEF Release, FreshInv
    <2>2. pcm'.input \subseteq {sh.epoch} /\ pcm'.output \subseteq {sh.epoch}
      BY <1>0, <1>6, <2>1 DEF Release, FreshInv, Pcm
    <2>3. \A a \in Actors : act[a].pc \notin Detached
      BY <2>1 DEF FreshInv
    <2>4. QED
      BY <2>1, <2>2, <2>3 DEF FreshInv
  <1>7. QED
    BY <1>1, <1>2, <1>3, <1>4, <1>5, <1>6 DEF AudioStep, ManagerStep

\* The invariant the two theorems below rest on.
LEMMA Freshness == Spec => [](TypeInv /\ DrainInv /\ FreshInv)
  <1>1. Init => FreshInv
    <2>1. ASSUME Init, NEW a \in Actors PROVE act[a].pc \notin Detached
      BY <2>1, RestTyping DEF Init, Detached, Emptied
    <2>2. QED
      BY <2>1 DEF Init, FreshInv, NoPcm
  <1>2. TypeInv /\ DrainInv /\ FreshInv /\ [Next]_vars => FreshInv'
    <2> SUFFICES ASSUME TypeInv, DrainInv, FreshInv, [Next]_vars PROVE FreshInv'
      OBVIOUS
    <2>1. CASE UNCHANGED vars
      BY <2>1 DEF vars, FreshInv
    <2>2. QED
      BY <2>1, MainFresh, OwnerFresh, AudioFresh DEF Next
  <1>3. QED
    BY <1>1, <1>2, Drained, PTL DEF Spec

\* A frame gets no PCM of an acquisition before its own: the instance that held it was detached, its
\* rings emptied, before the next epoch was published.
THEOREM FramesAreFresh == Spec => []FreshFrames
  <1>1. FreshInv => FreshFrames
    BY DEF FreshInv, FreshFrames
  <1>2. QED
    BY <1>1, Freshness, PTL

\* The VAD state of a ready AFE that accepts input is of the acquisition asked for.
THEOREM VoiceIsFresh == Spec => []FreshVoice
  <1>1. FreshInv => FreshVoice
    BY DEF FreshInv, FreshVoice, Accepting
  <1>2. QED
    BY <1>1, Freshness, PTL

----------------------------------------------------------------------------
(* What the AFE is once idle.                                              *)

\* An actor that waits for the mutex or holds it in the procedure.
Called(c) == c.pc \in Critical \cup {"lock"}

\* Where the parts of the procedure are run, and where they return to.
JobOf(c) ==
    /\ c.pc = "retired" => c.job = "retire"
    /\ c.pc \in {"build"} \cup Coming => c.job = "rebuild"

MainJob(c) ==
    /\ JobOf(c) /\ c.job = "rebuild"
    /\ Called(c) \/ c.pc = "restore" => c.then = "none" /\ c.else \in {"none", "restore"}

OwnerJob(c) ==
    /\ JobOf(c)
    /\ c.job = "retire" => Called(c)
    /\ Called(c) =>
        \/ c.job = "retire" /\ c.then = "decide" /\ c.else = "done"
        \/ c.job = "rebuild" /\ c.then = "admission" /\ c.else = "done"
        \/ c.job = "rebuild" /\ c.then = "serve" /\ c.else \in {"restore", "serve"}
    /\ c.pc = "restore" => c.then = "serve" /\ c.job = "rebuild"

JobInv ==
    /\ MainJob(act["main"]) /\ OwnerJob(act["owner"])
    /\ act["owner"].pc \notin {"look", "asleep"} => sh.busy

\* Goto changes the step only, of its actor only.
LEMMA GotoFields ==
    ASSUME TypeInv, NEW a \in Actors, NEW pc, Goto(a, pc)
    PROVE  /\ act'[a].pc = pc /\ act'[a].wanted = act[a].wanted
           /\ act'[a].job = act[a].job /\ act'[a].then = act[a].then /\ act'[a].else = act[a].else
           /\ \A b \in Actors : b # a => act'[b] = act[b]
  BY DEF TypeInv, ActTyped, Goto, Locals

\* An actor at rest.
LEMMA RestFields ==
    ASSUME TypeInv, NEW a \in Actors, act' = [act EXCEPT ![a] = Rest(a)]
    PROVE  /\ act'[a].pc \in {"none", "look"} /\ act'[a].pc = Rest(a).pc /\ act'[a].job = "rebuild"
           /\ \A b \in Actors : b # a => act'[b] = act[b]
  BY RestTyping DEF TypeInv, ActTyped, Rest

\* The procedure returns to where it was to.
LEMMA ResultFields ==
    ASSUME TypeInv, NEW a \in Actors, NEW value \in BOOLEAN, Result(a, value),
           NEW next, next = IF value THEN act[a].then ELSE act[a].else
    PROVE  /\ next = "none" => act'[a].pc = Rest(a).pc /\ act'[a].job = "rebuild"
           /\ next = "restore" => /\ act'[a].pc = "restore" /\ act'[a].job = act[a].job
                                  /\ act'[a].then = act[a].then /\ act'[a].else = act[a].else
           /\ next \notin {"none", "restore"} => act'[a].pc = next /\ act'[a].job = "rebuild"
           /\ \A b \in Actors : b # a => act'[b] = act[b]
  <1>0. act \in [Actors -> Locals] /\ act[a] \in Locals /\ Rest(a) \in Locals /\ Rest(a).job = "rebuild"
    BY RestTyping DEF TypeInv, ActTyped, Rest
  <1>1. CASE next = "none"
    BY <1>0, <1>1 DEF Result
  <1>2. CASE next = "restore"
    <2>1. act' = [act EXCEPT ![a] = [act[a] EXCEPT !.pc = next]]
      BY <1>2 DEF Result
    <2>2. QED
      BY <1>0, <1>2, <2>1 DEF Locals
  <1>3. CASE next \notin {"none", "restore"}
    <2>1. act' = [act EXCEPT ![a] = [Rest(a) EXCEPT !.pc = next]]
      BY <1>3 DEF Result
    <2>2. [Rest(a) EXCEPT !.pc = next].pc = next /\ [Rest(a) EXCEPT !.pc = next].job = "rebuild"
      BY <1>0 DEF Locals
    <2>3. QED
      BY <1>0, <1>3, <2>1, <2>2
  <1>4. QED
    BY <1>1, <1>2, <1>3

\* A call of the procedure.
LEMMA CallFields ==
    ASSUME TypeInv, NEW a \in Actors, NEW job, NEW then, NEW else, Call(a, job, then, else)
    PROVE  /\ act'[a].pc = "lock" /\ act'[a].job = job /\ act'[a].then = then /\ act'[a].else = else
           /\ \A b \in Actors : b # a => act'[b] = act[b]
  BY DEF TypeInv, ActTyped, Call, Locals

\* A call of the procedure with a new setting.
LEMMA ApplyFields ==
    ASSUME TypeInv, NEW a \in Actors, NEW name, NEW new, NEW then, Apply(a, name, new, then)
    PROVE  /\ act'[a].pc = "lock" /\ act'[a].job = act[a].job
           /\ act'[a].then = then /\ act'[a].else = "restore"
           /\ \A b \in Actors : b # a => act'[b] = act[b]
  BY DEF TypeInv, ActTyped, Apply, Locals

\* The call of the procedure that restores the old one.
LEMMA RestoreFields ==
    ASSUME TypeInv, NEW a \in Actors, Restore(a)
    PROVE  /\ act[a].pc = "restore" /\ act'[a].pc = "lock" /\ act'[a].job = "rebuild"
           /\ act'[a].then = act[a].then /\ act'[a].else = act[a].then
           /\ \A b \in Actors : b # a => act'[b] = act[b]
  <1>1. /\ Rest(a) \in Locals /\ Rest(a).job = "rebuild" /\ act[a].pc = "restore"
        /\ act' = [act EXCEPT ![a] = [Rest(a) EXCEPT !.pc = "lock", !.then = act[a].then,
                                                     !.else = act[a].then]]
    BY RestTyping DEF Restore, At, Rest
  <1>2. QED
    BY <1>1 DEF TypeInv, ActTyped, Locals

\* Where a step of the procedure leads its actor.
LEMMA ProcedureLeads ==
    ASSUME TypeInv, NEW a \in Actors, Procedure(a)
    PROVE  /\ Called(act[a])
           /\ \/ \E pc \in Critical \ Detached : Goto(a, pc)
              \/ Goto(a, "retired") /\ act[a].job # "rebuild"
              \/ Goto(a, "build") /\ act[a].job = "rebuild"
              \/ act[a].pc \in {"build"} \cup Coming /\ \E pc \in Coming : Goto(a, pc)
              \/ \E value \in BOOLEAN : Result(a, value)
              \/ /\ act[a].pc \in Coming
                 /\ act' = [act EXCEPT ![a].wanted = request.active /\ sh.epoch = request.epoch,
                                       ![a].pc = "install"]
  <1> USE DEF Called, Critical, Detached, Emptied, Coming, At
  <1>1. CASE Lock(a) \/ Drain(a) \/ DrainCheck(a) \/ DrainRegister(a) \/ DrainWait(a)
    BY <1>1 DEF Lock, Drain, DrainCheck, DrainRegister, DrainWait
  <1>2. CASE DrainSettle(a)
    BY <1>2 DEF DrainSettle, Leave
  <1>3. CASE Detach(a)
    BY <1>3 DEF Detach
  <1>4. CASE Retired(a) \/ Build(a)
    BY <1>4 DEF Retired, Build, Leave
  <1>5. CASE PublishEpoch(a) \/ LoadRequest(a)
    BY <1>5 DEF PublishEpoch, LoadRequest
  <1>6. CASE Install(a) \/ Up(a)
    BY <1>6 DEF Install, Up, Leave
  <1>7. QED
    BY <1>1, <1>2, <1>3, <1>4, <1>5, <1>6 DEF Procedure

\* The procedure.
LEMMA ProcedureJobs ==
    ASSUME TypeInv, JobInv, NEW a \in Actors, Procedure(a)
    PROVE  JobInv'
  <1> DEFINE c == act[a]
             d == act'[a]
  <1>0. c \in Locals /\ a \in {"main", "owner"} /\ act \in [Actors -> Locals]
    BY DEF TypeInv, ActTyped, Actors
  <1>1. Called(c) /\ JobOf(c)
    BY <1>0, ProcedureLeads DEF JobInv, MainJob, OwnerJob
  <1>2. CASE Called(d) /\ d.job = c.job /\ d.then = c.then /\ d.else = c.else /\ JobOf(d)
             /\ \A b \in Actors : b # a => act'[b] = act[b]
    <2>1. d.pc \notin {"restore", "look", "asleep"} /\ c.pc \notin {"look", "asleep"}
      BY <1>1, <1>2 DEF Called, Critical
    <2>2. sh'.busy = sh.busy
      BY ProcedureMoves
    <2>3. QED
      BY <1>0, <1>1, <1>2, <2>1, <2>2 DEF JobInv, MainJob, OwnerJob, Actors
  <1>3. ASSUME NEW value \in BOOLEAN, Result(a, value) PROVE JobInv'
    <2> DEFINE next == IF value THEN c.then ELSE c.else
    <2>1. sh'.busy = sh.busy
      BY ProcedureMoves
    <2>2. CASE a = "main"
      <3>1. /\ next \in {"none", "restore"} /\ c.job = "rebuild"
            /\ c.then = "none" /\ c.else \in {"none", "restore"}
        BY <1>1, <2>2 DEF JobInv, MainJob
      <3>2. MainJob(d) /\ act'["owner"] = act["owner"]
        <4>1. CASE next = "none"
          BY <1>3, <2>2, <4>1, ResultFields DEF MainJob, JobOf, Called, Coming, Critical, Rest, Actors
        <4>2. CASE next = "restore"
          BY <1>3, <2>2, <3>1, <4>2, ResultFields DEF MainJob, JobOf, Called, Coming, Critical, Actors
        <4>3. QED
          BY <3>1, <4>1, <4>2
      <3>3. QED
        BY <2>1, <2>2, <3>2 DEF JobInv
    <2>3. CASE a = "owner"
      <3>1. next \in {"decide", "done", "admission", "serve", "restore"} /\ sh.busy
            /\ (next = "restore" => c.then = "serve" /\ c.job = "rebuild")
        BY <1>1, <2>3 DEF JobInv, OwnerJob, Called, Critical
      <3>2. OwnerJob(d) /\ act'["main"] = act["main"]
        <4>1. CASE next # "restore"
          BY <1>3, <2>3, <3>1, <4>1, ResultFields DEF OwnerJob, JobOf, Called, Coming, Critical, Actors
        <4>2. CASE next = "restore"
          BY <1>3, <2>3, <3>1, <4>2, ResultFields DEF OwnerJob, JobOf, Called, Coming, Critical, Actors
        <4>3. QED
          BY <4>1, <4>2
      <3>3. QED
        BY <2>1, <2>3, <3>1, <3>2 DEF JobInv
    <2>4. QED
      BY <1>0, <2>2, <2>3
  <1>4. ASSUME NEW pc \in Critical, Goto(a, pc), pc = "retired" => c.job = "retire",
               pc \in {"build"} \cup Coming => c.job = "rebuild"
        PROVE  JobInv'
    <2>1. Called(d) /\ d.job = c.job /\ d.then = c.then /\ d.else = c.else /\ d.pc = pc
          /\ \A b \in Actors : b # a => act'[b] = act[b]
      BY <1>4, GotoFields DEF Called
    <2>2. JobOf(d)
      BY <1>4, <2>1 DEF JobOf
    <2>3. QED
      BY <1>2, <2>1, <2>2
  <1>5. CASE /\ c.pc \in Coming
             /\ act' = [act EXCEPT ![a].wanted = request.active /\ sh.epoch = request.epoch,
                                   ![a].pc = "install"]
    <2>1. d.pc = "install" /\ d.job = c.job /\ d.then = c.then /\ d.else = c.else
          /\ \A b \in Actors : b # a => act'[b] = act[b]
      BY <1>0, <1>5 DEF Locals
    <2>2. Called(d) /\ JobOf(d)
      BY <1>1, <1>5, <2>1 DEF Called, JobOf, Critical, Coming
    <2>3. QED
      BY <1>2, <2>1, <2>2
  <1>6. \/ \E pc \in Critical \ Detached : Goto(a, pc)
        \/ Goto(a, "retired") /\ c.job = "retire"
        \/ Goto(a, "build") /\ c.job = "rebuild"
        \/ c.job = "rebuild" /\ \E pc \in Coming : Goto(a, pc)
        \/ \E value \in BOOLEAN : Result(a, value)
        \/ /\ c.pc \in Coming
           /\ act' = [act EXCEPT ![a].wanted = request.active /\ sh.epoch = request.epoch,
                                 ![a].pc = "install"]
    BY <1>0, <1>1, ProcedureLeads DEF JobOf, Locals
  <1>7. ASSUME NEW pc \in Critical \ Detached, Goto(a, pc) PROVE JobInv'
    BY <1>4, <1>7 DEF Detached, Emptied, Coming
  <1>8. CASE Goto(a, "retired") /\ c.job = "retire"
    BY <1>4, <1>8 DEF Critical, Coming
  <1>9. CASE Goto(a, "build") /\ c.job = "rebuild"
    BY <1>4, <1>9 DEF Critical, Coming
  <1>10. ASSUME c.job = "rebuild", NEW pc \in Coming, Goto(a, pc) PROVE JobInv'
    BY <1>4, <1>10 DEF Critical, Coming
  <1>11. QED
    BY <1>3, <1>5, <1>6, <1>7, <1>8, <1>9, <1>10

\* The owner's own steps: a call returns to where a pass goes on.
LEMMA OwnerJobs ==
    ASSUME TypeInv, JobInv, OwnerPass
    PROVE  JobInv'
  <1> DEFINE c == act["owner"]
             d == act'["owner"]
  <1>0. "owner" \in Actors /\ "main" \in Actors /\ sh \in Shared /\ act \in [Actors -> Locals]
        /\ c \in Locals /\ "main" # "owner"
    BY DEF TypeInv, TypeOK, ActTyped, Actors
  <1>1. SUFFICES OwnerJob(d) /\ act'["main"] = act["main"] /\ (d.pc \notin {"look", "asleep"} => sh'.busy)
    BY DEF JobInv
  <1> USE DEF OwnerJob, JobOf, Called, Critical, Coming
  <1>2. CASE Restore("owner")
    <2>1. d.pc = "lock" /\ d.job = "rebuild" /\ d.then = c.then /\ d.else = c.then /\ c.pc = "restore"
          /\ act'["main"] = act["main"]
      BY <1>0, <1>2, RestoreFields
    <2>2. sh' = sh
      BY <1>2 DEF Restore
    <2>3. QED
      BY <2>1, <2>2 DEF JobInv
  <1>3. ASSUME NEW pc \in {"take", "asleep", "service", "done", "decide", "serve", "admission", "latest",
                           "admit", "start"},
               Goto("owner", pc), c.pc \in Elsewhere \cup {"latest", "admit", "start"}, c.pc # "lock",
               sh'.busy \/ pc = "asleep"
        PROVE  OwnerJob(d) /\ act'["main"] = act["main"] /\ (d.pc \notin {"look", "asleep"} => sh'.busy)
    <2>1. d.pc = pc /\ d.job = c.job /\ act'["main"] = act["main"]
      BY <1>0, <1>3, GotoFields
    <2>2. c.job = "rebuild"
      BY <1>0, <1>3 DEF JobInv, Elsewhere, Locals
    <2>3. QED
      BY <1>3, <2>1, <2>2
  <1>4. c.pc \notin {"look", "asleep"} => sh.busy
    BY DEF JobInv
  <1>5. CASE Look \/ Awake
    <2>1. c.pc \in {"look", "asleep"} /\ (Goto("owner", "take") \/ Goto("owner", "asleep"))
      BY <1>5 DEF Look, Awake, At
    <2>2. sh'.busy \/ Goto("owner", "asleep")
      BY <1>0, <1>5 DEF Look, Awake, Shared
    <2>3. c.pc \in Elsewhere
      BY <2>1 DEF Elsewhere, Steps
    <2>4. CASE Goto("owner", "asleep")
      BY <1>3, <2>1, <2>3, <2>4
    <2>5. CASE Goto("owner", "take") /\ sh'.busy
      BY <1>3, <2>1, <2>3, <2>5
    <2>6. QED
      BY <2>1, <2>2, <2>4, <2>5
  <1>6. CASE Take
    <2>1. sh' = sh /\ c.pc = "take"
      BY <1>6 DEF Take, At
    <2>2. CASE Goto("owner", "serve")
      BY <1>3, <1>4, <2>1, <2>2 DEF Elsewhere, Steps
    <2>3. CASE Apply("owner", "mode", [config EXCEPT !.mode = Head(queue)], "serve")
      <3>1. c.job = "rebuild"
        BY <1>0, <2>1 DEF JobInv, Locals
      <3>2. d.pc = "lock" /\ d.job = c.job /\ d.then = "serve" /\ d.else = "restore"
            /\ act'["main"] = act["main"]
        BY <1>0, <2>3, ApplyFields
      <3>3. QED
        BY <1>4, <2>1, <3>1, <3>2
    <2>4. QED
      BY <1>6, <2>2, <2>3 DEF Take
  <1>7. CASE Serve \/ AdmissionLock \/ Latest \/ Admit \/ Start
    <2>1. sh'.busy = sh.busy /\ c.pc \in {"serve", "admission", "latest", "admit", "start"}
      BY <1>0, <1>7 DEF Serve, AdmissionLock, Latest, Admit, Start, At, Shared
    <2>2. \E pc \in {"service", "done", "latest", "admit", "start"} : Goto("owner", pc)
      BY <1>7 DEF Serve, AdmissionLock, Latest, Admit, Start
    <2>3. QED
      BY <1>3, <1>4, <2>1, <2>2 DEF Elsewhere, Steps
  <1>8. CASE Service \/ Decide
    <2>1. sh' = sh /\ c.pc \in {"service", "decide"}
      BY <1>8 DEF Service, Decide, At
    <2>2. CASE \E pc \in {"decide", "done", "admission"} : Goto("owner", pc)
      BY <1>3, <1>4, <2>1, <2>2 DEF Elsewhere, Steps
    <2>3. CASE Call("owner", "retire", "decide", "done") \/ Call("owner", "rebuild", "admission", "done")
      BY <1>0, <1>4, <2>1, <2>3, CallFields
    <2>4. QED
      BY <1>8, <2>2, <2>3 DEF Service, Decide
  <1>9. CASE Done
    <2>1. act' = [act EXCEPT !["owner"] = Rest("owner")] /\ Rest("owner").pc = "look"
      BY <1>9 DEF Done, Rest
    <2>2. d.pc = "look" /\ d.job = "rebuild" /\ act'["main"] = act["main"]
      BY <1>0, <2>1, RestFields
    <2>3. QED
      BY <2>2
  <1>10. QED
    BY <1>2, <1>5, <1>6, <1>7, <1>8, <1>9 DEF OwnerPass

\* Main's calls and its own steps.
LEMMA MainJobs ==
    ASSUME TypeInv, JobInv, MainCall \/ MainPass
    PROVE  JobInv'
  <1> DEFINE c == act["main"]
             d == act'["main"]
  <1>0. "owner" \in Actors /\ "main" \in Actors /\ sh \in Shared /\ act \in [Actors -> Locals]
        /\ c \in Locals /\ "main" # "owner" /\ c.job = "rebuild"
    BY DEF TypeInv, TypeOK, ActTyped, Actors, JobInv, MainJob
  <1>1. SUFFICES MainJob(d) /\ act'["owner"] = act["owner"] /\ (sh.busy => sh'.busy)
    BY DEF JobInv
  <1>2. sh.busy => sh'.busy
    BY <1>0 DEF MainCall, MainPass, SetProcessingActive, RequestReinit, VadIntent, ToggleStopped,
                ToggleRebuild, ToggleLive, Restore, Withdraw, Pend, Notify, Overwrite, Live, Shared
  <1> USE DEF MainJob, JobOf, Called, Critical, Coming
  <1>3. CASE Restore("main")
    BY <1>0, <1>2, <1>3, RestoreFields DEF JobInv
  <1>4. ASSUME NEW pc \in {"pend", "withdraw", "notify"}, Goto("main", pc)
        PROVE  MainJob(d) /\ act'["owner"] = act["owner"]
    BY <1>0, <1>4, GotoFields
  <1>5. CASE Withdraw \/ Pend \/ VadIntent \/ \E active \in BOOLEAN : SetProcessingActive(active)
    BY <1>2, <1>4, <1>5 DEF Withdraw, Pend, VadIntent, SetProcessingActive
  <1>6. ASSUME Return PROVE MainJob(d) /\ act'["owner"] = act["owner"]
    <2>1. act' = [act EXCEPT !["main"] = Rest("main")] /\ Rest("main").pc = "none"
      BY <1>6 DEF Return, Rest
    <2>2. QED
      BY <1>0, <2>1, RestFields
  <1>7. ASSUME Call("main", "rebuild", "none", "none") PROVE MainJob(d) /\ act'["owner"] = act["owner"]
    BY <1>0, <1>7, CallFields
  <1>8. CASE Notify
    BY <1>2, <1>6, <1>8 DEF Notify, Return
  <1>9. CASE Overwrite
    <2>1. act' = [act EXCEPT !["main"] = [Rest("main") EXCEPT !.pc = "notify"]]
          /\ Rest("main").job = "rebuild"
      BY <1>9 DEF Overwrite, Rest
    <2>2. d.pc = "notify" /\ d.job = "rebuild" /\ act'["owner"] = act["owner"]
      BY <1>0, <2>1, RestTyping DEF Locals
    <2>3. QED
      BY <1>2, <2>2
  <1>10. CASE Live
    BY <1>2, <1>6, <1>7, <1>10 DEF Live
  <1>11. ASSUME NEW m \in Modes, RequestReinit(m) PROVE MainJob(d) /\ act'["owner"] = act["owner"]
    <2>1. d.pc = "overwrite" /\ d.job = c.job /\ act'["owner"] = act["owner"]
      BY <1>0, <1>11 DEF RequestReinit, Locals
    <2>2. QED
      BY <1>0, <2>1
  <1>12. ASSUME NEW f \in Switches, ToggleStopped(f) PROVE MainJob(d) /\ act'["owner"] = act["owner"]
    <2>1. Call("main", "rebuild", "none", "none") \/ UNCHANGED act
      BY <1>12 DEF ToggleStopped
    <2>2. QED
      BY <1>7, <2>1 DEF JobInv
  <1>13. ASSUME NEW f \in Switches, ToggleRebuild(f) PROVE MainJob(d) /\ act'["owner"] = act["owner"]
    <2>1. Apply("main", f, Switched(f, f \notin config.on), "none")
      BY <1>13 DEF ToggleRebuild
    <2>2. QED
      BY <1>0, <2>1, ApplyFields
  <1>14. ASSUME NEW f \in Switches, ToggleLive(f) PROVE MainJob(d) /\ act'["owner"] = act["owner"]
    <2>1. d.pc = "live" /\ d.job = c.job /\ act'["owner"] = act["owner"]
      BY <1>0, <1>14 DEF ToggleLive, Locals
    <2>2. QED
      BY <1>0, <2>1
  <1>15. QED
    BY <1>2, <1>3, <1>5, <1>8, <1>9, <1>10, <1>11, <1>12, <1>13, <1>14 DEF MainCall, MainPass

\* process() and the manager touch none of it.
LEMMA AudioKeeps ==
    ASSUME TypeInv, Enter \/ AudioStep \/ ManagerStep
    PROVE  /\ UNCHANGED <<act, request, instance, history, lock, queue>>
           /\ sh'.epoch = sh.epoch /\ sh'.admit = sh.admit /\ sh'.ready = sh.ready
           /\ sh'.stopped = sh.stopped /\ sh'.pending = sh.pending /\ sh'.busy = sh.busy
  <1>1. sh \in Shared
    BY DEF TypeInv, TypeOK
  <1>2. QED
    BY <1>1 DEF Enter, AudioStep, Screen, Work, ClearBusy, LoadWaiter, Tell, ManagerStep, Fetch, Voice,
                Release, Shared

\* Every step.
LEMMA JobSteps ==
    ASSUME TypeInv, JobInv, [Next]_vars
    PROVE  JobInv'
  <1>1. CASE UNCHANGED vars
    BY <1>1 DEF vars, JobInv, MainJob, OwnerJob, JobOf, Called
  <1>2. CASE Enter \/ AudioStep \/ ManagerStep
    BY <1>2, AudioKeeps DEF JobInv, MainJob, OwnerJob, JobOf, Called
  <1>3. CASE Procedure("main") \/ Procedure("owner")
    BY <1>3, ProcedureJobs DEF Actors
  <1>4. QED
    BY <1>1, <1>2, <1>3, OwnerJobs, MainJobs DEF Next, OwnerStep, MainStep, OwnerPass, MainPass

\* Where the instance is while the procedure goes on: gone, made but not running, ready again.
InstanceInv ==
    /\ \A a \in Actors : /\ act[a].pc \in {"retired", "build"} => ~instance.exists
                         /\ act[a].pc \in Detached \ {"up"} => ~instance.running
    /\ instance.exists => sh.ready \/ \E a \in Actors : act[a].pc \in Coming
    /\ act["owner"].pc \in {"admit", "start"} => instance.exists

\* With one actor holding the mutex the other is in no step that needs it.
LEMMA Alone ==
    ASSUME DrainInv, NEW a \in Actors, act[a].pc \in Held, NEW b \in Actors, b # a
    PROVE  act[b].pc \notin Held
  BY DEF DrainInv, ActorInv

\* The procedure takes the instance away, makes it and starts it in this order.
LEMMA ProcedureInstance ==
    ASSUME TypeInv, DrainInv, InstanceInv, NEW a \in Actors, Procedure(a)
    PROVE  InstanceInv'
  <1> USE DEF Critical, Detached, Emptied, Coming
  <1> DEFINE c == act[a]
             d == act'[a]
  <1>0. /\ sh \in Shared /\ instance \in Instances /\ c \in Locals /\ act \in [Actors -> Locals]
        /\ "owner" \in Actors
    BY DEF TypeInv, TypeOK, ActTyped, Actors
  \* What it takes when the actor holds the mutex.
  <1>1. ASSUME c.pc \in Held, \A b \in Actors : b # a => act'[b] = act[b],
               d.pc \in {"retired", "build"} => ~instance'.exists,
               d.pc \in Detached \ {"up"} => ~instance'.running,
               instance'.exists => sh'.ready \/ d.pc \in Coming,
               d.pc \notin {"admit", "start"}
        PROVE  InstanceInv'
    <2>1. \A b \in Actors : b # a => act'[b].pc \notin Held
      BY <1>1, Alone
    <2>2. QED
      BY <1>0, <1>1, <2>1 DEF InstanceInv, Held
  <1>2. CASE Lock(a)
    <2>1. UNCHANGED <<sh, instance>> /\ c.pc = "lock"
      BY <1>2 DEF Lock, At
    <2>2. /\ d.pc = "drain" \/ d.pc \in Outside
          /\ \A b \in Actors : b # a => act'[b] = act[b]
      BY <1>0, <1>2, GotoFields, ResultMoves, MoveTyping DEF Lock, TypeInv
    <2>3. d.pc \notin Detached
      BY <2>2 DEF Outside, Held
    <2>4. d.pc \notin {"admit", "start"}
      BY <2>2 DEF Outside, Held
    <2>5. (\E b \in Actors : act[b].pc \in Coming) => \E b \in Actors : act'[b].pc \in Coming
      BY <2>1, <2>2
    <2>6. \A b \in Actors : act'[b].pc \in Detached => b # a /\ act'[b] = act[b]
      BY <2>2, <2>3
    <2>7. act'["owner"].pc \in {"admit", "start"} => act'["owner"] = act["owner"]
      BY <1>0, <2>2, <2>4
    <2>8. QED
      BY <2>1, <2>5, <2>6, <2>7 DEF InstanceInv
  <1>3. ASSUME NEW value \in BOOLEAN, Result(a, value), c.pc \in Held, instance'.exists => sh'.ready
        PROVE  InstanceInv'
    <2>1. d.pc \in Outside /\ \A b \in Actors : b # a => act'[b] = act[b]
      BY <1>3, ResultMoves, MoveTyping DEF TypeInv
    <2>2. d.pc \notin Detached /\ d.pc \notin {"admit", "start"}
      BY <2>1 DEF Outside, Held
    <2>3. QED
      BY <1>1, <1>3, <2>1, <2>2
  <1>4. ASSUME NEW pc \in Critical, Goto(a, pc), c.pc \in Held,
               pc \in {"retired", "build"} => ~instance'.exists,
               pc \in Detached \ {"up"} => ~instance'.running,
               instance'.exists => sh'.ready \/ pc \in Coming
        PROVE  InstanceInv'
    <2>1. d.pc = pc /\ \A b \in Actors : b # a => act'[b] = act[b]
      BY <1>4, GotoFields
    <2>2. QED
      BY <1>1, <1>4, <2>1
  <1>5. c.pc \in Held /\ c.pc \notin Coming => (instance.exists => sh.ready)
    BY Alone DEF InstanceInv, Held
  <1>6. CASE Drain(a) \/ DrainCheck(a) \/ DrainRegister(a) \/ DrainWait(a)
    <2>1. UNCHANGED instance /\ sh'.ready = sh.ready
      BY <1>0, <1>6 DEF Drain, DrainCheck, DrainRegister, DrainWait, Shared
    <2>2. c.pc \in {"drain", "check", "clear", "wait"}
      BY <1>6 DEF Drain, DrainCheck, DrainRegister, DrainWait, At
    <2>3. c.pc \in Held /\ c.pc \notin Coming
      BY <2>2 DEF Held
    <2>4. \E pc \in Critical \ Detached : Goto(a, pc)
      BY <1>6 DEF Drain, DrainCheck, DrainRegister, DrainWait
    <2>5. QED
      BY <1>4, <1>5, <2>1, <2>3, <2>4
  <1>7. CASE DrainSettle(a)
    <2>1. UNCHANGED instance /\ sh'.ready = sh.ready
      BY <1>0, <1>7 DEF DrainSettle, Leave, Shared
    <2>2. c.pc \in Held /\ c.pc \notin Coming
      BY <1>7 DEF DrainSettle, At, Held
    <2>3. Result(a, FALSE) \/ Goto(a, "detach")
      BY <1>7 DEF DrainSettle, Leave
    <2>4. QED
      BY <1>3, <1>4, <1>5, <2>1, <2>2, <2>3
  <1>8. CASE Detach(a)
    <2>1. instance' = NoInstance /\ c.pc \in Held /\ (Goto(a, "build") \/ Goto(a, "retired"))
      BY <1>8 DEF Detach, At, Held
    <2>2. ~instance'.exists /\ ~instance'.running
      BY <2>1 DEF NoInstance
    <2>3. QED
      BY <1>4, <2>1, <2>2
  <1>9. CASE Retired(a)
    <2>1. UNCHANGED instance /\ c.pc = "retired" /\ Result(a, TRUE)
      BY <1>9 DEF Retired, Leave, At
    <2>2. ~instance.exists
      BY <2>1 DEF InstanceInv
    <2>3. QED
      BY <1>3, <2>1, <2>2 DEF Held
  <1>10. CASE Build(a)
    <2>1. c.pc = "build" /\ ~instance.exists
      BY <1>10 DEF Build, At, InstanceInv
    <2>2. CASE UNCHANGED instance /\ \E value \in BOOLEAN : Result(a, value)
      BY <1>3, <2>1, <2>2 DEF Held
    <2>3. CASE instance' = Built /\ Goto(a, "epoch")
      <3>1. ~instance'.running
        BY <2>3 DEF Built, NoInstance
      <3>2. QED
        BY <1>4, <2>1, <2>3, <3>1 DEF Held
    <2>4. QED
      BY <1>10, <2>2, <2>3 DEF Build, Leave
  <1>11. CASE PublishEpoch(a)
    <2>1. UNCHANGED instance /\ Goto(a, "load") /\ c.pc = "epoch"
      BY <1>11 DEF PublishEpoch, At
    <2>2. ~instance.running
      BY <2>1 DEF InstanceInv
    <2>3. QED
      BY <1>4, <2>1, <2>2 DEF Held
  <1>12. CASE LoadRequest(a)
    <2>1. UNCHANGED instance /\ c.pc = "load"
      BY <1>12 DEF LoadRequest, At
    <2>2. Moved(a, {"install"})
      BY <1>12, LoadMoves
    <2>3. d.pc = "install" /\ \A b \in Actors : b # a => act'[b] = act[b]
      BY <2>2, MoveTyping DEF TypeInv
    <2>4. ~instance.running
      BY <2>1 DEF InstanceInv
    <2>5. QED
      BY <1>1, <2>1, <2>3, <2>4 DEF Held
  <1>13. CASE Install(a)
    <2>1. c.pc \in Held
      BY <1>13 DEF Install, At, Held
    <2>2. CASE Goto(a, "up")
      BY <1>4, <2>1, <2>2
    <2>3. CASE Result(a, FALSE) /\ instance' = NoInstance
      <3>1. ~instance'.exists
        BY <2>3 DEF NoInstance
      <3>2. QED
        BY <1>3, <2>1, <2>3, <3>1
    <2>4. QED
      BY <1>13, <2>2, <2>3 DEF Install, Leave
  <1>14. CASE Up(a)
    <2>1. c.pc \in Held /\ Result(a, TRUE)
      BY <1>14 DEF Up, At, Leave, Held
    <2>2. instance'.exists => sh'.ready
      <3>1. CASE AllOff
        BY <1>14, <3>1 DEF Up, NoInstance
      <3>2. CASE ~AllOff
        BY <1>0, <1>14, <3>2 DEF Up, Leave, Shared
      <3>3. QED
        BY <3>1, <3>2
    <2>3. QED
      BY <1>3, <2>1, <2>2
  <1>15. QED
    BY <1>2, <1>6, <1>7, <1>8, <1>9, <1>10, <1>11, <1>12, <1>13, <1>14 DEF Procedure

\* A step outside the procedure that leaves the instance.
LEMMA OutsideInstance ==
    ASSUME TypeInv, InstanceInv, NEW a \in Actors, Moved(a, Elsewhere) \/ UNCHANGED act,
           act[a].pc \notin Detached, UNCHANGED instance, sh'.ready = sh.ready,
           act'["owner"].pc \in {"admit", "start"} =>
               act["owner"].pc \in {"admit", "start"} \/ instance.exists
    PROVE  InstanceInv'
  <1> USE DEF Critical, Detached, Emptied, Coming
  <1>1. /\ \A b \in Actors : b # a => act'[b] = act[b]
        /\ act'[a].pc \in Elsewhere \/ act'[a] = act[a]
    BY MoveTyping DEF TypeInv
  <1>2. act'[a].pc \notin Detached
    BY <1>1 DEF Elsewhere
  <1>3. (\E b \in Actors : act[b].pc \in Coming) => \E b \in Actors : act'[b].pc \in Coming
    BY <1>1
  <1>4. \A b \in Actors : act'[b].pc \in Detached => act'[b] = act[b]
    BY <1>1, <1>2
  <1>5. QED
    BY <1>3, <1>4 DEF InstanceInv

\* Every step.
LEMMA InstanceSteps ==
    ASSUME TypeInv, DrainInv, InstanceInv, [Next]_vars
    PROVE  InstanceInv'
  <1>0. /\ sh \in Shared /\ instance \in Instances /\ act \in [Actors -> Locals]
        /\ "owner" \in Actors /\ "main" \in Actors /\ "owner" # "main"
    BY DEF TypeInv, TypeOK, ActTyped, Actors
  <1> USE DEF Critical, Detached, Emptied, Coming
  <1>1. CASE UNCHANGED vars
    BY <1>1 DEF vars, InstanceInv
  <1>2. CASE Enter \/ AudioStep \/ ManagerStep
    BY <1>2, AudioKeeps DEF InstanceInv
  <1>3. CASE Procedure("main") \/ Procedure("owner")
    BY <1>0, <1>3, ProcedureInstance
  <1>4. CASE MainCall \/ MainPass
    <2>1. UNCHANGED instance /\ sh'.ready = sh.ready
      BY <1>0, <1>4 DEF MainCall, MainPass, SetProcessingActive, RequestReinit, VadIntent, ToggleStopped,
                  ToggleRebuild, ToggleLive, Restore, Withdraw, Pend, Notify, Overwrite, Live, Shared
    <2>2. act["main"].pc \notin Detached
      BY <1>4 DEF MainCall, MainPass, SetProcessingActive, RequestReinit, VadIntent, ToggleStopped,
                  ToggleRebuild, ToggleLive, Restore, Withdraw, Pend, Notify, Overwrite, Live, At
    <2>3. Moved("main", Elsewhere) \/ UNCHANGED act
      BY <1>4, MainMoves
    <2>4. act'["owner"] = act["owner"]
      BY <1>0, <2>3, MoveTyping DEF TypeInv
    <2>5. QED
      BY <1>0, <2>1, <2>2, <2>3, <2>4, OutsideInstance
  <1>5. CASE OwnerPass /\ ~Start
    <2>1. UNCHANGED instance /\ sh'.ready = sh.ready
      BY <1>0, <1>5 DEF OwnerPass, Restore, Look, Awake, Take, Serve, Service, Decide, AdmissionLock,
                  Latest, Admit, Done, Shared
    <2>2. act["owner"].pc \notin Detached
      BY <1>5 DEF OwnerPass, Restore, Look, Awake, Take, Serve, Service, Decide, AdmissionLock, Latest,
                  Admit, Done, At
    <2>3. Moved("owner", Elsewhere)
      BY <1>5, OwnerMoves
    <2>4. CASE Latest \/ Admit
      <3>1. \/ Goto("owner", "admit") /\ instance.exists
            \/ Goto("owner", "done")
            \/ act["owner"].pc = "admit"
        BY <2>4 DEF Latest, Admit, At
      <3>2. act'["owner"].pc = "done" \/ act["owner"].pc = "admit" \/ instance.exists
        BY <1>0, <3>1, GotoFields
      <3>3. QED
        BY <1>0, <2>1, <2>2, <2>3, <3>2, OutsideInstance
    <2>5. CASE ~(Latest \/ Admit)
      <3>1. act'["owner"].pc \notin {"admit", "start"}
        <4>1. ASSUME NEW pc \in {"take", "asleep", "serve", "service", "done", "decide", "admission",
                                 "latest"},
                     Goto("owner", pc)
              PROVE  act'["owner"].pc \notin {"admit", "start"}
          BY <1>0, <4>1, GotoFields
        <4>2. CASE Done
          BY <1>0, <4>2, RestFields DEF Done
        <4>3. CASE Restore("owner")
          BY <1>0, <4>3, RestoreFields
        <4>4. CASE Look \/ Awake \/ Serve \/ AdmissionLock
          BY <4>1, <4>4 DEF Look, Awake, Serve, AdmissionLock
        <4>5. CASE Take
          BY <1>0, <4>1, <4>5, ApplyFields DEF Take
        <4>6. CASE Service \/ Decide
          BY <1>0, <4>1, <4>6, CallFields DEF Service, Decide
        <4>7. QED
          BY <1>5, <2>5, <4>2, <4>3, <4>4, <4>5, <4>6 DEF OwnerPass
      <3>2. QED
        BY <1>0, <2>1, <2>2, <2>3, <3>1, OutsideInstance
    <2>6. QED
      BY <2>4, <2>5
  <1>6. CASE Start
    <2>1. act["owner"].pc = "start" /\ Goto("owner", "done") /\ sh'.ready = sh.ready
          /\ instance'.exists = instance.exists
      BY <1>0, <1>6 DEF Start, At, Shared, Instances
    <2>2. act'["owner"].pc = "done" /\ act'["main"] = act["main"]
      BY <1>0, <2>1, GotoFields
    <2>3. act["main"].pc \notin Held
      BY <1>0, <2>1, Alone DEF Held
    <2>4. \A b \in Actors : act[b].pc \notin Detached /\ act'[b].pc \notin Detached
      BY <2>1, <2>2, <2>3 DEF Held, Actors
    <2>5. QED
      BY <2>1, <2>2, <2>4 DEF InstanceInv
  <1>7. QED
    BY <1>1, <1>2, <1>3, <1>4, <1>5, <1>6 DEF Next, OwnerStep, MainStep, OwnerPass, MainPass

\* What an actor in the end of a rebuild has published, loaded and installed.
Loaded(c) ==
    /\ c.pc \in {"load", "install", "up"} => sh.epoch = request.epoch
    /\ c.pc \in {"install", "up"} => c.wanted = request.active
    /\ c.pc = "up" => sh.admit = request.active /\ instance.running = request.active

\* Nothing failed since activity was last asked for, and the owner has taken what was asked.
Served == ~history.failed /\ ~sh.pending /\ act["main"].pc \notin {"withdraw", "pend"}

\* The owner is about to admit the acquisition: what it has been asked for is activity.
Admitting ==
    \/ act["owner"].pc \in {"admission", "latest", "admit", "start"}
    \/ Called(act["owner"]) /\ act["owner"].then = "admission"

Away == \E a \in Actors : act[a].pc \in Detached

\* Once the owner has looked at what is asked and retired what is not, the acquisition is current,
\* nothing runs unasked, and whenever nobody rebuilds or admits, what is asked for runs.
Tended ==
    /\ sh.epoch = request.epoch
    /\ ~request.active => ~instance.running
    /\ Admitting => request.active
    /\ act["owner"].pc = "start" => sh.admit
    /\ act["owner"].pc # "decide" /\ ~Admitting /\ ~Away /\ request.active /\ ~sh.stopped =>
           sh.admit /\ sh.ready /\ instance.running

ServedInv ==
    /\ Loaded(act["owner"])
    /\ act["owner"].pc # "service" /\ act["owner"].job # "retire" => Tended

SettleInv == Loaded(act["main"]) /\ (Served => ServedInv)

\* What the invariant reads, besides the steps of the actors.
Same ==
    /\ UNCHANGED <<request, instance>>
    /\ sh'.epoch = sh.epoch /\ sh'.admit = sh.admit /\ sh'.ready = sh.ready /\ sh'.stopped = sh.stopped

\* The procedure asks for nothing and serves nothing.
LEMMA ProcedureServed ==
    ASSUME TypeInv, NEW a \in Actors, Procedure(a)
    PROVE  request' = request /\ (Served' => Served)
  <1>1. request' = request
    BY DEF Procedure, Lock, Drain, DrainCheck, DrainRegister, DrainWait, DrainSettle, Detach, Retired, Build,
           PublishEpoch, LoadRequest, Install, Up
  <1>2. sh'.pending = sh.pending /\ Called(act[a])
    BY ProcedureMoves, ProcedureLeads
  <1>3. history.failed => history'.failed
    <2>1. history \in Histories
      BY DEF TypeInv, TypeOK, Histories
    <2>2. UNCHANGED history \/ Fault \/ Failed
      BY DEF Procedure, Lock, Drain, DrainCheck, DrainRegister, DrainWait, DrainSettle, Detach, Retired,
             Build, PublishEpoch, LoadRequest, Install, Up
    <2>3. QED
      BY <2>1, <2>2 DEF Fault, Failed, Histories
  <1>4. act["main"].pc \in {"withdraw", "pend"} => act'["main"] = act["main"]
    <2>1. act["main"].pc \in {"withdraw", "pend"} => a # "main"
      BY <1>2 DEF Called, Critical
    <2>2. a # "main" => act'["main"] = act["main"]
      <3>1. ASSUME NEW pc, Goto(a, pc), a # "main" PROVE act'["main"] = act["main"]
        BY <3>1, GotoFields DEF Actors
      <3>2. ASSUME NEW value \in BOOLEAN, Result(a, value), a # "main" PROVE act'["main"] = act["main"]
        BY <3>2, ResultMoves, MoveTyping DEF Actors, TypeInv
      <3>3. ASSUME act' = [act EXCEPT ![a].wanted = request.active /\ sh.epoch = request.epoch,
                                      ![a].pc = "install"], a # "main"
            PROVE  act'["main"] = act["main"]
        BY <3>3 DEF TypeInv, ActTyped, Actors
      <3>4. QED
        BY <3>1, <3>2, <3>3, ProcedureLeads
    <2>3. QED
      BY <2>1, <2>2
  <1>5. QED
    BY <1>1, <1>2, <1>3, <1>4 DEF Served

\* A step that fails is not looked at until activity is asked for again.
LEMMA FailsOpen ==
    ASSUME TypeInv, DrainInv, SettleInv, NEW a \in Actors, NEW value \in BOOLEAN, Result(a, value),
           history'.failed, (Same \/ act[a].pc \in Held)
    PROVE  SettleInv'
  <1> USE DEF Critical, Detached, Emptied, Coming
  <1>1. act'[a].pc \in Outside /\ \A b \in Actors : b # a => act'[b] = act[b]
    BY ResultMoves, MoveTyping DEF TypeInv
  <1>2. Loaded(act["main"])'
    <2>1. CASE a = "main"
      BY <1>1, <2>1 DEF Loaded, Outside, Held
    <2>2. CASE a # "main" /\ act[a].pc \in Held
      <3>1. act["main"].pc \notin Held /\ act'["main"] = act["main"]
        BY <1>1, <2>2, Alone DEF Actors
      <3>2. QED
        BY <3>1 DEF Loaded, Held
    <2>3. CASE a # "main" /\ Same
      <3>1. act'["main"] = act["main"]
        BY <1>1, <2>3 DEF Actors
      <3>2. QED
        BY <2>3, <3>1 DEF Loaded, SettleInv, Same
    <2>4. QED
      BY <2>1, <2>2, <2>3
  <1>3. QED
    BY <1>2 DEF SettleInv, Served

\* A step before the detachment.
LEMMA EarlyStep ==
    ASSUME TypeInv, JobInv, SettleInv, NEW a \in Actors, act[a].pc \in (Critical \ Detached) \cup {"lock"},
           NEW pc \in Critical \ Detached, Goto(a, pc), Same, Served' => Served
    PROVE  SettleInv'
  <1> USE DEF Critical, Detached, Emptied, Coming
  <1> DEFINE o == act["owner"]
             m == act["main"]
  <1>1. /\ act'[a].pc = pc /\ act'[a].job = act[a].job /\ act'[a].then = act[a].then
        /\ \A b \in Actors : b # a => act'[b] = act[b]
    BY GotoFields
  <1>2. CASE a = "main"
    <2>1. o' = o /\ m'.pc = pc
      BY <1>1, <1>2 DEF Actors
    <2>2. Away' <=> Away
      BY <1>1 DEF Away
    <2>3. (Admitting' <=> Admitting)
      BY <2>1 DEF Admitting, Called
    <2>4. QED
      BY <2>1, <2>2, <2>3 DEF SettleInv, ServedInv, Tended, Loaded, Same
  <1>3. CASE a = "owner"
    <2>1. m' = m /\ o'.pc = pc /\ o'.job = o.job /\ Called(o') /\ Called(o)
      BY <1>1, <1>3 DEF Actors, Called
    <2>2. Away' <=> Away
      BY <1>1 DEF Away
    <2>3. Admitting' <=> Admitting
      BY <1>1, <1>3, <2>1 DEF Admitting
    <2>4. o.pc \notin {"service", "decide", "start"}
      BY <1>3
    <2>5. QED
      BY <2>1, <2>2, <2>3, <2>4 DEF SettleInv, ServedInv, Tended, Loaded, Same
  <1>4. QED
    BY <1>2, <1>3 DEF Actors

\* A step into the part where the instance is away.
LEMMA LateStep ==
    ASSUME TypeInv, DrainInv, JobInv, SettleInv, NEW a \in Actors, act[a].pc \in Critical,
           act'[a].pc \in Detached, act'[a].job = act[a].job, act'[a].then = act[a].then,
           \A b \in Actors : b # a => act'[b] = act[b],
           request' = request, Served' => Served, sh'.epoch \in {sh.epoch, request.epoch},
           Served' /\ ~request.active => ~instance'.running, a = "main" \/ Served' => Loaded(act[a])'
    PROVE  SettleInv'
  <1> USE DEF Critical, Detached, Emptied, Coming
  <1> DEFINE o == act["owner"]
             m == act["main"]
  <1>0. "owner" \in Actors /\ "main" \in Actors /\ a \in {"main", "owner"}
    BY DEF Actors
  <1>1. \A b \in Actors : b # a => act'[b] = act[b] /\ act[b].pc \notin Held
    BY Alone DEF Held
  <1>2. Loaded(m)' /\ (Served' => Loaded(o)')
    BY <1>0, <1>1 DEF Loaded, Held
  <1>3. Away'
    BY DEF Away
  <1>4. Admitting' <=> Admitting
    <2>1. CASE a = "owner"
      BY <2>1 DEF Admitting, Called
    <2>2. CASE a = "main"
      BY <1>0, <1>1, <2>2 DEF Admitting, Called
    <2>3. QED
      BY <1>0, <2>1, <2>2
  <1>5. o'.pc # "start" /\ (o'.job # "retire" /\ o'.pc # "service" => o.job # "retire" /\ o.pc # "service")
    <2>1. CASE a = "owner"
      BY <2>1
    <2>2. CASE a = "main"
      BY <1>0, <1>1, <2>2 DEF Held
    <2>3. QED
      BY <1>0, <2>1, <2>2
  <1>6. ASSUME Served', o'.job # "retire", o'.pc # "service" PROVE Tended'
    <2>1. Tended
      BY <1>5, <1>6 DEF SettleInv, ServedInv
    <2>2. sh'.epoch = request'.epoch /\ (~request'.active => ~instance'.running)
      BY <1>6, <2>1 DEF Tended
    <2>3. Admitting' => request'.active
      BY <1>4, <2>1 DEF Tended
    <2>4. QED
      BY <1>3, <1>5, <2>2, <2>3 DEF Tended
  <1>7. QED
    BY <1>0, <1>2, <1>6 DEF SettleInv, ServedInv

\* The end of a rebuild that did what was asked.
LEMMA LastStep ==
    ASSUME TypeInv, DrainInv, JobInv, SettleInv, NEW a \in Actors, act[a].pc \in Critical,
           act[a].job = "rebuild", Result(a, TRUE),
           request' = request, Served' => Served, sh'.epoch = sh.epoch,
           ~request.active => ~instance'.running,
           request.active /\ ~sh'.stopped => sh'.admit /\ sh'.ready /\ instance'.running
    PROVE  SettleInv'
  <1> USE DEF Critical, Detached, Emptied, Coming
  <1> DEFINE o == act["owner"]
             m == act["main"]
  <1>0. "owner" \in Actors /\ "main" \in Actors /\ a \in {"main", "owner"}
    BY DEF Actors
  <1>1. \A b \in Actors : b # a => act'[b] = act[b] /\ act[b].pc \notin Held
    BY Alone, ResultFields DEF Held
  <1>2. /\ a = "main" => act'[a].pc = "none"
        /\ a = "owner" => \/ act'[a].pc = "admission" /\ act[a].then = "admission"
                          \/ act'[a].pc = "serve"
    <2>1. CASE a = "main"
      <3>1. act[a].then = "none"
        BY <2>1 DEF JobInv, MainJob, Called
      <3>2. QED
        BY <2>1, <3>1, ResultFields DEF Rest
    <2>2. CASE a = "owner"
      <3>1. act[a].then \in {"admission", "serve"}
        BY <2>2 DEF JobInv, OwnerJob, Called
      <3>2. act'[a].pc = act[a].then
        BY <3>1, ResultFields
      <3>3. QED
        BY <2>2, <3>1, <3>2
    <2>3. QED
      BY <1>0, <2>1, <2>2
  <1>3. \A b \in Actors : Loaded(act[b])'
    BY <1>0, <1>1, <1>2 DEF Loaded, Held
  <1>4. (Admitting' => Admitting) /\ o'.pc # "start"
        /\ (o'.job # "retire" /\ o'.pc # "service" => o.job # "retire" /\ o.pc # "service")
    <2>1. CASE a = "owner"
      BY <1>2, <2>1 DEF Admitting, Called
    <2>2. CASE a = "main"
      BY <1>0, <1>1, <2>2 DEF Admitting, Called, Held
    <2>3. QED
      BY <1>0, <2>1, <2>2
  <1>5. ASSUME Served', o'.job # "retire", o'.pc # "service" PROVE Tended'
    <2>1. Tended
      BY <1>4, <1>5 DEF SettleInv, ServedInv
    <2>2. sh'.epoch = request'.epoch /\ (~request'.active => ~instance'.running)
      BY <2>1 DEF Tended
    <2>3. Admitting' => request'.active
      BY <1>4, <2>1 DEF Tended
    <2>4. QED
      BY <1>4, <2>2, <2>3 DEF Tended
  <1>6. QED
    BY <1>0, <1>3, <1>5 DEF SettleInv, ServedInv

\* The procedure leaves things as they were asked for, or fails.
LEMMA ProcedureSettles ==
    ASSUME TypeInv, DrainInv, JobInv, InstanceInv, SettleInv, NEW a \in Actors, Procedure(a)
    PROVE  SettleInv'
  <1> USE DEF Critical, Detached, Emptied, Coming
  <1> DEFINE c == act[a]
             d == act'[a]
  <1>0. /\ sh \in Shared /\ instance \in Instances /\ act \in [Actors -> Locals]
        /\ history \in Histories /\ a \in {"main", "owner"} /\ c \in Locals
    BY DEF TypeInv, TypeOK, ActTyped, Actors, Histories
  <1>1. request' = request /\ (Served' => Served) /\ JobOf(c)
    BY <1>0, ProcedureServed DEF JobInv, MainJob, OwnerJob
  <1>2. Served' => Loaded(c)
    BY <1>0, <1>1 DEF SettleInv, ServedInv
  <1>3. Fault \/ Failed => history'.failed
    BY <1>0 DEF Fault, Failed, Histories
  <1>4. CASE Lock(a) \/ Drain(a) \/ DrainCheck(a) \/ DrainRegister(a) \/ DrainWait(a) \/ DrainSettle(a)
    <2>1. Same
      BY <1>0, <1>1, <1>4 DEF Lock, Drain, DrainCheck, DrainRegister, DrainWait, DrainSettle, Leave, Same,
             Shared
    <2>2. CASE \E pc \in Critical \ Detached : Goto(a, pc)
      <3>1. c.pc \in (Critical \ Detached) \cup {"lock"}
        BY <1>4 DEF Lock, Drain, DrainCheck, DrainRegister, DrainWait, DrainSettle, At
      <3>2. QED
        BY <1>1, <2>1, <2>2, <3>1, EarlyStep
    <2>3. CASE Result(a, FALSE) /\ (Fault \/ Failed)
      BY <1>3, <2>1, <2>3, FailsOpen
    <2>4. QED
      BY <1>4, <2>2, <2>3 DEF Lock, Drain, DrainCheck, DrainRegister, DrainWait, DrainSettle, Leave
  \* What a step gone to needs.
  <1>5. ASSUME c.pc \in Critical, NEW pc \in Detached, Goto(a, pc), sh'.epoch \in {sh.epoch, request.epoch},
               ~request.active => ~instance'.running, a = "main" \/ Served' => Loaded(c)'
        PROVE  SettleInv'
    <2>1. d.pc = pc /\ d.job = c.job /\ d.then = c.then /\ \A b \in Actors : b # a => act'[b] = act[b]
      BY <1>5, GotoFields
    <2>2. QED
      BY <1>1, <1>5, <2>1, LateStep
  <1>6. CASE Detach(a)
    <2>1. c.pc = "detach" /\ instance' = NoInstance /\ sh'.epoch = sh.epoch
          /\ (Goto(a, "build") \/ Goto(a, "retired"))
      BY <1>0, <1>6 DEF Detach, At, Shared
    <2>2. ~instance'.running /\ d.pc \notin {"load", "install", "up"}
      BY <2>1, GotoFields DEF NoInstance
    <2>3. Loaded(c)'
      BY <2>2 DEF Loaded
    <2>4. QED
      BY <1>5, <2>1, <2>2, <2>3
  <1>7. CASE Retired(a)
    <2>1. c.pc = "retired" /\ Result(a, TRUE) /\ sh'.epoch = request.epoch /\ UNCHANGED instance
      BY <1>0, <1>7 DEF Retired, Leave, At, Shared
    <2>2. a = "owner" /\ c.then = "decide"
      <3>1. c.job = "retire"
        BY <1>1, <2>1 DEF JobOf
      <3>2. a = "owner"
        BY <1>0, <3>1 DEF JobInv, MainJob
      <3>3. QED
        BY <2>1, <3>1, <3>2 DEF JobInv, OwnerJob, Called
    <2>3. d.pc = "decide" /\ act'["main"] = act["main"]
      BY <2>1, <2>2, ResultFields DEF Actors
    <2>4. ~instance.running /\ act["main"].pc \notin Held
      BY <2>1, <2>2, Alone DEF InstanceInv, Held, Actors
    <2>5. Loaded(act["main"])' /\ Loaded(act["owner"])'
      BY <2>2, <2>3, <2>4 DEF Loaded, Held
    <2>6. Tended'
      BY <1>1, <2>1, <2>2, <2>3, <2>4 DEF Tended, Admitting, Called
    <2>7. QED
      BY <2>5, <2>6 DEF SettleInv, ServedInv
  <1>8. CASE Build(a)
    <2>1. c.pc = "build" /\ c.job = "rebuild" /\ ~instance.running
      BY <1>1, <1>8 DEF Build, At, JobOf, InstanceInv
    <2>2. CASE AllOff
      <3>1. Result(a, TRUE) /\ sh'.epoch = sh.epoch /\ sh'.stopped /\ UNCHANGED instance
        BY <1>0, <1>8, <2>2 DEF Build, Leave, Shared
      <3>2. QED
        BY <1>1, <2>1, <3>1, LastStep
    <2>3. CASE instance' = Built /\ Goto(a, "epoch") /\ UNCHANGED sh
      <3>1. ~instance'.running /\ d.pc = "epoch"
        BY <2>3, GotoFields DEF Built, NoInstance
      <3>2. Loaded(c)'
        BY <3>1 DEF Loaded
      <3>3. QED
        BY <1>5, <2>1, <2>3, <3>1, <3>2
    <2>4. CASE Fault /\ Result(a, FALSE)
      BY <1>3, <2>1, <2>4, FailsOpen DEF Held
    <2>5. QED
      BY <1>8, <2>2, <2>3, <2>4 DEF Build, Leave
  <1>9. CASE PublishEpoch(a)
    <2>1. c.pc = "epoch" /\ Goto(a, "load") /\ sh'.epoch = request.epoch /\ UNCHANGED instance
          /\ ~instance.running
      BY <1>0, <1>9 DEF PublishEpoch, At, Shared, InstanceInv
    <2>2. d.pc = "load"
      BY <2>1, GotoFields
    <2>3. Loaded(c)'
      BY <1>1, <2>1, <2>2 DEF Loaded
    <2>4. QED
      BY <1>5, <2>1, <2>3
  <1>10. CASE LoadRequest(a)
    <2>1. c.pc = "load" /\ UNCHANGED <<sh, instance>> /\ ~instance.running
      BY <1>10 DEF LoadRequest, At, InstanceInv
    <2>2. /\ d.pc = "install" /\ d.job = c.job /\ d.then = c.then
          /\ d.wanted = (request.active /\ sh.epoch = request.epoch)
          /\ \A b \in Actors : b # a => act'[b] = act[b]
      BY <1>0, <1>10 DEF LoadRequest, Locals
    <2>3. a = "main" \/ Served' => Loaded(c)
      BY <1>2 DEF SettleInv
    <2>4. a = "main" \/ Served' => Loaded(c)'
      <3>1. request.active \in BOOLEAN
        BY DEF TypeInv, TypeOK, Requests
      <3>2. QED
        BY <1>1, <2>1, <2>2, <2>3, <3>1 DEF Loaded
    <2>5. QED
      BY <1>1, <2>1, <2>2, <2>4, LateStep
  <1>11. CASE Install(a)
    <2>1. c.pc = "install"
      BY <1>11 DEF Install, At
    <2>2. CASE Fault /\ Result(a, FALSE)
      BY <1>3, <2>1, <2>2, FailsOpen DEF Held
    <2>3. CASE /\ sh' = [sh EXCEPT !.admit = c.wanted]
               /\ instance' = [instance EXCEPT !.running = c.wanted, !.rings = RingsMade]
               /\ Goto(a, "up")
      <3>1. sh'.epoch = sh.epoch /\ sh'.admit = c.wanted
        BY <1>0, <2>3 DEF Shared
      <3>2. instance'.running = c.wanted
        BY <1>0, <2>3 DEF Instances
      <3>3. d.pc = "up" /\ d.wanted = c.wanted /\ d.job = c.job /\ d.then = c.then
            /\ \A b \in Actors : b # a => act'[b] = act[b]
        BY <2>3, GotoFields
      <3>4. a = "main" \/ Served' => Loaded(c)
        BY <1>2 DEF SettleInv
      <3>5. a = "main" \/ Served' => Loaded(c)'
        BY <1>1, <2>1, <3>1, <3>2, <3>3, <3>4 DEF Loaded
      <3>6. Served' /\ ~request.active => ~instance'.running
        BY <1>2, <2>1, <3>2 DEF Loaded
      <3>7. QED
        BY <1>1, <2>1, <3>1, <3>3, <3>5, <3>6, LateStep
    <2>4. QED
      BY <1>11, <2>2, <2>3 DEF Install, Leave
  <1>12. CASE Up(a)
    <2>1. c.pc = "up" /\ c.job = "rebuild" /\ Result(a, TRUE) /\ sh'.epoch = sh.epoch
      BY <1>0, <1>1, <1>12 DEF Up, Leave, At, JobOf, Shared
    <2>2. CASE AllOff
      <3>1. sh'.stopped
        BY <1>0, <1>12, <2>2 DEF Up, Leave, Shared
      <3>2. ~instance'.running
        BY <1>12, <2>2 DEF Up, NoInstance
      <3>3. QED
        BY <1>1, <2>1, <3>1, <3>2, LastStep
    <2>3. CASE ~AllOff
      <3>1. sh'.ready /\ sh'.admit = sh.admit /\ UNCHANGED instance
        BY <1>0, <1>12, <2>3 DEF Up, Leave, Shared
      <3>2. CASE Loaded(c)
        <4>1. sh.admit = request.active /\ instance.running = request.active
          BY <2>1, <3>2 DEF Loaded
        <4>2. QED
          BY <1>1, <2>1, <3>1, <4>1, LastStep
      <3>3. CASE ~Served' /\ a = "owner"
        <4>1. act["main"].pc \notin Held /\ act'["main"] = act["main"]
          BY <2>1, <3>3, Alone, ResultFields DEF Held, Actors
        <4>2. QED
          BY <3>3, <4>1 DEF SettleInv, Loaded, Held
      <3>4. QED
        BY <1>0, <1>2, <3>2, <3>3 DEF SettleInv
    <2>4. QED
      BY <2>2, <2>3
  <1>13. QED
    BY <1>4, <1>6, <1>7, <1>8, <1>9, <1>10, <1>11, <1>12 DEF Procedure

\* The owner's own steps: it serves what is pending, and at the end of a pass has done it or failed.
LEMMA OwnerSettles ==
    ASSUME TypeInv, DrainInv, JobInv, InstanceInv, SettleInv, OwnerPass
    PROVE  SettleInv'
  <1> USE DEF Critical, Detached, Emptied, Coming
  <1> DEFINE o == act["owner"]
             m == act["main"]
  <1>0. /\ sh \in Shared /\ instance \in Instances /\ act \in [Actors -> Locals] /\ history \in Histories
        /\ "owner" \in Actors /\ "main" \in Actors /\ Actors = {"main", "owner"} /\ o \in Locals
    BY DEF TypeInv, TypeOK, ActTyped, Actors, Histories
  <1>1. /\ request' = request /\ sh'.epoch = sh.epoch /\ sh'.ready = sh.ready /\ sh'.stopped = sh.stopped
        /\ o.pc \in {"restore", "look", "asleep", "take", "serve", "service", "decide", "admission", "latest",
                     "admit", "start", "done"}
    BY <1>0 DEF OwnerPass, Restore, Look, Awake, Take, Serve, Service, Decide, AdmissionLock, Latest, Admit,
                Start, Done, Shared, At
  <1>2. m' = m /\ o'.pc \in Elsewhere
    BY <1>0, OwnerMoves, MoveTyping DEF TypeInv
  <1>3. o'.pc \notin Detached /\ ~Called(o) /\ o.job # "retire"
    BY <1>1, <1>2 DEF Elsewhere, Called, JobInv, OwnerJob
  <1>4. Away' <=> Away
    BY <1>0, <1>1, <1>2, <1>3 DEF Away
  <1>5. Fault \/ Failed => history'.failed
    BY <1>0 DEF Fault, Failed, Histories
  <1>6. UNCHANGED history \/ history'.failed
    BY <1>5 DEF OwnerPass, Restore, Look, Awake, Take, Serve, Service, Decide, AdmissionLock, Latest, Admit,
                Start, Done
  <1>7. o.pc # "serve" => (Served' => Served)
    <2>1. o.pc # "serve" => sh'.pending = sh.pending
      BY <1>0 DEF OwnerPass, Restore, Look, Awake, Take, Serve, Service, Decide, AdmissionLock, Latest, Admit,
                  Start, Done, Shared, At
    <2>2. QED
      BY <1>2, <1>6, <2>1 DEF Served
  <1>8. o.pc \notin {"admit", "start"} => instance' = instance /\ sh'.admit = sh.admit
    BY <1>0 DEF OwnerPass, Restore, Look, Awake, Take, Serve, Service, Decide, AdmissionLock, Latest, Admit,
                Start, Done, Shared, At
  <1>9. Loaded(m)'
    <2>1. CASE o.pc \in {"admit", "start"}
      <3>1. m.pc \notin Held
        BY <1>0, <2>1, Alone DEF Held
      <3>2. QED
        BY <1>2, <3>1 DEF Loaded, Held
    <2>2. CASE o.pc \notin {"admit", "start"}
      BY <1>1, <1>2, <1>8, <2>2 DEF Loaded, SettleInv
    <2>3. QED
      BY <2>1, <2>2
  <1>10. Loaded(o)'
    BY <1>3 DEF Loaded
  <1>11. SUFFICES ASSUME Served', o'.pc # "service", o'.job # "retire" PROVE Tended'
    BY <1>9, <1>10 DEF SettleInv, ServedInv
  <1>12. ~history'.failed
    BY <1>11 DEF Served
  <1>13. (Admitting <=> o.pc \in {"admission", "latest", "admit", "start"})
         /\ (Admitting' <=> \/ o'.pc \in {"admission", "latest", "admit", "start"}
                            \/ o'.pc = "lock" /\ o'.then = "admission")
    BY <1>2, <1>3 DEF Admitting, Called, Elsewhere
  <1>14. o.pc \notin {"serve", "service"} => Tended
    BY <1>3, <1>7, <1>11 DEF SettleInv, ServedInv
  \* The steps of a pass that neither look at what is asked nor admit it.
  <1>15. ASSUME Tended, o.pc \in {"restore", "look", "asleep", "take", "serve", "done"},
                o'.pc \in {"look", "asleep", "take", "serve", "done"} \/ (o'.pc = "lock" /\ o'.then = "serve")
         PROVE  Tended'
    <2>1. ~Admitting /\ ~Admitting' /\ o'.pc # "start" /\ o.pc # "decide"
      BY <1>13, <1>15
    <2>2. QED
      BY <1>1, <1>4, <1>8, <1>15, <2>1 DEF Tended
  <1>16. CASE Restore("owner")
    <2>1. o.pc = "restore" /\ o'.pc = "lock" /\ o'.then = o.then /\ o.then = "serve"
      BY <1>0, <1>16, RestoreFields DEF JobInv, OwnerJob
    <2>2. QED
      BY <1>14, <1>15, <2>1
  <1>17. CASE Look \/ Awake
    <2>1. o.pc \in {"look", "asleep"} /\ (Goto("owner", "take") \/ Goto("owner", "asleep"))
      BY <1>17 DEF Look, Awake, At
    <2>2. o'.pc \in {"take", "asleep"}
      BY <1>0, <2>1, GotoFields
    <2>3. QED
      BY <1>14, <1>15, <2>1, <2>2
  <1>18. CASE Take
    <2>1. o.pc = "take"
      BY <1>18 DEF Take, At
    <2>2. o'.pc = "serve" \/ (o'.pc = "lock" /\ o'.then = "serve")
      BY <1>0, <1>18, GotoFields, ApplyFields DEF Take
    <2>3. QED
      BY <1>14, <1>15, <2>1, <2>2
  <1>19. CASE Serve
    <2>1. o.pc = "serve" /\ Goto("owner", IF sh.pending THEN "service" ELSE "done")
          /\ UNCHANGED history
      BY <1>19 DEF Serve, At
    <2>2. ~sh.pending /\ o'.pc = "done"
      BY <1>0, <1>11, <2>1, GotoFields
    <2>3. Served
      BY <1>2, <1>11, <2>1, <2>2 DEF Served
    <2>4. Tended
      BY <1>3, <2>1, <2>3 DEF SettleInv, ServedInv
    <2>5. QED
      BY <1>15, <2>1, <2>2, <2>4
  <1>20. CASE Service
    <2>1. o.pc = "service" /\ request.active /\ sh.epoch = request.epoch /\ Goto("owner", "decide")
      BY <1>0, <1>11, <1>20, CallFields DEF Service, At
    <2>2. o'.pc = "decide"
      BY <1>0, <2>1, GotoFields
    <2>3. QED
      BY <1>1, <1>13, <2>1, <2>2 DEF Tended
  <1>21. CASE Decide
    <2>1. o.pc = "decide" /\ Tended /\ ~Admitting
      BY <1>13, <1>14, <1>21 DEF Decide, At
    <2>2. CASE ~request.active \/ sh.stopped
      <3>1. o'.pc = "done"
        BY <1>0, <1>21, <2>2, GotoFields DEF Decide
      <3>2. ~Admitting' /\ o'.pc # "start"
        BY <1>13, <3>1
      <3>3. QED
        BY <1>1, <1>8, <2>1, <2>2, <3>2 DEF Tended
    <2>3. CASE request.active /\ ~sh.stopped
      <3>1. o'.pc = "admission" \/ (o'.pc = "lock" /\ o'.then = "admission")
        BY <1>0, <1>21, <2>3, GotoFields, CallFields DEF Decide
      <3>2. Admitting' /\ o'.pc # "start"
        BY <1>13, <3>1
      <3>3. QED
        BY <1>1, <1>8, <2>1, <2>3, <3>2 DEF Tended
    <2>4. QED
      BY <2>2, <2>3
  <1>22. CASE AdmissionLock \/ Latest
    <2>1. o.pc \in {"admission", "latest"}
      BY <1>22 DEF AdmissionLock, Latest, At
    <2>2. Tended /\ Admitting
      BY <1>13, <1>14, <2>1
    <2>3. request.active /\ sh.epoch = request.epoch
      BY <2>2 DEF Tended
    <2>4. Goto("owner", "latest") \/ Goto("owner", "admit")
      BY <1>5, <1>12, <1>22, <2>3 DEF AdmissionLock, Latest
    <2>5. o'.pc \in {"latest", "admit"}
      BY <1>0, <2>4, GotoFields
    <2>6. Admitting'
      BY <1>13, <2>5
    <2>7. QED
      BY <1>1, <2>2, <2>3, <2>5, <2>6 DEF Tended
  <1>23. CASE Admit
    <2>1. o.pc = "admit" /\ Goto("owner", "start") /\ sh'.admit /\ UNCHANGED instance
      BY <1>0, <1>23 DEF Admit, At, Shared
    <2>2. o'.pc = "start"
      BY <1>0, <2>1, GotoFields
    <2>3. Tended /\ Admitting /\ Admitting'
      BY <1>13, <1>14, <2>1, <2>2
    <2>4. QED
      BY <1>1, <2>1, <2>2, <2>3 DEF Tended
  <1>24. CASE Start
    <2>1. o.pc = "start" /\ Goto("owner", "done")
      BY <1>24 DEF Start, At
    <2>2. o'.pc = "done"
      BY <1>0, <2>1, GotoFields
    <2>3. Tended /\ Admitting /\ ~Admitting'
      BY <1>13, <1>14, <2>1, <2>2
    <2>4. request.active /\ sh.epoch = request.epoch /\ sh.admit
      BY <2>1, <2>3 DEF Tended
    <2>5. sh'.admit = sh.admit /\ instance'.running
      BY <1>0, <1>5, <1>12, <1>24 DEF Start, Instances
    <2>6. sh.ready
      <3>1. m.pc \notin Coming /\ o.pc \notin Coming
        BY <1>0, <2>1, Alone DEF Held
      <3>2. QED
        BY <1>0, <2>1, <3>1 DEF InstanceInv
    <2>7. QED
      BY <1>1, <2>2, <2>3, <2>4, <2>5, <2>6 DEF Tended
  <1>25. CASE Done
    <2>1. o.pc = "done" /\ Rest("owner").pc = "look" /\ act' = [act EXCEPT !["owner"] = Rest("owner")]
      BY <1>25 DEF Done, At, Rest
    <2>2. o'.pc = "look"
      BY <1>0, <2>1, RestFields
    <2>3. QED
      BY <1>14, <1>15, <2>1, <2>2
  <1>26. QED
    BY <1>16, <1>17, <1>18, <1>19, <1>20, <1>21, <1>22, <1>23, <1>24, <1>25 DEF OwnerPass

\* Main's steps outside the procedure: it asks, which leaves something pending until it is served,
\* or it goes on without touching what the invariant reads.
LEMMA MainSettles ==
    ASSUME TypeInv, DrainInv, JobInv, SettleInv, MainCall \/ MainPass
    PROVE  SettleInv'
  <1> USE DEF Critical, Detached, Emptied, Coming
  <1> DEFINE o == act["owner"]
             m == act["main"]
  <1>0. /\ sh \in Shared /\ act \in [Actors -> Locals] /\ history \in Histories
        /\ "owner" \in Actors /\ "main" \in Actors /\ Actors = {"main", "owner"}
    BY DEF TypeInv, TypeOK, ActTyped, Actors, Histories
  <1>1. o' = o /\ (m'.pc \in Elsewhere \/ m' = m)
    BY <1>0, MainMoves, MoveTyping DEF TypeInv
  <1>2. m.pc \in {"none", "restore", "withdraw", "pend", "notify", "overwrite", "live"}
    BY DEF MainCall, MainPass, SetProcessingActive, RequestReinit, VadIntent, ToggleStopped, ToggleRebuild,
           ToggleLive, Restore, Withdraw, Pend, Notify, Overwrite, Live, At
  <1>3. m.pc \notin Detached /\ m'.pc \notin Detached
    BY <1>1, <1>2 DEF Elsewhere
  <1>4. Loaded(m)'
    BY <1>3 DEF Loaded
  <1>5. CASE Withdraw \/ Pend \/ VadIntent \/ \E active \in BOOLEAN : SetProcessingActive(active)
    <2>1. m'.pc \in {"withdraw", "pend"} \/ sh'.pending
      BY <1>0, <1>5, GotoFields DEF Withdraw, Pend, VadIntent, SetProcessingActive, Shared
    <2>2. QED
      BY <1>4, <2>1 DEF SettleInv, Served
  <1>6. CASE ~(Withdraw \/ Pend \/ VadIntent \/ \E active \in BOOLEAN : SetProcessingActive(active))
    <2>1. Same /\ sh'.pending = sh.pending
      BY <1>0, <1>6 DEF MainCall, MainPass, RequestReinit, ToggleStopped, ToggleRebuild, ToggleLive, Restore,
                  Notify, Overwrite, Live, Same, Shared
    <2>2. history.failed => history'.failed
      <3>1. UNCHANGED history \/ Fault \/ Change
        BY <1>6 DEF MainCall, MainPass, RequestReinit, ToggleStopped, ToggleRebuild, ToggleLive, Restore,
                    Notify, Overwrite, Live
      <3>2. QED
        BY <1>0, <3>1 DEF Fault, Change, Histories
    <2>3. m.pc \notin {"withdraw", "pend"}
      BY <1>6 DEF MainCall, MainPass, RequestReinit, ToggleStopped, ToggleRebuild, ToggleLive, Restore,
                  Notify, Overwrite, Live, At
    <2>4. Served' => Served
      BY <2>1, <2>2, <2>3 DEF Served
    <2>5. Away' <=> Away
      BY <1>0, <1>1, <1>3 DEF Away
    <2>6. Admitting' <=> Admitting
      BY <1>1 DEF Admitting, Called
    <2>7. QED
      BY <1>1, <1>4, <2>1, <2>4, <2>5, <2>6 DEF SettleInv, ServedInv, Tended, Loaded, Same
  <1>7. QED
    BY <1>5, <1>6

\* The induction.
LEMMA Settling == Spec => [](TypeInv /\ DrainInv /\ JobInv /\ InstanceInv /\ SettleInv)
  <1>1. Init => JobInv /\ InstanceInv /\ SettleInv
    <2>1. SUFFICES ASSUME Init PROVE JobInv /\ InstanceInv /\ SettleInv
      OBVIOUS
    <2>2. act = [a \in Actors |-> Rest(a)] /\ "main" \in Actors /\ "owner" \in Actors
      BY <2>1 DEF Init, Actors
    <2>3. /\ \A a \in Actors : act[a].pc \in {"none", "look"} /\ act[a].job = "rebuild"
          /\ act["owner"].pc = "look" /\ act["main"].pc = "none"
      BY <2>2 DEF Rest
    <2>4. instance.exists = sh.ready /\ ~instance.running /\ request.epoch = 0 /\ sh.epoch = 0
          /\ ~request.active
      BY <2>1 DEF Init, NoInstance
    <2>5. JobInv /\ InstanceInv
      BY <2>2, <2>3, <2>4 DEF JobInv, MainJob, OwnerJob, JobOf, Called, Critical, Coming, InstanceInv,
                                     Detached, Emptied
    <2>6. SettleInv
      BY <2>2, <2>3, <2>4 DEF SettleInv, ServedInv, Tended, Loaded, Admitting, Called, Critical
    <2>7. QED
      BY <2>5, <2>6
  <1>2. TypeInv /\ DrainInv /\ JobInv /\ InstanceInv /\ SettleInv /\ [Next]_vars
            => JobInv' /\ InstanceInv' /\ SettleInv'
    <2>1. SUFFICES ASSUME TypeInv, DrainInv, JobInv, InstanceInv, SettleInv, [Next]_vars
                   PROVE  JobInv' /\ InstanceInv' /\ SettleInv'
      OBVIOUS
    <2>2. CASE UNCHANGED vars \/ Enter \/ AudioStep \/ ManagerStep
      <3>1. /\ UNCHANGED <<act, request, instance, history>> /\ sh'.epoch = sh.epoch /\ sh'.admit = sh.admit
            /\ sh'.ready = sh.ready /\ sh'.stopped = sh.stopped /\ sh'.pending = sh.pending
        BY <2>1, <2>2, AudioKeeps DEF vars
      <3>2. SettleInv'
        BY <2>1, <3>1 DEF SettleInv, ServedInv, Served, Tended, Loaded, Admitting, Called, Away
      <3>3. QED
        BY <2>1, <3>2, JobSteps, InstanceSteps
    <2>3. CASE Procedure("main") \/ Procedure("owner")
      BY <2>1, <2>3, JobSteps, InstanceSteps, ProcedureSettles DEF Actors
    <2>4. CASE OwnerPass \/ MainCall \/ MainPass
      BY <2>1, <2>4, JobSteps, InstanceSteps, OwnerSettles, MainSettles
    <2>5. QED
      BY <2>1, <2>2, <2>3, <2>4 DEF Next, OwnerStep, MainStep, OwnerPass, MainPass
  <1>3. QED
    BY <1>1, <1>2, Drained, PTL DEF Spec

\* Once idle, without a failure since activity was last asked for, the AFE is what was asked for.
THEOREM IdleSettles == Spec => []IdleIsSettled
  <1>1. TypeInv /\ DrainInv /\ JobInv /\ InstanceInv /\ SettleInv => IdleIsSettled
    <2>1. SUFFICES ASSUME TypeInv, DrainInv, JobInv, InstanceInv, SettleInv, IdleNow, ~history.failed
                   PROVE  /\ ~request.active => ~instance.running /\ ~Accepting
                          /\ request.active /\ ~sh.stopped => Accepting /\ sh.ready /\ instance.running
      BY DEF IdleIsSettled
    <2>2. act["owner"].pc \in {"look", "asleep"} /\ act["main"].pc = "none"
      BY <2>1 DEF IdleNow, IsIdle, JobInv, At
    <2>3. Served
      BY <2>1, <2>2 DEF Served, IdleNow, IsIdle
    <2>4. act["owner"].job # "retire" /\ ~Admitting /\ ~Away
      BY <2>1, <2>2 DEF JobInv, OwnerJob, Called, Critical, Admitting, Away, Detached, Emptied, Actors
    <2>5. Tended
      BY <2>1, <2>2, <2>3, <2>4 DEF SettleInv, ServedInv
    <2>6. QED
      BY <2>2, <2>4, <2>5 DEF Tended, Accepting
  <1>2. QED
    BY <1>1, Settling, PTL

----------------------------------------------------------------------------
(* Main stores what it asks for before it notifies, the owner looks at it  *)
(* after it has closed its pass, and though the drain of process() takes   *)
(* notifications from the owner's slot it only does so inside a pass,      *)
(* which the owner ends with that look.                                    *)

\* The owner has been notified, or main is about to do it.
Announced == notified["owner"] \/ act["main"].pc = "notify"

\* In the procedure the owner never has the end of a call of main to return to.
Returning(c) == c.pc \in Critical \cup {"lock", "restore"} => c.then # "none" /\ c.else # "none"

WakeInv ==
    /\ Returning(act["owner"])
    /\ act["owner"].pc = "asleep" =>
        /\ sh.pending \/ queue # <<>> => Announced
        /\ sh.busy => Announced \/ act["main"].pc = "overwrite"
    /\ act["owner"].pc = "look" /\ sh.busy =>
        Announced \/ act["main"].pc = "overwrite" \/ sh.pending \/ queue # <<>>

\* An owner that neither parks nor looks.
LEMMA OwnerBusy ==
    ASSUME act'["owner"].pc \notin {"asleep", "look"}, Returning(act'["owner"])
    PROVE  WakeInv'
  BY DEF WakeInv

\* The procedure, run by the owner or by main.
LEMMA ProcedureWakes ==
    ASSUME TypeInv, WakeInv, NEW a \in Actors, Procedure(a)
    PROVE  WakeInv'
  <1>0. act \in [Actors -> Locals] /\ notified \in [Actors -> BOOLEAN]
    BY DEF TypeInv, ActTyped, TypeOK
  <1>1. CASE a = "owner"
    <2> DEFINE c == act["owner"]
               d == act'["owner"]
    <2>1. c \in Locals /\ c.then # "none" /\ c.else # "none" /\ Good(c)
      BY <1>0, <1>1, ProcedureMoves DEF WakeInv, Returning, TypeInv, ActTyped, Actors
    <2>2. ASSUME NEW pc \in Critical, Goto(a, pc) PROVE d.pc = pc /\ d.then = c.then /\ d.else = c.else
      BY <1>0, <1>1, <2>1, <2>2 DEF Goto, Locals, Actors
    <2>3. ASSUME NEW value \in BOOLEAN, Result(a, value)
          PROVE  d.pc \in Returns \ {"none"} /\ Returning(d)
      <3> DEFINE next == IF value THEN c.then ELSE c.else
      <3>1. next \in Returns \ {"none"}
        BY <2>1 DEF Good
      <3>2. CASE next = "restore"
        <4>1. d = [c EXCEPT !.pc = next]
          BY <1>0, <1>1, <2>3, <3>2 DEF Result, Actors
        <4>2. d.pc = next /\ d.then = c.then /\ d.else = c.else
          BY <2>1, <4>1 DEF Locals
        <4>3. QED
          BY <2>1, <3>1, <4>2 DEF Returning
      <3>3. CASE next # "restore"
        <4>1. d = [Rest("owner") EXCEPT !.pc = next]
          BY <1>0, <1>1, <2>3, <3>1, <3>3 DEF Result, Actors
        <4>2. d.pc = next
          BY <4>1, RestTyping DEF Locals, Actors
        <4>3. QED
          BY <3>1, <3>3, <4>2 DEF Returning, Returns, Critical
      <3>4. QED
        BY <3>2, <3>3
    <2>4. ASSUME act' = [act EXCEPT ![a].wanted = request.active /\ sh.epoch = request.epoch,
                                    ![a].pc = "install"]
          PROVE  d.pc = "install" /\ d.then = c.then /\ d.else = c.else
      BY <1>0, <1>1, <2>1, <2>4 DEF Locals, Actors
    <2>5. d.pc \notin {"asleep", "look"} /\ Returning(d)
      BY <1>1, <2>1, <2>2, <2>3, <2>4, ProcedureMoves DEF Critical, Returns, Returning
    <2>6. QED
      BY <2>5 DEF WakeInv
  <1>2. CASE a = "main"
    <2>1. act'["owner"] = act["owner"]
      BY <1>0, <1>2, ProcedureMoves DEF Goto, Result, Actors
    <2>2. act["main"].pc \notin {"notify", "overwrite"}
      BY <1>2, ProcedureMoves DEF Critical
    <2>3. queue' = queue /\ sh'.pending = sh.pending /\ sh'.busy = sh.busy
          /\ notified'["owner"] = notified["owner"]
      BY <1>0, <1>2, ProcedureMoves DEF Actors
    <2>4. QED
      BY <2>1, <2>2, <2>3 DEF WakeInv, Announced
  <1>3. QED
    BY <1>1, <1>2 DEF Actors

\* A rollback.
LEMMA RestoreWakes ==
    ASSUME TypeInv, WakeInv, NEW a \in Actors, Restore(a)
    PROVE  WakeInv'
  <1>0. act \in [Actors -> Locals]
    BY DEF TypeInv, ActTyped
  <1>1. CASE a = "owner"
    <2>1. act["owner"].then # "none"
      BY <1>1 DEF Restore, At, WakeInv, Returning
    <2>2. act'["owner"] = [Rest("owner") EXCEPT !.pc = "lock", !.then = act["owner"].then,
                                                !.else = act["owner"].then]
      BY <1>0, <1>1 DEF Restore, Actors
    <2>3. /\ act'["owner"].pc = "lock" /\ act'["owner"].then # "none" /\ act'["owner"].else # "none"
      BY <2>1, <2>2, RestTyping DEF Actors, Locals
    <2>4. QED
      BY <2>3, OwnerBusy DEF Returning
  <1>2. CASE a = "main"
    <2>1. act'["owner"] = act["owner"] /\ act["main"].pc = "restore"
      BY <1>0, <1>2 DEF Restore, At, Actors
    <2>2. UNCHANGED <<sh, queue, notified>>
      BY DEF Restore
    <2>3. QED
      BY <2>1, <2>2 DEF WakeInv, Announced
  <1>3. QED
    BY <1>1, <1>2 DEF Actors

\* The owner's passes.
LEMMA OwnerWakes ==
    ASSUME TypeInv, WakeInv, OwnerStep
    PROVE  WakeInv'
  <1> DEFINE c == act["owner"]
             d == act'["owner"]
  <1>0. /\ act \in [Actors -> Locals] /\ c \in Locals /\ "owner" \in Actors /\ sh \in Shared
        /\ notified \in [Actors -> BOOLEAN]
    BY DEF TypeInv, ActTyped, TypeOK, Actors
  <1>1. ASSUME NEW pc \in Steps, Goto("owner", pc)
        PROVE  d.pc = pc /\ d.then = c.then /\ d.else = c.else /\ act'["main"] = act["main"]
    BY <1>0, <1>1 DEF Goto, Locals, Actors
  <1>2. ASSUME NEW job, NEW then, NEW else, Call("owner", job, then, else)
        PROVE  d.pc = "lock" /\ d.then = then /\ d.else = else
    BY <1>0, <1>2 DEF Call, Locals, Actors
  <1>3. CASE Look
    <2>1. CASE sh.pending \/ queue # <<>>
      <3>1. Goto("owner", "take")
        BY <1>3, <2>1 DEF Look
      <3>2. d.pc = "take"
        BY <1>1, <3>1, StepNames
      <3>3. QED
        BY <3>2, OwnerBusy DEF Returning, Critical
    <2>2. CASE ~(sh.pending \/ queue # <<>>)
      <3>1. Goto("owner", "asleep") /\ UNCHANGED <<sh, queue, notified>> /\ c.pc = "look"
        BY <1>3, <2>2 DEF Look, At
      <3>2. d.pc = "asleep" /\ act'["main"] = act["main"]
        BY <1>1, <3>1, StepNames
      <3>3. QED
        BY <2>2, <3>1, <3>2 DEF WakeInv, Announced, Returning, Critical
    <2>3. QED
      BY <2>1, <2>2
  <1>4. CASE Awake
    <2>1. d.pc = "take"
      BY <1>1, <1>4, StepNames DEF Awake
    <2>2. QED
      BY <2>1, OwnerBusy DEF Returning, Critical
  <1>5. CASE Take
    <2>1. CASE Goto("owner", "serve")
      <3>1. d.pc = "serve"
        BY <1>1, <2>1, StepNames
      <3>2. QED
        BY <3>1, OwnerBusy DEF Returning, Critical
    <2>2. CASE Apply("owner", "mode", [config EXCEPT !.mode = Head(queue)], "serve")
      <3>1. d.pc = "lock" /\ d.then = "serve" /\ d.else = "restore"
        BY <1>0, <2>2 DEF Apply, Locals, Actors
      <3>2. QED
        BY <3>1, OwnerBusy DEF Returning
    <2>3. QED
      BY <1>5, <2>1, <2>2 DEF Take
  <1>6. CASE Serve
    <2>1. d.pc \in {"service", "done"}
      BY <1>1, <1>6, StepNames DEF Serve
    <2>2. QED
      BY <2>1, OwnerBusy DEF Returning, Critical
  <1>7. CASE Service
    <2>1. CASE Goto("owner", "decide")
      <3>1. d.pc = "decide"
        BY <1>1, <2>1, StepNames
      <3>2. QED
        BY <3>1, OwnerBusy DEF Returning, Critical
    <2>2. CASE Call("owner", "retire", "decide", "done")
      BY <1>2, <2>2, OwnerBusy DEF Returning
    <2>3. QED
      BY <1>7, <2>1, <2>2 DEF Service
  <1>8. CASE Decide
    <2>1. CASE Goto("owner", "done") \/ Goto("owner", "admission")
      <3>1. d.pc \in {"done", "admission"}
        BY <1>1, <2>1, StepNames
      <3>2. QED
        BY <3>1, OwnerBusy DEF Returning, Critical
    <2>2. CASE Call("owner", "rebuild", "admission", "done")
      BY <1>2, <2>2, OwnerBusy DEF Returning
    <2>3. QED
      BY <1>8, <2>1, <2>2 DEF Decide
  <1>9. CASE AdmissionLock \/ Latest \/ Admit \/ Start
    <2>1. \/ Goto("owner", "latest") \/ Goto("owner", "done") \/ Goto("owner", "admit")
          \/ Goto("owner", "start")
      BY <1>9 DEF AdmissionLock, Latest, Admit, Start
    <2>2. d.pc \in {"latest", "done", "admit", "start"}
      BY <1>1, <2>1, StepNames
    <2>3. QED
      BY <2>2, OwnerBusy DEF Returning, Critical
  <1>10. CASE Done
    <2>1. d = Rest("owner") /\ sh'.busy = FALSE
      BY <1>0, <1>10 DEF Done, Shared
    <2>2. d.pc = "look"
      BY <2>1 DEF Rest
    <2>3. QED
      BY <2>1, <2>2 DEF WakeInv, Returning, Critical
  <1>11. QED
    BY <1>0, <1>3, <1>4, <1>5, <1>6, <1>7, <1>8, <1>9, <1>10, ProcedureWakes, RestoreWakes DEF OwnerStep

\* Main notifies after what it asks for, and nobody else takes that back.
LEMMA MainWakes ==
    ASSUME TypeInv, WakeInv, MainCall \/ MainStep
    PROVE  WakeInv'
  <1> DEFINE m == act'["main"]
  <1>0. /\ act \in [Actors -> Locals] /\ act["main"] \in Locals /\ sh \in Shared
        /\ notified \in [Actors -> BOOLEAN] /\ "main" \in Actors /\ Actors = {"main", "owner"}
    BY DEF TypeInv, ActTyped, TypeOK, Actors
  \* Steps that ask for nothing.
  <1>1. ASSUME act'["owner"] = act["owner"], act["main"].pc \notin {"notify", "overwrite"},
               queue' = queue, sh'.pending = sh.pending, sh'.busy = sh.busy, notified' = notified
        PROVE  WakeInv'
    BY <1>1 DEF WakeInv, Announced
  <1>2. CASE MainCall
    <2> DEFINE Quiet == /\ act'["owner"] = act["owner"] /\ queue' = queue /\ notified' = notified
                        /\ sh'.pending = sh.pending
    <2>1. Quiet
      <3>1. ASSUME NEW active \in BOOLEAN, SetProcessingActive(active) PROVE Quiet
        BY <1>0, <3>1 DEF SetProcessingActive, Goto
      <3>2. ASSUME NEW mode \in Modes, RequestReinit(mode) PROVE Quiet
        BY <1>0, <3>2 DEF RequestReinit, Shared
      <3>3. CASE VadIntent
        BY <1>0, <3>3 DEF VadIntent, Goto, Shared
      <3>4. ASSUME NEW f \in Switches, ToggleStopped(f) \/ ToggleRebuild(f) \/ ToggleLive(f) PROVE Quiet
        BY <1>0, <3>4 DEF ToggleStopped, ToggleRebuild, ToggleLive, Call, Apply, Shared
      <3>5. QED
        BY <1>2, <3>1, <3>2, <3>3, <3>4 DEF MainCall
    <2>2. act["main"].pc = "none"
      BY <1>2 DEF MainCall, SetProcessingActive, RequestReinit, VadIntent, ToggleStopped, ToggleRebuild,
                  ToggleLive, At
    <2>3. sh'.busy = sh.busy \/ m.pc = "overwrite"
      <3>1. ASSUME NEW mode \in Modes, RequestReinit(mode) PROVE m.pc = "overwrite"
        BY <1>0, <3>1 DEF RequestReinit, Locals
      <3>2. ASSUME ~\E mode \in Modes : RequestReinit(mode) PROVE sh'.busy = sh.busy
        BY <1>0, <1>2, <3>2 DEF MainCall, SetProcessingActive, VadIntent, ToggleStopped, ToggleRebuild,
                                ToggleLive, Shared
      <3>3. QED
        BY <3>1, <3>2
    <2>4. QED
      BY <2>1, <2>2, <2>3 DEF WakeInv, Announced
  <1>3. CASE Withdraw \/ Live
    <2>1. act'["owner"] = act["owner"]
      BY <1>0, <1>3 DEF Withdraw, Live, Goto, Call, Return
    <2>2. queue' = queue /\ sh'.pending = sh.pending /\ sh'.busy = sh.busy /\ notified' = notified
      BY <1>0, <1>3 DEF Withdraw, Live, Shared
    <2>3. act["main"].pc \notin {"notify", "overwrite"}
      BY <1>3 DEF Withdraw, Live, At
    <2>4. QED
      BY <1>1, <2>1, <2>2, <2>3
  <1>4. CASE Pend
    <2>1. act'["owner"] = act["owner"] /\ m.pc = "notify"
      BY <1>0, <1>4 DEF Pend, Goto, Locals
    <2>2. QED
      BY <2>1 DEF WakeInv, Announced
  <1>5. CASE Notify
    <2>1. act'["owner"] = act["owner"] /\ notified'["owner"]
      BY <1>0, <1>5 DEF Notify
    <2>2. QED
      BY <2>1 DEF WakeInv, Announced
  <1>6. CASE Overwrite
    <2>1. act'["owner"] = act["owner"]
      BY <1>0, <1>6 DEF Overwrite
    <2>2. m = [Rest("main") EXCEPT !.pc = "notify"]
      BY <1>0, <1>6 DEF Overwrite
    <2>3. m.pc = "notify"
      BY <1>0, <2>2, RestTyping DEF Locals
    <2>4. QED
      BY <2>1, <2>3 DEF WakeInv, Announced
  <1>7. QED
    BY <1>0, <1>2, <1>3, <1>4, <1>5, <1>6, ProcedureWakes, RestoreWakes DEF MainStep

\* process() and the manager only ever add a notification.
LEMMA AudioWakes ==
    ASSUME TypeInv, WakeInv, Enter \/ AudioStep \/ ManagerStep
    PROVE  WakeInv'
  <1>0. sh \in Shared /\ notified \in [Actors -> BOOLEAN] /\ "owner" \in Actors
    BY DEF TypeInv, TypeOK, Actors
  <1>1. act' = act /\ queue' = queue /\ sh'.pending = sh.pending /\ sh'.busy = sh.busy
    BY <1>0 DEF Enter, AudioStep, Screen, Work, ClearBusy, LoadWaiter, Tell, ManagerStep, Fetch, Voice,
                Release, Shared
  <1>2. notified["owner"] => notified'["owner"]
    BY <1>0 DEF Enter, AudioStep, Screen, Work, ClearBusy, LoadWaiter, Tell, ManagerStep, Fetch, Voice,
                Release
  <1>3. QED
    BY <1>1, <1>2 DEF WakeInv, Announced

\* The owner parks only on an empty inbox: whatever is asked of it, in whichever order with its own
\* look, with the drains of its passes and with process(), finds it awake or wakes it.
THEOREM OwnerNeverSleepsOnWork == Spec => []ParkedIsIdle
  <1>1. Init => TypeInv /\ WakeInv
    <2>1. ASSUME Init PROVE WakeInv
      BY <2>1 DEF Init, Rest, WakeInv, Returning, Critical, Actors
    <2>2. QED
      BY <2>1, InitTyping
  <1>2. TypeInv /\ WakeInv /\ [Next]_vars => (TypeInv /\ WakeInv)'
    <2> SUFFICES ASSUME TypeInv, WakeInv, [Next]_vars PROVE WakeInv'
      BY StepTyping
    <2>1. CASE UNCHANGED vars
      BY <2>1 DEF vars, WakeInv, Announced
    <2>2. QED
      BY <2>1, MainWakes, OwnerWakes, AudioWakes DEF Next
  <1>3. WakeInv => ParkedIsIdle
    BY DEF WakeInv, ParkedIsIdle, Announced, IsIdle, At
  <1>4. QED
    BY <1>1, <1>2, <1>3, PTL DEF Spec
=============================================================================
