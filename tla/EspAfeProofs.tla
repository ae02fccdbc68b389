----------------------------- MODULE EspAfeProofs -----------------------------
(***************************************************************************)
(* For any modes, features, number of acquisitions, changes and failures:  *)
(* EspAfe is well typed, and process() keeps the instance it was admitted  *)
(* to.  The second is not inductive; DrainInv adds what the drain protocol *)
(* knows between its steps: who holds config_mutex_, that the request to   *)
(* drain stands until the mutex is given back, and that no frame is        *)
(* admitted once process() has been seen to have left.                     *)
(***************************************************************************)
EXTENDS EspAfe, TLAPS

----------------------------------------------------------------------------
(* Steps of main and of the owner.                                         *)

\* Where a procedure returns to.
Returns == {"none", "restore", "serve", "decide", "admission", "done"}

\* The locals of an actor: main switches a feature, never a mode.
Good(c) ==
    /\ c.then \in Returns /\ c.else \in Returns
    /\ c.pc = "live" => c.name \in FeatureNames

ActTyped == act \in [Actors -> Locals] /\ \A a \in Actors : Good(act[a])

\* Actor a goes to one of the steps pcs.
Moved(a, pcs) ==
    \E c \in Locals : c.pc \in pcs /\ Good(c) /\ act' = [act EXCEPT ![a] = c]

\* The steps with config_mutex_ held, and the others.
Held == Critical \cup {"latest", "admit", "start"}
Outside == Steps \ Held

\* The step one actor goes to says nothing of the other.
LEMMA MoveTyping ==
    ASSUME ActTyped, NEW a \in Actors, NEW pcs, Moved(a, pcs)
    PROVE  /\ ActTyped'
           /\ act'[a].pc \in pcs
           /\ \A b \in Actors : b # a => act'[b] = act[b]
  BY DEF ActTyped, Moved

\* An actor that comes to rest.
LEMMA RestTyping ==
    ASSUME NEW a \in Actors
    PROVE  /\ Rest(a) \in Locals /\ Rest(a).pc \in {"none", "look"}
           /\ Rest(a).then = "none" /\ Rest(a).else = "none" /\ Good(Rest(a))
  BY AfeAssumption DEF Rest, Locals, Steps, Good, Returns

\* It moves there.
LEMMA RestMoves ==
    ASSUME NEW a \in Actors, act' = [act EXCEPT ![a] = Rest(a)]
    PROVE  Moved(a, Outside)
  <1>1. Rest(a).pc \in Outside /\ "none" \in Returns
    BY RestTyping DEF Outside, Held, Steps, Critical, Returns
  <1>2. QED
    BY <1>1, RestTyping DEF Moved

\* Goto moves to the step it names.
LEMMA GotoMoves ==
    ASSUME ActTyped, NEW a \in Actors, NEW pc \in Steps \ {"live"}, Goto(a, pc)
    PROVE  Moved(a, {pc})
  <1> DEFINE c == [act[a] EXCEPT !.pc = pc]
  <1>1. c \in Locals /\ c.pc = pc /\ Good(c)
    BY DEF Good, ActTyped, Locals
  <1>2. act' = [act EXCEPT ![a] = c]
    BY DEF Goto
  <1>3. QED
    BY <1>1, <1>2 DEF Moved

\* A call goes to the lock.
LEMMA CallMoves ==
    ASSUME ActTyped, NEW a \in Actors, NEW job \in {"rebuild", "retire"},
           NEW then \in Returns, NEW else \in Returns, Call(a, job, then, else)
    PROVE  Moved(a, {"lock"})
  <1> DEFINE c == [act[a] EXCEPT !.pc = "lock", !.job = job, !.then = then, !.else = else]
  <1>1. Returns \subseteq Steps /\ "lock" \in Steps
    BY DEF Steps, Returns
  <1>2. c \in Locals
    BY <1>1 DEF ActTyped, Locals
  <1>3. c.pc = "lock" /\ Good(c)
    BY DEF Good
  <1>4. act' = [act EXCEPT ![a] = c]
    BY DEF Call
  <1>5. QED
    BY <1>2, <1>3, <1>4 DEF Moved

\* A setting that is changed calls the rebuild, and on failure restores it.
LEMMA ApplyMoves ==
    ASSUME ActTyped, config \in Configs, NEW a \in Actors, NEW name \in FeatureNames \cup {"mode"},
           NEW new, NEW then \in Returns, Apply(a, name, new, then)
    PROVE  Moved(a, {"lock"})
  <1> DEFINE c == [act[a] EXCEPT !.pc = "lock", !.then = then, !.else = "restore",
                                 !.name = name, !.mode = config.mode]
  <1>1. Returns \subseteq Steps /\ {"lock", "restore"} \subseteq Steps
    BY DEF Steps, Returns
  <1>2. c \in Locals
    BY <1>1 DEF ActTyped, Locals, Configs
  <1>3. c.pc = "lock" /\ Good(c)
    BY DEF Good, Returns
  <1>4. act' = [act EXCEPT ![a] = c]
    BY DEF Apply
  <1>5. QED
    BY <1>2, <1>3, <1>4 DEF Moved

\* A procedure returns to a step outside it.
LEMMA ResultMoves ==
    ASSUME ActTyped, NEW a \in Actors, NEW value \in BOOLEAN, Result(a, value)
    PROVE  Moved(a, Outside)
  <1> DEFINE c == act[a]
             next == IF value THEN c.then ELSE c.else
  <1>1. c \in Locals /\ Good(c) /\ next \in Returns /\ next \in Outside /\ next \in Steps
    BY DEF Good, ActTyped, Steps, Returns, Critical, Held, Outside
  <1>2. CASE next = "none"
    <2>1. act' = [act EXCEPT ![a] = Rest(a)]
      BY <1>2 DEF Result
    <2>2. Rest(a).pc \in Outside /\ "none" \in Returns
      BY RestTyping DEF Outside, Held, Steps, Critical, Returns
    <2>3. QED
      BY <2>1, <2>2, RestTyping DEF Moved
  <1>3. CASE next = "restore"
    <2> DEFINE d == [c EXCEPT !.pc = next]
    <2>1. act' = [act EXCEPT ![a] = d]
      BY <1>3 DEF Result
    <2>2. d \in Locals /\ d.pc = next /\ Good(d)
      BY <1>1, <1>3 DEF Good, Locals
    <2>3. QED
      BY <1>1, <2>1, <2>2 DEF Moved
  <1>4. CASE next \notin {"none", "restore"}
    <2> DEFINE d == [Rest(a) EXCEPT !.pc = next]
    <2>1. act' = [act EXCEPT ![a] = d]
      BY <1>4 DEF Result
    <2>2. d \in Locals /\ d.pc = next /\ Good(d)
      BY <1>1, RestTyping DEF Good, Locals, Returns
    <2>3. QED
      BY <1>1, <2>1, <2>2 DEF Moved
  <1>5. QED
    BY <1>2, <1>3, <1>4
----------------------------------------------------------------------------
(* Types.                                                                  *)

TypeInv == TypeOK /\ ActTyped

Frames == [pc : FramePcs, epoch : Epochs, waiter : Actors \cup {NoOne}]
Fetches == [pc : {"idle", "voice", "release"}, epoch : Epochs]
Histories == [failed : BOOLEAN, changes : Nat, faults : Nat]

\* The counts of the history only grow.
LEMMA HistoryTyping ==
    ASSUME TypeOK, Fault \/ Failed \/ Change \/ UNCHANGED history
              \/ history' = [history EXCEPT !.failed = FALSE]
    PROVE  history' \in Histories
  <1>1. history \in Histories
    BY DEF TypeOK, Histories
  <1>2. CASE Fault
    <2>1. /\ history.faults + 1 \in Nat
          /\ history' = [[history EXCEPT !.faults = history.faults + 1] EXCEPT !.failed = TRUE]
      BY <1>1, <1>2 DEF Fault, Histories
    <2>2. [history EXCEPT !.faults = history.faults + 1] \in Histories
      BY <1>1, <2>1 DEF Histories
    <2>3. QED
      BY <2>1, <2>2 DEF Histories
  <1>3. CASE Failed
    BY <1>1, <1>3 DEF Failed, Histories
  <1>4. CASE Change
    BY <1>1, <1>4 DEF Change, Histories
  <1>5. CASE history' = [history EXCEPT !.failed = FALSE]
    BY <1>1, <1>5 DEF Histories
  <1>6. QED
    BY <1>1, <1>2, <1>3, <1>4, <1>5

\* Switching a feature leaves a configuration.
LEMMA SwitchedTyping ==
    ASSUME TypeOK, NEW name \in FeatureNames, NEW value \in BOOLEAN
    PROVE  Switched(name, value) \in Configs
  BY DEF TypeOK, Switched, Configs

\* The features that can be switched, the queues there may be, the first epoch.
LEMMA SomeValues ==
    /\ Switches \subseteq FeatureNames /\ "vad" \in FeatureNames
    /\ <<>> \in Seq(Modes) /\ \A m \in Modes : <<m>> \in Seq(Modes)
    /\ 0 \in Epochs
  BY AfeAssumption DEF FeatureNames, Epochs

\* Every step that is gone to is one.
LEMMA StepNames ==
    /\ Critical \subseteq Steps /\ Returns \subseteq Outside
    /\ Outside \subseteq Steps /\ {"latest", "admit", "start"} \subseteq Steps
    /\ {"asleep", "take", "service", "lock", "withdraw", "pend", "notify", "overwrite", "live",
        "none", "look", "serve", "decide", "admission", "done", "restore"} \subseteq Outside
  BY DEF Steps, Critical, Returns, Held, Outside

\* The load of the request moves to the installation.
LEMMA LoadMoves ==
    ASSUME TypeInv, NEW a \in Actors, LoadRequest(a)
    PROVE  Moved(a, {"install"})
  <1> DEFINE c == [act[a] EXCEPT !.wanted = request.active /\ sh.epoch = request.epoch, !.pc = "install"]
  <1>1. (request.active /\ sh.epoch = request.epoch) \in BOOLEAN /\ "install" \in Steps
    BY DEF TypeInv, Steps, Critical
  <1>2. c \in Locals /\ c.pc = "install" /\ Good(c)
    BY <1>1 DEF TypeInv, ActTyped, Good, Locals
  <1>3. act' = [act EXCEPT ![a] = c]
    BY DEF LoadRequest
  <1>4. QED
    BY <1>2, <1>3 DEF Moved

\* The procedure keeps the types, whoever runs it.
LEMMA ProcedureTyping ==
    ASSUME TypeInv, NEW a \in Actors, Procedure(a)
    PROVE  TypeInv'
  <1> USE StepNames DEF TypeInv
  <1>1. CASE Lock(a)
    <2>1. ActTyped'
      BY <1>1, GotoMoves, ResultMoves, MoveTyping DEF Lock, Critical
    <2>2. lock' \in Actors \cup {NoOne}
      BY <1>1 DEF Lock, TypeOK
    <2>3. history' \in Histories
      BY <1>1, HistoryTyping DEF Lock
    <2>4. UNCHANGED <<request, sh, config, queue, notified, instance, pcm, frame, fetch>>
      BY <1>1 DEF Lock
    <2>5. QED
      BY <2>1, <2>2, <2>3, <2>4 DEF TypeOK, ActTyped, Histories
  <1>2. CASE Drain(a)
    <2>1. ActTyped'
      BY <1>2, GotoMoves, MoveTyping DEF Drain, Critical
    <2>2. sh' \in Shared
      BY <1>2 DEF Drain, TypeOK, Shared
    <2>3. UNCHANGED <<request, config, queue, notified, lock, instance, pcm, frame, fetch, history>>
      BY <1>2 DEF Drain
    <2>4. QED
      BY <2>1, <2>2, <2>3 DEF TypeOK, ActTyped
  <1>3. CASE DrainCheck(a)
    <2>1. ActTyped'
      BY <1>3, GotoMoves, MoveTyping DEF DrainCheck, Critical
    <2>2. UNCHANGED <<request, sh, config, queue, notified, lock, instance, pcm, frame, fetch, history>>
      BY <1>3 DEF DrainCheck
    <2>3. QED
      BY <2>1, <2>2 DEF TypeOK, ActTyped
  <1>4. CASE DrainRegister(a)
    <2>1. ActTyped'
      BY <1>4, GotoMoves, MoveTyping DEF DrainRegister, Critical
    <2>2. sh' \in Shared
      BY <1>4 DEF DrainRegister, TypeOK, Shared
    <2>3. notified' \in [Actors -> BOOLEAN]
      BY <1>4 DEF DrainRegister, TypeOK
    <2>4. UNCHANGED <<request, config, queue, lock, instance, pcm, frame, fetch, history>>
      BY <1>4 DEF DrainRegister
    <2>5. QED
      BY <2>1, <2>2, <2>3, <2>4 DEF TypeOK, ActTyped
  <1>5. CASE DrainWait(a)
    <2>1. ActTyped'
      BY <1>5, GotoMoves, MoveTyping DEF DrainWait, Critical
    <2>2. notified' \in [Actors -> BOOLEAN]
      BY <1>5 DEF DrainWait, TypeOK
    <2>3. history' \in Histories
      BY <1>5, HistoryTyping DEF DrainWait
    <2>4. UNCHANGED <<request, sh, config, queue, lock, instance, pcm, frame, fetch>>
      BY <1>5 DEF DrainWait
    <2>5. QED
      BY <2>1, <2>2, <2>3, <2>4 DEF TypeOK, ActTyped, Histories
  <1>6. CASE DrainSettle(a)
    <2>1. ActTyped'
      BY <1>6, GotoMoves, ResultMoves, MoveTyping DEF DrainSettle, Leave, Failed, Critical
    <2>2. sh' \in Shared
      <3>1. \/ sh' = [[sh EXCEPT !.waiter = NoOne] EXCEPT !.drain = FALSE]
            \/ sh' = [sh EXCEPT !.waiter = NoOne]
        BY <1>6 DEF DrainSettle, Leave, Failed
      <3>2. /\ [[sh EXCEPT !.waiter = NoOne] EXCEPT !.drain = FALSE] \in Shared
            /\ [sh EXCEPT !.waiter = NoOne] \in Shared
        BY DEF TypeOK, Shared
      <3>3. QED
        BY <3>1, <3>2
    <2>3. lock' \in Actors \cup {NoOne}
      BY <1>6 DEF DrainSettle, Leave, Failed, TypeOK
    <2>4. history' \in Histories
      BY <1>6, HistoryTyping DEF DrainSettle, Leave
    <2>5. UNCHANGED <<request, config, queue, notified, instance, pcm, frame, fetch>>
      BY <1>6 DEF DrainSettle, Leave, Failed
    <2>6. QED
      BY <2>1, <2>2, <2>3, <2>4, <2>5 DEF TypeOK, ActTyped, Histories
  <1>7. CASE Detach(a)
    <2>1. ActTyped'
      BY <1>7, GotoMoves, MoveTyping DEF Detach, Critical
    <2>2. instance' \in Instances
      BY <1>7 DEF Detach, Instances, NoInstance
    <2>3. pcm' \in Pcm
      BY <1>7 DEF Detach, Pcm, NoPcm
    <2>4. sh' \in Shared
      BY <1>7 DEF Detach, TypeOK, Shared
    <2>5. UNCHANGED <<request, config, queue, notified, lock, frame, fetch, history>>
      BY <1>7 DEF Detach
    <2>6. QED
      BY <2>1, <2>2, <2>3, <2>4, <2>5 DEF TypeOK, ActTyped
  <1>8. CASE Retired(a)
    <2>1. ActTyped'
      BY <1>8, ResultMoves, MoveTyping DEF Retired, Leave
    <2>2. sh' \in Shared
      BY <1>8 DEF Retired, Leave, TypeOK, Shared, Requests
    <2>3. lock' \in Actors \cup {NoOne}
      BY <1>8 DEF Retired, Leave
    <2>4. UNCHANGED <<request, config, queue, notified, instance, pcm, frame, fetch, history>>
      BY <1>8 DEF Retired, Leave
    <2>5. QED
      BY <2>1, <2>2, <2>3, <2>4 DEF TypeOK, ActTyped
  <1>9. CASE Build(a)
    <2>1. ActTyped'
      BY <1>9, GotoMoves, ResultMoves, MoveTyping DEF Build, Leave, Critical
    <2>2. sh' \in Shared
      <3>1. \/ sh' = [[sh EXCEPT !.stopped = TRUE] EXCEPT !.drain = FALSE]
            \/ sh' = [sh EXCEPT !.drain = FALSE]
            \/ sh' = sh
        BY <1>9 DEF Build, Leave
      <3>2. /\ [[sh EXCEPT !.stopped = TRUE] EXCEPT !.drain = FALSE] \in Shared
            /\ [sh EXCEPT !.drain = FALSE] \in Shared
            /\ sh \in Shared
        BY DEF TypeOK, Shared
      <3>3. QED
        BY <3>1, <3>2
    <2>3. lock' \in Actors \cup {NoOne}
      BY <1>9 DEF Build, Leave, TypeOK
    <2>4. instance' \in Instances
      BY <1>9 DEF Build, Leave, Built, TypeOK, Instances, NoInstance
    <2>5. history' \in Histories
      BY <1>9, HistoryTyping DEF Build, Leave
    <2>6. UNCHANGED <<request, config, queue, notified, pcm, frame, fetch>>
      BY <1>9 DEF Build, Leave
    <2>7. QED
      BY <2>1, <2>2, <2>3, <2>4, <2>5, <2>6 DEF TypeOK, ActTyped, Histories
  <1>10. CASE PublishEpoch(a)
    <2>1. ActTyped'
      BY <1>10, GotoMoves, MoveTyping DEF PublishEpoch, Critical
    <2>2. sh' \in Shared
      BY <1>10 DEF PublishEpoch, TypeOK, Shared, Requests
    <2>3. UNCHANGED <<request, config, queue, notified, lock, instance, pcm, frame, fetch, history>>
      BY <1>10 DEF PublishEpoch
    <2>4. QED
      BY <2>1, <2>2, <2>3 DEF TypeOK, ActTyped
  <1>11. CASE LoadRequest(a)
    BY <1>11, LoadMoves, MoveTyping DEF LoadRequest, TypeOK, ActTyped
  <1>12. CASE Install(a)
    <2>1. ActTyped'
      BY <1>12, GotoMoves, ResultMoves, MoveTyping DEF Install, Leave, Critical
    <2>2. sh' \in Shared
      <3>1. \/ sh' = [sh EXCEPT !.admit = act[a].wanted]
            \/ sh' = [sh EXCEPT !.drain = FALSE]
            \/ sh' = [[sh EXCEPT !.admit = FALSE] EXCEPT !.drain = FALSE]
        BY <1>12 DEF Install, Leave
      <3>2. /\ [sh EXCEPT !.admit = act[a].wanted] \in Shared
            /\ [sh EXCEPT !.drain = FALSE] \in Shared
            /\ [[sh EXCEPT !.admit = FALSE] EXCEPT !.drain = FALSE] \in Shared
        BY DEF TypeOK, Locals, Shared
      <3>3. QED
        BY <3>1, <3>2
    <2>3. lock' \in Actors \cup {NoOne}
      BY <1>12 DEF Install, Leave, TypeOK
    <2>4. instance' \in Instances
      <3>1. \/ instance' = [instance EXCEPT !.running = act[a].wanted, !.rings = RingsMade]
            \/ instance' = NoInstance
        BY <1>12 DEF Install, Leave
      <3>2. /\ [instance EXCEPT !.running = act[a].wanted, !.rings = RingsMade] \in Instances
            /\ NoInstance \in Instances
        BY DEF TypeOK, Locals, RingsMade, Instances, NoInstance
      <3>3. QED
        BY <3>1, <3>2
    <2>5. history' \in Histories
      BY <1>12, HistoryTyping DEF Install, Leave
    <2>6. UNCHANGED <<request, config, queue, notified, pcm, frame, fetch>>
      BY <1>12 DEF Install, Leave
    <2>7. QED
      BY <2>1, <2>2, <2>3, <2>4, <2>5, <2>6 DEF TypeOK, ActTyped, Histories
  <1>13. CASE Up(a)
    <2>1. ActTyped'
      BY <1>13, ResultMoves, MoveTyping DEF Up, Leave
    <2>2. sh' \in Shared
      <3>1. \/ sh' = [[sh EXCEPT !.stopped = TRUE] EXCEPT !.drain = FALSE]
            \/ sh' = [[sh EXCEPT !.voice = {}, !.ready = TRUE, !.stopped = FALSE] EXCEPT !.drain = FALSE]
        BY <1>13 DEF Up, Leave
      <3>2. /\ [[sh EXCEPT !.stopped = TRUE] EXCEPT !.drain = FALSE] \in Shared
            /\ [[sh EXCEPT !.voice = {}, !.ready = TRUE, !.stopped = FALSE] EXCEPT !.drain = FALSE] \in Shared
        BY DEF TypeOK, Shared
      <3>3. QED
        BY <3>1, <3>2
    <2>3. lock' \in Actors \cup {NoOne}
      BY <1>13 DEF Up, Leave
    <2>4. instance' \in Instances
      <3>1. \/ instance' = NoInstance
            \/ instance' = instance
        BY <1>13 DEF Up, Leave
      <3>2. /\ NoInstance \in Instances
            /\ instance \in Instances
        BY DEF TypeOK, Instances, NoInstance
      <3>3. QED
        BY <3>1, <3>2
    <2>5. pcm' \in Pcm
      <3>1. \/ pcm' = NoPcm
            \/ pcm' = pcm
        BY <1>13 DEF Up, Leave
      <3>2. /\ NoPcm \in Pcm
            /\ pcm \in Pcm
        BY DEF TypeOK, Pcm, NoPcm
      <3>3. QED
        BY <3>1, <3>2
    <2>6. UNCHANGED <<request, config, queue, notified, frame, fetch, history>>
      BY <1>13 DEF Up, Leave
    <2>7. QED
      BY <2>1, <2>2, <2>3, <2>4, <2>5, <2>6 DEF TypeOK, ActTyped
  <1>14. QED
    BY <1>1, <1>2, <1>3, <1>4, <1>5, <1>6, <1>7, <1>8, <1>9, <1>10, <1>11, <1>12, <1>13 DEF Procedure

\* The setting restored, the rebuild is called once more.
LEMMA RestoreMoves ==
    ASSUME ActTyped, NEW a \in Actors, Restore(a)
    PROVE  Moved(a, {"lock"})
  <1> DEFINE c == [Rest(a) EXCEPT !.pc = "lock", !.then = act[a].then, !.else = act[a].then]
  <1>1. c \in Locals /\ c.pc = "lock" /\ Good(c)
    BY RestTyping, StepNames DEF ActTyped, Good, Locals
  <1>2. act' = [act EXCEPT ![a] = c]
    BY DEF Restore
  <1>3. QED
    BY <1>1, <1>2 DEF Moved

\* Restoring the setting before keeps the types, whoever does it.
LEMMA RestoreTyping ==
    ASSUME TypeInv, NEW a \in Actors, Restore(a)
    PROVE  TypeInv'
  <1> USE StepNames DEF TypeInv
  <1>1. ActTyped'
    BY RestoreMoves, MoveTyping
  <1>2. config' \in Configs
    <2>1. act[a] \in Locals /\ config \in Configs
      BY DEF TypeOK
    <2>2. CASE act[a].name = "mode"
      BY <2>1, <2>2 DEF Restore, Locals, Configs
    <2>3. CASE act[a].name # "mode"
      <3>1. act[a].name \in FeatureNames
        BY <2>1, <2>3 DEF Locals
      <3>2. config' = Switched(act[a].name, act[a].name \notin config.on)
        BY <2>3 DEF Restore
      <3>3. QED
        BY <3>1, <3>2, SwitchedTyping
    <2>4. QED
      BY <2>2, <2>3
  <1>3. UNCHANGED <<request, sh, queue, notified, lock, instance, pcm, frame, fetch, history>>
    BY DEF Restore
  <1>4. QED
    BY <1>1, <1>2, <1>3 DEF TypeOK, ActTyped

\* The owner's passes keep the types.
LEMMA OwnerTyping ==
    ASSUME TypeInv, OwnerStep
    PROVE  TypeInv'
  <1> USE StepNames DEF TypeInv
  <1>1. CASE Look
    <2>1. ActTyped'
      BY <1>1, GotoMoves, MoveTyping DEF Look, Actors
    <2>2. sh' \in Shared
      BY <1>1 DEF Look, TypeOK, Shared
    <2>3. UNCHANGED <<request, config, queue, notified, lock, instance, pcm, frame, fetch, history>>
      BY <1>1 DEF Look
    <2>4. QED
      BY <2>1, <2>2, <2>3 DEF TypeOK, ActTyped
  <1>2. CASE Awake
    <2>1. ActTyped'
      BY <1>2, GotoMoves, MoveTyping DEF Awake, Actors
    <2>2. notified' \in [Actors -> BOOLEAN]
      BY <1>2 DEF Awake, TypeOK
    <2>3. sh' \in Shared
      BY <1>2 DEF Awake, TypeOK, Shared
    <2>4. UNCHANGED <<request, config, queue, lock, instance, pcm, frame, fetch, history>>
      BY <1>2 DEF Awake
    <2>5. QED
      BY <2>1, <2>2, <2>3, <2>4 DEF TypeOK, ActTyped
  <1>3. CASE Take
    <2>1. ActTyped'
      <3>1. CASE queue # <<>>
        <4>1. Apply("owner", "mode", [config EXCEPT !.mode = Head(queue)], "serve")
          BY <1>3, <3>1 DEF Take
        <4>2. QED
          BY <4>1, ApplyMoves, MoveTyping DEF Actors, Returns, TypeOK
      <3>2. CASE queue = <<>>
        BY <1>3, <3>2, GotoMoves, MoveTyping DEF Take, Actors
      <3>3. QED
        BY <3>1, <3>2
    <2>2. config' \in Configs
      BY <1>3, SwitchedTyping DEF Take, Apply, TypeOK, Configs
    <2>3. queue' \in Seq(Modes)
      BY <1>3, SomeValues DEF Take, Apply
    <2>4. UNCHANGED <<request, sh, notified, lock, instance, pcm, frame, fetch, history>>
      BY <1>3 DEF Take, Apply
    <2>5. QED
      BY <2>1, <2>2, <2>3, <2>4 DEF TypeOK, ActTyped
  <1>4. CASE Serve
    <2>1. ActTyped'
      BY <1>4, GotoMoves, MoveTyping DEF Serve, Actors
    <2>2. sh' \in Shared
      BY <1>4 DEF Serve, TypeOK, Shared
    <2>3. UNCHANGED <<request, config, queue, notified, lock, instance, pcm, frame, fetch, history>>
      BY <1>4 DEF Serve
    <2>4. QED
      BY <2>1, <2>2, <2>3 DEF TypeOK, ActTyped
  <1>5. CASE Service
    <2>1. ActTyped'
      BY <1>5, GotoMoves, MoveTyping, CallMoves DEF Service, Actors, Returns
    <2>2. UNCHANGED <<request, sh, config, queue, notified, lock, instance, pcm, frame, fetch, history>>
      BY <1>5 DEF Service
    <2>3. QED
      BY <2>1, <2>2 DEF TypeOK, ActTyped
  <1>6. CASE Decide
    <2>1. ActTyped'
      BY <1>6, GotoMoves, MoveTyping, CallMoves DEF Decide, Actors, Returns
    <2>2. UNCHANGED <<request, sh, config, queue, notified, lock, instance, pcm, frame, fetch, history>>
      BY <1>6 DEF Decide
    <2>3. QED
      BY <2>1, <2>2 DEF TypeOK, ActTyped
  <1>7. CASE AdmissionLock
    <2>1. ActTyped'
      BY <1>7, GotoMoves, MoveTyping DEF AdmissionLock, Actors
    <2>2. lock' \in Actors \cup {NoOne}
      BY <1>7 DEF AdmissionLock, TypeOK, Actors
    <2>3. history' \in Histories
      BY <1>7, HistoryTyping DEF AdmissionLock
    <2>4. UNCHANGED <<request, sh, config, queue, notified, instance, pcm, frame, fetch>>
      BY <1>7 DEF AdmissionLock
    <2>5. QED
      BY <2>1, <2>2, <2>3, <2>4 DEF TypeOK, ActTyped, Histories
  <1>8. CASE Latest
    <2>1. ActTyped'
      BY <1>8, GotoMoves, MoveTyping DEF Latest, Actors
    <2>2. lock' \in Actors \cup {NoOne}
      BY <1>8 DEF Latest, Failed, TypeOK
    <2>3. history' \in Histories
      BY <1>8, HistoryTyping DEF Latest
    <2>4. UNCHANGED <<request, sh, config, queue, notified, instance, pcm, frame, fetch>>
      BY <1>8 DEF Latest, Failed
    <2>5. QED
      BY <2>1, <2>2, <2>3, <2>4 DEF TypeOK, ActTyped, Histories
  <1>9. CASE Admit
    <2>1. ActTyped'
      BY <1>9, GotoMoves, MoveTyping DEF Admit, Actors
    <2>2. sh' \in Shared
      BY <1>9 DEF Admit, TypeOK, Shared
    <2>3. UNCHANGED <<request, config, queue, notified, lock, instance, pcm, frame, fetch, history>>
      BY <1>9 DEF Admit
    <2>4. QED
      BY <2>1, <2>2, <2>3 DEF TypeOK, ActTyped
  <1>10. CASE Start
    <2>1. ActTyped'
      BY <1>10, GotoMoves, MoveTyping DEF Start, Actors
    <2>2. lock' \in Actors \cup {NoOne}
      BY <1>10 DEF Start
    <2>3. sh' \in Shared
      <3>1. \/ sh' = sh
            \/ sh' = [sh EXCEPT !.admit = FALSE]
        BY <1>10 DEF Start
      <3>2. /\ sh \in Shared
            /\ [sh EXCEPT !.admit = FALSE] \in Shared
        BY DEF TypeOK, Shared
      <3>3. QED
        BY <3>1, <3>2
    <2>4. instance' \in Instances
      <3>1. \/ instance' = instance
            \/ instance' = [instance EXCEPT !.running = TRUE]
        BY <1>10 DEF Start
      <3>2. /\ instance \in Instances
            /\ [instance EXCEPT !.running = TRUE] \in Instances
        BY DEF TypeOK, Instances
      <3>3. QED
        BY <3>1, <3>2
    <2>5. pcm' \in Pcm
      <3>1. \/ pcm' = pcm
            \/ pcm' = NoPcm
        BY <1>10 DEF Start
      <3>2. /\ pcm \in Pcm
            /\ NoPcm \in Pcm
        BY DEF TypeOK, Pcm, NoPcm
      <3>3. QED
        BY <3>1, <3>2
    <2>6. history' \in Histories
      BY <1>10, HistoryTyping DEF Start
    <2>7. UNCHANGED <<request, config, queue, notified, frame, fetch>>
      BY <1>10 DEF Start
    <2>8. QED
      BY <2>1, <2>2, <2>3, <2>4, <2>5, <2>6, <2>7 DEF TypeOK, ActTyped, Histories
  <1>11. CASE Done
    <2>1. ActTyped'
      <3>1. act' = [act EXCEPT !["owner"] = Rest("owner")]
        BY <1>11 DEF Done
      <3>2. QED
        BY <3>1, RestMoves, MoveTyping DEF Actors
    <2>2. sh' \in Shared
      BY <1>11 DEF Done, TypeOK, Shared
    <2>3. UNCHANGED <<request, config, queue, notified, lock, instance, pcm, frame, fetch, history>>
      BY <1>11 DEF Done
    <2>4. QED
      BY <2>1, <2>2, <2>3 DEF TypeOK, ActTyped
  <1>12. QED
    BY <1>1, <1>2, <1>3, <1>4, <1>5, <1>6, <1>7, <1>8, <1>9, <1>10, <1>11, ProcedureTyping, RestoreTyping
       DEF OwnerStep, Actors

\* A mode is requested.
LEMMA ReinitMoves ==
    ASSUME ActTyped, NEW m \in Modes, RequestReinit(m)
    PROVE  Moved("main", Outside)
  <1> DEFINE c == [act["main"] EXCEPT !.pc = "overwrite", !.mode = m]
  <1>1. c \in Locals /\ c.pc \in Outside /\ Good(c)
    BY StepNames DEF ActTyped, Good, Locals, Actors
  <1>2. act' = [act EXCEPT !["main"] = c]
    BY DEF RequestReinit
  <1>3. QED
    BY <1>1, <1>2 DEF Moved

\* A feature is switched live.
LEMMA LiveMoves ==
    ASSUME ActTyped, NEW f \in Switches, ToggleLive(f)
    PROVE  Moved("main", Outside)
  <1> DEFINE c == [act["main"] EXCEPT !.pc = "live", !.name = f]
  <1>1. c \in Locals /\ c.pc \in Outside /\ Good(c)
    BY StepNames, SomeValues DEF ActTyped, Good, Locals, Actors, ToggleLive
  <1>2. act' = [act EXCEPT !["main"] = c]
    BY DEF ToggleLive
  <1>3. QED
    BY <1>1, <1>2 DEF Moved

\* A mode is queued.
LEMMA OverwriteMoves ==
    ASSUME ActTyped, Overwrite
    PROVE  Moved("main", Outside)
  <1> DEFINE c == [Rest("main") EXCEPT !.pc = "notify"]
  <1>1. c \in Locals /\ c.pc \in Outside /\ Good(c)
    BY StepNames, RestTyping DEF Good, Locals, Actors
  <1>2. act' = [act EXCEPT !["main"] = c]
    BY DEF Overwrite
  <1>3. QED
    BY <1>1, <1>2 DEF Moved

\* Main's calls keep the types.
LEMMA CallTyping ==
    ASSUME TypeInv, MainCall
    PROVE  TypeInv'
  <1> USE StepNames DEF TypeInv
  <1>1. ASSUME NEW active \in BOOLEAN, SetProcessingActive(active) PROVE TypeInv'
    <2>1. ActTyped'
      BY <1>1, GotoMoves, MoveTyping DEF SetProcessingActive, Actors
    <2>2. request' \in Requests
      <3>1. request \in Requests /\ (request.epoch < MaxEpoch => request.epoch + 1 \in Epochs)
        BY AfeAssumption DEF TypeOK, Requests, Epochs
      <3>2. \/ request' = request
            \/ request' = [request EXCEPT !.active = TRUE]
            \/ request.epoch < MaxEpoch /\ request' = [active |-> FALSE, epoch |-> request.epoch + 1]
        BY <1>1 DEF SetProcessingActive
      <3>3. ASSUME request.epoch < MaxEpoch
            PROVE  [active |-> FALSE, epoch |-> request.epoch + 1] \in Requests
        BY <3>1, <3>3 DEF Requests
      <3>4. [request EXCEPT !.active = TRUE] \in Requests
        BY <3>1 DEF Requests
      <3>5. QED
        BY <3>1, <3>2, <3>3, <3>4
    <2>3. history' \in Histories
      BY <1>1, HistoryTyping DEF SetProcessingActive
    <2>4. UNCHANGED <<sh, config, queue, notified, lock, instance, pcm, frame, fetch>>
      BY <1>1 DEF SetProcessingActive
    <2>5. QED
      BY <2>1, <2>2, <2>3, <2>4 DEF TypeOK, ActTyped, Histories
  <1>2. ASSUME NEW m \in Modes, RequestReinit(m) PROVE TypeInv'
    <2>1. ActTyped'
      BY <1>2, ReinitMoves, MoveTyping DEF Actors
    <2>2. sh' \in Shared
      BY <1>2 DEF RequestReinit, Change, TypeOK, Shared
    <2>3. history' \in Histories
      BY <1>2, HistoryTyping DEF RequestReinit
    <2>4. UNCHANGED <<request, config, queue, notified, lock, instance, pcm, frame, fetch>>
      BY <1>2 DEF RequestReinit, Change
    <2>5. QED
      BY <2>1, <2>2, <2>3, <2>4 DEF TypeOK, ActTyped, Histories
  <1>3. CASE VadIntent
    <2>1. ActTyped'
      BY <1>3, GotoMoves, MoveTyping DEF VadIntent, Actors
    <2>2. config' \in Configs
      BY <1>3, SwitchedTyping, SomeValues DEF VadIntent, Change
    <2>3. sh' \in Shared
      BY <1>3 DEF VadIntent, Change, TypeOK, Shared
    <2>4. history' \in Histories
      BY <1>3, HistoryTyping DEF VadIntent
    <2>5. UNCHANGED <<request, queue, notified, lock, instance, pcm, frame, fetch>>
      BY <1>3 DEF VadIntent, Change
    <2>6. QED
      BY <2>1, <2>2, <2>3, <2>4, <2>5 DEF TypeOK, ActTyped, Histories
  <1>4. ASSUME NEW f \in Switches, ToggleStopped(f) PROVE TypeInv'
    <2>1. ActTyped'
      <3>1. CASE f \in config.on
        BY <1>4, <3>1 DEF ToggleStopped, ActTyped
      <3>2. CASE f \notin config.on
        <4>1. Call("main", "rebuild", "none", "none") /\ "none" \in Returns /\ "main" \in Actors
          BY <1>4, <3>2 DEF ToggleStopped, Returns, Actors
        <4>2. Moved("main", {"lock"})
          BY <4>1, CallMoves
        <4>3. QED
          BY <4>1, <4>2, MoveTyping
      <3>3. QED
        BY <3>1, <3>2
    <2>2. config' \in Configs
      BY <1>4, SwitchedTyping, SomeValues DEF ToggleStopped, Change
    <2>3. sh' \in Shared
      BY <1>4 DEF ToggleStopped, Change, TypeOK, Shared
    <2>4. history' \in Histories
      BY <1>4, HistoryTyping DEF ToggleStopped
    <2>5. UNCHANGED <<request, queue, notified, lock, instance, pcm, frame, fetch>>
      BY <1>4 DEF ToggleStopped, Change
    <2>6. QED
      BY <2>1, <2>2, <2>3, <2>4, <2>5 DEF TypeOK, ActTyped, Histories
  <1>5. ASSUME NEW f \in Switches, ToggleRebuild(f) PROVE TypeInv'
    <2>1. ActTyped'
      <3>1. Apply("main", f, Switched(f, f \notin config.on), "none") /\ f \in FeatureNames
        BY <1>5, AfeAssumption DEF ToggleRebuild, FeatureNames
      <3>2. QED
        BY <3>1, ApplyMoves, MoveTyping DEF Actors, Returns, TypeOK
    <2>2. config' \in Configs
      BY <1>5, SwitchedTyping, SomeValues DEF ToggleRebuild, Change, Apply
    <2>3. history' \in Histories
      BY <1>5, HistoryTyping DEF ToggleRebuild, Apply
    <2>4. UNCHANGED <<request, sh, queue, notified, lock, instance, pcm, frame, fetch>>
      BY <1>5 DEF ToggleRebuild, Change, Apply
    <2>5. QED
      BY <2>1, <2>2, <2>3, <2>4 DEF TypeOK, ActTyped, Histories
  <1>6. ASSUME NEW f \in Switches, ToggleLive(f) PROVE TypeInv'
    <2>1. ActTyped'
      BY <1>6, LiveMoves, MoveTyping DEF Actors
    <2>2. history' \in Histories
      BY <1>6, HistoryTyping DEF ToggleLive
    <2>3. UNCHANGED <<request, sh, config, queue, notified, lock, instance, pcm, frame, fetch>>
      BY <1>6 DEF ToggleLive, Change
    <2>4. QED
      BY <2>1, <2>2, <2>3 DEF TypeOK, ActTyped, Histories
  <1>7. QED
    BY <1>1, <1>2, <1>3, <1>4, <1>5, <1>6 DEF MainCall

\* The steps of a call of main keep the types.
LEMMA MainTyping ==
    ASSUME TypeInv, MainStep
    PROVE  TypeInv'
  <1> USE StepNames DEF TypeInv
  <1>1. CASE Withdraw
    <2>1. ActTyped'
      BY <1>1, GotoMoves, MoveTyping DEF Withdraw, Actors
    <2>2. sh' \in Shared
      BY <1>1 DEF Withdraw, TypeOK, Shared
    <2>3. UNCHANGED <<request, config, queue, notified, lock, instance, pcm, frame, fetch, history>>
      BY <1>1 DEF Withdraw
    <2>4. QED
      BY <2>1, <2>2, <2>3 DEF TypeOK, ActTyped
  <1>2. CASE Pend
    <2>1. ActTyped'
      BY <1>2, GotoMoves, MoveTyping DEF Pend, Actors
    <2>2. sh' \in Shared
      BY <1>2 DEF Pend, TypeOK, Shared
    <2>3. UNCHANGED <<request, config, queue, notified, lock, instance, pcm, frame, fetch, history>>
      BY <1>2 DEF Pend
    <2>4. QED
      BY <2>1, <2>2, <2>3 DEF TypeOK, ActTyped
  <1>3. CASE Notify
    <2>1. ActTyped'
      <3>1. act' = [act EXCEPT !["main"] = Rest("main")]
        BY <1>3 DEF Notify
      <3>2. QED
        BY <3>1, RestMoves, MoveTyping DEF Actors
    <2>2. notified' \in [Actors -> BOOLEAN]
      BY <1>3 DEF Notify, TypeOK
    <2>3. UNCHANGED <<request, sh, config, queue, lock, instance, pcm, frame, fetch, history>>
      BY <1>3 DEF Notify
    <2>4. QED
      BY <2>1, <2>2, <2>3 DEF TypeOK, ActTyped
  <1>4. CASE Overwrite
    <2>1. ActTyped'
      BY <1>4, OverwriteMoves, MoveTyping DEF Actors
    <2>2. queue' \in Seq(Modes)
      BY <1>4 DEF Overwrite, TypeOK, Locals, Actors
    <2>3. UNCHANGED <<request, sh, config, notified, lock, instance, pcm, frame, fetch, history>>
      BY <1>4 DEF Overwrite
    <2>4. QED
      BY <2>1, <2>2, <2>3 DEF TypeOK, ActTyped
  <1>5. CASE Live
    <2>1. ActTyped'
      BY <1>5, CallMoves, RestMoves, MoveTyping DEF Live, Return, Returns, Actors
    <2>2. config' \in Configs
      <3>1. act["main"].name \in FeatureNames /\ config \in Configs
        BY <1>5 DEF Live, At, ActTyped, Good, Actors, TypeOK
      <3>2. \/ config' = config
            \/ config' = Switched(act["main"].name, act["main"].name \notin config.on)
        BY <1>5 DEF Live
      <3>3. QED
        BY <3>1, <3>2, SwitchedTyping
    <2>3. sh' \in Shared
      BY <1>5 DEF Live, Return, TypeOK, Shared
    <2>4. history' \in Histories
      BY <1>5, HistoryTyping DEF Live, Return
    <2>5. UNCHANGED <<request, queue, notified, lock, instance, pcm, frame, fetch>>
      BY <1>5 DEF Live, Return
    <2>6. QED
      BY <2>1, <2>2, <2>3, <2>4, <2>5 DEF TypeOK, ActTyped, Histories
  <1>6. QED
    BY <1>1, <1>2, <1>3, <1>4, <1>5, ProcedureTyping, RestoreTyping DEF MainStep, Actors

\* process() and the manager keep the types.
LEMMA AudioTyping ==
    ASSUME TypeInv, Enter \/ AudioStep \/ ManagerStep
    PROVE  TypeInv'
  <1> USE StepNames DEF TypeInv
  <1>1. CASE Enter
    <2>1. ActTyped'
      BY <1>1 DEF Enter, ActTyped
    <2>2. frame' \in Frames
      BY <1>1 DEF Enter, TypeOK, Frames, FramePcs
    <2>3. UNCHANGED <<request, sh, config, queue, notified, lock, instance, pcm, fetch, history>>
      BY <1>1 DEF Enter
    <2>4. QED
      BY <2>1, <2>2, <2>3 DEF TypeOK, ActTyped, Frames
  <1>2. CASE Screen
    <2>1. ActTyped'
      BY <1>2 DEF Screen, ActTyped
    <2>2. frame' \in Frames
      BY <1>2 DEF Screen, TypeOK, Frames, FramePcs, Requests
    <2>3. UNCHANGED <<request, sh, config, queue, notified, lock, instance, pcm, fetch, history>>
      BY <1>2 DEF Screen
    <2>4. QED
      BY <2>1, <2>2, <2>3 DEF TypeOK, ActTyped, Frames
  <1>3. CASE Work
    <2>1. ActTyped'
      BY <1>3 DEF Work, ActTyped
    <2>2. frame' \in Frames
      BY <1>3, SomeValues DEF Work, TypeOK, Frames, FramePcs
    <2>3. pcm' \in Pcm
      BY <1>3 DEF Work, TypeOK, Pcm, NoPcm
    <2>4. UNCHANGED <<request, sh, config, queue, notified, lock, instance, fetch, history>>
      BY <1>3 DEF Work
    <2>5. QED
      BY <2>1, <2>2, <2>3, <2>4 DEF TypeOK, ActTyped, Frames
  <1>4. CASE ClearBusy
    <2>1. ActTyped'
      BY <1>4 DEF ClearBusy, ActTyped
    <2>2. frame' \in Frames
      BY <1>4 DEF ClearBusy, TypeOK, Frames, FramePcs
    <2>3. UNCHANGED <<request, sh, config, queue, notified, lock, instance, pcm, fetch, history>>
      BY <1>4 DEF ClearBusy
    <2>4. QED
      BY <2>1, <2>2, <2>3 DEF TypeOK, ActTyped, Frames
  <1>5. CASE LoadWaiter
    <2>1. ActTyped'
      BY <1>5 DEF LoadWaiter, ActTyped
    <2>2. frame' \in Frames
      BY <1>5 DEF LoadWaiter, TypeOK, Frames, FramePcs, Shared
    <2>3. UNCHANGED <<request, sh, config, queue, notified, lock, instance, pcm, fetch, history>>
      BY <1>5 DEF LoadWaiter
    <2>4. QED
      BY <2>1, <2>2, <2>3 DEF TypeOK, ActTyped, Frames
  <1>6. CASE Tell
    <2>1. ActTyped'
      BY <1>6 DEF Tell, ActTyped
    <2>2. notified' \in [Actors -> BOOLEAN]
      BY <1>6 DEF Tell, TypeOK
    <2>3. frame' \in Frames
      BY <1>6 DEF Tell, TypeOK, Frames, FramePcs
    <2>4. UNCHANGED <<request, sh, config, queue, lock, instance, pcm, fetch, history>>
      BY <1>6 DEF Tell
    <2>5. QED
      BY <2>1, <2>2, <2>3, <2>4 DEF TypeOK, ActTyped, Frames
  <1>7. CASE Fetch
    <2>1. ActTyped'
      BY <1>7 DEF Fetch, ActTyped
    <2>2. fetch' \in Fetches
      BY <1>7 DEF Fetch, TypeOK, Fetches, Pcm
    <2>3. UNCHANGED <<request, sh, config, queue, notified, lock, instance, pcm, frame, history>>
      BY <1>7 DEF Fetch
    <2>4. QED
      BY <2>1, <2>2, <2>3 DEF TypeOK, ActTyped, Fetches
  <1>8. CASE Voice
    <2>1. ActTyped'
      BY <1>8 DEF Voice, ActTyped
    <2>2. sh' \in Shared
      BY <1>8 DEF Voice, TypeOK, Shared
    <2>3. fetch' \in Fetches
      BY <1>8 DEF Voice, TypeOK, Fetches, Pcm
    <2>4. UNCHANGED <<request, config, queue, notified, lock, instance, pcm, frame, history>>
      BY <1>8 DEF Voice
    <2>5. QED
      BY <2>1, <2>2, <2>3, <2>4 DEF TypeOK, ActTyped, Fetches
  <1>9. CASE Release
    <2>1. ActTyped'
      BY <1>9 DEF Release, ActTyped
    <2>2. fetch' \in Fetches
      BY <1>9, SomeValues DEF Release, Fetches, Pcm
    <2>3. pcm' \in Pcm
      BY <1>9 DEF Release, TypeOK, Pcm, NoPcm
    <2>4. UNCHANGED <<request, sh, config, queue, notified, lock, instance, frame, history>>
      BY <1>9 DEF Release
    <2>5. QED
      BY <2>1, <2>2, <2>3, <2>4 DEF TypeOK, ActTyped, Fetches
  <1>10. QED
    BY <1>1, <1>2, <1>3, <1>4, <1>5, <1>6, <1>7, <1>8, <1>9 DEF AudioStep, ManagerStep

\* The state after setup() is well typed.
LEMMA InitTyping ==
    ASSUME Init
    PROVE  TypeInv
  <1>1. act \in [Actors -> Locals] /\ ActTyped
    BY RestTyping DEF Init, ActTyped
  <1>2. config \in Configs
    BY AfeAssumption DEF Init, Configs, FeatureNames
  <1>3. request \in Requests
    BY SomeValues DEF Init, Requests
  <1>4. sh \in Shared
    BY SomeValues DEF Init, Shared, AllOff
  <1>5. instance \in Instances
    BY <1>4 DEF Init, Instances, NoInstance
  <1>6. pcm \in Pcm /\ queue \in Seq(Modes)
    BY DEF Init, Pcm, NoPcm
  <1>7. frame \in Frames /\ fetch \in Fetches /\ history \in Histories
    BY SomeValues DEF Init, Frames, Fetches, Histories, FramePcs
  <1>8. notified \in [Actors -> BOOLEAN] /\ lock \in Actors \cup {NoOne}
    BY DEF Init
  <1>9. QED
    BY <1>1, <1>2, <1>3, <1>4, <1>5, <1>6, <1>7, <1>8 DEF TypeInv, TypeOK, Frames, Fetches, Histories

\* A step keeps the types.
LEMMA StepTyping ==
    ASSUME TypeInv, [Next]_vars
    PROVE  TypeInv'
  <1>1. CASE UNCHANGED vars
    BY <1>1 DEF vars, TypeInv, TypeOK, ActTyped
  <1>2. QED
    BY <1>1, CallTyping, MainTyping, OwnerTyping, AudioTyping DEF Next

\* The AFE keeps its types: no published epoch was never asked for, no step is gone to that is none.
THEOREM Typing == Spec => []TypeOK
  <1>1. Init => TypeInv
    BY InitTyping
  <1>2. TypeInv /\ [Next]_vars => TypeInv'
    BY StepTyping
  <1>3. TypeInv => TypeOK
    BY DEF TypeInv
  <1>4. QED
    BY <1>1, <1>2, <1>3, PTL DEF Spec

----------------------------------------------------------------------------
(* The drain protocol.                                                     *)

\* From the step at which process() has been seen to have left, from the one at which the old
\* instance is gone, and from the one at which there is a new one.
Emptied == {"detach", "retired", "build", "epoch", "load", "install", "up"}
Detached == Emptied \ {"detach"}
Coming == {"epoch", "load", "install", "up"}

\* What DrainInv says of one actor.
ActorInv(a) ==
    /\ act[a].pc \in Held => lock = a
    /\ act[a].pc \in Critical \ {"drain"} => sh.drain
    /\ act[a].pc \in Emptied => frame.pc # "admitted"
    /\ act[a].pc \in Detached => ~sh.ready
    /\ act[a].pc \in Coming => instance.exists

DrainInv ==
    /\ \A a \in Actors : ActorInv(a)
    /\ sh.ready => instance.exists
    /\ FrameKeepsInstance

\* A step outside the procedure that touches neither the instance nor what it is guarded by.
LEMMA OutsideStep ==
    ASSUME TypeInv, DrainInv, NEW a \in Actors, NEW pcs, pcs \subseteq Outside, Moved(a, pcs),
           UNCHANGED <<lock, instance, frame>>, sh'.drain = sh.drain, sh'.ready = sh.ready
    PROVE  DrainInv'
  <1>1. act'[a].pc \in Outside /\ \A b \in Actors : b # a => act'[b] = act[b]
    BY MoveTyping DEF TypeInv
  <1>2. ActorInv(a)'
    BY <1>1 DEF ActorInv, Outside, Held, Emptied, Detached, Coming, Critical
  <1>3. ASSUME NEW b \in Actors, b # a PROVE ActorInv(b)'
    BY <1>1, <1>3 DEF DrainInv, ActorInv
  <1>4. QED
    BY <1>2, <1>3 DEF DrainInv, FrameKeepsInstance

\* The holder of config_mutex_ is alone with it: its step is checked for itself only.
LEMMA HolderStep ==
    ASSUME TypeInv, DrainInv, NEW a \in Actors, NEW pcs, Moved(a, pcs),
           act[a].pc \in Held \/ lock = NoOne,
           ActorInv(a)', sh'.ready => instance'.exists, FrameKeepsInstance'
    PROVE  DrainInv'
  <1>1. ASSUME NEW b \in Actors, b # a PROVE ActorInv(b)'
    <2>1. act'[b] = act[b]
      BY <1>1, MoveTyping DEF TypeInv
    <2>2. act[b].pc \notin Held
      BY <1>1 DEF DrainInv, ActorInv, Actors, NoOne
    <2>3. QED
      BY <2>1, <2>2 DEF ActorInv, Held, Emptied, Detached, Coming, Critical
  <1>2. QED
    BY <1>1 DEF DrainInv

\* It gives the mutex back: nothing is asked of where it goes.
LEMMA LeaveStep ==
    ASSUME TypeInv, DrainInv, NEW a \in Actors, act[a].pc \in Held, NEW value \in BOOLEAN,
           Result(a, value), sh'.ready => instance'.exists, FrameKeepsInstance'
    PROVE  DrainInv'
  <1>1. Moved(a, Outside)
    BY ResultMoves DEF TypeInv
  <1>2. act'[a].pc \in Outside
    BY <1>1, MoveTyping DEF TypeInv
  <1>3. ActorInv(a)'
    BY <1>2 DEF ActorInv, Outside, Held, Emptied, Detached, Coming, Critical
  <1>4. QED
    BY <1>1, <1>3, HolderStep

\* It goes on to the step pc.
LEMMA GoesOn ==
    ASSUME TypeInv, DrainInv, NEW a \in Actors, act[a].pc \in Held \/ lock = NoOne,
           NEW pc \in Steps \ {"live"}, Goto(a, pc),
           pc \in Held => lock' = a,
           pc \in Critical \ {"drain"} => sh'.drain,
           pc \in Emptied => frame'.pc # "admitted",
           pc \in Detached => ~sh'.ready,
           pc \in Coming => instance'.exists,
           sh'.ready => instance'.exists, FrameKeepsInstance'
    PROVE  DrainInv'
  <1>1. Moved(a, {pc}) /\ act'[a].pc = pc
    BY GotoMoves, MoveTyping DEF TypeInv
  <1>2. ActorInv(a)'
    BY <1>1 DEF ActorInv
  <1>3. QED
    BY <1>1, <1>2, HolderStep

\* The procedure keeps process() and the instance together, whoever runs it.
LEMMA ProcedureDrains ==
    ASSUME TypeInv, DrainInv, NEW a \in Actors, Procedure(a)
    PROVE  DrainInv'
  <1> USE DEF Held, Critical, Emptied, Detached, Coming, Steps
  <1>0. ActorInv(a) /\ sh \in Shared /\ instance \in Instances
    BY DEF DrainInv, TypeInv, TypeOK
  <1>1. CASE Lock(a)
    <2>1. CASE lock = NoOne /\ lock' = a /\ Goto(a, "drain")
      BY <1>1, <2>1, GoesOn DEF Lock, DrainInv, FrameKeepsInstance
    <2>2. CASE Result(a, FALSE) /\ UNCHANGED lock
      <3>1. Moved(a, Outside)
        BY <2>2, ResultMoves DEF TypeInv
      <3>2. QED
        BY <1>1, <2>2, <3>1, OutsideStep DEF Lock
    <2>3. QED
      BY <1>1, <2>1, <2>2 DEF Lock
  <1>2. CASE Drain(a)
    <2>1. sh' = [sh EXCEPT !.drain = TRUE] /\ UNCHANGED <<lock, instance, frame>>
      BY <1>2 DEF Drain
    <2>2. lock = a /\ act[a].pc \in Held
      BY <1>0, <1>2 DEF Drain, At, ActorInv
    <2>3. FrameKeepsInstance' /\ sh'.drain /\ (sh'.ready => instance'.exists)
      BY <1>0, <2>1 DEF DrainInv, FrameKeepsInstance
    <2>4. QED
      BY <1>2, <2>1, <2>2, <2>3, GoesOn DEF Drain
  <1>3. CASE DrainCheck(a)
    <2>1. UNCHANGED <<sh, lock, instance, frame>> /\ lock = a /\ sh.drain
      BY <1>0, <1>3 DEF DrainCheck, At, ActorInv
    <2>2. FrameKeepsInstance' /\ (sh'.ready => instance'.exists)
      BY <2>1 DEF DrainInv, FrameKeepsInstance
    <2>3. CASE Busy
      BY <1>3, <2>1, <2>2, <2>3, GoesOn DEF DrainCheck, At
    <2>4. CASE ~Busy
      BY <1>3, <2>1, <2>2, <2>4, GoesOn DEF DrainCheck, At, Busy
    <2>5. QED
      BY <2>3, <2>4
  <1>4. CASE DrainRegister(a)
    <2>1. sh' = [sh EXCEPT !.waiter = a] /\ UNCHANGED <<lock, instance, frame>> /\ lock = a /\ sh.drain
      BY <1>0, <1>4 DEF DrainRegister, At, ActorInv
    <2>2. FrameKeepsInstance' /\ sh'.drain /\ (sh'.ready => instance'.exists)
      BY <1>0, <2>1 DEF DrainInv, FrameKeepsInstance
    <2>3. QED
      BY <1>4, <2>1, <2>2, GoesOn DEF DrainRegister, At
  <1>5. CASE DrainWait(a)
    <2>1. UNCHANGED <<sh, lock, instance, frame>> /\ lock = a /\ sh.drain
      BY <1>0, <1>5 DEF DrainWait, At, ActorInv
    <2>2. FrameKeepsInstance' /\ (sh'.ready => instance'.exists)
      BY <2>1 DEF DrainInv, FrameKeepsInstance
    <2>3. QED
      BY <1>5, <2>1, <2>2, GoesOn DEF DrainWait, At
  <1>6. CASE DrainSettle(a)
    <2>1. UNCHANGED <<instance, frame>> /\ lock = a /\ sh.drain
      BY <1>0, <1>6 DEF DrainSettle, At, ActorInv
    <2>2. CASE Busy
      <3>1. sh' = [[sh EXCEPT !.waiter = NoOne] EXCEPT !.drain = FALSE] /\ Result(a, FALSE)
        BY <1>6, <2>2 DEF DrainSettle, Leave
      <3>2. FrameKeepsInstance' /\ (sh'.ready => instance'.exists)
        BY <1>0, <2>1, <3>1 DEF DrainInv, FrameKeepsInstance
      <3>3. QED
        BY <1>6, <3>1, <3>2, LeaveStep DEF DrainSettle, At
    <2>3. CASE ~Busy
      <3>1. sh' = [sh EXCEPT !.waiter = NoOne] /\ UNCHANGED lock /\ Goto(a, "detach")
        BY <1>6, <2>3 DEF DrainSettle
      <3>2. FrameKeepsInstance' /\ sh'.drain /\ (sh'.ready => instance'.exists)
        BY <1>0, <2>1, <3>1 DEF DrainInv, FrameKeepsInstance
      <3>3. QED
        BY <1>6, <2>1, <2>3, <3>1, <3>2, GoesOn DEF DrainSettle, At, Busy
    <2>4. QED
      BY <2>2, <2>3
  <1>7. CASE Detach(a)
    <2>1. UNCHANGED <<lock, frame>> /\ lock = a /\ sh.drain /\ frame.pc # "admitted"
      BY <1>0, <1>7 DEF Detach, At, ActorInv
    <2>2. sh'.drain /\ ~sh'.ready
      BY <1>0, <1>7, <2>1 DEF Detach
    <2>3. FrameKeepsInstance'
      BY <2>1 DEF FrameKeepsInstance
    <2>4. Goto(a, "build") \/ Goto(a, "retired")
      BY <1>7 DEF Detach
    <2>5. act[a].pc \in Held
      BY <1>7 DEF Detach, At
    <2>6. CASE Goto(a, "build")
      BY <2>1, <2>2, <2>3, <2>5, <2>6, GoesOn
    <2>7. CASE Goto(a, "retired")
      BY <2>1, <2>2, <2>3, <2>5, <2>7, GoesOn
    <2>8. QED
      BY <2>4, <2>6, <2>7
  <1>8. CASE Retired(a)
    <2>1. frame' = frame /\ frame.pc # "admitted" /\ ~sh.ready /\ act[a].pc \in Held
      BY <1>0, <1>8 DEF Retired, At, ActorInv
    <2>2. ~sh'.ready /\ Result(a, TRUE)
      BY <1>0, <1>8, <2>1 DEF Retired, Leave, Shared
    <2>3. QED
      BY <2>1, <2>2, LeaveStep DEF FrameKeepsInstance
  <1>9. CASE Build(a)
    <2>1. /\ frame' = frame /\ frame.pc # "admitted" /\ ~sh.ready
          /\ act[a].pc \in Held /\ lock = a /\ sh.drain
      BY <1>0, <1>9 DEF Build, At, ActorInv
    <2>2. FrameKeepsInstance'
      BY <2>1 DEF FrameKeepsInstance
    <2>3. CASE Leave(a, TRUE, [sh EXCEPT !.stopped = TRUE])
      <3>1. ~sh'.ready /\ Result(a, TRUE)
        BY <1>0, <2>1, <2>3 DEF Leave, Shared
      <3>2. QED
        BY <2>1, <2>2, <3>1, LeaveStep
    <2>4. CASE Leave(a, FALSE, sh)
      <3>1. ~sh'.ready /\ Result(a, FALSE)
        BY <1>0, <2>1, <2>4 DEF Leave, Shared
      <3>2. QED
        BY <2>1, <2>2, <3>1, LeaveStep
    <2>5. CASE instance' = Built /\ Goto(a, "epoch") /\ UNCHANGED <<sh, lock>>
      <3>1. instance'.exists
        BY <2>5 DEF Built
      <3>2. QED
        BY <2>1, <2>2, <2>5, <3>1, GoesOn
    <2>6. QED
      BY <1>9, <2>3, <2>4, <2>5 DEF Build
  <1>10. CASE PublishEpoch(a)
    <2>1. /\ UNCHANGED <<frame, lock, instance>> /\ frame.pc # "admitted" /\ ~sh.ready
          /\ act[a].pc \in Held /\ lock = a /\ sh.drain /\ instance.exists
      BY <1>0, <1>10 DEF PublishEpoch, At, ActorInv
    <2>2. ~sh'.ready /\ sh'.drain /\ Goto(a, "load")
      BY <1>0, <1>10, <2>1 DEF PublishEpoch
    <2>3. FrameKeepsInstance'
      BY <2>1 DEF FrameKeepsInstance
    <2>4. QED
      BY <2>1, <2>2, <2>3, GoesOn
  <1>11. CASE LoadRequest(a)
    <2>1. /\ UNCHANGED <<sh, frame, lock, instance>> /\ frame.pc # "admitted" /\ ~sh.ready
          /\ act[a].pc \in Held /\ lock = a /\ sh.drain /\ instance.exists
      BY <1>0, <1>11 DEF LoadRequest, At, ActorInv
    <2>2. Moved(a, {"install"}) /\ act'[a].pc = "install"
      BY <1>11, LoadMoves, MoveTyping DEF TypeInv
    <2>3. ActorInv(a)'
      BY <2>1, <2>2 DEF ActorInv
    <2>4. FrameKeepsInstance'
      BY <2>1 DEF FrameKeepsInstance
    <2>5. QED
      BY <2>1, <2>2, <2>3, <2>4, HolderStep
  <1>12. CASE Install(a)
    <2>1. /\ frame' = frame /\ frame.pc # "admitted" /\ ~sh.ready
          /\ act[a].pc \in Held /\ lock = a /\ sh.drain /\ instance.exists
      BY <1>0, <1>12 DEF Install, At, ActorInv
    <2>2. FrameKeepsInstance'
      BY <2>1 DEF FrameKeepsInstance
    <2>3. CASE Leave(a, FALSE, sh) \/ Leave(a, FALSE, [sh EXCEPT !.admit = FALSE])
      <3>1. ~sh'.ready /\ Result(a, FALSE)
        BY <1>0, <2>1, <2>3 DEF Leave, Shared
      <3>2. QED
        BY <2>1, <2>2, <3>1, LeaveStep
    <2>4. CASE /\ sh' = [sh EXCEPT !.admit = act[a].wanted]
               /\ instance' = [instance EXCEPT !.running = act[a].wanted, !.rings = RingsMade]
               /\ Goto(a, "up")
               /\ UNCHANGED lock
      <3>1. ~sh'.ready /\ sh'.drain /\ instance'.exists
        BY <1>0, <2>1, <2>4 DEF Instances
      <3>2. QED
        BY <2>1, <2>2, <2>4, <3>1, GoesOn
    <2>5. QED
      BY <1>12, <2>3, <2>4 DEF Install
  <1>13. CASE Up(a)
    <2>1. /\ frame' = frame /\ frame.pc # "admitted" /\ ~sh.ready
          /\ act[a].pc \in Held /\ instance.exists
      BY <1>0, <1>13 DEF Up, At, ActorInv
    <2>2. FrameKeepsInstance'
      BY <2>1 DEF FrameKeepsInstance
    <2>3. Result(a, TRUE)
      BY <1>13 DEF Up, Leave
    <2>4. sh'.ready => instance'.exists
      <3>1. CASE AllOff
        <4>1. ~sh'.ready
          BY <1>0, <1>13, <2>1, <3>1 DEF Up, Leave, Shared
        <4>2. QED
          BY <4>1
      <3>2. CASE ~AllOff
        BY <1>13, <2>1, <3>2 DEF Up
      <3>3. QED
        BY <3>1, <3>2
    <2>5. QED
      BY <2>1, <2>2, <2>3, <2>4, LeaveStep
  <1>14. QED
    BY <1>1, <1>2, <1>3, <1>4, <1>5, <1>6, <1>7, <1>8, <1>9, <1>10, <1>11, <1>12, <1>13 DEF Procedure

\* Outside the procedure, by Goto, a call or a change of a setting.
LEMMA GoesOut ==
    ASSUME TypeInv, DrainInv, NEW a \in Actors, NEW pc \in Outside \ {"live"}, Goto(a, pc),
           UNCHANGED <<lock, instance, frame>>, sh'.drain = sh.drain, sh'.ready = sh.ready
    PROVE  DrainInv'
  <1>1. Moved(a, {pc}) /\ {pc} \subseteq Outside
    BY GotoMoves, StepNames DEF TypeInv
  <1>2. QED
    BY <1>1, OutsideStep

\* The procedure is called.
LEMMA CallsOut ==
    ASSUME TypeInv, DrainInv, NEW a \in Actors, NEW job \in {"rebuild", "retire"},
           NEW then \in Returns, NEW else \in Returns, Call(a, job, then, else),
           UNCHANGED <<lock, instance, frame>>, sh'.drain = sh.drain, sh'.ready = sh.ready
    PROVE  DrainInv'
  <1>1. Moved(a, {"lock"}) /\ {"lock"} \subseteq Outside
    BY CallMoves, StepNames DEF TypeInv
  <1>2. QED
    BY <1>1, OutsideStep

\* It is called with a new setting.
LEMMA AppliesOut ==
    ASSUME TypeInv, DrainInv, NEW a \in Actors, NEW name \in FeatureNames \cup {"mode"}, NEW new,
           NEW then \in Returns, Apply(a, name, new, then),
           UNCHANGED <<lock, instance, frame>>, sh'.drain = sh.drain, sh'.ready = sh.ready
    PROVE  DrainInv'
  <1>1. Moved(a, {"lock"}) /\ {"lock"} \subseteq Outside
    BY ApplyMoves, StepNames DEF TypeInv, TypeOK
  <1>2. QED
    BY <1>1, OutsideStep

\* A rollback is no step of the procedure: it calls it.
LEMMA RestoreDrains ==
    ASSUME TypeInv, DrainInv, NEW a \in Actors, Restore(a)
    PROVE  DrainInv'
  <1>1. Moved(a, {"lock"}) /\ {"lock"} \subseteq Outside
    BY RestoreMoves, StepNames DEF TypeInv
  <1>2. UNCHANGED <<sh, lock, instance, frame>>
    BY DEF Restore
  <1>3. QED
    BY <1>1, <1>2, OutsideStep

\* Steps of the owner outside the procedure: those under config_mutex_ leave the instance and the
\* readiness as they are.
LEMMA OwnerDrains ==
    ASSUME TypeInv, DrainInv, OwnerStep
    PROVE  DrainInv'
  <1>0. /\ ActTyped /\ sh \in Shared /\ instance \in Instances /\ ActorInv("owner")
        /\ "owner" \in Actors
    BY DEF TypeInv, TypeOK, DrainInv, Actors
  <1>1. CASE Look
    <2>1. UNCHANGED <<lock, instance, frame>> /\ sh'.drain = sh.drain /\ sh'.ready = sh.ready
      BY <1>0, <1>1 DEF Look, Shared
    <2>2. Goto("owner", "take") \/ Goto("owner", "asleep")
      BY <1>1 DEF Look
    <2>3. CASE Goto("owner", "take")
      BY <1>0, <2>1, <2>3, GoesOut, StepNames
    <2>4. CASE Goto("owner", "asleep")
      BY <1>0, <2>1, <2>4, GoesOut, StepNames
    <2>5. QED
      BY <2>2, <2>3, <2>4
  <1>2. CASE Awake
    <2>1. UNCHANGED <<lock, instance, frame>> /\ sh'.drain = sh.drain /\ sh'.ready = sh.ready
      BY <1>0, <1>2 DEF Awake
    <2>2. Goto("owner", "take")
      BY <1>2 DEF Awake
    <2>3. CASE Goto("owner", "take")
      BY <1>0, <2>1, <2>3, GoesOut, StepNames
    <2>4. QED
      BY <2>2, <2>3
  <1>3. CASE Serve
    <2>1. UNCHANGED <<lock, instance, frame>> /\ sh'.drain = sh.drain /\ sh'.ready = sh.ready
      BY <1>0, <1>3 DEF Serve
    <2>2. Goto("owner", "service") \/ Goto("owner", "done")
      BY <1>3 DEF Serve
    <2>3. CASE Goto("owner", "service")
      BY <1>0, <2>1, <2>3, GoesOut, StepNames
    <2>4. CASE Goto("owner", "done")
      BY <1>0, <2>1, <2>4, GoesOut, StepNames
    <2>5. QED
      BY <2>2, <2>3, <2>4
  <1>4. CASE Service
    <2>1. UNCHANGED <<lock, instance, frame>> /\ sh'.drain = sh.drain /\ sh'.ready = sh.ready
      BY <1>4 DEF Service, Call, Apply
    <2>2. Goto("owner", "decide") \/ Call("owner", "retire", "decide", "done")
      BY <1>4 DEF Service
    <2>3. CASE Goto("owner", "decide")
      BY <1>0, <2>1, <2>3, GoesOut, StepNames
    <2>4. CASE Call("owner", "retire", "decide", "done")
      BY <1>0, <2>1, <2>4, CallsOut DEF Returns
    <2>5. QED
      BY <2>2, <2>3, <2>4
  <1>5. CASE Decide
    <2>1. UNCHANGED <<lock, instance, frame>> /\ sh'.drain = sh.drain /\ sh'.ready = sh.ready
      BY <1>5 DEF Decide, Call, Apply
    <2>2. Goto("owner", "done") \/ Goto("owner", "admission") \/ Call("owner", "rebuild", "admission", "done")
      BY <1>5 DEF Decide
    <2>3. CASE Goto("owner", "done")
      BY <1>0, <2>1, <2>3, GoesOut, StepNames
    <2>4. CASE Goto("owner", "admission")
      BY <1>0, <2>1, <2>4, GoesOut, StepNames
    <2>5. CASE Call("owner", "rebuild", "admission", "done")
      BY <1>0, <2>1, <2>5, CallsOut DEF Returns
    <2>6. QED
      BY <2>2, <2>3, <2>4, <2>5
  <1>6. CASE Take
    <2>1. UNCHANGED <<lock, instance, frame>> /\ sh'.drain = sh.drain /\ sh'.ready = sh.ready
      BY <1>6 DEF Take, Call, Apply
    <2>2. Goto("owner", "serve") \/ Apply("owner", "mode", [config EXCEPT !.mode = Head(queue)], "serve")
      BY <1>6 DEF Take
    <2>3. CASE Goto("owner", "serve")
      BY <1>0, <2>1, <2>3, GoesOut, StepNames
    <2>4. CASE Apply("owner", "mode", [config EXCEPT !.mode = Head(queue)], "serve")
      BY <1>0, <2>1, <2>4, AppliesOut DEF Returns
    <2>5. QED
      BY <2>2, <2>3, <2>4
  <1>7. CASE Done
    <2>1. Moved("owner", Outside)
      BY <1>0, <1>7, RestMoves DEF Done
    <2>2. UNCHANGED <<lock, instance, frame>> /\ sh'.drain = sh.drain /\ sh'.ready = sh.ready
      BY <1>0, <1>7 DEF Done
    <2>3. QED
      BY <1>0, <2>1, <2>2, OutsideStep
  <1>8. CASE AdmissionLock
    <2>1. UNCHANGED <<sh, instance, frame>> /\ FrameKeepsInstance' /\ (sh'.ready => instance'.exists)
      BY <1>8 DEF AdmissionLock, DrainInv, FrameKeepsInstance
    <2>2. CASE lock = NoOne /\ lock' = "owner" /\ Goto("owner", "latest")
      BY <1>0, <2>1, <2>2, GoesOn DEF Critical, Emptied, Detached, Coming, Steps
    <2>3. CASE Goto("owner", "done") /\ UNCHANGED lock
      BY <1>0, <2>1, <2>3, GoesOut, StepNames
    <2>4. QED
      BY <1>8, <2>2, <2>3 DEF AdmissionLock
  <1>9. CASE Latest
    <2>1. UNCHANGED <<sh, instance, frame>> /\ FrameKeepsInstance' /\ (sh'.ready => instance'.exists)
      BY <1>9 DEF Latest, DrainInv, FrameKeepsInstance
    <2>2. act["owner"].pc \in Held /\ lock = "owner"
      BY <1>0, <1>9 DEF Latest, At, ActorInv, Held
    <2>3. CASE Goto("owner", "admit") /\ UNCHANGED lock
      BY <1>0, <2>1, <2>2, <2>3, GoesOn DEF Critical, Emptied, Detached, Coming, Steps
    <2>4. CASE Goto("owner", "done")
      BY <1>0, <2>1, <2>2, <2>4, GoesOn DEF Held, Critical, Emptied, Detached, Coming, Steps
    <2>5. QED
      BY <1>9, <2>3, <2>4 DEF Latest
  <1>10. CASE Admit
    <2>1. /\ UNCHANGED <<lock, instance, frame>> /\ Goto("owner", "start")
          /\ sh' = [sh EXCEPT !.admit = TRUE]
      BY <1>10 DEF Admit
    <2>2. act["owner"].pc \in Held /\ lock = "owner"
      BY <1>0, <1>10 DEF Admit, At, ActorInv, Held
    <2>3. FrameKeepsInstance' /\ (sh'.ready => instance'.exists)
      BY <1>0, <2>1 DEF DrainInv, FrameKeepsInstance
    <2>4. QED
      BY <1>0, <2>1, <2>2, <2>3, GoesOn DEF Critical, Emptied, Detached, Coming, Steps
  <1>11. CASE Start
    <2>1. frame' = frame /\ Goto("owner", "done") /\ act["owner"].pc \in Held
      BY <1>11 DEF Start, At, Held
    <2>2. sh'.ready = sh.ready
      BY <1>0, <1>11 DEF Start, Shared
    <2>3. instance'.exists = instance.exists
      BY <1>0, <1>11 DEF Start, Instances
    <2>4. FrameKeepsInstance' /\ (sh'.ready => instance'.exists)
      BY <2>1, <2>2, <2>3 DEF DrainInv, FrameKeepsInstance
    <2>5. QED
      BY <1>0, <2>1, <2>4, GoesOn DEF Held, Critical, Emptied, Detached, Coming, Steps
  <1>12. QED
    BY <1>0, <1>1, <1>2, <1>3, <1>4, <1>5, <1>6, <1>7, <1>8, <1>9, <1>10, <1>11, ProcedureDrains, RestoreDrains
       DEF OwnerStep

\* A narrower set of steps.
LEMMA MovesWithin ==
    ASSUME NEW a, NEW pcs, NEW wider, pcs \subseteq wider, Moved(a, pcs)
    PROVE  Moved(a, wider)
  BY DEF Moved

\* A step named moves outside.
LEMMA GotoOutside ==
    ASSUME ActTyped, NEW a \in Actors, NEW pc \in Outside \ {"live"}, Goto(a, pc)
    PROVE  Moved(a, Outside)
  <1>1. Moved(a, {pc}) /\ {pc} \subseteq Outside
    BY GotoMoves, StepNames
  <1>2. QED
    BY <1>1, MovesWithin

\* So does a call of the rebuild by main.
LEMMA RebuildOutside ==
    ASSUME ActTyped, Call("main", "rebuild", "none", "none")
    PROVE  Moved("main", Outside)
  <1>1. "main" \in Actors /\ "none" \in Returns /\ {"lock"} \subseteq Outside
    BY StepNames DEF Actors, Returns
  <1>2. Moved("main", {"lock"})
    BY <1>1, CallMoves
  <1>3. QED
    BY <1>1, <1>2, MovesWithin

\* A call of main that does not move it.
LEMMA StandsStill ==
    ASSUME DrainInv, UNCHANGED act,
           UNCHANGED <<lock, instance, frame>> /\ sh'.drain = sh.drain /\ sh'.ready = sh.ready
    PROVE  DrainInv'
  <1>1. ASSUME NEW a \in Actors PROVE ActorInv(a)'
    BY DEF DrainInv, ActorInv
  <1>2. QED
    BY <1>1 DEF DrainInv, FrameKeepsInstance

\* Main's calls.
LEMMA CallDrains ==
    ASSUME TypeInv, DrainInv, MainCall
    PROVE  DrainInv'
  <1>0. ActTyped /\ sh \in Shared /\ "main" \in Actors /\ config \in Configs
    BY DEF TypeInv, TypeOK, Actors
  <1>1. ASSUME NEW active \in BOOLEAN, SetProcessingActive(active) PROVE DrainInv'
    <2>1. UNCHANGED <<lock, instance, frame>> /\ sh'.drain = sh.drain /\ sh'.ready = sh.ready
      BY <1>1 DEF SetProcessingActive
    <2>2. Goto("main", "pend") \/ Goto("main", "withdraw")
      BY <1>1 DEF SetProcessingActive
    <2>3. QED
      BY <1>0, <2>1, <2>2, GoesOut, StepNames
  <1>2. ASSUME NEW m \in Modes, RequestReinit(m) PROVE DrainInv'
    <2>1. UNCHANGED <<lock, instance, frame>> /\ sh'.drain = sh.drain /\ sh'.ready = sh.ready
      BY <1>0, <1>2 DEF RequestReinit
    <2>2. Moved("main", Outside)
      BY <1>0, <1>2, ReinitMoves
    <2>3. QED
      BY <1>0, <2>1, <2>2, OutsideStep
  <1>3. CASE VadIntent
    <2>1. UNCHANGED <<lock, instance, frame>> /\ sh'.drain = sh.drain /\ sh'.ready = sh.ready
      BY <1>0, <1>3 DEF VadIntent
    <2>2. Goto("main", "pend")
      BY <1>3 DEF VadIntent
    <2>3. QED
      BY <1>0, <2>1, <2>2, GoesOut, StepNames
  <1>4. ASSUME NEW f \in Switches, ToggleStopped(f) PROVE DrainInv'
    <2>1. UNCHANGED <<lock, instance, frame>> /\ sh'.drain = sh.drain /\ sh'.ready = sh.ready
      BY <1>0, <1>4 DEF ToggleStopped
    <2>2. CASE Call("main", "rebuild", "none", "none")
      BY <1>0, <2>1, <2>2, RebuildOutside, OutsideStep
    <2>3. CASE UNCHANGED act
      BY <2>1, <2>3, StandsStill
    <2>4. QED
      BY <1>4, <2>2, <2>3 DEF ToggleStopped
  <1>5. ASSUME NEW f \in Switches, ToggleRebuild(f) PROVE DrainInv'
    <2>1. UNCHANGED <<lock, instance, frame>> /\ sh'.drain = sh.drain /\ sh'.ready = sh.ready
      BY <1>5 DEF ToggleRebuild
    <2>2. Apply("main", f, Switched(f, f \notin config.on), "none") /\ f \in FeatureNames
      BY <1>5, SomeValues DEF ToggleRebuild
    <2>3. QED
      BY <1>0, <2>1, <2>2, AppliesOut DEF Returns
  <1>6. ASSUME NEW f \in Switches, ToggleLive(f) PROVE DrainInv'
    <2>1. UNCHANGED <<lock, instance, frame>> /\ sh'.drain = sh.drain /\ sh'.ready = sh.ready
      BY <1>0, <1>6 DEF ToggleLive
    <2>2. Moved("main", Outside)
      BY <1>0, <1>6, LiveMoves
    <2>3. QED
      BY <1>0, <2>1, <2>2, OutsideStep
  <1>7. QED
    BY <1>1, <1>2, <1>3, <1>4, <1>5, <1>6 DEF MainCall

\* The steps of a call of main.
LEMMA MainDrains ==
    ASSUME TypeInv, DrainInv, MainStep
    PROVE  DrainInv'
  <1>0. ActTyped /\ sh \in Shared /\ "main" \in Actors
    BY DEF TypeInv, TypeOK, Actors
  <1>1. CASE Withdraw
    <2>1. UNCHANGED <<lock, instance, frame>> /\ sh'.drain = sh.drain /\ sh'.ready = sh.ready
      BY <1>0, <1>1 DEF Withdraw
    <2>2. Moved("main", Outside)
      BY <1>0, <1>1, GotoOutside, StepNames DEF Withdraw
    <2>3. QED
      BY <1>0, <2>1, <2>2, OutsideStep
  <1>2. CASE Pend
    <2>1. UNCHANGED <<lock, instance, frame>> /\ sh'.drain = sh.drain /\ sh'.ready = sh.ready
      BY <1>0, <1>2 DEF Pend
    <2>2. Moved("main", Outside)
      BY <1>0, <1>2, GotoOutside, StepNames DEF Pend
    <2>3. QED
      BY <1>0, <2>1, <2>2, OutsideStep
  <1>3. CASE Notify
    <2>1. UNCHANGED <<lock, instance, frame>> /\ sh'.drain = sh.drain /\ sh'.ready = sh.ready
      BY <1>0, <1>3 DEF Notify
    <2>2. Moved("main", Outside)
      BY <1>0, <1>3, RestMoves DEF Notify
    <2>3. QED
      BY <1>0, <2>1, <2>2, OutsideStep
  <1>4. CASE Overwrite
    <2>1. UNCHANGED <<lock, instance, frame>> /\ sh'.drain = sh.drain /\ sh'.ready = sh.ready
      BY <1>0, <1>4 DEF Overwrite
    <2>2. Moved("main", Outside)
      BY <1>0, <1>4, OverwriteMoves
    <2>3. QED
      BY <1>0, <2>1, <2>2, OutsideStep
  <1>5. CASE Live
    <2>1. UNCHANGED <<lock, instance, frame>> /\ sh'.drain = sh.drain /\ sh'.ready = sh.ready
      BY <1>0, <1>5 DEF Live, Shared
    <2>2. Call("main", "rebuild", "none", "none") \/ Return
      BY <1>5 DEF Live
    <2>3. Moved("main", Outside)
      BY <1>0, <2>2, RebuildOutside, RestMoves DEF Return
    <2>4. QED
      BY <1>0, <2>1, <2>3, OutsideStep
  <1>6. QED
    BY <1>0, <1>1, <1>2, <1>3, <1>4, <1>5, ProcedureDrains, RestoreDrains DEF MainStep

\* process() admits a frame only to an instance that is ready and not asked to drain, so nobody is
\* past the check; the manager's callbacks touch nothing of it.
LEMMA AudioDrains ==
    ASSUME TypeInv, DrainInv, Enter \/ AudioStep \/ ManagerStep
    PROVE  DrainInv'
  <1>0. frame \in Frames /\ sh \in Shared
    BY DEF TypeInv, TypeOK, Frames
  <1>1. /\ UNCHANGED <<act, lock, instance>>
        /\ sh'.drain = sh.drain /\ sh'.ready = sh.ready
    BY <1>0 DEF Enter, AudioStep, Screen, Work, ClearBusy, LoadWaiter, Tell, ManagerStep, Fetch, Voice,
                Release, Shared
  <1>2. CASE frame'.pc # "admitted" \/ frame' = frame
    <2>1. ASSUME NEW a \in Actors PROVE ActorInv(a)'
      BY <1>1, <1>2 DEF DrainInv, ActorInv
    <2>2. QED
      BY <1>1, <1>2, <2>1 DEF DrainInv, FrameKeepsInstance
  <1>3. CASE Screen /\ ~sh.drain /\ sh.ready
    <2>1. ASSUME NEW a \in Actors PROVE ActorInv(a)'
      BY <1>1, <1>3 DEF DrainInv, ActorInv, Emptied, Detached, Coming, Critical
    <2>2. QED
      BY <1>1, <1>3, <2>1 DEF DrainInv, FrameKeepsInstance
  <1>4. Enter \/ AudioStep \/ ManagerStep =>
            frame'.pc # "admitted" \/ frame' = frame \/ (Screen /\ ~sh.drain /\ sh.ready)
    BY <1>0 DEF Enter, AudioStep, Screen, Work, ClearBusy, LoadWaiter, Tell, ManagerStep, Fetch, Voice,
                Release, Frames
  <1>5. QED
    BY <1>2, <1>3, <1>4

\* The drain protocol holds throughout.
LEMMA Drained == Spec => [](TypeInv /\ DrainInv)
  <1>1. Init => TypeInv /\ DrainInv
    <2>1. ASSUME Init PROVE DrainInv
      <3>1. ASSUME NEW a \in Actors PROVE ActorInv(a)
        BY <2>1, RestTyping DEF Init, ActorInv, Held, Critical, Emptied, Detached, Coming
      <3>2. (sh.ready => instance.exists) /\ FrameKeepsInstance
        BY <2>1 DEF Init, FrameKeepsInstance
      <3>3. QED
        BY <3>1, <3>2 DEF DrainInv
    <2>2. QED
      BY <2>1, InitTyping
  <1>2. TypeInv /\ DrainInv /\ [Next]_vars => (TypeInv /\ DrainInv)'
    <2> SUFFICES ASSUME TypeInv, DrainInv, [Next]_vars PROVE DrainInv'
      BY StepTyping
    <2>1. CASE UNCHANGED vars
      BY <2>1, StandsStill DEF vars
    <2>2. QED
      BY <2>1, CallDrains, MainDrains, OwnerDrains, AudioDrains DEF Next
  <1>3. QED
    BY <1>1, <1>2, PTL DEF Spec

\* process() keeps the instance it was admitted to until it leaves the frame: no rebuild, retirement
\* or rollback, of main or of the owner, takes it away or puts another in its place.
THEOREM FrameKeeps == Spec => []FrameKeepsInstance
  <1>1. DrainInv => FrameKeepsInstance
    BY DEF DrainInv
  <1>2. QED
    BY <1>1, Drained, PTL
=============================================================================
