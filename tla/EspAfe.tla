-------------------------------- MODULE EspAfe --------------------------------
(***************************************************************************)
(* The AFE processor: an instance of the vendor's audio front end that is  *)
(* torn down and rebuilt while audio may be running.  Four tasks:          *)
(*                                                                         *)
(*   main     set_processing_active(), request_reinit_by_name() and the    *)
(*            feature toggles, which may rebuild the instance themselves;  *)
(*   owner    the afe_reinit task: takes the queued mode, then reconciles  *)
(*            the instance with the activity asked for;                    *)
(*   audio    process(), which takes no lock: a busy flag and a drain      *)
(*            request keep it and a rebuild apart;                         *)
(*   manager  the vendor's feed and fetch tasks with our two callbacks.    *)
(*                                                                         *)
(* PCM is the set of acquisitions (epochs) it was captured in.  A vendor   *)
(* call works or fails, a wait for the mutex or for process() ends or      *)
(* times out; MaxFaults bounds the failures and the timeouts.              *)
(***************************************************************************)
EXTENDS Naturals, Sequences

CONSTANTS
    Modes,       \* AFE_MODE_PRESETS
    First,       \* the mode of the first build
    Boots,       \* sets of "aec", "ns", "vad": what may be enabled at boot
    Switches,    \* of the three: toggled at run time; AGC is switched as NS is
    Dual,        \* two microphones: SE is structural and the AFE is never all off
    MaxEpoch,    \* bound of the model: times activity is withdrawn
    MaxChanges,  \* bound of the model: modes requested and features toggled
    MaxFaults    \* bound of the model: vendor calls that fail, waits that time out

ASSUME AfeAssumption ==
    /\ First \in Modes
    /\ Boots \subseteq SUBSET {"aec", "ns", "vad"}
    /\ Switches \subseteq {"aec", "ns", "vad"}
    /\ Dual \in BOOLEAN
    /\ MaxEpoch \in Nat /\ MaxChanges \in Nat /\ MaxFaults \in Nat

VARIABLES
    request,   \* processing_request_: activity asked for, acquisition epoch
    sh,        \* the other atomics of the protocol
    config,    \* afe_type_ and afe_mode_ as one mode, the enabled features
    queue,     \* reconfigure_queue_: no mode or one
    notified,  \* the notification slot of main's task and of the owner's
    lock,      \* config_mutex_
    instance,  \* whether there is one, rings allocated, callbacks attached
    pcm,       \* epochs of the PCM on its way to the result callback, and in fetch_output_ring_
    act,       \* main and owner: next step and locals
    frame,     \* process(): next step, epoch it was admitted in, waiter it loaded
    fetch,     \* the result callback: next step, epoch of the PCM it was given
    history    \* an operation failed since activity was last asked for; counts

vars == <<request, sh, config, queue, notified, lock, instance, pcm, act, frame, fetch, history>>

Actors == {"main", "owner"}
FeatureNames == {"aec", "ns", "vad"}
NoOne == "nobody"
Epochs == 0 .. MaxEpoch
NoInstance == [exists |-> FALSE, rings |-> FALSE, running |-> FALSE]
NoPcm == [input |-> {}, output |-> {}]

\* An actor between two calls or two passes.
Rest(a) == [pc |-> IF a = "main" THEN "none" ELSE "look", job |-> "rebuild", then |-> "none",
            else |-> "none", name |-> "mode", mode |-> First, wanted |-> FALSE]

Accepting == request.active /\ sh.admit /\ sh.epoch = request.epoch
AcceptingInput == Accepting /\ ~sh.drain
AllOff == config.on = {} /\ ~Dual
Busy == frame.pc \in {"entered", "admitted", "leave"}  \* process_busy_
IsIdle == ~sh.pending /\ ~sh.busy /\ queue = <<>>

\* After setup(): one build, taken down again if every feature is off.
Init ==
    /\ config \in [mode : {First}, on : Boots]
    /\ request = [active |-> FALSE, epoch |-> 0]
    /\ sh = [epoch |-> 0, admit |-> FALSE, pending |-> FALSE, busy |-> FALSE,
             ready |-> ~AllOff, stopped |-> AllOff,
             voice |-> {}, drain |-> FALSE, waiter |-> NoOne]
    /\ queue = <<>>
    /\ notified = [a \in Actors |-> FALSE]
    /\ lock = NoOne
    /\ instance = [NoInstance EXCEPT !.exists = sh.ready, !.rings = sh.ready]
    /\ pcm = NoPcm
    /\ act = [a \in Actors |-> Rest(a)]
    /\ frame = [pc |-> "out", epoch |-> 0, waiter |-> NoOne]
    /\ fetch = [pc |-> "idle", epoch |-> 0]
    /\ history = [failed |-> FALSE, changes |-> 0, faults |-> 0]

At(a, pc) == act[a].pc = pc
Goto(a, pc) == act' = [act EXCEPT ![a].pc = pc]
\* The actor runs a procedure and goes on by its result.
Call(a, job, then, else) ==
    act' = [act EXCEPT ![a] = [@ EXCEPT !.pc = "lock", !.job = job, !.then = then, !.else = else]]
Result(a, value) ==
    LET c == act[a]
        next == IF value THEN c.then ELSE c.else
    IN act' = [act EXCEPT ![a] =
           IF next = "none" THEN Rest(a)
           ELSE IF next = "restore" THEN [c EXCEPT !.pc = next]
           ELSE [Rest(a) EXCEPT !.pc = next]]
\* A vendor call fails or a wait times out, within the bound.
Fault == history.faults < MaxFaults /\ history' = [history EXCEPT !.faults = @ + 1, !.failed = TRUE]
Failed == history' = [history EXCEPT !.failed = TRUE]
Switched(name, value) == [config EXCEPT !.on = IF value THEN @ \cup {name} ELSE @ \ {name}]

-------------------------------------------------------------------------------
(* The procedure that replaces or retires the instance, run by main or by  *)
(* the owner: config_mutex_, then the drain of process(), then the change. *)

Lock(a) ==
    /\ At(a, "lock")
    /\ \/ lock = NoOne /\ lock' = a /\ Goto(a, "drain") /\ UNCHANGED history
       \/ lock # NoOne /\ Fault /\ Result(a, FALSE) /\ UNCHANGED lock
    /\ UNCHANGED <<request, sh, config, queue, notified, instance, pcm, frame, fetch>>

\* Returns from the procedure: drain_request_ is withdrawn and the mutex given back.
Leave(a, value, new) ==
    /\ sh' = [new EXCEPT !.drain = FALSE]
    /\ lock' = NoOne
    /\ Result(a, value)

Drain(a) ==
    /\ At(a, "drain")
    /\ sh' = [sh EXCEPT !.drain = TRUE]
    /\ Goto(a, "check")
    /\ UNCHANGED <<request, config, queue, notified, lock, instance, pcm, frame, fetch, history>>

\* Defect: process() is not waited for.
DrainCheck_Blind(a) ==
    /\ At(a, "check")
    /\ Goto(a, "detach")
    /\ UNCHANGED <<request, sh, config, queue, notified, lock, instance, pcm, frame, fetch, history>>

DrainCheck(a) ==
    /\ At(a, "check")
    /\ Goto(a, IF Busy THEN "clear" ELSE "detach")
    /\ UNCHANGED <<request, sh, config, queue, notified, lock, instance, pcm, frame, fetch, history>>

DrainRegister(a) ==
    /\ At(a, "clear")
    /\ notified' = [notified EXCEPT ![a] = FALSE]
    /\ sh' = [sh EXCEPT !.waiter = a]
    /\ Goto(a, "wait")
    /\ UNCHANGED <<request, config, queue, lock, instance, pcm, frame, fetch, history>>

\* Woken by a notification, whoever gave it; no wait once process() is seen to have left.
DrainWait(a) ==
    /\ At(a, "wait")
    /\ \/ notified[a] /\ notified' = [notified EXCEPT ![a] = FALSE] /\ UNCHANGED history
       \/ ~Busy /\ UNCHANGED <<notified, history>>
       \/ Busy /\ ~notified[a] /\ Fault /\ UNCHANGED notified
    /\ Goto(a, "settle")
    /\ UNCHANGED <<request, sh, config, queue, lock, instance, pcm, frame, fetch>>

DrainSettle(a) ==
    /\ At(a, "settle")
    /\ IF Busy
       THEN Leave(a, FALSE, [sh EXCEPT !.waiter = NoOne]) /\ Failed
       ELSE /\ sh' = [sh EXCEPT !.waiter = NoOne]
            /\ Goto(a, "detach")
            /\ UNCHANGED <<lock, history>>
    /\ UNCHANGED <<request, config, queue, notified, instance, pcm, frame, fetch>>

\* Defect: the output ring is not released with the instance.
Detach_KeepsOutput(a) ==
    /\ At(a, "detach") /\ fetch.pc = "idle"
    /\ instance' = NoInstance
    /\ pcm' = [NoPcm EXCEPT !.output = pcm.output]
    /\ sh' = [sh EXCEPT !.ready = FALSE, !.admit = @ /\ act[a].job = "rebuild"]
    /\ Goto(a, IF act[a].job = "rebuild" THEN "build" ELSE "retired")
    /\ UNCHANGED <<request, config, queue, notified, lock, frame, fetch, history>>

\* The vendor's setters wait for a callback in flight, its destructor joins its tasks.
Detach(a) ==
    /\ At(a, "detach") /\ fetch.pc = "idle"
    /\ instance' = NoInstance
    /\ pcm' = NoPcm
    /\ sh' = [sh EXCEPT !.ready = FALSE, !.admit = @ /\ act[a].job = "rebuild"]
    /\ Goto(a, IF act[a].job = "rebuild" THEN "build" ELSE "retired")
    /\ UNCHANGED <<request, config, queue, notified, lock, frame, fetch, history>>

Retired(a) ==
    /\ At(a, "retired")
    /\ Leave(a, TRUE, [sh EXCEPT !.voice = {}, !.epoch = request.epoch])
    /\ UNCHANGED <<request, config, queue, notified, instance, pcm, frame, fetch, history>>

\* What build_instance_() makes when it does not fail.
Built == [NoInstance EXCEPT !.exists = TRUE]

Build(a) ==
    /\ At(a, "build")
    /\ IF AllOff
       THEN Leave(a, TRUE, [sh EXCEPT !.stopped = TRUE]) /\ UNCHANGED <<instance, history>>
       ELSE \/ /\ instance' = Built
               /\ Goto(a, "epoch")
               /\ UNCHANGED <<sh, lock, history>>
            \/ Fault /\ Leave(a, FALSE, sh) /\ UNCHANGED instance
    /\ UNCHANGED <<request, config, queue, notified, pcm, frame, fetch>>

\* Defect: the epoch published is one ahead.
PublishEpoch_Next(a) ==
    /\ At(a, "epoch")
    /\ sh' = [sh EXCEPT !.epoch = request.epoch + 1]
    /\ Goto(a, "load")
    /\ UNCHANGED <<request, config, queue, notified, lock, instance, pcm, frame, fetch, history>>

PublishEpoch(a) ==
    /\ At(a, "epoch")
    /\ sh' = [sh EXCEPT !.epoch = request.epoch]
    /\ Goto(a, "load")
    /\ UNCHANGED <<request, config, queue, notified, lock, instance, pcm, frame, fetch, history>>

LoadRequest(a) ==
    /\ At(a, "load")
    /\ act' = [act EXCEPT ![a].wanted = request.active /\ sh.epoch = request.epoch, ![a].pc = "install"]
    /\ UNCHANGED <<request, sh, config, queue, notified, lock, instance, pcm, frame, fetch, history>>

\* prepare_runtime_() makes no rings while the AFE counts as stopped.
RingsMade == ~sh.stopped

\* Admission follows the request loaded before; a failed start withdraws it and the instance.
Install(a) ==
    /\ At(a, "install")
    /\ \/ /\ sh' = [sh EXCEPT !.admit = act[a].wanted]
          /\ instance' = [instance EXCEPT !.running = act[a].wanted, !.rings = RingsMade]
          /\ Goto(a, "up")
          /\ UNCHANGED <<lock, history>>
       \/ /\ Fault
          /\ \/ Leave(a, FALSE, sh)
             \/ act[a].wanted /\ Leave(a, FALSE, [sh EXCEPT !.admit = FALSE])
          /\ instance' = NoInstance
    /\ UNCHANGED <<request, config, queue, notified, pcm, frame, fetch>>

\* Defect: the VAD state of the instance before is kept.
Up_KeepsVoice(a) ==
    /\ At(a, "up")
    /\ AllOff => fetch.pc = "idle"
    /\ IF AllOff
       THEN instance' = NoInstance /\ pcm' = NoPcm /\ Leave(a, TRUE, [sh EXCEPT !.stopped = TRUE])
       ELSE /\ Leave(a, TRUE, [sh EXCEPT !.ready = TRUE, !.stopped = FALSE])
            /\ UNCHANGED <<instance, pcm>>
    /\ UNCHANGED <<request, config, queue, notified, frame, fetch, history>>

Up(a) ==
    /\ At(a, "up")
    /\ AllOff => fetch.pc = "idle"
    /\ IF AllOff
       THEN instance' = NoInstance /\ pcm' = NoPcm /\ Leave(a, TRUE, [sh EXCEPT !.stopped = TRUE])
       ELSE /\ Leave(a, TRUE, [sh EXCEPT !.voice = {}, !.ready = TRUE, !.stopped = FALSE])
            /\ UNCHANGED <<instance, pcm>>
    /\ UNCHANGED <<request, config, queue, notified, frame, fetch, history>>

Procedure(a) ==
    \/ Lock(a)
    \/ Drain(a) \/ DrainCheck(a) \/ DrainRegister(a) \/ DrainWait(a) \/ DrainSettle(a)
    \/ Detach(a) \/ Retired(a)
    \/ Build(a) \/ PublishEpoch(a) \/ LoadRequest(a) \/ Install(a) \/ Up(a)

-------------------------------------------------------------------------------
(* reconfigure() and set_reinit_flag_(): the setting is changed, the       *)
(* instance rebuilt, and on failure the old setting restored and built.    *)

Apply(a, name, new, then) ==
    /\ config' = new
    /\ act' = [act EXCEPT ![a] = [@ EXCEPT !.pc = "lock", !.then = then, !.else = "restore",
                                          !.name = name, !.mode = config.mode]]

Restore(a) ==
    LET c == act[a] IN
    /\ At(a, "restore")
    /\ config' = IF c.name = "mode" THEN [config EXCEPT !.mode = c.mode]
                 ELSE Switched(c.name, c.name \notin config.on)
    /\ act' = [act EXCEPT ![a] = [Rest(a) EXCEPT !.pc = "lock", !.then = c.then, !.else = c.then]]
    /\ UNCHANGED <<request, sh, queue, notified, lock, instance, pcm, frame, fetch, history>>

-------------------------------------------------------------------------------
(* The owner task.                                                         *)

\* Defect: the owner parks with activity pending.
Look_ModesOnly ==
    /\ At("owner", "look")
    /\ IF queue # <<>>
       THEN sh' = [sh EXCEPT !.busy = TRUE] /\ Goto("owner", "take")
       ELSE Goto("owner", "asleep") /\ UNCHANGED sh
    /\ UNCHANGED <<request, config, queue, notified, lock, instance, pcm, frame, fetch, history>>

Look ==
    /\ At("owner", "look")
    /\ IF sh.pending \/ queue # <<>>
       THEN sh' = [sh EXCEPT !.busy = TRUE] /\ Goto("owner", "take")
       ELSE Goto("owner", "asleep") /\ UNCHANGED sh
    /\ UNCHANGED <<request, config, queue, notified, lock, instance, pcm, frame, fetch, history>>

Awake ==
    /\ At("owner", "asleep") /\ notified["owner"]
    /\ notified' = [notified EXCEPT !["owner"] = FALSE]
    /\ sh' = [sh EXCEPT !.busy = TRUE]
    /\ Goto("owner", "take")
    /\ UNCHANGED <<request, config, queue, lock, instance, pcm, frame, fetch, history>>

Take ==
    /\ At("owner", "take")
    /\ IF queue # <<>>
       THEN /\ Apply("owner", "mode", [config EXCEPT !.mode = Head(queue)], "serve")
            /\ queue' = <<>>
       ELSE Goto("owner", "serve") /\ UNCHANGED <<config, queue>>
    /\ UNCHANGED <<request, sh, notified, lock, instance, pcm, frame, fetch, history>>

Serve ==
    /\ At("owner", "serve")
    /\ sh' = [sh EXCEPT !.pending = FALSE]
    /\ Goto("owner", IF sh.pending THEN "service" ELSE "done")
    /\ UNCHANGED <<request, config, queue, notified, lock, instance, pcm, frame, fetch, history>>

\* service_processing_request_(): an acquisition that is over is retired first.
Service ==
    /\ At("owner", "service")
    /\ IF request.active /\ sh.epoch = request.epoch
       THEN Goto("owner", "decide")
       ELSE Call("owner", "retire", "decide", "done")
    /\ UNCHANGED <<request, sh, config, queue, notified, lock, instance, pcm, frame, fetch, history>>

Decide ==
    /\ At("owner", "decide")
    /\ IF ~request.active \/ sh.stopped THEN Goto("owner", "done")
       ELSE IF sh.ready THEN Goto("owner", "admission")
       ELSE Call("owner", "rebuild", "admission", "done")
    /\ UNCHANGED <<request, sh, config, queue, notified, lock, instance, pcm, frame, fetch, history>>

AdmissionLock ==
    /\ At("owner", "admission")
    /\ \/ lock = NoOne /\ lock' = "owner" /\ Goto("owner", "latest") /\ UNCHANGED history
       \/ lock # NoOne /\ Fault /\ Goto("owner", "done") /\ UNCHANGED lock
    /\ UNCHANGED <<request, sh, config, queue, notified, instance, pcm, frame, fetch>>

\* The VAD intent is applied to the ready instance; without one the vendor refuses.
Latest ==
    /\ At("owner", "latest")
    /\ \/ /\ ~(request.active /\ sh.epoch = request.epoch)
          /\ Goto("owner", "done") /\ lock' = NoOne /\ UNCHANGED history
       \/ /\ request.active /\ sh.epoch = request.epoch
          /\ \/ instance.exists /\ Goto("owner", "admit") /\ UNCHANGED <<lock, history>>
             \/ Goto("owner", "done") /\ lock' = NoOne /\ IF instance.exists THEN Fault ELSE Failed
    /\ UNCHANGED <<request, sh, config, queue, notified, instance, pcm, frame, fetch>>

Admit ==
    /\ At("owner", "admit")
    /\ sh' = [sh EXCEPT !.admit = TRUE]
    /\ Goto("owner", "start")
    /\ UNCHANGED <<request, config, queue, notified, lock, instance, pcm, frame, fetch, history>>

\* start_pipeline_(): process() may have been staging PCM since admission.
Start ==
    /\ At("owner", "start")
    /\ lock' = NoOne
    /\ \/ instance.running /\ Goto("owner", "done") /\ UNCHANGED <<sh, instance, pcm, history>>
       \/ /\ ~instance.running
          /\ pcm' = NoPcm
          /\ \/ instance' = [instance EXCEPT !.running = TRUE] /\ Goto("owner", "done") /\ UNCHANGED <<sh, history>>
             \/ Fault /\ sh' = [sh EXCEPT !.admit = FALSE] /\ Goto("owner", "done") /\ UNCHANGED instance
    /\ UNCHANGED <<request, config, queue, notified, frame, fetch>>

\* Defect: what was asked for during the pass is cleared with it.
Done_ClearsPending ==
    /\ At("owner", "done")
    /\ sh' = [sh EXCEPT !.busy = FALSE, !.pending = FALSE]
    /\ act' = [act EXCEPT !["owner"] = Rest("owner")]
    /\ UNCHANGED <<request, config, queue, notified, lock, instance, pcm, frame, fetch, history>>

Done ==
    /\ At("owner", "done")
    /\ sh' = [sh EXCEPT !.busy = FALSE]
    /\ act' = [act EXCEPT !["owner"] = Rest("owner")]
    /\ UNCHANGED <<request, config, queue, notified, lock, instance, pcm, frame, fetch, history>>

OwnerStep ==
    \/ Procedure("owner") \/ Restore("owner")
    \/ Look \/ Awake \/ Take \/ Serve \/ Service \/ Decide
    \/ AdmissionLock \/ Latest \/ Admit \/ Start \/ Done

-------------------------------------------------------------------------------
(* Main: one call at a time.                                               *)

\* set_processing_active(): asking again for what is asked only retries a failed acquisition.
SetProcessingActive(active) ==
    /\ At("main", "none")
    /\ IF request.active = active
       THEN active /\ ~sh.admit /\ ~sh.pending /\ ~sh.busy /\ UNCHANGED request
       ELSE IF active
       THEN request' = [request EXCEPT !.active = TRUE]
       ELSE request.epoch < MaxEpoch /\ request' = [active |-> FALSE, epoch |-> request.epoch + 1]
    /\ Goto("main", IF active THEN "pend" ELSE "withdraw")
    /\ history' = [history EXCEPT !.failed = FALSE]
    /\ UNCHANGED <<sh, config, queue, notified, lock, instance, pcm, frame, fetch>>

Withdraw ==
    /\ At("main", "withdraw")
    /\ sh' = [sh EXCEPT !.admit = FALSE, !.voice = {}]
    /\ Goto("main", "pend")
    /\ UNCHANGED <<request, config, queue, notified, lock, instance, pcm, frame, fetch, history>>

Pend ==
    /\ At("main", "pend")
    /\ sh' = [sh EXCEPT !.pending = TRUE]
    /\ Goto("main", "notify")
    /\ UNCHANGED <<request, config, queue, notified, lock, instance, pcm, frame, fetch, history>>

Notify ==
    /\ At("main", "notify")
    /\ notified' = [notified EXCEPT !["owner"] = TRUE]
    /\ act' = [act EXCEPT !["main"] = Rest("main")]
    /\ UNCHANGED <<request, sh, config, queue, lock, instance, pcm, frame, fetch, history>>

Change == history.changes < MaxChanges /\ history' = [history EXCEPT !.changes = @ + 1]

\* request_reinit_by_name(): the mode that runs is accepted at once unless a pass is going on.
RequestReinit(m) ==
    /\ At("main", "none") /\ Change
    /\ m # config.mode \/ sh.busy
    /\ sh' = [sh EXCEPT !.busy = TRUE]
    /\ act' = [act EXCEPT !["main"].pc = "overwrite", !["main"].mode = m]
    /\ UNCHANGED <<request, config, queue, notified, lock, instance, pcm, frame, fetch>>

Overwrite ==
    /\ At("main", "overwrite")
    /\ queue' = <<act["main"].mode>>
    /\ act' = [act EXCEPT !["main"] = [Rest("main") EXCEPT !.pc = "notify"]]
    /\ UNCHANGED <<request, sh, config, notified, lock, instance, pcm, frame, fetch, history>>

\* VAD without an acquisition that runs: the owner is asked to reconcile.
VadIntent ==
    /\ At("main", "none") /\ Change /\ "vad" \in Switches
    /\ ~Accepting
    /\ config' = Switched("vad", "vad" \notin config.on)
    /\ sh' = [sh EXCEPT !.voice = {}]
    /\ Goto("main", "pend")
    /\ UNCHANGED <<request, queue, notified, lock, instance, pcm, frame, fetch>>

\* A feature of a stopped AFE: enabling it brings the instance back.
ToggleStopped(f) ==
    /\ At("main", "none") /\ Change
    /\ f = "vad" => Accepting
    /\ sh.stopped
    /\ config' = Switched(f, f \notin config.on)
    /\ IF f \notin config.on THEN Call("main", "rebuild", "none", "none") ELSE UNCHANGED act
    /\ sh' = IF f = "vad" /\ f \in config.on THEN [sh EXCEPT !.voice = {}] ELSE sh
    /\ UNCHANGED <<request, queue, notified, lock, instance, pcm, frame, fetch>>

\* set_reinit_flag_(): NS and AGC are structural.
ToggleRebuild(f) ==
    /\ At("main", "none") /\ Change
    /\ f = "ns" /\ ~sh.stopped
    /\ Apply("main", f, Switched(f, f \notin config.on), "none")
    /\ UNCHANGED <<request, sh, queue, notified, lock, instance, pcm, frame, fetch>>

ToggleLive(f) ==
    /\ At("main", "none") /\ Change
    /\ f = "aec" \/ (f = "vad" /\ Accepting)
    /\ ~sh.stopped
    /\ act' = [act EXCEPT !["main"].pc = "live", !["main"].name = f]
    /\ UNCHANGED <<request, sh, config, queue, notified, lock, instance, pcm, frame, fetch>>

Return == act' = [act EXCEPT !["main"] = Rest("main")]

\* Under the mutex; the last feature off stops the AFE.
Live ==
    LET f == act["main"].name
        new == Switched(f, f \notin config.on)
    IN
    /\ At("main", "live")
    /\ \/ /\ lock = NoOne /\ sh.ready
          /\ config' = new
          /\ sh' = IF f = "vad" /\ f \notin new.on THEN [sh EXCEPT !.voice = {}] ELSE sh
          /\ IF new.on = {} /\ ~Dual THEN Call("main", "rebuild", "none", "none") ELSE Return
          /\ UNCHANGED history
       \/ lock = NoOne /\ ~sh.ready /\ Return /\ UNCHANGED <<sh, config, history>>
       \/ (lock # NoOne \/ sh.ready) /\ Fault /\ Return /\ UNCHANGED <<sh, config>>
    /\ UNCHANGED <<request, queue, notified, lock, instance, pcm, frame, fetch>>

MainCall ==
    \/ \E active \in BOOLEAN : SetProcessingActive(active)
    \/ \E m \in Modes : RequestReinit(m)
    \/ VadIntent
    \/ \E f \in Switches : ToggleStopped(f) \/ ToggleRebuild(f) \/ ToggleLive(f)

MainStep ==
    \/ Procedure("main") \/ Restore("main")
    \/ Withdraw \/ Pend \/ Notify \/ Overwrite \/ Live

-------------------------------------------------------------------------------
(* process(), in the audio task.                                           *)

Enter ==
    /\ frame.pc = "out"
    /\ frame' = [frame EXCEPT !.pc = "entered"]
    /\ UNCHANGED <<request, sh, config, queue, notified, lock, instance, pcm, act, fetch, history>>

\* The frame is refused, has nothing to work on, or is admitted to the instance that is there.
Screen ==
    /\ frame.pc = "entered"
    /\ frame' = IF sh.drain \/ ~Accepting \/ sh.stopped \/ ~sh.ready
                THEN [frame EXCEPT !.pc = "leave"]
                ELSE [frame EXCEPT !.pc = "admitted", !.epoch = request.epoch]
    /\ UNCHANGED <<request, sh, config, queue, notified, lock, instance, pcm, act, fetch, history>>

\* The frame is staged and fed and a processed one pulled; without rings it is silence.
Work ==
    /\ frame.pc = "admitted"
    /\ frame' = [frame EXCEPT !.pc = "leave", !.epoch = 0]
    /\ pcm' = IF instance.rings THEN [pcm EXCEPT !.input = @ \cup {frame.epoch}] ELSE pcm
    /\ UNCHANGED <<request, sh, config, queue, notified, lock, instance, act, fetch, history>>

\* clear_process_busy_(): the flag first, then the waiter is loaded and told.
ClearBusy ==
    /\ frame.pc = "leave"
    /\ frame' = [frame EXCEPT !.pc = "cleared"]
    /\ UNCHANGED <<request, sh, config, queue, notified, lock, instance, pcm, act, fetch, history>>

LoadWaiter ==
    /\ frame.pc = "cleared"
    /\ frame' = IF sh.waiter = NoOne THEN [frame EXCEPT !.pc = "out"]
                ELSE [frame EXCEPT !.pc = "tell", !.waiter = sh.waiter]
    /\ UNCHANGED <<request, sh, config, queue, notified, lock, instance, pcm, act, fetch, history>>

Tell ==
    /\ frame.pc = "tell"
    /\ notified' = [notified EXCEPT ![frame.waiter] = TRUE]
    /\ frame' = [frame EXCEPT !.pc = "out", !.waiter = NoOne]
    /\ UNCHANGED <<request, sh, config, queue, lock, instance, pcm, act, fetch, history>>

AudioStep == Screen \/ Work \/ ClearBusy \/ LoadWaiter \/ Tell

-------------------------------------------------------------------------------
(* The manager's tasks, through our callbacks.  The sets of pcm only grow  *)
(* until they are emptied: a frame taken from a ring may have left others. *)

\* gmf_input_acquire_() took the PCM and manager_result_cb_() gets the result: each needs input
\* to be accepted.  The callback then stores the VAD state and writes the ring.
Fetch ==
    /\ fetch.pc = "idle" /\ instance.running /\ AcceptingInput
    /\ \E e \in pcm.input : fetch' = [pc |-> "voice", epoch |-> e]
    /\ UNCHANGED <<request, sh, config, queue, notified, lock, instance, pcm, act, frame, history>>

\* Speech, so far as VAD is enabled: silence would only clear the flag.
Voice ==
    /\ fetch.pc = "voice"
    /\ sh' = [sh EXCEPT !.voice = IF "vad" \in config.on THEN {fetch.epoch} ELSE {}]
    /\ fetch' = [fetch EXCEPT !.pc = "release"]
    /\ UNCHANGED <<request, config, queue, notified, lock, instance, pcm, act, frame, history>>

Release ==
    /\ fetch.pc = "release"
    /\ fetch' = [pc |-> "idle", epoch |-> 0]
    /\ pcm' = IF Accepting /\ instance.rings THEN [pcm EXCEPT !.output = @ \cup {fetch.epoch}] ELSE pcm
    /\ UNCHANGED <<request, sh, config, queue, notified, lock, instance, act, frame, history>>

ManagerStep == Fetch \/ Voice \/ Release

-------------------------------------------------------------------------------
Next == MainCall \/ MainStep \/ OwnerStep \/ Enter \/ AudioStep \/ ManagerStep

Spec == Init /\ [][Next]_vars

-------------------------------------------------------------------------------
Requests == [active : BOOLEAN, epoch : Epochs]
Shared == [epoch : Epochs, admit : BOOLEAN, pending : BOOLEAN, busy : BOOLEAN, ready : BOOLEAN,
           stopped : BOOLEAN, voice : SUBSET Epochs, drain : BOOLEAN, waiter : Actors \cup {NoOne}]
Configs == [mode : Modes, on : SUBSET FeatureNames]
Instances == [exists : BOOLEAN, rings : BOOLEAN, running : BOOLEAN]
Pcm == [input : SUBSET Epochs, output : SUBSET Epochs]
Critical == {"drain", "check", "clear", "wait", "settle", "detach", "retired", "build", "epoch", "load",
             "install", "up"}
Steps == Critical \cup {"none", "look", "asleep", "take", "serve", "service", "decide", "admission",
                        "latest", "admit", "start", "done", "lock", "restore", "withdraw", "pend",
                        "notify", "overwrite", "live"}
Locals == [pc : Steps, job : {"rebuild", "retire"}, then : Steps, else : Steps,
           name : FeatureNames \cup {"mode"}, mode : Modes, wanted : BOOLEAN]
FramePcs == {"out", "entered", "admitted", "leave", "cleared", "tell"}

\* Every variable has its type; an epoch published is one that was asked for.
TypeOK ==
    /\ request \in Requests
    /\ sh \in Shared
    /\ config \in Configs
    /\ queue \in Seq(Modes)
    /\ notified \in [Actors -> BOOLEAN]
    /\ lock \in Actors \cup {NoOne}
    /\ instance \in Instances
    /\ pcm \in Pcm
    /\ act \in [Actors -> Locals]
    /\ frame \in [pc : FramePcs, epoch : Epochs, waiter : Actors \cup {NoOne}]
    /\ fetch \in [pc : {"idle", "voice", "release"}, epoch : Epochs]
    /\ history \in [failed : BOOLEAN, changes : Nat, faults : Nat]

\* process() works on an instance that is there: no rebuild or retirement takes it away, and none
\* puts another in its place, between the screening of a frame and its end (the drain protocol).
FrameKeepsInstance == frame.pc = "admitted" => sh.ready /\ instance.exists

\* A frame of an acquisition gets no PCM of an earlier one, whatever the manager's fetch task,
\* which takes no lock, was about to deliver when the earlier one was withdrawn.
FreshFrames == frame.pc = "admitted" => pcm.output \subseteq {frame.epoch}

\* is_voice_present() of an AFE that is ready tells of the acquisition that runs: a VAD state stored
\* late by the result callback of an earlier one never shows.
FreshVoice == Accepting /\ sh.ready => sh.voice \subseteq {request.epoch}

\* The reconfiguration is idle and main makes no call.
IdleNow == IsIdle /\ At("main", "none")

\* Once idle, without a failure since activity was last asked for, the AFE is what was asked: not
\* running and not accepting, or unless it is stopped accepting, ready and running.
IdleIsSettled ==
    IdleNow /\ ~history.failed =>
        /\ ~request.active => ~instance.running /\ ~Accepting
        /\ request.active /\ ~sh.stopped => Accepting /\ sh.ready /\ instance.running

\* The owner never sleeps on work: parked with no notification given or about to be given, there
\* is no activity pending, no mode queued and no busy flag left for is_reconfigure_idle(), though
\* the drain of process() takes notifications from the same slot.
ParkedIsIdle ==
    At("owner", "asleep") /\ ~notified["owner"] /\ act["main"].pc \notin {"overwrite", "notify"} => IsIdle

\* An instance published as ready is a complete one, with its rings (esp_afe.cpp:814-816).
CompleteInstance == sh.ready => instance.rings
===============================================================================
