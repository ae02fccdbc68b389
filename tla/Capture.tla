------------------------------- MODULE Capture -------------------------------
(***************************************************************************)
(* The optional PCM capture.  Three tasks share one queue and a handful of *)
(* atomics, and no lock is ever taken in the audio callback:               *)
(*                                                                         *)
(*   main      start(), stop() and loop() of ESPAudioCapture: it creates   *)
(*             and frees the queue and the worker, and opens admission;    *)
(*   producer  the audio task in on_capture_frame(), the only caller;      *)
(*   worker    a task per capture: it connects, sends the records of the   *)
(*             queue and leaves when told to, at the deadline or when the  *)
(*             peer fails; then it parks until main deletes it.            *)
(*                                                                         *)
(* A frame is its point, its session and its format.  Sizes are left out:  *)
(* the queue may refuse any frame, and surely does when it is full.  The   *)
(* microphone may be muted, or the stack's session failed, whenever one of *)
(* the tasks looks.                                                        *)
(***************************************************************************)
EXTENDS Naturals, Sequences, FiniteSets

CONSTANTS
    Points,         \* CapturePoint
    Formats,        \* what a frame has as rate, width and channels
    Slots,          \* records the queue holds at most
    MaxCaptures,    \* bound of the model: captures started, none after a late opening
    MaxCalls,       \* bound of the model: frames offered while admission is open
    MaxSessions,    \* bound of the model: start generations of the stack
    None            \* UINT32_MAX as bound_generation_, no format yet

ASSUME CaptureAssumption ==
    /\ Slots \in Nat \ {0}
    /\ MaxCaptures \in Nat /\ MaxCalls \in Nat /\ MaxSessions \in Nat
    /\ None \notin Nat /\ None \notin Formats

VARIABLES
    atomics,  \* active_, stopping_, connected_, worker_done_, writers_, bound_generation_
    queue,    \* queue_: whether it exists, its records, a reservation in it
    point,    \* rates_ and the like, sequences_, drops_
    held,     \* microphone_held_
    main,     \* main: its next step, and where stop() returns to
    worker,   \* the worker: its next step, its notification
    producer, \* the producer: its next step, the frame, the record it writes
    env,      \* the deadline passed, capture_generation()
    history   \* what the peer got of this capture; a late opening; counts for the bounds

vars == <<atomics, queue, point, held, main, worker, producer, env, history>>

Sessions == 0 .. MaxSessions
Frames == [point : Points, session : Sessions, format : Formats]
Records == [point : Points, session : Sessions, format : Formats, sequence : Nat, dropped : Nat]

NoQueue == [exists |-> FALSE, items |-> <<>>, reserved |-> FALSE]
EmptyQueue == [exists |-> TRUE, items |-> <<>>, reserved |-> FALSE]
Unseen == [p \in Points |-> [format |-> None, sequence |-> 0, drops |-> 0]]
NoWorker == [pc |-> "none", notified |-> FALSE]
Idle == [pc |-> "idle", then |-> "idle"]
Out == [pc |-> "out", frame |-> None, record |-> None]

Init ==
    /\ atomics = [active |-> FALSE, stopping |-> FALSE, connected |-> FALSE, done |-> FALSE,
                  writers |-> 0, bound |-> None]
    /\ queue = NoQueue
    /\ point = Unseen
    /\ held = FALSE
    /\ main = Idle
    /\ worker = NoWorker
    /\ producer = Out
    /\ env = [expired |-> FALSE, session |-> 0]
    /\ history = [sent |-> <<>>, late |-> FALSE, captures |-> 0, calls |-> 0]

----------------------------------------------------------------------------
(* Main.                                                                   *)

MainAt(pc) == main.pc = pc
MainUnchanged == UNCHANGED <<point, producer, env>>
Goto(pc) == main' = [main EXCEPT !.pc = pc]
CallStop(then) == main' = [pc |-> "stop", then |-> then]
Exists == worker.pc # "none"
\* wake_worker_()
Woken == IF Exists THEN [worker EXCEPT !.notified = TRUE] ELSE worker

Renewed == [atomics EXCEPT !.stopping = FALSE, !.connected = FALSE, !.done = FALSE, !.bound = None]

\* The task may not be created: the queue is freed again.  Where the queue
\* cannot be had, or the microphone is muted, nothing changes.
Start ==
    /\ MainAt("idle") /\ ~Exists
    /\ history.captures < MaxCaptures /\ ~history.late
    /\ atomics' = Renewed
    /\ point' = Unseen
    /\ env' = [env EXCEPT !.expired = FALSE]
    /\ \/ /\ queue' = EmptyQueue
          /\ worker' = [pc |-> "connecting", notified |-> FALSE]
       \/ UNCHANGED <<queue, worker>>
    /\ history' = [history EXCEPT !.captures = @ + 1, !.sent = <<>>]
    /\ UNCHANGED <<held, main, producer>>

\* The stop action of an automation, or the shutdown.
Stop ==
    /\ MainAt("idle")
    /\ CallStop("idle")
    /\ UNCHANGED <<atomics, queue, held, worker, history>> /\ MainUnchanged

\* The three steps of stop(): admission, the worker's order, the rest.
StopAdmission ==
    /\ MainAt("stop")
    /\ atomics' = [atomics EXCEPT !.active = FALSE]
    /\ Goto("stopping")
    /\ UNCHANGED <<queue, held, worker, history>> /\ MainUnchanged

StopWorker ==
    /\ MainAt("stopping")
    /\ atomics' = [atomics EXCEPT !.stopping = TRUE]
    /\ Goto("releasing")
    /\ UNCHANGED <<queue, held, worker, history>> /\ MainUnchanged

StopRelease ==
    /\ MainAt("releasing")
    /\ held' = FALSE
    /\ worker' = Woken
    /\ main' = [pc |-> main.then, then |-> "idle"]
    /\ UNCHANGED <<atomics, queue, history>> /\ MainUnchanged

\* Defect: a worker that is done is deleted without stop().
LoopDone_NoStop == main' = [pc |-> "delete", then |-> "idle"]
LoopDone == CallStop("delete")

Loop ==
    /\ MainAt("idle") /\ Exists
    /\ \/ atomics.done /\ LoopDone
       \/ ~atomics.done /\ Goto("checks")
    /\ UNCHANGED <<atomics, queue, held, worker, history>> /\ MainUnchanged

Delete ==
    /\ MainAt("delete")
    /\ worker' = NoWorker
    /\ queue' = NoQueue
    /\ main' = Idle
    /\ UNCHANGED <<atomics, held, history>> /\ MainUnchanged

\* The session the records are of is not the stack's any more.
Outlived == atomics.bound # None /\ atomics.bound # env.session

\* The other reasons to stop are a muted microphone and a failed session.
LoopChecks ==
    /\ MainAt("checks")
    /\ \/ CallStop("test")
       \/ ~Outlived /\ Goto("test")
    /\ UNCHANGED <<atomics, queue, held, worker, history>> /\ MainUnchanged

\* Defect: the worker is left to its own when it has been told to stop.
WokenAtStop_Never == worker
WokenAtStop == IF atomics.writers = 0 THEN Woken ELSE worker

LoopStopping ==
    /\ MainAt("test")
    /\ \/ /\ atomics.stopping
          /\ worker' = WokenAtStop
          /\ Goto("idle")
       \/ /\ ~atomics.stopping
          /\ Goto("deadline")
          /\ UNCHANGED worker
    /\ UNCHANGED <<atomics, queue, held, history>> /\ MainUnchanged

\* The deadline ends admission.
LoopDeadline ==
    /\ MainAt("deadline")
    /\ \/ /\ env.expired
          /\ atomics' = [atomics EXCEPT !.active = FALSE]
          /\ worker' = IF atomics.active THEN Woken ELSE worker
          /\ Goto("idle")
       \/ /\ ~env.expired
          /\ Goto(IF atomics.connected /\ ~held THEN "admit" ELSE "idle")
          /\ UNCHANGED <<atomics, worker>>
    /\ UNCHANGED <<queue, held, history>> /\ MainUnchanged

\* register_mic_consumer() may refuse.
LoopRegister ==
    /\ MainAt("admit")
    /\ \/ held' = TRUE /\ Goto("open")
       \/ CallStop("idle") /\ UNCHANGED held
    /\ UNCHANGED <<atomics, queue, worker, history>> /\ MainUnchanged

\* What the worker does after it has closed admission for the last time.
Leaving == {"closed", "draining", "blocked", "emptying", "parked"}

\* After a late opening the model is followed to the end of this capture only;
\* what a producer does to a queue that is gone has no meaning any more.
LoopOpen ==
    /\ MainAt("open")
    /\ atomics' = [atomics EXCEPT !.active = TRUE]
    /\ history' = [history EXCEPT !.late = @ \/ worker.pc \in Leaving]
    /\ Goto("idle")
    /\ UNCHANGED <<queue, held, worker>> /\ MainUnchanged

MainStep == \/ StopAdmission \/ StopWorker \/ StopRelease
            \/ Loop \/ Delete \/ LoopChecks \/ LoopStopping \/ LoopDeadline
            \/ LoopRegister \/ LoopOpen

----------------------------------------------------------------------------
(* The producer.                                                           *)

ProducerAt(pc) == producer.pc = pc
ProducerGoes(pc) == producer' = [producer EXCEPT !.pc = pc]
ProducerUnchanged == UNCHANGED <<held, main, env>>

\* capture_audio_(): a frame is looked at, with the session it is of.
Call(p, f) ==
    /\ ProducerAt("out") /\ atomics.active
    /\ history.calls < MaxCalls
    /\ producer' = [Out EXCEPT !.pc = "called",
                               !.frame = [point |-> p, session |-> env.session, format |-> f]]
    /\ history' = [history EXCEPT !.calls = @ + 1]
    /\ UNCHANGED <<atomics, queue, point, worker>> /\ ProducerUnchanged

Screen ==
    /\ ProducerAt("called")
    /\ \/ ~atomics.active /\ producer' = Out
       \/ atomics.active /\ (ProducerGoes("entering") \/ ProducerGoes("muting"))
    /\ UNCHANGED <<atomics, queue, point, worker, history>> /\ ProducerUnchanged

MuteCloses ==
    /\ ProducerAt("muting")
    /\ atomics' = [atomics EXCEPT !.active = FALSE]
    /\ ProducerGoes("halting")
    /\ UNCHANGED <<queue, point, worker, history>> /\ ProducerUnchanged

MuteStops ==
    /\ ProducerAt("halting")
    /\ atomics' = [atomics EXCEPT !.stopping = TRUE]
    /\ producer' = Out
    /\ UNCHANGED <<queue, point, worker, history>> /\ ProducerUnchanged

Enter ==
    /\ ProducerAt("entering")
    /\ atomics' = [atomics EXCEPT !.writers = @ + 1]
    /\ ProducerGoes("counted")
    /\ UNCHANGED <<queue, point, worker, history>> /\ ProducerUnchanged

\* Defect: the look at admission before the count is thought to be enough.
Admitted_Before == TRUE
Admitted == atomics.active

Recheck ==
    /\ ProducerAt("counted")
    /\ ProducerGoes(IF Admitted THEN "inside" ELSE "leaving")
    /\ UNCHANGED <<atomics, queue, point, worker, history>> /\ ProducerUnchanged

\* The first frame of a capture binds it to a session.
Bound == IF atomics.bound = None THEN producer.frame.session ELSE atomics.bound
Known == point[producer.frame.point]
\* Defect: only a change of format ends the capture.
Mismatch_Format == Known.format \notin {None, producer.frame.format}
Mismatch == \/ Bound # producer.frame.session
            \/ Known.format \notin {None, producer.frame.format}

\* Defect: a sequence number is only spent on a frame that is kept.
Counted_Kept(kept) ==
    [point EXCEPT ![producer.frame.point] =
        [format |-> producer.frame.format,
         sequence |-> IF kept THEN @.sequence + 1 ELSE @.sequence,
         drops |-> IF kept THEN @.drops ELSE @.drops + 1]]
Counted(kept) ==
    [point EXCEPT ![producer.frame.point] =
        [format |-> producer.frame.format, sequence |-> @.sequence + 1,
         drops |-> IF kept THEN @.drops ELSE @.drops + 1]]

Keep ==
    /\ ProducerAt("inside") /\ ~Mismatch
    /\ Len(queue.items) < Slots
    /\ atomics' = [atomics EXCEPT !.bound = Bound]
    /\ point' = Counted(TRUE)
    /\ queue' = [queue EXCEPT !.reserved = TRUE]
    /\ producer' = [producer EXCEPT
            !.pc = "holding",
            !.record = [point |-> producer.frame.point, session |-> producer.frame.session,
                        format |-> producer.frame.format,
                        sequence |-> Known.sequence, dropped |-> Known.drops]]
    /\ UNCHANGED <<worker, history>> /\ ProducerUnchanged

Drop ==
    /\ ProducerAt("inside") /\ ~Mismatch
    /\ atomics' = [atomics EXCEPT !.bound = Bound]
    /\ point' = Counted(FALSE)
    /\ ProducerGoes("waking")
    /\ UNCHANGED <<queue, worker, history>> /\ ProducerUnchanged

Complete ==
    /\ ProducerAt("holding")
    /\ queue' = [queue EXCEPT !.items = Append(@, producer.record), !.reserved = FALSE]
    /\ producer' = [producer EXCEPT !.pc = "waking", !.record = None]
    /\ UNCHANGED <<atomics, point, worker, history>> /\ ProducerUnchanged

Wake ==
    /\ ProducerAt("waking")
    /\ worker' = Woken
    /\ ProducerGoes("leaving")
    /\ UNCHANGED <<atomics, queue, point, history>> /\ ProducerUnchanged

Reject ==
    /\ ProducerAt("inside") /\ Mismatch
    /\ atomics' = [atomics EXCEPT !.bound = Bound, !.active = FALSE]
    /\ ProducerGoes("rejecting")
    /\ UNCHANGED <<queue, point, worker, history>> /\ ProducerUnchanged

\* Defect: the way out of a rejected frame counts itself out, too.
RejectStops_Leaves == [atomics EXCEPT !.stopping = TRUE, !.writers = @ - 1]
RejectStops == [atomics EXCEPT !.stopping = TRUE]

Rejected ==
    /\ ProducerAt("rejecting")
    /\ atomics' = RejectStops
    /\ ProducerGoes("leaving")
    /\ UNCHANGED <<queue, point, worker, history>> /\ ProducerUnchanged

Leave ==
    /\ ProducerAt("leaving")
    /\ atomics' = [atomics EXCEPT !.writers = @ - 1]
    /\ producer' = Out
    /\ UNCHANGED <<queue, point, worker, history>> /\ ProducerUnchanged

ProducerStep == \/ Screen \/ MuteCloses \/ MuteStops \/ Enter \/ Recheck
                \/ Keep \/ Drop \/ Complete \/ Wake \/ Reject \/ Rejected \/ Leave

----------------------------------------------------------------------------
(* The worker.                                                             *)

WorkerAt(pc) == worker.pc = pc
WorkerGoes(pc) == worker' = [worker EXCEPT !.pc = pc]
WorkerUnchanged == UNCHANGED <<point, held, main, producer, env>>

\* connect_(): a connection made while stop() is called counts as failed.
Connect ==
    /\ WorkerAt("connecting")
    /\ \/ /\ ~atomics.stopping
          /\ atomics' = [atomics EXCEPT !.connected = TRUE]
          /\ WorkerGoes("serving")
       \/ WorkerGoes("closing") /\ UNCHANGED atomics
    /\ UNCHANGED <<queue, history>> /\ WorkerUnchanged

Serve ==
    /\ WorkerAt("serving")
    /\ WorkerGoes(IF atomics.stopping \/ env.expired THEN "closing"
                  ELSE IF queue.items # <<>> THEN "sending" ELSE "waiting")
    /\ UNCHANGED <<atomics, queue, history>> /\ WorkerUnchanged

\* Until a notification comes or the deadline does.
AwaitRecord ==
    /\ WorkerAt("waiting")
    /\ worker.notified \/ env.expired
    /\ worker' = [pc |-> "serving", notified |-> FALSE]
    /\ UNCHANGED <<atomics, queue, history>> /\ WorkerUnchanged

\* send_record_() fails with the peer, after a second, or on a stop.  The item
\* goes back in any case.
Send ==
    /\ WorkerAt("sending")
    /\ queue' = [queue EXCEPT !.items = Tail(@)]
    /\ \/ /\ history' = [history EXCEPT !.sent = Append(@, Head(queue.items))]
          /\ WorkerGoes("serving")
       \/ WorkerGoes("closing") /\ UNCHANGED history
    /\ UNCHANGED atomics /\ WorkerUnchanged

CloseAdmission ==
    /\ WorkerAt("closing")
    /\ atomics' = [atomics EXCEPT !.active = FALSE]
    /\ WorkerGoes("closed")
    /\ UNCHANGED <<queue, history>> /\ WorkerUnchanged

CloseSocket ==
    /\ WorkerAt("closed")
    /\ atomics' = [atomics EXCEPT !.stopping = TRUE]
    /\ WorkerGoes("draining")
    /\ UNCHANGED <<queue, history>> /\ WorkerUnchanged

Drain ==
    /\ WorkerAt("draining")
    /\ WorkerGoes(IF atomics.writers = 0 THEN "emptying" ELSE "blocked")
    /\ UNCHANGED <<atomics, queue, history>> /\ WorkerUnchanged

AwaitWriters ==
    /\ WorkerAt("blocked") /\ worker.notified
    /\ worker' = [pc |-> "draining", notified |-> FALSE]
    /\ UNCHANGED <<atomics, queue, history>> /\ WorkerUnchanged

Park ==
    /\ WorkerAt("emptying")
    /\ queue' = [queue EXCEPT !.items = <<>>]
    /\ atomics' = [atomics EXCEPT !.done = TRUE]
    /\ WorkerGoes("parked")
    /\ UNCHANGED history /\ WorkerUnchanged

WorkerStep == \/ Connect \/ Serve \/ AwaitRecord \/ Send
              \/ CloseAdmission \/ CloseSocket \/ Drain \/ AwaitWriters \/ Park

----------------------------------------------------------------------------
(* The rest of the device.                                                 *)

EnvUnchanged == UNCHANGED <<atomics, queue, point, held, main, worker, producer, history>>

Expire == Exists /\ env' = [env EXCEPT !.expired = TRUE] /\ EnvUnchanged
NextSession == /\ env.session < MaxSessions
               /\ env' = [env EXCEPT !.session = @ + 1]
               /\ EnvUnchanged

EnvStep == Expire \/ NextSession

Next == \/ Start \/ Stop \/ MainStep
        \/ \E p \in Points, f \in Formats : Call(p, f)
        \/ ProducerStep \/ WorkerStep \/ EnvStep

Spec == Init /\ [][Next]_vars

\* All three tasks are scheduled; loop() is called again and again while there is
\* a worker, however often an automation calls stop().
Fairness == /\ WF_vars(MainStep) /\ SF_vars(Loop)
            /\ WF_vars(ProducerStep) /\ WF_vars(WorkerStep)
FairSpec == Spec /\ Fairness

----------------------------------------------------------------------------
(* Properties.                                                             *)

MainPcs == {"idle", "stop", "stopping", "releasing", "delete", "checks", "test", "deadline",
            "admit", "open"}
ProducerPcs == {"out", "called", "muting", "halting", "entering", "counted", "inside", "holding",
                "waking", "rejecting", "leaving"}
WorkerPcs == {"none", "connecting", "serving", "waiting", "sending", "closing"} \cup Leaving

AtomicsType == [active : BOOLEAN, stopping : BOOLEAN, connected : BOOLEAN, done : BOOLEAN,
                writers : Nat, bound : Sessions \cup {None}]
QueueType == [exists : BOOLEAN, items : Seq(Records), reserved : BOOLEAN]
PointType == [Points -> [format : Formats \cup {None}, sequence : Nat, drops : Nat]]
MainType == [pc : MainPcs, then : {"idle", "delete", "test"}]
WorkerType == [pc : WorkerPcs, notified : BOOLEAN]
ProducerType == [pc : ProducerPcs, frame : Frames \cup {None}, record : Records \cup {None}]
EnvType == [expired : BOOLEAN, session : Sessions]
HistoryType == [sent : Seq(Records), late : BOOLEAN, captures : Nat, calls : Nat]

\* Every variable has its type; in particular writers_ never goes below zero.
TypeOK ==
    /\ atomics \in AtomicsType
    /\ queue \in QueueType
    /\ point \in PointType
    /\ held \in BOOLEAN
    /\ main \in MainType
    /\ worker \in WorkerType
    /\ producer \in ProducerType
    /\ env \in EnvType
    /\ history \in HistoryType

\* The producer is about to use the queue or the worker's handle.
Inside == producer.pc \in {"inside", "holding", "waking"}

\* What the ring buffer asks of its users, that no reservation is left when it
\* is destroyed: main does not delete the queue while on_capture_frame() is in it.
QueueOutlivesUse == Inside => queue.exists

\* While on_capture_frame() uses the queue and the worker's handle, the worker
\* has not yet emptied the queue and main has not deleted either.
QueueHeld == Inside => queue.exists /\ worker.pc \notin {"emptying", "parked", "none"}

\* The count of writers and the flag of admission, two atomics that are never
\* read together, keep the queue for the producer, unless loop() has opened
\* admission after the worker had closed it for good.
QueueHeldInTime == history.late \/ QueueHeld

\* The peer gets one session and, for each point, one format, however often the
\* stack restarts and whatever call is still on its way when a capture starts.
OneStream ==
    history.late \/
    LET stream == history.sent \o queue.items
    IN  \A i, j \in 1 .. Len(stream) :
            /\ stream[i].session = stream[j].session
            /\ stream[i].point = stream[j].point => stream[i].format = stream[j].format

\* How many of the first n records of a stream are of a point.
Before(stream, n, p) == Cardinality({k \in 1 .. n : stream[k].point = p})

\* In a stream the number of a record is how many of its point went before, plus what it says was dropped.
Accounted(stream) ==
    \A i \in 1 .. Len(stream) :
        stream[i].sequence = Before(stream, i - 1, stream[i].point) + stream[i].dropped

\* The peer can account for every frame of a point: the number of a record is
\* what it got before plus what the record says was dropped.
GapsDeclared == history.late \/ Accounted(history.sent)

\* When loop() has deleted the worker nothing of the capture is left: not the
\* microphone it holds, not the queue, and no admission.
Released == MainAt("idle") /\ ~Exists => ~held /\ ~queue.exists /\ ~atomics.active

\* A capture that is told to stop, that is past its deadline or whose session
\* has ended is over some time later: the worker never waits for ever, neither
\* for records nor for the writers.
Ends == (Exists /\ (atomics.stopping \/ env.expired \/ Outlived)) ~> ~Exists
=============================================================================
