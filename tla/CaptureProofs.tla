---------------------------- MODULE CaptureProofs ----------------------------
(***************************************************************************)
(* Proofs about Capture, for any number of captures, calls, sessions,      *)
(* formats and points: the types, the protocol that keeps the queue for    *)
(* the producer, what is left of a capture (Released), and what the peer   *)
(* can rely on in the stream it gets (OneStream, GapsDeclared).            *)
(***************************************************************************)
EXTENDS Capture, SequenceTheorems, FiniteSetTheorems, TLAPS

\* Where the producer is counted in writers_.
CountedPcs == {"counted", "inside", "holding", "waking", "rejecting", "leaving"}

\* The type invariant is not inductive: writers_ is only decremented by who has
\* incremented it, a frame is only looked at inside a call, and the worker only
\* sends what it has received.
WritersExact == atomics.writers = IF producer.pc \in CountedPcs THEN 1 ELSE 0
Framed == producer.pc # "out" => producer.frame \in Frames
Filled == producer.pc = "holding" => producer.record \in Records
Fetched == worker.pc = "sending" => queue.items # <<>>
Typed == TypeOK /\ WritersExact /\ Framed /\ Filled /\ Fetched

\* The initial state is well typed.
LEMMA TypedInit == Init => Typed
<1> SUFFICES ASSUME Init PROVE Typed
  OBVIOUS
<1>1. TypeOK
  <2>1. atomics \in AtomicsType /\ held \in BOOLEAN
    BY DEF Init, AtomicsType
  <2>2. queue \in QueueType
    BY DEF Init, NoQueue, QueueType
  <2>3. point \in PointType
    BY DEF Init, Unseen, PointType
  <2>4. main \in MainType /\ worker \in WorkerType
    BY DEF Init, Idle, NoWorker, MainType, MainPcs, WorkerType, WorkerPcs
  <2>5. producer \in ProducerType
    BY DEF Init, Out, ProducerType, ProducerPcs
  <2>6. env \in EnvType /\ history \in HistoryType
    BY CaptureAssumption DEF Init, EnvType, HistoryType, Sessions
  <2> QED
    BY <2>1, <2>2, <2>3, <2>4, <2>5, <2>6 DEF TypeOK
<1>2. WritersExact /\ Framed /\ Filled /\ Fetched
  BY DEF Init, WritersExact, CountedPcs, Framed, Filled, Fetched, Out, NoWorker
<1> QED
  BY <1>1, <1>2 DEF Typed

\* A notification does not move the worker.
LEMMA WokenTyped == ASSUME worker \in WorkerType
                    PROVE  Woken \in WorkerType /\ Woken.pc = worker.pc
<1> QED
  BY DEF Woken, WorkerType

\* Counting a frame, kept or dropped.
LEMMA CountedTyped ==
    ASSUME point \in PointType, producer.frame \in Frames, NEW kept \in BOOLEAN
    PROVE  Counted(kept) \in PointType
<1> DEFINE old == point[producer.frame.point]
           new == [format |-> producer.frame.format, sequence |-> old.sequence + 1,
                   drops |-> IF kept THEN old.drops ELSE old.drops + 1]
<1>1. producer.frame.point \in Points /\ producer.frame.format \in Formats
  BY DEF Frames
<1>2. old.sequence \in Nat /\ old.drops \in Nat
  BY <1>1 DEF PointType
<1>3. new \in [format : Formats \cup {None}, sequence : Nat, drops : Nat]
  BY <1>1, <1>2
<1>4. Counted(kept) = [point EXCEPT ![producer.frame.point] = new]
  BY <1>1 DEF Counted, PointType
<1> QED
  BY <1>1, <1>3, <1>4 DEF PointType

\* The steps of main keep the types.
LEMMA MainTyped == ASSUME Typed, Start \/ Stop \/ MainStep PROVE Typed'
<1> USE CaptureAssumption
    DEF Typed, TypeOK, WritersExact, Framed, Filled, Fetched, CountedPcs,
        MainAt, MainUnchanged, Goto, CallStop, Exists, Woken
<1>1. CASE Start
  <2>1. atomics' \in AtomicsType /\ atomics'.writers = atomics.writers
    BY <1>1 DEF Start, Renewed, AtomicsType
  <2>2. point' \in PointType
    BY <1>1 DEF Start, Unseen, PointType
  <2>3. env' \in EnvType
    BY <1>1 DEF Start, EnvType
  <2>4. history' \in HistoryType
    <3>1. <<>> \in Seq(Records)
      OBVIOUS
    <3>2. history' = [history EXCEPT !.captures = history.captures + 1, !.sent = <<>>]
      BY <1>1 DEF Start
    <3>3. history.captures + 1 \in Nat
      BY DEF HistoryType
    <3>4. [history EXCEPT !.captures = history.captures + 1] \in HistoryType
      BY <3>3 DEF HistoryType
    <3> QED
      BY <3>1, <3>2, <3>4 DEF HistoryType
  <2>5. queue' \in QueueType /\ worker' \in WorkerType /\ worker'.pc # "sending"
    <3>1. CASE queue' = EmptyQueue /\ worker' = [pc |-> "connecting", notified |-> FALSE]
      <4>1. <<>> \in Seq(Records)
        OBVIOUS
      <4> QED
        BY <3>1, <4>1 DEF EmptyQueue, QueueType, WorkerType, WorkerPcs
    <3>2. CASE UNCHANGED <<queue, worker>>
      BY <1>1, <3>2 DEF Start
    <3> QED
      BY <1>1, <3>1, <3>2 DEF Start
  <2>6. UNCHANGED <<held, main, producer>>
    BY <1>1 DEF Start
  <2> QED
    BY <2>1, <2>2, <2>3, <2>4, <2>5, <2>6
<1>2. CASE Stop
  BY <1>2 DEF Stop, MainType, MainPcs
<1>3. CASE StopAdmission
  BY <1>3 DEF StopAdmission, AtomicsType, MainType, MainPcs
<1>4. CASE StopWorker
  BY <1>4 DEF StopWorker, AtomicsType, MainType, MainPcs
<1>5. CASE StopRelease
  BY <1>5 DEF StopRelease, WorkerType, MainType, WorkerPcs, Leaving, MainPcs
<1>6. CASE Loop
  BY <1>6 DEF Loop, LoopDone, MainType, MainPcs
<1>7. CASE Delete
  BY <1>7 DEF Delete, NoQueue, NoWorker, Idle, WorkerType, QueueType, MainType, WorkerPcs,
     Leaving, MainPcs
<1>8. CASE LoopChecks
  BY <1>8 DEF LoopChecks, Outlived, MainType, MainPcs
<1>9. CASE LoopStopping
  <2>1. worker' \in WorkerType /\ worker'.pc = worker.pc
    BY <1>9, WokenTyped DEF LoopStopping, WokenAtStop
  <2>2. main' \in MainType
    BY <1>9 DEF LoopStopping, MainType, MainPcs
  <2>3. UNCHANGED <<atomics, queue, point, held, producer, env, history>>
    BY <1>9 DEF LoopStopping
  <2> QED
    BY <2>1, <2>2, <2>3
<1>10. CASE LoopDeadline
  <2>1. worker' \in WorkerType /\ worker'.pc = worker.pc
    BY <1>10, WokenTyped DEF LoopDeadline
  <2>2. main' \in MainType
    BY <1>10 DEF LoopDeadline, MainType, MainPcs
  <2>3. atomics' \in AtomicsType /\ atomics'.writers = atomics.writers
    BY <1>10 DEF LoopDeadline, AtomicsType
  <2>4. UNCHANGED <<queue, point, held, producer, env, history>>
    BY <1>10 DEF LoopDeadline
  <2> QED
    BY <2>1, <2>2, <2>3, <2>4
<1>11. CASE LoopRegister
  <2>1. main' \in MainType
    BY <1>11 DEF LoopRegister, MainType, MainPcs
  <2>2. held' \in BOOLEAN
    BY <1>11 DEF LoopRegister
  <2>3. UNCHANGED <<atomics, queue, point, worker, producer, env, history>>
    BY <1>11 DEF LoopRegister
  <2> QED
    BY <2>1, <2>2, <2>3
<1>12. CASE LoopOpen
  <2>1. atomics' \in AtomicsType /\ atomics'.writers = atomics.writers
    BY <1>12 DEF LoopOpen, AtomicsType
  <2>2. history' \in HistoryType
    BY <1>12 DEF LoopOpen, HistoryType
  <2>3. main' \in MainType
    BY <1>12 DEF LoopOpen, MainType, MainPcs
  <2>4. UNCHANGED <<queue, point, held, worker, producer, env>>
    BY <1>12 DEF LoopOpen
  <2> QED
    BY <2>1, <2>2, <2>3, <2>4
<1> QED
  BY <1>1, <1>2, <1>3, <1>4, <1>5, <1>6, <1>7, <1>8, <1>9, <1>10, <1>11, <1>12 DEF
     MainStep

\* The steps of the producer keep the types.
LEMMA ProducerTyped ==
    ASSUME Typed, (\E p \in Points, f \in Formats : Call(p, f)) \/ ProducerStep
    PROVE  Typed'
<1> USE CaptureAssumption
    DEF Typed, TypeOK, WritersExact, Framed, Filled, Fetched, CountedPcs,
        ProducerAt, ProducerGoes, ProducerUnchanged, Exists, Woken
<1>1. CASE \E p \in Points, f \in Formats : Call(p, f)
  <2>1. PICK p \in Points, f \in Formats : Call(p, f)
    BY <1>1
  <2>2. [point |-> p, session |-> env.session, format |-> f] \in Frames
    BY DEF Frames, EnvType
  <2>3. producer' = [pc |-> "called", record |-> None,
                     frame |-> [point |-> p, session |-> env.session, format |-> f]]
    BY <2>1 DEF Call, Out
  <2>4. producer' \in ProducerType /\ producer'.frame \in Frames
    BY <2>2, <2>3 DEF ProducerType, ProducerPcs
  <2>5. history' \in HistoryType
    <3>1. history' = [history EXCEPT !.calls = history.calls + 1]
      BY <2>1 DEF Call
    <3> QED
      BY <3>1 DEF HistoryType
  <2>6. UNCHANGED <<atomics, queue, point, held, main, worker, env>> /\ producer.pc = "out"
    BY <2>1 DEF Call
  <2> QED
    BY <2>3, <2>4, <2>5, <2>6
<1>2. CASE Screen
  BY <1>2 DEF Screen, Out, ProducerType, ProducerPcs
<1>3. CASE MuteCloses
  BY <1>3 DEF MuteCloses, AtomicsType, ProducerType, ProducerPcs
<1>4. CASE MuteStops
  BY <1>4 DEF MuteStops, Out, AtomicsType, ProducerType, ProducerPcs
<1>5. CASE Enter
  BY <1>5 DEF Enter, AtomicsType, ProducerType, ProducerPcs
<1>6. CASE Recheck
  BY <1>6 DEF Recheck, Admitted, ProducerType, ProducerPcs
<1>7. CASE Keep
  <2> DEFINE frame == producer.frame
             record == [point |-> frame.point, session |-> frame.session, format |-> frame.format,
                        sequence |-> Known.sequence, dropped |-> Known.drops]
  <2>1. frame \in Frames /\ frame.point \in Points /\ frame.session \in Sessions
        /\ frame.format \in Formats
    BY <1>7 DEF Keep, Frames
  <2>2. Known.sequence \in Nat /\ Known.drops \in Nat
    BY <2>1 DEF Known, PointType
  <2>3. record \in Records
    BY <2>1, <2>2 DEF Records
  <2>4. producer' \in ProducerType /\ producer'.pc = "holding" /\ producer'.frame = frame
        /\ producer'.record = record
    BY <1>7, <2>3 DEF Keep, ProducerType, ProducerPcs
  <2>5. atomics' \in AtomicsType /\ atomics'.writers = atomics.writers
    BY <1>7, <2>1 DEF Keep, Bound, AtomicsType
  <2>6. point' \in PointType
    BY <1>7, <2>1, CountedTyped DEF Keep
  <2>7. queue' \in QueueType /\ queue'.items = queue.items
    BY <1>7 DEF Keep, QueueType
  <2>8. UNCHANGED <<held, main, worker, env, history>> /\ producer.pc = "inside"
    BY <1>7 DEF Keep
  <2> QED
    BY <2>1, <2>3, <2>4, <2>5, <2>6, <2>7, <2>8
<1>8. CASE Drop
  <2>1. producer.frame \in Frames /\ producer.frame.session \in Sessions
    BY <1>8 DEF Drop, Frames
  <2>2. producer' \in ProducerType /\ producer'.pc = "waking" /\ producer'.frame = producer.frame
    BY <1>8 DEF Drop, ProducerType, ProducerPcs
  <2>3. atomics' \in AtomicsType /\ atomics'.writers = atomics.writers
    BY <1>8, <2>1 DEF Drop, Bound, AtomicsType
  <2>4. point' \in PointType
    BY <1>8, <2>1, CountedTyped DEF Drop
  <2>5. UNCHANGED <<queue, held, main, worker, env, history>> /\ producer.pc = "inside"
    BY <1>8 DEF Drop
  <2> QED
    BY <2>1, <2>2, <2>3, <2>4, <2>5
<1>9. CASE Complete
  <2>1. queue.items \in Seq(Records) /\ producer.record \in Records
    BY <1>9 DEF Complete, QueueType
  <2>2. Append(queue.items, producer.record) \in Seq(Records)
        /\ Append(queue.items, producer.record) # <<>>
    BY <2>1, AppendProperties
  <2>3. queue' \in QueueType /\ queue'.items # <<>>
    BY <1>9, <2>2 DEF Complete, QueueType
  <2>4. producer' \in ProducerType /\ producer'.pc = "waking" /\ producer'.frame = producer.frame
    BY <1>9 DEF Complete, ProducerType, ProducerPcs
  <2>5. UNCHANGED <<atomics, point, held, main, worker, env, history>> /\ producer.pc = "holding"
    BY <1>9 DEF Complete
  <2> QED
    BY <2>3, <2>4, <2>5
<1>10. CASE Wake
  BY <1>10 DEF Wake, WorkerType, ProducerType, WorkerPcs, Leaving, ProducerPcs
<1>11. CASE Reject
  BY <1>11 DEF Reject, Bound, Known, Mismatch, Frames, AtomicsType, ProducerType,
     ProducerPcs
<1>12. CASE Rejected
  BY <1>12 DEF Rejected, RejectStops, AtomicsType, ProducerType, ProducerPcs
<1>13. CASE Leave
  BY <1>13 DEF Leave, Out, AtomicsType, ProducerType, ProducerPcs
<1> QED
  BY <1>1, <1>2, <1>3, <1>4, <1>5, <1>6, <1>7, <1>8, <1>9, <1>10, <1>11, <1>12, <1>13 DEF
     ProducerStep

\* The steps of the worker keep the types.
LEMMA WorkerTyped == ASSUME Typed, WorkerStep PROVE Typed'
<1> USE CaptureAssumption
    DEF Typed, TypeOK, WritersExact, Framed, Filled, Fetched, CountedPcs,
        WorkerAt, WorkerGoes, WorkerUnchanged
<1>1. CASE Connect
  <2>1. atomics' \in AtomicsType /\ atomics'.writers = atomics.writers
    BY <1>1 DEF Connect, AtomicsType
  <2>2. worker' \in WorkerType /\ worker'.pc # "sending"
    BY <1>1 DEF Connect, WorkerType, WorkerPcs
  <2>3. UNCHANGED <<queue, point, held, main, producer, env, history>>
    BY <1>1 DEF Connect
  <2> QED
    BY <2>1, <2>2, <2>3
<1>2. CASE Serve
  BY <1>2 DEF Serve, WorkerType, WorkerPcs, Leaving
<1>3. CASE AwaitRecord
  BY <1>3 DEF AwaitRecord, WorkerType, WorkerPcs, Leaving
<1>4. CASE Send
  <2>1. queue.items \in Seq(Records) /\ queue.items # <<>>
    BY <1>4 DEF Send, QueueType
  <2>2. Tail(queue.items) \in Seq(Records) /\ Head(queue.items) \in Records
    BY <2>1
  <2>3. queue' \in QueueType
    BY <1>4, <2>2 DEF Send, QueueType
  <2>4. history' \in HistoryType
    <3>1. history.sent \in Seq(Records)
      BY DEF HistoryType
    <3>2. Append(history.sent, Head(queue.items)) \in Seq(Records)
      BY <2>2, <3>1
    <3> QED
      BY <1>4, <3>2 DEF Send, HistoryType
  <2>5. worker' \in WorkerType /\ worker'.pc # "sending"
    BY <1>4 DEF Send, WorkerType, WorkerPcs
  <2>6. UNCHANGED <<atomics, point, held, main, producer, env>>
    BY <1>4 DEF Send
  <2> QED
    BY <2>3, <2>4, <2>5, <2>6
<1>5. CASE CloseAdmission
  BY <1>5 DEF CloseAdmission, AtomicsType, WorkerType, WorkerPcs, Leaving
<1>6. CASE CloseSocket
  BY <1>6 DEF CloseSocket, AtomicsType, WorkerType, WorkerPcs, Leaving
<1>7. CASE Drain
  BY <1>7 DEF Drain, WorkerType, WorkerPcs, Leaving
<1>8. CASE AwaitWriters
  BY <1>8 DEF AwaitWriters, WorkerType, WorkerPcs, Leaving
<1>9. CASE Park
  <2>1. queue' \in QueueType
    <3>1. <<>> \in Seq(Records)
      OBVIOUS
    <3>2. queue' = [queue EXCEPT !.items = <<>>]
      BY <1>9 DEF Park
    <3> QED
      BY <3>1, <3>2 DEF QueueType
  <2>2. atomics' \in AtomicsType /\ atomics'.writers = atomics.writers
    BY <1>9 DEF Park, AtomicsType
  <2>3. worker' \in WorkerType /\ worker'.pc # "sending"
    BY <1>9 DEF Park, WorkerType, WorkerPcs, Leaving
  <2>4. UNCHANGED <<point, held, main, producer, env, history>>
    BY <1>9 DEF Park
  <2> QED
    BY <2>1, <2>2, <2>3, <2>4
<1> QED
  BY <1>1, <1>2, <1>3, <1>4, <1>5, <1>6, <1>7, <1>8, <1>9 DEF WorkerStep

\* The steps of the rest of the device keep the types.
LEMMA EnvTyped == ASSUME Typed, EnvStep PROVE Typed'
<1> USE CaptureAssumption
    DEF Typed, TypeOK, WritersExact, Framed, Filled, Fetched, CountedPcs,
        Exists, EnvUnchanged
<1>1. CASE Expire
  BY <1>1 DEF Expire, EnvType
<1>2. CASE NextSession
  BY <1>2 DEF NextSession, Sessions, EnvType
<1> QED
  BY <1>1, <1>2 DEF EnvStep

\* A step of the system, or none.
LEMMA TypedStep == Typed /\ [Next]_vars => Typed'
<1> SUFFICES ASSUME Typed, [Next]_vars PROVE Typed'
  OBVIOUS
<1>1. CASE Start \/ Stop \/ MainStep
  BY <1>1, MainTyped
<1>2. CASE (\E p \in Points, f \in Formats : Call(p, f)) \/ ProducerStep
  BY <1>2, ProducerTyped
<1>3. CASE WorkerStep
  BY <1>3, WorkerTyped
<1>4. CASE EnvStep
  BY <1>4, EnvTyped
<1>5. CASE UNCHANGED vars
  BY <1>5 DEF vars, Typed, TypeOK, WritersExact, Framed, Filled, Fetched
<1> QED
  BY <1>1, <1>2, <1>3, <1>4, <1>5 DEF Next

\* Every reachable state is well typed, with the strengthening.
LEMMA TypedAlways == Spec => []Typed
<1> QED
  BY TypedInit, TypedStep, PTL DEF Spec

\* Every reachable state is well typed, and writers_ is never decremented below
\* zero, whichever way the producer leaves on_capture_frame().
THEOREM Typing == Spec => []TypeOK
<1>1. Typed => TypeOK
  BY DEF Typed
<1> QED
  BY <1>1, TypedAlways, PTL

----------------------------------------------------------------------------
(* The protocol that keeps the queue for the producer.                     *)

\* Main only deletes a worker that has parked, and only goes through loop() with
\* a worker; the queue lives as long as the worker does.
Owned ==
    /\ worker.pc = "none" => /\ main.pc \in {"idle", "stop", "stopping", "releasing"}
                             /\ main.then = "idle"
    /\ main.pc = "delete" \/ main.then = "delete" => worker.pc = "parked"
    /\ atomics.done => worker.pc \in {"parked", "none"}
    /\ worker.pc # "none" => queue.exists

\* Once the worker has closed admission it stays closed.
Shut == worker.pc \in Leaving \cup {"none"} => ~atomics.active

\* What stop() takes back on the way to the deletion is not handed out again.
Cleared ==
    /\ worker.pc = "none" => ~held /\ ~queue.exists /\ ~atomics.active
    /\ main.pc = "delete" => ~held
    /\ \/ main.pc = "delete"
       \/ main.then = "delete" /\ main.pc \in {"stopping", "releasing"}
       => ~atomics.active

Protocol == Owned /\ Cleared /\ (history.late \/ Shut) /\ QueueHeldInTime

\* The record fields a step needs to know.
Fields ==
    /\ atomics = [active |-> atomics.active, stopping |-> atomics.stopping,
                  connected |-> atomics.connected, done |-> atomics.done,
                  writers |-> atomics.writers, bound |-> atomics.bound]
    /\ queue = [exists |-> queue.exists, items |-> queue.items, reserved |-> queue.reserved]
    /\ main = [pc |-> main.pc, then |-> main.then]
    /\ worker = [pc |-> worker.pc, notified |-> worker.notified]
    /\ producer = [pc |-> producer.pc, frame |-> producer.frame, record |-> producer.record]
    /\ history = [sent |-> history.sent, late |-> history.late,
                  captures |-> history.captures, calls |-> history.calls]
    /\ history.late \in BOOLEAN /\ atomics.active \in BOOLEAN

\* A well-typed state has these fields.
LEMMA FieldsKnown == Typed => Fields
<1> QED
  BY DEF Typed, TypeOK, AtomicsType, QueueType, MainType, WorkerType, ProducerType,
     HistoryType, Fields

\* At the start there is neither a worker nor a producer.
LEMMA ProtocolInit == Init => Protocol
<1> QED
  BY DEF Init, Protocol, Owned, Cleared, Shut, QueueHeldInTime, QueueHeld, Inside, Idle,
     NoQueue, NoWorker, Out

\* The steps of main keep the protocol.
LEMMA MainProtocol ==
    ASSUME Fields, WritersExact, Protocol,
           Start \/ Stop \/ MainStep
    PROVE  Protocol'
<1> USE DEF Fields, Protocol, Owned, Cleared, Shut, QueueHeldInTime, QueueHeld, Inside,
            MainAt, MainUnchanged, Goto, CallStop, Exists, Woken
<1>1. CASE Start
  BY <1>1 DEF Start, Renewed, EmptyQueue
<1>2. CASE Stop
  BY <1>2 DEF Stop
<1>3. CASE StopAdmission
  BY <1>3 DEF StopAdmission
<1>4. CASE StopWorker
  BY <1>4 DEF StopWorker
<1>5. CASE StopRelease
  BY <1>5 DEF StopRelease
<1>6. CASE Loop
  BY <1>6 DEF Loop, LoopDone
<1>7. CASE Delete
  BY <1>7 DEF Delete, NoQueue, NoWorker, Idle, Leaving
<1>8. CASE LoopChecks
  BY <1>8 DEF LoopChecks
<1>9. CASE LoopStopping
  BY <1>9 DEF LoopStopping, WokenAtStop
<1>10. CASE LoopDeadline
  BY <1>10 DEF LoopDeadline
<1>11. CASE LoopRegister
  BY <1>11 DEF LoopRegister
<1>12. CASE LoopOpen
  BY <1>12 DEF LoopOpen, Leaving
<1> QED
  BY <1>1, <1>2, <1>3, <1>4, <1>5, <1>6, <1>7, <1>8, <1>9, <1>10, <1>11, <1>12 DEF
     MainStep

\* The steps of the producer keep the protocol.
LEMMA ProducerProtocol ==
    ASSUME Fields, WritersExact, Protocol,
           (\E p \in Points, f \in Formats : Call(p, f)) \/ ProducerStep
    PROVE  Protocol'
<1> USE DEF Fields, Protocol, Owned, Cleared, Shut, QueueHeldInTime, QueueHeld, Inside,
            ProducerAt, ProducerGoes, ProducerUnchanged, Exists, Woken
<1>1. CASE \E p \in Points, f \in Formats : Call(p, f)
  BY <1>1 DEF Call, Out
<1>2. CASE Screen
  BY <1>2 DEF Screen, Out
<1>3. CASE MuteCloses
  BY <1>3 DEF MuteCloses
<1>4. CASE MuteStops
  BY <1>4 DEF MuteStops, Out
<1>5. CASE Enter
  BY <1>5 DEF Enter
<1>6. CASE Recheck
  BY <1>6 DEF Recheck, Admitted, Leaving
<1>7. CASE Keep
  BY <1>7 DEF Keep
<1>8. CASE Drop
  BY <1>8 DEF Drop
<1>9. CASE Complete
  BY <1>9 DEF Complete
<1>10. CASE Wake
  BY <1>10 DEF Wake
<1>11. CASE Reject
  BY <1>11 DEF Reject
<1>12. CASE Rejected
  BY <1>12 DEF Rejected, RejectStops
<1>13. CASE Leave
  BY <1>13 DEF Leave, Out
<1> QED
  BY <1>1, <1>2, <1>3, <1>4, <1>5, <1>6, <1>7, <1>8, <1>9, <1>10, <1>11, <1>12, <1>13 DEF
     ProducerStep

\* The steps of the worker keep the protocol.
LEMMA WorkerProtocol ==
    ASSUME Fields, WritersExact, Protocol,
           WorkerStep
    PROVE  Protocol'
<1> USE DEF Fields, Protocol, Owned, Cleared, Shut, QueueHeldInTime, QueueHeld, Inside,
            WorkerAt, WorkerGoes, WorkerUnchanged
<1>1. CASE Connect
  BY <1>1 DEF Connect, Leaving
<1>2. CASE Serve
  BY <1>2 DEF Serve, Leaving
<1>3. CASE AwaitRecord
  BY <1>3 DEF AwaitRecord, Leaving
<1>4. CASE Send
  BY <1>4 DEF Send, Leaving
<1>5. CASE CloseAdmission
  BY <1>5 DEF CloseAdmission, Leaving
<1>6. CASE CloseSocket
  BY <1>6 DEF CloseSocket, Leaving
<1>7. CASE Drain
  BY <1>7 DEF Drain, Leaving, WritersExact, CountedPcs
<1>8. CASE AwaitWriters
  BY <1>8 DEF AwaitWriters, Leaving
<1>9. CASE Park
  BY <1>9 DEF Park, Leaving
<1> QED
  BY <1>1, <1>2, <1>3, <1>4, <1>5, <1>6, <1>7, <1>8, <1>9 DEF WorkerStep

\* The steps of the rest of the device keep the protocol.
LEMMA EnvProtocol ==
    ASSUME Fields, WritersExact, Protocol,
           EnvStep
    PROVE  Protocol'
<1> USE DEF Fields, Protocol, Owned, Cleared, Shut, QueueHeldInTime, QueueHeld, Inside,
            Exists, EnvUnchanged
<1>1. CASE Expire
  BY <1>1 DEF Expire
<1>2. CASE NextSession
  BY <1>2 DEF NextSession
<1> QED
  BY <1>1, <1>2 DEF EnvStep

\* A step of the system, or none.
LEMMA ProtocolStep == Typed /\ Protocol /\ [Next]_vars => Protocol'
<1> SUFFICES ASSUME Typed, Protocol, [Next]_vars PROVE Protocol'
  OBVIOUS
<1>1. Fields /\ WritersExact
  BY FieldsKnown DEF Typed
<1>2. CASE Start \/ Stop \/ MainStep
  BY <1>1, <1>2, MainProtocol
<1>3. CASE (\E p \in Points, f \in Formats : Call(p, f)) \/ ProducerStep
  BY <1>1, <1>3, ProducerProtocol
<1>4. CASE WorkerStep
  BY <1>1, <1>4, WorkerProtocol
<1>5. CASE EnvStep
  BY <1>1, <1>5, EnvProtocol
<1>6. CASE UNCHANGED vars
  BY <1>6 DEF vars, Protocol, Owned, Cleared, Shut, QueueHeldInTime, QueueHeld, Inside
<1> QED
  BY <1>2, <1>3, <1>4, <1>5, <1>6 DEF Next

\* The protocol is kept in every reachable state.
LEMMA ProtocolAlways == Spec => []Protocol
<1> QED
  BY TypedAlways, ProtocolInit, ProtocolStep, PTL DEF Spec

\* While on_capture_frame() uses the queue and the worker's handle, the worker has
\* not emptied the queue and main has deleted neither, unless admission was opened
\* after the worker had closed it: two atomics, never read together, are enough.
THEOREM Reclamation == Spec => []QueueHeldInTime
<1>1. Protocol => QueueHeldInTime
  BY DEF Protocol
<1> QED
  BY <1>1, ProtocolAlways, PTL

\* Once main has deleted the worker, nothing of the capture is left.
THEOREM Release == Spec => []Released
<1>1. Protocol => Released
  BY DEF Protocol, Cleared, Released, MainAt, Exists
<1> QED
  BY <1>1, ProtocolAlways, PTL

----------------------------------------------------------------------------
(* The stream the peer gets.                                               *)

\* The count is a number.
LEMMA BeforeNat ==
    ASSUME NEW s \in Seq(Records), NEW n \in 0 .. Len(s), NEW p
    PROVE  Before(s, n, p) \in Nat
<1>1. IsFiniteSet(1 .. n) /\ {k \in 1 .. n : s[k].point = p} \subseteq 1 .. n
  BY FS_Interval, LenProperties
<1>2. IsFiniteSet({k \in 1 .. n : s[k].point = p})
  BY <1>1, FS_Subset
<1> QED
  BY <1>2, FS_CardinalityType DEF Before

\* A record at the end of a stream is counted after what went before, and changes no earlier count.
LEMMA BeforeAppend ==
    ASSUME NEW s \in Seq(Records), NEW r \in Records, NEW p
    PROVE  /\ \A n \in 0 .. Len(s) : /\ Before(s, n, p) \in Nat
                                     /\ Before(Append(s, r), n, p) = Before(s, n, p)
           /\ Before(Append(s, r), Len(s) + 1, p) =
                  Before(s, Len(s), p) + (IF r.point = p THEN 1 ELSE 0)
<1> DEFINE of(stream, n) == {k \in 1 .. n : stream[k].point = p}
           t == Append(s, r)
<1>1. Len(s) \in Nat /\ (\A i \in 1 .. Len(s) : t[i] = s[i]) /\ t[Len(s) + 1] = r
  BY AppendProperties
<1>2. ASSUME NEW n \in 0 .. Len(s)
      PROVE  of(t, n) = of(s, n) /\ IsFiniteSet(of(s, n)) /\ Cardinality(of(s, n)) \in Nat
  <2>1. of(t, n) = of(s, n)
    BY <1>1
  <2>2. IsFiniteSet(1 .. n) /\ of(s, n) \subseteq 1 .. n
    BY FS_Interval
  <2>3. IsFiniteSet(of(s, n))
    BY <2>2, FS_Subset
  <2> QED
    BY <2>1, <2>3, FS_CardinalityType
<1>3. Len(s) \in 0 .. Len(s)
  BY <1>1
<1>4. CASE r.point = p
  <2>1. of(t, Len(s) + 1) = of(s, Len(s)) \cup {Len(s) + 1} /\ Len(s) + 1 \notin of(s, Len(s))
    BY <1>1, <1>4
  <2>2. Cardinality(of(s, Len(s)) \cup {Len(s) + 1}) = Cardinality(of(s, Len(s))) + 1
    BY <1>2, <1>3, <2>1, FS_AddElement
  <2> QED
    BY <1>2, <1>4, <2>1, <2>2 DEF Before
<1>5. CASE r.point # p
  <2>1. of(t, Len(s) + 1) = of(s, Len(s))
    BY <1>1, <1>5
  <2>2. Cardinality(of(s, Len(s))) \in Nat
    BY <1>2, <1>3
  <2>3. Before(t, Len(s) + 1, p) = Before(s, Len(s), p) /\ Before(s, Len(s), p) \in Nat
    BY <2>1, <2>2 DEF Before
  <2>4. \A n \in 0 .. Len(s) : Before(s, n, p) \in Nat /\ Before(t, n, p) = Before(s, n, p)
    BY <1>2 DEF Before
  <2> QED
    BY <1>5, <2>3, <2>4
<1> QED
  BY <1>4, <1>5

\* A record numbered by what went before it can be accounted for.
LEMMA AccountedAppend ==
    ASSUME NEW s \in Seq(Records), NEW r \in Records, Accounted(s),
           r.sequence = Before(s, Len(s), r.point) + r.dropped
    PROVE  Accounted(Append(s, r))
<1> DEFINE t == Append(s, r)
<1>1. Len(s) \in Nat /\ Len(t) = Len(s) + 1 /\ (\A i \in 1 .. Len(s) : t[i] = s[i]) /\ t[Len(s) + 1] = r
  BY AppendProperties
<1>2. SUFFICES ASSUME NEW i \in 1 .. Len(t)
               PROVE  t[i].sequence = Before(t, i - 1, t[i].point) + t[i].dropped
  BY DEF Accounted
<1>3. i - 1 \in 0 .. Len(s)
  BY <1>1
<1>4. Before(t, i - 1, t[i].point) = Before(s, i - 1, t[i].point)
  BY <1>3, BeforeAppend
<1>5. CASE i \in 1 .. Len(s)
  BY <1>1, <1>4, <1>5 DEF Accounted
<1>6. CASE i = Len(s) + 1
  <2>1. i - 1 = Len(s) /\ t[i] = r
    BY <1>1, <1>6
  <2> QED
    BY <1>4, <2>1
<1> QED
  BY <1>1, <1>5, <1>6

\* The beginning of a stream that can be accounted for can be accounted for.
LEMMA AccountedPrefix ==
    ASSUME NEW s \in Seq(Records), NEW t \in Seq(Records), Accounted(s \o t)
    PROVE  Accounted(s)
<1> DEFINE u == s \o t
<1>1. /\ Len(s) \in Nat /\ Len(t) \in Nat /\ Len(u) = Len(s) + Len(t)
      /\ \A i \in 1 .. Len(s) : i \in 1 .. Len(u) /\ u[i] = s[i]
  BY ConcatProperties
<1>2. SUFFICES ASSUME NEW i \in 1 .. Len(s)
               PROVE  s[i].sequence = Before(s, i - 1, s[i].point) + s[i].dropped
  BY DEF Accounted
<1>3. u[i] = s[i] /\ u[i].sequence = Before(u, i - 1, u[i].point) + u[i].dropped
  BY <1>1 DEF Accounted
<1>4. {k \in 1 .. i - 1 : u[k].point = s[i].point} = {k \in 1 .. i - 1 : s[k].point = s[i].point}
  BY <1>1
<1> QED
  BY <1>3, <1>4 DEF Before

\* What is sent and what is queued as one stream: a record is added at its end.
LEMMA StreamAppend ==
    ASSUME NEW s \in Seq(Records), NEW t \in Seq(Records), NEW r \in Records
    PROVE  s \o Append(t, r) = Append(s \o t, r) /\ s \o t \in Seq(Records)
<1>1. Append(t, r) = t \o <<r>> /\ <<r>> \in Seq(Records) /\ s \o t \in Seq(Records)
  BY AppendIsConcat, ConcatProperties
<1>2. (s \o t) \o <<r>> = s \o (t \o <<r>>)
  BY <1>1, ConcatAssociative
<1>3. Append(s \o t, r) = (s \o t) \o <<r>>
  BY <1>1, AppendIsConcat
<1> QED
  BY <1>1, <1>2, <1>3

\* The front of what is queued goes to the end of what is sent.
LEMMA StreamShift ==
    ASSUME NEW s \in Seq(Records), NEW t \in Seq(Records), t # <<>>
    PROVE  Append(s, Head(t)) \o Tail(t) = s \o t
<1> DEFINE h == Head(t)
           u == Append(s, h)
           v == Tail(t)
<1>1. h \in Records /\ v \in Seq(Records) /\ Len(v) = Len(t) - 1 /\ (\A i \in 1 .. Len(v) : v[i] = t[i + 1])
      /\ h = t[1] /\ Len(t) \in Nat \ {0} /\ Len(s) \in Nat
  BY HeadTailProperties, LenProperties, EmptySeq
<1>2. u \in Seq(Records) /\ Len(u) = Len(s) + 1 /\ (\A i \in 1 .. Len(s) : u[i] = s[i]) /\ u[Len(s) + 1] = h
  BY <1>1, AppendProperties
<1> HIDE DEF h, u, v
<1>3. /\ u \o v \in Seq(Records) /\ Len(u \o v) = Len(u) + Len(v)
      /\ \A i \in 1 .. Len(u) + Len(v) : (u \o v)[i] = IF i <= Len(u) THEN u[i] ELSE v[i - Len(u)]
  BY <1>1, <1>2, ConcatProperties
<1>4. /\ s \o t \in Seq(Records) /\ Len(s \o t) = Len(s) + Len(t)
      /\ \A i \in 1 .. Len(s) + Len(t) : (s \o t)[i] = IF i <= Len(s) THEN s[i] ELSE t[i - Len(s)]
  BY ConcatProperties
<1>5. Len(u \o v) = Len(s \o t)
  BY <1>1, <1>2, <1>3, <1>4
<1>6. ASSUME NEW i \in 1 .. Len(u \o v) PROVE (u \o v)[i] = (s \o t)[i]
  <2>1. CASE i <= Len(s)
    BY <1>1, <1>2, <1>3, <1>4, <2>1
  <2>2. CASE i = Len(s) + 1
    BY <1>1, <1>2, <1>3, <1>4, <2>2
  <2>3. CASE i > Len(s) + 1
    <3>1. (u \o v)[i] = v[i - Len(u)] /\ i - Len(u) \in 1 .. Len(v) /\ i - Len(u) + 1 = i - Len(s)
      BY <1>1, <1>2, <1>3, <2>3
    <3>2. (s \o t)[i] = t[i - Len(s)]
      BY <1>1, <1>2, <1>3, <1>4, <2>3
    <3> QED
      BY <1>1, <3>1, <3>2
  <2> QED
    BY <1>1, <1>2, <1>3, <2>1, <2>2, <2>3
<1>7. u \o v = s \o t
  BY <1>3, <1>4, <1>5, <1>6, SeqEqual
<1> QED
  BY <1>7 DEF h, u, v

\* Of the binding and the format of its point.
Fits(r) == r.session = atomics.bound /\ point[r.point].format = r.format
Stream == history.sent \o queue.items
Alive == worker.pc \in {"connecting", "serving", "waiting", "sending"}
Reserved(p) == IF producer.pc = "holding" /\ producer.record.point = p THEN 1 ELSE 0

\* All that is sent and queued is of the session the capture is bound to and of its point's format.
OneInv ==
    /\ worker.pc = "none" => queue = NoQueue
    /\ \A i \in 1 .. Len(history.sent) : Fits(history.sent[i])
    /\ \A i \in 1 .. Len(queue.items) : Fits(queue.items[i])
    /\ producer.pc = "holding" => Fits(producer.record)

\* What is sent can be accounted for, and until the worker leaves so can what is queued and what is
\* being written; the counters of a point are ahead by what the queue has not got.
GapInv ==
    /\ Accounted(history.sent)
    /\ Alive =>
        /\ Accounted(Stream)
        /\ producer.pc = "holding" =>
               producer.record.sequence =
                   Before(Stream, Len(Stream), producer.record.point) + producer.record.dropped
        /\ \A p \in Points :
               point[p].sequence = Before(Stream, Len(Stream), p) + Reserved(p) + point[p].drops

StreamInv == history.late \/ (OneInv /\ GapInv)

\* A step that touches neither the stream nor what it is counted by.
LEMMA StreamStays ==
    ASSUME Fields, StreamInv, history'.late = FALSE => history.late = FALSE,
           history'.sent = history.sent, point' = point,
           history.late \/ atomics'.bound = atomics.bound,
           queue'.items = queue.items, worker'.pc = "none" => worker.pc = "none" /\ queue' = queue,
           Alive' => Alive,
           (producer.pc # "holding" /\ producer'.pc # "holding") \/ producer' = producer,
           history'.late \in BOOLEAN
    PROVE  StreamInv'
<1>1. CASE history'.late
  BY <1>1 DEF StreamInv
<1>2. CASE ~history'.late
  <2>1. OneInv /\ GapInv /\ ~history.late
    BY <1>2 DEF StreamInv, Fields
  <2>2. OneInv'
    BY <2>1 DEF OneInv, Fits
  <2>3. Stream' = Stream /\ \A p : Reserved(p)' = Reserved(p)
    BY DEF Stream, Reserved
  <2>4. /\ Accounted(history.sent)' <=> Accounted(history.sent)
        /\ Accounted(Stream)' <=> Accounted(Stream)
        /\ \A p : Before(Stream, Len(Stream), p)' = Before(Stream, Len(Stream), p)
    BY <2>3 DEF Accounted, Before
  <2>5. producer'.pc = "holding" =>
           Before(Stream, Len(Stream), producer.record.point)' = Before(Stream, Len(Stream), producer.record.point)
    BY <2>3 DEF Before
  <2>6. GapInv'
    BY <2>1, <2>3, <2>4, <2>5 DEF GapInv
  <2> QED
    BY <2>2, <2>6 DEF StreamInv
<1> QED
  BY <1>1, <1>2

\* The steps of main keep the stream; a new one is started empty.
LEMMA MainStream ==
    ASSUME Typed, Fields, Protocol, StreamInv, Start \/ Stop \/ MainStep
    PROVE  StreamInv'
<1> USE DEF Fields, MainAt, MainUnchanged, Goto, CallStop, Exists
<1>1. CASE Start
  <2>1. ~history.late /\ worker.pc = "none" /\ queue = NoQueue
    BY <1>1 DEF Start, StreamInv, OneInv
  <2>2. producer.pc # "holding" /\ producer' = producer
    BY <1>1, <2>1 DEF Start, Protocol, QueueHeldInTime, QueueHeld, Inside
  <2>3. queue'.items = <<>> /\ history'.sent = <<>> /\ point' = Unseen
        /\ (worker'.pc = "none" => queue' = NoQueue)
    BY <1>1, <2>1 DEF Start, EmptyQueue, NoQueue
  <2>4. Len(<<>>) = 0 /\ <<>> \o <<>> = <<>>
    OBVIOUS
  <2>5. OneInv'
    BY <2>2, <2>3, <2>4 DEF OneInv
  <2>6. \A p : Before(<<>>, 0, p) = 0
    <3>1. \A p : {k \in 1 .. 0 : <<>>[k].point = p} = {}
      OBVIOUS
    <3> QED
      BY <3>1, FS_EmptySet DEF Before
  <2>7. Stream' = <<>>
    BY <2>3, <2>4 DEF Stream
  <2>8. Accounted(<<>>)
    BY <2>4 DEF Accounted
  <2>9. \A p \in Points : point'[p].sequence = 0 /\ point'[p].drops = 0 /\ Reserved(p)' = 0
    BY <2>2, <2>3 DEF Unseen, Reserved
  <2>10. Accounted(history.sent)' /\ Accounted(Stream)'
    BY <2>3, <2>7, <2>8 DEF Accounted, Before
  <2>11. \A p \in Points : Before(Stream, Len(Stream), p)' = 0
    BY <2>4, <2>6, <2>7 DEF Before
  <2>12. GapInv'
    BY <2>2, <2>9, <2>10, <2>11 DEF GapInv
  <2> QED
    BY <2>5, <2>12 DEF StreamInv
<1>2. CASE Delete
  <2>1. UNCHANGED <<atomics, point, producer, history>> /\ worker'.pc = "none" /\ queue' = NoQueue
    BY <1>2 DEF Delete, NoWorker
  <2>2. queue'.items = <<>> /\ Len(<<>>) = 0 /\ ~Alive'
    BY <2>1 DEF NoQueue, Alive
  <2>3. CASE ~history.late
    <3>1. OneInv'
      BY <2>1, <2>2, <2>3 DEF StreamInv, OneInv, Fits
    <3>2. GapInv'
      BY <2>1, <2>2, <2>3 DEF StreamInv, GapInv, Accounted, Before
    <3> QED
      BY <3>1, <3>2 DEF StreamInv
  <2> QED
    BY <2>1, <2>3 DEF StreamInv
<1>3. CASE Stop \/ (MainStep /\ ~Delete)
  <2>1. /\ UNCHANGED <<queue, point, producer>> /\ history'.sent = history.sent
        /\ atomics'.bound = atomics.bound /\ worker'.pc = worker.pc
        /\ history'.late \in BOOLEAN /\ (history'.late = FALSE => history.late = FALSE)
    BY <1>3 DEF Stop, MainStep, StopAdmission, StopWorker, StopRelease, Loop, LoopDone, LoopChecks,
                LoopStopping, LoopDeadline, LoopRegister, LoopOpen, WokenAtStop, Woken
  <2> QED
    BY <2>1, StreamStays DEF Alive
<1> QED
  BY <1>1, <1>2, <1>3

\* A frame the producer counts or refuses: the capture is bound to its session, if it was not yet,
\* and its point to its format.
LEMMA BindsOnce ==
    ASSUME Typed, atomics'.bound = Bound, producer.frame \in Frames,
           point' = point \/ (~Mismatch /\ \E kept \in BOOLEAN : point' = Counted(kept)),
           NEW r \in Records, Fits(r)
    PROVE  Fits(r)'
<1>0. r.session \in Nat /\ r.point \in Points /\ r.format \in Formats /\ point \in PointType
      /\ producer.frame.point \in Points
  BY CaptureAssumption DEF Typed, TypeOK, Records, Frames, Sessions
<1>1. r.session = atomics'.bound
  BY <1>0, CaptureAssumption DEF Fits, Bound
<1>2. CASE point' = point
  BY <1>1, <1>2 DEF Fits
<1>3. CASE ~Mismatch /\ \E kept \in BOOLEAN : point' = Counted(kept)
  <2>1. PICK kept \in BOOLEAN : point' = Counted(kept)
    BY <1>3
  <2>2. CASE r.point # producer.frame.point
    <3>1. point'[r.point] = point[r.point]
      BY <1>0, <2>1, <2>2 DEF Counted, PointType
    <3> QED
      BY <1>1, <3>1 DEF Fits
  <2>3. CASE r.point = producer.frame.point
    <3>1. point'[r.point].format = producer.frame.format
      BY <1>0, <2>1, <2>3 DEF Counted, PointType
    <3>2. Known.format = r.format /\ r.format # None
      BY <1>0, <2>3, CaptureAssumption DEF Fits, Known
    <3>3. r.format = producer.frame.format
      BY <1>3, <3>2 DEF Mismatch
    <3> QED
      BY <1>1, <3>1, <3>3 DEF Fits
  <2> QED
    BY <2>2, <2>3
<1> QED
  BY <1>2, <1>3

\* What counting a frame does to the counters.
LEMMA CountedFields ==
    ASSUME point \in PointType, producer.frame \in Frames, NEW kept \in BOOLEAN, point' = Counted(kept)
    PROVE  /\ producer.frame.point \in Points
           /\ Known.sequence \in Nat /\ Known.drops \in Nat
           /\ point'[producer.frame.point] =
                  [format |-> producer.frame.format, sequence |-> Known.sequence + 1,
                   drops |-> IF kept THEN Known.drops ELSE Known.drops + 1]
           /\ \A p \in Points : p # producer.frame.point => point'[p] = point[p]
  BY DEF Counted, Known, PointType, Frames

\* The steps of the producer: a record it keeps is numbered by what the peer will have got before.
LEMMA ProducerStream ==
    ASSUME Typed, Fields, Protocol, StreamInv,
           (\E p \in Points, f \in Formats : Call(p, f)) \/ ProducerStep
    PROVE  StreamInv'
<1> USE DEF Fields, ProducerAt, ProducerGoes, ProducerUnchanged, Exists, Woken
<1>0. /\ queue.items \in Seq(Records) /\ history.sent \in Seq(Records) /\ point \in PointType
      /\ (producer.pc # "out" => producer.frame \in Frames)
      /\ (producer.pc = "holding" => producer.record \in Records)
  BY DEF Typed, TypeOK, QueueType, HistoryType, Framed, Filled
<1>1. /\ history'.sent = history.sent /\ history'.late = history.late /\ worker'.pc = worker.pc
      /\ Alive' = Alive
  <2>1. /\ history'.sent = history.sent /\ history'.late = history.late
    BY DEF ProducerStep, Call, Screen, MuteCloses, MuteStops, Enter, Recheck, Keep, Drop, Complete, Wake,
           Reject, Rejected, Leave
  <2>2. worker' = worker \/ worker' = Woken
    BY DEF ProducerStep, Call, Screen, MuteCloses, MuteStops, Enter, Recheck, Keep, Drop, Complete, Wake,
           Reject, Rejected, Leave
  <2> QED
    BY <2>1, <2>2 DEF Alive
<1>2. CASE history.late
  BY <1>1, <1>2 DEF StreamInv
<1>3. CASE (\E p \in Points, f \in Formats : Call(p, f)) \/ Screen \/ MuteCloses \/ MuteStops \/ Enter
           \/ Recheck \/ Wake \/ Rejected \/ Leave
  <2>1. UNCHANGED <<queue, point>> /\ producer.pc # "holding"
    BY <1>3 DEF Call, Screen, MuteCloses, MuteStops, Enter, Recheck, Wake, Rejected, Leave
  <2>2. producer'.pc # "holding"
    <3>1. CASE \E p \in Points, f \in Formats : Call(p, f)
      BY <3>1 DEF Call, Out
    <3>2. CASE Screen \/ MuteStops \/ Leave
      BY <3>2 DEF Screen, MuteStops, Leave, Out
    <3>3. CASE MuteCloses \/ Enter \/ Recheck \/ Wake \/ Rejected
      BY <3>3 DEF MuteCloses, Enter, Recheck, Wake, Rejected
    <3> QED
      BY <1>3, <3>1, <3>2, <3>3
  <2>3. atomics'.bound = atomics.bound
    BY <1>3 DEF Call, Screen, MuteCloses, MuteStops, Enter, Recheck, Wake, Rejected, RejectStops, Leave
  <2> QED
    BY <1>1, <2>1, <2>2, <2>3, StreamStays
<1> SUFFICES ASSUME ~history.late, OneInv, GapInv, Reject \/ Keep \/ Drop \/ Complete
             PROVE  OneInv' /\ GapInv'
  BY <1>2, <1>3 DEF StreamInv, ProducerStep
<1>4. worker.pc # "none"
  BY DEF Protocol, QueueHeldInTime, QueueHeld, Inside, Reject, Keep, Drop, Complete
<1>5. ASSUME producer.frame \in Frames, atomics'.bound = Bound,
             point' = point \/ (~Mismatch /\ \E kept \in BOOLEAN : point' = Counted(kept)),
             queue'.items = queue.items
      PROVE  /\ \A i \in 1 .. Len(history.sent) : Fits(history.sent[i])'
             /\ \A i \in 1 .. Len(queue.items) : Fits(queue.items[i])'
  <2>1. /\ \A i \in 1 .. Len(history.sent) : history.sent[i] \in Records /\ Fits(history.sent[i])
        /\ \A i \in 1 .. Len(queue.items) : queue.items[i] \in Records /\ Fits(queue.items[i])
    BY <1>0 DEF OneInv
  <2>2. history'.sent = history.sent /\ queue'.items = queue.items
    BY <1>1, <1>5
  <2>3. \A r \in Records : Fits(r) => (r.session = atomics'.bound /\ point'[r.point].format = r.format)
    BY <1>5, BindsOnce DEF Fits
  <2> QED
    BY <2>1, <2>2, <2>3 DEF Fits
<1>6. CASE Reject
  <2>1. /\ UNCHANGED <<queue, point>> /\ producer.pc = "inside" /\ producer'.pc = "rejecting"
        /\ atomics'.bound = Bound
    BY <1>6 DEF Reject
  <2>2. OneInv'
    BY <1>0, <1>1, <1>4, <1>5, <2>1 DEF OneInv
  <2>3. GapInv'
    <3>1. Stream' = Stream /\ \A p : Reserved(p)' = Reserved(p)
      BY <1>1, <2>1 DEF Stream, Reserved
    <3>2. /\ Accounted(history.sent)' <=> Accounted(history.sent)
          /\ Accounted(Stream)' <=> Accounted(Stream)
          /\ \A p : Before(Stream, Len(Stream), p)' = Before(Stream, Len(Stream), p)
      BY <1>1, <3>1 DEF Accounted, Before
    <3> QED
      BY <1>1, <2>1, <3>1, <3>2 DEF GapInv
  <2> QED
    BY <2>2, <2>3
<1>7. CASE Keep \/ Drop
  <2> DEFINE frame == producer.frame
  <2>1. /\ producer.pc = "inside" /\ ~Mismatch /\ atomics'.bound = Bound /\ queue'.items = queue.items
        /\ frame \in Frames /\ (\E kept \in BOOLEAN : point' = Counted(kept))
        /\ worker'.pc # "none"
    BY <1>0, <1>1, <1>4, <1>7 DEF Keep, Drop
  <2>2. producer'.pc = "holding" => Keep /\ producer'.record =
               [point |-> frame.point, session |-> frame.session, format |-> frame.format,
                sequence |-> Known.sequence, dropped |-> Known.drops]
    BY <1>7 DEF Keep, Drop
  <2>3. producer'.pc = "holding" => Fits(producer.record)'
    <3>1. point'[frame.point].format = frame.format
      <4>1. PICK kept \in BOOLEAN : point' = Counted(kept)
        BY <2>1
      <4>2. point'[frame.point] = [format |-> frame.format, sequence |-> Known.sequence + 1,
                                   drops |-> IF kept THEN Known.drops ELSE Known.drops + 1]
        BY <1>0, <2>1, <4>1, CountedFields
      <4> QED
        BY <4>2
    <3>2. Bound = frame.session
      BY <2>1 DEF Mismatch
    <3> QED
      BY <2>1, <2>2, <3>1, <3>2 DEF Fits
  <2>4. OneInv'
    BY <1>1, <1>5, <2>1, <2>3 DEF OneInv
  <2>5. Stream' = Stream /\ Len(Stream) \in Nat /\ Stream \in Seq(Records)
    BY <1>0, <1>1, <2>1, ConcatProperties, LenProperties DEF Stream
  <2>6. /\ Accounted(history.sent)' <=> Accounted(history.sent)
        /\ Accounted(Stream)' <=> Accounted(Stream)
        /\ \A p : Before(Stream, Len(Stream), p)' = Before(Stream, Len(Stream), p)
    BY <1>1, <2>5 DEF Accounted, Before
  <2>7. ASSUME Alive PROVE producer'.pc = "holding" =>
               producer'.record.sequence =
                   Before(Stream, Len(Stream), producer'.record.point) + producer'.record.dropped
    <3>1. Reserved(frame.point) = 0
      BY <2>1 DEF Reserved
    <3>2. frame.point \in Points /\ Known.drops \in Nat
      BY <1>0, <2>1, CountedFields
    <3>3. Before(Stream, Len(Stream), frame.point) \in Nat
      BY <2>5, BeforeNat
    <3> QED
      BY <2>2, <2>7, <3>1, <3>2, <3>3 DEF GapInv, Known
  <2>8. ASSUME Alive, NEW p \in Points
        PROVE  point'[p].sequence = Before(Stream, Len(Stream), p) + Reserved(p)' + point'[p].drops
    <3>1. Reserved(p) = 0
      BY <2>1 DEF Reserved
    <3>2. point[p].sequence \in Nat /\ point[p].drops \in Nat
      BY <1>0 DEF PointType
    <3>3. Before(Stream, Len(Stream), p) \in Nat
      BY <2>5, BeforeNat
    <3>4. point[p].sequence = Before(Stream, Len(Stream), p) + point[p].drops
      BY <2>8, <3>1, <3>2, <3>3 DEF GapInv
    <3>5. CASE p # frame.point
      <4>1. Reserved(p)' = 0
        BY <2>2, <3>5 DEF Reserved
      <4>2. point'[p] = point[p]
        BY <1>0, <2>1, <3>5, CountedFields
      <4> QED
        BY <3>2, <3>3, <3>4, <4>1, <4>2
    <3>6. CASE p = frame.point /\ Keep
      <4>1. Reserved(p)' = 1
        BY <3>6 DEF Keep, Reserved
      <4>2. point'[p].sequence = point[p].sequence + 1 /\ point'[p].drops = point[p].drops
        <5>1. point' = Counted(TRUE)
          BY <3>6 DEF Keep
        <5>2. point'[p] = [format |-> frame.format, sequence |-> Known.sequence + 1, drops |-> Known.drops]
          BY <1>0, <2>1, <3>6, <5>1, CountedFields
        <5> QED
          BY <3>6, <5>2 DEF Known
      <4> QED
        BY <3>2, <3>3, <3>4, <4>1, <4>2
    <3>7. CASE p = frame.point /\ Drop
      <4>1. Reserved(p)' = 0
        BY <3>7 DEF Drop, Reserved
      <4>2. point'[p].sequence = point[p].sequence + 1 /\ point'[p].drops = point[p].drops + 1
        <5>1. point' = Counted(FALSE)
          BY <3>7 DEF Drop
        <5>2. point'[p] = [format |-> frame.format, sequence |-> Known.sequence + 1, drops |-> Known.drops + 1]
          BY <1>0, <2>1, <3>7, <5>1, CountedFields
        <5> QED
          BY <3>7, <5>2 DEF Known
      <4> QED
        BY <3>2, <3>3, <3>4, <4>1, <4>2
    <3> QED
      BY <1>7, <3>5, <3>6, <3>7
  <2>9. producer'.pc = "holding" =>
            Before(Stream, Len(Stream), producer.record.point)' = Before(Stream, Len(Stream), producer'.record.point)
    BY <2>5 DEF Before
  <2>10. GapInv'
    BY <1>1, <2>6, <2>7, <2>8, <2>9 DEF GapInv
  <2> QED
    BY <2>4, <2>10
<1>8. CASE Complete
  <2> DEFINE r == producer.record
  <2>1. /\ producer.pc = "holding" /\ producer'.pc = "waking" /\ r \in Records
        /\ queue'.items = Append(queue.items, r) /\ UNCHANGED <<atomics, point>>
        /\ worker'.pc # "none"
    BY <1>0, <1>1, <1>4, <1>8 DEF Complete
  <2>2. /\ Len(queue.items) \in Nat /\ Len(queue'.items) = Len(queue.items) + 1
        /\ (\A i \in 1 .. Len(queue.items) : queue'.items[i] = queue.items[i])
        /\ queue'.items[Len(queue.items) + 1] = r
    BY <1>0, <2>1, AppendProperties, LenProperties
  <2>3. ASSUME NEW i \in 1 .. Len(queue'.items) PROVE Fits(queue.items[i])'
    <3>1. CASE i \in 1 .. Len(queue.items)
      BY <2>1, <2>2, <3>1 DEF OneInv, Fits
    <3>2. CASE i = Len(queue.items) + 1
      BY <2>1, <2>2, <3>2 DEF OneInv, Fits
    <3> QED
      BY <2>2, <3>1, <3>2
  <2>4. OneInv'
    BY <1>1, <2>1, <2>3 DEF OneInv, Fits
  <2>5. Stream' = Append(Stream, r) /\ Stream \in Seq(Records)
    BY <1>0, <1>1, <2>1, StreamAppend DEF Stream
  <2>6. Len(Stream) \in Nat /\ Len(Stream)' = Len(Stream) + 1
    BY <2>1, <2>5, AppendProperties, LenProperties
  <2>7. ASSUME Alive PROVE Accounted(Stream)'
    <3>1. Accounted(Append(Stream, r))
      BY <2>1, <2>5, <2>7, AccountedAppend DEF GapInv
    <3> QED
      BY <2>5, <3>1 DEF Accounted, Before
  <2>8. ASSUME Alive, NEW p \in Points
        PROVE  point'[p].sequence = Before(Stream, Len(Stream), p)' + Reserved(p)' + point'[p].drops
    <3>1. Reserved(p) = (IF r.point = p THEN 1 ELSE 0) /\ Reserved(p)' = 0
      BY <2>1 DEF Reserved
    <3>2. Before(Stream, Len(Stream), p)' = Before(Append(Stream, r), Len(Stream) + 1, p)
      BY <2>5, <2>6 DEF Before
    <3>3. Before(Append(Stream, r), Len(Stream) + 1, p) = Before(Stream, Len(Stream), p) + Reserved(p)
      BY <2>1, <2>5, <3>1, BeforeAppend
    <3>4. Before(Stream, Len(Stream), p) \in Nat
      <4>1. Len(Stream) \in 0 .. Len(Stream)
        BY <2>6
      <4> QED
        BY <2>5, <4>1, BeforeNat
    <3>5. point[p].sequence = Before(Stream, Len(Stream), p) + Reserved(p) + point[p].drops
      BY <2>8 DEF GapInv
    <3>6. point[p].drops \in Nat
      BY <1>0 DEF PointType
    <3> QED
      BY <2>1, <3>1, <3>2, <3>3, <3>4, <3>5, <3>6
  <2>9. Accounted(history.sent)'
    BY <1>1 DEF GapInv, Accounted, Before
  <2>10. GapInv'
    BY <1>1, <2>1, <2>7, <2>8, <2>9 DEF GapInv
  <2> QED
    BY <2>4, <2>10
<1> QED
  BY <1>6, <1>7, <1>8

\* The steps of the worker: what it sends it takes from the front of the queue, and after a record
\* that is lost it sends no more.
LEMMA WorkerStream ==
    ASSUME Typed, Fields, Protocol, StreamInv, WorkerStep
    PROVE  StreamInv'
<1> USE DEF Fields, WorkerAt, WorkerGoes, WorkerUnchanged
<1>0. /\ queue.items \in Seq(Records) /\ history.sent \in Seq(Records)
      /\ worker.pc = "sending" => queue.items # <<>>
  BY DEF Typed, TypeOK, QueueType, HistoryType, Fetched
<1>1. CASE Connect \/ Serve \/ AwaitRecord \/ CloseAdmission \/ CloseSocket \/ Drain \/ AwaitWriters
  <2>1. /\ UNCHANGED <<queue, history, point, producer>> /\ atomics'.bound = atomics.bound
        /\ worker'.pc # "none" /\ (Alive' => Alive)
    BY <1>1 DEF Connect, Serve, AwaitRecord, CloseAdmission, CloseSocket, Drain, AwaitWriters, Alive
  <2> QED
    BY <2>1, StreamStays
<1> SUFFICES ASSUME ~history.late, OneInv, GapInv, Send \/ Park
             PROVE  (OneInv /\ GapInv)' \/ history'.late
  BY <1>1 DEF StreamInv, WorkerStep, Send, Park
<1>2. CASE Send
  <2> DEFINE h == Head(queue.items)
  <2>1. /\ Alive /\ queue.items # <<>> /\ queue'.items = Tail(queue.items)
        /\ UNCHANGED <<atomics, point, producer>> /\ worker'.pc \in {"serving", "closing"}
    BY <1>0, <1>2 DEF Send, Alive
  <2>2. /\ h \in Records /\ queue'.items \in Seq(Records) /\ Len(queue'.items) = Len(queue.items) - 1
        /\ (\A i \in 1 .. Len(queue'.items) : queue'.items[i] = queue.items[i + 1])
        /\ h = queue.items[1] /\ Len(queue.items) \in Nat \ {0}
    BY <1>0, <2>1, HeadTailProperties, LenProperties, EmptySeq
  <2>3. ASSUME NEW i \in 1 .. Len(queue'.items) PROVE Fits(queue.items[i])'
    <3>1. queue'.items[i] = queue.items[i + 1] /\ i + 1 \in 1 .. Len(queue.items)
      BY <2>2
    <3>2. Fits(queue.items[i + 1])
      BY <3>1 DEF OneInv
    <3> QED
      BY <2>1, <3>1, <3>2 DEF Fits
  <2>4. CASE history'.sent = history.sent /\ worker'.pc = "closing"
    <3>1. OneInv'
      BY <2>1, <2>3, <2>4 DEF OneInv, Fits
    <3>2. GapInv'
      BY <2>4 DEF GapInv, Accounted, Before, Alive
    <3> QED
      BY <3>1, <3>2
  <2>5. CASE history'.sent = Append(history.sent, h)
    <3>1. /\ Len(history.sent) \in Nat /\ Len(history'.sent) = Len(history.sent) + 1
          /\ (\A i \in 1 .. Len(history.sent) : history'.sent[i] = history.sent[i])
          /\ history'.sent[Len(history.sent) + 1] = h /\ history'.sent \in Seq(Records)
      BY <1>0, <2>2, <2>5, AppendProperties, LenProperties
    <3>2. Fits(h)
      BY <2>2 DEF OneInv
    <3>3. ASSUME NEW i \in 1 .. Len(history'.sent) PROVE Fits(history.sent[i])'
      <4>1. CASE i \in 1 .. Len(history.sent)
        BY <2>1, <3>1, <4>1 DEF OneInv, Fits
      <4>2. CASE i = Len(history.sent) + 1
        BY <2>1, <3>1, <3>2, <4>2 DEF Fits
      <4> QED
        BY <3>1, <4>1, <4>2
    <3>4. OneInv'
      BY <2>1, <2>3, <3>3 DEF OneInv, Fits
    <3>5. Stream' = Stream
      BY <1>0, <2>1, <2>5, StreamShift DEF Stream
    <3>6. /\ Accounted(Stream)' /\ Accounted(history'.sent \o queue'.items)
          /\ \A p : Before(Stream, Len(Stream), p)' = Before(Stream, Len(Stream), p)
          /\ \A p : Reserved(p)' = Reserved(p)
      BY <2>1, <3>5 DEF GapInv, Accounted, Before, Reserved, Stream
    <3>7. Accounted(history.sent)'
      <4>1. Accounted(history'.sent)
        BY <2>2, <3>1, <3>6, AccountedPrefix
      <4> QED
        BY <4>1 DEF Accounted, Before
    <3>8. GapInv'
      BY <2>1, <3>6, <3>7 DEF GapInv
    <3> QED
      BY <3>4, <3>8
  <2> QED
    BY <1>2, <2>4, <2>5 DEF Send
<1>3. CASE Park
  <2>1. /\ queue'.items = <<>> /\ history' = history /\ UNCHANGED <<point, producer>>
        /\ atomics'.bound = atomics.bound /\ worker'.pc = "parked" /\ Len(<<>>) = 0
    BY <1>3 DEF Park
  <2>2. OneInv'
    BY <2>1 DEF OneInv, Fits
  <2>3. GapInv'
    BY <2>1 DEF GapInv, Accounted, Before, Alive
  <2> QED
    BY <2>2, <2>3
<1> QED
  BY <1>2, <1>3

\* The induction.
LEMMA StreamAlways == Spec => []StreamInv
<1>1. Init => StreamInv
  <2>1. SUFFICES ASSUME Init PROVE OneInv /\ GapInv
    BY DEF StreamInv
  <2>2. /\ queue = NoQueue /\ history.sent = <<>> /\ queue.items = <<>> /\ Len(<<>>) = 0
        /\ producer.pc = "out" /\ worker.pc = "none"
    BY <2>1 DEF Init, NoQueue, Out, NoWorker
  <2> QED
    BY <2>2 DEF OneInv, GapInv, Accounted, Alive
<1>2. Typed /\ Protocol /\ StreamInv /\ [Next]_vars => StreamInv'
  <2>1. SUFFICES ASSUME Typed, Protocol, StreamInv, [Next]_vars PROVE StreamInv'
    OBVIOUS
  <2>2. Fields
    BY <2>1, FieldsKnown
  <2>3. CASE UNCHANGED vars \/ EnvStep
    <3>1. UNCHANGED <<atomics, queue, point, worker, producer, history>>
      BY <2>3 DEF vars, EnvStep, Expire, NextSession, EnvUnchanged
    <3> QED
      BY <2>1, <2>2, <3>1, StreamStays DEF Fields, Alive
  <2> QED
    BY <2>1, <2>2, <2>3, MainStream, ProducerStream, WorkerStream DEF Next
<1> QED
  BY <1>1, <1>2, TypedAlways, ProtocolAlways, PTL DEF Spec

\* The peer gets one session and, for each point, one format: whatever call is still on its way when
\* a capture starts, the first frame of the capture binds it, and the others fit or end it.
THEOREM StreamIsOne == Spec => []OneStream
<1>1. Typed /\ StreamInv => OneStream
  <2>1. SUFFICES ASSUME Typed, OneInv, NEW i, i \in 1 .. Len(Stream)
                 PROVE  Fits(Stream[i])
    BY DEF StreamInv, OneStream, Stream, Fits
  <2>2. history.sent \in Seq(Records) /\ queue.items \in Seq(Records)
    BY <2>1 DEF Typed, TypeOK, HistoryType, QueueType
  <2> DEFINE n == Len(history.sent)
             m == Len(queue.items)
  <2>3. n \in Nat /\ m \in Nat
    BY <2>2, LenProperties
  <2>4. Len(Stream) = n + m
    BY <2>2, ConcatProperties DEF Stream
  <2>5. i \in 1 .. n + m
    BY <2>1, <2>4
  <2>6. Stream[i] = IF i <= n THEN history.sent[i] ELSE queue.items[i - n]
    BY <2>2, <2>5, ConcatProperties DEF Stream
  <2> HIDE DEF n, m
  <2>7. i \in 1 .. n \/ (i > n /\ i - n \in 1 .. m)
    BY <2>3, <2>5
  <2>8. CASE i \in 1 .. n
    <3>1. Stream[i] = history.sent[i]
      BY <2>3, <2>6, <2>8
    <3> QED
      BY <2>1, <2>8, <3>1 DEF OneInv, n
  <2>9. CASE i > n /\ i - n \in 1 .. m
    <3>1. Stream[i] = queue.items[i - n]
      BY <2>3, <2>5, <2>6, <2>9
    <3> QED
      BY <2>1, <2>9, <3>1 DEF OneInv, m
  <2> QED
    BY <2>7, <2>8, <2>9
<1> QED
  BY <1>1, TypedAlways, StreamAlways, PTL

\* The peer can account for every frame of a point from the numbers and drops of the records alone.
THEOREM GapsAreDeclared == Spec => []GapsDeclared
<1>1. StreamInv => GapsDeclared
  BY DEF StreamInv, GapInv, GapsDeclared
<1> QED
  BY <1>1, StreamAlways, PTL
=============================================================================
