----------------------------- MODULE FrameProofs -----------------------------
(***************************************************************************)
(* The sessions of the audio task, for every build, frame size and number  *)
(* of rebuilds: what is dispatched in a period is that period's, the echo  *)
(* reference is the preceding period's, or as many more behind as the ring *)
(* was left alone, and a session that runs on another frame size than the  *)
(* processor's is going to notice.                                         *)
(*                                                                         *)
(* Each has an invariant of its own over the steps of a period, on the     *)
(* types of the session's records; TypeOK adds the bounds of the numbers   *)
(* and, from PathProofs, the types of the hardware.                        *)
(***************************************************************************)
EXTENDS PathProofs

----------------------------------------------------------------------------
(* Types of the session's records.                                         *)

Processors == [ready : BOOLEAN, size : Sizes, rev : Nat, busy : {"no", "build", "bump", "publish"}]
Sessions == [size : Sizes, rev : Nat, micActive : BOOLEAN, first : {"no", "opening", "session"}]
Periods == [pc : {"idle", "prepare", "spec", "buffers", "top", "rx", "process", "tx", "check", "decide"},
            mic : BOOLEAN, enabled : BOOLEAN, ready : BOOLEAN, frame : {"none", "new", "old"},
            ref : Nat, out : {"none", "raw", "silence", "processed"}, rev : Nat]
References == [valid : BOOLEAN, age : Nat, size : Sizes \cup {0}]

Typed ==
    /\ user \in [mic : BOOLEAN, enabled : BOOLEAN, reset : BOOLEAN]
    /\ proc \in Processors /\ ses \in Sessions /\ per \in Periods
    /\ direct \in References /\ ring \in Seq(Nat)
    /\ history \in [slips : Nat, absorbed : BOOLEAN]

\* The steps of the audio task outside its sessions, and the steps of others:
\* none of them touches the period.
Others == PathStep \/ Processor \/ Switch \/ StartSpeaker \/ Stop

\* The records that a session or a period begins with.
LEMMA FreshTyping ==
    ASSUME Typed
    PROVE  /\ Fresh \in Sessions /\ Idle \in Periods /\ NoReference \in References
           /\ MaxAge \in Nat /\ RingFrames \in Nat /\ <<>> \in Seq(Nat)
           /\ \A age \in Nat : Older(age) \in Nat
  <1>1. \E size \in Sizes : TRUE
    BY DEF Typed, Processors
  <1>2. Fresh \in Sessions
    BY <1>1 DEF Fresh, Sessions
  <1>3. Idle \in Periods /\ NoReference \in References
    BY DEF Idle, Periods, NoReference, References
  <1>4. MaxAge \in Nat /\ RingFrames \in Nat /\ <<>> \in Seq(Nat)
    BY FrameAssumption
  <1>5. \A age \in Nat : Older(age) \in Nat
    BY <1>4 DEF Older
  <1>6. QED
    BY <1>2, <1>3, <1>4, <1>5

\* A discarded reference.
LEMMA ResetTyping ==
    ASSUME Typed, ResetReference \/ KeepReference
    PROVE  /\ direct' \in References /\ ring' \in Seq(Nat)
           /\ history' \in [slips : Nat, absorbed : BOOLEAN]
  <1>1. CASE ResetReference
    BY <1>1, FreshTyping DEF ResetReference, Typed
  <1>2. CASE KeepReference
    BY <1>2 DEF KeepReference, Typed
  <1>3. QED
    BY <1>1, <1>2

\* Whoever else acts keeps the types and the period.
LEMMA OthersTyping ==
    ASSUME Typed, Others
    PROVE  Typed'
  <1> USE DEF Typed
  <1>1. CASE PathStep
    <2>1. CASE OpenPath
      BY <2>1 DEF OpenPath, KeepReference
    <2>2. CASE MovePath
      <3>1. ResetReference \/ KeepReference
        BY <2>2 DEF MovePath
      <3>2. QED
        BY <2>2, <3>1, ResetTyping DEF MovePath
    <2>3. CASE ClosePath
      BY <2>3 DEF ClosePath, KeepReference
    <2>4. CASE ServeIdle
      BY <2>4, ResetTyping DEF ServeIdle
    <2>5. CASE StartSession
      BY <2>5 DEF StartSession, Periods, Sessions
    <2>6. QED
      BY <1>1, <2>1, <2>2, <2>3, <2>4, <2>5 DEF PathStep
  <1>2. CASE Processor
    <2>1. proc' \in Processors
      <3>1. CASE Rebuild \/ Resize
        BY <3>1 DEF Rebuild, Resize, Processors
      <3>2. CASE Bump
        <4>1. proc.rev + 1 \in Nat
          BY DEF Processors
        <4>2. proc' = [[proc EXCEPT !.rev = proc.rev + 1] EXCEPT !.busy = "publish"]
          BY <3>2 DEF Bump, Processors
        <4>3. [proc EXCEPT !.rev = proc.rev + 1] \in Processors
          BY <4>1 DEF Processors
        <4>4. QED
          BY <4>2, <4>3 DEF Processors
      <3>3. CASE Publish
        BY <3>3 DEF Publish, Processors
      <3>4. QED
        BY <1>2, <3>1, <3>2, <3>3 DEF Processor
    <2>2. UNCHANGED <<user, ses, per, direct, ring, history>>
      BY <1>2 DEF Processor, Rebuild, Resize, Bump, Publish
    <2>3. QED
      BY <2>1, <2>2
  <1>3. CASE Switch
    BY <1>3 DEF Switch
  <1>4. CASE StartSpeaker
    BY <1>4, FreshTyping DEF StartSpeaker
  <1>5. CASE Stop
    BY <1>5 DEF Stop
  <1>6. QED
    BY <1>1, <1>2, <1>3, <1>4, <1>5 DEF Others

\* The ring, one period older, and with the frame of this period.
LEMMA RingTyping ==
    ASSUME Typed
    PROVE  LET aged == [i \in 1 .. Len(ring) |-> Older(ring[i])]
           IN  aged \in Seq(Nat) /\ Admit(aged) \in Seq(Nat)
  <1> DEFINE aged == [i \in 1 .. Len(ring) |-> Older(ring[i])]
  <1>1. ring \in Seq(Nat) /\ Len(ring) \in Nat
    BY DEF Typed
  <1>2. ASSUME NEW i \in 1 .. Len(ring) PROVE Older(ring[i]) \in Nat
    <2>1. ring[i] \in Nat
      BY <1>1
    <2>2. QED
      BY <2>1, FreshTyping
  <1>3. aged \in Seq(Nat)
    BY <1>1, <1>2
  <1>4. Append(aged, 1) \in Seq(Nat)
    BY <1>3
  <1>5. CASE Len(aged) < RingFrames
    BY <1>3, <1>4, <1>5 DEF Admit
  <1>6. CASE ~(Len(aged) < RingFrames)
    <2>1. Len(aged) > 0
      BY <1>3, <1>6, FrameAssumption
    <2>2. Tail(aged) \in Seq(Nat)
      BY <1>3, <2>1
    <2>3. QED
      BY <1>3, <1>6, <2>2 DEF Admit
  <1>7. QED
    BY <1>3, <1>5, <1>6

\* A session keeps the types.
LEMMA SessionTyping ==
    ASSUME Typed, Session
    PROVE  Typed'
  <1> USE DEF Typed
  <1>1. CASE EndSession
    <2>1. ring' \in Seq(Nat)
      BY <1>1, FreshTyping DEF EndSession
    <2>2. direct' \in References
      BY <1>1, FreshTyping DEF EndSession, References
    <2>3. UNCHANGED <<user, proc>> /\ per' = Idle /\ ses' = Fresh
          /\ history' = [slips |-> 0, absorbed |-> FALSE]
      BY <1>1 DEF EndSession
    <2>4. QED
      BY <2>1, <2>2, <2>3, FreshTyping
  <1>2. CASE PrepareRevision
    BY <1>2 DEF PrepareRevision, To, Sessions, Periods, Processors
  <1>3. CASE PrepareSpec
    BY <1>3 DEF PrepareSpec, To, Sessions, Periods, Processors
  <1>4. CASE Allocate
    <2>1. ResetReference \/ KeepReference
      BY <1>4 DEF Allocate
    <2>2. QED
      BY <1>4, <2>1, ResetTyping DEF Allocate, To, Periods
  <1>5. CASE Snapshot
    <2>1. /\ user' \in [mic : BOOLEAN, enabled : BOOLEAN, reset : BOOLEAN]
          /\ ses' \in Sessions /\ proc' = proc
      BY <1>5 DEF Snapshot, Sessions
    <2>2. per' \in Periods
      <3> DEFINE start == [Idle EXCEPT !.pc = IF On("rx") THEN "rx" ELSE "process", !.mic = user.mic,
                                       !.enabled = user.enabled, !.ready = user.enabled /\ proc.ready]
      <3>1. start \in Periods
        BY DEF Periods, Idle, Processors
      <3>2. per' = start
        BY <1>5 DEF Snapshot
      <3>3. QED
        BY <3>1, <3>2
    <2>3. CASE user.reset
      <3>1. ResetReference
        BY <1>5, <2>3 DEF Snapshot
      <3>2. QED
        BY <2>1, <2>2, <3>1, ResetTyping
    <2>4. CASE ~user.reset
      <3>1. direct' = direct /\ (ring' = ring \/ ring' = <<>>)
            /\ (history' = history \/ history' = [history EXCEPT !.slips = 0])
        BY <1>5, <2>4 DEF Snapshot
      <3>2. history' \in [slips : Nat, absorbed : BOOLEAN]
        BY <3>1
      <3>3. direct' \in References /\ ring' \in Seq(Nat)
        BY <3>1, FreshTyping
      <3>4. QED
        BY <2>1, <2>2, <3>2, <3>3
    <2>5. QED
      BY <2>3, <2>4
  <1>6. CASE ReadFrame
    BY <1>6 DEF ReadFrame, Periods
  <1>7. CASE ReadFails
    BY <1>7 DEF ReadFails, To, Periods
  <1>8. CASE Process
    <2>1. UNCHANGED <<user, proc, ses, direct>>
      BY <1>8 DEF Process
    <2>2. ring' \in Seq(Nat)
      BY <1>8 DEF Process
    <2>3. history' \in [slips : Nat, absorbed : BOOLEAN]
      BY <1>8, FreshTyping DEF Process
    <2>4. per' \in Periods
      <3>1. PICK answer \in {"processed", "silence"}, reference \in Nat :
                per' = [per EXCEPT !.pc = "tx", !.ref = reference, !.out = Outcome(answer)]
        <4>1. ring # <<>> => Head(ring) \in Nat
          OBVIOUS
        <4>2. direct.age \in Nat
          BY DEF References
        <4>3. Answers \subseteq {"processed", "silence"}
          BY DEF Answers
        <4>4. QED
          BY <1>8, <4>1, <4>2, <4>3 DEF Process
      <3>2. Outcome(answer) \in {"none", "raw", "silence", "processed"}
        BY DEF Outcome
      <3>3. QED
        BY <3>1, <3>2 DEF Periods
    <2>5. QED
      BY <2>1, <2>2, <2>3, <2>4
  <1>9. CASE Transmit
    <2>1. Idle \in Periods /\ ses \in Sessions
      BY FreshTyping
    <2>2. UNCHANGED <<user, proc, history>> /\ ses' = [ses EXCEPT !.first = "no"]
          /\ per' = [Idle EXCEPT !.pc = "check"]
      BY <1>9 DEF Transmit
    <2>3. ses' \in Sessions /\ per' \in Periods
      BY <2>1, <2>2 DEF Sessions, Periods
    <2>4. direct' \in References
      BY <1>9, FreshTyping DEF Transmit, References, Sessions
    <2>5. ring' \in Seq(Nat)
      BY <1>9, RingTyping DEF Transmit
    <2>6. QED
      BY <2>2, <2>3, <2>4, <2>5
  <1>10. CASE CheckRevision
    <2>1. Idle \in Periods /\ proc.rev \in Nat
      BY FreshTyping DEF Processors
    <2>2. per' = [[Idle EXCEPT !.pc = "decide"] EXCEPT !.rev = proc.rev]
      BY <1>10 DEF CheckRevision
    <2>3. per' \in Periods
      BY <2>1, <2>2 DEF Periods
    <2>4. QED
      BY <1>10, <2>3 DEF CheckRevision
  <1>11. CASE Decide
    <2>1. Idle \in Periods /\ per.rev \in Nat
      BY FreshTyping DEF Periods
    <2>2. per' = [Idle EXCEPT !.pc = "prepare"] \/ per' = [Idle EXCEPT !.pc = "top"]
      BY <1>11 DEF Decide
    <2>3. ses' = ses \/ ses' = [ses EXCEPT !.first = "session"] \/ ses' = [ses EXCEPT !.rev = per.rev]
      BY <1>11 DEF Decide
    <2>4. history' \in [slips : Nat, absorbed : BOOLEAN]
      BY <1>11 DEF Decide
    <2>5. per' \in Periods /\ ses' \in Sessions
      BY <2>1, <2>2, <2>3 DEF Periods, Sessions
    <2>6. QED
      BY <1>11, <2>4, <2>5 DEF Decide
  <1>12. QED
    BY <1>1, <1>2, <1>3, <1>4, <1>5, <1>6, <1>7, <1>8, <1>9, <1>10, <1>11 DEF Session

\* The first records are typed.
LEMMA InitTyping == ASSUME Init PROVE Typed
  <1>1. \E size \in Sizes : TRUE
    BY DEF Init
  <1>2. Fresh \in Sessions
    BY <1>1 DEF Fresh, Sessions
  <1>3. Idle \in Periods /\ NoReference \in References
    BY DEF Idle, Periods, NoReference, References
  <1>4. proc \in Processors
    <2>1. PICK size \in Sizes : proc = [ready |-> TRUE, size |-> size, rev |-> 0, busy |-> "no"]
      BY DEF Init
    <2>2. QED
      BY <2>1 DEF Processors
  <1>5. user \in [mic : BOOLEAN, enabled : BOOLEAN, reset : BOOLEAN]
    <2>1. [mic : BOOLEAN, enabled : {TRUE}, reset : {FALSE}]
              \subseteq [mic : BOOLEAN, enabled : BOOLEAN, reset : BOOLEAN]
      OBVIOUS
    <2>2. QED
      BY <2>1 DEF Init
  <1>6. ring \in Seq(Nat) /\ history \in [slips : Nat, absorbed : BOOLEAN]
    BY DEF Init
  <1>7. QED
    BY <1>2, <1>3, <1>4, <1>5, <1>6 DEF Init, Typed

\* Every step keeps the types.
LEMMA StepTyping == ASSUME Typed, [Next]_vars PROVE Typed'
  <1>1. CASE UNCHANGED vars
    BY <1>1 DEF vars, Typed
  <1>2. QED
    BY <1>1, SessionTyping, OthersTyping DEF Next, Others

----------------------------------------------------------------------------
(* What a period dispatches.                                               *)

\* From the read to the dispatch: the frame of an earlier period only in a
\* session that ends, and the answer of the processor once it is asked.
CleanInv ==
    /\ per.pc = "rx" => per.frame = "none"
    /\ per.pc \in {"process", "tx"} /\ per.frame = "old" => run # "yes"
    /\ per.pc = "tx" /\ per.enabled => per.out # "raw"

\* The outcome of a period with the processor enabled is not the microphone.
LEMMA CleanStep == ASSUME Typed, CleanInv, [Next]_vars PROVE CleanInv'
  <1>1. CASE EndSession \/ PrepareRevision \/ PrepareSpec \/ Allocate \/ Transmit \/ CheckRevision \/ Decide
    <2>1. per'.pc \notin {"rx", "process", "tx"}
      <3>1. CASE PrepareRevision \/ PrepareSpec \/ Allocate
        BY <3>1 DEF PrepareRevision, PrepareSpec, Allocate, To, Typed, Periods
      <3>2. CASE EndSession
        BY <3>2 DEF EndSession, Idle
      <3>3. CASE Transmit
        BY <3>3 DEF Transmit, Idle
      <3>4. CASE CheckRevision \/ Decide
        BY <3>4 DEF CheckRevision, Decide, Idle
      <3>5. QED
        BY <1>1, <3>1, <3>2, <3>3, <3>4
    <2>2. QED
      BY <2>1 DEF CleanInv
  <1>2. CASE Snapshot
    <2>1. per'.frame = "none" /\ per'.pc # "tx"
      BY <1>2 DEF Snapshot, Idle
    <2>2. QED
      BY <2>1 DEF CleanInv
  <1>3. CASE ReadFrame
    BY <1>3 DEF ReadFrame, CleanInv, Failed, Typed, Periods
  <1>4. CASE ReadFails
    BY <1>4 DEF ReadFails, To, CleanInv, Failed, Typed, Periods
  <1>5. CASE Process
    <2>1. PICK answer \in Answers : \E reference :
              per' = [per EXCEPT !.pc = "tx", !.ref = reference, !.out = Outcome(answer)]
      BY <1>5 DEF Process
    <2>2. answer # "raw"
      BY DEF Answers
    <2>3. per.enabled => Outcome(answer) # "raw"
      BY <2>2 DEF Outcome
    <2>4. per'.enabled = per.enabled /\ per'.frame = per.frame /\ per'.out = Outcome(answer)
          /\ per.pc = "process" /\ run' = run
      BY <1>5, <2>1 DEF Process, Typed, Periods
    <2>5. per.frame = "old" => run # "yes"
      BY <2>4 DEF CleanInv
    <2>6. per'.pc = "tx"
      BY <2>1 DEF Typed, Periods
    <2>7. QED
      BY <2>3, <2>4, <2>5, <2>6 DEF CleanInv
  <1>6. CASE Processor \/ Switch \/ StartSpeaker \/ OpenPath \/ MovePath \/ ClosePath \/ ServeIdle \/ Stop
    BY <1>6 DEF Processor, Rebuild, Resize, Bump, Publish, Switch, StartSpeaker, OpenPath, MovePath,
                ClosePath, ServeIdle, Stop, CleanInv
  <1>7. CASE StartSession
    BY <1>7 DEF StartSession, CleanInv, Typed, Periods
  <1>8. CASE UNCHANGED vars
    BY <1>8 DEF vars, CleanInv
  <1>9. QED
    BY <1>1, <1>2, <1>3, <1>4, <1>5, <1>6, <1>7, <1>8 DEF Next, Session, PathStep

\* What the consumers of a period get is that period's, and never the raw
\* microphone with the processor enabled, whatever becomes of the processor in
\* the middle of it (process_aec_and_callbacks_()).
THEOREM CleanDispatch == Spec => []DispatchClean
  <1>1. Init => Typed /\ CleanInv
    BY InitTyping DEF Init, CleanInv, Idle
  <1>2. Typed /\ CleanInv /\ [Next]_vars => (Typed /\ CleanInv)'
    BY StepTyping, CleanStep
  <1>3. CleanInv => DispatchClean
    BY DEF CleanInv, DispatchClean
  <1>4. QED
    BY <1>1, <1>2, <1>3, PTL DEF Spec

----------------------------------------------------------------------------
(* The reference without a ring.                                           *)

Running == {"prepare", "spec", "buffers", "top", "rx", "process", "tx", "check", "decide"}

\* While a session lasts the reference is the preceding period's and has its
\* frame's size, but in the first period after an opening or a restart.
PreviousInv ==
    /\ per.pc \in {"prepare", "spec", "buffers"} => ses.first # "no"
    /\ per.pc \in {"check", "decide"} => ses.first = "no"
    /\ per.pc \in Running /\ direct.valid =>
        /\ direct.age = 1 \/ ses.first = "opening"
        /\ direct.size = ses.size \/ ses.first # "no"
    /\ per.pc = "tx" /\ setup.reference = "previous" /\ per.ref # 0 =>
        per.ref = 1 \/ ses.first = "opening"

\* Only the transmission makes a reference, and it is renewed there or gone.
LEMMA PreviousStep == ASSUME Typed, PreviousInv, [Next]_vars PROVE PreviousInv'
  <1> USE DEF PreviousInv, Running
  <1>0. ses \in Sessions /\ per \in Periods /\ direct \in References
    BY DEF Typed
  <1>1. CASE EndSession
    BY <1>1 DEF EndSession, Idle
  <1>2. CASE PrepareRevision
    BY <1>0, <1>2 DEF PrepareRevision, To, Sessions, Periods
  <1>3. CASE PrepareSpec
    BY <1>0, <1>3 DEF PrepareSpec, To, Sessions, Periods
  <1>4. CASE Allocate
    <2>1. UNCHANGED <<ses, setup>> /\ per.pc = "buffers" /\ per'.pc = "top"
          /\ (direct' = direct \/ direct' = NoReference)
      BY <1>0, <1>4 DEF Allocate, To, Periods, ResetReference, KeepReference
    <2>2. QED
      BY <2>1 DEF NoReference
  <1>5. CASE Snapshot
    <2>1. /\ setup' = setup /\ ses'.first = ses.first /\ ses'.size = ses.size
          /\ per.pc = "top" /\ per'.pc \in {"rx", "process"}
      BY <1>0, <1>5 DEF Snapshot, Sessions, Idle
    <2>2. direct' = direct \/ direct' = NoReference
      BY <1>5 DEF Snapshot, ResetReference
    <2>3. QED
      BY <2>1, <2>2 DEF NoReference
  <1>6. CASE ReadFrame
    BY <1>0, <1>6 DEF ReadFrame, Periods
  <1>7. CASE ReadFails
    BY <1>0, <1>7 DEF ReadFails, To, Periods
  <1>8. CASE Process
    <2>1. /\ UNCHANGED <<ses, direct, setup>>
          /\ per.pc = "process" /\ per'.pc = "tx"
          /\ setup.reference = "previous" =>
                per'.ref = 0 \/ (direct.valid /\ per'.ref = direct.age)
      BY <1>0, <1>8 DEF Process, Periods
    <2>2. QED
      BY <2>1
  <1>9. CASE Transmit
    <2>1. /\ per'.pc = "check" /\ ses'.size = ses.size /\ ses'.first = "no"
          /\ \/ direct' = [valid |-> TRUE, age |-> 1, size |-> ses.size]
             \/ direct' = NoReference
      BY <1>0, <1>9 DEF Transmit, Idle, Sessions
    <2>2. QED
      BY <2>1 DEF NoReference
  <1>10. CASE CheckRevision
    BY <1>0, <1>10 DEF CheckRevision, Idle
  <1>11. CASE Decide
    <2>1. UNCHANGED <<direct, setup>> /\ per.pc = "decide"
      BY <1>11 DEF Decide
    <2>2. CASE per' = [Idle EXCEPT !.pc = "prepare"] /\ ses' = [ses EXCEPT !.first = "session"]
      <3>1. per'.pc = "prepare" /\ ses'.first = "session"
        BY <1>0, <2>2 DEF Idle, Sessions
      <3>2. direct.valid => direct.age = 1
        BY <2>1
      <3>3. QED
        BY <2>1, <3>1, <3>2
    <2>3. CASE per'.pc = "top" /\ ses'.first = ses.first /\ ses'.size = ses.size
      BY <2>1, <2>3
    <2>4. QED
      BY <1>0, <1>11, <2>2, <2>3 DEF Decide, Idle, Sessions
  <1>12. CASE Processor \/ Switch \/ Stop \/ OpenPath \/ ClosePath
    <2>1. UNCHANGED <<setup, ses, per, direct>>
      BY <1>12 DEF Processor, Rebuild, Resize, Bump, Publish, Switch, Stop, OpenPath, ClosePath,
                   KeepReference
    <2>2. QED
      BY <2>1
  <1>13. CASE MovePath \/ ServeIdle
    <2>1. per.pc = "idle" /\ per' = per
      BY <1>13 DEF MovePath, ServeIdle
    <2>2. QED
      BY <2>1
  <1>14. CASE StartSession
    <2>1. per'.pc = "prepare" /\ ses'.first = "opening"
      BY <1>0, <1>14 DEF StartSession, Sessions, Periods
    <2>2. QED
      BY <2>1
  <1>15. CASE StartSpeaker
    BY <1>15 DEF StartSpeaker, NoReference
  <1>16. CASE UNCHANGED vars
    BY <1>16 DEF vars
  <1>17. QED
    BY <1>1, <1>2, <1>3, <1>4, <1>5, <1>6, <1>7, <1>8, <1>9, <1>10, <1>11, <1>12, <1>13, <1>14, <1>15, <1>16
       DEF Next, Session, PathStep

\* Without a ring the echo reference is the preceding TX period whole, or
\* silence, with the two exceptions PreviousFrame names (direct_aec_ref_).
THEOREM PreviousIsPrevious == Spec => []PreviousFrame
  <1>1. Init => Typed /\ PreviousInv
    BY InitTyping DEF Init, PreviousInv, Idle, Running
  <1>2. Typed /\ PreviousInv /\ [Next]_vars => (Typed /\ PreviousInv)'
    BY StepTyping, PreviousStep
  <1>3. PreviousInv => PreviousFrame
    BY DEF PreviousInv, PreviousFrame, Running
  <1>4. QED
    BY <1>1, <1>2, <1>3, PTL DEF Spec

----------------------------------------------------------------------------
(* The frame size of a session.                                            *)

\* A session never has a revision the processor has not published, and but for
\* the one that is about to be published, and one taken over, the session's
\* size is that of its revision.
SpecInv ==
    /\ ses.rev <= proc.rev
    /\ per.pc = "decide" => per.rev <= proc.rev
    /\ /\ per.pc \in {"buffers", "top", "rx", "process", "tx", "check", "decide"}
       /\ proc.busy # "bump" /\ ses.rev = proc.rev /\ ~history.absorbed
       => ses.size = proc.size

\* prepare_audio_context_() reads the revision before the size, and a rebuild
\* publishes the size before the revision.
LEMMA SpecStep == ASSUME Typed, SpecInv, [Next]_vars PROVE SpecInv'
  <1> USE DEF SpecInv
  <1>0. /\ ses \in Sessions /\ per \in Periods /\ proc \in Processors
        /\ history \in [slips : Nat, absorbed : BOOLEAN]
    BY DEF Typed
  <1>1. CASE EndSession
    <2>1. proc' = proc /\ ses'.rev = 0 /\ per'.pc = "idle"
      BY <1>1 DEF EndSession, Idle, Fresh
    <2>2. QED
      BY <1>0, <2>1 DEF Processors
  <1>2. CASE PrepareRevision
    <2>1. proc' = proc /\ ses'.rev = proc.rev /\ per'.pc = "spec"
      BY <1>0, <1>2 DEF PrepareRevision, To, Sessions, Periods
    <2>2. QED
      BY <1>0, <2>1 DEF Processors
  <1>3. CASE PrepareSpec
    <2>1. proc' = proc /\ ses'.rev = ses.rev /\ ses'.size = proc.size /\ per'.pc = "buffers"
      BY <1>0, <1>3 DEF PrepareSpec, To, Sessions, Periods
    <2>2. QED
      BY <2>1
  <1>4. CASE Allocate
    <2>1. /\ UNCHANGED <<proc, ses>> /\ per.pc = "buffers" /\ per'.pc = "top"
          /\ history'.absorbed = history.absorbed
      BY <1>0, <1>4 DEF Allocate, To, Periods, ResetReference, KeepReference
    <2>2. QED
      BY <2>1
  <1>5. CASE Snapshot
    <2>1. /\ proc' = proc /\ ses'.rev = ses.rev /\ ses'.size = ses.size
          /\ per.pc = "top" /\ per'.pc \in {"rx", "process"}
          /\ history'.absorbed = history.absorbed
      BY <1>0, <1>5 DEF Snapshot, Sessions, Idle, ResetReference
    <2>2. QED
      BY <2>1
  <1>6. CASE ReadFrame \/ ReadFails
    <2>1. UNCHANGED <<proc, ses, history>> /\ per.pc = "rx" /\ per'.pc = "process"
      BY <1>0, <1>6 DEF ReadFrame, ReadFails, To, Periods
    <2>2. QED
      BY <2>1
  <1>7. CASE Process
    <2>1. /\ UNCHANGED <<proc, ses>> /\ per.pc = "process" /\ per'.pc = "tx"
          /\ history'.absorbed = history.absorbed
      BY <1>0, <1>7 DEF Process, Periods
    <2>2. QED
      BY <2>1
  <1>8. CASE Transmit
    <2>1. /\ UNCHANGED <<proc, history>> /\ per.pc = "tx" /\ per'.pc = "check"
          /\ ses'.rev = ses.rev /\ ses'.size = ses.size
      BY <1>0, <1>8 DEF Transmit, Idle, Sessions
    <2>2. QED
      BY <2>1
  <1>9. CASE CheckRevision
    <2>1. /\ UNCHANGED <<proc, ses, history>> /\ per.pc = "check" /\ per'.pc = "decide"
          /\ per'.rev = proc.rev
      BY <1>0, <1>9 DEF CheckRevision, Idle
    <2>2. QED
      BY <1>0, <2>1 DEF Processors
  <1>10. CASE Decide
    <2>1. proc' = proc /\ per.pc = "decide"
      BY <1>10 DEF Decide
    <2>2. CASE proc.ready /\ per.rev # ses.rev
      <3>1. per'.pc = "prepare" /\ ses'.rev = ses.rev
        BY <1>0, <1>10, <2>2 DEF Decide, Idle, Sessions
      <3>2. QED
        BY <2>1, <3>1
    <2>3. CASE ~(proc.ready /\ per.rev # ses.rev)
      <3>1. /\ per'.pc = "top" /\ ses'.size = ses.size
            /\ ses'.rev = ses.rev \/ ses'.rev = per.rev
            /\ history'.absorbed = (history.absorbed \/ per.rev # ses.rev)
        BY <1>0, <1>10, <2>3 DEF Decide, Idle, Sessions
      <3>2. QED
        BY <2>1, <3>1
    <2>4. QED
      BY <2>2, <2>3
  <1>11. CASE Processor
    <2>1. UNCHANGED <<ses, per, history>>
      BY <1>11 DEF Processor, Rebuild, Resize, Bump, Publish
    <2>2. CASE Rebuild \/ Publish
      <3>1. proc'.rev = proc.rev /\ proc'.size = proc.size /\ proc.busy # "bump"
        BY <1>0, <2>2 DEF Rebuild, Publish, Processors
      <3>2. QED
        BY <2>1, <3>1
    <2>3. CASE Resize
      <3>1. /\ proc'.rev = proc.rev /\ proc.busy # "bump"
            /\ proc'.busy = "bump" \/ proc'.size = proc.size
        BY <1>0, <2>3 DEF Resize, Processors
      <3>2. QED
        BY <2>1, <3>1
    <2>4. CASE Bump
      <3>1. proc'.rev = proc.rev + 1
        BY <1>0, <2>4 DEF Bump, Processors
      <3>2. ses.rev \in Nat /\ per.rev \in Nat /\ proc.rev \in Nat
        BY <1>0 DEF Sessions, Periods, Processors
      <3>3. QED
        BY <2>1, <3>1, <3>2
    <2>5. QED
      BY <1>11, <2>2, <2>3, <2>4 DEF Processor
  <1>12. CASE Switch \/ Stop \/ StartSpeaker \/ OpenPath \/ ClosePath
    <2>1. UNCHANGED <<ses, per, proc, history>>
      BY <1>12 DEF Switch, Stop, StartSpeaker, OpenPath, ClosePath, KeepReference
    <2>2. QED
      BY <2>1
  <1>13. CASE MovePath \/ ServeIdle
    <2>1. per.pc = "idle" /\ UNCHANGED <<ses, per, proc>>
      BY <1>13 DEF MovePath, ServeIdle
    <2>2. QED
      BY <2>1
  <1>14. CASE StartSession
    <2>1. per'.pc = "prepare" /\ ses'.rev = ses.rev /\ proc' = proc
      BY <1>0, <1>14 DEF StartSession, Sessions, Periods
    <2>2. QED
      BY <2>1
  <1>15. CASE UNCHANGED vars
    BY <1>15 DEF vars
  <1>16. QED
    BY <1>1, <1>2, <1>3, <1>4, <1>5, <1>6, <1>7, <1>8, <1>9, <1>10, <1>11, <1>12, <1>13, <1>14, <1>15
       DEF Next, Session, PathStep

\* A session with another frame size than the processor's has a revision that
\* differs too, so the end of a period ends it, unless it took the revision
\* over while the processor was not ready (frame_spec_revision()).
THEOREM SpecIsFollowed == Spec => []SpecFollowed
  <1>1. Init => Typed /\ SpecInv
    <2>1. ASSUME Init PROVE SpecInv
      <3>1. ses.rev = 0 /\ per.pc = "idle" /\ proc \in Processors
        BY <2>1, InitTyping DEF Init, Fresh, Idle, Typed
      <3>2. QED
        BY <3>1 DEF SpecInv, Processors
    <2>2. QED
      BY <2>1, InitTyping
  <1>2. Typed /\ SpecInv /\ [Next]_vars => (Typed /\ SpecInv)'
    BY StepTyping, SpecStep
  <1>3. SpecInv => SpecFollowed
    BY DEF SpecInv, SpecFollowed
  <1>4. QED
    BY <1>1, <1>2, <1>3, PTL DEF Spec

----------------------------------------------------------------------------
(* The reference from the ring.                                            *)

\* Oldest first, the frames of the ring are one period apart at least, but for
\* the ages that are not counted any further; the oldest is as far behind as
\* the periods that have left it there.  Between the take and the transmission
\* what remains is a period younger.
LagInv ==
    setup.reference = "ring" =>
        /\ per.pc \in {"rx", "process", "tx"} => per.mic = ses.micActive
        /\ per.pc = "tx" => per.ref <= 1 + history.slips
        /\ ses.micActive =>
             \A i \in 1 .. Len(ring) :
               /\ 1 <= ring[i]
               /\ (IF per.pc = "tx" THEN Older(ring[i]) ELSE ring[i]) <= 1 + history.slips
               /\ \A j \in i + 1 .. Len(ring) : ring[j] < ring[i] \/ ring[i] = MaxAge

\* The numbers of the model stay within its bounds, and the frame of a session
\* that runs periods fits into the buffers.
InFrame == {"rx", "process", "tx", "check", "decide"}

Bounded ==
    /\ setup \in Setups
    /\ run \in {"no", "yes", "stopped", "failed"} /\ room \in Sizes \cup {0}
    /\ proc.rev <= MaxRevision
    /\ proc.busy \in {"build", "bump"} => proc.rev < MaxRevision
    /\ ses.rev <= MaxRevision /\ per.rev <= MaxRevision
    /\ per.ref <= MaxAge /\ direct.age <= MaxAge /\ history.slips <= MaxAge
    /\ \A i \in 1 .. Len(ring) : ring[i] <= MaxAge
    /\ Len(ring) <= RingFrames
    /\ per.pc \in InFrame => ses.size <= room
    /\ per.pc = "top" /\ run = "yes" => ses.size <= room

\* One period more, where counting stops.
LEMMA OlderIs ==
    ASSUME NEW age \in Nat
    PROVE  /\ Older(age) \in Nat /\ Older(age) <= age + 1
           /\ age <= MaxAge => Older(age) <= MaxAge
           /\ age < MaxAge => Older(age) = age + 1
           /\ age = MaxAge => Older(age) = MaxAge
           /\ MaxAge \in Nat \ {0}
  BY FrameAssumption DEF Older

\* The frames that an admission leaves: those that were there, from the second
\* on when the ring was full, and the new one.
LEMMA Admitted ==
    ASSUME NEW queue \in Seq(Nat)
    PROVE  /\ Admit(queue) \in Seq(Nat)
           /\ Len(queue) <= RingFrames => Len(Admit(queue)) <= RingFrames
           /\ Len(Admit(queue)) \in Nat \ {0}
           /\ Admit(queue)[Len(Admit(queue))] = 1
           /\ \E skip \in {0, 1} : /\ Len(Admit(queue)) + skip = Len(queue) + 1
                                   /\ \A i \in 1 .. Len(Admit(queue)) - 1 :
                                         i + skip \in 1 .. Len(queue) /\ Admit(queue)[i] = queue[i + skip]
  <1>1. RingFrames \in Nat \ {0} /\ Len(queue) \in Nat
    BY FrameAssumption
  <1>2. CASE Len(queue) < RingFrames
    <2>1. Admit(queue) = Append(queue, 1)
      BY <1>2 DEF Admit
    <2>2. Append(queue, 1) \in Seq(Nat) /\ Len(Append(queue, 1)) = Len(queue) + 1
      OBVIOUS
    <2>3. \A i \in 1 .. Len(queue) : Append(queue, 1)[i] = queue[i]
      OBVIOUS
    <2>4. Append(queue, 1)[Len(queue) + 1] = 1
      OBVIOUS
    <2> HIDE DEF Admit
    <2>5. \A i \in 1 .. Len(Admit(queue)) - 1 : i + 0 \in 1 .. Len(queue) /\ Admit(queue)[i] = queue[i + 0]
      BY <1>1, <2>1, <2>2, <2>3
    <2>6. QED
      BY <1>1, <1>2, <2>1, <2>2, <2>4, <2>5
  <1>3. CASE ~(Len(queue) < RingFrames)
    <2> DEFINE rest == Tail(queue)
    <2>1. Len(queue) > 0
      BY <1>1, <1>3
    <2>2. rest \in Seq(Nat) /\ Len(rest) = Len(queue) - 1
      BY <2>1
    <2>3. \A i \in 1 .. Len(rest) : rest[i] = queue[i + 1] /\ i + 1 \in 1 .. Len(queue)
      BY <1>1, <2>1, <2>2
    <2>4. Admit(queue) = Append(rest, 1)
      BY <1>3 DEF Admit
    <2> HIDE DEF rest, Admit
    <2>5. Append(rest, 1) \in Seq(Nat) /\ Len(Append(rest, 1)) = Len(rest) + 1
      BY <2>2
    <2>6. \A i \in 1 .. Len(rest) : Append(rest, 1)[i] = rest[i]
      BY <2>2
    <2>7. Append(rest, 1)[Len(rest) + 1] = 1
      BY <2>2
    <2>8. \A i \in 1 .. Len(Admit(queue)) - 1 : i + 1 \in 1 .. Len(queue) /\ Admit(queue)[i] = queue[i + 1]
      BY <1>1, <2>1, <2>2, <2>3, <2>4, <2>5, <2>6
    <2>9. QED
      BY <1>1, <1>3, <2>2, <2>4, <2>5, <2>7, <2>8
  <1>4. QED
    BY <1>2, <1>3

\* The ring a period later.
Aged == [i \in 1 .. Len(ring) |-> Older(ring[i])]

LEMMA AgedIs ==
    ASSUME ring \in Seq(Nat)
    PROVE  /\ Aged \in Seq(Nat) /\ Len(Aged) = Len(ring) /\ Len(ring) \in Nat
           /\ \A i \in 1 .. Len(ring) : Aged[i] = Older(ring[i]) /\ ring[i] \in Nat
  <1>1. Len(ring) \in Nat /\ \A i \in 1 .. Len(ring) : ring[i] \in Nat
    OBVIOUS
  <1>2. \A i \in 1 .. Len(ring) : Older(ring[i]) \in Nat
    BY <1>1, OlderIs
  <1>3. QED
    BY <1>1, <1>2 DEF Aged

\* Decreasing ages, with 1 for the least, decrease after an admission.
LEMMA AdmitDecreases ==
    ASSUME NEW bound \in Nat, bound >= 1, Typed,
           \A i \in 1 .. Len(ring) : ring[i] <= MaxAge,
           \A i \in 1 .. Len(ring) :
               /\ 1 <= ring[i] /\ Older(ring[i]) <= bound
               /\ \A j \in i + 1 .. Len(ring) : ring[j] < ring[i] \/ ring[i] = MaxAge,
           ring' \in {Aged, Admit(Aged)}
    PROVE  \A i \in 1 .. Len(ring') :
               /\ 1 <= ring'[i] /\ ring'[i] <= bound
               /\ \A j \in i + 1 .. Len(ring') : ring'[j] < ring'[i] \/ ring'[i] = MaxAge
  <1>1. /\ Aged \in Seq(Nat) /\ Len(Aged) = Len(ring) /\ Len(ring) \in Nat
        /\ \A i \in 1 .. Len(ring) : Aged[i] = Older(ring[i]) /\ ring[i] \in Nat
    BY AgedIs DEF Typed
  <1>2. ASSUME NEW i \in 1 .. Len(ring)
        PROVE  (2 <= Aged[i] \/ Aged[i] = MaxAge) /\ 1 <= Aged[i] /\ Aged[i] <= bound /\ Aged[i] \in Nat
    <2>1. ring[i] \in Nat /\ 1 <= ring[i] /\ ring[i] <= MaxAge /\ Older(ring[i]) <= bound
      BY <1>1, <1>2
    <2>2. Aged[i] = Older(ring[i])
      BY <1>1, <1>2
    <2>3. MaxAge \in Nat \ {0}
      BY FrameAssumption
    <2>4. QED
      BY <2>1, <2>2, <2>3 DEF Older
  <1>3. ASSUME NEW i \in 1 .. Len(ring), NEW j \in i + 1 .. Len(ring)
        PROVE  Aged[j] < Aged[i] \/ Aged[i] = MaxAge
    <2>1. j \in 1 .. Len(ring)
      BY <1>1
    <2>2. ring[j] \in Nat /\ ring[i] \in Nat /\ ring[i] <= MaxAge /\ ring[j] <= MaxAge
      BY <1>1, <2>1
    <2>3. ring[j] < ring[i] \/ ring[i] = MaxAge
      OBVIOUS
    <2>4. Aged[i] = Older(ring[i]) /\ Aged[j] = Older(ring[j])
      BY <1>1, <2>1
    <2>5. QED
      BY <2>2, <2>3, <2>4, FrameAssumption DEF Older
  <1>4. CASE ring' = Aged
    BY <1>1, <1>2, <1>3, <1>4
  <1>5. CASE ring' = Admit(Aged)
    <2> DEFINE new == Admit(Aged)
    <2>1. /\ new \in Seq(Nat) /\ Len(new) \in Nat \ {0} /\ new[Len(new)] = 1
      BY <1>1, Admitted
    <2>2. PICK skip \in {0, 1} : /\ Len(new) + skip = Len(Aged) + 1
                                 /\ \A i \in 1 .. Len(new) - 1 :
                                       i + skip \in 1 .. Len(Aged) /\ new[i] = Aged[i + skip]
      BY <1>1, Admitted
    <2> HIDE DEF new
    <2>3. ASSUME NEW i \in 1 .. Len(new)
          PROVE  1 <= new[i] /\ new[i] <= bound
      <3>1. CASE i = Len(new)
        BY <2>1, <3>1
      <3>2. CASE i # Len(new)
        <4>1. i \in 1 .. Len(new) - 1
          BY <2>1, <3>2
        <4>2. new[i] = Aged[i + skip] /\ i + skip \in 1 .. Len(ring)
          BY <1>1, <2>2, <4>1
        <4>3. QED
          BY <1>2, <4>2
      <3>3. QED
        BY <3>1, <3>2
    <2>4. ASSUME NEW i \in 1 .. Len(new), NEW j \in i + 1 .. Len(new)
          PROVE  new[j] < new[i] \/ new[i] = MaxAge
      <3>1. i \in 1 .. Len(new) - 1
        BY <2>1
      <3>2. new[i] = Aged[i + skip] /\ i + skip \in 1 .. Len(ring)
        BY <1>1, <2>2, <3>1
      <3>3. CASE j = Len(new)
        BY <1>2, <2>1, <3>2, <3>3
      <3>4. CASE j # Len(new)
        <4>1. j \in 1 .. Len(new) - 1
          BY <2>1, <3>4
        <4>2. new[j] = Aged[j + skip] /\ j + skip \in 1 .. Len(ring)
          BY <1>1, <2>2, <4>1
        <4>3. j + skip \in (i + skip) + 1 .. Len(ring)
          BY <1>1, <4>2, <3>2
        <4>4. QED
          BY <1>3, <3>2, <4>2, <4>3
      <3>5. QED
        BY <3>3, <3>4
    <2>5. ring' = new
      BY <1>5 DEF new
    <2>6. QED
      BY <2>3, <2>4, <2>5
  <1>6. QED
    BY <1>4, <1>5

\* What is discarded leaves the ring empty, and nothing has slipped.
LEMMA ResetLag ==
    ASSUME Typed, ResetReference
    PROVE  Len(ring') = 0 /\ history'.slips = 0
  BY DEF ResetReference, Typed

\* Whoever acts outside the session keeps the ring or empties it.
LEMMA OthersLag ==
    ASSUME Typed, LagInv, Others
    PROVE  LagInv'
  <1>1. setup' = setup
    BY DEF Others, PathStep, OpenPath, MovePath, ClosePath, ServeIdle, StartSession, Processor, Rebuild,
           Resize, Bump, Publish, Switch, StartSpeaker, Stop
  <1>2. CASE UNCHANGED <<ring, history>>
    <2>1. CASE StartSession
      <3>1. /\ per.pc = "idle" /\ per' = [per EXCEPT !.pc = "prepare"] /\ ses' = [ses EXCEPT !.first = "opening"]
        BY <2>1 DEF StartSession
      <3>2. per'.pc = "prepare" /\ ses'.micActive = ses.micActive
        BY <3>1 DEF Typed, Periods, Sessions
      <3>3. QED
        BY <1>1, <1>2, <3>1, <3>2 DEF LagInv, Older
    <2>2. CASE ~StartSession
      <3>1. UNCHANGED <<per, ses>>
        BY <2>2 DEF Others, PathStep, OpenPath, MovePath, ClosePath, ServeIdle, Processor, Rebuild,
                    Resize, Bump, Publish, Switch, StartSpeaker, Stop
      <3>2. QED
        BY <1>1, <1>2, <3>1 DEF LagInv, Older
    <2>3. QED
      BY <2>1, <2>2
  <1>3. CASE ~(UNCHANGED <<ring, history>>)
    <2>1. ResetReference /\ per.pc = "idle" /\ UNCHANGED <<per, ses>>
      BY <1>3 DEF Others, PathStep, OpenPath, MovePath, ClosePath, ServeIdle, StartSession, Processor, Rebuild,
                  Resize, Bump, Publish, Switch, StartSpeaker, Stop, KeepReference
    <2>2. Len(ring') = 0
      BY <2>1, ResetLag
    <2>3. QED
      BY <2>1, <2>2 DEF LagInv
  <1>4. QED
    BY <1>2, <1>3

\* The top of a period: the ring is kept only while the microphone stays wanted.
LEMMA SnapshotLag ==
    ASSUME Typed, LagInv, Snapshot
    PROVE  LagInv'
  <1> DEFINE start == [Idle EXCEPT !.pc = IF On("rx") THEN "rx" ELSE "process", !.mic = user.mic,
                                   !.enabled = user.enabled, !.ready = user.enabled /\ proc.ready]
             edge == setup.reference = "ring" /\ user.mic # ses.micActive
  <1>1. setup' = setup /\ ses' = [ses EXCEPT !.micActive = user.mic] /\ per' = start /\ per.pc = "top"
    BY DEF Snapshot
  <1>2. per'.pc \in {"rx", "process"} /\ per'.mic = user.mic
    BY <1>1 DEF Idle
  <1>3. ses'.micActive = user.mic
    BY <1>1 DEF Typed, Sessions
  <1>4. CASE user.reset
    <2>1. Len(ring') = 0
      BY <1>4, ResetLag DEF Snapshot
    <2>2. QED
      BY <1>1, <1>2, <1>3, <2>1 DEF LagInv
  <1>5. CASE ~user.reset /\ edge
    <2>1. Len(ring') = 0
      BY <1>5 DEF Snapshot
    <2>2. QED
      BY <1>1, <1>2, <1>3, <2>1 DEF LagInv
  <1>6. CASE ~user.reset /\ ~edge
    <2>1. UNCHANGED <<ring, history>>
      BY <1>6 DEF Snapshot
    <2>2. setup.reference = "ring" => ses.micActive = user.mic
      BY <1>6
    <2>3. QED
      BY <1>1, <1>2, <1>3, <2>1, <2>2 DEF LagInv
  <1>7. QED
    BY <1>4, <1>5, <1>6

\* The period takes the oldest frame, or leaves it and is counted.
LEMMA ProcessLag ==
    ASSUME Typed, Bounded, LagInv, Process
    PROVE  LagInv'
  <1>1. SUFFICES ASSUME setup.reference = "ring" PROVE LagInv'
    BY DEF LagInv, Process
  <1>2. /\ per.mic = ses.micActive /\ UNCHANGED <<setup, ses>> /\ per.pc = "process"
    BY <1>1 DEF LagInv, Process
  <1>3. PICK answer \in Answers :
            per' = [per EXCEPT !.pc = "tx",
                               !.ref = IF Referenced /\ ring # <<>> THEN Head(ring) ELSE 0,
                               !.out = Outcome(answer)]
    BY <1>1 DEF Process
  <1>4. /\ per'.pc = "tx" /\ per'.mic = per.mic
        /\ per'.ref = IF Referenced /\ ring # <<>> THEN Head(ring) ELSE 0
    BY <1>3 DEF Typed, Periods
  <1>5. /\ ring \in Seq(Nat) /\ Len(ring) \in Nat /\ history.slips \in Nat /\ MaxAge \in Nat \ {0}
        /\ \A i \in 1 .. Len(ring) : ring[i] \in Nat /\ ring[i] <= MaxAge
        /\ history.slips <= MaxAge
    BY FrameAssumption DEF Typed, Bounded
  <1>6. ses.micActive =>
          \A i \in 1 .. Len(ring) :
              /\ 1 <= ring[i] /\ ring[i] <= 1 + history.slips
              /\ \A j \in i + 1 .. Len(ring) : ring[j] < ring[i] \/ ring[i] = MaxAge
    BY <1>1, <1>2 DEF LagInv
  <1>7. CASE Referenced /\ ring # <<>>
    <2>1. ses.micActive /\ Len(ring) > 0
      BY <1>2, <1>5, <1>7 DEF Referenced, Dispatched
    <2>2. ring' = Tail(ring) /\ history' = history
      BY <1>1, <1>7 DEF Process
    <2>3. Head(ring) = ring[1] /\ ring[1] <= 1 + history.slips
      BY <1>5, <1>6, <2>1
    <2>4. Len(ring') = Len(ring) - 1 /\ \A i \in 1 .. Len(ring') : ring'[i] = ring[i + 1] /\ i + 1 \in 1 .. Len(ring)
      BY <1>5, <2>1, <2>2
    <2>5. ASSUME NEW i \in 1 .. Len(ring')
          PROVE  /\ 1 <= ring'[i] /\ Older(ring'[i]) <= 1 + history'.slips
                 /\ \A j \in i + 1 .. Len(ring') : ring'[j] < ring'[i] \/ ring'[i] = MaxAge
      <3>1. ring'[i] = ring[i + 1] /\ i + 1 \in 1 .. Len(ring) /\ i + 1 \in 1 + 1 .. Len(ring) /\ 1 \in 1 .. Len(ring)
        BY <1>5, <2>1, <2>4
      <3>2. ring[i + 1] < ring[1] \/ ring[1] = MaxAge
        BY <1>6, <2>1, <3>1
      <3>3. ring[i + 1] \in Nat /\ ring[1] \in Nat /\ 1 <= ring[i + 1] /\ ring[i + 1] <= MaxAge
        BY <1>5, <1>6, <2>1, <3>1
      <3>4. Older(ring[i + 1]) <= 1 + history.slips
        BY <1>5, <2>3, <3>2, <3>3 DEF Older
      <3>5. ASSUME NEW j \in i + 1 .. Len(ring') PROVE ring'[j] < ring'[i] \/ ring'[i] = MaxAge
        <4>1. j + 1 \in (i + 1) + 1 .. Len(ring) /\ j \in 1 .. Len(ring')
          BY <1>5, <2>1, <2>4
        <4>2. ring'[j] = ring[j + 1]
          BY <2>4, <4>1
        <4>3. QED
          BY <1>6, <2>1, <3>1, <4>1, <4>2
      <3>6. QED
        BY <2>2, <3>1, <3>3, <3>4, <3>5
    <2>6. QED
      BY <1>2, <1>4, <1>7, <2>2, <2>3, <2>5 DEF LagInv
  <1>8. CASE ~(Referenced /\ ring # <<>>)
    <2>1. ring' = ring /\ per'.ref = 0
      BY <1>1, <1>4, <1>8 DEF Process
    <2>2. history'.slips \in Nat
      BY <1>5, OlderIs DEF Process, Typed
    <2>3. ASSUME ses.micActive, NEW i \in 1 .. Len(ring)
          PROVE  Older(ring[i]) <= 1 + history'.slips
      <3>1. ring # <<>>
        BY <1>5, <2>3
      <3>2. history' = [history EXCEPT !.slips = Older(history.slips)]
        BY <1>1, <1>2, <1>8, <2>3, <3>1 DEF Process
      <3>3. history'.slips = Older(history.slips)
        BY <3>2 DEF Typed
      <3>4. ring[i] \in Nat /\ ring[i] <= MaxAge /\ ring[i] <= 1 + history.slips
        BY <1>5, <1>6, <2>3
      <3>5. QED
        BY <1>5, <3>3, <3>4 DEF Older
    <2>4. QED
      BY <1>2, <1>4, <1>6, <2>1, <2>2, <2>3 DEF LagInv
  <1>9. QED
    BY <1>7, <1>8

\* The transmission: what is in the ring is a period older, and one frame younger
\* than all of it is added.
LEMMA TransmitLag ==
    ASSUME Typed, Bounded, LagInv, Transmit
    PROVE  LagInv'
  <1>1. SUFFICES ASSUME setup.reference = "ring", ses.micActive
                 PROVE  \A i \in 1 .. Len(ring') :
                          /\ 1 <= ring'[i] /\ ring'[i] <= 1 + history'.slips
                          /\ \A j \in i + 1 .. Len(ring') : ring'[j] < ring'[i] \/ ring'[i] = MaxAge
    <2>1. setup' = setup /\ ses' = [ses EXCEPT !.first = "no"] /\ per' = [Idle EXCEPT !.pc = "check"]
      BY DEF Transmit
    <2>2. ses'.micActive = ses.micActive /\ per'.pc = "check"
      BY <2>1 DEF Typed, Sessions, Idle
    <2>3. QED
      BY <2>1, <2>2 DEF LagInv
  <1>2. ring' \in {Aged, Admit(Aged)} /\ history' = history /\ per.pc = "tx"
    BY DEF Transmit, Aged
  <1>3. history.slips \in Nat
    BY DEF Typed
  <1>4. \A i \in 1 .. Len(ring) :
            /\ 1 <= ring[i] /\ Older(ring[i]) <= 1 + history.slips
            /\ \A j \in i + 1 .. Len(ring) : ring[j] < ring[i] \/ ring[i] = MaxAge
    BY <1>1, <1>2 DEF LagInv
  <1>5. \A i \in 1 .. Len(ring) : ring[i] <= MaxAge
    BY DEF Bounded
  <1>6. 1 + history.slips \in Nat /\ 1 + history.slips >= 1
    BY <1>3
  <1>7. QED
    BY <1>2, <1>4, <1>5, <1>6, AdmitDecreases

\* A session that is left or made anew has yet to ask for the ring; the other
\* steps of a period leave it alone.
LEMMA SessionLag ==
    ASSUME Typed, Bounded, LagInv, Session
    PROVE  LagInv'
  <1>1. CASE EndSession
    <2>1. per' = Idle /\ ses' = Fresh
      BY <1>1 DEF EndSession
    <2>2. per'.pc = "idle" /\ ~ses'.micActive
      BY <2>1 DEF Idle, Fresh
    <2>3. QED
      BY <2>2 DEF LagInv
  <1>2. CASE PrepareRevision
    <2>1. per' = [per EXCEPT !.pc = "spec"] /\ ses' = [ses EXCEPT !.rev = proc.rev, !.micActive = FALSE]
      BY <1>2 DEF PrepareRevision, To
    <2>2. per'.pc = "spec" /\ ~ses'.micActive
      BY <2>1 DEF Typed, Periods, Sessions
    <2>3. QED
      BY <2>2 DEF LagInv
  <1>3. CASE PrepareSpec
    <2>1. per' = [per EXCEPT !.pc = "buffers"] /\ ses' = [ses EXCEPT !.size = proc.size] /\ per.pc = "spec"
          /\ UNCHANGED <<setup, ring, history>>
      BY <1>3 DEF PrepareSpec, To
    <2>2. per'.pc = "buffers" /\ ses'.micActive = ses.micActive
      BY <2>1 DEF Typed, Periods, Sessions
    <2>3. QED
      BY <2>1, <2>2 DEF LagInv
  <1>4. CASE Allocate
    <2>1. per' = [per EXCEPT !.pc = "top"] /\ per.pc = "buffers" /\ UNCHANGED <<setup, ses>>
      BY <1>4 DEF Allocate, To
    <2>2. per'.pc = "top"
      BY <2>1 DEF Typed, Periods
    <2>3. CASE ResetReference
      BY <2>1, <2>2, <2>3, ResetLag DEF LagInv
    <2>4. CASE KeepReference
      BY <2>1, <2>2, <2>4 DEF LagInv, KeepReference
    <2>5. QED
      BY <1>4, <2>3, <2>4 DEF Allocate
  <1>5. CASE ReadFrame \/ ReadFails
    <2>1. /\ per.pc = "rx" /\ UNCHANGED <<setup, ses, ring, history>>
          /\ \E frame \in {"none", "new", "old"} : per' = [per EXCEPT !.pc = "process", !.frame = frame]
      <3>1. CASE ReadFrame
        BY <1>5, <3>1 DEF ReadFrame
      <3>2. CASE ReadFails
        <4>1. per' = [per EXCEPT !.pc = "process", !.frame = per.frame]
          BY <3>2 DEF ReadFails, To, Typed, Periods
        <4>2. QED
          BY <3>2, <4>1 DEF ReadFails, Typed, Periods
      <3>3. QED
        BY <1>5, <3>1, <3>2
    <2>2. per'.pc = "process" /\ per'.mic = per.mic
      BY <2>1 DEF Typed, Periods
    <2>3. QED
      BY <2>1, <2>2 DEF LagInv
  <1>6. CASE CheckRevision
    <2>1. per' = [Idle EXCEPT !.pc = "decide", !.rev = proc.rev] /\ per.pc = "check"
          /\ UNCHANGED <<setup, ses, ring, history>>
      BY <1>6 DEF CheckRevision
    <2>2. per'.pc = "decide"
      BY <2>1 DEF Idle
    <2>3. QED
      BY <2>1, <2>2 DEF LagInv
  <1>7. CASE Decide
    <2>1. /\ per' = [Idle EXCEPT !.pc = "prepare"] \/ per' = [Idle EXCEPT !.pc = "top"]
          /\ ses' = ses \/ ses' = [ses EXCEPT !.first = "session"] \/ ses' = [ses EXCEPT !.rev = per.rev]
          /\ history' = history \/ history' = [history EXCEPT !.absorbed = history.absorbed \/ per.rev # ses.rev]
          /\ per.pc = "decide" /\ UNCHANGED <<setup, ring>>
      BY <1>7 DEF Decide
    <2>2. per'.pc \in {"prepare", "top"}
      BY <2>1 DEF Idle
    <2>3. ses'.micActive = ses.micActive
      BY <2>1 DEF Typed, Sessions
    <2>4. history'.slips = history.slips
      BY <2>1 DEF Typed
    <2>5. QED
      BY <2>1, <2>2, <2>3, <2>4 DEF LagInv
  <1>8. QED
    BY <1>1, <1>2, <1>3, <1>4, <1>5, <1>6, <1>7, SnapshotLag, ProcessLag, TransmitLag DEF Session

----------------------------------------------------------------------------
(* The bounds.                                                             *)

\* The reference is discarded, or kept.
LEMMA ResetBounds ==
    ASSUME Typed, Bounded, ResetReference \/ KeepReference
    PROVE  /\ direct'.age <= MaxAge /\ history'.slips <= MaxAge /\ Len(ring') <= RingFrames
           /\ \A i \in 1 .. Len(ring') : ring'[i] <= MaxAge
  <1>1. CASE ResetReference
    <2>1. direct'.age = 0 /\ Len(ring') = 0
      BY <1>1 DEF ResetReference, NoReference
    <2>2. history'.slips = 0
      BY <1>1, ResetLag
    <2>3. QED
      BY <2>1, <2>2, FrameAssumption
  <1>2. CASE KeepReference
    BY <1>2 DEF KeepReference, Bounded
  <1>3. QED
    BY <1>1, <1>2

\* Nobody else moves the period on, and main only ends a session.
LEMMA OthersBounds ==
    ASSUME Typed, Bounded, Others
    PROVE  Bounded'
  <1>1. CASE PathStep
    <2>1. /\ UNCHANGED <<setup, proc, room>> /\ per.pc = "idle"
          /\ run' \in {"no", "yes", "stopped", "failed"} /\ (ResetReference \/ KeepReference)
      BY <1>1 DEF PathStep, OpenPath, MovePath, ClosePath, ServeIdle, StartSession, Bounded, KeepReference
    <2>2. ses' = ses \/ ses' = [ses EXCEPT !.first = "opening"]
      BY <1>1 DEF PathStep, OpenPath, MovePath, ClosePath, ServeIdle, StartSession
    <2>3. per' = per \/ per' = [per EXCEPT !.pc = "prepare"]
      BY <1>1 DEF PathStep, OpenPath, MovePath, ClosePath, ServeIdle, StartSession
    <2>4. ses'.rev = ses.rev
      BY <2>2 DEF Typed, Sessions
    <2>5. per'.rev = per.rev /\ per'.ref = per.ref /\ per'.pc \in {"idle", "prepare"}
      BY <2>1, <2>3 DEF Typed, Periods
    <2>6. QED
      BY <2>1, <2>4, <2>5, ResetBounds DEF Bounded, InFrame
  <1>2. CASE Processor
    <2>1. UNCHANGED <<setup, run, room, ses, per, direct, ring, history>>
      BY <1>2 DEF Processor, Rebuild, Resize, Bump, Publish
    <2>2. proc'.rev <= MaxRevision /\ (proc'.busy \in {"build", "bump"} => proc'.rev < MaxRevision)
      <3>1. CASE Rebuild
        BY <3>1 DEF Rebuild, Typed, Processors, Bounded
      <3>2. CASE Resize
        BY <3>2 DEF Resize, Typed, Processors, Bounded
      <3>3. CASE Bump
        <4>1. proc' = [proc EXCEPT !.rev = proc.rev + 1, !.busy = "publish"] /\ proc.rev < MaxRevision
          BY <3>3 DEF Bump, Bounded
        <4>2. proc'.rev = proc.rev + 1 /\ proc'.busy = "publish" /\ proc.rev \in Nat
          BY <4>1 DEF Typed, Processors
        <4>3. QED
          BY <4>1, <4>2, FrameAssumption
      <3>4. CASE Publish
        BY <3>4 DEF Publish, Typed, Processors, Bounded
      <3>5. QED
        BY <1>2, <3>1, <3>2, <3>3, <3>4 DEF Processor
    <2>3. QED
      BY <2>1, <2>2 DEF Bounded
  <1>3. CASE Switch
    BY <1>3 DEF Switch, Bounded
  <1>4. CASE StartSpeaker
    <2>1. direct'.age = 0
      BY <1>4 DEF StartSpeaker, NoReference
    <2>2. QED
      BY <1>4, <2>1, FrameAssumption DEF StartSpeaker, Bounded
  <1>5. CASE Stop
    BY <1>5 DEF Stop, Bounded
  <1>6. QED
    BY <1>1, <1>2, <1>3, <1>4, <1>5 DEF Others

\* The buffers are as large as the frame, or there are none and the session ends.
LEMMA AllocateBounds ==
    ASSUME Typed, Bounded, Allocate
    PROVE  Bounded'
  <1>1. /\ UNCHANGED <<setup, proc, ses>> /\ per' = [per EXCEPT !.pc = "top"]
        /\ ResetReference \/ KeepReference
    BY DEF Allocate, To
  <1>2. per'.pc = "top" /\ per'.rev = per.rev /\ per'.ref = per.ref
    BY <1>1 DEF Typed, Periods
  <1>3. ses.size \in Sizes /\ room \in Sizes \cup {0} /\ run \in {"no", "yes", "stopped", "failed"}
    BY DEF Typed, Sessions, Bounded
  <1>4. room' \in Sizes \cup {0} /\ run' \in {"no", "yes", "stopped", "failed"}
    BY <1>3 DEF Allocate, Failed
  <1>5. run' = "yes" => ses'.size <= room'
    <2>1. room' = 0 => run' # "yes"
      BY <1>3 DEF Allocate, Failed
    <2>2. ses.size \in Nat
      BY <1>3, FrameAssumption
    <2>3. room' # 0 => ses.size <= room'
      BY <1>3, <2>2 DEF Allocate
    <2>4. QED
      BY <1>1, <2>1, <2>3
  <1>6. QED
    BY <1>1, <1>2, <1>4, <1>5, ResetBounds DEF Bounded, InFrame

\* The steps of a period.
LEMMA SnapshotBounds ==
    ASSUME Typed, Bounded, Snapshot
    PROVE  Bounded'
  <1> DEFINE start == [Idle EXCEPT !.pc = IF On("rx") THEN "rx" ELSE "process", !.mic = user.mic,
                                   !.enabled = user.enabled, !.ready = user.enabled /\ proc.ready]
  <1>1. /\ UNCHANGED <<setup, proc, run, room>> /\ per' = start /\ per.pc = "top" /\ run = "yes"
        /\ ses' = [ses EXCEPT !.micActive = user.mic]
    BY DEF Snapshot
  <1>2. per'.rev = 0 /\ per'.ref = 0
    BY <1>1 DEF Idle
  <1>3. ses'.rev = ses.rev /\ ses'.size = ses.size
    BY <1>1 DEF Typed, Sessions
  <1>4. /\ direct'.age <= MaxAge /\ history'.slips <= MaxAge /\ Len(ring') <= RingFrames
        /\ \A i \in 1 .. Len(ring') : ring'[i] <= MaxAge
    <2>1. CASE user.reset
      BY <2>1, ResetBounds DEF Snapshot
    <2>2. CASE ~user.reset
      <3>1. direct' = direct
        BY <2>2 DEF Snapshot
      <3>2. ring' = ring \/ ring' = <<>>
        BY <2>2 DEF Snapshot
      <3>3. history' = history \/ history' = [history EXCEPT !.slips = 0]
        BY <2>2 DEF Snapshot
      <3>4. history'.slips <= MaxAge
        BY <3>3, FrameAssumption DEF Typed, Bounded
      <3>5. Len(ring') <= RingFrames /\ \A i \in 1 .. Len(ring') : ring'[i] <= MaxAge
        <4>1. CASE ring' = ring
          BY <4>1 DEF Bounded
        <4>2. CASE ring' = <<>>
          BY <4>2, FrameAssumption
        <4>3. QED
          BY <3>2, <4>1, <4>2
      <3>6. QED
        BY <3>1, <3>4, <3>5 DEF Bounded
    <2>3. QED
      BY <2>1, <2>2
  <1>5. 0 <= MaxAge /\ 0 <= MaxRevision
    BY FrameAssumption
  <1>6. QED
    BY <1>1, <1>2, <1>3, <1>4, <1>5 DEF Bounded

LEMMA ProcessBounds ==
    ASSUME Typed, Bounded, Process
    PROVE  Bounded'
  <1>1. /\ UNCHANGED <<setup, proc, run, room, ses, direct>> /\ per.pc = "process"
        /\ ring' = ring \/ (ring # <<>> /\ ring' = Tail(ring))
        /\ history' = history \/ history' = [history EXCEPT !.slips = Older(history.slips)]
    BY DEF Process
  <1>2. PICK reference \in 0 .. MaxAge :
            \E answer \in Answers :
                per' = [per EXCEPT !.pc = "tx", !.ref = reference, !.out = Outcome(answer)]
    <2>1. ring # <<>> => Head(ring) \in 0 .. MaxAge
      <3>1. SUFFICES ASSUME ring # <<>> PROVE Head(ring) \in 0 .. MaxAge
        OBVIOUS
      <3>2. Head(ring) = ring[1] /\ ring[1] \in Nat /\ 1 \in 1 .. Len(ring)
        BY <3>1 DEF Typed
      <3>3. QED
        BY <3>2, FrameAssumption DEF Bounded
    <2>2. direct.age \in 0 .. MaxAge
      BY FrameAssumption DEF Typed, References, Bounded
    <2>3. 0 \in 0 .. MaxAge
      BY FrameAssumption
    <2>4. QED
      BY <2>1, <2>2, <2>3 DEF Process
  <1>3. per'.pc = "tx" /\ per'.ref <= MaxAge /\ per'.rev = per.rev
    BY <1>2, FrameAssumption DEF Typed, Periods
  <1>4. history'.slips <= MaxAge
    BY <1>1, OlderIs DEF Typed, Bounded
  <1>5. Len(ring') <= RingFrames /\ \A i \in 1 .. Len(ring') : ring'[i] <= MaxAge
    <2>1. CASE ring' = ring
      BY <2>1 DEF Bounded
    <2>2. CASE ring # <<>> /\ ring' = Tail(ring)
      <3>1. ring \in Seq(Nat) /\ Len(ring) \in Nat \ {0} /\ RingFrames \in Nat
        BY <2>2, FrameAssumption DEF Typed
      <3>2. Len(ring') = Len(ring) - 1
        BY <2>2, <3>1
      <3>3. \A i \in 1 .. Len(ring') : ring'[i] = ring[i + 1] /\ i + 1 \in 1 .. Len(ring)
        BY <2>2, <3>1
      <3>4. QED
        BY <3>1, <3>2, <3>3 DEF Bounded
    <2>3. QED
      BY <1>1, <2>1, <2>2
  <1>6. QED
    BY <1>1, <1>3, <1>4, <1>5 DEF Bounded, InFrame

LEMMA TransmitBounds ==
    ASSUME Typed, Bounded, Transmit
    PROVE  Bounded'
  <1>1. /\ UNCHANGED <<setup, proc, room, history>> /\ per.pc = "tx"
        /\ run' \in {"no", "yes", "stopped", "failed"}
        /\ ses' = [ses EXCEPT !.first = "no"] /\ per' = [Idle EXCEPT !.pc = "check"]
    BY DEF Transmit, Failed, Bounded
  <1>2. ses'.rev = ses.rev /\ ses'.size = ses.size
    BY <1>1 DEF Typed, Sessions
  <1>3. per'.pc = "check" /\ per'.ref = 0 /\ per'.rev = 0
    BY <1>1 DEF Idle
  <1>4. direct'.age <= MaxAge
    BY FrameAssumption DEF Transmit, NoReference
  <1>5. ring' \in {Aged, Admit(Aged)}
    BY DEF Transmit, Aged
  <1>6. /\ Aged \in Seq(Nat) /\ Len(Aged) = Len(ring) /\ Len(ring) \in Nat
        /\ \A i \in 1 .. Len(ring) : Aged[i] <= MaxAge
    <2>1. /\ Aged \in Seq(Nat) /\ Len(Aged) = Len(ring) /\ Len(ring) \in Nat
          /\ \A i \in 1 .. Len(ring) : Aged[i] = Older(ring[i]) /\ ring[i] \in Nat
      BY AgedIs DEF Typed
    <2>2. QED
      BY <2>1, OlderIs DEF Bounded
  <1>7. Len(ring') <= RingFrames /\ \A i \in 1 .. Len(ring') : ring'[i] <= MaxAge
    <2>1. CASE ring' = Aged
      BY <1>6, <2>1 DEF Bounded
    <2>2. CASE ring' = Admit(Aged)
      <3> DEFINE new == Admit(Aged)
      <3>1. Len(new) \in Nat \ {0} /\ new[Len(new)] = 1 /\ Len(new) <= RingFrames
        BY <1>6, Admitted DEF Bounded
      <3>2. PICK skip \in {0, 1} : \A i \in 1 .. Len(new) - 1 :
                                     i + skip \in 1 .. Len(Aged) /\ new[i] = Aged[i + skip]
        BY <1>6, Admitted
      <3>3. MaxAge \in Nat \ {0}
        BY FrameAssumption
      <3> HIDE DEF new
      <3>4. ASSUME NEW i \in 1 .. Len(new) PROVE new[i] <= MaxAge
        <4>1. CASE i = Len(new)
          BY <3>1, <3>3, <4>1
        <4>2. CASE i # Len(new)
          <5>1. i \in 1 .. Len(new) - 1
            BY <3>1, <4>2
          <5>2. QED
            BY <1>6, <3>2, <5>1
        <4>3. QED
          BY <4>1, <4>2
      <3>5. ring' = new
        BY <2>2 DEF new
      <3>6. QED
        BY <3>1, <3>4, <3>5
    <2>3. QED
      BY <1>5, <2>1, <2>2
  <1>8. 0 <= MaxAge /\ 0 <= MaxRevision
    BY FrameAssumption
  <1>9. QED
    BY <1>1, <1>2, <1>3, <1>4, <1>7, <1>8 DEF Bounded, InFrame

\* The steps of a session keep the bounds.
LEMMA SessionBounds ==
    ASSUME Typed, Bounded, Session
    PROVE  Bounded'
  <1> USE FrameAssumption
  <1>1. CASE EndSession
    <2>1. /\ UNCHANGED <<setup, proc, run, room>> /\ per' = Idle /\ ses' = Fresh
          /\ history' = [slips |-> 0, absorbed |-> FALSE] /\ ring' = [i \in DOMAIN ring |-> MaxAge]
          /\ direct' = IF direct.valid THEN [direct EXCEPT !.age = MaxAge] ELSE direct
      BY <1>1 DEF EndSession
    <2>2. per'.pc = "idle" /\ per'.rev = 0 /\ per'.ref = 0 /\ ses'.rev = 0 /\ history'.slips = 0
      BY <2>1 DEF Idle, Fresh
    <2>3. direct'.age <= MaxAge
      BY <2>1 DEF Typed, References, Bounded
    <2>4. ring \in Seq(Nat) /\ Len(ring) \in Nat /\ DOMAIN ring = 1 .. Len(ring)
      BY DEF Typed
    <2>5. Len(ring') = Len(ring) /\ \A i \in 1 .. Len(ring') : ring'[i] = MaxAge
      BY <2>1, <2>4
    <2>6. 0 <= MaxAge /\ MaxAge <= MaxAge /\ 0 <= MaxRevision
      OBVIOUS
    <2>7. QED
      BY <2>1, <2>2, <2>3, <2>5, <2>6 DEF Bounded, InFrame
  <1>2. CASE PrepareRevision
    <2>1. /\ per' = [per EXCEPT !.pc = "spec"] /\ ses' = [ses EXCEPT !.rev = proc.rev, !.micActive = FALSE]
          /\ history' = [history EXCEPT !.absorbed = FALSE] /\ UNCHANGED <<setup, proc, run, room, direct, ring>>
      BY <1>2 DEF PrepareRevision, To
    <2>2. per'.pc = "spec" /\ per'.ref = per.ref /\ per'.rev = per.rev
      BY <2>1 DEF Typed, Periods
    <2>3. ses'.rev = proc.rev /\ history'.slips = history.slips
      BY <2>1 DEF Typed, Sessions
    <2>4. QED
      BY <2>1, <2>2, <2>3 DEF Bounded, InFrame
  <1>3. CASE PrepareSpec
    <2>1. /\ per' = [per EXCEPT !.pc = "buffers"] /\ ses' = [ses EXCEPT !.size = proc.size]
          /\ UNCHANGED <<setup, proc, run, room, direct, ring, history>>
      BY <1>3 DEF PrepareSpec, To
    <2>2. per'.pc = "buffers" /\ per'.ref = per.ref /\ per'.rev = per.rev /\ ses'.rev = ses.rev
      BY <2>1 DEF Typed, Periods, Sessions
    <2>3. QED
      BY <2>1, <2>2 DEF Bounded, InFrame
  <1>4. CASE ReadFrame
    <2>1. /\ per.pc = "rx" /\ UNCHANGED <<setup, proc, room, ses, direct, ring, history>>
          /\ run' \in {run, Failed}
          /\ \E frame \in {"new", "old"} : per' = [per EXCEPT !.pc = "process", !.frame = frame]
      BY <1>4 DEF ReadFrame
    <2>2. per'.pc = "process" /\ per'.ref = per.ref /\ per'.rev = per.rev
      BY <2>1 DEF Typed, Periods
    <2>3. QED
      BY <2>1, <2>2 DEF Bounded, InFrame, Failed
  <1>5. CASE ReadFails
    <2>1. /\ per.pc = "rx" /\ UNCHANGED <<setup, proc, room, ses, direct, ring, history>>
          /\ run' \in {run, Failed} /\ per' = [per EXCEPT !.pc = "process"]
      BY <1>5 DEF ReadFails, To
    <2>2. per'.pc = "process" /\ per'.ref = per.ref /\ per'.rev = per.rev
      BY <2>1 DEF Typed, Periods
    <2>3. QED
      BY <2>1, <2>2 DEF Bounded, InFrame, Failed
  <1>6. CASE CheckRevision
    <2>1. /\ per' = [Idle EXCEPT !.pc = "decide", !.rev = proc.rev] /\ per.pc = "check"
          /\ UNCHANGED <<setup, proc, run, room, ses, direct, ring, history>>
      BY <1>6 DEF CheckRevision
    <2>2. per'.pc = "decide" /\ per'.rev = proc.rev /\ per'.ref = 0
      BY <2>1 DEF Idle
    <2>3. 0 <= MaxAge
      OBVIOUS
    <2>4. QED
      BY <2>1, <2>2, <2>3 DEF Bounded, InFrame
  <1>7. CASE Decide
    <2>1. /\ per.pc = "decide" /\ UNCHANGED <<setup, proc, run, room, direct, ring>>
          /\ per' = [Idle EXCEPT !.pc = "prepare"] \/ per' = [Idle EXCEPT !.pc = "top"]
          /\ ses' = ses \/ ses' = [ses EXCEPT !.first = "session"] \/ ses' = [ses EXCEPT !.rev = per.rev]
          /\ history' = history \/ history' = [history EXCEPT !.absorbed = history.absorbed \/ per.rev # ses.rev]
      BY <1>7 DEF Decide
    <2>2. per'.pc \in {"prepare", "top"} /\ per'.rev = 0 /\ per'.ref = 0
      BY <2>1 DEF Idle
    <2>3. ses'.size = ses.size /\ ses'.rev \in {ses.rev, per.rev}
      BY <2>1 DEF Typed, Sessions
    <2>4. history'.slips = history.slips
      BY <2>1 DEF Typed
    <2>5. 0 <= MaxAge /\ 0 <= MaxRevision
      OBVIOUS
    <2>6. QED
      BY <2>1, <2>2, <2>3, <2>4, <2>5 DEF Bounded, InFrame
  <1>8. QED
    BY <1>1, <1>2, <1>3, <1>4, <1>5, <1>6, <1>7, AllocateBounds, SnapshotBounds, ProcessBounds,
       TransmitBounds DEF Session

LEMMA InitBounds == ASSUME Init PROVE Bounded /\ LagInv
  <1>1. PICK size \in Sizes : proc = [ready |-> TRUE, size |-> size, rev |-> 0, busy |-> "no"] /\ room = size
    BY DEF Init
  <1>2. per = Idle /\ ses = Fresh /\ direct = NoReference /\ ring = <<>> /\ setup \in Setups /\ run = "no"
        /\ history = [slips |-> 0, absorbed |-> FALSE]
    BY DEF Init
  <1>3. per.pc = "idle" /\ per.rev = 0 /\ per.ref = 0 /\ ses.rev = 0 /\ ~ses.micActive
        /\ direct.age = 0 /\ Len(ring) = 0 /\ history.slips = 0 /\ proc.rev = 0 /\ proc.busy = "no"
    BY <1>1, <1>2 DEF Idle, Fresh, NoReference
  <1>4. Bounded
    BY <1>1, <1>2, <1>3, FrameAssumption DEF Bounded, InFrame
  <1>5. LagInv
    BY <1>3 DEF LagInv
  <1>6. QED
    BY <1>4, <1>5

LEMMA StepBounds == ASSUME Typed, Bounded, LagInv, [Next]_vars PROVE Bounded' /\ LagInv'
  <1>1. CASE UNCHANGED vars
    BY <1>1 DEF vars, Bounded, LagInv, Older
  <1>2. QED
    BY <1>1, OthersBounds, SessionBounds, OthersLag, SessionLag DEF Next, Others

\* Types, bounds and the ring hold of every behaviour.
LEMMA FrameAlways == Spec => [](Typed /\ Bounded /\ LagInv)
  <1>1. Typed /\ Bounded /\ LagInv /\ [Next]_vars => Typed' /\ Bounded' /\ LagInv'
    BY StepTyping, StepBounds
  <1>2. QED
    BY InitTyping, InitBounds, <1>1, PTL DEF Spec

\* process_aec_and_callbacks_() takes from aec_ref_ring_buffer_ the PCM of the
\* preceding TX period, but for the periods that the processor skipped.
THEOREM RingIsBehind == Spec => []ReferenceLag
  <1>1. LagInv => ReferenceLag
    BY DEF LagInv, ReferenceLag
  <1>2. QED
    BY <1>1, FrameAlways, PTL

LEMMA TypesOf == ASSUME Typed, Bounded, HwTypeOK PROVE TypeOK
  <1>1. MaxAge \in Nat /\ MaxRevision \in Nat
    BY FrameAssumption
  <1>2. /\ proc \in [ready : BOOLEAN, size : Sizes, rev : 0 .. MaxRevision,
                     busy : {"no", "build", "bump", "publish"}]
    BY <1>1 DEF Typed, Processors, Bounded
  <1>3. ses \in [size : Sizes, rev : 0 .. MaxRevision, micActive : BOOLEAN, first : {"no", "opening", "session"}]
    BY <1>1 DEF Typed, Sessions, Bounded
  <1>4. per \in [pc : {"idle", "prepare", "spec", "buffers", "top", "rx", "process", "tx", "check", "decide"},
                 mic : BOOLEAN, enabled : BOOLEAN, ready : BOOLEAN, frame : {"none", "new", "old"},
                 ref : 0 .. MaxAge, out : {"none", "raw", "silence", "processed"}, rev : 0 .. MaxRevision]
    BY <1>1 DEF Typed, Periods, Bounded
  <1>5. direct \in [valid : BOOLEAN, age : 0 .. MaxAge, size : Sizes \cup {0}]
    BY <1>1 DEF Typed, References, Bounded
  <1>6. ring \in Seq(0 .. MaxAge) /\ Len(ring) <= RingFrames
    <2>1. ring \in Seq(Nat) /\ \A i \in 1 .. Len(ring) : ring[i] \in 0 .. MaxAge
      BY <1>1 DEF Typed, Bounded
    <2>2. Len(ring) \in Nat /\ ring = [i \in 1 .. Len(ring) |-> ring[i]]
      BY <2>1
    <2>3. [i \in 1 .. Len(ring) |-> ring[i]] \in Seq(0 .. MaxAge)
      BY <2>1, <2>2
    <2>4. ring \in Seq(0 .. MaxAge)
      BY <2>2, <2>3
    <2>5. QED
      BY <2>4 DEF Bounded
  <1>7. history \in [slips : 0 .. MaxAge, absorbed : BOOLEAN]
    BY <1>1 DEF Typed, Bounded
  <1>8. QED
    BY <1>2, <1>3, <1>4, <1>5, <1>6, <1>7 DEF TypeOK, Typed, Bounded, InFrame

\* The state of every session is of its type, the hardware's part included: its frame
\* fits into the buffers (allocate_audio_buffers_()) and the ring into its capacity.
THEOREM FrameTypes == Spec => []TypeOK
  <1>1. Spec => []HwInv
    BY SessionsOnHardware, HwAlways
  <1>2. HwInv => HwTypeOK
    BY DEF HwInv
  <1>3. QED
    BY <1>1, <1>2, TypesOf, FrameAlways, PTL
=============================================================================
