------------------------------ MODULE FramePath ------------------------------
(***************************************************************************)
(* The sessions of the audio task on an open path: period after period it  *)
(* reads a frame from RX, takes the echo reference of the transmitted PCM, *)
(* has the frame processed, dispatches it and transmits the next block.    *)
(* Main switches consumers, processor and speaker at any step, and the     *)
(* processor (EspAec, or EspAfe's owner task) is rebuilt at any step, with *)
(* another frame size: the session notices by frame_spec_revision() and    *)
(* begins anew.  The path itself is Hardware's.                            *)
(*                                                                         *)
(* PCM is abstracted to what the properties tell apart: from which period  *)
(* it is, and what was done to it.  The age of a reference is the number   *)
(* of TX periods since it was transmitted; 0 stands for silence.           *)
(***************************************************************************)
EXTENDS Hardware, FiniteSets

CONSTANTS
    Builds,       \* the builds: a board with a processor and its reference
    Sizes,        \* frame sizes
    RingFrames,   \* frames the reference ring holds
    MaxRevision,  \* bound of the model: no rebuild after that many revisions
    MaxAge        \* bound of the model: ages and slips are counted up to here

Setups == [processor : {"aec", "afe"}, reference : {"ring", "previous", "hardware"}]

ASSUME FrameAssumption ==
    /\ Builds \subseteq [board : Boards, setup : Setups]
    /\ Sizes \subseteq Nat \ {0} /\ RingFrames \in Nat \ {0}
    /\ MaxRevision \in Nat /\ MaxAge \in Nat \ {0}

VARIABLES
    setup,    \* processor and reference compiled in
    user,     \* has_mic_consumers_, processor_enabled_, request_speaker_reset_
    proc,     \* the processor: readiness, frame size, revision, rebuild in progress
    run,      \* audio_stack_running_ ("yes"), or how the session was ended
    room,     \* frame size the preallocated buffers hold, 0 without buffers
    ses,      \* AudioTaskCtx of the session
    per,      \* AudioTaskCtx of the period, and its next step
    direct,   \* direct_aec_ref_, where it is the reference
    ring,     \* ages in aec_ref_ring_buffer_, oldest first
    history   \* what the properties need of the past

vars == <<hwVars, setup, user, proc, run, room, ses, per, direct, ring, history>>

\* One period more.
Older(age) == IF age < MaxAge THEN age + 1 ELSE age

Idle == [pc |-> "idle", mic |-> FALSE, enabled |-> FALSE, ready |-> FALSE,
         frame |-> "none", ref |-> 0, out |-> "none", rev |-> 0]

\* No session, or the next one has yet to fill it.
Fresh == [size |-> CHOOSE size \in Sizes : TRUE, rev |-> 0, micActive |-> FALSE, first |-> "no"]

NoReference == [valid |-> FALSE, age |-> 0, size |-> 0]

Init ==
    /\ HwInit
    /\ setup \in Setups /\ [board |-> board, setup |-> setup] \in Builds
    /\ user \in [mic : BOOLEAN, enabled : {TRUE}, reset : {FALSE}]
    /\ proc \in [ready : {TRUE}, size : Sizes, rev : {0}, busy : {"no"}]
    /\ run = "no" /\ room = proc.size
    /\ ses = Fresh
    /\ per = Idle
    /\ direct = NoReference
    /\ ring = <<>>
    /\ history = [slips |-> 0, absorbed |-> FALSE]

----------------------------------------------------------------------------
(* The path, while no session runs on it.                                  *)

\* service_speaker_reset_(), as far as the reference goes.
ResetReference ==
    /\ direct' = NoReference
    /\ ring' = <<>>
    /\ history' = [history EXCEPT !.slips = 0]

KeepReference == UNCHANGED <<direct, ring, history>>

OpenPath ==
    /\ per.pc = "idle" /\ run = "no" /\ Begin
    /\ run' = IF state = "ERROR" THEN "failed" ELSE run
    /\ KeepReference
    /\ UNCHANGED <<setup, user, proc, room, ses, per>>

\* A failed session and a failed opening, once released, discard the reference.
MovePath ==
    /\ per.pc = "idle" /\ HwStep
    /\ run' = IF at.op = "open" /\ at'.op = "deinit" THEN "failed"
              ELSE IF at.op = "deinit" /\ at'.op = "rest" THEN "no" ELSE run
    /\ IF run = "failed" /\ at'.op = "rest" THEN ResetReference ELSE KeepReference
    /\ UNCHANGED <<setup, user, proc, room, ses, per>>

ClosePath ==
    /\ per.pc = "idle" /\ Deinit
    /\ KeepReference
    /\ UNCHANGED <<setup, user, proc, run, room, ses, per>>

\* The audio task's outer loop serves the reset as well.
ServeIdle ==
    /\ per.pc = "idle" /\ at.op = "rest" /\ user.reset
    /\ user' = [user EXCEPT !.reset = FALSE]
    /\ ResetReference
    /\ UNCHANGED <<hwVars, setup, proc, run, room, ses, per>>

\* The main loop commits the opening and the audio task enters a session.
StartSession ==
    /\ per.pc = "idle" /\ at.op = "rest" /\ state = "RUNNING" /\ run = "no"
    /\ run' = "yes"
    /\ per' = [per EXCEPT !.pc = "prepare"]
    /\ ses' = [ses EXCEPT !.first = "opening"]
    /\ UNCHANGED <<hwVars, setup, user, proc, room, direct, ring, history>>

----------------------------------------------------------------------------
(* A session: the context, then periods.                                   *)

To(pc) == per' = [per EXCEPT !.pc = pc]

\* fail_audio_session_(); a session that main has stopped is not a failed one.
Failed == IF run = "yes" THEN "failed" ELSE run

\* Leaving audio_session_(), or not entering it again.  What the reference
\* still holds is old for whatever comes after.
EndSession ==
    /\ per.pc \in {"prepare", "top"} /\ run # "yes"
    /\ per' = Idle
    /\ direct' = IF direct.valid THEN [direct EXCEPT !.age = MaxAge] ELSE direct
    /\ ring' = [i \in DOMAIN ring |-> MaxAge]
    /\ ses' = Fresh
    /\ history' = [slips |-> 0, absorbed |-> FALSE]
    /\ UNCHANGED <<hwVars, setup, user, proc, run, room>>

\* prepare_audio_context_(): a fresh context, the revision and then the size.
PrepareRevision ==
    /\ per.pc = "prepare" /\ run = "yes"
    /\ ses' = [ses EXCEPT !.rev = proc.rev, !.micActive = FALSE]
    /\ history' = [history EXCEPT !.absorbed = FALSE]
    /\ To("spec")
    /\ UNCHANGED <<hwVars, setup, user, proc, run, room, direct, ring>>

PrepareSpec ==
    /\ per.pc = "spec"
    /\ ses' = [ses EXCEPT !.size = proc.size]
    /\ To("buffers")
    /\ UNCHANGED <<hwVars, setup, user, proc, run, room, direct, ring, history>>

\* allocate_audio_buffers_(): the buffers are kept when the frame fits.  A
\* larger one has them all made anew, the reference's too.  Without memory, or
\* without a converter, there are none, and no later session makes any.
Allocate ==
    LET fits == ses.size <= room
    IN  /\ per.pc = "buffers"
        /\ room' \in {0, IF fits THEN room ELSE ses.size}
        /\ room = 0 => room' = 0
        /\ run' = IF room' = 0 THEN Failed ELSE run
        /\ IF fits /\ room' = room THEN KeepReference ELSE ResetReference
        /\ To("top")
        /\ UNCHANGED <<hwVars, setup, user, proc, ses>>

\* Defect: playback from before the microphone was wanted stays in the ring.
Snapshot_KeepsRing ==
    /\ per.pc = "top" /\ run = "yes"
    /\ user' = [user EXCEPT !.reset = FALSE]
    /\ IF user.reset THEN ResetReference ELSE KeepReference
    /\ ses' = [ses EXCEPT !.micActive = user.mic]
    /\ per' = [Idle EXCEPT !.pc = IF On("rx") THEN "rx" ELSE "process", !.mic = user.mic,
                           !.enabled = user.enabled, !.ready = user.enabled /\ proc.ready]
    /\ UNCHANGED <<hwVars, setup, proc, run, room>>

\* The top of a period: the reset is served, the ring emptied when the demand
\* for the microphone has changed, and what main may change is read once.
Snapshot ==
    LET edge == setup.reference = "ring" /\ user.mic # ses.micActive
    IN  /\ per.pc = "top" /\ run = "yes"
        /\ user' = [user EXCEPT !.reset = FALSE]
        /\ IF user.reset THEN ResetReference
           ELSE /\ UNCHANGED direct
                /\ ring' = IF edge THEN <<>> ELSE ring
                /\ history' = IF edge THEN [history EXCEPT !.slips = 0] ELSE history
        /\ ses' = [ses EXCEPT !.micActive = user.mic]
        /\ per' = [Idle EXCEPT !.pc = IF On("rx") THEN "rx" ELSE "process", !.mic = user.mic,
                               !.enabled = user.enabled, !.ready = user.enabled /\ proc.ready]
        /\ UNCHANGED <<hwVars, setup, proc, run, room>>

\* A frame is read; one that is wanted may fail to convert, and then the buffer
\* still holds the period before, in a session that is ending.
ReadFrame ==
    /\ per.pc = "rx"
    /\ \E converted \in BOOLEAN :
          /\ per.mic \/ converted
          /\ per' = [per EXCEPT !.pc = "process", !.frame = IF converted THEN "new" ELSE "old"]
          /\ run' = IF converted THEN run ELSE Failed
    /\ UNCHANGED <<hwVars, setup, user, proc, room, ses, direct, ring, history>>

\* Defect: after a failed read the buffer is dispatched as it is.
ReadFails_Dispatches ==
    /\ per.pc = "rx"
    /\ \E tooMany \in BOOLEAN : run' = IF tooMany THEN Failed ELSE run
    /\ per' = [per EXCEPT !.pc = "process", !.frame = "old"]
    /\ UNCHANGED <<hwVars, setup, user, proc, room, ses, direct, ring, history>>

\* A failed read leaves no frame; more than 100 in a row end the session.  They
\* are not counted here: any of them may be the one.
ReadFails ==
    /\ per.pc = "rx"
    /\ \E tooMany \in BOOLEAN : run' = IF tooMany THEN Failed ELSE run
    /\ To("process")
    /\ UNCHANGED <<hwVars, setup, user, proc, room, ses, direct, ring, history>>

\* The processor's answer: silence while it is rebuilt (EspAec cannot be locked,
\* EspAfe has no instance), and from EspAfe whenever it has no output yet.
Answers ==
    IF proc.ready /\ proc.busy = "no"
    THEN {"processed"} \cup {a \in {"silence"} : setup.processor = "afe"} ELSE {"silence"}

Dispatched == per.frame # "none" /\ per.mic
Referenced == Dispatched /\ per.ready

\* With the processor enabled but not ready the consumers get silence.
Outcome(answer) ==
    IF ~Dispatched THEN "none"
    ELSE IF ~per.enabled THEN "raw" ELSE IF per.ready THEN answer ELSE "silence"

\* process_aec_and_callbacks_(): the reference is taken only for a processor
\* that is ready, and stays where it is otherwise.
Process ==
    LET fromRing == setup.reference = "ring" /\ ring # <<>>
        fromDirect == setup.reference = "previous" /\ direct.valid
        reference == IF fromRing THEN Head(ring) ELSE IF fromDirect THEN direct.age ELSE 0
    IN  /\ per.pc = "process"
        /\ \E answer \in Answers :
              per' = [per EXCEPT !.pc = "tx",
                                 !.ref = IF Referenced THEN reference ELSE 0,
                                 !.out = Outcome(answer)]
        /\ ring' = IF fromRing /\ Referenced THEN Tail(ring) ELSE ring
        /\ history' = IF per.mic /\ fromRing /\ ~Referenced
                      THEN [history EXCEPT !.slips = Older(@)] ELSE history
        /\ UNCHANGED <<hwVars, setup, user, proc, run, room, ses, direct>>

\* Defect: nothing makes room in a full ring.
Admit_Unbounded(queue) == Append(queue, 1)

\* The ring overwrites its oldest frame.
Admit(queue) ==
    IF Len(queue) < RingFrames THEN Append(queue, 1) ELSE Append(Tail(queue), 1)

\* Defect: a reference that is not renewed stays valid.
Transmit_KeepsReference ==
    LET aged == [i \in 1 .. Len(ring) |-> Older(ring[i])]
    IN  /\ per.pc = "tx"
        /\ \E written \in BOOLEAN, converted \in BOOLEAN :
              LET tried == written /\ per.enabled /\ setup.reference # "hardware"
                  saved == tried /\ converted
              IN  /\ converted \/ tried
                  /\ run' = IF written /\ converted THEN run ELSE Failed
                  /\ direct' = IF saved /\ setup.reference = "previous"
                               THEN [valid |-> TRUE, age |-> 1, size |-> ses.size]
                               ELSE [direct EXCEPT !.age = Older(@)]
                  /\ ring' = IF saved /\ setup.reference = "ring" /\ per.mic THEN Admit(aged) ELSE aged
        /\ ses' = [ses EXCEPT !.first = "no"]
        /\ per' = [Idle EXCEPT !.pc = "check"]
        /\ UNCHANGED <<hwVars, setup, user, proc, room, history>>

\* The PCM or the silence of the period goes to the DMA, and is the reference
\* of the next one while the processor is enabled.  What cannot be written or
\* converted ends the session.
Transmit ==
    LET aged == [i \in 1 .. Len(ring) |-> Older(ring[i])]
    IN  /\ per.pc = "tx"
        /\ \E written \in BOOLEAN, converted \in BOOLEAN :
              LET tried == written /\ per.enabled /\ setup.reference # "hardware"
                  saved == tried /\ converted
              IN  /\ converted \/ tried
                  /\ run' = IF written /\ converted THEN run ELSE Failed
                  /\ direct' = IF saved /\ setup.reference = "previous"
                               THEN [valid |-> TRUE, age |-> 1, size |-> ses.size] ELSE NoReference
                  /\ ring' = IF saved /\ setup.reference = "ring" /\ per.mic THEN Admit(aged) ELSE aged
        /\ ses' = [ses EXCEPT !.first = "no"]
        /\ per' = [Idle EXCEPT !.pc = "check"]
        /\ UNCHANGED <<hwVars, setup, user, proc, room, history>>

\* The end of a period: the revision, then the readiness.
CheckRevision ==
    /\ per.pc = "check"
    /\ per' = [Idle EXCEPT !.pc = "decide", !.rev = proc.rev]
    /\ UNCHANGED <<hwVars, setup, user, proc, run, room, ses, direct, ring, history>>

\* Another revision of a ready processor ends the session for a fresh one; of
\* one that is not ready it is taken over, and the session goes on.
Decide ==
    /\ per.pc = "decide"
    /\ IF proc.ready /\ per.rev # ses.rev
       THEN per' = [Idle EXCEPT !.pc = "prepare"] /\ ses' = [ses EXCEPT !.first = "session"] /\ UNCHANGED history
       ELSE /\ per' = [Idle EXCEPT !.pc = "top"]
            /\ ses' = IF proc.ready THEN ses ELSE [ses EXCEPT !.rev = per.rev]
            /\ history' = [history EXCEPT !.absorbed = @ \/ per.rev # ses.rev]
    /\ UNCHANGED <<hwVars, setup, user, proc, run, room, direct, ring>>

----------------------------------------------------------------------------
(* The processor and main, at any step of the above.  Opening reads the    *)
(* frame spec for the size of the DMA buffers only, and nothing else reads *)
(* what they change while the path is opened or closed: but for that size, *)
(* what they do then is as if they did it right after.                     *)

Free == at.op = "rest"

\* EspAec takes its mutex; EspAfe detaches the instance.
Rebuild ==
    /\ Free /\ proc.busy = "no" /\ proc.rev < MaxRevision
    /\ proc' = [proc EXCEPT !.busy = "build", !.ready = setup.processor = "aec"]
    /\ UNCHANGED <<hwVars, setup, user, run, room, ses, per, direct, ring, history>>

\* Defect: another frame size is published without a revision.
Resize_Silent ==
    /\ Free /\ proc.busy = "build"
    /\ \E size \in Sizes : proc' = [proc EXCEPT !.size = size, !.busy = "publish"]
    /\ UNCHANGED <<hwVars, setup, user, run, room, ses, per, direct, ring, history>>

\* The new frame size is published, or the old one kept.
Resize ==
    /\ Free /\ proc.busy = "build"
    /\ \E size \in Sizes :
          proc' = [proc EXCEPT !.size = size, !.busy = IF size = proc.size THEN "publish" ELSE "bump"]
    /\ UNCHANGED <<hwVars, setup, user, run, room, ses, per, direct, ring, history>>

Bump ==
    /\ Free /\ proc.busy = "bump"
    /\ proc' = [proc EXCEPT !.rev = @ + 1, !.busy = "publish"]
    /\ UNCHANGED <<hwVars, setup, user, run, room, ses, per, direct, ring, history>>

\* EspAfe may end without an instance: a failed build, or all features off.
Publish ==
    /\ Free /\ proc.busy = "publish"
    /\ \E ready \in BOOLEAN :
          /\ ready \/ setup.processor = "afe"
          /\ proc' = [proc EXCEPT !.ready = ready, !.busy = "no"]
    /\ UNCHANGED <<hwVars, setup, user, run, room, ses, per, direct, ring, history>>

Processor == Rebuild \/ Resize \/ Bump \/ Publish

\* Consumers come and go; set_processor_enabled(); stop_speaker().
Switch ==
    /\ Free
    /\ \/ user' = [user EXCEPT !.mic = ~@]
       \/ user' = [user EXCEPT !.enabled = ~@]
       \/ user' = [user EXCEPT !.reset = TRUE]
    /\ UNCHANGED <<hwVars, setup, proc, run, room, ses, per, direct, ring, history>>

\* start_speaker() invalidates the reference from the caller's task.
StartSpeaker ==
    /\ run = "yes" /\ direct.valid
    /\ direct' = NoReference
    /\ UNCHANGED <<hwVars, setup, user, proc, run, room, ses, per, ring, history>>

Stop ==
    /\ run \in {"yes", "failed"} /\ per.pc # "idle"
    /\ run' = "stopped"
    /\ UNCHANGED <<hwVars, setup, user, proc, room, ses, per, direct, ring, history>>

PathStep == OpenPath \/ MovePath \/ ClosePath \/ ServeIdle \/ StartSession
Session == \/ EndSession \/ PrepareRevision \/ PrepareSpec \/ Allocate \/ Snapshot \/ ReadFrame
           \/ ReadFails \/ Process \/ Transmit \/ CheckRevision \/ Decide

Next == PathStep \/ Session \/ Processor \/ Switch \/ StartSpeaker \/ Stop

Spec == Init /\ [][Next]_vars

----------------------------------------------------------------------------
(* Properties *)

\* The type of the state: the ring never holds more than its capacity, and a
\* session that runs periods has buffers its frame fits into.
TypeOK ==
    /\ HwTypeOK
    /\ setup \in Setups
    /\ user \in [mic : BOOLEAN, enabled : BOOLEAN, reset : BOOLEAN]
    /\ proc \in [ready : BOOLEAN, size : Sizes, rev : 0 .. MaxRevision,
                 busy : {"no", "build", "bump", "publish"}]
    /\ run \in {"no", "yes", "stopped", "failed"}
    /\ room \in Sizes \cup {0}
    /\ ses \in [size : Sizes, rev : 0 .. MaxRevision, micActive : BOOLEAN,
                first : {"no", "opening", "session"}]
    /\ per \in [pc : {"idle", "prepare", "spec", "buffers", "top", "rx", "process", "tx", "check", "decide"},
                mic : BOOLEAN, enabled : BOOLEAN, ready : BOOLEAN, frame : {"none", "new", "old"},
                ref : 0 .. MaxAge, out : {"none", "raw", "silence", "processed"}, rev : 0 .. MaxRevision]
    /\ per.pc \in {"rx", "process", "tx", "check", "decide"} => ses.size <= room
    /\ direct \in [valid : BOOLEAN, age : 0 .. MaxAge, size : Sizes \cup {0}]
    /\ ring \in Seq(0 .. MaxAge) /\ Len(ring) <= RingFrames
    /\ history \in [slips : 0 .. MaxAge, absorbed : BOOLEAN]

\* What the consumers of a period get is that period's: never the PCM of an
\* earlier one, but for the last period of a session whose conversion has failed;
\* and with the processor enabled at its top never the raw microphone, whatever
\* becomes of the processor in that period.
DispatchClean ==
    per.pc = "tx" /\ per.out # "none" =>
        /\ per.frame = "old" => run # "yes"
        /\ per.enabled => per.out # "raw"

\* The reference the ring gives is of the preceding TX period, but for one more
\* period of delay for each one since the ring was emptied in which there was
\* a reference and the processor did not take it; and never from before the
\* microphone was wanted.
ReferenceLag == per.pc = "tx" /\ setup.reference = "ring" => per.ref <= 1 + history.slips

\* Without the ring it is the preceding TX period whole, or silence.  Only the
\* first period after an opening can get one of the session before, and only
\* the first of a session one of another frame size.
PreviousFrame ==
    per.pc = "tx" /\ setup.reference = "previous" /\ per.ref # 0 =>
        /\ per.ref = 1 \/ ses.first = "opening"
        /\ direct.valid => direct.size = ses.size \/ ses.first # "no"

\* A session with a frame size that is not the processor's any more has yet to
\* see the new revision, unless it took it over while the processor was not
\* ready.
SpecFollowed ==
    (/\ per.pc \in {"top", "rx", "process", "tx", "check"}
     /\ proc.ready /\ proc.busy = "no" /\ ses.size # proc.size)
        => ses.rev # proc.rev \/ history.absorbed
=============================================================================
