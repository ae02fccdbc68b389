---------------------------- MODULE SpeakerProofs ----------------------------
(***************************************************************************)
(* What becomes of a staging block and of the count of the PCM on its way, *)
(* for every number of blocks, DMA buffers, streams and closes.            *)
(***************************************************************************)
EXTENDS SpeakerOutput, FiniteSetTheorems, SequenceTheorems, TLAPS

----------------------------------------------------------------------------
(* Queues whose elements are all different.                                *)

Elements(s) == {s[i] : i \in DOMAIN s}
Once(s) == \A i, j \in DOMAIN s : s[i] = s[j] => i = j

LEMMA AppendOnce ==
    ASSUME NEW S, NEW s \in Seq(S), NEW x \in S, Once(s), x \notin Elements(s)
    PROVE  /\ Append(s, x) \in Seq(S) /\ Once(Append(s, x))
           /\ Elements(Append(s, x)) = Elements(s) \cup {x}
  <1> DEFINE t == Append(s, x)
  <1>1. /\ t \in Seq(S) /\ Len(t) = Len(s) + 1 /\ Len(s) \in Nat
        /\ DOMAIN s = 1 .. Len(s) /\ DOMAIN t = 1 .. Len(s) + 1
        /\ t[Len(s) + 1] = x /\ \A i \in 1 .. Len(s) : t[i] = s[i]
    OBVIOUS
  <1>2. Once(t)
    BY <1>1 DEF Once, Elements
  <1>3. Elements(t) = Elements(s) \cup {x}
    BY <1>1 DEF Elements
  <1>4. QED
    BY <1>1, <1>2, <1>3

LEMMA TailOnce ==
    ASSUME NEW S, NEW s \in Seq(S), s # <<>>, Once(s)
    PROVE  /\ Head(s) \in S /\ Head(s) \in Elements(s)
           /\ Tail(s) \in Seq(S) /\ Once(Tail(s))
           /\ Elements(Tail(s)) = Elements(s) \ {Head(s)}
  <1> DEFINE t == Tail(s)
  <1>1. /\ Len(s) \in Nat \ {0} /\ DOMAIN s = 1 .. Len(s) /\ Head(s) = s[1] /\ s[1] \in S
        /\ t \in Seq(S) /\ DOMAIN t = 1 .. Len(s) - 1
        /\ \A i \in 1 .. Len(s) - 1 : t[i] = s[i + 1]
    OBVIOUS
  <1>2. Once(t)
    BY <1>1 DEF Once
  <1>3. ASSUME NEW x \in Elements(t) PROVE x \in Elements(s) \ {Head(s)}
    <2>1. PICK i \in 1 .. Len(s) - 1 : x = s[i + 1]
      BY <1>1, <1>3 DEF Elements
    <2>2. i + 1 \in 1 .. Len(s) /\ i + 1 # 1
      BY <1>1
    <2>3. QED
      BY <1>1, <2>1, <2>2 DEF Elements, Once
  <1>4. ASSUME NEW x \in Elements(s) \ {Head(s)} PROVE x \in Elements(t)
    <2>1. PICK i \in 1 .. Len(s) : x = s[i] /\ i # 1
      BY <1>1, <1>4 DEF Elements
    <2>2. i - 1 \in 1 .. Len(s) - 1 /\ t[i - 1] = s[i]
      BY <1>1, <2>1
    <2>3. QED
      BY <1>1, <2>1, <2>2 DEF Elements
  <1>5. Elements(t) = Elements(s) \ {Head(s)}
    BY <1>3, <1>4
  <1>6. Head(s) \in Elements(s)
    BY <1>1 DEF Elements
  <1>7. QED
    BY <1>1, <1>2, <1>5, <1>6

\* A queue of different blocks is no longer than there are blocks, and has each
\* of its elements at one index.
LEMMA OnceCounts ==
    ASSUME NEW s \in Seq(Blocks), Once(s), NEW b
    PROVE  /\ Len(s) <= StagingBlocks
           /\ Cardinality({i \in DOMAIN s : s[i] = b}) = IF b \in Elements(s) THEN 1 ELSE 0
  <1>1. Len(s) \in Nat /\ DOMAIN s = 1 .. Len(s) /\ s \in [1 .. Len(s) -> Blocks]
    BY LenProperties
  <1>2. Len(s) <= StagingBlocks
    <2>1. s \in Injection(1 .. Len(s), Blocks)
      BY <1>1 DEF Once, Injection, IsInjective
    <2>2. IsFiniteSet(Blocks) /\ Cardinality(Blocks) = StagingBlocks
      BY SizeAssumption, FS_Interval DEF Blocks
    <2>3. Cardinality(1 .. Len(s)) <= StagingBlocks
      BY <2>1, <2>2, FS_Injection
    <2>4. Cardinality(1 .. Len(s)) = Len(s)
      BY <1>1, FS_Interval
    <2>5. QED
      BY <2>3, <2>4
  <1>3. CASE b \in Elements(s)
    <2>1. PICK i \in DOMAIN s : s[i] = b
      BY <1>3 DEF Elements
    <2>2. {j \in DOMAIN s : s[j] = b} = {i}
      BY <2>1 DEF Once
    <2>3. QED
      BY <1>2, <1>3, <2>2, FS_Singleton
  <1>4. CASE b \notin Elements(s)
    <2>1. {j \in DOMAIN s : s[j] = b} = {}
      BY <1>4 DEF Elements
    <2>2. QED
      BY <1>2, <1>4, <2>1, FS_EmptySet
  <1>5. QED
    BY <1>3, <1>4

\* Counting the indices of a queue of different blocks is counting blocks.
LEMMA OnceSelects ==
    ASSUME NEW s \in Seq(Blocks), Once(s), NEW T \in SUBSET Blocks
    PROVE  Cardinality({i \in DOMAIN s : s[i] \in T}) = Cardinality(Elements(s) \cap T)
  <1> DEFINE I == {i \in DOMAIN s : s[i] \in T}
             f == [i \in I |-> s[i]]
  <1>1. Len(s) \in Nat /\ DOMAIN s = 1 .. Len(s)
    BY LenProperties
  <1>2. IsFiniteSet(I)
    <2>1. IsFiniteSet(1 .. Len(s)) /\ I \in SUBSET (1 .. Len(s))
      BY <1>1, FS_Interval
    <2>2. QED
      BY <2>1, FS_Subset
  <1>3. f \in Bijection(I, Elements(s) \cap T)
    <2>1. f \in [I -> Elements(s) \cap T]
      BY DEF Elements
    <2>2. \A i, j \in I : f[i] = f[j] => i = j
      BY DEF Once
    <2>3. \A b \in Elements(s) \cap T : \E i \in I : f[i] = b
      BY DEF Elements
    <2>4. f \in Injection(I, Elements(s) \cap T)
      BY <2>1, <2>2 DEF Injection, IsInjective
    <2>5. f \in Surjection(I, Elements(s) \cap T)
      BY <2>1, <2>3 DEF Surjection
    <2>6. QED
      BY <2>4, <2>5 DEF Bijection
  <1>4. QED
    BY <1>2, <1>3, FS_Bijection DEF ExistsBijection

----------------------------------------------------------------------------
(* Types.                                                                  *)

Flags == [reset : BOOLEAN, running : BOOLEAN, wanted : BOOLEAN, paused : BOOLEAN,
          tracking : BOOLEAN, desync : BOOLEAN, error : BOOLEAN, requested : BOOLEAN,
          current : BOOLEAN, stack : BOOLEAN, failed : BOOLEAN]
Queues == [free : Seq(Blocks), ready : Seq(Blocks), events : Seq(Records)]
Interrupts == [pc : {"idle", "event", "take", "refill"}, next : Buffers, record : Records,
               block : 0 .. StagingBlocks, tries : 0 .. StagingBlocks]
AudioPcs == {"session", "period", "read", "block", "admit", "reset_ready", "reset_done", "close", "closed"}
Periods == [pc : AudioPcs, speaker : BOOLEAN, got : Seq(Chunks), left : 0 .. Quantum]
Facades == [pc : {"idle", "stop", "park", "reset", "is_running", "pending"},
            state : {"STOPPED", "STARTING", "RUNNING", "STOPPING"}, listener : BOOLEAN,
            finishing : BOOLEAN, asked : BOOLEAN, recovered : BOOLEAN]
Producers == [pc : {"play", "admission", "write"}, chunk : 1 .. MaxAlone + 1]

\* The types without what counting says: the length of the block queues, and
\* that nothing is taken off a pending count of zero.
Typed ==
    /\ ring \in Seq(Chunks) /\ Len(ring) <= RingSize
    /\ flag \in Flags
    /\ queues \in Queues /\ Len(queues.events) <= EventCapacity
    /\ staged \in [Blocks -> Records] /\ dma \in [Buffers -> Records]
    /\ play \in [generation : Nat, pending : Int]
    /\ isr \in Interrupts /\ (isr.block # 0 <=> isr.pc = "refill")
    /\ audio \in Periods /\ (audio.pc = "admit" => audio.left > 0)
    /\ facade \in Facades
    /\ producer \in Producers

\* Constants, and the values that variables are set to.
LEMMA Values ==
    /\ StagingBlocks \in Nat \ {0} /\ Descriptors \in Nat \ {0} /\ RingSize \in Nat \ {0}
    /\ Quantum \in Nat /\ EventCapacity \in Nat /\ 0 \in Buffers
    /\ NoRecord \in Records /\ MaxAlone \in Nat /\ MaxChunks \in Nat /\ MaxChunks <= MaxAlone
    /\ ResetQueues \in Queues /\ Len(ResetQueues.events) = 0
    /\ \A next \in Buffers : (next + 1) % Descriptors \in Buffers
  <1>1. /\ StagingBlocks \in Nat \ {0} /\ Descriptors \in Nat \ {0} /\ RingSize \in Nat \ {0}
        /\ Quantum \in Nat /\ MaxAlone \in Nat /\ MaxChunks \in Nat /\ MaxChunks <= MaxAlone
    BY SizeAssumption, SpeakerBoundAssumption
  <1>2. EventCapacity \in Nat /\ 0 \in Buffers
    BY <1>1 DEF EventCapacity, Buffers
  <1>3. NoRecord \in Records
    BY DEF NoRecord, Records, Silence
  <1>4. [b \in Blocks |-> b] \in Seq(Blocks)
    BY <1>1 DEF Blocks
  <1>5. ResetQueues \in Queues /\ Len(ResetQueues.events) = 0
    BY <1>4 DEF ResetQueues, Queues
  <1>6. ASSUME NEW next \in Buffers PROVE (next + 1) % Descriptors \in Buffers
    BY <1>1, <1>6 DEF Buffers
  <1>7. QED
    BY <1>1, <1>2, <1>3, <1>5, <1>6

LEMMA InitTyping == Init => Typed
  <1> SUFFICES ASSUME Init PROVE Typed
    OBVIOUS
  <1>1. queues \in Queues /\ Len(queues.events) <= EventCapacity
    BY Values DEF Init, ResetQueues
  <1>2. ring \in Seq(Chunks) /\ Len(ring) <= RingSize
    BY Values DEF Init
  <1>3. flag \in Flags
    BY DEF Init, Flags
  <1>4. staged \in [Blocks -> Records] /\ dma \in [Buffers -> Records]
    BY Values DEF Init
  <1>5. play \in [generation : Nat, pending : Int]
    BY DEF Init
  <1>6. isr \in Interrupts /\ isr.block = 0 /\ isr.pc # "refill"
    BY Values DEF Init, Interrupts
  <1>7. audio \in Periods /\ audio.pc # "admit"
    BY Values DEF Init, Periods, AudioPcs
  <1>8. facade \in Facades /\ producer \in Producers
    BY Values DEF Init, Facades, Producers
  <1>9. QED
    BY <1>1, <1>2, <1>3, <1>4, <1>5, <1>6, <1>7, <1>8 DEF Typed

\* The interrupt keeps the types.
LEMMA IsrTyping == ASSUME Typed, IsrStep PROVE Typed'
  <1> USE Values DEF Isr
  <1>0. /\ queues \in Queues /\ play \in [generation : Nat, pending : Int] /\ isr \in Interrupts
        /\ staged \in [Blocks -> Records] /\ dma \in [Buffers -> Records] /\ flag \in Flags
        /\ Len(queues.events) <= EventCapacity /\ (isr.block # 0 <=> isr.pc = "refill")
    BY DEF Typed
  <1>1. BufferDone \in Interrupts /\ BufferDone.block = 0 /\ BufferDone.pc = "idle"
    <2> DEFINE next == (isr.next + 1) % Descriptors
    <2>1. next \in Buffers
      BY <1>0 DEF Interrupts
    <2>2. BufferDone = [isr EXCEPT !.pc = "idle", !.next = next, !.block = 0, !.tries = 0]
      BY DEF BufferDone
    <2> HIDE DEF next
    <2>3. 0 \in 0 .. StagingBlocks /\ isr.record \in Records
      BY <1>0 DEF Interrupts
    <2>4. BufferDone = [pc |-> "idle", next |-> next, record |-> isr.record, block |-> 0, tries |-> 0]
      BY <1>0, <2>2 DEF Interrupts
    <2>5. QED
      BY <2>1, <2>3, <2>4 DEF Interrupts
  <1>2. UNCHANGED <<ring, staged, audio, facade, producer>>
    BY DEF IsrStep, IsrSent, IsrEvent, IsrTake, IsrRefill, IsrUnchanged
  <1>3. CASE IsrSent
    <2>1. isr.next \in Buffers /\ dma[isr.next] \in Records
      BY <1>0 DEF Interrupts
    <2>2. isr' \in Interrupts /\ isr'.block = 0 /\ isr'.pc # "refill"
      BY <1>0, <1>1, <1>3, <2>1 DEF IsrSent, Interrupts
    <2>3. dma' \in [Buffers -> Records]
      BY <1>0, <1>3, <2>1 DEF IsrSent
    <2>4. play' \in [generation : Nat, pending : Int]
      BY <1>0, <1>3 DEF IsrSent
    <2>5. UNCHANGED <<flag, queues>>
      BY <1>3 DEF IsrSent
    <2>6. QED
      BY <1>0, <1>2, <2>2, <2>3, <2>4, <2>5 DEF Typed
  <1>4. CASE IsrEvent
    <2>1. queues' \in Queues /\ Len(queues'.events) <= EventCapacity
      <3> DEFINE posted == Append(queues.events, isr.record)
      <3>1. posted \in Seq(Records) /\ Len(posted) = Len(queues.events) + 1 /\ Len(queues.events) \in Nat
        BY <1>0 DEF Queues, Interrupts
      <3>2. CASE queues' = queues
        BY <1>0, <3>2
      <3>3. CASE /\ queues' = [queues EXCEPT !.events = Append(@, isr.record)]
                 /\ Len(queues.events) < EventCapacity
        <4>1. queues' = [queues EXCEPT !.events = posted]
          BY <3>3
        <4> HIDE DEF posted
        <4>2. queues'.events = posted /\ queues' \in Queues
          BY <1>0, <3>1, <4>1 DEF Queues
        <4>3. QED
          BY <3>1, <3>3, <4>2
      <3>4. QED
        BY <1>4, <3>2, <3>3 DEF IsrEvent
    <2>2. flag' \in Flags
      BY <1>0, <1>4 DEF IsrEvent, Flags
    <2>3. isr' \in Interrupts /\ isr'.block = 0 /\ isr'.pc # "refill"
      BY <1>0, <1>4 DEF IsrEvent, Interrupts
    <2>4. UNCHANGED <<dma, play>>
      BY <1>4 DEF IsrEvent
    <2>5. QED
      BY <1>0, <1>2, <2>1, <2>2, <2>3, <2>4 DEF Typed
  <1>5. CASE IsrTake
    <2>1. UNCHANGED <<flag, dma, play>>
      BY <1>5 DEF IsrTake
    <2>2. CASE isr' = BufferDone /\ queues' = queues
      BY <1>0, <1>1, <1>2, <2>1, <2>2 DEF Typed
    <2>3. CASE /\ queues.ready # <<>> /\ isr.tries < StagingBlocks
               /\ isr' = [isr EXCEPT !.pc = "refill", !.block = Head(queues.ready), !.tries = @ + 1]
               /\ queues' = [queues EXCEPT !.ready = Tail(@)]
      <3>1. queues.ready \in Seq(Blocks)
        BY <1>0 DEF Queues
      <3>2. Head(queues.ready) \in Blocks /\ Tail(queues.ready) \in Seq(Blocks)
        BY <2>3, <3>1, HeadTailProperties
      <3>3. queues' \in Queues /\ queues'.events = queues.events
        BY <1>0, <2>3, <3>2 DEF Queues
      <3>4. Head(queues.ready) \in 0 .. StagingBlocks /\ Head(queues.ready) # 0
        BY <3>2 DEF Blocks
      <3>5. isr' \in Interrupts /\ isr'.block # 0 /\ isr'.pc = "refill"
        <4> DEFINE block == Head(queues.ready)
                   tries == isr.tries + 1
        <4>1. tries \in 0 .. StagingBlocks
          BY <1>0, <2>3 DEF Interrupts
        <4>2. block \in 0 .. StagingBlocks /\ block # 0
          BY <3>4
        <4>3. isr' = [isr EXCEPT !.pc = "refill", !.block = block, !.tries = tries]
          BY <2>3
        <4> HIDE DEF block, tries
        <4>4. QED
          BY <1>0, <4>1, <4>2, <4>3 DEF Interrupts
      <3>6. QED
        BY <1>0, <1>2, <2>1, <3>3, <3>5 DEF Typed
    <2>4. QED
      BY <1>5, <2>2, <2>3 DEF IsrTake
  <1>6. CASE IsrRefill
    <2>1. isr.block \in Blocks /\ staged[isr.block] \in Records /\ isr.next \in Buffers
      BY <1>0, <1>6 DEF IsrRefill, Interrupts, Blocks
    <2>2. queues' \in Queues /\ queues'.events = queues.events
      <3>1. Append(queues.free, isr.block) \in Seq(Blocks)
        BY <1>0, <2>1 DEF Queues
      <3>2. QED
        BY <1>0, <1>6, <3>1 DEF IsrRefill, FreeAfterRefill, Queues
    <2>3. dma' \in [Buffers -> Records]
      BY <1>0, <1>6, <2>1 DEF IsrRefill, FilledDma
    <2>4. play' \in [generation : Nat, pending : Int]
      BY <1>0, <1>6 DEF IsrRefill, Uncounted
    <2>5. isr' \in Interrupts /\ isr'.block = 0 /\ isr'.pc # "refill"
      BY <1>0, <1>1, <1>6 DEF IsrRefill, Interrupts
    <2>6. flag' = flag
      BY <1>6 DEF IsrRefill
    <2>7. QED
      BY <1>0, <1>2, <2>2, <2>3, <2>4, <2>5, <2>6 DEF Typed
  <1>7. QED
    BY <1>3, <1>4, <1>5, <1>6 DEF IsrStep

\* The drain takes all events, or finds the contract broken.
LEMMA DrainTyping ==
    ASSUME Typed, Drain
    PROVE  /\ flag' \in Flags /\ queues' \in Queues /\ Len(queues'.events) <= EventCapacity
           /\ queues'.free = queues.free /\ queues'.ready = queues.ready
  <1> USE Values
  <1>1. queues \in Queues /\ flag \in Flags /\ Len(queues.events) <= EventCapacity
    BY DEF Typed
  <1>2. flag' = flag \/ flag' = TrackingFailed
    BY DEF Drain
  <1>3. flag' \in Flags
    BY <1>1, <1>2 DEF TrackingFailed, Flags
  <1>4. CASE queues' = queues
    BY <1>1, <1>3, <1>4
  <1>5. CASE queues' = [queues EXCEPT !.events = <<>>]
    <2> DEFINE none == <<>>
    <2>1. none \in Seq(Records)
      OBVIOUS
    <2>2. queues' = [queues EXCEPT !.events = none]
      BY <1>5
    <2> HIDE DEF none
    <2>3. /\ queues' \in Queues /\ queues'.events = none
          /\ queues'.free = queues.free /\ queues'.ready = queues.ready
      BY <1>1, <2>1, <2>2 DEF Queues
    <2>4. Len(none) = 0
      BY DEF none
    <2>5. QED
      BY <1>3, <2>3, <2>4
  <1>6. QED
    BY <1>4, <1>5 DEF Drain

\* What the ring gives a period.
LEMMA RingTyping ==
    ASSUME ring \in Seq(Chunks), NEW count \in 0 .. Len(ring)
    PROVE  /\ SubSeq(ring, 1, count) \in Seq(Chunks)
           /\ SubSeq(ring, count + 1, Len(ring)) \in Seq(Chunks)
           /\ Len(SubSeq(ring, count + 1, Len(ring))) <= Len(ring)
  <1>1. Len(ring) \in Nat /\ \A i \in 1 .. Len(ring) : ring[i] \in Chunks
    BY LenProperties
  <1>2. SubSeq(ring, 1, count) \in Seq(Chunks)
    BY <1>1, SubSeqProperties
  <1>3. /\ SubSeq(ring, count + 1, Len(ring)) \in Seq(Chunks)
        /\ Len(SubSeq(ring, count + 1, Len(ring)))
           = IF count + 1 <= Len(ring) THEN Len(ring) - (count + 1) + 1 ELSE 0
    <2>1. count + 1 \in Int /\ Len(ring) \in Int
          /\ \A i \in count + 1 .. Len(ring) : ring[i] \in Chunks
      BY <1>1
    <2>2. QED
      BY <2>1, SubSeqProperties
  <1>4. QED
    BY <1>1, <1>2, <1>3

\* The audio task keeps the types.
LEMMA AudioTyping == ASSUME Typed, AudioStep PROVE Typed'
  <1> USE Values DEF At, Goto
  <1>0. /\ ring \in Seq(Chunks) /\ Len(ring) <= RingSize
        /\ queues \in Queues /\ play \in [generation : Nat, pending : Int] /\ audio \in Periods
        /\ staged \in [Blocks -> Records] /\ dma \in [Buffers -> Records] /\ flag \in Flags
        /\ Len(queues.events) <= EventCapacity /\ (audio.pc = "admit" => audio.left > 0)
    BY DEF Typed
  <1>1. UNCHANGED <<isr, facade, producer>>
    BY DEF AudioStep, SessionEnds, Period, ResetRing, ResetReady, ResetGeneration, ResetDone, Read,
           SessionFault, PeriodEnds, Block, Admit, Rejected, Close, FailureEnds, AudioUnchanged
  <1>2. CASE SessionEnds \/ PeriodEnds
    <2>1. audio' \in Periods /\ audio'.pc # "admit"
      BY <1>0, <1>2 DEF SessionEnds, PeriodEnds, Periods, AudioPcs
    <2>2. UNCHANGED <<ring, flag, queues, staged, dma, play>>
      BY <1>2 DEF SessionEnds, PeriodEnds
    <2>3. QED
      BY <1>0, <1>1, <2>1, <2>2 DEF Typed
  <1>3. CASE Period \/ Block
    <2>1. flag' \in Flags /\ queues' \in Queues /\ Len(queues'.events) <= EventCapacity
      BY <1>3, DrainTyping DEF Period, Block
    <2>2. audio' \in Periods /\ (audio'.pc = "admit" => audio'.left > 0)
      BY <1>0, <1>3 DEF Period, Block, Periods, AudioPcs, Flags
    <2>3. UNCHANGED <<ring, staged, dma, play>>
      BY <1>3 DEF Period, Block
    <2>4. QED
      BY <1>0, <1>1, <2>1, <2>2, <2>3 DEF Typed
  <1>4. CASE ResetRing
    <2>1. audio' \in Periods /\ audio'.pc # "admit"
      BY <1>0, <1>4 DEF ResetRing, Periods, AudioPcs
    <2>2. ring' \in Seq(Chunks) /\ Len(ring') <= RingSize
      BY <1>4 DEF ResetRing
    <2>3. UNCHANGED <<flag, queues, staged, dma, play>>
      BY <1>4 DEF ResetRing
    <2>4. QED
      BY <1>0, <1>1, <2>1, <2>2, <2>3 DEF Typed
  <1>5. CASE ResetReady
    <2>1. queues.ready \in Seq(Blocks) /\ queues.free \in Seq(Blocks) /\ queues.ready # <<>>
      BY <1>0, <1>5 DEF ResetReady, Queues
    <2>2. Tail(queues.ready) \in Seq(Blocks) /\ Append(queues.free, Head(queues.ready)) \in Seq(Blocks)
      BY <2>1, HeadTailProperties
    <2>3. queues' \in Queues /\ queues'.events = queues.events
      BY <1>0, <1>5, <2>2 DEF ResetReady, Queues
    <2>4. play' \in [generation : Nat, pending : Int]
      BY <1>0, <1>5 DEF ResetReady, Uncounted
    <2>5. UNCHANGED <<ring, flag, staged, dma, audio>>
      BY <1>5 DEF ResetReady
    <2>6. QED
      BY <1>0, <1>1, <2>3, <2>4, <2>5 DEF Typed
  <1>6. CASE ResetGeneration
    <2>1. audio' \in Periods /\ audio'.pc # "admit"
      BY <1>0, <1>6 DEF ResetGeneration, Periods, AudioPcs
    <2>2. play' \in [generation : Nat, pending : Int]
      BY <1>0, <1>6 DEF ResetGeneration
    <2>3. UNCHANGED <<ring, flag, queues, staged, dma>>
      BY <1>6 DEF ResetGeneration
    <2>4. QED
      BY <1>0, <1>1, <2>1, <2>2, <2>3 DEF Typed
  <1>7. CASE ResetDone
    <2>1. audio' \in Periods /\ audio'.pc # "admit"
      BY <1>0, <1>7 DEF ResetDone, Periods, AudioPcs
    <2>2. queues' \in Queues /\ Len(queues'.events) = 0
      <3> DEFINE none == <<>>
      <3>1. none \in Seq(Records) /\ Len(none) = 0
        OBVIOUS
      <3>2. queues' = [queues EXCEPT !.events = none]
        BY <1>7 DEF ResetDone
      <3> HIDE DEF none
      <3>3. queues' \in Queues /\ queues'.events = none
        BY <1>0, <3>1, <3>2 DEF Queues
      <3>4. QED
        BY <3>1, <3>3
    <2>3. flag' \in Flags
      BY <1>0, <1>7 DEF ResetDone, Flags
    <2>4. UNCHANGED <<ring, staged, dma, play>>
      BY <1>7 DEF ResetDone
    <2>5. QED
      BY <1>0, <1>1, <2>1, <2>2, <2>3, <2>4 DEF Typed
  <1>8. CASE Read
    <2> DEFINE count == IF ~audio.speaker THEN 0
                        ELSE IF Len(ring) < Quantum THEN Len(ring) ELSE Quantum
    <2>1. count \in 0 .. Len(ring)
      BY <1>0
    <2> HIDE DEF count
    <2>2. ring' = SubSeq(ring, count + 1, Len(ring))
      BY <1>8 DEF Read, Consumed, count
    <2>3. audio' = [pc |-> "block", speaker |-> FALSE, got |-> SubSeq(ring, 1, count), left |-> Quantum]
      BY <1>8 DEF Read, count
    <2>4. ring' \in Seq(Chunks) /\ Len(ring') <= RingSize
      BY <1>0, <2>1, <2>2, RingTyping
    <2>5. audio' \in Periods /\ audio'.pc # "admit"
      BY <1>0, <2>1, <2>3, RingTyping DEF Periods, AudioPcs
    <2>6. UNCHANGED <<flag, queues, staged, dma, play>>
      BY <1>8 DEF Read
    <2>7. QED
      BY <1>0, <1>1, <2>4, <2>5, <2>6 DEF Typed
  <1>9. CASE SessionFault \/ FailureEnds
    <2>1. flag' \in Flags
      BY <1>0, <1>9 DEF SessionFault, FailureEnds, Flags
    <2>2. UNCHANGED <<ring, queues, staged, dma, play, audio>>
      BY <1>9 DEF SessionFault, FailureEnds
    <2>3. QED
      BY <1>0, <1>1, <2>1, <2>2 DEF Typed
  <1>10. CASE Admit
    <2> DEFINE block == Head(queues.free)
               pcm == IF audio.got = <<>> THEN Silence ELSE Head(audio.got)
    <2>1. queues.free \in Seq(Blocks) /\ queues.ready \in Seq(Blocks) /\ queues.free # <<>>
      BY <1>0, <1>10 DEF Admit, Queues
    <2>2. block \in Blocks /\ Tail(queues.free) \in Seq(Blocks) /\ Append(queues.ready, block) \in Seq(Blocks)
      BY <2>1, HeadTailProperties
    <2>3. audio.got \in Seq(Chunks)
      BY <1>0 DEF Periods
    <2>4. pcm \in Chunks \cup {Silence}
      BY <2>3, HeadTailProperties
    <2>5. staged' \in [Blocks -> Records]
      BY <1>0, <1>10, <2>2, <2>4 DEF Admit, Records
    <2>6. queues' \in Queues /\ queues'.events = queues.events
      BY <1>0, <1>10, <2>2 DEF Admit, Queues
    <2>7. play' \in [generation : Nat, pending : Int]
      BY <1>0, <1>10 DEF Admit
    <2>8. audio' \in Periods /\ audio'.pc # "admit"
      <3>1. (IF audio.got = <<>> THEN <<>> ELSE Tail(audio.got)) \in Seq(Chunks)
        BY <2>3, HeadTailProperties
      <3>2. audio.left - 1 \in 0 .. Quantum
        BY <1>0, <1>10 DEF Admit, Periods
      <3>3. QED
        BY <1>0, <1>10, <3>1, <3>2 DEF Admit, Periods, AudioPcs
    <2>9. UNCHANGED <<ring, flag, dma>>
      BY <1>10 DEF Admit
    <2>10. QED
      BY <1>0, <1>1, <2>5, <2>6, <2>7, <2>8, <2>9 DEF Typed
  <1>11. CASE Rejected
    <2>1. flag' \in Flags
      BY <1>0, <1>11 DEF Rejected, TrackingFailed, Flags
    <2>2. audio' \in Periods /\ audio'.pc # "admit"
      <3>1. <<>> \in Seq(Chunks) /\ 0 \in 0 .. Quantum
        OBVIOUS
      <3>2. QED
        BY <1>0, <1>11, <3>1 DEF Rejected, Periods, AudioPcs
    <2>3. UNCHANGED <<ring, queues, staged, dma, play>>
      BY <1>11 DEF Rejected
    <2>4. QED
      BY <1>0, <1>1, <2>1, <2>2, <2>3 DEF Typed
  <1>12. CASE Close
    <2>1. flag' \in Flags
      BY <1>0, <1>12 DEF Close, Flags
    <2>2. ring' \in Seq(Chunks) /\ Len(ring') <= RingSize
      BY <1>0, <1>12 DEF Close
    <2>3. queues' \in Queues /\ Len(queues'.events) <= EventCapacity
      BY <1>12 DEF Close
    <2>4. dma' \in [Buffers -> Records] /\ staged' = staged
      BY <1>12 DEF Close
    <2>5. play' \in [generation : Nat, pending : Int]
      BY <1>0, <1>12 DEF Close, ResetPlay
    <2>6. audio' \in Periods /\ audio'.pc # "admit"
      BY <1>0, <1>12 DEF Close, Periods, AudioPcs
    <2>7. QED
      BY <1>0, <1>1, <2>1, <2>2, <2>3, <2>4, <2>5, <2>6 DEF Typed
  <1>13. QED
    BY <1>2, <1>3, <1>4, <1>5, <1>6, <1>7, <1>8, <1>9, <1>10, <1>11, <1>12 DEF AudioStep

\* The calls and the loops of main keep the types.
LEMMA MainTyping == ASSUME Typed, MainStep \/ Commit \/ FailedSeen \/ Calls \/ PlayStarts PROVE Typed'
  <1> USE DEF Main, Goto
  <1>0. flag \in Flags /\ facade \in Facades /\ audio \in Periods
    BY DEF Typed
  <1>1. UNCHANGED <<ring, queues, staged, dma, play, isr, producer>>
    BY DEF MainStep, Calls, StackStart, StackStop, StackStopNothing, StackPark, Commit, FailedSeen,
           FacadeUnchanged, MainUnchanged, Start, StartStream, StopStream, Finish, Pause, LoopFailed,
           LoopUnlistened, LoopStarting, LoopIsRunning, LoopRing, LoopPending, LoopStopping,
           StopSpeakerReset, PlayStarts
  <1>2. /\ flag' \in Flags /\ facade' \in Facades
        /\ audio' = audio \/ (audio' \in Periods /\ audio'.pc = "session")
    <2>1. ASSUME NEW f \in Flags PROVE Started(f) \in Flags
      <3>1. [f EXCEPT !.requested = TRUE, !.current = FALSE] \in Flags
        BY DEF Flags
      <3>2. QED
        BY <3>1 DEF Started
    <2>2. Stopped(facade) \in Facades
      BY <1>0 DEF Stopped, Facades
    <2>3. CASE StackStart \/ StackStop \/ StackStopNothing \/ StackPark
      <3>1. CASE StackStart
        BY <1>0, <2>1, <3>1 DEF StackStart
      <3>2. CASE StackStop \/ StackStopNothing \/ StackPark
        <4>1. flag' \in Flags
          <5>1. CASE StackStop
            <6>1. flag' = [flag EXCEPT !.requested = FALSE, !.current = FALSE, !.wanted = FALSE,
                                       !.tracking = FALSE, !.running = FALSE]
              BY <5>1 DEF StackStop
            <6>2. QED
              BY <1>0, <6>1 DEF Flags
          <5>2. CASE StackStopNothing \/ StackPark
            BY <1>0, <5>2 DEF StackStopNothing, StackPark, Flags
          <5>3. QED
            BY <3>2, <5>1, <5>2
        <4>2. facade' \in Facades /\ audio' = audio
          BY <1>0, <3>2 DEF StackStop, StackStopNothing, StackPark, Facades
        <4>3. QED
          BY <4>1, <4>2
      <3>3. QED
        BY <2>3, <3>1, <3>2
    <2>4. CASE Commit
      BY <1>0, <2>4 DEF Commit, Flags, Periods, AudioPcs
    <2>5. CASE FailedSeen
      BY <1>0, <2>5 DEF FailedSeen, Flags
    <2>6. CASE Start
      <3>1. (IF HasFailedSession THEN Started(flag) ELSE flag) \in Flags
        BY <1>0, <2>1
      <3>2. flag' \in Flags
        <4> DEFINE f == IF HasFailedSession THEN Started(flag) ELSE flag
        <4>1. f \in Flags /\ flag' = [f EXCEPT !.paused = FALSE]
          BY <3>1, <2>6 DEF Start
        <4> HIDE DEF f
        <4>2. QED
          BY <4>1 DEF Flags
      <3>3. QED
        BY <1>0, <2>6, <3>2 DEF Start, Facades
    <2>7. CASE StopStream \/ Finish \/ Pause
      BY <1>0, <2>2, <2>7 DEF StopStream, Finish, Pause, FacadeUnchanged, Flags, Facades
    <2>8. CASE LoopFailed \/ LoopUnlistened \/ LoopRing \/ LoopStopping
      BY <1>0, <2>8 DEF LoopFailed, LoopUnlistened, LoopRing, LoopStopping, FacadeUnchanged, Flags, Facades
    <2>9. CASE LoopStarting
      <3>1. flag' \in Flags
        <4> DEFINE f == Started(flag)
        <4>1. f \in Flags
          BY <1>0, <2>1
        <4>2. flag' = flag \/ flag' = [f EXCEPT !.wanted = TRUE, !.running = @ \/ flag.stack]
          BY <2>9 DEF LoopStarting
        <4> HIDE DEF f
        <4>3. QED
          BY <1>0, <4>1, <4>2 DEF Flags
      <3>2. facade' \in Facades /\ UNCHANGED audio
        BY <1>0, <2>9 DEF LoopStarting, FacadeUnchanged, Facades
      <3>3. QED
        BY <3>1, <3>2
    <2>10. CASE LoopIsRunning \/ LoopPending
      <3> DEFINE g == Stopped(facade)
      <3>1. g \in Facades
        BY <2>2
      <3>2. flag' \in Flags /\ UNCHANGED audio
        BY <1>0, <2>10 DEF LoopIsRunning, LoopPending, FacadeUnchanged, Flags
      <3>3. \/ facade' = [facade EXCEPT !.pc = "idle", !.state = "RUNNING"]
            \/ facade' = [facade EXCEPT !.pc = "idle"]
            \/ facade' = [g EXCEPT !.pc = "reset"]
            \/ facade' = [g EXCEPT !.pc = "idle"]
        BY <2>10 DEF LoopIsRunning, LoopPending
      <3> HIDE DEF g
      <3>4. QED
        BY <1>0, <3>1, <3>2, <3>3 DEF Facades
    <2>11. CASE StopSpeakerReset
      BY <1>0, <2>11 DEF StopSpeakerReset, FacadeUnchanged, Flags, Facades
    <2>12. QED
      BY <2>3, <2>4, <2>5, <2>6, <2>7, <2>8, <2>9, <2>10, <2>11
      DEF MainStep, Calls, StartStream, PlayStarts
  <1>3. QED
    BY <1>1, <1>2 DEF Typed

\* The producer keeps the types.
LEMMA ProducerTyping == ASSUME Typed, ProducerStep PROVE Typed'
  <1> USE Values DEF Producer
  <1>0. /\ flag \in Flags /\ facade \in Facades /\ producer \in Producers
        /\ ring \in Seq(Chunks) /\ Len(ring) <= RingSize
    BY DEF Typed
  <1>1. CASE PlayRecovers
    <2>1. flag' \in Flags /\ facade' \in Facades
      BY <1>0, <1>1 DEF PlayRecovers, Started, Flags, Facades
    <2>2. UNCHANGED <<ring, queues, staged, dma, play, isr, audio, producer>>
      BY <1>1 DEF PlayRecovers
    <2>3. QED
      BY <2>1, <2>2 DEF Typed
  <1>2. CASE PlayStarts
    BY <1>2, MainTyping
  <1>3. CASE PlayAdmitted \/ Admission \/ WriteTimeout
    <2>1. producer' \in Producers
      BY <1>0, <1>3 DEF PlayAdmitted, Admission, WriteTimeout, Producers
    <2>2. UNCHANGED <<ring, flag, queues, staged, dma, play, isr, audio, facade>>
      BY <1>3 DEF PlayAdmitted, Admission, WriteTimeout, ProducerUnchanged
    <2>3. QED
      BY <2>1, <2>2 DEF Typed
  <1>4. CASE Write
    <2>1. producer.chunk \in Chunks /\ producer.chunk + 1 \in 1 .. MaxAlone + 1
      BY <1>0, <1>4 DEF Write, Producers, Chunks
    <2>2. producer' \in Producers
      BY <1>4, <2>1 DEF Write, Producers
    <2>3. ring' \in Seq(Chunks) /\ Len(ring') <= RingSize
      BY <1>0, <1>4, <2>1 DEF Write
    <2>4. UNCHANGED <<flag, queues, staged, dma, play, isr, audio, facade>>
      BY <1>4 DEF Write, ProducerUnchanged
    <2>5. QED
      BY <2>2, <2>3, <2>4 DEF Typed
  <1>5. QED
    BY <1>1, <1>2, <1>3, <1>4 DEF ProducerStep

LEMMA TypedAlways == Spec => []Typed
  <1>1. ASSUME Typed, [Next]_vars PROVE Typed'
    <2>1. CASE UNCHANGED vars
      BY <1>1, <2>1 DEF Typed, vars
    <2>2. QED
      BY <1>1, <2>1, IsrTyping, AudioTyping, MainTyping, ProducerTyping DEF Next
  <1>2. QED
    BY <1>1, InitTyping, PTL DEF Spec

----------------------------------------------------------------------------
(* Every block is in one place.                                            *)

\* No block is twice in a queue, or in two places; none is missing.
Placed ==
    /\ Once(queues.free) /\ Once(queues.ready)
    /\ Elements(queues.free) \cap Elements(queues.ready) = {}
    /\ isr.block \notin Elements(queues.free) \cup Elements(queues.ready)
    /\ Blocks \subseteq Elements(queues.free) \cup Elements(queues.ready) \cup {isr.block}

\* The steps that move no block and count nothing.
Still ==
    UNCHANGED <<queues.free, queues.ready, staged, dma, play.pending, isr>>

LEMMA StillSteps ==
    ASSUME Typed, [Next]_vars
    PROVE  IsrStep \/ ResetReady \/ Admit \/ Close \/ Still
  <1>0. queues \in Queues /\ play \in [generation : Nat, pending : Int]
    BY DEF Typed
  <1>1. CASE Period \/ Block
    <2>1. queues'.free = queues.free /\ queues'.ready = queues.ready
      BY <1>1, DrainTyping DEF Period, Block
    <2>2. UNCHANGED <<staged, dma, play, isr>>
      BY <1>1 DEF Period, Block, AudioUnchanged
    <2>3. QED
      BY <2>1, <2>2 DEF Still
  <1>2. CASE ResetGeneration \/ ResetDone
    <2>1. UNCHANGED <<staged, dma, isr>>
      BY <1>2 DEF ResetGeneration, ResetDone, AudioUnchanged
    <2>2. UNCHANGED <<queues.free, queues.ready, play.pending>>
      BY <1>0, <1>2 DEF ResetGeneration, ResetDone, Queues
    <2>3. QED
      BY <2>1, <2>2 DEF Still
  <1>3. CASE \/ SessionEnds \/ ResetRing \/ Read \/ SessionFault \/ PeriodEnds \/ Rejected
             \/ FailureEnds
    BY <1>3 DEF SessionEnds, ResetRing, Read, SessionFault, PeriodEnds, Rejected, FailureEnds,
                AudioUnchanged, Still
  <1>4. CASE MainStep \/ Commit \/ FailedSeen \/ Calls
    BY <1>4 DEF MainStep, Calls, StackStart, StackStop, StackStopNothing, StackPark, Commit,
                FailedSeen, FacadeUnchanged, MainUnchanged, Start, StartStream, StopStream, Finish,
                Pause, LoopFailed, LoopUnlistened, LoopStarting, LoopIsRunning, LoopRing,
                LoopPending, LoopStopping, StopSpeakerReset, Still
  <1>5. CASE ProducerStep
    BY <1>5 DEF ProducerStep, PlayRecovers, PlayStarts, PlayAdmitted, Admission, Write, WriteTimeout,
                ProducerUnchanged, Start, MainUnchanged, Still
  <1>6. CASE UNCHANGED vars
    BY <1>6 DEF vars, Still
  <1>7. QED
    BY <1>1, <1>2, <1>3, <1>4, <1>5, <1>6 DEF Next, AudioStep

\* What the four steps of the interrupt do to the queues and to its block.
LEMMA IsrMoves ==
    ASSUME Typed, IsrStep
    PROVE  /\ staged' = staged
           /\ \/ /\ isr.block = 0 /\ isr'.block = 0
                 /\ queues'.free = queues.free /\ queues'.ready = queues.ready
              \/ /\ isr.block = 0 /\ queues.ready # <<>>
                 /\ isr'.block = Head(queues.ready)
                 /\ queues'.free = queues.free /\ queues'.ready = Tail(queues.ready)
              \/ /\ isr.block \in Blocks /\ isr'.block = 0
                 /\ queues'.free = Append(queues.free, isr.block) /\ queues'.ready = queues.ready
  <1> USE DEF Isr
  <1>0. queues \in Queues /\ isr \in Interrupts /\ (isr.block # 0 <=> isr.pc = "refill")
    BY DEF Typed
  <1>1. BufferDone.block = 0
    BY <1>0 DEF BufferDone, Interrupts
  <1>2. staged' = staged
    BY DEF IsrStep, IsrSent, IsrEvent, IsrTake, IsrRefill, IsrUnchanged
  <1>3. CASE IsrSent
    BY <1>0, <1>1, <1>2, <1>3 DEF IsrSent, Interrupts
  <1>4. CASE IsrEvent
    BY <1>0, <1>2, <1>4 DEF IsrEvent, Interrupts, Queues
  <1>5. CASE IsrTake
    BY <1>0, <1>1, <1>2, <1>5 DEF IsrTake, Interrupts, Queues
  <1>6. CASE IsrRefill
    <2>1. isr.block \in Blocks
      BY <1>0, <1>6 DEF IsrRefill, Interrupts, Blocks
    <2>2. isr'.block = 0
      BY <1>0, <1>1, <1>6 DEF IsrRefill, Interrupts
    <2>3. queues'.free = Append(queues.free, isr.block) /\ queues'.ready = queues.ready
      BY <1>0, <1>6 DEF IsrRefill, FreeAfterRefill, Queues
    <2>4. QED
      BY <1>2, <2>1, <2>2, <2>3
  <1>7. QED
    BY <1>3, <1>4, <1>5, <1>6 DEF IsrStep

\* What the three steps of the audio task that move blocks do to the queues.
LEMMA AudioMoves ==
    ASSUME Typed, ResetReady \/ Admit \/ Close
    PROVE  /\ isr' = isr
           /\ ResetReady => /\ queues.ready # <<>> /\ queues'.ready = Tail(queues.ready)
                            /\ queues'.free = Append(queues.free, Head(queues.ready))
           /\ Admit => /\ queues.free # <<>> /\ queues'.free = Tail(queues.free)
                       /\ queues'.ready = Append(queues.ready, Head(queues.free))
           /\ Close => /\ isr.block = 0 /\ queues'.free = [b \in Blocks |-> b]
                       /\ queues'.ready = <<>>
  <1>0. queues \in Queues /\ (isr.block # 0 <=> isr.pc = "refill")
    BY DEF Typed
  <1>1. isr' = isr
    BY DEF ResetReady, Admit, Close, AudioUnchanged
  <1>2. ResetReady => /\ queues.ready # <<>> /\ queues'.ready = Tail(queues.ready)
                      /\ queues'.free = Append(queues.free, Head(queues.ready))
    BY <1>0 DEF ResetReady, Queues
  <1>3. Admit => /\ queues.free # <<>> /\ queues'.free = Tail(queues.free)
                 /\ queues'.ready = Append(queues.ready, Head(queues.free))
    BY <1>0 DEF Admit, Queues
  <1>4. Close => /\ isr.block = 0 /\ queues'.free = [b \in Blocks |-> b] /\ queues'.ready = <<>>
    BY <1>0 DEF Close, Isr, ResetQueues
  <1>5. QED
    BY <1>1, <1>2, <1>3, <1>4

\* At first, and after the hardware has closed, every block is free.
LEMMA AllFree ==
    ASSUME NEW free, free = [b \in Blocks |-> b]
    PROVE  Once(free) /\ Elements(free) = Blocks /\ Once(<<>>) /\ Elements(<<>>) = {}
  BY DEF Once, Elements

LEMMA PlacedStep == ASSUME Typed, Placed, [Next]_vars PROVE Placed'
  <1>0. queues.free \in Seq(Blocks) /\ queues.ready \in Seq(Blocks) /\ 0 \notin Blocks
    BY DEF Typed, Queues, Blocks
  <1>1. CASE Still
    BY <1>1 DEF Still, Placed
  <1>2. CASE IsrStep
    <2>1. CASE /\ isr.block = 0 /\ isr'.block = 0
               /\ queues'.free = queues.free /\ queues'.ready = queues.ready
      BY <2>1 DEF Placed
    <2>2. CASE /\ isr.block = 0 /\ queues.ready # <<>>
               /\ isr'.block = Head(queues.ready)
               /\ queues'.free = queues.free /\ queues'.ready = Tail(queues.ready)
      <3>1. /\ Once(queues'.ready) /\ Head(queues.ready) \in Elements(queues.ready)
            /\ Elements(queues'.ready) = Elements(queues.ready) \ {Head(queues.ready)}
        BY <1>0, <2>2, TailOnce DEF Placed
      <3>2. QED
        BY <1>0, <2>2, <3>1 DEF Placed
    <2>3. CASE /\ isr.block \in Blocks /\ isr'.block = 0
               /\ queues'.free = Append(queues.free, isr.block) /\ queues'.ready = queues.ready
      <3>1. /\ Once(queues'.free)
            /\ Elements(queues'.free) = Elements(queues.free) \cup {isr.block}
        BY <1>0, <2>3, AppendOnce DEF Placed
      <3>2. 0 \notin Elements(queues.free) /\ 0 \notin Elements(queues.ready)
        BY <1>0 DEF Elements
      <3>3. QED
        BY <1>0, <2>3, <3>1, <3>2 DEF Placed
    <2>4. QED
      BY <1>2, <2>1, <2>2, <2>3, IsrMoves
  <1>3. CASE ResetReady
    <2> DEFINE block == Head(queues.ready)
    <2>1. /\ queues.ready # <<>> /\ queues'.ready = Tail(queues.ready) /\ isr' = isr
          /\ queues'.free = Append(queues.free, block)
      BY <1>3, AudioMoves
    <2>2. /\ block \in Blocks /\ block \in Elements(queues.ready) /\ Once(queues'.ready)
          /\ Elements(queues'.ready) = Elements(queues.ready) \ {block}
      BY <1>0, <2>1, TailOnce DEF Placed
    <2>3. Once(queues'.free) /\ Elements(queues'.free) = Elements(queues.free) \cup {block}
      BY <1>0, <2>1, <2>2, AppendOnce DEF Placed
    <2>4. QED
      BY <2>1, <2>2, <2>3 DEF Placed
  <1>4. CASE Admit
    <2> DEFINE block == Head(queues.free)
    <2>1. /\ queues.free # <<>> /\ queues'.free = Tail(queues.free) /\ isr' = isr
          /\ queues'.ready = Append(queues.ready, block)
      BY <1>4, AudioMoves
    <2>2. /\ block \in Blocks /\ block \in Elements(queues.free) /\ Once(queues'.free)
          /\ Elements(queues'.free) = Elements(queues.free) \ {block}
      BY <1>0, <2>1, TailOnce DEF Placed
    <2>3. Once(queues'.ready) /\ Elements(queues'.ready) = Elements(queues.ready) \cup {block}
      BY <1>0, <2>1, <2>2, AppendOnce DEF Placed
    <2>4. QED
      BY <2>1, <2>2, <2>3 DEF Placed
  <1>5. CASE Close
    BY <1>0, <1>5, AudioMoves, AllFree DEF Placed
  <1>6. QED
    BY <1>1, <1>2, <1>3, <1>4, <1>5, StillSteps

LEMMA PlacedAlways == Spec => []Placed
  <1>1. Init => Placed
    <2> SUFFICES ASSUME Init PROVE Placed
      OBVIOUS
    <2>1. queues.free = [b \in Blocks |-> b] /\ queues.ready = <<>> /\ isr.block = 0
      BY DEF Init
    <2>2. 0 \notin Blocks
      BY DEF Blocks
    <2>3. QED
      BY <2>1, <2>2, AllFree DEF Placed
  <1>2. QED
    BY <1>1, PlacedStep, TypedAlways, PTL DEF Spec

\* Every staging block is in exactly one place, however the audio task, the
\* interrupt, a reset and a close interleave.
THEOREM BlocksAreConserved == Spec => []BlocksConserved
  <1>1. ASSUME Typed, Placed PROVE BlocksConserved
    <2>1. queues.free \in Seq(Blocks) /\ queues.ready \in Seq(Blocks)
      BY <1>1 DEF Typed, Queues
    <2>2. ASSUME NEW b \in Blocks
          PROVE  /\ Cardinality({i \in DOMAIN queues.free : queues.free[i] = b})
                    = IF b \in Elements(queues.free) THEN 1 ELSE 0
                 /\ Cardinality({i \in DOMAIN queues.ready : queues.ready[i] = b})
                    = IF b \in Elements(queues.ready) THEN 1 ELSE 0
      BY <1>1, <2>1, OnceCounts DEF Placed
    <2>3. ASSUME NEW b \in Blocks
          PROVE  Cardinality({i \in DOMAIN queues.free : queues.free[i] = b})
                 + Cardinality({i \in DOMAIN queues.ready : queues.ready[i] = b})
                 + (IF isr.block = b THEN 1 ELSE 0) = 1
      <3> DEFINE free == b \in Elements(queues.free)
                 ready == b \in Elements(queues.ready)
      <3>1. ~(free /\ ready) /\ (isr.block = b => ~free /\ ~ready) /\ (free \/ ready \/ isr.block = b)
        BY <1>1 DEF Placed
      <3> HIDE DEF free, ready
      <3>2. (IF free THEN 1 ELSE 0) + (IF ready THEN 1 ELSE 0) + (IF isr.block = b THEN 1 ELSE 0) = 1
        BY <3>1
      <3>3. QED
        BY <2>2, <3>2 DEF free, ready
    <2>4. QED
      BY <2>3 DEF BlocksConserved, Count
  <1>2. QED
    BY <1>1, TypedAlways, PlacedAlways, PTL

----------------------------------------------------------------------------
(* The pending count is exact.                                             *)

\* The blocks on their way to a DMA buffer, and the buffers, that hold PCM.
Carried == {b \in Blocks : b \in Elements(queues.ready) \cup {isr.block} /\ Real(staged[b])}
Playing == {d \in Buffers : Real(dma[d])}

\* While the interrupt refills a buffer, the buffer counts as silent.
Counted ==
    /\ play.pending = Cardinality(Carried) + Cardinality(Playing)
    /\ isr.pc # "idle" => ~Real(dma[isr.next])

LEMMA CountedSets ==
    /\ IsFiniteSet(Carried) /\ IsFiniteSet(Playing)
    /\ Cardinality(Carried) \in Nat /\ Cardinality(Playing) \in Nat
  <1>1. IsFiniteSet(Blocks) /\ IsFiniteSet(Buffers)
    BY Values, FS_Interval DEF Blocks, Buffers
  <1>2. Carried \in SUBSET Blocks /\ Playing \in SUBSET Buffers
    BY DEF Carried, Playing
  <1>3. IsFiniteSet(Carried) /\ IsFiniteSet(Playing)
    BY <1>1, <1>2, FS_Subset
  <1>4. QED
    BY <1>3, FS_CardinalityType

\* The interrupt: a buffer that is sent is taken off the count, and a block that
\* fills it moves from one set to the other.
LEMMA IsrCounts == ASSUME Typed, Placed, Counted, IsrStep PROVE Counted'
  <1> USE DEF Isr
  <1>0. /\ queues \in Queues /\ isr \in Interrupts /\ (isr.block # 0 <=> isr.pc = "refill")
        /\ dma \in [Buffers -> Records] /\ play \in [generation : Nat, pending : Int]
        /\ staged \in [Blocks -> Records] /\ staged' = staged
    BY IsrMoves DEF Typed
  <1>1. /\ queues.ready \in Seq(Blocks) /\ isr.next \in Buffers /\ 0 \notin Blocks
        /\ ~Real(NoRecord) /\ BufferDone.pc = "idle"
    BY <1>0 DEF Queues, Interrupts, Blocks, Real, NoRecord, BufferDone
  <1>2. CASE IsrSent
    <2>1. Carried' = Carried
      <3>1. queues' = queues /\ isr.block = 0
        BY <1>0, <1>2 DEF IsrSent
      <3>2. isr'.block = 0
        BY <1>0, <1>2, <3>1 DEF IsrSent, BufferDone, Interrupts
      <3>3. QED
        BY <1>0, <3>1, <3>2 DEF Carried
    <2>2. CASE flag.tracking
      <3>1. /\ dma' = [dma EXCEPT ![isr.next] = NoRecord]
            /\ play'.pending = IF Real(dma[isr.next]) THEN play.pending - 1 ELSE play.pending
            /\ isr'.next = isr.next
        BY <1>0, <1>2, <2>2 DEF IsrSent, Interrupts
      <3>2. Playing' = Playing \ {isr.next}
        BY <1>0, <1>1, <3>1 DEF Playing
      <3>3. isr.next \in Playing <=> Real(dma[isr.next])
        BY <1>1 DEF Playing
      <3>4. Cardinality(Playing')
            = IF Real(dma[isr.next]) THEN Cardinality(Playing) - 1 ELSE Cardinality(Playing)
        BY <3>2, <3>3, CountedSets, FS_RemoveElement
      <3>5. ~Real(dma'[isr'.next])
        BY <1>0, <1>1, <3>1
      <3>6. QED
        BY <2>1, <3>1, <3>4, <3>5, CountedSets DEF Counted
    <2>3. CASE ~flag.tracking
      <3>1. UNCHANGED <<dma, play>> /\ isr'.pc = "idle"
        BY <1>1, <1>2, <2>3 DEF IsrSent
      <3>2. QED
        BY <2>1, <3>1 DEF Counted, Playing
    <2>4. QED
      BY <2>2, <2>3
  <1>3. CASE IsrEvent
    <2>1. UNCHANGED <<dma, play>> /\ queues'.ready = queues.ready
      BY <1>0, <1>3 DEF IsrEvent, Queues
    <2>2. isr'.next = isr.next /\ isr'.block = isr.block /\ isr.pc # "idle"
      BY <1>0, <1>3 DEF IsrEvent, Interrupts
    <2>3. QED
      BY <1>0, <2>1, <2>2 DEF Counted, Carried, Playing
  <1>4. CASE IsrTake
    <2>1. UNCHANGED <<dma, play>> /\ isr.pc # "idle" /\ isr.block = 0
      BY <1>0, <1>4 DEF IsrTake
    <2>2. CASE isr' = BufferDone /\ queues' = queues
      <3>1. isr'.block = 0
        BY <1>0, <2>2 DEF BufferDone, Interrupts
      <3>2. QED
        BY <1>0, <1>1, <2>1, <2>2, <3>1 DEF Counted, Carried, Playing
    <2>3. CASE /\ queues.ready # <<>> /\ queues'.ready = Tail(queues.ready)
               /\ isr'.block = Head(queues.ready) /\ isr'.next = isr.next
      <3>1. /\ Head(queues.ready) \in Elements(queues.ready)
            /\ Elements(queues'.ready) = Elements(queues.ready) \ {Head(queues.ready)}
        BY <1>1, <2>3, TailOnce DEF Placed
      <3>2. Carried' = Carried
        BY <1>0, <1>1, <2>1, <2>3, <3>1 DEF Carried
      <3>3. QED
        BY <2>1, <2>3, <3>2 DEF Counted, Playing
    <2>4. QED
      BY <1>0, <1>4, <2>2, <2>3 DEF IsrTake, Interrupts, Queues
  <1>5. CASE IsrRefill
    <2> DEFINE block == isr.block
               current == staged[block].generation = play.generation
    <2>1. /\ block \in Blocks /\ isr'.block = 0 /\ queues'.ready = queues.ready
          /\ ~Real(dma[isr.next])
      BY <1>0, <1>5, IsrMoves DEF IsrRefill, Interrupts, Counted
    <2>2. Carried' = Carried \ {block} /\ (block \in Carried <=> Real(staged[block]))
      BY <1>0, <1>1, <2>1 DEF Carried, Placed
    <2>3. Cardinality(Carried')
          = IF Real(staged[block]) THEN Cardinality(Carried) - 1 ELSE Cardinality(Carried)
      BY <2>2, CountedSets, FS_RemoveElement
    <2>4. CASE current
      <3>1. dma' = [dma EXCEPT ![isr.next] = staged[block]] /\ play'.pending = play.pending
        BY <1>0, <1>5, <2>4 DEF IsrRefill, FilledDma
      <3>2. isr'.pc = "idle"
        BY <1>1, <1>5, <2>4 DEF IsrRefill
      <3>3. isr.next \notin Playing
        BY <2>1 DEF Playing
      <3>4. Playing' = IF Real(staged[block]) THEN Playing \cup {isr.next} ELSE Playing
        BY <1>0, <1>1, <2>1, <3>1 DEF Playing
      <3>5. Cardinality(Playing')
            = IF Real(staged[block]) THEN Cardinality(Playing) + 1 ELSE Cardinality(Playing)
        BY <3>3, <3>4, CountedSets, FS_AddElement
      <3>6. QED
        BY <2>3, <3>1, <3>2, <3>5, CountedSets DEF Counted
    <2>5. CASE ~current
      <3>1. /\ dma' = dma /\ isr'.next = isr.next
            /\ play'.pending = IF Real(staged[block]) THEN play.pending - 1 ELSE play.pending
        BY <1>0, <1>5, <2>5 DEF IsrRefill, FilledDma, Uncounted, Interrupts
      <3>2. Playing' = Playing
        BY <3>1 DEF Playing
      <3>3. QED
        BY <2>1, <2>3, <3>1, <3>2, CountedSets DEF Counted
    <2>6. QED
      BY <2>4, <2>5
  <1>6. QED
    BY <1>2, <1>3, <1>4, <1>5 DEF IsrStep

\* The audio task: an admitted block is counted if it has PCM, a block that a
\* reset gives back is taken off, and a close leaves nothing pending.
LEMMA AudioCounts == ASSUME Typed, Placed, Counted, ResetReady \/ Admit \/ Close PROVE Counted'
  <1>0. /\ queues.ready \in Seq(Blocks) /\ queues.free \in Seq(Blocks) /\ 0 \notin Blocks
        /\ play \in [generation : Nat, pending : Int] /\ staged \in [Blocks -> Records]
        /\ isr' = isr /\ (isr.block # 0 <=> isr.pc = "refill")
    BY AudioMoves DEF Typed, Queues, Blocks
  <1>1. CASE ResetReady
    <2> DEFINE block == Head(queues.ready)
    <2>1. /\ queues.ready # <<>> /\ queues'.ready = Tail(queues.ready)
          /\ UNCHANGED <<staged, dma>>
          /\ play'.pending = IF Real(staged[block]) THEN play.pending - 1 ELSE play.pending
      BY <1>0, <1>1, AudioMoves DEF ResetReady, Uncounted
    <2>2. /\ block \in Blocks /\ block \in Elements(queues.ready)
          /\ Elements(queues'.ready) = Elements(queues.ready) \ {block}
      BY <1>0, <2>1, TailOnce DEF Placed
    <2>3. Carried' = Carried \ {block} /\ (block \in Carried <=> Real(staged[block]))
      BY <1>0, <2>1, <2>2 DEF Carried, Placed
    <2>4. Cardinality(Carried')
          = IF Real(staged[block]) THEN Cardinality(Carried) - 1 ELSE Cardinality(Carried)
      BY <2>3, CountedSets, FS_RemoveElement
    <2>5. QED
      BY <1>0, <2>1, <2>4, CountedSets DEF Counted, Playing
  <1>2. CASE Admit
    <2> DEFINE block == Head(queues.free)
               pcm == IF audio.got = <<>> THEN Silence ELSE Head(audio.got)
    <2>1. /\ queues.free # <<>> /\ queues'.ready = Append(queues.ready, block) /\ dma' = dma
          /\ staged' = [staged EXCEPT ![block] = [pcm |-> pcm, generation |-> play.generation]]
          /\ play'.pending = IF pcm # Silence THEN play.pending + 1 ELSE play.pending
      BY <1>0, <1>2, AudioMoves DEF Admit
    <2>2. block \in Blocks /\ block \in Elements(queues.free)
      BY <1>0, <2>1, TailOnce DEF Placed
    <2>3. block \notin Elements(queues.ready) /\ block # isr.block
      BY <2>2 DEF Placed
    <2>4. Elements(queues'.ready) = Elements(queues.ready) \cup {block}
      BY <1>0, <2>1, <2>2, <2>3, AppendOnce DEF Placed
    <2>5. Real(staged'[block]) <=> pcm # Silence
      BY <1>0, <2>1, <2>2 DEF Real
    <2>6. \A b \in Blocks \ {block} : staged'[b] = staged[b]
      BY <1>0, <2>1
    <2> HIDE DEF pcm, block
    <2>7. block \notin Carried
      BY <2>3 DEF Carried
    <2>8. Carried' = IF pcm # Silence THEN Carried \cup {block} ELSE Carried
      BY <1>0, <2>2, <2>3, <2>4, <2>5, <2>6 DEF Carried
    <2>9. Cardinality(Carried') = IF pcm # Silence THEN Cardinality(Carried) + 1 ELSE Cardinality(Carried)
      BY <2>7, <2>8, CountedSets, FS_AddElement
    <2>10. QED
      BY <1>0, <2>1, <2>9, CountedSets DEF Counted, Playing
  <1>3. CASE Close
    <2>1. /\ isr.block = 0 /\ queues'.ready = <<>> /\ isr.pc = "idle"
          /\ dma' = [d \in Buffers |-> NoRecord] /\ play'.pending = 0
      BY <1>0, <1>3, AudioMoves DEF Close, Isr, ResetPlay
    <2>2. Carried' = {} /\ Playing' = {}
      BY <1>0, <2>1 DEF Carried, Playing, Elements, Real, NoRecord
    <2>3. QED
      BY <1>0, <2>1, <2>2, FS_EmptySet DEF Counted
  <1>4. QED
    BY <1>1, <1>2, <1>3

LEMMA CountedAlways == Spec => []Counted
  <1>1. ASSUME Init PROVE Counted
    <2>1. /\ isr.block = 0 /\ isr.pc = "idle" /\ queues.ready = <<>> /\ 0 \notin Blocks
          /\ dma = [d \in Buffers |-> NoRecord] /\ play.pending = 0
      BY <1>1 DEF Init, Blocks
    <2>2. Carried = {} /\ Playing = {}
      BY <2>1 DEF Carried, Playing, Elements, Real, NoRecord
    <2>3. QED
      BY <2>1, <2>2, FS_EmptySet DEF Counted
  <1>2. ASSUME Typed, Placed, Counted, [Next]_vars PROVE Counted'
    <2>1. CASE Still
      BY <1>2, <2>1 DEF Still, Counted, Carried, Playing
    <2>2. QED
      BY <1>2, <2>1, StillSteps, IsrCounts, AudioCounts
  <1>3. QED
    BY <1>1, <1>2, TypedAlways, PlacedAlways, PTL DEF Spec

\* The pending count, by which the facade decides to stop, is exact in every
\* state, so it is never negative.
THEOREM PendingIsExact == Spec => []PendingExact
  <1>1. ASSUME Typed, Placed, Counted PROVE PendingExact
    <2> DEFINE T == {b \in Blocks : Real(staged[b])}
               R == Elements(queues.ready) \cap T
    <2>1. queues.ready \in Seq(Blocks) /\ isr.block \in {0} \cup Blocks /\ 0 \notin Blocks
      BY <1>1 DEF Typed, Queues, Interrupts, Blocks
    <2>2. Cardinality({i \in DOMAIN queues.ready : queues.ready[i] \in T}) = Cardinality(R)
      BY <1>1, <2>1, OnceSelects DEF Placed
    <2>3. {i \in DOMAIN queues.ready : queues.ready[i] \in T}
          = {i \in DOMAIN queues.ready : Real(staged[queues.ready[i]])}
      BY <2>1
    <2>4. IsFiniteSet(R) /\ Cardinality(R) \in Nat
      <3>1. R \in SUBSET Blocks /\ IsFiniteSet(Blocks)
        BY Values, FS_Interval DEF Blocks
      <3>2. QED
        BY <3>1, FS_Subset, FS_CardinalityType
    <2>5. Cardinality(Carried)
          = Cardinality(R) + (IF isr.block # 0 /\ Real(staged[isr.block]) THEN 1 ELSE 0)
      <3>1. CASE isr.block \in T
        <4>1. Carried = R \cup {isr.block} /\ isr.block \notin R /\ isr.block # 0
          BY <1>1, <2>1, <3>1 DEF Carried, Placed
        <4>2. QED
          BY <2>4, <3>1, <4>1, FS_AddElement
      <3>2. CASE isr.block \notin T
        <4>1. Carried = R /\ ~(isr.block # 0 /\ Real(staged[isr.block]))
          BY <1>1, <2>1, <3>2 DEF Carried
        <4>2. QED
          BY <2>4, <4>1
      <3>3. QED
        BY <3>1, <3>2
    <2>6. QED
      BY <1>1, <2>2, <2>3, <2>5 DEF PendingExact, Count, Counted, Playing
  <1>2. QED
    BY <1>1, TypedAlways, PlacedAlways, CountedAlways, PTL

\* Every variable keeps its type: no queue holds more than it was created for,
\* and nothing is ever taken off a pending count of zero.
THEOREM Typing == Spec => []TypeOK
  <1>1. ASSUME Typed, Placed, Counted PROVE TypeOK
    <2>1. queues.free \in Seq(Blocks) /\ queues.ready \in Seq(Blocks)
      BY <1>1 DEF Typed, Queues
    <2>2. Len(queues.free) <= StagingBlocks /\ Len(queues.ready) <= StagingBlocks
      BY <1>1, <2>1, OnceCounts DEF Placed
    <2>3. play.pending \in Nat
      BY <1>1, CountedSets DEF Counted
    <2>4. QED
      BY <1>1, <2>1, <2>2, <2>3
      DEF Typed, TypeOK, Flags, Queues, Interrupts, Periods, Facades, Producers
  <1>2. QED
    BY <1>1, TypedAlways, PlacedAlways, CountedAlways, PTL

----------------------------------------------------------------------------
(* Main and the producer as the queues see them.                           *)

\* They touch no queue, no record and no account; tracking comes on only with a
\* new session.
LEMMA Outside ==
    ASSUME Typed, MainStep \/ Commit \/ FailedSeen \/ Calls \/ ProducerStep
    PROVE  /\ UNCHANGED <<queues, staged, dma, play, isr>>
           /\ flag'.desync = flag.desync
           /\ \/ audio' = audio /\ (flag'.tracking => flag.tracking)
              \/ audio.pc = "closed" /\ audio' = [audio EXCEPT !.pc = "session"]
  <1> DEFINE Quiet == flag'.desync = flag.desync /\ (flag'.tracking => flag.tracking)
  <1>0. flag \in Flags
    BY DEF Typed
  <1>1. UNCHANGED <<queues, staged, dma, play, isr>>
    BY DEF MainStep, Calls, StackStart, StackStop, StackStopNothing, StackPark, Commit,
           FailedSeen, FacadeUnchanged, MainUnchanged, Start, StartStream, StopStream, Finish,
           Pause, LoopFailed, LoopUnlistened, LoopStarting, LoopIsRunning, LoopRing,
           LoopPending, LoopStopping, StopSpeakerReset, ProducerStep, PlayRecovers,
           PlayStarts, PlayAdmitted, Admission, Write, WriteTimeout, ProducerUnchanged
  <1>2. CASE Commit
    BY <1>0, <1>1, <1>2 DEF Commit, At, Goto, Flags
  <1>3. CASE MainStep \/ FailedSeen \/ Calls \/ ProducerStep
    <2>1. audio' = audio
      BY <1>3 DEF MainStep, Calls, StackStart, StackStop, StackStopNothing, StackPark,
                  FailedSeen, FacadeUnchanged, MainUnchanged, Start, StartStream, StopStream,
                  Finish, Pause, LoopFailed, LoopUnlistened, LoopStarting, LoopIsRunning, LoopRing,
                  LoopPending, LoopStopping, StopSpeakerReset, ProducerStep, PlayRecovers,
                  PlayStarts, PlayAdmitted, Admission, Write, WriteTimeout, ProducerUnchanged
    <2> SUFFICES Quiet
      BY <1>1, <2>1
    <2>2. ASSUME NEW f \in Flags
          PROVE  /\ Started(f) \in Flags
                 /\ Started(f).desync = f.desync /\ Started(f).tracking = f.tracking
      <3>1. /\ [f EXCEPT !.requested = TRUE, !.current = FALSE] \in Flags
            /\ [f EXCEPT !.requested = TRUE, !.current = FALSE].desync = f.desync
            /\ [f EXCEPT !.requested = TRUE, !.current = FALSE].tracking = f.tracking
        BY DEF Flags
      <3>2. QED
        BY <3>1 DEF Started
    <2>3. CASE StackStart \/ PlayRecovers
      BY <1>0, <2>2, <2>3 DEF StackStart, PlayRecovers
    <2>4. CASE StackStop
      <3>1. flag' = [flag EXCEPT !.requested = FALSE, !.current = FALSE, !.wanted = FALSE,
                                 !.tracking = FALSE, !.running = FALSE]
        BY <2>4 DEF StackStop
      <3>2. QED
        BY <1>0, <3>1 DEF Flags
    <2>5. CASE StackStopNothing \/ LoopFailed \/ LoopRing \/ PlayAdmitted \/ Admission \/ Write
               \/ WriteTimeout
      BY <2>5 DEF StackStopNothing, LoopFailed, LoopRing, PlayAdmitted, Admission, Write,
                  WriteTimeout, ProducerUnchanged
    <2>6. CASE StackPark \/ FailedSeen \/ StopStream \/ Finish \/ Pause
      BY <1>0, <2>6 DEF StackPark, FailedSeen, StopStream, Finish, Pause, Flags
    <2>7. CASE StartStream \/ PlayStarts
      <3>1. PICK f \in Flags : /\ flag' = [f EXCEPT !.paused = FALSE] /\ f.desync = flag.desync
                               /\ f.tracking = flag.tracking
        BY <1>0, <2>2, <2>7 DEF StartStream, PlayStarts, Start
      <3>2. QED
        BY <3>1 DEF Flags
    <2>8. CASE LoopStarting
      <3>1. PICK f \in Flags :
               /\ \/ flag' = flag
                  \/ flag' = [f EXCEPT !.wanted = TRUE, !.running = @ \/ flag.stack]
               /\ f.desync = flag.desync /\ f.tracking = flag.tracking
        BY <1>0, <2>2, <2>8 DEF LoopStarting
      <3>2. QED
        BY <3>1 DEF Flags
    <2>9. CASE LoopUnlistened \/ LoopIsRunning \/ LoopPending \/ LoopStopping \/ StopSpeakerReset
      BY <1>0, <2>9 DEF LoopUnlistened, LoopIsRunning, LoopPending, LoopStopping, StopSpeakerReset,
                        Flags
    <2>10. QED
      BY <1>3, <2>3, <2>4, <2>5, <2>6, <2>7, <2>8, <2>9 DEF MainStep, Calls, ProducerStep
  <1>4. QED
    BY <1>2, <1>3

----------------------------------------------------------------------------
(* The event queue is not too small.                                       *)

\* The audio task has drained the queue and is about to admit one block.
Drained == audio.pc = "admit" /\ flag.tracking

\* The events that are posted or about to be; the blocks that are ready or in the
\* interrupt's hand; the DMA buffers with PCM; and how many blocks are admitted
\* before the next drain.
Posting == IF isr.pc = "event" THEN 1 ELSE 0
Earned == Len(queues.events) + Posting
Loaded == Len(queues.ready) + (IF isr.block # 0 THEN 1 ELSE 0)
Sounding == Cardinality(Playing)
Ahead == IF Drained THEN 1 ELSE 0

\* Whatever is loaded or sounds may still earn an event.  One block is admitted for
\* each drain, so all that can be earned is at most one more than the queue has
\* room for: the event that finds no place is the last.
Spacious == Earned + Loaded + Sounding + Ahead <= EventCapacity + 1

\* A step that moves no block leaves the events, or takes them all.
LEMMA StillEvents ==
    ASSUME Typed, [Next]_vars
    PROVE  \/ IsrStep \/ ResetReady \/ Admit \/ Close
           \/ Still /\ queues'.events = <<>>
           \/ Still /\ queues'.events = queues.events /\ (Drained' => Drained)
  <1> USE DEF At, Goto, Drained
  <1>0. queues \in Queues /\ flag \in Flags /\ audio \in Periods
    BY DEF Typed
  <1>1. CASE Period \/ Block
    <2>1. CASE queues' = queues
      <3>1. ~Drained' \/ queues'.events = <<>>
        <4>1. CASE Period
          BY <1>0, <4>1 DEF Period, Periods
        <4>2. CASE Block /\ flag' = TrackingFailed
          BY <1>0, <4>2 DEF TrackingFailed, Flags
        <4>3. CASE Block /\ queues' = [queues EXCEPT !.events = <<>>]
          BY <1>0, <4>3 DEF Queues
        <4>4. QED
          BY <1>1, <4>1, <4>2, <4>3 DEF Block, Drain
      <3>2. QED
        BY <2>1, <3>1, StillSteps
    <2>2. CASE queues' = [queues EXCEPT !.events = <<>>]
      BY <1>0, <2>2, StillSteps DEF Queues
    <2>3. QED
      BY <1>1, <2>1, <2>2 DEF Period, Block, Drain
  <1>2. CASE ResetDone
    <2>1. queues' = [queues EXCEPT !.events = <<>>]
      BY <1>2 DEF ResetDone
    <2>2. QED
      BY <1>0, <2>1, StillSteps DEF Queues
  <1>3. CASE \/ SessionEnds \/ ResetRing \/ Read \/ SessionFault \/ PeriodEnds \/ Rejected
             \/ FailureEnds \/ ResetGeneration
    <2>1. queues' = queues
      BY <1>3 DEF SessionEnds, ResetRing, Read, SessionFault, PeriodEnds, Rejected, FailureEnds,
                  ResetGeneration
    <2>2. audio'.pc # "admit" \/ UNCHANGED audio
      <3>1. CASE SessionEnds \/ ResetRing \/ PeriodEnds \/ ResetGeneration
        BY <1>0, <3>1 DEF SessionEnds, ResetRing, PeriodEnds, ResetGeneration, Periods
      <3>2. CASE Read \/ SessionFault \/ FailureEnds
        BY <3>2 DEF Read, SessionFault, FailureEnds
      <3>3. CASE Rejected
        <4>1. audio' = [audio EXCEPT !.pc = "session", !.got = <<>>, !.left = 0]
          BY <3>3 DEF Rejected
        <4>2. QED
          BY <1>0, <4>1 DEF Periods
      <3>4. QED
        BY <1>3, <3>1, <3>2, <3>3
    <2>3. flag'.tracking => flag.tracking
      BY <1>0, <1>3 DEF SessionEnds, ResetRing, Read, SessionFault, PeriodEnds, Rejected,
                        FailureEnds, ResetGeneration, TrackingFailed, Flags
    <2>4. QED
      BY <2>1, <2>2, <2>3, StillSteps
  <1>4. CASE MainStep \/ Commit \/ FailedSeen \/ Calls \/ ProducerStep
    <2>1. queues' = queues /\ (Drained' => Drained)
      BY <1>0, <1>4, Outside DEF Periods
    <2>2. QED
      BY <2>1, StillSteps
  <1>5. CASE UNCHANGED vars
    BY <1>5, StillSteps DEF vars
  <1>6. QED
    BY <1>1, <1>2, <1>3, <1>4, <1>5 DEF Next, AudioStep

\* No more blocks are loaded, and no more buffers sound, than there are.
LEMMA LoadedBounds ==
    Typed /\ Placed /\ Counted =>
      /\ Earned \in Nat /\ Loaded \in Nat /\ Sounding \in Nat
      /\ Posting \in {0, 1} /\ Ahead \in {0, 1} /\ Posting <= Earned
      /\ (queues.events = <<>> => Earned = Posting)
      /\ Loaded <= StagingBlocks /\ Sounding + Posting <= Descriptors
  <1> SUFFICES ASSUME Typed, Placed, Counted
               PROVE  /\ Earned \in Nat /\ Loaded \in Nat /\ Sounding \in Nat
                      /\ Posting \in {0, 1} /\ Ahead \in {0, 1} /\ Posting <= Earned
                      /\ (queues.events = <<>> => Earned = Posting)
                      /\ Loaded <= StagingBlocks /\ Sounding + Posting <= Descriptors
    OBVIOUS
  <1>0. /\ queues \in Queues /\ queues.ready \in Seq(Blocks) /\ isr.block \in {0} \cup Blocks
        /\ isr.next \in Buffers
    BY DEF Typed, Queues, Interrupts, Blocks
  <1>1. Len(queues.ready) \in Nat /\ Sounding \in Nat /\ Len(queues.events) \in Nat
    BY <1>0, CountedSets DEF Queues, Sounding
  <1>2. Posting \in {0, 1} /\ Ahead \in {0, 1} /\ Loaded \in Nat
    <2>1. Posting \in {0, 1}
      BY DEF Posting
    <2>2. Ahead \in {0, 1}
      BY DEF Ahead
    <2>3. Loaded \in Nat
      <3>1. CASE isr.block = 0
        BY <1>1, <3>1 DEF Loaded
      <3>2. CASE isr.block # 0
        BY <1>1, <3>2 DEF Loaded
      <3>3. QED
        BY <3>1, <3>2
    <2>4. QED
      BY <2>1, <2>2, <2>3
  <1>3. Earned \in Nat /\ Posting <= Earned /\ (queues.events = <<>> => Earned = Posting)
    BY <1>1, <1>2 DEF Earned
  <1>4. Loaded <= StagingBlocks
    <2>1. CASE isr.block = 0
      <3>1. Len(queues.ready) <= StagingBlocks
        BY <1>0, OnceCounts DEF Placed
      <3>2. QED
        BY <1>1, <2>1, <3>1 DEF Loaded
    <2>2. CASE isr.block # 0
      <3> DEFINE all == Append(queues.ready, isr.block)
      <3>1. all \in Seq(Blocks) /\ Once(all)
        BY <1>0, <2>2, AppendOnce DEF Placed
      <3>2. Len(all) <= StagingBlocks
        BY <3>1, OnceCounts
      <3>3. Len(all) = Len(queues.ready) + 1
        BY <1>0
      <3>4. QED
        BY <2>2, <3>2, <3>3 DEF Loaded
    <2>3. QED
      BY <2>1, <2>2
  <1>5. Sounding + Posting <= Descriptors
    <2>1. IsFiniteSet(Buffers) /\ Cardinality(Buffers) = Descriptors /\ Descriptors \in Nat
      BY Values, FS_Interval DEF Buffers
    <2>2. CASE isr.pc = "idle"
      <3>1. Playing \in SUBSET Buffers
        BY DEF Playing
      <3>2. Sounding <= Descriptors
        BY <2>1, <3>1, FS_Subset DEF Sounding
      <3>3. QED
        BY <1>1, <2>1, <2>2, <3>2 DEF Posting
    <2>3. CASE isr.pc # "idle"
      <3> DEFINE more == Playing \cup {isr.next}
      <3>1. isr.next \notin Playing /\ more \in SUBSET Buffers
        BY <1>0, <2>3 DEF Playing, Counted
      <3>2. Cardinality(more) = Sounding + 1
        BY <3>1, CountedSets, FS_AddElement DEF Sounding
      <3>3. Cardinality(more) <= Descriptors
        BY <2>1, <3>1, FS_Subset
      <3>4. QED
        BY <1>1, <1>2, <2>1, <3>2, <3>3
    <2>4. QED
      BY <2>2, <2>3
  <1>6. QED
    BY <1>1, <1>2, <1>3, <1>4, <1>5

\* What the interrupt sends and fills changes the number of playing buffers by one.
LEMMA IsrPlaying ==
    ASSUME Typed, Counted, IsrStep
    PROVE  /\ IsrSent => \/ Cardinality(Playing') = Cardinality(Playing) /\ isr'.pc # "event"
                         \/ Cardinality(Playing') = Cardinality(Playing) - 1
           /\ IsrEvent \/ IsrTake => Cardinality(Playing') = Cardinality(Playing)
           /\ IsrRefill => Cardinality(Playing') <= Cardinality(Playing) + 1
  <1> USE DEF Isr
  <1>0. /\ isr \in Interrupts /\ isr.next \in Buffers /\ dma \in [Buffers -> Records]
        /\ Cardinality(Playing) \in Nat
    BY CountedSets DEF Typed, Interrupts
  <1>1. ASSUME IsrSent
        PROVE  \/ Cardinality(Playing') = Cardinality(Playing) /\ isr'.pc # "event"
               \/ Cardinality(Playing') = Cardinality(Playing) - 1
    <2>1. CASE ~flag.tracking
      BY <1>0, <1>1, <2>1 DEF IsrSent, Playing, BufferDone, Interrupts
    <2>2. CASE flag.tracking
      <3>1. /\ dma' = [dma EXCEPT ![isr.next] = NoRecord]
            /\ isr'.pc = "event" => Real(dma[isr.next])
        BY <1>0, <1>1, <2>2 DEF IsrSent, Interrupts
      <3>2. Playing' = Playing \ {isr.next}
        BY <1>0, <3>1 DEF Playing, Real, NoRecord
      <3>3. isr.next \in Playing <=> Real(dma[isr.next])
        BY <1>0 DEF Playing
      <3>4. QED
        BY <3>1, <3>2, <3>3, CountedSets, FS_RemoveElement
    <2>3. QED
      BY <2>1, <2>2
  <1>2. ASSUME IsrEvent \/ IsrTake PROVE Cardinality(Playing') = Cardinality(Playing)
    BY <1>2 DEF IsrEvent, IsrTake, Playing
  <1>3. ASSUME IsrRefill PROVE Cardinality(Playing') <= Cardinality(Playing) + 1
    <2>1. dma' = dma \/ dma' = [dma EXCEPT ![isr.next] = staged[isr.block]]
      BY <1>3 DEF IsrRefill, FilledDma
    <2>2. CASE dma' = dma
      BY <1>0, <2>2 DEF Playing
    <2>3. CASE dma' = [dma EXCEPT ![isr.next] = staged[isr.block]]
      <3>1. isr.next \notin Playing
        BY <1>3 DEF Playing, Counted, IsrRefill
      <3>2. Playing' = IF Real(staged[isr.block]) THEN Playing \cup {isr.next} ELSE Playing
        BY <1>0, <2>3, <3>1 DEF Playing
      <3>3. CASE Real(staged[isr.block])
        <4>1. Cardinality(Playing') = Cardinality(Playing) + 1
          BY <3>1, <3>2, <3>3, CountedSets, FS_AddElement
        <4>2. QED
          BY <1>0, <4>1
      <3>4. QED
        BY <1>0, <3>2, <3>3
    <2>4. QED
      BY <2>1, <2>2, <2>3
  <1>4. QED
    BY <1>1, <1>2, <1>3

\* A buffer falls silent and at most one event falls due.
LEMMA SilentAndDue ==
    ASSUME NEW e \in Nat, NEW p \in Nat, NEW q \in {0, 1}
    PROVE  e + q + (p - 1) <= e + p
  OBVIOUS

\* Fewer events fit where more did.
LEMMA FewerFit ==
    ASSUME NEW e \in Nat, NEW f \in Nat, NEW l \in Nat, NEW p \in Nat, NEW a \in {0, 1},
           NEW c \in Nat, f <= e, e + l + p + a <= c
    PROVE  f + l + p + a <= c
  OBVIOUS

LEMMA SpaciousStep ==
    ASSUME Typed, Placed, Counted, Typed', Placed', Counted', Spacious, [Next]_vars
    PROVE  Spacious'
  <1>0. /\ queues \in Queues /\ isr \in Interrupts /\ (isr.block # 0 <=> isr.pc = "refill")
        /\ StagingBlocks \in Nat /\ Descriptors \in Nat
        /\ EventCapacity = StagingBlocks + Descriptors
        /\ audio \in Periods /\ flag \in Flags /\ queues.ready \in Seq(Blocks)
    BY Values DEF Typed, Queues, EventCapacity
  <1>10. EventCapacity \in Nat
    BY Values
  <1>1. /\ Earned \in Nat /\ Loaded \in Nat /\ Sounding \in Nat
        /\ Posting \in {0, 1} /\ Ahead \in {0, 1} /\ Posting <= Earned
        /\ (queues.events = <<>> => Earned = Posting)
        /\ Loaded <= StagingBlocks /\ Sounding + Posting <= Descriptors
    BY LoadedBounds
  <1>2. /\ Earned' \in Nat /\ Loaded' \in Nat /\ Sounding' \in Nat
        /\ Posting' \in {0, 1} /\ Ahead' \in {0, 1} /\ Posting' <= Earned'
        /\ (queues'.events = <<>> => Earned' = Posting')
        /\ Loaded' <= StagingBlocks /\ Sounding' + Posting' <= Descriptors
    <2>1. (Typed /\ Placed /\ Counted)' =>
            (/\ Earned \in Nat /\ Loaded \in Nat /\ Sounding \in Nat
             /\ Posting \in {0, 1} /\ Ahead \in {0, 1} /\ Posting <= Earned
             /\ (queues.events = <<>> => Earned = Posting)
             /\ Loaded <= StagingBlocks /\ Sounding + Posting <= Descriptors)'
      BY LoadedBounds, PTL
    <2>2. QED
      BY <2>1
  <1>3. CASE queues'.events = <<>>
    BY <1>0, <1>2, <1>3 DEF Spacious
  <1>4. CASE Still /\ queues'.events = queues.events /\ (Drained' => Drained)
    <2>1. Earned' = Earned /\ Loaded' = Loaded /\ Sounding' = Sounding /\ Ahead' <= Ahead
      BY <1>4 DEF Still, Playing, Earned, Loaded, Sounding, Posting, Ahead
    <2>2. QED
      BY <1>0, <1>1, <1>2, <2>1 DEF Spacious
  <1>5. CASE IsrStep
    <2>1. Ahead' = Ahead
      <3>1. audio' = audio /\ flag'.tracking = flag.tracking
        BY <1>0, <1>5 DEF IsrStep, IsrSent, IsrEvent, IsrTake, IsrRefill, IsrUnchanged, Flags
      <3>2. QED
        BY <3>1 DEF Ahead, Drained
    <2>2. CASE IsrSent
      <3>1. isr.block = 0 /\ isr'.block = 0 /\ queues' = queues /\ Posting = 0
        BY <1>0, <2>2 DEF IsrSent, Isr, Interrupts, BufferDone, Posting
      <3>2. Loaded' = Loaded /\ Earned' = Earned + Posting'
        BY <1>0, <1>2, <3>1 DEF Loaded, Earned, Queues
      <3>3. isr'.pc # "event" => Posting' = 0
        BY DEF Posting
      <3>4. \/ Sounding' = Sounding /\ isr'.pc # "event"
            \/ Sounding' = Sounding - 1
        BY <1>5, <2>2, IsrPlaying DEF Sounding
      <3>5. Earned' + Sounding' <= Earned + Sounding
        <4>1. CASE Sounding' = Sounding /\ Posting' = 0
          BY <1>1, <3>2, <4>1
        <4>2. CASE Sounding' = Sounding - 1
          <5>1. PICK e \in Nat, p \in Nat, q \in {0, 1} : e = Earned /\ p = Sounding /\ q = Posting'
            BY <1>1, <1>2
          <5>2. e + q + (p - 1) <= e + p
            BY SilentAndDue
          <5>3. Earned' = e + q /\ Sounding' = p - 1
            BY <3>2, <4>2, <5>1
          <5>4. QED
            BY <5>1, <5>2, <5>3
        <4>3. QED
          BY <3>3, <3>4, <4>1, <4>2
      <3>6. QED
        <4>1. Earned + Loaded + Sounding + Ahead <= EventCapacity + 1
          BY DEF Spacious
        <4>2. Loaded' = Loaded
          BY <3>2
        <4>3. Earned' + Loaded' + Sounding' + Ahead' <= EventCapacity + 1
          <5>1. PICK e \in Nat, p \in Nat : e = Earned' /\ p = Sounding'
            BY <1>2
          <5>2. e + p <= Earned + Sounding
            BY <3>5, <5>1
          <5>3. e + Loaded + p + Ahead <= EventCapacity + 1
            BY <1>1, <1>10, <4>1, <5>2
          <5>4. QED
            BY <2>1, <4>2, <5>1, <5>3
        <4>4. QED
          BY <4>3 DEF Spacious
    <2>3. CASE IsrEvent
      <3>1. Posting = 1 /\ Posting' = 0
        BY <1>0, <2>3 DEF IsrEvent, Isr, Interrupts, Posting
      <3>2. Len(queues'.events) = Len(queues.events) \/ Len(queues'.events) = Len(queues.events) + 1
        <4>1. queues.events \in Seq(Records) /\ isr.record \in Records
          BY <1>0 DEF Queues, Interrupts
        <4>2. Len(Append(queues.events, isr.record)) = Len(queues.events) + 1
          BY <4>1
        <4>3. queues'.events = queues.events \/ queues'.events = Append(queues.events, isr.record)
          BY <1>0, <2>3 DEF IsrEvent, Queues
        <4>4. QED
          BY <4>2, <4>3
      <3>3. Earned' <= Earned
        <4>1. Len(queues.events) \in Nat
          BY <1>0 DEF Queues
        <4>2. QED
          BY <3>1, <3>2, <4>1 DEF Earned
      <3>4. Loaded' = Loaded
        BY <1>0, <2>3 DEF IsrEvent, Loaded, Queues, Interrupts
      <3>5. Sounding' = Sounding
        BY <1>5, <2>3, IsrPlaying DEF Sounding
      <3>6. QED
        <4>1. Earned + Loaded + Sounding + Ahead <= EventCapacity + 1
          BY DEF Spacious
        <4>2. Earned' + Loaded + Sounding + Ahead <= EventCapacity + 1
          <5>1. EventCapacity + 1 \in Nat
            BY <1>10
          <5>2. QED
            BY <1>1, <1>2, <3>3, <4>1, <5>1, FewerFit
        <4>3. QED
          BY <2>1, <3>4, <3>5, <4>2 DEF Spacious
    <2>4. CASE IsrTake
      <3>1. Posting = 0 /\ Posting' = 0 /\ queues'.events = queues.events
        BY <1>0, <2>4 DEF IsrTake, Isr, Interrupts, BufferDone, Posting, Queues
      <3>2. Loaded' = Loaded
        <4>1. CASE isr.block = 0 /\ isr'.block = 0 /\ queues'.ready = queues.ready
          BY <4>1 DEF Loaded
        <4>2. CASE /\ isr.block = 0 /\ queues.ready # <<>> /\ isr'.block = Head(queues.ready)
                   /\ queues'.ready = Tail(queues.ready)
          <5>1. Head(queues.ready) \in Blocks /\ Len(Tail(queues.ready)) = Len(queues.ready) - 1
                /\ Len(queues.ready) \in Nat
            BY <1>0, <4>2
          <5>2. Head(queues.ready) # 0
            BY <5>1 DEF Blocks
          <5>3. QED
            BY <4>2, <5>1, <5>2 DEF Loaded
        <4>3. isr.block \notin Blocks
          BY <1>0, <2>4 DEF IsrTake, Isr, Blocks
        <4>4. QED
          BY <1>5, <4>1, <4>2, <4>3, IsrMoves
      <3>3. Sounding' = Sounding
        BY <1>5, <2>4, IsrPlaying DEF Sounding
      <3>4. QED
        BY <1>0, <1>1, <1>2, <2>1, <3>1, <3>2, <3>3 DEF Spacious, Earned
    <2>5. CASE IsrRefill
      <3>1. Posting = 0 /\ Posting' = 0 /\ queues'.events = queues.events
        BY <1>0, <2>5 DEF IsrRefill, Isr, Interrupts, BufferDone, Posting, Queues
      <3>2. Loaded' = Loaded - 1
        <4>1. isr.block # 0 /\ isr'.block = 0 /\ queues'.ready = queues.ready
          BY <1>0, <1>5, <2>5, IsrMoves DEF IsrRefill, Isr
        <4>2. QED
          BY <1>0, <4>1 DEF Loaded
      <3>3. Sounding' <= Sounding + 1
        BY <1>5, <2>5, IsrPlaying DEF Sounding
      <3>4. QED
        BY <1>0, <1>1, <1>2, <2>1, <3>1, <3>2, <3>3 DEF Spacious, Earned
    <2>6. QED
      BY <1>5, <2>2, <2>3, <2>4, <2>5 DEF IsrStep
  <1>6. CASE ResetReady
    <2>1. Loaded' = Loaded - 1
      <3>1. queues.ready # <<>> /\ queues'.ready = Tail(queues.ready) /\ isr' = isr
        BY <1>6, AudioMoves
      <3>2. Len(Tail(queues.ready)) = Len(queues.ready) - 1 /\ Len(queues.ready) \in Nat
        BY <1>0, <3>1
      <3>3. QED
        <4>1. CASE isr.block = 0
          BY <3>1, <3>2, <4>1 DEF Loaded
        <4>2. CASE isr.block # 0
          BY <3>1, <3>2, <4>2 DEF Loaded
        <4>3. QED
          BY <4>1, <4>2
    <2>2. Earned' = Earned /\ Sounding' = Sounding /\ Ahead' = Ahead
      BY <1>0, <1>6 DEF ResetReady, AudioUnchanged, Queues, Playing, Earned, Posting, Sounding,
                        Drained, Ahead
    <2>3. QED
      BY <1>0, <1>1, <1>2, <2>1, <2>2 DEF Spacious
  <1>7. CASE Admit
    <2>1. Loaded' = Loaded + 1
      <3>1. queues.free # <<>> /\ queues'.ready = Append(queues.ready, Head(queues.free)) /\ isr' = isr
        BY <1>7, AudioMoves
      <3>2. queues.free \in Seq(Blocks)
        BY <1>0 DEF Queues
      <3>3. Len(queues'.ready) = Len(queues.ready) + 1 /\ Len(queues.ready) \in Nat
        BY <1>0, <3>1, <3>2
      <3>4. QED
        <4>1. CASE isr.block = 0
          BY <3>1, <3>3, <4>1 DEF Loaded
        <4>2. CASE isr.block # 0
          BY <3>1, <3>3, <4>2 DEF Loaded
        <4>3. QED
          BY <4>1, <4>2
    <2>2. Earned' = Earned /\ Sounding' = Sounding
      BY <1>0, <1>7 DEF Admit, AudioUnchanged, Queues, Playing, Earned, Posting, Sounding
    <2>3. Ahead = 1 /\ Ahead' = 0
      BY <1>0, <1>7 DEF Admit, Drained, Ahead, At, Periods
    <2>4. QED
      BY <1>0, <1>1, <1>2, <2>1, <2>2, <2>3 DEF Spacious
  <1>8. CASE Close
    BY <1>3, <1>8 DEF Close, ResetQueues
  <1>9. QED
    BY <1>3, <1>4, <1>5, <1>6, <1>7, <1>8, StillEvents

LEMMA SpaciousAlways == Spec => []Spacious
  <1>1. ASSUME Init PROVE Spacious
    <2>1. /\ Playing = {} /\ queues.events = <<>> /\ queues.ready = <<>> /\ isr.block = 0
          /\ isr.pc = "idle" /\ audio.pc = "session"
      BY <1>1 DEF Init, Playing, Real, NoRecord
    <2>2. Cardinality(Playing) = 0
      BY <2>1, FS_EmptySet
    <2>3. QED
      BY <2>1, <2>2, Values DEF Spacious, Earned, Loaded, Sounding, Ahead, Posting, Drained
  <1>2. QED
    BY <1>1, SpaciousStep, TypedAlways, PlacedAlways, CountedAlways, PTL DEF Spec

\* The event queue overflows only when no block is ready and no DMA buffer holds
\* PCM, for every number of blocks and buffers.
THEOREM OverflowIsDry == Spec => OverflowOnlyDry
  <1>1. ASSUME Typed, Placed, Counted, Spacious, Isr("event"), isr'.pc = "take", flag'.desync,
               ~flag.desync, [Next]_vars
        PROVE  queues.ready = <<>> /\ \A d \in Buffers : ~Real(dma[d])
    <2>1. Len(queues.events) = EventCapacity
      <3>1. IsrEvent
        <4>1. isr' # isr
          BY <1>1 DEF Isr
        <4>2. ~(MainStep \/ Commit \/ FailedSeen \/ Calls \/ ProducerStep) /\ ~UNCHANGED vars
          BY <1>1, <4>1, Outside DEF vars
        <4>3. ~AudioStep
          BY <4>1 DEF AudioStep, SessionEnds, Period, ResetRing, ResetReady, ResetGeneration,
                      ResetDone, Read, SessionFault, PeriodEnds, Block, Admit, Rejected, Close,
                      FailureEnds, AudioUnchanged
        <4>4. QED
          BY <1>1, <4>2, <4>3 DEF Next, IsrStep, IsrSent, IsrTake, IsrRefill, Isr
      <3>2. QED
        BY <1>1, <3>1 DEF IsrEvent
    <2>2. /\ Loaded \in Nat /\ Sounding \in Nat /\ EventCapacity \in Nat
          /\ queues.ready \in Seq(Blocks) /\ Len(queues.ready) \in Nat
          /\ Earned = EventCapacity + 1 /\ Ahead \in {0, 1}
      BY <1>1, <2>1, LoadedBounds, Values DEF Typed, Queues, Earned, Posting, Isr
    <2>3. Loaded = 0 /\ Sounding = 0
      BY <1>1, <2>2 DEF Spacious
    <2>4. Len(queues.ready) = 0
      <3>1. CASE isr.block = 0
        BY <2>3, <3>1, <2>2 DEF Loaded
      <3>2. CASE isr.block # 0
        BY <2>2, <2>3, <3>2 DEF Loaded
      <3>3. QED
        BY <3>1, <3>2
    <2>5. queues.ready = <<>> /\ Playing = {}
      BY <2>2, <2>3, <2>4, CountedSets, FS_EmptySet DEF Sounding
    <2>6. QED
      BY <2>5 DEF Playing
  <1>2. ASSUME Typed, Placed, Counted, Spacious, [Next]_vars
        PROVE  [Isr("event") /\ isr'.pc = "take" /\ flag'.desync /\ ~flag.desync =>
                 queues.ready = <<>> /\ \A d \in Buffers : ~Real(dma[d])]_vars
    BY <1>1, <1>2
  <1>3. QED
    BY <1>2, TypedAlways, PlacedAlways, CountedAlways, SpaciousAlways, PTL DEF Spec, OverflowOnlyDry

----------------------------------------------------------------------------
(* The credits follow the DMA.                                             *)

\* The events of the current playback are those behind index old.
Suffix(events, old, generation) ==
    \A i \in 1 .. Len(events) : i > old <=> events[i].generation = generation
Rest(events, old) == [i \in 1 .. Len(events) - old |-> events[old + i].pcm]
InHand ==
    IF isr.pc = "event" /\ isr.record.generation = play.generation THEN <<isr.record.pcm>> ELSE <<>>
Owed ==
    \E old \in 0 .. Len(queues.events) :
       /\ Suffix(queues.events, old, play.generation)
       /\ ~flag.desync => history.sent = (history.credited \o Rest(queues.events, old)) \o InHand

\* Between a new generation and the end of the reset nothing is of that generation yet.
Limit == IF audio.pc = "reset_done" THEN play.generation - 1 ELSE play.generation

\* No record is of a playback to come.
Dated ==
    /\ Limit \in Nat
    /\ \A b \in Blocks : staged[b].generation <= Limit
    /\ \A d \in Buffers : dma[d].generation <= Limit
    /\ isr.record.generation <= Limit
    /\ \A i \in 1 .. Len(queues.events) : queues.events[i].generation <= Limit

\* An event of an older playback that is about to be posted comes before all of
\* the current one.
OldFirst ==
    isr.pc = "event" /\ isr.record.generation # play.generation =>
        \A i \in 1 .. Len(queues.events) : queues.events[i].generation # play.generation

Listed == history \in [sent : Seq(Nat), credited : Seq(Nat), starts : Nat, closes : Nat]

Account == Listed /\ Dated /\ OldFirst /\ Owed

LEMMA RestTypes ==
    ASSUME NEW events \in Seq(Records), NEW old \in 0 .. Len(events)
    PROVE  /\ Rest(events, old) \in Seq(Nat) /\ Len(Rest(events, old)) = Len(events) - old
           /\ \A i \in 1 .. Len(events) - old : Rest(events, old)[i] = events[old + i].pcm
  <1>1. Len(events) \in Nat /\ \A i \in 1 .. Len(events) : events[i] \in Records
    BY LenProperties
  <1>2. ASSUME NEW record \in Records PROVE record.pcm \in Nat
    BY Values DEF Records, Chunks, Silence
  <1>3. ASSUME NEW i \in 1 .. Len(events) - old PROVE events[old + i].pcm \in Nat
    <2>1. old + i \in 1 .. Len(events)
      BY <1>1
    <2>2. QED
      BY <1>1, <1>2, <2>1
  <1>4. Len(events) - old \in Nat
    BY <1>1
  <1>5. QED
    BY <1>3, <1>4 DEF Rest

\* What is told of a queue whose current events are a suffix is that suffix.
LEMMA CreditsAreRest ==
    ASSUME NEW events \in Seq(Records), NEW old \in 0 .. Len(events),
           Suffix(events, old, play.generation)
    PROVE  Credits(events) = Rest(events, old)
  <1> DEFINE current == {i \in DOMAIN events : events[i].generation = play.generation}
             count == Len(events) - old
  <1>1. Len(events) \in Nat /\ DOMAIN events = 1 .. Len(events) /\ count \in Nat
    BY LenProperties
  <1>2. current = old + 1 .. Len(events)
    BY <1>1 DEF Suffix
  <1>3. Cardinality(current) = count
    <2>1. old + 1 \in Int /\ Len(events) \in Int
      BY <1>1
    <2>2. Cardinality(old + 1 .. Len(events))
          = IF old + 1 > Len(events) THEN 0 ELSE Len(events) - (old + 1) + 1
      BY <2>1, FS_Interval
    <2>3. Cardinality(old + 1 .. Len(events)) = count
      BY <1>1, <2>2
    <2> HIDE DEF current, count
    <2>4. QED
      BY <1>2, <2>3
  <1>4. ASSUME NEW i \in current PROVE Cardinality({j \in current : j <= i}) = i - old
    <2>1. {j \in current : j <= i} = old + 1 .. i /\ i \in Int /\ old + 1 \in Int /\ i > old
      BY <1>1, <1>2, <1>4
    <2>2. Cardinality(old + 1 .. i) = IF old + 1 > i THEN 0 ELSE i - (old + 1) + 1
      BY <2>1, FS_Interval
    <2>3. Cardinality(old + 1 .. i) = i - old
      BY <2>1, <2>2
    <2> HIDE DEF current
    <2>4. QED
      BY <2>1, <2>3
  <1>5. ASSUME NEW n \in 1 .. count
        PROVE  (CHOOSE i \in current : Cardinality({j \in current : j <= i}) = n) = old + n
    <2>1. old + n \in current
      BY <1>1, <1>2
    <2>2. ASSUME NEW i \in current
          PROVE  Cardinality({j \in current : j <= i}) = n <=> i = old + n
      BY <1>1, <1>2, <1>4
    <2> HIDE DEF current
    <2>3. QED
      BY <2>1, <2>2
  <1>6. Credits(events) = [n \in 1 .. Cardinality(current) |->
                             events[CHOOSE i \in current : Cardinality({j \in current : j <= i}) = n].pcm]
    BY DEF Credits
  <1> HIDE DEF current
  <1>7. QED
    BY <1>3, <1>5, <1>6 DEF Rest

LEMMA ConcatThree ==
    ASSUME NEW s \in Seq(Nat), NEW t \in Seq(Nat), NEW u \in Seq(Nat)
    PROVE  (s \o t) \o u = s \o (t \o u)
  BY ConcatAssociative

LEMMA RestNone ==
    ASSUME NEW none \in Seq(Records), Len(none) = 0
    PROVE  none = <<>> /\ Rest(none, 0) = <<>>
  <1>1. 0 \in 0 .. Len(none)
    OBVIOUS
  <1>2. Rest(none, 0) \in Seq(Nat) /\ Len(Rest(none, 0)) = Len(none) - 0
    BY <1>1, RestTypes
  <1>3. Len(Rest(none, 0)) = 0
    BY <1>2
  <1>4. QED
    BY <1>2, <1>3

LEMMA InHandType == ASSUME Typed PROVE InHand \in Seq(Nat)
  <1>1. isr.record \in Records
    BY DEF Typed, Interrupts
  <1>2. isr.record.pcm \in Nat
    BY <1>1, Values DEF Records, Chunks, Silence
  <1>3. QED
    BY <1>2 DEF InHand

\* The steps that leave the events, the generations and the two lists alone.
Unheard ==
    /\ UNCHANGED <<queues.events, play.generation, isr, staged, dma, history.sent, history.credited>>
    /\ flag.desync => flag'.desync
    /\ Limit' = Limit
    /\ Listed => Listed'
Heard ==
    /\ UNCHANGED <<play.generation, isr, staged, dma, history.sent, flag.desync>>
    /\ queues'.events = <<>>
    /\ history' = [history EXCEPT !.credited = @ \o Credits(queues.events)]
    /\ Limit' = Limit

LEMMA CreditSteps ==
    ASSUME Typed, Listed, [Next]_vars
    PROVE  \/ IsrStep \/ Admit \/ ResetGeneration \/ ResetDone \/ Close
           \/ Unheard \/ Heard
  <1> USE DEF At, Goto
  <1>0. queues \in Queues /\ flag \in Flags /\ audio \in Periods
        /\ play \in [generation : Nat, pending : Int]
        /\ history \in [sent : Seq(Nat), credited : Seq(Nat), starts : Nat, closes : Nat]
    BY DEF Typed, Listed
  <1>1. CASE Period \/ Block
    <2>1. UNCHANGED <<play, isr, staged, dma>> /\ Limit' = Limit
      BY <1>0, <1>1 DEF Period, Block, AudioUnchanged, Limit, Periods
    <2>2. CASE UNCHANGED <<queues, history>> /\ flag' \in {flag, TrackingFailed}
      BY <1>0, <2>1, <2>2 DEF Unheard, TrackingFailed, Flags, Listed
    <2>3. CASE /\ queues' = [queues EXCEPT !.events = <<>>] /\ flag' = flag
               /\ history' = [history EXCEPT !.credited = @ \o Credits(queues.events)]
      <3>1. queues'.events = <<>>
        BY <1>0, <2>3 DEF Queues
      <3>2. UNCHANGED history.sent
        BY <1>0, <2>3
      <3>3. QED
        BY <2>1, <2>3, <3>1, <3>2 DEF Heard
    <2>4. QED
      BY <1>1, <2>2, <2>3 DEF Period, Block, Drain
  <1>2. CASE \/ SessionEnds \/ ResetRing \/ Read \/ SessionFault \/ PeriodEnds \/ Rejected
             \/ FailureEnds \/ ResetReady
    <2>1. UNCHANGED <<isr, staged, dma, history>>
      BY <1>2 DEF SessionEnds, ResetRing, Read, SessionFault, PeriodEnds, Rejected, FailureEnds,
                  ResetReady, AudioUnchanged
    <2>2. UNCHANGED <<queues.events, play.generation>>
      BY <1>0, <1>2 DEF SessionEnds, ResetRing, Read, SessionFault, PeriodEnds, Rejected, FailureEnds,
                        ResetReady, Queues
    <2>3. flag.desync => flag'.desync
      BY <1>0, <1>2 DEF SessionEnds, ResetRing, Read, SessionFault, PeriodEnds, Rejected,
                        FailureEnds, ResetReady, TrackingFailed, Flags
    <2>4. (audio.pc # "reset_done" /\ audio'.pc # "reset_done") \/ audio' = audio
      <3>1. CASE SessionEnds \/ ResetRing \/ PeriodEnds
        BY <1>0, <3>1 DEF SessionEnds, ResetRing, PeriodEnds, Periods
      <3>2. CASE Read
        BY <3>2 DEF Read
      <3>3. CASE SessionFault \/ FailureEnds \/ ResetReady
        BY <3>3 DEF SessionFault, FailureEnds, ResetReady
      <3>4. CASE Rejected
        <4>1. audio' = [audio EXCEPT !.pc = "session", !.got = <<>>, !.left = 0]
          BY <3>4 DEF Rejected
        <4>2. QED
          BY <1>0, <3>4, <4>1 DEF Periods, Rejected
      <3>5. QED
        BY <1>2, <3>1, <3>2, <3>3, <3>4
    <2>5. QED
      BY <2>1, <2>2, <2>3, <2>4 DEF Unheard, Limit, Listed
  <1>3. CASE MainStep \/ Commit \/ FailedSeen \/ Calls \/ ProducerStep
    <2>1. \/ history' = history
          \/ history' = [history EXCEPT !.starts = @ + 1]
      BY <1>3 DEF MainStep, Calls, StackStart, StackStop, StackStopNothing, StackPark, Commit,
                  FailedSeen, FacadeUnchanged, MainUnchanged, Start, StartStream, StopStream, Finish,
                  Pause, LoopFailed, LoopUnlistened, LoopStarting, LoopIsRunning, LoopRing,
                  LoopPending, LoopStopping, StopSpeakerReset, ProducerStep, PlayRecovers,
                  PlayStarts, PlayAdmitted, Admission, Write, WriteTimeout, ProducerUnchanged
    <2>2. UNCHANGED <<history.sent, history.credited>> /\ Listed'
      BY <1>0, <2>1 DEF Listed
    <2>3. QED
      BY <1>0, <1>3, <2>2, Outside DEF Unheard, Limit, Periods
  <1>4. CASE UNCHANGED vars
    BY <1>4 DEF vars, Unheard, Limit, Listed
  <1>5. QED
    BY <1>1, <1>2, <1>3, <1>4 DEF Next, AudioStep

\* An event of this playback extends what follows, one of an older playback finds
\* nothing that follows.
LEMMA RestAppend ==
    ASSUME NEW events \in Seq(Records), NEW old \in 0 .. Len(events), NEW record \in Records,
           NEW generation \in Nat, Suffix(events, old, generation)
    PROVE  /\ Append(events, record) \in Seq(Records)
           /\ Len(Append(events, record)) = Len(events) + 1
           /\ record.generation = generation =>
                /\ Suffix(Append(events, record), old, generation)
                /\ Rest(Append(events, record), old) = Append(Rest(events, old), record.pcm)
           /\ (record.generation # generation /\ old = Len(events)) =>
                /\ Suffix(Append(events, record), Len(events) + 1, generation)
                /\ Rest(Append(events, record), Len(events) + 1) = <<>>
                /\ Rest(events, old) = <<>>
  <1> DEFINE more == Append(events, record)
  <1>1. /\ more \in Seq(Records) /\ Len(more) = Len(events) + 1 /\ Len(events) \in Nat
        /\ more[Len(events) + 1] = record /\ \A i \in 1 .. Len(events) : more[i] = events[i]
    BY AppendProperties
  <1> HIDE DEF more
  <1>2. ASSUME record.generation = generation
        PROVE  Suffix(more, old, generation) /\ Rest(more, old) = Append(Rest(events, old), record.pcm)
    <2>1. Suffix(more, old, generation)
      BY <1>1, <1>2 DEF Suffix
    <2>2. /\ Rest(events, old) \in Seq(Nat) /\ Len(Rest(events, old)) = Len(events) - old
          /\ \A i \in 1 .. Len(events) - old : Rest(events, old)[i] = events[old + i].pcm
      BY RestTypes
    <2>3. /\ Rest(more, old) \in Seq(Nat) /\ Len(Rest(more, old)) = Len(events) + 1 - old
          /\ \A i \in 1 .. Len(events) + 1 - old : Rest(more, old)[i] = more[old + i].pcm
      <3>1. old \in 0 .. Len(more)
        BY <1>1
      <3>2. /\ Rest(more, old) \in Seq(Nat) /\ Len(Rest(more, old)) = Len(more) - old
            /\ \A i \in 1 .. Len(more) - old : Rest(more, old)[i] = more[old + i].pcm
        BY <1>1, <3>1, RestTypes
      <3>3. Len(more) - old = Len(events) + 1 - old
        BY <1>1
      <3>4. QED
        BY <3>2, <3>3
    <2>4. record.pcm \in Nat
      BY Values DEF Records, Chunks, Silence
    <2> DEFINE last == Append(Rest(events, old), record.pcm)
    <2>5. /\ last \in Seq(Nat) /\ Len(last) = Len(events) - old + 1
          /\ \A i \in 1 .. Len(events) - old : last[i] = events[old + i].pcm
          /\ last[Len(events) - old + 1] = record.pcm
      BY <2>2, <2>4, AppendProperties
    <2> HIDE DEF last
    <2>6. ASSUME NEW i \in 1 .. Len(events) + 1 - old PROVE Rest(more, old)[i] = last[i]
      <3>1. CASE i = Len(events) + 1 - old
        <4>1. old + i = Len(events) + 1 /\ i = Len(events) - old + 1
          BY <1>1, <3>1
        <4>2. QED
          BY <1>1, <2>3, <2>5, <4>1
      <3>2. CASE i # Len(events) + 1 - old
        <4>1. old + i \in 1 .. Len(events) /\ i \in 1 .. Len(events) - old
          BY <1>1, <3>2
        <4>2. QED
          BY <1>1, <2>3, <2>5, <4>1
      <3>3. QED
        BY <3>1, <3>2
    <2>7. Rest(more, old) = last
      <3>1. Len(Rest(more, old)) = Len(last) /\ Len(last) = Len(events) + 1 - old
        BY <1>1, <2>3, <2>5
      <3>2. QED
        BY <2>3, <2>5, <2>6, <3>1, SeqEqual
    <2>8. QED
      BY <2>1, <2>7 DEF last
  <1>3. ASSUME record.generation # generation, old = Len(events)
        PROVE  /\ Suffix(more, Len(events) + 1, generation)
               /\ Rest(more, Len(events) + 1) = <<>> /\ Rest(events, old) = <<>>
    <2>1. Suffix(more, Len(events) + 1, generation)
      BY <1>1, <1>3 DEF Suffix
    <2>2. Len(events) + 1 \in 0 .. Len(more)
      BY <1>1
    <2>3. Rest(more, Len(events) + 1) \in Seq(Nat) /\ Len(Rest(more, Len(events) + 1)) = 0
      BY <1>1, <2>2, RestTypes
    <2>4. Rest(events, old) \in Seq(Nat) /\ Len(Rest(events, old)) = 0
      BY <1>1, <1>3, RestTypes
    <2>5. QED
      BY <2>1, <2>3, <2>4
  <1>4. QED
    BY <1>1, <1>2, <1>3 DEF more

\* The interrupt: what is sent is owed until it is posted.
LEMMA IsrAccount == ASSUME Typed, Account, IsrStep PROVE Account'
  <1> USE DEF Isr
  <1>0. /\ queues \in Queues /\ queues.events \in Seq(Records) /\ isr \in Interrupts
        /\ isr.next \in Buffers /\ isr.record \in Records /\ flag \in Flags
        /\ play \in [generation : Nat, pending : Int] /\ play.generation \in Nat
        /\ staged \in [Blocks -> Records] /\ dma \in [Buffers -> Records]
        /\ Len(queues.events) \in Nat
    BY DEF Typed, Queues, Interrupts
  <1>1. /\ history \in [sent : Seq(Nat), credited : Seq(Nat), starts : Nat, closes : Nat]
        /\ history.sent \in Seq(Nat) /\ history.credited \in Seq(Nat) /\ Limit \in Nat
        /\ Limit <= play.generation
    BY <1>0 DEF Account, Listed, Dated, Limit
  <1>2. audio' = audio /\ staged' = staged /\ play'.generation = play.generation /\ Limit' = Limit
    BY <1>0 DEF IsrStep, IsrSent, IsrEvent, IsrTake, IsrRefill, IsrUnchanged, Limit
  <1>3. PICK old \in 0 .. Len(queues.events) :
           /\ Suffix(queues.events, old, play.generation)
           /\ ~flag.desync => history.sent = (history.credited \o Rest(queues.events, old)) \o InHand
    BY DEF Account, Owed
  <1> DEFINE rest == Rest(queues.events, old)
             told == history.credited \o rest
  <1>4. rest \in Seq(Nat) /\ told \in Seq(Nat)
    BY <1>0, <1>1, RestTypes, ConcatProperties
  <1>5. CASE isr.pc # "event" /\ isr'.pc # "event" /\ queues'.events = queues.events
             /\ flag' = flag /\ history' = history
    <2>1. InHand = <<>> /\ InHand' = <<>>
      BY <1>5 DEF InHand
    <2>2. Owed'
      BY <1>2, <1>3, <1>5, <2>1 DEF Owed
    <2>3. OldFirst'
      BY <1>5 DEF OldFirst
    <2>4. /\ \A d \in Buffers : dma'[d].generation <= Limit
          /\ isr'.record.generation <= Limit
      <3>1. isr'.record = isr.record \/ isr'.record = NoRecord
        BY <1>0, <1>5 DEF IsrStep, IsrSent, IsrEvent, IsrTake, IsrRefill, BufferDone, Interrupts
      <3>2. NoRecord.generation = 0
        BY DEF NoRecord
      <3>3. \/ dma' = dma \/ dma' = [dma EXCEPT ![isr.next] = NoRecord]
            \/ isr.block \in Blocks /\ dma' = [dma EXCEPT ![isr.next] = staged[isr.block]]
        BY <1>0, <1>5 DEF IsrStep, IsrSent, IsrEvent, IsrTake, IsrRefill, FilledDma, Typed,
                          Interrupts, Blocks
      <3>4. isr'.record.generation <= Limit
        BY <1>1, <3>1, <3>2 DEF Account, Dated
      <3>5. \A d \in Buffers : dma'[d].generation <= Limit
        BY <1>0, <1>1, <3>2, <3>3 DEF Account, Dated
      <3>6. QED
        BY <3>4, <3>5
    <2>5. Dated'
      BY <1>2, <1>5, <2>4 DEF Account, Dated
    <2>6. QED
      BY <1>5, <2>2, <2>3, <2>5 DEF Account, Listed
  <1>6. CASE IsrSent /\ isr'.pc = "event"
    <2> DEFINE record == dma[isr.next]
    <2>1. /\ record \in Records /\ record.generation = play.generation /\ record.pcm \in Nat
          /\ isr.pc = "idle" /\ isr' = [isr EXCEPT !.pc = "event", !.record = record]
          /\ dma' = [dma EXCEPT ![isr.next] = NoRecord] /\ UNCHANGED <<flag, queues>>
          /\ history' = [history EXCEPT !.sent = Append(@, record.pcm)]
      <3>1. BufferDone.pc # "event"
        BY <1>0 DEF BufferDone, Interrupts
      <3>2. record \in Records /\ record.pcm \in Nat
        BY <1>0, Values DEF Records, Chunks, Silence
      <3>3. flag.tracking
        BY <1>6, <3>1 DEF IsrSent
      <3>4. record.generation = play.generation /\ Real(record)
        BY <1>0, <1>6, <3>1 DEF IsrSent, Interrupts
      <3>5. QED
        BY <1>0, <1>6, <3>2, <3>3, <3>4 DEF IsrSent
    <2> HIDE DEF record
    <2>2. InHand = <<>> /\ InHand' = <<record.pcm>>
      BY <1>0, <1>2, <2>1 DEF InHand, Interrupts
    <2>3. history'.sent = Append(history.sent, record.pcm) /\ history'.credited = history.credited
          /\ Listed'
      <3> DEFINE sent == Append(history.sent, record.pcm)
      <3>1. sent \in Seq(Nat) /\ history' = [history EXCEPT !.sent = sent]
        BY <1>1, <2>1
      <3> HIDE DEF sent
      <3>2. history'.sent = sent /\ history'.credited = history.credited /\ Listed'
        BY <1>1, <3>1 DEF Listed
      <3>3. QED
        BY <3>2 DEF sent
    <2>4. ~flag.desync => history'.sent = told \o InHand'
      <3>1. told \o <<>> = told
        BY <1>4, ConcatEmptySeq
      <3>2. Append(told, record.pcm) = told \o <<record.pcm>>
        BY <1>4, <2>1, AppendIsConcat
      <3> HIDE DEF told
      <3>3. ~flag.desync => history.sent = told
        BY <1>3, <2>2, <3>1 DEF told
      <3>4. QED
        BY <2>2, <2>3, <3>2, <3>3
    <2>5. Owed'
      BY <1>2, <1>3, <2>1, <2>3, <2>4 DEF Owed
    <2>6. OldFirst'
      <3>1. isr'.record = record
        BY <1>0, <2>1 DEF Interrupts
      <3>2. QED
        BY <1>2, <2>1, <3>1 DEF OldFirst
    <2>7. Dated'
      <3>1. isr'.record = record /\ record.generation <= Limit /\ NoRecord.generation = 0
        BY <1>0, <2>1 DEF Interrupts, Account, Dated, record, NoRecord
      <3>2. \A d \in Buffers : dma'[d].generation <= Limit
        BY <1>0, <1>1, <2>1, <3>1 DEF Account, Dated
      <3>3. QED
        BY <1>2, <2>1, <3>1, <3>2 DEF Account, Dated
    <2>8. QED
      BY <2>3, <2>5, <2>6, <2>7 DEF Account
  <1>7. CASE IsrEvent
    <2>1. /\ isr.pc = "event" /\ isr'.pc = "take" /\ isr'.record = NoRecord
          /\ UNCHANGED <<dma, play, history>>
      BY <1>0, <1>7 DEF IsrEvent, Interrupts
    <2>2. Listed' /\ OldFirst' /\ InHand' = <<>>
      BY <2>1 DEF Account, Listed, OldFirst, InHand
    <2>3. \/ queues' = queues /\ flag'.desync
          \/ queues'.events = Append(queues.events, isr.record) /\ flag' = flag
      BY <1>0, <1>7 DEF IsrEvent, Queues, Flags
    <2>4. Dated'
      <3>1. NoRecord.generation = 0
        BY DEF NoRecord
      <3>2. \A i \in 1 .. Len(queues'.events) : queues'.events[i].generation <= Limit
        <4>1. CASE queues' = queues
          BY <4>1 DEF Account, Dated
        <4>2. CASE queues'.events = Append(queues.events, isr.record)
          <5>1. /\ Len(queues'.events) = Len(queues.events) + 1
                /\ queues'.events[Len(queues.events) + 1] = isr.record
                /\ \A i \in 1 .. Len(queues.events) : queues'.events[i] = queues.events[i]
            BY <1>0, <4>2, AppendProperties
          <5>2. isr.record.generation <= Limit
                /\ \A i \in 1 .. Len(queues.events) : queues.events[i].generation <= Limit
            BY DEF Account, Dated
          <5>3. ASSUME NEW i \in 1 .. Len(queues'.events)
                PROVE  queues'.events[i].generation <= Limit
            <6>1. i = Len(queues.events) + 1 \/ i \in 1 .. Len(queues.events)
              BY <1>0, <5>1
            <6>2. QED
              BY <5>1, <5>2, <6>1
          <5>4. QED
            BY <5>3
        <4>3. QED
          BY <2>3, <4>1, <4>2
      <3>3. QED
        BY <1>1, <1>2, <2>1, <3>1, <3>2 DEF Account, Dated
    <2>5. Owed'
      <3>1. CASE queues' = queues /\ flag'.desync
        BY <1>2, <1>3, <3>1 DEF Owed
      <3>2. CASE queues'.events = Append(queues.events, isr.record) /\ flag' = flag
        <4> DEFINE more == Append(queues.events, isr.record)
        <4>1. /\ more \in Seq(Records) /\ Len(more) = Len(queues.events) + 1
              /\ isr.record.generation = play.generation =>
                   /\ Suffix(more, old, play.generation)
                   /\ Rest(more, old) = Append(rest, isr.record.pcm)
              /\ (isr.record.generation # play.generation /\ old = Len(queues.events)) =>
                   /\ Suffix(more, Len(queues.events) + 1, play.generation)
                   /\ Rest(more, Len(queues.events) + 1) = <<>>
                   /\ rest = <<>>
          BY <1>0, <1>3, RestAppend
        <4> HIDE DEF more
        <4>2. CASE isr.record.generation = play.generation
          <5>1. InHand = <<isr.record.pcm>> /\ isr.record.pcm \in Nat
            BY <1>0, <2>1, <4>2, Values DEF InHand, Records, Chunks, Silence
          <5>2. /\ history.credited \o Append(rest, isr.record.pcm) = told \o <<isr.record.pcm>>
                /\ history.credited \o Append(rest, isr.record.pcm) \in Seq(Nat)
            <6>1. Append(rest, isr.record.pcm) = rest \o <<isr.record.pcm>>
              BY <1>4, <5>1, AppendIsConcat
            <6>2. <<isr.record.pcm>> \in Seq(Nat)
              BY <5>1
            <6>3. (history.credited \o rest) \o <<isr.record.pcm>>
                  = history.credited \o (rest \o <<isr.record.pcm>>)
              BY <1>1, <1>4, <6>2, ConcatThree
            <6>4. told \o <<isr.record.pcm>> \in Seq(Nat)
              BY <1>4, <6>2, ConcatProperties
            <6>5. QED
              BY <6>1, <6>3, <6>4
          <5>3. ~flag.desync =>
                  history.sent = (history.credited \o Rest(more, old)) \o <<>>
            BY <1>3, <4>1, <4>2, <5>1, <5>2, ConcatEmptySeq
          <5>4. old \in 0 .. Len(more)
            BY <1>0, <4>1
          <5>5. QED
            BY <1>2, <2>1, <2>2, <3>2, <4>1, <4>2, <5>3, <5>4 DEF Owed, more
        <4>3. CASE isr.record.generation # play.generation
          <5>1. old = Len(queues.events)
            <6>1. \A i \in 1 .. Len(queues.events) : queues.events[i].generation # play.generation
              BY <2>1, <4>3 DEF Account, OldFirst
            <6>2. \A i \in 1 .. Len(queues.events) : ~(i > old)
              BY <1>3, <6>1 DEF Suffix
            <6>3. QED
              BY <1>0, <6>2
          <5>2. InHand = <<>>
            BY <4>3 DEF InHand
          <5>3. ~flag.desync =>
                  history.sent = (history.credited \o Rest(more, Len(queues.events) + 1)) \o <<>>
            BY <1>3, <4>1, <4>3, <5>1, <5>2
          <5>4. Len(queues.events) + 1 \in 0 .. Len(more)
            BY <1>0, <4>1
          <5>5. QED
            BY <1>2, <2>1, <2>2, <3>2, <4>1, <4>3, <5>1, <5>3, <5>4 DEF Owed, more
        <4>4. QED
          BY <4>2, <4>3
      <3>3. QED
        BY <2>3, <3>1, <3>2
    <2>6. QED
      BY <2>2, <2>4, <2>5 DEF Account
  <1>8. QED
    <2>1. CASE IsrSent /\ isr'.pc # "event"
      <3>1. isr.pc # "event" /\ queues' = queues /\ flag' = flag
        BY <1>0, <2>1 DEF IsrSent
      <3>2. history' = history
        BY <1>0, <1>1, <2>1 DEF IsrSent, Interrupts
      <3>3. QED
        BY <1>5, <2>1, <3>1, <3>2
    <2>2. CASE IsrTake \/ IsrRefill
      <3>1. isr.pc # "event" /\ isr'.pc # "event"
        BY <1>0, <2>2 DEF IsrTake, IsrRefill, BufferDone, Interrupts
      <3>2. queues'.events = queues.events /\ flag' = flag /\ history' = history
        BY <1>0, <2>2 DEF IsrTake, IsrRefill, Queues
      <3>3. QED
        BY <1>5, <3>1, <3>2
    <2>3. QED
      BY <1>6, <1>7, <2>1, <2>2 DEF IsrStep

\* The other steps: a drain tells what is due, and a new playback owes nothing.
LEMMA OtherAccount == ASSUME Typed, Account, [Next]_vars, ~IsrStep PROVE Account'
  <1> USE DEF Isr, At, Goto
  <1>0. /\ queues \in Queues /\ queues.events \in Seq(Records) /\ isr \in Interrupts
        /\ isr.record \in Records /\ audio \in Periods
        /\ play \in [generation : Nat, pending : Int] /\ play.generation \in Nat
        /\ staged \in [Blocks -> Records] /\ dma \in [Buffers -> Records]
        /\ Len(queues.events) \in Nat /\ flag \in Flags
    BY DEF Typed, Queues, Interrupts
  <1>1. /\ history \in [sent : Seq(Nat), credited : Seq(Nat), starts : Nat, closes : Nat]
        /\ history.sent \in Seq(Nat) /\ history.credited \in Seq(Nat) /\ Limit \in Nat
        /\ Limit <= play.generation /\ Listed /\ Dated /\ OldFirst
    BY <1>0 DEF Account, Listed, Dated, Limit
  <1>2. PICK old \in 0 .. Len(queues.events) :
           /\ Suffix(queues.events, old, play.generation)
           /\ ~flag.desync => history.sent = (history.credited \o Rest(queues.events, old)) \o InHand
    BY DEF Account, Owed
  <1> DEFINE none == <<>>
  <1>3. /\ Len(none) = 0 /\ none \in Seq(Nat) /\ none \in Seq(Records) /\ Rest(none, 0) = none
        /\ \A generation : Suffix(none, 0, generation)
    <2>1. Len(none) = 0 /\ none \in Seq(Nat) /\ none \in Seq(Records)
      OBVIOUS
    <2>2. Rest(none, 0) = none
      BY <2>1, RestNone
    <2>3. \A generation : Suffix(none, 0, generation)
      BY <2>1 DEF Suffix
    <2>4. QED
      BY <2>1, <2>2, <2>3
  <1>4. (none \o none) \o none = none /\ \A s \in Seq(Nat) : s \o none = s
    BY <1>3, ConcatEmptySeq
  <1>5. InHand \in Seq(Nat)
    BY InHandType
  <1> HIDE DEF none
  \* Nothing of the current generation is left anywhere.
  <1>6. ASSUME queues'.events = none, history'.sent = none, history'.credited = none, InHand' = none
        PROVE  Owed'
    <2>1. 0 \in 0 .. Len(queues'.events) /\ Suffix(queues'.events, 0, play'.generation)
      BY <1>3, <1>6
    <2>2. history'.sent = (history'.credited \o Rest(queues'.events, 0)) \o InHand'
      BY <1>3, <1>4, <1>6
    <2>3. QED
      BY <2>1, <2>2 DEF Owed
  <1>7. CASE Unheard
    <2>1. Owed'
      <3>1. InHand' = InHand
        BY <1>7 DEF Unheard, InHand
      <3>2. QED
        BY <1>2, <1>7, <3>1 DEF Unheard, Owed
    <2>2. Dated' /\ OldFirst' /\ Listed'
      BY <1>1, <1>7 DEF Unheard, Dated, OldFirst
    <2>3. QED
      BY <2>1, <2>2 DEF Account
  <1>8. CASE Heard
    <2> DEFINE rest == Rest(queues.events, old)
               told == history.credited \o rest
    <2>1. Credits(queues.events) = rest /\ rest \in Seq(Nat) /\ told \in Seq(Nat)
      BY <1>0, <1>1, <1>2, CreditsAreRest, RestTypes, ConcatProperties
    <2>2. /\ history'.credited = told /\ history'.sent = history.sent /\ Listed'
      <3>1. history' = [history EXCEPT !.credited = told]
        BY <1>8, <2>1 DEF Heard
      <3> HIDE DEF told
      <3>2. QED
        BY <1>1, <2>1, <3>1 DEF Listed
    <2>3. queues'.events = none /\ InHand' = InHand /\ flag'.desync = flag.desync
          /\ play'.generation = play.generation
      BY <1>8 DEF Heard, InHand, none
    <2>4. Owed'
      <3>1. told \o Rest(none, 0) = told
        BY <1>3, <1>4, <2>1
      <3>2. ~flag.desync => history.sent = told \o InHand
        BY <1>2
      <3> HIDE DEF told
      <3>3. ~flag'.desync => history'.sent = (history'.credited \o Rest(queues'.events, 0)) \o InHand'
        BY <2>2, <2>3, <3>1, <3>2
      <3>4. 0 \in 0 .. Len(queues'.events) /\ Suffix(queues'.events, 0, play'.generation)
        BY <1>3, <2>3
      <3>5. QED
        BY <3>3, <3>4 DEF Owed
    <2>5. Dated'
      <3>1. \A i \in 1 .. Len(queues'.events) : queues'.events[i].generation <= Limit
        BY <1>3, <2>3
      <3>2. QED
        BY <1>1, <1>8, <3>1 DEF Heard, Dated
    <2>6. OldFirst'
      <3>1. 1 .. Len(queues'.events) = {}
        BY <1>3, <2>3
      <3>2. QED
        BY <3>1 DEF OldFirst
    <2>7. QED
      BY <2>2, <2>4, <2>5, <2>6 DEF Account
  <1>9. CASE Admit
    <2>1. UNCHANGED <<isr, dma, history, flag>> /\ play'.generation = play.generation
      BY <1>0, <1>9 DEF Admit, AudioUnchanged
    <2>2. queues'.events = queues.events
      BY <1>0, <1>9 DEF Admit, Queues
    <2>3. Limit = play.generation /\ Limit' = play.generation
      BY <1>0, <1>9, <2>1 DEF Admit, Limit, Periods
    <2>4. Owed'
      <3>1. InHand' = InHand
        BY <2>1 DEF InHand
      <3>2. QED
        BY <1>2, <2>1, <2>2, <3>1 DEF Owed
    <2>5. \A b \in Blocks : staged'[b].generation <= Limit
      <3>1. staged' = [staged EXCEPT ![Head(queues.free)] =
                         [pcm |-> IF audio.got = <<>> THEN Silence ELSE Head(audio.got),
                          generation |-> play.generation]]
        BY <1>9 DEF Admit
      <3>2. ASSUME NEW b \in Blocks PROVE staged'[b] = staged[b] \/ staged'[b].generation = play.generation
        BY <1>0, <3>1
      <3>3. QED
        BY <1>0, <1>1, <2>3, <3>2 DEF Dated
    <2>6. Dated' /\ OldFirst' /\ Listed'
      BY <1>1, <2>1, <2>2, <2>3, <2>5 DEF Dated, OldFirst, Listed
    <2>7. QED
      BY <2>4, <2>6 DEF Account
  <1>10. CASE ResetGeneration
    <2>1. /\ UNCHANGED <<isr, dma, staged, queues, flag>> /\ play'.generation = play.generation + 1
          /\ audio.pc = "reset_ready" /\ audio'.pc = "reset_done"
          /\ history' = [history EXCEPT !.sent = none, !.credited = none]
      BY <1>0, <1>10 DEF ResetGeneration, AudioUnchanged, Periods, none
    <2>2. history'.sent = none /\ history'.credited = none /\ Listed'
      BY <1>1, <1>3, <2>1 DEF Listed
    <2>3. Limit = play.generation /\ Limit' = Limit
      BY <1>0, <2>1 DEF Limit
    <2>4. Dated'
      BY <1>1, <2>1, <2>3 DEF Dated
    <2>5. \A i \in 1 .. Len(queues.events) : queues.events[i].generation # play'.generation
      <3>1. ASSUME NEW i \in 1 .. Len(queues.events)
            PROVE  queues.events[i].generation # play.generation + 1
        <4>1. queues.events[i].generation <= play.generation
          BY <1>1, <2>3 DEF Dated
        <4>2. queues.events[i] \in Records
          BY <1>0, LenProperties
        <4>3. queues.events[i].generation \in Nat
          BY <4>2 DEF Records
        <4>4. QED
          BY <1>0, <4>1, <4>3
      <3>2. QED
        BY <2>1, <3>1
    <2>6. InHand' = none
      <3>1. isr.record.generation <= play.generation /\ isr.record.generation \in Nat
        BY <1>0, <1>1, <2>3 DEF Dated, Records
      <3>2. isr'.record.generation # play'.generation
        BY <1>0, <2>1, <3>1
      <3>3. QED
        BY <3>2 DEF InHand, none
    <2>7. Owed'
      <3>1. Suffix(queues.events, Len(queues.events), play'.generation)
        BY <1>0, <2>5 DEF Suffix
      <3>2. Rest(queues.events, Len(queues.events)) = none
        <4>1. Len(Rest(queues.events, Len(queues.events))) = 0
              /\ Rest(queues.events, Len(queues.events)) \in Seq(Nat)
          BY <1>0, RestTypes
        <4>2. QED
          BY <4>1 DEF none
      <3>3. history'.sent = (history'.credited \o Rest(queues'.events, Len(queues.events))) \o InHand'
        BY <1>4, <2>1, <2>2, <2>6, <3>2
      <3>4. Len(queues.events) \in 0 .. Len(queues'.events)
        BY <1>0, <2>1
      <3>5. QED
        BY <2>1, <3>1, <3>3, <3>4 DEF Owed
    <2>8. OldFirst'
      BY <2>1, <2>5 DEF OldFirst
    <2>9. QED
      BY <2>2, <2>4, <2>7, <2>8 DEF Account
  <1>11. CASE ResetDone
    <2>1. /\ UNCHANGED <<isr, dma, staged, play, history>> /\ flag'.desync = flag.desync
          /\ queues'.events = none /\ audio.pc = "reset_done" /\ audio'.pc = "period"
      BY <1>0, <1>11 DEF ResetDone, AudioUnchanged, Periods, Queues, Flags, none
    <2>2. Limit = play.generation - 1 /\ Limit' = play.generation
      BY <2>1 DEF Limit
    <2>3. 1 .. Len(queues'.events) = {}
      BY <1>3, <2>1
    <2>4. OldFirst' /\ Listed'
      BY <1>1, <2>1, <2>3 DEF OldFirst, Listed
    <2>5. Dated'
      <3>1. \A b \in Blocks : staged[b].generation <= play.generation
        <4>1. ASSUME NEW b \in Blocks PROVE staged[b].generation <= play.generation
          <5>1. staged[b].generation \in Nat /\ staged[b].generation <= Limit
            BY <1>0, <1>1 DEF Dated, Records
          <5>2. QED
            BY <1>0, <2>2, <5>1
        <4>2. QED
          BY <4>1
      <3>2. \A d \in Buffers : dma[d].generation <= play.generation
        <4>1. ASSUME NEW d \in Buffers PROVE dma[d].generation <= play.generation
          <5>1. dma[d].generation \in Nat /\ dma[d].generation <= Limit
            BY <1>0, <1>1 DEF Dated, Records
          <5>2. QED
            BY <1>0, <2>2, <5>1
        <4>2. QED
          BY <4>1
      <3>3. isr.record.generation <= play.generation
        BY <1>0, <1>1, <2>2 DEF Dated, Records
      <3>4. QED
        BY <1>0, <2>1, <2>2, <2>3, <3>1, <3>2, <3>3 DEF Dated
    <2>6. Owed'
      <3>1. old = Len(queues.events)
        <4>1. ASSUME NEW i \in 1 .. Len(queues.events), i > old PROVE FALSE
          <5>1. queues.events[i].generation = play.generation /\ queues.events[i].generation <= Limit
            BY <1>1, <1>2, <4>1 DEF Suffix, Dated
          <5>2. QED
            BY <1>0, <2>2, <5>1
        <4>2. QED
          BY <1>0, <4>1
      <3>2. Len(Rest(queues.events, old)) = 0 /\ Rest(queues.events, old) \in Seq(Nat)
        BY <1>0, <3>1, RestTypes
      <3>3. Rest(queues.events, old) = none
        BY <3>2 DEF none
      <3>4. ~flag'.desync => history'.sent = (history'.credited \o Rest(queues'.events, 0)) \o InHand'
        <4>1. InHand' = InHand
          BY <2>1 DEF InHand
        <4>2. QED
          BY <1>2, <1>3, <2>1, <3>3, <4>1
      <3>5. 0 \in 0 .. Len(queues'.events) /\ Suffix(queues'.events, 0, play'.generation)
        BY <1>3, <2>1
      <3>6. QED
        BY <3>4, <3>5 DEF Owed
    <2>7. QED
      BY <2>4, <2>5, <2>6 DEF Account
  <1>12. CASE Close
    <2>1. /\ isr' = isr /\ isr.pc = "idle" /\ staged' = staged
          /\ audio.pc = "close" /\ audio'.pc = "closed"
          /\ queues'.events = none /\ play'.generation = play.generation + 1
          /\ dma' = [d \in Buffers |-> NoRecord]
      BY <1>0, <1>12 DEF Close, AudioUnchanged, Periods, ResetQueues, ResetPlay, none
    <2>2. history'.sent = none /\ history'.credited = none /\ Listed'
      <3> DEFINE closes == history.closes + 1
      <3>1. history' = [history EXCEPT !.sent = none, !.credited = none, !.closes = closes]
        BY <1>12 DEF Close, none
      <3>2. closes \in Nat
        BY <1>1
      <3> HIDE DEF closes
      <3>3. QED
        BY <1>1, <1>3, <3>1, <3>2 DEF Listed
    <2>3. Limit = play.generation /\ Limit' = play.generation + 1
      BY <2>1 DEF Limit
    <2>4. 1 .. Len(queues'.events) = {}
      BY <1>3, <2>1
    <2>5. Owed'
      BY <1>6, <2>1, <2>2 DEF InHand, none
    <2>6. OldFirst'
      BY <2>1 DEF OldFirst
    <2>7. Dated'
      <3>1. ASSUME NEW b \in Blocks PROVE staged[b].generation <= play.generation + 1
        <4>1. staged[b].generation \in Nat /\ staged[b].generation <= play.generation
          BY <1>0, <1>1, <2>3 DEF Dated, Records
        <4>2. QED
          BY <1>0, <4>1
      <3>2. NoRecord.generation = 0
        BY DEF NoRecord
      <3>3. isr.record.generation <= play.generation + 1
        BY <1>0, <1>1, <2>3 DEF Dated, Records
      <3>4. QED
        BY <1>0, <2>1, <2>3, <2>4, <3>1, <3>2, <3>3 DEF Dated
    <2>8. QED
      BY <2>2, <2>5, <2>6, <2>7 DEF Account
  <1>13. QED
    BY <1>1, <1>7, <1>8, <1>9, <1>10, <1>11, <1>12, CreditSteps

LEMMA AccountAlways == Spec => []Account
  <1>1. ASSUME Init PROVE Account
    <2>1. /\ queues.events = <<>> /\ history.sent = <<>> /\ history.credited = <<>>
          /\ isr.pc = "idle" /\ play.generation = 0 /\ audio.pc = "session"
      BY <1>1 DEF Init
    <2>2. Listed
      BY <1>1 DEF Init, Listed
    <2>3. NoRecord.generation = 0
      BY DEF NoRecord
    <2>4. Limit = 0
      BY <2>1 DEF Limit
    <2>5. Dated
      BY <1>1, <2>1, <2>3, <2>4 DEF Init, Dated
    <2>6. OldFirst
      BY <2>1 DEF OldFirst
    <2>7. Owed
      <3>1. InHand = <<>> /\ Suffix(<<>>, 0, 0)
        BY <2>1 DEF InHand, Suffix
      <3>2. Rest(<<>>, 0) = <<>>
        <4>1. <<>> \in Seq(Records) /\ Len(<<>>) = 0
          OBVIOUS
        <4>2. QED
          BY <4>1, RestNone
      <3>3. (<<>> \o <<>>) \o <<>> = <<>>
        OBVIOUS
      <3>4. QED
        BY <2>1, <3>1, <3>2, <3>3 DEF Owed
    <2>8. QED
      BY <2>2, <2>5, <2>6, <2>7 DEF Account
  <1>2. ASSUME Typed, Account, [Next]_vars PROVE Account'
    BY <1>2, IsrAccount, OtherAccount
  <1>3. QED
    BY <1>1, <1>2, TypedAlways, PTL DEF Spec

\* The speaker's callbacks are credited with what the interrupt has sent, each chunk
\* once and in order, for every number of blocks and buffers.
THEOREM CreditsFollowTheDma == Spec => []CreditsFollowDma
  <1>1. ASSUME Account PROVE CreditsFollowDma
    BY <1>1 DEF Account, Owed, Suffix, Rest, InHand, CreditsFollowDma, Isr
  <1>2. QED
    BY <1>1, AccountAlways, PTL
----------------------------------------------------------------------------
(* Chunks are played in the order they were offered in.                    *)

Rising(s) == \A i, j \in DOMAIN s : i < j => s[i] < s[j]
Below(S, T) == \A x \in S, y \in T : x < y

LEMMA RisingAppend ==
    ASSUME NEW s \in Seq(Nat), NEW x \in Nat, Rising(s), Below(Elements(s), {x})
    PROVE  Rising(Append(s, x)) /\ Elements(Append(s, x)) = Elements(s) \cup {x}
  <1> DEFINE t == Append(s, x)
  <1>1. /\ Len(s) \in Nat /\ DOMAIN s = 1 .. Len(s) /\ DOMAIN t = 1 .. Len(s) + 1
        /\ t[Len(s) + 1] = x /\ \A i \in 1 .. Len(s) : t[i] = s[i]
    OBVIOUS
  <1> HIDE DEF t
  <1>2. \A i \in 1 .. Len(s) : s[i] < x
    BY <1>1 DEF Below, Elements
  <1>3. ASSUME NEW i \in DOMAIN t, NEW j \in DOMAIN t, i < j PROVE t[i] < t[j]
    <2>1. i \in 1 .. Len(s)
      BY <1>1, <1>3
    <2>2. CASE j = Len(s) + 1
      BY <1>1, <1>2, <2>1, <2>2
    <2>3. CASE j \in 1 .. Len(s)
      BY <1>1, <1>3, <2>1, <2>3 DEF Rising
    <2>4. QED
      BY <1>1, <2>2, <2>3
  <1>4. Elements(t) = Elements(s) \cup {x}
    BY <1>1 DEF Elements
  <1>5. QED
    BY <1>3, <1>4 DEF Rising, t

LEMMA RisingTail ==
    ASSUME NEW s \in Seq(Nat), s # <<>>, Rising(s)
    PROVE  /\ Rising(Tail(s)) /\ Head(s) \in Elements(s) /\ Elements(Tail(s)) \subseteq Elements(s)
           /\ Below({Head(s)}, Elements(Tail(s)))
  <1> DEFINE t == Tail(s)
  <1>1. /\ Len(s) \in Nat /\ Len(s) # 0 /\ DOMAIN s = 1 .. Len(s) /\ DOMAIN t = 1 .. Len(s) - 1
        /\ Head(s) = s[1] /\ \A i \in 1 .. Len(s) - 1 : t[i] = s[i + 1]
    OBVIOUS
  <1> HIDE DEF t
  <1>2. \A i \in DOMAIN t : i + 1 \in DOMAIN s /\ i + 1 > 1 /\ t[i] = s[i + 1]
    BY <1>1
  <1>3. Rising(t)
    BY <1>1, <1>2 DEF Rising
  <1>4. 1 \in DOMAIN s
    BY <1>1
  <1>5. Elements(t) \subseteq Elements(s) /\ Head(s) \in Elements(s)
    BY <1>1, <1>2, <1>4 DEF Elements
  <1>6. Below({Head(s)}, Elements(t))
    BY <1>1, <1>2, <1>4 DEF Below, Elements, Rising
  <1>7. QED
    BY <1>3, <1>5, <1>6 DEF t

LEMMA Pieces ==
    ASSUME NEW n \in Nat, NEW c \in 0 .. n
    PROVE  (IF c + 1 <= n THEN n - (c + 1) + 1 ELSE 0) = n - c
  <1>1. CASE c = n
    BY <1>1
  <1>2. CASE c < n
    BY <1>2
  <1>3. QED
    BY <1>1, <1>2

\* What is read from a rising ring precedes what stays.
LEMMA RisingSplit ==
    ASSUME NEW s \in Seq(Nat), NEW count \in 0 .. Len(s), Rising(s)
    PROVE  LET front == SubSeq(s, 1, count)
               back == SubSeq(s, count + 1, Len(s))
           IN  /\ front \in Seq(Nat) /\ Len(front) = count /\ Rising(front) /\ Rising(back)
               /\ Elements(front) \cup Elements(back) \subseteq Elements(s)
               /\ Below(Elements(front), Elements(back))
  <1> DEFINE front == SubSeq(s, 1, count)
             back == SubSeq(s, count + 1, Len(s))
  <1>1. /\ Len(s) \in Nat /\ DOMAIN s = 1 .. Len(s)
        /\ \A i \in 1 .. Len(s) : s[i] \in Nat
    BY LenProperties
  <1>2. /\ front \in Seq(Nat) /\ Len(front) = count /\ DOMAIN front = 1 .. count
        /\ \A i \in 1 .. count : front[i] = s[i] /\ i \in DOMAIN s
    <2>1. /\ front \in Seq(Nat)
          /\ Len(front) = IF 1 <= count THEN count - 1 + 1 ELSE 0
          /\ \A i \in 1 .. count - 1 + 1 : front[i] = s[1 + i - 1]
      <3>1. 1 \in Int /\ count \in Int /\ \A i \in 1 .. count : s[i] \in Nat
        BY <1>1
      <3>2. QED
        BY <3>1, SubSeqProperties
    <2> HIDE DEF front
    <2>2. Len(front) = count
      BY <2>1
    <2>3. \A i \in 1 .. count : front[i] = s[i] /\ i \in DOMAIN s
      BY <1>1, <2>1
    <2>4. QED
      BY <2>1, <2>2, <2>3, LenProperties
  <1>3. /\ DOMAIN back = 1 .. Len(s) - count
        /\ \A i \in 1 .. Len(s) - count : back[i] = s[count + i] /\ count + i \in DOMAIN s
    <2>1. /\ back \in Seq(Nat)
          /\ Len(back) = IF count + 1 <= Len(s) THEN Len(s) - (count + 1) + 1 ELSE 0
          /\ \A i \in 1 .. Len(s) - (count + 1) + 1 : back[i] = s[(count + 1) + i - 1]
      <3>1. count + 1 \in Int /\ Len(s) \in Int /\ \A i \in count + 1 .. Len(s) : s[i] \in Nat
        BY <1>1
      <3>2. QED
        BY <3>1, SubSeqProperties
    <2> HIDE DEF back
    <2>2. Len(back) = Len(s) - count
      <3>1. (IF count + 1 <= Len(s) THEN Len(s) - (count + 1) + 1 ELSE 0) = Len(s) - count
        BY <1>1, Pieces
      <3>2. QED
        BY <2>1, <3>1
    <2>3. ASSUME NEW i \in 1 .. Len(s) - count
          PROVE  back[i] = s[count + i] /\ count + i \in DOMAIN s
      <3>1. /\ i \in 1 .. Len(s) - (count + 1) + 1 /\ (count + 1) + i - 1 = count + i
            /\ count + i \in 1 .. Len(s)
        BY <1>1
      <3>2. QED
        BY <1>1, <2>1, <3>1
    <2>4. QED
      BY <2>1, <2>2, <2>3, LenProperties
  <1> HIDE DEF front, back
  <1>4. Rising(front)
    BY <1>2 DEF Rising
  <1>5. Rising(back)
    <2>1. ASSUME NEW i \in DOMAIN back, NEW j \in DOMAIN back, i < j PROVE back[i] < back[j]
      <3>1. count + i < count + j
        BY <1>1, <1>3, <2>1
      <3>2. QED
        BY <1>3, <2>1, <3>1 DEF Rising
    <2>2. QED
      BY <2>1 DEF Rising
  <1>6. Elements(front) \cup Elements(back) \subseteq Elements(s)
    <2>1. Elements(front) \subseteq Elements(s)
      BY <1>2 DEF Elements
    <2>2. Elements(back) \subseteq Elements(s)
      BY <1>3 DEF Elements
    <2>3. QED
      BY <2>1, <2>2
  <1>7. Below(Elements(front), Elements(back))
    <2>1. ASSUME NEW i \in DOMAIN front, NEW j \in DOMAIN back PROVE front[i] < back[j]
      <3>1. i < count + j /\ front[i] = s[i] /\ back[j] = s[count + j]
            /\ i \in DOMAIN s /\ count + j \in DOMAIN s
        BY <1>1, <1>2, <1>3
      <3>2. QED
        BY <3>1 DEF Rising
    <2>2. QED
      BY <2>1 DEF Below, Elements
  <1>8. QED
    BY <1>2, <1>4, <1>5, <1>6, <1>7 DEF front, back

\* The places on the way: played, in DMA buffers, in blocks, read, in the ring; the
\* producer's chunk comes after all of them.
Line(sent, sounding, loaded, got, waiting, chunk) ==
    /\ Below(sent, sounding \cup loaded \cup got \cup waiting \cup {chunk})
    /\ Below(sounding, loaded \cup got \cup waiting \cup {chunk})
    /\ Below(loaded, got \cup waiting \cup {chunk})
    /\ Below(got, waiting \cup {chunk})
    /\ Below(waiting, {chunk})

LEMMA LineMoves ==
    ASSUME NEW s, NEW d, NEW b, NEW g, NEW w, NEW c \in Nat, Line(s, d, b, g, w, c),
           NEW s2 \in SUBSET s, NEW d2 \in SUBSET d, NEW b2 \in SUBSET b, NEW g2 \in SUBSET g,
           NEW w2 \in SUBSET w
    PROVE  /\ Line(s2, d2, b2, g2, w2, c)
           /\ \A x \in d : Below({x}, d2) => Line(s \cup {x}, d2, b, g, w, c)
           /\ \A x \in b : Below({x}, b2) => Line(s, d \cup {x}, b2, g, w, c)
           /\ \A x \in g : Below({x}, g2) => Line(s, d, b \cup {x}, g2, w, c)
           /\ \A p \in SUBSET w : Below(p, w2) => Line(s, d, b, p, w2, c)
  BY DEF Line, Below

LEMMA LineGrows ==
    ASSUME NEW s \in SUBSET Nat, NEW d \in SUBSET Nat, NEW b \in SUBSET Nat, NEW g \in SUBSET Nat,
           NEW w \in SUBSET Nat, NEW c \in Nat, Line(s, d, b, g, w, c)
    PROVE  Line(s, d, b, g, w \cup {c}, c + 1)
  <1>1. ASSUME NEW x \in Nat, x < c PROVE x < c + 1
    BY <1>1
  <1>2. c < c + 1
    OBVIOUS
  <1>3. QED
    BY <1>1, <1>2 DEF Line, Below

\* The PCM of a period is held only while its blocks are admitted, and there are
\* as many blocks; when the hardware is closed no buffer holds PCM.
Tidy ==
    /\ audio.pc \notin {"block", "admit"} => audio.got = <<>>
    /\ Len(audio.got) <= audio.left
    /\ audio.pc = "closed" => isr.pc = "idle" /\ Playing = {}

LEMMA ReadSplits ==
    ASSUME Typed, Read
    PROVE  \E count \in 0 .. Len(ring) :
              /\ count <= Quantum
              /\ ring' = SubSeq(ring, count + 1, Len(ring))
              /\ audio' = [pc |-> "block", speaker |-> FALSE, got |-> SubSeq(ring, 1, count),
                           left |-> Quantum]
  <1> DEFINE count == IF ~audio.speaker THEN 0
                      ELSE IF Len(ring) < Quantum THEN Len(ring) ELSE Quantum
  <1>1. Len(ring) \in Nat /\ Quantum \in Nat
    BY Values DEF Typed
  <1>2. count \in 0 .. Len(ring) /\ count <= Quantum
    BY <1>1
  <1>3. /\ ring' = SubSeq(ring, count + 1, Len(ring))
        /\ audio' = [pc |-> "block", speaker |-> FALSE, got |-> SubSeq(ring, 1, count),
                     left |-> Quantum]
    BY DEF Read, Consumed
  <1> HIDE DEF count
  <1>4. QED
    BY <1>2, <1>3

LEMMA TidyStep == ASSUME Typed, Tidy, [Next]_vars PROVE Tidy'
  <1> USE DEF At, Goto, Isr
  <1>0. /\ audio \in Periods /\ audio.left \in 0 .. Quantum /\ Quantum \in Nat /\ isr \in Interrupts
        /\ audio.got \in Seq(Chunks) /\ Len(audio.got) \in Nat
        /\ (audio.pc = "admit" => audio.left > 0) /\ ring \in Seq(Chunks) /\ Len(ring) \in Nat
    BY Values DEF Typed, Periods
  <1> DEFINE none == <<>>
  <1>1. Len(none) = 0 /\ none \in Seq(Chunks)
    OBVIOUS
  <1> HIDE DEF none
  <1>2. CASE IsrStep
    <2>1. audio' = audio
      BY <1>2 DEF IsrStep, IsrSent, IsrEvent, IsrTake, IsrRefill, IsrUnchanged
    <2>2. audio.pc # "closed"
      BY <1>2 DEF IsrStep, IsrSent, IsrEvent, IsrTake, IsrRefill, Tidy
    <2>3. QED
      BY <2>1, <2>2 DEF Tidy
  <1>3. CASE MainStep \/ Commit \/ FailedSeen \/ Calls \/ ProducerStep
    <2>1. /\ UNCHANGED <<dma, isr>>
          /\ \/ audio' = audio
             \/ audio.pc = "closed" /\ audio' = [audio EXCEPT !.pc = "session"]
      BY <1>3, Outside
    <2>2. CASE audio' = audio
      BY <2>1, <2>2 DEF Tidy, Playing
    <2>3. CASE audio.pc = "closed" /\ audio' = [audio EXCEPT !.pc = "session"]
      <3>1. audio'.pc = "session" /\ audio'.got = audio.got /\ audio'.left = audio.left
        BY <1>0, <2>3 DEF Periods
      <3>2. QED
        BY <2>3, <3>1 DEF Tidy
    <2>4. QED
      BY <2>1, <2>2, <2>3
  <1>4. CASE UNCHANGED vars
    BY <1>4 DEF vars, Tidy, Playing
  <1>5. CASE SessionEnds \/ ResetRing \/ ResetGeneration \/ ResetDone \/ Period \/ PeriodEnds \/ Block
    <2>1. /\ audio'.got = audio.got /\ audio'.left = audio.left
          /\ audio'.pc \in {"close", "reset_ready", "reset_done", "period", "read", "session", "admit"}
          /\ audio'.pc = "session" => audio.left = 0
          /\ audio'.pc # "session" /\ audio'.pc # "admit" => audio.pc \notin {"block", "admit"}
      BY <1>0, <1>5 DEF SessionEnds, ResetRing, ResetGeneration, ResetDone, Period, PeriodEnds, Block,
                        Periods
    <2>2. audio.left = 0 => audio.got = <<>>
      BY <1>0 DEF Tidy
    <2>3. QED
      BY <2>1, <2>2 DEF Tidy
  <1>6. CASE SessionFault \/ ResetReady \/ FailureEnds
    <2>1. UNCHANGED <<audio, isr, dma>>
      BY <1>6 DEF SessionFault, ResetReady, FailureEnds, AudioUnchanged
    <2>2. QED
      BY <2>1 DEF Tidy, Playing
  <1>7. CASE Rejected
    <2>1. audio' = [audio EXCEPT !.pc = "session", !.got = none, !.left = 0]
      BY <1>7 DEF Rejected, none
    <2>2. audio'.pc = "session" /\ audio'.got = none /\ audio'.left = 0
      BY <1>0, <2>1 DEF Periods
    <2>3. QED
      BY <1>1, <2>2 DEF Tidy, none
  <1>8. CASE Read
    <2>1. PICK count \in 0 .. Len(ring) :
             /\ count <= Quantum
             /\ audio' = [pc |-> "block", speaker |-> FALSE, got |-> SubSeq(ring, 1, count),
                          left |-> Quantum]
      BY <1>8, ReadSplits
    <2>2. Len(SubSeq(ring, 1, count)) = count
      <3>1. /\ 1 \in Int /\ count \in Int /\ \A i \in 1 .. count : ring[i] \in Chunks
        BY <1>0
      <3>2. Len(SubSeq(ring, 1, count)) = IF 1 <= count THEN count - 1 + 1 ELSE 0
        BY <3>1, SubSeqProperties
      <3>3. QED
        BY <3>2
    <2>3. audio'.pc = "block" /\ audio'.left = Quantum /\ Len(audio'.got) = count
      BY <2>1, <2>2
    <2>4. QED
      BY <2>1, <2>3 DEF Tidy
  <1>9. CASE Admit
    <2> DEFINE got == IF audio.got = <<>> THEN <<>> ELSE Tail(audio.got)
               left == audio.left - 1
    <2>1. Len(got) <= left
      <3>1. CASE audio.got = <<>>
        BY <1>0, <1>9, <3>1 DEF Admit
      <3>2. CASE audio.got # <<>>
        <4>1. Len(Tail(audio.got)) = Len(audio.got) - 1
          BY <1>0, <3>2
        <4>2. QED
          BY <1>0, <3>2, <4>1 DEF Tidy
      <3>3. QED
        BY <3>1, <3>2
    <2>2. audio' = [audio EXCEPT !.pc = "block", !.left = left, !.got = got]
      BY <1>9 DEF Admit
    <2> HIDE DEF got, left
    <2>3. audio'.pc = "block" /\ audio'.left = left /\ audio'.got = got
      BY <1>0, <2>2 DEF Periods
    <2>4. QED
      BY <2>1, <2>3 DEF Tidy
  <1>10. CASE Close
    <2>1. audio.pc = "close" /\ audio'.pc = "closed" /\ audio'.got = audio.got /\ audio'.left = audio.left
      BY <1>0, <1>10 DEF Close, Periods
    <2>2. isr' = isr /\ isr.pc = "idle" /\ dma' = [d \in Buffers |-> NoRecord]
      BY <1>10 DEF Close, AudioUnchanged
    <2>3. Playing' = {}
      BY <2>2 DEF Playing, Real, NoRecord
    <2>4. QED
      BY <2>1, <2>2, <2>3 DEF Tidy
  <1>11. QED
    BY <1>2, <1>3, <1>4, <1>5, <1>6, <1>7, <1>8, <1>9, <1>10 DEF Next, AudioStep

LEMMA TidyAlways == Spec => []Tidy
  <1>1. ASSUME Init PROVE Tidy
    <2>1. audio.got = <<>> /\ audio.left = 0 /\ audio.pc = "session"
      BY <1>1 DEF Init
    <2>2. QED
      BY <2>1 DEF Tidy
  <1>2. QED
    BY <1>1, TidyStep, TypedAlways, PTL DEF Spec

\* PCM of the current playback.
Fresh(record) == Real(record) /\ record.generation = play.generation
FreshBuffers == {d \in Buffers : Fresh(dma[d])}
FreshBlocks == {b \in Blocks : b \in Elements(queues.ready) \cup {isr.block} /\ Fresh(staged[b])}
InDma == {dma[d].pcm : d \in FreshBuffers}
InBlocks == {staged[b].pcm : b \in FreshBlocks}

\* From the buffer that is sent next, d comes round before e.
Sooner(next, d, e) == IF (d >= next) <=> (e >= next) THEN d < e ELSE d >= next

\* While tracking is off the interrupt passes the buffers over, and they lose their
\* order until the hardware reopens.
BuffersOrdered ==
    flag.tracking =>
        \A d, e \in FreshBuffers : Sooner(isr.next, d, e) => dma[d].pcm < dma[e].pcm
BlocksOrdered ==
    LET ready == queues.ready
    IN  /\ \A i, j \in DOMAIN ready :
              i < j /\ ready[i] \in FreshBlocks /\ ready[j] \in FreshBlocks =>
                  staged[ready[i]].pcm < staged[ready[j]].pcm
        /\ isr.block \in FreshBlocks =>
              \A b \in Elements(ready) \cap FreshBlocks : staged[isr.block].pcm < staged[b].pcm

InOrder ==
    /\ Rising(history.sent) /\ Rising(audio.got) /\ Rising(ring)
    /\ BuffersOrdered /\ BlocksOrdered
    /\ Line(Elements(history.sent), InDma, InBlocks, Elements(audio.got), Elements(ring),
            producer.chunk)

LEMMA Turn ==
    ASSUME NEW next \in Buffers, NEW d \in Buffers, NEW e \in Buffers
    PROVE  LET following == (next + 1) % Descriptors
           IN  /\ d # next /\ e # next => (Sooner(following, d, e) <=> Sooner(next, d, e))
               /\ ~Sooner(following, next, e)
               /\ e # next => Sooner(next, next, e)
  <1>1. Descriptors \in Nat \ {0} /\ next \in 0 .. Descriptors - 1 /\ d \in 0 .. Descriptors - 1
        /\ e \in 0 .. Descriptors - 1
    BY Values DEF Buffers
  <1>2. CASE next = Descriptors - 1
    <2>1. (next + 1) % Descriptors = 0
      BY <1>1, <1>2
    <2>2. QED
      BY <1>1, <1>2, <2>1 DEF Sooner
  <1>3. CASE next # Descriptors - 1
    <2>1. (next + 1) % Descriptors = next + 1
      BY <1>1, <1>3
    <2>2. QED
      BY <1>1, <1>3, <2>1 DEF Sooner
  <1>4. QED
    BY <1>2, <1>3

\* What the sets are made of.
LEMMA OrderTypes ==
    ASSUME Typed, Listed
    PROVE  /\ InDma \in SUBSET Nat /\ InBlocks \in SUBSET Nat
           /\ Elements(history.sent) \in SUBSET Nat /\ Elements(audio.got) \in SUBSET Nat
           /\ Elements(ring) \in SUBSET Nat /\ producer.chunk \in Nat
           /\ history.sent \in Seq(Nat) /\ audio.got \in Seq(Nat) /\ ring \in Seq(Nat)
  <1>1. Chunks \subseteq Nat /\ 0 \in Nat
    BY Values DEF Chunks
  <1>2. \A record \in Records : record.pcm \in Nat
    BY <1>1 DEF Records, Silence
  <1>3. /\ \A d \in Buffers : dma[d] \in Records
        /\ \A b \in Blocks : staged[b] \in Records
    BY DEF Typed
  <1>4. InDma \in SUBSET Nat /\ InBlocks \in SUBSET Nat
    BY <1>2, <1>3 DEF InDma, InBlocks, FreshBuffers, FreshBlocks
  <1>5. ring \in Seq(Chunks) /\ audio.got \in Seq(Chunks) /\ history.sent \in Seq(Nat)
    BY DEF Typed, Listed, Periods
  <1>6. ring \in Seq(Nat) /\ audio.got \in Seq(Nat)
    <2>1. ASSUME NEW s \in Seq(Chunks) PROVE s \in Seq(Nat)
      <3>1. Len(s) \in Nat /\ s \in [1 .. Len(s) -> Nat]
        BY <1>1, LenProperties
      <3>2. QED
        BY <3>1
    <2>2. QED
      BY <1>5, <2>1
  <1>7. ASSUME NEW s \in Seq(Nat) PROVE Elements(s) \in SUBSET Nat
    BY DEF Elements
  <1>8. producer.chunk \in Nat
    BY Values DEF Typed, Producers
  <1>9. QED
    BY <1>4, <1>5, <1>6, <1>7, <1>8

\* Nothing that the order is about has moved.
Settled ==
    /\ UNCHANGED <<queues.ready, staged, dma, isr.next, isr.block, play.generation, history.sent>>
    /\ flag'.tracking => flag.tracking

LEMMA SettledOrder ==
    ASSUME InOrder, Settled
    PROVE  /\ BuffersOrdered' /\ BlocksOrdered' /\ Rising(history'.sent)
           /\ InDma' = InDma /\ InBlocks' = InBlocks
           /\ UNCHANGED <<audio.got, ring, producer.chunk>> => InOrder'
  <1>1. FreshBuffers' = FreshBuffers /\ FreshBlocks' = FreshBlocks
    BY DEF Settled, FreshBuffers, FreshBlocks, Fresh
  <1>2. InDma' = InDma /\ InBlocks' = InBlocks
    BY <1>1 DEF Settled, InDma, InBlocks
  <1>3. BuffersOrdered' /\ BlocksOrdered'
    BY <1>1 DEF Settled, InOrder, BuffersOrdered, BlocksOrdered
  <1>4. QED
    BY <1>2, <1>3 DEF Settled, InOrder

\* The block queue, whatever leaves it at its head.
LEMMA HeadLeaves ==
    ASSUME Typed, Placed, InOrder, isr.block = 0, queues.ready # <<>>,
           queues'.ready = Tail(queues.ready), isr'.block \in {0, Head(queues.ready)},
           UNCHANGED <<staged, play.generation>>
    PROVE  BlocksOrdered' /\ InBlocks' \subseteq InBlocks
  <1> DEFINE ready == queues.ready
             rest == Tail(ready)
             head == Head(ready)
  <1>1. ready \in Seq(Blocks) /\ Once(ready)
    BY DEF Typed, Queues, Placed
  <1>2. /\ head \in Blocks /\ head \in Elements(ready) /\ Elements(rest) = Elements(ready) \ {head}
        /\ head # 0 /\ 0 \notin Blocks
    <2>1. head \in Blocks /\ head \in Elements(ready) /\ Elements(rest) = Elements(ready) \ {head}
      BY <1>1, TailOnce
    <2>2. 0 \notin Blocks
      BY DEF Blocks
    <2>3. QED
      BY <2>1, <2>2
  <1>3. /\ Len(ready) \in Nat /\ Len(ready) # 0 /\ DOMAIN ready = 1 .. Len(ready)
        /\ DOMAIN rest = 1 .. Len(ready) - 1 /\ head = ready[1]
        /\ \A i \in 1 .. Len(ready) - 1 : rest[i] = ready[i + 1]
    BY <1>1
  <1> HIDE DEF rest, head
  <1>4. \A i \in DOMAIN rest : i + 1 \in DOMAIN ready /\ 1 < i + 1 /\ rest[i] = ready[i + 1]
    BY <1>3
  <1>5. 1 \in DOMAIN ready /\ queues'.ready = rest /\ isr'.block \in {0, head}
    BY <1>3 DEF rest, head
  <1>6. FreshBlocks' \subseteq FreshBlocks
    BY <1>2, <1>5 DEF FreshBlocks, Fresh
  <1>7. InBlocks' \subseteq InBlocks
    BY <1>6 DEF InBlocks
  <1>8. \A i, j \in DOMAIN ready :
           i < j /\ ready[i] \in FreshBlocks /\ ready[j] \in FreshBlocks =>
              staged[ready[i]].pcm < staged[ready[j]].pcm
    BY DEF InOrder, BlocksOrdered
  <1>9. ASSUME NEW i \in DOMAIN rest, NEW j \in DOMAIN rest, i < j,
               rest[i] \in FreshBlocks, rest[j] \in FreshBlocks
        PROVE  staged[rest[i]].pcm < staged[rest[j]].pcm
    <2>1. i + 1 < j + 1
      BY <1>3, <1>9
    <2>2. QED
      BY <1>4, <1>8, <1>9, <2>1
  <1>10. ASSUME NEW b \in Elements(rest) \cap FreshBlocks, head \in FreshBlocks
         PROVE  staged[head].pcm < staged[b].pcm
    <2>1. PICK i \in DOMAIN rest : b = rest[i]
      BY <1>10 DEF Elements
    <2>2. QED
      BY <1>3, <1>4, <1>5, <1>8, <1>10, <2>1
  <1>11. 0 \notin FreshBlocks
    BY <1>2 DEF FreshBlocks
  <1>12. BlocksOrdered'
    BY <1>5, <1>6, <1>9, <1>10, <1>11 DEF BlocksOrdered
  <1>13. QED
    BY <1>7, <1>12

LEMMA BuffersSettled ==
    ASSUME BuffersOrdered, UNCHANGED <<dma, isr.next, play.generation>>, flag'.tracking => flag.tracking
    PROVE  BuffersOrdered' /\ InDma' = InDma
  <1>1. FreshBuffers' = FreshBuffers
    BY DEF FreshBuffers, Fresh
  <1>2. QED
    BY <1>1 DEF BuffersOrdered, InDma

LEMMA BlocksSettled ==
    ASSUME BlocksOrdered, UNCHANGED <<queues.ready, staged, isr.block, play.generation>>
    PROVE  BlocksOrdered' /\ InBlocks' = InBlocks
  <1>1. FreshBlocks' = FreshBlocks
    BY DEF FreshBlocks, Fresh
  <1>2. QED
    BY <1>1 DEF BlocksOrdered, InBlocks

\* The buffer that is sent comes before all others.
LEMMA BufferSent ==
    ASSUME Typed, BuffersOrdered, flag.tracking, Fresh(dma[isr.next]),
           dma' = [dma EXCEPT ![isr.next] = NoRecord],
           UNCHANGED <<isr.next, play.generation, flag>>
    PROVE  /\ BuffersOrdered' /\ InDma' \subseteq InDma
           /\ dma[isr.next].pcm \in InDma /\ Below({dma[isr.next].pcm}, InDma')
  <1>1. isr.next \in Buffers /\ dma \in [Buffers -> Records] /\ ~Real(NoRecord)
    BY DEF Typed, Interrupts, Real, NoRecord
  <1>2. FreshBuffers' = FreshBuffers \ {isr.next} /\ isr.next \in FreshBuffers
    BY <1>1 DEF FreshBuffers, Fresh
  <1>3. \A d \in FreshBuffers' : dma'[d] = dma[d] /\ d \in FreshBuffers /\ d # isr.next /\ d \in Buffers
    BY <1>1, <1>2 DEF FreshBuffers
  <1>4. BuffersOrdered'
    BY <1>3 DEF BuffersOrdered
  <1>5. InDma' \subseteq InDma /\ dma[isr.next].pcm \in InDma
    BY <1>2, <1>3 DEF InDma
  <1>6. ASSUME NEW d \in FreshBuffers' PROVE dma[isr.next].pcm < dma'[d].pcm
    <2>1. Sooner(isr.next, isr.next, d)
      BY <1>1, <1>3, <1>6, Turn
    <2>2. QED
      BY <1>2, <1>3, <1>6, <2>1 DEF BuffersOrdered
  <1>7. Below({dma[isr.next].pcm}, InDma')
    BY <1>6 DEF Below, InDma
  <1>8. QED
    BY <1>4, <1>5, <1>7

\* A buffer that is filled comes after all others; one that holds nothing of this
\* playback may be passed over.
LEMMA BufferFilled ==
    ASSUME Typed, BuffersOrdered, NEW record \in Records, ~Fresh(dma[isr.next]),
           dma' = [dma EXCEPT ![isr.next] = record],
           Fresh(record) => Below(InDma, {record.pcm}),
           isr'.next = (isr.next + 1) % Descriptors,
           UNCHANGED play.generation, flag'.tracking => flag.tracking
    PROVE  /\ BuffersOrdered'
           /\ InDma' = IF Fresh(record) THEN InDma \cup {record.pcm} ELSE InDma
  <1> DEFINE next == isr.next
  <1>1. next \in Buffers /\ dma \in [Buffers -> Records]
    BY DEF Typed, Interrupts
  <1>2. FreshBuffers' = IF Fresh(record) THEN FreshBuffers \cup {next} ELSE FreshBuffers
    BY <1>1 DEF FreshBuffers, Fresh
  <1>3. next \notin FreshBuffers /\ \A d \in FreshBuffers : dma'[d] = dma[d] /\ d # next /\ d \in Buffers
    BY <1>1 DEF FreshBuffers
  <1>4. dma'[next] = record
    BY <1>1
  <1>5. InDma' = IF Fresh(record) THEN InDma \cup {record.pcm} ELSE InDma
    <2>1. CASE Fresh(record)
      BY <1>2, <1>3, <1>4, <2>1 DEF InDma
    <2>2. CASE ~Fresh(record)
      BY <1>2, <1>3, <2>2 DEF InDma
    <2>3. QED
      BY <2>1, <2>2
  <1>6. ASSUME flag'.tracking, NEW d \in FreshBuffers', NEW e \in FreshBuffers',
               Sooner(isr'.next, d, e)
        PROVE  dma'[d].pcm < dma'[e].pcm
    <2>1. d \in Buffers /\ e \in Buffers
      BY <1>6 DEF FreshBuffers
    <2>2. d # next /\ d \in FreshBuffers
      BY <1>1, <1>2, <1>6, <2>1, Turn
    <2>3. CASE e = next
      <3>1. Fresh(record)
        BY <1>2, <1>3, <1>6, <2>3
      <3>2. dma[d].pcm \in InDma
        BY <2>2 DEF InDma
      <3>3. QED
        BY <1>3, <1>4, <2>2, <2>3, <3>1, <3>2 DEF Below
    <2>4. CASE e # next
      <3>1. e \in FreshBuffers
        BY <1>2, <1>6, <2>4
      <3>2. Sooner(next, d, e)
        BY <1>1, <1>6, <2>1, <2>2, <2>4, Turn
      <3>3. QED
        BY <1>3, <1>6, <2>2, <3>1, <3>2 DEF BuffersOrdered
    <2>5. QED
      BY <2>3, <2>4
  <1>7. BuffersOrdered'
    BY <1>6 DEF BuffersOrdered
  <1>8. QED
    BY <1>5, <1>7

\* The interrupt keeps the order: it sends the buffer that is due and fills it with
\* the block that is due.
LEMMA IsrOrder ==
    ASSUME Typed, Listed, Placed, Counted, InOrder, IsrStep
    PROVE  InOrder'
  <1> USE DEF Isr
  <1>0. /\ queues \in Queues /\ isr \in Interrupts /\ isr.next \in Buffers
        /\ (isr.block # 0 <=> isr.pc = "refill")
        /\ staged \in [Blocks -> Records] /\ dma \in [Buffers -> Records]
        /\ play \in [generation : Nat, pending : Int] /\ flag \in Flags
        /\ history \in [sent : Seq(Nat), credited : Seq(Nat), starts : Nat, closes : Nat]
    BY DEF Typed, Listed, Interrupts
  <1>1. UNCHANGED <<audio, ring, producer, staged>> /\ UNCHANGED <<play.generation, flag.tracking>>
    BY <1>0 DEF IsrStep, IsrSent, IsrEvent, IsrTake, IsrRefill, IsrUnchanged, Flags
  <1>2. /\ Rising(history.sent) /\ Rising(audio.got) /\ Rising(ring)
        /\ BuffersOrdered /\ BlocksOrdered
        /\ Line(Elements(history.sent), InDma, InBlocks, Elements(audio.got), Elements(ring),
                producer.chunk)
    BY DEF InOrder
  <1>3. /\ InDma \in SUBSET Nat /\ InBlocks \in SUBSET Nat /\ producer.chunk \in Nat
        /\ history.sent \in Seq(Nat) /\ Elements(history.sent) \in SUBSET Nat
    BY OrderTypes
  <1>4. /\ BufferDone.next = (isr.next + 1) % Descriptors /\ BufferDone.block = 0
        /\ BufferDone.pc = "idle" /\ BufferDone.record = isr.record
    <2> DEFINE next == (isr.next + 1) % Descriptors
    <2>1. BufferDone = [isr EXCEPT !.pc = "idle", !.next = next, !.block = 0, !.tries = 0]
      BY DEF BufferDone
    <2> HIDE DEF next
    <2>2. QED
      BY <1>0, <2>1 DEF Interrupts, next
  \* A buffer that is passed over holds nothing of this playback, or order is lost anyway.
  <1>5. ASSUME isr' = BufferDone, dma' = dma, ~flag.tracking \/ ~Fresh(dma[isr.next])
        PROVE  BuffersOrdered' /\ InDma' = InDma
    <2>1. CASE ~flag.tracking
      BY <1>1, <1>5, <2>1 DEF BuffersOrdered, InDma, FreshBuffers, Fresh
    <2>2. CASE ~Fresh(dma[isr.next])
      <3>1. dma' = [dma EXCEPT ![isr.next] = dma[isr.next]] /\ dma[isr.next] \in Records
        BY <1>0, <1>5
      <3>2. QED
        BY <1>1, <1>2, <1>4, <1>5, <2>2, <3>1, BufferFilled
    <2>3. QED
      BY <1>5, <2>1, <2>2
  <1>6. CASE IsrSent
    <2>1. queues' = queues /\ isr.block = 0 /\ isr'.block = 0 /\ UNCHANGED flag
      BY <1>0, <1>4, <1>6 DEF IsrSent, Interrupts
    <2>2. BlocksOrdered' /\ InBlocks' = InBlocks
      BY <1>1, <1>2, <2>1, BlocksSettled
    <2>3. CASE ~flag.tracking
      BY <1>1, <1>2, <1>5, <1>6, <2>2, <2>3 DEF IsrSent, InOrder
    <2>4. CASE flag.tracking /\ ~Fresh(dma[isr.next])
      <3>1. /\ dma' = [dma EXCEPT ![isr.next] = NoRecord] /\ isr'.next = isr.next
            /\ history' = history
        BY <1>0, <1>6, <2>4 DEF IsrSent, Fresh, Interrupts
      <3>2. FreshBuffers' = FreshBuffers /\ \A d \in FreshBuffers : dma'[d] = dma[d]
        BY <1>0, <1>1, <2>4, <3>1 DEF FreshBuffers, Fresh, Real, NoRecord
      <3>3. BuffersOrdered' /\ InDma' = InDma
        BY <1>1, <1>2, <3>1, <3>2 DEF BuffersOrdered, InDma
      <3>4. QED
        BY <1>1, <1>2, <2>2, <3>1, <3>3 DEF InOrder
    <2>5. CASE flag.tracking /\ Fresh(dma[isr.next])
      <3> DEFINE pcm == dma[isr.next].pcm
                 sent == Append(history.sent, pcm)
      <3>1. /\ dma' = [dma EXCEPT ![isr.next] = NoRecord] /\ isr'.next = isr.next
            /\ history' = [history EXCEPT !.sent = sent]
        BY <1>0, <1>6, <2>5 DEF IsrSent, Fresh, Interrupts
      <3>2. /\ BuffersOrdered' /\ InDma' \subseteq InDma
            /\ pcm \in InDma /\ Below({pcm}, InDma')
        BY <1>1, <1>2, <2>1, <2>5, <3>1, BufferSent
      <3>3. history'.sent = sent
        <4> HIDE DEF sent
        <4>1. QED
          BY <1>0, <3>1
      <3> HIDE DEF pcm
      <3>4. Rising(sent) /\ Elements(sent) = Elements(history.sent) \cup {pcm}
        <4>1. Below(Elements(history.sent), {pcm}) /\ pcm \in Nat
          BY <1>2, <1>3, <3>2 DEF Line, Below
        <4>2. QED
          BY <1>2, <1>3, <4>1, RisingAppend
      <3>5. Line(Elements(history.sent) \cup {pcm}, InDma', InBlocks, Elements(audio.got),
                 Elements(ring), producer.chunk)
        BY <1>2, <1>3, <3>2, LineMoves
      <3>6. QED
        BY <1>1, <1>2, <2>2, <3>2, <3>3, <3>4, <3>5 DEF InOrder
    <2>6. QED
      BY <2>3, <2>4, <2>5
  <1>7. CASE IsrEvent
    <2>1. UNCHANGED <<queues.ready, isr.next, isr.block, dma, history>>
      BY <1>0, <1>7 DEF IsrEvent, Queues, Interrupts
    <2>2. QED
      BY <1>1, <2>1, SettledOrder DEF Settled
  <1>8. CASE IsrTake
    <2>1. dma' = dma /\ history' = history /\ isr.block = 0
      BY <1>0, <1>8 DEF IsrTake
    <2>2. CASE isr' = BufferDone /\ queues' = queues
      <3>1. ~Fresh(dma[isr.next])
        BY <1>8 DEF Counted, IsrTake, Fresh
      <3>2. BuffersOrdered' /\ InDma' = InDma
        BY <1>5, <2>1, <2>2, <3>1
      <3>3. BlocksOrdered' /\ InBlocks' = InBlocks
        BY <1>1, <1>2, <1>4, <2>1, <2>2, BlocksSettled
      <3>4. QED
        BY <1>1, <1>2, <2>1, <3>2, <3>3 DEF InOrder
    <2>3. CASE /\ queues.ready # <<>>
               /\ isr' = [isr EXCEPT !.pc = "refill", !.block = Head(queues.ready), !.tries = @ + 1]
               /\ queues' = [queues EXCEPT !.ready = Tail(@)]
      <3>1. queues'.ready = Tail(queues.ready) /\ isr'.block = Head(queues.ready)
            /\ isr'.next = isr.next
        BY <1>0, <2>3 DEF Queues, Interrupts
      <3>2. BlocksOrdered' /\ InBlocks' \subseteq InBlocks
        BY <1>1, <2>1, <2>3, <3>1, HeadLeaves
      <3>3. BuffersOrdered' /\ InDma' = InDma
        BY <1>1, <1>2, <2>1, <3>1, BuffersSettled
      <3>4. Line(Elements(history.sent), InDma, InBlocks', Elements(audio.got), Elements(ring),
                 producer.chunk)
        BY <1>2, <1>3, <3>2, LineMoves
      <3>5. QED
        BY <1>1, <1>2, <2>1, <3>2, <3>3, <3>4 DEF InOrder
    <2>4. QED
      BY <1>8, <2>2, <2>3 DEF IsrTake
  <1>9. CASE IsrRefill
    <2> DEFINE block == isr.block
               record == staged[isr.block]
    <2>1. /\ block \in Blocks /\ record \in Records /\ queues'.ready = queues.ready /\ isr'.block = 0
          /\ history' = history /\ block \notin Elements(queues.ready)
      <3>1. isr.pc = "refill"
        BY <1>9 DEF IsrRefill
      <3>2. block \in Blocks
        BY <1>0, <3>1 DEF Interrupts, Blocks
      <3>3. queues'.ready = queues.ready
        BY <1>0, <1>9 DEF IsrRefill, Queues
      <3>4. isr'.block = 0
        BY <1>0, <1>4, <1>9 DEF IsrRefill, Interrupts
      <3>5. QED
        BY <1>0, <1>9, <3>2, <3>3, <3>4 DEF IsrRefill, Placed
    <2>2. FreshBlocks' = FreshBlocks \ {block}
      <3>1. 0 \notin Blocks
        BY DEF Blocks
      <3>2. QED
        BY <1>1, <2>1, <3>1 DEF FreshBlocks, Fresh
    <2>3. BlocksOrdered'
      <3>1. 0 \notin FreshBlocks'
        BY DEF FreshBlocks, Blocks
      <3>2. QED
        BY <1>1, <1>2, <2>1, <2>2, <3>1 DEF BlocksOrdered
    <2>4. InBlocks' \subseteq InBlocks
      BY <1>1, <2>2 DEF InBlocks
    <2>5. CASE Fresh(record)
      <3>1. record.generation = play.generation /\ block \in FreshBlocks /\ record.pcm \in InBlocks
        BY <2>1, <2>5 DEF Fresh, FreshBlocks, InBlocks
      <3>2. Below({record.pcm}, InBlocks')
        <4>1. ASSUME NEW b \in FreshBlocks' PROVE record.pcm < staged[b].pcm
          <5>1. b \in FreshBlocks /\ b # block /\ b \in Elements(queues.ready)
            BY <2>2, <4>1 DEF FreshBlocks
          <5>2. QED
            BY <1>2, <3>1, <5>1 DEF BlocksOrdered
        <4>2. QED
          BY <1>1, <4>1 DEF Below, InBlocks
      <3>3. isr' = BufferDone /\ dma' = [dma EXCEPT ![isr.next] = record]
        BY <1>9, <3>1 DEF IsrRefill, FilledDma
      <3>4. ~Fresh(dma[isr.next]) /\ Below(InDma, {record.pcm})
        BY <1>2, <1>9, <3>1 DEF Counted, IsrRefill, Fresh, Line, Below
      <3>5. BuffersOrdered' /\ InDma' = InDma \cup {record.pcm}
        BY <1>1, <1>2, <1>4, <2>1, <2>5, <3>3, <3>4, BufferFilled
      <3>6. Line(Elements(history.sent), InDma \cup {record.pcm}, InBlocks', Elements(audio.got),
                 Elements(ring), producer.chunk)
        <4> HIDE DEF record
        <4>1. QED
          BY <1>2, <1>3, <2>4, <3>1, <3>2, LineMoves
      <3>7. QED
        BY <1>1, <1>2, <2>1, <2>3, <3>5, <3>6 DEF InOrder
    <2>6. CASE ~Fresh(record)
      <3>1. BuffersOrdered' /\ InDma' = InDma
        <4>1. ~Fresh(dma[isr.next])
          BY <1>9 DEF Counted, IsrRefill, Fresh
        <4>2. CASE record.generation = play.generation
          <5>1. isr' = BufferDone /\ dma' = [dma EXCEPT ![isr.next] = record]
            BY <1>9, <4>2 DEF IsrRefill, FilledDma
          <5>2. QED
            BY <1>1, <1>2, <1>4, <2>1, <2>6, <4>1, <5>1, BufferFilled
        <4>3. CASE record.generation # play.generation
          <5>1. isr'.next = isr.next /\ dma' = dma
            BY <1>0, <1>9, <4>3 DEF IsrRefill, FilledDma, Interrupts
          <5>2. QED
            BY <1>1, <1>2, <5>1, BuffersSettled
        <4>4. QED
          BY <4>2, <4>3
      <3>2. Line(Elements(history.sent), InDma, InBlocks', Elements(audio.got), Elements(ring),
                 producer.chunk)
        BY <1>2, <1>3, <2>4, LineMoves
      <3>3. QED
        BY <1>1, <1>2, <2>1, <2>3, <3>1, <3>2 DEF InOrder
    <2>7. QED
      BY <2>5, <2>6
  <1>10. QED
    BY <1>6, <1>7, <1>8, <1>9 DEF IsrStep

\* A block that is staged comes after all blocks on their way.
LEMMA BlockStaged ==
    ASSUME Typed, Placed, BlocksOrdered, queues.free # <<>>, NEW record \in Records,
           Fresh(record) => Below(InBlocks, {record.pcm}),
           staged' = [staged EXCEPT ![Head(queues.free)] = record],
           queues'.ready = Append(queues.ready, Head(queues.free)),
           UNCHANGED <<play.generation, isr.block>>
    PROVE  /\ BlocksOrdered'
           /\ InBlocks' = IF Fresh(record) THEN InBlocks \cup {record.pcm} ELSE InBlocks
  <1> DEFINE ready == queues.ready
             block == Head(queues.free)
             more == Append(ready, block)
  <1>1. /\ ready \in Seq(Blocks) /\ Once(ready) /\ staged \in [Blocks -> Records]
        /\ queues.free \in Seq(Blocks) /\ Once(queues.free)
    BY DEF Typed, Queues, Placed
  <1>2. block \in Blocks /\ block \in Elements(queues.free)
    BY <1>1, TailOnce
  <1>3. block \notin Elements(ready) /\ block # isr.block
    BY <1>2 DEF Placed
  <1>4. /\ Len(ready) \in Nat /\ DOMAIN ready = 1 .. Len(ready) /\ DOMAIN more = 1 .. Len(ready) + 1
        /\ more[Len(ready) + 1] = block /\ \A i \in 1 .. Len(ready) : more[i] = ready[i]
    BY <1>1, <1>2
  <1>5. Elements(more) = Elements(ready) \cup {block}
    BY <1>1, <1>2, <1>3, AppendOnce
  <1> HIDE DEF more, block
  <1>6. staged'[block] = record /\ \A b \in Blocks : b # block => staged'[b] = staged[b]
    BY <1>1, <1>2 DEF block
  <1>7. queues'.ready = more
    BY DEF more, block
  <1>8. block \notin FreshBlocks
    BY <1>3 DEF FreshBlocks
  <1>9. FreshBlocks' = IF Fresh(record) THEN FreshBlocks \cup {block} ELSE FreshBlocks
    <2>1. ASSUME NEW b \in Blocks, b # block PROVE b \in FreshBlocks' <=> b \in FreshBlocks
      BY <1>5, <1>6, <1>7, <2>1 DEF FreshBlocks, Fresh
    <2>2. block \in FreshBlocks' <=> Fresh(record)
      BY <1>2, <1>5, <1>6, <1>7 DEF FreshBlocks, Fresh
    <2>3. FreshBlocks' \subseteq Blocks /\ FreshBlocks \subseteq Blocks
      BY DEF FreshBlocks
    <2>4. CASE Fresh(record)
      BY <1>2, <2>1, <2>2, <2>3, <2>4
    <2>5. CASE ~Fresh(record)
      <3>1. \A b \in Blocks : b \in FreshBlocks' <=> b \in FreshBlocks
        BY <1>8, <2>1, <2>2, <2>5
      <3>2. FreshBlocks' = FreshBlocks
        BY <2>3, <3>1
      <3>3. QED
        BY <2>5, <3>2
    <2>6. QED
      BY <2>4, <2>5
  <1>10. \A b \in FreshBlocks : staged'[b] = staged[b] /\ staged[b].pcm \in InBlocks /\ b # block
    BY <1>6, <1>8 DEF FreshBlocks, InBlocks
  <1>11. InBlocks' = IF Fresh(record) THEN InBlocks \cup {record.pcm} ELSE InBlocks
    <2>1. CASE Fresh(record)
      BY <1>6, <1>9, <1>10, <2>1 DEF InBlocks
    <2>2. CASE ~Fresh(record)
      BY <1>9, <1>10, <2>2 DEF InBlocks
    <2>3. QED
      BY <2>1, <2>2
  <1>12. ASSUME NEW b \in FreshBlocks, block \in FreshBlocks'
         PROVE  staged'[b].pcm < staged'[block].pcm
    <2>1. Fresh(record)
      BY <1>8, <1>9, <1>12
    <2>2. QED
      BY <1>6, <1>10, <2>1 DEF Below
  <1>13. ASSUME NEW i \in DOMAIN more, NEW j \in DOMAIN more, i < j, more[i] \in FreshBlocks',
                more[j] \in FreshBlocks'
         PROVE  staged'[more[i]].pcm < staged'[more[j]].pcm
    <2>1. i \in DOMAIN ready /\ more[i] = ready[i]
      BY <1>4, <1>13
    <2>2. more[i] # block /\ more[i] \in FreshBlocks
      BY <1>3, <1>9, <1>13, <2>1 DEF Elements
    <2>3. CASE j = Len(ready) + 1
      BY <1>4, <1>12, <1>13, <2>2, <2>3
    <2>4. CASE j \in DOMAIN ready
      <3>1. more[j] = ready[j] /\ more[j] # block
        BY <1>3, <1>4, <2>4 DEF Elements
      <3>2. more[j] \in FreshBlocks
        BY <1>9, <1>13, <3>1
      <3>3. QED
        BY <1>10, <1>13, <2>1, <2>2, <2>4, <3>1, <3>2 DEF BlocksOrdered
    <2>5. QED
      BY <1>4, <2>3, <2>4
  <1>14. ASSUME isr.block \in FreshBlocks', NEW b \in Elements(more) \cap FreshBlocks'
         PROVE  staged'[isr.block].pcm < staged'[b].pcm
    <2>1. isr.block \in FreshBlocks
      BY <1>3, <1>9, <1>14 DEF block
    <2>2. CASE b = block
      BY <1>12, <1>14, <2>1, <2>2
    <2>3. CASE b # block
      BY <1>5, <1>9, <1>10, <1>14, <2>1, <2>3 DEF BlocksOrdered
    <2>4. QED
      BY <2>2, <2>3
  <1>15. BlocksOrdered'
    BY <1>7, <1>13, <1>14 DEF BlocksOrdered
  <1>16. QED
    BY <1>11, <1>15

\* The audio task keeps the order.
LEMMA AudioOrder ==
    ASSUME Typed, Listed, Placed, Dated, Tidy, InOrder, AudioStep
    PROVE  InOrder'
  <1> USE DEF At, Goto, Isr
  <1>0. /\ queues \in Queues /\ queues.free \in Seq(Blocks) /\ queues.ready \in Seq(Blocks)
        /\ isr \in Interrupts /\ (isr.block # 0 <=> isr.pc = "refill")
        /\ audio \in Periods /\ staged \in [Blocks -> Records] /\ dma \in [Buffers -> Records]
        /\ play \in [generation : Nat, pending : Int] /\ flag \in Flags
        /\ history \in [sent : Seq(Nat), credited : Seq(Nat), starts : Nat, closes : Nat]
    BY DEF Typed, Listed, Queues
  <1>1. /\ Rising(history.sent) /\ Rising(audio.got) /\ Rising(ring)
        /\ BuffersOrdered /\ BlocksOrdered
        /\ Line(Elements(history.sent), InDma, InBlocks, Elements(audio.got), Elements(ring),
                producer.chunk)
    BY DEF InOrder
  <1>2. /\ InDma \in SUBSET Nat /\ InBlocks \in SUBSET Nat /\ producer.chunk \in Nat
        /\ history.sent \in Seq(Nat) /\ audio.got \in Seq(Nat) /\ ring \in Seq(Nat)
    BY OrderTypes
  <1>3. UNCHANGED <<isr, producer>>
    BY DEF AudioStep, SessionEnds, Period, ResetRing, ResetReady, ResetGeneration, ResetDone, Read,
           SessionFault, PeriodEnds, Block, Admit, Rejected, Close, FailureEnds, AudioUnchanged
  <1> DEFINE none == <<>>
  <1>4. Rising(none) /\ Elements(none) = {}
    BY DEF Rising, Elements
  <1> HIDE DEF none
  <1>5. CASE \/ SessionEnds \/ PeriodEnds \/ ResetDone \/ Period \/ Block \/ SessionFault \/ FailureEnds
    <2>1. UNCHANGED <<ring, staged, dma, play>>
      BY <1>5 DEF SessionEnds, PeriodEnds, ResetDone, Period, Block, SessionFault, FailureEnds
    <2>2. audio'.got = audio.got
      BY <1>0, <1>5 DEF SessionEnds, PeriodEnds, ResetDone, Period, Block, SessionFault, FailureEnds,
                        Periods
    <2>3. queues'.ready = queues.ready
      <3>1. CASE Period \/ Block
        BY <3>1, DrainTyping DEF Period, Block
      <3>2. CASE SessionEnds \/ PeriodEnds \/ ResetDone \/ SessionFault \/ FailureEnds
        BY <1>0, <3>2 DEF SessionEnds, PeriodEnds, ResetDone, SessionFault, FailureEnds, Queues
      <3>3. QED
        BY <1>5, <3>1, <3>2
    <2>4. history'.sent = history.sent
      BY <1>0, <1>5 DEF SessionEnds, PeriodEnds, ResetDone, Period, Block, SessionFault, FailureEnds,
                        Drain
    <2>5. flag'.tracking => flag.tracking
      BY <1>0, <1>5 DEF SessionEnds, PeriodEnds, ResetDone, Period, Block, SessionFault, FailureEnds,
                        Drain, TrackingFailed, Flags
    <2>6. QED
      BY <1>3, <2>1, <2>2, <2>3, <2>4, <2>5, SettledOrder DEF Settled
  <1>6. CASE ResetRing \/ Rejected
    <2>1. UNCHANGED <<queues, staged, dma, play, history>> /\ (flag'.tracking => flag.tracking)
      BY <1>0, <1>6 DEF ResetRing, Rejected, TrackingFailed, Flags
    <2>2. /\ BuffersOrdered' /\ BlocksOrdered' /\ Rising(history'.sent)
          /\ InDma' = InDma /\ InBlocks' = InBlocks
      BY <1>3, <2>1, SettledOrder DEF Settled
    <2>3. ring' \in {ring, none} /\ audio'.got \in {audio.got, none}
      <3>1. CASE ResetRing
        BY <1>0, <3>1 DEF ResetRing, Periods, none
      <3>2. CASE Rejected
        <4>1. audio' = [audio EXCEPT !.pc = "session", !.got = none, !.left = 0]
          BY <3>2 DEF Rejected, none
        <4>2. QED
          BY <1>0, <3>2, <4>1 DEF Rejected, Periods
      <3>3. QED
        BY <1>6, <3>1, <3>2
    <2>4. Rising(ring') /\ Rising(audio'.got) /\ Elements(ring') \subseteq Elements(ring)
          /\ Elements(audio'.got) \subseteq Elements(audio.got)
      BY <1>1, <1>4, <2>3
    <2>5. Line(Elements(history.sent), InDma, InBlocks, Elements(audio'.got), Elements(ring'),
               producer.chunk)
      BY <1>1, <1>2, <2>4, LineMoves
    <2>6. QED
      BY <1>3, <2>1, <2>2, <2>4, <2>5 DEF InOrder
  <1>7. CASE ResetReady
    <2>1. /\ queues.ready # <<>> /\ queues'.ready = Tail(queues.ready)
          /\ UNCHANGED <<ring, flag, staged, dma, audio, history, play.generation>>
      BY <1>0, <1>7 DEF ResetReady, Queues
    <2>2. BuffersOrdered' /\ InDma' = InDma
      BY <1>1, <1>3, <2>1, BuffersSettled
    <2>3. BlocksOrdered' /\ InBlocks' \subseteq InBlocks
      <3>1. CASE isr.block = 0
        BY <1>3, <2>1, <3>1, HeadLeaves
      <3>2. CASE isr.block # 0
        <4> DEFINE rest == Tail(queues.ready)
        <4>1. /\ Elements(rest) \subseteq Elements(queues.ready)
          BY <1>0, <2>1, TailOnce DEF Placed
        <4>2. /\ Len(queues.ready) \in Nat /\ DOMAIN queues.ready = 1 .. Len(queues.ready)
              /\ DOMAIN rest = 1 .. Len(queues.ready) - 1
              /\ \A i \in 1 .. Len(queues.ready) - 1 : rest[i] = queues.ready[i + 1]
          BY <1>0, <2>1
        <4>3. queues'.ready = rest
          BY <2>1
        <4> HIDE DEF rest
        <4>4. FreshBlocks' \subseteq FreshBlocks
          BY <1>3, <2>1, <4>1, <4>3 DEF FreshBlocks, Fresh
        <4>5. InBlocks' \subseteq InBlocks
          BY <2>1, <4>4 DEF InBlocks
        <4>6. ASSUME NEW i \in DOMAIN rest, NEW j \in DOMAIN rest, i < j,
                     rest[i] \in FreshBlocks, rest[j] \in FreshBlocks
              PROVE  staged[rest[i]].pcm < staged[rest[j]].pcm
          <5>1. /\ i + 1 \in DOMAIN queues.ready /\ j + 1 \in DOMAIN queues.ready /\ i + 1 < j + 1
                /\ rest[i] = queues.ready[i + 1] /\ rest[j] = queues.ready[j + 1]
            BY <4>2, <4>6
          <5>2. QED
            BY <1>1, <4>6, <5>1 DEF BlocksOrdered
        <4>7. ASSUME isr.block \in FreshBlocks, NEW b \in Elements(rest) \cap FreshBlocks
              PROVE  staged[isr.block].pcm < staged[b].pcm
          BY <1>1, <4>1, <4>7 DEF BlocksOrdered
        <4>8. BlocksOrdered'
          BY <1>3, <2>1, <4>3, <4>4, <4>6, <4>7 DEF BlocksOrdered
        <4>9. QED
          BY <4>5, <4>8
      <3>3. QED
        BY <3>1, <3>2
    <2>4. Line(Elements(history.sent), InDma, InBlocks', Elements(audio.got), Elements(ring),
               producer.chunk)
      BY <1>1, <1>2, <2>3, LineMoves
    <2>5. QED
      BY <1>1, <1>3, <2>1, <2>2, <2>3, <2>4 DEF InOrder
  <1>8. CASE ResetGeneration \/ Close
    <2>1. play'.generation = play.generation + 1 /\ history'.sent = none
      <3>1. CASE ResetGeneration
        <4>1. history' = [history EXCEPT !.sent = none, !.credited = none]
          BY <3>1 DEF ResetGeneration, none
        <4>2. QED
          BY <1>0, <3>1, <4>1 DEF ResetGeneration
      <3>2. CASE Close
        <4> DEFINE closes == history.closes + 1
        <4>1. history' = [history EXCEPT !.sent = none, !.credited = none, !.closes = closes]
          BY <3>2 DEF Close, none
        <4> HIDE DEF closes
        <4>2. QED
          BY <1>0, <3>2, <4>1 DEF Close, ResetPlay
      <3>3. QED
        BY <1>8, <3>1, <3>2
    <2>2. /\ audio'.got = audio.got /\ audio.got = <<>> /\ staged' = staged
          /\ audio.pc # "reset_done"
      BY <1>0, <1>8 DEF ResetGeneration, Close, Periods, Tidy
    <2>3. ring' \in {ring, none}
      BY <1>8 DEF ResetGeneration, Close, none
    <2>4. ASSUME NEW record \in Records, record.generation <= play.generation
          PROVE  record.generation # play'.generation
      BY <1>0, <2>1, <2>4 DEF Records
    <2>5. NoRecord.generation = 0 /\ Real(NoRecord) = FALSE
      BY DEF NoRecord, Real
    <2>6. InDma' = {} /\ FreshBuffers' = {}
      <3>1. \A d \in Buffers : ~Real(dma'[d]) \/ dma'[d] = dma[d]
        BY <1>8, <2>5 DEF ResetGeneration, Close
      <3>2. \A d \in Buffers : dma[d].generation # play'.generation
        BY <1>0, <2>2, <2>4 DEF Dated, Limit
      <3>3. FreshBuffers' = {}
        BY <3>1, <3>2 DEF FreshBuffers, Fresh
      <3>4. QED
        BY <3>3 DEF InDma
    <2>7. InBlocks' = {} /\ FreshBlocks' = {}
      <3>1. \A b \in Blocks : staged[b].generation # play'.generation
        BY <1>0, <2>2, <2>4 DEF Dated, Limit
      <3>2. FreshBlocks' = {}
        BY <2>2, <3>1 DEF FreshBlocks, Fresh
      <3>3. QED
        BY <3>2 DEF InBlocks
    <2>8. BuffersOrdered' /\ BlocksOrdered'
      BY <2>6, <2>7 DEF BuffersOrdered, BlocksOrdered
    <2>9. Rising(ring') /\ Elements(ring') \subseteq Elements(ring)
      BY <1>1, <1>4, <2>3
    <2>10. Line({}, {}, {}, Elements(audio.got), Elements(ring'), producer.chunk)
      BY <1>1, <1>2, <2>9, LineMoves
    <2>11. QED
      BY <1>1, <1>3, <1>4, <2>1, <2>2, <2>6, <2>7, <2>8, <2>9, <2>10 DEF InOrder
  <1>9. CASE Read
    <2>1. PICK count \in 0 .. Len(ring) :
             /\ ring' = SubSeq(ring, count + 1, Len(ring))
             /\ audio' = [pc |-> "block", speaker |-> FALSE, got |-> SubSeq(ring, 1, count),
                          left |-> Quantum]
      BY <1>9, ReadSplits
    <2> DEFINE front == SubSeq(ring, 1, count)
               back == SubSeq(ring, count + 1, Len(ring))
    <2>2. /\ Rising(front) /\ Rising(back)
          /\ Elements(front) \cup Elements(back) \subseteq Elements(ring)
          /\ Below(Elements(front), Elements(back))
      BY <1>1, <1>2, RisingSplit
    <2>3. audio'.got = front /\ ring' = back
      BY <2>1
    <2> HIDE DEF front, back
    <2>4. UNCHANGED <<flag, queues, staged, dma, play, history>>
      BY <1>9 DEF Read
    <2>5. /\ BuffersOrdered' /\ BlocksOrdered' /\ Rising(history'.sent)
          /\ InDma' = InDma /\ InBlocks' = InBlocks
      BY <1>3, <2>4, SettledOrder DEF Settled
    <2>6. Line(Elements(history.sent), InDma, InBlocks, Elements(front), Elements(back),
               producer.chunk)
      <3>1. /\ Elements(front) \in SUBSET Elements(ring)
            /\ Elements(back) \in SUBSET Elements(ring)
        BY <2>2
      <3>2. QED
        BY <1>1, <2>2, <3>1 DEF Line, Below
    <2>7. QED
      BY <1>3, <2>2, <2>3, <2>4, <2>5, <2>6 DEF InOrder
  <1>10. CASE Admit
    <2> DEFINE pcm == IF audio.got = <<>> THEN Silence ELSE Head(audio.got)
               got == IF audio.got = <<>> THEN <<>> ELSE Tail(audio.got)
               left == audio.left - 1
               record == [pcm |-> pcm, generation |-> play.generation]
    <2>1. /\ queues.free # <<>> /\ queues'.ready = Append(queues.ready, Head(queues.free))
          /\ staged' = [staged EXCEPT ![Head(queues.free)] = record]
          /\ UNCHANGED <<ring, flag, dma, history, play.generation>>
      BY <1>0, <1>10, AudioMoves DEF Admit
    <2>2. audio' = [audio EXCEPT !.pc = "block", !.left = left, !.got = got]
      BY <1>10 DEF Admit
    <2>3. record \in Records
      <3>1. pcm \in Chunks \cup {Silence}
        <4>1. CASE audio.got = <<>>
          BY <4>1
        <4>2. CASE audio.got # <<>>
          <5>1. audio.got \in Seq(Chunks)
            BY <1>0 DEF Periods
          <5>2. Head(audio.got) \in Chunks
            BY <4>2, <5>1
          <5>3. QED
            BY <4>2, <5>2
        <4>3. QED
          BY <4>1, <4>2
      <3>2. play.generation \in Nat
        BY <1>0
      <3> HIDE DEF pcm
      <3>3. QED
        BY <3>1, <3>2 DEF Records
    <2>4. CASE audio.got = <<>>
      <3>1. ~Fresh(record) /\ got = audio.got
        BY <2>4 DEF Fresh, Real
      <3> HIDE DEF got, left, pcm, record
      <3>2. BlocksOrdered' /\ InBlocks' = InBlocks
        BY <1>1, <1>3, <2>1, <2>3, <3>1, BlockStaged
      <3>3. BuffersOrdered' /\ InDma' = InDma
        BY <1>1, <1>3, <2>1, BuffersSettled
      <3>4. audio'.got = audio.got
        BY <1>0, <2>2, <3>1 DEF Periods
      <3>5. QED
        BY <1>1, <1>3, <2>1, <3>2, <3>3, <3>4 DEF InOrder
    <2>5. CASE audio.got # <<>>
      <3>1. pcm = Head(audio.got) /\ got = Tail(audio.got)
        BY <2>5
      <3>2. /\ Rising(got) /\ pcm \in Elements(audio.got) /\ Elements(got) \subseteq Elements(audio.got)
            /\ Below({pcm}, Elements(got))
        BY <1>1, <1>2, <2>5, <3>1, RisingTail
      <3>3. record.pcm = pcm
        OBVIOUS
      <3>4. Fresh(record)
        <4>1. pcm \in Chunks
          <5>1. audio.got \in Seq(Chunks)
            BY <1>0 DEF Periods
          <5>2. QED
            BY <2>5, <3>1, <5>1
        <4>2. pcm # Silence
          BY <4>1 DEF Chunks, Silence
        <4> HIDE DEF pcm
        <4>3. QED
          BY <4>2 DEF Fresh, Real
      <3> HIDE DEF got, left, pcm, record
      <3>5. Below(InBlocks, {pcm})
        BY <1>1, <3>2 DEF Line, Below
      <3>6. BlocksOrdered' /\ InBlocks' = InBlocks \cup {pcm}
        BY <1>1, <1>3, <2>1, <2>3, <3>3, <3>4, <3>5, BlockStaged
      <3>7. BuffersOrdered' /\ InDma' = InDma
        BY <1>1, <1>3, <2>1, BuffersSettled
      <3>8. audio'.got = got
        BY <1>0, <2>2 DEF Periods
      <3>9. Line(Elements(history.sent), InDma, InBlocks \cup {pcm}, Elements(got), Elements(ring),
                 producer.chunk)
        BY <1>1, <1>2, <3>2, LineMoves
      <3>10. QED
        BY <1>1, <1>3, <2>1, <3>2, <3>6, <3>7, <3>8, <3>9 DEF InOrder
    <2>6. QED
      BY <2>4, <2>5
  <1>11. QED
    BY <1>5, <1>6, <1>7, <1>8, <1>9, <1>10 DEF AudioStep

\* Main touches none of it, but opens tracking when no buffer holds PCM; the producer
\* appends the chunk it offers and goes on to the next.
LEMMA OutsideOrder ==
    ASSUME Typed, Listed, Tidy, InOrder, MainStep \/ Commit \/ FailedSeen \/ Calls \/ ProducerStep
    PROVE  InOrder'
  <1>0. /\ audio \in Periods /\ producer \in Producers /\ ring \in Seq(Nat) /\ producer.chunk \in Nat
        /\ history \in [sent : Seq(Nat), credited : Seq(Nat), starts : Nat, closes : Nat]
    BY OrderTypes DEF Typed, Listed
  <1>1. /\ UNCHANGED <<queues, staged, dma, play, isr>>
        /\ \/ audio' = audio /\ (flag'.tracking => flag.tracking)
           \/ audio.pc = "closed" /\ audio' = [audio EXCEPT !.pc = "session"]
    BY Outside
  <1>2. audio'.got = audio.got
    BY <1>0, <1>1 DEF Periods
  <1>3. history'.sent = history.sent
    BY <1>0 DEF MainStep, Calls, StackStart, StackStop, StackStopNothing, StackPark, Commit,
                FailedSeen, FacadeUnchanged, MainUnchanged, Start, StartStream, StopStream, Finish,
                Pause, LoopFailed, LoopUnlistened, LoopStarting, LoopIsRunning, LoopRing,
                LoopPending, LoopStopping, StopSpeakerReset, ProducerStep, PlayRecovers,
                PlayStarts, PlayAdmitted, Admission, Write, WriteTimeout, ProducerUnchanged
  <1>4. BuffersOrdered' /\ BlocksOrdered' /\ InDma' = InDma /\ InBlocks' = InBlocks
    <2>1. BlocksOrdered' /\ InBlocks' = InBlocks
      BY <1>1, BlocksSettled DEF InOrder
    <2>2. CASE flag'.tracking => flag.tracking
      BY <1>1, <2>1, <2>2, BuffersSettled DEF InOrder
    <2>3. CASE audio.pc = "closed"
      <3>1. FreshBuffers = {} /\ FreshBuffers' = {}
        BY <1>1, <2>3 DEF Tidy, Playing, FreshBuffers, Fresh
      <3>2. QED
        BY <2>1, <3>1 DEF BuffersOrdered, InDma
    <2>4. QED
      BY <1>1, <2>2, <2>3
  <1>5. CASE Write
    <2> DEFINE chunk == producer.chunk
               more == Append(ring, chunk)
    <2>1. ring' = more /\ producer'.chunk = chunk + 1
      BY <1>5 DEF Write
    <2>2. Below(Elements(ring), {chunk})
      BY DEF InOrder, Line
    <2>3. Rising(more) /\ Elements(more) = Elements(ring) \cup {chunk}
      BY <1>0, <2>2, RisingAppend DEF InOrder
    <2> HIDE DEF chunk, more
    <2>4. Line(Elements(history.sent), InDma, InBlocks, Elements(audio.got),
               Elements(ring) \cup {chunk}, chunk + 1)
      BY OrderTypes, LineGrows DEF InOrder, chunk
    <2>5. QED
      BY <1>2, <1>3, <1>4, <2>1, <2>3, <2>4 DEF InOrder
  <1>6. CASE UNCHANGED <<ring, producer.chunk>>
    BY <1>2, <1>3, <1>4, <1>6 DEF InOrder
  <1>7. QED
    <2>1. Write \/ UNCHANGED <<ring, producer.chunk>>
      BY <1>0 DEF MainStep, Calls, StackStart, StackStop, StackStopNothing, StackPark, Commit,
                  FailedSeen, FacadeUnchanged, MainUnchanged, Start, StartStream, StopStream, Finish,
                  Pause, LoopFailed, LoopUnlistened, LoopStarting, LoopIsRunning, LoopRing,
                  LoopPending, LoopStopping, StopSpeakerReset, ProducerStep, PlayRecovers,
                  PlayStarts, PlayAdmitted, Admission, WriteTimeout, ProducerUnchanged, Producers
    <2>2. QED
      BY <1>5, <1>6, <2>1

LEMMA InOrderAlways == Spec => []InOrder
  <1>1. ASSUME Init PROVE InOrder
    <2>1. /\ history.sent = <<>> /\ audio.got = <<>> /\ ring = <<>>
          /\ \A d \in Buffers : dma[d] = NoRecord
          /\ \A b \in Blocks : staged[b] = NoRecord
      BY <1>1 DEF Init
    <2>2. FreshBuffers = {} /\ FreshBlocks = {}
      BY <2>1 DEF FreshBuffers, FreshBlocks, Fresh, Real, NoRecord
    <2>3. InDma = {} /\ InBlocks = {} /\ BuffersOrdered /\ BlocksOrdered
      BY <2>2 DEF InDma, InBlocks, BuffersOrdered, BlocksOrdered
    <2>4. Rising(<<>>) /\ Elements(<<>>) = {}
      BY DEF Rising, Elements
    <2>5. Line({}, {}, {}, {}, {}, producer.chunk)
      BY DEF Line, Below
    <2>6. QED
      BY <2>1, <2>3, <2>4, <2>5 DEF InOrder
  <1>2. ASSUME Typed, Account, Placed, Counted, Tidy, InOrder, [Next]_vars PROVE InOrder'
    <2>1. Listed /\ Dated
      BY <1>2 DEF Account
    <2>2. CASE UNCHANGED vars
      <3>1. Settled /\ UNCHANGED <<audio.got, ring, producer.chunk>>
        BY <2>2 DEF vars, Settled
      <3>2. QED
        BY <1>2, <3>1, SettledOrder
    <2>3. QED
      BY <1>2, <2>1, <2>2, IsrOrder, AudioOrder, OutsideOrder DEF Next
  <1>3. QED
    BY <1>1, <1>2, TypedAlways, AccountAlways, PlacedAlways, CountedAlways, TidyAlways, PTL DEF Spec

\* Within a playback the chunks leave in the order they were offered in, each at most
\* once, for every number of blocks and buffers and every length of the ring.
THEOREM PlaysInOrder == Spec => []PlayedInOrder
  <1>1. ASSUME InOrder PROVE PlayedInOrder
    BY <1>1 DEF InOrder, Rising, PlayedInOrder
  <1>2. QED
    BY <1>1, InOrderAlways, PTL
=============================================================================
