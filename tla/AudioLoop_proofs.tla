-------------------------- MODULE AudioLoop_proofs --------------------------
(***************************************************************************)
(* Theorems about AudioLoop for every size of the buffer and of the DMA.   *)
(***************************************************************************)
EXTENDS AudioLoop, TLAPS

LEMMA CapacityNat == DmaCapacity \in Nat
  BY DmaWhole, DescsPositive DEF DmaCapacity

\* The channel arithmetic: it only matters modulo 2.
LEMMA Mod2 ==
  ASSUME NEW n \in Nat
  PROVE  n % 2 \in 0..1 /\ (n + 1) % 2 = ((n % 2) + 1) % 2
  OBVIOUS

LEMMA TypeStep == ASSUME TypeOK, [Next]_vars PROVE TypeOK'
<1> USE BufPositive, DmaWhole, CapacityNat DEF TypeOK, bus, rx, tx
<1>1. CASE Capture BY <1>1 DEF Capture
<1>2. CASE Play BY <1>2 DEF Play
<1>3. CASE ReadWord BY <1>3 DEF ReadWord
<1>4. CASE ReadDone BY <1>4 DEF ReadDone
<1>5. CASE ReadFails BY <1>5 DEF ReadFails
<1>6. CASE WriteWord BY <1>6 DEF WriteWord
<1>7. CASE WriteDone BY <1>7 DEF WriteDone
<1>8. CASE WriteFails BY <1>8 DEF WriteFails
<1>9. CASE Delay BY <1>9 DEF Delay
<1>10. CASE UNCHANGED vars BY <1>10 DEF vars
<1>. QED
  BY <1>1, <1>2, <1>3, <1>4, <1>5, <1>6, <1>7, <1>8, <1>9, <1>10 DEF Next, Loop

\* No transfer ever leaves the buffer or a DMA queue.
THEOREM AudioTypeCorrect == Spec => []TypeOK
<1>1. Init => TypeOK
  BY BufPositive, CapacityNat DEF Init, TypeOK
<1>. QED BY <1>1, TypeStep, PTL DEF Spec

\* With two working buses the reader and the writer stay in step: between
\* buffers they are at the same channel, within one each is as many words past
\* its first as were moved.
InStep ==
  /\ pc = "write" => got = BufWords
  /\ got > 0 => micReady /\ rxNext = (first + got) % 2
  /\ micReady /\ spkReady =>
       /\ pc = "delay" \/ (pc = "read" /\ got = 0) => rxNext = txNext
       /\ pc = "read" /\ got > 0 => first = txNext
       /\ pc = "write" => (first + put) % 2 = txNext
  /\ pc = "delay" => got = 0

\* A transfer that times out moves whole frames, or leaves whole frames behind.
EvenReads  == ReadFails => got % 2 = 0
EvenWrites == WriteFails /\ spkReady => (BufWords - put) % 2 = 0
WholeFrames == [][EvenReads /\ EvenWrites]_vars

LEMMA Even ==
  ASSUME NEW a \in 0..1, NEW m \in Nat, NEW n \in 0..m, (m - n) % 2 = 0
  PROVE  (a + m) % 2 = (a + n) % 2
  OBVIOUS

LEMMA InStepStep ==
  ASSUME TypeOK, InStep, [Next]_vars, [EvenReads /\ EvenWrites]_vars
  PROVE  InStep'
<1> USE BufPositive, Mod2 DEF TypeOK, InStep, bus, rx, tx
<1>1. CASE Capture BY <1>1 DEF Capture
<1>2. CASE Play BY <1>2 DEF Play
<1>3. CASE ReadWord BY <1>3 DEF ReadWord
<1>4. CASE ReadDone BY <1>4 DEF ReadDone
<1>5. CASE ReadFails
  <2>1. got % 2 = 0
    BY <1>5 DEF ReadFails, EvenReads, vars
  <2>2. got > 0 => rxNext = first
    BY <2>1
  <2>. QED BY <1>5, <2>2 DEF ReadFails
<1>6. CASE WriteWord BY <1>6 DEF WriteWord
<1>7. CASE WriteDone BY <1>7 DEF WriteDone
<1>8. CASE WriteFails
  <2>1. pc = "write" /\ got = BufWords /\ got > 0 /\ put \in 0..BufWords
    BY <1>8 DEF WriteFails
  <2>2. spkReady => (BufWords - put) % 2 = 0
    BY <1>8 DEF WriteFails, EvenWrites, vars
  <2>3. micReady /\ spkReady => rxNext = txNext
    BY <2>1, <2>2, Even
  <2>. QED BY <1>8, <2>3 DEF WriteFails
<1>9. CASE Delay BY <1>9 DEF Delay
<1>10. CASE UNCHANGED vars BY <1>10 DEF vars
<1>. QED
  BY <1>1, <1>2, <1>3, <1>4, <1>5, <1>6, <1>7, <1>8, <1>9, <1>10 DEF Next, Loop

\* Whatever times out, every word is played on the channel it was captured on as long
\* as no read that fails has taken half a frame, and no write that fails leaves half a
\* frame of its buffer behind: nothing else can swap left and right.
THEOREM OnlyHalvesSwap == Spec /\ WholeFrames => []OutAsIn
<1>1. Init => InStep
  BY BufPositive DEF Init, InStep
<1>2. TypeOK /\ InStep => OutAsIn
  BY DEF TypeOK, InStep, OutAsIn
<1>3. TypeOK /\ InStep /\ [Next]_vars /\ [EvenReads /\ EvenWrites]_vars => InStep'
  BY InStepStep
<1>. QED BY <1>1, <1>2, <1>3, AudioTypeCorrect, PTL DEF Spec, WholeFrames

\* As long as no transfer times out, every word is played on the channel it was
\* captured on, whatever the size of the buffer: without a bus nothing is moved.
THEOREM SoundOutAsIn == ASSUME Timeouts = FALSE PROVE Spec => []OutAsIn
<1> DEFINE Moved == got > 0 => micReady
<1>1. Init => Moved
  BY DEF Init
<1>2. TypeOK /\ Moved /\ [Next]_vars => Moved'
  <2> USE BufPositive DEF TypeOK, bus, rx, tx
  <2>1. CASE Capture BY <2>1 DEF Capture
  <2>2. CASE Play BY <2>2 DEF Play
  <2>3. CASE ReadWord BY <2>3 DEF ReadWord
  <2>4. CASE Loop /\ ~ReadWord
    BY <2>4 DEF Loop, ReadDone, ReadFails, WriteWord, WriteDone, WriteFails, Delay
  <2>5. CASE UNCHANGED vars BY <2>5 DEF vars
  <2>. QED BY <2>1, <2>2, <2>3, <2>4, <2>5 DEF Next
<1>3. TypeOK /\ Moved => EvenReads /\ EvenWrites
  BY DEF TypeOK, EvenReads, EvenWrites, ReadFails, WriteFails
<1> HIDE DEF Moved
<1>4. TypeOK /\ Moved => [EvenReads /\ EvenWrites]_vars
  BY <1>3
<1>. QED
  BY <1>1, <1>2, <1>4, AudioTypeCorrect, OnlyHalvesSwap, PTL DEF Spec, WholeFrames

=============================================================================
