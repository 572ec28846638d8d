----------------------------- MODULE AudioLoop -----------------------------
(***************************************************************************)
(* audio_loop_task: samples go from the microphone to the speaker through  *)
(* one buffer.  Both I2S buses carry stereo frames, a left word and then a *)
(* right one, while the buffer of BUF_SIZE bytes holds an odd number of    *)
(* words, so that every other buffer begins in the middle of a frame.      *)
(* Words are not told apart but by their channel, 0 for left and 1 for     *)
(* right.  The DMA of the two buses and i2s_channel_read and _write, which *)
(* move what they can and give up after a time, are external.              *)
(***************************************************************************)
EXTENDS Naturals

CONSTANTS
  BufWords,    \* BUF_SIZE / 4: 1023 in the code
  DmaWords,    \* words of one DMA descriptor: two per frame of dma_frame_num
  DmaDescs,    \* descriptors of each bus
  Timeouts     \* a transfer may run into its 1000 ms

ASSUME BufPositive == BufWords \in Nat \ {0}
ASSUME DmaWhole == DmaWords \in Nat \ {0} /\ DmaWords % 2 = 0
ASSUME DescsPositive == DmaDescs \in Nat \ {0}
ASSUME TimeoutsBoolean == Timeouts \in BOOLEAN

VARIABLES
  pc,        \* "read", "write" or "delay"
  micReady,  \* rx_handle works
  spkReady,  \* tx_handle works
  rxLen,     \* words captured and not read
  rxNext,    \* channel of the next word to be read
  txLen,     \* words written and not played
  txNext,    \* channel whose slot the next written word is played in
  got,       \* words of buf that this read has filled
  put,       \* words of buf that this write has sent
  first      \* channel of buf's first word

bus  == <<micReady, spkReady>>
rx   == <<rxLen, rxNext>>
tx   == <<txLen, txNext>>
vars == <<pc, bus, rx, tx, got, put, first>>

DmaCapacity == DmaWords * DmaDescs

\* i2s_tx_init and i2s_rx_init ignore every error; a bus that could not be set
\* up makes every transfer fail.
Init ==
  /\ pc = "read"
  /\ micReady \in BOOLEAN /\ spkReady \in BOOLEAN
  /\ rxLen = 0 /\ rxNext = 0 /\ txLen = 0 /\ txNext = 0
  /\ got = 0 /\ put = 0 /\ first = 0
-----------------------------------------------------------------------------
\* A descriptor has been captured; when all are full the oldest is dropped.
Capture ==
  /\ micReady
  /\ rxLen' = IF rxLen + DmaWords <= DmaCapacity THEN rxLen + DmaWords ELSE rxLen
  /\ UNCHANGED <<pc, bus, rxNext, tx, got, put, first>>

\* A descriptor has been played.
Play ==
  /\ spkReady
  /\ txLen' = IF txLen >= DmaWords THEN txLen - DmaWords ELSE 0
  /\ UNCHANGED <<pc, bus, rx, txNext, got, put, first>>

\* Mutant: the read does not stop at the end of the buffer.
ReadWord_Overrun ==
  /\ pc = "read" /\ micReady /\ rxLen > 0
  /\ rxLen' = rxLen - 1 /\ rxNext' = (rxNext + 1) % 2
  /\ got' = got + 1
  /\ first' = IF got = 0 THEN rxNext ELSE first
  /\ UNCHANGED <<pc, bus, tx, put>>

\* i2s_channel_read moves the next word.
ReadWord ==
  /\ pc = "read" /\ micReady /\ got < BufWords /\ rxLen > 0
  /\ rxLen' = rxLen - 1 /\ rxNext' = (rxNext + 1) % 2
  /\ got' = got + 1
  /\ first' = IF got = 0 THEN rxNext ELSE first
  /\ UNCHANGED <<pc, bus, tx, put>>

\* Mutant: the test of mic_read's result is the wrong way round.
ReadDone_Inverted ==
  /\ pc = "read" /\ got = BufWords
  /\ pc' = "delay" /\ got' = 0
  /\ UNCHANGED <<bus, rx, tx, put, first>>

\* mic_read returns ESP_OK: the whole buffer was read.
ReadDone ==
  /\ pc = "read" /\ got = BufWords
  /\ pc' = "write" /\ put' = 0
  /\ UNCHANGED <<bus, rx, tx, got, first>>

\* mic_read fails: what was read so far is forgotten.
ReadFails ==
  /\ pc = "read" /\ got < BufWords
  /\ Timeouts \/ ~micReady
  /\ pc' = "delay" /\ got' = 0
  /\ UNCHANGED <<bus, rx, tx, put, first>>

\* i2s_channel_write moves the next word.
WriteWord ==
  /\ pc = "write" /\ spkReady /\ put < BufWords /\ txLen < DmaCapacity
  /\ txLen' = txLen + 1 /\ txNext' = (txNext + 1) % 2
  /\ put' = put + 1
  /\ UNCHANGED <<pc, bus, rx, got, first>>

\* Mutant: one word less is written than was read.
WriteDone_Short ==
  /\ pc = "write" /\ put >= BufWords - 1
  /\ pc' = "delay" /\ got' = 0
  /\ UNCHANGED <<bus, rx, tx, put, first>>

WriteDone ==
  /\ pc = "write" /\ put = BufWords
  /\ pc' = "delay" /\ got' = 0
  /\ UNCHANGED <<bus, rx, tx, put, first>>

\* spk_write fails, which its caller ignores: the rest of buf is never played.
WriteFails ==
  /\ pc = "write" /\ put < BufWords
  /\ Timeouts \/ ~spkReady
  /\ pc' = "delay" /\ got' = 0
  /\ UNCHANGED <<bus, rx, tx, put, first>>

\* vTaskDelay
Delay ==
  /\ pc = "delay" /\ pc' = "read"
  /\ UNCHANGED <<bus, rx, tx, got, put, first>>

Loop ==
  \/ ReadWord \/ ReadDone \/ ReadFails \/ WriteWord \/ WriteDone \/ WriteFails
  \/ Delay

Next == Capture \/ Play \/ Loop

Spec == Init /\ [][Next]_vars

\* The buses run on their own clocks, the task whenever it is not blocked.
FairSpec == Spec /\ WF_vars(Capture) /\ WF_vars(Play) /\ WF_vars(Loop)
-----------------------------------------------------------------------------
(* Correctness                                                             *)

TypeOK ==
  /\ pc \in {"read", "write", "delay"}
  /\ micReady \in BOOLEAN /\ spkReady \in BOOLEAN
  /\ rxLen \in 0..DmaCapacity /\ txLen \in 0..DmaCapacity
  /\ rxNext \in 0..1 /\ txNext \in 0..1 /\ first \in 0..1
  /\ got \in 0..BufWords /\ put \in 0..BufWords

\* Sound goes out the way it came in: the next word to be written is played on
\* the channel it was captured on, though buffers begin with either channel.
OutAsIn ==
  pc = "write" /\ spkReady /\ put < BufWords => (first + put) % 2 = txNext

\* Two working buses keep the sound flowing: one buffer after another is played.
SoundFlows == micReady /\ spkReady /\ pc = "read" ~> pc = "write" /\ put = BufWords

=============================================================================
