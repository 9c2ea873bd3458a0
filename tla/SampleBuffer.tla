---------------------------- MODULE SampleBuffer ----------------------------
(***************************************************************************)
(* The buffer that the kernel fills with the samples of one group of       *)
(* counters on one CPU, and process_sample_buf(), which reads it until it  *)
(* is empty while the kernel goes on filling it.  Positions are bytes from *)
(* the start of sampling, as data_head and data_tail are: they do not wrap *)
(* around, only the place in memory that belongs to them does.             *)
(*                                                                         *)
(* The header of a record and its body are read one after the other.  The  *)
(* bodies of THROTTLE, UNTHROTTLE and EXIT records are not read, so what   *)
(* is taken for the next header is the body.                               *)
(*                                                                         *)
(* A read of the buffer starts with the header: pc is "loop" outside,      *)
(* "header" before one is read, and "body" when `hdr' has been.            *)
(***************************************************************************)
EXTENDS Integers, FiniteSets

CONSTANTS
  Tid,          \* the threads that may run on the CPU
  BufferSize,   \* pgmsk + 1, the bytes for records: MMAP_PAGES pages
  MapSize,      \* map_size, a page more
  Modulus,      \* 2^64: sizes are size_t
  BodySizes,    \* what the half word of a body shows where a header has its size
  MaxHead,      \* bound: the kernel stops before this position
  MaxCount      \* bound: and when its counter is here

HeaderSize == 8
SampleSize == 104      \* with the twelve words of sample_type
LostSize == 24
ThrottleSize == 32

ASSUME BufferAssumption ==
  /\ BufferSize \in Nat /\ BufferSize >= SampleSize + LostSize
  /\ MapSize \in Nat /\ MapSize > BufferSize + HeaderSize
  /\ MaxHead \in Nat /\ MaxCount \in Nat
  /\ Modulus \in Nat /\ Modulus > MaxHead + MapSize
  /\ BodySizes \subseteq Nat

SizeOf == [SAMPLE |-> SampleSize, LOST |-> LostSize, THROTTLE |-> ThrottleSize]
Type == DOMAIN SizeOf
Other == "OTHER"       \* none that the reader knows
Blank == [type |-> Other, size |-> 0]

VARIABLES
  head, tail,   \* data_head, data_tail
  records,      \* the records written, with their position
  overflow,     \* has the kernel lost samples since the last record?
  count,        \* the counter
  filter,       \* PIDs_to_filter
  pc, hdr,      \* see above; `hdr' is blank when there is none
  lastValue, lastTime,  \* samples_last_values, samples_last_times
  assigned,     \* the sum of the values of all samples returned so far
  got           \* the position behind the last sample that was understood

kernel == <<head, records, overflow, count>>
values == <<lastValue, lastTime, assigned, got>>
vars == <<kernel, tail, filter, pc, hdr, values>>

Record(type, tid, value) == [at |-> head, type |-> type, tid |-> tid, value |-> value]

-----------------------------------------------------------------------------
(* The kernel.  It overwrites what has been read, and only that.           *)

HasRoom(bytes) == head + bytes - tail <= BufferSize

Write(type, tid, value) ==
  /\ HasRoom(SizeOf[type]) /\ head + SizeOf[type] <= MaxHead
  /\ records' = {r \in records : r.at >= tail - HeaderSize} \cup {Record(type, tid, value)}
  /\ head' = head + SizeOf[type]

\* The thread on the CPU overflows the counter.
KernelSample ==
  \E t \in Tid, c \in {count, count + 1} :
    /\ ~overflow /\ c <= MaxCount
    /\ count' = c
    /\ IF HasRoom(SampleSize) THEN Write("SAMPLE", t, c) /\ UNCHANGED overflow
       ELSE overflow' = TRUE /\ UNCHANGED <<head, records>>

Nobody == 0

KernelLost == overflow /\ overflow' = FALSE /\ Write("LOST", Nobody, count) /\ UNCHANGED count

\* Throttling starts or ends.  Bound: not twice without another record between.
KernelThrottle ==
  /\ ~overflow
  /\ \A r \in records : r.type = "THROTTLE" => r.at + ThrottleSize # head
  /\ Write("THROTTLE", Nobody, count)
  /\ UNCHANGED <<count, overflow>>

KernelStep ==
  /\ KernelSample \/ KernelLost \/ KernelThrottle
  /\ UNCHANGED <<tail, filter, pc, hdr, values>>

-----------------------------------------------------------------------------
(* The buffer.                                                             *)

\* perf_read_buffer() fails, and leaves the buffer as it is, if there is less.
Available(pos, bytes) == bytes <= head - pos

\* perf_skip_buffer(): the end may wrap around before it is compared.
Skip(pos, bytes) == IF (pos + bytes) % Modulus > head THEN head ELSE (pos + bytes) % Modulus

\* Unsigned subtraction.
Minus(a, b) == IF a >= b THEN a - b ELSE Modulus - (b - a)

\* What is skipped of a record with an unknown type or a strange body.
RestAsWritten(size) == Minus(size, HeaderSize)        \* mutant: a size of 0 is nothing special
Rest(size) == IF size = 0 THEN MapSize ELSE Minus(size, HeaderSize)

\* The words of a sample; each read fails on its own when there is no more.
Words == 12
AfterWords(pos) ==
  IF Available(pos, 8 * Words) THEN pos + 8 * Words ELSE pos + 8 * ((head - pos) \div 8)

\* What transfer_data_from_buffer_to_structure() finds left of the record.
Leftover(size) == Minus(Minus(size, HeaderSize), 8 * Words)

-----------------------------------------------------------------------------
(* The reader.                                                             *)

StartRead ==
  /\ pc = "loop"
  /\ pc' = "header"
  /\ UNCHANGED <<kernel, tail, filter, hdr, values>>

Here == {r \in records : r.at = tail}

\* The header of the record at the tail, or what the body there looks like.
Headers ==
  IF Here # {} THEN {[type |-> r.type, size |-> SizeOf[r.type]] : r \in Here}
  ELSE [type : Type \cup {Other}, size : BodySizes]

ReadHeader ==
  /\ pc = "header"
  /\ Available(tail, HeaderSize)
  /\ tail' = tail + HeaderSize
  /\ \E h \in Headers :
       IF h.type = "THROTTLE" THEN UNCHANGED <<pc, hdr>> ELSE pc' = "body" /\ hdr' = h
  /\ UNCHANGED <<kernel, filter, values>>

EndRead ==
  /\ pc = "header"
  /\ ~Available(tail, HeaderSize)
  /\ pc' = "loop"
  /\ UNCHANGED <<kernel, tail, filter, hdr, values>>

\* The first sample, and the one after one that was not above the one before,
\* only give the value the next is compared with.
ForgetBase(v) ==                     \* mutant: the new value is not saved
  IF ~lastTime THEN lastValue' = v /\ lastTime' = TRUE /\ UNCHANGED assigned
  ELSE IF v > lastValue
  THEN assigned' = assigned + (v - lastValue) /\ UNCHANGED <<lastValue, lastTime>>
  ELSE lastValue' = 0 /\ lastTime' = FALSE /\ UNCHANGED assigned
Account(v) ==
  IF ~lastTime THEN lastValue' = v /\ lastTime' = TRUE /\ UNCHANGED assigned
  ELSE IF v > lastValue
  THEN assigned' = assigned + (v - lastValue) /\ lastValue' = v /\ UNCHANGED lastTime
  ELSE lastValue' = 0 /\ lastTime' = FALSE /\ UNCHANGED assigned

\* A sample of the size it should have.  What was read is the record the
\* header was of; samples of other programs leave no trace.
ReadSample ==
  /\ pc = "body" /\ hdr.type = "SAMPLE" /\ Leftover(hdr.size) = 0
  /\ tail' = AfterWords(tail)
  /\ \E r \in records :
       /\ r.at = tail - HeaderSize
       /\ got' = r.at + SampleSize
       /\ IF r.tid \in filter THEN Account(r.value)
          ELSE UNCHANGED <<lastValue, lastTime, assigned>>
  /\ pc' = "header" /\ hdr' = Blank
  /\ UNCHANGED <<kernel, filter>>

\* The rest of it is skipped by the function that reads it and once more by
\* its caller.
SampleFails ==
  /\ pc = "body" /\ hdr.type = "SAMPLE" /\ Leftover(hdr.size) # 0
  /\ tail' = Skip(Skip(AfterWords(tail), Leftover(hdr.size)), Rest(hdr.size))
  /\ lastValue' = 0 /\ lastTime' = FALSE
  /\ pc' = "header" /\ hdr' = Blank
  /\ UNCHANGED <<kernel, filter, assigned, got>>

\* display_lost()
ReadLost ==
  /\ pc = "body" /\ hdr.type = "LOST"
  /\ tail' = IF Available(tail, 16) THEN tail + 16 ELSE tail
  /\ pc' = "header" /\ hdr' = Blank
  /\ UNCHANGED <<kernel, filter, values>>

SkipUnknown ==
  /\ pc = "body" /\ hdr.type = Other
  /\ tail' = Skip(tail, Rest(hdr.size))
  /\ pc' = "header" /\ hdr' = Blank
  /\ UNCHANGED <<kernel, filter, values>>

\* update_PIDs_to_filter(), with the threads that system_info knows.
UpdateFilter ==
  /\ pc = "loop"
  /\ filter' \in SUBSET Tid
  /\ UNCHANGED <<kernel, tail, pc, hdr, values>>

\* end() and init(): another buffer, another counter, and no last value.
Reboot ==
  /\ pc = "loop"
  /\ head' = 0 /\ tail' = 0 /\ records' = {} /\ overflow' = FALSE /\ count' = 0
  /\ lastValue' = 0 /\ lastTime' = FALSE /\ assigned' = 0 /\ got' = 0
  /\ UNCHANGED <<filter, pc, hdr>>

-----------------------------------------------------------------------------
Init ==
  /\ head = 0 /\ tail = 0 /\ records = {} /\ overflow = FALSE /\ count = 0
  /\ filter \in SUBSET Tid
  /\ pc = "loop" /\ hdr = Blank
  /\ lastValue = 0 /\ lastTime = FALSE /\ assigned = 0 /\ got = 0

ReadStep == ReadHeader \/ ReadSample \/ SampleFails \/ ReadLost \/ SkipUnknown \/ EndRead

Next == KernelStep \/ StartRead \/ ReadStep \/ UpdateFilter \/ Reboot

Spec == Init /\ [][Next]_vars

-----------------------------------------------------------------------------
(* Properties.                                                             *)

\* The reader is never ahead of the kernel, however strange what it reads.
TailInRange == head \in Nat /\ tail \in Nat /\ tail <= head

\* No part of the counter's growth is in the values of two samples: the values
\* returned so far are not above the one the next is compared with.
CountedOnce == lastTime => assigned <= lastValue /\ lastValue <= count

\* The records that are still to be read; the one in hand is among them.
Start == IF pc = "body" THEN tail - HeaderSize ELSE tail
Unread == {r \in records : r.at >= Start}

Queue == INSTANCE SampleQueue WITH queue <- Unread, got <- got

\* The buffer is a queue: no sample is understood twice, or before one that
\* the kernel wrote earlier.
QueueOfSamples == Queue!Spec
=============================================================================
