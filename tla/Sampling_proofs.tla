--------------------------- MODULE Sampling_proofs ---------------------------
(***************************************************************************)
(* Proofs about a buffer of samples, for buffers, maps and bounds of any   *)
(* size: the reader stays in the buffer whatever it takes for a header,    *)
(* and, while the words of bodies show a size of zero (see README), the    *)
(* buffer is a queue of samples and no count is assigned twice.            *)
(*                                                                         *)
(* The invariant lists what holds of the records in memory: they are       *)
(* complete, do not overlap, and their values grow along the buffer.       *)
(***************************************************************************)
EXTENDS Sampling, TLAPS

RecordSet == [at : Nat, type : Type, tid : Tid \cup {Nobody}, value : Nat]

BufferType ==
  /\ head \in Nat /\ tail \in Nat /\ head <= MaxHead
  /\ records \subseteq RecordSet
  /\ overflow \in BOOLEAN /\ count \in Nat
  /\ pc \in {"loop", "header", "body"}
  /\ hdr \in [type : Type \cup {Other}, size : Nat]
  /\ lastValue \in Nat /\ lastTime \in BOOLEAN /\ assigned \in Nat /\ got \in Nat

InRange ==
  /\ tail <= head
  /\ pc = "body" => tail >= HeaderSize

-----------------------------------------------------------------------------
(* Sizes.                                                                  *)

LEMMA Sizes ==
  /\ SizeOf["SAMPLE"] = 104 /\ SizeOf["LOST"] = 24 /\ SizeOf["THROTTLE"] = 32
  /\ Type = {"SAMPLE", "LOST", "THROTTLE"}
  /\ \A t \in Type : SizeOf[t] \in Nat /\ SizeOf[t] >= 24
BY DEF SizeOf, Type, SampleSize, LostSize, ThrottleSize

LEMMA Constants ==
  /\ BufferSize \in Nat /\ MapSize \in Nat /\ Modulus \in Nat /\ MaxHead \in Nat
  /\ BufferSize >= 128 /\ MapSize > BufferSize + 8 /\ Modulus > MaxHead + MapSize
BY BufferAssumption DEF SampleSize, LostSize, HeaderSize

\* A sum of sizes is what it should be, or has wrapped around.
LEMMA SumInNat ==
  ASSUME NEW a \in Nat, NEW b \in Nat
  PROVE  (a + b) % Modulus \in Nat
<1>1. Modulus \in Nat /\ Modulus > 0
  BY BufferAssumption
<1> QED  BY <1>1

LEMMA SumSmall ==
  ASSUME NEW a \in Nat, NEW b \in Nat, a + b < Modulus
  PROVE  (a + b) % Modulus = a + b
<1>1. Modulus \in Nat /\ Modulus > 0
  BY BufferAssumption
<1> QED  BY <1>1

LEMMA SumWraps ==
  ASSUME NEW a \in Nat, NEW b \in Nat, a + b >= Modulus, a < Modulus, b < Modulus
  PROVE  (a + b) % Modulus = a + b - Modulus
<1>1. Modulus \in Nat /\ Modulus > 0
  BY BufferAssumption
<1>2. a + b - Modulus \in Nat /\ a + b - Modulus < Modulus
  BY <1>1
<1> QED  BY <1>1, <1>2

LEMMA MinusInNat ==
  ASSUME NEW a \in Nat, NEW b \in Nat, b <= Modulus
  PROVE  Minus(a, b) \in Nat
BY BufferAssumption DEF Minus

\* A skip never ends behind the head.
LEMMA SkipInRange ==
  ASSUME NEW a \in Nat, NEW b \in Nat, head \in Nat
  PROVE  Skip(a, b) \in Nat /\ Skip(a, b) <= head
BY SumInNat DEF Skip

LEMMA WordsInRange ==
  ASSUME head \in Nat, NEW a \in Nat, a <= head
  PROVE  AfterWords(a) \in Nat /\ AfterWords(a) >= a /\ AfterWords(a) <= head
<1>1. CASE Available(a, 8 * Words)
  BY <1>1 DEF AfterWords, Available, Words
<1>2. CASE ~Available(a, 8 * Words)
  <2> DEFINE d == head - a
  <2>1. d \in Nat
    OBVIOUS
  <2> HIDE DEF d
  <2>2. 8 * (d \div 8) \in Nat /\ 8 * (d \div 8) <= d
    BY <2>1
  <2> QED  BY <1>2, <2>1, <2>2 DEF AfterWords, d
<1> QED  BY <1>1, <1>2

-----------------------------------------------------------------------------
(* The reader stays in the buffer.                                         *)

LEMMA BufferInit == Init => BufferType /\ InRange
<1> SUFFICES ASSUME Init PROVE BufferType /\ InRange
  OBVIOUS
<1>1. head = 0 /\ tail = 0 /\ records = {} /\ pc = "loop" /\ MaxHead \in Nat /\ BufferSize \in Nat
  BY BufferAssumption DEF Init
<1>2. Blank \in [type : Type \cup {Other}, size : Nat]
  BY DEF Blank
<1>3. BufferType
  <2>1. /\ overflow \in BOOLEAN /\ lastTime \in BOOLEAN /\ hdr = Blank
        /\ count = 0 /\ lastValue = 0 /\ assigned = 0 /\ got = 0
    BY DEF Init
  <2> QED  BY <1>1, <1>2, <2>1 DEF BufferType
<1>4. InRange
  BY <1>1 DEF InRange
<1> QED  BY <1>3, <1>4

\* What the kernel writes.
LEMMA WriteStep ==
  ASSUME BufferType, InRange, NEW t \in Type, NEW tid \in Tid \cup {Nobody}, NEW v \in Nat,
         Write(t, tid, v)
  PROVE  /\ head' \in Nat /\ head' <= MaxHead /\ head' >= head
         /\ records' \subseteq RecordSet
<1>1. SizeOf[t] \in Nat
  BY Sizes
<1>2. Record(t, tid, v) \in RecordSet
  BY DEF Record, RecordSet, BufferType
<1>3. head' = head + SizeOf[t] /\ head + SizeOf[t] <= MaxHead /\ head + SizeOf[t] - tail <= BufferSize
  BY DEF Write, HasRoom
<1> QED  BY <1>1, <1>2, <1>3, BufferAssumption DEF Write, BufferType

LEMMA KernelInRange ==
  ASSUME BufferType, InRange, KernelStep PROVE BufferType' /\ InRange'
<1>1. UNCHANGED <<tail, filter, pc, hdr, values>>
  BY DEF KernelStep
<1>2. /\ head' \in Nat /\ head' <= MaxHead /\ head' >= head
      /\ records' \subseteq RecordSet /\ overflow' \in BOOLEAN /\ count' \in Nat
  <2>1. CASE KernelSample
    <3>1. PICK t \in Tid, c \in {count, count + 1} :
            /\ count' = c
            /\ \/ Write("SAMPLE", t, c) /\ UNCHANGED overflow
               \/ overflow' = TRUE /\ UNCHANGED <<head, records>>
      BY <2>1 DEF KernelSample
    <3>2. c \in Nat
      BY DEF BufferType
    <3>3. CASE Write("SAMPLE", t, c) /\ UNCHANGED overflow
      BY <3>1, <3>2, <3>3, WriteStep, Sizes DEF BufferType
    <3>4. CASE overflow' = TRUE /\ UNCHANGED <<head, records>>
      BY <3>1, <3>2, <3>4 DEF BufferType, InRange
    <3> QED  BY <3>1, <3>3, <3>4
  <2>2. CASE KernelLost
    BY <2>2, WriteStep, Sizes DEF KernelLost, BufferType
  <2>3. CASE KernelThrottle
    BY <2>3, WriteStep, Sizes DEF KernelThrottle, BufferType
  <2> QED  BY <2>1, <2>2, <2>3 DEF KernelStep
<1>3. BufferType'
  BY <1>1, <1>2 DEF BufferType, values
<1>4. InRange'
  BY <1>1, <1>2 DEF BufferType, InRange
<1> QED  BY <1>3, <1>4

LEMMA HeadersTyped ==
  ASSUME BufferType, NEW h \in Headers
  PROVE  /\ h \in [type : Type \cup {Other}, size : Nat]
         /\ \/ h.size \in BodySizes
            \/ \E r \in records : r.at = tail /\ h.type = r.type /\ h.size = SizeOf[r.type]
<1>1. CASE Here # {}
  <2>1. PICK r \in Here : h = [type |-> r.type, size |-> SizeOf[r.type]]
    BY <1>1 DEF Headers
  <2>2. r \in records /\ r.at = tail /\ r.type \in Type
    BY <2>1 DEF Here, BufferType, RecordSet
  <2> QED  BY <2>1, <2>2, Sizes
<1>2. CASE Here = {}
  <2>1. h \in [type : Type \cup {Other}, size : BodySizes]
    BY <1>2 DEF Headers
  <2> QED  BY <2>1, BufferAssumption
<1> QED  BY <1>1, <1>2

LEMMA RestInNat ==
  ASSUME NEW size \in Nat PROVE Rest(size) \in Nat /\ Leftover(size) \in Nat
<1>1. Modulus > 128 /\ Modulus \in Nat /\ MapSize \in Nat
  BY Constants
<1>2. Minus(size, HeaderSize) \in Nat
  BY <1>1, MinusInNat DEF HeaderSize
<1>3. Minus(Minus(size, HeaderSize), 8 * Words) \in Nat
  BY <1>1, <1>2, MinusInNat DEF Words
<1> QED  BY <1>1, <1>2, <1>3 DEF Rest, Leftover

\* What a sample that is not filtered out does to the last values.
LEMMA AccountCases ==
  ASSUME BufferType, NEW v \in Nat, Account(v)
  PROVE  \/ lastTime' = TRUE /\ lastValue' = v /\ assigned' = assigned
         \/ /\ lastTime' = lastTime /\ lastTime = TRUE /\ lastValue' = v /\ v > lastValue
            /\ assigned' = assigned + (v - lastValue)
         \/ lastTime' = FALSE /\ lastValue' = 0 /\ assigned' = assigned
<1>1. lastTime = TRUE \/ lastTime = FALSE
  BY DEF BufferType
<1>2. CASE lastTime = FALSE
  BY <1>2 DEF Account
<1>3. CASE lastTime = TRUE
  BY <1>3 DEF Account
<1> QED  BY <1>1, <1>2, <1>3

LEMMA AccountNumbers ==
  ASSUME BufferType, NEW v \in Nat, Account(v)
  PROVE  \/ lastValue' = v /\ assigned' = assigned
         \/ lastValue' = v /\ v > lastValue /\ assigned' = assigned + (v - lastValue)
         \/ lastValue' = 0 /\ assigned' = assigned
BY AccountCases, Zenon

LEMMA ReaderInRange ==
  ASSUME BufferType, InRange, StartRead \/ ReadStep \/ UpdateFilter
  PROVE  BufferType' /\ InRange'
<1>1. UNCHANGED kernel
  BY DEF StartRead, ReadStep, UpdateFilter, ReadHeader, ReadSample, SampleFails, ReadLost,
         SkipUnknown, EndRead
<1>2. /\ tail' \in Nat /\ tail' <= head
      /\ pc' \in {"loop", "header", "body"} /\ hdr' \in [type : Type \cup {Other}, size : Nat]
      /\ pc' = "body" => tail' >= HeaderSize
  <2> USE DEF HeaderSize
  <2>1. CASE StartRead \/ EndRead \/ UpdateFilter
    BY <2>1 DEF StartRead, EndRead, UpdateFilter, BufferType, InRange
  <2>2. CASE ReadHeader
    <3>1. PICK h \in Headers :
            IF h.type = "THROTTLE" THEN UNCHANGED <<pc, hdr>> ELSE pc' = "body" /\ hdr' = h
      BY <2>2 DEF ReadHeader
    <3>2. pc' \in {"header", "body"} /\ hdr' \in [type : Type \cup {Other}, size : Nat]
      BY <2>2, <3>1, HeadersTyped DEF ReadHeader, BufferType
    <3>3. tail' = tail + 8 /\ 8 <= head - tail
      BY <2>2 DEF ReadHeader, Available
    <3> QED  BY <3>2, <3>3 DEF BufferType
  <2>3. Blank \in [type : Type \cup {Other}, size : Nat]
    BY DEF Blank
  <2>4. CASE ReadSample
    BY <2>3, <2>4, WordsInRange DEF ReadSample, BufferType, InRange
  <2>5. CASE SampleFails
    <3>1. Rest(hdr.size) \in Nat /\ Leftover(hdr.size) \in Nat
      BY RestInNat DEF BufferType
    <3>2. AfterWords(tail) \in Nat
      BY WordsInRange DEF BufferType, InRange
    <3>3. Skip(AfterWords(tail), Leftover(hdr.size)) \in Nat
      BY <3>1, <3>2, SkipInRange DEF BufferType
    <3> QED  BY <2>3, <2>5, <3>1, <3>3, SkipInRange DEF SampleFails, BufferType
  <2>6. CASE ReadLost
    BY <2>3, <2>6 DEF ReadLost, Available, BufferType, InRange
  <2>7. CASE SkipUnknown
    BY <2>3, <2>7, RestInNat, SkipInRange DEF SkipUnknown, BufferType
  <2> QED  BY <2>1, <2>2, <2>4, <2>5, <2>6, <2>7 DEF ReadStep
<1>3. lastValue' \in Nat /\ lastTime' \in BOOLEAN /\ assigned' \in Nat /\ got' \in Nat
  <2>1. CASE ReadSample
    <3>1. PICK r \in records :
            /\ r.at = tail - HeaderSize /\ got' = r.at + SampleSize
            /\ IF r.tid \in filter THEN Account(r.value)
               ELSE UNCHANGED <<lastValue, lastTime, assigned>>
      BY <2>1 DEF ReadSample
    <3>2. r.at \in Nat /\ r.value \in Nat
      BY DEF BufferType, RecordSet
    <3>3. got' \in Nat
      BY <3>1, <3>2 DEF SampleSize
    <3>4. CASE Account(r.value)
      <4>1. lastTime' \in BOOLEAN
        BY <3>2, <3>4, AccountCases DEF BufferType
      <4>2. lastValue' \in Nat /\ assigned' \in Nat
        BY <3>2, <3>4, AccountNumbers DEF BufferType
      <4> QED  BY <3>3, <4>1, <4>2
    <3>5. CASE UNCHANGED <<lastValue, lastTime, assigned>>
      BY <3>3, <3>5 DEF BufferType
    <3> QED  BY <3>1, <3>4, <3>5
  <2>2. CASE SampleFails
    BY <2>2 DEF SampleFails, BufferType
  <2>3. CASE StartRead \/ UpdateFilter \/ ReadHeader \/ ReadLost \/ SkipUnknown \/ EndRead
    BY <2>3 DEF StartRead, UpdateFilter, ReadHeader, ReadLost, SkipUnknown, EndRead, values, BufferType
  <2> QED  BY <2>1, <2>2, <2>3 DEF ReadStep
<1>4. BufferType'
  BY <1>1, <1>2, <1>3 DEF BufferType, kernel
<1>5. InRange'
  BY <1>1, <1>2 DEF InRange, kernel
<1> QED  BY <1>4, <1>5

LEMMA RebootInRange == ASSUME BufferType, Reboot PROVE BufferType' /\ InRange'
<1>1. /\ head' = 0 /\ tail' = 0 /\ records' = {} /\ overflow' \in BOOLEAN /\ count' = 0
      /\ lastValue' = 0 /\ lastTime' \in BOOLEAN /\ assigned' = 0 /\ got' = 0 /\ pc' = "loop"
      /\ hdr' = hdr
  BY DEF Reboot
<1>2. MaxHead \in Nat
  BY BufferAssumption
<1>3. BufferType'
  BY <1>1, <1>2 DEF BufferType
<1>4. InRange'
  BY <1>1 DEF InRange
<1> QED  BY <1>3, <1>4

LEMMA InRangeStep == BufferType /\ InRange /\ [Next]_vars => BufferType' /\ InRange'
<1> SUFFICES ASSUME BufferType, InRange, [Next]_vars PROVE BufferType' /\ InRange'
  OBVIOUS
<1>1. CASE UNCHANGED vars
  <2>1. UNCHANGED <<head, tail, records, overflow, count, pc, hdr, lastValue, lastTime, assigned, got>>
    BY <1>1 DEF vars, kernel, values
  <2>2. BufferType'
    BY <2>1 DEF BufferType
  <2>3. InRange'
    BY <2>1 DEF InRange
  <2> QED  BY <2>2, <2>3
<1> QED  BY <1>1, KernelInRange, ReaderInRange, RebootInRange DEF Next

\* The reader never gets ahead of the kernel, whatever words of a body it
\* takes for a header.
THEOREM TailStaysInRange == Spec => []TailInRange
<1>1. BufferType /\ InRange => TailInRange
  BY DEF BufferType, InRange, TailInRange
<1> QED  BY <1>1, BufferInit, InRangeStep, PTL DEF Spec

-----------------------------------------------------------------------------
(* The records in memory, while what looks like a size in a body is zero.  *)

ZeroBodies == BodySizes \subseteq {0}

RecordsApart ==
  /\ \A r \in records : r.at + SizeOf[r.type] <= head /\ r.value <= count
  /\ \A r, s \in records :
       r = s \/ r.at + SizeOf[r.type] <= s.at \/ s.at + SizeOf[s.type] <= r.at
  /\ \A r, s \in records : r.at < s.at => r.value <= s.value

\* The header that was read is one, or it is a body and has no size.
HeaderInHand ==
  pc = "body" =>
    \/ hdr.size = 0
    \/ \E r \in records : r.at = tail - HeaderSize /\ hdr.type = r.type /\ hdr.size = SizeOf[r.type]

Kept == head - tail <= BufferSize /\ got <= Start

LastValues ==
  /\ assigned <= count /\ lastValue <= count
  /\ \A r \in Unread : assigned <= r.value /\ lastValue <= r.value
  /\ lastTime => assigned <= lastValue

Framed == BufferType /\ InRange /\ RecordsApart /\ HeaderInHand /\ Kept /\ LastValues

LEMMA StartInRange ==
  ASSUME BufferType, InRange
  PROVE  /\ Start \in Nat /\ Start <= tail /\ tail - HeaderSize <= Start
         /\ pc # "body" => Start = tail
BY DEF BufferType, InRange, Start, HeaderSize

LEMMA RecordTyped ==
  ASSUME BufferType, NEW r \in records
  PROVE  /\ r.at \in Nat /\ r.value \in Nat /\ r.type \in Type
         /\ SizeOf[r.type] \in Nat /\ SizeOf[r.type] >= 24
BY Sizes DEF BufferType, RecordSet

\* A body has the size of no record.
LEMMA LeftoverOf ==
  /\ Leftover(104) = 0
  /\ Leftover(0) = Modulus - 104 /\ Leftover(0) # 0
<1>1. Minus(104, HeaderSize) = 96 /\ Minus(0, HeaderSize) = Modulus - 8
  BY Constants DEF Minus, HeaderSize
<1>2. Minus(96, 8 * Words) = 0 /\ Minus(Modulus - 8, 8 * Words) = Modulus - 104
  BY Constants DEF Minus, Words
<1> QED  BY <1>1, <1>2, Constants DEF Leftover

\* The whole map is more than the records take: skipping it goes to the head.
LEMMA SkipMap ==
  ASSUME BufferType, NEW a \in Nat, a <= head, head - a < MapSize
  PROVE  Skip(a, MapSize) = head
<1>1. (a + MapSize) % Modulus = a + MapSize
  BY SumSmall, Constants DEF BufferType
<1> QED  BY <1>1, Constants DEF Skip, BufferType

LEMMA FailsToHead ==
  ASSUME Framed, SampleFails PROVE tail' = head
<1> USE DEF Framed
<1>1. hdr.size = 0
  <2>1. \A r \in records : r.type = "SAMPLE" => SizeOf[r.type] = 104
    BY Sizes
  <2> QED  BY <2>1, LeftoverOf DEF HeaderInHand, SampleFails
<1> DEFINE a == AfterWords(tail)
<1>2. a \in Nat /\ a >= tail /\ a <= head /\ head \in Nat /\ head <= MaxHead /\ tail \in Nat
  BY WordsInRange DEF BufferType, InRange
<1>3. a = tail + 96 \/ head - a < 8
  <2>1. CASE Available(tail, 8 * Words)
    BY <2>1 DEF AfterWords, Words
  <2>2. CASE ~Available(tail, 8 * Words)
    <3> DEFINE d == head - tail
    <3>1. d \in Nat
      BY <1>2 DEF InRange
    <3> HIDE DEF d
    <3>2. d - 8 * (d \div 8) < 8
      BY <3>1
    <3> QED  BY <1>2, <2>2, <3>1, <3>2 DEF AfterWords, d
  <2> QED  BY <2>1, <2>2
<1> DEFINE w == Modulus - 104
           x == Skip(a, w)
<1>4. w \in Nat /\ w < Modulus /\ w + 104 = Modulus /\ a < Modulus
  BY <1>2, Constants
<1>5. x = Skip(a, Leftover(0))
  BY LeftoverOf
<1> HIDE DEF a, w
<1>6. x \in Nat /\ x <= head /\ head - x < MapSize
  <2>1. CASE a >= 104
    <3>1. (a + w) % Modulus = a + w - Modulus
      BY <1>2, <1>4, <2>1, SumWraps
    <3>2. x = a - 104
      BY <1>2, <1>4, <2>1, <3>1, Constants DEF Skip
    <3>3. head - tail <= BufferSize
      BY DEF Kept
    <3> QED  BY <1>2, <1>3, <2>1, <3>2, <3>3, Constants
  <2>2. CASE a < 104
    <3>1. (a + w) % Modulus = a + w
      BY <1>2, <1>4, <2>2, SumSmall
    <3>2. x = head
      BY <1>2, <1>4, <3>1, Constants DEF Skip
    <3> QED  BY <1>2, <3>2, Constants
  <2> QED  BY <1>2, <2>1, <2>2
<1> HIDE DEF x
<1>7. tail' = Skip(x, MapSize)
  BY <1>1, <1>5 DEF SampleFails, Rest, a
<1> QED  BY <1>6, <1>7, SkipMap

LEMMA UnknownToHead ==
  ASSUME Framed, SkipUnknown PROVE tail' = head
<1> USE DEF Framed
<1>1. hdr.size = 0
  <2>1. \A r \in records : r.type # Other
    BY Sizes DEF BufferType, RecordSet, Other
  <2> QED  BY <2>1 DEF HeaderInHand, SkipUnknown
<1>2. tail \in Nat /\ tail <= head /\ head - tail < MapSize
  BY Constants DEF BufferType, InRange, Kept
<1> QED  BY <1>1, <1>2, SkipMap DEF SkipUnknown, Rest

\* A sample that is understood is the first unread record.
LEMMA SampleIsFirst ==
  ASSUME Framed, ReadSample
  PROVE  \E r \in records :
           /\ r.at = Start /\ r.at + 104 <= head
           /\ tail' = r.at + 104 /\ got' = r.at + 104 /\ Start' = tail'
           /\ r.type = "SAMPLE"
           /\ Account(r.value) \/ UNCHANGED <<lastValue, lastTime, assigned>>
<1> USE DEF Framed
<1>1. /\ pc = "body" /\ hdr.type = "SAMPLE" /\ Leftover(hdr.size) = 0 /\ pc' = "header"
      /\ tail' = AfterWords(tail)
  BY DEF ReadSample
<1>2. PICK r \in records :
        /\ r.at = tail - HeaderSize /\ got' = r.at + SampleSize
        /\ Account(r.value) \/ UNCHANGED <<lastValue, lastTime, assigned>>
  BY DEF ReadSample
<1>3. PICK s \in records :
        s.at = tail - HeaderSize /\ hdr.type = s.type /\ hdr.size = SizeOf[s.type]
  BY <1>1, LeftoverOf DEF HeaderInHand
<1>4. r = s
  BY <1>2, <1>3, RecordTyped DEF RecordsApart
<1>5. SizeOf[r.type] = 104 /\ r.at \in Nat /\ r.at + 104 <= head
  BY <1>1, <1>3, <1>4, Sizes, RecordTyped DEF RecordsApart
<1>6. AfterWords(tail) = r.at + 104
  BY <1>2, <1>5 DEF AfterWords, Available, Words, HeaderSize, BufferType
<1> QED
  BY <1>1, <1>2, <1>3, <1>4, <1>5, <1>6 DEF Start, SampleSize

LEMMA FramedInit == Init => Framed
<1> SUFFICES ASSUME Init PROVE Framed
  OBVIOUS
<1>1. BufferType /\ InRange
  BY BufferInit
<1>2. /\ head = 0 /\ tail = 0 /\ records = {} /\ count = 0 /\ pc = "loop"
      /\ lastValue = 0 /\ assigned = 0 /\ got = 0
  BY DEF Init
<1>3. RecordsApart /\ HeaderInHand
  BY <1>2 DEF RecordsApart, HeaderInHand
<1>4. Kept
  BY <1>2, Constants DEF Kept, Start
<1>5. LastValues
  BY <1>2 DEF LastValues, Unread
<1> QED  BY <1>1, <1>3, <1>4, <1>5 DEF Framed

-----------------------------------------------------------------------------
(* What the kernel does.                                                   *)

\* It writes a record with the value its counter then has, or none.
LEMMA KernelCases ==
  ASSUME BufferType, KernelStep
  PROVE  /\ UNCHANGED <<tail, filter, pc, hdr, values>>
         /\ \/ \E t \in Type, i \in Tid \cup {Nobody}, v \in Nat :
                 Write(t, i, v) /\ count' = v /\ v >= count
            \/ UNCHANGED <<head, records>> /\ count' \in Nat /\ count' >= count
<1>1. UNCHANGED <<tail, filter, pc, hdr, values>>
  BY DEF KernelStep
<1>2. CASE KernelSample
  <2>1. PICK t \in Tid, c \in {count, count + 1} :
          /\ count' = c
          /\ \/ Write("SAMPLE", t, c) \/ UNCHANGED <<head, records>>
    BY <1>2 DEF KernelSample
  <2>2. c \in Nat /\ c >= count
    BY DEF BufferType
  <2>3. "SAMPLE" \in Type
    BY Sizes
  <2> QED  BY <1>1, <2>1, <2>2, <2>3
<1>3. CASE KernelLost \/ KernelThrottle
  <2>1. /\ Write("LOST", Nobody, count) \/ Write("THROTTLE", Nobody, count)
        /\ count' = count /\ count \in Nat /\ count >= count
    BY <1>3 DEF KernelLost, KernelThrottle, BufferType
  <2>2. "LOST" \in Type /\ "THROTTLE" \in Type
    BY Sizes
  <2> QED  BY <1>1, <2>1, <2>2
<1> QED  BY <1>2, <1>3 DEF KernelStep

LEMMA WriteFramed ==
  ASSUME Framed, UNCHANGED <<tail, filter, pc, hdr, values>>,
         NEW t \in Type, NEW i \in Tid \cup {Nobody}, NEW v \in Nat,
         Write(t, i, v), count' = v, v >= count
  PROVE  /\ RecordsApart' /\ HeaderInHand' /\ Kept' /\ LastValues'
         /\ Queue!Put
<1> USE DEF Framed
<1> DEFINE n == Record(t, i, v)
<1>1. n.at = head /\ n.type = t /\ n.value = v /\ SizeOf[t] \in Nat /\ SizeOf[t] >= 24
  BY Sizes DEF Record
<1> HIDE DEF n
<1>3. head \in Nat /\ count \in Nat /\ tail \in Nat /\ tail <= head
  BY DEF BufferType, InRange
<1>2. /\ records' = {r \in records : r.at >= tail - HeaderSize} \cup {n}
      /\ head' = head + SizeOf[t] /\ head' - tail <= BufferSize
  BY <1>1, <1>3 DEF Write, HasRoom, n
<1>4. \A r \in records' :
        \/ r = n
        \/ r \in records /\ r.at + SizeOf[r.type] <= head /\ r.value <= count
  BY <1>2 DEF RecordsApart
<1>5. \A r \in records :
        r.at \in Nat /\ r.value \in Nat /\ SizeOf[r.type] \in Nat /\ SizeOf[r.type] >= 24
  BY RecordTyped
<1>6. RecordsApart'
  <2>1. \A r \in records' : r.at + SizeOf[r.type] <= head' /\ r.value <= count'
    BY <1>1, <1>2, <1>3, <1>4, <1>5
  <2>2. \A r, s \in records' :
          r = s \/ r.at + SizeOf[r.type] <= s.at \/ s.at + SizeOf[s.type] <= r.at
    BY <1>1, <1>4 DEF RecordsApart
  <2>3. \A r, s \in records' : r.at < s.at => r.value <= s.value
    BY <1>1, <1>3, <1>4, <1>5 DEF RecordsApart
  <2> QED  BY <2>1, <2>2, <2>3 DEF RecordsApart
<1>7. HeaderInHand'
  <2>1. \A r \in records : r.at = tail - HeaderSize => r \in records'
    BY <1>2, <1>5
  <2> QED  BY <2>1 DEF HeaderInHand
<1>8. Start' = Start /\ got' = got
  BY DEF Start, values
<1>9. Kept'
  BY <1>2, <1>8 DEF Kept
<1>10. Start \in Nat /\ Start <= tail /\ tail - HeaderSize <= Start
  BY StartInRange
<1>11. Unread' = Unread \cup {n}
  BY <1>1, <1>2, <1>3, <1>5, <1>8, <1>10 DEF Unread, HeaderSize
<1>12. LastValues'
  <2>1. assigned' = assigned /\ lastValue' = lastValue /\ lastTime' = lastTime
    BY DEF values
  <2>2. assigned \in Nat /\ lastValue \in Nat /\ assigned <= count /\ lastValue <= count
    BY DEF LastValues, BufferType
  <2>3. assigned' <= count' /\ lastValue' <= count'
    BY <1>3, <2>1, <2>2
  <2>4. \A r \in Unread' : assigned' <= r.value /\ lastValue' <= r.value
    BY <1>1, <1>3, <1>11, <2>1, <2>2 DEF LastValues
  <2>5. (lastTime => assigned <= lastValue)'
    <3>1. lastTime => assigned <= lastValue
      BY DEF LastValues
    <3> QED  BY <2>1, <3>1
  <2> QED  BY <2>3, <2>4, <2>5 DEF LastValues
<1>13. Queue!Put
  <2>1. n \notin Unread /\ \A s \in Unread : s.at < n.at
    BY <1>1, <1>3, <1>5 DEF Unread, RecordsApart
  <2>2. n.at >= got
    BY <1>1, <1>3, <1>10 DEF Kept, BufferType
  <2> QED  BY <1>8, <1>11, <2>1, <2>2 DEF Queue!Put
<1> QED  BY <1>6, <1>7, <1>9, <1>12, <1>13

LEMMA KernelFramed ==
  ASSUME Framed, KernelStep
  PROVE  /\ RecordsApart' /\ HeaderInHand' /\ Kept' /\ LastValues'
         /\ [Queue!Next]_<<Unread, got>>
<1> USE DEF Framed
<1>1. UNCHANGED <<tail, filter, pc, hdr, values>>
  BY KernelCases
<1>2. CASE \E t \in Type, i \in Tid \cup {Nobody}, v \in Nat :
             Write(t, i, v) /\ count' = v /\ v >= count
  BY <1>1, <1>2, WriteFramed DEF Queue!Next
<1>3. CASE UNCHANGED <<head, records>> /\ count' \in Nat /\ count' >= count
  <2>1. Start' = Start /\ got' = got /\ Unread' = Unread
    BY <1>1, <1>3 DEF Start, Unread, values
  <2>2. RecordsApart'
    BY <1>3, RecordTyped DEF RecordsApart, BufferType
  <2>3. HeaderInHand' /\ Kept'
    BY <1>1, <1>3, <2>1 DEF HeaderInHand, Kept
  <2>4. LastValues'
    <3>1. assigned' = assigned /\ lastValue' = lastValue /\ lastTime' = lastTime
      BY <1>1 DEF values
    <3>2. assigned' <= count' /\ lastValue' <= count'
      BY <1>3, <3>1 DEF LastValues, BufferType
    <3> QED  BY <2>1, <3>1, <3>2 DEF LastValues
  <2> QED  BY <2>1, <2>2, <2>3, <2>4
<1> QED  BY <1>2, <1>3, KernelCases

-----------------------------------------------------------------------------
(* What the reader does.                                                   *)

\* Nothing is added to what was assigned.
NoValue ==
  /\ assigned' = assigned /\ got' = got
  /\ \/ lastValue' = lastValue /\ lastTime' = lastTime
     \/ lastValue' = 0 /\ lastTime' = FALSE

\* Records before some position are left behind.
LEMMA TailAdvances ==
  ASSUME Framed, UNCHANGED kernel,
         tail' \in Nat, tail' >= tail, Start' \in Nat, Start' >= Start,
         NoValue
  PROVE  RecordsApart' /\ Kept' /\ LastValues' /\ [Queue!Next]_<<Unread, got>>
<1> USE DEF Framed
<1>1. head' = head /\ records' = records /\ count' = count
  BY DEF kernel
<1>2. Start \in Nat /\ got \in Nat /\ head \in Nat /\ tail \in Nat
  BY StartInRange DEF BufferType
<1>3. RecordsApart'
  BY <1>1 DEF RecordsApart
<1>4. Kept'
  <2>1. head - tail <= BufferSize /\ got <= Start /\ got' = got
    BY DEF Kept, NoValue
  <2>2. head' - tail' <= BufferSize
    <3> DEFINE u == tail'
    <3>1. u \in Nat /\ u >= tail
      OBVIOUS
    <3> HIDE DEF u
    <3>2. head - u <= BufferSize
      BY <1>2, <2>1, <3>1, Constants
    <3> QED  BY <1>1, <3>2 DEF u
  <2>3. got' <= Start'
    BY <1>2, <2>1
  <2> QED  BY <2>2, <2>3 DEF Kept
<1>5. Unread' \subseteq Unread
  BY <1>1, <1>2, RecordTyped DEF Unread
<1>6. LastValues'
  <2>1. assigned' = assigned /\ (lastValue' = lastValue \/ lastValue' = 0)
    BY DEF NoValue
  <2>2. assigned' <= count' /\ lastValue' <= count'
    BY <1>1, <2>1 DEF LastValues, BufferType
  <2>3. \A r \in Unread' : assigned' <= r.value /\ lastValue' <= r.value
    <3> SUFFICES ASSUME NEW r \in Unread' PROVE assigned' <= r.value /\ lastValue' <= r.value
      OBVIOUS
    <3>1. r \in Unread /\ r \in records
      BY <1>5 DEF Unread
    <3> QED  BY <2>1, <3>1, RecordTyped DEF LastValues
  <2>4. (lastTime => assigned <= lastValue)'
    <3>1. lastTime => assigned <= lastValue
      BY DEF LastValues
    <3> QED  BY <3>1 DEF NoValue
  <2> QED  BY <2>2, <2>3, <2>4 DEF LastValues
<1>7. Queue!Lose
  <2>1. \A r \in Unread \ Unread', s \in Unread' : r.at < s.at
    BY <1>1, <1>2, RecordTyped DEF Unread
  <2> QED  BY <1>5, <2>1 DEF Queue!Lose, NoValue
<1> QED  BY <1>3, <1>4, <1>6, <1>7 DEF Queue!Next

LEMMA SampleFramed ==
  ASSUME Framed, ReadSample
  PROVE  /\ RecordsApart' /\ HeaderInHand' /\ Kept' /\ LastValues'
         /\ Queue!Deliver
<1> USE DEF Framed
<1>1. PICK r \in records :
        /\ r.at = Start /\ r.at + 104 <= head
        /\ tail' = r.at + 104 /\ got' = r.at + 104 /\ Start' = tail'
        /\ r.type = "SAMPLE"
        /\ Account(r.value) \/ UNCHANGED <<lastValue, lastTime, assigned>>
  BY SampleIsFirst
<1>2. pc' = "header" /\ head' = head /\ records' = records /\ count' = count
  BY DEF ReadSample, kernel
<1>3. /\ r.at \in Nat /\ r.value \in Nat /\ SizeOf[r.type] = 104
      /\ head \in Nat /\ tail \in Nat /\ Start <= tail /\ tail - 8 <= Start
  BY <1>1, RecordTyped, StartInRange, Sizes DEF BufferType, HeaderSize
<1>4. \A s \in records :
        s.at \in Nat /\ s.value \in Nat /\ SizeOf[s.type] \in Nat /\ SizeOf[s.type] >= 24
  BY RecordTyped
<1>5. \A s \in Unread : s = r \/ s.at >= r.at + 104
  BY <1>1, <1>3, <1>4 DEF Unread, RecordsApart
<1>6. Unread' = Unread \ {r} /\ r \in Unread
  BY <1>1, <1>2, <1>3, <1>4, <1>5 DEF Unread
<1>7. RecordsApart' /\ HeaderInHand'
  BY <1>2 DEF RecordsApart, HeaderInHand
<1>8. Kept'
  BY <1>1, <1>2, <1>3, Constants DEF Kept
<1>9. Queue!Deliver
  <2>1. Queue!IsFirst(r)
    BY <1>3, <1>4, <1>5, <1>6 DEF Queue!IsFirst, Unread
  <2>2. r.at >= got /\ got' > r.at
    BY <1>1, <1>3 DEF Kept, BufferType
  <2>3. \A s \in Unread' : s.at >= got'
    BY <1>1, <1>5, <1>6
  <2> QED  BY <1>6, <2>1, <2>2, <2>3 DEF Queue!Deliver
<1>10. LastValues'
  <2>1. \A s \in Unread' : s \in Unread /\ s \in records /\ r.value <= s.value
    BY <1>3, <1>4, <1>5, <1>6 DEF RecordsApart, Unread
  <2>2. /\ assigned \in Nat /\ lastValue \in Nat /\ count \in Nat
        /\ assigned <= r.value /\ lastValue <= r.value /\ r.value <= count
        /\ assigned <= count /\ lastValue <= count
    BY <1>6 DEF LastValues, BufferType, RecordsApart
  <2>3. lastTime => assigned <= lastValue
    BY DEF LastValues
  <2>4. CASE UNCHANGED <<lastValue, lastTime, assigned>>
    <3>1. \A s \in Unread' : assigned' <= s.value /\ lastValue' <= s.value
      BY <2>1, <2>4 DEF LastValues
    <3>2. (lastTime => assigned <= lastValue)'
      BY <2>3, <2>4
    <3> QED  BY <1>2, <2>2, <2>4, <3>1, <3>2 DEF LastValues
  <2>5. CASE Account(r.value)
    <3>1. /\ assigned' \in Nat /\ assigned' <= r.value
          /\ lastValue' \in Nat /\ lastValue' <= r.value
          /\ lastValue' = r.value \/ lastTime' = FALSE
      <4>1. CASE lastTime' = TRUE /\ lastValue' = r.value /\ assigned' = assigned
        BY <1>3, <2>2, <4>1
      <4>2. CASE /\ lastTime' = lastTime /\ lastTime = TRUE /\ lastValue' = r.value
                 /\ r.value > lastValue /\ assigned' = assigned + (r.value - lastValue)
        <5>1. assigned <= lastValue
          BY <2>3, <4>2
        <5> QED  BY <1>3, <2>2, <4>2, <5>1
      <4>3. CASE lastTime' = FALSE /\ lastValue' = 0 /\ assigned' = assigned
        BY <1>3, <2>2, <4>3
      <4> QED  BY <1>3, <2>5, <4>1, <4>2, <4>3, AccountCases, Zenon
    <3>2. assigned' <= count' /\ lastValue' <= count'
      BY <1>2, <1>3, <2>2, <3>1
    <3>3. \A s \in Unread' : assigned' <= s.value /\ lastValue' <= s.value
      BY <1>3, <1>4, <2>1, <3>1
    <3>4. (lastTime => assigned <= lastValue)'
      BY <1>3, <3>1
    <3> QED  BY <3>2, <3>3, <3>4 DEF LastValues
  <2> QED  BY <1>1, <2>4, <2>5
<1> QED  BY <1>7, <1>8, <1>9, <1>10

LEMMA ReaderFramed ==
  ASSUME Framed, ZeroBodies, StartRead \/ ReadStep \/ UpdateFilter
  PROVE  /\ RecordsApart' /\ HeaderInHand' /\ Kept' /\ LastValues'
         /\ [Queue!Next]_<<Unread, got>>
<1> USE DEF Framed
<1>1. CASE ReadSample
  BY <1>1, SampleFramed DEF Queue!Next
<1>2. SUFFICES ASSUME StartRead \/ EndRead \/ UpdateFilter \/ ReadHeader
                      \/ SampleFails \/ ReadLost \/ SkipUnknown
               PROVE  /\ tail' >= tail /\ Start' >= Start
                      /\ HeaderInHand' /\ NoValue
  <2>1. BufferType' /\ InRange'
    BY ReaderInRange
  <2>2. tail' \in Nat /\ Start' \in Nat
    <3>1. tail' \in Nat /\ (pc' = "body" => tail' >= 8)
      BY <2>1 DEF BufferType, InRange, HeaderSize
    <3>2. Start' = IF pc' = "body" THEN tail' - 8 ELSE tail'
      BY DEF Start, HeaderSize
    <3>3. CASE pc' = "body"
      <4> DEFINE u == tail'
      <4>1. u \in Nat /\ u >= 8
        BY <3>1, <3>3
      <4> HIDE DEF u
      <4>2. u - 8 \in Nat
        BY <4>1
      <4> QED  BY <3>1, <3>2, <3>3, <4>2 DEF u
    <3> QED  BY <3>1, <3>2, <3>3
  <2>3. UNCHANGED kernel
    BY DEF StartRead, ReadStep, UpdateFilter, ReadHeader, ReadSample, SampleFails, ReadLost,
           SkipUnknown, EndRead
  <2> QED  BY <1>1, <1>2, <2>2, <2>3, TailAdvances DEF ReadStep
<1>3. /\ head \in Nat /\ tail \in Nat /\ tail <= head /\ Start \in Nat /\ Start <= tail
      /\ pc = "body" => Start = tail - HeaderSize
      /\ pc # "body" => Start = tail
  BY StartInRange DEF BufferType, InRange, Start
<1>4. CASE StartRead \/ EndRead \/ UpdateFilter
  <2>1. tail' = tail /\ pc # "body" /\ pc' # "body" /\ NoValue
    BY <1>4 DEF StartRead, EndRead, UpdateFilter, values, NoValue
  <2> QED  BY <1>3, <2>1 DEF Start, HeaderInHand
<1>5. CASE ReadHeader
  <2>1. PICK h \in Headers :
          IF h.type = "THROTTLE" THEN UNCHANGED <<pc, hdr>> ELSE pc' = "body" /\ hdr' = h
    BY <1>5 DEF ReadHeader
  <2>2. /\ pc = "header" /\ tail' = tail + HeaderSize /\ UNCHANGED <<kernel, values>>
    BY <1>5 DEF ReadHeader
  <2>3. Start' >= Start /\ tail' >= tail
    BY <1>3, <2>1, <2>2 DEF Start, HeaderSize
  <2>4. HeaderInHand'
    <3>1. CASE pc' = "header"
      BY <3>1 DEF HeaderInHand
    <3>2. CASE pc' = "body" /\ hdr' = h
      <4>1. h.size = 0 \/ \E r \in records : r.at = tail /\ h.type = r.type /\ h.size = SizeOf[r.type]
        BY HeadersTyped DEF ZeroBodies
      <4>2. tail' - HeaderSize = tail /\ records' = records
        BY <1>3, <2>2 DEF HeaderSize, kernel
      <4> QED  BY <3>2, <4>1, <4>2 DEF HeaderInHand
    <3> QED  BY <2>1, <2>2, <3>1, <3>2
  <2> QED  BY <2>2, <2>3, <2>4 DEF values, NoValue
<1>6. CASE SampleFails \/ ReadLost \/ SkipUnknown
  <2>1. pc = "body" /\ pc' = "header"
    BY <1>6 DEF SampleFails, ReadLost, SkipUnknown
  <2>2. tail' >= tail
    BY <1>3, <1>6, FailsToHead, UnknownToHead DEF ReadLost
  <2>3. Start' = tail' /\ Start' >= Start
    BY <1>3, <2>1, <2>2, ReaderInRange DEF Start, ReadStep, BufferType
  <2>4. HeaderInHand'
    BY <2>1 DEF HeaderInHand
  <2>5. NoValue
    BY <1>6 DEF SampleFails, ReadLost, SkipUnknown, values, NoValue
  <2> QED  BY <2>2, <2>3, <2>4, <2>5
<1> QED  BY <1>2, <1>4, <1>5, <1>6

LEMMA RebootFramed ==
  ASSUME Framed, Reboot
  PROVE  /\ RecordsApart' /\ HeaderInHand' /\ Kept' /\ LastValues'
         /\ Queue!Reset
<1>1. /\ head' = 0 /\ tail' = 0 /\ records' = {} /\ count' = 0 /\ pc' = "loop"
      /\ lastValue' = 0 /\ assigned' = 0 /\ got' = 0
  BY DEF Reboot
<1>2. RecordsApart' /\ HeaderInHand'
  BY <1>1 DEF RecordsApart, HeaderInHand
<1>3. Kept'
  BY <1>1, Constants DEF Kept, Start
<1>4. LastValues' /\ Queue!Reset
  BY <1>1 DEF LastValues, Unread, Queue!Reset
<1> QED  BY <1>2, <1>3, <1>4

LEMMA FramedStep ==
  ASSUME ZeroBodies
  PROVE  Framed /\ [Next]_vars => Framed' /\ [Queue!Next]_<<Unread, got>>
<1> SUFFICES ASSUME Framed, [Next]_vars PROVE Framed' /\ [Queue!Next]_<<Unread, got>>
  OBVIOUS
<1>1. BufferType' /\ InRange'
  BY InRangeStep DEF Framed
<1>2. RecordsApart' /\ HeaderInHand' /\ Kept' /\ LastValues' /\ [Queue!Next]_<<Unread, got>>
  <2>1. CASE UNCHANGED vars
    <3>1. UNCHANGED <<head, tail, records, count, pc, hdr, lastValue, lastTime, assigned, got>>
      BY <2>1 DEF vars, kernel, values
    <3>2. Start' = Start /\ Unread' = Unread
      BY <3>1 DEF Start, Unread
    <3>3. RecordsApart' /\ HeaderInHand' /\ Kept'
      BY <3>1, <3>2 DEF Framed, RecordsApart, HeaderInHand, Kept
    <3>4. LastValues'
      BY <3>1, <3>2 DEF Framed, LastValues
    <3> QED  BY <3>1, <3>2, <3>3, <3>4
  <2>2. CASE Next
    BY <2>2, KernelFramed, ReaderFramed, RebootFramed DEF Next, Queue!Next
  <2> QED  BY <2>1, <2>2
<1> QED  BY <1>1, <1>2 DEF Framed

-----------------------------------------------------------------------------
(* The buffer is a queue, and no count is assigned twice.                  *)

\* No sample is understood twice, none before an earlier one, and what is lost
\* is lost from the front: as long as no body of a record looks like the
\* header of one that has a size.
THEOREM BufferIsQueue == ASSUME ZeroBodies PROVE Spec => QueueOfSamples
<1>1. Init => Queue!Init
  BY DEF Init, Queue!Init, Unread
<1> QED  BY <1>1, FramedInit, FramedStep, PTL DEF Spec, QueueOfSamples, Queue!Spec

\* Two samples never share a part of the counter's growth.
THEOREM NothingCountedTwice == ASSUME ZeroBodies PROVE Spec => []CountedOnce
<1>1. Framed => CountedOnce
  BY DEF Framed, LastValues, CountedOnce, BufferType
<1> QED  BY <1>1, FramedInit, FramedStep, PTL DEF Spec

-----------------------------------------------------------------------------
(* Sampling with several groups does nothing else to a buffer.             *)

LEMMA GroupStep == [SNext]_svars => [Next]_vars
BY DEF SNext, Rotate, NoRead, Read, Check, Filter, Kernel, Next, ReadStep, svars

\* Rotating, counting failures and starting anew leave every buffer the queue
\* it is.
THEOREM SampledBuffers ==
  /\ SSpec => Spec /\ []TailInRange
  /\ ZeroBodies => (SSpec => QueueOfSamples /\ []CountedOnce)
<1>1. SSpec => Spec
  BY GroupStep, PTL DEF SSpec, SInit, Spec
<1>2. ZeroBodies => (Spec => QueueOfSamples)
  BY BufferIsQueue
<1>3. ZeroBodies => (Spec => []CountedOnce)
  BY NothingCountedTwice
<1> QED  BY <1>1, <1>2, <1>3, TailStaysInRange, PTL
=============================================================================
