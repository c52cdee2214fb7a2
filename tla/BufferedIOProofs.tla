------------------------- MODULE BufferedIOProofs -------------------------
(***************************************************************************)
(* Proofs about BufferedIO for every size of the buffer, the chunks and    *)
(* the initial fill.  The heart is the shape of the ring: FillNow bytes    *)
(* starting at a are the bytes of the source after the ones delivered, the *)
(* buffer thread writes right behind them, and the reader's snapshot is a  *)
(* prefix of them.                                                         *)
(***************************************************************************)
EXTENDS BufferedIO, TLAPS

FillNow == IF empty THEN 0 ELSE FillUpTo(b)

\* The cell of the i-th byte in the buffer.
At(i) == IF a + i >= bufSize THEN a + i - bufSize ELSE a + i

RingPart ==
    /\ empty => a = b
    /\ produced = posRead + FillNow
    /\ \A i \in Cells : i < FillNow => buffer[At(i)] = posRead + i + 1

Room ==
    w \in {"reading", "relock"} =>
        /\ chunkSize >= 1
        /\ b + chunkSize <= bufSize
        /\ FillNow + chunkSize <= bufSize

Written ==
    w = "relock" =>
        /\ readBytes <= chunkSize
        /\ \A i \in Cells : b <= i /\ i < b + readBytes => buffer[i] = produced + 1 + (i - b)

Snapshot ==
    /\ r \in {"wait", "copy", "copied"} => length >= 1
    /\ r \in {"copy", "copied"} => ~empty /\ FillUpTo(bLocal) <= FillNow

Copied ==
    r = "copied" =>
        /\ Len(buf) >= 1
        /\ Len(buf) <= FillNow
        /\ \A i \in 1 .. Len(buf) : buf[i] = posRead + i

RingInv == TypeOK /\ RingPart /\ Room /\ Written /\ Snapshot /\ Copied

\* Everything read() may change before it copies.
LEMMA ReadCheckEffect ==
    ASSUME TypeOK, readCheck
    PROVE  /\ checkSocket' \in BOOLEAN
           /\ ret' \in Int
           /\ r' \in {"idle", "wait", "copy"}
           /\ bLocal' \in Cells
           /\ r' = "copy" => ~empty /\ bLocal' = b
<1>1. ret' \in Int
  <2>1. ret' \in {ret, CHECK_SOCKET, -1, 0}
    BY DEF readCheck
  <2> QED  BY <2>1 DEF TypeOK, CHECK_SOCKET
<1>2. checkSocket' \in BOOLEAN
  BY DEF readCheck, TypeOK
<1>3. /\ r' \in {"idle", "wait", "copy"}
      /\ bLocal' \in Cells
      /\ r' = "copy" => ~empty /\ bLocal' = b
  BY DEF readCheck, TypeOK
<1> QED  BY <1>1, <1>2, <1>3

LEMMA FillRange ==
    ASSUME TypeOK, NEW end \in Cells
    PROVE  FillUpTo(end) \in 1 .. bufSize
BY SizesAssumption DEF TypeOK, FillUpTo, Cells

LEMMA FillNowRange ==
    ASSUME TypeOK
    PROVE  FillNow \in 0 .. bufSize /\ (~empty => FillNow >= 1)
BY FillRange, SizesAssumption DEF TypeOK, FillNow

----------------------------------------------------------------------------
(* Types *)

LEMMA TypeInit == Init => TypeOK
<1> SUFFICES ASSUME Init PROVE TypeOK
  OBVIOUS
<1>1. 0 \in Cells /\ 0 \in 0 .. bufSize
  BY SizesAssumption DEF Cells
<1>2. buffer \in [Cells -> Nat] /\ posRead \in Nat /\ produced \in Nat /\ length \in Nat
  BY DEF Init
<1>3. /\ chunkSize \in 0 .. bufSize
      /\ readBytes \in {CHECK_SOCKET, -1} \cup 0 .. bufSize
      /\ ret \in Int /\ buf \in Seq(Nat)
  BY <1>1 DEF Init
<1>4. waitForInitialFillSize \in BOOLEAN
  BY DEF Init
<1> QED  BY <1>1, <1>2, <1>3, <1>4 DEF Init, TypeOK

\* The locals of read() after the copy.
LEMMA CopySizes ==
    ASSUME TypeOK, Snapshot, r = "copy"
    PROVE  /\ read1 \in 1 .. bufSize
           /\ a + read1 <= bufSize
           /\ read2 \in 0 .. bufSize
           /\ read1 + read2 >= 1
           /\ read1 + read2 <= FillUpTo(bLocal)
           /\ read2 > 0 => a + read1 = bufSize
<1>1. /\ a \in 0 .. bufSize - 1 /\ bLocal \in 0 .. bufSize - 1
      /\ length \in Nat /\ length >= 1 /\ bufSize \in Nat
  BY SizesAssumption DEF TypeOK, Snapshot, Cells
<1> QED  BY <1>1 DEF read1, read2, Min2, FillUpTo

LEMMA TypeBufferThread ==
    ASSUME TypeOK, Room, Written, BufferThread
    PROVE  TypeOK'
<1> USE DEF ring, status, writer, reader
<1>1. CASE threadStart
  BY <1>1 DEF threadStart, TypeOK
<1>2. CASE threadLoop
  <2>1. 0 \in Cells
    BY SizesAssumption DEF Cells
  <2>2. maxWrite \in 0 .. bufSize
    BY SizesAssumption DEF maxWrite, TypeOK, Cells
  <2>3. chunkSize' \in 0 .. bufSize
    BY <1>2, <2>2, SizesAssumption DEF threadLoop, TypeOK, Min2
  <2>4. a' \in Cells /\ b' \in Cells
    BY <1>2, <2>1 DEF threadLoop, TypeOK
  <2> QED  BY <1>2, <2>3, <2>4 DEF threadLoop, TypeOK
<1>3. CASE threadWake
  BY <1>3 DEF threadWake, AfterWait, TypeOK
<1>4. CASE SourceReturns
  <2> PICK n \in {CHECK_SOCKET, -1} \cup 0 .. chunkSize : sourceRead(n)
    BY <1>4 DEF SourceReturns
  <2>1. n \in {CHECK_SOCKET, -1} \cup 0 .. bufSize /\ n \in Int
    BY SizesAssumption DEF TypeOK, CHECK_SOCKET
  <2>2. buffer' \in [Cells -> Nat]
    <3>1. \A i \in Cells : b <= i => produced + 1 + (i - b) \in Nat
      BY SizesAssumption DEF TypeOK, Cells
    <3> QED  BY <3>1 DEF sourceRead, TypeOK
  <2> QED  BY <2>1, <2>2 DEF sourceRead, TypeOK
<1>5. CASE threadStore
  <2>1. readBytes \in Int /\ (readBytes > 0 => b + readBytes <= bufSize)
    BY <1>5, SizesAssumption DEF threadStore, TypeOK, Room, Written, CHECK_SOCKET, Cells
  <2>2. readBytes > 0 => NextB \in Cells /\ produced + readBytes \in Nat
    BY <2>1, SizesAssumption DEF NextB, TypeOK, Cells
  <2>3. b' \in Cells /\ produced' \in Nat
    BY <1>5, <2>2 DEF threadStore, TypeOK
  <2>4. /\ empty' \in BOOLEAN /\ waitForInitialFillSize' \in BOOLEAN
        /\ checkSocket' \in BOOLEAN /\ rsig' \in BOOLEAN
    BY <1>5 DEF threadStore, SignalReader, TypeOK
  <2> QED  BY <1>5, <2>3, <2>4 DEF threadStore, TypeOK
<1>6. CASE threadEnd
  <2>1. eof' \in BOOLEAN /\ readError' \in BOOLEAN /\ rsig' \in BOOLEAN
    BY <1>6 DEF threadEnd, SignalReader, TypeOK
  <2> QED  BY <1>6, <2>1 DEF threadEnd, TypeOK
<1> QED  BY <1>1, <1>2, <1>3, <1>4, <1>5, <1>6 DEF BufferThread

LEMMA TypeReader ==
    ASSUME TypeOK, Snapshot, Copied,
           ReaderThread \/ (\E len \in 1 .. MaxLength : read(len)) \/ close
    PROVE  TypeOK'
<1> USE DEF ring, status, writer, reader
<1>1. CASE readWake
  <2>1. readCheck
    BY <1>1 DEF readWake
  <2>2. /\ checkSocket' \in BOOLEAN /\ ret' \in Int /\ bLocal' \in Cells
        /\ r' \in {"idle", "wait", "copy", "copied", "joining", "closed"}
    BY <2>1, ReadCheckEffect
  <2>3. /\ UNCHANGED <<buffer, a, b, empty, eof, readError, threadShutdown,
                       waitForInitialFillSize, w, chunkSize, readBytes, produced,
                       wsig, length, buf, posRead>>
        /\ rsig' = FALSE
    BY <1>1 DEF readWake
  <2> QED  BY <2>2, <2>3 DEF TypeOK
<1>2. CASE readCopy
  <2>1. /\ read1 \in Nat /\ read2 \in Nat
        /\ a + read1 <= bufSize /\ read2 <= bufSize
    BY <1>2, CopySizes DEF readCopy
  <2>2. ASSUME NEW i \in 1 .. read1 + read2
        PROVE  (IF i <= read1 THEN buffer[a + i - 1] ELSE buffer[i - read1 - 1]) \in Nat
    <3>1. i <= read1 => a + i - 1 \in Cells
      BY <2>1, SizesAssumption DEF TypeOK, Cells
    <3>2. ~(i <= read1) => i - read1 - 1 \in Cells
      BY <2>1, SizesAssumption DEF TypeOK, Cells
    <3> QED  BY <3>1, <3>2 DEF TypeOK
  <2>3. buf' \in Seq(Nat)
    BY <1>2, <2>1, <2>2 DEF readCopy
  <2> QED  BY <1>2, <2>3 DEF readCopy, TypeOK
<1>3. CASE readDone
  <2>1. Len(buf) \in 1 .. bufSize
    BY <1>3, FillNowRange, SizesAssumption DEF readDone, Copied, TypeOK
  <2>2. NextA \in Cells
    BY <2>1, SizesAssumption DEF NextA, TypeOK, Cells
  <2>3. posRead' \in Nat /\ ret' \in Int
    BY <1>3, <2>1 DEF readDone, TypeOK
  <2>4. empty' \in BOOLEAN /\ wsig' \in BOOLEAN
    BY <1>3 DEF readDone, SignalWriter, TypeOK
  <2> QED  BY <1>3, <2>2, <2>3, <2>4 DEF readDone, TypeOK
<1>4. CASE closeDone
  BY <1>4 DEF closeDone, TypeOK
<1>5. ASSUME NEW len \in 1 .. MaxLength, read(len) PROVE TypeOK'
  <2>1. length' \in Nat
    BY <1>5, SizesAssumption DEF read
  <2> QED  BY <1>5, <2>1, ReadCheckEffect DEF read, TypeOK
<1>6. CASE close
  BY <1>6 DEF close, SignalWriter, TypeOK
<1> QED  BY <1>1, <1>2, <1>3, <1>4, <1>5, <1>6 DEF ReaderThread

----------------------------------------------------------------------------
(* The ring *)

LEMMA RingInit == Init => RingInv
<1> SUFFICES ASSUME Init PROVE RingInv
  OBVIOUS
<1>1. FillNow = 0
  BY DEF Init, FillNow
<1>2. RingPart
  BY <1>1, SizesAssumption DEF Init, RingPart, Cells
<1> QED  BY <1>2, TypeInit DEF Init, RingInv, Room, Written, Snapshot, Copied

\* Steps that leave the ring alone and start no access to it.
LEMMA RingFrame ==
    ASSUME RingInv,
           UNCHANGED <<buffer, a, b, empty, posRead, produced>>,
           w' \in {"reading", "relock"} => w' = w /\ UNCHANGED <<chunkSize, readBytes>>,
           r' \in {"wait", "copy", "copied"} => r' = r /\ UNCHANGED <<length, bLocal, buf>>
    PROVE  RingPart' /\ Room' /\ Written' /\ Snapshot' /\ Copied'
<1>1. FillNow' = FillNow /\ (\A i \in Cells : At(i)' = At(i))
  BY DEF FillNow, FillUpTo, At
<1>2. RingPart'
  BY <1>1 DEF RingInv, RingPart
<1>3. Room' /\ Written'
  BY <1>1 DEF RingInv, Room, Written
<1>4. Snapshot' /\ Copied'
  BY <1>1 DEF RingInv, Snapshot, Copied, FillUpTo
<1> QED  BY <1>2, <1>3, <1>4

LEMMA RingThreadLoop ==
    ASSUME RingInv, threadLoop
    PROVE  RingPart' /\ Room' /\ Written' /\ Snapshot' /\ Copied'
<1> USE DEF RingInv, reader, status
<1>t. /\ a \in 0 .. bufSize - 1 /\ b \in 0 .. bufSize - 1 /\ bufSize \in Nat
      /\ maxChunkSize \in Nat \ {0}
  BY SizesAssumption DEF TypeOK, Cells
<1>1. FillNow' = FillNow
  BY DEF threadLoop, FillNow, FillUpTo
<1>2. ~empty => a' = a /\ b' = b
  BY DEF threadLoop
<1>3. RingPart'
  <2>1. empty' => a' = b'
    BY DEF threadLoop, RingPart
  <2>2. produced' = posRead' + FillNow'
    BY <1>1 DEF threadLoop, RingPart
  <2>3. ASSUME NEW i \in Cells, i < FillNow' PROVE (buffer[At(i)] = posRead + i + 1)'
    <3>1. ~empty
      BY <1>1, <2>3 DEF FillNow, Cells
    <3>2. At(i)' = At(i)
      BY <1>2, <3>1 DEF At
    <3> QED  BY <1>1, <2>3, <3>2 DEF threadLoop, RingPart
  <2> QED  BY <2>1, <2>2, <2>3 DEF RingPart
<1>4. Room'
  <2>1. CASE empty
    BY <1>t, <2>1 DEF threadLoop, Room, FillNow, maxWrite, Min2
  <2>2. CASE ~empty
    BY <1>t, <2>2 DEF threadLoop, Room, FillNow, FillUpTo, maxWrite, Min2
  <2> QED  BY <2>1, <2>2
<1>5. Written'
  BY DEF threadLoop, Written
<1>6. Snapshot'
  BY <1>1, <1>2 DEF threadLoop, Snapshot, FillUpTo
<1>7. Copied'
  BY <1>1 DEF threadLoop, Copied
<1> QED  BY <1>3, <1>4, <1>5, <1>6, <1>7

LEMMA RingSourceRead ==
    ASSUME RingInv, NEW n \in {CHECK_SOCKET, -1} \cup 0 .. chunkSize, sourceRead(n)
    PROVE  RingPart' /\ Room' /\ Written' /\ Snapshot' /\ Copied'
<1> USE DEF RingInv, reader, status
<1>t. /\ a \in 0 .. bufSize - 1 /\ b \in 0 .. bufSize - 1 /\ bufSize \in Nat
      /\ chunkSize \in 1 .. bufSize /\ n \in Int /\ n <= chunkSize
      /\ b + chunkSize <= bufSize /\ FillNow + chunkSize <= bufSize
      /\ FillNow \in 0 .. bufSize
  BY SizesAssumption, FillNowRange DEF TypeOK, Cells, CHECK_SOCKET, Room, sourceRead
<1>1. FillNow' = FillNow /\ (\A i \in Cells : At(i)' = At(i))
  BY DEF sourceRead, FillNow, FillUpTo, At
<1>2. ASSUME NEW i \in Cells, i < FillNow
      PROVE  At(i) \in Cells /\ ~(b <= At(i) /\ At(i) < b + n)
  BY <1>t, <1>2 DEF At, FillNow, FillUpTo, Cells
<1>3. RingPart'
  <2>1. ASSUME NEW i \in Cells, i < FillNow
        PROVE  buffer'[At(i)] = buffer[At(i)]
    BY <1>2, <2>1 DEF sourceRead
  <2> QED  BY <1>1, <2>1 DEF sourceRead, RingPart
<1>4. Room'
  BY <1>1 DEF sourceRead, Room
<1>5. Written'
  BY <1>t DEF sourceRead, Written
<1>6. Snapshot' /\ Copied'
  BY <1>1 DEF sourceRead, Snapshot, Copied, FillUpTo
<1> QED  BY <1>3, <1>4, <1>5, <1>6

LEMMA RingThreadStore ==
    ASSUME RingInv, threadStore
    PROVE  RingPart' /\ Room' /\ Written' /\ Snapshot' /\ Copied'
<1> USE DEF RingInv, reader, status
<1>0. readBytes \in Int /\ CHECK_SOCKET \in Int /\ CHECK_SOCKET < 0
  BY SizesAssumption DEF TypeOK, CHECK_SOCKET
<1>1. CASE readBytes <= 0
  <2>0. ~(readBytes > 0)
    BY <1>0, <1>1
  <2>1. UNCHANGED <<buffer, a, b, empty, posRead, produced>>
    BY <2>0 DEF threadStore
  <2>2. w' \notin {"reading", "relock"} /\ UNCHANGED <<r, length, bLocal, buf>>
    BY DEF threadStore
  <2> QED  BY <2>1, <2>2, RingFrame
<1>2. CASE readBytes > 0
  <2>t. /\ a \in 0 .. bufSize - 1 /\ b \in 0 .. bufSize - 1 /\ bufSize \in Nat
        /\ readBytes \in 1 .. bufSize /\ b + readBytes <= bufSize
        /\ FillNow + readBytes <= bufSize /\ FillNow \in 0 .. bufSize
        /\ posRead \in Nat /\ produced = posRead + FillNow
    BY <1>2, SizesAssumption, FillNowRange
    DEF TypeOK, Cells, CHECK_SOCKET, Room, Written, RingPart, threadStore
  <2>n. ~(readBytes <= 0) /\ readBytes # CHECK_SOCKET
    BY <1>0, <1>2
  <2>0. /\ b' = NextB /\ empty' = FALSE /\ produced' = produced + readBytes
        /\ UNCHANGED <<buffer, a, posRead, r, length, bLocal, buf>>
        /\ w' \notin {"reading", "relock"}
    BY <2>n DEF threadStore
  <2>1. FillNow' = FillNow + readBytes
    BY <2>t, <2>0 DEF FillNow, FillUpTo, NextB, RingPart
  <2>2. \A i \in Cells : At(i)' = At(i)
    BY <2>0 DEF At
  <2>3. RingPart'
    <3>1. produced' = posRead' + FillNow'
      BY <2>t, <2>0, <2>1
    <3>2. ASSUME NEW i \in Cells, i < FillNow + readBytes
          PROVE  buffer[At(i)] = posRead + i + 1
      <4>1. CASE i < FillNow
        BY <4>1 DEF RingPart
      <4>2. CASE ~(i < FillNow)
        <5>1. /\ At(i) \in Cells
              /\ At(i) = b + (i - FillNow)
              /\ b <= At(i) /\ At(i) < b + readBytes
          BY <2>t, <3>2, <4>2 DEF At, FillNow, FillUpTo, Cells, RingPart
        <5>2. buffer[At(i)] = produced + 1 + (At(i) - b)
          BY <5>1 DEF Written, threadStore
        <5>3. i \in Int
          BY <2>t DEF Cells
        <5> QED  BY <2>t, <5>1, <5>2, <5>3
      <4> QED  BY <4>1, <4>2
    <3> QED  BY <2>0, <2>1, <2>2, <3>1, <3>2 DEF RingPart
  <2>4. Room' /\ Written'
    BY <2>0 DEF Room, Written
  <2>5. Snapshot'
    <3>1. FillUpTo(bLocal)' = FillUpTo(bLocal)
      BY <2>0 DEF FillUpTo
    <3>2. FillUpTo(bLocal) \in Nat
      BY FillRange DEF TypeOK
    <3> QED  BY <2>t, <2>0, <2>1, <3>1, <3>2 DEF Snapshot
  <2>6. Copied'
    BY <2>t, <2>0, <2>1 DEF Copied, TypeOK
  <2> QED  BY <2>3, <2>4, <2>5, <2>6
<1> QED  BY <1>0, <1>1, <1>2

LEMMA RingReadCheck ==
    ASSUME RingInv, readCheck, length' >= 1,
           UNCHANGED <<buffer, a, b, empty, posRead, produced, w, chunkSize, readBytes>>
    PROVE  RingPart' /\ Room' /\ Written' /\ Snapshot' /\ Copied'
<1> USE DEF RingInv
<1>1. /\ r' \in {"idle", "wait", "copy"}
      /\ r' = "copy" => ~empty /\ bLocal' = b
  BY ReadCheckEffect
<1>2. FillNow' = FillNow /\ (\A i \in Cells : At(i)' = At(i))
  BY DEF FillNow, FillUpTo, At
<1>3. RingPart' /\ Room' /\ Written'
  BY <1>2 DEF RingPart, Room, Written
<1>4. Snapshot'
  <2>1. r' = "copy" => FillUpTo(bLocal)' = FillNow /\ FillNow \in Int
    BY <1>1, FillNowRange, SizesAssumption DEF FillNow, FillUpTo
  <2> QED  BY <1>1, <1>2, <2>1 DEF Snapshot
<1>5. Copied'
  BY <1>1 DEF Copied
<1> QED  BY <1>3, <1>4, <1>5

LEMMA RingReadCopy ==
    ASSUME RingInv, readCopy
    PROVE  RingPart' /\ Room' /\ Written' /\ Snapshot' /\ Copied'
<1> USE DEF RingInv, ring, writer
<1>0. /\ UNCHANGED <<buffer, a, b, empty, posRead, produced, w, chunkSize, readBytes,
                      length, bLocal>>
      /\ r = "copy" /\ r' = "copied"
      /\ buf' = [i \in 1 .. read1 + read2 |->
                  IF i <= read1 THEN buffer[a + i - 1] ELSE buffer[i - read1 - 1]]
  BY DEF readCopy
<1>1. FillNow' = FillNow /\ (\A i \in Cells : At(i)' = At(i))
  BY <1>0 DEF FillNow, FillUpTo, At
<1>2. RingPart' /\ Room' /\ Written'
  BY <1>0, <1>1 DEF RingPart, Room, Written
<1>3. Snapshot'
  BY <1>0, <1>1 DEF Snapshot, FillUpTo
<1>4. Copied'
  <2>1. /\ read1 \in 1 .. bufSize /\ read2 \in 0 .. bufSize
        /\ a + read1 <= bufSize
        /\ read1 + read2 <= FillUpTo(bLocal)
        /\ read2 > 0 => a + read1 = bufSize
    BY <1>0, CopySizes
  <2>2. /\ FillUpTo(bLocal) \in 1 .. bufSize /\ FillUpTo(bLocal) <= FillNow
        /\ FillNow \in 0 .. bufSize
    BY <1>0, FillRange, FillNowRange DEF Snapshot, TypeOK
  <2>3. Len(buf') = read1 + read2
    BY <1>0, <2>1
  <2>4. ASSUME NEW i \in 1 .. read1 + read2
        PROVE  buf'[i] = posRead + i
    <3>1. /\ i - 1 \in Cells /\ i - 1 < FillNow
          /\ At(i - 1) = IF i <= read1 THEN a + i - 1 ELSE i - read1 - 1
      BY <2>1, <2>2, SizesAssumption DEF At, Cells, TypeOK
    <3>2. buffer[At(i - 1)] = posRead + (i - 1) + 1
      BY <3>1 DEF RingPart
    <3>3. buf'[i] = buffer[At(i - 1)]
      BY <1>0, <3>1
    <3>4. posRead \in Nat /\ i \in Int
      BY <2>1 DEF TypeOK
    <3> QED  BY <3>2, <3>3, <3>4
  <2> QED  BY <1>0, <1>1, <2>1, <2>2, <2>3, <2>4 DEF Copied
<1> QED  BY <1>2, <1>3, <1>4

LEMMA RingReadDone ==
    ASSUME RingInv, readDone
    PROVE  RingPart' /\ Room' /\ Written' /\ Snapshot' /\ Copied'
<1> USE DEF RingInv, writer, status
<1>t. /\ a \in 0 .. bufSize - 1 /\ b \in 0 .. bufSize - 1 /\ bufSize \in Nat
      /\ FillNow \in 1 .. bufSize /\ ~empty
      /\ Len(buf) \in 1 .. FillNow /\ posRead \in Nat
  BY SizesAssumption, FillNowRange DEF TypeOK, Cells, readDone, Copied, Snapshot
<1>0. /\ a' = NextA /\ empty' = (NextA = b) /\ posRead' = posRead + Len(buf)
      /\ UNCHANGED <<buffer, b, produced, w, chunkSize, readBytes>>
      /\ r' = "idle"
  BY <1>t DEF readDone
<1>1. FillNow' = FillNow - Len(buf)
  <2>1. FillNow = IF b - a <= 0 THEN b - a + bufSize ELSE b - a
    BY <1>t DEF FillNow, FillUpTo
  <2>2. FillNow' = IF NextA = b THEN 0
                   ELSE IF b - NextA <= 0 THEN b - NextA + bufSize ELSE b - NextA
    BY <1>0 DEF FillNow, FillUpTo
  <2>3. NextA = IF a + Len(buf) >= bufSize THEN a + Len(buf) - bufSize ELSE a + Len(buf)
    BY DEF NextA
  <2>4. Len(buf) \in Nat /\ 1 <= Len(buf) /\ Len(buf) <= FillNow
    BY <1>t
  <2>5. (IF NextA = b THEN 0
         ELSE IF b - NextA <= 0 THEN b - NextA + bufSize ELSE b - NextA)
            = FillNow - Len(buf)
    <3> HIDE DEF RingInv
    <3>1. CASE b - a <= 0 /\ a + Len(buf) >= bufSize
      BY <1>t, <2>1, <2>3, <2>4, <3>1
    <3>2. CASE b - a <= 0 /\ ~(a + Len(buf) >= bufSize)
      BY <1>t, <2>1, <2>3, <2>4, <3>2
    <3>3. CASE ~(b - a <= 0)
      <4>1. FillNow = b - a /\ a + Len(buf) <= b /\ NextA = a + Len(buf)
        BY <1>t, <2>1, <2>3, <2>4, <3>3
      <4> QED  BY <1>t, <2>4, <4>1
    <3> QED  BY <3>1, <3>2, <3>3
  <2> QED  BY <2>2, <2>5
<1>2. RingPart'
  <2>1. empty' => a' = b'
    BY <1>0
  <2>2. produced' = posRead' + FillNow'
    BY <1>t, <1>0, <1>1 DEF RingPart
  <2>3. ASSUME NEW i \in Cells, i < FillNow - Len(buf)
        PROVE  (buffer[At(i)] = posRead + i + 1)'
    <3>1. /\ i + Len(buf) \in Cells /\ i + Len(buf) < FillNow
          /\ At(i)' = At(i + Len(buf)) /\ i \in Int
      BY <1>t, <1>0, <2>3 DEF At, Cells, NextA
    <3>2. buffer[At(i + Len(buf))] = posRead + (i + Len(buf)) + 1
      BY <3>1 DEF RingPart
    <3> QED  BY <1>t, <1>0, <3>1, <3>2
  <2> QED  BY <1>1, <2>1, <2>2, <2>3 DEF RingPart
<1>3. Room'
  BY <1>t, <1>0, <1>1 DEF Room, TypeOK
<1>4. Written'
  BY <1>0 DEF Written
<1>5. Snapshot' /\ Copied'
  BY <1>0 DEF Snapshot, Copied
<1> QED  BY <1>2, <1>3, <1>4, <1>5

LEMMA RingNext ==
    ASSUME RingInv, [Next]_vars
    PROVE  RingInv'
<1> USE DEF ring, status, writer, reader
<1>t. TypeOK'
  <2>1. CASE UNCHANGED vars
    BY <2>1 DEF vars, RingInv, TypeOK
  <2> QED  BY <2>1, TypeBufferThread, TypeReader DEF RingInv, Next
<1> SUFFICES RingPart' /\ Room' /\ Written' /\ Snapshot' /\ Copied'
  BY <1>t DEF RingInv
<1>1. CASE threadStart
  BY <1>1, RingFrame DEF threadStart
<1>2. CASE threadLoop
  BY <1>2, RingThreadLoop
<1>3. CASE threadWake
  <2>1. w' \notin {"reading", "relock"}
    BY <1>3 DEF threadWake, AfterWait
  <2> QED  BY <1>3, <2>1, RingFrame DEF threadWake
<1>4. CASE SourceReturns
  BY <1>4, RingSourceRead DEF SourceReturns
<1>5. CASE threadStore
  BY <1>5, RingThreadStore
<1>6. CASE threadEnd
  BY <1>6, RingFrame DEF threadEnd
<1>7. CASE readWake
  <2>1. length' >= 1
    BY <1>7 DEF readWake, RingInv, Snapshot
  <2> QED  BY <1>7, <2>1, RingReadCheck DEF readWake
<1>8. CASE readCopy
  BY <1>8, RingReadCopy
<1>9. CASE readDone
  BY <1>9, RingReadDone
<1>10. CASE closeDone
  BY <1>10, RingFrame DEF closeDone
<1>11. ASSUME NEW len \in 1 .. MaxLength, read(len)
       PROVE  RingPart' /\ Room' /\ Written' /\ Snapshot' /\ Copied'
  <2>1. length' >= 1
    BY <1>11, SizesAssumption DEF read
  <2> QED  BY <1>11, <2>1, RingReadCheck DEF read
<1>12. CASE close
  BY <1>12, RingFrame DEF close
<1>13. CASE UNCHANGED vars
  BY <1>13, RingFrame DEF vars
<1> QED  BY <1>1, <1>2, <1>3, <1>4, <1>5, <1>6, <1>7, <1>8, <1>9, <1>10, <1>11,
            <1>12, <1>13 DEF Next, BufferThread, ReaderThread

LEMMA RingInvariant == Spec => []RingInv
BY RingInit, RingNext, PTL DEF Spec

\* The types of the buffer's state hold for every size.
THEOREM TypeCorrect == Spec => []TypeOK
<1>1. RingInv => TypeOK
  BY DEF RingInv
<1> QED  BY <1>1, RingInvariant, PTL

\* The reader gets the bytes of the source in order, without loss and without
\* duplicates, for every size of the buffer.
THEOREM InOrder == Spec => []DeliveredInOrder
<1>1. RingInv => DeliveredInOrder
  BY DEF RingInv, Copied, DeliveredInOrder
<1> QED  BY <1>1, RingInvariant, PTL

\* The unlocked accesses of the two threads never meet in the memory.
THEOREM NoRace == Spec => []NoDataRace
<1>1. RingInv => NoDataRace
  <2> SUFFICES ASSUME RingInv, w = "reading", r = "copy", NEW i \in Cells,
                      b <= i, i < b + chunkSize
               PROVE  ~(a <= i /\ i < a + read1) /\ ~(i < read2)
    BY DEF NoDataRace, WriterCells, ReaderCells
  <2>1. /\ a \in 0 .. bufSize - 1 /\ b \in 0 .. bufSize - 1 /\ bufSize \in Nat
        /\ i \in Int /\ chunkSize \in Int /\ ~empty
        /\ FillNow + chunkSize <= bufSize /\ b + chunkSize <= bufSize
    BY SizesAssumption DEF RingInv, TypeOK, Cells, Room, Snapshot
  <2>2. /\ read1 \in 1 .. bufSize /\ read2 \in 0 .. bufSize
        /\ a + read1 <= bufSize
        /\ read1 + read2 <= FillUpTo(bLocal)
        /\ read2 > 0 => a + read1 = bufSize
    BY CopySizes DEF RingInv
  <2>3. FillUpTo(bLocal) \in Int /\ FillUpTo(bLocal) <= FillNow
    BY FillRange DEF RingInv, TypeOK, Snapshot
  <2> QED  BY <2>1, <2>2, <2>3 DEF FillNow, FillUpTo
<1> QED  BY <1>1, RingInvariant, PTL

----------------------------------------------------------------------------
(* Signals.  The buffer thread can be asleep only in front of a full       *)
(* buffer, and a full buffer has reached its initial fill size.            *)

AwakePart ==
    /\ NoLostSignal
    /\ w = "start" => empty
    /\ w = "top" => ~threadShutdown \/ empty
    /\ waitForInitialFillSize => FillNow < initialFillSize

AwakeInv == RingInv /\ AwakePart

LEMMA AwakeInit == Init => AwakeInv
<1> SUFFICES ASSUME Init PROVE AwakePart
  BY RingInit DEF AwakeInv
<1>1. FillNow = 0
  BY DEF Init, FillNow
<1>2. waitForInitialFillSize => FillNow < initialFillSize
  BY <1>1, SizesAssumption DEF Init
<1> QED  BY <1>2 DEF Init, AwakePart, NoLostSignal

\* Steps that leave the ring and the status alone and put nobody to sleep.
LEMMA AwakeFrame ==
    ASSUME AwakeInv,
           UNCHANGED <<a, b, empty, eof, readError, threadShutdown,
                       waitForInitialFillSize, checkSocket>>,
           r' = "wait" => r = "wait" /\ rsig' = rsig,
           w' = "wait" => w = "wait" /\ wsig' = wsig,
           w' = "top" => w = "top" \/ ~threadShutdown \/ empty,
           w' = "start" => w = "start"
    PROVE  AwakePart'
<1>1. FillNow' = FillNow /\ Blocked' = Blocked
  BY DEF FillNow, FillUpTo, Blocked
<1>2. NoLostSignal'
  BY <1>1 DEF AwakeInv, AwakePart, NoLostSignal
<1> QED  BY <1>1, <1>2 DEF AwakeInv, AwakePart

LEMMA AwakeThread ==
    ASSUME AwakeInv, BufferThread
    PROVE  AwakePart'
<1> USE DEF ring, status, reader, AwakeInv
<1>1. CASE threadStart
  <2>1. empty
    BY <1>1 DEF threadStart, AwakePart
  <2> QED  BY <1>1, <2>1, AwakeFrame DEF threadStart
<1>2. CASE threadLoop
  <2>1. FillNow' = FillNow /\ Blocked' = Blocked
    BY <1>2 DEF threadLoop, FillNow, FillUpTo, Blocked
  <2>2. w' = "wait" => ~empty /\ a = b
    BY <1>2, SizesAssumption DEF threadLoop, maxWrite, RingInv, TypeOK, Cells
  <2>3. NoLostSignal'
    BY <1>2, <2>1, <2>2 DEF threadLoop, AwakePart, NoLostSignal
  <2> QED  BY <1>2, <2>1, <2>3 DEF threadLoop, AwakePart
<1>3. CASE threadWake
  <2>1. w' = "top" => ~threadShutdown
    BY <1>3 DEF threadWake, AfterWait
  <2>2. w' \in {"top", "end"}
    BY <1>3 DEF threadWake, AfterWait
  <2> QED  BY <1>3, <2>1, <2>2, AwakeFrame DEF threadWake
<1>4. CASE SourceReturns
  BY <1>4, AwakeFrame DEF SourceReturns, sourceRead
<1>5. CASE threadStore
  <2>0. w' \in {"top", "end"} /\ (w' = "top" => ~threadShutdown')
    BY <1>5 DEF threadStore
  <2>t. readBytes \in Int /\ CHECK_SOCKET \in Int /\ CHECK_SOCKET < 0
    BY SizesAssumption DEF RingInv, TypeOK, CHECK_SOCKET
  <2>1. CASE readBytes > 0
    <3>0. ~(readBytes <= 0) /\ readBytes # CHECK_SOCKET
      BY <2>t, <2>1
    <3>1. /\ b' = NextB /\ ~empty'
          /\ waitForInitialFillSize' = (waitForInitialFillSize /\ ~InitialFillReached(NextB))
          /\ SignalReader(empty \/ InitialFillReached(NextB))
          /\ UNCHANGED <<a, checkSocket, eof, readError, threadShutdown, r>>
      BY <1>5, <3>0 DEF threadStore
    <3>2. r' = "wait" /\ ~rsig' => Blocked' /\ ~checkSocket'
      BY <3>1 DEF SignalReader, Blocked, AwakePart, NoLostSignal
    <3>3. waitForInitialFillSize' => FillNow' < initialFillSize
      <4>1. waitForInitialFillSize' => ~(FillUpTo(NextB) >= initialFillSize)
        BY <3>1 DEF InitialFillReached
      <4>2. FillNow' = FillUpTo(NextB)
        BY <3>1 DEF FillNow, FillUpTo
      <4>3. FillNow' \in Int
        <5>1. TypeOK'
          BY TypeBufferThread DEF RingInv
        <5>2. a' \in Int /\ b' \in Int /\ bufSize \in Int
          BY <5>1, SizesAssumption DEF TypeOK, Cells
        <5>3. b' - a' + bufSize \in Int /\ b' - a' \in Int /\ 0 \in Int
          BY <5>2
        <5> QED  BY <5>3, Zenon DEF FillNow, FillUpTo
      <4>4. initialFillSize \in Int
        BY SizesAssumption
      <4>5. ~(FillNow' >= initialFillSize) => FillNow' < initialFillSize
        BY <4>3, <4>4
      <4> QED  BY <4>1, <4>2, <4>5, Zenon
    <3> QED  BY <2>0, <3>1, <3>2, <3>3 DEF AwakePart, NoLostSignal
  <2>2. CASE readBytes = CHECK_SOCKET
    <3>0. ~(readBytes > 0) /\ ~(readBytes # CHECK_SOCKET)
      BY <2>t, <2>2
    <3>1. /\ UNCHANGED <<a, b, empty, waitForInitialFillSize, threadShutdown, r>>
          /\ r = "wait" => rsig'
      BY <1>5, <3>0 DEF threadStore, SignalReader
    <3>2. FillNow' = FillNow
      BY <3>1 DEF FillNow, FillUpTo
    <3> QED  BY <2>0, <3>1, <3>2 DEF AwakePart, NoLostSignal
  <2>3. CASE ~(readBytes > 0) /\ readBytes # CHECK_SOCKET
    <3>1. UNCHANGED <<a, b, empty, eof, readError, threadShutdown,
                      waitForInitialFillSize, checkSocket, r, rsig>>
      BY <1>5, <2>3 DEF threadStore
    <3> QED  BY <2>0, <3>1, AwakeFrame
  <2> QED  BY <2>1, <2>2, <2>3
<1>6. CASE threadEnd
  <2>1. FillNow' = FillNow
    BY <1>6 DEF threadEnd, FillNow, FillUpTo
  <2>2. r' = "wait" => rsig'
    BY <1>6 DEF threadEnd, SignalReader
  <2> QED  BY <1>6, <2>1, <2>2 DEF threadEnd, AwakePart, NoLostSignal
<1> QED  BY <1>1, <1>2, <1>3, <1>4, <1>5, <1>6 DEF BufferThread

LEMMA AwakeReader ==
    ASSUME AwakeInv, RingInv',
           ReaderThread \/ (\E len \in 1 .. MaxLength : read(len)) \/ close
    PROVE  AwakePart'
<1> USE DEF ring, status, writer, AwakeInv
<1>1. ASSUME readCheck,
             UNCHANGED <<a, b, empty, eof, readError, threadShutdown,
                         waitForInitialFillSize, w, wsig>>
      PROVE  AwakePart'
  <2>1. FillNow' = FillNow
    BY <1>1 DEF FillNow, FillUpTo
  <2>2. r' = "wait" => Blocked' /\ ~checkSocket'
    BY <1>1 DEF readCheck, Blocked
  <2> QED  BY <1>1, <2>1, <2>2 DEF AwakePart, NoLostSignal
<1>2. CASE readWake
  BY <1>1, <1>2 DEF readWake
<1>3. CASE readCopy
  BY <1>3, AwakeFrame DEF readCopy
<1>4. CASE readDone
  <2>1. w # "top" /\ w # "start" /\ r' = "idle" /\ UNCHANGED <<w, threadShutdown, waitForInitialFillSize>>
    BY <1>4 DEF readDone, MutexFree, AwakePart, RingInv, Snapshot
  <2>2. ~(w = "wait" /\ ~wsig')
    BY <1>4 DEF readDone, SignalWriter, WriterMayWait, AwakePart, NoLostSignal
  <2>3. FillNow' <= FillNow /\ FillNow \in Int /\ FillNow' \in Int
    <3>1. produced = posRead + FillNow /\ produced' = posRead' + FillNow'
      BY DEF RingInv, RingPart
    <3>2. produced' = produced /\ posRead' = posRead + Len(buf)
      BY <1>4 DEF readDone
    <3>3. FillNow \in Int /\ FillNow' \in Int /\ posRead \in Nat
      <4>1. FillNow \in Int
        BY SizesAssumption DEF RingInv, TypeOK, FillNow, FillUpTo, Cells
      <4>2. FillNow' \in Int
        <5>1. a' \in Cells /\ b' \in Cells
          BY DEF RingInv, TypeOK
        <5>2. a' \in Int /\ b' \in Int /\ bufSize \in Int
          BY <5>1, SizesAssumption DEF Cells
        <5>3. b' - a' + bufSize \in Int /\ b' - a' \in Int /\ 0 \in Int
          BY <5>2
        <5> QED  BY <5>3, Zenon DEF FillNow, FillUpTo
      <4>3. posRead \in Nat
        BY DEF RingInv, TypeOK
      <4> QED  BY <4>1, <4>2, <4>3
    <3>4. Len(buf) \in Nat
      BY DEF RingInv, TypeOK
    <3> QED  BY <3>1, <3>2, <3>3, <3>4
  <2>4. waitForInitialFillSize' => FillNow' < initialFillSize
    BY <2>1, <2>3, SizesAssumption DEF AwakePart
  <2> QED  BY <2>1, <2>2, <2>4 DEF AwakePart, NoLostSignal
<1>5. CASE closeDone
  BY <1>5, AwakeFrame DEF closeDone
<1>6. ASSUME NEW len \in 1 .. MaxLength, read(len) PROVE AwakePart'
  BY <1>1, <1>6 DEF read
<1>7. CASE close
  <2>1. FillNow' = FillNow
    BY <1>7 DEF close, FillNow, FillUpTo
  <2>2. w # "top" /\ r' = "joining" /\ (w = "wait" => wsig') /\ UNCHANGED <<w, empty, waitForInitialFillSize>>
    BY <1>7 DEF close, MutexFree, SignalWriter
  <2> QED  BY <2>1, <2>2 DEF AwakePart, NoLostSignal
<1> QED  BY <1>2, <1>3, <1>4, <1>5, <1>6, <1>7 DEF ReaderThread

LEMMA AwakeInvariant == Spec => []AwakeInv
<1>1. AwakeInv /\ [Next]_vars => AwakeInv'
  <2> SUFFICES ASSUME AwakeInv, [Next]_vars PROVE AwakeInv'
    OBVIOUS
  <2>1. RingInv'
    BY RingNext DEF AwakeInv
  <2>2. ASSUME UNCHANGED vars PROVE AwakePart'
    BY <2>2, AwakeFrame DEF vars
  <2>3. AwakePart'
    BY <2>1, <2>2, AwakeThread, AwakeReader DEF Next
  <2> QED  BY <2>1, <2>3 DEF AwakeInv
<1> QED  BY <1>1, AwakeInit, PTL DEF Spec

\* No thread sleeps through what it is waiting for.
THEOREM SignalsArrive == Spec => []NoLostSignal
<1>1. AwakeInv => NoLostSignal
  BY DEF AwakeInv, AwakePart
<1> QED  BY <1>1, AwakeInvariant, PTL

\* Reader and buffer thread never wait for each other, whatever the initial
\* fill size.
THEOREM NoMutualWait == Spec => []NotBothAsleep
<1>1. AwakeInv => NotBothAsleep
  <2> SUFFICES ASSUME AwakeInv, r = "wait", ~rsig, w = "wait", ~wsig PROVE FALSE
    BY DEF NotBothAsleep
  <2>1. ~empty /\ a = b /\ waitForInitialFillSize
    BY DEF AwakeInv, AwakePart, NoLostSignal, Blocked
  <2>2. FillNow = bufSize
    BY <2>1, SizesAssumption DEF AwakeInv, RingInv, TypeOK, FillNow, FillUpTo, Cells
  <2> QED  BY <2>1, <2>2, SizesAssumption DEF AwakeInv, AwakePart
<1> QED  BY <1>1, AwakeInvariant, PTL
----------------------------------------------------------------------------
(* The refinement of ByteStream.  Besides the shape of the ring it needs    *)
(* that the thread has reported neither end nor failure while it runs.      *)

RunningInv == w # "exit" => ~eof /\ ~readError

LEMMA RunningInvariant == Spec => []RunningInv
<1> USE DEF RunningInv, ring, status, writer, reader
<1>1. Init => RunningInv
  BY DEF Init
<1>2. RunningInv /\ [Next]_vars => RunningInv'
  <2> SUFFICES ASSUME RunningInv, [Next]_vars PROVE RunningInv'
    OBVIOUS
  <2>1. CASE threadEnd
    BY <2>1 DEF threadEnd
  <2>2. CASE threadStart \/ threadLoop \/ threadWake
    BY <2>2 DEF threadStart, threadLoop, threadWake
  <2>3. CASE SourceReturns
    BY <2>3 DEF SourceReturns, sourceRead
  <2>4. CASE threadStore
    <3>1. UNCHANGED <<eof, readError>> /\ w = "relock"
      BY <2>4 DEF threadStore
    <3> QED  BY <3>1
  <2>5. CASE ReaderThread \/ close \/ \E len \in 1 .. MaxLength : read(len)
    <3>1. UNCHANGED <<eof, readError, w>>
      BY <2>5 DEF ReaderThread, readWake, readCopy, readDone, closeDone, close, read
    <3> QED  BY <3>1
  <2>6. CASE UNCHANGED vars
    BY <2>6 DEF vars
  <2> QED  BY <2>1, <2>2, <2>3, <2>4, <2>5, <2>6 DEF Next, BufferThread
<1> QED  BY <1>1, <1>2, PTL DEF Spec

LEMMA StreamStutter ==
    ASSUME UNCHANGED <<produced, posRead, eof, readError, threadShutdown, ret>>
    PROVE  UNCHANGED Stream!streamVars
BY DEF Stream!streamVars, StreamState

LEMMA StreamStore ==
    ASSUME RingInv, RunningInv, threadStore
    PROVE  [Stream!StreamNext]_(Stream!streamVars)
<1> USE DEF status, reader
<1>1. /\ readBytes \in Int /\ chunkSize \in Int /\ bufSize \in Int
      /\ produced \in Int /\ posRead \in Int
  BY SizesAssumption DEF RingInv, TypeOK, CHECK_SOCKET
<1>2. UNCHANGED <<posRead, eof, readError, threadShutdown, ret>>
  BY DEF threadStore
<1>3. CASE readBytes > 0
  <2>1. ~(readBytes <= 0) /\ readBytes # CHECK_SOCKET
    BY <1>1, <1>3 DEF CHECK_SOCKET
  <2>2. produced' = produced + readBytes /\ w = "relock"
    BY <2>1 DEF threadStore
  <2>3. readBytes <= chunkSize /\ FillNow + chunkSize <= bufSize
        /\ produced = posRead + FillNow /\ FillNow \in Int
    BY <2>2, FillNowRange, SizesAssumption DEF RingInv, Written, Room, RingPart
  <2>4. readBytes \in 1 .. bufSize - (produced - posRead)
    BY <1>1, <1>3, <2>3
  <2>5. StreamState \in {"open", "closed"} /\ StreamState' = StreamState
    BY <1>2, <2>2 DEF RunningInv, StreamState
  <2>6. Stream!Produce
    BY <1>2, <2>2, <2>4, <2>5 DEF Stream!Produce
  <2> QED  BY <2>6 DEF Stream!StreamNext
<1>4. CASE ~(readBytes > 0)
  <2>1. produced' = produced
    BY <1>4 DEF threadStore
  <2> QED  BY <1>2, <2>1, StreamStutter
<1> QED  BY <1>3, <1>4

LEMMA StreamCheck ==
    ASSUME RingInv, readCheck,
           UNCHANGED <<produced, posRead, empty, eof, readError, threadShutdown,
                       waitForInitialFillSize>>
    PROVE  [Stream!StreamNext]_(Stream!streamVars)
<1>0. StreamState' = StreamState
  BY DEF StreamState
<1>1. CASE Blocked /\ checkSocket
  <2>1. ret' = CHECK_SOCKET /\ StreamState = "open"
    BY <1>1 DEF readCheck, Blocked, StreamState
  <2>2. Stream!ReadChecksSocket
    BY <1>0, <2>1 DEF Stream!ReadChecksSocket, Stream!CHECK_SOCKET, CHECK_SOCKET
  <2> QED  BY <2>2 DEF Stream!StreamNext
<1>2. CASE Blocked /\ ~checkSocket
  <2>1. ret' = ret
    BY <1>2 DEF readCheck
  <2> QED  BY <2>1, StreamStutter
<1>3. CASE ~Blocked /\ (readError \/ threadShutdown)
  <2>1. ret' = -1 /\ StreamState \in {"error", "closed"}
    BY <1>3 DEF readCheck, StreamState
  <2>2. Stream!ReadFails
    BY <1>0, <2>1 DEF Stream!ReadFails, Stream!ReadFailed
  <2> QED  BY <2>2 DEF Stream!StreamNext
<1>4. CASE ~Blocked /\ ~(readError \/ threadShutdown) /\ empty
  <2>1. ret' = 0 /\ StreamState = "eof"
    BY <1>4 DEF readCheck, Blocked, StreamState
  <2>2. produced = posRead
    BY <1>4 DEF RingInv, RingPart, TypeOK, FillNow
  <2>3. Stream!ReadEof
    BY <1>0, <2>1, <2>2 DEF Stream!ReadEof
  <2> QED  BY <2>3 DEF Stream!StreamNext
<1>5. CASE ~Blocked /\ ~(readError \/ threadShutdown) /\ ~empty
  <2>1. ret' = ret
    BY <1>5 DEF readCheck
  <2> QED  BY <2>1, StreamStutter
<1> QED  BY <1>1, <1>2, <1>3, <1>4, <1>5

LEMMA StreamStep ==
    ASSUME RingInv, RunningInv, [Next]_vars
    PROVE  [Stream!StreamNext]_(Stream!streamVars)
<1> USE DEF ring, status, writer, reader
<1>1. CASE threadStart \/ threadLoop \/ threadWake \/ readCopy \/ closeDone
  <2>1. UNCHANGED <<produced, posRead, eof, readError, threadShutdown, ret>>
    BY <1>1 DEF threadStart, threadLoop, threadWake, readCopy, closeDone
  <2> QED  BY <2>1, StreamStutter
<1>2. CASE SourceReturns
  <2>1. UNCHANGED <<produced, posRead, eof, readError, threadShutdown, ret>>
    BY <1>2 DEF SourceReturns, sourceRead
  <2> QED  BY <2>1, StreamStutter
<1>3. CASE threadStore
  BY <1>3, StreamStore
<1>4. CASE threadEnd
  <2>1. /\ UNCHANGED <<produced, posRead, threadShutdown, ret>>
        /\ ~eof /\ ~readError
        /\ eof' = (~threadShutdown /\ readBytes = 0)
        /\ readError' = (~threadShutdown /\ readBytes < 0)
    BY <1>4 DEF threadEnd, RunningInv
  <2>2. CASE ~eof' /\ ~readError'
    <3>1. StreamState' = StreamState
      BY <2>1, <2>2 DEF StreamState
    <3> QED  BY <2>1, <3>1 DEF Stream!streamVars
  <2>3. CASE eof' \/ readError'
    <3>1. StreamState = "open" /\ StreamState' \in {"eof", "error"}
      BY <2>1, <2>3 DEF StreamState
    <3>2. Stream!SourceEnds
      BY <2>1, <3>1 DEF Stream!SourceEnds
    <3> QED  BY <3>2 DEF Stream!StreamNext
  <2> QED  BY <2>2, <2>3
<1>5. CASE readDone
  <2>1. /\ posRead' = posRead + Len(buf) /\ ret' = Len(buf)
        /\ UNCHANGED <<produced, eof, readError, threadShutdown>>
        /\ r = "copied"
    BY <1>5 DEF readDone
  <2>2. Len(buf) \in 1 .. produced - posRead
    <3>1. /\ Len(buf) \in Int /\ FillNow \in Int /\ posRead \in Int
          /\ Len(buf) >= 1 /\ Len(buf) <= FillNow /\ produced = posRead + FillNow
      BY <2>1, FillNowRange, SizesAssumption DEF RingInv, TypeOK, Copied, RingPart
    <3> QED  BY <3>1
  <2>3. StreamState' = StreamState
    BY <2>1 DEF StreamState
  <2>4. Stream!ReadBytes
    BY <2>1, <2>2, <2>3 DEF Stream!ReadBytes
  <2> QED  BY <2>4 DEF Stream!StreamNext
<1>6. CASE readWake
  BY <1>6, StreamCheck DEF readWake
<1>7. ASSUME NEW len \in 1 .. MaxLength, read(len)
      PROVE  [Stream!StreamNext]_(Stream!streamVars)
  BY <1>7, StreamCheck DEF read
<1>8. CASE close
  <2>1. Stream!Close
    BY <1>8 DEF close, StreamState, Stream!Close
  <2> QED  BY <2>1 DEF Stream!StreamNext
<1>9. CASE UNCHANGED vars
  BY <1>9, StreamStutter DEF vars
<1> QED  BY <1>1, <1>2, <1>3, <1>4, <1>5, <1>6, <1>7, <1>8, <1>9
         DEF Next, BufferThread, ReaderThread

\* The ring buffer with its two threads implements the byte stream: in order,
\* never further ahead than its size, the end of the file only after the last
\* byte, for every size.
THEOREM BufferImplementsStream == Spec => ImplementsStream
<1>1. Init => Stream!StreamInit
  BY DEF Init, Stream!StreamInit, StreamState
<1>2. RingInv /\ RunningInv /\ [Next]_vars => [Stream!StreamNext]_(Stream!streamVars)
  BY StreamStep
<1> QED  BY <1>1, <1>2, RingInvariant, RunningInvariant, PTL
         DEF Spec, ImplementsStream, Stream!StreamSpec
=============================================================================
