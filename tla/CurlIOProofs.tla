--------------------------- MODULE CurlIOProofs ---------------------------
(***************************************************************************)
(* RightBytes for every size of the buffer and of the pieces libcurl hands *)
(* out, every range and every interleaving.  The ring holds FillNow bytes, *)
(* from a on, the ones after posRead; libcurl goes on right behind them;   *)
(* and a seek moves none of this under a read that is copying, because     *)
(* the web server asks for it and waits until it is done.                  *)
(***************************************************************************)
EXTENDS CurlIO, TLAPS

FillNow == IF empty THEN 0 ELSE FillUpTo(b)

\* The cell of the i-th byte in the buffer, and of the k-th byte behind them.
At(i) == Wrapped(a + i)
Behind(k) == Wrapped(b + k)

TypeOK ==
    /\ buffer \in [Cells -> Nat]
    /\ a \in Cells /\ b \in Cells /\ bLocal \in Cells
    /\ posRead \in Nat /\ from \in Nat /\ position \in Nat
    /\ seekOffset \in Nat /\ wantWrite \in Nat /\ length \in Nat
    /\ buf \in Seq(Nat)
    /\ empty \in BOOLEAN /\ doSeek \in BOOLEAN /\ leftover \in BOOLEAN
    /\ eof \in BOOLEAN /\ readError \in BOOLEAN /\ threadShutdown \in BOOLEAN
    /\ w \in {"loop", "transfer", "wait", "copy", "copied", "returned", "end", "signal", "exit"}
    /\ r \in {"opened", "idle", "willWait", "wait", "copy", "copied", "willWaitSeek",
              "waitSeek", "finished", "joining", "closed"}

\* Who may be where: a seek is being waited for or comes too late, the end is noted
\* by a thread that is done, and only close() stops it.
Phases ==
    /\ doSeek => /\ r \in {"willWaitSeek", "waitSeek"} \/ w \in {"signal", "exit"}
                 /\ seekOffset >= 1
    /\ r = "opened" => ~doSeek
    /\ eof \/ readError => w \in {"signal", "exit"}
    /\ threadShutdown => r \in {"joining", "closed"}
    /\ position = IF doSeek THEN posRead + seekOffset ELSE posRead

RingPart ==
    /\ empty => a = b
    /\ ~leftover => \A i \in Cells : i < FillNow => buffer[At(i)] = posRead + i

\* The transfer continues where the buffer ends, with room for its piece.
Transfer ==
    /\ ~leftover /\ (w \in {"transfer", "wait", "copy", "copied"} \/ (w = "loop" /\ ~doSeek))
          => from = posRead + FillNow
    /\ w \in {"wait", "copy", "copied"} => wantWrite >= 1 /\ wantWrite <= bufSize
    /\ w \in {"copy", "copied"} => FillNow + wantWrite <= bufSize
    /\ w = "copied" => \A k \in Cells : k < wantWrite => buffer[Behind(k)] = from + k

\* The web server works on a prefix of what is in the buffer.
Snapshot ==
    /\ r \in {"willWait", "wait", "copy", "copied"} => length >= 1
    /\ r \in {"copy", "copied"} => ~empty
    /\ r = "copy" => FillUpTo(bLocal) <= FillNow
    /\ r = "copied" =>
          /\ Len(buf) \in 1 .. FillNow
          /\ ~leftover => \A i \in 1 .. Len(buf) : buf[i] = posRead + i - 1

CurlInv == TypeOK /\ Phases /\ RingPart /\ Transfer /\ Snapshot

-----------------------------------------------------------------------------
(* The ring.                                                               *)

LEMMA Sizes ==
    ASSUME TypeOK
    PROVE  /\ bufSize \in Nat /\ bufSize >= 1 /\ Cells = 0 .. bufSize - 1
           /\ a \in 0 .. bufSize - 1 /\ b \in 0 .. bufSize - 1
           /\ FillUpTo(b) \in 1 .. bufSize
           /\ FillNow \in 0 .. bufSize /\ (~empty => FillNow >= 1)
           /\ \A i \in Cells : At(i) \in Cells /\ Behind(i) \in Cells
BY CurlAssumption DEF TypeOK, Cells, FillNow, FillUpTo, At, Behind, Wrapped

LEMMA FreeIs ==
    ASSUME TypeOK
    PROVE  bufFree = bufSize - FillNow
BY Sizes DEF bufFree, FillNow, FillUpTo

\* The same after a step that ends with enough room for n bytes.
LEMMA RoomIs ==
    ASSUME a' \in Cells, b' \in Cells, NEW n \in Nat, bufFree' >= n
    PROVE  FillNow' + n <= bufSize
<1>1. PICK x \in Cells, y \in Cells : a' = x /\ b' = y
  OBVIOUS
<1>2. bufSize \in Nat /\ x \in 0 .. bufSize - 1 /\ y \in 0 .. bufSize - 1
  BY CurlAssumption DEF Cells
<1>3. CASE empty'
  BY <1>2, <1>3 DEF bufFree, FillNow
<1>4. CASE ~empty'
  BY <1>1, <1>2, <1>4 DEF bufFree, FillNow, FillUpTo
<1> QED  BY <1>3, <1>4

\* An empty buffer stays empty, wherever a and b are put.
LEMMA Rewound ==
    ASSUME TypeOK, empty', a' = b'
    PROVE  FillNow' = 0 /\ RingPart'
<1>1. FillNow' = 0
  BY DEF FillNow
<1> QED  BY <1>1, Sizes DEF RingPart, Cells

LEMMA SameRing ==
    ASSUME RingPart, UNCHANGED <<buffer, a, b, empty, posRead, leftover>>
    PROVE  RingPart' /\ FillNow' = FillNow
<1>1. FillNow' = FillNow /\ \A i \in Cells : At(i)' = At(i)
  BY DEF FillNow, FillUpTo, At
<1> QED  BY <1>1 DEF RingPart

\* The first d bytes leave the buffer: a read, or a seek within the buffer.
LEMMA Skipped ==
    ASSUME TypeOK, RingPart, ~empty, NEW d \in 1 .. FillNow,
           posRead' = posRead + d, UNCHANGED <<buffer, leftover>>,
           \/ /\ Wrapped(a + d) = b
              /\ empty' = TRUE /\ a' = b' /\ a' \in Cells
           \/ /\ Wrapped(a + d) # b
              /\ empty' = FALSE /\ a' = Wrapped(a + d) /\ b' = b
    PROVE  /\ a' \in Cells /\ b' \in Cells /\ empty' \in BOOLEAN
           /\ FillNow' = FillNow - d
           /\ RingPart'
<1>t. /\ bufSize \in Nat /\ bufSize >= 1 /\ Cells = 0 .. bufSize - 1
      /\ a \in 0 .. bufSize - 1 /\ b \in 0 .. bufSize - 1 /\ posRead \in Nat
      /\ FillNow = FillUpTo(b) /\ FillNow \in 1 .. bufSize /\ d \in Nat /\ d >= 1 /\ d <= FillNow
  BY Sizes DEF FillNow, TypeOK
<1>1. CASE Wrapped(a + d) = b /\ empty' = TRUE /\ a' = b' /\ a' \in Cells
  <2>1. d = FillNow
    BY <1>t, <1>1 DEF FillUpTo, Wrapped
  <2>2. FillNow' = 0
    BY <1>1 DEF FillNow
  <2> QED  BY <1>t, <1>1, <2>1, <2>2 DEF RingPart
<1>2. CASE Wrapped(a + d) # b /\ empty' = FALSE /\ a' = Wrapped(a + d) /\ b' = b
  <2>1. a' \in Cells
    BY <1>t, <1>2 DEF Wrapped
  <2>2. FillNow' = FillNow - d
    BY <1>t, <1>2 DEF FillUpTo, Wrapped, FillNow
  <2>3. ASSUME NEW i \in Cells, i < FillNow - d
        PROVE  i + d \in Cells /\ i + d < FillNow /\ At(i)' = At(i + d)
    BY <1>t, <1>2, <2>3 DEF At, Wrapped
  <2>4. ASSUME ~leftover, NEW i \in Cells, i < FillNow - d
        PROVE  buffer[At(i)'] = posRead + d + i
    <3>1. i + d \in Cells /\ i + d < FillNow /\ At(i)' = At(i + d)
      BY <2>3, <2>4
    <3>2. buffer[At(i + d)] = posRead + (i + d)
      BY <2>4, <3>1 DEF RingPart
    <3> QED  BY <1>t, <3>1, <3>2
  <2> QED  BY <1>t, <1>2, <2>1, <2>2, <2>4 DEF RingPart
<1> QED  BY <1>1, <1>2

-----------------------------------------------------------------------------
(* Steps that leave the ring alone.                                        *)

LEMMA Frame ==
    ASSUME CurlInv, UNCHANGED <<buffer, a, b, empty, posRead, leftover, from>>,
           w' \in {"wait", "copy", "copied"} => w' = w /\ UNCHANGED wantWrite,
           w' = "transfer" => w = "transfer" \/ (w = "loop" /\ ~doSeek),
           w' = "loop" => doSeek' \/ (w = "loop" /\ ~doSeek),
           r' \in {"willWait", "wait"} => length' >= 1,
           r' \in {"copy", "copied"} =>
              \/ r' = r /\ UNCHANGED <<length, bLocal, buf>>
              \/ r' = "copy" /\ ~empty /\ bLocal' = b /\ length' >= 1
    PROVE  RingPart' /\ Transfer' /\ Snapshot'
<1> USE DEF CurlInv
<1>1. RingPart' /\ FillNow' = FillNow
  BY SameRing
<1>2. \A k \in Cells : Behind(k)' = Behind(k)
  BY DEF Behind
<1>3. Transfer'
  <2>1. ~leftover' /\ (w' \in {"transfer", "wait", "copy", "copied"} \/ (w' = "loop" /\ ~doSeek'))
            => from' = posRead' + FillNow'
    BY <1>1 DEF Transfer
  <2>2. w' \in {"wait", "copy", "copied"} => wantWrite' >= 1 /\ wantWrite' <= bufSize
    BY DEF Transfer
  <2>3. w' \in {"copy", "copied"} => FillNow' + wantWrite' <= bufSize
    BY <1>1 DEF Transfer
  <2>4. w' = "copied" => \A k \in Cells : k < wantWrite' => buffer'[Behind(k)'] = from' + k
    BY <1>2 DEF Transfer
  <2> QED  BY <2>1, <2>2, <2>3, <2>4 DEF Transfer
<1>4. Snapshot'
  <2>1. CASE r' \notin {"copy", "copied"}
    BY <2>1 DEF Snapshot
  <2>2. CASE r' = r /\ r \in {"copy", "copied"} /\ UNCHANGED <<length, bLocal, buf>>
    BY <1>1, <2>2 DEF Snapshot, FillUpTo
  <2>3. CASE r' = "copy" /\ ~empty /\ bLocal' = b /\ length' >= 1
    <3>1. FillUpTo(bLocal)' = FillNow
      BY <2>3 DEF FillUpTo, FillNow
    <3>2. FillNow \in Int
      BY Sizes
    <3> QED  BY <1>1, <2>3, <3>1, <3>2 DEF Snapshot
  <2> QED  BY <2>1, <2>2, <2>3
<1> QED  BY <1>1, <1>3, <1>4

LEMMA CurlInit == Init => CurlInv
<1> SUFFICES ASSUME Init PROVE CurlInv
  OBVIOUS
<1>1. 0 \in Cells /\ bufSize \in Nat
  BY CurlAssumption DEF Cells
<1>2. FillNow = 0
  BY DEF Init, FillNow
<1>3. buffer \in [Cells -> Nat] /\ buf \in Seq(Nat)
  BY DEF Init
<1>4. TypeOK
  BY <1>1, <1>3 DEF Init, TypeOK
<1>5. RingPart
  BY <1>1, <1>2 DEF Init, RingPart, Cells
<1> QED  BY <1>2, <1>4, <1>5 DEF Init, CurlInv, Phases, Transfer, Snapshot

-----------------------------------------------------------------------------
(* The buffer thread.                                                      *)

\* A seek becomes the start of the next transfer: the web server waits for it, so
\* that no read is under way.
LEMMA StartTransferKeeps ==
    ASSUME CurlInv, startTransfer
    PROVE  CurlInv'
<1> USE DEF CurlInv, ring, status, reader
<1>1. CASE ~doSeek
  <2>1. UNCHANGED <<ring, posRead, from, status, seekOffset, doSeek, wantWrite, reader, leftover>>
        /\ w = "loop" /\ w' = "transfer"
    BY <1>1 DEF startTransfer
  <2>2. TypeOK' /\ Phases'
    BY <2>1 DEF TypeOK, Phases
  <2>3. RingPart' /\ Transfer' /\ Snapshot'
    BY <1>1, <2>1, Frame DEF Snapshot
  <2> QED  BY <2>2, <2>3
<1>2. CASE doSeek
  <2>1. /\ posRead' = posRead + seekOffset /\ from' = posRead' /\ doSeek' = FALSE
        /\ leftover' <=> ~empty
        /\ leftover' \in BOOLEAN
        /\ w = "loop" /\ w' = "transfer"
        /\ UNCHANGED <<ring, status, seekOffset, wantWrite, reader>>
    BY <1>2 DEF startTransfer
  <2>2. r \in {"willWaitSeek", "waitSeek"} /\ position = posRead + seekOffset
    BY <1>2, <2>1 DEF Phases
  <2>3. TypeOK'
    <3>1. posRead' \in Nat /\ from' \in Nat
      BY <2>1 DEF TypeOK
    <3>2. leftover' \in BOOLEAN /\ doSeek' \in BOOLEAN
      BY <2>1
    <3>3. w' = "transfer" /\ UNCHANGED <<ring, status, seekOffset, wantWrite, reader>>
      BY <2>1
    <3> QED  BY <3>1, <3>2, <3>3 DEF TypeOK
  <2>4. Phases'
    BY <2>1, <2>2 DEF Phases
  <2>5. FillNow' = FillNow /\ (empty => FillNow = 0)
    BY <2>1 DEF FillNow, FillUpTo
  <2>6. RingPart'
    BY <2>1, <2>5, Sizes DEF RingPart, Cells
  <2>7. Transfer'
    BY <2>1, <2>5 DEF Transfer, TypeOK
  <2>8. Snapshot'
    BY <2>1, <2>2 DEF Snapshot
  <2> QED  BY <2>3, <2>4, <2>6, <2>7, <2>8
<1> QED  BY <1>1, <1>2 DEF TypeOK

\* The three ways in which the callback deals with a seek, seen from the ring.
\* The transfer still continues where the buffer ends, or is given up.
LEMMA SeekStep ==
    ASSUME CurlInv, w \in {"transfer", "wait"}, UNCHANGED <<buffer, leftover, seekOffset, position>>,
           SeekInBuffer \/ NoSeek \/ SeekByTransfer
    PROVE  /\ a' \in Cells /\ b' \in Cells /\ empty' \in BOOLEAN /\ posRead' \in Nat
           /\ doSeek' \in BOOLEAN
           /\ RingPart'
           /\ ~doSeek' => posRead' + FillNow' = posRead + FillNow /\ position' = posRead'
           /\ doSeek' => doSeek /\ posRead' = posRead
           /\ UNCHANGED <<a, b, empty, posRead>> \/ empty \/ r \in {"willWaitSeek", "waitSeek"}
<1> USE DEF CurlInv
<1>t. /\ bufSize \in Nat /\ bufSize >= 1 /\ Cells = 0 .. bufSize - 1
      /\ FillNow \in 0 .. bufSize /\ posRead \in Nat /\ 0 \in Cells
      /\ a \in Cells /\ b \in Cells /\ empty \in BOOLEAN /\ doSeek \in BOOLEAN
  <2>1. bufSize \in Nat /\ bufSize >= 1 /\ Cells = 0 .. bufSize - 1 /\ FillNow \in 0 .. bufSize
    BY Sizes
  <2> QED  BY <2>1 DEF TypeOK
<1>0. doSeek => r \in {"willWaitSeek", "waitSeek"} /\ seekOffset >= 1 /\ position = posRead + seekOffset
  BY DEF Phases
<1>1. CASE SeekInBuffer
  <2>1. doSeek /\ ~empty /\ seekOffset <= FillUpTo(b)
    BY <1>1 DEF SeekInBuffer, InBuffer
  <2>2. seekOffset \in 1 .. FillNow
    BY <1>0, <1>t, <2>1 DEF FillNow, TypeOK
  <2>3. /\ posRead' = posRead + seekOffset /\ doSeek' = FALSE
        /\ \/ /\ Wrapped(a + seekOffset) = b
              /\ empty' = TRUE /\ a' = b' /\ a' \in Cells
           \/ /\ Wrapped(a + seekOffset) # b
              /\ empty' = FALSE /\ a' = Wrapped(a + seekOffset) /\ b' = b
    BY <1>1, <1>t DEF SeekInBuffer
  <2>4. /\ a' \in Cells /\ b' \in Cells /\ empty' \in BOOLEAN
        /\ FillNow' = FillNow - seekOffset
        /\ RingPart'
    BY <2>1, <2>2, <2>3, Skipped
  <2>5. posRead' + FillNow' = posRead + FillNow /\ posRead' \in Nat
    BY <1>t, <2>2, <2>3, <2>4
  <2> QED  BY <1>0, <2>1, <2>3, <2>4, <2>5
<1>2. CASE NoSeek
  <2>1. ~doSeek /\ UNCHANGED <<empty, posRead, doSeek>>
    BY <1>2 DEF NoSeek
  <2>2. CASE empty
    <3>1. a' = b' /\ a' \in Cells
      BY <1>2, <1>t, <2>2 DEF NoSeek, RingPart
    <3>2. RingPart' /\ FillNow' = 0 /\ FillNow = 0
      BY <2>1, <2>2, <3>1, Rewound DEF FillNow
    <3> QED  BY <1>t, <2>1, <2>2, <3>1, <3>2 DEF Phases
  <2>3. CASE ~empty
    <3>1. UNCHANGED <<a, b>>
      BY <1>2, <2>3 DEF NoSeek
    <3>2. RingPart' /\ FillNow' = FillNow
      BY <2>1, <3>1, SameRing
    <3> QED  BY <1>t, <2>1, <3>1, <3>2 DEF Phases
  <2> QED  BY <1>t, <2>2, <2>3
<1>3. CASE SeekByTransfer
  <2>1. doSeek /\ a' = 0 /\ b' = 0 /\ empty' = TRUE /\ UNCHANGED <<posRead, doSeek>>
    BY <1>3 DEF SeekByTransfer
  <2>2. RingPart'
    BY <2>1, Rewound
  <2> QED  BY <1>0, <1>3, <1>t, <2>1, <2>2
<1> QED  BY <1>1, <1>2, <1>3

\* After such a step the rest follows from where the thread goes.
LEMMA SeekStepKeeps ==
    ASSUME CurlInv, w \in {"transfer", "wait"},
           UNCHANGED <<buffer, leftover, seekOffset, from, status, reader>>,
           SeekInBuffer \/ NoSeek \/ SeekByTransfer,
           wantWrite' \in Nat, wantWrite' >= 1, wantWrite' <= bufSize,
           w' \in {"copy", "wait", "returned"},
           w' # "returned" => ~doSeek',
           w' = "copy" => bufFree' >= wantWrite'
    PROVE  CurlInv'
<1> USE DEF CurlInv, status, reader
<1>1. /\ a' \in Cells /\ b' \in Cells /\ empty' \in BOOLEAN /\ posRead' \in Nat
      /\ doSeek' \in BOOLEAN
      /\ RingPart'
      /\ ~doSeek' => posRead' + FillNow' = posRead + FillNow /\ position' = posRead'
      /\ doSeek' => doSeek /\ posRead' = posRead
      /\ UNCHANGED <<a, b, empty, posRead>> \/ empty \/ r \in {"willWaitSeek", "waitSeek"}
  BY SeekStep
<1>2. TypeOK'
  BY <1>1 DEF TypeOK
<1>3. Phases'
  <2>1. ~eof' /\ ~readError'
    BY DEF Phases
  <2> QED  BY <1>1, <2>1 DEF Phases
<1>4. Transfer'
  <2>1. w' = "copy" => FillNow' + wantWrite' <= bufSize
    BY <1>1, RoomIs
  <2> QED  BY <1>1, <2>1 DEF Transfer
<1>5. Snapshot'
  <2>1. CASE r \in {"copy", "copied"}
    <3>1. UNCHANGED <<a, b, empty, posRead>>
      BY <1>1, <2>1 DEF Snapshot
    <3>2. FillNow' = FillNow /\ FillUpTo(bLocal)' = FillUpTo(bLocal)
      BY <3>1 DEF FillNow, FillUpTo
    <3> QED  BY <2>1, <3>1, <3>2 DEF Snapshot
  <2>2. CASE r \notin {"copy", "copied"}
    BY <2>2 DEF Snapshot
  <2> QED  BY <2>1, <2>2
<1> QED  BY <1>1, <1>2, <1>3, <1>4, <1>5

LEMMA CallbackKeeps ==
    ASSUME CurlInv, NEW n \in 1 .. MAX_WRITE_SIZE, curlCallback(n)
    PROVE  CurlInv'
<1>1. n \in Nat /\ n >= 1 /\ n <= bufSize
  BY CurlAssumption
<1>2. /\ w = "transfer" /\ wantWrite' = n
      /\ UNCHANGED <<buffer, status, seekOffset, from, reader, leftover>>
  BY DEF curlCallback
<1>3. SeekInBuffer => doSeek' = FALSE
  BY DEF SeekInBuffer
<1>4. NoSeek => ~doSeek'
  BY DEF NoSeek
<1>5. CASE SeekByTransfer
  <2>1. w' = "returned"
    BY <1>5 DEF SeekByTransfer, Abort
  <2> QED  BY <1>1, <1>2, <1>5, <2>1, SeekStepKeeps
<1>6. CASE (SeekInBuffer \/ NoSeek) /\ Abort
  <2>1. w' = "returned"
    BY <1>6 DEF Abort
  <2> QED  BY <1>1, <1>2, <1>6, <2>1, SeekStepKeeps
<1>7. CASE (SeekInBuffer \/ NoSeek) /\ w' = IF bufFree' >= n THEN "copy" ELSE "wait"
  <2>1. ~doSeek' /\ w' \in {"copy", "wait"} /\ (w' = "copy" => bufFree' >= wantWrite')
    BY <1>2, <1>3, <1>4, <1>7
  <2> QED  BY <1>1, <1>2, <1>7, <2>1, SeekStepKeeps
<1> QED  BY <1>5, <1>6, <1>7 DEF curlCallback

LEMMA CallbackWakeKeeps ==
    ASSUME CurlInv, callbackWake
    PROVE  CurlInv'
<1>1. /\ w = "wait"
      /\ UNCHANGED <<buffer, status, seekOffset, wantWrite, from, reader, leftover>>
  BY DEF callbackWake
<1>2. wantWrite \in Nat /\ wantWrite >= 1 /\ wantWrite <= bufSize
  BY <1>1 DEF CurlInv, TypeOK, Transfer
<1>3. CASE Abort /\ UNCHANGED <<a, b, empty, posRead, doSeek>>
  <2>1. w' = "returned"
    BY <1>3 DEF Abort
  <2>2. UNCHANGED <<r, length, bLocal, buf, position, eof, readError, threadShutdown>>
    BY <1>1 DEF reader, status
  <2>3. RingPart' /\ Transfer' /\ Snapshot'
    BY <1>1, <1>3, <2>1, <2>2, Frame DEF CurlInv, Snapshot
  <2>4. TypeOK'
    BY <1>1, <1>3, <2>1, <2>2 DEF CurlInv, TypeOK
  <2>5. Phases'
    BY <1>1, <1>3, <2>1, <2>2 DEF CurlInv, Phases
  <2> QED  BY <2>3, <2>4, <2>5 DEF CurlInv
<1>4. CASE /\ bufFree >= wantWrite
           /\ w' = "copy"
           /\ a' = IF empty THEN 0 ELSE a
           /\ b' = IF empty THEN 0 ELSE b
           /\ UNCHANGED <<empty, posRead, doSeek>>
  <2> USE DEF CurlInv
  <2>0. UNCHANGED <<r, length, bLocal, buf, position, eof, readError, threadShutdown>>
    BY <1>1 DEF reader, status
  <2>1. 0 \in Cells /\ bufSize \in Nat /\ FillNow \in 0 .. bufSize
    BY Sizes DEF Cells
  <2>2. a' \in Cells /\ b' \in Cells
    BY <1>4, <2>1 DEF TypeOK
  <2>3. RingPart' /\ FillNow' = FillNow
    <3>1. CASE empty
      <4>1. empty' /\ a' = b' /\ FillNow = 0
        BY <1>4, <3>1 DEF FillNow
      <4> QED  BY <4>1, Rewound
    <3>2. CASE ~empty
      BY <1>1, <1>4, <3>2, SameRing
    <3> QED  BY <3>1, <3>2
  <2>4. FillNow + wantWrite <= bufSize
    BY <1>2, <1>4, <2>1, FreeIs
  <2>5. TypeOK'
    BY <1>1, <1>4, <2>0, <2>2 DEF TypeOK
  <2>6. Phases'
    BY <1>1, <1>4, <2>0 DEF Phases
  <2>7. Transfer'
    BY <1>1, <1>2, <1>4, <2>3, <2>4 DEF Transfer
  <2>8. Snapshot'
    <3>1. CASE r \in {"copy", "copied"}
      <4>1. UNCHANGED <<a, b>>
        BY <1>4, <3>1 DEF Snapshot
      <4>2. FillUpTo(bLocal)' = FillUpTo(bLocal)
        BY <2>0, <4>1 DEF FillUpTo
      <4> QED  BY <1>1, <1>4, <2>0, <2>3, <4>2 DEF Snapshot
    <3>2. CASE r \notin {"copy", "copied"}
      BY <2>0, <3>2 DEF Snapshot
    <3> QED  BY <3>1, <3>2
  <2> QED  BY <2>3, <2>5, <2>6, <2>7, <2>8
<1>5. CASE SeekByTransfer
  <2>1. w' = "returned"
    BY <1>5 DEF SeekByTransfer, Abort
  <2> QED  BY <1>1, <1>2, <1>5, <2>1, SeekStepKeeps
<1>6. CASE (SeekInBuffer \/ NoSeek) /\ UNCHANGED w
  <2>1. (SeekInBuffer => ~doSeek') /\ (NoSeek => ~doSeek')
    BY DEF SeekInBuffer, NoSeek
  <2>2. ~doSeek' /\ w' = "wait"
    BY <1>1, <1>6, <2>1
  <2> QED  BY <1>1, <1>2, <1>6, <2>2, SeekStepKeeps
<1> QED  BY <1>3, <1>4, <1>5, <1>6 DEF callbackWake

\* The copy of the callback writes behind the bytes in the buffer only.
LEMMA CallbackCopyKeeps ==
    ASSUME CurlInv, callbackCopy
    PROVE  CurlInv'
<1> USE DEF CurlInv
<1>1. /\ w = "copy" /\ w' = "copied"
      /\ UNCHANGED <<a, b, empty, posRead, eof, readError, threadShutdown, doSeek, seekOffset,
                     wantWrite, from, r, length, bLocal, buf, position, leftover>>
  BY DEF callbackCopy, status, seeking, reader
<1>2. /\ bufSize \in Nat /\ bufSize >= 1 /\ Cells = 0 .. bufSize - 1
      /\ a \in 0 .. bufSize - 1 /\ b \in 0 .. bufSize - 1 /\ FillNow \in 0 .. bufSize
      /\ FillUpTo(b) \in 1 .. bufSize
      /\ wantWrite \in Nat /\ wantWrite >= 1 /\ FillNow + wantWrite <= bufSize /\ from \in Nat
  BY <1>1, Sizes DEF Transfer, TypeOK
<1> DEFINE K(i) == IF i >= b THEN i - b ELSE i - b + bufSize
<1>3. buffer' = [i \in Cells |-> IF K(i) < wantWrite THEN from + K(i) ELSE buffer[i]]
  BY DEF callbackCopy
<1>4. ASSUME NEW i \in Cells PROVE K(i) \in Nat /\ K(i) < bufSize
  BY <1>2
<1>5. buffer' \in [Cells -> Nat]
  BY <1>2, <1>3, <1>4 DEF TypeOK
<1>6. ASSUME NEW i \in Cells, i < FillNow PROVE At(i) \in Cells /\ ~(K(At(i)) < wantWrite)
  <2>1. ~empty /\ FillNow = FillUpTo(b)
    BY <1>2, <1>6 DEF FillNow
  <2> QED  BY <1>2, <1>6, <2>1 DEF At, Wrapped, FillUpTo
<1>7. ASSUME NEW k \in Cells, k < wantWrite
      PROVE  Behind(k) \in Cells /\ K(Behind(k)) = k
  BY <1>2 DEF Behind, Wrapped
<1>8. /\ FillNow' = FillNow
      /\ \A i \in Cells : At(i)' = At(i) /\ Behind(i)' = Behind(i)
      /\ FillUpTo(bLocal)' = FillUpTo(bLocal)
  BY <1>1 DEF FillNow, FillUpTo, At, Behind
<1> HIDE DEF K
<1>9. RingPart'
  <2>1. ASSUME NEW i \in Cells, i < FillNow PROVE buffer'[At(i)] = buffer[At(i)]
    BY <1>3, <1>6, <2>1
  <2> QED  BY <1>1, <1>8, <2>1 DEF RingPart
<1>10. Transfer'
  <2>1. ASSUME NEW k \in Cells, k < wantWrite PROVE buffer'[Behind(k)] = from + k
    BY <1>3, <1>7, <2>1
  <2> QED  BY <1>1, <1>2, <1>8, <2>1 DEF Transfer
<1>11. TypeOK'
  BY <1>1, <1>5 DEF TypeOK
<1>12. Phases' /\ Snapshot'
  BY <1>1, <1>8 DEF Phases, Snapshot
<1> QED  BY <1>9, <1>10, <1>11, <1>12

\* The piece becomes part of what is in the buffer.
LEMMA CallbackDoneKeeps ==
    ASSUME CurlInv, callbackDone
    PROVE  CurlInv'
<1> USE DEF CurlInv
<1> DEFINE end == Wrapped(b + wantWrite)
<1>1. /\ w = "copied" /\ w' = "transfer" /\ b' = end /\ empty' = FALSE
      /\ from' = from + wantWrite
      /\ UNCHANGED <<buffer, a, posRead, eof, readError, threadShutdown, doSeek, seekOffset,
                     wantWrite, r, length, bLocal, buf, position, leftover>>
  BY DEF callbackDone, status, seeking, reader
<1>2. /\ bufSize \in Nat /\ bufSize >= 1 /\ Cells = 0 .. bufSize - 1
      /\ a \in 0 .. bufSize - 1 /\ b \in 0 .. bufSize - 1 /\ FillNow \in 0 .. bufSize
      /\ wantWrite \in Nat /\ wantWrite >= 1 /\ wantWrite <= bufSize
      /\ FillNow + wantWrite <= bufSize /\ from \in Nat /\ posRead \in Nat
  BY <1>1, Sizes DEF Transfer, TypeOK
<1>3. end \in Cells
  BY <1>2 DEF Wrapped
<1>4. empty => a = b
  BY DEF RingPart
<1>5. FillUpTo(end) = FillNow + wantWrite
  <2>1. CASE empty
    BY <1>2, <1>4, <2>1 DEF FillUpTo, FillNow, Wrapped
  <2>2. CASE ~empty
    BY <1>2, <2>2 DEF FillUpTo, FillNow, Wrapped
  <2> QED  BY <2>1, <2>2
<1>6. ASSUME NEW i \in Cells, i >= FillNow, i < FillNow + wantWrite
      PROVE  i - FillNow \in Cells /\ i - FillNow < wantWrite /\ At(i) = Behind(i - FillNow)
  <2>1. CASE empty
    BY <1>2, <1>4, <1>6, <2>1 DEF FillNow, At, Behind
  <2>2. CASE ~empty
    BY <1>2, <1>6, <2>2 DEF FillUpTo, FillNow, Wrapped, At, Behind
  <2> QED  BY <2>1, <2>2
<1> HIDE DEF end
<1>7. FillNow' = FillNow + wantWrite /\ \A i \in Cells : At(i)' = At(i)
  <2>1. FillNow' = FillUpTo(end)
    BY <1>1 DEF FillNow, FillUpTo
  <2> QED  BY <1>1, <1>5, <2>1 DEF At
<1>8. RingPart'
  <2>1. ASSUME ~leftover, NEW i \in Cells, i < FillNow + wantWrite
        PROVE  buffer[At(i)] = posRead + i
    <3>1. CASE i < FillNow
      BY <2>1, <3>1 DEF RingPart
    <3>2. CASE i >= FillNow
      <4>1. buffer[Behind(i - FillNow)] = from + (i - FillNow)
        BY <1>1, <1>6, <2>1, <3>2 DEF Transfer
      <4>2. from = posRead + FillNow
        BY <1>1, <2>1 DEF Transfer
      <4> QED  BY <1>2, <1>6, <2>1, <3>2, <4>1, <4>2
    <3> QED  BY <1>2, <3>1, <3>2
  <2> QED  BY <1>1, <1>7, <2>1 DEF RingPart
<1>9. Transfer'
  <2>1. ~leftover => from + wantWrite = posRead + (FillNow + wantWrite)
    BY <1>1, <1>2 DEF Transfer
  <2> QED  BY <1>1, <1>7, <2>1 DEF Transfer
<1>10. Snapshot'
  <2>1. FillUpTo(bLocal)' = FillUpTo(bLocal) /\ FillUpTo(bLocal) \in Int
    BY <1>1, <1>2 DEF FillUpTo, TypeOK
  <2>2. r = "copied" => Len(buf) \in 1 .. FillNow + wantWrite
    BY <1>2 DEF Snapshot
  <2>3. r = "copy" => FillUpTo(bLocal) <= FillNow + wantWrite
    BY <1>2, <2>1 DEF Snapshot
  <2> QED  BY <1>1, <1>7, <2>1, <2>2, <2>3 DEF Snapshot
<1>11. TypeOK'
  <2>1. from' \in Nat
    BY <1>1, <1>2
  <2> QED  BY <1>1, <1>3, <2>1 DEF TypeOK
<1>12. Phases'
  BY <1>1 DEF Phases
<1> QED  BY <1>8, <1>9, <1>10, <1>11, <1>12

\* The end of a transfer.
LEMMA EndKeeps ==
    ASSUME CurlInv, transferEnds \/ againIfSeek \/ noteEnd \/ signalEnd
    PROVE  CurlInv'
<1> USE DEF CurlInv
<1>1. UNCHANGED <<buffer, a, b, empty, posRead, threadShutdown, doSeek, seekOffset, wantWrite, from,
                  r, length, bLocal, buf, position, leftover>>
  BY DEF transferEnds, againIfSeek, noteEnd, signalEnd, ring, status, seeking, reader
<1>2. /\ w' \in {"returned", "loop", "end", "signal", "exit"}
      /\ w' = "loop" => doSeek
      /\ w \in {"signal", "exit"} => w' \in {"signal", "exit"}
      /\ UNCHANGED <<eof, readError>> \/ w' = "signal"
      /\ eof' \in BOOLEAN /\ readError' \in BOOLEAN
  BY DEF transferEnds, againIfSeek, noteEnd, signalEnd, status, TypeOK
<1>3. TypeOK'
  BY <1>1, <1>2 DEF TypeOK
<1>4. Phases'
  BY <1>1, <1>2 DEF Phases
<1>5. RingPart' /\ Transfer' /\ Snapshot'
  BY <1>1, <1>2, Frame DEF Snapshot
<1> QED  BY <1>3, <1>4, <1>5

-----------------------------------------------------------------------------
(* The web server.                                                         *)

LEMMA CheckKeeps ==
    ASSUME CurlInv, readCheck, length' \in Nat, length' >= 1,
           r \in {"opened", "idle", "wait"}
    PROVE  CurlInv'
<1> USE DEF CurlInv
<1>1. UNCHANGED <<buffer, a, b, empty, posRead, eof, readError, threadShutdown, doSeek, seekOffset,
                  w, wantWrite, from, buf, position, leftover>>
  BY DEF readCheck, ring, status, seeking, writer
<1>2. /\ r' \in {"willWait", "finished", "copy"}
      /\ bLocal' \in Cells
      /\ r' = "copy" => ~empty /\ bLocal' = b
  BY DEF readCheck, TypeOK
<1>3. TypeOK'
  BY <1>1, <1>2 DEF TypeOK
<1>4. Phases'
  BY <1>1, <1>2 DEF Phases
<1>5. RingPart' /\ Transfer' /\ Snapshot'
  BY <1>1, <1>2, Frame
<1> QED  BY <1>3, <1>4, <1>5

\* The copy of read() takes the first bytes in the buffer.
LEMMA ReadCopyKeeps ==
    ASSUME CurlInv, readCopy
    PROVE  CurlInv'
<1> USE DEF CurlInv
<1>1. /\ r = "copy" /\ r' = "copied"
      /\ buf' = [i \in 1 .. didRead |-> buffer[Wrapped(a + i - 1)]]
      /\ UNCHANGED <<buffer, a, b, empty, posRead, eof, readError, threadShutdown, doSeek,
                     seekOffset, w, wantWrite, from, length, bLocal, position, leftover>>
  BY DEF readCopy, ring, status, seeking, writer
<1>2. /\ bufSize \in Nat /\ bufSize >= 1 /\ Cells = 0 .. bufSize - 1
      /\ a \in 0 .. bufSize - 1 /\ FillNow \in 0 .. bufSize /\ posRead \in Nat
      /\ FillUpTo(bLocal) \in 1 .. FillNow /\ length \in Nat /\ length >= 1
  <2>1. /\ bufSize \in Nat /\ a \in 0 .. bufSize - 1 /\ bLocal \in 0 .. bufSize - 1
    BY Sizes DEF TypeOK
  <2>2. FillUpTo(bLocal) \in 1 .. bufSize
    BY <2>1 DEF FillUpTo
  <2> QED  BY <1>1, <2>2, Sizes DEF Snapshot, TypeOK
<1>3. didRead \in 1 .. FillNow
  BY <1>2 DEF didRead, Least
<1> HIDE DEF CurlInv
<1>4. ASSUME NEW i \in 1 .. didRead
      PROVE  /\ i - 1 \in Cells /\ i - 1 < FillNow
             /\ Wrapped(a + i - 1) = At(i - 1) /\ At(i - 1) \in Cells
  BY <1>2, <1>3 DEF At, Wrapped
<1>5. \A i \in 1 .. didRead : buffer[Wrapped(a + i - 1)] \in Nat
  BY <1>4 DEF CurlInv, TypeOK
<1>6. buf' \in Seq(Nat) /\ Len(buf') = didRead
  BY <1>1, <1>3, <1>5
<1>7. ASSUME ~leftover, NEW i \in 1 .. didRead PROVE buf'[i] = posRead + i - 1
  <2>1. buf'[i] = buffer[At(i - 1)]
    BY <1>1, <1>4
  <2>2. buffer[At(i - 1)] = posRead + (i - 1)
    BY <1>4, <1>7 DEF CurlInv, RingPart
  <2> QED  BY <1>2, <1>3, <2>1, <2>2
<1>8. FillNow' = FillNow
  BY <1>1 DEF FillNow, FillUpTo
<1>9. Snapshot'
  BY <1>1, <1>2, <1>3, <1>6, <1>7, <1>8 DEF CurlInv, Snapshot
<1>10. TypeOK'
  BY <1>1, <1>6 DEF CurlInv, TypeOK
<1>11. Phases'
  BY <1>1 DEF CurlInv, Phases
<1>12. RingPart'
  BY <1>1, SameRing DEF CurlInv
<1>13. Transfer'
  <2>1. \A k \in Cells : Behind(k)' = Behind(k)
    BY <1>1 DEF Behind
  <2> QED  BY <1>1, <1>8, <2>1 DEF CurlInv, Transfer
<1> QED  BY <1>9, <1>10, <1>11, <1>12, <1>13 DEF CurlInv

LEMMA ReadDoneKeeps ==
    ASSUME CurlInv, readDone
    PROVE  CurlInv'
<1> DEFINE d == Len(buf)
<1>1. /\ r = "copied" /\ r' = "idle" /\ a' = Wrapped(a + d)
      /\ posRead' = posRead + d /\ position' = position + d
      /\ UNCHANGED <<buffer, b, eof, readError, threadShutdown, doSeek, seekOffset,
                     w, wantWrite, from, length, bLocal, buf, leftover>>
  BY DEF readDone, status, seeking, writer
<1>2. empty' = (empty \/ a' = b)
  BY DEF readDone
<1>3. /\ ~empty /\ d \in 1 .. FillNow
  BY <1>1 DEF CurlInv, Snapshot
<1>4. /\ FillNow \in Nat /\ d \in Nat /\ d >= 1 /\ d <= FillNow /\ b \in Cells
      /\ posRead \in Nat /\ position \in Nat /\ seekOffset \in Nat /\ from \in Nat
      /\ bufSize \in Nat /\ wantWrite \in Nat
  BY <1>3, Sizes DEF CurlInv, TypeOK
<1> HIDE DEF d
<1>5. \/ /\ Wrapped(a + d) = b
         /\ empty' = TRUE /\ a' = b' /\ a' \in Cells
      \/ /\ Wrapped(a + d) # b
         /\ empty' = FALSE /\ a' = Wrapped(a + d) /\ b' = b
  BY <1>1, <1>2, <1>3, <1>4
<1>6. /\ a' \in Cells /\ b' \in Cells /\ empty' \in BOOLEAN
      /\ FillNow' = FillNow - d
      /\ RingPart'
  BY <1>1, <1>3, <1>5, Skipped DEF CurlInv
<1>7. TypeOK'
  <2>1. posRead' \in Nat /\ position' \in Nat
    BY <1>1, <1>4
  <2> QED  BY <1>1, <1>6, <2>1 DEF CurlInv, TypeOK
<1>8. Phases'
  <2>1. position' = IF doSeek THEN posRead' + seekOffset ELSE posRead'
    BY <1>1, <1>4 DEF CurlInv, Phases
  <2> QED  BY <1>1, <2>1 DEF CurlInv, Phases
<1>9. Transfer'
  <2>1. \A k \in Cells : Behind(k)' = Behind(k)
    BY <1>1 DEF Behind
  <2>2. posRead' + FillNow' = posRead + FillNow
    BY <1>1, <1>4, <1>6
  <2>3. FillNow + wantWrite <= bufSize => FillNow' + wantWrite <= bufSize
    BY <1>4, <1>6
  <2> QED  BY <1>1, <2>1, <2>2, <2>3 DEF CurlInv, Transfer
<1>10. Snapshot'
  BY <1>1 DEF Snapshot
<1> QED  BY <1>6, <1>7, <1>8, <1>9, <1>10 DEF CurlInv

\* Waiting, seeking and closing.
LEMMA ServerKeeps ==
    ASSUME CurlInv, wait \/ seekWake \/ close \/ closeDone
    PROVE  CurlInv'
<1> USE DEF CurlInv
<1>1. UNCHANGED <<buffer, a, b, empty, posRead, eof, readError, doSeek, seekOffset,
                  w, wantWrite, from, length, bLocal, buf, position, leftover>>
  BY DEF wait, seekWake, close, closeDone, ring, status, seeking, writer
<1>2. /\ r' \in {"wait", "waitSeek", "willWaitSeek", "idle", "joining", "closed"}
      /\ r' = "wait" => r = "willWait"
      /\ r' = "idle" => r = "waitSeek" /\ (~doSeek \/ Ended)
      /\ r \in {"willWaitSeek", "waitSeek"} => r' \in {"willWaitSeek", "waitSeek", "idle"}
      /\ threadShutdown' \in BOOLEAN
      /\ threadShutdown' => threadShutdown \/ r' = "joining"
      /\ r = "joining" => r' = "closed"
      /\ r # "closed"
  <2>1. CASE wait
    BY <2>1 DEF wait, status, TypeOK
  <2>2. CASE seekWake
    BY <2>2 DEF seekWake, status, TypeOK
  <2>3. CASE close
    BY <2>3 DEF close, TypeOK
  <2>4. CASE closeDone
    BY <2>4 DEF closeDone, status, TypeOK
  <2> QED  BY <2>1, <2>2, <2>3, <2>4
<1>3. TypeOK'
  BY <1>1, <1>2 DEF TypeOK
<1>4. Phases'
  <2>1. r' = "idle" /\ doSeek => w \in {"signal", "exit"}
    BY <1>2 DEF Phases, Ended
  <2> QED  BY <1>1, <1>2, <2>1 DEF Phases
<1>5. RingPart' /\ Transfer' /\ Snapshot'
  BY <1>1, <1>2, Frame DEF Snapshot
<1> QED  BY <1>3, <1>4, <1>5

LEMMA SeekKeeps ==
    ASSUME CurlInv, NEW offset \in Offsets, seek(offset)
    PROVE  CurlInv'
<1> USE DEF CurlInv
<1>1. offset \in Nat /\ offset >= 1
  BY CurlAssumption
<1>2. /\ r = "opened" /\ doSeek' = TRUE /\ seekOffset' = offset /\ position' = position + offset
      /\ r' = IF Ended THEN "idle" ELSE "willWaitSeek"
      /\ UNCHANGED <<buffer, a, b, empty, posRead, eof, readError, threadShutdown,
                     w, wantWrite, from, length, bLocal, buf, leftover>>
  BY DEF seek, ring, status, writer
<1>3. TypeOK'
  <2>1. position' \in Nat
    BY <1>1, <1>2 DEF TypeOK
  <2> QED  BY <1>1, <1>2, <2>1 DEF TypeOK
<1>4. Phases'
  <2>1. r' = "idle" => w \in {"signal", "exit"}
    BY <1>2 DEF Phases, Ended
  <2>2. position = posRead
    BY <1>2 DEF Phases
  <2> QED  BY <1>1, <1>2, <2>1, <2>2 DEF Phases
<1>5. RingPart' /\ Transfer' /\ Snapshot'
  BY <1>2, Frame
<1> QED  BY <1>3, <1>4, <1>5

-----------------------------------------------------------------------------
LEMMA CurlNext == CurlInv /\ [Next]_vars => CurlInv'
<1> SUFFICES ASSUME CurlInv, [Next]_vars PROVE CurlInv'
  OBVIOUS
<1>1. CASE BufferThread
  BY <1>1, StartTransferKeeps, CallbackKeeps, CallbackWakeKeeps, CallbackCopyKeeps,
     CallbackDoneKeeps, EndKeeps DEF BufferThread
<1>2. CASE readWake
  <2>1. readCheck /\ length' = length /\ r = "wait"
    BY <1>2 DEF readWake
  <2>2. length \in Nat /\ length >= 1
    BY <2>1 DEF CurlInv, TypeOK, Snapshot
  <2> QED  BY <2>1, <2>2, CheckKeeps
<1>3. ASSUME NEW len \in 1 .. MaxLength, read(len) PROVE CurlInv'
  <2>1. readCheck /\ length' = len /\ r \in {"opened", "idle"}
    BY <1>3 DEF read
  <2>2. len \in Nat /\ len >= 1
    BY CurlAssumption
  <2> QED  BY <2>1, <2>2, CheckKeeps
<1>4. CASE WebServer
  BY <1>2, <1>3, <1>4, ReadCopyKeeps, ReadDoneKeeps, ServerKeeps, SeekKeeps DEF WebServer
<1>5. CASE UNCHANGED vars
  <2>1. UNCHANGED <<buffer, a, b, empty, posRead, eof, readError, threadShutdown, doSeek, seekOffset,
                    w, wantWrite, from, r, length, bLocal, buf, position, leftover>>
    BY <1>5 DEF vars, ring, status, seeking, writer, reader
  <2>2. TypeOK' /\ Phases'
    BY <2>1 DEF CurlInv, TypeOK, Phases
  <2>3. RingPart' /\ Transfer' /\ Snapshot'
    BY <2>1, Frame DEF CurlInv, Snapshot
  <2> QED  BY <2>2, <2>3 DEF CurlInv
<1> QED  BY <1>1, <1>4, <1>5 DEF Next

\* Types, phases, the ring and the two copies, for every interleaving.
THEOREM CurlInvariant == Spec => []CurlInv
BY CurlInit, CurlNext, PTL DEF Spec

\* What CurlIOHandler's read() hands out is the part of the file the web server has
\* asked for, if the seek was done and the buffer was empty or held the target.
THEOREM ReadsRightBytes == Spec => []RightBytes
<1>1. CurlInv => RightBytes
  BY DEF CurlInv, Phases, Snapshot, RightBytes, SeekHonoured
<1> QED  BY <1>1, CurlInvariant, PTL

\* CopiesApart: the cells the callback is writing are not those read() is reading.
CopiesApart ==
    w = "copy" /\ r = "copy" =>
        \A k \in 0 .. wantWrite - 1, i \in 1 .. didRead : Behind(k) # At(i - 1)

\* The memcpy() of the callback and that of read(), which run without the mutex at
\* the same time, never touch the same cell of the buffer.
THEOREM CopiesNeverMeet == Spec => []CopiesApart
<1>1. CurlInv => CopiesApart
  <2> SUFFICES ASSUME CurlInv, w = "copy", r = "copy",
                      NEW k \in 0 .. wantWrite - 1, NEW i \in 1 .. didRead
               PROVE  Behind(k) # At(i - 1)
    BY DEF CopiesApart
  <2>1. /\ bufSize \in Nat /\ a \in 0 .. bufSize - 1 /\ b \in 0 .. bufSize - 1
        /\ bLocal \in 0 .. bufSize - 1 /\ length \in Nat /\ wantWrite \in Nat
    BY Sizes DEF CurlInv, TypeOK
  <2>2. /\ FillUpTo(bLocal) <= FillUpTo(b) /\ FillUpTo(b) + wantWrite <= bufSize
    BY DEF CurlInv, Snapshot, Transfer, FillNow
  <2>3. didRead <= FillUpTo(bLocal) /\ didRead \in Int
    BY <2>1 DEF didRead, Least, FillUpTo
  <2> QED  BY <2>1, <2>2, <2>3 DEF Behind, At, Wrapped, FillUpTo
<1> QED  BY <1>1, CurlInvariant, PTL
=============================================================================
