---------------------------- MODULE BufferedIO ----------------------------
(***************************************************************************)
(* BufferedIOHandler (src/src/buffered_io_handler.cc) on top of            *)
(* IOHandlerBufferHelper (src/src/io_handler_buffer_helper.cc): a ring     *)
(* buffer between the web server thread that calls read() and close() and  *)
(* a buffer thread that fills it from the underlying handler.              *)
(*                                                                         *)
(* Both threads touch the memory without the mutex: read() copies out of   *)
(* the buffer, the underlying handler writes into it.  The byte number i   *)
(* of the source is the number i, so order and loss are visible.           *)
(*                                                                         *)
(* seekEnabled is false in this handler: seek() throws and the code that   *)
(* serves doSeek is not reached.                                           *)
(***************************************************************************)
EXTENDS Integers, Sequences

CONSTANTS
    bufSize,
    maxChunkSize,
    initialFillSize,
    MaxLength,       \* bound: largest length given to read()
    MaxBytes,        \* bound: bytes the source has
    Spurious         \* may pthread_cond_wait return without a signal?

ASSUME SizesAssumption ==
    /\ bufSize \in Nat \ {0}
    /\ maxChunkSize \in Nat \ {0}
    /\ initialFillSize \in 0 .. bufSize
    /\ MaxLength \in Nat \ {0}
    /\ MaxBytes \in Nat
    /\ Spurious \in BOOLEAN

CHECK_SOCKET == -666

VARIABLES
    buffer, a, b, empty,      \* the ring buffer
    posRead,
    eof, readError, threadShutdown, waitForInitialFillSize, checkSocket,
    w,                        \* where the buffer thread is
    chunkSize, readBytes,     \* its locals
    wsig,                     \* a signal reached the waiting buffer thread
    r,                        \* where the reader is
    length, bLocal, buf,      \* locals of read()
    rsig,                     \* a signal reached the waiting reader
    ret,                      \* what the last read() returned
    produced                  \* bytes the source has handed over

vars == <<buffer, a, b, empty, posRead, eof, readError, threadShutdown,
          waitForInitialFillSize, checkSocket, w, chunkSize, readBytes, wsig,
          r, length, bLocal, buf, rsig, ret, produced>>

ring   == <<buffer, a, b, empty>>
status == <<eof, readError, threadShutdown, waitForInitialFillSize, checkSocket>>
writer == <<w, chunkSize, readBytes, produced>>
reader == <<r, length, bLocal, buf, posRead, ret>>

Cells == 0 .. bufSize - 1

\* currentFillSize, for a buffer that is not empty.
FillUpTo(end) == IF end - a <= 0 THEN end - a + bufSize ELSE end - a

Min2(x, y) == IF x < y THEN x ELSE y

\* The buffer thread keeps the mutex from "top" to the next wait or unlock.
MutexFree == w \notin {"top", "end"}

\* cond->signal() by one of the two threads can only reach the other one.
SignalReader(cnd) == rsig' = (rsig \/ (cnd /\ r = "wait"))
SignalWriter(cnd) == wsig' = (wsig \/ (cnd /\ w = "wait"))

Init ==
    /\ buffer = [i \in Cells |-> 0]
    /\ a = 0 /\ b = 0 /\ empty = TRUE
    /\ posRead = 0
    /\ eof = FALSE /\ readError = FALSE /\ threadShutdown = FALSE
    /\ waitForInitialFillSize = (initialFillSize > 0)
    /\ checkSocket = FALSE
    /\ w = "start" /\ chunkSize = 0 /\ readBytes = 0 /\ wsig = FALSE
    /\ r = "idle" /\ length = 0 /\ bLocal = 0 /\ buf = <<>> /\ rsig = FALSE
    /\ ret = 0
    /\ produced = 0

----------------------------------------------------------------------------
(* The buffer thread *)

\* AUTOLOCK at the start of threadProc.
threadStart ==
    /\ w = "start"
    /\ w' = "top"
    /\ UNCHANGED <<ring, status, chunkSize, readBytes, wsig, rsig, reader, produced>>

\* Mutant of maxWrite: the reader's end of the ring is forgotten.
MaxWriteToTheEnd == IF empty THEN bufSize ELSE bufSize - b

maxWrite == IF empty THEN bufSize ELSE IF a < b THEN bufSize - b ELSE a - b

\* The head of the loop: an empty buffer is rewound; then either there is no
\* room and the thread waits, or it unlocks and reads at most a chunk.
threadLoop ==
    /\ w = "top"
    /\ a' = (IF empty THEN 0 ELSE a)
    /\ b' = (IF empty THEN 0 ELSE b)
    /\ IF maxWrite = 0
       THEN w' = "wait" /\ UNCHANGED chunkSize
       ELSE w' = "reading" /\ chunkSize' = Min2(maxChunkSize, maxWrite)
    /\ UNCHANGED <<buffer, empty, status, readBytes, wsig, rsig, reader, produced>>

\* Mutant of AfterWait: the thread does not notice that it has to stop.
AfterWaitLoops == "top"

AfterWait == IF threadShutdown THEN "end" ELSE "top"

\* cond->wait() returns; the loop goes on unless the handler is being closed.
threadWake ==
    /\ w = "wait"
    /\ wsig \/ Spurious
    /\ wsig' = FALSE
    /\ w' = AfterWait
    /\ UNCHANGED <<ring, status, chunkSize, readBytes, rsig, reader, produced>>

\* underlyingHandler->read(buffer + b, chunkSize), without the mutex.
sourceRead(n) ==
    /\ w = "reading"
    /\ n <= chunkSize
    /\ n > 0 => produced + n <= MaxBytes
    /\ buffer' = [i \in Cells |-> IF b <= i /\ i < b + n THEN produced + 1 + (i - b)
                                  ELSE buffer[i]]
    /\ readBytes' = n
    /\ w' = "relock"
    /\ UNCHANGED <<a, b, empty, status, chunkSize, wsig, rsig, reader, produced>>

NextB == IF b + readBytes = bufSize THEN 0 ELSE b + readBytes

InitialFillReached(end) == waitForInitialFillSize /\ FillUpTo(end) >= initialFillSize

\* AUTORELOCK: the bytes become part of the buffer, or the reader is told to
\* check its socket; the loop ends on the end of the source, on its failure
\* and when the handler is being closed.
threadStore ==
    /\ w = "relock"
    /\ \/ /\ readBytes > 0
          /\ b' = NextB
          /\ empty' = FALSE
          /\ waitForInitialFillSize' =
                 (waitForInitialFillSize /\ ~InitialFillReached(NextB))
          /\ produced' = produced + readBytes
          /\ SignalReader(empty \/ InitialFillReached(NextB))
          /\ UNCHANGED checkSocket
       \/ /\ readBytes = CHECK_SOCKET
          /\ checkSocket' = TRUE
          /\ SignalReader(TRUE)
          /\ UNCHANGED <<b, empty, waitForInitialFillSize, produced>>
       \/ /\ readBytes <= 0 /\ readBytes # CHECK_SOCKET
          /\ UNCHANGED <<b, empty, waitForInitialFillSize, checkSocket, produced, rsig>>
    /\ w' = IF ~threadShutdown /\ (readBytes > 0 \/ readBytes = CHECK_SOCKET)
            THEN "top" ELSE "end"
    /\ UNCHANGED <<buffer, a, eof, readError, threadShutdown, chunkSize, readBytes,
                   wsig, reader>>

\* After the loop.
threadEnd ==
    /\ w = "end"
    /\ eof' = (eof \/ (~threadShutdown /\ readBytes = 0))
    /\ readError' = (readError \/ (~threadShutdown /\ readBytes < 0))
    /\ SignalReader(TRUE)
    /\ w' = "exit"
    /\ UNCHANGED <<ring, threadShutdown, waitForInitialFillSize, checkSocket,
                   chunkSize, readBytes, wsig, reader, produced>>

----------------------------------------------------------------------------
(* The reader *)

\* Mutants of Blocked: an empty buffer does not block; the end of the source
\* is not noticed.
BlockedOnlyInitially == waitForInitialFillSize /\ ~(threadShutdown \/ eof \/ readError)
BlockedAtEof == (empty \/ waitForInitialFillSize) /\ ~(threadShutdown \/ readError)

Blocked ==
    /\ empty \/ waitForInitialFillSize
    /\ ~(threadShutdown \/ eof \/ readError)

\* What read() does with the mutex held, up to the copy.
readCheck ==
    \/ /\ Blocked /\ checkSocket
       /\ checkSocket' = FALSE
       /\ ret' = CHECK_SOCKET
       /\ r' = "idle"
       /\ UNCHANGED bLocal
    \/ /\ Blocked /\ ~checkSocket
       /\ r' = "wait"
       /\ UNCHANGED <<checkSocket, ret, bLocal>>
    \/ /\ ~Blocked /\ (readError \/ threadShutdown)
       /\ ret' = -1
       /\ r' = "idle"
       /\ UNCHANGED <<checkSocket, bLocal>>
    \/ /\ ~Blocked /\ ~(readError \/ threadShutdown) /\ empty
       /\ ret' = 0
       /\ r' = "idle"
       /\ UNCHANGED <<checkSocket, bLocal>>
    \/ /\ ~Blocked /\ ~(readError \/ threadShutdown) /\ ~empty
       /\ bLocal' = b
       /\ r' = "copy"
       /\ UNCHANGED <<checkSocket, ret>>

read(len) ==
    /\ r = "idle"
    /\ MutexFree
    /\ length' = len
    /\ readCheck
    /\ UNCHANGED <<ring, eof, readError, threadShutdown, waitForInitialFillSize,
                   writer, wsig, rsig, buf, posRead>>

\* cond->wait() returns inside read().
readWake ==
    /\ r = "wait"
    /\ rsig \/ Spurious
    /\ MutexFree
    /\ rsig' = FALSE
    /\ readCheck
    /\ UNCHANGED <<ring, eof, readError, threadShutdown, waitForInitialFillSize,
                   writer, wsig, length, buf, posRead>>

read1 == Min2(length, IF a < bLocal THEN bLocal - a ELSE bufSize - a)

\* Mutant of read2: more than the buffer holds may be copied.
Read2Unlimited == length - read1

read2 == Min2(length - read1, FillUpTo(bLocal) - read1)

\* The two memcpy() calls, without the mutex.
readCopy ==
    /\ r = "copy"
    /\ buf' = [i \in 1 .. read1 + read2 |->
                  IF i <= read1 THEN buffer[a + i - 1] ELSE buffer[i - read1 - 1]]
    /\ r' = "copied"
    /\ UNCHANGED <<ring, status, writer, wsig, rsig, length, bLocal, posRead, ret>>

NextA == IF a + Len(buf) >= bufSize THEN a + Len(buf) - bufSize ELSE a + Len(buf)

\* Mutant of WriterMayWait: a buffer that was full is not considered.
WriterWaitsWhenEmpty == NextA = b

\* The buffer was full, or became full during the copy, or is empty now.
WriterMayWait == a = b \/ NextA = b

\* AUTORELOCK and the rest of read().
readDone ==
    /\ r = "copied"
    /\ MutexFree
    /\ a' = NextA
    /\ empty' = (empty \/ NextA = b)
    /\ SignalWriter(WriterMayWait)
    /\ posRead' = posRead + Len(buf)
    /\ ret' = Len(buf)
    /\ r' = "idle"
    /\ UNCHANGED <<buffer, b, status, writer, rsig, length, bLocal, buf>>

\* close() up to pthread_join().
close ==
    /\ r = "idle"
    /\ MutexFree
    /\ threadShutdown' = TRUE
    /\ SignalWriter(TRUE)
    /\ r' = "joining"
    /\ UNCHANGED <<ring, eof, readError, waitForInitialFillSize, checkSocket, writer,
                   rsig, length, bLocal, buf, posRead, ret>>

\* pthread_join() returns; the buffer is freed.
closeDone ==
    /\ r = "joining"
    /\ w = "exit"
    /\ r' = "closed"
    /\ UNCHANGED <<ring, status, writer, wsig, rsig, length, bLocal, buf, posRead, ret>>

----------------------------------------------------------------------------

SourceReturns == \E n \in {CHECK_SOCKET, -1} \cup 0 .. chunkSize : sourceRead(n)

BufferThread ==
    \/ threadStart
    \/ threadLoop
    \/ threadWake
    \/ SourceReturns
    \/ threadStore
    \/ threadEnd

ReaderThread ==
    \/ readWake
    \/ readCopy
    \/ readDone
    \/ closeDone

Next ==
    \/ BufferThread
    \/ ReaderThread
    \/ \E len \in 1 .. MaxLength : read(len)
    \/ close

Spec == Init /\ [][Next]_vars

\* Both threads keep running and the underlying read() returns, be it with
\* CHECK_SOCKET.  The buffer thread gives the mutex up around every
\* underlying read(), so the reader gets hold of it at some time.
Fairness ==
    /\ WF_vars(BufferThread)
    /\ SF_vars(ReaderThread)

FairSpec == Spec /\ Fairness

----------------------------------------------------------------------------
(* Properties *)

TypeOK ==
    /\ buffer \in [Cells -> Nat]
    /\ a \in Cells /\ b \in Cells
    /\ posRead \in Nat /\ produced \in Nat
    /\ empty \in BOOLEAN /\ eof \in BOOLEAN /\ readError \in BOOLEAN
    /\ threadShutdown \in BOOLEAN /\ waitForInitialFillSize \in BOOLEAN
    /\ checkSocket \in BOOLEAN /\ wsig \in BOOLEAN /\ rsig \in BOOLEAN
    /\ w \in {"start", "top", "wait", "reading", "relock", "end", "exit"}
    /\ r \in {"idle", "wait", "copy", "copied", "joining", "closed"}
    /\ chunkSize \in 0 .. bufSize
    /\ readBytes \in {CHECK_SOCKET, -1} \cup 0 .. bufSize
    /\ length \in Nat
    /\ bLocal \in Cells
    /\ buf \in Seq(Nat)
    /\ ret \in Int

\* read() hands out the bytes of the source in order: what it has copied are
\* the bytes right after the ones delivered before.
DeliveredInOrder ==
    r = "copied" => \A i \in 1 .. Len(buf) : buf[i] = posRead + i

WriterCells == {i \in Cells : b <= i /\ i < b + chunkSize}
ReaderCells == {i \in Cells : \/ a <= i /\ i < a + read1
                              \/ i < read2}

\* The memory the underlying handler writes and the memory read() copies,
\* both without the mutex, never overlap.
NoDataRace ==
    w = "reading" /\ r = "copy" => WriterCells \cap ReaderCells = {}

\* A sleeping thread that no signal is on its way to has nothing to do: the
\* reader still has to wait, the buffer is still full.
NoLostSignal ==
    /\ r = "wait" /\ ~rsig => Blocked /\ ~checkSocket
    /\ w = "wait" /\ ~wsig => ~empty /\ a = b /\ ~threadShutdown

\* Everyone waiting on everyone: never.
NotBothAsleep == ~(r = "wait" /\ ~rsig /\ w = "wait" /\ ~wsig)

\* read() always comes back, if only to have the socket checked.
ReadReturns == r = "wait" ~> r # "wait"

\* close() always comes back.
CloseReturns == r = "joining" ~> r = "closed"

\* The state of the stream as the web server sees it.
StreamState ==
    IF threadShutdown THEN "closed"
    ELSE IF readError THEN "error"
    ELSE IF eof THEN "eof" ELSE "open"

Stream == INSTANCE ByteStream
          WITH Capacity <- bufSize, produced <- produced, consumed <- posRead,
               state <- StreamState, ret <- ret

\* The handler implements the byte stream the web server relies on.
ImplementsStream == Stream!StreamSpec
=============================================================================
