------------------------------ MODULE CurlIO ------------------------------
(***************************************************************************)
(* CurlIOHandler (src/src/curl_io_handler.cc): a transfer by libcurl fills *)
(* the ring buffer of IOHandlerBufferHelper through a callback, and the    *)
(* web server reads from it, after a seek if the client asked for a range. *)
(* Byte number i of the file is the number i.                              *)
(*                                                                         *)
(* The callback takes the mutex; the end of the transfer is reported       *)
(* without it.  So the reader's test and its wait are two steps here.      *)
(* Signals wake one waiting thread, and nobody wakes up without one.       *)
(* checkSocket is never set by this handler.  The web server seeks with    *)
(* SEEK_CUR, once, before it reads (http_SendMessage()).                   *)
(***************************************************************************)
EXTENDS Integers, Sequences

CONSTANTS
    bufSize, initialFillSize,
    MAX_WRITE_SIZE,   \* the most libcurl gives to the callback at once
    FileSize,         \* bound: bytes of the file
    Offsets,          \* where ranges may start, other than at 0
    MaxLength         \* bound: largest length given to read()

ASSUME CurlAssumption ==
    /\ MAX_WRITE_SIZE \in Nat \ {0}
    /\ bufSize \in Nat /\ bufSize >= MAX_WRITE_SIZE
    /\ initialFillSize \in 0 .. bufSize
    /\ FileSize \in Nat \ {0}
    /\ Offsets \subseteq 1 .. FileSize - 1
    /\ MaxLength \in Nat \ {0}

VARIABLES
    buffer, a, b, empty, posRead,
    eof, readError, threadShutdown, waitForInitialFillSize,
    doSeek, seekOffset,
    w,             \* where the buffer thread is
    wantWrite,     \* the size of the piece the callback has got
    from,          \* the first byte libcurl has not given to the callback yet
    complete,      \* how the transfer ended
    wsig,          \* a signal reached the waiting buffer thread
    r,             \* where the web server is
    length, bLocal, buf,
    rsig,          \* a signal reached the waiting web server
    position,      \* the byte the web server wants to read next
    leftover       \* a seek was done and the old bytes are still in the buffer

ring == <<buffer, a, b, empty>>
status == <<eof, readError, threadShutdown>>
seeking == <<doSeek, seekOffset>>
writer == <<w, wantWrite, from, complete>>
reader == <<r, length, bLocal, buf, position>>
vars == <<ring, posRead, status, waitForInitialFillSize, seeking, writer, wsig, reader, rsig,
          leftover>>

Cells == 0 .. bufSize - 1

Init ==
    /\ buffer = [i \in Cells |-> 0]
    /\ a = 0 /\ b = 0 /\ empty = TRUE /\ posRead = 0
    /\ eof = FALSE /\ readError = FALSE /\ threadShutdown = FALSE
    /\ waitForInitialFillSize = (initialFillSize > 0)
    /\ doSeek = FALSE /\ seekOffset = 0
    /\ w = "loop" /\ wantWrite = 0 /\ from = 0 /\ complete = FALSE /\ wsig = FALSE
    /\ r = "opened" /\ length = 0 /\ bLocal = 0 /\ buf = <<>> /\ rsig = FALSE
    /\ position = 0 /\ leftover = FALSE

Wrapped(i) == IF i >= bufSize THEN i - bufSize ELSE i
FillUpTo(end) == IF end - a <= 0 THEN end - a + bufSize ELSE end - a
bufFree == IF empty THEN bufSize ELSE IF a - b < 0 THEN a - b + bufSize ELSE a - b

\* The web server has the mutex between a test and the wait that follows.
MutexFree == r \notin {"willWait", "willWaitSeek"}

SignalReader(cnd) == rsig' = (rsig \/ (cnd /\ r \in {"wait", "waitSeek"}))
SignalWriter(cnd) == wsig' = (wsig \/ (cnd /\ w = "wait"))

-----------------------------------------------------------------------------
(* The buffer thread                                                       *)

\* The head of the loop of threadProc(): a seek that the callback could not do
\* becomes the start of the next transfer.
startTransfer ==
    /\ w = "loop"
    /\ MutexFree
    /\ \/ /\ doSeek
          /\ posRead' = posRead + seekOffset
          /\ from' = posRead'
          /\ waitForInitialFillSize' = (initialFillSize > 0)
          /\ doSeek' = FALSE
          /\ SignalReader(TRUE)
          /\ leftover' = ~empty
       \/ /\ ~doSeek
          /\ UNCHANGED <<posRead, from, waitForInitialFillSize, doSeek, rsig, leftover>>
    /\ w' = "transfer"
    /\ UNCHANGED <<ring, status, seekOffset, wantWrite, complete, wsig, reader>>

\* Mutant of InBuffer: one byte too many.
InBufferAndNext == doSeek /\ ~empty /\ seekOffset <= FillUpTo(b) + 1

InBuffer == doSeek /\ ~empty /\ seekOffset <= FillUpTo(b)

\* What the callback does about a seek at the head of its loop.
SeekInBuffer ==
    LET next == Wrapped(a + seekOffset)
    IN  /\ InBuffer
        /\ posRead' = posRead + seekOffset
        /\ empty' = (next = b)
        /\ a' = IF next = b THEN 0 ELSE next
        /\ b' = IF next = b THEN 0 ELSE b
        /\ doSeek' = FALSE
        /\ SignalReader(TRUE)

\* The callback returns 0, and libcurl gives up.
Abort == w' = "returned" /\ complete' = FALSE

SeekByTransfer ==
    /\ doSeek /\ ~InBuffer
    /\ a' = 0 /\ b' = 0 /\ empty' = TRUE
    /\ Abort
    /\ UNCHANGED <<posRead, doSeek, rsig>>

\* Nothing to seek; an empty buffer is rewound.
NoSeek ==
    /\ ~doSeek
    /\ a' = IF empty /\ ~threadShutdown THEN 0 ELSE a
    /\ b' = IF empty /\ ~threadShutdown THEN 0 ELSE b
    /\ UNCHANGED <<empty, posRead, doSeek, rsig>>

\* libcurl calls curlCallback() with n bytes.  The first round of its loop:
\* the seek, if there is one, and the look for room, without a wait.
curlCallback(n) ==
    /\ w = "transfer"
    /\ n <= FileSize - from
    /\ MutexFree
    /\ wantWrite' = n
    /\ \/ SeekByTransfer
       \/ /\ SeekInBuffer \/ NoSeek
          /\ \/ threadShutdown /\ Abort
             \/ /\ ~threadShutdown
                /\ w' = IF bufFree' >= n THEN "copy" ELSE "wait"
                /\ UNCHANGED complete
    /\ UNCHANGED <<buffer, status, waitForInitialFillSize, seekOffset, from, wsig, reader,
                   leftover>>

\* Mutant of MustStop: a thread that was woken up goes on.
NeverStops == FALSE

MustStop == threadShutdown

\* cond->wait() returns in curlCallback(): the look for room comes before the
\* seek, and after a seek in the buffer it waits again.
callbackWake ==
    /\ w = "wait" /\ wsig
    /\ MutexFree
    /\ wsig' = FALSE
    /\ \/ MustStop /\ Abort /\ UNCHANGED <<a, b, empty, posRead, doSeek, rsig>>
       \/ /\ ~MustStop
          /\ \/ /\ bufFree >= wantWrite
                /\ w' = "copy"
                /\ a' = IF empty THEN 0 ELSE a
                /\ b' = IF empty THEN 0 ELSE b
                /\ UNCHANGED <<empty, posRead, doSeek, rsig, complete>>
             \/ bufFree < wantWrite /\ SeekByTransfer
             \/ /\ bufFree < wantWrite
                /\ SeekInBuffer \/ NoSeek
                /\ UNCHANGED <<w, complete>>
    /\ UNCHANGED <<buffer, status, waitForInitialFillSize, seekOffset, wantWrite, from, reader,
                   leftover>>

\* The two memcpy() calls, without the mutex.
callbackCopy ==
    /\ w = "copy"
    /\ buffer' = [i \in Cells |->
                     LET k == IF i >= b THEN i - b ELSE i - b + bufSize
                     IN  IF k < wantWrite THEN from + k ELSE buffer[i]]
    /\ w' = "copied"
    /\ UNCHANGED <<a, b, empty, posRead, status, waitForInitialFillSize, seeking, wantWrite,
                   from, complete, wsig, reader, rsig, leftover>>

InitialFillReached(end) == waitForInitialFillSize /\ FillUpTo(end) >= initialFillSize

\* AUTORELOCK and the rest of curlCallback().
callbackDone ==
    LET end == Wrapped(b + wantWrite)
    IN  /\ w = "copied"
        /\ MutexFree
        /\ b' = end
        /\ empty' = FALSE
        /\ waitForInitialFillSize' = (waitForInitialFillSize /\ ~InitialFillReached(end))
        /\ SignalReader(empty \/ InitialFillReached(end))
        /\ from' = from + wantWrite
        /\ w' = "transfer"
        /\ UNCHANGED <<buffer, a, posRead, status, seeking, wantWrite, complete, wsig, reader,
                       leftover>>

\* curl_easy_perform() returns: all has been transferred, or something failed.
transferEnds ==
    /\ w = "transfer"
    /\ complete' \in {from = FileSize, FALSE}
    /\ w' = "returned"
    /\ UNCHANGED <<ring, posRead, status, waitForInitialFillSize, seeking, wantWrite, from, wsig,
                   reader, rsig, leftover>>

\* while (doSeek), without the mutex.
againIfSeek ==
    /\ w = "returned"
    /\ w' = IF doSeek THEN "loop" ELSE "end"
    /\ UNCHANGED <<ring, posRead, status, waitForInitialFillSize, seeking, wantWrite, from,
                   complete, wsig, reader, rsig, leftover>>

\* The end of the transfer is noted, and then signalled, without the mutex.
noteEnd ==
    /\ w = "end"
    /\ readError' = (readError \/ ~complete)
    /\ eof' = (eof \/ complete)
    /\ w' = "signal"
    /\ UNCHANGED <<ring, posRead, threadShutdown, waitForInitialFillSize, seeking, wantWrite,
                   from, complete, wsig, reader, rsig, leftover>>

signalEnd ==
    /\ w = "signal"
    /\ SignalReader(TRUE)
    /\ w' = "exit"
    /\ UNCHANGED <<ring, posRead, status, waitForInitialFillSize, seeking, wantWrite, from,
                   complete, wsig, reader, leftover>>

-----------------------------------------------------------------------------
(* The web server                                                          *)

Ended == threadShutdown \/ eof \/ readError
Blocked == (empty \/ waitForInitialFillSize) /\ ~Ended

\* What read() does with the mutex held, up to the copy.
readCheck ==
    /\ \/ Blocked /\ r' = "willWait" /\ UNCHANGED bLocal
       \/ ~Blocked /\ (readError \/ threadShutdown \/ empty) /\ r' = "finished" /\ UNCHANGED bLocal
       \/ ~Blocked /\ ~(readError \/ threadShutdown \/ empty) /\ r' = "copy" /\ bLocal' = b
    /\ UNCHANGED <<ring, posRead, status, waitForInitialFillSize, seeking, writer, wsig, buf,
                   position, leftover>>

read(len) ==
    /\ r \in {"opened", "idle"}
    /\ length' = len
    /\ readCheck
    /\ UNCHANGED rsig

\* cond->wait() unlocks; a signal sent before does not reach it.
wait ==
    /\ r \in {"willWait", "willWaitSeek"}
    /\ r' = IF r = "willWait" THEN "wait" ELSE "waitSeek"
    /\ UNCHANGED <<ring, posRead, status, waitForInitialFillSize, seeking, writer, wsig, length,
                   bLocal, buf, position, rsig, leftover>>

readWake ==
    /\ r = "wait" /\ rsig
    /\ rsig' = FALSE
    /\ readCheck
    /\ UNCHANGED length

Least(x, y) == IF x < y THEN x ELSE y
didRead == Least(length, FillUpTo(bLocal))

\* The two memcpy() calls, without the mutex.
readCopy ==
    /\ r = "copy"
    /\ buf' = [i \in 1 .. didRead |-> buffer[Wrapped(a + i - 1)]]
    /\ r' = "copied"
    /\ UNCHANGED <<ring, posRead, status, waitForInitialFillSize, seeking, writer, wsig, length,
                   bLocal, position, rsig, leftover>>

\* AUTORELOCK and the rest of read(); signalAfterEveryRead is set.
readDone ==
    /\ r = "copied"
    /\ a' = Wrapped(a + Len(buf))
    /\ empty' = (empty \/ a' = b)
    /\ posRead' = posRead + Len(buf)
    /\ position' = position + Len(buf)
    /\ SignalWriter(TRUE)
    /\ r' = "idle"
    /\ UNCHANGED <<buffer, b, status, waitForInitialFillSize, seeking, writer, length, bLocal,
                   buf, rsig, leftover>>

seek(offset) ==
    /\ r = "opened"
    /\ doSeek' = TRUE
    /\ seekOffset' = offset
    /\ position' = position + offset
    /\ SignalWriter(TRUE)
    /\ r' = IF Ended THEN "idle" ELSE "willWaitSeek"
    /\ UNCHANGED <<ring, posRead, status, waitForInitialFillSize, writer, length, bLocal, buf,
                   rsig, leftover>>

seekWake ==
    /\ r = "waitSeek" /\ rsig
    /\ rsig' = FALSE
    /\ r' = IF doSeek /\ ~Ended THEN "willWaitSeek" ELSE "idle"
    /\ UNCHANGED <<ring, posRead, status, waitForInitialFillSize, seeking, writer, wsig, length,
                   bLocal, buf, position, leftover>>

\* close() up to pthread_join(), and its end.
close ==
    /\ r \in {"opened", "idle", "finished"}
    /\ threadShutdown' = TRUE
    /\ SignalWriter(TRUE)
    /\ r' = "joining"
    /\ UNCHANGED <<ring, posRead, eof, readError, waitForInitialFillSize, seeking, writer, length,
                   bLocal, buf, position, rsig, leftover>>

closeDone ==
    /\ r = "joining" /\ w = "exit"
    /\ r' = "closed"
    /\ UNCHANGED <<ring, posRead, status, waitForInitialFillSize, seeking, writer, wsig, length,
                   bLocal, buf, position, rsig, leftover>>

-----------------------------------------------------------------------------
BufferThread ==
    \/ startTransfer \/ callbackWake \/ callbackCopy \/ callbackDone \/ transferEnds
    \/ againIfSeek \/ noteEnd \/ signalEnd
    \/ \E n \in 1 .. MAX_WRITE_SIZE : curlCallback(n)

WebServer ==
    \/ wait \/ readWake \/ readCopy \/ readDone \/ seekWake \/ close \/ closeDone
    \/ \E len \in 1 .. MaxLength : read(len)
    \/ \E offset \in Offsets : seek(offset)

Next == BufferThread \/ WebServer

\* Both threads keep running, libcurl comes to an end, and the web server reads
\* on until it closes.
Spec == Init /\ [][Next]_vars /\ WF_vars(BufferThread) /\ WF_vars(WebServer)

-----------------------------------------------------------------------------
(* Properties                                                              *)

\* What read() has copied is what the web server wants to read next.
SeekHonoured ==
    r = "copied" => \A i \in 1 .. Len(buf) : buf[i] = position + i - 1

\* ... if the seek was done at all and nothing old was left in the buffer: for
\* every place of the ring and of the file, whether the seek skips bytes that are
\* in the buffer or starts a new transfer.
RightBytes == ~doSeek /\ ~leftover => SeekHonoured

\* read() comes back.
ReadReturns == r = "wait" ~> r # "wait"

\* close() comes back, wherever it finds the callback.
CloseReturns == r = "joining" ~> r = "closed"
=============================================================================
