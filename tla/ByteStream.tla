---------------------------- MODULE ByteStream ----------------------------
(***************************************************************************)
(* What a buffered IOHandler promises to the web server that reads from    *)
(* it: the bytes of the source, in order and without loss, at most         *)
(* Capacity of them ahead of the reader; the end of the file only after    *)
(* the last byte; an error only when the source failed or the handler is   *)
(* being closed.                                                           *)
(***************************************************************************)
EXTENDS Integers

CONSTANT Capacity     \* a positive number of bytes

VARIABLES
    produced,   \* bytes taken from the source so far
    consumed,   \* bytes handed to the reader so far
    state,      \* "open", "eof", "error" or "closed"
    ret         \* what the last read() returned

streamVars == <<produced, consumed, state, ret>>

\* Return values of read() that are not a byte count.
CHECK_SOCKET == -666
ReadFailed   == -1

StreamInit ==
    /\ produced = 0
    /\ consumed = 0
    /\ state = "open"
    /\ ret = 0

\* The buffer thread may be in the middle of a read when the handler is closed.
Produce ==
    /\ state \in {"open", "closed"}
    /\ \E n \in 1 .. Capacity - (produced - consumed) : produced' = produced + n
    /\ UNCHANGED <<consumed, state, ret>>

SourceEnds ==
    /\ state = "open"
    /\ state' \in {"eof", "error"}
    /\ UNCHANGED <<produced, consumed, ret>>

ReadBytes ==
    /\ \E n \in 1 .. produced - consumed :
          /\ consumed' = consumed + n
          /\ ret' = n
    /\ UNCHANGED <<produced, state>>

ReadEof ==
    /\ state = "eof"
    /\ produced = consumed
    /\ ret' = 0
    /\ UNCHANGED <<produced, consumed, state>>

ReadFails ==
    /\ state \in {"error", "closed"}
    /\ ret' = ReadFailed
    /\ UNCHANGED <<produced, consumed, state>>

\* The reader is asked to look whether its client is still there.
ReadChecksSocket ==
    /\ state = "open"
    /\ ret' = CHECK_SOCKET
    /\ UNCHANGED <<produced, consumed, state>>

Close ==
    /\ state' = "closed"
    /\ UNCHANGED <<produced, consumed, ret>>

StreamNext ==
    \/ Produce
    \/ SourceEnds
    \/ ReadBytes
    \/ ReadEof
    \/ ReadFails
    \/ ReadChecksSocket
    \/ Close

StreamSpec == StreamInit /\ [][StreamNext]_streamVars
=============================================================================
