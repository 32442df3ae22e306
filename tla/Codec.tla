-------------------------------- MODULE Codec --------------------------------
(***************************************************************************)
(* EncodeJpeg and ReconstructJpeg of native/src/jxl_codec.cc: one call per *)
(* conversion, its deadline, its output buffer and the loop around libjxl. *)
(*                                                                         *)
(* libjxl itself is external: it produces the bytes 1, 2, ... of an output *)
(* of some length, a few in each call, into the room it is given, and may  *)
(* fail.  While it works, the shared runner asks DeadlineCancelled.        *)
(* The clock counts ticks, Unit of them in a millisecond.                  *)
(***************************************************************************)
EXTENDS Integers, Sequences

CONSTANTS
    Conversions,   \* the calls
    Encoding,      \* those of EncodeJpeg; the others are of ReconstructJpeg
    Lengths,       \* the lengths an output may have
    InitialBytes,  \* kInitialOutputBytes
    SafetyLimit,   \* OutputBuffer::kSafetyLimit
    Unit,          \* ticks in a millisecond
    ClockMax       \* time_point::max(), which the clock never reaches

ASSUME CodecAssumption ==
    /\ Encoding \subseteq Conversions
    /\ Lengths \subseteq Nat
    /\ InitialBytes \in Nat \ {0} /\ SafetyLimit \in Nat
    /\ InitialBytes <= SafetyLimit
    /\ Unit \in Nat \ {0} /\ ClockMax \in Nat \ {0}

VARIABLES
    now,      \* the clock
    length,   \* length[c]: the length of the output libjxl produces for c
    call      \* call[c]: see Idle

codecVars == <<now, length, call>>

\* OutputBuffer: its capacity, and its bytes up to where libjxl has written.
NoBuffer == [capacity |-> 0, bytes |-> <<>>]

\* at: "idle", "begun", "header", "loop", "inside", or the result;
\* end: the end of its Deadline, ClockMax when it has none;
\* cancelled: DeadlineRunner::expired; done: the bytes libjxl has produced.
Idle == [at |-> "idle", end |-> ClockMax, cancelled |-> FALSE,
         buffer |-> NoBuffer, done |-> 0]

Errors == {"timeout", "invalid", "unsupported", "codec"}

Least(a, b) == IF a < b THEN a ELSE b
Largest(a, b) == IF a > b THEN a ELSE b

\* Fault: a time point that overflows.
WrappedDeadline(start, ms) ==
    IF ms <= 0 THEN ClockMax ELSE (start + ms * Unit) % ClockMax

SaturatingDeadline(start, ms) ==
    IF ms <= 0 \/ ms >= (ClockMax - start) \div Unit THEN ClockMax
    ELSE start + ms * Unit

Expired(c) == now >= call[c].end

\* Either of the two tests after a call of libjxl.
Late(c) == Expired(c) \/ call[c].cancelled

-----------------------------------------------------------------------------
(* OutputBuffer: the possible results; NoBuffer when there is none.         *)

Allocate(capacity) ==
    {NoBuffer} \cup
    IF capacity = 0 \/ capacity > SafetyLimit THEN {}
    ELSE {[capacity |-> capacity, bytes |-> <<>>]}

\* Fault: the bytes written so far are not copied.
GrowEmpty(b, used) ==
    {NoBuffer} \cup
    IF used > b.capacity \/ b.capacity >= SafetyLimit THEN {}
    ELSE {[capacity |-> Least(SafetyLimit, 2 * b.capacity), bytes |-> <<>>]}

\* Fault: a buffer of the largest capacity is replaced by another one.
GrowAlways(b, used) ==
    {NoBuffer} \cup
    IF used > b.capacity THEN {}
    ELSE {[capacity |-> Least(SafetyLimit, 2 * b.capacity),
           bytes |-> SubSeq(b.bytes, 1, used)]}

Grow(b, used) ==
    {NoBuffer} \cup
    IF used > b.capacity \/ b.capacity >= SafetyLimit THEN {}
    ELSE {[capacity |-> Least(SafetyLimit, 2 * b.capacity),
           bytes |-> SubSeq(b.bytes, 1, used)]}

InitialCapacity(c, size) ==
    IF c \in Encoding THEN Largest(size, InitialBytes)
    ELSE Largest(InitialBytes,
                 IF size > SafetyLimit \div 2 THEN SafetyLimit ELSE 2 * size)

-----------------------------------------------------------------------------
(* The steps of a call.                                                     *)

Ends(c, result) == call' = [call EXCEPT ![c].at = result]

\* CheckCommonArguments, of which only the size can be wrong here, and Deadline.
Call(c, size, ms) ==
    call' = [call EXCEPT ![c] =
               [Idle EXCEPT !.at = IF size = 0 THEN "invalid" ELSE "begun",
                            !.end = SaturatingDeadline(now, ms)]]

FirstBuffer(c, size) ==
    \E b \in Allocate(InitialCapacity(c, size)) :
        IF b = NoBuffer THEN Ends(c, "codec")
        ELSE call' = [call EXCEPT ![c].at = "loop", ![c].buffer = b]

\* The encoder is created and configured after the first test of the
\* deadline, the decoder before it.  JxlEncoderAddJPEGFrame may fail.
Create(c, size) ==
    /\ call[c].at = "begun"
    /\ \/ Expired(c) /\ Ends(c, "timeout")
       \/ (Expired(c) => c \notin Encoding) /\ Ends(c, "codec")
       \/ /\ ~Expired(c)
          /\ IF c \in Encoding THEN Ends(c, "unsupported") \/ FirstBuffer(c, size)
             ELSE Ends(c, "header")

\* JxlDecoderProcessInput up to the JPEG reconstruction data.
Header(c, size) ==
    /\ call[c].at = "header"
    /\ IF Late(c) THEN Ends(c, "timeout")
       ELSE Ends(c, "unsupported") \/ FirstBuffer(c, size)

Enter(c) ==
    /\ call[c].at = "loop"
    /\ Ends(c, IF Expired(c) THEN "timeout" ELSE "inside")

\* DeadlineCancelled, asked by the runner's threads; from then on the runner
\* gives up the rows that remain.
Cancel(c) ==
    /\ call[c].at \in {"header", "inside"} /\ Expired(c)
    /\ call' = [call EXCEPT ![c].cancelled = TRUE]

\* libjxl has written k bytes and needs more room, is done, or fails; what it
\* reports as a failure of the decoder means an unsupported input.
Returned(c) ==
    LET b == call[c].buffer IN
    \E k \in 0 .. Least(b.capacity - Len(b.bytes), length[c] - call[c].done) :
      LET bytes == b.bytes \o [i \in 1 .. k |-> call[c].done + i]
          written == [call EXCEPT ![c].buffer.bytes = bytes, ![c].done = @ + k]
      IN  \/ \E more \in Grow(written[c].buffer, Len(bytes)) :
                IF more = NoBuffer THEN Ends(c, "codec")
                ELSE call' = [written EXCEPT ![c].at = "loop", ![c].buffer = more]
          \/ /\ written[c].done = length[c]
             /\ call' = [written EXCEPT ![c].at = "success"]
          \/ Ends(c, "unsupported")
          \/ c \in Encoding /\ Ends(c, "codec")

\* Fault: the deadline is not looked at when libjxl returns.
ReturnUnchecked(c) == call[c].at = "inside" /\ Returned(c)

Return(c) ==
    /\ call[c].at = "inside"
    /\ IF Late(c) THEN Ends(c, "timeout") ELSE Returned(c)

CodecInit ==
    /\ now = 0
    /\ length \in [Conversions -> Lengths]
    /\ call = [c \in Conversions |-> Idle]

CodecStep(c, size) ==
    /\ Create(c, size) \/ Header(c, size) \/ Enter(c) \/ Return(c)
    /\ UNCHANGED <<now, length>>

\* Time passes; ClockMax also bounds the runs.
Tick ==
    /\ now' = now + 1 /\ now' < ClockMax
    /\ UNCHANGED <<length, call>>

-----------------------------------------------------------------------------
(* Properties.                                                              *)

\* The buffer never exceeds the safety limit, libjxl never writes past its
\* end, what was written before it grew is still there, and a call that
\* succeeds leaves the complete output in it.
BufferHoldsOutput ==
    \A c \in Conversions :
        LET b == call[c].buffer
        IN  /\ b.capacity <= SafetyLimit /\ Len(b.bytes) <= b.capacity
            /\ b.bytes = [i \in 1 .. call[c].done |-> i]
            /\ call[c].at = "success" => call[c].done = length[c]

\* A call whose work the runner cancelled is reported as a timeout, never as a
\* success or as an input that libjxl does not support.
CancelledIsTimeout ==
    \A c \in Conversions :
        call[c].cancelled => call[c].at \in {"header", "inside", "timeout"}
=============================================================================
