--------------------------- MODULE ConversionProofs ---------------------------
(***************************************************************************)
(* Proofs about Conversion and the codec inside it, for any number of      *)
(* conversions, paths, timeouts and lengths, with a crash at any point:    *)
(* the output buffer and the timeouts of cancelled calls, whatever libjxl, *)
(* the clock and the runner's threads do; the ownership of temporary       *)
(* files; that an output path is replaced as a whole (AtomicConversion);   *)
(* and that a conversion times out only when its time is over.             *)
(***************************************************************************)
EXTENDS Conversion, SequenceTheorems, FiniteSetTheorems, TLAPS

-----------------------------------------------------------------------------
(* The calls of the codec.                                                  *)

States == {"idle", "begun", "header", "loop", "inside", "success"} \cup Errors

Buffers == [capacity : Nat, bytes : Seq(Nat)]

CallRecords == [at : States, end : Int, cancelled : BOOLEAN,
                buffer : Buffers, done : Nat]

\* What holds of one call, n being the length of its output.  The last line but
\* one is what makes the others inductive: a buffer that has not been allocated
\* belongs to a call that has produced nothing, so the first loses no bytes.
GoodCall(r, n) ==
    /\ r \in CallRecords
    /\ r.buffer.capacity <= SafetyLimit /\ Len(r.buffer.bytes) <= r.buffer.capacity
    /\ r.buffer.bytes = [i \in 1 .. r.done |-> i]
    /\ r.at = "success" => r.done = n
    /\ r.at \in {"idle", "begun", "header"} => r.done = 0
    /\ r.cancelled => r.at \in {"header", "inside", "timeout"}

CodecInv ==
    /\ length \in [Conversions -> Lengths]
    /\ call \in [Conversions -> CallRecords]
    /\ \A c \in Conversions : GoodCall(call[c], length[c])

\* The changes of call[c]: a call begins, goes on, is asked for its deadline,
\* or is over and forgotten.
CallChange(c) ==
    \/ \E size \in Nat, ms \in Int : Call(c, size, ms)
    \/ \E size \in Nat : Create(c, size) \/ Header(c, size)
    \/ Enter(c)
    \/ Cancel(c)
    \/ Return(c)
    \/ call' = [call EXCEPT ![c] = Idle]

-----------------------------------------------------------------------------
\* The counting function up to 0 is the empty output.
LEMMA NothingWritten ==
    /\ <<>> \in Seq(Nat) /\ Len(<<>>) = 0
    /\ <<>> = [i \in 1 .. 0 |-> i]
  OBVIOUS

\* The output 1, 2, ..., n has length n.
LEMMA Counting ==
    ASSUME NEW n \in Nat
    PROVE  /\ [i \in 1 .. n |-> i] \in Seq(Nat)
           /\ Len([i \in 1 .. n |-> i]) = n
<1>1. \A i \in 1 .. n : i \in Nat
  OBVIOUS
<1>2. QED
  BY <1>1

\* libjxl goes on where it stopped: the bytes n + 1, ..., n + k follow 1, ..., n.
LEMMA CountingOn ==
    ASSUME NEW n \in Nat, NEW k \in Nat
    PROVE  [i \in 1 .. n |-> i] \o [i \in 1 .. k |-> n + i]
              = [i \in 1 .. n + k |-> i]
<1> DEFINE s == [i \in 1 .. n |-> i]
           t == [i \in 1 .. k |-> n + i]
           r == [i \in 1 .. n + k |-> i]
<1>1. s \in Seq(Nat) /\ Len(s) = n /\ \A i \in 1 .. n : s[i] = i
  BY Counting
<1>2. t \in Seq(Nat) /\ Len(t) = k /\ \A i \in 1 .. k : t[i] = n + i
  OBVIOUS
<1>3. r \in Seq(Nat) /\ Len(r) = n + k /\ \A i \in 1 .. n + k : r[i] = i
  BY Counting
<1> HIDE DEF s, t, r
<1>4. /\ s \o t \in Seq(Nat)
      /\ Len(s \o t) = n + k
      /\ \A i \in 1 .. n + k : (s \o t)[i] = IF i <= n THEN s[i] ELSE t[i - n]
  BY <1>1, <1>2, ConcatProperties
<1>5. ASSUME NEW i \in 1 .. n + k
      PROVE  (s \o t)[i] = r[i]
  <2>1. CASE i <= n
    BY <1>1, <1>3, <1>4, <2>1
  <2>2. CASE i > n
    <3>1. i - n \in 1 .. k /\ ~(i <= n)
      BY <2>2
    <3>2. (s \o t)[i] = t[i - n]
      BY <1>4, <3>1
    <3>3. t[i - n] = n + (i - n)
      BY <1>2, <3>1
    <3>4. QED
      BY <1>3, <3>2, <3>3
  <2>3. i <= n \/ i > n
    OBVIOUS
  <2>4. QED
    BY <2>1, <2>2, <2>3
<1>6. s \o t = r
  BY <1>3, <1>4, <1>5, SeqEqual
<1>7. QED
  BY <1>6 DEF s, t, r

LEMMA IdleIsGood == ASSUME NEW n PROVE GoodCall(Idle, n)
<1>1. Idle \in CallRecords
  BY NothingWritten, CodecAssumption DEF Idle, CallRecords, Buffers, NoBuffer, States
<1>2. /\ Idle.buffer.bytes = <<>> /\ Idle.buffer.capacity = 0 /\ Idle.done = 0
      /\ Idle.at = "idle" /\ ~Idle.cancelled
  BY DEF Idle, NoBuffer
<1>3. Idle.buffer.bytes = [i \in 1 .. Idle.done |-> i]
  BY <1>2, NothingWritten
<1>4. QED
  BY <1>1, <1>2, <1>3, NothingWritten, CodecAssumption DEF GoodCall

\* A new buffer is empty and within the limit.
LEMMA Allocated ==
    ASSUME NEW capacity \in Nat, NEW b \in Allocate(capacity)
    PROVE  /\ b \in Buffers /\ b.bytes = <<>> /\ b.capacity <= SafetyLimit
<1>1. CASE b = NoBuffer
  BY <1>1, NothingWritten, CodecAssumption DEF NoBuffer, Buffers
<1>2. CASE b # NoBuffer
  <2>1. b = [capacity |-> capacity, bytes |-> <<>>] /\ capacity <= SafetyLimit
    BY <1>2, CodecAssumption DEF Allocate
  <2>2. QED
    BY <2>1, NothingWritten DEF Buffers
<1>3. QED
  BY <1>1, <1>2

\* A buffer that has grown holds what it held before.
LEMMA Grown ==
    ASSUME NEW b \in Buffers, Len(b.bytes) <= b.capacity,
           NEW more \in Grow(b, Len(b.bytes)), more # NoBuffer
    PROVE  /\ more \in Buffers /\ more.bytes = b.bytes
           /\ more.capacity <= SafetyLimit /\ Len(more.bytes) <= more.capacity
<1>1. /\ b.capacity < SafetyLimit
      /\ more = [capacity |-> Least(SafetyLimit, 2 * b.capacity),
                 bytes |-> SubSeq(b.bytes, 1, Len(b.bytes))]
  BY CodecAssumption DEF Grow, Buffers
<1>2. b.bytes \in Seq(Nat) /\ b.capacity \in Nat /\ Len(b.bytes) \in Nat
  BY DEF Buffers
<1>3. SubSeq(b.bytes, 1, Len(b.bytes)) = b.bytes
  BY <1>2
<1>4. /\ Least(SafetyLimit, 2 * b.capacity) \in Nat
      /\ Least(SafetyLimit, 2 * b.capacity) <= SafetyLimit
      /\ b.capacity <= Least(SafetyLimit, 2 * b.capacity)
  BY <1>1, <1>2, CodecAssumption DEF Least
<1>5. QED
  BY <1>1, <1>2, <1>3, <1>4 DEF Buffers

\* A call moves on without touching its buffer.
LEMMA Moved ==
    ASSUME NEW r, NEW n, GoodCall(r, n), NEW x \in States,
           x = "success" => r.at = "success",
           x \in {"idle", "begun", "header"} => r.at \in {"begun", "header"},
           r.cancelled => x \in {"header", "inside", "timeout"}
    PROVE  GoodCall([r EXCEPT !.at = x], n)
<1> DEFINE q == [r EXCEPT !.at = x]
<1>1. r \in CallRecords
  BY DEF GoodCall
<1>2. /\ q.at = x /\ q.buffer = r.buffer /\ q.done = r.done
      /\ q.cancelled = r.cancelled /\ q \in CallRecords
  BY <1>1 DEF CallRecords
<1> HIDE DEF q
<1>3. QED
  BY <1>2 DEF GoodCall, q

\* Every call is good after the step.
CallsStayGood ==
    /\ call' \in [Conversions -> CallRecords]
    /\ \A c \in Conversions : GoodCall(call'[c], length[c])

\* One call is replaced by a good one.
LEMMA Replaced ==
    ASSUME CodecInv, NEW c \in Conversions, NEW r, GoodCall(r, length[c]),
           call' = [call EXCEPT ![c] = r]
    PROVE  CallsStayGood
<1>1. r \in CallRecords
  BY DEF GoodCall
<1>2. call' \in [Conversions -> CallRecords]
  BY <1>1 DEF CodecInv
<1>3. ASSUME NEW d \in Conversions
      PROVE  GoodCall(call'[d], length[d])
  <2>1. CASE d = c
    BY <2>1 DEF CodecInv
  <2>2. CASE d # c
    <3>1. call'[d] = call[d]
      BY <2>2 DEF CodecInv
    <3>2. QED
      BY <3>1 DEF CodecInv
  <2>3. QED
    BY <2>1, <2>2
<1>4. QED
  BY <1>2, <1>3 DEF CallsStayGood

\* SetError, or one step further in the same buffer.
LEMMA EndsIsGood ==
    ASSUME CodecInv, NEW c \in Conversions, NEW x \in States,
           x = "success" => call[c].at = "success",
           x \in {"idle", "begun", "header"} => call[c].at \in {"begun", "header"},
           call[c].cancelled => x \in {"header", "inside", "timeout"},
           Ends(c, x)
    PROVE  CallsStayGood
<1> DEFINE r == [call[c] EXCEPT !.at = x]
<1>1. GoodCall(call[c], length[c])
  BY DEF CodecInv
<1>2. GoodCall(r, length[c])
  BY <1>1, Moved
<1>3. call' = [call EXCEPT ![c] = r]
  BY DEF Ends, CodecInv
<1> HIDE DEF r
<1>4. QED
  BY <1>2, <1>3, Replaced

\* A call begins: CheckCommonArguments and the deadline.
LEMMA CallIsGood ==
    ASSUME CodecInv, NEW c \in Conversions, NEW size \in Nat, NEW ms \in Int,
           now \in Int, Call(c, size, ms)
    PROVE  CallsStayGood
<1> DEFINE x == IF size = 0 THEN "invalid" ELSE "begun"
           e == SaturatingDeadline(now, ms)
           q == [Idle EXCEPT !.at = x]
           r == [q EXCEPT !.end = e]
<1>1. e \in Int /\ x \in States /\ x \notin {"success"}
  BY CodecAssumption DEF SaturatingDeadline, States, Errors
<1>2. Idle \in CallRecords /\ GoodCall(Idle, length[c])
  BY IdleIsGood DEF GoodCall
<1> HIDE DEF x, e
<1>3. /\ r \in CallRecords /\ r.at = x /\ r.buffer = Idle.buffer
      /\ r.done = Idle.done /\ r.cancelled = Idle.cancelled
  <2>1. /\ q \in CallRecords /\ q.at = x /\ q.buffer = Idle.buffer
        /\ q.done = Idle.done /\ q.cancelled = Idle.cancelled
    BY <1>1, <1>2 DEF CallRecords
  <2> HIDE DEF q
  <2>2. QED
    BY <1>1, <2>1 DEF CallRecords
<1>4. Idle.done = 0 /\ ~Idle.cancelled
  BY DEF Idle
<1>5. call' = [call EXCEPT ![c] = r]
  BY DEF Call, x, e
<1> HIDE DEF q, r
<1>6. GoodCall(r, length[c])
  BY <1>1, <1>2, <1>3, <1>4 DEF GoodCall
<1>7. QED
  BY <1>5, <1>6, Replaced

\* What is known of a call before its step.
LEMMA CallBefore ==
    ASSUME CodecInv, NEW c \in Conversions
    PROVE  /\ GoodCall(call[c], length[c])
           /\ call[c] \in CallRecords /\ length[c] \in Nat
           /\ call[c].buffer \in Buffers /\ call[c].done \in Nat
           /\ call[c].buffer.capacity \in Nat /\ call[c].buffer.bytes \in Seq(Nat)
           /\ Len(call[c].buffer.bytes) = call[c].done
           /\ Len(call[c].buffer.bytes) <= call[c].buffer.capacity
           /\ call[c].buffer.bytes = [i \in 1 .. call[c].done |-> i]
<1>1. GoodCall(call[c], length[c]) /\ call[c] \in CallRecords
  BY DEF CodecInv
<1>2. length[c] \in Nat
  BY CodecAssumption DEF CodecInv
<1>3. /\ call[c].buffer \in Buffers /\ call[c].done \in Nat
      /\ call[c].buffer.capacity \in Nat /\ call[c].buffer.bytes \in Seq(Nat)
  BY <1>1 DEF CallRecords, Buffers
<1>4. QED
  BY <1>1, <1>2, <1>3, Counting DEF GoodCall

\* OutputBuffer::Allocate at the end of a call's beginning.
LEMMA FirstBufferIsGood ==
    ASSUME CodecInv, NEW c \in Conversions, NEW size \in Nat,
           call[c].at \in {"begun", "header"}, ~call[c].cancelled,
           FirstBuffer(c, size)
    PROVE  CallsStayGood
<1>1. InitialCapacity(c, size) \in Nat
  BY CodecAssumption DEF InitialCapacity, Largest
<1>2. PICK b \in Allocate(InitialCapacity(c, size)) :
         IF b = NoBuffer THEN Ends(c, "codec")
         ELSE call' = [call EXCEPT ![c].at = "loop", ![c].buffer = b]
  BY DEF FirstBuffer
<1>3. /\ GoodCall(call[c], length[c]) /\ call[c] \in CallRecords /\ call[c].done = 0
  BY CallBefore DEF GoodCall
<1>4. CASE b = NoBuffer
  <2>1. Ends(c, "codec") /\ "codec" \in States
    BY <1>2, <1>4 DEF States, Errors
  <2>2. QED
    BY <2>1, EndsIsGood
<1>5. CASE b # NoBuffer
  <2> DEFINE q == [call[c] EXCEPT !.at = "loop"]
             r == [q EXCEPT !.buffer = b]
  <2>1. b \in Buffers /\ b.bytes = <<>> /\ b.capacity <= SafetyLimit /\ b.capacity \in Nat
    BY <1>1, Allocated DEF Buffers
  <2>2. /\ q \in CallRecords /\ q.at = "loop" /\ q.done = 0 /\ ~q.cancelled
    BY <1>3 DEF CallRecords, States
  <2>3. call' = [call EXCEPT ![c] = r]
    BY <1>2, <1>5 DEF CodecInv
  <2> HIDE DEF q
  <2>4. /\ r \in CallRecords /\ r.at = "loop" /\ r.done = 0 /\ ~r.cancelled
        /\ r.buffer = b
    BY <2>1, <2>2 DEF CallRecords
  <2> HIDE DEF r
  <2>5. r.buffer.bytes = [i \in 1 .. r.done |-> i] /\ Len(r.buffer.bytes) = 0
    BY <2>1, <2>4, NothingWritten
  <2>6. GoodCall(r, length[c])
    BY <2>1, <2>4, <2>5 DEF GoodCall
  <2>7. QED
    BY <2>3, <2>6, Replaced
<1>6. QED
  BY <1>4, <1>5

LEMMA CreateIsGood ==
    ASSUME CodecInv, NEW c \in Conversions, NEW size \in Nat, Create(c, size)
    PROVE  CallsStayGood
<1>1. call[c].at = "begun"
  BY DEF Create
<1>2. ~call[c].cancelled
  BY <1>1, CallBefore DEF GoodCall
<1>3. \/ \E x \in {"timeout", "codec", "unsupported", "header"} : Ends(c, x)
      \/ FirstBuffer(c, size)
  BY DEF Create
<1>4. ASSUME NEW x \in {"timeout", "codec", "unsupported", "header"}, Ends(c, x)
      PROVE  CallsStayGood
  <2>1. x \in States /\ x # "success"
    BY DEF States, Errors
  <2>2. QED
    BY <1>1, <1>2, <1>4, <2>1, EndsIsGood
<1>5. QED
  BY <1>1, <1>2, <1>3, <1>4, FirstBufferIsGood

LEMMA HeaderIsGood ==
    ASSUME CodecInv, NEW c \in Conversions, NEW size \in Nat, Header(c, size)
    PROVE  CallsStayGood
<1>1. call[c].at = "header"
  BY DEF Header
<1>2. CASE Late(c)
  <2>1. Ends(c, "timeout") /\ "timeout" \in States
    BY <1>2 DEF Header, States, Errors
  <2>2. QED
    BY <1>1, <2>1, EndsIsGood
<1>3. CASE ~Late(c)
  <2>1. ~call[c].cancelled
    BY <1>3 DEF Late
  <2>2. CASE Ends(c, "unsupported")
    <3>1. "unsupported" \in States
      BY DEF States, Errors
    <3>2. QED
      BY <1>1, <2>1, <2>2, <3>1, EndsIsGood
  <2>3. CASE FirstBuffer(c, size)
    BY <1>1, <2>1, <2>3, FirstBufferIsGood
  <2>4. QED
    BY <1>3, <2>2, <2>3 DEF Header
<1>4. QED
  BY <1>2, <1>3

LEMMA EnterIsGood ==
    ASSUME CodecInv, NEW c \in Conversions, Enter(c)
    PROVE  CallsStayGood
<1>1. call[c].at = "loop" /\ ~call[c].cancelled
  BY CallBefore DEF Enter, GoodCall
<1>2. PICK x \in {"timeout", "inside"} : Ends(c, x)
  BY DEF Enter
<1>3. x \in States
  BY DEF States, Errors
<1>4. QED
  BY <1>1, <1>2, <1>3, EndsIsGood

LEMMA CancelIsGood ==
    ASSUME CodecInv, NEW c \in Conversions, Cancel(c)
    PROVE  CallsStayGood
<1> DEFINE r == [call[c] EXCEPT !.cancelled = TRUE]
<1>1. call' = [call EXCEPT ![c] = r] /\ call[c].at \in {"header", "inside"}
  BY DEF Cancel, CodecInv
<1>2. GoodCall(call[c], length[c]) /\ call[c] \in CallRecords
  BY CallBefore
<1>3. /\ r \in CallRecords /\ r.at = call[c].at /\ r.done = call[c].done
      /\ r.buffer = call[c].buffer
  BY <1>2 DEF CallRecords
<1> HIDE DEF r
<1>4. GoodCall(r, length[c])
  BY <1>1, <1>2, <1>3 DEF GoodCall
<1>5. QED
  BY <1>1, <1>4, Replaced

\* The k bytes that follow the first n.
Piece(n, k) == [i \in 1 .. k |-> n + i]

\* A call whose buffer holds these bytes, n of them.
Written(r, bytes, n) == [r EXCEPT !.buffer.bytes = bytes, !.done = n]

\* What holds of c's record right after libjxl has written.
GoodWritten(r, c, bytes) ==
    /\ GoodCall(r, length[c]) /\ r \in CallRecords
    /\ r.buffer \in Buffers /\ r.buffer.bytes = bytes
    /\ r.at = "inside" /\ r.cancelled = call[c].cancelled

\* libjxl writes k bytes into the room that is left.
LEMMA WrittenIsGood ==
    ASSUME CodecInv, NEW c \in Conversions, NEW k \in Nat,
           call[c].at = "inside",
           call[c].done + k <= call[c].buffer.capacity,
           NEW bytes, bytes = call[c].buffer.bytes \o Piece(call[c].done, k)
    PROVE  GoodWritten(Written(call[c], bytes, call[c].done + k), c, bytes)
<1> DEFINE b == [call[c].buffer EXCEPT !.bytes = bytes]
           q == [call[c] EXCEPT !.buffer = b]
           d == call[c].done
           r == Written(call[c], bytes, call[c].done + k)
<1>1. d \in Nat /\ d + k \in Nat
  <2>1. call[c].done \in Nat
    BY CallBefore, Zenon
  <2>2. QED
    BY <2>1
<1>2. bytes = [i \in 1 .. d + k |-> i]
  BY <1>1, CallBefore, CountingOn DEF Piece
<1>3. bytes \in Seq(Nat) /\ Len(bytes) = d + k
  BY <1>1, <1>2, Counting
<1>4. /\ call[c].buffer \in Buffers /\ call[c] \in CallRecords
      /\ Len(call[c].buffer.bytes) = d /\ call[c].buffer.capacity \in Nat
      /\ call[c].buffer.capacity <= SafetyLimit
  BY CallBefore DEF GoodCall
<1>5. b \in Buffers /\ b.bytes = bytes /\ b.capacity = call[c].buffer.capacity
  BY <1>3, <1>4 DEF Buffers
<1>6. r = [q EXCEPT !.done = d + k]
  BY <1>4 DEF CallRecords, Written
<1> HIDE DEF b, d, r
<1>7. /\ q \in CallRecords /\ q.buffer = b /\ q.at = "inside"
      /\ q.cancelled = call[c].cancelled
  BY <1>4, <1>5 DEF CallRecords
<1> HIDE DEF q
<1>8. /\ r \in CallRecords /\ r.buffer = b /\ r.at = "inside" /\ r.done = d + k
      /\ r.cancelled = call[c].cancelled
  BY <1>1, <1>6, <1>7 DEF CallRecords
<1>9. Len(bytes) <= b.capacity
  <2>1. d + k <= call[c].buffer.capacity
    BY DEF d
  <2>2. QED
    BY <1>3, <1>5, <2>1
<1>10. r.cancelled => r.at \in {"header", "inside", "timeout"}
  BY <1>8
<1>11. GoodCall(r, length[c])
  BY <1>2, <1>4, <1>5, <1>8, <1>9, <1>10 DEF GoodCall
<1>12. QED
  BY <1>5, <1>8, <1>11 DEF GoodWritten, r, d

\* Where libjxl has written, a step further.
LEMMA WrittenGoesOn ==
    ASSUME CodecInv, NEW c \in Conversions, NEW r, GoodCall(r, length[c]),
           r.at = "inside", ~r.cancelled, r.done = length[c],
           call' = [call EXCEPT ![c] = [r EXCEPT !.at = "success"]]
    PROVE  CallsStayGood
<1> DEFINE q == [r EXCEPT !.at = "success"]
<1>1. r \in CallRecords
  BY DEF GoodCall
<1>2. /\ q \in CallRecords /\ q.at = "success" /\ q.buffer = r.buffer
      /\ q.done = r.done /\ ~q.cancelled
  BY <1>1 DEF CallRecords, States
<1> HIDE DEF q
<1>3. GoodCall(q, length[c])
  BY <1>2 DEF GoodCall
<1>4. call' = [call EXCEPT ![c] = q]
  BY DEF q
<1>5. QED
  BY <1>3, <1>4, Replaced

\* OutputBuffer::Grow, and back to the loop.
LEMMA GrownGoesOn ==
    ASSUME CodecInv, NEW c \in Conversions, NEW r, GoodCall(r, length[c]),
           r.at = "inside", ~r.cancelled, r.buffer \in Buffers,
           NEW more \in Grow(r.buffer, Len(r.buffer.bytes)), more # NoBuffer,
           call' = [call EXCEPT ![c] = [r EXCEPT !.at = "loop", !.buffer = more]]
    PROVE  CallsStayGood
<1> DEFINE q == [r EXCEPT !.at = "loop"]
           s == [q EXCEPT !.buffer = more]
<1>1. r \in CallRecords /\ Len(r.buffer.bytes) <= r.buffer.capacity
  BY DEF GoodCall
<1>2. /\ more \in Buffers /\ more.bytes = r.buffer.bytes
      /\ more.capacity <= SafetyLimit /\ Len(more.bytes) <= more.capacity
  BY <1>1, Grown
<1>3. /\ q \in CallRecords /\ q.at = "loop" /\ q.done = r.done /\ ~q.cancelled
  BY <1>1 DEF CallRecords, States
<1>4. call' = [call EXCEPT ![c] = s]
  OBVIOUS
<1> HIDE DEF q
<1>5. /\ s \in CallRecords /\ s.at = "loop" /\ s.done = r.done /\ ~s.cancelled
      /\ s.buffer = more
  BY <1>2, <1>3 DEF CallRecords
<1> HIDE DEF s
<1>6. GoodCall(s, length[c])
  BY <1>2, <1>5 DEF GoodCall
<1>7. QED
  BY <1>4, <1>6, Replaced

LEMMA ReturnIsGood ==
    ASSUME CodecInv, NEW c \in Conversions, Return(c)
    PROVE  CallsStayGood
<1>1. call[c].at = "inside"
  BY DEF Return
<1>2. CASE Late(c)
  <2>1. Ends(c, "timeout") /\ "timeout" \in States
    BY <1>2 DEF Return, States, Errors
  <2>2. QED
    BY <1>1, <2>1, EndsIsGood
<1>3. CASE ~Late(c)
  <2>1. ~call[c].cancelled /\ Returned(c)
    BY <1>3 DEF Return, Late
  <2> DEFINE b == call[c].buffer
  <2>2. ASSUME NEW x \in {"codec", "unsupported"}, Ends(c, x)
        PROVE  CallsStayGood
    <3>1. x \in States /\ x # "success"
      BY DEF States, Errors
    <3>2. QED
      BY <1>1, <2>1, <2>2, <3>1, EndsIsGood
  <2>3. PICK k \in 0 .. Least(b.capacity - Len(b.bytes), length[c] - call[c].done) :
          LET bytes == b.bytes \o [i \in 1 .. k |-> call[c].done + i]
              written == [call EXCEPT ![c].buffer.bytes = bytes, ![c].done = @ + k]
          IN  \/ \E more \in Grow(written[c].buffer, Len(bytes)) :
                    IF more = NoBuffer THEN Ends(c, "codec")
                    ELSE call' = [written EXCEPT ![c].at = "loop", ![c].buffer = more]
              \/ /\ written[c].done = length[c]
                 /\ call' = [written EXCEPT ![c].at = "success"]
              \/ Ends(c, "unsupported")
              \/ c \in Encoding /\ Ends(c, "codec")
    BY <2>1 DEF Returned
  <2>4. PICK bytes : bytes = b.bytes \o [i \in 1 .. k |-> call[c].done + i]
    OBVIOUS
  <2>5. PICK r :
          r = [call[c] EXCEPT !.buffer.bytes = bytes, !.done = call[c].done + k]
    OBVIOUS
  <2>6. PICK written : written = [call EXCEPT ![c].buffer.bytes = bytes, ![c].done = @ + k]
    OBVIOUS
  <2>7. written = [call EXCEPT ![c] = r] /\ written[c] = r
    <3>1. PICK q : q = [call[c] EXCEPT !.buffer.bytes = bytes]
      OBVIOUS
    <3>2. r = [q EXCEPT !.done = call[c].done + k]
      BY <2>5, <3>1
    <3>3. [call EXCEPT ![c].buffer.bytes = bytes] = [call EXCEPT ![c] = q]
      BY <3>1 DEF CodecInv
    <3>4. [call EXCEPT ![c] = q][c] = q
      BY DEF CodecInv
    <3>5. written = [[call EXCEPT ![c] = q] EXCEPT ![c].done = call[c].done + k]
      BY <2>6, <3>3
    <3>6. written = [[call EXCEPT ![c] = q] EXCEPT ![c] = r]
      BY <3>2, <3>4, <3>5
    <3>7. QED
      BY <3>6 DEF CodecInv
  <2>8. k \in Nat /\ k <= b.capacity - Len(b.bytes)
    <3>1. /\ b.capacity \in Nat /\ Len(b.bytes) \in Nat
          /\ length[c] \in Nat /\ call[c].done \in Nat
      <4>1. /\ b.capacity \in Nat /\ Len(b.bytes) = call[c].done
            /\ length[c] \in Nat /\ call[c].done \in Nat
        BY CallBefore, Zenon
      <4>2. QED
        BY <4>1
    <3>2. PICK x, y : x = b.capacity - Len(b.bytes) /\ y = length[c] - call[c].done
      OBVIOUS
    <3>3. x \in Int /\ y \in Int /\ k \in 0 .. Least(x, y)
      BY <3>1, <3>2
    <3>4. k \in Nat /\ k <= x
      BY <3>3 DEF Least
    <3>5. QED
      BY <3>2, <3>4
  <2>9. /\ GoodCall(r, length[c]) /\ r \in CallRecords
        /\ r.buffer \in Buffers /\ r.buffer.bytes = bytes
        /\ r.at = "inside" /\ r.cancelled = call[c].cancelled
    <3>1. call[c].done + k <= call[c].buffer.capacity
      <4>1. /\ b.capacity \in Nat /\ Len(b.bytes) = call[c].done
            /\ call[c].done \in Nat
        BY CallBefore, Zenon
      <4>2. QED
        BY <2>8, <4>1
    <3>2. bytes = call[c].buffer.bytes \o Piece(call[c].done, k)
      BY <2>4 DEF Piece
    <3>3. k \in Nat
      BY <2>8
    <3>4. r = Written(call[c], bytes, call[c].done + k)
      BY <2>5 DEF Written
    <3> HIDE DEF b
    <3>5. CodecInv /\ c \in Conversions
      OBVIOUS
    <3>6. GoodWritten(Written(call[c], bytes, call[c].done + k), c, bytes)
      BY <1>1, <3>1, <3>2, <3>3, <3>5, WrittenIsGood
    <3>7. QED
      BY <3>4, <3>6 DEF GoodWritten
  <2>10. \/ \E more \in Grow(r.buffer, Len(bytes)) :
               IF more = NoBuffer THEN Ends(c, "codec")
               ELSE call' = [written EXCEPT ![c].at = "loop", ![c].buffer = more]
         \/ /\ r.done = length[c]
            /\ call' = [written EXCEPT ![c].at = "success"]
         \/ Ends(c, "unsupported")
         \/ Ends(c, "codec")
    BY <2>3, <2>4, <2>6, <2>7
  <2>11. ASSUME NEW more \in Grow(r.buffer, Len(bytes)),
                IF more = NoBuffer THEN Ends(c, "codec")
                ELSE call' = [written EXCEPT ![c].at = "loop", ![c].buffer = more]
         PROVE  CallsStayGood
    <3>1. CASE more = NoBuffer
      BY <2>2, <2>11, <3>1
    <3>2. CASE more # NoBuffer
      <4>1. call' = [call EXCEPT ![c] = [r EXCEPT !.at = "loop", !.buffer = more]]
        BY <2>7, <2>11, <3>2 DEF CodecInv
      <4>2. more \in Grow(r.buffer, Len(r.buffer.bytes))
        BY <2>9
      <4>3. QED
        BY <2>1, <2>9, <3>2, <4>1, <4>2, GrownGoesOn
    <3>3. QED
      BY <3>1, <3>2
  <2>12. ASSUME r.done = length[c], call' = [written EXCEPT ![c].at = "success"]
         PROVE  CallsStayGood
    <3>1. call' = [call EXCEPT ![c] = [r EXCEPT !.at = "success"]]
      BY <2>7, <2>12 DEF CodecInv
    <3>2. QED
      BY <2>1, <2>9, <2>12, <3>1, WrittenGoesOn
  <2>13. QED
    BY <2>2, <2>10, <2>11, <2>12
<1>4. QED
  BY <1>2, <1>3

\* Every step of a call keeps the invariant, while the lengths of the outputs
\* are what they are.
THEOREM CallStepKeepsBuffer ==
    ASSUME CodecInv, NEW c \in Conversions, now \in Int, CallChange(c),
           UNCHANGED length
    PROVE  CodecInv'
<1> SUFFICES CallsStayGood
  BY DEF CallsStayGood, CodecInv
<1>1. CASE \E size \in Nat, ms \in Int : Call(c, size, ms)
  BY <1>1, CallIsGood
<1>2. CASE \E size \in Nat : Create(c, size) \/ Header(c, size)
  BY <1>2, CreateIsGood, HeaderIsGood
<1>3. CASE Enter(c) \/ Cancel(c) \/ Return(c)
  BY <1>3, EnterIsGood, CancelIsGood, ReturnIsGood
<1>4. CASE call' = [call EXCEPT ![c] = Idle]
  BY <1>4, IdleIsGood, Replaced
<1>5. QED
  BY <1>1, <1>2, <1>3, <1>4 DEF CallChange

\* A call of the codec touches nothing of another call.
LEMMA OnlyOwnCall ==
    ASSUME CodecInv, NEW c \in Conversions, CallChange(c),
           NEW d \in Conversions, d # c
    PROVE  call'[d] = call[d]
<1> USE DEF CodecInv
<1>1. CASE \E size \in Nat, ms \in Int : Call(c, size, ms)
  BY <1>1 DEF Call
<1>2. ASSUME NEW size, FirstBuffer(c, size) PROVE call'[d] = call[d]
  BY <1>2 DEF FirstBuffer, Ends
<1>3. CASE \E size \in Nat : Create(c, size)
  BY <1>2, <1>3 DEF Create, Ends
<1>4. CASE \E size \in Nat : Header(c, size)
  BY <1>2, <1>4 DEF Header, Ends
<1>5. CASE Enter(c) \/ Cancel(c)
  BY <1>5 DEF Enter, Cancel, Ends
<1>6. CASE Return(c)
  <2>1. ASSUME NEW x, Ends(c, x) PROVE call'[d] = call[d]
    BY <2>1 DEF Ends
  <2>2. CASE Returned(c)
    <3>1. PICK k, bytes, written :
             /\ written = [call EXCEPT ![c].buffer.bytes = bytes, ![c].done = @ + k]
             /\ \/ \E more : IF more = NoBuffer THEN Ends(c, "codec")
                    ELSE call' = [written EXCEPT ![c].at = "loop", ![c].buffer = more]
                \/ call' = [written EXCEPT ![c].at = "success"]
                \/ Ends(c, "unsupported")
                \/ Ends(c, "codec")
      BY <2>2 DEF Returned
    <3>2. written[d] = call[d] /\ DOMAIN written = Conversions
      BY <3>1
    <3>3. QED
      BY <2>1, <3>1, <3>2
  <2>3. QED
    BY <1>6, <2>1, <2>2 DEF Return
<1>7. CASE call' = [call EXCEPT ![c] = Idle]
  BY <1>7
<1>8. QED
  BY <1>1, <1>3, <1>4, <1>5, <1>6, <1>7 DEF CallChange

-----------------------------------------------------------------------------
(* When a call of the codec times out.                                      *)

\* A call is late, or was told so, only once its end has passed.
Timely(c) == call[c].at = "timeout" \/ call[c].cancelled => Expired(c)

\* The end of a call stays, and the call is still timely when it has moved.
StaysTimely(c) ==
    /\ call'[c].end = call[c].end
    /\ call'[c].at = "timeout" \/ call'[c].cancelled => now >= call[c].end

LEMMA TimelyStep ==
    ASSUME CodecInv, NEW c \in Conversions, Timely(c),
           \/ \E size : Create(c, size) \/ Header(c, size)
           \/ Enter(c) \/ Cancel(c) \/ Return(c)
    PROVE  StaysTimely(c)
<1>1. call \in [Conversions -> CallRecords] /\ call[c] \in CallRecords
  BY DEF CodecInv
<1>2. ASSUME NEW x \in States, Ends(c, x), x = "timeout" => Late(c)
      PROVE  StaysTimely(c)
  <2>1. /\ call'[c].at = x /\ call'[c].end = call[c].end
        /\ call'[c].cancelled = call[c].cancelled
    BY <1>1, <1>2 DEF Ends, CallRecords
  <2>2. QED
    BY <1>2, <2>1 DEF StaysTimely, Timely, Late, Expired
<1>3. ASSUME NEW size, FirstBuffer(c, size)
      PROVE  StaysTimely(c)
  <2>1. PICK b : IF b = NoBuffer THEN Ends(c, "codec")
                 ELSE call' = [call EXCEPT ![c].at = "loop", ![c].buffer = b]
    BY <1>3 DEF FirstBuffer
  <2>2. CASE call' = [call EXCEPT ![c].at = "loop", ![c].buffer = b]
    <3>1. /\ call'[c].at = "loop" /\ call'[c].end = call[c].end
          /\ call'[c].cancelled = call[c].cancelled
      BY <1>1, <2>2 DEF CallRecords
    <3>2. QED
      BY <3>1 DEF StaysTimely, Timely, Expired
  <2>3. CASE Ends(c, "codec")
    BY <1>2, <2>3 DEF States, Errors
  <2>4. QED
    BY <2>1, <2>2, <2>3
<1>4. {"timeout", "codec", "unsupported", "header", "inside"} \subseteq States
  BY DEF States, Errors
<1>5. CASE \E size : Create(c, size)
  <2>1. ASSUME Expired(c) PROVE Late(c)
    BY <2>1 DEF Late
  <2>2. QED
    BY <1>2, <1>3, <1>4, <1>5, <2>1 DEF Create
<1>6. CASE \E size : Header(c, size)
  BY <1>2, <1>3, <1>4, <1>6 DEF Header
<1>7. CASE Enter(c)
  <2>1. ASSUME Expired(c) PROVE Late(c)
    BY <2>1 DEF Late
  <2>2. QED
    BY <1>2, <1>4, <1>7, <2>1 DEF Enter
<1>8. CASE Cancel(c)
  <2>1. /\ call'[c].end = call[c].end /\ Expired(c)
    BY <1>1, <1>8 DEF Cancel, CallRecords
  <2>2. QED
    BY <2>1 DEF StaysTimely, Expired
<1>9. CASE Return(c)
  <2>1. CASE Late(c)
    BY <1>2, <1>4, <1>9, <2>1 DEF Return
  <2>2. CASE ~Late(c)
    <3>1. Returned(c)
      BY <1>9, <2>2 DEF Return
    <3>2. PICK k, bytes, written :
             /\ written = [call EXCEPT ![c].buffer.bytes = bytes, ![c].done = @ + k]
             /\ \/ \E more : IF more = NoBuffer THEN Ends(c, "codec")
                    ELSE call' = [written EXCEPT ![c].at = "loop", ![c].buffer = more]
                \/ call' = [written EXCEPT ![c].at = "success"]
                \/ Ends(c, "unsupported")
                \/ Ends(c, "codec")
      BY <3>1 DEF Returned
    <3>3. /\ c \in DOMAIN written /\ {"end", "cancelled"} \subseteq DOMAIN written[c]
          /\ written[c].end = call[c].end /\ written[c].cancelled = call[c].cancelled
          /\ "at" \in DOMAIN written[c]
      BY <1>1, <3>2 DEF CallRecords
    <3>4. ASSUME NEW x, x # "timeout",
                 \/ \E more : call' = [written EXCEPT ![c].at = x, ![c].buffer = more]
                 \/ call' = [written EXCEPT ![c].at = x]
          PROVE  StaysTimely(c)
      <4>1. /\ call'[c].at = x /\ call'[c].end = call[c].end
            /\ call'[c].cancelled = call[c].cancelled
        BY <3>3, <3>4
      <4>2. QED
        BY <3>4, <4>1 DEF StaysTimely, Timely, Expired
    <3>5. QED
      BY <1>2, <1>4, <3>2, <3>4
  <2>3. QED
    BY <2>1, <2>2
<1>10. QED
  BY <1>5, <1>6, <1>7, <1>8, <1>9

\* Rounding down to whole units.
LEMMA WholeUnits ==
    ASSUME NEW x \in Int
    PROVE  /\ x \div Unit \in Int
           /\ (x \div Unit) * Unit <= x
           /\ x < (x \div Unit) * Unit + Unit
<1>1. Unit \in Nat \ {0}
  BY CodecAssumption
<1>2. x \div Unit \in Int
  BY <1>1
<1>3. (x \div Unit) * Unit <= x
  BY <1>1
<1>4. x < (x \div Unit) * Unit + Unit
  BY <1>1
<1>5. QED
  BY <1>2, <1>3, <1>4

\* Multiplying by Unit keeps the order.
LEMMA UnitsInOrder ==
    ASSUME NEW x \in Int, NEW y \in Int, x <= y
    PROVE  x * Unit <= y * Unit
<1>1. Unit \in Nat
  BY CodecAssumption
<1>2. QED
  BY <1>1

\* SaturatingDeadline never ends before the time that was asked for, and is
\* beyond the clock only when that time is.
LEMMA DeadlineBounds ==
    ASSUME NEW start \in Int, NEW ms \in Nat \ {0}
    PROVE  /\ SaturatingDeadline(start, ms) \in Int
           /\ \/ SaturatingDeadline(start, ms) = ClockMax
                 /\ ClockMax < start + (ms + 1) * Unit
              \/ SaturatingDeadline(start, ms) = start + ms * Unit
                 /\ start + ms * Unit < ClockMax
<1>1. Unit \in Nat \ {0} /\ ClockMax \in Nat /\ ClockMax - start \in Int
  BY CodecAssumption
<1>2. PICK q \in Int : /\ q = (ClockMax - start) \div Unit
                      /\ q * Unit <= ClockMax - start
                      /\ ClockMax - start < q * Unit + Unit
  BY <1>1, WholeUnits
<1>3. ms * Unit \in Int /\ q * Unit \in Int /\ (ms + 1) * Unit = ms * Unit + Unit
  BY <1>1
<1>4. CASE ms >= q
  <2>1. SaturatingDeadline(start, ms) = ClockMax
    BY <1>2, <1>4 DEF SaturatingDeadline
  <2>2. q * Unit <= ms * Unit
    BY <1>4, UnitsInOrder
  <2>3. QED
    BY <1>1, <1>2, <1>3, <2>1, <2>2
<1>5. CASE ms < q
  <2>1. SaturatingDeadline(start, ms) = start + ms * Unit
    BY <1>2, <1>5 DEF SaturatingDeadline
  <2>2. (ms + 1) * Unit <= q * Unit
    BY <1>5, UnitsInOrder
  <2>3. QED
    BY <1>1, <1>2, <1>3, <2>1, <2>2
<1>6. QED
  BY <1>4, <1>5

-----------------------------------------------------------------------------
(* Conversions.                                                             *)

Phases == {"new", "queued", "scopes", "check", "read", "recheck", "call", "codec",
           "create", "fill", "move", "write", "moved", "answered"}

\* The output is complete in the buffer of the codec.
HasOutput == {"create", "fill", "move", "write", "moved"}

Failures == Errors \cup {"io", "bookmark"}

Locals == [started : Int, source : Nat, remaining : Int, temp : Nat, tries : Nat,
           accessed : Seq(Urls)]

\* A conversion has a result exactly when it is answered; and one that has an
\* output to write has it from a call of the codec that succeeded.
PhaseInv ==
    /\ kind \in [Conversions -> {"path", "image", "bytes"}]
    /\ phase \in [Conversions -> Phases]
    /\ result \in [Conversions -> {"none", "success", "lost"} \cup Failures]
    /\ \A c \in Conversions :
          /\ (result[c] = "none") <=> (phase[c] # "answered")
          /\ phase[c] \in HasOutput => call[c].at = "success" /\ kind[c] # "bytes"

LocalInv ==
    /\ now \in Nat
    /\ counter \in Nat
    /\ timeout \in [Conversions -> Nat]
    /\ files \in [Paths -> [by : Conversions \cup {"missing", "user"},
                            bytes : Seq(Int)]]
    /\ local \in [Conversions -> Locals]

ConversionInv == CodecInv /\ PhaseInv /\ LocalInv /\ TempsOwned

\* A step of one conversion, which leaves its request and the clock alone.
StepOf(c) ==
    /\ Submit(c) \/ Operation(c) \/ Poll(c)
    /\ UNCHANGED <<fixed, now, crashed>>

-----------------------------------------------------------------------------
(* The parts of the invariant.                                              *)

LEMMA FreshIsTyped == Fresh \in Locals
<1>1. <<>> \in Seq(Urls)
  OBVIOUS
<1>2. QED
  BY <1>1 DEF Fresh, Locals

LEMMA PhaseStep ==
    ASSUME ConversionInv, NEW c \in Conversions, StepOf(c)
    PROVE  PhaseInv'
<1> USE DEF PhaseInv, ConversionInv, Phases, HasOutput, Failures, Errors
<1>1. kind' = kind
  BY DEF StepOf, fixed
<1>2. CASE Submit(c)
  BY <1>1, <1>2 DEF Submit, Goes
<1>3. CASE Begin(c)
  BY <1>1, <1>3 DEF Begin, Goes, Fail, Answer, CodecInv
<1>4. CASE OpenScope(c)
  BY <1>1, <1>4 DEF OpenScope, Goes, Proceeds, Fail, Answer, CodecInv
<1>5. CASE Check(c)
  BY <1>1, <1>5 DEF Check, Goes, Proceeds, Fail, Answer, CodecInv
<1>6. CASE Read(c)
  BY <1>1, <1>6 DEF Read, Goes, Fail, Answer, CodecInv
<1>7. CASE Recheck(c)
  BY <1>1, <1>7 DEF Recheck, Goes, Fail, Answer, CodecInv
<1>8. CASE CallCodec(c)
  BY <1>1, <1>8 DEF CallCodec, Call, CodecInv
<1>9. CASE Convert(c)
  <2>1. CallChange(c) /\ phase[c] = "codec" /\ UNCHANGED <<phase, result>>
    BY <1>9 DEF Convert, CodecStep, CallChange, LocalInv, Locals
  <2>2. \A d \in Conversions : d # c => call'[d] = call[d]
    BY <2>1, OnlyOwnCall
  <2>3. QED
    BY <1>1, <2>1, <2>2
<1>10. CASE Poll(c)
  BY <1>1, <1>10 DEF Poll, Cancel, CodecInv
<1>11. CASE Converted(c)
  BY <1>1, <1>11 DEF Converted, Goes, Proceeds, Fail, Answer, CodecInv
<1>12. CASE CreateTemp(c)
  BY <1>1, <1>12 DEF CreateTemp, Goes, Fail, Answer, CodecInv
<1>13. CASE Fill(c)
  BY <1>1, <1>13 DEF Fill, FailDeletingTemp, Goes, Proceeds, Fail, Answer, CodecInv
<1>14. CASE Move(c)
  BY <1>1, <1>14 DEF Move, Replaces, FailDeletingTemp, Goes, Proceeds, Fail, Answer, CodecInv
<1>15. CASE WriteAtomic(c)
  BY <1>1, <1>15 DEF WriteAtomic, Replaces, Goes, Proceeds, Fail, Answer, CodecInv
<1>16. CASE Succeed(c)
  BY <1>1, <1>16 DEF Succeed, Answer, CodecInv
<1>17. QED
  BY <1>2, <1>3, <1>4, <1>5, <1>6, <1>7, <1>8, <1>9, <1>10, <1>11, <1>12, <1>13,
     <1>14, <1>15, <1>16 DEF StepOf, Operation

\* The assignments to an operation's variables.
LEMMA LocalFields ==
    ASSUME NEW r \in Locals
    PROVE  /\ r.started \in Int /\ r.source \in Nat /\ r.remaining \in Int
           /\ r.temp \in Nat /\ r.tries \in Nat /\ r.accessed \in Seq(Urls)
           /\ \A i \in Int : [r EXCEPT !.started = i] \in Locals
           /\ \A i \in Int : [r EXCEPT !.remaining = i] \in Locals
           /\ \A n \in Nat : [r EXCEPT !.source = n] \in Locals
           /\ \A n \in Nat : [r EXCEPT !.temp = n] \in Locals
           /\ \A n \in Nat : [r EXCEPT !.tries = n] \in Locals
           /\ \A a \in Seq(Urls) : [r EXCEPT !.accessed = a] \in Locals
  BY DEF Locals

\* One operation assigns to its variables.
LEMMA LocalAssigned ==
    ASSUME local \in [Conversions -> Locals], NEW c \in Conversions,
           NEW r \in Locals, local' = [local EXCEPT ![c] = r]
    PROVE  local' \in [Conversions -> Locals]
  OBVIOUS

\* RemainingTimeout is a number of milliseconds, not negative.
LEMMA RemainingIsTime ==
    ASSUME LocalInv, NEW c \in Conversions
    PROVE  Limit(c) \in Nat /\ Remaining(c) \in Nat
<1>1. /\ timeout[c] \in Nat /\ local[c].started \in Int /\ now \in Int
      /\ Unit \in Nat \ {0} /\ ClockMax \in Nat
  BY LocalFields, CodecAssumption DEF LocalInv
<1>2. timeout[c] \div Unit \in Int
  BY <1>1
<1>3. Limit(c) \in Nat
  BY <1>1, <1>2 DEF Limit, Largest
<1>4. Passed(c) \in Int
  BY <1>1 DEF Passed
<1>5. Deadline(c) \in Int
  <2>1. Limit(c) * Unit \in Int
    BY <1>1, <1>3
  <2>2. QED
    BY <1>1, <2>1 DEF Deadline, Least
<1>6. ASSUME now < Deadline(c)
      PROVE  (Deadline(c) - now + Unit - 1) \div Unit \in Nat
  <2>1. PICK d \in Nat : d = Deadline(c) - now + Unit - 1
    BY <1>1, <1>5, <1>6
  <2>2. d \div Unit \in Nat
    BY <1>1
  <2>3. QED
    BY <2>1, <2>2
<1>7. QED
  BY <1>1, <1>3, <1>4, <1>5, <1>6 DEF Remaining, Largest

LEMMA LocalStep ==
    ASSUME ConversionInv, NEW c \in Conversions, StepOf(c)
    PROVE  LocalInv'
<1> USE DEF LocalInv, ConversionInv
<1>1. UNCHANGED <<timeout, now>> /\ Fresh \in Locals
  BY FreshIsTyped DEF StepOf, fixed
<1>2. ASSUME NEW code, Answer(c, code), UNCHANGED <<counter, files>>
      PROVE  LocalInv'
  BY <1>1, <1>2 DEF Answer
<1>3. CASE Submit(c)
  <2>1. local' = [local EXCEPT ![c] = [local[c] EXCEPT !.started = now]]
    BY <1>3 DEF Submit
  <2>2. QED
    BY <1>1, <1>3, <2>1, LocalFields, LocalAssigned DEF Submit, disk
<1>4. CASE Begin(c)
  <2>1. ASSUME NEW size \in {0, 1},
               local' = [local EXCEPT
                           ![c].started = IF kind[c] = "image" THEN now ELSE @,
                           ![c].source = size],
               UNCHANGED disk
        PROVE  LocalInv'
    <3>1. PICK i \in Int : i = IF kind[c] = "image" THEN now ELSE local[c].started
      BY LocalFields
    <3>2. PICK r : r = [local[c] EXCEPT !.started = i]
      OBVIOUS
    <3>3. r \in Locals
      BY <3>2, LocalFields
    <3>4. local' = [local EXCEPT ![c] = [r EXCEPT !.source = size]]
      BY <2>1, <3>1, <3>2
    <3>5. [r EXCEPT !.source = size] \in Locals
      BY <3>3, LocalFields
    <3>6. QED
      BY <1>1, <2>1, <3>4, <3>5, LocalAssigned DEF disk
  <2>2. QED
    BY <1>2, <1>4, <2>1 DEF Begin, Fail, disk
<1>5. CASE OpenScope(c)
  <2>1. ASSUME NEW u \in Unopened(c),
               local' = [local EXCEPT ![c].accessed = Append(@, u)], UNCHANGED disk
        PROVE  LocalInv'
    <3>1. u \in Urls
      BY DEF Unopened, Urls
    <3>2. Append(local[c].accessed, u) \in Seq(Urls)
      BY <3>1, LocalFields
    <3>3. local' = [local EXCEPT ![c] =
                      [local[c] EXCEPT !.accessed = Append(local[c].accessed, u)]]
      BY <2>1
    <3>4. [local[c] EXCEPT !.accessed = Append(local[c].accessed, u)] \in Locals
      BY <3>2, LocalFields
    <3>5. QED
      BY <1>1, <2>1, <3>3, <3>4, LocalAssigned DEF disk
  <2>2. QED
    BY <1>1, <1>2, <1>5, <2>1 DEF OpenScope, Proceeds, Fail, disk
<1>6. CASE Check(c)
  BY <1>1, <1>2, <1>6 DEF Check, Proceeds, Fail, disk
<1>7. CASE Read(c)
  <2>1. Len(files[Input[c]].bytes) \in Nat
    <3>1. files[Input[c]].bytes \in Seq(Int)
      BY ConversionAssumption
    <3>2. QED
      BY <3>1
  <2>2. ASSUME local' = [local EXCEPT ![c].source = Len(files[Input[c]].bytes)],
               UNCHANGED disk
        PROVE  LocalInv'
    <3>1. [local[c] EXCEPT !.source = Len(files[Input[c]].bytes)] \in Locals
      BY <2>1, LocalFields
    <3>2. QED
      BY <1>1, <2>2, <3>1, LocalAssigned DEF disk
  <2>3. QED
    BY <1>2, <1>7, <2>2 DEF Read, Fail, disk
<1>8. CASE Recheck(c)
  <2>1. Remaining(c) \in Int
    BY RemainingIsTime
  <2>2. ASSUME local' = [local EXCEPT ![c].remaining = Remaining(c)], UNCHANGED disk
        PROVE  LocalInv'
    <3>1. [local[c] EXCEPT !.remaining = Remaining(c)] \in Locals
      BY <2>1, LocalFields
    <3>2. QED
      BY <1>1, <2>2, <3>1, LocalAssigned DEF disk
  <2>3. QED
    BY <1>2, <1>8, <2>2 DEF Recheck, Fail, disk
<1>9. CASE CallCodec(c) \/ Convert(c) \/ Poll(c)
  BY <1>1, <1>9 DEF CallCodec, Convert, Poll, disk
<1>10. CASE Converted(c)
  BY <1>1, <1>2, <1>10 DEF Converted, Proceeds, Fail, disk
<1>11. CASE CreateTemp(c)
  <2>1. counter' \in Nat /\ files' = files
    BY <1>11 DEF CreateTemp
  <2>2. [local[c] EXCEPT !.temp = counter] \in Locals
    BY LocalFields
  <2>3. [local[c] EXCEPT !.tries = local[c].tries + 1] \in Locals
    <3>1. local[c].tries + 1 \in Nat
      BY LocalFields
    <3>2. QED
      BY <3>1, LocalFields
  <2>4. CASE \/ local' = [local EXCEPT ![c].temp = counter]
            \/ local' = [local EXCEPT ![c].tries = @ + 1]
    BY <1>1, <2>1, <2>2, <2>3, <2>4, LocalAssigned
  <2>5. CASE Fail(c, "io")
    BY <1>1, <2>1, <2>5 DEF Fail, Answer
  <2>6. QED
    BY <1>11, <2>4, <2>5 DEF CreateTemp
<1>12. CASE Fill(c)
  BY <1>1, <1>2, <1>12 DEF Fill, FailDeletingTemp, Fail, Proceeds
<1>13. ASSUME Replaces(c), UNCHANGED counter
       PROVE  LocalInv'
  <2>1. call[c].buffer.bytes \in Seq(Int)
    <3>1. call[c].buffer.bytes \in Seq(Nat)
      BY CallBefore, Zenon
    <3>2. QED
      BY <3>1
  <2>2. [by |-> c, bytes |-> call[c].buffer.bytes]
           \in [by : Conversions \cup {"missing", "user"}, bytes : Seq(Int)]
    BY <2>1
  <2>3. files' \in [Paths -> [by : Conversions \cup {"missing", "user"},
                              bytes : Seq(Int)]]
    BY <1>13, <2>2 DEF Replaces
  <2>4. QED
    BY <1>1, <1>13, <2>3 DEF Replaces, Proceeds
<1>14. CASE Move(c) \/ WriteAtomic(c)
  BY <1>2, <1>13, <1>14 DEF Move, WriteAtomic, FailDeletingTemp, Fail
<1>15. CASE Succeed(c)
  BY <1>1, <1>2, <1>15 DEF Succeed, disk
<1>16. QED
  BY <1>3, <1>4, <1>5, <1>6, <1>7, <1>8, <1>9, <1>10, <1>11, <1>12, <1>13,
     <1>14, <1>15 DEF StepOf, Operation

LEMMA CodecPart ==
    ASSUME ConversionInv, NEW c \in Conversions, StepOf(c)
    PROVE  CodecInv'
<1> USE DEF ConversionInv
<1>1. UNCHANGED length /\ now \in Int
  BY DEF StepOf, fixed, LocalInv
<1>2. local[c].source \in Nat /\ local[c].remaining \in Int
  BY LocalFields DEF LocalInv
<1>3. CASE UNCHANGED call
  BY <1>1, <1>3 DEF CodecInv
<1>4. ASSUME NEW code, Answer(c, code)
      PROVE  CallChange(c)
  BY <1>4 DEF Answer, CallChange
<1>5. CASE Submit(c) \/ Begin(c) \/ OpenScope(c) \/ Check(c) \/ Read(c) \/ Recheck(c)
  <2>1. UNCHANGED call \/ CallChange(c)
    BY <1>4, <1>5 DEF Submit, Begin, OpenScope, Check, Read, Recheck, Goes, Proceeds, Fail
  <2>2. QED
    BY <1>1, <1>3, <2>1, CallStepKeepsBuffer
<1>6. CASE CallCodec(c)
  <2>1. CallChange(c)
    BY <1>2, <1>6 DEF CallCodec, CallChange
  <2>2. QED
    BY <1>1, <2>1, CallStepKeepsBuffer
<1>7. CASE Convert(c) \/ Poll(c)
  <2>1. CallChange(c)
    BY <1>2, <1>7 DEF Convert, Poll, CodecStep, CallChange
  <2>2. QED
    BY <1>1, <2>1, CallStepKeepsBuffer
<1>8. CASE Converted(c) \/ CreateTemp(c) \/ Fill(c) \/ Move(c) \/ WriteAtomic(c) \/ Succeed(c)
  <2>1. UNCHANGED call \/ CallChange(c)
    BY <1>4, <1>8 DEF Converted, CreateTemp, Fill, Move, WriteAtomic, Succeed,
       FailDeletingTemp, Replaces, Goes, Proceeds, Fail
  <2>2. QED
    BY <1>1, <1>3, <2>1, CallStepKeepsBuffer
<1>9. QED
  BY <1>5, <1>6, <1>7, <1>8 DEF StepOf, Operation

\* A conversion that owns no temporary file, before and after.
LEMMA TempsUntouched ==
    ASSUME PhaseInv, LocalInv, TempsOwned, NEW c \in Conversions,
           phase[c] \notin {"fill", "move"}, phase'[c] \notin {"fill", "move"},
           \A d \in Conversions : d # c => phase'[d] = phase[d] /\ local'[d] = local[d],
           UNCHANGED temps
    PROVE  TempsOwned'
  BY DEF TempsOwned

\* A conversion gives up its temporary file.
LEMMA TempsGivenUp ==
    ASSUME PhaseInv, LocalInv, TempsOwned, NEW c \in Conversions,
           phase[c] \in {"fill", "move"}, phase'[c] \notin {"fill", "move"},
           \A d \in Conversions : d # c => phase'[d] = phase[d] /\ local'[d] = local[d],
           temps' \in {WithoutTemp(c), LeftTemp(c)}
    PROVE  TempsOwned'
<1>1. local[c].temp \in DOMAIN temps /\ temps[local[c].temp] = c
  BY DEF TempsOwned
<1>2. /\ DOMAIN temps \ {local[c].temp} \subseteq DOMAIN temps'
      /\ DOMAIN temps' \subseteq DOMAIN temps
      /\ \A n \in DOMAIN temps' : n # local[c].temp => temps'[n] = temps[n]
      /\ local[c].temp \in DOMAIN temps' => temps'[local[c].temp] = "left"
  <2>1. CASE temps' = WithoutTemp(c)
    BY <2>1 DEF WithoutTemp, Restrict
  <2>2. CASE temps' = LeftTemp(c)
    BY <1>1, <2>2 DEF LeftTemp
  <2>3. QED
    BY <2>1, <2>2
<1>3. ASSUME NEW n \in DOMAIN temps', temps'[n] \in Conversions
      PROVE  local'[temps'[n]].temp = n /\ phase'[temps'[n]] \in {"fill", "move"}
  <2>1. n \in DOMAIN temps /\ n # local[c].temp /\ temps'[n] = temps[n]
    BY <1>2, <1>3, ConversionAssumption
  <2>2. local[temps[n]].temp = n /\ phase[temps[n]] \in {"fill", "move"}
    BY <1>3, <2>1 DEF TempsOwned
  <2>3. temps[n] # c
    BY <2>1, <2>2
  <2>4. QED
    BY <1>3, <2>1, <2>2, <2>3
<1>4. ASSUME NEW d \in Conversions, phase'[d] \in {"fill", "move"}
      PROVE  local'[d].temp \in DOMAIN temps' /\ temps'[local'[d].temp] = d
  <2>1. d # c /\ phase[d] \in {"fill", "move"} /\ local'[d] = local[d]
    BY <1>4
  <2>2. local[d].temp \in DOMAIN temps /\ temps[local[d].temp] = d
    BY <2>1 DEF TempsOwned
  <2>3. local[d].temp # local[c].temp
    BY <1>1, <2>1, <2>2
  <2>4. QED
    BY <1>2, <2>1, <2>2, <2>3
<1>5. QED
  BY <1>3, <1>4 DEF TempsOwned

LEMMA TempsPart ==
    ASSUME ConversionInv, NEW c \in Conversions, StepOf(c)
    PROVE  TempsOwned'
<1> USE DEF ConversionInv
<1>1. /\ phase \in [Conversions -> Phases] /\ local \in [Conversions -> Locals]
      /\ PhaseInv /\ LocalInv /\ TempsOwned
  BY DEF PhaseInv, LocalInv
<1>2. CASE Submit(c) \/ Begin(c) \/ OpenScope(c) \/ Check(c) \/ Read(c) \/ Recheck(c)
  <2>1. /\ phase[c] \notin {"fill", "move"} /\ phase'[c] \notin {"fill", "move"}
        /\ \A d \in Conversions : d # c => phase'[d] = phase[d] /\ local'[d] = local[d]
        /\ UNCHANGED temps
    BY <1>1, <1>2 DEF Submit, Begin, OpenScope, Check, Read, Recheck, Goes, Proceeds,
       Fail, Answer, disk
  <2>2. QED
    BY <1>1, <2>1, TempsUntouched
<1>3. CASE CallCodec(c) \/ Convert(c) \/ Poll(c) \/ Converted(c) \/ WriteAtomic(c) \/ Succeed(c)
  <2>1. /\ phase[c] \notin {"fill", "move"} /\ phase'[c] \notin {"fill", "move"}
        /\ \A d \in Conversions : d # c => phase'[d] = phase[d] /\ local'[d] = local[d]
        /\ UNCHANGED temps
    BY <1>1, <1>3 DEF CallCodec, Convert, Poll, Converted, WriteAtomic, Succeed, Goes,
       Proceeds, Fail, Answer, Replaces, disk
  <2>2. QED
    BY <1>1, <2>1, TempsUntouched
<1>4. CASE CreateTemp(c)
  <2>1. /\ phase[c] = "create"
        /\ \A d \in Conversions : d # c => phase'[d] = phase[d] /\ local'[d] = local[d]
    BY <1>1, <1>4 DEF CreateTemp, Goes, Fail, Answer
  <2>2. CASE UNCHANGED temps
    <3>1. phase'[c] \notin {"fill", "move"}
      <4>1. CASE counter \notin DOMAIN temps /\ temps' = [n \in DOMAIN temps \cup {counter} |->
                         IF n = counter THEN c ELSE temps[n]]
        BY <2>2, <4>1
      <4>2. QED
        BY <1>1, <1>4, <4>1 DEF CreateTemp, Goes, Fail, Answer
    <3>2. QED
      BY <1>1, <2>1, <2>2, <3>1, TempsUntouched
  <2>3. CASE /\ counter \notin DOMAIN temps /\ Goes(c, "fill")
             /\ temps' = [n \in DOMAIN temps \cup {counter} |->
                            IF n = counter THEN c ELSE temps[n]]
             /\ local' = [local EXCEPT ![c].temp = counter]
    <3>1. phase'[c] = "fill"
      BY <1>1, <2>3 DEF Goes
    <3>2. local'[c].temp = counter
      BY <1>1, <2>3 DEF Locals
    <3>3. QED
      BY <1>1, <2>1, <2>3, <3>1, <3>2 DEF TempsOwned
  <2>4. QED
    BY <1>4, <2>2, <2>3 DEF CreateTemp
<1>5. ASSUME phase[c] \in {"fill", "move"}, FailDeletingTemp(c)
      PROVE  TempsOwned'
  <2>1. /\ phase'[c] \notin {"fill", "move"}
        /\ temps' \in {WithoutTemp(c), LeftTemp(c)}
        /\ \A d \in Conversions : d # c => phase'[d] = phase[d] /\ local'[d] = local[d]
    BY <1>1, <1>5 DEF FailDeletingTemp, Fail, Answer
  <2>2. QED
    BY <1>1, <1>5, <2>1, TempsGivenUp
<1>6. CASE Fill(c)
  <2>1. CASE Proceeds(c, "move") /\ UNCHANGED temps
    <3>1. /\ phase[c] = "fill" /\ phase'[c] = "move" /\ UNCHANGED <<local, temps>>
          /\ \A d \in Conversions : d # c => phase'[d] = phase[d]
      BY <1>1, <1>6, <2>1 DEF Fill, Proceeds, Goes
    <3>2. QED
      BY <1>1, <3>1 DEF TempsOwned
  <2>2. QED
    BY <1>5, <1>6, <2>1 DEF Fill
<1>7. CASE Move(c)
  <2>1. CASE Replaces(c) /\ temps' = WithoutTemp(c)
    <3>1. /\ phase[c] = "move" /\ phase'[c] = "moved"
          /\ \A d \in Conversions : d # c => phase'[d] = phase[d] /\ local'[d] = local[d]
      BY <1>1, <1>7, <2>1 DEF Move, Replaces, Proceeds, Goes
    <3>2. QED
      BY <1>1, <2>1, <3>1, TempsGivenUp
  <2>2. QED
    BY <1>5, <1>7, <2>1 DEF Move
<1>8. QED
  BY <1>2, <1>3, <1>4, <1>5, <1>6, <1>7 DEF StepOf, Operation

-----------------------------------------------------------------------------
LEMMA ConversionInit == Init => ConversionInv
<1> SUFFICES ASSUME Init PROVE ConversionInv
  OBVIOUS
<1>1. CodecInv
  <2>1. call = [c \in Conversions |-> Idle] /\ length \in [Conversions -> Lengths]
    BY DEF Init, CodecInit
  <2>2. Idle \in CallRecords
    BY IdleIsGood DEF GoodCall
  <2>3. QED
    BY <2>1, <2>2, IdleIsGood DEF CodecInv
<1>2. PhaseInv
  BY ConversionAssumption DEF Init, PhaseInv, Phases, HasOutput
<1>3. LocalInv
  <2>1. now \in Nat /\ counter \in Nat /\ timeout \in [Conversions -> Nat]
    BY ConversionAssumption DEF Init, CodecInit
  <2>2. local \in [Conversions -> Locals]
    BY FreshIsTyped DEF Init
  <2>3. ASSUME NEW n \in UNION Range(Sizes)
        PROVE  Existing(n) \in [by : Conversions \cup {"missing", "user"},
                                bytes : Seq(Int)]
    <3>1. n \in Nat
      BY ConversionAssumption DEF Range
    <3>2. [i \in 1 .. n |-> 0] \in Seq(Int)
      BY <3>1
    <3>3. QED
      BY <3>2 DEF Existing
  <2>4. Missing \in [by : Conversions \cup {"missing", "user"}, bytes : Seq(Int)]
    <3>1. <<>> \in Seq(Int)
      OBVIOUS
    <3>2. QED
      BY <3>1 DEF Missing
  <2>5. files \in [Paths -> {Missing} \cup {Existing(n) : n \in UNION Range(Sizes)}]
    BY DEF Init
  <2>6. files \in [Paths -> [by : Conversions \cup {"missing", "user"},
                             bytes : Seq(Int)]]
    BY <2>3, <2>4, <2>5
  <2>7. QED
    BY <2>1, <2>2, <2>6 DEF LocalInv
<1>4. TempsOwned
  <2>1. \A n \in DOMAIN temps : temps[n] = "dead"
    BY DEF Init
  <2>2. QED
    BY <2>1, ConversionAssumption DEF Init, TempsOwned
<1>5. QED
  BY <1>1, <1>2, <1>3, <1>4 DEF ConversionInv

LEMMA CrashKeeps == ASSUME ConversionInv, Crash PROVE ConversionInv'
<1> USE DEF ConversionInv
<1>1. UNCHANGED <<kind, timeout, length, now, files>>
  BY DEF Crash, fixed
<1>2. CodecInv'
  <2>1. call' = [c \in Conversions |-> Idle]
    BY DEF Crash
  <2>2. Idle \in CallRecords
    BY IdleIsGood DEF GoodCall
  <2>3. QED
    BY <1>1, <2>1, <2>2, IdleIsGood DEF CodecInv
<1>3. /\ phase' = [c \in Conversions |-> IF phase[c] \notin {"new", "answered"}
                                         THEN "answered" ELSE phase[c]]
      /\ result' = [c \in Conversions |-> IF phase[c] \notin {"new", "answered"}
                                          THEN "lost" ELSE result[c]]
  BY DEF Crash
<1>4. PhaseInv'
  BY <1>1, <1>3 DEF PhaseInv, Phases, HasOutput
<1>5. LocalInv'
  BY <1>1, FreshIsTyped DEF Crash, LocalInv
<1>6. TempsOwned'
  <2>1. \A n \in DOMAIN temps' : temps'[n] = "dead"
    BY DEF Crash
  <2>2. QED
    BY <1>3, <2>1, ConversionAssumption DEF TempsOwned
<1>7. QED
  BY <1>2, <1>4, <1>5, <1>6

LEMMA TimeKeeps == ASSUME ConversionInv, TimePasses PROVE ConversionInv'
<1> USE DEF ConversionInv
<1>1. now' = now + 1
      /\ UNCHANGED <<kind, timeout, length, call, disk, phase, local, result>>
  BY DEF TimePasses, Tick
<1>2. QED
  BY <1>1 DEF CodecInv, PhaseInv, LocalInv, TempsOwned, disk

\* The invariant of Conversion: the calls of the codec, the phases, the types
\* and the temporary files.
THEOREM ConversionInvariant == Spec => []ConversionInv
<1>1. ConversionInv /\ [Next]_vars => ConversionInv'
  <2> SUFFICES ASSUME ConversionInv, [Next]_vars PROVE ConversionInv'
    OBVIOUS
  <2>1. CASE Crash \/ TimePasses
    BY <2>1, CrashKeeps, TimeKeeps
  <2>2. ASSUME NEW c \in Conversions, StepOf(c)
        PROVE  ConversionInv'
    BY <2>2, CodecPart, PhaseStep, LocalStep, TempsPart DEF ConversionInv
  <2>3. CASE UNCHANGED vars
    BY <2>3 DEF vars, fixed, disk, ConversionInv, CodecInv, PhaseInv, LocalInv, TempsOwned
  <2>4. QED
    BY <2>1, <2>2, <2>3 DEF Next, StepOf
<1>2. QED
  BY ConversionInit, <1>1, PTL DEF Spec

\* OutputBuffer: within its limit, never overrun, and complete on success.
THEOREM BufferAlwaysHoldsOutput == Spec => []BufferHoldsOutput
<1>1. ConversionInv => BufferHoldsOutput
  BY DEF ConversionInv, CodecInv, GoodCall, BufferHoldsOutput
<1>2. QED
  BY <1>1, ConversionInvariant, PTL

\* A call that the runner's threads cancelled ends as a timeout.
THEOREM CancelledAlwaysTimesOut == Spec => []CancelledIsTimeout
<1>1. ConversionInv => CancelledIsTimeout
  BY DEF ConversionInv, CodecInv, GoodCall, CancelledIsTimeout
<1>2. QED
  BY <1>1, ConversionInvariant, PTL

\* Temporary files belong to the conversion that writes them, or to the dead.
THEOREM TempsAlwaysOwned == Spec => []TempsOwned
<1>1. ConversionInv => TempsOwned
  BY DEF ConversionInv
<1>2. QED
  BY <1>1, ConversionInvariant, PTL

-----------------------------------------------------------------------------
(* An output path is replaced as a whole.                                   *)

\* What the caller sees of c is decided by its kind, its result and its phase.
LEMMA OutputsKept ==
    ASSUME UNCHANGED <<files, length>>
    PROVE  UNCHANGED Outputs
  BY DEF Outputs, Whole

LEMMA StateKept ==
    ASSUME ConversionInv, UNCHANGED <<kind, result>>,
           \A d \in Conversions : phase'[d] = "moved" <=> phase[d] = "moved"
    PROVE  UNCHANGED State
  BY DEF State

\* The state of one conversion changes.
LEMMA StateChanged ==
    ASSUME ConversionInv, NEW c \in Conversions, UNCHANGED kind,
           NEW code, result' = [result EXCEPT ![c] = code],
           NEW x, phase' = [phase EXCEPT ![c] = x],
           NEW y, y = IF kind[c] = "bytes" THEN "open"
                      ELSE IF code \in {"success", "lost"} THEN code
                      ELSE IF code # "none" THEN "failed"
                      ELSE IF x = "moved" THEN "written" ELSE "open"
    PROVE  State' = [State EXCEPT ![c] = y]
<1>1. /\ phase \in [Conversions -> Phases]
      /\ result \in [Conversions -> {"none", "success", "lost"} \cup Failures]
  BY DEF ConversionInv, PhaseInv
<1>2. State'[c] = y /\ \A d \in Conversions : d # c => State'[d] = State[d]
  BY <1>1 DEF State
<1>3. State = [d \in Conversions |-> State[d]]
  BY DEF State
<1>4. State' = [d \in Conversions |-> State'[d]]
  BY DEF State
<1>5. QED
  BY <1>2, <1>3, <1>4

\* A conversion that has written nothing fails.
LEMMA FailureRefines ==
    ASSUME ConversionInv, NEW c \in Conversions, NEW code \in Failures,
           UNCHANGED <<kind, files, length>>,
           phase[c] \notin {"moved", "answered"}, Answer(c, code)
    PROVE  [Atomic!Next]_(Atomic!vars)
<1>1. UNCHANGED Outputs
  BY OutputsKept
<1>2. result[c] = "none" /\ code \notin {"success", "lost", "none"}
  BY DEF ConversionInv, PhaseInv, Failures, Errors
<1>3. CASE kind[c] = "bytes"
  <2>1. State' = [State EXCEPT ![c] = "open"]
    BY <1>3, StateChanged DEF Answer
  <2>2. State[c] = "open" /\ State = [d \in Conversions |-> State[d]]
    BY <1>3 DEF State
  <2>3. State' = State
    BY <2>1, <2>2
  <2>4. QED
    BY <1>1, <2>3 DEF Atomic!vars
<1>4. CASE kind[c] # "bytes"
  <2>1. State' = [State EXCEPT ![c] = "failed"]
    BY <1>2, <1>4, StateChanged DEF Answer
  <2>2. State[c] = "open"
    BY <1>2, <1>4 DEF State
  <2>3. Atomic!Report(c)
    BY <1>1, <2>1, <2>2 DEF Atomic!Report
  <2>4. QED
    BY <2>3 DEF Atomic!Next
<1>5. QED
  BY <1>3, <1>4

\* MoveFileExW or Data.write(.atomic): the complete output, in one step.
LEMMA ReplacementRefines ==
    ASSUME ConversionInv, NEW c \in Conversions, UNCHANGED <<kind, length>>,
           phase[c] \in {"move", "write"}, Replaces(c)
    PROVE  [Atomic!Next]_(Atomic!vars)
<1>1. /\ kind[c] # "bytes" /\ result[c] = "none" /\ call[c].at = "success"
      /\ files \in [Paths -> [by : Conversions \cup {"missing", "user"},
                              bytes : Seq(Int)]]
      /\ Output[c] \in Paths
  BY ConversionAssumption DEF ConversionInv, PhaseInv, LocalInv, HasOutput
<1>2. call[c].buffer.bytes = [i \in 1 .. length[c] |-> i]
  BY <1>1 DEF ConversionInv, CodecInv, GoodCall
<1>3. /\ files' = [files EXCEPT ![Output[c]] = Whole(c)]
      /\ phase' = [phase EXCEPT ![c] = "moved"] /\ result' = result
  BY <1>2 DEF Replaces, Proceeds, Goes, Whole
<1>4. Outputs' = [Outputs EXCEPT ![Output[c]] = c]
  <2>1. files'[Output[c]] = Whole(c) /\ Whole(c).by = c /\ UNCHANGED length
    BY <1>1, <1>3 DEF Whole
  <2>2. Whole(c)' = Whole(c)
    BY DEF Whole
  <2>3. Outputs'[Output[c]] = c
    BY <1>1, <2>1, <2>2 DEF Outputs, Whole
  <2>4. ASSUME NEW p \in Paths, p # Output[c]
        PROVE  Outputs'[p] = Outputs[p]
    <3>1. files'[p] = files[p]
      BY <1>1, <1>3, <2>4
    <3>2. QED
      BY <3>1 DEF Outputs, Whole
  <2>5. Outputs' = [p \in Paths |-> Outputs'[p]] /\ Outputs = [p \in Paths |-> Outputs[p]]
    BY DEF Outputs
  <2>6. QED
    BY <1>1, <2>3, <2>4, <2>5
<1>5. result' = [result EXCEPT ![c] = "none"]
  BY <1>1, <1>3 DEF ConversionInv, PhaseInv
<1>6. State' = [State EXCEPT ![c] = "written"]
  <2>1. "written" = IF kind[c] = "bytes" THEN "open"
                    ELSE IF "none" \in {"success", "lost"} THEN "none"
                    ELSE IF "none" # "none" THEN "failed"
                    ELSE IF "moved" = "moved" THEN "written" ELSE "open"
    BY <1>1
  <2>2. /\ result' = [result EXCEPT ![c] = "none"]
        /\ phase' = [phase EXCEPT ![c] = "moved"]
    BY <1>3, <1>5
  <2>3. QED
    BY <2>1, <2>2, StateChanged
<1>7. State[c] = "open"
  BY <1>1 DEF State
<1>8. Atomic!Write(c)
  BY <1>4, <1>6, <1>7 DEF Atomic!Write
<1>9. QED
  BY <1>8 DEF Atomic!Next

\* The operation returns successfully: the output was written, or c is of bytes.
LEMMA SuccessRefines ==
    ASSUME ConversionInv, NEW c \in Conversions, UNCHANGED <<kind, files, length>>,
           Answer(c, "success"),
           phase[c] # "answered", kind[c] = "bytes" \/ phase[c] = "moved"
    PROVE  [Atomic!Next]_(Atomic!vars)
<1>1. UNCHANGED Outputs
  BY OutputsKept
<1>2. CASE kind[c] = "bytes"
  <2>1. State' = [State EXCEPT ![c] = "open"]
    BY <1>2, StateChanged DEF Answer
  <2>2. State[c] = "open" /\ State = [d \in Conversions |-> State[d]]
    BY <1>2 DEF State
  <2>3. State' = State
    BY <2>1, <2>2
  <2>4. QED
    BY <1>1, <2>3 DEF Atomic!vars
<1>3. CASE kind[c] # "bytes"
  <2>1. State' = [State EXCEPT ![c] = "success"]
    BY <1>3, StateChanged DEF Answer
  <2>2. result[c] = "none" /\ phase[c] = "moved"
    BY <1>3 DEF ConversionInv, PhaseInv
  <2>3. State[c] = "written"
    BY <1>3, <2>2 DEF State
  <2>4. Atomic!Report(c)
    BY <1>1, <2>1, <2>3 DEF Atomic!Report
  <2>5. QED
    BY <2>4 DEF Atomic!Next
<1>4. QED
  BY <1>2, <1>3

LEMMA CrashRefines ==
    ASSUME ConversionInv, Crash
    PROVE  [Atomic!Next]_(Atomic!vars)
<1>1. UNCHANGED <<kind, files, length>>
  BY DEF Crash, fixed
<1>2. UNCHANGED Outputs
  BY <1>1, OutputsKept
<1>3. PICK died : died = {c \in Conversions : phase[c] \notin {"new", "answered"}
                                             /\ kind[c] # "bytes"}
  OBVIOUS
<1>4. /\ phase' = [c \in Conversions |-> IF phase[c] \notin {"new", "answered"}
                                         THEN "answered" ELSE phase[c]]
      /\ result' = [c \in Conversions |-> IF phase[c] \notin {"new", "answered"}
                                          THEN "lost" ELSE result[c]]
  BY DEF Crash
<1>5. ASSUME NEW c \in died
      PROVE  State[c] \in {"open", "written"}
  <2>1. result[c] = "none" /\ kind[c] # "bytes"
    BY <1>3 DEF ConversionInv, PhaseInv
  <2>2. QED
    BY <1>3, <2>1 DEF State
<1>6. ASSUME NEW c \in Conversions
      PROVE  State'[c] = IF c \in died THEN "lost" ELSE State[c]
  BY <1>1, <1>3, <1>4 DEF State
<1>7. State' = [c \in Conversions |-> State'[c]]
  BY DEF State
<1>8. died \in SUBSET {c \in Conversions : State[c] \in {"open", "written"}}
  BY <1>3, <1>5
<1>9. State' = [c \in Conversions |-> IF c \in died THEN "lost" ELSE State[c]]
  BY <1>6, <1>7
<1>10. Atomic!Crash
  BY <1>2, <1>8, <1>9 DEF Atomic!Crash
<1>11. QED
  BY <1>10 DEF Atomic!Next

\* Every step of a conversion is one of AtomicConversion or changes nothing that
\* the caller can see.
LEMMA StepRefines ==
    ASSUME ConversionInv, NEW c \in Conversions, StepOf(c)
    PROVE  [Atomic!Next]_(Atomic!vars)
<1>1. UNCHANGED <<kind, length>> /\ phase \in [Conversions -> Phases]
  BY DEF StepOf, fixed, ConversionInv, PhaseInv
<1>2. ASSUME UNCHANGED <<result, files>>,
             \A d \in Conversions : phase'[d] = "moved" <=> phase[d] = "moved"
      PROVE  [Atomic!Next]_(Atomic!vars)
  <2>1. UNCHANGED <<Outputs, State>>
    BY <1>1, <1>2, OutputsKept, StateKept
  <2>2. QED
    BY <2>1 DEF Atomic!vars
<1>3. ASSUME NEW x \in Phases \ {"moved"}, phase[c] # "moved", Goes(c, x), UNCHANGED files
      PROVE  [Atomic!Next]_(Atomic!vars)
  <2>1. \A d \in Conversions : phase'[d] = "moved" <=> phase[d] = "moved"
    BY <1>1, <1>3 DEF Goes
  <2>2. QED
    BY <1>2, <1>3, <2>1 DEF Goes
<1>4. ASSUME NEW code \in Failures, phase[c] \notin {"moved", "answered"},
             Fail(c, code), UNCHANGED files
      PROVE  [Atomic!Next]_(Atomic!vars)
  BY <1>1, <1>4, FailureRefines DEF Fail
<1> USE DEF Phases, Failures, Errors
<1>5. CASE Submit(c) \/ Begin(c)
  BY <1>3, <1>4, <1>5 DEF Submit, Begin, disk
<1>6. CASE OpenScope(c)
  <2>1. CASE UNCHANGED <<phase, result, call>>
    BY <1>2, <1>6, <2>1 DEF OpenScope, disk
  <2>2. QED
    BY <1>3, <1>4, <1>6, <2>1 DEF OpenScope, Proceeds, disk
<1>7. CASE Check(c) \/ Read(c) \/ Recheck(c)
  BY <1>3, <1>4, <1>7 DEF Check, Read, Recheck, Proceeds, disk
<1>8. CASE CallCodec(c) \/ Convert(c) \/ Poll(c)
  <2>1. /\ UNCHANGED <<result, files>>
        /\ \A d \in Conversions : phase'[d] = "moved" <=> phase[d] = "moved"
    BY <1>1, <1>8 DEF CallCodec, Convert, Poll, disk
  <2>2. QED
    BY <1>2, <2>1
<1>9. CASE Converted(c)
  <2>1. CASE kind[c] = "bytes" /\ Answer(c, "success")
    BY <1>1, <1>9, <2>1, SuccessRefines DEF Converted, disk
  <2>2. QED
    BY <1>3, <1>4, <1>9, <2>1 DEF Converted, Proceeds, disk
<1>10. CASE CreateTemp(c)
  BY <1>3, <1>4, <1>10 DEF CreateTemp
<1>11. CASE Fill(c)
  BY <1>3, <1>4, <1>11 DEF Fill, FailDeletingTemp, Proceeds
<1>12. CASE Move(c) \/ WriteAtomic(c)
  <2>1. CASE Replaces(c)
    BY <1>1, <1>12, <2>1, ReplacementRefines DEF Move, WriteAtomic
  <2>2. CASE Fail(c, "io") /\ UNCHANGED files
    BY <1>4, <1>12, <2>2 DEF Move, WriteAtomic
  <2>3. QED
    BY <1>12, <2>1, <2>2 DEF Move, WriteAtomic, FailDeletingTemp
<1>13. CASE Succeed(c)
  BY <1>1, <1>13, SuccessRefines DEF Succeed, disk
<1>14. QED
  BY <1>5, <1>6, <1>7, <1>8, <1>9, <1>10, <1>11, <1>12, <1>13 DEF StepOf, Operation

\* However many conversions interleave and fail, and wherever the process dies:
\* an output path holds what it held or a complete result, and a conversion is
\* reported successful exactly when its result was put there.
THEOREM ConversionIsAtomic == Spec => ImplementsAtomicConversion
<1>1. Init => Atomic!Init
  BY DEF Init, Atomic!Init, State
<1>2. ConversionInv /\ [Next]_vars => [Atomic!Next]_(Atomic!vars)
  <2> SUFFICES ASSUME ConversionInv, [Next]_vars PROVE [Atomic!Next]_(Atomic!vars)
    OBVIOUS
  <2>1. CASE Crash
    BY <2>1, CrashRefines
  <2>2. ASSUME UNCHANGED <<kind, length, files, phase, result>>
        PROVE  [Atomic!Next]_(Atomic!vars)
    <3>1. UNCHANGED <<Outputs, State>>
      BY <2>2, OutputsKept, StateKept
    <3>2. QED
      BY <3>1 DEF Atomic!vars
  <2>3. CASE TimePasses \/ UNCHANGED vars
    BY <2>2, <2>3 DEF TimePasses, Tick, vars, fixed, disk
  <2>4. ASSUME NEW c \in Conversions, StepOf(c)
        PROVE  [Atomic!Next]_(Atomic!vars)
    BY <2>4, StepRefines
  <2>5. QED
    BY <2>1, <2>3, <2>4 DEF Next, StepOf
<1>3. QED
  BY <1>1, <1>2, ConversionInvariant, PTL DEF Spec, ImplementsAtomicConversion, Atomic!Spec

-----------------------------------------------------------------------------
(* Security scopes.                                                         *)

Accesses(c, u) ==
    \E i \in DOMAIN local[c].accessed : local[c].accessed[i] = u

Holders(u) == {c \in Conversions : Accesses(c, u)}

\* A conversion holds nothing before it begins and after it was answered, no URL
\* twice, and all of its URLs once its operation runs.
HoldsScopes(c) ==
    /\ \A i, k \in DOMAIN local[c].accessed :
          local[c].accessed[i] = local[c].accessed[k] => i = k
    /\ phase[c] \in {"new", "queued", "answered"} => local[c].accessed = <<>>
    /\ ~Windows /\ kind[c] # "bytes"
       /\ phase[c] \notin {"new", "queued", "scopes", "answered"} =>
         \A i \in DOMAIN Scopes[c] : Accesses(c, Scopes[c][i])

\* The system counts the conversions that hold each URL.
ScopeInv ==
    /\ uses \in [Urls -> Int]
    /\ \A u \in Urls : uses[u] = Cardinality(Holders(u))
    /\ \A c \in Conversions : HoldsScopes(c)

LEMMA HoldersFinite ==
    ASSUME NEW u
    PROVE  IsFiniteSet(Holders(u)) /\ Cardinality(Holders(u)) \in Nat
<1>1. Holders(u) \in SUBSET Conversions
  BY DEF Holders
<1>2. QED
  BY <1>1, ConversionAssumption, FS_Subset, FS_CardinalityType

\* A step that neither starts nor stops an access.
LEMMA ScopesKept ==
    ASSUME ScopeInv, NEW c \in Conversions, UNCHANGED <<uses, platform, kind>>,
           \A d \in Conversions : local'[d].accessed = local[d].accessed,
           \A d \in Conversions : d # c => phase'[d] = phase[d],
           phase'[c] \in {"new", "queued", "answered"} => local[c].accessed = <<>>,
           ~Windows /\ kind[c] # "bytes"
           /\ phase'[c] \notin {"new", "queued", "scopes", "answered"} =>
             \A i \in DOMAIN Scopes[c] : Accesses(c, Scopes[c][i])
    PROVE  ScopeInv'
<1>1. ASSUME NEW d \in Conversions, NEW u
      PROVE  Accesses(d, u)' <=> Accesses(d, u)
  BY DEF Accesses
<1>2. ASSUME NEW u \in Urls
      PROVE  uses'[u] = Cardinality(Holders(u)')
  <2>1. Holders(u)' = Holders(u)
    BY <1>1 DEF Holders
  <2>2. QED
    BY <2>1 DEF ScopeInv
<1>3. ASSUME NEW d \in Conversions
      PROVE  HoldsScopes(d)'
  <2>1. HoldsScopes(d)
    BY DEF ScopeInv
  <2>2. Windows' <=> Windows
    BY DEF Windows
  <2>3. (~Windows /\ kind[d] # "bytes"
         /\ phase[d] \notin {"new", "queued", "scopes", "answered"} =>
           \A i \in DOMAIN Scopes[d] : Accesses(d, Scopes[d][i]))'
    BY <1>1, <2>1, <2>2 DEF HoldsScopes
  <2>4. QED
    BY <2>1, <2>3 DEF HoldsScopes
<1>4. QED
  BY <1>2, <1>3 DEF ScopeInv

\* startAccessingSecurityScopedResource for one more URL.
LEMMA ScopeOpened ==
    ASSUME ConversionInv, ScopeInv, NEW c \in Conversions, UNCHANGED <<platform, kind, phase>>,
           phase[c] = "scopes", NEW u \in Unopened(c),
           local' = [local EXCEPT ![c].accessed = Append(@, u)],
           uses' = [uses EXCEPT ![u] = @ + 1]
    PROVE  ScopeInv'
<1>1. u \in Urls /\ ~Accesses(c, u)
  BY DEF Unopened, Urls, Accesses
<1>2. local[c].accessed \in Seq(Urls) /\ local \in [Conversions -> Locals]
  BY LocalFields DEF ConversionInv, LocalInv
<1>3. /\ local'[c].accessed = Append(local[c].accessed, u)
      /\ \A d \in Conversions : d # c => local'[d] = local[d]
  BY <1>2 DEF Locals
<1>4. PICK s : s = local[c].accessed
  OBVIOUS
<1>5. PICK n \in Nat : n = Len(s) /\ DOMAIN s = 1 .. n
  BY <1>2, <1>4
<1>6. PICK t : /\ t = local'[c].accessed /\ DOMAIN t = 1 .. n + 1 /\ t[n + 1] = u
               /\ \A i \in 1 .. n : t[i] = s[i]
  <2>1. s \in Seq(Urls) /\ u \in Urls /\ local'[c].accessed = Append(s, u)
    BY <1>1, <1>2, <1>3, <1>4
  <2>2. /\ Append(s, u) \in Seq(Urls) /\ Len(Append(s, u)) = n + 1
        /\ \A i \in 1 .. n : Append(s, u)[i] = s[i]
        /\ Append(s, u)[n + 1] = u
    BY <1>5, <2>1, AppendProperties
  <2>3. DOMAIN Append(s, u) = 1 .. n + 1
    BY <2>2
  <2>4. QED
    BY <2>1, <2>2, <2>3
<1>7. ASSUME NEW v
      PROVE  Accesses(c, v)' <=> Accesses(c, v) \/ v = u
  <2>1. Accesses(c, v)' <=> \E i \in 1 .. n + 1 : t[i] = v
    BY <1>6 DEF Accesses
  <2>2. Accesses(c, v) <=> \E i \in 1 .. n : s[i] = v
    BY <1>4, <1>5 DEF Accesses
  <2>3. QED
    BY <1>6, <2>1, <2>2
<1>8. ASSUME NEW d \in Conversions, d # c, NEW v
      PROVE  Accesses(d, v)' <=> Accesses(d, v)
  BY <1>3, <1>8 DEF Accesses
<1>9. ASSUME NEW v \in Urls
      PROVE  uses'[v] = Cardinality(Holders(v)')
  <2>1. CASE v = u
    <3>1. Holders(v)' = Holders(v) \cup {c} /\ c \notin Holders(v)
      BY <1>1, <1>7, <1>8, <2>1 DEF Holders
    <3>2. Cardinality(Holders(v)') = Cardinality(Holders(v)) + 1
      BY <3>1, HoldersFinite, FS_AddElement
    <3>3. QED
      BY <2>1, <3>2 DEF ScopeInv
  <2>2. CASE v # u
    <3>1. Holders(v)' = Holders(v)
      BY <1>7, <1>8, <2>2 DEF Holders
    <3>2. QED
      BY <2>2, <3>1 DEF ScopeInv
  <2>3. QED
    BY <2>1, <2>2
<1>10. HoldsScopes(c)'
  <2>1. \A i, k \in 1 .. n + 1 : t[i] = t[k] => i = k
    <3>1. \A i, k \in 1 .. n : s[i] = s[k] => i = k
      BY <1>4, <1>5 DEF ScopeInv, HoldsScopes
    <3>2. \A i \in 1 .. n : s[i] # u
      BY <1>1, <1>4, <1>5 DEF Accesses
    <3>3. QED
      BY <1>6, <3>1, <3>2
  <2>2. phase'[c] = "scopes"
    OBVIOUS
  <2>3. QED
    BY <1>6, <2>1, <2>2 DEF HoldsScopes
<1>11. ASSUME NEW d \in Conversions, d # c
       PROVE  HoldsScopes(d)'
  <2>1. HoldsScopes(d)
    BY DEF ScopeInv
  <2>2. Windows' <=> Windows
    BY DEF Windows
  <2>3. (~Windows /\ kind[d] # "bytes"
         /\ phase[d] \notin {"new", "queued", "scopes", "answered"} =>
           \A i \in DOMAIN Scopes[d] : Accesses(d, Scopes[d][i]))'
    BY <1>8, <1>11, <2>1, <2>2 DEF HoldsScopes
  <2>4. local'[d].accessed = local[d].accessed /\ phase'[d] = phase[d]
    BY <1>3, <1>11
  <2>5. QED
    BY <2>1, <2>3, <2>4 DEF HoldsScopes
<1>12. uses' \in [Urls -> Int]
  BY <1>1 DEF ScopeInv
<1>13. QED
  BY <1>9, <1>10, <1>11, <1>12 DEF ScopeInv

\* stopAccessingSecurityScopedResource for all that an operation has started.
LEMMA ScopesGivenBack ==
    ASSUME ConversionInv, ScopeInv, NEW c \in Conversions, UNCHANGED <<platform, kind>>,
           NEW code, Answer(c, code)
    PROVE  ScopeInv'
<1>1. /\ local \in [Conversions -> Locals] /\ phase \in [Conversions -> Phases]
      /\ local[c].accessed \in Seq(Urls) /\ HoldsScopes(c)
  BY LocalFields DEF ConversionInv, LocalInv, PhaseInv, ScopeInv
<1>2. /\ local'[c].accessed = <<>> /\ phase'[c] = "answered"
      /\ \A d \in Conversions : d # c => local'[d] = local[d] /\ phase'[d] = phase[d]
  BY <1>1 DEF Answer, Fresh
<1>3. PICK s \in Seq(Urls) : s = local[c].accessed
  BY <1>1
<1>4. /\ uses' \in [Urls -> Int]
      /\ \A v \in Urls :
            uses'[v] = uses[v] - Cardinality({i \in DOMAIN s : s[i] = v})
  <2>1. uses' = [v \in Urls |-> uses[v] - Cardinality({i \in DOMAIN s : s[i] = v})]
    BY <1>3 DEF Answer
  <2>2. ASSUME NEW v \in Urls
        PROVE  Cardinality({i \in DOMAIN s : s[i] = v}) \in Nat
    <3>1. IsFiniteSet(1 .. Len(s)) /\ DOMAIN s = 1 .. Len(s)
      BY FS_Interval
    <3>2. {i \in DOMAIN s : s[i] = v} \in SUBSET (1 .. Len(s))
      BY <3>1
    <3>3. IsFiniteSet({i \in DOMAIN s : s[i] = v})
      BY <3>1, <3>2, FS_Subset
    <3>4. QED
      BY <3>3, FS_CardinalityType
  <2>3. \A v \in Urls : uses[v] - Cardinality({i \in DOMAIN s : s[i] = v}) \in Int
    BY <2>2 DEF ScopeInv
  <2>4. QED
    BY <2>1, <2>3
<1>5. ASSUME NEW v
      PROVE  ~Accesses(c, v)'
  BY <1>2 DEF Accesses
<1>6. ASSUME NEW d \in Conversions, d # c, NEW v
      PROVE  Accesses(d, v)' <=> Accesses(d, v)
  BY <1>2, <1>6 DEF Accesses
<1>7. ASSUME NEW v \in Urls
      PROVE  uses'[v] = Cardinality(Holders(v)')
  <2>1. Holders(v)' = Holders(v) \ {c}
    BY <1>5, <1>6 DEF Holders
  <2>2. Cardinality(Holders(v)') =
          IF c \in Holders(v) THEN Cardinality(Holders(v)) - 1 ELSE Cardinality(Holders(v))
    BY <2>1, HoldersFinite, FS_RemoveElement
  <2>3. CASE c \in Holders(v)
    <3>1. PICK k \in DOMAIN s : s[k] = v
      BY <1>3, <2>3 DEF Holders, Accesses
    <3>2. {i \in DOMAIN s : s[i] = v} = {k}
      BY <1>1, <1>3, <3>1 DEF HoldsScopes
    <3>3. Cardinality({i \in DOMAIN s : s[i] = v}) = 1
      BY <3>2, FS_Singleton
    <3>4. QED
      BY <1>4, <2>2, <2>3, <3>3 DEF ScopeInv
  <2>4. CASE c \notin Holders(v)
    <3>1. {i \in DOMAIN s : s[i] = v} = {}
      BY <1>3, <2>4 DEF Holders, Accesses
    <3>2. Cardinality({i \in DOMAIN s : s[i] = v}) = 0
      BY <3>1, FS_EmptySet
    <3>3. uses[v] = Cardinality(Holders(v)) /\ uses[v] \in Int
      BY DEF ScopeInv
    <3>4. QED
      BY <1>4, <2>2, <2>4, <3>2, <3>3
  <2>5. QED
    BY <2>3, <2>4
<1>8. ASSUME NEW d \in Conversions
      PROVE  HoldsScopes(d)'
  <2>1. CASE d = c
    BY <1>2, <2>1 DEF HoldsScopes
  <2>2. CASE d # c
    <3>1. HoldsScopes(d) /\ (Windows' <=> Windows)
      BY DEF ScopeInv, Windows
    <3>2. local'[d].accessed = local[d].accessed /\ phase'[d] = phase[d]
      BY <1>2, <2>2
    <3>3. (~Windows /\ kind[d] # "bytes"
           /\ phase[d] \notin {"new", "queued", "scopes", "answered"} =>
             \A i \in DOMAIN Scopes[d] : Accesses(d, Scopes[d][i]))'
      BY <1>6, <2>2, <3>1, <3>2 DEF HoldsScopes
    <3>4. QED
      BY <3>1, <3>2, <3>3 DEF HoldsScopes
  <2>3. QED
    BY <2>1, <2>2
<1>9. QED
  BY <1>4, <1>7, <1>8 DEF ScopeInv

LEMMA ScopesCrashed ==
    ASSUME ConversionInv, ScopeInv, Crash
    PROVE  ScopeInv'
<1>1. /\ local' = [c \in Conversions |-> Fresh] /\ uses' = [u \in Urls |-> 0]
      /\ \A c \in Conversions : phase'[c] \in {"new", "answered"}
  BY DEF Crash, ConversionInv, PhaseInv
<1>2. \A c \in Conversions : local'[c].accessed = <<>>
  BY <1>1 DEF Fresh
<1>3. \A u \in Urls : Holders(u)' = {}
  BY <1>2 DEF Holders, Accesses
<1>4. \A u \in Urls : uses'[u] = Cardinality(Holders(u)')
  BY <1>1, <1>3, FS_EmptySet
<1>5. \A c \in Conversions : HoldsScopes(c)'
  BY <1>1, <1>2 DEF HoldsScopes
<1>6. QED
  BY <1>1, <1>4, <1>5 DEF ScopeInv

LEMMA ScopesInit == Init => ScopeInv
<1> SUFFICES ASSUME Init PROVE ScopeInv
  OBVIOUS
<1>1. /\ local = [c \in Conversions |-> Fresh] /\ uses = [u \in Urls |-> 0]
      /\ \A c \in Conversions : phase[c] \in {"new", "answered"}
  BY DEF Init
<1>2. \A c \in Conversions : local[c].accessed = <<>>
  BY <1>1 DEF Fresh
<1>3. \A u \in Urls : Holders(u) = {}
  BY <1>2 DEF Holders, Accesses
<1>4. ASSUME NEW u \in Urls
      PROVE  uses[u] = Cardinality(Holders(u))
  <2>1. Holders(u) = {} /\ uses[u] = 0 /\ Cardinality({}) = 0
    BY <1>1, <1>3, FS_EmptySet
  <2>2. QED
    BY <2>1
<1>5. ASSUME NEW c \in Conversions
      PROVE  HoldsScopes(c)
  <2>1. local[c].accessed = <<>> /\ phase[c] = "new" /\ DOMAIN <<>> = {}
    BY <1>2 DEF Init
  <2>2. \A i, k \in DOMAIN local[c].accessed :
          local[c].accessed[i] = local[c].accessed[k] => i = k
    BY <2>1
  <2>3. QED
    BY <2>1, <2>2 DEF HoldsScopes
<1>6. uses \in [Urls -> Int]
  BY <1>1
<1>7. QED
  BY <1>4, <1>5, <1>6 DEF ScopeInv

LEMMA ScopesStep ==
    ASSUME ConversionInv, ScopeInv, NEW c \in Conversions, StepOf(c)
    PROVE  ScopeInv'
<1>1. /\ UNCHANGED <<platform, kind>>
      /\ local \in [Conversions -> Locals] /\ phase \in [Conversions -> Phases]
  BY DEF StepOf, fixed, ConversionInv, LocalInv, PhaseInv
<1>2. HoldsScopes(c)
  BY DEF ScopeInv
<1>3. ASSUME NEW code, Answer(c, code)
      PROVE  ScopeInv'
  BY <1>1, <1>3, ScopesGivenBack
\* Steps that only move c on.
<1>4. ASSUME NEW x \in Phases, UNCHANGED uses,
             \A d \in Conversions : local'[d].accessed = local[d].accessed,
             phase' = [phase EXCEPT ![c] = x],
             x \in {"new", "queued", "answered"} => phase[c] \in {"new", "queued", "answered"},
             x \notin {"new", "queued", "scopes", "answered"} =>
                \/ Windows \/ kind[c] = "bytes"
                \/ phase[c] \notin {"new", "queued", "scopes", "answered"}
                \/ \A i \in DOMAIN Scopes[c] : Accesses(c, Scopes[c][i])
      PROVE  ScopeInv'
  <2>1. phase'[c] = x /\ \A d \in Conversions : d # c => phase'[d] = phase[d]
    BY <1>1, <1>4
  <2>2. phase'[c] \in {"new", "queued", "answered"} => local[c].accessed = <<>>
    BY <1>2, <1>4, <2>1 DEF HoldsScopes
  <2>3. ~Windows /\ kind[c] # "bytes"
        /\ phase'[c] \notin {"new", "queued", "scopes", "answered"} =>
           \A i \in DOMAIN Scopes[c] : Accesses(c, Scopes[c][i])
    BY <1>2, <1>4, <2>1 DEF HoldsScopes
  <2>4. QED
    BY <1>1, <1>4, <2>1, <2>2, <2>3, ScopesKept
<1>5. ASSUME NEW x \in Phases, Goes(c, x),
             \A d \in Conversions : local'[d].accessed = local[d].accessed,
             x \in {"new", "queued", "answered"} => phase[c] \in {"new", "queued", "answered"},
             x \notin {"new", "queued", "scopes", "answered"} =>
                \/ Windows \/ kind[c] = "bytes"
                \/ phase[c] \notin {"new", "queued", "scopes", "answered"}
                \/ \A i \in DOMAIN Scopes[c] : Accesses(c, Scopes[c][i])
      PROVE  ScopeInv'
  <2>1. UNCHANGED uses /\ phase' = [phase EXCEPT ![c] = x]
    BY <1>5 DEF Goes
  <2>2. QED
    BY <1>4, <1>5, <2>1
<1> USE DEF Phases
<1>6. CASE Submit(c)
  <2>1. \A d \in Conversions : local'[d].accessed = local[d].accessed
    BY <1>1, <1>6 DEF Submit, Locals
  <2>2. QED
    BY <1>5, <1>6, <2>1 DEF Submit
<1>7. CASE Begin(c)
  <2>1. CASE Fail(c, "bookmark")
    BY <1>3, <2>1 DEF Fail
  <2>2. CASE ~Fail(c, "bookmark")
    <3>1. PICK x \in Phases : x = IF kind[c] = "bytes" THEN "recheck"
                                  ELSE IF Windows THEN "check" ELSE "scopes"
      OBVIOUS
    <3>2. Goes(c, x)
      BY <1>7, <2>2, <3>1 DEF Begin
    <3>3. \A d \in Conversions : local'[d].accessed = local[d].accessed
      <4>1. PICK size, i : local' = [local EXCEPT ![c].started = i, ![c].source = size]
        BY <1>7, <2>2 DEF Begin
      <4>2. QED
        BY <1>1, <4>1 DEF Locals
    <3>4. QED
      BY <1>5, <3>1, <3>2, <3>3
  <2>3. QED
    BY <2>1, <2>2
<1>8. CASE OpenScope(c)
  <2>1. CASE Fail(c, "bookmark")
    BY <1>3, <2>1 DEF Fail
  <2>2. ASSUME Unopened(c) = {}, NEW x \in {"read", "check"}, Proceeds(c, x)
        PROVE  ScopeInv'
    <3>1. \A i \in DOMAIN Scopes[c] : Accesses(c, Scopes[c][i])
      BY <2>2 DEF Unopened, Accesses
    <3>2. UNCHANGED local /\ Goes(c, x)
      BY <2>2 DEF Proceeds
    <3>3. QED
      BY <1>5, <3>1, <3>2
  <2>3. ASSUME NEW u \in Unopened(c),
               local' = [local EXCEPT ![c].accessed = Append(@, u)],
               uses' = [uses EXCEPT ![u] = @ + 1],
               UNCHANGED phase
        PROVE  ScopeInv'
    <3>1. phase[c] = "scopes"
      BY <1>8 DEF OpenScope
    <3>2. QED
      BY <1>1, <2>3, <3>1, ScopeOpened
  <2>4. QED
    BY <1>8, <2>1, <2>2, <2>3 DEF OpenScope
<1>9. CASE Check(c)
  <2>1. ASSUME Proceeds(c, "read") PROVE ScopeInv'
    BY <1>5, <1>9, <2>1 DEF Proceeds, Check
  <2>2. QED
    BY <1>3, <1>9, <2>1 DEF Check, Fail
<1>10. CASE Read(c)
  <2>1. ASSUME Goes(c, "recheck"),
               local' = [local EXCEPT ![c].source = Len(files[Input[c]].bytes)]
        PROVE  ScopeInv'
    <3>1. \A d \in Conversions : local'[d].accessed = local[d].accessed
      BY <1>1, <2>1 DEF Locals
    <3>2. QED
      BY <1>5, <1>10, <2>1, <3>1 DEF Read
  <2>2. QED
    BY <1>3, <1>10, <2>1 DEF Read, Fail
<1>11. CASE Recheck(c)
  <2>1. ASSUME Goes(c, "call"), local' = [local EXCEPT ![c].remaining = Remaining(c)]
        PROVE  ScopeInv'
    <3>1. \A d \in Conversions : local'[d].accessed = local[d].accessed
      BY <1>1, <2>1 DEF Locals
    <3>2. QED
      BY <1>5, <1>11, <2>1, <3>1 DEF Recheck
  <2>2. QED
    BY <1>3, <1>11, <2>1 DEF Recheck, Fail
<1>12. CASE CallCodec(c)
  BY <1>4, <1>12 DEF CallCodec
<1>13. CASE Convert(c) \/ Poll(c)
  <2>1. UNCHANGED <<phase, local, uses>> /\ phase' = [phase EXCEPT ![c] = phase[c]]
        /\ phase[c] \in Phases
    BY <1>1, <1>13 DEF Convert, Poll
  <2>2. phase[c] = "codec"
    BY <1>13 DEF Convert, Poll
  <2>3. QED
    BY <1>4, <2>1, <2>2
<1>14. CASE Converted(c)
  BY <1>3, <1>5, <1>14 DEF Converted, Proceeds, Fail
<1>15. CASE CreateTemp(c)
  <2>1. CASE Fail(c, "io")
    BY <1>3, <2>1 DEF Fail
  <2>2. CASE ~Fail(c, "io")
    <3>1. \A d \in Conversions : local'[d].accessed = local[d].accessed
      <4>1. \/ local' = [local EXCEPT ![c].temp = counter]
            \/ local' = [local EXCEPT ![c].tries = local[c].tries + 1]
        BY <1>15, <2>2 DEF CreateTemp
      <4>2. CASE local' = [local EXCEPT ![c].temp = counter]
        BY <1>1, <4>2 DEF Locals
      <4>3. CASE local' = [local EXCEPT ![c].tries = local[c].tries + 1]
        BY <1>1, <4>3 DEF Locals
      <4>4. QED
        BY <4>1, <4>2, <4>3
    <3>2. QED
      BY <1>5, <1>15, <2>2, <3>1 DEF CreateTemp
  <2>3. QED
    BY <2>1, <2>2
<1>16. CASE Fill(c) \/ Move(c) \/ WriteAtomic(c) \/ Succeed(c)
  BY <1>3, <1>5, <1>16 DEF Fill, Move, WriteAtomic, Succeed, FailDeletingTemp,
     Replaces, Proceeds, Fail
<1>17. QED
  BY <1>6, <1>7, <1>8, <1>9, <1>10, <1>11, <1>12, <1>13, <1>14, <1>15, <1>16
     DEF StepOf, Operation

\* withJxlSecurityScopedAccess: a conversion has access while it uses its files,
\* and every access is given back, however the operation ends.
THEOREM ScopesAlwaysBalanced == Spec => []ScopesBalanced
<1>1. ConversionInv /\ ScopeInv /\ [Next]_vars => ScopeInv'
  <2> SUFFICES ASSUME ConversionInv, ScopeInv, [Next]_vars PROVE ScopeInv'
    OBVIOUS
  <2>1. CASE Crash
    BY <2>1, ScopesCrashed
  <2>2. CASE TimePasses \/ UNCHANGED vars
    <3>1. UNCHANGED <<platform, kind, phase, local, uses>>
      BY <2>2 DEF TimePasses, vars, fixed
    <3>2. QED
      <4>1. \A d \in Conversions, v \in Urls : Accesses(d, v)' <=> Accesses(d, v)
        BY <3>1 DEF Accesses
      <4>2. \A v \in Urls : Holders(v)' = Holders(v)
        BY <3>1 DEF Holders, Accesses
      <4>3. ASSUME NEW d \in Conversions
            PROVE  HoldsScopes(d)'
        <5>1. HoldsScopes(d) /\ (Windows' <=> Windows)
          BY <3>1 DEF ScopeInv, Windows
        <5>2. \A i \in DOMAIN Scopes[d] : Accesses(d, Scopes[d][i])' <=> Accesses(d, Scopes[d][i])
          BY <4>1 DEF Urls
        <5>3. QED
          BY <3>1, <5>1, <5>2 DEF HoldsScopes
      <4>4. QED
        BY <3>1, <4>2, <4>3 DEF ScopeInv
  <2>3. ASSUME NEW c \in Conversions, StepOf(c)
        PROVE  ScopeInv'
    BY <2>3, ScopesStep
  <2>4. QED
    BY <2>1, <2>2, <2>3 DEF Next, StepOf
<1>2. ConversionInv /\ ScopeInv => ScopesBalanced
  <2> SUFFICES ASSUME ConversionInv, ScopeInv PROVE ScopesBalanced
    OBVIOUS
  <2>1. ASSUME NEW c \in Conversions, ~Windows /\ kind[c] # "bytes",
               phase[c] \notin {"new", "queued", "scopes", "answered"},
               NEW i \in DOMAIN Scopes[c]
        PROVE  uses[Scopes[c][i]] > 0
    <3>1. PICK u \in Urls : u = Scopes[c][i]
      BY DEF Urls
    <3>2. c \in Holders(u)
      BY <2>1, <3>1 DEF Holders, ScopeInv, HoldsScopes
    <3>3. Cardinality(Holders(u)) # 0 /\ Cardinality(Holders(u)) \in Nat
      BY <3>2, HoldersFinite, FS_EmptySet
    <3>4. uses[u] = Cardinality(Holders(u))
      BY DEF ScopeInv
    <3>5. QED
      BY <3>1, <3>3, <3>4
  <2>2. ASSUME \A c \in Conversions : phase[c] \in {"new", "answered"}, NEW u \in Urls
        PROVE  uses[u] = 0
    <3>1. \A c \in Conversions : local[c].accessed = <<>>
      BY <2>2 DEF ScopeInv, HoldsScopes
    <3>2. Holders(u) = {}
      BY <3>1 DEF Holders, Accesses
    <3>3. QED
      BY <3>2, FS_EmptySet DEF ScopeInv
  <2>3. QED
    BY <2>1, <2>2 DEF ScopesBalanced
<1>3. QED
  BY <1>1, <1>2, ScopesInit, ConversionInvariant, PTL DEF Spec

-----------------------------------------------------------------------------
(* Deadlines: the time that remains is rounded up when it is handed to the  *)
(* codec, whose clock may start later.                                      *)

\* What is needed of c's deadline: handed to the codec, it has not become
\* earlier, and without a timeout there is none.
HoldsTime(c) ==
    /\ local[c].started <= now
    /\ phase[c] = "call" =>
          IF Limit(c) = 0 THEN local[c].remaining = 0
          ELSE local[c].remaining \in 1 .. Limit(c)
               /\ now + local[c].remaining * Unit >= Deadline(c)
    /\ phase[c] = "codec" =>
          Timely(c) /\ call[c].end >= IF Limit(c) = 0 THEN ClockMax ELSE Deadline(c)

TimeInv == now < ClockMax /\ \A c \in Conversions : HoldsTime(c)

-----------------------------------------------------------------------------
(* The arithmetic of the tests.                                             *)

LEMMA TimeTypes ==
    ASSUME ConversionInv, NEW c \in Conversions
    PROVE  /\ now \in Nat /\ Unit \in Nat \ {0} /\ ClockMax \in Nat
           /\ timeout[c] \in Nat /\ local[c].started \in Int
           /\ local[c].remaining \in Int /\ local[c].source \in Nat
           /\ Limit(c) \in Nat /\ Remaining(c) \in Nat
           /\ Limit(c) * Unit \in Nat /\ Deadline(c) \in Int /\ call[c].end \in Int
<1>1. LocalInv /\ Unit \in Nat \ {0} /\ ClockMax \in Nat
  BY CodecAssumption DEF ConversionInv
<1>2. /\ timeout[c] \in Nat /\ local[c].started \in Int /\ now \in Nat
      /\ local[c].remaining \in Int /\ local[c].source \in Nat
  BY <1>1, LocalFields DEF LocalInv
<1>3. Limit(c) \in Nat /\ Remaining(c) \in Nat
  BY <1>1, RemainingIsTime
<1>4. Limit(c) * Unit \in Nat
  BY <1>1, <1>3
<1>5. Deadline(c) \in Int
  BY <1>1, <1>2, <1>4 DEF Deadline, Least
<1>6. call[c].end \in Int
  BY DEF ConversionInv, CodecInv, CallRecords
<1>7. QED
  BY <1>1, <1>2, <1>3, <1>4, <1>5, <1>6

\* What RemainingTimeout returns, not 0, covers the time to the deadline and
\* is not longer than the timeout.
LEMMA RemainingCovers ==
    ASSUME ConversionInv, NEW c \in Conversions, local[c].started <= now,
           Limit(c) > 0
    PROVE  IF Remaining(c) = 0 THEN now >= Deadline(c)
           ELSE Remaining(c) \in 1 .. Limit(c)
                /\ now + Remaining(c) * Unit >= Deadline(c)
<1> DEFINE past == now - local[c].started
           asked == Limit(c) * Unit
<1>1. /\ now \in Int /\ Unit \in Nat \ {0} /\ ClockMax \in Nat
      /\ local[c].started \in Int /\ Limit(c) \in Nat /\ Deadline(c) \in Int
      /\ asked \in Int /\ past \in Nat
  BY TimeTypes
<1>2. Deadline(c) <= local[c].started + asked
  BY <1>1 DEF Deadline, Least
<1>3. CASE Windows
  <2>1. PICK p \in Int : p = Passed(c) /\ p * Unit <= past /\ past < p * Unit + Unit
    <3>1. Passed(c) = past \div Unit
      BY DEF Passed
    <3>2. past \in Int
      BY <1>1
    <3> HIDE DEF past
    <3>3. QED
      BY <3>1, <3>2, WholeUnits
  <2>2. p >= 0
    <3>1. SUFFICES ASSUME p <= -1 PROVE FALSE
      BY <2>1
    <3>2. p * Unit <= (-1) * Unit
      BY <3>1, UnitsInOrder
    <3>3. p * Unit \in Int /\ (-1) * Unit = -Unit
      BY <1>1, <2>1
    <3>4. QED
      BY <1>1, <2>1, <3>2, <3>3
  <2>3. Remaining(c) = Largest(0, Limit(c) - p)
    BY <1>3, <2>1 DEF Remaining
  <2>4. p * Unit \in Int /\ (Limit(c) - p) * Unit = asked - p * Unit
    BY <1>1, <2>1
  <2>5. CASE Limit(c) <= p
    <3>1. asked <= p * Unit
      BY <1>1, <2>5, UnitsInOrder
    <3>2. Remaining(c) = 0
      BY <1>1, <2>3, <2>5 DEF Largest
    <3>3. QED
      BY <1>1, <1>2, <2>1, <2>4, <3>1, <3>2
  <2>6. CASE Limit(c) > p
    <3>1. Remaining(c) = Limit(c) - p /\ Remaining(c) \in 1 .. Limit(c)
      BY <1>1, <2>2, <2>3, <2>6 DEF Largest
    <3>2. now + (Limit(c) - p) * Unit >= Deadline(c)
      BY <1>1, <1>2, <2>1, <2>4
    <3>3. QED
      BY <3>1, <3>2
  <2>7. QED
    BY <1>1, <2>5, <2>6
<1>4. CASE ~Windows
  <2>1. CASE now >= Deadline(c)
    <3>1. Remaining(c) = 0
      BY <1>4, <2>1 DEF Remaining
    <3>2. QED
      BY <2>1, <3>1
  <2>2. CASE now < Deadline(c)
    <3> DEFINE up == Deadline(c) - now + Unit - 1
    <3>1. up \in Int
      BY <1>1
    <3>2. PICK q \in Int : q = up \div Unit /\ q * Unit <= up /\ up < q * Unit + Unit
      BY <3>1, WholeUnits
    <3>3. ~(now >= Deadline(c))
      BY <1>1, <2>2
    <3>4. Remaining(c) = q
      BY <1>4, <3>2, <3>3 DEF Remaining
    <3>5. q * Unit \in Int
      BY <1>1, <3>2
    <3>6. q >= 1
      <4>1. SUFFICES ASSUME q <= 0 PROVE FALSE
        BY <3>2
      <4>2. q * Unit <= 0 * Unit /\ 0 * Unit = 0
        BY <1>1, <4>1, UnitsInOrder
      <4>3. QED
        BY <1>1, <2>2, <3>2, <3>5, <4>2
    <3>7. q <= Limit(c)
      <4>1. SUFFICES ASSUME Limit(c) + 1 <= q PROVE FALSE
        BY <1>1, <3>2
      <4>2. (Limit(c) + 1) * Unit <= q * Unit
        BY <1>1, <4>1, UnitsInOrder
      <4>3. (Limit(c) + 1) * Unit = asked + Unit
        BY <1>1
      <4> HIDE DEF asked
      <4>4. QED
        BY <1>1, <1>2, <3>2, <3>5, <4>2, <4>3
    <3>8. now + q * Unit >= Deadline(c)
      BY <1>1, <3>2, <3>5
    <3>9. QED
      BY <1>1, <3>4, <3>6, <3>7, <3>8
  <2>3. QED
    BY <1>1, <2>1, <2>2
<1>5. QED
  BY <1>3, <1>4

\* Before ClockMax, a deadline that has passed is one that was asked for.
LEMMA PassedIsDue ==
    ASSUME ConversionInv, NEW c \in Conversions, now < ClockMax,
           Limit(c) > 0, now >= Deadline(c)
    PROVE  timeout[c] > 0 /\ now >= local[c].started + Limit(c) * Unit
<1>1. timeout[c] > 0
  BY TimeTypes DEF Limit
<1>2. now >= local[c].started + Limit(c) * Unit
  BY TimeTypes DEF Deadline, Least
<1>3. QED
  BY <1>1, <1>2

\* The codec's deadline is not before the conversion's.
LEMMA CodecDeadline ==
    ASSUME ConversionInv, TimeInv, NEW c \in Conversions, CallCodec(c)
    PROVE  /\ call'[c].end >= IF Limit(c) = 0 THEN ClockMax ELSE Deadline(c)
           /\ Limit(c) > 0 =>
                call'[c].end < ClockMax \/ now + (Limit(c) + 1) * Unit > ClockMax
           /\ call'[c].at # "timeout" /\ ~call'[c].cancelled
<1> DEFINE ms == local[c].remaining
           end == SaturatingDeadline(now, ms)
<1>1. /\ call'[c].end = end
      /\ call'[c].at # "timeout" /\ ~call'[c].cancelled
  BY DEF CallCodec, Call, Idle, ConversionInv, CodecInv
<1>2. phase[c] = "call" /\ HoldsTime(c)
  BY DEF CallCodec, TimeInv
<1>3. /\ now \in Nat /\ Unit \in Nat \ {0} /\ ClockMax \in Nat
      /\ Limit(c) \in Nat /\ Deadline(c) \in Int /\ ms \in Int
  BY TimeTypes
<1>4. CASE Limit(c) = 0
  <2>1. ms = 0
    BY <1>2, <1>4 DEF HoldsTime
  <2>2. end = ClockMax
    BY <2>1 DEF SaturatingDeadline
  <2>3. QED
    BY <1>1, <1>3, <1>4, <2>2
<1>5. CASE Limit(c) > 0
  <2>1. ms \in 1 .. Limit(c) /\ now + ms * Unit >= Deadline(c)
    BY <1>2, <1>3, <1>5 DEF HoldsTime
  <2>2. ms \in Nat \ {0}
    BY <1>3, <2>1
  <2>3. /\ end \in Int
        /\ \/ end = ClockMax /\ ClockMax < now + (ms + 1) * Unit
           \/ end = now + ms * Unit /\ now + ms * Unit < ClockMax
    <3>1. now \in Int
      BY <1>3
    <3> HIDE DEF ms
    <3>2. QED
      BY <2>2, <3>1, DeadlineBounds
  <2>4. Deadline(c) <= ClockMax
    BY TimeTypes DEF Deadline, Least
  <2>5. (ms + 1) * Unit <= (Limit(c) + 1) * Unit
    BY <1>3, <2>1, UnitsInOrder
  <2>6. ms * Unit \in Int /\ (ms + 1) * Unit \in Int /\ (Limit(c) + 1) * Unit \in Int
    BY <1>3
  <2> HIDE DEF end, ms
  <2>7. end >= Deadline(c)
    BY <1>3, <2>1, <2>3, <2>4, <2>6
  <2>8. end < ClockMax \/ now + (Limit(c) + 1) * Unit > ClockMax
    BY <1>3, <2>3, <2>5, <2>6
  <2>9. QED
    BY <1>1, <1>3, <1>5, <2>7, <2>8
<1>6. QED
  BY <1>3, <1>4, <1>5

-----------------------------------------------------------------------------
(* Steps.                                                                   *)

\* A conversion outside of its call of the codec.
LEMMA ElsewhereHolds ==
    ASSUME NEW c \in Conversions, phase'[c] \notin {"call", "codec"},
           local'[c].started <= now'
    PROVE  HoldsTime(c)'
  BY DEF HoldsTime

\* An operation that goes elsewhere, with its own variables.
LEMMA LocalElsewhere ==
    ASSUME ConversionInv, TimeInv, NEW c \in Conversions, now' = now,
           NEW next \in Phases \ {"call", "codec"},
           phase' = [phase EXCEPT ![c] = next],
           NEW r, local' = [local EXCEPT ![c] = r],
           r.started \in {0, now, local[c].started}
    PROVE  HoldsTime(c)'
<1>1. phase'[c] = next /\ local'[c] = r
  BY DEF ConversionInv, PhaseInv, LocalInv
<1>2. r.started <= now
  BY TimeTypes DEF TimeInv, HoldsTime
<1>3. QED
  BY <1>1, <1>2, ElsewhereHolds

LEMMA AnswerHolds ==
    ASSUME ConversionInv, TimeInv, NEW c \in Conversions, now' = now,
           NEW code, Answer(c, code)
    PROVE  HoldsTime(c)'
<1>1. Fresh.started = 0 /\ "answered" \in Phases \ {"call", "codec"}
  BY DEF Fresh, Phases
<1>2. QED
  BY <1>1, LocalElsewhere DEF Answer

\* A conversion that goes on elsewhere, its variables unchanged.
LEMMA ProceedsElsewhere ==
    ASSUME ConversionInv, TimeInv, NEW c \in Conversions, now' = now,
           NEW next \in Phases \ {"call", "codec"}, Proceeds(c, next)
    PROVE  HoldsTime(c)'
<1>1. local' = [local EXCEPT ![c] = local[c]]
  BY DEF Proceeds, ConversionInv, LocalInv
<1>2. QED
  BY <1>1, LocalElsewhere DEF Proceeds, Goes

\* The conversions that do not move.
LEMMA OthersStay ==
    ASSUME ConversionInv, NEW c \in Conversions, StepOf(c),
           NEW d \in Conversions, d # c
    PROVE  /\ phase'[d] = phase[d] /\ local'[d] = local[d]
           /\ call'[d] = call[d] /\ result'[d] = result[d]
<1> USE DEF PhaseInv, LocalInv, CodecInv, ConversionInv
<1>1. ASSUME NEW code, Answer(c, code)
      PROVE  /\ phase'[d] = phase[d] /\ local'[d] = local[d]
             /\ call'[d] = call[d] /\ result'[d] = result[d]
  BY <1>1 DEF Answer
<1>2. CASE Submit(c) \/ Begin(c)
  BY <1>1, <1>2 DEF Submit, Begin, Goes, Fail
<1>3. CASE OpenScope(c) \/ Check(c)
  BY <1>1, <1>3 DEF OpenScope, Check, Goes, Proceeds, Fail
<1>4. CASE Read(c) \/ Recheck(c)
  BY <1>1, <1>4 DEF Read, Recheck, Goes, Fail
<1>5. CASE CallCodec(c)
  BY <1>5 DEF CallCodec, Call
<1>6. CASE Convert(c) \/ Poll(c)
  <2>1. local[c].source \in Nat
    BY LocalFields
  <2>2. CallChange(c) /\ UNCHANGED <<phase, local, result>>
    BY <1>6, <2>1 DEF Convert, Poll, CodecStep, CallChange
  <2>3. QED
    BY <2>2, OnlyOwnCall
<1>7. CASE Converted(c)
  BY <1>1, <1>7 DEF Converted, Goes, Proceeds, Fail
<1>8. CASE CreateTemp(c)
  BY <1>1, <1>8 DEF CreateTemp, Goes, Fail
<1>9. CASE Fill(c) \/ Move(c) \/ WriteAtomic(c) \/ Succeed(c)
  BY <1>1, <1>9 DEF Fill, Move, WriteAtomic, Succeed, FailDeletingTemp, Replaces,
     Goes, Proceeds, Fail
<1>10. QED
  BY <1>2, <1>3, <1>4, <1>5, <1>6, <1>7, <1>8, <1>9 DEF StepOf, Operation

\* HoldsTime(d) looks at d's state, its timeout and the clock.
LEMMA UnmovedHolds ==
    ASSUME ConversionInv, TimeInv, NEW d \in Conversions, UNCHANGED <<fixed, now>>,
           phase'[d] = phase[d], local'[d] = local[d], call'[d] = call[d]
    PROVE  HoldsTime(d)'
<1>1. HoldsTime(d) /\ timeout'[d] = timeout[d]
  BY DEF TimeInv, fixed
<1>2. Limit(d)' = Limit(d) /\ Deadline(d)' = Deadline(d)
  BY <1>1 DEF Limit, Deadline
<1>3. Timely(d)' <=> Timely(d)
  BY DEF Timely, Expired
<1>4. QED
  BY <1>1, <1>2, <1>3 DEF HoldsTime

\* The conversion that moves.
LEMMA MovedHolds ==
    ASSUME ConversionInv, TimeInv, NEW c \in Conversions, StepOf(c)
    PROVE  HoldsTime(c)'
<1>1. UNCHANGED <<fixed, now>> /\ timeout' = timeout
  BY DEF StepOf, fixed
<1>2. HoldsTime(c) /\ Limit(c)' = Limit(c)
  BY <1>1 DEF TimeInv, Limit
<1>3. {"new", "queued", "scopes", "check", "read", "recheck", "create", "fill",
       "move", "write", "moved", "answered"} \subseteq Phases \ {"call", "codec"}
  BY DEF Phases
<1>4. local \in [Conversions -> Locals] /\ phase \in [Conversions -> Phases]
  BY DEF ConversionInv, LocalInv, PhaseInv
<1>5. ASSUME NEW next \in Phases \ {"call", "codec"}, Goes(c, next), NEW r,
             local' = [local EXCEPT ![c] = r],
             r.started \in {0, now, local[c].started}
      PROVE  HoldsTime(c)'
  BY <1>1, <1>5, LocalElsewhere DEF Goes
<1>6. CASE Submit(c)
  <2>1. PICK r : r = [local[c] EXCEPT !.started = now]
    OBVIOUS
  <2>2. r.started = now
    BY <1>4, <2>1 DEF Locals
  <2>3. local' = [local EXCEPT ![c] = r] /\ Goes(c, "queued")
    BY <1>6, <2>1 DEF Submit
  <2>4. QED
    BY <1>3, <1>5, <2>2, <2>3
<1>7. CASE Begin(c)
  <2>1. ASSUME NEW size, NEW next \in {"recheck", "check", "scopes"}, Goes(c, next),
               local' = [local EXCEPT
                           ![c].started = IF kind[c] = "image" THEN now ELSE @,
                           ![c].source = size]
        PROVE  HoldsTime(c)'
    <3>1. PICK i : i = IF kind[c] = "image" THEN now ELSE local[c].started
      OBVIOUS
    <3>2. PICK q : q = [local[c] EXCEPT !.started = i]
      OBVIOUS
    <3>3. PICK r : r = [q EXCEPT !.source = size]
      OBVIOUS
    <3>4. r.started = i
      BY <1>4, <3>2, <3>3 DEF Locals
    <3>5. local' = [local EXCEPT ![c] = r]
      BY <2>1, <3>1, <3>2, <3>3
    <3>6. QED
      BY <1>3, <1>5, <2>1, <3>1, <3>4, <3>5
  <2>2. QED
    BY <1>1, <1>7, <2>1, AnswerHolds DEF Begin, Fail
<1>8. CASE OpenScope(c)
  <2>1. ASSUME NEW u, UNCHANGED <<phase, call>>,
               local' = [local EXCEPT ![c].accessed = Append(@, u)]
        PROVE  HoldsTime(c)'
    <3>1. local'[c].started = local[c].started /\ phase'[c] = "scopes"
      BY <1>4, <1>8, <2>1 DEF OpenScope, Locals
    <3>2. QED
      BY <1>1, <1>2, <3>1, ElsewhereHolds DEF HoldsTime
  <2>2. QED
    BY <1>1, <1>3, <1>8, <2>1, AnswerHolds, ProceedsElsewhere DEF OpenScope, Fail
<1>9. CASE Check(c)
  BY <1>1, <1>3, <1>9, AnswerHolds, ProceedsElsewhere DEF Check, Fail
<1>10. CASE Read(c)
  <2>1. ASSUME NEW size, Goes(c, "recheck"),
               local' = [local EXCEPT ![c].source = size]
        PROVE  HoldsTime(c)'
    <3>1. local'[c].started = local[c].started /\ phase'[c] = "recheck"
      BY <1>4, <2>1 DEF Goes, Locals
    <3>2. QED
      BY <1>1, <1>2, <3>1, ElsewhereHolds DEF HoldsTime
  <2>2. QED
    BY <1>1, <1>10, <2>1, AnswerHolds DEF Read, Fail
<1>11. CASE Recheck(c)
  <2>1. ASSUME ~Overdue(c), Goes(c, "call"),
               local' = [local EXCEPT ![c].remaining = Remaining(c)]
        PROVE  HoldsTime(c)'
    <3>1. /\ phase'[c] = "call" /\ local'[c].started = local[c].started
          /\ local'[c].remaining = Remaining(c)
      BY <1>4, <2>1 DEF Goes, Locals
    <3>2. Deadline(c)' = Deadline(c)
      BY <1>2, <3>1 DEF Deadline
    <3>3. IF Limit(c) = 0 THEN Remaining(c) = 0
          ELSE Remaining(c) \in 1 .. Limit(c) /\ now + Remaining(c) * Unit >= Deadline(c)
      <4>1. CASE Limit(c) = 0
        BY <4>1 DEF Remaining
      <4>2. CASE Limit(c) > 0
        BY <1>2, <2>1, <4>2, RemainingCovers DEF HoldsTime, Overdue
      <4>3. QED
        BY <4>1, <4>2, TimeTypes
    <3>4. QED
      BY <1>1, <1>2, <3>1, <3>2, <3>3 DEF HoldsTime
  <2>2. QED
    BY <1>1, <1>11, <2>1, AnswerHolds DEF Recheck, Fail
<1>12. CASE CallCodec(c)
  <2>1. phase'[c] = "codec" /\ local' = local
    BY <1>4, <1>12 DEF CallCodec
  <2>2. Deadline(c)' = Deadline(c)
    BY <1>2, <2>1 DEF Deadline
  <2>3. /\ call'[c].end >= IF Limit(c) = 0 THEN ClockMax ELSE Deadline(c)
        /\ call'[c].at # "timeout" /\ ~call'[c].cancelled
    BY <1>12, CodecDeadline
  <2>4. QED
    BY <1>1, <1>2, <2>1, <2>2, <2>3 DEF HoldsTime, Timely
<1>13. CASE Convert(c) \/ Poll(c)
  <2>1. UNCHANGED <<phase, local>> /\ phase[c] = "codec"
    BY <1>13 DEF Convert, Poll
  <2>2. \/ \E size : Create(c, size) \/ Header(c, size)
        \/ Enter(c) \/ Cancel(c) \/ Return(c)
    BY <1>13 DEF Convert, Poll, CodecStep
  <2>3. Timely(c) /\ CodecInv
    BY <1>2, <2>1 DEF HoldsTime, ConversionInv
  <2>4. StaysTimely(c)
    BY <2>2, <2>3, TimelyStep
  <2>5. Deadline(c)' = Deadline(c)
    BY <1>2, <2>1 DEF Deadline
  <2>6. Timely(c)'
    BY <1>1, <2>4 DEF StaysTimely, Timely, Expired
  <2>7. QED
    BY <1>1, <1>2, <2>1, <2>4, <2>5, <2>6 DEF HoldsTime, StaysTimely
<1>14. CASE Converted(c)
  BY <1>1, <1>3, <1>14, AnswerHolds, ProceedsElsewhere DEF Converted, Fail
<1>15. CASE CreateTemp(c)
  <2>1. ASSUME NEW next \in {"fill", "create"}, Goes(c, next),
               \/ local' = [local EXCEPT ![c].temp = counter]
               \/ local' = [local EXCEPT ![c].tries = @ + 1]
        PROVE  HoldsTime(c)'
    <3>1. phase'[c] = next
      BY <1>4, <2>1 DEF Goes
    <3>2. local'[c].started = local[c].started
      BY <1>4, <2>1 DEF Locals
    <3>3. QED
      BY <1>1, <1>2, <3>1, <3>2, ElsewhereHolds DEF HoldsTime
  <2>2. QED
    BY <1>1, <1>15, <2>1, AnswerHolds DEF CreateTemp, Fail
<1>16. CASE Fill(c) \/ Move(c) \/ WriteAtomic(c) \/ Succeed(c)
  BY <1>1, <1>3, <1>16, AnswerHolds, ProceedsElsewhere DEF Fill, Move, WriteAtomic,
     Succeed, FailDeletingTemp, Replaces, Fail
<1>17. QED
  BY <1>6, <1>7, <1>8, <1>9, <1>10, <1>11, <1>12, <1>13, <1>14, <1>15, <1>16
     DEF StepOf, Operation

-----------------------------------------------------------------------------
(* The theorem.                                                             *)

LEMMA TimeInit == Init => TimeInv
<1> SUFFICES ASSUME Init PROVE TimeInv
  OBVIOUS
<1>1. now = 0
  BY DEF Init, CodecInit
<1>2. now < ClockMax
  BY <1>1, CodecAssumption
<1>3. ASSUME NEW c \in Conversions
      PROVE  HoldsTime(c)
  <2>1. phase[c] = "new" /\ local[c].started = 0
    BY DEF Init, Fresh
  <2>2. QED
    BY <1>1, <2>1 DEF HoldsTime
<1>4. QED
  BY <1>2, <1>3 DEF TimeInv

LEMMA TimeStep ==
    ASSUME ConversionInv, TimeInv, [Next]_vars
    PROVE  TimeInv'
<1>1. CASE Crash
  <2>1. now' = now
    BY <1>1 DEF Crash
  <2>2. ASSUME NEW c \in Conversions
        PROVE  phase'[c] \notin {"call", "codec"} /\ local'[c].started = 0
    BY <1>1 DEF Crash, Fresh
  <2>3. QED
    BY <2>1, <2>2, ElsewhereHolds, TimeTypes DEF TimeInv
<1>2. CASE TimePasses
  <2>1. /\ now' = now + 1 /\ now' < ClockMax
        /\ UNCHANGED <<platform, timeout, phase, local, call>>
    BY <1>2 DEF TimePasses, Tick
  <2>2. ASSUME NEW c \in Conversions
        PROVE  HoldsTime(c)'
    <3>1. Limit(c)' = Limit(c) /\ Deadline(c)' = Deadline(c)
      BY <2>1 DEF Limit, Deadline
    <3>2. /\ HoldsTime(c)
          /\ now \in Nat /\ Unit \in Nat /\ local[c].started \in Int
          /\ local[c].remaining \in Int
          /\ Deadline(c) \in Int /\ call[c].end \in Int
      BY TimeTypes DEF TimeInv
    <3>3. local[c].started <= now'
      BY <2>1, <3>2 DEF HoldsTime
    <3>4. phase[c] = "call" /\ Limit(c) # 0 =>
             now' + local[c].remaining * Unit >= Deadline(c)
      <4>1. local[c].remaining * Unit \in Int
        BY <3>2
      <4>2. QED
        BY <2>1, <3>2, <4>1 DEF HoldsTime
    <3>5. phase[c] = "codec" => Timely(c)'
      BY <2>1, <3>2 DEF HoldsTime, Timely, Expired
    <3>6. QED
      BY <2>1, <3>1, <3>2, <3>3, <3>4, <3>5 DEF HoldsTime
  <2>3. QED
    BY <2>1, <2>2 DEF TimeInv
<1>3. ASSUME NEW c \in Conversions, StepOf(c)
      PROVE  TimeInv'
  <2>1. UNCHANGED <<fixed, now>>
    BY <1>3 DEF StepOf
  <2>2. \A d \in Conversions : HoldsTime(d)'
    BY <1>3, <2>1, MovedHolds, OthersStay, UnmovedHolds
  <2>3. QED
    BY <2>1, <2>2 DEF TimeInv
<1>4. CASE UNCHANGED vars
  <2>1. UNCHANGED <<fixed, now, phase, local, call>>
    BY <1>4 DEF vars
  <2>2. QED
    BY <2>1, UnmovedHolds DEF TimeInv
<1>5. QED
  BY <1>1, <1>2, <1>3, <1>4 DEF Next, StepOf

\* A conversion gets its timeout from a test that found its deadline passed.
LEMMA TimeoutIsDue ==
    ASSUME ConversionInv, TimeInv, NEW c \in Conversions, StepOf(c),
           result[c] = "none", result'[c] = "timeout"
    PROVE  timeout[c] > 0 /\ now >= local[c].started + Limit(c) * Unit
<1> USE DEF PhaseInv, ConversionInv
<1>1. now < ClockMax /\ HoldsTime(c)
  BY DEF TimeInv
<1>2. ASSUME Limit(c) > 0, now >= Deadline(c)
      PROVE  timeout[c] > 0 /\ now >= local[c].started + Limit(c) * Unit
  BY <1>1, <1>2, PassedIsDue
<1>3. ASSUME Overdue(c)
      PROVE  timeout[c] > 0 /\ now >= local[c].started + Limit(c) * Unit
  <2>1. Limit(c) > 0 /\ now >= Deadline(c)
    BY <1>1, <1>3, RemainingCovers DEF Overdue, HoldsTime
  <2>2. QED
    BY <1>2, <2>1
<1>4. ASSUME NEW code \in {"success", "io", "bookmark"}, Answer(c, code)
      PROVE  FALSE
  BY <1>4 DEF Answer
<1>5. CASE Submit(c) \/ Begin(c) \/ OpenScope(c) \/ Read(c) \/ CallCodec(c)
           \/ Convert(c) \/ Poll(c)
  BY <1>4, <1>5 DEF Submit, Begin, OpenScope, Read, CallCodec, Convert, Poll,
     Goes, Proceeds, Fail
<1>6. CASE Check(c) \/ Recheck(c)
  BY <1>3, <1>6 DEF Check, Recheck, Goes, Proceeds
<1>7. CASE Converted(c)
  <2>1. CASE call[c].at \in Errors /\ Fail(c, call[c].at)
    <3>1. phase[c] = "codec" /\ call[c].at = "timeout"
      BY <1>7, <2>1 DEF Converted, Fail, Answer
    <3>2. Timely(c) /\ call[c].end >= IF Limit(c) = 0 THEN ClockMax ELSE Deadline(c)
      BY <1>1, <3>1 DEF HoldsTime
    <3>3. now >= call[c].end
      BY <3>1, <3>2 DEF Timely, Expired
    <3>4. Limit(c) # 0 /\ now >= Deadline(c)
      BY <1>1, <3>2, <3>3, TimeTypes
    <3>5. QED
      BY <1>2, <3>4, TimeTypes
  <2>2. CASE Overdue(c)
    BY <1>3, <2>2
  <2>3. CASE ~Overdue(c) /\ ~(call[c].at \in Errors)
    BY <1>4, <1>7, <2>3 DEF Converted, Goes, Proceeds
  <2>4. CASE ~Overdue(c) /\ ~Fail(c, call[c].at)
    BY <1>4, <1>7, <2>4 DEF Converted, Goes, Proceeds
  <2>5. QED
    BY <2>1, <2>2, <2>3, <2>4
<1>8. CASE CreateTemp(c) \/ Fill(c) \/ Move(c) \/ WriteAtomic(c) \/ Succeed(c)
  BY <1>4, <1>8 DEF CreateTemp, Fill, Move, WriteAtomic, Succeed, FailDeletingTemp,
     Replaces, Goes, Proceeds, Fail
<1>9. QED
  BY <1>5, <1>6, <1>7, <1>8 DEF StepOf, Operation

\* A conversion enters the codec by CallCodec only, with its timeout.
LEMMA EnteredWithTimeout ==
    ASSUME ConversionInv, TimeInv, NEW c \in Conversions, StepOf(c),
           phase[c] = "call", phase'[c] = "codec", timeout[c] > 0
    PROVE  call'[c].end < ClockMax \/ now + (Limit(c) + 1) * Unit > ClockMax
<1>1. CallCodec(c)
  BY DEF StepOf, Submit, Operation, Begin, OpenScope, Check, Read, Recheck, Convert,
     Poll, Converted, CreateTemp, Fill, Move, WriteAtomic, Succeed
<1>2. Limit(c) > 0
  <2>1. timeout[c] \div Unit \in Int
    BY TimeTypes
  <2>2. QED
    BY <2>1, TimeTypes DEF Limit, Largest
<1>3. QED
  BY <1>1, <1>2, CodecDeadline

\* _timeoutMilliseconds, RemainingTimeout, Deadline and the tests between them:
\* a conversion is answered with a timeout only when its caller asked for one
\* and that time has passed, and none loses its timeout on the way to libjxl.
THEOREM TimeoutsAlwaysDue == Spec => TimeoutsAreDue
<1> DEFINE Due(c) ==
       /\ result[c] = "none" /\ result'[c] = "timeout" =>
             timeout[c] > 0 /\ now >= local[c].started + Limit(c) * Unit
       /\ phase[c] = "call" /\ phase'[c] = "codec" /\ timeout[c] > 0 =>
             call'[c].end < ClockMax \/ now + (Limit(c) + 1) * Unit > ClockMax
<1>1. ConversionInv /\ TimeInv /\ [Next]_vars => [\A c \in Conversions : Due(c)]_vars
  <2> SUFFICES ASSUME ConversionInv, TimeInv, Next, NEW c \in Conversions
               PROVE  Due(c)
    OBVIOUS
  <2>1. CASE Crash
    <3>1. result'[c] \in {"lost", result[c]} /\ phase'[c] \in {"answered", phase[c]}
      BY <2>1 DEF Crash
    <3>2. QED
      BY <3>1
  <2>2. CASE TimePasses
    BY <2>2 DEF TimePasses
  <2>3. ASSUME NEW d \in Conversions, StepOf(d)
        PROVE  Due(c)
    <3>1. CASE d = c
      BY <2>3, <3>1, TimeoutIsDue, EnteredWithTimeout
    <3>2. CASE d # c
      <4>1. result'[c] = result[c] /\ phase'[c] = phase[c]
        BY <2>3, <3>2, OthersStay
      <4>2. QED
        BY <4>1
    <3>3. QED
      BY <3>1, <3>2
  <2>4. QED
    BY <2>1, <2>2, <2>3 DEF Next, StepOf
<1>2. QED
  BY <1>1, TimeInit, TimeStep, ConversionInvariant, PTL DEF Spec, TimeoutsAreDue
=============================================================================
