----------------------------- MODULE Conversion -----------------------------
(***************************************************************************)
(* The operations that the admission scheduler runs: conversions of paths  *)
(* and of bytes, with their deadlines, their files, on macOS their         *)
(* security scopes, and the process that may die in between; in the        *)
(* Windows plugin (EncodePath, InversePath, MappedFile, WriteFileBytes)    *)
(* and in Apple's (the operations in handle, remainingTimeout,             *)
(* withJxlSecurityScopedAccess).  The call of the codec is Codec's.        *)
(*                                                                         *)
(* A file is replaced in one step by the file system (MoveFileExW, or the  *)
(* rename of Data.write(.atomic)); an input that was mapped keeps what it  *)
(* held.  Only this program writes to the directory.                       *)
(***************************************************************************)
EXTENDS Codec, FiniteSets, Functions

CONSTANTS
    Kinds,        \* Kinds[c]: what c may be, "path", "image" (of a batch) or "bytes"
    Paths,
    Input,        \* Input[c], Output[c]: the paths of c
    Output,
    Scopes,       \* Scopes[c]: the scoped URLs of c's bookmarks, in order
    Timeouts,     \* what the Durations of all may be, in ticks; 0 for null
    Sizes,        \* Sizes[p]: the sizes p may have at first; none when it is missing
    MaxAttempts,  \* 16: the names tried for a temporary file
    Leftovers     \* numbers of temporary files that a dead process may have left

ASSUME ConversionAssumption ==
    /\ Kinds \in [Conversions -> SUBSET {"path", "image", "bytes"}]
    /\ IsFiniteSet(Conversions) /\ {"none", "dead", "left"} \cap Conversions = {}
    /\ Input \in [Conversions -> Paths] /\ Output \in [Conversions -> Paths]
    /\ Timeouts \subseteq [Conversions -> Nat]
    /\ Sizes \in [Paths -> SUBSET Nat]
    /\ Leftovers \subseteq Nat
    /\ MaxAttempts \in Nat \ {0}

VARIABLES
    platform,   \* "windows" or "apple", for good
    kind,       \* kind[c]: what c is
    timeout,    \* timeout[c]: the timeout that c's caller asks for
    files,      \* files[p]: [by |-> who wrote it, bytes |-> what it holds]
    temps,      \* temps[n]: the writer of temporary file n, which exists; "dead"
                \* if its process died, "left" if it could not be deleted
    counter,    \* g_temporary_file_id
    phase,      \* phase[c]: where c is
    local,      \* local[c]: the local variables of c's operation, see Fresh
    uses,       \* uses[u]: the system's count of accesses to the scope u
    result,     \* result[c]: "none", "success", an error, or "lost"
    crashed     \* the process has died once

fixed == <<platform, kind, timeout, length>>
disk == <<files, temps, counter>>
vars == <<fixed, now, call, disk, phase, local, uses, result, crashed>>

Windows == platform = "windows"
Urls == UNION {{Scopes[c][i] : i \in DOMAIN Scopes[c]} : c \in Conversions}

\* started: what the deadline counts from; source: the size of the input;
\* remaining: the timeout for the codec; temp, tries: the number of the
\* temporary file and the names tried; accessed: accessedURLs.
Fresh == [started |-> 0, source |-> 0, remaining |-> 0, temp |-> 0, tries |-> 0,
          accessed |-> <<>>]

-----------------------------------------------------------------------------
(* Deadlines.                                                               *)

\* _timeoutMilliseconds
Limit(c) == IF timeout[c] = 0 THEN 0 ELSE Largest(1, timeout[c] \div Unit)

Passed(c) == (now - local[c].started) \div Unit

\* monotonicDeadline: the sum, or the largest time when it overflows.
Deadline(c) == Least(ClockMax, local[c].started + Limit(c) * Unit)

\* Fault: whole milliseconds only, also on Apple.
RemainingTruncated(c) ==
    IF Limit(c) = 0 THEN 0
    ELSE IF Windows THEN Largest(0, Limit(c) - Passed(c))
    ELSE IF now >= Deadline(c) THEN 0 ELSE (Deadline(c) - now) \div Unit

\* RemainingTimeout; remainingTimeout, which throws where this is 0.
Remaining(c) ==
    IF Limit(c) = 0 THEN 0
    ELSE IF Windows THEN Largest(0, Limit(c) - Passed(c))
    ELSE IF now >= Deadline(c) THEN 0
    ELSE (Deadline(c) - now + Unit - 1) \div Unit

Overdue(c) == Limit(c) > 0 /\ Remaining(c) = 0

-----------------------------------------------------------------------------
(* The steps an operation is made of.                                       *)

Goes(c, next) ==
    /\ phase' = [phase EXCEPT ![c] = next]
    /\ UNCHANGED <<result, uses, call>>

Proceeds(c, next) == Goes(c, next) /\ UNCHANGED local

\* The operation returns: its buffer is freed and its scopes are given back.
Answer(c, code) ==
    /\ result' = [result EXCEPT ![c] = code]
    /\ phase' = [phase EXCEPT ![c] = "answered"]
    /\ uses' = [u \in Urls |-> uses[u] -
                  Cardinality({i \in DOMAIN local[c].accessed : local[c].accessed[i] = u})]
    /\ local' = [local EXCEPT ![c] = Fresh]
    /\ call' = [call EXCEPT ![c] = Idle]

\* Fault: the scopes are given back only by an operation that succeeds.
FailKeepingScopes(c, code) ==
    /\ result' = [result EXCEPT ![c] = code]
    /\ phase' = [phase EXCEPT ![c] = "answered"]
    /\ local' = [local EXCEPT ![c] = Fresh]
    /\ call' = [call EXCEPT ![c] = Idle]
    /\ UNCHANGED uses

Fail(c, code) == Answer(c, code)

-----------------------------------------------------------------------------
(* The steps of a conversion.                                               *)

\* A single conversion's deadline counts from its submission.
Submit(c) ==
    /\ phase[c] = "new" /\ Goes(c, "queued")
    /\ local' = [local EXCEPT ![c].started = now]
    /\ UNCHANGED disk

\* An image of a batch has its deadline from here on.  On Apple the bookmarks
\* are resolved, which may fail.
Begin(c) ==
    /\ phase[c] = "queued"
    /\ \/ /\ Goes(c, IF kind[c] = "bytes" THEN "recheck" ELSE IF Windows THEN "check" ELSE "scopes")
          /\ \E size \in IF kind[c] = "bytes" THEN {0, 1} ELSE {0} :
                local' = [local EXCEPT ![c].started = IF kind[c] = "image" THEN now ELSE @,
                                       ![c].source = size]
       \/ ~Windows /\ kind[c] # "bytes" /\ Scopes[c] # <<>> /\ Fail(c, "bookmark")
    /\ UNCHANGED disk

Unopened(c) == {u \in {Scopes[c][i] : i \in DOMAIN Scopes[c]} :
                  \A i \in DOMAIN local[c].accessed : local[c].accessed[i] # u}

\* withJxlSecurityScopedAccess, up to the operation: each URL once; access may
\* be denied, and a path may lie outside of its scope.  In a batch the
\* operation does not begin with a test of the deadline.
OpenScope(c) ==
    /\ phase[c] = "scopes"
    /\ \/ \E u \in Unopened(c) :
             /\ local' = [local EXCEPT ![c].accessed = Append(@, u)]
             /\ uses' = [uses EXCEPT ![u] = @ + 1]
             /\ UNCHANGED <<phase, result, call>>
       \/ Scopes[c] # <<>> /\ Fail(c, "bookmark")
       \/ Unopened(c) = {} /\ Proceeds(c, IF kind[c] = "image" THEN "read" ELSE "check")
    /\ UNCHANGED disk

Check(c) ==
    /\ phase[c] = "check"
    /\ IF Overdue(c) THEN Fail(c, "timeout") ELSE Proceeds(c, "read")
    /\ UNCHANGED disk

\* MappedFile, Data(contentsOf:): reading may fail.
Read(c) ==
    /\ phase[c] = "read"
    /\ \/ Fail(c, "io")
       \/ /\ files[Input[c]].by # "missing" /\ Goes(c, "recheck")
          /\ local' = [local EXCEPT ![c].source = Len(files[Input[c]].bytes)]
    /\ UNCHANGED disk

Recheck(c) ==
    /\ phase[c] = "recheck"
    /\ IF Overdue(c) THEN Fail(c, "timeout")
       ELSE Goes(c, "call") /\ local' = [local EXCEPT ![c].remaining = Remaining(c)]
    /\ UNCHANGED disk

\* The codec is entered with the time that remained at the test.
CallCodec(c) ==
    /\ phase[c] = "call" /\ phase' = [phase EXCEPT ![c] = "codec"]
    /\ Call(c, local[c].source, local[c].remaining)
    /\ UNCHANGED <<disk, local, uses, result>>

\* The codec works; the runner's threads ask whether c is cancelled.
Convert(c) ==
    /\ phase[c] = "codec" /\ CodecStep(c, local[c].source)
    /\ UNCHANGED <<disk, phase, local, uses, result>>

Poll(c) ==
    /\ phase[c] = "codec" /\ Cancel(c)
    /\ UNCHANGED <<disk, phase, local, uses, result>>

\* The codec has returned; the input is unmapped.  Bytes are replied as they are.
Converted(c) ==
    /\ phase[c] = "codec"
    /\ \/ call[c].at \in Errors /\ Fail(c, call[c].at)
       \/ /\ call[c].at = "success"
          /\ IF kind[c] = "bytes" THEN Answer(c, "success")
             ELSE IF Overdue(c) THEN Fail(c, "timeout")
             ELSE Proceeds(c, IF Windows THEN "create" ELSE "write")
    /\ UNCHANGED disk

\* One attempt to create a temporary file; another failure than an existing
\* name ends the attempts.
CreateTemp(c) ==
    /\ phase[c] = "create"
    /\ counter' = counter + 1
    /\ \/ /\ counter \notin DOMAIN temps /\ Goes(c, "fill")
          /\ temps' = [n \in DOMAIN temps \cup {counter} |->
                         IF n = counter THEN c ELSE temps[n]]
          /\ local' = [local EXCEPT ![c].temp = counter]
       \/ /\ counter \in DOMAIN temps /\ local[c].tries + 1 < MaxAttempts
          /\ Goes(c, "create")
          /\ local' = [local EXCEPT ![c].tries = @ + 1] /\ UNCHANGED temps
       \/ Fail(c, "io") /\ UNCHANGED temps
    /\ UNCHANGED files

\* Fault: a conversion that fails does not try to delete its temporary file.
FailKeepingTemp(c) == Fail(c, "io") /\ UNCHANGED temps

WithoutTemp(c) == Restrict(temps, DOMAIN temps \ {local[c].temp})

LeftTemp(c) == [temps EXCEPT ![local[c].temp] = "left"]

\* DeleteFileW may fail itself; nobody looks at what it returns.
FailDeletingTemp(c) == Fail(c, "io") /\ temps' \in {WithoutTemp(c), LeftTemp(c)}

\* WriteFile in chunks, FlushFileBuffers, CloseHandle.
Fill(c) ==
    /\ phase[c] = "fill"
    /\ \/ FailDeletingTemp(c)
       \/ Proceeds(c, "move") /\ UNCHANGED temps
    /\ UNCHANGED <<files, counter>>

\* Fault: the output path gets as many bytes as the input had.
ReplacesPartly(c) ==
    /\ files' = [files EXCEPT ![Output[c]] =
                   [by |-> c, bytes |-> SubSeq(call[c].buffer.bytes, 1, local[c].source)]]
    /\ Proceeds(c, "moved")

\* The output path gets the bytes that the buffer holds.
Replaces(c) ==
    /\ files' = [files EXCEPT ![Output[c]] = [by |-> c, bytes |-> call[c].buffer.bytes]]
    /\ Proceeds(c, "moved")

\* MoveFileExW.
Move(c) ==
    /\ phase[c] = "move"
    /\ \/ FailDeletingTemp(c) /\ UNCHANGED files
       \/ Replaces(c) /\ temps' = WithoutTemp(c)
    /\ UNCHANGED counter

\* Data.write(.atomic)
WriteAtomic(c) ==
    /\ phase[c] = "write"
    /\ \/ Fail(c, "io") /\ UNCHANGED files
       \/ Replaces(c)
    /\ UNCHANGED <<temps, counter>>

Succeed(c) == phase[c] = "moved" /\ Answer(c, "success") /\ UNCHANGED disk

\* The process dies, once; files stay, the next process has the same identifier
\* in its names, the worst case, and the system takes back the accesses.
Crash ==
    /\ ~crashed /\ crashed' = TRUE
    /\ LET died == {c \in Conversions : phase[c] \notin {"new", "answered"}}
       IN  /\ phase' = [c \in Conversions |-> IF c \in died THEN "answered" ELSE phase[c]]
           /\ result' = [c \in Conversions |-> IF c \in died THEN "lost" ELSE result[c]]
    /\ temps' = [n \in DOMAIN temps |-> "dead"]
    /\ counter' = 0
    /\ call' = [c \in Conversions |-> Idle] /\ local' = [c \in Conversions |-> Fresh]
    /\ uses' = [u \in Urls |-> 0]
    /\ UNCHANGED <<fixed, now, files>>

\* Time is told only while a conversion has a deadline.
TimePasses ==
    /\ \E c \in Conversions : Limit(c) > 0 /\ phase[c] \notin {"new", "answered"}
    /\ Tick
    /\ UNCHANGED <<platform, kind, timeout, disk, phase, local, uses, result, crashed>>

Missing == [by |-> "missing", bytes |-> <<>>]
Existing(n) == [by |-> "user", bytes |-> [i \in 1 .. n |-> 0]]

Init ==
    /\ CodecInit
    /\ platform \in {"windows", "apple"}
    /\ kind \in {f \in [Conversions -> {"path", "image", "bytes"}] :
                  \A c \in Conversions : f[c] \in Kinds[c]}
    /\ timeout \in Timeouts
    /\ files \in {f \in [Paths -> {Missing} \cup {Existing(n) : n \in UNION Range(Sizes)}] :
                   \A p \in Paths : IF Sizes[p] = {} THEN f[p] = Missing
                                     ELSE \E n \in Sizes[p] : f[p] = Existing(n)}
    /\ \E left \in SUBSET Leftovers :
          /\ platform = "apple" => left = {}
          /\ temps = [n \in left |-> "dead"]
    /\ counter = 0
    /\ phase = [c \in Conversions |-> "new"]
    /\ local = [c \in Conversions |-> Fresh] /\ uses = [u \in Urls |-> 0]
    /\ result = [c \in Conversions |-> "none"]
    /\ crashed = FALSE

Operation(c) ==
    \/ Begin(c) \/ OpenScope(c) \/ Check(c) \/ Read(c) \/ Recheck(c) \/ CallCodec(c)
    \/ Convert(c) \/ Converted(c) \/ CreateTemp(c) \/ Fill(c) \/ Move(c)
    \/ WriteAtomic(c) \/ Succeed(c)

Next ==
    \/ Crash \/ TimePasses
    \/ /\ \E c \in Conversions : Submit(c) \/ Operation(c) \/ Poll(c)
       /\ UNCHANGED <<fixed, now, crashed>>

Spec == Init /\ [][Next]_vars

\* A conversion that was begun has a thread of its own, and libjxl returns.
FairSpec == Spec /\ \A c \in Conversions : WF_vars(Operation(c) /\ UNCHANGED <<fixed, now, crashed>>)

-----------------------------------------------------------------------------
(* Properties.                                                              *)

Whole(c) == [by |-> c, bytes |-> [i \in 1 .. length[c] |-> i]]

\* What an output path holds, and how far a conversion of paths is, for its caller.
Outputs == [p \in Paths |-> IF files[p].by \notin Conversions THEN files[p].by
                             ELSE IF files[p] = Whole(files[p].by) THEN files[p].by
                             ELSE "broken"]

State == [c \in Conversions |->
            IF kind[c] = "bytes" THEN "open"
            ELSE IF result[c] \in {"success", "lost"} THEN result[c]
            ELSE IF result[c] # "none" THEN "failed"
            ELSE IF phase[c] = "moved" THEN "written" ELSE "open"]

Atomic == INSTANCE AtomicConversion WITH outputs <- Outputs, state <- State

\* However conversions, failures and a crash interleave, an output path holds
\* what it held or one conversion's complete result, and a conversion is
\* reported successful exactly when its result was put there.
ImplementsAtomicConversion == Atomic!Spec

\* Each temporary file belongs to a conversion that is still writing it, unless
\* its process died or the system refused to delete it, and a conversion that
\* writes has its own: no other conversion, of this process or of one before,
\* shares its name.
TempsOwned ==
    /\ \A n \in DOMAIN temps : temps[n] \in Conversions =>
          local[temps[n]].temp = n /\ phase[temps[n]] \in {"fill", "move"}
    /\ \A c \in Conversions : phase[c] \in {"fill", "move"} =>
          local[c].temp \in DOMAIN temps /\ temps[local[c].temp] = c

\* While a conversion uses its files it has access to each of its scopes, and
\* when all are answered the system counts no access any more.
ScopesBalanced ==
    /\ \A c \in Conversions :
          ~Windows /\ kind[c] # "bytes"
          /\ phase[c] \notin {"new", "queued", "scopes", "answered"} =>
            \A i \in DOMAIN Scopes[c] : uses[Scopes[c][i]] > 0
    /\ (\A c \in Conversions : phase[c] \in {"new", "answered"}) =>
          \A u \in Urls : uses[u] = 0

\* A conversion times out only when it has a timeout and the time is over, by
\* whichever of the tests, in the plugin or in the codec; and one that has a
\* timeout never enters the codec without, which 0 would mean, unless its end
\* is beyond the clock.
TimeoutsAreDue ==
    [][\A c \in Conversions :
         /\ result[c] = "none" /\ result'[c] = "timeout" =>
               timeout[c] > 0 /\ now >= local[c].started + Limit(c) * Unit
         /\ phase[c] = "call" /\ phase'[c] = "codec" /\ timeout[c] > 0 =>
               call'[c].end < ClockMax \/ now + (Limit(c) + 1) * Unit > ClockMax]_vars

\* Every conversion that is submitted is answered, whatever libjxl produces,
\* or is lost with its process.
EveryConversionEnds ==
    \A c \in Conversions : phase[c] = "queued" ~> phase[c] = "answered"
=============================================================================
