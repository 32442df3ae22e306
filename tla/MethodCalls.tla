----------------------------- MODULE MethodCalls -----------------------------
(***************************************************************************)
(* From a call of the method channel to its one reply: argument checks,    *)
(* submission of one conversion or of a batch, and BatchCompletion, in the *)
(* Windows plugin (windows/jxl_coder_plugin.cpp) and in Apple's            *)
(* (JxlCoderPlugin.swift).                                                 *)
(*                                                                         *)
(* The scheduler in between is Admission, which AdmissionWindows and       *)
(* AdmissionApple are shown to implement.  Calls are handled one at a time *)
(* on the platform thread.  On Windows Submit is decided within the call   *)
(* and a reply is sent by the thread that has it; Apple's submit is        *)
(* decided later, and replies go through the main queue.  A single call is *)
(* a batch of one here, with a deadline that holds while it waits.         *)
(***************************************************************************)
EXTENDS Integers, FiniteSets, Sequences

CONSTANTS
    Calls,      \* the calls of the method channel
    Size,       \* Size[c]: the number of images that c asks for
    Single,     \* the calls that convert one image and have a deadline
    Rejected,   \* the calls whose arguments may be found invalid
    Limit,      \* the conversions that may be in progress at once
    Refusing,   \* calls of which a submission may be refused
    Throwing,   \* calls of which an operation may throw, on Windows
    Starved,    \* batches that may find no memory for an error message, on Windows
    GroupLimit, \* the largest group number; 2^64 - 1 in the code
    None        \* no call

ASSUME CallsAssumption ==
    /\ IsFiniteSet(Calls) /\ None \notin Calls
    /\ Size \in [Calls -> Nat]
    /\ Single \subseteq Calls /\ \A c \in Single : Size[c] = 1
    /\ Starved \cap Single = {}
    /\ GroupLimit \in Nat /\ GroupLimit > Cardinality(Calls)

VARIABLES
    platform,  \* "windows" or "apple", for good
    status,    \* Admission's, for each image
    passed,    \* Admission's, for each image
    handling,  \* the call in the hands of the platform thread
    group,     \* group[c]: its scheduling group, 0 before it has one
    nextGroup, \* next_group_, nextGroup
    submitted, \* submitted[c]: the number of images that submit was called for
    results,   \* results[c]: results_, errors; "none" when not finished
    told,      \* images whose failure callback was called
    outbox,    \* Apple's main queue: replies on their way
    replies    \* replies[c]: what Dart got

scheduler == <<status, passed>>
progress == <<handling, group, nextGroup, submitted>>
answering == <<results, told, outbox, replies>>
vars == <<platform, scheduler, progress, answering>>

Images == UNION {{c} \X (1 .. Size[c]) : c \in Calls}

Scheduler == INSTANCE Admission WITH Jobs <- Images

Windows == platform = "windows"

-----------------------------------------------------------------------------
(* Replies and completions.                                                 *)

ReplyNow(c, code) ==
    /\ replies' = [replies EXCEPT ![c] = Append(@, code)]
    /\ UNCHANGED outbox

\* SafeSuccess and SafeError; DispatchQueue.main.async.
Reply(c, code) ==
    IF Windows THEN ReplyNow(c, code)
    ELSE outbox' = Append(outbox, <<c, code>>) /\ UNCHANGED replies

\* Fault: the first failure completes a batch.
CompleteOrFailed(r) ==
    \/ \A i \in DOMAIN r : r[i] # "none"
    \/ \E i \in DOMAIN r : r[i] \notin {"none", "success"}

Complete(r) == \A i \in DOMAIN r : r[i] # "none"

Failures(r) == {i \in DOMAIN r : r[i] \notin {"none", "success"}}

\* Fault: the failure of the last image is reported.
LastFailure(r) == CHOOSE i \in Failures(r) : \A k \in Failures(r) : k <= i

FirstFailure(r) == CHOOSE i \in Failures(r) : \A k \in Failures(r) : i <= k

Verdict(r) == IF Failures(r) = {} THEN "success" ELSE r[FirstFailure(r)]

\* BatchCompletion, and CompleteSingle or the callbacks of a single call.  On
\* Windows the error is copied after replied_ was set: if that throws, the
\* failure callback comes back here, finds replied_ and does nothing.
Finish(j, code) ==
    LET c == j[1]
        r == [results[c] EXCEPT ![j[2]] = code]
    IN  /\ results' = [results EXCEPT ![c] = r]
        /\ \/ ~Complete(r) /\ UNCHANGED <<outbox, replies>>
           \/ Complete(r) /\ Reply(c, Verdict(r))
           \/ /\ Complete(r) /\ Verdict(r) # "success"
              /\ Windows /\ c \in Starved
              /\ UNCHANGED <<outbox, replies>>

-----------------------------------------------------------------------------
(* The platform thread.                                                     *)

\* Fault: the counter stays at its largest value.
SaturatedGroup == IF nextGroup = GroupLimit THEN nextGroup ELSE nextGroup + 1

\* MakeGroup leaves out 0.
NextGroup == IF nextGroup = GroupLimit THEN 1 ELSE nextGroup + 1

New(c) == handling = None /\ group[c] = 0 /\ replies[c] = <<>>

\* A call with invalid arguments, or a batch without images.
AnswerAtOnce(c) ==
    /\ New(c)
    /\ \/ c \in Rejected /\ ReplyNow(c, "INVALID_ARGUMENTS")
       \/ Size[c] = 0 /\ ReplyNow(c, "success")
    /\ UNCHANGED <<platform, scheduler, progress, results, told>>

Handle(c) ==
    /\ New(c)
    /\ Size[c] > 0
    /\ handling' = c
    /\ group' = [group EXCEPT ![c] = nextGroup]
    /\ nextGroup' = NextGroup
    /\ UNCHANGED <<platform, scheduler, submitted, answering>>

\* Fault: the first refusal ends the loop.
StopsAtRefusal(c, refused) == refused \/ submitted[c] + 1 = Size[c]

LoopEnds(c, refused) == submitted[c] + 1 = Size[c]

\* One turn of the loop over the images.  Apple's submit only sends a block.
SubmitImage(c) ==
    LET j == <<c, submitted[c] + 1>>
        refused == status'[j] = "refused"
    IN  /\ handling = c
        /\ \/ ~Windows /\ UNCHANGED <<scheduler, answering>>
           \/ /\ Windows
              /\ Scheduler!Becomes(j, "idle", "queued")
              /\ UNCHANGED answering
           \/ /\ Windows /\ c \in Refusing
              /\ Scheduler!Becomes(j, "idle", "refused")
              /\ Finish(j, "SCHEDULER_ERROR")
              /\ told' = told \cup {j}
        /\ submitted' = [submitted EXCEPT ![c] = @ + 1]
        /\ handling' = IF LoopEnds(c, refused) THEN None ELSE c
        /\ UNCHANGED <<platform, group, nextGroup>>

\* No memory for the submission, and none for the message about it: the
\* exception leaves the loop and the outer handler replies.
LoopThrows(c) ==
    /\ Windows /\ c \in Starved
    /\ handling = c
    /\ ReplyNow(c, "SCHEDULER_ERROR")
    /\ handling' = None
    /\ UNCHANGED <<platform, scheduler, group, nextGroup, submitted, results, told>>

\* The main queue, on the same thread as the calls.
Deliver ==
    /\ handling = None
    /\ outbox # <<>>
    /\ LET c == Head(outbox)[1]
       IN  replies' = [replies EXCEPT ![c] = Append(@, Head(outbox)[2])]
    /\ outbox' = Tail(outbox)
    /\ UNCHANGED <<platform, scheduler, progress, results, told>>

-----------------------------------------------------------------------------
(* The scheduler and its threads.                                           *)

\* Apple's block of submit.
Admit(j) ==
    /\ ~Windows
    /\ j[2] <= submitted[j[1]]
    /\ \/ Scheduler!Becomes(j, "idle", "queued")
       \/ j[1] \in Refusing /\ Scheduler!Becomes(j, "idle", "refused")
    /\ UNCHANGED <<platform, progress, answering>>

Start(j) == Scheduler!Start(j) /\ UNCHANGED <<platform, progress, answering>>

\* The conversion ends and finishes its entry, IO_ERROR standing for any error
\* of its own, or throws on Windows.
EndOperation(j) ==
    \/ /\ Scheduler!Becomes(j, "running", "done")
       /\ \E code \in {"success", "IO_ERROR"} : Finish(j, code)
       /\ UNCHANGED <<platform, progress, told>>
    \/ /\ Windows /\ j[1] \in Throwing
       /\ Scheduler!Becomes(j, "running", "failed")
       /\ UNCHANGED <<platform, progress, answering>>

Expire(j) == Scheduler!Expire(j) /\ UNCHANGED <<platform, progress, answering>>

DeadlinePasses(j) ==
    /\ j[1] \in Single /\ group[j[1]] # 0 /\ ~passed[j]
    /\ Scheduler!Pass(j)
    /\ UNCHANGED <<platform, progress, answering>>

\* on_expired, on_failure, onFailure.
Callback(j) ==
    /\ j \notin told
    /\ told' = told \cup {j}
    /\ \/ status[j] = "refused" /\ Finish(j, "SCHEDULER_ERROR")
       \/ status[j] = "failed" /\ Finish(j, "TRANSCODE_ERROR")
       \/ status[j] = "expired" /\ Finish(j, "TIMEOUT")
    /\ UNCHANGED <<platform, scheduler, progress>>

-----------------------------------------------------------------------------
\* The first group number, or one before which the process has run for long.
Init ==
    /\ platform \in {"windows", "apple"}
    /\ Scheduler!Init
    /\ handling = None
    /\ group = [c \in Calls |-> 0]
    /\ nextGroup \in {1, GroupLimit}
    /\ submitted = [c \in Calls |-> 0]
    /\ results = [c \in Calls |-> [i \in 1 .. Size[c] |-> "none"]]
    /\ told = {}
    /\ outbox = <<>>
    /\ replies = [c \in Calls |-> <<>>]

PlatformStep ==
    \/ \E c \in Calls : SubmitImage(c) \/ LoopThrows(c)
    \/ Deliver

ImageStep(j) == Admit(j) \/ Start(j) \/ EndOperation(j) \/ Callback(j)

Next ==
    \/ \E c \in Calls : AnswerAtOnce(c) \/ Handle(c)
    \/ PlatformStep
    \/ \E j \in Images : ImageStep(j) \/ Expire(j) \/ DeadlinePasses(j)

Spec == Init /\ [][Next]_vars

\* The threads run, operations return, and the scheduler starts what waits, as
\* the liveness properties of AdmissionWindows and AdmissionApple say.
FairSpec ==
    /\ Spec
    /\ WF_vars(PlatformStep)
    /\ \A j \in Images : WF_vars(ImageStep(j))

-----------------------------------------------------------------------------
(* What must hold.                                                          *)

Codes == {"success", "INVALID_ARGUMENTS", "SCHEDULER_ERROR", "TRANSCODE_ERROR",
          "IO_ERROR", "TIMEOUT"}

TypeOK ==
    /\ platform \in {"windows", "apple"}
    /\ status \in [Images -> {"idle", "refused", "queued", "running", "done",
                              "failed", "expired"}]
    /\ passed \in [Images -> BOOLEAN]
    /\ handling \in Calls \cup {None}
    /\ group \in [Calls -> 0..GroupLimit]
    /\ nextGroup \in 1..GroupLimit
    /\ submitted \in [Calls -> Nat]
    /\ DOMAIN results = Calls
    /\ \A c \in Calls : results[c] \in [1 .. Size[c] -> Codes \cup {"none"}]
    /\ told \subseteq Images
    /\ outbox \in Seq(Calls \X Codes)
    /\ replies \in [Calls -> Seq(Codes)]

\* The reply to a call, sent or on its way.
OnItsWay(c) == {k \in DOMAIN outbox : outbox[k][1] = c}

Answered(c) == replies[c] # <<>> \/ OnItsWay(c) # {}

Answer(c) == IF replies[c] # <<>> THEN replies[c][1]
             ELSE outbox[CHOOSE k \in OnItsWay(c) : TRUE][2]

\* No call is answered twice, whatever expires, throws or is refused, and
\* whoever of the operation and its callbacks comes first.
OneReply ==
    \A c \in Calls : Len(replies[c]) + Cardinality(OnItsWay(c)) <= 1

\* What became of an image: it is over, and with which result.
Ended(j) == \/ status[j] = "done"
            \/ status[j] \in {"refused", "failed", "expired"} /\ j \in told

\* A batch is answered only after all of its images have ended (unless memory
\* lacks for the answer itself), and the answer is the failure of the first
\* image, in the order of the input, that failed: success only if none did.
ReplyIsVerdict ==
    \A c \in Calls \ Starved :
        group[c] # 0 /\ Answered(c) =>
            /\ \A i \in 1 .. Size[c] : Ended(<<c, i>>)
            /\ \/ /\ Answer(c) = "success"
                  /\ \A i \in 1 .. Size[c] : results[c][i] = "success"
               \/ \E i \in 1 .. Size[c] :
                     /\ Answer(c) = results[c][i] /\ results[c][i] # "success"
                     /\ \A k \in 1 .. i - 1 : results[c][k] = "success"

\* Calls in progress have groups of their own, which are not 0: the rotations
\* of both schedulers tell them apart.
Unanswered(c) == group[c] # 0 /\ ~Answered(c)

GroupsDistinct ==
    \A c, d \in Calls :
        /\ Unanswered(c) /\ Unanswered(d) /\ group[c] = group[d] => c = d
        /\ (\E i \in 1 .. Size[c] : status[<<c, i>>] # "idle") => group[c] # 0

\* Every call that is handled is answered, if memory does not lack for it.
EveryCallIsAnswered ==
    \A c \in Calls \ Starved : handling = c ~> replies[c] # <<>>

\* Every batch is answered.
EveryBatchIsAnswered ==
    \A c \in Calls \ Single : handling = c ~> replies[c] # <<>>
=============================================================================
