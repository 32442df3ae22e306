-------------------------- MODULE MethodCallsProofs --------------------------
(***************************************************************************)
(* Proofs about method calls and batches on both platforms, for any calls, *)
(* sizes and limits: one reply to each call, which is the verdict on all   *)
(* of its images, groups of their own for the calls in progress, and that  *)
(* the scheduler in between is used as Admission promises.                 *)
(***************************************************************************)
EXTENDS MethodCalls, QueueLemmas

\* How far the platform thread is with a call.
ProgressOf(c) ==
    /\ submitted[c] <= Size[c]
    /\ handling = c => submitted[c] < Size[c]
    /\ group[c] = 0 => submitted[c] = 0 /\ handling # c
    /\ \A i \in 1 .. Size[c] : i > submitted[c] => status[<<c, i>>] = "idle"

ProgressInv == \A c \in Calls : ProgressOf(c)

\* An image has a result exactly when it is over.
ImageInv ==
    \A c \in Calls : \A i \in 1 .. Size[c] :
        /\ results[c][i] # "none" <=> Ended(<<c, i>>)
        /\ <<c, i>> \in told => status[<<c, i>>] \in {"refused", "failed", "expired"}

Waiting(c, code) == InQueue(outbox, <<c, code>>)

Sent(c, code) == replies[c] = <<code>> \/ Waiting(c, code)

\* A reply that waits is the only one to a call that was handled.
OutboxInv ==
    /\ Distinct(outbox)
    /\ \A c \in Calls, x, y \in Codes : Waiting(c, x) /\ Waiting(c, y) => x = y
    /\ \A c \in Calls, x \in Codes : Waiting(c, x) => group[c] # 0 /\ replies[c] = <<>>
    /\ \A c \in Calls : replies[c] = <<>> \/ \E x \in Codes : replies[c] = <<x>>

\* The call left the loop before its end, so that it never completes.
Abandoned(c) ==
    c \in Starved /\ group[c] # 0 /\ handling # c /\ submitted[c] < Size[c]

AnswerInv ==
    \A c \in Calls, code \in Codes :
        group[c] # 0 /\ Sent(c, code) =>
            \/ Complete(results[c]) /\ code = Verdict(results[c])
            \/ Abandoned(c)

GroupsInv == RecentNumbers(Calls, group, nextGroup, GroupLimit)

CallsInv == TypeOK /\ ProgressInv /\ ImageInv /\ OutboxInv /\ AnswerInv /\ GroupsInv

-----------------------------------------------------------------------------
(* Images, results and verdicts.                                            *)

LEMMA CallConstants ==
    /\ IsFiniteSet(Calls) /\ None \notin Calls
    /\ GroupLimit \in Nat \ {0} /\ Cardinality(Calls) < GroupLimit
    /\ \A c \in Calls : Size[c] \in Nat
  BY CallsAssumption, FS_CardinalityType

LEMMA ImageParts ==
    /\ \A c \in Calls : \A i \in 1 .. Size[c] : <<c, i>> \in Images
    /\ \A j \in Images : \E c \in Calls : \E i \in 1 .. Size[c] : j = <<c, i>>
  BY DEF Images

Statuses == {"idle", "refused", "queued", "running", "done", "failed", "expired"}

Results(c) == [1 .. Size[c] -> Codes \cup {"none"}]

LEMMA StatusMoves ==
    ASSUME TypeOK, NEW c \in Calls, NEW i \in 1 .. Size[c], NEW from, NEW to \in Statuses,
           Scheduler!Becomes(<<c, i>>, from, to)
    PROVE  /\ status' \in [Images -> Statuses] /\ passed' = passed
           /\ status[<<c, i>>] = from /\ status'[<<c, i>>] = to
           /\ \A d \in Calls : \A k \in 1 .. Size[d] :
                 d # c \/ k # i => status'[<<d, k>>] = status[<<d, k>>]
<1>1. status \in [Images -> Statuses] /\ <<c, i>> \in Images
  BY ImageParts DEF TypeOK, Statuses
<1>2. /\ status[<<c, i>>] = from /\ passed' = passed
      /\ status' = [status EXCEPT ![<<c, i>>] = to]
  BY DEF Scheduler!Becomes
<1>3. ASSUME NEW d \in Calls, NEW k \in 1 .. Size[d], d # c \/ k # i
      PROVE  status'[<<d, k>>] = status[<<d, k>>]
  <2>1. <<d, k>> \in Images /\ <<d, k>> # <<c, i>>
    BY <1>3, ImageParts
  <2>2. QED
    BY <1>1, <1>2, <2>1
<1>4. QED
  BY <1>1, <1>2, <1>3

\* The first failure exists, and is a code.
LEMMA FirstFailureIsFirst ==
    ASSUME NEW n \in Nat, NEW r \in [1 .. n -> Codes \cup {"none"}], Failures(r) # {}
    PROVE  /\ FirstFailure(r) \in 1 .. n
           /\ r[FirstFailure(r)] \in Codes \ {"success"}
           /\ \A k \in Failures(r) : FirstFailure(r) <= k
<1>1. Failures(r) \in SUBSET Nat /\ \A i \in Failures(r) : i \in 1 .. n
  BY DEF Failures
<1>2. \E i \in Failures(r) : \A k \in Failures(r) : i <= k
  BY <1>1, SmallestNumber
<1>3. FirstFailure(r) \in Failures(r) /\ \A k \in Failures(r) : FirstFailure(r) <= k
  BY <1>2 DEF FirstFailure
<1>4. QED
  BY <1>1, <1>3 DEF Failures

LEMMA VerdictTyped ==
    ASSUME NEW n \in Nat, NEW r \in [1 .. n -> Codes \cup {"none"}]
    PROVE  Verdict(r) \in Codes
<1>1. CASE Failures(r) = {}
  BY <1>1 DEF Verdict, Codes
<1>2. CASE Failures(r) # {}
  BY <1>2, FirstFailureIsFirst DEF Verdict
<1>3. QED
  BY <1>1, <1>2

\* An image that was not submitted has no result: its call cannot complete.
LEMMA UnsubmittedImage ==
    ASSUME TypeOK, ProgressInv, ImageInv, NEW c \in Calls, submitted[c] < Size[c]
    PROVE  /\ submitted[c] + 1 \in 1 .. Size[c]
           /\ status[<<c, submitted[c] + 1>>] = "idle"
           /\ results[c][submitted[c] + 1] = "none"
           /\ ~Complete(results[c])
<1>1. submitted[c] \in Nat /\ Size[c] \in Nat
  BY CallConstants DEF TypeOK
<1>2. PICK i : i = submitted[c] + 1
  OBVIOUS
<1>3. i \in 1 .. Size[c] /\ i > submitted[c]
  BY <1>1, <1>2
<1>4. status[<<c, i>>] = "idle"
  BY <1>3 DEF ProgressInv, ProgressOf
<1>5. results[c][i] = "none"
  BY <1>3, <1>4 DEF ImageInv, Ended
<1>6. ~Complete(results[c])
  BY <1>3, <1>5 DEF Complete, TypeOK
<1>7. QED
  BY <1>2, <1>3, <1>4, <1>5, <1>6

-----------------------------------------------------------------------------
(* Replies.                                                                 *)

LEMMA NothingSent ==
    ASSUME OutboxInv, NEW c \in Calls, \A x \in Codes : ~Sent(c, x)
    PROVE  replies[c] = <<>> /\ \A x \in Codes : ~Waiting(c, x)
  BY DEF OutboxInv, Sent

LEMMA OneReplyAppended ==
    ASSUME NEW S, NEW a \in S
    PROVE  Append(<<>>, a) = <<a>>
  OBVIOUS

\* SafeSuccess, SafeError, and the block of the main queue: the call has an
\* answer that it did not have.
LEMMA ReplySent ==
    ASSUME TypeOK, OutboxInv, UNCHANGED group, NEW c \in Calls, NEW code \in Codes,
           \A x \in Codes : ~Sent(c, x),
           ReplyNow(c, code) \/ (group[c] # 0 /\ Reply(c, code))
    PROVE  /\ outbox' \in Seq(Calls \X Codes) /\ replies' \in [Calls -> Seq(Codes)]
           /\ OutboxInv'
           /\ \A d \in Calls, x \in Codes :
                 Sent(d, x)' <=> Sent(d, x) \/ (d = c /\ x = code)
<1>1. replies[c] = <<>> /\ \A x \in Codes : ~Waiting(c, x)
  BY NothingSent
<1>2. CASE ReplyNow(c, code)
  <2>1. outbox' = outbox /\ replies' = [replies EXCEPT ![c] = <<code>>]
    BY <1>1, <1>2, OneReplyAppended DEF ReplyNow, TypeOK
  <2>2. /\ replies'[c] = <<code>>
        /\ \A d \in Calls \ {c} : replies'[d] = replies[d]
        /\ replies' \in [Calls -> Seq(Codes)]
    BY <2>1 DEF TypeOK
  <2>3. \A d \in Calls, x \in Codes : Waiting(d, x)' <=> Waiting(d, x)
    BY <2>1 DEF Waiting
  <2>4. OutboxInv'
    <3>1. Distinct(outbox')
      BY <2>1 DEF OutboxInv
    <3>2. \A d \in Calls : replies'[d] = <<>> \/ \E x \in Codes : replies'[d] = <<x>>
      BY <2>2 DEF OutboxInv
    <3>3. \A d \in Calls, x \in Codes :
             Waiting(d, x)' => group'[d] # 0 /\ replies'[d] = <<>>
      BY <1>1, <2>2, <2>3 DEF OutboxInv
    <3>4. \A d \in Calls, x, y \in Codes : Waiting(d, x)' /\ Waiting(d, y)' => x = y
      BY <2>3 DEF OutboxInv
    <3>5. QED
      BY <3>1, <3>2, <3>3, <3>4 DEF OutboxInv
  <2>5. ASSUME NEW d \in Calls, NEW x \in Codes
        PROVE  Sent(d, x)' <=> Sent(d, x) \/ (d = c /\ x = code)
    <3>1. <<x>> = <<code>> <=> x = code
      OBVIOUS
    <3>2. <<x>> # <<>>
      OBVIOUS
    <3>3. QED
      BY <1>1, <2>2, <2>3, <3>1, <3>2 DEF Sent
  <2>6. QED
    BY <2>1, <2>2, <2>4, <2>5 DEF TypeOK
<1>3. CASE ~ReplyNow(c, code)
  <2>1. PICK e \in Calls \X Codes : e = <<c, code>>
    OBVIOUS
  <2>2. outbox' = Append(outbox, e) /\ replies' = replies /\ group[c] # 0
    BY <1>3, <2>1 DEF Reply
  <2>3. outbox \in Seq(Calls \X Codes) /\ ~InQueue(outbox, e)
    BY <1>1, <2>1 DEF TypeOK, Waiting
  <2>4. /\ outbox' \in Seq(Calls \X Codes) /\ Distinct(outbox')
        /\ \A x : InQueue(outbox', x) <=> InQueue(outbox, x) \/ x = e
    BY <2>2, <2>3, AppendQueue DEF OutboxInv
  <2>5. \A d \in Calls, x \in Codes : Waiting(d, x)' <=> Waiting(d, x) \/ (d = c /\ x = code)
    BY <2>1, <2>4 DEF Waiting
  <2>6. OutboxInv'
    <3>1. \A d \in Calls : replies'[d] = <<>> \/ \E x \in Codes : replies'[d] = <<x>>
      BY <2>2 DEF OutboxInv
    <3>2. \A d \in Calls, x \in Codes :
             Waiting(d, x)' => group'[d] # 0 /\ replies'[d] = <<>>
      BY <1>1, <2>2, <2>5 DEF OutboxInv
    <3>3. \A d \in Calls, x, y \in Codes : Waiting(d, x)' /\ Waiting(d, y)' => x = y
      BY <1>1, <2>5 DEF OutboxInv
    <3>4. QED
      BY <2>4, <3>1, <3>2, <3>3 DEF OutboxInv
  <2>7. QED
    BY <2>2, <2>4, <2>5, <2>6 DEF Sent, TypeOK
<1>4. QED
  BY <1>2, <1>3

\* A step that sends nothing.
LEMMA OutboxKept ==
    ASSUME OutboxInv, UNCHANGED <<outbox, replies>>,
           \A c \in Calls : group[c] # 0 => group'[c] # 0
    PROVE  /\ OutboxInv'
           /\ \A c \in Calls, x \in Codes : Sent(c, x)' <=> Sent(c, x)
<1>1. \A c \in Calls, x \in Codes : Waiting(c, x)' <=> Waiting(c, x)
  BY DEF Waiting
<1>2. \A c \in Calls, x \in Codes : Sent(c, x)' <=> Sent(c, x)
  BY <1>1 DEF Sent
<1>3. OutboxInv'
  <2>1. Distinct(outbox') /\ replies' = replies
    BY DEF OutboxInv
  <2>2. \A c \in Calls : replies'[c] = <<>> \/ \E x \in Codes : replies'[c] = <<x>>
    BY <2>1 DEF OutboxInv
  <2>3. \A c \in Calls, x \in Codes :
           Waiting(c, x)' => group'[c] # 0 /\ replies'[c] = <<>>
    BY <1>1, <2>1 DEF OutboxInv
  <2>4. \A c \in Calls, x, y \in Codes : Waiting(c, x)' /\ Waiting(c, y)' => x = y
    BY <1>1 DEF OutboxInv
  <2>5. QED
    BY <2>1, <2>2, <2>3, <2>4 DEF OutboxInv
<1>4. QED
  BY <1>2, <1>3

\* The main queue hands the first reply to Dart.
LEMMA DeliverReplies ==
    ASSUME TypeOK, OutboxInv, Deliver
    PROVE  /\ outbox' \in Seq(Calls \X Codes) /\ replies' \in [Calls -> Seq(Codes)]
           /\ OutboxInv'
           /\ \A c \in Calls, x \in Codes : Sent(c, x)' <=> Sent(c, x)
<1>1. PICK e : e = Head(outbox)
  OBVIOUS
<1>2. outbox # <<>> /\ outbox \in Seq(Calls \X Codes) /\ Distinct(outbox)
  BY DEF Deliver, TypeOK, OutboxInv
<1>3. /\ e \in Calls \X Codes /\ InQueue(outbox, e)
      /\ Tail(outbox) \in Seq(Calls \X Codes) /\ Distinct(Tail(outbox))
      /\ \A x : InQueue(Tail(outbox), x) <=> InQueue(outbox, x) /\ x # e
  BY <1>1, <1>2, TailQueue
<1>4. PICK c \in Calls, code \in Codes : e = <<c, code>>
  BY <1>3
<1>5. Waiting(c, code) /\ replies[c] = <<>> /\ group[c] # 0
  BY <1>3, <1>4 DEF Waiting, OutboxInv
<1>6. /\ outbox' = Tail(outbox) /\ group' = group
      /\ replies' = [replies EXCEPT ![c] = <<code>>]
  <2>1. Head(outbox)[1] = c /\ Head(outbox)[2] = code
    BY <1>1, <1>4
  <2>2. /\ outbox' = Tail(outbox) /\ group' = group
        /\ replies' = [replies EXCEPT ![c] = Append(replies[c], code)]
    BY <2>1 DEF Deliver, progress
  <2>3. Append(replies[c], code) = <<code>>
    BY <1>5, OneReplyAppended
  <2>4. QED
    BY <2>2, <2>3
<1>7. /\ replies'[c] = <<code>> /\ replies' \in [Calls -> Seq(Codes)]
      /\ \A d \in Calls \ {c} : replies'[d] = replies[d]
  BY <1>6 DEF TypeOK
<1>8. \A d \in Calls, x \in Codes : Waiting(d, x)' <=> Waiting(d, x) /\ d # c
  <2>1. SUFFICES ASSUME NEW d \in Calls, NEW x \in Codes
                 PROVE  Waiting(d, x)' <=> Waiting(d, x) /\ d # c
    OBVIOUS
  <2>2. Waiting(d, x)' <=> Waiting(d, x) /\ <<d, x>> # <<c, code>>
    BY <1>3, <1>4, <1>6 DEF Waiting
  <2>3. Waiting(c, x) => x = code
    BY <1>5 DEF OutboxInv
  <2>4. QED
    BY <2>2, <2>3
<1>9. OutboxInv'
  <2>1. Distinct(outbox')
    BY <1>3, <1>6
  <2>2. \A d \in Calls : replies'[d] = <<>> \/ \E x \in Codes : replies'[d] = <<x>>
    BY <1>7 DEF OutboxInv
  <2>3. \A d \in Calls, x \in Codes :
           Waiting(d, x)' => group'[d] # 0 /\ replies'[d] = <<>>
    BY <1>6, <1>7, <1>8 DEF OutboxInv
  <2>4. \A d \in Calls, x, y \in Codes : Waiting(d, x)' /\ Waiting(d, y)' => x = y
    BY <1>8 DEF OutboxInv
  <2>5. QED
    BY <2>1, <2>2, <2>3, <2>4 DEF OutboxInv
<1>10. ASSUME NEW d \in Calls, NEW x \in Codes
       PROVE  Sent(d, x)' <=> Sent(d, x)
  <2>1. CASE d # c
    BY <1>7, <1>8, <2>1 DEF Sent
  <2>2. CASE d = c
    <3>1. Sent(c, x)' <=> x = code
      BY <1>7, <1>8 DEF Sent
    <3>2. Sent(c, x) <=> x = code
      <4>1. replies[c] # <<x>>
        BY <1>5
      <4>2. QED
        BY <1>5, <4>1 DEF Sent, OutboxInv
    <3>3. QED
      BY <2>2, <3>1, <3>2
  <2>3. QED
    BY <2>1, <2>2
<1>11. QED
  BY <1>3, <1>6, <1>7, <1>9, <1>10

-----------------------------------------------------------------------------
(* What a finished image does to its call.                                  *)

\* A call with an answer has all of its results, unless it was abandoned.
LEMMA NotYetSent ==
    ASSUME TypeOK, AnswerInv, NEW c \in Calls, NEW i \in 1 .. Size[c],
           group[c] # 0, results[c][i] = "none", ~Abandoned(c)
    PROVE  \A x \in Codes : ~Sent(c, x)
<1>1. ~Complete(results[c])
  BY DEF Complete, TypeOK
<1>2. QED
  BY <1>1 DEF AnswerInv

\* An abandoned call has images that were never submitted.
LEMMA AbandonedNeverComplete ==
    ASSUME TypeOK, ProgressInv, ImageInv, NEW c \in Calls, Abandoned(c)
    PROVE  \E k \in 1 .. Size[c] : results[c][k] = "none" /\ status[<<c, k>>] = "idle"
  BY UnsubmittedImage DEF Abandoned

\* Finish: the result is kept, and a batch that is complete with it answers.
LEMMA FinishEffect ==
    ASSUME TypeOK, OutboxInv, AnswerInv, NEW c \in Calls, NEW i \in 1 .. Size[c],
           NEW code \in Codes, results[c][i] = "none", group[c] # 0, UNCHANGED group,
           \A d \in Calls : Abandoned(d) => Abandoned(d)',
           Abandoned(c) => \E k \in 1 .. Size[c] : k # i /\ results[c][k] = "none",
           Finish(<<c, i>>, code)
    PROVE  /\ outbox' \in Seq(Calls \X Codes) /\ replies' \in [Calls -> Seq(Codes)]
           /\ DOMAIN results' = Calls
           /\ \A d \in Calls : results'[d] \in Results(d)
           /\ results'[c][i] = code
           /\ \A d \in Calls : \A k \in 1 .. Size[d] :
                 d # c \/ k # i => results'[d][k] = results[d][k]
           /\ OutboxInv' /\ AnswerInv'
<1>1. PICK r : r = [results[c] EXCEPT ![i] = code]
  OBVIOUS
<1>2. /\ results' = [results EXCEPT ![c] = r]
      /\ \/ UNCHANGED <<outbox, replies>>
         \/ Complete(r) /\ Reply(c, Verdict(r))
  BY <1>1 DEF Finish
<1>3. /\ DOMAIN results = Calls /\ results[c] \in Results(c)
      /\ \A d \in Calls : results[d] \in Results(d)
  BY DEF TypeOK, Results
<1>4. /\ r \in Results(c) /\ r[i] = code
      /\ \A k \in 1 .. Size[c] : k # i => r[k] = results[c][k]
  BY <1>1, <1>3 DEF Results
<1>5. /\ DOMAIN results' = Calls /\ results'[c] = r
      /\ \A d \in Calls : d # c => results'[d] = results[d]
  BY <1>2, <1>3
<1>6. /\ \A d \in Calls : results'[d] \in Results(d)
      /\ results'[c][i] = code
      /\ \A d \in Calls : \A k \in 1 .. Size[d] :
            d # c \/ k # i => results'[d][k] = results[d][k]
  BY <1>3, <1>4, <1>5
<1>7. CASE UNCHANGED <<outbox, replies>>
  <2>1. OutboxInv' /\ \A d \in Calls, x \in Codes : Sent(d, x)' <=> Sent(d, x)
    BY <1>7, OutboxKept
  <2>2. outbox' \in Seq(Calls \X Codes) /\ replies' \in [Calls -> Seq(Codes)]
    BY <1>7 DEF TypeOK
  <2>3. ASSUME NEW d \in Calls, NEW x \in Codes, group'[d] # 0, Sent(d, x)'
        PROVE  \/ Complete(results'[d]) /\ x = Verdict(results'[d])
               \/ Abandoned(d)'
    <3>1. group[d] # 0 /\ Sent(d, x)
      BY <2>1, <2>3
    <3>2. CASE d # c
      BY <1>5, <3>1, <3>2 DEF AnswerInv
    <3>3. CASE d = c
      BY <3>1, <3>3, NotYetSent
    <3>4. QED
      BY <3>2, <3>3
  <2>4. AnswerInv'
    BY <2>3 DEF AnswerInv
  <2>5. QED
    BY <1>5, <1>6, <2>1, <2>2, <2>4
<1>8. CASE Complete(r) /\ Reply(c, Verdict(r))
  <2>1. ~Abandoned(c)
    <3>1. \A k \in 1 .. Size[c] : r[k] # "none"
      BY <1>4, <1>8 DEF Complete, Results
    <3>2. QED
      BY <1>4, <3>1
  <2>2. \A x \in Codes : ~Sent(c, x)
    BY <2>1, NotYetSent
  <2>3. PICK v : v = Verdict(r)
    OBVIOUS
  <2>4. v \in Codes /\ Reply(c, v)
    BY <1>4, <1>8, <2>3, VerdictTyped, CallConstants DEF Results
  <2>5. /\ outbox' \in Seq(Calls \X Codes) /\ replies' \in [Calls -> Seq(Codes)]
        /\ OutboxInv'
        /\ \A d \in Calls, x \in Codes :
              Sent(d, x)' <=> Sent(d, x) \/ (d = c /\ x = v)
    BY <2>2, <2>4, ReplySent
  <2>6. ASSUME NEW d \in Calls, NEW x \in Codes, group'[d] # 0, Sent(d, x)'
        PROVE  \/ Complete(results'[d]) /\ x = Verdict(results'[d])
               \/ Abandoned(d)'
    <3>1. CASE d # c
      <4>1. group[d] # 0 /\ Sent(d, x)
        BY <2>5, <2>6, <3>1
      <4>2. QED
        BY <1>5, <3>1, <4>1 DEF AnswerInv
    <3>2. CASE d = c
      <4>1. x = v
        BY <2>2, <2>5, <2>6, <3>2
      <4>2. QED
        BY <1>5, <1>8, <2>3, <3>2, <4>1
    <3>3. QED
      BY <3>1, <3>2
  <2>7. AnswerInv'
    BY <2>6 DEF AnswerInv
  <2>8. QED
    BY <1>5, <1>6, <2>5, <2>7
<1>9. QED
  BY <1>2, <1>7, <1>8

\* A step that answers nothing and finishes nothing.
LEMMA AnswersKept ==
    ASSUME OutboxInv, AnswerInv, UNCHANGED <<outbox, replies, results>>,
           \A c \in Calls : group[c] # 0 => group'[c] # 0,
           \A c \in Calls : group[c] = 0 /\ group'[c] # 0 =>
                               \A x \in Codes : ~Sent(c, x),
           \A c \in Calls : Abandoned(c) => Abandoned(c)'
    PROVE  OutboxInv' /\ AnswerInv'
<1>1. OutboxInv' /\ \A c \in Calls, x \in Codes : Sent(c, x)' <=> Sent(c, x)
  BY OutboxKept
<1>2. ASSUME NEW c \in Calls, NEW x \in Codes, group'[c] # 0, Sent(c, x)'
      PROVE  \/ Complete(results'[c]) /\ x = Verdict(results'[c])
             \/ Abandoned(c)'
  <2>1. Sent(c, x) /\ group[c] # 0
    BY <1>1, <1>2
  <2>2. results' = results
    OBVIOUS
  <2>3. QED
    BY <2>1, <2>2 DEF AnswerInv
<1>3. AnswerInv'
  BY <1>2 DEF AnswerInv
<1>4. QED
  BY <1>1, <1>3

LEMMA AbandonedKept ==
    ASSUME UNCHANGED progress
    PROVE  \A c \in Calls : Abandoned(c) => Abandoned(c)'
  BY DEF Abandoned, progress

LEMMA GroupsKept ==
    ASSUME GroupsInv, UNCHANGED <<group, nextGroup>>
    PROVE  GroupsInv'
  BY DEF GroupsInv

-----------------------------------------------------------------------------
(* The steps of the scheduler and of its threads.                           *)

LEMMA ProgressKept ==
    ASSUME TypeOK, ProgressInv, UNCHANGED progress, NEW c \in Calls, NEW i \in 1 .. Size[c],
           status[<<c, i>>] = "idle" => i <= submitted[c],
           \A d \in Calls : \A k \in 1 .. Size[d] :
              d # c \/ k # i => status'[<<d, k>>] = status[<<d, k>>]
    PROVE  ProgressInv'
<1>1. UNCHANGED <<submitted, handling, group>> /\ submitted[c] \in Nat
  BY DEF progress, TypeOK
<1>2. i <= submitted[c]
  BY <1>1 DEF ProgressInv, ProgressOf
<1>3. ASSUME NEW d \in Calls
      PROVE  ProgressOf(d)'
  <2>1. ProgressOf(d)
    BY DEF ProgressInv
  <2>2. ASSUME NEW k \in 1 .. Size[d], k > submitted[d]
        PROVE  status'[<<d, k>>] = "idle"
    <3>1. d # c \/ k # i
      BY <1>1, <1>2, <2>2
    <3>2. QED
      BY <2>1, <2>2, <3>1 DEF ProgressOf
  <2>3. QED
    BY <1>1, <2>1, <2>2 DEF ProgressOf
<1>4. QED
  BY <1>3 DEF ProgressInv

\* A result of an image that was not over before.
LEMMA SubmittedHasGroup ==
    ASSUME TypeOK, ProgressInv, NEW c \in Calls, NEW i \in 1 .. Size[c],
           i <= submitted[c] \/ status[<<c, i>>] # "idle"
    PROVE  group[c] # 0
<1>1. submitted[c] \in Nat
  BY DEF TypeOK
<1>2. QED
  BY <1>1 DEF ProgressInv, ProgressOf

\* An image moves on and is not over yet.
LEMMA ImageMoves ==
    ASSUME ImageInv, NEW c \in Calls, NEW i \in 1 .. Size[c],
           status[<<c, i>>] \in {"idle", "queued", "running"},
           status'[<<c, i>>] \in {"refused", "queued", "running", "failed", "expired"},
           \A d \in Calls : \A k \in 1 .. Size[d] :
              d # c \/ k # i => status'[<<d, k>>] = status[<<d, k>>],
           UNCHANGED <<results, told>>
    PROVE  ImageInv'
<1>1. ASSUME NEW d \in Calls, NEW k \in 1 .. Size[d]
      PROVE  /\ results'[d][k] # "none" <=> Ended(<<d, k>>)'
             /\ <<d, k>> \in told' => status'[<<d, k>>] \in {"refused", "failed", "expired"}
  <2>1. /\ results[d][k] # "none" <=> Ended(<<d, k>>)
        /\ <<d, k>> \in told => status[<<d, k>>] \in {"refused", "failed", "expired"}
    BY DEF ImageInv
  <2>2. CASE d # c \/ k # i
    BY <2>1, <2>2 DEF Ended
  <2>3. CASE d = c /\ k = i
    <3>1. <<c, i>> \notin told /\ ~Ended(<<c, i>>)
      BY <2>1, <2>3 DEF Ended
    <3>2. ~Ended(<<c, i>>)'
      BY <3>1 DEF Ended
    <3>3. QED
      BY <2>1, <2>3, <3>1, <3>2
  <2>4. QED
    BY <2>2, <2>3
<1>2. QED
  BY <1>1 DEF ImageInv

\* An image is over, and has its result.
LEMMA ImageFinishes ==
    ASSUME ImageInv, NEW c \in Calls, NEW i \in 1 .. Size[c],
           results'[c][i] # "none", Ended(<<c, i>>)',
           <<c, i>> \in told' => status'[<<c, i>>] \in {"refused", "failed", "expired"},
           \A d \in Calls : \A k \in 1 .. Size[d] : d # c \/ k # i =>
              /\ results'[d][k] = results[d][k]
              /\ status'[<<d, k>>] = status[<<d, k>>]
              /\ <<d, k>> \in told' <=> <<d, k>> \in told
    PROVE  ImageInv'
<1>1. ASSUME NEW d \in Calls, NEW k \in 1 .. Size[d]
      PROVE  /\ results'[d][k] # "none" <=> Ended(<<d, k>>)'
             /\ <<d, k>> \in told' => status'[<<d, k>>] \in {"refused", "failed", "expired"}
  <2>1. CASE d # c \/ k # i
    <3>1. /\ results[d][k] # "none" <=> Ended(<<d, k>>)
          /\ <<d, k>> \in told => status[<<d, k>>] \in {"refused", "failed", "expired"}
      BY DEF ImageInv
    <3>2. /\ results'[d][k] = results[d][k]
          /\ status'[<<d, k>>] = status[<<d, k>>]
          /\ <<d, k>> \in told' <=> <<d, k>> \in told
      BY <2>1
    <3>3. Ended(<<d, k>>)' <=> Ended(<<d, k>>)
      BY <3>2 DEF Ended
    <3>4. QED
      BY <3>1, <3>2, <3>3
  <2>2. CASE d = c /\ k = i
    <3>1. Ended(<<d, k>>)'
      BY <2>2 DEF Ended
    <3>2. QED
      BY <2>2, <3>1
  <2>3. QED
    BY <2>1, <2>2
<1>2. QED
  BY <1>1 DEF ImageInv

\* The scheduler moves an image on, and nobody was told.
LEMMA MoveStep ==
    ASSUME CallsInv, NEW c \in Calls, NEW i \in 1 .. Size[c],
           NEW from \in {"idle", "queued", "running"},
           NEW to \in {"refused", "queued", "running", "failed", "expired"},
           Scheduler!Becomes(<<c, i>>, from, to), from = "idle" => i <= submitted[c],
           UNCHANGED <<platform, progress, answering>>
    PROVE  CallsInv'
<1>1. TypeOK /\ ProgressInv /\ ImageInv /\ OutboxInv /\ AnswerInv /\ GroupsInv
  BY DEF CallsInv
<1>2. /\ status' \in [Images -> Statuses] /\ passed' = passed
      /\ status[<<c, i>>] = from /\ status'[<<c, i>>] = to
      /\ \A d \in Calls : \A k \in 1 .. Size[d] :
            d # c \/ k # i => status'[<<d, k>>] = status[<<d, k>>]
  <2>1. to \in Statuses
    BY DEF Statuses
  <2>2. QED
    BY <1>1, <2>1, StatusMoves
<1>3. UNCHANGED <<handling, group, nextGroup, submitted, results, told, outbox, replies>>
  BY DEF progress, answering
<1>4. TypeOK'
  BY <1>1, <1>2, <1>3 DEF TypeOK, Statuses, Results
<1>5. ProgressInv'
  BY <1>1, <1>2, ProgressKept
<1>6. ImageInv'
  BY <1>1, <1>2, <1>3, ImageMoves
<1>7. OutboxInv' /\ AnswerInv'
  BY <1>1, <1>3, AbandonedKept, AnswersKept
<1>8. GroupsInv'
  BY <1>1, <1>3, GroupsKept
<1>9. QED
  BY <1>4, <1>5, <1>6, <1>7, <1>8 DEF CallsInv

\* An image gets its result: from its operation, or from a callback.
LEMMA FinishStep ==
    ASSUME CallsInv, NEW c \in Calls, NEW i \in 1 .. Size[c], NEW code \in Codes,
           results[c][i] = "none", status[<<c, i>>] # "idle", Finish(<<c, i>>, code),
           Ended(<<c, i>>)', status' \in [Images -> Statuses],
           \A d \in Calls : \A k \in 1 .. Size[d] : d # c \/ k # i =>
              /\ status'[<<d, k>>] = status[<<d, k>>]
              /\ <<d, k>> \in told' <=> <<d, k>> \in told,
           <<c, i>> \in told' => status'[<<c, i>>] \in {"refused", "failed", "expired"},
           told' \subseteq Images, UNCHANGED <<platform, passed, progress>>
    PROVE  CallsInv'
<1>1. TypeOK /\ ProgressInv /\ ImageInv /\ OutboxInv /\ AnswerInv /\ GroupsInv
  BY DEF CallsInv
<1>2. UNCHANGED <<handling, group, nextGroup, submitted>> /\ group[c] # 0
  BY <1>1, SubmittedHasGroup DEF progress
<1>3. code # "none"
  BY DEF Codes
<1>4. Abandoned(c) => \E k \in 1 .. Size[c] : k # i /\ results[c][k] = "none"
  BY <1>1, AbandonedNeverComplete
<1>5. /\ outbox' \in Seq(Calls \X Codes) /\ replies' \in [Calls -> Seq(Codes)]
      /\ DOMAIN results' = Calls
      /\ \A d \in Calls : results'[d] \in Results(d)
      /\ results'[c][i] = code
      /\ \A d \in Calls : \A k \in 1 .. Size[d] :
            d # c \/ k # i => results'[d][k] = results[d][k]
      /\ OutboxInv' /\ AnswerInv'
  BY <1>1, <1>2, <1>4, AbandonedKept, FinishEffect
<1>6. TypeOK'
  BY <1>1, <1>2, <1>5 DEF TypeOK, Statuses, Results
<1>7. ProgressInv'
  BY <1>1, ProgressKept
<1>8. ImageInv'
  <2>1. results'[c][i] # "none"
    BY <1>3, <1>5
  <2>2. \A d \in Calls : \A k \in 1 .. Size[d] : d # c \/ k # i =>
           /\ results'[d][k] = results[d][k]
           /\ status'[<<d, k>>] = status[<<d, k>>]
           /\ <<d, k>> \in told' <=> <<d, k>> \in told
    BY <1>5
  <2>3. QED
    BY <1>1, <2>1, <2>2, ImageFinishes
<1>9. GroupsInv'
  BY <1>1, <1>2, GroupsKept
<1>10. QED
  BY <1>5, <1>6, <1>7, <1>8, <1>9 DEF CallsInv

\* EndOperation: the conversion ends or throws.
LEMMA EndOperationStep ==
    ASSUME CallsInv, NEW c \in Calls, NEW i \in 1 .. Size[c], EndOperation(<<c, i>>)
    PROVE  CallsInv'
<1>1. CASE /\ Scheduler!Becomes(<<c, i>>, "running", "failed")
           /\ UNCHANGED <<platform, progress, answering>>
  BY <1>1, MoveStep
<1>2. ASSUME Scheduler!Becomes(<<c, i>>, "running", "done"),
             NEW code \in {"success", "IO_ERROR"}, Finish(<<c, i>>, code),
             UNCHANGED <<platform, progress, told>>
      PROVE  CallsInv'
  <2>1. TypeOK /\ ImageInv /\ code \in Codes /\ "done" \in Statuses
    BY DEF CallsInv, Codes, Statuses
  <2>2. /\ status' \in [Images -> Statuses] /\ passed' = passed
        /\ status[<<c, i>>] = "running" /\ status'[<<c, i>>] = "done"
        /\ \A d \in Calls : \A k \in 1 .. Size[d] :
              d # c \/ k # i => status'[<<d, k>>] = status[<<d, k>>]
    BY <1>2, <2>1, StatusMoves
  <2>3. results[c][i] = "none" /\ <<c, i>> \notin told
    BY <2>1, <2>2 DEF ImageInv, Ended
  <2>4. Ended(<<c, i>>)' /\ told' = told /\ told \subseteq Images
    BY <1>2, <2>1, <2>2 DEF Ended, TypeOK
  <2>5. QED
    BY <1>2, <2>1, <2>2, <2>3, <2>4, FinishStep
<1>3. QED
  BY <1>1, <1>2 DEF EndOperation

\* on_expired, on_failure, onFailure.
LEMMA CallbackStep ==
    ASSUME CallsInv, NEW c \in Calls, NEW i \in 1 .. Size[c], Callback(<<c, i>>)
    PROVE  CallsInv'
<1>1. TypeOK /\ ImageInv
  BY DEF CallsInv
<1>2. /\ <<c, i>> \notin told /\ told' = told \cup {<<c, i>>}
      /\ UNCHANGED <<platform, status, passed, progress>>
  BY DEF Callback, scheduler
<1>3. PICK code \in Codes : /\ Finish(<<c, i>>, code)
                            /\ status[<<c, i>>] \in {"refused", "failed", "expired"}
  BY DEF Callback, Codes
<1>4. results[c][i] = "none"
  BY <1>1, <1>2, <1>3 DEF ImageInv, Ended
<1>5. /\ status' \in [Images -> Statuses] /\ told' \subseteq Images
      /\ Ended(<<c, i>>)'
  <2>1. status' \in [Images -> Statuses]
    BY <1>1, <1>2 DEF TypeOK, Statuses
  <2>2. told' \subseteq Images
    BY <1>1, <1>2, ImageParts DEF TypeOK
  <2>3. Ended(<<c, i>>)'
    BY <1>2, <1>3 DEF Ended
  <2>4. QED
    BY <2>1, <2>2, <2>3
<1>6. \A d \in Calls : \A k \in 1 .. Size[d] : d # c \/ k # i =>
         /\ status'[<<d, k>>] = status[<<d, k>>]
         /\ <<d, k>> \in told' <=> <<d, k>> \in told
  BY <1>2
<1>7. status[<<c, i>>] # "idle" /\ status'[<<c, i>>] \in {"refused", "failed", "expired"}
  BY <1>2, <1>3
<1>8. QED
  BY <1>2, <1>3, <1>4, <1>5, <1>6, <1>7, FinishStep

-----------------------------------------------------------------------------
(* The steps of the platform thread.                                        *)

LEMMA ImagesKept ==
    ASSUME ImageInv, UNCHANGED <<status, results, told>>
    PROVE  ImageInv'
<1>1. ASSUME NEW c \in Calls, NEW i \in 1 .. Size[c]
      PROVE  /\ results'[c][i] # "none" <=> Ended(<<c, i>>)'
             /\ <<c, i>> \in told' => status'[<<c, i>>] \in {"refused", "failed", "expired"}
  <2>1. Ended(<<c, i>>)' <=> Ended(<<c, i>>)
    BY DEF Ended
  <2>2. QED
    BY <2>1 DEF ImageInv
<1>2. QED
  BY <1>1 DEF ImageInv

\* Nothing happens that the invariant speaks of.
LEMMA StutteringStep ==
    ASSUME CallsInv, UNCHANGED <<platform, status, progress, answering>>,
           passed' \in [Images -> BOOLEAN]
    PROVE  CallsInv'
<1>1. TypeOK /\ ProgressInv /\ ImageInv /\ OutboxInv /\ AnswerInv /\ GroupsInv
  BY DEF CallsInv
<1>2. UNCHANGED <<handling, group, nextGroup, submitted, results, told, outbox, replies>>
  BY DEF progress, answering
<1>3. TypeOK'
  BY <1>1, <1>2 DEF TypeOK
<1>4. ProgressInv'
  BY <1>1, <1>2 DEF ProgressInv, ProgressOf
<1>5. ImageInv'
  BY <1>1, <1>2, ImagesKept
<1>6. OutboxInv' /\ AnswerInv'
  BY <1>1, <1>2, AbandonedKept, AnswersKept
<1>7. GroupsInv'
  BY <1>1, <1>2, GroupsKept
<1>8. QED
  BY <1>3, <1>4, <1>5, <1>6, <1>7 DEF CallsInv

LEMMA DeadlineStep ==
    ASSUME CallsInv, NEW j \in Images, DeadlinePasses(j)
    PROVE  CallsInv'
<1>1. passed \in [Images -> BOOLEAN]
  BY DEF CallsInv, TypeOK
<1>2. passed' = [passed EXCEPT ![j] = TRUE] /\ status' = status
  BY DEF DeadlinePasses, Scheduler!Pass
<1>3. passed' \in [Images -> BOOLEAN]
  BY <1>1, <1>2
<1>4. QED
  BY <1>2, <1>3, StutteringStep DEF DeadlinePasses

\* A call that is new has no answer.
LEMMA NewCall ==
    ASSUME OutboxInv, NEW c \in Calls, New(c)
    PROVE  /\ group[c] = 0 /\ handling = None
           /\ \A x \in Codes : ~Sent(c, x)
<1>1. group[c] = 0 /\ handling = None /\ replies[c] = <<>>
  BY DEF New
<1>2. \A x \in Codes : ~Waiting(c, x) /\ replies[c] # <<x>>
  BY <1>1 DEF OutboxInv
<1>3. QED
  BY <1>1, <1>2 DEF Sent

LEMMA AnswerAtOnceStep ==
    ASSUME CallsInv, NEW c \in Calls, AnswerAtOnce(c)
    PROVE  CallsInv'
<1>1. TypeOK /\ ProgressInv /\ ImageInv /\ OutboxInv /\ AnswerInv /\ GroupsInv
  BY DEF CallsInv
<1>2. /\ UNCHANGED <<platform, status, passed, progress, results, told>>
      /\ UNCHANGED <<handling, group, nextGroup, submitted>>
  BY DEF AnswerAtOnce, scheduler, progress
<1>3. PICK code \in Codes : ReplyNow(c, code)
  BY DEF AnswerAtOnce, Codes
<1>4. group[c] = 0 /\ \A x \in Codes : ~Sent(c, x)
  BY <1>1, NewCall DEF AnswerAtOnce
<1>5. /\ outbox' \in Seq(Calls \X Codes) /\ replies' \in [Calls -> Seq(Codes)]
      /\ OutboxInv'
      /\ \A d \in Calls, x \in Codes :
            Sent(d, x)' <=> Sent(d, x) \/ (d = c /\ x = code)
  <2>1. UNCHANGED group
    BY <1>2
  <2>2. QED
    BY <1>1, <1>3, <1>4, <2>1, ReplySent
<1>6. TypeOK'
  BY <1>1, <1>2, <1>5 DEF TypeOK
<1>7. ProgressInv'
  BY <1>1, <1>2 DEF ProgressInv, ProgressOf
<1>8. ImageInv'
  BY <1>1, <1>2, ImagesKept
<1>9. AnswerInv'
  <2>1. ASSUME NEW d \in Calls, NEW x \in Codes, group'[d] # 0, Sent(d, x)'
        PROVE  \/ Complete(results'[d]) /\ x = Verdict(results'[d])
               \/ Abandoned(d)'
    <3>1. group[d] # 0 /\ Sent(d, x)
      BY <1>2, <1>4, <1>5, <2>1
    <3>2. Abandoned(d) => Abandoned(d)'
      BY <1>2, AbandonedKept
    <3>3. results' = results
      BY <1>2
    <3>4. QED
      BY <1>1, <3>1, <3>2, <3>3 DEF AnswerInv
  <2>2. QED
    BY <2>1 DEF AnswerInv
<1>10. GroupsInv'
  BY <1>1, <1>2, GroupsKept
<1>11. QED
  BY <1>5, <1>6, <1>7, <1>8, <1>9, <1>10 DEF CallsInv

\* The call gets a group number that no call in progress has.
LEMMA HandleStep ==
    ASSUME CallsInv, NEW c \in Calls, Handle(c)
    PROVE  CallsInv'
<1>1. TypeOK /\ ProgressInv /\ ImageInv /\ OutboxInv /\ AnswerInv /\ GroupsInv
  BY DEF CallsInv
<1>2. UNCHANGED <<platform, status, passed, submitted, results, told, outbox, replies>>
  BY DEF Handle, scheduler, answering
<1>3. /\ handling' = c /\ group' = [group EXCEPT ![c] = nextGroup]
      /\ nextGroup' = Following(nextGroup, GroupLimit) /\ Size[c] > 0
  BY DEF Handle, NextGroup, Following
<1>4. handling = None /\ group[c] = 0 /\ \A x \in Codes : ~Sent(c, x)
  BY <1>1, NewCall DEF Handle
<1>5. /\ GroupLimit \in Nat /\ nextGroup \in 1 .. GroupLimit
      /\ group \in [Calls -> 0 .. GroupLimit]
  BY <1>1, CallConstants DEF TypeOK
<1>6. /\ nextGroup' \in 1 .. GroupLimit /\ group' \in [Calls -> 0 .. GroupLimit]
      /\ group'[c] # 0 /\ \A d \in Calls : d # c => group'[d] = group[d]
  BY <1>3, <1>5 DEF Following
<1>7. TypeOK'
  BY <1>1, <1>2, <1>3, <1>6 DEF TypeOK
<1>8. ProgressInv'
  <2>1. ASSUME NEW d \in Calls
        PROVE  ProgressOf(d)'
    <3>1. ProgressOf(d)
      BY <1>1 DEF ProgressInv
    <3>2. \A i \in 1 .. Size[d] : i > submitted'[d] => status'[<<d, i>>] = "idle"
      BY <1>2, <3>1 DEF ProgressOf
    <3>3. submitted'[d] <= Size[d]
      BY <1>2, <3>1 DEF ProgressOf
    <3>4. CASE d = c
      <4>1. submitted'[d] < Size[d]
        BY <1>2, <1>3, <1>4, <3>1, <3>4 DEF ProgressOf
      <4>2. QED
        BY <1>6, <3>2, <3>3, <3>4, <4>1 DEF ProgressOf
    <3>5. CASE d # c
      <4>1. handling' # d /\ group'[d] = group[d]
        BY <1>3, <1>6, <3>5
      <4>2. QED
        BY <1>2, <3>1, <3>2, <3>3, <4>1 DEF ProgressOf
    <3>6. QED
      BY <3>4, <3>5
  <2>2. QED
    BY <2>1 DEF ProgressInv
<1>9. ImageInv'
  BY <1>1, <1>2, ImagesKept
<1>10. OutboxInv' /\ AnswerInv'
  <2>1. \A d \in Calls : group[d] # 0 => group'[d] # 0
    BY <1>6
  <2>2. \A d \in Calls : group[d] = 0 /\ group'[d] # 0 => d = c
    BY <1>6
  <2>3. \A d \in Calls : Abandoned(d) => Abandoned(d)'
    <3>1. ASSUME NEW d \in Calls, Abandoned(d)
          PROVE  Abandoned(d)'
      <4>1. d # c
        BY <1>4, <3>1 DEF Abandoned
      <4>2. QED
        BY <1>2, <1>3, <1>6, <3>1, <4>1 DEF Abandoned
    <3>2. QED
      BY <3>1
  <2>4. QED
    BY <1>1, <1>2, <1>4, <2>1, <2>2, <2>3, AnswersKept
<1>11. GroupsInv'
  <2>1. PICK g : g = group'
    OBVIOUS
  <2>2. RecentNumbers(Calls, group, nextGroup, GroupLimit)
    BY <1>1 DEF GroupsInv
  <2>3. RecentNumbers(Calls, g, Following(nextGroup, GroupLimit), GroupLimit)
    BY <1>3, <1>4, <1>5, <2>1, <2>2, CallConstants, NumberIsFresh
  <2>4. QED
    BY <1>3, <2>1, <2>3 DEF GroupsInv
<1>12. QED
  BY <1>7, <1>8, <1>9, <1>10, <1>11 DEF CallsInv

\* The progress of a turn of the loop: the next image is submitted, and the
\* call leaves the platform thread after the last.
LEMMA TurnOfLoop ==
    ASSUME TypeOK, ProgressInv, NEW c \in Calls, SubmitImage(c),
           NEW i, i = submitted[c] + 1,
           \A d \in Calls : \A k \in 1 .. Size[d] :
              d # c \/ k # i => status'[<<d, k>>] = status[<<d, k>>]
    PROVE  /\ ProgressInv' /\ group[c] # 0
           /\ \A d \in Calls : Abandoned(d) => Abandoned(d)'
           /\ UNCHANGED <<platform, group, nextGroup>>
           /\ handling' \in Calls \cup {None} /\ submitted' \in [Calls -> Nat]
<1>1. /\ handling = c /\ UNCHANGED <<platform, group, nextGroup>>
      /\ submitted' = [submitted EXCEPT ![c] = submitted[c] + 1]
      /\ handling' = IF submitted[c] + 1 = Size[c] THEN None ELSE c
  BY DEF SubmitImage, LoopEnds
<1>2. submitted \in [Calls -> Nat] /\ Size[c] \in Nat /\ None \notin Calls
  BY CallConstants DEF TypeOK
<1>3. submitted[c] < Size[c] /\ group[c] # 0
  BY <1>1, <1>2 DEF ProgressInv, ProgressOf
<1>4. /\ submitted' \in [Calls -> Nat] /\ submitted'[c] = i
      /\ \A d \in Calls : d # c => submitted'[d] = submitted[d]
  BY <1>1, <1>2
<1>5. ASSUME NEW d \in Calls
      PROVE  ProgressOf(d)'
  <2>1. ProgressOf(d)
    BY DEF ProgressInv
  <2>2. CASE d # c
    <3>1. handling # d /\ handling' # d
      BY <1>1, <1>2, <2>2
    <3>2. \A k \in 1 .. Size[d] : k > submitted'[d] => status'[<<d, k>>] = "idle"
      BY <1>4, <2>1, <2>2 DEF ProgressOf
    <3>3. QED
      BY <1>1, <1>4, <2>1, <2>2, <3>1, <3>2 DEF ProgressOf
  <2>3. CASE d = c
    <3>1. i <= Size[c] /\ (handling' = c => i < Size[c])
      BY <1>1, <1>2, <1>3
    <3>2. ASSUME NEW k \in 1 .. Size[c], k > i
          PROVE  status'[<<c, k>>] = "idle"
      <4>1. k > submitted[c] /\ k # i
        BY <1>2, <3>2
      <4>2. QED
        BY <2>1, <2>3, <4>1 DEF ProgressOf
    <3>3. QED
      BY <1>1, <1>3, <1>4, <2>3, <3>1, <3>2 DEF ProgressOf
  <2>4. QED
    BY <2>2, <2>3
<1>6. ASSUME NEW d \in Calls, Abandoned(d)
      PROVE  Abandoned(d)'
  <2>1. d # c
    BY <1>1, <1>6 DEF Abandoned
  <2>2. handling' # d
    BY <1>1, <1>2, <2>1
  <2>3. QED
    BY <1>1, <1>4, <1>6, <2>1, <2>2 DEF Abandoned
<1>7. handling' \in Calls \cup {None}
  BY <1>1
<1>8. QED
  BY <1>1, <1>3, <1>4, <1>5, <1>6, <1>7 DEF ProgressInv

LEMMA SubmitImageStep ==
    ASSUME CallsInv, NEW c \in Calls, SubmitImage(c)
    PROVE  CallsInv'
<1>1. TypeOK /\ ProgressInv /\ ImageInv /\ OutboxInv /\ AnswerInv /\ GroupsInv
  BY DEF CallsInv
<1>2. PICK i : i = submitted[c] + 1
  OBVIOUS
<1>3. handling = c
  BY DEF SubmitImage
<1>4. i \in 1 .. Size[c] /\ status[<<c, i>>] = "idle" /\ results[c][i] = "none"
  <2>1. submitted[c] < Size[c]
    BY <1>1, <1>3 DEF ProgressInv, ProgressOf
  <2>2. QED
    BY <1>1, <1>2, <2>1, UnsubmittedImage
<1>5. ASSUME \A d \in Calls : \A k \in 1 .. Size[d] :
                d # c \/ k # i => status'[<<d, k>>] = status[<<d, k>>]
      PROVE  /\ ProgressInv' /\ group[c] # 0
             /\ \A d \in Calls : Abandoned(d) => Abandoned(d)'
             /\ UNCHANGED <<platform, group, nextGroup>>
             /\ handling' \in Calls \cup {None} /\ submitted' \in [Calls -> Nat]
  BY <1>1, <1>2, <1>5, TurnOfLoop
<1>6. CASE UNCHANGED <<scheduler, answering>>
  <2>1. UNCHANGED <<status, passed, results, told, outbox, replies>>
    BY <1>6 DEF scheduler, answering
  <2>2. /\ ProgressInv' /\ \A d \in Calls : Abandoned(d) => Abandoned(d)'
        /\ UNCHANGED <<platform, group, nextGroup>>
        /\ handling' \in Calls \cup {None} /\ submitted' \in [Calls -> Nat]
    BY <1>5, <2>1
  <2>3. TypeOK'
    BY <1>1, <2>1, <2>2 DEF TypeOK
  <2>4. ImageInv'
    BY <1>1, <2>1, ImagesKept
  <2>5. OutboxInv' /\ AnswerInv'
    BY <1>1, <2>1, <2>2, AnswersKept
  <2>6. GroupsInv'
    BY <1>1, <2>2, GroupsKept
  <2>7. QED
    BY <2>2, <2>3, <2>4, <2>5, <2>6 DEF CallsInv
<1>7. CASE Scheduler!Becomes(<<c, i>>, "idle", "queued") /\ UNCHANGED answering
  <2>1. UNCHANGED <<results, told, outbox, replies>>
    BY <1>7 DEF answering
  <2>2. /\ status' \in [Images -> Statuses] /\ passed' = passed
        /\ status'[<<c, i>>] = "queued"
        /\ \A d \in Calls : \A k \in 1 .. Size[d] :
              d # c \/ k # i => status'[<<d, k>>] = status[<<d, k>>]
    <3>1. "queued" \in Statuses
      BY DEF Statuses
    <3>2. QED
      BY <1>1, <1>4, <1>7, <3>1, StatusMoves
  <2>3. /\ ProgressInv' /\ \A d \in Calls : Abandoned(d) => Abandoned(d)'
        /\ UNCHANGED <<platform, group, nextGroup>>
        /\ handling' \in Calls \cup {None} /\ submitted' \in [Calls -> Nat]
    BY <1>5, <2>2
  <2>4. TypeOK'
    BY <1>1, <2>1, <2>2, <2>3 DEF TypeOK, Statuses
  <2>5. ImageInv'
    BY <1>1, <1>4, <2>1, <2>2, ImageMoves
  <2>6. OutboxInv' /\ AnswerInv'
    BY <1>1, <2>1, <2>3, AnswersKept
  <2>7. GroupsInv'
    BY <1>1, <2>3, GroupsKept
  <2>8. QED
    BY <2>3, <2>4, <2>5, <2>6, <2>7 DEF CallsInv
<1>8. CASE /\ Scheduler!Becomes(<<c, i>>, "idle", "refused")
           /\ Finish(<<c, i>>, "SCHEDULER_ERROR") /\ told' = told \cup {<<c, i>>}
  <2>1. /\ status' \in [Images -> Statuses] /\ passed' = passed
        /\ status'[<<c, i>>] = "refused"
        /\ \A d \in Calls : \A k \in 1 .. Size[d] :
              d # c \/ k # i => status'[<<d, k>>] = status[<<d, k>>]
    <3>1. "refused" \in Statuses
      BY DEF Statuses
    <3>2. QED
      BY <1>1, <1>4, <1>8, <3>1, StatusMoves
  <2>2. /\ ProgressInv' /\ group[c] # 0
        /\ \A d \in Calls : Abandoned(d) => Abandoned(d)'
        /\ UNCHANGED <<platform, group, nextGroup>>
        /\ handling' \in Calls \cup {None} /\ submitted' \in [Calls -> Nat]
    BY <1>5, <2>1
  <2>3. ~Abandoned(c) /\ "SCHEDULER_ERROR" \in Codes /\ "SCHEDULER_ERROR" # "none"
    BY <1>3 DEF Abandoned, Codes
  <2>4. PICK code \in Codes : code = "SCHEDULER_ERROR"
    BY <2>3
  <2>5. UNCHANGED group /\ Finish(<<c, i>>, code)
    BY <1>8, <2>2, <2>4
  <2>6. /\ outbox' \in Seq(Calls \X Codes) /\ replies' \in [Calls -> Seq(Codes)]
        /\ DOMAIN results' = Calls
        /\ \A d \in Calls : results'[d] \in Results(d)
        /\ results'[c][i] = code
        /\ \A d \in Calls : \A k \in 1 .. Size[d] :
              d # c \/ k # i => results'[d][k] = results[d][k]
        /\ OutboxInv' /\ AnswerInv'
    BY <1>1, <1>4, <2>2, <2>3, <2>5, FinishEffect
  <2>7. told' \subseteq Images
    BY <1>1, <1>4, <1>8, ImageParts DEF TypeOK
  <2>8. TypeOK'
    BY <1>1, <2>1, <2>2, <2>6, <2>7 DEF TypeOK, Statuses, Results
  <2>9. ImageInv'
    <3>1. Ended(<<c, i>>)' /\ results'[c][i] # "none"
      BY <1>8, <2>1, <2>3, <2>4, <2>6 DEF Ended
    <3>2. \A d \in Calls : \A k \in 1 .. Size[d] : d # c \/ k # i =>
             /\ results'[d][k] = results[d][k]
             /\ status'[<<d, k>>] = status[<<d, k>>]
             /\ <<d, k>> \in told' <=> <<d, k>> \in told
      BY <1>8, <2>1, <2>6
    <3>3. status'[<<c, i>>] \in {"refused", "failed", "expired"}
      BY <2>1
    <3>4. QED
      BY <1>1, <1>4, <3>1, <3>2, <3>3, ImageFinishes
  <2>10. GroupsInv'
    BY <1>1, <2>2, GroupsKept
  <2>11. QED
    BY <2>2, <2>6, <2>8, <2>9, <2>10 DEF CallsInv
<1>9. QED
  BY <1>2, <1>6, <1>7, <1>8 DEF SubmitImage

\* No memory: the loop is left, and the call is answered while images remain.
LEMMA LoopThrowsStep ==
    ASSUME CallsInv, NEW c \in Calls, LoopThrows(c)
    PROVE  CallsInv'
<1>1. TypeOK /\ ProgressInv /\ ImageInv /\ OutboxInv /\ AnswerInv /\ GroupsInv
  BY DEF CallsInv
<1>2. /\ UNCHANGED <<platform, status, passed, group, nextGroup, submitted, results, told>>
      /\ handling = c /\ handling' = None /\ c \in Starved
  BY DEF LoopThrows, scheduler
<1>3. submitted[c] < Size[c] /\ group[c] # 0 /\ None \notin Calls
  BY <1>1, <1>2, CallConstants DEF ProgressInv, ProgressOf
<1>4. ~Complete(results[c]) /\ ~Abandoned(c)
  BY <1>1, <1>2, <1>3, UnsubmittedImage DEF Abandoned
<1>5. \A x \in Codes : ~Sent(c, x)
  BY <1>1, <1>3, <1>4 DEF AnswerInv
<1>6. PICK code \in Codes : ReplyNow(c, code)
  BY DEF LoopThrows, Codes
<1>7. /\ outbox' \in Seq(Calls \X Codes) /\ replies' \in [Calls -> Seq(Codes)]
      /\ OutboxInv'
      /\ \A d \in Calls, x \in Codes :
            Sent(d, x)' <=> Sent(d, x) \/ (d = c /\ x = code)
  <2>1. UNCHANGED group
    BY <1>2
  <2>2. QED
    BY <1>1, <1>5, <1>6, <2>1, ReplySent
<1>8. TypeOK'
  BY <1>1, <1>2, <1>7 DEF TypeOK
<1>9. ProgressInv'
  <2>1. ASSUME NEW d \in Calls
        PROVE  ProgressOf(d)'
    <3>1. ProgressOf(d) /\ handling' # d
      BY <1>1, <1>2, <1>3 DEF ProgressInv
    <3>2. QED
      BY <1>2, <3>1 DEF ProgressOf
  <2>2. QED
    BY <2>1 DEF ProgressInv
<1>10. ImageInv'
  BY <1>1, <1>2, ImagesKept
<1>11. AnswerInv'
  <2>1. ASSUME NEW d \in Calls, NEW x \in Codes, group'[d] # 0, Sent(d, x)'
        PROVE  \/ Complete(results'[d]) /\ x = Verdict(results'[d])
               \/ Abandoned(d)'
    <3>1. CASE d = c
      <4>1. Abandoned(c)'
        BY <1>2, <1>3 DEF Abandoned
      <4>2. QED
        BY <3>1, <4>1 DEF Abandoned
    <3>2. CASE d # c
      <4>1. Sent(d, x) /\ group[d] # 0 /\ results' = results
        BY <1>2, <1>7, <2>1, <3>2
      <4>2. Abandoned(d) => Abandoned(d)'
        BY <1>2, <1>3 DEF Abandoned
      <4>3. QED
        BY <1>1, <4>1, <4>2 DEF AnswerInv
    <3>3. QED
      BY <3>1, <3>2
  <2>2. QED
    BY <2>1 DEF AnswerInv
<1>12. GroupsInv'
  BY <1>1, <1>2, GroupsKept
<1>13. QED
  BY <1>7, <1>8, <1>9, <1>10, <1>11, <1>12 DEF CallsInv

LEMMA DeliverStep ==
    ASSUME CallsInv, Deliver
    PROVE  CallsInv'
<1>1. TypeOK /\ ProgressInv /\ ImageInv /\ OutboxInv /\ AnswerInv /\ GroupsInv
  BY DEF CallsInv
<1>2. /\ UNCHANGED <<platform, status, passed, progress, results, told>>
      /\ UNCHANGED <<handling, group, nextGroup, submitted>>
  BY DEF Deliver, scheduler, progress
<1>3. /\ outbox' \in Seq(Calls \X Codes) /\ replies' \in [Calls -> Seq(Codes)]
      /\ OutboxInv' /\ \A c \in Calls, x \in Codes : Sent(c, x)' <=> Sent(c, x)
  BY <1>1, DeliverReplies
<1>4. TypeOK'
  BY <1>1, <1>2, <1>3 DEF TypeOK
<1>5. ProgressInv'
  BY <1>1, <1>2 DEF ProgressInv, ProgressOf
<1>6. ImageInv'
  BY <1>1, <1>2, ImagesKept
<1>7. AnswerInv'
  <2>1. ASSUME NEW d \in Calls, NEW x \in Codes, group'[d] # 0, Sent(d, x)'
        PROVE  \/ Complete(results'[d]) /\ x = Verdict(results'[d])
               \/ Abandoned(d)'
    <3>1. group[d] # 0 /\ Sent(d, x) /\ results' = results
      BY <1>2, <1>3, <2>1
    <3>2. Abandoned(d) => Abandoned(d)'
      BY <1>2, AbandonedKept
    <3>3. QED
      BY <1>1, <3>1, <3>2 DEF AnswerInv
  <2>2. QED
    BY <2>1 DEF AnswerInv
<1>8. GroupsInv'
  BY <1>1, <1>2, GroupsKept
<1>9. QED
  BY <1>3, <1>4, <1>5, <1>6, <1>7, <1>8 DEF CallsInv

-----------------------------------------------------------------------------
(* The invariant, and what it says to Dart.                                 *)

LEMMA InitCalls ==
    Init => CallsInv
<1>1. SUFFICES ASSUME Init
               PROVE  CallsInv
  OBVIOUS
<1>2. /\ status = [j \in Images |-> "idle"] /\ passed = [j \in Images |-> FALSE]
      /\ handling = None /\ group = [c \in Calls |-> 0]
      /\ submitted = [c \in Calls |-> 0] /\ told = {} /\ outbox = <<>>
      /\ results = [c \in Calls |-> [i \in 1 .. Size[c] |-> "none"]]
      /\ replies = [c \in Calls |-> <<>>]
  BY <1>1 DEF Init, Scheduler!Init
<1>3. nextGroup \in 1 .. GroupLimit /\ platform \in {"windows", "apple"}
  BY <1>1, CallConstants DEF Init
<1>4. TypeOK
  <2>1. /\ status \in [Images -> Statuses] /\ passed \in [Images -> BOOLEAN]
        /\ told \subseteq Images
    BY <1>2 DEF Statuses
  <2>2. /\ group \in [Calls -> 0 .. GroupLimit] /\ submitted \in [Calls -> Nat]
        /\ handling \in Calls \cup {None}
    BY <1>2, CallConstants
  <2>3. outbox \in Seq(Calls \X Codes) /\ replies \in [Calls -> Seq(Codes)]
    BY <1>2
  <2>4. /\ DOMAIN results = Calls
        /\ \A c \in Calls : results[c] \in [1 .. Size[c] -> Codes \cup {"none"}]
    BY <1>2
  <2>5. QED
    BY <1>3, <2>1, <2>2, <2>3, <2>4 DEF TypeOK, Statuses
<1>5. ProgressInv
  <2>1. ASSUME NEW c \in Calls
        PROVE  ProgressOf(c)
    <3>1. submitted[c] = 0 /\ group[c] = 0 /\ handling # c /\ Size[c] \in Nat
      BY <1>2, CallConstants
    <3>2. \A i \in 1 .. Size[c] : status[<<c, i>>] = "idle"
      BY <1>2, ImageParts
    <3>3. QED
      BY <3>1, <3>2 DEF ProgressOf
  <2>2. QED
    BY <2>1 DEF ProgressInv
<1>6. ImageInv
  <2>1. \A c \in Calls : \A i \in 1 .. Size[c] :
           status[<<c, i>>] = "idle" /\ results[c][i] = "none"
    BY <1>2, ImageParts
  <2>2. QED
    BY <1>2, <2>1 DEF ImageInv, Ended
<1>7. OutboxInv
  <2>1. \A c \in Calls, x \in Codes : ~Waiting(c, x)
    BY <1>2 DEF Waiting, InQueue
  <2>2. Distinct(outbox)
    BY <1>2 DEF Distinct
  <2>3. QED
    BY <1>2, <2>1, <2>2 DEF OutboxInv
<1>8. AnswerInv
  BY <1>2 DEF AnswerInv
<1>9. GroupsInv
  <2>1. NumberedIn(Calls, group) = {}
    BY <1>2 DEF NumberedIn
  <2>2. QED
    BY <2>1 DEF GroupsInv, RecentNumbers
<1>10. QED
  BY <1>4, <1>5, <1>6, <1>7, <1>8, <1>9 DEF CallsInv

LEMMA ImageSteps ==
    ASSUME CallsInv, NEW c \in Calls, NEW i \in 1 .. Size[c],
           \/ ImageStep(<<c, i>>)
           \/ Expire(<<c, i>>)
    PROVE  CallsInv'
<1>1. CASE Admit(<<c, i>>)
  <2>1. i <= submitted[c] /\ UNCHANGED <<platform, progress, answering>>
    BY <1>1 DEF Admit
  <2>2. PICK to \in {"refused", "queued"} : Scheduler!Becomes(<<c, i>>, "idle", to)
    BY <1>1 DEF Admit
  <2>3. QED
    BY <2>1, <2>2, MoveStep
<1>2. CASE Start(<<c, i>>)
  BY <1>2, MoveStep DEF Start, Scheduler!Start
<1>3. CASE EndOperation(<<c, i>>)
  BY <1>3, EndOperationStep
<1>4. CASE Callback(<<c, i>>)
  BY <1>4, CallbackStep
<1>5. CASE Expire(<<c, i>>)
  BY <1>5, MoveStep DEF Expire, Scheduler!Expire
<1>6. QED
  BY <1>1, <1>2, <1>3, <1>4, <1>5 DEF ImageStep

LEMMA CallsStep ==
    CallsInv /\ [Next]_vars => CallsInv'
<1>1. SUFFICES ASSUME CallsInv, [Next]_vars
               PROVE  CallsInv'
  OBVIOUS
<1>2. CASE UNCHANGED vars
  <2>1. /\ UNCHANGED <<platform, status, progress, answering>>
        /\ passed' \in [Images -> BOOLEAN]
    BY <1>1, <1>2 DEF vars, scheduler, CallsInv, TypeOK
  <2>2. QED
    BY <1>1, <2>1, StutteringStep
<1>3. ASSUME NEW c \in Calls, AnswerAtOnce(c)
      PROVE  CallsInv'
  BY <1>1, <1>3, AnswerAtOnceStep
<1>4. ASSUME NEW c \in Calls, Handle(c)
      PROVE  CallsInv'
  BY <1>1, <1>4, HandleStep
<1>5. ASSUME NEW c \in Calls, SubmitImage(c)
      PROVE  CallsInv'
  BY <1>1, <1>5, SubmitImageStep
<1>6. ASSUME NEW c \in Calls, LoopThrows(c)
      PROVE  CallsInv'
  BY <1>1, <1>6, LoopThrowsStep
<1>7. CASE Deliver
  BY <1>1, <1>7, DeliverStep
<1>8. ASSUME NEW j \in Images, ImageStep(j) \/ Expire(j)
      PROVE  CallsInv'
  <2>1. PICK c \in Calls : \E i \in 1 .. Size[c] : j = <<c, i>>
    BY ImageParts
  <2>2. PICK i \in 1 .. Size[c] : j = <<c, i>>
    BY <2>1
  <2>3. ImageStep(<<c, i>>) \/ Expire(<<c, i>>)
    BY <1>8, <2>2
  <2>4. QED
    BY <1>1, <2>3, ImageSteps
<1>9. ASSUME NEW j \in Images, DeadlinePasses(j)
      PROVE  CallsInv'
  BY <1>1, <1>9, DeadlineStep
<1>10. QED
  BY <1>1, <1>2, <1>3, <1>4, <1>5, <1>6, <1>7, <1>8, <1>9 DEF Next, PlatformStep

\* The inductive invariant of the calls, their images and their replies
\* (HandleMethodCall, BatchCompletion; JxlCoderPlugin.handle), in every state.
THEOREM CallsInvariant ==
    Spec => []CallsInv
<1>1. Init => CallsInv
  BY InitCalls
<1>2. CallsInv /\ [Next]_vars => CallsInv'
  BY CallsStep
<1>3. QED
  BY <1>1, <1>2, PTL DEF Spec

\* What is on its way to a call in the main queue: nothing, or one reply.
LEMMA RepliesOnTheirWay ==
    ASSUME TypeOK, OutboxInv, NEW c \in Calls
    PROVE  \/ OnItsWay(c) = {}
           \/ \E k \in DOMAIN outbox, x \in Codes :
                 /\ OnItsWay(c) = {k} /\ outbox[k] = <<c, x>>
                 /\ Waiting(c, x) /\ replies[c] = <<>>
<1>1. SUFFICES ASSUME OnItsWay(c) # {}
               PROVE  \E k \in DOMAIN outbox, x \in Codes :
                         /\ OnItsWay(c) = {k} /\ outbox[k] = <<c, x>>
                         /\ Waiting(c, x) /\ replies[c] = <<>>
  OBVIOUS
<1>2. ASSUME NEW k \in OnItsWay(c)
      PROVE  \E x \in Codes : k \in DOMAIN outbox /\ outbox[k] = <<c, x>> /\ Waiting(c, x)
  <2>1. k \in DOMAIN outbox /\ outbox[k][1] = c
    BY DEF OnItsWay
  <2>2. InQueue(outbox, outbox[k])
    BY <2>1 DEF InQueue
  <2>3. outbox[k] \in Calls \X Codes
    BY <2>2, EmptyQueue DEF TypeOK
  <2>4. PICK x \in Codes : outbox[k] = <<c, x>>
    BY <2>1, <2>3
  <2>5. QED
    BY <2>1, <2>2, <2>4 DEF Waiting
<1>3. PICK k \in OnItsWay(c) : TRUE
  BY <1>1
<1>4. PICK x \in Codes : k \in DOMAIN outbox /\ outbox[k] = <<c, x>> /\ Waiting(c, x)
  BY <1>2
<1>5. ASSUME NEW m \in OnItsWay(c)
      PROVE  m = k
  <2>1. PICK y \in Codes : m \in DOMAIN outbox /\ outbox[m] = <<c, y>> /\ Waiting(c, y)
    BY <1>2
  <2>2. y = x
    BY <1>4, <2>1 DEF OutboxInv
  <2>3. QED
    BY <1>4, <2>1, <2>2 DEF OutboxInv, Distinct
<1>6. OnItsWay(c) = {k} /\ replies[c] = <<>>
  BY <1>4, <1>5 DEF OutboxInv
<1>7. QED
  BY <1>4, <1>6

LEMMA AnswerIsSent ==
    ASSUME TypeOK, OutboxInv, NEW c \in Calls, Answered(c)
    PROVE  \E x \in Codes : Answer(c) = x /\ Sent(c, x)
<1>1. CASE replies[c] # <<>>
  <2>1. PICK x \in Codes : replies[c] = <<x>>
    BY <1>1 DEF OutboxInv
  <2>2. Answer(c) = x
    BY <1>1, <2>1 DEF Answer
  <2>3. QED
    BY <2>1, <2>2 DEF Sent
<1>2. CASE replies[c] = <<>>
  <2>1. PICK k \in DOMAIN outbox, x \in Codes :
           OnItsWay(c) = {k} /\ outbox[k] = <<c, x>> /\ Waiting(c, x)
    BY <1>2, RepliesOnTheirWay DEF Answered
  <2>2. Answer(c) = outbox[k][2]
    <3>1. (CHOOSE m \in OnItsWay(c) : TRUE) = k
      BY <2>1
    <3>2. QED
      BY <1>2, <3>1 DEF Answer
  <2>3. QED
    BY <2>1, <2>2 DEF Sent
<1>3. QED
  BY <1>1, <1>2

LEMMA ShortQueue ==
    ASSUME NEW S, NEW q, q = <<>> \/ \E x \in S : q = <<x>>
    PROVE  Len(q) \in {0, 1} /\ (q = <<>> => Len(q) = 0)
<1>1. CASE q = <<>>
  BY <1>1, EmptySeq
<1>2. ASSUME NEW x \in S, q = <<x>>
      PROVE  Len(q) = 1 /\ q # <<>>
  BY <1>2
<1>3. QED
  BY <1>1, <1>2

LEMMA CallsOneReply ==
    CallsInv => OneReply
<1>1. SUFFICES ASSUME TypeOK, OutboxInv, NEW c \in Calls
               PROVE  Len(replies[c]) + Cardinality(OnItsWay(c)) <= 1
  BY DEF CallsInv, OneReply
<1>2. PICK q : q = replies[c]
  OBVIOUS
<1>3. Len(q) \in {0, 1} /\ (q = <<>> => Len(q) = 0)
  <2>1. q = <<>> \/ \E x \in Codes : q = <<x>>
    BY <1>1, <1>2 DEF OutboxInv
  <2>2. QED
    BY <2>1, ShortQueue
<1>4. CASE OnItsWay(c) = {}
  <2>1. Cardinality(OnItsWay(c)) = 0
    BY <1>4, FS_EmptySet
  <2>2. Len(replies[c]) \in {0, 1}
    BY <1>2, <1>3
  <2>3. PICK n \in {0, 1} : n = Len(replies[c])
    BY <2>2
  <2>4. n + 0 <= 1
    OBVIOUS
  <2>5. QED
    BY <2>1, <2>3, <2>4, Zenon
<1>5. CASE OnItsWay(c) # {}
  <2>1. PICK k \in DOMAIN outbox, x \in Codes :
           /\ OnItsWay(c) = {k} /\ outbox[k] = <<c, x>>
           /\ Waiting(c, x) /\ replies[c] = <<>>
    BY <1>1, <1>5, RepliesOnTheirWay
  <2>2. Cardinality(OnItsWay(c)) = 1
    BY <2>1, FS_Singleton
  <2>3. QED
    BY <1>2, <1>3, <2>1, <2>2
<1>6. QED
  BY <1>4, <1>5

LEMMA CallsReplyIsVerdict ==
    CallsInv => ReplyIsVerdict
<1>1. SUFFICES ASSUME TypeOK, ImageInv, OutboxInv, AnswerInv,
                      NEW c \in Calls \ Starved, group[c] # 0, Answered(c)
               PROVE  /\ \A i \in 1 .. Size[c] : Ended(<<c, i>>)
                      /\ \/ /\ Answer(c) = "success"
                            /\ \A i \in 1 .. Size[c] : results[c][i] = "success"
                         \/ \E i \in 1 .. Size[c] :
                               /\ Answer(c) = results[c][i] /\ results[c][i] # "success"
                               /\ \A k \in 1 .. i - 1 : results[c][k] = "success"
  BY DEF CallsInv, ReplyIsVerdict
<1>2. PICK x \in Codes : Answer(c) = x /\ Sent(c, x)
  BY <1>1, AnswerIsSent
<1>3. Complete(results[c]) /\ x = Verdict(results[c])
  BY <1>1, <1>2 DEF AnswerInv, Abandoned
<1>4. PICK r : r = results[c]
  OBVIOUS
<1>5. /\ Size[c] \in Nat /\ r \in [1 .. Size[c] -> Codes \cup {"none"}]
      /\ \A i \in 1 .. Size[c] : r[i] # "none"
  BY <1>1, <1>3, <1>4, CallConstants DEF TypeOK, Complete
<1>6. \A i \in 1 .. Size[c] : Ended(<<c, i>>)
  <2>1. \A i \in 1 .. Size[c] : results[c][i] # "none"
    BY <1>4, <1>5
  <2>2. \A i \in 1 .. Size[c] : results[c][i] # "none" <=> Ended(<<c, i>>)
    BY <1>1 DEF ImageInv
  <2>3. QED
    BY <2>1, <2>2
<1>7. CASE Failures(r) = {}
  <2>1. \A i \in 1 .. Size[c] : r[i] = "success"
    BY <1>5, <1>7 DEF Failures
  <2>2. Answer(c) = "success"
    BY <1>2, <1>3, <1>4, <1>7 DEF Verdict
  <2>3. QED
    BY <1>4, <1>6, <2>1, <2>2
<1>8. CASE Failures(r) # {}
  <2>1. PICK i : i = FirstFailure(r)
    OBVIOUS
  <2>2. /\ i \in 1 .. Size[c] /\ r[i] \in Codes \ {"success"}
        /\ \A k \in Failures(r) : i <= k
    BY <1>5, <1>8, <2>1, FirstFailureIsFirst
  <2>3. Answer(c) = r[i] /\ r[i] # "success"
    BY <1>2, <1>3, <1>4, <1>8, <2>1, <2>2 DEF Verdict
  <2>4. ASSUME NEW k \in 1 .. i - 1
        PROVE  r[k] = "success"
    <3>1. k \in 1 .. Size[c] /\ ~(i <= k)
      BY <1>5, <2>2
    <3>2. k \notin Failures(r)
      BY <2>2, <3>1
    <3>3. QED
      BY <1>5, <3>1, <3>2 DEF Failures
  <2>5. QED
    BY <1>4, <1>6, <2>2, <2>3, <2>4
<1>9. QED
  BY <1>7, <1>8

LEMMA CallsGroupsDistinct ==
    CallsInv => GroupsDistinct
<1>1. SUFFICES ASSUME CallsInv, NEW c \in Calls, NEW d \in Calls
               PROVE  /\ Unanswered(c) /\ Unanswered(d) /\ group[c] = group[d] => c = d
                      /\ (\E i \in 1 .. Size[c] : status[<<c, i>>] # "idle") => group[c] # 0
  BY DEF GroupsDistinct
<1>2. TypeOK /\ ProgressInv /\ GroupsInv
  BY <1>1 DEF CallsInv
<1>3. ASSUME Unanswered(c), Unanswered(d), group[c] = group[d]
      PROVE  c = d
  BY <1>2, <1>3 DEF GroupsInv, RecentNumbers, NumberedIn, Unanswered
<1>4. ASSUME NEW i \in 1 .. Size[c], status[<<c, i>>] # "idle"
      PROVE  group[c] # 0
  BY <1>2, <1>4, SubmittedHasGroup
<1>5. QED
  BY <1>3, <1>4

\* No call of the method channel is answered twice: BatchCompletion's
\* replied_, and the operation and its callbacks excluding one another.
THEOREM EveryCallHasOneReply ==
    Spec => []OneReply
  BY CallsInvariant, CallsOneReply, PTL

\* A call is answered once all of its images have ended, with the first
\* failure in the order of the input (BatchCompletion::Finish).
THEOREM RepliesAreVerdicts ==
    Spec => []ReplyIsVerdict
  BY CallsInvariant, CallsReplyIsVerdict, PTL

\* Calls in progress have groups of their own although next_group_ wraps
\* around and 0 is left out (MakeGroup, nextGroup).
THEOREM GroupsStayDistinct ==
    Spec => []GroupsDistinct
  BY CallsInvariant, CallsGroupsDistinct, PTL

-----------------------------------------------------------------------------
(* The scheduler in between.                                                *)

LEMMA SchedulerStep ==
    CallsInv /\ [Next]_vars => [Scheduler!Next]_scheduler
<1>1. SUFFICES ASSUME CallsInv, [Next]_vars
               PROVE  Scheduler!Next \/ UNCHANGED scheduler
  BY DEF scheduler, Scheduler!vars
<1>2. CASE UNCHANGED vars
  BY <1>2 DEF vars
<1>3. ASSUME NEW c \in Calls, AnswerAtOnce(c) \/ Handle(c) \/ LoopThrows(c)
      PROVE  UNCHANGED scheduler
  BY <1>3 DEF AnswerAtOnce, Handle, LoopThrows
<1>4. CASE Deliver
  BY <1>4 DEF Deliver
<1>5. ASSUME NEW c \in Calls, SubmitImage(c)
      PROVE  Scheduler!Next \/ UNCHANGED scheduler
  <2>1. PICK j : j = <<c, submitted[c] + 1>>
    OBVIOUS
  <2>2. submitted[c] + 1 \in 1 .. Size[c]
    <3>1. handling = c /\ TypeOK /\ ProgressInv /\ ImageInv
      BY <1>1, <1>5 DEF CallsInv, SubmitImage
    <3>2. submitted[c] < Size[c]
      BY <3>1 DEF ProgressInv, ProgressOf
    <3>3. QED
      BY <3>1, <3>2, UnsubmittedImage
  <2>3. j \in Images
    BY <2>1, <2>2, ImageParts
  <2>4. \/ UNCHANGED scheduler
        \/ Scheduler!Becomes(j, "idle", "queued")
        \/ Scheduler!Becomes(j, "idle", "refused")
    BY <1>5, <2>1 DEF SubmitImage
  <2>5. QED
    BY <2>3, <2>4 DEF Scheduler!Next, Scheduler!Submit
<1>6. ASSUME NEW j \in Images, ImageStep(j) \/ Expire(j) \/ DeadlinePasses(j)
      PROVE  Scheduler!Next \/ UNCHANGED scheduler
  <2>1. CASE Admit(j)
    BY <2>1 DEF Admit, Scheduler!Next, Scheduler!Submit
  <2>2. CASE Start(j)
    BY <2>2 DEF Start, Scheduler!Next
  <2>3. CASE EndOperation(j)
    BY <2>3 DEF EndOperation, Scheduler!Next, Scheduler!Finish
  <2>4. CASE Callback(j)
    BY <2>4 DEF Callback
  <2>5. CASE Expire(j)
    BY <2>5 DEF Expire, Scheduler!Next
  <2>6. CASE DeadlinePasses(j)
    BY <2>6 DEF DeadlinePasses, Scheduler!Next
  <2>7. QED
    BY <1>6, <2>1, <2>2, <2>3, <2>4, <2>5, <2>6 DEF ImageStep
<1>7. QED
  BY <1>1, <1>2, <1>3, <1>4, <1>5, <1>6 DEF Next, PlatformStep

\* The two plugins use the scheduler as Admission says that it may be used: an
\* image is submitted once, and only an accepted one starts, ends or expires.
THEOREM CallsUseAdmission ==
    Spec => Scheduler!Spec
<1>1. Init => Scheduler!Init
  BY DEF Init
<1>2. CallsInv /\ [Next]_vars => [Scheduler!Next]_(Scheduler!vars)
  BY SchedulerStep DEF scheduler, Scheduler!vars
<1>3. QED
  BY <1>1, <1>2, CallsInvariant, PTL DEF Spec, Scheduler!Spec
=============================================================================
