------------------------- MODULE SchedulerConfigProofs -------------------------
(***************************************************************************)
(* Proofs about SchedulerConfig, for every number of processors and every  *)
(* set of requests and conversions.                                        *)
(***************************************************************************)
EXTENDS SchedulerConfig, TLAPS

-----------------------------------------------------------------------------
(* The settings alone.                                                      *)

\* A request of natural numbers stands for natural numbers, of which the first
\* is the size that the native pool makes of it.
LEMMA SettingsType ==
    ASSUME NEW r \in Nat \X Nat
    PROVE  /\ Resolve(r[1]) \in Nat
           /\ Settings(r) \in Nat \X Nat
           /\ Settings(r)[1] = Resolve(r[1])
<1>1. Processors \in Nat /\ r[1] \in Nat /\ r[2] \in Nat
  BY ConfigAssumption
<1>2. Resolve(r[1]) \in Nat
  BY <1>1 DEF Resolve
<1>3. Settings(r)[2] \in Nat
  BY <1>1, <1>2 DEF Settings, SettingsFor, AutomaticMaximum, AutomaticJobs
<1>4. QED
  BY <1>2, <1>3 DEF Settings, SettingsFor

\* Whatever is configured stays, on both sides.
Kept ==
    /\ platform' = platform
    /\ native.configured => native'.configured /\ native'.workers = native.workers
    /\ admission.configured => admission' = admission
    /\ native.pool # 0 => native'.pool = native.pool

\* What one step may do to the settings: nothing, configure the native pool,
\* configure both, or create the pool.
SettingsStep ==
    /\ UNCHANGED platform
    /\ \/ UNCHANGED <<native, admission>>
       \/ \E r \in Nat \X Nat :
             /\ NativeAccepts(r[1])
             /\ native' = Configured(r[1])
             /\ admission' = admission
       \/ \E r \in Nat \X Nat :
             /\ ~admission.configured
             /\ NativeAccepts(r[1])
             /\ Adopt(r)
       \/ /\ native.pool = 0
          /\ native' = NewPool
          /\ admission' = admission

\* Every step is one of these.
LEMMA StepOfSettings ==
    ASSUME [Next]_vars
    PROVE  SettingsStep
<1>1. ASSUME NEW c \in Clients, Configure(c)
      PROVE  SettingsStep
  <2>1. Request[c] \in Nat \X Nat
    BY ConfigAssumption
  <2>2. QED
    BY <1>1, <2>1 DEF Configure, SettingsStep
<1>2. ASSUME NEW c \in Clients, ConfigureNative(c)
      PROVE  SettingsStep
  <2>1. Request[c] \in Nat \X Nat
    BY ConfigAssumption
  <2>2. QED
    BY <1>2, <2>1 DEF ConfigureNative, SettingsStep
<1>3. ASSUME NEW v \in Conversions, Submit(v)
      PROVE  SettingsStep
  <2>0. UNCHANGED platform
    BY <1>3 DEF Submit
  <2>1. CASE UNCHANGED <<native, admission>>
    BY <2>0, <2>1 DEF SettingsStep
  <2>2. CASE ~admission.configured /\ NativeAccepts(0) /\ Adopt(<<0, 0>>)
    <3>1. <<0, 0>> \in Nat \X Nat /\ <<0, 0>>[1] = 0
      OBVIOUS
    <3>2. NativeAccepts(<<0, 0>>[1])
      BY <2>2
    <3>3. QED
      BY <2>0, <2>2, <3>1, <3>2 DEF SettingsStep
  <2>3. QED
    BY <1>3, <2>1, <2>2 DEF Submit
<1>4. ASSUME NEW v \in Conversions, EnterRunner(v)
      PROVE  SettingsStep
  BY <1>4 DEF EnterRunner, SettingsStep
<1>5. ASSUME NEW v \in Conversions,
             InitInRun(v) \/ RunEnds(v) \/ InitInFallback(v)
             \/ CallInFallback(v) \/ FallbackEnds(v)
      PROVE  SettingsStep
  BY <1>5 DEF InitInRun, RunEnds, InitInFallback, CallInFallback, FallbackEnds,
              SettingsStep
<1>6. CASE UNCHANGED vars
  BY <1>6 DEF vars, SettingsStep
<1>7. QED
  BY <1>1, <1>2, <1>3, <1>4, <1>5, <1>6 DEF Next

\* The settings keep their types, what is in force stays, and the two
\* schedulers go on agreeing.
LEMMA SettingsStepEffect ==
    ASSUME native \in [configured : BOOLEAN, workers : Nat, pool : Nat],
           admission \in [configured : BOOLEAN, requested : Nat \X Nat,
                          effective : Nat \X Nat],
           SettingsAgree, SettingsOfRequest, SettingsStep
    PROVE  /\ native' \in [configured : BOOLEAN, workers : Nat, pool : Nat]
           /\ admission' \in [configured : BOOLEAN, requested : Nat \X Nat,
                              effective : Nat \X Nat]
           /\ SettingsAgree'
           /\ SettingsOfRequest'
           /\ Kept
<1>0. platform' = platform
  BY DEF SettingsStep
<1>1. CASE UNCHANGED <<native, admission>>
  BY <1>0, <1>1 DEF SettingsAgree, SettingsOfRequest, Kept, Settings,
         SettingsFor, AutomaticMaximum, Resolve
<1>2. ASSUME NEW r \in Nat \X Nat, NativeAccepts(r[1]),
             native' = Configured(r[1]), admission' = admission
      PROVE  /\ native' \in [configured : BOOLEAN, workers : Nat, pool : Nat]
             /\ SettingsAgree'
             /\ SettingsOfRequest'
             /\ Kept
  <2>1. Resolve(r[1]) \in Nat
    BY SettingsType
  <2>2. /\ native'.configured
        /\ native'.workers = Resolve(r[1])
        /\ native'.pool = native.pool
        /\ native' \in [configured : BOOLEAN, workers : Nat, pool : Nat]
    BY <1>2, <2>1 DEF Configured
  <2>3. native.configured => native.workers = Resolve(r[1])
    BY <1>2 DEF NativeAccepts
  <2>4. SettingsOfRequest'
    BY <1>0, <1>2 DEF SettingsOfRequest, Settings,
         SettingsFor, AutomaticMaximum, Resolve
  <2>5. QED
    BY <1>0, <1>2, <2>2, <2>3, <2>4 DEF SettingsAgree, Kept
<1>3. ASSUME NEW r \in Nat \X Nat, ~admission.configured, NativeAccepts(r[1]),
             Adopt(r)
      PROVE  /\ native' \in [configured : BOOLEAN, workers : Nat, pool : Nat]
             /\ admission' \in [configured : BOOLEAN, requested : Nat \X Nat,
                                effective : Nat \X Nat]
             /\ SettingsAgree'
             /\ SettingsOfRequest'
             /\ Kept
  <2>1. /\ Resolve(r[1]) \in Nat
        /\ Settings(r) \in Nat \X Nat
        /\ Settings(r)[1] = Resolve(r[1])
    BY SettingsType
  <2>2. /\ native'.configured
        /\ native'.workers = Resolve(r[1])
        /\ native'.pool = native.pool
        /\ native' \in [configured : BOOLEAN, workers : Nat, pool : Nat]
    BY <1>3, <2>1 DEF Adopt, Configured
  <2>3. /\ admission'.configured
        /\ admission'.requested = r
        /\ admission'.effective = Settings(r)
        /\ admission' \in [configured : BOOLEAN, requested : Nat \X Nat,
                           effective : Nat \X Nat]
    BY <1>3, <2>1 DEF Adopt
  <2>4. native.configured => native.workers = Resolve(r[1])
    BY <1>3 DEF NativeAccepts
  <2>5. SettingsAgree'
    BY <2>1, <2>2, <2>3, <2>4 DEF SettingsAgree
  <2>6. Kept
    BY <1>0, <1>3, <2>2, <2>4 DEF Kept
  <2>7. SettingsOfRequest'
    BY <1>0, <2>3 DEF SettingsOfRequest, Settings,
         SettingsFor, AutomaticMaximum, Resolve
  <2>8. QED
    BY <2>2, <2>3, <2>5, <2>6, <2>7
<1>4. CASE native.pool = 0 /\ native' = NewPool /\ admission' = admission
  <2>1. /\ native'.configured
        /\ native'.workers = native.workers
        /\ native'.pool = native.workers
        /\ native' \in [configured : BOOLEAN, workers : Nat, pool : Nat]
    BY <1>4 DEF NewPool
  <2>2. QED
    BY <1>0, <1>4, <2>1 DEF SettingsAgree, SettingsOfRequest, Kept,
         Settings,
         SettingsFor, AutomaticMaximum, Resolve
<1>5. QED
  BY <1>1, <1>2, <1>3, <1>4 DEF SettingsStep

-----------------------------------------------------------------------------
(* The calls that configure.                                                *)

\* What a call got in answer, for a client that goes to the pool or not.
Answered(c) ==
    /\ outcome[c] = "success" /\ c \in Native =>
          native.configured /\ native.workers = Resolve(Request[c][1])
    /\ outcome[c] = "success" /\ c \notin Native =>
          admission.configured /\ admission.effective = Meaning(Request[c])
    /\ outcome[c] = "conflict" =>
          \/ native.configured /\ native.workers # Resolve(Request[c][1])
          \/ /\ c \notin Native
             /\ admission.configured
             /\ admission.effective # Meaning(Request[c])

LEMMA FirstWinsIsAnswered ==
    FirstWins <=> \A c \in Clients : Answered(c)
  BY DEF FirstWins, Answered

\* An answer stays right as long as what is in force stays.
LEMMA AnswersStay ==
    ASSUME NEW c \in Clients, Answered(c), Kept, outcome'[c] = outcome[c]
    PROVE  Answered(c)'
  BY DEF Answered, Kept, Meaning,
         SettingsFor, AutomaticMaximum, Resolve

\* Each step answers rightly, and at most one call.
LEMMA AnswersRight ==
    ASSUME TypeOK, SettingsOfRequest, [Next]_vars,
           NEW c \in Clients, outcome'[c] # outcome[c]
    PROVE  Answered(c)'
<1>1. Request[c] \in Nat \X Nat
  BY ConfigAssumption
<1>2. outcome \in [Clients -> Results]
  BY DEF TypeOK
<1>0. platform' = platform
  BY StepOfSettings DEF SettingsStep
<1>3. PICK d \in Clients : Configure(d) \/ ConfigureNative(d)
  BY DEF Next, vars, Submit, EnterRunner, InitInRun, RunEnds, InitInFallback,
         CallInFallback, FallbackEnds
<1>4. c = d
  BY <1>2, <1>3 DEF Configure, ConfigureNative, Returns
<1>5. /\ Resolve(Request[c][1])' = Resolve(Request[c][1])
      /\ admission.configured /\ admission' = admission
            => Meaning(Request[c])' = Meaning(Request[c])
  BY <1>0 DEF Meaning,
         SettingsFor, AutomaticMaximum, Resolve
<1>6. CASE ConfigureNative(c)
  <2>1. c \in Native /\ outcome'[c] \in {"invalid", "success", "conflict"}
    BY <1>2, <1>6 DEF ConfigureNative, Returns
  <2>2. outcome'[c] = "success" =>
           native'.configured /\ native'.workers = Resolve(Request[c][1])
    BY <1>2, <1>6 DEF ConfigureNative, Returns, Configured, TypeOK
  <2>3. outcome'[c] = "conflict" =>
           native'.configured /\ native'.workers # Resolve(Request[c][1])
    BY <1>2, <1>6 DEF ConfigureNative, Returns, NativeAccepts
  <2>4. QED
    BY <1>5, <2>1, <2>2, <2>3 DEF Answered
<1>7. CASE Configure(c)
  <2>1. c \notin Native
    BY <1>7 DEF Configure
  <2>2. CASE ~Valid(Request[c])
    <3>1. outcome'[c] = "invalid"
      BY <1>2, <1>7, <2>2 DEF Configure, Returns
    <3>2. QED
      BY <3>1 DEF Answered
  <2>3. CASE admission.configured
    <3>1. /\ admission' = admission
          /\ outcome'[c] = "success" => Repeats(Request[c])
          /\ outcome'[c] = "conflict" => ~Repeats(Request[c])
      BY <1>2, <1>7, <2>2, <2>3 DEF Configure, Returns
    <3>2. Repeats(Request[c]) <=> Meaning(Request[c]) = admission.effective
      BY <2>3 DEF Repeats, SettingsOfRequest, Meaning, Settings, SettingsFor
    <3>3. QED
      BY <1>5, <2>1, <2>3, <3>1, <3>2 DEF Answered
  <2>4. CASE Valid(Request[c]) /\ ~admission.configured
             /\ NativeAccepts(Request[c][1])
    <3>1. outcome'[c] = "success" /\ Adopt(Request[c])
      BY <1>2, <1>7, <2>4 DEF Configure, Returns
    <3>2. admission'.configured /\ admission'.effective = Settings(Request[c])
      BY <3>1 DEF Adopt, TypeOK
    <3>3. Meaning(Request[c])' = admission'.effective
      BY <1>0, <3>2 DEF Meaning, Settings,
         SettingsFor, AutomaticMaximum, Resolve
    <3>4. QED
      BY <2>1, <3>1, <3>2, <3>3 DEF Answered
  <2>5. CASE Valid(Request[c]) /\ ~admission.configured
             /\ ~NativeAccepts(Request[c][1])
    <3>1. outcome'[c] = "conflict" /\ native' = native
      BY <1>2, <1>7, <2>5 DEF Configure, Returns
    <3>2. QED
      BY <1>5, <2>5, <3>1 DEF Answered, NativeAccepts
  <2>6. QED
    BY <2>2, <2>3, <2>4, <2>5
<1>8. QED
  BY <1>3, <1>4, <1>6, <1>7

-----------------------------------------------------------------------------
(* The conversions.                                                         *)

\* What is true of each conversion by itself.
Sound(v) ==
    /\ phase[v] = "success" => inits[v] > 0 /\ calls[v] = Values
    /\ inits[v] = 0 => calls[v] = 0
    /\ phase[v] \in {"running", "sequential"} => inits[v] > 0
    /\ phase[v] \in {"idle", "refused", "admitted", "entered", "running",
                     "fallback"} => calls[v] = 0

\* A step that leaves the conversions alone, or moves one of them.
LEMMA ConversionStep ==
    ASSUME TypeOK, [Next]_vars, \A v \in Conversions : Sound(v)
    PROVE  /\ phase' \in [Conversions -> Phases]
           /\ inits' \in [Conversions -> Nat]
           /\ calls' \in [Conversions -> 0..Values]
           /\ \A v \in Conversions : Sound(v)'
<1> USE ConfigAssumption
<1>1. CASE UNCHANGED <<phase, inits, calls>>
  BY <1>1 DEF TypeOK, Sound
<1>2. ASSUME NEW v \in Conversions, Submit(v) \/ EnterRunner(v)
      PROVE  /\ phase' \in [Conversions -> Phases]
             /\ UNCHANGED <<inits, calls>>
             /\ \A u \in Conversions : Sound(u)'
  <2>1. PICK to \in {"refused", "admitted", "entered", "fallback"} :
           phase' = [phase EXCEPT ![v] = to]
    BY <1>2 DEF Submit, Admitted, EnterRunner, Goes
  <2>2. UNCHANGED <<inits, calls>>
    BY <1>2 DEF Submit, EnterRunner
  <2>3. phase[v] \in {"idle", "admitted"}
    BY <1>2 DEF Submit, EnterRunner
  <2>4. QED
    BY <2>1, <2>2, <2>3 DEF TypeOK, Sound, Phases
<1>3. ASSUME NEW v \in Conversions, InitInRun(v) \/ InitInFallback(v)
      PROVE  /\ phase' \in [Conversions -> Phases]
             /\ inits' \in [Conversions -> Nat]
             /\ UNCHANGED calls
             /\ \A u \in Conversions : Sound(u)'
  <2>1. PICK to \in {"running", "error", "fallback", "sequential"} :
           phase' = [phase EXCEPT ![v] = to]
    BY <1>3 DEF InitInRun, InitInFallback, Goes
  <2>2. inits' = [inits EXCEPT ![v] = @ + 1] /\ UNCHANGED calls
    BY <1>3 DEF InitInRun, InitInFallback
  <2>3. phase[v] \in {"entered", "fallback"}
    BY <1>3 DEF InitInRun, InitInFallback
  <2>4. QED
    BY <2>1, <2>2, <2>3 DEF TypeOK, Sound, Phases
<1>4. ASSUME NEW v \in Conversions, RunEnds(v)
      PROVE  /\ phase' \in [Conversions -> Phases]
             /\ UNCHANGED inits
             /\ calls' \in [Conversions -> 0..Values]
             /\ \A u \in Conversions : Sound(u)'
  <2>1. PICK to \in {"success", "error"} : phase' = [phase EXCEPT ![v] = to]
    BY <1>4 DEF RunEnds, Goes
  <2>2. PICK n \in 0..Values : calls' = [calls EXCEPT ![v] = n]
    BY <1>4 DEF RunEnds, TypeOK
  <2>3. to = "success" => n = Values
    BY <1>4, <2>1, <2>2 DEF RunEnds, TypeOK, Goes
  <2>4. phase[v] = "entered" => n = 0 /\ to = "error"
    BY <1>4, <2>1, <2>2 DEF RunEnds, TypeOK, Goes, Sound
  <2>5. phase[v] \in {"entered", "running"} /\ UNCHANGED inits
    BY <1>4 DEF RunEnds
  <2>6. QED
    BY <2>1, <2>2, <2>3, <2>4, <2>5 DEF TypeOK, Sound, Phases
<1>5. ASSUME NEW v \in Conversions, CallInFallback(v)
      PROVE  /\ phase' \in [Conversions -> Phases]
             /\ UNCHANGED inits
             /\ calls' \in [Conversions -> 0..Values]
             /\ \A u \in Conversions : Sound(u)'
  <2>1. PICK to \in {"sequential", "error"} : phase' = [phase EXCEPT ![v] = to]
    BY <1>5 DEF CallInFallback, Goes, TypeOK
  <2>2. /\ phase[v] = "sequential"
        /\ calls[v] < Values
        /\ calls' = [calls EXCEPT ![v] = @ + 1]
        /\ UNCHANGED inits
    BY <1>5 DEF CallInFallback
  <2>3. QED
    BY <2>1, <2>2 DEF TypeOK, Sound, Phases
<1>6. ASSUME NEW v \in Conversions, FallbackEnds(v)
      PROVE  /\ phase' \in [Conversions -> Phases]
             /\ UNCHANGED <<inits, calls>>
             /\ \A u \in Conversions : Sound(u)'
  <2>1. PICK to \in {"success", "error"} : phase' = [phase EXCEPT ![v] = to]
    BY <1>6 DEF FallbackEnds, FallbackCancelled, Goes
  <2>2. UNCHANGED <<inits, calls>>
    BY <1>6 DEF FallbackEnds
  <2>3. to = "success" => phase[v] = "sequential" /\ calls[v] = Values
    BY <1>6, <2>1 DEF FallbackEnds, FallbackCancelled, Goes, TypeOK
  <2>4. QED
    BY <2>1, <2>2, <2>3 DEF TypeOK, Sound, Phases
<1>7. CASE \E c \in Clients : Configure(c) \/ ConfigureNative(c)
  BY <1>1, <1>7 DEF Configure, ConfigureNative
<1>8. CASE UNCHANGED vars
  BY <1>1, <1>8 DEF vars
<1>9. QED
  BY <1>2, <1>3, <1>4, <1>5, <1>6, <1>7, <1>8 DEF Next, TypeOK

-----------------------------------------------------------------------------
(* The theorems.                                                            *)

LEMMA ConfigInvParts ==
    ConfigInv <=> /\ TypeOK
                  /\ SettingsOfRequest
                  /\ SettingsAgree
                  /\ \A c \in Clients : Answered(c)
                  /\ \A v \in Conversions : Sound(v)
  BY FirstWinsIsAnswered
     DEF ConfigInv, SuccessIsComplete, RunsFollowInit, Sound

LEMMA ConfigInvInit ==
    ASSUME Init
    PROVE  ConfigInv
<1> USE ConfigAssumption
<1>1. TypeOK
  BY DEF Init, TypeOK, Results, Phases
<1>2. SettingsOfRequest /\ SettingsAgree
  BY DEF Init, SettingsOfRequest, SettingsAgree
<1>3. \A c \in Clients : Answered(c)
  BY DEF Init, Answered
<1>4. \A v \in Conversions : Sound(v)
  BY DEF Init, Sound
<1>5. QED
  BY <1>1, <1>2, <1>3, <1>4, ConfigInvParts

\* What a call got in answer has one of four names.
LEMMA OutcomeType ==
    ASSUME TypeOK, [Next]_vars
    PROVE  outcome' \in [Clients -> Results]
<1>1. outcome \in [Clients -> Results]
  BY DEF TypeOK
<1>2. CASE UNCHANGED outcome
  BY <1>1, <1>2
<1>3. ASSUME NEW c \in Clients, Configure(c) \/ ConfigureNative(c)
      PROVE  outcome' \in [Clients -> Results]
  <2>1. PICK a \in Results : outcome' = [outcome EXCEPT ![c] = a]
    BY <1>3 DEF Configure, ConfigureNative, Returns, Results
  <2>2. QED
    BY <1>1, <2>1
<1>4. QED
  BY <1>2, <1>3 DEF Next, vars, Submit, EnterRunner, InitInRun, RunEnds,
                    InitInFallback, CallInFallback, FallbackEnds

LEMMA ConfigInvStep ==
    ASSUME ConfigInv, [Next]_vars
    PROVE  ConfigInv' /\ Kept
<1>1. /\ TypeOK /\ SettingsOfRequest /\ SettingsAgree
      /\ \A c \in Clients : Answered(c)
      /\ \A v \in Conversions : Sound(v)
  BY ConfigInvParts
<1>2. SettingsStep
  BY StepOfSettings
<1>3. /\ native' \in [configured : BOOLEAN, workers : Nat, pool : Nat]
      /\ admission' \in [configured : BOOLEAN, requested : Nat \X Nat,
                         effective : Nat \X Nat]
      /\ SettingsAgree'
      /\ SettingsOfRequest'
      /\ Kept
  BY <1>1, <1>2, SettingsStepEffect DEF TypeOK
<1>4. \A c \in Clients : Answered(c)'
  BY <1>1, <1>3, AnswersStay, AnswersRight
<1>5. /\ phase' \in [Conversions -> Phases]
      /\ inits' \in [Conversions -> Nat]
      /\ calls' \in [Conversions -> 0..Values]
      /\ \A v \in Conversions : Sound(v)'
  BY <1>1, ConversionStep
<1>6. outcome' \in [Clients -> Results]
  BY <1>1, OutcomeType
<1>7. TypeOK'
  BY <1>1, <1>3, <1>5, <1>6 DEF TypeOK, Kept
<1>8. ConfigInv'
  <2>1. FirstWins'
    BY <1>4 DEF FirstWins, Answered
  <2>2. SuccessIsComplete' /\ RunsFollowInit'
    BY <1>5 DEF SuccessIsComplete, RunsFollowInit, Sound
  <2>3. QED
    BY <1>3, <1>7, <2>1, <2>2 DEF ConfigInv
<1>9. QED
  BY <1>3, <1>8

\* The inductive invariant holds in every reachable state.
THEOREM ConfigInvariant == Spec => []ConfigInv
<1>1. ConfigInv /\ [Next]_vars => ConfigInv'
  BY ConfigInvStep
<1>2. QED
  BY ConfigInvInit, <1>1, PTL DEF Spec

\* The plugin's settings, the native settings and the pool agree.
THEOREM SchedulersAgree == Spec => []SettingsAgree
<1>1. ConfigInv => SettingsAgree
  BY DEF ConfigInv
<1>2. QED
  BY ConfigInvariant, <1>1, PTL

\* Whichever call configures first wins, and every other call is told so.
THEOREM FirstCallWins == Spec => []FirstWins
<1>1. ConfigInv => FirstWins
  BY DEF ConfigInv
<1>2. QED
  BY ConfigInvariant, <1>1, PTL

\* A parallel run that reports success has called init and every value.
THEOREM NoPartialSuccess == Spec => []SuccessIsComplete
<1>1. ConfigInv => SuccessIsComplete
  BY DEF ConfigInv
<1>2. QED
  BY ConfigInvariant, <1>1, PTL

\* No step changes settings in force or the size of a pool.
THEOREM SettingsNeverChange == Spec => SettingsFrozen
<1>1. ConfigInv /\ [Next]_vars =>
         [/\ native.configured =>
               native'.configured /\ native'.workers = native.workers
          /\ admission.configured => admission' = admission
          /\ native.pool # 0 => native'.pool = native.pool]_vars
  BY ConfigInvStep DEF Kept
<1>2. QED
  BY ConfigInvariant, <1>1, PTL DEF Spec, SettingsFrozen
=============================================================================
