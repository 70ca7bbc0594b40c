-------------------------- MODULE HttpClientProofs --------------------------
(* Proofs about HttpClient, for any set of retry limits.                   *)
EXTENDS HttpClient, TLAPS

\* The provider check stands between the start and everything else.
Checked == pc \in {"ready", "loop", "waiting", "answered", "sleeping"} \/ sent # {}
              => Allowed

\* What has been sent and waited for, at each place of the loop.
Progress ==
    /\ pc \in {"check", "ready"} => sent = {} /\ slept = {} /\ attempt = 0
    /\ pc = "loop" => /\ sent = 0..(attempt - 1)
                      /\ slept = 0..(attempt - 1)
                      /\ attempt = 0 \/ attempt <= maxRetries
    /\ pc \in {"waiting", "answered", "sleeping"} =>
         /\ sent = 0..attempt
         /\ slept = 0..(attempt - 1)
         /\ attempt <= maxRetries
    /\ pc = "sleeping" => attempt < maxRetries
    /\ pc = "answered" => last \in Outcomes

IInv == TypeOK /\ Checked /\ Progress /\ KindNamesLastAttempt /\ WaitsBetweenAttempts

\* A call that has not begun has sent nothing.
LEMMA InitHolds == Init => IInv
BY LimitsAssumption DEF Init, IInv, TypeOK, Checked, Progress, KindNamesLastAttempt,
   WaitsBetweenAttempts, Running

\* The switches are read once, so a provider that was let in stays so.
LEMMA SettingKept == UNCHANGED setting => Allowed' = Allowed
BY DEF setting, Allowed, FreeOnly, AllowPaid, EnvBool

\* Each step of request_json keeps what the call has sent, waited for and
\* raised consistent.
LEMMA StepHolds == IInv /\ [Next]_vars => IInv'
<1> SUFFICES ASSUME IInv, [Next]_vars PROVE IInv'
    OBVIOUS
<1> USE LimitsAssumption DEF IInv, TypeOK, Checked, Progress, KindNamesLastAttempt,
        WaitsBetweenAttempts, Running, Over
<1>0. maxRetries \in Int
    OBVIOUS
<1>1. CASE RequireProvider
    BY <1>0, <1>1, SettingKept DEF RequireProvider, setting, RaiseError, Kinds
<1>2. CASE EnsureHttpx
    <2>1. TypeOK'
        BY <1>2 DEF EnsureHttpx, setting, RaiseError, Kinds
    <2>2. Checked' /\ Progress'
        BY <1>0, <1>2, SettingKept DEF EnsureHttpx, setting, RaiseError
    <2>3. KindNamesLastAttempt' /\ WaitsBetweenAttempts'
        BY <1>2 DEF EnsureHttpx, setting, RaiseError
    <2> QED
        BY <2>1, <2>2, <2>3
<1>3. CASE Send
    BY <1>0, <1>3, SettingKept DEF Send, setting
<1>4. CASE NothingLeftToTry
    BY <1>0, <1>4, SettingKept DEF NothingLeftToTry, setting, RaiseError, Kinds
<1>5. CASE Answer
    BY <1>0, <1>5, SettingKept DEF Answer, setting
<1>6. CASE Retry
    BY <1>0, <1>6, SettingKept DEF Retry, setting, RaiseError, Kinds
<1>7. CASE Sleep
    BY <1>0, <1>7, SettingKept DEF Sleep, setting
<1>8. CASE Fail
    <2>1. TypeOK'
        BY <1>8 DEF Fail, setting, RaiseError, Kinds, Errors
    <2>2. Checked' /\ Progress'
        BY <1>8, SettingKept DEF Fail, setting, RaiseError
    <2>3. KindNamesLastAttempt'
        BY <1>0, <1>8 DEF Fail, setting, RaiseError, Errors
    <2>4. WaitsBetweenAttempts'
        BY <1>0, <1>8 DEF Fail, setting, RaiseError
    <2> QED
        BY <2>1, <2>2, <2>3, <2>4
<1>9. CASE Return
    BY <1>0, <1>9, SettingKept DEF Return, setting
<1>10. CASE Interrupt
    BY <1>0, <1>10, SettingKept DEF Interrupt, setting
<1>11. CASE UNCHANGED vars
    BY <1>11, SettingKept DEF vars, setting
<1> QED
    BY <1>1, <1>2, <1>3, <1>4, <1>5, <1>6, <1>7, <1>8, <1>9, <1>10, <1>11 DEF Next, Call

\* The inductive invariant of one call.
LEMMA Inductive == Spec => []IInv
BY InitHolds, StepHolds, PTL DEF Spec

\* Every variable of the call keeps its type; in particular no attempt past
\* MAX_RETRIES is ever sent, whatever the upstream answers.
THEOREM TypeCorrect == Spec => []TypeOK
BY Inductive, PTL DEF IInv

\* What the caller is told is what its last attempt met.
THEOREM KindNamesLastAttemptAlways == Spec => []KindNamesLastAttempt
BY Inductive, PTL DEF IInv

\* A call that ends of itself has waited once between any two attempts, and
\* never after its last.
THEOREM WaitsBetweenAttemptsAlways == Spec => []WaitsBetweenAttempts
BY Inductive, PTL DEF IInv

\* No setting but the owner's own word opens a provider that is not free.
THEOREM OnlyFreeUnlessOwnerSaysAlways == Spec => []OnlyFreeUnlessOwnerSays
<1>1. IInv => OnlyFreeUnlessOwnerSays
    BY DEF IInv, Checked, OnlyFreeUnlessOwnerSays, Allowed, FreeOnly, AllowPaid, EnvBool
<1> QED
    BY <1>1, Inductive, PTL

\* Each step of the call uses up some of what is left of it: no order of 429s
\* and timeouts keeps a call going, for any limit.
THEOREM EveryStepUsesUpAlways == Spec => EveryStepUsesUp
<1>1. IInv /\ [Next]_vars => [ToGo' \in Nat /\ ToGo' < ToGo]_vars
  <2> SUFFICES ASSUME IInv, Next PROVE ToGo' \in Nat /\ ToGo' < ToGo
    BY DEF vars
  <2> DEFINE attempts == IF maxRetries < 0 THEN 0 ELSE maxRetries + 1 - attempt
  <2>1. /\ maxRetries \in Int /\ attempt \in Nat
        /\ pc \in Running => attempts \in Nat
        /\ pc \in {"waiting", "answered", "sleeping"} => attempts \in Nat \ {0}
    BY LimitsAssumption DEF IInv, TypeOK, Progress, Running, Over
  <2>2. /\ pc \in Over => ToGo = 0
        /\ pc = "check" => ToGo = 4 * attempts + 6
        /\ pc = "ready" => ToGo = 4 * attempts + 5
        /\ pc = "loop" => ToGo = 4 * attempts + 4
        /\ pc = "waiting" => ToGo = 4 * attempts + 3
        /\ pc = "answered" => ToGo = 4 * attempts + 2
        /\ pc = "sleeping" => ToGo = 4 * attempts + 1
    BY DEF ToGo, Over
  <2>3. /\ pc' \in Over => ToGo' = 0
        /\ pc' = "ready" => ToGo' = 4 * attempts' + 5
        /\ pc' = "loop" => ToGo' = 4 * attempts' + 4
        /\ pc' = "waiting" => ToGo' = 4 * attempts' + 3
        /\ pc' = "answered" => ToGo' = 4 * attempts' + 2
        /\ pc' = "sleeping" => ToGo' = 4 * attempts' + 1
    BY DEF ToGo, Over
  \* A step that ends the call leaves nothing to go.
  <2>4. ASSUME pc \in Running, pc' \in Over PROVE ToGo' \in Nat /\ ToGo' < ToGo
    BY <2>1, <2>2, <2>3, <2>4 DEF Running
  \* Any other step but Sleep stays within the attempt, one place further on.
  <2>5. ASSUME UNCHANGED <<maxRetries, attempt>>,
               <<pc, pc'>> \in {<<"check", "ready">>, <<"ready", "loop">>, <<"loop", "waiting">>,
                                <<"waiting", "answered">>, <<"answered", "sleeping">>}
        PROVE  ToGo' \in Nat /\ ToGo' < ToGo
    <3>1. attempts' = attempts
      BY <2>5
    <3>2. attempts \in Nat
      BY <2>1, <2>5 DEF Running
    <3> HIDE DEF attempts
    <3> QED BY <2>2, <2>3, <2>5, <3>1, <3>2
  \* The wait is the end of an attempt.
  <2>6. CASE Sleep
    <3>1. /\ pc = "sleeping" /\ pc' = "loop" /\ attempts \in Nat \ {0}
          /\ attempts' = attempts - 1
      <4>1. ~ (maxRetries < 0)
        BY <2>1, <2>6 DEF Sleep, IInv, Progress
      <4> QED BY <2>1, <2>6, <4>1 DEF Sleep, setting
    <3> HIDE DEF attempts
    <3> QED BY <2>2, <2>3, <3>1
  <2>7. CASE RequireProvider \/ EnsureHttpx \/ Send \/ Answer \/ Retry
    BY <2>4, <2>5, <2>7 DEF RequireProvider, EnsureHttpx, Send, Answer, Retry, RaiseError,
       setting, Running, Over
  <2>8. CASE NothingLeftToTry \/ Fail \/ Return \/ Interrupt
    BY <2>4, <2>8 DEF NothingLeftToTry, Fail, Return, Interrupt, RaiseError, Running, Over
  <2> QED
    BY <2>6, <2>7, <2>8 DEF Next, Call
<1> QED
  BY <1>1, Inductive, PTL DEF Spec, EveryStepUsesUp
=============================================================================
