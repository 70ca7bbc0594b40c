----------------------------- MODULE HttpClient -----------------------------
(***************************************************************************)
(* src/book_stock/http_client.py: one call of request_json, from the       *)
(* provider check (policy.py, under the switches config.py reads from the  *)
(* environment) through its bounded retries.  The upstream may answer      *)
(* anything, answer too late, or not at all.                               *)
(***************************************************************************)
EXTENDS Integers, FiniteSets

CONSTANT Limits  \* the values MAX_RETRIES may be set to

ASSUME LimitsAssumption == Limits \subseteq Int

VARIABLES
    env,        \* what FREE_ONLY and ALLOW_PAID_PROVIDERS say
    listed,     \* how PROVIDERS classifies the provider, if it does
    maxRetries, \* MAX_RETRIES, which int() lets be negative
    pc,         \* where the call is
    attempt,    \* the loop variable
    sent,       \* the attempts whose request was sent
    slept,      \* the attempts after which the call waited
    last,       \* how the latest attempt went
    kind        \* what the call raised; "none" until then

vars == <<env, listed, maxRetries, pc, attempt, sent, slept, last, kind>>
setting == <<env, listed, maxRetries>>

Words == {"absent", "blank", "yes", "no", "typo"}
Switches == {"FREE_ONLY", "ALLOW_PAID_PROVIDERS"}
Classes == {"free", "blocked", "unknown", "misspelt", "absent"}

\* A transport may fail ("broken"), and a body with status 200 may be longer
\* than MAX_RESPONSE_BYTES or not be JSON.
Errors == {"http_error", "size_limit", "broken", "not_json"}
Outcomes == Errors \cup {"rate_limit", "timeout", "json"}
Kinds == {"permission", "dependency", "rate_limit", "timeout", "http_error",
          "size_limit", "network"}

Running == {"check", "ready", "loop", "waiting", "answered", "sleeping"}
Over == {"returned", "raised", "interrupted"}

TypeOK ==
    /\ env \in [Switches -> Words]
    /\ listed \in Classes
    /\ maxRetries \in Limits
    /\ pc \in Running \cup Over
    /\ attempt \in Nat
    /\ sent \subseteq 0..maxRetries
    /\ slept \subseteq 0..maxRetries
    /\ last \in Outcomes \cup {"none"}
    /\ kind \in Kinds \cup {"none"}

Init ==
    /\ env \in [Switches -> Words]
    /\ listed \in Classes
    /\ maxRetries \in Limits
    /\ pc = "check"
    /\ attempt = 0
    /\ sent = {} /\ slept = {}
    /\ last = "none" /\ kind = "none"

-----------------------------------------------------------------------------
(* config.env_bool and policy.evaluate_provider                            *)

\* Faulty variant: whatever is set and not true-ish is false.
EnvBoolTrueOrFalse(name, default) ==
    env[name] = "yes" \/ (default /\ env[name] = "absent")

\* A blank or unrecognised value keeps the default.
EnvBool(name, default) ==
    env[name] = "yes" \/ (default /\ env[name] # "no")

FreeOnly == EnvBool("FREE_ONLY", TRUE)
AllowPaid == EnvBool("ALLOW_PAID_PROVIDERS", FALSE)

\* A provider PROVIDERS does not list, or lists with a word it does not know,
\* is refused whatever the switches say.
Allowed == \/ listed = "free"
           \/ listed = "unknown" /\ ~(FreeOnly /\ ~AllowPaid)

-----------------------------------------------------------------------------
(* request_json                                                            *)

RaiseError(k) == pc' = "raised" /\ kind' = k

RequireProvider ==
    /\ pc = "check"
    /\ IF Allowed THEN pc' = "ready" /\ UNCHANGED kind ELSE RaiseError("permission")
    /\ UNCHANGED <<setting, attempt, sent, slept, last>>

EnsureHttpx ==
    /\ pc = "ready"
    /\ \/ pc' = "loop" /\ UNCHANGED kind
       \/ RaiseError("dependency")
    /\ UNCHANGED <<setting, attempt, sent, slept, last>>

\* Faulty variant: range(MAX_RETRIES + 2).
SendOnceMore ==
    /\ pc = "loop" /\ attempt <= maxRetries + 1
    /\ sent' = sent \cup {attempt}
    /\ pc' = "waiting"
    /\ UNCHANGED <<setting, attempt, slept, last, kind>>

Send ==
    /\ pc = "loop" /\ attempt <= maxRetries
    /\ sent' = sent \cup {attempt}
    /\ pc' = "waiting"
    /\ UNCHANGED <<setting, attempt, slept, last, kind>>

\* The loop is over: only when MAX_RETRIES is negative.
NothingLeftToTry ==
    /\ pc = "loop" /\ attempt > maxRetries
    /\ RaiseError("network")
    /\ UNCHANGED <<setting, attempt, sent, slept, last>>

Answer ==
    /\ pc = "waiting"
    /\ last' \in Outcomes
    /\ pc' = "answered"
    /\ UNCHANGED <<setting, attempt, sent, slept, kind>>

\* Faulty variant: one wait too many, after the last attempt.
RetryOffByOne ==
    /\ pc = "answered" /\ last \in {"rate_limit", "timeout"}
    /\ IF attempt > maxRetries THEN RaiseError(last)
                               ELSE pc' = "sleeping" /\ UNCHANGED kind
    /\ UNCHANGED <<setting, attempt, sent, slept, last>>

\* Faulty variant: a retry goes round the same attempt again.
RetrySameAttempt ==
    /\ pc = "answered" /\ last \in {"rate_limit", "timeout"}
    /\ pc' = "loop"
    /\ UNCHANGED <<setting, attempt, sent, slept, last, kind>>

\* HTTP 429, or an exception whose name or text says "timeout".
Retry ==
    /\ pc = "answered" /\ last \in {"rate_limit", "timeout"}
    /\ IF attempt >= maxRetries THEN RaiseError(last)
                                ELSE pc' = "sleeping" /\ UNCHANGED kind
    /\ UNCHANGED <<setting, attempt, sent, slept, last>>

\* Faulty variant: the wait does not use up an attempt.
SleepForFree ==
    /\ pc = "sleeping"
    /\ slept' = slept \cup {attempt}
    /\ pc' = "loop"
    /\ UNCHANGED <<setting, attempt, sent, last, kind>>

\* sleep(min(2 ** attempt, 8)), then the next attempt.
Sleep ==
    /\ pc = "sleeping"
    /\ slept' = slept \cup {attempt}
    /\ attempt' = attempt + 1
    /\ pc' = "loop"
    /\ UNCHANGED <<setting, sent, last, kind>>

\* An UpstreamError goes on as it is, any other exception becomes "network".
Fail ==
    /\ pc = "answered" /\ last \in Errors
    /\ RaiseError(IF last \in {"http_error", "size_limit"} THEN last ELSE "network")
    /\ UNCHANGED <<setting, attempt, sent, slept, last>>

Return ==
    /\ pc = "answered" /\ last = "json"
    /\ pc' = "returned"
    /\ UNCHANGED <<setting, attempt, sent, slept, last, kind>>

\* Ctrl-C: KeyboardInterrupt is no Exception, so nothing catches it.
Interrupt ==
    /\ pc \in Running
    /\ pc' = "interrupted"
    /\ UNCHANGED <<setting, attempt, sent, slept, last, kind>>

-----------------------------------------------------------------------------
Call == \/ RequireProvider \/ EnsureHttpx \/ Send \/ NothingLeftToTry
        \/ Retry \/ Sleep \/ Fail \/ Return

Next == Call \/ Answer \/ Interrupt

\* The call's own steps are taken; that an attempt is ever answered is not
\* assumed, since the timeout bounds each read and not the whole response.
Spec == Init /\ [][Next]_vars /\ WF_vars(Call)

-----------------------------------------------------------------------------
(* Properties                                                              *)

\* config.py:32 and policy.py:47: a provider that is not known to be free gets
\* a request only if PROVIDERS calls it unknown and the owner has said so in
\* words: a blank line or a typo in .env opens nothing.
OnlyFreeUnlessOwnerSays ==
    sent # {} /\ listed # "free" =>
        /\ listed = "unknown"
        /\ env["FREE_ONLY"] = "no" \/ env["ALLOW_PAID_PROVIDERS"] = "yes"

\* http_client.py:67-97: the kind a caller sees is what the last attempt met, not
\* an earlier one; only a negative MAX_RETRIES reports a network that no
\* request has touched.
KindNamesLastAttempt ==
    pc = "raised" =>
        \/ kind \in {"permission", "dependency"} /\ sent = {}
        \/ kind = "network" /\ last \in {"broken", "not_json"}
        \/ kind = "network" /\ maxRetries < 0 /\ sent = {}
        \/ kind = last /\ sent # {}

\* http_client.py:50-94: the attempts are 0, 1, ... in order, each one after the
\* first bought by exactly one wait; a call that ends of itself has not waited
\* after its last attempt.
WaitsBetweenAttempts ==
    pc \in {"returned", "raised"} => slept = { a \in 0..maxRetries : a + 1 \in sent }

\* What is left of a call: the attempts, and the way through the present one.
ToGo ==
    LET attempts == IF maxRetries < 0 THEN 0 ELSE maxRetries + 1 - attempt
        steps == [check |-> 6, ready |-> 5, loop |-> 4, waiting |-> 3, answered |-> 2,
                  sleeping |-> 1]
    IN  IF pc \in Over THEN 0 ELSE 4 * attempts + steps[pc]

\* http_client.py:50: no step is taken for free. Each brings the call nearer its
\* end, whatever the upstream answers and in whichever order 429s and timeouts
\* come, so that a call makes at most 4 * (MAX_RETRIES + 1) + 6 steps.
EveryStepUsesUp == [][ToGo' \in Nat /\ ToGo' < ToGo]_vars

\* Every call ends, whatever the answers are, unless it waits forever for one.
EndsIfAnswered == []<>(pc # "waiting") => <>(pc \in Over)
=============================================================================
