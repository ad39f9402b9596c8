------------------------------ MODULE HttpRetry ------------------------------
(***************************************************************************)
(* send_with_retry_raw (src/src/http.rs), as the Slack notifier uses it    *)
(* while it holds the notification claim of an account: attempts with a    *)
(* timeout each, and waits between them that the server may ask for.       *)
(*                                                                         *)
(* Time is counted in units of BaseDelay, 500 ms.  An attempt and the wait *)
(* after it are one step.                                                  *)
(***************************************************************************)
EXTENDS Naturals

CONSTANTS
  MaxRetries,     \* RetryConfig::max_retries
  BaseDelay,      \* RetryConfig::base_delay
  Timeout,        \* of one attempt
  MaxRetryAfter,  \* the longest wait a server is granted
  ClaimTTL,       \* NOTIFICATION_CLAIM_SECS
  Took,           \* how long an attempt may take
  RetryAfter      \* the waits servers ask for

\* What the client waits before the retry after attempt n, counted from 0.  The
\* 32-bit saturation of the code is out of reach of MaxRetries.
Backoff(n) == BaseDelay * 2^n

ASSUME RetryAssumption ==
  /\ {MaxRetries, BaseDelay, Timeout, MaxRetryAfter, ClaimTTL} \subseteq Nat
  /\ Took \subseteq 0..Timeout
  /\ RetryAfter \subseteq Nat
  /\ \A n \in 0..MaxRetries : Backoff(n) \in Nat
  /\ \A n \in 0..MaxRetries : n < MaxRetries => Backoff(n) <= MaxRetryAfter
  /\ (MaxRetries + 1) * (Timeout + MaxRetryAfter) < ClaimTTL

VARIABLES
  delivery,   \* of one message: not begun, under way, or how it ended
  attempt,    \* 0-based
  spent       \* time since the claim was taken

httpVars == <<delivery, attempt, spent>>

HttpTypeOK ==
  /\ delivery \in {"none", "sending", "ok", "failed"}
  /\ attempt \in 0..MaxRetries
  /\ spent \in Nat

HttpInit == delivery = "none" /\ attempt = 0 /\ spent = 0

-----------------------------------------------------------------------------
\* Mutant of GrantedWait: the header is taken at its word.
GrantedWaitUncapped(asked) == asked
GrantedWait(asked) == IF asked < MaxRetryAfter THEN asked ELSE MaxRetryAfter

Post ==
  /\ delivery = "none"
  /\ delivery' = "sending"
  /\ UNCHANGED <<attempt, spent>>

Ends(how, took) ==
  /\ delivery = "sending"
  /\ delivery' = how
  /\ spent' = spent + took
  /\ UNCHANGED attempt

Retry(took, wait) ==
  /\ delivery = "sending"
  /\ attempt < MaxRetries
  /\ attempt' = attempt + 1
  /\ spent' = spent + took + wait
  /\ UNCHANGED delivery

\* 429 or 5xx, with a Retry-After header or without.
RetryStatus ==
  \E took \in Took :
    \/ \E asked \in RetryAfter : Retry(took, GrantedWait(asked))
    \/ Retry(took, Backoff(attempt))

\* A timeout, or no connection.
RetryError == \E took \in Took : Retry(took, Backoff(attempt))

Succeeds == \E took \in Took : Ends("ok", took)

\* Another status or error; or a retryable one, with no retries left.
GivesUp == \E took \in Took : Ends("failed", took)

\* The claim is released, and the notifier goes on to another account.
Settled ==
  /\ delivery \in {"ok", "failed"}
  /\ delivery' = "none" /\ attempt' = 0 /\ spent' = 0

HttpNext == Post \/ RetryStatus \/ RetryError \/ Succeeds \/ GivesUp \/ Settled
HttpSpec == HttpInit /\ [][HttpNext]_httpVars

-----------------------------------------------------------------------------
\* The claim of an account outlives every delivery made under it, whatever the
\* waits Slack asks for: no other run can post meanwhile (src/src/redis.rs:18).
ClaimOutlivesDelivery == spent < ClaimTTL
=============================================================================
