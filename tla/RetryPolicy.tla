----------------------------- MODULE RetryPolicy -----------------------------
(***************************************************************************)
(* The decisions of shared/src/kafka/retry/retry-policy.ts that the retry  *)
(* executor takes after a handler threw.  "nextAttempt" is the header      *)
(* count of the record in hand plus one, as in the code: getRetryCount     *)
(* turns a missing x-retry-count header into 0.                            *)
(***************************************************************************)
EXTENDS Integers

(* Whether the failed record may be republished once more. *)
ShouldRetry(nextAttempt, maxAttempts) == nextAttempt < maxAttempts

\* Mutant: the boundary is off by one, the last attempt is never made.
ShouldSendToDlqTooEarly(nextAttempt, maxAttempts) == nextAttempt + 1 >= maxAttempts

(* Whether the failure has used up the attempt budget. *)
ShouldSendToDlq(nextAttempt, maxAttempts) == nextAttempt >= maxAttempts

\* Mutant: one attempt more than the budget.
GoesToDlqTooLate(nextAttempt, maxAttempts) == nextAttempt > maxAttempts

(***************************************************************************)
(* execute tests ShouldSendToDlq first and falls through to the DLQ when   *)
(* neither test holds.                                                     *)
(***************************************************************************)
GoesToDlq(nextAttempt, maxAttempts) ==
    ShouldSendToDlq(nextAttempt, maxAttempts) \/ ~ShouldRetry(nextAttempt, maxAttempts)
==============================================================================
