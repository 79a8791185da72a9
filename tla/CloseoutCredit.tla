--------------------------- MODULE CloseoutCredit ---------------------------
(***************************************************************************)
(* The credit a closeout earns (closeout_credit in                         *)
(* growth/domain/composite_scoring.py), in units of the four decimal       *)
(* places the code rounds to.                                              *)
(***************************************************************************)
EXTENDS Integers

CONSTANTS
    MinimumCredit,   \* minimum_closeout_credit of the scoring policy
    FullCredit       \* full_closeout_credit

ASSUME PolicyAssumption ==
    /\ MinimumCredit \in Nat \ {0}
    /\ FullCredit \in Nat
    /\ MinimumCredit =< FullCredit

\* The arguments closeout_credit accepts; it raises an error for all others.
Accepted(completed, total, minimum) ==
    /\ total > 0
    /\ minimum > 0 /\ minimum =< total
    /\ minimum =< completed /\ completed =< total

\* n / d to the nearest integer, halves upwards (ROUND_HALF_UP of a positive quotient).
RoundHalfUp(n, d) == (2 * n + d) \div (2 * d)

CreditFor(completed, total, minimum) ==
    IF completed = total \/ minimum = total
      THEN FullCredit
      ELSE MinimumCredit
             + RoundHalfUp((FullCredit - MinimumCredit) * (completed - minimum), total - minimum)
=============================================================================
