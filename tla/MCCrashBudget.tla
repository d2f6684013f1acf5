--------------------------- MODULE MCCrashBudget ---------------------------
\* A clock of six seconds, a window of two, and a last representable second
\* that a retry time can pass.  Two starts exhaust the budget.
EXTENDS CrashBudget

CONSTANTS p1, p2

TwoPids == {p1, p2}
=============================================================================
