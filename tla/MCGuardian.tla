----------------------------- MODULE MCGuardian -----------------------------
\* Two applications, of which one keeps the device awake; either may be
\* stock-mediated.
\* A launch may carry the index of either, or one that is not registered.
EXTENDS Guardian

CONSTANTS none, awake, plain, unlisted

AllApps   == {awake, plain}
AwakeApps == {awake}
AnyIndex  == AllApps \cup {unlisted}
=============================================================================
