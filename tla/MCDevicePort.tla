---------------------------- MODULE MCDevicePort ----------------------------
\* One preference, for they do not touch each other, with the traits of both kinds: it
\* may be lost like the gyro of the rotation lock, and chosen while the stored choice is
\* not in effect, like a background whose image is missing.  What open makes of one that
\* is not in effect is never read.  A light of three levels, and pids that can come back.
EXTENDS DevicePort

OnePreference == {"background"}
Images(p)     == {"Pattern", "first", "second"}
Pattern(p)    == "Pattern"
TwoPids       == {1, 2}
=============================================================================
