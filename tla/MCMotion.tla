------------------------------- MODULE MCMotion -------------------------------
EXTENDS Motion

\* Values with a sign, which a configuration cannot hold.
MCLow == -6
MCLifts == {-2}
===============================================================================
