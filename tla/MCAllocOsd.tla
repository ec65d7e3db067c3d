----------------------------- MODULE MCAllocOsd -----------------------------
EXTENDS AllocOsd

CONSTANTS a1, a2, a3

\* OSDs 1 and 2 exist; other tools may start OSD 3 or 4 by number.
MCInitStats == {1, 2}
MCExtIds == {3, 4}
=============================================================================
