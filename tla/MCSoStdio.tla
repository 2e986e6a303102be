----------------------------- MODULE MCSoStdio -----------------------------
EXTENDS SoStdio
File2 == <<1, 1>>
Offsets == {-1, 0, 1}
=============================================================================
