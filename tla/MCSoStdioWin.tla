---------------------------- MODULE MCSoStdioWin ----------------------------
EXTENDS SoStdioWinClient
File2 == <<200, 0>>
Offsets == {-1, 0, 1}
=============================================================================
