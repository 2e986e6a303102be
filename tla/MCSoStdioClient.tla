-------------------------- MODULE MCSoStdioClient --------------------------
EXTENDS SoStdioClient
File3 == <<200, 0, 200>>
Offsets == {-1, 0, 2}
=============================================================================
