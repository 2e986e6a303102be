CONSTANTS PageSize = 2  Pages = 6  FileLen = 6  Headers <- Executables
SPECIFICATION Spec
INVARIANTS ImageIsFile OnlyLoadedPages WritesAreAllowed
PROPERTIES WritesSurvive AccessCompletes
CHECK_DEADLOCK FALSE
