SPECIFICATION FairSpec
CONSTANTS
    Pids = {1, 2, 3}
    Archivos = {"f"}
    Posiciones = {0, 1, 2}
    Programas <- UnArchivo
INVARIANTS
    TypeOK
PROPERTIES
    ImplementaLocks
    EsperaAtendida
CHECK_DEADLOCK FALSE
