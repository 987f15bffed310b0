SPECIFICATION Spec
CONSTANTS
    Pids = {1, 2, 3}
    Archivos = {"f", "g"}
    Posiciones = {0}
    Programas <- DosArchivos
INVARIANTS
    UnSoloDuenio
CHECK_DEADLOCK FALSE
