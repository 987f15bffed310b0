SPECIFICATION Spec
CONSTANTS
    TamMemoria = 8
    TamSegmento0 = 1
    Algoritmos = {"FIRST"}
    Pids = {0, 1}
    Ids = {1, 2}
    Buffers <- UnBuffer
    Tamanios = {2, 3}
    MaxSegmentos = 3
    Basuras <- Limpia
INVARIANTS
    TransferenciaEnSuSegmento
