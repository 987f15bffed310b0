SPECIFICATION Spec
CONSTANTS
    TamMemoria = 9
    TamSegmento0 = 1
    Algoritmos = {"FIRST"}
    Pids = {0, 1}
    Ids = {1, 2}
    Buffers = {}
    Tamanios = {2, 3}
    MaxSegmentos = 4
    Basuras <- Limpia
INVARIANTS
    SinSolapes
