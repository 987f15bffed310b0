SPECIFICATION FairSpec
CONSTANTS
    TamMemoria = 8
    TamSegmento0 = 1
    Algoritmos = {"BEST","WORST","FIRST"}
    Pids = {0, 1}
    Ids = {1, 2}
    Buffers <- UnBuffer
    Tamanios = {2, 3}
    MaxSegmentos = 3
    Basuras <- ConBasura
INVARIANTS
    TypeOK
    SinSolapes
    HuecosLibres
PROPERTIES
    ImplementaVirtual
    CompactarAlcanza
