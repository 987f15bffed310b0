SPECIFICATION FairSpec
CONSTANTS
    Registros = {"AX", "BX", "CX", "EAX"}
    Pids = {1, 2}
    Programas <- MC_Calla
    tam_max_segmento = 4
    TamMemoria = 8
    TamSegmento0 = 2
    PunterosSinIniciar = {"util"}
    MaxAbiertos = 1
    MaxRespuestas = 2
INVARIANTS
    SegFaultAvisado
CHECK_DEADLOCK FALSE
