SPECIFICATION FairSpec
CONSTANTS
    Registros = {"AX", "BX", "CX", "EAX"}
    Pids = {1, 2}
    Programas <- MC_Programas
    tam_max_segmento = 4
    TamMemoria = 8
    TamSegmento0 = 2
    PunterosSinIniciar = {"util", "invalido"}
    MaxAbiertos = 1
    MaxRespuestas = 2
INVARIANTS
    TypeOK
    UnContextoEnVuelo
PROPERTIES
    ImplementaMaquina
    SiempreResponde
CHECK_DEADLOCK FALSE
