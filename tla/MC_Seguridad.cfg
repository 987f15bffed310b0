SPECIFICATION Spec
CONSTANTS
    MaxProcesos = 2
    ConsolasSimultaneas = 2
    Grado = 2
    Algoritmo = "HRRN"
    Recursos <- UnRecurso
    Instancias <- Uno
    Programas <- ConMemoria
    RespuestasCrear = {"OK", "COMPACTAR"}
    MaxCompactaciones = 1
INVARIANTS
    DuenioUnico
    BuzonesIntactos
    TablaPropia
    SinAvisoPerdido
    IOConSuTiempo
    OperacionTerminada
