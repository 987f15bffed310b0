SPECIFICATION Spec
CONSTANTS
    MaxProcesos = 3
    ConsolasSimultaneas = 3
    Grado = 3
    Algoritmo = "FIFO"
    Recursos <- UnRecurso
    Instancias <- Uno
    Programas <- CedeConRecurso
    RespuestasCrear = {"OK"}
    MaxCompactaciones = 0
INVARIANTS
    InstanciasCuentanBloqueados
CHECK_DEADLOCK FALSE
