SPECIFICATION Spec
CONSTANTS
    MaxProcesos = 2
    ConsolasSimultaneas = 2
    Grado = 2
    Algoritmo = "FIFO"
    Recursos <- UnRecurso
    Instancias <- Uno
    Programas <- LeeArchivo
    RespuestasCrear = {"OK"}
    MaxCompactaciones = 0
INVARIANTS
    ParametrosPropios
CHECK_DEADLOCK FALSE
