SPECIFICATION FairSpec
CONSTANTS
    MaxProcesos = 2
    ConsolasSimultaneas = 2
    Grado = 2
    Algoritmo = "FIFO"
    Recursos <- UnRecurso
    Instancias <- Uno
    Programas <- Entregas
    RespuestasCrear = {"OK", "ERROR"}
    MaxCompactaciones = 0
CHECK_DEADLOCK FALSE
PROPERTIES
    TodoProcesoTermina
