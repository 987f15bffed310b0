SPECIFICATION FairSpec
CONSTANTS
    MaxProcesos = 2
    ConsolasSimultaneas = 2
    Grado = 1
    Algoritmo = "FIFO"
    Recursos <- UnRecurso
    Instancias <- Uno
    Programas <- SoloSale
    RespuestasCrear = {"OK"}
    MaxCompactaciones = 0
PROPERTIES
    TodoProcesoTermina
CHECK_DEADLOCK FALSE
