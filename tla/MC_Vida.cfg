SPECIFICATION FairSpec
CONSTANTS
    MaxProcesos = 2
    ConsolasSimultaneas = 2
    Grado = 2
    Algoritmo = "FIFO"
    Recursos <- UnRecurso
    Instancias <- Uno
    Programas <- Entregas
    RespuestasCrear = {"OK"}
    MaxCompactaciones = 0
PROPERTIES
    TodoProcesoTermina
