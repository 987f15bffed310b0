SPECIFICATION Spec
CONSTANTS
    MaxProcesos = 2
    ConsolasSimultaneas = 2
    Grado = 2
    Algoritmo = "FIFO"
    Recursos <- UnRecurso
    Instancias <- Uno
    Programas <- PideYDuerme
    RespuestasCrear = {"OK", "COMPACTAR"}
    MaxCompactaciones = 1
INVARIANTS
    TablasAlDia
CHECK_DEADLOCK FALSE
