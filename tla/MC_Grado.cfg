SPECIFICATION Spec
CONSTANTS
    MaxProcesos = 3
    ConsolasSimultaneas = 2
    Grado = 1
    Algoritmo = "FIFO"
    Recursos <- UnRecurso
    Instancias <- Uno
    Programas <- Cortos
    RespuestasCrear = {"OK", "ERROR"}
    MaxCompactaciones = 0
INVARIANTS
    TypeOK
    PermisosConservados
    AvisosDeAlta
    LiberaLoQueMemoriaSolto
PROPERTIES
    ImplementaCiclo
CHECK_DEADLOCK FALSE
