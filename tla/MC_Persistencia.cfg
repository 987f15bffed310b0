SPECIFICATION Spec
CONSTANTS
    CantBloques = 7
    Palabras = 3
    Archivos = {f1, f2}
    TamaniosPedidos = {2, 4}
    Accesos <- MC_Accesos
    Textos <- MC_Textos
    HeapSinDefinir <- MC_Heap
    MaxTruncados = 2
    MaxEscrituras = 2
    MaxReinicios = 1
INVARIANT EscritoPersiste
CHECK_DEADLOCK FALSE
