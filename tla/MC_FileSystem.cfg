SPECIFICATION Spec
CONSTANTS
    CantBloques = 7
    Palabras = 3
    Archivos = {f1, f2}
    TamaniosPedidos = {0, 3, 7, 12, 13}
    Accesos <- MC_Accesos
    Textos <- MC_Textos
    HeapSinDefinir <- MC_Heap
    MaxTruncados = 2
    MaxEscrituras = 2
    MaxReinicios = 1
INVARIANTS
    TypeOK
    SinBloquesCompartidos
    BitmapAlDia
    LoEscritoQueda
    LeeLoEscrito
PROPERTY ImplementaDirectorio
CHECK_DEADLOCK FALSE
