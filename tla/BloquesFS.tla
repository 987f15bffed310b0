----------------------------- MODULE BloquesFS -----------------------------
(***************************************************************************)
(* Bitmap, blocks file and block pointers of the Filesystem, as operators. *)
(* The unit of size and position is the word, sizeof(uint32_t): a block    *)
(* holds as many words as a block of pointers has entries.                 *)
(*                                                                         *)
(* The operators work on a record m with                                   *)
(*   bitmap, libres   the bits and the counter bloques_libres              *)
(*   bloques          the words of the blocks file                         *)
(*   cursor           the position of the stream archivo_de_bloques        *)
(*   perdible         the last word written and still in the buffer of the *)
(*                    stream, as <<position, what the file has there>>     *)
(*   tam, directo, indirecto   the FCB of the file the operation is about  *)
(* A seek to a negative position fails and leaves the stream where it was; *)
(* a bit outside the bitmap is not changed (shift by a negative count).    *)
(***************************************************************************)
EXTENDS Integers, FiniteSets, SequencesExt

CONSTANTS
    CantBloques,    \* BLOCK_COUNT
    Palabras        \* BLOCK_SIZE / sizeof(uint32_t)

ASSUME BloquesAssumption ==
    /\ CantBloques \in Nat \ {0}
    /\ Palabras \in Nat \ {0}

NumerosDeBloque == 0 .. CantBloques - 1
Posiciones == 0 .. CantBloques * Palabras - 1
tam_max_archivo == Palabras * (Palabras + 1)
Indefinido == -2        \* a word no write defined

\* n turns of a loop that starts from m
Bucle(Vuelta(_, _), m, n) ==
    LET x[i \in 0 .. n] == IF i = 0 THEN m ELSE Vuelta(x[i - 1], i) IN x[n]

-----------------------------------------------------------------------------
(* Bitmap. *)

\* the first free block, or -1
buscarBloqueLibre(m) ==
    LET sueltos == {b \in NumerosDeBloque : ~m.bitmap[b]}
    IN  IF sueltos = {} THEN -1 ELSE Min(sueltos)

\* Mutant of ocuparBloque: bloques_libres-- is missing.
ocuparBloqueMutante(m, b) ==
    [m EXCEPT !.bitmap = [x \in NumerosDeBloque |-> @[x] \/ x = b]]

ocuparBloque(m, b) ==
    [m EXCEPT !.bitmap = [x \in NumerosDeBloque |-> @[x] \/ x = b], !.libres = @ - 1]

desocuparBloque(m, b) ==
    [m EXCEPT !.bitmap = [x \in NumerosDeBloque |-> @[x] /\ x # b], !.libres = @ + 1]

\* one after the other
desocuparBloques(m, bloques) ==
    [m EXCEPT !.bitmap = [x \in NumerosDeBloque |-> @[x] /\ x \notin ToSet(bloques)],
              !.libres = @ + Len(bloques)]

-----------------------------------------------------------------------------
(* Blocks file. *)

\* external: fseek, which also flushes the buffer
fseek(m, pos) ==
    [m EXCEPT !.cursor = IF pos >= 0 THEN pos ELSE @, !.perdible = <<>>]

\* external: what fread of n words finds at the position of the stream
fread(m, n) ==
    [i \in 1 .. n |-> IF m.cursor + i - 1 \in Posiciones
                      THEN m.bloques[m.cursor + i - 1] ELSE Indefinido]

\* external: fwrite; what goes past the last block is not followed
fwrite(m, datos) ==
    LET fin == m.cursor + Len(datos)
    IN  [m EXCEPT !.bloques = [p \in Posiciones |->
                                 IF p \in m.cursor .. fin - 1
                                 THEN datos[p - m.cursor + 1] ELSE @[p]],
                  !.cursor = fin]

\* the write is followed by a read of the same size, which flushes it
escribirEnBloqueDeDatos(m, datos, pos) ==
    [fwrite(fseek(m, pos), datos) EXCEPT !.cursor = @ + Len(datos)]

\* the block at pos, whatever pos is, and the stream after it
leerUnBloqueDeDatos(m, pos) == fread(fseek(m, pos), Palabras)
trasLeerUnBloque(m, pos) == [fseek(m, pos) EXCEPT !.cursor = @ + Palabras]

escribirEnBloqueDePunteros(m, indice, valor, bloque) ==
    LET s == fseek(m, Palabras * bloque + indice)
    IN  [fwrite(s, <<valor>>) EXCEPT
            !.perdible = IF s.cursor \in Posiciones
                         THEN <<s.cursor, s.bloques[s.cursor]>> ELSE <<>>]

leerEnBloqueDePunteros(m, bloque) == leerUnBloqueDeDatos(m, Palabras * bloque)

-----------------------------------------------------------------------------
(* Truncation. *)

\* the count of blocks asked for a new size, and that supposed of the old one
NuevaCantidad(n) == IF n = 0 THEN 0 ELSE n \div Palabras + 1
CantidadActual(tam) == tam \div Palabras + 1

AsignaDirecto(m) ==
    LET b == buscarBloqueLibre(m) IN [ocuparBloque(m, b) EXCEPT !.directo = b]

\* Mutant of AsignaIndirecto: the block of pointers is not marked as taken.
AsignaIndirectoMutante(m) == [m EXCEPT !.indirecto = buscarBloqueLibre(m)]

AsignaIndirecto(m) ==
    LET b == buscarBloqueLibre(m) IN [ocuparBloque(m, b) EXCEPT !.indirecto = b]

\* one more data block, at that index of the block of pointers
AsignaPuntero(m, indice) ==
    LET b == buscarBloqueLibre(m)
    IN  escribirEnBloqueDePunteros(ocuparBloque(m, b), indice, b, m.indirecto)

\* cant more, from that index on
AsignaPunteros(m, indice, cant) ==
    Bucle(LAMBDA x, i : AsignaPuntero(x, indice + i - 1), m, cant)

\* up to one block there is always a new direct block; otherwise the blocks
\* that a file of tam words lacks, and cant data blocks
truncarMasBloques(m, cant, n) ==
    LET indice   == IF m.tam > 0 THEN m.tam \div Palabras - 1 ELSE 0
        directo  == IF m.tam = 0 THEN AsignaDirecto(m) ELSE m
        conLista == IF m.tam <= Palabras THEN AsignaIndirecto(directo) ELSE directo
    IN  IF n <= Palabras THEN AsignaDirecto(m)
        ELSE AsignaPunteros(conLista, indice, cant)

\* all the blocks go, the direct one too, and then one less of the list
BorraTodo(cant, cantActual) == cant = cantActual
EntradasABorrar(cant, cantActual) == IF BorraTodo(cant, cantActual) THEN cant - 1 ELSE cant

\* what the entries 1 .. aBorrar of the list say; past the block that was read
\* they are what the heap holds
PunterosABorrar(m, aBorrar, heap) ==
    LET lista == leerEnBloqueDePunteros(m, m.indirecto)
    IN  [i \in 1 .. aBorrar |-> IF i < Palabras THEN lista[i + 1] ELSE heap[i]]

truncarMenosBloques(m, cant, cantActual, heap) ==
    LET aBorrar  == EntradasABorrar(cant, cantActual)
        directo  == IF BorraTodo(cant, cantActual) THEN desocuparBloque(m, m.directo) ELSE m
        leido    == trasLeerUnBloque(directo, Palabras * m.indirecto)
        sinDatos == desocuparBloques(leido, PunterosABorrar(m, aBorrar, heap))
    IN  IF cantActual - aBorrar - 1 = 0 THEN desocuparBloque(sinDatos, m.indirecto)
        ELSE sinDatos

\* truncarArchivo, once the checks passed: what changes before the new size is
\* set and saved
truncar(m, n, heap) ==
    LET diferencia == NuevaCantidad(n) - CantidadActual(m.tam)
    IN  IF n > m.tam THEN truncarMasBloques(m, diferencia, n)
        ELSE truncarMenosBloques(m, - diferencia, CantidadActual(m.tam), heap)

-----------------------------------------------------------------------------
(* Reads and writes of words. *)

\* Mutant of escribirArchDesdePunteroDirecto: the part of the first block is
\* one block long wherever it starts.
ParteDirectaMutante(puntero, datos) == Min({Palabras, Len(datos)})

\* how many words of a write that starts in the first block go to it
ParteDirecta(puntero, datos) ==
    IF Palabras - puntero - Len(datos) > 0 THEN Len(datos) ELSE Palabras - puntero

\* how many blocks n words take, and the words of datos that go to the i-th
Trozos(n) == (n + Palabras - 1) \div Palabras
Trozo(datos, i) == SubSeq(datos, (i - 1) * Palabras + 1, Min({i * Palabras, Len(datos)}))

\* where the i-th block of a list starts
InicioDe(lista, i) == (IF i <= Palabras THEN lista[i] ELSE Indefinido) * Palabras

EscribeTrozos(m, lista, datos) ==
    Bucle(LAMBDA x, i : escribirEnBloqueDeDatos(x, Trozo(datos, i), InicioDe(lista, i)),
          m, Trozos(Len(datos)))

\* the list is always walked from its first entry, from the start of a block
escribirArchDesdePunteroIndirecto(m, datos) ==
    LET lista == leerEnBloqueDePunteros(m, m.indirecto)
        leido == trasLeerUnBloque(m, Palabras * m.indirecto)
    IN  EscribeTrozos(leido, lista, datos)

escribirArchDesdePunteroDirecto(m, puntero, datos) ==
    LET k == ParteDirecta(puntero, datos)
        primero == escribirEnBloqueDeDatos(m, SubSeq(datos, 1, k),
                                           m.directo * Palabras + puntero)
    IN  IF k = Len(datos) /\ puntero + k < Palabras THEN primero
        ELSE escribirArchDesdePunteroIndirecto(primero, SubSeq(datos, k + 1, Len(datos)))

\* escribirArchivo, once the checks passed
escribir(m, puntero, datos) ==
    CASE m.tam <= Palabras ->
           escribirEnBloqueDeDatos(m, datos, m.directo * Palabras + puntero)
      [] m.tam > Palabras /\ puntero < Palabras ->
           escribirArchDesdePunteroDirecto(m, puntero, datos)
      [] OTHER -> escribirArchDesdePunteroIndirecto(m, datos)

\* Mutant of PosicionDeLectura: the pointer of the file is ignored.
PosicionDeLecturaMutante(m, puntero) == m.directo * Palabras

\* where a read that starts in the first block takes its words from
PosicionDeLectura(m, puntero) == m.directo * Palabras + puntero

Nada(n) == [i \in 1 .. n |-> Indefinido]

\* the n words from there, of the block that is read, and the stream after it
leerSeguido(m, puntero, n) ==
    [datos |-> {SubSeq(leerUnBloqueDeDatos(m, PosicionDeLectura(m, puntero)) \o Nada(n), 1, n)},
     m |-> trasLeerUnBloque(m, PosicionDeLectura(m, puntero))]

LeeTrozos(m, lista, n) ==
    Bucle(LAMBDA x, i : trasLeerUnBloque(x, InicioDe(lista, i)), m, Trozos(n))

\* the blocks of the list, from its first entry; strcat puts them after whatever
\* string the heap holds: right if that one is empty
leerArchDesdePunteroIndirecto(m, n) ==
    LET lista  == leerEnBloqueDePunteros(m, m.indirecto)
        leido  == trasLeerUnBloque(m, Palabras * m.indirecto)
        todo   == FlattenSeq([i \in 1 .. Trozos(n) |-> leerUnBloqueDeDatos(m, InicioDe(lista, i))])
    IN  [datos |-> {SubSeq(todo, 1, n), Nada(n)},
         m |-> LeeTrozos(leido, lista, n)]

\* block_size - puntero - tamanio_a_leer is unsigned: it is positive, and the
\* words after the block are taken for those of the file, unless it is zero
leerArchDesdePunteroDirecto(m, puntero, n) ==
    LET seguido == leerSeguido(m, puntero, n)
    IN  IF Palabras - puntero - n # 0 THEN seguido
        ELSE [datos |-> seguido.datos \cup {Nada(n)},
              m |-> leerArchDesdePunteroIndirecto(seguido.m, 0).m]

\* leerArchivo, once the checks passed
leer(m, puntero, n) ==
    CASE m.tam <= Palabras -> leerSeguido(m, puntero, n)
      [] m.tam > Palabras /\ puntero < Palabras -> leerArchDesdePunteroDirecto(m, puntero, n)
      [] OTHER -> leerArchDesdePunteroIndirecto(m, n)
=============================================================================
