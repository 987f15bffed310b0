----------------------------- MODULE FileSystem -----------------------------
(***************************************************************************)
(* The Filesystem process: atenderReqKernel with the operations it calls,  *)
(* the dictionary of FCBs and their files, the start-up of main, and a     *)
(* crash at any point followed by a restart.  The Kernel and Memoria, at   *)
(* the other end of the sockets, are the environment: the Kernel asks one  *)
(* thing at a time, on files it opened.                                    *)
(*                                                                         *)
(* One request is one step, except where a crash in the middle leaves      *)
(* something on disk that neither its start nor its end leaves: the two    *)
(* calls of config_save (fopen "w", then the text) and what comes before.  *)
(***************************************************************************)
EXTENDS BloquesFS

CONSTANTS
    Archivos,           \* names of files
    TamaniosPedidos,    \* sizes F_TRUNCATE is called with
    Accesos,            \* <<pointer, words>> of F_READ
    Textos,             \* texts F_WRITE finds in Memoria
    HeapSinDefinir,     \* what an int read past a malloc'd block may be
    MaxTruncados, MaxEscrituras, MaxReinicios   \* bounds of the model

ASSUME FileSystemAssumption ==
    /\ TamaniosPedidos \subseteq Nat
    /\ \A a \in Accesos : a[1] \in Nat /\ a[2] \in Nat \ {0}
    \* a word of text is never the number of a block, nor a byte offset in its bitmap
    /\ Textos \subseteq Seq(Int)
    /\ \A t \in Textos : Len(t) > 0 /\ \A i \in DOMAIN t : t[i] >= 8 * CantBloques

VARIABLES
    disp,       \* bitmap, bloques_libres, archivo_de_bloques
    fcbs,       \* dict_fcbs
    disco,      \* the FCB files: the last FCB saved, and whether the text is whole
    paso,       \* where the thread is
    pedido,     \* the request being served
    respuesta,  \* the code in the socket of the Kernel
    dato,       \* what the last F_READ sent to Memoria
    abiertos,   \* what the Kernel knows of each file
    \* history: what was written, whether every operation so far is one the
    \* code serves in full, what became of the bitmap, and how much was done
    contenido, enRegla, olvido, usos

registro == <<contenido, enRegla, olvido, usos>>
vars == <<disp, fcbs, disco, paso, pedido, respuesta, dato, abiertos, contenido, enRegla, olvido, usos>>

Ausente == [tam |-> -1, directo |-> -1, indirecto |-> -1]
Vacio   == [tam |-> 0, directo |-> -1, indirecto |-> -1]
NoEscrito == -3

Ninguno == [op |-> "NINGUNO"]
Existe(a) == fcbs[a].tam >= 0

\* the record the operators of BloquesFS work on, and its parts
Modelo(a) ==
    [bitmap |-> disp.bitmap, libres |-> disp.libres, bloques |-> disp.bloques,
     cursor |-> disp.cursor, perdible |-> disp.perdible,
     tam |-> fcbs[a].tam, directo |-> fcbs[a].directo, indirecto |-> fcbs[a].indirecto]
ParteDisp(m) ==
    [bitmap |-> m.bitmap, libres |-> m.libres, bloques |-> m.bloques,
     cursor |-> m.cursor, perdible |-> m.perdible]

Init ==
    /\ disp = [bitmap |-> [b \in NumerosDeBloque |-> FALSE], libres |-> CantBloques,
               bloques |-> [p \in Posiciones |-> 0], cursor |-> 0, perdible |-> <<>>]
    /\ fcbs = [a \in Archivos |-> Ausente]
    /\ disco = [a \in Archivos |-> [fcb |-> Ausente, entero |-> TRUE]]
    /\ paso = "espera"
    /\ pedido = Ninguno
    /\ respuesta = "NINGUNA"
    /\ dato = <<>>
    /\ abiertos = [a \in Archivos |-> "cerrado"]
    /\ contenido = [a \in Archivos |-> <<>>]
    /\ enRegla = TRUE
    /\ olvido = "no"
    /\ usos = [truncados |-> 0, escrituras |-> 0, reinicios |-> 0]

-----------------------------------------------------------------------------
(* The Kernel, as the Filesystem sees it. *)

Pide(p) ==
    /\ paso = "espera"
    /\ pedido' = p
    /\ paso' = "atiende"
    /\ UNCHANGED <<disp, fcbs, disco, respuesta, dato, abiertos, contenido, enRegla, olvido>>

PideAbrir == \E a \in Archivos :
    /\ abiertos[a] = "cerrado"
    /\ Pide([op |-> "REQ_ABRIR_ARCHIVO", arch |-> a])
    /\ UNCHANGED usos

PideCrear == \E a \in Archivos :
    /\ abiertos[a] = "por_crear"
    /\ Pide([op |-> "REQ_CREAR_ARCHIVO", arch |-> a])
    /\ UNCHANGED usos

PideTruncar == \E a \in Archivos, n \in TamaniosPedidos :
    /\ abiertos[a] = "abierto"
    /\ usos.truncados < MaxTruncados
    /\ usos' = [usos EXCEPT !.truncados = @ + 1]
    /\ Pide([op |-> "REQ_TRUNCAR_ARCHIVO", arch |-> a, tam |-> n])

PideLeer == \E a \in Archivos, acceso \in Accesos :
    /\ abiertos[a] = "abierto"
    /\ Pide([op |-> "REQ_LEER_ARCHIVO", arch |-> a, puntero |-> acceso[1], tam |-> acceso[2]])
    /\ UNCHANGED usos

PideEscribir == \E a \in Archivos, acceso \in Accesos :
    /\ abiertos[a] = "abierto"
    /\ usos.escrituras < MaxEscrituras
    /\ usos' = [usos EXCEPT !.escrituras = @ + 1]
    /\ Pide([op |-> "REQ_ESCRIBIR_ARCHIVO", arch |-> a, puntero |-> acceso[1],
             tam |-> acceso[2]])

PideOpMemoria ==
    /\ Pide([op |-> "REQ_OP_MEMORIA"])
    /\ UNCHANGED usos

\* F_OPEN creates the file that cannot be opened
Recibe ==
    /\ paso = "responde"
    /\ abiertos' =
         CASE respuesta = "ERROR_ABRIR_ARCHIVO" ->
                [abiertos EXCEPT ![pedido.arch] = "por_crear"]
           [] /\ respuesta \in {"OK_ABRIR_ARCHIVO", "OK_CREAR_ARCHIVO"}
              /\ pedido.op # "REQ_TRUNCAR_ARCHIVO" ->
                [abiertos EXCEPT ![pedido.arch] = "abierto"]
           [] OTHER -> abiertos
    /\ paso' = "espera"
    /\ pedido' = Ninguno
    /\ respuesta' = "NINGUNA"
    /\ dato' = <<>>
    /\ UNCHANGED <<disp, fcbs, disco, registro>>

-----------------------------------------------------------------------------
(* atenderReqKernel *)

Atiende(op) == paso = "atiende" /\ pedido.op = op

responderAKernel(codigo) == paso' = "responde" /\ respuesta' = codigo

\* nothing changes but the answer
SoloResponde(codigo) ==
    /\ responderAKernel(codigo)
    /\ UNCHANGED <<disp, fcbs, disco, pedido, dato, abiertos, registro>>

OpMemoria == Atiende("REQ_OP_MEMORIA") /\ SoloResponde("OK_OP_MEMORIA")

\* Mutant of RespuestaAlAbrir: no file is ever found.
RespuestaAlAbrirMutante(a) == "ERROR_ABRIR_ARCHIVO"

RespuestaAlAbrir(a) == IF Existe(a) THEN "OK_ABRIR_ARCHIVO" ELSE "ERROR_ABRIR_ARCHIVO"

abrirArchivo ==
    /\ Atiende("REQ_ABRIR_ARCHIVO")
    /\ SoloResponde(RespuestaAlAbrir(pedido.arch))

\* fopen "w" and EMPTY_KEY: a file with no NOMBRE_ARCHIVO
crearArchivo ==
    /\ Atiende("REQ_CREAR_ARCHIVO")
    /\ disco' = [disco EXCEPT ![pedido.arch] = [fcb |-> Vacio, entero |-> FALSE]]
    /\ paso' = "crea_fcb"
    /\ UNCHANGED <<disp, fcbs, pedido, respuesta, dato, abiertos, registro>>

\* dictionary_put and config_save
crearFCB ==
    /\ paso = "crea_fcb"
    /\ fcbs' = [fcbs EXCEPT ![pedido.arch] = Vacio]
    /\ disco' = [disco EXCEPT ![pedido.arch] = [fcb |-> Vacio, entero |-> TRUE]]
    /\ contenido' = [contenido EXCEPT ![pedido.arch] = <<>>]
    /\ responderAKernel("OK_CREAR_ARCHIVO")
    /\ UNCHANGED <<disp, pedido, dato, abiertos, enRegla, olvido, usos>>

-----------------------------------------------------------------------------
(* truncarArchivo *)

\* the growth the code serves in full: from empty, once, with room in the block
\* of pointers and for it
CreceEnRegla(a, n) ==
    /\ fcbs[a].tam = 0
    /\ n < tam_max_archivo
    /\ n <= Palabras \/ disp.libres > NuevaCantidad(n)

truncarSinCambio ==
    /\ Atiende("REQ_TRUNCAR_ARCHIVO")
    /\ \/ pedido.tam > tam_max_archivo /\ SoloResponde("OK_ABRIR_ARCHIVO")
       \/ /\ pedido.tam <= tam_max_archivo
          /\ NuevaCantidad(pedido.tam) > disp.libres
          /\ SoloResponde("ERROR_GENERICO")
       \/ /\ pedido.tam <= tam_max_archivo
          /\ NuevaCantidad(pedido.tam) <= disp.libres
          /\ pedido.tam = fcbs[pedido.arch].tam
          /\ SoloResponde("OK_TRUNCAR")

\* the bit of a word of text is far from the bitmap: the process dies
BorraFueraDelBitmap(a, n) ==
    LET m        == Modelo(a)
        actual   == CantidadActual(m.tam)
        aBorrar  == EntradasABorrar(actual - NuevaCantidad(n), actual)
        punteros == PunterosABorrar(m, aBorrar, [i \in 1 .. aBorrar |-> 0])
    IN  n < m.tam /\ \E i \in 1 .. aBorrar : punteros[i] >= 8 * CantBloques

\* bitmap, blocks and pointers of the FCB, in memory; its size comes after
truncarBloques ==
    /\ Atiende("REQ_TRUNCAR_ARCHIVO")
    /\ pedido.tam <= tam_max_archivo
    /\ NuevaCantidad(pedido.tam) <= disp.libres
    /\ pedido.tam # fcbs[pedido.arch].tam
    /\ IF BorraFueraDelBitmap(pedido.arch, pedido.tam)
       THEN paso' = "muerto" /\ UNCHANGED <<disp, fcbs>>
       ELSE \E heap \in [Palabras .. Palabras + 1 -> HeapSinDefinir] :
            \E m \in {truncar(Modelo(pedido.arch), pedido.tam, heap)} :
               /\ disp' = ParteDisp(m)
               /\ fcbs' = [fcbs EXCEPT ![pedido.arch].directo = m.directo,
                                        ![pedido.arch].indirecto = m.indirecto]
               /\ paso' = "guarda_tam"
    /\ enRegla' = (enRegla /\ CreceEnRegla(pedido.arch, pedido.tam))
    /\ olvido' = IF olvido = "no" THEN "no" ELSE "reasigna"
    /\ UNCHANGED <<disco, pedido, respuesta, dato, abiertos, contenido, usos>>

\* config_set_value, and config_save opens the file, which empties it
actualizar_tam_archivo ==
    /\ paso = "guarda_tam"
    /\ fcbs' = [fcbs EXCEPT ![pedido.arch].tam = pedido.tam]
    /\ disco' = [disco EXCEPT ![pedido.arch].entero = FALSE]
    /\ paso' = "guarda_fcb"
    /\ UNCHANGED <<disp, pedido, respuesta, dato, abiertos, registro>>

\* Mutant of config_save: the size is saved before it is set.
config_saveMutante(a) == [fcb |-> [fcbs[a] EXCEPT !.tam = disco[a].fcb.tam], entero |-> TRUE]

config_save(a) == [fcb |-> fcbs[a], entero |-> TRUE]

guardarFCB ==
    /\ paso = "guarda_fcb"
    /\ disco' = [disco EXCEPT ![pedido.arch] = config_save(pedido.arch)]
    /\ responderAKernel("OK_TRUNCAR")
    /\ UNCHANGED <<disp, fcbs, pedido, dato, abiertos, registro>>

-----------------------------------------------------------------------------
(* leerArchivo, escribirArchivo *)

\* both refuse only what is larger than the file or starts past its end
FueraDelArchivo(a) == pedido.tam > fcbs[a].tam \/ pedido.puntero > fcbs[a].tam

leerRechazado ==
    /\ Atiende("REQ_LEER_ARCHIVO")
    /\ fcbs[pedido.arch].tam = 0 \/ FueraDelArchivo(pedido.arch)
    /\ SoloResponde("ERROR_GENERICO")

\* Memoria never answers an error, here or to the read of a F_WRITE
leerArchivo ==
    /\ Atiende("REQ_LEER_ARCHIVO")
    /\ fcbs[pedido.arch].tam # 0 /\ ~FueraDelArchivo(pedido.arch)
    /\ \E r \in {leer(Modelo(pedido.arch), pedido.puntero, pedido.tam)} :
          /\ disp' = ParteDisp(r.m)
          /\ dato' \in r.datos
    /\ responderAKernel("OK_LEER_ARCHIVO")
    /\ UNCHANGED <<fcbs, disco, pedido, abiertos, registro>>

\* the size of the file is looked at once Memoria has answered
escribirRechazado ==
    /\ Atiende("REQ_ESCRIBIR_ARCHIVO")
    /\ FueraDelArchivo(pedido.arch)
    /\ SoloResponde("ERROR_GENERICO")

\* the write that lands where the pointer says: it starts in the first block
\* and does not leave the blocks of the file
EscribeEnRegla(a) ==
    /\ pedido.puntero < Palabras
    /\ pedido.puntero + pedido.tam <= IF fcbs[a].tam <= Palabras THEN Palabras ELSE fcbs[a].tam

\* the words of the file as they should be
Anota(escrito, puntero, texto) ==
    LET fin == Max({Len(escrito), puntero + Len(texto)})
    IN  [i \in 1 .. fin |-> CASE i \in puntero + 1 .. puntero + Len(texto) -> texto[i - puntero]
                              [] i \in 1 .. Len(escrito) \ (puntero + 1 .. puntero + Len(texto)) ->
                                   escrito[i]
                              [] OTHER -> NoEscrito]

escribirArchivo ==
    /\ Atiende("REQ_ESCRIBIR_ARCHIVO")
    /\ ~FueraDelArchivo(pedido.arch)
    /\ \E texto \in Textos :
          /\ Len(texto) = pedido.tam
          /\ disp' = ParteDisp(escribir(Modelo(pedido.arch), pedido.puntero, texto))
          /\ contenido' = [contenido EXCEPT ![pedido.arch] = Anota(@, pedido.puntero, texto)]
    /\ enRegla' = (enRegla /\ EscribeEnRegla(pedido.arch))
    /\ responderAKernel("OK_ESCRIBIR_ARCHIVO")
    /\ UNCHANGED <<fcbs, disco, pedido, dato, abiertos, olvido, usos>>

-----------------------------------------------------------------------------
(* main, after the process ended at any point. *)

\* levantarBitmap clears every bit, bloques_libres = block_count
levantarBitmap ==
    [bitmap |-> [b \in NumerosDeBloque |-> FALSE], libres |-> CantBloques,
     bloques |-> IF disp.perdible = <<>> THEN disp.bloques
                 ELSE [disp.bloques EXCEPT ![disp.perdible[1]] = disp.perdible[2]],
     cursor |-> 0, perdible |-> <<>>]

\* inicializar_dict_fcb: an FCB without a name cannot be put in the dictionary
Reinicio ==
    /\ paso # "no_arranca"
    /\ usos.reinicios < MaxReinicios
    /\ usos' = [usos EXCEPT !.reinicios = @ + 1]
    /\ disp' = levantarBitmap
    /\ IF \A a \in Archivos : disco[a].entero
       THEN paso' = "espera" /\ fcbs' = [a \in Archivos |-> disco[a].fcb]
       ELSE paso' = "no_arranca" /\ UNCHANGED fcbs
    /\ pedido' = Ninguno
    /\ respuesta' = "NINGUNA"
    /\ dato' = <<>>
    /\ abiertos' = [a \in Archivos |-> "cerrado"]
    /\ enRegla' = (enRegla /\ disp.perdible = <<>>)
    /\ olvido' = IF olvido = "no" /\ \E a \in Archivos : disco[a].fcb.tam > 0 THEN "si" ELSE olvido
    /\ UNCHANGED <<disco, contenido>>

-----------------------------------------------------------------------------
Kernel ==
    \/ PideAbrir \/ PideCrear \/ PideTruncar \/ PideLeer \/ PideEscribir
    \/ PideOpMemoria \/ Recibe

atenderReqKernel ==
    \/ OpMemoria \/ abrirArchivo \/ crearArchivo \/ crearFCB
    \/ truncarSinCambio \/ truncarBloques \/ actualizar_tam_archivo \/ guardarFCB
    \/ leerRechazado \/ leerArchivo
    \/ escribirRechazado \/ escribirArchivo

Next == Kernel \/ atenderReqKernel \/ Reinicio

Spec == Init /\ [][Next]_vars
-----------------------------------------------------------------------------
(* Properties. *)

Pasos == {"espera", "atiende", "crea_fcb", "guarda_tam", "guarda_fcb", "responde",
          "muerto", "no_arranca"}

FCBs == [tam : -1 .. tam_max_archivo, directo : -1 .. CantBloques - 1,
         indirecto : -1 .. CantBloques - 1]

\* The state has the shape of the globals of filesystem.c; a file is created
\* only once the Kernel was told that it does not exist.
TypeOK ==
    /\ disp.bitmap \in [NumerosDeBloque -> BOOLEAN]
    /\ disp.libres \in Int /\ disp.cursor \in Nat
    /\ DOMAIN disp.bloques = Posiciones
    /\ fcbs \in [Archivos -> FCBs]
    /\ disco \in [Archivos -> [fcb : FCBs, entero : BOOLEAN]]
    /\ paso \in Pasos
    /\ abiertos \in [Archivos -> {"cerrado", "por_crear", "abierto"}]
    /\ \A a \in Archivos : abiertos[a] = "por_crear" /\ paso = "espera" => ~Existe(a)

\* the size a file has once the truncation under way is done
TamEnCurso(a) ==
    IF paso = "guarda_tam" /\ pedido.arch = a THEN pedido.tam ELSE fcbs[a].tam

\* the blocks of a file, in order, and its block of pointers
BloquesDeDatos(a) ==
    LET tam == TamEnCurso(a)
    IN  CASE tam <= 0 -> <<>>
          [] tam > 0 /\ tam <= Palabras -> <<fcbs[a].directo>>
          [] OTHER -> <<fcbs[a].directo>> \o
                      [i \in 1 .. tam \div Palabras |->
                         disp.bloques[fcbs[a].indirecto * Palabras + i - 1]]

BloquesDe(a) ==
    IF TamEnCurso(a) > Palabras THEN Append(BloquesDeDatos(a), fcbs[a].indirecto)
    ELSE BloquesDeDatos(a)

\* While every truncation was one that the code serves in full, and none took
\* blocks after a restart, the blocks of the files (direct, of pointers, and
\* those the block of pointers on disk lists) exist and are all different:
\* truncarMasBloques never gives one twice.
SinBloquesCompartidos ==
    enRegla /\ olvido # "reasigna" =>
      /\ \A a \in Archivos : ToSet(BloquesDe(a)) \subseteq NumerosDeBloque
                             /\ IsInjective(BloquesDe(a))
      /\ \A a, b \in Archivos : a # b => ToSet(BloquesDe(a)) \cap ToSet(BloquesDe(b)) = {}

\* As long as no file with blocks went through a restart, the bitmap marks the
\* blocks of the files, as the pointers on disk say, and no other, and
\* bloques_libres counts the bits that are clear.
BitmapAlDia ==
    enRegla /\ olvido = "no" /\ paso # "no_arranca" =>
      LET marcados == {b \in NumerosDeBloque : disp.bitmap[b]}
          usados   == UNION {ToSet(BloquesDe(a)) : a \in Archivos}
      IN  marcados = usados /\ disp.libres = CantBloques - Cardinality(marcados)

\* The word that word i of a file is kept at.
Lugar(a, i) ==
    BloquesDeDatos(a)[(i - 1) \div Palabras + 1] * Palabras + ((i - 1) % Palabras)

\* What was written to a file stays in its blocks, through truncations and
\* writes of the other files, and through a restart: each word written by
\* escribirArchivo, in the first block or in those of the list, is where the
\* pointers of the file lead.
LoEscritoQueda ==
    enRegla /\ olvido # "reasigna" /\ paso # "no_arranca" =>
      \A a \in Archivos : \A i \in 1 .. Len(contenido[a]) :
         contenido[a][i] # NoEscrito =>
           Lugar(a, i) \in Posiciones /\ disp.bloques[Lugar(a, i)] = contenido[a][i]

\* What was written stays also when the file system is used after a restart: the
\* blocks of the files that were there before it are not given again.  It is what
\* "Persistencia" of the assignment asks for, and test_persistencia supposes; the
\* bitmap cleared at start-up breaks it.
EscritoPersiste ==
    enRegla /\ paso # "no_arranca" =>
      \A a \in Archivos : \A i \in 1 .. Len(contenido[a]) :
         contenido[a][i] # NoEscrito =>
           Lugar(a, i) \in Posiciones /\ disp.bloques[Lugar(a, i)] = contenido[a][i]

\* A read that stays in the first block, and does not end exactly with it when
\* the file has more, sends Memoria the words that were last written there.
LeeLoEscrito ==
    enRegla /\ olvido # "reasigna" /\ respuesta = "OK_LEER_ARCHIVO" =>
      LET a == pedido.arch
          fin == pedido.puntero + pedido.tam
      IN  fin < Palabras \/ (fin = Palabras /\ fcbs[a].tam <= Palabras) =>
            \A i \in pedido.puntero + 1 .. fin :
               i \in DOMAIN contenido[a] /\ contenido[a][i] # NoEscrito =>
                 dato[i - pedido.puntero] = contenido[a][i]

\* the creation or truncation that has begun and is not answered
OperacionEnCurso ==
    CASE paso = "crea_fcb" -> [arch |-> pedido.arch, de |-> -1, a_tam |-> 0]
      [] paso \in {"guarda_tam", "guarda_fcb"} ->
           [arch |-> pedido.arch, de |-> disco[pedido.arch].fcb.tam, a_tam |-> pedido.tam]
      [] OTHER -> [de |-> 0]

Directorio == INSTANCE DirectorioPersistente WITH
    Tamanios  <- TamaniosPedidos \cup {0},
    tamanios  <- [a \in Archivos |-> fcbs[a].tam],
    operacion <- OperacionEnCurso,
    legible   <- paso # "no_arranca"

\* The dictionary of FCBs, its files and their order of updates keep what the
\* directory promises: a size answered with OK_TRUNCAR, or a file with
\* OK_CREAR_ARCHIVO, is what a restart finds; a crash in the middle leaves the
\* size of before, or an FCB that keeps the Filesystem from starting.
ImplementaDirectorio == Directorio!Spec
=============================================================================
