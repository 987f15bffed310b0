------------------------------ MODULE Memoria ------------------------------
(***************************************************************************)
(* The Memoria process: segments of the processes in one memory area, the  *)
(* search for a hole, and compaction.  Each request of the Kernel is one   *)
(* action, since the Kernel waits for the answer with the process that     *)
(* asked still in Exec; a compaction takes one action per segment moved.   *)
(* The Kernel is here as far as it decides which requests may come when:   *)
(* the processes that ended and still have a table, and the transfer of    *)
(* the Filesystem for a process that left the CPU.                         *)
(*                                                                         *)
(* tablaSegmGlobal is not a variable: every handler that changes a table   *)
(* rebuilds it, in the order of TablaGlobal.                               *)
(***************************************************************************)
EXTENDS Integers, FiniteSets, SequencesExt

CONSTANTS
    TamMemoria,     \* TAM_MEMORIA
    TamSegmento0,   \* TAM_SEGMENTO_0
    Algoritmos,     \* values of ALGORITMO_ASIGNACION
    Pids,
    Ids,            \* segment ids a process uses, 0 apart
    Buffers,        \* bound: the segments that are written, each <<pid, id>>
    Tamanios,       \* sizes a process asks for
    MaxSegmentos,   \* bound: segments alive at one time
    Basuras         \* what malloc may leave marked in espacios

Celdas == 0 .. TamMemoria - 1

ASSUME TamaniosAssumption ==
    /\ TamSegmento0 \in 1 .. TamMemoria /\ TamMemoria \in Nat
    /\ Tamanios \subseteq Nat \ {0}
    /\ MaxSegmentos \in Nat
ASSUME IdsAssumption == Ids \subseteq Nat \ {0} /\ Buffers \subseteq Pids \X Ids
ASSUME BasurasAssumption == Basuras \subseteq SUBSET Celdas

VARIABLES
    algoritmo,          \* config->algoritmo_asignacion
    espacios,           \* the bytes marked as taken
    listaDisp,          \* the holes found by the last updateEspacios
    tablasDeSegmentos,  \* one table per process, in order of arrival
    memoria,            \* what each byte of a segment holds: a segment, and
                        \* the place in it that the byte was written to
    kernel,             \* what the Kernel is to do about pedido
    pedido,             \* the REQ_CREAR_SEGMENTO under way
    indice,             \* the next entry of the global table to move
    listaExit,          \* the processes that ended and have a table still
    transferencia,      \* the F_READ or F_WRITE of a process that waits for it
    conforme            \* history: FALSE once a copy of overlapping bytes did
                        \* not go upwards, or a segment in transfer moved

asignacion == <<espacios, listaDisp, tablasDeSegmentos>>
vars == <<algoritmo, asignacion, memoria, kernel, pedido, indice,
          listaExit, transferencia, conforme>>

SinPedido == [pid |-> -1, id |-> 0, size |-> 0]
SinTransferencia == [pid |-> -1, id |-> 0, dir |-> 0, size |-> 0, enviada |-> FALSE]
Rango(base, size) == base .. base + size - 1

entradaSegm0 == [id |-> 0, base |-> 0, size |-> TamSegmento0]

-----------------------------------------------------------------------------
(* The list of holes. *)

\* the first taken byte after i, or the last byte
Tope(i, ocupados) ==
    Min({j \in i + 1 .. TamMemoria - 1 : j \in ocupados} \cup {TamMemoria - 1})

\* Mutant of FinDeHueco: a hole that reaches the end is one byte too long.
FinDeHuecoPasadoMutante(i, ocupados) ==
    LET tope == Tope(i, ocupados)
    IN  IF tope = TamMemoria - 1 THEN TamMemoria + 1 ELSE tope

\* Mutant of FinDeHueco: a hole takes in the byte after it.
FinDeHuecoLargoMutante(i, ocupados) == Tope(i, ocupados) + 1

\* where the hole that starts at i ends: it takes in the last byte, which is
\* not looked at
FinDeHueco(i, ocupados) ==
    LET tope == Tope(i, ocupados)
    IN  IF tope = TamMemoria - 1 THEN TamMemoria ELSE tope

\* ... and a hole of the last byte alone is not listed
UpdateEspacios(ocupados) ==
    LET inicios == {i \in 0 .. TamMemoria - 2 : i \notin ocupados /\ (i > 0 => i - 1 \in ocupados)}
    IN  {[base |-> i, size |-> FinDeHueco(i, ocupados) - i] : i \in inicios}

calcularBytesDisponibles ==
    MapThenSumSet(LAMBDA h : h.size, listaDisp)

\* the holes where size bytes fit
Viables(size) == {h \in listaDisp : size <= h.size}

\* hole h is better than hole k for the algorithm
Mejor(h, k) ==
    \/ algoritmo = "BEST"  /\ h.size < k.size
    \/ algoritmo = "WORST" /\ h.size > k.size

\* the best hole and, among equals, the first; any other algorithm is FIRST
BuscarEspacioViable(size) ==
    (CHOOSE h \in Viables(size) :
        \A k \in Viables(size) : ~Mejor(k, h) /\ (k.base < h.base => Mejor(h, k))).base

-----------------------------------------------------------------------------
(* The tables. *)

\* where the table of pid is, and where the segment is in a table
EncontrarPorPID(p) == {t \in DOMAIN tablasDeSegmentos : tablasDeSegmentos[t].pid = p}
EncontrarPorIDSegm(tabla, id) == {k \in DOMAIN tabla : tabla[k].id = id}

procesos == {tablasDeSegmentos[t].pid : t \in DOMAIN tablasDeSegmentos}
Tabla(p) == tablasDeSegmentos[CHOOSE t \in EncontrarPorPID(p) : TRUE].tabla
Segmento(p, id) == Tabla(p)[CHOOSE k \in EncontrarPorIDSegm(Tabla(p), id) : TRUE]

\* the tables with that of p replaced
ConTabla(p, tabla) ==
    [t \in DOMAIN tablasDeSegmentos |->
        IF tablasDeSegmentos[t].pid = p THEN [pid |-> p, tabla |-> tabla]
        ELSE tablasDeSegmentos[t]]

\* every segment but segment 0, as a position <<table, entry>>
TablaGlobal(tablas) ==
    FlattenSeq([t \in DOMAIN tablas |->
                  [k \in 1 .. Len(tablas[t].tabla) - 1 |-> <<t, k + 1>>]])

Entrada(tablas, x) == tablas[x[1]].tabla[x[2]]

\* actualizarTSGlobal: espacios is what the tables say
ActualizarTSGlobal(tablas) ==
    Rango(0, TamSegmento0)
    \cup UNION {LET e == Entrada(tablas, x) IN Rango(e.base, e.size) :
                   x \in ToSet(TablaGlobal(tablas))}

\* Nobody reads a byte that no segment owns: what is left there is abstracted
\* to <<>>, and so is what a new segment finds.
Visibles(bytes, tablas) ==
    LET duenio == ActualizarTSGlobal(tablas)
    IN  [c \in Celdas |-> IF c \in duenio THEN bytes[c] ELSE <<>>]

\* the segments that processes asked for, alive
Vivos ==
    UNION {{<<x.pid, x.tabla[k].id>> : k \in 2 .. Len(x.tabla)} : x \in ToSet(tablasDeSegmentos)}

-----------------------------------------------------------------------------
(* Handlers of the Kernel's requests. *)

\* conexionMemoria sends no other request while a compaction is under way, or
\* before it ended the process that got OUT_OF_MEMORY.  Between OK_COMPACTACION
\* and the repeated request it does.
Atiende == kernel \in {"libre", "repite"}

\* the processes that may be in the CPU
Ejecutables == procesos \ (listaExit \cup {transferencia.pid})

\* new_tabla_segmentos, for a new pid.  The pids of processes that ended stand
\* for the new ones the Kernel would use.
NewTablaSegmentos(p) ==
    /\ Atiende
    /\ p \notin procesos
    /\ tablasDeSegmentos' = Append(tablasDeSegmentos, [pid |-> p, tabla |-> <<entradaSegm0>>])
    /\ UNCHANGED <<algoritmo, espacios, listaDisp, memoria, kernel, pedido, indice,
                   listaExit, transferencia, conforme>>

\* The running process asks for a segment, or asks again after a compaction.
\* It does not repeat a live id.
PideSegmento(p, id, size) ==
    /\ p \in Ejecutables
    /\ \/ kernel = "libre" /\ <<p, id>> \notin Vivos /\ Cardinality(Vivos) < MaxSegmentos
       \/ kernel = "repite" /\ pedido = [pid |-> p, id |-> id, size |-> size]

\* Mutant of CreaSegmento: the list of holes is not updated.
CreaSegmentoMutante(p, id, size) ==
    /\ PideSegmento(p, id, size)
    /\ Viables(size) # {}
    /\ LET nueva == [id |-> id, base |-> BuscarEspacioViable(size), size |-> size] IN
       /\ tablasDeSegmentos' = ConTabla(p, Append(Tabla(p), nueva))
       /\ espacios' = ActualizarTSGlobal(tablasDeSegmentos')
    /\ kernel' = "libre" /\ pedido' = SinPedido
    /\ UNCHANGED <<algoritmo, listaDisp, memoria, indice, listaExit, transferencia, conforme>>

\* OK_CREAR_SEGMENTO
CreaSegmento(p, id, size) ==
    /\ PideSegmento(p, id, size)
    /\ Viables(size) # {}
    /\ LET nueva == [id |-> id, base |-> BuscarEspacioViable(size), size |-> size] IN
       /\ tablasDeSegmentos' = ConTabla(p, Append(Tabla(p), nueva))
       /\ espacios' = ActualizarTSGlobal(tablasDeSegmentos')
       /\ listaDisp' = UpdateEspacios(espacios')
    /\ kernel' = "libre" /\ pedido' = SinPedido
    /\ UNCHANGED <<algoritmo, memoria, indice, listaExit, transferencia, conforme>>

\* REQ_PEDIR_COMPACTACION when the bytes suffice, ERROR_CREAR_SEGMENTO when not
NoCreaSegmento(p, id, size) ==
    /\ PideSegmento(p, id, size)
    /\ Viables(size) = {}
    /\ kernel' = IF size <= calcularBytesDisponibles THEN "compacta" ELSE "expulsa"
    /\ pedido' = [pid |-> p, id |-> id, size |-> size]
    /\ UNCHANGED <<algoritmo, asignacion, memoria, indice, listaExit, transferencia, conforme>>

CrearSegmento(p, id, size) == CreaSegmento(p, id, size) \/ NoCreaSegmento(p, id, size)

\* ERROR_ELIMINAR_SEGMENTO, for segment 0 or one that is not there, changes nothing
EliminarSegmento(p, id) ==
    /\ kernel = "libre" /\ p \in Ejecutables
    /\ <<p, id>> \in Vivos
    /\ LET tabla == Tabla(p)
           i     == CHOOSE k \in EncontrarPorIDSegm(tabla, id) : TRUE IN
       /\ tablasDeSegmentos' = ConTabla(p, RemoveAt(tabla, i))
       /\ espacios' = ActualizarTSGlobal(tablasDeSegmentos')
       /\ listaDisp' = UpdateEspacios(espacios')
    /\ memoria' = Visibles(memoria, tablasDeSegmentos')
    /\ UNCHANGED <<algoritmo, kernel, pedido, indice, listaExit, transferencia, conforme>>

\* finalizarPcb: the running process goes to listaExit, at its EXIT or at
\* ERROR_CREAR_SEGMENTO.  Its table stays until REQ_FIN_PROCESO.
Termina(p) ==
    /\ p \in Ejecutables
    /\ kernel = "libre" \/ (kernel = "expulsa" /\ pedido.pid = p)
    /\ listaExit' = listaExit \cup {p}
    /\ kernel' = "libre" /\ pedido' = SinPedido
    /\ UNCHANGED <<algoritmo, asignacion, memoria, indice, transferencia, conforme>>

\* REQ_FIN_PROCESO for one of listaExit.  espacios follows; listaDisp does not.
EliminarProceso(p) ==
    /\ Atiende
    /\ p \in listaExit
    /\ listaExit' = listaExit \ {p}
    /\ tablasDeSegmentos' = RemoveAt(tablasDeSegmentos, CHOOSE t \in EncontrarPorPID(p) : TRUE)
    /\ espacios' = ActualizarTSGlobal(tablasDeSegmentos')
    /\ memoria' = Visibles(memoria, tablasDeSegmentos')
    /\ UNCHANGED <<algoritmo, listaDisp, kernel, pedido, indice, transferencia, conforme>>

-----------------------------------------------------------------------------
(* compactarEspacios *)

\* OK_COMPACTAR, after the Filesystem, which serves one request at a time,
\* answered REQ_OP_MEMORIA
EmpiezaCompactacion ==
    /\ kernel = "compacta" /\ ~transferencia.enviada
    /\ kernel' = "mueve" /\ indice' = 1
    /\ UNCHANGED <<algoritmo, asignacion, memoria, pedido, listaExit, transferencia, conforme>>

\* the end of the LAST entry of the global table that ends at or before base
BaseMenorCercana(base) ==
    LET fines == <<TamSegmento0>>
                 \o [i \in DOMAIN TablaGlobal(tablasDeSegmentos) |->
                       LET e == Entrada(tablasDeSegmentos, TablaGlobal(tablasDeSegmentos)[i])
                       IN  e.base + e.size]
        i == SelectLastInSeq(fines, LAMBDA fin : base >= fin)
    IN  IF i = 0 THEN 0 ELSE fines[i]

\* Mutant of Copia: the bytes stay where they were.
CopiaMutante(a, de, size) == memoria

\* memcpy(memoria + a, memoria + de, size), going upwards
Copia(a, de, size) ==
    [c \in Celdas |-> IF c \in Rango(a, size) THEN memoria[c - a + de] ELSE memoria[c]]

\* memcpy from the last byte down: with a below de, a byte that was written
\* before it was read is read in its place
CopiaHaciaAbajo(a, de, size) ==
    LET origen(i) == IF a < de THEN size - 1 - ((size - 1 - i) % (de - a)) ELSE i
    IN  [c \in Celdas |-> IF c \in Rango(a, size) THEN memoria[de + origen(c - a)] ELSE memoria[c]]

\* Mutant of MoverEspacio: the list of holes is not updated.
MoverEspacioMutante(x, e, nueva) ==
    /\ tablasDeSegmentos' = [tablasDeSegmentos EXCEPT ![x[1]].tabla[x[2]].base = nueva]
    /\ espacios' = (espacios \ Rango(e.base, e.size)) \cup Rango(nueva, e.size)
    /\ UNCHANGED listaDisp

\* entry e, at position x of the tables, goes to nueva
MoverEspacio(x, e, nueva) ==
    /\ tablasDeSegmentos' = [tablasDeSegmentos EXCEPT ![x[1]].tabla[x[2]].base = nueva]
    /\ espacios' = (espacios \ Rango(e.base, e.size)) \cup Rango(nueva, e.size)
    /\ listaDisp' = UpdateEspacios(espacios')

\* the entry at x is the segment of the transfer under way
EnTransferencia(x) ==
    <<tablasDeSegmentos[x[1]].pid, Entrada(tablasDeSegmentos, x).id>>
        = <<transferencia.pid, transferencia.id>>

\* the next segment in table order; what memcpy does with bytes that overlap is
\* undefined
MueveSegmento ==
    /\ kernel = "mueve" /\ indice <= Len(TablaGlobal(tablasDeSegmentos))
    /\ \E x \in {TablaGlobal(tablasDeSegmentos)[indice]} :
       \E e \in {Entrada(tablasDeSegmentos, x)} :
       \E nueva \in {BaseMenorCercana(e.base)} :
       \E sube \in BOOLEAN :
          /\ MoverEspacio(x, e, nueva)
          /\ memoria' = Visibles(IF sube THEN Copia(nueva, e.base, e.size)
                                 ELSE CopiaHaciaAbajo(nueva, e.base, e.size), tablasDeSegmentos')
          /\ conforme' = (/\ conforme
                          /\ nueva # e.base => /\ sube \/ nueva + e.size <= e.base
                                               /\ ~EnTransferencia(x))
    /\ indice' = indice + 1
    /\ UNCHANGED <<algoritmo, kernel, pedido, listaExit, transferencia>>

\* OK_COMPACTACION; the CPU gets the same CREATE_SEGMENT again
TerminaCompactacion ==
    /\ kernel = "mueve" /\ indice > Len(TablaGlobal(tablasDeSegmentos))
    /\ kernel' = "repite" /\ indice' = 0
    /\ UNCHANGED <<algoritmo, asignacion, memoria, pedido, listaExit, transferencia, conforme>>

CompactarEspacios == EmpiezaCompactacion \/ MueveSegmento \/ TerminaCompactacion

-----------------------------------------------------------------------------
(* Requests of the CPU and of the Filesystem, with physical addresses. *)

\* the size bytes from dir on
LeerEnMemoria(dir, size) == [i \in 1 .. size |-> memoria[dir + i - 1]]

\* memcpy(memoria + dir, contenido, size), for segment <<p, id>>: the bytes of
\* the process say where in its segment they belong
Escrita(p, id, dir, size) ==
    [c \in Celdas |-> IF c \in Rango(dir, size) THEN <<p, id, c - dir + 1>> ELSE memoria[c]]

\* escribirEnMemoria for the CPU: the running process fills a segment.  During a
\* compaction the CPU waits for the answer to CREATE_SEGMENT.
EscribirEnMemoria(p, id) ==
    /\ kernel = "libre" /\ p \in Ejecutables
    /\ <<p, id>> \in Vivos /\ <<p, id>> \in Buffers
    /\ LET s == Segmento(p, id) IN memoria' = Escrita(p, id, s.base, s.size)
    /\ UNCHANGED <<algoritmo, asignacion, kernel, pedido, indice, listaExit, transferencia, conforme>>

\* The running process asks for an F_READ or an F_WRITE of a whole segment: the
\* CPU has translated its address, and the process leaves the CPU.
PideTransferencia(p, id) ==
    /\ kernel = "libre" /\ p \in Ejecutables
    /\ transferencia = SinTransferencia
    /\ <<p, id>> \in Vivos /\ <<p, id>> \in Buffers
    /\ LET s == Segmento(p, id) IN
       transferencia' = [pid |-> p, id |-> id, dir |-> s.base, size |-> s.size, enviada |-> FALSE]
    /\ UNCHANGED <<algoritmo, asignacion, memoria, kernel, pedido, indice, listaExit, conforme>>

\* The Kernel's thread of the Filesystem sends it, when its turn comes: nothing
\* tells it of a compaction.  A request that goes out with the numbers of another
\* is in ArchivosAbiertos (desviado).
EnviaTransferencia ==
    /\ transferencia # SinTransferencia /\ ~transferencia.enviada
    /\ transferencia' = [transferencia EXCEPT !.enviada = TRUE]
    /\ UNCHANGED <<algoritmo, asignacion, memoria, kernel, pedido, indice, listaExit, conforme>>

\* The Filesystem writes in Memoria (F_READ) or only reads from it (F_WRITE), at
\* the address it was given.  A compaction takes no lock against it.
TerminaTransferencia ==
    /\ transferencia.enviada
    /\ \/ memoria' = Visibles(Escrita(transferencia.pid, transferencia.id,
                                      transferencia.dir, transferencia.size), tablasDeSegmentos)
       \/ UNCHANGED memoria
    /\ transferencia' = SinTransferencia
    /\ UNCHANGED <<algoritmo, asignacion, kernel, pedido, indice, listaExit, conforme>>

-----------------------------------------------------------------------------
\* main: segment 0 is marked over whatever malloc returned
Init ==
    /\ algoritmo \in Algoritmos
    /\ \E basura \in Basuras : espacios = Rango(0, TamSegmento0) \cup basura
    /\ listaDisp = UpdateEspacios(espacios)
    /\ tablasDeSegmentos = <<>>
    /\ memoria = [c \in Celdas |-> <<>>]
    /\ kernel = "libre" /\ pedido = SinPedido /\ indice = 0
    /\ listaExit = {} /\ transferencia = SinTransferencia /\ conforme = TRUE

Next ==
    \/ \E p \in Pids :
        \/ NewTablaSegmentos(p) \/ Termina(p) \/ EliminarProceso(p)
        \/ \E id \in Ids :
            \/ EliminarSegmento(p, id) \/ EscribirEnMemoria(p, id) \/ PideTransferencia(p, id)
            \/ \E size \in Tamanios : CrearSegmento(p, id, size)
    \/ EnviaTransferencia \/ TerminaTransferencia
    \/ CompactarEspacios

Spec == Init /\ [][Next]_vars

Repite == kernel = "repite" /\ CrearSegmento(pedido.pid, pedido.id, pedido.size)

\* Memoria and the Filesystem answer, and the CPU and the Kernel repeat the request
Equidad == WF_vars(CompactarEspacios \/ Repite) /\ WF_vars(TerminaTransferencia)

FairSpec == Spec /\ Equidad

-----------------------------------------------------------------------------
EntradaTabla == [id : Ids \cup {0}, base : Celdas, size : Tamanios \cup {TamSegmento0}]

\* The type invariant: tables start with segment 0, every segment and every
\* hole is inside the memory area.
TypeOK ==
    /\ algoritmo \in Algoritmos
    /\ espacios \subseteq Celdas
    /\ listaDisp \subseteq [base : Celdas, size : 1 .. TamMemoria]
    /\ \A h \in listaDisp : h.base + h.size <= TamMemoria
    /\ tablasDeSegmentos \in Seq([pid : Pids, tabla : Seq(EntradaTabla)])
    /\ \A t \in DOMAIN tablasDeSegmentos :
          /\ Head(tablasDeSegmentos[t].tabla) = entradaSegm0
          /\ \A k \in DOMAIN tablasDeSegmentos[t].tabla :
                LET e == tablasDeSegmentos[t].tabla[k] IN e.base + e.size <= TamMemoria
    /\ memoria \in [Celdas -> (Pids \X Ids \X (1 .. TamMemoria)) \cup {<<>>}]
    /\ kernel \in {"libre", "compacta", "mueve", "repite", "expulsa"}
    /\ pedido \in [pid : Pids, id : Ids, size : Tamanios] \cup {SinPedido}
    /\ indice \in Nat
    /\ listaExit \subseteq procesos
    /\ transferencia \in [pid : Pids, id : Ids, dir : Celdas, size : Tamanios, enviada : BOOLEAN]
                         \cup {SinTransferencia}
    /\ conforme \in BOOLEAN

Bytes(k) == LET s == Segmento(k[1], k[2]) IN Rango(s.base, s.size)

\* Two segments never share a byte, nor does one reach into segment 0, also
\* between two moves of a compaction.
SinSolapes ==
    /\ \A k \in Vivos : Bytes(k) \cap Rango(0, TamSegmento0) = {}
    /\ \A k, l \in Vivos : k # l => Bytes(k) \cap Bytes(l) = {}

\* Every hole offered is free: listaDisp is older than the tables after
\* eliminarProceso, and is computed from espacios, which moverEspacio clears
\* and sets segment by segment.
HuecosLibres ==
    \A h \in listaDisp : \A k \in Vivos : Bytes(k) \cap Rango(h.base, h.size) = {}

\* Memoria behaves as address-free segments: a process reads back what it wrote,
\* or the Filesystem for it, whatever moves, is created or goes, while memcpy goes
\* upwards and no compaction moves the segment of a transfer.
Virtual == INSTANCE MemoriaVirtual WITH
    contenido <- [k \in Vivos |-> LET s == Segmento(k[1], k[2])
                                  IN  LeerEnMemoria(s.base, s.size)]

ImplementaVirtual == Virtual!Spec

ListaAlDia == listaDisp = UpdateEspacios(ActualizarTSGlobal(tablasDeSegmentos))

\* The Kernel's repetition of the request ends, although one compaction in
\* table order may leave more than one hole, transfers hold it up, and processes
\* that ended go in between; or it is left with nothing to move and a list of
\* holes that eliminarProceso, or the first state, did not bring up to date.
CompactarAlcanza ==
    kernel = "compacta" ~>
        (kernel \in {"libre", "expulsa"} \/ (Vivos = {} /\ ~ListaAlDia))

-----------------------------------------------------------------------------
(* What the assignment document says and the code does not keep. *)

\* OUT_OF_MEMORY only when the bytes that are free do not suffice.
SinEspacioSoloSiFalta ==
    [][kernel' = "expulsa" /\ kernel # "expulsa" =>
          pedido'.size > TamMemoria - Cardinality(ActualizarTSGlobal(tablasDeSegmentos))]_vars

\* A compaction leaves one hole of all the bytes that are free, so that the
\* request that the Kernel repeats after it is answered in the end.
CompactarSiempreAlcanza == kernel = "compacta" ~> kernel \in {"libre", "expulsa"}

\* A compaction waits for the transfers of the Filesystem: the address that one
\* was sent with stays that of its segment.
TransferenciaEnSuSegmento ==
    transferencia.enviada =>
        transferencia.dir = Segmento(transferencia.pid, transferencia.id).base
=============================================================================
