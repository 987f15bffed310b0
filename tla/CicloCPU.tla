------------------------------ MODULE CicloCPU ------------------------------
(***************************************************************************)
(* The CPU process: conexionKernel, ciclo_ejec and the instructions, with  *)
(* the MMU and the accesses to Memoria.  The Kernel is the environment: it *)
(* sends the context of any process that has not ended, waits for the      *)
(* first answer in the socket, and serves it.  Memoria answers at once.    *)
(*                                                                         *)
(* One instruction is one step: the CPU has one thread, and nobody else    *)
(* touches the context, or the segments of the process, meanwhile.         *)
(* Addresses and sizes are in cells of four bytes.                         *)
(***************************************************************************)
EXTENDS Contexto, FiniteSets

CONSTANTS
    Pids,
    Programas,          \* the programs a console may send
    tam_max_segmento,   \* TAM_MAX_SEGMENTO
    TamMemoria,         \* TAM_MEMORIA
    TamSegmento0,       \* TAM_SEGMENTO_0
    PunterosSinIniciar, \* what entradaTablaSegmentos* tabla may be: "util", "invalido"
    MaxAbiertos,        \* bound: entries a process has when an F_OPEN makes it wait
    MaxRespuestas       \* bound: messages not read yet, in each socket

ASSUME CPUAssumption ==
    /\ tam_max_segmento \in Nat \ {0}
    /\ TamMemoria \in Nat /\ TamSegmento0 \in 1 .. TamMemoria
    /\ TamSegmento0 <= tam_max_segmento
    /\ PunterosSinIniciar \subseteq {"util", "invalido"}
    /\ MaxAbiertos \in Nat /\ MaxRespuestas \in Nat \ {0}
    /\ Pids \subseteq Nat
    \* programs are finite; SET copies as many cells as the register has, and
    \* CREATE_SEGMENT takes what atoi returns; addresses are not negative
    /\ \A programa \in Programas :
          /\ Len(programa) \in Nat
          /\ \A i \in 1 .. Len(programa) :
                /\ programa[i].comando = "SET" =>
                      Len(programa[i].valor) = size_of_registro(RegistroDe(programa[i].reg))
                /\ programa[i].comando = "CREATE_SEGMENT" =>
                      programa[i].id \in Int /\ programa[i].size \in Int
                /\ programa[i].comando \in {"MOV_IN", "MOV_OUT"} => programa[i].dir \in Nat

\* no program asks for a segment with an invalid id, nor for one that it has already
\* created (document, 15, "Aclaraciones"); sizes are not negative
ASSUME SegmentosAssumption ==
    \A pr \in Programas :
        LET crea == {i \in 1 .. Len(pr) : pr[i].comando = "CREATE_SEGMENT"}
        IN  /\ \A i \in crea : pr[i].id # 0 /\ pr[i].size >= 0
            /\ \A i, j \in crea : i < j /\ pr[i].id = pr[j].id =>
                  \E k \in i + 1 .. j - 1 : pr[k].comando = "DELETE_SEGMENT" /\ pr[k].id = pr[i].id

VARIABLES
    pcb,        \* the Kernel's pcb of each process
    enExec,     \* the process the Kernel sent, or -1
    terminados, \* the processes that ended
    aCPU,       \* contexts in the socket to the CPU
    aKernel,    \* answers in the socket to the Kernel
    paso,       \* "espera", "ciclo", or "muerto"
    pcb_actual, continuar_ejecucion,    \* globals of the CPU
    memoria,    \* the cells of Memoria
    acceso,     \* history: the last translation of a MOV, and what came of it
    atascada    \* history: an instruction failed and the cycle went on

cpu == <<paso, pcb_actual, continuar_ejecucion>>
vars == <<pcb, enExec, terminados, aCPU, aKernel, cpu, memoria, acceso, atascada>>

Celdas == 0 .. TamMemoria - 1
Rango(base, size) == base .. base + size - 1
entradaSegm0 == [id |-> 0, base |-> 0, size |-> TamSegmento0]
SinAcceso == [hecho |-> FALSE, despl |-> 0, tam |-> 0, size |-> 0, respuesta |-> "NINGUNA"]
Nadie == [pid |-> -1]

-----------------------------------------------------------------------------
(* MMU. *)

EnTabla(tabla, id) == {k \in DOMAIN tabla : tabla[k].id = id}

\* mmu, through the uninitialised pointer of the caller; a segment that is not
\* found leaves its mark on the last entry of the table
mmu(dir) ==
    LET tabla == pcb_actual.tabla
        id    == dir \div tam_max_segmento
        k     == IF EnTabla(tabla, id) = {} THEN Len(tabla) ELSE Min(EnTabla(tabla, id))
        hay   == EnTabla(tabla, id) # {}
    IN  [tabla   |-> IF hay THEN tabla ELSE [tabla EXCEPT ![k].id = -1],
         entrada |-> tabla[k], despl |-> dir % tam_max_segmento, hay |-> hay]

-----------------------------------------------------------------------------
(* ciclo_ejec *)

instr == pcb_actual.instrucciones[pcb_actual.program_counter + 1]

Ejecuta(comandos) ==
    /\ paso = "ciclo"
    /\ pcb_actual.program_counter < Len(pcb_actual.instrucciones)
    /\ instr.comando \in comandos

\* the end of an iteration: the cycle ends when the instruction asked for it,
\* or when it was the last one
Queda(contexto, continuar) ==
    LET sigue == continuar /\ contexto.program_counter # Len(contexto.instrucciones)
    IN  /\ pcb_actual' = contexto
        /\ continuar_ejecucion' = sigue
        /\ paso' = IF sigue THEN "ciclo" ELSE "espera"

\* serializar_contexto and its variants, and enviar_pcb
Envia(codigo, contexto, args) ==
    /\ Len(aKernel) < MaxRespuestas
    /\ aKernel' = Append(aKernel, [codigo |-> codigo, ctx |-> serializarPCB(contexto),
                                   args |-> args])

\* Mutant of Pide: continuar_ejecucion = 0 is missing.
PideMutante(codigo, args) ==
    /\ Envia(codigo, pcb_actual, args)
    /\ Queda(pcb_actual, TRUE)
    /\ UNCHANGED <<pcb, enExec, terminados, aCPU, memoria, acceso, atascada>>

\* send the request to the Kernel and leave the cycle
Pide(codigo, args) ==
    /\ Envia(codigo, pcb_actual, args)
    /\ Queda(pcb_actual, FALSE)
    /\ UNCHANGED <<pcb, enExec, terminados, aCPU, memoria, acceso, atascada>>

\* an instruction that failed; only some of them clear continuar_ejecucion
Falla(contexto, continuar) ==
    /\ Queda(contexto, continuar)
    /\ atascada' = (atascada \/ continuar)

\* list_get past the end, and the call of an unknown instruction
Muere ==
    /\ \/ paso = "ciclo" /\ pcb_actual.program_counter >= Len(pcb_actual.instrucciones)
       \/ Ejecuta({"DESCONOCIDO"})
    /\ paso' = "muerto"
    /\ UNCHANGED <<pcb, enExec, terminados, aCPU, aKernel, pcb_actual, continuar_ejecucion,
                   memoria, acceso, atascada>>

MuerePorPuntero ==
    /\ Ejecuta({"MOV_IN", "MOV_OUT", "F_READ", "F_WRITE"})
    /\ instr.comando \in {"F_READ", "F_WRITE"} => instr.arch \in ToSet(pcb_actual.archivos)
    /\ "invalido" \in PunterosSinIniciar
    /\ paso' = "muerto"
    /\ UNCHANGED <<pcb, enExec, terminados, aCPU, aKernel, pcb_actual, continuar_ejecucion,
                   memoria, acceso, atascada>>

-----------------------------------------------------------------------------
(* Registers and memory. *)

exe_SET ==
    /\ Ejecuta({"SET"})
    /\ Queda([pcb_actual EXCEPT
                !.registros = escribir_registro(@, instr.reg, instr.valor),
                !.program_counter = @ + 1], TRUE)
    /\ UNCHANGED <<pcb, enExec, terminados, aCPU, aKernel, memoria, acceso, atascada>>

\* Mutant of TamInstr: every register is taken for one of four bytes.
TamInstrMutante == size_of_registro("AX")

TamInstr == size_of_registro(RegistroDe(instr.reg))

Traduce(m, respuesta, hecho) ==
    acceso' = [hecho |-> hecho, despl |-> m.despl, tam |-> TamInstr, size |-> m.entrada.size,
               respuesta |-> respuesta]

\* obtener_dir_fisica: the error is told, and the cycle goes on
SegmentoInexistente(m) ==
    /\ ~m.hay
    /\ \E ctx \in {[pcb_actual EXCEPT !.tabla = m.tabla]} :
          Envia("ERR_INVALID_SEGMENT", ctx, <<>>) /\ Falla(ctx, TRUE)
    /\ UNCHANGED <<pcb, enExec, terminados, aCPU, memoria>>

\* mmu finds the displacement past the segment: -1, and nobody is told
FueraCallado(m) ==
    /\ m.hay /\ m.despl > m.entrada.size
    /\ Falla(pcb_actual, TRUE)
    /\ UNCHANGED <<pcb, enExec, terminados, aCPU, aKernel, memoria>>

Excede(m, tam) == m.despl + tam > m.entrada.size

\* obtener_dir_fisica_con_registro
SegmentationFault(m) ==
    /\ m.hay /\ m.despl <= m.entrada.size /\ Excede(m, TamInstr)
    /\ Envia("ERR_SEGMENTATION_FAULT", pcb_actual, <<>>) /\ Falla(pcb_actual, FALSE)
    /\ UNCHANGED <<pcb, enExec, terminados, aCPU, memoria>>

\* external to the CPU: what Memoria has at the physical address
Bytes(m, tam) == [i \in 1 .. tam |-> memoria[m.entrada.base + m.despl + i - 1]]

\* the translations that end in no access
MOVFallido ==
    /\ Ejecuta({"MOV_IN", "MOV_OUT"})
    /\ "util" \in PunterosSinIniciar
    /\ \E m \in {mmu(instr.dir)} :
          \/ SegmentoInexistente(m) /\ Traduce(m, "ERR_INVALID_SEGMENT", FALSE)
          \/ FueraCallado(m) /\ Traduce(m, "NINGUNA", FALSE)
          \/ SegmentationFault(m) /\ Traduce(m, "ERR_SEGMENTATION_FAULT", FALSE)

Alcanza(m) == m.hay /\ m.despl <= m.entrada.size /\ ~Excede(m, TamInstr)

exe_MOV_IN ==
    /\ Ejecuta({"MOV_IN"})
    /\ "util" \in PunterosSinIniciar
    /\ \E m \in {mmu(instr.dir)} :
          /\ Alcanza(m)
          /\ Queda([pcb_actual EXCEPT
                      !.registros = escribir_registro(@, instr.reg, Bytes(m, TamInstr)),
                      !.program_counter = @ + 1], TRUE)
          /\ Traduce(m, "NINGUNA", TRUE)
    /\ UNCHANGED <<pcb, enExec, terminados, aCPU, aKernel, memoria, atascada>>

exe_MOV_OUT ==
    /\ Ejecuta({"MOV_OUT"})
    /\ "util" \in PunterosSinIniciar
    /\ \E m \in {mmu(instr.dir)} :
          /\ Alcanza(m)
          /\ memoria' = [c \in Celdas |->
                           LET dir == m.entrada.base + m.despl
                           IN  IF c \in Rango(dir, TamInstr)
                               THEN leer_registro(pcb_actual.registros, instr.reg)[c - dir + 1]
                               ELSE memoria[c]]
          /\ Queda([pcb_actual EXCEPT !.program_counter = @ + 1], TRUE)
          /\ Traduce(m, "NINGUNA", TRUE)
    /\ UNCHANGED <<pcb, enExec, terminados, aCPU, aKernel, atascada>>

-----------------------------------------------------------------------------
(* Requests to the Kernel. *)

\* I/O, WAIT, SIGNAL, YIELD, EXIT, F_OPEN and DELETE_SEGMENT ask and stop
Codigo == [x \in {"I/O", "WAIT", "SIGNAL", "YIELD", "EXIT", "F_CLOSE", "F_SEEK", "F_TRUNCATE",
                  "F_READ", "F_WRITE"} |->
    CASE x = "I/O"     -> "REQ_I_O"        [] x = "WAIT"       -> "REQ_WAIT"
      [] x = "SIGNAL"  -> "REQ_SIGNAL"     [] x = "YIELD"      -> "REQ_YIELD"
      [] x = "EXIT"    -> "REQ_EXIT"       [] x = "F_CLOSE"    -> "REQ_CLOSE_FILE"
      [] x = "F_SEEK"  -> "REQ_SEEK_FILE"  [] x = "F_TRUNCATE" -> "REQ_TRUNCATE_FILE"
      [] x = "F_READ"  -> "REQ_READ_FILE"  [] x = "F_WRITE"    -> "REQ_WRITE_FILE"]

exe_Directo ==
    /\ Ejecuta({"I/O", "WAIT", "SIGNAL", "YIELD", "EXIT"})
    /\ Pide(Codigo[instr.comando], <<>>)

exe_F_OPEN == Ejecuta({"F_OPEN"}) /\ Pide("REQ_OPEN_FILE", <<instr.arch>>)

exe_DELETE_SEGMENT == Ejecuta({"DELETE_SEGMENT"}) /\ Pide("REQ_DELETE_SEGMENT", <<instr.id>>)

exe_CREATE_SEGMENT ==
    /\ Ejecuta({"CREATE_SEGMENT"})
    /\ IF instr.size > tam_max_segmento THEN Pide("ERR_INVALID_SEGMENT", <<>>)
       ELSE Pide("REQ_CREATE_SEGMENT", <<instr.id, instr.size>>)

\* F_CLOSE leaves the cycle whether the file was open or not, the others only
\* if it was
ArchivoNoAbierto ==
    /\ Ejecuta({"F_CLOSE", "F_SEEK", "F_TRUNCATE", "F_READ", "F_WRITE"})
    /\ instr.arch \notin ToSet(pcb_actual.archivos)
    /\ Envia("ERR_FILE_NOT_OPEN", pcb_actual, <<>>)
    /\ Falla(pcb_actual, instr.comando # "F_CLOSE")
    /\ UNCHANGED <<pcb, enExec, terminados, aCPU, memoria, acceso>>

exe_Archivo ==
    /\ Ejecuta({"F_CLOSE", "F_SEEK", "F_TRUNCATE"})
    /\ instr.arch \in ToSet(pcb_actual.archivos)
    /\ Pide(Codigo[instr.comando], <<instr.arch>>)

\* the count of bytes is not looked at
exe_ArchivoConMemoria ==
    /\ Ejecuta({"F_READ", "F_WRITE"})
    /\ instr.arch \in ToSet(pcb_actual.archivos)
    /\ "util" \in PunterosSinIniciar
    /\ \E m \in {mmu(instr.dir)} :
          \/ SegmentoInexistente(m) /\ UNCHANGED acceso
          \/ FueraCallado(m) /\ UNCHANGED acceso
          \/ /\ m.hay /\ m.despl <= m.entrada.size
             /\ Pide(Codigo[instr.comando], <<instr.arch, m.entrada.base + m.despl>>)

-----------------------------------------------------------------------------
(* conexionKernel of the CPU *)

\* Mutant of RecibePCB: continuar_ejecucion = 1 is missing.
RecibePCBMutante ==
    /\ paso = "espera"
    /\ aCPU # <<>>
    /\ pcb_actual' = Head(aCPU)
    /\ aCPU' = Tail(aCPU)
    /\ paso' = IF continuar_ejecucion THEN "ciclo" ELSE "espera"
    /\ UNCHANGED <<pcb, enExec, terminados, aKernel, continuar_ejecucion, memoria, acceso, atascada>>

RecibePCB ==
    /\ paso = "espera"
    /\ aCPU # <<>>
    /\ pcb_actual' = Head(aCPU)
    /\ aCPU' = Tail(aCPU)
    /\ continuar_ejecucion' = TRUE
    /\ paso' = "ciclo"
    /\ UNCHANGED <<pcb, enExec, terminados, aKernel, memoria, acceso, atascada>>

CPU ==
    \/ RecibePCB \/ Muere \/ MuerePorPuntero
    \/ exe_SET \/ MOVFallido \/ exe_MOV_IN \/ exe_MOV_OUT
    \/ exe_Directo \/ exe_F_OPEN \/ exe_DELETE_SEGMENT \/ exe_CREATE_SEGMENT
    \/ ArchivoNoAbierto \/ exe_Archivo \/ exe_ArchivoConMemoria

-----------------------------------------------------------------------------
(* The Kernel, with Memoria behind it. *)

Envio(p) ==
    /\ enExec = -1 /\ p \notin terminados
    /\ enExec' = p
    /\ Len(aCPU) < MaxRespuestas
    /\ aCPU' = Append(aCPU, serializarPCB(pcb[p]))
    /\ UNCHANGED <<pcb, terminados, aKernel, cpu, memoria, acceso, atascada>>

\* the cells that the segments of the processes take
Ocupadas ==
    Rango(0, TamSegmento0) \cup
    UNION {Rango(e.base, e.size) : e \in UNION {ToSet(pcb[q].tabla) : q \in Pids \ terminados}}

\* the table without the first entry of that id; segment 0, the first one, stays
\* whatever mark the MMU left in it
SinSegmento(tabla, id) ==
    LET suyas == EnTabla(tabla, id) \ {1}
    IN  IF id = 0 \/ suyas = {} THEN tabla ELSE RemoveAt(tabla, Min(suyas))

\* what the Kernel makes of a request, with the context it came with: nothing
\* more than the next instruction, or also a change of tables, or the same
\* instruction again (F_OPEN that blocked, CREATE_SEGMENT without a hole; the
\* compaction that follows is in Memoria.tla)
Servicio(r) ==
    LET ctx    == actualizarContextoEjec(r.ctx)
        pasada == [ctx EXCEPT !.program_counter = @ + 1]
        Con(tabla) == [pasada EXCEPT !.tabla = tabla]
    IN  CASE r.codigo = "REQ_CREATE_SEGMENT" ->
               {ctx} \cup
               {Con(Append(ctx.tabla, [id |-> r.args[1], base |-> b, size |-> r.args[2]])) :
                  b \in {x \in Celdas : /\ Rango(x, r.args[2]) \subseteq Celdas
                                        /\ Rango(x, r.args[2]) \cap Ocupadas = {}
                                        /\ x - 1 \in Ocupadas}}
          [] r.codigo = "REQ_DELETE_SEGMENT" ->
               {Con(SinSegmento(ctx.tabla, r.args[1]))}
          [] r.codigo = "REQ_OPEN_FILE" ->
               {[c EXCEPT !.archivos = Append(@, r.args[1])] :
                  c \in {pasada} \cup (IF Len(ctx.archivos) < MaxAbiertos THEN {ctx} ELSE {})}
          [] r.codigo = "REQ_CLOSE_FILE" -> {[pasada EXCEPT !.archivos = RemoveFirst(@, r.args[1])]}
          [] OTHER -> {pasada}

Errores == {"ERR_INVALID_SEGMENT", "ERR_SEGMENTATION_FAULT", "ERR_FILE_NOT_OPEN"}

\* finalizarPcb, for an error, EXIT, OUT_OF_MEMORY or INVALID_RESOURCE
Finaliza ==
    /\ Head(aKernel).codigo \in Errores \cup {"REQ_EXIT", "REQ_CREATE_SEGMENT", "REQ_WAIT",
                                             "REQ_SIGNAL"}
    /\ terminados' = terminados \cup {enExec}
    /\ pcb' = [pcb EXCEPT ![enExec] = actualizarContextoEjec(Head(aKernel).ctx)]

Atiende ==
    /\ Head(aKernel).codigo \notin Errores \cup {"REQ_EXIT"}
    /\ \E ctx \in Servicio(Head(aKernel)) : pcb' = [pcb EXCEPT ![enExec] = ctx]
    /\ UNCHANGED terminados

\* whatever comes first in the socket is taken for the answer of the process sent
Recibe ==
    /\ enExec # -1 /\ aKernel # <<>>
    /\ aKernel' = Tail(aKernel)
    /\ enExec' = -1
    /\ Finaliza \/ Atiende
    /\ UNCHANGED <<aCPU, cpu, memoria, acceso, atascada>>

-----------------------------------------------------------------------------
\* new_tabla_segmentos gives every process segment 0; its registers are what
\* malloc returned
Init ==
    /\ \E programa \in [Pids -> Programas] :
          pcb = [p \in Pids |->
                   [pid |-> p, instrucciones |-> programa[p], program_counter |-> 0,
                    registros |-> [r \in Registros |-> [i \in 1 .. size_of_registro(r) |-> 0]],
                    tabla |-> <<entradaSegm0>>, archivos |-> <<>>]]
    /\ enExec = -1 /\ terminados = {}
    /\ aCPU = <<>> /\ aKernel = <<>>
    /\ paso = "espera" /\ pcb_actual = Nadie /\ continuar_ejecucion = TRUE
    /\ memoria = [c \in Celdas |-> 0]
    /\ acceso = SinAcceso /\ atascada = FALSE

Next == CPU \/ (\E p \in Pids : Envio(p)) \/ Recibe

Spec == Init /\ [][Next]_vars
\* the CPU runs and the Kernel reads its answers
FairSpec == Spec /\ WF_vars(CPU) /\ WF_vars(Recibe)

-----------------------------------------------------------------------------
(* Properties. *)

Contextos == UNION {ToSet(aCPU), {r.ctx : r \in ToSet(aKernel)}, {pcb[p] : p \in Pids}}

\* Every context has registers of their sizes and a table that starts with a
\* segment, in the memory; the MMU's mark (-1) only comes from the CPU.
TypeOK ==
    /\ enExec \in Pids \cup {-1} /\ terminados \subseteq Pids
    /\ paso \in {"espera", "ciclo", "muerto"} /\ continuar_ejecucion \in BOOLEAN
    /\ DOMAIN memoria = Celdas
    /\ atascada \in BOOLEAN
    /\ \A c \in Contextos :
          /\ c.pid \in Pids
          /\ c.program_counter \in 0 .. Len(c.instrucciones)
          /\ \A r \in Registros : Len(c.registros[r]) = size_of_registro(r)
          /\ Len(c.tabla) > 0
          /\ \A e \in ToSet(c.tabla) : Rango(e.base, e.size) \subseteq Celdas

EnCPU == IF paso = "ciclo" THEN {pcb_actual.pid} ELSE {}

\* As long as no instruction failed and was repeated, what goes round between
\* Kernel and CPU is one context, that of the process the Kernel sent: in the
\* socket to the CPU, in the cycle, or in the socket to the Kernel.  So the
\* Kernel never takes the answer of one process for that of another.
UnContextoEnVuelo ==
    ~atascada =>
      /\ Len(aCPU) + Cardinality(EnCPU) + Len(aKernel) <= IF enExec = -1 THEN 0 ELSE 1
      /\ {c.pid : c \in ToSet(aCPU)} \cup EnCPU \cup {r.ctx.pid : r \in ToSet(aKernel)}
            \subseteq {enExec}

\* where the context of a process is
Vigente(p) ==
    CASE enExec # p       -> pcb[p]
      [] enExec = p /\ aCPU # <<>> -> Head(aCPU)
      [] enExec = p /\ aCPU = <<>> /\ aKernel # <<>> -> Head(aKernel).ctx
      [] OTHER            -> pcb_actual

Leidas(base, size) == [i \in 1 .. size |-> memoria[base + i - 1]]

\* the segments of the processes that live, segment 0 apart
SegmentosVivos ==
    UNION {{<<p, Vigente(p).tabla[k].id>> : k \in 2 .. Len(Vigente(p).tabla)} :
              p \in Pids \ terminados}

\* the machine of each process, as its context and Memoria say
programaDe    == [p \in Pids |-> pcb[p].instrucciones]
contadorDe    == [p \in Pids |-> Vigente(p).program_counter]
registrosDe   == [p \in Pids |-> [r \in Registros \ {"CX", "DX"} |-> Vigente(p).registros[r]]]
vivos         == [p \in Pids |-> p \notin terminados]
segmentosDe   == [k \in SegmentosVivos |->
                    LET t == Vigente(k[1]).tabla
                        e == t[Min(EnTabla(t, k[2]))]
                    IN  Leidas(e.base, e.size)]
segmentoComun == Leidas(0, TamSegmento0)

Maquina == INSTANCE MaquinaPorProceso WITH
    Volatiles <- {"CX", "DX"}, Tam <- size_of_registro, Nombre <- RegistroDe,
    programa <- programaDe, pc <- contadorDe, registros <- registrosDe, vivo <- vivos,
    segmentos <- segmentosDe, comun <- segmentoComun, conforme <- ~atascada

\* Programs run as if each had a CPU of its own: over the trips of its context
\* through the sockets, the Kernel's lists and the runs of others, a process
\* keeps its registers (but CX and DX), its place and the contents of its
\* segments, and nothing but its own instructions changes them.
ImplementaMaquina == Maquina!Spec

FinSinExit == paso = "espera" /\ enExec = pcb_actual.pid
              /\ pcb_actual.program_counter = Len(pcb_actual.instrucciones)

\* A context sent to the CPU comes back, unless an instruction failed and is
\* repeated for ever, the program ended without EXIT, or the CPU died.
SiempreResponde ==
    \A p \in Pids : enExec = p ~> (enExec # p \/ atascada \/ FinSinExit \/ paso = "muerto")

-----------------------------------------------------------------------------
(* What the assignment document says and the code does not keep. *)

\* An access that goes beyond the end of its segment is told to the Kernel as a
\* segmentation fault.
SegFaultAvisado ==
    acceso.despl + acceso.tam > acceso.size =>
        acceso.respuesta \in {"ERR_SEGMENTATION_FAULT", "ERR_INVALID_SEGMENT"}
=============================================================================
