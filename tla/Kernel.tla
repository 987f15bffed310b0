------------------------------- MODULE Kernel -------------------------------
(***************************************************************************)
(* The Kernel process: its threads composed, with Memoria, the CPU and the *)
(* Filesystem as external repliers, and what the threads must keep true.   *)
(***************************************************************************)
EXTENDS Planificadores, HiloCPU, HiloMemoria, HiloFileSystem

\* every console was served and every thread waits for work
Terminado ==
    /\ \A p \in Pids : consola[p] = "fin"
    /\ listaExit = <<>> /\ En("LP", "espera") /\ En("CP", "espera")
    /\ ~libre["PCBENEJECUCION"]
    /\ UNCHANGED vars

Next ==
    \/ \E p \in Pids : ConsolaCrea(p) \/ Consola(p) \/ IO(p)
    \/ IOAvisa
    \/ LargoPlazo
    \/ CortoPlazo
    \/ HiloDeCPU
    \/ HiloDeMemoria
    \/ HiloDeFileSystem
    \/ Filesystem
    \/ Terminado

Spec == Init /\ [][Next]_vars

\* Each thread that can take a step takes one in the end, and so do the
\* processes at the other end of the sockets.  Nothing makes consoles connect.
Equidad ==
    /\ \A p \in Pids : WF_vars(Consola(p)) /\ WF_vars(IO(p))
    /\ WF_vars(IOAvisa)
    /\ WF_vars(LargoPlazo)
    /\ WF_vars(CortoPlazo)
    /\ WF_vars(HiloDeCPU)
    /\ WF_vars(HiloDeMemoria)
    /\ WF_vars(HiloDeFileSystem)
    /\ WF_vars(Filesystem)

FairSpec == Spec /\ Equidad

-----------------------------------------------------------------------------
PidsONulo == Pids \cup {Nulo}

EtiquetasCPU == {"espera", "recibe", "avisa", "avisa_y_sigue", "ioparam", "segmento",
                 "fin_avisar_consola", "fin_avisar_planificador"}
EtiquetasMEM == {"espera", "iniciar", "pcbready", "crear", "eliminar", "consulta",
                 "act_ready", "act_exec", "act_block", "fin", "confirma",
                 "fin_avisar_consola", "fin_avisar_planificador", "libera"}
EtiquetasFS  == {"espera", "envia", "avisa_bloqueo", "recibe", "avisa_listo"}
EtiquetasLP  == {"espera", "grado", "iniciar", "tabla", "pcbnew", "pcbready", "avisa",
                 "sync_1", "fin", "sync_2", "listaexit", "avisa_fin"}
EtiquetasCP  == {"espera", "mira"}
Etiquetas == EtiquetasCPU \cup EtiquetasMEM \cup EtiquetasFS \cup EtiquetasLP \cup EtiquetasCP

PedidosFS == [op : Operaciones \cup {"NADA", "REQ_OP_MEMORIA"},
              pid : PidsONulo, de : PidsONulo]

TiposMutex == libre \in [Mutexes -> BOOLEAN] /\ grado \in Nat

TiposListas ==
    /\ colaNew \in Seq(Pids) /\ listaReady \in Seq(Pids) /\ listaExec \in Seq(Pids)
    /\ listaBlock \in Seq(Pids) /\ listaExit \in Seq(Pids)
    /\ instancias \in [Recursos -> Int]
    /\ colaBloqueados \in [Recursos -> Seq(Pids)]

TiposMensajes ==
    /\ mensajePlanificador \in {"NADA", "READY_PCB", "FINALIZED_PCB"}
    /\ mensajeAMemoria \in {"NADA", "REQ_INICIAR_PROCESO", "REQ_CREAR_SEGMENTO",
                            "REQ_ELIMINAR_SEGMENTO", "REQ_FIN_PROCESO"}
    /\ mensajeFileSystem \in Operaciones \cup {"NADA"}
    /\ parametro \in PidsONulo
    /\ parametroIO \in PidsONulo

TiposPcb ==
    /\ cantidadProcesos \in Nat
    /\ programa \in [Pids -> Seq(Instrucciones)]
    /\ program_counter \in [Pids -> Nat]
    /\ tabla \in [Pids -> Int]

TiposHilos ==
    /\ pc \in [Hilos -> Etiquetas]
    /\ pc["CPU"] \in EtiquetasCPU /\ pc["MEM"] \in EtiquetasMEM
    /\ pc["FS"] \in EtiquetasFS /\ pc["LP"] \in EtiquetasLP /\ pc["CP"] \in EtiquetasCP
    /\ pcb \in [Hilos -> PidsONulo]

TiposEfimeros ==
    /\ semaforo \in [Pids -> BOOLEAN]
    /\ consola \in [Pids -> {"fuera", "avisa", "espera_fin", "fin"}]
    /\ io \in [Pids -> {"no", "arranca", "duerme"}]
    /\ avisosIO \in Nat
    /\ tiempo \in [Pids -> PidsONulo]

TiposExternos ==
    /\ memoria \subseteq PidsONulo
    /\ epoca \in Nat
    /\ fsPedidos \in Seq(PedidosFS)
    /\ fsRespuestas \in Seq({"OK", "OK_OP_MEMORIA"})

\* The type invariant.  A NULL pcb never enters a list: queue_pop and
\* list_remove on an empty list would put one there.
TypeOK ==
    /\ TiposMutex /\ TiposListas /\ TiposMensajes /\ TiposPcb
    /\ TiposHilos /\ TiposEfimeros /\ TiposExternos

-----------------------------------------------------------------------------
(* Who may act on the running process. *)

\* the CPU thread holds the running process
CpuTiene == pc["CPU"] \in {"recibe", "segmento", "avisa_y_sigue"}

\* the memory thread serves a segment request of the running process
MemAtiende ==
    pc["MEM"] \in {"crear", "eliminar", "consulta", "act_ready", "act_exec", "act_block"}

\* ... or such a request is posted to it
MemTiene ==
    \/ MemAtiende
    \/ /\ libre["MENSAJEAMEMORIA"]
       /\ mensajeAMemoria \in {"REQ_CREAR_SEGMENTO", "REQ_ELIMINAR_SEGMENTO"}

Portador(x) ==
    \/ x = "cpu_avisada" /\ libre["MENSAJEACPU"]
    \/ x = "CPU" /\ CpuTiene
    \/ x = "MEM" /\ MemTiene
    \/ x = "fs_avisado" /\ libre["MENSAJEAFILESYSTEM"]

Portadores == {x \in {"cpu_avisada", "CPU", "MEM", "fs_avisado"} : Portador(x)}

\* At most one process runs, exactly one thread (or posted wake-up) is in
\* charge of it, and that thread's pcb pointer is the running process: the
\* CPU, memory and filesystem threads all take it with list_get/list_remove
\* (listaExec, 0), without a lock.
DuenioUnico ==
    /\ Len(listaExec) <= 1
    /\ listaExec = <<>> <=> Portadores = {}
    /\ \A x, y \in Portadores : x = y
    /\ CpuTiene => listaExec = <<pcb["CPU"]>>
    /\ MemAtiende => listaExec = <<pcb["MEM"]>>

-----------------------------------------------------------------------------
(* The one-word mailboxes. *)

UnoSolo(a, b, c) == (a /\ ~b /\ ~c) \/ (~a /\ b /\ ~c) \/ (~a /\ ~b /\ c)

\* The right to write mensajeAMemoria, and that to write mensajePlanificador,
\* is in a single place: the free mutex, the posted message, or the thread
\* serving it.
TestigoUnico ==
    /\ UnoSolo(libre["CONEXIONMEMORIA"], libre["MENSAJEAMEMORIA"], ~En("MEM", "espera"))
    /\ UnoSolo(libre["MENSAJELARGOPLAZO"], libre["PLANILARGOPLAZO"], ~En("LP", "espera"))

\* No message is overwritten: besides, the one on which the long-term
\* scheduler waits for the memory thread is still the one it wrote.
BuzonesIntactos ==
    /\ TestigoUnico
    /\ En("LP", "tabla") /\ ~libre["TABLASEGMENTOS"]
          => mensajeAMemoria = "REQ_INICIAR_PROCESO"
    /\ En("LP", "sync_2") /\ ~libre["SYNC_FIN"]
          => mensajeAMemoria = "REQ_FIN_PROCESO"

Cuenta(condicion) == IF condicion THEN 1 ELSE 0

\* the long-term scheduler is admitting a process
Admitiendo == pc["LP"] \in {"grado", "iniciar", "tabla", "pcbnew", "pcbready"}

\* the handlerConsola threads that have a READY_PCB to post
ConsolasQueAvisan == {p \in Pids : consola[p] = "avisa"}

\* Every process in New has exactly one READY_PCB on its way (in a console
\* thread, in the mailbox or being served), although consoles and
\* finalizarPcb write the same mensajePlanificador: no admission is lost, and
\* the long-term scheduler never pops an empty colaNew.
AvisosDeAlta ==
    Len(colaNew) = Cardinality(ConsolasQueAvisan)
                   + Cuenta(libre["PLANILARGOPLAZO"] /\ mensajePlanificador = "READY_PCB")
                   + Cuenta(Admitiendo)

-----------------------------------------------------------------------------
(* Where the PCBs are. *)

EnIO == {p \in Pids : io[p] # "no"} \cup (IF En("CPU", "ioparam") THEN {pcb["CPU"]} ELSE {})

Bloqueados == UNION {ToSet(colaBloqueados[r]) : r \in Recursos}

\* admitted and not yet finished
Activos == ToSet(listaReady) \cup ToSet(listaExec) \cup ToSet(listaBlock)
              \cup Bloqueados \cup EnIO

Posiciones(p, s) == {i \in DOMAIN s : s[i] = p}

\* how many times p occurs in s
Veces(p, s) == Cardinality(Posiciones(p, s))

LugaresDe(p) ==
    Veces(p, colaNew) + Veces(p, listaReady) + Veces(p, listaExec)
    + Veces(p, listaBlock) + Veces(p, listaExit)
    + Cardinality(UNION {{r} \X Posiciones(p, colaBloqueados[r]) : r \in Recursos})
    + Cuenta(p \in EnIO)

\* A created process is in exactly one list, queue or I/O thread; it is in
\* none only once it was freed, and then Memoria holds no table of it and its
\* console was told.  handlerIO, the resource queues and the filesystem
\* thread hand the pcb pointer from one to another without locks.
CadaPcbEnUnLugar ==
    \A p \in Pids :
        \/ p < cantidadProcesos /\ LugaresDe(p) = 1
        \/ p >= cantidadProcesos /\ LugaresDe(p) = 0
        \/ /\ p < cantidadProcesos /\ LugaresDe(p) = 0
           /\ p \notin memoria
           /\ consola[p] = "fin" \/ semaforo[p]

\* The permits of grado_programacion are conserved: each is free, taken by an
\* admission in course, by an admitted process, or by one that left Exec and
\* whose sem_post is still to come.  So no more than Grado are ever admitted.
PermisosConservados ==
    Grado = grado + Cardinality(Activos)
            + Cuenta(Admitiendo /\ ~En("LP", "grado"))
            + Cardinality({h \in {"CPU", "MEM"} :
                              pc[h] \in {"fin_avisar_consola", "fin_avisar_planificador"}})

\* A process that may run has a segment table of its own, obtained for its
\* pid: conexionMemoria peeks colaNew twice, before and after asking Memoria.
TablaPropia == \A p \in Activos : p \in memoria /\ tabla[p] >= 0

\* The pcb the long-term scheduler frees (the head of listaExit) is one whose
\* memory was released: finalizarPcb appends to listaExit without LISTAEXIT.
LiberaLoQueMemoriaSolto ==
    En("LP", "listaexit") => listaExit # <<>> /\ Head(listaExit) \notin memoria

\* handlerIO sleeps the time its own process asked for: parametroIO is one
\* global for all of them.
IOConSuTiempo == \A p \in Pids : io[p] = "duerme" => tiempo[p] = p

\* Nobody goes on before the Filesystem did what it asked for: two threads receive
\* on socketFileSystem, and each takes whatever answer comes first for its own.
OperacionTerminada ==
    \A i \in DOMAIN fsPedidos :
        fsPedidos[i].op # "REQ_OP_MEMORIA" => fsPedidos[i].pid \notin ToSet(listaExec)

-----------------------------------------------------------------------------
(* The Kernel implements the life cycle. *)

EstadoDe(p) ==
    CASE p >= cantidadProcesos          -> "AFUERA"
      [] p \in ToSet(colaNew)           -> "NEW"
      [] p \in ToSet(listaReady)        -> "READY"
      [] p \in ToSet(listaExec)         -> "EXEC"
      [] p \in ToSet(listaBlock) \cup Bloqueados \cup EnIO -> "BLOCK"
      [] p \in ToSet(listaExit)         -> "EXIT"
      [] OTHER                          -> "LIBERADO"

Ciclo == INSTANCE CicloDeVida WITH estado <- [p \in Pids |-> EstadoDe(p)]

\* Whatever the threads interleave, every process moves along the five-state
\* diagram: one at a time in Exec, admitted in order of arrival, never more
\* than Grado at once.
ImplementaCiclo == Ciclo!Spec

-----------------------------------------------------------------------------
(* Wake-ups of the short-term scheduler. *)

FinalizacionEnCurso ==
    \/ \E h \in {"CPU", "MEM"} : pc[h] \in {"fin_avisar_consola", "fin_avisar_planificador"}
    \/ libre["PLANILARGOPLAZO"] /\ mensajePlanificador = "FINALIZED_PCB"
    \/ pc["LP"] \in {"sync_1", "fin", "sync_2", "listaexit", "avisa_fin"}

AvisoPendiente ==
    \/ libre["PCBENEJECUCION"]
    \/ En("CP", "mira")
    \/ En("LP", "avisa")
    \/ pc["CPU"] \in {"avisa", "avisa_y_sigue", "ioparam"}
    \/ pc["FS"] \in {"envia", "avisa_bloqueo", "avisa_listo"}
    \/ avisosIO > 0
    \/ FinalizacionEnCurso

\* No wake-up is lost: with a process ready and none running, something is
\* still going to make the short-term scheduler look at the lists.
SinAvisoPerdido == listaReady # <<>> /\ listaExec = <<>> => AvisoPendiente

-----------------------------------------------------------------------------
(* Liveness. *)

\* The console of every process is told that it ended, and the process is
\* then freed, its memory released.
TodoProcesoTermina ==
    \A p \in Pids :
        consola[p] = "avisa" ~> consola[p] = "fin" /\ LugaresDe(p) = 0 /\ p \notin memoria

-----------------------------------------------------------------------------
(* What the assignment document and the comments say and the code does not keep. *)

\* A negative count is the number of processes in the resource's queue.
InstanciasCuentanBloqueados ==
    \A r \in Recursos :
        Len(colaBloqueados[r]) = IF instancias[r] < 0 THEN -instancias[r] ELSE 0

\* The request sent for a process carries that process's arguments.
ParametrosPropios ==
    \A i \in DOMAIN fsPedidos :
        fsPedidos[i].op # "REQ_OP_MEMORIA" => fsPedidos[i].de = fsPedidos[i].pid

\* the process obtained a segment that compaction may move
TieneSegmento(p) == \E i \in 1 .. program_counter[p] : programa[p][i].op = "CREATE_SEGMENT"

\* The CPU works with segment tables that know of every compaction.
TablasAlDia ==
    En("CPU", "recibe") /\ TieneSegmento(pcb["CPU"]) => tabla[pcb["CPU"]] = epoca
=============================================================================
