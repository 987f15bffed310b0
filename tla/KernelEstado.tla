---------------------------- MODULE KernelEstado ----------------------------
(***************************************************************************)
(* State of the Kernel process (Kernel/src/kernel.c): the global lists,    *)
(* the one-word mailboxes between threads, the pthread mutexes, and where  *)
(* every thread stands.                                                    *)
(*                                                                         *)
(* The code uses its mutexes as binary semaphores: one thread locks, often *)
(* another one unlocks, and unlocking a free mutex is harmless (normal     *)
(* glibc mutexes).  A mutex is therefore one boolean, TRUE when free.      *)
(*                                                                         *)
(* A step of a thread goes from one blocking call (lock, sem_wait, recv)   *)
(* to the next: it takes the mutex it was waiting for and does everything  *)
(* up to the next call that may block.  Where a thread reads an unlocked   *)
(* global or changes a list between two such calls, the step is split      *)
(* there (FsToma/FsEnvia, CpToma/CpDespacha, the three lists of a          *)
(* compaction).                                                            *)
(***************************************************************************)
EXTENDS Integers, FiniteSets, SequencesExt

CONSTANTS
    MaxProcesos,          \* bound: consoles that ever connect
    ConsolasSimultaneas,  \* bound: consoles waiting for their end at one time
    Grado,                \* GRADO_MAX_MULTIPROGRAMACION
    Algoritmo,            \* ALGORITMO_PLANIFICACION, "FIFO" or "HRRN"
    Recursos,             \* names in RECURSOS
    Instancias,           \* INSTANCIAS_RECURSOS, as a function of the name
    Programas,            \* the pseudo-programs a console may send
    RespuestasCrear,      \* replies of Memoria to REQ_CREAR_SEGMENTO
    MaxCompactaciones     \* bound: compactions Memoria may ask for

Pids == 0 .. MaxProcesos - 1
Nulo == -1     \* NULL, where a pcb pointer is expected

Operaciones == {"EXIT", "ERROR", "WAIT", "SIGNAL", "I/O", "YIELD",
                "CREATE_SEGMENT", "DELETE_SEGMENT",
                "F_READ", "F_WRITE", "F_TRUNCATE"}

\* An instruction that reaches the Kernel.  arg is the resource name of WAIT
\* and SIGNAL; "ERROR" stands for the ERR_* codes of the CPU.
Instrucciones == [op : Operaciones, arg : STRING]

ASSUME CantidadesAssumption ==
    /\ MaxProcesos \in Nat \ {0}
    /\ ConsolasSimultaneas \in Nat
    /\ Grado \in Nat
    /\ MaxCompactaciones \in Nat
ASSUME RecursosAssumption ==
    /\ Recursos \subseteq STRING /\ IsFiniteSet(Recursos)
    /\ Instancias \in [Recursos -> Int]
ASSUME ProgramasAssumption == Programas \subseteq Seq(Instrucciones)
ASSUME RespuestasAssumption == RespuestasCrear \subseteq {"OK", "ERROR", "COMPACTAR"}

Hilos == {"CPU", "MEM", "FS", "LP", "CP"}

Mutexes == {"SYNC_FIN", "CONEXIONMEMORIA", "LISTAEXIT", "PCBNEW", "PCBREADY",
            "MENSAJEAMEMORIA", "MENSAJEACPU", "MENSAJEAFILESYSTEM",
            "TABLASEGMENTOS", "PCBENEJECUCION", "PLANICORTOPLAZO",
            "PLANILARGOPLAZO", "MENSAJELARGOPLAZO", "IOPARAM", "FINALIZARPCB"}

\* Mutant of Tomados: main() forgets to lock TABLASEGMENTOS.
TomadosMutante == {"MENSAJEAMEMORIA", "MENSAJEACPU", "MENSAJEAFILESYSTEM",
                   "PLANILARGOPLAZO"}

\* The mutexes main() locks right after creating them.
Tomados == {"MENSAJEAMEMORIA", "MENSAJEACPU", "MENSAJEAFILESYSTEM",
            "TABLASEGMENTOS", "PLANILARGOPLAZO"}

VARIABLES
    libre,                \* [Mutexes -> BOOLEAN]
    grado,                \* value of sem_t grado_programacion
    colaNew, listaReady, listaExec, listaBlock, listaExit,
    mensajePlanificador, mensajeAMemoria, mensajeFileSystem,
    parametro,            \* parametroChar/Int1/Int2: whose arguments they hold
    parametroIO,          \* whose I/O time the global holds
    instancias,           \* t_recurso.instancias
    colaBloqueados,       \* t_recurso.colaBloqueados
    cantidadProcesos,
    programa,             \* pcb->instrucciones, as far as the Kernel sees them
    program_counter,
    tabla,                \* pcb->tabla_segmentos: the compaction it is up to date with
    semaforo,             \* handlerConsola's mutex, TRUE once unlocked
    pc,                   \* where each permanent thread stands
    consola,              \* where the handlerConsola thread of a process stands
    io,                   \* where the handlerIO thread of a process stands
    avisosIO,             \* handlerIO threads that still have to wake the scheduler
    tiempo,               \* handlerIO's local: whose time it read
    pcb,                  \* the local pcb pointer of each thread
    memoria,              \* external: pids with a segment table in Memoria
    epoca,                \* external: compactions Memoria has done
    fsPedidos,            \* socketFileSystem, Kernel to Filesystem
    fsRespuestas          \* socketFileSystem, Filesystem to Kernel

listas    == <<colaNew, listaReady, listaExec, listaBlock, listaExit>>
buzones   == <<mensajePlanificador, mensajeAMemoria, mensajeFileSystem>>
params    == <<parametro, parametroIO>>
recursos  == <<instancias, colaBloqueados>>
nacimiento == <<cantidadProcesos, programa>>
efimeros  == <<semaforo, consola, io, avisosIO, tiempo>>
sockets   == <<fsPedidos, fsRespuestas>>
externo   == <<memoria, epoca>>

vars == <<libre, grado, listas, buzones, params, recursos, nacimiento,
          program_counter, tabla, efimeros, pc, pcb, externo, sockets>>

-----------------------------------------------------------------------------
(* Mutexes used as binary semaphores. *)

\* unlock every mutex of S
Suelta(S) == libre' = [m \in Mutexes |-> libre[m] \/ m \in S]

\* lock m
Toma(m) == libre[m] /\ libre' = [libre EXCEPT ![m] = FALSE]

\* lock m, then unlock every mutex of S
TomaYSuelta(m, S) ==
    /\ libre[m]
    /\ libre' = [x \in Mutexes |-> x \in S \/ (x # m /\ libre[x])]

-----------------------------------------------------------------------------
(* commons lists: NULL where there is no element. *)

Primero(l) == IF l = <<>> THEN Nulo ELSE Head(l)
Resto(l) == IF l = <<>> THEN <<>> ELSE Tail(l)

\* thread h goes to label e
Va(h, e) == pc' = [pc EXCEPT ![h] = e]
En(h, e) == pc[h] = e

\* pcb->program_counter += 1
Avanza(p) == program_counter' = [program_counter EXCEPT ![p] = @ + 1]

\* the instruction the CPU stops at when it is given the context of p
Instruccion(p) == programa[p][program_counter[p] + 1]

-----------------------------------------------------------------------------
Init ==
    /\ libre = [m \in Mutexes |-> m \notin Tomados]
    /\ grado = Grado
    /\ colaNew = <<>> /\ listaReady = <<>> /\ listaExec = <<>>
    /\ listaBlock = <<>> /\ listaExit = <<>>
    /\ mensajePlanificador = "NADA"
    /\ mensajeAMemoria = "NADA"
    /\ mensajeFileSystem = "NADA"
    /\ parametro = Nulo
    /\ parametroIO = Nulo
    /\ instancias = Instancias
    /\ colaBloqueados = [r \in Recursos |-> <<>>]
    /\ cantidadProcesos = 0
    /\ programa = [p \in Pids |-> <<>>]
    /\ program_counter = [p \in Pids |-> 0]
    /\ tabla = [p \in Pids |-> -1]
    /\ semaforo = [p \in Pids |-> FALSE]
    /\ pc = [h \in Hilos |-> "espera"]
    /\ consola = [p \in Pids |-> "fuera"]
    /\ io = [p \in Pids |-> "no"]
    /\ avisosIO = 0
    /\ tiempo = [p \in Pids |-> Nulo]
    /\ pcb = [h \in Hilos |-> Nulo]
    /\ memoria = {}
    /\ epoca = 0
    /\ fsPedidos = <<>>
    /\ fsRespuestas = <<>>

-----------------------------------------------------------------------------
(***************************************************************************)
(* finalizarPcb, which the CPU thread and the memory thread run.  The pcb  *)
(* it finishes is the head of listaExec, not its argument.                 *)
(***************************************************************************)
FinalizarEmpieza(h) ==
    /\ pcb' = [pcb EXCEPT ![h] = Primero(listaExec)]
    /\ listaExec' = Resto(listaExec)
    /\ listaExit' = Append(listaExit, Primero(listaExec))
    /\ Va(h, "fin_avisar_consola")
    /\ UNCHANGED <<colaNew, listaReady, listaBlock>>

\* lock FINALIZARPCB; unlock the semaphore the console waits on
FinalizarAvisaConsola(h) ==
    /\ En(h, "fin_avisar_consola")
    /\ Toma("FINALIZARPCB")
    /\ semaforo' = [semaforo EXCEPT ![pcb[h]] = TRUE]
    /\ Va(h, "fin_avisar_planificador")
    /\ UNCHANGED <<grado, listas, buzones, params, recursos, nacimiento,
                   program_counter, tabla, consola, io, avisosIO, tiempo, pcb, externo,
                   sockets>>

\* Mutant of FinalizarAvisaPlanificador: no sem_post(grado_programacion).
FinalizarAvisaPlanificadorMutante(h, sigue) ==
    /\ En(h, "fin_avisar_planificador")
    /\ TomaYSuelta("MENSAJELARGOPLAZO", {"PLANILARGOPLAZO"})
    /\ mensajePlanificador' = "FINALIZED_PCB"
    /\ Va(h, sigue)
    /\ UNCHANGED <<grado, listas, mensajeAMemoria, mensajeFileSystem, params, recursos,
                   nacimiento, program_counter, tabla, efimeros, pcb, externo, sockets>>

\* lock MENSAJELARGOPLAZO; post FINALIZED_PCB; sem_post(grado_programacion)
FinalizarAvisaPlanificador(h, sigue) ==
    /\ En(h, "fin_avisar_planificador")
    /\ TomaYSuelta("MENSAJELARGOPLAZO", {"PLANILARGOPLAZO"})
    /\ mensajePlanificador' = "FINALIZED_PCB"
    /\ grado' = grado + 1
    /\ Va(h, sigue)
    /\ UNCHANGED <<listas, mensajeAMemoria, mensajeFileSystem, params, recursos,
                   nacimiento, program_counter, tabla, efimeros, pcb, externo, sockets>>
=============================================================================
