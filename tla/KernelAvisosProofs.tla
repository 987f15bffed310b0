------------------------- MODULE KernelAvisosProofs -------------------------
(***************************************************************************)
(* The hand-overs between the threads of the Kernel: the mailboxes, the    *)
(* mutexes one thread locks and another unlocks, the wake-ups of the       *)
(* short-term scheduler and the list of finished processes.  Everything    *)
(* rests on the inductive invariant IInv of KernelProofs.                  *)
(***************************************************************************)
EXTENDS KernelProofs

USE DEF listas, buzones, params, recursos, nacimiento, efimeros, externo, sockets,
        Hilos, Mutexes, Etiquetas, EtiquetasCPU, EtiquetasMEM, EtiquetasFS,
        EtiquetasLP, EtiquetasCP

-----------------------------------------------------------------------------
(* The long-term scheduler and the memory thread. *)

\* a process to admit, or one to finish, is posted to the memory thread or being served
PideAlta ==
    \/ libre["MENSAJEAMEMORIA"] /\ mensajeAMemoria = "REQ_INICIAR_PROCESO"
    \/ pc["MEM"] = "iniciar"
PideFin ==
    \/ libre["MENSAJEAMEMORIA"] /\ mensajeAMemoria = "REQ_FIN_PROCESO"
    \/ pc["MEM"] \in {"fin", "confirma"}

\* The scheduler waits exactly while the memory thread has its message.
Citas ==
    /\ PideAlta <=> pc["LP"] = "tabla" /\ ~libre["TABLASEGMENTOS"]
    /\ libre["TABLASEGMENTOS"] => pc["LP"] = "tabla"
    /\ PideFin <=> pc["LP"] = "sync_2" /\ ~libre["SYNC_FIN"]
    /\ pc["LP"] \in {"fin", "listaexit", "avisa_fin"} => ~libre["SYNC_FIN"]
    /\ pc["MEM"] = "iniciar" => mensajeAMemoria = "REQ_INICIAR_PROCESO"
    /\ pc["MEM"] \in {"fin", "confirma"} => mensajeAMemoria = "REQ_FIN_PROCESO"

\* Steps of the consoles, of the I/O threads, of the short-term scheduler and of the
\* filesystem thread leave alone what Citas speaks of.
LEMMA AjenoALasCitas ==
    ASSUME TypeOK,
           \/ \E p \in Pids : ConsolaCrea(p) \/ Consola(p) \/ IO(p)
           \/ IOAvisa \/ CortoPlazo \/ HiloDeFileSystem \/ Filesystem \/ Terminado
           \/ UNCHANGED vars
    PROVE  /\ mensajeAMemoria' = mensajeAMemoria
           /\ pc'["LP"] = pc["LP"] /\ pc'["MEM"] = pc["MEM"] /\ pc'["CPU"] = pc["CPU"]
           /\ pcb'["CPU"] = pcb["CPU"] /\ pcb'["MEM"] = pcb["MEM"]
           /\ memoria' = memoria /\ listaExit' = listaExit
           /\ \A m \in {"CONEXIONMEMORIA", "MENSAJEAMEMORIA", "TABLASEGMENTOS", "SYNC_FIN"} :
                 libre'[m] <=> libre[m]
<1>1. ASSUME NEW p \in Pids, ConsolaCrea(p) \/ Consola(p) \/ IO(p)
      PROVE  /\ UNCHANGED <<mensajeAMemoria, pc, pcb, memoria, listaExit>>
             /\ \A m \in {"CONEXIONMEMORIA", "MENSAJEAMEMORIA", "TABLASEGMENTOS", "SYNC_FIN"} :
                   libre'[m] <=> libre[m]
   BY <1>1 DEF ConsolaCrea, Consola, ConsolaAvisa, ConsolaFin, IO, IOLee, IODespierta,
               Suelta, TomaYSuelta, TypeOK, TiposMutex
<1>2. CASE IOAvisa
   BY <1>2 DEF IOAvisa, TomaYSuelta, TypeOK, TiposMutex
<1>3. CASE CortoPlazo
   BY <1>3 DEF CortoPlazo, CpToma, CpDespacha, CpNada, Va, Toma, Suelta,
               TypeOK, TiposMutex, TiposHilos
<1>4. CASE HiloDeFileSystem
   BY <1>4 DEF HiloDeFileSystem, FsToma, FsEnvia, FsDesbloquea, FsAvisa, Va, Toma,
               TomaYSuelta, TypeOK, TiposMutex, TiposHilos
<1>5. CASE Filesystem \/ Terminado \/ UNCHANGED vars
   BY <1>5 DEF Filesystem, Terminado, vars
<1> QED BY <1>1, <1>2, <1>3, <1>4, <1>5

\* Nor do the steps of the CPU thread, but for the request of a segment.
LEMMA LaCPUEnLasCitas ==
    ASSUME TypeOK, HiloDeCPU, ~CpuPideMemoria
    PROVE  /\ mensajeAMemoria' = mensajeAMemoria
           /\ pc'["LP"] = pc["LP"] /\ pc'["MEM"] = pc["MEM"]
           /\ memoria' = memoria /\ pcb'["MEM"] = pcb["MEM"]
           /\ \A m \in {"CONEXIONMEMORIA", "MENSAJEAMEMORIA", "TABLASEGMENTOS", "SYNC_FIN"} :
                 libre'[m] <=> libre[m]
<1>1. CASE CpuEnvia \/ CpuFinaliza
   BY <1>1 DEF CpuEnvia, CpuFinaliza, FinalizarEmpieza, Va, Toma, TypeOK, TiposMutex, TiposHilos
<1>2. CASE CpuWaitBloquea \/ CpuWaitOtorga
   BY <1>2 DEF CpuWaitBloquea, CpuWaitOtorga, SacaDeExec, Va, Suelta, TypeOK, TiposMutex, TiposHilos
<1>3. CASE CpuSignalDespierta \/ CpuSignalSinDespertar
   BY <1>3 DEF CpuSignalDespierta, CpuSignalSinDespertar, Va, Suelta, TypeOK, TiposMutex, TiposHilos
<1>4. CASE CpuIO \/ CpuIOParam \/ CpuYield
   BY <1>4 DEF CpuIO, CpuIOParam, CpuYield, SacaDeExec, Va, Toma, TypeOK, TiposMutex, TiposHilos
<1>5. CASE CpuSegmento \/ CpuArchivo \/ CpuAvisa
   BY <1>5 DEF CpuSegmento, CpuArchivo, CpuAvisa, Va, Suelta, TomaYSuelta,
               TypeOK, TiposMutex, TiposHilos
<1>6. CASE FinalizarAvisaConsola("CPU") \/ FinalizarAvisaPlanificador("CPU", "espera")
   BY <1>6 DEF FinalizarAvisaConsola, FinalizarAvisaPlanificador, Va, Toma, TomaYSuelta,
               TypeOK, TiposMutex, TiposHilos
<1> QED BY <1>1, <1>2, <1>3, <1>4, <1>5, <1>6 DEF HiloDeCPU

\* The memory thread and the long-term scheduler never miss each other.
LEMMA PasoCitas == ASSUME IInv, Citas, [Next]_vars PROVE Citas'
<1> USE DEF IInv, Citas, PideAlta, PideFin
<1>1. ASSUME \/ \E p \in Pids : ConsolaCrea(p) \/ Consola(p) \/ IO(p)
             \/ IOAvisa \/ CortoPlazo \/ HiloDeFileSystem \/ Filesystem \/ Terminado
             \/ UNCHANGED vars
      PROVE  Citas'
   BY <1>1, AjenoALasCitas
<1>2. ASSUME HiloDeCPU, ~CpuPideMemoria PROVE Citas'
   BY <1>2, LaCPUEnLasCitas
<1>3. CASE CpuPideMemoria
   BY <1>3 DEF CpuPideMemoria, TomaYSuelta, Va, En, TestigoUnico, UnoSolo,
               TypeOK, TiposMutex, TiposHilos
<1>4. CASE LargoPlazo
   <2>1. CASE LpToma \/ LpGrado
      BY <2>1 DEF LpToma, LpGrado, Toma, Va, En, TypeOK, TiposMutex, TiposHilos
   <2>2. CASE LpPideMemoria("iniciar", "REQ_INICIAR_PROCESO", "tabla")
      BY <2>2 DEF LpPideMemoria, TomaYSuelta, Va, En, TestigoUnico, UnoSolo,
                        TypeOK, TiposMutex, TiposHilos
   <2>3. CASE LpPideMemoria("fin", "REQ_FIN_PROCESO", "sync_2")
      BY <2>3 DEF LpPideMemoria, TomaYSuelta, Va, En, TestigoUnico, UnoSolo,
                        TypeOK, TiposMutex, TiposHilos
   <2>4. CASE LpLock("tabla", "TABLASEGMENTOS", "pcbnew") \/ LpLock("pcbnew", "PCBNEW", "pcbready")
      BY <2>4 DEF LpLock, Toma, Va, En, TypeOK, TiposMutex, TiposHilos
   <2>5. CASE LpLock("sync_1", "SYNC_FIN", "fin") \/ LpLock("sync_2", "SYNC_FIN", "listaexit")
      BY <2>5 DEF LpLock, Toma, Va, En, TypeOK, TiposMutex, TiposHilos
   <2>6. CASE LpAdmite \/ LpLibera
      BY <2>6 DEF LpAdmite, LpLibera, TomaYSuelta, Va, En, TypeOK, TiposMutex, TiposHilos
   <2>7. CASE LpAvisa("avisa", {}) \/ LpAvisa("avisa_fin", {"SYNC_FIN"})
      BY <2>7 DEF LpAvisa, TomaYSuelta, Va, En, TypeOK, TiposMutex, TiposHilos
   <2> QED BY <1>4, <2>1, <2>2, <2>3, <2>4, <2>5, <2>6, <2>7 DEF LargoPlazo, LpReady, LpFinalized
<1>5. CASE HiloDeMemoria
   <2>1. CASE MemToma
      BY <2>1 DEF MemToma, Toma, Va, En, TypeOK, TiposMutex, TiposHilos
   <2>2. CASE MemIniciar \/ MemConfirma
      BY <2>2 DEF MemIniciar, MemConfirma, TomaYSuelta, Suelta, Va, En, TestigoUnico, UnoSolo,
                        TypeOK, TiposMutex, TiposHilos
   <2>3. CASE MemSuelta("pcbready", "PCBREADY", "libera") \/ MemSuelta("libera", "CONEXIONMEMORIA", "espera")
      BY <2>3 DEF MemSuelta, Suelta, Va, En, TestigoUnico, UnoSolo, TypeOK, TiposMutex, TiposHilos
   <2>4. CASE MemSegmentoOK \/ MemSinMemoria
      BY <2>4 DEF MemSegmentoOK, MemSinMemoria, FinalizarEmpieza, Suelta, Va, En,
                        TypeOK, TiposMutex, TiposHilos
   <2>5. CASE MemCompactar
      BY <2>5 DEF MemCompactar, MemConsultaFS, MemCompacta, MemActualiza, Suelta, Va, En,
                        TypeOK, TiposMutex, TiposHilos
   <2>6. CASE MemFin
      BY <2>6 DEF MemFin, Toma, Va, En, TypeOK, TiposMutex, TiposHilos
   <2>7. CASE FinalizarAvisaConsola("MEM") \/ FinalizarAvisaPlanificador("MEM", "libera")
      BY <2>7 DEF FinalizarAvisaConsola, FinalizarAvisaPlanificador, Toma, TomaYSuelta, Va, En,
                        TypeOK, TiposMutex, TiposHilos
   <2> QED BY <1>5, <2>1, <2>2, <2>3, <2>4, <2>5, <2>6, <2>7 DEF HiloDeMemoria
<1> QED BY <1>1, <1>2, <1>3, <1>4, <1>5 DEF Next, HiloDeCPU

-----------------------------------------------------------------------------
(* The time of an I/O. *)

\* While a handlerIO thread has not read parametroIO, it holds the time of its
\* process, and IOPARAM keeps the next REQ_I_O from writing it.
IOInv ==
    /\ \A p \in Pids : io[p] = "arranca" => ~libre["IOPARAM"] /\ parametroIO = p
    /\ IOConSuTiempo

\* Every step preserves it.
LEMMA PasoIOInv == ASSUME IInv, IOInv, [Next]_vars PROVE IOInv'
<1> USE DEF IInv, IOInv, IOConSuTiempo
<1>1. ASSUME NEW p \in Pids, ConsolaCrea(p) \/ Consola(p) PROVE IOInv'
   BY <1>1 DEF ConsolaCrea, Consola, ConsolaAvisa, ConsolaFin, TomaYSuelta, TypeOK, TiposMutex
<1>2. ASSUME NEW p \in Pids, IO(p) PROVE IOInv'
   <2>1. CASE IOLee(p)
      BY <2>1 DEF IOLee, Suelta, TypeOK, TiposMutex, TiposEfimeros
   <2>2. CASE IODespierta(p)
      BY <2>2 DEF IODespierta, TypeOK, TiposEfimeros
   <2> QED BY <1>2, <2>1, <2>2 DEF IO
<1>3. CASE IOAvisa \/ CortoPlazo
   BY <1>3 DEF IOAvisa, CortoPlazo, CpToma, CpDespacha, CpNada, Toma, Suelta, TomaYSuelta,
               TypeOK, TiposMutex
<1>4. CASE LargoPlazo
   BY <1>4 DEF LargoPlazo, LpToma, LpReady, LpFinalized, LpGrado, LpPideMemoria, LpLock,
               LpAdmite, LpLibera, LpAvisa, Toma, TomaYSuelta, TypeOK, TiposMutex
<1>5. CASE HiloDeCPU
   <2>1. CASE CpuIOParam
      BY <2>1 DEF CpuIOParam, Toma, TypeOK, TiposMutex, TiposEfimeros
   <2>2. CASE CpuEnvia \/ CpuFinaliza \/ CpuWaitBloquea \/ CpuWaitOtorga
      BY <2>2 DEF CpuEnvia, CpuFinaliza, CpuWaitBloquea, CpuWaitOtorga, Toma, Suelta,
                  TypeOK, TiposMutex
   <2>3. CASE CpuSignalDespierta \/ CpuSignalSinDespertar \/ CpuIO \/ CpuYield
      BY <2>3 DEF CpuSignalDespierta, CpuSignalSinDespertar, CpuIO, CpuYield, Suelta,
                  TypeOK, TiposMutex
   <2>4. CASE CpuSegmento \/ CpuPideMemoria \/ CpuArchivo \/ CpuAvisa
      BY <2>4 DEF CpuSegmento, CpuPideMemoria, CpuArchivo, CpuAvisa, Suelta, TomaYSuelta,
                  TypeOK, TiposMutex
   <2>5. CASE FinalizarAvisaConsola("CPU") \/ FinalizarAvisaPlanificador("CPU", "espera")
      BY <2>5 DEF FinalizarAvisaConsola, FinalizarAvisaPlanificador, Toma, TomaYSuelta,
                  TypeOK, TiposMutex
   <2> QED BY <1>5, <2>1, <2>2, <2>3, <2>4, <2>5 DEF HiloDeCPU
<1>6. CASE HiloDeMemoria
   <2>1. CASE MemToma \/ MemIniciar \/ MemSegmentoOK \/ MemSinMemoria \/ MemFin \/ MemConfirma
      BY <2>1 DEF MemToma, MemIniciar, MemSegmentoOK, MemSinMemoria, MemFin, MemConfirma,
                  Toma, Suelta, TomaYSuelta, TypeOK, TiposMutex
   <2>2. CASE MemSuelta("pcbready", "PCBREADY", "libera")
              \/ MemSuelta("libera", "CONEXIONMEMORIA", "espera") \/ MemCompactar
      BY <2>2 DEF MemSuelta, MemCompactar, MemConsultaFS, MemCompacta, MemActualiza, Suelta,
                  TypeOK, TiposMutex
   <2>3. CASE FinalizarAvisaConsola("MEM") \/ FinalizarAvisaPlanificador("MEM", "libera")
      BY <2>3 DEF FinalizarAvisaConsola, FinalizarAvisaPlanificador, Toma, TomaYSuelta,
                  TypeOK, TiposMutex
   <2> QED BY <1>6, <2>1, <2>2, <2>3 DEF HiloDeMemoria
<1>7. CASE HiloDeFileSystem
   BY <1>7 DEF HiloDeFileSystem, FsToma, FsEnvia, FsDesbloquea, FsAvisa, Toma, TomaYSuelta,
               TypeOK, TiposMutex
<1>8. CASE Filesystem \/ Terminado \/ UNCHANGED vars
   BY <1>8 DEF Filesystem, Terminado, vars
<1> QED BY <1>1, <1>2, <1>3, <1>4, <1>5, <1>6, <1>7, <1>8 DEF Next

-----------------------------------------------------------------------------
(* The wake-ups of the short-term scheduler. *)

\* Every step that leaves a process ready and none running leaves a wake-up
\* pending, or the step of a thread that will give one.
LEMMA PasoSinAvisoPerdido ==
    ASSUME IInv, SinAvisoPerdido, [Next]_vars
    PROVE  SinAvisoPerdido'
<1> USE DEF IInv, SinAvisoPerdido, AvisoPendiente, FinalizacionEnCurso
<1>1. ASSUME NEW p \in Pids, ConsolaCrea(p) \/ Consola(p) PROVE SinAvisoPerdido'
   BY <1>1 DEF ConsolaCrea, Consola, ConsolaAvisa, ConsolaFin, TomaYSuelta, En, TestigoUnico,
               UnoSolo, TypeOK, TiposMutex
<1>2. ASSUME NEW p \in Pids, IO(p) PROVE SinAvisoPerdido'
   BY <1>2 DEF IO, IOLee, IODespierta, Suelta, En, TypeOK, TiposMutex, TiposEfimeros
<1>3. CASE IOAvisa
   BY <1>3 DEF IOAvisa, TomaYSuelta, En, TypeOK, TiposMutex, TiposEfimeros
<1>4. CASE CortoPlazo
   <2>1. CASE CpToma
      BY <2>1 DEF CpToma, Toma, Va, En, TypeOK, TiposMutex, TiposHilos
   <2>2. CASE CpDespacha
      <3>1. listaExec' # <<>>
         BY <2>2 DEF CpDespacha, TypeOK, TiposListas
      <3> QED BY <3>1
   <2>3. CASE CpNada
      BY <2>3 DEF CpNada
   <2> QED BY <1>4, <2>1, <2>2, <2>3 DEF CortoPlazo
<1>5. CASE LargoPlazo
   <2>1. CASE LpToma \/ LpGrado
      BY <2>1 DEF LpToma, LpGrado, Toma, Va, En, TypeOK, TiposMutex, TiposHilos
   <2>2. CASE LpPideMemoria("iniciar", "REQ_INICIAR_PROCESO", "tabla")
              \/ LpPideMemoria("fin", "REQ_FIN_PROCESO", "sync_2")
      BY <2>2 DEF LpPideMemoria, TomaYSuelta, Va, En, TypeOK, TiposMutex, TiposHilos
   <2>3. CASE LpLock("tabla", "TABLASEGMENTOS", "pcbnew") \/ LpLock("pcbnew", "PCBNEW", "pcbready")
      BY <2>3 DEF LpLock, Toma, Va, En, TypeOK, TiposMutex, TiposHilos
   <2>4. CASE LpLock("sync_1", "SYNC_FIN", "fin") \/ LpLock("sync_2", "SYNC_FIN", "listaexit")
      BY <2>4 DEF LpLock, Toma, Va, En, TypeOK, TiposMutex, TiposHilos
   <2>5. CASE LpAdmite \/ LpLibera
      BY <2>5 DEF LpAdmite, LpLibera, TomaYSuelta, Va, En, TypeOK, TiposMutex, TiposHilos
   <2>6. CASE LpAvisa("avisa", {}) \/ LpAvisa("avisa_fin", {"SYNC_FIN"})
      BY <2>6 DEF LpAvisa, TomaYSuelta, Va, En, TypeOK, TiposMutex, TiposHilos
   <2> QED BY <1>5, <2>1, <2>2, <2>3, <2>4, <2>5, <2>6 DEF LargoPlazo, LpReady, LpFinalized
<1>6. CASE HiloDeCPU
   <2>1. CASE CpuEnvia
      BY <2>1 DEF CpuEnvia, Toma, Va, En, TypeOK, TiposMutex, TiposHilos
   <2>2. CASE CpuFinaliza \/ CpuWaitBloquea \/ CpuIO \/ CpuYield
      BY <2>2 DEF CpuFinaliza, CpuWaitBloquea, CpuIO, CpuYield, FinalizarEmpieza, SacaDeExec, Va, En,
                  TypeOK, TiposHilos
   <2>3. CASE CpuWaitOtorga \/ CpuSignalSinDespertar \/ CpuSegmento \/ CpuArchivo
      BY <2>3 DEF CpuWaitOtorga, CpuSignalSinDespertar, CpuSegmento, CpuArchivo, Recibe, Suelta, Va, En,
                  TypeOK, TiposMutex, TiposHilos
   <2>4. CASE CpuSignalDespierta \/ CpuIOParam
      BY <2>4 DEF CpuSignalDespierta, CpuIOParam, Va, En, TypeOK, TiposHilos
   <2>5. CASE CpuPideMemoria \/ CpuAvisa
      BY <2>5 DEF CpuPideMemoria, CpuAvisa, TomaYSuelta, Va, En, TypeOK, TiposMutex, TiposHilos
   <2>6. CASE FinalizarAvisaConsola("CPU") \/ FinalizarAvisaPlanificador("CPU", "espera")
      BY <2>6 DEF FinalizarAvisaConsola, FinalizarAvisaPlanificador, Toma, TomaYSuelta, Va, En,
                  TypeOK, TiposMutex, TiposHilos
   <2> QED BY <1>6, <2>1, <2>2, <2>3, <2>4, <2>5, <2>6 DEF HiloDeCPU
<1>7. CASE HiloDeMemoria
   <2>1. CASE MemToma \/ MemIniciar \/ MemSegmentoOK
      BY <2>1 DEF MemToma, MemIniciar, MemSegmentoOK, Toma, Suelta, TomaYSuelta, Va, En,
                  TypeOK, TiposMutex, TiposHilos
   <2>2. CASE MemSinMemoria
      BY <2>2 DEF MemSinMemoria, FinalizarEmpieza, Va, En, TypeOK, TiposHilos
   <2>3. CASE MemSuelta("pcbready", "PCBREADY", "libera")
              \/ MemSuelta("libera", "CONEXIONMEMORIA", "espera") \/ MemCompactar
      BY <2>3 DEF MemSuelta, MemCompactar, MemConsultaFS, MemCompacta, MemActualiza, Suelta, Va, En,
                  TypeOK, TiposMutex, TiposHilos
   <2>4. CASE MemFin \/ MemConfirma
      BY <2>4 DEF MemFin, MemConfirma, Toma, Suelta, Va, En, TypeOK, TiposMutex, TiposHilos
   <2>5. CASE FinalizarAvisaConsola("MEM") \/ FinalizarAvisaPlanificador("MEM", "libera")
      BY <2>5 DEF FinalizarAvisaConsola, FinalizarAvisaPlanificador, Toma, TomaYSuelta, Va, En,
                  TypeOK, TiposMutex, TiposHilos
   <2> QED BY <1>7, <2>1, <2>2, <2>3, <2>4, <2>5 DEF HiloDeMemoria
<1>8. CASE HiloDeFileSystem
   <2>1. CASE FsToma \/ FsEnvia \/ FsDesbloquea
      BY <2>1 DEF FsToma, FsEnvia, FsDesbloquea, Toma, Va, En, TypeOK, TiposMutex, TiposHilos
   <2>2. CASE FsAvisa("avisa_bloqueo", "recibe") \/ FsAvisa("avisa_listo", "espera")
      BY <2>2 DEF FsAvisa, TomaYSuelta, Va, En, TypeOK, TiposMutex, TiposHilos
   <2> QED BY <1>8, <2>1, <2>2 DEF HiloDeFileSystem
<1>9. CASE Filesystem \/ Terminado \/ UNCHANGED vars
   BY <1>9 DEF Filesystem, Terminado, vars, En
<1> QED BY <1>1, <1>2, <1>3, <1>4, <1>5, <1>6, <1>7, <1>8, <1>9 DEF Next

-----------------------------------------------------------------------------
(* The list of finished processes. *)

EnFin(h) == pc[h] \in {"fin_avisar_consola", "fin_avisar_planificador"}

\* Every process in listaExit has exactly one FINALIZED_PCB on its way: in the
\* thread that runs finalizarPcb, in the mailbox, or being served.
ExitContada ==
    Len(listaExit) = Cuenta(EnFin("CPU")) + Cuenta(EnFin("MEM"))
                     + Cuenta(libre["PLANILARGOPLAZO"] /\ mensajePlanificador = "FINALIZED_PCB")
                     + Cuenta(pc["LP"] \in {"sync_1", "fin", "sync_2", "listaexit"})

\* From the request to Memoria to the free of the pcb, the head of listaExit
\* stays the process whose table Memoria dropped.
CabezaSuelta ==
    /\ pc["MEM"] = "confirma" => pcb["MEM"] = listaExit[1]
    /\ pc["LP"] = "sync_2" /\ libre["SYNC_FIN"] => listaExit[1] \notin memoria
    /\ pc["LP"] = "listaexit" => listaExit[1] \notin memoria

\* A list grows at its end: its first element stays.
LEMMA CreceAlFinal ==
    ASSUME NEW S, NEW l \in Seq(S), NEW x
    PROVE  /\ Len(Append(l, x)) = Len(l) + 1
           /\ Len(l) # 0 => Append(l, x)[1] = l[1]
OBVIOUS

\* Every step keeps the count of listaExit.
LEMMA PasoExitContada ==
    ASSUME IInv, ExitContada, [Next]_vars
    PROVE  ExitContada'
<1> USE DEF IInv, ExitContada, EnFin, Cuenta
<1>1. ASSUME NEW p \in Pids, ConsolaCrea(p) \/ Consola(p) PROVE ExitContada'
   BY <1>1 DEF ConsolaCrea, Consola, ConsolaAvisa, ConsolaFin, TomaYSuelta, TestigoUnico,
               UnoSolo, TypeOK, TiposMutex
<1>2. ASSUME NEW p \in Pids, IO(p) PROVE ExitContada'
   BY <1>2 DEF IO, IOLee, IODespierta, Suelta, TypeOK, TiposMutex
<1>3. CASE IOAvisa \/ CortoPlazo
   BY <1>3 DEF IOAvisa, CortoPlazo, CpToma, CpDespacha, CpNada, Toma, Suelta, TomaYSuelta, Va,
               TypeOK, TiposMutex, TiposHilos
<1>4. CASE LargoPlazo
   <2>1. CASE LpToma \/ LpGrado
      BY <2>1 DEF LpToma, LpGrado, Toma, Va, En, TypeOK, TiposMutex, TiposHilos
   <2>2. CASE LpPideMemoria("iniciar", "REQ_INICIAR_PROCESO", "tabla")
              \/ LpPideMemoria("fin", "REQ_FIN_PROCESO", "sync_2")
      BY <2>2 DEF LpPideMemoria, TomaYSuelta, Va, En, TypeOK, TiposMutex, TiposHilos
   <2>3. CASE LpLock("tabla", "TABLASEGMENTOS", "pcbnew") \/ LpLock("pcbnew", "PCBNEW", "pcbready")
      BY <2>3 DEF LpLock, Toma, Va, En, TypeOK, TiposMutex, TiposHilos
   <2>4. CASE LpLock("sync_1", "SYNC_FIN", "fin") \/ LpLock("sync_2", "SYNC_FIN", "listaexit")
      BY <2>4 DEF LpLock, Toma, Va, En, TypeOK, TiposMutex, TiposHilos
   <2>5. CASE LpAdmite
      BY <2>5 DEF LpAdmite, TomaYSuelta, Va, En, TypeOK, TiposMutex, TiposHilos
   <2>6. CASE LpLibera
      <3>1. Len(listaExit) # 0 /\ Len(listaExit) \in Nat
         BY <2>6 DEF LpLibera, En, TypeOK, TiposListas
      <3>2. Len(listaExit') = Len(listaExit) - 1
         BY <2>6, <3>1, PrimeroYResto DEF LpLibera, TypeOK, TiposListas
      <3> QED
         BY <2>6, <3>1, <3>2
            DEF LpLibera, TomaYSuelta, Va, En, TypeOK, TiposMutex, TiposHilos
   <2>7. CASE LpAvisa("avisa", {}) \/ LpAvisa("avisa_fin", {"SYNC_FIN"})
      BY <2>7 DEF LpAvisa, TomaYSuelta, Va, En, TypeOK, TiposMutex, TiposHilos
   <2> QED BY <1>4, <2>1, <2>2, <2>3, <2>4, <2>5, <2>6, <2>7 DEF LargoPlazo, LpReady, LpFinalized
<1>5. CASE HiloDeCPU
   <2>1. CASE CpuEnvia \/ CpuWaitBloquea \/ CpuIO \/ CpuIOParam \/ CpuYield
      BY <2>1 DEF CpuEnvia, CpuWaitBloquea, CpuIO, CpuIOParam, CpuYield, Recibe, Toma, SacaDeExec,
                  Va, En, TypeOK, TiposMutex, TiposHilos
   <2>2. CASE CpuFinaliza
      BY <2>2, CreceAlFinal
         DEF CpuFinaliza, Recibe, FinalizarEmpieza, Va, En, TypeOK, TiposListas, TiposHilos
   <2>3. CASE CpuWaitOtorga \/ CpuSignalSinDespertar \/ CpuSignalDespierta
      BY <2>3 DEF CpuWaitOtorga, CpuSignalSinDespertar, CpuSignalDespierta, Recibe, Suelta, Va, En,
                  TypeOK, TiposMutex, TiposHilos
   <2>4. CASE CpuSegmento \/ CpuPideMemoria \/ CpuArchivo \/ CpuAvisa
      BY <2>4 DEF CpuSegmento, CpuPideMemoria, CpuArchivo, CpuAvisa, Recibe, Suelta, TomaYSuelta,
                  Va, En, TypeOK, TiposMutex, TiposHilos
   <2>5. CASE FinalizarAvisaConsola("CPU")
      BY <2>5 DEF FinalizarAvisaConsola, Toma, Va, En, TypeOK, TiposMutex, TiposHilos
   <2>6. CASE FinalizarAvisaPlanificador("CPU", "espera")
      BY <2>6 DEF FinalizarAvisaPlanificador, TomaYSuelta, Va, En, TestigoUnico, UnoSolo,
                  TypeOK, TiposMutex, TiposHilos
   <2> QED BY <1>5, <2>1, <2>2, <2>3, <2>4, <2>5, <2>6 DEF HiloDeCPU
<1>6. CASE HiloDeMemoria
   <2>1. CASE MemToma \/ MemIniciar \/ MemSegmentoOK
      BY <2>1 DEF MemToma, MemIniciar, MemSegmentoOK, Toma, Suelta, TomaYSuelta, Va, En,
                  TypeOK, TiposMutex, TiposHilos
   <2>2. CASE MemSinMemoria
      BY <2>2, CreceAlFinal
         DEF MemSinMemoria, FinalizarEmpieza, Va, En, TypeOK, TiposListas, TiposHilos
   <2>3. CASE MemSuelta("pcbready", "PCBREADY", "libera")
              \/ MemSuelta("libera", "CONEXIONMEMORIA", "espera") \/ MemCompactar
      BY <2>3 DEF MemSuelta, MemCompactar, MemConsultaFS, MemCompacta, MemActualiza, Suelta, Va, En,
                  TypeOK, TiposMutex, TiposHilos
   <2>4. CASE MemFin \/ MemConfirma
      BY <2>4 DEF MemFin, MemConfirma, Toma, Suelta, Va, En, TypeOK, TiposMutex, TiposHilos
   <2>5. CASE FinalizarAvisaConsola("MEM")
      BY <2>5 DEF FinalizarAvisaConsola, Toma, Va, En, TypeOK, TiposMutex, TiposHilos
   <2>6. CASE FinalizarAvisaPlanificador("MEM", "libera")
      BY <2>6 DEF FinalizarAvisaPlanificador, TomaYSuelta, Va, En, TestigoUnico, UnoSolo,
                  TypeOK, TiposMutex, TiposHilos
   <2> QED BY <1>6, <2>1, <2>2, <2>3, <2>4, <2>5, <2>6 DEF HiloDeMemoria
<1>7. CASE HiloDeFileSystem
   BY <1>7 DEF HiloDeFileSystem, FsToma, FsEnvia, FsDesbloquea, FsAvisa, Toma, TomaYSuelta, Va,
               TypeOK, TiposMutex, TiposHilos
<1>8. CASE Filesystem \/ Terminado \/ UNCHANGED vars
   BY <1>8 DEF Filesystem, Terminado, vars
<1> QED BY <1>1, <1>2, <1>3, <1>4, <1>5, <1>6, <1>7, <1>8 DEF Next

\* Every step keeps CabezaSuelta.
LEMMA PasoCabezaSuelta ==
    ASSUME IInv, Citas, ExitContada, CabezaSuelta, [Next]_vars
    PROVE  CabezaSuelta'
<1> USE DEF IInv, CabezaSuelta
<1>len. /\ Len(listaExit) \in Nat
        /\ pc["LP"] \in {"sync_1", "fin", "sync_2", "listaexit"} => Len(listaExit) # 0
        /\ pc["MEM"] = "confirma" => Len(listaExit) # 0
   BY DEF TypeOK, TiposListas, ExitContada, Cuenta, Citas, PideFin
<1>1. ASSUME \/ \E p \in Pids : ConsolaCrea(p) \/ Consola(p) \/ IO(p)
             \/ IOAvisa \/ CortoPlazo \/ HiloDeFileSystem \/ Filesystem \/ Terminado
             \/ UNCHANGED vars
      PROVE  CabezaSuelta'
   BY <1>1, AjenoALasCitas
<1>2. CASE HiloDeCPU
   <2>1. CASE CpuFinaliza
      <3>1. listaExit' = Append(listaExit, Primero(listaExec))
         BY <2>1 DEF CpuFinaliza, FinalizarEmpieza
      <3>2. Len(listaExit) # 0 => listaExit'[1] = listaExit[1]
         BY <3>1, CreceAlFinal DEF TypeOK, TiposListas
      <3> QED
         BY <1>len, <2>1, <3>2
            DEF CpuFinaliza, FinalizarEmpieza, Va, TypeOK, TiposHilos
   <2>2. CASE HiloDeCPU /\ ~CpuFinaliza /\ ~CpuPideMemoria
      <3>1. listaExit' = listaExit
         BY <2>2 DEF HiloDeCPU, CpuEnvia, CpuWaitBloquea, CpuWaitOtorga, CpuSignalDespierta,
                     CpuSignalSinDespertar, CpuIO, CpuIOParam, CpuYield, CpuSegmento, CpuArchivo,
                     CpuAvisa, FinalizarAvisaConsola, FinalizarAvisaPlanificador, SacaDeExec
      <3> QED BY <2>2, <3>1, LaCPUEnLasCitas
   <2>3. CASE CpuPideMemoria
      BY <2>3 DEF CpuPideMemoria, TomaYSuelta, Va, En, TypeOK, TiposMutex, TiposHilos
   <2> QED BY <1>2, <2>1, <2>2, <2>3
<1>3. CASE LargoPlazo
   <2>1. CASE LpToma \/ LpGrado \/ LpAdmite
      BY <2>1 DEF LpToma, LpGrado, LpAdmite, Toma, TomaYSuelta, Va, En,
                  TypeOK, TiposMutex, TiposHilos
   <2>2. CASE LpPideMemoria("iniciar", "REQ_INICIAR_PROCESO", "tabla")
              \/ LpPideMemoria("fin", "REQ_FIN_PROCESO", "sync_2")
      BY <2>2 DEF LpPideMemoria, TomaYSuelta, Va, En, Citas, TypeOK, TiposMutex, TiposHilos
   <2>3. CASE LpLock("tabla", "TABLASEGMENTOS", "pcbnew") \/ LpLock("pcbnew", "PCBNEW", "pcbready")
      BY <2>3 DEF LpLock, Toma, Va, En, TypeOK, TiposMutex, TiposHilos
   <2>4. CASE LpLock("sync_1", "SYNC_FIN", "fin") \/ LpLock("sync_2", "SYNC_FIN", "listaexit")
      BY <2>4 DEF LpLock, Toma, Va, En, TypeOK, TiposMutex, TiposHilos
   <2>5. CASE LpLibera
      BY <2>5 DEF LpLibera, TomaYSuelta, Va, En, Citas, PideFin, TypeOK, TiposMutex, TiposHilos
   <2>6. CASE LpAvisa("avisa", {}) \/ LpAvisa("avisa_fin", {"SYNC_FIN"})
      BY <2>6 DEF LpAvisa, TomaYSuelta, Va, En, TypeOK, TiposMutex, TiposHilos
   <2> QED BY <1>3, <2>1, <2>2, <2>3, <2>4, <2>5, <2>6 DEF LargoPlazo, LpReady, LpFinalized
<1>4. CASE HiloDeMemoria
   <2>1. CASE MemToma \/ MemSegmentoOK
      BY <2>1 DEF MemToma, MemSegmentoOK, Toma, Suelta, Va, En, TypeOK, TiposMutex, TiposHilos
   <2>2. CASE MemIniciar
      BY <2>2 DEF MemIniciar, TomaYSuelta, Va, En, Citas, PideAlta, TypeOK, TiposMutex, TiposHilos
   <2>3. CASE MemSinMemoria
      <3>1. listaExit' = Append(listaExit, Primero(listaExec))
         BY <2>3 DEF MemSinMemoria, FinalizarEmpieza
      <3>2. Len(listaExit) # 0 => listaExit'[1] = listaExit[1]
         BY <3>1, CreceAlFinal DEF TypeOK, TiposListas
      <3> QED
         BY <1>len, <2>3, <3>2
            DEF MemSinMemoria, FinalizarEmpieza, Va, En, TypeOK, TiposHilos
   <2>4. CASE MemSuelta("pcbready", "PCBREADY", "libera")
              \/ MemSuelta("libera", "CONEXIONMEMORIA", "espera") \/ MemCompactar
      BY <2>4 DEF MemSuelta, MemCompactar, MemConsultaFS, MemCompacta, MemActualiza, Suelta, Va, En,
                  TypeOK, TiposMutex, TiposHilos
   <2>5. CASE MemFin
      <3>1. pcb'["MEM"] = listaExit[1]
         BY <1>len, <2>5, PrimeroYResto
            DEF MemFin, En, Citas, PideFin, TypeOK, TiposListas, TiposHilos
      <3> QED BY <2>5, <3>1 DEF MemFin, Toma, Va, En, TypeOK, TiposMutex, TiposHilos
   <2>6. CASE MemConfirma
      BY <2>6 DEF MemConfirma, Suelta, Va, En, TypeOK, TiposMutex, TiposHilos
   <2>7. CASE FinalizarAvisaConsola("MEM") \/ FinalizarAvisaPlanificador("MEM", "libera")
      BY <2>7 DEF FinalizarAvisaConsola, FinalizarAvisaPlanificador, Toma, TomaYSuelta, Va, En,
                  TypeOK, TiposMutex, TiposHilos
   <2> QED BY <1>4, <2>1, <2>2, <2>3, <2>4, <2>5, <2>6, <2>7 DEF HiloDeMemoria
<1> QED BY <1>1, <1>2, <1>3, <1>4 DEF Next

-----------------------------------------------------------------------------
\* The inductive invariant of this module.
AInv == IInv /\ Citas /\ ExitContada /\ CabezaSuelta /\ IOInv /\ SinAvisoPerdido

\* It holds in every state: each part is preserved by every step that finds
\* the parts before it true.
THEOREM AvisosInductivo == Spec => []AInv
<1>1. Init => AInv
   <2> SUFFICES ASSUME Init PROVE AInv OBVIOUS
   <2>1. IInv BY InitIInv
   <2>2. Citas BY DEF Init, Citas, PideAlta, PideFin, Tomados
   <2>3. ExitContada BY DEF Init, ExitContada, Cuenta, EnFin, Tomados
   <2>4. CabezaSuelta /\ IOInv /\ SinAvisoPerdido
      BY DEF Init, CabezaSuelta, IOInv, IOConSuTiempo, SinAvisoPerdido
   <2> QED BY <2>1, <2>2, <2>3, <2>4 DEF AInv
<1>2. AInv /\ [Next]_vars /\ IInv' => AInv'
   BY PasoCitas, PasoExitContada, PasoCabezaSuelta, PasoIOInv, PasoSinAvisoPerdido DEF AInv
<1> QED BY <1>1, <1>2, Inductivo, PTL DEF Spec

\* No mailbox is overwritten: one thread at a time may write each, and the
\* message on which planificacionLargoPlazo waits for the memory thread is
\* still its own.
THEOREM BuzonesSinPisar == Spec => []BuzonesIntactos
<1>1. AInv => BuzonesIntactos
   BY DEF AInv, IInv, BuzonesIntactos, Citas, PideAlta, PideFin, En
<1> QED BY <1>1, AvisosInductivo, PTL

\* Every handlerIO thread sleeps the time its own process asked for, although
\* all of them read it from the one parametroIO.
THEOREM CadaIOConSuTiempo == Spec => []IOConSuTiempo
<1>1. AInv => IOConSuTiempo BY DEF AInv, IOInv
<1> QED BY <1>1, AvisosInductivo, PTL

\* The short-term scheduler is never left asleep with a process ready and the
\* CPU idle, for any number of threads unlocking PCBENEJECUCION.
THEOREM NingunAvisoSePierde == Spec => []SinAvisoPerdido
<1>1. AInv => SinAvisoPerdido BY DEF AInv
<1> QED BY <1>1, AvisosInductivo, PTL

\* planificacionLargoPlazo never frees a pcb whose segment table Memoria still
\* has, although two finalizarPcb may append to listaExit meanwhile.
THEOREM LiberaDespuesDeMemoria == Spec => []LiberaLoQueMemoriaSolto
<1>1. ASSUME AInv PROVE LiberaLoQueMemoriaSolto
   <2> SUFFICES ASSUME pc["LP"] = "listaexit"
                PROVE  listaExit # <<>> /\ Head(listaExit) \notin memoria
      BY DEF LiberaLoQueMemoriaSolto, En
   <2>1. listaExit \in Seq(Pids) /\ Len(listaExit) # 0
      BY <1>1 DEF AInv, IInv, TypeOK, TiposListas, ExitContada, Cuenta
   <2>2. listaExit # <<>> /\ Head(listaExit) = listaExit[1] BY <2>1
   <2> QED BY <1>1, <2>2 DEF AInv, CabezaSuelta
<1> QED BY <1>1, AvisosInductivo, PTL
=============================================================================
