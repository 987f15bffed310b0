--------------------------- MODULE Planificadores ---------------------------
(***************************************************************************)
(* The threads of the Kernel that move a process between its states:       *)
(* handlerConsola (one thread per console), planificacionLargoPlazo (LP),  *)
(* planificacionFIFO / planificacionHRRN (CP) and handlerIO (one thread    *)
(* per I/O in progress).                                                   *)
(***************************************************************************)
EXTENDS KernelEstado

-----------------------------------------------------------------------------
(* handlerConsola *)

ConsolasAbiertas == {p \in Pids : consola[p] \notin {"fuera", "fin"}}

\* crearPcb and the push on colaNew, under PCBNEW.  Nothing before crearPcb
\* tells two consoles apart, so the console is named by the pid it obtains.
ConsolaCrea(p) ==
    /\ p = cantidadProcesos /\ consola[p] = "fuera"
    /\ Cardinality(ConsolasAbiertas) < ConsolasSimultaneas
    /\ libre["PCBNEW"]
    /\ cantidadProcesos' = cantidadProcesos + 1
    /\ \E prog \in Programas : programa' = [programa EXCEPT ![p] = prog]
    /\ colaNew' = Append(colaNew, p)
    /\ consola' = [consola EXCEPT ![p] = "avisa"]
    /\ UNCHANGED <<libre, grado, listaReady, listaExec, listaBlock, listaExit,
                   buzones, params, recursos, program_counter, tabla, semaforo,
                   io, avisosIO, tiempo, pc, pcb, externo, sockets>>

\* Mutant of ConsolaAvisa: READY_PCB is posted without locking MENSAJELARGOPLAZO.
ConsolaAvisaMutante(p) ==
    /\ consola[p] = "avisa"
    /\ Suelta({"PLANILARGOPLAZO"})
    /\ mensajePlanificador' = "READY_PCB"
    /\ consola' = [consola EXCEPT ![p] = "espera_fin"]
    /\ UNCHANGED <<grado, listas, mensajeAMemoria, mensajeFileSystem, params,
                   recursos, nacimiento, program_counter, tabla, semaforo, io,
                   avisosIO, tiempo, pc, pcb, externo, sockets>>

\* lock MENSAJELARGOPLAZO; post READY_PCB
ConsolaAvisa(p) ==
    /\ consola[p] = "avisa"
    /\ TomaYSuelta("MENSAJELARGOPLAZO", {"PLANILARGOPLAZO"})
    /\ mensajePlanificador' = "READY_PCB"
    /\ consola' = [consola EXCEPT ![p] = "espera_fin"]
    /\ UNCHANGED <<grado, listas, mensajeAMemoria, mensajeFileSystem, params,
                   recursos, nacimiento, program_counter, tabla, semaforo, io,
                   avisosIO, tiempo, pc, pcb, externo, sockets>>

\* the second lock on semaforo, then FINALIZED_PCB to the console
ConsolaFin(p) ==
    /\ consola[p] = "espera_fin"
    /\ semaforo[p]
    /\ semaforo' = [semaforo EXCEPT ![p] = FALSE]
    /\ consola' = [consola EXCEPT ![p] = "fin"]
    /\ UNCHANGED <<libre, grado, listas, buzones, params, recursos, nacimiento,
                   program_counter, tabla, io, avisosIO, tiempo, pc, pcb, externo, sockets>>

Consola(p) == ConsolaAvisa(p) \/ ConsolaFin(p)

-----------------------------------------------------------------------------
(* planificacionLargoPlazo *)

LpToma ==
    /\ En("LP", "espera")
    /\ Toma("PLANILARGOPLAZO")
    /\ \/ mensajePlanificador = "READY_PCB" /\ Va("LP", "grado")
       \/ mensajePlanificador = "FINALIZED_PCB" /\ Va("LP", "sync_1")
    /\ UNCHANGED <<grado, listas, buzones, params, recursos, nacimiento,
                   program_counter, tabla, efimeros, pcb, externo, sockets>>

\* Mutant of LpGrado: the degree is decremented without waiting.
LpGradoMutante ==
    /\ En("LP", "grado")
    /\ grado' = grado - 1
    /\ Va("LP", "iniciar")
    /\ UNCHANGED <<libre, listas, buzones, params, recursos, nacimiento,
                   program_counter, tabla, efimeros, pcb, externo, sockets>>

\* sem_wait(grado_programacion)
LpGrado ==
    /\ En("LP", "grado")
    /\ grado > 0
    /\ grado' = grado - 1
    /\ Va("LP", "iniciar")
    /\ UNCHANGED <<libre, listas, buzones, params, recursos, nacimiento,
                   program_counter, tabla, efimeros, pcb, externo, sockets>>

\* Mutant of LpPideMemoria: the message is posted without locking CONEXIONMEMORIA.
LpPideMemoriaMutante(desde, mensaje, hasta) ==
    /\ En("LP", desde)
    /\ Suelta({"MENSAJEAMEMORIA"})
    /\ mensajeAMemoria' = mensaje
    /\ Va("LP", hasta)
    /\ UNCHANGED <<grado, listas, mensajePlanificador, mensajeFileSystem, params,
                   recursos, nacimiento, program_counter, tabla, efimeros, pcb,
                   externo, sockets>>

\* lock CONEXIONMEMORIA; post a message to the memory thread
LpPideMemoria(desde, mensaje, hasta) ==
    /\ En("LP", desde)
    /\ TomaYSuelta("CONEXIONMEMORIA", {"MENSAJEAMEMORIA"})
    /\ mensajeAMemoria' = mensaje
    /\ Va("LP", hasta)
    /\ UNCHANGED <<grado, listas, mensajePlanificador, mensajeFileSystem, params,
                   recursos, nacimiento, program_counter, tabla, efimeros, pcb,
                   externo, sockets>>

LpLock(desde, m, hasta) ==
    /\ En("LP", desde)
    /\ Toma(m)
    /\ Va("LP", hasta)
    /\ UNCHANGED <<grado, listas, buzones, params, recursos, nacimiento,
                   program_counter, tabla, efimeros, pcb, externo, sockets>>

\* Mutant of LpAdmite: colaNew is popped at its other end.
LpAdmiteMutante ==
    /\ En("LP", "pcbready")
    /\ TomaYSuelta("PCBREADY", {"PCBNEW"})
    /\ colaNew' = Front(colaNew)
    /\ listaReady' = Append(listaReady, Last(colaNew))
    /\ Va("LP", "avisa")
    /\ UNCHANGED <<grado, listaExec, listaBlock, listaExit, buzones, params,
                   recursos, nacimiento, program_counter, tabla, efimeros, pcb,
                   externo, sockets>>

\* lock PCBREADY (PCBNEW is held); New -> Ready; unlock PCBNEW
LpAdmite ==
    /\ En("LP", "pcbready")
    /\ TomaYSuelta("PCBREADY", {"PCBNEW"})
    /\ colaNew' = Resto(colaNew)
    /\ listaReady' = Append(listaReady, Primero(colaNew))
    /\ Va("LP", "avisa")
    /\ UNCHANGED <<grado, listaExec, listaBlock, listaExit, buzones, params,
                   recursos, nacimiento, program_counter, tabla, efimeros, pcb,
                   externo, sockets>>

\* lock LISTAEXIT; free the head of listaExit; unlock LISTAEXIT
LpLibera ==
    /\ En("LP", "listaexit")
    /\ TomaYSuelta("LISTAEXIT", {"LISTAEXIT"})
    /\ listaExit' = Resto(listaExit)
    /\ Va("LP", "avisa_fin")
    /\ UNCHANGED <<grado, colaNew, listaReady, listaExec, listaBlock, buzones,
                   params, recursos, nacimiento, program_counter, tabla,
                   efimeros, pcb, externo, sockets>>

\* wake the short-term scheduler and hand MENSAJELARGOPLAZO back
LpAvisa(desde, otros) ==
    /\ En("LP", desde)
    /\ TomaYSuelta("PLANICORTOPLAZO", {"PCBENEJECUCION", "MENSAJELARGOPLAZO"} \cup otros)
    /\ Va("LP", "espera")
    /\ UNCHANGED <<grado, listas, buzones, params, recursos, nacimiento,
                   program_counter, tabla, efimeros, pcb, externo, sockets>>

LpReady ==
    \/ LpGrado
    \/ LpPideMemoria("iniciar", "REQ_INICIAR_PROCESO", "tabla")
    \/ LpLock("tabla", "TABLASEGMENTOS", "pcbnew")
    \/ LpLock("pcbnew", "PCBNEW", "pcbready")
    \/ LpAdmite
    \/ LpAvisa("avisa", {})

\* Mutant of LpFinalized: it does not wait for Memoria before freeing the pcb.
LpFinalizedMutante ==
    \/ LpLock("sync_1", "SYNC_FIN", "fin")
    \/ LpPideMemoria("fin", "REQ_FIN_PROCESO", "listaexit")
    \/ LpLibera
    \/ LpAvisa("avisa_fin", {"SYNC_FIN"})

LpFinalized ==
    \/ LpLock("sync_1", "SYNC_FIN", "fin")
    \/ LpPideMemoria("fin", "REQ_FIN_PROCESO", "sync_2")
    \/ LpLock("sync_2", "SYNC_FIN", "listaexit")
    \/ LpLibera
    \/ LpAvisa("avisa_fin", {"SYNC_FIN"})

LargoPlazo == LpToma \/ LpReady \/ LpFinalized

-----------------------------------------------------------------------------
(* planificacionFIFO / planificacionHRRN *)

CpToma ==
    /\ En("CP", "espera")
    /\ Toma("PCBENEJECUCION")
    /\ Va("CP", "mira")
    /\ UNCHANGED <<grado, listas, buzones, params, recursos, nacimiento,
                   program_counter, tabla, efimeros, pcb, externo, sockets>>

\* which element of listaReady the algorithm may take: the head, or any (the
\* response ratio depends on clock readings the lists do not show)
Elegibles == IF Algoritmo = "FIFO" THEN {1} ELSE DOMAIN listaReady

\* Mutant of CpDespacha: it does not look at listaExec.
CpDespachaMutante ==
    /\ En("CP", "mira")
    /\ listaReady # <<>>
    /\ \E i \in Elegibles :
          /\ listaExec' = Append(listaExec, listaReady[i])
          /\ listaReady' = RemoveAt(listaReady, i)
    /\ Suelta({"MENSAJEACPU", "PLANICORTOPLAZO"})
    /\ Va("CP", "espera")
    /\ UNCHANGED <<grado, colaNew, listaBlock, listaExit, buzones, params,
                   recursos, nacimiento, program_counter, tabla, efimeros, pcb,
                   externo, sockets>>

CpDespacha ==
    /\ En("CP", "mira")
    /\ listaReady # <<>> /\ listaExec = <<>>
    /\ \E i \in Elegibles :
          /\ listaExec' = Append(listaExec, listaReady[i])
          /\ listaReady' = RemoveAt(listaReady, i)
    /\ Suelta({"MENSAJEACPU", "PLANICORTOPLAZO"})
    /\ Va("CP", "espera")
    /\ UNCHANGED <<grado, colaNew, listaBlock, listaExit, buzones, params,
                   recursos, nacimiento, program_counter, tabla, efimeros, pcb,
                   externo, sockets>>

CpNada ==
    /\ En("CP", "mira")
    /\ listaReady = <<>> \/ listaExec # <<>>
    /\ Suelta({"PLANICORTOPLAZO"})
    /\ Va("CP", "espera")
    /\ UNCHANGED <<grado, listas, buzones, params, recursos, nacimiento,
                   program_counter, tabla, efimeros, pcb, externo, sockets>>

CortoPlazo == CpToma \/ CpDespacha \/ CpNada

-----------------------------------------------------------------------------
(* handlerIO *)

IOLee(p) ==
    /\ io[p] = "arranca"
    /\ tiempo' = [tiempo EXCEPT ![p] = parametroIO]
    /\ Suelta({"IOPARAM"})
    /\ io' = [io EXCEPT ![p] = "duerme"]
    /\ UNCHANGED <<grado, listas, buzones, params, recursos, nacimiento,
                   program_counter, tabla, semaforo, consola, avisosIO, pc, pcb,
                   externo, sockets>>

\* sleep() returns.  From here on p may run again, and even start another
\* I/O, before this thread has woken the scheduler.
IODespierta(p) ==
    /\ io[p] = "duerme"
    /\ Avanza(p)
    /\ listaReady' = Append(listaReady, p)
    /\ io' = [io EXCEPT ![p] = "no"]
    /\ tiempo' = [tiempo EXCEPT ![p] = Nulo]
    /\ avisosIO' = avisosIO + 1
    /\ UNCHANGED <<libre, grado, colaNew, listaExec, listaBlock, listaExit,
                   buzones, params, recursos, nacimiento, tabla, semaforo,
                   consola, pc, pcb, externo, sockets>>

\* Mutant of IOAvisa: PCBENEJECUCION is not unlocked.
IOAvisaMutante ==
    /\ avisosIO > 0
    /\ Toma("PLANICORTOPLAZO")
    /\ avisosIO' = avisosIO - 1
    /\ UNCHANGED <<grado, listas, buzones, params, recursos, nacimiento,
                   program_counter, tabla, semaforo, consola, io, tiempo, pc,
                   pcb, externo, sockets>>

IOAvisa ==
    /\ avisosIO > 0
    /\ TomaYSuelta("PLANICORTOPLAZO", {"PCBENEJECUCION"})
    /\ avisosIO' = avisosIO - 1
    /\ UNCHANGED <<grado, listas, buzones, params, recursos, nacimiento,
                   program_counter, tabla, semaforo, consola, io, tiempo, pc,
                   pcb, externo, sockets>>

IO(p) == IOLee(p) \/ IODespierta(p)
=============================================================================
