---------------------------- MODULE HiloMemoria ----------------------------
(***************************************************************************)
(* conexionMemoria: the thread that serves mensajeAMemoria, one request at *)
(* a time.  Memoria is external: it answers every request, and its reply   *)
(* to REQ_CREAR_SEGMENTO is any of RespuestasCrear.                        *)
(*                                                                         *)
(* tabla[p] says which compaction the Kernel's copy of p's segment table   *)
(* is up to date with; -1 is the empty list crearPcb starts with.          *)
(***************************************************************************)
EXTENDS KernelEstado

MemToma ==
    /\ En("MEM", "espera")
    /\ Toma("MENSAJEAMEMORIA")
    /\ \/ /\ mensajeAMemoria = "REQ_INICIAR_PROCESO"
          /\ pcb' = [pcb EXCEPT !["MEM"] = Primero(colaNew)]
          /\ Va("MEM", "iniciar")
       \/ /\ mensajeAMemoria = "REQ_CREAR_SEGMENTO"
          /\ pcb' = [pcb EXCEPT !["MEM"] = Primero(listaExec)]
          /\ Va("MEM", "crear")
       \/ /\ mensajeAMemoria = "REQ_ELIMINAR_SEGMENTO"
          /\ pcb' = [pcb EXCEPT !["MEM"] = Primero(listaExec)]
          /\ Va("MEM", "eliminar")
       \/ /\ mensajeAMemoria = "REQ_FIN_PROCESO"
          /\ Va("MEM", "fin")
          /\ UNCHANGED pcb
    /\ UNCHANGED <<grado, listas, buzones, params, recursos, nacimiento,
                   program_counter, tabla, efimeros, externo, sockets>>

\* Memoria creates the table of the process that was the head of colaNew; the
\* Kernel, under PCBNEW, gives it to the process that is the head now
MemIniciar ==
    /\ En("MEM", "iniciar")
    /\ TomaYSuelta("PCBNEW", {"PCBNEW", "TABLASEGMENTOS"})
    /\ memoria' = memoria \cup {pcb["MEM"]}
    /\ tabla' = [tabla EXCEPT ![Primero(colaNew)] = epoca]
    /\ pcb' = [pcb EXCEPT !["MEM"] = Primero(colaNew)]
    /\ Va("MEM", "pcbready")
    /\ UNCHANGED <<grado, listas, buzones, params, recursos, nacimiento,
                   program_counter, efimeros, epoca, sockets>>

MemSuelta(desde, m, hasta) ==
    /\ En("MEM", desde)
    /\ Suelta({m})
    /\ Va("MEM", hasta)
    /\ UNCHANGED <<grado, listas, buzones, params, recursos, nacimiento,
                   program_counter, tabla, efimeros, pcb, externo, sockets>>

\* Mutant of MemSegmentoOK: the instruction is not counted as done.
MemSegmentoOKMutante ==
    /\ \/ En("MEM", "crear") /\ "OK" \in RespuestasCrear
       \/ En("MEM", "eliminar")
    /\ tabla' = [tabla EXCEPT ![pcb["MEM"]] = epoca]
    /\ Suelta({"MENSAJEACPU"})
    /\ Va("MEM", "libera")
    /\ UNCHANGED <<grado, listas, buzones, params, recursos, nacimiento, program_counter,
                   efimeros, pcb, externo, sockets>>

\* OK: new table, next instruction, back to the CPU
MemSegmentoOK ==
    /\ \/ En("MEM", "crear") /\ "OK" \in RespuestasCrear
       \/ En("MEM", "eliminar")
    /\ tabla' = [tabla EXCEPT ![pcb["MEM"]] = epoca]
    /\ Avanza(pcb["MEM"])
    /\ Suelta({"MENSAJEACPU"})
    /\ Va("MEM", "libera")
    /\ UNCHANGED <<grado, listas, buzones, params, recursos, nacimiento, efimeros,
                   pcb, externo, sockets>>

\* ERROR_CREAR_SEGMENTO: OUT_OF_MEMORY
MemSinMemoria ==
    /\ En("MEM", "crear") /\ "ERROR" \in RespuestasCrear
    /\ FinalizarEmpieza("MEM")
    /\ UNCHANGED <<libre, grado, buzones, params, recursos, nacimiento,
                   program_counter, tabla, efimeros, externo, sockets>>

-----------------------------------------------------------------------------
(* REQ_PEDIR_COMPACTACION *)

\* ask the Filesystem, on the socket the filesystem thread uses as well,
\* whether it is working with Memoria
MemConsultaFS ==
    /\ En("MEM", "crear") /\ "COMPACTAR" \in RespuestasCrear
    /\ epoca < MaxCompactaciones
    /\ fsPedidos' = Append(fsPedidos, [op |-> "REQ_OP_MEMORIA", pid |-> Nulo, de |-> Nulo])
    /\ Va("MEM", "consulta")
    /\ UNCHANGED <<libre, grado, listas, buzones, params, recursos, nacimiento,
                   program_counter, tabla, efimeros, pcb, externo, fsRespuestas>>

\* Mutant of MemCompacta: the answer of the Filesystem is not received.
MemCompactaMutante ==
    /\ En("MEM", "consulta")
    /\ epoca' = epoca + 1
    /\ Va("MEM", "act_ready")
    /\ UNCHANGED <<libre, grado, listas, buzones, params, recursos, nacimiento,
                   program_counter, tabla, efimeros, pcb, memoria, sockets>>

\* recv takes whatever code comes first; another code than OK_OP_MEMORIA only
\* skips a log line.  Then OK_COMPACTAR: Memoria compacts.
MemCompacta ==
    /\ En("MEM", "consulta")
    /\ fsRespuestas # <<>>
    /\ fsRespuestas' = Tail(fsRespuestas)
    /\ epoca' = epoca + 1
    /\ Va("MEM", "act_ready")
    /\ UNCHANGED <<libre, grado, listas, buzones, params, recursos, nacimiento,
                   program_counter, tabla, efimeros, pcb, memoria, fsPedidos>>

\* actualizarListaPcb on one of the three lists actualizarTablasDeSegmentos names
ActualizarListaPcb(lista) ==
    tabla' = [p \in Pids |-> IF p \in ToSet(lista) \cap memoria THEN epoca ELSE tabla[p]]

MemActualiza(desde, lista, sueltos, hasta) ==
    /\ En("MEM", desde)
    /\ ActualizarListaPcb(lista)
    /\ Suelta(sueltos)
    /\ Va("MEM", hasta)
    /\ UNCHANGED <<grado, listas, buzones, params, recursos, nacimiento,
                   program_counter, efimeros, pcb, externo, sockets>>

\* the request is not counted as done: the CPU gets the same instruction again
MemCompactar ==
    \/ MemConsultaFS
    \/ MemCompacta
    \/ MemActualiza("act_ready", listaReady, {}, "act_exec")
    \/ MemActualiza("act_exec", listaExec, {}, "act_block")
    \/ MemActualiza("act_block", listaBlock, {"MENSAJEACPU"}, "libera")

-----------------------------------------------------------------------------
(* REQ_FIN_PROCESO *)

\* lock LISTAEXIT; send the pid at the head of listaExit
MemFin ==
    /\ En("MEM", "fin")
    /\ Toma("LISTAEXIT")
    /\ pcb' = [pcb EXCEPT !["MEM"] = Primero(listaExit)]
    /\ Va("MEM", "confirma")
    /\ UNCHANGED <<grado, listas, buzones, params, recursos, nacimiento,
                   program_counter, tabla, efimeros, externo, sockets>>

\* Memoria drops the table and confirms
MemConfirma ==
    /\ En("MEM", "confirma")
    /\ memoria' = memoria \ {pcb["MEM"]}
    /\ Suelta({"SYNC_FIN", "LISTAEXIT", "FINALIZARPCB"})
    /\ Va("MEM", "libera")
    /\ UNCHANGED <<grado, listas, buzones, params, recursos, nacimiento,
                   program_counter, tabla, efimeros, pcb, epoca, sockets>>

HiloDeMemoria ==
    \/ MemToma
    \/ MemIniciar \/ MemSuelta("pcbready", "PCBREADY", "libera")
    \/ MemSegmentoOK \/ MemSinMemoria \/ MemCompactar
    \/ MemFin \/ MemConfirma
    \/ FinalizarAvisaConsola("MEM") \/ FinalizarAvisaPlanificador("MEM", "libera")
    \/ MemSuelta("libera", "CONEXIONMEMORIA", "espera")
=============================================================================
