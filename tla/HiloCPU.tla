------------------------------ MODULE HiloCPU ------------------------------
(***************************************************************************)
(* conexionCPU: the thread that hands the running process to the CPU and   *)
(* serves the request the CPU stops at.  The CPU itself is external: it    *)
(* answers with the next Kernel request of the program it was given.       *)
(***************************************************************************)
EXTENDS KernelEstado

\* lock MENSAJEACPU; list_get(listaExec, 0); send NUEVO_PCB
CpuEnvia ==
    /\ En("CPU", "espera")
    /\ Toma("MENSAJEACPU")
    /\ pcb' = [pcb EXCEPT !["CPU"] = Primero(listaExec)]
    /\ Va("CPU", "recibe")
    /\ UNCHANGED <<grado, listas, buzones, params, recursos, nacimiento,
                   program_counter, tabla, efimeros, externo, sockets>>

\* recv of a request in ops
Recibe(ops) ==
    /\ En("CPU", "recibe")
    /\ Instruccion(pcb["CPU"]).op \in ops

Argumento == Instruccion(pcb["CPU"]).arg

\* deserializar_contexto_*: the arguments go to the globals parametroChar,
\* parametroInt1 and parametroInt2
GuardaArgumentos == parametro' = pcb["CPU"]

\* REQ_EXIT, the ERR_* codes, and WAIT or SIGNAL on an unknown resource
CpuFinaliza ==
    /\ \/ Recibe({"EXIT", "ERROR"}) /\ UNCHANGED parametro
       \/ Recibe({"WAIT", "SIGNAL"}) /\ Argumento \notin Recursos /\ GuardaArgumentos
    /\ FinalizarEmpieza("CPU")
    /\ UNCHANGED <<libre, grado, buzones, parametroIO, recursos, nacimiento,
                   program_counter, tabla, efimeros, externo, sockets>>

\* the running process leaves listaExec
SacaDeExec ==
    /\ listaExec' = Resto(listaExec)
    /\ pcb' = [pcb EXCEPT !["CPU"] = Primero(listaExec)]

CpuWaitBloquea ==
    /\ Recibe({"WAIT"}) /\ Argumento \in Recursos
    /\ instancias[Argumento] <= 0
    /\ instancias' = [instancias EXCEPT ![Argumento] = @ - 1]
    /\ Avanza(pcb["CPU"])
    /\ SacaDeExec
    /\ colaBloqueados' = [colaBloqueados EXCEPT
                             ![Argumento] = Append(@, Primero(listaExec))]
    /\ GuardaArgumentos
    /\ Va("CPU", "avisa")
    /\ UNCHANGED <<libre, grado, colaNew, listaReady, listaBlock, listaExit,
                   buzones, parametroIO, nacimiento, tabla, efimeros, externo, sockets>>

CpuWaitOtorga ==
    /\ Recibe({"WAIT"}) /\ Argumento \in Recursos
    /\ instancias[Argumento] > 0
    /\ instancias' = [instancias EXCEPT ![Argumento] = @ - 1]
    /\ Avanza(pcb["CPU"])
    /\ Suelta({"MENSAJEACPU"})
    /\ GuardaArgumentos
    /\ Va("CPU", "espera")
    /\ UNCHANGED <<grado, listas, buzones, parametroIO, colaBloqueados, nacimiento,
                   tabla, efimeros, pcb, externo, sockets>>

\* Mutant of CpuSignalDespierta: the queue is peeked, not popped.
CpuSignalDespiertaMutante ==
    /\ Recibe({"SIGNAL"}) /\ Argumento \in Recursos
    /\ instancias[Argumento] + 1 >= 0
    /\ colaBloqueados[Argumento] # <<>>
    /\ instancias' = [instancias EXCEPT ![Argumento] = @ + 1]
    /\ Avanza(pcb["CPU"])
    /\ listaReady' = Append(listaReady, Head(colaBloqueados[Argumento]))
    /\ GuardaArgumentos
    /\ Va("CPU", "avisa_y_sigue")
    /\ UNCHANGED <<libre, grado, colaNew, listaExec, listaBlock, listaExit, colaBloqueados,
                   buzones, parametroIO, nacimiento, tabla, efimeros, pcb, externo, sockets>>

\* the increment leaves the count at 0 or more and somebody waits
CpuSignalDespierta ==
    /\ Recibe({"SIGNAL"}) /\ Argumento \in Recursos
    /\ instancias[Argumento] + 1 >= 0
    /\ colaBloqueados[Argumento] # <<>>
    /\ instancias' = [instancias EXCEPT ![Argumento] = @ + 1]
    /\ Avanza(pcb["CPU"])
    /\ listaReady' = Append(listaReady, Head(colaBloqueados[Argumento]))
    /\ colaBloqueados' = [colaBloqueados EXCEPT ![Argumento] = Tail(@)]
    /\ GuardaArgumentos
    /\ Va("CPU", "avisa_y_sigue")
    /\ UNCHANGED <<libre, grado, colaNew, listaExec, listaBlock, listaExit,
                   buzones, parametroIO, nacimiento, tabla, efimeros, pcb, externo, sockets>>

\* nobody to wake; while the count stays negative the code adds 1 again
CpuSignalSinDespertar ==
    /\ Recibe({"SIGNAL"}) /\ Argumento \in Recursos
    /\ \/ /\ instancias[Argumento] + 1 >= 0
          /\ colaBloqueados[Argumento] = <<>>
          /\ instancias' = [instancias EXCEPT ![Argumento] = @ + 1]
       \/ /\ instancias[Argumento] + 1 < 0
          /\ instancias' = [instancias EXCEPT ![Argumento] = @ + 2]
    /\ Avanza(pcb["CPU"])
    /\ Suelta({"MENSAJEACPU"})
    /\ GuardaArgumentos
    /\ Va("CPU", "espera")
    /\ UNCHANGED <<grado, listas, buzones, parametroIO, colaBloqueados, nacimiento,
                   tabla, efimeros, pcb, externo, sockets>>

\* REQ_I_O, up to the lock on IOPARAM
CpuIO ==
    /\ Recibe({"I/O"})
    /\ SacaDeExec
    /\ GuardaArgumentos
    /\ Va("CPU", "ioparam")
    /\ UNCHANGED <<libre, grado, colaNew, listaReady, listaBlock, listaExit,
                   buzones, parametroIO, recursos, nacimiento, program_counter, tabla,
                   efimeros, externo, sockets>>

\* Mutant of CpuIOParam: parametroIO is written without IOPARAM.
CpuIOParamMutante ==
    /\ En("CPU", "ioparam")
    /\ parametroIO' = pcb["CPU"]
    /\ io' = [io EXCEPT ![pcb["CPU"]] = "arranca"]
    /\ Va("CPU", "avisa")
    /\ UNCHANGED <<libre, grado, listas, buzones, parametro, recursos, nacimiento,
                   program_counter, tabla, semaforo, consola, avisosIO, tiempo,
                   pcb, externo, sockets>>

\* lock IOPARAM; parametroIO = ...; create the handlerIO thread
CpuIOParam ==
    /\ En("CPU", "ioparam")
    /\ Toma("IOPARAM")
    /\ parametroIO' = pcb["CPU"]
    /\ io' = [io EXCEPT ![pcb["CPU"]] = "arranca"]
    /\ Va("CPU", "avisa")
    /\ UNCHANGED <<grado, listas, buzones, parametro, recursos, nacimiento,
                   program_counter, tabla, semaforo, consola, avisosIO, tiempo,
                   pcb, externo, sockets>>

CpuYield ==
    /\ Recibe({"YIELD"})
    /\ SacaDeExec
    /\ Avanza(Primero(listaExec))
    /\ listaReady' = Append(listaReady, Primero(listaExec))
    /\ Va("CPU", "avisa")
    /\ UNCHANGED <<libre, grado, colaNew, listaBlock, listaExit, buzones, params,
                   recursos, nacimiento, tabla, efimeros, externo, sockets>>

\* REQ_CREATE_SEGMENT and REQ_DELETE_SEGMENT overwrite parametroInt1/2; then
\* lock CONEXIONMEMORIA and post the message
CpuSegmento ==
    /\ Recibe({"CREATE_SEGMENT", "DELETE_SEGMENT"})
    /\ GuardaArgumentos
    /\ Va("CPU", "segmento")
    /\ UNCHANGED <<libre, grado, listas, buzones, parametroIO, recursos, nacimiento,
                   program_counter, tabla, efimeros, pcb, externo, sockets>>

CpuPideMemoria ==
    /\ En("CPU", "segmento")
    /\ TomaYSuelta("CONEXIONMEMORIA", {"MENSAJEAMEMORIA"})
    /\ mensajeAMemoria' = IF Instruccion(pcb["CPU"]).op = "CREATE_SEGMENT"
                          THEN "REQ_CREAR_SEGMENTO" ELSE "REQ_ELIMINAR_SEGMENTO"
    /\ Va("CPU", "espera")
    /\ UNCHANGED <<grado, listas, mensajePlanificador, mensajeFileSystem, params,
                   recursos, nacimiento, program_counter, tabla, efimeros, pcb,
                   externo, sockets>>

\* REQ_READ_FILE, REQ_WRITE_FILE, REQ_TRUNCATE_FILE: the file name, the size
\* and the physical address (translated with the segment table the CPU was
\* given) stay in the globals for the filesystem thread
CpuArchivo ==
    /\ Recibe({"F_READ", "F_WRITE", "F_TRUNCATE"})
    /\ GuardaArgumentos
    /\ mensajeFileSystem' = Instruccion(pcb["CPU"]).op
    /\ Suelta({"MENSAJEAFILESYSTEM"})
    /\ Va("CPU", "espera")
    /\ UNCHANGED <<grado, listas, mensajePlanificador, mensajeAMemoria, parametroIO,
                   recursos, nacimiento, program_counter, tabla, efimeros, pcb,
                   externo, sockets>>

\* lock PLANICORTOPLAZO; unlock PCBENEJECUCION, and after SIGNAL MENSAJEACPU too
CpuAvisa ==
    /\ \/ En("CPU", "avisa") /\ TomaYSuelta("PLANICORTOPLAZO", {"PCBENEJECUCION"})
       \/ /\ En("CPU", "avisa_y_sigue")
          /\ TomaYSuelta("PLANICORTOPLAZO", {"PCBENEJECUCION", "MENSAJEACPU"})
    /\ Va("CPU", "espera")
    /\ UNCHANGED <<grado, listas, buzones, params, recursos, nacimiento,
                   program_counter, tabla, efimeros, pcb, externo, sockets>>

HiloDeCPU ==
    \/ CpuEnvia \/ CpuFinaliza
    \/ CpuWaitBloquea \/ CpuWaitOtorga \/ CpuSignalDespierta \/ CpuSignalSinDespertar
    \/ CpuIO \/ CpuIOParam \/ CpuYield
    \/ CpuSegmento \/ CpuPideMemoria \/ CpuArchivo
    \/ CpuAvisa
    \/ FinalizarAvisaConsola("CPU") \/ FinalizarAvisaPlanificador("CPU", "espera")
=============================================================================
