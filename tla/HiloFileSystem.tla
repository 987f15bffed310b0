--------------------------- MODULE HiloFileSystem ---------------------------
(***************************************************************************)
(* conexionFileSystem: the thread that serves REQ_TRUNCAR_ARCHIVO,         *)
(* REQ_LEER_ARCHIVO and REQ_ESCRIBIR_ARCHIVO, which block the process, and *)
(* the Filesystem at the other end of the socket, external, that serves    *)
(* its requests in order.                                                  *)
(***************************************************************************)
EXTENDS KernelEstado

\* lock MENSAJEAFILESYSTEM; Exec -> Block
FsToma ==
    /\ En("FS", "espera")
    /\ Toma("MENSAJEAFILESYSTEM")
    /\ pcb' = [pcb EXCEPT !["FS"] = Primero(listaExec)]
    /\ listaExec' = Resto(listaExec)
    /\ listaBlock' = Append(listaBlock, Primero(listaExec))
    /\ Va("FS", "envia")
    /\ UNCHANGED <<grado, colaNew, listaReady, listaExit, buzones, params, recursos,
                   nacimiento, program_counter, tabla, efimeros, externo, sockets>>

\* the request is built from the globals as they are now
FsEnvia ==
    /\ En("FS", "envia")
    /\ fsPedidos' = Append(fsPedidos,
                           [op |-> mensajeFileSystem, pid |-> pcb["FS"], de |-> parametro])
    /\ Va("FS", "avisa_bloqueo")
    /\ UNCHANGED <<libre, grado, listas, buzones, params, recursos, nacimiento,
                   program_counter, tabla, efimeros, pcb, externo, fsRespuestas>>

FsAvisa(desde, hasta) ==
    /\ En("FS", desde)
    /\ TomaYSuelta("PLANICORTOPLAZO", {"PCBENEJECUCION"})
    /\ Va("FS", hasta)
    /\ UNCHANGED <<grado, listas, buzones, params, recursos, nacimiento,
                   program_counter, tabla, efimeros, pcb, externo, sockets>>

\* recv: any code will do; desbloquear_pcb, Block -> Ready
FsDesbloquea ==
    /\ En("FS", "recibe")
    /\ fsRespuestas # <<>>
    /\ fsRespuestas' = Tail(fsRespuestas)
    /\ \E i \in DOMAIN listaBlock :
          /\ listaBlock[i] = pcb["FS"]
          /\ listaBlock' = RemoveAt(listaBlock, i)
    /\ Avanza(pcb["FS"])
    /\ listaReady' = Append(listaReady, pcb["FS"])
    /\ Va("FS", "avisa_listo")
    /\ UNCHANGED <<libre, grado, colaNew, listaExec, listaExit, buzones, params,
                   recursos, nacimiento, tabla, efimeros, pcb, externo, fsPedidos>>

HiloDeFileSystem ==
    \/ FsToma \/ FsEnvia \/ FsDesbloquea
    \/ FsAvisa("avisa_bloqueo", "recibe") \/ FsAvisa("avisa_listo", "espera")

-----------------------------------------------------------------------------
(* external: the Filesystem finishes the oldest request and answers *)

Filesystem ==
    /\ fsPedidos # <<>>
    /\ fsPedidos' = Tail(fsPedidos)
    /\ fsRespuestas' = Append(fsRespuestas,
                              IF Head(fsPedidos).op = "REQ_OP_MEMORIA"
                              THEN "OK_OP_MEMORIA" ELSE "OK")
    /\ UNCHANGED <<libre, grado, listas, buzones, params, recursos, nacimiento,
                   program_counter, tabla, efimeros, pc, pcb, externo>>
=============================================================================
