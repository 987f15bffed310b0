-------------------------- MODULE ArchivosAbiertos --------------------------
(***************************************************************************)
(* The Kernel's table of open files and the tables of the processes: the   *)
(* file requests of conexionCPU and of conexionFileSystem, with the        *)
(* globals they share.  Mutexes and the queues of the schedulers are those *)
(* of KernelEstado and the Hilo* modules; here the scheduler runs any      *)
(* process that is ready, and the CPU any program of a small set.          *)
(*                                                                         *)
(* conexionCPU allocates one t_file_kernel and one t_file_pcb when it      *)
(* starts, and every entry of tablaArchivosAbiertos, and every new entry   *)
(* of a pcb, is a pointer to them.  The filename of the t_file_pcb is the  *)
(* global parametroChar itself, where the name of every later request, of  *)
(* a file or of a resource, is copied.  An access to the t_file_kernel     *)
(* after its free, or through the NULL of a name without entry, is         *)
(* undefined: no request is served from then on, and nothing is claimed of *)
(* what follows.                                                           *)
(***************************************************************************)
EXTENDS Integers, FiniteSets, SequencesExt

CONSTANTS
    Pids, Archivos,
    Posiciones,     \* the arguments of F_SEEK
    Programas       \* the file instructions a console may send

ASSUME ArchivosAssumption ==
    /\ 0 \in Posiciones /\ Posiciones \subseteq Nat
    /\ Pids \subseteq Nat /\ IsFiniteSet(Pids)

\* what parametroChar may hold: a file, a resource of WAIT or SIGNAL, nothing yet
Nombres ==
    {""} \cup Archivos \cup
    UNION {{pr[k].arch : k \in {j \in DOMAIN pr : pr[j].op \in {"WAIT", "SIGNAL"}}} :
              pr \in Programas}

Transferencias == {"F_READ", "F_WRITE", "F_TRUNCATE"}
OpsDeArchivo == {"F_CLOSE", "F_SEEK"} \cup Transferencias

\* abierta says, before each instruction, whether the program has a file open: it
\* opens one at a time, closes it before EXIT, and asks for no other meanwhile
EsSesion(pr, abierta) ==
    /\ ~abierta[1]
    /\ \A k \in DOMAIN pr :
          /\ pr[k].op \in {"F_OPEN", "WAIT", "SIGNAL", "YIELD", "I_O"} => k < Len(pr)
          /\ pr[k].op = "F_OPEN" => pr[k].arch \in Archivos /\ ~abierta[k] /\ abierta[k + 1]
          /\ pr[k].op \in {"WAIT", "SIGNAL", "YIELD", "I_O"} => abierta[k + 1] = abierta[k]
          /\ pr[k].op \in OpsDeArchivo =>
                IF abierta[k]
                THEN pr[k].arch \in Archivos /\ k < Len(pr)
                     /\ abierta[k + 1] = (pr[k].op # "F_CLOSE")
                ELSE pr[k].arch \notin Nombres
          /\ pr[k].op = "F_SEEK" => pr[k].pos \in Posiciones
          /\ pr[k].op = "EXIT" => ~abierta[k]

\* the programs of this module; "file_pcb" is its mark of the shared entry
ASSUME ProgramasAssumption ==
    /\ "file_pcb" \notin Nombres
    /\ \A pr \in Programas :
          /\ Len(pr) \in Nat \ {0} /\ DOMAIN pr = 1 .. Len(pr)
          /\ \E abierta \in [1 .. Len(pr) -> BOOLEAN] : EsSesion(pr, abierta)

VARIABLES
    programa, program_counter,
    archivos_abiertos,      \* of each pcb: names and pointers
    claves,                 \* names in tablaArchivosAbiertos
    file_kernel,            \* [open, pcbs] of the one t_file_kernel
    liberado,               \* it was freed
    parametroChar,          \* the last name received: filename of the t_file_pcb
    parametroInt,           \* whose request wrote parametroInt1 and 2 last, or -1
    listos, ejecutando, terminados,
    mensajeFileSystem,      \* the last request posted to conexionFileSystem
    avisoFS,                \* MENSAJEAFILESYSTEM is unlocked: it has not taken it
    hiloFS,                 \* what conexionFileSystem does next
    enFS,                   \* the process whose transfer it does, or -1
    file_pcb,               \* the entry it found for it
    indefinido,             \* the Kernel did something undefined
    atascada,               \* the CPU sends copies of a failed request for ever
    abiertos, ultima,       \* history: F_OPENs granted and not closed, last transfer
    desviado                \* history: a request went out with what another one left

pcbs == <<programa, program_counter, archivos_abiertos>>
tablas == <<claves, file_kernel, liberado, parametroChar>>
colas == <<listos, ejecutando, terminados>>
hilo == <<hiloFS, enFS, file_pcb>>
fs == <<mensajeFileSystem, avisoFS, hilo>>
fallas == <<indefinido, atascada>>
historia == <<abiertos, ultima, desviado>>
vars == <<pcbs, tablas, parametroInt, colas, fs, fallas, historia>>

Nadie == -1
Propia(f, n) == [filename |-> f, pointer |-> n]
Compartida == [filename |-> "file_pcb", pointer |-> 0]

\* the names the CPU is sent, and sends back: the entries are the process's own
\* from then on
Contexto(p) ==
    [i \in DOMAIN archivos_abiertos[p] |->
        IF archivos_abiertos[p][i] = Compartida THEN Propia(parametroChar, 0)
        ELSE archivos_abiertos[p][i]]

\* list_find: the first entry of the name
buscarFile(lista, f) == SelectInSeq(lista, LAMBDA e : e.filename = f)

Instr(p) == programa[p][program_counter[p] + 1]

\* the running process stops at an instruction of ops, and the CPU thread, that
\* nobody keeps waiting, has its request
Recibe(p, ops) ==
    /\ ejecutando = p /\ ~avisoFS /\ ~indefinido /\ ~atascada
    /\ Instr(p).op \in ops

\* the same, of a file that the CPU finds in the context
RecibeAbierto(p, ops) ==
    /\ Recibe(p, ops)
    /\ buscarFile(Contexto(p), Instr(p).arch) # 0

Avanza(p) == program_counter' = [program_counter EXCEPT ![p] = @ + 1]
\* strcpy(parametroChar, string_received)
Nombra(p) == parametroChar' = Instr(p).arch
\* recv(socket, &parametroInt1, ...)
Numera(p) == parametroInt' = p
Guarda(p, lista) == archivos_abiertos' = [archivos_abiertos EXCEPT ![p] = lista]

-----------------------------------------------------------------------------
(* conexionCPU *)

\* the new entry is the shared t_file_pcb, also when the process has to wait
AgregaEntrada(p) ==
    /\ Nombra(p)
    /\ Guarda(p, Append(Contexto(p), Compartida))

Concede(p) ==
    /\ abiertos' = [abiertos EXCEPT ![p] = @ \cup {Instr(p).arch}]
    /\ UNCHANGED <<ultima, desviado>>

\* the CPU thread does not go on until conexionFileSystem lets it
AvisaFS(mensaje) ==
    /\ mensajeFileSystem' = mensaje /\ avisoFS' = TRUE
    /\ UNCHANGED hilo

\* Mutant of AbrirEspera: the process is not taken out of listaExec.
AbrirEsperaMutante(p) ==
    /\ Recibe(p, {"F_OPEN"}) /\ Instr(p).arch \in claves /\ ~liberado
    /\ file_kernel.open
    /\ AgregaEntrada(p)
    /\ file_kernel' = [file_kernel EXCEPT !.pcbs = Append(@, p)]
    /\ UNCHANGED <<programa, program_counter, claves, liberado, colas,
                   parametroInt, fs, fallas, historia>>

\* the file is open: wait in its queue; F_OPEN is executed again later
AbrirEspera(p) ==
    /\ Recibe(p, {"F_OPEN"}) /\ Instr(p).arch \in claves /\ ~liberado
    /\ file_kernel.open
    /\ AgregaEntrada(p)
    /\ file_kernel' = [file_kernel EXCEPT !.pcbs = Append(@, p)]
    /\ ejecutando' = Nadie
    /\ UNCHANGED <<programa, program_counter, claves, liberado, listos, terminados,
                   parametroInt, fs, fallas, historia>>

\* somebody closed it and others were waiting
AbrirCerrado(p) ==
    /\ Recibe(p, {"F_OPEN"}) /\ Instr(p).arch \in claves /\ ~liberado
    /\ ~file_kernel.open
    /\ AgregaEntrada(p)
    /\ file_kernel' = [file_kernel EXCEPT !.open = TRUE]
    /\ Avanza(p) /\ Concede(p)
    /\ UNCHANGED <<programa, claves, liberado, colas, parametroInt, fs, fallas>>

\* the fields are written over whatever the t_file_kernel had
AbrirNuevo(p) ==
    /\ Recibe(p, {"F_OPEN"}) /\ Instr(p).arch \notin claves /\ ~liberado
    /\ AgregaEntrada(p)
    /\ file_kernel' = [open |-> TRUE, pcbs |-> <<>>]
    /\ claves' = claves \cup {Instr(p).arch}
    /\ AvisaFS("REQ_ABRIR_ARCHIVO")
    /\ Avanza(p) /\ Concede(p)
    /\ UNCHANGED <<programa, liberado, colas, parametroInt, fallas>>

QuitaEntrada(p) ==
    LET f == Instr(p).arch IN
    /\ Guarda(p, RemoveAt(Contexto(p), buscarFile(Contexto(p), f)))
    /\ abiertos' = [abiertos EXCEPT ![p] = @ \ {f}]
    /\ UNCHANGED <<ultima, desviado>>

CerrarUltimo(p) ==
    /\ RecibeAbierto(p, {"F_CLOSE"}) /\ Instr(p).arch \in claves /\ ~liberado
    /\ file_kernel.pcbs = <<>>
    /\ QuitaEntrada(p) /\ Nombra(p) /\ Avanza(p)
    /\ file_kernel' = [file_kernel EXCEPT !.open = FALSE]
    /\ claves' = claves \ {Instr(p).arch}
    /\ liberado' = TRUE
    /\ UNCHANGED <<programa, colas, parametroInt, fs, fallas>>

\* Mutant of CerrarYDespierta: the file stays open.
CerrarYDespiertaMutante(p) ==
    /\ RecibeAbierto(p, {"F_CLOSE"}) /\ Instr(p).arch \in claves /\ ~liberado
    /\ file_kernel.pcbs # <<>>
    /\ QuitaEntrada(p) /\ Nombra(p) /\ Avanza(p)
    /\ file_kernel' = [file_kernel EXCEPT !.pcbs = Tail(@)]
    /\ listos' = listos \cup {Head(file_kernel.pcbs)}
    /\ UNCHANGED <<programa, claves, liberado, ejecutando, terminados,
                   parametroInt, fs, fallas>>

\* the first that waits becomes ready; it does not get the file with it
CerrarYDespierta(p) ==
    /\ RecibeAbierto(p, {"F_CLOSE"}) /\ Instr(p).arch \in claves /\ ~liberado
    /\ file_kernel.pcbs # <<>>
    /\ QuitaEntrada(p) /\ Nombra(p) /\ Avanza(p)
    /\ file_kernel' = [open |-> FALSE, pcbs |-> Tail(file_kernel.pcbs)]
    /\ listos' = listos \cup {Head(file_kernel.pcbs)}
    /\ UNCHANGED <<programa, claves, liberado, ejecutando, terminados,
                   parametroInt, fs, fallas>>

\* F_OPEN or F_CLOSE with the t_file_kernel freed, or F_CLOSE of a name that is
\* in the context and not in tablaArchivosAbiertos
UsoIndefinido(p) ==
    /\ \/ Recibe(p, {"F_OPEN"}) /\ liberado
       \/ RecibeAbierto(p, {"F_CLOSE"}) /\ (liberado \/ Instr(p).arch \notin claves)
    /\ indefinido' = TRUE
    /\ UNCHANGED <<pcbs, tablas, parametroInt, colas, fs, atascada, historia>>

\* Mutant of Posicionar: the pointer of the last entry of the table is moved.
PosicionarMutante(p) ==
    /\ RecibeAbierto(p, {"F_SEEK"})
    /\ Guarda(p, [Contexto(p) EXCEPT ![Len(archivos_abiertos[p])].pointer = Instr(p).pos])
    /\ Nombra(p) /\ Numera(p) /\ Avanza(p)
    /\ UNCHANGED <<programa, claves, file_kernel, liberado, colas, fs, fallas, historia>>

Posicionar(p) ==
    /\ RecibeAbierto(p, {"F_SEEK"})
    /\ Guarda(p, [Contexto(p) EXCEPT
                    ![buscarFile(Contexto(p), Instr(p).arch)].pointer = Instr(p).pos])
    /\ Nombra(p) /\ Numera(p) /\ Avanza(p)
    /\ UNCHANGED <<programa, claves, file_kernel, liberado, colas, fs, fallas, historia>>

PedirTransferencia(p) ==
    /\ RecibeAbierto(p, Transferencias)
    /\ Guarda(p, Contexto(p)) /\ Nombra(p) /\ Numera(p)
    /\ AvisaFS(Instr(p).op)
    /\ UNCHANGED <<programa, program_counter, claves, file_kernel, liberado, colas, fallas,
                   historia>>

\* WAIT of a resource that is free, or SIGNAL: they use parametroChar too
UsarRecurso(p) ==
    /\ Recibe(p, {"WAIT", "SIGNAL"})
    /\ Guarda(p, Contexto(p)) /\ Nombra(p)
    /\ Avanza(p)
    /\ UNCHANGED <<programa, claves, file_kernel, liberado, colas, parametroInt, fs,
                   fallas, historia>>

\* YIELD, I_O, WAIT of a resource that is not free: the process gives the CPU up.
\* I_O stands for every request that brings a number and no name.
Ceder(p) ==
    /\ Recibe(p, {"YIELD", "I_O", "WAIT"})
    /\ Guarda(p, Contexto(p))
    /\ IF Instr(p).op = "WAIT" THEN Nombra(p) ELSE UNCHANGED parametroChar
    /\ IF Instr(p).op = "I_O" THEN Numera(p) ELSE UNCHANGED parametroInt
    /\ Avanza(p)
    /\ ejecutando' = Nadie /\ listos' = listos \cup {p}
    /\ UNCHANGED <<programa, claves, file_kernel, liberado, terminados, fs, fallas, historia>>

\* finalizarPcb; nothing is closed
Finaliza(p) ==
    /\ ejecutando' = Nadie /\ terminados' = terminados \cup {p}
    /\ UNCHANGED <<pcbs, tablas, parametroInt, listos, fs, indefinido, historia>>

\* raise_error_file_not_open
NoEstaAbierto(p) == buscarFile(Contexto(p), Instr(p).arch) = 0

\* EXIT, or ERR_FILE_NOT_OPEN of F_CLOSE, which leaves the cycle of the CPU
Terminar(p) ==
    /\ \/ Recibe(p, {"EXIT"})
       \/ Recibe(p, {"F_CLOSE"}) /\ NoEstaAbierto(p)
    /\ Finaliza(p)
    /\ UNCHANGED atascada

\* ERR_FILE_NOT_OPEN of the others, which do not: the CPU sends it again and again
TerminarConError(p) ==
    /\ Recibe(p, {"F_SEEK"} \cup Transferencias) /\ NoEstaAbierto(p)
    /\ Finaliza(p)
    /\ atascada' = TRUE

\* The Kernel takes a copy for the answer of p: with it comes the pid of the
\* process that ended, whose mutex is in diccionarioSemaforos no more.
RecibeCopia(p) ==
    /\ ejecutando = p /\ atascada /\ ~indefinido
    /\ indefinido' = TRUE
    /\ UNCHANGED <<pcbs, tablas, parametroInt, colas, fs, atascada, historia>>

-----------------------------------------------------------------------------
(* conexionFileSystem *)

\* lock MENSAJEAFILESYSTEM, and switch (mensajeFileSystem)
Atiende(mensajes) ==
    /\ hiloFS = "espera" /\ avisoFS
    /\ mensajeFileSystem \in mensajes
    /\ avisoFS' = FALSE

\* the file exists or is created; the process that asked goes on
FsAbre ==
    /\ Atiende({"REQ_ABRIR_ARCHIVO"})
    /\ UNCHANGED <<pcbs, tablas, parametroInt, colas, mensajeFileSystem, hilo, fallas, historia>>

\* Exec -> Block: from here on another process may run, and the globals change
FsToma ==
    /\ Atiende(Transferencias)
    /\ enFS' = ejecutando /\ ejecutando' = Nadie
    /\ hiloFS' = IF mensajeFileSystem = "F_TRUNCATE" THEN "envia" ELSE "busca"
    /\ UNCHANGED <<pcbs, tablas, parametroInt, listos, terminados, mensajeFileSystem,
                   file_pcb, fallas, historia>>

\* list_find of the name that parametroChar has by now; a NULL is dereferenced
FsBusca ==
    /\ hiloFS = "busca" /\ ~indefinido
    /\ file_pcb' = buscarFile(archivos_abiertos[enFS], parametroChar)
    /\ indefinido' = (file_pcb' = 0)
    /\ hiloFS' = "envia"
    /\ UNCHANGED <<pcbs, tablas, parametroInt, colas, mensajeFileSystem, avisoFS, enFS,
                   atascada, historia>>

\* the operation, the name and the numbers of the request are still those of p, and
\* were so when its entry was looked for
Suyos(p) ==
    /\ mensajeFileSystem = Instr(p).op /\ parametroChar = Instr(p).arch /\ parametroInt = p
    /\ \/ Instr(p).op = "F_TRUNCATE"
       \/ archivos_abiertos[p][file_pcb].filename = Instr(p).arch

\* the request is built from the globals as they are now, and from the pointer of
\* the entry; that of an F_TRUNCATE carries none
FsEnvia ==
    /\ hiloFS = "envia" /\ ~indefinido
    /\ hiloFS' = "recibe"
    /\ ultima' = CASE ~Suyos(enFS) -> <<>>
                   [] mensajeFileSystem = "F_TRUNCATE" -> ultima
                   [] OTHER -> <<enFS, parametroChar, archivos_abiertos[enFS][file_pcb].pointer>>
    /\ desviado' = (desviado \/ ~Suyos(enFS))
    /\ UNCHANGED <<pcbs, tablas, parametroInt, colas, mensajeFileSystem, avisoFS, enFS, file_pcb,
                   fallas, abiertos>>

\* the Filesystem answers: desbloquear_pcb
FsResponde ==
    /\ hiloFS = "recibe"
    /\ Avanza(enFS)
    /\ listos' = listos \cup {enFS} /\ enFS' = Nadie
    /\ hiloFS' = "espera"
    /\ UNCHANGED <<programa, archivos_abiertos, tablas, parametroInt, ejecutando, terminados,
                   mensajeFileSystem, avisoFS, file_pcb, fallas, historia>>

-----------------------------------------------------------------------------
\* external: the short-term scheduler, FIFO or HRRN
Despacha(p) ==
    /\ ejecutando = Nadie /\ p \in listos
    /\ ejecutando' = p /\ listos' = listos \ {p}
    /\ UNCHANGED <<pcbs, tablas, parametroInt, terminados, fs, fallas, historia>>

Init ==
    /\ programa \in [Pids -> Programas]
    /\ program_counter = [p \in Pids |-> 0]
    /\ archivos_abiertos = [p \in Pids |-> <<>>]
    /\ claves = {} /\ file_kernel = [open |-> FALSE, pcbs |-> <<>>]
    /\ liberado = FALSE /\ parametroChar = "" /\ parametroInt = Nadie
    /\ listos = Pids /\ ejecutando = Nadie /\ terminados = {}
    /\ mensajeFileSystem = "NADA" /\ avisoFS = FALSE
    /\ hiloFS = "espera" /\ enFS = Nadie /\ file_pcb = 0
    /\ indefinido = FALSE /\ atascada = FALSE
    /\ abiertos = [p \in Pids |-> {}] /\ ultima = <<>> /\ desviado = FALSE

Next ==
    \/ \E p \in Pids :
          \/ AbrirEspera(p) \/ AbrirCerrado(p) \/ AbrirNuevo(p)
          \/ CerrarUltimo(p) \/ CerrarYDespierta(p) \/ UsoIndefinido(p)
          \/ Posicionar(p) \/ PedirTransferencia(p)
          \/ UsarRecurso(p) \/ Ceder(p) \/ Terminar(p) \/ TerminarConError(p)
          \/ RecibeCopia(p) \/ Despacha(p)
    \/ FsAbre \/ FsToma \/ FsBusca \/ FsEnvia \/ FsResponde

Spec == Init /\ [][Next]_vars
FairSpec == Spec /\ WF_vars(Next)

-----------------------------------------------------------------------------
(* Properties. *)

EnCola == ToSet(file_kernel.pcbs)

\* Every process is in one place: ready, running, with the Filesystem, in the
\* queue of a file, or ended.
TypeOK ==
    /\ programa \in [Pids -> Programas]
    /\ \A p \in Pids :
          /\ program_counter[p] \in 0 .. Len(programa[p]) - 1
          /\ \A e \in ToSet(archivos_abiertos[p]) :
                e = Compartida \/ e.pointer \in Posiciones
    /\ claves \subseteq Archivos
    /\ parametroInt \in Pids \cup {Nadie}
    /\ hiloFS \in {"espera", "busca", "envia", "recibe"} /\ (hiloFS = "espera" <=> enFS = Nadie)
    /\ file_kernel.open \in BOOLEAN /\ IsInjective(file_kernel.pcbs)
    /\ Cardinality(listos) + Cardinality({ejecutando, enFS} \ {Nadie})
         + Cardinality(EnCola) + Cardinality(terminados) = Cardinality(Pids)
    /\ listos \cup ({ejecutando, enFS} \ {Nadie}) \cup EnCola \cup terminados = Pids

\* No two processes have the same file open: F_OPEN is an exclusive lock.
UnSoloDuenio == \A p, q \in Pids : p # q => abiertos[p] \cap abiertos[q] = {}

Locks == INSTANCE LocksDeArchivos WITH
    posicion <- [p \in Pids |-> [f \in Archivos |->
                   IF f \in abiertos[p]
                   THEN Contexto(p)[buscarFile(Contexto(p), f)].pointer ELSE 0]],
    conforme <- ~indefinido

\* While the programs use one file, and until the Kernel does something undefined,
\* F_OPEN is an exclusive lock, and a transfer is done where the last F_SEEK of
\* the process left the pointer, however often the process waited, was woken and
\* found the file taken again, or it is sent with what the request of another
\* process left in the globals.
ImplementaLocks == Locks!Spec

\* Who waits for a file gets it in the end, since programs close what they open,
\* unless something undefined comes first, or a request that is not the one that
\* was made.
EsperaAtendida ==
    \A p \in Pids : p \in EnCola ~> (abiertos[p] # {} \/ indefinido \/ desviado)
=============================================================================
