# Verification of TUKI (TP Sistemas Operativos 2023)

TUKI is five processes joined by TCP sockets: **Consola** sends a pseudo-program,
**Kernel** schedules it, **CPU** runs its instructions, **Memoria** keeps segments
and **Filesystem** keeps files.  This directory holds TLA+ models of that code, the
TLC configurations that check them and TLAPS proofs.  Line numbers are those of
`src/`; "document" is `src/T.U.K.I - v1.1.pdf`, cited by its page in the PDF.

## 1. Inventory

| component | state | operations | interacts by |
|---|---|---|---|
| Consola (`consola.c`) | program text | send the instructions, wait for `FINALIZED_PCB` | socket to Kernel |
| Kernel, `handlerConsola` (one thread per console) | its `semaforo` | `crearPcb`, push on `colaNew`, post `READY_PCB`, wait | `PCBNEW`, `MENSAJELARGOPLAZO`, `PLANILARGOPLAZO` |
| Kernel, `planificacionLargoPlazo` | `colaNew`, `listaExit`, `grado_programacion` | admit a process, free a finished one | mailboxes `mensajePlanificador` (in) and `mensajeAMemoria` (out) |
| Kernel, `planificacionFIFO` / `planificacionHRRN` | `listaReady`, `listaExec` | dispatch when nobody runs | `PCBENEJECUCION`, `PLANICORTOPLAZO`, `MENSAJEACPU` |
| Kernel, `conexionCPU` | `parametro*` globals, resources, open files | send the context, serve the request the CPU stops at | socket to CPU; `MENSAJEAMEMORIA`, `MENSAJEAFILESYSTEM` |
| Kernel, `conexionMemoria` | segment tables of the PCBs | start, create, delete, compact, finish | socket to Memoria, and the Filesystem's during a compaction |
| Kernel, `conexionFileSystem` | `listaBlock` | open/create, truncate, read, write | socket to Filesystem |
| Kernel, `handlerIO` (one thread per I/O) | its sleep time | sleep, back to Ready | global `parametroIO` under `IOPARAM` |
| Memoria (`memoria.c`) | memory area, free list, segments in use, table of every process | start/finish process, create/delete segment, compact, read, write | sockets to Kernel, CPU, Filesystem, one thread each |
| Filesystem (`filesystem.c`) | superblock, bitmap, FCBs, blocks file | open, create, truncate, read, write | sockets to Kernel and Memoria |
| CPU (`cpu.c`) | registers, context of the running process | fetch/decode/execute, MMU | sockets to Kernel and Memoria |
| shared | none | serialisation, handshake | library |

What makes it hard, and what correctness is for each part:

* **Kernel.**  Some ten threads share plain globals and lists.  The pthread mutexes
  are used as binary semaphores: locked by one thread and unlocked by another, or
  unlocked when free.  Only the order of those calls keeps two threads from serving
  the running process, from overwriting a mailbox, or from losing a wake-up.
  Correct: one owner of the running process, mailboxes never overwritten, every PCB
  in one place, the degree of multiprogramming conserved, no lost wake-up, every
  process ends.
* **Memoria.**  First/best/worst fit over a free list that is recomputed by some
  operations and not by others; compaction moves segments in table order.  Correct:
  segments disjoint and inside the area, the free list the complement of them,
  OUT_OF_MEMORY only when the space does not suffice, compaction keeps contents.
* **Kernel, files.**  A global table of open files whose entries, by mistake, are one
  struct; an F_OPEN that blocks is executed again.  Correct: one process at a time has
  a file, and a transfer is done where the last F_SEEK of its process says.
* **Filesystem.**  A file is one direct block and a block of pointers; truncation
  moves across that boundary; FCBs are saved in place; the bitmap is cleared at
  start-up.  Correct: no block in two files, the bitmap agrees with the pointers, what
  is written is read back and survives a restart, what is answered survives a crash.
* **CPU.**  The program counter and the registers of the process must be those it
  had when it left; every context that comes in goes back, once.
* **shared.**  What is serialised is what is read back.

## 2. Modules

| module | what it is |
|---|---|
| `KernelEstado` | constants, variables, initial state, mutexes as binary semaphores, `finalizarPcb` |
| `Planificadores` | `handlerConsola`, long-term and short-term schedulers, `handlerIO` |
| `HiloCPU`, `HiloMemoria`, `HiloFileSystem` | the three connection threads; CPU, Memoria and Filesystem as repliers |
| `Kernel` | the composition, fairness and properties |
| `CicloDeVida` | abstract specification: the five-state diagram with admission in order, bounded degree and one CPU |
| `MC_Kernel` | small instances: pseudo-programs of three or four Kernel requests |
| `Memoria` | the Memoria process: tables, search for a hole, compaction, reads and writes |
| `MemoriaVirtual` | abstract specification: segments with no addresses that hold what was written |
| `MC_Memoria` | small instances: eight or nine bytes, two processes |
| `ArchivosAbiertos` | the Kernel's table of open files and those of the processes: the file requests of `conexionCPU` and `conexionFileSystem` |
| `LocksDeArchivos` | abstract specification: exclusive files with a position |
| `BloquesFS` | bitmap, blocks file and block pointers of the Filesystem, as operators on one record |
| `FileSystem` | the Filesystem process: requests, FCB files, crash and start-up |
| `DirectorioPersistente` | abstract specification: sizes that survive once answered |
| `Contexto` | registers and the passage of a context through serialisation |
| `CicloCPU` | the CPU process: cycle, instructions, MMU, dialogue with the Kernel |
| `MaquinaPorProceso` | abstract specification: a machine for each process |
| `MC_Archivos`, `MC_FileSystem`, `MC_CPU` | small instances |
| `KernelProofs` | proofs: types, one owner of the running process, admissions |
| `KernelAvisosProofs` | proofs: mailboxes, wake-ups, the time of an I/O, the list of finished processes |
| `KernelLugaresProofs` | proofs: the place of every PCB, the permits of the degree, the segment tables; that `Kernel` implements `CicloDeVida` |
| `MemoriaProofs` | proofs about `Memoria`, and that it implements `MemoriaVirtual` |
| `BloquesFSProofs` | lemmas about the operators of `BloquesFS`: what a growth and a write leave |
| `FileSystemProofs` | proofs about `FileSystem`: types, blocks, bitmap, contents; that it implements `DirectorioPersistente` |
| `CicloCPUProofs` | proofs about `CicloCPU`, and that it implements `MaquinaPorProceso` |
| `ArchivosProofs` | proofs about `ArchivosAbiertos`, and that it implements `LocksDeArchivos` |

### How the Kernel's code maps to actions

A mutex is a boolean, TRUE when free (`libre`).  A step of a thread goes from one
call that may block to the next: it takes the mutex it waited for and does
everything up to the next blocking call.  Where a thread reads an unlocked global or
changes a list between two such calls, the step is split, so that the other threads
can interleave: the filesystem thread takes the process out of `listaExec`
(`FsToma`) before it builds the request from the `parametro*` globals (`FsEnvia`);
the scheduler wakes (`CpToma`) before it looks at the lists (`CpDespacha`); a
compaction updates the three lists in three steps.  `pc[h]` says where each
permanent thread stands; `consola[p]` and `io[p]` where the threads of one process
stand.  `pcb[h]` is the thread's local `pcb` pointer.

Data is abstracted to what the properties tell apart.  A PCB is its pid, its
program, its program counter and how up to date its segment table is (`tabla[p]`,
the number of compactions it reflects; -1 for the empty list of `crearPcb`).  The
arguments of a request are the pid of the process they belong to (`parametro`,
`parametroIO`).  A program is the sequence of its requests to the Kernel: SET,
MOV_IN and MOV_OUT stay inside the CPU.  ERR_* and unknown codes are one operation,
`"ERROR"`, since all their branches do the same.  HRRN may take any ready process:
the response ratios are computed from clock readings.  `parametro` and the segment
epochs are ghosts of data the code carries as strings and addresses.

Not modelled in these modules: F_OPEN, F_CLOSE and F_SEEK (see `ArchivosAbiertos`),
the text of messages, connection set-up, data races inside the commons lists (list
operations are atomic here), and logging after a wake-up.

### How Memoria's code maps to actions

The Kernel sends one request and waits, with the process that asked still in Exec,
so a handler is one action (`NewTablaSegmentos`, `CreaSegmento`/`NoCreaSegmento`,
`EliminarSegmento`, `EliminarProceso`); `compactarEspacios` takes one action per
segment moved.  `espacios`, `listaDisp` and `tablasDeSegmentos` are the variables of
that name.  They are not redundant: `eliminarProceso` updates the first and the
third only, and `moverEspacio` clears and sets `espacios` segment by segment.
`tablaSegmGlobal` is derived, because every handler that changes a table rebuilds
it.

`kernel` and `pedido` are the Kernel's side of the dialogue: `"libre"`, or what it is to
do about a CREATE_SEGMENT that got no segment.  `"compacta"` until the Filesystem answered
REQ_OP_MEMORIA, `"mueve"` during `compactarEspacios`, `"repite"` until the CPU has executed
the instruction again, `"expulsa"` until `finalizarPcb`.  The memory thread sends nothing else
in the first two and the last, and does in `"repite"` (`Atiende`): a process that ended before
may lose its table, or a new one get its own, between OK_COMPACTACION and the repeated
request.  `Termina` is `finalizarPcb`, and `listaExit` the processes that ended and have a
table still; their order is not kept, as any may be the one that is freed next.  Which
process runs is free (`Ejecutables`): one with a table (`TablaPropia` of `Kernel`), not ended,
and not the one whose transfer is under way (`OperacionTerminada`).  The ids are those the
document allows: not in use and not 0 (15).

`transferencia` is one F_READ or F_WRITE, as the Filesystem serves one at a time: the CPU
translates the address (`PideTransferencia`), the Kernel's thread of the Filesystem sends it
(`EnviaTransferencia`), and the Filesystem reads or writes there when it wants
(`TerminaTransferencia`).  A compaction waits for one that was sent (322) and for nothing
else, so one may start during the compaction or after it, with the old address.  The CPU
writes only while its process runs, so never while its CREATE_SEGMENT is being served.  Reads
are in `LeerEnMemoria`, and in the refinement: `contenido` is what a read would give.

A byte holds the segment that wrote it and the place in it; a byte no segment owns is
abstracted to `<<>>`.  `Buffers` bounds the segments that are written.  What `malloc` leaves
in `espacios` is any of `Basuras`.  The `memcpy` of a compaction (706) is undefined when its
regions overlap: it goes upwards (`Copia`) or downwards (`CopiaHaciaAbajo`), any time.
`conforme` is a history variable: FALSE once a copy of overlapping bytes went downwards, or a
compaction moved the segment of a transfer.  The refinement of `MemoriaVirtual` ends there;
nothing else does.
`listaDisp` is the set of the holes that the last `updateEspacios` found: the code lists
them by base and a search takes the first of the best, which is the one with the least
base (`Mejor`).
Addresses are those of the tables Memoria has; that the Kernel may give the CPU older
ones is `TablasAlDia` of `Kernel`.  Left out: the copies of the tables sent back, the delay,
and the uninitialised pointer that `escribirEnMemoria` writes for its log (242).

### How the file table maps to actions

`ArchivosAbiertos` has one action per branch of REQ_OPEN_FILE, REQ_CLOSE_FILE,
REQ_SEEK_FILE, of the three transfers, and of what `conexionFileSystem` does with them.
The locks are those of `HiloCPU` and `HiloFileSystem` and are not repeated: while a
request is served nobody else has the CPU thread.  A transfer takes the steps of the
filesystem thread: out of Exec (`FsToma`), the search of the entry (`FsBusca`), the request
(`FsEnvia`), the answer (`FsResponde`).  Between the first and the third another process may
run and write over `parametroChar`, `parametroInt` (whose request wrote `parametroInt1` and
`2` last) or `mensajeFileSystem`; a request that goes out with any of them changed is
`desviado`, and nothing is claimed of it: `ultima` is then empty, and so is that of
`LocksDeArchivos` (`Desvia`).  `file_kernel` is the one
`t_file_kernel` of line 643 (`open`, and the processes in its queue), `claves` the names
under which `tablaArchivosAbiertos` points at it, `liberado` whether line 752 freed it.
An entry of `archivos_abiertos` is either the process's own (name and pointer, as
deserialised from the CPU) or `Compartida`, the one `t_file_pcb` of line 644, whose name
is the buffer `parametroChar` that every request overwrites (688, 1548).  `Contexto(p)`
is the list as the CPU receives it and sends it back.  What follows an access to freed
memory, or through the NULL of a name that is not in the table, is undefined in C: the
action `UsoIndefinido` sets `indefinido`, nothing else is served, and the properties end
there.  A WAIT that finds its resource taken is a `Ceder`: the process is ready at once.

ERR_FILE_NOT_OPEN of F_CLOSE ends the process and the cycle of the CPU (`Terminar`); that of
F_SEEK, F_READ, F_WRITE and F_TRUNCATE ends the process and leaves the cycle running
(`TerminarConError`, cpu.c 443-474): the error is sent again and again (`atascada`).  The
first copy that is taken for the answer of the next process makes `finalizarPcb` look up a
mutex that is no longer in its dictionary (1452-1459), which is undefined (`RecibeCopia`).

### How the Filesystem's code maps to actions

A request is taken (`atiende`), served and answered (`responde`), as in
`atenderReqKernel`; the Kernel's side opens a file before it uses it and creates it
when told that it does not exist.  The unit is the word of four bytes.  `BloquesFS` has
one operator per function of the block layer, down to the position of the stream: a
failed `fseek` leaves it where it was, so a write with a bad index goes over the block
before, as in the code.  `truncarArchivo` takes three steps, because a crash between
them leaves different files: blocks and pointers in memory (`truncarBloques`), the size
and the `fopen "w"` of `config_save` (`actualizar_tam_archivo`), the text
(`guardarFCB`); `crearArchivo` takes two.  `Reinicio` may come at any step: it clears
the bitmap (623), loses the last word in the buffer of the stream (498), reads the FCBs
back, and does not start when one has no name.  A read past a heap block
(`punteros_de_bloques[i]` in 576) may give any of `HeapSinDefinir`; a `clean_bit` far from
the bitmap ends the process.  What `strcat` leaves in `data_leida` is right only when
`malloc` returned an empty string: both are in the set of outcomes.

`enRegla` is a history variable: TRUE while every operation was one that the code
serves in full (growth of an empty file with room in the block of pointers and for it;
writes that start in the first block and stay in the blocks of the file; no crash with a
pointer still in the buffer).  The properties are claimed of those histories, in any
interleaving of two files; the operations that leave it are in the model and in the
hazards.  `olvido` is "si" after a restart that found files with blocks, and
"reasigna" once a truncation came after it: `SinBloquesCompartidos`, `LoEscritoQueda`
and `LeeLoEscrito` end there, and `EscritoPersiste`, which does not, is violated.

### How the CPU's code maps to actions

One instruction is one step of `CicloCPU`: the CPU has one thread and works on a copy of
the context.  `Queda` is the end of an iteration of `ciclo_ejec`, `Envia` the five
`serializar_contexto...` with `enviar_pcb`, `Pide` a request that clears
`continuar_ejecucion`, `Falla` an error that may not.  `mmu` includes
`buscarSegmentoPorID`, with the -1 that it leaves in the table.  The uninitialised
`tabla` of 291 is either somewhere writable or the end of the process
(`PunterosSinIniciar`).  A program counter equal to the size of the program ends the
cycle without an answer (674); past it `list_get` returns NULL.  `Contexto` says what the
trip of a context through `shared.c` does: BX arrives in CX and DX (340-343).  `Envio`,
`Recibe`, `Servicio` are the Kernel (650-686): it takes the first answer in the socket for
that of the process it sent.  Cells are of four bytes, the smallest register.

`atascada` is a history variable: an instruction failed and the cycle went on with it
(ERR_INVALID_SEGMENT in 254, ERR_FILE_NOT_OPEN in 397 for all but F_CLOSE, and `mmu`'s
silent -1).  From then on the same answer is sent again for ever and the dialogue is
out of step; the properties end there.

## 3. Runs

| run | instance | checks |
|---|---|---|
| `kernel_seguridad` | 2 processes, degree 2, HRRN, one compaction, a file request | `DuenioUnico`, `BuzonesIntactos`, `TablaPropia`, `SinAvisoPerdido`, `IOConSuTiempo`, `OperacionTerminada`, no deadlock |
| `kernel_recursos` | 3 processes on one instance of a resource | `CadaPcbEnUnLugar` |
| `kernel_grado` | 3 consoles (2 at a time), degree 1, OUT_OF_MEMORY possible | `TypeOK`, `PermisosConservados`, `AvisosDeAlta`, `LiberaLoQueMemoriaSolto`, refinement of `CicloDeVida` |
| `kernel_vida` | 2 processes, degree 2, Memoria always has room, fair | `TodoProcesoTermina`, no deadlock |
| `memoria_asignacion` | 8 bytes, 2 processes with 2 ids, sizes 2 and 3, three algorithms, clean and dirty `espacios`, 3 segments at most, one of them written by the CPU and by transfers, fair | `TypeOK`, `SinSolapes`, `HuecosLibres`, refinement of `MemoriaVirtual`, `CompactarAlcanza`, no deadlock |
| `kernel_archivos` | 3 processes, one file, three sessions (one opens twice; two end with the error of a file that is not open, of F_CLOSE and of F_READ), fair | `TypeOK`, `EsperaAtendida`, refinement of `LocksDeArchivos` |
| `filesystem` | 2 files, 7 blocks of 3 words, sizes 0, 3, 7, 12 and 13, 2 truncations, 2 writes, 1 crash | `TypeOK`, `SinBloquesCompartidos`, `BitmapAlDia`, `LoEscritoQueda`, `LeeLoEscrito`, refinement of `DirectorioPersistente` |
| `cpu` | 2 processes with any of 12 programs, 4 registers, 8 cells, both outcomes of the wild pointer, fair | `TypeOK`, `UnContextoEnVuelo`, `SiempreResponde`, refinement of `MaquinaPorProceso` |

Runs that show what the code does against what the document or a comment says:

| run | shows |
|---|---|
| `kernel_mas_que_grado` | with more processes than the degree the Kernel stops for ever: `sem_wait` (1216) with `MENSAJELARGOPLAZO` taken, which `finalizarPcb` (1462) needs before its `sem_post` (1466) |
| `memoria_compactacion` | with up to 4 segments, a compaction moves one over another: `baseMenorCercana` (353) takes the last entry that ends before, not the nearest |
| `filesystem_persistencia` | after a restart the blocks of the files that were there are given to another, which overwrites them: `levantarBitmap` (623) clears the bitmap |
| `kernel_dos_archivos` | with two files in use, F_CLOSE of one lets a second process open the other: all entries are one `t_file_kernel` (643) |

Eight more instances are kept for a reader who wants the counterexample (`tlc -config X.cfg M`);
each ends in a violation of the property named:

| cfg, module | property | shows |
|---|---|---|
| `MC_CuentaRecursos`, `MC_Kernel` | `InstanciasCuentanBloqueados` | SIGNAL adds one twice while the count stays negative (kernel.c 884, 905) and wakes nobody; document, 14 |
| `MC_Tablas`, `MC_Kernel` | `TablasAlDia` | after a compaction a process in I/O goes back to the CPU with its old segment table (1471); document, 15 |
| `MC_SinEspacio`, `MC_Memoria` | `SinEspacioSoloSiFalta` | after a process ends, OUT_OF_MEMORY with the memory free: `eliminarProceso` (memoria.c 582) leaves `listaDisp` as it was; document, 25 |
| `MC_Argumentos`, `MC_Kernel` | `ParametrosPropios` | a file request is built from the globals after the process left `listaExec` (kernel.c 550): it carries the arguments of the process that ran next; document, 16 |
| `MC_SinMemoria`, `MC_Kernel` | `TodoProcesoTermina` | OUT_OF_MEMORY while another process is admitted: the memory thread, in `finalizarPcb` (kernel.c 296) with `CONEXIONMEMORIA`, waits for `MENSAJELARGOPLAZO` (1462), and the long-term scheduler, whose message holds it, for `CONEXIONMEMORIA` (1218); document, 13 |
| `MC_CompactaEnCurso`, `MC_Memoria` | `TransferenciaEnSuSegmento` | a transfer that is sent after REQ_OP_MEMORIA was answered (kernel.c 322) works on a segment while it is moved; document, 15 |
| `MC_CompactaSinFin`, `MC_Memoria` | `CompactarSiempreAlcanza` | with no segment left and the list of holes old (`eliminarProceso`, memoria.c 595), a request asks for a compaction that moves nothing, and is repeated for ever; document, 15 and 25 |
| `MC_SegFault`, `MC_CPU` | `SegFaultAvisado` | a displacement past the segment is not told to the Kernel (cpu.c 846), although "deberá devolverse el Contexto de Ejecución al Kernel para que este lo finalice con motivo de Error: Segmentation Fault"; document, 22 |

Met while modelling and not given a run of their own: resources are not released at exit
(1437-1469); the console is told before Memoria frees
the structures (1456, 1462).  In Memoria: one compaction may leave two holes, even with two
segments; `memcpy` moves regions that overlap (706); to
REQ_ELIMINAR_SEGMENTO the memory thread waits for a table also after an error (390), so that
a DELETE_SEGMENT of a segment that is not there stops the Kernel (`CicloCPU` and `Memoria`
leave that case out, as the document does: "No se solicitará nunca la eliminación del segmento 0
o de un segmento inexistente", 15).
In the Filesystem: a second growth of a file writes at index -1 or over an entry in use
(546), the block of pointers is not in the count of free blocks (135), a shrink frees
the entries 1..n of the list and not the last n (576), a size of the maximum overflows the
block of pointers, F_TRUNCATE beyond it is answered OK_ABRIR_ARCHIVO (116), a read past
the first block returns the bytes that follow it (219), and a write with the pointer
past the first block goes to the start of the second (311).  In the CPU: CX and DX never
survive a request (shared.c 340), an error that does not clear `continuar_ejecucion` is
sent for ever, and a program whose last instruction is not EXIT ends without an answer
(674).  A process that ends with a file open leaves those who wait for it waiting.

**Deadlock** is checked in `kernel_seguridad` and `kernel_vida`.  The other Kernel
runs say `CHECK_DEADLOCK FALSE` because the code really stops there: the double
count of SIGNAL leaves processes waiting (`kernel_recursos`), and degree 1 with
three consoles is the stop of `kernel_mas_que_grado` (`kernel_grado`), which looks
for the same in the end of a process.  Memoria never stops.  The other
models stop by themselves: all the programs of `kernel_archivos` end, a Filesystem with
an FCB without name does not start, and in `cpu` every process ends or the CPU is dead.

**Bounds.**  Two processes are enough for every pair of threads to interleave over
two PCBs, since each permanent thread serves one at a time; three are used where the
third matters (two waiting and one signalling; two consoles posting while a process
ends; admission order).  One compaction is enough to make a table stale.  Programs
have one request of each kind that hands the process to another thread.

In Memoria, `MaxSegmentos` 3 means that a compaction finds at most two segments, the
most for which the code keeps them apart: `memoria_compactacion` is the same model
with 4.  Two segments in either order, a hole before, between and after them, and a
request that fits in none of the holes already make two compactions in a row.  Eight
bytes hold segment 0, three segments and one byte more, or two and a hole where a third
does not fit until they are moved.  Writes go to one id of one process (`Buffers`): a
segment that is written moves past one that is not, over bytes of its own or of one that
was deleted, with a transfer for it before, during or after.

In the Filesystem, blocks of three words make every size class small: 3 is a full first
block, 7 takes two entries of the list, 12 is the maximum and 13 is refused; two files of
7 fill the seven blocks but one, so growth meets both a full bitmap and the missing
count of the block of pointers.  Two truncations and two writes let each file be
written, the other grow, and the first be read again, with a crash anywhere between;
`MaxTruncados`, `MaxEscrituras` and `MaxReinicios` are the bounds.  Words of text are
larger than any block number, as letters are.

In the CPU, two processes suffice for a context to be left in a socket, or a register in
the CPU, while another runs; the twelve programs have every instruction, both sides of
each check of the MMU, a register name that does not exist, a last instruction that is
not EXIT and one that is unknown.  `MaxAbiertos` 1 bounds the entries that a repeated
F_OPEN leaves; `MaxRespuestas` 2 bounds each socket, and is reached only once
`atascada` is TRUE.

In `ArchivosAbiertos`, three processes make one hold the file, one wait and a third
overtake the one that was woken; with a fourth nothing new can be in the queue's head.
One file, because with two the first property is violated (`kernel_dos_archivos`).

**Fairness** (`Equidad`): weak fairness of each thread, as the operating system
schedules them, and of the Filesystem at the other end of the socket.  Weak fairness
on a thread whose lock is contended is more than a mutex promises, but the mutexes
here are hand-offs with a single waiter but for `MENSAJELARGOPLAZO`,
`CONEXIONMEMORIA` and `PLANICORTOPLAZO`, and each is taken a bounded number of times
in an instance.  Nothing makes a console connect.
In Memoria, weak fairness of the compaction and the repeated request, and of the end of a
transfer: the Kernel waits for the one, the CPU executes the same instruction again, and the
Filesystem serves what it is sent.
In `CicloCPU`, weak fairness of the CPU, whose one thread never yields but to wait, and
of the Kernel's `recv`; not of the Kernel sending a context.  In `ArchivosAbiertos`,
weak fairness of the whole next-state relation only: some thread runs.  The programs are
finite, so this is enough for a waiter to be served however often it is overtaken, unless a
request is `desviado` or the Kernel does something undefined.

## 4. Proofs

Each proof rests on an inductive invariant; a theorem that states a property of a run
follows from it.  They hold for every value of the constants that the assumptions of the
modules allow: any number of processes, degree, set of resources (finite) and of
programs; any size of memory, of segments and of files.  Two modules need a hypothesis
besides, given below; a run shows the property violated without it.

Common to all: one lemma per thread or handler, one step per action and under it one
step per conjunct; frame lemmas (`Marco...`) serve the actions that leave a conjunct's
variables alone.  Where an argument would be by induction over data (the first element of
a list that satisfies a condition, the concatenation of lists), the proof takes the least
counterexample instead (`WFMin` over the naturals).

### Kernel

Four invariants, each on top of the one before, in three modules.

`KernelProofs`: `IInv == TypeOK /\ TestigoUnico /\ UnDuenio /\ AvisosDeAlta`.

* `TipoCorrecto`: `Spec => []TypeOK`.  Not only types: no NULL pcb enters a list, so
  no `queue_pop` or `list_remove` finds its list empty.
* `ExecConDuenioUnico`: `Spec => []DuenioUnico`.
* `NadieQuedaEnNew`: `Spec => []AvisosDeAlta`.

No part is inductive alone.  That a list popped is not empty needs the owner of the
running process (`UnDuenio`, `DuenioUnico` with its four places spelled out) and, for
`colaNew`, the count of `AvisosDeAlta`; the owner is kept only because the mailbox to the
memory thread is in one place (`TestigoUnico`).

`KernelAvisosProofs`:
`AInv == IInv /\ Citas /\ ExitContada /\ CabezaSuelta /\ IOInv /\ SinAvisoPerdido`.

* `BuzonesSinPisar`: `Spec => []BuzonesIntactos`.  `Citas`: the long-term scheduler waits
  exactly while the memory thread has its message.
* `CadaIOConSuTiempo`: `Spec => []IOConSuTiempo`, with `IOPARAM` in `IOInv`.
* `NingunAvisoSePierde`: `Spec => []SinAvisoPerdido`, inductive by itself over `IInv`.
* `LiberaDespuesDeMemoria`: `Spec => []LiberaLoQueMemoriaSolto`.  `ExitContada`: each
  process in `listaExit` has one FINALIZED_PCB on its way; `CabezaSuelta`: the head stays
  the process whose table Memoria dropped until it is freed.

`KernelLugaresProofs`:
`LInv == AInv /\ CadaPcbEnUnLugar /\ PorDormir /\ AltaDeLaCabeza /\ ExitNotificados /\
TablaPropia /\ PermisosEnPoder`.

* `CadaUnoEnSuLugar`: `Spec => []CadaPcbEnUnLugar`.  Each step of each thread is one
  `Movimiento`: it moves one process from one place to another or none.
* `TablaDeCadaUno`: `Spec => []TablaPropia`.  Memoria is asked for a table for the head
  of `colaNew` and answers before that head is admitted (`AltaDeLaCabeza`).
* `PermisosNoSePierden`: `Spec => []PermisosConservados`, and `NuncaMasQueElGrado`:
  never more than the degree are admitted.  A process holds its permit until its
  console is notified (`ExitNotificados`).

And, at its end, `CicloInv == LInv /\ OrdenDeLlegada`, the order of `colaNew`.

* `CicloImplementado`: `Spec => ImplementaCiclo`, the refinement of `CicloDeVida`.

For the socket of the Filesystem, `LInv /\ EnSocket`: requests and answers in it are as many
as threads wait for one, a request of a process is that of the filesystem thread, whose
process is in `listaBlock`, and that thread goes on before its answer only by taking the one of
the memory thread, which then waits for the other with the running process in its charge.

* `NadieSigueSinSuOperacion`: `Spec => []OperacionTerminada`.

### Memoria

`MInv == Tipos /\ DeTablas(tablasDeSegmentos) /\ Marcados(...) /\ Huecos(...) /\ Pendiente /\
listaExit \subseteq procesos /\ EnCurso(...)`: pids and ids do not repeat and segment 0 is
first; segments are apart; `espacios` has every byte of a segment; every hole is apart from
every segment; while the Kernel has a request to repeat, it is for a segment that is not there;
and a transfer is of a process that has not ended and, while `conforme`, of a segment that is
there with the base and the size that were sent.  Why it is needed: `listaDisp`
is rebuilt from `espacios`, not from the tables, and `eliminarProceso` leaves it old, so
`HuecosLibres` rests on the bytes marked; `updateEspacios` does not look at the last
byte, which is harmless only because no segment and no hole starts there (`EnMemoria`).

The hypothesis is `PocosAlMover == kernel = "mueve" => Cardinality(Vivos) <= 2`.  With
two segments what `baseMenorCercana` finds, the end of segment 0 or of the other one
(`Destino`), cannot overlap it; with three it can (`memoria_compactacion`).

* `TiposDeMemoria`, `SegmentosSinSolapes`, `HuecosSiempreLibres`:
  `Spec /\ []PocosAlMover => []P` with `P` `TypeOK`, `SinSolapes`, `HuecosLibres`.
* `ImplementaSegmentos`: `Spec /\ []PocosAlMover => ImplementaVirtual`: a write is read
  back at any address, across any number of compactions, until `conforme` is FALSE.
* `ConTresSegmentos`: with `MaxSegmentos <= 3`, the bound of the run, the four of
  them of `Spec` alone: `Pendiente` leaves one place for the request, so
  `PocosAlMover` is true.

### Filesystem

Three invariants.  The first two hold in and out of `enRegla`.

`DInv == Formas /\ Atendido /\ PorCrear /\ Guardado /\ EnCursoInv`: memory and disk agree
on every file but the one being saved, which has no text on disk.

* `DirectorioInductivo`: `Spec => []DInv`.
* `DirectorioImplementado`: `Spec => ImplementaDirectorio`: a size that was answered is
  the one a restart reads, wherever the process ends.

`TInv == Dispositivo /\ FCBsBien /\ Pedidos /\ ContenidoBien`: the shape of the bitmap, of
the file of blocks and of the FCBs, the checks a request passed before it changed
anything, and that what was written is a sequence of words.

* `TiposDelFileSystem`: `Spec => []TypeOK`.

`Regla` is `enRegla => ...`, over the blocks of each file in order (`Bloque(a, k)`, the
direct one, those of the list, the block of pointers; the size is the one under way while
a truncation is between its steps):

* `Medidos`, `CreceDeVacio`, `Cabe`: every file fits in its block of pointers, a growth is
  of an empty file, and nothing was written past its blocks.  They give each word written
  a block of the file (`ElLugar`).
* `FCBEnDisco`: the FCB on disk of a file with blocks is the one in memory, pointers
  included, so a restart changes no block.
* `Distintos`, until `olvido = "reasigna"`: the blocks exist and are different.
* `AlDia`, while `olvido = "no"`: the bitmap marks them and no other, and
  `bloques_libres` agrees.
* `Escritos`, until `olvido = "reasigna"`: they hold what was written.

None is inductive alone.  A new block is different from the others because the bitmap
was up to date when it was taken (`CreceBien`); the bitmap is the blocks of the files
only if the pointers they are read from were not overwritten, so a write must fall in
blocks of data of its own file (`EscribeArchivoChico`, `EscribeArchivoGrande`, from
`Distintos`); and the contents stay because a growth writes only in its new block of
pointers.  A growth needs `AlDia`, which a restart ends; what it leaves to `Distintos`
and `Escritos` is that they hold as long as no truncation follows.  That is what
`olvido` remembers, and it stays "reasigna" through further restarts: the bitmap
that each one clears does not undo the sharing.

* `ReglaInvariante`: `Spec => [](TInv /\ DInv /\ Regla)`.
* `NingunBloqueCompartido`, `ElBitmapCuadra`, `LasEscriturasQuedan`, `SeLeeLoEscrito`:
  `Spec => []P` with `P` `SinBloquesCompartidos`, `BitmapAlDia`, `LoEscritoQueda`,
  `LeeLoEscrito`.

The loops of the block layer are recursive functions over the turn (`Bucle`,
`BloquesFS`).  Their equations, and that each turn keeps what the ones before did
(distinct blocks taken, words written in their place), hold by the least turn at which
they would fail.

It rests on `BloquesAssumption` and on `FileSystemAssumption`: sizes and positions are
natural numbers, lengths are not zero, and a word of text (four characters) is an
integer.  The theorems do not use the rest of it, that such a word is too large to be the
number of a block: it only says what becomes of a text written over a block of pointers.

### CPU

`CInv == Formas /\ UnaVuelta`: contexts keep the widths of their registers and a table
within memory; what goes round is one context, that of the process the Kernel sent, and
the Kernel keeps each context with its process.

* `ContextosSanos`: `Spec => []TypeOK`, with `atascada` or without.
* `UnSoloContextoViaja`: `Spec => []UnContextoEnVuelo`.

The refinement needs more, until `atascada`: `MaqInv == ~atascada => EnViaje /\ Fieles /\
Tablas /\ Apartados`, which TLC also checked.  The Kernel's copy of a context and the one on
its way have the same program and table (`EnViaje`); an answer is of the instruction its
context stopped at (`Fieles`); segment 0 is first in a table, no id is there twice and each
was created by an instruction already executed (`Tablas`); the segments of two entries, of
one process or of two, are apart, and only segment 0 is shared (`Apartados`).  Each step is then
one of the machine of one process (`ConPaso`) or none (`SinPaso`): most requests advance
the machine when the Kernel attends the answer, SET, MOV_IN and MOV_OUT when the CPU runs
them.

* `UnaMaquinaPorProceso`: `Spec => ImplementaMaquina`.

It rests on `SegmentosAssumption`: no program creates a segment with id 0 nor one that it has
already created and not deleted, as the document says of the programs it will run ("No se solicitará la
creación de un segmento de un Id inválido", "... ya creado"; page 15).  `crearSegmento`
checks neither (memoria.c 497), and a table with an id twice has two segments that `mmu`
takes for one.  Sizes and logical addresses are not negative.

### Open files

`ArchInv == Formas /\ EnUnLugar /\ Sesiones /\ Cerrojo /\ (\A p \in Pids : Tabla(p)) /\
Pedido /\ EnTransferencia`: a process has the file open exactly where its program has;
of the entries that repeated F_OPENs leave, only the first has a pointer; a request that waits
for the filesystem thread is of a file that the running process has open (`Pedido`); and the
process in transfer has its file open, entries of its own, and an entry found by some
name (`EnTransferencia`), so that what is sent is of that entry if the name was its own.  `Sesiones` is
what the assumption on programs is for: a program that uses a file opened it, and does
not open it twice.

The hypothesis is `UnSoloArchivo`, one name of file (`kernel_dos_archivos` violates the
property with two).

* `CadaProcesoEnUnLugar`: `Spec => []TypeOK`.
* `AperturaExclusiva`: never two processes with the file open.
* `LocksImplementados`: `Spec => ImplementaLocks`, the refinement of `LocksDeArchivos`, until
  `indefinido`; a request that is `desviado` is a step of it that says nothing.

### Only model-checked

* Liveness (`TodoProcesoTermina`, `CompactarAlcanza`, `EsperaAtendida`,
  `SiempreResponde`) and ENABLED, which are out of TLAPS's reach.
* What the operators of `BloquesFS` and `Contexto` return for every input, the reads
  through the list of pointers among them: the theorems need, and their lemmas state, only
  what growth, the writes and the reads of the first block do to a file in `enRegla`.
* The runs that expect a violation, which have no theorem to state.

Every safety invariant, action property and refinement of a passing run is stated by a
theorem.

## 5. Plan

Left to model, in order of importance:

1. **Composition** of `Kernel` with `Memoria` and `FileSystem`: more than one transfer
   waiting, stale tables by address.  (`Memoria` has the window between REQ_OP_MEMORIA and
   the compaction, with one transfer.)
2. `Planificadores`: the estimate of HRRN (1391) and the race of two `list_add` (1153).

Left to prove: nothing that the runs check and TLAPS can state.  The composition above
would need its own invariant, with `MInv` and `Regla` as the parts of each process.

## 6. Not modelled

* `shared/src/servidor.c`, `cliente.c`: set-up of sockets and a one-word handshake.
* `consola.c`: parsing of the pseudo-code file; a console is its program and its wait.
* The bytes of messages (`shared.c`): lengths and order of fields, strings copied without
  a terminator, `realloc` whose result is dropped (315).  They are undefined behaviour
  of the encoding, not of the protocol, and no property here is about them.
* Configuration files, logs, delays and the tests of each `main`.
* A crash of the Filesystem within a write: `escribirArchivo` is one step, so the state between
  the words of the first block (292) and those of the list (293, 315) on disk is not there.
* `mensajeFileSystem` as a mailbox: `BuzonesIntactos` is of `mensajeAMemoria` and
  `mensajePlanificador`.  It is read again when the request is built (550) and is then
  part of what `MC_Argumentos` and `desviado` are about.
* The response ratio of HRRN, computed from clock readings: any ready process may run.
