--------------------------- MODULE ArchivosProofs ---------------------------
(***************************************************************************)
(* While the programs use one file, F_OPEN is an exclusive lock and every  *)
(* transfer is done where the process left the pointer, or its request     *)
(* went out with what another one left in the globals.  With two files     *)
(* neither is so, since there is one t_file_kernel (kernel_dos_archivos).  *)
(***************************************************************************)
EXTENDS ArchivosAbiertos, TLAPS, WellFoundedInduction, SequenceTheorems, FiniteSetTheorems

\* The hypothesis of the theorems.
UnSoloArchivo == \A f, g \in Archivos : f = g

-----------------------------------------------------------------------------
(* The inductive invariant. *)

Sesion(pr) == CHOOSE abierta \in [1 .. Len(pr) -> BOOLEAN] : EsSesion(pr, abierta)
TieneArchivo(p) == Sesion(programa[p])[program_counter[p] + 1]

Propias == [filename : Nombres, pointer : Posiciones]
Entradas == Propias \cup {Compartida}

Formas ==
    /\ programa \in [Pids -> Programas] /\ program_counter \in [Pids -> Nat]
    /\ \A p \in Pids : program_counter[p] < Len(programa[p])
    /\ archivos_abiertos \in [Pids -> Seq(Entradas)]
    /\ parametroChar \in Nombres /\ parametroInt \in Pids \cup {Nadie}
    /\ claves \subseteq Archivos
    /\ file_kernel \in [open : BOOLEAN, pcbs : Seq(Pids)]
    /\ mensajeFileSystem \in {"NADA", "REQ_ABRIR_ARCHIVO"} \cup Transferencias
    /\ abiertos \in [Pids -> SUBSET Archivos]

EnUnLugar ==
    /\ listos \subseteq Pids /\ terminados \subseteq Pids
    /\ ejecutando \in Pids \cup {Nadie} /\ enFS \in Pids \cup {Nadie}
    /\ \A i, j \in 1 .. Len(file_kernel.pcbs) :
          file_kernel.pcbs[i] = file_kernel.pcbs[j] => i = j
    /\ listos \cap terminados = {} /\ EnCola \cap listos = {} /\ EnCola \cap terminados = {}
    /\ ejecutando \notin listos \cup terminados \cup EnCola
    /\ enFS \notin listos \cup terminados \cup EnCola
    /\ enFS # Nadie => ejecutando # enFS
    /\ Pids \subseteq listos \cup terminados \cup EnCola \cup {ejecutando, enFS}

\* a process has open what its program has open there
Sesiones == \A p \in Pids : abiertos[p] = IF TieneArchivo(p) THEN Archivos ELSE {}

Cerrojo ==
    /\ file_kernel.open <=> \E p \in Pids : abiertos[p] # {}
    /\ \A p, q \in Pids : abiertos[p] # {} /\ abiertos[q] # {} => p = q
    /\ claves = {} => ~file_kernel.open /\ file_kernel.pcbs = <<>>
    /\ liberado => claves = {}

SoloApunta(s, k) == \A i \in 1 .. Len(s) : i # k => s[i].pointer = 0

\* The shared entry has the name of the file while it matters; of all the entries
\* that a process left when it waited, only the first has a pointer, while the file
\* is open.
Tabla(p) ==
    /\ \A i \in 1 .. Len(archivos_abiertos[p]) :
          archivos_abiertos[p][i] = Compartida =>
             abiertos[p] = {} \/ (ejecutando = p /\ parametroChar \in Archivos)
    /\ abiertos[p] = {} => SoloApunta(archivos_abiertos[p], 0)
    /\ \A f \in abiertos[p] :
          /\ buscarFile(Contexto(p), f) # 0
          /\ SoloApunta(archivos_abiertos[p], buscarFile(Contexto(p), f))

\* the request that waits for conexionFileSystem is of a file that its process has open
Pedido ==
    avisoFS /\ mensajeFileSystem \in Transferencias =>
      /\ ejecutando # Nadie
      /\ Instr(ejecutando).op = mensajeFileSystem
      /\ Instr(ejecutando).arch = parametroChar
      /\ abiertos[ejecutando] # {}
      /\ \A i \in 1 .. Len(archivos_abiertos[ejecutando]) :
            archivos_abiertos[ejecutando][i] # Compartida

\* The process in transfer has its file open and a table of own entries; the entry
\* found for it is the first of the name that parametroChar had, whoever wrote it.
EnTransferencia ==
    /\ hiloFS \in {"espera", "busca", "envia", "recibe"}
    /\ hiloFS = "espera" <=> enFS = Nadie
    /\ enFS # Nadie =>
          /\ Instr(enFS).op \in Transferencias /\ abiertos[enFS] # {}
          /\ \A i \in 1 .. Len(archivos_abiertos[enFS]) :
                archivos_abiertos[enFS][i] # Compartida
    /\ hiloFS = "envia" /\ Instr(enFS).op # "F_TRUNCATE" /\ ~indefinido =>
          /\ file_pcb # 0
          /\ \E g \in Nombres : file_pcb = buscarFile(archivos_abiertos[enFS], g)

ArchInv ==
    /\ Formas /\ EnUnLugar /\ Sesiones /\ Cerrojo
    /\ \A p \in Pids : Tabla(p)
    /\ Pedido /\ EnTransferencia

-----------------------------------------------------------------------------
(* Lists of entries. *)

\* A set of naturals that is not empty has a least element.
LEMMA MinimoNatural == \A T \in SUBSET Nat : T # {} => \E m \in T : \A k \in T : m <= k
<1> SUFFICES ASSUME NEW T \in SUBSET Nat, T # {}
             PROVE  \E m \in T : \A k \in T : m <= k
   OBVIOUS
<1>1. PICK m \in T : \A k \in T : ~(<<k, m>> \in OpToRel(<, Nat))
   BY NatLessThanWellFounded, WFMin
<1>2. \A k \in T : ~(k < m) BY <1>1 DEF OpToRel
<1> QED BY <1>2

\* list_find: the first entry of the name, or 0.
LEMMA PrimeraEntrada ==
    ASSUME NEW S, NEW s \in Seq(S), NEW f
    PROVE  /\ buscarFile(s, f) \in 0 .. Len(s)
           /\ buscarFile(s, f) # 0 => s[buscarFile(s, f)].filename = f
           /\ \A i \in 1 .. Len(s) :
                 s[i].filename = f => buscarFile(s, f) # 0 /\ buscarFile(s, f) <= i
<1>1. PICK I : I = {i \in 1 .. Len(s) : s[i].filename = f} OBVIOUS
<1>2. buscarFile(s, f) = IF I # {} THEN Min(I) ELSE 0 BY <1>1 DEF buscarFile, SelectInSeq
<1>3. CASE I = {} BY <1>1, <1>2, <1>3
<1>4. CASE I # {}
   <2>1. I \in SUBSET Nat BY <1>1
   <2>2. PICK m : m = Min(I) OBVIOUS
   <2>3. m \in I /\ \A k \in I : m <= k BY <1>4, <2>1, <2>2, MinimoNatural DEF Min
   <2>4. buscarFile(s, f) = m BY <1>2, <1>4, <2>2
   <2>5. /\ m \in 1 .. Len(s) /\ s[m].filename = f
         /\ \A i \in 1 .. Len(s) : s[i].filename = f => m <= i
      BY <1>1, <2>3
   <2> QED BY <2>4, <2>5
<1> QED BY <1>3, <1>4

\* The search looks at the names only.
LEMMA MismosNombres ==
    ASSUME NEW S, NEW s \in Seq(S), NEW t \in Seq(S), Len(s) = Len(t),
           \A i \in 1 .. Len(s) : s[i].filename = t[i].filename, NEW f
    PROVE  buscarFile(s, f) = buscarFile(t, f)
<1>1. {i \in 1 .. Len(s) : s[i].filename = f} = {i \in 1 .. Len(t) : t[i].filename = f} OBVIOUS
<1> QED BY <1>1 DEF buscarFile, SelectInSeq

LEMMA QuitarUna ==
    ASSUME NEW S, NEW t \in Seq(S), NEW k \in 1 .. Len(t)
    PROVE  /\ RemoveAt(t, k) \in Seq(S)
           /\ \A i \in 1 .. Len(RemoveAt(t, k)) :
                 \E j \in 1 .. Len(t) : j # k /\ RemoveAt(t, k)[i] = t[j]
<1>1. PICK a, b : a = SubSeq(t, 1, k - 1) /\ b = SubSeq(t, k + 1, Len(t)) OBVIOUS
<1>2. a \in Seq(S) /\ Len(a) = k - 1 /\ \A i \in 1 .. k - 1 : a[i] = t[i] BY <1>1
<1>3. b \in Seq(S) /\ Len(b) = Len(t) - k /\ \A i \in 1 .. Len(t) - k : b[i] = t[k + i] BY <1>1
<1>4. PICK u : u = a \o b OBVIOUS
<1>5. /\ u \in Seq(S) /\ Len(u) = Len(t) - 1
      /\ \A i \in 1 .. Len(u) : u[i] = IF i <= k - 1 THEN a[i] ELSE b[i - (k - 1)]
   <2>1. /\ u \in Seq(S) /\ Len(u) = Len(a) + Len(b)
         /\ \A i \in 1 .. Len(a) + Len(b) : u[i] = IF i <= Len(a) THEN a[i] ELSE b[i - Len(a)]
      BY <1>2, <1>3, <1>4, ConcatProperties
   <2>2. Len(a) + Len(b) = Len(t) - 1 BY <1>2, <1>3
   <2> QED BY <1>2, <2>1, <2>2
<1>6. \A i \in 1 .. Len(u) : \E j \in 1 .. Len(t) : j # k /\ u[i] = t[j]
   <2> SUFFICES ASSUME NEW i \in 1 .. Len(u)
                PROVE  \E j \in 1 .. Len(t) : j # k /\ u[i] = t[j]
      OBVIOUS
   <2>1. CASE i <= k - 1
      <3>1. i \in 1 .. k - 1 /\ i \in 1 .. Len(t) /\ i # k BY <2>1
      <3> QED BY <1>2, <1>5, <2>1, <3>1
   <2>2. CASE ~(i <= k - 1)
      <3>1. /\ i - (k - 1) \in 1 .. Len(t) - k
            /\ k + (i - (k - 1)) \in 1 .. Len(t) /\ k + (i - (k - 1)) # k
         BY <1>5, <2>2
      <3> QED BY <1>3, <1>5, <2>2, <3>1
   <2> QED BY <2>1, <2>2
<1> QED BY <1>1, <1>4, <1>5, <1>6 DEF RemoveAt

\* What the CPU is sent: own entries, with the pointers of the table.
LEMMA ContextoPropio ==
    ASSUME Formas, NEW p \in Pids
    PROVE  /\ Contexto(p) \in Seq(Propias) /\ Contexto(p) \in Seq(Entradas)
           /\ Len(Contexto(p)) = Len(archivos_abiertos[p])
           /\ \A i \in 1 .. Len(Contexto(p)) :
                 /\ Contexto(p)[i].pointer = archivos_abiertos[p][i].pointer
                 /\ Contexto(p)[i].filename =
                       IF archivos_abiertos[p][i] = Compartida THEN parametroChar
                       ELSE archivos_abiertos[p][i].filename
                 /\ archivos_abiertos[p][i] # Compartida => Contexto(p)[i] = archivos_abiertos[p][i]
                 /\ Contexto(p)[i] # Compartida
<1>1. PICK s \in Seq(Entradas) : s = archivos_abiertos[p] BY DEF Formas
<1>2. PICK c : c = Contexto(p) OBVIOUS
<1>3. c = [i \in 1 .. Len(s) |-> IF s[i] = Compartida THEN Propia(parametroChar, 0) ELSE s[i]]
   BY <1>1, <1>2 DEF Contexto
<1>4. Propia(parametroChar, 0) \in Propias
   BY ArchivosAssumption DEF Formas, Propia, Propias
<1>5. \A i \in 1 .. Len(s) : s[i] \in Propias \/ s[i] = Compartida BY <1>1 DEF Entradas
<1>6. Len(s) \in Nat BY <1>1
<1>7. \A i \in 1 .. Len(s) : c[i] \in Propias BY <1>3, <1>4, <1>5
<1>8. c \in Seq(Propias) /\ Len(c) = Len(s) BY <1>3, <1>6, <1>7
<1>9. c \in Seq(Entradas) BY <1>8 DEF Entradas
<1>10. Compartida \notin Propias BY ProgramasAssumption DEF Compartida, Propias
<1>11. Compartida.pointer = 0 /\ Propia(parametroChar, 0).pointer = 0
       /\ Propia(parametroChar, 0).filename = parametroChar
   BY DEF Compartida, Propia
<1>12. \A i \in 1 .. Len(c) :
         /\ c[i].pointer = s[i].pointer
         /\ c[i].filename = IF s[i] = Compartida THEN parametroChar ELSE s[i].filename
         /\ s[i] # Compartida => c[i] = s[i]
         /\ c[i] # Compartida
   BY <1>3, <1>7, <1>8, <1>10, <1>11
<1> QED BY <1>1, <1>2, <1>8, <1>9, <1>12

-----------------------------------------------------------------------------
(* The programs. *)

\* p has an instruction after this one, and before it has its file open, or not
Sigue(p, b) ==
    /\ program_counter[p] + 1 < Len(programa[p])
    /\ Sesion(programa[p])[program_counter[p] + 2] = b

LEMMA LaInstruccion ==
    ASSUME ArchInv, UnSoloArchivo, NEW p \in Pids
    PROVE  /\ Instr(p).op = "F_OPEN" =>
                 Instr(p).arch \in Archivos /\ abiertos[p] = {} /\ Sigue(p, TRUE)
           /\ Instr(p).op \in {"WAIT", "SIGNAL"} => Instr(p).arch \in Nombres
           /\ Instr(p).op \in {"WAIT", "SIGNAL", "YIELD", "I_O"} => Sigue(p, TieneArchivo(p))
           /\ Instr(p).op \in OpsDeArchivo /\ abiertos[p] # {} =>
                 /\ Archivos = {Instr(p).arch} /\ abiertos[p] = {Instr(p).arch}
                 /\ TieneArchivo(p) /\ Sigue(p, Instr(p).op # "F_CLOSE")
           /\ Instr(p).op \in OpsDeArchivo /\ abiertos[p] = {} => Instr(p).arch \notin Nombres
           /\ Instr(p).op = "F_SEEK" => Instr(p).pos \in Posiciones
<1>1. PICK pr \in Programas : pr = programa[p] BY DEF ArchInv, Formas
<1>2. PICK k : k = program_counter[p] + 1 OBVIOUS
<1>3. PICK abierta : abierta = Sesion(pr) OBVIOUS
<1>4. /\ Len(pr) \in Nat /\ DOMAIN pr = 1 .. Len(pr) /\ EsSesion(pr, abierta)
   BY <1>3, ProgramasAssumption DEF Sesion
<1>5. k \in DOMAIN pr /\ program_counter[p] \in Nat BY <1>1, <1>2, <1>4 DEF ArchInv, Formas
<1>6. Instr(p) = pr[k] BY <1>1, <1>2 DEF Instr
<1>7. TieneArchivo(p) = abierta[k] BY <1>1, <1>2, <1>3 DEF TieneArchivo
<1>8. abiertos[p] = IF abierta[k] THEN Archivos ELSE {} BY <1>7 DEF ArchInv, Sesiones
<1>9. \A b : k < Len(pr) /\ abierta[k + 1] = b => Sigue(p, b)
   BY <1>1, <1>2, <1>3, <1>5 DEF Sigue
<1>10. /\ pr[k].op \in {"F_OPEN", "WAIT", "SIGNAL", "YIELD", "I_O"} => k < Len(pr)
       /\ pr[k].op = "F_OPEN" => pr[k].arch \in Archivos /\ ~abierta[k] /\ abierta[k + 1]
       /\ pr[k].op \in {"WAIT", "SIGNAL", "YIELD", "I_O"} => abierta[k + 1] = abierta[k]
       /\ pr[k].op \in OpsDeArchivo =>
             IF abierta[k]
             THEN pr[k].arch \in Archivos /\ k < Len(pr) /\ abierta[k + 1] = (pr[k].op # "F_CLOSE")
             ELSE pr[k].arch \notin Nombres
       /\ pr[k].op = "F_SEEK" => pr[k].pos \in Posiciones
   BY <1>4, <1>5 DEF EsSesion
<1>11. abierta \in [1 .. Len(pr) -> BOOLEAN] BY <1>3, ProgramasAssumption DEF Sesion
<1>12. pr[k].op \in {"WAIT", "SIGNAL"} => pr[k].arch \in Nombres
   <2> SUFFICES ASSUME pr[k].op \in {"WAIT", "SIGNAL"} PROVE pr[k].arch \in Nombres OBVIOUS
   <2>1. PICK suyos : suyos = {pr[j].arch : j \in {j \in DOMAIN pr : pr[j].op \in {"WAIT", "SIGNAL"}}}
      OBVIOUS
   <2>2. pr[k].arch \in suyos BY <1>5, <2>1
   <2>3. suyos \in {{r[j].arch : j \in {i \in DOMAIN r : r[i].op \in {"WAIT", "SIGNAL"}}} :
                       r \in Programas}
      BY <2>1
   <2> QED BY <2>2, <2>3 DEF Nombres
<1>13. pr[k].op = "F_OPEN" => pr[k].arch \in Archivos /\ abiertos[p] = {} /\ Sigue(p, TRUE)
   <2> SUFFICES ASSUME pr[k].op = "F_OPEN"
                PROVE  pr[k].arch \in Archivos /\ abiertos[p] = {} /\ Sigue(p, TRUE)
      OBVIOUS
   <2>1. k < Len(pr) /\ k + 1 \in 1 .. Len(pr) BY <1>2, <1>4, <1>5, <1>10
   <2>2. abierta[k + 1] = TRUE BY <1>10, <1>11, <2>1
   <2> QED BY <1>8, <1>9, <1>10, <2>1, <2>2
<1>14. pr[k].op \in OpsDeArchivo /\ abiertos[p] # {} =>
          /\ Archivos = {pr[k].arch} /\ abiertos[p] = {pr[k].arch}
          /\ abierta[k] /\ Sigue(p, pr[k].op # "F_CLOSE")
   <2> SUFFICES ASSUME pr[k].op \in OpsDeArchivo, abiertos[p] # {}
                PROVE  /\ Archivos = {pr[k].arch} /\ abiertos[p] = {pr[k].arch}
                       /\ abierta[k] /\ Sigue(p, pr[k].op # "F_CLOSE")
      OBVIOUS
   <2>1. abierta[k] /\ pr[k].arch \in Archivos BY <1>8, <1>10
   <2>2. Archivos = {pr[k].arch} BY <2>1 DEF UnSoloArchivo
   <2>3. Sigue(p, pr[k].op # "F_CLOSE") BY <1>9, <1>10, <2>1
   <2> QED BY <1>8, <2>1, <2>2, <2>3
<1>15. pr[k].op \in OpsDeArchivo /\ abiertos[p] = {} => pr[k].arch \notin Nombres
   BY <1>8, <1>10
<1>16. pr[k].op \in {"WAIT", "SIGNAL", "YIELD", "I_O"} => Sigue(p, abierta[k])
   BY <1>9, <1>10
<1> QED BY <1>6, <1>7, <1>10, <1>12, <1>13, <1>14, <1>15, <1>16

\* The next instruction, and what is open before it.
LEMMA AlAvanzar ==
    ASSUME Formas, NEW p \in Pids, NEW b, Sigue(p, b), Avanza(p), UNCHANGED programa
    PROVE  /\ program_counter' \in [Pids -> Nat]
           /\ \A q \in Pids : program_counter'[q] < Len(programa'[q])
           /\ TieneArchivo(p)' = b
           /\ \A q \in Pids : q # p => TieneArchivo(q)' = TieneArchivo(q) /\ Instr(q)' = Instr(q)
<1>1. program_counter' = [program_counter EXCEPT ![p] = program_counter[p] + 1] BY DEF Avanza
<1>2. program_counter \in [Pids -> Nat] BY DEF Formas
<1>3. /\ program_counter' \in [Pids -> Nat] /\ program_counter'[p] = program_counter[p] + 1
      /\ \A q \in Pids : q # p => program_counter'[q] = program_counter[q]
   BY <1>1, <1>2
<1>4. \A q \in Pids : program_counter'[q] < Len(programa'[q])
   BY <1>3 DEF Formas, Sigue
<1>5. TieneArchivo(p)' = b
   <2>1. TieneArchivo(p)' = Sesion(programa[p])[(program_counter[p] + 1) + 1]
      BY <1>3 DEF TieneArchivo
   <2>2. (program_counter[p] + 1) + 1 = program_counter[p] + 2 BY <1>2
   <2> QED BY <2>1, <2>2 DEF Sigue
<1>6. \A q \in Pids : q # p => TieneArchivo(q)' = TieneArchivo(q) /\ Instr(q)' = Instr(q)
   BY <1>3 DEF TieneArchivo, Instr
<1> QED BY <1>3, <1>4, <1>5, <1>6

\* Names that are not of a file or a resource are not found.
LEMMA NoSeEncuentra ==
    ASSUME Formas, NEW p \in Pids, NEW f, f \notin Nombres
    PROVE  buscarFile(Contexto(p), f) = 0
<1>1. Contexto(p) \in Seq(Propias) BY ContextoPropio
<1>2. PICK s \in Seq(Propias) : s = Contexto(p) BY <1>1
<1>3. \A i \in 1 .. Len(s) : s[i].filename \in Nombres
   <2>1. \A i \in 1 .. Len(s) : s[i] \in Propias OBVIOUS
   <2> QED BY <2>1 DEF Propias
<1>4. \A i \in 1 .. Len(s) : s[i].filename # f BY <1>3
<1>5. /\ buscarFile(s, f) \in 0 .. Len(s)
      /\ buscarFile(s, f) # 0 => s[buscarFile(s, f)].filename = f
   BY PrimeraEntrada
<1>6. buscarFile(s, f) # 0 => buscarFile(s, f) \in 1 .. Len(s) BY <1>5
<1> QED BY <1>2, <1>4, <1>5, <1>6

\* Who is found at a file instruction has it open, and it is the only file.
LEMMA AlRecibir ==
    ASSUME ArchInv, UnSoloArchivo, NEW p \in Pids, NEW ops, ops \subseteq OpsDeArchivo,
           RecibeAbierto(p, ops)
    PROVE  /\ ejecutando = p /\ ~avisoFS /\ Instr(p).op \in ops
           /\ Archivos = {Instr(p).arch} /\ abiertos[p] = {Instr(p).arch}
           /\ Instr(p).arch \in Nombres /\ TieneArchivo(p)
           /\ Sigue(p, Instr(p).op # "F_CLOSE")
<1>1. /\ ejecutando = p /\ ~avisoFS /\ Instr(p).op \in ops
      /\ buscarFile(Contexto(p), Instr(p).arch) # 0
   BY DEF RecibeAbierto, Recibe
<1>2. Instr(p).arch \in Nombres BY <1>1, NoSeEncuentra DEF ArchInv
<1>3. abiertos[p] # {} BY <1>1, <1>2, LaInstruccion
<1> QED BY <1>1, <1>2, <1>3, LaInstruccion

-----------------------------------------------------------------------------
(* The tables of the processes. *)

\* A table that nobody writes keeps its order, unless the name of its shared entry
\* is written over while it matters.
LEMMA TablaQuieta ==
    ASSUME Formas, NEW q \in Pids, Tabla(q),
           archivos_abiertos'[q] = archivos_abiertos[q], abiertos'[q] = abiertos[q],
           \/ ejecutando # q
           \/ /\ parametroChar' = parametroChar
              /\ \/ ejecutando' = q
                 \/ abiertos[q] = {}
                 \/ \A i \in 1 .. Len(archivos_abiertos[q]) : archivos_abiertos[q][i] # Compartida
    PROVE  Tabla(q)' /\ (abiertos[q] # {} => Contexto(q)' = Contexto(q))
<1>1. PICK s \in Seq(Entradas) : s = archivos_abiertos[q] BY DEF Formas
<1>2. abiertos[q] # {} =>
         \/ \A i \in 1 .. Len(s) : s[i] # Compartida
         \/ /\ parametroChar' = parametroChar /\ parametroChar \in Archivos
            /\ ejecutando' = q
   BY <1>1 DEF Tabla
<1>3. abiertos[q] # {} => Contexto(q)' = Contexto(q)
   <2>1. /\ Contexto(q) = [i \in 1 .. Len(s) |-> IF s[i] = Compartida
                                                 THEN Propia(parametroChar, 0) ELSE s[i]]
         /\ Contexto(q)' = [i \in 1 .. Len(s) |-> IF s[i] = Compartida
                                                  THEN Propia(parametroChar', 0) ELSE s[i]]
      BY <1>1 DEF Contexto, Compartida, Propia
   <2> QED BY <1>2, <2>1
<1>4. PICK c : c = Contexto(q) OBVIOUS
<1>5. CASE abiertos[q] = {}
   <2>1. SoloApunta(s, 0) BY <1>1, <1>5 DEF Tabla
   <2>2. archivos_abiertos'[q] = s /\ abiertos'[q] = {} BY <1>1, <1>5
   <2>3. SoloApunta(archivos_abiertos[q], 0)' BY <2>1, <2>2 DEF SoloApunta
   <2>4. (\A f \in abiertos[q] : /\ buscarFile(Contexto(q), f) # 0
                                 /\ SoloApunta(archivos_abiertos[q], buscarFile(Contexto(q), f)))'
      BY <2>2
   <2>5. Tabla(q)' BY <2>2, <2>3, <2>4 DEF Tabla
   <2> QED BY <1>5, <2>5
<1>6. CASE abiertos[q] # {}
   <2>1. \A f \in abiertos[q] : buscarFile(c, f) # 0 /\ SoloApunta(s, buscarFile(c, f))
      BY <1>1, <1>4 DEF Tabla
   <2>2. Contexto(q)' = c BY <1>3, <1>4, <1>6
   <2>3. \A i \in 1 .. Len(s) : s[i] = Compartida =>
            abiertos[q] = {} \/ (ejecutando' = q /\ parametroChar' \in Archivos)
      BY <1>2, <1>6
   <2>4. /\ archivos_abiertos'[q] = s /\ abiertos'[q] = abiertos[q]
      BY <1>1
   <2> QED BY <1>3, <1>6, <2>1, <2>2, <2>3, <2>4 DEF Tabla
<1> QED BY <1>3, <1>5, <1>6

\* A table of own entries is its context.
LEMMA TablaPropiaNueva ==
    ASSUME NEW p \in Pids, NEW l \in Seq(Propias), archivos_abiertos'[p] = l
    PROVE  /\ Contexto(p)' = l
           /\ (IF abiertos'[p] = {} THEN SoloApunta(l, 0)
               ELSE \A f \in abiertos'[p] :
                       buscarFile(l, f) # 0 /\ SoloApunta(l, buscarFile(l, f)))
              => Tabla(p)'
<1>1. Compartida \notin Propias BY ProgramasAssumption DEF Compartida, Propias
<1>2. \A i \in 1 .. Len(l) : l[i] \in Propias OBVIOUS
<1>3. \A i \in 1 .. Len(l) : l[i] # Compartida BY <1>1, <1>2
<1>4. Contexto(p)' = l
   <2>1. Contexto(p)' = [i \in 1 .. Len(l) |-> IF l[i] = Compartida
                                              THEN Propia(parametroChar', 0) ELSE l[i]]
      BY DEF Contexto, Compartida, Propia
   <2> QED BY <1>3, <2>1
<1> QED BY <1>3, <1>4 DEF Tabla

-----------------------------------------------------------------------------
(* The steps that write no table. *)

LEMMA QuietosArchInv ==
    ASSUME ArchInv,
           UNCHANGED <<programa, program_counter, archivos_abiertos, claves, file_kernel,
                       liberado, parametroChar, parametroInt, mensajeFileSystem, abiertos>>,
           EnUnLugar', EnTransferencia',
           avisoFS' => avisoFS,
           \/ ejecutando' = ejecutando
           \/ ejecutando = Nadie
           \/ ~avisoFS' /\ abiertos[ejecutando] = {}
           \/ /\ ~avisoFS'
              /\ \A i \in 1 .. Len(archivos_abiertos[ejecutando]) :
                    archivos_abiertos[ejecutando][i] # Compartida
    PROVE  ArchInv' /\ \A q \in Pids : abiertos[q] # {} => Contexto(q)' = Contexto(q)
<1>1. Formas' BY DEF ArchInv, Formas
<1>2. Sesiones' BY DEF ArchInv, Sesiones, TieneArchivo
<1>3. Cerrojo' BY DEF ArchInv, Cerrojo
<1>4. \A q \in Pids : Tabla(q)' /\ (abiertos[q] # {} => Contexto(q)' = Contexto(q))
   <2> SUFFICES ASSUME NEW q \in Pids
                PROVE  Tabla(q)' /\ (abiertos[q] # {} => Contexto(q)' = Contexto(q))
      OBVIOUS
   <2>1. Formas /\ Tabla(q) BY DEF ArchInv
   <2>2. q # Nadie BY ArchivosAssumption DEF Nadie
   <2>3. CASE ejecutando # q BY <2>1, <2>3, TablaQuieta
   <2>4. CASE ejecutando = q /\ ejecutando' = q BY <2>1, <2>4, TablaQuieta
   <2>5. CASE ejecutando = q /\ ejecutando' # q BY <2>1, <2>2, <2>5, TablaQuieta
   <2> QED BY <2>3, <2>4, <2>5
<1>5. Pedido'
   <2>1. avisoFS' /\ mensajeFileSystem' \in Transferencias =>
            /\ avisoFS /\ mensajeFileSystem \in Transferencias
            /\ ejecutando' = ejecutando
      BY DEF ArchInv, Pedido
   <2>2. Instr(ejecutando)' = programa[ejecutando'][program_counter[ejecutando'] + 1]
      BY DEF Instr
   <2> QED BY <2>1, <2>2 DEF ArchInv, Pedido, Instr
<1> QED BY <1>1, <1>2, <1>3, <1>4, <1>5 DEF ArchInv

\* What conexionFileSystem does stays where it is.
LEMMA HiloQuieto ==
    ASSUME ArchInv,
           UNCHANGED <<programa, program_counter, archivos_abiertos, abiertos,
                       hiloFS, enFS, file_pcb>>,
           indefinido => indefinido'
    PROVE  EnTransferencia'
<1>1. Instr(enFS)' = Instr(enFS) BY DEF Instr
<1>2. PICK s : s = archivos_abiertos[enFS] OBVIOUS
<1>3. archivos_abiertos'[enFS'] = s BY <1>2
<1> QED BY <1>1, <1>2, <1>3 DEF ArchInv, EnTransferencia, Compartida

LEMMA IndefinidoArchInv ==
    ASSUME ArchInv, NEW p \in Pids, UsoIndefinido(p) \/ RecibeCopia(p)
    PROVE  ArchInv' /\ \A q \in Pids : abiertos[q] # {} => Contexto(q)' = Contexto(q)
<1>1. /\ UNCHANGED <<pcbs, tablas, parametroInt, colas, fs, historia>> /\ indefinido'
   BY DEF UsoIndefinido, RecibeCopia
<1>2. UNCHANGED <<programa, program_counter, archivos_abiertos, claves, file_kernel, liberado,
                  parametroChar, parametroInt, abiertos, listos, ejecutando, terminados,
                  hiloFS, enFS, file_pcb, mensajeFileSystem, avisoFS>>
   BY <1>1 DEF pcbs, tablas, colas, historia, fs, hilo
<1>3. EnUnLugar' BY <1>2 DEF ArchInv, EnUnLugar, EnCola
<1>4. EnTransferencia' BY <1>1, <1>2, HiloQuieto
<1> QED BY <1>2, <1>3, <1>4, QuietosArchInv

LEMMA TerminarArchInv ==
    ASSUME ArchInv, UnSoloArchivo, NEW p \in Pids, Terminar(p) \/ TerminarConError(p)
    PROVE  ArchInv' /\ \A q \in Pids : abiertos[q] # {} => Contexto(q)' = Contexto(q)
<1>1. /\ UNCHANGED <<programa, program_counter, archivos_abiertos, claves, file_kernel,
                     liberado, parametroChar, parametroInt, abiertos, listos,
                     mensajeFileSystem, avisoFS, hiloFS, enFS, file_pcb, indefinido>>
      /\ ejecutando' = Nadie /\ terminados' = terminados \cup {p}
      /\ ejecutando = p /\ ~avisoFS
   BY DEF Terminar, TerminarConError, Finaliza, pcbs, tablas, historia, fs, hilo, Recibe
<1>2. abiertos[p] = {}
   <2>1. CASE Instr(p).op = "EXIT"
      <3>1. PICK pr \in Programas : pr = programa[p] BY DEF ArchInv, Formas
      <3>2. PICK k : k = program_counter[p] + 1 OBVIOUS
      <3>3. /\ Len(pr) \in Nat /\ DOMAIN pr = 1 .. Len(pr) /\ EsSesion(pr, Sesion(pr))
         BY ProgramasAssumption DEF Sesion
      <3>4. k \in DOMAIN pr BY <3>1, <3>2, <3>3 DEF ArchInv, Formas
      <3>5. pr[k].op = "EXIT" BY <2>1, <3>1, <3>2 DEF Instr
      <3>6. ~Sesion(pr)[k] BY <3>3, <3>4, <3>5 DEF EsSesion
      <3> QED BY <3>1, <3>2, <3>6 DEF ArchInv, Sesiones, TieneArchivo
   <2>2. CASE Instr(p).op \in OpsDeArchivo /\ NoEstaAbierto(p)
      <3>1. abiertos[p] # {} => abiertos[p] = {Instr(p).arch} BY <2>2, LaInstruccion
      <3>2. \A f \in abiertos[p] : buscarFile(Contexto(p), f) # 0 BY DEF ArchInv, Tabla
      <3> QED BY <2>2, <3>1, <3>2 DEF NoEstaAbierto
   <2> QED BY <2>1, <2>2 DEF Terminar, TerminarConError, Recibe, OpsDeArchivo
<1>3. EnUnLugar'
   <2>1. p # Nadie /\ Nadie \notin Pids BY ArchivosAssumption DEF Nadie
   <2>2. EnUnLugar /\ EnCola' = EnCola BY <1>1 DEF ArchInv, EnCola
   <2>3. p \notin EnCola /\ p # enFS BY <1>1, <2>1, <2>2 DEF EnUnLugar
   <2>4. EnCola \subseteq Pids
      <3>1. file_kernel.pcbs \in Seq(Pids) BY DEF ArchInv, Formas
      <3> QED BY <3>1 DEF EnCola, ToSet
   <2> QED BY <1>1, <2>1, <2>2, <2>3, <2>4 DEF EnUnLugar
<1>4. EnTransferencia' BY <1>1, HiloQuieto
<1> QED BY <1>1, <1>2, <1>3, <1>4, QuietosArchInv

LEMMA DespachaArchInv ==
    ASSUME ArchInv, NEW p \in Pids, Despacha(p)
    PROVE  ArchInv' /\ \A q \in Pids : abiertos[q] # {} => Contexto(q)' = Contexto(q)
<1>1. /\ UNCHANGED <<programa, program_counter, archivos_abiertos, claves, file_kernel,
                     liberado, parametroChar, parametroInt, abiertos, terminados,
                     mensajeFileSystem, avisoFS, hiloFS, enFS, file_pcb, indefinido>>
      /\ ejecutando = Nadie /\ ejecutando' = p /\ p \in listos /\ listos' = listos \ {p}
   BY DEF Despacha, pcbs, tablas, historia, fs, hilo, fallas
<1>2. EnUnLugar'
   <2>1. p # Nadie BY ArchivosAssumption DEF Nadie
   <2>2. Nadie \notin Pids BY ArchivosAssumption DEF Nadie
   <2> QED BY <1>1, <2>1, <2>2 DEF ArchInv, EnUnLugar, EnCola
<1>3. EnTransferencia' BY <1>1, HiloQuieto
<1> QED BY <1>1, <1>2, <1>3, QuietosArchInv

LEMMA FsAbreArchInv ==
    ASSUME ArchInv, FsAbre
    PROVE  ArchInv' /\ \A q \in Pids : abiertos[q] # {} => Contexto(q)' = Contexto(q)
<1>1. /\ UNCHANGED <<programa, program_counter, archivos_abiertos, claves, file_kernel,
                     liberado, parametroChar, parametroInt, abiertos, listos, ejecutando,
                     terminados, mensajeFileSystem, hiloFS, enFS, file_pcb, indefinido>>
      /\ ~avisoFS'
   BY DEF FsAbre, Atiende, pcbs, tablas, colas, historia, hilo, fallas
<1>2. EnUnLugar' BY <1>1 DEF ArchInv, EnUnLugar, EnCola
<1>3. EnTransferencia' BY <1>1, HiloQuieto
<1> QED BY <1>1, <1>2, <1>3, QuietosArchInv

LEMMA FsTomaArchInv ==
    ASSUME ArchInv, FsToma
    PROVE  ArchInv' /\ \A q \in Pids : abiertos[q] # {} => Contexto(q)' = Contexto(q)
<1>1. /\ UNCHANGED <<programa, program_counter, archivos_abiertos, claves, file_kernel,
                     liberado, parametroChar, parametroInt, abiertos, listos, terminados,
                     mensajeFileSystem, file_pcb, indefinido>>
      /\ ~avisoFS' /\ avisoFS /\ mensajeFileSystem \in Transferencias
      /\ hiloFS = "espera" /\ enFS' = ejecutando /\ ejecutando' = Nadie
      /\ hiloFS' = IF mensajeFileSystem = "F_TRUNCATE" THEN "envia" ELSE "busca"
   BY DEF FsToma, Atiende, pcbs, tablas, historia, fallas
<1>2. /\ ejecutando # Nadie /\ Instr(ejecutando).op = mensajeFileSystem
      /\ abiertos[ejecutando] # {}
      /\ \A i \in 1 .. Len(archivos_abiertos[ejecutando]) :
            archivos_abiertos[ejecutando][i] # Compartida
   BY <1>1 DEF ArchInv, Pedido
<1>3. EnUnLugar'
   <2>1. Nadie \notin Pids BY ArchivosAssumption DEF Nadie
   <2>2. enFS = Nadie BY <1>1 DEF ArchInv, EnTransferencia
   <2> QED BY <1>1, <1>2, <2>1, <2>2 DEF ArchInv, EnUnLugar, EnCola
<1>4. EnTransferencia'
   <2>1. Instr(enFS)' = Instr(ejecutando) BY <1>1 DEF Instr
   <2>2. PICK s : s = archivos_abiertos[ejecutando] OBVIOUS
   <2>3. archivos_abiertos'[enFS'] = s /\ abiertos'[enFS'] = abiertos[ejecutando]
      BY <1>1, <2>2
   <2> QED BY <1>1, <1>2, <2>1, <2>2, <2>3 DEF EnTransferencia, Compartida
<1> QED BY <1>1, <1>2, <1>3, <1>4, QuietosArchInv

LEMMA FsBuscaArchInv ==
    ASSUME ArchInv, FsBusca
    PROVE  ArchInv' /\ \A q \in Pids : abiertos[q] # {} => Contexto(q)' = Contexto(q)
<1>1. /\ UNCHANGED <<programa, program_counter, archivos_abiertos, claves, file_kernel,
                     liberado, parametroChar, parametroInt, abiertos, listos, ejecutando,
                     terminados, mensajeFileSystem, avisoFS, enFS>>
      /\ hiloFS = "busca" /\ hiloFS' = "envia" /\ indefinido' = (file_pcb' = 0)
      /\ file_pcb' = buscarFile(archivos_abiertos[enFS], parametroChar)
   BY DEF FsBusca, pcbs, tablas, colas, historia
<1>2. EnUnLugar' BY <1>1 DEF ArchInv, EnUnLugar, EnCola
<1>3. EnTransferencia'
   <2>1. parametroChar \in Nombres BY DEF ArchInv, Formas
   <2>2. Instr(enFS)' = Instr(enFS) BY <1>1 DEF Instr
   <2>3. PICK s : s = archivos_abiertos[enFS] OBVIOUS
   <2>4. archivos_abiertos'[enFS'] = s /\ abiertos'[enFS'] = abiertos[enFS] BY <1>1, <2>3
   <2>5. /\ enFS # Nadie /\ Instr(enFS).op \in Transferencias /\ abiertos[enFS] # {}
         /\ \A i \in 1 .. Len(s) : s[i] # Compartida
      BY <1>1, <2>3 DEF ArchInv, EnTransferencia
   <2>6. ~indefinido' => file_pcb' # 0 /\ \E g \in Nombres : file_pcb' = buscarFile(s, g)
      BY <1>1, <2>1, <2>3
   <2> QED BY <1>1, <2>2, <2>4, <2>5, <2>6 DEF EnTransferencia, Compartida
<1> QED BY <1>1, <1>2, <1>3, QuietosArchInv

LEMMA FsEnviaArchInv ==
    ASSUME ArchInv, FsEnvia
    PROVE  ArchInv' /\ \A q \in Pids : abiertos[q] # {} => Contexto(q)' = Contexto(q)
<1>1. /\ UNCHANGED <<programa, program_counter, archivos_abiertos, claves, file_kernel,
                     liberado, parametroChar, parametroInt, abiertos, listos, ejecutando,
                     terminados, mensajeFileSystem, avisoFS, enFS>>
      /\ hiloFS = "envia" /\ hiloFS' = "recibe"
   BY DEF FsEnvia, pcbs, tablas, colas, fallas
<1>2. EnUnLugar' BY <1>1 DEF ArchInv, EnUnLugar, EnCola
<1>3. EnTransferencia'
   <2>1. Instr(enFS)' = Instr(enFS) BY <1>1 DEF Instr
   <2>2. PICK s : s = archivos_abiertos[enFS] OBVIOUS
   <2>3. archivos_abiertos'[enFS'] = s BY <1>1, <2>2
   <2> QED BY <1>1, <2>1, <2>2, <2>3 DEF ArchInv, EnTransferencia, Compartida
<1> QED BY <1>1, <1>2, <1>3, QuietosArchInv

-----------------------------------------------------------------------------
(* The steps of the running process. *)

\* The process p writes its own table, and stays at its instruction or goes on.
LEMMA PropiosArchInv ==
    ASSUME ArchInv, NEW p \in Pids, ejecutando = p,
           UNCHANGED <<programa, hiloFS, enFS, file_pcb, indefinido>>,
           NEW b,
           \/ Sigue(p, b) /\ Avanza(p)
           \/ b = TieneArchivo(p) /\ UNCHANGED program_counter,
           abiertos' \in [Pids -> SUBSET Archivos],
           abiertos'[p] = IF b THEN Archivos ELSE {},
           \A q \in Pids \ {p} : abiertos'[q] = abiertos[q],
           NEW l \in Seq(Entradas), Guarda(p, l),
           parametroChar' \in Nombres, parametroInt' \in Pids \cup {Nadie},
           claves' \subseteq Archivos,
           file_kernel' \in [open : BOOLEAN, pcbs : Seq(Pids)],
           mensajeFileSystem' \in {"NADA", "REQ_ABRIR_ARCHIVO"} \cup Transferencias,
           EnUnLugar', Cerrojo', Tabla(p)', Pedido'
    PROVE  ArchInv' /\ \A q \in Pids \ {p} : abiertos[q] # {} => Contexto(q)' = Contexto(q)
<1>1. /\ program_counter' \in [Pids -> Nat]
      /\ \A q \in Pids : program_counter'[q] < Len(programa'[q])
      /\ TieneArchivo(p)' = b
      /\ \A q \in Pids : q # p => TieneArchivo(q)' = TieneArchivo(q) /\ Instr(q)' = Instr(q)
   <2>1. CASE Sigue(p, b) /\ Avanza(p) BY <2>1, AlAvanzar DEF ArchInv
   <2>2. CASE b = TieneArchivo(p) /\ UNCHANGED program_counter
      BY <2>2 DEF ArchInv, Formas, TieneArchivo, Instr
   <2> QED BY <2>1, <2>2
<1>2. /\ archivos_abiertos' \in [Pids -> Seq(Entradas)] /\ archivos_abiertos'[p] = l
      /\ \A q \in Pids \ {p} : archivos_abiertos'[q] = archivos_abiertos[q]
   BY DEF Guarda, ArchInv, Formas
<1>3. Formas' BY <1>1, <1>2 DEF ArchInv, Formas
<1>4. Sesiones'
   <2>1. \A q \in Pids \ {p} : abiertos[q] = IF TieneArchivo(q) THEN Archivos ELSE {}
      BY DEF ArchInv, Sesiones
   <2>2. \A q \in Pids : abiertos'[q] = IF TieneArchivo(q)' THEN Archivos ELSE {}
      BY <1>1, <2>1
   <2> QED BY <2>2 DEF Sesiones
<1>5. \A q \in Pids \ {p} : Tabla(q)' /\ (abiertos[q] # {} => Contexto(q)' = Contexto(q))
   <2> SUFFICES ASSUME NEW q \in Pids, q # p
                PROVE  Tabla(q)' /\ (abiertos[q] # {} => Contexto(q)' = Contexto(q))
      OBVIOUS
   <2>1. Formas /\ Tabla(q) BY DEF ArchInv
   <2>2. archivos_abiertos'[q] = archivos_abiertos[q] /\ abiertos'[q] = abiertos[q] BY <1>2
   <2> QED BY <2>1, <2>2, TablaQuieta
<1>6. EnTransferencia'
   <2>1. CASE enFS = Nadie BY <2>1 DEF ArchInv, EnTransferencia
   <2>2. CASE enFS # Nadie
      <3>1. enFS \in Pids /\ enFS # p BY <2>2 DEF ArchInv, EnUnLugar
      <3>2. PICK q \in Pids \ {p} : q = enFS BY <3>1
      <3>3. Instr(q)' = Instr(q) /\ abiertos'[q] = abiertos[q] BY <1>1
      <3>4. Instr(enFS)' = Instr(enFS) /\ abiertos'[enFS'] = abiertos[enFS]
         BY <3>2, <3>3 DEF Instr
      <3>5. PICK s : s = archivos_abiertos[enFS] OBVIOUS
      <3>6. archivos_abiertos'[enFS'] = s BY <1>2, <3>2, <3>5
      <3> QED BY <2>2, <3>4, <3>5, <3>6 DEF ArchInv, EnTransferencia, Compartida
   <2> QED BY <2>1, <2>2
<1>7. \A q \in Pids : Tabla(q)' BY <1>5
<1> QED BY <1>3, <1>4, <1>5, <1>6, <1>7 DEF ArchInv

\* The queues of the schedulers and of the file, when the running process stays.
LEMMA MismoLugar ==
    ASSUME EnUnLugar, UNCHANGED <<listos, ejecutando, terminados, enFS>>,
           file_kernel'.pcbs = file_kernel.pcbs
    PROVE  EnUnLugar'
BY DEF EnUnLugar, EnCola

LEMMA ContextoArchInv ==
    ASSUME ArchInv, UnSoloArchivo, NEW p \in Pids,
           PedirTransferencia(p) \/ UsarRecurso(p) \/ Ceder(p)
    PROVE  /\ ArchInv' /\ UNCHANGED <<abiertos, ultima, indefinido>>
           /\ \A q \in Pids : abiertos[q] # {} => Contexto(q)' = Contexto(q)
<1>1. /\ ejecutando = p /\ ~avisoFS
      /\ UNCHANGED <<programa, hiloFS, enFS, file_pcb, abiertos, ultima, claves, file_kernel,
                     liberado, indefinido, terminados>>
      /\ Guarda(p, Contexto(p))
      /\ parametroInt' \in {p, parametroInt}
   BY DEF PedirTransferencia, UsarRecurso, Ceder, RecibeAbierto, Recibe, colas, historia,
          fallas, fs, hilo, AvisaFS, Numera
<1>2. PICK l \in Seq(Propias) : l = Contexto(p) BY ContextoPropio DEF ArchInv
<1>3. l \in Seq(Entradas) BY <1>2, ContextoPropio DEF ArchInv
<1>4. archivos_abiertos'[p] = l BY <1>1, <1>2 DEF Guarda, ArchInv, Formas
<1>5. Contexto(p)' = l BY <1>4, TablaPropiaNueva
<1>6. Tabla(p)'
   <2>1. Len(l) = Len(archivos_abiertos[p])
         /\ \A i \in 1 .. Len(l) : l[i].pointer = archivos_abiertos[p][i].pointer
      BY <1>2, ContextoPropio DEF ArchInv
   <2>2. IF abiertos[p] = {} THEN SoloApunta(l, 0)
         ELSE \A f \in abiertos[p] : buscarFile(l, f) # 0 /\ SoloApunta(l, buscarFile(l, f))
      BY <1>2, <2>1 DEF ArchInv, Tabla, SoloApunta
   <2>3. abiertos'[p] = abiertos[p] BY <1>1
   <2> QED BY <1>4, <2>2, <2>3, TablaPropiaNueva
<1>7. /\ abiertos' \in [Pids -> SUBSET Archivos]
      /\ abiertos'[p] = IF TieneArchivo(p) THEN Archivos ELSE {}
      /\ \A q \in Pids \ {p} : abiertos'[q] = abiertos[q]
      /\ claves' \subseteq Archivos /\ file_kernel' \in [open : BOOLEAN, pcbs : Seq(Pids)]
      /\ parametroInt' \in Pids \cup {Nadie}
   BY <1>1 DEF ArchInv, Formas, Sesiones
<1>8. Cerrojo' BY <1>1 DEF ArchInv, Cerrojo
<1>9. CASE PedirTransferencia(p)
   <2>1. /\ UNCHANGED <<program_counter, listos, ejecutando>>
         /\ mensajeFileSystem' = Instr(p).op /\ parametroChar' = Instr(p).arch
         /\ RecibeAbierto(p, Transferencias)
      BY <1>9 DEF PedirTransferencia, Nombra, colas, AvisaFS
   <2>2. /\ Instr(p).op \in Transferencias /\ abiertos[p] # {} /\ Instr(p).arch \in Nombres
      BY <2>1, AlRecibir DEF Transferencias, OpsDeArchivo
   <2>3. EnUnLugar' BY <1>1, <2>1, MismoLugar DEF ArchInv
   <2>4. Pedido'
      <3>1. \A i \in 1 .. Len(l) : l[i] # Compartida BY <1>2, ContextoPropio DEF ArchInv
      <3>2. p # Nadie BY ArchivosAssumption DEF Nadie
      <3>3. Instr(ejecutando)' = Instr(p) BY <1>1, <2>1 DEF Instr
      <3> QED BY <1>1, <1>4, <2>1, <2>2, <3>1, <3>2, <3>3 DEF Pedido, Compartida
   <2>5. /\ mensajeFileSystem' \in {"NADA", "REQ_ABRIR_ARCHIVO"} \cup Transferencias
         /\ parametroChar' \in Nombres
      BY <2>1, <2>2
   <2>6. ArchInv' /\ \A q \in Pids \ {p} : abiertos[q] # {} => Contexto(q)' = Contexto(q)
      <3>1. Guarda(p, l) /\ ejecutando = p
            /\ UNCHANGED <<programa, hiloFS, enFS, file_pcb, indefinido>>
         BY <1>1, <1>2
      <3>2. PICK b : b = TieneArchivo(p) OBVIOUS
      <3>3. b = TieneArchivo(p) /\ UNCHANGED program_counter BY <2>1, <3>2
      <3>4. abiertos'[p] = IF b THEN Archivos ELSE {} BY <1>7, <3>2
      <3> QED BY <1>3, <1>6, <1>7, <1>8, <2>3, <2>4, <2>5, <3>1, <3>3, <3>4, PropiosArchInv,
                   SMTT(60)
   <2> QED BY <1>1, <1>2, <1>5, <2>6
<1>10. CASE UsarRecurso(p) \/ Ceder(p)
   <2>1. /\ ~avisoFS' /\ Avanza(p) /\ UNCHANGED mensajeFileSystem
         /\ Instr(p).op \in {"WAIT", "SIGNAL", "YIELD", "I_O"}
      BY <1>1, <1>10 DEF UsarRecurso, Ceder, Recibe, fs
   <2>2. Sigue(p, TieneArchivo(p)) BY <2>1, LaInstruccion
   <2>3. parametroChar' \in Nombres
      <3>1. parametroChar \in Nombres BY DEF ArchInv, Formas
      <3>2. Instr(p).op \in {"WAIT", "SIGNAL"} => Instr(p).arch \in Nombres BY LaInstruccion
      <3> QED BY <1>10, <3>1, <3>2 DEF UsarRecurso, Ceder, Nombra, Recibe
   <2>4. EnUnLugar'
      <3>1. CASE UsarRecurso(p)
         BY <1>1, <3>1, MismoLugar DEF UsarRecurso, colas, ArchInv
      <3>2. CASE Ceder(p)
         <4>1. ejecutando' = Nadie /\ listos' = listos \cup {p} BY <3>2 DEF Ceder
         <4>2. EnUnLugar /\ EnCola' = EnCola BY <1>1 DEF ArchInv, EnCola
         <4>3. p # Nadie /\ Nadie \notin Pids BY ArchivosAssumption DEF Nadie
         <4>4. p \notin EnCola /\ p # enFS /\ p \notin terminados
            BY <1>1, <4>2, <4>3 DEF EnUnLugar
         <4>5. EnCola \subseteq Pids
            <5>1. file_kernel.pcbs \in Seq(Pids) BY DEF ArchInv, Formas
            <5> QED BY <5>1 DEF EnCola, ToSet
         <4> QED BY <1>1, <4>1, <4>2, <4>3, <4>4, <4>5 DEF EnUnLugar
      <3> QED BY <1>10, <3>1, <3>2
   <2>5. Pedido' /\ mensajeFileSystem' \in {"NADA", "REQ_ABRIR_ARCHIVO"} \cup Transferencias
      BY <2>1 DEF Pedido, ArchInv, Formas
   <2>6. ArchInv' /\ \A q \in Pids \ {p} : abiertos[q] # {} => Contexto(q)' = Contexto(q)
      BY <1>1, <1>2, <1>3, <1>6, <1>7, <1>8, <2>1, <2>2, <2>3, <2>4, <2>5, PropiosArchInv
   <2> QED BY <1>1, <1>2, <1>5, <2>6
<1> QED BY <1>9, <1>10

\* F_SEEK: the first entry of the file is the one that has the pointer.
LEMMA PosicionarArchInv ==
    ASSUME ArchInv, UnSoloArchivo, NEW p \in Pids, Posicionar(p)
    PROVE  /\ ArchInv' /\ UNCHANGED <<abiertos, ultima, indefinido>>
           /\ \A q \in Pids \ {p} : abiertos[q] # {} => Contexto(q)' = Contexto(q)
           /\ Archivos = {Instr(p).arch} /\ abiertos[p] = {Instr(p).arch}
           /\ Contexto(p)'[buscarFile(Contexto(p)', Instr(p).arch)].pointer = Instr(p).pos
           /\ Instr(p).pos \in Posiciones
<1>1. PICK f : f = Instr(p).arch OBVIOUS
<1>2. PICK n : n = Instr(p).pos OBVIOUS
<1>3. PICK c \in Seq(Propias) : c = Contexto(p) BY ContextoPropio DEF ArchInv
<1>4. PICK k : k = buscarFile(c, f) OBVIOUS
<1>5. RecibeAbierto(p, {"F_SEEK"}) BY DEF Posicionar
<1>6. /\ ejecutando = p /\ ~avisoFS /\ Instr(p).op = "F_SEEK"
      /\ Archivos = {f} /\ abiertos[p] = {f} /\ f \in Nombres /\ TieneArchivo(p)
      /\ Sigue(p, TRUE)
   <2>1. {"F_SEEK"} \subseteq OpsDeArchivo BY DEF OpsDeArchivo
   <2>2. /\ ejecutando = p /\ ~avisoFS /\ Instr(p).op \in {"F_SEEK"}
         /\ Archivos = {f} /\ abiertos[p] = {f} /\ f \in Nombres /\ TieneArchivo(p)
         /\ Sigue(p, Instr(p).op # "F_CLOSE")
      BY <1>1, <1>5, <2>1, AlRecibir
   <2>3. PICK b : b = (Instr(p).op # "F_CLOSE") OBVIOUS
   <2>4. b = TRUE BY <2>2, <2>3
   <2> QED BY <2>2, <2>3, <2>4
<1>7. n \in Posiciones BY <1>2, <1>6, LaInstruccion
<1>8. /\ UNCHANGED <<programa, hiloFS, enFS, file_pcb, abiertos, ultima, claves, file_kernel,
                     liberado, indefinido, listos, ejecutando, terminados,
                     mensajeFileSystem, avisoFS>>
      /\ parametroChar' = f /\ parametroInt' = p /\ Avanza(p)
      /\ Guarda(p, [c EXCEPT ![k].pointer = n])
   BY <1>1, <1>2, <1>3, <1>4 DEF Posicionar, colas, historia, Nombra, Numera, fs, hilo, fallas
<1>9. /\ k # 0 /\ k \in 1 .. Len(c) /\ c[k].filename = f
   BY <1>1, <1>3, <1>4, <1>5, PrimeraEntrada DEF RecibeAbierto
<1>10. PICK l : l = [c EXCEPT ![k].pointer = n] OBVIOUS
<1>11. /\ l \in Seq(Propias) /\ Len(l) = Len(c)
       /\ \A i \in 1 .. Len(l) : l[i].filename = c[i].filename
       /\ \A i \in 1 .. Len(l) : i # k => l[i] = c[i]
       /\ l[k].pointer = n
   <2>1. c[k] \in Propias BY <1>9
   <2>2. PICK e : e = [c[k] EXCEPT !.pointer = n] OBVIOUS
   <2>3. e \in Propias /\ e.filename = c[k].filename /\ e.pointer = n
      BY <1>7, <2>1, <2>2 DEF Propias
   <2>4. l = [c EXCEPT ![k] = e] BY <1>10, <2>2
   <2>5. l \in Seq(Propias) /\ Len(l) = Len(c) BY <1>9, <2>3, <2>4
   <2> QED BY <1>9, <2>3, <2>4, <2>5
<1>12. buscarFile(l, f) = k BY <1>4, <1>11, MismosNombres
<1>13. archivos_abiertos'[p] = l BY <1>8, <1>10 DEF Guarda, ArchInv, Formas
<1>14. Contexto(p)' = l BY <1>11, <1>13, TablaPropiaNueva
<1>15. Tabla(p)'
   <2>1. /\ Len(c) = Len(archivos_abiertos[p])
         /\ \A i \in 1 .. Len(c) : c[i].pointer = archivos_abiertos[p][i].pointer
      BY <1>3, ContextoPropio DEF ArchInv
   <2>2. SoloApunta(archivos_abiertos[p], k) BY <1>3, <1>4, <1>6 DEF ArchInv, Tabla
   <2>3. SoloApunta(l, k) BY <1>11, <2>1, <2>2 DEF SoloApunta
   <2>4. abiertos'[p] = {f} BY <1>6, <1>8
   <2>5. \A g \in abiertos'[p] : buscarFile(l, g) # 0 /\ SoloApunta(l, buscarFile(l, g))
      BY <1>9, <1>12, <2>3, <2>4
   <2> QED BY <1>11, <1>13, <2>4, <2>5, TablaPropiaNueva
<1>16. /\ abiertos' \in [Pids -> SUBSET Archivos]
       /\ abiertos'[p] = IF TRUE THEN Archivos ELSE {}
       /\ \A q \in Pids \ {p} : abiertos'[q] = abiertos[q]
       /\ claves' \subseteq Archivos /\ file_kernel' \in [open : BOOLEAN, pcbs : Seq(Pids)]
       /\ mensajeFileSystem' \in {"NADA", "REQ_ABRIR_ARCHIVO"} \cup Transferencias
       /\ parametroChar' \in Nombres /\ parametroInt' \in Pids \cup {Nadie}
   BY <1>6, <1>8 DEF ArchInv, Formas
<1>17. Cerrojo' BY <1>8 DEF ArchInv, Cerrojo
<1>18. EnUnLugar' BY <1>8, MismoLugar DEF ArchInv
<1>19. Pedido' BY <1>6, <1>8 DEF Pedido
<1>20. l \in Seq(Entradas) BY <1>11 DEF Entradas
<1>21. ArchInv' /\ \A q \in Pids \ {p} : abiertos[q] # {} => Contexto(q)' = Contexto(q)
   <2>1. Guarda(p, l) BY <1>8, <1>10
   <2> QED BY <1>6, <1>8, <1>15, <1>16, <1>17, <1>18, <1>19, <1>20, <2>1, PropiosArchInv
<1>22. Contexto(p)'[buscarFile(Contexto(p)', f)].pointer = n BY <1>11, <1>12, <1>14
<1> QED BY <1>1, <1>2, <1>6, <1>7, <1>8, <1>21, <1>22

\* The shared entry at the end of a table of own entries.
LEMMA TablaConCompartida ==
    ASSUME NEW p \in Pids, NEW c \in Seq(Propias), SoloApunta(c, 0),
           archivos_abiertos'[p] = Append(c, Compartida),
           NEW f \in Nombres, parametroChar' = f,
           abiertos'[p] = {} \/ (abiertos'[p] = {f} /\ ejecutando' = p /\ f \in Archivos)
    PROVE  /\ Tabla(p)' /\ Append(c, Compartida) \in Seq(Entradas)
           /\ Contexto(p)'[buscarFile(Contexto(p)', f)].pointer = 0
<1>1. PICK l : l = Append(c, Compartida) OBVIOUS
<1>2. Compartida \notin Propias BY ProgramasAssumption DEF Compartida, Propias
<1>3. c \in Seq(Entradas) /\ Compartida \in Entradas BY DEF Entradas
<1>4. /\ l \in Seq(Entradas) /\ Len(l) = Len(c) + 1 /\ l[Len(c) + 1] = Compartida
      /\ \A i \in 1 .. Len(c) : l[i] = c[i] /\ c[i] \in Propias
   BY <1>1, <1>3
<1>5. \A i \in 1 .. Len(l) : i \in 1 .. Len(c) \/ i = Len(c) + 1 BY <1>4
<1>6. PICK nueva : nueva = Propia(f, 0) OBVIOUS
<1>7. nueva \in Propias /\ nueva.filename = f /\ nueva.pointer = 0
   BY <1>6, ArchivosAssumption DEF Propia, Propias
<1>8. PICK d : d = Contexto(p)' OBVIOUS
<1>9. d = [i \in 1 .. Len(l) |-> IF l[i] = Compartida THEN nueva ELSE l[i]]
   <2>1. DOMAIN l = 1 .. Len(l) BY <1>4
   <2>2. Contexto(p)' = [i \in DOMAIN archivos_abiertos'[p] |->
                           IF archivos_abiertos'[p][i] = Compartida
                           THEN Propia(parametroChar', 0) ELSE archivos_abiertos'[p][i]]
      BY DEF Contexto, Compartida, Propia
   <2> QED BY <1>1, <1>6, <1>8, <2>1, <2>2
<1>10. /\ \A i \in 1 .. Len(c) : d[i] = c[i]
       /\ d[Len(c) + 1] = nueva
   BY <1>2, <1>4, <1>5, <1>9
<1>11. d \in Seq(Propias) /\ Len(d) = Len(l)
   <2>1. \A i \in 1 .. Len(l) : d[i] \in Propias BY <1>4, <1>5, <1>7, <1>10
   <2>2. Len(l) \in Nat BY <1>4
   <2> QED BY <1>9, <2>1, <2>2
<1>12. SoloApunta(l, 0) /\ \A i \in 1 .. Len(d) : d[i].pointer = 0
   <2>1. Compartida.pointer = 0 BY DEF Compartida
   <2>2. \A i \in 1 .. Len(c) : c[i].pointer = 0 BY DEF SoloApunta
   <2>3. \A i \in 1 .. Len(l) : l[i].pointer = 0 /\ d[i].pointer = 0
      BY <1>4, <1>5, <1>7, <1>10, <2>1, <2>2
   <2> QED BY <1>11, <2>3 DEF SoloApunta
<1>13. /\ buscarFile(d, f) \in 1 .. Len(d)
   <2>1. Len(c) + 1 \in 1 .. Len(d) /\ d[Len(c) + 1].filename = f
      BY <1>4, <1>7, <1>10, <1>11
   <2>2. buscarFile(d, f) \in 0 .. Len(d) /\ buscarFile(d, f) # 0
      BY <1>11, <2>1, PrimeraEntrada
   <2> QED BY <2>2
<1>14. Tabla(p)'
   <2>1. SoloApunta(archivos_abiertos[p], 0)' BY <1>1, <1>12 DEF SoloApunta
   <2>2. (\A g \in abiertos[p] :
            /\ buscarFile(Contexto(p), g) # 0
            /\ SoloApunta(archivos_abiertos[p], buscarFile(Contexto(p), g)))'
      <3> SUFFICES ASSUME NEW g \in abiertos'[p]
                   PROVE  (/\ buscarFile(Contexto(p), g) # 0
                           /\ SoloApunta(archivos_abiertos[p], buscarFile(Contexto(p), g)))'
         OBVIOUS
      <3>1. g = f OBVIOUS
      <3>2. SoloApunta(l, buscarFile(d, g)) BY <1>12 DEF SoloApunta
      <3> QED BY <1>1, <1>8, <1>13, <3>1, <3>2
   <2>3. (\A i \in 1 .. Len(archivos_abiertos[p]) :
            archivos_abiertos[p][i] = Compartida =>
               abiertos[p] = {} \/ (ejecutando = p /\ parametroChar \in Archivos))'
      OBVIOUS
   <2> QED BY <2>1, <2>2, <2>3 DEF Tabla
<1> QED BY <1>1, <1>4, <1>8, <1>12, <1>13, <1>14

\* F_OPEN, granted or not.
LEMMA AbrirArchInv ==
    ASSUME ArchInv, UnSoloArchivo, NEW p \in Pids,
           AbrirEspera(p) \/ AbrirCerrado(p) \/ AbrirNuevo(p)
    PROVE  /\ ArchInv' /\ UNCHANGED <<ultima, indefinido>>
           /\ \A q \in Pids \ {p} : abiertos[q] # {} => Contexto(q)' = Contexto(q)
           /\ Instr(p).arch \in Archivos /\ abiertos[p] = {}
           /\ \/ UNCHANGED abiertos
              \/ /\ \A q \in Pids : abiertos[q] = {}
                 /\ abiertos' = [abiertos EXCEPT ![p] = {Instr(p).arch}]
           /\ Contexto(p)'[buscarFile(Contexto(p)', Instr(p).arch)].pointer = 0
<1>1. PICK f : f = Instr(p).arch OBVIOUS
<1>2. PICK c \in Seq(Propias) : c = Contexto(p) BY ContextoPropio DEF ArchInv
<1>3. PICK l : l = Append(c, Compartida) OBVIOUS
<1>4. /\ ejecutando = p /\ ~avisoFS /\ Instr(p).op = "F_OPEN"
      /\ parametroChar' = f /\ Guarda(p, l) /\ ~liberado
      /\ UNCHANGED <<programa, hiloFS, enFS, file_pcb, listos, terminados, liberado,
                     parametroInt, indefinido, ultima>>
   BY <1>1, <1>2, <1>3
      DEF AbrirEspera, AbrirCerrado, AbrirNuevo, Recibe, AgregaEntrada, Nombra, colas,
          historia, Concede, fs, hilo, fallas, AvisaFS
<1>5. f \in Archivos /\ abiertos[p] = {} /\ Sigue(p, TRUE) BY <1>1, <1>4, LaInstruccion
<1>6. f \in Nombres /\ Archivos = {f} BY <1>5 DEF Nombres, UnSoloArchivo
<1>7. SoloApunta(c, 0)
   <2>1. /\ Len(c) = Len(archivos_abiertos[p])
         /\ \A i \in 1 .. Len(c) : c[i].pointer = archivos_abiertos[p][i].pointer
      BY <1>2, ContextoPropio DEF ArchInv
   <2>2. SoloApunta(archivos_abiertos[p], 0) BY <1>5 DEF ArchInv, Tabla
   <2> QED BY <2>1, <2>2 DEF SoloApunta
<1>8. archivos_abiertos'[p] = l BY <1>4 DEF Guarda, ArchInv, Formas
<1>9. ~TieneArchivo(p)
   <2>1. abiertos[p] = IF TieneArchivo(p) THEN Archivos ELSE {} BY DEF ArchInv, Sesiones
   <2> QED BY <1>5, <2>1
<1>10. abiertos \in [Pids -> SUBSET Archivos] /\ file_kernel \in [open : BOOLEAN, pcbs : Seq(Pids)]
   BY DEF ArchInv, Formas
<1>14. parametroInt' \in Pids \cup {Nadie} BY <1>4 DEF ArchInv, Formas
<1>11. p # Nadie /\ Nadie \notin Pids BY ArchivosAssumption DEF Nadie
<1>12. CASE AbrirEspera(p)
   <2>1. /\ UNCHANGED <<program_counter, claves, mensajeFileSystem, avisoFS, abiertos>>
         /\ file_kernel' = [file_kernel EXCEPT !.pcbs = Append(@, p)]
         /\ ejecutando' = Nadie /\ file_kernel.open /\ f \in claves
      BY <1>1, <1>12 DEF AbrirEspera, historia, fs
   <2>2. /\ Tabla(p)' /\ l \in Seq(Entradas)
         /\ Contexto(p)'[buscarFile(Contexto(p)', f)].pointer = 0
      BY <1>3, <1>4, <1>5, <1>6, <1>7, <1>8, <2>1, TablaConCompartida
   <2>3. PICK s \in Seq(Pids) : s = file_kernel.pcbs BY <1>10
   <2>4. file_kernel'.pcbs = Append(s, p) /\ file_kernel'.open = file_kernel.open
         /\ file_kernel' \in [open : BOOLEAN, pcbs : Seq(Pids)]
      <3>1. PICK t : t = Append(s, p) OBVIOUS
      <3>2. t \in Seq(Pids) BY <3>1
      <3>3. file_kernel' = [file_kernel EXCEPT !.pcbs = t] BY <2>1, <2>3, <3>1
      <3> QED BY <1>10, <3>1, <3>2, <3>3
   <2>5. EnUnLugar'
      <3>1. EnUnLugar /\ EnCola = {s[i] : i \in 1 .. Len(s)} BY <2>3 DEF ArchInv, EnCola, ToSet
      <3>2. p \notin EnCola /\ p # enFS /\ p \notin terminados /\ p \notin listos
         BY <1>4, <1>11, <3>1 DEF EnUnLugar
      <3>3. PICK t : t = Append(s, p) OBVIOUS
      <3>4. /\ t \in Seq(Pids) /\ Len(t) = Len(s) + 1 /\ t[Len(s) + 1] = p
            /\ \A i \in 1 .. Len(s) : t[i] = s[i]
            /\ \A i \in 1 .. Len(t) : i \in 1 .. Len(s) \/ i = Len(s) + 1
         BY <3>3
      <3>5. EnCola' = EnCola \cup {p}
         <4>1. EnCola' = {t[i] : i \in 1 .. Len(t)} 
            <5>1. EnCola' = ToSet(t) BY <2>4, <3>3 DEF EnCola
            <5>2. DOMAIN t = 1 .. Len(t) BY <3>4
            <5> QED BY <5>1, <5>2 DEF ToSet
         <4>2. Len(s) \in Nat BY <2>3
         <4> QED BY <3>1, <3>4, <4>1, <4>2
      <3>6. \A i, j \in 1 .. Len(t) : t[i] = t[j] => i = j
         <4>1. \A i \in 1 .. Len(s) : s[i] # p BY <3>1, <3>2
         <4>2. \A i, j \in 1 .. Len(s) : s[i] = s[j] => i = j BY <2>3, <3>1 DEF EnUnLugar
         <4> QED BY <3>4, <4>1, <4>2
      <3>7. EnCola \subseteq Pids BY <2>3, <3>1
      <3>8. \A i, j \in 1 .. Len(file_kernel'.pcbs) :
               file_kernel'.pcbs[i] = file_kernel'.pcbs[j] => i = j
         BY <2>4, <3>3, <3>6
      <3> QED BY <1>4, <1>11, <2>1, <3>1, <3>2, <3>5, <3>7, <3>8 DEF EnUnLugar
   <2>6. Cerrojo' BY <1>4, <2>1, <2>4 DEF ArchInv, Cerrojo
   <2>7. Pedido' BY <1>4, <2>1 DEF Pedido
   <2>8. /\ abiertos' \in [Pids -> SUBSET Archivos] /\ claves' \subseteq Archivos
         /\ abiertos'[p] = IF TieneArchivo(p) THEN Archivos ELSE {}
         /\ \A q \in Pids \ {p} : abiertos'[q] = abiertos[q]
         /\ mensajeFileSystem' \in {"NADA", "REQ_ABRIR_ARCHIVO"} \cup Transferencias
         /\ parametroChar' \in Nombres
      BY <1>4, <1>5, <1>6, <1>9, <1>10, <2>1 DEF ArchInv, Formas
   <2>9. ArchInv' /\ \A q \in Pids \ {p} : abiertos[q] # {} => Contexto(q)' = Contexto(q)
      BY <1>4, <1>14, <2>1, <2>2, <2>4, <2>5, <2>6, <2>7, <2>8, PropiosArchInv
   <2> QED BY <1>1, <1>4, <1>5, <2>1, <2>2, <2>9
<1>13. CASE AbrirCerrado(p) \/ AbrirNuevo(p)
   <2>1. /\ UNCHANGED <<listos, ejecutando, terminados>>
         /\ Avanza(p) /\ Concede(p)
         /\ \/ ~avisoFS' /\ UNCHANGED mensajeFileSystem
            \/ mensajeFileSystem' = "REQ_ABRIR_ARCHIVO"
      BY <1>4, <1>13 DEF AbrirCerrado, AbrirNuevo, colas, fs, AvisaFS
   <2>2. abiertos' = [abiertos EXCEPT ![p] = {f}] BY <1>1, <1>5, <2>1 DEF Concede
   <2>3. /\ abiertos' \in [Pids -> SUBSET Archivos] /\ abiertos'[p] = {f}
         /\ \A q \in Pids \ {p} : abiertos'[q] = abiertos[q]
      BY <1>5, <1>10, <2>2
   <2>4. /\ Tabla(p)' /\ l \in Seq(Entradas)
         /\ Contexto(p)'[buscarFile(Contexto(p)', f)].pointer = 0
      BY <1>3, <1>4, <1>5, <1>6, <1>7, <1>8, <2>1, <2>3, TablaConCompartida
   <2>5. /\ file_kernel' = [open |-> TRUE, pcbs |-> file_kernel.pcbs]
         /\ claves' = {f} /\ ~file_kernel.open
      <3>1. CASE AbrirCerrado(p)
         <4>1. /\ file_kernel' = [file_kernel EXCEPT !.open = TRUE] /\ UNCHANGED claves
               /\ f \in claves /\ ~file_kernel.open
            BY <1>1, <3>1 DEF AbrirCerrado
         <4>2. claves = {f} BY <1>6, <4>1 DEF ArchInv, Formas
         <4> QED BY <1>10, <4>1, <4>2
      <3>2. CASE AbrirNuevo(p)
         <4>1. /\ file_kernel' = [open |-> TRUE, pcbs |-> <<>>] /\ claves' = claves \cup {f}
               /\ f \notin claves
            BY <1>1, <3>2 DEF AbrirNuevo
         <4>2. claves = {} BY <1>6, <4>1 DEF ArchInv, Formas
         <4> QED BY <1>10, <4>1, <4>2 DEF ArchInv, Cerrojo
      <3> QED BY <1>13, <3>1, <3>2
   <2>6. \A q \in Pids : abiertos[q] = {} BY <2>5 DEF ArchInv, Cerrojo
   <2>7. EnUnLugar' BY <1>4, <2>1, <2>5, MismoLugar DEF ArchInv
   <2>8. Cerrojo' BY <1>4, <2>3, <2>5, <2>6 DEF Cerrojo
   <2>9. Pedido' BY <2>1 DEF Pedido, Transferencias
   <2>10. /\ file_kernel' \in [open : BOOLEAN, pcbs : Seq(Pids)] /\ claves' \subseteq Archivos
          /\ abiertos'[p] = IF TRUE THEN Archivos ELSE {}
          /\ mensajeFileSystem' \in {"NADA", "REQ_ABRIR_ARCHIVO"} \cup Transferencias
          /\ parametroChar' \in Nombres
      BY <1>4, <1>6, <1>10, <2>1, <2>3, <2>5 DEF ArchInv, Formas
   <2>11. ArchInv' /\ \A q \in Pids \ {p} : abiertos[q] # {} => Contexto(q)' = Contexto(q)
      BY <1>4, <1>5, <1>14, <2>1, <2>3, <2>4, <2>7, <2>8, <2>9, <2>10, PropiosArchInv
   <2> QED BY <1>1, <1>4, <1>5, <2>2, <2>4, <2>6, <2>11
<1> QED BY <1>12, <1>13

\* F_CLOSE, with or without somebody to wake.
LEMMA CerrarArchInv ==
    ASSUME ArchInv, UnSoloArchivo, NEW p \in Pids, CerrarUltimo(p) \/ CerrarYDespierta(p)
    PROVE  /\ ArchInv' /\ UNCHANGED <<ultima, indefinido>>
           /\ \A q \in Pids \ {p} : abiertos[q] # {} => Contexto(q)' = Contexto(q)
           /\ Archivos = {Instr(p).arch} /\ abiertos[p] = {Instr(p).arch}
           /\ abiertos' = [abiertos EXCEPT ![p] = {}]
<1>1. PICK f : f = Instr(p).arch OBVIOUS
<1>2. PICK c \in Seq(Propias) : c = Contexto(p) BY ContextoPropio DEF ArchInv
<1>3. PICK k : k = buscarFile(c, f) OBVIOUS
<1>4. RecibeAbierto(p, {"F_CLOSE"}) BY DEF CerrarUltimo, CerrarYDespierta
<1>5. /\ ejecutando = p /\ ~avisoFS /\ Instr(p).op = "F_CLOSE"
      /\ Archivos = {f} /\ abiertos[p] = {f} /\ f \in Nombres
      /\ Sigue(p, FALSE)
   <2>1. {"F_CLOSE"} \subseteq OpsDeArchivo BY DEF OpsDeArchivo
   <2>2. /\ ejecutando = p /\ ~avisoFS /\ Instr(p).op \in {"F_CLOSE"}
         /\ Archivos = {f} /\ abiertos[p] = {f} /\ f \in Nombres
         /\ Sigue(p, Instr(p).op # "F_CLOSE")
      BY <1>1, <1>4, <2>1, AlRecibir
   <2>3. PICK b : b = (Instr(p).op # "F_CLOSE") OBVIOUS
   <2>4. b = FALSE BY <2>2, <2>3
   <2> QED BY <2>2, <2>3, <2>4
<1>6. PICK l : l = RemoveAt(c, k) OBVIOUS
<1>7. /\ UNCHANGED <<programa, hiloFS, enFS, file_pcb, ejecutando, terminados, parametroInt,
                     mensajeFileSystem, avisoFS, indefinido>>
      /\ parametroChar' = f /\ Avanza(p) /\ QuitaEntrada(p)
   BY <1>1 DEF CerrarUltimo, CerrarYDespierta, Nombra, colas, fs, hilo, fallas
<1>8. /\ Guarda(p, l) /\ abiertos' = [abiertos EXCEPT ![p] = {}] /\ UNCHANGED ultima
   BY <1>1, <1>2, <1>3, <1>5, <1>6, <1>7 DEF QuitaEntrada
<1>9. k # 0 /\ k \in 1 .. Len(c)
   BY <1>1, <1>2, <1>3, <1>4, PrimeraEntrada DEF RecibeAbierto
<1>10. /\ l \in Seq(Propias)
       /\ \A i \in 1 .. Len(l) : \E j \in 1 .. Len(c) : j # k /\ l[i] = c[j]
   BY <1>6, <1>9, QuitarUna
<1>11. archivos_abiertos'[p] = l BY <1>8 DEF Guarda, ArchInv, Formas
<1>12. /\ abiertos' \in [Pids -> SUBSET Archivos] /\ abiertos'[p] = {}
       /\ \A q \in Pids \ {p} : abiertos'[q] = abiertos[q]
   BY <1>8 DEF ArchInv, Formas
<1>13. Tabla(p)'
   <2>1. /\ Len(c) = Len(archivos_abiertos[p])
         /\ \A i \in 1 .. Len(c) : c[i].pointer = archivos_abiertos[p][i].pointer
      BY <1>2, ContextoPropio DEF ArchInv
   <2>2. SoloApunta(archivos_abiertos[p], k) BY <1>2, <1>3, <1>5 DEF ArchInv, Tabla
   <2>3. \A j \in 1 .. Len(c) : j # k => c[j].pointer = 0 BY <2>1, <2>2 DEF SoloApunta
   <2>4. SoloApunta(l, 0) BY <1>10, <2>3 DEF SoloApunta
   <2> QED BY <1>10, <1>11, <1>12, <2>4, TablaPropiaNueva
<1>14. \A q \in Pids : abiertos'[q] = {}
   <2>1. \A q \in Pids \ {p} : abiertos[q] = {} BY <1>5 DEF ArchInv, Cerrojo
   <2> QED BY <1>12, <2>1
<1>15. claves = {f} /\ ~liberado
   <2>1. ~liberado /\ f \in claves BY <1>1 DEF CerrarUltimo, CerrarYDespierta
   <2> QED BY <1>5, <2>1 DEF ArchInv, Formas
<1>16. PICK s \in Seq(Pids) : s = file_kernel.pcbs BY DEF ArchInv, Formas
<1>17. /\ EnUnLugar' /\ Cerrojo' /\ claves' \subseteq Archivos
       /\ file_kernel' \in [open : BOOLEAN, pcbs : Seq(Pids)]
   <2>1. CASE CerrarUltimo(p)
      <3>1. /\ UNCHANGED listos /\ file_kernel' = [file_kernel EXCEPT !.open = FALSE]
            /\ claves' = claves \ {f} /\ liberado' = TRUE /\ s = <<>>
         BY <1>1, <1>16, <2>1 DEF CerrarUltimo, colas
      <3>2. file_kernel \in [open : BOOLEAN, pcbs : Seq(Pids)] BY DEF ArchInv, Formas
      <3>3. /\ file_kernel'.open = FALSE /\ file_kernel'.pcbs = s
            /\ file_kernel' \in [open : BOOLEAN, pcbs : Seq(Pids)]
         BY <1>16, <3>1, <3>2
      <3>4. EnUnLugar' BY <1>7, <1>16, <3>1, <3>3, MismoLugar DEF ArchInv
      <3>5. claves' = {} BY <1>15, <3>1
      <3>6. Cerrojo' BY <1>14, <3>1, <3>3, <3>5 DEF Cerrojo
      <3> QED BY <3>3, <3>4, <3>5, <3>6
   <2>2. CASE CerrarYDespierta(p)
      <3>1. /\ file_kernel' = [open |-> FALSE, pcbs |-> Tail(s)] /\ s # <<>>
            /\ listos' = listos \cup {Head(s)} /\ UNCHANGED <<claves, liberado>>
         BY <1>16, <2>2 DEF CerrarYDespierta
      <3>2. PICK t : t = Tail(s) OBVIOUS
      <3>3. PICK h : h = Head(s) OBVIOUS
      <3>4. /\ t \in Seq(Pids) /\ Len(t) = Len(s) - 1 /\ h = s[1] /\ h \in Pids
            /\ Len(s) \in Nat /\ Len(s) > 0
            /\ \A i \in 1 .. Len(t) : t[i] = s[i + 1] /\ i + 1 \in 1 .. Len(s)
         BY <3>1, <3>2, <3>3
      <3>5. /\ file_kernel'.open = FALSE /\ file_kernel'.pcbs = t
            /\ file_kernel' \in [open : BOOLEAN, pcbs : Seq(Pids)]
         BY <3>1, <3>2, <3>4
      <3>6. EnUnLugar /\ EnCola = {s[i] : i \in 1 .. Len(s)}
         BY <1>16 DEF ArchInv, EnCola, ToSet
      <3>7. \A i, j \in 1 .. Len(s) : s[i] = s[j] => i = j BY <1>16, <3>6 DEF EnUnLugar
      <3>8. EnCola' = {t[i] : i \in 1 .. Len(t)}
         <4>1. EnCola' = ToSet(t) BY <3>5 DEF EnCola
         <4>2. DOMAIN t = 1 .. Len(t) BY <3>4
         <4> QED BY <4>1, <4>2 DEF ToSet
      <3>9. EnCola = EnCola' \cup {h} /\ h \notin EnCola'
         <4>1. EnCola' \cup {h} \subseteq EnCola
            <5>1. 1 \in 1 .. Len(s) BY <3>4
            <5> QED BY <3>4, <3>6, <3>8, <5>1
         <4>2. ASSUME NEW i \in 1 .. Len(s) PROVE s[i] \in EnCola' \cup {h}
            <5>1. i = 1 \/ (i - 1 \in 1 .. Len(t) /\ (i - 1) + 1 = i) BY <3>4
            <5> QED BY <3>4, <3>8, <5>1
         <4>3. ASSUME NEW i \in 1 .. Len(t) PROVE t[i] # h
            <5>1. i + 1 # 1 /\ 1 \in 1 .. Len(s) BY <3>4
            <5> QED BY <3>4, <3>7, <5>1
         <4> QED BY <3>6, <3>8, <4>1, <4>2, <4>3
      <3>10. EnUnLugar'
         <4>1. \A i, j \in 1 .. Len(t) : t[i] = t[j] => i = j
            <5> SUFFICES ASSUME NEW i \in 1 .. Len(t), NEW j \in 1 .. Len(t), t[i] = t[j]
                         PROVE  i = j
               OBVIOUS
            <5>1. i + 1 = j + 1 BY <3>4, <3>7
            <5> QED BY <5>1
         <4>2. h # ejecutando /\ h # enFS /\ h \notin listos \cup terminados
            BY <3>6, <3>9 DEF EnUnLugar
         <4>3. \A i, j \in 1 .. Len(file_kernel'.pcbs) :
                  file_kernel'.pcbs[i] = file_kernel'.pcbs[j] => i = j
            BY <3>5, <4>1
         <4>4. listos' = listos \cup {h} BY <3>1, <3>3
         <4> QED BY <1>7, <3>4, <3>6, <3>9, <4>2, <4>3, <4>4 DEF EnUnLugar
      <3>11. Cerrojo' BY <1>14, <1>15, <3>1, <3>5 DEF Cerrojo
      <3>12. claves' \subseteq Archivos BY <1>5, <1>15, <3>1
      <3> QED BY <3>5, <3>10, <3>11, <3>12
   <2> QED BY <2>1, <2>2
<1>18. Pedido' BY <1>5, <1>7 DEF Pedido
<1>19. /\ abiertos'[p] = IF FALSE THEN Archivos ELSE {}
       /\ mensajeFileSystem' \in {"NADA", "REQ_ABRIR_ARCHIVO"} \cup Transferencias
       /\ parametroChar' \in Nombres /\ parametroInt' \in Pids \cup {Nadie}
       /\ l \in Seq(Entradas)
   BY <1>5, <1>7, <1>10, <1>12 DEF Entradas, ArchInv, Formas
<1>20. ArchInv' /\ \A q \in Pids \ {p} : abiertos[q] # {} => Contexto(q)' = Contexto(q)
   BY <1>5, <1>7, <1>8, <1>12, <1>13, <1>17, <1>18, <1>19, PropiosArchInv
<1> QED BY <1>1, <1>5, <1>7, <1>8, <1>20

\* The Filesystem answers.
LEMMA FsRespondeArchInv ==
    ASSUME ArchInv, UnSoloArchivo, FsResponde
    PROVE  /\ ArchInv' /\ UNCHANGED <<abiertos, ultima, indefinido>>
           /\ \A q \in Pids : abiertos[q] # {} => Contexto(q)' = Contexto(q)
<1>1. /\ Avanza(enFS) /\ listos' = listos \cup {enFS} /\ enFS' = Nadie
      /\ hiloFS = "recibe" /\ hiloFS' = "espera" /\ enFS # Nadie
      /\ UNCHANGED <<programa, archivos_abiertos, claves, file_kernel, liberado, parametroChar,
                     parametroInt, ejecutando, terminados, mensajeFileSystem, avisoFS,
                     indefinido, abiertos, ultima>>
   BY DEF FsResponde, tablas, historia, fallas, ArchInv, EnTransferencia
<1>2. PICK p \in Pids : p = enFS BY <1>1 DEF ArchInv, EnUnLugar
<1>3. Instr(p).op \in Transferencias /\ abiertos[p] # {} /\ ejecutando # p
   BY <1>1, <1>2 DEF ArchInv, EnTransferencia, EnUnLugar
<1>4. TieneArchivo(p) /\ Sigue(p, TRUE)
   <2>1. Instr(p).op \in OpsDeArchivo BY <1>3 DEF Transferencias, OpsDeArchivo
   <2>2. TieneArchivo(p) /\ Sigue(p, Instr(p).op # "F_CLOSE") BY <1>3, <2>1, LaInstruccion
   <2>3. PICK b : b = (Instr(p).op # "F_CLOSE") OBVIOUS
   <2>4. b = TRUE BY <1>3, <2>3 DEF Transferencias
   <2> QED BY <2>2, <2>3, <2>4
<1>5. /\ program_counter' \in [Pids -> Nat]
      /\ \A q \in Pids : program_counter'[q] < Len(programa'[q])
      /\ TieneArchivo(p)' = TRUE
      /\ \A q \in Pids : q # p => TieneArchivo(q)' = TieneArchivo(q) /\ Instr(q)' = Instr(q)
   BY <1>1, <1>2, <1>4, AlAvanzar DEF ArchInv
<1>6. Formas' BY <1>1, <1>5 DEF ArchInv, Formas
<1>7. EnUnLugar'
   <2>1. EnUnLugar /\ EnCola' = EnCola BY <1>1 DEF ArchInv, EnCola
   <2>2. Nadie \notin Pids BY ArchivosAssumption DEF Nadie
   <2>3. EnCola \subseteq Pids
      <3>1. file_kernel.pcbs \in Seq(Pids) BY DEF ArchInv, Formas
      <3> QED BY <3>1 DEF EnCola, ToSet
   <2> QED BY <1>1, <1>2, <1>3, <2>1, <2>2, <2>3 DEF EnUnLugar
<1>8. Sesiones'
   <2>1. \A q \in Pids : abiertos[q] = IF TieneArchivo(q) THEN Archivos ELSE {}
      BY DEF ArchInv, Sesiones
   <2>2. \A q \in Pids : abiertos'[q] = IF TieneArchivo(q)' THEN Archivos ELSE {}
      BY <1>1, <1>4, <1>5, <2>1
   <2> QED BY <2>2 DEF Sesiones
<1>9. Cerrojo' BY <1>1 DEF ArchInv, Cerrojo
<1>10. \A q \in Pids : Tabla(q)' /\ (abiertos[q] # {} => Contexto(q)' = Contexto(q))
   <2> SUFFICES ASSUME NEW q \in Pids
                PROVE  Tabla(q)' /\ (abiertos[q] # {} => Contexto(q)' = Contexto(q))
      OBVIOUS
   <2>1. Formas /\ Tabla(q) BY DEF ArchInv
   <2>2. ejecutando # q \/ ejecutando' = q BY <1>1
   <2> QED BY <1>1, <2>1, <2>2, TablaQuieta
<1>11. Pedido'
   <2> SUFFICES ASSUME avisoFS, mensajeFileSystem \in Transferencias PROVE Pedido'
      BY <1>1 DEF Pedido
   <2>1. ejecutando \in Pids \ {p} BY <1>3 DEF ArchInv, Pedido, EnUnLugar
   <2>2. PICK q \in Pids \ {p} : q = ejecutando BY <2>1
   <2>3. Instr(ejecutando)' = Instr(q)' BY <1>1, <2>2 DEF Instr
   <2>4. Instr(ejecutando)' = Instr(ejecutando) BY <1>5, <2>2, <2>3
   <2> QED BY <1>1, <2>4 DEF ArchInv, Pedido, Compartida
<1>12. EnTransferencia' BY <1>1 DEF EnTransferencia
<1> QED BY <1>1, <1>6, <1>7, <1>8, <1>9, <1>10, <1>11, <1>12 DEF ArchInv

-----------------------------------------------------------------------------
(* The invariant, and what it says. *)

LEMMA InitArchInv == Init => ArchInv
<1> SUFFICES ASSUME Init PROVE ArchInv OBVIOUS
<1>1. /\ programa \in [Pids -> Programas]
      /\ claves = {} /\ file_kernel = [open |-> FALSE, pcbs |-> <<>>]
      /\ liberado = FALSE /\ parametroChar = ""
      /\ listos = Pids /\ ejecutando = Nadie /\ terminados = {}
      /\ mensajeFileSystem = "NADA" /\ avisoFS = FALSE /\ parametroInt = Nadie
      /\ hiloFS = "espera" /\ enFS = Nadie
      /\ abiertos = [p \in Pids |-> {}]
   BY DEF Init
<1>9. /\ program_counter = [p \in Pids |-> 0] /\ archivos_abiertos = [p \in Pids |-> <<>>]
   BY DEF Init
<1>10. /\ program_counter \in [Pids -> Nat] /\ archivos_abiertos \in [Pids -> Seq(Entradas)]
       /\ \A p \in Pids : program_counter[p] = 0 /\ archivos_abiertos[p] = <<>>
   BY <1>9
<1>11. /\ file_kernel \in [open : BOOLEAN, pcbs : Seq(Pids)]
       /\ ~file_kernel.open /\ file_kernel.pcbs = <<>>
   <2>1. file_kernel = [open |-> FALSE, pcbs |-> <<>>] BY DEF Init
   <2> QED BY <2>1
<1>2. Nadie \notin Pids BY ArchivosAssumption DEF Nadie
<1>3. Formas
   <2>1. \A pr \in Programas : 0 < Len(pr)
      <3>1. \A pr \in Programas : Len(pr) \in Nat \ {0} BY ProgramasAssumption
      <3> QED BY <3>1
   <2>2. "" \in Nombres BY DEF Nombres
   <2> QED BY <1>1, <1>10, <1>11, <2>1, <2>2 DEF Formas
<1>4. EnUnLugar
   <2>1. EnCola = {}
      <3>1. DOMAIN file_kernel.pcbs = {} BY <1>11
      <3> QED BY <3>1 DEF EnCola, ToSet
   <2>2. \A i, j \in 1 .. Len(file_kernel.pcbs) :
            file_kernel.pcbs[i] = file_kernel.pcbs[j] => i = j
      <3>1. Len(file_kernel.pcbs) = 0 BY <1>11
      <3> QED BY <3>1
   <2> QED BY <1>1, <1>2, <2>1, <2>2 DEF EnUnLugar
<1>5. Sesiones
   <2> SUFFICES ASSUME NEW p \in Pids
                PROVE  abiertos[p] = IF TieneArchivo(p) THEN Archivos ELSE {}
      BY DEF Sesiones
   <2>1. PICK pr \in Programas : pr = programa[p] BY <1>1
   <2>2. EsSesion(pr, Sesion(pr)) BY ProgramasAssumption DEF Sesion
   <2>3. TieneArchivo(p) = Sesion(pr)[1]
      <3>1. program_counter[p] + 1 = 1 BY <1>10
      <3> QED BY <2>1, <3>1 DEF TieneArchivo
   <2>4. ~Sesion(pr)[1] BY <2>2 DEF EsSesion
   <2> QED BY <1>1, <2>3, <2>4
<1>6. Cerrojo BY <1>1, <1>11 DEF Cerrojo
<1>7. ASSUME NEW p \in Pids PROVE Tabla(p)
   <2>1. archivos_abiertos[p] = <<>> /\ abiertos[p] = {} BY <1>1, <1>10
   <2>2. Len(archivos_abiertos[p]) = 0 BY <2>1
   <2>3. 1 .. Len(archivos_abiertos[p]) = {} BY <2>2
   <2>4. SoloApunta(archivos_abiertos[p], 0) BY <2>3 DEF SoloApunta
   <2> QED BY <2>1, <2>3, <2>4 DEF Tabla
<1>8. Pedido /\ EnTransferencia BY <1>1 DEF Pedido, EnTransferencia
<1> QED BY <1>3, <1>4, <1>5, <1>6, <1>7, <1>8 DEF ArchInv

LEMMA NextArchInv == UnSoloArchivo /\ ArchInv /\ [Next]_vars => ArchInv'
<1> SUFFICES ASSUME UnSoloArchivo, ArchInv, [Next]_vars PROVE ArchInv' OBVIOUS
<1>1. ASSUME NEW p \in Pids, AbrirEspera(p) \/ AbrirCerrado(p) \/ AbrirNuevo(p) PROVE ArchInv'
   BY <1>1, AbrirArchInv
<1>2. ASSUME NEW p \in Pids, CerrarUltimo(p) \/ CerrarYDespierta(p) PROVE ArchInv'
   BY <1>2, CerrarArchInv
<1>3. ASSUME NEW p \in Pids, UsoIndefinido(p) \/ RecibeCopia(p) PROVE ArchInv'
   BY <1>3, IndefinidoArchInv
<1>4. ASSUME NEW p \in Pids, Posicionar(p) PROVE ArchInv' BY <1>4, PosicionarArchInv
<1>5. ASSUME NEW p \in Pids, PedirTransferencia(p) \/ UsarRecurso(p) \/ Ceder(p) PROVE ArchInv'
   BY <1>5, ContextoArchInv
<1>6. ASSUME NEW p \in Pids, Terminar(p) \/ TerminarConError(p) PROVE ArchInv'
   BY <1>6, TerminarArchInv
<1>7. ASSUME NEW p \in Pids, Despacha(p) PROVE ArchInv' BY <1>7, DespachaArchInv
<1>8. CASE FsAbre BY <1>8, FsAbreArchInv
<1>9. CASE FsToma \/ FsBusca \/ FsEnvia
   BY <1>9, FsTomaArchInv, FsBuscaArchInv, FsEnviaArchInv
<1>10. CASE FsResponde BY <1>10, FsRespondeArchInv
<1>11. CASE UNCHANGED vars
   <2>1. UNCHANGED <<programa, program_counter, archivos_abiertos, claves, file_kernel, liberado,
                     parametroChar, parametroInt, listos, ejecutando, terminados,
                     mensajeFileSystem, avisoFS, hiloFS, enFS, file_pcb, indefinido, abiertos>>
      BY <1>11 DEF vars, pcbs, tablas, colas, historia, fs, hilo, fallas
   <2>2. EnUnLugar' BY <2>1, MismoLugar DEF ArchInv
   <2>3. EnTransferencia' BY <2>1, HiloQuieto
   <2> QED BY <2>1, <2>2, <2>3, QuietosArchInv
<1> QED BY <1>1, <1>2, <1>3, <1>4, <1>5, <1>6, <1>7, <1>8, <1>9, <1>10, <1>11 DEF Next

\* ArchInv holds always, of any number of processes and programs, with one file.
THEOREM ArchivosInductivo == ASSUME UnSoloArchivo PROVE Spec => []ArchInv
BY InitArchInv, NextArchInv, PTL DEF Spec

\* The places of a process count up to the processes there are.
LEMMA ArchInvTipos == ArchInv => TypeOK
<1> SUFFICES ASSUME ArchInv PROVE TypeOK OBVIOUS
<1>1. PICK E : E = {ejecutando, enFS} \ {Nadie} OBVIOUS
<1>2. EnUnLugar BY DEF ArchInv
<1>3. Nadie \notin Pids /\ IsFiniteSet(Pids) BY ArchivosAssumption DEF Nadie
<1>4. PICK s \in Seq(Pids) : s = file_kernel.pcbs BY DEF ArchInv, Formas
<1>5. EnCola \subseteq Pids BY <1>4 DEF EnCola, ToSet
<1>6. listos \subseteq Pids /\ terminados \subseteq Pids /\ E \subseteq Pids
   BY <1>1, <1>2 DEF EnUnLugar
<1>7. /\ listos \cap E = {} /\ (listos \cup E) \cap EnCola = {}
      /\ (listos \cup E \cup EnCola) \cap terminados = {}
      /\ listos \cup E \cup EnCola \cup terminados = Pids
   BY <1>1, <1>2, <1>3, <1>5, <1>6 DEF EnUnLugar
<1>8. /\ IsFiniteSet(listos) /\ IsFiniteSet(E) /\ IsFiniteSet(EnCola) /\ IsFiniteSet(terminados)
   BY <1>3, <1>5, <1>6, FS_Subset
<1>9. /\ Cardinality(listos) \in Nat /\ Cardinality(E) \in Nat /\ Cardinality(EnCola) \in Nat
      /\ Cardinality(terminados) \in Nat /\ Cardinality({}) = 0
   BY <1>8, FS_CardinalityType, FS_EmptySet
<1>10. /\ IsFiniteSet(listos \cup E)
       /\ Cardinality(listos \cup E) = Cardinality(listos) + Cardinality(E)
   <2>1. /\ IsFiniteSet(listos \cup E)
         /\ Cardinality(listos \cup E)
              = Cardinality(listos) + Cardinality(E) - Cardinality(listos \cap E)
      BY <1>8, FS_Union
   <2>2. PICK I : I = listos \cap E OBVIOUS
   <2>3. I = {} BY <1>7, <2>2
   <2>4. Cardinality(listos \cap E) = 0 BY <1>9, <2>2, <2>3
   <2> QED BY <1>7, <1>9, <2>1, <2>4
<1>11. /\ IsFiniteSet(listos \cup E \cup EnCola)
       /\ Cardinality(listos \cup E \cup EnCola)
            = Cardinality(listos) + Cardinality(E) + Cardinality(EnCola)
   <2>1. /\ IsFiniteSet(listos \cup E \cup EnCola)
         /\ Cardinality(listos \cup E \cup EnCola)
              = Cardinality(listos \cup E) + Cardinality(EnCola)
                - Cardinality((listos \cup E) \cap EnCola)
      BY <1>8, <1>10, FS_Union
   <2>2. PICK I : I = (listos \cup E) \cap EnCola OBVIOUS
   <2>3. I = {} BY <1>7, <2>2
   <2>4. Cardinality((listos \cup E) \cap EnCola) = 0 BY <1>9, <2>2, <2>3
   <2> QED BY <1>7, <1>9, <1>10, <2>1, <2>4
<1>12. Cardinality(listos) + Cardinality(E) + Cardinality(EnCola) + Cardinality(terminados)
          = Cardinality(Pids)
   <2>1. Cardinality((listos \cup E \cup EnCola) \cup terminados)
           = Cardinality(listos \cup E \cup EnCola) + Cardinality(terminados)
             - Cardinality((listos \cup E \cup EnCola) \cap terminados)
      BY <1>8, <1>11, FS_Union
   <2>2. PICK I : I = (listos \cup E \cup EnCola) \cap terminados OBVIOUS
   <2>3. I = {} BY <1>7, <2>2
   <2>4. Cardinality((listos \cup E \cup EnCola) \cap terminados) = 0 BY <1>9, <2>2, <2>3
   <2>5. PICK U : U = listos \cup E \cup EnCola \cup terminados OBVIOUS
   <2>6. U = Pids BY <1>7, <2>5
   <2>7. Cardinality((listos \cup E \cup EnCola) \cup terminados) = Cardinality(Pids)
      BY <2>5, <2>6
   <2> QED BY <1>9, <1>11, <2>1, <2>4, <2>7
<1>13. IsInjective(file_kernel.pcbs)
   <2>1. DOMAIN s = 1 .. Len(s) BY <1>4
   <2> QED BY <1>2, <1>4, <2>1 DEF EnUnLugar, IsInjective
<1>14. ASSUME NEW p \in Pids
       PROVE  /\ program_counter[p] \in 0 .. Len(programa[p]) - 1
              /\ \A e \in ToSet(archivos_abiertos[p]) : e = Compartida \/ e.pointer \in Posiciones
   <2>1. program_counter[p] \in Nat /\ program_counter[p] < Len(programa[p])
      BY DEF ArchInv, Formas
   <2>2. Len(programa[p]) \in Nat BY ProgramasAssumption DEF ArchInv, Formas
   <2>3. program_counter[p] \in 0 .. Len(programa[p]) - 1 BY <2>1, <2>2
   <2>4. archivos_abiertos[p] \in Seq(Entradas) BY DEF ArchInv, Formas
   <2>5. \A e \in ToSet(archivos_abiertos[p]) : e \in Entradas BY <2>4 DEF ToSet
   <2>6. \A e \in Entradas : e = Compartida \/ e.pointer \in Posiciones
      BY DEF Entradas, Propias
   <2> QED BY <2>3, <2>5, <2>6
<1>15. listos \cup ({ejecutando, enFS} \ {Nadie}) \cup EnCola \cup terminados = Pids
   BY <1>1, <1>7
<1>16. /\ programa \in [Pids -> Programas] /\ claves \subseteq Archivos
       /\ file_kernel.open \in BOOLEAN /\ parametroInt \in Pids \cup {Nadie}
       /\ hiloFS \in {"espera", "busca", "envia", "recibe"} /\ (hiloFS = "espera" <=> enFS = Nadie)
   BY DEF ArchInv, Formas, EnTransferencia
<1> QED BY <1>1, <1>12, <1>13, <1>14, <1>15, <1>16 DEF TypeOK

\* Every process is in one place, and every table has entries of this Kernel.
THEOREM CadaProcesoEnUnLugar == ASSUME UnSoloArchivo PROVE Spec => []TypeOK
BY ArchivosInductivo, ArchInvTipos, PTL

\* The same file is never open for two processes.
THEOREM AperturaExclusiva == ASSUME UnSoloArchivo PROVE Spec => []UnSoloDuenio
<1>1. ArchInv => UnSoloDuenio BY DEF ArchInv, Cerrojo, UnSoloDuenio
<1> QED BY <1>1, ArchivosInductivo, PTL

-----------------------------------------------------------------------------
(* The refinement of LocksDeArchivos. *)

\* where each process is in each file: what ArchivosAbiertos gives for posicion
Pos == [p \in Pids |-> [f \in Archivos |->
          IF f \in abiertos[p]
          THEN Contexto(p)[buscarFile(Contexto(p), f)].pointer ELSE 0]]

LEMMA InitLocks == Init => Locks!Init
<1> SUFFICES ASSUME Init PROVE Locks!Init OBVIOUS
<1>1. abiertos = [p \in Pids |-> {}] /\ ultima = <<>> /\ indefinido = FALSE BY DEF Init
<1>2. Pos = [p \in Pids |-> [f \in Archivos |-> 0]] BY <1>1 DEF Pos
<1> QED BY <1>1, <1>2 DEF Locks!Init, Pos

\* Nobody moves where no table that is open changes.
LEMMA PosQuieta ==
    ASSUME UNCHANGED abiertos, \A q \in Pids : abiertos[q] # {} => Contexto(q)' = Contexto(q)
    PROVE  Pos' = Pos
<1>1. ASSUME NEW q \in Pids, NEW f \in Archivos
      PROVE  (IF f \in abiertos[q] THEN Contexto(q)[buscarFile(Contexto(q), f)].pointer ELSE 0)'
             = (IF f \in abiertos[q] THEN Contexto(q)[buscarFile(Contexto(q), f)].pointer ELSE 0)
   <2>1. CASE f \in abiertos[q]
      <3>1. PICK c : c = Contexto(q) OBVIOUS
      <3>2. Contexto(q)' = c BY <2>1, <3>1
      <3> QED BY <2>1, <3>1, <3>2
   <2>2. CASE f \notin abiertos[q] BY <2>2
   <2> QED BY <2>1, <2>2
<1> QED BY <1>1 DEF Pos

\* What one process does to its place in the only file.
LEMMA PosDeUno ==
    ASSUME NEW p \in Pids, NEW f, Archivos = {f}, NEW n,
           \A q \in Pids \ {p} : abiertos'[q] = abiertos[q]
                                 /\ (abiertos[q] # {} => Contexto(q)' = Contexto(q)),
           \/ abiertos'[p] = {} /\ n = 0
           \/ abiertos'[p] = {f} /\ Contexto(p)'[buscarFile(Contexto(p)', f)].pointer = n
    PROVE  Pos' = [Pos EXCEPT ![p][f] = n]
<1>1. ASSUME NEW q \in Pids \ {p}
      PROVE  (IF f \in abiertos[q] THEN Contexto(q)[buscarFile(Contexto(q), f)].pointer ELSE 0)'
             = (IF f \in abiertos[q] THEN Contexto(q)[buscarFile(Contexto(q), f)].pointer ELSE 0)
   <2>1. CASE f \in abiertos[q]
      <3>1. PICK c : c = Contexto(q) OBVIOUS
      <3>2. Contexto(q)' = c BY <2>1, <3>1
      <3> QED BY <2>1, <3>1, <3>2
   <2>2. CASE f \notin abiertos[q] BY <2>2
   <2> QED BY <2>1, <2>2
<1>2. (IF f \in abiertos[p] THEN Contexto(p)[buscarFile(Contexto(p), f)].pointer ELSE 0)' = n
   <2>1. CASE abiertos'[p] = {} /\ n = 0 BY <2>1
   <2>2. CASE abiertos'[p] = {f} /\ Contexto(p)'[buscarFile(Contexto(p)', f)].pointer = n
      <3>1. f \in abiertos'[p] BY <2>2
      <3> QED BY <2>2, <3>1
   <2> QED BY <2>1, <2>2
<1>3. Pos' = [q \in Pids |-> [g \in Archivos |->
                IF g \in abiertos'[q]
                THEN Contexto(q)'[buscarFile(Contexto(q)', g)].pointer ELSE 0]]
   BY DEF Pos
<1>4. PICK P : P = Pos OBVIOUS
<1>5. /\ P \in [Pids -> [{f} -> {P[q][f] : q \in Pids}]]
      /\ \A q \in Pids : P[q][f] = IF f \in abiertos[q]
                                   THEN Contexto(q)[buscarFile(Contexto(q), f)].pointer ELSE 0
   BY <1>4 DEF Pos
<1>6. PICK R : R = Pos' OBVIOUS
<1>7. /\ R = [q \in Pids |-> [g \in {f} |-> R[q][g]]]
      /\ \A q \in Pids : R[q][f] = (IF f \in abiertos[q]
                                   THEN Contexto(q)[buscarFile(Contexto(q), f)].pointer ELSE 0)'
   BY <1>3, <1>6
<1>8. \A q \in Pids : R[q][f] = IF q = p THEN n ELSE P[q][f]
   BY <1>1, <1>2, <1>5, <1>7
<1>9. R = [P EXCEPT ![p][f] = n]
   <2>1. PICK T : T = [P EXCEPT ![p][f] = n] OBVIOUS
   <2>2. /\ T = [q \in Pids |-> [g \in {f} |-> T[q][g]]]
         /\ \A q \in Pids : T[q][f] = IF q = p THEN n ELSE P[q][f]
      BY <1>5, <2>1
   <2>3. \A q \in Pids : [g \in {f} |-> R[q][g]] = [g \in {f} |-> T[q][g]] BY <1>8, <2>2
   <2> QED BY <1>7, <2>1, <2>2, <2>3
<1> QED BY <1>4, <1>6, <1>9

\* A transfer is of the file that the process has open, at its place in it, or it went
\* out with what another request left.
LEMMA TransferenciaEnSuLugar ==
    ASSUME ArchInv, UnSoloArchivo, FsEnvia
    PROVE  \/ UNCHANGED ultima
           \/ ultima' = <<>>
           \/ \E p \in Pids, f \in Archivos :
                 f \in abiertos[p] /\ ultima' = <<p, f, Pos[p][f]>>
<1> SUFFICES ASSUME ~UNCHANGED ultima, ultima' # <<>>
             PROVE  \E p \in Pids, f \in Archivos :
                       f \in abiertos[p] /\ ultima' = <<p, f, Pos[p][f]>>
   OBVIOUS
<1>1. hiloFS = "envia" /\ ~indefinido /\ enFS # Nadie BY DEF FsEnvia, ArchInv, EnTransferencia
<1>2. PICK p \in Pids : p = enFS BY <1>1 DEF ArchInv, EnUnLugar
<1>3. PICK f : f = parametroChar OBVIOUS
<1>4. PICK s \in Seq(Entradas) : s = archivos_abiertos[p] BY DEF ArchInv, Formas
<1>5. /\ Suyos(p) /\ mensajeFileSystem # "F_TRUNCATE"
      /\ ultima' = <<p, f, s[file_pcb].pointer>>
   BY <1>2, <1>3, <1>4 DEF FsEnvia
<1>6. Instr(p).op # "F_TRUNCATE" /\ Instr(p).arch = f /\ s[file_pcb].filename = f
   BY <1>3, <1>4, <1>5 DEF Suyos
<1>7. /\ Instr(p).op \in Transferencias /\ abiertos[p] # {}
      /\ \A i \in 1 .. Len(s) : s[i] # Compartida
      /\ file_pcb # 0 /\ \E g \in Nombres : file_pcb = buscarFile(s, g)
   BY <1>1, <1>2, <1>4, <1>6 DEF ArchInv, EnTransferencia
<1>8. abiertos[p] = {f} /\ f \in Archivos
   <2>1. Instr(p).op \in OpsDeArchivo BY <1>7 DEF OpsDeArchivo
   <2> QED BY <1>6, <1>7, <2>1, LaInstruccion
<1>9. file_pcb = buscarFile(s, f)
   <2>1. PICK g \in Nombres : file_pcb = buscarFile(s, g) BY <1>7
   <2>2. s[file_pcb].filename = g BY <1>7, <2>1, PrimeraEntrada
   <2> QED BY <1>6, <2>1, <2>2
<1>10. Contexto(p) = s
   <2>1. DOMAIN s = 1 .. Len(s) /\ s = [i \in 1 .. Len(s) |-> s[i]] BY <1>4
   <2> QED BY <1>4, <1>7, <2>1 DEF Contexto
<1>11. Pos[p][f] = s[file_pcb].pointer BY <1>8, <1>9, <1>10 DEF Pos
<1> QED BY <1>5, <1>8, <1>11

\* Each step is one of the locks, or none, or what the Kernel does with memory it
\* freed.
LEMMA PasoDeLocks ==
    ASSUME UnSoloArchivo, ArchInv, [Next]_vars
    PROVE  \/ indefinido'
           \/ UNCHANGED <<abiertos, Pos, ultima>> /\ (indefinido' <=> indefinido)
           \/ /\ ~indefinido /\ ~indefinido'
              /\ ultima' = <<>> /\ UNCHANGED <<abiertos, Pos>>
           \/ /\ ~indefinido /\ ~indefinido'
              /\ \E p \in Pids, f \in Archivos :
                    \/ /\ \A q \in Pids : f \notin abiertos[q]
                       /\ abiertos' = [abiertos EXCEPT ![p] = @ \cup {f}]
                       /\ UNCHANGED <<Pos, ultima>>
                    \/ /\ f \in abiertos[p]
                       /\ abiertos' = [abiertos EXCEPT ![p] = @ \ {f}]
                       /\ Pos' = [Pos EXCEPT ![p][f] = 0]
                       /\ UNCHANGED ultima
                    \/ /\ f \in abiertos[p]
                       /\ \E n \in Posiciones : Pos' = [Pos EXCEPT ![p][f] = n]
                       /\ UNCHANGED <<abiertos, ultima>>
                    \/ /\ f \in abiertos[p]
                       /\ ultima' = <<p, f, Pos[p][f]>>
                       /\ UNCHANGED <<abiertos, Pos>>
<1> DEFINE Abre(p, f) ==
              /\ \A q \in Pids : f \notin abiertos[q]
              /\ abiertos' = [abiertos EXCEPT ![p] = @ \cup {f}]
              /\ UNCHANGED <<Pos, ultima>>
           Cierra(p, f) ==
              /\ f \in abiertos[p]
              /\ abiertos' = [abiertos EXCEPT ![p] = @ \ {f}]
              /\ Pos' = [Pos EXCEPT ![p][f] = 0]
              /\ UNCHANGED ultima
           Mueve(p, f) ==
              /\ f \in abiertos[p]
              /\ \E n \in Posiciones : Pos' = [Pos EXCEPT ![p][f] = n]
              /\ UNCHANGED <<abiertos, ultima>>
           Transfiere(p, f) ==
              /\ f \in abiertos[p]
              /\ ultima' = <<p, f, Pos[p][f]>>
              /\ UNCHANGED <<abiertos, Pos>>
           Desviada == ultima' = <<>> /\ UNCHANGED <<abiertos, Pos>>
           Alguno == \E p \in Pids, f \in Archivos :
                        Abre(p, f) \/ Cierra(p, f) \/ Mueve(p, f) \/ Transfiere(p, f)
           Nada == UNCHANGED <<abiertos, Pos, ultima>>
<1>1. ASSUME NEW p \in Pids, AbrirEspera(p) \/ AbrirCerrado(p) \/ AbrirNuevo(p)
      PROVE  (indefinido' <=> indefinido) /\ (Alguno \/ Nada)
   <2>1. PICK f \in Archivos : f = Instr(p).arch BY <1>1, AbrirArchInv
   <2>2. Archivos = {f} BY DEF UnSoloArchivo
   <2>3. /\ UNCHANGED <<ultima, indefinido>> /\ abiertos[p] = {}
         /\ \A q \in Pids \ {p} : abiertos[q] # {} => Contexto(q)' = Contexto(q)
         /\ \/ UNCHANGED abiertos
            \/ /\ \A q \in Pids : abiertos[q] = {}
               /\ abiertos' = [abiertos EXCEPT ![p] = {f}]
         /\ Contexto(p)'[buscarFile(Contexto(p)', f)].pointer = 0
      BY <1>1, <2>1, AbrirArchInv
   <2>4. CASE UNCHANGED abiertos
      <3>1. \A q \in Pids : abiertos[q] # {} => Contexto(q)' = Contexto(q) BY <2>3
      <3>2. Pos' = Pos BY <2>4, <3>1, PosQuieta
      <3> QED BY <2>3, <2>4, <3>2
   <2>5. CASE /\ \A q \in Pids : abiertos[q] = {}
              /\ abiertos' = [abiertos EXCEPT ![p] = {f}]
      <3>1. abiertos \in [Pids -> SUBSET Archivos] BY DEF ArchInv, Formas
      <3>2. abiertos'[p] = {f} /\ \A q \in Pids \ {p} : abiertos'[q] = abiertos[q]
         BY <2>5, <3>1
      <3>3. Pos' = [Pos EXCEPT ![p][f] = 0] BY <2>2, <2>3, <3>2, PosDeUno
      <3>4. Pos = [q \in Pids |-> [g \in Archivos |-> 0]] BY <2>5 DEF Pos
      <3>5. Pos' = Pos BY <3>3, <3>4
      <3>6. abiertos' = [abiertos EXCEPT ![p] = @ \cup {f}] BY <2>3, <2>5
      <3>7. \A q \in Pids : f \notin abiertos[q] BY <2>5
      <3>8. Abre(p, f) BY <2>3, <3>5, <3>6, <3>7
      <3> QED BY <2>3, <3>8
   <2> QED BY <2>3, <2>4, <2>5
<1>2. ASSUME NEW p \in Pids, CerrarUltimo(p) \/ CerrarYDespierta(p)
      PROVE  (indefinido' <=> indefinido) /\ Alguno
   <2>1. PICK f : f = Instr(p).arch OBVIOUS
   <2>2. /\ UNCHANGED <<ultima, indefinido>> /\ Archivos = {f} /\ abiertos[p] = {f}
         /\ \A q \in Pids \ {p} : abiertos[q] # {} => Contexto(q)' = Contexto(q)
         /\ abiertos' = [abiertos EXCEPT ![p] = {}]
      BY <1>2, <2>1, CerrarArchInv
   <2>3. abiertos \in [Pids -> SUBSET Archivos] BY DEF ArchInv, Formas
   <2>4. abiertos'[p] = {} /\ \A q \in Pids \ {p} : abiertos'[q] = abiertos[q]
      BY <2>2, <2>3
   <2>5. Pos' = [Pos EXCEPT ![p][f] = 0] BY <2>2, <2>4, PosDeUno
   <2>6. abiertos' = [abiertos EXCEPT ![p] = @ \ {f}]
      <3>1. abiertos[p] \ {f} = {} BY <2>2
      <3> QED BY <2>2, <3>1
   <2>7. f \in Archivos /\ f \in abiertos[p] BY <2>2
   <2>8. Cierra(p, f) BY <2>2, <2>5, <2>6, <2>7
   <2> QED BY <2>2, <2>7, <2>8
<1>3. ASSUME NEW p \in Pids, Posicionar(p) PROVE (indefinido' <=> indefinido) /\ Alguno
   <2>1. PICK f : f = Instr(p).arch OBVIOUS
   <2>2. PICK n : n = Instr(p).pos OBVIOUS
   <2>3. /\ UNCHANGED <<abiertos, ultima, indefinido>> /\ Archivos = {f} /\ abiertos[p] = {f}
         /\ \A q \in Pids \ {p} : abiertos[q] # {} => Contexto(q)' = Contexto(q)
         /\ Contexto(p)'[buscarFile(Contexto(p)', f)].pointer = n /\ n \in Posiciones
      BY <1>3, <2>1, <2>2, PosicionarArchInv
   <2>4. abiertos'[p] = {f} /\ \A q \in Pids \ {p} : abiertos'[q] = abiertos[q] BY <2>3
   <2>5. Pos' = [Pos EXCEPT ![p][f] = n] BY <2>3, <2>4, PosDeUno
   <2>6. f \in Archivos /\ f \in abiertos[p] BY <2>3
   <2>7. Mueve(p, f) BY <2>3, <2>5, <2>6
   <2> QED BY <2>3, <2>6, <2>7
<1>4. ASSUME NEW p \in Pids,
             \/ PedirTransferencia(p) \/ UsarRecurso(p) \/ Ceder(p)
             \/ Terminar(p) \/ TerminarConError(p) \/ Despacha(p)
      PROVE  (indefinido' <=> indefinido) /\ Nada
   <2>1. UNCHANGED <<abiertos, ultima, indefinido>>
      BY <1>4 DEF PedirTransferencia, UsarRecurso, Ceder, Terminar, TerminarConError, Finaliza,
                  Despacha, historia, fallas
   <2>2. \A q \in Pids : abiertos[q] # {} => Contexto(q)' = Contexto(q)
      BY <1>4, ContextoArchInv, TerminarArchInv, DespachaArchInv
   <2>3. Pos' = Pos BY <2>1, <2>2, PosQuieta
   <2> QED BY <2>1, <2>3
<1>5. ASSUME FsAbre \/ FsToma \/ FsResponde PROVE (indefinido' <=> indefinido) /\ Nada
   <2>1. UNCHANGED <<abiertos, ultima, indefinido>>
      BY <1>5 DEF FsAbre, FsToma, FsResponde, historia, fallas
   <2>2. \A q \in Pids : abiertos[q] # {} => Contexto(q)' = Contexto(q)
      BY <1>5, FsAbreArchInv, FsTomaArchInv, FsRespondeArchInv
   <2>3. Pos' = Pos BY <2>1, <2>2, PosQuieta
   <2> QED BY <2>1, <2>3
<1>6. ASSUME FsEnvia PROVE (indefinido' <=> indefinido) /\ (Alguno \/ Desviada \/ Nada)
   <2>1. UNCHANGED <<abiertos, indefinido>> BY <1>6 DEF FsEnvia, fallas
   <2>2. \A q \in Pids : abiertos[q] # {} => Contexto(q)' = Contexto(q)
      BY <1>6, FsEnviaArchInv
   <2>3. Pos' = Pos BY <2>1, <2>2, PosQuieta
   <2>4. UNCHANGED ultima \/ ultima' = <<>>
         \/ \E p \in Pids, f \in Archivos : f \in abiertos[p] /\ ultima' = <<p, f, Pos[p][f]>>
      BY <1>6, TransferenciaEnSuLugar
   <2>5. Alguno \/ Desviada \/ Nada BY <2>1, <2>3, <2>4
   <2> QED BY <2>1, <2>5
<1>12. ASSUME FsBusca PROVE indefinido' \/ ((indefinido' <=> indefinido) /\ Nada)
   <2>1. /\ UNCHANGED <<abiertos, ultima>> /\ ~indefinido
      BY <1>12 DEF FsBusca, historia
   <2>2. \A q \in Pids : abiertos[q] # {} => Contexto(q)' = Contexto(q)
      BY <1>12, FsBuscaArchInv
   <2>3. Pos' = Pos BY <2>1, <2>2, PosQuieta
   <2> QED BY <2>1, <2>3
<1>7. ASSUME UNCHANGED vars PROVE (indefinido' <=> indefinido) /\ Nada
   <2>1. UNCHANGED <<abiertos, ultima, indefinido>> BY <1>7 DEF vars, historia, fallas
   <2>2. \A q \in Pids : Contexto(q)' = Contexto(q)
      BY <1>7 DEF vars, pcbs, tablas, Contexto, Compartida, Propia
   <2>3. Pos' = Pos BY <2>1, <2>2, PosQuieta
   <2> QED BY <2>1, <2>3
<1>8. ASSUME NEW p \in Pids, UsoIndefinido(p) \/ RecibeCopia(p) PROVE indefinido'
   BY <1>8 DEF UsoIndefinido, RecibeCopia
<1>9. indefinido' \/ ((indefinido' <=> indefinido) /\ (Alguno \/ Desviada \/ Nada))
   <2> HIDE DEF Abre, Cierra, Mueve, Transfiere, Desviada, Alguno, Nada
   <2>1. ASSUME NEW p \in Pids,
                \/ AbrirEspera(p) \/ AbrirCerrado(p) \/ AbrirNuevo(p)
                \/ CerrarUltimo(p) \/ CerrarYDespierta(p) \/ UsoIndefinido(p)
                \/ Posicionar(p) \/ PedirTransferencia(p)
                \/ UsarRecurso(p) \/ Ceder(p) \/ Terminar(p) \/ TerminarConError(p)
                \/ RecibeCopia(p) \/ Despacha(p)
         PROVE  indefinido' \/ ((indefinido' <=> indefinido) /\ (Alguno \/ Nada))
      BY <1>1, <1>2, <1>3, <1>4, <1>8, <2>1
   <2>2. CASE FsAbre \/ FsToma \/ FsResponde BY <1>5, <2>2
   <2>3. CASE FsEnvia BY <1>6, <2>3
   <2>4. CASE FsBusca BY <1>12, <2>4
   <2>5. CASE UNCHANGED vars BY <1>7, <2>5
   <2> QED BY <2>1, <2>2, <2>3, <2>4, <2>5 DEF Next
<1> QED BY <1>9

\* While the programs use one file, and the Kernel does nothing undefined, F_OPEN is
\* an exclusive lock and every transfer is done where the last F_SEEK left the process,
\* or is sent with what the request of another process left in the globals.
THEOREM LocksImplementados == ASSUME UnSoloArchivo PROVE Spec => ImplementaLocks
<1>1. Init => Locks!Init BY InitLocks
<1>2. ArchInv /\ [Next]_vars => [Locks!Next]_(Locks!vars)
   <2> SUFFICES ASSUME ArchInv, [Next]_vars PROVE [Locks!Next]_(Locks!vars) OBVIOUS
   <2>1. CASE indefinido' BY <2>1 DEF Locks!Next
   <2>2. CASE UNCHANGED <<abiertos, Pos, ultima>> /\ (indefinido' <=> indefinido)
      BY <2>2 DEF Locks!vars, Pos
   <2>4. CASE /\ ~indefinido /\ ~indefinido'
              /\ ultima' = <<>> /\ UNCHANGED <<abiertos, Pos>>
      BY <2>4 DEF Locks!Next, Locks!Desvia, Pos
   <2>3. ASSUME ~indefinido, ~indefinido', NEW p \in Pids, NEW f \in Archivos,
                \/ /\ \A q \in Pids : f \notin abiertos[q]
                   /\ abiertos' = [abiertos EXCEPT ![p] = @ \cup {f}]
                   /\ UNCHANGED <<Pos, ultima>>
                \/ /\ f \in abiertos[p]
                   /\ abiertos' = [abiertos EXCEPT ![p] = @ \ {f}]
                   /\ Pos' = [Pos EXCEPT ![p][f] = 0]
                   /\ UNCHANGED ultima
                \/ /\ f \in abiertos[p]
                   /\ \E n \in Posiciones : Pos' = [Pos EXCEPT ![p][f] = n]
                   /\ UNCHANGED <<abiertos, ultima>>
                \/ /\ f \in abiertos[p]
                   /\ ultima' = <<p, f, Pos[p][f]>>
                   /\ UNCHANGED <<abiertos, Pos>>
         PROVE  Locks!Next
      <3>1. Locks!Abre(p, f) \/ Locks!Cierra(p, f) \/ Locks!Mueve(p, f) \/ Locks!Transfiere(p, f)
         BY <2>3 DEF Locks!Abre, Locks!Cierra, Locks!Mueve, Locks!Transfiere, Pos
      <3> QED BY <2>3, <3>1 DEF Locks!Next
   <2> QED BY <2>1, <2>2, <2>3, <2>4, PasoDeLocks
<1> QED BY <1>1, <1>2, ArchivosInductivo, PTL DEF Spec, ImplementaLocks, Locks!Spec
=============================================================================
