---------------------------- MODULE KernelProofs ----------------------------
(***************************************************************************)
(* What holds of the Kernel for every number of processes, degree of       *)
(* multiprogramming, set of resources and set of programs.                 *)
(***************************************************************************)
EXTENDS Kernel, TLAPS, FiniteSetTheorems, SequenceTheorems

USE DEF listas, buzones, params, recursos, nacimiento, efimeros, externo, sockets,
        Hilos, Mutexes, Etiquetas, EtiquetasCPU, EtiquetasMEM, EtiquetasFS,
        EtiquetasLP, EtiquetasCP

\* DuenioUnico with the four places spelled out.
UnDuenio ==
    /\ Len(listaExec) = 0 \/ Len(listaExec) = 1
    /\ Len(listaExec) = 0 =>
          ~libre["MENSAJEACPU"] /\ ~CpuTiene /\ ~MemTiene /\ ~libre["MENSAJEAFILESYSTEM"]
    /\ Len(listaExec) = 1 =>
          \/ libre["MENSAJEACPU"] /\ ~CpuTiene /\ ~MemTiene /\ ~libre["MENSAJEAFILESYSTEM"]
          \/ ~libre["MENSAJEACPU"] /\ CpuTiene /\ ~MemTiene /\ ~libre["MENSAJEAFILESYSTEM"]
          \/ ~libre["MENSAJEACPU"] /\ ~CpuTiene /\ MemTiene /\ ~libre["MENSAJEAFILESYSTEM"]
          \/ ~libre["MENSAJEACPU"] /\ ~CpuTiene /\ ~MemTiene /\ libre["MENSAJEAFILESYSTEM"]
    /\ CpuTiene => pcb["CPU"] = listaExec[1]
    /\ MemAtiende => pcb["MEM"] = listaExec[1]

\* The inductive invariant.
IInv == TypeOK /\ TestigoUnico /\ UnDuenio /\ AvisosDeAlta

-----------------------------------------------------------------------------
(* Lists *)

\* The head of a non-empty list of pids is a pid, and the tail is a list of pids.
LEMMA PrimeroYResto ==
    ASSUME NEW S, NEW l \in Seq(S)
    PROVE  /\ Resto(l) \in Seq(S)
           /\ l # <<>> => Primero(l) \in S /\ Primero(l) = l[1]
                          /\ Len(Resto(l)) = Len(l) - 1 /\ Len(l) # 0
           /\ Primero(l) \in S \cup {Nulo}
           /\ l = <<>> => Len(l) = 0
           /\ Len(l) = 0 => l = <<>>
BY DEF Primero, Resto

\* A list of one element is not empty.
LEMMA UnElemento ==
    ASSUME NEW S, NEW l \in Seq(S), Len(l) = 1
    PROVE  l # <<>>
OBVIOUS

\* A list of pids without one of its elements is a list of pids.
LEMMA SinElemento ==
    ASSUME NEW S, NEW l \in Seq(S), NEW i \in DOMAIN l
    PROVE  RemoveAt(l, i) \in Seq(S)
BY DEF RemoveAt

\* On typed states UnDuenio, the form the step lemmas use, says what
\* DuenioUnico says.
LEMMA UnDuenioEsDuenioUnico == ASSUME TypeOK PROVE UnDuenio <=> DuenioUnico
<1>1. listaExec \in Seq(Pids) BY DEF TypeOK, TiposListas
<1>2. /\ Len(listaExec) = 0 <=> listaExec = <<>>
      /\ Len(listaExec) = 1 => listaExec = <<listaExec[1]>>
      /\ \A x : listaExec = <<x>> => Len(listaExec) = 1 /\ listaExec[1] = x
      /\ Len(listaExec) \in Nat
   BY <1>1
<1>3. /\ "cpu_avisada" \in Portadores <=> libre["MENSAJEACPU"]
      /\ "CPU" \in Portadores <=> CpuTiene
      /\ "MEM" \in Portadores <=> MemTiene
      /\ "fs_avisado" \in Portadores <=> libre["MENSAJEAFILESYSTEM"]
      /\ \A x \in Portadores : x \in {"cpu_avisada", "CPU", "MEM", "fs_avisado"}
   BY DEF Portadores, Portador
<1>4. Portadores = {} <=> /\ ~libre["MENSAJEACPU"] /\ ~CpuTiene
                          /\ ~MemTiene /\ ~libre["MENSAJEAFILESYSTEM"]
   <2>1. ASSUME ~libre["MENSAJEACPU"] /\ ~CpuTiene, ~MemTiene /\ ~libre["MENSAJEAFILESYSTEM"]
         PROVE  Portadores = {}
      BY <1>3, <2>1
   <2> QED BY <1>3, <2>1
<1>5. ASSUME UnDuenio PROVE DuenioUnico
   <2>1. Len(listaExec) <= 1 BY <1>5 DEF UnDuenio
   <2>2. listaExec = <<>> <=> Portadores = {} BY <1>2, <1>4, <1>5 DEF UnDuenio
   <2>3. \A x, y \in Portadores : x = y
      <3>1. CASE Len(listaExec) = 0 BY <1>2, <2>2, <3>1
      <3>2. CASE Len(listaExec) = 1
         <4> SUFFICES ASSUME NEW x \in Portadores, NEW y \in Portadores PROVE x = y
            OBVIOUS
         <4> x \in {"cpu_avisada", "CPU", "MEM", "fs_avisado"}
             /\ y \in {"cpu_avisada", "CPU", "MEM", "fs_avisado"}
            BY <1>3
         <4> QED BY <1>3, <1>5, <3>2 DEF UnDuenio
      <3> QED BY <1>5, <3>1, <3>2 DEF UnDuenio
   <2>4. CpuTiene => Len(listaExec) = 1 BY <1>5 DEF UnDuenio
   <2>5. MemAtiende => Len(listaExec) = 1 BY <1>5 DEF UnDuenio, MemTiene
   <2> QED BY <1>2, <1>5, <2>1, <2>2, <2>3, <2>4, <2>5 DEF UnDuenio, DuenioUnico
<1>6. ASSUME DuenioUnico PROVE UnDuenio
   <2>1. Len(listaExec) = 0 \/ Len(listaExec) = 1
      <3>1. Len(listaExec) <= 1 BY <1>6 DEF DuenioUnico
      <3>2. Len(listaExec) \in Nat BY <1>1
      <3>3. \A n \in Nat : n <= 1 => n = 0 \/ n = 1 OBVIOUS
      <3> QED BY <3>1, <3>2, <3>3
   <2>2. \A x, y \in Portadores : x = y BY <1>6 DEF DuenioUnico
   <2>3. listaExec = <<>> <=> Portadores = {} BY <1>6 DEF DuenioUnico
   <2>4. /\ CpuTiene => pcb["CPU"] = listaExec[1]
         /\ MemAtiende => pcb["MEM"] = listaExec[1]
      BY <1>2, <1>6 DEF DuenioUnico
   <2>5. /\ ~(libre["MENSAJEACPU"] /\ CpuTiene) /\ ~(libre["MENSAJEACPU"] /\ MemTiene)
         /\ ~(libre["MENSAJEACPU"] /\ libre["MENSAJEAFILESYSTEM"])
         /\ ~(CpuTiene /\ MemTiene) /\ ~(CpuTiene /\ libre["MENSAJEAFILESYSTEM"])
         /\ ~(MemTiene /\ libre["MENSAJEAFILESYSTEM"])
      BY <1>3, <2>2
   <2> QED BY <1>2, <1>4, <2>1, <2>3, <2>4, <2>5 DEF UnDuenio
<1> QED BY <1>5, <1>6

-----------------------------------------------------------------------------
(* Mutexes *)

\* Unlocking a set of mutexes frees them and leaves the others as they were.
LEMMA EfectoSuelta ==
    ASSUME TypeOK, NEW S, Suelta(S)
    PROVE  /\ libre' \in [Mutexes -> BOOLEAN]
           /\ \A x \in Mutexes : libre'[x] <=> (x \in S \/ libre[x])
BY DEF Suelta, TypeOK, TiposMutex

\* A thread locks a mutex only when it is free, and leaves the others as they were.
LEMMA EfectoToma ==
    ASSUME TypeOK, NEW m \in Mutexes, Toma(m)
    PROVE  /\ libre' \in [Mutexes -> BOOLEAN]
           /\ libre[m]
           /\ \A x \in Mutexes : libre'[x] <=> (x # m /\ libre[x])
BY DEF Toma, TypeOK, TiposMutex

\* The same for a lock followed by unlocks of other threads' mutexes.
LEMMA EfectoTomaYSuelta ==
    ASSUME TypeOK, NEW m \in Mutexes, NEW S, TomaYSuelta(m, S)
    PROVE  /\ libre' \in [Mutexes -> BOOLEAN]
           /\ libre[m]
           /\ \A x \in Mutexes : libre'[x] <=> (x \in S \/ (x # m /\ libre[x]))
BY DEF TomaYSuelta, TypeOK, TiposMutex

-----------------------------------------------------------------------------
(* Steps that leave alone what a part of the invariant speaks of. *)

\* A step that moves no process in or out of Exec, and neither takes nor gives
\* the charge of it, preserves UnDuenio.
LEMMA MarcoDuenio ==
    ASSUME UnDuenio,
           listaExec' = listaExec, mensajeAMemoria' = mensajeAMemoria,
           libre'["MENSAJEACPU"] <=> libre["MENSAJEACPU"],
           libre'["MENSAJEAMEMORIA"] <=> libre["MENSAJEAMEMORIA"],
           libre'["MENSAJEAFILESYSTEM"] <=> libre["MENSAJEAFILESYSTEM"],
           CpuTiene' <=> CpuTiene, MemAtiende' <=> MemAtiende,
           CpuTiene => pcb'["CPU"] = pcb["CPU"],
           MemAtiende => pcb'["MEM"] = pcb["MEM"]
    PROVE  UnDuenio'
BY DEF UnDuenio, MemTiene

\* A step that touches neither mailbox preserves the uniqueness of their holders.
LEMMA MarcoTestigo ==
    ASSUME TestigoUnico,
           libre'["CONEXIONMEMORIA"] <=> libre["CONEXIONMEMORIA"],
           libre'["MENSAJEAMEMORIA"] <=> libre["MENSAJEAMEMORIA"],
           libre'["MENSAJELARGOPLAZO"] <=> libre["MENSAJELARGOPLAZO"],
           libre'["PLANILARGOPLAZO"] <=> libre["PLANILARGOPLAZO"],
           (pc'["MEM"] = "espera") <=> (pc["MEM"] = "espera"),
           (pc'["LP"] = "espera") <=> (pc["LP"] = "espera")
    PROVE  TestigoUnico'
BY DEF TestigoUnico, UnoSolo, En

\* A step that touches neither colaNew nor the READY_PCB on their way preserves
\* AvisosDeAlta.
LEMMA MarcoAvisos ==
    ASSUME AvisosDeAlta,
           colaNew' = colaNew, ConsolasQueAvisan' = ConsolasQueAvisan,
           mensajePlanificador' = mensajePlanificador,
           libre'["PLANILARGOPLAZO"] <=> libre["PLANILARGOPLAZO"],
           Admitiendo' <=> Admitiendo
    PROVE  AvisosDeAlta'
BY DEF AvisosDeAlta, Cuenta

\* The consoles that have a READY_PCB to post are finitely many.
LEMMA AvisanFinitas ==
    IsFiniteSet(ConsolasQueAvisan) /\ Cardinality(ConsolasQueAvisan) \in Nat
<1>1. IsFiniteSet(Pids) BY FS_Interval, CantidadesAssumption DEF Pids
<1>2. IsFiniteSet(ConsolasQueAvisan) BY <1>1, FS_Subset DEF ConsolasQueAvisan
<1> QED BY <1>2, FS_CardinalityType

-----------------------------------------------------------------------------
\* Counting an instruction as done keeps program_counter a function of the pids.
LEMMA AvanzaTipado ==
    ASSUME TypeOK, NEW p, Avanza(p)
    PROVE  program_counter' \in [Pids -> Nat]
<1>1. program_counter \in [Pids -> Nat] BY DEF TypeOK, TiposPcb
<1>2. CASE p \in Pids BY <1>1, <1>2 DEF Avanza
<1>3. CASE p \notin Pids BY <1>1, <1>3 DEF Avanza
<1> QED BY <1>2, <1>3

\* Every step of the long-term scheduler preserves the invariant.
LEMMA PasoLargoPlazo == ASSUME TypeOK, TestigoUnico, UnDuenio, AvisosDeAlta, LargoPlazo PROVE IInv'
<1>1. ASSUME LpToma PROVE IInv'
   <2>1. libre' \in [Mutexes -> BOOLEAN] /\ libre["PLANILARGOPLAZO"]
        /\ \A x \in Mutexes : libre'[x] <=> (x # "PLANILARGOPLAZO" /\ libre[x])
      BY <1>1, EfectoToma DEF LpToma, Va, En
   <2>2. TypeOK'
      <3>1. TiposMutex' BY <1>1, <2>1 DEF TypeOK, TiposMutex, LpToma, Va
      <3>2. TiposHilos'
         <4>1. CASE Va("LP", "grado") BY <1>1, <4>1 DEF TypeOK, TiposHilos, LpToma, Va
         <4>2. CASE Va("LP", "sync_1") BY <1>1, <4>2 DEF TypeOK, TiposHilos, LpToma, Va
         <4> QED BY <1>1, <4>1, <4>2 DEF LpToma
      <3>3. TiposListas' /\ TiposMensajes' /\ TiposPcb' /\ TiposEfimeros' /\ TiposExternos'
         BY <1>1
               DEF TypeOK, TiposListas, TiposMensajes, TiposPcb, TiposEfimeros, TiposExternos,
                   LpToma, Va
      <3> QED BY <3>1, <3>2, <3>3 DEF TypeOK
   <2>3. TestigoUnico'
      <3>1. ~(pc'["LP"] = "espera") /\ pc["LP"] = "espera" /\ pc'["MEM"] = pc["MEM"]
         BY <1>1 DEF LpToma, Va, En, TypeOK, TiposMutex, TiposHilos
      <3> QED BY <3>1, <2>1 DEF TestigoUnico, UnoSolo, En
   <2>4. UnDuenio'
      BY <1>1, <2>1, MarcoDuenio
         DEF CpuTiene, MemAtiende, LpToma, Va, En, TypeOK, TiposMutex, TiposHilos
   <2>5. AvisosDeAlta'
      <3>1. CASE mensajePlanificador = "READY_PCB" /\ Va("LP", "grado")
         BY <1>1, <2>1, <3>1, AvisanFinitas
               DEF AvisosDeAlta, Cuenta, Admitiendo, ConsolasQueAvisan, LpToma, Va, En,
                      TypeOK, TiposMutex, TiposHilos
      <3>2. CASE mensajePlanificador = "FINALIZED_PCB" /\ Va("LP", "sync_1")
         BY <1>1, <2>1, <3>2, AvisanFinitas
               DEF AvisosDeAlta, Cuenta, Admitiendo, ConsolasQueAvisan, LpToma, Va, En,
                      TypeOK, TiposMutex, TiposHilos
      <3> QED BY <1>1, <3>1, <3>2 DEF LpToma
   <2> QED BY <2>2, <2>3, <2>4, <2>5 DEF IInv
<1>2. ASSUME LpGrado PROVE IInv'
   <2>1. TypeOK'
      <3>1. TiposMutex' BY <1>2 DEF TypeOK, TiposMutex, LpGrado, Va
      <3>2. TiposHilos' BY <1>2 DEF TypeOK, TiposHilos, LpGrado, Va
      <3>3. TiposListas' /\ TiposMensajes' /\ TiposPcb' /\ TiposEfimeros' /\ TiposExternos'
         BY <1>2
               DEF TypeOK, TiposListas, TiposMensajes, TiposPcb, TiposEfimeros, TiposExternos,
                   LpGrado, Va
      <3> QED BY <3>1, <3>2, <3>3 DEF TypeOK
   <2>2. TestigoUnico' BY <1>2, MarcoTestigo DEF LpGrado, Va, En, TypeOK, TiposMutex, TiposHilos
   <2>3. UnDuenio'
      BY <1>2, MarcoDuenio
         DEF CpuTiene, MemAtiende, LpGrado, Va, En, TypeOK, TiposMutex, TiposHilos
   <2>4. AvisosDeAlta'
      BY <1>2, MarcoAvisos
         DEF Admitiendo, ConsolasQueAvisan, LpGrado, Va, En, TypeOK, TiposMutex, TiposHilos
   <2> QED BY <2>1, <2>2, <2>3, <2>4 DEF IInv
<1>3. ASSUME LpPideMemoria("iniciar", "REQ_INICIAR_PROCESO", "tabla") PROVE IInv'
   <2>1. libre' \in [Mutexes -> BOOLEAN] /\ libre["CONEXIONMEMORIA"]
        /\ \A x \in Mutexes : libre'[x]
              <=> (x \in {"MENSAJEAMEMORIA"} \/ (x # "CONEXIONMEMORIA" /\ libre[x]))
      BY <1>3, EfectoTomaYSuelta DEF LpPideMemoria, Va, En
   <2>2. TypeOK'
      <3>1. TiposMutex' BY <1>3, <2>1 DEF TypeOK, TiposMutex, LpPideMemoria, Va
      <3>2. TiposMensajes' BY <1>3, <2>1 DEF TypeOK, TiposMensajes, LpPideMemoria, Va
      <3>3. TiposHilos' BY <1>3, <2>1 DEF TypeOK, TiposHilos, LpPideMemoria, Va
      <3>4. TiposListas' /\ TiposPcb' /\ TiposEfimeros' /\ TiposExternos'
         BY <1>3
               DEF TypeOK, TiposListas, TiposPcb, TiposEfimeros, TiposExternos, LpPideMemoria,
                   Va
      <3> QED BY <3>1, <3>2, <3>3, <3>4 DEF TypeOK
   <2>3. TestigoUnico'
      BY <1>3, <2>1
            DEF TestigoUnico, UnoSolo, LpPideMemoria, Va, En, TypeOK, TiposMutex, TiposHilos
   <2>4. UnDuenio'
      BY <1>3, <2>1
            DEF UnDuenio, MemTiene, CpuTiene, MemAtiende, TestigoUnico, UnoSolo, LpPideMemoria,
                Va, En, TypeOK, TiposMutex, TiposHilos
   <2>5. AvisosDeAlta'
      BY <1>3, <2>1, MarcoAvisos
         DEF Admitiendo, ConsolasQueAvisan, LpPideMemoria, Va, En, TypeOK, TiposMutex,
             TiposHilos
   <2> QED BY <2>2, <2>3, <2>4, <2>5 DEF IInv
<1>4. ASSUME LpLock("tabla", "TABLASEGMENTOS", "pcbnew") PROVE IInv'
   <2>1. libre' \in [Mutexes -> BOOLEAN] /\ libre["TABLASEGMENTOS"]
        /\ \A x \in Mutexes : libre'[x] <=> (x # "TABLASEGMENTOS" /\ libre[x])
      BY <1>4, EfectoToma DEF LpLock, Va, En
   <2>2. TypeOK'
      <3>1. TiposMutex' BY <1>4, <2>1 DEF TypeOK, TiposMutex, LpLock, Va
      <3>2. TiposHilos' BY <1>4, <2>1 DEF TypeOK, TiposHilos, LpLock, Va
      <3>3. TiposListas' /\ TiposMensajes' /\ TiposPcb' /\ TiposEfimeros' /\ TiposExternos'
         BY <1>4
               DEF TypeOK, TiposListas, TiposMensajes, TiposPcb, TiposEfimeros, TiposExternos,
                   LpLock, Va
      <3> QED BY <3>1, <3>2, <3>3 DEF TypeOK
   <2>3. TestigoUnico'
      BY <1>4, <2>1, MarcoTestigo DEF LpLock, Va, En, TypeOK, TiposMutex, TiposHilos
   <2>4. UnDuenio'
      BY <1>4, <2>1, MarcoDuenio
         DEF CpuTiene, MemAtiende, LpLock, Va, En, TypeOK, TiposMutex, TiposHilos
   <2>5. AvisosDeAlta'
      BY <1>4, <2>1, MarcoAvisos
         DEF Admitiendo, ConsolasQueAvisan, LpLock, Va, En, TypeOK, TiposMutex, TiposHilos
   <2> QED BY <2>2, <2>3, <2>4, <2>5 DEF IInv
<1>5. ASSUME LpLock("pcbnew", "PCBNEW", "pcbready") PROVE IInv'
   <2>1. libre' \in [Mutexes -> BOOLEAN] /\ libre["PCBNEW"]
        /\ \A x \in Mutexes : libre'[x] <=> (x # "PCBNEW" /\ libre[x])
      BY <1>5, EfectoToma DEF LpLock, Va, En
   <2>2. TypeOK'
      <3>1. TiposMutex' BY <1>5, <2>1 DEF TypeOK, TiposMutex, LpLock, Va
      <3>2. TiposHilos' BY <1>5, <2>1 DEF TypeOK, TiposHilos, LpLock, Va
      <3>3. TiposListas' /\ TiposMensajes' /\ TiposPcb' /\ TiposEfimeros' /\ TiposExternos'
         BY <1>5
               DEF TypeOK, TiposListas, TiposMensajes, TiposPcb, TiposEfimeros, TiposExternos,
                   LpLock, Va
      <3> QED BY <3>1, <3>2, <3>3 DEF TypeOK
   <2>3. TestigoUnico'
      BY <1>5, <2>1, MarcoTestigo DEF LpLock, Va, En, TypeOK, TiposMutex, TiposHilos
   <2>4. UnDuenio'
      BY <1>5, <2>1, MarcoDuenio
         DEF CpuTiene, MemAtiende, LpLock, Va, En, TypeOK, TiposMutex, TiposHilos
   <2>5. AvisosDeAlta'
      BY <1>5, <2>1, MarcoAvisos
         DEF Admitiendo, ConsolasQueAvisan, LpLock, Va, En, TypeOK, TiposMutex, TiposHilos
   <2> QED BY <2>2, <2>3, <2>4, <2>5 DEF IInv
<1>6. ASSUME LpAdmite PROVE IInv'
   <2>1. libre' \in [Mutexes -> BOOLEAN] /\ libre["PCBREADY"]
        /\ \A x \in Mutexes : libre'[x] <=> (x \in {"PCBNEW"} \/ (x # "PCBREADY" /\ libre[x]))
      BY <1>6, EfectoTomaYSuelta DEF LpAdmite, Va, En
   <2>2. colaNew # <<>> /\ Len(Resto(colaNew)) = Len(colaNew) - 1 /\ Primero(colaNew) \in Pids
         /\ Resto(colaNew) \in Seq(Pids)
      <3>1. colaNew \in Seq(Pids) BY DEF TypeOK, TiposListas
      <3>2. Admitiendo BY <1>6 DEF LpAdmite, En, Admitiendo
      <3>3. Len(colaNew) # 0 BY <3>1, <3>2, AvisanFinitas DEF AvisosDeAlta, Cuenta
      <3> QED BY <3>1, <3>3, PrimeroYResto
   <2>3. TypeOK'
      <3>1. TiposMutex' BY <1>6, <2>1, <2>2 DEF TypeOK, TiposMutex, LpAdmite, Va
      <3>2. TiposListas' BY <1>6, <2>1, <2>2 DEF TypeOK, TiposListas, LpAdmite, Va
      <3>3. TiposHilos' BY <1>6, <2>1, <2>2 DEF TypeOK, TiposHilos, LpAdmite, Va
      <3>4. TiposMensajes' /\ TiposPcb' /\ TiposEfimeros' /\ TiposExternos'
         BY <1>6 DEF TypeOK, TiposMensajes, TiposPcb, TiposEfimeros, TiposExternos, LpAdmite, Va
      <3> QED BY <3>1, <3>2, <3>3, <3>4 DEF TypeOK
   <2>4. TestigoUnico'
      BY <1>6, <2>1, <2>2, MarcoTestigo DEF LpAdmite, Va, En, TypeOK, TiposMutex, TiposHilos
   <2>5. UnDuenio'
      BY <1>6, <2>1, <2>2, MarcoDuenio
         DEF CpuTiene, MemAtiende, LpAdmite, Va, En, TypeOK, TiposMutex, TiposHilos
   <2>6. AvisosDeAlta'
      <3>1. Len(colaNew') = Len(colaNew) - 1 BY <1>6, <2>1, <2>2 DEF LpAdmite
      <3>2. Admitiendo /\ ~Admitiendo'
         BY <1>6 DEF LpAdmite, Va, En, Admitiendo, TypeOK, TiposMutex, TiposHilos
      <3>3. /\ libre'["PLANILARGOPLAZO"] <=> libre["PLANILARGOPLAZO"]
            /\ mensajePlanificador' = mensajePlanificador /\ consola' = consola
         BY <1>6, <2>1, <2>2 DEF LpAdmite
      <3>4. ConsolasQueAvisan' = ConsolasQueAvisan BY <3>3 DEF ConsolasQueAvisan
      <3>5. Len(colaNew) \in Nat BY DEF TypeOK, TiposMutex, TiposHilos, TiposListas
      <3> QED BY <3>1, <3>2, <3>3, <3>4, <3>5, AvisanFinitas DEF AvisosDeAlta, Cuenta
   <2> QED BY <2>3, <2>4, <2>5, <2>6 DEF IInv
<1>7. ASSUME LpAvisa("avisa", {}) PROVE IInv'
   <2>1. libre' \in [Mutexes -> BOOLEAN] /\ libre["PLANICORTOPLAZO"]
        /\ \A x \in Mutexes : libre'[x]
              <=> (x \in {"PCBENEJECUCION", "MENSAJELARGOPLAZO"} \/ (x # "PLANICORTOPLAZO" /\ libre[x]))
      BY <1>7, EfectoTomaYSuelta DEF LpAvisa, Va, En
   <2>2. TypeOK'
      <3>1. TiposMutex' BY <1>7, <2>1 DEF TypeOK, TiposMutex, LpAvisa, Va
      <3>2. TiposHilos' BY <1>7, <2>1 DEF TypeOK, TiposHilos, LpAvisa, Va
      <3>3. TiposListas' /\ TiposMensajes' /\ TiposPcb' /\ TiposEfimeros' /\ TiposExternos'
         BY <1>7
               DEF TypeOK, TiposListas, TiposMensajes, TiposPcb, TiposEfimeros, TiposExternos,
                   LpAvisa, Va
      <3> QED BY <3>1, <3>2, <3>3 DEF TypeOK
   <2>3. TestigoUnico'
      BY <1>7, <2>1 DEF TestigoUnico, UnoSolo, LpAvisa, Va, En, TypeOK, TiposMutex, TiposHilos
   <2>4. UnDuenio'
      BY <1>7, <2>1, MarcoDuenio
         DEF CpuTiene, MemAtiende, LpAvisa, Va, En, TypeOK, TiposMutex, TiposHilos
   <2>5. AvisosDeAlta'
      BY <1>7, <2>1, MarcoAvisos
         DEF Admitiendo, ConsolasQueAvisan, LpAvisa, Va, En, TypeOK, TiposMutex, TiposHilos
   <2> QED BY <2>2, <2>3, <2>4, <2>5 DEF IInv
<1>8. ASSUME LpLock("sync_1", "SYNC_FIN", "fin") PROVE IInv'
   <2>1. libre' \in [Mutexes -> BOOLEAN] /\ libre["SYNC_FIN"]
        /\ \A x \in Mutexes : libre'[x] <=> (x # "SYNC_FIN" /\ libre[x])
      BY <1>8, EfectoToma DEF LpLock, Va, En
   <2>2. TypeOK'
      <3>1. TiposMutex' BY <1>8, <2>1 DEF TypeOK, TiposMutex, LpLock, Va
      <3>2. TiposHilos' BY <1>8, <2>1 DEF TypeOK, TiposHilos, LpLock, Va
      <3>3. TiposListas' /\ TiposMensajes' /\ TiposPcb' /\ TiposEfimeros' /\ TiposExternos'
         BY <1>8
               DEF TypeOK, TiposListas, TiposMensajes, TiposPcb, TiposEfimeros, TiposExternos,
                   LpLock, Va
      <3> QED BY <3>1, <3>2, <3>3 DEF TypeOK
   <2>3. TestigoUnico'
      BY <1>8, <2>1, MarcoTestigo DEF LpLock, Va, En, TypeOK, TiposMutex, TiposHilos
   <2>4. UnDuenio'
      BY <1>8, <2>1, MarcoDuenio
         DEF CpuTiene, MemAtiende, LpLock, Va, En, TypeOK, TiposMutex, TiposHilos
   <2>5. AvisosDeAlta'
      BY <1>8, <2>1, MarcoAvisos
         DEF Admitiendo, ConsolasQueAvisan, LpLock, Va, En, TypeOK, TiposMutex, TiposHilos
   <2> QED BY <2>2, <2>3, <2>4, <2>5 DEF IInv
<1>9. ASSUME LpPideMemoria("fin", "REQ_FIN_PROCESO", "sync_2") PROVE IInv'
   <2>1. libre' \in [Mutexes -> BOOLEAN] /\ libre["CONEXIONMEMORIA"]
        /\ \A x \in Mutexes : libre'[x]
              <=> (x \in {"MENSAJEAMEMORIA"} \/ (x # "CONEXIONMEMORIA" /\ libre[x]))
      BY <1>9, EfectoTomaYSuelta DEF LpPideMemoria, Va, En
   <2>2. TypeOK'
      <3>1. TiposMutex' BY <1>9, <2>1 DEF TypeOK, TiposMutex, LpPideMemoria, Va
      <3>2. TiposMensajes' BY <1>9, <2>1 DEF TypeOK, TiposMensajes, LpPideMemoria, Va
      <3>3. TiposHilos' BY <1>9, <2>1 DEF TypeOK, TiposHilos, LpPideMemoria, Va
      <3>4. TiposListas' /\ TiposPcb' /\ TiposEfimeros' /\ TiposExternos'
         BY <1>9
               DEF TypeOK, TiposListas, TiposPcb, TiposEfimeros, TiposExternos, LpPideMemoria,
                   Va
      <3> QED BY <3>1, <3>2, <3>3, <3>4 DEF TypeOK
   <2>3. TestigoUnico'
      BY <1>9, <2>1
            DEF TestigoUnico, UnoSolo, LpPideMemoria, Va, En, TypeOK, TiposMutex, TiposHilos
   <2>4. UnDuenio'
      BY <1>9, <2>1
            DEF UnDuenio, MemTiene, CpuTiene, MemAtiende, TestigoUnico, UnoSolo, LpPideMemoria,
                Va, En, TypeOK, TiposMutex, TiposHilos
   <2>5. AvisosDeAlta'
      BY <1>9, <2>1, MarcoAvisos
         DEF Admitiendo, ConsolasQueAvisan, LpPideMemoria, Va, En, TypeOK, TiposMutex,
             TiposHilos
   <2> QED BY <2>2, <2>3, <2>4, <2>5 DEF IInv
<1>10. ASSUME LpLock("sync_2", "SYNC_FIN", "listaexit") PROVE IInv'
   <2>1. libre' \in [Mutexes -> BOOLEAN] /\ libre["SYNC_FIN"]
        /\ \A x \in Mutexes : libre'[x] <=> (x # "SYNC_FIN" /\ libre[x])
      BY <1>10, EfectoToma DEF LpLock, Va, En
   <2>2. TypeOK'
      <3>1. TiposMutex' BY <1>10, <2>1 DEF TypeOK, TiposMutex, LpLock, Va
      <3>2. TiposHilos' BY <1>10, <2>1 DEF TypeOK, TiposHilos, LpLock, Va
      <3>3. TiposListas' /\ TiposMensajes' /\ TiposPcb' /\ TiposEfimeros' /\ TiposExternos'
         BY <1>10
               DEF TypeOK, TiposListas, TiposMensajes, TiposPcb, TiposEfimeros, TiposExternos,
                   LpLock, Va
      <3> QED BY <3>1, <3>2, <3>3 DEF TypeOK
   <2>3. TestigoUnico'
      BY <1>10, <2>1, MarcoTestigo DEF LpLock, Va, En, TypeOK, TiposMutex, TiposHilos
   <2>4. UnDuenio'
      BY <1>10, <2>1, MarcoDuenio
         DEF CpuTiene, MemAtiende, LpLock, Va, En, TypeOK, TiposMutex, TiposHilos
   <2>5. AvisosDeAlta'
      BY <1>10, <2>1, MarcoAvisos
         DEF Admitiendo, ConsolasQueAvisan, LpLock, Va, En, TypeOK, TiposMutex, TiposHilos
   <2> QED BY <2>2, <2>3, <2>4, <2>5 DEF IInv
<1>11. ASSUME LpLibera PROVE IInv'
   <2>1. libre' \in [Mutexes -> BOOLEAN] /\ libre["LISTAEXIT"]
        /\ \A x \in Mutexes : libre'[x] <=> (x \in {"LISTAEXIT"} \/ (x # "LISTAEXIT" /\ libre[x]))
      BY <1>11, EfectoTomaYSuelta DEF LpLibera, Va, En
   <2>2. Resto(listaExit) \in Seq(Pids) BY PrimeroYResto DEF TypeOK, TiposListas
   <2>3. TypeOK'
      <3>1. TiposMutex' BY <1>11, <2>1, <2>2 DEF TypeOK, TiposMutex, LpLibera, Va
      <3>2. TiposListas' BY <1>11, <2>1, <2>2 DEF TypeOK, TiposListas, LpLibera, Va
      <3>3. TiposHilos' BY <1>11, <2>1, <2>2 DEF TypeOK, TiposHilos, LpLibera, Va
      <3>4. TiposMensajes' /\ TiposPcb' /\ TiposEfimeros' /\ TiposExternos'
         BY <1>11
               DEF TypeOK, TiposMensajes, TiposPcb, TiposEfimeros, TiposExternos, LpLibera, Va
      <3> QED BY <3>1, <3>2, <3>3, <3>4 DEF TypeOK
   <2>4. TestigoUnico'
      BY <1>11, <2>1, <2>2, MarcoTestigo DEF LpLibera, Va, En, TypeOK, TiposMutex, TiposHilos
   <2>5. UnDuenio'
      BY <1>11, <2>1, <2>2, MarcoDuenio
         DEF CpuTiene, MemAtiende, LpLibera, Va, En, TypeOK, TiposMutex, TiposHilos
   <2>6. AvisosDeAlta'
      BY <1>11, <2>1, <2>2, MarcoAvisos
         DEF Admitiendo, ConsolasQueAvisan, LpLibera, Va, En, TypeOK, TiposMutex, TiposHilos
   <2> QED BY <2>3, <2>4, <2>5, <2>6 DEF IInv
<1>12. ASSUME LpAvisa("avisa_fin", {"SYNC_FIN"}) PROVE IInv'
   <2>1. libre' \in [Mutexes -> BOOLEAN] /\ libre["PLANICORTOPLAZO"]
        /\ \A x \in Mutexes : libre'[x]
              <=> (x \in {"PCBENEJECUCION", "MENSAJELARGOPLAZO", "SYNC_FIN"} \/ (x # "PLANICORTOPLAZO" /\ libre[x]))
      BY <1>12, EfectoTomaYSuelta DEF LpAvisa, Va, En
   <2>2. TypeOK'
      <3>1. TiposMutex' BY <1>12, <2>1 DEF TypeOK, TiposMutex, LpAvisa, Va
      <3>2. TiposHilos' BY <1>12, <2>1 DEF TypeOK, TiposHilos, LpAvisa, Va
      <3>3. TiposListas' /\ TiposMensajes' /\ TiposPcb' /\ TiposEfimeros' /\ TiposExternos'
         BY <1>12
               DEF TypeOK, TiposListas, TiposMensajes, TiposPcb, TiposEfimeros, TiposExternos,
                   LpAvisa, Va
      <3> QED BY <3>1, <3>2, <3>3 DEF TypeOK
   <2>3. TestigoUnico'
      BY <1>12, <2>1 DEF TestigoUnico, UnoSolo, LpAvisa, Va, En, TypeOK, TiposMutex, TiposHilos
   <2>4. UnDuenio'
      BY <1>12, <2>1, MarcoDuenio
         DEF CpuTiene, MemAtiende, LpAvisa, Va, En, TypeOK, TiposMutex, TiposHilos
   <2>5. AvisosDeAlta'
      BY <1>12, <2>1, MarcoAvisos
         DEF Admitiendo, ConsolasQueAvisan, LpAvisa, Va, En, TypeOK, TiposMutex, TiposHilos
   <2> QED BY <2>2, <2>3, <2>4, <2>5 DEF IInv
<1> QED BY <1>1, <1>2, <1>3, <1>4, <1>5, <1>6, <1>7, <1>8, <1>9, <1>10, <1>11, <1>12
      DEF LargoPlazo, LpReady, LpFinalized

\* Every step of the short-term scheduler preserves the invariant.
LEMMA PasoCortoPlazo == ASSUME TypeOK, TestigoUnico, UnDuenio, AvisosDeAlta, CortoPlazo PROVE IInv'
<1>1. ASSUME CpToma PROVE IInv'
   <2>1. libre' \in [Mutexes -> BOOLEAN] /\ libre["PCBENEJECUCION"]
        /\ \A x \in Mutexes : libre'[x] <=> (x # "PCBENEJECUCION" /\ libre[x])
      BY <1>1, EfectoToma DEF CpToma, Va, En
   <2>2. TypeOK'
      <3>1. TiposMutex' BY <1>1, <2>1 DEF TypeOK, TiposMutex, CpToma, Va
      <3>2. TiposHilos' BY <1>1, <2>1 DEF TypeOK, TiposHilos, CpToma, Va
      <3>3. TiposListas' /\ TiposMensajes' /\ TiposPcb' /\ TiposEfimeros' /\ TiposExternos'
         BY <1>1
               DEF TypeOK, TiposListas, TiposMensajes, TiposPcb, TiposEfimeros, TiposExternos,
                   CpToma, Va
      <3> QED BY <3>1, <3>2, <3>3 DEF TypeOK
   <2>3. TestigoUnico'
      BY <1>1, <2>1, MarcoTestigo DEF CpToma, Va, En, TypeOK, TiposMutex, TiposHilos
   <2>4. UnDuenio'
      BY <1>1, <2>1, MarcoDuenio
         DEF CpuTiene, MemAtiende, CpToma, Va, En, TypeOK, TiposMutex, TiposHilos
   <2>5. AvisosDeAlta'
      BY <1>1, <2>1, MarcoAvisos
         DEF Admitiendo, ConsolasQueAvisan, CpToma, Va, En, TypeOK, TiposMutex, TiposHilos
   <2> QED BY <2>2, <2>3, <2>4, <2>5 DEF IInv
<1>2. ASSUME CpDespacha PROVE IInv'
   <2>1. libre' \in [Mutexes -> BOOLEAN]
        /\ \A x \in Mutexes : libre'[x] <=> (x \in {"MENSAJEACPU", "PLANICORTOPLAZO"} \/ libre[x])
      BY <1>2, EfectoSuelta DEF CpDespacha, Va, En
   <2>2. /\ listaReady' \in Seq(Pids) /\ listaExec' \in Seq(Pids)
         /\ Len(listaExec) = 0 /\ Len(listaExec') = 1
      <3>1. listaReady \in Seq(Pids) /\ listaExec = <<>>
         BY <1>2 DEF CpDespacha, TypeOK, TiposListas
      <3>2. PICK i \in Elegibles : /\ listaExec' = Append(listaExec, listaReady[i])
                                  /\ listaReady' = RemoveAt(listaReady, i)
         BY <1>2 DEF CpDespacha
      <3>3. i \in DOMAIN listaReady BY <1>2, <3>1, <3>2 DEF CpDespacha, Elegibles
      <3>4. listaReady[i] \in Pids BY <3>1, <3>3
      <3>5. listaReady' \in Seq(Pids) BY <3>1, <3>2, <3>3, SinElemento
      <3> QED BY <3>1, <3>2, <3>4, <3>5
   <2>3. TypeOK'
      <3>1. TiposMutex' BY <1>2, <2>1, <2>2 DEF TypeOK, TiposMutex, CpDespacha, Va
      <3>2. TiposListas' BY <1>2, <2>1, <2>2 DEF TypeOK, TiposListas, CpDespacha
      <3>3. TiposHilos' BY <1>2, <2>1, <2>2 DEF TypeOK, TiposHilos, CpDespacha, Va
      <3>4. TiposMensajes' /\ TiposPcb' /\ TiposEfimeros' /\ TiposExternos'
         BY <1>2
               DEF TypeOK, TiposMensajes, TiposPcb, TiposEfimeros, TiposExternos, CpDespacha,
                   Va
      <3> QED BY <3>1, <3>2, <3>3, <3>4 DEF TypeOK
   <2>4. TestigoUnico'
      BY <1>2, <2>1, <2>2, MarcoTestigo DEF CpDespacha, Va, En, TypeOK, TiposMutex, TiposHilos
   <2>5. UnDuenio'
      BY <1>2, <2>1, <2>2
            DEF UnDuenio, CpuTiene, MemTiene, MemAtiende, CpDespacha, Va, En, TypeOK,
                TiposMutex, TiposHilos
   <2>6. AvisosDeAlta'
      BY <1>2, <2>1, <2>2, MarcoAvisos
         DEF Admitiendo, ConsolasQueAvisan, CpDespacha, Va, En, TypeOK, TiposMutex, TiposHilos
   <2> QED BY <2>3, <2>4, <2>5, <2>6 DEF IInv
<1>3. ASSUME CpNada PROVE IInv'
   <2>1. libre' \in [Mutexes -> BOOLEAN]
        /\ \A x \in Mutexes : libre'[x] <=> (x \in {"PLANICORTOPLAZO"} \/ libre[x])
      BY <1>3, EfectoSuelta DEF CpNada, Va, En
   <2>2. TypeOK'
      <3>1. TiposMutex' BY <1>3, <2>1 DEF TypeOK, TiposMutex, CpNada, Va
      <3>2. TiposHilos' BY <1>3, <2>1 DEF TypeOK, TiposHilos, CpNada, Va
      <3>3. TiposListas' /\ TiposMensajes' /\ TiposPcb' /\ TiposEfimeros' /\ TiposExternos'
         BY <1>3
               DEF TypeOK, TiposListas, TiposMensajes, TiposPcb, TiposEfimeros, TiposExternos,
                   CpNada, Va
      <3> QED BY <3>1, <3>2, <3>3 DEF TypeOK
   <2>3. TestigoUnico'
      BY <1>3, <2>1, MarcoTestigo DEF CpNada, Va, En, TypeOK, TiposMutex, TiposHilos
   <2>4. UnDuenio'
      BY <1>3, <2>1, MarcoDuenio
         DEF CpuTiene, MemAtiende, CpNada, Va, En, TypeOK, TiposMutex, TiposHilos
   <2>5. AvisosDeAlta'
      BY <1>3, <2>1, MarcoAvisos
         DEF Admitiendo, ConsolasQueAvisan, CpNada, Va, En, TypeOK, TiposMutex, TiposHilos
   <2> QED BY <2>2, <2>3, <2>4, <2>5 DEF IInv
<1> QED BY <1>1, <1>2, <1>3 DEF CortoPlazo

\* Every step of a handlerIO thread preserves the invariant.
LEMMA PasoIO ==
    ASSUME TypeOK, TestigoUnico, UnDuenio, AvisosDeAlta,
           NEW p \in Pids, IO(p) \/ IOAvisa
    PROVE  IInv'
<1>1. ASSUME IOLee(p) PROVE IInv'
   <2>1. libre' \in [Mutexes -> BOOLEAN]
        /\ \A x \in Mutexes : libre'[x] <=> (x \in {"IOPARAM"} \/ libre[x])
      BY <1>1, EfectoSuelta DEF IOLee
   <2>2. TypeOK'
      <3>1. TiposMutex' BY <1>1, <2>1 DEF TypeOK, TiposMutex, IOLee
      <3>2. TiposEfimeros' BY <1>1, <2>1 DEF TypeOK, TiposEfimeros, IOLee, TiposMensajes
      <3>3. TiposListas' /\ TiposMensajes' /\ TiposPcb' /\ TiposHilos' /\ TiposExternos'
         BY <1>1
               DEF TypeOK, TiposListas, TiposMensajes, TiposPcb, TiposHilos, TiposExternos,
                   IOLee
      <3> QED BY <3>1, <3>2, <3>3 DEF TypeOK
   <2>3. TestigoUnico' BY <1>1, <2>1, MarcoTestigo DEF IOLee
   <2>4. UnDuenio' BY <1>1, <2>1, MarcoDuenio DEF CpuTiene, MemAtiende, IOLee
   <2>5. AvisosDeAlta' BY <1>1, <2>1, MarcoAvisos DEF Admitiendo, ConsolasQueAvisan, IOLee
   <2> QED BY <2>2, <2>3, <2>4, <2>5 DEF IInv
<1>2. ASSUME IODespierta(p) PROVE IInv'
   <2>1. TypeOK'
      <3>1. TiposListas' BY <1>2 DEF TypeOK, TiposListas, IODespierta
      <3>2. TiposPcb' BY <1>2, AvanzaTipado DEF TypeOK, TiposPcb, IODespierta
      <3>3. TiposEfimeros' BY <1>2 DEF TypeOK, TiposEfimeros, IODespierta, PidsONulo
      <3>4. TiposMutex' /\ TiposMensajes' /\ TiposHilos' /\ TiposExternos'
         BY <1>2 DEF TypeOK, TiposMutex, TiposMensajes, TiposHilos, TiposExternos, IODespierta
      <3> QED BY <3>1, <3>2, <3>3, <3>4 DEF TypeOK
   <2>2. TestigoUnico' BY <1>2, MarcoTestigo DEF IODespierta
   <2>3. UnDuenio' BY <1>2, MarcoDuenio DEF CpuTiene, MemAtiende, IODespierta
   <2>4. AvisosDeAlta' BY <1>2, MarcoAvisos DEF Admitiendo, ConsolasQueAvisan, IODespierta
   <2> QED BY <2>1, <2>2, <2>3, <2>4 DEF IInv
<1>3. ASSUME IOAvisa PROVE IInv'
   <2>1. libre' \in [Mutexes -> BOOLEAN] /\ libre["PLANICORTOPLAZO"]
        /\ \A x \in Mutexes : libre'[x]
              <=> (x \in {"PCBENEJECUCION"} \/ (x # "PLANICORTOPLAZO" /\ libre[x]))
      BY <1>3, EfectoTomaYSuelta DEF IOAvisa
   <2>2. TypeOK'
      <3>1. TiposMutex' BY <1>3, <2>1 DEF TypeOK, TiposMutex, IOAvisa
      <3>2. TiposEfimeros' BY <1>3 DEF TypeOK, TiposEfimeros, IOAvisa
      <3>3. TiposListas' /\ TiposMensajes' BY <1>3 DEF TypeOK, TiposListas, TiposMensajes, IOAvisa
      <3>4. TiposPcb' /\ TiposHilos' BY <1>3 DEF TypeOK, TiposPcb, TiposHilos, IOAvisa
      <3>5. TiposExternos' BY <1>3 DEF TypeOK, TiposExternos, IOAvisa
      <3> QED BY <3>1, <3>2, <3>3, <3>4, <3>5 DEF TypeOK
   <2>3. TestigoUnico' BY <1>3, <2>1, MarcoTestigo DEF IOAvisa
   <2>4. UnDuenio' BY <1>3, <2>1, MarcoDuenio DEF CpuTiene, MemAtiende, IOAvisa
   <2>5. AvisosDeAlta' BY <1>3, <2>1, MarcoAvisos DEF Admitiendo, ConsolasQueAvisan, IOAvisa
   <2> QED BY <2>2, <2>3, <2>4, <2>5 DEF IInv
<1> QED BY <1>1, <1>2, <1>3 DEF IO

\* Every step of a handlerConsola thread preserves the invariant.
LEMMA PasoConsola ==
    ASSUME TypeOK, TestigoUnico, UnDuenio, AvisosDeAlta,
           NEW p \in Pids, ConsolaCrea(p) \/ Consola(p)
    PROVE  IInv'
<1>1. ASSUME ConsolaCrea(p) PROVE IInv'
   <2>1. TypeOK'
      <3>1. TiposListas' BY <1>1 DEF TypeOK, TiposListas, ConsolaCrea
      <3>2. TiposPcb'
         <4>1. programa' \in [Pids -> Seq(Instrucciones)]
            BY <1>1, ProgramasAssumption DEF ConsolaCrea, TypeOK, TiposPcb
         <4> QED BY <1>1, <4>1 DEF ConsolaCrea, TypeOK, TiposPcb
      <3>3. TiposEfimeros' BY <1>1 DEF TypeOK, TiposEfimeros, ConsolaCrea
      <3>4. TiposMutex' /\ TiposMensajes' /\ TiposHilos' /\ TiposExternos'
         BY <1>1 DEF TypeOK, TiposMutex, TiposMensajes, TiposHilos, TiposExternos, ConsolaCrea
      <3> QED BY <3>1, <3>2, <3>3, <3>4 DEF TypeOK
   <2>2. TestigoUnico' BY <1>1, MarcoTestigo DEF ConsolaCrea
   <2>3. UnDuenio' BY <1>1, MarcoDuenio DEF CpuTiene, MemAtiende, ConsolaCrea
   <2>4. AvisosDeAlta'
      <3>1. ConsolasQueAvisan' = ConsolasQueAvisan \cup {p} /\ p \notin ConsolasQueAvisan
         BY <1>1
               DEF ConsolaCrea, ConsolasQueAvisan, TypeOK, TiposMutex, TiposHilos,
                   TiposEfimeros
      <3>2. Cardinality(ConsolasQueAvisan') = Cardinality(ConsolasQueAvisan) + 1
         BY <3>1, AvisanFinitas, FS_AddElement
      <3>3. Len(colaNew') = Len(colaNew) + 1 /\ Len(colaNew) \in Nat
         BY <1>1 DEF ConsolaCrea, TypeOK, TiposMutex, TiposHilos, TiposListas
      <3> QED BY <1>1, <3>2, <3>3, AvisanFinitas
         DEF AvisosDeAlta, Cuenta, Admitiendo, ConsolaCrea
   <2> QED BY <2>1, <2>2, <2>3, <2>4 DEF IInv
<1>2. ASSUME ConsolaAvisa(p) PROVE IInv'
   <2>1. libre' \in [Mutexes -> BOOLEAN] /\ libre["MENSAJELARGOPLAZO"]
        /\ \A x \in Mutexes : libre'[x]
              <=> (x \in {"PLANILARGOPLAZO"} \/ (x # "MENSAJELARGOPLAZO" /\ libre[x]))
      BY <1>2, EfectoTomaYSuelta DEF ConsolaAvisa
   <2>2. TypeOK'
      <3>1. TiposMutex' BY <1>2, <2>1 DEF TypeOK, TiposMutex, ConsolaAvisa
      <3>2. TiposMensajes' BY <1>2, <2>1 DEF TypeOK, TiposMensajes, ConsolaAvisa
      <3>3. TiposEfimeros' BY <1>2, <2>1 DEF TypeOK, TiposEfimeros, ConsolaAvisa
      <3>4. TiposListas' BY <1>2 DEF TypeOK, TiposListas, ConsolaAvisa
      <3>5. TiposPcb' /\ TiposHilos' BY <1>2 DEF TypeOK, TiposPcb, TiposHilos, ConsolaAvisa
      <3>6. TiposExternos' BY <1>2 DEF TypeOK, TiposExternos, ConsolaAvisa
      <3> QED BY <3>1, <3>2, <3>3, <3>4, <3>5, <3>6 DEF TypeOK
   <2>3. TestigoUnico'
      BY <1>2, <2>1 DEF TestigoUnico, UnoSolo, ConsolaAvisa, En, TypeOK, TiposMutex, TiposHilos
   <2>4. UnDuenio' BY <1>2, <2>1, MarcoDuenio DEF CpuTiene, MemAtiende, ConsolaAvisa
   <2>5. AvisosDeAlta'
      <3>1. ConsolasQueAvisan' = ConsolasQueAvisan \ {p} /\ p \in ConsolasQueAvisan
         BY <1>2
               DEF ConsolaAvisa, ConsolasQueAvisan, TypeOK, TiposMutex, TiposHilos,
                   TiposEfimeros
      <3>2. Cardinality(ConsolasQueAvisan') = Cardinality(ConsolasQueAvisan) - 1
         BY <3>1, AvisanFinitas, FS_RemoveElement
      <3>3. ~libre["PLANILARGOPLAZO"] /\ libre'["PLANILARGOPLAZO"]
         BY <1>2, <2>1 DEF TestigoUnico, UnoSolo
      <3>4. Len(colaNew) \in Nat BY DEF TypeOK, TiposMutex, TiposHilos, TiposListas
      <3> QED BY <1>2, <3>2, <3>3, <3>4, AvisanFinitas
         DEF AvisosDeAlta, Cuenta, Admitiendo, ConsolaAvisa
   <2> QED BY <2>2, <2>3, <2>4, <2>5 DEF IInv
<1>3. ASSUME ConsolaFin(p) PROVE IInv'
   <2>1. TypeOK'
      <3>1. TiposEfimeros' BY <1>3 DEF TypeOK, TiposEfimeros, ConsolaFin
      <3>2. TiposMutex' /\ TiposListas' BY <1>3 DEF TypeOK, TiposMutex, TiposListas, ConsolaFin
      <3>3. TiposMensajes' /\ TiposPcb' BY <1>3 DEF TypeOK, TiposMensajes, TiposPcb, ConsolaFin
      <3>4. TiposHilos' /\ TiposExternos' BY <1>3 DEF TypeOK, TiposHilos, TiposExternos, ConsolaFin
      <3> QED BY <3>1, <3>2, <3>3, <3>4 DEF TypeOK
   <2>2. TestigoUnico' BY <1>3, MarcoTestigo DEF ConsolaFin
   <2>3. UnDuenio' BY <1>3, MarcoDuenio DEF CpuTiene, MemAtiende, ConsolaFin
   <2>4. AvisosDeAlta'
      BY <1>3, MarcoAvisos
         DEF Admitiendo, ConsolasQueAvisan, ConsolaFin, TypeOK, TiposMutex, TiposHilos,
             TiposEfimeros
   <2> QED BY <2>1, <2>2, <2>3, <2>4 DEF IInv
<1> QED BY <1>1, <1>2, <1>3 DEF Consola

\* While the CPU thread is in charge, its pcb is the running process.
LEMMA CpuCorre ==
    ASSUME TypeOK, UnDuenio, CpuTiene
    PROVE  /\ Len(listaExec) = 1 /\ Len(Resto(listaExec)) = 0
           /\ Primero(listaExec) \in Pids
           /\ pcb["CPU"] = Primero(listaExec) /\ pcb["CPU"] \in Pids
           /\ Resto(listaExec) \in Seq(Pids)
<1>1. Len(listaExec) = 1 BY DEF UnDuenio
<1>2. listaExec \in Seq(Pids) BY DEF TypeOK, TiposListas
<1>3. listaExec # <<>> BY <1>1, <1>2, UnElemento
<1> QED BY <1>1, <1>2, <1>3, PrimeroYResto DEF UnDuenio

\* While the memory thread is in charge, its pcb is the running process.
LEMMA MemCorre ==
    ASSUME TypeOK, UnDuenio, MemAtiende
    PROVE  /\ Len(listaExec) = 1 /\ Len(Resto(listaExec)) = 0
           /\ Primero(listaExec) \in Pids
           /\ pcb["MEM"] = Primero(listaExec) /\ pcb["MEM"] \in Pids
           /\ Resto(listaExec) \in Seq(Pids)
<1>1. Len(listaExec) = 1 BY DEF UnDuenio, MemTiene
<1>2. listaExec \in Seq(Pids) BY DEF TypeOK, TiposListas
<1>3. listaExec # <<>> BY <1>1, <1>2, UnElemento
<1> QED BY <1>1, <1>2, <1>3, PrimeroYResto DEF UnDuenio

\* The arguments of a request are those of the running process.
LEMMA ArgumentosTipados ==
    ASSUME TypeOK, pcb["CPU"] \in Pids, GuardaArgumentos
    PROVE  parametro' \in PidsONulo
BY DEF GuardaArgumentos, PidsONulo

\* Every step of the CPU thread preserves the invariant.
LEMMA PasoHiloDeCPU == ASSUME TypeOK, TestigoUnico, UnDuenio, AvisosDeAlta, HiloDeCPU PROVE IInv'
<1>1. ASSUME CpuEnvia PROVE IInv'
   <2>1. libre' \in [Mutexes -> BOOLEAN] /\ libre["MENSAJEACPU"]
        /\ \A x \in Mutexes : libre'[x] <=> (x # "MENSAJEACPU" /\ libre[x])
      BY <1>1, EfectoToma DEF CpuEnvia, Va, En
   <2>2. Primero(listaExec) \in PidsONulo /\ Len(listaExec) = 1 /\ Primero(listaExec) = listaExec[1]
      <3>1. Len(listaExec) = 1 /\ listaExec \in Seq(Pids)
         BY <1>1, <2>1 DEF UnDuenio, TypeOK, TiposListas
      <3>2. listaExec # <<>> BY <3>1, UnElemento
      <3> QED BY <3>1, <3>2, PrimeroYResto DEF PidsONulo
   <2>3. TypeOK'
      <3>1. TiposMutex' BY <1>1, <2>1, <2>2 DEF TypeOK, TiposMutex, CpuEnvia, Va
      <3>2. TiposHilos' BY <1>1, <2>1, <2>2 DEF TypeOK, TiposHilos, CpuEnvia, Va, PidsONulo
      <3>3. TiposListas' /\ TiposMensajes' /\ TiposPcb' /\ TiposEfimeros' /\ TiposExternos'
         BY <1>1
               DEF TypeOK, TiposListas, TiposMensajes, TiposPcb, TiposEfimeros, TiposExternos,
                   CpuEnvia, Va
      <3> QED BY <3>1, <3>2, <3>3 DEF TypeOK
   <2>4. TestigoUnico'
      BY <1>1, <2>1, <2>2, MarcoTestigo DEF CpuEnvia, Va, En, TypeOK, TiposMutex, TiposHilos
   <2>5. UnDuenio'
      BY <1>1, <2>1, <2>2
            DEF UnDuenio, CpuTiene, MemTiene, MemAtiende, CpuEnvia, Va, En, TypeOK, TiposMutex,
                TiposHilos
   <2>6. AvisosDeAlta'
      BY <1>1, <2>1, <2>2, MarcoAvisos
         DEF Admitiendo, ConsolasQueAvisan, CpuEnvia, Va, En, TypeOK, TiposMutex, TiposHilos
   <2> QED BY <2>3, <2>4, <2>5, <2>6 DEF IInv
<1>2. ASSUME CpuFinaliza PROVE IInv'
   <2>1. /\ CpuTiene /\ Len(listaExec) = 1 /\ Len(Resto(listaExec)) = 0
         /\ Primero(listaExec) \in Pids /\ pcb["CPU"] \in Pids /\ Resto(listaExec) \in Seq(Pids)
      BY <1>2, CpuCorre DEF CpuTiene, CpuFinaliza, Recibe, En
   <2>2. TypeOK'
      <3>1. TiposListas' BY <1>2, <2>1 DEF TypeOK, TiposListas, CpuFinaliza, FinalizarEmpieza
      <3>2. TiposMensajes'
         BY <1>2, <2>1, ArgumentosTipados DEF TypeOK, TiposMensajes, CpuFinaliza
      <3>3. TiposHilos'
         BY <1>2, <2>1 DEF TypeOK, TiposHilos, CpuFinaliza, FinalizarEmpieza, Va, PidsONulo
      <3>4. TiposMutex' /\ TiposPcb' /\ TiposEfimeros' /\ TiposExternos'
         BY <1>2
               DEF TypeOK, TiposMutex, TiposPcb, TiposEfimeros, TiposExternos, CpuFinaliza,
                   FinalizarEmpieza, Recibe, Va
      <3> QED BY <3>1, <3>2, <3>3, <3>4 DEF TypeOK
   <2>3. TestigoUnico'
      BY <1>2, <2>1, MarcoTestigo
         DEF CpuFinaliza, FinalizarEmpieza, Recibe, Va, En, TypeOK, TiposMutex, TiposHilos
   <2>4. UnDuenio'
      BY <1>2, <2>1
            DEF UnDuenio, CpuTiene, MemTiene, MemAtiende, CpuFinaliza, FinalizarEmpieza, Va,
                TypeOK, TiposMutex, TiposHilos
   <2>5. AvisosDeAlta'
      BY <1>2, <2>1, MarcoAvisos
         DEF Admitiendo, ConsolasQueAvisan, CpuFinaliza, FinalizarEmpieza, Recibe, Va, En,
             TypeOK, TiposMutex, TiposHilos
   <2> QED BY <2>2, <2>3, <2>4, <2>5 DEF IInv
<1>3. ASSUME CpuWaitBloquea PROVE IInv'
   <2>1. /\ CpuTiene /\ Len(listaExec) = 1 /\ Len(Resto(listaExec)) = 0
         /\ Primero(listaExec) \in Pids /\ pcb["CPU"] \in Pids /\ Resto(listaExec) \in Seq(Pids)
      BY <1>3, CpuCorre DEF CpuTiene, CpuWaitBloquea, Recibe, En
   <2>2. TypeOK'
      <3>1. TiposListas'
         <4>1. /\ Argumento \in Recursos /\ listaExec' = Resto(listaExec)
               /\ instancias' = [instancias EXCEPT ![Argumento] = @ - 1]
            BY <1>3 DEF CpuWaitBloquea, SacaDeExec
         <4>2. instancias' \in [Recursos -> Int] BY <4>1 DEF TypeOK, TiposListas
         <4>3. colaBloqueados' \in [Recursos -> Seq(Pids)]
            BY <1>3, <2>1, <4>1 DEF CpuWaitBloquea, TypeOK, TiposListas
         <4> QED BY <1>3, <2>1, <4>1, <4>2, <4>3 DEF CpuWaitBloquea, TypeOK, TiposListas
      <3>2. TiposMensajes'
         BY <1>3, <2>1, ArgumentosTipados DEF TypeOK, TiposMensajes, CpuWaitBloquea
      <3>3. TiposPcb' BY <1>3, AvanzaTipado DEF TypeOK, TiposPcb, CpuWaitBloquea
      <3>4. TiposHilos'
         BY <1>3, <2>1 DEF TypeOK, TiposHilos, CpuWaitBloquea, SacaDeExec, Va, PidsONulo
      <3>5. TiposMutex' /\ TiposEfimeros' /\ TiposExternos'
         BY <1>3
               DEF TypeOK, TiposMutex, TiposEfimeros, TiposExternos, CpuWaitBloquea,
                   SacaDeExec, Recibe, Va
      <3> QED BY <3>1, <3>2, <3>3, <3>4, <3>5 DEF TypeOK
   <2>3. TestigoUnico'
      BY <1>3, <2>1, MarcoTestigo
         DEF CpuWaitBloquea, SacaDeExec, Recibe, Va, En, TypeOK, TiposMutex, TiposHilos
   <2>4. UnDuenio'
      BY <1>3, <2>1
            DEF UnDuenio, CpuTiene, MemTiene, MemAtiende, CpuWaitBloquea, SacaDeExec, Va,
                TypeOK, TiposMutex, TiposHilos
   <2>5. AvisosDeAlta'
      BY <1>3, <2>1, MarcoAvisos
         DEF Admitiendo, ConsolasQueAvisan, CpuWaitBloquea, SacaDeExec, Recibe, Va, En, TypeOK,
             TiposMutex, TiposHilos
   <2> QED BY <2>2, <2>3, <2>4, <2>5 DEF IInv
<1>4. ASSUME CpuWaitOtorga PROVE IInv'
   <2>1. libre' \in [Mutexes -> BOOLEAN]
        /\ \A x \in Mutexes : libre'[x] <=> (x \in {"MENSAJEACPU"} \/ libre[x])
      BY <1>4, EfectoSuelta DEF CpuWaitOtorga, Recibe, Va, En
   <2>2. /\ CpuTiene /\ Len(listaExec) = 1 /\ Len(Resto(listaExec)) = 0
         /\ Primero(listaExec) \in Pids /\ pcb["CPU"] \in Pids /\ Resto(listaExec) \in Seq(Pids)
      BY <1>4, CpuCorre DEF CpuTiene, CpuWaitOtorga, Recibe, En
   <2>3. TypeOK'
      <3>1. TiposMutex' BY <1>4, <2>1, <2>2 DEF TypeOK, TiposMutex, CpuWaitOtorga, Recibe, Va
      <3>2. TiposListas'
         <4>1. /\ Argumento \in Recursos
               /\ instancias' = [instancias EXCEPT ![Argumento] = @ - 1]
            BY <1>4 DEF CpuWaitOtorga
         <4>2. instancias' \in [Recursos -> Int] BY <4>1 DEF TypeOK, TiposListas
         <4> QED BY <1>4, <4>2 DEF CpuWaitOtorga, TypeOK, TiposListas
      <3>3. TiposMensajes'
         BY <1>4, <2>1, <2>2, ArgumentosTipados DEF TypeOK, TiposMensajes, CpuWaitOtorga
      <3>4. TiposPcb' BY <1>4, AvanzaTipado DEF TypeOK, TiposPcb, CpuWaitOtorga
      <3>5. TiposHilos' BY <1>4 DEF TypeOK, TiposHilos, CpuWaitOtorga, Va
      <3>6. TiposEfimeros' /\ TiposExternos'
         BY <1>4 DEF TypeOK, TiposEfimeros, TiposExternos, CpuWaitOtorga, Recibe, Va
      <3> QED BY <3>1, <3>2, <3>3, <3>4, <3>5, <3>6 DEF TypeOK
   <2>4. TestigoUnico'
      BY <1>4, <2>1, <2>2, MarcoTestigo
         DEF CpuWaitOtorga, Recibe, Va, En, TypeOK, TiposMutex, TiposHilos
   <2>5. UnDuenio'
      BY <1>4, <2>1, <2>2
            DEF UnDuenio, CpuTiene, MemTiene, MemAtiende, CpuWaitOtorga, Va, TypeOK,
                TiposMutex, TiposHilos
   <2>6. AvisosDeAlta'
      BY <1>4, <2>1, <2>2, MarcoAvisos
         DEF Admitiendo, ConsolasQueAvisan, CpuWaitOtorga, Recibe, Va, En, TypeOK, TiposMutex,
             TiposHilos
   <2> QED BY <2>3, <2>4, <2>5, <2>6 DEF IInv
<1>5. ASSUME CpuSignalDespierta PROVE IInv'
   <2>1. /\ CpuTiene /\ Len(listaExec) = 1 /\ Len(Resto(listaExec)) = 0
         /\ Primero(listaExec) \in Pids /\ pcb["CPU"] \in Pids /\ Resto(listaExec) \in Seq(Pids)
      BY <1>5, CpuCorre DEF CpuTiene, CpuSignalDespierta, Recibe, En
   <2>2. TypeOK'
      <3>1. TiposListas'
         <4> DEFINE cola == colaBloqueados[Argumento]
         <4>1. /\ Argumento \in Recursos
               /\ instancias' = [instancias EXCEPT ![Argumento] = @ + 1]
            BY <1>5 DEF CpuSignalDespierta
         <4>2. /\ Argumento \in Recursos /\ cola # <<>>
               /\ listaReady' = Append(listaReady, Head(cola))
               /\ colaBloqueados' = [colaBloqueados EXCEPT ![Argumento] = Tail(@)]
            BY <1>5 DEF CpuSignalDespierta
         <4>3. cola \in Seq(Pids) BY <4>2 DEF TypeOK, TiposListas
         <4>4. Head(cola) \in Pids /\ Tail(cola) \in Seq(Pids) BY <4>2, <4>3
         <4>5. listaReady' \in Seq(Pids) BY <4>2, <4>4 DEF TypeOK, TiposListas
         <4>6. instancias' \in [Recursos -> Int] BY <4>1 DEF TypeOK, TiposListas
         <4>7. colaBloqueados' \in [Recursos -> Seq(Pids)]
            BY <4>2, <4>4 DEF TypeOK, TiposListas
         <4> QED BY <1>5, <4>5, <4>6, <4>7 DEF CpuSignalDespierta, TypeOK, TiposListas
      <3>2. TiposMensajes'
         BY <1>5, <2>1, ArgumentosTipados DEF TypeOK, TiposMensajes, CpuSignalDespierta
      <3>3. TiposPcb' BY <1>5, AvanzaTipado DEF TypeOK, TiposPcb, CpuSignalDespierta
      <3>4. TiposHilos' BY <1>5 DEF TypeOK, TiposHilos, CpuSignalDespierta, Va
      <3>5. TiposMutex' /\ TiposEfimeros' /\ TiposExternos'
         BY <1>5
               DEF TypeOK, TiposMutex, TiposEfimeros, TiposExternos, CpuSignalDespierta,
                   Recibe, Va
      <3> QED BY <3>1, <3>2, <3>3, <3>4, <3>5 DEF TypeOK
   <2>3. TestigoUnico'
      BY <1>5, <2>1, MarcoTestigo
         DEF CpuSignalDespierta, Recibe, Va, En, TypeOK, TiposMutex, TiposHilos
   <2>4. UnDuenio'
      BY <1>5, <2>1, MarcoDuenio
         DEF CpuTiene, MemAtiende, CpuSignalDespierta, Recibe, Va, En, TypeOK, TiposMutex,
             TiposHilos
   <2>5. AvisosDeAlta'
      BY <1>5, <2>1, MarcoAvisos
         DEF Admitiendo, ConsolasQueAvisan, CpuSignalDespierta, Recibe, Va, En, TypeOK,
             TiposMutex, TiposHilos
   <2> QED BY <2>2, <2>3, <2>4, <2>5 DEF IInv
<1>6. ASSUME CpuSignalSinDespertar PROVE IInv'
   <2>1. libre' \in [Mutexes -> BOOLEAN]
        /\ \A x \in Mutexes : libre'[x] <=> (x \in {"MENSAJEACPU"} \/ libre[x])
      BY <1>6, EfectoSuelta DEF CpuSignalSinDespertar, Recibe, Va, En
   <2>2. /\ CpuTiene /\ Len(listaExec) = 1 /\ Len(Resto(listaExec)) = 0
         /\ Primero(listaExec) \in Pids /\ pcb["CPU"] \in Pids /\ Resto(listaExec) \in Seq(Pids)
      BY <1>6, CpuCorre DEF CpuTiene, CpuSignalSinDespertar, Recibe, En
   <2>3. TypeOK'
      <3>1. TiposMutex'
         BY <1>6, <2>1, <2>2 DEF TypeOK, TiposMutex, CpuSignalSinDespertar, Recibe, Va
      <3>2. TiposListas'
         <4>1. /\ Argumento \in Recursos
               /\ \/ instancias' = [instancias EXCEPT ![Argumento] = @ + 1]
                  \/ instancias' = [instancias EXCEPT ![Argumento] = @ + 2]
            BY <1>6 DEF CpuSignalSinDespertar
         <4>2. instancias' \in [Recursos -> Int] BY <4>1 DEF TypeOK, TiposListas
         <4> QED BY <1>6, <4>2 DEF CpuSignalSinDespertar, TypeOK, TiposListas
      <3>3. TiposMensajes'
         BY <1>6, <2>1, <2>2, ArgumentosTipados DEF TypeOK, TiposMensajes, CpuSignalSinDespertar
      <3>4. TiposPcb' BY <1>6, AvanzaTipado DEF TypeOK, TiposPcb, CpuSignalSinDespertar
      <3>5. TiposHilos' BY <1>6 DEF TypeOK, TiposHilos, CpuSignalSinDespertar, Va
      <3>6. TiposEfimeros' /\ TiposExternos'
         BY <1>6 DEF TypeOK, TiposEfimeros, TiposExternos, CpuSignalSinDespertar, Recibe, Va
      <3> QED BY <3>1, <3>2, <3>3, <3>4, <3>5, <3>6 DEF TypeOK
   <2>4. TestigoUnico'
      BY <1>6, <2>1, <2>2, MarcoTestigo
         DEF CpuSignalSinDespertar, Recibe, Va, En, TypeOK, TiposMutex, TiposHilos
   <2>5. UnDuenio'
      BY <1>6, <2>1, <2>2
            DEF UnDuenio, CpuTiene, MemTiene, MemAtiende, CpuSignalSinDespertar, Va, TypeOK,
                TiposMutex, TiposHilos
   <2>6. AvisosDeAlta'
      BY <1>6, <2>1, <2>2, MarcoAvisos
         DEF Admitiendo, ConsolasQueAvisan, CpuSignalSinDespertar, Recibe, Va, En, TypeOK,
             TiposMutex, TiposHilos
   <2> QED BY <2>3, <2>4, <2>5, <2>6 DEF IInv
<1>7. ASSUME CpuIO PROVE IInv'
   <2>1. /\ CpuTiene /\ Len(listaExec) = 1 /\ Len(Resto(listaExec)) = 0
         /\ Primero(listaExec) \in Pids /\ pcb["CPU"] \in Pids /\ Resto(listaExec) \in Seq(Pids)
      BY <1>7, CpuCorre DEF CpuTiene, CpuIO, Recibe, En
   <2>2. TypeOK'
      <3>1. TiposListas' BY <1>7, <2>1 DEF TypeOK, TiposListas, CpuIO, SacaDeExec
      <3>2. TiposMensajes' BY <1>7, <2>1, ArgumentosTipados DEF TypeOK, TiposMensajes, CpuIO
      <3>3. TiposHilos' BY <1>7, <2>1 DEF TypeOK, TiposHilos, CpuIO, SacaDeExec, Va, PidsONulo
      <3>4. TiposMutex' /\ TiposPcb' /\ TiposEfimeros' /\ TiposExternos'
         BY <1>7
               DEF TypeOK, TiposMutex, TiposPcb, TiposEfimeros, TiposExternos, CpuIO,
                   SacaDeExec, Recibe, Va
      <3> QED BY <3>1, <3>2, <3>3, <3>4 DEF TypeOK
   <2>3. TestigoUnico'
      BY <1>7, <2>1, MarcoTestigo
         DEF CpuIO, SacaDeExec, Recibe, Va, En, TypeOK, TiposMutex, TiposHilos
   <2>4. UnDuenio'
      BY <1>7, <2>1
            DEF UnDuenio, CpuTiene, MemTiene, MemAtiende, CpuIO, SacaDeExec, Va, TypeOK,
                TiposMutex, TiposHilos
   <2>5. AvisosDeAlta'
      BY <1>7, <2>1, MarcoAvisos
         DEF Admitiendo, ConsolasQueAvisan, CpuIO, SacaDeExec, Recibe, Va, En, TypeOK,
             TiposMutex, TiposHilos
   <2> QED BY <2>2, <2>3, <2>4, <2>5 DEF IInv
<1>8. ASSUME CpuIOParam PROVE IInv'
   <2>1. libre' \in [Mutexes -> BOOLEAN] /\ libre["IOPARAM"]
        /\ \A x \in Mutexes : libre'[x] <=> (x # "IOPARAM" /\ libre[x])
      BY <1>8, EfectoToma DEF CpuIOParam, Va, En
   <2>2. TypeOK'
      <3>1. TiposMutex' BY <1>8, <2>1 DEF TypeOK, TiposMutex, CpuIOParam, Va
      <3>2. TiposMensajes' BY <1>8, <2>1 DEF TypeOK, TiposMensajes, CpuIOParam, Va, TiposHilos
      <3>3. TiposHilos' BY <1>8, <2>1 DEF TypeOK, TiposHilos, CpuIOParam, Va, TiposHilos
      <3>4. TiposEfimeros' BY <1>8, <2>1 DEF TypeOK, TiposEfimeros, CpuIOParam, Va, TiposHilos
      <3>5. TiposListas' /\ TiposPcb' /\ TiposExternos'
         BY <1>8 DEF TypeOK, TiposListas, TiposPcb, TiposExternos, CpuIOParam, Va
      <3> QED BY <3>1, <3>2, <3>3, <3>4, <3>5 DEF TypeOK
   <2>3. TestigoUnico'
      BY <1>8, <2>1, MarcoTestigo DEF CpuIOParam, Va, En, TypeOK, TiposMutex, TiposHilos
   <2>4. UnDuenio'
      BY <1>8, <2>1, MarcoDuenio
         DEF CpuTiene, MemAtiende, CpuIOParam, Va, En, TypeOK, TiposMutex, TiposHilos
   <2>5. AvisosDeAlta'
      BY <1>8, <2>1, MarcoAvisos
         DEF Admitiendo, ConsolasQueAvisan, CpuIOParam, Va, En, TypeOK, TiposMutex, TiposHilos
   <2> QED BY <2>2, <2>3, <2>4, <2>5 DEF IInv
<1>9. ASSUME CpuYield PROVE IInv'
   <2>1. /\ CpuTiene /\ Len(listaExec) = 1 /\ Len(Resto(listaExec)) = 0
         /\ Primero(listaExec) \in Pids /\ pcb["CPU"] \in Pids /\ Resto(listaExec) \in Seq(Pids)
      BY <1>9, CpuCorre DEF CpuTiene, CpuYield, Recibe, En
   <2>2. TypeOK'
      <3>1. TiposListas' BY <1>9, <2>1 DEF TypeOK, TiposListas, CpuYield, SacaDeExec
      <3>2. TiposPcb' BY <1>9, AvanzaTipado DEF TypeOK, TiposPcb, CpuYield
      <3>3. TiposHilos'
         BY <1>9, <2>1 DEF TypeOK, TiposHilos, CpuYield, SacaDeExec, Va, PidsONulo
      <3>4. TiposMutex' /\ TiposMensajes' /\ TiposEfimeros' /\ TiposExternos'
         BY <1>9
               DEF TypeOK, TiposMutex, TiposMensajes, TiposEfimeros, TiposExternos, CpuYield,
                   SacaDeExec, Recibe, Va
      <3> QED BY <3>1, <3>2, <3>3, <3>4 DEF TypeOK
   <2>3. TestigoUnico'
      BY <1>9, <2>1, MarcoTestigo
         DEF CpuYield, SacaDeExec, Recibe, Va, En, TypeOK, TiposMutex, TiposHilos
   <2>4. UnDuenio'
      BY <1>9, <2>1
            DEF UnDuenio, CpuTiene, MemTiene, MemAtiende, CpuYield, SacaDeExec, Va, TypeOK,
                TiposMutex, TiposHilos
   <2>5. AvisosDeAlta'
      BY <1>9, <2>1, MarcoAvisos
         DEF Admitiendo, ConsolasQueAvisan, CpuYield, SacaDeExec, Recibe, Va, En, TypeOK,
             TiposMutex, TiposHilos
   <2> QED BY <2>2, <2>3, <2>4, <2>5 DEF IInv
<1>10. ASSUME CpuSegmento PROVE IInv'
   <2>1. /\ CpuTiene /\ Len(listaExec) = 1 /\ Len(Resto(listaExec)) = 0
         /\ Primero(listaExec) \in Pids /\ pcb["CPU"] \in Pids /\ Resto(listaExec) \in Seq(Pids)
      BY <1>10, CpuCorre DEF CpuTiene, CpuSegmento, Recibe, En
   <2>2. TypeOK'
      <3>1. TiposMensajes'
         BY <1>10, <2>1, ArgumentosTipados DEF TypeOK, TiposMensajes, CpuSegmento
      <3>2. TiposHilos' BY <1>10, <2>1 DEF TypeOK, TiposHilos, CpuSegmento, Recibe, Va
      <3>3. TiposMutex' /\ TiposListas' /\ TiposPcb' /\ TiposEfimeros' /\ TiposExternos'
         BY <1>10
               DEF TypeOK, TiposMutex, TiposListas, TiposPcb, TiposEfimeros, TiposExternos,
                   CpuSegmento, Recibe, Va
      <3> QED BY <3>1, <3>2, <3>3 DEF TypeOK
   <2>3. TestigoUnico'
      BY <1>10, <2>1, MarcoTestigo
         DEF CpuSegmento, Recibe, Va, En, TypeOK, TiposMutex, TiposHilos
   <2>4. UnDuenio'
      BY <1>10, <2>1, MarcoDuenio
         DEF CpuTiene, MemAtiende, CpuSegmento, Recibe, Va, En, TypeOK, TiposMutex, TiposHilos
   <2>5. AvisosDeAlta'
      BY <1>10, <2>1, MarcoAvisos
         DEF Admitiendo, ConsolasQueAvisan, CpuSegmento, Recibe, Va, En, TypeOK, TiposMutex,
             TiposHilos
   <2> QED BY <2>2, <2>3, <2>4, <2>5 DEF IInv
<1>11. ASSUME CpuPideMemoria PROVE IInv'
   <2>1. libre' \in [Mutexes -> BOOLEAN] /\ libre["CONEXIONMEMORIA"]
        /\ \A x \in Mutexes : libre'[x]
              <=> (x \in {"MENSAJEAMEMORIA"} \/ (x # "CONEXIONMEMORIA" /\ libre[x]))
      BY <1>11, EfectoTomaYSuelta DEF CpuPideMemoria, Va, En
   <2>2. /\ CpuTiene /\ Len(listaExec) = 1 /\ Len(Resto(listaExec)) = 0
         /\ Primero(listaExec) \in Pids /\ pcb["CPU"] \in Pids /\ Resto(listaExec) \in Seq(Pids)
      BY <1>11, CpuCorre DEF CpuTiene, CpuPideMemoria, En
   <2>3. TypeOK'
      <3>1. TiposMutex' BY <1>11, <2>1, <2>2 DEF TypeOK, TiposMutex, CpuPideMemoria, Va
      <3>2. TiposMensajes' BY <1>11, <2>1, <2>2 DEF TypeOK, TiposMensajes, CpuPideMemoria, Va
      <3>3. TiposHilos' BY <1>11, <2>1, <2>2 DEF TypeOK, TiposHilos, CpuPideMemoria, Va
      <3>4. TiposListas' /\ TiposPcb' /\ TiposEfimeros' /\ TiposExternos'
         BY <1>11
               DEF TypeOK, TiposListas, TiposPcb, TiposEfimeros, TiposExternos, CpuPideMemoria,
                   Va
      <3> QED BY <3>1, <3>2, <3>3, <3>4 DEF TypeOK
   <2>4. TestigoUnico'
      BY <1>11, <2>1, <2>2
            DEF TestigoUnico, UnoSolo, CpuPideMemoria, Va, En, TypeOK, TiposMutex, TiposHilos
   <2>5. UnDuenio'
      BY <1>11, <2>1, <2>2
            DEF UnDuenio, CpuTiene, MemTiene, MemAtiende, TestigoUnico, UnoSolo,
                CpuPideMemoria, Va, En, TypeOK, TiposMutex, TiposHilos
   <2>6. AvisosDeAlta'
      BY <1>11, <2>1, <2>2, MarcoAvisos
         DEF Admitiendo, ConsolasQueAvisan, CpuPideMemoria, Va, En, TypeOK, TiposMutex,
             TiposHilos
   <2> QED BY <2>3, <2>4, <2>5, <2>6 DEF IInv
<1>12. ASSUME CpuArchivo PROVE IInv'
   <2>1. libre' \in [Mutexes -> BOOLEAN]
        /\ \A x \in Mutexes : libre'[x] <=> (x \in {"MENSAJEAFILESYSTEM"} \/ libre[x])
      BY <1>12, EfectoSuelta DEF CpuArchivo, Recibe, Va, En
   <2>2. /\ CpuTiene /\ Len(listaExec) = 1 /\ Len(Resto(listaExec)) = 0
         /\ Primero(listaExec) \in Pids /\ pcb["CPU"] \in Pids /\ Resto(listaExec) \in Seq(Pids)
      BY <1>12, CpuCorre DEF CpuTiene, CpuArchivo, Recibe, En
   <2>3. TypeOK'
      <3>1. TiposMutex' BY <1>12, <2>1, <2>2 DEF TypeOK, TiposMutex, CpuArchivo, Recibe, Va
      <3>2. TiposMensajes'
         <4>1. mensajeFileSystem' \in Operaciones \cup {"NADA"}
            BY <1>12 DEF CpuArchivo, Recibe, Operaciones
         <4> QED BY <1>12, <2>1, <2>2, <4>1, ArgumentosTipados
               DEF CpuArchivo, TypeOK, TiposMensajes
      <3>3. TiposHilos' BY <1>12, <2>1, <2>2 DEF TypeOK, TiposHilos, CpuArchivo, Recibe, Va
      <3>4. TiposListas' /\ TiposPcb' /\ TiposEfimeros' /\ TiposExternos'
         BY <1>12
               DEF TypeOK, TiposListas, TiposPcb, TiposEfimeros, TiposExternos, CpuArchivo,
                   Recibe, Va
      <3> QED BY <3>1, <3>2, <3>3, <3>4 DEF TypeOK
   <2>4. TestigoUnico'
      BY <1>12, <2>1, <2>2, MarcoTestigo
         DEF CpuArchivo, Recibe, Va, En, TypeOK, TiposMutex, TiposHilos
   <2>5. UnDuenio'
      BY <1>12, <2>1, <2>2
            DEF UnDuenio, CpuTiene, MemTiene, MemAtiende, CpuArchivo, Va, TypeOK, TiposMutex,
                TiposHilos
   <2>6. AvisosDeAlta'
      BY <1>12, <2>1, <2>2, MarcoAvisos
         DEF Admitiendo, ConsolasQueAvisan, CpuArchivo, Recibe, Va, En, TypeOK, TiposMutex,
             TiposHilos
   <2> QED BY <2>3, <2>4, <2>5, <2>6 DEF IInv
<1>13. ASSUME CpuAvisa /\ En("CPU", "avisa") PROVE IInv'
   <2>1. libre' \in [Mutexes -> BOOLEAN] /\ libre["PLANICORTOPLAZO"]
        /\ \A x \in Mutexes : libre'[x]
              <=> (x \in {"PCBENEJECUCION"} \/ (x # "PLANICORTOPLAZO" /\ libre[x]))
      BY <1>13, EfectoTomaYSuelta DEF CpuAvisa, Va, En
   <2>2. TypeOK'
      <3>1. TiposMutex' BY <1>13, <2>1 DEF TypeOK, TiposMutex, CpuAvisa, Va
      <3>2. TiposHilos' BY <1>13, <2>1 DEF TypeOK, TiposHilos, CpuAvisa, Va
      <3>3. TiposListas' /\ TiposMensajes' /\ TiposPcb' /\ TiposEfimeros' /\ TiposExternos'
         BY <1>13
               DEF TypeOK, TiposListas, TiposMensajes, TiposPcb, TiposEfimeros, TiposExternos,
                   CpuAvisa, Va
      <3> QED BY <3>1, <3>2, <3>3 DEF TypeOK
   <2>3. TestigoUnico'
      BY <1>13, <2>1, MarcoTestigo DEF CpuAvisa, Va, En, TypeOK, TiposMutex, TiposHilos
   <2>4. UnDuenio'
      BY <1>13, <2>1, MarcoDuenio
         DEF CpuTiene, MemAtiende, CpuAvisa, Va, En, TypeOK, TiposMutex, TiposHilos
   <2>5. AvisosDeAlta'
      BY <1>13, <2>1, MarcoAvisos
         DEF Admitiendo, ConsolasQueAvisan, CpuAvisa, Va, En, TypeOK, TiposMutex, TiposHilos
   <2> QED BY <2>2, <2>3, <2>4, <2>5 DEF IInv
<1>14. ASSUME CpuAvisa /\ En("CPU", "avisa_y_sigue") PROVE IInv'
   <2>1. libre' \in [Mutexes -> BOOLEAN] /\ libre["PLANICORTOPLAZO"]
        /\ \A x \in Mutexes : libre'[x]
              <=> (x \in {"PCBENEJECUCION", "MENSAJEACPU"} \/ (x # "PLANICORTOPLAZO" /\ libre[x]))
      BY <1>14, EfectoTomaYSuelta DEF CpuAvisa, Va, En
   <2>2. CpuTiene BY <1>14 DEF CpuTiene, En
   <2>3. TypeOK'
      <3>1. TiposMutex' BY <1>14, <2>1, <2>2 DEF TypeOK, TiposMutex, CpuAvisa, Va
      <3>2. TiposHilos' BY <1>14, <2>1, <2>2 DEF TypeOK, TiposHilos, CpuAvisa, Va
      <3>3. TiposListas' /\ TiposMensajes' /\ TiposPcb' /\ TiposEfimeros' /\ TiposExternos'
         BY <1>14
               DEF TypeOK, TiposListas, TiposMensajes, TiposPcb, TiposEfimeros, TiposExternos,
                   CpuAvisa, Va
      <3> QED BY <3>1, <3>2, <3>3 DEF TypeOK
   <2>4. TestigoUnico'
      BY <1>14, <2>1, <2>2, MarcoTestigo DEF CpuAvisa, Va, En, TypeOK, TiposMutex, TiposHilos
   <2>5. UnDuenio'
      BY <1>14, <2>1, <2>2
            DEF UnDuenio, CpuTiene, MemTiene, MemAtiende, CpuAvisa, Va, En, TypeOK, TiposMutex,
                TiposHilos
   <2>6. AvisosDeAlta'
      BY <1>14, <2>1, <2>2, MarcoAvisos
         DEF Admitiendo, ConsolasQueAvisan, CpuAvisa, Va, En, TypeOK, TiposMutex, TiposHilos
   <2> QED BY <2>3, <2>4, <2>5, <2>6 DEF IInv
<1>15. ASSUME FinalizarAvisaConsola("CPU") PROVE IInv'
   <2>1. libre' \in [Mutexes -> BOOLEAN] /\ libre["FINALIZARPCB"]
        /\ \A x \in Mutexes : libre'[x] <=> (x # "FINALIZARPCB" /\ libre[x])
      BY <1>15, EfectoToma DEF FinalizarAvisaConsola, Va, En
   <2>2. TypeOK'
      <3>1. TiposMutex' BY <1>15, <2>1 DEF TypeOK, TiposMutex, FinalizarAvisaConsola, Va
      <3>2. TiposHilos' BY <1>15, <2>1 DEF TypeOK, TiposHilos, FinalizarAvisaConsola, Va
      <3>3. TiposEfimeros' BY <1>15, <2>1 DEF TypeOK, TiposEfimeros, FinalizarAvisaConsola, Va
      <3>4. TiposListas' /\ TiposMensajes' /\ TiposPcb' /\ TiposExternos'
         BY <1>15
               DEF TypeOK, TiposListas, TiposMensajes, TiposPcb, TiposExternos,
                   FinalizarAvisaConsola, Va
      <3> QED BY <3>1, <3>2, <3>3, <3>4 DEF TypeOK
   <2>3. TestigoUnico'
      BY <1>15, <2>1, MarcoTestigo
         DEF FinalizarAvisaConsola, Va, En, TypeOK, TiposMutex, TiposHilos
   <2>4. UnDuenio'
      BY <1>15, <2>1, MarcoDuenio
         DEF CpuTiene, MemAtiende, FinalizarAvisaConsola, Va, En, TypeOK, TiposMutex,
             TiposHilos
   <2>5. AvisosDeAlta'
      BY <1>15, <2>1, MarcoAvisos
         DEF Admitiendo, ConsolasQueAvisan, FinalizarAvisaConsola, Va, En, TypeOK, TiposMutex,
             TiposHilos
   <2> QED BY <2>2, <2>3, <2>4, <2>5 DEF IInv
<1>16. ASSUME FinalizarAvisaPlanificador("CPU", "espera") PROVE IInv'
   <2>1. libre' \in [Mutexes -> BOOLEAN] /\ libre["MENSAJELARGOPLAZO"]
        /\ \A x \in Mutexes : libre'[x]
              <=> (x \in {"PLANILARGOPLAZO"} \/ (x # "MENSAJELARGOPLAZO" /\ libre[x]))
      BY <1>16, EfectoTomaYSuelta DEF FinalizarAvisaPlanificador, Va, En
   <2>2. TypeOK'
      <3>1. TiposMutex' BY <1>16, <2>1 DEF TypeOK, TiposMutex, FinalizarAvisaPlanificador, Va
      <3>2. TiposMensajes'
         BY <1>16, <2>1 DEF TypeOK, TiposMensajes, FinalizarAvisaPlanificador, Va
      <3>3. TiposHilos' BY <1>16, <2>1 DEF TypeOK, TiposHilos, FinalizarAvisaPlanificador, Va
      <3>4. TiposListas' /\ TiposPcb' /\ TiposEfimeros' /\ TiposExternos'
         BY <1>16
               DEF TypeOK, TiposListas, TiposPcb, TiposEfimeros, TiposExternos,
                   FinalizarAvisaPlanificador, Va
      <3> QED BY <3>1, <3>2, <3>3, <3>4 DEF TypeOK
   <2>3. TestigoUnico'
      BY <1>16, <2>1
            DEF TestigoUnico, UnoSolo, FinalizarAvisaPlanificador, Va, En, TypeOK, TiposMutex,
                TiposHilos
   <2>4. UnDuenio'
      BY <1>16, <2>1, MarcoDuenio
         DEF CpuTiene, MemAtiende, FinalizarAvisaPlanificador, Va, En, TypeOK, TiposMutex,
             TiposHilos
   <2>5. AvisosDeAlta'
      BY <1>16, <2>1
            DEF AvisosDeAlta, Cuenta, Admitiendo, ConsolasQueAvisan, TestigoUnico, UnoSolo,
                FinalizarAvisaPlanificador, Va, TypeOK, TiposMutex, TiposHilos
   <2> QED BY <2>2, <2>3, <2>4, <2>5 DEF IInv
<1> QED BY <1>1, <1>2, <1>3, <1>4, <1>5, <1>6, <1>7, <1>8, <1>9, <1>10, <1>11, <1>12, <1>13, <1>14, <1>15, <1>16
      DEF HiloDeCPU, CpuAvisa

\* Storing a segment table keeps tabla a function of the pids.
LEMMA TablaTipada ==
    ASSUME TypeOK, NEW p, tabla' = [tabla EXCEPT ![p] = epoca]
    PROVE  tabla' \in [Pids -> Int]
<1>1. tabla \in [Pids -> Int] /\ epoca \in Int BY DEF TypeOK, TiposPcb, TiposExternos
<1>2. CASE p \in Pids BY <1>1, <1>2
<1>3. CASE p \notin Pids BY <1>1, <1>3
<1> QED BY <1>2, <1>3

\* Every step of the memory thread preserves the invariant.
LEMMA PasoHiloDeMemoria ==
    ASSUME TypeOK, TestigoUnico, UnDuenio, AvisosDeAlta,
           HiloDeMemoria
    PROVE  IInv'
<1>1. ASSUME MemToma /\ mensajeAMemoria = "REQ_INICIAR_PROCESO" PROVE IInv'
   <2>1. libre' \in [Mutexes -> BOOLEAN] /\ libre["MENSAJEAMEMORIA"]
        /\ \A x \in Mutexes : libre'[x] <=> (x # "MENSAJEAMEMORIA" /\ libre[x])
      BY <1>1, EfectoToma DEF MemToma, Va, En
   <2>2. Primero(colaNew) \in PidsONulo
      BY PrimeroYResto DEF PidsONulo, TypeOK, TiposListas
   <2>3. pcb' = [pcb EXCEPT !["MEM"] = Primero(colaNew)] /\ Va("MEM", "iniciar")
      BY <1>1 DEF MemToma
   <2>4. TypeOK'
      <3>1. TiposMutex' BY <1>1, <2>1, <2>2, <2>3 DEF TypeOK, TiposMutex, MemToma, Va
      <3>2. TiposHilos' BY <2>1, <2>2, <2>3 DEF TypeOK, TiposHilos, Va
      <3>3. TiposListas' /\ TiposMensajes' /\ TiposPcb' /\ TiposEfimeros' /\ TiposExternos'
         BY <1>1
               DEF TypeOK, TiposListas, TiposMensajes, TiposPcb, TiposEfimeros, TiposExternos,
                   MemToma, Va
      <3> QED BY <3>1, <3>2, <3>3 DEF TypeOK
   <2>5. TestigoUnico'
      BY <1>1, <2>1, <2>2, <2>3
            DEF TestigoUnico, UnoSolo, MemToma, Va, En, TypeOK, TiposMutex, TiposHilos
   <2>6. UnDuenio'
      BY <1>1, <2>1, <2>2, <2>3
            DEF UnDuenio, CpuTiene, MemTiene, MemAtiende, TestigoUnico, UnoSolo, MemToma, Va,
                En, TypeOK, TiposMutex, TiposHilos
   <2>7. AvisosDeAlta'
      BY <1>1, <2>1, <2>2, <2>3, MarcoAvisos
         DEF Admitiendo, ConsolasQueAvisan, MemToma, Va, En, TypeOK, TiposMutex, TiposHilos
   <2> QED BY <2>4, <2>5, <2>6, <2>7 DEF IInv
<1>2. ASSUME MemToma /\ mensajeAMemoria = "REQ_CREAR_SEGMENTO" PROVE IInv'
   <2>1. libre' \in [Mutexes -> BOOLEAN] /\ libre["MENSAJEAMEMORIA"]
        /\ \A x \in Mutexes : libre'[x] <=> (x # "MENSAJEAMEMORIA" /\ libre[x])
      BY <1>2, EfectoToma DEF MemToma, Va, En
   <2>2. Primero(listaExec) \in PidsONulo
      BY PrimeroYResto DEF PidsONulo, TypeOK, TiposListas
   <2>3. pcb' = [pcb EXCEPT !["MEM"] = Primero(listaExec)] /\ Va("MEM", "crear")
      BY <1>2 DEF MemToma
   <2>4. TypeOK'
      <3>1. TiposMutex' BY <1>2, <2>1, <2>2, <2>3 DEF TypeOK, TiposMutex, MemToma, Va
      <3>2. TiposHilos' BY <2>1, <2>2, <2>3 DEF TypeOK, TiposHilos, Va
      <3>3. TiposListas' /\ TiposMensajes' /\ TiposPcb' /\ TiposEfimeros' /\ TiposExternos'
         BY <1>2
               DEF TypeOK, TiposListas, TiposMensajes, TiposPcb, TiposEfimeros, TiposExternos,
                   MemToma, Va
      <3> QED BY <3>1, <3>2, <3>3 DEF TypeOK
   <2>5. TestigoUnico'
      BY <1>2, <2>1, <2>2, <2>3
            DEF TestigoUnico, UnoSolo, MemToma, Va, En, TypeOK, TiposMutex, TiposHilos
   <2>6. UnDuenio'
      <3>1. listaExec \in Seq(Pids) BY DEF TypeOK, TiposMutex, TiposHilos, TiposListas
      <3>2. Len(listaExec) = 1 BY <1>2, <2>1, <2>2, <2>3 DEF UnDuenio, MemTiene
      <3>3. Primero(listaExec) = listaExec[1] BY <3>1, <3>2, UnElemento, PrimeroYResto
      <3> QED BY <1>2, <2>1, <2>2, <2>3, <3>2, <3>3
               DEF UnDuenio, CpuTiene, MemTiene, MemAtiende, TestigoUnico, UnoSolo, MemToma,
                   Va, En, TypeOK, TiposMutex, TiposHilos
   <2>7. AvisosDeAlta'
      BY <1>2, <2>1, <2>2, <2>3, MarcoAvisos
         DEF Admitiendo, ConsolasQueAvisan, MemToma, Va, En, TypeOK, TiposMutex, TiposHilos
   <2> QED BY <2>4, <2>5, <2>6, <2>7 DEF IInv
<1>3. ASSUME MemToma /\ mensajeAMemoria = "REQ_ELIMINAR_SEGMENTO" PROVE IInv'
   <2>1. libre' \in [Mutexes -> BOOLEAN] /\ libre["MENSAJEAMEMORIA"]
        /\ \A x \in Mutexes : libre'[x] <=> (x # "MENSAJEAMEMORIA" /\ libre[x])
      BY <1>3, EfectoToma DEF MemToma, Va, En
   <2>2. Primero(listaExec) \in PidsONulo
      BY PrimeroYResto DEF PidsONulo, TypeOK, TiposListas
   <2>3. pcb' = [pcb EXCEPT !["MEM"] = Primero(listaExec)] /\ Va("MEM", "eliminar")
      BY <1>3 DEF MemToma
   <2>4. TypeOK'
      <3>1. TiposMutex' BY <1>3, <2>1, <2>2, <2>3 DEF TypeOK, TiposMutex, MemToma, Va
      <3>2. TiposHilos' BY <2>1, <2>2, <2>3 DEF TypeOK, TiposHilos, Va
      <3>3. TiposListas' /\ TiposMensajes' /\ TiposPcb' /\ TiposEfimeros' /\ TiposExternos'
         BY <1>3
               DEF TypeOK, TiposListas, TiposMensajes, TiposPcb, TiposEfimeros, TiposExternos,
                   MemToma, Va
      <3> QED BY <3>1, <3>2, <3>3 DEF TypeOK
   <2>5. TestigoUnico'
      BY <1>3, <2>1, <2>2, <2>3
            DEF TestigoUnico, UnoSolo, MemToma, Va, En, TypeOK, TiposMutex, TiposHilos
   <2>6. UnDuenio'
      <3>1. listaExec \in Seq(Pids) BY DEF TypeOK, TiposMutex, TiposHilos, TiposListas
      <3>2. Len(listaExec) = 1 BY <1>3, <2>1, <2>2, <2>3 DEF UnDuenio, MemTiene
      <3>3. Primero(listaExec) = listaExec[1] BY <3>1, <3>2, UnElemento, PrimeroYResto
      <3> QED BY <1>3, <2>1, <2>2, <2>3, <3>2, <3>3
               DEF UnDuenio, CpuTiene, MemTiene, MemAtiende, TestigoUnico, UnoSolo, MemToma,
                   Va, En, TypeOK, TiposMutex, TiposHilos
   <2>7. AvisosDeAlta'
      BY <1>3, <2>1, <2>2, <2>3, MarcoAvisos
         DEF Admitiendo, ConsolasQueAvisan, MemToma, Va, En, TypeOK, TiposMutex, TiposHilos
   <2> QED BY <2>4, <2>5, <2>6, <2>7 DEF IInv
<1>4. ASSUME MemToma /\ mensajeAMemoria = "REQ_FIN_PROCESO" PROVE IInv'
   <2>1. libre' \in [Mutexes -> BOOLEAN] /\ libre["MENSAJEAMEMORIA"]
        /\ \A x \in Mutexes : libre'[x] <=> (x # "MENSAJEAMEMORIA" /\ libre[x])
      BY <1>4, EfectoToma DEF MemToma, Va, En
   <2>2. pcb' = pcb /\ Va("MEM", "fin")
      BY <1>4 DEF MemToma
   <2>3. TypeOK'
      <3>1. TiposMutex' BY <1>4, <2>1, <2>2 DEF TypeOK, TiposMutex, MemToma, Va
      <3>2. TiposHilos' BY <2>1, <2>2 DEF TypeOK, TiposHilos, Va
      <3>3. TiposListas' /\ TiposMensajes' /\ TiposPcb' /\ TiposEfimeros' /\ TiposExternos'
         BY <1>4
               DEF TypeOK, TiposListas, TiposMensajes, TiposPcb, TiposEfimeros, TiposExternos,
                   MemToma, Va
      <3> QED BY <3>1, <3>2, <3>3 DEF TypeOK
   <2>4. TestigoUnico'
      BY <1>4, <2>1, <2>2
            DEF TestigoUnico, UnoSolo, MemToma, Va, En, TypeOK, TiposMutex, TiposHilos
   <2>5. UnDuenio'
      BY <1>4, <2>1, <2>2
            DEF UnDuenio, CpuTiene, MemTiene, MemAtiende, TestigoUnico, UnoSolo, MemToma, Va,
                En, TypeOK, TiposMutex, TiposHilos
   <2>6. AvisosDeAlta'
      BY <1>4, <2>1, <2>2, MarcoAvisos
         DEF Admitiendo, ConsolasQueAvisan, MemToma, Va, En, TypeOK, TiposMutex, TiposHilos
   <2> QED BY <2>3, <2>4, <2>5, <2>6 DEF IInv
<1>5. ASSUME MemIniciar PROVE IInv'
   <2>1. libre' \in [Mutexes -> BOOLEAN] /\ libre["PCBNEW"]
        /\ \A x \in Mutexes : libre'[x]
              <=> (x \in {"PCBNEW", "TABLASEGMENTOS"} \/ (x # "PCBNEW" /\ libre[x]))
      BY <1>5, EfectoTomaYSuelta DEF MemIniciar, Va, En
   <2>2. Primero(colaNew) \in PidsONulo
      BY PrimeroYResto DEF PidsONulo, TypeOK, TiposListas
   <2>3. TypeOK'
      <3>1. TiposMutex' BY <1>5, <2>1, <2>2 DEF TypeOK, TiposMutex, MemIniciar, Va
      <3>2. TiposPcb' BY <1>5, TablaTipada DEF TypeOK, TiposPcb, MemIniciar
      <3>3. TiposHilos' BY <1>5, <2>1, <2>2 DEF TypeOK, TiposHilos, MemIniciar, Va
      <3>4. TiposExternos' BY <1>5 DEF TypeOK, TiposExternos, TiposHilos, MemIniciar
      <3>5. TiposListas' /\ TiposMensajes' /\ TiposEfimeros'
         BY <1>5 DEF TypeOK, TiposListas, TiposMensajes, TiposEfimeros, MemIniciar, Va
      <3> QED BY <3>1, <3>2, <3>3, <3>4, <3>5 DEF TypeOK
   <2>4. TestigoUnico'
      BY <1>5, <2>1, <2>2, MarcoTestigo DEF MemIniciar, Va, En, TypeOK, TiposMutex, TiposHilos
   <2>5. UnDuenio'
      BY <1>5, <2>1, <2>2, MarcoDuenio
         DEF CpuTiene, MemAtiende, MemIniciar, Va, En, TypeOK, TiposMutex, TiposHilos
   <2>6. AvisosDeAlta'
      BY <1>5, <2>1, <2>2, MarcoAvisos
         DEF Admitiendo, ConsolasQueAvisan, MemIniciar, Va, En, TypeOK, TiposMutex, TiposHilos
   <2> QED BY <2>3, <2>4, <2>5, <2>6 DEF IInv
<1>6. ASSUME MemSuelta("pcbready", "PCBREADY", "libera") PROVE IInv'
   <2>1. libre' \in [Mutexes -> BOOLEAN]
        /\ \A x \in Mutexes : libre'[x] <=> (x \in {"PCBREADY"} \/ libre[x])
      BY <1>6, EfectoSuelta DEF MemSuelta, Va, En
   <2>2. TypeOK'
      <3>1. TiposMutex' BY <1>6, <2>1 DEF TypeOK, TiposMutex, MemSuelta, Va
      <3>2. TiposHilos' BY <1>6, <2>1 DEF TypeOK, TiposHilos, MemSuelta, Va
      <3>3. TiposListas' /\ TiposMensajes' /\ TiposPcb' /\ TiposEfimeros' /\ TiposExternos'
         BY <1>6
               DEF TypeOK, TiposListas, TiposMensajes, TiposPcb, TiposEfimeros, TiposExternos,
                   MemSuelta, Va
      <3> QED BY <3>1, <3>2, <3>3 DEF TypeOK
   <2>3. TestigoUnico'
      BY <1>6, <2>1, MarcoTestigo DEF MemSuelta, Va, En, TypeOK, TiposMutex, TiposHilos
   <2>4. UnDuenio'
      BY <1>6, <2>1, MarcoDuenio
         DEF CpuTiene, MemAtiende, MemSuelta, Va, En, TypeOK, TiposMutex, TiposHilos
   <2>5. AvisosDeAlta'
      BY <1>6, <2>1, MarcoAvisos
         DEF Admitiendo, ConsolasQueAvisan, MemSuelta, Va, En, TypeOK, TiposMutex, TiposHilos
   <2> QED BY <2>2, <2>3, <2>4, <2>5 DEF IInv
<1>7. ASSUME MemSegmentoOK PROVE IInv'
   <2>1. libre' \in [Mutexes -> BOOLEAN]
        /\ \A x \in Mutexes : libre'[x] <=> (x \in {"MENSAJEACPU"} \/ libre[x])
      BY <1>7, EfectoSuelta DEF MemSegmentoOK, Va, En
   <2>2. /\ MemAtiende /\ Len(listaExec) = 1 /\ Len(Resto(listaExec)) = 0
         /\ Primero(listaExec) \in Pids /\ pcb["MEM"] \in Pids /\ Resto(listaExec) \in Seq(Pids)
      BY <1>7, MemCorre DEF MemAtiende, MemSegmentoOK, En
   <2>3. TypeOK'
      <3>1. TiposMutex' BY <1>7, <2>1, <2>2 DEF TypeOK, TiposMutex, MemSegmentoOK, Va
      <3>2. TiposPcb' BY <1>7, TablaTipada, AvanzaTipado DEF TypeOK, TiposPcb, MemSegmentoOK
      <3>3. TiposHilos' BY <1>7, <2>1, <2>2 DEF TypeOK, TiposHilos, MemSegmentoOK, Va
      <3>4. TiposListas' /\ TiposMensajes' /\ TiposEfimeros' /\ TiposExternos'
         BY <1>7
               DEF TypeOK, TiposListas, TiposMensajes, TiposEfimeros, TiposExternos,
                   MemSegmentoOK, Va
      <3> QED BY <3>1, <3>2, <3>3, <3>4 DEF TypeOK
   <2>4. TestigoUnico'
      BY <1>7, <2>1, <2>2, MarcoTestigo
         DEF MemSegmentoOK, Va, En, TypeOK, TiposMutex, TiposHilos
   <2>5. UnDuenio'
      BY <1>7, <2>1, <2>2
            DEF UnDuenio, CpuTiene, MemTiene, MemAtiende, TestigoUnico, UnoSolo, MemSegmentoOK,
                Va, En, TypeOK, TiposMutex, TiposHilos
   <2>6. AvisosDeAlta'
      BY <1>7, <2>1, <2>2, MarcoAvisos
         DEF Admitiendo, ConsolasQueAvisan, MemSegmentoOK, Va, En, TypeOK, TiposMutex,
             TiposHilos
   <2> QED BY <2>3, <2>4, <2>5, <2>6 DEF IInv
<1>8. ASSUME MemSinMemoria PROVE IInv'
   <2>1. /\ MemAtiende /\ Len(listaExec) = 1 /\ Len(Resto(listaExec)) = 0
         /\ Primero(listaExec) \in Pids /\ pcb["MEM"] \in Pids /\ Resto(listaExec) \in Seq(Pids)
      BY <1>8, MemCorre DEF MemAtiende, MemSinMemoria, En
   <2>2. TypeOK'
      <3>1. TiposListas' BY <1>8, <2>1 DEF TypeOK, TiposListas, MemSinMemoria, FinalizarEmpieza
      <3>2. TiposHilos'
         BY <1>8, <2>1 DEF TypeOK, TiposHilos, MemSinMemoria, FinalizarEmpieza, Va, PidsONulo
      <3>3. TiposMutex' /\ TiposMensajes' /\ TiposPcb' /\ TiposEfimeros' /\ TiposExternos'
         BY <1>8
               DEF TypeOK, TiposMutex, TiposMensajes, TiposPcb, TiposEfimeros, TiposExternos,
                   MemSinMemoria, FinalizarEmpieza, Va
      <3> QED BY <3>1, <3>2, <3>3 DEF TypeOK
   <2>3. TestigoUnico'
      BY <1>8, <2>1, MarcoTestigo
         DEF MemSinMemoria, FinalizarEmpieza, Va, En, TypeOK, TiposMutex, TiposHilos
   <2>4. UnDuenio'
      BY <1>8, <2>1
            DEF UnDuenio, CpuTiene, MemTiene, MemAtiende, TestigoUnico, UnoSolo, MemSinMemoria,
                FinalizarEmpieza, Va, En, TypeOK, TiposMutex, TiposHilos
   <2>5. AvisosDeAlta'
      BY <1>8, <2>1, MarcoAvisos
         DEF Admitiendo, ConsolasQueAvisan, MemSinMemoria, FinalizarEmpieza, Va, En, TypeOK,
             TiposMutex, TiposHilos
   <2> QED BY <2>2, <2>3, <2>4, <2>5 DEF IInv
<1>9. ASSUME MemConsultaFS PROVE IInv'
   <2>1. TypeOK'
      <3>1. TiposHilos' BY <1>9 DEF TypeOK, TiposHilos, MemConsultaFS, Va
      <3>2. TiposExternos'
         BY <1>9 DEF TypeOK, TiposExternos, MemConsultaFS, PedidosFS, PidsONulo
      <3>3. TiposMutex' /\ TiposListas' /\ TiposMensajes' /\ TiposPcb' /\ TiposEfimeros'
         BY <1>9
               DEF TypeOK, TiposMutex, TiposListas, TiposMensajes, TiposPcb, TiposEfimeros,
                   MemConsultaFS, Va
      <3> QED BY <3>1, <3>2, <3>3 DEF TypeOK
   <2>2. TestigoUnico'
      BY <1>9, MarcoTestigo DEF MemConsultaFS, Va, En, TypeOK, TiposMutex, TiposHilos
   <2>3. UnDuenio'
      BY <1>9, MarcoDuenio
         DEF CpuTiene, MemAtiende, MemConsultaFS, Va, En, TypeOK, TiposMutex, TiposHilos
   <2>4. AvisosDeAlta'
      BY <1>9, MarcoAvisos
         DEF Admitiendo, ConsolasQueAvisan, MemConsultaFS, Va, En, TypeOK, TiposMutex,
             TiposHilos
   <2> QED BY <2>1, <2>2, <2>3, <2>4 DEF IInv
<1>10. ASSUME MemCompacta PROVE IInv'
   <2>1. TypeOK'
      <3>1. TiposHilos' BY <1>10 DEF TypeOK, TiposHilos, MemCompacta, Va
      <3>2. TiposExternos' BY <1>10 DEF TypeOK, TiposExternos, MemCompacta, Va
      <3>3. TiposMutex' /\ TiposListas' /\ TiposMensajes' /\ TiposPcb' /\ TiposEfimeros'
         BY <1>10
               DEF TypeOK, TiposMutex, TiposListas, TiposMensajes, TiposPcb, TiposEfimeros,
                   MemCompacta, Va
      <3> QED BY <3>1, <3>2, <3>3 DEF TypeOK
   <2>2. TestigoUnico'
      BY <1>10, MarcoTestigo DEF MemCompacta, Va, En, TypeOK, TiposMutex, TiposHilos
   <2>3. UnDuenio'
      BY <1>10, MarcoDuenio
         DEF CpuTiene, MemAtiende, MemCompacta, Va, En, TypeOK, TiposMutex, TiposHilos
   <2>4. AvisosDeAlta'
      BY <1>10, MarcoAvisos
         DEF Admitiendo, ConsolasQueAvisan, MemCompacta, Va, En, TypeOK, TiposMutex,
             TiposHilos
   <2> QED BY <2>1, <2>2, <2>3, <2>4 DEF IInv
<1>11. ASSUME MemActualiza("act_ready", listaReady, {}, "act_exec") PROVE IInv'
   <2>1. libre' \in [Mutexes -> BOOLEAN]
        /\ \A x \in Mutexes : libre'[x] <=> (x \in {} \/ libre[x])
      BY <1>11, EfectoSuelta DEF MemActualiza, Va, En
   <2>2. TypeOK'
      <3>1. TiposMutex' BY <1>11, <2>1 DEF TypeOK, TiposMutex, MemActualiza, Va
      <3>2. TiposPcb'
         BY <1>11 DEF TypeOK, TiposPcb, TiposExternos, MemActualiza, ActualizarListaPcb
      <3>3. TiposHilos' BY <1>11, <2>1 DEF TypeOK, TiposHilos, MemActualiza, Va
      <3>4. TiposListas' /\ TiposMensajes' /\ TiposEfimeros' /\ TiposExternos'
         BY <1>11
               DEF TypeOK, TiposListas, TiposMensajes, TiposEfimeros, TiposExternos,
                   MemActualiza, Va
      <3> QED BY <3>1, <3>2, <3>3, <3>4 DEF TypeOK
   <2>3. TestigoUnico'
      BY <1>11, <2>1, MarcoTestigo DEF MemActualiza, Va, En, TypeOK, TiposMutex, TiposHilos
   <2>4. UnDuenio'
      BY <1>11, <2>1, MarcoDuenio
         DEF CpuTiene, MemAtiende, MemActualiza, Va, En, TypeOK, TiposMutex, TiposHilos
   <2>5. AvisosDeAlta'
      BY <1>11, <2>1, MarcoAvisos
         DEF Admitiendo, ConsolasQueAvisan, MemActualiza, Va, En, TypeOK, TiposMutex,
             TiposHilos
   <2> QED BY <2>2, <2>3, <2>4, <2>5 DEF IInv
<1>12. ASSUME MemActualiza("act_exec", listaExec, {}, "act_block") PROVE IInv'
   <2>1. libre' \in [Mutexes -> BOOLEAN]
        /\ \A x \in Mutexes : libre'[x] <=> (x \in {} \/ libre[x])
      BY <1>12, EfectoSuelta DEF MemActualiza, Va, En
   <2>2. TypeOK'
      <3>1. TiposMutex' BY <1>12, <2>1 DEF TypeOK, TiposMutex, MemActualiza, Va
      <3>2. TiposPcb'
         BY <1>12 DEF TypeOK, TiposPcb, TiposExternos, MemActualiza, ActualizarListaPcb
      <3>3. TiposHilos' BY <1>12, <2>1 DEF TypeOK, TiposHilos, MemActualiza, Va
      <3>4. TiposListas' /\ TiposMensajes' /\ TiposEfimeros' /\ TiposExternos'
         BY <1>12
               DEF TypeOK, TiposListas, TiposMensajes, TiposEfimeros, TiposExternos,
                   MemActualiza, Va
      <3> QED BY <3>1, <3>2, <3>3, <3>4 DEF TypeOK
   <2>3. TestigoUnico'
      BY <1>12, <2>1, MarcoTestigo DEF MemActualiza, Va, En, TypeOK, TiposMutex, TiposHilos
   <2>4. UnDuenio'
      BY <1>12, <2>1, MarcoDuenio
         DEF CpuTiene, MemAtiende, MemActualiza, Va, En, TypeOK, TiposMutex, TiposHilos
   <2>5. AvisosDeAlta'
      BY <1>12, <2>1, MarcoAvisos
         DEF Admitiendo, ConsolasQueAvisan, MemActualiza, Va, En, TypeOK, TiposMutex,
             TiposHilos
   <2> QED BY <2>2, <2>3, <2>4, <2>5 DEF IInv
<1>13. ASSUME MemActualiza("act_block", listaBlock, {"MENSAJEACPU"}, "libera") PROVE IInv'
   <2>1. libre' \in [Mutexes -> BOOLEAN]
        /\ \A x \in Mutexes : libre'[x] <=> (x \in {"MENSAJEACPU"} \/ libre[x])
      BY <1>13, EfectoSuelta DEF MemActualiza, Va, En
   <2>2. TypeOK'
      <3>1. TiposMutex' BY <1>13, <2>1 DEF TypeOK, TiposMutex, MemActualiza, Va
      <3>2. TiposPcb'
         BY <1>13 DEF TypeOK, TiposPcb, TiposExternos, MemActualiza, ActualizarListaPcb
      <3>3. TiposHilos' BY <1>13, <2>1 DEF TypeOK, TiposHilos, MemActualiza, Va
      <3>4. TiposListas' /\ TiposMensajes' /\ TiposEfimeros' /\ TiposExternos'
         BY <1>13
               DEF TypeOK, TiposListas, TiposMensajes, TiposEfimeros, TiposExternos,
                   MemActualiza, Va
      <3> QED BY <3>1, <3>2, <3>3, <3>4 DEF TypeOK
   <2>3. TestigoUnico'
      BY <1>13, <2>1, MarcoTestigo DEF MemActualiza, Va, En, TypeOK, TiposMutex, TiposHilos
   <2>4. UnDuenio'
      BY <1>13, <2>1
            DEF UnDuenio, CpuTiene, MemTiene, MemAtiende, TestigoUnico, UnoSolo, MemActualiza,
                Va, En, TypeOK, TiposMutex, TiposHilos
   <2>5. AvisosDeAlta'
      BY <1>13, <2>1, MarcoAvisos
         DEF Admitiendo, ConsolasQueAvisan, MemActualiza, Va, En, TypeOK, TiposMutex,
             TiposHilos
   <2> QED BY <2>2, <2>3, <2>4, <2>5 DEF IInv
<1>14. ASSUME MemFin PROVE IInv'
   <2>1. libre' \in [Mutexes -> BOOLEAN] /\ libre["LISTAEXIT"]
        /\ \A x \in Mutexes : libre'[x] <=> (x # "LISTAEXIT" /\ libre[x])
      BY <1>14, EfectoToma DEF MemFin, Va, En
   <2>2. Primero(listaExit) \in PidsONulo
      BY PrimeroYResto DEF PidsONulo, TypeOK, TiposListas
   <2>3. TypeOK'
      <3>1. TiposMutex' BY <1>14, <2>1, <2>2 DEF TypeOK, TiposMutex, MemFin, Va
      <3>2. TiposHilos' BY <1>14, <2>1, <2>2 DEF TypeOK, TiposHilos, MemFin, Va
      <3>3. TiposListas' /\ TiposMensajes' /\ TiposPcb' /\ TiposEfimeros' /\ TiposExternos'
         BY <1>14
               DEF TypeOK, TiposListas, TiposMensajes, TiposPcb, TiposEfimeros, TiposExternos,
                   MemFin, Va
      <3> QED BY <3>1, <3>2, <3>3 DEF TypeOK
   <2>4. TestigoUnico'
      BY <1>14, <2>1, <2>2, MarcoTestigo DEF MemFin, Va, En, TypeOK, TiposMutex, TiposHilos
   <2>5. UnDuenio'
      BY <1>14, <2>1, <2>2, MarcoDuenio
         DEF CpuTiene, MemAtiende, MemFin, Va, En, TypeOK, TiposMutex, TiposHilos
   <2>6. AvisosDeAlta'
      BY <1>14, <2>1, <2>2, MarcoAvisos
         DEF Admitiendo, ConsolasQueAvisan, MemFin, Va, En, TypeOK, TiposMutex, TiposHilos
   <2> QED BY <2>3, <2>4, <2>5, <2>6 DEF IInv
<1>15. ASSUME MemConfirma PROVE IInv'
   <2>1. libre' \in [Mutexes -> BOOLEAN]
        /\ \A x \in Mutexes : libre'[x]
              <=> (x \in {"SYNC_FIN", "LISTAEXIT", "FINALIZARPCB"} \/ libre[x])
      BY <1>15, EfectoSuelta DEF MemConfirma, Va, En
   <2>2. TypeOK'
      <3>1. TiposMutex' BY <1>15, <2>1 DEF TypeOK, TiposMutex, MemConfirma, Va
      <3>2. TiposHilos' BY <1>15, <2>1 DEF TypeOK, TiposHilos, MemConfirma, Va
      <3>3. TiposExternos' BY <1>15, <2>1 DEF TypeOK, TiposExternos, MemConfirma, Va
      <3>4. TiposListas' /\ TiposMensajes' /\ TiposPcb' /\ TiposEfimeros'
         BY <1>15
               DEF TypeOK, TiposListas, TiposMensajes, TiposPcb, TiposEfimeros, MemConfirma,
                   Va
      <3> QED BY <3>1, <3>2, <3>3, <3>4 DEF TypeOK
   <2>3. TestigoUnico'
      BY <1>15, <2>1, MarcoTestigo DEF MemConfirma, Va, En, TypeOK, TiposMutex, TiposHilos
   <2>4. UnDuenio'
      BY <1>15, <2>1, MarcoDuenio
         DEF CpuTiene, MemAtiende, MemConfirma, Va, En, TypeOK, TiposMutex, TiposHilos
   <2>5. AvisosDeAlta'
      BY <1>15, <2>1, MarcoAvisos
         DEF Admitiendo, ConsolasQueAvisan, MemConfirma, Va, En, TypeOK, TiposMutex,
             TiposHilos
   <2> QED BY <2>2, <2>3, <2>4, <2>5 DEF IInv
<1>16. ASSUME FinalizarAvisaConsola("MEM") PROVE IInv'
   <2>1. libre' \in [Mutexes -> BOOLEAN] /\ libre["FINALIZARPCB"]
        /\ \A x \in Mutexes : libre'[x] <=> (x # "FINALIZARPCB" /\ libre[x])
      BY <1>16, EfectoToma DEF FinalizarAvisaConsola, Va, En
   <2>2. TypeOK'
      <3>1. TiposMutex' BY <1>16, <2>1 DEF TypeOK, TiposMutex, FinalizarAvisaConsola, Va
      <3>2. TiposHilos' BY <1>16, <2>1 DEF TypeOK, TiposHilos, FinalizarAvisaConsola, Va
      <3>3. TiposEfimeros' BY <1>16, <2>1 DEF TypeOK, TiposEfimeros, FinalizarAvisaConsola, Va
      <3>4. TiposListas' /\ TiposMensajes' /\ TiposPcb' /\ TiposExternos'
         BY <1>16
               DEF TypeOK, TiposListas, TiposMensajes, TiposPcb, TiposExternos,
                   FinalizarAvisaConsola, Va
      <3> QED BY <3>1, <3>2, <3>3, <3>4 DEF TypeOK
   <2>3. TestigoUnico'
      BY <1>16, <2>1, MarcoTestigo
         DEF FinalizarAvisaConsola, Va, En, TypeOK, TiposMutex, TiposHilos
   <2>4. UnDuenio'
      BY <1>16, <2>1, MarcoDuenio
         DEF CpuTiene, MemAtiende, FinalizarAvisaConsola, Va, En, TypeOK, TiposMutex,
             TiposHilos
   <2>5. AvisosDeAlta'
      BY <1>16, <2>1, MarcoAvisos
         DEF Admitiendo, ConsolasQueAvisan, FinalizarAvisaConsola, Va, En, TypeOK, TiposMutex,
             TiposHilos
   <2> QED BY <2>2, <2>3, <2>4, <2>5 DEF IInv
<1>17. ASSUME FinalizarAvisaPlanificador("MEM", "libera") PROVE IInv'
   <2>1. libre' \in [Mutexes -> BOOLEAN] /\ libre["MENSAJELARGOPLAZO"]
        /\ \A x \in Mutexes : libre'[x]
              <=> (x \in {"PLANILARGOPLAZO"} \/ (x # "MENSAJELARGOPLAZO" /\ libre[x]))
      BY <1>17, EfectoTomaYSuelta DEF FinalizarAvisaPlanificador, Va, En
   <2>2. TypeOK'
      <3>1. TiposMutex' BY <1>17, <2>1 DEF TypeOK, TiposMutex, FinalizarAvisaPlanificador, Va
      <3>2. TiposMensajes'
         BY <1>17, <2>1 DEF TypeOK, TiposMensajes, FinalizarAvisaPlanificador, Va
      <3>3. TiposHilos' BY <1>17, <2>1 DEF TypeOK, TiposHilos, FinalizarAvisaPlanificador, Va
      <3>4. TiposListas' /\ TiposPcb' /\ TiposEfimeros' /\ TiposExternos'
         BY <1>17
               DEF TypeOK, TiposListas, TiposPcb, TiposEfimeros, TiposExternos,
                   FinalizarAvisaPlanificador, Va
      <3> QED BY <3>1, <3>2, <3>3, <3>4 DEF TypeOK
   <2>3. TestigoUnico'
      BY <1>17, <2>1
            DEF TestigoUnico, UnoSolo, FinalizarAvisaPlanificador, Va, En, TypeOK, TiposMutex,
                TiposHilos
   <2>4. UnDuenio'
      BY <1>17, <2>1, MarcoDuenio
         DEF CpuTiene, MemAtiende, FinalizarAvisaPlanificador, Va, En, TypeOK, TiposMutex,
             TiposHilos
   <2>5. AvisosDeAlta'
      BY <1>17, <2>1
            DEF AvisosDeAlta, Cuenta, Admitiendo, ConsolasQueAvisan, TestigoUnico, UnoSolo,
                FinalizarAvisaPlanificador, Va, TypeOK, TiposMutex, TiposHilos
   <2> QED BY <2>2, <2>3, <2>4, <2>5 DEF IInv
<1>18. ASSUME MemSuelta("libera", "CONEXIONMEMORIA", "espera") PROVE IInv'
   <2>1. libre' \in [Mutexes -> BOOLEAN]
        /\ \A x \in Mutexes : libre'[x] <=> (x \in {"CONEXIONMEMORIA"} \/ libre[x])
      BY <1>18, EfectoSuelta DEF MemSuelta, Va, En
   <2>2. TypeOK'
      <3>1. TiposMutex' BY <1>18, <2>1 DEF TypeOK, TiposMutex, MemSuelta, Va
      <3>2. TiposHilos' BY <1>18, <2>1 DEF TypeOK, TiposHilos, MemSuelta, Va
      <3>3. TiposListas' /\ TiposMensajes' /\ TiposPcb' /\ TiposEfimeros' /\ TiposExternos'
         BY <1>18
               DEF TypeOK, TiposListas, TiposMensajes, TiposPcb, TiposEfimeros, TiposExternos,
                   MemSuelta, Va
      <3> QED BY <3>1, <3>2, <3>3 DEF TypeOK
   <2>3. TestigoUnico'
      BY <1>18, <2>1
            DEF TestigoUnico, UnoSolo, MemSuelta, Va, En, TypeOK, TiposMutex, TiposHilos
   <2>4. UnDuenio'
      BY <1>18, <2>1, MarcoDuenio
         DEF CpuTiene, MemAtiende, MemSuelta, Va, En, TypeOK, TiposMutex, TiposHilos
   <2>5. AvisosDeAlta'
      BY <1>18, <2>1, MarcoAvisos
         DEF Admitiendo, ConsolasQueAvisan, MemSuelta, Va, En, TypeOK, TiposMutex, TiposHilos
   <2> QED BY <2>2, <2>3, <2>4, <2>5 DEF IInv
<1> QED BY <1>1, <1>2, <1>3, <1>4, <1>5, <1>6, <1>7, <1>8, <1>9, <1>10, <1>11, <1>12, <1>13, <1>14, <1>15, <1>16, <1>17, <1>18
      DEF HiloDeMemoria, MemCompactar, MemToma

\* Every step of the filesystem thread, and of the Filesystem, preserves the invariant.
LEMMA PasoFileSystem ==
    ASSUME TypeOK, TestigoUnico, UnDuenio, AvisosDeAlta,
           HiloDeFileSystem \/ Filesystem
    PROVE  IInv'
<1>1. ASSUME FsToma PROVE IInv'
   <2>1. libre' \in [Mutexes -> BOOLEAN] /\ libre["MENSAJEAFILESYSTEM"]
        /\ \A x \in Mutexes : libre'[x] <=> (x # "MENSAJEAFILESYSTEM" /\ libre[x])
      BY <1>1, EfectoToma DEF FsToma, Va, En
   <2>2. /\ Len(listaExec) = 1 /\ Len(Resto(listaExec)) = 0
         /\ Primero(listaExec) \in Pids /\ Resto(listaExec) \in Seq(Pids)
      <3>1. listaExec \in Seq(Pids) BY DEF TypeOK, TiposListas
      <3>2. Len(listaExec) = 1 BY <1>1, <2>1 DEF UnDuenio
      <3> QED BY <3>1, <3>2, UnElemento, PrimeroYResto
   <2>3. TypeOK'
      <3>1. TiposMutex' BY <1>1, <2>1, <2>2 DEF TypeOK, TiposMutex, FsToma, Va
      <3>2. TiposListas' BY <1>1, <2>1, <2>2 DEF TypeOK, TiposListas, FsToma
      <3>3. TiposHilos' BY <1>1, <2>1, <2>2 DEF TypeOK, TiposHilos, FsToma, Va, PidsONulo
      <3>4. TiposMensajes' /\ TiposPcb' /\ TiposEfimeros' /\ TiposExternos'
         BY <1>1 DEF TypeOK, TiposMensajes, TiposPcb, TiposEfimeros, TiposExternos, FsToma, Va
      <3> QED BY <3>1, <3>2, <3>3, <3>4 DEF TypeOK
   <2>4. TestigoUnico'
      BY <1>1, <2>1, <2>2, MarcoTestigo DEF FsToma, Va, En, TypeOK, TiposMutex, TiposHilos
   <2>5. UnDuenio'
      BY <1>1, <2>1, <2>2
            DEF UnDuenio, CpuTiene, MemTiene, MemAtiende, FsToma, Va, En, TypeOK, TiposMutex,
                TiposHilos
   <2>6. AvisosDeAlta'
      BY <1>1, <2>1, <2>2, MarcoAvisos
         DEF Admitiendo, ConsolasQueAvisan, FsToma, Va, En, TypeOK, TiposMutex, TiposHilos
   <2> QED BY <2>3, <2>4, <2>5, <2>6 DEF IInv
<1>2. ASSUME FsEnvia PROVE IInv'
   <2>1. TypeOK'
      <3>1. TiposHilos' BY <1>2 DEF TypeOK, TiposHilos, FsEnvia, Va
      <3>2. TiposExternos'
         BY <1>2 DEF TypeOK, TiposExternos, TiposMensajes, TiposHilos, FsEnvia, PedidosFS
      <3>3. TiposMutex' /\ TiposListas' /\ TiposMensajes' /\ TiposPcb' /\ TiposEfimeros'
         BY <1>2
               DEF TypeOK, TiposMutex, TiposListas, TiposMensajes, TiposPcb, TiposEfimeros,
                   FsEnvia, Va
      <3> QED BY <3>1, <3>2, <3>3 DEF TypeOK
   <2>2. TestigoUnico' BY <1>2, MarcoTestigo DEF FsEnvia, Va, En, TypeOK, TiposMutex, TiposHilos
   <2>3. UnDuenio'
      BY <1>2, MarcoDuenio
         DEF CpuTiene, MemAtiende, FsEnvia, Va, En, TypeOK, TiposMutex, TiposHilos
   <2>4. AvisosDeAlta'
      BY <1>2, MarcoAvisos
         DEF Admitiendo, ConsolasQueAvisan, FsEnvia, Va, En, TypeOK, TiposMutex, TiposHilos
   <2> QED BY <2>1, <2>2, <2>3, <2>4 DEF IInv
<1>3. ASSUME FsDesbloquea PROVE IInv'
   <2>1. TypeOK'
      <3>1. TiposListas'
         <4>1. listaBlock \in Seq(Pids) BY DEF TypeOK, TiposListas
         <4>2. PICK i \in DOMAIN listaBlock : /\ listaBlock[i] = pcb["FS"]
                                             /\ listaBlock' = RemoveAt(listaBlock, i)
            BY <1>3 DEF FsDesbloquea
         <4>3. pcb["FS"] \in Pids BY <4>1, <4>2
         <4>4. listaBlock' \in Seq(Pids) BY <4>1, <4>2, SinElemento
         <4>5. listaReady' \in Seq(Pids) BY <1>3, <4>3 DEF FsDesbloquea, TypeOK, TiposListas
         <4> QED BY <1>3, <4>4, <4>5 DEF FsDesbloquea, TypeOK, TiposListas
      <3>2. TiposPcb' BY <1>3, AvanzaTipado DEF TypeOK, TiposPcb, FsDesbloquea
      <3>3. TiposHilos' BY <1>3 DEF TypeOK, TiposHilos, FsDesbloquea, Va
      <3>4. TiposExternos' BY <1>3 DEF TypeOK, TiposExternos, FsDesbloquea, Va
      <3>5. TiposMutex' /\ TiposMensajes' /\ TiposEfimeros'
         BY <1>3 DEF TypeOK, TiposMutex, TiposMensajes, TiposEfimeros, FsDesbloquea, Va
      <3> QED BY <3>1, <3>2, <3>3, <3>4, <3>5 DEF TypeOK
   <2>2. TestigoUnico'
      BY <1>3, MarcoTestigo DEF FsDesbloquea, Va, En, TypeOK, TiposMutex, TiposHilos
   <2>3. UnDuenio'
      BY <1>3, MarcoDuenio
         DEF CpuTiene, MemAtiende, FsDesbloquea, Va, En, TypeOK, TiposMutex, TiposHilos
   <2>4. AvisosDeAlta'
      BY <1>3, MarcoAvisos
         DEF Admitiendo, ConsolasQueAvisan, FsDesbloquea, Va, En, TypeOK, TiposMutex,
             TiposHilos
   <2> QED BY <2>1, <2>2, <2>3, <2>4 DEF IInv
<1>4. ASSUME FsAvisa("avisa_bloqueo", "recibe") PROVE IInv'
   <2>1. libre' \in [Mutexes -> BOOLEAN] /\ libre["PLANICORTOPLAZO"]
        /\ \A x \in Mutexes : libre'[x]
              <=> (x \in {"PCBENEJECUCION"} \/ (x # "PLANICORTOPLAZO" /\ libre[x]))
      BY <1>4, EfectoTomaYSuelta DEF FsAvisa, Va, En
   <2>2. TypeOK'
      <3>1. TiposMutex' BY <1>4, <2>1 DEF TypeOK, TiposMutex, FsAvisa, Va
      <3>2. TiposHilos' BY <1>4, <2>1 DEF TypeOK, TiposHilos, FsAvisa, Va
      <3>3. TiposListas' /\ TiposMensajes' /\ TiposPcb' /\ TiposEfimeros' /\ TiposExternos'
         BY <1>4
               DEF TypeOK, TiposListas, TiposMensajes, TiposPcb, TiposEfimeros, TiposExternos,
                   FsAvisa, Va
      <3> QED BY <3>1, <3>2, <3>3 DEF TypeOK
   <2>3. TestigoUnico'
      BY <1>4, <2>1, MarcoTestigo DEF FsAvisa, Va, En, TypeOK, TiposMutex, TiposHilos
   <2>4. UnDuenio'
      BY <1>4, <2>1, MarcoDuenio
         DEF CpuTiene, MemAtiende, FsAvisa, Va, En, TypeOK, TiposMutex, TiposHilos
   <2>5. AvisosDeAlta'
      BY <1>4, <2>1, MarcoAvisos
         DEF Admitiendo, ConsolasQueAvisan, FsAvisa, Va, En, TypeOK, TiposMutex, TiposHilos
   <2> QED BY <2>2, <2>3, <2>4, <2>5 DEF IInv
<1>5. ASSUME FsAvisa("avisa_listo", "espera") PROVE IInv'
   <2>1. libre' \in [Mutexes -> BOOLEAN] /\ libre["PLANICORTOPLAZO"]
        /\ \A x \in Mutexes : libre'[x]
              <=> (x \in {"PCBENEJECUCION"} \/ (x # "PLANICORTOPLAZO" /\ libre[x]))
      BY <1>5, EfectoTomaYSuelta DEF FsAvisa, Va, En
   <2>2. TypeOK'
      <3>1. TiposMutex' BY <1>5, <2>1 DEF TypeOK, TiposMutex, FsAvisa, Va
      <3>2. TiposHilos' BY <1>5, <2>1 DEF TypeOK, TiposHilos, FsAvisa, Va
      <3>3. TiposListas' /\ TiposMensajes' /\ TiposPcb' /\ TiposEfimeros' /\ TiposExternos'
         BY <1>5
               DEF TypeOK, TiposListas, TiposMensajes, TiposPcb, TiposEfimeros, TiposExternos,
                   FsAvisa, Va
      <3> QED BY <3>1, <3>2, <3>3 DEF TypeOK
   <2>3. TestigoUnico'
      BY <1>5, <2>1, MarcoTestigo DEF FsAvisa, Va, En, TypeOK, TiposMutex, TiposHilos
   <2>4. UnDuenio'
      BY <1>5, <2>1, MarcoDuenio
         DEF CpuTiene, MemAtiende, FsAvisa, Va, En, TypeOK, TiposMutex, TiposHilos
   <2>5. AvisosDeAlta'
      BY <1>5, <2>1, MarcoAvisos
         DEF Admitiendo, ConsolasQueAvisan, FsAvisa, Va, En, TypeOK, TiposMutex, TiposHilos
   <2> QED BY <2>2, <2>3, <2>4, <2>5 DEF IInv
<1>6. ASSUME Filesystem PROVE IInv'
   <2>1. TypeOK'
      <3>1. TiposExternos' BY <1>6 DEF TypeOK, TiposExternos, Filesystem
      <3>2. TiposMutex' /\ TiposListas' /\ TiposMensajes' /\ TiposPcb' /\ TiposHilos' /\ TiposEfimeros'
         BY <1>6
               DEF TypeOK, TiposMutex, TiposListas, TiposMensajes, TiposPcb, TiposHilos,
                   TiposEfimeros, Filesystem
      <3> QED BY <3>1, <3>2 DEF TypeOK
   <2>2. TestigoUnico' BY <1>6, MarcoTestigo DEF Filesystem, TypeOK, TiposMutex, TiposHilos
   <2>3. UnDuenio'
      BY <1>6, MarcoDuenio DEF CpuTiene, MemAtiende, Filesystem, TypeOK, TiposMutex, TiposHilos
   <2>4. AvisosDeAlta'
      BY <1>6, MarcoAvisos
         DEF Admitiendo, ConsolasQueAvisan, Filesystem, TypeOK, TiposMutex, TiposHilos
   <2> QED BY <2>1, <2>2, <2>3, <2>4 DEF IInv
<1> QED BY <1>1, <1>2, <1>3, <1>4, <1>5, <1>6 DEF HiloDeFileSystem

\* The invariant holds at the start.
LEMMA InitIInv == ASSUME Init PROVE IInv
<1>1. TypeOK
   <2>1. TiposMutex BY CantidadesAssumption DEF Init, TiposMutex
   <2>2. TiposListas BY RecursosAssumption DEF Init, TiposListas
   <2>3. TiposMensajes BY DEF Init, TiposMensajes, PidsONulo
   <2>4. TiposPcb BY DEF Init, TiposPcb
   <2>5. TiposHilos BY DEF Init, TiposHilos, PidsONulo
   <2>6. TiposEfimeros BY DEF Init, TiposEfimeros, PidsONulo
   <2>7. TiposExternos BY DEF Init, TiposExternos
   <2> QED BY <2>1, <2>2, <2>3, <2>4, <2>5, <2>6, <2>7 DEF TypeOK
<1>2. TestigoUnico BY DEF Init, TestigoUnico, UnoSolo, En, Tomados
<1>3. UnDuenio
   <2>1. Len(listaExec) = 0 BY DEF Init
   <2>2. /\ ~libre["MENSAJEACPU"] /\ ~libre["MENSAJEAMEMORIA"]
         /\ ~libre["MENSAJEAFILESYSTEM"]
      BY DEF Init, Tomados
   <2>3. pc["CPU"] = "espera" /\ pc["MEM"] = "espera" BY DEF Init
   <2>4. ~CpuTiene /\ ~MemTiene /\ ~MemAtiende
      BY <2>2, <2>3 DEF CpuTiene, MemTiene, MemAtiende
   <2> QED BY <2>1, <2>2, <2>4 DEF UnDuenio
<1>4. AvisosDeAlta
   <2>1. ConsolasQueAvisan = {} BY DEF Init, ConsolasQueAvisan
   <2>2. Cardinality(ConsolasQueAvisan) = 0 BY <2>1, FS_EmptySet
   <2> QED BY <2>2 DEF Init, AvisosDeAlta, Cuenta, Admitiendo, Tomados
<1> QED BY <1>1, <1>2, <1>3, <1>4 DEF IInv

\* Steps that change nothing.
LEMMA PasoQuieto == ASSUME IInv, UNCHANGED vars PROVE IInv'
<1>1. TypeOK'
   <2>1. TiposMutex' /\ TiposListas' BY DEF IInv, TypeOK, TiposMutex, TiposListas, vars
   <2>2. TiposMensajes' /\ TiposPcb' BY DEF IInv, TypeOK, TiposMensajes, TiposPcb, vars
   <2>3. TiposHilos' BY DEF IInv, TypeOK, TiposHilos, vars
   <2>4. TiposEfimeros' /\ TiposExternos' BY DEF IInv, TypeOK, TiposEfimeros, TiposExternos, vars
   <2> QED BY <2>1, <2>2, <2>3, <2>4 DEF TypeOK
<1>2. TestigoUnico' BY DEF IInv, TestigoUnico, vars, En
<1>3. UnDuenio' BY DEF IInv, UnDuenio, CpuTiene, MemTiene, MemAtiende, vars
<1>4. AvisosDeAlta' BY DEF IInv, AvisosDeAlta, Admitiendo, ConsolasQueAvisan, vars
<1> QED BY <1>1, <1>2, <1>3, <1>4 DEF IInv

\* The invariant is inductive.
THEOREM Inductivo == Spec => []IInv
<1>1. Init => IInv BY InitIInv
<1>2. IInv /\ [Next]_vars => IInv'
   <2> SUFFICES ASSUME IInv, [Next]_vars PROVE IInv' OBVIOUS
   <2> USE DEF IInv
   <2>1. ASSUME NEW p \in Pids, ConsolaCrea(p) \/ Consola(p) \/ IO(p) PROVE IInv'
      BY <2>1, PasoConsola, PasoIO
   <2>2. CASE IOAvisa
      <3>1. 0 \in Pids BY CantidadesAssumption DEF Pids
      <3> QED BY <2>2, <3>1, PasoIO
   <2>3. CASE LargoPlazo BY <2>3, PasoLargoPlazo
   <2>4. CASE CortoPlazo BY <2>4, PasoCortoPlazo
   <2>5. CASE HiloDeCPU BY <2>5, PasoHiloDeCPU
   <2>6. CASE HiloDeMemoria BY <2>6, PasoHiloDeMemoria
   <2>7. CASE HiloDeFileSystem \/ Filesystem BY <2>7, PasoFileSystem
   <2>8. CASE Terminado \/ UNCHANGED vars BY <2>8, PasoQuieto DEF Terminado
   <2> QED BY <2>1, <2>2, <2>3, <2>4, <2>5, <2>6, <2>7, <2>8 DEF Next
<1> QED BY <1>1, <1>2, PTL DEF Spec

-----------------------------------------------------------------------------
\* Every variable keeps its type; in particular no list ever holds a NULL pcb
\* (queue_pop and list_remove are never called on an empty list).
THEOREM TipoCorrecto == Spec => []TypeOK
<1>1. IInv => TypeOK BY DEF IInv
<1> QED BY <1>1, Inductivo, PTL

\* At most one process runs, and exactly one of the CPU, memory and filesystem
\* threads is in charge of it: the three use list_get/list_remove(listaExec, 0)
\* without a lock and never work on a process that is not theirs.
THEOREM ExecConDuenioUnico == Spec => []DuenioUnico
<1>1. IInv => DuenioUnico BY UnDuenioEsDuenioUnico DEF IInv
<1> QED BY <1>1, Inductivo, PTL

\* No process is forgotten in New: each one there has exactly one READY_PCB on
\* its way, whatever the consoles and finalizarPcb write in mensajePlanificador.
THEOREM NadieQuedaEnNew == Spec => []AvisosDeAlta
<1>1. IInv => AvisosDeAlta BY DEF IInv
<1> QED BY <1>1, Inductivo, PTL
=============================================================================
