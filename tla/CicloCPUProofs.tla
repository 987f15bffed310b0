--------------------------- MODULE CicloCPUProofs ---------------------------
(***************************************************************************)
(* What goes round between the Kernel and the CPU is one context, that of  *)
(* the process the Kernel sent, until an instruction fails and the cycle   *)
(* goes on; and every context keeps its registers and its table in order.  *)
(* Until then each program runs as on a machine of its own: CicloCPU       *)
(* implements MaquinaPorProceso.                                           *)
(***************************************************************************)
EXTENDS CicloCPU, TLAPS, WellFoundedInduction, SequenceTheorems, FiniteSetTheorems

USE DEF cpu

-----------------------------------------------------------------------------
(* The inductive invariant. *)

EsSeq(s) == Len(s) \in Nat /\ s = [i \in 1 .. Len(s) |-> s[i]]

Entradas == [id : Int, base : Int, size : Int]
Campos == {"pid", "instrucciones", "program_counter", "registros", "tabla", "archivos"}

RegistrosBien(registros) ==
    /\ DOMAIN registros = Registros
    /\ \A r \in Registros : Len(registros[r]) = size_of_registro(r)

TablaBien(tabla) ==
    /\ tabla \in Seq(Entradas) /\ Len(tabla) > 0
    /\ \A k \in 1 .. Len(tabla) : Rango(tabla[k].base, tabla[k].size) \subseteq Celdas

\* a context, wherever it is
Sano(c) ==
    /\ DOMAIN c = Campos
    /\ c.pid \in Pids /\ c.instrucciones \in Programas
    /\ c.program_counter \in 0 .. Len(c.instrucciones)
    /\ RegistrosBien(c.registros)
    /\ TablaBien(c.tabla)

\* an answer of the CPU: it comes from an instruction of the program
Respuesta(r) ==
    /\ Sano(r.ctx)
    /\ r.ctx.program_counter < Len(r.ctx.instrucciones)
    /\ r.codigo = "REQ_CREATE_SEGMENT" => r.args[1] \in Int /\ r.args[2] \in Int

Formas ==
    /\ enExec \in Pids \cup {-1} /\ terminados \subseteq Pids
    /\ paso \in {"espera", "ciclo", "muerto"} /\ continuar_ejecucion \in BOOLEAN
    /\ DOMAIN memoria = Celdas
    /\ atascada \in BOOLEAN
    /\ EsSeq(aCPU) /\ \A i \in 1 .. Len(aCPU) : Sano(aCPU[i])
    /\ EsSeq(aKernel) /\ \A i \in 1 .. Len(aKernel) : Respuesta(aKernel[i])
    /\ pcb = [p \in Pids |-> pcb[p]] /\ \A p \in Pids : Sano(pcb[p])
    /\ paso = "ciclo" => Sano(pcb_actual)

EnElCiclo == IF paso = "ciclo" THEN 1 ELSE 0

\* UnContextoEnVuelo, and the Kernel keeps each context with its process
UnaVuelta ==
    ~atascada =>
      /\ Len(aCPU) + EnElCiclo + Len(aKernel) <= IF enExec = -1 THEN 0 ELSE 1
      /\ \A i \in 1 .. Len(aCPU) : aCPU[i].pid = enExec
      /\ \A i \in 1 .. Len(aKernel) : aKernel[i].ctx.pid = enExec
      /\ paso = "ciclo" => pcb_actual.pid = enExec
      /\ \A p \in Pids : pcb[p].pid = p

CInv == Formas /\ UnaVuelta

-----------------------------------------------------------------------------
(* Sequences and contexts. *)

\* A set of naturals that is not empty has a least element.
LEMMA MinimoNatural == \A T \in SUBSET Nat : T # {} => \E m \in T : \A k \in T : m <= k
<1> SUFFICES ASSUME NEW T \in SUBSET Nat, T # {}
             PROVE  \E m \in T : \A k \in T : m <= k
   OBVIOUS
<1>1. PICK m \in T : \A k \in T : ~(<<k, m>> \in OpToRel(<, Nat))
   BY NatLessThanWellFounded, WFMin
<1>2. \A k \in T : ~(k < m) BY <1>1 DEF OpToRel
<1> QED BY <1>2

LEMMA EnSeq == \A S : \A s \in Seq(S) : EsSeq(s)
<1> SUFFICES ASSUME NEW S, NEW s \in Seq(S) PROVE EsSeq(s) OBVIOUS
<1>1. PICK n \in Nat : s \in [1 .. n -> S] BY SeqDef
<1>2. Len(s) = n BY <1>1
<1> QED BY <1>1, <1>2 DEF EsSeq

\* Queueing a message, and taking the first.
LEMMA AlFinal ==
    ASSUME NEW s, EsSeq(s), NEW x
    PROVE  /\ EsSeq(Append(s, x)) /\ Len(Append(s, x)) = Len(s) + 1
           /\ \A i \in 1 .. Len(s) : Append(s, x)[i] = s[i]
           /\ Append(s, x)[Len(s) + 1] = x
<1>1. PICK S : S = {s[i] : i \in 1 .. Len(s)} \cup {x} OBVIOUS
<1>2. s \in Seq(S) BY <1>1 DEF EsSeq
<1>3. x \in S BY <1>1
<1>4. Append(s, x) \in Seq(S) BY <1>2, <1>3
<1>5. EsSeq(Append(s, x)) BY <1>4, EnSeq
<1> QED BY <1>2, <1>3, <1>5

LEMMA ElPrimero ==
    ASSUME NEW s, EsSeq(s), s # <<>>
    PROVE  /\ Len(s) > 0 /\ Head(s) = s[1]
           /\ EsSeq(Tail(s)) /\ Len(Tail(s)) = Len(s) - 1
           /\ \A i \in 1 .. Len(s) - 1 : Tail(s)[i] = s[i + 1]
<1>1. PICK S : S = {s[i] : i \in 1 .. Len(s)} OBVIOUS
<1>2. s \in Seq(S) BY <1>1 DEF EsSeq
<1>3. Tail(s) \in Seq(S) BY <1>2
<1>4. EsSeq(Tail(s)) BY <1>3, EnSeq
<1> QED BY <1>2, <1>4

\* serializarPCB sends four bytes of some register for each: the sizes agree.
LEMMA SanoAlLlegar ==
    ASSUME NEW c, Sano(c)
    PROVE  /\ Sano(serializarPCB(c)) /\ serializarPCB(c).pid = c.pid
           /\ serializarPCB(c).program_counter = c.program_counter
           /\ serializarPCB(c).instrucciones = c.instrucciones
<1>1. PICK d : d = serializarPCB(c) OBVIOUS
<1>2. d = [c EXCEPT !.registros = serializarRegistros(c.registros)] BY <1>1 DEF serializarPCB
<1>3. /\ DOMAIN d = Campos /\ d.pid = c.pid /\ d.program_counter = c.program_counter
      /\ d.instrucciones = c.instrucciones /\ d.tabla = c.tabla
      /\ d.registros = serializarRegistros(c.registros)
   BY <1>2 DEF Sano, Campos
<1>4. RegistrosBien(serializarRegistros(c.registros))
   <2>1. \A r \in Registros : /\ RegistroEnviado(r) \in Registros
                              /\ size_of_registro(RegistroEnviado(r)) = size_of_registro(r)
      BY RegistrosAssumption DEF RegistroEnviado, size_of_registro
   <2>2. RegistrosBien(c.registros) BY DEF Sano
   <2> QED BY <2>1, <2>2 DEF RegistrosBien, serializarRegistros
<1> QED BY <1>1, <1>3, <1>4 DEF Sano

\* Writing a register of its size.
LEMMA SanoAlEscribir ==
    ASSUME NEW c, Sano(c), NEW n, NEW v, Len(v) = size_of_registro(RegistroDe(n)),
           c.program_counter < Len(c.instrucciones)
    PROVE  /\ Sano([c EXCEPT !.registros = escribir_registro(@, n, v), !.program_counter = @ + 1])
           /\ [c EXCEPT !.registros = escribir_registro(@, n, v), !.program_counter = @ + 1].pid
                = c.pid
<1>1. PICK d : d = [c EXCEPT !.registros = escribir_registro(@, n, v), !.program_counter = @ + 1]
   OBVIOUS
<1>2. PICK nuevos : nuevos = escribir_registro(c.registros, n, v) OBVIOUS
<1>3. /\ DOMAIN d = Campos /\ d.pid = c.pid /\ d.program_counter = c.program_counter + 1
      /\ d.instrucciones = c.instrucciones /\ d.tabla = c.tabla
      /\ d.registros = nuevos
   BY <1>1, <1>2 DEF Sano, Campos
<1>4. RegistrosBien(nuevos)
   <2>1. RegistroDe(n) \in Registros BY RegistrosAssumption DEF RegistroDe
   <2>2. nuevos = [c.registros EXCEPT ![RegistroDe(n)] = v] BY <1>2 DEF escribir_registro
   <2>3. RegistrosBien(c.registros) BY DEF Sano
   <2> QED BY <2>1, <2>2, <2>3 DEF RegistrosBien
<1>5. Len(c.instrucciones) \in Nat BY CPUAssumption DEF Sano
<1>6. d.program_counter \in 0 .. Len(d.instrucciones) BY <1>3, <1>5 DEF Sano
<1> QED BY <1>1, <1>3, <1>4, <1>6 DEF Sano

\* The translation of an address: the entry is in the table, and the mark on the
\* last one leaves the bases and sizes.
LEMMA Traduccion ==
    ASSUME Sano(pcb_actual), NEW dir
    PROVE  TablaBien(mmu(dir).tabla)
<1>1. PICK t : t = pcb_actual.tabla OBVIOUS
<1>2. TablaBien(t) BY <1>1 DEF Sano
<1>3. CASE EnTabla(t, dir \div tam_max_segmento) # {} BY <1>1, <1>2, <1>3 DEF mmu
<1>4. CASE EnTabla(t, dir \div tam_max_segmento) = {}
   <2>1. mmu(dir).tabla = [t EXCEPT ![Len(t)].id = -1] BY <1>1, <1>4 DEF mmu
   <2>2. PICK u : u = [t EXCEPT ![Len(t)].id = -1] OBVIOUS
   <2>3. t \in Seq(Entradas) /\ Len(t) > 0 BY <1>2 DEF TablaBien
   <2>4. t[Len(t)] \in Entradas BY <2>3
   <2>5. [t[Len(t)] EXCEPT !.id = -1] \in Entradas BY <2>4 DEF Entradas
   <2>6. u = [t EXCEPT ![Len(t)] = [t[Len(t)] EXCEPT !.id = -1]] BY <2>2
   <2>7. u \in Seq(Entradas) /\ Len(u) = Len(t) BY <2>3, <2>5, <2>6
   <2>8. \A k \in 1 .. Len(t) : u[k].base = t[k].base /\ u[k].size = t[k].size
      BY <2>3, <2>4, <2>6 DEF Entradas
   <2> QED BY <1>2, <2>1, <2>2, <2>3, <2>7, <2>8 DEF TablaBien
<1> QED BY <1>3, <1>4

\* Another table for a context.
LEMMA SanoConTabla ==
    ASSUME NEW c, Sano(c), NEW t, TablaBien(t)
    PROVE  /\ Sano([c EXCEPT !.tabla = t])
           /\ [c EXCEPT !.tabla = t].pid = c.pid
           /\ [c EXCEPT !.tabla = t].program_counter = c.program_counter
           /\ [c EXCEPT !.tabla = t].instrucciones = c.instrucciones
<1>1. PICK d : d = [c EXCEPT !.tabla = t] OBVIOUS
<1>2. /\ DOMAIN d = Campos /\ d.pid = c.pid /\ d.program_counter = c.program_counter
      /\ d.instrucciones = c.instrucciones /\ d.tabla = t
      /\ d.registros = c.registros
   BY <1>1 DEF Sano, Campos
<1> QED BY <1>1, <1>2 DEF Sano

\* The next instruction.
LEMMA SanoAlPasar ==
    ASSUME NEW c, Sano(c), c.program_counter < Len(c.instrucciones)
    PROVE  /\ Sano([c EXCEPT !.program_counter = @ + 1])
           /\ [c EXCEPT !.program_counter = @ + 1].pid = c.pid
           /\ [c EXCEPT !.program_counter = @ + 1].tabla = c.tabla
           /\ [c EXCEPT !.program_counter = @ + 1].archivos = c.archivos
<1>1. PICK d : d = [c EXCEPT !.program_counter = @ + 1] OBVIOUS
<1>2. /\ DOMAIN d = Campos /\ d.pid = c.pid /\ d.program_counter = c.program_counter + 1
      /\ d.instrucciones = c.instrucciones /\ d.tabla = c.tabla
      /\ d.registros = c.registros /\ d.archivos = c.archivos
   BY <1>1 DEF Sano, Campos
<1>3. Len(c.instrucciones) \in Nat BY CPUAssumption DEF Sano
<1>4. d.program_counter \in 0 .. Len(d.instrucciones) BY <1>2, <1>3 DEF Sano
<1> QED BY <1>1, <1>2, <1>4 DEF Sano

-----------------------------------------------------------------------------
(* The invariant at the start, and the steps of the CPU. *)

LEMMA InitCInv == Init => CInv
<1> SUFFICES ASSUME Init PROVE CInv OBVIOUS
<1>1. PICK programa \in [Pids -> Programas] :
          pcb = [p \in Pids |->
                   [pid |-> p, instrucciones |-> programa[p], program_counter |-> 0,
                    registros |-> [r \in Registros |-> [i \in 1 .. size_of_registro(r) |-> 0]],
                    tabla |-> <<entradaSegm0>>, archivos |-> <<>>]]
   BY DEF Init
<1>2. TablaBien(<<entradaSegm0>>)
   <2>1. entradaSegm0 \in Entradas /\ entradaSegm0.base = 0 /\ entradaSegm0.size = TamSegmento0
      BY CPUAssumption DEF entradaSegm0, Entradas
   <2>2. Rango(0, TamSegmento0) \subseteq Celdas BY CPUAssumption DEF Rango, Celdas
   <2> HIDE DEF entradaSegm0
   <2> QED BY <2>1, <2>2 DEF TablaBien
<1>3. RegistrosBien([r \in Registros |-> [i \in 1 .. size_of_registro(r) |-> 0]])
   <2>1. \A r \in Registros : size_of_registro(r) \in Nat BY DEF size_of_registro
   <2>2. \A n \in Nat : Len([i \in 1 .. n |-> 0]) = n OBVIOUS
   <2> QED BY <2>1, <2>2 DEF RegistrosBien
<1>4. \A p \in Pids : Sano(pcb[p]) /\ pcb[p].pid = p
   <2> SUFFICES ASSUME NEW p \in Pids PROVE Sano(pcb[p]) /\ pcb[p].pid = p OBVIOUS
   <2>1. PICK c : c = pcb[p] OBVIOUS
   <2>2. PICK regs : regs = [r \in Registros |-> [i \in 1 .. size_of_registro(r) |-> 0]] OBVIOUS
   <2>3. c = [pid |-> p, instrucciones |-> programa[p], program_counter |-> 0,
              registros |-> regs, tabla |-> <<entradaSegm0>>, archivos |-> <<>>]
      BY <1>1, <2>1, <2>2
   <2>4. /\ DOMAIN c = Campos /\ c.pid = p /\ c.instrucciones = programa[p]
         /\ c.program_counter = 0 /\ c.registros = regs /\ c.tabla = <<entradaSegm0>>
      BY <2>3 DEF Campos
   <2>5. 0 \in 0 .. Len(programa[p]) BY CPUAssumption
   <2> QED BY <1>2, <1>3, <2>1, <2>2, <2>4, <2>5 DEF Sano
<1>5. EsSeq(<<>>) /\ Len(<<>>) = 0
   <2>1. <<>> \in Seq({}) OBVIOUS
   <2> QED BY <2>1, EnSeq
<1>6. /\ enExec = -1 /\ terminados = {} /\ aCPU = <<>> /\ aKernel = <<>> /\ paso = "espera"
      /\ continuar_ejecucion = TRUE /\ atascada = FALSE /\ DOMAIN memoria = Celdas
   BY DEF Init
<1>7. pcb = [p \in Pids |-> pcb[p]] BY <1>1
<1>8. Formas
   <2>1. EsSeq(aCPU) /\ EsSeq(aKernel) /\ 1 .. Len(aCPU) = {} /\ 1 .. Len(aKernel) = {}
      BY <1>5, <1>6
   <2>2. \A p \in Pids : Sano(pcb[p]) BY <1>4
   <2> QED BY <1>6, <1>7, <2>1, <2>2 DEF Formas
<1>9. UnaVuelta BY <1>4, <1>5, <1>6 DEF UnaVuelta, EnElCiclo
<1> QED BY <1>8, <1>9 DEF CInv

\* A step of the cycle: it leaves the context of the same process, and sends at
\* most one answer; if it sends one and goes on, an instruction failed.
LEMMA PasoDelCiclo ==
    ASSUME CInv, paso = "ciclo", UNCHANGED <<pcb, enExec, terminados, aCPU>>,
           DOMAIN memoria' = Celdas, continuar_ejecucion' \in BOOLEAN,
           atascada' \in BOOLEAN, atascada => atascada',
           paso' \in {"ciclo", "espera", "muerto"},
           paso' = "ciclo" => Sano(pcb_actual') /\ pcb_actual'.pid = pcb_actual.pid,
           \/ UNCHANGED aKernel
           \/ /\ paso' = "ciclo" => atascada'
              /\ \E m : Respuesta(m) /\ m.ctx.pid = pcb_actual.pid /\ aKernel' = Append(aKernel, m)
    PROVE  CInv'
<1>1. CASE UNCHANGED aKernel
   <2>1. Formas' BY <1>1 DEF CInv, Formas, EsSeq
   <2>2. UnaVuelta' BY <1>1 DEF CInv, Formas, UnaVuelta, EnElCiclo, EsSeq
   <2> QED BY <2>1, <2>2 DEF CInv
<1>2. ASSUME paso' = "ciclo" => atascada',
             NEW m, Respuesta(m), m.ctx.pid = pcb_actual.pid, aKernel' = Append(aKernel, m)
      PROVE  CInv'
   <2>1. EsSeq(aKernel) BY DEF CInv, Formas
   <2>2. /\ EsSeq(aKernel') /\ Len(aKernel') = Len(aKernel) + 1
         /\ \A i \in 1 .. Len(aKernel) : aKernel'[i] = aKernel[i]
         /\ aKernel'[Len(aKernel) + 1] = m
      BY <1>2, <2>1, AlFinal
   <2>3. Len(aKernel) \in Nat /\ Len(aCPU) \in Nat BY DEF CInv, Formas, EsSeq
   <2>4. \A i \in 1 .. Len(aKernel') : i \in 1 .. Len(aKernel) \/ i = Len(aKernel) + 1
      BY <2>2, <2>3
   <2>5. \A i \in 1 .. Len(aKernel') : Respuesta(aKernel'[i])
      BY <1>2, <2>2, <2>4 DEF CInv, Formas
   <2>6. Formas' BY <2>2, <2>5 DEF CInv, Formas, EsSeq
   <2>7. UnaVuelta'
      <3> SUFFICES ASSUME ~atascada' PROVE UnaVuelta' BY DEF UnaVuelta
      <3>1. paso' # "ciclo" /\ ~atascada BY <1>2
      <3>2. /\ Len(aCPU) + 1 + Len(aKernel) <= IF enExec = -1 THEN 0 ELSE 1
            /\ pcb_actual.pid = enExec
            /\ \A i \in 1 .. Len(aCPU) : aCPU[i].pid = enExec
            /\ \A p \in Pids : pcb[p].pid = p
         BY <3>1 DEF CInv, UnaVuelta, EnElCiclo
      <3>3. Len(aKernel) = 0 /\ Len(aCPU) = 0 /\ enExec # -1 BY <2>3, <3>2
      <3>4. \A i \in 1 .. Len(aKernel') : aKernel'[i].ctx.pid = enExec
         BY <1>2, <2>2, <2>4, <3>2, <3>3
      <3> QED BY <2>2, <3>1, <3>2, <3>3, <3>4 DEF UnaVuelta, EnElCiclo
   <2> QED BY <2>6, <2>7 DEF CInv
<1> QED BY <1>1, <1>2

\* What Envia puts in the socket of the Kernel.
LEMMA UnaRespuesta ==
    ASSUME NEW codigo, NEW ctx, NEW args, Envia(codigo, ctx, args),
           Sano(ctx), ctx.program_counter < Len(ctx.instrucciones),
           codigo = "REQ_CREATE_SEGMENT" => args[1] \in Int /\ args[2] \in Int
    PROVE  \E m : Respuesta(m) /\ m.ctx.pid = ctx.pid /\ aKernel' = Append(aKernel, m)
<1>1. PICK c : c = serializarPCB(ctx) OBVIOUS
<1>2. /\ Sano(c) /\ c.pid = ctx.pid /\ c.program_counter = ctx.program_counter
      /\ c.instrucciones = ctx.instrucciones
   BY <1>1, SanoAlLlegar
<1>3. PICK m : m = [codigo |-> codigo, ctx |-> c, args |-> args] OBVIOUS
<1>4. m.codigo = codigo /\ m.ctx = c /\ m.args = args BY <1>3
<1>5. Respuesta(m) /\ m.ctx.pid = ctx.pid BY <1>2, <1>4 DEF Respuesta
<1>6. aKernel' = Append(aKernel, m) BY <1>1, <1>3 DEF Envia
<1> QED BY <1>5, <1>6

\* What every instruction finds.
LEMMA AlEjecutar ==
    ASSUME CInv, NEW comandos, Ejecuta(comandos)
    PROVE  /\ paso = "ciclo" /\ Sano(pcb_actual) /\ instr.comando \in comandos
           /\ pcb_actual.program_counter < Len(pcb_actual.instrucciones)
           /\ instr.comando = "SET" => Len(instr.valor) = size_of_registro(RegistroDe(instr.reg))
           /\ instr.comando = "CREATE_SEGMENT" => instr.id \in Int /\ instr.size \in Int
<1>1. /\ paso = "ciclo" /\ Sano(pcb_actual) /\ instr.comando \in comandos
      /\ pcb_actual.program_counter < Len(pcb_actual.instrucciones)
   BY DEF Ejecuta, CInv, Formas
<1>2. PICK programa \in Programas : programa = pcb_actual.instrucciones BY <1>1 DEF Sano
<1>3. PICK k : k = pcb_actual.program_counter + 1 OBVIOUS
<1>4. Len(programa) \in Nat /\ k \in 1 .. Len(programa)
   BY <1>1, <1>2, <1>3, CPUAssumption DEF Sano
<1>5. instr = programa[k] BY <1>2, <1>3 DEF instr
<1>6. /\ programa[k].comando = "SET" =>
            Len(programa[k].valor) = size_of_registro(RegistroDe(programa[k].reg))
      /\ programa[k].comando = "CREATE_SEGMENT" =>
            programa[k].id \in Int /\ programa[k].size \in Int
   BY <1>2, <1>4, CPUAssumption
<1> QED BY <1>1, <1>5, <1>6

\* A request leaves the cycle, and the answer has the context of the process.
LEMMA PideCInv ==
    ASSUME CInv, NEW comandos, Ejecuta(comandos), NEW codigo, NEW args, Pide(codigo, args),
           codigo = "REQ_CREATE_SEGMENT" => args[1] \in Int /\ args[2] \in Int
    PROVE  CInv'
<1>1. /\ paso = "ciclo" /\ Sano(pcb_actual)
      /\ pcb_actual.program_counter < Len(pcb_actual.instrucciones)
   BY AlEjecutar
<1>2. Envia(codigo, pcb_actual, args) BY DEF Pide
<1>3. \E m : Respuesta(m) /\ m.ctx.pid = pcb_actual.pid /\ aKernel' = Append(aKernel, m)
   BY <1>1, <1>2, UnaRespuesta
<1>4. /\ paso' = "espera" /\ continuar_ejecucion' = FALSE
      /\ UNCHANGED <<pcb, enExec, terminados, aCPU, memoria, atascada>>
   BY DEF Pide, Queda
<1>5. DOMAIN memoria' = Celdas /\ atascada' \in BOOLEAN BY <1>4 DEF CInv, Formas
<1> QED BY <1>1, <1>3, <1>4, <1>5, PasoDelCiclo

\* A failure that is told: the cycle ends, or goes on with the mark of the history.
LEMMA FallaCInv ==
    ASSUME CInv, NEW comandos, Ejecuta(comandos), NEW codigo, NEW args,
           codigo # "REQ_CREATE_SEGMENT",
           NEW ctx, Sano(ctx), ctx.pid = pcb_actual.pid,
           ctx.program_counter < Len(ctx.instrucciones),
           NEW continuar \in BOOLEAN,
           Envia(codigo, ctx, args),
           Falla(ctx, continuar), UNCHANGED <<pcb, enExec, terminados, aCPU, memoria>>
    PROVE  CInv'
<1>1. paso = "ciclo" BY AlEjecutar
<1>2. \E m : Respuesta(m) /\ m.ctx.pid = pcb_actual.pid /\ aKernel' = Append(aKernel, m)
   BY UnaRespuesta
<1>3. /\ paso' \in {"ciclo", "espera"} /\ continuar_ejecucion' \in BOOLEAN
      /\ pcb_actual' = ctx /\ atascada' = (atascada \/ continuar)
      /\ paso' = "ciclo" => continuar
   BY DEF Falla, Queda
<1>4. DOMAIN memoria' = Celdas /\ atascada' \in BOOLEAN BY <1>3 DEF CInv, Formas
<1> QED BY <1>1, <1>2, <1>3, <1>4, PasoDelCiclo

\* An instruction that the CPU does alone.
LEMMA SolaCInv ==
    ASSUME CInv, NEW comandos, Ejecuta(comandos), NEW ctx, Sano(ctx), ctx.pid = pcb_actual.pid,
           Queda(ctx, TRUE), UNCHANGED <<pcb, enExec, terminados, aCPU, aKernel, atascada>>,
           DOMAIN memoria' = Celdas
    PROVE  CInv'
<1>1. paso = "ciclo" BY AlEjecutar
<1>2. /\ paso' \in {"ciclo", "espera"} /\ continuar_ejecucion' \in BOOLEAN
      /\ pcb_actual' = ctx
   BY DEF Queda
<1>3. atascada' \in BOOLEAN BY DEF CInv, Formas
<1> QED BY <1>1, <1>2, <1>3, PasoDelCiclo

\* The failures of the translation.
LEMMA TraduccionFallidaCInv ==
    ASSUME CInv, NEW comandos, Ejecuta(comandos), NEW dir, NEW m, m = mmu(dir),
           SegmentoInexistente(m) \/ FueraCallado(m) \/ SegmentationFault(m)
    PROVE  CInv'
<1>1. /\ Sano(pcb_actual) /\ pcb_actual.program_counter < Len(pcb_actual.instrucciones)
   BY AlEjecutar
<1>2. CASE SegmentoInexistente(m)
   <2>1. PICK ctx : /\ ctx = [pcb_actual EXCEPT !.tabla = m.tabla]
                    /\ Envia("ERR_INVALID_SEGMENT", ctx, <<>>) /\ Falla(ctx, TRUE)
      BY <1>2 DEF SegmentoInexistente
   <2>2. TablaBien(m.tabla) BY <1>1, Traduccion
   <2>3. /\ Sano(ctx) /\ ctx.pid = pcb_actual.pid
         /\ ctx.program_counter < Len(ctx.instrucciones)
      BY <1>1, <2>1, <2>2, SanoConTabla
   <2>4. UNCHANGED <<pcb, enExec, terminados, aCPU, memoria>> BY <1>2 DEF SegmentoInexistente
   <2> QED BY <2>1, <2>3, <2>4, FallaCInv
<1>3. CASE FueraCallado(m)
   <2>1. Falla(pcb_actual, TRUE) /\ UNCHANGED <<pcb, enExec, terminados, aCPU, aKernel, memoria>>
      BY <1>3 DEF FueraCallado
   <2>2. /\ paso' \in {"ciclo", "espera"} /\ continuar_ejecucion' \in BOOLEAN
         /\ pcb_actual' = pcb_actual /\ atascada' = TRUE
      BY <2>1 DEF Falla, Queda
   <2>3. DOMAIN memoria' = Celdas BY <2>1 DEF CInv, Formas
   <2>4. paso = "ciclo" BY AlEjecutar
   <2> QED BY <1>1, <2>1, <2>2, <2>3, <2>4, PasoDelCiclo
<1>4. CASE SegmentationFault(m)
   <2>1. /\ Envia("ERR_SEGMENTATION_FAULT", pcb_actual, <<>>) /\ Falla(pcb_actual, FALSE)
         /\ UNCHANGED <<pcb, enExec, terminados, aCPU, memoria>>
      BY <1>4 DEF SegmentationFault
   <2> QED BY <1>1, <2>1, FallaCInv
<1> QED BY <1>2, <1>3, <1>4

\* Every action of the CPU inside the cycle.
LEMMA CPUCInv == CInv /\ CPU => CInv'
<1> SUFFICES ASSUME CInv, CPU PROVE CInv' OBVIOUS
<1>1. CASE RecibePCB
   <2>1. /\ paso = "espera" /\ aCPU # <<>> /\ pcb_actual' = Head(aCPU) /\ aCPU' = Tail(aCPU)
         /\ continuar_ejecucion' = TRUE /\ paso' = "ciclo"
         /\ UNCHANGED <<pcb, enExec, terminados, aKernel, memoria, atascada>>
      BY <1>1 DEF RecibePCB
   <2>2. EsSeq(aCPU) BY DEF CInv, Formas
   <2>3. /\ Len(aCPU) > 0 /\ pcb_actual' = aCPU[1]
         /\ EsSeq(aCPU') /\ Len(aCPU') = Len(aCPU) - 1
         /\ \A i \in 1 .. Len(aCPU) - 1 : aCPU'[i] = aCPU[i + 1]
      BY <2>1, <2>2, ElPrimero
   <2>4. Len(aCPU) \in Nat BY <2>2 DEF EsSeq
   <2>5. /\ 1 \in 1 .. Len(aCPU)
         /\ \A i \in 1 .. Len(aCPU') : i \in 1 .. Len(aCPU) - 1 /\ i + 1 \in 1 .. Len(aCPU)
      BY <2>3, <2>4
   <2>6. Formas'
      <3>1. Sano(pcb_actual') /\ \A i \in 1 .. Len(aCPU') : Sano(aCPU'[i])
         BY <2>3, <2>5 DEF CInv, Formas
      <3> QED BY <2>1, <2>3, <3>1 DEF CInv, Formas, EsSeq
   <2>7. UnaVuelta'
      <3> SUFFICES ASSUME ~atascada PROVE UnaVuelta' BY <2>1 DEF UnaVuelta
      <3>1. /\ Len(aCPU) + Len(aKernel) <= IF enExec = -1 THEN 0 ELSE 1
            /\ \A i \in 1 .. Len(aCPU) : aCPU[i].pid = enExec
            /\ \A i \in 1 .. Len(aKernel) : aKernel[i].ctx.pid = enExec
            /\ \A p \in Pids : pcb[p].pid = p
         BY <2>1, <2>4 DEF CInv, UnaVuelta, EnElCiclo, Formas, EsSeq
      <3>2. Len(aKernel) \in Nat BY DEF CInv, Formas, EsSeq
      <3>3. Len(aCPU') + 1 + Len(aKernel) <= IF enExec = -1 THEN 0 ELSE 1
         BY <2>3, <2>4, <3>1, <3>2
      <3>4. pcb_actual'.pid = enExec /\ \A i \in 1 .. Len(aCPU') : aCPU'[i].pid = enExec
         BY <2>3, <2>5, <3>1
      <3> QED BY <2>1, <3>1, <3>3, <3>4 DEF UnaVuelta, EnElCiclo
   <2> QED BY <2>6, <2>7 DEF CInv
<1>2. CASE Muere \/ MuerePorPuntero
   <2>1. /\ paso = "ciclo" /\ paso' = "muerto"
         /\ UNCHANGED <<pcb, enExec, terminados, aCPU, aKernel, continuar_ejecucion, memoria,
                        atascada>>
      BY <1>2 DEF Muere, MuerePorPuntero, Ejecuta
   <2>2. /\ DOMAIN memoria' = Celdas /\ atascada' \in BOOLEAN /\ continuar_ejecucion' \in BOOLEAN
      BY <2>1 DEF CInv, Formas
   <2> QED BY <2>1, <2>2, PasoDelCiclo
<1>3. CASE exe_SET
   <2>1. /\ Sano(pcb_actual) /\ pcb_actual.program_counter < Len(pcb_actual.instrucciones)
         /\ Len(instr.valor) = size_of_registro(RegistroDe(instr.reg))
         /\ Ejecuta({"SET"})
      BY <1>3, AlEjecutar DEF exe_SET
   <2>2. PICK ctx : ctx = [pcb_actual EXCEPT
                             !.registros = escribir_registro(@, instr.reg, instr.valor),
                             !.program_counter = @ + 1]
      OBVIOUS
   <2>3. Sano(ctx) /\ ctx.pid = pcb_actual.pid BY <2>1, <2>2, SanoAlEscribir
   <2>4. /\ Queda(ctx, TRUE)
         /\ UNCHANGED <<pcb, enExec, terminados, aCPU, aKernel, memoria, atascada>>
      BY <1>3, <2>2 DEF exe_SET
   <2>5. DOMAIN memoria' = Celdas BY <2>4 DEF CInv, Formas
   <2> QED BY <2>1, <2>3, <2>4, <2>5, SolaCInv
<1>4. CASE MOVFallido
   <2>1. Ejecuta({"MOV_IN", "MOV_OUT"}) BY <1>4 DEF MOVFallido
   <2>2. PICK m : /\ m = mmu(instr.dir)
                  /\ SegmentoInexistente(m) \/ FueraCallado(m) \/ SegmentationFault(m)
      BY <1>4 DEF MOVFallido
   <2> QED BY <2>1, <2>2, TraduccionFallidaCInv
<1>5. CASE exe_MOV_IN
   <2>1. Ejecuta({"MOV_IN"}) BY <1>5 DEF exe_MOV_IN
   <2>2. /\ Sano(pcb_actual) /\ pcb_actual.program_counter < Len(pcb_actual.instrucciones)
      BY <2>1, AlEjecutar
   <2>3. PICK m : /\ m = mmu(instr.dir)
                  /\ Queda([pcb_actual EXCEPT
                              !.registros = escribir_registro(@, instr.reg, Bytes(m, TamInstr)),
                              !.program_counter = @ + 1], TRUE)
      BY <1>5 DEF exe_MOV_IN
   <2>4. Len(Bytes(m, TamInstr)) = size_of_registro(RegistroDe(instr.reg))
      <3>1. TamInstr \in Nat /\ TamInstr = size_of_registro(RegistroDe(instr.reg))
         BY DEF TamInstr, size_of_registro
      <3>2. \A n \in Nat : Len(Bytes(m, n)) = n BY DEF Bytes
      <3> QED BY <3>1, <3>2
   <2>5. PICK ctx : ctx = [pcb_actual EXCEPT
                             !.registros = escribir_registro(@, instr.reg, Bytes(m, TamInstr)),
                             !.program_counter = @ + 1]
      OBVIOUS
   <2>6. Sano(ctx) /\ ctx.pid = pcb_actual.pid BY <2>2, <2>4, <2>5, SanoAlEscribir
   <2>7. UNCHANGED <<pcb, enExec, terminados, aCPU, aKernel, memoria, atascada>>
      BY <1>5 DEF exe_MOV_IN
   <2>8. DOMAIN memoria' = Celdas BY <2>7 DEF CInv, Formas
   <2> QED BY <2>1, <2>3, <2>5, <2>6, <2>7, <2>8, SolaCInv
<1>6. CASE exe_MOV_OUT
   <2>1. Ejecuta({"MOV_OUT"}) BY <1>6 DEF exe_MOV_OUT
   <2>2. /\ Sano(pcb_actual) /\ pcb_actual.program_counter < Len(pcb_actual.instrucciones)
      BY <2>1, AlEjecutar
   <2>3. PICK ctx : ctx = [pcb_actual EXCEPT !.program_counter = @ + 1] OBVIOUS
   <2>4. Sano(ctx) /\ ctx.pid = pcb_actual.pid BY <2>2, <2>3, SanoAlPasar
   <2>5. Queda(ctx, TRUE) BY <1>6, <2>3 DEF exe_MOV_OUT
   <2>6. UNCHANGED <<pcb, enExec, terminados, aCPU, aKernel, atascada>> BY <1>6 DEF exe_MOV_OUT
   <2>7. DOMAIN memoria' = Celdas BY <1>6 DEF exe_MOV_OUT
   <2> QED BY <2>1, <2>4, <2>5, <2>6, <2>7, SolaCInv
<1>7. CASE exe_Directo
   <2>1. /\ Ejecuta({"I/O", "WAIT", "SIGNAL", "YIELD", "EXIT"})
         /\ Pide(Codigo[instr.comando], <<>>)
      BY <1>7 DEF exe_Directo
   <2>2. Codigo[instr.comando] # "REQ_CREATE_SEGMENT" BY <2>1, AlEjecutar DEF Codigo
   <2> QED BY <2>1, <2>2, PideCInv
<1>8. CASE exe_F_OPEN
   <2>1. Ejecuta({"F_OPEN"}) /\ Pide("REQ_OPEN_FILE", <<instr.arch>>) BY <1>8 DEF exe_F_OPEN
   <2> QED BY <2>1, PideCInv
<1>9. CASE exe_DELETE_SEGMENT
   <2>1. Ejecuta({"DELETE_SEGMENT"}) /\ Pide("REQ_DELETE_SEGMENT", <<instr.id>>)
      BY <1>9 DEF exe_DELETE_SEGMENT
   <2> QED BY <2>1, PideCInv
<1>10. CASE exe_CREATE_SEGMENT
   <2>1. /\ Ejecuta({"CREATE_SEGMENT"})
         /\ \/ Pide("ERR_INVALID_SEGMENT", <<>>)
            \/ Pide("REQ_CREATE_SEGMENT", <<instr.id, instr.size>>)
      BY <1>10 DEF exe_CREATE_SEGMENT
   <2>2. instr.id \in Int /\ instr.size \in Int BY <2>1, AlEjecutar
   <2>3. CASE Pide("ERR_INVALID_SEGMENT", <<>>) BY <2>1, <2>3, PideCInv
   <2>4. CASE Pide("REQ_CREATE_SEGMENT", <<instr.id, instr.size>>)
      <3>1. <<instr.id, instr.size>>[1] \in Int /\ <<instr.id, instr.size>>[2] \in Int BY <2>2
      <3> QED BY <2>1, <2>4, <3>1, PideCInv
   <2> QED BY <2>1, <2>3, <2>4
<1>11. CASE ArchivoNoAbierto
   <2>1. /\ Ejecuta({"F_CLOSE", "F_SEEK", "F_TRUNCATE", "F_READ", "F_WRITE"})
         /\ Envia("ERR_FILE_NOT_OPEN", pcb_actual, <<>>)
         /\ UNCHANGED <<pcb, enExec, terminados, aCPU, memoria>>
      BY <1>11 DEF ArchivoNoAbierto
   <2>2. PICK b \in BOOLEAN : Falla(pcb_actual, b) BY <1>11 DEF ArchivoNoAbierto
   <2>3. Sano(pcb_actual) /\ pcb_actual.program_counter < Len(pcb_actual.instrucciones)
      BY <2>1, AlEjecutar
   <2> QED BY <2>1, <2>2, <2>3, FallaCInv
<1>12. CASE exe_Archivo
   <2>1. /\ Ejecuta({"F_CLOSE", "F_SEEK", "F_TRUNCATE"})
         /\ Pide(Codigo[instr.comando], <<instr.arch>>)
      BY <1>12 DEF exe_Archivo
   <2>2. Codigo[instr.comando] # "REQ_CREATE_SEGMENT" BY <2>1, AlEjecutar DEF Codigo
   <2> QED BY <2>1, <2>2, PideCInv
<1>13. CASE exe_ArchivoConMemoria
   <2>1. Ejecuta({"F_READ", "F_WRITE"}) BY <1>13 DEF exe_ArchivoConMemoria
   <2>2. PICK m : /\ m = mmu(instr.dir)
                  /\ \/ SegmentoInexistente(m) \/ FueraCallado(m)
                     \/ Pide(Codigo[instr.comando], <<instr.arch, m.entrada.base + m.despl>>)
      BY <1>13 DEF exe_ArchivoConMemoria
   <2>3. Codigo[instr.comando] # "REQ_CREATE_SEGMENT" BY <2>1, AlEjecutar DEF Codigo
   <2>4. CASE SegmentoInexistente(m) \/ FueraCallado(m)
      BY <2>1, <2>2, <2>4, TraduccionFallidaCInv
   <2>5. CASE Pide(Codigo[instr.comando], <<instr.arch, m.entrada.base + m.despl>>)
      BY <2>1, <2>3, <2>5, PideCInv
   <2> QED BY <2>2, <2>4, <2>5
<1> QED BY <1>1, <1>2, <1>3, <1>4, <1>5, <1>6, <1>7, <1>8, <1>9, <1>10, <1>11, <1>12, <1>13
        DEF CPU

-----------------------------------------------------------------------------
(* The steps of the Kernel. *)

\* The tables that Memoria answers.
LEMMA TablaConSegmento ==
    ASSUME NEW t, TablaBien(t), NEW x \in Celdas, NEW id \in Int, NEW n \in Int,
           Rango(x, n) \subseteq Celdas
    PROVE  TablaBien(Append(t, [id |-> id, base |-> x, size |-> n]))
<1>1. PICK e : e = [id |-> id, base |-> x, size |-> n] OBVIOUS
<1>2. x \in Int BY CPUAssumption DEF Celdas
<1>3. e \in Entradas /\ e.base = x /\ e.size = n BY <1>1, <1>2 DEF Entradas
<1>4. PICK u : u = Append(t, e) OBVIOUS
<1>5. /\ u \in Seq(Entradas) /\ Len(u) = Len(t) + 1 /\ Len(t) \in Nat
      /\ \A k \in 1 .. Len(t) : u[k] = t[k]
      /\ u[Len(t) + 1] = e
   BY <1>3, <1>4 DEF TablaBien
<1>6. \A k \in 1 .. Len(u) : k \in 1 .. Len(t) \/ k = Len(t) + 1 BY <1>5
<1>7. \A k \in 1 .. Len(u) : Rango(u[k].base, u[k].size) \subseteq Celdas
   BY <1>3, <1>5, <1>6 DEF TablaBien
<1> QED BY <1>1, <1>4, <1>5, <1>7 DEF TablaBien

LEMMA TablaSinSegmento ==
    ASSUME NEW t, TablaBien(t), NEW id
    PROVE  TablaBien(SinSegmento(t, id))
<1>1. PICK suyas : suyas = EnTabla(t, id) \ {1} OBVIOUS
<1>2. CASE id = 0 \/ suyas = {} BY <1>1, <1>2 DEF SinSegmento
<1>3. CASE ~(id = 0 \/ suyas = {})
   <2>1. t \in Seq(Entradas) /\ Len(t) \in Nat BY DEF TablaBien
   <2>2. suyas \subseteq 2 .. Len(t) BY <1>1, <2>1 DEF EnTabla
   <2>3. PICK k : k = Min(suyas) OBVIOUS
   <2>4. k \in suyas
      <3>1. suyas \in SUBSET Nat BY <2>1, <2>2
      <3>2. \E x \in suyas : \A y \in suyas : x <= y BY <1>3, <3>1, MinimoNatural
      <3> QED BY <2>3, <3>2 DEF Min
   <2>5. k \in 2 .. Len(t) BY <2>2, <2>4
   <2>6. SinSegmento(t, id) = RemoveAt(t, k) BY <1>1, <1>3, <2>3 DEF SinSegmento
   <2>7. PICK a, b : a = SubSeq(t, 1, k - 1) /\ b = SubSeq(t, k + 1, Len(t)) OBVIOUS
   <2>8. /\ a \in Seq(Entradas) /\ Len(a) = k - 1
         /\ \A i \in 1 .. k - 1 : a[i] = t[i]
      BY <2>1, <2>5, <2>7
   <2>9. /\ b \in Seq(Entradas) /\ Len(b) = Len(t) - k
         /\ \A i \in 1 .. Len(t) - k : b[i] = t[k + i]
      BY <2>1, <2>5, <2>7
   <2>10. PICK u : u = a \o b OBVIOUS
   <2>11. /\ u \in Seq(Entradas) /\ Len(u) = Len(t) - 1
          /\ \A i \in 1 .. Len(u) : u[i] = IF i <= k - 1 THEN a[i] ELSE b[i - (k - 1)]
      <3>1. /\ u \in Seq(Entradas) /\ Len(u) = Len(a) + Len(b)
            /\ \A i \in 1 .. Len(a) + Len(b) : u[i] = IF i <= Len(a) THEN a[i] ELSE b[i - Len(a)]
         BY <2>8, <2>9, <2>10, ConcatProperties
      <3>2. Len(a) + Len(b) = Len(t) - 1 BY <2>1, <2>5, <2>8, <2>9
      <3> QED BY <2>8, <3>1, <3>2
   <2>12. \A i \in 1 .. Len(u) : \E j \in 1 .. Len(t) : u[i] = t[j]
      <3> SUFFICES ASSUME NEW i \in 1 .. Len(u) PROVE \E j \in 1 .. Len(t) : u[i] = t[j] OBVIOUS
      <3>1. CASE i <= k - 1
         <4>1. i \in 1 .. k - 1 /\ i \in 1 .. Len(t) BY <2>1, <2>5, <3>1
         <4> QED BY <2>8, <2>11, <3>1, <4>1
      <3>2. CASE ~(i <= k - 1)
         <4>1. i - (k - 1) \in 1 .. Len(t) - k /\ k + (i - (k - 1)) \in 1 .. Len(t)
            BY <2>1, <2>5, <2>11, <3>2
         <4> QED BY <2>9, <2>11, <3>2, <4>1
      <3> QED BY <3>1, <3>2
   <2>13. TablaBien(u)
      <3>1. Len(u) > 0 BY <2>1, <2>5, <2>11
      <3>2. \A j \in 1 .. Len(t) : Rango(t[j].base, t[j].size) \subseteq Celdas BY DEF TablaBien
      <3>3. \A i \in 1 .. Len(u) : Rango(u[i].base, u[i].size) \subseteq Celdas BY <2>12, <3>2
      <3> QED BY <2>11, <3>1, <3>3 DEF TablaBien
   <2> QED BY <2>6, <2>7, <2>10, <2>13 DEF RemoveAt
<1> QED BY <1>2, <1>3

\* What the Kernel makes of an answer is a context of the same process.
LEMMA SanoServido ==
    ASSUME NEW r, Respuesta(r), NEW ctx \in Servicio(r)
    PROVE  Sano(ctx) /\ ctx.pid = r.ctx.pid
<1>1. PICK c : c = r.ctx OBVIOUS
<1>2. Sano(c) /\ c.program_counter < Len(c.instrucciones) BY <1>1 DEF Respuesta
<1>3. PICK pasada : pasada = [c EXCEPT !.program_counter = @ + 1] OBVIOUS
<1>4. Sano(pasada) /\ pasada.pid = c.pid BY <1>2, <1>3, SanoAlPasar
<1>5. \A d, a : Sano(d) => Sano([d EXCEPT !.archivos = a]) /\ [d EXCEPT !.archivos = a].pid = d.pid
   <2> SUFFICES ASSUME NEW d, NEW a, Sano(d), NEW e, e = [d EXCEPT !.archivos = a]
                PROVE  Sano(e) /\ e.pid = d.pid
      OBVIOUS
   <2>1. /\ DOMAIN e = Campos /\ e.pid = d.pid /\ e.program_counter = d.program_counter
         /\ e.instrucciones = d.instrucciones /\ e.tabla = d.tabla
         /\ e.registros = d.registros
      BY DEF Sano, Campos
   <2> QED BY <2>1 DEF Sano
<1>6. \A t : TablaBien(t) => Sano([pasada EXCEPT !.tabla = t])
                            /\ [pasada EXCEPT !.tabla = t].pid = c.pid
   BY <1>4, SanoConTabla
<1>7. TablaBien(c.tabla) BY <1>2 DEF Sano
<1>8. CASE r.codigo = "REQ_CREATE_SEGMENT"
   <2>1. r.args[1] \in Int /\ r.args[2] \in Int BY <1>8 DEF Respuesta
   <2>2. \/ ctx = c
         \/ \E x \in Celdas :
               /\ Rango(x, r.args[2]) \subseteq Celdas
               /\ ctx = [pasada EXCEPT !.tabla =
                            Append(c.tabla, [id |-> r.args[1], base |-> x, size |-> r.args[2]])]
      BY <1>1, <1>3, <1>8 DEF Servicio, actualizarContextoEjec
   <2>3. ASSUME NEW x \in Celdas, Rango(x, r.args[2]) \subseteq Celdas,
                ctx = [pasada EXCEPT !.tabla =
                         Append(c.tabla, [id |-> r.args[1], base |-> x, size |-> r.args[2]])]
         PROVE  Sano(ctx) /\ ctx.pid = c.pid
      <3>1. TablaBien(Append(c.tabla, [id |-> r.args[1], base |-> x, size |-> r.args[2]]))
         BY <1>7, <2>1, <2>3, TablaConSegmento
      <3> QED BY <1>6, <2>3, <3>1
   <2> QED BY <1>1, <1>2, <2>2, <2>3
<1>9. CASE r.codigo = "REQ_DELETE_SEGMENT"
   <2>1. ctx = [pasada EXCEPT !.tabla = SinSegmento(c.tabla, r.args[1])]
      BY <1>1, <1>3, <1>9 DEF Servicio, actualizarContextoEjec
   <2>2. TablaBien(SinSegmento(c.tabla, r.args[1])) BY <1>7, TablaSinSegmento
   <2> QED BY <1>1, <1>6, <2>1, <2>2
<1>10. CASE r.codigo = "REQ_OPEN_FILE"
   <2>1. PICK d \in {pasada} \cup (IF Len(c.archivos) < MaxAbiertos THEN {c} ELSE {}) :
            ctx = [d EXCEPT !.archivos = Append(@, r.args[1])]
      BY <1>1, <1>3, <1>10 DEF Servicio, actualizarContextoEjec
   <2>2. PICK a : ctx = [d EXCEPT !.archivos = a] BY <2>1
   <2>3. Sano(d) /\ d.pid = c.pid BY <1>2, <1>4, <2>1
   <2> QED BY <1>1, <1>5, <2>2, <2>3
<1>11. CASE r.codigo = "REQ_CLOSE_FILE"
   <2>1. \E a : ctx = [pasada EXCEPT !.archivos = a]
      BY <1>1, <1>3, <1>11 DEF Servicio, actualizarContextoEjec
   <2> QED BY <1>1, <1>4, <1>5, <2>1
<1>12. CASE r.codigo \notin {"REQ_CREATE_SEGMENT", "REQ_DELETE_SEGMENT", "REQ_OPEN_FILE",
                           "REQ_CLOSE_FILE"}
   <2>1. ctx = pasada BY <1>1, <1>3, <1>12 DEF Servicio, actualizarContextoEjec
   <2> QED BY <1>1, <1>4, <2>1
<1> QED BY <1>8, <1>9, <1>10, <1>11, <1>12

LEMMA EnvioCInv == ASSUME CInv, NEW p \in Pids, Envio(p) PROVE CInv'
<1>1. PICK c : c = serializarPCB(pcb[p]) OBVIOUS
<1>2. /\ enExec = -1 /\ enExec' = p /\ aCPU' = Append(aCPU, c)
      /\ UNCHANGED <<pcb, terminados, aKernel, paso, pcb_actual, continuar_ejecucion, memoria,
                     atascada>>
   BY <1>1 DEF Envio
<1>3. Sano(pcb[p]) BY DEF CInv, Formas
<1>4. Sano(c) /\ c.pid = pcb[p].pid BY <1>1, <1>3, SanoAlLlegar
<1>5. EsSeq(aCPU) /\ Len(aCPU) \in Nat /\ Len(aKernel) \in Nat BY DEF CInv, Formas, EsSeq
<1>6. /\ EsSeq(aCPU') /\ Len(aCPU') = Len(aCPU) + 1
      /\ \A i \in 1 .. Len(aCPU) : aCPU'[i] = aCPU[i]
      /\ aCPU'[Len(aCPU) + 1] = c
   BY <1>2, <1>5, AlFinal
<1>7. \A i \in 1 .. Len(aCPU') : i \in 1 .. Len(aCPU) \/ i = Len(aCPU) + 1 BY <1>5, <1>6
<1>8. Formas'
   <2>1. \A i \in 1 .. Len(aCPU') : Sano(aCPU'[i]) BY <1>4, <1>6, <1>7 DEF CInv, Formas
   <2> QED BY <1>2, <1>6, <2>1 DEF CInv, Formas, EsSeq
<1>9. UnaVuelta'
   <2> SUFFICES ASSUME ~atascada PROVE UnaVuelta' BY <1>2 DEF UnaVuelta
   <2>1. /\ Len(aCPU) + EnElCiclo + Len(aKernel) <= 0
         /\ \A q \in Pids : pcb[q].pid = q
      BY <1>2 DEF CInv, UnaVuelta
   <2>2. Len(aCPU) = 0 /\ Len(aKernel) = 0 /\ paso # "ciclo" BY <1>5, <2>1 DEF EnElCiclo
   <2>3. p # -1 BY CPUAssumption
   <2>4. \A i \in 1 .. Len(aCPU') : aCPU'[i].pid = p BY <1>4, <1>6, <1>7, <2>1, <2>2
   <2> QED BY <1>2, <1>6, <2>1, <2>2, <2>3, <2>4 DEF UnaVuelta, EnElCiclo
<1> QED BY <1>8, <1>9 DEF CInv

LEMMA RecibeCInv == CInv /\ Recibe => CInv'
<1> SUFFICES ASSUME CInv, Recibe PROVE CInv' OBVIOUS
<1>1. /\ enExec # -1 /\ enExec' = -1 /\ aKernel # <<>> /\ aKernel' = Tail(aKernel)
      /\ UNCHANGED <<aCPU, paso, pcb_actual, continuar_ejecucion, memoria, atascada>>
      /\ Finaliza \/ Atiende
   BY DEF Recibe
<1>2. enExec \in Pids BY <1>1 DEF CInv, Formas
<1>3. /\ Len(aKernel) > 0 /\ Head(aKernel) = aKernel[1]
      /\ EsSeq(aKernel') /\ Len(aKernel') = Len(aKernel) - 1
      /\ \A i \in 1 .. Len(aKernel) - 1 : aKernel'[i] = aKernel[i + 1]
   BY <1>1, ElPrimero DEF CInv, Formas
<1>4. Len(aKernel) \in Nat /\ Len(aCPU) \in Nat BY DEF CInv, Formas, EsSeq
<1>5. PICK r : r = aKernel[1] OBVIOUS
<1>6. Respuesta(r) /\ 1 \in 1 .. Len(aKernel) BY <1>3, <1>4, <1>5 DEF CInv, Formas
<1>7. PICK ctx : /\ pcb' = [pcb EXCEPT ![enExec] = ctx]
                 /\ Sano(ctx) /\ ctx.pid = r.ctx.pid
                 /\ terminados' \subseteq Pids
   <2>1. CASE Finaliza
      <3>1. pcb' = [pcb EXCEPT ![enExec] = r.ctx] /\ terminados' = terminados \cup {enExec}
         BY <1>3, <1>5, <2>1 DEF Finaliza, actualizarContextoEjec
      <3>2. Sano(r.ctx) BY <1>6 DEF Respuesta
      <3> QED BY <1>2, <3>1, <3>2 DEF CInv, Formas
   <2>2. CASE Atiende
      <3>1. PICK c \in Servicio(r) : pcb' = [pcb EXCEPT ![enExec] = c]
         BY <1>3, <1>5, <2>2 DEF Atiende
      <3>2. Sano(c) /\ c.pid = r.ctx.pid BY <1>6, SanoServido
      <3>3. terminados' \subseteq Pids BY <2>2 DEF Atiende, CInv, Formas
      <3> QED BY <3>1, <3>2, <3>3
   <2> QED BY <1>1, <2>1, <2>2
<1>8. /\ pcb' = [p \in Pids |-> pcb'[p]] /\ pcb'[enExec] = ctx
      /\ \A p \in Pids : p # enExec => pcb'[p] = pcb[p]
   BY <1>2, <1>7 DEF CInv, Formas
<1>9. \A i \in 1 .. Len(aKernel') : i \in 1 .. Len(aKernel) - 1 /\ i + 1 \in 1 .. Len(aKernel)
   BY <1>3, <1>4
<1>10. Formas'
   <2>1. \A p \in Pids : Sano(pcb'[p]) BY <1>7, <1>8 DEF CInv, Formas
   <2>2. \A i \in 1 .. Len(aKernel') : Respuesta(aKernel'[i]) BY <1>3, <1>9 DEF CInv, Formas
   <2> QED BY <1>1, <1>3, <1>7, <1>8, <2>1, <2>2 DEF CInv, Formas, EsSeq
<1>11. UnaVuelta'
   <2> SUFFICES ASSUME ~atascada PROVE UnaVuelta' BY <1>1 DEF UnaVuelta
   <2>1. /\ Len(aCPU) + EnElCiclo + Len(aKernel) <= 1
         /\ r.ctx.pid = enExec
         /\ \A p \in Pids : pcb[p].pid = p
      BY <1>1, <1>5, <1>6 DEF CInv, UnaVuelta
   <2>2. Len(aCPU) = 0 /\ Len(aKernel) = 1 /\ paso # "ciclo" BY <1>3, <1>4, <2>1 DEF EnElCiclo
   <2>3. Len(aKernel') = 0 BY <1>3, <2>2
   <2>4. \A p \in Pids : pcb'[p].pid = p BY <1>7, <1>8, <2>1
   <2>5. paso' # "ciclo" /\ Len(aCPU') = 0 /\ enExec' = -1 BY <1>1, <2>2
   <2>6. /\ \A i \in 1 .. Len(aCPU') : aCPU'[i].pid = enExec'
         /\ \A i \in 1 .. Len(aKernel') : aKernel'[i].ctx.pid = enExec'
      BY <2>3, <2>5
   <2> QED BY <2>3, <2>4, <2>5, <2>6 DEF UnaVuelta, EnElCiclo
<1> QED BY <1>10, <1>11 DEF CInv

-----------------------------------------------------------------------------
(* The theorems. *)

\* The contexts keep their shape, and one of them goes round.
THEOREM CicloInductivo == Spec => []CInv
<1>1. CInv /\ [Next]_vars => CInv'
   <2> SUFFICES ASSUME CInv, [Next]_vars PROVE CInv' OBVIOUS
   <2>1. CASE UNCHANGED vars
      <3>1. UNCHANGED <<pcb, enExec, terminados, aCPU, aKernel, paso, pcb_actual,
                        continuar_ejecucion, memoria, atascada>>
         BY <2>1 DEF vars
      <3>2. Formas' BY <3>1 DEF CInv, Formas
      <3>3. UnaVuelta' BY <3>1 DEF CInv, UnaVuelta, EnElCiclo
      <3> QED BY <3>2, <3>3 DEF CInv
   <2> QED BY <2>1, CPUCInv, EnvioCInv, RecibeCInv DEF Next
<1> QED BY <1>1, InitCInv, PTL DEF Spec

\* Every context has registers of their sizes and a table of segments in the
\* memory, wherever it is: in the Kernel, in a socket or in the CPU.
THEOREM ContextosSanos == Spec => []TypeOK
<1>1. CInv => TypeOK
   <2> SUFFICES ASSUME CInv PROVE TypeOK OBVIOUS
   <2>1. \A c \in Contextos : Sano(c)
      <3>1. \A c \in ToSet(aCPU) : Sano(c) BY DEF ToSet, CInv, Formas, EsSeq
      <3>2. \A r \in ToSet(aKernel) : Sano(r.ctx)
         <4>1. \A i \in 1 .. Len(aKernel) : Sano(aKernel[i].ctx) BY DEF CInv, Formas, Respuesta
         <4>2. DOMAIN aKernel = 1 .. Len(aKernel) BY DEF CInv, Formas, EsSeq
         <4> QED BY <4>1, <4>2 DEF ToSet
      <3>3. \A p \in Pids : Sano(pcb[p]) BY DEF CInv, Formas
      <3> QED BY <3>1, <3>2, <3>3 DEF Contextos
   <2>2. \A c : Sano(c) =>
            /\ c.pid \in Pids
            /\ c.program_counter \in 0 .. Len(c.instrucciones)
            /\ \A r \in Registros : Len(c.registros[r]) = size_of_registro(r)
            /\ Len(c.tabla) > 0
            /\ \A e \in ToSet(c.tabla) : Rango(e.base, e.size) \subseteq Celdas
      <3> SUFFICES ASSUME NEW c, Sano(c)
                   PROVE  \A e \in ToSet(c.tabla) : Rango(e.base, e.size) \subseteq Celdas
         BY DEF Sano, RegistrosBien, TablaBien
      <3>1. TablaBien(c.tabla) BY DEF Sano
      <3>2. DOMAIN c.tabla = 1 .. Len(c.tabla) BY <3>1 DEF TablaBien
      <3> QED BY <3>1, <3>2 DEF TablaBien, ToSet
   <2>3. /\ enExec \in Pids \cup {-1} /\ terminados \subseteq Pids
         /\ paso \in {"espera", "ciclo", "muerto"} /\ continuar_ejecucion \in BOOLEAN
         /\ DOMAIN memoria = Celdas /\ atascada \in BOOLEAN
      BY DEF CInv, Formas
   <2> QED BY <2>1, <2>2, <2>3 DEF TypeOK
<1> QED BY <1>1, CicloInductivo, PTL

\* Until an instruction fails and the cycle goes on, the Kernel never takes the
\* answer of one process for that of another.
THEOREM UnSoloContextoViaja == Spec => []UnContextoEnVuelo
<1>1. CInv => UnContextoEnVuelo
   <2> SUFFICES ASSUME CInv, ~atascada PROVE UnContextoEnVuelo BY DEF UnContextoEnVuelo
   <2>1. /\ Len(aCPU) + EnElCiclo + Len(aKernel) <= IF enExec = -1 THEN 0 ELSE 1
         /\ \A i \in 1 .. Len(aCPU) : aCPU[i].pid = enExec
         /\ \A i \in 1 .. Len(aKernel) : aKernel[i].ctx.pid = enExec
         /\ paso = "ciclo" => pcb_actual.pid = enExec
      BY DEF CInv, UnaVuelta
   <2>2. Cardinality(EnCPU) = EnElCiclo
      BY FS_EmptySet, FS_Singleton DEF EnCPU, EnElCiclo
   <2>3. DOMAIN aCPU = 1 .. Len(aCPU) /\ DOMAIN aKernel = 1 .. Len(aKernel)
      BY DEF CInv, Formas, EsSeq
   <2>4. \A c \in ToSet(aCPU) : c.pid = enExec BY <2>1, <2>3 DEF ToSet
   <2>5. \A r \in ToSet(aKernel) : r.ctx.pid = enExec BY <2>1, <2>3 DEF ToSet
   <2>6. EnCPU \subseteq {enExec} BY <2>1 DEF EnCPU
   <2> QED BY <2>1, <2>2, <2>4, <2>5, <2>6 DEF UnContextoEnVuelo
<1> QED BY <1>1, CicloInductivo, PTL

-----------------------------------------------------------------------------
(* CicloCPU implements MaquinaPorProceso. *)

\* two contexts of which the machine of the process says the same
Igual(c, d) ==
    /\ c.pid = d.pid /\ c.instrucciones = d.instrucciones
    /\ c.program_counter = d.program_counter /\ c.tabla = d.tabla
    /\ \A r \in Registros \ {"CX", "DX"} : c.registros[r] = d.registros[r]

\* what the Kernel and the CPU say of a process is the same but for its registers
\* and its program counter
EnViaje ==
    /\ enExec \notin terminados
    /\ \A p \in Pids :
          /\ Sano(Vigente(p)) /\ Vigente(p).pid = p
          /\ Vigente(p).instrucciones = pcb[p].instrucciones
          /\ Vigente(p).tabla = pcb[p].tabla

InstrDe(c) == c.instrucciones[c.program_counter + 1]

\* an answer is about the instruction its context stopped at
Fiel(r) ==
    /\ r.codigo = "REQ_CREATE_SEGMENT" =>
          /\ InstrDe(r.ctx).comando = "CREATE_SEGMENT"
          /\ r.args[1] = InstrDe(r.ctx).id /\ r.args[2] = InstrDe(r.ctx).size
    /\ r.codigo = "REQ_DELETE_SEGMENT" =>
          InstrDe(r.ctx).comando = "DELETE_SEGMENT" /\ r.args[1] = InstrDe(r.ctx).id
    /\ r.codigo \notin Errores \cup {"REQ_EXIT", "REQ_CREATE_SEGMENT", "REQ_DELETE_SEGMENT"} =>
          InstrDe(r.ctx).comando \in {"I/O", "WAIT", "SIGNAL", "YIELD", "F_OPEN", "F_CLOSE",
                                      "F_SEEK", "F_TRUNCATE", "F_READ", "F_WRITE"}

Fieles == \A i \in 1 .. Len(aKernel) : Fiel(aKernel[i])

\* segment 0 is the first, and an id is in one entry
EnOrden(t) ==
    /\ t[1] = entradaSegm0
    /\ \A k \in 2 .. Len(t) : t[k].id # 0 /\ t[k].base \in Nat /\ t[k].size \in Nat
    /\ \A k, l \in 1 .. Len(t) : t[k].id = t[l].id => k = l

\* the first n instructions create the segment and do not delete it
Creado(pr, n, id) ==
    \E j \in 1 .. n :
        /\ pr[j].comando = "CREATE_SEGMENT" /\ pr[j].id = id
        /\ \A k \in j + 1 .. n : ~(pr[k].comando = "DELETE_SEGMENT" /\ pr[k].id = id)

Tablas ==
    \A p \in Pids \ terminados :
        /\ EnOrden(pcb[p].tabla)
        /\ \A k \in 2 .. Len(pcb[p].tabla) :
              Creado(pcb[p].instrucciones, Vigente(p).program_counter, pcb[p].tabla[k].id)

Aparte(e, f) == Rango(e.base, e.size) \cap Rango(f.base, f.size) = {}

\* segments share no cell, but for segment 0, which is of all
Apartados ==
    \A p, q \in Pids \ terminados :
        \A k \in 1 .. Len(pcb[p].tabla), l \in 1 .. Len(pcb[q].tabla) :
            <<p, k>> # <<q, l>> => (k = 1 /\ l = 1) \/ Aparte(pcb[p].tabla[k], pcb[q].tabla[l])

MaqInv == ~atascada => EnViaje /\ Fieles /\ Tablas /\ Apartados

-----------------------------------------------------------------------------
\* Where the context of a process is.
Vista(p) ==
    /\ enExec # p => Vigente(p) = pcb[p]
    /\ enExec = p /\ aCPU # <<>> => Vigente(p) = aCPU[1]
    /\ enExec = p /\ aCPU = <<>> /\ aKernel # <<>> => Vigente(p) = aKernel[1].ctx
    /\ enExec = p /\ aCPU = <<>> /\ aKernel = <<>> => Vigente(p) = pcb_actual

\* The context that counts for each process, by where it is.
LEMMA Vistas == CInv => \A p \in Pids : Vista(p)
<1> SUFFICES ASSUME CInv, NEW p \in Pids PROVE Vista(p) OBVIOUS
<1>1. /\ aCPU # <<>> => Head(aCPU) = aCPU[1]
      /\ aKernel # <<>> => Head(aKernel) = aKernel[1]
   BY ElPrimero DEF CInv, Formas
<1>2. CASE enExec # p BY <1>2 DEF Vista, Vigente
<1>3. CASE enExec = p /\ aCPU # <<>> BY <1>1, <1>3 DEF Vista, Vigente
<1>4. CASE enExec = p /\ aCPU = <<>> /\ aKernel # <<>> BY <1>1, <1>4 DEF Vista, Vigente
<1>5. CASE enExec = p /\ aCPU = <<>> /\ aKernel = <<>> BY <1>5 DEF Vista, Vigente
<1> QED BY <1>2, <1>3, <1>4, <1>5

\* ... and after a step.
LEMMA VistasPrimadas == CInv' => \A p \in Pids : Vista(p)'
<1>1. (CInv => \A p \in Pids : Vista(p))' BY Vistas, PTL
<1> QED BY <1>1

\* The volatile registers are those that serializarPCB changes.
LEMMA IgualAlLlegar ==
    ASSUME NEW c, Sano(c)
    PROVE  Igual(serializarPCB(c), c)
<1>1. PICK d : d = serializarPCB(c) OBVIOUS
<1>2. d = [c EXCEPT !.registros = serializarRegistros(c.registros)] BY <1>1 DEF serializarPCB
<1>3. /\ d.pid = c.pid /\ d.program_counter = c.program_counter
      /\ d.instrucciones = c.instrucciones /\ d.tabla = c.tabla
      /\ d.registros = serializarRegistros(c.registros)
   BY <1>2 DEF Sano, Campos
<1>4. \A r \in Registros \ {"CX", "DX"} : d.registros[r] = c.registros[r]
   BY <1>3 DEF serializarRegistros, RegistroEnviado
<1> QED BY <1>1, <1>3, <1>4 DEF Igual

\* The least of one number.
LEMMA MinDeUno == \A n \in Nat : Min({n}) = n
<1> SUFFICES ASSUME NEW n \in Nat PROVE Min({n}) = n OBVIOUS
<1>1. n \in {n} /\ \A y \in {n} : n <= y OBVIOUS
<1> QED BY <1>1 DEF Min

\* The segments of the machine are those of the tables of the Kernel.
CualesSegmentos ==
    \A x : x \in SegmentosVivos <=>
              \E p \in Pids \ terminados : \E k \in 2 .. Len(pcb[p].tabla) :
                 x = <<p, pcb[p].tabla[k].id>>

SusCeldas ==
    \A p \in Pids \ terminados : \A k \in 2 .. Len(pcb[p].tabla) :
          segmentosDe[<<p, pcb[p].tabla[k].id>>]
             = Leidas(pcb[p].tabla[k].base, pcb[p].tabla[k].size)

SegmentosPorTabla ==
    /\ CualesSegmentos /\ SusCeldas
    /\ segmentosDe = [x \in SegmentosVivos |-> segmentosDe[x]]

\* An id names one entry, so that the segments are the entries of the tables.
LEMMA LosSegmentos == CInv /\ EnViaje /\ Tablas => SegmentosPorTabla
<1> SUFFICES ASSUME CInv, EnViaje, Tablas PROVE SegmentosPorTabla OBVIOUS
<1>1. \A p \in Pids : Vigente(p).tabla = pcb[p].tabla BY DEF EnViaje
<1>2. \A x : x \in SegmentosVivos <=>
              \E p \in Pids \ terminados : \E k \in 2 .. Len(pcb[p].tabla) :
                 x = <<p, pcb[p].tabla[k].id>>
   <2> HIDE DEF Vigente
   <2> QED BY <1>1 DEF SegmentosVivos
<1>3. segmentosDe = [x \in SegmentosVivos |-> segmentosDe[x]] BY DEF segmentosDe
<1>4. ASSUME NEW p \in Pids \ terminados, NEW k \in 2 .. Len(pcb[p].tabla)
      PROVE  segmentosDe[<<p, pcb[p].tabla[k].id>>]
                = Leidas(pcb[p].tabla[k].base, pcb[p].tabla[k].size)
   <2>1. PICK t : t = pcb[p].tabla OBVIOUS
   <2>2. t \in Seq(Entradas) /\ EnOrden(t) BY <1>4, <2>1 DEF CInv, Formas, Sano, TablaBien, Tablas
   <2>3. DOMAIN t = 1 .. Len(t) /\ Len(t) \in Nat BY <2>2
   <2>4. k \in 1 .. Len(t) /\ k \in Nat BY <2>1, <2>3
   <2>5. EnTabla(t, t[k].id) = {k} BY <2>2, <2>3, <2>4 DEF EnTabla, EnOrden
   <2>6. Min(EnTabla(t, t[k].id)) = k BY <2>4, <2>5, MinDeUno
   <2>7. PICK x : x = <<p, t[k].id>> OBVIOUS
   <2>8. x \in SegmentosVivos BY <1>2, <2>1, <2>7
   <2>9. Vigente(p).tabla = t BY <1>1, <2>1
   <2>10. x[1] = p /\ x[2] = t[k].id BY <2>7
   <2>11. segmentosDe[x] = LET u == Vigente(x[1]).tabla
                               e == u[Min(EnTabla(u, x[2]))]
                           IN  Leidas(e.base, e.size)
      BY <2>8 DEF segmentosDe
   <2>12. segmentosDe[x] = Leidas(t[k].base, t[k].size) BY <2>6, <2>9, <2>10, <2>11
   <2> QED BY <2>1, <2>7, <2>12
<1> QED BY <1>2, <1>3, <1>4 DEF SegmentosPorTabla, CualesSegmentos, SusCeldas

\* ... and after a step.
LEMMA LosSegmentosPrimados == CInv' /\ EnViaje' /\ Tablas' => SegmentosPorTabla'
<1>1. (CInv /\ EnViaje /\ Tablas => SegmentosPorTabla)' BY LosSegmentos, PTL
<1> QED BY <1>1

\* A step that leaves the tables and Memoria leaves the segments.
LEMMA MismosSegmentos ==
    ASSUME SegmentosPorTabla, SegmentosPorTabla',
           UNCHANGED <<terminados, memoria>>,
           \A p \in Pids : pcb'[p].tabla = pcb[p].tabla
    PROVE  UNCHANGED <<segmentosDe, segmentoComun>>
<1>1. SegmentosVivos' = SegmentosVivos
   <2>1. ASSUME NEW x PROVE x \in SegmentosVivos' <=> x \in SegmentosVivos
      <3>1. x \in SegmentosVivos <=>
              \E p \in Pids \ terminados : \E k \in 2 .. Len(pcb[p].tabla) :
                 x = <<p, pcb[p].tabla[k].id>>
         <4>1. CualesSegmentos BY DEF SegmentosPorTabla
         <4> QED BY <4>1 DEF CualesSegmentos
      <3>2. x \in SegmentosVivos' <=>
              \E p \in Pids \ terminados' : \E k \in 2 .. Len(pcb'[p].tabla) :
                 x = <<p, pcb'[p].tabla[k].id>>
         <4>1. CualesSegmentos' BY DEF SegmentosPorTabla
         <4> QED BY <4>1 DEF CualesSegmentos
      <3>3. terminados' = terminados /\ \A p \in Pids \ terminados : pcb'[p].tabla = pcb[p].tabla
         OBVIOUS
      <3> QED BY <3>1, <3>2, <3>3
   <2> QED BY <2>1
<1>2. \A b, n : Leidas(b, n)' = Leidas(b, n) BY DEF Leidas
<1>3. ASSUME NEW x \in SegmentosVivos PROVE segmentosDe'[x] = segmentosDe[x]
   <2>0. CualesSegmentos /\ SusCeldas BY DEF SegmentosPorTabla
   <2>1. PICK p \in Pids \ terminados : \E k \in 2 .. Len(pcb[p].tabla) :
                 x = <<p, pcb[p].tabla[k].id>>
      BY <2>0 DEF CualesSegmentos
   <2>2. PICK k \in 2 .. Len(pcb[p].tabla) : x = <<p, pcb[p].tabla[k].id>> BY <2>1
   <2>3. PICK e : e = pcb[p].tabla[k] OBVIOUS
   <2>4. segmentosDe[x] = Leidas(e.base, e.size) BY <2>0, <2>2, <2>3 DEF SusCeldas
   <2>5. segmentosDe'[x] = Leidas(e.base, e.size)'
      <3>1. SusCeldas' BY DEF SegmentosPorTabla
      <3> QED BY <2>2, <2>3, <3>1 DEF SusCeldas
   <2> QED BY <1>2, <2>4, <2>5
<1>4. segmentosDe' = segmentosDe
   <2>1. segmentosDe = [x \in SegmentosVivos |-> segmentosDe[x]] BY DEF SegmentosPorTabla
   <2>2. segmentosDe' = [x \in SegmentosVivos' |-> segmentosDe'[x]] BY DEF SegmentosPorTabla
   <2> QED BY <1>1, <1>3, <2>1, <2>2
<1>5. segmentoComun' = segmentoComun BY DEF segmentoComun, Leidas
<1> QED BY <1>4, <1>5

-----------------------------------------------------------------------------
(* What a step does to the contexts. *)

\* the context of q keeps its program and its table, wherever it is
Conserva(q) ==
    /\ Sano(Vigente(q))' /\ Vigente(q)'.pid = q
    /\ Vigente(q)'.instrucciones = Vigente(q).instrucciones
    /\ Vigente(q)'.tabla = Vigente(q).tabla
    /\ pcb'[q].instrucciones = pcb[q].instrucciones
    /\ pcb'[q].tabla = pcb[q].tabla

\* ... and its registers and its place
NoCorre(q) ==
    /\ Vigente(q)'.program_counter = Vigente(q).program_counter
    /\ \A r \in Registros \ {"CX", "DX"} : Vigente(q)'.registros[r] = Vigente(q).registros[r]

\* an instruction of q that does not touch the tables
Pasa(q) ==
    /\ Vigente(q).program_counter < Len(Vigente(q).instrucciones)
    /\ InstrDe(Vigente(q)).comando # "DELETE_SEGMENT"
    /\ Vigente(q)'.program_counter = Vigente(q).program_counter + 1

\* One more instruction, that is not the end of the segment.
LEMMA CreadoQueda ==
    ASSUME NEW pr, NEW n \in Nat, NEW id, Creado(pr, n, id),
           ~(pr[n + 1].comando = "DELETE_SEGMENT" /\ pr[n + 1].id = id)
    PROVE  Creado(pr, n + 1, id)
<1>1. PICK j \in 1 .. n :
          /\ pr[j].comando = "CREATE_SEGMENT" /\ pr[j].id = id
          /\ \A k \in j + 1 .. n : ~(pr[k].comando = "DELETE_SEGMENT" /\ pr[k].id = id)
   BY DEF Creado
<1>2. \A k \in j + 1 .. n + 1 : k \in j + 1 .. n \/ k = n + 1 OBVIOUS
<1>3. j \in 1 .. n + 1 OBVIOUS
<1> QED BY <1>1, <1>2, <1>3 DEF Creado

\* Parts of MaqInv after a step, from what the tables and the answers are then.
LEMMA TablasDespues ==
    ASSUME \A p \in Pids \ terminados' :
              /\ EnOrden(pcb'[p].tabla)
              /\ \A k \in 2 .. Len(pcb'[p].tabla) :
                    Creado(pcb'[p].instrucciones, Vigente(p)'.program_counter, pcb'[p].tabla[k].id)
    PROVE  Tablas'
BY DEF Tablas, EnOrden

LEMMA ApartadosDespues ==
    ASSUME \A p, q \in Pids \ terminados' :
              \A k \in 1 .. Len(pcb'[p].tabla), l \in 1 .. Len(pcb'[q].tabla) :
                 <<p, k>> # <<q, l>> =>
                    (k = 1 /\ l = 1) \/ Aparte(pcb'[p].tabla[k], pcb'[q].tabla[l])
    PROVE  Apartados'
BY DEF Apartados, Aparte

LEMMA FielesDespues ==
    ASSUME \A i \in 1 .. Len(aKernel') : Fiel(aKernel'[i])
    PROVE  Fieles'
BY DEF Fieles, Fiel, InstrDe

\* A step after which each process has the table it had, and no instruction undone.
LEMMA TablasQuedan ==
    ASSUME EnViaje, Tablas, Apartados, UNCHANGED terminados, enExec' \notin terminados',
           \A q \in Pids : Conserva(q),
           \A q \in Pids : \/ Vigente(q)'.program_counter = Vigente(q).program_counter
                           \/ Pasa(q)
    PROVE  EnViaje' /\ Tablas' /\ Apartados' /\ UNCHANGED <<programaDe, vivos>>
<1>1. EnViaje' BY DEF EnViaje, Conserva
<1>2. \A q \in Pids : pcb'[q].instrucciones = pcb[q].instrucciones /\ pcb'[q].tabla = pcb[q].tabla
   BY DEF Conserva
<1>3. ASSUME NEW p \in Pids \ terminados, NEW k \in 2 .. Len(pcb[p].tabla)
      PROVE  Creado(pcb[p].instrucciones, Vigente(p)'.program_counter, pcb[p].tabla[k].id)
   <2>1. PICK c : c = Vigente(p) OBVIOUS
   <2>2. /\ c.instrucciones = pcb[p].instrucciones /\ c.program_counter \in Nat
      BY <1>3, <2>1 DEF EnViaje, Sano
   <2>3. Creado(c.instrucciones, c.program_counter, pcb[p].tabla[k].id)
      BY <1>3, <2>1, <2>2 DEF Tablas
   <2>4. CASE Pasa(p)
      <3>1. /\ InstrDe(c).comando # "DELETE_SEGMENT"
            /\ Vigente(p)'.program_counter = c.program_counter + 1
         BY <2>1, <2>4 DEF Pasa
      <3>2. PICK pr, n, id : /\ pr = c.instrucciones /\ n = c.program_counter
                             /\ id = pcb[p].tabla[k].id
         OBVIOUS
      <3>3. n \in Nat /\ Creado(pr, n, id) /\ pr[n + 1].comando # "DELETE_SEGMENT"
         BY <2>2, <2>3, <3>1, <3>2 DEF InstrDe
      <3>4. Creado(pr, n + 1, id) BY <3>3, CreadoQueda
      <3> QED BY <2>2, <3>1, <3>2, <3>4
   <2>5. CASE Vigente(p)'.program_counter = c.program_counter BY <2>2, <2>3, <2>5
   <2> QED BY <2>1, <2>4, <2>5
<1>4. Tablas'
   <2>1. ASSUME NEW p \in Pids \ terminados'
         PROVE  /\ EnOrden(pcb'[p].tabla)
                /\ \A k \in 2 .. Len(pcb'[p].tabla) :
                      Creado(pcb'[p].instrucciones, Vigente(p)'.program_counter, pcb'[p].tabla[k].id)
      <3>1. /\ p \in Pids \ terminados /\ pcb'[p].tabla = pcb[p].tabla
            /\ pcb'[p].instrucciones = pcb[p].instrucciones
         BY <1>2
      <3>2. EnOrden(pcb[p].tabla) BY <3>1 DEF Tablas
      <3> QED BY <1>3, <3>1, <3>2
   <2> QED BY <2>1, TablasDespues
<1>5. Apartados'
   <2>1. terminados' = terminados /\ \A p \in Pids : pcb'[p].tabla = pcb[p].tabla BY <1>2
   <2> QED BY <2>1, ApartadosDespues DEF Apartados
<1>6. UNCHANGED programaDe BY <1>2 DEF programaDe
<1>7. UNCHANGED vivos BY DEF vivos
<1> QED BY <1>1, <1>4, <1>5, <1>6, <1>7

\* ... and that leaves the memory, leaves the segments.
LEMMA TablasIguales ==
    ASSUME CInv, CInv', EnViaje, EnViaje', Tablas, Tablas', UNCHANGED <<terminados, memoria>>,
           \A q \in Pids : Conserva(q)
    PROVE  UNCHANGED <<segmentosDe, segmentoComun>>
<1>1. SegmentosPorTabla BY LosSegmentos
<1>2. SegmentosPorTabla' BY LosSegmentosPrimados
<1>3. \A q \in Pids : pcb'[q].tabla = pcb[q].tabla BY DEF Conserva
<1> QED BY <1>1, <1>2, <1>3, MismosSegmentos

\* A step that no program sees.
LEMMA Quieto ==
    ASSUME CInv, CInv', EnViaje, Tablas, Apartados, UNCHANGED <<terminados, memoria>>,
           enExec' \notin terminados',
           \A q \in Pids : Conserva(q) /\ NoCorre(q)
    PROVE  /\ EnViaje' /\ Tablas' /\ Apartados'
           /\ UNCHANGED <<programaDe, contadorDe, registrosDe, vivos, segmentosDe, segmentoComun>>
<1>1. /\ \A q \in Pids : Conserva(q)
      /\ \A q \in Pids : Vigente(q)'.program_counter = Vigente(q).program_counter
      /\ terminados' = terminados /\ memoria' = memoria
   BY DEF NoCorre
<1>2. EnViaje' /\ Tablas' /\ Apartados' /\ UNCHANGED <<programaDe, vivos>>
   BY <1>1, TablasQuedan
<1>3. UNCHANGED <<segmentosDe, segmentoComun>> BY <1>1, <1>2, TablasIguales
<1>4. UNCHANGED contadorDe BY <1>1 DEF contadorDe
<1>5. UNCHANGED registrosDe BY DEF registrosDe, NoCorre
<1> QED BY <1>2, <1>3, <1>4, <1>5

\* One more instruction of p.
LEMMA Avanza ==
    ASSUME CInv, EnViaje, Tablas, Apartados, UNCHANGED terminados,
           enExec' \notin terminados', NEW p \in Pids,
           \A q \in Pids : Conserva(q),
           \A q \in Pids \ {p} : NoCorre(q),
           Pasa(p)
    PROVE  /\ EnViaje' /\ Tablas' /\ Apartados'
           /\ UNCHANGED <<programaDe, vivos>>
           /\ contadorDe' = [contadorDe EXCEPT ![p] = @ + 1]
<1>1. \A q \in Pids : \/ Vigente(q)'.program_counter = Vigente(q).program_counter
                      \/ Pasa(q)
   BY DEF NoCorre
<1>2. EnViaje' /\ Tablas' /\ Apartados' /\ UNCHANGED <<programaDe, vivos>>
   BY <1>1, TablasQuedan
<1>3. contadorDe' = [contadorDe EXCEPT ![p] = @ + 1] BY DEF contadorDe, NoCorre, Pasa
<1> QED BY <1>2, <1>3

\* The machine of p is at the instruction its context is at.
LEMMA EnSuPrograma ==
    ASSUME EnViaje, NEW p \in Pids \ terminados,
           Vigente(p).program_counter < Len(Vigente(p).instrucciones),
           NEW comandos, InstrDe(Vigente(p)).comando \in comandos
    PROVE  Maquina!EnPrograma(p, comandos) /\ Maquina!Instr(p) = InstrDe(Vigente(p))
<1>1. PICK c : c = Vigente(p) OBVIOUS
<1>2. vivos[p] = TRUE BY DEF vivos
<1>3. programaDe[p] = c.instrucciones BY <1>1 DEF programaDe, EnViaje
<1>4. contadorDe[p] = c.program_counter BY <1>1 DEF contadorDe
<1>5. Maquina!Instr(p) = InstrDe(c) BY <1>3, <1>4 DEF Maquina!Instr, InstrDe
<1>6. Maquina!EnPrograma(p, comandos) BY <1>1, <1>2, <1>3, <1>4, <1>5 DEF Maquina!EnPrograma
<1> QED BY <1>1, <1>5, <1>6

-----------------------------------------------------------------------------
(* Where the contexts are, before and after each kind of step. *)

\* The sequence with no elements.
LEMMA Vacia == ASSUME NEW s, EsSeq(s), Len(s) = 0 PROVE s = <<>>
<1>1. s # <<>> => Len(s) > 0 BY ElPrimero
<1> QED BY <1>1

\* While the CPU is in its cycle, both sockets are empty.
LEMMA EnElCPU ==
    ASSUME CInv, ~atascada, EnViaje, paso = "ciclo"
    PROVE  /\ enExec \in Pids \ terminados /\ aCPU = <<>> /\ aKernel = <<>>
           /\ Sano(pcb_actual) /\ pcb_actual.pid = enExec
           /\ Vigente(enExec) = pcb_actual
           /\ \A q \in Pids \ {enExec} : Vigente(q) = pcb[q]
<1>1. /\ Len(aCPU) \in Nat /\ Len(aKernel) \in Nat /\ EsSeq(aCPU) /\ EsSeq(aKernel)
      /\ Sano(pcb_actual)
   BY DEF CInv, Formas, EsSeq
<1>2. /\ Len(aCPU) + 1 + Len(aKernel) <= IF enExec = -1 THEN 0 ELSE 1
      /\ pcb_actual.pid = enExec
   BY DEF CInv, UnaVuelta, EnElCiclo
<1>3. Len(aCPU) = 0 /\ Len(aKernel) = 0 BY <1>1, <1>2
<1>4. aCPU = <<>> /\ aKernel = <<>> BY <1>1, <1>3, Vacia
<1>5. enExec \in Pids BY <1>1, <1>2 DEF Sano
<1>6. enExec \notin terminados BY DEF EnViaje
<1>7. \A q \in Pids : Vista(q) BY Vistas
<1> QED BY <1>1, <1>2, <1>4, <1>5, <1>6, <1>7 DEF Vista

\* An instruction that the CPU does alone.
LEMMA TrasElCiclo ==
    ASSUME CInv', aCPU = <<>>, aKernel = <<>>,
           UNCHANGED <<pcb, enExec, aCPU, aKernel>>
    PROVE  /\ enExec \in Pids => Vigente(enExec)' = pcb_actual'
           /\ \A q \in Pids \ {enExec} : Vigente(q)' = pcb[q]
<1>1. \A q \in Pids : Vista(q)' BY VistasPrimadas
<1>2. aCPU' = <<>> /\ aKernel' = <<>> /\ enExec' = enExec /\ pcb' = pcb OBVIOUS
<1> QED BY <1>1, <1>2 DEF Vista

\* An answer to the Kernel.
LEMMA TrasResponder ==
    ASSUME CInv', aCPU = <<>>, aKernel = <<>>,
           UNCHANGED <<pcb, enExec, aCPU>>, NEW m, aKernel' = Append(aKernel, m)
    PROVE  /\ Len(aKernel') = 1 /\ aKernel'[1] = m
           /\ enExec \in Pids => Vigente(enExec)' = m.ctx
           /\ \A q \in Pids \ {enExec} : Vigente(q)' = pcb[q]
<1>1. \A q \in Pids : Vista(q)' BY VistasPrimadas
<1>2. aKernel' = <<m>> OBVIOUS
<1>3. aKernel' # <<>> /\ Len(aKernel') = 1 /\ aKernel'[1] = m BY <1>2
<1>4. aCPU' = <<>> /\ enExec' = enExec /\ pcb' = pcb OBVIOUS
<1> QED BY <1>1, <1>3, <1>4 DEF Vista

\* While an answer is in the socket, the CPU waits and there is no other.
LEMMA EnElSocket ==
    ASSUME CInv, ~atascada, EnViaje, aKernel # <<>>
    PROVE  /\ enExec \in Pids \ terminados /\ aCPU = <<>> /\ Len(aKernel) = 1
           /\ Respuesta(aKernel[1]) /\ aKernel[1].ctx.pid = enExec
           /\ Head(aKernel) = aKernel[1]
           /\ Vigente(enExec) = aKernel[1].ctx
           /\ \A q \in Pids \ {enExec} : Vigente(q) = pcb[q]
<1>1. /\ Len(aCPU) \in Nat /\ Len(aKernel) \in Nat /\ EsSeq(aCPU) /\ EsSeq(aKernel)
      /\ \A i \in 1 .. Len(aKernel) : Respuesta(aKernel[i])
   BY DEF CInv, Formas, EsSeq
<1>2. Len(aKernel) > 0 /\ Head(aKernel) = aKernel[1] BY <1>1, ElPrimero
<1>3. /\ Len(aCPU) + EnElCiclo + Len(aKernel) <= IF enExec = -1 THEN 0 ELSE 1
      /\ \A i \in 1 .. Len(aKernel) : aKernel[i].ctx.pid = enExec
   BY DEF CInv, UnaVuelta
<1>4. EnElCiclo \in Nat BY DEF EnElCiclo
<1>5. Len(aCPU) = 0 /\ Len(aKernel) = 1
   <2>1. PICK a, b, c : a = Len(aCPU) /\ b = EnElCiclo /\ c = Len(aKernel) OBVIOUS
   <2>2. a \in Nat /\ b \in Nat /\ c \in Nat /\ c > 0 BY <1>1, <1>2, <1>4, <2>1
   <2>3. a + b + c <= IF enExec = -1 THEN 0 ELSE 1 BY <1>3, <2>1
   <2>4. a + b + c <= 1 BY <2>2, <2>3
   <2>5. a = 0 /\ c = 1 BY <2>2, <2>4
   <2> QED BY <2>1, <2>5
<1>6. aCPU = <<>> BY <1>1, <1>5, Vacia
<1>7. Respuesta(aKernel[1]) /\ aKernel[1].ctx.pid = enExec BY <1>1, <1>3, <1>5
<1>8. enExec \in Pids BY <1>7 DEF Respuesta, Sano
<1>9. enExec \notin terminados BY DEF EnViaje
<1>10. \A q \in Pids : Vista(q) BY Vistas
<1> QED BY <1>2, <1>5, <1>6, <1>7, <1>8, <1>9, <1>10 DEF Vista

-----------------------------------------------------------------------------
(* The steps. *)

Simula == MaqInv' /\ [Maquina!Next]_(Maquina!vars)

\* A step in which nothing that a program sees changes.
LEMMA SinPaso ==
    ASSUME UNCHANGED atascada, EnViaje', Fieles', Tablas', Apartados',
           UNCHANGED <<programaDe, contadorDe, registrosDe, vivos, segmentosDe, segmentoComun>>
    PROVE  Simula
<1>1. MaqInv' BY DEF MaqInv
<1>2. UNCHANGED Maquina!vars BY DEF Maquina!vars
<1> QED BY <1>1, <1>2 DEF Simula

\* A step of a machine.
LEMMA ConPaso ==
    ASSUME atascada = FALSE, atascada' = FALSE, EnViaje', Fieles', Tablas', Apartados',
           NEW p \in Pids, Maquina!Paso(p)
    PROVE  Simula
<1>1. MaqInv' BY DEF MaqInv
<1>2. Maquina!Next BY DEF Maquina!Next
<1> QED BY <1>1, <1>2 DEF Simula

\* The contexts that nobody runs stay as they are.
LEMMA LosDemas ==
    ASSUME EnViaje, NEW q \in Pids, Sano(pcb[q]),
           Vigente(q) = pcb[q], Vigente(q)' = pcb[q], pcb'[q] = pcb[q]
    PROVE  Conserva(q) /\ NoCorre(q)
<1>1. Vigente(q).pid = q BY DEF EnViaje
<1>2. Sano(Vigente(q))' BY DEF Sano, RegistrosBien, TablaBien
<1>3. Conserva(q) BY <1>1, <1>2 DEF Conserva
<1>4. NoCorre(q) BY DEF NoCorre
<1> QED BY <1>3, <1>4

\* The context goes to the Kernel, and no program sees it.
LEMMA Responde ==
    ASSUME CInv, CInv', EnViaje, Tablas, Apartados, ~atascada, UNCHANGED atascada,
           NEW comandos, Ejecuta(comandos), NEW codigo, NEW args,
           Envia(codigo, pcb_actual, args),
           UNCHANGED <<pcb, enExec, terminados, aCPU, memoria>>,
           Fiel([codigo |-> codigo, ctx |-> pcb_actual, args |-> args])
    PROVE  Simula
<1>1. PICK p, c, d, m : /\ p = enExec /\ c = pcb_actual /\ d = serializarPCB(c)
                        /\ m = [codigo |-> codigo, ctx |-> d, args |-> args]
   OBVIOUS
<1>2. /\ p \in Pids \ terminados /\ aCPU = <<>> /\ aKernel = <<>>
      /\ Sano(c) /\ c.pid = p /\ Vigente(p) = c
      /\ \A q \in Pids \ {p} : Vigente(q) = pcb[q]
   BY <1>1, EnElCPU DEF Ejecuta
<1>3. aKernel' = Append(aKernel, m) BY <1>1 DEF Envia
<1>4. UNCHANGED <<pcb, enExec, aCPU>> OBVIOUS
<1>5. /\ Len(aKernel') = 1 /\ aKernel'[1] = m /\ Vigente(p)' = d
      /\ \A q \in Pids \ {p} : Vigente(q)' = pcb[q]
   BY <1>1, <1>2, <1>3, <1>4, TrasResponder
<1>6. Igual(d, c) /\ Sano(d) /\ d.pid = p
   BY <1>1, <1>2, IgualAlLlegar, SanoAlLlegar
<1>7. \A q \in Pids : Sano(pcb[q]) BY DEF CInv, Formas
<1>8. \A q \in Pids \ {p} : Conserva(q) /\ NoCorre(q) BY <1>2, <1>5, <1>7, LosDemas
<1>9. Sano(Vigente(p))' BY <1>5, <1>6 DEF Sano, RegistrosBien, TablaBien
<1>10. Conserva(p) BY <1>2, <1>5, <1>6, <1>9 DEF Conserva, Igual
<1>11. NoCorre(p) BY <1>2, <1>5, <1>6 DEF NoCorre, Igual
<1>12. enExec' \notin terminados' BY DEF EnViaje
<1>13. /\ EnViaje' /\ Tablas' /\ Apartados'
       /\ UNCHANGED <<programaDe, contadorDe, registrosDe, vivos, segmentosDe, segmentoComun>>
   BY <1>8, <1>10, <1>11, <1>12, Quieto
<1>14. InstrDe(d) = InstrDe(c) BY <1>6 DEF InstrDe, Igual
<1>15. Fiel(m) BY <1>1, <1>14 DEF Fiel
<1>16. Fieles' BY <1>5, <1>15, FielesDespues
<1> QED BY <1>13, <1>16, SinPaso

\* The requests.
PideAlgo ==
    \/ exe_Directo \/ exe_F_OPEN \/ exe_DELETE_SEGMENT \/ exe_CREATE_SEGMENT \/ exe_Archivo

LEMMA PideSimula ==
    ASSUME CInv, CInv', EnViaje, Tablas, Apartados, ~atascada, PideAlgo
    PROVE  Simula
<1>1. ASSUME NEW comandos, Ejecuta(comandos), NEW codigo, NEW args, Pide(codigo, args),
             Fiel([codigo |-> codigo, ctx |-> pcb_actual, args |-> args])
      PROVE  Simula
   BY <1>1, Responde DEF Pide
<1>2. InstrDe(pcb_actual) = instr BY DEF InstrDe, instr
<1>3. CASE exe_Directo
   <2>1. PICK cs : cs = {"I/O", "WAIT", "SIGNAL", "YIELD", "EXIT"} OBVIOUS
   <2>2. Ejecuta(cs) /\ Pide(Codigo[instr.comando], <<>>) BY <1>3, <2>1 DEF exe_Directo
   <2>3. instr.comando \in cs BY <2>2 DEF Ejecuta
   <2>4. Fiel([codigo |-> Codigo[instr.comando], ctx |-> pcb_actual, args |-> <<>>])
      BY <1>2, <2>1, <2>3 DEF Fiel, Codigo, Errores
   <2> QED BY <1>1, <2>2, <2>4
<1>4. CASE exe_F_OPEN
   <2>1. Ejecuta({"F_OPEN"}) /\ Pide("REQ_OPEN_FILE", <<instr.arch>>) BY <1>4 DEF exe_F_OPEN
   <2>2. instr.comando \in {"F_OPEN"} BY <2>1 DEF Ejecuta
   <2>3. Fiel([codigo |-> "REQ_OPEN_FILE", ctx |-> pcb_actual, args |-> <<instr.arch>>])
      BY <1>2, <2>2 DEF Fiel
   <2> QED BY <1>1, <2>1, <2>3
<1>5. CASE exe_DELETE_SEGMENT
   <2>1. Ejecuta({"DELETE_SEGMENT"}) /\ Pide("REQ_DELETE_SEGMENT", <<instr.id>>)
      BY <1>5 DEF exe_DELETE_SEGMENT
   <2>2. instr.comando \in {"DELETE_SEGMENT"} BY <2>1 DEF Ejecuta
   <2>3. Fiel([codigo |-> "REQ_DELETE_SEGMENT", ctx |-> pcb_actual, args |-> <<instr.id>>])
      BY <1>2, <2>2 DEF Fiel
   <2> QED BY <1>1, <2>1, <2>3
<1>6. CASE exe_CREATE_SEGMENT
   <2>1. /\ Ejecuta({"CREATE_SEGMENT"})
         /\ \/ Pide("ERR_INVALID_SEGMENT", <<>>)
            \/ Pide("REQ_CREATE_SEGMENT", <<instr.id, instr.size>>)
      BY <1>6 DEF exe_CREATE_SEGMENT
   <2>2. instr.comando \in {"CREATE_SEGMENT"} BY <2>1 DEF Ejecuta
   <2>3. Fiel([codigo |-> "ERR_INVALID_SEGMENT", ctx |-> pcb_actual, args |-> <<>>])
      BY DEF Fiel, Errores
   <2>4. Fiel([codigo |-> "REQ_CREATE_SEGMENT", ctx |-> pcb_actual,
               args |-> <<instr.id, instr.size>>])
      BY <1>2, <2>2 DEF Fiel
   <2> QED BY <1>1, <2>1, <2>3, <2>4
<1>7. CASE exe_Archivo
   <2>1. PICK cs : cs = {"F_CLOSE", "F_SEEK", "F_TRUNCATE"} OBVIOUS
   <2>2. Ejecuta(cs) /\ Pide(Codigo[instr.comando], <<instr.arch>>) BY <1>7, <2>1 DEF exe_Archivo
   <2>3. instr.comando \in cs BY <2>2 DEF Ejecuta
   <2>4. Fiel([codigo |-> Codigo[instr.comando], ctx |-> pcb_actual, args |-> <<instr.arch>>])
      BY <1>2, <2>1, <2>3 DEF Fiel, Codigo, Errores
   <2> QED BY <1>1, <2>2, <2>4
<1> QED BY <1>3, <1>4, <1>5, <1>6, <1>7 DEF PideAlgo

\* The translations that fail and end the process, and those that end in a request.
LEMMA FallaSimula ==
    ASSUME CInv, CInv', EnViaje, Tablas, Apartados, ~atascada, ~atascada',
           MOVFallido \/ ArchivoNoAbierto \/ exe_ArchivoConMemoria
    PROVE  Simula
<1>1. ASSUME NEW comandos, Ejecuta(comandos), NEW codigo \in Errores, NEW args,
             Envia(codigo, pcb_actual, args), NEW continuar \in BOOLEAN,
             Falla(pcb_actual, continuar),
             UNCHANGED <<pcb, enExec, terminados, aCPU, memoria>>
      PROVE  Simula
   <2>1. UNCHANGED atascada BY <1>1 DEF Falla, CInv, Formas
   <2>2. Fiel([codigo |-> codigo, ctx |-> pcb_actual, args |-> args]) BY <1>1 DEF Fiel, Errores
   <2> QED BY <1>1, <2>1, <2>2, Responde
<1>2. \A ctx : ~Falla(ctx, TRUE) BY DEF Falla
<1>3. ASSUME NEW m PROVE ~SegmentoInexistente(m) /\ ~FueraCallado(m)
   BY <1>2 DEF SegmentoInexistente, FueraCallado
<1>4. CASE MOVFallido
   <2>1. Ejecuta({"MOV_IN", "MOV_OUT"}) BY <1>4 DEF MOVFallido
   <2>2. PICK m : SegmentationFault(m) BY <1>3, <1>4 DEF MOVFallido
   <2>3. /\ Envia("ERR_SEGMENTATION_FAULT", pcb_actual, <<>>) /\ Falla(pcb_actual, FALSE)
         /\ UNCHANGED <<pcb, enExec, terminados, aCPU, memoria>>
      BY <2>2 DEF SegmentationFault
   <2> QED BY <1>1, <2>1, <2>3 DEF Errores
<1>5. CASE ArchivoNoAbierto
   <2>1. /\ Ejecuta({"F_CLOSE", "F_SEEK", "F_TRUNCATE", "F_READ", "F_WRITE"})
         /\ Envia("ERR_FILE_NOT_OPEN", pcb_actual, <<>>)
         /\ Falla(pcb_actual, instr.comando # "F_CLOSE")
         /\ UNCHANGED <<pcb, enExec, terminados, aCPU, memoria>>
      BY <1>5 DEF ArchivoNoAbierto
   <2>2. (instr.comando # "F_CLOSE") \in BOOLEAN OBVIOUS
   <2> QED BY <1>1, <2>1, <2>2 DEF Errores
<1>6. CASE exe_ArchivoConMemoria
   <2>1. Ejecuta({"F_READ", "F_WRITE"}) BY <1>6 DEF exe_ArchivoConMemoria
   <2>2. PICK args : Pide(Codigo[instr.comando], args) BY <1>3, <1>6 DEF exe_ArchivoConMemoria
   <2>3. instr.comando \in {"F_READ", "F_WRITE"} BY <2>1 DEF Ejecuta
   <2>4. Fiel([codigo |-> Codigo[instr.comando], ctx |-> pcb_actual, args |-> args])
      BY <2>3 DEF Fiel, Codigo, Errores, InstrDe, instr
   <2> QED BY <2>1, <2>2, <2>4, Responde DEF Pide
<1> QED BY <1>4, <1>5, <1>6

\* A context that moves, or that arrives as serializarPCB sends it.
LEMMA Viaje ==
    ASSUME CInv, CInv', EnViaje, Tablas, Apartados, Fieles',
           UNCHANGED <<pcb, terminados, memoria, atascada>>, enExec' \notin terminados',
           \A q \in Pids : \/ Vigente(q)' = Vigente(q)
                           \/ Vigente(q)' = serializarPCB(Vigente(q))
    PROVE  Simula
<1>1. ASSUME NEW q \in Pids PROVE Conserva(q) /\ NoCorre(q)
   <2>1. PICK c : c = Vigente(q) OBVIOUS
   <2>2. Sano(c) /\ c.pid = q BY <2>1 DEF EnViaje
   <2>3. PICK d : d = Vigente(q)' OBVIOUS
   <2>4. Sano(d) /\ Igual(d, c)
      <3>1. CASE d = c BY <2>2, <3>1 DEF Igual
      <3>2. CASE d = serializarPCB(c) BY <2>2, <3>2, SanoAlLlegar, IgualAlLlegar
      <3> QED BY <2>1, <2>3, <3>1, <3>2
   <2>5. Sano(Vigente(q))' BY <2>3, <2>4 DEF Sano, RegistrosBien, TablaBien
   <2>6. Conserva(q) BY <2>1, <2>2, <2>3, <2>4, <2>5 DEF Conserva, Igual
   <2>7. NoCorre(q) BY <2>1, <2>3, <2>4 DEF NoCorre, Igual
   <2> QED BY <2>6, <2>7
<1>2. /\ EnViaje' /\ Tablas' /\ Apartados'
      /\ UNCHANGED <<programaDe, contadorDe, registrosDe, vivos, segmentosDe, segmentoComun>>
   BY <1>1, Quieto
<1> QED BY <1>2, SinPaso

\* The CPU that dies leaves the machines as they are.
LEMMA MuereSimula ==
    ASSUME CInv, CInv', EnViaje, Fieles, Tablas, Apartados, Muere \/ MuerePorPuntero
    PROVE  Simula
<1>1. UNCHANGED <<pcb, enExec, terminados, aCPU, aKernel, pcb_actual, memoria, atascada>>
   BY DEF Muere, MuerePorPuntero
<1>2. \A q \in Pids : Vigente(q)' = Vigente(q) BY <1>1 DEF Vigente
<1>3. Fieles' BY <1>1, FielesDespues DEF Fieles
<1>4. enExec' \notin terminados' BY <1>1 DEF EnViaje
<1> QED BY <1>1, <1>2, <1>3, <1>4, Viaje

\* A context that arrives.
LEMMA RecibeSimula ==
    ASSUME CInv, CInv', EnViaje, Fieles, Tablas, Apartados, ~atascada, RecibePCB
    PROVE  Simula
<1>1. /\ aCPU # <<>> /\ pcb_actual' = Head(aCPU) /\ aCPU' = Tail(aCPU)
      /\ UNCHANGED <<pcb, enExec, terminados, aKernel, memoria, atascada>>
   BY DEF RecibePCB
<1>2. /\ Len(aCPU) \in Nat /\ Len(aKernel) \in Nat /\ EsSeq(aCPU) /\ EsSeq(aKernel)
   BY DEF CInv, Formas, EsSeq
<1>3. /\ Len(aCPU) > 0 /\ Head(aCPU) = aCPU[1] /\ EsSeq(aCPU') /\ Len(aCPU') = Len(aCPU) - 1
   BY <1>1, <1>2, ElPrimero
<1>4. Len(aCPU) = 1 /\ Len(aKernel) = 0
   <2>1. PICK a, b, c : a = Len(aCPU) /\ b = EnElCiclo /\ c = Len(aKernel) OBVIOUS
   <2>2. a \in Nat /\ b \in Nat /\ c \in Nat /\ a > 0 BY <1>2, <1>3, <2>1 DEF EnElCiclo
   <2>3. a + b + c <= IF enExec = -1 THEN 0 ELSE 1 BY <2>1 DEF CInv, UnaVuelta
   <2>4. a + b + c <= 1 BY <2>2, <2>3
   <2>5. a = 1 /\ c = 0 BY <2>2, <2>4
   <2> QED BY <2>1, <2>5
<1>5. aKernel = <<>> /\ aKernel' = <<>> /\ aCPU' = <<>>
   <2>1. Len(aCPU') = 0 BY <1>3, <1>4
   <2>2. aCPU' = <<>> BY <1>3, <2>1, Vacia
   <2> QED BY <1>1, <1>2, <1>4, <2>2, Vacia
<1>6. \A q \in Pids : Vigente(q)' = Vigente(q)
   <2>1. \A q \in Pids : Vista(q) BY Vistas
   <2>2. \A q \in Pids : Vista(q)' BY VistasPrimadas
   <2>3. ASSUME NEW q \in Pids PROVE Vigente(q)' = Vigente(q)
      <3>1. enExec = q => Vigente(q) = aCPU[1] BY <1>1, <2>1 DEF Vista
      <3>2. enExec # q => Vigente(q) = pcb[q] BY <2>1 DEF Vista
      <3>3. enExec = q => Vigente(q)' = pcb_actual' BY <1>1, <1>5, <2>2 DEF Vista
      <3>4. enExec # q => Vigente(q)' = pcb[q] BY <1>1, <2>2 DEF Vista
      <3> QED BY <1>1, <1>3, <3>1, <3>2, <3>3, <3>4
   <2> QED BY <2>3
<1>7. Fieles' BY <1>1, FielesDespues DEF Fieles
<1>8. enExec' \notin terminados' BY <1>1 DEF EnViaje
<1> QED BY <1>1, <1>6, <1>7, <1>8, Viaje

\* A context that the Kernel sends.
LEMMA EnvioSimula ==
    ASSUME CInv, CInv', EnViaje, Fieles, Tablas, Apartados, ~atascada,
           NEW p \in Pids, Envio(p)
    PROVE  Simula
<1>1. /\ enExec = -1 /\ enExec' = p /\ p \notin terminados
      /\ aCPU' = Append(aCPU, serializarPCB(pcb[p]))
      /\ UNCHANGED <<pcb, terminados, aKernel, memoria, atascada>>
   BY DEF Envio
<1>2. aCPU = <<>>
   <2>1. PICK a, b, c : a = Len(aCPU) /\ b = EnElCiclo /\ c = Len(aKernel) OBVIOUS
   <2>2. EsSeq(aCPU) /\ a \in Nat /\ b \in Nat /\ c \in Nat
      BY <2>1 DEF EnElCiclo, CInv, Formas, EsSeq
   <2>3. a + b + c <= 0 BY <1>1, <2>1 DEF CInv, UnaVuelta
   <2>4. a = 0 BY <2>2, <2>3
   <2> QED BY <2>1, <2>2, <2>4, Vacia
<1>3. aCPU' = <<serializarPCB(pcb[p])>> BY <1>1, <1>2
<1>4. aCPU' # <<>> /\ aCPU'[1] = serializarPCB(pcb[p]) BY <1>3
<1>5. p # -1 BY CPUAssumption
<1>6. \A q \in Pids : Vigente(q) = pcb[q]
   <2>1. \A q \in Pids : enExec # q BY <1>1, CPUAssumption
   <2> QED BY <2>1, Vistas DEF Vista
<1>7. \A q \in Pids : \/ Vigente(q)' = Vigente(q)
                      \/ Vigente(q)' = serializarPCB(Vigente(q))
   BY <1>1, <1>4, <1>6, VistasPrimadas DEF Vista
<1>8. Fieles' BY <1>1, FielesDespues DEF Fieles
<1> QED BY <1>1, <1>7, <1>8, Viaje

\* An instruction that leaves a value in a register.
LEMMA EnElRegistro ==
    ASSUME CInv, CInv', EnViaje, Tablas, Apartados, ~atascada,
           NEW comandos \in SUBSET {"SET", "MOV_IN"}, Ejecuta(comandos), NEW valor,
           Len(valor) = size_of_registro(RegistroDe(instr.reg)),
           Queda([pcb_actual EXCEPT !.registros = escribir_registro(@, instr.reg, valor),
                                    !.program_counter = @ + 1], TRUE),
           UNCHANGED <<pcb, enExec, terminados, aCPU, aKernel, memoria, atascada>>
    PROVE  /\ EnViaje' /\ Fieles' /\ Tablas' /\ Apartados'
           /\ enExec \in Pids \ terminados /\ Vigente(enExec) = pcb_actual
           /\ Maquina!EnPrograma(enExec, comandos) /\ Maquina!Instr(enExec) = instr
           /\ Maquina!Asigna(enExec, valor) /\ Maquina!Sigue(enExec)
           /\ UNCHANGED <<segmentosDe, segmentoComun>>
<1>1. PICK p, c, d, R, nuevos :
          /\ p = enExec /\ c = pcb_actual /\ d = pcb_actual' /\ R = RegistroDe(instr.reg)
          /\ nuevos = [c.registros EXCEPT ![R] = valor]
   OBVIOUS
<1>2. /\ p \in Pids \ terminados /\ aCPU = <<>> /\ aKernel = <<>>
      /\ Sano(c) /\ c.pid = p /\ Vigente(p) = c
      /\ \A q \in Pids \ {p} : Vigente(q) = pcb[q]
   BY <1>1, EnElCPU DEF Ejecuta
<1>3. c.program_counter < Len(c.instrucciones) /\ instr.comando \in comandos
   BY <1>1 DEF Ejecuta
<1>4. d = [c EXCEPT !.registros = escribir_registro(@, instr.reg, valor), !.program_counter = @ + 1]
   BY <1>1 DEF Queda
<1>5. Sano(d) /\ d.pid = p BY <1>2, <1>3, <1>4, SanoAlEscribir
<1>6. /\ d.instrucciones = c.instrucciones /\ d.tabla = c.tabla
      /\ d.program_counter = c.program_counter + 1 /\ d.registros = nuevos
   BY <1>1, <1>2, <1>4 DEF Sano, Campos, escribir_registro
<1>7. /\ Vigente(p)' = d /\ \A q \in Pids \ {p} : Vigente(q)' = pcb[q]
   BY <1>1, <1>2, TrasElCiclo
<1>8. \A q \in Pids : Sano(pcb[q]) BY DEF CInv, Formas
<1>9. \A q \in Pids \ {p} : Conserva(q) /\ NoCorre(q) BY <1>2, <1>7, <1>8, LosDemas
<1>10. Sano(Vigente(p))' BY <1>5, <1>7 DEF Sano, RegistrosBien, TablaBien
<1>11. Conserva(p) BY <1>2, <1>5, <1>6, <1>7, <1>10 DEF Conserva
<1>12. InstrDe(c) = instr BY <1>1 DEF InstrDe, instr
<1>13. Pasa(p) BY <1>2, <1>3, <1>6, <1>7, <1>12 DEF Pasa
<1>14. enExec' \notin terminados' BY DEF EnViaje
<1>15. /\ EnViaje' /\ Tablas' /\ Apartados' /\ UNCHANGED <<programaDe, vivos>>
       /\ contadorDe' = [contadorDe EXCEPT ![p] = @ + 1]
   BY <1>2, <1>9, <1>11, <1>13, <1>14, Avanza
<1>16. Maquina!Sigue(p) BY <1>15 DEF Maquina!Sigue
<1>17. Maquina!EnPrograma(p, comandos) /\ Maquina!Instr(p) = instr
   BY <1>2, <1>3, <1>12, EnSuPrograma
<1>18. UNCHANGED <<segmentosDe, segmentoComun>>
   BY <1>9, <1>11, <1>15, TablasIguales
<1>19. Maquina!Asigna(p, valor)
   <2>1. \A q \in Pids \ {p} : \A r \in Registros \ {"CX", "DX"} :
            Vigente(q)'.registros[r] = Vigente(q).registros[r]
      BY <1>9 DEF NoCorre
   <2>2. DOMAIN c.registros = Registros BY <1>2 DEF Sano, RegistrosBien
   <2>3. \A r \in Registros \ {R} : Vigente(p)'.registros[r] = Vigente(p).registros[r]
      BY <1>1, <1>2, <1>6, <1>7, <2>2
   <2>4. R \in Registros BY <1>1, RegistrosAssumption DEF RegistroDe
   <2>5. Vigente(p)'.registros[R] = valor BY <1>1, <1>6, <1>7, <2>2, <2>4
   <2>6. CASE R \in {"CX", "DX"}
      <3>1. UNCHANGED registrosDe BY <2>1, <2>3, <2>6 DEF registrosDe
      <3> QED BY <1>1, <1>17, <2>6, <3>1 DEF Maquina!Asigna
   <2>7. CASE R \notin {"CX", "DX"}
      <3>1. registrosDe' = [registrosDe EXCEPT ![p][R] = valor]
         <4>1. PICK Rs, f, g : /\ Rs = Registros \ {"CX", "DX"}
                               /\ f = registrosDe /\ g = registrosDe'
            OBVIOUS
         <4>2. /\ f = [q \in Pids |-> [r \in Rs |-> Vigente(q).registros[r]]]
               /\ g = [q \in Pids |-> [r \in Rs |-> Vigente(q)'.registros[r]]]
            BY <4>1 DEF registrosDe
         <4>3. /\ \A q \in Pids \ {p} : g[q] = f[q]
               /\ \A r \in Rs \ {R} : g[p][r] = f[p][r]
               /\ g[p][R] = valor
            BY <1>2, <2>1, <2>3, <2>4, <2>5, <2>7, <4>1, <4>2
         <4>4. R \in Rs BY <2>4, <2>7, <4>1
         <4>5. /\ f = [q \in Pids |-> f[q]] /\ g = [q \in Pids |-> g[q]]
               /\ f[p] = [r \in Rs |-> f[p][r]] /\ g[p] = [r \in Rs |-> g[p][r]]
            BY <1>2, <4>2
         <4>6. g[p] = [f[p] EXCEPT ![R] = valor] BY <4>3, <4>4, <4>5
         <4>7. g = [f EXCEPT ![p] = g[p]] BY <4>3, <4>5
         <4> QED BY <4>1, <4>6, <4>7
      <3> QED BY <1>1, <1>17, <2>7, <3>1 DEF Maquina!Asigna
   <2> QED BY <2>6, <2>7
<1>20. Fieles'
   <2>1. aKernel' = <<>> BY <1>2
   <2> QED BY <2>1 DEF Fieles
<1> QED BY <1>1, <1>2, <1>15, <1>16, <1>17, <1>18, <1>19, <1>20

\* SET is SET of the machine.
LEMMA SetSimula ==
    ASSUME CInv, CInv', EnViaje, Tablas, Apartados, ~atascada, exe_SET
    PROVE  Simula
<1>1. /\ Ejecuta({"SET"})
      /\ Queda([pcb_actual EXCEPT !.registros = escribir_registro(@, instr.reg, instr.valor),
                                  !.program_counter = @ + 1], TRUE)
      /\ UNCHANGED <<pcb, enExec, terminados, aCPU, aKernel, memoria, atascada>>
   BY DEF exe_SET
<1>2. Len(instr.valor) = size_of_registro(RegistroDe(instr.reg)) BY <1>1, AlEjecutar
<1>3. PICK cs : cs = {"SET"} OBVIOUS
<1>4. /\ EnViaje' /\ Fieles' /\ Tablas' /\ Apartados'
      /\ enExec \in Pids \ terminados
      /\ Maquina!EnPrograma(enExec, cs) /\ Maquina!Instr(enExec) = instr
      /\ Maquina!Asigna(enExec, instr.valor) /\ Maquina!Sigue(enExec)
      /\ UNCHANGED <<segmentosDe, segmentoComun>>
   <2>1. cs \in SUBSET {"SET", "MOV_IN"} /\ Ejecuta(cs) BY <1>1, <1>3
   <2> QED BY <1>1, <1>2, <2>1, EnElRegistro
<1>5. Maquina!Set(enExec) BY <1>3, <1>4 DEF Maquina!Set
<1>6. Maquina!Paso(enExec) BY <1>5 DEF Maquina!Paso
<1>7. atascada = FALSE /\ atascada' = FALSE BY <1>1 DEF CInv, Formas
<1> QED BY <1>4, <1>6, <1>7, ConPaso

-----------------------------------------------------------------------------
(* The accesses to memory. *)

\* A register has 1, 2 or 4 cells.
LEMMA TamDeRegistro == \A r : size_of_registro(r) \in {1, 2, 4}
BY DEF size_of_registro

\* The addresses of a program are not negative.
LEMMA DirNatural ==
    ASSUME CInv, Ejecuta({"MOV_IN", "MOV_OUT"}) PROVE instr.dir \in Nat
<1>1. /\ paso = "ciclo" /\ Sano(pcb_actual) /\ instr.comando \in {"MOV_IN", "MOV_OUT"}
      /\ pcb_actual.program_counter < Len(pcb_actual.instrucciones)
   BY AlEjecutar
<1>2. PICK programa, i : programa = pcb_actual.instrucciones /\ i = pcb_actual.program_counter + 1
   OBVIOUS
<1>3. programa \in Programas /\ Len(programa) \in Nat BY <1>1, <1>2, CPUAssumption DEF Sano
<1>4. i \in 1 .. Len(programa) BY <1>1, <1>2, <1>3 DEF Sano
<1>5. instr = programa[i] BY <1>2 DEF instr
<1> QED BY <1>1, <1>3, <1>4, <1>5, CPUAssumption

\* the entry of the table of p that a logical address falls in
Cae(p, dir, k) ==
    /\ k \in 1 .. Len(pcb[p].tabla)
    /\ pcb[p].tabla[k].id = dir \div tam_max_segmento
    /\ pcb[p].tabla[k].base \in Nat /\ pcb[p].tabla[k].size \in Nat
    /\ Rango(pcb[p].tabla[k].base, pcb[p].tabla[k].size) \subseteq Celdas
    /\ k = 1 <=> dir \div tam_max_segmento = 0
    /\ k = 1 => pcb[p].tabla[k] = entradaSegm0

\* An address that mmu translates is in the segment of its number.
LEMMA DondeCae ==
    ASSUME CInv, EnViaje, Tablas, ~atascada, paso = "ciclo",
           NEW dir \in Nat, NEW m, m = mmu(dir), m.hay
    PROVE  /\ \E k : Cae(enExec, dir, k) /\ m.entrada = pcb[enExec].tabla[k]
           /\ m.despl = dir % tam_max_segmento /\ m.despl \in Nat
<1>1. PICK p, t, id : p = enExec /\ t = pcb_actual.tabla /\ id = dir \div tam_max_segmento OBVIOUS
<1>2. /\ p \in Pids \ terminados /\ Vigente(p) = pcb_actual /\ Sano(pcb_actual)
   BY <1>1, EnElCPU
<1>3. t = pcb[p].tabla BY <1>1, <1>2 DEF EnViaje
<1>4. EnOrden(t) BY <1>2, <1>3 DEF Tablas
<1>5. /\ t \in Seq(Entradas) /\ Len(t) > 0 /\ Len(t) \in Nat /\ DOMAIN t = 1 .. Len(t)
      /\ \A k \in 1 .. Len(t) : Rango(t[k].base, t[k].size) \subseteq Celdas
   BY <1>1, <1>2 DEF Sano, TablaBien
<1>6. /\ m.hay = (EnTabla(t, id) # {})
      /\ m.despl = dir % tam_max_segmento
      /\ m.entrada = t[IF EnTabla(t, id) = {} THEN Len(t) ELSE Min(EnTabla(t, id))]
   BY <1>1 DEF mmu
<1>7. PICK k \in 1 .. Len(t) : t[k].id = id BY <1>5, <1>6 DEF EnTabla
<1>8. EnTabla(t, id) = {k} BY <1>4, <1>5, <1>7 DEF EnTabla, EnOrden
<1>9. k \in Nat /\ Min({k}) = k BY <1>7, MinDeUno
<1>10. m.entrada = t[k] BY <1>6, <1>8, <1>9
<1>11. k = 1 => t[k] = entradaSegm0 /\ id = 0 BY <1>4, <1>7 DEF EnOrden, entradaSegm0
<1>12. k # 1 => t[k].id # 0 /\ t[k].base \in Nat /\ t[k].size \in Nat
   <2>1. k # 1 => k \in 2 .. Len(t) BY <1>5, <1>7
   <2> QED BY <1>4, <2>1 DEF EnOrden
<1>13. t[k].base \in Nat /\ t[k].size \in Nat
   BY <1>11, <1>12, CPUAssumption DEF entradaSegm0
<1>14. Cae(p, dir, k)
   BY <1>1, <1>3, <1>5, <1>7, <1>11, <1>12, <1>13 DEF Cae
<1>15. m.despl \in Nat BY <1>6, CPUAssumption
<1> QED BY <1>1, <1>3, <1>6, <1>10, <1>14, <1>15

\* What the machine has there is what Memoria has.
LEMMA LoQueHay ==
    ASSUME CInv, EnViaje, Tablas, NEW p \in Pids \ terminados, NEW dir \in Nat, NEW k, Cae(p, dir, k)
    PROVE  /\ Maquina!Existe(p, dir)
           /\ Maquina!Contenido(p, dir) = Leidas(pcb[p].tabla[k].base, pcb[p].tabla[k].size)
           /\ Len(Maquina!Contenido(p, dir)) = pcb[p].tabla[k].size
<1>1. PICK e : e = pcb[p].tabla[k] OBVIOUS
<1>2. e.base \in Nat /\ e.size \in Nat BY <1>1 DEF Cae
<1>3. SegmentosPorTabla BY LosSegmentos
<1>4. CASE k = 1
   <2>1. dir \div tam_max_segmento = 0 /\ e = entradaSegm0 BY <1>1, <1>4 DEF Cae
   <2>2. e.base = 0 /\ e.size = TamSegmento0 BY <2>1 DEF entradaSegm0
   <2>3. Maquina!Contenido(p, dir) = Leidas(e.base, e.size)
      BY <2>1, <2>2 DEF Maquina!Contenido, segmentoComun
   <2>4. Maquina!Existe(p, dir) BY <2>1 DEF Maquina!Existe
   <2> QED BY <1>1, <1>2, <2>3, <2>4 DEF Leidas
<1>5. CASE k # 1
   <2>1. k \in 2 .. Len(pcb[p].tabla) BY <1>5 DEF Cae
   <2>2. dir \div tam_max_segmento # 0 /\ e.id = dir \div tam_max_segmento
      BY <1>1, <1>5 DEF Cae
   <2>3. PICK x : x = <<p, e.id>> OBVIOUS
   <2>4. CualesSegmentos /\ SusCeldas BY <1>3 DEF SegmentosPorTabla
   <2>5. x \in SegmentosVivos BY <1>1, <2>1, <2>3, <2>4 DEF CualesSegmentos
   <2>6. segmentosDe[x] = Leidas(e.base, e.size) BY <1>1, <2>1, <2>3, <2>4 DEF SusCeldas
   <2>7. DOMAIN segmentosDe = SegmentosVivos BY DEF segmentosDe
   <2>8. Maquina!Contenido(p, dir) = Leidas(e.base, e.size)
      BY <2>2, <2>3, <2>6 DEF Maquina!Contenido
   <2>9. Maquina!Existe(p, dir) BY <2>2, <2>3, <2>5, <2>7 DEF Maquina!Existe
   <2> QED BY <1>1, <1>2, <2>8, <2>9 DEF Leidas
<1> QED BY <1>4, <1>5

\* Some cells that follow one another inside a segment.
LEMMA Pedazo ==
    ASSUME NEW s, EsSeq(s), NEW d \in Nat, NEW n \in Nat, n > 0, d + n <= Len(s)
    PROVE  SubSeq(s, d + 1, d + n) = [i \in 1 .. n |-> s[d + i]]
<1>1. PICK S : S = {s[i] : i \in 1 .. Len(s)} OBVIOUS
<1>2. s \in Seq(S) /\ Len(s) \in Nat BY <1>1 DEF EsSeq
<1>3. PICK a, b : a = d + 1 /\ b = d + n OBVIOUS
<1>4. /\ a \in Int /\ b \in Int /\ 1 <= a /\ a <= b + 1 /\ b <= Len(s) /\ b - a + 1 = n
      /\ \A i \in 1 .. n : a + i - 1 = d + i
   BY <1>2, <1>3
<1>5. PICK u : u = SubSeq(s, a, b) OBVIOUS
<1>6. u \in Seq(S) /\ Len(u) = n /\ \A i \in 1 .. n : u[i] = s[a + i - 1]
   BY <1>2, <1>4, <1>5, SubSeqProperties
<1>7. u = [i \in 1 .. n |-> u[i]] BY <1>6
<1>8. u = [i \in 1 .. n |-> s[d + i]] BY <1>4, <1>6, <1>7
<1> QED BY <1>3, <1>5, <1>8

\* MOV_IN reads what the machine has.
LEMMA MovInSimula ==
    ASSUME CInv, CInv', EnViaje, Tablas, Apartados, ~atascada, exe_MOV_IN
    PROVE  Simula
<1>1. PICK p, dir, tam, cs :
          p = enExec /\ dir = instr.dir /\ tam = TamInstr /\ cs = {"MOV_IN"}
   OBVIOUS
<1>2. Ejecuta(cs) BY <1>1 DEF exe_MOV_IN
<1>3. PICK m : /\ m = mmu(dir) /\ Alcanza(m)
               /\ Queda([pcb_actual EXCEPT
                           !.registros = escribir_registro(@, instr.reg, Bytes(m, tam)),
                           !.program_counter = @ + 1], TRUE)
   BY <1>1 DEF exe_MOV_IN
<1>4. UNCHANGED <<pcb, enExec, terminados, aCPU, aKernel, memoria, atascada>>
   BY DEF exe_MOV_IN
<1>5. tam = size_of_registro(RegistroDe(instr.reg)) /\ tam \in {1, 2, 4}
   BY <1>1, TamDeRegistro DEF TamInstr
<1>6. dir \in Nat
   <2>1. Ejecuta({"MOV_IN", "MOV_OUT"}) BY <1>1, <1>2 DEF Ejecuta
   <2> QED BY <1>1, <2>1, DirNatural
<1>7. PICK valor : valor = Bytes(m, tam) OBVIOUS
<1>8. Len(valor) = tam BY <1>5, <1>7 DEF Bytes
<1>9. /\ EnViaje' /\ Fieles' /\ Tablas' /\ Apartados'
      /\ p \in Pids \ terminados
      /\ Maquina!EnPrograma(p, cs) /\ Maquina!Instr(p) = instr
      /\ Maquina!Asigna(p, valor) /\ Maquina!Sigue(p)
      /\ UNCHANGED <<segmentosDe, segmentoComun>>
   <2>1. cs \in SUBSET {"SET", "MOV_IN"} BY <1>1
   <2> QED BY <1>1, <1>2, <1>3, <1>4, <1>5, <1>7, <1>8, <2>1, EnElRegistro
<1>11. paso = "ciclo" /\ m.hay BY <1>2, <1>3 DEF Ejecuta, Alcanza
<1>12. PICK k : Cae(p, dir, k) /\ m.entrada = pcb[p].tabla[k]
   BY <1>1, <1>3, <1>6, <1>11, DondeCae
<1>13. m.despl = dir % tam_max_segmento /\ m.despl \in Nat BY <1>3, <1>6, <1>11, DondeCae
<1>14. PICK e, d, s : e = m.entrada /\ d = m.despl /\ s = Leidas(e.base, e.size) OBVIOUS
<1>15. /\ e.base \in Nat /\ e.size \in Nat /\ d \in Nat /\ tam \in Nat /\ tam > 0
       /\ d + tam <= e.size
   <2>1. e.base \in Nat /\ e.size \in Nat BY <1>12, <1>14 DEF Cae
   <2>2. ~(d + tam > e.size) BY <1>1, <1>3, <1>14 DEF Alcanza, Excede
   <2> QED BY <1>5, <1>13, <1>14, <2>1, <2>2
<1>16. EsSeq(s) /\ Len(s) = e.size BY <1>14, <1>15 DEF Leidas, EsSeq
<1>17. SubSeq(s, d + 1, d + tam) = valor
   <2>1. SubSeq(s, d + 1, d + tam) = [i \in 1 .. tam |-> s[d + i]] BY <1>15, <1>16, Pedazo
   <2>2. \A i \in 1 .. tam : s[d + i] = memoria[e.base + d + i - 1]
      <3>1. \A i \in 1 .. tam : d + i \in 1 .. e.size /\ e.base + (d + i) - 1 = e.base + d + i - 1
         BY <1>15
      <3> QED BY <1>14, <3>1 DEF Leidas
   <2>3. valor = [i \in 1 .. tam |-> memoria[e.base + d + i - 1]] BY <1>7, <1>14 DEF Bytes
   <2> QED BY <2>1, <2>2, <2>3
<1>18. /\ Maquina!Existe(p, dir) /\ Maquina!Contenido(p, dir) = s
   BY <1>6, <1>9, <1>12, <1>14, LoQueHay
<1>19. Maquina!Cabe(p, dir, tam) BY <1>13, <1>14, <1>15, <1>16, <1>18 DEF Maquina!Cabe
<1>20. Maquina!MovIn(p)
   BY <1>1, <1>5, <1>9, <1>13, <1>14, <1>17, <1>18, <1>19 DEF Maquina!MovIn
<1>21. Maquina!Paso(p) BY <1>20 DEF Maquina!Paso
<1>22. atascada = FALSE /\ atascada' = FALSE BY <1>4 DEF CInv, Formas
<1> QED BY <1>9, <1>21, <1>22, ConPaso

\* Memoria with a value written over the cells from dir on.
EscribeEn(dir, tam, v) ==
    memoria' = [x \in Celdas |-> IF x \in Rango(dir, tam) THEN v[x - dir + 1] ELSE memoria[x]]

\* Writing in a segment changes nothing of those that are apart.
LEMMA NadaAparte ==
    ASSUME NEW e, NEW f, Aparte(e, f), NEW d \in Nat, NEW tam \in Nat, NEW v,
           e.base \in Nat, e.size \in Nat, d + tam <= e.size, EscribeEn(e.base + d, tam, v),
           f.base \in Nat, f.size \in Nat, Rango(f.base, f.size) \subseteq Celdas
    PROVE  Leidas(f.base, f.size)' = Leidas(f.base, f.size)
<1>1. ASSUME NEW i \in 1 .. f.size PROVE memoria'[f.base + i - 1] = memoria[f.base + i - 1]
   <2>1. PICK x : x = f.base + i - 1 OBVIOUS
   <2>2. x \in Rango(f.base, f.size) BY <2>1 DEF Rango
   <2>3. x \in Celdas /\ x \notin Rango(e.base, e.size) BY <2>2 DEF Aparte
   <2>4. x \in Int BY <2>1
   <2>5. x \notin Rango(e.base + d, tam) BY <2>3, <2>4 DEF Rango
   <2>6. memoria'[x] = memoria[x] BY <2>3, <2>5 DEF EscribeEn
   <2> QED BY <2>1, <2>6
<1> QED BY <1>1 DEF Leidas

\* In its own segment it is what the machine of the process does.
LEMMA QuedaEscrito ==
    ASSUME NEW p \in Pids, NEW R \in Registros, NEW d \in Nat, NEW tam,
           tam = size_of_registro(R), NEW e, e.base \in Nat, e.size \in Nat,
           Rango(e.base, e.size) \subseteq Celdas, d + tam <= e.size,
           NEW v, v = Vigente(p).registros[R], EscribeEn(e.base + d, tam, v)
    PROVE  Maquina!Escrito(Leidas(e.base, e.size), Leidas(e.base, e.size)', p, d, R)
<1>1. tam \in Nat BY TamDeRegistro
<1>2. PICK b, n : b = e.base /\ n = e.size OBVIOUS
<1>3. b \in Nat /\ n \in Nat /\ Rango(b, n) \subseteq Celdas /\ d + tam <= n BY <1>2
<1>4. PICK s, t : s = Leidas(b, n) /\ t = Leidas(b, n)' OBVIOUS
<1>5. /\ DOMAIN s = 1 .. n /\ DOMAIN t = 1 .. n
      /\ \A i \in 1 .. n : s[i] = memoria[b + i - 1] /\ t[i] = memoria'[b + i - 1]
   BY <1>4 DEF Leidas
<1>6. ASSUME NEW i \in 1 .. n
      PROVE  IF i \in d + 1 .. d + tam THEN t[i] = v[i - d] ELSE t[i] = s[i]
   <2>1. PICK x : x = b + i - 1 OBVIOUS
   <2>2. x \in Celdas BY <1>3, <2>1 DEF Rango
   <2>3. x \in Rango(b + d, tam) <=> i \in d + 1 .. d + tam BY <1>1, <1>3, <2>1 DEF Rango
   <2>4. x - (b + d) + 1 = i - d BY <1>3, <2>1
   <2>5. memoria'[x] = IF x \in Rango(b + d, tam) THEN v[x - (b + d) + 1] ELSE memoria[x]
      BY <1>2, <2>2 DEF EscribeEn
   <2> QED BY <1>5, <2>1, <2>3, <2>4, <2>5
<1>7. R \notin {"CX", "DX"} => registrosDe[p][R] = v BY DEF registrosDe
<1> QED BY <1>2, <1>4, <1>5, <1>6, <1>7 DEF Maquina!Escrito

\* MOV_OUT writes what the machine writes.
LEMMA MovOutSimula ==
    ASSUME CInv, CInv', EnViaje, Tablas, Apartados, ~atascada, exe_MOV_OUT
    PROVE  Simula
<1>1. PICK p, c, dir, tam, R, v, cs :
          /\ p = enExec /\ c = pcb_actual /\ dir = instr.dir /\ tam = TamInstr
          /\ R = RegistroDe(instr.reg) /\ v = c.registros[R] /\ cs = {"MOV_OUT"}
   OBVIOUS
<1>2. Ejecuta(cs) BY <1>1 DEF exe_MOV_OUT
<1>3. PICK m : /\ m = mmu(dir) /\ Alcanza(m)
               /\ memoria' = [x \in Celdas |->
                                LET a == m.entrada.base + m.despl
                                IN  IF x \in Rango(a, tam)
                                    THEN leer_registro(pcb_actual.registros, instr.reg)[x - a + 1]
                                    ELSE memoria[x]]
               /\ Queda([pcb_actual EXCEPT !.program_counter = @ + 1], TRUE)
   BY <1>1 DEF exe_MOV_OUT
<1>4. UNCHANGED <<pcb, enExec, terminados, aCPU, aKernel, atascada>> BY DEF exe_MOV_OUT
<1>5. tam = size_of_registro(R) /\ tam \in {1, 2, 4} BY <1>1, TamDeRegistro DEF TamInstr
<1>6. paso = "ciclo" /\ m.hay BY <1>2, <1>3 DEF Ejecuta, Alcanza
<1>7. dir \in Nat
   <2>1. Ejecuta({"MOV_IN", "MOV_OUT"}) BY <1>1, <1>2 DEF Ejecuta
   <2> QED BY <1>1, <2>1, DirNatural
<1>8. /\ p \in Pids \ terminados /\ aCPU = <<>> /\ aKernel = <<>>
      /\ Sano(c) /\ c.pid = p /\ Vigente(p) = c
      /\ \A q \in Pids \ {p} : Vigente(q) = pcb[q]
   BY <1>1, <1>6, EnElCPU
<1>9. PICK k : Cae(p, dir, k) /\ m.entrada = pcb[p].tabla[k]
   BY <1>1, <1>3, <1>6, <1>7, DondeCae
<1>10. m.despl = dir % tam_max_segmento /\ m.despl \in Nat BY <1>3, <1>6, <1>7, DondeCae
<1>11. PICK e, d, id : e = m.entrada /\ d = m.despl /\ id = dir \div tam_max_segmento OBVIOUS
<1>12. /\ e.base \in Nat /\ e.size \in Nat /\ d \in Nat /\ tam \in Nat /\ tam > 0
       /\ d + tam <= e.size /\ Rango(e.base, e.size) \subseteq Celdas
   <2>1. e.base \in Nat /\ e.size \in Nat /\ Rango(e.base, e.size) \subseteq Celdas
      BY <1>9, <1>11 DEF Cae
   <2>2. ~(d + tam > e.size) BY <1>1, <1>3, <1>11 DEF Alcanza, Excede
   <2> QED BY <1>5, <1>10, <1>11, <2>1, <2>2
<1>13. EscribeEn(e.base + d, tam, v) BY <1>1, <1>3, <1>11 DEF EscribeEn, leer_registro
   \* the contexts
<1>14. PICK n : n = pcb_actual' OBVIOUS
<1>15. c.program_counter < Len(c.instrucciones) /\ instr.comando \in cs BY <1>1, <1>2 DEF Ejecuta
<1>16. n = [c EXCEPT !.program_counter = @ + 1] BY <1>1, <1>3, <1>14 DEF Queda
<1>17. Sano(n) /\ n.pid = p /\ n.tabla = c.tabla BY <1>8, <1>15, <1>16, SanoAlPasar
<1>18. /\ n.instrucciones = c.instrucciones /\ n.registros = c.registros
       /\ n.program_counter = c.program_counter + 1
   BY <1>8, <1>16 DEF Sano, Campos
<1>19. Vigente(p)' = n /\ \A q \in Pids \ {p} : Vigente(q)' = pcb[q]
   BY <1>1, <1>4, <1>8, <1>14, TrasElCiclo
<1>20. \A q \in Pids : Sano(pcb[q]) BY DEF CInv, Formas
<1>21. \A q \in Pids \ {p} : Conserva(q) /\ NoCorre(q) BY <1>4, <1>8, <1>19, <1>20, LosDemas
<1>22. Sano(Vigente(p))' BY <1>17, <1>19 DEF Sano, RegistrosBien, TablaBien
<1>23. Conserva(p) BY <1>4, <1>8, <1>17, <1>18, <1>19, <1>22 DEF Conserva
<1>24. InstrDe(c) = instr BY <1>1 DEF InstrDe, instr
<1>25. Pasa(p) BY <1>1, <1>8, <1>15, <1>18, <1>19, <1>24 DEF Pasa
<1>26. enExec' \notin terminados' /\ terminados' = terminados /\ p \in Pids BY <1>4, <1>8 DEF EnViaje
<1>27. /\ EnViaje' /\ Tablas' /\ Apartados' /\ UNCHANGED <<programaDe, vivos>>
       /\ contadorDe' = [contadorDe EXCEPT ![p] = @ + 1]
   BY <1>21, <1>23, <1>25, <1>26, Avanza
<1>28. Maquina!Sigue(p) BY <1>27 DEF Maquina!Sigue
<1>29. Maquina!EnPrograma(p, cs) /\ Maquina!Instr(p) = instr
   BY <1>1, <1>8, <1>15, <1>24, EnSuPrograma
<1>30. UNCHANGED registrosDe
   <2>1. \A q \in Pids : \A r \in Registros \ {"CX", "DX"} :
            Vigente(q)'.registros[r] = Vigente(q).registros[r]
      BY <1>8, <1>18, <1>19, <1>21 DEF NoCorre
   <2> QED BY <2>1 DEF registrosDe
   \* the cells
<1>31. /\ Maquina!Existe(p, dir)
       /\ Maquina!Contenido(p, dir) = Leidas(e.base, e.size)
       /\ Len(Maquina!Contenido(p, dir)) = e.size
   BY <1>7, <1>8, <1>9, <1>11, LoQueHay
<1>32. Maquina!Cabe(p, dir, tam) BY <1>10, <1>11, <1>12, <1>31 DEF Maquina!Cabe
<1>33. Maquina!Escrito(Leidas(e.base, e.size), Leidas(e.base, e.size)', p, d, R)
   <2>1. R \in Registros BY <1>1, RegistrosAssumption DEF RegistroDe
   <2>2. p \in Pids /\ v = Vigente(p).registros[R] BY <1>1, <1>8
   <2> QED BY <1>5, <1>12, <1>13, <2>1, <2>2, QuedaEscrito
<1>34. /\ CualesSegmentos /\ SusCeldas /\ segmentosDe = [x \in SegmentosVivos |-> segmentosDe[x]]
   BY LosSegmentos DEF SegmentosPorTabla
<1>35. CualesSegmentos' /\ SusCeldas' /\ (segmentosDe = [x \in SegmentosVivos |-> segmentosDe[x]])'
   BY <1>27, LosSegmentosPrimados DEF SegmentosPorTabla
<1>36. SegmentosVivos' = SegmentosVivos
   <2>1. \A x : x \in SegmentosVivos' <=> x \in SegmentosVivos
      <3>1. pcb' = pcb /\ terminados' = terminados BY <1>4
      <3> QED BY <1>34, <1>35, <3>1 DEF CualesSegmentos
   <2> QED BY <2>1
<1>37. ASSUME NEW x \in SegmentosVivos, id = 0 \/ x # <<p, id>>
       PROVE  segmentosDe'[x] = segmentosDe[x]
   <2>1. PICK q \in Pids \ terminados : \E l \in 2 .. Len(pcb[q].tabla) :
                x = <<q, pcb[q].tabla[l].id>>
      BY <1>34 DEF CualesSegmentos
   <2>2. PICK l \in 2 .. Len(pcb[q].tabla) : x = <<q, pcb[q].tabla[l].id>> BY <2>1
   <2>3. PICK f : f = pcb[q].tabla[l] OBVIOUS
   <2>4. /\ f.base \in Nat /\ f.size \in Nat BY <2>2, <2>3 DEF Tablas, EnOrden
   <2>5. l \in 1 .. Len(pcb[q].tabla) /\ l # 1 BY <2>2
   <2>6. Rango(f.base, f.size) \subseteq Celdas BY <1>20, <2>1, <2>3, <2>5 DEF Sano, TablaBien
   <2>7. k \in 1 .. Len(pcb[p].tabla) /\ e = pcb[p].tabla[k] /\ e.id = id
      BY <1>9, <1>11 DEF Cae
   <2>8. k = 1 <=> id = 0 BY <1>9, <1>11 DEF Cae
   <2>9. <<p, k>> # <<q, l>>
      <3>1. CASE id = 0 BY <2>5, <2>8, <3>1
      <3>2. CASE x # <<p, id>> BY <2>2, <2>7, <3>2
      <3> QED BY <1>37, <3>1, <3>2
   <2>10. Aparte(e, f) BY <1>8, <2>1, <2>3, <2>5, <2>7, <2>9 DEF Apartados
   <2>11. Leidas(f.base, f.size)' = Leidas(f.base, f.size)
      BY <1>12, <1>13, <2>4, <2>6, <2>10, NadaAparte
   <2>12. segmentosDe[x] = Leidas(f.base, f.size) BY <1>34, <2>2, <2>3 DEF SusCeldas
   <2>13. segmentosDe'[x] = Leidas(f.base, f.size)'
      <3>1. pcb' = pcb /\ terminados' = terminados BY <1>4
      <3> QED BY <1>35, <2>2, <2>3, <3>1 DEF SusCeldas
   <2> QED BY <2>11, <2>12, <2>13
<1>38. DOMAIN segmentosDe = SegmentosVivos /\ DOMAIN segmentosDe' = SegmentosVivos
   <2>1. DOMAIN segmentosDe' = SegmentosVivos' BY <1>35
   <2> QED BY <1>34, <1>36, <2>1
<1>39. PICK reg : reg = RegistroDe(Maquina!Instr(p).reg) OBVIOUS
<1>40. reg = R /\ Maquina!Instr(p).dir = dir BY <1>1, <1>29, <1>39
<1>41. ASSUME id = 0 PROVE Maquina!MovOut(p)
   <2>1. e = entradaSegm0 BY <1>9, <1>11, <1>41 DEF Cae
   <2>2. e.base = 0 /\ e.size = TamSegmento0 BY <2>1 DEF entradaSegm0
   <2>3. Maquina!Escrito(segmentoComun, segmentoComun', p, d, R)
      BY <1>33, <2>2 DEF segmentoComun
   <2>4. UNCHANGED segmentosDe
      <3>1. \A x \in SegmentosVivos : segmentosDe'[x] = segmentosDe[x] BY <1>37, <1>41
      <3> QED BY <1>34, <1>35, <1>36, <3>1
   <2>5. Maquina!MovOut(p)
      BY <1>1, <1>5, <1>10, <1>11, <1>28, <1>29, <1>30, <1>32, <1>41, <2>3, <2>4 DEF Maquina!MovOut
   <2> QED BY <2>5
<1>42. ASSUME id # 0 PROVE Maquina!MovOut(p)
   <2>1. segmentosDe[<<p, id>>] = Leidas(e.base, e.size)
      BY <1>11, <1>31, <1>42 DEF Maquina!Contenido
   <2>2. k \in 2 .. Len(pcb[p].tabla) /\ e = pcb[p].tabla[k] /\ e.id = id
      BY <1>9, <1>11, <1>42 DEF Cae
   <2>3. segmentosDe'[<<p, id>>] = Leidas(e.base, e.size)'
      <3>1. pcb' = pcb /\ terminados' = terminados BY <1>4
      <3> QED BY <1>8, <1>35, <2>2, <3>1 DEF SusCeldas
   <2>4. Maquina!Escrito(segmentosDe[<<p, id>>], segmentosDe'[<<p, id>>], p, d, R)
      BY <1>33, <2>1, <2>3
   <2>5. \A x \in SegmentosVivos \ {<<p, id>>} : segmentosDe'[x] = segmentosDe[x] BY <1>37
   <2>6. UNCHANGED segmentoComun
      <3>1. PICK f : f = entradaSegm0 OBVIOUS
      <3>2. /\ f.base = 0 /\ f.size = TamSegmento0
            /\ f.base \in Nat /\ f.size \in Nat
         BY <3>1, CPUAssumption DEF entradaSegm0
      <3>3. Rango(f.base, f.size) \subseteq Celdas BY <3>2, CPUAssumption DEF Rango, Celdas
      <3>4. 1 \in 1 .. Len(pcb[p].tabla) /\ pcb[p].tabla[1] = f
         BY <1>8, <2>2, <3>1 DEF Tablas, EnOrden
      <3>5. k # 1 /\ k \in 1 .. Len(pcb[p].tabla) BY <2>2
      <3>6. Aparte(e, f) BY <1>8, <2>2, <3>4, <3>5 DEF Apartados
      <3>7. Leidas(f.base, f.size)' = Leidas(f.base, f.size)
         BY <1>12, <1>13, <3>2, <3>3, <3>6, NadaAparte
      <3> QED BY <3>2, <3>7 DEF segmentoComun
   <2>7. Maquina!MovOut(p)
      BY <1>1, <1>5, <1>10, <1>11, <1>28, <1>29, <1>30, <1>32, <1>38, <1>42, <2>4, <2>5, <2>6
      DEF Maquina!MovOut
   <2> QED BY <2>7
<1>43. Maquina!Paso(p) BY <1>41, <1>42 DEF Maquina!Paso
<1>44. atascada = FALSE /\ atascada' = FALSE BY <1>4 DEF CInv, Formas
<1>45. Fieles'
   <2>1. aKernel' = <<>> BY <1>4, <1>8
   <2> QED BY <2>1 DEF Fieles
<1> QED BY <1>26, <1>27, <1>43, <1>44, <1>45, ConPaso

-----------------------------------------------------------------------------
(* The Kernel serves the answers. *)

\* what the Kernel leaves of the context c when it serves the answer r
Servida(r, c, ctx) ==
    \/ ctx.program_counter = c.program_counter /\ ctx.tabla = c.tabla
    \/ /\ r.codigo \notin {"REQ_CREATE_SEGMENT", "REQ_DELETE_SEGMENT"}
       /\ ctx.program_counter = c.program_counter + 1 /\ ctx.tabla = c.tabla
    \/ /\ r.codigo = "REQ_DELETE_SEGMENT"
       /\ ctx.program_counter = c.program_counter + 1
       /\ ctx.tabla = SinSegmento(c.tabla, r.args[1])
    \/ /\ r.codigo = "REQ_CREATE_SEGMENT"
       /\ ctx.program_counter = c.program_counter + 1
       /\ \E b \in Celdas :
             /\ Rango(b, r.args[2]) \subseteq Celdas /\ Rango(b, r.args[2]) \cap Ocupadas = {}
             /\ ctx.tabla = Append(c.tabla, [id |-> r.args[1], base |-> b, size |-> r.args[2]])

\* What Atiende leaves, for each answer.
LEMMA ServidoComo ==
    ASSUME NEW r, Respuesta(r), NEW ctx \in Servicio(r)
    PROVE  /\ ctx.instrucciones = r.ctx.instrucciones /\ ctx.registros = r.ctx.registros
           /\ Servida(r, r.ctx, ctx)
<1>1. PICK c : c = r.ctx OBVIOUS
<1>2. DOMAIN c = Campos BY <1>1 DEF Respuesta, Sano
<1>3. PICK pasada : pasada = [c EXCEPT !.program_counter = @ + 1] OBVIOUS
<1>4. /\ DOMAIN pasada = Campos /\ pasada.program_counter = c.program_counter + 1
      /\ pasada.instrucciones = c.instrucciones /\ pasada.registros = c.registros
      /\ pasada.tabla = c.tabla
   BY <1>2, <1>3 DEF Campos
<1>5. ASSUME NEW d, DOMAIN d = Campos, NEW a, NEW e, e = [d EXCEPT !.archivos = a]
      PROVE  /\ e.program_counter = d.program_counter /\ e.instrucciones = d.instrucciones
             /\ e.registros = d.registros /\ e.tabla = d.tabla
   BY <1>5 DEF Campos
<1>6. ASSUME NEW t, NEW e, e = [pasada EXCEPT !.tabla = t]
      PROVE  /\ e.program_counter = c.program_counter + 1 /\ e.instrucciones = c.instrucciones
             /\ e.registros = c.registros /\ e.tabla = t
   BY <1>4, <1>6 DEF Campos
<1>7. CASE r.codigo = "REQ_CREATE_SEGMENT"
   <2>1. \/ ctx = c
         \/ \E b \in Celdas :
               /\ Rango(b, r.args[2]) \subseteq Celdas /\ Rango(b, r.args[2]) \cap Ocupadas = {}
               /\ ctx = [pasada EXCEPT !.tabla =
                            Append(c.tabla, [id |-> r.args[1], base |-> b, size |-> r.args[2]])]
      BY <1>1, <1>3, <1>7 DEF Servicio, actualizarContextoEjec
   <2>2. CASE ctx = c BY <1>1, <2>2 DEF Servida
   <2>3. CASE ctx # c
      <3>1. PICK b \in Celdas :
               /\ Rango(b, r.args[2]) \subseteq Celdas /\ Rango(b, r.args[2]) \cap Ocupadas = {}
               /\ ctx = [pasada EXCEPT !.tabla =
                            Append(c.tabla, [id |-> r.args[1], base |-> b, size |-> r.args[2]])]
         BY <2>1, <2>3
      <3>2. PICK t : t = Append(c.tabla, [id |-> r.args[1], base |-> b, size |-> r.args[2]])
         OBVIOUS
      <3>3. /\ ctx.program_counter = c.program_counter + 1 /\ ctx.instrucciones = c.instrucciones
            /\ ctx.registros = c.registros /\ ctx.tabla = t
         BY <1>6, <3>1, <3>2
      <3>4. Servida(r, c, ctx) BY <1>7, <3>1, <3>2, <3>3 DEF Servida
      <3> QED BY <1>1, <3>3, <3>4
   <2> QED BY <2>2, <2>3
<1>8. CASE r.codigo = "REQ_DELETE_SEGMENT"
   <2>1. ctx = [pasada EXCEPT !.tabla = SinSegmento(c.tabla, r.args[1])]
      BY <1>1, <1>3, <1>8 DEF Servicio, actualizarContextoEjec
   <2>2. PICK t : t = SinSegmento(c.tabla, r.args[1]) OBVIOUS
   <2>3. /\ ctx.program_counter = c.program_counter + 1 /\ ctx.instrucciones = c.instrucciones
         /\ ctx.registros = c.registros /\ ctx.tabla = t
      BY <1>6, <2>1, <2>2
   <2> QED BY <1>1, <1>8, <2>2, <2>3 DEF Servida
<1>9. CASE r.codigo = "REQ_OPEN_FILE"
   <2>1. PICK d \in {pasada} \cup (IF Len(c.archivos) < MaxAbiertos THEN {c} ELSE {}) :
            ctx = [d EXCEPT !.archivos = Append(@, r.args[1])]
      BY <1>1, <1>3, <1>9 DEF Servicio, actualizarContextoEjec
   <2>2. PICK a : ctx = [d EXCEPT !.archivos = a] BY <2>1
   <2>3. d = pasada \/ d = c BY <2>1
   <2>4. /\ ctx.program_counter = d.program_counter /\ ctx.instrucciones = d.instrucciones
         /\ ctx.registros = d.registros /\ ctx.tabla = d.tabla
      BY <1>2, <1>4, <1>5, <2>2, <2>3
   <2> QED BY <1>1, <1>4, <1>9, <2>3, <2>4 DEF Servida
<1>10. CASE r.codigo = "REQ_CLOSE_FILE"
   <2>1. PICK a : ctx = [pasada EXCEPT !.archivos = a]
      BY <1>1, <1>3, <1>10 DEF Servicio, actualizarContextoEjec
   <2>2. /\ ctx.program_counter = pasada.program_counter
         /\ ctx.instrucciones = pasada.instrucciones
         /\ ctx.registros = pasada.registros /\ ctx.tabla = pasada.tabla
      BY <1>4, <1>5, <2>1
   <2> QED BY <1>1, <1>4, <1>10, <2>2 DEF Servida
<1>11. CASE r.codigo \notin {"REQ_CREATE_SEGMENT", "REQ_DELETE_SEGMENT", "REQ_OPEN_FILE",
                             "REQ_CLOSE_FILE"}
   <2>1. ctx = pasada BY <1>1, <1>3, <1>11 DEF Servicio, actualizarContextoEjec
   <2> QED BY <1>1, <1>4, <1>11, <2>1 DEF Servida
<1> QED BY <1>7, <1>8, <1>9, <1>10, <1>11

\* the Kernel took the answer of p, and keeps ctx
Atendido(p, ctx) ==
    /\ p \in Pids \ terminados
    /\ Vigente(p) = Head(aKernel).ctx
    /\ Respuesta(Head(aKernel)) /\ Head(aKernel) = aKernel[1] /\ Len(aKernel) = 1
    /\ pcb'[p] = ctx /\ Vigente(p)' = ctx
    /\ \A q \in Pids \ {p} :
          Vigente(q) = pcb[q] /\ Vigente(q)' = pcb[q] /\ pcb'[q] = pcb[q]
    /\ Fieles' /\ enExec' = -1 /\ enExec' \notin Pids
    /\ UNCHANGED <<memoria, atascada>>

LEMMA TrasServir ==
    ASSUME CInv, CInv', EnViaje, ~atascada, Recibe, NEW ctx, NEW p, p = enExec,
           pcb' = [pcb EXCEPT ![p] = ctx]
    PROVE  Atendido(p, ctx)
<1>1. /\ aKernel # <<>> /\ aKernel' = Tail(aKernel) /\ enExec' = -1
      /\ UNCHANGED <<memoria, atascada>>
   BY DEF Recibe
<1>2. /\ p \in Pids \ terminados /\ Len(aKernel) = 1
      /\ Respuesta(aKernel[1]) /\ Head(aKernel) = aKernel[1]
      /\ Vigente(p) = aKernel[1].ctx
      /\ \A q \in Pids \ {p} : Vigente(q) = pcb[q]
   BY <1>1, EnElSocket
<1>3. Len(aKernel') = 0 BY <1>1, <1>2, ElPrimero DEF CInv, Formas
<1>4. Fieles' BY <1>3 DEF Fieles
<1>5. enExec' \notin Pids BY <1>1, CPUAssumption
<1>6. \A q \in Pids : Vigente(q)' = pcb'[q] BY <1>5, VistasPrimadas DEF Vista
<1>7. /\ pcb'[p] = ctx /\ \A q \in Pids \ {p} : pcb'[q] = pcb[q]
   BY <1>2 DEF CInv, Formas
<1>8. \A q \in Pids \ {p} :
         Vigente(q) = pcb[q] /\ Vigente(q)' = pcb[q] /\ pcb'[q] = pcb[q]
   BY <1>2, <1>6, <1>7
<1>9. Vigente(p)' = ctx /\ pcb'[p] = ctx BY <1>2, <1>6, <1>7
<1>10. Vigente(p) = Head(aKernel).ctx /\ Respuesta(Head(aKernel)) BY <1>2
<1> QED BY <1>1, <1>2, <1>4, <1>5, <1>8, <1>9, <1>10 DEF Atendido

\* An entry that stays is a segment that stays.
LEMMA MismasCeldas ==
    ASSUME SusCeldas, SusCeldas', UNCHANGED memoria,
           NEW q \in Pids, q \notin terminados, q \notin terminados',
           NEW k \in 2 .. Len(pcb[q].tabla), NEW l \in 2 .. Len(pcb'[q].tabla),
           pcb'[q].tabla[l] = pcb[q].tabla[k]
    PROVE  segmentosDe'[<<q, pcb[q].tabla[k].id>>] = segmentosDe[<<q, pcb[q].tabla[k].id>>]
<1>1. PICK e : e = pcb[q].tabla[k] OBVIOUS
<1>2. \A b, n : Leidas(b, n)' = Leidas(b, n) BY DEF Leidas
<1>3. segmentosDe[<<q, e.id>>] = Leidas(e.base, e.size) BY <1>1 DEF SusCeldas
<1>4. segmentosDe'[<<q, e.id>>] = Leidas(e.base, e.size)' BY <1>1 DEF SusCeldas
<1> QED BY <1>1, <1>2, <1>3, <1>4

\* A process that ends takes its segments with it.
LEMMA TerminaSimula ==
    ASSUME CInv, CInv', EnViaje, Tablas, Apartados, ~atascada, Recibe, Finaliza
    PROVE  Simula
<1>1. PICK p, r, c : p = enExec /\ r = Head(aKernel) /\ c = r.ctx OBVIOUS
<1>2. pcb' = [pcb EXCEPT ![p] = c] /\ terminados' = terminados \cup {p}
   BY <1>1 DEF Finaliza, actualizarContextoEjec
<1>3. /\ p \in Pids \ terminados /\ Vigente(p) = c /\ pcb'[p] = c /\ Vigente(p)' = c
      /\ \A q \in Pids \ {p} : Vigente(q) = pcb[q] /\ Vigente(q)' = pcb[q] /\ pcb'[q] = pcb[q]
      /\ Fieles' /\ enExec' \notin Pids /\ memoria' = memoria /\ atascada' = atascada
   <2>1. p = enExec /\ pcb' = [pcb EXCEPT ![p] = c] BY <1>1, <1>2
   <2>2. Atendido(p, c) BY <2>1, TrasServir
   <2> QED BY <1>1, <2>2 DEF Atendido
<1>4. ASSUME NEW q \in Pids PROVE Conserva(q) /\ Vigente(q)' = Vigente(q)
   <2>1. Vigente(q)' = Vigente(q) BY <1>3
   <2>2. /\ Sano(Vigente(q)) /\ Vigente(q).pid = q
         /\ Vigente(q).instrucciones = pcb[q].instrucciones
         /\ Vigente(q).tabla = pcb[q].tabla
      BY DEF EnViaje
   <2>3. pcb'[q].instrucciones = pcb[q].instrucciones /\ pcb'[q].tabla = pcb[q].tabla
      BY <1>3, <2>2
   <2>4. Sano(Vigente(q))' BY <2>1, <2>2 DEF Sano, RegistrosBien, TablaBien
   <2> QED BY <2>1, <2>2, <2>3, <2>4 DEF Conserva
<1>5. EnViaje'
   <2>1. enExec' \notin terminados' BY <1>2, <1>3 DEF CInv, Formas
   <2> QED BY <1>4, <2>1 DEF EnViaje, Conserva
<1>6. \A q \in Pids : /\ pcb'[q].instrucciones = pcb[q].instrucciones
                      /\ pcb'[q].tabla = pcb[q].tabla /\ Vigente(q)' = Vigente(q)
   BY <1>4 DEF Conserva
<1>7. Pids \ terminados' = (Pids \ terminados) \ {p} BY <1>2
<1>8. Tablas'
   <2>1. \A q \in Pids \ terminados : EnOrden(pcb[q].tabla) BY DEF Tablas
   <2>2. \A q \in Pids \ terminados : \A k \in 2 .. Len(pcb[q].tabla) :
            Creado(pcb[q].instrucciones, Vigente(q).program_counter, pcb[q].tabla[k].id)
      BY DEF Tablas
   <2> QED BY <1>6, <1>7, <2>1, <2>2, TablasDespues
<1>9. Apartados' BY <1>6, <1>7, ApartadosDespues DEF Apartados
<1>10. /\ CualesSegmentos /\ SusCeldas /\ segmentosDe = [x \in SegmentosVivos |-> segmentosDe[x]]
   BY LosSegmentos DEF SegmentosPorTabla
<1>11. CualesSegmentos' /\ SusCeldas' /\ (segmentosDe = [x \in SegmentosVivos |-> segmentosDe[x]])'
   BY <1>5, <1>8, LosSegmentosPrimados DEF SegmentosPorTabla
<1>12. SegmentosVivos' = {x \in SegmentosVivos : x[1] # p}
   <2>1. ASSUME NEW x PROVE x \in SegmentosVivos' <=> x \in SegmentosVivos /\ x[1] # p
      <3>1. x \in SegmentosVivos' <=>
               \E q \in Pids \ terminados' : \E k \in 2 .. Len(pcb[q].tabla) :
                  x = <<q, pcb[q].tabla[k].id>>
         BY <1>6, <1>11 DEF CualesSegmentos
      <3>2. x \in SegmentosVivos <=>
               \E q \in Pids \ terminados : \E k \in 2 .. Len(pcb[q].tabla) :
                  x = <<q, pcb[q].tabla[k].id>>
         BY <1>10 DEF CualesSegmentos
      <3>3. \A q, i : <<q, i>>[1] = q OBVIOUS
      <3> QED BY <1>7, <3>1, <3>2, <3>3
   <2> QED BY <2>1
<1>13. ASSUME NEW x \in SegmentosVivos, x[1] # p PROVE segmentosDe'[x] = segmentosDe[x]
   <2>1. PICK q \in Pids \ terminados : \E k \in 2 .. Len(pcb[q].tabla) :
                x = <<q, pcb[q].tabla[k].id>>
      BY <1>10 DEF CualesSegmentos
   <2>2. PICK k \in 2 .. Len(pcb[q].tabla) : x = <<q, pcb[q].tabla[k].id>> BY <2>1
   <2>3. q # p BY <1>13, <2>2
   <2>4. q \in Pids /\ q \notin terminados /\ q \notin terminados' BY <1>7, <2>1, <2>3
   <2>5. k \in 2 .. Len(pcb'[q].tabla) /\ pcb'[q].tabla[k] = pcb[q].tabla[k] BY <1>6, <2>1, <2>2
   <2> QED BY <1>3, <1>10, <1>11, <2>2, <2>4, <2>5, MismasCeldas
<1>14. segmentosDe' = [x \in {y \in DOMAIN segmentosDe : y[1] # p} |-> segmentosDe[x]]
   <2>1. DOMAIN segmentosDe = SegmentosVivos BY <1>10
   <2>2. segmentosDe' = [x \in {y \in SegmentosVivos : y[1] # p} |-> segmentosDe'[x]]
      BY <1>11, <1>12
   <2> QED BY <1>13, <2>1, <2>2
<1>15. vivos[p] = TRUE /\ vivos' = [vivos EXCEPT ![p] = FALSE]
   BY <1>2, <1>3 DEF vivos
<1>16. UNCHANGED <<programaDe, contadorDe, registrosDe, segmentoComun>>
   BY <1>3, <1>6 DEF programaDe, contadorDe, registrosDe, segmentoComun, Leidas
<1>17. Maquina!Termina(p) BY <1>14, <1>15, <1>16 DEF Maquina!Termina
<1>18. Maquina!Paso(p) BY <1>17 DEF Maquina!Paso
<1>19. atascada = FALSE /\ atascada' = FALSE /\ p \in Pids BY <1>3 DEF CInv, Formas
<1> QED BY <1>3, <1>5, <1>8, <1>9, <1>18, <1>19, ConPaso

\* The context that Atiende leaves, but for the tables.
LEMMA AtiendeComo ==
    ASSUME CInv, CInv', EnViaje, Fieles, ~atascada, Recibe, Atiende
    PROVE  \E p, r, c, ctx :
              /\ p = enExec /\ r = Head(aKernel) /\ c = r.ctx /\ Vigente(p) = c
              /\ Respuesta(r) /\ Fiel(r) /\ r.codigo \notin Errores \cup {"REQ_EXIT"}
              /\ Sano(ctx) /\ ctx.pid = p
              /\ ctx.instrucciones = c.instrucciones /\ ctx.registros = c.registros
              /\ Servida(r, c, ctx)
              /\ Atendido(p, ctx) /\ UNCHANGED terminados
<1>1. PICK p, r, c : p = enExec /\ r = Head(aKernel) /\ c = r.ctx OBVIOUS
<1>2. PICK ctx \in Servicio(r) : pcb' = [pcb EXCEPT ![p] = ctx] BY <1>1 DEF Atiende
<1>3. r.codigo \notin Errores \cup {"REQ_EXIT"} /\ UNCHANGED terminados BY <1>1 DEF Atiende
<1>4. Atendido(p, ctx) BY <1>1, <1>2, TrasServir
<1>5. Respuesta(r) /\ Vigente(p) = c /\ r = aKernel[1] /\ 1 \in 1 .. Len(aKernel) /\ p \in Pids
   BY <1>1, <1>4 DEF Atendido
<1>6. Fiel(r) BY <1>5 DEF Fieles
<1>7. Sano(ctx) /\ ctx.pid = c.pid BY <1>1, <1>2, <1>5, SanoServido
<1>8. c.pid = p BY <1>5 DEF EnViaje
<1>9. ctx.instrucciones = c.instrucciones /\ ctx.registros = c.registros /\ Servida(r, c, ctx)
   BY <1>1, <1>2, <1>5, ServidoComo
<1> QED BY <1>1, <1>3, <1>4, <1>5, <1>6, <1>7, <1>8, <1>9

\* ... that does not change its table.
LEMMA AtiendeSinTabla ==
    ASSUME CInv, CInv', EnViaje, Tablas, Apartados, ~atascada, UNCHANGED terminados,
           NEW p, NEW r, NEW c, NEW ctx, c = r.ctx, Vigente(p) = c, Respuesta(r), Fiel(r),
           r.codigo \notin Errores \cup {"REQ_EXIT"},
           Sano(ctx), ctx.pid = p, ctx.instrucciones = c.instrucciones,
           ctx.registros = c.registros, ctx.tabla = c.tabla,
           \/ ctx.program_counter = c.program_counter
           \/ /\ ctx.program_counter = c.program_counter + 1
              /\ r.codigo \notin {"REQ_CREATE_SEGMENT", "REQ_DELETE_SEGMENT"},
           Atendido(p, ctx)
    PROVE  Simula
<1>1. /\ p \in Pids \ terminados /\ pcb'[p] = ctx /\ Vigente(p)' = ctx
      /\ \A q \in Pids \ {p} : Vigente(q) = pcb[q] /\ Vigente(q)' = pcb[q] /\ pcb'[q] = pcb[q]
      /\ Fieles' /\ enExec' \notin Pids /\ memoria' = memoria /\ atascada' = atascada
   BY DEF Atendido
<1>2. /\ c.pid = p /\ c.instrucciones = pcb[p].instrucciones /\ c.tabla = pcb[p].tabla
   BY <1>1 DEF EnViaje
<1>3. \A q \in Pids : Sano(pcb[q]) BY DEF CInv, Formas
<1>4. \A q \in Pids \ {p} : Conserva(q) /\ NoCorre(q) BY <1>1, <1>3, LosDemas
<1>5. Sano(Vigente(p))' BY <1>1 DEF Sano, RegistrosBien, TablaBien
<1>6. Conserva(p) BY <1>1, <1>2, <1>5 DEF Conserva
<1>7. enExec' \notin terminados' /\ terminados' = terminados BY <1>1 DEF CInv, Formas
<1>8. \A r1 \in Registros \ {"CX", "DX"} : Vigente(p)'.registros[r1] = Vigente(p).registros[r1]
   BY <1>1
<1>9. CASE ctx.program_counter = c.program_counter
   <2>1. NoCorre(p) BY <1>1, <1>8, <1>9 DEF NoCorre
   <2>2. \A q \in Pids : Conserva(q) /\ NoCorre(q) BY <1>4, <1>6, <2>1
   <2>3. /\ EnViaje' /\ Tablas' /\ Apartados'
         /\ UNCHANGED <<programaDe, contadorDe, registrosDe, vivos, segmentosDe, segmentoComun>>
      BY <1>1, <1>7, <2>2, Quieto
   <2> QED BY <1>1, <2>3, SinPaso
<1>10. CASE /\ ctx.program_counter = c.program_counter + 1
            /\ r.codigo \notin {"REQ_CREATE_SEGMENT", "REQ_DELETE_SEGMENT"}
   <2>1. PICK cs : cs = {"I/O", "WAIT", "SIGNAL", "YIELD", "F_OPEN", "F_CLOSE", "F_SEEK",
                         "F_TRUNCATE", "F_READ", "F_WRITE"}
      OBVIOUS
   <2>2. InstrDe(c).comando \in cs BY <1>10, <2>1 DEF Fiel
   <2>3. c.program_counter < Len(c.instrucciones) BY DEF Respuesta
   <2>4. Pasa(p) BY <1>1, <1>10, <2>1, <2>2, <2>3 DEF Pasa
   <2>5. /\ EnViaje' /\ Tablas' /\ Apartados' /\ UNCHANGED <<programaDe, vivos>>
         /\ contadorDe' = [contadorDe EXCEPT ![p] = @ + 1]
      <3>1. p \in Pids /\ \A q \in Pids : Conserva(q) BY <1>1, <1>4, <1>6
      <3> QED BY <1>4, <1>7, <2>4, <3>1, Avanza
   <2>6. UNCHANGED <<segmentosDe, segmentoComun>>
      <3>1. \A q \in Pids : Conserva(q) BY <1>4, <1>6
      <3> QED BY <1>1, <1>7, <2>5, <3>1, TablasIguales
   <2>7. UNCHANGED registrosDe BY <1>4, <1>8 DEF registrosDe, NoCorre
   <2>8. Maquina!EnPrograma(p, cs) BY <1>1, <2>2, <2>3, EnSuPrograma
   <2>9. Maquina!Sigue(p) BY <2>5 DEF Maquina!Sigue
   <2>10. Maquina!Llamada(p) BY <2>1, <2>6, <2>7, <2>8, <2>9 DEF Maquina!Llamada
   <2>11. Maquina!Paso(p) BY <2>10 DEF Maquina!Paso
   <2>12. atascada = FALSE /\ atascada' = FALSE /\ p \in Pids BY <1>1 DEF CInv, Formas
   <2> QED BY <1>1, <2>5, <2>11, <2>12, ConPaso
<1> QED BY <1>9, <1>10

\* an instruction of p that left it the table u
ConTabla(p, u) ==
    /\ EnViaje' /\ Fieles' /\ Tablas'
    /\ pcb'[p].tabla = u /\ \A q \in Pids \ {p} : pcb'[q].tabla = pcb[q].tabla
    /\ Maquina!Sigue(p) /\ UNCHANGED <<registrosDe, segmentoComun, memoria, atascada>>

LEMMA ConOtraTabla ==
    ASSUME CInv, CInv', EnViaje, Tablas, ~atascada, UNCHANGED terminados,
           NEW p, NEW r, NEW c, NEW ctx, c = r.ctx, Vigente(p) = c, Respuesta(r),
           Sano(ctx), ctx.pid = p, ctx.instrucciones = c.instrucciones,
           ctx.registros = c.registros, ctx.program_counter = c.program_counter + 1,
           Atendido(p, ctx), EnOrden(ctx.tabla),
           \A k \in 2 .. Len(ctx.tabla) :
              Creado(ctx.instrucciones, ctx.program_counter, ctx.tabla[k].id)
    PROVE  ConTabla(p, ctx.tabla)
<1>1. /\ p \in Pids \ terminados /\ pcb'[p] = ctx /\ Vigente(p)' = ctx
      /\ \A q \in Pids \ {p} : Vigente(q) = pcb[q] /\ Vigente(q)' = pcb[q] /\ pcb'[q] = pcb[q]
      /\ Fieles' /\ enExec' \notin Pids /\ memoria' = memoria /\ atascada' = atascada
   BY DEF Atendido
<1>2. /\ c.pid = p /\ c.instrucciones = pcb[p].instrucciones /\ c.tabla = pcb[p].tabla
   BY <1>1 DEF EnViaje
<1>3. \A q \in Pids : Sano(pcb[q]) BY DEF CInv, Formas
<1>4. \A q \in Pids \ {p} : Conserva(q) /\ NoCorre(q) BY <1>1, <1>3, LosDemas
<1>5. Sano(Vigente(p))' BY <1>1 DEF Sano, RegistrosBien, TablaBien
<1>6. enExec' \notin terminados' /\ terminados' = terminados BY <1>1 DEF CInv, Formas
<1>7. EnViaje'
   <2>1. ASSUME NEW q \in Pids
         PROVE  /\ Sano(Vigente(q))' /\ Vigente(q)'.pid = q
                /\ Vigente(q)'.instrucciones = pcb'[q].instrucciones
                /\ Vigente(q)'.tabla = pcb'[q].tabla
      <3>1. CASE q = p BY <1>1, <1>5, <3>1
      <3>2. CASE q # p BY <1>1, <1>4, <3>2 DEF Conserva
      <3> QED BY <3>1, <3>2
   <2> QED BY <1>6, <2>1 DEF EnViaje
<1>8. Tablas'
   <2>1. ASSUME NEW q \in Pids \ terminados
         PROVE  /\ EnOrden(pcb'[q].tabla)
                /\ \A k \in 2 .. Len(pcb'[q].tabla) :
                      Creado(pcb'[q].instrucciones, Vigente(q)'.program_counter, pcb'[q].tabla[k].id)
      <3>1. CASE q = p BY <1>1, <3>1
      <3>2. CASE q # p BY <1>1, <3>2 DEF Tablas
      <3> QED BY <3>1, <3>2
   <2> QED BY <1>6, <2>1, TablasDespues
<1>9. UNCHANGED programaDe BY <1>1, <1>2 DEF programaDe
<1>10. UNCHANGED vivos BY <1>6 DEF vivos
<1>11. contadorDe' = [contadorDe EXCEPT ![p] = @ + 1] BY <1>1 DEF contadorDe
<1>12. UNCHANGED registrosDe BY <1>1 DEF registrosDe
<1>13. UNCHANGED segmentoComun BY <1>1 DEF segmentoComun, Leidas
<1>14. Maquina!Sigue(p) BY <1>9, <1>10, <1>11 DEF Maquina!Sigue
<1> QED BY <1>1, <1>2, <1>7, <1>8, <1>12, <1>13, <1>14 DEF ConTabla

\* u is t without its segment id: f says where each entry was
Quitada(t, u, id, f) ==
    /\ Len(u) \in Nat /\ Len(u) > 0
    /\ \A i \in 1 .. Len(u) :
          f[i] \in 1 .. Len(t) /\ u[i] = t[f[i]] /\ (f[i] = 1 <=> i = 1)
    /\ \A i, j \in 1 .. Len(u) : f[i] = f[j] => i = j
    /\ \A k \in 2 .. Len(t) : (\E i \in 2 .. Len(u) : f[i] = k) <=> t[k].id # id

\* The table without the entry of an id, position by position.
LEMMA SinLaEntrada ==
    ASSUME NEW t, TablaBien(t), EnOrden(t), NEW id
    PROVE  \E f : Quitada(t, SinSegmento(t, id), id, f)
<1>1. PICK suyas, n : suyas = EnTabla(t, id) \ {1} /\ n = Len(t) OBVIOUS
<1>2. t \in Seq(Entradas) /\ n \in Nat /\ n > 0 /\ DOMAIN t = 1 .. n BY <1>1 DEF TablaBien
<1>3. suyas = {k \in 2 .. n : t[k].id = id} BY <1>1, <1>2 DEF EnTabla
<1>4. CASE id = 0 \/ suyas = {}
   <2>1. SinSegmento(t, id) = t BY <1>1, <1>4 DEF SinSegmento
   <2>2. \A k \in 2 .. n : t[k].id # id
      <3>1. CASE id = 0 BY <1>1, <3>1 DEF EnOrden
      <3>2. CASE suyas = {} BY <1>3, <3>2
      <3> QED BY <1>4, <3>1, <3>2
   <2>3. PICK f : f = [i \in 1 .. n |-> i] OBVIOUS
   <2>4. \A i \in 1 .. n : f[i] = i BY <2>3
   <2>5. Quitada(t, t, id, f) BY <1>1, <1>2, <2>2, <2>4 DEF Quitada
   <2> QED BY <2>1, <2>5
<1>5. CASE ~(id = 0 \/ suyas = {})
   <2>1. PICK k : k = Min(suyas) OBVIOUS
   <2>2. k \in suyas
      <3>1. suyas \in SUBSET Nat BY <1>2, <1>3
      <3>2. \E x \in suyas : \A y \in suyas : x <= y BY <1>5, <3>1, MinimoNatural
      <3> QED BY <2>1, <3>2 DEF Min
   <2>3. k \in 2 .. n /\ t[k].id = id BY <1>3, <2>2
   <2>4. SinSegmento(t, id) = RemoveAt(t, k) BY <1>1, <1>5, <2>1 DEF SinSegmento
   <2>5. PICK a, b, u : /\ a = SubSeq(t, 1, k - 1) /\ b = SubSeq(t, k + 1, n) /\ u = a \o b
      OBVIOUS
   <2>6. u = SinSegmento(t, id) BY <1>1, <2>4, <2>5 DEF RemoveAt
   <2>7. /\ a \in Seq(Entradas) /\ Len(a) = k - 1
         /\ \A i \in 1 .. k - 1 : a[i] = t[i]
      BY <1>1, <1>2, <2>3, <2>5
   <2>8. /\ b \in Seq(Entradas) /\ Len(b) = n - k
         /\ \A i \in 1 .. n - k : b[i] = t[k + i]
      <3>1. \A i \in k + 1 .. n : t[i] \in Entradas BY <1>1, <1>2, <2>3
      <3>2. k + 1 \in Int /\ n \in Int /\ k \in Nat /\ k <= n BY <1>2, <2>3
      <3>3. /\ b \in Seq(Entradas)
            /\ Len(b) = IF k + 1 <= n THEN n - (k + 1) + 1 ELSE 0
            /\ \A i \in 1 .. n - (k + 1) + 1 : b[i] = t[(k + 1) + i - 1]
         BY <2>5, <3>1, <3>2, SubSeqProperties
      <3>4. /\ (IF k + 1 <= n THEN n - (k + 1) + 1 ELSE 0) = n - k
            /\ n - (k + 1) + 1 = n - k
            /\ \A i \in 1 .. n - k : (k + 1) + i - 1 = k + i
         BY <3>2
      <3> QED BY <3>3, <3>4
   <2>9. /\ u \in Seq(Entradas) /\ Len(u) = Len(a) + Len(b)
         /\ \A i \in 1 .. Len(a) + Len(b) : u[i] = IF i <= Len(a) THEN a[i] ELSE b[i - Len(a)]
      <3>1. a \in Seq(Entradas) /\ b \in Seq(Entradas) BY <2>7, <2>8
      <3>2. /\ (a \o b) \in Seq(Entradas) /\ Len(a \o b) = Len(a) + Len(b)
            /\ \A i \in 1 .. Len(a) + Len(b) :
                  (a \o b)[i] = IF i <= Len(a) THEN a[i] ELSE b[i - Len(a)]
         BY <3>1, ConcatProperties, Zenon
      <3> QED BY <2>5, <3>2
   <2>10. Len(a) + Len(b) = n - 1 BY <1>2, <2>3, <2>7, <2>8
   <2>11. Len(u) = n - 1 /\ Len(u) \in Nat /\ Len(u) > 0 BY <1>2, <2>3, <2>9, <2>10
   <2>12. PICK f : f = [i \in 1 .. n - 1 |-> IF i < k THEN i ELSE i + 1] OBVIOUS
   <2>13. \A i \in 1 .. n - 1 : f[i] = (IF i < k THEN i ELSE i + 1) BY <2>12
   <2>14. ASSUME NEW i \in 1 .. n - 1 PROVE u[i] = t[f[i]]
      <3>1. CASE i < k
         <4>1. i <= Len(a) /\ i \in 1 .. k - 1 BY <2>3, <2>7, <3>1
         <4> QED BY <2>7, <2>9, <2>10, <2>13, <3>1, <4>1
      <3>2. CASE ~(i < k)
         <4>1. ~(i <= Len(a)) /\ i - Len(a) \in 1 .. n - k /\ k + (i - Len(a)) = i + 1
            BY <1>2, <2>3, <2>7, <3>2
         <4>2. u[i] = b[i - Len(a)] BY <2>9, <2>10, <4>1
         <4> QED BY <2>8, <2>13, <3>2, <4>1, <4>2
      <3> QED BY <3>1, <3>2
   <2>15. \A i \in 1 .. n - 1 : f[i] \in 1 .. n /\ (f[i] = 1 <=> i = 1) /\ f[i] # k
      BY <1>2, <2>3, <2>13
   <2>16. \A i, j \in 1 .. n - 1 : f[i] = f[j] => i = j BY <1>2, <2>3, <2>13
   <2>17. ASSUME NEW l \in 2 .. n PROVE (\E i \in 2 .. n - 1 : f[i] = l) <=> t[l].id # id
      <3>1. CASE l = k BY <2>3, <2>15, <3>1
      <3>2. CASE l < k
         <4>1. l \in 2 .. n - 1 /\ f[l] = l BY <1>2, <2>3, <2>13, <3>2
         <4>2. t[l].id # id BY <1>1, <2>3, <3>2 DEF EnOrden
         <4> QED BY <4>1, <4>2
      <3>3. CASE l > k
         <4>1. l - 1 \in 2 .. n - 1 /\ f[l - 1] = l BY <1>2, <2>3, <2>13, <3>3
         <4>2. t[l].id # id BY <1>1, <2>3, <3>3 DEF EnOrden
         <4> QED BY <4>1, <4>2
      <3> QED BY <2>3, <3>1, <3>2, <3>3
   <2>18. Quitada(t, u, id, f) BY <1>1, <2>11, <2>14, <2>15, <2>16, <2>17 DEF Quitada
   <2> QED BY <2>6, <2>18
<1> QED BY <1>4, <1>5

\* ... is in order.
LEMMA EnOrdenSinLaEntrada ==
    ASSUME NEW t, EnOrden(t), NEW u, NEW id, NEW f, Quitada(t, u, id, f), Len(t) \in Nat
    PROVE  /\ EnOrden(u)
           /\ \A k \in 2 .. Len(u) : f[k] \in 2 .. Len(t) /\ u[k] = t[f[k]] /\ u[k].id # id
<1>1. PICK n, l : n = Len(u) /\ l = Len(t) OBVIOUS
<1>2. /\ n \in Nat /\ n > 0 /\ l \in Nat
      /\ \A i \in 1 .. n : f[i] \in 1 .. l /\ u[i] = t[f[i]] /\ (f[i] = 1 <=> i = 1)
      /\ \A i, j \in 1 .. n : f[i] = f[j] => i = j
      /\ \A k \in 2 .. l : (\E i \in 2 .. n : f[i] = k) <=> t[k].id # id
   BY <1>1 DEF Quitada
<1>3. ASSUME NEW k \in 2 .. n PROVE f[k] \in 2 .. l /\ u[k] = t[f[k]] /\ u[k].id # id
   <2>1. k \in 1 .. n /\ k # 1 BY <1>2
   <2>2. f[k] \in 1 .. l /\ f[k] # 1 /\ u[k] = t[f[k]] BY <1>2, <2>1
   <2>3. f[k] \in 2 .. l BY <1>2, <2>2
   <2> QED BY <1>2, <2>2, <2>3
<1>4. u[1] = entradaSegm0
   <2>1. 1 \in 1 .. n BY <1>2
   <2> QED BY <1>2, <2>1 DEF EnOrden
<1>5. \A k \in 2 .. n : u[k].id # 0 /\ u[k].base \in Nat /\ u[k].size \in Nat
   BY <1>1, <1>3 DEF EnOrden
<1>6. \A k, m \in 1 .. n : u[k].id = u[m].id => k = m
   <2>1. \A k, m \in 1 .. n : u[k].id = u[m].id => f[k] = f[m] BY <1>1, <1>2 DEF EnOrden
   <2> QED BY <1>2, <2>1
<1> QED BY <1>1, <1>3, <1>4, <1>5, <1>6 DEF EnOrden

\* DELETE_SEGMENT takes away one segment.
LEMMA BorraSimula ==
    ASSUME CInv, CInv', EnViaje, Tablas, Apartados, ~atascada, UNCHANGED terminados,
           NEW p, NEW r, NEW c, NEW ctx, c = r.ctx, Vigente(p) = c, Respuesta(r), Fiel(r),
           r.codigo = "REQ_DELETE_SEGMENT",
           Sano(ctx), ctx.pid = p, ctx.instrucciones = c.instrucciones,
           ctx.registros = c.registros, ctx.program_counter = c.program_counter + 1,
           ctx.tabla = SinSegmento(c.tabla, r.args[1]),
           Atendido(p, ctx)
    PROVE  Simula
<1>1. PICK t, u, id, cs : /\ t = c.tabla /\ u = ctx.tabla /\ id = r.args[1]
                          /\ cs = {"DELETE_SEGMENT"}
   OBVIOUS
<1>2. /\ InstrDe(c).comando \in cs /\ InstrDe(c).comando = "DELETE_SEGMENT"
      /\ InstrDe(c).id = id
   BY <1>1 DEF Fiel
<1>3. /\ p \in Pids \ terminados /\ c.instrucciones = pcb[p].instrucciones /\ t = pcb[p].tabla
   BY <1>1 DEF Atendido, EnViaje
<1>4. /\ Sano(c) /\ c.program_counter < Len(c.instrucciones) /\ c.program_counter \in Nat
   BY DEF Respuesta, Sano
<1>5. TablaBien(t) /\ EnOrden(t) /\ Len(t) \in Nat BY <1>1, <1>3, <1>4 DEF Sano, Tablas, TablaBien
<1>6. PICK f : Quitada(t, u, id, f) BY <1>1, <1>5, SinLaEntrada
<1>7. /\ EnOrden(u)
      /\ \A k \in 2 .. Len(u) : f[k] \in 2 .. Len(t) /\ u[k] = t[f[k]] /\ u[k].id # id
   BY <1>5, <1>6, EnOrdenSinLaEntrada
<1>8. ASSUME NEW k \in 2 .. Len(u)
      PROVE  Creado(ctx.instrucciones, ctx.program_counter, u[k].id)
   <2>1. f[k] \in 2 .. Len(t) /\ u[k] = t[f[k]] /\ u[k].id # id BY <1>7
   <2>2. Creado(c.instrucciones, c.program_counter, u[k].id) BY <1>3, <2>1 DEF Tablas
   <2>3. ~(/\ c.instrucciones[c.program_counter + 1].comando = "DELETE_SEGMENT"
           /\ c.instrucciones[c.program_counter + 1].id = u[k].id)
      BY <1>2, <2>1 DEF InstrDe
   <2> QED BY <1>4, <2>2, <2>3, CreadoQueda
<1>9. /\ EnViaje' /\ Fieles' /\ Tablas' /\ pcb'[p].tabla = u
      /\ \A q \in Pids \ {p} : pcb'[q].tabla = pcb[q].tabla
      /\ Maquina!Sigue(p) /\ UNCHANGED <<registrosDe, segmentoComun, memoria, atascada>>
   <2>1. EnOrden(ctx.tabla) BY <1>1, <1>7
   <2>2. \A k \in 2 .. Len(ctx.tabla) :
            Creado(ctx.instrucciones, ctx.program_counter, ctx.tabla[k].id)
      BY <1>1, <1>8
   <2>3. ConTabla(p, ctx.tabla) BY <2>1, <2>2, ConOtraTabla
   <2> QED BY <1>1, <2>3 DEF ConTabla
<1>10. terminados' = terminados /\ memoria' = memoria BY <1>9
<1>11. Apartados'
   <2>1. \A i \in 1 .. Len(u) : f[i] \in 1 .. Len(t) /\ u[i] = t[f[i]] /\ (f[i] = 1 <=> i = 1)
      BY <1>6 DEF Quitada
   <2>2. \A i, j \in 1 .. Len(u) : f[i] = f[j] => i = j BY <1>6 DEF Quitada
   <2>3. ASSUME NEW q \in Pids \ terminados, NEW k \in 1 .. Len(pcb'[q].tabla)
         PROVE  \E i \in 1 .. Len(pcb[q].tabla) :
                   /\ pcb'[q].tabla[k] = pcb[q].tabla[i] /\ (i = 1 <=> k = 1)
                   /\ i = IF q = p THEN f[k] ELSE k
      BY <1>3, <1>9, <2>1
   <2>4. ASSUME NEW q1 \in Pids \ terminados, NEW q2 \in Pids \ terminados,
                NEW k \in 1 .. Len(pcb'[q1].tabla), NEW l \in 1 .. Len(pcb'[q2].tabla),
                <<q1, k>> # <<q2, l>>
         PROVE  (k = 1 /\ l = 1) \/ Aparte(pcb'[q1].tabla[k], pcb'[q2].tabla[l])
      <3>1. PICK i \in 1 .. Len(pcb[q1].tabla) :
               /\ pcb'[q1].tabla[k] = pcb[q1].tabla[i] /\ (i = 1 <=> k = 1)
               /\ i = IF q1 = p THEN f[k] ELSE k
         BY <2>3
      <3>2. PICK j \in 1 .. Len(pcb[q2].tabla) :
               /\ pcb'[q2].tabla[l] = pcb[q2].tabla[j] /\ (j = 1 <=> l = 1)
               /\ j = IF q2 = p THEN f[l] ELSE l
         BY <2>3
      <3>3. <<q1, i>> # <<q2, j>>
         <4>1. CASE q1 # q2 BY <4>1
         <4>2. CASE q1 = q2 /\ q1 # p BY <2>4, <3>1, <3>2, <4>2
         <4>3. CASE q1 = p /\ q2 = p
            <5>1. k # l BY <2>4, <4>3
            <5>2. k \in 1 .. Len(u) /\ l \in 1 .. Len(u) BY <1>9, <4>3
            <5>3. f[k] # f[l] BY <2>2, <5>1, <5>2
            <5> QED BY <3>1, <3>2, <4>3, <5>3
         <4> QED BY <4>1, <4>2, <4>3
      <3>4. (i = 1 /\ j = 1) \/ Aparte(pcb[q1].tabla[i], pcb[q2].tabla[j])
         BY <3>3 DEF Apartados
      <3> QED BY <3>1, <3>2, <3>4
   <2> QED BY <1>10, <2>4, ApartadosDespues
<1>12. /\ CualesSegmentos /\ SusCeldas /\ segmentosDe = [x \in SegmentosVivos |-> segmentosDe[x]]
   BY LosSegmentos DEF SegmentosPorTabla
<1>13. CualesSegmentos' /\ SusCeldas' /\ (segmentosDe = [x \in SegmentosVivos |-> segmentosDe[x]])'
   BY <1>9, LosSegmentosPrimados DEF SegmentosPorTabla
<1>14. \A k \in 2 .. Len(t) : (\E i \in 2 .. Len(u) : f[i] = k) <=> t[k].id # id
   BY <1>6 DEF Quitada
<1>15. SegmentosVivos' = SegmentosVivos \ {<<p, id>>}
   <2>1. ASSUME NEW x PROVE x \in SegmentosVivos' <=> x \in SegmentosVivos /\ x # <<p, id>>
      <3>1. x \in SegmentosVivos' <=>
               \E q \in Pids \ terminados : \E k \in 2 .. Len(pcb'[q].tabla) :
                  x = <<q, pcb'[q].tabla[k].id>>
         BY <1>10, <1>13 DEF CualesSegmentos
      <3>2. x \in SegmentosVivos <=>
               \E q \in Pids \ terminados : \E k \in 2 .. Len(pcb[q].tabla) :
                  x = <<q, pcb[q].tabla[k].id>>
         BY <1>12 DEF CualesSegmentos
      <3>3. ASSUME x \in SegmentosVivos' PROVE x \in SegmentosVivos /\ x # <<p, id>>
         <4>1. PICK q \in Pids \ terminados : \E k \in 2 .. Len(pcb'[q].tabla) :
                      x = <<q, pcb'[q].tabla[k].id>>
            BY <3>1, <3>3
         <4>2. PICK k \in 2 .. Len(pcb'[q].tabla) : x = <<q, pcb'[q].tabla[k].id>> BY <4>1
         <4>3. CASE q = p
            <5>1. k \in 2 .. Len(u) /\ x = <<p, u[k].id>> BY <1>9, <4>2, <4>3
            <5>2. f[k] \in 2 .. Len(t) /\ u[k] = t[f[k]] /\ u[k].id # id BY <1>7, <5>1
            <5>3. x = <<p, pcb[p].tabla[f[k]].id>> BY <1>3, <5>1, <5>2
            <5> QED BY <1>3, <3>2, <5>1, <5>2, <5>3
         <4>4. CASE q # p BY <1>9, <3>2, <4>2, <4>4
         <4> QED BY <4>3, <4>4
      <3>4. ASSUME x \in SegmentosVivos, x # <<p, id>> PROVE x \in SegmentosVivos'
         <4>1. PICK q \in Pids \ terminados : \E k \in 2 .. Len(pcb[q].tabla) :
                      x = <<q, pcb[q].tabla[k].id>>
            BY <3>2, <3>4
         <4>2. PICK k \in 2 .. Len(pcb[q].tabla) : x = <<q, pcb[q].tabla[k].id>> BY <4>1
         <4>3. CASE q = p
            <5>1. k \in 2 .. Len(t) /\ x = <<p, t[k].id>> BY <1>3, <4>2, <4>3
            <5>2. t[k].id # id BY <3>4, <5>1
            <5>3. PICK i \in 2 .. Len(u) : f[i] = k BY <1>14, <5>1, <5>2
            <5>4. u[i] = t[k] BY <1>7, <5>3
            <5> QED BY <1>3, <1>9, <3>1, <5>1, <5>3, <5>4
         <4>4. CASE q # p BY <1>9, <3>1, <4>2, <4>4
         <4> QED BY <4>3, <4>4
      <3> QED BY <3>3, <3>4
   <2> QED BY <2>1
<1>16. ASSUME NEW x \in SegmentosVivos, x # <<p, id>> PROVE segmentosDe'[x] = segmentosDe[x]
   <2>1. PICK q \in Pids \ terminados : \E k \in 2 .. Len(pcb[q].tabla) :
                x = <<q, pcb[q].tabla[k].id>>
      BY <1>12 DEF CualesSegmentos
   <2>2. PICK k \in 2 .. Len(pcb[q].tabla) : x = <<q, pcb[q].tabla[k].id>> BY <2>1
   <2>3. PICK l \in 2 .. Len(pcb'[q].tabla) : pcb'[q].tabla[l] = pcb[q].tabla[k]
      <3>1. CASE q = p
         <4>1. k \in 2 .. Len(t) /\ x = <<p, t[k].id>> BY <1>3, <2>2, <3>1
         <4>2. t[k].id # id BY <1>16, <4>1
         <4>3. PICK i \in 2 .. Len(u) : f[i] = k BY <1>14, <4>1, <4>2
         <4>4. u[i] = t[k] BY <1>7, <4>3
         <4> QED BY <1>3, <1>9, <3>1, <4>3, <4>4
      <3>2. CASE q # p BY <1>9, <2>2, <3>2
      <3> QED BY <3>1, <3>2
   <2>4. q \in Pids /\ q \notin terminados /\ q \notin terminados' BY <1>10, <2>1
   <2> QED BY <1>10, <1>12, <1>13, <2>2, <2>3, <2>4, MismasCeldas
<1>17. segmentosDe' = [x \in DOMAIN segmentosDe \ {<<p, id>>} |-> segmentosDe[x]]
   <2>1. DOMAIN segmentosDe = SegmentosVivos BY <1>12
   <2>2. segmentosDe' = [x \in SegmentosVivos \ {<<p, id>>} |-> segmentosDe'[x]]
      BY <1>13, <1>15
   <2> QED BY <1>16, <2>1, <2>2
<1>18. Maquina!EnPrograma(p, cs) /\ Maquina!Instr(p) = InstrDe(c)
   BY <1>2, <1>3, <1>4, EnSuPrograma
<1>19. Maquina!Delete(p)
   BY <1>1, <1>2, <1>9, <1>17, <1>18 DEF Maquina!Delete
<1>20. Maquina!Paso(p) BY <1>19 DEF Maquina!Paso
<1>21. atascada = FALSE /\ atascada' = FALSE /\ p \in Pids BY <1>3, <1>9 DEF CInv, Formas
<1> QED BY <1>9, <1>11, <1>20, <1>21, ConPaso

\* A program does not create a segment that it has.
LEMMA SegmentoNuevo ==
    ASSUME NEW pr \in Programas, NEW n \in Nat, n < Len(pr),
           pr[n + 1].comando = "CREATE_SEGMENT"
    PROVE  /\ pr[n + 1].id # 0 /\ pr[n + 1].id \in Int /\ pr[n + 1].size \in Nat
           /\ ~Creado(pr, n, pr[n + 1].id)
<1>1. PICK crea, m : /\ crea = {i \in 1 .. Len(pr) : pr[i].comando = "CREATE_SEGMENT"}
                     /\ m = n + 1
   OBVIOUS
<1>2. Len(pr) \in Nat BY CPUAssumption
<1>3. m \in crea /\ m \in 1 .. Len(pr) BY <1>1, <1>2
<1>4. /\ \A i \in crea : pr[i].id # 0 /\ pr[i].size >= 0
      /\ \A i, j \in crea : i < j /\ pr[i].id = pr[j].id =>
            \E k \in i + 1 .. j - 1 : pr[k].comando = "DELETE_SEGMENT" /\ pr[k].id = pr[i].id
   BY <1>1, SegmentosAssumption
<1>5. pr[m].id \in Int /\ pr[m].size \in Int BY <1>1, <1>3, CPUAssumption
<1>6. pr[m].id # 0 /\ pr[m].size \in Nat BY <1>3, <1>4, <1>5
<1>7. ASSUME Creado(pr, n, pr[m].id) PROVE FALSE
   <2>1. PICK j \in 1 .. n :
            /\ pr[j].comando = "CREATE_SEGMENT" /\ pr[j].id = pr[m].id
            /\ \A k \in j + 1 .. n : ~(pr[k].comando = "DELETE_SEGMENT" /\ pr[k].id = pr[m].id)
      BY <1>7 DEF Creado
   <2>2. j \in crea /\ j < m /\ m - 1 = n BY <1>1, <1>2, <2>1
   <2>3. PICK k \in j + 1 .. m - 1 : pr[k].comando = "DELETE_SEGMENT" /\ pr[k].id = pr[j].id
      BY <1>3, <1>4, <2>1, <2>2
   <2> QED BY <2>1, <2>2, <2>3
<1> QED BY <1>1, <1>5, <1>6, <1>7

\* u is t with e at the end
UnaMas(t, e, u) ==
    /\ EnOrden(u) /\ Len(t) \in Nat /\ Len(t) > 0 /\ Len(u) = Len(t) + 1
    /\ \A k \in 1 .. Len(t) : u[k] = t[k]
    /\ u[Len(t) + 1] = e

\* The table with one more entry, of a new id, is in order.
LEMMA EnOrdenConUnaMas ==
    ASSUME NEW t, TablaBien(t), EnOrden(t), NEW e, e \in Entradas,
           e.id # 0, e.base \in Nat, e.size \in Nat, \A k \in 2 .. Len(t) : t[k].id # e.id,
           NEW u, u = Append(t, e)
    PROVE  UnaMas(t, e, u)
<1>1. PICK n : n = Len(t) OBVIOUS
<1>2. n \in Nat /\ n > 0 /\ t \in Seq(Entradas) BY <1>1 DEF TablaBien
<1>3. /\ Len(u) = n + 1 /\ u[n + 1] = e /\ \A k \in 1 .. n : u[k] = t[k]
   BY <1>1, <1>2
<1>4. \A k \in 1 .. n + 1 : k \in 1 .. n \/ k = n + 1 BY <1>2
<1>5. t[1] = entradaSegm0 /\ t[1].id = 0 /\ u[1] = t[1] BY <1>2, <1>3 DEF EnOrden, entradaSegm0
<1>6. \A k \in 1 .. n : t[k].id # e.id
   <2>1. \A k \in 1 .. n : k = 1 \/ k \in 2 .. n BY <1>2
   <2> QED BY <1>1, <1>5, <2>1
<1>7. \A k \in 2 .. n + 1 : u[k].id # 0 /\ u[k].base \in Nat /\ u[k].size \in Nat
   <2>1. \A k \in 2 .. n + 1 : (k \in 2 .. n /\ k \in 1 .. n) \/ k = n + 1 BY <1>2
   <2> QED BY <1>1, <1>3, <2>1 DEF EnOrden
<1>8. \A k, l \in 1 .. n + 1 : u[k].id = u[l].id => k = l
   BY <1>1, <1>3, <1>4, <1>6 DEF EnOrden
<1>9. EnOrden(u) BY <1>3, <1>5, <1>7, <1>8 DEF EnOrden
<1> QED BY <1>1, <1>2, <1>3, <1>9 DEF UnaMas

\* CREATE_SEGMENT adds one segment, or ends the process.
LEMMA CreaSimula ==
    ASSUME CInv, CInv', EnViaje, Tablas, Apartados, ~atascada, UNCHANGED terminados,
           NEW p, NEW r, NEW c, NEW ctx, c = r.ctx, Vigente(p) = c, Respuesta(r), Fiel(r),
           r.codigo = "REQ_CREATE_SEGMENT",
           Sano(ctx), ctx.pid = p, ctx.instrucciones = c.instrucciones,
           ctx.registros = c.registros, ctx.program_counter = c.program_counter + 1,
           NEW b \in Celdas, Rango(b, r.args[2]) \subseteq Celdas,
           Rango(b, r.args[2]) \cap Ocupadas = {},
           ctx.tabla = Append(c.tabla, [id |-> r.args[1], base |-> b, size |-> r.args[2]]),
           Atendido(p, ctx)
    PROVE  Simula
<1>1. PICK t, u, id, n, cs, e, pr, m :
          /\ t = c.tabla /\ u = ctx.tabla /\ id = r.args[1] /\ n = r.args[2]
          /\ cs = {"CREATE_SEGMENT"} /\ e = [id |-> id, base |-> b, size |-> n]
          /\ pr = c.instrucciones /\ m = c.program_counter
   OBVIOUS
<1>2. /\ InstrDe(c).comando \in cs /\ pr[m + 1].comando = "CREATE_SEGMENT"
      /\ InstrDe(c).id = id /\ InstrDe(c).size = n /\ pr[m + 1] = InstrDe(c)
   BY <1>1 DEF Fiel, InstrDe
<1>3. /\ p \in Pids \ terminados /\ pr = pcb[p].instrucciones /\ t = pcb[p].tabla
   BY <1>1 DEF Atendido, EnViaje
<1>4. /\ Sano(c) /\ m < Len(pr) /\ m \in Nat /\ pr \in Programas
   BY <1>1 DEF Respuesta, Sano
<1>5. TablaBien(t) /\ EnOrden(t) BY <1>1, <1>3, <1>4 DEF Sano, Tablas
<1>6. id # 0 /\ id \in Int /\ n \in Nat /\ ~Creado(pr, m, id) BY <1>2, <1>4, SegmentoNuevo
<1>7. \A k \in 2 .. Len(t) : Creado(pr, m, t[k].id) BY <1>1, <1>3 DEF Tablas
<1>8. \A k \in 2 .. Len(t) : t[k].id # id BY <1>6, <1>7
<1>9. /\ e.id = id /\ e.base = b /\ e.size = n /\ e \in Entradas
      /\ e.base \in Nat /\ e.size \in Nat
   BY <1>1, <1>6, CPUAssumption DEF Entradas, Celdas
<1>10. /\ EnOrden(u) /\ Len(t) \in Nat /\ Len(t) > 0 /\ Len(u) = Len(t) + 1
       /\ \A k \in 1 .. Len(t) : u[k] = t[k]
       /\ u[Len(t) + 1] = e
   <2>1. u = Append(t, e) BY <1>1
   <2>2. e.id # 0 /\ \A k \in 2 .. Len(t) : t[k].id # e.id BY <1>6, <1>8, <1>9
   <2>3. UnaMas(t, e, u) BY <1>5, <1>9, <2>1, <2>2, EnOrdenConUnaMas
   <2> QED BY <2>3 DEF UnaMas
<1>11. ASSUME NEW k \in 2 .. Len(u)
       PROVE  Creado(ctx.instrucciones, ctx.program_counter, u[k].id)
   <2>1. CASE k \in 2 .. Len(t)
      <3>1. u[k] = t[k] BY <1>10, <2>1
      <3>2. ~(pr[m + 1].comando = "DELETE_SEGMENT" /\ pr[m + 1].id = u[k].id) BY <1>2
      <3> QED BY <1>1, <1>4, <1>7, <2>1, <3>1, <3>2, CreadoQueda
   <2>2. CASE k = Len(t) + 1
      <3>1. u[k].id = id BY <1>9, <1>10, <2>2
      <3>2. m + 1 \in 1 .. m + 1 /\ m + 2 .. m + 1 = {} BY <1>4
      <3>3. Creado(pr, m + 1, id) BY <1>2, <1>4, <3>2 DEF Creado
      <3> QED BY <1>1, <3>1, <3>3
   <2> QED BY <1>10, <2>1, <2>2
<1>12. /\ EnViaje' /\ Fieles' /\ Tablas' /\ pcb'[p].tabla = u
       /\ \A q \in Pids \ {p} : pcb'[q].tabla = pcb[q].tabla
       /\ Maquina!Sigue(p) /\ UNCHANGED <<registrosDe, segmentoComun, memoria, atascada>>
   <2>1. EnOrden(ctx.tabla) BY <1>1, <1>10
   <2>2. \A k \in 2 .. Len(ctx.tabla) :
            Creado(ctx.instrucciones, ctx.program_counter, ctx.tabla[k].id)
      BY <1>1, <1>11
   <2>3. ConTabla(p, ctx.tabla) BY <2>1, <2>2, ConOtraTabla
   <2> QED BY <1>1, <2>3 DEF ConTabla
<1>13. terminados' = terminados /\ memoria' = memoria BY <1>12
<1>14. ASSUME NEW q \in Pids \ terminados, NEW k \in 1 .. Len(pcb[q].tabla)
       PROVE  Aparte(e, pcb[q].tabla[k]) /\ Aparte(pcb[q].tabla[k], e)
   <2>1. PICK f : f = pcb[q].tabla[k] OBVIOUS
   <2>2. pcb[q].tabla \in Seq(Entradas) BY DEF CInv, Formas, Sano, TablaBien
   <2>3. f \in ToSet(pcb[q].tabla) BY <2>1, <2>2 DEF ToSet
   <2>4. f \in UNION {ToSet(pcb[x].tabla) : x \in Pids \ terminados} BY <2>3
   <2>5. Rango(f.base, f.size) \subseteq Ocupadas BY <2>4 DEF Ocupadas
   <2>6. Rango(e.base, e.size) \cap Ocupadas = {} BY <1>1, <1>9
   <2> QED BY <2>1, <2>5, <2>6 DEF Aparte
<1>15. ASSUME NEW q \in Pids \ terminados, NEW k \in 1 .. Len(pcb'[q].tabla)
       PROVE  \/ k \in 1 .. Len(pcb[q].tabla) /\ pcb'[q].tabla[k] = pcb[q].tabla[k]
              \/ q = p /\ k = Len(t) + 1 /\ pcb'[q].tabla[k] = e
   <2>1. CASE q = p
      <3>1. k \in 1 .. Len(t) \/ k = Len(t) + 1 BY <1>10, <1>12, <2>1
      <3> QED BY <1>3, <1>10, <1>12, <2>1, <3>1
   <2>2. CASE q # p BY <1>12, <2>2
   <2> QED BY <2>1, <2>2
<1>16. Apartados'
   <2>1. ASSUME NEW q1 \in Pids \ terminados, NEW q2 \in Pids \ terminados,
                NEW k \in 1 .. Len(pcb'[q1].tabla), NEW l \in 1 .. Len(pcb'[q2].tabla),
                <<q1, k>> # <<q2, l>>
         PROVE  (k = 1 /\ l = 1) \/ Aparte(pcb'[q1].tabla[k], pcb'[q2].tabla[l])
      <3>1. CASE /\ k \in 1 .. Len(pcb[q1].tabla) /\ pcb'[q1].tabla[k] = pcb[q1].tabla[k]
                 /\ l \in 1 .. Len(pcb[q2].tabla) /\ pcb'[q2].tabla[l] = pcb[q2].tabla[l]
         BY <2>1, <3>1 DEF Apartados
      <3>2. CASE /\ k \in 1 .. Len(pcb[q1].tabla) /\ pcb'[q1].tabla[k] = pcb[q1].tabla[k]
                 /\ pcb'[q2].tabla[l] = e
         BY <1>14, <3>2
      <3>3. CASE /\ l \in 1 .. Len(pcb[q2].tabla) /\ pcb'[q2].tabla[l] = pcb[q2].tabla[l]
                 /\ pcb'[q1].tabla[k] = e
         BY <1>14, <3>3
      <3>4. ~(q1 = p /\ k = Len(t) + 1 /\ q2 = p /\ l = Len(t) + 1) BY <2>1
      <3> QED BY <1>15, <3>1, <3>2, <3>3, <3>4
   <2> QED BY <1>13, <2>1, ApartadosDespues
<1>17. /\ CualesSegmentos /\ SusCeldas /\ segmentosDe = [x \in SegmentosVivos |-> segmentosDe[x]]
   BY LosSegmentos DEF SegmentosPorTabla
<1>18. CualesSegmentos' /\ SusCeldas' /\ (segmentosDe = [x \in SegmentosVivos |-> segmentosDe[x]])'
   BY <1>12, LosSegmentosPrimados DEF SegmentosPorTabla
<1>19. PICK nuevo : nuevo = <<p, id>> OBVIOUS
<1>20. nuevo \notin SegmentosVivos
   <2>1. ASSUME nuevo \in SegmentosVivos PROVE FALSE
      <3>1. PICK q \in Pids \ terminados : \E k \in 2 .. Len(pcb[q].tabla) :
                   nuevo = <<q, pcb[q].tabla[k].id>>
         BY <1>17, <2>1 DEF CualesSegmentos
      <3>2. PICK k \in 2 .. Len(pcb[q].tabla) : nuevo = <<q, pcb[q].tabla[k].id>> BY <3>1
      <3>3. q = p /\ pcb[q].tabla[k].id = id BY <1>19, <3>2
      <3> QED BY <1>3, <1>8, <3>2, <3>3
   <2> QED BY <2>1
<1>21. SegmentosVivos' = SegmentosVivos \cup {nuevo}
   <2>1. ASSUME NEW x PROVE x \in SegmentosVivos' <=> x \in SegmentosVivos \/ x = nuevo
      <3>1. x \in SegmentosVivos' <=>
               \E q \in Pids \ terminados : \E k \in 2 .. Len(pcb'[q].tabla) :
                  x = <<q, pcb'[q].tabla[k].id>>
         BY <1>13, <1>18 DEF CualesSegmentos
      <3>2. x \in SegmentosVivos <=>
               \E q \in Pids \ terminados : \E k \in 2 .. Len(pcb[q].tabla) :
                  x = <<q, pcb[q].tabla[k].id>>
         BY <1>17 DEF CualesSegmentos
      <3>3. ASSUME x \in SegmentosVivos' PROVE x \in SegmentosVivos \/ x = nuevo
         <4>1. PICK q \in Pids \ terminados : \E k \in 2 .. Len(pcb'[q].tabla) :
                      x = <<q, pcb'[q].tabla[k].id>>
            BY <3>1, <3>3
         <4>2. PICK k \in 2 .. Len(pcb'[q].tabla) : x = <<q, pcb'[q].tabla[k].id>> BY <4>1
         <4>3. \/ k \in 1 .. Len(pcb[q].tabla) /\ pcb'[q].tabla[k] = pcb[q].tabla[k]
               \/ q = p /\ pcb'[q].tabla[k] = e
            <5>1. k \in 1 .. Len(pcb'[q].tabla) BY <4>2
            <5> QED BY <1>15, <5>1
         <4>4. CASE k \in 1 .. Len(pcb[q].tabla) /\ pcb'[q].tabla[k] = pcb[q].tabla[k]
            <5>1. k \in 2 .. Len(pcb[q].tabla) BY <4>2, <4>4
            <5> QED BY <3>2, <4>2, <4>4, <5>1
         <4>5. CASE q = p /\ pcb'[q].tabla[k] = e BY <1>9, <1>19, <4>2, <4>5
         <4> QED BY <4>3, <4>4, <4>5
      <3>4. ASSUME x \in SegmentosVivos PROVE x \in SegmentosVivos'
         <4>1. PICK q \in Pids \ terminados : \E k \in 2 .. Len(pcb[q].tabla) :
                      x = <<q, pcb[q].tabla[k].id>>
            BY <3>2, <3>4
         <4>2. PICK k \in 2 .. Len(pcb[q].tabla) : x = <<q, pcb[q].tabla[k].id>> BY <4>1
         <4>3. CASE q = p
            <5>1. k \in 2 .. Len(u) /\ u[k] = t[k] BY <1>3, <1>10, <4>2, <4>3
            <5> QED BY <1>3, <1>12, <3>1, <4>2, <4>3, <5>1
         <4>4. CASE q # p BY <1>12, <3>1, <4>2, <4>4
         <4> QED BY <4>3, <4>4
      <3>5. nuevo \in SegmentosVivos'
         <4>1. PICK k : k = Len(t) + 1 OBVIOUS
         <4>2. k \in 2 .. Len(u) /\ u[k] = e BY <1>10, <4>1
         <4>3. nuevo = <<p, pcb'[p].tabla[k].id>> BY <1>9, <1>12, <1>19, <4>2
         <4>4. p \in Pids \ terminados' /\ k \in 2 .. Len(pcb'[p].tabla) BY <1>3, <1>12, <1>13, <4>2
         <4> QED BY <1>18, <4>3, <4>4 DEF CualesSegmentos
      <3> QED BY <3>3, <3>4, <3>5
   <2> QED BY <2>1
<1>22. ASSUME NEW x \in SegmentosVivos PROVE segmentosDe'[x] = segmentosDe[x]
   <2>1. PICK q \in Pids \ terminados : \E k \in 2 .. Len(pcb[q].tabla) :
                x = <<q, pcb[q].tabla[k].id>>
      BY <1>17 DEF CualesSegmentos
   <2>2. PICK k \in 2 .. Len(pcb[q].tabla) : x = <<q, pcb[q].tabla[k].id>> BY <2>1
   <2>3. k \in 2 .. Len(pcb'[q].tabla) /\ pcb'[q].tabla[k] = pcb[q].tabla[k]
      <3>1. CASE q = p BY <1>3, <1>10, <1>12, <2>2, <3>1
      <3>2. CASE q # p BY <1>12, <2>2, <3>2
      <3> QED BY <3>1, <3>2
   <2>4. q \in Pids /\ q \notin terminados /\ q \notin terminados' BY <1>13, <2>1
   <2> QED BY <1>13, <1>17, <1>18, <2>2, <2>3, <2>4, MismasCeldas
<1>23. Len(segmentosDe'[nuevo]) = n
   <2>1. PICK k : k = Len(t) + 1 OBVIOUS
   <2>2. k \in 2 .. Len(u) /\ u[k] = e BY <1>10, <2>1
   <2>3. p \in Pids \ terminados' /\ k \in 2 .. Len(pcb'[p].tabla) BY <1>3, <1>12, <1>13, <2>2
   <2>4. pcb'[p].tabla[k] = e BY <1>12, <2>2
   <2>5. segmentosDe'[nuevo] = Leidas(e.base, e.size)'
      BY <1>9, <1>18, <1>19, <2>3, <2>4 DEF SusCeldas
   <2> QED BY <1>6, <1>9, <2>5 DEF Leidas
<1>24. DOMAIN segmentosDe = SegmentosVivos /\ DOMAIN segmentosDe' = SegmentosVivos \cup {nuevo}
   <2>1. DOMAIN segmentosDe' = SegmentosVivos' BY <1>18
   <2> QED BY <1>17, <1>21, <2>1
<1>25. Maquina!EnPrograma(p, cs) /\ Maquina!Instr(p) = InstrDe(c)
   BY <1>1, <1>2, <1>3, <1>4, EnSuPrograma
<1>26. Maquina!Create(p)
   BY <1>1, <1>2, <1>12, <1>19, <1>20, <1>22, <1>23, <1>24, <1>25 DEF Maquina!Create
<1>27. Maquina!Paso(p) BY <1>26 DEF Maquina!Paso
<1>28. atascada = FALSE /\ atascada' = FALSE /\ p \in Pids BY <1>3, <1>12 DEF CInv, Formas
<1> QED BY <1>12, <1>16, <1>27, <1>28, ConPaso

\* Every answer that the Kernel attends.
LEMMA AtiendeSimula ==
    ASSUME CInv, CInv', EnViaje, Fieles, Tablas, Apartados, ~atascada, Recibe, Atiende
    PROVE  Simula
<1>1. PICK p, r, c, ctx :
          /\ p = enExec /\ r = Head(aKernel) /\ c = r.ctx /\ Vigente(p) = c
          /\ Respuesta(r) /\ Fiel(r) /\ r.codigo \notin Errores \cup {"REQ_EXIT"}
          /\ Sano(ctx) /\ ctx.pid = p
          /\ ctx.instrucciones = c.instrucciones /\ ctx.registros = c.registros
          /\ Servida(r, c, ctx)
          /\ Atendido(p, ctx) /\ UNCHANGED terminados
   BY AtiendeComo
<1>2. CASE /\ ctx.tabla = c.tabla
           /\ \/ ctx.program_counter = c.program_counter
              \/ /\ ctx.program_counter = c.program_counter + 1
                 /\ r.codigo \notin {"REQ_CREATE_SEGMENT", "REQ_DELETE_SEGMENT"}
   BY <1>1, <1>2, AtiendeSinTabla
<1>3. CASE /\ r.codigo = "REQ_DELETE_SEGMENT"
           /\ ctx.program_counter = c.program_counter + 1
           /\ ctx.tabla = SinSegmento(c.tabla, r.args[1])
   BY <1>1, <1>3, BorraSimula
<1>4. CASE /\ r.codigo = "REQ_CREATE_SEGMENT"
           /\ ctx.program_counter = c.program_counter + 1
           /\ \E b \in Celdas :
                 /\ Rango(b, r.args[2]) \subseteq Celdas /\ Rango(b, r.args[2]) \cap Ocupadas = {}
                 /\ ctx.tabla = Append(c.tabla, [id |-> r.args[1], base |-> b, size |-> r.args[2]])
   <2>1. PICK b \in Celdas :
            /\ Rango(b, r.args[2]) \subseteq Celdas /\ Rango(b, r.args[2]) \cap Ocupadas = {}
            /\ ctx.tabla = Append(c.tabla, [id |-> r.args[1], base |-> b, size |-> r.args[2]])
      BY <1>4
   <2> QED BY <1>1, <1>4, <2>1, CreaSimula
<1> QED BY <1>1, <1>2, <1>3, <1>4 DEF Servida

\* Nobody forgets that an instruction failed.
LEMMA NoSeOlvida == ASSUME CInv, Next, atascada PROVE atascada'
<1>1. \A m : SegmentoInexistente(m) \/ FueraCallado(m) \/ SegmentationFault(m) => atascada'
   BY DEF SegmentoInexistente, FueraCallado, SegmentationFault, Falla
<1>2. \A codigo, args : Pide(codigo, args) => atascada' BY DEF Pide
<1>3. CASE RecibePCB \/ Muere \/ MuerePorPuntero \/ exe_SET \/ exe_MOV_IN \/ exe_MOV_OUT
   BY <1>3 DEF RecibePCB, Muere, MuerePorPuntero, exe_SET, exe_MOV_IN, exe_MOV_OUT
<1>4. CASE MOVFallido BY <1>1, <1>4 DEF MOVFallido
<1>5. CASE PideAlgo
   BY <1>2, <1>5
   DEF PideAlgo, exe_Directo, exe_F_OPEN, exe_DELETE_SEGMENT, exe_CREATE_SEGMENT, exe_Archivo
<1>6. CASE ArchivoNoAbierto BY <1>6 DEF ArchivoNoAbierto, Falla
<1>7. CASE exe_ArchivoConMemoria BY <1>1, <1>2, <1>7 DEF exe_ArchivoConMemoria
<1>8. CASE \E p \in Pids : Envio(p) BY <1>8 DEF Envio
<1>9. CASE Recibe BY <1>9 DEF Recibe
<1> QED BY <1>3, <1>4, <1>5, <1>6, <1>7, <1>8, <1>9 DEF Next, CPU, PideAlgo

\* Every step is one of a machine, or none.
LEMMA PasoSimula == ASSUME CInv, CInv', MaqInv, Next PROVE Simula
<1>1. CASE atascada'
   <2>1. MaqInv' BY <1>1 DEF MaqInv
   <2>2. Maquina!Next BY <1>1 DEF Maquina!Next
   <2> QED BY <2>1, <2>2 DEF Simula
<1>2. CASE ~atascada'
   <2>1. ~atascada BY <1>2, NoSeOlvida
   <2>2. EnViaje /\ Fieles /\ Tablas /\ Apartados BY <2>1 DEF MaqInv
   <2>3. CASE RecibePCB BY <2>1, <2>2, <2>3, RecibeSimula
   <2>4. CASE Muere \/ MuerePorPuntero BY <2>2, <2>4, MuereSimula
   <2>5. CASE exe_SET BY <2>1, <2>2, <2>5, SetSimula
   <2>6. CASE exe_MOV_IN BY <2>1, <2>2, <2>6, MovInSimula
   <2>7. CASE exe_MOV_OUT BY <2>1, <2>2, <2>7, MovOutSimula
   <2>8. CASE PideAlgo BY <2>1, <2>2, <2>8, PideSimula
   <2>9. CASE MOVFallido \/ ArchivoNoAbierto \/ exe_ArchivoConMemoria
      BY <1>2, <2>1, <2>2, <2>9, FallaSimula
   <2>10. CASE \E p \in Pids : Envio(p) BY <2>1, <2>2, <2>10, EnvioSimula
   <2>11. CASE Recibe
      <3>1. Finaliza \/ Atiende BY <2>11 DEF Recibe
      <3>2. CASE Finaliza BY <2>1, <2>2, <2>11, <3>2, TerminaSimula
      <3>3. CASE Atiende BY <2>1, <2>2, <2>11, <3>3, AtiendeSimula
      <3> QED BY <3>1, <3>2, <3>3
   <2> QED
      BY <2>3, <2>4, <2>5, <2>6, <2>7, <2>8, <2>9, <2>10, <2>11 DEF Next, CPU, PideAlgo
<1> QED BY <1>1, <1>2

\* A step that changes nothing.
LEMMA QuietoSimula == ASSUME MaqInv, UNCHANGED vars PROVE Simula
<1>1. UNCHANGED <<pcb, enExec, terminados, aCPU, aKernel, pcb_actual, memoria, atascada>>
   BY DEF vars
<1>2. \A q : Vigente(q)' = Vigente(q) BY <1>1 DEF Vigente
<1>3. MaqInv'
   <2>1. EnViaje => EnViaje'
      <3>1. \A q : Sano(Vigente(q)) => Sano(Vigente(q))'
         BY <1>2 DEF Sano, RegistrosBien, TablaBien
      <3> QED BY <1>1, <1>2, <3>1 DEF EnViaje
   <2>2. Fieles => Fieles' BY <1>1, FielesDespues DEF Fieles
   <2>3. Tablas => Tablas' BY <1>1, <1>2, TablasDespues DEF Tablas
   <2>4. Apartados => Apartados' BY <1>1, ApartadosDespues DEF Apartados
   <2> QED BY <1>1, <2>1, <2>2, <2>3, <2>4 DEF MaqInv
<1>4. UNCHANGED <<programaDe, contadorDe, registrosDe, vivos>>
   BY <1>1, <1>2 DEF programaDe, contadorDe, registrosDe, vivos
<1>5. SegmentosVivos' = SegmentosVivos BY <1>1, <1>2 DEF SegmentosVivos
<1>6. \A b, n : Leidas(b, n)' = Leidas(b, n) BY <1>1 DEF Leidas
<1>7. UNCHANGED segmentosDe BY <1>2, <1>5, <1>6 DEF segmentosDe
<1>8. UNCHANGED segmentoComun BY <1>1 DEF segmentoComun, Leidas
<1>9. UNCHANGED Maquina!vars BY <1>1, <1>4, <1>7, <1>8 DEF Maquina!vars
<1> QED BY <1>3, <1>9 DEF Simula

\* At the start there is a machine for each program.
LEMMA InitSimula == Init => MaqInv /\ Maquina!Init
<1> SUFFICES ASSUME Init PROVE MaqInv /\ Maquina!Init OBVIOUS
<1>1. CInv BY InitCInv
<1>2. /\ enExec = -1 /\ terminados = {} /\ aKernel = <<>> /\ atascada = FALSE
      /\ \A p \in Pids : pcb[p].pid = p /\ pcb[p].tabla = <<entradaSegm0>>
                         /\ pcb[p].program_counter = 0
   BY DEF Init
<1>3. \A p \in Pids : enExec # p BY <1>2, CPUAssumption
<1>4. \A p \in Pids : Vigente(p) = pcb[p] BY <1>1, <1>3, Vistas DEF Vista
<1>5. EnViaje BY <1>1, <1>2, <1>4 DEF EnViaje, CInv, Formas
<1>6. Fieles BY <1>2 DEF Fieles
<1>7. \A p \in Pids : Len(pcb[p].tabla) = 1 /\ pcb[p].tabla[1] = entradaSegm0
   <2>1. \A e : Len(<<e>>) = 1 /\ <<e>>[1] = e OBVIOUS
   <2> QED BY <1>2, <2>1
<1>8. Tablas BY <1>7 DEF Tablas, EnOrden
<1>9. Apartados BY <1>7 DEF Apartados
<1>10. MaqInv BY <1>5, <1>6, <1>8, <1>9 DEF MaqInv
<1>11. /\ CualesSegmentos /\ segmentosDe = [x \in SegmentosVivos |-> segmentosDe[x]]
   BY <1>1, <1>5, <1>8, LosSegmentos DEF SegmentosPorTabla
<1>12. SegmentosVivos = {} BY <1>7, <1>11 DEF CualesSegmentos
<1>13. segmentosDe = [k \in {} |-> <<>>] BY <1>11, <1>12
<1>14. contadorDe = [p \in Pids |-> 0] BY <1>2, <1>4 DEF contadorDe
<1>15. vivos = [p \in Pids |-> TRUE] BY <1>2 DEF vivos
<1>16. Maquina!Init BY <1>2, <1>13, <1>14, <1>15 DEF Maquina!Init
<1> QED BY <1>10, <1>16

\* Programs run as if each had a CPU of its own: CicloCPU implements MaquinaPorProceso.
THEOREM UnaMaquinaPorProceso == Spec => ImplementaMaquina
<1>1. Init => MaqInv /\ Maquina!Init BY InitSimula
<1>2. CInv /\ CInv' /\ MaqInv /\ [Next]_vars => MaqInv' /\ [Maquina!Next]_(Maquina!vars)
   BY PasoSimula, QuietoSimula DEF Simula
<1>3. Spec => []CInv BY CicloInductivo
<1> QED BY <1>1, <1>2, <1>3, PTL DEF Spec, ImplementaMaquina, Maquina!Spec
=============================================================================
