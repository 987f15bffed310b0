-------------------------- MODULE MaquinaPorProceso --------------------------
(***************************************************************************)
(* What the CPU promises to programs: each process has a machine of its    *)
(* own, with its registers, its program counter and its segments, whoever  *)
(* runs in between; only segment 0 is shared.  Two registers are volatile. *)
(* The promise ends (conforme) when an instruction fails and the CPU goes  *)
(* on with it.                                                             *)
(***************************************************************************)
EXTENDS Integers, Sequences

CONSTANTS
    Pids,
    Volatiles,          \* registers that do not survive a change of process
    Tam(_),             \* cells of a register
    Nombre(_),          \* the register a name stands for
    tam_max_segmento

VARIABLES
    programa,   \* of each process
    pc, registros, vivo,
    segmentos,  \* segmentos[<<p, id>>]: the cells of each segment, 0 apart
    comun,      \* the cells of segment 0
    conforme

vars == <<programa, pc, registros, vivo, segmentos, comun, conforme>>

Instr(p) == programa[p][pc[p] + 1]
EnPrograma(p, comandos) ==
    vivo[p] /\ pc[p] < Len(programa[p]) /\ Instr(p).comando \in comandos

Sigue(p) ==
    /\ pc' = [pc EXCEPT ![p] = @ + 1]
    /\ UNCHANGED <<programa, vivo>>

\* the cells of the segment that a logical address of p falls in
Contenido(p, dir) ==
    LET id == dir \div tam_max_segmento IN IF id = 0 THEN comun ELSE segmentos[<<p, id>>]

Existe(p, dir) ==
    dir \div tam_max_segmento = 0 \/ <<p, dir \div tam_max_segmento>> \in DOMAIN segmentos

Cabe(p, dir, tam) ==
    Existe(p, dir) /\ (dir % tam_max_segmento) + tam <= Len(Contenido(p, dir))

Asigna(p, valor) ==
    IF Nombre(Instr(p).reg) \in Volatiles THEN UNCHANGED registros
    ELSE registros' = [registros EXCEPT ![p][Nombre(Instr(p).reg)] = valor]

Set(p) ==
    /\ EnPrograma(p, {"SET"})
    /\ Asigna(p, Instr(p).valor)
    /\ Sigue(p) /\ UNCHANGED <<segmentos, comun>>

MovIn(p) ==
    /\ EnPrograma(p, {"MOV_IN"})
    /\ LET dir == Instr(p).dir
           tam == Tam(Nombre(Instr(p).reg))
           d   == dir % tam_max_segmento
       IN  /\ Cabe(p, dir, tam)
           /\ Asigna(p, SubSeq(Contenido(p, dir), d + 1, d + tam))
    /\ Sigue(p) /\ UNCHANGED <<segmentos, comun>>

\* the segment with the register in it: of a volatile one, anything
Escrito(antes, despues, p, d, reg) ==
    /\ DOMAIN antes = DOMAIN despues
    /\ \A i \in DOMAIN antes :
         IF i \in d + 1 .. d + Tam(reg)
         THEN reg \notin Volatiles => despues[i] = registros[p][reg][i - d]
         ELSE despues[i] = antes[i]

MovOut(p) ==
    /\ EnPrograma(p, {"MOV_OUT"})
    /\ LET dir == Instr(p).dir
           id  == dir \div tam_max_segmento
           d   == dir % tam_max_segmento
           reg == Nombre(Instr(p).reg)
       IN  /\ Cabe(p, dir, Tam(reg))
           /\ IF id = 0 THEN Escrito(comun, comun', p, d, reg) /\ UNCHANGED segmentos
              ELSE /\ DOMAIN segmentos' = DOMAIN segmentos
                   /\ \A k \in DOMAIN segmentos \ {<<p, id>>} : segmentos'[k] = segmentos[k]
                   /\ Escrito(segmentos[<<p, id>>], segmentos'[<<p, id>>], p, d, reg)
                   /\ UNCHANGED comun
    /\ Sigue(p) /\ UNCHANGED registros

Create(p) ==
    /\ EnPrograma(p, {"CREATE_SEGMENT"})
    /\ LET k == <<p, Instr(p).id>>
       IN  /\ k \notin DOMAIN segmentos
           /\ DOMAIN segmentos' = DOMAIN segmentos \cup {k}
           /\ Len(segmentos'[k]) = Instr(p).size
           /\ \A l \in DOMAIN segmentos : segmentos'[l] = segmentos[l]
    /\ Sigue(p) /\ UNCHANGED <<registros, comun>>

Delete(p) ==
    /\ EnPrograma(p, {"DELETE_SEGMENT"})
    /\ segmentos' = [k \in DOMAIN segmentos \ {<<p, Instr(p).id>>} |-> segmentos[k]]
    /\ Sigue(p) /\ UNCHANGED <<registros, comun>>

\* a call to the system, which does what it does elsewhere
Llamada(p) ==
    /\ EnPrograma(p, {"I/O", "WAIT", "SIGNAL", "YIELD", "F_OPEN", "F_CLOSE", "F_SEEK",
                      "F_TRUNCATE", "F_READ", "F_WRITE"})
    /\ Sigue(p) /\ UNCHANGED <<registros, segmentos, comun>>

\* EXIT, an error, or the Kernel's decision
Termina(p) ==
    /\ vivo[p]
    /\ vivo' = [vivo EXCEPT ![p] = FALSE]
    /\ segmentos' = [k \in {l \in DOMAIN segmentos : l[1] # p} |-> segmentos[k]]
    /\ UNCHANGED <<programa, pc, registros, comun>>

Init ==
    /\ pc = [p \in Pids |-> 0] /\ vivo = [p \in Pids |-> TRUE]
    /\ segmentos = [k \in {} |-> <<>>]
    /\ conforme = TRUE

Paso(p) ==
    Set(p) \/ MovIn(p) \/ MovOut(p) \/ Create(p) \/ Delete(p) \/ Llamada(p) \/ Termina(p)

Next ==
    \/ conforme' = TRUE /\ conforme = TRUE /\ \E p \in Pids : Paso(p)
    \/ conforme' = FALSE

Spec == Init /\ [][Next]_vars
=============================================================================
