--------------------------- MODULE LocksDeArchivos ---------------------------
(***************************************************************************)
(* What the Kernel promises to the programs that use files: a file is open *)
(* for one process at a time, and a process reads and writes at the place  *)
(* where its last F_SEEK since F_OPEN put it, unless its request goes out  *)
(* as another one.                                                         *)
(***************************************************************************)
EXTENDS Integers

CONSTANTS Pids, Archivos, Posiciones

VARIABLES
    abiertos,   \* the files each process has open
    posicion,   \* of each process in each file; 0 when it is not open
    ultima,     \* the last transfer: whose, of which file, where; <<>> when it
                \* went out as another one
    conforme    \* FALSE once the Kernel has done something undefined

vars == <<abiertos, posicion, ultima, conforme>>

Abre(p, f) ==
    /\ \A q \in Pids : f \notin abiertos[q]
    /\ abiertos' = [abiertos EXCEPT ![p] = @ \cup {f}]
    /\ UNCHANGED <<posicion, ultima>>

Cierra(p, f) ==
    /\ f \in abiertos[p]
    /\ abiertos' = [abiertos EXCEPT ![p] = @ \ {f}]
    /\ posicion' = [posicion EXCEPT ![p][f] = 0]
    /\ UNCHANGED ultima

Mueve(p, f) ==
    /\ f \in abiertos[p]
    /\ \E n \in Posiciones : posicion' = [posicion EXCEPT ![p][f] = n]
    /\ UNCHANGED <<abiertos, ultima>>

Transfiere(p, f) ==
    /\ f \in abiertos[p]
    /\ ultima' = <<p, f, posicion[p][f]>>
    /\ UNCHANGED <<abiertos, posicion>>

\* a request that is not the one that the process made; nothing is said of it
Desvia == ultima' = <<>> /\ UNCHANGED <<abiertos, posicion>>

Init ==
    /\ abiertos = [p \in Pids |-> {}]
    /\ posicion = [p \in Pids |-> [f \in Archivos |-> 0]]
    /\ ultima = <<>>
    /\ conforme = TRUE

Next ==
    \/ /\ conforme /\ conforme'
       /\ \/ \E p \in Pids, f \in Archivos :
                Abre(p, f) \/ Cierra(p, f) \/ Mueve(p, f) \/ Transfiere(p, f)
          \/ Desvia
    \/ ~conforme'

Spec == Init /\ [][Next]_vars
=============================================================================
