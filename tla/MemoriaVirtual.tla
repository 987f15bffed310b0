--------------------------- MODULE MemoriaVirtual ---------------------------
(***************************************************************************)
(* What Memoria promises to processes, with no addresses in sight: a       *)
(* segment holds what was last written to it, whatever is created, deleted *)
(* or compacted around it, until a copy goes wrong.                        *)
(***************************************************************************)
EXTENDS Integers, Sequences

CONSTANTS Pids, Ids, Tamanios

VARIABLES
    procesos,   \* the processes with a segment table
    contenido,  \* contenido[<<p, id>>]: the bytes of each live segment
    conforme    \* FALSE once nothing is promised any more

vars == <<procesos, contenido, conforme>>

Segmentos == DOMAIN contenido

\* the segments outside S, and what they hold, do not change
Conserva(S) ==
    /\ Segmentos \ S = DOMAIN contenido' \ S
    /\ \A k \in Segmentos \ S : contenido'[k] = contenido[k]

Inicia(p) ==
    /\ p \notin procesos
    /\ procesos' = procesos \cup {p}
    /\ UNCHANGED contenido

\* a new segment holds anything
Crea(p, id) ==
    /\ p \in procesos
    /\ <<p, id>> \notin Segmentos
    /\ <<p, id>> \in DOMAIN contenido'
    /\ Len(contenido'[<<p, id>>]) \in Tamanios
    /\ Conserva({<<p, id>>})
    /\ UNCHANGED procesos

Elimina(p, id) ==
    /\ <<p, id>> \in Segmentos
    /\ <<p, id>> \notin DOMAIN contenido'
    /\ Conserva({<<p, id>>})
    /\ UNCHANGED procesos

\* the process marks every byte of the segment with its place in it
Escribe(p, id) ==
    /\ <<p, id>> \in Segmentos
    /\ contenido' = [contenido EXCEPT ![<<p, id>>] = [i \in DOMAIN @ |-> <<p, id, i>>]]
    /\ UNCHANGED procesos

Finaliza(p) ==
    /\ procesos' = procesos \ {p}
    /\ DOMAIN contenido' \cap ({p} \X Ids) = {}
    /\ Conserva({p} \X Ids)

Init == procesos = {} /\ contenido = [k \in {} |-> <<>>] /\ conforme = TRUE

Next ==
    \/ /\ conforme /\ conforme'
       /\ \E p \in Pids :
             \/ Inicia(p) \/ Finaliza(p)
             \/ \E id \in Ids : Crea(p, id) \/ Elimina(p, id) \/ Escribe(p, id)
    \/ ~conforme'

Spec == Init /\ [][Next]_vars
=============================================================================
