---------------------------- MODULE CicloDeVida ----------------------------
(***************************************************************************)
(* What the Kernel promises about processes, with no thread in sight: the  *)
(* five-state diagram, admission in order of arrival and up to the degree  *)
(* of multiprogramming, and one CPU.                                       *)
(***************************************************************************)
EXTENDS Integers, FiniteSets

CONSTANTS MaxProcesos, Grado

Procesos == 0 .. MaxProcesos - 1

VARIABLE estado

Admitidos == {p \in Procesos : estado[p] \in {"READY", "EXEC", "BLOCK"}}

Cambia(p, de, a) ==
    /\ estado[p] = de
    /\ estado' = [estado EXCEPT ![p] = a]

\* processes are created in pid order
Crea(p) ==
    /\ Cambia(p, "AFUERA", "NEW")
    /\ \A q \in 0 .. p - 1 : estado[q] # "AFUERA"

\* New -> Ready, in order of arrival, while the degree allows it
Admite(p) ==
    /\ Cambia(p, "NEW", "READY")
    /\ \A q \in 0 .. p - 1 : estado[q] # "NEW"
    /\ Cardinality(Admitidos) < Grado

\* Ready -> Exec, on an idle CPU
Despacha(p) ==
    /\ Cambia(p, "READY", "EXEC")
    /\ \A q \in Procesos : estado[q] # "EXEC"

Desaloja(p)   == Cambia(p, "EXEC", "READY")
Bloquea(p)    == Cambia(p, "EXEC", "BLOCK")
Desbloquea(p) == Cambia(p, "BLOCK", "READY")
Finaliza(p)   == Cambia(p, "EXEC", "EXIT")
Destruye(p)   == Cambia(p, "EXIT", "LIBERADO")

Init == estado = [p \in Procesos |-> "AFUERA"]

Next == \E p \in Procesos :
    \/ Crea(p) \/ Admite(p) \/ Despacha(p) \/ Desaloja(p)
    \/ Bloquea(p) \/ Desbloquea(p) \/ Finaliza(p) \/ Destruye(p)

Spec == Init /\ [][Next]_estado
=============================================================================
