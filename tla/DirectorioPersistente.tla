------------------------ MODULE DirectorioPersistente ------------------------
(***************************************************************************)
(* What the directory of the Filesystem promises: an operation takes       *)
(* effect before its answer and stays; a crash in the middle of one leaves *)
(* its file as before, as after, or a directory that cannot be read.       *)
(***************************************************************************)
EXTENDS Integers

CONSTANTS Archivos, Tamanios

VARIABLES
    tamanios,   \* size of each file, -1 if it does not exist
    operacion,  \* the creation or truncation under way, if any
    legible

abs == <<tamanios, operacion, legible>>

Ninguna == [de |-> 0]
EnCurso(a, de, a_tam) == [arch |-> a, de |-> de, a_tam |-> a_tam]

Init ==
    /\ tamanios = [a \in Archivos |-> -1]
    /\ operacion = Ninguna
    /\ legible = TRUE

Empezar ==
    /\ legible /\ operacion = Ninguna
    /\ \E a \in Archivos, n \in Tamanios :
          /\ n # tamanios[a]
          /\ operacion' = EnCurso(a, tamanios[a], n)
    /\ UNCHANGED <<tamanios, legible>>

Aplicar ==
    /\ operacion # Ninguna
    /\ tamanios' = [tamanios EXCEPT ![operacion.arch] = operacion.a_tam]
    /\ UNCHANGED <<operacion, legible>>

\* what was not applied is not answered
Contestar ==
    /\ operacion # Ninguna
    /\ tamanios[operacion.arch] = operacion.a_tam
    /\ operacion' = Ninguna
    /\ UNCHANGED <<tamanios, legible>>

\* a creation is applied and answered at once
Crear == operacion # Ninguna /\ operacion' = Ninguna /\ UNCHANGED legible
         /\ tamanios' = [tamanios EXCEPT ![operacion.arch] = operacion.a_tam]

Caer ==
    /\ operacion' = Ninguna
    /\ IF operacion = Ninguna
       THEN UNCHANGED <<tamanios, legible>>
       ELSE \/ /\ \E n \in {operacion.de, operacion.a_tam} :
                     tamanios' = [tamanios EXCEPT ![operacion.arch] = n]
               /\ UNCHANGED legible
            \/ legible' = FALSE /\ UNCHANGED tamanios

Next == Empezar \/ Aplicar \/ Contestar \/ Crear \/ Caer

Spec == Init /\ [][Next]_abs
=============================================================================
