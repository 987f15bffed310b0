----------------------------- MODULE MC_Memoria -----------------------------
(* Small instances of Memoria. *)
EXTENDS Memoria

\* malloc returns clean memory, or two bytes of espacios marked
Limpia == {{}}
ConBasura == {{}, {TamMemoria - 2, TamMemoria - 3}}

\* one process writes in one of its segments
UnBuffer == {<<0, 1>>}
=============================================================================
