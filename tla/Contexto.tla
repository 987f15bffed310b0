------------------------------ MODULE Contexto ------------------------------
(***************************************************************************)
(* The execution context that Kernel and CPU send each other: registers,   *)
(* segment table, open files and program counter, and what a passage       *)
(* through serializarPCB and deserializarPCB does to it.  A cell is four   *)
(* bytes: the size of the smallest register.                               *)
(***************************************************************************)
EXTENDS Integers, SequencesExt

CONSTANT Registros      \* the registers of the CPU that programs use

ASSUME RegistrosAssumption ==
    /\ Registros \subseteq {"AX", "BX", "CX", "DX", "EAX", "EBX", "ECX", "EDX",
                            "RAX", "RBX", "RCX", "RDX"}
    /\ "AX" \in Registros
    /\ Registros \cap {"CX", "DX"} # {} => "BX" \in Registros

\* cells of a register
size_of_registro(r) ==
    CASE r \in {"AX", "BX", "CX", "DX"}     -> 1
      [] r \in {"EAX", "EBX", "ECX", "EDX"} -> 2
      [] OTHER                              -> 4

\* dictionary_get of a name that is not in dict_registros is NULL, that is AX
RegistroDe(nombre) == IF nombre \in Registros THEN nombre ELSE "AX"

escribir_registro(registros, nombre, valor) == [registros EXCEPT ![RegistroDe(nombre)] = valor]
leer_registro(registros, nombre) == registros[RegistroDe(nombre)]

\* Mutant of RegistroEnviado: AX is copied over its neighbour too.
RegistroEnviadoMutante(r) == IF r \in {"BX", "CX", "DX"} THEN "AX" ELSE r

\* the register whose bytes go in the place of r: BX goes three times
RegistroEnviado(r) == IF r \in {"CX", "DX"} THEN "BX" ELSE r

serializarRegistros(registros) == [r \in Registros |-> registros[RegistroEnviado(r)]]

\* the other fields arrive as they were sent
serializarPCB(ctx) == [ctx EXCEPT !.registros = serializarRegistros(@)]

\* new_cpu_pcb and actualizarContextoEjec take all the fields of the other side
actualizarContextoEjec(recibido) == recibido
=============================================================================
