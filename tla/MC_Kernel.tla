----------------------------- MODULE MC_Kernel -----------------------------
(* Small instances of Kernel: the programs of Consola/cfg in miniature. *)
EXTENDS Kernel

I(o) == [op |-> o, arg |-> ""]
R(o, r) == [op |-> o, arg |-> r]

Fin == I("EXIT")

UnRecurso == {"DISCO"}
Uno == [r \in UnRecurso |-> 1]

\* segments, an I/O, and a file transfer, with compaction in between
ConMemoria ==
    {<<I("CREATE_SEGMENT"), I("DELETE_SEGMENT"), Fin>>,
     <<I("F_READ"), I("CREATE_SEGMENT"), Fin>>,
     <<I("I/O"), R("WAIT", "NADIE")>>}

\* short programs: what matters is who is admitted and how each one ends
Cortos == {<<I("I/O"), Fin>>, <<I("CREATE_SEGMENT"), I("ERROR")>>}

\* the requests that hand the process to another thread
Entregas == {<<I("F_WRITE"), Fin>>, <<I("CREATE_SEGMENT"), Fin>>}

\* the processes of the resource tests: ask, yield the CPU, give back
CedeConRecurso == {<<R("WAIT", "DISCO"), I("YIELD"), R("SIGNAL", "DISCO"), Fin>>}

SoloSale == {<<Fin>>}
LeeArchivo == {<<I("F_READ"), Fin>>}
PideYDuerme == {<<I("CREATE_SEGMENT"), I("I/O"), Fin>>, <<I("CREATE_SEGMENT"), Fin>>}
=============================================================================
