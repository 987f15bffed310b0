---------------------------- MODULE MC_Archivos ----------------------------
(* Small instances of ArchivosAbiertos. *)
EXTENDS ArchivosAbiertos

A(o, f)    == [op |-> o, arch |-> f, pos |-> 0]
Seek(f, n) == [op |-> "F_SEEK", arch |-> f, pos |-> n]
Fin        == A("EXIT", "")

\* a session with one file, two sessions, one with requests of other kinds around
\* it; two end with the error of a file that is not open
UnArchivo ==
    {<<A("F_OPEN", "f"), Seek("f", 1), A("F_WRITE", "f"), A("F_CLOSE", "f"), A("F_CLOSE", "g")>>,
     <<A("F_OPEN", "f"), A("WAIT", "DISCO"), A("YIELD", ""), A("F_TRUNCATE", "f"), Seek("f", 2),
       A("F_READ", "f"), A("F_CLOSE", "f"), A("F_OPEN", "f"), A("F_READ", "f"),
       A("F_CLOSE", "f"), Fin>>,
     <<A("I_O", ""), A("F_OPEN", "f"), A("F_CLOSE", "f"), A("SIGNAL", "DISCO"),
       A("F_READ", "g"), Fin>>}

DosArchivos ==
    {<<A("F_OPEN", "f"), A("YIELD", ""), A("F_CLOSE", "f"), Fin>>,
     <<A("F_OPEN", "g"), A("YIELD", ""), A("F_CLOSE", "g"), Fin>>}
=============================================================================
