------------------------------- MODULE MC_CPU -------------------------------
(* Small instances of CicloCPU. *)
EXTENDS CicloCPU

I(comando)         == [comando |-> comando]
Reg(comando, r, d) == [comando |-> comando, reg |-> r, dir |-> d]
Valor(r, v)        == [comando |-> "SET", reg |-> r, valor |-> v]
Arch(comando)      == [comando |-> comando, arch |-> "f"]
ArchDir(comando, d) == [comando |-> comando, arch |-> "f", dir |-> d]
Segm(comando, i, n) == [comando |-> comando, id |-> i, size |-> n]

\* segment 1 starts at logical address 4
Escribe == <<Valor("EAX", <<2, 3>>), Segm("CREATE_SEGMENT", 1, 3), Reg("MOV_OUT", "EAX", 5),
             I("YIELD"), Reg("MOV_IN", "BX", 6), Segm("DELETE_SEGMENT", 1, 0), I("EXIT")>>
Comparte == <<Valor("BX", <<1>>), I("I/O"), Reg("MOV_OUT", "CX", 0), Reg("MOV_OUT", "BX", 1),
              I("SIGNAL"), Reg("MOV_IN", "EAX", 0), Segm("CREATE_SEGMENT", 1, 2),
              Reg("MOV_OUT", "EAX", 4), Reg("MOV_OUT", "EAX", 5), I("EXIT")>>
Archivos == <<Arch("F_OPEN"), ArchDir("F_WRITE", 1), Arch("F_SEEK"), Arch("F_CLOSE"),
              Arch("F_CLOSE"), I("EXIT")>>
Repite == <<Valor("ZX", <<4>>), I("WAIT"), Reg("MOV_IN", "AX", 8)>>
Calla == <<Valor("AX", <<5>>), I("YIELD"), Reg("MOV_IN", "AX", 3)>>
NoAbierto == <<Arch("F_TRUNCATE"), I("EXIT")>>
LeeMal == <<Arch("F_OPEN"), ArchDir("F_READ", 8), I("EXIT")>>
LeeFuera == <<Arch("F_OPEN"), ArchDir("F_READ", 3), I("EXIT")>>
Grande == <<Segm("CREATE_SEGMENT", 1, 5), I("EXIT")>>
SinExit == <<Valor("BX", <<6>>), I("YIELD"), Valor("BX", <<7>>)>>
SinFin == <<Valor("BX", <<6>>), I("YIELD")>>
Mal == <<I("YIELD"), I("DESCONOCIDO")>>

MC_Programas == {Escribe, Comparte, Archivos, Repite, Calla, NoAbierto, LeeMal, LeeFuera,
                 Grande, SinExit, SinFin, Mal}
MC_Calla == {Calla}
=============================================================================
