-------------------------- MODULE FileSystemProofs --------------------------
(***************************************************************************)
(* The Filesystem implements DirectorioPersistente: whatever operations    *)
(* the Kernel asks for and wherever the process ends, a size that was      *)
(* answered is the one that a restart reads from the FCB files.  The       *)
(* proof relates the dictionary in memory, the files, and the step of the  *)
(* operation under way.                                                    *)
(*                                                                         *)
(* Then the blocks: they are not shared, the bitmap marks them, and they   *)
(* have what was written, while every operation is one that the code       *)
(* serves in full (enRegla) and a restart has not cleared the bitmap.      *)
(***************************************************************************)
EXTENDS FileSystem, BloquesFSProofs

USE DEF registro, Existe

-----------------------------------------------------------------------------
(* The inductive invariant. *)

EsFCB(f) == f = [tam |-> f.tam, directo |-> f.directo, indirecto |-> f.indirecto]

Formas ==
    /\ fcbs = [a \in Archivos |-> fcbs[a]]
    /\ disco = [a \in Archivos |-> [fcb |-> disco[a].fcb, entero |-> disco[a].entero]]
    /\ abiertos = [a \in Archivos |-> abiertos[a]]
    /\ \A a \in Archivos :
          /\ EsFCB(fcbs[a]) /\ EsFCB(disco[a].fcb)
          /\ disco[a].entero \in BOOLEAN
          /\ fcbs[a].tam \in {-1, 0} \cup TamaniosPedidos
          /\ disco[a].fcb.tam \in {-1, 0} \cup TamaniosPedidos
    /\ paso \in Pasos

OpsDeArchivo == {"REQ_ABRIR_ARCHIVO", "REQ_CREAR_ARCHIVO", "REQ_TRUNCAR_ARCHIVO",
                 "REQ_LEER_ARCHIVO", "REQ_ESCRIBIR_ARCHIVO"}

\* what is being served, as the thread goes through it
Atendido ==
    /\ paso \in {"atiende", "crea_fcb", "guarda_tam", "guarda_fcb", "responde"} =>
          /\ pedido.op \in OpsDeArchivo \cup {"REQ_OP_MEMORIA"}
          /\ pedido.op \in OpsDeArchivo => pedido.arch \in Archivos
          /\ pedido.op = "REQ_TRUNCAR_ARCHIVO" =>
                pedido.tam \in TamaniosPedidos /\ abiertos[pedido.arch] = "abierto"
    /\ paso = "crea_fcb" => pedido.op = "REQ_CREAR_ARCHIVO"
    /\ paso \in {"guarda_tam", "guarda_fcb"} => pedido.op = "REQ_TRUNCAR_ARCHIVO"
    /\ paso = "atiende" /\ pedido.op = "REQ_CREAR_ARCHIVO" => ~Existe(pedido.arch)
    /\ paso = "responde" /\ respuesta = "ERROR_ABRIR_ARCHIVO" =>
          pedido.op = "REQ_ABRIR_ARCHIVO" /\ ~Existe(pedido.arch)

\* a file is about to be created, or was and the Kernel does not know yet
PorCrear ==
    \A a \in Archivos : abiertos[a] = "por_crear" /\ Existe(a) =>
        /\ paso = "responde" /\ respuesta = "OK_CREAR_ARCHIVO"
        /\ pedido.op = "REQ_CREAR_ARCHIVO" /\ pedido.arch = a

\* the file that is being saved, if any
Tocado(a) == paso \in {"crea_fcb", "guarda_fcb"} /\ pedido.arch = a

\* memory and disk agree on every file but the one that is being saved, which
\* has no text on disk
Guardado ==
    paso # "no_arranca" =>
       \A a \in Archivos :
          /\ ~Tocado(a) => disco[a].entero /\ disco[a].fcb.tam = fcbs[a].tam
          /\ Tocado(a) => ~disco[a].entero

EnCursoInv ==
    /\ paso = "crea_fcb" => fcbs[pedido.arch].tam = -1
    /\ paso = "guarda_fcb" => fcbs[pedido.arch].tam = pedido.tam

DInv == Formas /\ Atendido /\ PorCrear /\ Guardado /\ EnCursoInv

-----------------------------------------------------------------------------
(* It holds at the start and every action keeps it. *)

LEMMA InitDInv == Init => DInv
<1> SUFFICES ASSUME Init PROVE DInv OBVIOUS
<1>1. /\ paso = "espera"
      /\ fcbs = [a \in Archivos |-> Ausente]
      /\ disco = [a \in Archivos |-> [fcb |-> Ausente, entero |-> TRUE]]
      /\ abiertos = [a \in Archivos |-> "cerrado"]
   BY DEF Init
<1>2. Formas
   <2>1. \A a \in Archivos : /\ fcbs[a] = Ausente /\ disco[a].fcb = Ausente
                             /\ disco[a].entero \in BOOLEAN
      BY <1>1
   <2>2. EsFCB(Ausente) /\ Ausente.tam = -1 BY DEF EsFCB, Ausente
   <2>3. \A a \in Archivos : EsFCB(fcbs[a]) /\ EsFCB(disco[a].fcb) BY <2>1, <2>2 DEF EsFCB
   <2>4. disco = [a \in Archivos |-> [fcb |-> disco[a].fcb, entero |-> disco[a].entero]] BY <1>1
   <2> QED BY <1>1, <2>1, <2>2, <2>3, <2>4 DEF Formas, Pasos
<1>3. Atendido /\ PorCrear /\ EnCursoInv BY <1>1 DEF Atendido, PorCrear, EnCursoInv
<1>4. Guardado BY <1>1 DEF Guardado, Tocado
<1> QED BY <1>2, <1>3, <1>4 DEF DInv

\* A request from the Kernel touches neither the FCBs nor their files.
LEMMA PideDInv ==
    DInv /\ (PideAbrir \/ PideCrear \/ PideTruncar \/ PideLeer \/ PideEscribir \/ PideOpMemoria)
        => DInv'
<1> SUFFICES ASSUME DInv,
                    PideAbrir \/ PideCrear \/ PideTruncar \/ PideLeer \/ PideEscribir \/ PideOpMemoria
             PROVE  DInv'
   OBVIOUS
<1> USE DEF DInv
<1>1. /\ paso = "espera" /\ paso' = "atiende"
      /\ UNCHANGED <<fcbs, disco, abiertos, respuesta>>
   BY DEF PideAbrir, PideCrear, PideTruncar, PideLeer, PideEscribir, PideOpMemoria, Pide
<1>2. Formas' BY <1>1 DEF Formas, EsFCB, Pasos
<1>3. Atendido'
   <2>1. CASE PideCrear BY <2>1, <1>1 DEF PideCrear, Pide, Atendido, OpsDeArchivo, PorCrear
   <2>2. CASE PideTruncar BY <2>2, <1>1 DEF PideTruncar, Pide, Atendido, OpsDeArchivo
   <2>3. CASE PideAbrir \/ PideLeer \/ PideEscribir \/ PideOpMemoria
      BY <2>3, <1>1 DEF PideAbrir, PideLeer, PideEscribir, PideOpMemoria, Pide, Atendido,
                        OpsDeArchivo
   <2> QED BY <2>1, <2>2, <2>3
<1>4. PorCrear' BY <1>1 DEF PorCrear
<1>5. Guardado' BY <1>1 DEF Guardado, Tocado
<1>6. EnCursoInv' BY <1>1 DEF EnCursoInv
<1> QED BY <1>2, <1>3, <1>4, <1>5, <1>6

LEMMA RecibeDInv == DInv /\ Recibe => DInv'
<1> SUFFICES ASSUME DInv, Recibe PROVE DInv' OBVIOUS
<1> USE DEF DInv
<1>1. /\ paso = "responde" /\ paso' = "espera"
      /\ UNCHANGED <<fcbs, disco>>
   BY DEF Recibe
<1>2. abiertos' = [a \in Archivos |-> abiertos'[a]] BY DEF Recibe, Formas
<1>3. Formas' BY <1>1, <1>2 DEF Formas, EsFCB, Pasos
<1>4. Atendido' BY <1>1 DEF Atendido
<1>5. PorCrear'
   <2> SUFFICES ASSUME NEW a \in Archivos, abiertos'[a] = "por_crear", Existe(a) PROVE FALSE
      BY <1>1 DEF PorCrear
   <2>1. CASE respuesta = "ERROR_ABRIR_ARCHIVO"
      <3>1. abiertos' = [abiertos EXCEPT ![pedido.arch] = "por_crear"] BY <2>1 DEF Recibe
      <3>2. a # pedido.arch BY <2>1, <1>1 DEF Atendido
      <3> QED BY <3>1, <3>2, <2>1, <1>1 DEF Formas, PorCrear
   <2>2. CASE respuesta \in {"OK_ABRIR_ARCHIVO", "OK_CREAR_ARCHIVO"} /\ pedido.op # "REQ_TRUNCAR_ARCHIVO"
      <3>1. abiertos' = [abiertos EXCEPT ![pedido.arch] = "abierto"] BY <2>2 DEF Recibe
      <3> QED BY <3>1, <2>2, <1>1 DEF Formas, PorCrear
   <2>3. CASE respuesta # "ERROR_ABRIR_ARCHIVO" /\ ~(respuesta \in {"OK_ABRIR_ARCHIVO", "OK_CREAR_ARCHIVO"} /\ pedido.op # "REQ_TRUNCAR_ARCHIVO")
      <3>1. abiertos' = abiertos BY <2>3 DEF Recibe
      <3> QED BY <3>1, <2>3, <1>1 DEF PorCrear
   <2> QED BY <2>1, <2>2, <2>3
<1>6. Guardado' BY <1>1 DEF Guardado, Tocado
<1>7. EnCursoInv' BY <1>1 DEF EnCursoInv
<1> QED BY <1>3, <1>4, <1>5, <1>6, <1>7

\* A request that is answered and changes no FCB and no file of FCBs.
LEMMA RespondeDInv ==
    ASSUME DInv, paso = "atiende", UNCHANGED <<fcbs, disco, pedido, abiertos>>, paso' = "responde",
           respuesta' = "ERROR_ABRIR_ARCHIVO" => pedido.op = "REQ_ABRIR_ARCHIVO" /\ ~Existe(pedido.arch)
    PROVE  DInv'
<1> USE DEF DInv
<1>1. Formas' BY DEF Formas, EsFCB, Pasos
<1>2. Atendido' BY DEF Atendido
<1>3. PorCrear' BY DEF PorCrear
<1>4. Guardado' BY DEF Guardado, Tocado
<1>5. EnCursoInv' BY DEF EnCursoInv
<1> QED BY <1>1, <1>2, <1>3, <1>4, <1>5

LEMMA CreaDInv == DInv /\ (crearArchivo \/ crearFCB) => DInv'
<1> SUFFICES ASSUME DInv, crearArchivo \/ crearFCB PROVE DInv' OBVIOUS
<1> USE DEF DInv
<1>1. pedido.arch \in Archivos /\ pedido.op = "REQ_CREAR_ARCHIVO"
   BY DEF crearArchivo, crearFCB, Atiende, Atendido, OpsDeArchivo
<1>2. PICK f : f = pedido.arch OBVIOUS
<1>3. CASE crearArchivo
   <2>1. /\ paso = "atiende" /\ paso' = "crea_fcb"
         /\ disco' = [disco EXCEPT ![f] = [fcb |-> Vacio, entero |-> FALSE]]
         /\ UNCHANGED <<fcbs, pedido, abiertos, respuesta>>
      BY <1>3, <1>2 DEF crearArchivo, Atiende
   <2>2. Formas' BY <2>1, <1>1, <1>2 DEF Formas, EsFCB, Pasos, Vacio
   <2>3. Atendido' BY <2>1, <1>1 DEF Atendido
   <2>4. PorCrear' BY <2>1 DEF PorCrear
   <2>5. Guardado' BY <2>1, <1>1, <1>2 DEF Guardado, Tocado, Formas
   <2>6. EnCursoInv'
      BY <2>1, <1>1, <1>2, FileSystemAssumption DEF EnCursoInv, Atendido, Formas
   <2> QED BY <2>2, <2>3, <2>4, <2>5, <2>6
<1>4. CASE crearFCB
   <2>1. /\ paso = "crea_fcb" /\ paso' = "responde" /\ respuesta' = "OK_CREAR_ARCHIVO"
         /\ fcbs' = [fcbs EXCEPT ![f] = Vacio]
         /\ disco' = [disco EXCEPT ![f] = [fcb |-> Vacio, entero |-> TRUE]]
         /\ UNCHANGED <<pedido, abiertos>>
      BY <1>4, <1>2 DEF crearFCB, responderAKernel
   <2>2. Formas' BY <2>1, <1>1, <1>2 DEF Formas, EsFCB, Pasos, Vacio
   <2>3. Atendido' BY <2>1, <1>1 DEF Atendido
   <2>4. PorCrear' BY <2>1, <1>1, <1>2 DEF PorCrear, Formas
   <2>5. Guardado' BY <2>1, <1>1, <1>2 DEF Guardado, Tocado, Formas, Vacio
   <2>6. EnCursoInv' BY <2>1 DEF EnCursoInv
   <2> QED BY <2>2, <2>3, <2>4, <2>5, <2>6
<1> QED BY <1>3, <1>4

\* config_set_value of the two pointers leaves the size of every file.
LEMMA SinTocarTam ==
    ASSUME Formas, NEW f \in Archivos, NEW d, NEW i,
           fcbs' = [fcbs EXCEPT ![f].directo = d, ![f].indirecto = i]
    PROVE  /\ fcbs' = [a \in Archivos |-> fcbs'[a]]
           /\ \A a \in Archivos : EsFCB(fcbs'[a]) /\ fcbs'[a].tam = fcbs[a].tam
<1>1. fcbs[f] = [tam |-> fcbs[f].tam, directo |-> fcbs[f].directo,
                 indirecto |-> fcbs[f].indirecto]
   BY DEF Formas, EsFCB
<1>2. fcbs'[f] = [tam |-> fcbs[f].tam, directo |-> d, indirecto |-> i] BY <1>1 DEF Formas
<1>3. \A a \in Archivos : a # f => fcbs'[a] = fcbs[a]
   <2>1. fcbs = [a \in Archivos |-> fcbs[a]] BY DEF Formas
   <2> QED BY <2>1
<1>4. fcbs' = [a \in Archivos |-> fcbs'[a]] BY DEF Formas
<1>5. EsFCB(fcbs'[f]) /\ fcbs'[f].tam = fcbs[f].tam
   <2>1. \A t : EsFCB([tam |-> t, directo |-> d, indirecto |-> i])
                /\ [tam |-> t, directo |-> d, indirecto |-> i].tam = t
      BY DEF EsFCB
   <2> QED BY <1>2, <2>1, Zenon
<1>6. \A a \in Archivos : a # f => EsFCB(fcbs'[a]) /\ fcbs'[a].tam = fcbs[a].tam
   <2>1. \A a \in Archivos : EsFCB(fcbs[a]) BY DEF Formas
   <2> QED BY <2>1, <1>3 DEF EsFCB
<1> QED BY <1>4, <1>5, <1>6

LEMMA TruncaDInv ==
    DInv /\ (truncarBloques \/ actualizar_tam_archivo \/ guardarFCB) => DInv'
<1> SUFFICES ASSUME DInv, truncarBloques \/ actualizar_tam_archivo \/ guardarFCB PROVE DInv'
   OBVIOUS
<1> USE DEF DInv
<1>1. /\ pedido.arch \in Archivos /\ pedido.op = "REQ_TRUNCAR_ARCHIVO"
      /\ pedido.tam \in TamaniosPedidos /\ abiertos[pedido.arch] = "abierto"
   BY DEF truncarBloques, actualizar_tam_archivo, guardarFCB, Atiende, Atendido, OpsDeArchivo
<1>2. PICK f, n : f = pedido.arch /\ n = pedido.tam OBVIOUS
<1>3. CASE truncarBloques
   <2>1. /\ paso = "atiende" /\ paso' \in {"muerto", "guarda_tam"}
         /\ UNCHANGED <<disco, pedido, abiertos, respuesta>>
         /\ \/ UNCHANGED fcbs
            \/ \E d, i : fcbs' = [fcbs EXCEPT ![f].directo = d, ![f].indirecto = i]
      BY <1>3, <1>2 DEF truncarBloques, Atiende
   <2>2. /\ fcbs' = [a \in Archivos |-> fcbs'[a]]
         /\ \A a \in Archivos : EsFCB(fcbs'[a]) /\ fcbs'[a].tam = fcbs[a].tam
      <3>1. CASE UNCHANGED fcbs BY <3>1 DEF Formas, EsFCB
      <3>2. ASSUME NEW d, NEW i, fcbs' = [fcbs EXCEPT ![f].directo = d, ![f].indirecto = i]
            PROVE  <2>2
         BY <3>2, <1>1, <1>2, SinTocarTam
      <3> QED BY <2>1, <3>1, <3>2
   <2>3. Formas' BY <2>1, <2>2 DEF Formas, EsFCB, Pasos
   <2>4. Atendido' BY <2>1, <2>2, <1>1 DEF Atendido
   <2>5. PorCrear' BY <2>1, <2>2 DEF PorCrear
   <2>6. Guardado' BY <2>1, <2>2 DEF Guardado, Tocado
   <2>7. EnCursoInv' BY <2>1 DEF EnCursoInv
   <2> QED BY <2>3, <2>4, <2>5, <2>6, <2>7
<1>4. CASE actualizar_tam_archivo
   <2>1. /\ paso = "guarda_tam" /\ paso' = "guarda_fcb"
         /\ fcbs' = [fcbs EXCEPT ![f].tam = n]
         /\ disco' = [disco EXCEPT ![f].entero = FALSE]
         /\ UNCHANGED <<pedido, abiertos, respuesta>>
      BY <1>4, <1>2 DEF actualizar_tam_archivo
   <2>2. /\ \A a \in Archivos : a # f => fcbs'[a] = fcbs[a] /\ disco'[a] = disco[a]
         /\ fcbs'[f].tam = n /\ ~disco'[f].entero
      BY <2>1, <1>1, <1>2 DEF Formas, EsFCB
   <2>3. Formas'
      <3>0. /\ fcbs[f] = [tam |-> fcbs[f].tam, directo |-> fcbs[f].directo,
                           indirecto |-> fcbs[f].indirecto]
            /\ disco[f] = [fcb |-> disco[f].fcb, entero |-> disco[f].entero]
            /\ fcbs'[f] = [fcbs[f] EXCEPT !.tam = n]
            /\ disco'[f] = [disco[f] EXCEPT !.entero = FALSE]
         BY <2>1, <1>1, <1>2 DEF Formas, EsFCB
      <3>1. fcbs'[f] = [tam |-> n, directo |-> fcbs[f].directo, indirecto |-> fcbs[f].indirecto]
         BY <3>0
      <3>2. disco'[f] = [fcb |-> disco[f].fcb, entero |-> FALSE] BY <3>0
      <3>3. fcbs' = [a \in Archivos |-> fcbs'[a]] BY <2>1 DEF Formas
      <3>4. disco' = [a \in Archivos |-> [fcb |-> disco'[a].fcb, entero |-> disco'[a].entero]]
         <4>1. disco' = [a \in Archivos |-> disco'[a]] BY <2>1 DEF Formas
         <4>2. \A a \in Archivos : disco'[a] = [fcb |-> disco'[a].fcb, entero |-> disco'[a].entero]
            <5>1. \A a \in Archivos : disco[a] = [fcb |-> disco[a].fcb, entero |-> disco[a].entero]
               BY DEF Formas
            <5> QED BY <5>1, <2>2, <3>2
         <4> HIDE DEF DInv
         <4> QED BY <4>1, <4>2
      <3>5. \A a \in Archivos : EsFCB(fcbs'[a]) /\ EsFCB(disco'[a].fcb)
         <4>1. \A a \in Archivos : EsFCB(fcbs[a]) /\ EsFCB(disco[a].fcb) BY DEF Formas
         <4>2. EsFCB(fcbs'[f]) BY <3>1 DEF EsFCB
         <4>3. disco'[f].fcb = disco[f].fcb BY <3>2
         <4> QED BY <4>1, <4>2, <4>3, <2>2, <1>1, <1>2
      <3>6. \A a \in Archivos :
               /\ disco'[a].entero \in BOOLEAN
               /\ fcbs'[a].tam \in {-1, 0} \cup TamaniosPedidos
               /\ disco'[a].fcb.tam \in {-1, 0} \cup TamaniosPedidos
         <4>1. \A a \in Archivos :
                  /\ disco[a].entero \in BOOLEAN
                  /\ fcbs[a].tam \in {-1, 0} \cup TamaniosPedidos
                  /\ disco[a].fcb.tam \in {-1, 0} \cup TamaniosPedidos
            BY DEF Formas
         <4>2. disco'[f].fcb = disco[f].fcb /\ disco'[f].entero = FALSE BY <3>2
         <4> QED BY <4>1, <4>2, <2>2, <1>1, <1>2
      <3>7. abiertos' = [a \in Archivos |-> abiertos'[a]] BY <2>1 DEF Formas
      <3> HIDE DEF DInv
      <3> QED BY <2>1, <3>3, <3>4, <3>5, <3>6, <3>7 DEF Formas, Pasos
   <2>4. Atendido' BY <2>1, <1>1 DEF Atendido
   <2>5. PorCrear' BY <2>1, <2>2, <1>1, <1>2 DEF PorCrear
   <2>6. Guardado' BY <2>1, <2>2, <1>2 DEF Guardado, Tocado
   <2>7. EnCursoInv' BY <2>1, <2>2, <1>2 DEF EnCursoInv
   <2> QED BY <2>3, <2>4, <2>5, <2>6, <2>7
<1>5. CASE guardarFCB
   <2>1. /\ paso = "guarda_fcb" /\ paso' = "responde" /\ respuesta' = "OK_TRUNCAR"
         /\ disco' = [disco EXCEPT ![f] = [fcb |-> fcbs[f], entero |-> TRUE]]
         /\ UNCHANGED <<fcbs, pedido, abiertos>>
      BY <1>5, <1>2 DEF guardarFCB, config_save, responderAKernel
   <2>2. /\ \A a \in Archivos : a # f => disco'[a] = disco[a]
         /\ disco'[f] = [fcb |-> fcbs[f], entero |-> TRUE]
      BY <2>1, <1>1, <1>2 DEF Formas
   <2>3. Formas' BY <2>1, <1>1, <1>2 DEF Formas, EsFCB, Pasos
   <2>4. Atendido' BY <2>1, <1>1 DEF Atendido
   <2>5. PorCrear' BY <2>1, <1>1 DEF PorCrear
   <2>6. Guardado' BY <2>1, <2>2, <1>2 DEF Guardado, Tocado
   <2>7. EnCursoInv' BY <2>1 DEF EnCursoInv
   <2> QED BY <2>3, <2>4, <2>5, <2>6, <2>7
<1> QED BY <1>3, <1>4, <1>5

\* The process may end at any point; main reads what the files have.
LEMMA ReinicioDInv == DInv /\ Reinicio => DInv'
<1> SUFFICES ASSUME DInv, Reinicio PROVE DInv' OBVIOUS
<1> USE DEF DInv
<1>1. /\ paso # "no_arranca" /\ paso' \in {"espera", "no_arranca"}
      /\ abiertos' = [a \in Archivos |-> "cerrado"]
      /\ UNCHANGED disco
   BY DEF Reinicio
<1>2. \/ /\ paso' = "espera" /\ fcbs' = [a \in Archivos |-> disco[a].fcb]
         /\ \A a \in Archivos : disco[a].entero
      \/ paso' = "no_arranca" /\ UNCHANGED fcbs
   BY DEF Reinicio
<1>3. Formas' BY <1>1, <1>2 DEF Formas, EsFCB, Pasos
<1>4. Atendido' BY <1>1 DEF Atendido
<1>5. PorCrear' BY <1>1 DEF PorCrear
<1>6. Guardado' BY <1>1, <1>2 DEF Guardado, Tocado
<1>7. EnCursoInv' BY <1>1 DEF EnCursoInv
<1> QED BY <1>3, <1>4, <1>5, <1>6, <1>7

\* Memory and disk agree on every file that is not being saved, and a file is
\* created only when the Kernel was told that it does not exist.
THEOREM DirectorioInductivo == Spec => []DInv
<1>1. DInv /\ [Next]_vars => DInv'
   <2> SUFFICES ASSUME DInv, [Next]_vars PROVE DInv' OBVIOUS
   <2>1. CASE UNCHANGED vars
      <3>1. UNCHANGED <<fcbs, disco, paso, pedido, respuesta, abiertos>> BY <2>1 DEF vars
      <3> QED BY <3>1 DEF DInv, Formas, EsFCB, Atendido, PorCrear, Tocado, Guardado, EnCursoInv
   <2>2. CASE OpMemoria \/ abrirArchivo \/ truncarSinCambio
      <3>1. /\ paso = "atiende" /\ paso' = "responde"
            /\ UNCHANGED <<fcbs, disco, pedido, abiertos>>
         BY <2>2 DEF OpMemoria, abrirArchivo, truncarSinCambio, SoloResponde, Atiende,
                     responderAKernel
      <3>2. respuesta' = "ERROR_ABRIR_ARCHIVO"
               => pedido.op = "REQ_ABRIR_ARCHIVO" /\ ~Existe(pedido.arch)
         BY <2>2 DEF OpMemoria, abrirArchivo, truncarSinCambio, SoloResponde, Atiende,
                     responderAKernel, RespuestaAlAbrir
      <3> QED BY <3>1, <3>2, RespondeDInv
   <2>3. CASE leerRechazado \/ leerArchivo \/ escribirRechazado \/ escribirArchivo
      <3>1. /\ paso = "atiende" /\ paso' = "responde"
            /\ UNCHANGED <<fcbs, disco, pedido, abiertos>>
            /\ respuesta' # "ERROR_ABRIR_ARCHIVO"
         BY <2>3 DEF leerRechazado, leerArchivo, escribirRechazado, escribirArchivo,
                     SoloResponde, Atiende, responderAKernel
      <3> QED BY <3>1, RespondeDInv
   <2> QED BY <2>1, <2>2, <2>3, PideDInv, RecibeDInv, CreaDInv, TruncaDInv, ReinicioDInv
           DEF Next, Kernel, atenderReqKernel
<1> QED BY <1>1, InitDInv, PTL DEF Spec

-----------------------------------------------------------------------------
(* The refinement: each step is one of the directory, or none. *)

\* At the start no file exists and nothing is under way.
LEMMA InitDelDirectorio == Init => Directorio!Init
<1> SUFFICES ASSUME Init PROVE Directorio!Init OBVIOUS
<1>1. paso = "espera" /\ fcbs = [a \in Archivos |-> Ausente] BY DEF Init
<1>2. [a \in Archivos |-> fcbs[a].tam] = [a \in Archivos |-> -1] BY <1>1 DEF Ausente
<1>3. OperacionEnCurso = [de |-> 0] BY <1>1 DEF OperacionEnCurso
<1> QED BY <1>1, <1>2, <1>3 DEF Directorio!Init, Directorio!Ninguna

\* An operation under way is told from none.
LEMMA HayOperacion ==
    \A a, d, n : [arch |-> a, de |-> d, a_tam |-> n] # [de |-> 0]
OBVIOUS

\* a step of the directory, or a stutter
PasoAbstracto == Directorio!Next \/ UNCHANGED Directorio!abs

\* A step out of any operation, that leaves the sizes.
LEMMA SinOperacion ==
    ASSUME [a \in Archivos |-> fcbs[a].tam]' = [a \in Archivos |-> fcbs[a].tam],
           paso \notin {"crea_fcb", "guarda_tam", "guarda_fcb", "no_arranca"},
           paso' \notin {"crea_fcb", "guarda_tam", "guarda_fcb", "no_arranca"}
    PROVE  PasoAbstracto
<1>1. OperacionEnCurso = [de |-> 0] BY DEF OperacionEnCurso
<1>2. OperacionEnCurso' = [de |-> 0] BY DEF OperacionEnCurso
<1>3. (paso # "no_arranca")' = (paso # "no_arranca") OBVIOUS
<1> QED BY <1>1, <1>2, <1>3 DEF PasoAbstracto, Directorio!abs

\* One step of a creation or a truncation, one step of the directory.
LEMMA CrearArchivoEmpieza == DInv /\ crearArchivo => Directorio!Empezar
<1> SUFFICES ASSUME DInv, crearArchivo PROVE Directorio!Empezar OBVIOUS
<1>1. /\ paso = "atiende" /\ paso' = "crea_fcb" /\ UNCHANGED <<fcbs, pedido>>
      /\ pedido.op = "REQ_CREAR_ARCHIVO"
   BY DEF crearArchivo, Atiende
<1>2. PICK f \in Archivos : f = pedido.arch
   BY <1>1 DEF DInv, Atendido, OpsDeArchivo
<1>3. fcbs[f].tam = -1
   BY <1>1, <1>2, FileSystemAssumption DEF DInv, Atendido, Formas
<1>4. OperacionEnCurso = [de |-> 0] BY <1>1 DEF OperacionEnCurso
<1>5. OperacionEnCurso' = [arch |-> f, de |-> -1, a_tam |-> 0] BY <1>1, <1>2 DEF OperacionEnCurso
<1>6. [a \in Archivos |-> fcbs[a].tam][f] = -1 BY <1>3
<1>7. [a \in Archivos |-> fcbs[a].tam]' = [a \in Archivos |-> fcbs[a].tam] BY <1>1
<1>8. (paso # "no_arranca")' = (paso # "no_arranca") /\ paso # "no_arranca" BY <1>1
<1>9. 0 \in TamaniosPedidos \cup {0} /\ 0 # -1 OBVIOUS
<1> HIDE DEF Existe
<1> QED BY <1>2, <1>4, <1>5, <1>6, <1>7, <1>8, <1>9
        DEF Directorio!Empezar, Directorio!Ninguna, Directorio!EnCurso

LEMMA CrearFCBCrea == DInv /\ crearFCB => Directorio!Crear
<1> SUFFICES ASSUME DInv, crearFCB PROVE Directorio!Crear OBVIOUS
<1>1. /\ paso = "crea_fcb" /\ paso' = "responde"
      /\ fcbs' = [fcbs EXCEPT ![pedido.arch] = Vacio]
   BY DEF crearFCB, responderAKernel
<1>2. PICK f \in Archivos : f = pedido.arch
   BY <1>1 DEF DInv, Atendido, OpsDeArchivo
<1>4. OperacionEnCurso = [arch |-> f, de |-> -1, a_tam |-> 0] BY <1>1, <1>2 DEF OperacionEnCurso
<1>5. OperacionEnCurso' = [de |-> 0] BY <1>1 DEF OperacionEnCurso
<1>6. OperacionEnCurso # [de |-> 0] /\ OperacionEnCurso.arch = f /\ OperacionEnCurso.a_tam = 0
   BY <1>4, HayOperacion
<1>7. [a \in Archivos |-> fcbs[a].tam]' = [[a \in Archivos |-> fcbs[a].tam] EXCEPT ![f] = 0]
   BY <1>1, <1>2 DEF DInv, Formas, Vacio
<1>8. (paso # "no_arranca")' = (paso # "no_arranca") BY <1>1
<1> HIDE DEF Existe
<1> QED BY <1>5, <1>6, <1>7, <1>8 DEF Directorio!Crear, Directorio!Ninguna

LEMMA TruncarEmpieza == DInv /\ truncarBloques => PasoAbstracto
<1> SUFFICES ASSUME DInv, truncarBloques PROVE PasoAbstracto OBVIOUS
<1>1. /\ paso = "atiende" /\ paso' \in {"muerto", "guarda_tam"} /\ UNCHANGED <<disco, pedido>>
      /\ pedido.op = "REQ_TRUNCAR_ARCHIVO"
      /\ pedido.tam # fcbs[pedido.arch].tam
      /\ \/ UNCHANGED fcbs
         \/ \E d, i : fcbs' = [fcbs EXCEPT ![pedido.arch].directo = d,
                                           ![pedido.arch].indirecto = i]
   BY DEF truncarBloques, Atiende
<1>2. PICK f \in Archivos : f = pedido.arch
   BY <1>1 DEF DInv, Atendido, OpsDeArchivo
<1>3. PICK n \in TamaniosPedidos : n = pedido.tam
   BY <1>1 DEF DInv, Atendido, OpsDeArchivo
<1>4. disco[f].fcb.tam = fcbs[f].tam BY <1>1, <1>2 DEF DInv, Guardado, Tocado
<1>5. \A a \in Archivos : fcbs'[a].tam = fcbs[a].tam
   BY <1>1, <1>2, SinTocarTam DEF DInv
<1>6. [a \in Archivos |-> fcbs[a].tam]' = [a \in Archivos |-> fcbs[a].tam] BY <1>5
<1>7. CASE paso' = "muerto" BY <1>1, <1>6, <1>7, SinOperacion
<1>8. CASE paso' = "guarda_tam"
   <2>1. OperacionEnCurso = [de |-> 0] BY <1>1 DEF OperacionEnCurso
   <2>2. OperacionEnCurso' = [arch |-> f, de |-> fcbs[f].tam, a_tam |-> n]
      BY <1>1, <1>2, <1>3, <1>4, <1>8 DEF OperacionEnCurso
   <2>3. [a \in Archivos |-> fcbs[a].tam][f] = fcbs[f].tam /\ n # fcbs[f].tam BY <1>1, <1>2, <1>3
   <2>4. (paso # "no_arranca")' = (paso # "no_arranca") /\ paso # "no_arranca" BY <1>1
   <2>5. n \in TamaniosPedidos \cup {0} BY <1>3
   <2>6. Directorio!Empezar
      BY <1>2, <1>6, <2>1, <2>2, <2>3, <2>4, <2>5
         DEF Directorio!Empezar, Directorio!Ninguna, Directorio!EnCurso
   <2> QED BY <2>6 DEF PasoAbstracto, Directorio!Next
<1> QED BY <1>1, <1>7, <1>8

LEMMA ActualizarAplica == DInv /\ actualizar_tam_archivo => Directorio!Aplicar
<1> SUFFICES ASSUME DInv, actualizar_tam_archivo PROVE Directorio!Aplicar OBVIOUS
<1>1. /\ paso = "guarda_tam" /\ paso' = "guarda_fcb" /\ UNCHANGED pedido
      /\ fcbs' = [fcbs EXCEPT ![pedido.arch].tam = pedido.tam]
      /\ disco' = [disco EXCEPT ![pedido.arch].entero = FALSE]
   BY DEF actualizar_tam_archivo
<1>2. PICK f \in Archivos : f = pedido.arch
   BY <1>1 DEF DInv, Atendido, OpsDeArchivo
<1>3. PICK n : n = pedido.tam OBVIOUS
<1>4. disco'[f].fcb.tam = disco[f].fcb.tam
   <2>1. disco[f] = [fcb |-> disco[f].fcb, entero |-> disco[f].entero] BY <1>2 DEF DInv, Formas
   <2>2. disco'[f] = [disco[f] EXCEPT !.entero = FALSE] BY <1>1, <1>2 DEF DInv, Formas
   <2> QED BY <2>1, <2>2
<1>5. OperacionEnCurso = [arch |-> f, de |-> disco[f].fcb.tam, a_tam |-> n]
   BY <1>1, <1>2, <1>3 DEF OperacionEnCurso
<1>6. OperacionEnCurso' = OperacionEnCurso
   BY <1>1, <1>2, <1>3, <1>4, <1>5 DEF OperacionEnCurso
<1>7. OperacionEnCurso # [de |-> 0] /\ OperacionEnCurso.arch = f /\ OperacionEnCurso.a_tam = n
   BY <1>5, HayOperacion
<1>8. [a \in Archivos |-> fcbs[a].tam]' = [[a \in Archivos |-> fcbs[a].tam] EXCEPT ![f] = n]
   <2>1. fcbs = [a \in Archivos |-> fcbs[a]] BY DEF DInv, Formas
   <2>2. EsFCB(fcbs[f]) BY <1>2 DEF DInv, Formas
   <2>3. \A a \in Archivos : fcbs'[a].tam = IF a = f THEN n ELSE fcbs[a].tam
      <3>1. fcbs[f] = [tam |-> fcbs[f].tam, directo |-> fcbs[f].directo,
                       indirecto |-> fcbs[f].indirecto]
         BY <2>2 DEF EsFCB
      <3>2. fcbs' = [fcbs EXCEPT ![f].tam = n] BY <1>1, <1>2, <1>3
      <3>3. fcbs'[f] = [fcbs[f] EXCEPT !.tam = n] BY <3>2, <2>1, <1>2
      <3>4. fcbs'[f].tam = n BY <3>1, <3>3
      <3>5. \A a \in Archivos : a # f => fcbs'[a] = fcbs[a] BY <3>2, <2>1
      <3> QED BY <3>4, <3>5
   <2> QED BY <2>3, <1>2
<1>9. (paso # "no_arranca")' = (paso # "no_arranca") BY <1>1
<1> HIDE DEF Existe
<1> QED BY <1>6, <1>7, <1>8, <1>9 DEF Directorio!Aplicar, Directorio!Ninguna

LEMMA GuardarContesta == DInv /\ guardarFCB => Directorio!Contestar
<1> SUFFICES ASSUME DInv, guardarFCB PROVE Directorio!Contestar OBVIOUS
<1>1. paso = "guarda_fcb" /\ paso' = "responde" /\ UNCHANGED fcbs
   BY DEF guardarFCB, responderAKernel
<1>2. PICK f \in Archivos : f = pedido.arch
   BY <1>1 DEF DInv, Atendido, OpsDeArchivo
<1>3. PICK n : n = pedido.tam OBVIOUS
<1>4. OperacionEnCurso = [arch |-> f, de |-> disco[f].fcb.tam, a_tam |-> n]
   BY <1>1, <1>2, <1>3 DEF OperacionEnCurso
<1>5. OperacionEnCurso # [de |-> 0] /\ OperacionEnCurso.arch = f /\ OperacionEnCurso.a_tam = n
   BY <1>4, HayOperacion
<1>6. OperacionEnCurso' = [de |-> 0] BY <1>1 DEF OperacionEnCurso
<1>7. [a \in Archivos |-> fcbs[a].tam][f] = n BY <1>1, <1>2, <1>3 DEF DInv, EnCursoInv
<1>8. [a \in Archivos |-> fcbs[a].tam]' = [a \in Archivos |-> fcbs[a].tam] BY <1>1
<1>9. (paso # "no_arranca")' = (paso # "no_arranca") BY <1>1
<1> HIDE DEF Existe
<1> QED BY <1>5, <1>6, <1>7, <1>8, <1>9 DEF Directorio!Contestar, Directorio!Ninguna

\* A crash with an operation half done leaves the size of before, or an FCB
\* without a name.
LEMMA ReinicioCae == DInv /\ Reinicio => Directorio!Caer
<1> SUFFICES ASSUME DInv, Reinicio PROVE Directorio!Caer OBVIOUS
<1>1. paso # "no_arranca" /\ UNCHANGED disco BY DEF Reinicio
<1>2. \/ /\ paso' = "espera" /\ fcbs' = [a \in Archivos |-> disco[a].fcb]
         /\ \A a \in Archivos : disco[a].entero
      \/ /\ paso' = "no_arranca" /\ UNCHANGED fcbs
         /\ \E a \in Archivos : ~disco[a].entero
   BY DEF Reinicio
<1>3. OperacionEnCurso' = [de |-> 0] BY <1>2 DEF OperacionEnCurso
<1>4. CASE paso \in {"crea_fcb", "guarda_fcb"}
   <2>1. pedido.arch \in Archivos BY <1>4 DEF DInv, Atendido, OpsDeArchivo
   <2>2. ~disco[pedido.arch].entero BY <1>1, <1>4, <2>1 DEF DInv, Guardado, Tocado
   <2>3. paso' = "no_arranca" /\ UNCHANGED fcbs BY <1>2, <2>1, <2>2
   <2>4. OperacionEnCurso # [de |-> 0] BY <1>4, HayOperacion DEF OperacionEnCurso
   <2>5. [a \in Archivos |-> fcbs[a].tam]' = [a \in Archivos |-> fcbs[a].tam] BY <2>3
   <2>6. (paso # "no_arranca")' = FALSE BY <2>3
   <2> QED BY <1>3, <2>4, <2>5, <2>6 DEF Directorio!Caer, Directorio!Ninguna
<1>5. CASE paso \notin {"crea_fcb", "guarda_fcb"}
   <2>1. \A a \in Archivos : disco[a].entero /\ disco[a].fcb.tam = fcbs[a].tam
      BY <1>1, <1>5 DEF DInv, Guardado, Tocado
   <2>2. paso' = "espera" /\ fcbs' = [a \in Archivos |-> disco[a].fcb] BY <1>2, <2>1
   <2>3. [a \in Archivos |-> fcbs[a].tam]' = [a \in Archivos |-> fcbs[a].tam] BY <2>1, <2>2
   <2>4. (paso # "no_arranca")' = (paso # "no_arranca") BY <1>1, <2>2
   <2>5. CASE paso = "guarda_tam"
      <3>1. PICK f \in Archivos : f = pedido.arch
         BY <2>5 DEF DInv, Atendido, OpsDeArchivo
      <3>2. OperacionEnCurso = [arch |-> f, de |-> fcbs[f].tam, a_tam |-> pedido.tam]
         BY <2>1, <2>5, <3>1 DEF OperacionEnCurso
      <3>3. /\ OperacionEnCurso # [de |-> 0] /\ OperacionEnCurso.arch = f
            /\ OperacionEnCurso.de = fcbs[f].tam
         BY <3>2, HayOperacion
      <3>4. [[a \in Archivos |-> fcbs[a].tam] EXCEPT ![f] = fcbs[f].tam]
               = [a \in Archivos |-> fcbs[a].tam]
         OBVIOUS
      <3> QED BY <1>3, <2>3, <2>4, <3>3, <3>4 DEF Directorio!Caer, Directorio!Ninguna
   <2>6. CASE paso # "guarda_tam"
      <3>1. OperacionEnCurso = [de |-> 0] BY <1>5, <2>6 DEF OperacionEnCurso
      <3> QED BY <1>3, <2>3, <2>4, <3>1 DEF Directorio!Caer, Directorio!Ninguna
   <2> QED BY <2>5, <2>6
<1> QED BY <1>4, <1>5

\* Every step of the Filesystem is one of the directory, or none.
LEMMA PasoDelDirectorio == DInv /\ [Next]_vars => PasoAbstracto
<1> SUFFICES ASSUME DInv, [Next]_vars PROVE PasoAbstracto OBVIOUS
<1>1. CASE UNCHANGED vars
   <2>1. UNCHANGED <<fcbs, disco, paso, pedido>> BY <1>1 DEF vars
   <2>2. /\ [a \in Archivos |-> fcbs[a].tam]' = [a \in Archivos |-> fcbs[a].tam]
         /\ OperacionEnCurso' = OperacionEnCurso
         /\ (paso # "no_arranca")' = (paso # "no_arranca")
      BY <2>1 DEF OperacionEnCurso
   <2> QED BY <2>2 DEF PasoAbstracto, Directorio!abs
<1>2. CASE PideAbrir \/ PideCrear \/ PideTruncar \/ PideLeer \/ PideEscribir \/ PideOpMemoria
           \/ Recibe
   <2>1. /\ paso \in {"espera", "responde"} /\ paso' \in {"atiende", "espera"}
         /\ UNCHANGED fcbs
      BY <1>2 DEF PideAbrir, PideCrear, PideTruncar, PideLeer, PideEscribir, PideOpMemoria,
                  Pide, Recibe
   <2> QED BY <2>1, SinOperacion
<1>3. CASE OpMemoria \/ abrirArchivo \/ truncarSinCambio \/ leerRechazado \/ leerArchivo
           \/ escribirRechazado \/ escribirArchivo
   <2>1. paso = "atiende" /\ paso' = "responde" /\ UNCHANGED fcbs
      BY <1>3 DEF OpMemoria, abrirArchivo, truncarSinCambio, leerRechazado, leerArchivo,
                  escribirRechazado, escribirArchivo, SoloResponde, Atiende, responderAKernel
   <2> QED BY <2>1, SinOperacion
<1>4. CASE crearArchivo \/ crearFCB \/ actualizar_tam_archivo \/ guardarFCB \/ Reinicio
   BY <1>4, CrearArchivoEmpieza, CrearFCBCrea, ActualizarAplica, GuardarContesta, ReinicioCae
      DEF PasoAbstracto, Directorio!Next
<1> QED BY <1>1, <1>2, <1>3, <1>4, TruncarEmpieza DEF Next, Kernel, atenderReqKernel

\* The Filesystem keeps the promises of the directory: what it answered stays,
\* through crashes at any point of actualizar_tam_archivo, guardarFCB, crearArchivo.
THEOREM DirectorioImplementado == Spec => ImplementaDirectorio
<1>1. DInv /\ [Next]_vars => [Directorio!Next]_(Directorio!abs)
   BY PasoDelDirectorio DEF PasoAbstracto
<1> QED BY <1>1, InitDelDirectorio, DirectorioInductivo, PTL
        DEF Spec, ImplementaDirectorio, Directorio!Spec

-----------------------------------------------------------------------------
(* The types, which the operations keep whatever they are asked.           *)

Dispositivo == DOMAIN disp = CamposDisp /\ DispBien(disp)

FCBsBien ==
    /\ \A a \in Archivos : fcbs[a] \in FCBs /\ disco[a].fcb \in FCBs
    /\ \A a \in Archivos : abiertos[a] \in {"cerrado", "por_crear", "abierto"}

Pedidos ==
    /\ paso = "atiende" /\ pedido.op \in {"REQ_LEER_ARCHIVO", "REQ_ESCRIBIR_ARCHIVO"} =>
          pedido.puntero \in Nat /\ pedido.tam \in Nat \ {0}
    /\ paso \in {"guarda_tam", "guarda_fcb"} => pedido.tam <= tam_max_archivo
    /\ respuesta # "NINGUNA" => paso = "responde"

ContenidoBien ==
    /\ contenido = [a \in Archivos |-> contenido[a]]
    /\ \A a \in Archivos : contenido[a] \in Seq(Int)

TInv == Dispositivo /\ FCBsBien /\ Pedidos /\ ContenidoBien

\* The fields of the record that the operators get.
LEMMA CamposDeModelo ==
    ASSUME NEW a
    PROVE  /\ DOMAIN Modelo(a) = CamposDisp \cup CamposFCB
           /\ Modelo(a).bitmap = disp.bitmap /\ Modelo(a).libres = disp.libres
           /\ Modelo(a).bloques = disp.bloques /\ Modelo(a).cursor = disp.cursor
           /\ Modelo(a).perdible = disp.perdible
           /\ Modelo(a).tam = fcbs[a].tam /\ Modelo(a).directo = fcbs[a].directo
           /\ Modelo(a).indirecto = fcbs[a].indirecto
BY DEF Modelo, CamposDisp, CamposFCB

\* They get a record with its shape.
LEMMA ModeloBien == ASSUME TInv, NEW a \in Archivos PROVE EsModelo(Modelo(a))
<1>1. PICK m : m = Modelo(a) OBVIOUS
<1>2. /\ DOMAIN m = CamposDisp \cup CamposFCB
      /\ m.bitmap = disp.bitmap /\ m.libres = disp.libres
      /\ m.bloques = disp.bloques /\ m.cursor = disp.cursor /\ m.perdible = disp.perdible
   BY <1>1, CamposDeModelo
<1>3. m.tam = fcbs[a].tam /\ m.directo = fcbs[a].directo /\ m.indirecto = fcbs[a].indirecto
   BY <1>1, CamposDeModelo
<1>4. DispBien(m) BY <1>2 DEF TInv, Dispositivo, DispBien
<1>5. fcbs[a] \in FCBs BY DEF TInv, FCBsBien
<1>6. m.tam \in Int /\ m.directo \in NumeroOMenosUno /\ m.indirecto \in NumeroOMenosUno
   BY <1>3, <1>5 DEF FCBs, NumeroOMenosUno
<1> QED BY <1>1, <1>2, <1>4, <1>6 DEF EsModelo

\* What they leave of the device has its shape.
LEMMA ParteBien ==
    ASSUME NEW m, EsModelo(m), NEW d, d = ParteDisp(m)
    PROVE  /\ DOMAIN d = CamposDisp /\ DispBien(d)
           /\ d.bitmap = m.bitmap /\ d.libres = m.libres /\ d.bloques = m.bloques
           /\ d.cursor = m.cursor /\ d.perdible = m.perdible
<1>1. /\ DOMAIN d = CamposDisp
      /\ d.bitmap = m.bitmap /\ d.libres = m.libres /\ d.bloques = m.bloques
      /\ d.cursor = m.cursor /\ d.perdible = m.perdible
   BY DEF ParteDisp, CamposDisp
<1> QED BY <1>1 DEF EsModelo, DispBien

\* The greater of two integers.
LEMMA MayorDeDos == ASSUME NEW a \in Int, NEW b \in Int, NEW c, c = Max({a, b})
                    PROVE  c \in {a, b} /\ a <= c /\ b <= c
<1>1. \E x \in {a, b} : \A y \in {a, b} : x >= y
   <2>1. CASE a <= b BY <2>1
   <2>2. CASE b <= a BY <2>2
   <2> QED BY <2>1, <2>2
<1>2. c \in {a, b} /\ \A y \in {a, b} : c >= y BY <1>1 DEF Max
<1>3. c \in Int BY <1>2
<1> QED BY <1>2, <1>3

\* What a write leaves in the words of the file as they should be.
LEMMA AlAnotar ==
    ASSUME NEW e \in Seq(Int), NEW p \in Nat, NEW t \in Seq(Int), NEW y, y = Anota(e, p, t)
    PROVE  /\ y \in Seq(Int) /\ Len(y) \in {Len(e), p + Len(t)}
           /\ Len(e) <= Len(y) /\ p + Len(t) <= Len(y)
           /\ \A i \in 1 .. Len(y) :
                 y[i] = IF p + 1 <= i /\ i <= p + Len(t) THEN t[i - p]
                        ELSE IF i <= Len(e) THEN e[i] ELSE NoEscrito
<1>1. PICK le \in Nat, lt \in Nat : le = Len(e) /\ lt = Len(t) OBVIOUS
<1>2. PICK fin : fin = Max({le, p + lt}) OBVIOUS
<1>3. fin \in {le, p + lt} /\ le <= fin /\ p + lt <= fin
   <2>1. le \in Int /\ p + lt \in Int OBVIOUS
   <2> QED BY <1>2, <2>1, MayorDeDos
<1>4. fin \in Nat BY <1>3
<1>5. y = [i \in 1 .. fin |-> CASE i \in p + 1 .. p + lt -> t[i - p]
                                [] i \in 1 .. le \ (p + 1 .. p + lt) -> e[i]
                                [] OTHER -> NoEscrito]
   BY <1>1, <1>2 DEF Anota
<1>6. ASSUME NEW i \in 1 .. fin
      PROVE  y[i] = IF p + 1 <= i /\ i <= p + lt THEN t[i - p]
                    ELSE IF i <= le THEN e[i] ELSE NoEscrito
   <2>1. CASE i \in p + 1 .. p + lt BY <2>1, <1>4, <1>5
   <2>2. CASE i \notin p + 1 .. p + lt /\ i <= le BY <2>2, <1>4, <1>5
   <2>3. CASE i \notin p + 1 .. p + lt /\ ~(i <= le) BY <2>3, <1>4, <1>5
   <2> QED BY <2>1, <2>2, <2>3
<1>7. \A i \in 1 .. fin : y[i] \in Int
   <2> SUFFICES ASSUME NEW i \in 1 .. fin PROVE y[i] \in Int OBVIOUS
   <2>1. p + 1 <= i /\ i <= p + lt => t[i - p] \in Int BY <1>1, <1>4
   <2>2. i <= le => e[i] \in Int BY <1>1, <1>4
   <2> QED BY <1>6, <2>1, <2>2 DEF NoEscrito
<1>8. y \in Seq(Int) /\ Len(y) = fin
   <2>1. y \in [1 .. fin -> Int] BY <1>5, <1>7
   <2> QED BY <1>4, <2>1
<1> QED BY <1>1, <1>3, <1>6, <1>8

\* The types hold at the start.
LEMMA InitTInv == Init => TInv
<1> SUFFICES ASSUME Init PROVE TInv OBVIOUS
<1>1. Dispositivo
   <2>1. /\ disp.bitmap = [b \in NumerosDeBloque |-> FALSE] /\ disp.libres = CantBloques
         /\ disp.bloques = [p \in Posiciones |-> 0] /\ disp.cursor = 0 /\ disp.perdible = <<>>
         /\ DOMAIN disp = CamposDisp
      BY DEF Init, CamposDisp
   <2> QED BY <2>1, Medidas DEF Dispositivo, DispBien
<1>2. FCBsBien
   <2>0. tam_max_archivo \in Int /\ -1 <= tam_max_archivo
      <3>1. 0 * (Palabras + 1) <= Palabras * (Palabras + 1) BY Medidas, Producto
      <3>2. 0 * (Palabras + 1) = 0 BY Medidas
      <3>3. Palabras * (Palabras + 1) \in Int BY Medidas
      <3> QED BY <3>1, <3>2, <3>3 DEF tam_max_archivo
   <2>1. Ausente \in FCBs BY <2>0, Medidas DEF Ausente, FCBs
   <2> QED BY <2>1 DEF Init, FCBsBien
<1>3. Pedidos BY DEF Init, Pedidos
<1>4. ContenidoBien BY DEF Init, ContenidoBien
<1> QED BY <1>1, <1>2, <1>3, <1>4 DEF TInv

\* A request of the Kernel keeps the types.
LEMMA PideTInv ==
    ASSUME TInv,
           PideAbrir \/ PideCrear \/ PideTruncar \/ PideLeer \/ PideEscribir \/ PideOpMemoria
    PROVE  TInv'
<1>1. /\ paso = "espera" /\ paso' = "atiende"
      /\ UNCHANGED <<disp, fcbs, disco, abiertos, respuesta, contenido>>
   BY DEF PideAbrir, PideCrear, PideTruncar, PideLeer, PideEscribir, PideOpMemoria, Pide
<1>2. Dispositivo' /\ FCBsBien' /\ ContenidoBien'
   BY <1>1 DEF TInv, Dispositivo, DispBien, FCBsBien, ContenidoBien
<1>3. pedido'.op \in {"REQ_LEER_ARCHIVO", "REQ_ESCRIBIR_ARCHIVO"} =>
         pedido'.puntero \in Nat /\ pedido'.tam \in Nat \ {0}
   <2>1. CASE PideLeer \/ PideEscribir
      <3>1. PICK acceso \in Accesos : pedido'.puntero = acceso[1] /\ pedido'.tam = acceso[2]
         BY <2>1 DEF PideLeer, PideEscribir, Pide
      <3> QED BY <3>1, FileSystemAssumption
   <2>2. CASE PideAbrir \/ PideCrear \/ PideTruncar \/ PideOpMemoria
      <3>1. pedido'.op \notin {"REQ_LEER_ARCHIVO", "REQ_ESCRIBIR_ARCHIVO"}
         BY <2>2 DEF PideAbrir, PideCrear, PideTruncar, PideOpMemoria, Pide
      <3> QED BY <3>1
   <2> QED BY <2>1, <2>2
<1>4. Pedidos' BY <1>1, <1>3 DEF TInv, Pedidos
<1> QED BY <1>2, <1>4 DEF TInv

\* So does the answer that it receives.
LEMMA RecibeTInv == ASSUME TInv, DInv, Recibe PROVE TInv'
<1>1. /\ paso' = "espera" /\ respuesta' = "NINGUNA"
      /\ UNCHANGED <<disp, fcbs, disco, contenido>>
   BY DEF Recibe
<1>2. Dispositivo' /\ ContenidoBien'
   BY <1>1 DEF TInv, Dispositivo, DispBien, ContenidoBien
<1>3. \A a \in Archivos : abiertos'[a] \in {abiertos[a], "por_crear", "abierto"}
   BY DEF Recibe, DInv, Formas
<1>4. FCBsBien' BY <1>1, <1>3 DEF TInv, FCBsBien
<1>5. Pedidos' BY <1>1 DEF Pedidos
<1> QED BY <1>2, <1>4, <1>5 DEF TInv

\* An answer, with nothing changed but perhaps the device or what was written.
LEMMA RespondeTInv ==
    ASSUME TInv, paso' = "responde", UNCHANGED <<fcbs, disco, pedido, abiertos>>,
           Dispositivo', ContenidoBien'
    PROVE  TInv'
<1>1. FCBsBien' BY DEF TInv, FCBsBien
<1>2. Pedidos' BY DEF Pedidos
<1> QED BY <1>1, <1>2 DEF TInv

\* A read or a write keeps the types.
LEMMA LeeEscribeTInv == ASSUME TInv, DInv, leerArchivo \/ escribirArchivo PROVE TInv'
<1>1. /\ paso = "atiende" /\ paso' = "responde"
      /\ pedido.op \in {"REQ_LEER_ARCHIVO", "REQ_ESCRIBIR_ARCHIVO"}
      /\ UNCHANGED <<fcbs, disco, pedido, abiertos>>
   BY DEF leerArchivo, escribirArchivo, Atiende, responderAKernel
<1>2. pedido.puntero \in Nat /\ pedido.tam \in Nat \ {0} BY <1>1 DEF TInv, Pedidos
<1>3. PICK a \in Archivos : a = pedido.arch BY <1>1 DEF DInv, Atendido, OpsDeArchivo
<1>4. PICK m : m = Modelo(a) OBVIOUS
<1>5. EsModelo(m) BY <1>4, ModeloBien
<1>6. CASE leerArchivo
   <2>1. PICK x : x = leer(m, pedido.puntero, pedido.tam).m OBVIOUS
   <2>2. disp' = ParteDisp(x) /\ UNCHANGED contenido BY <1>3, <1>4, <1>6, <2>1 DEF leerArchivo
   <2>3. EsModelo(x) BY <1>2, <1>5, <2>1, LeeModelo
   <2>4. Dispositivo' BY <2>2, <2>3, ParteBien DEF Dispositivo, DispBien
   <2>5. ContenidoBien' BY <2>2 DEF TInv, ContenidoBien
   <2> QED BY <1>1, <2>4, <2>5, RespondeTInv
<1>7. CASE escribirArchivo
   <2>1. PICK texto \in Textos :
            /\ disp' = ParteDisp(escribir(m, pedido.puntero, texto))
            /\ contenido' = [contenido EXCEPT ![a] = Anota(@, pedido.puntero, texto)]
      BY <1>3, <1>4, <1>7 DEF escribirArchivo
   <2>2. texto \in Seq(Int) BY FileSystemAssumption
   <2>3. PICK x : x = escribir(m, pedido.puntero, texto) OBVIOUS
   <2>4. EsModelo(x) BY <1>2, <1>5, <2>2, <2>3, EscribeModelo
   <2>5. disp' = ParteDisp(x) BY <2>1, <2>3
   <2>6. Dispositivo' BY <2>4, <2>5, ParteBien DEF Dispositivo, DispBien
   <2>7. PICK y : y = Anota(contenido[a], pedido.puntero, texto) OBVIOUS
   <2>8. contenido[a] \in Seq(Int) BY DEF TInv, ContenidoBien
   <2>9. y \in Seq(Int) BY <1>2, <2>2, <2>7, <2>8, AlAnotar
   <2>10. contenido' = [contenido EXCEPT ![a] = y] BY <2>1, <2>7
   <2>11. ContenidoBien' BY <2>9, <2>10 DEF TInv, ContenidoBien
   <2> QED BY <1>1, <2>6, <2>11, RespondeTInv
<1> QED BY <1>6, <1>7

\* A file is created with an FCB in order.
LEMMA VacioEsFCB == Vacio \in FCBs
<1>1. Vacio.tam = 0 BY DEF Vacio
<1>2. tam_max_archivo \in Int /\ 0 <= tam_max_archivo
   <2>1. 0 * (Palabras + 1) <= Palabras * (Palabras + 1) BY Medidas, Producto
   <2>2. 0 * (Palabras + 1) = 0 BY Medidas
   <2>3. Palabras * (Palabras + 1) \in Int BY Medidas
   <2> QED BY <2>1, <2>2, <2>3 DEF tam_max_archivo
<1> QED BY <1>2, Medidas DEF Vacio, FCBs

\* A creation keeps the types.
LEMMA CreaTInv == ASSUME TInv, DInv, crearArchivo \/ crearFCB PROVE TInv'
<1>1. PICK a \in Archivos : a = pedido.arch
   BY DEF DInv, crearArchivo, crearFCB, Atiende, Atendido, OpsDeArchivo
<1>2. CASE crearArchivo
   <2>1. /\ paso = "atiende" /\ paso' = "crea_fcb"
         /\ disco' = [disco EXCEPT ![a] = [fcb |-> Vacio, entero |-> FALSE]]
         /\ UNCHANGED <<disp, fcbs, pedido, respuesta, abiertos, contenido>>
      BY <1>1, <1>2 DEF crearArchivo, Atiende
   <2>2. Dispositivo' /\ ContenidoBien'
      BY <2>1 DEF TInv, Dispositivo, DispBien, ContenidoBien
   <2>3. FCBsBien' BY <2>1, VacioEsFCB DEF TInv, FCBsBien, DInv, Formas
   <2>4. Pedidos' BY <2>1 DEF TInv, Pedidos
   <2> QED BY <2>2, <2>3, <2>4 DEF TInv
<1>3. CASE crearFCB
   <2>1. /\ paso' = "responde"
         /\ fcbs' = [fcbs EXCEPT ![a] = Vacio]
         /\ disco' = [disco EXCEPT ![a] = [fcb |-> Vacio, entero |-> TRUE]]
         /\ contenido' = [contenido EXCEPT ![a] = <<>>]
         /\ UNCHANGED <<disp, abiertos>>
      BY <1>1, <1>3 DEF crearFCB, responderAKernel
   <2>2. Dispositivo' BY <2>1 DEF TInv, Dispositivo, DispBien
   <2>3. ContenidoBien' BY <2>1 DEF TInv, ContenidoBien
   <2>4. FCBsBien' BY <2>1, VacioEsFCB DEF TInv, FCBsBien, DInv, Formas
   <2>5. Pedidos' BY <2>1 DEF Pedidos
   <2> QED BY <2>2, <2>3, <2>4, <2>5 DEF TInv
<1> QED BY <1>2, <1>3

\* A truncation keeps the types, in each of its steps.
LEMMA TruncaTInv ==
    ASSUME TInv, DInv, truncarBloques \/ actualizar_tam_archivo \/ guardarFCB PROVE TInv'
<1>1. PICK a \in Archivos : a = pedido.arch
   BY DEF DInv, truncarBloques, actualizar_tam_archivo, guardarFCB, Atiende, Atendido, OpsDeArchivo
<1>2. PICK n \in Nat : n = pedido.tam
   BY FileSystemAssumption
      DEF DInv, truncarBloques, actualizar_tam_archivo, guardarFCB, Atiende, Atendido, OpsDeArchivo
<1>3. CASE truncarBloques
   <2>1. /\ paso = "atiende" /\ paso' \in {"muerto", "guarda_tam"}
         /\ n <= tam_max_archivo /\ n # fcbs[a].tam
         /\ UNCHANGED <<disco, pedido, respuesta, abiertos, contenido>>
      BY <1>1, <1>2, <1>3 DEF truncarBloques, Atiende
   <2>2. ContenidoBien' BY <2>1 DEF TInv, ContenidoBien
   <2>3. Pedidos' BY <1>2, <2>1 DEF TInv, Pedidos
   <2>4. CASE UNCHANGED <<disp, fcbs>>
      <3>1. Dispositivo' BY <2>4 DEF TInv, Dispositivo, DispBien
      <3>2. FCBsBien' BY <2>1, <2>4 DEF TInv, FCBsBien
      <3> QED BY <2>2, <2>3, <3>1, <3>2 DEF TInv
   <2>5. ASSUME NEW heap,
                \E m \in {truncar(Modelo(a), n, heap)} :
                   /\ disp' = ParteDisp(m)
                   /\ fcbs' = [fcbs EXCEPT ![a].directo = m.directo, ![a].indirecto = m.indirecto]
         PROVE  TInv'
      <3>1. PICK m : m = Modelo(a) OBVIOUS
      <3>2. PICK x : x = truncar(m, n, heap) OBVIOUS
      <3>3. /\ disp' = ParteDisp(x)
            /\ fcbs' = [fcbs EXCEPT ![a].directo = x.directo, ![a].indirecto = x.indirecto]
         BY <2>5, <3>1, <3>2
      <3>4. EsModelo(m) /\ m.tam = fcbs[a].tam BY <3>1, ModeloBien, CamposDeModelo
      <3>5. EsModelo(x) BY <2>1, <3>2, <3>4, TruncaModelo
      <3>6. Dispositivo' BY <3>3, <3>5, ParteBien DEF Dispositivo, DispBien
      <3>7. PICK d, i : d = x.directo /\ i = x.indirecto OBVIOUS
      <3>8. d \in NumeroOMenosUno /\ i \in NumeroOMenosUno BY <3>5, <3>7 DEF EsModelo
      <3>9. fcbs' = [fcbs EXCEPT ![a].directo = d, ![a].indirecto = i] BY <3>3, <3>7
      <3>10. fcbs'[a] \in FCBs
         <4>1. fcbs[a] \in FCBs BY DEF TInv, FCBsBien
         <4>2. fcbs'[a] = [[fcbs[a] EXCEPT !.directo = d] EXCEPT !.indirecto = i]
            BY <3>9 DEF DInv, Formas
         <4> QED BY <3>8, <4>1, <4>2 DEF FCBs, NumeroOMenosUno
      <3>11. \A b \in Archivos : b # a => fcbs'[b] = fcbs[b] BY <3>9 DEF DInv, Formas
      <3>12. FCBsBien' BY <2>1, <3>10, <3>11 DEF TInv, FCBsBien
      <3> QED BY <2>2, <2>3, <3>6, <3>12 DEF TInv
   <2> QED BY <1>1, <1>2, <1>3, <2>4, <2>5 DEF truncarBloques
<1>4. CASE actualizar_tam_archivo
   <2>1. /\ paso = "guarda_tam" /\ paso' = "guarda_fcb"
         /\ fcbs' = [fcbs EXCEPT ![a].tam = n]
         /\ disco' = [disco EXCEPT ![a].entero = FALSE]
         /\ UNCHANGED <<disp, pedido, respuesta, abiertos, contenido>>
      BY <1>1, <1>2, <1>4 DEF actualizar_tam_archivo
   <2>2. n <= tam_max_archivo BY <1>2, <2>1 DEF TInv, Pedidos
   <2>3. Dispositivo' /\ ContenidoBien'
      BY <2>1 DEF TInv, Dispositivo, DispBien, ContenidoBien
   <2>4. Pedidos' BY <2>1 DEF TInv, Pedidos
   <2>5. fcbs'[a] \in FCBs
      <3>1. fcbs[a] \in FCBs BY DEF TInv, FCBsBien
      <3>2. fcbs'[a] = [fcbs[a] EXCEPT !.tam = n] BY <2>1 DEF DInv, Formas
      <3>3. n \in -1 .. tam_max_archivo
         <4>1. tam_max_archivo \in Int BY Medidas DEF tam_max_archivo
         <4> QED BY <2>2, <4>1
      <3> QED BY <3>1, <3>2, <3>3 DEF FCBs
   <2>6. \A b \in Archivos : b # a => fcbs'[b] = fcbs[b] BY <2>1 DEF DInv, Formas
   <2>7. \A b \in Archivos : disco'[b].fcb = disco[b].fcb
      <3>1. \A b \in Archivos : b # a => disco'[b] = disco[b] BY <2>1 DEF DInv, Formas
      <3>2. disco'[a] = [disco[a] EXCEPT !.entero = FALSE] BY <2>1 DEF DInv, Formas
      <3>3. disco[a] = [fcb |-> disco[a].fcb, entero |-> disco[a].entero] BY DEF DInv, Formas
      <3>4. disco'[a].fcb = disco[a].fcb BY <3>2, <3>3
      <3> QED BY <3>1, <3>4
   <2>8. FCBsBien' BY <2>1, <2>5, <2>6, <2>7 DEF TInv, FCBsBien
   <2> QED BY <2>3, <2>4, <2>8 DEF TInv
<1>5. CASE guardarFCB
   <2>1. /\ paso' = "responde"
         /\ disco' = [disco EXCEPT ![a] = [fcb |-> fcbs[a], entero |-> TRUE]]
         /\ UNCHANGED <<disp, fcbs, abiertos, contenido>>
      BY <1>1, <1>5 DEF guardarFCB, config_save, responderAKernel
   <2>2. Dispositivo' /\ ContenidoBien'
      BY <2>1 DEF TInv, Dispositivo, DispBien, ContenidoBien
   <2>3. FCBsBien' BY <2>1 DEF TInv, FCBsBien, DInv, Formas
   <2>4. Pedidos' BY <2>1 DEF Pedidos
   <2> QED BY <2>2, <2>3, <2>4 DEF TInv
<1> QED BY <1>3, <1>4, <1>5

\* A restart keeps the types.
LEMMA ReinicioTInv == ASSUME TInv, DInv, Reinicio PROVE TInv'
<1>1. /\ paso' \in {"espera", "no_arranca"} /\ respuesta' = "NINGUNA"
      /\ disp' = levantarBitmap
      /\ abiertos' = [a \in Archivos |-> "cerrado"]
      /\ fcbs' = [a \in Archivos |-> disco[a].fcb] \/ UNCHANGED fcbs
      /\ UNCHANGED <<disco, contenido>>
   BY DEF Reinicio
<1>2. Dispositivo'
   <2>1. PICK bl : bl = IF disp.perdible = <<>> THEN disp.bloques
                        ELSE [disp.bloques EXCEPT ![disp.perdible[1]] = disp.perdible[2]]
      OBVIOUS
   <2>2. disp' = [bitmap |-> [b \in NumerosDeBloque |-> FALSE], libres |-> CantBloques,
                  bloques |-> bl, cursor |-> 0, perdible |-> <<>>]
      BY <1>1, <2>1 DEF levantarBitmap
   <2>3. /\ DOMAIN disp.bloques = Posiciones /\ \A p \in Posiciones : disp.bloques[p] \in Int
         /\ disp.perdible # <<>> => disp.perdible[2] \in Int
      BY DEF TInv, Dispositivo, DispBien
   <2>4. DOMAIN bl = Posiciones /\ \A p \in Posiciones : bl[p] \in Int
      <3>1. CASE disp.perdible = <<>> BY <3>1, <2>1, <2>3
      <3>2. CASE disp.perdible # <<>>
         <4>1. PICK q, v : q = disp.perdible[1] /\ v = disp.perdible[2] OBVIOUS
         <4>2. bl = [disp.bloques EXCEPT ![q] = v] BY <2>1, <3>2, <4>1
         <4>3. v \in Int BY <2>3, <3>2, <4>1
         <4>4. DOMAIN bl = Posiciones BY <2>3, <4>2
         <4>5. \A p \in Posiciones : bl[p] = IF p = q THEN v ELSE disp.bloques[p] BY <2>3, <4>2
         <4> QED BY <2>3, <4>3, <4>4, <4>5
      <3> QED BY <3>1, <3>2
   <2>5. /\ disp'.bitmap = [b \in NumerosDeBloque |-> FALSE] /\ disp'.libres = CantBloques
         /\ disp'.bloques = bl /\ disp'.cursor = 0 /\ disp'.perdible = <<>>
         /\ DOMAIN disp' = CamposDisp
      BY <2>2 DEF CamposDisp
   <2> QED BY <2>4, <2>5, Medidas DEF Dispositivo, DispBien
<1>3. FCBsBien' BY <1>1 DEF TInv, FCBsBien
<1>4. Pedidos' BY <1>1 DEF Pedidos
<1>5. ContenidoBien' BY <1>1 DEF TInv, ContenidoBien
<1> QED BY <1>2, <1>3, <1>4, <1>5 DEF TInv

\* Every step keeps the types.
LEMMA TInvInductivo == TInv /\ DInv /\ [Next]_vars => TInv'
<1> SUFFICES ASSUME TInv, DInv, [Next]_vars PROVE TInv' OBVIOUS
<1>1. CASE UNCHANGED vars
   <2>1. UNCHANGED <<disp, fcbs, disco, paso, pedido, respuesta, abiertos, contenido>>
      BY <1>1 DEF vars
   <2> QED BY <2>1 DEF TInv, Dispositivo, DispBien, FCBsBien, Pedidos, ContenidoBien
<1>2. CASE OpMemoria \/ abrirArchivo \/ truncarSinCambio \/ leerRechazado \/ escribirRechazado
   <2>1. /\ paso' = "responde" /\ UNCHANGED <<disp, fcbs, disco, pedido, abiertos, contenido>>
      BY <1>2 DEF OpMemoria, abrirArchivo, truncarSinCambio, leerRechazado, escribirRechazado,
                  SoloResponde, responderAKernel
   <2>2. Dispositivo' /\ ContenidoBien'
      BY <2>1 DEF TInv, Dispositivo, DispBien, ContenidoBien
   <2> QED BY <2>1, <2>2, RespondeTInv
<1> QED BY <1>1, <1>2, PideTInv, RecibeTInv, LeeEscribeTInv, CreaTInv, TruncaTInv, ReinicioTInv
        DEF Next, Kernel, atenderReqKernel

\* The state keeps its shape, whatever the Kernel asks for and wherever the
\* process ends; a file is created only after its opening failed.
THEOREM TiposDelFileSystem == Spec => []TypeOK
<1>1. TInv /\ DInv => TypeOK
   <2> SUFFICES ASSUME TInv, DInv PROVE TypeOK OBVIOUS
   <2>1. /\ disp.bitmap \in [NumerosDeBloque -> BOOLEAN] /\ disp.libres \in Int
         /\ disp.cursor \in Nat /\ DOMAIN disp.bloques = Posiciones
      BY DEF TInv, Dispositivo, DispBien
   <2>2. fcbs \in [Archivos -> FCBs] BY DEF TInv, FCBsBien, DInv, Formas
   <2>3. disco \in [Archivos -> [fcb : FCBs, entero : BOOLEAN]]
      BY DEF TInv, FCBsBien, DInv, Formas
   <2>4. abiertos \in [Archivos -> {"cerrado", "por_crear", "abierto"}]
      BY DEF TInv, FCBsBien, DInv, Formas
   <2>5. paso \in Pasos BY DEF DInv, Formas
   <2>6. \A a \in Archivos : abiertos[a] = "por_crear" /\ paso = "espera" => ~Existe(a)
      BY DEF DInv, PorCrear
   <2> QED BY <2>1, <2>2, <2>3, <2>4, <2>5, <2>6 DEF TypeOK
<1> QED BY <1>1, InitTInv, TInvInductivo, DirectorioInductivo, PTL DEF Spec

-----------------------------------------------------------------------------
(* The blocks of each file in the state.                                   *)

Cuantos(a) == NBloques(TamEnCurso(a))
Bloque(a, k) == BloqueDe(TamEnCurso(a), fcbs[a].directo, fcbs[a].indirecto, disp.bloques, k)

EsSecuencia(s) == \E S : s \in Seq(S)
EsTupla(f, n) == f = [i \in 1 .. n |-> f[i]]

\* s lists the first n of them
Lista(s, n, a) ==
    /\ EsSecuencia(s)
    /\ DOMAIN s = 1 .. n /\ Len(s) = n /\ \A k \in 1 .. n : s[k] = Bloque(a, k)

\* s is d, and the n of f after it
PrimeroYResto(s, d, f, n) ==
    /\ EsSecuencia(s)
    /\ Len(s) = n + 1 /\ DOMAIN s = 1 .. n + 1 /\ s[1] = d
    /\ \A k \in 2 .. n + 1 : s[k] = f[k - 1]

\* A list of blocks: the direct one, and those listed after it.
LEMMA DetrasDelPrimero ==
    ASSUME NEW d, NEW n \in Nat, NEW f, EsTupla(f, n), NEW s, s = <<d>> \o f
    PROVE  PrimeroYResto(s, d, f, n)
<1>1. PICK S : S = {d} \cup {f[i] : i \in 1 .. n} OBVIOUS
<1>2. f \in Seq(S) /\ Len(f) = n
   <2>1. f \in [1 .. n -> S] BY <1>1 DEF EsTupla
   <2> QED BY <2>1
<1>3. <<d>> \in Seq(S) /\ Len(<<d>>) = 1 BY <1>1
<1>4. s \in Seq(S) /\ Len(s) = 1 + n
      /\ \A i \in 1 .. 1 + n : s[i] = IF i <= 1 THEN <<d>>[i] ELSE f[i - 1]
   BY <1>2, <1>3, ConcatProperties
<1>5. DOMAIN s = 1 .. n + 1 BY <1>4
<1>6. \A k \in 2 .. n + 1 : k \in 1 .. 1 + n /\ ~(k <= 1) OBVIOUS
<1>7. 1 \in 1 .. 1 + n /\ <<d>>[1] = d OBVIOUS
<1>8. EsSecuencia(s) BY <1>4 DEF EsSecuencia
<1> QED BY <1>4, <1>5, <1>6, <1>7, <1>8 DEF PrimeroYResto

\* The size of a file, that under way included, is an integer.
LEMMA TamanioEntero == ASSUME TInv, DInv, NEW a \in Archivos PROVE TamEnCurso(a) \in Int
<1>1. fcbs[a].tam \in Int BY DEF TInv, FCBsBien, FCBs
<1>2. paso = "guarda_tam" /\ pedido.arch = a => pedido.tam \in Int
   <2> SUFFICES ASSUME paso = "guarda_tam" PROVE pedido.tam \in Int OBVIOUS
   <2>1. pedido.tam \in TamaniosPedidos BY DEF DInv, Atendido
   <2>2. TamaniosPedidos \subseteq Nat BY FileSystemAssumption
   <2>3. pedido.tam \in Nat BY <2>1, <2>2, Zenon
   <2> QED BY <2>3
<1> QED BY <1>1, <1>2 DEF TamEnCurso

\* BloquesDeDatos lists the blocks of data of the file, in order.
LEMMA LosDeDatos ==
    ASSUME TInv, DInv, NEW a \in Archivos, TamEnCurso(a) < tam_max_archivo
    PROVE  Lista(BloquesDeDatos(a), NDatos(TamEnCurso(a)), a)
<1>1. PICK t \in Int : t = TamEnCurso(a) BY TamanioEntero
<1>2. PICK d, c, s : d = fcbs[a].directo /\ c = fcbs[a].indirecto /\ s = BloquesDeDatos(a) OBVIOUS
<1>3. CASE t <= 0
   <2>1. s = <<>> BY <1>1, <1>2, <1>3 DEF BloquesDeDatos
   <2>2. NDatos(t) = 0 BY <1>1, <1>3, Cuentas
   <2>3. DOMAIN s = 1 .. 0 /\ Len(s) = 0 /\ s \in Seq({}) BY <2>1 DEF EsSecuencia
   <2> QED BY <1>1, <1>2, <2>2, <2>3 DEF Lista, EsSecuencia
<1>4. CASE t > 0 /\ t <= Palabras
   <2>0. ~(t <= 0) BY <1>4
   <2>1. s = <<d>> BY <1>1, <1>2, <1>4, <2>0 DEF BloquesDeDatos
   <2>2. NDatos(t) = 1 BY <1>1, <1>4, Cuentas
   <2>3. Bloque(a, 1) = d BY <1>2 DEF Bloque, BloqueDe
   <2>4. DOMAIN s = 1 .. 1 /\ Len(s) = 1 /\ s[1] = d /\ s \in Seq({d}) BY <2>1
   <2>5. \A k \in 1 .. 1 : k = 1 OBVIOUS
   <2> QED BY <1>1, <1>2, <2>2, <2>3, <2>4, <2>5 DEF Lista, EsSecuencia
<1>5. CASE t > Palabras
   <2>1. PICK q : q = EnLista(t) OBVIOUS
   <2>2. q \in 1 .. Palabras /\ q = t \div Palabras /\ NDatos(t) = q + 1
      BY <1>1, <1>5, <2>1, Cuentas
   <2>3. PICK f : f = [i \in 1 .. q |-> disp.bloques[c * Palabras + i - 1]] OBVIOUS
   <2>4. ~(t <= 0) /\ ~(t > 0 /\ t <= Palabras) BY <1>5, Medidas
   <2>5. s = <<d>> \o f
      <3>1. ~(TamEnCurso(a) <= 0) /\ ~(TamEnCurso(a) > 0 /\ TamEnCurso(a) <= Palabras)
         BY <1>1, <2>4
      <3>2. s = <<fcbs[a].directo>> \o
                   [i \in 1 .. TamEnCurso(a) \div Palabras |->
                       disp.bloques[fcbs[a].indirecto * Palabras + i - 1]]
         BY <1>2, <3>1, Zenon DEF BloquesDeDatos
      <3> QED BY <1>1, <1>2, <2>2, <2>3, <3>2
   <2>6. /\ EsSecuencia(s)
         /\ Len(s) = q + 1 /\ DOMAIN s = 1 .. q + 1 /\ s[1] = d
         /\ \A k \in 2 .. q + 1 : s[k] = f[k - 1]
      <3>1. q \in Nat /\ EsTupla(f, q) BY <2>2, <2>3, Medidas DEF EsTupla
      <3>2. PrimeroYResto(s, d, f, q) BY <2>5, <3>1, DetrasDelPrimero, Zenon
      <3> QED BY <3>2 DEF PrimeroYResto
   <2>7. ASSUME NEW k \in 1 .. q + 1 PROVE s[k] = Bloque(a, k)
      <3>1. CASE k = 1 BY <1>2, <2>6, <3>1 DEF Bloque, BloqueDe
      <3>2. CASE k # 1
         <4>1. k \in 2 .. q + 1 /\ k - 1 \in 1 .. q /\ k # q + 2 /\ k \in Int
            BY <2>2, <3>2, Medidas
         <4>2. PICK w : w = c * Palabras OBVIOUS
         <4>3. w \in Int BY <1>2, <4>2, Medidas DEF TInv, FCBsBien, FCBs
         <4>4. w + (k - 1) - 1 = w + (k - 2) BY <4>1, <4>3
         <4>5. s[k] = disp.bloques[w + (k - 2)] BY <2>3, <2>6, <4>1, <4>2, <4>4
         <4>6. Bloque(a, k) = disp.bloques[w + (k - 2)]
            BY <1>1, <1>2, <2>1, <3>2, <4>1, <4>2 DEF Bloque, BloqueDe
         <4> QED BY <4>5, <4>6
      <3> QED BY <3>1, <3>2
   <2> QED BY <1>1, <1>2, <2>2, <2>6, <2>7 DEF Lista
<1> QED BY <1>1, <1>3, <1>4, <1>5, Medidas

\* BloquesDe lists all its blocks, in order.
LEMMA LosBloques ==
    ASSUME TInv, DInv, NEW a \in Archivos, TamEnCurso(a) < tam_max_archivo
    PROVE  Lista(BloquesDe(a), Cuantos(a), a)
<1>1. PICK t \in Int : t = TamEnCurso(a) BY TamanioEntero
<1>2. PICK s, n : s = BloquesDeDatos(a) /\ n = NDatos(t) OBVIOUS
<1>3. Lista(s, n, a) BY <1>1, <1>2, LosDeDatos
<1>4. n \in Nat BY <1>1, <1>2, Cuentas
<1>5. CASE ~(t > Palabras)
   <2>1. BloquesDe(a) = s BY <1>1, <1>2, <1>5 DEF BloquesDe
   <2>2. Cuantos(a) = n BY <1>1, <1>2, <1>5 DEF Cuantos, NBloques
   <2> QED BY <1>3, <2>1, <2>2
<1>6. CASE t > Palabras
   <2>1. PICK c, z : c = fcbs[a].indirecto /\ z = Append(s, c) OBVIOUS
   <2>2. BloquesDe(a) = z BY <1>1, <1>2, <1>6, <2>1 DEF BloquesDe
   <2>3. Cuantos(a) = n + 1 /\ n + 1 = EnLista(t) + 2 /\ n # 0
      <3>1. n = EnLista(t) + 1 /\ NBloques(t) = EnLista(t) + 2 /\ EnLista(t) \in Nat
         BY <1>1, <1>2, <1>6, Cuentas
      <3> QED BY <1>1, <3>1 DEF Cuantos
   <2>4. PICK S : s \in Seq(S) BY <1>3 DEF Lista, EsSecuencia
   <2>5. PICK T : T = S \cup {c} OBVIOUS
   <2>6. s \in Seq(T) /\ c \in T BY <2>4, <2>5
   <2>7. Len(s) = n /\ \A k \in 1 .. n : s[k] = Bloque(a, k) BY <1>3 DEF Lista
   <2>8. /\ z \in Seq(T) /\ Len(z) = n + 1 /\ z[n + 1] = c
         /\ \A k \in 1 .. n : z[k] = s[k]
      BY <2>1, <2>6, <2>7, AppendProperties
   <2>9. DOMAIN z = 1 .. n + 1 BY <2>8
   <2>10. Bloque(a, n + 1) = c BY <1>1, <2>1, <2>3, <1>4 DEF Bloque, BloqueDe
   <2>11. \A k \in 1 .. n + 1 : z[k] = Bloque(a, k)
      <3>1. \A k \in 1 .. n + 1 : k \in 1 .. n \/ k = n + 1 BY <1>4
      <3> QED BY <2>7, <2>8, <2>10, <3>1
   <2> QED BY <2>2, <2>3, <2>8, <2>9, <2>11 DEF Lista, EsSecuencia
<1> QED BY <1>5, <1>6

\* the invariant of blocks and words: while every operation so far is one that
\* the code serves in full, sizes are below the limit, a growth is from empty,
\* the FCB on disk of a file that has blocks is that in memory, and nothing was
\* written past the blocks of the file
Medidos == \A a \in Archivos : TamEnCurso(a) < tam_max_archivo
CreceDeVacio == paso = "guarda_tam" => fcbs[pedido.arch].tam = 0 /\ pedido.tam > 0
FCBEnDisco ==
    paso # "no_arranca" =>
       \A a \in Archivos : fcbs[a].tam > 0 /\ ~Tocado(a) => disco[a].fcb = fcbs[a]
Cabe == \A a \in Archivos : Len(contenido[a]) <= Capacidad(fcbs[a].tam)

\* no block is of two files, or twice of one
Distintos ==
    /\ \A a \in Archivos : \A k \in 1 .. Cuantos(a) : Bloque(a, k) \in NumerosDeBloque
    /\ \A a, b \in Archivos : \A k \in 1 .. Cuantos(a), l \in 1 .. Cuantos(b) :
          Bloque(a, k) = Bloque(b, l) => a = b /\ k = l

\* the bitmap marks them and no other
Usados == {b \in NumerosDeBloque : \E a \in Archivos : \E k \in 1 .. Cuantos(a) : b = Bloque(a, k)}
AlDia == Ocupados(disp) = Usados /\ Cuadra(disp)

\* they have what was written
Escritos ==
    \A a \in Archivos : \A j \in 1 .. NDatos(TamEnCurso(a)), o \in 0 .. Palabras - 1 :
       Orden(j, o) + 1 \in 1 .. Len(contenido[a]) /\ contenido[a][Orden(j, o) + 1] # NoEscrito =>
          Palabra(disp, Bloque(a, j), o) = contenido[a][Orden(j, o) + 1]

Regla ==
    enRegla => /\ Medidos /\ CreceDeVacio /\ FCBEnDisco /\ Cabe
               /\ olvido # "reasigna" => Distintos
               /\ olvido = "no" /\ paso # "no_arranca" => AlDia
               /\ olvido # "reasigna" /\ paso # "no_arranca" => Escritos

\* Each word written is a word of a block of data of its file.
LEMMA ElLugar ==
    ASSUME TInv, DInv, Medidos, CreceDeVacio, Cabe, NEW a \in Archivos, NEW i \in 1 .. Len(contenido[a])
    PROVE  \E j \in 1 .. NDatos(TamEnCurso(a)), o \in 0 .. Palabras - 1 :
              i = Orden(j, o) + 1 /\ Lugar(a, i) = Bloque(a, j) * Palabras + o
<1>1. PICK t \in Int : t = TamEnCurso(a) BY TamanioEntero
<1>2. PICK l \in Nat : l = Len(contenido[a]) BY DEF TInv, ContenidoBien
<1>3. l <= Capacidad(fcbs[a].tam) /\ 0 < l BY <1>2 DEF Cabe
<1>4. fcbs[a].tam \in Int BY DEF TInv, FCBsBien, FCBs
<1>5. fcbs[a].tam > 0 BY <1>2, <1>3, <1>4 DEF Capacidad
<1>6. t = fcbs[a].tam BY <1>1, <1>4, <1>5 DEF TamEnCurso, CreceDeVacio
<1>7. t > 0 /\ (IF t <= Palabras THEN l <= Palabras ELSE l <= t)
   BY <1>3, <1>4, <1>5, <1>6 DEF Capacidad
<1>8. PICK q, o : q = (i - 1) \div Palabras /\ o = (i - 1) % Palabras OBVIOUS
<1>9. q \in Int /\ o \in 0 .. Palabras - 1 /\ i - 1 = q * Palabras + o
   <2>1. i - 1 \in Int BY <1>2
   <2> QED BY <1>8, <2>1, Dividir, Zenon
<1>10. PICK j \in Int : j = q + 1 BY <1>9
<1>11. i = Orden(j, o) + 1
   <2>1. j - 1 = q BY <1>9, <1>10
   <2>2. Orden(j, o) = i - 1 BY <1>9, <2>1 DEF Orden
   <2> QED BY <1>2, <2>2
<1>12. 0 <= q
   <2>1. 0 = 0 * Palabras + 0 /\ 0 \in 0 .. Palabras - 1 BY Medidas
   <2>2. 0 \div Palabras = 0 BY <2>1, Cociente
   <2>3. 0 <= i - 1 /\ i - 1 \in Int BY <1>2
   <2> QED BY <1>8, <2>2, <2>3, DivMonotona
<1>13. t < tam_max_archivo BY <1>1 DEF Medidos
<1>14. j \in 1 .. NDatos(t)
   <2>1. CASE t <= Palabras
      <3>1. NDatos(t) = 1 BY <1>7, <1>13, <2>1, Cuentas
      <3>2. q = 0
         <4>1. i - 1 = 0 * Palabras + (i - 1) /\ i - 1 \in 0 .. Palabras - 1
            BY <1>2, <1>7, <2>1, Medidas
         <4>2. i - 1 \in Int BY <1>2
         <4> QED BY <1>8, <4>1, <4>2, Cociente
      <3> QED BY <1>10, <3>1, <3>2
   <2>2. CASE t > Palabras
      <3>0. PICK u : u = t \div Palabras OBVIOUS
      <3>1. NDatos(t) = u + 1 /\ u \in Int
         BY <1>13, <2>2, <3>0, Cuentas, Medidas
      <3>2. i - 1 \in Int /\ i - 1 <= t BY <1>2, <1>7, <2>2, Medidas
      <3>3. q <= u BY <1>8, <3>0, <3>2, DivMonotona
      <3> QED BY <1>9, <1>10, <1>12, <3>1, <3>3
   <2> QED BY <2>1, <2>2, Medidas
<1>15. BloquesDeDatos(a)[j] = Bloque(a, j) BY <1>1, <1>13, <1>14, LosDeDatos DEF Lista
<1>16. Lugar(a, i) = Bloque(a, j) * Palabras + o BY <1>8, <1>10, <1>15 DEF Lugar
<1> QED BY <1>1, <1>9, <1>11, <1>14, <1>16

\* What the runs check, from the invariant.
LEMMA SinCompartirDeRegla == ASSUME TInv, DInv, Regla PROVE SinBloquesCompartidos
<1> SUFFICES ASSUME enRegla, olvido # "reasigna" PROVE
      /\ \A a \in Archivos : ToSet(BloquesDe(a)) \subseteq NumerosDeBloque
                             /\ IsInjective(BloquesDe(a))
      /\ \A a, b \in Archivos : a # b => ToSet(BloquesDe(a)) \cap ToSet(BloquesDe(b)) = {}
   BY DEF SinBloquesCompartidos
<1>1. Medidos /\ Distintos BY DEF Regla
<1>2. \A a \in Archivos : Lista(BloquesDe(a), Cuantos(a), a) BY <1>1, LosBloques DEF Medidos
<1>3. \A a \in Archivos :
         /\ DOMAIN BloquesDe(a) = 1 .. Cuantos(a)
         /\ \A k \in 1 .. Cuantos(a) : BloquesDe(a)[k] = Bloque(a, k)
   BY <1>2 DEF Lista
<1>4. \A a \in Archivos : ToSet(BloquesDe(a)) = {Bloque(a, k) : k \in 1 .. Cuantos(a)}
   BY <1>3 DEF ToSet
<1>5. \A a \in Archivos : ToSet(BloquesDe(a)) \subseteq NumerosDeBloque
   BY <1>1, <1>4 DEF Distintos
<1>6. ASSUME NEW a \in Archivos PROVE IsInjective(BloquesDe(a))
   <2> SUFFICES ASSUME NEW k \in 1 .. Cuantos(a), NEW l \in 1 .. Cuantos(a),
                       BloquesDe(a)[k] = BloquesDe(a)[l]
                PROVE  k = l
      BY <1>3 DEF IsInjective
   <2> QED BY <1>1, <1>3 DEF Distintos
<1>7. ASSUME NEW a \in Archivos, NEW b \in Archivos, a # b
      PROVE  ToSet(BloquesDe(a)) \cap ToSet(BloquesDe(b)) = {}
   BY <1>1, <1>4, <1>7 DEF Distintos
<1> QED BY <1>5, <1>6, <1>7

\* The same for the bitmap.
LEMMA AlDiaDeRegla == ASSUME TInv, DInv, Regla PROVE BitmapAlDia
<1> SUFFICES ASSUME enRegla, olvido = "no", paso # "no_arranca"
             PROVE  LET marcados == {b \in NumerosDeBloque : disp.bitmap[b]}
                        usados   == UNION {ToSet(BloquesDe(a)) : a \in Archivos}
                    IN  marcados = usados /\ disp.libres = CantBloques - Cardinality(marcados)
   BY DEF BitmapAlDia
<1>1. Medidos /\ Distintos /\ AlDia BY DEF Regla
<1>2. \A a \in Archivos : Lista(BloquesDe(a), Cuantos(a), a) BY <1>1, LosBloques DEF Medidos
<1>3. \A a \in Archivos : ToSet(BloquesDe(a)) = {Bloque(a, k) : k \in 1 .. Cuantos(a)}
   BY <1>2 DEF Lista, ToSet
<1>4. UNION {ToSet(BloquesDe(a)) : a \in Archivos} = Usados
   <2>1. \A x : x \in UNION {ToSet(BloquesDe(a)) : a \in Archivos}
                <=> \E a \in Archivos : \E k \in 1 .. Cuantos(a) : x = Bloque(a, k)
      BY <1>3
   <2>2. \A a \in Archivos : \A k \in 1 .. Cuantos(a) : Bloque(a, k) \in NumerosDeBloque
      BY <1>1 DEF Distintos
   <2> QED BY <2>1, <2>2 DEF Usados
<1> QED BY <1>1, <1>4 DEF AlDia, Ocupados, Cuadra

\* The same for what was written.
LEMMA QuedaDeRegla == ASSUME TInv, DInv, Regla PROVE LoEscritoQueda
<1> SUFFICES ASSUME enRegla, olvido # "reasigna", paso # "no_arranca",
                    NEW a \in Archivos, NEW i \in 1 .. Len(contenido[a]), contenido[a][i] # NoEscrito
             PROVE  Lugar(a, i) \in Posiciones /\ disp.bloques[Lugar(a, i)] = contenido[a][i]
   BY DEF LoEscritoQueda
<1>1. Medidos /\ CreceDeVacio /\ Cabe /\ Distintos /\ Escritos BY DEF Regla
<1>2. PICK j \in 1 .. NDatos(TamEnCurso(a)), o \in 0 .. Palabras - 1 :
         i = Orden(j, o) + 1 /\ Lugar(a, i) = Bloque(a, j) * Palabras + o
   BY <1>1, ElLugar
<1>3. Palabra(disp, Bloque(a, j), o) = contenido[a][i] BY <1>1, <1>2 DEF Escritos
<1>4. j \in 1 .. Cuantos(a)
   <2>1. PICK t \in Int : t = TamEnCurso(a) BY TamanioEntero
   <2>2. NDatos(t) \in Nat /\ NBloques(t) \in Nat /\ NDatos(t) <= NBloques(t)
      BY <1>1, <2>1, Cuentas DEF Medidos
   <2> QED BY <2>1, <2>2 DEF Cuantos
<1>5. Bloque(a, j) \in NumerosDeBloque BY <1>1, <1>4 DEF Distintos
<1>6. Lugar(a, i) \in Posiciones BY <1>2, <1>5, EnPosiciones
<1> QED BY <1>2, <1>3, <1>6 DEF Palabra

-----------------------------------------------------------------------------
(* Steps that leave the blocks as they are.                                *)

\* file a keeps its blocks and what was written to it; it has none
Mismo(a) ==
    /\ TamEnCurso(a)' = TamEnCurso(a)
    /\ fcbs'[a].directo = fcbs[a].directo /\ fcbs'[a].indirecto = fcbs[a].indirecto
    /\ contenido'[a] = contenido[a]
SinNada(a) == TamEnCurso(a)' \in Int /\ TamEnCurso(a)' <= 0 /\ TamEnCurso(a)' < tam_max_archivo

\* A file whose FCB and words stay has the blocks it had.
LEMMA MismosBloques ==
    ASSUME disp'.bloques = disp.bloques, NEW a \in Archivos, Mismo(a)
    PROVE  /\ Cuantos(a)' = Cuantos(a) /\ NDatos(TamEnCurso(a))' = NDatos(TamEnCurso(a))
           /\ \A k : Bloque(a, k)' = Bloque(a, k)
<1>1. Cuantos(a)' = Cuantos(a) /\ NDatos(TamEnCurso(a))' = NDatos(TamEnCurso(a))
   BY DEF Mismo, Cuantos, NBloques, NDatos, EnLista
<1>2. \A k : Bloque(a, k)' = Bloque(a, k) BY DEF Mismo, Bloque, BloqueDe, EnLista
<1> QED BY <1>1, <1>2

\* An empty file has none.
LEMMA NingunBloque ==
    ASSUME NEW a \in Archivos, SinNada(a)
    PROVE  Cuantos(a)' = 0 /\ NDatos(TamEnCurso(a))' = 0
BY Medidas DEF SinNada, Cuantos, NBloques, NDatos, EnLista

\* No block comes to be shared, and no word is lost, where no word changes.
LEMMA Heredan ==
    ASSUME disp'.bloques = disp.bloques, \A a \in Archivos : Mismo(a) \/ SinNada(a)
    PROVE  (Distintos => Distintos') /\ (Escritos => Escritos')
<1>1. \A a \in Archivos :
         \/ Mismo(a) /\ Cuantos(a)' = Cuantos(a) /\ \A k : Bloque(a, k)' = Bloque(a, k)
         \/ Cuantos(a)' = 0
   BY MismosBloques, NingunBloque
<1>2. \A a \in Archivos : \A k \in 1 .. Cuantos(a)' :
         k \in 1 .. Cuantos(a) /\ Bloque(a, k)' = Bloque(a, k)
   BY <1>1
<1>3. Distintos => Distintos' BY <1>2 DEF Distintos
<1>4. ASSUME Escritos PROVE Escritos'
   <2> SUFFICES ASSUME NEW a \in Archivos, NEW j \in 1 .. NDatos(TamEnCurso(a))',
                       NEW o \in 0 .. Palabras - 1,
                       Orden(j, o) + 1 \in 1 .. Len(contenido'[a]),
                       contenido'[a][Orden(j, o) + 1] # NoEscrito
                PROVE  Palabra(disp, Bloque(a, j), o)' = contenido'[a][Orden(j, o) + 1]
      BY DEF Escritos
   <2>1. ~SinNada(a) BY NingunBloque
   <2>2. Mismo(a) BY <2>1
   <2>3. /\ NDatos(TamEnCurso(a))' = NDatos(TamEnCurso(a)) /\ Bloque(a, j)' = Bloque(a, j)
         /\ contenido'[a] = contenido[a]
      BY <2>2, MismosBloques DEF Mismo
   <2>4. Palabra(disp, Bloque(a, j), o) = contenido[a][Orden(j, o) + 1]
      BY <1>4, <2>3 DEF Escritos
   <2>5. Palabra(disp, Bloque(a, j), o)' = Palabra(disp, Bloque(a, j), o)
      BY <2>3 DEF Palabra
   <2> QED BY <2>3, <2>4, <2>5
<1> QED BY <1>3, <1>4

\* the bitmap and the words of the blocks are what they were
MismoAparato ==
    disp'.bitmap = disp.bitmap /\ disp'.libres = disp.libres /\ disp'.bloques = disp.bloques

\* The invariant survives where neither words nor bitmap change.
LEMMA Quieto ==
    ASSUME Regla, paso # "no_arranca", UNCHANGED <<enRegla, olvido>>, MismoAparato,
           \A a \in Archivos : Mismo(a) \/ (SinNada(a) /\ TamEnCurso(a) \in Int /\ TamEnCurso(a) <= 0),
           enRegla => CreceDeVacio' /\ FCBEnDisco' /\ Cabe'
    PROVE  Regla'
<1> SUFFICES ASSUME enRegla PROVE Regla' BY DEF Regla
<1>1. \A a \in Archivos : Mismo(a) \/ SinNada(a) OBVIOUS
<1>2. Medidos' BY <1>1 DEF Regla, Medidos, Mismo, SinNada
<1>3. (Distintos => Distintos') /\ (Escritos => Escritos')
   BY <1>1, Heredan DEF MismoAparato
<1>4. ASSUME AlDia PROVE AlDia'
   <2>1. \A a \in Archivos :
            \/ Cuantos(a)' = Cuantos(a) /\ \A k : Bloque(a, k)' = Bloque(a, k)
            \/ Cuantos(a)' = 0 /\ Cuantos(a) = 0
      <3> SUFFICES ASSUME NEW a \in Archivos, ~Mismo(a) PROVE Cuantos(a)' = 0 /\ Cuantos(a) = 0
         BY MismosBloques DEF MismoAparato
      <3>1. Cuantos(a) = 0 BY Medidas DEF Cuantos, NBloques, NDatos
      <3> QED BY <3>1, NingunBloque
   <2>2. \A a \in Archivos : \A b :
            (\E k \in 1 .. Cuantos(a)' : b = Bloque(a, k)') <=> \E k \in 1 .. Cuantos(a) : b = Bloque(a, k)
      BY <2>1
   <2>3. Usados' = Usados BY <2>2 DEF Usados
   <2>4. Ocupados(disp)' = Ocupados(disp) BY DEF Ocupados, MismoAparato
   <2>5. Cuadra(disp)' BY <1>4, <2>4 DEF AlDia, Cuadra, MismoAparato
   <2> QED BY <1>4, <2>3, <2>4, <2>5 DEF AlDia
<1> QED BY <1>2, <1>3, <1>4 DEF Regla

\* FCBs in memory, words and bitmap stay, and no size is being changed.
LEMMA FCBsQuietos ==
    ASSUME TInv, DInv, Regla, UNCHANGED <<fcbs, contenido, enRegla, olvido>>, MismoAparato,
           paso \notin {"no_arranca", "guarda_tam"}, paso' \notin {"no_arranca", "guarda_tam"},
           \A a \in Archivos : fcbs[a].tam > 0 /\ ~Tocado(a)' =>
              disco'[a].fcb = fcbs[a] \/ (~Tocado(a) /\ disco'[a].fcb = disco[a].fcb)
    PROVE  Regla'
<1>1. \A a \in Archivos : Mismo(a) BY DEF Mismo, TamEnCurso
<1>2. CreceDeVacio' BY DEF CreceDeVacio
<1>3. ASSUME enRegla PROVE FCBEnDisco' /\ Cabe'
   <2>1. FCBEnDisco /\ Cabe BY <1>3 DEF Regla
   <2>2. Cabe' BY <2>1 DEF Cabe, Capacidad
   <2>3. FCBEnDisco' BY <2>1 DEF FCBEnDisco
   <2> QED BY <2>2, <2>3
<1> QED BY <1>1, <1>2, <1>3, Quieto

\* A request of the Kernel keeps the invariant.
LEMMA PideRegla ==
    ASSUME TInv, DInv, Regla,
           PideAbrir \/ PideCrear \/ PideTruncar \/ PideLeer \/ PideEscribir \/ PideOpMemoria
    PROVE  Regla'
<1>1. /\ paso = "espera" /\ paso' = "atiende"
      /\ UNCHANGED <<disp, fcbs, disco, contenido, enRegla, olvido>>
   BY DEF PideAbrir, PideCrear, PideTruncar, PideLeer, PideEscribir, PideOpMemoria, Pide
<1>2. MismoAparato BY <1>1 DEF MismoAparato
<1>3. \A a \in Archivos : ~Tocado(a) BY <1>1 DEF Tocado
<1> QED BY <1>1, <1>2, <1>3, FCBsQuietos

\* So does the answer that it receives,
LEMMA RecibeRegla == ASSUME TInv, DInv, Regla, Recibe PROVE Regla'
<1>1. /\ paso = "responde" /\ paso' = "espera"
      /\ UNCHANGED <<disp, fcbs, disco, contenido, enRegla, olvido>>
   BY DEF Recibe
<1>2. MismoAparato BY <1>1 DEF MismoAparato
<1>3. \A a \in Archivos : ~Tocado(a) BY <1>1 DEF Tocado
<1> QED BY <1>1, <1>2, <1>3, FCBsQuietos

\* and an operation that only answers.
LEMMA SoloRespondeRegla ==
    ASSUME TInv, DInv, Regla,
           OpMemoria \/ abrirArchivo \/ truncarSinCambio \/ leerRechazado \/ escribirRechazado
    PROVE  Regla'
<1>1. /\ paso = "atiende" /\ paso' = "responde"
      /\ UNCHANGED <<disp, fcbs, disco, contenido, enRegla, olvido>>
   BY DEF OpMemoria, abrirArchivo, truncarSinCambio, leerRechazado, escribirRechazado,
          SoloResponde, responderAKernel, Atiende
<1>2. MismoAparato BY <1>1 DEF MismoAparato
<1>3. \A a \in Archivos : ~Tocado(a) BY <1>1 DEF Tocado
<1> QED BY <1>1, <1>2, <1>3, FCBsQuietos

\* A read moves the stream: the words and the bitmap stay.
LEMMA LeeRegla == ASSUME TInv, DInv, Regla, leerArchivo PROVE Regla'
<1>1. /\ paso = "atiende" /\ paso' = "responde"
      /\ UNCHANGED <<fcbs, disco, contenido, enRegla, olvido>>
      /\ pedido.op = "REQ_LEER_ARCHIVO"
   BY DEF leerArchivo, Atiende, responderAKernel
<1>2. PICK a \in Archivos : a = pedido.arch BY <1>1 DEF DInv, Atendido, OpsDeArchivo
<1>3. PICK m : m = Modelo(a) OBVIOUS
<1>4. EsModelo(m) BY <1>3, ModeloBien
<1>5. PICK x : x = leer(m, pedido.puntero, pedido.tam).m OBVIOUS
<1>6. disp' = ParteDisp(x) BY <1>2, <1>3, <1>5 DEF leerArchivo
<1>7. pedido.puntero \in Nat /\ pedido.tam \in Nat BY <1>1 DEF TInv, Pedidos
<1>8. EsModelo(x) /\ SoloCursor(x, m) BY <1>4, <1>5, <1>7, LeeModelo
<1>9. MismoAparato
   <2>1. disp'.bitmap = x.bitmap /\ disp'.libres = x.libres /\ disp'.bloques = x.bloques
      BY <1>6, <1>8, ParteBien
   <2>2. m.bitmap = disp.bitmap /\ m.libres = disp.libres /\ m.bloques = disp.bloques
      BY <1>3, CamposDeModelo
   <2> QED BY <1>8, <2>1, <2>2 DEF MismoAparato, SoloCursor, MismoBitmap
<1>10. \A b \in Archivos : ~Tocado(b) BY <1>1 DEF Tocado
<1> QED BY <1>1, <1>9, <1>10, FCBsQuietos

\* A creation begins with the file on disk.
LEMMA CreaRegla == ASSUME TInv, DInv, Regla, crearArchivo PROVE Regla'
<1>1. PICK a \in Archivos : a = pedido.arch
   BY DEF DInv, crearArchivo, Atiende, Atendido, OpsDeArchivo
<1>2. /\ paso = "atiende" /\ paso' = "crea_fcb" /\ pedido' = pedido
      /\ disco' = [disco EXCEPT ![a] = [fcb |-> Vacio, entero |-> FALSE]]
      /\ UNCHANGED <<disp, fcbs, contenido, enRegla, olvido>>
   BY <1>1 DEF crearArchivo, Atiende
<1>3. MismoAparato BY <1>2 DEF MismoAparato
<1>4. \A b \in Archivos : ~Tocado(b) /\ (Tocado(b)' <=> b = a) BY <1>1, <1>2 DEF Tocado
<1>5. \A b \in Archivos : b # a => disco'[b] = disco[b] BY <1>2 DEF DInv, Formas
<1> QED BY <1>2, <1>3, <1>4, <1>5, FCBsQuietos

\* config_save leaves on disk the FCB in memory.
LEMMA GuardaRegla == ASSUME TInv, DInv, Regla, guardarFCB PROVE Regla'
<1>1. PICK a \in Archivos : a = pedido.arch
   BY DEF DInv, guardarFCB, Atendido, OpsDeArchivo
<1>2. /\ paso = "guarda_fcb" /\ paso' = "responde"
      /\ disco' = [disco EXCEPT ![a] = [fcb |-> fcbs[a], entero |-> TRUE]]
      /\ UNCHANGED <<disp, fcbs, contenido, enRegla, olvido>>
   BY <1>1 DEF guardarFCB, config_save, responderAKernel
<1>3. MismoAparato BY <1>2 DEF MismoAparato
<1>4. \A b \in Archivos : Tocado(b) <=> b = a BY <1>1, <1>2 DEF Tocado
<1>5. \A b \in Archivos : b # a => disco'[b] = disco[b] BY <1>2 DEF DInv, Formas
<1>6. disco'[a].fcb = fcbs[a] BY <1>2 DEF DInv, Formas
<1> QED BY <1>2, <1>3, <1>4, <1>5, <1>6, FCBsQuietos

\* The limit of the size is positive.
LEMMA Tope == tam_max_archivo \in Int /\ 0 < tam_max_archivo
<1>1. PICK t : t = Palabras * (Palabras + 1) OBVIOUS
<1>2. 1 * (Palabras + 1) <= Palabras * (Palabras + 1) BY Medidas, Producto
<1>3. t \in Int BY <1>1, Medidas
<1> QED BY <1>1, <1>2, <1>3, Medidas DEF tam_max_archivo

\* The file created is empty and has no block.
LEMMA CrearFCBRegla == ASSUME TInv, DInv, Regla, crearFCB PROVE Regla'
<1>1. PICK a \in Archivos : a = pedido.arch
   BY DEF DInv, crearFCB, Atendido, OpsDeArchivo
<1>2. /\ paso = "crea_fcb" /\ paso' = "responde"
      /\ fcbs' = [fcbs EXCEPT ![a] = Vacio]
      /\ disco' = [disco EXCEPT ![a] = [fcb |-> Vacio, entero |-> TRUE]]
      /\ contenido' = [contenido EXCEPT ![a] = <<>>]
      /\ UNCHANGED <<disp, enRegla, olvido>>
   BY <1>1 DEF crearFCB, responderAKernel
<1>3. MismoAparato BY <1>2 DEF MismoAparato
<1>4. \A b \in Archivos : Tocado(b) <=> b = a BY <1>1, <1>2 DEF Tocado
<1>5. \A b \in Archivos : b # a => disco'[b] = disco[b] /\ fcbs'[b] = fcbs[b]
   BY <1>2 DEF DInv, Formas
<1>6. \A b \in Archivos : b # a => contenido'[b] = contenido[b]
   BY <1>2 DEF TInv, ContenidoBien
<1>7. fcbs'[a] = Vacio /\ contenido'[a] = <<>> /\ Vacio.tam = 0
   BY <1>2 DEF DInv, Formas, TInv, ContenidoBien, Vacio
<1>8. fcbs[a].tam = -1 BY <1>1, <1>2 DEF DInv, EnCursoInv
<1>9. \A b \in Archivos : b # a => Mismo(b) BY <1>2, <1>5, <1>6 DEF Mismo, TamEnCurso
<1>10. SinNada(a) /\ TamEnCurso(a) \in Int /\ TamEnCurso(a) <= 0
   <2>1. TamEnCurso(a)' = 0 /\ TamEnCurso(a) = -1 BY <1>2, <1>7, <1>8 DEF TamEnCurso
   <2> QED BY <2>1, Tope DEF SinNada
<1>11. CreceDeVacio' BY <1>2 DEF CreceDeVacio
<1>12. ASSUME enRegla PROVE FCBEnDisco' /\ Cabe'
   <2>1. FCBEnDisco /\ Cabe BY <1>12 DEF Regla
   <2>2. Cabe'
      <3>1. \A b \in Archivos : b # a => Len(contenido'[b]) <= Capacidad(fcbs'[b].tam)
         BY <1>5, <1>6, <2>1 DEF Cabe
      <3>2. Len(contenido'[a]) <= Capacidad(fcbs'[a].tam) BY <1>7 DEF Capacidad
      <3> QED BY <3>1, <3>2 DEF Cabe, Capacidad
   <2>3. FCBEnDisco' BY <1>2, <1>4, <1>5, <1>7, <2>1 DEF FCBEnDisco
   <2> QED BY <2>2, <2>3
<1> QED BY <1>2, <1>3, <1>9, <1>10, <1>11, <1>12, Quieto

\* The new size is that of the blocks the truncation gave.
LEMMA ActualizaRegla == ASSUME TInv, DInv, Regla, actualizar_tam_archivo PROVE Regla'
<1>1. PICK a \in Archivos : a = pedido.arch
   BY DEF DInv, actualizar_tam_archivo, Atendido, OpsDeArchivo
<1>2. PICK n : n = pedido.tam OBVIOUS
<1>3. /\ paso = "guarda_tam" /\ paso' = "guarda_fcb" /\ pedido' = pedido
      /\ fcbs' = [fcbs EXCEPT ![a].tam = n]
      /\ disco' = [disco EXCEPT ![a].entero = FALSE]
      /\ UNCHANGED <<disp, contenido, enRegla, olvido>>
   BY <1>1, <1>2 DEF actualizar_tam_archivo
<1>4. MismoAparato BY <1>3 DEF MismoAparato
<1>5. \A b \in Archivos : ~Tocado(b) /\ (Tocado(b)' <=> b = a) BY <1>1, <1>3 DEF Tocado
<1>6. \A b \in Archivos : b # a => disco'[b] = disco[b] /\ fcbs'[b] = fcbs[b]
   BY <1>3 DEF DInv, Formas
<1>7. fcbs'[a] = [fcbs[a] EXCEPT !.tam = n] BY <1>3 DEF DInv, Formas
<1>8. /\ fcbs'[a].tam = n /\ fcbs'[a].directo = fcbs[a].directo
      /\ fcbs'[a].indirecto = fcbs[a].indirecto
   BY <1>7 DEF DInv, Formas, EsFCB
<1>9. TamEnCurso(a)' = TamEnCurso(a) BY <1>1, <1>2, <1>3, <1>8 DEF TamEnCurso
<1>10. \A b \in Archivos : Mismo(b) BY <1>1, <1>3, <1>6, <1>8, <1>9 DEF Mismo, TamEnCurso
<1>11. CreceDeVacio' BY <1>3 DEF CreceDeVacio
<1>12. ASSUME enRegla PROVE FCBEnDisco' /\ Cabe'
   <2>1. FCBEnDisco /\ Cabe /\ CreceDeVacio BY <1>12 DEF Regla
   <2>2. fcbs[a].tam = 0 /\ n > 0 /\ n \in Int
      <3>1. TamEnCurso(a) \in Int BY TamanioEntero
      <3> QED BY <1>1, <1>2, <1>3, <2>1, <3>1 DEF CreceDeVacio, TamEnCurso
   <2>3. Cabe'
      <3>1. \A b \in Archivos : b # a => Len(contenido'[b]) <= Capacidad(fcbs'[b].tam)
         BY <1>3, <1>6, <2>1 DEF Cabe
      <3>2. PICK l \in Nat : l = Len(contenido[a]) BY DEF TInv, ContenidoBien
      <3>3. l <= 0 BY <2>1, <2>2, <3>2 DEF Cabe, Capacidad
      <3>4. Capacidad(n) \in Int /\ Capacidad(n) >= 0 BY <2>2, Medidas DEF Capacidad
      <3>5. Len(contenido'[a]) <= Capacidad(fcbs'[a].tam) BY <1>3, <1>8, <3>2, <3>3, <3>4
      <3> QED BY <3>1, <3>5 DEF Cabe, Capacidad
   <2>4. FCBEnDisco' BY <1>3, <1>5, <1>6, <2>1 DEF FCBEnDisco
   <2> QED BY <2>3, <2>4
<1> QED BY <1>3, <1>4, <1>10, <1>11, <1>12, Quieto

-----------------------------------------------------------------------------
(* A restart.                                                              *)

\* A restart keeps blocks and words, and loses the bitmap: BitmapAlDia only
\* asks for it while no file had blocks.
LEMMA ReinicioRegla == ASSUME TInv, DInv, Regla, Reinicio PROVE Regla'
<1>1. /\ paso # "no_arranca" /\ disp' = levantarBitmap
      /\ UNCHANGED <<disco, contenido>>
      /\ enRegla' = (enRegla /\ disp.perdible = <<>>)
      /\ olvido' = IF olvido = "no" /\ \E a \in Archivos : disco[a].fcb.tam > 0 THEN "si" ELSE olvido
   BY DEF Reinicio
<1> SUFFICES ASSUME enRegla, disp.perdible = <<>> PROVE Regla' BY <1>1 DEF Regla
<1>2. /\ Medidos /\ CreceDeVacio /\ FCBEnDisco /\ Cabe /\ (olvido # "reasigna" => Distintos)
      /\ (olvido # "reasigna" => Escritos)
   BY <1>1 DEF Regla
<1>3. disp'.bloques = disp.bloques /\ disp'.bitmap = [b \in NumerosDeBloque |-> FALSE]
      /\ disp'.libres = CantBloques
   BY <1>1 DEF levantarBitmap
<1>4. olvido' # "reasigna" => olvido # "reasigna" BY <1>1
<1>5. CASE /\ \A a \in Archivos : disco[a].entero
           /\ paso' = "espera" /\ fcbs' = [a \in Archivos |-> disco[a].fcb]
   <2>1. \A a \in Archivos : ~Tocado(a) /\ disco[a].fcb.tam = fcbs[a].tam
      BY <1>1, <1>5 DEF DInv, Guardado
   <2>2. \A a \in Archivos : TamEnCurso(a)' = fcbs[a].tam /\ fcbs'[a] = disco[a].fcb
      BY <1>5, <2>1 DEF TamEnCurso
   <2>3. \A a \in Archivos : fcbs[a].tam \in Int BY DEF TInv, FCBsBien, FCBs
   <2>4. ASSUME NEW a \in Archivos PROVE Mismo(a) \/ SinNada(a)
      <3>1. CASE fcbs[a].tam > 0
         <4>1. fcbs'[a] = fcbs[a] BY <1>1, <1>2, <2>1, <2>2, <3>1 DEF FCBEnDisco
         <4>2. TamEnCurso(a) = fcbs[a].tam BY <1>2, <2>3, <3>1 DEF TamEnCurso, CreceDeVacio
         <4> QED BY <1>1, <2>2, <4>1, <4>2 DEF Mismo
      <3>2. CASE ~(fcbs[a].tam > 0) BY <2>2, <2>3, <3>2, Tope DEF SinNada
      <3> QED BY <3>1, <3>2
   <2>5. (Distintos => Distintos') /\ (Escritos => Escritos') BY <1>3, <2>4, Heredan
   <2>6. Medidos' BY <1>2, <2>4 DEF Medidos, Mismo, SinNada
   <2>7. CreceDeVacio' BY <1>5 DEF CreceDeVacio
   <2>8. FCBEnDisco' BY <1>1, <2>2 DEF FCBEnDisco
   <2>9. Cabe' BY <1>1, <1>2, <2>1, <2>2 DEF Cabe, Capacidad
   <2>10. ASSUME olvido' = "no" PROVE AlDia'
      <3>1. \A a \in Archivos : ~(disco[a].fcb.tam > 0) BY <1>1, <2>10
      <3>2. \A a \in Archivos : SinNada(a) BY <2>1, <2>2, <2>3, <3>1, Tope DEF SinNada
      <3>3. \A a \in Archivos : Cuantos(a)' = 0 BY <3>2, NingunBloque
      <3>4. Usados' = {} BY <3>3 DEF Usados
      <3>5. Ocupados(disp)' = {} BY <1>3 DEF Ocupados
      <3>6. Cuadra(disp)'
         <4>1. Cardinality({}) = 0 BY FS_EmptySet
         <4>2. disp'.libres = CantBloques - Cardinality(Ocupados(disp)') BY <1>3, <3>5, <4>1, Medidas
         <4> QED BY <4>2 DEF Cuadra
      <3> QED BY <3>4, <3>5, <3>6 DEF AlDia
   <2> QED BY <1>2, <1>4, <2>5, <2>6, <2>7, <2>8, <2>9, <2>10 DEF Regla
<1>6. CASE ~(\A a \in Archivos : disco[a].entero) /\ paso' = "no_arranca" /\ UNCHANGED fcbs
   <2>1. paso # "guarda_tam" BY <1>1, <1>6 DEF DInv, Guardado, Tocado
   <2>2. \A a \in Archivos : Mismo(a) BY <1>1, <1>6, <2>1 DEF Mismo, TamEnCurso
   <2>3. Distintos => Distintos' BY <1>3, <2>2, Heredan
   <2>4. Medidos' BY <1>2, <2>2 DEF Medidos, Mismo
   <2>5. CreceDeVacio' /\ FCBEnDisco' BY <1>6 DEF CreceDeVacio, FCBEnDisco
   <2>6. Cabe' BY <1>1, <1>2, <1>6 DEF Cabe, Capacidad
   <2> QED BY <1>2, <1>4, <1>6, <2>3, <2>4, <2>5, <2>6 DEF Regla
<1> QED BY <1>5, <1>6 DEF Reinicio

-----------------------------------------------------------------------------
(* Steps that change the words of some blocks.                             *)

\* With its pointers and its block of pointers as they were, a file has the
\* same blocks.
LEMMA PunterosQuietos ==
    ASSUME TInv, DInv, Medidos, NEW a \in Archivos,
           TamEnCurso(a)' = TamEnCurso(a),
           fcbs'[a].directo = fcbs[a].directo, fcbs'[a].indirecto = fcbs[a].indirecto,
           TamEnCurso(a) > Palabras => \A o \in 0 .. Palabras - 1 :
              Palabra(disp', fcbs[a].indirecto, o) = Palabra(disp, fcbs[a].indirecto, o)
    PROVE  Cuantos(a)' = Cuantos(a) /\ \A k \in 1 .. Cuantos(a) : Bloque(a, k)' = Bloque(a, k)
<1>1. PICK t \in Int : t = TamEnCurso(a) BY TamanioEntero
<1>2. PICK d, i : d = fcbs[a].directo /\ i = fcbs[a].indirecto OBVIOUS
<1>3. Cuantos(a)' = Cuantos(a) BY DEF Cuantos, NBloques, NDatos, EnLista
<1>4. t < tam_max_archivo BY <1>1 DEF Medidos
<1>5. \A k : Bloque(a, k)' = BloqueDe(t, d, i, disp'.bloques, k)
   BY <1>1, <1>2 DEF Bloque, BloqueDe, EnLista
<1>6. \A k : Bloque(a, k) = BloqueDe(t, d, i, disp.bloques, k)
   BY <1>1, <1>2 DEF Bloque
<1>7. ASSUME NEW k \in 1 .. Cuantos(a)
      PROVE  BloqueDe(t, d, i, disp'.bloques, k) = BloqueDe(t, d, i, disp.bloques, k)
   <2>1. CASE k = 1 \/ k = EnLista(t) + 2 BY <2>1 DEF BloqueDe
   <2>2. CASE ~(k = 1 \/ k = EnLista(t) + 2)
      <3>1. k \in 1 .. NBloques(t) BY <1>1 DEF Cuantos
      <3>2. t > Palabras /\ k - 2 \in 0 .. Palabras - 1 BY <1>4, <2>2, <3>1, Cuentas, Medidas
      <3>3. Palabra(disp', i, k - 2) = Palabra(disp, i, k - 2) BY <1>1, <1>2, <3>2
      <3> QED BY <2>2, <3>3 DEF BloqueDe, Palabra
   <2> QED BY <2>1, <2>2
<1> QED BY <1>3, <1>5, <1>6, <1>7

\* The block of pointers of a file is its last.
LEMMA ElDePunteros ==
    ASSUME TInv, DInv, Medidos, NEW a \in Archivos, TamEnCurso(a) > Palabras
    PROVE  /\ Cuantos(a) \in 1 .. Cuantos(a) /\ Bloque(a, Cuantos(a)) = fcbs[a].indirecto
           /\ Cuantos(a) \notin 1 .. NDatos(TamEnCurso(a))
<1>1. PICK t \in Int : t = TamEnCurso(a) BY TamanioEntero
<1>2. t < tam_max_archivo BY <1>1 DEF Medidos
<1>3. /\ EnLista(t) \in Nat /\ NDatos(t) = EnLista(t) + 1 /\ NBloques(t) = EnLista(t) + 2
   BY <1>1, <1>2, Cuentas
<1>4. PICK n : n = Cuantos(a) OBVIOUS
<1>5. n = EnLista(t) + 2 /\ n # 1 BY <1>1, <1>3, <1>4 DEF Cuantos
<1>6. Bloque(a, n) = fcbs[a].indirecto BY <1>1, <1>5 DEF Bloque, BloqueDe
<1>7. n \in 1 .. n /\ n \notin 1 .. NDatos(t) BY <1>3, <1>5
<1> QED BY <1>1, <1>4, <1>6, <1>7

\* The blocks of data are among the blocks of the file.
LEMMA DatosSonBloques ==
    ASSUME TInv, DInv, Medidos, NEW a \in Archivos
    PROVE  \A j \in 1 .. NDatos(TamEnCurso(a)) : j \in 1 .. Cuantos(a)
<1>1. PICK t \in Int : t = TamEnCurso(a) BY TamanioEntero
<1>2. t < tam_max_archivo BY <1>1 DEF Medidos
<1>3. NDatos(t) \in Nat /\ NBloques(t) \in Nat /\ NDatos(t) <= NBloques(t)
   BY <1>1, <1>2, Cuentas
<1> QED BY <1>1, <1>3 DEF Cuantos

-----------------------------------------------------------------------------
(* A write.                                                                *)

\* s is in the blocks of file a from word p on, and no other word changed
EscritoEn(x, a, p, s) ==
    /\ EsModelo(x) /\ x.bitmap = disp.bitmap /\ x.libres = disp.libres
    /\ \A j \in 1 .. NDatos(TamEnCurso(a)), o \in 0 .. Palabras - 1 :
          Palabra(x, Bloque(a, j), o) =
             IF p <= Orden(j, o) /\ Orden(j, o) < p + Len(s) THEN s[Orden(j, o) - p + 1]
             ELSE Palabra(disp, Bloque(a, j), o)
    /\ \A b \in NumerosDeBloque : (\A j \in 1 .. NDatos(TamEnCurso(a)) : b # Bloque(a, j)) =>
          \A o \in 0 .. Palabras - 1 : Palabra(x, b, o) = Palabra(disp, b, o)

\* A write that stays in the blocks of its file.
LEMMA EscribeBien ==
    ASSUME TInv, DInv, Medidos, Distintos, NEW a \in Archivos,
           TamEnCurso(a) = fcbs[a].tam, 0 < fcbs[a].tam,
           NEW p \in Nat, p < Palabras, NEW s \in Seq(Int),
           p + Len(s) <= IF fcbs[a].tam <= Palabras THEN Palabras ELSE fcbs[a].tam,
           NEW x, x = escribir(Modelo(a), p, s)
    PROVE  EscritoEn(x, a, p, s)
<1>1. PICK m : m = Modelo(a) OBVIOUS
<1>2. EsModelo(m) BY <1>1, ModeloBien
<1>3. /\ m.bitmap = disp.bitmap /\ m.libres = disp.libres /\ m.bloques = disp.bloques
      /\ m.tam = TamEnCurso(a) /\ m.directo = fcbs[a].directo /\ m.indirecto = fcbs[a].indirecto
   BY <1>1, CamposDeModelo
<1>4. \A k : BloqueDeM(m, k) = Bloque(a, k) BY <1>3 DEF BloqueDeM, Bloque
<1>5. \A b, o : Palabra(m, b, o) = Palabra(disp, b, o) BY <1>3 DEF Palabra
<1>6. NBloques(m.tam) = Cuantos(a) BY <1>3 DEF Cuantos
<1>7. m.tam < tam_max_archivo BY <1>3 DEF Medidos
<1>8. \A k \in 1 .. NBloques(m.tam) : BloqueDeM(m, k) \in NumerosDeBloque
   BY <1>4, <1>6 DEF Distintos
<1>9. \A k, l \in 1 .. NBloques(m.tam) : BloqueDeM(m, k) = BloqueDeM(m, l) => k = l
   BY <1>4, <1>6 DEF Distintos
<1>10. x = escribir(m, p, s) BY <1>1
<1>11. 0 < m.tam /\ m.tam \in Int BY <1>2, <1>3 DEF EsModelo
<1>12. EscritoBien(x, m, p, s)
   <2>1. CASE m.tam <= Palabras
      <3>1. 1 \in 1 .. NBloques(m.tam) BY <1>7, <1>11, <2>1, Cuentas
      <3>2. p + Len(s) <= Palabras BY <1>3, <2>1
      <3>3. BloqueDeM(m, 1) \in NumerosDeBloque BY <1>8, <3>1
      <3> QED BY <1>2, <1>7, <1>10, <1>11, <2>1, <3>2, <3>3, EscribeArchivoChico
   <2>2. CASE m.tam > Palabras
      <3>1. p + Len(s) <= m.tam BY <1>3, <1>11, <2>2, Medidas
      <3> QED BY <1>2, <1>7, <1>8, <1>9, <1>10, <2>2, <3>1, EscribeArchivoGrande
   <2> QED BY <1>11, <2>1, <2>2, Medidas
<1>13. NDatos(m.tam) = NDatos(TamEnCurso(a)) BY <1>3
<1>14. EsModelo(x) /\ x.bitmap = disp.bitmap /\ x.libres = disp.libres
   BY <1>3, <1>12 DEF EscritoBien, MismoBitmap
<1>15. ASSUME NEW j \in 1 .. NDatos(TamEnCurso(a)), NEW o \in 0 .. Palabras - 1
       PROVE  Palabra(x, Bloque(a, j), o) =
                 IF p <= Orden(j, o) /\ Orden(j, o) < p + Len(s) THEN s[Orden(j, o) - p + 1]
                 ELSE Palabra(disp, Bloque(a, j), o)
   <2>1. Palabra(x, BloqueDeM(m, j), o) =
            IF p <= Orden(j, o) /\ Orden(j, o) < p + Len(s) THEN s[Orden(j, o) - p + 1]
            ELSE Palabra(m, BloqueDeM(m, j), o)
      BY <1>12, <1>13 DEF EscritoBien
   <2> QED BY <1>4, <1>5, <2>1
<1>16. ASSUME NEW b \in NumerosDeBloque, \A j \in 1 .. NDatos(TamEnCurso(a)) : b # Bloque(a, j),
              NEW o \in 0 .. Palabras - 1
       PROVE  Palabra(x, b, o) = Palabra(disp, b, o)
   <2>1. \A j \in 1 .. NDatos(m.tam) : b # BloqueDeM(m, j) BY <1>4, <1>13, <1>16
   <2>2. Palabra(x, b, o) = Palabra(m, b, o) BY <1>12, <2>1 DEF EscritoBien
   <2> QED BY <1>5, <2>2
<1> QED BY <1>14, <1>15, <1>16 DEF EscritoEn

\* The pointers of every file stay.
LEMMA PunterosTrasEscribir ==
    ASSUME TInv, DInv, Medidos, Distintos, NEW a \in Archivos, NEW p, NEW s,
           NEW x, EscritoEn(x, a, p, s), disp'.bloques = x.bloques, UNCHANGED fcbs,
           \A b \in Archivos : TamEnCurso(b)' = TamEnCurso(b), NEW b \in Archivos
    PROVE  /\ Cuantos(b)' = Cuantos(b) /\ NDatos(TamEnCurso(b))' = NDatos(TamEnCurso(b))
           /\ \A k \in 1 .. Cuantos(b) : Bloque(b, k)' = Bloque(b, k)
<1>1. \A c, o : Palabra(disp', c, o) = Palabra(x, c, o) BY DEF Palabra
<1>2. ASSUME TamEnCurso(b) > Palabras, NEW o \in 0 .. Palabras - 1
      PROVE  Palabra(disp', fcbs[b].indirecto, o) = Palabra(disp, fcbs[b].indirecto, o)
   <2>1. PICK n, c : n = Cuantos(b) /\ c = fcbs[b].indirecto OBVIOUS
   <2>2. n \in 1 .. Cuantos(b) /\ Bloque(b, n) = c /\ n \notin 1 .. NDatos(TamEnCurso(b))
      BY <1>2, <2>1, ElDePunteros
   <2>3. c \in NumerosDeBloque BY <2>2 DEF Distintos
   <2>4. ASSUME NEW j \in 1 .. NDatos(TamEnCurso(a)), c = Bloque(a, j) PROVE FALSE
      <3>1. j \in 1 .. Cuantos(a) BY DatosSonBloques
      <3>2. a = b /\ j = n BY <2>2, <2>4, <3>1 DEF Distintos
      <3> QED BY <2>2, <3>2
   <2>5. Palabra(x, c, o) = Palabra(disp, c, o) BY <2>3, <2>4 DEF EscritoEn
   <2> QED BY <1>1, <2>1, <2>5
<1>3. TamEnCurso(b)' = TamEnCurso(b) /\ fcbs'[b].directo = fcbs[b].directo
      /\ fcbs'[b].indirecto = fcbs[b].indirecto
   OBVIOUS
<1>4. Cuantos(b)' = Cuantos(b) /\ \A k \in 1 .. Cuantos(b) : Bloque(b, k)' = Bloque(b, k)
   BY <1>2, <1>3, PunterosQuietos
<1>5. NDatos(TamEnCurso(b))' = NDatos(TamEnCurso(b)) BY <1>3 DEF NDatos, EnLista
<1> QED BY <1>4, <1>5

\* What the files have after a write.
LEMMA EscritosTrasEscribir ==
    ASSUME TInv, DInv, Medidos, Distintos, Escritos, NEW a \in Archivos,
           NEW p \in Nat, NEW s \in Seq(Int),
           NEW x, EscritoEn(x, a, p, s), disp'.bloques = x.bloques, UNCHANGED fcbs,
           \A b \in Archivos : TamEnCurso(b)' = TamEnCurso(b),
           contenido' = [contenido EXCEPT ![a] = Anota(@, p, s)]
    PROVE  Escritos'
<1>1. \A c, o : Palabra(disp', c, o) = Palabra(x, c, o) BY DEF Palabra
<1>2. /\ contenido'[a] = Anota(contenido[a], p, s)
      /\ \A b \in Archivos : b # a => contenido'[b] = contenido[b]
   BY DEF TInv, ContenidoBien
<1> SUFFICES ASSUME NEW b \in Archivos, NEW j \in 1 .. NDatos(TamEnCurso(b))',
                    NEW o \in 0 .. Palabras - 1,
                    Orden(j, o) + 1 \in 1 .. Len(contenido'[b]),
                    contenido'[b][Orden(j, o) + 1] # NoEscrito
             PROVE  Palabra(disp, Bloque(b, j), o)' = contenido'[b][Orden(j, o) + 1]
   BY DEF Escritos
<1>3. NDatos(TamEnCurso(b))' = NDatos(TamEnCurso(b)) BY PunterosTrasEscribir
<1>4. j \in 1 .. NDatos(TamEnCurso(b)) BY <1>3
<1>5. j \in 1 .. Cuantos(b) BY <1>4, DatosSonBloques
<1>6. Bloque(b, j)' = Bloque(b, j)
   <2>1. \A k \in 1 .. Cuantos(b) : Bloque(b, k)' = Bloque(b, k) BY PunterosTrasEscribir
   <2> QED BY <1>5, <2>1
<1>7. Palabra(disp, Bloque(b, j), o)' = Palabra(x, Bloque(b, j), o)
   <2>1. Palabra(disp, Bloque(b, j), o)' = Palabra(disp', Bloque(b, j)', o) BY DEF Palabra
   <2> QED BY <1>1, <1>6, <2>1
<1>8. CASE b # a
   <2>1. \A k \in 1 .. NDatos(TamEnCurso(a)) : Bloque(b, j) # Bloque(a, k)
      BY <1>5, <1>8, DatosSonBloques DEF Distintos
   <2>2. Bloque(b, j) \in NumerosDeBloque BY <1>5 DEF Distintos
   <2>3. Palabra(x, Bloque(b, j), o) = Palabra(disp, Bloque(b, j), o)
      BY <2>1, <2>2 DEF EscritoEn
   <2> QED BY <1>2, <1>4, <1>7, <1>8, <2>3 DEF Escritos
<1>9. CASE b = a
   <2>1. PICK v : v = Orden(j, o) OBVIOUS
   <2>2. v \in Int
      <3>1. j \in Int BY <1>4
      <3> QED BY <2>1, <3>1, OrdenEntero
   <2>3. PICK e \in Seq(Int) : e = contenido[a] BY DEF TInv, ContenidoBien
   <2>4. PICK y : y = Anota(e, p, s) OBVIOUS
   <2>5. /\ y \in Seq(Int)
         /\ \A i \in 1 .. Len(y) :
               y[i] = IF p + 1 <= i /\ i <= p + Len(s) THEN s[i - p]
                      ELSE IF i <= Len(e) THEN e[i] ELSE NoEscrito
      BY <2>4, AlAnotar
   <2>6. v + 1 \in 1 .. Len(y) /\ y[v + 1] # NoEscrito /\ contenido'[b] = y
      BY <1>2, <1>9, <2>1, <2>3, <2>4
   <2>7. y[v + 1] = IF p + 1 <= v + 1 /\ v + 1 <= p + Len(s) THEN s[(v + 1) - p]
                    ELSE IF v + 1 <= Len(e) THEN e[v + 1] ELSE NoEscrito
      BY <2>5, <2>6
   <2>8. Palabra(x, Bloque(a, j), o) =
            IF p <= v /\ v < p + Len(s) THEN s[v - p + 1] ELSE Palabra(disp, Bloque(a, j), o)
      BY <1>4, <1>9, <2>1 DEF EscritoEn
   <2>9. PICK l \in Nat : l = Len(s) OBVIOUS
   <2>10. (p + 1 <= v + 1 /\ v + 1 <= p + l <=> p <= v /\ v < p + l) /\ (v + 1) - p = v - p + 1
      BY <2>2, <2>9
   <2>11. CASE p <= v /\ v < p + l
      BY <1>7, <1>9, <2>1, <2>6, <2>7, <2>8, <2>9, <2>10, <2>11
   <2>12. CASE ~(p <= v /\ v < p + l)
      <3>1. v + 1 <= Len(e) /\ y[v + 1] = e[v + 1] BY <2>6, <2>7, <2>9, <2>10, <2>12
      <3>2. v + 1 \in 1 .. Len(e) /\ e[v + 1] # NoEscrito BY <2>2, <2>6, <3>1
      <3>3. Palabra(disp, Bloque(a, j), o) = e[v + 1]
         BY <1>4, <1>9, <2>1, <2>3, <3>2 DEF Escritos
      <3> QED BY <1>7, <1>9, <2>1, <2>6, <2>8, <2>9, <2>12, <3>1, <3>3
   <2> QED BY <2>11, <2>12
<1> QED BY <1>8, <1>9

\* A write keeps the invariant: it only changes blocks of data of its file.
LEMMA EscribeRegla == ASSUME TInv, DInv, Regla, escribirArchivo PROVE Regla'
<1>1. /\ paso = "atiende" /\ paso' = "responde" /\ pedido.op = "REQ_ESCRIBIR_ARCHIVO"
      /\ ~FueraDelArchivo(pedido.arch)
      /\ enRegla' = (enRegla /\ EscribeEnRegla(pedido.arch))
      /\ UNCHANGED <<fcbs, disco, pedido, olvido>>
   BY DEF escribirArchivo, Atiende, responderAKernel
<1>2. PICK a \in Archivos : a = pedido.arch BY <1>1 DEF DInv, Atendido, OpsDeArchivo
<1>3. PICK p \in Nat, n \in Nat : p = pedido.puntero /\ n = pedido.tam /\ n # 0
   BY <1>1 DEF TInv, Pedidos
<1>4. PICK s \in Textos : /\ Len(s) = n
                          /\ disp' = ParteDisp(escribir(Modelo(a), p, s))
                          /\ contenido' = [contenido EXCEPT ![a] = Anota(@, p, s)]
   BY <1>2, <1>3 DEF escribirArchivo
<1>5. s \in Seq(Int)
   <2>1. Textos \subseteq Seq(Int) BY FileSystemAssumption
   <2> QED BY <2>1, Zenon
<1>6. PICK t \in Int : t = fcbs[a].tam BY DEF TInv, FCBsBien, FCBs
<1>7. 0 < t BY <1>1, <1>2, <1>3, <1>6 DEF FueraDelArchivo
<1>8. \A b \in Archivos : TamEnCurso(b) = fcbs[b].tam /\ TamEnCurso(b)' = TamEnCurso(b)
   BY <1>1 DEF TamEnCurso
<1> SUFFICES ASSUME enRegla, EscribeEnRegla(a) PROVE Regla' BY <1>1, <1>2 DEF Regla
<1>9. p < Palabras /\ p + Len(s) <= IF t <= Palabras THEN Palabras ELSE t
   BY <1>2, <1>3, <1>4, <1>6 DEF EscribeEnRegla
<1>10. Medidos /\ FCBEnDisco /\ Cabe BY DEF Regla
<1>11. Medidos' BY <1>8, <1>10 DEF Medidos
<1>12. CreceDeVacio' BY <1>1 DEF CreceDeVacio
<1>13. FCBEnDisco' BY <1>1, <1>10 DEF FCBEnDisco, Tocado
<1>14. Cabe'
   <2> SUFFICES ASSUME NEW b \in Archivos PROVE Len(contenido'[b]) <= Capacidad(fcbs[b].tam)
      BY <1>1 DEF Cabe, Capacidad
   <2>1. CASE b # a BY <1>4, <1>10, <2>1 DEF Cabe, TInv, ContenidoBien
   <2>2. CASE b = a
      <3>1. PICK e \in Seq(Int) : e = contenido[a] BY DEF TInv, ContenidoBien
      <3>2. PICK y : y = Anota(e, p, s) OBVIOUS
      <3>3. Len(y) \in {Len(e), p + Len(s)} BY <1>5, <3>2, AlAnotar
      <3>4. contenido'[a] = y BY <1>4, <3>1, <3>2 DEF TInv, ContenidoBien
      <3>5. Len(e) <= Capacidad(t) BY <1>6, <1>10, <3>1 DEF Cabe
      <3>6. p + Len(s) <= Capacidad(t) BY <1>6, <1>7, <1>9 DEF Capacidad
      <3> QED BY <1>6, <2>2, <3>3, <3>4, <3>5, <3>6
   <2> QED BY <2>1, <2>2
<1>15. ASSUME olvido # "reasigna"
       PROVE  Distintos' /\ Escritos' /\ (olvido = "no" => AlDia')
   <2>1. Distintos /\ Escritos BY <1>1, <1>15 DEF Regla
   <2>2. PICK x : x = escribir(Modelo(a), p, s) OBVIOUS
   <2>3. EscritoEn(x, a, p, s)
      <3>1. TamEnCurso(a) = fcbs[a].tam BY <1>8
      <3>2. 0 < fcbs[a].tam /\ p + Len(s) <= IF fcbs[a].tam <= Palabras THEN Palabras ELSE fcbs[a].tam
         BY <1>6, <1>7, <1>9
      <3> QED BY <1>5, <1>9, <1>10, <2>1, <2>2, <3>1, <3>2, EscribeBien
   <2>4. disp'.bloques = x.bloques /\ disp'.bitmap = disp.bitmap /\ disp'.libres = disp.libres
      BY <1>4, <2>2, <2>3, ParteBien DEF EscritoEn
   <2>5. \A b \in Archivos : TamEnCurso(b)' = TamEnCurso(b) BY <1>8
   <2>6. UNCHANGED fcbs BY <1>1
   <2>7. \A b \in Archivos : Cuantos(b)' = Cuantos(b)
                             /\ \A k \in 1 .. Cuantos(b) : Bloque(b, k)' = Bloque(b, k)
      BY <1>10, <2>1, <2>3, <2>4, <2>5, <2>6, PunterosTrasEscribir
   <2>8. Distintos' BY <2>1, <2>7 DEF Distintos
   <2>9. Escritos'
      BY <1>4, <1>5, <1>10, <2>1, <2>3, <2>4, <2>5, <2>6, EscritosTrasEscribir
   <2>10. ASSUME olvido = "no" PROVE AlDia'
      <3>1. AlDia BY <1>1, <2>10 DEF Regla
      <3>2. Usados' = Usados
         <4>1. \A b : (\E c \in Archivos : \E k \in 1 .. Cuantos(c)' : b = Bloque(c, k)')
                      <=> \E c \in Archivos : \E k \in 1 .. Cuantos(c) : b = Bloque(c, k)
            BY <2>7
         <4> QED BY <4>1 DEF Usados
      <3>3. Ocupados(disp)' = Ocupados(disp) BY <2>4 DEF Ocupados
      <3>4. Cuadra(disp)' BY <2>4, <3>1, <3>3 DEF AlDia, Cuadra
      <3> QED BY <3>1, <3>2, <3>3, <3>4 DEF AlDia
   <2> QED BY <2>8, <2>9, <2>10
<1> QED BY <1>1, <1>11, <1>12, <1>13, <1>14, <1>15 DEF Regla

-----------------------------------------------------------------------------
(* A growth.                                                               *)

\* no word of a block in use changes
UsadosQuietos ==
    \A c \in Usados : \A o \in 0 .. Palabras - 1 : Palabra(disp', c, o) = Palabra(disp, c, o)
\* n new blocks for file a: nobody had them
Nuevos(a, n) ==
    /\ Cuantos(a)' = n
    /\ \A k \in 1 .. n : Bloque(a, k)' \in NumerosDeBloque \ Usados
    /\ \A k, l \in 1 .. n : Bloque(a, k)' = Bloque(a, l)' => k = l
Ajeno(b) == TamEnCurso(b)' = TamEnCurso(b) /\ fcbs'[b] = fcbs[b] /\ contenido'[b] = contenido[b]

\* Files other than the one that grows keep their blocks.
LEMMA AjenoQuieto ==
    ASSUME TInv, DInv, Medidos, Distintos, UsadosQuietos, NEW b \in Archivos, Ajeno(b)
    PROVE  /\ Cuantos(b)' = Cuantos(b) /\ NDatos(TamEnCurso(b))' = NDatos(TamEnCurso(b))
           /\ \A k \in 1 .. Cuantos(b) : Bloque(b, k)' = Bloque(b, k)
<1>1. ASSUME TamEnCurso(b) > Palabras, NEW o \in 0 .. Palabras - 1
      PROVE  Palabra(disp', fcbs[b].indirecto, o) = Palabra(disp, fcbs[b].indirecto, o)
   <2>1. PICK k \in 1 .. Cuantos(b) : Bloque(b, k) = fcbs[b].indirecto BY <1>1, ElDePunteros
   <2>2. fcbs[b].indirecto \in Usados BY <2>1 DEF Usados, Distintos
   <2> QED BY <2>2 DEF UsadosQuietos
<1>2. TamEnCurso(b)' = TamEnCurso(b) /\ fcbs'[b].directo = fcbs[b].directo
      /\ fcbs'[b].indirecto = fcbs[b].indirecto
   BY DEF Ajeno
<1>3. Cuantos(b)' = Cuantos(b) /\ \A k \in 1 .. Cuantos(b) : Bloque(b, k)' = Bloque(b, k)
   BY <1>1, <1>2, PunterosQuietos
<1>4. NDatos(TamEnCurso(b))' = NDatos(TamEnCurso(b)) BY <1>2 DEF NDatos, EnLista
<1> QED BY <1>3, <1>4

\* No block comes to be shared.
LEMMA DistintosTrasCrecer ==
    ASSUME TInv, DInv, Medidos, Distintos, UsadosQuietos, NEW a \in Archivos, NEW n, Nuevos(a, n),
           \A b \in Archivos : b # a => Ajeno(b)
    PROVE  Distintos'
<1>1. \A b \in Archivos : b # a =>
         Cuantos(b)' = Cuantos(b) /\ \A k \in 1 .. Cuantos(b) : Bloque(b, k)' = Bloque(b, k)
   BY AjenoQuieto
<1>2. \A b \in Archivos : b # a => \A k \in 1 .. Cuantos(b)' : Bloque(b, k)' \in Usados
   BY <1>1 DEF Usados, Distintos
<1>3. \A b \in Archivos : \A k \in 1 .. Cuantos(b)' : Bloque(b, k)' \in NumerosDeBloque
   BY <1>2 DEF Nuevos, Usados
<1>4. ASSUME NEW b \in Archivos, NEW c \in Archivos, NEW k \in 1 .. Cuantos(b)',
             NEW l \in 1 .. Cuantos(c)', Bloque(b, k)' = Bloque(c, l)'
      PROVE  b = c /\ k = l
   <2>1. CASE b = a /\ c = a BY <1>4, <2>1 DEF Nuevos
   <2>2. CASE b = a /\ c # a BY <1>2, <1>4, <2>2 DEF Nuevos
   <2>3. CASE b # a /\ c = a BY <1>2, <1>4, <2>3 DEF Nuevos
   <2>4. CASE b # a /\ c # a BY <1>1, <1>4, <2>4 DEF Distintos
   <2> QED BY <2>1, <2>2, <2>3, <2>4
<1> QED BY <1>3, <1>4 DEF Distintos

\* No word is lost.
LEMMA EscritosTrasCrecer ==
    ASSUME TInv, DInv, Medidos, Distintos, Escritos, UsadosQuietos, NEW a \in Archivos,
           Len(contenido'[a]) <= 0, Len(contenido'[a]) \in Nat,
           \A b \in Archivos : b # a => Ajeno(b)
    PROVE  Escritos'
<1> SUFFICES ASSUME NEW b \in Archivos, NEW j \in 1 .. NDatos(TamEnCurso(b))',
                    NEW o \in 0 .. Palabras - 1,
                    Orden(j, o) + 1 \in 1 .. Len(contenido'[b]),
                    contenido'[b][Orden(j, o) + 1] # NoEscrito
             PROVE  Palabra(disp, Bloque(b, j), o)' = contenido'[b][Orden(j, o) + 1]
   BY DEF Escritos
<1>1. b # a
   <2>1. PICK l \in Nat : l = Len(contenido'[a]) OBVIOUS
   <2>2. \A i : i \notin 1 .. l BY <2>1
   <2> QED BY <2>1, <2>2
<1>2. Ajeno(b) BY <1>1
<1>3. /\ NDatos(TamEnCurso(b))' = NDatos(TamEnCurso(b))
      /\ \A k \in 1 .. Cuantos(b) : Bloque(b, k)' = Bloque(b, k)
   BY <1>2, AjenoQuieto
<1>4. j \in 1 .. NDatos(TamEnCurso(b)) /\ j \in 1 .. Cuantos(b) BY <1>3, DatosSonBloques
<1>5. Bloque(b, j)' = Bloque(b, j) BY <1>3, <1>4
<1>6. Bloque(b, j) \in Usados BY <1>4 DEF Usados, Distintos
<1>7. Palabra(disp, Bloque(b, j), o)' = Palabra(disp, Bloque(b, j), o)
   <2>1. Palabra(disp, Bloque(b, j), o)' = Palabra(disp', Bloque(b, j)', o) BY DEF Palabra
   <2> QED BY <1>5, <1>6, <2>1 DEF UsadosQuietos
<1>8. contenido'[b] = contenido[b] BY <1>2 DEF Ajeno
<1> QED BY <1>4, <1>7, <1>8 DEF Escritos

\* The blocks in use are those of before and the new ones.
LEMMA UsadosTrasCrecer ==
    ASSUME TInv, DInv, Medidos, Distintos, UsadosQuietos, NEW a \in Archivos, NEW n, Nuevos(a, n),
           Cuantos(a) = 0, \A b \in Archivos : b # a => Ajeno(b)
    PROVE  Usados' = Usados \cup {c \in NumerosDeBloque : \E k \in 1 .. n : c = Bloque(a, k)'}
<1>1. \A b \in Archivos : b # a =>
         Cuantos(b)' = Cuantos(b) /\ \A k \in 1 .. Cuantos(b) : Bloque(b, k)' = Bloque(b, k)
   BY AjenoQuieto
<1>2. \A c : (\E b \in Archivos : \E k \in 1 .. Cuantos(b)' : c = Bloque(b, k)')
             <=> \/ \E b \in Archivos : \E k \in 1 .. Cuantos(b) : c = Bloque(b, k)
                 \/ \E k \in 1 .. n : c = Bloque(a, k)'
   <2>1. \A b \in Archivos : b # a => \A c :
            (\E k \in 1 .. Cuantos(b)' : c = Bloque(b, k)')
            <=> \E k \in 1 .. Cuantos(b) : c = Bloque(b, k)
      BY <1>1
   <2>2. Cuantos(a)' = n BY DEF Nuevos
   <2>3. \A k : k \notin 1 .. Cuantos(a) OBVIOUS
   <2> QED BY <2>1, <2>2, <2>3
<1> QED BY <1>2 DEF Usados

\* A truncation keeps the invariant: the blocks it gives were free in the bitmap,
\* which marks all those in use unless a restart cleared it.
LEMMA TruncaRegla == ASSUME TInv, DInv, Regla, truncarBloques PROVE Regla'
<1>1. PICK a \in Archivos : a = pedido.arch
   BY DEF DInv, truncarBloques, Atiende, Atendido, OpsDeArchivo
<1>2. PICK n \in Nat : n = pedido.tam
   <2>1. pedido.tam \in TamaniosPedidos BY DEF DInv, truncarBloques, Atiende, Atendido
   <2>2. TamaniosPedidos \subseteq Nat BY FileSystemAssumption
   <2> QED BY <2>1, <2>2, Zenon
<1>3. /\ paso = "atiende" /\ n # fcbs[a].tam /\ NuevaCantidad(n) <= disp.libres
      /\ enRegla' = (enRegla /\ CreceEnRegla(a, n))
      /\ olvido' = IF olvido = "no" THEN "no" ELSE "reasigna"
      /\ UNCHANGED <<disco, pedido, contenido>>
   BY <1>1, <1>2 DEF truncarBloques, Atiende
<1> SUFFICES ASSUME enRegla, CreceEnRegla(a, n) PROVE Regla' BY <1>3 DEF Regla
<1>4. fcbs[a].tam = 0 /\ n < tam_max_archivo /\ (n <= Palabras \/ disp.libres > NuevaCantidad(n))
   BY DEF CreceEnRegla
<1>5. 0 < n BY <1>3, <1>4
<1>6. ~BorraFueraDelBitmap(a, n) BY <1>4, <1>5 DEF BorraFueraDelBitmap, Modelo
<1>7. paso' = "guarda_tam" BY <1>1, <1>2, <1>6 DEF truncarBloques
<1>8. PICK heap : \E m \in {truncar(Modelo(a), n, heap)} :
                     /\ disp' = ParteDisp(m)
                     /\ fcbs' = [fcbs EXCEPT ![a].directo = m.directo, ![a].indirecto = m.indirecto]
   BY <1>1, <1>2, <1>6 DEF truncarBloques
<1>9. PICK m : m = Modelo(a) OBVIOUS
<1>10. PICK x : x = truncar(m, n, heap) OBVIOUS
<1>11. PICK d, i : d = x.directo /\ i = x.indirecto OBVIOUS
<1>12. disp' = ParteDisp(x) /\ fcbs' = [fcbs EXCEPT ![a].directo = d, ![a].indirecto = i]
   BY <1>8, <1>9, <1>10, <1>11
<1>13. \A b \in Archivos : b # a => fcbs'[b] = fcbs[b] BY <1>12 DEF DInv, Formas
<1>14. fcbs'[a].tam = 0 /\ fcbs'[a].directo = d /\ fcbs'[a].indirecto = i
   <2>1. fcbs'[a] = [[fcbs[a] EXCEPT !.directo = d] EXCEPT !.indirecto = i]
      BY <1>12 DEF DInv, Formas
   <2> QED BY <1>4, <2>1 DEF DInv, Formas, EsFCB
<1>15. TamEnCurso(a)' = n /\ TamEnCurso(a) = 0
   BY <1>1, <1>2, <1>3, <1>4, <1>7 DEF TamEnCurso
<1>16. \A b \in Archivos : b # a => Ajeno(b)
   BY <1>1, <1>3, <1>13 DEF Ajeno, TamEnCurso
<1>17. Medidos /\ FCBEnDisco /\ Cabe BY DEF Regla
<1>18. Medidos' BY <1>4, <1>15, <1>16, <1>17 DEF Medidos, Ajeno
<1>19. CreceDeVacio' BY <1>1, <1>2, <1>3, <1>5, <1>14 DEF CreceDeVacio
<1>20. FCBEnDisco'
   <2>1. \A b \in Archivos : ~Tocado(b) BY <1>3 DEF Tocado
   <2> QED BY <1>3, <1>13, <1>14, <1>17, <2>1 DEF FCBEnDisco
<1>21. Cabe' BY <1>3, <1>4, <1>13, <1>14, <1>17 DEF Cabe, Capacidad
<1>22. ASSUME olvido = "no" PROVE Distintos' /\ AlDia' /\ Escritos'
   <2>1. Distintos /\ AlDia /\ Escritos BY <1>3, <1>22 DEF Regla
   <2>2. /\ EsModelo(m) /\ m.bitmap = disp.bitmap /\ m.libres = disp.libres
         /\ m.bloques = disp.bloques /\ m.tam = 0
      BY <1>4, <1>9, ModeloBien, CamposDeModelo
   <2>3. Ocupados(m) = Usados /\ Cuadra(m) BY <2>1, <2>2 DEF AlDia, Ocupados, Cuadra
   <2>4. CrecidoBien(x, m, n) BY <1>3, <1>4, <1>5, <1>10, <2>2, <2>3, CreceBien
   <2>5. disp'.bitmap = x.bitmap /\ disp'.libres = x.libres /\ disp'.bloques = x.bloques
      BY <1>12, <2>4, ParteBien DEF CrecidoBien
   <2>6. \A k : Bloque(a, k)' = BloqueDe(n, x.directo, x.indirecto, x.bloques, k)
      BY <1>11, <1>14, <1>15, <2>5 DEF Bloque, BloqueDe, EnLista
   <2>7. PICK N : N = NBloques(n) OBVIOUS
   <2>8. Cuantos(a)' = N BY <1>15, <2>7 DEF Cuantos, NBloques, NDatos, EnLista
   <2>9. Nuevos(a, N)
      <3>1. \A k \in 1 .. N : Bloque(a, k)' \in NumerosDeBloque \ Usados
         BY <2>3, <2>4, <2>6, <2>7 DEF CrecidoBien
      <3>2. \A k, l \in 1 .. N : Bloque(a, k)' = Bloque(a, l)' => k = l
         BY <2>4, <2>6, <2>7 DEF CrecidoBien
      <3> QED BY <2>8, <3>1, <3>2 DEF Nuevos
   <2>10. UsadosQuietos
      <3>1. \A c \in Usados, o \in 0 .. Palabras - 1 :
               x.bloques[c * Palabras + o] = m.bloques[c * Palabras + o]
         BY <2>3, <2>4 DEF CrecidoBien
      <3> QED BY <2>2, <2>5, <3>1 DEF UsadosQuietos, Palabra
   <2>11. Distintos' BY <1>16, <1>17, <2>1, <2>9, <2>10, DistintosTrasCrecer
   <2>12. Escritos'
      <3>1. PICK l \in Nat : l = Len(contenido[a]) BY DEF TInv, ContenidoBien
      <3>2. l <= 0 BY <1>4, <1>17, <3>1 DEF Cabe, Capacidad
      <3>3. Len(contenido'[a]) <= 0 /\ Len(contenido'[a]) \in Nat BY <1>3, <3>1, <3>2
      <3> QED BY <1>16, <1>17, <2>1, <2>10, <3>3, EscritosTrasCrecer
   <2>13. AlDia'
      <3>1. Cuantos(a) = 0 BY <1>15, <1>17, Cuentas DEF Cuantos, Medidos
      <3>2. Usados' = Usados \cup {c \in NumerosDeBloque : \E k \in 1 .. N : c = Bloque(a, k)'}
         BY <1>16, <1>17, <2>1, <2>9, <2>10, <3>1, UsadosTrasCrecer
      <3>3. Ocupados(x) = Usados \cup
               {c \in NumerosDeBloque : \E k \in 1 .. N :
                   c = BloqueDe(n, x.directo, x.indirecto, x.bloques, k)}
         BY <2>3, <2>4, <2>7 DEF CrecidoBien
      <3>4. Ocupados(x) = Usados' BY <2>6, <3>2, <3>3
      <3>5. Ocupados(disp)' = Ocupados(x) BY <2>5 DEF Ocupados
      <3>6. Cuadra(x) BY <2>4 DEF CrecidoBien
      <3>7. Cuadra(disp)' BY <2>5, <3>5, <3>6 DEF Cuadra
      <3> QED BY <3>4, <3>5, <3>7 DEF AlDia
   <2> QED BY <2>11, <2>12, <2>13
<1> QED BY <1>3, <1>18, <1>19, <1>20, <1>21, <1>22 DEF Regla

-----------------------------------------------------------------------------
(* A read.                                                                 *)

\* a block followed by the n words after it
Seguido(l, n, s) ==
    /\ s \in Seq(Int) /\ Len(s) = Palabras + n
    /\ \A i \in 1 .. Palabras : s[i] = l[i]

\* The block that is read, and what the code takes for the words after it.
LEMMA AlSeguir ==
    ASSUME NEW l, EsTupla(l, Palabras), \A i \in 1 .. Palabras : l[i] \in Int, NEW n \in Nat,
           NEW s, s = l \o Nada(n)
    PROVE  Seguido(l, n, s)
<1>1. l \in Seq(Int) /\ Len(l) = Palabras
   <2>1. l \in [1 .. Palabras -> Int] BY DEF EsTupla
   <2> QED BY <2>1, Medidas
<1>2. PICK f : f = Nada(n) OBVIOUS
<1>3. f \in Seq(Int) /\ Len(f) = n
   <2>1. f \in [1 .. n -> Int] BY <1>2 DEF Nada, Indefinido
   <2> QED BY <2>1
<1>4. s = l \o f BY <1>2
<1>5. s \in Seq(Int) /\ Len(s) = Palabras + n
      /\ \A i \in 1 .. Palabras + n : s[i] = IF i <= Palabras THEN l[i] ELSE f[i - Palabras]
   <2>1. /\ s \in Seq(Int) /\ Len(s) = Len(l) + Len(f)
         /\ \A i \in 1 .. Len(l) + Len(f) : s[i] = IF i <= Len(l) THEN l[i] ELSE f[i - Len(l)]
      BY <1>1, <1>3, <1>4, ConcatProperties
   <2> QED BY <1>1, <1>3, <2>1
<1>6. \A i \in 1 .. Palabras : i \in 1 .. Palabras + n /\ i <= Palabras BY Medidas
<1> QED BY <1>5, <1>6 DEF Seguido

\* A read that stays in the first block is of its words.
LEMMA LeeDelPrimero ==
    ASSUME NEW m, EsModelo(m), m.directo \in NumerosDeBloque, NEW p \in Nat, NEW n \in Nat,
           p + n <= Palabras, NEW x \in leerSeguido(m, p, n).datos
    PROVE  \A i \in 1 .. n : x[i] = Palabra(m, m.directo, p + i - 1)
<1>1. PICK b \in NumerosDeBloque : b = m.directo OBVIOUS
<1>2. PICK w : w = b * Palabras OBVIOUS
<1>3. w \in Nat
   <2>1. 0 \in 0 .. Palabras - 1 BY Medidas
   <2> QED BY <1>2, <2>1, EnPosiciones
<1>4. PICK pos \in Int : pos = w + p BY <1>3
<1>5. PosicionDeLectura(m, p) = pos BY <1>1, <1>2, <1>4 DEF PosicionDeLectura
<1>6. PICK l : l = leerUnBloqueDeDatos(m, pos) OBVIOUS
<1>7. PICK s : s = l \o Nada(n) OBVIOUS
<1>8. x = SubSeq(s, 1, n) BY <1>5, <1>6, <1>7 DEF leerSeguido
<1>9. Seguido(l, n, s)
   <2>1. EsTupla(l, Palabras) /\ \A i \in 1 .. Palabras : l[i] \in Int
      BY <1>6, AlLeido DEF EsTupla
   <2> QED BY <1>7, <2>1, AlSeguir
<1>10. \A i \in 1 .. n : x[i] = s[i]
   <2>1. s \in Seq(Int) /\ n <= Len(s) BY <1>9, Medidas DEF Seguido
   <2> QED BY <1>8, <2>1, Comienzo
<1> SUFFICES ASSUME NEW i \in 1 .. n PROVE x[i] = Palabra(m, m.directo, p + i - 1) OBVIOUS
<1>11. i \in 1 .. Palabras /\ p + i - 1 \in 0 .. Palabras - 1 BY Medidas
<1>12. w + (p + i - 1) \in Posiciones BY <1>2, <1>11, EnPosiciones
<1>13. pos + i - 1 = w + (p + i - 1) BY <1>3, <1>4
<1>14. pos >= 0 BY <1>3, <1>4
<1>15. l[i] = m.bloques[pos + i - 1] BY <1>6, <1>11, <1>12, <1>13, <1>14, LoLeido
<1>16. x[i] = l[i] BY <1>9, <1>10, <1>11 DEF Seguido
<1> QED BY <1>1, <1>2, <1>13, <1>15, <1>16 DEF Palabra

\* leerArchivo sends what was written.
LEMMA LeeBien == ASSUME TInv, DInv, Regla, leerArchivo PROVE LeeLoEscrito'
<1>1. /\ paso = "atiende" /\ pedido.op = "REQ_LEER_ARCHIVO"
      /\ fcbs[pedido.arch].tam # 0 /\ ~FueraDelArchivo(pedido.arch)
      /\ UNCHANGED <<fcbs, pedido, contenido, enRegla, olvido>>
   BY DEF leerArchivo, Atiende
<1>2. PICK a \in Archivos : a = pedido.arch BY <1>1 DEF DInv, Atendido, OpsDeArchivo
<1>3. PICK p \in Nat, n \in Nat : p = pedido.puntero /\ n = pedido.tam /\ n # 0
   BY <1>1 DEF TInv, Pedidos
<1>4. PICK t \in Int : t = fcbs[a].tam BY DEF TInv, FCBsBien, FCBs
<1>5. 0 < t BY <1>1, <1>2, <1>3, <1>4 DEF FueraDelArchivo
<1>6. PICK x : x = dato' OBVIOUS
<1> SUFFICES ASSUME enRegla, olvido # "reasigna",
                    p + n < Palabras \/ (p + n = Palabras /\ t <= Palabras),
                    NEW i \in p + 1 .. p + n, i \in DOMAIN contenido[a], contenido[a][i] # NoEscrito
             PROVE  x[i - p] = contenido[a][i]
   BY <1>1, <1>2, <1>3, <1>4, <1>6 DEF LeeLoEscrito
<1>7. Medidos /\ Distintos /\ Escritos BY <1>1 DEF Regla
<1>8. PICK m : m = Modelo(a) OBVIOUS
<1>9. /\ EsModelo(m) /\ m.tam = t /\ m.directo = fcbs[a].directo /\ m.bloques = disp.bloques
   BY <1>4, <1>8, ModeloBien, CamposDeModelo
<1>10. x \in leer(m, p, n).datos BY <1>2, <1>3, <1>6, <1>8 DEF leerArchivo
<1>11. leer(m, p, n) = leerSeguido(m, p, n)
   <2>1. CASE t <= Palabras
      <3>1. ~(m.tam > Palabras) BY <1>9, <2>1, Medidas
      <3> QED BY <1>9, <2>1, <3>1 DEF leer
   <2>2. CASE ~(t <= Palabras)
      <3>1. p + n < Palabras BY <2>2
      <3>2. m.tam > Palabras /\ p < Palabras /\ Palabras - p - n # 0 BY <1>9, <2>2, <3>1, Medidas
      <3>3. ~(m.tam <= Palabras) BY <1>9, <2>2
      <3>4. leer(m, p, n) = leerArchDesdePunteroDirecto(m, p, n) BY <3>2, <3>3 DEF leer
      <3> QED BY <3>2, <3>4 DEF leerArchDesdePunteroDirecto
   <2> QED BY <2>1, <2>2
<1>12. TamEnCurso(a) = t BY <1>1, <1>4 DEF TamEnCurso
<1>13. 1 \in 1 .. NDatos(TamEnCurso(a))
   <2>1. t < tam_max_archivo BY <1>7, <1>12 DEF Medidos
   <2>2. NDatos(t) \in Nat /\ NDatos(t) >= 1
      <3>1. CASE t <= Palabras BY <1>5, <2>1, <3>1, Cuentas
      <3>2. CASE t > Palabras BY <2>1, <3>2, Cuentas
      <3> QED BY <3>1, <3>2, Medidas
   <2> QED BY <1>12, <2>2
<1>14. Bloque(a, 1) = m.directo BY <1>9 DEF Bloque, BloqueDe
<1>15. m.directo \in NumerosDeBloque BY <1>7, <1>13, <1>14, DatosSonBloques DEF Distintos
<1>16. p + n <= Palabras BY Medidas
<1>17. PICK k \in 1 .. n : k = i - p OBVIOUS
<1>18. x[k] = Palabra(m, m.directo, p + k - 1)
   BY <1>9, <1>10, <1>11, <1>15, <1>16, LeeDelPrimero
<1>19. PICK o \in 0 .. Palabras - 1 : o = i - 1 BY <1>16, Medidas
<1>20. p + k - 1 = o /\ o + 1 = i BY <1>17, <1>19
<1>21. Orden(1, o) + 1 = i BY <1>20, OrdenDelPrimero
<1>22. i \in 1 .. Len(contenido[a]) BY DEF TInv, ContenidoBien
<1>23. Palabra(disp, Bloque(a, 1), o) = contenido[a][i]
   BY <1>7, <1>13, <1>21, <1>22 DEF Escritos
<1>24. Palabra(m, m.directo, o) = Palabra(disp, Bloque(a, 1), o) BY <1>9, <1>14 DEF Palabra
<1> QED BY <1>17, <1>18, <1>20, <1>23, <1>24

\* No other step puts an answer of a read in the socket.
LEMMA LeeLoEscritoSigue == ASSUME TInv, DInv, Regla, LeeLoEscrito, [Next]_vars PROVE LeeLoEscrito'
<1>1. CASE leerArchivo BY <1>1, LeeBien
<1>2. CASE UNCHANGED vars BY <1>2 DEF vars, LeeLoEscrito
<1>3. ASSUME respuesta' # "OK_LEER_ARCHIVO" PROVE LeeLoEscrito' BY <1>3 DEF LeeLoEscrito
<1>4. paso # "responde" => respuesta = "NINGUNA" BY DEF TInv, Pedidos
<1>5. ASSUME Kernel PROVE respuesta' # "OK_LEER_ARCHIVO"
   BY <1>4, <1>5 DEF Kernel, PideAbrir, PideCrear, PideTruncar, PideLeer, PideEscribir,
                     PideOpMemoria, Pide, Recibe
<1>6. ASSUME Reinicio PROVE respuesta' # "OK_LEER_ARCHIVO" BY <1>6 DEF Reinicio
<1>7. ASSUME OpMemoria \/ abrirArchivo \/ truncarSinCambio \/ leerRechazado \/ escribirRechazado
      PROVE  respuesta' # "OK_LEER_ARCHIVO"
   BY <1>7 DEF OpMemoria, abrirArchivo, truncarSinCambio, leerRechazado, escribirRechazado,
               SoloResponde, responderAKernel, RespuestaAlAbrir
<1>8. ASSUME crearArchivo \/ truncarBloques \/ actualizar_tam_archivo
      PROVE  respuesta' # "OK_LEER_ARCHIVO"
   BY <1>4, <1>8 DEF crearArchivo, truncarBloques, actualizar_tam_archivo, Atiende
<1>9. ASSUME crearFCB \/ guardarFCB \/ escribirArchivo PROVE respuesta' # "OK_LEER_ARCHIVO"
   BY <1>9 DEF crearFCB, guardarFCB, escribirArchivo, responderAKernel
<1> QED BY <1>1, <1>2, <1>3, <1>5, <1>6, <1>7, <1>8, <1>9 DEF Next, atenderReqKernel

-----------------------------------------------------------------------------
(* What was written stays, and is what is read.                            *)

\* The invariant holds at the start: there are no files.
LEMMA InitRegla == Init => Regla /\ LeeLoEscrito
<1> SUFFICES ASSUME Init PROVE Regla /\ LeeLoEscrito OBVIOUS
<1>1. /\ paso = "espera" /\ respuesta = "NINGUNA"
      /\ disp.bitmap = [b \in NumerosDeBloque |-> FALSE] /\ disp.libres = CantBloques
      /\ \A a \in Archivos : fcbs[a].tam = -1 /\ contenido[a] = <<>>
   BY DEF Init, Ausente
<1>2. \A a \in Archivos : TamEnCurso(a) = -1 BY <1>1 DEF TamEnCurso
<1>3. \A a \in Archivos : Cuantos(a) = 0 /\ NDatos(TamEnCurso(a)) = 0
   BY <1>2, Medidas DEF Cuantos, NBloques, NDatos
<1>4. Medidos BY <1>2, Tope DEF Medidos
<1>5. CreceDeVacio /\ FCBEnDisco BY <1>1 DEF CreceDeVacio, FCBEnDisco
<1>6. Cabe BY <1>1 DEF Cabe, Capacidad
<1>7. Distintos BY <1>3 DEF Distintos
<1>8. Escritos BY <1>3 DEF Escritos
<1>9. AlDia
   <2>1. Usados = {} BY <1>3 DEF Usados
   <2>2. Ocupados(disp) = {} BY <1>1 DEF Ocupados
   <2>3. disp.libres = CantBloques - Cardinality(Ocupados(disp))
      <3>1. Cardinality({}) = 0 BY FS_EmptySet
      <3> QED BY <1>1, <2>2, <3>1, Medidas
   <2> QED BY <2>1, <2>2, <2>3 DEF AlDia, Cuadra
<1>10. LeeLoEscrito BY <1>1 DEF LeeLoEscrito
<1> QED BY <1>4, <1>5, <1>6, <1>7, <1>8, <1>9, <1>10 DEF Regla

\* A step that changes nothing keeps it.
LEMMA ReglaQuieta == ASSUME Regla, UNCHANGED vars PROVE Regla'
<1>1. UNCHANGED <<disp, fcbs, disco, paso, pedido, contenido, enRegla, olvido>> BY DEF vars
<1>2. CASE ~enRegla BY <1>1, <1>2 DEF Regla
<1>3. CASE enRegla
   <2>1. \A a \in Archivos : Mismo(a) BY <1>1 DEF Mismo, TamEnCurso
   <2>2. disp'.bloques = disp.bloques BY <1>1
   <2>3. (Distintos => Distintos') /\ (Escritos => Escritos') BY <2>1, <2>2, Heredan
   <2>4. Medidos' BY <1>3, <2>1 DEF Regla, Medidos, Mismo
   <2>5. CreceDeVacio' /\ FCBEnDisco' /\ Cabe'
      BY <1>1, <1>3 DEF Regla, CreceDeVacio, FCBEnDisco, Tocado, Cabe, Capacidad
   <2>6. AlDia => AlDia'
      <3>1. \A a \in Archivos : Cuantos(a)' = Cuantos(a) /\ \A k : Bloque(a, k)' = Bloque(a, k)
         BY <2>1, <2>2, MismosBloques
      <3>2. Usados' = Usados BY <3>1 DEF Usados
      <3>3. Ocupados(disp)' = Ocupados(disp) /\ (Cuadra(disp) => Cuadra(disp)')
         BY <1>1 DEF Ocupados, Cuadra
      <3> QED BY <3>2, <3>3 DEF AlDia
   <2> QED BY <1>1, <1>3, <2>3, <2>4, <2>5, <2>6 DEF Regla
<1> QED BY <1>2, <1>3

\* Every step keeps it.
LEMMA ReglaInductiva == TInv /\ DInv /\ Regla /\ [Next]_vars => Regla'
<1> SUFFICES ASSUME TInv, DInv, Regla, [Next]_vars PROVE Regla' OBVIOUS
<1>1. CASE UNCHANGED vars BY <1>1, ReglaQuieta
<1>2. CASE Kernel BY <1>2, PideRegla, RecibeRegla DEF Kernel
<1>3. CASE atenderReqKernel
   BY <1>3, SoloRespondeRegla, LeeRegla, CreaRegla, GuardaRegla, CrearFCBRegla, ActualizaRegla,
      TruncaRegla, EscribeRegla
   DEF atenderReqKernel
<1>4. CASE Reinicio BY <1>4, ReinicioRegla
<1> QED BY <1>1, <1>2, <1>3, <1>4 DEF Next

\* The blocks of the files are different, marked while no restart cleared the
\* bitmap, and have what was written: for every number of blocks, size of block,
\* set of files, sizes and texts.
THEOREM ReglaInvariante == Spec => [](TInv /\ DInv /\ Regla)
<1> QED BY InitTInv, InitRegla, TInvInductivo, ReglaInductiva, DirectorioInductivo, PTL DEF Spec

\* No block is given twice, to two files or to one, while the truncations are
\* those that truncarMasBloques serves in full and none takes blocks after a restart.
THEOREM NingunBloqueCompartido == Spec => []SinBloquesCompartidos
<1>1. TInv /\ DInv /\ Regla => SinBloquesCompartidos BY SinCompartirDeRegla
<1> QED BY <1>1, ReglaInvariante, PTL

\* Until a file with blocks goes through a restart the bitmap marks the blocks of
\* the files and no other, and bloques_libres counts the clear bits.
THEOREM ElBitmapCuadra == Spec => []BitmapAlDia
<1>1. TInv /\ DInv /\ Regla => BitmapAlDia BY AlDiaDeRegla
<1> QED BY <1>1, ReglaInvariante, PTL

\* What escribirArchivo wrote is where the pointers of the file lead, through the
\* operations on the other files and a restart.
THEOREM LasEscriturasQuedan == Spec => []LoEscritoQueda
<1>1. TInv /\ DInv /\ Regla => LoEscritoQueda BY QuedaDeRegla
<1> QED BY <1>1, ReglaInvariante, PTL

\* A read that stays in the first block sends Memoria what was last written there.
THEOREM SeLeeLoEscrito == Spec => []LeeLoEscrito
<1>1. Init => LeeLoEscrito BY InitRegla
<1>2. TInv /\ DInv /\ Regla /\ LeeLoEscrito /\ [Next]_vars => LeeLoEscrito' BY LeeLoEscritoSigue
<1> QED BY <1>1, <1>2, ReglaInvariante, PTL DEF Spec
=============================================================================
