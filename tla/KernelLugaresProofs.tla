------------------------ MODULE KernelLugaresProofs ------------------------
(***************************************************************************)
(* Where the PCBs are: every process in one list, queue or I/O thread, the *)
(* permits of the degree of multiprogramming, and the segment tables of    *)
(* the admitted processes.  Everything rests on AInv of KernelAvisosProofs. *)
(*                                                                         *)
(* With that, the Kernel implements CicloDeVida: whatever its threads      *)
(* interleave, the processes move along the five-state diagram, admitted   *)
(* in the order in which their consoles connected and up to the degree.  A *)
(* step of a thread is one move of one process (Movimiento), or leaves     *)
(* every process where it was.                                             *)
(***************************************************************************)
EXTENDS KernelAvisosProofs

USE DEF listas, buzones, params, recursos, nacimiento, efimeros, externo, sockets,
        Hilos, Mutexes, Etiquetas, EtiquetasCPU, EtiquetasMEM, EtiquetasFS,
        EtiquetasLP, EtiquetasCP

-----------------------------------------------------------------------------
(* How many times a value occurs in a list. *)

\* The positions of a value in a list are finitely many.
LEMMA VecesNat ==
    ASSUME NEW S, NEW l \in Seq(S), NEW p
    PROVE  /\ IsFiniteSet(Posiciones(p, l)) /\ Veces(p, l) \in Nat
           /\ p \in ToSet(l) <=> Veces(p, l) # 0
<1>1. IsFiniteSet(1 .. Len(l)) BY FS_Interval
<1>2. Posiciones(p, l) \in SUBSET (1 .. Len(l)) BY DEF Posiciones
<1>3. IsFiniteSet(Posiciones(p, l)) BY <1>1, <1>2, FS_Subset
<1>4. p \in ToSet(l) <=> Posiciones(p, l) # {} BY DEF Posiciones, ToSet
<1> QED BY <1>3, <1>4, FS_CardinalityType, FS_EmptySet DEF Veces

\* Nothing occurs in the empty list.
LEMMA VecesVacia == ASSUME NEW p PROVE Veces(p, <<>>) = 0
<1>1. Posiciones(p, <<>>) = {} BY DEF Posiciones
<1> QED BY <1>1, FS_EmptySet DEF Veces

\* Appending a value adds one occurrence of it.
LEMMA VecesAppend ==
    ASSUME NEW S, NEW l \in Seq(S), NEW x \in S, NEW p
    PROVE  Veces(p, Append(l, x)) = Veces(p, l) + Cuenta(p = x)
<1> DEFINE n == Len(l) + 1
<1>1. n \in Nat /\ DOMAIN Append(l, x) = 1 .. n /\ DOMAIN l = 1 .. Len(l)
      /\ \A i \in 1 .. Len(l) : Append(l, x)[i] = l[i]
      /\ Append(l, x)[n] = x
   OBVIOUS
<1>2. n \notin Posiciones(p, l) BY <1>1 DEF Posiciones
<1>3. CASE p = x
   <2>1. Posiciones(p, Append(l, x)) = Posiciones(p, l) \cup {n} BY <1>1, <1>3 DEF Posiciones
   <2> QED BY <1>2, <1>3, <2>1, VecesNat, FS_AddElement DEF Veces, Cuenta
<1>4. CASE p # x
   <2>1. Posiciones(p, Append(l, x)) = Posiciones(p, l) BY <1>1, <1>4 DEF Posiciones
   <2> QED BY <1>4, <2>1, VecesNat DEF Veces, Cuenta
<1> QED BY <1>3, <1>4

\* Removing the element at i takes one occurrence of it.
LEMMA VecesSin ==
    ASSUME NEW S, NEW l \in Seq(S), NEW m \in Seq(S), NEW i \in 1 .. Len(l), NEW p,
           Len(m) = Len(l) - 1,
           \A j \in 1 .. Len(m) : m[j] = IF j < i THEN l[j] ELSE l[j + 1]
    PROVE  Veces(p, m) = Veces(p, l) - Cuenta(p = l[i])
<1> DEFINE A == Posiciones(p, m)
           B == Posiciones(p, l) \ {i}
           f == [j \in A |-> IF j < i THEN j ELSE j + 1]
<1>1. DOMAIN l = 1 .. Len(l) /\ DOMAIN m = 1 .. Len(l) - 1 /\ Len(l) \in Nat
   OBVIOUS
<1>2. f \in [A -> B]
   <2> SUFFICES ASSUME NEW j \in A PROVE (IF j < i THEN j ELSE j + 1) \in B
      OBVIOUS
   <2> QED BY <1>1 DEF Posiciones
<1>3. \A j, k \in A : f[j] = f[k] => j = k
   BY <1>1 DEF Posiciones
<1>4. ASSUME NEW k \in B PROVE \E j \in A : f[j] = k
   <2>1. CASE k < i
      <3>1. k \in A BY <1>1, <2>1 DEF Posiciones
      <3> QED BY <2>1, <3>1
   <2>2. CASE k > i
      <3>1. k - 1 \in A BY <1>1, <2>2 DEF Posiciones
      <3>2. f[k - 1] = k BY <1>1, <2>2, <3>1 DEF Posiciones
      <3> QED BY <3>1, <3>2
   <2>3. k \in Nat /\ i \in Nat /\ k # i BY <1>1 DEF Posiciones
   <2> QED BY <2>1, <2>2, <2>3
<1>5. f \in Bijection(A, B)
   BY <1>2, <1>3, <1>4 DEF Bijection, Injection, IsInjective, Surjection
<1>6. ExistsBijection(A, B) BY <1>5 DEF ExistsBijection
<1>7. IsFiniteSet(A) /\ IsFiniteSet(Posiciones(p, l)) BY VecesNat
<1>8. Cardinality(B) = Veces(p, m) BY <1>6, <1>7, FS_Bijection DEF Veces
<1>9. i \in Posiciones(p, l) <=> p = l[i] BY DEF Posiciones
<1>10. Cardinality(B) = IF p = l[i] THEN Veces(p, l) - 1 ELSE Veces(p, l)
   BY <1>7, <1>9, FS_RemoveElement DEF Veces
<1> QED BY <1>8, <1>10, VecesNat DEF Cuenta

\* So does taking the head,
LEMMA VecesResto ==
    ASSUME NEW S, NEW l \in Seq(S), l # <<>>, NEW p
    PROVE  /\ Tail(l) \in Seq(S) /\ Resto(l) = Tail(l)
           /\ Primero(l) = l[1] /\ Head(l) = l[1]
           /\ Veces(p, Tail(l)) = Veces(p, l) - Cuenta(p = l[1])
<1> DEFINE m == Tail(l)
<1>1. /\ 1 \in 1 .. Len(l) /\ m \in Seq(S) /\ Len(m) = Len(l) - 1
      /\ \A j \in 1 .. Len(m) : m[j] = IF j < 1 THEN l[j] ELSE l[j + 1]
   OBVIOUS
<1>2. Veces(p, m) = Veces(p, l) - Cuenta(p = l[1])
   <2> HIDE DEF m
   <2> QED BY <1>1, VecesSin
<1> QED BY <1>1, <1>2 DEF Resto, Primero

\* and removing by position.
LEMMA VecesRemoveAt ==
    ASSUME NEW S, NEW l \in Seq(S), NEW i \in DOMAIN l, NEW p
    PROVE  Veces(p, RemoveAt(l, i)) = Veces(p, l) - Cuenta(p = l[i])
<1> DEFINE m == RemoveAt(l, i)
<1>1. m \in Seq(S) /\ Len(m) = Len(l) - 1
      /\ \A j \in 1 .. Len(m) : m[j] = IF j < i THEN l[j] ELSE l[j + 1]
   <2> DEFINE a == SubSeq(l, 1, i - 1)
              b == SubSeq(l, i + 1, Len(l))
   <2>1. a \in Seq(S) /\ Len(a) = i - 1 /\ \A j \in 1 .. i - 1 : a[j] = l[j]
      OBVIOUS
   <2>2. b \in Seq(S) /\ Len(b) = Len(l) - i /\ \A j \in 1 .. Len(l) - i : b[j] = l[i + j]
      OBVIOUS
   <2>3. m = a \o b BY DEF RemoveAt
   <2> HIDE DEF a, b, m
   <2>4. m \in Seq(S) /\ Len(m) = Len(l) - 1 BY <2>1, <2>2, <2>3
   <2>5. ASSUME NEW j \in 1 .. Len(m) PROVE m[j] = IF j < i THEN l[j] ELSE l[j + 1]
      <3>1. j \in 1 .. Len(l) - 1 BY <2>4
      <3>2. CASE j < i
         <4>1. j \in 1 .. i - 1 BY <3>1, <3>2
         <4>2. m[j] = a[j]
            <5>1. j \in 1 .. Len(a) + Len(b) /\ j <= Len(a) BY <2>1, <2>2, <3>1, <4>1
            <5>2. (a \o b)[j] = a[j] BY <2>1, <2>2, <5>1
            <5> QED BY <2>3, <5>2
         <4> QED BY <2>1, <3>2, <4>1, <4>2
      <3>3. CASE ~(j < i)
         <4>1. j - (i - 1) \in 1 .. Len(l) - i BY <3>1, <3>3
         <4>2. m[j] = b[j - (i - 1)]
            <5>1. j \in 1 .. Len(a) + Len(b) /\ ~(j <= Len(a))
               <6>1. PICK n \in Nat : n = Len(l) OBVIOUS
               <6>2. Len(a) = i - 1 /\ Len(b) = n - i /\ i \in 1 .. n BY <2>1, <2>2, <6>1
               <6>3. j \in 1 .. n - 1 BY <3>1, <6>1
               <6> QED BY <3>3, <6>2, <6>3
            <5>2. (a \o b)[j] = b[j - Len(a)]
               <6>1. a \in Seq(S) /\ b \in Seq(S) BY <2>1, <2>2
               <6> QED BY <5>1, <6>1, ConcatProperties
            <5> QED BY <2>1, <2>3, <5>2
         <4>3. i + (j - (i - 1)) = j + 1 BY <3>1
         <4> QED BY <2>2, <3>3, <4>1, <4>2, <4>3
      <3> QED BY <3>2, <3>3
   <2> QED BY <2>4, <2>5
<1> HIDE DEF m
<1>2. Veces(p, m) = Veces(p, l) - Cuenta(p = l[i])
   <2>1. i \in 1 .. Len(l) OBVIOUS
   <2> QED BY <1>1, <2>1, VecesSin
<1> QED BY <1>2 DEF m

-----------------------------------------------------------------------------
(* How many times a value occurs in the queues of the resources. *)

EnLasColas(p, c) == UNION {{r} \X Posiciones(p, c[r]) : r \in Recursos}
EnOtras(p, c, r) == UNION {{s} \X Posiciones(p, c[s]) : s \in Recursos \ {r}}
VecesColas(p, c) == Cardinality(EnLasColas(p, c))

\* A queue and the others add up.
LEMMA VecesColasSuma ==
    ASSUME NEW S, NEW c \in [Recursos -> Seq(S)], NEW r \in Recursos, NEW p
    PROVE  /\ Cardinality(EnOtras(p, c, r)) \in Nat
           /\ VecesColas(p, c) = Veces(p, c[r]) + Cardinality(EnOtras(p, c, r))
           /\ VecesColas(p, c) \in Nat
<1> DEFINE una == {r} \X Posiciones(p, c[r])
           otras == EnOtras(p, c, r)
<1> USE DEF EnOtras
<1>1. IsFiniteSet(una) /\ Cardinality(una) = Veces(p, c[r]) /\ Veces(p, c[r]) \in Nat
   <2>1. IsFiniteSet(Posiciones(p, c[r])) /\ Veces(p, c[r]) \in Nat BY VecesNat
   <2>2. IsFiniteSet({r}) /\ Cardinality({r}) = 1 BY FS_Singleton
   <2>3. IsFiniteSet(una) /\ Cardinality(una) = 1 * Veces(p, c[r])
      BY <2>1, <2>2, FS_Product DEF Veces
   <2> QED BY <2>1, <2>3
<1>2. IsFiniteSet(otras)
   <2> DEFINE ss == {{s} \X Posiciones(p, c[s]) : s \in Recursos \ {r}}
              f == [s \in Recursos \ {r} |-> {s} \X Posiciones(p, c[s])]
   <2>1. IsFiniteSet(Recursos \ {r}) BY RecursosAssumption, FS_RemoveElement
   <2>2. f \in Surjection(Recursos \ {r}, ss)
      BY DEF Surjection
   <2>3. IsFiniteSet(ss) BY <2>1, <2>2, FS_Surjection
   <2>4. ASSUME NEW s \in Recursos PROVE IsFiniteSet({s} \X Posiciones(p, c[s]))
      <3>1. IsFiniteSet(Posiciones(p, c[s])) BY VecesNat
      <3>2. IsFiniteSet({s}) BY FS_Singleton
      <3> QED BY <3>1, <3>2, FS_Product
   <2>5. \A T \in ss : IsFiniteSet(T) BY <2>4
   <2> HIDE DEF ss
   <2>6. IsFiniteSet(UNION ss) BY <2>3, <2>5, FS_UNION
   <2> QED BY <2>6 DEF ss
<1>3. una \cap otras = {} OBVIOUS
<1>4. EnLasColas(p, c) = una \cup otras BY DEF EnLasColas
<1> HIDE DEF una, otras, EnOtras
<1>5. Cardinality(una \cup otras) = Cardinality(una) + Cardinality(otras) - 0
   BY <1>1, <1>2, <1>3, FS_Union, FS_EmptySet
<1>6. Cardinality(otras) \in Nat BY <1>2, FS_CardinalityType
<1>7. VecesColas(p, c) = Veces(p, c[r]) + Cardinality(otras)
   BY <1>1, <1>4, <1>5, <1>6 DEF VecesColas
<1> QED BY <1>1, <1>6, <1>7 DEF otras

\* Replacing one queue changes the count by what that queue gains or loses.
LEMMA VecesColasCambia ==
    ASSUME NEW S, NEW c \in [Recursos -> Seq(S)], NEW r \in Recursos, NEW l \in Seq(S), NEW p
    PROVE  VecesColas(p, [c EXCEPT ![r] = l]) = VecesColas(p, c) + Veces(p, l) - Veces(p, c[r])
<1> DEFINE d == [c EXCEPT ![r] = l]
           otrasC == EnOtras(p, c, r)
           otrasD == EnOtras(p, d, r)
<1>1. d \in [Recursos -> Seq(S)] /\ d[r] = l /\ \A s \in Recursos \ {r} : d[s] = c[s]
   OBVIOUS
<1>2. otrasD = otrasC BY <1>1 DEF EnOtras
<1> HIDE DEF d
<1>3. VecesColas(p, c) = Veces(p, c[r]) + Cardinality(otrasC) /\ Cardinality(otrasC) \in Nat
   BY VecesColasSuma
<1>4. VecesColas(p, d) = Veces(p, d[r]) + Cardinality(otrasD) BY <1>1, VecesColasSuma
<1>5. Veces(p, c[r]) \in Nat /\ Veces(p, l) \in Nat BY VecesNat
<1> HIDE DEF otrasC, otrasD
<1>6. VecesColas(p, d) = VecesColas(p, c) + Veces(p, l) - Veces(p, c[r])
   BY <1>1, <1>2, <1>3, <1>4, <1>5
<1> QED BY <1>6 DEF d

\* Who occurs in a queue is in Bloqueados.
LEMMA VecesColasNat ==
    ASSUME TypeOK, NEW p
    PROVE  /\ VecesColas(p, colaBloqueados) \in Nat
           /\ p \in Bloqueados <=> VecesColas(p, colaBloqueados) # 0
<1>1. colaBloqueados \in [Recursos -> Seq(Pids)] BY DEF TypeOK, TiposListas
<1>2. CASE Recursos = {}
   <2>1. EnLasColas(p, colaBloqueados) = {} BY <1>2 DEF EnLasColas
   <2>2. p \notin Bloqueados BY <1>2 DEF Bloqueados
   <2> QED BY <2>1, <2>2, FS_EmptySet DEF VecesColas
<1>3. CASE Recursos # {}
   <2>1. VecesColas(p, colaBloqueados) \in Nat BY <1>1, <1>3, VecesColasSuma
   <2>2. ASSUME p \in Bloqueados PROVE VecesColas(p, colaBloqueados) # 0
      <3>1. PICK r \in Recursos : p \in ToSet(colaBloqueados[r]) BY <2>2 DEF Bloqueados
      <3>2. Veces(p, colaBloqueados[r]) \in Nat \ {0} BY <1>1, <3>1, VecesNat
      <3> DEFINE otras == EnOtras(p, colaBloqueados, r)
      <3>3. /\ Cardinality(otras) \in Nat
            /\ VecesColas(p, colaBloqueados) = Veces(p, colaBloqueados[r]) + Cardinality(otras)
         BY <1>1, VecesColasSuma
      <3> HIDE DEF otras
      <3> QED BY <3>2, <3>3
   <2>3. ASSUME p \notin Bloqueados PROVE VecesColas(p, colaBloqueados) = 0
      <3>1. ASSUME NEW r \in Recursos PROVE Posiciones(p, colaBloqueados[r]) = {}
         <4>1. p \notin ToSet(colaBloqueados[r]) BY <2>3 DEF Bloqueados
         <4> QED BY <4>1 DEF ToSet, Posiciones
      <3>2. EnLasColas(p, colaBloqueados) = {} BY <3>1 DEF EnLasColas
      <3> QED BY <3>2, FS_EmptySet DEF VecesColas
   <2> QED BY <2>1, <2>2, <2>3
<1> QED BY <1>2, <1>3

-----------------------------------------------------------------------------
(* How many times a process is in each state. *)

EnNew(p)   == Veces(p, colaNew)
EnReady(p) == Veces(p, listaReady)
EnExec(p)  == Veces(p, listaExec)
EnBlock(p) == Veces(p, listaBlock) + VecesColas(p, colaBloqueados) + Cuenta(p \in EnIO)
EnExit(p)  == Veces(p, listaExit)

\* The five counts are naturals, and LugaresDe is their sum.
LEMMA LugaresSuma ==
    ASSUME TypeOK, NEW p
    PROVE  /\ EnNew(p) \in Nat /\ EnReady(p) \in Nat /\ EnExec(p) \in Nat
           /\ EnBlock(p) \in Nat /\ EnExit(p) \in Nat
           /\ LugaresDe(p) = EnNew(p) + EnReady(p) + EnExec(p) + EnBlock(p) + EnExit(p)
<1>1. /\ Veces(p, colaNew) \in Nat /\ Veces(p, listaReady) \in Nat /\ Veces(p, listaExec) \in Nat
      /\ Veces(p, listaBlock) \in Nat /\ Veces(p, listaExit) \in Nat
   BY VecesNat DEF TypeOK, TiposListas
<1>2. VecesColas(p, colaBloqueados) \in Nat BY VecesColasNat
<1>3. Cuenta(p \in EnIO) \in Nat BY DEF Cuenta
<1>4. LugaresDe(p) = Veces(p, colaNew) + Veces(p, listaReady) + Veces(p, listaExec)
                     + Veces(p, listaBlock) + Veces(p, listaExit)
                     + VecesColas(p, colaBloqueados) + Cuenta(p \in EnIO)
   BY DEF LugaresDe, VecesColas, EnLasColas
<1> HIDE DEF Cuenta
<1> QED BY <1>1, <1>2, <1>3, <1>4 DEF EnNew, EnReady, EnExec, EnBlock, EnExit

\* The admitted processes are those that are ready, running or blocked.
LEMMA ActivosCuenta ==
    ASSUME TypeOK, NEW p
    PROVE  p \in Activos <=> EnReady(p) + EnExec(p) + EnBlock(p) # 0
<1>1. /\ Veces(p, listaReady) \in Nat /\ p \in ToSet(listaReady) <=> Veces(p, listaReady) # 0
      /\ Veces(p, listaExec) \in Nat /\ p \in ToSet(listaExec) <=> Veces(p, listaExec) # 0
      /\ Veces(p, listaBlock) \in Nat /\ p \in ToSet(listaBlock) <=> Veces(p, listaBlock) # 0
   <2>1. listaReady \in Seq(Pids) /\ listaExec \in Seq(Pids) /\ listaBlock \in Seq(Pids)
      BY DEF TypeOK, TiposListas
   <2> QED BY <2>1, VecesNat
<1>2. VecesColas(p, colaBloqueados) \in Nat
      /\ p \in Bloqueados <=> VecesColas(p, colaBloqueados) # 0
   BY VecesColasNat
<1>3. Cuenta(p \in EnIO) \in Nat /\ p \in EnIO <=> Cuenta(p \in EnIO) # 0 BY DEF Cuenta
<1>4. p \in Activos <=> \/ p \in ToSet(listaReady) \/ p \in ToSet(listaExec)
                        \/ p \in ToSet(listaBlock) \/ p \in Bloqueados \/ p \in EnIO
   BY DEF Activos
<1> HIDE DEF Cuenta
<1>5. PICK r, e, b, c, d : /\ r = Veces(p, listaReady) /\ e = Veces(p, listaExec)
                          /\ b = Veces(p, listaBlock) /\ c = VecesColas(p, colaBloqueados)
                          /\ d = Cuenta(p \in EnIO)
   OBVIOUS
<1>6. p \in Activos <=> r # 0 \/ e # 0 \/ b # 0 \/ c # 0 \/ d # 0 BY <1>1, <1>2, <1>3, <1>4, <1>5
<1>7. r \in Nat /\ e \in Nat /\ b \in Nat /\ c \in Nat /\ d \in Nat BY <1>1, <1>2, <1>3, <1>5
<1>8. EnReady(p) = r /\ EnExec(p) = e /\ EnBlock(p) = b + c + d
   BY <1>5 DEF EnReady, EnExec, EnBlock
<1> QED BY <1>6, <1>7, <1>8

-----------------------------------------------------------------------------
(* What each step does to those counts. *)

\* Only the counts of q change, by these amounts.
Mueve(q, new, ready, exec, block, exit) ==
    \A p \in Pids :
        /\ EnNew(p)'   = EnNew(p)   + (IF p = q THEN new ELSE 0)
        /\ EnReady(p)' = EnReady(p) + (IF p = q THEN ready ELSE 0)
        /\ EnExec(p)'  = EnExec(p)  + (IF p = q THEN exec ELSE 0)
        /\ EnBlock(p)' = EnBlock(p) + (IF p = q THEN block ELSE 0)
        /\ EnExit(p)'  = EnExit(p)  + (IF p = q THEN exit ELSE 0)

Quieto == Mueve(Nulo, 0, 0, 0, 0, 0)

\* The process about to start an I/O is in no other one.
PorDormir == pc["CPU"] = "ioparam" => pcb["CPU"] \in Pids /\ io[pcb["CPU"]] = "no"

\* A step that touches no list, queue or I/O moves nobody.
LEMMA QuietoSi ==
    ASSUME TypeOK, UNCHANGED listas, UNCHANGED colaBloqueados, UNCHANGED io,
           pc'["CPU"] = "ioparam" <=> pc["CPU"] = "ioparam",
           pc["CPU"] = "ioparam" => pcb'["CPU"] = pcb["CPU"]
    PROVE  Quieto
<1>1. EnIO' = EnIO BY DEF EnIO, En
<1>2. ASSUME NEW p PROVE /\ EnNew(p)' = EnNew(p) /\ EnReady(p)' = EnReady(p)
                         /\ EnExec(p)' = EnExec(p) /\ EnBlock(p)' = EnBlock(p)
                         /\ EnExit(p)' = EnExit(p)
   BY <1>1 DEF EnNew, EnReady, EnExec, EnBlock, EnExit
<1> QED BY <1>2, LugaresSuma DEF Quieto, Mueve

\* A running process is nowhere else.
LEMMA SoloEnExec ==
    ASSUME TypeOK, CadaPcbEnUnLugar, NEW p \in Pids, EnExec(p) # 0
    PROVE  /\ EnNew(p) = 0 /\ EnReady(p) = 0 /\ EnExec(p) = 1 /\ EnBlock(p) = 0 /\ EnExit(p) = 0
           /\ p \notin EnIO /\ p < cantidadProcesos
<1>1. cantidadProcesos \in Nat /\ p \in Int BY DEF TypeOK, TiposPcb, Pids
<1>2. (LugaresDe(p) = 1 /\ p < cantidadProcesos) \/ LugaresDe(p) = 0
   BY DEF CadaPcbEnUnLugar
<1>3. LugaresDe(p) = 1 /\ EnNew(p) = 0 /\ EnReady(p) = 0 /\ EnExec(p) = 1
      /\ EnBlock(p) = 0 /\ EnExit(p) = 0
   <2>1. \A n, r, x, b, e \in Nat :
            /\ n + r + x + b + e \in {0, 1} /\ x # 0
            => n = 0 /\ r = 0 /\ x = 1 /\ b = 0 /\ e = 0 /\ n + r + x + b + e = 1
      OBVIOUS
   <2>2. /\ EnNew(p) \in Nat /\ EnReady(p) \in Nat /\ EnExec(p) \in Nat
         /\ EnBlock(p) \in Nat /\ EnExit(p) \in Nat
         /\ LugaresDe(p) = EnNew(p) + EnReady(p) + EnExec(p) + EnBlock(p) + EnExit(p)
      BY LugaresSuma
   <2>3. EnNew(p) + EnReady(p) + EnExec(p) + EnBlock(p) + EnExit(p) \in {0, 1}
      BY <1>2, <2>2
   <2>4. EnExec(p) # 0 OBVIOUS
   <2>5. EnNew(p) = 0 /\ EnReady(p) = 0 /\ EnExec(p) = 1 /\ EnBlock(p) = 0 /\ EnExit(p) = 0
         /\ EnNew(p) + EnReady(p) + EnExec(p) + EnBlock(p) + EnExit(p) = 1
      BY <2>1, <2>2, <2>3, <2>4
   <2> QED BY <2>2, <2>5
<1>4. Veces(p, listaBlock) \in Nat /\ VecesColas(p, colaBloqueados) \in Nat
   BY VecesNat, VecesColasNat DEF TypeOK, TiposListas
<1>5. p \notin EnIO BY <1>3, <1>4 DEF EnBlock, Cuenta
<1> QED BY <1>2, <1>3, <1>5

\* A new process enters New.
LEMMA MueveCrea ==
    ASSUME TypeOK, NEW q \in Pids, ConsolaCrea(q)
    PROVE  Mueve(q, 1, 0, 0, 0, 0)
<1>1. EnIO' = EnIO BY DEF ConsolaCrea, EnIO, En
<1>2. ASSUME NEW p PROVE EnNew(p)' = EnNew(p) + Cuenta(p = q)
   BY VecesAppend DEF EnNew, ConsolaCrea, TypeOK, TiposListas
<1>3. ASSUME NEW p PROVE /\ EnReady(p)' = EnReady(p) /\ EnExec(p)' = EnExec(p)
                         /\ EnBlock(p)' = EnBlock(p) /\ EnExit(p)' = EnExit(p)
   BY <1>1 DEF ConsolaCrea, EnReady, EnExec, EnBlock, EnExit
<1> QED BY <1>2, <1>3, LugaresSuma DEF Mueve, Cuenta

\* The head of colaNew is admitted.
LEMMA MueveAdmite ==
    ASSUME TypeOK, colaNew # <<>>, LpAdmite
    PROVE  Mueve(colaNew[1], -1, 1, 0, 0, 0)
<1> DEFINE q == colaNew[1]
<1>1. EnIO' = EnIO BY DEF LpAdmite, EnIO, En, Va, TypeOK, TiposHilos
<1>2. colaNew \in Seq(Pids) /\ listaReady \in Seq(Pids) BY DEF TypeOK, TiposListas
<1>3. q \in Pids /\ colaNew' = Tail(colaNew) /\ listaReady' = Append(listaReady, q)
   BY <1>2, VecesResto DEF LpAdmite
<1> HIDE DEF q
<1>4. ASSUME NEW p PROVE EnNew(p)' = EnNew(p) - Cuenta(p = q)
   BY <1>2, <1>3, VecesResto DEF EnNew, q
<1>5. ASSUME NEW p PROVE EnReady(p)' = EnReady(p) + Cuenta(p = q)
   BY <1>2, <1>3, VecesAppend DEF EnReady
<1>6. ASSUME NEW p PROVE /\ EnExec(p)' = EnExec(p) /\ EnBlock(p)' = EnBlock(p)
                         /\ EnExit(p)' = EnExit(p)
   BY <1>1 DEF LpAdmite, EnExec, EnBlock, EnExit
<1>7. Mueve(q, -1, 1, 0, 0, 0) BY <1>4, <1>5, <1>6, LugaresSuma DEF Mueve, Cuenta
<1> QED BY <1>7 DEF q

\* The head of listaExit is freed.
LEMMA MueveLibera ==
    ASSUME TypeOK, listaExit # <<>>, LpLibera
    PROVE  Mueve(listaExit[1], 0, 0, 0, 0, -1)
<1> DEFINE q == listaExit[1]
<1>1. EnIO' = EnIO BY DEF LpLibera, EnIO, En, Va, TypeOK, TiposHilos
<1>2. listaExit \in Seq(Pids) BY DEF TypeOK, TiposListas
<1>3. listaExit' = Tail(listaExit) BY <1>2, VecesResto DEF LpLibera
<1> HIDE DEF q
<1>4. ASSUME NEW p PROVE EnExit(p)' = EnExit(p) - Cuenta(p = q)
   BY <1>2, <1>3, VecesResto DEF EnExit, q
<1>5. ASSUME NEW p PROVE /\ EnNew(p)' = EnNew(p) /\ EnReady(p)' = EnReady(p)
                         /\ EnExec(p)' = EnExec(p) /\ EnBlock(p)' = EnBlock(p)
   BY <1>1 DEF LpLibera, EnNew, EnReady, EnExec, EnBlock
<1>6. Mueve(q, 0, 0, 0, 0, -1) BY <1>4, <1>5, LugaresSuma DEF Mueve, Cuenta
<1> QED BY <1>6 DEF q

\* A ready process is dispatched.
LEMMA MueveDespacha ==
    ASSUME TypeOK, CpDespacha
    PROVE  \E q \in Pids : EnReady(q) # 0 /\ Mueve(q, 0, -1, 1, 0, 0)
<1>1. EnIO' = EnIO BY DEF CpDespacha, EnIO, En, Va, TypeOK, TiposHilos
<1>2. listaReady \in Seq(Pids) /\ listaExec \in Seq(Pids) BY DEF TypeOK, TiposListas
<1>3. PICK i \in DOMAIN listaReady : /\ listaExec' = Append(listaExec, listaReady[i])
                                     /\ listaReady' = RemoveAt(listaReady, i)
   BY <1>2 DEF CpDespacha, Elegibles
<1> DEFINE q == listaReady[i]
<1>4. q \in Pids BY <1>2
<1>5. ASSUME NEW p PROVE EnReady(p)' = EnReady(p) - Cuenta(p = q)
   BY <1>2, <1>3, VecesRemoveAt DEF EnReady
<1>6. ASSUME NEW p PROVE EnExec(p)' = EnExec(p) + Cuenta(p = q)
   BY <1>2, <1>3, <1>4, VecesAppend DEF EnExec
<1>7. ASSUME NEW p PROVE /\ EnNew(p)' = EnNew(p) /\ EnBlock(p)' = EnBlock(p)
                         /\ EnExit(p)' = EnExit(p)
   BY <1>1 DEF CpDespacha, EnNew, EnBlock, EnExit
<1>8. EnReady(q) # 0
   <2>1. q \in ToSet(listaReady) BY DEF ToSet
   <2> QED BY <1>2, <2>1, VecesNat DEF EnReady
<1> HIDE DEF q
<1>9. Mueve(q, 0, -1, 1, 0, 0) BY <1>5, <1>6, <1>7, LugaresSuma DEF Mueve, Cuenta
<1> QED BY <1>4, <1>8, <1>9

\* The running process leaves Exec: what the three threads that take it out share.
LEMMA SaleDeExec ==
    ASSUME TypeOK, Len(listaExec) = 1, listaExec' = Resto(listaExec)
    PROVE  /\ Primero(listaExec) = listaExec[1] /\ listaExec[1] \in Pids
           /\ EnExec(listaExec[1]) # 0
           /\ \A p : EnExec(p)' = EnExec(p) - Cuenta(p = listaExec[1])
<1>1. listaExec \in Seq(Pids) /\ listaExec # <<>> BY UnElemento DEF TypeOK, TiposListas
<1>2. listaExec[1] \in Pids /\ listaExec[1] \in ToSet(listaExec) BY <1>1 DEF ToSet
<1>3. Veces(listaExec[1], listaExec) # 0 BY <1>1, <1>2, VecesNat
<1>4. ASSUME NEW p
      PROVE  /\ Primero(listaExec) = listaExec[1]
             /\ Veces(p, Resto(listaExec)) = Veces(p, listaExec) - Cuenta(p = listaExec[1])
   <2>1. PICK l \in Seq(Pids) : l = listaExec BY <1>1
   <2>2. /\ Primero(l) = l[1] /\ Resto(l) = Tail(l)
         /\ Veces(p, Tail(l)) = Veces(p, l) - Cuenta(p = l[1])
      BY <1>1, <2>1, VecesResto
   <2> QED BY <2>1, <2>2
<1> QED BY <1>2, <1>3, <1>4 DEF EnExec

\* The running process ends.
LEMMA MueveFinaliza ==
    ASSUME TypeOK, Len(listaExec) = 1, CpuFinaliza \/ MemSinMemoria
    PROVE  Mueve(listaExec[1], 0, 0, -1, 0, 1)
<1> DEFINE q == listaExec[1]
<1>1. EnIO' = EnIO
   BY DEF CpuFinaliza, Recibe, MemSinMemoria, FinalizarEmpieza, EnIO, En, Va, TypeOK, TiposHilos
<1>2. listaExec' = Resto(listaExec) /\ listaExit' = Append(listaExit, Primero(listaExec))
   BY DEF CpuFinaliza, MemSinMemoria, FinalizarEmpieza
<1>3. ASSUME NEW p PROVE EnExec(p)' = EnExec(p) - Cuenta(p = q)
   BY <1>2, SaleDeExec
<1>4. ASSUME NEW p PROVE EnExit(p)' = EnExit(p) + Cuenta(p = q)
   BY <1>2, SaleDeExec, VecesAppend DEF EnExit, TypeOK, TiposListas
<1>5. ASSUME NEW p PROVE /\ EnNew(p)' = EnNew(p) /\ EnReady(p)' = EnReady(p)
                         /\ EnBlock(p)' = EnBlock(p)
   BY <1>1 DEF CpuFinaliza, MemSinMemoria, FinalizarEmpieza, EnNew, EnReady, EnBlock
<1> HIDE DEF q
<1>6. Mueve(q, 0, 0, -1, 0, 1) BY <1>3, <1>4, <1>5, LugaresSuma DEF Mueve, Cuenta
<1> QED BY <1>6 DEF q

\* The running process gives up the CPU.
LEMMA MueveDesaloja ==
    ASSUME TypeOK, Len(listaExec) = 1, CpuYield
    PROVE  Mueve(listaExec[1], 0, 1, -1, 0, 0)
<1> DEFINE q == listaExec[1]
<1>1. EnIO' = EnIO BY DEF CpuYield, Recibe, EnIO, En, Va, TypeOK, TiposHilos
<1>2. listaExec' = Resto(listaExec) /\ listaReady' = Append(listaReady, Primero(listaExec))
   BY DEF CpuYield, SacaDeExec
<1>3. ASSUME NEW p PROVE EnExec(p)' = EnExec(p) - Cuenta(p = q)
   BY <1>2, SaleDeExec
<1>4. ASSUME NEW p PROVE EnReady(p)' = EnReady(p) + Cuenta(p = q)
   BY <1>2, SaleDeExec, VecesAppend DEF EnReady, TypeOK, TiposListas
<1>5. ASSUME NEW p PROVE /\ EnNew(p)' = EnNew(p) /\ EnExit(p)' = EnExit(p)
                         /\ EnBlock(p)' = EnBlock(p)
   BY <1>1 DEF CpuYield, EnNew, EnExit, EnBlock
<1> HIDE DEF q
<1>6. Mueve(q, 0, 1, -1, 0, 0) BY <1>3, <1>4, <1>5, LugaresSuma DEF Mueve, Cuenta
<1> QED BY <1>6 DEF q

\* The running process blocks: on a resource, on a file or in an I/O.
LEMMA MueveBloquea ==
    ASSUME TypeOK, CadaPcbEnUnLugar, Len(listaExec) = 1, CpuWaitBloquea \/ FsToma \/ CpuIO
    PROVE  Mueve(listaExec[1], 0, 0, -1, 1, 0)
<1> DEFINE q == listaExec[1]
<1>1. listaExec' = Resto(listaExec) BY DEF CpuWaitBloquea, FsToma, CpuIO, SacaDeExec
<1>2. ASSUME NEW p PROVE EnExec(p)' = EnExec(p) - Cuenta(p = q)
   BY <1>1, SaleDeExec
<1>3. q \in Pids /\ Primero(listaExec) = q /\ q \notin EnIO
   BY <1>1, SaleDeExec, SoloEnExec
<1>4. ASSUME NEW p PROVE /\ EnNew(p)' = EnNew(p) /\ EnExit(p)' = EnExit(p)
                         /\ EnReady(p)' = EnReady(p)
   BY DEF CpuWaitBloquea, FsToma, CpuIO, EnNew, EnExit, EnReady
<1>5. ASSUME NEW p PROVE /\ Veces(p, listaBlock) \in Nat /\ VecesColas(p, colaBloqueados) \in Nat
                         /\ Cuenta(p \in EnIO) \in Nat /\ Cuenta(p = q) \in Nat
   BY VecesNat, VecesColasNat DEF Cuenta, TypeOK, TiposListas
<1> HIDE DEF q
<1>6. ASSUME NEW p PROVE EnBlock(p)' = EnBlock(p) + Cuenta(p = q)
   <2>1. CASE CpuWaitBloquea
      <3>1. EnIO' = EnIO BY <2>1 DEF CpuWaitBloquea, Recibe, EnIO, En, Va, TypeOK, TiposHilos
      <3> DEFINE r == Argumento
      <3>2. colaBloqueados \in [Recursos -> Seq(Pids)] /\ r \in Recursos
         BY <2>1 DEF CpuWaitBloquea, TypeOK, TiposListas
      <3>3. colaBloqueados' = [colaBloqueados EXCEPT ![r] = Append(colaBloqueados[r], q)]
         BY <1>3, <2>1 DEF CpuWaitBloquea
      <3> HIDE DEF r
      <3>4. Append(colaBloqueados[r], q) \in Seq(Pids) BY <1>3, <3>2
      <3>5. Veces(p, Append(colaBloqueados[r], q)) = Veces(p, colaBloqueados[r]) + Cuenta(p = q)
         BY <1>3, <3>2, VecesAppend
      <3>6. Veces(p, colaBloqueados[r]) \in Nat BY <3>2, VecesNat
      <3>7. VecesColas(p, colaBloqueados') = VecesColas(p, colaBloqueados)
               + Veces(p, Append(colaBloqueados[r], q)) - Veces(p, colaBloqueados[r])
         BY <3>2, <3>3, <3>4, VecesColasCambia
      <3>8. VecesColas(p, colaBloqueados') = VecesColas(p, colaBloqueados) + Cuenta(p = q)
         BY <1>5, <3>5, <3>6, <3>7
      <3>9. listaBlock' = listaBlock BY <2>1 DEF CpuWaitBloquea
      <3> HIDE DEF Cuenta
      <3> QED BY <1>5, <3>1, <3>8, <3>9 DEF EnBlock
   <2>2. CASE FsToma
      <3>1. EnIO' = EnIO BY <2>2 DEF FsToma, EnIO, En, Va, TypeOK, TiposHilos
      <3>2. listaBlock' = Append(listaBlock, q) BY <1>3, <2>2 DEF FsToma
      <3>3. Veces(p, listaBlock') = Veces(p, listaBlock) + Cuenta(p = q)
         BY <1>3, <3>2, VecesAppend DEF TypeOK, TiposListas
      <3>4. colaBloqueados' = colaBloqueados BY <2>2 DEF FsToma
      <3> HIDE DEF Cuenta
      <3> QED BY <1>5, <3>1, <3>3, <3>4 DEF EnBlock
   <2>3. CASE CpuIO
      <3>1. /\ pc["CPU"] = "recibe" /\ pc'["CPU"] = "ioparam" /\ pcb'["CPU"] = q
            /\ io' = io /\ listaBlock' = listaBlock /\ colaBloqueados' = colaBloqueados
         BY <1>3, <2>3 DEF CpuIO, Recibe, SacaDeExec, En, Va, TypeOK, TiposHilos
      <3>2. EnIO' = EnIO \cup {q} BY <3>1 DEF EnIO, En
      <3>3. Cuenta(p \in EnIO)' = Cuenta(p \in EnIO) + Cuenta(p = q)
         BY <1>3, <3>2 DEF Cuenta
      <3> HIDE DEF Cuenta
      <3> QED BY <1>5, <3>1, <3>3 DEF EnBlock
   <2> QED BY <2>1, <2>2, <2>3
<1>7. Mueve(q, 0, 0, -1, 1, 0) BY <1>2, <1>4, <1>6, LugaresSuma DEF Mueve, Cuenta
<1> QED BY <1>7 DEF q

\* SIGNAL gives the resource to the head of its queue.
LEMMA MueveSenial ==
    ASSUME TypeOK, CpuSignalDespierta
    PROVE  \E q \in Pids : Mueve(q, 0, 1, 0, -1, 0)
<1> DEFINE r == Argumento
           q == colaBloqueados[r][1]
<1>1. EnIO' = EnIO BY DEF CpuSignalDespierta, Recibe, EnIO, En, Va, TypeOK, TiposHilos
<1>2. colaBloqueados \in [Recursos -> Seq(Pids)] /\ r \in Recursos
      /\ colaBloqueados[r] \in Seq(Pids) /\ colaBloqueados[r] # <<>>
   BY DEF CpuSignalDespierta, TypeOK, TiposListas
<1>3. Head(colaBloqueados[r]) = q /\ q \in Pids /\ Tail(colaBloqueados[r]) \in Seq(Pids)
   BY <1>2, VecesResto
<1>4. /\ colaBloqueados' = [colaBloqueados EXCEPT ![r] = Tail(colaBloqueados[r])]
      /\ listaReady' = Append(listaReady, q)
      /\ UNCHANGED <<colaNew, listaExec, listaBlock, listaExit>>
   BY <1>3 DEF CpuSignalDespierta
<1> HIDE DEF r
<1>5. ASSUME NEW p
      PROVE  VecesColas(p, colaBloqueados') = VecesColas(p, colaBloqueados) - Cuenta(p = q)
   <2>1. Veces(p, Tail(colaBloqueados[r])) = Veces(p, colaBloqueados[r]) - Cuenta(p = q)
      BY <1>2, VecesResto
   <2>2. Veces(p, colaBloqueados[r]) \in Nat BY <1>2, VecesNat
   <2>3. VecesColas(p, colaBloqueados') = VecesColas(p, colaBloqueados)
            + Veces(p, Tail(colaBloqueados[r])) - Veces(p, colaBloqueados[r])
      BY <1>2, <1>3, <1>4, VecesColasCambia
   <2>4. VecesColas(p, colaBloqueados) \in Nat /\ Cuenta(p = q) \in Nat
      BY VecesColasNat DEF Cuenta
   <2> QED BY <2>1, <2>2, <2>3, <2>4
<1> HIDE DEF q
<1>6. ASSUME NEW p PROVE EnReady(p)' = EnReady(p) + Cuenta(p = q)
   BY <1>3, <1>4, VecesAppend DEF EnReady, TypeOK, TiposListas
<1>7. ASSUME NEW p PROVE EnBlock(p)' = EnBlock(p) - Cuenta(p = q)
   <2>1. /\ Veces(p, listaBlock) \in Nat /\ VecesColas(p, colaBloqueados) \in Nat
         /\ Cuenta(p \in EnIO) \in Nat /\ Cuenta(p = q) \in Nat
      BY VecesNat, VecesColasNat DEF Cuenta, TypeOK, TiposListas
   <2> HIDE DEF Cuenta
   <2>2. Cuenta(p \in EnIO)' = Cuenta(p \in EnIO) /\ listaBlock' = listaBlock BY <1>1, <1>4
   <2> HIDE DEF Cuenta
   <2>3. EnBlock(p)' = Veces(p, listaBlock) + VecesColas(p, colaBloqueados') + Cuenta(p \in EnIO)
      BY <2>2 DEF EnBlock
   <2> QED BY <1>5, <2>1, <2>3 DEF EnBlock
<1>8. ASSUME NEW p PROVE EnNew(p)' = EnNew(p) /\ EnExec(p)' = EnExec(p) /\ EnExit(p)' = EnExit(p)
   BY <1>4 DEF EnNew, EnExec, EnExit
<1>9. Mueve(q, 0, 1, 0, -1, 0) BY <1>6, <1>7, <1>8, LugaresSuma DEF Mueve, Cuenta
<1> QED BY <1>3, <1>9

\* A handlerIO thread wakes its process up.
LEMMA MueveDespierta ==
    ASSUME TypeOK, PorDormir, NEW q \in Pids, IODespierta(q)
    PROVE  Mueve(q, 0, 1, 0, -1, 0)
<1>1. /\ io[q] = "duerme" /\ io' = [io EXCEPT ![q] = "no"] /\ io \in [Pids -> {"no", "arranca", "duerme"}]
      /\ UNCHANGED <<colaNew, listaExec, listaBlock, listaExit, colaBloqueados, pc, pcb>>
      /\ listaReady' = Append(listaReady, q)
   BY DEF IODespierta, TypeOK, TiposEfimeros
<1>2. EnIO' = EnIO \ {q} /\ q \in EnIO
   <2>1. q \in EnIO BY <1>1 DEF EnIO
   <2>2. ASSUME NEW x PROVE x \in EnIO' <=> x \in EnIO /\ x # q
      BY <1>1 DEF EnIO, En, PorDormir
   <2> QED BY <2>1, <2>2
<1>3. ASSUME NEW p PROVE Cuenta(p \in EnIO)' = Cuenta(p \in EnIO) - Cuenta(p = q)
   BY <1>2 DEF Cuenta
<1>4. ASSUME NEW p PROVE EnReady(p)' = EnReady(p) + Cuenta(p = q)
   BY <1>1, VecesAppend DEF EnReady, TypeOK, TiposListas
<1>5. ASSUME NEW p PROVE EnBlock(p)' = EnBlock(p) - Cuenta(p = q)
   <2>1. /\ Veces(p, listaBlock) \in Nat /\ VecesColas(p, colaBloqueados) \in Nat
         /\ Cuenta(p \in EnIO) \in Nat /\ Cuenta(p = q) \in Nat
      BY VecesNat, VecesColasNat DEF Cuenta, TypeOK, TiposListas
   <2> HIDE DEF Cuenta
   <2> QED BY <1>1, <1>3, <2>1 DEF EnBlock
<1>6. ASSUME NEW p PROVE EnNew(p)' = EnNew(p) /\ EnExec(p)' = EnExec(p) /\ EnExit(p)' = EnExit(p)
   BY <1>1 DEF EnNew, EnExec, EnExit
<1> QED BY <1>4, <1>5, <1>6, LugaresSuma DEF Mueve, Cuenta

\* The filesystem thread takes its process out of listaBlock.
LEMMA MueveDesbloquea ==
    ASSUME TypeOK, FsDesbloquea
    PROVE  \E q \in Pids : Mueve(q, 0, 1, 0, -1, 0)
<1> DEFINE q == pcb["FS"]
<1>1. EnIO' = EnIO BY DEF FsDesbloquea, EnIO, En, Va, TypeOK, TiposHilos
<1>2. listaBlock \in Seq(Pids) BY DEF TypeOK, TiposListas
<1>3. PICK i \in DOMAIN listaBlock : listaBlock[i] = q /\ listaBlock' = RemoveAt(listaBlock, i)
   BY DEF FsDesbloquea
<1>4. q \in Pids BY <1>2, <1>3
<1>5. UNCHANGED <<colaNew, listaExec, listaExit, colaBloqueados>>
      /\ listaReady' = Append(listaReady, q)
   BY DEF FsDesbloquea
<1> HIDE DEF q
<1>6. ASSUME NEW p PROVE EnReady(p)' = EnReady(p) + Cuenta(p = q)
   BY <1>4, <1>5, VecesAppend DEF EnReady, TypeOK, TiposListas
<1>7. ASSUME NEW p PROVE EnBlock(p)' = EnBlock(p) - Cuenta(p = q)
   <2>1. /\ Veces(p, listaBlock) \in Nat /\ VecesColas(p, colaBloqueados) \in Nat
         /\ Cuenta(p \in EnIO) \in Nat /\ Cuenta(p = q) \in Nat
      BY VecesNat, VecesColasNat DEF Cuenta, TypeOK, TiposListas
   <2>2. Veces(p, listaBlock') = Veces(p, listaBlock) - Cuenta(p = q)
      BY <1>2, <1>3, VecesRemoveAt
   <2> HIDE DEF Cuenta
   <2> QED BY <1>1, <1>5, <2>1, <2>2 DEF EnBlock
<1>8. ASSUME NEW p PROVE EnNew(p)' = EnNew(p) /\ EnExec(p)' = EnExec(p) /\ EnExit(p)' = EnExit(p)
   BY <1>5 DEF EnNew, EnExec, EnExit
<1>9. Mueve(q, 0, 1, 0, -1, 0) BY <1>6, <1>7, <1>8, LugaresSuma DEF Mueve, Cuenta
<1> QED BY <1>4, <1>9

\* Starting the handlerIO thread moves nobody: the process was already counted.
LEMMA QuietoIOParam ==
    ASSUME TypeOK, PorDormir, CpuIOParam
    PROVE  Quieto
<1>1. /\ pc["CPU"] = "ioparam" /\ pc'["CPU"] = "avisa" /\ pcb' = pcb /\ pcb["CPU"] \in Pids
      /\ io \in [Pids -> {"no", "arranca", "duerme"}]
      /\ io' = [io EXCEPT ![pcb["CPU"]] = "arranca"]
      /\ UNCHANGED <<colaNew, listaReady, listaExec, listaBlock, listaExit, colaBloqueados>>
   BY DEF CpuIOParam, PorDormir, En, Va, TypeOK, TiposHilos, TiposEfimeros
<1>2. EnIO' = EnIO
   <2>1. ASSUME NEW x PROVE x \in EnIO' <=> x \in EnIO BY <1>1 DEF EnIO, En
   <2> QED BY <2>1
<1>3. ASSUME NEW p PROVE /\ EnNew(p)' = EnNew(p) /\ EnReady(p)' = EnReady(p)
                         /\ EnExec(p)' = EnExec(p) /\ EnBlock(p)' = EnBlock(p)
                         /\ EnExit(p)' = EnExit(p)
   BY <1>1, <1>2 DEF EnNew, EnReady, EnExec, EnBlock, EnExit
<1> QED BY <1>3, LugaresSuma DEF Quieto, Mueve

-----------------------------------------------------------------------------
\* Every step moves at most one process, along one edge of the life cycle.
Movimiento ==
    \/ Quieto /\ UNCHANGED colaNew
    \/ \E q \in Pids : ConsolaCrea(q) /\ Mueve(q, 1, 0, 0, 0, 0)
    \/ LpAdmite /\ colaNew # <<>> /\ Mueve(colaNew[1], -1, 1, 0, 0, 0)
    \/ LpLibera /\ listaExit # <<>> /\ Mueve(listaExit[1], 0, 0, 0, 0, -1)
    \/ CpDespacha /\ \E q \in Pids : EnReady(q) # 0 /\ Mueve(q, 0, -1, 1, 0, 0)
    \/ CpuYield /\ Len(listaExec) = 1 /\ Mueve(listaExec[1], 0, 1, -1, 0, 0)
    \/ /\ CpuWaitBloquea \/ FsToma \/ CpuIO
       /\ Len(listaExec) = 1 /\ Mueve(listaExec[1], 0, 0, -1, 1, 0)
    \/ /\ CpuSignalDespierta \/ (\E p \in Pids : IODespierta(p)) \/ FsDesbloquea
       /\ \E q \in Pids : Mueve(q, 0, 1, 0, -1, 0)
    \/ /\ CpuFinaliza \/ MemSinMemoria
       /\ Len(listaExec) = 1 /\ Mueve(listaExec[1], 0, 0, -1, 0, 1)

LEMMA Movimientos ==
    ASSUME AInv, CadaPcbEnUnLugar, PorDormir, [Next]_vars
    PROVE  Movimiento
<1> USE DEF AInv, IInv
<1>len. /\ CpuTiene \/ MemAtiende \/ libre["MENSAJEAFILESYSTEM"] => Len(listaExec) = 1
        /\ pc["LP"] = "pcbready" => colaNew # <<>>
        /\ pc["LP"] = "listaexit" => listaExit # <<>>
   <2>1. CpuTiene \/ MemAtiende \/ libre["MENSAJEAFILESYSTEM"] => Len(listaExec) = 1
      BY DEF UnDuenio, MemTiene
   <2>2. ASSUME pc["LP"] = "pcbready" PROVE colaNew # <<>>
      <3>1. Len(colaNew) # 0
         BY <2>2, AvisanFinitas DEF AvisosDeAlta, Admitiendo, Cuenta
      <3> QED BY <3>1
   <2>3. ASSUME pc["LP"] = "listaexit" PROVE listaExit # <<>>
      <3>1. Len(listaExit) # 0 BY <2>3 DEF ExitContada, Cuenta
      <3> QED BY <3>1
   <2> QED BY <2>1, <2>2, <2>3
<1>1. ASSUME NEW p \in Pids, ConsolaCrea(p) PROVE Movimiento
   BY <1>1, MueveCrea DEF Movimiento
<1>2. ASSUME NEW p \in Pids, Consola(p) \/ IOLee(p) PROVE Movimiento
   <2>1. CASE Consola(p)
      <3>1. Quieto BY <2>1, QuietoSi DEF Consola, ConsolaAvisa, ConsolaFin
      <3> QED BY <2>1, <3>1 DEF Movimiento, Consola, ConsolaAvisa, ConsolaFin
   <2>2. CASE IOLee(p)
      <3>1. EnIO' = EnIO
         <4>1. io[p] # "no" /\ io' = [io EXCEPT ![p] = "duerme"] /\ UNCHANGED <<pc, pcb>>
               /\ io \in [Pids -> {"no", "arranca", "duerme"}]
            BY <2>2 DEF IOLee, TypeOK, TiposEfimeros
         <4>2. ASSUME NEW x PROVE x \in EnIO' <=> x \in EnIO BY <4>1 DEF EnIO, En
         <4> QED BY <4>2
      <3>2. UNCHANGED <<colaNew, listaReady, listaExec, listaBlock, listaExit, colaBloqueados>>
         BY <2>2 DEF IOLee
      <3>3. Quieto
         BY <3>1, <3>2, LugaresSuma DEF Quieto, Mueve, EnNew, EnReady, EnExec, EnBlock, EnExit
      <3> QED BY <3>2, <3>3 DEF Movimiento
   <2> QED BY <1>2, <2>1, <2>2
<1>3. ASSUME NEW p \in Pids, IODespierta(p) PROVE Movimiento
   BY <1>3, MueveDespierta DEF Movimiento
<1>4. CASE IOAvisa \/ Terminado \/ UNCHANGED vars \/ Filesystem
   <2>1. Quieto BY <1>4, QuietoSi DEF IOAvisa, Terminado, vars, Filesystem
   <2> QED BY <1>4, <2>1 DEF Movimiento, IOAvisa, Terminado, vars, Filesystem
<1>5. CASE LargoPlazo
   <2>1. CASE LpAdmite BY <1>len, <2>1, MueveAdmite DEF Movimiento, LpAdmite, En
   <2>2. CASE LpLibera BY <1>len, <2>2, MueveLibera DEF Movimiento, LpLibera, En
   <2>3. CASE ~LpAdmite /\ ~LpLibera
      <3>1. UNCHANGED <<listas, recursos, efimeros, pcb>> /\ pc'["CPU"] = pc["CPU"]
         BY <1>5, <2>3 DEF LargoPlazo, LpToma, LpReady, LpFinalized, LpGrado, LpPideMemoria, LpLock,
                           LpAvisa, Va, TypeOK, TiposHilos
      <3>2. Quieto BY <3>1, QuietoSi
      <3> QED BY <3>1, <3>2 DEF Movimiento
   <2> QED BY <2>1, <2>2, <2>3
<1>6. CASE CortoPlazo
   <2>1. CASE CpDespacha BY <2>1, MueveDespacha DEF Movimiento
   <2>2. CASE CpToma \/ CpNada
      <3>1. UNCHANGED <<listas, recursos, efimeros, pcb>> /\ pc'["CPU"] = pc["CPU"]
         BY <2>2 DEF CpToma, CpNada, Va, TypeOK, TiposHilos
      <3>2. Quieto BY <3>1, QuietoSi
      <3> QED BY <3>1, <3>2 DEF Movimiento
   <2> QED BY <1>6, <2>1, <2>2 DEF CortoPlazo
<1>7. CASE HiloDeCPU
   <2>1. CASE CpuFinaliza
      BY <1>len, <2>1, MueveFinaliza DEF Movimiento, CpuFinaliza, Recibe, En, CpuTiene
   <2>2. CASE CpuWaitBloquea \/ CpuIO
      BY <1>len, <2>2, MueveBloquea DEF Movimiento, CpuWaitBloquea, CpuIO, Recibe, En, CpuTiene
   <2>3. CASE CpuYield
      BY <1>len, <2>3, MueveDesaloja DEF Movimiento, CpuYield, Recibe, En, CpuTiene
   <2>4. CASE CpuSignalDespierta BY <2>4, MueveSenial DEF Movimiento
   <2>5. CASE CpuIOParam
      <3>1. Quieto BY <2>5, QuietoIOParam
      <3> QED BY <2>5, <3>1 DEF Movimiento, CpuIOParam
   <2>6. CASE CpuEnvia \/ CpuWaitOtorga \/ CpuSignalSinDespertar \/ CpuSegmento
      <3>1. /\ UNCHANGED <<listas, colaBloqueados, io>>
            /\ pc["CPU"] # "ioparam" /\ pc'["CPU"] # "ioparam"
         BY <2>6 DEF CpuEnvia, CpuWaitOtorga, CpuSignalSinDespertar, CpuSegmento, Recibe, Va, En,
                     TypeOK, TiposHilos
      <3>2. Quieto BY <3>1, QuietoSi
      <3> QED BY <3>1, <3>2 DEF Movimiento
   <2>7. CASE CpuPideMemoria \/ CpuArchivo \/ CpuAvisa
              \/ FinalizarAvisaConsola("CPU") \/ FinalizarAvisaPlanificador("CPU", "espera")
      <3>1. /\ UNCHANGED <<listas, colaBloqueados, io>>
            /\ pc["CPU"] # "ioparam" /\ pc'["CPU"] # "ioparam"
         BY <2>7 DEF CpuPideMemoria, CpuArchivo, CpuAvisa, FinalizarAvisaConsola,
                     FinalizarAvisaPlanificador, Recibe, Va, En, TypeOK, TiposHilos
      <3>2. Quieto BY <3>1, QuietoSi
      <3> QED BY <3>1, <3>2 DEF Movimiento
   <2> QED BY <1>7, <2>1, <2>2, <2>3, <2>4, <2>5, <2>6, <2>7 DEF HiloDeCPU
<1>8. CASE HiloDeMemoria
   <2>1. CASE MemSinMemoria
      BY <1>len, <2>1, MueveFinaliza DEF Movimiento, MemSinMemoria, En, MemAtiende
   <2>2. CASE ~MemSinMemoria
      <3>1. UNCHANGED <<listas, colaBloqueados, io>> /\ pc'["CPU"] = pc["CPU"]
            /\ pcb'["CPU"] = pcb["CPU"]
         BY <1>8, <2>2 DEF HiloDeMemoria, MemToma, MemIniciar, MemSuelta, MemSegmentoOK, MemCompactar,
                  MemConsultaFS, MemCompacta, MemActualiza, MemFin, MemConfirma,
                  FinalizarAvisaConsola, FinalizarAvisaPlanificador, Va, TypeOK, TiposHilos
      <3>2. Quieto BY <3>1, QuietoSi
      <3> QED BY <3>1, <3>2 DEF Movimiento
   <2> QED BY <2>1, <2>2
<1>9. CASE HiloDeFileSystem
   <2>1. CASE FsToma BY <1>len, <2>1, MueveBloquea DEF Movimiento, FsToma, Toma
   <2>2. CASE FsDesbloquea BY <2>2, MueveDesbloquea DEF Movimiento
   <2>3. CASE FsEnvia \/ FsAvisa("avisa_bloqueo", "recibe") \/ FsAvisa("avisa_listo", "espera")
      <3>1. UNCHANGED <<listas, colaBloqueados, io, pcb>> /\ pc'["CPU"] = pc["CPU"]
         BY <2>3 DEF FsEnvia, FsAvisa, Va, TypeOK, TiposHilos
      <3>2. Quieto BY <3>1, QuietoSi
      <3> QED BY <3>1, <3>2 DEF Movimiento
   <2> QED BY <1>9, <2>1, <2>2, <2>3 DEF HiloDeFileSystem
<1> QED BY <1>1, <1>2, <1>3, <1>4, <1>5, <1>6, <1>7, <1>8, <1>9 DEF Next, IO

-----------------------------------------------------------------------------
(* The processes in transit between two threads. *)

\* the console of p was told, or is about to be, that p ended
Avisado(p) == consola[p] = "fin" \/ semaforo[p]

\* ... after the step
YaAvisado(p) == consola'[p] = "fin" \/ semaforo'[p]

\* Memoria is asked for a table for the head of colaNew, and answers it before
\* the long-term scheduler admits that head.
AltaDeLaCabeza ==
    /\ pc["MEM"] = "iniciar" => pcb["MEM"] = colaNew[1]
    /\ \/ pc["LP"] \in {"pcbnew", "pcbready"}
       \/ pc["LP"] = "tabla" /\ libre["TABLASEGMENTOS"]
       => colaNew[1] \in memoria /\ tabla[colaNew[1]] >= 0

\* Whoever is in listaExit has its console notified, or is the process a
\* thread in finalizarPcb is about to notify; the head is notified before its
\* table is dropped.
ExitNotificados ==
    /\ EnFin("CPU") => ~MemTiene /\ pcb["CPU"] = listaExit[Len(listaExit)]
    /\ \A i \in 1 .. Len(listaExit) :
          \/ Avisado(listaExit[i])
          \/ pc["CPU"] = "fin_avisar_consola" /\ i = Len(listaExit)
          \/ pc["MEM"] = "fin_avisar_consola" /\ pcb["MEM"] = listaExit[i]
    /\ pc["LP"] \in {"sync_2", "listaexit"} => Avisado(listaExit[1])

\* A process about to be admitted, or finished, exists.
LEMMA ColasNoVacias ==
    ASSUME IInv, ExitContada
    PROVE  /\ Admitiendo => colaNew # <<>> /\ colaNew[1] \in Pids /\ Primero(colaNew) = colaNew[1]
           /\ EnFin("CPU") \/ EnFin("MEM") \/ pc["LP"] \in {"sync_1", "fin", "sync_2", "listaexit"}
                 => listaExit # <<>>
           /\ EnFin("CPU") /\ pc["LP"] \in {"sync_1", "fin", "sync_2", "listaexit"}
                 => Len(listaExit) >= 2
<1>1. ASSUME Admitiendo PROVE colaNew # <<>>
   <2>1. Len(colaNew) # 0 BY <1>1, AvisanFinitas DEF IInv, AvisosDeAlta, Cuenta
   <2> QED BY <2>1
<1>2. colaNew \in Seq(Pids) BY DEF IInv, TypeOK, TiposListas
<1>3. ASSUME EnFin("CPU") \/ EnFin("MEM") \/ pc["LP"] \in {"sync_1", "fin", "sync_2", "listaexit"}
      PROVE  listaExit # <<>>
   <2>1. Len(listaExit) # 0 BY <1>3 DEF ExitContada, Cuenta
   <2> QED BY <2>1
<1>4. ASSUME EnFin("CPU"), pc["LP"] \in {"sync_1", "fin", "sync_2", "listaexit"}
      PROVE  Len(listaExit) >= 2
   BY <1>4 DEF ExitContada, Cuenta
<1>5. colaNew # <<>> => colaNew[1] \in Pids /\ Primero(colaNew) = colaNew[1]
   BY <1>2, PrimeroYResto
<1> QED BY <1>1, <1>3, <1>4, <1>5

\* Being notified lasts.
LEMMA AvisadoQueda ==
    ASSUME TypeOK, [Next]_vars, NEW p \in Pids, Avisado(p)
    PROVE  Avisado(p)'
<1> USE DEF Avisado
<1>1. ASSUME NEW q \in Pids, ConsolaCrea(q) \/ Consola(q) \/ IO(q) PROVE Avisado(p)'
   BY <1>1 DEF ConsolaCrea, Consola, ConsolaAvisa, ConsolaFin, IO, IOLee, IODespierta,
               TypeOK, TiposEfimeros
<1>2. CASE IOAvisa \/ CortoPlazo \/ HiloDeFileSystem \/ Filesystem \/ Terminado \/ UNCHANGED vars
   BY <1>2 DEF IOAvisa, CortoPlazo, CpToma, CpDespacha, CpNada, HiloDeFileSystem, FsToma, FsEnvia,
               FsDesbloquea, FsAvisa, Filesystem, Terminado, vars
<1>3. CASE LargoPlazo
   BY <1>3 DEF LargoPlazo, LpToma, LpReady, LpFinalized, LpGrado, LpPideMemoria, LpLock, LpAdmite,
               LpLibera, LpAvisa
<1>4. CASE HiloDeCPU
   BY <1>4 DEF HiloDeCPU, CpuEnvia, CpuFinaliza, CpuWaitBloquea, CpuWaitOtorga, CpuSignalDespierta,
               CpuSignalSinDespertar, CpuIO, CpuIOParam, CpuYield, CpuSegmento, CpuPideMemoria,
               CpuArchivo, CpuAvisa, FinalizarAvisaConsola, FinalizarAvisaPlanificador,
               TypeOK, TiposEfimeros
<1>5. CASE HiloDeMemoria
   BY <1>5 DEF HiloDeMemoria, MemToma, MemIniciar, MemSuelta, MemSegmentoOK, MemSinMemoria,
               MemCompactar, MemConsultaFS, MemCompacta, MemActualiza, MemFin, MemConfirma,
               FinalizarAvisaConsola, FinalizarAvisaPlanificador, TypeOK, TiposEfimeros
<1> QED BY <1>1, <1>2, <1>3, <1>4, <1>5 DEF Next

\* Only MemIniciar gives a table to a process, and only MemConfirma takes it.
LEMMA CambiosDeMemoria ==
    ASSUME [Next]_vars
    PROVE  /\ memoria' = memoria \/ MemIniciar \/ MemConfirma
           /\ listaExit' = listaExit \/ CpuFinaliza \/ MemSinMemoria \/ LpLibera
           /\ colaNew' = colaNew \/ LpAdmite \/ \E p \in Pids : ConsolaCrea(p)
           /\ cantidadProcesos' = cantidadProcesos \/ \E p \in Pids : ConsolaCrea(p)
<1>1. ASSUME NEW q \in Pids, ConsolaCrea(q) \/ Consola(q) \/ IO(q)
      PROVE  /\ UNCHANGED <<memoria, listaExit>>
             /\ ConsolaCrea(q) \/ UNCHANGED <<colaNew, cantidadProcesos>>
   BY <1>1 DEF ConsolaCrea, Consola, ConsolaAvisa, ConsolaFin, IO, IOLee, IODespierta
<1>2. CASE IOAvisa \/ CortoPlazo \/ HiloDeFileSystem \/ Filesystem \/ Terminado \/ UNCHANGED vars
   BY <1>2 DEF IOAvisa, CortoPlazo, CpToma, CpDespacha, CpNada, HiloDeFileSystem, FsToma, FsEnvia,
               FsDesbloquea, FsAvisa, Filesystem, Terminado, vars
<1>3. CASE LargoPlazo
   BY <1>3 DEF LargoPlazo, LpToma, LpReady, LpFinalized, LpGrado, LpPideMemoria, LpLock, LpAdmite,
               LpLibera, LpAvisa
<1>4. CASE HiloDeCPU
   BY <1>4 DEF HiloDeCPU, CpuEnvia, CpuFinaliza, CpuWaitBloquea, CpuWaitOtorga, CpuSignalDespierta,
               CpuSignalSinDespertar, CpuIO, CpuIOParam, CpuYield, CpuSegmento, CpuPideMemoria,
               CpuArchivo, CpuAvisa, FinalizarAvisaConsola, FinalizarAvisaPlanificador,
               FinalizarEmpieza, SacaDeExec
<1>5. CASE HiloDeMemoria
   BY <1>5 DEF HiloDeMemoria, MemToma, MemIniciar, MemSuelta, MemSegmentoOK, MemSinMemoria,
               MemCompactar, MemConsultaFS, MemCompacta, MemActualiza, MemFin, MemConfirma,
               FinalizarAvisaConsola, FinalizarAvisaPlanificador, FinalizarEmpieza
<1> QED BY <1>1, <1>2, <1>3, <1>4, <1>5 DEF Next

\* The CPU thread starts an I/O for a process that is in none.
LEMMA PasoPorDormir ==
    ASSUME AInv, CadaPcbEnUnLugar, PorDormir, [Next]_vars
    PROVE  PorDormir'
<1> USE DEF AInv, IInv, PorDormir
<1>1. ASSUME NEW p \in Pids, ConsolaCrea(p) \/ Consola(p) PROVE PorDormir'
   BY <1>1 DEF ConsolaCrea, Consola, ConsolaAvisa, ConsolaFin
<1>2. ASSUME NEW p \in Pids, IO(p) PROVE PorDormir'
   BY <1>2 DEF IO, IOLee, IODespierta, TypeOK, TiposEfimeros
<1>3. CASE IOAvisa \/ CortoPlazo \/ HiloDeFileSystem \/ Filesystem \/ Terminado \/ UNCHANGED vars
   BY <1>3 DEF IOAvisa, CortoPlazo, CpToma, CpDespacha, CpNada, HiloDeFileSystem, FsToma, FsEnvia,
               FsDesbloquea, FsAvisa, Filesystem, Terminado, vars, Va, TypeOK, TiposHilos
<1>4. CASE LargoPlazo
   BY <1>4 DEF LargoPlazo, LpToma, LpReady, LpFinalized, LpGrado, LpPideMemoria, LpLock, LpAdmite,
               LpLibera, LpAvisa, Va, TypeOK, TiposHilos
<1>5. CASE HiloDeCPU
   <2>1. CASE CpuIO
      <3>1. Len(listaExec) = 1 /\ listaExec' = Resto(listaExec)
         BY <2>1 DEF CpuIO, Recibe, En, UnDuenio, CpuTiene, SacaDeExec
      <3>2. /\ Primero(listaExec) = listaExec[1] /\ listaExec[1] \in Pids
            /\ EnExec(listaExec[1]) # 0
         BY <3>1, SaleDeExec
      <3>3. listaExec[1] \notin EnIO BY <3>2, SoloEnExec
      <3>4. io[listaExec[1]] = "no" BY <3>2, <3>3 DEF EnIO
      <3> QED BY <2>1, <3>2, <3>4 DEF CpuIO, SacaDeExec, TypeOK, TiposHilos
   <2>2. CASE CpuEnvia \/ CpuFinaliza \/ CpuWaitBloquea \/ CpuWaitOtorga \/ CpuSignalDespierta
              \/ CpuSignalSinDespertar \/ CpuIOParam \/ CpuYield
      BY <2>2 DEF CpuEnvia, CpuFinaliza, CpuWaitBloquea, CpuWaitOtorga, CpuSignalDespierta,
                  CpuSignalSinDespertar, CpuIOParam, CpuYield, FinalizarEmpieza, Va, TypeOK, TiposHilos
   <2>3. CASE CpuSegmento \/ CpuPideMemoria \/ CpuArchivo \/ CpuAvisa
              \/ FinalizarAvisaConsola("CPU") \/ FinalizarAvisaPlanificador("CPU", "espera")
      BY <2>3 DEF CpuSegmento, CpuPideMemoria, CpuArchivo, CpuAvisa, FinalizarAvisaConsola,
                  FinalizarAvisaPlanificador, Va, TypeOK, TiposHilos
   <2> QED BY <1>5, <2>1, <2>2, <2>3 DEF HiloDeCPU
<1>6. CASE HiloDeMemoria
   BY <1>6 DEF HiloDeMemoria, MemToma, MemIniciar, MemSuelta, MemSegmentoOK, MemSinMemoria,
               MemCompactar, MemConsultaFS, MemCompacta, MemActualiza, MemFin, MemConfirma,
               FinalizarAvisaConsola, FinalizarAvisaPlanificador, FinalizarEmpieza, Va,
               TypeOK, TiposHilos
<1> QED BY <1>1, <1>2, <1>3, <1>4, <1>5, <1>6 DEF Next

\* A segment table, once obtained, is never the empty one again.
LEMMA TablaQueda ==
    ASSUME TypeOK, [Next]_vars, NEW p \in Pids, tabla[p] >= 0
    PROVE  tabla'[p] >= 0
<1>1. CASE tabla' = tabla BY <1>1
<1>2. CASE MemIniciar \/ MemSegmentoOK
   <2>1. PICK x : tabla' = [tabla EXCEPT ![x] = epoca] BY <1>2 DEF MemIniciar, MemSegmentoOK
   <2>2. tabla \in [Pids -> Int] /\ epoca \in Nat BY DEF TypeOK, TiposPcb, TiposExternos
   <2>3. tabla'[p] = IF p = x THEN epoca ELSE tabla[p] BY <2>1, <2>2
   <2> QED BY <2>2, <2>3
<1>3. ASSUME NEW l, ActualizarListaPcb(l) PROVE tabla'[p] >= 0
   BY <1>3 DEF ActualizarListaPcb, TypeOK, TiposPcb, TiposExternos
<1>4. ASSUME ~(tabla' = tabla), ~MemIniciar, ~MemSegmentoOK PROVE \E l : ActualizarListaPcb(l)
   <2>1. ASSUME NEW q \in Pids, ConsolaCrea(q) \/ Consola(q) \/ IO(q) PROVE tabla' = tabla
      BY <2>1 DEF ConsolaCrea, Consola, ConsolaAvisa, ConsolaFin, IO, IOLee, IODespierta
   <2>2. ASSUME IOAvisa \/ CortoPlazo \/ HiloDeFileSystem \/ Filesystem \/ Terminado \/ UNCHANGED vars
         PROVE  tabla' = tabla
      BY <2>2 DEF IOAvisa, CortoPlazo, CpToma, CpDespacha, CpNada, HiloDeFileSystem, FsToma, FsEnvia,
                  FsDesbloquea, FsAvisa, Filesystem, Terminado, vars
   <2>3. ASSUME LargoPlazo PROVE tabla' = tabla
      BY <2>3 DEF LargoPlazo, LpToma, LpReady, LpFinalized, LpGrado, LpPideMemoria, LpLock,
                  LpAdmite, LpLibera, LpAvisa
   <2>4. ASSUME HiloDeCPU PROVE tabla' = tabla
      BY <2>4 DEF HiloDeCPU, CpuEnvia, CpuFinaliza, CpuWaitBloquea, CpuWaitOtorga,
                  CpuSignalDespierta, CpuSignalSinDespertar, CpuIO, CpuIOParam, CpuYield, CpuSegmento,
                  CpuPideMemoria, CpuArchivo, CpuAvisa, FinalizarAvisaConsola,
                  FinalizarAvisaPlanificador
   <2>5. CASE HiloDeMemoria
      BY <1>4, <2>5 DEF HiloDeMemoria, MemToma, MemSuelta, MemSinMemoria, MemCompactar,
                  MemConsultaFS, MemCompacta, MemActualiza, MemFin, MemConfirma,
                  FinalizarAvisaConsola, FinalizarAvisaPlanificador
   <2> QED BY <1>4, <2>1, <2>2, <2>3, <2>4, <2>5 DEF Next
<1> QED BY <1>1, <1>2, <1>3, <1>4

\* The table Memoria creates is that of the process that is admitted.
LEMMA PasoAltaDeLaCabeza ==
    ASSUME AInv, AltaDeLaCabeza, [Next]_vars
    PROVE  AltaDeLaCabeza'
<1> USE DEF AInv, IInv, AltaDeLaCabeza
<1>1. /\ pc["MEM"] = "iniciar" => pc["LP"] = "tabla"
      /\ pc["LP"] \in {"tabla", "pcbnew", "pcbready"} =>
            colaNew # <<>> /\ colaNew[1] \in Pids /\ Primero(colaNew) = colaNew[1]
      /\ colaNew \in Seq(Pids)
   BY ColasNoVacias DEF Citas, PideAlta, Admitiendo, TypeOK, TiposListas
<1>2. pc["LP"] \in {"tabla", "pcbnew", "pcbready"} /\ tabla[colaNew[1]] >= 0
         => tabla'[colaNew[1]] >= 0
   BY <1>1, TablaQueda
<1>3. ASSUME NEW p \in Pids, ConsolaCrea(p) PROVE AltaDeLaCabeza'
   <2>1. colaNew # <<>> => Append(colaNew, p)[1] = colaNew[1] BY <1>1
   <2> QED BY <1>1, <1>3, <2>1 DEF ConsolaCrea
<1>4. ASSUME \/ \E p \in Pids : Consola(p) \/ IO(p)
             \/ IOAvisa \/ CortoPlazo \/ HiloDeFileSystem \/ Filesystem \/ Terminado
             \/ UNCHANGED vars
      PROVE  AltaDeLaCabeza'
   <2>1. colaNew' = colaNew
      BY <1>4 DEF Consola, ConsolaAvisa, ConsolaFin, IO, IOLee, IODespierta, IOAvisa, CortoPlazo,
                  CpToma, CpDespacha, CpNada, HiloDeFileSystem, FsToma, FsEnvia, FsDesbloquea, FsAvisa,
                  Filesystem, Terminado, vars
   <2> QED BY <1>2, <1>4, <2>1, AjenoALasCitas
<1>5. CASE HiloDeCPU
   <2>1. colaNew' = colaNew
      BY <1>5, CambiosDeMemoria DEF HiloDeCPU, CpuEnvia, CpuFinaliza, CpuWaitBloquea, CpuWaitOtorga,
                  CpuSignalDespierta, CpuSignalSinDespertar, CpuIO, CpuIOParam, CpuYield, CpuSegmento,
                  CpuPideMemoria, CpuArchivo, CpuAvisa, FinalizarAvisaConsola,
                  FinalizarAvisaPlanificador, FinalizarEmpieza, SacaDeExec
   <2>2. CASE CpuPideMemoria
      BY <1>2, <2>1, <2>2 DEF CpuPideMemoria, TomaYSuelta, Va, TypeOK, TiposMutex, TiposHilos
   <2>3. CASE ~CpuPideMemoria
      BY <1>2, <1>5, <2>1, <2>3, LaCPUEnLasCitas
   <2> QED BY <2>2, <2>3
<1>6. CASE LargoPlazo
   <2>1. CASE LpToma \/ LpGrado
      BY <1>1, <1>2, <2>1 DEF LpToma, LpGrado, Toma, Va, En, TypeOK, TiposMutex, TiposHilos
   <2>2. CASE LpPideMemoria("iniciar", "REQ_INICIAR_PROCESO", "tabla")
              \/ LpPideMemoria("fin", "REQ_FIN_PROCESO", "sync_2")
      BY <1>1, <1>2, <2>2
         DEF LpPideMemoria, TomaYSuelta, Va, En, Citas, TypeOK, TiposMutex, TiposHilos
   <2>3. CASE LpLock("tabla", "TABLASEGMENTOS", "pcbnew") \/ LpLock("pcbnew", "PCBNEW", "pcbready")
      BY <1>1, <1>2, <2>3 DEF LpLock, Toma, Va, En, TypeOK, TiposMutex, TiposHilos
   <2>4. CASE LpLock("sync_1", "SYNC_FIN", "fin") \/ LpLock("sync_2", "SYNC_FIN", "listaexit")
      BY <1>1, <1>2, <2>4 DEF LpLock, Toma, Va, En, TypeOK, TiposMutex, TiposHilos
   <2>5. CASE LpAdmite \/ LpLibera
      BY <1>1, <2>5 DEF LpAdmite, LpLibera, TomaYSuelta, Va, En, TypeOK, TiposMutex, TiposHilos
   <2>6. CASE LpAvisa("avisa", {}) \/ LpAvisa("avisa_fin", {"SYNC_FIN"})
      BY <1>1, <2>6 DEF LpAvisa, TomaYSuelta, Va, En, TypeOK, TiposMutex, TiposHilos
   <2> QED BY <1>6, <2>1, <2>2, <2>3, <2>4, <2>5, <2>6 DEF LargoPlazo, LpReady, LpFinalized
<1>7. CASE HiloDeMemoria
   <2>1. CASE MemToma
      <3>1. pc'["MEM"] = "iniciar" => pc["LP"] = "tabla"
         BY <2>1 DEF MemToma, Toma, Va, Citas, PideAlta, TypeOK, TiposMutex, TiposHilos
      <3> QED
         BY <1>1, <1>2, <2>1, <3>1
            DEF MemToma, Toma, Va, En, TypeOK, TiposMutex, TiposHilos
   <2>2. CASE MemIniciar
      <3>1. /\ colaNew' = colaNew /\ colaNew[1] \in memoria' /\ tabla'[colaNew[1]] >= 0
            /\ pc'["MEM"] = "pcbready"
         BY <1>1, <2>2 DEF MemIniciar, Va, En, TypeOK, TiposHilos, TiposPcb, TiposExternos
      <3> QED BY <3>1
   <2>3. CASE MemSegmentoOK \/ MemSinMemoria
      BY <1>1, <1>2, <2>3
         DEF MemSegmentoOK, MemSinMemoria, FinalizarEmpieza, Suelta, Va, En, TypeOK, TiposMutex,
             TiposHilos
   <2>4. CASE MemSuelta("pcbready", "PCBREADY", "libera")
              \/ MemSuelta("libera", "CONEXIONMEMORIA", "espera") \/ MemCompactar
      BY <1>1, <1>2, <2>4 DEF MemSuelta, MemCompactar, MemConsultaFS, MemCompacta, MemActualiza,
                  Suelta, Va, En, TypeOK, TiposMutex, TiposHilos
   <2>5. CASE MemFin
      BY <1>1, <1>2, <2>5 DEF MemFin, Toma, Va, En, TypeOK, TiposMutex, TiposHilos
   <2>6. CASE MemConfirma
      BY <1>1, <2>6 DEF MemConfirma, Suelta, Va, En, Citas, PideFin, TypeOK, TiposMutex, TiposHilos
   <2>7. CASE FinalizarAvisaConsola("MEM") \/ FinalizarAvisaPlanificador("MEM", "libera")
      BY <1>1, <1>2, <2>7 DEF FinalizarAvisaConsola, FinalizarAvisaPlanificador, Toma, TomaYSuelta,
                  Va, En, TypeOK, TiposMutex, TiposHilos
   <2> QED BY <1>7, <2>1, <2>2, <2>3, <2>4, <2>5, <2>6, <2>7 DEF HiloDeMemoria
<1> QED BY <1>3, <1>4, <1>5, <1>6, <1>7 DEF Next

\* A list one element longer keeps its elements, and one without its head
\* keeps the others.
LEMMA Indices ==
    ASSUME NEW S, NEW l \in Seq(S), NEW x \in S
    PROVE  /\ Len(Append(l, x)) = Len(l) + 1 /\ Append(l, x)[Len(l) + 1] = x
           /\ \A i \in 1 .. Len(l) : Append(l, x)[i] = l[i]
           /\ l # <<>> => /\ Len(Resto(l)) = Len(l) - 1 /\ Len(l) >= 1
                          /\ \A i \in 1 .. Len(l) - 1 : Resto(l)[i] = l[i + 1] /\ i + 1 \in 1 .. Len(l)
BY DEF Resto

\* Whoever is freed was notified.
LEMMA PasoExitNotificados ==
    ASSUME AInv, ExitNotificados, [Next]_vars
    PROVE  ExitNotificados'
<1> USE DEF AInv, IInv, EnFin
<1> DEFINE n == Len(listaExit)
<1>1. listaExit \in Seq(Pids) /\ n \in Nat
      /\ \A i \in 1 .. n : listaExit[i] \in Pids
      /\ semaforo \in [Pids -> BOOLEAN]
   BY DEF TypeOK, TiposListas, TiposEfimeros
<1>2. \A p \in Pids : Avisado(p) => YaAvisado(p) BY AvisadoQueda DEF Avisado, YaAvisado
<1>3. /\ EnFin("CPU") => n >= 1
      /\ pc["LP"] \in {"sync_1", "fin", "sync_2", "listaexit"} =>
            listaExit # <<>> /\ n >= 1 /\ (EnFin("CPU") => n >= 2)
   BY <1>1, ColasNoVacias
\* steps that leave the list and the two threads as they are
<1>4. ASSUME UNCHANGED listaExit, pc'["LP"] \in {"sync_2", "listaexit"} => pc["LP"] \in {"sync_2", "listaexit"},
             pc'["CPU"] = pc["CPU"] \/ (~EnFin("CPU")' /\ pc["CPU"] # "fin_avisar_consola"),
             pcb'["CPU"] = pcb["CPU"] \/ ~EnFin("CPU")',
             (pc'["MEM"] = pc["MEM"] /\ pcb'["MEM"] = pcb["MEM"]) \/ pc["MEM"] # "fin_avisar_consola",
             EnFin("CPU")' => ~MemTiene'
      PROVE  ExitNotificados'
   <2>1. \A i \in 1 .. n : Avisado(listaExit[i]) => YaAvisado(listaExit'[i]) BY <1>1, <1>2, <1>4
   <2>2. pc'["LP"] \in {"sync_2", "listaexit"} => YaAvisado(listaExit'[1])
      BY <1>3, <1>4, <2>1 DEF ExitNotificados
   <2>3. EnFin("CPU")' => ~MemTiene' /\ pcb'["CPU"] = listaExit'[Len(listaExit')]
      BY <1>4 DEF ExitNotificados
   <2>4. ASSUME NEW i \in 1 .. n
         PROVE  \/ YaAvisado(listaExit'[i])
                \/ pc'["CPU"] = "fin_avisar_consola" /\ i = n
                \/ pc'["MEM"] = "fin_avisar_consola" /\ pcb'["MEM"] = listaExit'[i]
      BY <1>4, <2>1 DEF ExitNotificados
   <2> HIDE DEF EnFin
   <2> QED BY <1>4, <2>2, <2>3, <2>4 DEF ExitNotificados, Avisado, YaAvisado
<1>5. ASSUME \/ \E p \in Pids : ConsolaCrea(p) \/ Consola(p) \/ IO(p)
             \/ IOAvisa \/ CortoPlazo \/ HiloDeFileSystem \/ Filesystem \/ Terminado
             \/ UNCHANGED vars
      PROVE  ExitNotificados'
   <2>1. EnFin("CPU")' => ~MemTiene'
      BY <1>5, AjenoALasCitas DEF ExitNotificados, MemTiene, MemAtiende
   <2> QED BY <1>4, <1>5, <2>1, AjenoALasCitas
<1>6. CASE HiloDeCPU
   <2>1. CASE CpuFinaliza
      <3> DEFINE x == Primero(listaExec)
      <3>1. /\ pc["CPU"] = "recibe" /\ pc'["CPU"] = "fin_avisar_consola" /\ pcb'["CPU"] = x
            /\ pc'["MEM"] = pc["MEM"] /\ pcb'["MEM"] = pcb["MEM"] /\ pc'["LP"] = pc["LP"]
            /\ listaExit' = Append(listaExit, x) /\ MemTiene' = MemTiene
         BY <2>1 DEF CpuFinaliza, FinalizarEmpieza, Recibe, Va, En, MemTiene, MemAtiende,
                     TypeOK, TiposHilos
      <3>2. Len(listaExec) = 1 /\ ~MemTiene BY <3>1 DEF UnDuenio, CpuTiene
      <3>3. x \in Pids BY <2>1, <3>2, SaleDeExec DEF CpuFinaliza, FinalizarEmpieza
      <3> HIDE DEF x
      <3>4. Len(listaExit') = n + 1 /\ listaExit'[n + 1] = x
            /\ \A i \in 1 .. n : listaExit'[i] = listaExit[i]
         BY <1>1, <3>1, <3>3, Indices
      <3>5. ASSUME NEW i \in 1 .. n + 1
            PROVE  \/ YaAvisado(listaExit'[i])
                   \/ i = n + 1
                   \/ pc'["MEM"] = "fin_avisar_consola" /\ pcb'["MEM"] = listaExit'[i]
         BY <1>1, <1>2, <3>1, <3>4 DEF ExitNotificados
      <3>6. pc'["LP"] \in {"sync_2", "listaexit"} => YaAvisado(listaExit'[1])
         BY <1>1, <1>2, <1>3, <3>1, <3>4 DEF ExitNotificados
      <3> QED BY <3>1, <3>2, <3>4, <3>5, <3>6 DEF ExitNotificados, Avisado, YaAvisado
   <2>2. CASE FinalizarAvisaConsola("CPU")
      <3>1. /\ pc["CPU"] = "fin_avisar_consola" /\ pc'["CPU"] = "fin_avisar_planificador"
            /\ pcb["CPU"] = listaExit[n] /\ pcb' = pcb
            /\ pc'["MEM"] = pc["MEM"] /\ pc'["LP"] = pc["LP"] /\ listaExit' = listaExit
            /\ semaforo' = [semaforo EXCEPT ![pcb["CPU"]] = TRUE] /\ ~MemTiene'
         BY <2>2 DEF FinalizarAvisaConsola, Toma, Va, En, MemTiene, MemAtiende, ExitNotificados,
                     TypeOK, TiposHilos, TiposMutex
      <3>2. YaAvisado(listaExit[n]) BY <1>1, <1>3, <3>1 DEF YaAvisado
      <3>3. ASSUME NEW i \in 1 .. n
            PROVE  \/ YaAvisado(listaExit'[i])
                   \/ pc'["MEM"] = "fin_avisar_consola" /\ pcb'["MEM"] = listaExit'[i]
         BY <1>1, <1>2, <3>1, <3>2 DEF ExitNotificados
      <3>4. pc'["LP"] \in {"sync_2", "listaexit"} => YaAvisado(listaExit'[1])
         BY <1>1, <1>2, <1>3, <3>1 DEF ExitNotificados
      <3> QED BY <3>1, <3>3, <3>4 DEF ExitNotificados, Avisado, YaAvisado
   <2>3. CASE ~CpuFinaliza /\ ~FinalizarAvisaConsola("CPU")
      <3>1. /\ ~EnFin("CPU")' /\ pc["CPU"] # "fin_avisar_consola"
            /\ pc'["MEM"] = pc["MEM"] /\ pcb'["MEM"] = pcb["MEM"] /\ pc'["LP"] = pc["LP"]
            /\ listaExit' = listaExit
         <4>1. CASE CpuEnvia \/ CpuWaitBloquea \/ CpuWaitOtorga \/ CpuSignalDespierta
                    \/ CpuSignalSinDespertar \/ CpuIO \/ CpuIOParam \/ CpuYield
            BY <4>1 DEF CpuEnvia, CpuWaitBloquea, CpuWaitOtorga, CpuSignalDespierta,
                  CpuSignalSinDespertar, CpuIO, CpuIOParam, CpuYield, SacaDeExec, Recibe, Va, En,
                  TypeOK, TiposHilos
         <4>2. CASE CpuSegmento \/ CpuPideMemoria \/ CpuArchivo \/ CpuAvisa
                    \/ FinalizarAvisaPlanificador("CPU", "espera")
            BY <4>2 DEF CpuSegmento, CpuPideMemoria, CpuArchivo, CpuAvisa,
                  FinalizarAvisaPlanificador, Recibe, Va, En, TypeOK, TiposHilos
         <4> QED BY <1>6, <2>3, <4>1, <4>2 DEF HiloDeCPU
      <3> HIDE DEF EnFin
      <3> QED BY <1>4, <3>1
   <2> QED BY <2>1, <2>2, <2>3
<1>7. CASE LargoPlazo
   <2>1. CASE LpLibera
      <3>1. /\ pc["LP"] = "listaexit" /\ pc'["LP"] = "avisa_fin"
            /\ pc'["MEM"] = pc["MEM"] /\ pc'["CPU"] = pc["CPU"] /\ pcb' = pcb
            /\ listaExit' = Resto(listaExit) /\ MemTiene' = MemTiene
         BY <2>1 DEF LpLibera, TomaYSuelta, Va, En, MemTiene, MemAtiende, TypeOK, TiposMutex, TiposHilos
      <3>2. Len(listaExit') = n - 1 /\ n >= 1 /\ (EnFin("CPU") => n >= 2)
            /\ \A i \in 1 .. n - 1 : listaExit'[i] = listaExit[i + 1] /\ i + 1 \in 1 .. n
         <4>1. listaExit # <<>> /\ (EnFin("CPU") => n >= 2) BY <1>3, <3>1
         <4> QED BY <1>1, <3>1, <4>1, Indices
      <3>3. ASSUME NEW i \in 1 .. n - 1
            PROVE  \/ YaAvisado(listaExit'[i])
                   \/ pc'["CPU"] = "fin_avisar_consola" /\ i = n - 1
                   \/ pc'["MEM"] = "fin_avisar_consola" /\ pcb'["MEM"] = listaExit'[i]
         <4>1. i + 1 \in 1 .. n /\ listaExit'[i] = listaExit[i + 1] BY <3>2
         <4>2. i + 1 = n => i = n - 1 BY <1>1
         <4> QED BY <1>1, <1>2, <3>1, <4>1, <4>2 DEF ExitNotificados
      <3>4. EnFin("CPU")' => ~MemTiene' /\ pcb'["CPU"] = listaExit'[Len(listaExit')]
         <4> SUFFICES ASSUME EnFin("CPU")' PROVE ~MemTiene' /\ pcb'["CPU"] = listaExit'[n - 1]
            BY <3>2
         <4>1. n - 1 \in 1 .. n - 1 /\ (n - 1) + 1 = n BY <1>1, <3>1, <3>2
         <4>2. listaExit'[n - 1] = listaExit[n] BY <3>2, <4>1
         <4> QED BY <3>1, <4>2 DEF ExitNotificados
      <3> QED BY <3>1, <3>2, <3>3, <3>4 DEF ExitNotificados, Avisado, YaAvisado
   <2>2. CASE LpPideMemoria("fin", "REQ_FIN_PROCESO", "sync_2")
      <3>1. /\ pc["LP"] = "fin" /\ pc["MEM"] = "espera" /\ pc'["MEM"] = pc["MEM"]
            /\ pc'["CPU"] = pc["CPU"] /\ pcb' = pcb /\ listaExit' = listaExit /\ ~MemTiene'
         BY <2>2 DEF LpPideMemoria, TomaYSuelta, Va, En, MemTiene, MemAtiende, TestigoUnico, UnoSolo,
                     TypeOK, TiposMutex, TiposHilos
      <3>2. Avisado(listaExit[1])
         <4>1. 1 \in 1 .. n /\ (EnFin("CPU") => 1 # n) BY <1>1, <1>3, <3>1
         <4> QED BY <3>1, <4>1 DEF ExitNotificados
      <3>3. ASSUME NEW i \in 1 .. n
            PROVE  \/ YaAvisado(listaExit'[i])
                   \/ pc'["CPU"] = "fin_avisar_consola" /\ i = n
         BY <1>1, <1>2, <3>1 DEF ExitNotificados
      <3>4. YaAvisado(listaExit'[1]) BY <1>1, <1>2, <1>3, <3>1, <3>2
      <3> QED BY <3>1, <3>3, <3>4 DEF ExitNotificados, Avisado, YaAvisado
   <2>3. CASE LpPideMemoria("iniciar", "REQ_INICIAR_PROCESO", "tabla")
      <3>1. ~MemTiene'
         BY <2>3 DEF LpPideMemoria, TomaYSuelta, Va, En, MemTiene, MemAtiende, TestigoUnico, UnoSolo,
                     TypeOK, TiposMutex, TiposHilos
      <3>2. /\ listaExit' = listaExit /\ pcb' = pcb /\ pc'["LP"] = "tabla"
            /\ pc'["CPU"] = pc["CPU"] /\ pc'["MEM"] = pc["MEM"]
         BY <2>3 DEF LpPideMemoria, Va, TypeOK, TiposHilos
      <3> QED BY <1>4, <3>1, <3>2
   <2>4. CASE ~LpLibera /\ ~LpPideMemoria("iniciar", "REQ_INICIAR_PROCESO", "tabla")
              /\ ~LpPideMemoria("fin", "REQ_FIN_PROCESO", "sync_2")
      <3>1. /\ listaExit' = listaExit /\ pcb' = pcb /\ pc'["CPU"] = pc["CPU"] /\ pc'["MEM"] = pc["MEM"]
            /\ pc'["LP"] \in {"sync_2", "listaexit"} => pc["LP"] \in {"sync_2", "listaexit"}
            /\ mensajeAMemoria' = mensajeAMemoria
            /\ libre'["MENSAJEAMEMORIA"] <=> libre["MENSAJEAMEMORIA"]
         <4>1. CASE LpToma \/ LpGrado \/ LpAdmite \/ LpAvisa("avisa", {})
                    \/ LpAvisa("avisa_fin", {"SYNC_FIN"})
            BY <4>1 DEF LpToma, LpGrado, LpAdmite, LpAvisa, Toma, TomaYSuelta, Va, En,
                        TypeOK, TiposMutex, TiposHilos
         <4>2. CASE LpLock("tabla", "TABLASEGMENTOS", "pcbnew") \/ LpLock("pcbnew", "PCBNEW", "pcbready")
                    \/ LpLock("sync_1", "SYNC_FIN", "fin") \/ LpLock("sync_2", "SYNC_FIN", "listaexit")
            BY <4>2 DEF LpLock, Toma, Va, En, TypeOK, TiposMutex, TiposHilos
         <4> QED BY <1>7, <2>4, <4>1, <4>2 DEF LargoPlazo, LpReady, LpFinalized
      <3>2. EnFin("CPU")' => ~MemTiene' BY <3>1 DEF ExitNotificados, MemTiene, MemAtiende
      <3> QED BY <1>4, <3>1, <3>2
   <2> QED BY <1>7, <2>1, <2>2, <2>3, <2>4
<1>8. CASE HiloDeMemoria
   <2>1. CASE MemSinMemoria
      <3> DEFINE x == Primero(listaExec)
      <3>1. /\ pc["MEM"] = "crear" /\ pc'["MEM"] = "fin_avisar_consola" /\ pcb'["MEM"] = x
            /\ pc'["CPU"] = pc["CPU"] /\ pc'["LP"] = pc["LP"] /\ listaExit' = Append(listaExit, x)
         BY <2>1 DEF MemSinMemoria, FinalizarEmpieza, Va, En, TypeOK, TiposHilos
      <3>2. Len(listaExec) = 1 /\ ~EnFin("CPU")
         BY <3>1 DEF UnDuenio, MemTiene, MemAtiende, ExitNotificados
      <3>3. x \in Pids BY <2>1, <3>2, SaleDeExec DEF MemSinMemoria, FinalizarEmpieza
      <3> HIDE DEF x
      <3>4. Len(listaExit') = n + 1 /\ listaExit'[n + 1] = x
            /\ \A i \in 1 .. n : listaExit'[i] = listaExit[i]
         BY <1>1, <3>1, <3>3, Indices
      <3>5. ASSUME NEW i \in 1 .. n + 1
            PROVE  YaAvisado(listaExit'[i]) \/ listaExit'[i] = x
         <4>1. i \in 1 .. n \/ i = n + 1 BY <1>1
         <4> QED BY <1>1, <1>2, <3>1, <3>2, <3>4, <4>1 DEF ExitNotificados
      <3>6. pc'["LP"] \in {"sync_2", "listaexit"} => YaAvisado(listaExit'[1])
         BY <1>1, <1>2, <1>3, <3>1, <3>4 DEF ExitNotificados
      <3> QED BY <3>1, <3>2, <3>4, <3>5, <3>6 DEF ExitNotificados, Avisado, YaAvisado
   <2>2. CASE FinalizarAvisaConsola("MEM")
      <3>1. /\ pc["MEM"] = "fin_avisar_consola" /\ pc'["MEM"] = "fin_avisar_planificador" /\ pcb' = pcb
            /\ pc'["CPU"] = pc["CPU"] /\ pc'["LP"] = pc["LP"] /\ listaExit' = listaExit
            /\ semaforo' = [semaforo EXCEPT ![pcb["MEM"]] = TRUE]
            /\ EnFin("CPU")' => ~MemTiene'
         BY <2>2 DEF FinalizarAvisaConsola, Toma, Va, En, MemTiene, MemAtiende, ExitNotificados,
                     TypeOK, TiposHilos, TiposMutex
      <3>2. ASSUME NEW i \in 1 .. n, listaExit[i] = pcb["MEM"] PROVE YaAvisado(listaExit[i])
         BY <1>1, <3>1, <3>2 DEF YaAvisado
      <3>3. ASSUME NEW i \in 1 .. n
            PROVE  YaAvisado(listaExit'[i]) \/ (pc'["CPU"] = "fin_avisar_consola" /\ i = n)
         BY <1>1, <1>2, <3>1, <3>2 DEF ExitNotificados
      <3>4. pc'["LP"] \in {"sync_2", "listaexit"} => YaAvisado(listaExit'[1])
         BY <1>1, <1>2, <1>3, <3>1 DEF ExitNotificados
      <3>5. EnFin("CPU")' => ~MemTiene' /\ pcb'["CPU"] = listaExit'[Len(listaExit')]
         BY <3>1 DEF ExitNotificados
      <3> QED BY <3>1, <3>3, <3>4, <3>5 DEF ExitNotificados, Avisado, YaAvisado
   <2>3. CASE ~MemSinMemoria /\ ~FinalizarAvisaConsola("MEM")
      <3>1. /\ listaExit' = listaExit /\ pc'["CPU"] = pc["CPU"] /\ pc'["LP"] = pc["LP"]
            /\ pcb'["CPU"] = pcb["CPU"] /\ pc["MEM"] # "fin_avisar_consola"
            /\ MemTiene' => MemTiene
         <4>1. CASE MemToma
            BY <4>1 DEF MemToma, Toma, Va, En, MemTiene, MemAtiende, TypeOK, TiposMutex, TiposHilos
         <4>2. CASE MemIniciar \/ MemSegmentoOK \/ MemFin \/ MemConfirma
            BY <4>2 DEF MemIniciar, MemSegmentoOK, MemFin, MemConfirma, Toma, Suelta, TomaYSuelta,
                        Va, En, MemTiene, MemAtiende, TypeOK, TiposMutex, TiposHilos
         <4>3. CASE MemSuelta("pcbready", "PCBREADY", "libera")
                    \/ MemSuelta("libera", "CONEXIONMEMORIA", "espera") \/ MemCompactar
            BY <4>3 DEF MemSuelta, MemCompactar, MemConsultaFS, MemCompacta, MemActualiza, Suelta,
                        Va, En, MemTiene, MemAtiende, TypeOK, TiposMutex, TiposHilos
         <4>4. CASE FinalizarAvisaPlanificador("MEM", "libera")
            BY <4>4 DEF FinalizarAvisaPlanificador, TomaYSuelta,
                        Va, En, MemTiene, MemAtiende, TypeOK, TiposMutex, TiposHilos
         <4> QED BY <1>8, <2>3, <4>1, <4>2, <4>3, <4>4 DEF HiloDeMemoria
      <3>2. EnFin("CPU")' => ~MemTiene' BY <3>1 DEF ExitNotificados
      <3> QED BY <1>4, <3>1, <3>2
   <2> QED BY <2>1, <2>2, <2>3
<1> QED BY <1>5, <1>6, <1>7, <1>8 DEF Next

-----------------------------------------------------------------------------
(* One place per process. *)

\* A process that is somewhere is in one place only, and was created.
LEMMA UnicoLugar ==
    ASSUME TypeOK, CadaPcbEnUnLugar, NEW p \in Pids
    PROVE  /\ EnNew(p) # 0 => /\ EnReady(p) = 0 /\ EnExec(p) = 0 /\ EnBlock(p) = 0 /\ EnExit(p) = 0
                              /\ LugaresDe(p) = 1
           /\ EnExit(p) # 0 => /\ EnNew(p) = 0 /\ EnReady(p) = 0 /\ EnExec(p) = 0 /\ EnBlock(p) = 0
                               /\ LugaresDe(p) = 1
           /\ EnReady(p) # 0 \/ EnExec(p) # 0 \/ EnBlock(p) # 0
                 => EnNew(p) = 0 /\ EnExit(p) = 0 /\ LugaresDe(p) = 1
           /\ LugaresDe(p) # 0 => p < cantidadProcesos
<1> DEFINE n == EnNew(p)
           r == EnReady(p)
           x == EnExec(p)
           b == EnBlock(p)
           e == EnExit(p)
           suma == n + r + x + b + e
<1>1. n \in Nat /\ r \in Nat /\ x \in Nat /\ b \in Nat /\ e \in Nat /\ LugaresDe(p) = suma
   BY LugaresSuma
<1>2. LugaresDe(p) \in {0, 1} /\ (LugaresDe(p) # 0 => p < cantidadProcesos)
   BY DEF CadaPcbEnUnLugar
<1>3. /\ n # 0 => r = 0 /\ x = 0 /\ b = 0 /\ e = 0 /\ suma = 1
      /\ e # 0 => n = 0 /\ r = 0 /\ x = 0 /\ b = 0 /\ suma = 1
      /\ r # 0 \/ x # 0 \/ b # 0 => n = 0 /\ e = 0 /\ suma = 1
   <2>1. suma \in {0, 1} BY <1>1, <1>2
   <2> HIDE DEF n, r, x, b, e
   <2> QED BY <1>1, <2>1
<1> HIDE DEF suma
<1> QED BY <1>1, <1>2, <1>3

CuentasSumadas ==
    \A p \in Pids :
        LugaresDe(p) = EnNew(p) + EnReady(p) + EnExec(p) + EnBlock(p) + EnExit(p)

LEMMA LaSuma == TypeOK => CuentasSumadas
BY LugaresSuma DEF CuentasSumadas

\* The sums of the counts move by the sums of the amounts.
LEMMA MueveSuma ==
    ASSUME TypeOK, TypeOK', NEW q, NEW new \in Int, NEW ready \in Int, NEW exec \in Int,
           NEW block \in Int, NEW exit \in Int, Mueve(q, new, ready, exec, block, exit),
           NEW p \in Pids
    PROVE  /\ LugaresDe(p)' = LugaresDe(p)
                 + (IF p = q THEN new + ready + exec + block + exit ELSE 0)
           /\ EnReady(p)' + EnExec(p)' + EnBlock(p)' = EnReady(p) + EnExec(p) + EnBlock(p)
                 + (IF p = q THEN ready + exec + block ELSE 0)
<1>1. /\ EnNew(p) \in Nat /\ EnReady(p) \in Nat /\ EnExec(p) \in Nat
      /\ EnBlock(p) \in Nat /\ EnExit(p) \in Nat
      /\ LugaresDe(p) = EnNew(p) + EnReady(p) + EnExec(p) + EnBlock(p) + EnExit(p)
   BY LugaresSuma
<1>2. LugaresDe(p)' = EnNew(p)' + EnReady(p)' + EnExec(p)' + EnBlock(p)' + EnExit(p)'
   <2>1. TypeOK' => CuentasSumadas' BY LaSuma, PTL
   <2> QED BY <2>1 DEF CuentasSumadas
<1>3. /\ EnNew(p)'   = EnNew(p)   + (IF p = q THEN new ELSE 0)
      /\ EnReady(p)' = EnReady(p) + (IF p = q THEN ready ELSE 0)
      /\ EnExec(p)'  = EnExec(p)  + (IF p = q THEN exec ELSE 0)
      /\ EnBlock(p)' = EnBlock(p) + (IF p = q THEN block ELSE 0)
      /\ EnExit(p)'  = EnExit(p)  + (IF p = q THEN exit ELSE 0)
   BY DEF Mueve
<1> QED BY <1>1, <1>2, <1>3

\* Only a console creates a process, and only the long-term scheduler frees one.
LEMMA CambiaElLugar ==
    ASSUME AInv, CadaPcbEnUnLugar, PorDormir, [Next]_vars, TypeOK'
    PROVE  \/ \E q \in Pids : ConsolaCrea(q) /\ \A p \in Pids :
                 LugaresDe(p)' = LugaresDe(p) + (IF p = q THEN 1 ELSE 0)
           \/ LpLibera /\ listaExit # <<>> /\ \A p \in Pids :
                 LugaresDe(p)' = LugaresDe(p) + (IF p = listaExit[1] THEN -1 ELSE 0)
           \/ cantidadProcesos' = cantidadProcesos /\ \A p \in Pids : LugaresDe(p)' = LugaresDe(p)
<1> USE DEF AInv, IInv
<1>1. CASE \E q \in Pids : ConsolaCrea(q) /\ Mueve(q, 1, 0, 0, 0, 0)
   BY <1>1, MueveSuma
<1>2. CASE LpLibera /\ listaExit # <<>> /\ Mueve(listaExit[1], 0, 0, 0, 0, -1)
   BY <1>2, MueveSuma
<1>3. ASSUME NEW q, \/ Mueve(q, 0, 0, 0, 0, 0) \/ Mueve(q, -1, 1, 0, 0, 0)
                    \/ Mueve(q, 0, -1, 1, 0, 0) \/ Mueve(q, 0, 1, -1, 0, 0)
                    \/ Mueve(q, 0, 0, -1, 1, 0) \/ Mueve(q, 0, 1, 0, -1, 0)
                    \/ Mueve(q, 0, 0, -1, 0, 1),
             NEW p \in Pids
      PROVE  LugaresDe(p)' = LugaresDe(p)
   <2>1. LugaresDe(p) \in Nat
      <3>1. LugaresDe(p) \in {0, 1} BY DEF CadaPcbEnUnLugar
      <3> QED BY <3>1
   <2> QED BY <1>3, <2>1, MueveSuma
<1>4. CASE /\ ~\E q \in Pids : ConsolaCrea(q) /\ Mueve(q, 1, 0, 0, 0, 0)
           /\ ~(LpLibera /\ listaExit # <<>> /\ Mueve(listaExit[1], 0, 0, 0, 0, -1))
   <2>1. \A p \in Pids : LugaresDe(p)' = LugaresDe(p)
      BY <1>3, <1>4, Movimientos DEF Movimiento, Quieto
   <2>2. cantidadProcesos' = cantidadProcesos BY <1>4, CambiosDeMemoria, MueveCrea
   <2> QED BY <2>1, <2>2
<1> QED BY <1>1, <1>2, <1>4

\* Every step leaves each process in its one place.
LEMMA PasoLugar ==
    ASSUME AInv, CadaPcbEnUnLugar, PorDormir, AltaDeLaCabeza, ExitNotificados,
           [Next]_vars, TypeOK'
    PROVE  CadaPcbEnUnLugar'
<1> USE DEF AInv, IInv
<1>1. /\ colaNew \in Seq(Pids) /\ listaExit \in Seq(Pids)
      /\ consola \in [Pids -> {"fuera", "avisa", "espera_fin", "fin"}]
      /\ cantidadProcesos \in Nat
   BY DEF TypeOK, TiposListas, TiposEfimeros, TiposPcb
<1>2. \A p \in Pids : p \in Nat BY DEF Pids
<1>3. ASSUME NEW q \in Pids, ConsolaCrea(q),
             \A p \in Pids : LugaresDe(p)' = LugaresDe(p) + (IF p = q THEN 1 ELSE 0)
      PROVE  CadaPcbEnUnLugar'
   <2>1. /\ q = cantidadProcesos /\ cantidadProcesos' = cantidadProcesos + 1
         /\ memoria' = memoria /\ semaforo' = semaforo
         /\ \A p \in Pids : consola[p] = "fin" => consola'[p] = "fin"
      BY <1>1, <1>3 DEF ConsolaCrea
   <2> SUFFICES ASSUME NEW p \in Pids
                PROVE  \/ p < cantidadProcesos + 1 /\ LugaresDe(p)' = 1
                       \/ p >= cantidadProcesos + 1 /\ LugaresDe(p)' = 0
                       \/ /\ p < cantidadProcesos + 1 /\ LugaresDe(p)' = 0
                          /\ p \notin memoria
                          /\ consola'[p] = "fin" \/ semaforo'[p]
      BY <2>1 DEF CadaPcbEnUnLugar
   <2>2. \/ p < cantidadProcesos /\ LugaresDe(p) = 1
         \/ p >= cantidadProcesos /\ LugaresDe(p) = 0
         \/ /\ p < cantidadProcesos /\ LugaresDe(p) = 0
            /\ p \notin memoria
            /\ consola[p] = "fin" \/ semaforo[p]
      BY DEF CadaPcbEnUnLugar
   <2>3. LugaresDe(p)' = LugaresDe(p) + (IF p = q THEN 1 ELSE 0) BY <1>3
   <2> QED BY <1>1, <1>2, <2>1, <2>2, <2>3
<1>4. CASE LpLibera /\ listaExit # <<>> /\ \A p \in Pids :
              LugaresDe(p)' = LugaresDe(p) + (IF p = listaExit[1] THEN -1 ELSE 0)
   <2>1. /\ pc["LP"] = "listaexit" /\ memoria' = memoria /\ cantidadProcesos' = cantidadProcesos
         /\ consola' = consola /\ semaforo' = semaforo
      BY <1>4 DEF LpLibera, En
   <2>2. listaExit[1] \in Pids /\ listaExit[1] \in ToSet(listaExit) BY <1>1, <1>4 DEF ToSet
   <2>3. LugaresDe(listaExit[1]) = 1 /\ listaExit[1] < cantidadProcesos
      BY <1>1, <2>2, VecesNat, UnicoLugar DEF EnExit
   <2>4. listaExit[1] \notin memoria BY <2>1 DEF CabezaSuelta
   <2>5. consola[listaExit[1]] = "fin" \/ semaforo[listaExit[1]]
      BY <2>1 DEF ExitNotificados, Avisado
   <2> SUFFICES ASSUME NEW p \in Pids
                PROVE  \/ p < cantidadProcesos /\ LugaresDe(p)' = 1
                       \/ p >= cantidadProcesos /\ LugaresDe(p)' = 0
                       \/ /\ p < cantidadProcesos /\ LugaresDe(p)' = 0
                          /\ p \notin memoria
                          /\ consola[p] = "fin" \/ semaforo[p]
      BY <2>1 DEF CadaPcbEnUnLugar
   <2>6. CASE p = listaExit[1]
      <3>1. LugaresDe(p)' = LugaresDe(p) + -1 BY <1>4, <2>6
      <3> QED BY <2>3, <2>4, <2>5, <2>6, <3>1
   <2>7. CASE p # listaExit[1]
      <3>1. LugaresDe(p)' = LugaresDe(p) + 0 BY <1>4, <2>7
      <3> QED BY <3>1 DEF CadaPcbEnUnLugar
   <2> QED BY <2>6, <2>7
<1>5. CASE cantidadProcesos' = cantidadProcesos /\ \A p \in Pids : LugaresDe(p)' = LugaresDe(p)
   <2> SUFFICES ASSUME NEW p \in Pids, LugaresDe(p) = 0, p \notin memoria, Avisado(p)
                PROVE  p \notin memoria' /\ Avisado(p)'
      BY <1>5 DEF CadaPcbEnUnLugar, Avisado
   <2>1. Avisado(p)' BY AvisadoQueda
   <2>2. CASE MemIniciar
      <3>1. pcb["MEM"] = colaNew[1] /\ pc["LP"] = "tabla"
         BY <2>2 DEF MemIniciar, En, AltaDeLaCabeza, Citas, PideAlta
      <3>2. colaNew # <<>> /\ colaNew[1] \in Pids BY <3>1, ColasNoVacias DEF Admitiendo
      <3>3. colaNew[1] \in ToSet(colaNew) BY <1>1, <3>2 DEF ToSet
      <3>4. LugaresDe(colaNew[1]) = 1 BY <1>1, <3>2, <3>3, VecesNat, UnicoLugar DEF EnNew
      <3> QED BY <2>1, <2>2, <3>1, <3>4 DEF MemIniciar
   <2>3. CASE ~MemIniciar
      BY <2>1, <2>3, CambiosDeMemoria DEF MemConfirma
   <2> QED BY <2>2, <2>3
<1> QED BY <1>3, <1>4, <1>5, CambiaElLugar

-----------------------------------------------------------------------------
(* The admitted processes. *)

\* An admitted process is one of the created ones.
LEMMA ActivosSonPids == ASSUME TypeOK, PorDormir PROVE Activos \subseteq Pids
<1>1. /\ ToSet(listaReady) \subseteq Pids /\ ToSet(listaExec) \subseteq Pids
      /\ ToSet(listaBlock) \subseteq Pids
   BY DEF ToSet, TypeOK, TiposListas
<1>2. Bloqueados \subseteq Pids BY DEF Bloqueados, ToSet, TypeOK, TiposListas
<1>3. EnIO \subseteq Pids BY DEF EnIO, En, PorDormir
<1> QED BY <1>1, <1>2, <1>3 DEF Activos

LosActivos ==
    /\ Activos \subseteq Pids
    /\ \A p \in Pids : p \in Activos <=> EnReady(p) + EnExec(p) + EnBlock(p) # 0

LEMMA QuienesSonActivos == TypeOK /\ PorDormir => LosActivos
BY ActivosSonPids, ActivosCuenta DEF LosActivos

\* A process is admitted by LpAdmite and stops being so in finalizarPcb.
LEMMA CambianActivos ==
    ASSUME AInv, CadaPcbEnUnLugar, PorDormir, [Next]_vars, TypeOK', PorDormir'
    PROVE  \/ /\ LpAdmite /\ colaNew # <<>> /\ colaNew[1] \in Pids \ Activos
              /\ Activos' = Activos \cup {colaNew[1]}
           \/ /\ CpuFinaliza \/ MemSinMemoria
              /\ listaExec[1] \in Activos
              /\ Activos' = Activos \ {listaExec[1]}
           \/ /\ ~LpAdmite /\ ~CpuFinaliza /\ ~MemSinMemoria
              /\ Activos' = Activos
<1> USE DEF AInv, IInv
<1> DEFINE en(p) == EnReady(p) + EnExec(p) + EnBlock(p)
<1>1. /\ Activos \subseteq Pids /\ Activos' \subseteq Pids
      /\ \A p \in Pids : p \in Activos <=> en(p) # 0
      /\ \A p \in Pids : p \in Activos' <=> EnReady(p)' + EnExec(p)' + EnBlock(p)' # 0
   <2>1. LosActivos BY QuienesSonActivos
   <2>2. LosActivos' BY QuienesSonActivos, PTL
   <2> QED BY <2>1, <2>2 DEF LosActivos
<1>2. \A p \in Pids : en(p) \in Nat BY LugaresSuma
<1>3. CASE LpAdmite
   <2>1. colaNew # <<>> /\ colaNew[1] \in Pids
      BY <1>3, ColasNoVacias DEF LpAdmite, En, Admitiendo
   <2>2. Mueve(colaNew[1], -1, 1, 0, 0, 0) BY <1>3, <2>1, MueveAdmite
   <2>3. ASSUME NEW p \in Pids
         PROVE  EnReady(p)' + EnExec(p)' + EnBlock(p)' = en(p) + (IF p = colaNew[1] THEN 1 ELSE 0)
      BY <2>2, MueveSuma
   <2>4. colaNew[1] \notin Activos
      <3>1. colaNew[1] \in ToSet(colaNew) /\ colaNew \in Seq(Pids)
         BY <2>1 DEF ToSet, TypeOK, TiposListas
      <3>2. EnNew(colaNew[1]) # 0 BY <3>1, VecesNat DEF EnNew
      <3>3. en(colaNew[1]) = 0 BY <2>1, <3>2, UnicoLugar
      <3> QED BY <1>1, <2>1, <3>3
   <2>5. \A p \in Pids : p \in Activos' <=> p \in Activos \cup {colaNew[1]}
      <3> HIDE DEF en
      <3> QED BY <1>1, <1>2, <2>3
   <2> QED BY <1>1, <1>3, <2>1, <2>4, <2>5
<1>4. CASE CpuFinaliza \/ MemSinMemoria
   <2>1. Len(listaExec) = 1
      BY <1>4 DEF CpuFinaliza, Recibe, MemSinMemoria, En, UnDuenio, CpuTiene, MemAtiende, MemTiene
   <2>2. Mueve(listaExec[1], 0, 0, -1, 0, 1) BY <1>4, <2>1, MueveFinaliza
   <2>3. ASSUME NEW p \in Pids
         PROVE  EnReady(p)' + EnExec(p)' + EnBlock(p)' = en(p) + (IF p = listaExec[1] THEN -1 ELSE 0)
      BY <2>2, MueveSuma
   <2>4. listaExec[1] \in Pids /\ EnExec(listaExec[1]) # 0
      <3>1. listaExec' = Resto(listaExec) BY <1>4 DEF CpuFinaliza, MemSinMemoria, FinalizarEmpieza
      <3> QED BY <2>1, <3>1, SaleDeExec
   <2>5. en(listaExec[1]) = 1 BY <2>4, SoloEnExec
   <2>6. \A p \in Pids : p \in Activos' <=> p \in Activos \ {listaExec[1]}
      <3> HIDE DEF en
      <3> QED BY <1>1, <1>2, <2>3, <2>5
   <2>7. listaExec[1] \in Activos
      <3> HIDE DEF en
      <3> QED BY <1>1, <2>4, <2>5
   <2> QED BY <1>1, <1>4, <2>6, <2>7
<1>5. CASE ~LpAdmite /\ ~CpuFinaliza /\ ~MemSinMemoria
   <2>1. ASSUME NEW q, \/ Mueve(q, 0, 0, 0, 0, 0) \/ Mueve(q, 1, 0, 0, 0, 0)
                       \/ Mueve(q, 0, 0, 0, 0, -1)
                       \/ Mueve(q, 0, -1, 1, 0, 0) \/ Mueve(q, 0, 1, -1, 0, 0)
                       \/ Mueve(q, 0, 0, -1, 1, 0) \/ Mueve(q, 0, 1, 0, -1, 0),
                NEW p \in Pids
         PROVE  EnReady(p)' + EnExec(p)' + EnBlock(p)' = en(p)
      BY <1>2, <2>1, MueveSuma
   <2>2. \A p \in Pids : EnReady(p)' + EnExec(p)' + EnBlock(p)' = en(p)
      BY <1>5, <2>1, Movimientos DEF Movimiento, Quieto
   <2>3. \A p \in Pids : p \in Activos' <=> p \in Activos BY <1>1, <2>2
   <2> QED BY <1>1, <1>5, <2>3
<1> QED BY <1>3, <1>4, <1>5

\* Whoever is admitted has a table in Memoria, and keeps it until it ends.
LEMMA PasoTablaPropia ==
    ASSUME AInv, CadaPcbEnUnLugar, PorDormir, AltaDeLaCabeza, TablaPropia,
           [Next]_vars, TypeOK', PorDormir'
    PROVE  TablaPropia'
<1> USE DEF AInv, IInv
<1>1. ASSUME NEW p \in Activos, p \in Activos' PROVE p \in memoria' /\ tabla'[p] >= 0
   <2>1. p \in Pids /\ p \in memoria /\ tabla[p] >= 0 BY ActivosSonPids DEF TablaPropia
   <2>2. tabla'[p] >= 0 BY <2>1, TablaQueda
   <2>3. CASE MemConfirma
      <3>1. pcb["MEM"] = listaExit[1] /\ pc["LP"] = "sync_2"
         BY <2>3 DEF MemConfirma, En, CabezaSuelta, Citas, PideFin
      <3>2. listaExit # <<>> /\ listaExit \in Seq(Pids)
         BY <3>1, ColasNoVacias DEF TypeOK, TiposListas
      <3>3. listaExit[1] \in ToSet(listaExit) /\ listaExit[1] \in Pids BY <3>2 DEF ToSet
      <3>4. EnExit(listaExit[1]) # 0 BY <3>2, <3>3, VecesNat DEF EnExit
      <3>5. /\ EnReady(listaExit[1]) = 0 /\ EnExec(listaExit[1]) = 0
            /\ EnBlock(listaExit[1]) = 0
         BY <3>3, <3>4, UnicoLugar
      <3>6. listaExit[1] \notin Activos BY <3>5, ActivosCuenta
      <3> QED BY <2>1, <2>2, <2>3, <3>1, <3>6 DEF MemConfirma
   <2>4. CASE ~MemConfirma BY <2>1, <2>2, <2>4, CambiosDeMemoria DEF MemIniciar
   <2> QED BY <2>3, <2>4
<1>2. CASE LpAdmite /\ Activos' = Activos \cup {colaNew[1]}
   <2>1. colaNew[1] \in memoria /\ tabla[colaNew[1]] >= 0
      BY <1>2 DEF LpAdmite, En, AltaDeLaCabeza
   <2>2. memoria' = memoria /\ tabla' = tabla BY <1>2 DEF LpAdmite
   <2> QED BY <1>1, <1>2, <2>1, <2>2 DEF TablaPropia
<1>3. CASE Activos' \subseteq Activos BY <1>1, <1>3 DEF TablaPropia
<1> QED BY <1>2, <1>3, CambianActivos

-----------------------------------------------------------------------------
(* The permits of grado_programacion. *)

\* the permits that no admitted process holds
Sueltos ==
    grado + Cuenta(Admitiendo /\ ~En("LP", "grado")) + Cuenta(EnFin("CPU")) + Cuenta(EnFin("MEM"))

\* The threads in finalizarPcb, counted one by one.
LEMMA FinalizanContados ==
    Cardinality({h \in {"CPU", "MEM"} :
                    pc[h] \in {"fin_avisar_consola", "fin_avisar_planificador"}})
       = Cuenta(EnFin("CPU")) + Cuenta(EnFin("MEM"))
<1> DEFINE F == {h \in {"CPU", "MEM"} :
                    pc[h] \in {"fin_avisar_consola", "fin_avisar_planificador"}}
<1>1. F = IF EnFin("CPU") THEN IF EnFin("MEM") THEN {"CPU", "MEM"} ELSE {"CPU"}
                          ELSE IF EnFin("MEM") THEN {"MEM"} ELSE {}
   BY DEF EnFin
<1>2. Cardinality({"CPU"}) = 1 /\ Cardinality({"MEM"}) = 1 /\ IsFiniteSet({"CPU"})
   BY FS_Singleton
<1>3. Cardinality({"CPU", "MEM"}) = 2
   <2>1. {"CPU", "MEM"} = {"CPU"} \cup {"MEM"} /\ "MEM" \notin {"CPU"} OBVIOUS
   <2>2. Cardinality({"CPU"} \cup {"MEM"}) = Cardinality({"CPU"}) + 1
      BY <1>2, <2>1, FS_AddElement
   <2> QED BY <1>2, <2>1, <2>2
<1>4. Cardinality({}) = 0 BY FS_EmptySet
<1> HIDE DEF F
<1>5. Cardinality(F) = Cuenta(EnFin("CPU")) + Cuenta(EnFin("MEM"))
   BY <1>1, <1>2, <1>3, <1>4 DEF Cuenta
<1> QED BY <1>5 DEF F

PermisosEnPoder == Grado = Sueltos + Cardinality(Activos)

LEMMA ActivosFinitos ==
    ASSUME TypeOK, PorDormir
    PROVE  IsFiniteSet(Activos) /\ Cardinality(Activos) \in Nat
<1>1. IsFiniteSet(Pids) BY FS_Interval, CantidadesAssumption DEF Pids
<1> QED BY <1>1, ActivosSonPids, FS_Subset, FS_CardinalityType

LEMMA PermisosSonPermisos == TypeOK /\ PorDormir => (PermisosConservados <=> PermisosEnPoder)
<1> SUFFICES ASSUME TypeOK, PorDormir PROVE PermisosConservados <=> PermisosEnPoder OBVIOUS
<1> DEFINE F == Cardinality({h \in {"CPU", "MEM"} :
                    pc[h] \in {"fin_avisar_consola", "fin_avisar_planificador"}})
           a == Cuenta(Admitiendo /\ ~En("LP", "grado"))
           c == Cuenta(EnFin("CPU"))
           m == Cuenta(EnFin("MEM"))
           k == Cardinality(Activos)
<1>1. F = c + m BY FinalizanContados
<1>2. PermisosConservados <=> Grado = grado + k + a + F BY DEF PermisosConservados
<1>3. PermisosEnPoder <=> Grado = grado + a + c + m + k BY DEF PermisosEnPoder, Sueltos
<1>4. a \in Nat /\ c \in Nat /\ m \in Nat /\ grado \in Nat /\ k \in Nat
   BY ActivosFinitos DEF Cuenta, TypeOK, TiposMutex
<1> HIDE DEF F, a, c, m, k
<1> QED BY <1>1, <1>2, <1>3, <1>4

\* A permit is taken by LpGrado, handed to a process by LpAdmite, given back by
\* the process that ends and freed by finalizarPcb.
LEMMA CambianSueltos ==
    ASSUME AInv, [Next]_vars
    PROVE  Sueltos' = Sueltos + (IF LpAdmite THEN -1
                                 ELSE IF CpuFinaliza \/ MemSinMemoria THEN 1 ELSE 0)
<1> USE DEF AInv, IInv, EnFin, Admitiendo, Sueltos, Cuenta
<1>1. grado \in Nat BY DEF TypeOK, TiposMutex
<1>2. CASE \/ \E p \in Pids : ConsolaCrea(p) \/ Consola(p) \/ IO(p)
           \/ IOAvisa \/ CortoPlazo \/ HiloDeFileSystem \/ Filesystem \/ Terminado
           \/ UNCHANGED vars
   <2>1. grado' = grado
      BY <1>2 DEF ConsolaCrea, Consola, ConsolaAvisa, ConsolaFin, IO, IOLee, IODespierta, IOAvisa,
                  CortoPlazo, CpToma, CpDespacha, CpNada, HiloDeFileSystem, FsToma, FsEnvia,
                  FsDesbloquea, FsAvisa, Filesystem, Terminado, vars
   <2>2. pc'["LP"] = pc["LP"] /\ pc'["CPU"] = pc["CPU"] /\ pc'["MEM"] = pc["MEM"]
      BY <1>2, AjenoALasCitas
   <2>3. ~LpAdmite /\ ~CpuFinaliza /\ ~MemSinMemoria
      BY <2>2 DEF LpAdmite, CpuFinaliza, Recibe, MemSinMemoria, FinalizarEmpieza, Va, En,
                  TypeOK, TiposHilos
   <2> QED BY <1>1, <2>1, <2>2, <2>3 DEF En
<1>3. CASE LargoPlazo
   <2>1. pc'["CPU"] = pc["CPU"] /\ pc'["MEM"] = pc["MEM"]
      BY <1>3 DEF LargoPlazo, LpReady, LpFinalized, LpToma, LpGrado, LpPideMemoria, LpLock, LpAdmite,
                  LpLibera, LpAvisa, Va, TypeOK, TiposHilos
   <2>2. ~CpuFinaliza /\ ~MemSinMemoria
      BY <2>1 DEF CpuFinaliza, Recibe, MemSinMemoria, FinalizarEmpieza, Va, En, TypeOK, TiposHilos
   <2>3. CASE LpAdmite \/ LpGrado
      BY <1>1, <2>1, <2>2, <2>3 DEF LpAdmite, LpGrado, Va, En, TypeOK, TiposHilos
   <2>4. CASE LpToma \/ LpLibera \/ LpAvisa("avisa", {}) \/ LpAvisa("avisa_fin", {"SYNC_FIN"})
      BY <1>1, <2>1, <2>2, <2>4 DEF LpAdmite, LpToma, LpLibera, LpAvisa, Va, En, TypeOK, TiposHilos
   <2>5. CASE LpPideMemoria("iniciar", "REQ_INICIAR_PROCESO", "tabla")
              \/ LpPideMemoria("fin", "REQ_FIN_PROCESO", "sync_2")
      BY <1>1, <2>1, <2>2, <2>5 DEF LpAdmite, LpPideMemoria, Va, En, TypeOK, TiposHilos
   <2>6. CASE LpLock("tabla", "TABLASEGMENTOS", "pcbnew") \/ LpLock("pcbnew", "PCBNEW", "pcbready")
              \/ LpLock("sync_1", "SYNC_FIN", "fin") \/ LpLock("sync_2", "SYNC_FIN", "listaexit")
      BY <1>1, <2>1, <2>2, <2>6 DEF LpAdmite, LpLock, Va, En, TypeOK, TiposHilos
   <2> QED BY <1>3, <2>3, <2>4, <2>5, <2>6 DEF LargoPlazo, LpReady, LpFinalized
<1>4. CASE HiloDeCPU
   <2>1. pc'["LP"] = pc["LP"] /\ pc'["MEM"] = pc["MEM"]
      BY <1>4 DEF HiloDeCPU, CpuEnvia, CpuFinaliza, CpuWaitBloquea, CpuWaitOtorga, CpuSignalDespierta,
               CpuSignalSinDespertar, CpuIO, CpuIOParam, CpuYield, CpuSegmento, CpuPideMemoria,
               CpuArchivo, CpuAvisa, FinalizarAvisaConsola, FinalizarAvisaPlanificador,
               FinalizarEmpieza, Va, TypeOK, TiposHilos
   <2>2. ~LpAdmite /\ ~MemSinMemoria
      BY <2>1 DEF LpAdmite, MemSinMemoria, FinalizarEmpieza, Va, En, TypeOK, TiposHilos
   <2>3. CASE CpuFinaliza
      BY <1>1, <2>1, <2>2, <2>3 DEF CpuFinaliza, FinalizarEmpieza, Recibe, Va, En, TypeOK, TiposHilos
   <2>4. CASE FinalizarAvisaConsola("CPU") \/ FinalizarAvisaPlanificador("CPU", "espera")
      BY <1>1, <2>1, <2>2, <2>4 DEF FinalizarAvisaConsola, FinalizarAvisaPlanificador, CpuFinaliza,
             Recibe, Va, En, TypeOK, TiposHilos
   <2>5. CASE ~CpuFinaliza /\ ~FinalizarAvisaConsola("CPU")
              /\ ~FinalizarAvisaPlanificador("CPU", "espera")
      <3>1. grado' = grado /\ ~EnFin("CPU") /\ ~EnFin("CPU")'
         <4>1. CASE CpuEnvia \/ CpuWaitBloquea \/ CpuWaitOtorga \/ CpuSignalDespierta
                    \/ CpuSignalSinDespertar \/ CpuIO \/ CpuIOParam \/ CpuYield
            BY <4>1 DEF CpuEnvia, CpuWaitBloquea, CpuWaitOtorga, CpuSignalDespierta,
                  CpuSignalSinDespertar, CpuIO, CpuIOParam, CpuYield, Recibe, Va, En,
                  TypeOK, TiposHilos
         <4>2. CASE CpuSegmento \/ CpuPideMemoria \/ CpuArchivo \/ CpuAvisa
            BY <4>2 DEF CpuSegmento, CpuPideMemoria, CpuArchivo, CpuAvisa, Recibe, Va, En,
                  TypeOK, TiposHilos
         <4> QED BY <1>4, <2>5, <4>1, <4>2 DEF HiloDeCPU
      <3> QED BY <1>1, <2>1, <2>2, <2>5, <3>1 DEF En
   <2> QED BY <2>3, <2>4, <2>5
<1>5. CASE HiloDeMemoria
   <2>1. pc'["LP"] = pc["LP"] /\ pc'["CPU"] = pc["CPU"]
      BY <1>5 DEF HiloDeMemoria, MemToma, MemIniciar, MemSuelta, MemSegmentoOK, MemSinMemoria,
               MemCompactar, MemConsultaFS, MemCompacta, MemActualiza, MemFin, MemConfirma,
               FinalizarAvisaConsola, FinalizarAvisaPlanificador, FinalizarEmpieza, Va,
               TypeOK, TiposHilos
   <2>2. ~LpAdmite /\ ~CpuFinaliza
      BY <2>1 DEF LpAdmite, CpuFinaliza, Recibe, FinalizarEmpieza, Va, En, TypeOK, TiposHilos
   <2>3. CASE MemSinMemoria
      BY <1>1, <2>1, <2>2, <2>3 DEF MemSinMemoria, FinalizarEmpieza, Va, En, TypeOK, TiposHilos
   <2>4. CASE FinalizarAvisaConsola("MEM") \/ FinalizarAvisaPlanificador("MEM", "libera")
      BY <1>1, <2>1, <2>2, <2>4 DEF FinalizarAvisaConsola, FinalizarAvisaPlanificador, MemSinMemoria,
             Va, En, TypeOK, TiposHilos
   <2>5. CASE ~MemSinMemoria /\ ~FinalizarAvisaConsola("MEM")
              /\ ~FinalizarAvisaPlanificador("MEM", "libera")
      <3>1. grado' = grado /\ ~EnFin("MEM") /\ ~EnFin("MEM")'
         BY <1>5, <2>5 DEF HiloDeMemoria, MemToma, MemIniciar, MemSuelta, MemSegmentoOK,
               MemCompactar, MemConsultaFS, MemCompacta, MemActualiza, MemFin, MemConfirma, Va, En,
               TypeOK, TiposHilos
      <3> QED BY <1>1, <2>1, <2>2, <2>5, <3>1 DEF En
   <2> QED BY <2>3, <2>4, <2>5
<1> QED BY <1>2, <1>3, <1>4, <1>5 DEF Next

\* Every step keeps the permits.
LEMMA PasoPermisos ==
    ASSUME AInv, CadaPcbEnUnLugar, PorDormir, PermisosEnPoder,
           [Next]_vars, TypeOK', PorDormir'
    PROVE  PermisosEnPoder'
<1> USE DEF AInv, IInv, PermisosEnPoder
<1>1. IsFiniteSet(Activos) /\ Cardinality(Activos) \in Nat /\ Sueltos \in Nat
   BY ActivosFinitos DEF Sueltos, Cuenta, TypeOK, TiposMutex
<1>2. ~LpAdmite \/ ~(CpuFinaliza \/ MemSinMemoria)
   BY DEF LpAdmite, CpuFinaliza, MemSinMemoria, FinalizarEmpieza, Va, TypeOK, TiposHilos
<1>3. CASE LpAdmite /\ colaNew[1] \in Pids \ Activos /\ Activos' = Activos \cup {colaNew[1]}
   <2>1. Cardinality(Activos') = Cardinality(Activos) + 1 BY <1>1, <1>3, FS_AddElement
   <2>2. Sueltos' = Sueltos + -1 BY <1>3, CambianSueltos
   <2> QED BY <1>1, <2>1, <2>2
<1>4. CASE /\ CpuFinaliza \/ MemSinMemoria
           /\ listaExec[1] \in Activos /\ Activos' = Activos \ {listaExec[1]}
   <2>1. Cardinality(Activos') = Cardinality(Activos) - 1 BY <1>1, <1>4, FS_RemoveElement
   <2>2. Sueltos' = Sueltos + 1 BY <1>2, <1>4, CambianSueltos
   <2> QED BY <1>1, <2>1, <2>2
<1>5. CASE ~LpAdmite /\ ~CpuFinaliza /\ ~MemSinMemoria /\ Activos' = Activos
   <2>1. Sueltos' = Sueltos + 0 BY <1>5, CambianSueltos
   <2> QED BY <1>1, <1>5, <2>1
<1> QED BY <1>3, <1>4, <1>5, CambianActivos

-----------------------------------------------------------------------------
\* The inductive invariant of this module.
LInv ==
    /\ AInv
    /\ CadaPcbEnUnLugar /\ PorDormir /\ AltaDeLaCabeza /\ ExitNotificados
    /\ TablaPropia /\ PermisosEnPoder

\* It holds in the initial state: no process was created and every permit is free.
LEMMA InitLInv == ASSUME Init, AInv PROVE LInv
<1>1. EnIO = {} /\ Bloqueados = {} /\ Activos = {}
   <2>1. EnIO = {} BY DEF Init, EnIO, En
   <2>2. Bloqueados = {}
      <3>1. \A r \in Recursos : ToSet(colaBloqueados[r]) = {} BY DEF Init, ToSet
      <3> QED BY <3>1 DEF Bloqueados
   <2> QED BY <2>1, <2>2 DEF Activos, Init, ToSet
<1>2. CadaPcbEnUnLugar
   <2> SUFFICES ASSUME NEW p \in Pids PROVE p >= cantidadProcesos /\ LugaresDe(p) = 0
      BY DEF CadaPcbEnUnLugar
   <2>1. TypeOK BY DEF AInv, IInv
   <2>2. EnNew(p) = 0 /\ EnReady(p) = 0 /\ EnExec(p) = 0 /\ EnExit(p) = 0
      BY VecesVacia DEF Init, EnNew, EnReady, EnExec, EnExit
   <2>3. EnBlock(p) = 0
      <3>1. Veces(p, listaBlock) = 0 BY VecesVacia DEF Init
      <3>2. VecesColas(p, colaBloqueados) = 0 BY <1>1, <2>1, VecesColasNat
      <3> QED BY <1>1, <3>1, <3>2 DEF EnBlock, Cuenta
   <2>4. LugaresDe(p) = 0 BY <2>1, <2>2, <2>3, LugaresSuma
   <2> QED BY <2>4 DEF Init, Pids
<1>3. PorDormir /\ AltaDeLaCabeza /\ ExitNotificados /\ TablaPropia
   BY <1>1 DEF Init, PorDormir, AltaDeLaCabeza, ExitNotificados, EnFin, TablaPropia, Tomados
<1>4. PermisosEnPoder
   <2>1. Sueltos = Grado
      BY CantidadesAssumption DEF Init, Sueltos, Cuenta, Admitiendo, EnFin
   <2>2. Cardinality(Activos) = 0 BY <1>1, FS_EmptySet
   <2> QED BY <2>1, <2>2, CantidadesAssumption DEF PermisosEnPoder
<1> QED BY <1>2, <1>3, <1>4 DEF LInv

\* Each part of LInv is preserved by every step of the Kernel: the places of
\* the processes need where a process stands between two threads, and the
\* tables and the permits need the places.
THEOREM LugaresInductivo == Spec => []LInv
<1>1. Init /\ AInv => LInv BY InitLInv
<1>2. LInv /\ [Next]_vars /\ AInv' => LInv'
   <2> SUFFICES ASSUME LInv, [Next]_vars, AInv' PROVE LInv' OBVIOUS
   <2> USE DEF LInv
   <2>1. TypeOK' BY DEF AInv, IInv
   <2>2. PorDormir' BY PasoPorDormir
   <2>3. CadaPcbEnUnLugar' /\ AltaDeLaCabeza' /\ ExitNotificados'
      BY <2>1, PasoLugar, PasoAltaDeLaCabeza, PasoExitNotificados
   <2>4. TablaPropia' /\ PermisosEnPoder' BY <2>1, <2>2, PasoTablaPropia, PasoPermisos
   <2> QED BY <2>2, <2>3, <2>4
<1> QED BY <1>1, <1>2, AvisosInductivo, PTL DEF Spec

\* Every pcb that crearPcb made is in exactly one list, queue or handlerIO thread
\* until planificacionLargoPlazo frees it, and by then Memoria has no table of it
\* and its console was told: for any number of processes, resources and I/Os.
THEOREM CadaUnoEnSuLugar == Spec => []CadaPcbEnUnLugar
<1>1. LInv => CadaPcbEnUnLugar BY DEF LInv
<1> QED BY <1>1, LugaresInductivo, PTL

\* Every process that may run has a segment table that Memoria knows, obtained
\* for its own pid, although conexionMemoria looks at colaNew twice.
THEOREM TablaDeCadaUno == Spec => []TablaPropia
<1>1. LInv => TablaPropia BY DEF LInv
<1> QED BY <1>1, LugaresInductivo, PTL

\* No permit of grado_programacion is lost or made up, ...
THEOREM PermisosNoSePierden == Spec => []PermisosConservados
<1>1. LInv => PermisosConservados BY PermisosSonPermisos DEF LInv, AInv, IInv
<1> QED BY <1>1, LugaresInductivo, PTL

\* ... so no more than GRADO_MAX_MULTIPROGRAMACION processes are ever admitted.
THEOREM NuncaMasQueElGrado == Spec => [](Cardinality(Activos) <= Grado)
<1>1. ASSUME LInv PROVE Cardinality(Activos) <= Grado
   <2>1. Cardinality(Activos) \in Nat BY <1>1, ActivosFinitos DEF LInv, AInv, IInv
   <2>2. Sueltos \in Nat BY <1>1 DEF LInv, AInv, IInv, Sueltos, Cuenta, TypeOK, TiposMutex
   <2>3. Grado = Sueltos + Cardinality(Activos) BY <1>1 DEF LInv, PermisosEnPoder
   <2> QED BY <2>1, <2>2, <2>3
<1> QED BY <1>1, LugaresInductivo, PTL

-----------------------------------------------------------------------------
(* Two threads on the socket of the Filesystem. *)

FSEspera == pc["FS"] \in {"avisa_bloqueo", "recibe"}

\* The process the filesystem thread serves is in listaBlock; the requests and the
\* answers in the socket are as many as threads wait for one; and a request of a
\* process is that of the filesystem thread, which waits unless it took the answer of
\* the memory thread for its own, and then that one waits.
EnSocket ==
    /\ FSEspera \/ pc["FS"] = "envia" => \E i \in DOMAIN listaBlock : listaBlock[i] = pcb["FS"]
    /\ Len(fsPedidos) + Len(fsRespuestas) = Cuenta(FSEspera) + Cuenta(pc["MEM"] = "consulta")
    /\ \A i \in DOMAIN fsPedidos :
          fsPedidos[i].op # "REQ_OP_MEMORIA" =>
             fsPedidos[i].pid = pcb["FS"] /\ (FSEspera \/ pc["MEM"] = "consulta")

\* The other steps leave the socket, those who wait and listaBlock alone, and
\* take the process out of listaExec at most.
LEMMA AjenoAlSocket ==
    ASSUME TypeOK,
           \/ \E p \in Pids : ConsolaCrea(p) \/ Consola(p) \/ IO(p)
           \/ IOAvisa \/ CpToma \/ CpNada \/ LargoPlazo \/ HiloDeCPU
           \/ HiloDeMemoria /\ ~MemConsultaFS /\ ~MemCompacta
           \/ Terminado \/ UNCHANGED vars
    PROVE  /\ UNCHANGED <<fsPedidos, fsRespuestas, listaBlock>>
           /\ pc'["FS"] = pc["FS"] /\ pcb'["FS"] = pcb["FS"]
           /\ pc'["MEM"] = "consulta" <=> pc["MEM"] = "consulta"
           /\ listaExec' \in {listaExec, Resto(listaExec)}
<1> USE DEF TypeOK, TiposHilos
<1>1. ASSUME NEW p \in Pids, ConsolaCrea(p) \/ Consola(p) \/ IO(p)
      PROVE  UNCHANGED <<fsPedidos, fsRespuestas, listaBlock, listaExec, pc, pcb>>
   BY <1>1 DEF ConsolaCrea, Consola, ConsolaAvisa, ConsolaFin, IO, IOLee, IODespierta
<1>2. CASE IOAvisa \/ CpToma \/ CpNada \/ Terminado \/ UNCHANGED vars
   BY <1>2 DEF IOAvisa, CpToma, CpNada, Terminado, Va, vars
<1>3. CASE LargoPlazo
   BY <1>3 DEF LargoPlazo, LpToma, LpReady, LpFinalized, LpGrado, LpPideMemoria, LpLock,
               LpAdmite, LpLibera, LpAvisa, Va
<1>4. CASE HiloDeCPU
   <2>1. CASE CpuEnvia \/ CpuFinaliza \/ CpuWaitBloquea \/ CpuWaitOtorga
      BY <2>1 DEF CpuEnvia, CpuFinaliza, FinalizarEmpieza, CpuWaitBloquea, SacaDeExec,
                  CpuWaitOtorga, Va
   <2>2. CASE CpuSignalDespierta \/ CpuSignalSinDespertar \/ CpuIO \/ CpuIOParam \/ CpuYield
      BY <2>2 DEF CpuSignalDespierta, CpuSignalSinDespertar, CpuIO, CpuIOParam, CpuYield,
                  SacaDeExec, Va
   <2>3. CASE CpuSegmento \/ CpuPideMemoria \/ CpuArchivo \/ CpuAvisa
      BY <2>3 DEF CpuSegmento, CpuPideMemoria, CpuArchivo, CpuAvisa, Va
   <2>4. CASE FinalizarAvisaConsola("CPU") \/ FinalizarAvisaPlanificador("CPU", "espera")
      BY <2>4 DEF FinalizarAvisaConsola, FinalizarAvisaPlanificador, Va
   <2> QED BY <1>4, <2>1, <2>2, <2>3, <2>4 DEF HiloDeCPU
<1>5. CASE HiloDeMemoria /\ ~MemConsultaFS /\ ~MemCompacta
   <2>1. CASE MemToma \/ MemIniciar \/ MemSegmentoOK \/ MemSinMemoria
      BY <2>1 DEF MemToma, MemIniciar, MemSegmentoOK, MemSinMemoria, FinalizarEmpieza, Va, En
   <2>2. CASE MemFin \/ MemConfirma
      BY <2>2 DEF MemFin, MemConfirma, Va, En
   <2>3. CASE MemSuelta("pcbready", "PCBREADY", "libera")
              \/ MemSuelta("libera", "CONEXIONMEMORIA", "espera")
      BY <2>3 DEF MemSuelta, Va, En
   <2>4. CASE MemCompactar
      BY <1>5, <2>4 DEF MemCompactar, MemActualiza, Va, En
   <2>5. CASE FinalizarAvisaConsola("MEM") \/ FinalizarAvisaPlanificador("MEM", "libera")
      BY <2>5 DEF FinalizarAvisaConsola, FinalizarAvisaPlanificador, Va, En
   <2> QED BY <1>5, <2>1, <2>2, <2>3, <2>4, <2>5 DEF HiloDeMemoria
<1> QED BY <1>1, <1>2, <1>3, <1>4, <1>5

\* Who is in listaBlock does not run.
BloqueadosNoCorren == \A i \in DOMAIN listaBlock : listaBlock[i] \notin ToSet(listaExec)

\* It holds because each process is in one place.
LEMMA BloqueadoNoCorre == TypeOK /\ CadaPcbEnUnLugar => BloqueadosNoCorren
<1> SUFFICES ASSUME TypeOK, CadaPcbEnUnLugar, NEW i \in DOMAIN listaBlock
             PROVE  listaBlock[i] \notin ToSet(listaExec)
   BY DEF BloqueadosNoCorren
<1> DEFINE p == listaBlock[i]
<1>1. p \in Pids BY DEF TypeOK, TiposListas
<1>2. Veces(p, listaBlock) \in Nat /\ Veces(p, listaBlock) # 0
   <2>1. listaBlock \in Seq(Pids) /\ p \in ToSet(listaBlock) BY DEF TypeOK, TiposListas, ToSet
   <2> QED BY <2>1, VecesNat
<1>3. VecesColas(p, colaBloqueados) \in Nat BY <1>1, VecesColasNat DEF TypeOK, TiposListas
<1>4. EnBlock(p) # 0 BY <1>2, <1>3 DEF EnBlock, Cuenta
<1>5. EnExec(p) # 0 => EnBlock(p) = 0
   <2> HIDE DEF p
   <2> QED BY <1>1, SoloEnExec
<1>6. EnExec(p) = 0 BY <1>4, <1>5
<1>7. listaExec \in Seq(Pids) BY DEF TypeOK, TiposListas
<1> QED BY <1>1, <1>6, <1>7, VecesNat DEF EnExec

\* Every step preserves it.
LEMMA PasoEnSocket ==
    ASSUME LInv, LInv', EnSocket, OperacionTerminada, [Next]_vars
    PROVE  EnSocket' /\ OperacionTerminada'
<1>1. TypeOK /\ UnDuenio /\ TypeOK' /\ CadaPcbEnUnLugar /\ CadaPcbEnUnLugar'
   BY DEF LInv, AInv, IInv
<1> USE DEF EnSocket, FSEspera, Cuenta
<1>2. fsPedidos \in Seq(PedidosFS) /\ fsRespuestas \in Seq({"OK", "OK_OP_MEMORIA"})
      /\ listaExec \in Seq(Pids) /\ listaBlock \in Seq(Pids)
   BY <1>1 DEF TypeOK, TiposExternos, TiposListas
<1>3. ToSet(Resto(listaExec)) \subseteq ToSet(listaExec)
   BY <1>2 DEF Resto, ToSet
<1>4. ASSUME \/ \E p \in Pids : ConsolaCrea(p) \/ Consola(p) \/ IO(p)
             \/ IOAvisa \/ CpToma \/ CpNada \/ LargoPlazo \/ HiloDeCPU
             \/ HiloDeMemoria /\ ~MemConsultaFS /\ ~MemCompacta
             \/ Terminado \/ UNCHANGED vars
      PROVE  EnSocket' /\ OperacionTerminada'
   <2>1. /\ UNCHANGED <<fsPedidos, fsRespuestas, listaBlock>>
         /\ pc'["FS"] = pc["FS"] /\ pcb'["FS"] = pcb["FS"]
         /\ pc'["MEM"] = "consulta" <=> pc["MEM"] = "consulta"
         /\ listaExec' \in {listaExec, Resto(listaExec)}
      BY <1>1, <1>4, AjenoAlSocket
   <2>2. EnSocket' BY <2>1
   <2>3. OperacionTerminada' BY <2>1, <1>3 DEF OperacionTerminada
   <2> QED BY <2>2, <2>3
<1>5. CASE CpDespacha
   <2>1. /\ UNCHANGED <<fsPedidos, fsRespuestas, listaBlock>>
         /\ pc'["FS"] = pc["FS"] /\ pcb'["FS"] = pcb["FS"] /\ pc'["MEM"] = pc["MEM"]
         /\ listaExec = <<>>
      BY <1>1, <1>5 DEF CpDespacha, Va, TypeOK, TiposHilos
   <2>2. pc["MEM"] # "consulta"
      BY <1>1, <2>1 DEF UnDuenio, MemTiene, MemAtiende
   <2>3. EnSocket' BY <2>1
   <2>4. ASSUME NEW i \in DOMAIN fsPedidos', fsPedidos'[i].op # "REQ_OP_MEMORIA"
         PROVE  fsPedidos'[i].pid \notin ToSet(listaExec')
      <3>1. PICK j \in DOMAIN listaBlock' : listaBlock'[j] = fsPedidos'[i].pid
         BY <2>1, <2>2, <2>4
      <3>2. TypeOK' /\ CadaPcbEnUnLugar' => BloqueadosNoCorren' BY BloqueadoNoCorre, PTL
      <3> QED BY <1>1, <3>1, <3>2 DEF BloqueadosNoCorren
   <2> QED BY <2>3, <2>4 DEF OperacionTerminada
<1>6. CASE FsToma
   <2>1. libre["MENSAJEAFILESYSTEM"] /\ pc["FS"] = "espera"
      BY <1>6 DEF FsToma, Toma, En
   <2>2. Len(listaExec) = 1 /\ pc["MEM"] # "consulta"
      BY <1>1, <1>2, <2>1 DEF UnDuenio, MemTiene, MemAtiende
   <2>3. fsPedidos = <<>> /\ fsRespuestas = <<>>
      BY <1>2, <2>1, <2>2
   <2>4. /\ pcb'["FS"] = Primero(listaExec) /\ Primero(listaExec) \in Pids
         /\ listaBlock' = Append(listaBlock, Primero(listaExec))
         /\ pc'["FS"] = "envia" /\ pc'["MEM"] = pc["MEM"]
         /\ UNCHANGED <<fsPedidos, fsRespuestas>>
      BY <1>1, <1>2, <1>6, <2>2, UnElemento, PrimeroYResto DEF FsToma, Va, TypeOK, TiposHilos
   <2>5. Len(listaBlock) + 1 \in DOMAIN listaBlock' /\ listaBlock'[Len(listaBlock) + 1] = pcb'["FS"]
      BY <1>2, <2>4
   <2>6. EnSocket' BY <2>2, <2>3, <2>4, <2>5
   <2>7. OperacionTerminada' BY <2>3, <2>4 DEF OperacionTerminada
   <2> QED BY <2>6, <2>7
<1>7. CASE FsEnvia
   <2>1. /\ pc["FS"] = "envia" /\ pc'["FS"] = "avisa_bloqueo" /\ pc'["MEM"] = pc["MEM"]
         /\ UNCHANGED <<pcb, listaBlock, listaExec, fsRespuestas>>
         /\ \E x : fsPedidos' = Append(fsPedidos, x) /\ x.pid = pcb["FS"]
      BY <1>1, <1>7 DEF FsEnvia, Va, En, TypeOK, TiposHilos
   <2>2. PICK x : fsPedidos' = Append(fsPedidos, x) /\ x.pid = pcb["FS"]
      BY <2>1
   <2>3. /\ Len(fsPedidos') = Len(fsPedidos) + 1
         /\ \A i \in DOMAIN fsPedidos' : \/ i \in DOMAIN fsPedidos /\ fsPedidos'[i] = fsPedidos[i]
                                        \/ fsPedidos'[i] = x
      BY <1>2, <2>2
   <2>4. \E i \in DOMAIN listaBlock : listaBlock[i] = pcb["FS"] BY <2>1
   <2>5. Len(fsPedidos') + Len(fsRespuestas') = 1 + Cuenta(pc'["MEM"] = "consulta")
      BY <1>2, <2>1, <2>3
   <2>6. \A i \in DOMAIN fsPedidos' :
            fsPedidos'[i].op # "REQ_OP_MEMORIA" => fsPedidos'[i].pid = pcb'["FS"]
      BY <2>1, <2>2, <2>3
   <2>7. EnSocket' BY <2>1, <2>4, <2>5, <2>6
   <2>8. pcb["FS"] \notin ToSet(listaExec)
      BY <1>1, <2>4, BloqueadoNoCorre DEF BloqueadosNoCorren
   <2>9. OperacionTerminada' BY <2>1, <2>2, <2>3, <2>8 DEF OperacionTerminada
   <2> QED BY <2>7, <2>9
<1>8. CASE FsDesbloquea
   <2>1. /\ pc["FS"] = "recibe" /\ pc'["FS"] = "avisa_listo" /\ pc'["MEM"] = pc["MEM"]
         /\ UNCHANGED <<fsPedidos, listaExec, pcb>>
         /\ fsRespuestas # <<>> /\ fsRespuestas' = Tail(fsRespuestas)
      BY <1>1, <1>8 DEF FsDesbloquea, Va, En, TypeOK, TiposHilos
   <2>2. Len(fsRespuestas') = Len(fsRespuestas) - 1 /\ Len(fsRespuestas) >= 1
      BY <1>2, <2>1
   <2>3. pc["MEM"] # "consulta" => fsPedidos = <<>>
      BY <1>2, <2>1, <2>2
   <2>4. EnSocket' BY <1>2, <2>1, <2>2, <2>3
   <2>5. OperacionTerminada' BY <2>1 DEF OperacionTerminada
   <2> QED BY <2>4, <2>5
<1>9. CASE FsAvisa("avisa_bloqueo", "recibe") \/ FsAvisa("avisa_listo", "espera")
   <2>1. /\ UNCHANGED <<fsPedidos, fsRespuestas, listaBlock, listaExec, pcb>>
         /\ pc'["MEM"] = pc["MEM"]
         /\ \/ pc["FS"] = "avisa_bloqueo" /\ pc'["FS"] = "recibe"
            \/ pc["FS"] = "avisa_listo" /\ pc'["FS"] = "espera"
      BY <1>1, <1>9 DEF FsAvisa, Va, En, TypeOK, TiposHilos
   <2>2. EnSocket' BY <2>1
   <2>3. OperacionTerminada' BY <2>1 DEF OperacionTerminada
   <2> QED BY <2>2, <2>3
<1>10. CASE Filesystem
   <2>1. /\ UNCHANGED <<listaBlock, listaExec, pc, pcb>>
         /\ fsPedidos # <<>> /\ fsPedidos' = Tail(fsPedidos)
         /\ \E x \in {"OK", "OK_OP_MEMORIA"} : fsRespuestas' = Append(fsRespuestas, x)
      BY <1>10 DEF Filesystem
   <2>2. /\ Len(fsPedidos') = Len(fsPedidos) - 1 /\ Len(fsRespuestas') = Len(fsRespuestas) + 1
         /\ \A i \in DOMAIN fsPedidos' : i + 1 \in DOMAIN fsPedidos /\ fsPedidos'[i] = fsPedidos[i + 1]
      BY <1>2, <2>1
   <2>3. Len(fsPedidos') + Len(fsRespuestas') = Len(fsPedidos) + Len(fsRespuestas)
      BY <1>2, <2>2
   <2>4. EnSocket' BY <2>1, <2>2, <2>3
   <2>5. OperacionTerminada' BY <2>1, <2>2 DEF OperacionTerminada
   <2> QED BY <2>4, <2>5
<1>11. CASE MemConsultaFS
   <2>1. /\ pc["MEM"] = "crear" /\ pc'["MEM"] = "consulta" /\ pc'["FS"] = pc["FS"]
         /\ UNCHANGED <<listaBlock, listaExec, pcb, fsRespuestas>>
         /\ \E x : fsPedidos' = Append(fsPedidos, x) /\ x.op = "REQ_OP_MEMORIA"
      BY <1>1, <1>11 DEF MemConsultaFS, Va, En, TypeOK, TiposHilos
   <2>2. PICK x : fsPedidos' = Append(fsPedidos, x) /\ x.op = "REQ_OP_MEMORIA"
      BY <2>1
   <2>3. /\ Len(fsPedidos') = Len(fsPedidos) + 1
         /\ \A i \in DOMAIN fsPedidos' : \/ i \in DOMAIN fsPedidos /\ fsPedidos'[i] = fsPedidos[i]
                                        \/ fsPedidos'[i] = x
      BY <1>2, <2>2
   <2>4. Len(fsPedidos') + Len(fsRespuestas') = Cuenta(FSEspera) + 1
      BY <1>2, <2>1, <2>3
   <2>5. EnSocket' BY <2>1, <2>4
   <2>6. OperacionTerminada' BY <2>1, <2>2, <2>3 DEF OperacionTerminada
   <2> QED BY <2>5, <2>6
<1>12. CASE MemCompacta
   <2>1. /\ pc["MEM"] = "consulta" /\ pc'["MEM"] = "act_ready" /\ pc'["FS"] = pc["FS"]
         /\ UNCHANGED <<listaBlock, listaExec, pcb, fsPedidos>>
         /\ fsRespuestas # <<>> /\ fsRespuestas' = Tail(fsRespuestas)
      BY <1>1, <1>12 DEF MemCompacta, Va, En, TypeOK, TiposHilos
   <2>2. Len(fsRespuestas') = Len(fsRespuestas) - 1 /\ Len(fsRespuestas) >= 1
      BY <1>2, <2>1
   <2>3. fsPedidos # <<>> => FSEspera BY <1>2, <2>1, <2>2
   <2>4. EnSocket' BY <1>2, <2>1, <2>2, <2>3
   <2>5. OperacionTerminada' BY <2>1 DEF OperacionTerminada
   <2> QED BY <2>4, <2>5
<1> QED BY <1>4, <1>5, <1>6, <1>7, <1>8, <1>9, <1>10, <1>11, <1>12
        DEF Next, CortoPlazo, HiloDeFileSystem

\* No process runs while the Filesystem has yet to do what it asked for, although
\* two threads of the Kernel receive on its socket and neither looks at what it gets.
THEOREM NadieSigueSinSuOperacion == Spec => []OperacionTerminada
<1>1. Init => EnSocket /\ OperacionTerminada
   BY DEF Init, EnSocket, FSEspera, Cuenta, OperacionTerminada, Hilos
<1>2. LInv /\ LInv' /\ EnSocket /\ OperacionTerminada /\ [Next]_vars
         => EnSocket' /\ OperacionTerminada'
   BY PasoEnSocket
<1> QED BY <1>1, <1>2, LugaresInductivo, PTL DEF Spec

-----------------------------------------------------------------------------
(* The state of a process, by where its pcb is. *)

EstadosContados ==
    \A p \in Pids :
        /\ EstadoDe(p) \in {"AFUERA", "NEW", "READY", "EXEC", "BLOCK", "EXIT", "LIBERADO"}
        /\ EstadoDe(p) = "AFUERA" <=> p >= cantidadProcesos
        /\ EstadoDe(p) = "NEW"    <=> EnNew(p) # 0
        /\ EstadoDe(p) = "READY"  <=> EnReady(p) # 0
        /\ EstadoDe(p) = "EXEC"   <=> EnExec(p) # 0
        /\ EstadoDe(p) = "BLOCK"  <=> EnBlock(p) # 0
        /\ EstadoDe(p) = "EXIT"   <=> EnExit(p) # 0

\* A process is in at most one place, so the guards of EstadoDe exclude each other.
LEMMA EstadosSonLugares == TypeOK /\ CadaPcbEnUnLugar => EstadosContados
<1> SUFFICES ASSUME TypeOK, CadaPcbEnUnLugar, NEW p \in Pids
             PROVE  /\ EstadoDe(p) \in {"AFUERA", "NEW", "READY", "EXEC", "BLOCK", "EXIT", "LIBERADO"}
                    /\ EstadoDe(p) = "AFUERA" <=> p >= cantidadProcesos
                    /\ EstadoDe(p) = "NEW"    <=> EnNew(p) # 0
                    /\ EstadoDe(p) = "READY"  <=> EnReady(p) # 0
                    /\ EstadoDe(p) = "EXEC"   <=> EnExec(p) # 0
                    /\ EstadoDe(p) = "BLOCK"  <=> EnBlock(p) # 0
                    /\ EstadoDe(p) = "EXIT"   <=> EnExit(p) # 0
   BY DEF EstadosContados
<1>1. /\ p \in ToSet(colaNew)    <=> EnNew(p) # 0
      /\ p \in ToSet(listaReady) <=> EnReady(p) # 0
      /\ p \in ToSet(listaExec)  <=> EnExec(p) # 0
      /\ p \in ToSet(listaExit)  <=> EnExit(p) # 0
   BY VecesNat DEF EnNew, EnReady, EnExec, EnExit, TypeOK, TiposListas
<1>2. p \in ToSet(listaBlock) \cup Bloqueados \cup EnIO <=> EnBlock(p) # 0
   <2>1. /\ Veces(p, listaBlock) \in Nat
         /\ p \in ToSet(listaBlock) <=> Veces(p, listaBlock) # 0
      BY VecesNat DEF TypeOK, TiposListas
   <2>2. /\ VecesColas(p, colaBloqueados) \in Nat
         /\ p \in Bloqueados <=> VecesColas(p, colaBloqueados) # 0
      BY VecesColasNat
   <2>3. Cuenta(p \in EnIO) \in Nat /\ (p \in EnIO <=> Cuenta(p \in EnIO) # 0) BY DEF Cuenta
   <2> HIDE DEF Cuenta
   <2> QED BY <2>1, <2>2, <2>3 DEF EnBlock
<1>3. p \in Nat /\ cantidadProcesos \in Nat BY DEF Pids, TypeOK, TiposPcb
<1>4. /\ EnNew(p) # 0 => EnReady(p) = 0 /\ EnExec(p) = 0 /\ EnBlock(p) = 0 /\ EnExit(p) = 0
      /\ EnExit(p) # 0 => EnNew(p) = 0 /\ EnReady(p) = 0 /\ EnExec(p) = 0 /\ EnBlock(p) = 0
   BY UnicoLugar
<1>5. EnNew(p) # 0 \/ EnReady(p) # 0 \/ EnExec(p) # 0 \/ EnBlock(p) # 0 \/ EnExit(p) # 0
         => ~(p >= cantidadProcesos)
   BY <1>3, UnicoLugar
<1>6. /\ EnReady(p) # 0 => EnExec(p) = 0 /\ EnBlock(p) = 0
      /\ EnExec(p) # 0 => EnReady(p) = 0 /\ EnBlock(p) = 0
   <2>1. /\ EnReady(p) \in Nat /\ EnExec(p) \in Nat /\ EnBlock(p) \in Nat
         /\ EnNew(p) \in Nat /\ EnExit(p) \in Nat
         /\ LugaresDe(p) = EnNew(p) + EnReady(p) + EnExec(p) + EnBlock(p) + EnExit(p)
      BY LugaresSuma
   <2>2. EnReady(p) # 0 \/ EnExec(p) # 0 => LugaresDe(p) = 1 BY UnicoLugar
   <2> QED BY <2>1, <2>2
<1> HIDE DEF EnNew, EnReady, EnExec, EnBlock, EnExit
<1> QED BY <1>1, <1>2, <1>3, <1>4, <1>5, <1>6 DEF EstadoDe

\* The admitted processes of the life cycle are those of the Kernel.
LEMMA AdmitidosSonActivos ==
    ASSUME TypeOK, CadaPcbEnUnLugar, PorDormir
    PROVE  Ciclo!Admitidos = Activos
<1>1. EstadosContados /\ LosActivos BY EstadosSonLugares, QuienesSonActivos
<1>2. \A p \in Pids : /\ EnReady(p) \in Nat /\ EnExec(p) \in Nat /\ EnBlock(p) \in Nat
   BY LugaresSuma
<1>3. \A p \in Pids : EstadoDe(p) \in {"READY", "EXEC", "BLOCK"} <=> p \in Activos
   BY <1>1, <1>2 DEF EstadosContados, LosActivos
<1> QED BY <1>1, <1>3 DEF Ciclo!Admitidos, Ciclo!Procesos, Pids, LosActivos

\* Who is not moved keeps its state, ...
LEMMA MismoEstado ==
    ASSUME EstadosContados, EstadosContados', NEW p \in Pids,
           p >= cantidadProcesos' <=> p >= cantidadProcesos,
           EnNew(p)' = EnNew(p), EnReady(p)' = EnReady(p), EnExec(p)' = EnExec(p),
           EnBlock(p)' = EnBlock(p), EnExit(p)' = EnExit(p)
    PROVE  EstadoDe(p)' = EstadoDe(p)
<1>1. /\ EstadoDe(p) \in {"AFUERA", "NEW", "READY", "EXEC", "BLOCK", "EXIT", "LIBERADO"}
      /\ EstadoDe(p) = "AFUERA" <=> p >= cantidadProcesos
      /\ EstadoDe(p) = "NEW"    <=> EnNew(p) # 0
      /\ EstadoDe(p) = "READY"  <=> EnReady(p) # 0
      /\ EstadoDe(p) = "EXEC"   <=> EnExec(p) # 0
      /\ EstadoDe(p) = "BLOCK"  <=> EnBlock(p) # 0
      /\ EstadoDe(p) = "EXIT"   <=> EnExit(p) # 0
   BY DEF EstadosContados
<1>2. /\ EstadoDe(p)' \in {"AFUERA", "NEW", "READY", "EXEC", "BLOCK", "EXIT", "LIBERADO"}
      /\ EstadoDe(p)' = "AFUERA" <=> p >= cantidadProcesos'
      /\ EstadoDe(p)' = "NEW"    <=> EnNew(p)' # 0
      /\ EstadoDe(p)' = "READY"  <=> EnReady(p)' # 0
      /\ EstadoDe(p)' = "EXEC"   <=> EnExec(p)' # 0
      /\ EstadoDe(p)' = "BLOCK"  <=> EnBlock(p)' # 0
      /\ EstadoDe(p)' = "EXIT"   <=> EnExit(p)' # 0
   BY DEF EstadosContados
<1> QED BY <1>1, <1>2

CuentasNat ==
    \A p \in Pids : /\ EnNew(p) \in Nat /\ EnReady(p) \in Nat /\ EnExec(p) \in Nat
                    /\ EnBlock(p) \in Nat /\ EnExit(p) \in Nat

LEMMA CuentasSonNat == TypeOK => CuentasNat
BY LugaresSuma DEF CuentasNat

Estados == [p \in Pids |-> EstadoDe(p)]

\* ... so a move of one process is one change of state.
LEMMA UnSoloCambio ==
    ASSUME TypeOK, TypeOK', EstadosContados, EstadosContados', NEW q \in Pids,
           NEW new \in Int, NEW ready \in Int, NEW exec \in Int, NEW block \in Int, NEW exit \in Int,
           Mueve(q, new, ready, exec, block, exit),
           \A p \in Pids \ {q} : p >= cantidadProcesos' <=> p >= cantidadProcesos
    PROVE  /\ Estados' = [Estados EXCEPT ![q] = EstadoDe(q)']
           /\ new > 0 => EstadoDe(q)' = "NEW"
           /\ ready < 0 => EstadoDe(q) = "READY"
           /\ ready > 0 => EstadoDe(q)' = "READY"
           /\ exec < 0 => EstadoDe(q) = "EXEC"
           /\ exec > 0 => EstadoDe(q)' = "EXEC"
           /\ block < 0 => EstadoDe(q) = "BLOCK"
           /\ block > 0 => EstadoDe(q)' = "BLOCK"
           /\ new < 0 => EstadoDe(q) = "NEW"
           /\ exit < 0 => EstadoDe(q) = "EXIT"
           /\ exit > 0 => EstadoDe(q)' = "EXIT"
<1>1. ASSUME NEW p \in Pids \ {q} PROVE EstadoDe(p)' = EstadoDe(p)
   <2>1. /\ EnNew(p)' = EnNew(p) /\ EnReady(p)' = EnReady(p) /\ EnExec(p)' = EnExec(p)
         /\ EnBlock(p)' = EnBlock(p) /\ EnExit(p)' = EnExit(p)
      BY LugaresSuma DEF Mueve
   <2>2. p >= cantidadProcesos' <=> p >= cantidadProcesos OBVIOUS
   <2> QED BY <2>1, <2>2, MismoEstado
<1>2. Estados' = [Estados EXCEPT ![q] = EstadoDe(q)']
   <2>1. Estados' = [p \in Pids |-> EstadoDe(p)'] BY DEF Estados
   <2> QED BY <1>1, <2>1 DEF Estados
<1>3. /\ EnNew(q) \in Nat /\ EnReady(q) \in Nat /\ EnExec(q) \in Nat /\ EnBlock(q) \in Nat
      /\ EnExit(q) \in Nat
   BY LugaresSuma
<1>4. /\ EnNew(q)' \in Nat /\ EnReady(q)' \in Nat /\ EnExec(q)' \in Nat /\ EnBlock(q)' \in Nat
      /\ EnExit(q)' \in Nat
   <2>1. CuentasNat' BY CuentasSonNat, PTL
   <2> QED BY <2>1 DEF CuentasNat
<1>5. /\ EnNew(q)' = EnNew(q) + new /\ EnReady(q)' = EnReady(q) + ready
      /\ EnExec(q)' = EnExec(q) + exec /\ EnBlock(q)' = EnBlock(q) + block
      /\ EnExit(q)' = EnExit(q) + exit
   BY DEF Mueve
<1>6. /\ new < 0 => EnNew(q) # 0
      /\ new > 0 => EnNew(q)' # 0
      /\ ready < 0 => EnReady(q) # 0
      /\ ready > 0 => EnReady(q)' # 0
      /\ exec < 0 => EnExec(q) # 0
      /\ exec > 0 => EnExec(q)' # 0
      /\ block < 0 => EnBlock(q) # 0
      /\ block > 0 => EnBlock(q)' # 0
      /\ exit < 0 => EnExit(q) # 0
      /\ exit > 0 => EnExit(q)' # 0
   BY <1>3, <1>4, <1>5
<1> QED BY <1>2, <1>6 DEF EstadosContados

-----------------------------------------------------------------------------
(* Order of arrival. *)

\* colaNew holds its processes in the order of their pids.
OrdenDeLlegada ==
    \A i, j \in 1 .. Len(colaNew) : i < j => colaNew[i] < colaNew[j]

\* A console appends the next pid, and only the head leaves.
LEMMA PasoOrdenDeLlegada ==
    ASSUME LInv, OrdenDeLlegada, [Next]_vars
    PROVE  OrdenDeLlegada'
<1> USE DEF LInv, AInv, IInv, OrdenDeLlegada
<1>1. /\ colaNew \in Seq(Pids) /\ cantidadProcesos \in Nat /\ \A p \in Pids : p \in Nat
      /\ \A i \in 1 .. Len(colaNew) : colaNew[i] \in Pids
   <2>1. \A p \in Pids : p \in Nat BY DEF Pids
   <2> QED BY <2>1 DEF TypeOK, TiposListas, TiposPcb
<1>2. \A i \in 1 .. Len(colaNew) : colaNew[i] < cantidadProcesos
   <2> SUFFICES ASSUME NEW i \in 1 .. Len(colaNew) PROVE colaNew[i] < cantidadProcesos OBVIOUS
   <2>1. colaNew[i] \in ToSet(colaNew) BY <1>1 DEF ToSet
   <2>2. EnNew(colaNew[i]) # 0 BY <1>1, <2>1, VecesNat DEF EnNew
   <2>3. LugaresDe(colaNew[i]) = 1 BY <1>1, <2>2, UnicoLugar
   <2> QED BY <1>1, <2>3, UnicoLugar
<1>3. ASSUME NEW p \in Pids, ConsolaCrea(p) PROVE OrdenDeLlegada'
   <2>1. colaNew' = Append(colaNew, p) /\ p = cantidadProcesos BY <1>3 DEF ConsolaCrea
   <2>2. /\ Len(colaNew') = Len(colaNew) + 1 /\ colaNew'[Len(colaNew) + 1] = p
         /\ \A i \in 1 .. Len(colaNew) : colaNew'[i] = colaNew[i]
      BY <1>1, <2>1, Indices
   <2> QED BY <1>1, <1>2, <2>1, <2>2
<1>4. CASE LpAdmite
   <2>1. colaNew # <<>> /\ colaNew' = Resto(colaNew)
      BY <1>4, ColasNoVacias DEF LpAdmite, En, Admitiendo
   <2>2. /\ Len(colaNew') = Len(colaNew) - 1
         /\ \A i \in 1 .. Len(colaNew) - 1 :
               colaNew'[i] = colaNew[i + 1] /\ i + 1 \in 1 .. Len(colaNew)
      <3>1. \E x : x \in Pids BY <1>1, <2>1
      <3> QED BY <1>1, <2>1, <3>1, Indices
   <2>3. PICK n \in Nat : Len(colaNew) = n /\ Len(colaNew') = n - 1
      <3>1. Len(colaNew) \in Nat BY <1>1
      <3> QED BY <2>2, <3>1
   <2>4. ASSUME NEW i \in 1 .. n - 1, NEW j \in 1 .. n - 1, i < j
         PROVE  colaNew'[i] < colaNew'[j]
      <3>1. i + 1 \in 1 .. n /\ j + 1 \in 1 .. n /\ i + 1 < j + 1 BY <2>4
      <3>2. colaNew[i + 1] < colaNew[j + 1] BY <2>3, <3>1
      <3> QED BY <2>2, <2>3, <3>2
   <2> QED BY <2>3, <2>4
<1>5. CASE colaNew' = colaNew BY <1>5
<1> QED BY <1>3, <1>4, <1>5, CambiosDeMemoria

\* The head of colaNew arrived before every other process in New.
LEMMA LlegoPrimero ==
    ASSUME LInv, OrdenDeLlegada, colaNew # <<>>
    PROVE  \A q \in Pids : EnNew(q) # 0 => colaNew[1] <= q
<1>1. colaNew \in Seq(Pids) /\ \A p \in Pids : p \in Nat
   BY DEF LInv, AInv, IInv, TypeOK, TiposListas, Pids
<1> SUFFICES ASSUME NEW q \in Pids, EnNew(q) # 0 PROVE colaNew[1] <= q OBVIOUS
<1>2. q \in ToSet(colaNew) BY <1>1, VecesNat DEF EnNew
<1>3. PICK i \in 1 .. Len(colaNew) : q = colaNew[i] BY <1>1, <1>2 DEF ToSet
<1>4. 1 \in 1 .. Len(colaNew) /\ colaNew[1] \in Pids /\ (i = 1 \/ 1 < i) BY <1>1, <1>3
<1> QED BY <1>1, <1>3, <1>4 DEF OrdenDeLlegada

-----------------------------------------------------------------------------
(* The refinement. *)

CicloInv == LInv /\ OrdenDeLlegada

LEMMA CicloInductivo == Spec => []CicloInv
<1>1. Init => OrdenDeLlegada BY DEF Init, OrdenDeLlegada
<1>2. LInv /\ OrdenDeLlegada /\ [Next]_vars => OrdenDeLlegada' BY PasoOrdenDeLlegada
<1> QED BY <1>1, <1>2, LugaresInductivo, PTL DEF Spec, CicloInv

LEMMA InitDelCiclo == ASSUME Init PROVE Ciclo!Init
<1>1. \A p \in Pids : p >= cantidadProcesos BY DEF Init, Pids
<1>2. \A p \in Pids : EstadoDe(p) = "AFUERA"
   <2>1. IInv BY InitIInv
   <2>2. TypeOK BY <2>1 DEF IInv
   <2>3. ASSUME NEW p \in Pids
         PROVE  p \notin ToSet(colaNew) /\ p \notin ToSet(listaReady) /\ p \notin ToSet(listaExec)
                /\ p \notin ToSet(listaExit) /\ p \notin ToSet(listaBlock) /\ p \notin Bloqueados
                /\ p \notin EnIO
      BY DEF Init, ToSet, Bloqueados, EnIO, En
   <2> QED BY <1>1, <2>3 DEF EstadoDe
<1> QED BY <1>2 DEF Ciclo!Init, Ciclo!Procesos, Pids

\* A move of one process in the Kernel is a step of the life cycle.
LEMMA PasoDelCiclo ==
    ASSUME CicloInv, CicloInv', [Next]_vars
    PROVE  [Ciclo!Next]_(Estados)
<1> USE DEF CicloInv, LInv
<1>1. /\ TypeOK /\ TypeOK' /\ EstadosContados /\ EstadosContados'
   <2>1. TypeOK /\ TypeOK' BY DEF AInv, IInv
   <2>2. EstadosContados BY <2>1, EstadosSonLugares
   <2>3. EstadosContados' BY <2>1, EstadosSonLugares, PTL
   <2> QED BY <2>1, <2>2, <2>3
<1> DEFINE Mismos == \A p \in Pids : p >= cantidadProcesos' <=> p >= cantidadProcesos
<1>2. \/ Mismos \/ \E q \in Pids : ConsolaCrea(q)
   BY CambiosDeMemoria
<1>3. ASSUME NEW q \in Pids, ConsolaCrea(q) PROVE Ciclo!Crea(q)
   <2>1. Mueve(q, 1, 0, 0, 0, 0) BY <1>1, <1>3, MueveCrea
   <2>2. /\ q = cantidadProcesos /\ cantidadProcesos' = cantidadProcesos + 1
         /\ cantidadProcesos \in Nat /\ \A p \in Pids : p \in Nat
      <3>1. \A p \in Pids : p \in Nat BY DEF Pids
      <3> QED BY <1>1, <1>3, <3>1 DEF ConsolaCrea, TypeOK, TiposPcb
   <2>3. \A p \in Pids \ {q} : p >= cantidadProcesos' <=> p >= cantidadProcesos BY <2>2
   <2>4. Estados' = [Estados EXCEPT ![q] = "NEW"] BY <1>1, <2>1, <2>3, UnSoloCambio
   <2>5. EstadoDe(q) = "AFUERA" BY <1>1, <2>2 DEF EstadosContados
   <2>6. \A p \in 0 .. q - 1 : p \in Pids /\ EstadoDe(p) # "AFUERA"
      <3> SUFFICES ASSUME NEW p \in 0 .. q - 1 PROVE p \in Pids /\ EstadoDe(p) # "AFUERA" OBVIOUS
      <3>1. p \in Pids BY CantidadesAssumption DEF Pids
      <3>2. ~(p >= cantidadProcesos) BY <2>2
      <3> QED BY <1>1, <3>1, <3>2 DEF EstadosContados
   <2> QED BY <2>4, <2>5, <2>6 DEF Ciclo!Crea, Ciclo!Cambia, Estados
<1>4. CASE LpAdmite /\ colaNew # <<>> /\ Mueve(colaNew[1], -1, 1, 0, 0, 0) /\ Mismos
   <2>1. PICK q \in Pids : q = colaNew[1]
      BY <1>1, <1>4 DEF TypeOK, TiposListas
   <2>2. \A p \in Pids : EnNew(p) # 0 => q <= p BY <1>4, <2>1, LlegoPrimero
   <2>3. Mueve(q, -1, 1, 0, 0, 0) BY <1>4, <2>1
   <2>4. Estados' = [Estados EXCEPT ![q] = "READY"] /\ EstadoDe(q) = "NEW"
      BY <1>1, <1>4, <2>1, <2>3, UnSoloCambio
   <2>5. \A p \in 0 .. q - 1 : p \in Pids /\ EstadoDe(p) # "NEW"
      <3> SUFFICES ASSUME NEW p \in 0 .. q - 1 PROVE p \in Pids /\ EstadoDe(p) # "NEW" OBVIOUS
      <3>1. p \in Pids /\ ~(q <= p) BY <2>1, CantidadesAssumption DEF Pids
      <3> QED BY <1>1, <2>2, <3>1 DEF EstadosContados
   <2>6. Cardinality(Ciclo!Admitidos) < Grado
      <3>1. Cuenta(Admitiendo /\ ~En("LP", "grado")) = 1 BY <1>4 DEF LpAdmite, En, Admitiendo, Cuenta
      <3>2. Cardinality(Activos) \in Nat BY <1>1, ActivosFinitos
      <3>3. Sueltos >= 1 /\ Sueltos \in Nat
         <4>1. Cuenta(EnFin("CPU")) \in Nat /\ Cuenta(EnFin("MEM")) \in Nat BY DEF Cuenta
         <4>2. grado \in Nat BY <1>1 DEF TypeOK, TiposMutex
         <4> QED BY <3>1, <4>1, <4>2 DEF Sueltos
      <3>4. Cardinality(Activos) < Grado BY <3>2, <3>3, CantidadesAssumption DEF PermisosEnPoder
      <3> QED BY <1>1, <3>4, AdmitidosSonActivos
   <2>7. Ciclo!Admite(q) BY <2>1, <2>4, <2>5, <2>6 DEF Ciclo!Admite, Ciclo!Cambia, Estados, Ciclo!Cardinality, Cardinality
   <2> QED BY <2>1, <2>7 DEF Ciclo!Next, Ciclo!Procesos, Pids
<1>5. CASE CpDespacha /\ Mismos /\ \E q \in Pids : EnReady(q) # 0 /\ Mueve(q, 0, -1, 1, 0, 0)
   <2>1. PICK q \in Pids : Mueve(q, 0, -1, 1, 0, 0) BY <1>5
   <2>2. Estados' = [Estados EXCEPT ![q] = "EXEC"] /\ EstadoDe(q) = "READY"
      BY <1>1, <1>5, <2>1, UnSoloCambio
   <2>3. \A p \in Pids : EstadoDe(p) # "EXEC"
      <3>1. \A p \in Pids : EnExec(p) = 0 BY <1>5, VecesVacia DEF CpDespacha, EnExec
      <3> QED BY <1>1, <3>1 DEF EstadosContados
   <2>4. Ciclo!Despacha(q)
      BY <2>2, <2>3 DEF Ciclo!Despacha, Ciclo!Cambia, Ciclo!Procesos, Estados, Pids
   <2> QED BY <2>4 DEF Ciclo!Next, Ciclo!Procesos, Pids
\* the other moves
<1>6. ASSUME NEW q \in Pids, Mismos,
             \/ Mueve(q, 0, 1, -1, 0, 0) \/ Mueve(q, 0, 0, -1, 1, 0) \/ Mueve(q, 0, 1, 0, -1, 0)
             \/ Mueve(q, 0, 0, -1, 0, 1)
      PROVE  Ciclo!Desaloja(q) \/ Ciclo!Bloquea(q) \/ Ciclo!Desbloquea(q) \/ Ciclo!Finaliza(q)
   <2> USE DEF Ciclo!Desaloja, Ciclo!Bloquea, Ciclo!Desbloquea, Ciclo!Finaliza, Ciclo!Cambia
   <2>1. CASE Mueve(q, 0, 1, -1, 0, 0)
      <3>1. /\ Estados' = [Estados EXCEPT ![q] = "READY"] /\ EstadoDe(q) = "EXEC"
         BY <1>1, <1>6, <2>1, UnSoloCambio
      <3> QED BY <3>1 DEF Estados
   <2>2. CASE Mueve(q, 0, 0, -1, 1, 0)
      <3>1. /\ Estados' = [Estados EXCEPT ![q] = "BLOCK"] /\ EstadoDe(q) = "EXEC"
         BY <1>1, <1>6, <2>2, UnSoloCambio
      <3> QED BY <3>1 DEF Estados
   <2>3. CASE Mueve(q, 0, 1, 0, -1, 0)
      <3>1. /\ Estados' = [Estados EXCEPT ![q] = "READY"] /\ EstadoDe(q) = "BLOCK"
         BY <1>1, <1>6, <2>3, UnSoloCambio
      <3> QED BY <3>1 DEF Estados
   <2>4. CASE Mueve(q, 0, 0, -1, 0, 1)
      <3>1. /\ Estados' = [Estados EXCEPT ![q] = "EXIT"] /\ EstadoDe(q) = "EXEC"
         BY <1>1, <1>6, <2>4, UnSoloCambio
      <3> QED BY <3>1 DEF Estados
   <2> QED BY <1>6, <2>1, <2>2, <2>3, <2>4
<1>7. CASE LpLibera /\ listaExit # <<>> /\ Mueve(listaExit[1], 0, 0, 0, 0, -1) /\ Mismos
   <2>1. PICK q \in Pids : q = listaExit[1] BY <1>1, <1>7 DEF TypeOK, TiposListas
   <2>2. Mueve(q, 0, 0, 0, 0, -1) BY <1>7, <2>1
   <2>3. Estados' = [Estados EXCEPT ![q] = EstadoDe(q)'] /\ EstadoDe(q) = "EXIT"
      BY <1>1, <1>7, <2>1, <2>2, UnSoloCambio
   <2>4. EstadoDe(q)' = "LIBERADO"
      <3>1. /\ EnNew(q) = 0 /\ EnReady(q) = 0 /\ EnExec(q) = 0 /\ EnBlock(q) = 0
            /\ EnExit(q) = 1 /\ ~(q >= cantidadProcesos)
         <4>1. EnExit(q) # 0 BY <1>1, <2>1, <2>3 DEF EstadosContados
         <4>2. /\ EnNew(q) \in Nat /\ EnReady(q) \in Nat /\ EnExec(q) \in Nat
               /\ EnBlock(q) \in Nat /\ EnExit(q) \in Nat
               /\ LugaresDe(q) = EnNew(q) + EnReady(q) + EnExec(q) + EnBlock(q) + EnExit(q)
            BY <1>1, LugaresSuma
         <4>3. /\ EnNew(q) = 0 /\ EnReady(q) = 0 /\ EnExec(q) = 0 /\ EnBlock(q) = 0
               /\ LugaresDe(q) = 1
            BY <1>1, <2>1, <4>1, UnicoLugar
         <4>4. ~(q >= cantidadProcesos) BY <1>1, <2>1, <2>3 DEF EstadosContados
         <4> QED BY <4>2, <4>3, <4>4
      <3>2. /\ EnNew(q)' = 0 /\ EnReady(q)' = 0 /\ EnExec(q)' = 0 /\ EnBlock(q)' = 0
            /\ EnExit(q)' = 0 /\ ~(q >= cantidadProcesos')
         BY <1>7, <2>1, <2>2, <3>1 DEF Mueve
      <3> QED BY <1>1, <2>1, <3>2 DEF EstadosContados
   <2>5. Ciclo!Destruye(q) BY <2>3, <2>4 DEF Ciclo!Destruye, Ciclo!Cambia, Estados
   <2> QED BY <2>1, <2>5 DEF Ciclo!Next, Ciclo!Procesos, Pids
<1>8. CASE Quieto /\ Mismos
   <2>1. \A p \in Pids : EstadoDe(p)' = EstadoDe(p)
      <3> SUFFICES ASSUME NEW p \in Pids PROVE EstadoDe(p)' = EstadoDe(p) OBVIOUS
      <3>1. /\ EnNew(p)' = EnNew(p) /\ EnReady(p)' = EnReady(p) /\ EnExec(p)' = EnExec(p)
            /\ EnBlock(p)' = EnBlock(p) /\ EnExit(p)' = EnExit(p)
         BY <1>1, <1>8, LugaresSuma DEF Quieto, Mueve
      <3> QED BY <1>1, <1>8, <3>1, MismoEstado
   <2>2. Estados' = [p \in Pids |-> EstadoDe(p)'] BY DEF Estados
   <2>3. Estados' = Estados BY <2>1, <2>2 DEF Estados
   <2> QED BY <2>3
<1>9. CASE \E q \in Pids : ConsolaCrea(q)
   BY <1>3, <1>9 DEF Ciclo!Next, Ciclo!Procesos, Pids
<1>10. CASE Mismos
   <2>1. Movimiento BY Movimientos
   <2>2. ASSUME Len(listaExec) = 1 PROVE listaExec[1] \in Pids
      BY <1>1, <2>2, UnElemento DEF TypeOK, TiposListas
   <2>3. ASSUME NEW q \in Pids,
             \/ Mueve(q, 0, 1, -1, 0, 0) \/ Mueve(q, 0, 0, -1, 1, 0) \/ Mueve(q, 0, 1, 0, -1, 0)
             \/ Mueve(q, 0, 0, -1, 0, 1)
         PROVE Ciclo!Next
      BY <1>6, <1>10, <2>3 DEF Ciclo!Next, Ciclo!Procesos, Pids
   <2>4. CASE CpuYield /\ Len(listaExec) = 1 /\ Mueve(listaExec[1], 0, 1, -1, 0, 0)
      BY <2>2, <2>3, <2>4
   <2>5. CASE Len(listaExec) = 1 /\ Mueve(listaExec[1], 0, 0, -1, 1, 0)
      BY <2>2, <2>3, <2>5
   <2>6. CASE \E q \in Pids : Mueve(q, 0, 1, 0, -1, 0)
      BY <2>3, <2>6
   <2>7. CASE Len(listaExec) = 1 /\ Mueve(listaExec[1], 0, 0, -1, 0, 1)
      BY <2>2, <2>3, <2>7
   <2> QED
      BY <1>3, <1>4, <1>5, <1>7, <1>8, <1>9, <1>10, <2>1, <2>4, <2>5, <2>6, <2>7 DEF Movimiento
<1> QED BY <1>2, <1>9, <1>10

\* Every behaviour of the Kernel is one of the five-state diagram: one process at
\* a time in Exec, admitted in order of arrival, never more than the degree.
THEOREM CicloImplementado == Spec => ImplementaCiclo
<1>1. Init => Ciclo!Init BY InitDelCiclo
<1>2. CicloInv /\ CicloInv' /\ [Next]_vars => [Ciclo!Next]_(Estados) BY PasoDelCiclo
<1> QED BY <1>1, <1>2, CicloInductivo, PTL DEF Spec, ImplementaCiclo, Ciclo!Spec, Estados
=============================================================================
