--------------------------- MODULE MemoriaProofs ---------------------------
(***************************************************************************)
(* Proofs about Memoria: segments are apart and holes are free, for every  *)
(* size of memory and of segments and each algorithm of assignment, and    *)
(* Memoria implements MemoriaVirtual until memcpy copies bytes that        *)
(* overlap downwards or a compaction moves the segment of a transfer.      *)
(*                                                                         *)
(* The invariant MInv speaks of the pairs of a process and an entry, so    *)
(* that what the actions do to the tables is told once (AgregaSegmento,    *)
(* QuitaSegmento, MueveEntrada, AgregaTabla, QuitaTabla) and what they do  *)
(* to the bytes is arithmetic of intervals.                                *)
(***************************************************************************)
EXTENDS Memoria, TLAPS, WellFoundedInduction, SequenceTheorems, FiniteSetTheorems

\* A set of naturals that is not empty has a least element.
LEMMA MinimoNatural == \A S \in SUBSET Nat : S # {} => \E m \in S : \A k \in S : m <= k
<1> SUFFICES ASSUME NEW S \in SUBSET Nat, S # {}
             PROVE  \E m \in S : \A k \in S : m <= k
   OBVIOUS
<1>1. PICK m \in S : \A k \in S : ~(<<k, m>> \in OpToRel(<, Nat))
   BY NatLessThanWellFounded, WFMin
<1>2. \A k \in S : ~(k < m) BY <1>1 DEF OpToRel
<1> QED BY <1>2

\* A function on 1 .. n is a sequence.
LEMMA EsSeq ==
    ASSUME NEW T, NEW n \in Nat, NEW s \in [1 .. n -> T]
    PROVE  s \in Seq(T)
OBVIOUS

\* f[i] is the first i sequences of s, one after another.
Acumula(f, s, n) == \A i \in 1 .. n : f[i] = IF i = 1 THEN s[i] ELSE f[i - 1] \o s[i]

\* The function that FlattenSeq defines by recursion exists.
LEMMA AplanaExiste ==
    ASSUME NEW T, NEW n \in Nat \ {0}, NEW s \in [1 .. n -> Seq(T)]
    PROVE  \E f \in [1 .. n -> Seq(T)] : Acumula(f, s, n)
<1> DEFINE Bien(k) == \E f \in [1 .. k -> Seq(T)] : Acumula(f, s, k)
           Malos == {k \in 1 .. n : ~Bien(k)}
<1>0. Bien(n) => \E f \in [1 .. n -> Seq(T)] : Acumula(f, s, n) OBVIOUS
<1> SUFFICES ASSUME ~Bien(n) PROVE FALSE
   BY <1>0
<1>1. n \in Malos /\ Malos \in SUBSET Nat
   <2> HIDE DEF Bien
   <2> QED OBVIOUS
<1>2. PICK m \in Malos : \A k \in Malos : m <= k
   <2> HIDE DEF Malos
   <2> QED BY <1>1, MinimoNatural
<1>m. m \in 1 .. n /\ ~Bien(m) /\ \A k \in 1 .. n : k < m => Bien(k)
   <2> HIDE DEF Bien
   <2> QED BY <1>2
<1>3. CASE m = 1
   <2> DEFINE f == [i \in 1 .. 1 |-> s[i]]
   <2>1. f \in [1 .. 1 -> Seq(T)] OBVIOUS
   <2>2. Acumula(f, s, 1) BY DEF Acumula
   <2>3. Bien(1) BY <2>1, <2>2
   <2> HIDE DEF Bien
   <2> QED BY <1>m, <1>3, <2>3
<1>4. CASE m # 1
   <2>1. m \in 2 .. n /\ m - 1 \in 1 .. n /\ m - 1 < m
      <3> HIDE DEF Bien
      <3> QED BY <1>m, <1>4
   <2>2. Bien(m - 1)
      <3> HIDE DEF Bien
      <3> QED BY <1>m, <2>1
   <2>3. PICK f \in [1 .. m - 1 -> Seq(T)] : Acumula(f, s, m - 1)
      BY <2>2
   <2> DEFINE g == [i \in 1 .. m |-> IF i = m THEN f[m - 1] \o s[m] ELSE f[i]]
   <2>4. f[m - 1] \in Seq(T) /\ s[m] \in Seq(T) BY <2>1, <2>3
   <2>5. f[m - 1] \o s[m] \in Seq(T) BY <2>4
   <2> HIDE DEF Bien, Malos
   <2>6. g \in [1 .. m -> Seq(T)]
      <3>1. ASSUME NEW i \in 1 .. m, i # m PROVE f[i] \in Seq(T)
         <4>1. i \in 1 .. m - 1 BY <2>1, <3>1
         <4> QED BY <4>1
      <3>2. ASSUME NEW i \in 1 .. m PROVE g[i] \in Seq(T) BY <2>5, <3>1
      <3> QED BY <3>2
   <2>7. ASSUME NEW i \in 1 .. m
         PROVE  g[i] = IF i = 1 THEN s[i] ELSE g[i - 1] \o s[i]
      <3>1. CASE i = m
         <4>1. i - 1 \in 1 .. m /\ i - 1 # m /\ i - 1 = m - 1 BY <3>1, <2>1
         <4>2. g[i - 1] = f[m - 1] BY <4>1
         <4>3. g[i] = f[m - 1] \o s[m] BY <3>1
         <4>4. i # 1 /\ s[i] = s[m] BY <3>1, <2>1
         <4> HIDE DEF g
         <4> QED BY <4>2, <4>3, <4>4
      <3>2. CASE i # m
         <4>1. i \in 1 .. m - 1 BY <2>1, <3>2
         <4>2. g[i] = f[i] BY <3>2
         <4>3. f[i] = IF i = 1 THEN s[i] ELSE f[i - 1] \o s[i] BY <2>3, <4>1 DEF Acumula
         <4>4. i # 1 => g[i - 1] = f[i - 1] BY <4>1, <2>1
         <4> HIDE DEF g
         <4> QED BY <4>2, <4>3, <4>4
      <3> QED BY <3>1, <3>2
   <2>8. Acumula(g, s, m)
      <3> HIDE DEF g
      <3> QED BY <2>7 DEF Acumula
   <2>9. Bien(m)
      <3> HIDE DEF g
      <3> USE DEF Bien
      <3> QED BY <2>6, <2>8
   <2> HIDE DEF Bien
   <2> QED BY <1>m, <2>9
<1> QED BY <1>3, <1>4

\* The elements of two sequences put together are those of both.
LEMMA UneConjuntos ==
    ASSUME NEW T, NEW s \in Seq(T), NEW t \in Seq(T)
    PROVE  ToSet(s \o t) = ToSet(s) \cup ToSet(t)
<1>1. s \o t \in Seq(T) /\ Len(s \o t) = Len(s) + Len(t) OBVIOUS
<1>2. \A i \in 1 .. Len(s) + Len(t) :
         (s \o t)[i] = IF i <= Len(s) THEN s[i] ELSE t[i - Len(s)]
   OBVIOUS
<1>3. /\ DOMAIN (s \o t) = 1 .. Len(s) + Len(t)
      /\ DOMAIN s = 1 .. Len(s) /\ DOMAIN t = 1 .. Len(t) /\ Len(s) \in Nat /\ Len(t) \in Nat
   BY <1>1
<1>4. ToSet(s \o t) \subseteq ToSet(s) \cup ToSet(t)
   <2>1. ASSUME NEW i \in 1 .. Len(s) + Len(t)
         PROVE  (s \o t)[i] \in ToSet(s) \cup ToSet(t)
      <3>1. CASE i <= Len(s)
         <4>1. i \in 1 .. Len(s) BY <3>1, <1>3
         <4> QED BY <4>1, <1>2, <1>3, <3>1 DEF ToSet
      <3>2. CASE i > Len(s)
         <4>1. i - Len(s) \in 1 .. Len(t) BY <3>2, <1>3
         <4>2. (s \o t)[i] = t[i - Len(s)] BY <3>2, <1>2, <1>3
         <4> QED BY <4>1, <4>2, <1>3 DEF ToSet
      <3> QED BY <3>1, <3>2, <1>3
   <2> QED BY <2>1, <1>3 DEF ToSet
<1>5. ASSUME NEW i \in 1 .. Len(s) PROVE s[i] \in ToSet(s \o t)
   <2>1. i \in 1 .. Len(s) + Len(t) /\ (s \o t)[i] = s[i] BY <1>2, <1>3
   <2> QED BY <2>1, <1>3 DEF ToSet
<1>6. ASSUME NEW i \in 1 .. Len(t) PROVE t[i] \in ToSet(s \o t)
   <2>1. i + Len(s) \in 1 .. Len(s) + Len(t) BY <1>3
   <2>2. (s \o t)[i + Len(s)] = t[i]
      <3>1. ~(i + Len(s) <= Len(s)) /\ i + Len(s) - Len(s) = i BY <1>3
      <3> QED BY <1>2, <2>1, <3>1
   <2> QED BY <2>1, <2>2, <1>3 DEF ToSet
<1> QED BY <1>3, <1>4, <1>5, <1>6 DEF ToSet

\* FlattenSeq gives a sequence, with the elements of the sequences and no other.
LEMMA AplanaTiene ==
    ASSUME NEW T, NEW s \in Seq(Seq(T))
    PROVE  /\ FlattenSeq(s) \in Seq(T)
           /\ ToSet(FlattenSeq(s)) = UNION {ToSet(s[i]) : i \in DOMAIN s}
<1>1. CASE Len(s) = 0
   <2>1. s = <<>> BY <1>1
   <2>2. FlattenSeq(s) = <<>> BY <2>1, <1>1 DEF FlattenSeq
   <2>3. DOMAIN s = {} /\ ToSet(<<>>) = {} BY <2>1 DEF ToSet
   <2> QED BY <2>2, <2>3
<1>2. CASE Len(s) # 0
   <2>1. PICK n \in Nat \ {0} : n = Len(s) BY <1>2
   <2>2. s \in [1 .. n -> Seq(T)] BY <2>1
   <2>3. PICK g : /\ FlattenSeq(s) = g[n]
                  /\ \A i \in 1 .. n : g[i] = IF i = 1 THEN s[i] ELSE g[i - 1] \o s[i]
      <3> DEFINE Es(f) == f = [i \in 1 .. Len(s) |-> IF i = 1 THEN s[i] ELSE f[i - 1] \o s[i]]
      <3>1. FlattenSeq(s) = (CHOOSE f : Es(f))[Len(s)] BY <1>2 DEF FlattenSeq
      <3>h. PICK h \in [1 .. n -> Seq(T)] : Acumula(h, s, n)
         <4> HIDE DEF Es
         <4> QED BY <2>2, AplanaExiste
      <3>2. Es(h)
         <4>1. h = [i \in 1 .. n |-> h[i]] OBVIOUS
         <4>2. h = [i \in 1 .. n |-> IF i = 1 THEN s[i] ELSE h[i - 1] \o s[i]] BY <4>1, <3>h DEF Acumula
         <4> QED BY <2>1, <4>2
      <3>3. PICK g : g = CHOOSE f : Es(f) OBVIOUS
      <3>4. Es(g)
         <4> HIDE DEF Es
         <4> QED BY <3>2, <3>3
      <3>5. g = [i \in 1 .. n |-> IF i = 1 THEN s[i] ELSE g[i - 1] \o s[i]]
         BY <3>4, <2>1
      <3>6. \A i \in 1 .. n : g[i] = IF i = 1 THEN s[i] ELSE g[i - 1] \o s[i]
         BY <3>5
      <3>7. FlattenSeq(s) = g[n]
         <4> HIDE DEF Es
         <4> QED BY <3>1, <3>3, <2>1
      <3> QED BY <3>6, <3>7
   <2> DEFINE Unidos(i) == UNION {ToSet(s[j]) : j \in 1 .. i}
   <2> DEFINE Malos == {i \in 1 .. n : ~(g[i] \in Seq(T) /\ ToSet(g[i]) = Unidos(i))}
   <2>6. Malos = {}
      <3>1. SUFFICES ASSUME Malos # {} PROVE FALSE OBVIOUS
      <3>0. Malos \in SUBSET Nat OBVIOUS
      <3>2. PICK m \in Malos : \A k \in Malos : m <= k
         <4> HIDE DEF Malos
         <4> QED BY <3>0, <3>1, MinimoNatural
      <3>3. CASE m = 1
         <4>1. g[1] = s[1] BY <2>3, <2>1
         <4>2. 1 .. 1 = {1} OBVIOUS
         <4>3. Unidos(1) = ToSet(s[1]) BY <4>2
         <4>4. s[1] \in Seq(T) BY <2>2, <2>1
         <4> HIDE DEF Unidos
         <4> QED BY <3>2, <3>3, <4>1, <4>3, <4>4
      <3>4. CASE m # 1
         <4>1. m \in 2 .. n /\ m - 1 \in 1 .. n BY <3>2, <3>4
         <4>2. g[m - 1] \in Seq(T) /\ ToSet(g[m - 1]) = Unidos(m - 1)
            <5> HIDE DEF Unidos
            <5> QED BY <3>2, <4>1
         <4>3. g[m] = g[m - 1] \o s[m]
            <5>1. m \in 1 .. n /\ m # 1 BY <4>1
            <5> HIDE DEF Malos
            <5> QED BY <2>3, <5>1
         <4>4. s[m] \in Seq(T) BY <2>2, <4>1
         <4>5. g[m] \in Seq(T) BY <4>2, <4>3, <4>4
         <4>6. ToSet(g[m - 1] \o s[m]) = ToSet(g[m - 1]) \cup ToSet(s[m])
            <5> HIDE DEF Malos, Unidos
            <5> QED BY <4>2, <4>4, UneConjuntos
         <4>7. 1 .. m = (1 .. m - 1) \cup {m} BY <4>1
         <4>8. Unidos(m) = Unidos(m - 1) \cup ToSet(s[m]) BY <4>7
         <4> HIDE DEF Unidos
         <4> QED BY <3>2, <4>2, <4>3, <4>5, <4>6, <4>8
      <3> QED BY <3>3, <3>4
   <2>7. n \in 1 .. n BY <2>1
   <2>8. g[n] \in Seq(T) /\ ToSet(g[n]) = Unidos(n)
      <3> HIDE DEF Unidos
      <3> QED BY <2>6, <2>7
   <2>9. DOMAIN s = 1 .. n BY <2>1
   <2> QED BY <2>3, <2>8, <2>9
<1> QED BY <1>1, <1>2

-----------------------------------------------------------------------------
(* The tables. *)

\* What a list of tables is made of.
TiposTablas == Seq([pid : Pids, tabla : Seq(EntradaTabla)])

\* Every table starts with segment 0; no process has two tables, nor a table
\* two segments of the same id.
BuenasTablas(tablas) ==
    /\ tablas \in TiposTablas
    /\ \A t \in DOMAIN tablas : tablas[t].tabla # <<>> /\ tablas[t].tabla[1] = entradaSegm0
    /\ \A t, u \in DOMAIN tablas : tablas[t].pid = tablas[u].pid => t = u
    /\ \A t \in DOMAIN tablas : \A k, l \in DOMAIN tablas[t].tabla :
          tablas[t].tabla[k].id = tablas[t].tabla[l].id => k = l

\* the segments that processes asked for, each with its process
Asignados(tablas) ==
    {a \in Pids \X EntradaTabla :
        \E t \in DOMAIN tablas : \E k \in 2 .. Len(tablas[t].tabla) :
            tablas[t].pid = a[1] /\ tablas[t].tabla[k] = a[2]}

\* The positions of the segments in the tables.
Posiciones(tablas) ==
    UNION {{<<t, k>> : k \in 2 .. Len(tablas[t].tabla)} : t \in DOMAIN tablas}

\* What a table of BuenasTablas is, in parts that the provers can use.
LEMMA UnaTabla ==
    ASSUME NEW tablas, BuenasTablas(tablas), NEW t \in DOMAIN tablas
    PROVE  /\ tablas \in Seq([pid : Pids, tabla : Seq(EntradaTabla)])
           /\ Len(tablas) \in Nat /\ DOMAIN tablas = 1 .. Len(tablas)
           /\ t \in 1 .. Len(tablas)
           /\ tablas[t] \in [pid : Pids, tabla : Seq(EntradaTabla)]
           /\ tablas[t].pid \in Pids /\ tablas[t].tabla \in Seq(EntradaTabla)
           /\ Len(tablas[t].tabla) \in Nat \ {0}
           /\ DOMAIN tablas[t].tabla = 1 .. Len(tablas[t].tabla)
           /\ 1 \in DOMAIN tablas[t].tabla /\ tablas[t].tabla[1] = entradaSegm0
           /\ \A k \in 1 .. Len(tablas[t].tabla) : tablas[t].tabla[k] \in EntradaTabla
<1>1. tablas \in Seq([pid : Pids, tabla : Seq(EntradaTabla)]) BY DEF BuenasTablas, TiposTablas
<1>2. /\ Len(tablas) \in Nat /\ DOMAIN tablas = 1 .. Len(tablas)
      /\ tablas[t] \in [pid : Pids, tabla : Seq(EntradaTabla)]
   <2>1. PICK R : R = [pid : Pids, tabla : Seq(EntradaTabla)] OBVIOUS
   <2>2. tablas \in Seq(R) BY <1>1, <2>1
   <2>3. Len(tablas) \in Nat /\ DOMAIN tablas = 1 .. Len(tablas) /\ tablas[t] \in R BY <2>2
   <2> QED BY <2>1, <2>3
<1>3. PICK s \in Seq(EntradaTabla) : s = tablas[t].tabla BY <1>2
<1>4. s # <<>> /\ s[1] = entradaSegm0 BY <1>3 DEF BuenasTablas
<1>5. Len(s) \in Nat \ {0} /\ DOMAIN s = 1 .. Len(s) /\ 1 \in DOMAIN s
   BY <1>4
<1>6. \A k \in 1 .. Len(s) : s[k] \in EntradaTabla OBVIOUS
<1> QED BY <1>1, <1>2, <1>3, <1>4, <1>5, <1>6

\* The global table lists the position of every segment.
LEMMA GlobalEs ==
    ASSUME NEW tablas, BuenasTablas(tablas)
    PROVE  /\ TablaGlobal(tablas) \in Seq(Nat \X Nat)
           /\ ToSet(TablaGlobal(tablas)) = Posiciones(tablas)
<1>1. PICK s : s = [t \in DOMAIN tablas |-> [k \in 1 .. Len(tablas[t].tabla) - 1 |-> <<t, k + 1>>]]
   OBVIOUS
<1>2. TablaGlobal(tablas) = FlattenSeq(s) BY <1>1 DEF TablaGlobal
<1>3. Len(tablas) \in Nat /\ DOMAIN tablas = 1 .. Len(tablas)
   BY DEF BuenasTablas, TiposTablas
<1>4. ASSUME NEW t \in DOMAIN tablas
      PROVE  /\ s[t] \in Seq(Nat \X Nat)
             /\ ToSet(s[t]) = {<<t, k>> : k \in 2 .. Len(tablas[t].tabla)}
   <2>0. Len(tablas[t].tabla) \in Nat \ {0} BY UnaTabla
   <2>1. PICK n \in Nat : n = Len(tablas[t].tabla) - 1 BY <2>0
   <2>2. t \in Nat BY <1>3
   <2>3. s[t] = [k \in 1 .. n |-> <<t, k + 1>>] BY <1>1, <2>1
   <2>4. s[t] \in [1 .. n -> Nat \X Nat] BY <2>2, <2>3
   <2>5. s[t] \in Seq(Nat \X Nat) BY <2>4, EsSeq
   <2>6. ToSet(s[t]) = {<<t, k + 1>> : k \in 1 .. n} BY <2>3 DEF ToSet
   <2>7. \A k \in 2 .. n + 1 : k - 1 \in 1 .. n /\ (k - 1) + 1 = k OBVIOUS
   <2>8. \A k \in 1 .. n : k + 1 \in 2 .. n + 1 OBVIOUS
   <2>9. {<<t, k + 1>> : k \in 1 .. n} = {<<t, k>> : k \in 2 .. n + 1}
      <3>1. ASSUME NEW k \in 2 .. n + 1 PROVE <<t, k>> \in {<<t, j + 1>> : j \in 1 .. n}
         <4>1. PICK j \in 1 .. n : j + 1 = k BY <2>7
         <4> QED BY <4>1
      <3> QED BY <2>8, <3>1
   <2>10. n + 1 = Len(tablas[t].tabla) BY <2>1, UnaTabla
   <2> QED BY <2>5, <2>6, <2>9, <2>10
<1>5. s \in [1 .. Len(tablas) -> Seq(Nat \X Nat)] BY <1>1, <1>3, <1>4
<1>6. s \in Seq(Seq(Nat \X Nat)) BY <1>3, <1>5, EsSeq
<1>7. DOMAIN s = DOMAIN tablas BY <1>1
<1>8. UNION {ToSet(s[t]) : t \in DOMAIN s} = Posiciones(tablas)
   BY <1>4, <1>7 DEF Posiciones
<1> QED BY <1>2, <1>6, <1>8, AplanaTiene

\* A position is that of a segment, and every segment has one.
LEMMA PosicionDe ==
    ASSUME NEW tablas, BuenasTablas(tablas)
    PROVE  /\ \A x \in Posiciones(tablas) :
                 /\ x = <<x[1], x[2]>> /\ x[1] \in DOMAIN tablas
                 /\ x[2] \in 2 .. Len(tablas[x[1]].tabla)
                 /\ <<tablas[x[1]].pid, Entrada(tablas, x)>> \in Asignados(tablas)
           /\ \A a \in Asignados(tablas) : \E x \in Posiciones(tablas) :
                 a = <<tablas[x[1]].pid, Entrada(tablas, x)>>
<1>1. ASSUME NEW x \in Posiciones(tablas)
      PROVE  /\ x = <<x[1], x[2]>> /\ x[1] \in DOMAIN tablas
             /\ x[2] \in 2 .. Len(tablas[x[1]].tabla)
             /\ <<tablas[x[1]].pid, Entrada(tablas, x)>> \in Asignados(tablas)
   <2>t. PICK t \in DOMAIN tablas : \E k \in 2 .. Len(tablas[t].tabla) : x = <<t, k>>
      BY DEF Posiciones
   <2>1. PICK k \in 2 .. Len(tablas[t].tabla) : x = <<t, k>> BY <2>t
   <2>2. k \in 1 .. Len(tablas[t].tabla) BY UnaTabla
   <2>3. tablas[t].pid \in Pids /\ tablas[t].tabla[k] \in EntradaTabla BY <2>2, UnaTabla
   <2>4. <<tablas[t].pid, tablas[t].tabla[k]>> \in Asignados(tablas) BY <2>3 DEF Asignados
   <2> QED BY <2>1, <2>4 DEF Entrada
<1>2. ASSUME NEW a \in Asignados(tablas)
      PROVE  \E x \in Posiciones(tablas) : a = <<tablas[x[1]].pid, Entrada(tablas, x)>>
   <2>t. PICK t \in DOMAIN tablas : \E k \in 2 .. Len(tablas[t].tabla) :
            tablas[t].pid = a[1] /\ tablas[t].tabla[k] = a[2]
      BY DEF Asignados
   <2>1. PICK k \in 2 .. Len(tablas[t].tabla) : tablas[t].pid = a[1] /\ tablas[t].tabla[k] = a[2]
      BY <2>t
   <2>2. <<t, k>> \in Posiciones(tablas) BY DEF Posiciones
   <2>3. a = <<a[1], a[2]>> BY DEF Asignados
   <2> QED BY <2>1, <2>2, <2>3 DEF Entrada
<1> QED BY <1>1, <1>2

\* A process has one segment of an id, and none of id 0 but the shared one.
LEMMA UnaClave ==
    ASSUME NEW tablas, BuenasTablas(tablas)
    PROVE  /\ \A a \in Asignados(tablas) :
                 a = <<a[1], a[2]>> /\ a[1] \in Pids /\ a[2] \in EntradaTabla /\ a[2].id \in Ids
           /\ \A a, b \in Asignados(tablas) : a[1] = b[1] /\ a[2].id = b[2].id => a = b
<1>1. ASSUME NEW a \in Asignados(tablas)
      PROVE  a = <<a[1], a[2]>> /\ a[1] \in Pids /\ a[2] \in EntradaTabla /\ a[2].id \in Ids
   <2>t. PICK t \in DOMAIN tablas : \E k \in 2 .. Len(tablas[t].tabla) :
            tablas[t].pid = a[1] /\ tablas[t].tabla[k] = a[2]
      BY DEF Asignados
   <2>1. PICK k \in 2 .. Len(tablas[t].tabla) : tablas[t].pid = a[1] /\ tablas[t].tabla[k] = a[2]
      BY <2>t
   <2>2. a = <<a[1], a[2]>> /\ a[1] \in Pids /\ a[2] \in EntradaTabla BY DEF Asignados
   <2>3. k \in DOMAIN tablas[t].tabla /\ k # 1 /\ 1 \in DOMAIN tablas[t].tabla BY UnaTabla
   <2>4. tablas[t].tabla[k].id # tablas[t].tabla[1].id BY <2>3 DEF BuenasTablas
   <2>5. tablas[t].tabla[1].id = 0 BY UnaTabla DEF entradaSegm0
   <2>6. a[2].id \in Ids \cup {0} BY <2>2 DEF EntradaTabla
   <2> QED BY <2>1, <2>2, <2>4, <2>5, <2>6
<1>2. ASSUME NEW a \in Asignados(tablas), NEW b \in Asignados(tablas),
             a[1] = b[1], a[2].id = b[2].id
      PROVE  a = b
   <2>t. PICK t \in DOMAIN tablas : \E k \in 2 .. Len(tablas[t].tabla) :
            tablas[t].pid = a[1] /\ tablas[t].tabla[k] = a[2]
      BY DEF Asignados
   <2>1. PICK k \in 2 .. Len(tablas[t].tabla) : tablas[t].pid = a[1] /\ tablas[t].tabla[k] = a[2]
      BY <2>t
   <2>u. PICK u \in DOMAIN tablas : \E l \in 2 .. Len(tablas[u].tabla) :
            tablas[u].pid = b[1] /\ tablas[u].tabla[l] = b[2]
      BY DEF Asignados
   <2>2. PICK l \in 2 .. Len(tablas[u].tabla) : tablas[u].pid = b[1] /\ tablas[u].tabla[l] = b[2]
      BY <2>u
   <2>3. t = u BY <1>2, <2>1, <2>2 DEF BuenasTablas
   <2>4. k \in DOMAIN tablas[t].tabla /\ l \in DOMAIN tablas[t].tabla BY <2>3, UnaTabla
   <2>5. k = l BY <1>2, <2>1, <2>2, <2>3, <2>4 DEF BuenasTablas
   <2>6. a = <<a[1], a[2]>> /\ b = <<b[1], b[2]>> BY <1>1
   <2> QED BY <1>2, <2>1, <2>2, <2>3, <2>5, <2>6
<1> QED BY <1>1, <1>2

\* espacios as actualizarTSGlobal leaves it: segment 0 and every segment.
LEMMA OcupadosEs ==
    ASSUME NEW tablas, BuenasTablas(tablas), NEW c
    PROVE  c \in ActualizarTSGlobal(tablas) <=>
              \/ c \in Rango(0, TamSegmento0)
              \/ \E a \in Asignados(tablas) : c \in Rango(a[2].base, a[2].size)
<1>1. ToSet(TablaGlobal(tablas)) = Posiciones(tablas) BY GlobalEs
<1>2. ASSUME c \in ActualizarTSGlobal(tablas), c \notin Rango(0, TamSegmento0)
      PROVE  \E a \in Asignados(tablas) : c \in Rango(a[2].base, a[2].size)
   <2>1. PICK x \in Posiciones(tablas) :
            c \in LET e == Entrada(tablas, x) IN Rango(e.base, e.size)
      BY <1>1, <1>2 DEF ActualizarTSGlobal
   <2>2. PICK a : a = <<tablas[x[1]].pid, Entrada(tablas, x)>> OBVIOUS
   <2>3. a \in Asignados(tablas) /\ a[2] = Entrada(tablas, x) BY <2>2, PosicionDe
   <2> QED BY <2>1, <2>3
<1>3. ASSUME NEW a \in Asignados(tablas), c \in Rango(a[2].base, a[2].size)
      PROVE  c \in ActualizarTSGlobal(tablas)
   <2>1. PICK x \in Posiciones(tablas) : a = <<tablas[x[1]].pid, Entrada(tablas, x)>>
      BY PosicionDe
   <2>2. c \in LET e == Entrada(tablas, x) IN Rango(e.base, e.size) BY <1>3, <2>1
   <2> QED BY <1>1, <2>2 DEF ActualizarTSGlobal
<1>4. c \in Rango(0, TamSegmento0) => c \in ActualizarTSGlobal(tablas)
   BY DEF ActualizarTSGlobal
<1> QED BY <1>2, <1>3, <1>4

\* RemoveAt takes one element out and closes the gap.
LEMMA Quita ==
    ASSUME NEW S, NEW t \in Seq(S), NEW k \in 1 .. Len(t)
    PROVE  /\ RemoveAt(t, k) \in Seq(S) /\ Len(RemoveAt(t, k)) = Len(t) - 1
           /\ DOMAIN RemoveAt(t, k) = 1 .. Len(t) - 1
           /\ \A i \in 1 .. Len(t) - 1 :
                 RemoveAt(t, k)[i] = IF i < k THEN t[i] ELSE t[i + 1]
<1>1. PICK a, b : a = SubSeq(t, 1, k - 1) /\ b = SubSeq(t, k + 1, Len(t)) OBVIOUS
<1>2. a \in Seq(S) /\ Len(a) = k - 1 /\ \A i \in 1 .. k - 1 : a[i] = t[i] BY <1>1
<1>3. b \in Seq(S) /\ Len(b) = Len(t) - k /\ \A i \in 1 .. Len(t) - k : b[i] = t[k + i] BY <1>1
<1>4. PICK u : u = a \o b OBVIOUS
<1>5. /\ u \in Seq(S) /\ Len(u) = Len(a) + Len(b)
      /\ \A i \in 1 .. Len(a) + Len(b) : u[i] = IF i <= Len(a) THEN a[i] ELSE b[i - Len(a)]
   BY <1>2, <1>3, <1>4, ConcatProperties
<1>6. Len(a) + Len(b) = Len(t) - 1 BY <1>2, <1>3
<1>7. ASSUME NEW i \in 1 .. Len(t) - 1
      PROVE  u[i] = IF i < k THEN t[i] ELSE t[i + 1]
   <2>1. CASE i < k
      <3>1. i \in 1 .. k - 1 /\ i <= Len(a) BY <1>2, <2>1
      <3> QED BY <1>2, <1>5, <1>6, <2>1, <3>1
   <2>2. CASE ~(i < k)
      <3>1. /\ ~(i <= Len(a)) /\ i - Len(a) \in 1 .. Len(t) - k
            /\ k + (i - Len(a)) = i + 1
         BY <1>2, <2>2
      <3>2. u[i] = b[i - Len(a)] BY <1>5, <1>6, <3>1
      <3>3. b[i - Len(a)] = t[i + 1] BY <1>3, <3>1
      <3> QED BY <2>2, <3>2, <3>3
   <2> QED BY <2>1, <2>2
<1>8. DOMAIN u = 1 .. Len(t) - 1 BY <1>5, <1>6
<1> QED BY <1>1, <1>4, <1>5, <1>6, <1>7, <1>8 DEF RemoveAt

\* The segments of the process of table t are those of table t.
LEMMA AsignadosDe ==
    ASSUME NEW tablas, BuenasTablas(tablas), NEW t \in DOMAIN tablas,
           NEW e \in EntradaTabla
    PROVE  <<tablas[t].pid, e>> \in Asignados(tablas)
              <=> \E k \in 2 .. Len(tablas[t].tabla) : tablas[t].tabla[k] = e
<1>1. tablas[t].pid \in Pids BY UnaTabla
<1>2. ASSUME <<tablas[t].pid, e>> \in Asignados(tablas)
      PROVE  \E k \in 2 .. Len(tablas[t].tabla) : tablas[t].tabla[k] = e
   <2>1. PICK u \in DOMAIN tablas : \E k \in 2 .. Len(tablas[u].tabla) :
            tablas[u].pid = tablas[t].pid /\ tablas[u].tabla[k] = e
      BY <1>2 DEF Asignados
   <2>2. u = t BY <2>1 DEF BuenasTablas
   <2> QED BY <2>1, <2>2
<1>3. ASSUME NEW k \in 2 .. Len(tablas[t].tabla), tablas[t].tabla[k] = e
      PROVE  <<tablas[t].pid, e>> \in Asignados(tablas)
   BY <1>1, <1>3 DEF Asignados
<1> QED BY <1>2, <1>3

\* The tables with the t-th replaced by another of the same process.
ConUna(tablas, t, s) ==
    [u \in DOMAIN tablas |->
        IF u = t THEN [pid |-> tablas[t].pid, tabla |-> s] ELSE tablas[u]]

\* A table that is replaced by another that starts with segment 0 and repeats no
\* id: the segments of the other processes stay.
LEMMA CambiaUna ==
    ASSUME NEW tablas, BuenasTablas(tablas), NEW t \in DOMAIN tablas,
           NEW s \in Seq(EntradaTabla), s # <<>>, s[1] = entradaSegm0,
           \A k, l \in DOMAIN s : s[k].id = s[l].id => k = l,
           NEW nuevas, nuevas = ConUna(tablas, t, s)
    PROVE  /\ BuenasTablas(nuevas)
           /\ \A p \in Pids : \A e \in EntradaTabla :
                 <<p, e>> \in Asignados(nuevas) <=>
                    IF p = tablas[t].pid THEN \E k \in 2 .. Len(s) : s[k] = e
                    ELSE <<p, e>> \in Asignados(tablas)
<1> USE UnaTabla
<1>1. PICK R : R = [pid : Pids, tabla : Seq(EntradaTabla)] OBVIOUS
<1>2. tablas \in Seq(R) /\ DOMAIN tablas = 1 .. Len(tablas) /\ Len(tablas) \in Nat BY <1>1
<1>3. PICK r \in R : r = [pid |-> tablas[t].pid, tabla |-> s] BY <1>1
<1>r. r.pid = tablas[t].pid /\ r.tabla = s BY <1>3
<1>4. nuevas = [u \in DOMAIN tablas |-> IF u = t THEN r ELSE tablas[u]] BY <1>3 DEF ConUna
<1>5. nuevas \in [1 .. Len(tablas) -> R] BY <1>2, <1>4
<1>6. nuevas \in Seq(R) BY <1>2, <1>5, EsSeq
<1>7. /\ DOMAIN nuevas = DOMAIN tablas
      /\ \A u \in DOMAIN tablas : nuevas[u].pid = tablas[u].pid
      /\ nuevas[t].tabla = s
      /\ \A u \in DOMAIN tablas \ {t} : nuevas[u] = tablas[u]
   BY <1>4, <1>r
<1>8. BuenasTablas(nuevas)
   <2>1. nuevas \in TiposTablas BY <1>1, <1>6 DEF TiposTablas
   <2>2. ASSUME NEW u \in DOMAIN nuevas
         PROVE  /\ nuevas[u].tabla # <<>> /\ nuevas[u].tabla[1] = entradaSegm0
                /\ \A k, l \in DOMAIN nuevas[u].tabla :
                      nuevas[u].tabla[k].id = nuevas[u].tabla[l].id => k = l
      <3>1. CASE u = t BY <3>1, <1>7
      <3>2. CASE u # t BY <3>2, <1>7 DEF BuenasTablas
      <3> QED BY <3>1, <3>2
   <2>3. \A u, v \in DOMAIN nuevas : nuevas[u].pid = nuevas[v].pid => u = v
      BY <1>7 DEF BuenasTablas
   <2> QED BY <2>1, <2>2, <2>3 DEF BuenasTablas
<1>9. ASSUME NEW p \in Pids, NEW e \in EntradaTabla
      PROVE  <<p, e>> \in Asignados(nuevas) <=>
                    IF p = tablas[t].pid THEN \E k \in 2 .. Len(s) : s[k] = e
                    ELSE <<p, e>> \in Asignados(tablas)
   <2>1. CASE p = tablas[t].pid
      <3>1. t \in DOMAIN nuevas /\ nuevas[t].pid = p /\ nuevas[t].tabla = s BY <1>7, <2>1
      <3>2. <<p, e>> \in Asignados(nuevas) <=> \E k \in 2 .. Len(s) : s[k] = e
         <4>1. <<nuevas[t].pid, e>> \in Asignados(nuevas)
                  <=> \E k \in 2 .. Len(nuevas[t].tabla) : nuevas[t].tabla[k] = e
            BY ONLY <1>8, <3>1, AsignadosDe, e \in EntradaTabla
         <4> QED BY <3>1, <4>1
      <3> QED BY <2>1, <3>2
   <2>2. CASE p # tablas[t].pid
      <3>1. <<p, e>> \in Asignados(nuevas) <=>
               \E u \in DOMAIN nuevas : \E k \in 2 .. Len(nuevas[u].tabla) :
                  nuevas[u].pid = p /\ nuevas[u].tabla[k] = e
         BY DEF Asignados
      <3>2. <<p, e>> \in Asignados(tablas) <=>
               \E u \in DOMAIN tablas : \E k \in 2 .. Len(tablas[u].tabla) :
                  tablas[u].pid = p /\ tablas[u].tabla[k] = e
         BY DEF Asignados
      <3>3. \A u \in DOMAIN tablas : tablas[u].pid = p => nuevas[u] = tablas[u]
         BY <1>7, <2>2
      <3>4. \A u \in DOMAIN nuevas : nuevas[u].pid = p => nuevas[u] = tablas[u] /\ u \in DOMAIN tablas
         BY <1>7, <2>2
      <3>5. <<p, e>> \in Asignados(nuevas) => <<p, e>> \in Asignados(tablas)
         BY <3>1, <3>2, <3>4
      <3>6. <<p, e>> \in Asignados(tablas) => <<p, e>> \in Asignados(nuevas)
         BY <3>1, <3>2, <3>3, <1>7
      <3> QED BY <2>2, <3>5, <3>6
   <2> QED BY <2>1, <2>2
<1> QED BY <1>8, <1>9

\* A segment more in the table of a process.
LEMMA AgregaSegmento ==
    ASSUME NEW tablas, BuenasTablas(tablas), NEW t \in DOMAIN tablas,
           NEW e \in EntradaTabla, e.id # 0,
           \A f \in EntradaTabla : <<tablas[t].pid, f>> \in Asignados(tablas) => f.id # e.id,
           NEW nuevas, nuevas = ConUna(tablas, t, Append(tablas[t].tabla, e))
    PROVE  /\ BuenasTablas(nuevas)
           /\ Asignados(nuevas) = Asignados(tablas) \cup {<<tablas[t].pid, e>>}
<1>1. PICK s \in Seq(EntradaTabla) : s = tablas[t].tabla BY UnaTabla
<1>2. Len(s) \in Nat \ {0} /\ s[1] = entradaSegm0 /\ DOMAIN s = 1 .. Len(s) BY <1>1, UnaTabla
<1>3. PICK n : n = Append(s, e) OBVIOUS
<1>4. /\ n \in Seq(EntradaTabla) /\ n # <<>> /\ Len(n) = Len(s) + 1
      /\ DOMAIN n = 1 .. Len(s) + 1
      /\ n[Len(s) + 1] = e /\ \A k \in 1 .. Len(s) : n[k] = s[k]
   BY <1>2, <1>3
<1>5. n[1] = entradaSegm0 BY <1>2, <1>4
<1>6. \A k \in 1 .. Len(s) : s[k].id # e.id
   <2>1. s[1].id = 0 BY <1>2 DEF entradaSegm0
   <2>2. ASSUME NEW k \in 2 .. Len(s) PROVE s[k].id # e.id
      <3>1. k \in 1 .. Len(s) /\ s[k] \in EntradaTabla BY <1>2
      <3>2. <<tablas[t].pid, s[k]>> \in Asignados(tablas) BY <1>1, <3>1, AsignadosDe
      <3> QED BY <3>1, <3>2
   <2>3. \A k \in 1 .. Len(s) : k = 1 \/ k \in 2 .. Len(s) BY <1>2
   <2> QED BY <2>1, <2>2, <2>3
<1>7. \A k, l \in DOMAIN s : s[k].id = s[l].id => k = l BY <1>1 DEF BuenasTablas
<1>8. \A k, l \in DOMAIN n : n[k].id = n[l].id => k = l
   <2>1. \A k \in 1 .. Len(s) + 1 : k \in 1 .. Len(s) \/ k = Len(s) + 1 BY <1>2
   <2> QED BY <1>2, <1>4, <1>6, <1>7, <2>1
<1>9. /\ BuenasTablas(nuevas)
      /\ \A p \in Pids : \A f \in EntradaTabla :
            <<p, f>> \in Asignados(nuevas) <=>
               IF p = tablas[t].pid THEN \E k \in 2 .. Len(n) : n[k] = f
               ELSE <<p, f>> \in Asignados(tablas)
   <2>1. nuevas = ConUna(tablas, t, n) BY <1>1, <1>3
   <2> QED BY <1>4, <1>5, <1>8, <2>1, CambiaUna
<1>10. \A f \in EntradaTabla :
          (\E k \in 2 .. Len(n) : n[k] = f) <=> (f = e \/ \E k \in 2 .. Len(s) : s[k] = f)
   <2>1. \A k \in 2 .. Len(n) : k \in 2 .. Len(s) \/ k = Len(s) + 1 BY <1>2, <1>4
   <2>2. \A k \in 2 .. Len(s) : k \in 2 .. Len(n) /\ k \in 1 .. Len(s) BY <1>2, <1>4
   <2>3. Len(s) + 1 \in 2 .. Len(n) BY <1>2, <1>4
   <2> QED BY <1>4, <2>1, <2>2, <2>3
<1>11. \A f \in EntradaTabla : <<tablas[t].pid, f>> \in Asignados(tablas)
                                  <=> \E k \in 2 .. Len(s) : s[k] = f
   BY <1>1, AsignadosDe
<1>12. tablas[t].pid \in Pids BY UnaTabla
<1>13. \A p \in Pids : \A f \in EntradaTabla : <<p, f>> \in Asignados(nuevas) <=>
          (<<p, f>> \in Asignados(tablas) \/ (p = tablas[t].pid /\ f = e))
   BY <1>9, <1>10, <1>11
<1>14. /\ \A a \in Asignados(nuevas) : a[1] \in Pids /\ a[2] \in EntradaTabla /\ a = <<a[1], a[2]>>
       /\ \A a \in Asignados(tablas) : a[1] \in Pids /\ a[2] \in EntradaTabla /\ a = <<a[1], a[2]>>
   BY DEF Asignados
<1>15. Asignados(nuevas) = Asignados(tablas) \cup {<<tablas[t].pid, e>>}
   <2>1. \A a \in Asignados(nuevas) : a \in Asignados(tablas) \/ a = <<tablas[t].pid, e>>
      BY <1>13, <1>14
   <2>2. \A a \in Asignados(tablas) : a \in Asignados(nuevas) BY <1>13, <1>14
   <2>3. <<tablas[t].pid, e>> \in Asignados(nuevas) BY <1>12, <1>13
   <2> QED BY <2>1, <2>2, <2>3
<1> QED BY <1>9, <1>15

\* A segment less.
LEMMA QuitaSegmento ==
    ASSUME NEW tablas, BuenasTablas(tablas), NEW t \in DOMAIN tablas,
           NEW i \in 2 .. Len(tablas[t].tabla),
           NEW nuevas, nuevas = ConUna(tablas, t, RemoveAt(tablas[t].tabla, i))
    PROVE  /\ BuenasTablas(nuevas)
           /\ Asignados(nuevas) = Asignados(tablas) \ {<<tablas[t].pid, tablas[t].tabla[i]>>}
<1>1. PICK s \in Seq(EntradaTabla) : s = tablas[t].tabla BY UnaTabla
<1>2. Len(s) \in Nat \ {0} /\ s[1] = entradaSegm0 /\ DOMAIN s = 1 .. Len(s) /\ i \in 2 .. Len(s)
   BY <1>1, UnaTabla
<1>3. PICK n : n = RemoveAt(s, i) OBVIOUS
<1>i. i \in 1 .. Len(s) BY <1>2
<1>4. /\ n \in Seq(EntradaTabla) /\ Len(n) = Len(s) - 1 /\ DOMAIN n = 1 .. Len(s) - 1
      /\ \A k \in 1 .. Len(s) - 1 : n[k] = IF k < i THEN s[k] ELSE s[k + 1]
   BY <1>3, <1>i, Quita
<1>5. n # <<>> /\ n[1] = entradaSegm0
   <2>1. 1 \in 1 .. Len(s) - 1 /\ 1 < i BY <1>2
   <2> QED BY <1>2, <1>4, <2>1
<1>7. \A k, l \in DOMAIN s : s[k].id = s[l].id => k = l BY <1>1 DEF BuenasTablas
<1>8. \A k, l \in DOMAIN n : n[k].id = n[l].id => k = l
   <2> SUFFICES ASSUME NEW k \in 1 .. Len(s) - 1, NEW l \in 1 .. Len(s) - 1, n[k].id = n[l].id
                PROVE  k = l
      BY <1>4
   <2>1. PICK k1 \in 1 .. Len(s) : n[k] = s[k1] /\ (k1 = IF k < i THEN k ELSE k + 1)
      <3>1. k \in 1 .. Len(s) /\ k + 1 \in 1 .. Len(s) BY <1>2
      <3> QED BY <1>4, <3>1
   <2>2. PICK l1 \in 1 .. Len(s) : n[l] = s[l1] /\ (l1 = IF l < i THEN l ELSE l + 1)
      <3>1. l \in 1 .. Len(s) /\ l + 1 \in 1 .. Len(s) BY <1>2
      <3> QED BY <1>4, <3>1
   <2>3. k1 = l1 BY <1>2, <1>7, <2>1, <2>2
   <2>4. k \in Int /\ l \in Int /\ i \in Int BY <1>2
   <2> QED BY <2>1, <2>2, <2>3, <2>4
<1>9. /\ BuenasTablas(nuevas)
      /\ \A p \in Pids : \A f \in EntradaTabla :
            <<p, f>> \in Asignados(nuevas) <=>
               IF p = tablas[t].pid THEN \E k \in 2 .. Len(n) : n[k] = f
               ELSE <<p, f>> \in Asignados(tablas)
   <2>1. nuevas = ConUna(tablas, t, n) BY <1>1, <1>3
   <2> QED BY <1>4, <1>5, <1>8, <2>1, CambiaUna
<1>10. \A f \in EntradaTabla :
          (\E k \in 2 .. Len(n) : n[k] = f) <=> (f # s[i] /\ \E k \in 2 .. Len(s) : s[k] = f)
   <2> SUFFICES ASSUME NEW f \in EntradaTabla
                PROVE  (\E k \in 2 .. Len(n) : n[k] = f) <=> (f # s[i] /\ \E k \in 2 .. Len(s) : s[k] = f)
      OBVIOUS
   <2>1. ASSUME NEW k \in 2 .. Len(n), n[k] = f
         PROVE  f # s[i] /\ \E l \in 2 .. Len(s) : s[l] = f
      <3>1. k \in 1 .. Len(s) - 1 /\ k \in 2 .. Len(s) /\ k + 1 \in 2 .. Len(s) BY <1>2, <1>4
      <3>2. PICK l \in 2 .. Len(s) : n[k] = s[l] /\ l # i
         <4>1. k < i => k # i BY <3>1, <1>2
         <4>2. ~(k < i) => k + 1 # i BY <3>1, <1>2
         <4> QED BY <1>4, <3>1, <4>1, <4>2
      <3>3. l \in DOMAIN s /\ i \in DOMAIN s BY <1>2
      <3>4. s[l] # s[i] BY <1>7, <3>2, <3>3
      <3> QED BY <2>1, <3>2, <3>4
   <2>2. ASSUME NEW k \in 2 .. Len(s), s[k] = f, f # s[i]
         PROVE  \E l \in 2 .. Len(n) : n[l] = f
      <3>1. k # i /\ k \in Nat /\ i \in Nat BY <2>2, <1>2
      <3>2. CASE k < i
         <4>1. k \in 2 .. Len(n) /\ k \in 1 .. Len(s) - 1 BY <1>2, <1>4, <3>2
         <4> QED BY <1>4, <2>2, <3>2, <4>1
      <3>3. CASE k > i
         <4>1. /\ k - 1 \in 2 .. Len(n) /\ k - 1 \in 1 .. Len(s) - 1
               /\ ~(k - 1 < i) /\ (k - 1) + 1 = k
            BY <1>2, <1>4, <3>3
         <4> QED BY <1>4, <2>2, <4>1
      <3> QED BY <3>1, <3>2, <3>3
   <2> QED BY <2>1, <2>2
<1>11. \A f \in EntradaTabla : <<tablas[t].pid, f>> \in Asignados(tablas)
                                  <=> \E k \in 2 .. Len(s) : s[k] = f
   BY <1>1, AsignadosDe
<1>13. \A p \in Pids : \A f \in EntradaTabla : <<p, f>> \in Asignados(nuevas) <=>
          (<<p, f>> \in Asignados(tablas) /\ ~(p = tablas[t].pid /\ f = s[i]))
   BY <1>9, <1>10, <1>11
<1>14. /\ \A a \in Asignados(nuevas) : a[1] \in Pids /\ a[2] \in EntradaTabla /\ a = <<a[1], a[2]>>
       /\ \A a \in Asignados(tablas) : a[1] \in Pids /\ a[2] \in EntradaTabla /\ a = <<a[1], a[2]>>
   BY DEF Asignados
<1>15. Asignados(nuevas) = Asignados(tablas) \ {<<tablas[t].pid, s[i]>>}
   BY <1>13, <1>14
<1> QED BY <1>1, <1>9, <1>15

\* A segment is a pair of a process and an entry.
LEMMA Pares ==
    ASSUME NEW tablas, NEW a \in Asignados(tablas)
    PROVE  a[1] \in Pids /\ a[2] \in EntradaTabla /\ a = <<a[1], a[2]>>
BY DEF Asignados

\* The tables with another base in the entry at position x.
ConBase(tablas, x, nueva) == [tablas EXCEPT ![x[1]].tabla[x[2]].base = nueva]

\* The entry with another base.
EnBase(e, nueva) == [e EXCEPT !.base = nueva]

\* A segment that moves.
LEMMA MueveEntrada ==
    ASSUME NEW tablas, BuenasTablas(tablas), NEW x \in Posiciones(tablas), NEW nueva \in Celdas,
           NEW nuevas, nuevas = ConBase(tablas, x, nueva),
           NEW a, a = <<tablas[x[1]].pid, Entrada(tablas, x)>>
    PROVE  /\ BuenasTablas(nuevas)
           /\ Asignados(nuevas) = (Asignados(tablas) \ {a})
                                     \cup {<<a[1], EnBase(a[2], nueva)>>}
<1>1. PICK t \in DOMAIN tablas : \E k \in 2 .. Len(tablas[t].tabla) : x = <<t, k>>
   BY DEF Posiciones
<1>2. PICK i \in 2 .. Len(tablas[t].tabla) : x = <<t, i>> BY <1>1
<1>3. PICK s \in Seq(EntradaTabla) : s = tablas[t].tabla BY UnaTabla
<1>4. /\ Len(s) \in Nat \ {0} /\ s[1] = entradaSegm0 /\ DOMAIN s = 1 .. Len(s)
      /\ i \in 2 .. Len(s) /\ i \in 1 .. Len(s) /\ 1 \in 1 .. Len(s)
   BY <1>3, UnaTabla
<1>5. PICK e \in EntradaTabla : e = s[i] BY <1>4
<1>6. a = <<tablas[t].pid, e>> /\ a[1] = tablas[t].pid /\ a[2] = e
   BY <1>2, <1>3, <1>5 DEF Entrada
<1>7. PICK f : f = EnBase(e, nueva) OBVIOUS
<1>8. f \in EntradaTabla /\ f.id = e.id BY <1>7 DEF EntradaTabla, EnBase
<1>9. PICK n : n = [s EXCEPT ![i] = f] OBVIOUS
<1>10. /\ n \in Seq(EntradaTabla) /\ DOMAIN n = 1 .. Len(s) /\ Len(n) = Len(s)
       /\ n[i] = f /\ \A k \in 1 .. Len(s) : k # i => n[k] = s[k]
   BY <1>4, <1>8, <1>9
<1>11. n # <<>> /\ n[1] = entradaSegm0
   <2>1. 1 # i BY <1>4
   <2> QED BY <1>4, <1>10, <2>1
<1>12. \A k, l \in DOMAIN s : s[k].id = s[l].id => k = l BY <1>3 DEF BuenasTablas
<1>13. \A k \in 1 .. Len(s) : n[k].id = s[k].id BY <1>5, <1>8, <1>10
<1>14. \A k, l \in DOMAIN n : n[k].id = n[l].id => k = l BY <1>4, <1>10, <1>12, <1>13
<1>15. nuevas = ConUna(tablas, t, n)
   <2>1. n = [s EXCEPT ![i].base = nueva] BY <1>5, <1>7, <1>9, <1>4 DEF EnBase
   <2>2. tablas[t] \in [pid : Pids, tabla : Seq(EntradaTabla)] BY UnaTabla
   <2>3. [tablas[t] EXCEPT !.tabla = n] = [pid |-> tablas[t].pid, tabla |-> n]
      BY <2>2
   <2>4. [tablas[t] EXCEPT !.tabla[i].base = nueva] = [tablas[t] EXCEPT !.tabla = n]
      BY <2>1, <1>3
   <2>5. nuevas = [tablas EXCEPT ![t].tabla[i].base = nueva] BY <1>2 DEF ConBase
   <2>6. nuevas = [tablas EXCEPT ![t] = [pid |-> tablas[t].pid, tabla |-> n]]
      BY <2>3, <2>4, <2>5
   <2> QED BY <2>6 DEF ConUna
<1>16. /\ BuenasTablas(nuevas)
       /\ \A p \in Pids : \A g \in EntradaTabla :
             <<p, g>> \in Asignados(nuevas) <=>
                IF p = tablas[t].pid THEN \E k \in 2 .. Len(n) : n[k] = g
                ELSE <<p, g>> \in Asignados(tablas)
   BY <1>10, <1>11, <1>14, <1>15, CambiaUna
<1>17. \A g \in EntradaTabla : <<tablas[t].pid, g>> \in Asignados(tablas)
                                  <=> \E k \in 2 .. Len(s) : s[k] = g
   BY <1>3, AsignadosDe
<1>18. \A g \in EntradaTabla :
          (\E k \in 2 .. Len(n) : n[k] = g)
             <=> (g = f \/ (g # e /\ \E k \in 2 .. Len(s) : s[k] = g))
   <2>1. \A k \in 2 .. Len(s) : k \in 1 .. Len(s) BY <1>4
   <2>2. \A k \in 2 .. Len(s) : k # i => s[k] # e BY <1>4, <1>5, <1>12, <2>1
   <2> QED BY <1>4, <1>5, <1>10, <2>1, <2>2
<1>19. \A p \in Pids : \A g \in EntradaTabla : <<p, g>> \in Asignados(nuevas) <=>
          \/ p = tablas[t].pid /\ g = f
          \/ <<p, g>> \in Asignados(tablas) /\ ~(p = tablas[t].pid /\ g = e)
   BY <1>16, <1>17, <1>18
<1>20. tablas[t].pid \in Pids BY UnaTabla
<1>21. Asignados(nuevas) = (Asignados(tablas) \ {a}) \cup {<<tablas[t].pid, f>>}
   <2>1. ASSUME NEW b \in Asignados(nuevas)
         PROVE  b = <<tablas[t].pid, f>> \/ (b \in Asignados(tablas) /\ b # a)
      <3>1. PICK q \in Pids, g \in EntradaTabla : b = <<q, g>> BY Pares
      <3>2. \/ q = tablas[t].pid /\ g = f
            \/ <<q, g>> \in Asignados(tablas) /\ ~(q = tablas[t].pid /\ g = e)
         BY <3>1, <1>19
      <3> QED BY <1>6, <3>1, <3>2
   <2>2. ASSUME NEW b \in Asignados(tablas), b # a PROVE b \in Asignados(nuevas)
      <3>1. PICK q \in Pids, g \in EntradaTabla : b = <<q, g>> BY Pares
      <3>2. <<q, g>> \in Asignados(tablas) /\ ~(q = tablas[t].pid /\ g = e)
         BY <1>6, <2>2, <3>1
      <3> QED BY <1>19, <3>1, <3>2
   <2>3. <<tablas[t].pid, f>> \in Asignados(nuevas) BY <1>8, <1>19, <1>20
   <2> QED BY <2>1, <2>2, <2>3
<1> QED BY <1>6, <1>7, <1>16, <1>21

\* Segment 0 is an entry, and so there is at least one byte.
LEMMA Segmento0Entrada == entradaSegm0 \in EntradaTabla /\ TamMemoria \in Nat \ {0}
<1>1. TamMemoria \in Nat /\ TamSegmento0 \in 1 .. TamMemoria BY TamaniosAssumption
<1>2. TamMemoria \in Nat \ {0} /\ 0 \in 0 .. TamMemoria - 1 BY <1>1
<1> QED BY <1>2 DEF entradaSegm0, EntradaTabla, Celdas

\* A process more, with no segment of its own.
LEMMA AgregaTabla ==
    ASSUME NEW tablas, BuenasTablas(tablas), NEW p \in Pids,
           \A t \in DOMAIN tablas : tablas[t].pid # p,
           NEW nuevas, nuevas = Append(tablas, [pid |-> p, tabla |-> <<entradaSegm0>>])
    PROVE  BuenasTablas(nuevas) /\ Asignados(nuevas) = Asignados(tablas)
<1>1. PICK R : R = [pid : Pids, tabla : Seq(EntradaTabla)] OBVIOUS
<1>2. tablas \in Seq(R) /\ Len(tablas) \in Nat /\ DOMAIN tablas = 1 .. Len(tablas)
   BY <1>1 DEF BuenasTablas, TiposTablas
<1>e. PICK e \in EntradaTabla : e = entradaSegm0 BY Segmento0Entrada
<1>q. <<e>> \in Seq(EntradaTabla) BY <1>e
<1>s. PICK s \in Seq(EntradaTabla) : s = <<entradaSegm0>> BY <1>e, <1>q
<1>3. PICK r \in R : r = [pid |-> p, tabla |-> <<entradaSegm0>>] BY <1>1, <1>s
<1>4. /\ r.pid = p /\ r.tabla = <<entradaSegm0>> /\ Len(r.tabla) = 1 /\ DOMAIN r.tabla = {1}
      /\ r.tabla # <<>> /\ r.tabla[1] = entradaSegm0
   BY <1>3
<1>5. /\ nuevas \in Seq(R) /\ DOMAIN nuevas = 1 .. Len(tablas) + 1
      /\ nuevas[Len(tablas) + 1] = r
      /\ \A t \in 1 .. Len(tablas) : nuevas[t] = tablas[t]
   BY <1>2, <1>3
<1>6. \A t \in DOMAIN nuevas : t \in DOMAIN tablas \/ t = Len(tablas) + 1
   BY <1>2, <1>5
<1>7. BuenasTablas(nuevas)
   <2>1. nuevas \in TiposTablas BY <1>1, <1>5 DEF TiposTablas
   <2>2. ASSUME NEW u \in DOMAIN nuevas
         PROVE  /\ nuevas[u].tabla # <<>> /\ nuevas[u].tabla[1] = entradaSegm0
                /\ \A k, l \in DOMAIN nuevas[u].tabla :
                      nuevas[u].tabla[k].id = nuevas[u].tabla[l].id => k = l
      <3>1. CASE u = Len(tablas) + 1 BY <3>1, <1>4, <1>5
      <3>2. CASE u \in DOMAIN tablas BY <3>2, <1>2, <1>5 DEF BuenasTablas
      <3> QED BY <3>1, <3>2, <1>6
   <2>3. \A u, v \in DOMAIN nuevas : nuevas[u].pid = nuevas[v].pid => u = v
      BY <1>2, <1>4, <1>5, <1>6 DEF BuenasTablas
   <2> QED BY <2>1, <2>2, <2>3 DEF BuenasTablas
<1>8. ASSUME NEW b \in Asignados(nuevas) PROVE b \in Asignados(tablas)
   <2>1. PICK u \in DOMAIN nuevas : \E k \in 2 .. Len(nuevas[u].tabla) :
            nuevas[u].pid = b[1] /\ nuevas[u].tabla[k] = b[2]
      BY DEF Asignados
   <2>2. u # Len(tablas) + 1
      <3>1. 2 .. 1 = {} OBVIOUS
      <3> QED BY <1>4, <1>5, <2>1, <3>1
   <2>3. u \in DOMAIN tablas /\ nuevas[u] = tablas[u] BY <1>2, <1>5, <1>6, <2>2
   <2>4. b \in Pids \X EntradaTabla BY DEF Asignados
   <2> QED BY <2>1, <2>3, <2>4 DEF Asignados
<1>9. ASSUME NEW b \in Asignados(tablas) PROVE b \in Asignados(nuevas)
   <2>1. PICK u \in DOMAIN tablas : \E k \in 2 .. Len(tablas[u].tabla) :
            tablas[u].pid = b[1] /\ tablas[u].tabla[k] = b[2]
      BY DEF Asignados
   <2>2. u \in DOMAIN nuevas /\ nuevas[u] = tablas[u] BY <1>2, <1>5
   <2>4. b \in Pids \X EntradaTabla BY DEF Asignados
   <2> QED BY <2>1, <2>2, <2>4 DEF Asignados
<1> QED BY <1>7, <1>8, <1>9

\* A process less, with its segments.
LEMMA QuitaTabla ==
    ASSUME NEW tablas, BuenasTablas(tablas), NEW t \in DOMAIN tablas,
           NEW nuevas, nuevas = RemoveAt(tablas, t)
    PROVE  /\ BuenasTablas(nuevas)
           /\ Asignados(nuevas) = {a \in Asignados(tablas) : a[1] # tablas[t].pid}
           /\ \A q : (\E u \in DOMAIN nuevas : nuevas[u].pid = q)
                       <=> (q # tablas[t].pid /\ \E u \in DOMAIN tablas : tablas[u].pid = q)
<1>1. PICK R : R = [pid : Pids, tabla : Seq(EntradaTabla)] OBVIOUS
<1>2. tablas \in Seq(R) /\ Len(tablas) \in Nat /\ DOMAIN tablas = 1 .. Len(tablas)
      /\ t \in 1 .. Len(tablas)
   BY <1>1 DEF BuenasTablas, TiposTablas
<1>3. /\ nuevas \in Seq(R) /\ DOMAIN nuevas = 1 .. Len(tablas) - 1
      /\ \A i \in 1 .. Len(tablas) - 1 : nuevas[i] = IF i < t THEN tablas[i] ELSE tablas[i + 1]
   BY <1>2, Quita
<1>4. ASSUME NEW u \in DOMAIN nuevas
      PROVE  \E v \in DOMAIN tablas : v # t /\ nuevas[u] = tablas[v] /\ v = IF u < t THEN u ELSE u + 1
   <2>1. u \in 1 .. Len(tablas) - 1 /\ u \in DOMAIN tablas /\ u + 1 \in DOMAIN tablas BY <1>2, <1>3
   <2>2. (u < t => u # t) /\ (~(u < t) => u + 1 # t) BY <2>1, <1>2
   <2> QED BY <1>3, <2>1, <2>2
<1>5. ASSUME NEW v \in DOMAIN tablas, v # t
      PROVE  \E u \in DOMAIN nuevas : nuevas[u] = tablas[v]
   <2>1. CASE v < t
      <3>1. v \in 1 .. Len(tablas) - 1 BY <2>1, <1>2
      <3> QED BY <2>1, <3>1, <1>3
   <2>2. CASE v > t
      <3>1. v - 1 \in 1 .. Len(tablas) - 1 /\ ~(v - 1 < t) /\ (v - 1) + 1 = v BY <2>2, <1>2
      <3> QED BY <3>1, <1>3
   <2>3. v \in Nat /\ t \in Nat BY <1>2
   <2> QED BY <1>5, <2>1, <2>2, <2>3
<1>7. BuenasTablas(nuevas)
   <2>1. nuevas \in TiposTablas BY <1>1, <1>3 DEF TiposTablas
   <2>2. ASSUME NEW u \in DOMAIN nuevas
         PROVE  /\ nuevas[u].tabla # <<>> /\ nuevas[u].tabla[1] = entradaSegm0
                /\ \A k, l \in DOMAIN nuevas[u].tabla :
                      nuevas[u].tabla[k].id = nuevas[u].tabla[l].id => k = l
      BY <1>4 DEF BuenasTablas
   <2>3. ASSUME NEW u \in DOMAIN nuevas, NEW v \in DOMAIN nuevas, nuevas[u].pid = nuevas[v].pid
         PROVE  u = v
      <3>1. PICK u1 \in DOMAIN tablas : nuevas[u] = tablas[u1] /\ u1 = IF u < t THEN u ELSE u + 1
         BY <1>4
      <3>2. PICK v1 \in DOMAIN tablas : nuevas[v] = tablas[v1] /\ v1 = IF v < t THEN v ELSE v + 1
         BY <1>4
      <3>3. u1 = v1 BY <2>3, <3>1, <3>2 DEF BuenasTablas
      <3>4. u \in Int /\ v \in Int /\ t \in Int BY <1>2, <1>3
      <3> QED BY <3>1, <3>2, <3>3, <3>4
   <2> QED BY <2>1, <2>2, <2>3 DEF BuenasTablas
<1>8. \A u \in DOMAIN tablas : tablas[u].pid = tablas[t].pid <=> u = t
   BY DEF BuenasTablas
<1>9. ASSUME NEW b \in Asignados(nuevas) PROVE b \in Asignados(tablas) /\ b[1] # tablas[t].pid
   <2>1. PICK u \in DOMAIN nuevas : \E k \in 2 .. Len(nuevas[u].tabla) :
            nuevas[u].pid = b[1] /\ nuevas[u].tabla[k] = b[2]
      BY DEF Asignados
   <2>2. PICK v \in DOMAIN tablas : v # t /\ nuevas[u] = tablas[v] BY <1>4
   <2>4. b \in Pids \X EntradaTabla BY DEF Asignados
   <2>5. tablas[v].pid = b[1] /\ \E k \in 2 .. Len(tablas[v].tabla) :
            tablas[v].pid = b[1] /\ tablas[v].tabla[k] = b[2]
      BY <2>1, <2>2
   <2> QED BY <1>8, <2>2, <2>4, <2>5 DEF Asignados
<1>10. ASSUME NEW b \in Asignados(tablas), b[1] # tablas[t].pid PROVE b \in Asignados(nuevas)
   <2>1. PICK v \in DOMAIN tablas : \E k \in 2 .. Len(tablas[v].tabla) :
            tablas[v].pid = b[1] /\ tablas[v].tabla[k] = b[2]
      BY DEF Asignados
   <2>2. v # t BY <1>10, <2>1
   <2>3. PICK u \in DOMAIN nuevas : nuevas[u] = tablas[v] BY <1>5, <2>2
   <2>4. b \in Pids \X EntradaTabla BY DEF Asignados
   <2> QED BY <2>1, <2>3, <2>4 DEF Asignados
<1>11. Asignados(nuevas) = {a \in Asignados(tablas) : a[1] # tablas[t].pid} BY <1>9, <1>10
<1>12. \A q : (\E u \in DOMAIN nuevas : nuevas[u].pid = q)
                 <=> (q # tablas[t].pid /\ \E u \in DOMAIN tablas : tablas[u].pid = q)
   BY <1>4, <1>5, <1>8
<1> QED BY <1>7, <1>11, <1>12

-----------------------------------------------------------------------------
(* The holes, and the searches over the tables. *)

\* The fields of an entry are numbers.
LEMMA MedidasNat ==
    ASSUME NEW e \in EntradaTabla
    PROVE  e.base \in Nat /\ e.base < TamMemoria /\ e.size \in Nat \ {0} /\ e.id \in Ids \cup {0}
<1>1. e.base \in 0 .. TamMemoria - 1 /\ e.size \in Tamanios \cup {TamSegmento0}
      /\ e.id \in Ids \cup {0}
   BY DEF EntradaTabla, Celdas
<1>2. /\ TamMemoria \in Nat /\ TamSegmento0 \in Nat \ {0} /\ Tamanios \subseteq Nat \ {0}
   BY TamaniosAssumption
<1>3. PICK b : b = e.base OBVIOUS
<1>4. b \in 0 .. TamMemoria - 1 BY <1>1, <1>3
<1>5. b \in Nat /\ b < TamMemoria BY <1>2, <1>4
<1>6. e.size \in Nat \ {0} BY <1>1, <1>2
<1> QED BY <1>1, <1>3, <1>5, <1>6

\* Two intervals of bytes with none in common.
Aparte(e, f) == e.base + e.size <= f.base \/ f.base + f.size <= e.base

\* A hole has no taken byte, but for the last of the memory, and that one only
\* when the byte before is free.
LEMMA HuecoLibre ==
    ASSUME NEW ocupados, NEW h \in UpdateEspacios(ocupados)
    PROVE  /\ h.base \in 0 .. TamMemoria - 2 /\ h.size \in 1 .. TamMemoria
           /\ h \in [base : Celdas, size : 1 .. TamMemoria]
           /\ h.base + h.size <= TamMemoria
           /\ \A c \in h.base .. h.base + h.size - 1 : c \in ocupados => c = TamMemoria - 1
<1>1. TamMemoria \in Nat \ {0} BY Segmento0Entrada
<1>2. PICK i \in 0 .. TamMemoria - 2 :
         /\ i \notin ocupados /\ h = [base |-> i, size |-> FinDeHueco(i, ocupados) - i]
   BY DEF UpdateEspacios
<1>3. PICK S : S = {j \in i + 1 .. TamMemoria - 1 : j \in ocupados} \cup {TamMemoria - 1} OBVIOUS
<1>4. S \in SUBSET Nat /\ S # {} BY <1>1, <1>3
<1>5. PICK m : m = Tope(i, ocupados) OBVIOUS
<1>6. m \in S /\ \A k \in S : m <= k BY <1>3, <1>4, <1>5, MinimoNatural DEF Tope, Min
<1>7. m \in i + 1 .. TamMemoria - 1 BY <1>1, <1>3, <1>6
<1>8. \A c \in i .. m - 1 : c \notin ocupados
   <2> SUFFICES ASSUME NEW c \in i .. m - 1, c \in ocupados PROVE FALSE OBVIOUS
   <2>1. c # i BY <1>2
   <2>2. c \in i + 1 .. TamMemoria - 1 /\ c < m BY <1>1, <1>7, <2>1
   <2>3. c \in S BY <1>3, <2>2
   <2> QED BY <1>6, <1>7, <2>2, <2>3
<1>9. PICK f : f = FinDeHueco(i, ocupados) OBVIOUS
<1>10. f = IF m = TamMemoria - 1 THEN TamMemoria ELSE m BY <1>5, <1>9 DEF FinDeHueco
<1>11. h.base = i /\ h.size = f - i /\ h = [base |-> i, size |-> f - i] BY <1>2, <1>9
<1>12. f \in i + 1 .. TamMemoria BY <1>1, <1>7, <1>10
<1>13. h.base + h.size = f /\ f - i \in 1 .. TamMemoria /\ i \in 0 .. TamMemoria - 1
   BY <1>1, <1>11, <1>12
<1>14. ASSUME NEW c \in i .. f - 1, c \in ocupados PROVE c = TamMemoria - 1
   <2>1. ~(c \in i .. m - 1) BY <1>8, <1>14
   <2>2. c >= m /\ c < f BY <1>7, <1>12, <2>1
   <2> QED BY <1>1, <1>7, <1>10, <1>12, <2>2
<1>15. h.base + h.size - 1 = f - 1 BY <1>1, <1>11, <1>12
<1>16. h \in [base : Celdas, size : 1 .. TamMemoria] BY <1>11, <1>13 DEF Celdas
<1> QED BY <1>11, <1>12, <1>13, <1>14, <1>15, <1>16

\* No segment reaches into a hole when every byte of a segment is marked and
\* none starts at the last byte.
LEMMA HuecosApartados ==
    ASSUME NEW ocupados, NEW A, Rango(0, TamSegmento0) \subseteq ocupados,
           \A a \in A : /\ a[2].base \in 0 .. TamMemoria - 2 /\ a[2].size \in Nat \ {0}
                        /\ Rango(a[2].base, a[2].size) \subseteq ocupados,
           NEW h \in UpdateEspacios(ocupados)
    PROVE  /\ h.base \in TamSegmento0 .. TamMemoria - 2
           /\ \A a \in A : Aparte(a[2], h)
<1>1. PICK b, n : b = h.base /\ n = h.size OBVIOUS
<1>2. /\ b \in 0 .. TamMemoria - 2 /\ n \in 1 .. TamMemoria /\ b + n <= TamMemoria
      /\ \A c \in b .. b + n - 1 : c \in ocupados => c = TamMemoria - 1
   BY <1>1, HuecoLibre
<1>3. TamMemoria \in Nat /\ TamSegmento0 \in Nat BY TamaniosAssumption
<1>4. b >= TamSegmento0
   <2>1. b \in b .. b + n - 1 /\ b # TamMemoria - 1 BY <1>2, <1>3
   <2>2. b \notin ocupados BY <1>2, <2>1
   <2>3. b \notin 0 .. 0 + TamSegmento0 - 1 BY <2>2 DEF Rango
   <2> QED BY <1>2, <1>3, <2>3
<1>5. ASSUME NEW a \in A PROVE Aparte(a[2], h)
   <2>1. PICK c, m : c = a[2].base /\ m = a[2].size OBVIOUS
   <2>2. /\ c \in 0 .. TamMemoria - 2 /\ m \in Nat \ {0}
         /\ \A d \in c .. c + m - 1 : d \in ocupados
      BY <2>1 DEF Rango
   <2>3. CASE c + m <= b \/ b + n <= c BY <1>1, <2>1, <2>3 DEF Aparte
   <2>4. CASE ~(c + m <= b) /\ ~(b + n <= c)
      <3>1. CASE c <= b
         <4>1. b \in c .. c + m - 1 /\ b \in b .. b + n - 1 /\ b # TamMemoria - 1
            BY <1>2, <1>3, <2>2, <2>4, <3>1
         <4> QED BY <1>2, <2>2, <4>1
      <3>2. CASE b < c
         <4>1. c \in c .. c + m - 1 /\ c \in b .. b + n - 1 /\ c # TamMemoria - 1
            BY <1>2, <1>3, <2>2, <2>4, <3>2
         <4> QED BY <1>2, <2>2, <4>1
      <3> QED BY <1>2, <2>2, <3>1, <3>2
   <2> QED BY <2>3, <2>4
<1> QED BY <1>1, <1>2, <1>4, <1>5

\* The search, by any of the three algorithms, ends at a hole where the size fits.
LEMMA BuscaHueco ==
    ASSUME listaDisp \subseteq [base : Celdas, size : 1 .. TamMemoria],
           NEW size, Viables(size) # {}
    PROVE  \E h \in Viables(size) : BuscarEspacioViable(size) = h.base
<1>0. TamMemoria \in Nat BY TamaniosAssumption
<1> DEFINE clave(h) == IF algoritmo = "BEST" THEN h.size
                       ELSE IF algoritmo = "WORST" THEN TamMemoria - h.size ELSE 0
<1>1. \A h \in Viables(size) : /\ h.base \in Nat /\ h.size \in Nat
                               /\ h.size <= TamMemoria /\ clave(h) \in Nat
   <2> SUFFICES ASSUME NEW h \in Viables(size)
                PROVE  /\ h.base \in Nat /\ h.size \in Nat
                       /\ h.size <= TamMemoria /\ clave(h) \in Nat
      OBVIOUS
   <2>1. h \in [base : Celdas, size : 1 .. TamMemoria] BY DEF Viables
   <2>2. h.base \in 0 .. TamMemoria - 1 /\ h.size \in 1 .. TamMemoria BY <2>1 DEF Celdas
   <2> QED BY <1>0, <2>2
<1>2. PICK K : K = {clave(h) : h \in Viables(size)} OBVIOUS
<1>3. K \in SUBSET Nat /\ K # {}
   <2> HIDE DEF clave
   <2> QED BY <1>1, <1>2
<1>4. PICK m \in K : \A k \in K : m <= k BY <1>3, MinimoNatural
<1>5. PICK B : B = {h.base : h \in {g \in Viables(size) : clave(g) = m}} OBVIOUS
<1>6. B \in SUBSET Nat /\ B # {}
   <2> HIDE DEF clave
   <2>1. PICK g \in Viables(size) : clave(g) = m BY <1>2, <1>4
   <2> QED BY <1>1, <1>5, <2>1
<1>7. PICK b \in B : \A k \in B : b <= k BY <1>6, MinimoNatural
<1>8. PICK h \in Viables(size) : clave(h) = m /\ h.base = b
   <2> HIDE DEF clave
   <2> QED BY <1>5, <1>7
<1>9. \A k \in Viables(size) : Mejor(k, h) <=> clave(k) < clave(h)
   <2> SUFFICES ASSUME NEW k \in Viables(size) PROVE Mejor(k, h) <=> clave(k) < clave(h)
      OBVIOUS
   <2>1. h.size \in Nat /\ k.size \in Nat BY <1>1
   <2> QED BY <1>0, <2>1 DEF Mejor
<1>10. \A k \in Viables(size) : Mejor(h, k) <=> clave(h) < clave(k)
   <2> SUFFICES ASSUME NEW k \in Viables(size) PROVE Mejor(h, k) <=> clave(h) < clave(k)
      OBVIOUS
   <2>1. h.size \in Nat /\ k.size \in Nat BY <1>1
   <2> QED BY <1>0, <2>1 DEF Mejor
<1>11. ASSUME NEW k \in Viables(size)
       PROVE  ~Mejor(k, h) /\ (k.base < h.base => Mejor(h, k))
   <2> HIDE DEF clave
   <2>1. clave(k) \in K /\ m <= clave(k) /\ clave(k) \in Nat /\ m \in Nat
      BY <1>1, <1>2, <1>3, <1>4
   <2>2. ~Mejor(k, h) BY <1>8, <1>9, <2>1
   <2>3. ASSUME k.base < h.base PROVE clave(k) # m
      <3>1. clave(k) = m => k.base \in B BY <1>5
      <3>2. b \in Nat /\ k.base \in Nat BY <1>1, <1>6
      <3> QED BY <1>7, <1>8, <2>3, <3>1, <3>2
   <2> QED BY <1>8, <1>10, <2>1, <2>2, <2>3
<1>12. \E g \in Viables(size) :
          \A k \in Viables(size) : ~Mejor(k, g) /\ (k.base < g.base => Mejor(g, k))
   BY <1>11
<1>13. PICK g : g = CHOOSE j \in Viables(size) :
          \A k \in Viables(size) : ~Mejor(k, j) /\ (k.base < j.base => Mejor(j, k))
   OBVIOUS
<1>14. g \in Viables(size) BY <1>12, <1>13
<1> QED BY <1>13, <1>14 DEF BuscarEspacioViable

\* The table of a process, where it is found by its pid.
LEMMA TablaDe ==
    ASSUME BuenasTablas(tablasDeSegmentos), NEW p \in procesos
    PROVE  \E t \in DOMAIN tablasDeSegmentos :
              /\ tablasDeSegmentos[t].pid = p /\ EncontrarPorPID(p) = {t}
              /\ Tabla(p) = tablasDeSegmentos[t].tabla
              /\ (CHOOSE u \in EncontrarPorPID(p) : TRUE) = t
              /\ \A s : ConTabla(p, s) = ConUna(tablasDeSegmentos, t, s)
<1>1. PICK t \in DOMAIN tablasDeSegmentos : tablasDeSegmentos[t].pid = p BY DEF procesos
<1>2. \A u \in DOMAIN tablasDeSegmentos : tablasDeSegmentos[u].pid = p <=> u = t
   BY <1>1 DEF BuenasTablas
<1>3. EncontrarPorPID(p) = {t} BY <1>1, <1>2 DEF EncontrarPorPID
<1>4. (CHOOSE u \in EncontrarPorPID(p) : TRUE) = t BY <1>3
<1>5. Tabla(p) = tablasDeSegmentos[t].tabla BY <1>4 DEF Tabla
<1>6. \A s : ConTabla(p, s) = ConUna(tablasDeSegmentos, t, s)
   BY <1>1, <1>2 DEF ConTabla, ConUna
<1> QED BY <1>1, <1>3, <1>4, <1>5, <1>6

\* A segment, where it is found by its id.
LEMMA SegmentoDe ==
    ASSUME BuenasTablas(tablasDeSegmentos), NEW a \in Asignados(tablasDeSegmentos)
    PROVE  /\ Segmento(a[1], a[2].id) = a[2] /\ a[1] \in procesos
           /\ \E t \in DOMAIN tablasDeSegmentos :
                 /\ tablasDeSegmentos[t].pid = a[1]
                 /\ Tabla(a[1]) = tablasDeSegmentos[t].tabla
                 /\ \A s : ConTabla(a[1], s) = ConUna(tablasDeSegmentos, t, s)
                 /\ \E k \in 2 .. Len(tablasDeSegmentos[t].tabla) :
                       /\ tablasDeSegmentos[t].tabla[k] = a[2]
                       /\ (CHOOSE j \in EncontrarPorIDSegm(Tabla(a[1]), a[2].id) : TRUE) = k
<1>1. a[1] \in procesos BY DEF Asignados, procesos
<1>2. PICK t \in DOMAIN tablasDeSegmentos :
         /\ tablasDeSegmentos[t].pid = a[1]
         /\ Tabla(a[1]) = tablasDeSegmentos[t].tabla
         /\ \A s : ConTabla(a[1], s) = ConUna(tablasDeSegmentos, t, s)
   BY <1>1, TablaDe
<1>3. PICK s \in Seq(EntradaTabla) : s = tablasDeSegmentos[t].tabla BY UnaTabla
<1>4. a[2] \in EntradaTabla /\ a = <<a[1], a[2]>> BY Pares
<1>5. PICK k \in 2 .. Len(s) : s[k] = a[2] BY <1>2, <1>3, <1>4, AsignadosDe
<1>6. DOMAIN s = 1 .. Len(s) /\ k \in DOMAIN s OBVIOUS
<1>7. \A j, l \in DOMAIN s : s[j].id = s[l].id => j = l BY <1>3 DEF BuenasTablas
<1>8. \A j \in DOMAIN s : s[j].id = a[2].id <=> j = k BY <1>5, <1>6, <1>7
<1>9. EncontrarPorIDSegm(s, a[2].id) = {k} BY <1>6, <1>8 DEF EncontrarPorIDSegm
<1>10. (CHOOSE j \in EncontrarPorIDSegm(Tabla(a[1]), a[2].id) : TRUE) = k BY <1>2, <1>3, <1>9
<1>11. Segmento(a[1], a[2].id) = a[2] BY <1>2, <1>3, <1>5, <1>10 DEF Segmento
<1> QED BY <1>1, <1>2, <1>3, <1>5, <1>10, <1>11

\* The end of segment 0, when every segment ends after base, or the end of one
\* that ends before.
Destino(tablas, base, nueva) ==
    \/ nueva = TamSegmento0 /\ \A b \in Asignados(tablas) : b[2].base + b[2].size > base
    \/ \E b \in Asignados(tablas) : nueva = b[2].base + b[2].size /\ nueva <= base

\* Where baseMenorCercana sends a segment.
LEMMA BaseNueva ==
    ASSUME BuenasTablas(tablasDeSegmentos), NEW base \in Nat, base >= TamSegmento0,
           NEW nueva, nueva = BaseMenorCercana(base)
    PROVE  Destino(tablasDeSegmentos, base, nueva)
<1> DEFINE fin(x) == LET e == Entrada(tablasDeSegmentos, x) IN e.base + e.size
<1>1. PICK g \in Seq(Nat \X Nat) : g = TablaGlobal(tablasDeSegmentos) BY GlobalEs
<1>2. ToSet(g) = Posiciones(tablasDeSegmentos) BY <1>1, GlobalEs
<1>3. PICK w : w = [i \in DOMAIN g |-> fin(g[i])] OBVIOUS
<1>4. PICK F : F = <<TamSegmento0>> \o w OBVIOUS
<1>5. TamSegmento0 \in Nat BY TamaniosAssumption
<1>6. \A i \in 1 .. Len(g) : w[i] \in Nat
   <2> SUFFICES ASSUME NEW i \in 1 .. Len(g) PROVE w[i] \in Nat OBVIOUS
   <2>1. g[i] \in Posiciones(tablasDeSegmentos) BY <1>2 DEF ToSet
   <2>2. PICK e : e = Entrada(tablasDeSegmentos, g[i]) OBVIOUS
   <2>3. e \in EntradaTabla
      <3>1. PICK a : a = <<tablasDeSegmentos[g[i][1]].pid, e>> OBVIOUS
      <3>2. a \in Asignados(tablasDeSegmentos) BY <2>1, <2>2, <3>1, PosicionDe
      <3>3. a[2] \in EntradaTabla BY <3>2, Pares
      <3> QED BY <3>1, <3>3
   <2>4. e.base \in Nat /\ e.size \in Nat
      BY <2>3, MedidasNat
   <2>5. w[i] = e.base + e.size BY <1>3, <2>2
   <2> QED BY <2>4, <2>5
<1>7. w \in [1 .. Len(g) -> Nat]
   <2> HIDE DEF fin
   <2>1. DOMAIN g = 1 .. Len(g) OBVIOUS
   <2>2. w = [i \in 1 .. Len(g) |-> fin(g[i])] BY <1>3, <2>1
   <2> QED BY <1>6, <2>2
<1>8. w \in Seq(Nat) /\ Len(w) = Len(g) BY <1>3, <1>7, EsSeq
<1>9. /\ F \in Seq(Nat) /\ Len(F) = Len(g) + 1 /\ F[1] = TamSegmento0
      /\ \A i \in 1 .. Len(g) : F[i + 1] = w[i]
   <2>1. <<TamSegmento0>> \in Seq(Nat) /\ Len(<<TamSegmento0>>) = 1 BY <1>5
   <2>2. /\ F \in Seq(Nat) /\ Len(F) = 1 + Len(w)
         /\ \A i \in 1 .. 1 + Len(w) : F[i] = IF i <= 1 THEN <<TamSegmento0>>[i] ELSE w[i - 1]
      BY <1>4, <1>8, <2>1, ConcatProperties
   <2> HIDE DEF fin
   <2>3. Len(g) \in Nat OBVIOUS
   <2>4. F[1] = TamSegmento0
      <3>1. 1 \in 1 .. 1 + Len(w) /\ 1 <= 1 BY <1>8, <2>3
      <3> QED BY <2>2, <3>1
   <2>5. ASSUME NEW i \in 1 .. Len(g) PROVE F[i + 1] = w[i]
      <3>1. i + 1 \in 1 .. 1 + Len(w) /\ ~(i + 1 <= 1) /\ (i + 1) - 1 = i BY <1>8, <2>3
      <3> QED BY <2>2, <3>1
   <2>6. Len(F) = Len(g) + 1 BY <1>8, <2>2, <2>3
   <2> QED BY <2>2, <2>4, <2>5, <2>6
<1>10. PICK I : I = {i \in 1 .. Len(F) : base >= F[i]} OBVIOUS
<1>11. 1 \in I BY <1>9, <1>10
<1>12. PICK n \in I : \A k \in I : n >= k
   <2>1. PICK L \in Nat : L = Len(F) BY <1>9
   <2>2. PICK D : D = {L - i : i \in I} OBVIOUS
   <2>3. D \in SUBSET Nat /\ D # {} BY <1>10, <1>11, <2>1, <2>2
   <2>4. PICK m \in D : \A k \in D : m <= k BY <2>3, MinimoNatural
   <2>5. PICK n \in I : m = L - n BY <2>2, <2>4
   <2>6. ASSUME NEW k \in I PROVE n >= k
      <3>1. L - n <= L - k BY <2>2, <2>4, <2>5
      <3>2. n \in Nat /\ k \in Nat BY <1>10
      <3> QED BY <2>1, <3>1, <3>2
   <2> QED BY <2>6
<1>13. PICK x : x = Max(I) OBVIOUS
<1>14. x \in I BY <1>12, <1>13 DEF Max
<1>15. nueva = F[x]
   <2>1. PICK y : y = SelectLastInSeq(F, LAMBDA f : base >= f) OBVIOUS
   <2>2. y = x BY <1>10, <1>11, <1>13, <2>1 DEF SelectLastInSeq
   <2>3. x # 0 BY <1>10, <1>14
   <2>4. BaseMenorCercana(base) = IF y = 0 THEN 0 ELSE F[y]
      BY <1>1, <1>3, <1>4, <2>1 DEF BaseMenorCercana
   <2> QED BY <2>2, <2>3, <2>4
<1>16. x \in 1 .. Len(F) /\ F[x] <= base BY <1>9, <1>10, <1>14
<1>17. CASE x = 1
   <2>1. ASSUME NEW b \in Asignados(tablasDeSegmentos)
         PROVE  b[2].base + b[2].size > base
      <3>1. PICK y \in Posiciones(tablasDeSegmentos) :
               b = <<tablasDeSegmentos[y[1]].pid, Entrada(tablasDeSegmentos, y)>>
         BY PosicionDe
      <3>2. PICK i \in 1 .. Len(g) : g[i] = y BY <1>2, <3>1 DEF ToSet
      <3>3. w[i] = b[2].base + b[2].size BY <1>3, <3>1, <3>2
      <3>4. i + 1 \in 1 .. Len(F) /\ F[i + 1] = w[i] /\ i + 1 # 1 BY <1>9, <3>2
      <3>5. ~(base >= F[i + 1])
         <4>1. SUFFICES ASSUME base >= F[i + 1] PROVE FALSE OBVIOUS
         <4>2. i + 1 \in I BY <1>10, <3>4, <4>1
         <4>3. n = x
            <5>1. \A k \in I : x >= k BY <1>12, <1>13 DEF Max
            <5>2. n \in Nat /\ x \in Nat BY <1>10, <1>14
            <5> QED BY <1>12, <1>14, <5>1, <5>2
         <4> QED BY <1>12, <1>17, <3>4, <4>2, <4>3
      <3>6. w[i] \in Nat BY <1>6
      <3> QED BY <3>3, <3>4, <3>5, <3>6
   <2> QED BY <1>9, <1>15, <1>17, <2>1 DEF Destino
<1>18. CASE x # 1
   <2>1. PICK i \in 1 .. Len(g) : x = i + 1
      <3>1. x - 1 \in 1 .. Len(g) /\ (x - 1) + 1 = x BY <1>9, <1>16, <1>18
      <3> QED BY <3>1
   <2>2. F[x] = w[i] BY <1>9, <2>1
   <2>3. g[i] \in Posiciones(tablasDeSegmentos) BY <1>2 DEF ToSet
   <2>4. PICK b : b = <<tablasDeSegmentos[g[i][1]].pid, Entrada(tablasDeSegmentos, g[i])>> OBVIOUS
   <2>5. b \in Asignados(tablasDeSegmentos) BY <2>3, <2>4, PosicionDe
   <2>6. w[i] = b[2].base + b[2].size BY <1>3, <2>4
   <2> QED BY <1>15, <1>16, <2>2, <2>5, <2>6 DEF Destino
<1> QED BY <1>17, <1>18 DEF Destino

-----------------------------------------------------------------------------
(* The inductive invariant. *)

\* the keys of a set of segments
Claves(A) == {<<a[1], a[2].id>> : a \in A}

\* Segments lie after segment 0, and none starts at the last byte.
EnMemoria(A) ==
    \A a \in A : /\ a[2].size \in Tamanios
                 /\ a[2].base \in TamSegmento0 .. TamMemoria - 2
                 /\ a[2].base + a[2].size <= TamMemoria

Apartados(A) == \A a, b \in A : a # b => Aparte(a[2], b[2])

\* Every byte of a segment is marked as taken.
Marcados(A, ocupados) ==
    /\ ocupados \subseteq Celdas
    /\ Rango(0, TamSegmento0) \subseteq ocupados
    /\ \A a \in A : Rango(a[2].base, a[2].size) \subseteq ocupados

\* No segment reaches into a hole.
Huecos(A, lista) ==
    /\ lista \subseteq [base : Celdas, size : 1 .. TamMemoria]
    /\ \A h \in lista :
          /\ h.base \in TamSegmento0 .. TamMemoria - 2
          /\ h.base + h.size <= TamMemoria
          /\ \A a \in A : Aparte(a[2], h)

\* The request under way is for a segment that is not there, and there is
\* room in the bound for it.
Pendiente ==
    /\ kernel # "libre" =>
          /\ pedido \in [pid : Pids, id : Ids, size : Tamanios]
          /\ <<pedido.pid, pedido.id>> \notin Vivos
          /\ Cardinality(Vivos) < MaxSegmentos
    /\ kernel = "mueve" => indice \in Nat \ {0}

\* what a byte may hold
Marcas == (Pids \X Ids \X (1 .. TamMemoria)) \cup {<<>>}

\* The types of what the tables do not tell.
Tipos ==
    /\ algoritmo \in Algoritmos
    /\ memoria \in [Celdas -> Marcas]
    /\ kernel \in {"libre", "compacta", "mueve", "repite", "expulsa"}
    /\ pedido \in [pid : Pids, id : Ids, size : Tamanios] \cup {SinPedido}
    /\ indice \in Nat
    /\ transferencia \in [pid : Pids, id : Ids, dir : Celdas, size : Tamanios, enviada : BOOLEAN]
                         \cup {SinTransferencia}
    /\ conforme \in BOOLEAN

\* A transfer is of a process that did not end and, while no compaction moved
\* it, of the place where its segment, one of A, is.
EnCurso(A) ==
    transferencia # SinTransferencia =>
        /\ transferencia.pid \notin listaExit
        /\ conforme => \E a \in A : /\ a[1] = transferencia.pid /\ a[2].id = transferencia.id
                                    /\ a[2].base = transferencia.dir
                                    /\ a[2].size = transferencia.size

\* What MInv says of the tables alone.
DeTablas(tablas) ==
    /\ BuenasTablas(tablas)
    /\ EnMemoria(Asignados(tablas))
    /\ Apartados(Asignados(tablas))

\* The inductive invariant.
MInv ==
    /\ Tipos
    /\ DeTablas(tablasDeSegmentos)
    /\ Marcados(Asignados(tablasDeSegmentos), espacios)
    /\ Huecos(Asignados(tablasDeSegmentos), listaDisp)
    /\ Pendiente
    /\ listaExit \subseteq procesos
    /\ EnCurso(Asignados(tablasDeSegmentos))

\* Vivos is the keys of the segments.
LEMMA ClavesVivas ==
    ASSUME NEW tablas, BuenasTablas(tablas)
    PROVE  UNION {{<<x.pid, x.tabla[k].id>> : k \in 2 .. Len(x.tabla)} : x \in ToSet(tablas)}
              = Claves(Asignados(tablas))
<1> DEFINE V == UNION {{<<x.pid, x.tabla[k].id>> : k \in 2 .. Len(x.tabla)} : x \in ToSet(tablas)}
<1>1. ASSUME NEW v \in V
      PROVE  \E a \in Asignados(tablas) : v = <<a[1], a[2].id>>
   <2>1. PICK t \in DOMAIN tablas :
            v \in {<<tablas[t].pid, tablas[t].tabla[k].id>> : k \in 2 .. Len(tablas[t].tabla)}
      BY DEF ToSet
   <2>2. PICK k \in 2 .. Len(tablas[t].tabla) : v = <<tablas[t].pid, tablas[t].tabla[k].id>>
      BY <2>1
   <2>3. k \in 1 .. Len(tablas[t].tabla) BY UnaTabla
   <2>4. PICK e \in EntradaTabla : e = tablas[t].tabla[k] BY <2>3, UnaTabla
   <2>5. <<tablas[t].pid, e>> \in Asignados(tablas) BY <2>4, AsignadosDe
   <2> QED BY <2>2, <2>4, <2>5
<1>2. ASSUME NEW a \in Asignados(tablas) PROVE <<a[1], a[2].id>> \in V
   <2>1. PICK t \in DOMAIN tablas : \E k \in 2 .. Len(tablas[t].tabla) :
            tablas[t].pid = a[1] /\ tablas[t].tabla[k] = a[2]
      BY DEF Asignados
   <2>2. PICK k \in 2 .. Len(tablas[t].tabla) : tablas[t].pid = a[1] /\ tablas[t].tabla[k] = a[2]
      BY <2>1
   <2>3. <<a[1], a[2].id>> \in {<<tablas[t].pid, tablas[t].tabla[j].id>> :
                                   j \in 2 .. Len(tablas[t].tabla)}
      BY <2>2
   <2>4. tablas[t] \in ToSet(tablas) BY DEF ToSet
   <2> QED BY <2>3, <2>4
<1> QED BY <1>1, <1>2 DEF Claves

\* A sequence has finitely many elements.
LEMMA FinitaImagen ==
    ASSUME NEW n \in Nat, NEW f, DOMAIN f = 1 .. n
    PROVE  IsFiniteSet({f[i] : i \in 1 .. n})
<1>1. IsFiniteSet(1 .. n) BY FS_Interval
<1>2. PICK T : T = {f[i] : i \in 1 .. n} OBVIOUS
<1>3. PICK g : g = [i \in 1 .. n |-> f[i]] OBVIOUS
<1>4. g \in Surjection(1 .. n, T) BY <1>2, <1>3 DEF Surjection
<1>5. IsFiniteSet(T) BY <1>1, <1>4, FS_Surjection
<1> QED BY <1>2, <1>5

\* The segments alive can be counted.
LEMMA ClavesFinitas ==
    ASSUME NEW tablas, BuenasTablas(tablas)
    PROVE  IsFiniteSet(Claves(Asignados(tablas)))
<1>1. PICK g \in Seq(Nat \X Nat) : g = TablaGlobal(tablas) /\ ToSet(g) = Posiciones(tablas)
   BY GlobalEs
<1> DEFINE clave(x) == <<tablas[x[1]].pid, Entrada(tablas, x).id>>
<1>2. PICK n \in Nat : n = Len(g) /\ DOMAIN g = 1 .. n OBVIOUS
<1>3. PICK f : f = [i \in 1 .. n |-> clave(g[i])] OBVIOUS
<1>4. DOMAIN f = 1 .. n BY <1>3
<1>5. IsFiniteSet({f[i] : i \in 1 .. n}) BY <1>4, FinitaImagen
<1>6. Claves(Asignados(tablas)) \subseteq {f[i] : i \in 1 .. n}
   <2> SUFFICES ASSUME NEW a \in Asignados(tablas)
                PROVE  <<a[1], a[2].id>> \in {f[i] : i \in 1 .. n}
      BY DEF Claves
   <2>1. PICK x \in Posiciones(tablas) : a = <<tablas[x[1]].pid, Entrada(tablas, x)>>
      BY PosicionDe
   <2>2. PICK i \in 1 .. n : g[i] = x BY <1>1, <1>2, <2>1 DEF ToSet
   <2>3. f[i] = <<a[1], a[2].id>> BY <1>3, <2>1, <2>2
   <2> QED BY <2>3
<1> QED BY <1>5, <1>6, FS_Subset

\* With fewer than three segments there are not three of them.
LEMMA DosSegmentos ==
    ASSUME NEW tablas, BuenasTablas(tablas), Cardinality(Claves(Asignados(tablas))) <= 2,
           NEW a \in Asignados(tablas), NEW b \in Asignados(tablas), NEW c \in Asignados(tablas)
    PROVE  a = b \/ b = c \/ a = c
<1> SUFFICES ASSUME a # b, b # c, a # c PROVE FALSE OBVIOUS
<1>1. PICK i, j, k : i = <<a[1], a[2].id>> /\ j = <<b[1], b[2].id>> /\ k = <<c[1], c[2].id>>
   OBVIOUS
<1>2. i # j /\ j # k /\ i # k BY <1>1, UnaClave
<1>3. {i, j, k} \in SUBSET Claves(Asignados(tablas)) BY <1>1 DEF Claves
<1>4. IsFiniteSet({i}) /\ Cardinality({i}) = 1 BY FS_Singleton
<1>5. IsFiniteSet({i} \cup {j}) /\ Cardinality({i} \cup {j}) = 2
   <2>1. j \notin {i} BY <1>2
   <2> QED BY <1>4, <2>1, FS_AddElement
<1>6. Cardinality(({i} \cup {j}) \cup {k}) = 3
   <2>1. k \notin {i} \cup {j} BY <1>2
   <2> QED BY <1>5, <2>1, FS_AddElement
<1>7. ({i} \cup {j}) \cup {k} = {i, j, k} OBVIOUS
<1>8. Cardinality({i, j, k}) <= Cardinality(Claves(Asignados(tablas)))
   BY <1>3, ClavesFinitas, FS_Subset
<1>9. Cardinality(Claves(Asignados(tablas))) \in Nat BY ClavesFinitas, FS_CardinalityType
<1> QED BY <1>6, <1>7, <1>8, <1>9

\* actualizarTSGlobal marks every segment.
LEMMA MarcaTodo ==
    ASSUME NEW tablas, BuenasTablas(tablas), EnMemoria(Asignados(tablas))
    PROVE  Marcados(Asignados(tablas), ActualizarTSGlobal(tablas))
<1>1. TamMemoria \in Nat /\ TamSegmento0 \in 1 .. TamMemoria /\ Tamanios \subseteq Nat \ {0}
   BY TamaniosAssumption
<1>2. Rango(0, TamSegmento0) \subseteq Celdas BY <1>1 DEF Rango, Celdas
<1>3. ASSUME NEW a \in Asignados(tablas) PROVE Rango(a[2].base, a[2].size) \subseteq Celdas
   <2>1. PICK b, n : b = a[2].base /\ n = a[2].size OBVIOUS
   <2>2. b \in TamSegmento0 .. TamMemoria - 2 /\ b + n <= TamMemoria /\ n \in Tamanios
      BY <2>1 DEF EnMemoria
   <2>3. n \in Nat BY <1>1, <2>2
   <2>4. b .. b + n - 1 \subseteq 0 .. TamMemoria - 1 BY <1>1, <2>2, <2>3
   <2> QED BY <2>1, <2>4 DEF Rango, Celdas
<1>4. ActualizarTSGlobal(tablas) \subseteq Celdas
   <2> SUFFICES ASSUME NEW c \in ActualizarTSGlobal(tablas) PROVE c \in Celdas OBVIOUS
   <2>1. \/ c \in Rango(0, TamSegmento0)
         \/ \E a \in Asignados(tablas) : c \in Rango(a[2].base, a[2].size)
      BY OcupadosEs
   <2> QED BY <1>2, <1>3, <2>1
<1>5. Rango(0, TamSegmento0) \subseteq ActualizarTSGlobal(tablas) BY OcupadosEs
<1>6. \A a \in Asignados(tablas) : Rango(a[2].base, a[2].size) \subseteq ActualizarTSGlobal(tablas)
   BY OcupadosEs
<1> QED BY <1>4, <1>5, <1>6 DEF Marcados

\* updateEspacios lists holes that no segment reaches into.
LEMMA ListaHuecos ==
    ASSUME NEW A, NEW ocupados, EnMemoria(A), Marcados(A, ocupados)
    PROVE  Huecos(A, UpdateEspacios(ocupados))
<1>1. TamMemoria \in Nat /\ TamSegmento0 \in 1 .. TamMemoria /\ Tamanios \subseteq Nat \ {0}
   BY TamaniosAssumption
<1>2. \A a \in A : /\ a[2].base \in 0 .. TamMemoria - 2 /\ a[2].size \in Nat \ {0}
                   /\ Rango(a[2].base, a[2].size) \subseteq ocupados
   <2> SUFFICES ASSUME NEW a \in A
                PROVE  /\ a[2].base \in 0 .. TamMemoria - 2 /\ a[2].size \in Nat \ {0}
                       /\ Rango(a[2].base, a[2].size) \subseteq ocupados
      OBVIOUS
   <2>1. PICK b : b = a[2].base OBVIOUS
   <2>2. b \in TamSegmento0 .. TamMemoria - 2 BY <2>1 DEF EnMemoria
   <2>3. b \in 0 .. TamMemoria - 2 BY <1>1, <2>2
   <2>4. a[2].size \in Nat \ {0} BY <1>1 DEF EnMemoria
   <2> QED BY <2>1, <2>3, <2>4 DEF Marcados
<1>3. Rango(0, TamSegmento0) \subseteq ocupados BY DEF Marcados
<1>4. ASSUME NEW h \in UpdateEspacios(ocupados)
      PROVE  /\ h \in [base : Celdas, size : 1 .. TamMemoria]
             /\ h.base \in TamSegmento0 .. TamMemoria - 2
             /\ h.base + h.size <= TamMemoria
             /\ \A a \in A : Aparte(a[2], h)
   BY <1>2, <1>3, HuecoLibre, HuecosApartados
<1> QED BY <1>4 DEF Huecos

\* What holds of the segments holds of fewer of them.
LEMMA MenosSegmentos ==
    ASSUME NEW A, NEW B \in SUBSET A
    PROVE  /\ EnMemoria(A) => EnMemoria(B)
           /\ Apartados(A) => Apartados(B)
           /\ \A ocupados : Marcados(A, ocupados) => Marcados(B, ocupados)
           /\ \A lista : Huecos(A, lista) => Huecos(B, lista)
           /\ Claves(B) \subseteq Claves(A)
BY DEF EnMemoria, Apartados, Marcados, Huecos, Claves

\* To be apart is symmetric.
LEMMA AparteSimetrico == \A e, f : Aparte(e, f) <=> Aparte(f, e)
BY DEF Aparte

\* A segment made where a hole starts is apart from all others.
LEMMA CreaEnHueco ==
    ASSUME NEW tablas, DeTablas(tablas), NEW lista, Huecos(Asignados(tablas), lista),
           NEW t \in DOMAIN tablas, NEW h \in lista, NEW id \in Ids, NEW size \in Tamanios,
           size <= h.size, <<tablas[t].pid, id>> \notin Claves(Asignados(tablas)),
           NEW e, e = [id |-> id, base |-> h.base, size |-> size],
           NEW nuevas, nuevas = ConUna(tablas, t, Append(tablas[t].tabla, e))
    PROVE  /\ DeTablas(nuevas) /\ e \in EntradaTabla
           /\ Asignados(nuevas) = Asignados(tablas) \cup {<<tablas[t].pid, e>>}
<1>1. /\ BuenasTablas(tablas) /\ EnMemoria(Asignados(tablas)) /\ Apartados(Asignados(tablas))
   BY DEF DeTablas
<1>2. /\ TamMemoria \in Nat /\ TamSegmento0 \in 1 .. TamMemoria /\ Tamanios \subseteq Nat \ {0}
      /\ Ids \subseteq Nat \ {0}
   BY TamaniosAssumption, IdsAssumption
<1>3. PICK b, n : b = h.base /\ n = h.size OBVIOUS
<1>4. /\ b \in TamSegmento0 .. TamMemoria - 2 /\ b + n <= TamMemoria /\ n \in 1 .. TamMemoria
      /\ \A a \in Asignados(tablas) : Aparte(a[2], h)
   BY <1>3 DEF Huecos
<1>5. e.id = id /\ e.base = b /\ e.size = size /\ e = [id |-> id, base |-> b, size |-> size] BY <1>3
<1>6. b \in Celdas BY <1>2, <1>4 DEF Celdas
<1>7. e \in EntradaTabla BY <1>5, <1>6 DEF EntradaTabla
<1>8. e.id # 0 BY <1>2, <1>5
<1>9. \A f \in EntradaTabla : <<tablas[t].pid, f>> \in Asignados(tablas) => f.id # e.id
   BY <1>5 DEF Claves
<1>10. /\ BuenasTablas(nuevas)
       /\ Asignados(nuevas) = Asignados(tablas) \cup {<<tablas[t].pid, e>>}
   BY <1>1, <1>7, <1>8, <1>9, AgregaSegmento
<1>11. b + size <= TamMemoria /\ size <= n /\ size \in Nat BY <1>2, <1>3, <1>4
<1>12. EnMemoria(Asignados(nuevas))
   <2> SUFFICES ASSUME NEW a \in Asignados(nuevas)
                PROVE  /\ a[2].size \in Tamanios
                       /\ a[2].base \in TamSegmento0 .. TamMemoria - 2
                       /\ a[2].base + a[2].size <= TamMemoria
      BY DEF EnMemoria
   <2>1. CASE a \in Asignados(tablas) BY <1>1, <2>1 DEF EnMemoria
   <2>2. CASE a = <<tablas[t].pid, e>> BY <1>4, <1>5, <1>11, <2>2
   <2> QED BY <1>10, <2>1, <2>2
<1>13. ASSUME NEW a \in Asignados(tablas) PROVE Aparte(a[2], e)
   <2>1. PICK c, m : c = a[2].base /\ m = a[2].size OBVIOUS
   <2>2. c + m <= b \/ b + n <= c BY <1>3, <1>4, <2>1 DEF Aparte
   <2>3. c \in TamSegmento0 .. TamMemoria - 2 /\ m \in Tamanios BY <1>1, <2>1 DEF EnMemoria
   <2>4. c \in Nat /\ m \in Nat BY <1>2, <2>3
   <2>5. c + m <= b \/ b + size <= c BY <1>4, <1>11, <2>2, <2>4
   <2> QED BY <1>5, <2>1, <2>5 DEF Aparte
<1>14. Apartados(Asignados(nuevas))
   <2> SUFFICES ASSUME NEW a \in Asignados(nuevas), NEW c \in Asignados(nuevas), a # c
                PROVE  Aparte(a[2], c[2])
      BY DEF Apartados
   <2>1. CASE a \in Asignados(tablas) /\ c \in Asignados(tablas) BY <1>1, <2>1 DEF Apartados
   <2>2. CASE a \in Asignados(tablas) /\ c = <<tablas[t].pid, e>> BY <1>13, <2>2
   <2>3. CASE c \in Asignados(tablas) /\ a = <<tablas[t].pid, e>>
      BY <1>13, <2>3, AparteSimetrico
   <2> QED BY <1>10, <2>1, <2>2, <2>3
<1> QED BY <1>7, <1>10, <1>12, <1>14 DEF DeTablas

\* One of two segments, moved as compactarEspacios does, is apart from the other.
LEMMA MueveEnTablas ==
    ASSUME NEW tablas, DeTablas(tablas), Cardinality(Claves(Asignados(tablas))) <= 2,
           NEW ocupados, Marcados(Asignados(tablas), ocupados),
           NEW x \in Posiciones(tablas), NEW e, e = Entrada(tablas, x),
           NEW nueva, Destino(tablas, e.base, nueva),
           NEW nuevas, nuevas = ConBase(tablas, x, nueva),
           NEW a, a = <<tablas[x[1]].pid, e>>
    PROVE  /\ DeTablas(nuevas) /\ nueva \in TamSegmento0 .. e.base
           /\ a \in Asignados(tablas)
           /\ Asignados(nuevas) = (Asignados(tablas) \ {a})
                                     \cup {<<a[1], EnBase(e, nueva)>>}
           /\ \A b \in Asignados(tablas) \ {a} : Aparte(b[2], EnBase(e, nueva))
           /\ Claves(Asignados(nuevas)) = Claves(Asignados(tablas))
           /\ Marcados(Asignados(nuevas),
                       (ocupados \ Rango(e.base, e.size)) \cup Rango(nueva, e.size))
<1>1. /\ BuenasTablas(tablas) /\ EnMemoria(Asignados(tablas)) /\ Apartados(Asignados(tablas))
   BY DEF DeTablas
<1>2. TamMemoria \in Nat /\ TamSegmento0 \in 1 .. TamMemoria /\ Tamanios \subseteq Nat \ {0}
   BY TamaniosAssumption
<1>3. a \in Asignados(tablas) /\ a[2] = e /\ e \in EntradaTabla
   <2>1. a \in Asignados(tablas) BY <1>1, PosicionDe
   <2> QED BY <2>1, Pares
<1>4. ASSUME NEW b \in Asignados(tablas)
      PROVE  /\ b[2].size \in Tamanios /\ b[2].size \in Nat \ {0}
             /\ b[2].base \in TamSegmento0 .. TamMemoria - 2 /\ b[2].base \in Nat
             /\ b[2].base + b[2].size <= TamMemoria
   <2>1. /\ b[2].size \in Tamanios /\ b[2].base \in TamSegmento0 .. TamMemoria - 2
         /\ b[2].base + b[2].size <= TamMemoria
      BY <1>1 DEF EnMemoria
   <2>2. PICK c : c = b[2].base OBVIOUS
   <2>3. c \in TamSegmento0 .. TamMemoria - 2 BY <2>1, <2>2
   <2>4. c \in Nat BY <1>2, <2>3
   <2> QED BY <1>2, <2>1, <2>2, <2>4
<1>5. PICK c, m : c = e.base /\ m = e.size OBVIOUS
<1>6. /\ m \in Tamanios /\ m \in Nat \ {0} /\ c \in Nat
      /\ c \in TamSegmento0 .. TamMemoria - 2 /\ c + m <= TamMemoria
   BY <1>3, <1>4, <1>5
<1>7. nueva \in TamSegmento0 .. c
   <2>1. CASE nueva = TamSegmento0 BY <1>2, <1>6, <2>1
   <2>2. ASSUME NEW b \in Asignados(tablas), nueva = b[2].base + b[2].size, nueva <= e.base
         PROVE  nueva \in TamSegmento0 .. c
      <3>1. PICK d, n : d = b[2].base /\ n = b[2].size OBVIOUS
      <3>2. d \in TamSegmento0 .. TamMemoria - 2 /\ n \in Nat \ {0} /\ d \in Nat BY <1>4, <3>1
      <3>3. nueva = d + n /\ nueva <= c BY <1>5, <2>2, <3>1
      <3> QED BY <1>2, <1>6, <3>2, <3>3
   <2> QED BY <2>1, <2>2 DEF Destino
<1>8. nueva \in Nat /\ nueva \in Celdas /\ nueva + m <= c + m /\ nueva + m <= TamMemoria
      /\ nueva \in TamSegmento0 .. TamMemoria - 2
   BY <1>2, <1>6, <1>7 DEF Celdas
<1>9. PICK f : f = EnBase(e, nueva) OBVIOUS
<1>10. f.base = nueva /\ f.size = m /\ f.id = e.id BY <1>3, <1>5, <1>9 DEF EntradaTabla, EnBase
<1>11. /\ BuenasTablas(nuevas)
       /\ Asignados(nuevas) = (Asignados(tablas) \ {a}) \cup {<<a[1], f>>}
   <2>1. a = <<tablas[x[1]].pid, Entrada(tablas, x)>> OBVIOUS
   <2>2. /\ BuenasTablas(nuevas)
         /\ Asignados(nuevas) = (Asignados(tablas) \ {a})
                                   \cup {<<a[1], EnBase(a[2], nueva)>>}
      BY <1>1, <1>8, <2>1, MueveEntrada
   <2> QED BY <1>3, <1>9, <2>2
<1>12. ASSUME NEW b \in Asignados(tablas), b # a PROVE Aparte(b[2], f)
   <2>1. PICK d, n : d = b[2].base /\ n = b[2].size OBVIOUS
   <2>2. d \in Nat /\ n \in Nat \ {0} BY <1>4, <2>1
   <2>3. c + m <= d \/ d + n <= c
      <3>1. Aparte(a[2], b[2]) BY <1>1, <1>3, <1>12 DEF Apartados
      <3> QED BY <1>3, <1>5, <2>1, <3>1 DEF Aparte
   <2>4. CASE nueva = TamSegmento0 /\ \A g \in Asignados(tablas) : g[2].base + g[2].size > e.base
      <3>1. d + n > c BY <1>5, <2>1, <2>4
      <3>2. nueva + m <= d BY <1>6, <1>8, <2>2, <2>3, <3>1
      <3> QED BY <1>10, <2>1, <3>2 DEF Aparte
   <2>5. ASSUME NEW g \in Asignados(tablas), nueva = g[2].base + g[2].size, nueva <= e.base
         PROVE  Aparte(b[2], f)
      <3>1. g # a
         <4>1. g = a => nueva = c + m BY <1>3, <1>5, <2>5
         <4> QED BY <1>5, <1>6, <2>5, <4>1
      <3>2. g = b BY <1>1, <1>3, <1>12, <3>1, DosSegmentos
      <3>3. d + n <= nueva BY <1>8, <2>1, <2>2, <2>5, <3>2
      <3> QED BY <1>10, <2>1, <3>3 DEF Aparte
   <2> QED BY <2>4, <2>5 DEF Destino
<1>13. EnMemoria(Asignados(nuevas))
   <2> SUFFICES ASSUME NEW b \in Asignados(nuevas)
                PROVE  /\ b[2].size \in Tamanios
                       /\ b[2].base \in TamSegmento0 .. TamMemoria - 2
                       /\ b[2].base + b[2].size <= TamMemoria
      BY DEF EnMemoria
   <2>1. CASE b \in Asignados(tablas) BY <1>4, <2>1
   <2>2. CASE b = <<a[1], f>> BY <1>6, <1>8, <1>10, <2>2
   <2> QED BY <1>11, <2>1, <2>2
<1>14. Apartados(Asignados(nuevas))
   <2> SUFFICES ASSUME NEW b \in Asignados(nuevas), NEW d \in Asignados(nuevas), b # d
                PROVE  Aparte(b[2], d[2])
      BY DEF Apartados
   <2>1. CASE b \in Asignados(tablas) \ {a} /\ d \in Asignados(tablas) \ {a}
      BY <1>1, <2>1 DEF Apartados
   <2>2. CASE b \in Asignados(tablas) \ {a} /\ d = <<a[1], f>> BY <1>12, <2>2
   <2>3. CASE d \in Asignados(tablas) \ {a} /\ b = <<a[1], f>>
      BY <1>12, <2>3, AparteSimetrico
   <2> QED BY <1>11, <2>1, <2>2, <2>3
<1>15. Claves(Asignados(nuevas)) = Claves(Asignados(tablas))
   <2>1. <<a[1], a[2].id>> = <<a[1], f.id>> BY <1>3, <1>10
   <2>2. PICK g : g = <<a[1], f>> OBVIOUS
   <2>3. <<g[1], g[2].id>> = <<a[1], a[2].id>> BY <2>1, <2>2
   <2>4. Asignados(nuevas) = (Asignados(tablas) \ {a}) \cup {g} BY <1>11, <2>2
   <2>5. ASSUME NEW b \in Asignados(nuevas)
         PROVE  <<b[1], b[2].id>> \in Claves(Asignados(tablas))
      <3>1. CASE b = g BY <1>3, <2>3, <3>1 DEF Claves
      <3>2. CASE b \in Asignados(tablas) BY <3>2 DEF Claves
      <3> QED BY <2>4, <3>1, <3>2
   <2>6. ASSUME NEW b \in Asignados(tablas)
         PROVE  <<b[1], b[2].id>> \in Claves(Asignados(nuevas))
      <3>1. CASE b = a
         <4>1. g \in Asignados(nuevas) BY <2>4
         <4> QED BY <2>3, <3>1, <4>1 DEF Claves
      <3>2. CASE b # a
         <4>1. b \in Asignados(nuevas) BY <2>4, <3>2
         <4> QED BY <4>1 DEF Claves
      <3> QED BY <3>1, <3>2
   <2> QED BY <2>5, <2>6 DEF Claves
<1>16. PICK o : o = (ocupados \ Rango(e.base, e.size)) \cup Rango(nueva, e.size) OBVIOUS
<1>17. o = (ocupados \ (c .. c + m - 1)) \cup (nueva .. nueva + m - 1)
   BY <1>5, <1>16 DEF Rango
<1>18. /\ ocupados \subseteq Celdas /\ Rango(0, TamSegmento0) \subseteq ocupados
       /\ \A b \in Asignados(tablas) : Rango(b[2].base, b[2].size) \subseteq ocupados
   BY DEF Marcados
<1>19. Marcados(Asignados(nuevas), o)
   <2>1. nueva .. nueva + m - 1 \subseteq Celdas BY <1>2, <1>8, <1>6 DEF Celdas
   <2>2. Rango(0, TamSegmento0) \subseteq o
      <3> SUFFICES ASSUME NEW k \in 0 .. 0 + TamSegmento0 - 1 PROVE k \in o BY DEF Rango
      <3>1. k \in ocupados BY <1>18 DEF Rango
      <3>2. k \notin c .. c + m - 1 BY <1>2, <1>6
      <3> QED BY <1>17, <3>1, <3>2
   <2>3. ASSUME NEW b \in Asignados(tablas), b # a PROVE Rango(b[2].base, b[2].size) \subseteq o
      <3>1. PICK d, n : d = b[2].base /\ n = b[2].size OBVIOUS
      <3>2. d \in Nat /\ n \in Nat \ {0} BY <1>4, <3>1
      <3>3. c + m <= d \/ d + n <= c
         <4>1. Aparte(a[2], b[2]) BY <1>1, <1>3, <2>3 DEF Apartados
         <4> QED BY <1>3, <1>5, <3>1, <4>1 DEF Aparte
      <3>4. d .. d + n - 1 \subseteq ocupados BY <1>18, <3>1 DEF Rango
      <3>5. ASSUME NEW k \in d .. d + n - 1 PROVE k \in o
         <4>1. k \notin c .. c + m - 1 BY <1>6, <3>2, <3>3
         <4> QED BY <1>17, <3>4, <4>1
      <3> QED BY <3>1, <3>5 DEF Rango
   <2>4. Rango(f.base, f.size) \subseteq o BY <1>10, <1>17 DEF Rango
   <2>5. ASSUME NEW b \in Asignados(nuevas) PROVE Rango(b[2].base, b[2].size) \subseteq o
      <3>1. CASE b \in Asignados(tablas) /\ b # a BY <2>3, <3>1
      <3>2. CASE b = <<a[1], f>>
         <4>1. b[2] = f BY <3>2
         <4> QED BY <2>4, <4>1
      <3> QED BY <1>11, <3>1, <3>2
   <2> QED BY <1>17, <1>18, <2>1, <2>2, <2>5 DEF Marcados
<1> QED BY <1>3, <1>5, <1>7, <1>9, <1>11, <1>12, <1>13, <1>14, <1>15, <1>16, <1>19 DEF DeTablas

\* The processes that have a table.
PidsDe(tablas) == {tablas[u].pid : u \in DOMAIN tablas}

\* To replace a table changes no pid.
LEMMA MismosPids ==
    ASSUME NEW tablas, NEW t \in DOMAIN tablas, NEW s, NEW nuevas, nuevas = ConUna(tablas, t, s)
    PROVE  PidsDe(nuevas) = PidsDe(tablas)
<1>1. DOMAIN nuevas = DOMAIN tablas BY DEF ConUna
<1>2. \A u \in DOMAIN tablas : nuevas[u].pid = tablas[u].pid
   <2> SUFFICES ASSUME NEW u \in DOMAIN tablas PROVE nuevas[u].pid = tablas[u].pid OBVIOUS
   <2>1. CASE u = t BY <2>1 DEF ConUna
   <2>2. CASE u # t BY <2>2 DEF ConUna
   <2> QED BY <2>1, <2>2
<1> QED BY <1>1, <1>2 DEF PidsDe

\* ... nor does it to replace a base.
LEMMA MismosPidsAlMover ==
    ASSUME NEW tablas, BuenasTablas(tablas), NEW x \in Posiciones(tablas), NEW nueva,
           NEW nuevas, nuevas = ConBase(tablas, x, nueva)
    PROVE  PidsDe(nuevas) = PidsDe(tablas)
<1>1. PICK t, i : t = x[1] /\ i = x[2] /\ t \in DOMAIN tablas BY PosicionDe
<1>2. tablas[t] \in [pid : Pids, tabla : Seq(EntradaTabla)] BY <1>1, UnaTabla
<1>3. nuevas = [tablas EXCEPT ![t].tabla[i].base = nueva] BY <1>1 DEF ConBase
<1>4. DOMAIN nuevas = DOMAIN tablas /\ \A u \in DOMAIN tablas : nuevas[u].pid = tablas[u].pid
   <2> SUFFICES ASSUME NEW u \in DOMAIN tablas PROVE nuevas[u].pid = tablas[u].pid BY <1>3
   <2>1. CASE u = t BY <1>2, <1>3, <2>1
   <2>2. CASE u # t BY <1>3, <2>2
   <2> QED BY <2>1, <2>2
<1> QED BY <1>4 DEF PidsDe

-----------------------------------------------------------------------------
(* The invariant holds at first and every action keeps it. *)

\* MInv holds at first, whatever malloc left in espacios.
LEMMA Inicio == Init => MInv
<1> SUFFICES ASSUME Init PROVE MInv OBVIOUS
<1>1. /\ TamMemoria \in Nat /\ TamSegmento0 \in 1 .. TamMemoria /\ Tamanios \subseteq Nat \ {0}
   BY TamaniosAssumption
<1>2. tablasDeSegmentos = <<>> /\ DOMAIN tablasDeSegmentos = {} BY DEF Init
<1>3. tablasDeSegmentos \in TiposTablas BY <1>2 DEF TiposTablas
<1>4. BuenasTablas(tablasDeSegmentos) BY <1>2, <1>3 DEF BuenasTablas
<1>5. Asignados(tablasDeSegmentos) = {} BY <1>2 DEF Asignados
<1>6. DeTablas(tablasDeSegmentos) BY <1>4, <1>5 DEF DeTablas, EnMemoria, Apartados
<1>7. Rango(0, TamSegmento0) \subseteq Celdas BY <1>1 DEF Rango, Celdas
<1>8. PICK basura \in Basuras : espacios = Rango(0, TamSegmento0) \cup basura BY DEF Init
<1>9. basura \subseteq Celdas BY BasurasAssumption
<1>10. Marcados({}, espacios) BY <1>7, <1>8, <1>9 DEF Marcados
<1>11. Huecos({}, listaDisp)
   <2>1. EnMemoria({}) BY DEF EnMemoria
   <2> QED BY <1>10, <2>1, ListaHuecos DEF Init
<1>12. Pendiente BY DEF Init, Pendiente
<1>13. Tipos
   <2>1. memoria \in [Celdas -> Marcas] BY DEF Init, Marcas
   <2> QED BY <2>1 DEF Init, Tipos
<1>14. listaExit \subseteq procesos BY DEF Init
<1>15. EnCurso(Asignados(tablasDeSegmentos)) BY DEF Init, EnCurso
<1> QED BY <1>5, <1>6, <1>10, <1>11, <1>12, <1>13, <1>14, <1>15 DEF MInv

\* What MInv says of the tables, in the terms of the actions.
LEMMA DeMInv ==
    ASSUME MInv
    PROVE  /\ BuenasTablas(tablasDeSegmentos)
           /\ EnMemoria(Asignados(tablasDeSegmentos)) /\ Apartados(Asignados(tablasDeSegmentos))
           /\ Marcados(Asignados(tablasDeSegmentos), espacios)
           /\ Huecos(Asignados(tablasDeSegmentos), listaDisp)
           /\ Vivos = Claves(Asignados(tablasDeSegmentos))
<1>1. BuenasTablas(tablasDeSegmentos) BY DEF MInv, DeTablas
<1>2. Vivos = Claves(Asignados(tablasDeSegmentos)) BY <1>1, ClavesVivas DEF Vivos
<1> QED BY <1>1, <1>2 DEF MInv, DeTablas

\* When no key comes or goes, Vivos does not change.
LEMMA VivosSiguen ==
    ASSUME MInv, BuenasTablas(tablasDeSegmentos'),
           Claves(Asignados(tablasDeSegmentos')) = Claves(Asignados(tablasDeSegmentos))
    PROVE  Vivos' = Vivos
<1>1. Vivos' = Claves(Asignados(tablasDeSegmentos')) BY ClavesVivas DEF Vivos
<1> QED BY <1>1, DeMInv

\* When the tables, the marks and the holes stay, so does what is said of them.
LEMMA SinCambios ==
    ASSUME MInv, UNCHANGED <<espacios, listaDisp, tablasDeSegmentos>>
    PROVE  /\ DeTablas(tablasDeSegmentos)'
           /\ Marcados(Asignados(tablasDeSegmentos), espacios)'
           /\ Huecos(Asignados(tablasDeSegmentos), listaDisp)'
           /\ Vivos' = Vivos
<1>1. DeTablas(tablasDeSegmentos') BY DEF MInv
<1>2. Marcados(Asignados(tablasDeSegmentos'), espacios') BY DEF MInv
<1>3. Huecos(Asignados(tablasDeSegmentos'), listaDisp') BY DEF MInv
<1>4. Vivos' = Vivos BY DEF Vivos
<1> QED BY <1>1, <1>2, <1>3, <1>4

\* A transfer stays one of its segment's place when the entry stays, or the copy
\* is noted as gone wrong.
LEMMA SigueEnCurso ==
    ASSUME MInv, transferencia' = transferencia, conforme' => conforme,
           transferencia # SinTransferencia => transferencia.pid \notin listaExit',
           \A a \in Asignados(tablasDeSegmentos) :
              a[1] = transferencia.pid /\ a[2].id = transferencia.id /\ conforme'
                => a \in Asignados(tablasDeSegmentos')
    PROVE  EnCurso(Asignados(tablasDeSegmentos))'
BY DEF MInv, EnCurso

\* What an action that touches no table, no process and no transfer keeps.
LEMMA SinTerminar ==
    ASSUME MInv, UNCHANGED <<tablasDeSegmentos, listaExit, transferencia, conforme>>
    PROVE  /\ (listaExit \subseteq procesos)'
           /\ EnCurso(Asignados(tablasDeSegmentos))'
<1>1. procesos' = procesos BY DEF procesos
<1>2. EnCurso(Asignados(tablasDeSegmentos))' BY SigueEnCurso DEF MInv, EnCurso
<1> QED BY <1>1, <1>2 DEF MInv

\* When the pids of the tables stay, so do the processes.
LEMMA MismosProcesos ==
    ASSUME PidsDe(tablasDeSegmentos') = PidsDe(tablasDeSegmentos)
    PROVE  procesos' = procesos
BY DEF procesos, PidsDe

\* A stuttering step keeps MInv.
LEMMA Quieto == ASSUME MInv, UNCHANGED vars PROVE MInv'
<1>1. UNCHANGED <<algoritmo, espacios, listaDisp, tablasDeSegmentos, memoria, kernel, pedido, indice,
                  listaExit, transferencia, conforme>>
   BY DEF vars, asignacion
<1>2. /\ DeTablas(tablasDeSegmentos)'
      /\ Marcados(Asignados(tablasDeSegmentos), espacios)'
      /\ Huecos(Asignados(tablasDeSegmentos), listaDisp)'
      /\ Vivos' = Vivos
   BY <1>1, SinCambios
<1>3. Tipos' BY <1>1 DEF MInv, Tipos
<1>4. Pendiente' BY <1>1, <1>2 DEF MInv, Pendiente
<1> QED BY <1>1, <1>2, <1>3, <1>4, SinTerminar DEF MInv

\* new_tabla_segmentos adds a process.
LEMMA NuevoProceso ==
    ASSUME MInv, NEW p \in Pids, NewTablaSegmentos(p)
    PROVE  procesos' = procesos \cup {p}
<1>1. PICK R : R = [pid : Pids, tabla : Seq(EntradaTabla)] OBVIOUS
<1>2. PICK T \in Seq(R) : T = tablasDeSegmentos BY <1>1, DeMInv DEF BuenasTablas, TiposTablas
<1>3. PICK n, r : /\ n = tablasDeSegmentos' /\ r = [pid |-> p, tabla |-> <<entradaSegm0>>]
   OBVIOUS
<1>4. n = Append(T, r) /\ r.pid = p BY <1>2, <1>3 DEF NewTablaSegmentos
<1>5. /\ DOMAIN n = 1 .. Len(T) + 1 /\ DOMAIN T = 1 .. Len(T) /\ Len(T) \in Nat
      /\ n[Len(T) + 1] = r /\ \A u \in 1 .. Len(T) : n[u] = T[u]
   BY <1>4
<1>6. \A u \in 1 .. Len(T) + 1 : u \in 1 .. Len(T) \/ u = Len(T) + 1 BY <1>5
<1>7. 1 .. Len(T) \subseteq 1 .. Len(T) + 1 /\ Len(T) + 1 \in 1 .. Len(T) + 1 BY <1>5
<1>8. {n[u].pid : u \in DOMAIN n} = {T[u].pid : u \in DOMAIN T} \cup {p}
   <2>1. \A u \in DOMAIN T : u \in DOMAIN n /\ n[u].pid = T[u].pid BY <1>5, <1>7
   <2>2. Len(T) + 1 \in DOMAIN n /\ n[Len(T) + 1].pid = p BY <1>4, <1>5, <1>7
   <2>3. \A u \in DOMAIN n : u \in DOMAIN T \/ u = Len(T) + 1 BY <1>5, <1>6
   <2> QED BY <2>1, <2>2, <2>3
<1>9. procesos = {T[u].pid : u \in DOMAIN T} BY <1>2 DEF procesos
<1>10. procesos' = {n[u].pid : u \in DOMAIN n} BY <1>3 DEF procesos
<1> QED BY <1>8, <1>9, <1>10

\* new_tabla_segmentos keeps MInv: no segment is asked for yet.
LEMMA NewTablaGuarda ==
    ASSUME MInv, NEW p \in Pids, NewTablaSegmentos(p)
    PROVE  MInv'
<1>1. UNCHANGED <<algoritmo, espacios, listaDisp, memoria, kernel, pedido, indice,
                  listaExit, transferencia, conforme>>
   BY DEF NewTablaSegmentos
<1>2. BuenasTablas(tablasDeSegmentos) BY DeMInv
<1>3. \A t \in DOMAIN tablasDeSegmentos : tablasDeSegmentos[t].pid # p
   BY DEF NewTablaSegmentos, procesos
<1>4. tablasDeSegmentos' = Append(tablasDeSegmentos, [pid |-> p, tabla |-> <<entradaSegm0>>])
   BY DEF NewTablaSegmentos
<1>5. /\ BuenasTablas(tablasDeSegmentos')
      /\ Asignados(tablasDeSegmentos') = Asignados(tablasDeSegmentos)
   BY <1>2, <1>3, <1>4, AgregaTabla
<1>6. DeTablas(tablasDeSegmentos') BY <1>5, DeMInv DEF DeTablas
<1>7. Marcados(Asignados(tablasDeSegmentos'), espacios') BY <1>1, <1>5, DeMInv
<1>8. Huecos(Asignados(tablasDeSegmentos'), listaDisp') BY <1>1, <1>5, DeMInv
<1>9. Vivos' = Vivos BY <1>5, VivosSiguen
<1>10. Tipos' BY <1>1 DEF MInv, Tipos
<1>11. Pendiente' BY <1>1, <1>9 DEF MInv, Pendiente
<1>12. (listaExit \subseteq procesos)' BY <1>1, NuevoProceso DEF MInv
<1>13. EnCurso(Asignados(tablasDeSegmentos))'
   BY <1>1, <1>5, SigueEnCurso DEF MInv, EnCurso
<1> QED BY <1>6, <1>7, <1>8, <1>10, <1>11, <1>12, <1>13 DEF MInv

\* A segment is asked for that is not there.
LEMMA PedidoNuevo ==
    ASSUME MInv, NEW p \in Pids, NEW id \in Ids, NEW size \in Tamanios, PideSegmento(p, id, size)
    PROVE  p \in procesos /\ <<p, id>> \notin Vivos /\ Cardinality(Vivos) < MaxSegmentos
<1>1. CASE kernel = "libre" BY <1>1 DEF PideSegmento, Ejecutables
<1>2. CASE kernel # "libre"
   <2>1. pedido = [pid |-> p, id |-> id, size |-> size] /\ p \in procesos
      BY <1>2 DEF PideSegmento, Ejecutables
   <2>2. pedido.pid = p /\ pedido.id = id BY <2>1
   <2> QED BY <1>2, <2>1, <2>2 DEF MInv, Pendiente
<1> QED BY <1>1, <1>2

\* The tables after a segment is made.
LEMMA LoQueCrea ==
    ASSUME MInv, NEW p \in Pids, NEW id \in Ids, NEW size \in Tamanios, CreaSegmento(p, id, size)
    PROVE  \E t \in DOMAIN tablasDeSegmentos : \E e \in EntradaTabla :
              /\ e.id = id /\ e.size = size /\ tablasDeSegmentos[t].pid = p
              /\ tablasDeSegmentos' =
                    ConUna(tablasDeSegmentos, t, Append(tablasDeSegmentos[t].tabla, e))
              /\ espacios' = ActualizarTSGlobal(tablasDeSegmentos')
              /\ listaDisp' = UpdateEspacios(espacios')
              /\ DeTablas(tablasDeSegmentos')
              /\ Asignados(tablasDeSegmentos') = Asignados(tablasDeSegmentos) \cup {<<p, e>>}
<1>0. PideSegmento(p, id, size) /\ Viables(size) # {} BY DEF CreaSegmento
<1>1. p \in procesos /\ <<p, id>> \notin Vivos BY <1>0, PedidoNuevo
<1>2. BuenasTablas(tablasDeSegmentos) BY DeMInv
<1>3. PICK t \in DOMAIN tablasDeSegmentos :
         /\ tablasDeSegmentos[t].pid = p /\ Tabla(p) = tablasDeSegmentos[t].tabla
         /\ \A s : ConTabla(p, s) = ConUna(tablasDeSegmentos, t, s)
   BY <1>1, <1>2, TablaDe
<1>4. PICK h \in Viables(size) : BuscarEspacioViable(size) = h.base
   <2>1. listaDisp \subseteq [base : Celdas, size : 1 .. TamMemoria] BY DeMInv DEF Huecos
   <2> QED BY <1>0, <2>1, BuscaHueco
<1>5. h \in listaDisp /\ size <= h.size BY DEF Viables
<1>6. PICK e : e = [id |-> id, base |-> h.base, size |-> size] OBVIOUS
<1>7. /\ tablasDeSegmentos' = ConUna(tablasDeSegmentos, t, Append(tablasDeSegmentos[t].tabla, e))
      /\ espacios' = ActualizarTSGlobal(tablasDeSegmentos')
      /\ listaDisp' = UpdateEspacios(espacios')
   BY <1>3, <1>4, <1>6 DEF CreaSegmento
<1>8. <<tablasDeSegmentos[t].pid, id>> \notin Claves(Asignados(tablasDeSegmentos))
   BY <1>1, <1>3, DeMInv
<1>9. DeTablas(tablasDeSegmentos) BY DEF MInv
<1>10. /\ DeTablas(tablasDeSegmentos') /\ e \in EntradaTabla
       /\ Asignados(tablasDeSegmentos') = Asignados(tablasDeSegmentos) \cup {<<p, e>>}
   BY <1>3, <1>5, <1>6, <1>7, <1>8, <1>9, DeMInv, CreaEnHueco
<1> QED BY <1>3, <1>6, <1>7, <1>10

\* crearSegmento that succeeds keeps MInv: the segment starts where a hole does,
\* and the marks and the holes are computed again.
LEMMA CreaSegmentoGuarda ==
    ASSUME MInv, NEW p \in Pids, NEW id \in Ids, NEW size \in Tamanios, CreaSegmento(p, id, size)
    PROVE  MInv'
<1>1. /\ UNCHANGED <<algoritmo, memoria, indice, listaExit, transferencia, conforme>>
      /\ kernel' = "libre" /\ pedido' = SinPedido
   BY DEF CreaSegmento
<1>2. /\ DeTablas(tablasDeSegmentos')
      /\ espacios' = ActualizarTSGlobal(tablasDeSegmentos')
      /\ listaDisp' = UpdateEspacios(espacios')
   BY LoQueCrea
<1>3. Marcados(Asignados(tablasDeSegmentos'), espacios')
   BY <1>2, MarcaTodo DEF DeTablas
<1>4. Huecos(Asignados(tablasDeSegmentos'), listaDisp')
   BY <1>2, <1>3, ListaHuecos DEF DeTablas
<1>5. Tipos' BY <1>1 DEF MInv, Tipos
<1>6. Pendiente' BY <1>1 DEF Pendiente
<1>7. PICK t \in DOMAIN tablasDeSegmentos, e \in EntradaTabla :
         /\ tablasDeSegmentos' = ConUna(tablasDeSegmentos, t, Append(tablasDeSegmentos[t].tabla, e))
         /\ Asignados(tablasDeSegmentos') = Asignados(tablasDeSegmentos) \cup {<<p, e>>}
   BY LoQueCrea
<1>8. procesos' = procesos BY <1>7, MismosPids, MismosProcesos
<1>9. EnCurso(Asignados(tablasDeSegmentos))'
   BY <1>1, <1>7, SigueEnCurso DEF MInv, EnCurso
<1> QED BY <1>1, <1>2, <1>3, <1>4, <1>5, <1>6, <1>8, <1>9 DEF MInv

\* crearSegmento that fails keeps MInv: only the request is noted.
LEMMA NoCreaSegmentoGuarda ==
    ASSUME MInv, NEW p \in Pids, NEW id \in Ids, NEW size \in Tamanios, NoCreaSegmento(p, id, size)
    PROVE  MInv'
<1>1. /\ PideSegmento(p, id, size) /\ kernel' \in {"compacta", "expulsa"}
      /\ pedido' = [pid |-> p, id |-> id, size |-> size]
      /\ UNCHANGED <<algoritmo, espacios, listaDisp, tablasDeSegmentos, memoria, indice,
                     listaExit, transferencia, conforme>>
   BY DEF NoCreaSegmento, asignacion
<1>2. <<p, id>> \notin Vivos /\ Cardinality(Vivos) < MaxSegmentos BY <1>1, PedidoNuevo
<1>3. /\ DeTablas(tablasDeSegmentos)'
      /\ Marcados(Asignados(tablasDeSegmentos), espacios)'
      /\ Huecos(Asignados(tablasDeSegmentos), listaDisp)'
      /\ Vivos' = Vivos
   BY <1>1, SinCambios
<1>4. /\ pedido' \in [pid : Pids, id : Ids, size : Tamanios]
      /\ pedido'.pid = p /\ pedido'.id = id
   BY <1>1
<1>5. Tipos' BY <1>1, <1>4 DEF MInv, Tipos
<1>6. Pendiente' BY <1>1, <1>2, <1>3, <1>4 DEF Pendiente
<1> QED BY <1>1, <1>3, <1>5, <1>6, SinTerminar DEF MInv

\* Bytes hidden or moved keep their type.
LEMMA VisiblesTipo ==
    ASSUME NEW T, <<>> \in T, NEW tablas, NEW bytes,
           \A c \in Celdas : c \in ActualizarTSGlobal(tablas) => bytes[c] \in T
    PROVE  Visibles(bytes, tablas) \in [Celdas -> T]
BY DEF Visibles

\* A segment lies after segment 0 and ends inside the memory area.
LEMMA MedidasDe ==
    ASSUME MInv, NEW a \in Asignados(tablasDeSegmentos)
    PROVE  /\ a[2].base \in Int /\ a[2].size \in Nat \ {0} /\ a[2].size \in Tamanios
           /\ TamSegmento0 <= a[2].base /\ a[2].base + a[2].size <= TamMemoria
           /\ 0 <= a[2].base
<1>1. /\ TamMemoria \in Nat /\ TamSegmento0 \in 1 .. TamMemoria /\ Tamanios \subseteq Nat \ {0}
   BY TamaniosAssumption
<1>2. PICK b, n : b = a[2].base /\ n = a[2].size OBVIOUS
<1>3. b \in TamSegmento0 .. TamMemoria - 2 /\ n \in Tamanios /\ b + n <= TamMemoria
   BY <1>2, DeMInv DEF EnMemoria
<1>4. b \in Int /\ TamSegmento0 <= b /\ 0 <= b /\ n \in Nat \ {0} BY <1>1, <1>3
<1> QED BY <1>2, <1>3, <1>4

\* A write keeps the type of the bytes.
LEMMA EscritaTipo ==
    ASSUME MInv, NEW p \in Pids, NEW id \in Ids, NEW dir \in Nat, NEW size
    PROVE  Escrita(p, id, dir, size) \in [Celdas -> Marcas]
<1>1. memoria \in [Celdas -> Marcas] BY DEF MInv, Tipos
<1>2. TamMemoria \in Nat BY TamaniosAssumption
<1>3. ASSUME NEW c \in Celdas, c \in Rango(dir, size) PROVE <<p, id, c - dir + 1>> \in Marcas
   <2>1. c \in 0 .. TamMemoria - 1 /\ dir <= c BY <1>3 DEF Celdas, Rango
   <2>2. c - dir + 1 \in 1 .. TamMemoria BY <1>2, <2>1
   <2> QED BY <2>2 DEF Marcas
<1> QED BY <1>1, <1>3 DEF Escrita

\* The tables after a segment is deleted.
LEMMA LoQueElimina ==
    ASSUME MInv, NEW p \in Pids, NEW id \in Ids, EliminarSegmento(p, id)
    PROVE  \E t \in DOMAIN tablasDeSegmentos : \E a \in Asignados(tablasDeSegmentos) :
              /\ \E s : tablasDeSegmentos' = ConUna(tablasDeSegmentos, t, s)
              /\ <<p, id>> = <<a[1], a[2].id>> /\ DeTablas(tablasDeSegmentos')
              /\ Asignados(tablasDeSegmentos') = Asignados(tablasDeSegmentos) \ {a}
<1>1. PICK a \in Asignados(tablasDeSegmentos) : a[1] = p /\ a[2].id = id
   <2>1. <<p, id>> \in Vivos BY DEF EliminarSegmento
   <2> QED BY <2>1, DeMInv DEF Claves
<1>2. BuenasTablas(tablasDeSegmentos) BY DeMInv
<1>3. PICK t \in DOMAIN tablasDeSegmentos :
         /\ tablasDeSegmentos[t].pid = p
         /\ Tabla(p) = tablasDeSegmentos[t].tabla
         /\ \A s : ConTabla(p, s) = ConUna(tablasDeSegmentos, t, s)
         /\ \E k \in 2 .. Len(tablasDeSegmentos[t].tabla) :
               /\ tablasDeSegmentos[t].tabla[k] = a[2]
               /\ (CHOOSE j \in EncontrarPorIDSegm(Tabla(p), id) : TRUE) = k
   BY <1>1, <1>2, SegmentoDe
<1>4. PICK k \in 2 .. Len(tablasDeSegmentos[t].tabla) :
         /\ tablasDeSegmentos[t].tabla[k] = a[2]
         /\ (CHOOSE j \in EncontrarPorIDSegm(Tabla(p), id) : TRUE) = k
   BY <1>3
<1>5. tablasDeSegmentos' = ConUna(tablasDeSegmentos, t, RemoveAt(tablasDeSegmentos[t].tabla, k))
   BY <1>3, <1>4 DEF EliminarSegmento
<1>6. /\ BuenasTablas(tablasDeSegmentos')
      /\ Asignados(tablasDeSegmentos') = Asignados(tablasDeSegmentos) \ {a}
   <2>1. a = <<tablasDeSegmentos[t].pid, tablasDeSegmentos[t].tabla[k]>> BY <1>1, <1>3, <1>4, Pares
   <2> QED BY <1>2, <1>5, <2>1, QuitaSegmento
<1>7. DeTablas(tablasDeSegmentos') BY <1>6, DeMInv, MenosSegmentos DEF DeTablas
<1> QED BY <1>1, <1>5, <1>6, <1>7

\* eliminarSegmento keeps MInv: the marks and the holes are computed again.
LEMMA EliminarSegmentoGuarda ==
    ASSUME MInv, NEW p \in Pids, NEW id \in Ids, EliminarSegmento(p, id)
    PROVE  MInv'
<1>1. /\ kernel = "libre" /\ p \in Ejecutables
      /\ UNCHANGED <<algoritmo, kernel, pedido, indice, listaExit, transferencia, conforme>>
      /\ espacios' = ActualizarTSGlobal(tablasDeSegmentos')
      /\ listaDisp' = UpdateEspacios(espacios')
      /\ memoria' = Visibles(memoria, tablasDeSegmentos')
   BY DEF EliminarSegmento
<1>2. DeTablas(tablasDeSegmentos') BY LoQueElimina
<1>3. Marcados(Asignados(tablasDeSegmentos'), espacios') BY <1>1, <1>2, MarcaTodo DEF DeTablas
<1>4. Huecos(Asignados(tablasDeSegmentos'), listaDisp') BY <1>1, <1>2, <1>3, ListaHuecos DEF DeTablas
<1>5. memoria' \in [Celdas -> Marcas]
   <2>1. memoria \in [Celdas -> Marcas] BY DEF MInv, Tipos
   <2>2. <<>> \in Marcas BY DEF Marcas
   <2> QED BY <1>1, <2>1, <2>2, VisiblesTipo
<1>6. Tipos' BY <1>1, <1>5 DEF MInv, Tipos
<1>7. Pendiente' BY <1>1 DEF Pendiente
<1>8. PICK t \in DOMAIN tablasDeSegmentos, a \in Asignados(tablasDeSegmentos) :
         /\ \E s : tablasDeSegmentos' = ConUna(tablasDeSegmentos, t, s)
         /\ <<p, id>> = <<a[1], a[2].id>>
         /\ Asignados(tablasDeSegmentos') = Asignados(tablasDeSegmentos) \ {a}
   BY LoQueElimina
<1>9. procesos' = procesos BY <1>8, MismosPids, MismosProcesos
<1>10. EnCurso(Asignados(tablasDeSegmentos))'
   <2>1. a[1] = p /\ p # transferencia.pid BY <1>1, <1>8 DEF Ejecutables
   <2> QED BY <1>1, <1>8, <2>1, SigueEnCurso DEF MInv, EnCurso
<1> QED BY <1>1, <1>2, <1>3, <1>4, <1>6, <1>7, <1>9, <1>10 DEF MInv

\* finalizarPcb keeps MInv: the process has a table still, and no transfer.
LEMMA TerminaGuarda ==
    ASSUME MInv, NEW p \in Pids, Termina(p)
    PROVE  MInv'
<1>1. /\ UNCHANGED <<algoritmo, espacios, listaDisp, tablasDeSegmentos, memoria, indice,
                     transferencia, conforme>>
      /\ p \in procesos /\ p # transferencia.pid /\ listaExit' = listaExit \cup {p}
      /\ kernel' = "libre" /\ pedido' = SinPedido
   BY DEF Termina, asignacion, Ejecutables
<1>2. /\ DeTablas(tablasDeSegmentos)'
      /\ Marcados(Asignados(tablasDeSegmentos), espacios)'
      /\ Huecos(Asignados(tablasDeSegmentos), listaDisp)'
   BY <1>1, SinCambios
<1>3. Tipos' BY <1>1 DEF MInv, Tipos
<1>4. Pendiente' BY <1>1 DEF Pendiente
<1>5. procesos' = procesos BY <1>1 DEF procesos
<1>6. (listaExit \subseteq procesos)' BY <1>1, <1>5 DEF MInv
<1>7. EnCurso(Asignados(tablasDeSegmentos))' BY <1>1, SigueEnCurso DEF MInv, EnCurso
<1> QED BY <1>2, <1>3, <1>4, <1>6, <1>7 DEF MInv

\* The tables after Memoria forgets a process.
LEMMA LoQueTermina ==
    ASSUME MInv, NEW p \in Pids, EliminarProceso(p)
    PROVE  /\ DeTablas(tablasDeSegmentos')
           /\ Asignados(tablasDeSegmentos') = {a \in Asignados(tablasDeSegmentos) : a[1] # p}
           /\ \A q : (\E u \in DOMAIN tablasDeSegmentos' : tablasDeSegmentos'[u].pid = q)
                       <=> (q # p /\ \E u \in DOMAIN tablasDeSegmentos : tablasDeSegmentos[u].pid = q)
<1>1. p \in procesos BY DEF EliminarProceso, MInv
<1>2. BuenasTablas(tablasDeSegmentos) BY DeMInv
<1>3. PICK t \in DOMAIN tablasDeSegmentos :
         tablasDeSegmentos[t].pid = p /\ (CHOOSE u \in EncontrarPorPID(p) : TRUE) = t
   BY <1>1, <1>2, TablaDe
<1>4. tablasDeSegmentos' = RemoveAt(tablasDeSegmentos, t) BY <1>3 DEF EliminarProceso
<1>5. /\ BuenasTablas(tablasDeSegmentos')
      /\ Asignados(tablasDeSegmentos') = {a \in Asignados(tablasDeSegmentos) : a[1] # p}
      /\ \A q : (\E u \in DOMAIN tablasDeSegmentos' : tablasDeSegmentos'[u].pid = q)
                  <=> (q # p /\ \E u \in DOMAIN tablasDeSegmentos : tablasDeSegmentos[u].pid = q)
   <2>1. PICK T, n : T = tablasDeSegmentos /\ n = tablasDeSegmentos' OBVIOUS
   <2>2. BuenasTablas(T) /\ t \in DOMAIN T /\ n = RemoveAt(T, t) /\ T[t].pid = p
      BY <1>2, <1>3, <1>4, <2>1
   <2>3. /\ BuenasTablas(n)
         /\ Asignados(n) = {a \in Asignados(T) : a[1] # p}
         /\ \A q : (\E u \in DOMAIN n : n[u].pid = q)
                     <=> (q # p /\ \E u \in DOMAIN T : T[u].pid = q)
      BY <2>2, QuitaTabla
   <2> QED BY <2>1, <2>3
<1>6. DeTablas(tablasDeSegmentos') BY <1>5, DeMInv, MenosSegmentos DEF DeTablas
<1> QED BY <1>5, <1>6

\* eliminarProceso keeps MInv: the holes of before are still free of segments.
LEMMA EliminarProcesoGuarda ==
    ASSUME MInv, NEW p \in Pids, EliminarProceso(p)
    PROVE  MInv'
<1>1. /\ UNCHANGED <<algoritmo, listaDisp, kernel, pedido, indice, transferencia, conforme>>
      /\ kernel # "mueve" /\ p \in listaExit /\ listaExit' = listaExit \ {p}
      /\ espacios' = ActualizarTSGlobal(tablasDeSegmentos')
      /\ memoria' = Visibles(memoria, tablasDeSegmentos')
   BY DEF EliminarProceso, Atiende
<1>2. /\ DeTablas(tablasDeSegmentos')
      /\ Asignados(tablasDeSegmentos') \subseteq Asignados(tablasDeSegmentos)
   BY LoQueTermina
<1>3. Marcados(Asignados(tablasDeSegmentos'), espacios') BY <1>1, <1>2, MarcaTodo DEF DeTablas
<1>4. Huecos(Asignados(tablasDeSegmentos'), listaDisp') BY <1>1, <1>2, DeMInv, MenosSegmentos
<1>5. memoria' \in [Celdas -> Marcas]
   <2>1. memoria \in [Celdas -> Marcas] BY DEF MInv, Tipos
   <2>2. <<>> \in Marcas BY DEF Marcas
   <2> QED BY <1>1, <2>1, <2>2, VisiblesTipo
<1>6. Tipos' BY <1>1, <1>5 DEF MInv, Tipos
<1>7. Pendiente'
   <2>1. Vivos = Claves(Asignados(tablasDeSegmentos)) BY DeMInv
   <2>2. Vivos' = Claves(Asignados(tablasDeSegmentos'))
      BY <1>2, ClavesVivas DEF Vivos, DeTablas
   <2>3. Vivos' \subseteq Vivos BY <1>2, <2>1, <2>2, MenosSegmentos
   <2>4. IsFiniteSet(Vivos) BY <2>1, DeMInv, ClavesFinitas
   <2>5. /\ Cardinality(Vivos') <= Cardinality(Vivos)
         /\ Cardinality(Vivos') \in Nat /\ Cardinality(Vivos) \in Nat
      BY <2>3, <2>4, FS_Subset, FS_CardinalityType
   <2>6. MaxSegmentos \in Nat BY TamaniosAssumption
   <2> QED BY <1>1, <2>3, <2>5, <2>6 DEF MInv, Pendiente
<1>8. (listaExit \subseteq procesos)'
   <2>1. procesos' = procesos \ {p} BY LoQueTermina DEF procesos
   <2> QED BY <1>1, <2>1 DEF MInv
<1>9. EnCurso(Asignados(tablasDeSegmentos))'
   <2>1. Asignados(tablasDeSegmentos') = {a \in Asignados(tablasDeSegmentos) : a[1] # p}
      BY LoQueTermina
   <2>2. CASE transferencia = SinTransferencia BY <1>1, <2>2 DEF EnCurso
   <2>3. CASE transferencia # SinTransferencia
      <3>1. transferencia.pid \notin listaExit BY <2>3 DEF MInv, EnCurso
      <3>2. transferencia.pid # p BY <1>1, <3>1
      <3> QED BY <1>1, <2>1, <2>3, <3>1, <3>2, SigueEnCurso
   <2> QED BY <2>2, <2>3
<1> QED BY <1>2, <1>3, <1>4, <1>6, <1>7, <1>8, <1>9 DEF MInv

\* A write keeps MInv: it touches no table.
LEMMA EscribirGuarda ==
    ASSUME MInv, NEW p \in Pids, NEW id \in Ids, EscribirEnMemoria(p, id)
    PROVE  MInv'
<1>0. UNCHANGED <<algoritmo, espacios, listaDisp, tablasDeSegmentos, kernel, pedido, indice,
                  listaExit, transferencia, conforme>>
   BY DEF EscribirEnMemoria, asignacion
<1>1. memoria' \in [Celdas -> Marcas]
   <2>1. PICK a \in Asignados(tablasDeSegmentos) : p = a[1] /\ id = a[2].id
      BY DeMInv DEF EscribirEnMemoria, Claves
   <2>2. Segmento(p, id) = a[2] BY <2>1, DeMInv, SegmentoDe
   <2>3. memoria' = Escrita(p, id, a[2].base, a[2].size) BY <2>2 DEF EscribirEnMemoria
   <2>4. a[2].base \in Nat BY MedidasDe
   <2> QED BY <2>3, <2>4, EscritaTipo
<1>2. /\ DeTablas(tablasDeSegmentos)'
      /\ Marcados(Asignados(tablasDeSegmentos), espacios)'
      /\ Huecos(Asignados(tablasDeSegmentos), listaDisp)'
      /\ Vivos' = Vivos
   BY <1>0, SinCambios
<1>3. Tipos' BY <1>0, <1>1 DEF MInv, Tipos
<1>4. Pendiente' BY <1>0, <1>2 DEF MInv, Pendiente
<1> QED BY <1>0, <1>2, <1>3, <1>4, SinTerminar DEF MInv

\* A request to the Filesystem keeps MInv: it carries the place of the segment.
LEMMA PideTransferenciaGuarda ==
    ASSUME MInv, NEW p \in Pids, NEW id \in Ids, PideTransferencia(p, id)
    PROVE  MInv'
<1>1. /\ UNCHANGED <<algoritmo, espacios, listaDisp, tablasDeSegmentos, memoria, kernel, pedido,
                     indice, listaExit, conforme>>
      /\ p \notin listaExit /\ <<p, id>> \in Vivos
   BY DEF PideTransferencia, asignacion, Ejecutables
<1>2. PICK a \in Asignados(tablasDeSegmentos) : p = a[1] /\ id = a[2].id
   BY <1>1, DeMInv DEF Claves
<1>3. Segmento(p, id) = a[2] BY <1>2, DeMInv, SegmentoDe
<1>4. transferencia' = [pid |-> p, id |-> id, dir |-> a[2].base, size |-> a[2].size,
                        enviada |-> FALSE]
   BY <1>3 DEF PideTransferencia
<1>5. a[2].base \in Celdas /\ a[2].size \in Tamanios
   <2>1. a[2].size \in Tamanios BY MedidasDe
   <2>2. a[2] \in EntradaTabla BY Pares
   <2> QED BY <2>1, <2>2 DEF EntradaTabla
<1>6. /\ DeTablas(tablasDeSegmentos)'
      /\ Marcados(Asignados(tablasDeSegmentos), espacios)'
      /\ Huecos(Asignados(tablasDeSegmentos), listaDisp)'
      /\ Vivos' = Vivos
   BY <1>1, SinCambios
<1>7. Tipos'
   <2>1. transferencia' \in [pid : Pids, id : Ids, dir : Celdas, size : Tamanios, enviada : BOOLEAN]
      BY <1>4, <1>5
   <2> QED BY <1>1, <2>1 DEF MInv, Tipos
<1>8. Pendiente' BY <1>1, <1>6 DEF MInv, Pendiente
<1>9. procesos' = procesos BY <1>1 DEF procesos
<1>10. EnCurso(Asignados(tablasDeSegmentos))' BY <1>1, <1>2, <1>4 DEF EnCurso
<1> QED BY <1>1, <1>6, <1>7, <1>8, <1>9, <1>10 DEF MInv

\* To send the request keeps MInv.
LEMMA EnviaTransferenciaGuarda ==
    ASSUME MInv, EnviaTransferencia
    PROVE  MInv'
<1>1. /\ UNCHANGED <<algoritmo, espacios, listaDisp, tablasDeSegmentos, memoria, kernel, pedido,
                     indice, listaExit, conforme>>
      /\ transferencia # SinTransferencia
      /\ transferencia' = [transferencia EXCEPT !.enviada = TRUE]
   BY DEF EnviaTransferencia, asignacion
<1>2. transferencia \in [pid : Pids, id : Ids, dir : Celdas, size : Tamanios, enviada : BOOLEAN]
   BY <1>1 DEF MInv, Tipos
<1>3. /\ transferencia' \in [pid : Pids, id : Ids, dir : Celdas, size : Tamanios,
                             enviada : BOOLEAN]
      /\ transferencia'.pid = transferencia.pid /\ transferencia'.id = transferencia.id
      /\ transferencia'.dir = transferencia.dir /\ transferencia'.size = transferencia.size
   BY <1>1, <1>2
<1>4. /\ DeTablas(tablasDeSegmentos)'
      /\ Marcados(Asignados(tablasDeSegmentos), espacios)'
      /\ Huecos(Asignados(tablasDeSegmentos), listaDisp)'
      /\ Vivos' = Vivos
   BY <1>1, SinCambios
<1>5. Tipos' BY <1>1, <1>3 DEF MInv, Tipos
<1>6. Pendiente' BY <1>1, <1>4 DEF MInv, Pendiente
<1>7. procesos' = procesos BY <1>1 DEF procesos
<1>8. EnCurso(Asignados(tablasDeSegmentos))' BY <1>1, <1>3 DEF MInv, EnCurso
<1> QED BY <1>1, <1>4, <1>5, <1>6, <1>7, <1>8 DEF MInv

\* The Filesystem's write keeps MInv, wherever it goes.
LEMMA TerminaTransferenciaGuarda ==
    ASSUME MInv, TerminaTransferencia
    PROVE  MInv'
<1>1. /\ UNCHANGED <<algoritmo, espacios, listaDisp, tablasDeSegmentos, kernel, pedido, indice,
                     listaExit, conforme>>
      /\ transferencia.enviada /\ transferencia' = SinTransferencia
   BY DEF TerminaTransferencia, asignacion
<1>2. transferencia # SinTransferencia BY <1>1 DEF SinTransferencia
<1>3. transferencia \in [pid : Pids, id : Ids, dir : Celdas, size : Tamanios, enviada : BOOLEAN]
   BY <1>2 DEF MInv, Tipos
<1>4. memoria' \in [Celdas -> Marcas]
   <2>1. memoria \in [Celdas -> Marcas] BY DEF MInv, Tipos
   <2>2. PICK p \in Pids, id \in Ids, dir \in Celdas, size \in Tamanios :
            /\ p = transferencia.pid /\ id = transferencia.id
            /\ dir = transferencia.dir /\ size = transferencia.size
      BY <1>3
   <2>3. dir \in Nat BY DEF Celdas
   <2>4. Escrita(p, id, dir, size) \in [Celdas -> Marcas] BY <2>3, EscritaTipo
   <2>5. <<>> \in Marcas BY DEF Marcas
   <2>6. \/ memoria' = Visibles(Escrita(p, id, dir, size), tablasDeSegmentos)
         \/ memoria' = memoria
      BY <2>2 DEF TerminaTransferencia
   <2> QED BY <2>1, <2>4, <2>5, <2>6, VisiblesTipo
<1>5. /\ DeTablas(tablasDeSegmentos)'
      /\ Marcados(Asignados(tablasDeSegmentos), espacios)'
      /\ Huecos(Asignados(tablasDeSegmentos), listaDisp)'
      /\ Vivos' = Vivos
   BY <1>1, SinCambios
<1>6. Tipos' BY <1>1, <1>4 DEF MInv, Tipos
<1>7. Pendiente' BY <1>1, <1>5 DEF MInv, Pendiente
<1>8. procesos' = procesos BY <1>1 DEF procesos
<1>9. EnCurso(Asignados(tablasDeSegmentos))' BY <1>1 DEF EnCurso
<1> QED BY <1>1, <1>5, <1>6, <1>7, <1>8, <1>9 DEF MInv

\* The start and the end of a compaction move nothing.
LEMMA EmpiezaYTerminaGuardan ==
    ASSUME MInv, EmpiezaCompactacion \/ TerminaCompactacion
    PROVE  MInv'
<1>0. /\ UNCHANGED <<algoritmo, espacios, listaDisp, tablasDeSegmentos, memoria, pedido,
                     listaExit, transferencia, conforme>>
      /\ kernel # "libre" /\ kernel' \in {"mueve", "repite"} /\ indice' \in Nat
      /\ kernel' = "mueve" => indice' = 1
   BY DEF EmpiezaCompactacion, TerminaCompactacion, asignacion
<1>2. /\ DeTablas(tablasDeSegmentos)'
      /\ Marcados(Asignados(tablasDeSegmentos), espacios)'
      /\ Huecos(Asignados(tablasDeSegmentos), listaDisp)'
      /\ Vivos' = Vivos
   BY <1>0, SinCambios
<1>3. Tipos' BY <1>0 DEF MInv, Tipos
<1>4. Pendiente' BY <1>0, <1>2 DEF MInv, Pendiente
<1> QED BY <1>0, <1>2, <1>3, <1>4, SinTerminar DEF MInv

\* When a compaction moves segments there are at most two of them.
PocosAlMover == kernel = "mueve" => Cardinality(Vivos) <= 2

\* The bytes of e, moved to nueva.
Movida(e, nueva, sube) ==
    IF sube THEN Copia(nueva, e.base, e.size) ELSE CopiaHaciaAbajo(nueva, e.base, e.size)

\* What a move of the entry at x, to nueva, leaves of conforme.
Conformes(x, e, nueva, sube) ==
    /\ conforme
    /\ nueva # e.base => (sube \/ nueva + e.size <= e.base) /\ ~EnTransferencia(x)

\* The segment that is next, and where it goes.
LEMMA LoQueMueve ==
    ASSUME MInv, PocosAlMover, MueveSegmento
    PROVE  \E x \in Posiciones(tablasDeSegmentos) : \E e : \E nueva : \E a :
              /\ e = Entrada(tablasDeSegmentos, x) /\ e \in EntradaTabla
              /\ a = <<tablasDeSegmentos[x[1]].pid, e>> /\ a \in Asignados(tablasDeSegmentos)
              /\ nueva \in TamSegmento0 .. e.base
              /\ tablasDeSegmentos' = ConBase(tablasDeSegmentos, x, nueva)
              /\ espacios' = (espacios \ Rango(e.base, e.size)) \cup Rango(nueva, e.size)
              /\ listaDisp' = UpdateEspacios(espacios')
              /\ \E sube \in BOOLEAN :
                    /\ memoria' = Visibles(Movida(e, nueva, sube), tablasDeSegmentos')
                    /\ conforme' = Conformes(x, e, nueva, sube)
              /\ DeTablas(tablasDeSegmentos')
              /\ Asignados(tablasDeSegmentos') = (Asignados(tablasDeSegmentos) \ {a})
                                     \cup {<<a[1], EnBase(e, nueva)>>}
              /\ \A b \in Asignados(tablasDeSegmentos) \ {a} :
                    Aparte(b[2], EnBase(e, nueva))
              /\ Claves(Asignados(tablasDeSegmentos')) = Claves(Asignados(tablasDeSegmentos))
              /\ Marcados(Asignados(tablasDeSegmentos'), espacios')
<1>1. BuenasTablas(tablasDeSegmentos) BY DeMInv
<1>2. PICK x : /\ x \in {TablaGlobal(tablasDeSegmentos)[indice]}
               /\ \E e \in {Entrada(tablasDeSegmentos, x)} :
                  \E nueva \in {BaseMenorCercana(e.base)} : \E sube \in BOOLEAN :
                     /\ MoverEspacio(x, e, nueva)
                     /\ memoria' = Visibles(Movida(e, nueva, sube), tablasDeSegmentos')
                     /\ conforme' = Conformes(x, e, nueva, sube)
   BY DEF MueveSegmento, Movida, Conformes
<1>3. PICK e : /\ e = Entrada(tablasDeSegmentos, x)
               /\ \E nueva \in {BaseMenorCercana(e.base)} : \E sube \in BOOLEAN :
                     /\ MoverEspacio(x, e, nueva)
                     /\ memoria' = Visibles(Movida(e, nueva, sube), tablasDeSegmentos')
                     /\ conforme' = Conformes(x, e, nueva, sube)
   BY <1>2
<1>4. PICK nueva : /\ nueva = BaseMenorCercana(e.base)
                   /\ \E sube \in BOOLEAN :
                         /\ MoverEspacio(x, e, nueva)
                         /\ memoria' = Visibles(Movida(e, nueva, sube), tablasDeSegmentos')
                         /\ conforme' = Conformes(x, e, nueva, sube)
   BY <1>3
<1>5. x \in Posiciones(tablasDeSegmentos)
   <2>1. PICK g \in Seq(Nat \X Nat) : /\ g = TablaGlobal(tablasDeSegmentos)
                                      /\ ToSet(g) = Posiciones(tablasDeSegmentos)
      BY <1>1, GlobalEs
   <2>2. indice <= Len(g) /\ indice \in Nat \ {0} BY <2>1 DEF MInv, Pendiente, MueveSegmento
   <2>3. indice \in DOMAIN g BY <2>2
   <2>4. x = g[indice] BY <1>2, <2>1
   <2> QED BY <2>1, <2>3, <2>4 DEF ToSet
<1>6. PICK a : a = <<tablasDeSegmentos[x[1]].pid, e>> OBVIOUS
<1>7. a \in Asignados(tablasDeSegmentos) /\ a[2] = e /\ e \in EntradaTabla
   <2>1. a \in Asignados(tablasDeSegmentos) BY <1>1, <1>3, <1>5, <1>6, PosicionDe
   <2> QED BY <1>6, <2>1, Pares
<1>8. e.base \in Nat /\ e.base >= TamSegmento0
   <2>1. PICK b : b = e.base OBVIOUS
   <2>2. b \in TamSegmento0 .. TamMemoria - 2 BY <1>7, <2>1, DeMInv DEF EnMemoria
   <2>3. TamSegmento0 \in Nat /\ TamMemoria \in Nat BY TamaniosAssumption
   <2> QED BY <2>1, <2>2, <2>3
<1>9. Destino(tablasDeSegmentos, e.base, nueva)
   BY <1>1, <1>4, <1>8, BaseNueva
<1>10. /\ tablasDeSegmentos' = ConBase(tablasDeSegmentos, x, nueva)
       /\ espacios' = (espacios \ Rango(e.base, e.size)) \cup Rango(nueva, e.size)
       /\ listaDisp' = UpdateEspacios(espacios')
   BY <1>4 DEF MoverEspacio, ConBase
<1>11. Cardinality(Claves(Asignados(tablasDeSegmentos))) <= 2
   BY DeMInv DEF PocosAlMover, MueveSegmento
<1>12. DeTablas(tablasDeSegmentos) /\ Marcados(Asignados(tablasDeSegmentos), espacios)
   BY DEF MInv
<1>13. /\ DeTablas(tablasDeSegmentos') /\ nueva \in TamSegmento0 .. e.base
       /\ Asignados(tablasDeSegmentos') = (Asignados(tablasDeSegmentos) \ {a})
                                     \cup {<<a[1], EnBase(e, nueva)>>}
       /\ \A b \in Asignados(tablasDeSegmentos) \ {a} :
             Aparte(b[2], EnBase(e, nueva))
       /\ Claves(Asignados(tablasDeSegmentos')) = Claves(Asignados(tablasDeSegmentos))
       /\ Marcados(Asignados(tablasDeSegmentos'),
                   (espacios \ Rango(e.base, e.size)) \cup Rango(nueva, e.size))
   <2>1. PICK T, O, n : T = tablasDeSegmentos /\ O = espacios /\ n = tablasDeSegmentos' OBVIOUS
   <2>2. /\ DeTablas(T) /\ Cardinality(Claves(Asignados(T))) <= 2 /\ Marcados(Asignados(T), O)
         /\ x \in Posiciones(T) /\ e = Entrada(T, x) /\ n = ConBase(T, x, nueva)
         /\ a = <<T[x[1]].pid, e>>
      BY <1>3, <1>5, <1>6, <1>10, <1>11, <1>12, <2>1
   <2>3. Destino(T, e.base, nueva) BY <1>9, <2>1
   <2>4. /\ DeTablas(n) /\ nueva \in TamSegmento0 .. e.base
         /\ Asignados(n) = (Asignados(T) \ {a}) \cup {<<a[1], EnBase(e, nueva)>>}
         /\ \A b \in Asignados(T) \ {a} : Aparte(b[2], EnBase(e, nueva))
         /\ Claves(Asignados(n)) = Claves(Asignados(T))
         /\ Marcados(Asignados(n), (O \ Rango(e.base, e.size)) \cup Rango(nueva, e.size))
      BY <2>2, <2>3, MueveEnTablas
   <2> QED BY <2>1, <2>4
<1> HIDE DEF MInv, MueveSegmento, PocosAlMover
<1> QED BY <1>3, <1>4, <1>5, <1>6, <1>7, <1>10, <1>13

\* A copy keeps the type of the bytes, in either direction.
LEMMA CopiaTipo ==
    ASSUME memoria \in [Celdas -> Marcas], NEW nueva \in Nat, NEW b \in Nat, NEW n \in Nat,
           nueva <= b, b + n <= TamMemoria, NEW c \in Celdas
    PROVE  Copia(nueva, b, n)[c] \in Marcas
<1>1. CASE c \in nueva .. nueva + n - 1
   <2>1. TamMemoria \in Nat BY TamaniosAssumption
   <2>2. c - nueva + b \in Celdas BY <1>1, <2>1 DEF Celdas
   <2>3. Copia(nueva, b, n)[c] = memoria[c - nueva + b] BY <1>1 DEF Copia, Rango
   <2> QED BY <2>2, <2>3
<1>2. CASE c \notin nueva .. nueva + n - 1
   <2>1. Copia(nueva, b, n)[c] = memoria[c] BY <1>2 DEF Copia, Rango
   <2> QED BY <2>1
<1> QED BY <1>1, <1>2

\* What is left over does not exceed what was divided.
LEMMA RestoMenor ==
    ASSUME NEW m \in Nat, NEW d \in Nat \ {0}
    PROVE  m % d \in 0 .. m
<1>1. m % d \in 0 .. d - 1 OBVIOUS
<1>2. PICK q \in Int : q = m \div d OBVIOUS
<1>3. m = (d * q) + (m % d) BY <1>2
<1>4. q >= 0 BY <1>2
<1>5. d * q >= 0 BY <1>4
<1> QED BY <1>1, <1>3, <1>5

LEMMA CopiaHaciaAbajoTipo ==
    ASSUME memoria \in [Celdas -> Marcas], NEW nueva \in Nat, NEW b \in Nat, NEW n \in Nat,
           nueva <= b, b + n <= TamMemoria, NEW c \in Celdas
    PROVE  CopiaHaciaAbajo(nueva, b, n)[c] \in Marcas
<1> DEFINE origen(i) == IF nueva < b THEN n - 1 - ((n - 1 - i) % (b - nueva)) ELSE i
<1>1. CASE c \in nueva .. nueva + n - 1
   <2>1. TamMemoria \in Nat BY TamaniosAssumption
   <2>2. PICK i : i = c - nueva OBVIOUS
   <2>3. i \in 0 .. n - 1 BY <1>1, <2>2
   <2>4. origen(i) \in 0 .. n - 1
      <3>1. CASE nueva < b
         <4>1. PICK d \in Nat \ {0} : d = b - nueva BY <3>1
         <4>2. PICK m \in Nat : m = n - 1 - i BY <2>3
         <4>3. m % d \in 0 .. m BY RestoMenor
         <4>4. n - 1 - (m % d) \in 0 .. n - 1 BY <2>3, <4>2, <4>3
         <4> QED BY <3>1, <4>1, <4>2, <4>4
      <3>2. CASE ~(nueva < b) BY <2>3, <3>2
      <3> QED BY <3>1, <3>2
   <2>5. b + origen(i) \in Celdas
      <3>1. PICK o : o = origen(i) OBVIOUS
      <3>2. o \in 0 .. n - 1 BY <2>4, <3>1
      <3>3. b + o \in Celdas BY <2>1, <3>2 DEF Celdas
      <3> QED BY <3>1, <3>3
   <2>6. CopiaHaciaAbajo(nueva, b, n)[c] = memoria[b + origen(c - nueva)]
      BY <1>1 DEF CopiaHaciaAbajo, Rango
   <2> HIDE DEF origen
   <2> QED BY <2>2, <2>5, <2>6
<1>2. CASE c \notin nueva .. nueva + n - 1
   <2>1. CopiaHaciaAbajo(nueva, b, n)[c] = memoria[c] BY <1>2 DEF CopiaHaciaAbajo, Rango
   <2> QED BY <2>1
<1> QED BY <1>1, <1>2

\* With no byte in common, downwards is as upwards.
LEMMA CopiaSinSolape ==
    ASSUME NEW nueva \in Nat, NEW b \in Nat, NEW n \in Nat, nueva + n <= b
    PROVE  CopiaHaciaAbajo(nueva, b, n) = Copia(nueva, b, n)
<1> DEFINE origen(i) == IF nueva < b THEN n - 1 - ((n - 1 - i) % (b - nueva)) ELSE i
<1>1. ASSUME NEW c \in Celdas, c \in nueva .. nueva + n - 1
      PROVE  b + origen(c - nueva) = c - nueva + b
   <2>1. PICK i : i = c - nueva OBVIOUS
   <2>2. i \in 0 .. n - 1 BY <1>1, <2>1
   <2>3. PICK d \in Nat \ {0} : d = b - nueva BY <2>2
   <2>4. PICK m \in Nat : m = n - 1 - i BY <2>2
   <2>5. m < d BY <2>2, <2>3, <2>4
   <2>6. m % d = m BY <2>5
   <2>7. origen(i) = i BY <2>2, <2>3, <2>4, <2>6
   <2> HIDE DEF origen
   <2> QED BY <2>1, <2>2, <2>7
<1>2. \A c \in Celdas : IF c \in nueva .. nueva + n - 1
                         THEN memoria[b + origen(c - nueva)] = memoria[c - nueva + b]
                         ELSE TRUE
   BY <1>1
<1> QED BY <1>2 DEF CopiaHaciaAbajo, Copia, Rango

\* ... and so it is when nothing moves.
LEMMA CopiaSinMover ==
    ASSUME NEW b \in Nat, NEW n \in Nat
    PROVE  CopiaHaciaAbajo(b, b, n) = Copia(b, b, n)
<1>1. \A c \in Celdas : b + (c - b) = c - b + b BY DEF Celdas
<1> QED BY <1>1 DEF CopiaHaciaAbajo, Copia, Rango

\* A move of compactarEspacios keeps MInv, when there are at most two segments.
LEMMA MueveSegmentoGuarda ==
    ASSUME MInv, PocosAlMover, MueveSegmento
    PROVE  MInv'
<1>x. PICK x \in Posiciones(tablasDeSegmentos) : \E e, nueva, a :
              /\ e \in EntradaTabla
              /\ a = <<tablasDeSegmentos[x[1]].pid, e>> /\ a \in Asignados(tablasDeSegmentos)
              /\ nueva \in TamSegmento0 .. e.base
              /\ e = Entrada(tablasDeSegmentos, x)
              /\ tablasDeSegmentos' = ConBase(tablasDeSegmentos, x, nueva)
              /\ listaDisp' = UpdateEspacios(espacios')
              /\ \E sube \in BOOLEAN :
                    /\ memoria' = Visibles(Movida(e, nueva, sube), tablasDeSegmentos')
                    /\ conforme' = Conformes(x, e, nueva, sube)
              /\ Asignados(tablasDeSegmentos') = (Asignados(tablasDeSegmentos) \ {a})
                                     \cup {<<a[1], EnBase(e, nueva)>>}
              /\ DeTablas(tablasDeSegmentos')
              /\ Claves(Asignados(tablasDeSegmentos')) = Claves(Asignados(tablasDeSegmentos))
              /\ Marcados(Asignados(tablasDeSegmentos'), espacios')
   BY LoQueMueve
<1>1. PICK e, nueva, a :
              /\ e \in EntradaTabla
              /\ a = <<tablasDeSegmentos[x[1]].pid, e>> /\ a \in Asignados(tablasDeSegmentos)
              /\ nueva \in TamSegmento0 .. e.base
              /\ e = Entrada(tablasDeSegmentos, x)
              /\ tablasDeSegmentos' = ConBase(tablasDeSegmentos, x, nueva)
              /\ listaDisp' = UpdateEspacios(espacios')
              /\ \E sube \in BOOLEAN :
                    /\ memoria' = Visibles(Movida(e, nueva, sube), tablasDeSegmentos')
                    /\ conforme' = Conformes(x, e, nueva, sube)
              /\ Asignados(tablasDeSegmentos') = (Asignados(tablasDeSegmentos) \ {a})
                                     \cup {<<a[1], EnBase(e, nueva)>>}
              /\ DeTablas(tablasDeSegmentos')
              /\ Claves(Asignados(tablasDeSegmentos')) = Claves(Asignados(tablasDeSegmentos))
              /\ Marcados(Asignados(tablasDeSegmentos'), espacios')
   BY <1>x
<1>s. PICK sube \in BOOLEAN : /\ memoria' = Visibles(Movida(e, nueva, sube), tablasDeSegmentos')
                              /\ conforme' = Conformes(x, e, nueva, sube)
   BY <1>1
<1>2. /\ UNCHANGED <<algoritmo, kernel, pedido, listaExit, transferencia>>
      /\ indice' = indice + 1 /\ kernel = "mueve"
   BY DEF MueveSegmento
<1>3. Huecos(Asignados(tablasDeSegmentos'), listaDisp')
   BY <1>1, ListaHuecos DEF DeTablas
<1>4. Vivos' = Vivos BY <1>1, VivosSiguen DEF DeTablas
<1>5. memoria' \in [Celdas -> Marcas]
   <2>1. PICK b, n : b = e.base /\ n = e.size OBVIOUS
   <2>2. b \in TamSegmento0 .. TamMemoria - 2 /\ b + n <= TamMemoria /\ n \in Tamanios
      <3>1. a[2] = e BY <1>1
      <3> QED BY <1>1, <2>1, <3>1, DeMInv DEF EnMemoria
   <2>3. /\ TamMemoria \in Nat /\ TamSegmento0 \in 1 .. TamMemoria /\ Tamanios \subseteq Nat \ {0}
      BY TamaniosAssumption
   <2>4. memoria \in [Celdas -> Marcas] BY DEF MInv, Tipos
   <2>5. nueva \in Nat /\ nueva <= b /\ b \in Nat /\ n \in Nat
      <3>1. nueva \in TamSegmento0 .. b BY <1>1, <2>1
      <3> QED BY <2>2, <2>3, <3>1
   <2>6. \A c \in Celdas : Movida(e, nueva, sube)[c] \in Marcas
      BY <2>1, <2>2, <2>4, <2>5, CopiaTipo, CopiaHaciaAbajoTipo DEF Movida
   <2>7. <<>> \in Marcas BY DEF Marcas
   <2> QED BY <1>s, <2>6, <2>7, VisiblesTipo
<1>6. Tipos'
   <2>1. indice' \in Nat BY <1>2 DEF MInv, Tipos
   <2>2. conforme' \in BOOLEAN BY <1>s DEF Conformes
   <2> QED BY <1>2, <1>5, <2>1, <2>2 DEF MInv, Tipos
<1>7. Pendiente'
   <2>1. indice' \in Nat \ {0} BY <1>2 DEF MInv, Tipos
   <2> QED BY <1>2, <1>4, <2>1 DEF MInv, Pendiente
<1>8. procesos' = procesos
   <2>1. BuenasTablas(tablasDeSegmentos) BY DeMInv
   <2> QED BY <1>1, <2>1, MismosPidsAlMover, MismosProcesos
<1>9. (listaExit \subseteq procesos)' BY <1>2, <1>8 DEF MInv
<1>10. EnCurso(Asignados(tablasDeSegmentos))'
   <2>1. conforme' => conforme BY <1>s DEF Conformes
   <2>2. ASSUME NEW d \in Asignados(tablasDeSegmentos), conforme',
                d[1] = transferencia.pid, d[2].id = transferencia.id
         PROVE  d \in Asignados(tablasDeSegmentos')
      <3>1. CASE d # a BY <1>1, <3>1
      <3>2. CASE d = a
         <4>1. d[1] = tablasDeSegmentos[x[1]].pid /\ d[2] = e BY <1>1, <3>2
         <4>2. EnTransferencia(x) BY <1>1, <2>2, <4>1 DEF EnTransferencia
         <4>3. nueva = e.base BY <1>s, <2>2, <4>2 DEF Conformes
         <4>4. EnBase(e, nueva) = e BY <1>1, <4>3 DEF EnBase, EntradaTabla
         <4> QED BY <1>1, <3>2, <4>4
      <3> QED BY <3>1, <3>2
   <2>3. transferencia # SinTransferencia => transferencia.pid \notin listaExit'
      BY <1>2 DEF MInv, EnCurso
   <2> QED BY <1>2, <2>1, <2>2, <2>3, SigueEnCurso
<1> QED BY <1>1, <1>3, <1>6, <1>7, <1>9, <1>10 DEF MInv

\* Every step keeps MInv, when at most two segments move.
LEMMA PasoGuarda == MInv /\ PocosAlMover /\ [Next]_vars => MInv'
<1> SUFFICES ASSUME MInv, PocosAlMover, [Next]_vars PROVE MInv' OBVIOUS
<1>1. CASE UNCHANGED vars BY <1>1, Quieto
<1>2. ASSUME NEW p \in Pids, NewTablaSegmentos(p) PROVE MInv' BY <1>2, NewTablaGuarda
<1>3. ASSUME NEW p \in Pids, EliminarProceso(p) PROVE MInv' BY <1>3, EliminarProcesoGuarda
<1>4. ASSUME NEW p \in Pids, NEW id \in Ids, EliminarSegmento(p, id) PROVE MInv'
   BY <1>4, EliminarSegmentoGuarda
<1>5. ASSUME NEW p \in Pids, NEW id \in Ids, EscribirEnMemoria(p, id) PROVE MInv'
   BY <1>5, EscribirGuarda
<1>8. ASSUME NEW p \in Pids, Termina(p) PROVE MInv' BY <1>8, TerminaGuarda
<1>9. ASSUME NEW p \in Pids, NEW id \in Ids, PideTransferencia(p, id) PROVE MInv'
   BY <1>9, PideTransferenciaGuarda
<1>10. CASE EnviaTransferencia \/ TerminaTransferencia
   BY <1>10, EnviaTransferenciaGuarda, TerminaTransferenciaGuarda
<1>6. ASSUME NEW p \in Pids, NEW id \in Ids, NEW size \in Tamanios, CrearSegmento(p, id, size)
      PROVE  MInv'
   BY <1>6, CreaSegmentoGuarda, NoCreaSegmentoGuarda DEF CrearSegmento
<1>7. CASE CompactarEspacios
   BY <1>7, EmpiezaYTerminaGuardan, MueveSegmentoGuarda DEF CompactarEspacios
<1> QED BY <1>1, <1>2, <1>3, <1>4, <1>5, <1>6, <1>7, <1>8, <1>9, <1>10 DEF Next

\* The bound on the segments alive bounds those that a compaction moves.
LEMMA TresSegmentos == MInv /\ MaxSegmentos <= 3 => PocosAlMover
<1> SUFFICES ASSUME MInv, MaxSegmentos <= 3, kernel = "mueve" PROVE Cardinality(Vivos) <= 2
   BY DEF PocosAlMover
<1>1. Cardinality(Vivos) < MaxSegmentos BY DEF MInv, Pendiente
<1>2. Cardinality(Vivos) \in Nat
   BY DeMInv, ClavesFinitas, FS_CardinalityType
<1>3. MaxSegmentos \in Nat BY TamaniosAssumption
<1> QED BY <1>1, <1>2, <1>3

-----------------------------------------------------------------------------
(* What the invariant implies. *)

\* MInv implies the type invariant.
LEMMA TiposDeMInv == MInv => TypeOK
<1> SUFFICES ASSUME MInv PROVE TypeOK OBVIOUS
<1>1. BuenasTablas(tablasDeSegmentos) BY DeMInv
<1>2. espacios \subseteq Celdas BY DeMInv DEF Marcados
<1>3. /\ listaDisp \subseteq [base : Celdas, size : 1 .. TamMemoria]
      /\ \A h \in listaDisp : h.base + h.size <= TamMemoria
   BY DeMInv DEF Huecos
<1>4. tablasDeSegmentos \in Seq([pid : Pids, tabla : Seq(EntradaTabla)])
   BY <1>1 DEF BuenasTablas, TiposTablas
<1>5. ASSUME NEW t \in DOMAIN tablasDeSegmentos
      PROVE  /\ Head(tablasDeSegmentos[t].tabla) = entradaSegm0
             /\ \A k \in DOMAIN tablasDeSegmentos[t].tabla :
                   LET e == tablasDeSegmentos[t].tabla[k] IN e.base + e.size <= TamMemoria
   <2>1. PICK s \in Seq(EntradaTabla) : s = tablasDeSegmentos[t].tabla BY <1>1, UnaTabla
   <2>2. Len(s) \in Nat \ {0} /\ s[1] = entradaSegm0 /\ DOMAIN s = 1 .. Len(s)
      BY <1>1, <2>1, UnaTabla
   <2>3. Head(s) = entradaSegm0 BY <2>2
   <2>4. ASSUME NEW k \in DOMAIN s PROVE s[k].base + s[k].size <= TamMemoria
      <3>1. CASE k = 1
         <4>1. s[k].base = 0 /\ s[k].size = TamSegmento0 BY <2>2, <3>1 DEF entradaSegm0
         <4> QED BY <4>1, TamaniosAssumption
      <3>2. CASE k # 1
         <4>1. k \in 2 .. Len(s) BY <2>2, <3>2
         <4>2. s[k] \in EntradaTabla BY <2>2
         <4>3. PICK a : a = <<tablasDeSegmentos[t].pid, s[k]>> OBVIOUS
         <4>4. a \in Asignados(tablasDeSegmentos) BY <1>1, <2>1, <4>1, <4>2, <4>3, AsignadosDe
         <4>5. a[2].base + a[2].size <= TamMemoria BY <4>4, DeMInv DEF EnMemoria
         <4> QED BY <4>3, <4>5
      <3> QED BY <3>1, <3>2
   <2> QED BY <2>1, <2>3, <2>4
<1> QED BY <1>2, <1>3, <1>4, <1>5 DEF MInv, Tipos, TypeOK, Marcas

\* The bytes of a live segment are those of its entry.
LEMMA BytesDe ==
    ASSUME MInv
    PROVE  \A k \in Vivos : \E a \in Asignados(tablasDeSegmentos) :
              /\ k = <<a[1], a[2].id>> /\ Segmento(k[1], k[2]) = a[2]
              /\ Bytes(k) = Rango(a[2].base, a[2].size)
<1> SUFFICES ASSUME NEW k \in Vivos
             PROVE  \E a \in Asignados(tablasDeSegmentos) :
                       /\ k = <<a[1], a[2].id>> /\ Segmento(k[1], k[2]) = a[2]
                       /\ Bytes(k) = Rango(a[2].base, a[2].size)
   OBVIOUS
<1>1. PICK a \in Asignados(tablasDeSegmentos) : k = <<a[1], a[2].id>> BY DeMInv DEF Claves
<1>2. Segmento(a[1], a[2].id) = a[2] BY DeMInv, SegmentoDe
<1>3. Bytes(k) = Rango(a[2].base, a[2].size) BY <1>1, <1>2 DEF Bytes
<1> QED BY <1>1, <1>2, <1>3

\* Segments and holes that are apart share no byte.
LEMMA SinBytesComunes ==
    ASSUME NEW b \in Int, NEW m \in Int, NEW c \in Int, NEW n \in Int,
           b + m <= c \/ c + n <= b
    PROVE  Rango(b, m) \cap Rango(c, n) = {}
BY DEF Rango

\* MInv implies that no two segments share a byte.
LEMMA SolapesDeMInv == MInv => SinSolapes
<1> SUFFICES ASSUME MInv PROVE SinSolapes OBVIOUS
<1>0. TamSegmento0 \in Int BY TamaniosAssumption
<1>1. ASSUME NEW k \in Vivos PROVE Bytes(k) \cap Rango(0, TamSegmento0) = {}
   <2>1. PICK a \in Asignados(tablasDeSegmentos) : Bytes(k) = Rango(a[2].base, a[2].size)
      BY BytesDe
   <2>2. a[2].base \in Int /\ a[2].size \in Int /\ 0 + TamSegmento0 <= a[2].base
      BY <1>0, MedidasDe
   <2> QED BY <1>0, <2>1, <2>2, SinBytesComunes
<1>2. ASSUME NEW k \in Vivos, NEW l \in Vivos, k # l PROVE Bytes(k) \cap Bytes(l) = {}
   <2>1. PICK a \in Asignados(tablasDeSegmentos) :
            k = <<a[1], a[2].id>> /\ Bytes(k) = Rango(a[2].base, a[2].size)
      BY BytesDe
   <2>2. PICK c \in Asignados(tablasDeSegmentos) :
            l = <<c[1], c[2].id>> /\ Bytes(l) = Rango(c[2].base, c[2].size)
      BY BytesDe
   <2>3. Aparte(a[2], c[2]) BY <1>2, <2>1, <2>2, DeMInv DEF Apartados
   <2>4. /\ a[2].base \in Int /\ a[2].size \in Int /\ c[2].base \in Int /\ c[2].size \in Int
      BY MedidasDe
   <2> QED BY <2>1, <2>2, <2>3, <2>4, SinBytesComunes DEF Aparte
<1> QED BY <1>1, <1>2 DEF SinSolapes

\* MInv implies that every hole on offer is free.
LEMMA HuecosDeMInv == MInv => HuecosLibres
<1> SUFFICES ASSUME MInv, NEW h \in listaDisp, NEW k \in Vivos
             PROVE  Bytes(k) \cap Rango(h.base, h.size) = {}
   BY DEF HuecosLibres
<1>1. PICK a \in Asignados(tablasDeSegmentos) : Bytes(k) = Rango(a[2].base, a[2].size)
   BY BytesDe
<1>2. a[2].base \in Int /\ a[2].size \in Int BY MedidasDe
<1>3. h \in [base : Celdas, size : 1 .. TamMemoria] /\ Aparte(a[2], h) BY DeMInv DEF Huecos
<1>4. h.base \in Int /\ h.size \in Int
   <2>1. h.base \in 0 .. TamMemoria - 1 /\ h.size \in 1 .. TamMemoria BY <1>3 DEF Celdas
   <2>2. TamMemoria \in Nat BY TamaniosAssumption
   <2> QED BY <2>1, <2>2
<1> QED BY <1>1, <1>2, <1>3, <1>4, SinBytesComunes DEF Aparte

\* While no compaction moves more than two segments, what MInv says holds: a
\* compaction goes over the tables, not over the addresses, and can move a
\* third segment over one that has not moved.
LEMMA Mantiene == Spec /\ []PocosAlMover => []MInv
<1>1. Init => MInv BY Inicio
<1>2. MInv /\ PocosAlMover /\ [Next]_vars => MInv' BY PasoGuarda
<1> QED BY <1>1, <1>2, PTL DEF Spec

\* The tables, the marks and the holes stay inside the memory area.
THEOREM TiposDeMemoria == Spec /\ []PocosAlMover => []TypeOK
BY Mantiene, TiposDeMInv, PTL

\* Two segments never share a byte, whatever is created, deleted or moved, and
\* in between the moves of a compaction.
THEOREM SegmentosSinSolapes == Spec /\ []PocosAlMover => []SinSolapes
BY Mantiene, SolapesDeMInv, PTL

\* A hole on offer is free, also when the list is older than the tables.
THEOREM HuecosSiempreLibres == Spec /\ []PocosAlMover => []HuecosLibres
BY Mantiene, HuecosDeMInv, PTL

-----------------------------------------------------------------------------
(* Memoria implements MemoriaVirtual. *)

\* The bytes of an entry.
Leido(bytes, e) == [i \in 1 .. e.size |-> bytes[e.base + i - 1]]

\* What MemoriaVirtual sees: the bytes of each live segment.
Contenido == [k \in Vivos |-> LET s == Segmento(k[1], k[2]) IN LeerEnMemoria(s.base, s.size)]

\* The content of each segment is what is read at its entry.
ContenidoBien ==
    MInv => /\ DOMAIN Contenido = Claves(Asignados(tablasDeSegmentos))
            /\ \A a \in Asignados(tablasDeSegmentos) :
                  Contenido[<<a[1], a[2].id>>] = Leido(memoria, a[2])

\* What Segmento finds for a key is the entry with that key.
LEMMA ContenidoEs == ContenidoBien
<1> SUFFICES ASSUME MInv
             PROVE  /\ DOMAIN Contenido = Claves(Asignados(tablasDeSegmentos))
                    /\ \A a \in Asignados(tablasDeSegmentos) :
                          Contenido[<<a[1], a[2].id>>] = Leido(memoria, a[2])
   BY DEF ContenidoBien
<1>1. DOMAIN Contenido = Claves(Asignados(tablasDeSegmentos)) BY DeMInv DEF Contenido
<1>2. ASSUME NEW a \in Asignados(tablasDeSegmentos)
      PROVE  Contenido[<<a[1], a[2].id>>] = Leido(memoria, a[2])
   <2>1. PICK k \in Vivos : k = <<a[1], a[2].id>> BY DeMInv DEF Claves
   <2>2. Segmento(k[1], k[2]) = a[2] BY <2>1, DeMInv, SegmentoDe
   <2> QED BY <2>1, <2>2 DEF Contenido, LeerEnMemoria, Leido
<1> QED BY <1>1, <1>2

\* ... and in the next state.
LEMMA ContenidoPrimado ==
    ASSUME MInv'
    PROVE  /\ DOMAIN Contenido' = Claves(Asignados(tablasDeSegmentos'))
           /\ \A a \in Asignados(tablasDeSegmentos') :
                 Contenido'[<<a[1], a[2].id>>] = Leido(memoria', a[2])
<1>1. ContenidoBien' BY ContenidoEs, PTL
<1> QED BY <1>1 DEF ContenidoBien

\* Two entries that are read alike give the same content.
LEMMA LeenIgual ==
    ASSUME NEW e \in EntradaTabla, NEW b1, NEW b2,
           \A c \in Rango(e.base, e.size) : b1[c] = b2[c]
    PROVE  Leido(b1, e) = Leido(b2, e)
<1>1. e.base \in Int /\ e.size \in Int BY MedidasNat
<1>2. PICK b, n : b = e.base /\ n = e.size OBVIOUS
<1>3. b \in Int /\ n \in Int /\ \A c \in b .. b + n - 1 : b1[c] = b2[c] BY <1>1, <1>2 DEF Rango
<1>4. \A i \in 1 .. n : b1[b + i - 1] = b2[b + i - 1]
   <2> SUFFICES ASSUME NEW i \in 1 .. n PROVE b1[b + i - 1] = b2[b + i - 1] OBVIOUS
   <2>1. b + i - 1 \in b .. b + n - 1 BY <1>3
   <2> QED BY <1>3, <2>1
<1> QED BY <1>2, <1>4 DEF Leido

\* Hiding what no segment owns does not touch the bytes of a segment.
LEMMA VisiblesDe ==
    ASSUME NEW tablas, DeTablas(tablas), NEW a \in Asignados(tablas), NEW bytes
    PROVE  Leido(Visibles(bytes, tablas), a[2]) = Leido(bytes, a[2])
<1>1. BuenasTablas(tablas) /\ EnMemoria(Asignados(tablas)) BY DEF DeTablas
<1>2. ASSUME NEW c \in Rango(a[2].base, a[2].size) PROVE Visibles(bytes, tablas)[c] = bytes[c]
   <2>1. c \in ActualizarTSGlobal(tablas) BY <1>1, OcupadosEs
   <2>2. c \in Celdas BY <1>1, <2>1, MarcaTodo DEF Marcados
   <2> QED BY <2>1, <2>2 DEF Visibles
<1>3. a[2] \in EntradaTabla BY Pares
<1> QED BY <1>2, <1>3, LeenIgual

\* The segments of the next state that were there hold what they held.
Conservan(A) == \A b \in A : Leido(memoria', b[2]) = Leido(memoria, b[2])

\* Entries that stay and are read alike keep what the segments hold, but for those
\* of S.
LEMMA ConservaDe ==
    ASSUME MInv, MInv', NEW S, NEW A \in SUBSET Asignados(tablasDeSegmentos),
           A \subseteq Asignados(tablasDeSegmentos'), Conservan(A),
           Claves(Asignados(tablasDeSegmentos)) \ S = Claves(Asignados(tablasDeSegmentos')) \ S,
           Claves(Asignados(tablasDeSegmentos)) \ S \subseteq Claves(A)
    PROVE  /\ DOMAIN Contenido \ S = DOMAIN Contenido' \ S
           /\ \A k \in DOMAIN Contenido \ S : Contenido'[k] = Contenido[k]
<1>1. /\ DOMAIN Contenido = Claves(Asignados(tablasDeSegmentos))
      /\ \A a \in Asignados(tablasDeSegmentos) :
            Contenido[<<a[1], a[2].id>>] = Leido(memoria, a[2])
   BY ContenidoEs DEF ContenidoBien
<1>2. /\ DOMAIN Contenido' = Claves(Asignados(tablasDeSegmentos'))
      /\ \A a \in Asignados(tablasDeSegmentos') :
            Contenido'[<<a[1], a[2].id>>] = Leido(memoria', a[2])
   BY ContenidoPrimado
<1>3. ASSUME NEW k \in DOMAIN Contenido \ S PROVE Contenido'[k] = Contenido[k]
   <2>1. PICK b \in A : k = <<b[1], b[2].id>> BY <1>1, <1>3 DEF Claves
   <2> QED BY <1>1, <1>2, <2>1 DEF Conservan
<1> QED BY <1>1, <1>2, <1>3

\* Contents that agree on every key are the same.
LEMMA ContenidoIgual ==
    ASSUME DOMAIN Contenido' = DOMAIN Contenido,
           \A k \in DOMAIN Contenido : Contenido'[k] = Contenido[k]
    PROVE  Contenido' = Contenido
<1>1. Contenido = [k \in DOMAIN Contenido |-> Contenido[k]] BY DEF Contenido
<1>2. Contenido' = [k \in DOMAIN Contenido' |-> Contenido'[k]] BY DEF Contenido
<1> QED BY <1>1, <1>2

\* Entries that stay and are read alike, with no key more or less: the
\* contents are the same.
LEMMA TodoIgual ==
    ASSUME MInv, MInv', Asignados(tablasDeSegmentos') = Asignados(tablasDeSegmentos),
           Conservan(Asignados(tablasDeSegmentos))
    PROVE  Contenido' = Contenido
<1>1. PICK S : S = {} OBVIOUS
<1>2. /\ DOMAIN Contenido \ S = DOMAIN Contenido' \ S
      /\ \A k \in DOMAIN Contenido \ S : Contenido'[k] = Contenido[k]
   BY <1>1, ConservaDe
<1> QED BY <1>1, <1>2, ContenidoIgual

\* new_tabla_segmentos is Inicia.
LEMMA IniciaVirtual ==
    ASSUME MInv, MInv', NEW p \in Pids, NewTablaSegmentos(p)
    PROVE  Virtual!Inicia(p)
<1>1. p \notin procesos BY DEF NewTablaSegmentos
<1>2. tablasDeSegmentos' = Append(tablasDeSegmentos, [pid |-> p, tabla |-> <<entradaSegm0>>])
   BY DEF NewTablaSegmentos
<1>3. BuenasTablas(tablasDeSegmentos) BY DeMInv
<1>4. procesos' = procesos \cup {p} BY NuevoProceso
<1>5. Asignados(tablasDeSegmentos') = Asignados(tablasDeSegmentos)
   <2>1. \A t \in DOMAIN tablasDeSegmentos : tablasDeSegmentos[t].pid # p BY <1>1 DEF procesos
   <2> QED BY <1>2, <1>3, <2>1, AgregaTabla
<1>6. Conservan(Asignados(tablasDeSegmentos)) BY DEF Conservan, NewTablaSegmentos
<1>7. Contenido' = Contenido BY <1>5, <1>6, TodoIgual
<1> QED BY <1>1, <1>4, <1>7 DEF Virtual!Inicia, Contenido

\* What is read of an entry is as long as the entry.
LEMMA LargoLeido == \A bytes : \A e \in EntradaTabla : Len(Leido(bytes, e)) = e.size
<1> SUFFICES ASSUME NEW bytes, NEW e \in EntradaTabla PROVE Len(Leido(bytes, e)) = e.size
   OBVIOUS
<1>1. PICK n \in Nat : n = e.size BY MedidasNat
<1>2. PICK s : s = Leido(bytes, e) OBVIOUS
<1>3. PICK T : T = {bytes[e.base + i - 1] : i \in 1 .. n} OBVIOUS
<1>4. s \in [1 .. n -> T] BY <1>1, <1>2, <1>3 DEF Leido
<1>5. s \in Seq(T) BY <1>4, EsSeq
<1>6. Len(s) = n BY <1>4, <1>5
<1> QED BY <1>1, <1>2, <1>6

\* crearSegmento is Crea: the others hold what they held.
LEMMA CreaVirtual ==
    ASSUME MInv, MInv', NEW p \in Pids, NEW id \in Ids, NEW size \in Tamanios,
           CreaSegmento(p, id, size)
    PROVE  Virtual!Crea(p, id)
<1>1. PICK t \in DOMAIN tablasDeSegmentos, e \in EntradaTabla :
              /\ e.id = id /\ e.size = size
              /\ tablasDeSegmentos' =
                    ConUna(tablasDeSegmentos, t, Append(tablasDeSegmentos[t].tabla, e))
              /\ Asignados(tablasDeSegmentos') = Asignados(tablasDeSegmentos) \cup {<<p, e>>}
   BY LoQueCrea
<1>2. p \in procesos /\ <<p, id>> \notin Vivos BY PedidoNuevo DEF CreaSegmento
<1>3. procesos' = procesos
   <2>1. PidsDe(tablasDeSegmentos') = PidsDe(tablasDeSegmentos) BY <1>1, MismosPids
   <2> QED BY <2>1 DEF procesos, PidsDe
<1>4. /\ DOMAIN Contenido = Claves(Asignados(tablasDeSegmentos))
      /\ DOMAIN Contenido' = Claves(Asignados(tablasDeSegmentos'))
      /\ \A a \in Asignados(tablasDeSegmentos') :
            Contenido'[<<a[1], a[2].id>>] = Leido(memoria', a[2])
   BY ContenidoEs, ContenidoPrimado DEF ContenidoBien
<1>5. <<p, id>> \notin DOMAIN Contenido BY <1>2 DEF Contenido
<1>6. PICK a \in Asignados(tablasDeSegmentos') : a = <<p, e>> BY <1>1
<1>7. <<a[1], a[2].id>> = <<p, id>> /\ a[2] = e BY <1>1, <1>6
<1>8. <<p, id>> \in DOMAIN Contenido' BY <1>4, <1>7 DEF Claves
<1>9. Contenido'[<<p, id>>] = Leido(memoria', e) BY <1>4, <1>7
<1>10. Len(Contenido'[<<p, id>>]) \in Tamanios BY <1>1, <1>9, LargoLeido
<1>11. PICK S : S = {<<p, id>>} OBVIOUS
<1>12. Claves(Asignados(tablasDeSegmentos)) \ S = Claves(Asignados(tablasDeSegmentos')) \ S
   <2>1. ASSUME NEW b \in Asignados(tablasDeSegmentos'), <<b[1], b[2].id>> \notin S
         PROVE  b \in Asignados(tablasDeSegmentos)
      BY <1>1, <1>6, <1>7, <1>11, <2>1
   <2> QED BY <1>1, <2>1 DEF Claves
<1>13. Conservan(Asignados(tablasDeSegmentos)) BY DEF Conservan, CreaSegmento
<1>14. /\ DOMAIN Contenido \ S = DOMAIN Contenido' \ S
       /\ \A k \in DOMAIN Contenido \ S : Contenido'[k] = Contenido[k]
   BY <1>1, <1>12, <1>13, ConservaDe
<1> QED BY <1>2, <1>3, <1>5, <1>8, <1>10, <1>11, <1>14
        DEF Virtual!Crea, Virtual!Segmentos, Virtual!Conserva, Contenido

\* eliminarSegmento is Elimina: the others hold what they held.
LEMMA EliminaVirtual ==
    ASSUME MInv, MInv', NEW p \in Pids, NEW id \in Ids, EliminarSegmento(p, id)
    PROVE  Virtual!Elimina(p, id)
<1>1. PICK t \in DOMAIN tablasDeSegmentos, a \in Asignados(tablasDeSegmentos) :
              /\ \E s : tablasDeSegmentos' = ConUna(tablasDeSegmentos, t, s)
              /\ <<p, id>> = <<a[1], a[2].id>> /\ DeTablas(tablasDeSegmentos')
              /\ Asignados(tablasDeSegmentos') = Asignados(tablasDeSegmentos) \ {a}
   BY LoQueElimina
<1>2. procesos' = procesos
   <2>1. PidsDe(tablasDeSegmentos') = PidsDe(tablasDeSegmentos) BY <1>1, MismosPids
   <2> QED BY <2>1 DEF procesos, PidsDe
<1>3. /\ DOMAIN Contenido = Claves(Asignados(tablasDeSegmentos))
      /\ DOMAIN Contenido' = Claves(Asignados(tablasDeSegmentos'))
   BY ContenidoEs, ContenidoPrimado DEF ContenidoBien
<1>4. <<p, id>> \in DOMAIN Contenido BY <1>1, <1>3 DEF Claves
<1>5. <<p, id>> \notin DOMAIN Contenido'
   <2>1. \A b \in Asignados(tablasDeSegmentos') : <<b[1], b[2].id>> # <<p, id>>
      BY <1>1, DeMInv, UnaClave
   <2> QED BY <1>3, <2>1 DEF Claves
<1>6. PICK S : S = {<<p, id>>} OBVIOUS
<1>7. /\ Claves(Asignados(tablasDeSegmentos)) \ S = Claves(Asignados(tablasDeSegmentos')) \ S
      /\ Claves(Asignados(tablasDeSegmentos)) \ S \subseteq Claves(Asignados(tablasDeSegmentos'))
   <2>1. ASSUME NEW b \in Asignados(tablasDeSegmentos), <<b[1], b[2].id>> \notin S
         PROVE  b \in Asignados(tablasDeSegmentos')
      BY <1>1, <1>6, <2>1
   <2> QED BY <1>1, <2>1 DEF Claves
<1>8. Conservan(Asignados(tablasDeSegmentos'))
   <2>1. memoria' = Visibles(memoria, tablasDeSegmentos') BY DEF EliminarSegmento
   <2> QED BY <1>1, <2>1, VisiblesDe DEF Conservan
<1>9. /\ DOMAIN Contenido \ S = DOMAIN Contenido' \ S
      /\ \A k \in DOMAIN Contenido \ S : Contenido'[k] = Contenido[k]
   <2>1. Asignados(tablasDeSegmentos') \in SUBSET Asignados(tablasDeSegmentos) BY <1>1
   <2> QED BY <1>7, <1>8, <2>1, ConservaDe
<1> QED BY <1>2, <1>4, <1>5, <1>6, <1>9
        DEF Virtual!Elimina, Virtual!Segmentos, Virtual!Conserva, Contenido

\* eliminarProceso is Finaliza.
LEMMA FinalizaVirtual ==
    ASSUME MInv, MInv', NEW p \in Pids, EliminarProceso(p)
    PROVE  Virtual!Finaliza(p)
<1>1. /\ DeTablas(tablasDeSegmentos')
      /\ Asignados(tablasDeSegmentos') = {a \in Asignados(tablasDeSegmentos) : a[1] # p}
      /\ \A q : (\E u \in DOMAIN tablasDeSegmentos' : tablasDeSegmentos'[u].pid = q)
                  <=> (q # p /\ \E u \in DOMAIN tablasDeSegmentos : tablasDeSegmentos[u].pid = q)
   BY LoQueTermina
<1>2. procesos' = procesos \ {p} BY <1>1 DEF procesos
<1>3. /\ DOMAIN Contenido = Claves(Asignados(tablasDeSegmentos))
      /\ DOMAIN Contenido' = Claves(Asignados(tablasDeSegmentos'))
   BY ContenidoEs, ContenidoPrimado DEF ContenidoBien
<1>4. PICK S : S = {p} \X Ids OBVIOUS
<1>5. \A b \in Asignados(tablasDeSegmentos) : <<b[1], b[2].id>> \in S <=> b[1] = p
   <2>1. \A b \in Asignados(tablasDeSegmentos) : b[2].id \in Ids BY DeMInv, UnaClave
   <2> QED BY <1>4, <2>1
<1>6. DOMAIN Contenido' \cap S = {} BY <1>1, <1>3, <1>5 DEF Claves
<1>7. /\ Claves(Asignados(tablasDeSegmentos)) \ S = Claves(Asignados(tablasDeSegmentos')) \ S
      /\ Claves(Asignados(tablasDeSegmentos)) \ S \subseteq Claves(Asignados(tablasDeSegmentos'))
   <2>1. ASSUME NEW b \in Asignados(tablasDeSegmentos), <<b[1], b[2].id>> \notin S
         PROVE  b \in Asignados(tablasDeSegmentos')
      BY <1>1, <1>5, <2>1
   <2> QED BY <1>1, <2>1 DEF Claves
<1>8. Conservan(Asignados(tablasDeSegmentos'))
   <2>1. memoria' = Visibles(memoria, tablasDeSegmentos') BY DEF EliminarProceso
   <2> QED BY <1>1, <2>1, VisiblesDe DEF Conservan
<1>9. /\ DOMAIN Contenido \ S = DOMAIN Contenido' \ S
      /\ \A k \in DOMAIN Contenido \ S : Contenido'[k] = Contenido[k]
   <2>1. Asignados(tablasDeSegmentos') \in SUBSET Asignados(tablasDeSegmentos) BY <1>1
   <2> QED BY <1>7, <1>8, <2>1, ConservaDe
<1> QED BY <1>2, <1>4, <1>6, <1>9 DEF Virtual!Finaliza, Virtual!Segmentos, Virtual!Conserva, Contenido

\* A write over the bytes of a segment is Escribe: no other has a byte there.
LEMMA EscritaVirtual ==
    ASSUME MInv, MInv', NEW p \in Pids, NEW id \in Ids, UNCHANGED tablasDeSegmentos,
           NEW a \in Asignados(tablasDeSegmentos), p = a[1], id = a[2].id,
           \A b \in Asignados(tablasDeSegmentos) :
              Leido(memoria', b[2]) = Leido(Escrita(p, id, a[2].base, a[2].size), b[2])
    PROVE  Virtual!Escribe(p, id)
<1>1. PICK k : k = <<p, id>> OBVIOUS
<1>2. k = <<a[1], a[2].id>> BY <1>1
<1>3. PICK r : r = Rango(a[2].base, a[2].size) OBVIOUS
<1>4. PICK w : w = Escrita(p, id, a[2].base, a[2].size) OBVIOUS
<1>5. w = [c \in Celdas |-> IF c \in r THEN <<p, id, c - a[2].base + 1>> ELSE memoria[c]]
   BY <1>3, <1>4 DEF Escrita
<1>6. r \subseteq Celdas
   <2>1. r \subseteq espacios BY <1>3, DeMInv DEF Marcados
   <2> QED BY <2>1, DeMInv DEF Marcados
<1>7. /\ DOMAIN Contenido = Claves(Asignados(tablasDeSegmentos))
      /\ \A b \in Asignados(tablasDeSegmentos) :
            Contenido[<<b[1], b[2].id>>] = Leido(memoria, b[2])
      /\ DOMAIN Contenido' = Claves(Asignados(tablasDeSegmentos))
      /\ \A b \in Asignados(tablasDeSegmentos) :
            Contenido'[<<b[1], b[2].id>>] = Leido(w, b[2])
   <2>1. \A b \in Asignados(tablasDeSegmentos) : Leido(memoria', b[2]) = Leido(w, b[2])
      BY <1>4
   <2> QED BY <2>1, ContenidoEs, ContenidoPrimado DEF ContenidoBien
<1>8. Contenido'[k] = [i \in DOMAIN Contenido[k] |-> <<p, id, i>>]
   <2>1. PICK b, n : b = a[2].base /\ n = a[2].size OBVIOUS
   <2>2. b \in Int /\ n \in Int BY <2>1, MedidasDe
   <2>3. Contenido[k] = [i \in 1 .. n |-> memoria[b + i - 1]] BY <1>2, <1>7, <2>1 DEF Leido
   <2>4. Contenido'[k] = [i \in 1 .. n |-> w[b + i - 1]] BY <1>2, <1>7, <2>1 DEF Leido
   <2>5. \A i \in 1 .. n : w[b + i - 1] = <<p, id, i>>
      <3> SUFFICES ASSUME NEW i \in 1 .. n PROVE w[b + i - 1] = <<p, id, i>> OBVIOUS
      <3>1. PICK c : c = b + i - 1 OBVIOUS
      <3>2. c \in b .. b + n - 1 /\ c - b + 1 = i BY <2>2, <3>1
      <3>3. c \in r BY <1>3, <2>1, <3>2 DEF Rango
      <3>4. w[c] = <<p, id, c - b + 1>> BY <1>5, <1>6, <2>1, <3>3
      <3> QED BY <3>1, <3>2, <3>4
   <2>6. Contenido'[k] = [i \in 1 .. n |-> <<p, id, i>>] BY <2>4, <2>5
   <2>7. DOMAIN Contenido[k] = 1 .. n BY <2>3
   <2> QED BY <2>6, <2>7
<1>9. ASSUME NEW l \in DOMAIN Contenido, l # k PROVE Contenido'[l] = Contenido[l]
   <2>1. PICK d \in Asignados(tablasDeSegmentos) : l = <<d[1], d[2].id>> BY <1>7 DEF Claves
   <2>2. Aparte(d[2], a[2]) BY <1>2, <1>9, <2>1, DeMInv DEF Apartados
   <2>3. /\ a[2].base \in Int /\ a[2].size \in Int /\ d[2].base \in Int /\ d[2].size \in Int
      BY MedidasDe
   <2>4. Rango(d[2].base, d[2].size) \cap r = {}
      BY <1>3, <2>2, <2>3, SinBytesComunes DEF Aparte
   <2>5. Rango(d[2].base, d[2].size) \subseteq Celdas
      <3>1. Rango(d[2].base, d[2].size) \subseteq espacios BY DeMInv DEF Marcados
      <3> QED BY <3>1, DeMInv DEF Marcados
   <2>6. \A c \in Rango(d[2].base, d[2].size) : w[c] = memoria[c] BY <1>5, <2>4, <2>5
   <2>7. d[2] \in EntradaTabla BY Pares
   <2>8. Leido(w, d[2]) = Leido(memoria, d[2]) BY <2>6, <2>7, LeenIgual
   <2> QED BY <1>7, <2>1, <2>8
<1>10. k \in DOMAIN Contenido BY <1>2, <1>7 DEF Claves
<1>11. Contenido' = [Contenido EXCEPT ![k] = [i \in DOMAIN Contenido[k] |-> <<p, id, i>>]]
   <2>1. PICK C : C = Contenido OBVIOUS
   <2>2. PICK D : D = Contenido' OBVIOUS
   <2>3. C = [l \in DOMAIN C |-> C[l]] BY <2>1 DEF Contenido
   <2>4. D = [l \in DOMAIN D |-> D[l]] BY <2>2 DEF Contenido
   <2>5. PICK v : v = [i \in DOMAIN C[k] |-> <<p, id, i>>] OBVIOUS
   <2>6. D[k] = v BY <1>8, <2>1, <2>2, <2>5
   <2>7. DOMAIN D = DOMAIN C /\ \A l \in DOMAIN C : l # k => D[l] = C[l]
      BY <1>7, <1>9, <2>1, <2>2
   <2>8. D = [C EXCEPT ![k] = v] BY <2>3, <2>4, <2>6, <2>7
   <2> QED BY <2>1, <2>2, <2>5, <2>8
<1>12. procesos' = procesos BY DEF procesos
<1> QED BY <1>1, <1>10, <1>11, <1>12 DEF Virtual!Escribe, Virtual!Segmentos, Contenido

\* A step that changes neither the tables nor the memory changes nothing that
\* a process sees.
LEMMA QuietoVirtual ==
    ASSUME MInv, MInv', UNCHANGED <<tablasDeSegmentos, memoria>>
    PROVE  Contenido' = Contenido /\ procesos' = procesos
<1>1. Conservan(Asignados(tablasDeSegmentos)) BY DEF Conservan
<1>2. Contenido' = Contenido BY <1>1, TodoIgual
<1>3. procesos' = procesos BY DEF procesos
<1> QED BY <1>2, <1>3

\* escribirEnMemoria for the CPU is Escribe.
LEMMA EscribeVirtual ==
    ASSUME MInv, MInv', NEW p \in Pids, NEW id \in Ids, EscribirEnMemoria(p, id)
    PROVE  Virtual!Escribe(p, id)
<1>1. <<p, id>> \in Vivos /\ tablasDeSegmentos' = tablasDeSegmentos
   BY DEF EscribirEnMemoria, asignacion
<1>2. PICK a \in Asignados(tablasDeSegmentos) : p = a[1] /\ id = a[2].id
   BY <1>1, DeMInv DEF Claves
<1>3. Segmento(p, id) = a[2] BY <1>2, DeMInv, SegmentoDe
<1>4. memoria' = Escrita(p, id, a[2].base, a[2].size) BY <1>3 DEF EscribirEnMemoria
<1> QED BY <1>1, <1>2, <1>4, EscritaVirtual

\* The Filesystem's answer is Escribe, or changes nothing: while no compaction
\* moved the segment, the address it was given is that of its entry.
LEMMA TransferenciaVirtual ==
    ASSUME MInv, MInv', conforme, TerminaTransferencia
    PROVE  \/ \E p \in Pids, id \in Ids : Virtual!Escribe(p, id)
           \/ Contenido' = Contenido /\ procesos' = procesos
<1>1. /\ transferencia.enviada /\ UNCHANGED tablasDeSegmentos
      /\ \/ memoria' = Visibles(Escrita(transferencia.pid, transferencia.id,
                                        transferencia.dir, transferencia.size), tablasDeSegmentos)
         \/ UNCHANGED memoria
   BY DEF TerminaTransferencia, asignacion
<1>2. transferencia # SinTransferencia BY <1>1 DEF SinTransferencia
<1>3. CASE UNCHANGED memoria BY <1>1, <1>3, QuietoVirtual
<1>4. CASE memoria' = Visibles(Escrita(transferencia.pid, transferencia.id,
                                       transferencia.dir, transferencia.size), tablasDeSegmentos)
   <2>1. transferencia \in [pid : Pids, id : Ids, dir : Celdas, size : Tamanios, enviada : BOOLEAN]
      BY <1>2 DEF MInv, Tipos
   <2>2. PICK p \in Pids, id \in Ids : p = transferencia.pid /\ id = transferencia.id BY <2>1
   <2>3. PICK a \in Asignados(tablasDeSegmentos) :
            /\ p = a[1] /\ id = a[2].id
            /\ transferencia.dir = a[2].base /\ transferencia.size = a[2].size
      BY <1>2, <2>2 DEF MInv, EnCurso
   <2>4. memoria' = Visibles(Escrita(p, id, a[2].base, a[2].size), tablasDeSegmentos)
      BY <1>4, <2>2, <2>3
   <2>5. \A b \in Asignados(tablasDeSegmentos) :
            Leido(memoria', b[2]) = Leido(Escrita(p, id, a[2].base, a[2].size), b[2])
      BY <2>4, VisiblesDe DEF MInv
   <2>6. Virtual!Escribe(p, id) BY <1>1, <2>3, <2>5, EscritaVirtual
   <2> QED BY <2>6
<1> QED BY <1>1, <1>3, <1>4

\* The entry that moves is read where it went as it was read where it was.
LEMMA CopiaDe ==
    ASSUME MInv, NEW tablas, DeTablas(tablas), NEW e \in EntradaTabla,
           e.base + e.size <= TamMemoria, NEW nueva \in 0 .. e.base,
           NEW a \in Asignados(tablas), a[2] = EnBase(e, nueva)
    PROVE  Leido(Visibles(Copia(nueva, e.base, e.size), tablas), a[2]) = Leido(memoria, e)
<1>1. PICK b, n : b = e.base /\ n = e.size OBVIOUS
<1>2. b \in Nat /\ n \in Nat BY <1>1, MedidasNat
<1>3. a[2].base = nueva /\ a[2].size = n BY <1>1 DEF EnBase, EntradaTabla
<1>4. TamMemoria \in Nat BY TamaniosAssumption
<1>5. \A i \in 1 .. n : Copia(nueva, b, n)[nueva + i - 1] = memoria[b + i - 1]
   <2> SUFFICES ASSUME NEW i \in 1 .. n PROVE Copia(nueva, b, n)[nueva + i - 1] = memoria[b + i - 1]
      OBVIOUS
   <2>1. PICK c : c = nueva + i - 1 OBVIOUS
   <2>2. /\ c \in nueva .. nueva + n - 1 /\ c \in 0 .. TamMemoria - 1
         /\ c - nueva + b = b + i - 1
      BY <1>1, <1>2, <1>4, <2>1
   <2>3. Copia(nueva, b, n)[c] = memoria[c - nueva + b] BY <2>2 DEF Copia, Rango, Celdas
   <2> QED BY <2>1, <2>2, <2>3
<1>6. Leido(Copia(nueva, b, n), a[2]) = Leido(memoria, e)
   BY <1>1, <1>3, <1>5 DEF Leido
<1>7. Leido(Visibles(Copia(nueva, b, n), tablas), a[2]) = Leido(Copia(nueva, b, n), a[2])
   BY VisiblesDe
<1> QED BY <1>1, <1>6, <1>7

\* ... and the others where they were.
LEMMA CopiaAparte ==
    ASSUME MInv, NEW tablas, DeTablas(tablas), NEW e \in EntradaTabla, NEW nueva \in 0 .. e.base,
           NEW d \in Asignados(tablas), Aparte(d[2], EnBase(e, nueva))
    PROVE  Leido(Visibles(Copia(nueva, e.base, e.size), tablas), d[2]) = Leido(memoria, d[2])
<1>1. PICK b, n : b = e.base /\ n = e.size OBVIOUS
<1>2. b \in Nat /\ n \in Nat BY <1>1, MedidasNat
<1>3. PICK f : f = EnBase(e, nueva) OBVIOUS
<1>4. f.base = nueva /\ f.size = n BY <1>1, <1>3 DEF EnBase, EntradaTabla
<1>5. d[2] \in EntradaTabla BY Pares
<1>6. d[2].base \in Int /\ d[2].size \in Int BY <1>5, MedidasNat
<1>7. Rango(d[2].base, d[2].size) \cap Rango(nueva, n) = {}
   BY <1>2, <1>3, <1>4, <1>6, SinBytesComunes DEF Aparte
<1>8. Rango(d[2].base, d[2].size) \subseteq Celdas
   <2>1. Marcados(Asignados(tablas), ActualizarTSGlobal(tablas)) BY MarcaTodo DEF DeTablas
   <2> QED BY <2>1 DEF Marcados
<1>9. \A c \in Rango(d[2].base, d[2].size) : Copia(nueva, b, n)[c] = memoria[c]
   BY <1>7, <1>8 DEF Copia
<1>10. Leido(Copia(nueva, b, n), d[2]) = Leido(memoria, d[2]) BY <1>5, <1>9, LeenIgual
<1>11. Leido(Visibles(Copia(nueva, b, n), tablas), d[2]) = Leido(Copia(nueva, b, n), d[2])
   BY VisiblesDe
<1> QED BY <1>1, <1>10, <1>11

\* A move changes nothing that a process sees, unless the copy is noted as gone wrong.
LEMMA MueveVirtual ==
    ASSUME MInv, MInv', conforme', PocosAlMover, MueveSegmento
    PROVE  Contenido' = Contenido /\ procesos' = procesos
<1>x. PICK x \in Posiciones(tablasDeSegmentos) : \E e, nueva, a :
         /\ e = Entrada(tablasDeSegmentos, x) /\ e \in EntradaTabla
         /\ a = <<tablasDeSegmentos[x[1]].pid, e>> /\ a \in Asignados(tablasDeSegmentos)
         /\ nueva \in TamSegmento0 .. e.base
         /\ tablasDeSegmentos' = ConBase(tablasDeSegmentos, x, nueva)
         /\ \E sube \in BOOLEAN : /\ memoria' = Visibles(Movida(e, nueva, sube), tablasDeSegmentos')
                                 /\ conforme' = Conformes(x, e, nueva, sube)
         /\ DeTablas(tablasDeSegmentos')
         /\ Asignados(tablasDeSegmentos') = (Asignados(tablasDeSegmentos) \ {a})
                                               \cup {<<a[1], EnBase(e, nueva)>>}
         /\ \A b \in Asignados(tablasDeSegmentos) \ {a} : Aparte(b[2], EnBase(e, nueva))
         /\ Claves(Asignados(tablasDeSegmentos')) = Claves(Asignados(tablasDeSegmentos))
   BY LoQueMueve
<1>1. PICK e, nueva, a :
         /\ e = Entrada(tablasDeSegmentos, x) /\ e \in EntradaTabla
         /\ a = <<tablasDeSegmentos[x[1]].pid, e>> /\ a \in Asignados(tablasDeSegmentos)
         /\ nueva \in TamSegmento0 .. e.base
         /\ tablasDeSegmentos' = ConBase(tablasDeSegmentos, x, nueva)
         /\ \E sube \in BOOLEAN : /\ memoria' = Visibles(Movida(e, nueva, sube), tablasDeSegmentos')
                                 /\ conforme' = Conformes(x, e, nueva, sube)
         /\ DeTablas(tablasDeSegmentos')
         /\ Asignados(tablasDeSegmentos') = (Asignados(tablasDeSegmentos) \ {a})
                                               \cup {<<a[1], EnBase(e, nueva)>>}
         /\ \A b \in Asignados(tablasDeSegmentos) \ {a} : Aparte(b[2], EnBase(e, nueva))
         /\ Claves(Asignados(tablasDeSegmentos')) = Claves(Asignados(tablasDeSegmentos))
   BY <1>x
<1>2. /\ DOMAIN Contenido = Claves(Asignados(tablasDeSegmentos))
      /\ \A b \in Asignados(tablasDeSegmentos) :
            Contenido[<<b[1], b[2].id>>] = Leido(memoria, b[2])
      /\ DOMAIN Contenido' = Claves(Asignados(tablasDeSegmentos'))
      /\ \A b \in Asignados(tablasDeSegmentos') :
            Contenido'[<<b[1], b[2].id>>] = Leido(memoria', b[2])
   BY ContenidoEs, ContenidoPrimado DEF ContenidoBien
<1>3. a[2] = e /\ e.base + e.size <= TamMemoria
   <2>1. a[2] = e BY <1>1
   <2> QED BY <1>1, <2>1, MedidasDe
<1>4. nueva \in 0 .. e.base
   <2>1. TamSegmento0 \in Nat BY TamaniosAssumption
   <2>2. e.base \in Nat BY <1>1, MedidasNat
   <2> QED BY <1>1, <2>1, <2>2
<1>8. memoria' = Visibles(Copia(nueva, e.base, e.size), tablasDeSegmentos')
   <2>1. PICK sube \in BOOLEAN : /\ memoria' = Visibles(Movida(e, nueva, sube), tablasDeSegmentos')
                                 /\ conforme' = Conformes(x, e, nueva, sube)
      BY <1>1
   <2>2. PICK b, n : b = e.base /\ n = e.size OBVIOUS
   <2>3. b \in Nat /\ n \in Nat BY <1>1, <2>2, MedidasNat
   <2>4. sube \/ nueva + n <= b \/ nueva = b BY <2>1, <2>2 DEF Conformes
   <2>5. nueva \in Nat BY <1>4, <2>2, <2>3
   <2>6. Movida(e, nueva, sube) = Copia(nueva, b, n)
      BY <2>2, <2>3, <2>4, <2>5, CopiaSinSolape, CopiaSinMover DEF Movida
   <2> QED BY <2>1, <2>2, <2>6
<1>5. ASSUME NEW l \in DOMAIN Contenido PROVE Contenido'[l] = Contenido[l]
   <2>1. PICK d \in Asignados(tablasDeSegmentos) : l = <<d[1], d[2].id>> BY <1>2 DEF Claves
   <2>2. CASE d = a
      <3>1. PICK g : g = <<a[1], EnBase(e, nueva)>> OBVIOUS
      <3>2. g \in Asignados(tablasDeSegmentos') /\ g[1] = a[1] /\ g[2] = EnBase(e, nueva)
         BY <1>1, <3>1
      <3>3. g[2].id = e.id BY <1>1, <3>2 DEF EnBase, EntradaTabla
      <3>4. Leido(memoria', g[2]) = Leido(memoria, e) BY <1>1, <1>3, <1>4, <1>8, <3>2, CopiaDe
      <3>5. Contenido'[l] = Leido(memoria', g[2]) BY <1>2, <1>3, <2>1, <2>2, <3>2, <3>3
      <3> QED BY <1>2, <1>3, <2>1, <2>2, <3>4, <3>5
   <2>3. CASE d # a
      <3>1. d \in Asignados(tablasDeSegmentos') /\ Aparte(d[2], EnBase(e, nueva))
         BY <1>1, <2>3
      <3>2. Leido(memoria', d[2]) = Leido(memoria, d[2]) BY <1>1, <1>4, <1>8, <3>1, CopiaAparte
      <3> QED BY <1>2, <2>1, <3>1, <3>2
   <2> QED BY <2>2, <2>3
<1>6. Contenido' = Contenido BY <1>1, <1>2, <1>5, ContenidoIgual
<1>7. procesos' = procesos
   <2>1. BuenasTablas(tablasDeSegmentos) BY DeMInv
   <2> QED BY <1>1, <2>1, MismosPidsAlMover, MismosProcesos
<1> QED BY <1>6, <1>7

\* A step by which nothing goes wrong is a step of MemoriaVirtual.
LEMMA PasoConforme ==
    MInv /\ MInv' /\ PocosAlMover /\ [Next]_vars /\ conforme /\ conforme'
        => [Virtual!Next]_(Virtual!vars)
<1> SUFFICES ASSUME MInv, MInv', PocosAlMover, [Next]_vars, conforme, conforme'
             PROVE  [Virtual!Next]_(Virtual!vars)
   OBVIOUS
<1>0. Contenido' = Contenido /\ procesos' = procesos => UNCHANGED Virtual!vars
   BY DEF Virtual!vars, Contenido
<1>1. CASE UNCHANGED vars BY <1>0, <1>1, QuietoVirtual DEF vars, asignacion
<1>2. ASSUME NEW p \in Pids, NewTablaSegmentos(p) PROVE Virtual!Next
   BY <1>2, IniciaVirtual DEF Virtual!Next
<1>3. ASSUME NEW p \in Pids, EliminarProceso(p) PROVE Virtual!Next
   BY <1>3, FinalizaVirtual DEF Virtual!Next
<1>4. ASSUME NEW p \in Pids, NEW id \in Ids, EliminarSegmento(p, id) PROVE Virtual!Next
   BY <1>4, EliminaVirtual DEF Virtual!Next
<1>5. ASSUME NEW p \in Pids, NEW id \in Ids, EscribirEnMemoria(p, id) PROVE Virtual!Next
   BY <1>5, EscribeVirtual DEF Virtual!Next
<1>6. ASSUME NEW p \in Pids, NEW id \in Ids, NEW size \in Tamanios, CreaSegmento(p, id, size)
      PROVE  Virtual!Next
   BY <1>6, CreaVirtual DEF Virtual!Next
<1>7. ASSUME NEW p \in Pids, NEW id \in Ids, NEW size \in Tamanios, NoCreaSegmento(p, id, size)
      PROVE  UNCHANGED Virtual!vars
   BY <1>0, <1>7, QuietoVirtual DEF NoCreaSegmento, asignacion
<1>8. CASE EmpiezaCompactacion \/ TerminaCompactacion
   BY <1>0, <1>8, QuietoVirtual DEF EmpiezaCompactacion, TerminaCompactacion, asignacion
<1>9. CASE MueveSegmento BY <1>0, <1>9, MueveVirtual
<1>10. ASSUME NEW p \in Pids, Termina(p) PROVE UNCHANGED Virtual!vars
   BY <1>0, <1>10, QuietoVirtual DEF Termina, asignacion
<1>11. ASSUME NEW p \in Pids, NEW id \in Ids, PideTransferencia(p, id)
       PROVE  UNCHANGED Virtual!vars
   BY <1>0, <1>11, QuietoVirtual DEF PideTransferencia, asignacion
<1>12. CASE EnviaTransferencia
   BY <1>0, <1>12, QuietoVirtual DEF EnviaTransferencia, asignacion
<1>13. CASE TerminaTransferencia
   BY <1>0, <1>13, TransferenciaVirtual DEF Virtual!Next
<1> QED BY <1>1, <1>2, <1>3, <1>4, <1>5, <1>6, <1>7, <1>8, <1>9, <1>10, <1>11, <1>12, <1>13
        DEF Next, CrearSegmento, CompactarEspacios

\* What went wrong is not made good.
LEMMA ConformeCae == [Next]_vars /\ conforme' => conforme
<1>1. MueveSegmento /\ conforme' => conforme BY DEF MueveSegmento
<1> QED BY <1>1 DEF Next, vars, NewTablaSegmentos, Termina, EliminarProceso, EliminarSegmento,
           EscribirEnMemoria, PideTransferencia, CrearSegmento, CreaSegmento, NoCreaSegmento,
           EnviaTransferencia, TerminaTransferencia, CompactarEspacios, EmpiezaCompactacion,
           TerminaCompactacion

\* Every step of Memoria is a step of MemoriaVirtual or changes nothing there.
LEMMA PasoVirtual == MInv /\ MInv' /\ PocosAlMover /\ [Next]_vars => [Virtual!Next]_(Virtual!vars)
<1>1. ~conforme' => Virtual!Next BY DEF Virtual!Next
<1> QED BY <1>1, PasoConforme, ConformeCae

\* The initial states are initial states of MemoriaVirtual.
LEMMA InicioVirtual == Init => Virtual!Init
<1> SUFFICES ASSUME Init PROVE Virtual!Init OBVIOUS
<1>1. tablasDeSegmentos = <<>> BY DEF Init
<1>2. procesos = {} BY <1>1 DEF procesos
<1>3. Vivos = {}
   <2>1. ToSet(<<>>) = {} BY DEF ToSet
   <2> QED BY <1>1, <2>1 DEF Vivos
<1>4. Contenido = [k \in {} |-> <<>>] BY <1>3 DEF Contenido
<1>5. conforme = TRUE BY DEF Init
<1> QED BY <1>2, <1>4, <1>5 DEF Virtual!Init, Contenido

\* A process reads back from a segment what was last written there, by it or by the
\* Filesystem for it, whatever is created, deleted or moved around it, while memcpy
\* goes upwards and no compaction moves the segment of a transfer (conforme).
THEOREM ImplementaSegmentos == Spec /\ []PocosAlMover => ImplementaVirtual
<1>1. Init => Virtual!Init BY InicioVirtual
<1>2. MInv /\ MInv' /\ PocosAlMover /\ [Next]_vars => [Virtual!Next]_(Virtual!vars) BY PasoVirtual
<1> QED BY <1>1, <1>2, Mantiene, PTL DEF Spec, ImplementaVirtual, Virtual!Spec

\* With three segments at most, none of this depends on what compactions find:
\* the segment asked for is not there yet, so that two move.
THEOREM ConTresSegmentos ==
    ASSUME MaxSegmentos <= 3
    PROVE  Spec => [](TypeOK /\ SinSolapes /\ HuecosLibres) /\ ImplementaVirtual
<1>1. Init => MInv BY Inicio
<1>2. MInv => PocosAlMover BY TresSegmentos
<1>3. MInv /\ PocosAlMover /\ [Next]_vars => MInv' BY PasoGuarda
<1>4. MInv => TypeOK /\ SinSolapes /\ HuecosLibres BY TiposDeMInv, SolapesDeMInv, HuecosDeMInv
<1>5. Spec => []PocosAlMover BY <1>1, <1>2, <1>3, PTL DEF Spec
<1> QED BY <1>1, <1>2, <1>3, <1>4, <1>5, ImplementaSegmentos, PTL DEF Spec
=============================================================================
