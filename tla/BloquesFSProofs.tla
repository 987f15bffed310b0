--------------------------- MODULE BloquesFSProofs ---------------------------
(***************************************************************************)
(* What the operators of BloquesFS do to the record they work on, for      *)
(* every number of blocks and size of block: all of them keep its shape,   *)
(* whatever they are asked; a growth from empty gives free blocks, all     *)
(* different, and marks them; and a write that starts in the first block   *)
(* leaves its words in the blocks of the file, in order, and no other.     *)
(***************************************************************************)
EXTENDS BloquesFS, TLAPS, WellFoundedInduction, SequenceTheorems, FiniteSetTheorems

-----------------------------------------------------------------------------
(* Positions: block b, word o of it, is word b * Palabras + o. *)

\* A product grows with its factors.
LEMMA Producto == \A a, b, c \in Int : a <= b /\ c >= 0 => a * c <= b * c /\ c * a <= c * b
<1> SUFFICES ASSUME NEW a \in Int, NEW b \in Int, NEW c \in Int, a <= b, c >= 0
             PROVE  a * c <= b * c /\ c * a <= c * b
   OBVIOUS
<1>1. (b - a) * c >= 0 OBVIOUS
<1>2. (b - a) * c = b * c - a * c /\ a * c = c * a /\ b * c = c * b OBVIOUS
<1> QED BY <1>1, <1>2

\* The sizes of the device are positive.
LEMMA Medidas == Palabras \in Nat /\ Palabras > 0 /\ CantBloques \in Nat /\ CantBloques > 0
BY BloquesAssumption

\* Every word of a block that exists is a word of the file of blocks.
LEMMA EnPosiciones ==
    ASSUME NEW b \in NumerosDeBloque, NEW o \in 0 .. Palabras - 1
    PROVE  b * Palabras + o \in Posiciones /\ b * Palabras \in Nat
<1>1. b \in Int /\ 0 <= b /\ b <= CantBloques - 1 /\ o \in Int /\ 0 <= o /\ o <= Palabras - 1
   BY Medidas DEF NumerosDeBloque
<1>2. PICK q, r : q = b * Palabras /\ r = CantBloques * Palabras OBVIOUS
<1>3. q \in Int /\ r \in Int /\ 0 <= q
   <2>1. 0 * Palabras <= b * Palabras BY <1>1, Medidas, Producto
   <2> QED BY <1>1, <1>2, <2>1, Medidas
<1>4. q <= r - Palabras
   <2>1. b * Palabras <= (CantBloques - 1) * Palabras BY <1>1, Medidas, Producto
   <2>2. (CantBloques - 1) * Palabras = CantBloques * Palabras - Palabras BY Medidas
   <2> QED BY <1>2, <2>1, <2>2
<1>5. q + o \in 0 .. r - 1 BY <1>1, <1>3, <1>4, Medidas
<1> QED BY <1>2, <1>3, <1>5 DEF Posiciones

\* A position is of one block and one of its words.
LEMMA PosicionUnica ==
    ASSUME NEW b \in Int, NEW c \in Int, NEW o \in 0 .. Palabras - 1, NEW r \in 0 .. Palabras - 1,
           b * Palabras + o = c * Palabras + r
    PROVE  b = c /\ o = r
<1>1. ASSUME NEW x \in Int, NEW y \in Int, NEW u \in 0 .. Palabras - 1, NEW v \in 0 .. Palabras - 1,
             x < y
      PROVE  x * Palabras + u < y * Palabras + v
   <2>1. (x + 1) * Palabras <= y * Palabras BY <1>1, Medidas, Producto
   <2>2. (x + 1) * Palabras = x * Palabras + Palabras BY Medidas
   <2>3. x * Palabras \in Int /\ y * Palabras \in Int BY Medidas
   <2> QED BY <2>1, <2>2, <2>3, Medidas
<1>2. b * Palabras + o \in Int /\ c * Palabras + r \in Int BY Medidas
<1>3. ~(b < c) BY <1>1, <1>2
<1>4. ~(c < b) BY <1>1, <1>2
<1>5. b = c BY <1>3, <1>4
<1>6. b * Palabras \in Int BY Medidas
<1> QED BY <1>5, <1>6, Medidas

\* Division by the size of a block.
LEMMA Dividir ==
    ASSUME NEW n \in Int
    PROVE  /\ n \div Palabras \in Int /\ n % Palabras \in 0 .. Palabras - 1
           /\ n = (n \div Palabras) * Palabras + (n % Palabras)
<1>1. \E q \in Int : \E r \in 0 .. Palabras - 1 :
         q = n \div Palabras /\ r = n % Palabras /\ n = q * Palabras + r
   BY Medidas
<1> QED BY <1>1, Zenon

\* The quotient, by what it is between.
LEMMA Cociente ==
    ASSUME NEW n \in Int, NEW q \in Int, NEW r \in 0 .. Palabras - 1, n = q * Palabras + r
    PROVE  n \div Palabras = q /\ n % Palabras = r
<1>1. PICK a, u : a = n \div Palabras /\ u = n % Palabras OBVIOUS
<1>2. a \in Int /\ u \in 0 .. Palabras - 1 /\ n = a * Palabras + u BY <1>1, Dividir, Zenon
<1>3. a = q /\ u = r BY <1>2, PosicionUnica
<1> QED BY <1>1, <1>3

\* The quotient grows with the dividend.
LEMMA DivMonotona ==
    ASSUME NEW n \in Int, NEW t \in Int, n <= t
    PROVE  n \div Palabras <= t \div Palabras
<1>1. PICK a, b, u, v : a = n \div Palabras /\ u = n % Palabras
                        /\ b = t \div Palabras /\ v = t % Palabras
   OBVIOUS
<1>2. /\ a \in Int /\ b \in Int /\ u \in 0 .. Palabras - 1 /\ v \in 0 .. Palabras - 1
      /\ n = a * Palabras + u /\ t = b * Palabras + v
   BY <1>1, Dividir, Zenon
<1>3. ASSUME b < a PROVE FALSE
   <2>1. (b + 1) * Palabras <= a * Palabras BY <1>2, <1>3, Medidas, Producto
   <2>2. (b + 1) * Palabras = b * Palabras + Palabras BY <1>2, Medidas
   <2>3. a * Palabras \in Int /\ b * Palabras \in Int BY <1>2, Medidas
   <2> QED BY <1>2, <2>1, <2>2, <2>3, Medidas
<1> QED BY <1>1, <1>2, <1>3

\* the size of a file with room in the block of pointers
LEMMA CabeEnLaLista ==
    ASSUME NEW t \in Int, t < tam_max_archivo, t > Palabras
    PROVE  t \div Palabras \in 1 .. Palabras
<1>1. PICK a, u : a = t \div Palabras /\ u = t % Palabras OBVIOUS
<1>2. a \in Int /\ u \in 0 .. Palabras - 1 /\ t = a * Palabras + u
   BY <1>1, Dividir, Zenon
<1>3. a * Palabras \in Int BY <1>2, Medidas
<1>4. a >= 1
   <2> SUFFICES ASSUME a <= 0 PROVE FALSE BY <1>2
   <2>1. a * Palabras <= 0 * Palabras BY <1>2, Medidas, Producto
   <2>2. 0 * Palabras = 0 BY Medidas
   <2> QED BY <1>2, <1>3, <2>1, <2>2, Medidas
<1>5. a <= Palabras
   <2> SUFFICES ASSUME Palabras + 1 <= a PROVE FALSE BY <1>2, Medidas
   <2>1. (Palabras + 1) * Palabras <= a * Palabras BY <1>2, Medidas, Producto
   <2>2. (Palabras + 1) * Palabras = tam_max_archivo /\ tam_max_archivo \in Int
      BY Medidas DEF tam_max_archivo
   <2> QED BY <1>2, <1>3, <2>1, <2>2, Medidas
<1> QED BY <1>1, <1>2, <1>4, <1>5, Medidas

-----------------------------------------------------------------------------
(* What each operator of BloquesFS does to the record it works on. *)

NumeroOMenosUno == -1 .. CantBloques - 1
CamposDisp == {"bitmap", "libres", "bloques", "cursor", "perdible"}
CamposFCB == {"tam", "directo", "indirecto"}

\* the part of the device, wherever it is
DispBien(d) ==
    /\ d.bitmap \in [NumerosDeBloque -> BOOLEAN]
    /\ d.libres \in Int /\ d.cursor \in Nat
    /\ DOMAIN d.bloques = Posiciones /\ \A p \in Posiciones : d.bloques[p] \in Int
    /\ d.perdible # <<>> => d.perdible[2] \in Int

EsModelo(m) ==
    /\ DOMAIN m = CamposDisp \cup CamposFCB
    /\ DispBien(m)
    /\ m.tam \in Int /\ m.directo \in NumeroOMenosUno /\ m.indirecto \in NumeroOMenosUno

Ocupados(m) == {b \in NumerosDeBloque : m.bitmap[b]}

\* bitmap and counter say the same
Cuadra(m) == m.libres = CantBloques - Cardinality(Ocupados(m))

MismoFCB(x, m) == x.tam = m.tam /\ x.directo = m.directo /\ x.indirecto = m.indirecto
MismoBitmap(x, m) == x.bitmap = m.bitmap /\ x.libres = m.libres

\* ocuparBloque marks one block, if it exists, and counts it.
LEMMA AlOcupar ==
    ASSUME NEW m, EsModelo(m), NEW b, NEW x, x = ocuparBloque(m, b)
    PROVE  /\ EsModelo(x) /\ MismoFCB(x, m) /\ x.libres = m.libres - 1
           /\ x.bloques = m.bloques /\ x.cursor = m.cursor /\ x.perdible = m.perdible
           /\ Ocupados(x) = Ocupados(m) \cup ({b} \cap NumerosDeBloque)
<1>1. PICK bits : bits = [y \in NumerosDeBloque |-> m.bitmap[y] \/ y = b] OBVIOUS
<1>2. x = [m EXCEPT !.bitmap = bits, !.libres = m.libres - 1] BY <1>1 DEF ocuparBloque
<1>3. bits \in [NumerosDeBloque -> BOOLEAN] BY <1>1
<1>4. /\ DOMAIN x = CamposDisp \cup CamposFCB /\ x.bitmap = bits /\ x.libres = m.libres - 1
      /\ MismoFCB(x, m) /\ x.bloques = m.bloques /\ x.cursor = m.cursor /\ x.perdible = m.perdible
   BY <1>2 DEF EsModelo, CamposDisp, CamposFCB, MismoFCB
<1>5. Ocupados(x) = Ocupados(m) \cup ({b} \cap NumerosDeBloque) BY <1>1, <1>4 DEF Ocupados
<1>6. EsModelo(x) BY <1>3, <1>4 DEF EsModelo, DispBien, MismoFCB
<1> QED BY <1>4, <1>5, <1>6

\* desocuparBloque touches the bitmap and the counter only.
LEMMA AlDesocupar ==
    ASSUME NEW m, EsModelo(m), NEW x,
           (\E b : x = desocuparBloque(m, b)) \/ (\E s : Len(s) \in Int /\ x = desocuparBloques(m, s))
    PROVE  EsModelo(x) /\ MismoFCB(x, m)
<1>1. ASSUME NEW bits \in [NumerosDeBloque -> BOOLEAN], NEW l \in Int,
             x = [m EXCEPT !.bitmap = bits, !.libres = l]
      PROVE  EsModelo(x) /\ MismoFCB(x, m)
   <2>1. /\ DOMAIN x = CamposDisp \cup CamposFCB /\ x.bitmap = bits /\ x.libres = l
         /\ MismoFCB(x, m) /\ x.bloques = m.bloques /\ x.cursor = m.cursor /\ x.perdible = m.perdible
      BY <1>1 DEF EsModelo, CamposDisp, CamposFCB, MismoFCB
   <2> QED BY <2>1 DEF EsModelo, DispBien, MismoFCB
<1>2. ASSUME NEW b, x = desocuparBloque(m, b) PROVE EsModelo(x) /\ MismoFCB(x, m)
   <2>1. PICK bits : bits = [y \in NumerosDeBloque |-> m.bitmap[y] /\ y # b] OBVIOUS
   <2>2. bits \in [NumerosDeBloque -> BOOLEAN] /\ m.libres + 1 \in Int
      BY <2>1 DEF EsModelo, DispBien
   <2>3. x = [m EXCEPT !.bitmap = bits, !.libres = m.libres + 1] BY <1>2, <2>1 DEF desocuparBloque
   <2> QED BY <1>1, <2>2, <2>3
<1>3. ASSUME NEW s, Len(s) \in Int, x = desocuparBloques(m, s) PROVE EsModelo(x) /\ MismoFCB(x, m)
   <2>1. PICK bits : bits = [y \in NumerosDeBloque |-> m.bitmap[y] /\ y \notin ToSet(s)] OBVIOUS
   <2>2. bits \in [NumerosDeBloque -> BOOLEAN] /\ m.libres + Len(s) \in Int
      BY <1>3, <2>1 DEF EsModelo, DispBien
   <2>3. x = [m EXCEPT !.bitmap = bits, !.libres = m.libres + Len(s)]
      BY <1>3, <2>1 DEF desocuparBloques
   <2> QED BY <1>1, <2>2, <2>3
<1> QED BY <1>2, <1>3

\* Of a set of integers, the least, if it has naturals only.
LEMMA ElMenor == \A T \in SUBSET Nat : T # {} => Min(T) \in T /\ \A k \in T : Min(T) <= k
<1> SUFFICES ASSUME NEW T \in SUBSET Nat, T # {}
             PROVE  Min(T) \in T /\ \A k \in T : Min(T) <= k
   OBVIOUS
<1>1. PICK m \in T : \A k \in T : ~(<<k, m>> \in OpToRel(<, Nat))
   BY NatLessThanWellFounded, WFMin
<1>2. \A k \in T : ~(k < m) BY <1>1 DEF OpToRel
<1>3. \E x \in T : \A y \in T : x <= y BY <1>2
<1> QED BY <1>3 DEF Min

\* buscarBloqueLibre finds a free block while there is one.
LEMMA LibreHallado ==
    ASSUME NEW m
    PROVE  /\ buscarBloqueLibre(m) \in NumeroOMenosUno
           /\ Ocupados(m) # NumerosDeBloque =>
                 buscarBloqueLibre(m) \in NumerosDeBloque \ Ocupados(m)
<1>1. PICK T : T = {b \in NumerosDeBloque : ~m.bitmap[b]} OBVIOUS
<1>2. NumerosDeBloque \in SUBSET Nat /\ NumerosDeBloque \subseteq NumeroOMenosUno
      /\ -1 \in NumeroOMenosUno
   BY Medidas DEF NumerosDeBloque, NumeroOMenosUno
<1>3. T = {} => buscarBloqueLibre(m) = -1 /\ Ocupados(m) = NumerosDeBloque
   BY <1>1 DEF buscarBloqueLibre, Ocupados
<1>4. T # {} => buscarBloqueLibre(m) = Min(T) BY <1>1 DEF buscarBloqueLibre
<1>5. T \in SUBSET Nat BY <1>1, <1>2
<1>6. T # {} => Min(T) \in T BY <1>5, ElMenor
<1> QED BY <1>1, <1>2, <1>3, <1>4, <1>6 DEF Ocupados

\* There are as many numbers of block as blocks.
LEMMA CuantosNumeros == IsFiniteSet(NumerosDeBloque) /\ Cardinality(NumerosDeBloque) = CantBloques
BY Medidas, FS_Interval DEF NumerosDeBloque

\* With a free block to count, taking it keeps bitmap and counter in step.
LEMMA AlOcuparLibre ==
    ASSUME NEW m, EsModelo(m), Cuadra(m), m.libres > 0,
           NEW b, b = buscarBloqueLibre(m), NEW x, x = ocuparBloque(m, b)
    PROVE  /\ b \in NumerosDeBloque \ Ocupados(m)
           /\ Ocupados(x) = Ocupados(m) \cup {b} /\ Cuadra(x) /\ x.libres = m.libres - 1
<1>1. IsFiniteSet(Ocupados(m))
   BY CuantosNumeros, FS_Subset DEF Ocupados
<1>2. Ocupados(m) # NumerosDeBloque BY CuantosNumeros, Medidas DEF Cuadra, EsModelo, DispBien
<1>3. b \in NumerosDeBloque \ Ocupados(m) BY <1>2, LibreHallado
<1>4. x.libres = m.libres - 1 /\ Ocupados(x) = Ocupados(m) \cup ({b} \cap NumerosDeBloque)
   BY AlOcupar
<1>5. Ocupados(x) = Ocupados(m) \cup {b} BY <1>3, <1>4
<1>6. Cardinality(Ocupados(x)) = Cardinality(Ocupados(m)) + 1
   BY <1>1, <1>3, <1>5, FS_AddElement
<1>7. Cardinality(Ocupados(m)) \in Nat BY <1>1, FS_CardinalityType
<1> QED BY <1>3, <1>4, <1>5, <1>6, <1>7, Medidas DEF Cuadra

-----------------------------------------------------------------------------
(* The stream. *)

EsTexto(s) == Len(s) \in Nat /\ \A i \in 1 .. Len(s) : s[i] \in Int

\* n words of s from position pos on, and what was there in the rest
Puesto(viejo, nuevo, s, pos) ==
    \A p \in Posiciones :
        nuevo[p] = IF p \in pos .. pos + Len(s) - 1 THEN s[p - pos + 1] ELSE viejo[p]

\* fseek moves the stream and empties its buffer.
LEMMA AlMoverse ==
    ASSUME NEW m, EsModelo(m), NEW pos \in Int, NEW x, x = fseek(m, pos)
    PROVE  /\ EsModelo(x) /\ MismoFCB(x, m) /\ MismoBitmap(x, m) /\ x.bloques = m.bloques
           /\ x.cursor = (IF pos >= 0 THEN pos ELSE m.cursor) /\ x.perdible = <<>>
<1>1. PICK c : c = IF pos >= 0 THEN pos ELSE m.cursor OBVIOUS
<1>2. c \in Nat BY <1>1 DEF EsModelo, DispBien
<1>3. x = [m EXCEPT !.cursor = c, !.perdible = <<>>] BY <1>1 DEF fseek
<1>4. /\ DOMAIN x = CamposDisp \cup CamposFCB /\ x.cursor = c /\ x.perdible = <<>>
      /\ MismoFCB(x, m) /\ MismoBitmap(x, m) /\ x.bloques = m.bloques
   BY <1>3 DEF EsModelo, CamposDisp, CamposFCB, MismoFCB, MismoBitmap
<1> QED BY <1>1, <1>2, <1>4 DEF EsModelo, DispBien, MismoFCB, MismoBitmap

\* fwrite puts the words where the stream is.
LEMMA AlEscribir ==
    ASSUME NEW m, EsModelo(m), NEW s, EsTexto(s), NEW x, x = fwrite(m, s)
    PROVE  /\ EsModelo(x) /\ MismoFCB(x, m) /\ MismoBitmap(x, m)
           /\ x.cursor = m.cursor + Len(s) /\ x.perdible = m.perdible
           /\ Puesto(m.bloques, x.bloques, s, m.cursor)
<1>1. PICK c, fin : c = m.cursor /\ fin = c + Len(s) OBVIOUS
<1>2. c \in Nat /\ fin \in Nat BY <1>1 DEF EsModelo, DispBien, EsTexto
<1>3. PICK bl : bl = [p \in Posiciones |-> IF p \in c .. fin - 1
                                           THEN s[p - c + 1] ELSE m.bloques[p]]
   OBVIOUS
<1>4. x = [m EXCEPT !.bloques = bl, !.cursor = fin] BY <1>1, <1>3 DEF fwrite
<1>5. /\ DOMAIN x = CamposDisp \cup CamposFCB /\ x.bloques = bl /\ x.cursor = fin
      /\ MismoFCB(x, m) /\ MismoBitmap(x, m) /\ x.perdible = m.perdible
   BY <1>4 DEF EsModelo, CamposDisp, CamposFCB, MismoFCB, MismoBitmap
<1>6. \A p \in Posiciones : bl[p] \in Int
   <2> SUFFICES ASSUME NEW p \in Posiciones PROVE bl[p] \in Int OBVIOUS
   <2>1. p \in Int BY DEF Posiciones
   <2>2. p \in c .. fin - 1 => p - c + 1 \in 1 .. Len(s) BY <1>1, <1>2, <2>1 DEF EsTexto
   <2>3. m.bloques[p] \in Int BY DEF EsModelo, DispBien
   <2> QED BY <1>3, <2>2, <2>3 DEF EsTexto
<1>7. DOMAIN bl = Posiciones BY <1>3
<1>8. EsModelo(x) BY <1>2, <1>5, <1>6, <1>7 DEF EsModelo, DispBien, MismoFCB, MismoBitmap
<1>9. Puesto(m.bloques, bl, s, c)
   <2>0. Len(s) \in Int BY DEF EsTexto
   <2>1. c + Len(s) - 1 = fin - 1 BY <2>0, <1>1, <1>2
   <2> QED BY <2>1, <1>3 DEF Puesto
<1> QED BY <1>1, <1>5, <1>8, <1>9

\* escribirEnBloqueDeDatos puts the words at the position it is given.
LEMMA AlEscribirDatos ==
    ASSUME NEW m, EsModelo(m), NEW s, EsTexto(s), NEW pos \in Int,
           NEW x, x = escribirEnBloqueDeDatos(m, s, pos)
    PROVE  /\ EsModelo(x) /\ MismoFCB(x, m) /\ MismoBitmap(x, m)
           /\ pos >= 0 => Puesto(m.bloques, x.bloques, s, pos)
<1>1. PICK y : y = fseek(m, pos) OBVIOUS
<1>2. PICK z : z = fwrite(y, s) OBVIOUS
<1>3. x = [z EXCEPT !.cursor = z.cursor + Len(s)] BY <1>1, <1>2 DEF escribirEnBloqueDeDatos
<1>4. /\ EsModelo(y) /\ MismoFCB(y, m) /\ MismoBitmap(y, m) /\ y.bloques = m.bloques
      /\ y.cursor = IF pos >= 0 THEN pos ELSE m.cursor
   BY <1>1, AlMoverse
<1>5. /\ EsModelo(z) /\ MismoFCB(z, y) /\ MismoBitmap(z, y)
      /\ Puesto(y.bloques, z.bloques, s, y.cursor)
   BY <1>2, <1>4, AlEscribir
<1>6. z.cursor + Len(s) \in Nat BY <1>5 DEF EsModelo, DispBien, EsTexto
<1>7. /\ DOMAIN x = CamposDisp \cup CamposFCB /\ x.cursor = z.cursor + Len(s)
      /\ MismoFCB(x, z) /\ MismoBitmap(x, z) /\ x.perdible = z.perdible /\ x.bloques = z.bloques
   BY <1>3, <1>5 DEF EsModelo, CamposDisp, CamposFCB, MismoFCB, MismoBitmap
<1>8. EsModelo(x) BY <1>5, <1>6, <1>7 DEF EsModelo, DispBien, MismoFCB, MismoBitmap
<1>9. MismoFCB(x, m) /\ MismoBitmap(x, m) BY <1>4, <1>5, <1>7 DEF MismoFCB, MismoBitmap
<1> QED BY <1>4, <1>5, <1>7, <1>8, <1>9

\* A read moves the stream and no more.
LEMMA AlLeerUnBloque ==
    ASSUME NEW m, EsModelo(m), NEW pos \in Int, NEW x, x = trasLeerUnBloque(m, pos)
    PROVE  /\ EsModelo(x) /\ MismoFCB(x, m) /\ MismoBitmap(x, m) /\ x.bloques = m.bloques
<1>1. PICK y : y = fseek(m, pos) OBVIOUS
<1>2. x = [y EXCEPT !.cursor = y.cursor + Palabras] BY <1>1 DEF trasLeerUnBloque
<1>3. /\ EsModelo(y) /\ MismoFCB(y, m) /\ MismoBitmap(y, m) /\ y.bloques = m.bloques
   BY <1>1, AlMoverse
<1>4. y.cursor + Palabras \in Nat BY <1>3, Medidas DEF EsModelo, DispBien
<1>5. /\ DOMAIN x = CamposDisp \cup CamposFCB /\ x.cursor = y.cursor + Palabras
      /\ MismoFCB(x, y) /\ MismoBitmap(x, y) /\ x.perdible = y.perdible /\ x.bloques = y.bloques
   BY <1>2, <1>3 DEF EsModelo, CamposDisp, CamposFCB, MismoFCB, MismoBitmap
<1>6. EsModelo(x) BY <1>3, <1>4, <1>5 DEF EsModelo, DispBien, MismoFCB, MismoBitmap
<1> QED BY <1>3, <1>5, <1>6 DEF MismoFCB, MismoBitmap

\* escribirEnBloqueDePunteros changes one word.
LEMMA AlEscribirPuntero ==
    ASSUME NEW m, EsModelo(m), NEW indice \in Int, NEW valor \in Int, NEW bloque \in Int,
           NEW x, x = escribirEnBloqueDePunteros(m, indice, valor, bloque)
    PROVE  /\ EsModelo(x) /\ MismoFCB(x, m) /\ MismoBitmap(x, m)
           /\ bloque * Palabras + indice >= 0 =>
                 \A p \in Posiciones :
                    x.bloques[p] = IF p = bloque * Palabras + indice THEN valor ELSE m.bloques[p]
<1>1. PICK pos : pos = Palabras * bloque + indice OBVIOUS
<1>2. pos = bloque * Palabras + indice BY <1>1, Medidas
<1>2a. pos \in Int BY <1>1, Medidas
<1>3. PICK y : y = fseek(m, pos) OBVIOUS
<1>4. PICK z : z = fwrite(y, <<valor>>) OBVIOUS
<1>5. PICK pd : pd = IF y.cursor \in Posiciones THEN <<y.cursor, y.bloques[y.cursor]>> ELSE <<>>
   OBVIOUS
<1>6. x = [z EXCEPT !.perdible = pd]
   BY <1>1, <1>3, <1>4, <1>5 DEF escribirEnBloqueDePunteros
<1>7. EsTexto(<<valor>>) /\ Len(<<valor>>) = 1 /\ <<valor>>[1] = valor BY DEF EsTexto
<1>8. /\ EsModelo(y) /\ MismoFCB(y, m) /\ MismoBitmap(y, m) /\ y.bloques = m.bloques
      /\ y.cursor = IF pos >= 0 THEN pos ELSE m.cursor
   BY <1>2a, <1>3, AlMoverse
<1>9. /\ EsModelo(z) /\ MismoFCB(z, y) /\ MismoBitmap(z, y)
      /\ Puesto(y.bloques, z.bloques, <<valor>>, y.cursor)
   BY <1>4, <1>7, <1>8, AlEscribir
<1>10. pd # <<>> => pd[2] \in Int
   <2>1. y.cursor \in Posiciones => y.bloques[y.cursor] \in Int BY <1>8 DEF EsModelo, DispBien
   <2> QED BY <1>5, <2>1
<1>11. /\ DOMAIN x = CamposDisp \cup CamposFCB /\ x.perdible = pd /\ x.cursor = z.cursor
       /\ MismoFCB(x, z) /\ MismoBitmap(x, z) /\ x.bloques = z.bloques
   BY <1>6, <1>9 DEF EsModelo, CamposDisp, CamposFCB, MismoFCB, MismoBitmap
<1>12. EsModelo(x) BY <1>9, <1>10, <1>11 DEF EsModelo, DispBien, MismoFCB, MismoBitmap
<1>13. MismoFCB(x, m) /\ MismoBitmap(x, m) BY <1>8, <1>9, <1>11 DEF MismoFCB, MismoBitmap
<1>14. ASSUME pos >= 0, NEW p \in Posiciones
       PROVE  x.bloques[p] = IF p = pos THEN valor ELSE m.bloques[p]
   <2>1. p \in Int BY DEF Posiciones
   <2>2. p \in pos .. pos + 1 - 1 <=> p = pos BY <1>2a, <2>1
   <2>3. x.bloques[p] = IF p \in pos .. pos + 1 - 1 THEN <<valor>>[p - pos + 1] ELSE m.bloques[p]
      BY <1>7, <1>8, <1>9, <1>11, <1>14 DEF Puesto
   <2>4. p = pos => p - pos + 1 = 1 BY <1>2a
   <2> QED BY <1>7, <2>2, <2>3, <2>4
<1> QED BY <1>2, <1>12, <1>13, <1>14

-----------------------------------------------------------------------------
(* The loops.  Each is a recursive function on 0 .. n: it exists, because a *)
(* least turn without a value would have one, and so its equations hold.   *)

\* What is true of 0, and of i when it is of i - 1, is true up to n.
LEMMA HastaN ==
    ASSUME NEW n \in Nat, NEW S, 0 \in S, \A i \in 1 .. n : i - 1 \in S => i \in S
    PROVE  0 .. n \subseteq S
<1> SUFFICES ASSUME NEW k \in 0 .. n, k \notin S PROVE FALSE OBVIOUS
<1>1. PICK T : T = {i \in 0 .. n : i \notin S} OBVIOUS
<1>2. PICK m \in T : \A i \in T : m <= i
   <2>1. T \in SUBSET Nat /\ T # {} BY <1>1
   <2> QED BY <2>1, ElMenor
<1>3. m \in 1 .. n /\ m - 1 \in 0 .. n /\ m - 1 \notin T BY <1>1, <1>2
<1> QED BY <1>1, <1>2, <1>3

\* The turns of the loop of truncarMasBloques.
LEMMA BucleDePunteros ==
    ASSUME NEW m, NEW indice, NEW n \in Nat
    PROVE  \E x : /\ x[0] = m
                  /\ \A i \in 1 .. n : x[i] = AsignaPuntero(x[i - 1], indice + i - 1)
                  /\ x[n] = AsignaPunteros(m, indice, n)
<1> DEFINE Es(x, k) == x = [i \in 0 .. k |-> IF i = 0 THEN m
                                             ELSE AsignaPuntero(x[i - 1], indice + i - 1)]
           S == {k \in 0 .. n : \E x : Es(x, k)}
<1>1. 0 \in S
   <2>1. PICK x : x = [i \in 0 .. 0 |-> m] OBVIOUS
   <2>2. Es(x, 0) BY <2>1
   <2> QED BY <2>2
<1>2. ASSUME NEW k \in 1 .. n, k - 1 \in S PROVE k \in S
   <2>1. PICK x : Es(x, k - 1) BY <1>2
   <2>2. PICK v : v = AsignaPuntero(x[k - 1], indice + k - 1) OBVIOUS
   <2>3. PICK y : y = [i \in 0 .. k |-> IF i = k THEN v ELSE x[i]] OBVIOUS
   <2>4. \A i \in 0 .. k : y[i] = IF i = 0 THEN m ELSE AsignaPuntero(y[i - 1], indice + i - 1)
      BY <2>1, <2>2, <2>3
   <2>5. Es(y, k) BY <2>3, <2>4
   <2> QED BY <2>5
<1>3. n \in S
   <2> HIDE DEF S
   <2>1. 0 .. n \subseteq S BY <1>1, <1>2, HastaN, Zenon
   <2>2. n \in 0 .. n OBVIOUS
   <2> QED BY <2>1, <2>2
<1>4. PICK x : x = CHOOSE y : Es(y, n) OBVIOUS
<1>5. Es(x, n) BY <1>3, <1>4
<1>6. x[n] = AsignaPunteros(m, indice, n)
   BY <1>4 DEF AsignaPunteros, Bucle
<1>7. x[0] = m /\ \A i \in 1 .. n : x[i] = AsignaPuntero(x[i - 1], indice + i - 1)
   BY <1>5
<1> QED BY <1>6, <1>7

\* the turns of the loop, as a function of their number
HayEscrituras(m, lista, datos) ==
    \E x : /\ x[0] = m
           /\ \A i \in 1 .. Trozos(Len(datos)) :
                 x[i] = escribirEnBloqueDeDatos(x[i - 1], Trozo(datos, i), InicioDe(lista, i))
           /\ x[Trozos(Len(datos))] = EscribeTrozos(m, lista, datos)

\* The turns of the loop of escribirArchDesdePunteroIndirecto.
LEMMA BucleDeEscrituras ==
    ASSUME NEW m, NEW lista, NEW datos, Trozos(Len(datos)) \in Nat
    PROVE  HayEscrituras(m, lista, datos)
<1>0. PICK n \in Nat : n = Trozos(Len(datos)) OBVIOUS
<1> DEFINE Es(x, k) ==
               x = [i \in 0 .. k |-> IF i = 0 THEN m
                      ELSE escribirEnBloqueDeDatos(x[i - 1], Trozo(datos, i), InicioDe(lista, i))]
           S == {k \in 0 .. n : \E x : Es(x, k)}
<1>1. 0 \in S
   <2>1. PICK x : x = [i \in 0 .. 0 |-> m] OBVIOUS
   <2>2. Es(x, 0) BY <2>1
   <2> QED BY <2>2
<1>2. ASSUME NEW k \in 1 .. n, k - 1 \in S PROVE k \in S
   <2>1. PICK x : Es(x, k - 1) BY <1>2
   <2>2. PICK v : v = escribirEnBloqueDeDatos(x[k - 1], Trozo(datos, k), InicioDe(lista, k))
      OBVIOUS
   <2>3. PICK y : y = [i \in 0 .. k |-> IF i = k THEN v ELSE x[i]] OBVIOUS
   <2>4. \A i \in 0 .. k :
            y[i] = IF i = 0 THEN m
                   ELSE escribirEnBloqueDeDatos(y[i - 1], Trozo(datos, i), InicioDe(lista, i))
      BY <2>1, <2>2, <2>3
   <2>5. Es(y, k) BY <2>3, <2>4
   <2> QED BY <2>5
<1>3. n \in S
   <2> HIDE DEF S
   <2>1. 0 .. n \subseteq S BY <1>1, <1>2, HastaN, Zenon
   <2>2. n \in 0 .. n OBVIOUS
   <2> QED BY <2>1, <2>2
<1>4. PICK x : x = CHOOSE y : Es(y, n) OBVIOUS
<1>5. Es(x, n) BY <1>3, <1>4
<1>6. x[n] = EscribeTrozos(m, lista, datos)
   BY <1>0, <1>4 DEF EscribeTrozos, Bucle
<1>7. /\ x[0] = m
      /\ \A i \in 1 .. n :
            x[i] = escribirEnBloqueDeDatos(x[i - 1], Trozo(datos, i), InicioDe(lista, i))
   BY <1>5
<1> QED BY <1>0, <1>6, <1>7 DEF HayEscrituras

\* The turns of the loop of leerArchDesdePunteroIndirecto.
LEMMA BucleDeLecturas ==
    ASSUME NEW m, NEW lista, NEW t, NEW n \in Nat, n = Trozos(t)
    PROVE  \E x : /\ x[0] = m
                  /\ \A i \in 1 .. n : x[i] = trasLeerUnBloque(x[i - 1], InicioDe(lista, i))
                  /\ x[n] = LeeTrozos(m, lista, t)
<1> DEFINE Es(x, k) == x = [i \in 0 .. k |-> IF i = 0 THEN m
                                             ELSE trasLeerUnBloque(x[i - 1], InicioDe(lista, i))]
           S == {k \in 0 .. n : \E x : Es(x, k)}
<1>1. 0 \in S
   <2>1. PICK x : x = [i \in 0 .. 0 |-> m] OBVIOUS
   <2>2. Es(x, 0) BY <2>1
   <2> QED BY <2>2
<1>2. ASSUME NEW k \in 1 .. n, k - 1 \in S PROVE k \in S
   <2>1. PICK x : Es(x, k - 1) BY <1>2
   <2>2. PICK v : v = trasLeerUnBloque(x[k - 1], InicioDe(lista, k)) OBVIOUS
   <2>3. PICK y : y = [i \in 0 .. k |-> IF i = k THEN v ELSE x[i]] OBVIOUS
   <2>4. \A i \in 0 .. k : y[i] = IF i = 0 THEN m
                                  ELSE trasLeerUnBloque(y[i - 1], InicioDe(lista, i))
      BY <2>1, <2>2, <2>3
   <2>5. Es(y, k) BY <2>3, <2>4
   <2> QED BY <2>5
<1>3. n \in S
   <2> HIDE DEF S
   <2>1. 0 .. n \subseteq S BY <1>1, <1>2, HastaN, Zenon
   <2>2. n \in 0 .. n OBVIOUS
   <2> QED BY <2>1, <2>2
<1>4. PICK x : x = CHOOSE y : Es(y, n) OBVIOUS
<1>5. Es(x, n) BY <1>3, <1>4
<1>6. x[n] = LeeTrozos(m, lista, t)
   BY <1>4 DEF LeeTrozos, Bucle
<1>7. x[0] = m /\ \A i \in 1 .. n : x[i] = trasLeerUnBloque(x[i - 1], InicioDe(lista, i))
   BY <1>5
<1> QED BY <1>6, <1>7

\* The count of blocks that some words take, and how they are filled: a block
\* before the last is full.
LEMMA AlTrozar ==
    ASSUME NEW l \in Nat
    PROVE  /\ Trozos(l) \in Nat
           /\ \A i \in 1 .. Trozos(l) : (i - 1) * Palabras < l
           /\ \A i \in Int : (i - 1) * Palabras < l => i <= Trozos(l)
<1>1. PICK a, u : a = (l + Palabras - 1) \div Palabras /\ u = (l + Palabras - 1) % Palabras
   OBVIOUS
<1>2. l + Palabras - 1 \in Int BY Medidas
<1>3. a \in Int /\ u \in 0 .. Palabras - 1 /\ l + Palabras - 1 = a * Palabras + u
   BY <1>1, <1>2, Dividir, Zenon
<1>4. a * Palabras \in Int /\ u \in Int /\ u <= Palabras - 1 /\ u >= 0 BY <1>3, Medidas
<1>5. (a - 1) * Palabras = a * Palabras - Palabras BY <1>3, Medidas
<1>6. (a - 1) * Palabras < l
   BY <1>3, <1>4, <1>5, Medidas
<1>7. l <= a * Palabras BY <1>3, <1>4, Medidas
<1>8. a >= 0
   <2> SUFFICES ASSUME a <= -1 PROVE FALSE BY <1>3
   <2>1. a * Palabras <= (-1) * Palabras BY <1>3, Medidas, Producto
   <2>2. (-1) * Palabras = - Palabras BY Medidas
   <2> QED BY <1>7, <2>1, <2>2, <1>4, Medidas
<1>9. ASSUME NEW i \in 1 .. a PROVE (i - 1) * Palabras < l
   <2>1. (i - 1) * Palabras <= (a - 1) * Palabras BY <1>3, Medidas, Producto
   <2>2. (i - 1) * Palabras \in Int /\ (a - 1) * Palabras \in Int BY <1>3, Medidas
   <2> QED BY <1>6, <2>1, <2>2
<1>10. ASSUME NEW i \in Int, (i - 1) * Palabras < l, ~(i <= a) PROVE FALSE
   <2>1. a * Palabras <= (i - 1) * Palabras BY <1>3, <1>10, Medidas, Producto
   <2>2. (i - 1) * Palabras \in Int BY <1>10, Medidas
   <2> QED BY <1>4, <1>7, <1>10, <2>1, <2>2
<1>11. Trozos(l) = a BY <1>1 DEF Trozos
<1> QED BY <1>3, <1>8, <1>9, <1>10, <1>11

-----------------------------------------------------------------------------
(* What every operation leaves: a device with its shape.                   *)

\* A sequence of integers is a text.
LEMMA SecuenciaEsTexto == \A s \in Seq(Int) : EsTexto(s)
BY DEF EsTexto

\* leerUnBloqueDeDatos gives the words of the block at a position that exists.
LEMMA AlLeido ==
    ASSUME NEW m, EsModelo(m), NEW pos \in Int, NEW l, l = leerUnBloqueDeDatos(m, pos)
    PROVE  /\ l = [i \in 1 .. Palabras |-> l[i]]
           /\ \A i \in 1 .. Palabras : l[i] \in Int
           /\ pos >= 0 => \A i \in 1 .. Palabras :
                 pos + i - 1 \in Posiciones => l[i] = m.bloques[pos + i - 1]
<1>1. PICK y : y = fseek(m, pos) OBVIOUS
<1>2. EsModelo(y) /\ y.bloques = m.bloques /\ y.cursor = (IF pos >= 0 THEN pos ELSE m.cursor)
   BY <1>1, AlMoverse
<1>3. l = [i \in 1 .. Palabras |-> IF y.cursor + i - 1 \in Posiciones
                                   THEN y.bloques[y.cursor + i - 1] ELSE -2]
   BY <1>1 DEF leerUnBloqueDeDatos, fread, Indefinido
<1>4. \A p \in Posiciones : y.bloques[p] \in Int BY <1>2 DEF EsModelo, DispBien
<1>5. ASSUME NEW i \in 1 .. Palabras PROVE l[i] \in Int
   <2>1. CASE y.cursor + i - 1 \in Posiciones BY <2>1, <1>3, <1>4
   <2>2. CASE y.cursor + i - 1 \notin Posiciones BY <2>2, <1>3
   <2> QED BY <2>1, <2>2
<1>6. ASSUME pos >= 0, NEW i \in 1 .. Palabras, pos + i - 1 \in Posiciones
      PROVE  l[i] = m.bloques[pos + i - 1]
   <2>1. y.cursor = pos BY <1>2, <1>6
   <2> QED BY <2>1, <1>2, <1>3, <1>6
<1> QED BY <1>3, <1>5, <1>6

\* A free block, marked, in an entry of the block of pointers.
LEMMA AlAsignarPuntero ==
    ASSUME NEW m, EsModelo(m), NEW indice \in Int, NEW x, x = AsignaPuntero(m, indice)
    PROVE  \E b, y :
              /\ b = buscarBloqueLibre(m) /\ y = ocuparBloque(m, b)
              /\ EsModelo(x) /\ MismoFCB(x, m) /\ MismoBitmap(x, y)
              /\ m.indirecto * Palabras + indice >= 0 =>
                    \A p \in Posiciones :
                       x.bloques[p] = IF p = m.indirecto * Palabras + indice THEN b ELSE m.bloques[p]
<1>1. PICK b : b = buscarBloqueLibre(m) OBVIOUS
<1>2. PICK y : y = ocuparBloque(m, b) OBVIOUS
<1>3. EsModelo(y) /\ MismoFCB(y, m) /\ y.bloques = m.bloques BY <1>2, AlOcupar
<1>4. b \in Int /\ m.indirecto \in Int
   BY <1>1, LibreHallado, Medidas DEF NumeroOMenosUno, EsModelo
<1>5. PICK j : j = m.indirecto OBVIOUS
<1>6. j = y.indirecto BY <1>3, <1>5 DEF MismoFCB
<1>7. x = escribirEnBloqueDePunteros(y, indice, b, j)
   BY <1>1, <1>2, <1>5 DEF AsignaPuntero
<1>8. /\ EsModelo(x) /\ MismoFCB(x, y) /\ MismoBitmap(x, y)
      /\ j * Palabras + indice >= 0 =>
             \A p \in Posiciones :
                x.bloques[p] = IF p = j * Palabras + indice THEN b ELSE y.bloques[p]
   BY <1>3, <1>4, <1>5, <1>7, AlEscribirPuntero
<1>9. MismoFCB(x, m) BY <1>3, <1>8 DEF MismoFCB
<1> QED BY <1>1, <1>2, <1>3, <1>5, <1>8, <1>9

\* The loop of truncarMasBloques keeps the shape and the FCB.
LEMMA PunterosModelo ==
    ASSUME NEW m, EsModelo(m), NEW indice \in Int, NEW n \in Nat,
           NEW z, z = AsignaPunteros(m, indice, n)
    PROVE  EsModelo(z) /\ MismoFCB(z, m)
<1>1. PICK x : /\ x[0] = m
               /\ \A i \in 1 .. n : x[i] = AsignaPuntero(x[i - 1], indice + i - 1)
               /\ x[n] = z
   BY BucleDePunteros
<1> DEFINE S == {i \in 0 .. n : EsModelo(x[i]) /\ MismoFCB(x[i], m)}
<1>2. 0 \in S BY <1>1 DEF MismoFCB
<1>3. ASSUME NEW i \in 1 .. n, i - 1 \in S PROVE i \in S
   <2>1. EsModelo(x[i - 1]) /\ MismoFCB(x[i - 1], m) BY <1>3
   <2>2. indice + i - 1 \in Int /\ x[i] = AsignaPuntero(x[i - 1], indice + i - 1) BY <1>1
   <2>3. EsModelo(x[i]) /\ MismoFCB(x[i], x[i - 1]) BY <2>1, <2>2, AlAsignarPuntero
   <2>4. MismoFCB(x[i], m) BY <2>1, <2>3 DEF MismoFCB
   <2> QED BY <2>3, <2>4
<1>4. 0 .. n \subseteq S
   <2> HIDE DEF S
   <2> QED BY <1>2, <1>3, HastaN
<1>5. n \in S BY <1>4
<1> QED BY <1>1, <1>5

\* The loop of the writes keeps the shape, the FCB and the bitmap.
LEMMA EscrituraModelo ==
    ASSUME NEW m, EsModelo(m), NEW lista, NEW datos, Len(datos) \in Nat,
           \A i \in 1 .. Trozos(Len(datos)) : InicioDe(lista, i) \in Int /\ EsTexto(Trozo(datos, i)),
           NEW z, z = EscribeTrozos(m, lista, datos)
    PROVE  EsModelo(z) /\ MismoFCB(z, m) /\ MismoBitmap(z, m)
<1>0. PICK n \in Nat : n = Trozos(Len(datos)) BY AlTrozar
<1>1. PICK x : /\ x[0] = m
               /\ \A i \in 1 .. n :
                     x[i] = escribirEnBloqueDeDatos(x[i - 1], Trozo(datos, i), InicioDe(lista, i))
               /\ x[n] = z
   <2>1. HayEscrituras(m, lista, datos) BY <1>0, BucleDeEscrituras
   <2> QED BY <1>0, <2>1 DEF HayEscrituras
<1> DEFINE S == {i \in 0 .. n : EsModelo(x[i]) /\ MismoFCB(x[i], m) /\ MismoBitmap(x[i], m)}
<1>2. 0 \in S BY <1>1 DEF MismoFCB, MismoBitmap
<1>3. ASSUME NEW i \in 1 .. n, i - 1 \in S PROVE i \in S
   <2>1. EsModelo(x[i - 1]) /\ MismoFCB(x[i - 1], m) /\ MismoBitmap(x[i - 1], m) BY <1>3
   <2>2. x[i] = escribirEnBloqueDeDatos(x[i - 1], Trozo(datos, i), InicioDe(lista, i))
      BY <1>1
   <2>3. InicioDe(lista, i) \in Int /\ EsTexto(Trozo(datos, i)) BY <1>0
   <2>4. EsModelo(x[i]) /\ MismoFCB(x[i], x[i - 1]) /\ MismoBitmap(x[i], x[i - 1])
      BY <2>1, <2>2, <2>3, AlEscribirDatos
   <2>5. MismoFCB(x[i], m) /\ MismoBitmap(x[i], m) BY <2>1, <2>4 DEF MismoFCB, MismoBitmap
   <2> QED BY <2>4, <2>5
<1>4. 0 .. n \subseteq S
   <2> HIDE DEF S
   <2> QED BY <1>2, <1>3, HastaN, Zenon
<1>5. n \in S BY <1>4
<1> QED BY <1>1, <1>5

SoloCursor(x, m) == MismoFCB(x, m) /\ MismoBitmap(x, m) /\ x.bloques = m.bloques

\* The loop of the reads moves the stream only.
LEMMA LecturaModelo ==
    ASSUME NEW m, EsModelo(m), NEW lista, NEW t \in Nat,
           \A i \in Nat \ {0} : InicioDe(lista, i) \in Int,
           NEW z, z = LeeTrozos(m, lista, t)
    PROVE  EsModelo(z) /\ SoloCursor(z, m)
<1>0. PICK n \in Nat : n = Trozos(t) BY AlTrozar
<1>1. PICK x : /\ x[0] = m
               /\ \A i \in 1 .. n : x[i] = trasLeerUnBloque(x[i - 1], InicioDe(lista, i))
               /\ x[n] = z
   BY <1>0, BucleDeLecturas
<1> DEFINE S == {i \in 0 .. n : EsModelo(x[i]) /\ SoloCursor(x[i], m)}
<1>2. 0 \in S BY <1>1 DEF MismoFCB, MismoBitmap, SoloCursor
<1>3. ASSUME NEW i \in 1 .. n, i - 1 \in S PROVE i \in S
   <2>1. EsModelo(x[i - 1]) /\ SoloCursor(x[i - 1], m) BY <1>3
   <2>2. x[i] = trasLeerUnBloque(x[i - 1], InicioDe(lista, i)) BY <1>1
   <2>3. InicioDe(lista, i) \in Int OBVIOUS
   <2>4. EsModelo(x[i]) /\ SoloCursor(x[i], x[i - 1])
      BY <2>1, <2>2, <2>3, AlLeerUnBloque DEF SoloCursor
   <2>5. SoloCursor(x[i], m) BY <2>1, <2>4 DEF MismoFCB, MismoBitmap, SoloCursor
   <2> QED BY <2>4, <2>5
<1>4. 0 .. n \subseteq S
   <2> HIDE DEF S
   <2> QED BY <1>2, <1>3, HastaN, Zenon
<1>5. n \in S BY <1>4
<1> QED BY <1>1, <1>5

\* Where the blocks that a block of pointers lists start.
LEMMA AlIrPorLaLista ==
    ASSUME NEW m, EsModelo(m), NEW pos \in Int, NEW l, l = leerUnBloqueDeDatos(m, pos)
    PROVE  \A i \in Nat \ {0} : InicioDe(l, i) \in Int
<1> SUFFICES ASSUME NEW i \in Nat \ {0} PROVE InicioDe(l, i) \in Int OBVIOUS
<1>1. \A j \in 1 .. Palabras : l[j] \in Int BY AlLeido
<1>2. PICK v : v = IF i <= Palabras THEN l[i] ELSE -2 OBVIOUS
<1>3. v \in Int BY <1>1, <1>2, Medidas
<1>4. InicioDe(l, i) = v * Palabras BY <1>2 DEF InicioDe, Indefinido
<1> QED BY <1>3, <1>4, Medidas

\* A free block, marked, in the FCB: as the direct one, or as that of pointers.
LEMMA AlAsignarDirecto ==
    ASSUME NEW m, EsModelo(m), NEW x, x = AsignaDirecto(m)
    PROVE  \E b, y :
              /\ b = buscarBloqueLibre(m) /\ y = ocuparBloque(m, b)
              /\ EsModelo(x) /\ MismoBitmap(x, y) /\ x.bloques = m.bloques
              /\ x.tam = m.tam /\ x.directo = b /\ x.indirecto = m.indirecto
<1>1. PICK b : b = buscarBloqueLibre(m) OBVIOUS
<1>2. PICK y : y = ocuparBloque(m, b) OBVIOUS
<1>3. EsModelo(y) /\ MismoFCB(y, m) /\ y.bloques = m.bloques BY <1>2, AlOcupar
<1>4. x = [y EXCEPT !.directo = b] BY <1>1, <1>2 DEF AsignaDirecto
<1>5. b \in NumeroOMenosUno BY <1>1, LibreHallado
<1>6. /\ DOMAIN x = CamposDisp \cup CamposFCB /\ MismoBitmap(x, y) /\ x.bloques = y.bloques
      /\ x.cursor = y.cursor /\ x.perdible = y.perdible
      /\ x.tam = y.tam /\ x.directo = b /\ x.indirecto = y.indirecto
   BY <1>3, <1>4 DEF EsModelo, CamposDisp, CamposFCB, MismoBitmap
<1>7. EsModelo(x) BY <1>3, <1>5, <1>6 DEF EsModelo, DispBien, MismoBitmap
<1> QED BY <1>1, <1>2, <1>3, <1>6, <1>7 DEF MismoFCB

\* The same for the block of pointers.
LEMMA AlAsignarIndirecto ==
    ASSUME NEW m, EsModelo(m), NEW x, x = AsignaIndirecto(m)
    PROVE  \E b, y :
              /\ b = buscarBloqueLibre(m) /\ y = ocuparBloque(m, b)
              /\ EsModelo(x) /\ MismoBitmap(x, y) /\ x.bloques = m.bloques
              /\ x.tam = m.tam /\ x.directo = m.directo /\ x.indirecto = b
<1>1. PICK b : b = buscarBloqueLibre(m) OBVIOUS
<1>2. PICK y : y = ocuparBloque(m, b) OBVIOUS
<1>3. EsModelo(y) /\ MismoFCB(y, m) /\ y.bloques = m.bloques BY <1>2, AlOcupar
<1>4. x = [y EXCEPT !.indirecto = b] BY <1>1, <1>2 DEF AsignaIndirecto
<1>5. b \in NumeroOMenosUno BY <1>1, LibreHallado
<1>6. /\ DOMAIN x = CamposDisp \cup CamposFCB /\ MismoBitmap(x, y) /\ x.bloques = y.bloques
      /\ x.cursor = y.cursor /\ x.perdible = y.perdible
      /\ x.tam = y.tam /\ x.directo = y.directo /\ x.indirecto = b
   BY <1>3, <1>4 DEF EsModelo, CamposDisp, CamposFCB, MismoBitmap
<1>7. EsModelo(x) BY <1>3, <1>5, <1>6 DEF EsModelo, DispBien, MismoBitmap
<1> QED BY <1>1, <1>2, <1>3, <1>6, <1>7 DEF MismoFCB

\* The counts of blocks to add, and to take away, are not negative.
LEMMA CuantosMas ==
    ASSUME NEW n \in Nat, NEW t \in Int
    PROVE  /\ n > t /\ n > Palabras => NuevaCantidad(n) - CantidadActual(t) \in Nat
           /\ n < t => LET actual == CantidadActual(t) IN
                       EntradasABorrar(- (NuevaCantidad(n) - actual), actual) \in Nat
<1>1. PICK q, r : q = n \div Palabras /\ r = t \div Palabras OBVIOUS
<1>2. q \in Int /\ r \in Int BY <1>1, Dividir
<1>3. n <= t => q <= r BY <1>1, DivMonotona
<1>4. t <= n => r <= q BY <1>1, DivMonotona
<1>5. NuevaCantidad(n) = (IF n = 0 THEN 0 ELSE q + 1) /\ CantidadActual(t) = r + 1
   BY <1>1 DEF NuevaCantidad, CantidadActual
<1>6. ASSUME n > t, n > Palabras PROVE NuevaCantidad(n) - CantidadActual(t) \in Nat
   BY <1>2, <1>4, <1>5, <1>6, Medidas
<1>7. n <= t => q >= 0 /\ r >= 0
   <2>1. 0 = 0 * Palabras + 0 /\ 0 \in 0 .. Palabras - 1 BY Medidas
   <2>2. 0 \div Palabras = 0 BY <2>1, Cociente
   <2>3. 0 <= q BY <1>1, <2>2, DivMonotona
   <2> QED BY <1>2, <1>3, <2>3
<1>8. ASSUME n < t, NEW c, c = - (NuevaCantidad(n) - CantidadActual(t))
      PROVE  EntradasABorrar(c, CantidadActual(t)) \in Nat
   <2>1. CASE n = 0 BY <2>1, <1>2, <1>5, <1>7, <1>8 DEF EntradasABorrar, BorraTodo
   <2>2. CASE n # 0
      <3>1. c = r - q /\ c \in Nat BY <2>2, <1>2, <1>3, <1>5, <1>8
      <3>2. c # r + 1 BY <3>1, <1>2, <1>7, <1>8
      <3> QED BY <3>1, <3>2, <1>5 DEF EntradasABorrar, BorraTodo
   <2> QED BY <2>1, <2>2
<1> QED BY <1>6, <1>8

\* truncarArchivo keeps the shape, whatever the sizes.
LEMMA TruncaModelo ==
    ASSUME NEW m, EsModelo(m), NEW n \in Nat, n # m.tam, NEW heap, NEW x, x = truncar(m, n, heap)
    PROVE  EsModelo(x)
<1>0. PICK t \in Int : t = m.tam BY DEF EsModelo
<1>1. PICK d : d = NuevaCantidad(n) - CantidadActual(t) OBVIOUS
<1>2. CASE n > t /\ n <= Palabras
   <2>1. x = AsignaDirecto(m) BY <1>0, <1>2, Medidas DEF truncar, truncarMasBloques
   <2> QED BY <2>1, AlAsignarDirecto
<1>3. CASE n > t /\ ~(n <= Palabras)
   <2>1. PICK indice : indice = IF t > 0 THEN t \div Palabras - 1 ELSE 0 OBVIOUS
   <2>2. PICK directo : directo = IF t = 0 THEN AsignaDirecto(m) ELSE m OBVIOUS
   <2>3. PICK conLista : conLista = IF t <= Palabras THEN AsignaIndirecto(directo) ELSE directo
      OBVIOUS
   <2>4. x = AsignaPunteros(conLista, indice, d)
      BY <1>0, <1>1, <1>3, <2>1, <2>2, <2>3 DEF truncar, truncarMasBloques
   <2>5. d \in Nat BY <1>1, <1>3, CuantosMas, Medidas
   <2>6. indice \in Int BY <2>1, Dividir
   <2>7. EsModelo(directo) BY <2>2, AlAsignarDirecto
   <2>8. EsModelo(conLista) BY <2>3, <2>7, AlAsignarIndirecto
   <2> QED BY <2>4, <2>5, <2>6, <2>8, PunterosModelo
<1>4. CASE n < t
   <2>1. PICK cant, actual : actual = CantidadActual(t) /\ cant = - (NuevaCantidad(n) - actual)
      OBVIOUS
   <2>2. PICK aBorrar : aBorrar = EntradasABorrar(cant, actual) OBVIOUS
   <2>3. aBorrar \in Nat BY <1>4, <2>1, <2>2, CuantosMas
   <2>4. PICK directo : directo = IF BorraTodo(cant, actual)
                                  THEN desocuparBloque(m, m.directo) ELSE m
      OBVIOUS
   <2>5. EsModelo(directo) /\ MismoFCB(directo, m) BY <2>4, AlDesocupar DEF MismoFCB
   <2>6. PICK pos : pos = Palabras * m.indirecto OBVIOUS
   <2>7. pos \in Int BY <2>6, Medidas DEF EsModelo, NumeroOMenosUno
   <2>8. PICK leido : leido = trasLeerUnBloque(directo, pos) OBVIOUS
   <2>9. EsModelo(leido) BY <2>5, <2>7, <2>8, AlLeerUnBloque
   <2>10. PICK s : s = PunterosABorrar(m, aBorrar, heap) OBVIOUS
   <2>11. Len(s) \in Int BY <2>3, <2>10 DEF PunterosABorrar
   <2>12. PICK sinDatos : sinDatos = desocuparBloques(leido, s) OBVIOUS
   <2>13. EsModelo(sinDatos) BY <2>9, <2>11, <2>12, AlDesocupar
   <2>14. x = IF actual - aBorrar - 1 = 0 THEN desocuparBloque(sinDatos, m.indirecto) ELSE sinDatos
      <3>1. ~(n > t) BY <1>4
      <3>2. x = truncarMenosBloques(m, cant, actual, heap) BY <1>0, <2>1, <3>1 DEF truncar
      <3> QED BY <3>2, <2>2, <2>4, <2>6, <2>8, <2>10, <2>12 DEF truncarMenosBloques
   <2> QED BY <2>13, <2>14, AlDesocupar
<1> QED BY <1>0, <1>2, <1>3, <1>4

\* t is what s has from a to b
EsParte(t, s, a, b) ==
    /\ t \in Seq(Int) /\ EsTexto(t) /\ Len(t) = (IF a <= b THEN b - a + 1 ELSE 0)
    /\ \A i \in 1 .. Len(t) : t[i] = s[a + i - 1]

\* What SubSeq gives of a text.
LEMMA LaParte ==
    ASSUME NEW s \in Seq(Int), NEW a \in Int, NEW b \in Int, 1 <= a, b <= Len(s),
           NEW t, t = SubSeq(s, a, b)
    PROVE  EsParte(t, s, a, b)
<1>1. \A i \in a .. b : s[i] \in Int
   <2>1. Len(s) \in Nat /\ \A i \in 1 .. Len(s) : s[i] \in Int OBVIOUS
   <2> QED BY <2>1
<1>2. /\ SubSeq(s, a, b) \in Seq(Int) /\ Len(SubSeq(s, a, b)) = (IF a <= b THEN b - a + 1 ELSE 0)
      /\ \A i \in 1 .. b - a + 1 : SubSeq(s, a, b)[i] = s[a + i - 1]
   BY <1>1, SubSeqProperties
<1>3. PICK l : l = Len(t) OBVIOUS
<1>4. t \in Seq(Int) /\ l = IF a <= b THEN b - a + 1 ELSE 0 BY <1>2, <1>3, Zenon
<1>5. \A i \in 1 .. l : i \in 1 .. b - a + 1 BY <1>4
<1>6. \A i \in 1 .. l : t[i] = s[a + i - 1] BY <1>2, <1>5, Zenon
<1> QED BY <1>3, <1>4, <1>6, SecuenciaEsTexto DEF EsParte

\* The same, open.
LEMMA ParteDeTexto ==
    ASSUME NEW s \in Seq(Int), NEW a \in Int, NEW b \in Int, 1 <= a, b <= Len(s),
           NEW t, t = SubSeq(s, a, b)
    PROVE  /\ t \in Seq(Int) /\ EsTexto(t) /\ Len(t) = (IF a <= b THEN b - a + 1 ELSE 0)
           /\ \A i \in 1 .. Len(t) : t[i] = s[a + i - 1]
<1>1. EsParte(t, s, a, b) BY LaParte
<1> QED BY <1>1 DEF EsParte

\* What goes to the i-th block.
LEMMA AlTrozo ==
    ASSUME NEW s \in Seq(Int), NEW i \in 1 .. Trozos(Len(s)), NEW t, t = Trozo(s, i)
    PROVE  /\ EsTexto(t) /\ Len(t) <= Palabras
           /\ \A o \in 0 .. Palabras - 1 : o < Len(t) <=> (i - 1) * Palabras + o < Len(s)
           /\ \A o \in 0 .. Palabras - 1 : o < Len(t) => t[o + 1] = s[(i - 1) * Palabras + o + 1]
<1>1. PICK l \in Nat : l = Len(s) OBVIOUS
<1>2. i \in Int /\ i >= 1 BY <1>1, AlTrozar
<1>3. PICK de, fin : de = (i - 1) * Palabras /\ fin = i * Palabras OBVIOUS
<1>4. de \in Nat /\ fin = de + Palabras /\ de < l
   <2>1. 0 * Palabras <= (i - 1) * Palabras BY <1>2, Medidas, Producto
   <2>2. (i - 1) * Palabras = i * Palabras - Palabras /\ (i - 1) * Palabras \in Int
      BY <1>2, Medidas
   <2>3. (i - 1) * Palabras < l BY <1>1, AlTrozar
   <2>4. 0 * Palabras = 0 /\ i * Palabras \in Int BY <1>2, Medidas
   <2>5. de \in Int /\ fin \in Int /\ de = fin - Palabras /\ de >= 0 BY <1>3, <2>1, <2>2, <2>4
   <2> QED BY <1>3, <2>3, <2>5, Medidas
<1>5. PICK b : b = Min({fin, l}) OBVIOUS
<1>6. b \in {fin, l} /\ b <= fin /\ b <= l
   <2>1. {fin, l} \in SUBSET Nat /\ {fin, l} # {} BY <1>4, Medidas
   <2> QED BY <1>5, <2>1, ElMenor
<1>7. t = SubSeq(s, de + 1, b) BY <1>1, <1>3, <1>5 DEF Trozo
<1>8. b \in Int /\ 1 <= de + 1 /\ b <= Len(s) /\ de + 1 \in Int BY <1>1, <1>4, <1>6, Medidas
<1>9. EsTexto(t) /\ Len(t) = b - de /\ \A k \in 1 .. Len(t) : t[k] = s[de + k]
   <2>1. PICK a : a = de + 1 OBVIOUS
   <2>2. a \in Int /\ b \in Int /\ 1 <= a /\ b <= Len(s) /\ a <= b
      BY <1>4, <1>6, <1>8, <2>1, Medidas
   <2>3. t = SubSeq(s, a, b) BY <1>7, <2>1
   <2>4. EsTexto(t) BY <2>2, <2>3, ParteDeTexto, Zenon
   <2>5. Len(t) = b - a + 1 BY <2>2, <2>3, ParteDeTexto
   <2>6. ASSUME NEW k \in 1 .. Len(t) PROVE t[k] = s[a + k - 1]
      BY <2>2, <2>3, ParteDeTexto
   <2>7. Len(t) \in Nat BY <2>4 DEF EsTexto
   <2>8. \A k \in 1 .. Len(t) : a + k - 1 = de + k BY <1>4, <2>1, <2>7
   <2> QED BY <1>4, <2>1, <2>2, <2>4, <2>5, <2>6, <2>8
<1>10. Len(t) \in Nat BY <1>9 DEF EsTexto
<1>11. Len(t) <= Palabras BY <1>4, <1>6, <1>8, <1>9, <1>10, Medidas
<1>12. ASSUME NEW o \in 0 .. Palabras - 1
       PROVE  (o < Len(t) <=> de + o < l) /\ (o < Len(t) => t[o + 1] = s[de + o + 1])
   <2>1. o < Len(t) <=> de + o < l BY <1>4, <1>6, <1>8, <1>9, <1>10, <1>11, Medidas
   <2>2. ASSUME o < Len(t) PROVE t[o + 1] = s[de + o + 1]
      <3>1. o + 1 \in 1 .. Len(t) /\ de + (o + 1) = de + o + 1
         BY <2>2, <1>4, <1>10, Medidas
      <3> QED BY <3>1, <1>9
   <2> QED BY <2>1, <2>2
<1> QED BY <1>1, <1>3, <1>9, <1>11, <1>12

\* escribirArchDesdePunteroIndirecto keeps the shape, the FCB and the bitmap.
LEMMA PorLaListaModelo ==
    ASSUME NEW m, EsModelo(m), NEW s \in Seq(Int), NEW x,
           x = escribirArchDesdePunteroIndirecto(m, s)
    PROVE  EsModelo(x) /\ MismoFCB(x, m) /\ MismoBitmap(x, m)
<1>1. PICK pos : pos = Palabras * m.indirecto OBVIOUS
<1>2. pos \in Int BY <1>1, Medidas DEF EsModelo, NumeroOMenosUno
<1>3. PICK lista : lista = leerUnBloqueDeDatos(m, pos) OBVIOUS
<1>4. PICK leido : leido = trasLeerUnBloque(m, pos) OBVIOUS
<1>5. EsModelo(leido) /\ MismoFCB(leido, m) /\ MismoBitmap(leido, m)
   BY <1>2, <1>4, AlLeerUnBloque
<1>6. \A i \in Nat \ {0} : InicioDe(lista, i) \in Int BY <1>2, <1>3, AlIrPorLaLista
<1>7. Len(s) \in Nat OBVIOUS
<1>8. \A i \in 1 .. Trozos(Len(s)) : InicioDe(lista, i) \in Int /\ EsTexto(Trozo(s, i))
   <2>1. Trozos(Len(s)) \in Nat BY <1>7, AlTrozar
   <2>2. \A i \in 1 .. Trozos(Len(s)) : i \in Nat \ {0} BY <2>1
   <2> QED BY <2>2, <1>6, AlTrozo
<1>9. x = EscribeTrozos(leido, lista, s)
   BY <1>1, <1>3, <1>4 DEF escribirArchDesdePunteroIndirecto, leerEnBloqueDePunteros
<1>10. EsModelo(x) /\ MismoFCB(x, leido) /\ MismoBitmap(x, leido)
   BY <1>5, <1>7, <1>8, <1>9, EscrituraModelo
<1> QED BY <1>5, <1>10 DEF MismoFCB, MismoBitmap

\* The part of a write that goes to the first block, and the rest.
LEMMA AlPartir ==
    ASSUME NEW s \in Seq(Int), NEW puntero \in Nat, puntero < Palabras,
           NEW k, k = ParteDirecta(puntero, s)
    PROVE  /\ k \in Nat /\ k <= Len(s)
           /\ IF puntero + Len(s) < Palabras THEN k = Len(s) ELSE k = Palabras - puntero
<1>1. PICK l \in Nat : l = Len(s) OBVIOUS
<1>2. k = IF Palabras - puntero - l > 0 THEN l ELSE Palabras - puntero
   BY <1>1 DEF ParteDirecta
<1> QED BY <1>1, <1>2, Medidas

\* escribirArchivo keeps the shape, the FCB and the bitmap, whatever the pointer.
LEMMA EscribeModelo ==
    ASSUME NEW m, EsModelo(m), NEW s \in Seq(Int), NEW puntero \in Nat,
           NEW x, x = escribir(m, puntero, s)
    PROVE  EsModelo(x) /\ MismoFCB(x, m) /\ MismoBitmap(x, m)
<1>0. PICK pos : pos = m.directo * Palabras + puntero OBVIOUS
<1>1. pos \in Int BY <1>0, Medidas DEF EsModelo, NumeroOMenosUno
<1>2. CASE m.tam <= Palabras
   <2>0. ~(m.tam > Palabras) BY <1>2, Medidas DEF EsModelo
   <2>1. x = escribirEnBloqueDeDatos(m, s, pos) BY <1>0, <1>2, <2>0 DEF escribir
   <2>2. EsTexto(s) BY SecuenciaEsTexto
   <2> QED BY <2>1, <2>2, <1>1, AlEscribirDatos
<1>3. CASE m.tam > Palabras /\ puntero < Palabras
   <2>1. x = escribirArchDesdePunteroDirecto(m, puntero, s)
      <3>1. ~(m.tam <= Palabras) BY <1>3, Medidas DEF EsModelo
      <3> QED BY <1>3, <3>1 DEF escribir
   <2>2. PICK k : k = ParteDirecta(puntero, s) OBVIOUS
   <2>3. k \in Nat /\ k <= Len(s) BY <1>3, <2>2, AlPartir
   <2>4. PICK p, r : p = SubSeq(s, 1, k) /\ r = SubSeq(s, k + 1, Len(s)) OBVIOUS
   <2>5. EsTexto(p)
      <3>1. 1 \in Int /\ k \in Int /\ 1 <= 1 /\ k <= Len(s) BY <2>3
      <3> QED BY <2>4, <3>1, ParteDeTexto, Zenon
   <2>6. r \in Seq(Int)
      <3>1. k + 1 \in Int /\ Len(s) \in Int /\ 1 <= k + 1 /\ Len(s) <= Len(s) BY <2>3
      <3> QED BY <2>4, <3>1, ParteDeTexto
   <2>7. PICK y : y = escribirEnBloqueDeDatos(m, p, pos) OBVIOUS
   <2>8. EsModelo(y) /\ MismoFCB(y, m) /\ MismoBitmap(y, m)
      BY <1>1, <2>5, <2>7, AlEscribirDatos
   <2>9. x = y \/ x = escribirArchDesdePunteroIndirecto(y, r)
      BY <1>0, <2>1, <2>2, <2>4, <2>7 DEF escribirArchDesdePunteroDirecto
   <2>10. ASSUME x = escribirArchDesdePunteroIndirecto(y, r)
          PROVE  EsModelo(x) /\ MismoFCB(x, y) /\ MismoBitmap(x, y)
      BY <2>6, <2>8, <2>10, PorLaListaModelo
   <2> QED BY <2>8, <2>9, <2>10 DEF MismoFCB, MismoBitmap
<1>4. CASE ~(m.tam <= Palabras) /\ ~(m.tam > Palabras /\ puntero < Palabras)
   <2>1. x = escribirArchDesdePunteroIndirecto(m, s) BY <1>4 DEF escribir
   <2> QED BY <2>1, PorLaListaModelo
<1> QED BY <1>2, <1>3, <1>4

\* leerArchDesdePunteroIndirecto moves the stream only.
LEMMA LeePorLaListaModelo ==
    ASSUME NEW m, EsModelo(m), NEW n \in Nat, NEW x, x = leerArchDesdePunteroIndirecto(m, n).m
    PROVE  EsModelo(x) /\ SoloCursor(x, m)
<1>1. PICK pos : pos = Palabras * m.indirecto OBVIOUS
<1>2. pos \in Int BY <1>1, Medidas DEF EsModelo, NumeroOMenosUno
<1>3. PICK lista : lista = leerUnBloqueDeDatos(m, pos) OBVIOUS
<1>4. PICK leido : leido = trasLeerUnBloque(m, pos) OBVIOUS
<1>5. EsModelo(leido) /\ SoloCursor(leido, m) BY <1>2, <1>4, AlLeerUnBloque DEF SoloCursor
<1>6. \A i \in Nat \ {0} : InicioDe(lista, i) \in Int BY <1>2, <1>3, AlIrPorLaLista
<1>7. x = LeeTrozos(leido, lista, n)
   BY <1>1, <1>3, <1>4 DEF leerArchDesdePunteroIndirecto, leerEnBloqueDePunteros
<1>8. EsModelo(x) /\ SoloCursor(x, leido) BY <1>5, <1>6, <1>7, LecturaModelo
<1> QED BY <1>5, <1>8 DEF SoloCursor, MismoFCB, MismoBitmap

\* leerArchivo moves the stream only, whatever the pointer.
LEMMA LeeModelo ==
    ASSUME NEW m, EsModelo(m), NEW puntero \in Nat, NEW n \in Nat,
           NEW x, x = leer(m, puntero, n).m
    PROVE  EsModelo(x) /\ SoloCursor(x, m)
<1>1. PICK pos : pos = PosicionDeLectura(m, puntero) OBVIOUS
<1>2. pos \in Int BY <1>1, Medidas DEF EsModelo, NumeroOMenosUno, PosicionDeLectura
<1>3. PICK y : y = leerSeguido(m, puntero, n).m OBVIOUS
<1>4. y = trasLeerUnBloque(m, pos) BY <1>1, <1>3 DEF leerSeguido
<1>5. EsModelo(y) /\ SoloCursor(y, m) BY <1>2, <1>4, AlLeerUnBloque DEF SoloCursor
<1>6. CASE m.tam <= Palabras
   <2>1. ~(m.tam > Palabras) BY <1>6, Medidas DEF EsModelo
   <2>2. x = y BY <1>3, <1>6, <2>1 DEF leer
   <2> QED BY <1>5, <2>2
<1>7. CASE m.tam > Palabras /\ puntero < Palabras
   <2>1. ~(m.tam <= Palabras) BY <1>7, Medidas DEF EsModelo
   <2>2. x = leerArchDesdePunteroDirecto(m, puntero, n).m BY <1>7, <2>1 DEF leer
   <2>3. x = y \/ x = leerArchDesdePunteroIndirecto(y, 0).m
      BY <1>3, <2>2 DEF leerArchDesdePunteroDirecto
   <2>4. ASSUME x = leerArchDesdePunteroIndirecto(y, 0).m PROVE EsModelo(x) /\ SoloCursor(x, y)
      BY <1>5, <2>4, LeePorLaListaModelo
   <2> QED BY <1>5, <2>3, <2>4 DEF SoloCursor, MismoFCB, MismoBitmap
<1>8. CASE ~(m.tam <= Palabras) /\ ~(m.tam > Palabras /\ puntero < Palabras)
   <2>1. x = leerArchDesdePunteroIndirecto(m, n).m BY <1>8 DEF leer
   <2> QED BY <2>1, LeePorLaListaModelo
<1> QED BY <1>6, <1>7, <1>8

-----------------------------------------------------------------------------
(* The growth of an empty file, as the code serves it in full.             *)

\* what the j-th entry of the block of pointers says
Puntero(y, j) == y.bloques[y.indirecto * Palabras + (j - 1)]

\* i turns of the loop that assigns pointers: so many new blocks, all marked
Tanda(y, m, i) ==
    /\ EsModelo(y) /\ MismoFCB(y, m) /\ Cuadra(y) /\ y.libres = m.libres - i
    /\ \A j \in 1 .. i : Puntero(y, j) \in NumerosDeBloque \ Ocupados(m)
    /\ \A j, k \in 1 .. i : Puntero(y, j) = Puntero(y, k) => j = k
    /\ Ocupados(y) = Ocupados(m) \cup {b \in NumerosDeBloque : \E j \in 1 .. i : b = Puntero(y, j)}
    /\ \A b \in NumerosDeBloque : b # m.indirecto =>
          \A o \in 0 .. Palabras - 1 : y.bloques[b * Palabras + o] = m.bloques[b * Palabras + o]

\* One more turn: one more block, free until then and marked.
LEMMA UnaMas ==
    ASSUME NEW m, NEW i \in Nat \ {0}, i <= Palabras, m.indirecto \in NumerosDeBloque,
           m.libres >= i, m.libres \in Int,
           NEW y, Tanda(y, m, i - 1), NEW x, x = AsignaPuntero(y, i - 1)
    PROVE  Tanda(x, m, i)
<1>1. /\ EsModelo(y) /\ MismoFCB(y, m) /\ Cuadra(y) /\ y.libres = m.libres - (i - 1)
      /\ y.indirecto = m.indirecto
   BY DEF Tanda, MismoFCB
<1>2. PICK c : c = m.indirecto OBVIOUS
<1>3. i - 1 \in Int /\ i - 1 \in 0 .. Palabras - 1 BY Medidas
<1>4. PICK b, w : /\ b = buscarBloqueLibre(y) /\ w = ocuparBloque(y, b)
                  /\ EsModelo(x) /\ MismoFCB(x, y) /\ MismoBitmap(x, w)
                  /\ y.indirecto * Palabras + (i - 1) >= 0 =>
                       \A p \in Posiciones :
                          x.bloques[p] = IF p = y.indirecto * Palabras + (i - 1) THEN b
                                         ELSE y.bloques[p]
   BY <1>1, <1>3, AlAsignarPuntero
<1>5. y.libres > 0 BY <1>1
<1>6. /\ b \in NumerosDeBloque \ Ocupados(y)
      /\ Ocupados(w) = Ocupados(y) \cup {b} /\ Cuadra(w) /\ w.libres = y.libres - 1
   BY <1>1, <1>4, <1>5, AlOcuparLibre
<1>7. Ocupados(x) = Ocupados(y) \cup {b} /\ Cuadra(x) /\ x.libres = y.libres - 1
   BY <1>4, <1>6 DEF MismoBitmap, Ocupados, Cuadra
<1>8. MismoFCB(x, m) /\ x.indirecto = c /\ y.indirecto = c BY <1>1, <1>2, <1>4 DEF MismoFCB
<1>9. PICK d : d = c * Palabras + (i - 1) OBVIOUS
<1>10. d \in Posiciones /\ d >= 0
   <2>1. c * Palabras + (i - 1) \in Posiciones BY <1>2, <1>3, EnPosiciones
   <2> QED BY <1>9, <2>1 DEF Posiciones
<1>11. \A p \in Posiciones : x.bloques[p] = IF p = d THEN b ELSE y.bloques[p]
   BY <1>4, <1>8, <1>9, <1>10
<1>12. Puntero(x, i) = b BY <1>8, <1>9, <1>10, <1>11 DEF Puntero
<1>13. ASSUME NEW j \in 1 .. i - 1 PROVE Puntero(x, j) = Puntero(y, j)
   <2>1. j - 1 \in 0 .. Palabras - 1 /\ j - 1 # i - 1 BY <1>3, Medidas
   <2>2. c \in Int BY <1>2, Medidas DEF NumerosDeBloque
   <2>3. c * Palabras + (j - 1) \in Posiciones BY <1>2, <2>1, EnPosiciones
   <2>4. c * Palabras + (j - 1) # d BY <1>3, <1>9, <2>1, <2>2, PosicionUnica
   <2> QED BY <1>8, <1>11, <2>3, <2>4 DEF Puntero
<1>14. ASSUME NEW a \in NumerosDeBloque, a # m.indirecto, NEW o \in 0 .. Palabras - 1
       PROVE  x.bloques[a * Palabras + o] = m.bloques[a * Palabras + o]
   <2>1. a * Palabras + o \in Posiciones BY EnPosiciones
   <2>2. a \in Int /\ c \in Int BY <1>2, Medidas DEF NumerosDeBloque
   <2>3. a * Palabras + o # d BY <1>2, <1>3, <1>9, <1>14, <2>2, PosicionUnica
   <2>4. y.bloques[a * Palabras + o] = m.bloques[a * Palabras + o] BY <1>14 DEF Tanda
   <2> QED BY <1>11, <2>1, <2>3, <2>4
<1>15. \A j \in 1 .. i - 1 : /\ Puntero(y, j) \in NumerosDeBloque \ Ocupados(m)
                             /\ Puntero(y, j) \in Ocupados(y)
   BY DEF Tanda
<1>16. Ocupados(m) \subseteq Ocupados(y) BY DEF Tanda
<1>17. ASSUME NEW j \in 1 .. i PROVE j = i \/ j \in 1 .. i - 1 OBVIOUS
<1>18. \A j \in 1 .. i : Puntero(x, j) \in NumerosDeBloque \ Ocupados(m)
   BY <1>6, <1>12, <1>13, <1>15, <1>16, <1>17
<1>19. ASSUME NEW j \in 1 .. i, NEW k \in 1 .. i, Puntero(x, j) = Puntero(x, k) PROVE j = k
   <2>1. CASE j \in 1 .. i - 1 /\ k \in 1 .. i - 1
      <3>1. Puntero(y, j) = Puntero(y, k) BY <2>1, <1>13, <1>19
      <3> QED BY <2>1, <3>1 DEF Tanda
   <2>2. CASE j \in 1 .. i - 1 /\ k = i BY <2>2, <1>6, <1>12, <1>13, <1>15, <1>19
   <2>3. CASE j = i /\ k \in 1 .. i - 1 BY <2>3, <1>6, <1>12, <1>13, <1>15, <1>19
   <2> QED BY <1>17, <2>1, <2>2, <2>3
<1>20. Ocupados(x) = Ocupados(m) \cup {a \in NumerosDeBloque : \E j \in 1 .. i : a = Puntero(x, j)}
   <2>1. Ocupados(y) = Ocupados(m) \cup {a \in NumerosDeBloque : \E j \in 1 .. i - 1 : a = Puntero(y, j)}
      BY DEF Tanda
   <2>2. ASSUME NEW a \in NumerosDeBloque
         PROVE  (\E j \in 1 .. i : a = Puntero(x, j))
                   <=> (a = b \/ \E j \in 1 .. i - 1 : a = Puntero(y, j))
      <3>1. i \in 1 .. i /\ \A j \in 1 .. i - 1 : j \in 1 .. i OBVIOUS
      <3> QED BY <3>1, <1>12, <1>13, <1>17
   <2> QED BY <1>6, <1>7, <2>1, <2>2
<1>21. x.libres = m.libres - i BY <1>1, <1>7
<1> QED BY <1>4, <1>7, <1>8, <1>14, <1>18, <1>19, <1>20, <1>21 DEF Tanda

\* With enough free blocks the loop of truncarMasBloques lists different blocks.
LEMMA PunterosEnRegla ==
    ASSUME NEW m, EsModelo(m), Cuadra(m), NEW q \in Nat, q <= Palabras, m.libres >= q,
           m.indirecto \in NumerosDeBloque, NEW z, z = AsignaPunteros(m, 0, q)
    PROVE  Tanda(z, m, q)
<1>1. PICK x : /\ x[0] = m
               /\ \A i \in 1 .. q : x[i] = AsignaPuntero(x[i - 1], 0 + i - 1)
               /\ x[q] = z
   BY BucleDePunteros
<1> DEFINE S == {i \in 0 .. q : Tanda(x[i], m, i)}
<1>2. 0 \in S
   <2>1. Tanda(m, m, 0)
      <3>1. m.libres = m.libres - 0 BY DEF EsModelo, DispBien
      <3> QED BY <3>1 DEF Tanda, MismoFCB, Ocupados
   <2> QED BY <1>1, <2>1
<1>3. ASSUME NEW i \in 1 .. q, i - 1 \in S PROVE i \in S
   <2>1. Tanda(x[i - 1], m, i - 1) BY <1>3
   <2>2. 0 + i - 1 = i - 1 OBVIOUS
   <2>3. x[i] = AsignaPuntero(x[i - 1], i - 1) BY <1>1, <2>2
   <2>4. /\ i \in Nat \ {0} /\ i <= Palabras /\ m.libres >= i /\ m.libres \in Int
      BY Medidas DEF EsModelo, DispBien
   <2>5. Tanda(x[i], m, i) BY <2>1, <2>3, <2>4, UnaMas
   <2> QED BY <2>5
<1>4. 0 .. q \subseteq S
   <2> HIDE DEF S
   <2> QED BY <1>2, <1>3, HastaN, Zenon
<1>5. q \in S BY <1>4
<1> QED BY <1>1, <1>5

\* how many blocks a size takes: those listed, those of data, and with the
\* block of pointers; and the k-th: direct, listed, of pointers
EnLista(t) == IF t > Palabras THEN t \div Palabras ELSE 0
NDatos(t) == IF t <= 0 THEN 0 ELSE EnLista(t) + 1
NBloques(t) == IF t > Palabras THEN NDatos(t) + 1 ELSE NDatos(t)
BloqueDe(t, d, i, bl, k) ==
    IF k = 1 THEN d ELSE IF k = EnLista(t) + 2 THEN i ELSE bl[i * Palabras + (k - 2)]
Capacidad(t) == IF t <= 0 THEN 0 ELSE IF t <= Palabras THEN Palabras ELSE t

\* The counts of blocks of a size, below, up to and above one block.
LEMMA Cuentas ==
    ASSUME NEW t \in Int, t < tam_max_archivo
    PROVE  /\ t <= 0 => EnLista(t) = 0 /\ NDatos(t) = 0 /\ NBloques(t) = 0
           /\ 0 < t /\ t <= Palabras => EnLista(t) = 0 /\ NDatos(t) = 1 /\ NBloques(t) = 1
           /\ t > Palabras => /\ EnLista(t) \in 1 .. Palabras /\ EnLista(t) = t \div Palabras
                              /\ NDatos(t) = EnLista(t) + 1 /\ NBloques(t) = EnLista(t) + 2
           /\ EnLista(t) \in Nat /\ NDatos(t) \in Nat /\ NBloques(t) \in Nat
           /\ NDatos(t) <= NBloques(t)
<1>1. CASE t <= 0 BY <1>1, Medidas DEF EnLista, NDatos, NBloques
<1>2. CASE 0 < t /\ t <= Palabras BY <1>2, Medidas DEF EnLista, NDatos, NBloques
<1>3. CASE t > Palabras
   <2>1. PICK q : q = t \div Palabras OBVIOUS
   <2>2. q \in 1 .. Palabras BY <1>3, <2>1, CabeEnLaLista
   <2>3. EnLista(t) = q BY <1>3, <2>1 DEF EnLista
   <2>4. ~(t <= 0) /\ ~(t <= Palabras) BY <1>3, Medidas
   <2>5. NDatos(t) = q + 1 /\ NBloques(t) = q + 2
      BY <1>3, <2>2, <2>3, <2>4, Medidas DEF NDatos, NBloques
   <2> QED BY <1>3, <2>1, <2>2, <2>3, <2>4, <2>5, Medidas
<1> QED BY <1>1, <1>2, <1>3, Medidas

\* the blocks of the grown file x: free in m, all different, marked, and no
\* other changed
CrecidoBien(x, m, n) ==
    /\ EsModelo(x) /\ Cuadra(x) /\ x.tam = m.tam
    /\ \A k \in 1 .. NBloques(n) :
          BloqueDe(n, x.directo, x.indirecto, x.bloques, k) \in NumerosDeBloque \ Ocupados(m)
    /\ \A k, l \in 1 .. NBloques(n) :
          BloqueDe(n, x.directo, x.indirecto, x.bloques, k)
             = BloqueDe(n, x.directo, x.indirecto, x.bloques, l) => k = l
    /\ Ocupados(x) = Ocupados(m) \cup
          {b \in NumerosDeBloque : \E k \in 1 .. NBloques(n) :
              b = BloqueDe(n, x.directo, x.indirecto, x.bloques, k)}
    /\ \A b \in Ocupados(m), o \in 0 .. Palabras - 1 :
          x.bloques[b * Palabras + o] = m.bloques[b * Palabras + o]

\* The growth to one block.
LEMMA CreceUnBloque ==
    ASSUME NEW m, EsModelo(m), Cuadra(m), m.tam = 0, m.libres > 0,
           NEW n \in Nat, 0 < n, n <= Palabras, n < tam_max_archivo, NEW x, x = AsignaDirecto(m)
    PROVE  CrecidoBien(x, m, n)
<1>1. PICK b, y : /\ b = buscarBloqueLibre(m) /\ y = ocuparBloque(m, b)
                  /\ EsModelo(x) /\ MismoBitmap(x, y) /\ x.bloques = m.bloques
                  /\ x.tam = m.tam /\ x.directo = b /\ x.indirecto = m.indirecto
   BY AlAsignarDirecto
<1>2. /\ b \in NumerosDeBloque \ Ocupados(m)
      /\ Ocupados(y) = Ocupados(m) \cup {b} /\ Cuadra(y)
   BY <1>1, AlOcuparLibre
<1>3. Ocupados(x) = Ocupados(m) \cup {b} /\ Cuadra(x)
   BY <1>1, <1>2 DEF MismoBitmap, Ocupados, Cuadra
<1>4. NBloques(n) = 1 BY Cuentas
<1>5. \A k \in 1 .. NBloques(n) :
         k = 1 /\ BloqueDe(n, x.directo, x.indirecto, x.bloques, k) = b
   BY <1>1, <1>4 DEF BloqueDe
<1>6. {a \in NumerosDeBloque : \E k \in 1 .. NBloques(n) :
          a = BloqueDe(n, x.directo, x.indirecto, x.bloques, k)} = {b}
   <2>1. 1 \in 1 .. NBloques(n) BY <1>4
   <2> QED BY <1>2, <1>5, <2>1
<1> QED BY <1>1, <1>2, <1>3, <1>5, <1>6 DEF CrecidoBien

\* The growth with a block of pointers.
LEMMA CreceConLista ==
    ASSUME NEW m, EsModelo(m), Cuadra(m), m.tam = 0,
           NEW n \in Nat, n > Palabras, n < tam_max_archivo,
           NEW q, q = EnLista(n), m.libres >= q + 2,
           NEW u, u = AsignaDirecto(m), NEW v, v = AsignaIndirecto(u),
           NEW x, x = AsignaPunteros(v, 0, q)
    PROVE  CrecidoBien(x, m, n)
<1>0. q \in 1 .. Palabras /\ NBloques(n) = q + 2 /\ q \in Nat /\ q <= Palabras
   BY Cuentas, Medidas
<1>1. PICK b, y : /\ b = buscarBloqueLibre(m) /\ y = ocuparBloque(m, b)
                  /\ EsModelo(u) /\ MismoBitmap(u, y) /\ u.bloques = m.bloques
                  /\ u.tam = m.tam /\ u.directo = b /\ u.indirecto = m.indirecto
   BY AlAsignarDirecto
<1>2. m.libres > 0 /\ m.libres \in Int BY <1>0 DEF EsModelo, DispBien
<1>3. /\ b \in NumerosDeBloque \ Ocupados(m)
      /\ Ocupados(y) = Ocupados(m) \cup {b} /\ Cuadra(y) /\ y.libres = m.libres - 1
   BY <1>1, <1>2, AlOcuparLibre
<1>4. Ocupados(u) = Ocupados(m) \cup {b} /\ Cuadra(u) /\ u.libres = m.libres - 1
   BY <1>1, <1>3 DEF MismoBitmap, Ocupados, Cuadra
<1>5. PICK c, z : /\ c = buscarBloqueLibre(u) /\ z = ocuparBloque(u, c)
                  /\ EsModelo(v) /\ MismoBitmap(v, z) /\ v.bloques = u.bloques
                  /\ v.tam = u.tam /\ v.directo = u.directo /\ v.indirecto = c
   BY <1>1, AlAsignarIndirecto
<1>6. u.libres > 0 BY <1>0, <1>2, <1>4
<1>7. /\ c \in NumerosDeBloque \ Ocupados(u)
      /\ Ocupados(z) = Ocupados(u) \cup {c} /\ Cuadra(z) /\ z.libres = u.libres - 1
   BY <1>1, <1>4, <1>5, <1>6, AlOcuparLibre
<1>8. Ocupados(v) = Ocupados(m) \cup {b, c} /\ Cuadra(v) /\ v.libres = m.libres - 2
   BY <1>2, <1>4, <1>5, <1>7 DEF MismoBitmap, Ocupados, Cuadra
<1>9. v.libres >= q BY <1>0, <1>2, <1>8
<1>10. Tanda(x, v, q) BY <1>0, <1>5, <1>7, <1>8, <1>9, PunterosEnRegla
<1>11. EsModelo(x) /\ Cuadra(x) /\ x.tam = m.tam /\ x.directo = b /\ x.indirecto = c
   BY <1>1, <1>5, <1>10 DEF Tanda, MismoFCB
<1>12. PICK B : B = [k \in 1 .. q + 2 |-> BloqueDe(n, x.directo, x.indirecto, x.bloques, k)]
   OBVIOUS
<1>13. B[1] = b /\ B[q + 2] = c BY <1>0, <1>11, <1>12 DEF BloqueDe
<1>14. \A k \in 2 .. q + 1 : k - 1 \in 1 .. q /\ B[k] = Puntero(x, k - 1)
   <2> SUFFICES ASSUME NEW k \in 2 .. q + 1
                PROVE  k - 1 \in 1 .. q /\ B[k] = Puntero(x, k - 1)
      OBVIOUS
   <2>1. k # 1 /\ k # q + 2 /\ k \in 1 .. q + 2 /\ k - 1 \in 1 .. q /\ k - 1 - 1 = k - 2
      BY <1>0
   <2>2. B[k] = x.bloques[x.indirecto * Palabras + (k - 2)] BY <1>12, <2>1 DEF BloqueDe
   <2> QED BY <2>1, <2>2 DEF Puntero
<1>15. \A k \in 1 .. q + 2 : k = 1 \/ k = q + 2 \/ k \in 2 .. q + 1 BY <1>0
<1>16. \A j \in 1 .. q : Puntero(x, j) \in NumerosDeBloque \ Ocupados(v) BY <1>10 DEF Tanda
<1>17. \A k \in 1 .. q + 2 : B[k] \in NumerosDeBloque \ Ocupados(m)
   BY <1>3, <1>4, <1>7, <1>8, <1>13, <1>14, <1>15, <1>16
<1>18. b # c BY <1>4, <1>7
<1>19. ASSUME NEW k \in 1 .. q + 2, NEW l \in 1 .. q + 2, B[k] = B[l] PROVE k = l
   <2>1. \A i \in 2 .. q + 1 : B[i] # b /\ B[i] # c BY <1>8, <1>14, <1>16
   <2>2. CASE k \in 2 .. q + 1 /\ l \in 2 .. q + 1
      <3>1. Puntero(x, k - 1) = Puntero(x, l - 1) BY <2>2, <1>14, <1>19
      <3>2. k - 1 = l - 1 BY <2>2, <3>1, <1>10, <1>14 DEF Tanda
      <3> QED BY <3>2
   <2> QED BY <1>13, <1>15, <1>18, <1>19, <2>1, <2>2
<1>20. Ocupados(x) = Ocupados(m) \cup {a \in NumerosDeBloque : \E k \in 1 .. q + 2 : a = B[k]}
   <2>1. Ocupados(x) = Ocupados(v) \cup {a \in NumerosDeBloque : \E j \in 1 .. q : a = Puntero(x, j)}
      BY <1>10 DEF Tanda
   <2>2. ASSUME NEW a \in NumerosDeBloque
         PROVE  (\E k \in 1 .. q + 2 : a = B[k]) <=> (a \in {b, c} \/ \E j \in 1 .. q : a = Puntero(x, j))
      <3>1. ASSUME NEW k \in 1 .. q + 2, a = B[k]
            PROVE  a \in {b, c} \/ \E j \in 1 .. q : a = Puntero(x, j)
         BY <3>1, <1>13, <1>14, <1>15
      <3>2. ASSUME NEW j \in 1 .. q, a = Puntero(x, j) PROVE \E k \in 1 .. q + 2 : a = B[k]
         <4>1. j + 1 \in 2 .. q + 1 /\ j + 1 \in 1 .. q + 2 /\ (j + 1) - 1 = j BY <1>0
         <4> QED BY <3>2, <4>1, <1>14
      <3>3. 1 \in 1 .. q + 2 /\ q + 2 \in 1 .. q + 2 BY <1>0
      <3> QED BY <3>1, <3>2, <3>3, <1>13
   <2>3. b \in NumerosDeBloque /\ c \in NumerosDeBloque BY <1>3, <1>7
   <2> QED BY <1>8, <2>1, <2>2, <2>3
<1>21. ASSUME NEW a \in Ocupados(m), NEW o \in 0 .. Palabras - 1
       PROVE  x.bloques[a * Palabras + o] = m.bloques[a * Palabras + o]
   <2>1. a \in NumerosDeBloque /\ a # c BY <1>4, <1>7 DEF Ocupados
   <2>2. x.bloques[a * Palabras + o] = v.bloques[a * Palabras + o]
      BY <2>1, <1>5, <1>10 DEF Tanda
   <2> QED BY <2>2, <1>1, <1>5
<1>22. \A k \in 1 .. NBloques(n) : k \in 1 .. q + 2
                                   /\ B[k] = BloqueDe(n, x.directo, x.indirecto, x.bloques, k)
   BY <1>0, <1>12
<1>23. {a \in NumerosDeBloque : \E k \in 1 .. q + 2 : a = B[k]}
         = {a \in NumerosDeBloque : \E k \in 1 .. NBloques(n) :
              a = BloqueDe(n, x.directo, x.indirecto, x.bloques, k)}
   BY <1>0, <1>22
<1>24. /\ \A k \in 1 .. NBloques(n) :
             BloqueDe(n, x.directo, x.indirecto, x.bloques, k) \in NumerosDeBloque \ Ocupados(m)
       /\ \A k, l \in 1 .. NBloques(n) :
             BloqueDe(n, x.directo, x.indirecto, x.bloques, k)
                = BloqueDe(n, x.directo, x.indirecto, x.bloques, l) => k = l
   BY <1>17, <1>19, <1>22
<1> QED BY <1>11, <1>20, <1>21, <1>23, <1>24 DEF CrecidoBien

\* truncarArchivo gives an empty file blocks nobody has, and marks them.
LEMMA CreceBien ==
    ASSUME NEW m, EsModelo(m), Cuadra(m), m.tam = 0,
           NEW n \in Nat, 0 < n, n < tam_max_archivo,
           NuevaCantidad(n) <= m.libres, n <= Palabras \/ m.libres > NuevaCantidad(n),
           NEW heap, NEW x, x = truncar(m, n, heap)
    PROVE  CrecidoBien(x, m, n)
<1>0. m.libres \in Int BY DEF EsModelo, DispBien
<1>1. PICK q : q = n \div Palabras OBVIOUS
<1>2. q \in Int /\ q >= 0 /\ NuevaCantidad(n) = q + 1
   <2>1. q \in Int BY <1>1, Dividir
   <2>2. 0 = 0 * Palabras + 0 /\ 0 \in 0 .. Palabras - 1 BY Medidas
   <2>3. 0 \div Palabras = 0 BY <2>2, Cociente
   <2>4. 0 <= q BY <1>1, <2>3, DivMonotona
   <2> QED BY <1>1, <2>1, <2>4 DEF NuevaCantidad
<1>3. CantidadActual(0) = 1
   <2>1. 0 = 0 * Palabras + 0 /\ 0 \in 0 .. Palabras - 1 BY Medidas
   <2>2. 0 \div Palabras = 0 BY <2>1, Cociente
   <2> QED BY <2>2 DEF CantidadActual
<1>4. PICK c : c = NuevaCantidad(n) - CantidadActual(0) OBVIOUS
<1>5. c = q BY <1>2, <1>3, <1>4
<1>6. x = truncarMasBloques(m, c, n) BY <1>4 DEF truncar
<1>7. CASE n <= Palabras
   <2>1. x = AsignaDirecto(m) BY <1>6, <1>7 DEF truncarMasBloques
   <2>2. m.libres > 0 BY <1>0, <1>2
   <2> QED BY <1>7, <2>1, <2>2, CreceUnBloque
<1>8. CASE ~(n <= Palabras)
   <2>1. n > Palabras BY <1>8, Medidas
   <2>2. q = EnLista(n) /\ m.libres >= q + 2 BY <1>0, <1>1, <1>2, <1>8, <2>1 DEF EnLista
   <2>3. PICK u : u = AsignaDirecto(m) OBVIOUS
   <2>4. PICK v : v = AsignaIndirecto(u) OBVIOUS
   <2>5. x = AsignaPunteros(v, 0, q)
      BY <1>5, <1>6, <1>8, <2>3, <2>4, Medidas DEF truncarMasBloques
   <2> QED BY <2>1, <2>2, <2>3, <2>4, <2>5, CreceConLista
<1> QED BY <1>7, <1>8

-----------------------------------------------------------------------------
(* A write that stays in the blocks of the file.                           *)

\* A write that stays in its block changes its words and no other.
LEMMA EscribeEnUnBloque ==
    ASSUME NEW m, EsModelo(m), NEW b \in NumerosDeBloque, NEW de \in Nat,
           NEW s, EsTexto(s), de + Len(s) <= Palabras,
           NEW x, x = escribirEnBloqueDeDatos(m, s, b * Palabras + de)
    PROVE  /\ EsModelo(x) /\ MismoFCB(x, m) /\ MismoBitmap(x, m)
           /\ \A o \in 0 .. Palabras - 1 :
                 x.bloques[b * Palabras + o] = IF de <= o /\ o < de + Len(s) THEN s[o - de + 1]
                                               ELSE m.bloques[b * Palabras + o]
           /\ \A a \in NumerosDeBloque : a # b => \A o \in 0 .. Palabras - 1 :
                 x.bloques[a * Palabras + o] = m.bloques[a * Palabras + o]
<1>1. PICK l \in Nat : l = Len(s) BY DEF EsTexto
<1>2. b \in Int /\ b * Palabras \in Nat
   BY Medidas, EnPosiciones DEF NumerosDeBloque
<1>3. PICK q \in Nat : q = b * Palabras BY <1>2
<1>4. q + de \in Int /\ q + de >= 0 OBVIOUS
<1>5. x = escribirEnBloqueDeDatos(m, s, q + de) BY <1>3
<1>6. /\ EsModelo(x) /\ MismoFCB(x, m) /\ MismoBitmap(x, m)
      /\ Puesto(m.bloques, x.bloques, s, q + de)
   BY <1>4, <1>5, AlEscribirDatos
<1>7. \A p \in Posiciones :
         x.bloques[p] = IF p \in q + de .. q + de + l - 1 THEN s[p - (q + de) + 1] ELSE m.bloques[p]
   BY <1>1, <1>6 DEF Puesto
<1>8. ASSUME NEW o \in 0 .. Palabras - 1
      PROVE  x.bloques[q + o] = IF de <= o /\ o < de + l THEN s[o - de + 1] ELSE m.bloques[q + o]
   <2>1. q + o \in Posiciones BY <1>3, EnPosiciones
   <2>2. o \in Int BY Medidas
   <2>3. q + o \in q + de .. q + de + l - 1 <=> de <= o /\ o < de + l BY <2>2
   <2>4. q + o - (q + de) + 1 = o - de + 1 BY <2>2
   <2>5. x.bloques[q + o] = IF q + o \in q + de .. q + de + l - 1
                            THEN s[q + o - (q + de) + 1] ELSE m.bloques[q + o]
      BY <1>7, <2>1
   <2> QED BY <2>3, <2>4, <2>5
<1>9. ASSUME NEW a \in NumerosDeBloque, a # b, NEW o \in 0 .. Palabras - 1
      PROVE  x.bloques[a * Palabras + o] = m.bloques[a * Palabras + o]
   <2>1. a \in Int /\ a * Palabras \in Nat BY Medidas, EnPosiciones DEF NumerosDeBloque
   <2>2. PICK p \in Int : p = a * Palabras + o BY <2>1, Medidas
   <2>3. p \in Posiciones BY <2>2, EnPosiciones
   <2>4. ASSUME p \in q + de .. q + de + l - 1 PROVE FALSE
      <3>1. PICK r : r = p - q OBVIOUS
      <3>2. r \in 0 .. Palabras - 1 /\ p = q + r BY <1>1, <2>2, <2>4, <3>1, Medidas
      <3>3. a * Palabras + o = b * Palabras + r BY <1>3, <2>2, <3>2
      <3> QED BY <1>2, <1>9, <2>1, <3>2, <3>3, PosicionUnica
   <2>5. x.bloques[p] = m.bloques[p] BY <1>7, <2>3, <2>4
   <2> QED BY <2>2, <2>5
<1> QED BY <1>1, <1>3, <1>6, <1>8, <1>9

\* the first i blocks of the list have their part of s, and no other changed
Lleno(y, m, lista, s, i) ==
    /\ EsModelo(y) /\ MismoFCB(y, m) /\ MismoBitmap(y, m)
    /\ \A j \in 1 .. i, o \in 0 .. Palabras - 1 :
          y.bloques[lista[j] * Palabras + o] =
             IF (j - 1) * Palabras + o < Len(s) THEN s[(j - 1) * Palabras + o + 1]
             ELSE m.bloques[lista[j] * Palabras + o]
    /\ \A b \in NumerosDeBloque : (\A j \in 1 .. i : b # lista[j]) => \A o \in 0 .. Palabras - 1 :
          y.bloques[b * Palabras + o] = m.bloques[b * Palabras + o]

\* One more turn: one more block of the list has its part of the text.
LEMMA UnTrozoMas ==
    ASSUME NEW m, NEW s \in Seq(Int), NEW lista, NEW n \in Nat, n = Trozos(Len(s)), n <= Palabras,
           \A j \in 1 .. n : lista[j] \in NumerosDeBloque,
           \A j, k \in 1 .. n : lista[j] = lista[k] => j = k,
           NEW i \in 1 .. n, NEW y, Lleno(y, m, lista, s, i - 1),
           NEW x, x = escribirEnBloqueDeDatos(y, Trozo(s, i), InicioDe(lista, i))
    PROVE  Lleno(x, m, lista, s, i)
<1>1. PICK t : t = Trozo(s, i) OBVIOUS
<1>2. i \in 1 .. Trozos(Len(s)) OBVIOUS
<1>3. /\ EsTexto(t) /\ Len(t) <= Palabras
      /\ \A o \in 0 .. Palabras - 1 : o < Len(t) <=> (i - 1) * Palabras + o < Len(s)
      /\ \A o \in 0 .. Palabras - 1 : o < Len(t) => t[o + 1] = s[(i - 1) * Palabras + o + 1]
   BY <1>1, <1>2, AlTrozo
<1>4. PICK b \in NumerosDeBloque : b = lista[i] OBVIOUS
<1>5. InicioDe(lista, i) = b * Palabras + 0
   <2>1. i <= Palabras BY Medidas
   <2>2. b * Palabras \in Int BY EnPosiciones, Medidas DEF NumerosDeBloque
   <2>3. InicioDe(lista, i) = b * Palabras BY <1>4, <2>1 DEF InicioDe
   <2> QED BY <2>2, <2>3
<1>6. x = escribirEnBloqueDeDatos(y, t, b * Palabras + 0) BY <1>1, <1>5
<1>7. EsModelo(y) /\ MismoFCB(y, m) /\ MismoBitmap(y, m) BY DEF Lleno
<1>8. PICK l \in Nat : l = Len(t) BY <1>3 DEF EsTexto
<1>9. 0 + Len(t) <= Palabras /\ 0 \in Nat BY <1>3, <1>8
<1>10. /\ EsModelo(x) /\ MismoFCB(x, y) /\ MismoBitmap(x, y)
       /\ \A o \in 0 .. Palabras - 1 :
             x.bloques[b * Palabras + o] = IF 0 <= o /\ o < 0 + Len(t) THEN t[o - 0 + 1]
                                           ELSE y.bloques[b * Palabras + o]
       /\ \A a \in NumerosDeBloque : a # b => \A o \in 0 .. Palabras - 1 :
             x.bloques[a * Palabras + o] = y.bloques[a * Palabras + o]
   BY <1>3, <1>6, <1>7, <1>9, EscribeEnUnBloque
<1>11. MismoFCB(x, m) /\ MismoBitmap(x, m) BY <1>7, <1>10 DEF MismoFCB, MismoBitmap
<1>12. \A j \in 1 .. i - 1 : j \in 1 .. n /\ lista[j] # b BY <1>4
<1>13. ASSUME NEW o \in 0 .. Palabras - 1
       PROVE  x.bloques[b * Palabras + o] =
                 IF (i - 1) * Palabras + o < Len(s) THEN s[(i - 1) * Palabras + o + 1]
                 ELSE m.bloques[b * Palabras + o]
   <2>1. y.bloques[b * Palabras + o] = m.bloques[b * Palabras + o]
      BY <1>12 DEF Lleno
   <2>2. o \in Int /\ 0 <= o BY Medidas
   <2>3. x.bloques[b * Palabras + o] = IF 0 <= o /\ o < 0 + Len(t) THEN t[o - 0 + 1]
                                       ELSE y.bloques[b * Palabras + o]
      BY <1>10
   <2>4. x.bloques[b * Palabras + o] = IF o < l THEN t[o + 1] ELSE m.bloques[b * Palabras + o]
      BY <1>8, <2>1, <2>2, <2>3
   <2>5. /\ o < l <=> (i - 1) * Palabras + o < Len(s)
         /\ o < l => t[o + 1] = s[(i - 1) * Palabras + o + 1]
      BY <1>3, <1>8
   <2> QED BY <2>4, <2>5
<1>14. ASSUME NEW j \in 1 .. i, NEW o \in 0 .. Palabras - 1
       PROVE  x.bloques[lista[j] * Palabras + o] =
                 IF (j - 1) * Palabras + o < Len(s) THEN s[(j - 1) * Palabras + o + 1]
                 ELSE m.bloques[lista[j] * Palabras + o]
   <2>1. CASE j = i BY <2>1, <1>4, <1>13
   <2>2. CASE j \in 1 .. i - 1
      <3>1. x.bloques[lista[j] * Palabras + o] = y.bloques[lista[j] * Palabras + o]
         BY <2>2, <1>10, <1>12
      <3>2. y.bloques[lista[j] * Palabras + o] =
               IF (j - 1) * Palabras + o < Len(s) THEN s[(j - 1) * Palabras + o + 1]
               ELSE m.bloques[lista[j] * Palabras + o]
         BY <2>2 DEF Lleno
      <3> QED BY <3>1, <3>2
   <2>3. j = i \/ j \in 1 .. i - 1 OBVIOUS
   <2> QED BY <2>1, <2>2, <2>3
<1>15. ASSUME NEW a \in NumerosDeBloque, \A j \in 1 .. i : a # lista[j], NEW o \in 0 .. Palabras - 1
       PROVE  x.bloques[a * Palabras + o] = m.bloques[a * Palabras + o]
   <2>1. a # b BY <1>4, <1>15
   <2>2. \A j \in 1 .. i - 1 : a # lista[j] BY <1>15
   <2>3. y.bloques[a * Palabras + o] = m.bloques[a * Palabras + o] BY <2>2 DEF Lleno
   <2> QED BY <1>10, <2>1, <2>3
<1> QED BY <1>10, <1>11, <1>14, <1>15 DEF Lleno

\* The loop of the writes leaves the text in the blocks of the list.
LEMMA EscribeLista ==
    ASSUME NEW m, EsModelo(m), NEW s \in Seq(Int), NEW lista,
           NEW n \in Nat, n = Trozos(Len(s)), n <= Palabras,
           \A j \in 1 .. n : lista[j] \in NumerosDeBloque,
           \A j, k \in 1 .. n : lista[j] = lista[k] => j = k,
           NEW z, z = EscribeTrozos(m, lista, s)
    PROVE  Lleno(z, m, lista, s, n)
<1>1. PICK x : /\ x[0] = m
               /\ \A i \in 1 .. n :
                     x[i] = escribirEnBloqueDeDatos(x[i - 1], Trozo(s, i), InicioDe(lista, i))
               /\ x[n] = z
   <2>1. Trozos(Len(s)) \in Nat OBVIOUS
   <2>2. HayEscrituras(m, lista, s) BY <2>1, BucleDeEscrituras
   <2> QED BY <2>2 DEF HayEscrituras
<1> DEFINE S == {i \in 0 .. n : Lleno(x[i], m, lista, s, i)}
<1>2. 0 \in S
   <2>1. Lleno(m, m, lista, s, 0) BY DEF Lleno, MismoFCB, MismoBitmap
   <2> QED BY <1>1, <2>1
<1>3. ASSUME NEW i \in 1 .. n, i - 1 \in S PROVE i \in S
   <2>1. Lleno(x[i - 1], m, lista, s, i - 1) BY <1>3
   <2>2. x[i] = escribirEnBloqueDeDatos(x[i - 1], Trozo(s, i), InicioDe(lista, i)) BY <1>1
   <2>3. Lleno(x[i], m, lista, s, i) BY <2>1, <2>2, UnTrozoMas
   <2> QED BY <2>3
<1>4. 0 .. n \subseteq S
   <2> HIDE DEF S
   <2> QED BY <1>2, <1>3, HastaN, Zenon
<1>5. n \in S BY <1>4
<1> QED BY <1>1, <1>5

\* the o-th word of block b, and the place in the file of the o-th word of its
\* j-th block
Palabra(x, b, o) == x.bloques[b * Palabras + o]
Orden(j, o) == (j - 1) * Palabras + o

\* The words of the first block are the first ones.
LEMMA OrdenDelPrimero == \A o \in 0 .. Palabras - 1 : Orden(1, o) = o
<1>1. 1 - 1 = 0 /\ 0 * Palabras = 0 BY Medidas
<1> QED BY <1>1, Medidas DEF Orden

\* Those of each block come after those of the block before.
LEMMA OrdenDeLosDemas ==
    ASSUME NEW j \in Int, j >= 2, NEW o \in 0 .. Palabras - 1
    PROVE  /\ Orden(j - 1, o) \in Nat /\ Orden(j, o) \in Nat
           /\ Orden(j, o) = Orden(j - 1, o) + Palabras
           /\ Orden(j - 1, o) >= (j - 2) * Palabras
<1>1. PICK v, w : v = (j - 1) * Palabras /\ w = (j - 2) * Palabras OBVIOUS
<1>2. w \in Int /\ v = w + Palabras BY <1>1, Medidas
<1>3. w >= 0
   <2>1. 0 * Palabras <= (j - 2) * Palabras BY Medidas, Producto
   <2>2. 0 * Palabras = 0 BY Medidas
   <2> QED BY <1>1, <2>1, <2>2
<1>4. (j - 1) - 1 = j - 2 OBVIOUS
<1>5. Orden(j, o) = v + o /\ Orden(j - 1, o) = w + o BY <1>1, <1>4 DEF Orden
<1> QED BY <1>1, <1>2, <1>3, <1>5, Medidas

\* A place in the file is an integer.
LEMMA OrdenEntero == ASSUME NEW j \in Int, NEW o \in 0 .. Palabras - 1 PROVE Orden(j, o) \in Int
<1>1. (j - 1) * Palabras \in Int BY Medidas
<1> QED BY <1>1, Medidas DEF Orden

\* s is in block b from its word de on, and no other word changed
EnElBloque(x, m, b, de, s) ==
    /\ EsModelo(x) /\ MismoFCB(x, m) /\ MismoBitmap(x, m)
    /\ \A o \in 0 .. Palabras - 1 :
          Palabra(x, b, o) = IF de <= o /\ o < de + Len(s) THEN s[o - de + 1] ELSE Palabra(m, b, o)
    /\ \A a \in NumerosDeBloque : a # b =>
          \A o \in 0 .. Palabras - 1 : Palabra(x, a, o) = Palabra(m, a, o)

\* A write that stays in its block, told by its words.
LEMMA EscribeEnElBloque ==
    ASSUME NEW m, EsModelo(m), NEW b \in NumerosDeBloque, NEW de \in Nat,
           NEW s, EsTexto(s), de + Len(s) <= Palabras,
           NEW x, x = escribirEnBloqueDeDatos(m, s, b * Palabras + de)
    PROVE  EnElBloque(x, m, b, de, s)
BY EscribeEnUnBloque DEF EnElBloque, Palabra

\* What the loop of the writes leaves, told by its words.
LEMMA LlenoPorPalabras ==
    ASSUME NEW y, NEW m, NEW lista, NEW s, NEW n, Lleno(y, m, lista, s, n)
    PROVE  /\ EsModelo(y) /\ MismoFCB(y, m) /\ MismoBitmap(y, m)
           /\ \A j \in 1 .. n, o \in 0 .. Palabras - 1 :
                 Palabra(y, lista[j], o) = IF Orden(j, o) < Len(s) THEN s[Orden(j, o) + 1]
                                           ELSE Palabra(m, lista[j], o)
           /\ \A b \in NumerosDeBloque : (\A j \in 1 .. n : b # lista[j]) =>
                 \A o \in 0 .. Palabras - 1 : Palabra(y, b, o) = Palabra(m, b, o)
BY DEF Lleno, Palabra, Orden

\* the k-th block of the file that m is about
BloqueDeM(m, k) == BloqueDe(m.tam, m.directo, m.indirecto, m.bloques, k)

\* s is in the blocks of the file from word p on, and no other word changed
EscritoBien(x, m, p, s) ==
    /\ EsModelo(x) /\ MismoFCB(x, m) /\ MismoBitmap(x, m)
    /\ \A j \in 1 .. NDatos(m.tam), o \in 0 .. Palabras - 1 :
          Palabra(x, BloqueDeM(m, j), o) =
             IF p <= Orden(j, o) /\ Orden(j, o) < p + Len(s) THEN s[Orden(j, o) - p + 1]
             ELSE Palabra(m, BloqueDeM(m, j), o)
    /\ \A b \in NumerosDeBloque : (\A j \in 1 .. NDatos(m.tam) : b # BloqueDeM(m, j)) =>
          \A o \in 0 .. Palabras - 1 : Palabra(x, b, o) = Palabra(m, b, o)

\* escribirArchivo on a file of one block.
LEMMA EscribeArchivoChico ==
    ASSUME NEW m, EsModelo(m), 0 < m.tam, m.tam <= Palabras, m.tam < tam_max_archivo,
           BloqueDeM(m, 1) \in NumerosDeBloque,
           NEW s \in Seq(Int), NEW p \in Nat, p + Len(s) <= Palabras,
           NEW x, x = escribir(m, p, s)
    PROVE  EscritoBien(x, m, p, s)
<1>1. PICK t \in Int : t = m.tam BY DEF EsModelo
<1>2. ~(m.tam > Palabras) BY Medidas DEF EsModelo
<1>3. PICK b \in NumerosDeBloque : b = m.directo BY DEF BloqueDeM, BloqueDe
<1>4. x = escribirEnBloqueDeDatos(m, s, b * Palabras + p) BY <1>2, <1>3 DEF escribir
<1>5. EsTexto(s) BY SecuenciaEsTexto
<1>6. EnElBloque(x, m, b, p, s) BY <1>4, <1>5, EscribeEnElBloque
<1>7. NDatos(t) = 1 BY <1>1, Cuentas
<1>8. \A j \in 1 .. NDatos(t) : j = 1 BY <1>7
<1>9. BloqueDeM(m, 1) = b BY <1>3 DEF BloqueDeM, BloqueDe
<1>10. ASSUME NEW j \in 1 .. NDatos(t), NEW o \in 0 .. Palabras - 1
      PROVE  Palabra(x, BloqueDeM(m, j), o) =
                IF p <= Orden(j, o) /\ Orden(j, o) < p + Len(s) THEN s[Orden(j, o) - p + 1]
                ELSE Palabra(m, BloqueDeM(m, j), o)
   <2>1. j = 1 BY <1>8
   <2>2. Orden(j, o) = o BY <2>1, OrdenDelPrimero
   <2>3. BloqueDeM(m, j) = b BY <2>1, <1>9
   <2>4. Palabra(x, b, o) = IF p <= o /\ o < p + Len(s) THEN s[o - p + 1] ELSE Palabra(m, b, o)
      BY <1>6 DEF EnElBloque
   <2> QED BY <2>2, <2>3, <2>4
<1>11. 1 \in 1 .. NDatos(t) BY <1>7
<1>12. \A a \in NumerosDeBloque : (\A j \in 1 .. NDatos(t) : a # BloqueDeM(m, j)) => a # b
   BY <1>9, <1>11
<1> QED BY <1>1, <1>6, <1>10, <1>12 DEF EscritoBien, EnElBloque

\* The words of a block that is read.
LEMMA LoLeido ==
    ASSUME NEW m, EsModelo(m), NEW pos \in Int, pos >= 0, NEW l, l = leerUnBloqueDeDatos(m, pos)
    PROVE  \A i \in 1 .. Palabras : pos + i - 1 \in Posiciones => l[i] = m.bloques[pos + i - 1]
BY AlLeido

\* The first words of a text.
LEMMA Comienzo ==
    ASSUME NEW s \in Seq(Int), NEW k \in Nat, k <= Len(s), NEW t, t = SubSeq(s, 1, k)
    PROVE  EsTexto(t) /\ Len(t) = k /\ \A i \in 1 .. k : t[i] = s[i]
<1>0. PICK a \in Int : a = 1 OBVIOUS
<1>1. EsParte(t, s, a, k)
   <2>1. k \in Int /\ 1 <= a /\ t = SubSeq(s, a, k) BY <1>0
   <2> QED BY <2>1, LaParte
<1>2. EsTexto(t) /\ Len(t) = k /\ \A i \in 1 .. Len(t) : t[i] = s[a + i - 1]
   BY <1>0, <1>1 DEF EsParte
<1>3. \A i \in 1 .. k : a + i - 1 = i BY <1>0
<1> QED BY <1>2, <1>3

\* The last words of a text.
LEMMA Final ==
    ASSUME NEW s \in Seq(Int), NEW l, l = Len(s), NEW k \in Nat, k <= l,
           NEW t, t = SubSeq(s, k + 1, l)
    PROVE  t \in Seq(Int) /\ Len(t) = l - k /\ \A i \in 1 .. l - k : t[i] = s[k + i]
<1>1. PICK a \in Int : a = k + 1 OBVIOUS
<1>2. l \in Int /\ 1 <= a /\ l <= Len(s) BY <1>1
<1>3. EsParte(t, s, a, l) BY <1>1, <1>2, LaParte
<1>4. t \in Seq(Int) /\ Len(t) = (IF a <= l THEN l - a + 1 ELSE 0)
      /\ \A i \in 1 .. Len(t) : t[i] = s[a + i - 1]
   BY <1>3 DEF EsParte
<1>5. Len(t) = l - k BY <1>1, <1>2, <1>4
<1>6. \A i \in 1 .. l - k : a + i - 1 = k + i BY <1>1, <1>2
<1> QED BY <1>4, <1>5, <1>6

\* escribirArchivo on a file with a block of pointers, from its first block on.
LEMMA EscribeArchivoGrande ==
    ASSUME NEW m, EsModelo(m), m.tam > Palabras, m.tam < tam_max_archivo,
           \A k \in 1 .. NBloques(m.tam) : BloqueDeM(m, k) \in NumerosDeBloque,
           \A k, l \in 1 .. NBloques(m.tam) : BloqueDeM(m, k) = BloqueDeM(m, l) => k = l,
           NEW s \in Seq(Int), NEW p \in Nat, p < Palabras, p + Len(s) <= m.tam,
           NEW x, x = escribir(m, p, s)
    PROVE  EscritoBien(x, m, p, s)
<1>1. PICK t \in Int : t = m.tam BY DEF EsModelo
<1>2. PICK q : q = EnLista(t) OBVIOUS
<1>3. q \in 1 .. Palabras /\ q = t \div Palabras /\ NDatos(t) = q + 1 /\ NBloques(t) = q + 2
   BY <1>1, <1>2, Cuentas
<1>4. PICK b, c : b = m.directo /\ c = m.indirecto OBVIOUS
<1>5. 1 \in 1 .. NBloques(t) /\ q + 2 \in 1 .. NBloques(t) /\ 1 # q + 2 BY <1>3
<1>6. BloqueDeM(m, 1) = b /\ BloqueDeM(m, q + 2) = c
   BY <1>1, <1>2, <1>4, <1>5 DEF BloqueDeM, BloqueDe
<1>7. b \in NumerosDeBloque /\ c \in NumerosDeBloque /\ b # c BY <1>1, <1>5, <1>6
<1>8. \A j \in 2 .. q + 1 : /\ j \in 1 .. NBloques(t) /\ j # 1 /\ j # q + 2
                            /\ BloqueDeM(m, j) = m.bloques[c * Palabras + (j - 2)]
   BY <1>1, <1>2, <1>3, <1>4 DEF BloqueDeM, BloqueDe
<1>9. \A j \in 2 .. q + 1 : BloqueDeM(m, j) \in NumerosDeBloque /\ BloqueDeM(m, j) # b
                            /\ BloqueDeM(m, j) # c
   BY <1>1, <1>5, <1>6, <1>8
<1>10. \A j \in 1 .. NDatos(t) : j = 1 \/ j \in 2 .. q + 1 BY <1>3
<1>11. PICK l \in Nat : l = Len(s) OBVIOUS
<1>12. PICK k : k = ParteDirecta(p, s) OBVIOUS
<1>13. /\ k \in Nat /\ k <= l
       /\ IF p + l < Palabras THEN k = l ELSE k = Palabras - p
   BY <1>11, <1>12, AlPartir
<1>14. PICK ini, r : ini = SubSeq(s, 1, k) /\ r = SubSeq(s, k + 1, l) OBVIOUS
<1>15. EsTexto(ini) /\ Len(ini) = k /\ \A i \in 1 .. k : ini[i] = s[i]
   BY <1>11, <1>13, <1>14, Comienzo
<1>16. r \in Seq(Int) /\ Len(r) = l - k /\ \A i \in 1 .. l - k : r[i] = s[k + i]
   BY <1>11, <1>13, <1>14, Final
<1>17. PICK y : y = escribirEnBloqueDeDatos(m, ini, b * Palabras + p) OBVIOUS
<1>18. p + Len(ini) <= Palabras BY <1>11, <1>13, <1>15, Medidas
<1>19. EnElBloque(y, m, b, p, ini)
   BY <1>7, <1>15, <1>17, <1>18, EscribeEnElBloque
<1>20. x = IF k = l /\ p + k < Palabras THEN y ELSE escribirArchDesdePunteroIndirecto(y, r)
   <2>1. ~(m.tam <= Palabras) BY <1>1, Medidas
   <2>2. x = escribirArchDesdePunteroDirecto(m, p, s) BY <2>1 DEF escribir
   <2> QED BY <1>4, <1>11, <1>12, <1>14, <1>17, <2>2 DEF escribirArchDesdePunteroDirecto
\* the first block, after either part
<1>21. EsModelo(y) /\ MismoFCB(y, m) /\ MismoBitmap(y, m) BY <1>19 DEF EnElBloque
<1>22. \A a \in NumerosDeBloque : a # b =>
          \A o \in 0 .. Palabras - 1 : Palabra(y, a, o) = Palabra(m, a, o)
   BY <1>19 DEF EnElBloque
<1>23. ASSUME NEW o \in 0 .. Palabras - 1
       PROVE  Palabra(y, b, o) = IF p <= o /\ o < p + l THEN s[o - p + 1] ELSE Palabra(m, b, o)
   <2>1. o \in Int /\ 0 <= o /\ o <= Palabras - 1 BY Medidas
   <2>2. o < p + k <=> o < p + l BY <1>11, <1>13, <2>1, Medidas
   <2>3. p <= o /\ o < p + k => o - p + 1 \in 1 .. k BY <1>13, <2>1
   <2>4. Palabra(y, b, o) = IF p <= o /\ o < p + k THEN ini[o - p + 1] ELSE Palabra(m, b, o)
      BY <1>15, <1>19 DEF EnElBloque
   <2> QED BY <1>15, <2>2, <2>3, <2>4
<1>24. CASE k = l /\ p + k < Palabras
   <2>1. x = y BY <1>20, <1>24
   <2>2. ASSUME NEW j \in 1 .. NDatos(t), NEW o \in 0 .. Palabras - 1
         PROVE  Palabra(y, BloqueDeM(m, j), o) =
                   IF p <= Orden(j, o) /\ Orden(j, o) < p + l THEN s[Orden(j, o) - p + 1]
                   ELSE Palabra(m, BloqueDeM(m, j), o)
      <3>1. CASE j = 1
         <4>1. Orden(j, o) = o /\ BloqueDeM(m, j) = b BY <3>1, <1>6, OrdenDelPrimero
         <4> QED BY <4>1, <1>23
      <3>2. CASE j \in 2 .. q + 1
         <4>1. j \in Int /\ j >= 2 BY <3>2, <1>3
         <4>2. PICK v, w : v = Orden(j, o) /\ w = Orden(j - 1, o) OBVIOUS
         <4>3. w \in Nat /\ v = w + Palabras BY <4>1, <4>2, OrdenDeLosDemas
         <4>4. ~(v < p + l) BY <4>3, <1>11, <1>13, <1>24, Medidas
         <4>5. Palabra(y, BloqueDeM(m, j), o) = Palabra(m, BloqueDeM(m, j), o)
            BY <3>2, <1>9, <1>22
         <4> QED BY <4>2, <4>4, <4>5
      <3> QED BY <1>10, <3>1, <3>2
   <2>3. \A a \in NumerosDeBloque : (\A j \in 1 .. NDatos(t) : a # BloqueDeM(m, j)) => a # b
      <3>1. 1 \in 1 .. NDatos(t) BY <1>3
      <3> QED BY <3>1, <1>6
   <2> QED BY <1>1, <1>11, <1>21, <1>22, <2>1, <2>2, <2>3 DEF EscritoBien
<1>25. CASE ~(k = l /\ p + k < Palabras)
   <2>1. k = Palabras - p /\ ~(p + l < Palabras) BY <1>11, <1>13, <1>25, Medidas
   <2>2. PICK pos : pos = Palabras * y.indirecto OBVIOUS
   <2>3. PICK lista, leido : lista = leerUnBloqueDeDatos(y, pos) /\ leido = trasLeerUnBloque(y, pos)
      OBVIOUS
   <2>4. x = EscribeTrozos(leido, lista, r)
      BY <1>20, <1>25, <2>2, <2>3 DEF escribirArchDesdePunteroIndirecto, leerEnBloqueDePunteros
   <2>5. y.indirecto = c BY <1>4, <1>21 DEF MismoFCB
   <2>6. pos \in Nat /\ pos = c * Palabras
      <3>1. c * Palabras \in Nat
         <4>1. 0 \in 0 .. Palabras - 1 BY Medidas
         <4> QED BY <1>7, <4>1, EnPosiciones
      <3>2. c \in Int BY <1>7, Medidas DEF NumerosDeBloque
      <3>3. Palabras * c = c * Palabras BY <3>2, Medidas
      <3> QED BY <2>2, <2>5, <3>1, <3>3
   <2>8. EsModelo(leido) /\ MismoFCB(leido, y) /\ MismoBitmap(leido, y) /\ leido.bloques = y.bloques
      <3>1. pos \in Int BY <2>6
      <3> QED BY <1>21, <2>3, <3>1, AlLeerUnBloque
   <2>9. \A i \in 1 .. Palabras : pos + i - 1 \in Posiciones => lista[i] = y.bloques[pos + i - 1]
      <3>1. pos \in Int /\ pos >= 0 BY <2>6
      <3>2. EsModelo(y) /\ lista = leerUnBloqueDeDatos(y, pos) BY <1>21, <2>3
      <3> QED BY <3>1, <3>2, LoLeido
   <2>10. \A i \in 1 .. q : i + 1 \in 2 .. q + 1 /\ lista[i] = BloqueDeM(m, i + 1)
      <3> SUFFICES ASSUME NEW i \in 1 .. q
                   PROVE  i + 1 \in 2 .. q + 1 /\ lista[i] = BloqueDeM(m, i + 1)
         OBVIOUS
      <3>1. i \in 1 .. Palabras /\ i - 1 \in 0 .. Palabras - 1 /\ i + 1 \in 2 .. q + 1
            /\ (i + 1) - 2 = i - 1
         BY <1>3, Medidas
      <3>2. pos + (i - 1) \in Posiciones BY <1>7, <2>6, <3>1, EnPosiciones
      <3>3. pos + i - 1 = pos + (i - 1) BY <2>6, <3>1
      <3>4. lista[i] = y.bloques[pos + (i - 1)] BY <2>9, <3>1, <3>2, <3>3
      <3>5. Palabra(y, c, i - 1) = Palabra(m, c, i - 1) BY <1>7, <1>22, <3>1
      <3>6. BloqueDeM(m, i + 1) = Palabra(m, c, i - 1) BY <1>8, <3>1 DEF Palabra
      <3>7. lista[i] = Palabra(y, c, i - 1) BY <2>6, <3>4 DEF Palabra
      <3> QED BY <3>1, <3>5, <3>6, <3>7
   <2>11. PICK L : L = Len(r) OBVIOUS
   <2>12. L \in Nat /\ L = l - k BY <1>11, <1>13, <1>16, <2>11
   <2>13. PICK n : n = Trozos(L) OBVIOUS
   <2>14. n \in Nat /\ (\A i \in 1 .. n : (i - 1) * Palabras < L)
          /\ \A i \in Int : (i - 1) * Palabras < L => i <= n
      BY <2>12, <2>13, AlTrozar
   <2>15. n <= q
      <3> SUFFICES ASSUME q + 1 <= n PROVE FALSE BY <1>3, <2>14
      <3>1. q + 1 \in 1 .. n /\ (q + 1) - 1 = q BY <1>3, <2>14
      <3>2. q * Palabras < L BY <2>14, <3>1
      <3>3. PICK u, w : u = t % Palabras /\ w = q * Palabras OBVIOUS
      <3>4. u \in 0 .. Palabras - 1 /\ t = w + u BY <1>1, <1>3, <3>3, Dividir, Zenon
      <3>5. q \in Int BY <1>3, Medidas
      <3>6. w \in Int BY <3>3, <3>5, Medidas
      <3>7. p + l <= t BY <1>1, <1>11
      <3>8. w < l - (Palabras - p) BY <2>1, <2>12, <3>2, <3>3
      <3> QED BY <3>4, <3>6, <3>7, <3>8, <1>11, Medidas
   <2>16. n <= Palabras /\ \A i \in 1 .. n : i \in 1 .. q BY <1>3, <2>14, <2>15, Medidas
   <2>17. \A i \in 1 .. n : lista[i] \in NumerosDeBloque /\ lista[i] # b
      BY <1>9, <2>10, <2>16
   <2>18. \A i, j \in 1 .. n : lista[i] = lista[j] => i = j
      <3> SUFFICES ASSUME NEW i \in 1 .. n, NEW j \in 1 .. n, lista[i] = lista[j] PROVE i = j
         OBVIOUS
      <3>1. i \in 1 .. q /\ j \in 1 .. q BY <2>16
      <3>2. BloqueDeM(m, i + 1) = BloqueDeM(m, j + 1) BY <2>10, <3>1
      <3>3. i + 1 \in 1 .. NBloques(t) /\ j + 1 \in 1 .. NBloques(t) BY <1>8, <2>10, <3>1
      <3>4. i + 1 = j + 1 BY <1>1, <3>2, <3>3
      <3> QED BY <3>4
   <2>19. Lleno(x, leido, lista, r, n)
      BY <1>16, <2>4, <2>8, <2>11, <2>13, <2>14, <2>16, <2>17, <2>18, EscribeLista
   <2>20. EsModelo(x) /\ MismoFCB(x, m) /\ MismoBitmap(x, m)
      BY <1>21, <2>8, <2>19 DEF Lleno, MismoFCB, MismoBitmap
   <2>21. \A a, o : Palabra(leido, a, o) = Palabra(y, a, o) BY <2>8 DEF Palabra
   <2>22. /\ \A j \in 1 .. n, o \in 0 .. Palabras - 1 :
                Palabra(x, lista[j], o) = IF Orden(j, o) < L THEN r[Orden(j, o) + 1]
                                          ELSE Palabra(y, lista[j], o)
          /\ \A a \in NumerosDeBloque : (\A j \in 1 .. n : a # lista[j]) =>
                \A o \in 0 .. Palabras - 1 : Palabra(x, a, o) = Palabra(y, a, o)
      BY <2>11, <2>19, <2>21, LlenoPorPalabras
   <2>23. ASSUME NEW j \in 1 .. NDatos(t), NEW o \in 0 .. Palabras - 1
          PROVE  Palabra(x, BloqueDeM(m, j), o) =
                   IF p <= Orden(j, o) /\ Orden(j, o) < p + l THEN s[Orden(j, o) - p + 1]
                   ELSE Palabra(m, BloqueDeM(m, j), o)
      <3>1. CASE j = 1
         <4>1. Palabra(x, b, o) = Palabra(y, b, o) BY <1>7, <2>17, <2>22
         <4>2. Orden(j, o) = o /\ BloqueDeM(m, j) = b BY <3>1, <1>6, OrdenDelPrimero
         <4> QED BY <4>1, <4>2, <1>23
      <3>2. CASE j \in 2 .. q + 1
         <4>0. j \in Int /\ j >= 2 BY <3>2, <1>3
         <4>1. PICK i, v, g : i = j - 1 /\ v = Orden(j, o) /\ g = Orden(j - 1, o) OBVIOUS
         <4>2. g \in Nat /\ v = g + Palabras /\ g >= (j - 2) * Palabras
            BY <4>0, <4>1, OrdenDeLosDemas
         <4>3. /\ v \in Int /\ p <= v /\ (v < p + l <=> g < L) /\ v - p + 1 = k + (g + 1)
            BY <1>11, <1>13, <2>1, <2>12, <4>2, Medidas
         <4>4. i \in 1 .. q /\ i + 1 = j /\ i - 1 = j - 2 BY <3>2, <1>3, <4>0, <4>1
         <4>5. PICK a \in NumerosDeBloque : a = BloqueDeM(m, j) BY <3>2, <1>9
         <4>6. Palabra(y, a, o) = Palabra(m, a, o) BY <3>2, <1>9, <1>22, <4>5
         <4>7. Palabra(x, a, o) = IF g < L THEN r[g + 1] ELSE Palabra(y, a, o)
            <5>1. CASE i \in 1 .. n
               <6>1. lista[i] = a BY <2>10, <4>4, <4>5
               <6>2. Orden(i, o) = g BY <4>1
               <6> QED BY <2>22, <5>1, <6>1, <6>2
            <5>2. CASE i \notin 1 .. n
               <6>1. ~(g < L)
                  <7>1. PICK h : h = (i - 1) * Palabras OBVIOUS
                  <7>2. h \in Int BY <4>4, <7>1, Medidas, <4>0, <4>1
                  <7>3. g >= h BY <4>2, <4>4, <7>1
                  <7>4. i \in Int /\ i >= 1 BY <4>0, <4>1
                  <7>5. ~(i <= n) BY <2>14, <5>2, <7>4
                  <7>6. ~(h < L) BY <2>14, <7>1, <7>4, <7>5
                  <7> QED BY <2>12, <4>2, <7>2, <7>3, <7>6
               <6>2. \A e \in 1 .. n : a # lista[e]
                  <7> SUFFICES ASSUME NEW e \in 1 .. n, a = lista[e] PROVE FALSE OBVIOUS
                  <7>1. e \in 1 .. q /\ BloqueDeM(m, e + 1) = BloqueDeM(m, j)
                     BY <2>10, <2>16, <4>5
                  <7>2. e + 1 \in 1 .. NBloques(t) /\ j \in 1 .. NBloques(t)
                     BY <1>8, <2>10, <3>2, <7>1
                  <7>3. e + 1 = j BY <1>1, <7>1, <7>2
                  <7>4. i = e BY <4>0, <4>1, <7>3
                  <7> QED BY <5>2, <7>4
               <6>3. Palabra(x, a, o) = Palabra(y, a, o) BY <2>22, <6>2
               <6> QED BY <6>1, <6>3
            <5> QED BY <5>1, <5>2
         <4>8. g < L => r[g + 1] = s[v - p + 1]
            <5> SUFFICES ASSUME g < L PROVE r[g + 1] = s[v - p + 1] OBVIOUS
            <5>1. PICK e : e = g + 1 OBVIOUS
            <5>2. e \in 1 .. l - k BY <2>12, <4>2, <5>1
            <5>3. r[e] = s[k + e] BY <1>16, <5>2
            <5>4. v - p + 1 = k + e BY <4>3, <5>1
            <5> QED BY <5>1, <5>3, <5>4
         <4>9. Palabra(x, a, o) = IF p <= v /\ v < p + l THEN s[v - p + 1] ELSE Palabra(m, a, o)
            <5>0. p <= v /\ (v < p + l <=> g < L) BY <4>3
            <5>1. CASE g < L
               <6>1. Palabra(x, a, o) = s[v - p + 1] BY <4>7, <4>8, <5>1
               <6> QED BY <5>0, <5>1, <6>1
            <5>2. CASE ~(g < L)
               <6>1. Palabra(x, a, o) = Palabra(m, a, o) BY <4>6, <4>7, <5>2
               <6> QED BY <5>0, <5>2, <6>1
            <5> QED BY <5>1, <5>2
         <4> QED BY <4>1, <4>5, <4>9
      <3> QED BY <1>10, <3>1, <3>2
   <2>24. ASSUME NEW a \in NumerosDeBloque, \A j \in 1 .. NDatos(t) : a # BloqueDeM(m, j),
                 NEW o \in 0 .. Palabras - 1
          PROVE  Palabra(x, a, o) = Palabra(m, a, o)
      <3>1. a # b
         <4>1. 1 \in 1 .. NDatos(t) BY <1>3
         <4> QED BY <1>6, <2>24, <4>1
      <3>2. \A i \in 1 .. n : a # lista[i]
         <4>1. \A i \in 1 .. q : i + 1 \in 1 .. NDatos(t) BY <1>3
         <4> QED BY <2>10, <2>16, <2>24, <4>1
      <3>3. Palabra(x, a, o) = Palabra(y, a, o) BY <2>22, <3>2
      <3> QED BY <1>22, <3>1, <3>3
   <2> QED BY <1>1, <1>11, <2>20, <2>23, <2>24 DEF EscritoBien
<1> QED BY <1>24, <1>25
=============================================================================
