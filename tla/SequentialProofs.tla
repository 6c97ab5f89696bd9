-------------------------- MODULE SequentialProofs --------------------------
(***************************************************************************)
(* The parts that compute with data and know of no threads.                *)
(*                                                                         *)
(* base64, the basic authentication handler and the paths of groups: what  *)
(* base64_encode makes of any bytes, base64_decode turns back into them;   *)
(* so the callback gets the credentials that a client sent                 *)
(* (CredentialsAreKept), and a push gateway the labels of a group          *)
(* (LabelsAreRecovered).  The callback is asked about whole tokens only    *)
(* (TokensAreWhole).                                                       *)
(*                                                                         *)
(* CKMSQuantiles: for any targets, sizes of the buffer and integer values, *)
(* the samples stand for all observations that left the buffer             *)
(* (SamplesStand), get is sound (GetIsSound) and, where no error is        *)
(* tolerated, exact (GetIsExact).                                          *)
(*                                                                         *)
(* TextSerializer: for any names, label values, numbers and sizes, a       *)
(* reader gets from the text the samples of the metrics and no other       *)
(* (TextReadsBack), and no series is written twice (SeriesAreOnce).        *)
(***************************************************************************)
EXTENDS LabelEncoder, BasicAuth, CKMSQuantiles, TextSerializer,
        SequenceTheorems, NaturalsInduction, WellFoundedInduction,
        FiniteSetTheorems, TLAPS

-----------------------------------------------------------------------------
\* The alphabet, and the arithmetic of bytes and sextets.

\* The characters of the alphabet: the decoder finds out the index of each.
LEMMA Alphabet ==
  ASSUME NEW i \in 0 .. 63
  PROVE  /\ EncodeLookup(i) \in Nat /\ IsEncoded(EncodeLookup(i))
         /\ Decoded(EncodeLookup(i)) = i
<1>1. CASE i < 26
  BY <1>1 DEF EncodeLookup, IsEncoded, Decoded
<1>2. CASE i \in 26 .. 51
  BY <1>2 DEF EncodeLookup, IsEncoded, Decoded
<1>3. CASE i \in 52 .. 61
  BY <1>3 DEF EncodeLookup, IsEncoded, Decoded
<1>4. CASE i = 62
  BY <1>4 DEF EncodeLookup, IsEncoded, Decoded
<1>5. CASE i = 63
  BY <1>5 DEF EncodeLookup, IsEncoded, Decoded
<1> QED BY <1>1, <1>2, <1>3, <1>4, <1>5

\* Padding is not of the alphabet.
LEMMA PadIsNoLetter == ~ IsEncoded(Pad)
BY DEF IsEncoded, Pad

\* A number whose low part is r: division drops r, the remainder is r.
LEMMA Divide64 ==
  ASSUME NEW q \in Int, NEW r \in Int, 0 <= r, r < 64
  PROVE  (q * 64 + r) \div 64 = q /\ (q * 64 + r) % 64 = r
  BY SMT

\* A number whose low part is r: division drops r, the remainder is r.
LEMMA Divide256 ==
  ASSUME NEW q \in Int, NEW r \in Int, 0 <= r, r < 256
  PROVE  (q * 256 + r) \div 256 = q /\ (q * 256 + r) % 256 = r
  BY SMT

\* A number whose low part is r, and its high part.
LEMMA Divide4096 ==
  ASSUME NEW q \in Int, NEW r \in Int, 0 <= r, r < 4096
  PROVE  (q * 4096 + r) \div 4096 = q
  BY SMT

\* A number whose low part is r, and its high part.
LEMMA Divide65536 ==
  ASSUME NEW q \in Int, NEW r \in Int, 0 <= r, r < 65536
  PROVE  (q * 65536 + r) \div 65536 = q
  BY SMT

\* A number whose low part is r, and its high part.
LEMMA Divide262144 ==
  ASSUME NEW q \in Int, NEW r \in Int, 0 <= r, r < 262144
  PROVE  (q * 262144 + r) \div 262144 = q
  BY SMT

\* Six bits and two are a byte.
LEMMA SixAndTwo ==
  ASSUME NEW a \in Byte
  PROVE  \E h \in 0 .. 63, l \in 0 .. 3 : a = h * 4 + l
<1>1. (a \div 4) \in 0 .. 63 /\ (a % 4) \in 0 .. 3 /\ a = (a \div 4) * 4 + (a % 4)
  BY SMT DEF Byte
<1> QED BY <1>1

\* Four bits and four are a byte.
LEMMA FourAndFour ==
  ASSUME NEW a \in Byte
  PROVE  \E h \in 0 .. 15, l \in 0 .. 15 : a = h * 16 + l
<1>1. (a \div 16) \in 0 .. 15 /\ (a % 16) \in 0 .. 15 /\ a = (a \div 16) * 16 + (a % 16)
  BY SMT DEF Byte
<1> QED BY <1>1

\* Two bits and six are a byte.
LEMMA TwoAndSix ==
  ASSUME NEW a \in Byte
  PROVE  \E h \in 0 .. 3, l \in 0 .. 63 : a = h * 64 + l
<1>1. (a \div 64) \in 0 .. 3 /\ (a % 64) \in 0 .. 63 /\ a = (a \div 64) * 64 + (a % 64)
  BY SMT DEF Byte
<1> QED BY <1>1

\* Three bytes and the four sextets that temp is made of: no bit is lost, and the
\* sextets beyond the bytes there are, are 0.
LEMMA ThreeBytes ==
  ASSUME NEW a \in Byte, NEW b \in Byte, NEW c \in Byte
  PROVE  \E t, w, x, y, z :
         /\ t = OfBytes(a, b, c) /\ t = OfSextets(w, x, y, z)
         /\ Sextets(t) = <<w, x, y, z>> /\ Bytes(t) = <<a, b, c>>
         /\ w \in 0 .. 63 /\ x \in 0 .. 63 /\ y \in 0 .. 63 /\ z \in 0 .. 63
         /\ c = 0 => z = 0
         /\ b = 0 /\ c = 0 => y = 0
<1> PICK t : t = OfBytes(a, b, c)
  OBVIOUS
<1>1. PICK w \in 0 .. 63, a2 \in 0 .. 3 : a = w * 4 + a2
  BY SixAndTwo
<1>2. PICK b1 \in 0 .. 15, b2 \in 0 .. 15 : b = b1 * 16 + b2
  BY FourAndFour
<1>3. PICK c1 \in 0 .. 3, z \in 0 .. 63 : c = c1 * 64 + z
  BY TwoAndSix
<1>4. PICK x, y : x = a2 * 16 + b1 /\ y = b2 * 4 + c1
  OBVIOUS
<1>5. x \in 0 .. 63 /\ y \in 0 .. 63
  BY <1>4
<1>6. /\ t = w * 262144 + (x * 4096 + y * 64 + z)
      /\ t = (w * 64 + x) * 4096 + (y * 64 + z)
      /\ t = (w * 4096 + x * 64 + y) * 64 + z
      /\ t = (a * 256 + b) * 256 + c
      /\ t = a * 65536 + (b * 256 + c)
  BY <1>1, <1>2, <1>3, <1>4 DEF OfBytes, Byte
<1>7. t \div 262144 = w
  <2>1. PICK q, r : q = w /\ r = x * 4096 + y * 64 + z
    OBVIOUS
  <2>2. q \in Int /\ r \in Int /\ 0 <= r /\ r < 262144 /\ t = q * 262144 + r
    BY <1>5, <1>6, <2>1
  <2> QED BY <2>1, <2>2, Divide262144
<1>8. (t \div 4096) % 64 = x
  <2>1. PICK q, r : q = w * 64 + x /\ r = y * 64 + z
    OBVIOUS
  <2>2. q \in Int /\ r \in Int /\ 0 <= r /\ r < 4096 /\ t = q * 4096 + r
    BY <1>5, <1>6, <2>1
  <2>3. t \div 4096 = q
    BY <2>2, Divide4096
  <2>4. q % 64 = x
    BY <1>5, <2>1, Divide64
  <2> QED BY <2>3, <2>4
<1>9. (t \div 64) % 64 = y /\ t % 64 = z
  <2>1. PICK q, p : q = p * 64 + y /\ p = w * 64 + x
    OBVIOUS
  <2>2. q \in Int /\ p \in Int /\ t = q * 64 + z
    BY <1>5, <1>6, <2>1
  <2>3. t \div 64 = q /\ t % 64 = z
    BY <2>2, Divide64
  <2>4. q % 64 = y
    BY <1>5, <2>1, <2>2, Divide64
  <2> QED BY <2>3, <2>4
<1>10. t \div 65536 = a
  <2>1. PICK r : r = b * 256 + c
    OBVIOUS
  <2>2. a \in Int /\ r \in Int /\ 0 <= r /\ r < 65536 /\ t = a * 65536 + r
    BY <1>6, <2>1 DEF Byte
  <2> QED BY <2>2, Divide65536
<1>11. (t \div 256) % 256 = b /\ t % 256 = c
  <2>1. PICK q : q = a * 256 + b
    OBVIOUS
  <2>2. q \in Int /\ t = q * 256 + c /\ a \in Int /\ b \in 0 .. 255 /\ c \in 0 .. 255
    BY <1>6, <2>1 DEF Byte
  <2>3. t \div 256 = q /\ t % 256 = c
    BY <2>2, Divide256
  <2>4. q % 256 = b
    BY <2>1, <2>2, Divide256
  <2> QED BY <2>3, <2>4
<1>12. t = OfSextets(w, x, y, z)
  BY <1>5, <1>6 DEF OfSextets
<1>13. (c = 0 => z = 0) /\ (b = 0 /\ c = 0 => y = 0)
  BY <1>2, <1>3, <1>4
<1>14. Sextets(t) = <<w, x, y, z>>
  BY <1>7, <1>8, <1>9, SMT DEF Sextets
<1>15. Bytes(t) = <<a, b, c>>
  BY <1>10, <1>11, SMT DEF Bytes
<1> QED BY <1>5, <1>12, <1>13, <1>14, <1>15

-----------------------------------------------------------------------------
\* One group: three bytes are four characters.

\* k characters of the alphabet and then one that is not: k are significant.
LEMMA SignificantIs ==
  ASSUME NEW g, NEW k \in 0 .. 4, \A i \in 1 .. k : IsEncoded(g[i]),
         k < 4 => ~ IsEncoded(g[k + 1])
  PROVE  Significant(g) = k
<1> DEFINE stops == {i \in 1 .. 4 : ~ IsEncoded(g[i])}
<1>1. CASE k = 4
  BY <1>1 DEF Significant
<1>2. CASE k < 4
  <2>1. k + 1 \in stops /\ \A j \in stops : k + 1 <= j
    BY <1>2
  <2>2. \A i \in stops : (\A j \in stops : i <= j) => i = k + 1
    <3> HIDE DEF stops
    <3>1. stops \subseteq Int
      BY DEF stops
    <3> QED BY <2>1, <3>1
  <2>3. (CHOOSE i \in stops : \A j \in stops : i <= j) = k + 1
    <3> HIDE DEF stops
    <3> QED BY <2>1, <2>2, Zenon
  <2>4. Significant(g) = IF stops = {} THEN 4
                         ELSE (CHOOSE i \in stops : \A j \in stops : i <= j) - 1
    BY Zenon DEF Significant
  <2> QED
    <3>1. stops # {}
      BY <2>1
    <3> HIDE DEF stops
    <3>2. Significant(g) = (k + 1) - 1
      BY <2>3, <2>4, <3>1, Zenon
    <3> QED BY <3>2
<1> QED BY <1>1, <1>2

\* Significant counts the characters before the first that is not of the alphabet.
LEMMA SignificantCounts ==
  ASSUME NEW g
  PROVE  /\ Significant(g) \in 0 .. 4
         /\ \A i \in 1 .. Significant(g) : IsEncoded(g[i])
         /\ Significant(g) < 4 => ~ IsEncoded(g[Significant(g) + 1])
<1>1. PICK k \in 0 .. 4 : (\A i \in 1 .. k : IsEncoded(g[i])) /\ (k < 4 => ~ IsEncoded(g[k + 1]))
  <2>1. CASE ~ IsEncoded(g[1])
    <3> WITNESS 0 \in 0 .. 4
    <3> QED BY <2>1
  <2>2. CASE IsEncoded(g[1]) /\ ~ IsEncoded(g[2])
    <3> WITNESS 1 \in 0 .. 4
    <3> QED BY <2>2
  <2>3. CASE IsEncoded(g[1]) /\ IsEncoded(g[2]) /\ ~ IsEncoded(g[3])
    <3> WITNESS 2 \in 0 .. 4
    <3>1. \A i \in 1 .. 2 : i = 1 \/ i = 2
      OBVIOUS
    <3> QED BY <2>3, <3>1
  <2>4. CASE IsEncoded(g[1]) /\ IsEncoded(g[2]) /\ IsEncoded(g[3]) /\ ~ IsEncoded(g[4])
    <3> WITNESS 3 \in 0 .. 4
    <3>1. \A i \in 1 .. 3 : i = 1 \/ i = 2 \/ i = 3
      OBVIOUS
    <3> QED BY <2>4, <3>1
  <2>5. CASE IsEncoded(g[1]) /\ IsEncoded(g[2]) /\ IsEncoded(g[3]) /\ IsEncoded(g[4])
    <3> WITNESS 4 \in 0 .. 4
    <3>1. \A i \in 1 .. 4 : i = 1 \/ i = 2 \/ i = 3 \/ i = 4
      OBVIOUS
    <3> QED BY <2>5, <3>1
  <2> QED BY <2>1, <2>2, <2>3, <2>4, <2>5
<1>2. Significant(g) = k
  BY <1>1, SignificantIs
<1> QED BY <1>1, <1>2

\* Each group that is encoded is decoded to itself, and its padding is accepted
\* where it is the last one.
LEMMA GroupComesBack ==
  ASSUME NEW g \in Seq(Byte), Len(g) \in 1 .. 3
  PROVE  /\ EncodeGroup(g) \in [1 .. 4 -> Nat]
         /\ \A i \in 1 .. Len(g) + 1 : IsEncoded(EncodeGroup(g)[i])
         /\ \A i \in Len(g) + 2 .. 4 : EncodeGroup(g)[i] = Pad
         /\ Significant(EncodeGroup(g)) = Len(g) + 1
         /\ \A last : (Len(g) = 3 \/ last) => ~ Invalid(EncodeGroup(g), last)
         /\ \A i \in 1 .. Len(g) : DecodeGroup(EncodeGroup(g))[i] = g[i]
<1>0. PICK n : n = Len(g)
  OBVIOUS
<1>16. n \in 1 .. 3
  BY <1>0
<1> DEFINE byte(i) == IF i <= n THEN g[i] ELSE 0
<1>1. PICK a, b, c : a = byte(1) /\ b = byte(2) /\ c = byte(3)
  OBVIOUS
<1>2. \A i \in 1 .. n : g[i] \in Byte
  BY <1>0, ElementOfSeq
<1>3. /\ a \in Byte /\ b \in Byte /\ c \in Byte
      /\ n < 3 => c = 0
      /\ n < 2 => b = 0
      /\ a = g[1] /\ (n > 1 => b = g[2]) /\ (n > 2 => c = g[3])
  <2>1. 0 \in Byte
    BY DEF Byte
  <2> QED BY <1>16, <1>1, <1>2, <2>1
<1>4. PICK t, w, x, y, z :
         /\ t = OfBytes(a, b, c) /\ t = OfSextets(w, x, y, z)
         /\ Sextets(t) = <<w, x, y, z>> /\ Bytes(t) = <<a, b, c>>
         /\ w \in 0 .. 63 /\ x \in 0 .. 63 /\ y \in 0 .. 63 /\ z \in 0 .. 63
         /\ c = 0 => z = 0
         /\ b = 0 /\ c = 0 => y = 0
  <2>1. a \in Byte /\ b \in Byte /\ c \in Byte
    BY <1>3
  <2> QED BY <2>1, ThreeBytes
<1>5. PICK s : s = <<w, x, y, z>>
  OBVIOUS
<1>6. \A i \in 1 .. 4 : s[i] \in 0 .. 63
  <2>1. s[1] = w /\ s[2] = x /\ s[3] = y /\ s[4] = z
    BY <1>5
  <2>2. \A i \in 1 .. 4 : i = 1 \/ i = 2 \/ i = 3 \/ i = 4
    OBVIOUS
  <2> QED BY <1>4, <2>1, <2>2
<1>7. PICK e : e = EncodeGroup(g)
  OBVIOUS
<1>8. e = [i \in 1 .. 4 |-> IF i <= n + 1 THEN EncodeLookup(s[i]) ELSE Pad]
  <2>1. e = [i \in 1 .. 4 |->
              IF i <= n + 1
                THEN EncodeLookup(Sextets(OfBytes(byte(1), byte(2), byte(3)))[i]) ELSE Pad]
    BY <1>0, <1>7, Zenon DEF EncodeGroup
  <2>2. Sextets(OfBytes(byte(1), byte(2), byte(3))) = s
    BY <1>1, <1>4, <1>5
  <2> HIDE DEF byte
  <2> QED BY <2>1, <2>2, Zenon
<1>9. \A i \in 1 .. 4 : e[i] = IF i <= n + 1 THEN EncodeLookup(s[i]) ELSE Pad
  BY <1>8
<1>10. \A i \in 1 .. n + 1 : IsEncoded(e[i]) /\ Decoded(e[i]) = s[i] /\ e[i] \in Nat
  <2> TAKE i \in 1 .. n + 1
  <2>1. e[i] = EncodeLookup(s[i]) /\ s[i] \in 0 .. 63
    <3>1. i \in 1 .. 4 /\ i <= n + 1
      BY <1>16
    <3> QED BY <1>6, <1>9, <3>1
  <2> QED BY <2>1, Alphabet
<1>11. \A i \in n + 2 .. 4 : e[i] = Pad
  BY <1>16, <1>9
<1>12. e \in [1 .. 4 -> Nat]
  <2>1. Pad \in Nat
    BY DEF Pad
  <2>2. \A i \in 1 .. 4 : e[i] \in Nat
    BY <1>16, <1>10, <1>11, <2>1
  <2> QED BY <1>8, <2>2
<1>13. Significant(e) = n + 1
  <2>1. n + 1 < 4 => ~ IsEncoded(e[(n + 1) + 1])
    BY <1>16, <1>11, PadIsNoLetter
  <2>2. n + 1 \in 0 .. 4
    BY <1>16
  <2> QED BY <1>10, <2>1, <2>2, SignificantIs
<1>14. \A last : (n = 3 \/ last) => ~ Invalid(e, last)
  <2>1. n + 1 < 4 => e[(n + 1) + 1] = Pad
    BY <1>16, <1>11
  <2>2. PICK k : k = n + 1 /\ k = Significant(e)
    BY <1>13
  <2>3. k >= 2 /\ (n = 3 => ~ (k < 4))
    BY <1>16, <2>2
  <2> QED BY <2>1, <2>2, <2>3 DEF Invalid
<1>15. \A i \in 1 .. n : DecodeGroup(e)[i] = g[i]
  <2> DEFINE value(i) == IF i <= Significant(e) THEN Decoded(e[i]) ELSE 0
  <2>1. DecodeGroup(e) = Bytes(OfSextets(value(1), value(2), value(3), value(4)))
    BY Zenon DEF DecodeGroup
  <2>2. value(1) = w /\ value(2) = x /\ value(3) = y /\ value(4) = z
    <3>1. s[1] = w /\ s[2] = x /\ s[3] = y /\ s[4] = z
      BY <1>5
    <3>2. value(1) = w /\ value(2) = x
      BY <1>16, <1>10, <1>13, <3>1
    <3>3. value(3) = y
      BY <1>16, <1>3, <1>4, <1>10, <1>13, <3>1
    <3>4. value(4) = z
      BY <1>16, <1>3, <1>4, <1>10, <1>13, <3>1
    <3> QED BY <3>2, <3>3, <3>4
  <2> HIDE DEF value
  <2>3. DecodeGroup(e) = <<a, b, c>>
    BY <1>4, <2>1, <2>2
  <2>4. \A i \in 1 .. n : i = 1 \/ (i = 2 /\ n > 1) \/ (i = 3 /\ n > 2)
    BY <1>16
  <2>5. <<a, b, c>>[1] = a /\ <<a, b, c>>[2] = b /\ <<a, b, c>>[3] = c
    OBVIOUS
  <2> QED BY <1>3, <2>3, <2>4, <2>5
<1> QED BY <1>0, <1>7, <1>10, <1>11, <1>12, <1>13, <1>14, <1>15

-----------------------------------------------------------------------------
\* Sequences and their groups.

\* A function on 1 .. n is a sequence of length n.
LEMMA FunctionIsSeq ==
  ASSUME NEW S, NEW n \in Nat, NEW f \in [1 .. n -> S]
  PROVE  f \in Seq(S) /\ Len(f) = n
<1>1. f \in Seq(S)
  BY SeqDef
<1>2. Len(f) \in Nat /\ 1 .. Len(f) = 1 .. n
  BY <1>1, LenProperties
<1> QED BY <1>1, <1>2

\* The q-th group begins n * (q - 1) elements into the sequence.
LEMMA Places ==
  ASSUME NEW n \in {3, 4}, NEW q \in Nat \ {0}, NEW p \in 1 .. n
  PROVE  GroupOf(n * (q - 1) + p, n) = q /\ PlaceOf(n * (q - 1) + p, n) = p
<1>1. CASE n = 3
  BY <1>1 DEF GroupOf, PlaceOf
<1>2. CASE n = 4
  BY <1>2 DEF GroupOf, PlaceOf
<1> QED BY <1>1, <1>2

\* Every index is a place in a group.
LEMMA PlaceOfIndex ==
  ASSUME NEW n \in {3, 4}, NEW i \in Nat \ {0}
  PROVE  /\ GroupOf(i, n) \in Nat \ {0} /\ PlaceOf(i, n) \in 1 .. n
         /\ i = n * (GroupOf(i, n) - 1) + PlaceOf(i, n)
<1>1. CASE n = 3
  BY <1>1 DEF GroupOf, PlaceOf
<1>2. CASE n = 4
  BY <1>2 DEF GroupOf, PlaceOf
<1> QED BY <1>1, <1>2

\* G are the m groups of s: all but the last have n elements, the last has what is left.
Grouped(S, s, n, G, m) ==
  /\ m \in Nat /\ Len(G) = m /\ DOMAIN G = 1 .. m
  /\ n * (m - 1) < Len(s) \/ m = 0
  /\ Len(s) <= n * m
  /\ \A q \in 1 .. m :
       /\ G[q] \in Seq(S)
       /\ Len(G[q]) = IF q = m THEN Len(s) - n * (m - 1) ELSE n
       /\ Len(G[q]) \in 1 .. n
       /\ \A p \in 1 .. Len(G[q]) : G[q][p] = s[n * (q - 1) + p]

\* The groups of a sequence.
LEMMA GroupsOf ==
  ASSUME NEW S, NEW s \in Seq(S), NEW n \in {3, 4}
  PROVE  \E m : Grouped(S, s, n, Groups(s, n), m)
<1>1. PICK k : k = Len(s)
  OBVIOUS
<1>2. k \in Nat /\ \A i \in 1 .. k : s[i] \in S
  BY <1>1, LenProperties, ElementOfSeq
<1>3. PICK m : m = (k + n - 1) \div n
  OBVIOUS
<1>4. m \in Nat /\ (n * (m - 1) < k \/ m = 0) /\ k <= n * m
  <2>1. CASE n = 3
    BY <1>2, <1>3, <2>1
  <2>2. CASE n = 4
    BY <1>2, <1>3, <2>2
  <2> QED BY <2>1, <2>2
<1>5. PICK G : G = Groups(s, n)
  OBVIOUS
<1>6. G = [i \in 1 .. m |-> SubSeq(s, n * (i - 1) + 1, IF n * i < k THEN n * i ELSE k)]
  BY <1>1, <1>3, <1>5 DEF Groups
<1>7. DOMAIN G = 1 .. m
  BY <1>6
<1>8. ASSUME NEW q \in 1 .. m
      PROVE  /\ G[q] \in Seq(S)
             /\ Len(G[q]) = IF q = m THEN k - n * (m - 1) ELSE n
             /\ Len(G[q]) \in 1 .. n
             /\ \A p \in 1 .. Len(G[q]) : G[q][p] = s[n * (q - 1) + p]
  <2>1. PICK a, b : a = n * (q - 1) + 1 /\ b = IF n * q < k THEN n * q ELSE k
    OBVIOUS
  <2>2. G[q] = SubSeq(s, a, b)
    BY <1>6, <2>1
  <2>3. /\ a \in 1 .. k /\ b \in a .. k
        /\ b - a + 1 = IF q = m THEN k - n * (m - 1) ELSE n
        /\ b - a + 1 \in 1 .. n
    <3>1. CASE n = 3
      BY <1>2, <1>4, <2>1, <3>1
    <3>2. CASE n = 4
      BY <1>2, <1>4, <2>1, <3>2
    <3> QED BY <3>1, <3>2
  <2>4. a \in Int /\ b \in Int /\ a <= b /\ \A i \in a .. b : s[i] \in S
    BY <1>2, <2>3
  <2>5. /\ SubSeq(s, a, b) \in Seq(S) /\ Len(SubSeq(s, a, b)) = b - a + 1
        /\ \A p \in 1 .. b - a + 1 : SubSeq(s, a, b)[p] = s[a + p - 1]
    BY <2>4, SubSeqProperties
  <2>6. \A p \in 1 .. b - a + 1 : a + p - 1 = n * (q - 1) + p
    <3>1. n * (q - 1) \in Int
      BY <2>1, <2>4
    <3> QED BY <2>1, <2>4, <3>1
  <2> QED BY <2>2, <2>3, <2>5, <2>6
<1>9. Len(G) = m
  <2>1. G \in [1 .. m -> Seq(S)]
    BY <1>6, <1>8
  <2> QED BY <1>4, <2>1, FunctionIsSeq
<1>10. Grouped(S, s, n, G, m)
  BY <1>1, <1>4, <1>7, <1>8, <1>9 DEF Grouped
<1> QED BY <1>5, <1>10

-----------------------------------------------------------------------------
\* The whole input comes back.

\* e has the four characters of each of the m groups G.
Written(e, G, m) ==
  /\ e \in Seq(Nat) /\ Len(e) = 4 * m
  /\ \A q \in 1 .. m, p \in 1 .. 4 : e[4 * (q - 1) + p] = EncodeGroup(G[q])[p]

\* base64_encode: four characters for every group of three bytes.
LEMMA Encoded ==
  ASSUME NEW s \in Seq(Byte), NEW G, G = Groups(s, 3), NEW m, Grouped(Byte, s, 3, G, m)
  PROVE  Written(base64_encode(s), G, m)
<1>0. m \in Nat /\ Len(G) = m /\ \A q \in 1 .. m : G[q] \in Seq(Byte) /\ Len(G[q]) \in 1 .. 3
  BY DEF Grouped
<1>1. PICK e : e = base64_encode(s)
  OBVIOUS
<1>2. e = [i \in 1 .. 4 * m |-> EncodeGroup(G[GroupOf(i, 4)])[PlaceOf(i, 4)]]
  BY <1>0, <1>1, Zenon DEF base64_encode
<1>3. ASSUME NEW q \in 1 .. m, NEW p \in 1 .. 4
      PROVE  /\ e[4 * (q - 1) + p] = EncodeGroup(G[q])[p]
  <2>1. PICK i : i = 4 * (q - 1) + p
    OBVIOUS
  <2>2. i \in 1 .. 4 * m
    BY <1>0, <2>1
  <2>3. GroupOf(i, 4) = q /\ PlaceOf(i, 4) = p
    <3>1. 4 \in {3, 4} /\ q \in Nat \ {0}
      OBVIOUS
    <3> QED BY <2>1, <3>1, Places, Zenon
  <2> QED BY <1>2, <2>1, <2>2, <2>3
<1>4. \A i \in 1 .. 4 * m : e[i] \in Nat
  <2> TAKE i \in 1 .. 4 * m
  <2>1. PICK q, p : q = GroupOf(i, 4) /\ p = PlaceOf(i, 4)
    OBVIOUS
  <2>2. q \in Nat \ {0} /\ p \in 1 .. 4 /\ i = 4 * (q - 1) + p
    <3>1. 4 \in {3, 4} /\ i \in Nat \ {0}
      OBVIOUS
    <3> QED BY <2>1, <3>1, PlaceOfIndex, Zenon
  <2>3. q \in 1 .. m
    BY <1>0, <2>2
  <2>4. EncodeGroup(G[q]) \in [1 .. 4 -> Nat]
    BY <1>0, <2>3, GroupComesBack
  <2> QED BY <1>2, <2>1, <2>2, <2>4
<1>5. e \in [1 .. 4 * m -> Nat] /\ 4 * m \in Nat
  BY <1>0, <1>2, <1>4
<1>6. e \in Seq(Nat) /\ Len(e) = 4 * m
  BY <1>5, FunctionIsSeq
<1> QED BY <1>1, <1>3, <1>6 DEF Written

\* The decoder reads the groups that were written.
LEMMA SameGroups ==
  ASSUME NEW s \in Seq(Byte), NEW G, G = Groups(s, 3), NEW m, Grouped(Byte, s, 3, G, m)
  PROVE  LET h == Groups(base64_encode(s), 4) IN
           /\ Len(h) = m /\ DOMAIN h = 1 .. m
           /\ \A q \in 1 .. m : h[q] = EncodeGroup(G[q])
<1>0. m \in Nat /\ \A q \in 1 .. m : G[q] \in Seq(Byte) /\ Len(G[q]) \in 1 .. 3
  BY DEF Grouped
<1>1. PICK e, h : e = base64_encode(s) /\ h = Groups(e, 4)
  OBVIOUS
<1>2. /\ e \in Seq(Nat) /\ Len(e) = 4 * m
      /\ \A q \in 1 .. m, p \in 1 .. 4 : e[4 * (q - 1) + p] = EncodeGroup(G[q])[p]
  <2>1. Written(e, G, m)
    BY <1>1, Encoded
  <2> QED BY <2>1 DEF Written
<1>3. PICK n : Grouped(Nat, e, 4, h, n)
  <2>1. 4 \in {3, 4}
    OBVIOUS
  <2> QED BY <1>1, <1>2, <2>1, GroupsOf, Zenon
<1>4. PICK k : k = Len(e)
  OBVIOUS
<1>5. n = m
  <2>1. k = 4 * m /\ (4 * (n - 1) < k \/ n = 0) /\ k <= 4 * n /\ n \in Nat
    BY <1>2, <1>3, <1>4 DEF Grouped
  <2> QED BY <1>0, <2>1
<1>6. ASSUME NEW q \in 1 .. m PROVE h[q] = EncodeGroup(G[q])
  <2>1. PICK g, x : g = h[q] /\ x = EncodeGroup(G[q])
    OBVIOUS
  <2>2. /\ g \in Seq(Nat) /\ Len(g) = IF q = n THEN k - 4 * (n - 1) ELSE 4
        /\ \A p \in 1 .. Len(g) : g[p] = e[4 * (q - 1) + p]
    BY <1>3, <1>4, <1>5, <2>1 DEF Grouped
  <2>3. Len(g) = 4
    <3>1. k = 4 * m
      BY <1>2, <1>4
    <3> QED BY <1>0, <1>5, <2>2, <3>1
  <2>4. \A p \in 1 .. 4 : g[p] = x[p]
    BY <1>2, <2>1, <2>2, <2>3
  <2>5. x \in [1 .. 4 -> Nat]
    BY <1>0, <2>1, GroupComesBack
  <2>6. g \in [1 .. 4 -> Nat]
    BY <2>2, <2>3, LenProperties
  <2>7. g = [p \in 1 .. 4 |-> g[p]] /\ x = [p \in 1 .. 4 |-> x[p]]
    BY <2>5, <2>6
  <2>8. [p \in 1 .. 4 |-> g[p]] = [p \in 1 .. 4 |-> x[p]]
    BY <2>4
  <2> QED BY <2>1, <2>7, <2>8
<1>7. Len(h) = m /\ DOMAIN h = 1 .. m
  BY <1>3, <1>5 DEF Grouped
<1> QED BY <1>1, <1>6, <1>7

\* base64_decode: what was encoded is accepted and decoded, whatever its bytes are.
THEOREM DecodesWhatWasEncoded ==
  ASSUME NEW s \in Seq(Byte)
  PROVE  ~ DecodeThrows(base64_encode(s)) /\ base64_decode(base64_encode(s)) = s
<1>1. PICK k, G : k = Len(s) /\ G = Groups(s, 3)
  OBVIOUS
<1>8. PICK m : Grouped(Byte, s, 3, G, m)
  <2>1. 3 \in {3, 4}
    OBVIOUS
  <2> QED BY <1>1, <2>1, GroupsOf, Zenon
<1>2. /\ m \in Nat
      /\ 3 * (m - 1) < k \/ m = 0
      /\ k <= 3 * m
      /\ \A q \in 1 .. m :
           /\ G[q] \in Seq(Byte)
           /\ Len(G[q]) = IF q = m THEN k - 3 * (m - 1) ELSE 3
           /\ Len(G[q]) \in 1 .. 3
           /\ \A p \in 1 .. Len(G[q]) : G[q][p] = s[3 * (q - 1) + p]
  BY <1>1, <1>8 DEF Grouped
<1>3. PICK e, h : e = base64_encode(s) /\ h = Groups(e, 4)
  OBVIOUS
<1>4. Len(h) = m /\ DOMAIN h = 1 .. m /\ \A q \in 1 .. m : h[q] = EncodeGroup(G[q])
  BY <1>1, <1>3, <1>8, SameGroups
<1>5. Len(e) = 4 * m
  BY <1>1, <1>3, <1>8, Encoded DEF Written
<1>6. ~ DecodeThrows(e)
  <2>1. Len(e) % 4 = 0
    BY <1>2, <1>5
  <2>2. ASSUME NEW q \in 1 .. m PROVE ~ Invalid(h[q], q = m)
    <3>1. Len(G[q]) = 3 \/ q = m
      BY <1>2
    <3>2. \A last : (Len(G[q]) = 3 \/ last) => ~ Invalid(EncodeGroup(G[q]), last)
      BY <1>2, GroupComesBack
    <3>3. ~ Invalid(EncodeGroup(G[q]), q = m)
      BY <3>1, <3>2, Zenon
    <3> QED BY <1>4, <3>3
  <2> QED BY <1>3, <1>4, <2>1, <2>2, Zenon DEF DecodeThrows
<1>7. base64_decode(e) = s
  <2>1. PICK length : length = IF m = 0 THEN 0 ELSE 3 * (m - 1) + Significant(h[m]) - 1
    OBVIOUS
  <2>2. base64_decode(e) =
          [i \in 1 .. length |-> DecodeGroup(h[GroupOf(i, 3)])[PlaceOf(i, 3)]]
    BY <1>3, <1>4, <2>1 DEF base64_decode
  <2>3. k \in Nat
    BY <1>1, LenProperties
  <2>4. length = k
    <3>1. CASE m = 0
      BY <1>2, <2>1, <2>3, <3>1
    <3>2. CASE m # 0
      <4>1. m \in 1 .. m
        BY <1>2, <3>2
      <4>2. Significant(h[m]) = Len(G[m]) + 1
        BY <1>2, <1>4, <4>1, GroupComesBack
      <4>3. Len(G[m]) = k - 3 * (m - 1)
        BY <1>2, <4>1
      <4> QED BY <1>2, <2>1, <2>3, <3>2, <4>2, <4>3
    <3> QED BY <3>1, <3>2
  <2>5. ASSUME NEW i \in 1 .. k
        PROVE  DecodeGroup(h[GroupOf(i, 3)])[PlaceOf(i, 3)] = s[i]
    <3>1. PICK q, p : q = GroupOf(i, 3) /\ p = PlaceOf(i, 3)
      OBVIOUS
    <3>2. q \in Nat \ {0} /\ p \in 1 .. 3 /\ i = 3 * (q - 1) + p
      <4>1. 3 \in {3, 4} /\ i \in Nat \ {0}
        BY <2>3
      <4> QED BY <3>1, <4>1, PlaceOfIndex, Zenon
    <3>3. q \in 1 .. m
      BY <1>2, <2>3, <3>2
    <3>4. PICK g : g = G[q]
      OBVIOUS
    <3>5. g \in Seq(Byte) /\ Len(g) \in 1 .. 3 /\ (q # m => Len(g) = 3)
          /\ (q = m => Len(g) = k - 3 * (m - 1))
      BY <1>2, <3>3, <3>4
    <3>6. p \in 1 .. Len(g)
      <4>1. CASE q = m
        BY <2>3, <3>2, <3>5, <4>1
      <4>2. CASE q # m
        BY <3>2, <3>5, <4>2
      <4> QED BY <4>1, <4>2
    <3>7. DecodeGroup(h[q])[p] = g[p]
      BY <1>4, <3>3, <3>4, <3>5, <3>6, GroupComesBack
    <3>8. g[p] = s[i]
      BY <1>2, <3>2, <3>3, <3>4, <3>6
    <3> QED BY <3>1, <3>7, <3>8
  <2>6. s = [i \in 1 .. k |-> s[i]]
    BY <1>1, LenProperties
  <2> QED BY <2>2, <2>4, <2>5, <2>6
<1> QED BY <1>3, <1>6, <1>7

-----------------------------------------------------------------------------
\* The user and the password.

\* z is s followed by r, of m and n elements.
Joined(S, z, s, r, m, n) ==
  /\ z \in Seq(S) /\ Len(z) = m + n
  /\ \A i \in 1 .. m : z[i] = s[i]
  /\ \A i \in 1 .. n : z[m + i] = r[i]

\* What concatenation does, element by element.
LEMMA Joins ==
  ASSUME NEW S, NEW s \in Seq(S), NEW r \in Seq(S), NEW m, m = Len(s), NEW n, n = Len(r),
         NEW z, z = s \o r
  PROVE  Joined(S, z, s, r, m, n)
<1>1. m \in Nat /\ n \in Nat
  BY LenProperties
<1>2. z \in Seq(S) /\ Len(z) = m + n
      /\ \A i \in 1 .. m + n : z[i] = (IF i <= m THEN s[i] ELSE r[i - m])
  <2>1. /\ s \o r \in Seq(S)
        /\ Len(s \o r) = Len(s) + Len(r)
        /\ \A i \in 1 .. Len(s) + Len(r) : (s \o r)[i] =
                     IF i <= Len(s) THEN s[i] ELSE r[i - Len(s)]
    BY ConcatProperties, Zenon
  <2> QED BY <2>1, Zenon
<1>3. \A i \in 1 .. m : z[i] = s[i]
  BY <1>1, <1>2
<1>4. ASSUME NEW i \in 1 .. n PROVE z[m + i] = r[i]
  <2>1. m + i \in 1 .. m + n /\ ~ (m + i <= m) /\ (m + i) - m = i
    BY <1>1
  <2> QED BY <1>2, <2>1
<1> QED BY <1>2, <1>3, <1>4 DEF Joined

\* What SubSeq cuts out, if it is what stands there.
LEMMA CutsOut ==
  ASSUME NEW S, NEW s \in Seq(S), NEW x \in Seq(S), NEW m \in Nat, NEW l, NEW b
  PROVE  (l = Len(x) /\ b = m + l /\ b <= Len(s) /\ \A i \in 1 .. l : s[m + i] = x[i])
           => SubSeq(s, m + 1, b) = x
<1>0. SUFFICES ASSUME l = Len(x), b = m + l, b <= Len(s),
                      \A i \in 1 .. l : s[m + i] = x[i]
               PROVE  SubSeq(s, m + 1, b) = x
  BY Zenon
<1>1. PICK a, k : a = m + 1 /\ k = Len(s)
  OBVIOUS
<1>2. l \in Nat /\ k \in Nat /\ (\A i \in 1 .. k : s[i] \in S)
  BY <1>0, <1>1, LenProperties, ElementOfSeq
<1>10. b = m + l /\ b <= k
  BY <1>0, <1>1
<1>3. a \in Int /\ b \in Int /\ b - a + 1 = l /\ (a <= b <=> l > 0) /\ b <= k
      /\ \A i \in 1 .. l : a + i - 1 = m + i
  BY <1>1, <1>2, <1>10
<1>4. \A i \in a .. b : s[i] \in S
  BY <1>1, <1>2, <1>3
<1>6. PICK y : y = SubSeq(s, a, b)
  OBVIOUS
<1>7. y \in Seq(S) /\ Len(y) = (IF a <= b THEN b - a + 1 ELSE 0)
      /\ \A i \in 1 .. b - a + 1 : y[i] = s[a + i - 1]
  <2>1. a \in Int /\ b \in Int
    BY <1>3
  <2> QED BY <1>4, <1>6, <2>1, SubSeqProperties
<1>8. Len(y) = l /\ \A i \in 1 .. l : y[i] = x[i]
  <2>1. Len(y) = l
    BY <1>2, <1>3, <1>7
  <2>2. ASSUME NEW i \in 1 .. l PROVE y[i] = x[i]
    <3>1. y[i] = s[a + i - 1] /\ a + i - 1 = m + i
      BY <1>3, <1>7
    <3> QED BY <1>0, <3>1
  <2> QED BY <2>1, <2>2
<1>9. y = x
  BY <1>0, <1>7, <1>8, SeqEqual
<1> QED BY <1>1, <1>6, <1>9

\* d has a first colon, with u before it and w behind it.
Apart(d, u, w) ==
  /\ d \in Seq(Byte) /\ Colon \in ToSet(d)
  /\ SubSeq(d, 1, FirstColon(d) - 1) = u
  /\ SubSeq(d, FirstColon(d) + 1, Len(d)) = w

\* What a client encodes, user, colon and password, comes apart at the first colon.
LEMMA Split ==
  ASSUME NEW u \in Seq(Byte \ {Colon}), NEW w \in Seq(Byte),
         NEW d, d = (u \o <<Colon>>) \o w
  PROVE  Apart(d, u, w)
<1>1. PICK k, n : k = Len(u) /\ n = Len(w)
  OBVIOUS
<1>2. k \in Nat /\ n \in Nat /\ Colon \in Byte
  BY <1>1, LenProperties DEF Colon, Byte
<1>3. u \in Seq(Byte) /\ \A i \in 1 .. k : u[i] \in Byte \ {Colon}
  <2>1. Byte \ {Colon} \subseteq Byte
    OBVIOUS
  <2> QED BY <1>1, <2>1, SeqMonotonic, ElementOfSeq
<1>4. PICK c : c = <<Colon>>
  OBVIOUS
<1>5. c \in Seq(Byte) /\ Len(c) = 1 /\ c[1] = Colon
  BY <1>2, <1>4
<1>6. PICK v : v = u \o c
  OBVIOUS
<1>7. v \in Seq(Byte) /\ Len(v) = k + 1 /\ (\A i \in 1 .. k : v[i] = u[i]) /\ v[k + 1] = Colon
  <2>1. u \in Seq(Byte) /\ 1 = Len(c)
    BY <1>3, <1>5
  <2>2. Joined(Byte, v, u, c, k, 1)
    BY <1>1, <1>5, <1>6, <2>1, Joins
  <2> QED BY <1>5, <2>2 DEF Joined
<1>8. d = v \o w
  BY <1>4, <1>6
<1>9. d \in Seq(Byte) /\ Len(d) = k + 1 + n
      /\ (\A i \in 1 .. k + 1 : d[i] = v[i]) /\ \A i \in 1 .. n : d[k + 1 + i] = w[i]
  <2>1. PICK l : l = k + 1
    OBVIOUS
  <2>2. Joined(Byte, d, v, w, l, n)
    BY <1>1, <1>7, <1>8, <2>1, Joins
  <2> QED BY <2>1, <2>2 DEF Joined
<1>10. /\ \A i \in 1 .. k : d[i] = u[i]
       /\ d[k + 1] = Colon
       /\ \A i \in 1 .. n : d[k + 1 + i] = w[i]
  BY <1>2, <1>7, <1>9
<1>11. DOMAIN d = 1 .. k + 1 + n /\ k + 1 \in DOMAIN d
  BY <1>2, <1>9, LenProperties
<1>12. Colon \in ToSet(d)
  BY <1>10, <1>11 DEF ToSet
<1>13. FirstColon(d) = k + 1
  <2> DEFINE First(i) == d[i] = Colon /\ \A j \in 1 .. i - 1 : d[j] # Colon
  <2>1. First(k + 1)
    <3>1. (k + 1) - 1 = k
      BY <1>2
    <3> QED BY <1>3, <1>10, <3>1
  <2>2. \A i \in DOMAIN d : First(i) => i = k + 1
    <3> TAKE i \in DOMAIN d
    <3> HAVE First(i)
    <3>1. i \in Nat /\ i >= 1
      BY <1>2, <1>11
    <3>2. CASE i < k + 1
      <4>1. i \in 1 .. k
        BY <1>2, <3>1, <3>2
      <4> QED BY <1>3, <1>10, <4>1
    <3>3. CASE i > k + 1
      <4>1. k + 1 \in 1 .. i - 1
        BY <1>2, <3>1, <3>3
      <4> QED BY <1>10, <4>1
    <3> QED BY <1>2, <3>1, <3>2, <3>3
  <2>3. FirstColon(d) = CHOOSE i \in DOMAIN d : First(i)
    BY Zenon DEF FirstColon
  <2> HIDE DEF First
  <2> QED BY <1>11, <2>1, <2>2, <2>3, Zenon
<1>14. SubSeq(d, 1, k) = u
  <2>1. 0 + 1 = 1 /\ k = 0 + k /\ k <= Len(d) /\ 0 \in Nat /\ \A i \in 1 .. k : 0 + i = i
    BY <1>2, <1>9
  <2>2. \A i \in 1 .. k : d[0 + i] = u[i]
    BY <1>10, <2>1
  <2>3. SubSeq(d, 0 + 1, k) = u
    BY <1>1, <1>3, <1>9, <2>1, <2>2, CutsOut
  <2> QED BY <2>1, <2>3
<1>15. SubSeq(d, k + 2, k + 1 + n) = w
  <2>1. PICK m, b : m = k + 1 /\ b = k + 1 + n
    OBVIOUS
  <2>2. m \in Nat /\ b = m + n /\ b <= Len(d) /\ m + 1 = k + 2
    BY <1>2, <1>9, <2>1
  <2>3. \A i \in 1 .. n : d[m + i] = w[i]
    BY <1>10, <2>1
  <2>4. SubSeq(d, m + 1, b) = w
    BY <1>1, <1>9, <2>2, <2>3, CutsOut
  <2> QED BY <2>1, <2>2, <2>4
<1>16. (k + 1) - 1 = k /\ (k + 1) + 1 = k + 2
  BY <1>2
<1> QED BY <1>1, <1>9, <1>12, <1>13, <1>14, <1>15, <1>16 DEF Apart

-----------------------------------------------------------------------------
\* What the handler keeps.

\* A set of natural numbers that is not empty has a least element.
LEMMA LeastNatural ==
  ASSUME NEW T \in SUBSET Nat, T # {}
  PROVE  \E x \in T : \A y \in T : x <= y
<1>1. PICK R : R = {p \in Nat \X Nat : p[1] < p[2]}
  OBVIOUS
<1>2. IsWellFoundedOn(R, Nat)
  BY <1>1, NatLessThanWellFounded DEF OpToRel
<1>3. PICK x \in T : \A y \in T : ~ <<y, x>> \in R
  BY <1>2, WFMin, Zenon
<1>4. \A y \in T : y \in Nat /\ x \in Nat /\ ~ (y < x)
  BY <1>1, <1>3
<1> QED
  BY <1>4

\* FirstColon is an index of s that has a colon.
LEMMA ColonFound ==
  ASSUME NEW s, NEW n \in Nat, DOMAIN s = 1 .. n, Colon \in ToSet(s)
  PROVE  FirstColon(s) \in 1 .. n
<1>1. PICK T : T = {i \in 1 .. n : s[i] = Colon}
  OBVIOUS
<1>2. T \subseteq Nat /\ T # {}
  BY <1>1 DEF ToSet
<1>3. PICK x \in T : \A y \in T : x <= y
  BY <1>2, LeastNatural
<1>4. x \in DOMAIN s /\ s[x] = Colon /\ \A j \in 1 .. x - 1 : s[j] # Colon
  BY <1>1, <1>3
<1>5. FirstColon(s) \in DOMAIN s
  BY <1>4, Zenon DEF FirstColon
<1> QED BY <1>5

-----------------------------------------------------------------------------
\* What the handler tells the callback: nothing, or the two parts of the decoded token.
LEMMA Authorized ==
  ASSUME NEW h, AuthorizeInner(h).called # Null
  PROVE  /\ h # Null /\ h.scheme = "Basic" /\ ~ DecodeThrows(h.token)
         /\ LET d == base64_decode(h.token) IN
              /\ Colon \in ToSet(d)
              /\ AuthorizeInner(h).called =
                   <<SubSeq(d, 1, FirstColon(d) - 1), SubSeq(d, FirstColon(d) + 1, Len(d))>>
<1>1. Refused.called = Null
  BY DEF Refused
<1> QED BY <1>1 DEF AuthorizeInner

\* A header is any token, or what a client made of a user and a password.
HeaderOK(h) ==
  /\ h \in [scheme : {"Basic", "Bearer"}, token : Seq(Nat),
            sent : {Null} \cup (Seq(Byte \ {Colon}) \X Seq(Byte))]
  /\ h.sent # Null =>
       /\ h.scheme = "Basic"
       /\ h.token = base64_encode(h.sent[1] \o <<Colon>> \o h.sent[2])

\* The answer is the one to the header there is.
AuthInv ==
  /\ header = Null \/ HeaderOK(header)
  /\ answer = AuthorizeInner(header)

\* base64_encode returns characters.
LEMMA EncodesToCharacters ==
  ASSUME NEW s \in Seq(Byte)
  PROVE  base64_encode(s) \in Seq(Nat)
<1>1. PICK G : G = Groups(s, 3)
  OBVIOUS
<1>2. PICK m : Grouped(Byte, s, 3, G, m)
  <2>1. 3 \in {3, 4}
    OBVIOUS
  <2> QED BY <1>1, <2>1, GroupsOf, Zenon
<1> QED BY <1>1, <1>2, Encoded DEF Written

\* The header of a client that follows the scheme.
LEMMA SentHeader ==
  ASSUME NEW u \in Seq(Byte \ {Colon}), NEW w \in Seq(Byte)
  PROVE  HeaderOK([scheme |-> "Basic", token |-> base64_encode(u \o <<Colon>> \o w),
                   sent |-> <<u, w>>])
<1>1. PICK d : d = u \o <<Colon>> \o w
  OBVIOUS
<1>2. d \in Seq(Byte)
  BY <1>1, Split DEF Apart
<1>3. base64_encode(d) \in Seq(Nat)
  BY <1>2, EncodesToCharacters
<1>4. <<u, w>>[1] = u /\ <<u, w>>[2] = w
  OBVIOUS
<1>5. PICK t : t = base64_encode(d)
  OBVIOUS
<1>6. PICK h : h = [scheme |-> "Basic", token |-> t, sent |-> <<u, w>>]
  OBVIOUS
<1>7. h \in [scheme : {"Basic", "Bearer"}, token : Seq(Nat),
             sent : {Null} \cup (Seq(Byte \ {Colon}) \X Seq(Byte))]
  BY <1>3, <1>5, <1>6
<1>8. h.scheme = "Basic" /\ h.token = t /\ h.sent[1] = u /\ h.sent[2] = w
  BY <1>4, <1>6
<1>9. HeaderOK(h)
  BY <1>1, <1>5, <1>7, <1>8 DEF HeaderOK
<1> QED BY <1>1, <1>5, <1>6, <1>9

\* The header and the answer to it change together, as AuthInv says.
LEMMA AuthInvariant == AuthSpec => []AuthInv
<1>1. AuthInit => AuthInv
  BY DEF AuthInit, AuthInv
<1>2. AuthInv /\ [AuthNext]_<<header, answer>> => AuthInv'
  <2> SUFFICES ASSUME AuthInv, [AuthNext]_<<header, answer>>
               PROVE  AuthInv'
    OBVIOUS
  <2> SUFFICES ASSUME header' # header \/ answer' # answer
               PROVE  \E h : HeaderOK(h) /\ Requests(h)
    BY DEF AuthInv, Requests
  <2>0. AuthNext
    OBVIOUS
  <2>1. CASE OtherScheme
    <3>1. PICK h : h = [scheme |-> "Bearer", token |-> <<>>, sent |-> Null]
      OBVIOUS
    <3>2. HeaderOK(h)
      BY <3>1, EmptySeq DEF HeaderOK
    <3> QED BY <2>1, <3>1, <3>2 DEF OtherScheme
  <2>2. CASE NewToken
    <3>1. PICK h : h = [scheme |-> "Basic", token |-> <<>>, sent |-> Null]
      OBVIOUS
    <3>2. HeaderOK(h)
      BY <3>1, EmptySeq DEF HeaderOK
    <3> QED BY <2>2, <3>1, <3>2 DEF NewToken
  <2>3. ASSUME NEW c \in Tokens, TokenGrows(c)
        PROVE  \E h : HeaderOK(h) /\ Requests(h)
    <3>1. PICK h : h = [header EXCEPT !.token = Append(@, c)]
      OBVIOUS
    <3>2. header # Null /\ header.sent = Null /\ Requests(h)
      BY <2>3, <3>1 DEF TokenGrows
    <3>3. header \in [scheme : {"Basic", "Bearer"}, token : Seq(Nat),
                      sent : {Null} \cup (Seq(Byte \ {Colon}) \X Seq(Byte))]
      BY <3>2 DEF AuthInv, HeaderOK
    <3>4. c \in Nat
      BY BytesAssumption
    <3>5. PICK t : t = Append(header.token, c)
      OBVIOUS
    <3>6. t \in Seq(Nat)
      BY <3>3, <3>4, <3>5, AppendProperties
    <3>7. HeaderOK(h)
      BY <3>1, <3>2, <3>3, <3>5, <3>6 DEF HeaderOK
    <3> QED BY <3>2, <3>7
  <2>4. ASSUME NEW u \in Seq(Byte \ {Colon}), NEW w \in Seq(Byte), Sends(u, w)
        PROVE  \E h : HeaderOK(h) /\ Requests(h)
    BY <2>4, SentHeader DEF Sends
  <2>5. ASSUME NEW b \in AuthBytes, UserGrows(b)
        PROVE  \E h : HeaderOK(h) /\ Requests(h)
    <3>1. b \in Byte \ {Colon}
      BY <2>5, BytesAssumption DEF UserGrows
    <3>2. <<>> \in Seq(Byte)
      BY EmptySeq
    <3>3. CASE header = Null
      <4>1. <<b>> \in Seq(Byte \ {Colon})
        BY <3>1
      <4>2. Sends(<<b>>, <<>>)
        BY <2>5, <3>3 DEF UserGrows
      <4> QED BY <2>4, <3>2, <4>1, <4>2
    <3>4. CASE header # Null
      <4>1. header.sent[1] \in Seq(Byte \ {Colon})
        BY <2>5, <3>4 DEF UserGrows, AuthInv, HeaderOK
      <4>2. Append(header.sent[1], b) \in Seq(Byte \ {Colon})
        BY <3>1, <4>1, AppendProperties
      <4>3. Sends(Append(header.sent[1], b), <<>>)
        BY <2>5, <3>4 DEF UserGrows
      <4> QED BY <2>4, <3>2, <4>2, <4>3
    <3> QED BY <3>3, <3>4
  <2>6. ASSUME NEW b \in AuthBytes, PasswordGrows(b)
        PROVE  \E h : HeaderOK(h) /\ Requests(h)
    <3>1. b \in Byte
      BY BytesAssumption
    <3>2. header.sent[1] \in Seq(Byte \ {Colon}) /\ header.sent[2] \in Seq(Byte)
      BY <2>6 DEF PasswordGrows, AuthInv, HeaderOK
    <3>3. Append(header.sent[2], b) \in Seq(Byte)
      BY <3>1, <3>2, AppendProperties
    <3>4. Sends(header.sent[1], Append(header.sent[2], b))
      BY <2>6 DEF PasswordGrows
    <3> QED BY <2>4, <3>2, <3>3, <3>4
  <2> QED BY <2>0, <2>1, <2>2, <2>3, <2>5, <2>6 DEF AuthNext
<1> QED BY <1>1, <1>2, PTL DEF AuthSpec

-----------------------------------------------------------------------------
\* AuthorizeInner, base64_encode and base64_decode: whatever bytes a client's user and
\* password are of, the callback gets these, split at the colon that parts them and
\* not at one of the password.
THEOREM CredentialsAreKept == AuthSpec => []CredentialsArrive
<1>1. AuthInv => CredentialsArrive
  <2> SUFFICES ASSUME AuthInv, header # Null, header.sent # Null
               PROVE  answer.called = header.sent
    BY DEF CredentialsArrive
  <2>1. PICK u \in Seq(Byte \ {Colon}), w \in Seq(Byte) : header.sent = <<u, w>>
    BY DEF AuthInv, HeaderOK
  <2>2. PICK d : d = u \o <<Colon>> \o w
    OBVIOUS
  <2>3. header.scheme = "Basic" /\ header.token = base64_encode(d)
    BY <2>1, <2>2 DEF AuthInv, HeaderOK
  <2>4. /\ d \in Seq(Byte) /\ Colon \in ToSet(d)
        /\ SubSeq(d, 1, FirstColon(d) - 1) = u
        /\ SubSeq(d, FirstColon(d) + 1, Len(d)) = w
    <3>1. Apart(d, u, w)
      BY <2>2, Split
    <3> QED BY <3>1 DEF Apart
  <2>5. ~ DecodeThrows(header.token) /\ base64_decode(header.token) = d
    BY <2>3, <2>4, DecodesWhatWasEncoded
  <2>6. AuthorizeInner(header).called = <<u, w>>
    BY <2>3, <2>4, <2>5 DEF AuthorizeInner
  <2> QED BY <2>1, <2>6 DEF AuthInv
<1> QED BY <1>1, AuthInvariant, PTL

-----------------------------------------------------------------------------
\* Which tokens are accepted.

\* t is the m groups G, and nothing else.
Whole(t, G, m) ==
  /\ m \in Nat /\ Len(t) = 4 * m /\ Len(G) = m /\ DOMAIN G = 1 .. m
  /\ \A q \in 1 .. m, p \in 1 .. 4 : G[q][p] = t[4 * (q - 1) + p]

\* The length of a token is a multiple of 4: it is m whole groups.
LEMMA WholeGroups ==
  ASSUME NEW t \in Seq(Nat), NEW G, NEW m, Grouped(Nat, t, 4, G, m)
  PROVE  Len(t) % 4 = 0 => Whole(t, G, m)
<1>0. SUFFICES ASSUME Len(t) % 4 = 0
      PROVE  Whole(t, G, m)
  OBVIOUS
<1>1. PICK k : k = Len(t)
  OBVIOUS
<1>2. k \in Nat /\ k % 4 = 0
  BY <1>0, <1>1, LenProperties
<1>3. m \in Nat /\ (4 * (m - 1) < k \/ m = 0) /\ k <= 4 * m
  BY <1>1 DEF Grouped
<1>4. k = 4 * m
  BY <1>2, <1>3
<1>6. /\ Len(G) = m /\ DOMAIN G = 1 .. m
      /\ \A q \in 1 .. m :
           /\ Len(G[q]) = IF q = m THEN k - 4 * (m - 1) ELSE 4
           /\ \A p \in 1 .. Len(G[q]) : G[q][p] = t[4 * (q - 1) + p]
  BY <1>1 DEF Grouped
<1>5. ASSUME NEW q \in 1 .. m, NEW p \in 1 .. 4 PROVE G[q][p] = t[4 * (q - 1) + p]
  <2>1. k - 4 * (m - 1) = 4
    BY <1>3, <1>4
  <2>2. Len(G[q]) = 4
    BY <1>6, <2>1
  <2>3. \A r \in 1 .. Len(G[q]) : G[q][r] = t[4 * (q - 1) + r]
    BY <1>6
  <2> QED BY <2>2, <2>3
<1> QED BY <1>1, <1>3, <1>4, <1>5, <1>6 DEF Whole

\* t is of m groups of four characters.  Of the q-th, K[q] count: those before the
\* padding, which only the last group has.
CountedIn(t, m, K) ==
  /\ m \in Nat /\ K \in [1 .. m -> 2 .. 4] /\ Len(t) = 4 * m
  /\ \A q \in 1 .. m :
       /\ \A p \in 1 .. K[q] : IsEncoded(t[4 * (q - 1) + p])
       /\ K[q] < 4 => q = m /\ t[4 * (q - 1) + K[q] + 1] = Pad

\* Of four characters there are three bytes, of three two and of two one.
BytesOf(m, K) == IF m = 0 THEN 0 ELSE 3 * (m - 1) + K[m] - 1

\* What base64_decode accepts and returns, group by group.
LEMMA Accepted ==
  ASSUME NEW t \in Seq(Nat), ~ DecodeThrows(t)
  PROVE  \E m, K : /\ CountedIn(t, m, K)
                   /\ DOMAIN base64_decode(t) = 1 .. BytesOf(m, K)
                   /\ Len(base64_decode(t)) = BytesOf(m, K)
<1>1. PICK G : G = Groups(t, 4)
  OBVIOUS
<1>2. PICK m : Grouped(Nat, t, 4, G, m)
  <2>1. 4 \in {3, 4}
    OBVIOUS
  <2> QED BY <1>1, <2>1, GroupsOf, Zenon
<1>3. Len(t) % 4 = 0 /\ \A q \in DOMAIN G : ~ Invalid(G[q], q = Len(G))
  BY <1>1 DEF DecodeThrows
<1>4. /\ m \in Nat /\ Len(t) = 4 * m /\ Len(G) = m /\ DOMAIN G = 1 .. m
      /\ \A q \in 1 .. m, p \in 1 .. 4 : G[q][p] = t[4 * (q - 1) + p]
  <2>1. Len(t) % 4 = 0
    BY <1>3
  <2>2. Whole(t, G, m)
    BY <1>2, <2>1, WholeGroups
  <2> QED BY <2>2 DEF Whole
<1>5. PICK K : K = [q \in 1 .. m |-> Significant(G[q])]
  OBVIOUS
<1>6. ASSUME NEW q \in 1 .. m
      PROVE  /\ K[q] \in 2 .. 4
             /\ \A p \in 1 .. K[q] : IsEncoded(t[4 * (q - 1) + p])
             /\ K[q] < 4 => q = m /\ t[4 * (q - 1) + K[q] + 1] = Pad
  <2>1. PICK k, g : k = K[q] /\ g = G[q]
    OBVIOUS
  <2>2. k = Significant(g) /\ k \in 0 .. 4 /\ \A i \in 1 .. k : IsEncoded(g[i])
    BY <1>5, <2>1, SignificantCounts
  <2>3. k < 4 => g[k + 1] = Pad /\ q = m /\ k >= 2
    <3>1. ~ Invalid(g, q = m)
      BY <1>3, <1>4, <2>1
    <3> QED BY <2>2, <3>1 DEF Invalid
  <2>4. \A p \in 1 .. 4 : g[p] = t[4 * (q - 1) + p]
    BY <1>4, <2>1
  <2>5. k \in 2 .. 4
    BY <2>2, <2>3
  <2>6. \A p \in 1 .. k : IsEncoded(t[4 * (q - 1) + p])
    <3>1. \A p \in 1 .. k : p \in 1 .. 4
      BY <2>5
    <3> QED BY <2>2, <2>4, <3>1
  <2>7. k < 4 => t[4 * (q - 1) + k + 1] = Pad
    <3>1. 4 * (q - 1) + k + 1 = 4 * (q - 1) + (k + 1) /\ (k < 4 => k + 1 \in 1 .. 4)
      BY <1>4, <2>5
    <3> QED BY <2>3, <2>4, <3>1
  <2> QED BY <2>1, <2>3, <2>5, <2>6, <2>7
<1>7. K \in [1 .. m -> 2 .. 4]
  BY <1>5, <1>6
<1>8. PICK d, l : d = base64_decode(t) /\ l = BytesOf(m, K)
  OBVIOUS
<1>9. l \in Nat
  <2>1. CASE m = 0
    BY <1>8, <2>1 DEF BytesOf
  <2>2. CASE m # 0
    <3>1. m \in 1 .. m
      BY <1>4, <2>2
    <3>2. K[m] \in 2 .. 4
      BY <1>6, <3>1
    <3>3. l = 3 * (m - 1) + K[m] - 1
      BY <1>8, <2>2 DEF BytesOf
    <3>4. PICK k : k = K[m]
      OBVIOUS
    <3>5. m \in Nat /\ m # 0 /\ k \in 2 .. 4 /\ l = 3 * (m - 1) + k - 1
      BY <1>4, <2>2, <3>2, <3>3, <3>4
    <3> QED BY <3>5
  <2> QED BY <2>1, <2>2
<1>10. d = [i \in 1 .. l |-> DecodeGroup(G[GroupOf(i, 3)])[PlaceOf(i, 3)]]
  <2>1. m # 0 => K[m] = Significant(G[m])
    BY <1>4, <1>5
  <2> QED BY <1>1, <1>4, <1>8, <2>1 DEF base64_decode, BytesOf
<1>11. DOMAIN d = 1 .. l
  BY <1>10
<1>12. Len(d) = l
  <2>1. PICK S : S = {d[i] : i \in 1 .. l}
    OBVIOUS
  <2>2. d \in [1 .. l -> S]
    BY <1>10, <2>1
  <2> QED BY <1>9, <2>2, FunctionIsSeq
<1>13. CountedIn(t, m, K)
  BY <1>4, <1>6, <1>7 DEF CountedIn
<1> QED BY <1>8, <1>11, <1>12, <1>13

\* The lengths of the parts before and behind the colon.
LEMMA PartLengths ==
  ASSUME NEW d, NEW n \in Nat, DOMAIN d = 1 .. n, NEW i \in 1 .. n
  PROVE  Len(SubSeq(d, 1, i - 1)) + Len(SubSeq(d, i + 1, n)) + 1 = n
<1>1. PICK S : S = {d[j] : j \in 1 .. n}
  OBVIOUS
<1>2. \A j \in 1 .. n : d[j] \in S
  BY <1>1
<1>3. Len(SubSeq(d, 1, i - 1)) = i - 1
  <2>1. PICK b : b = i - 1
    OBVIOUS
  <2>2. b \in Int /\ 1 \in Int /\ (\A j \in 1 .. b : d[j] \in S)
        /\ (IF 1 <= b THEN b - 1 + 1 ELSE 0) = b
    BY <1>2, <2>1
  <2>3. Len(SubSeq(d, 1, b)) = (IF 1 <= b THEN b - 1 + 1 ELSE 0)
    BY <2>2, SubSeqProperties
  <2> QED BY <2>1, <2>2, <2>3
<1>4. Len(SubSeq(d, i + 1, n)) = n - i
  <2>1. PICK a : a = i + 1
    OBVIOUS
  <2>2. a \in Int /\ n \in Int /\ (\A j \in a .. n : d[j] \in S)
        /\ (IF a <= n THEN n - a + 1 ELSE 0) = n - i
    BY <1>2, <2>1
  <2>3. Len(SubSeq(d, a, n)) = (IF a <= n THEN n - a + 1 ELSE 0)
    BY <2>2, SubSeqProperties
  <2> QED BY <2>1, <2>2, <2>3
<1> QED BY <1>3, <1>4

\* base64_decode: a callback is only asked about a token of whole groups, of which the
\* last may be padded, and gets all the bytes that its characters stand for, but for
\* the colon.
THEOREM TokensAreWhole == AuthSpec => []OnlyWholeTokens
<1>1. AuthInv => OnlyWholeTokens
  <2> SUFFICES ASSUME AuthInv, answer.called # Null
               PROVE  OnlyWholeTokens
    BY DEF OnlyWholeTokens
  <2>1. PICK t, d : t = header.token /\ d = base64_decode(t)
    OBVIOUS
  <2>2. /\ header # Null /\ header.scheme = "Basic" /\ ~ DecodeThrows(t)
        /\ Colon \in ToSet(d)
        /\ answer.called = <<SubSeq(d, 1, FirstColon(d) - 1),
                             SubSeq(d, FirstColon(d) + 1, Len(d))>>
    BY <2>1, Authorized DEF AuthInv
  <2>3. t \in Seq(Nat)
    BY <2>1, <2>2 DEF AuthInv, HeaderOK
  <2>16. PICK m, K : CountedIn(t, m, K) /\ DOMAIN d = 1 .. BytesOf(m, K)
                     /\ Len(d) = BytesOf(m, K)
    BY <2>1, <2>2, <2>3, Accepted, Zenon
  <2>4. /\ m \in Nat /\ K \in [1 .. m -> 2 .. 4] /\ Len(t) = 4 * m
        /\ \A q \in 1 .. m :
             /\ \A p \in 1 .. K[q] : IsEncoded(t[4 * (q - 1) + p])
             /\ K[q] < 4 => q = m /\ t[4 * (q - 1) + K[q] + 1] = Pad
    BY <2>16 DEF CountedIn
  <2>5. PICK l : l = BytesOf(m, K)
    OBVIOUS
  <2>6. DOMAIN d = 1 .. l /\ Len(d) = l
    BY <2>5, <2>16
  <2>7. m # 0
    <3>1. DOMAIN d # {}
      BY <2>2 DEF ToSet
    <3> QED BY <2>5, <2>6, <3>1 DEF BytesOf
  <2>8. PICK k : k = K[m]
    OBVIOUS
  <2>9. k \in 2 .. 4 /\ l \in Nat /\ l = 3 * (m - 1) + k - 1
    BY <2>4, <2>5, <2>7, <2>8 DEF BytesOf
  <2>10. Len(answer.called[1]) + Len(answer.called[2]) + 1 = l
    <3>1. PICK i : i = FirstColon(d)
      OBVIOUS
    <3>2. i \in 1 .. l
      BY <2>2, <2>6, <2>9, <3>1, ColonFound
    <3>3. PICK x, y : x = SubSeq(d, 1, i - 1) /\ y = SubSeq(d, i + 1, l)
      OBVIOUS
    <3>4. answer.called = <<x, y>>
      BY <2>2, <2>6, <3>1, <3>3
    <3>5. Len(x) + Len(y) + 1 = l
      BY <2>6, <2>9, <3>2, <3>3, PartLengths
    <3> QED BY <3>4, <3>5
  <2>11. PICK n : n = Len(t)
    OBVIOUS
  <2>12. m \in Nat \ {0} /\ n = 4 * m
    BY <2>4, <2>7, <2>11
  <2>17. n % 4 = 0 /\ n > 0 /\ (3 * n) \div 4 = 3 * m
    BY <2>12
\* The last two characters tell how many of the last group count.
  <2>13. /\ k < 3 => t[n - 1] = Pad
         /\ k = 3 => t[n] = Pad
         /\ k > 2 => t[n - 1] # Pad
         /\ k > 3 => t[n] # Pad
    <3>1. m \in 1 .. m /\ n - 1 = 4 * (m - 1) + 3 /\ n = 4 * (m - 1) + 4
      BY <2>12
    <3>2. \A p \in 1 .. k : t[4 * (m - 1) + p] # Pad
      BY <2>4, <2>8, <3>1, PadIsNoLetter
    <3>3. k < 4 => t[4 * (m - 1) + k + 1] = Pad
      BY <2>4, <2>8, <3>1
    <3>4. k < 3 => 4 * (m - 1) + k + 1 = n - 1
      BY <2>9, <3>1
    <3>5. k = 3 => 4 * (m - 1) + k + 1 = n
      BY <3>1
    <3>6. (k > 2 => 3 \in 1 .. k) /\ (k > 3 => 4 \in 1 .. k)
      BY <2>9
    <3>7. (k < 3 => k < 4) /\ (k = 3 => k < 4)
      BY <2>9
    <3> QED BY <3>1, <3>2, <3>3, <3>4, <3>5, <3>6, <3>7
  <2>14. ASSUME NEW i \in 1 .. n, ~ IsEncoded(t[i])
         PROVE  i >= n - 1 /\ Pad \in {t[n], t[n - 1]}
    <3>1. PICK q, p : q = GroupOf(i, 4) /\ p = PlaceOf(i, 4)
      OBVIOUS
    <3>2. q \in Nat \ {0} /\ p \in 1 .. 4 /\ i = 4 * (q - 1) + p
      <4>1. 4 \in {3, 4} /\ i \in Nat \ {0}
        OBVIOUS
      <4> QED BY <3>1, <4>1, PlaceOfIndex, Zenon
    <3>3. q \in 1 .. m
      <4>1. i <= n
        OBVIOUS
      <4> QED BY <2>12, <3>2, <4>1
    <3>4. K[q] \in 2 .. 4 /\ ~ (p \in 1 .. K[q])
      BY <2>4, <2>14, <3>2, <3>3
    <3>5. q = m /\ K[q] = k /\ k < p
      <4>1. K[q] < 4 /\ K[q] < p
        BY <3>2, <3>4
      <4> QED BY <2>4, <2>8, <3>3, <4>1
    <3>6. i >= n - 1 /\ k < 4
      BY <2>9, <2>12, <3>2, <3>5
    <3>7. k < 3 \/ k = 3
      BY <2>9, <3>6
    <3> QED BY <2>13, <3>6, <3>7
  <2>15. l = (3 * n) \div 4 - (IF t[n - 1] = Pad THEN 2 ELSE IF t[n] = Pad THEN 1 ELSE 0)
    <3>1. CASE k = 2
      BY <2>9, <2>12, <2>13, <2>17, <3>1
    <3>2. CASE k = 3
      BY <2>9, <2>12, <2>13, <2>17, <3>2
    <3>3. CASE k = 4
      BY <2>9, <2>12, <2>13, <2>17, <3>3
    <3> QED BY <2>9, <3>1, <3>2, <3>3
  <2> QED BY <2>1, <2>2, <2>10, <2>11, <2>14, <2>15, <2>17 DEF OnlyWholeTokens
<1> QED BY <1>1, AuthInvariant, PTL

-----------------------------------------------------------------------------
\* Cutting a path into segments.

\* A set with 0 and the successor of each of its numbers has them all.
LEMMA Induction ==
  ASSUME NEW T, 0 \in T, \A n \in Nat : n \in T => n + 1 \in T
  PROVE  Nat \subseteq T
<1> SUFFICES ASSUME Nat \ T # {} PROVE FALSE
  OBVIOUS
<1>1. PICK x \in Nat \ T : \A y \in Nat \ T : x <= y
  BY LeastNatural
<1>2. x - 1 \in Nat /\ x - 1 \in T
  BY <1>1
<1> QED
  BY <1>1, <1>2

\* What the server has cut off before each character of a path.
Cuts(u, path) ==
  /\ u = [i \in 0 .. Len(path) |-> u[i]]
  /\ u[0] = <<>>
  /\ \A i \in 1 .. Len(path) : u[i] = Cut(u[i - 1], path[i])

\* Two that are what Cuts says end alike.
LEMMA CutsOnce ==
  ASSUME NEW path, NEW n \in Nat, n = Len(path), NEW u, NEW v, Cuts(u, path), Cuts(v, path)
  PROVE  u[n] = v[n]
<1>1. PICK T : T = {i \in Nat : i <= n => u[i] = v[i]}
  OBVIOUS
<1>2. 0 \in T
  BY <1>1 DEF Cuts
<1>3. ASSUME NEW i \in Nat, i \in T PROVE i + 1 \in T
  <2>1. CASE i + 1 <= n
    <3>1. i + 1 \in 1 .. Len(path) /\ (i + 1) - 1 = i /\ u[i] = v[i]
      BY <1>1, <1>3, <2>1
    <3>2. u[i + 1] = Cut(u[i], path[i + 1]) /\ v[i + 1] = Cut(v[i], path[i + 1])
      BY <3>1 DEF Cuts
    <3> QED BY <1>1, <3>1, <3>2
  <2>2. CASE ~ (i + 1 <= n)
    BY <1>1, <2>2
  <2> QED BY <2>1, <2>2
<1>4. Nat \subseteq T
  BY <1>2, <1>3, Induction
<1> QED BY <1>1, <1>4

\* The segments of a path are what has been cut off in the end.
LEMMA SegmentsAre ==
  ASSUME NEW path, NEW n \in Nat, n = Len(path), NEW u, Cuts(u, path)
  PROVE  Segments(path) = u[n]
<1> DEFINE Solves(f) == f = [i \in 0 .. Len(path) |->
                             IF i = 0 THEN <<>> ELSE Cut(f[i - 1], path[i])]
<1>1. PICK v : v = CHOOSE f : Solves(f)
  OBVIOUS
<1>2. Solves(u)
  <2>1. \A i \in 0 .. n : u[i] = IF i = 0 THEN <<>> ELSE Cut(u[i - 1], path[i])
    BY DEF Cuts
  <2> QED BY <2>1 DEF Cuts
<1>3. Solves(v)
  <2> HIDE DEF Solves
  <2> QED BY <1>1, <1>2, Zenon
<1>4. Cuts(v, path)
  <2>1. \A i \in 0 .. n : v[i] = IF i = 0 THEN <<>> ELSE Cut(v[i - 1], path[i])
    BY <1>3
  <2>2. v = [i \in 0 .. n |-> v[i]]
    BY <1>3
  <2> QED BY <2>1, <2>2 DEF Cuts
<1>5. Segments(path) = v[n]
  BY <1>1, Zenon DEF Segments
<1> QED BY <1>4, <1>5, CutsOnce

\* path is cut into the segments s.
Cutting(path, s) == \E u : Cuts(u, path) /\ u[Len(path)] = s

-----------------------------------------------------------------------------
\* A part of a path is one segment.

\* Cut: a character goes to the end of the last segment.
LEMMA LastGrows ==
  ASSUME NEW s \in Seq(Seq(Nat)), NEW x \in Seq(Nat), NEW c \in Nat \ {Slash}
  PROVE  Cut(Append(s, x), c) = Append(s, Append(x, c))
<1>1. PICK r, y, n : r = Append(s, x) /\ y = Append(x, c) /\ n = Len(s)
  OBVIOUS
<1>2. n \in Nat /\ y \in Seq(Nat)
  BY <1>1, LenProperties, AppendProperties
<1>3. /\ r \in Seq(Seq(Nat)) /\ Len(r) = n + 1 /\ r[n + 1] = x
      /\ \A i \in 1 .. n : r[i] = s[i]
  BY <1>1, AppendProperties
<1>4. PICK t : t = [r EXCEPT ![n + 1] = y]
  OBVIOUS
<1>5. Cut(r, c) = t
  BY <1>1, <1>3, <1>4 DEF Cut
<1>6. t \in [1 .. n + 1 -> Seq(Nat)] /\ t[n + 1] = y /\ \A i \in 1 .. n : t[i] = s[i]
  <2>1. r \in [1 .. n + 1 -> Seq(Nat)]
    BY <1>3, LenProperties
  <2> QED BY <1>2, <1>3, <1>4, <2>1
<1>7. t \in Seq(Seq(Nat)) /\ Len(t) = n + 1
  <2>1. n + 1 \in Nat
    BY <1>2
  <2> QED BY <1>6, <2>1, FunctionIsSeq
<1>8. PICK w : w = Append(s, y)
  OBVIOUS
<1>9. /\ w \in Seq(Seq(Nat)) /\ Len(w) = n + 1 /\ w[n + 1] = y
      /\ \A i \in 1 .. n : w[i] = s[i]
  BY <1>1, <1>2, <1>8, AppendProperties
<1>10. \A i \in 1 .. n + 1 : t[i] = w[i]
  <2>1. \A i \in 1 .. n + 1 : i = n + 1 \/ i \in 1 .. n
    BY <1>2
  <2> QED BY <1>6, <1>9, <2>1
<1>11. t = w
  BY <1>7, <1>9, <1>10, SeqEqual
<1> QED BY <1>1, <1>5, <1>8, <1>11

\* One element more of a prefix.
LEMMA PrefixGrows ==
  ASSUME NEW S, NEW a \in Seq(S), NEW m, m = Len(a), NEW j \in 1 .. m
  PROVE  /\ SubSeq(a, 1, j - 1) \in Seq(S)
         /\ SubSeq(a, 1, j) = Append(SubSeq(a, 1, j - 1), a[j])
<1>1. m \in Nat /\ \A i \in 1 .. m : a[i] \in S
  BY LenProperties, ElementOfSeq
<1>2. PICK k : k = j - 1
  OBVIOUS
<1>3. k \in Nat /\ k \in Int /\ j \in Int /\ 1 \in Int /\ k + 1 = j
      /\ (\A i \in 1 .. k : a[i] \in S) /\ (\A i \in 1 .. j : a[i] \in S)
  BY <1>1, <1>2
<1>4. PICK x, y : x = SubSeq(a, 1, k) /\ y = SubSeq(a, 1, j)
  OBVIOUS
<1>5. /\ x \in Seq(S) /\ Len(x) = (IF 1 <= k THEN k - 1 + 1 ELSE 0)
      /\ \A i \in 1 .. k - 1 + 1 : x[i] = a[1 + i - 1]
  BY <1>3, <1>4, SubSeqProperties
<1>6. /\ y \in Seq(S) /\ Len(y) = (IF 1 <= j THEN j - 1 + 1 ELSE 0)
      /\ \A i \in 1 .. j - 1 + 1 : y[i] = a[1 + i - 1]
  BY <1>3, <1>4, SubSeqProperties
<1>7. Len(x) = k /\ \A i \in 1 .. k : x[i] = a[i]
  <2>1. k - 1 + 1 = k /\ (IF 1 <= k THEN k - 1 + 1 ELSE 0) = k
        /\ \A i \in 1 .. k : 1 + i - 1 = i
    BY <1>3
  <2> QED BY <1>5, <2>1
<1>8. Len(y) = j /\ \A i \in 1 .. j : y[i] = a[i]
  <2>1. j - 1 + 1 = j /\ (IF 1 <= j THEN j - 1 + 1 ELSE 0) = j
        /\ \A i \in 1 .. j : 1 + i - 1 = i
    BY <1>1
  <2> QED BY <1>6, <2>1
<1>9. PICK z, c : z = Append(x, c) /\ c = a[j]
  OBVIOUS
<1>10. /\ z \in Seq(S) /\ Len(z) = k + 1 /\ z[k + 1] = c
       /\ \A i \in 1 .. k : z[i] = x[i]
  BY <1>1, <1>5, <1>7, <1>9, AppendProperties
<1>11. \A i \in 1 .. j : y[i] = z[i]
  BY <1>3, <1>7, <1>8, <1>9, <1>10
<1>12. y = z
  BY <1>3, <1>6, <1>8, <1>10, <1>11, SeqEqual
<1> QED BY <1>2, <1>4, <1>5, <1>9, <1>12

\* A path with a part more has a segment more.
LEMMA CutsPart ==
  ASSUME NEW p \in Seq(Nat), NEW s \in Seq(Seq(Nat)), Cutting(p, s),
         NEW a \in Seq(Nat \ {Slash})
  PROVE  p \o Part(a) \in Seq(Nat) /\ Cutting(p \o Part(a), Append(s, a))
<1>1. PICK k, m, q, r, c : k = Len(p) /\ m = Len(a) /\ q = p \o r /\ r = Part(a) /\ c = <<Slash>>
  OBVIOUS
<1>2. k \in Nat /\ m \in Nat /\ a \in Seq(Nat) /\ \A i \in 1 .. m : a[i] \in Nat \ {Slash}
  <2>1. Nat \ {Slash} \subseteq Nat
    OBVIOUS
  <2> QED BY <1>1, <2>1, LenProperties, ElementOfSeq, SeqMonotonic
<1>3. c \in Seq(Nat) /\ 1 = Len(c) /\ c[1] = Slash
  BY <1>1 DEF Slash
<1>4. r \in Seq(Nat) /\ Len(r) = 1 + m /\ r[1] = Slash /\ \A i \in 1 .. m : r[1 + i] = a[i]
  <2>1. r = c \o a
    BY <1>1 DEF Part
  <2>2. Joined(Nat, r, c, a, 1, m)
    BY <1>1, <1>2, <1>3, <2>1, Joins
  <2> QED BY <1>3, <2>2 DEF Joined
<1>5. /\ q \in Seq(Nat) /\ Len(q) = k + 1 + m
      /\ \A i \in 1 .. k : q[i] = p[i]
      /\ q[k + 1] = Slash
      /\ \A i \in 1 .. m : q[k + 1 + i] = a[i]
  <2>1. PICK l : l = 1 + m
    OBVIOUS
  <2>2. Joined(Nat, q, p, r, k, l)
    BY <1>1, <1>4, <2>1, Joins
  <2>3. l \in Nat /\ k + l = k + 1 + m /\ 1 \in 1 .. l
    BY <1>2, <2>1
  <2>4. \A i \in 1 .. m : 1 + i \in 1 .. l /\ k + (1 + i) = k + 1 + i
    BY <1>2, <2>1
  <2> QED BY <1>4, <2>2, <2>3, <2>4 DEF Joined
<1>6. PICK u : Cuts(u, p) /\ u[k] = s
  BY <1>1 DEF Cutting
<1>7. PICK v : v = [i \in 0 .. k + 1 + m |->
                      IF i <= k THEN u[i] ELSE Append(s, SubSeq(a, 1, i - (k + 1)))]
  OBVIOUS
<1>8. (\A i \in 0 .. k : v[i] = u[i]) /\ v[0] = <<>>
  <2>1. \A i \in 0 .. k : v[i] = u[i]
    BY <1>2, <1>7
  <2>2. u[0] = <<>>
    BY <1>6 DEF Cuts
  <2>3. 0 \in 0 .. k
    BY <1>2
  <2> QED BY <2>1, <2>2, <2>3
<1>9. ASSUME NEW j \in 0 .. m PROVE v[k + 1 + j] = Append(s, SubSeq(a, 1, j))
  <2>1. k + 1 + j \in 0 .. k + 1 + m /\ ~ (k + 1 + j <= k) /\ (k + 1 + j) - (k + 1) = j
    BY <1>2
  <2> QED BY <1>7, <2>1
<1>10. ASSUME NEW i \in 1 .. k PROVE v[i] = Cut(v[i - 1], q[i])
  <2>1. i \in 0 .. k /\ i - 1 \in 0 .. k
    BY <1>2
  <2>2. u[i] = Cut(u[i - 1], p[i])
    BY <1>1, <1>6 DEF Cuts
  <2> QED BY <1>5, <1>8, <2>1, <2>2
<1>11. v[k + 1] = Cut(v[k], q[k + 1])
  <2>1. k \in 0 .. k /\ 0 \in 0 .. m /\ k + 1 + 0 = k + 1 /\ 0 < 1
    BY <1>2
  <2>2. SubSeq(a, 1, 0) = <<>>
    BY <2>1, SubSeqEmpty
  <2>3. v[k + 1] = Append(s, <<>>)
    BY <1>9, <2>1, <2>2
  <2>4. v[k] = s
    BY <1>6, <1>8, <2>1
  <2> QED BY <1>5, <2>3, <2>4 DEF Cut
<1>12. ASSUME NEW j \in 1 .. m PROVE v[k + 1 + j] = Cut(v[k + j], q[k + 1 + j])
  <2>1. j \in 0 .. m /\ j - 1 \in 0 .. m /\ k + 1 + (j - 1) = k + j
    BY <1>2
  <2>2. PICK x : x = SubSeq(a, 1, j - 1)
    OBVIOUS
  <2>3. x \in Seq(Nat) /\ SubSeq(a, 1, j) = Append(x, a[j])
    BY <1>1, <1>2, <2>2, PrefixGrows
  <2>4. v[k + j] = Append(s, x)
    BY <1>9, <2>1, <2>2
  <2>5. v[k + 1 + j] = Append(s, Append(x, a[j]))
    BY <1>9, <2>1, <2>3
  <2>6. a[j] \in Nat \ {Slash} /\ q[k + 1 + j] = a[j]
    BY <1>2, <1>5
  <2> QED BY <2>3, <2>4, <2>5, <2>6, LastGrows
<1>13. Cuts(v, q)
  <2>1. ASSUME NEW i \in 1 .. k + 1 + m PROVE v[i] = Cut(v[i - 1], q[i])
    <3>1. CASE i \in 1 .. k
      BY <1>10, <3>1
    <3>2. CASE i = k + 1
      <4>1. (k + 1) - 1 = k
        BY <1>2
      <4> QED BY <1>11, <3>2, <4>1
    <3>3. CASE i > k + 1
      <4>1. PICK j : j = i - (k + 1)
        OBVIOUS
      <4>2. j \in 1 .. m /\ i = k + 1 + j /\ i - 1 = k + j
        BY <1>2, <3>3, <4>1
      <4> QED BY <1>12, <4>2
    <3> QED BY <1>2, <3>1, <3>2, <3>3
  <2>2. v = [i \in 0 .. k + 1 + m |-> v[i]]
    BY <1>7
  <2> QED BY <1>5, <1>8, <2>1, <2>2 DEF Cuts
<1>14. v[k + 1 + m] = Append(s, a)
  <2>1. m \in 0 .. m /\ 0 + 1 = 1 /\ m = 0 + m /\ 0 \in Nat /\ m <= Len(a)
        /\ \A i \in 1 .. m : 0 + i = i
    BY <1>1, <1>2
  <2>2. \A i \in 1 .. m : a[0 + i] = a[i]
    BY <2>1
  <2>3. SubSeq(a, 0 + 1, m) = a
    BY <1>1, <1>2, <2>1, <2>2, CutsOut
  <2> QED BY <1>9, <2>1, <2>3
<1>15. Cutting(q, Append(s, a))
  BY <1>5, <1>13, <1>14 DEF Cutting
<1> QED BY <1>1, <1>5, <1>15

-----------------------------------------------------------------------------
\* The segments of a label.

\* The two segments of a label.
NamePart(l) ==
  IF l.value = <<>> \/ \E c \in ToSet(l.value) : needsEncoding(c)
  THEN l.name \o Marker ELSE l.name
ValuePart(l) ==
  IF l.value = <<>> THEN <<Pad>>
  ELSE IF \E c \in ToSet(l.value) : needsEncoding(c) THEN base64url_encode(l.value)
  ELSE l.value

\* encodeLabel: "/" and the name, "/" and the value.
LEMMA TwoParts ==
  ASSUME NEW l PROVE encodeLabel(l) = Part(NamePart(l)) \o Part(ValuePart(l))
BY Zenon DEF encodeLabel, NamePart, ValuePart

PathLabel == [name : Seq(NameChars), value : Seq(Byte)]

\* What a segment is made of.
Clean == {c \in Nat : ~ needsEncoding(c) \/ c \in {Pad, Head(Marker)}}

\* The characters of a marker.
LEMMA MarkerCodes ==
  /\ Marker \in Seq(Nat) /\ Len(Marker) = 7 /\ Marker[1] = 64 /\ Head(Marker) = 64
  /\ \A i \in 2 .. 7 : Marker[i] \in 97 .. 122 \cup 48 .. 57
<1>1. PICK m : m = Marker
  OBVIOUS
<1>2. m = <<64, 98, 97, 115, 101, 54, 52>>
  BY <1>1 DEF Marker
<1>3. /\ m[1] = 64 /\ m[2] = 98 /\ m[3] = 97 /\ m[4] = 115 /\ m[5] = 101 /\ m[6] = 54
      /\ m[7] = 52 /\ Len(m) = 7 /\ Head(m) = 64 /\ m \in Seq(Nat)
  BY <1>2
<1>4. \A i \in 2 .. 7 : i = 2 \/ i = 3 \/ i = 4 \/ i = 5 \/ i = 6 \/ i = 7
  OBVIOUS
<1>5. \A i \in 2 .. 7 : m[i] \in 97 .. 122 \cup 48 .. 57
  <2> TAKE i \in 2 .. 7
  <2>1. m[i] = 98 \/ m[i] = 97 \/ m[i] = 115 \/ m[i] = 101 \/ m[i] = 54 \/ m[i] = 52
    BY <1>3, <1>4
  <2> QED BY <2>1
<1> QED BY <1>1, <1>3, <1>5

\* A slash parts segments and is in none.
LEMMA CleanIs ==
  /\ Clean \subseteq Nat \ {Slash}
  /\ NameChars \subseteq Clean /\ 64 \in Clean /\ Pad \in Clean
  /\ 97 .. 122 \cup 48 .. 57 \subseteq Clean
  /\ 64 \notin NameChars
<1>1. Head(Marker) = 64
  BY MarkerCodes
<1> QED BY <1>1 DEF Clean, needsEncoding, Slash, Pad, NameChars

\* base64url_encode: no character of the alphabet is lost, none needs an escape.
LEMMA UrlSafeIs ==
  ASSUME NEW c \in Nat, IsEncoded(c) \/ c = Pad
  PROVE  UrlSafe(c) \in Clean /\ Standard(UrlSafe(c)) = c
<1>1. CASE c \in 65 .. 90 \cup 97 .. 122 \cup 48 .. 57
  BY <1>1, CleanIs DEF UrlSafe, Standard, Clean, needsEncoding
<1>2. CASE c = 43 \/ c = 47
  BY <1>2, CleanIs DEF UrlSafe, Standard, Clean, needsEncoding
<1>3. CASE c = Pad
  BY <1>3, CleanIs DEF UrlSafe, Standard, Pad
<1> QED BY <1>1, <1>2, <1>3 DEF IsEncoded

\* base64_encode: the characters of what it returns, whose number is a multiple of 4.
LEMMA EncodedCodes ==
  ASSUME NEW s \in Seq(Byte), NEW e, e = base64_encode(s)
  PROVE  /\ e \in Seq(Nat) /\ Len(e) # 1
         /\ \A i \in 1 .. Len(e) : IsEncoded(e[i]) \/ e[i] = Pad
<1>1. PICK G : G = Groups(s, 3)
  OBVIOUS
<1>2. PICK m : Grouped(Byte, s, 3, G, m)
  <2>1. 3 \in {3, 4}
    OBVIOUS
  <2> QED BY <1>1, <2>1, GroupsOf, Zenon
<1>3. m \in Nat /\ \A q \in 1 .. m : G[q] \in Seq(Byte) /\ Len(G[q]) \in 1 .. 3
  BY <1>2 DEF Grouped
<1>4. /\ e \in Seq(Nat) /\ Len(e) = 4 * m
      /\ \A q \in 1 .. m, p \in 1 .. 4 : e[4 * (q - 1) + p] = EncodeGroup(G[q])[p]
  <2>1. Written(base64_encode(s), G, m)
    BY <1>1, <1>2, Encoded
  <2>2. Written(e, G, m)
    BY <2>1
  <2> QED BY <2>2 DEF Written
<1>5. ASSUME NEW i \in 1 .. 4 * m PROVE IsEncoded(e[i]) \/ e[i] = Pad
  <2>1. PICK q, p : q = GroupOf(i, 4) /\ p = PlaceOf(i, 4)
    OBVIOUS
  <2>2. q \in Nat \ {0} /\ p \in 1 .. 4 /\ i = 4 * (q - 1) + p
    <3>1. 4 \in {3, 4} /\ i \in Nat \ {0}
      OBVIOUS
    <3> QED BY <2>1, <3>1, PlaceOfIndex, Zenon
  <2>3. q \in 1 .. m
    BY <1>3, <2>2
  <2>4. e[i] = EncodeGroup(G[q])[p]
    BY <1>4, <2>2, <2>3
  <2>5. PICK g, n : g = G[q] /\ n = Len(g)
    OBVIOUS
  <2>6. g \in Seq(Byte) /\ Len(g) \in 1 .. 3 /\ n \in 1 .. 3
    BY <1>3, <2>3, <2>5
  <2>7. /\ \A j \in 1 .. n + 1 : IsEncoded(EncodeGroup(g)[j])
        /\ \A j \in n + 2 .. 4 : EncodeGroup(g)[j] = Pad
    BY <2>5, <2>6, GroupComesBack
  <2>8. p \in 1 .. n + 1 \/ p \in n + 2 .. 4
    BY <2>2, <2>6
  <2> QED BY <2>4, <2>5, <2>7, <2>8
<1>6. 4 * m # 1
  BY <1>3
<1> QED BY <1>4, <1>5, <1>6

-----------------------------------------------------------------------------
\* What a server makes of them.

\* base64url_encode: what the server decodes is what was encoded.
LEMMA UrlComesBack ==
  ASSUME NEW s \in Seq(Byte), NEW u, u = base64url_encode(s)
  PROVE  u \in Seq(Clean) /\ u # <<Pad>> /\ ServerValue(u) = s
<1>1. PICK e, n : e = base64_encode(s) /\ n = Len(e)
  OBVIOUS
<1>2. e \in Seq(Nat) /\ n # 1 /\ \A i \in 1 .. n : IsEncoded(e[i]) \/ e[i] = Pad
  BY <1>1, EncodedCodes
<1>3. n \in Nat /\ DOMAIN e = 1 .. n /\ e = [i \in 1 .. n |-> e[i]] /\ \A i \in 1 .. n : e[i] \in Nat
  BY <1>1, <1>2, LenProperties, ElementOfSeq
<1>4. u = [i \in 1 .. n |-> UrlSafe(e[i])]
  BY <1>1, <1>3 DEF base64url_encode
<1>5. \A i \in 1 .. n : u[i] \in Clean /\ Standard(u[i]) = e[i]
  BY <1>2, <1>3, <1>4, UrlSafeIs
<1>6. u \in [1 .. n -> Clean]
  BY <1>4, <1>5
<1>7. u \in Seq(Clean) /\ Len(u) = n
  BY <1>3, <1>6, FunctionIsSeq
<1>8. u # <<Pad>>
  <2>1. PICK c : c = <<Pad>>
    OBVIOUS
  <2>2. Len(c) = 1
    BY <2>1
  <2> QED BY <1>2, <1>7, <2>1, <2>2
<1>9. [i \in DOMAIN u |-> Standard(u[i])] = e
  <2>1. DOMAIN u = 1 .. n
    BY <1>4
  <2>2. [i \in 1 .. n |-> Standard(u[i])] = [i \in 1 .. n |-> e[i]]
    BY <1>5
  <2> QED BY <1>3, <2>1, <2>2
<1>10. ServerValue(u) = base64_decode(e)
  BY <1>8, <1>9 DEF ServerValue
<1>11. base64_decode(e) = s
  BY <1>1, DecodesWhatWasEncoded
<1> QED BY <1>7, <1>8, <1>10, <1>11

\* Whether a name is marked: it ends with the seven characters of the marker.
LEMMA MarkedIs ==
  ASSUME NEW t \in Seq(Nat), NEW n, n = Len(t)
  PROVE  IsSuffix(Marker, t) <=> n >= 7 /\ \A i \in 1 .. 7 : t[n - 7 + i] = Marker[i]
<1>1. PICK m : m = Marker
  OBVIOUS
<1>2. m \in Seq(Nat) /\ Len(m) = 7 /\ m \in [1 .. 7 -> Nat] /\ n \in Nat /\ t \in [1 .. n -> Nat]
  BY <1>1, MarkerCodes, LenProperties
<1>9. n \in Nat
  BY <1>2
<1>3. PICK a, b : a = Reverse(m) /\ b = Reverse(t)
  OBVIOUS
<1>4. a = [i \in 1 .. 7 |-> m[8 - i]] /\ b = [i \in 1 .. n |-> t[n - i + 1]]
  <2>1. a = [i \in 1 .. 7 |-> m[7 - i + 1]]
    BY <1>2, <1>3 DEF Reverse
  <2>2. \A i \in 1 .. 7 : 7 - i + 1 = 8 - i
    OBVIOUS
  <2> QED BY <1>3, <2>1, <2>2 DEF Reverse
<1>5. a \in Seq(Nat) /\ Len(a) = 7 /\ b \in Seq(Nat) /\ Len(b) = n
  <2>1. \A i \in 1 .. 7 : 8 - i \in 1 .. 7
    OBVIOUS
  <2>2. \A i \in 1 .. n : n - i + 1 \in 1 .. n
    BY <1>2
  <2>3. a \in [1 .. 7 -> Nat] /\ b \in [1 .. n -> Nat] /\ 7 \in Nat
    BY <1>2, <1>4, <2>1, <2>2
  <2> QED BY <1>2, <2>3, FunctionIsSeq
<1>6. IsSuffix(Marker, t) <=> 7 <= n /\ SubSeq(a, 1, 7) = SubSeq(b, 1, 7)
  BY <1>1, <1>3, <1>5 DEF IsSuffix, IsPrefix
<1>7. ASSUME 7 <= n PROVE SubSeq(a, 1, 7) = SubSeq(b, 1, 7) <=> \A i \in 1 .. 7 : a[i] = b[i]
  <2>1. 1 \in Int /\ 7 \in Int /\ 1 <= 7 /\ (\A i \in 1 .. 7 : a[i] \in Nat)
        /\ (\A i \in 1 .. 7 : b[i] \in Nat)
        /\ 7 - 1 + 1 = 7 /\ \A i \in 1 .. 7 : 1 + i - 1 = i
    <3>1. \A i \in 1 .. 7 : i \in 1 .. n
      BY <1>7, <1>9
    <3>2. \A i \in 1 .. n : b[i] \in Nat
      BY <1>5, ElementOfSeq
    <3>3. \A i \in 1 .. 7 : a[i] \in Nat
      BY <1>5, ElementOfSeq
    <3>4. \A i \in 1 .. 7 : b[i] \in Nat
      BY <3>1, <3>2
    <3>5. 7 - 1 + 1 = 7 /\ \A i \in 1 .. 7 : 1 + i - 1 = i
      OBVIOUS
    <3> QED BY <3>3, <3>4, <3>5
  <2>2. PICK x, y : x = SubSeq(a, 1, 7) /\ y = SubSeq(b, 1, 7)
    OBVIOUS
  <2>3. x \in Seq(Nat) /\ Len(x) = (IF 1 <= 7 THEN 7 - 1 + 1 ELSE 0)
        /\ \A i \in 1 .. 7 - 1 + 1 : x[i] = a[1 + i - 1]
    BY <2>1, <2>2, SubSeqProperties
  <2>4. y \in Seq(Nat) /\ Len(y) = (IF 1 <= 7 THEN 7 - 1 + 1 ELSE 0)
        /\ \A i \in 1 .. 7 - 1 + 1 : y[i] = b[1 + i - 1]
    BY <2>1, <2>2, SubSeqProperties
  <2>5. Len(x) = 7 /\ Len(y) = 7 /\ \A i \in 1 .. 7 : x[i] = a[i] /\ y[i] = b[i]
    BY <2>1, <2>3, <2>4
  <2>6. (\A i \in 1 .. 7 : a[i] = b[i]) => x = y
    <3> HAVE \A i \in 1 .. 7 : a[i] = b[i]
    <3>1. \A i \in 1 .. 7 : x[i] = y[i]
      BY <2>5
    <3> QED BY <2>3, <2>4, <2>5, <3>1, SeqEqual
  <2>7. x = y => \A i \in 1 .. 7 : a[i] = b[i]
    BY <2>5
  <2> QED BY <2>2, <2>6, <2>7
<1>8. ASSUME 7 <= n
      PROVE  (\A i \in 1 .. 7 : a[i] = b[i]) <=> \A i \in 1 .. 7 : t[n - 7 + i] = m[i]
  <2>1. \A i \in 1 .. 7 : 8 - i \in 1 .. 7 /\ 8 - (8 - i) = i
                          /\ i \in 1 .. n /\ n - i + 1 = n - 7 + (8 - i)
    BY <1>8, <1>9
  <2>2. \A i \in 1 .. 7 : a[i] = m[8 - i] /\ b[i] = t[n - 7 + (8 - i)]
    <3> TAKE i \in 1 .. 7
    <3>1. i \in 1 .. n /\ n - i + 1 = n - 7 + (8 - i)
      BY <2>1
    <3>2. b[i] = t[n - i + 1] /\ a[i] = m[8 - i]
      BY <1>4, <3>1
    <3> QED BY <3>1, <3>2
  <2>3. ASSUME \A i \in 1 .. 7 : a[i] = b[i], NEW j \in 1 .. 7
        PROVE  t[n - 7 + j] = m[j]
    <3>1. PICK i : i = 8 - j
      OBVIOUS
    <3>2. i \in 1 .. 7 /\ 8 - i = j
      BY <3>1
    <3> QED BY <2>2, <2>3, <3>2
  <2>4. ASSUME \A i \in 1 .. 7 : t[n - 7 + i] = m[i], NEW i \in 1 .. 7
        PROVE  a[i] = b[i]
    <3>1. 8 - i \in 1 .. 7
      BY <2>1
    <3> QED BY <2>2, <2>4, <3>1
  <2> QED BY <2>3, <2>4
<1> QED BY <1>1, <1>2, <1>6, <1>7, <1>8

\* A marked name, and a name that is not marked.
LEMMA NamesMarked ==
  ASSUME NEW name \in Seq(NameChars)
  PROVE  /\ name \in Seq(Clean) /\ name \o Marker \in Seq(Clean)
         /\ ~ IsSuffix(Marker, name)
         /\ IsSuffix(Marker, name \o Marker)
         /\ SubSeq(name \o Marker, 1, Len(name \o Marker) - Len(Marker)) = name
<1>1. PICK k, m, t, n : k = Len(name) /\ m = Marker /\ t = name \o Marker /\ n = k + 7
  OBVIOUS
<1>2. k \in Nat /\ \A i \in 1 .. k : name[i] \in NameChars
  BY <1>1, LenProperties, ElementOfSeq
<1>3. NameChars \subseteq Nat /\ NameChars \subseteq Clean /\ Clean \subseteq Nat
      /\ 64 \in Clean /\ 97 .. 122 \cup 48 .. 57 \subseteq Clean /\ 64 \notin NameChars
  BY CleanIs
<1>4. name \in Seq(Nat) /\ name \in Seq(Clean)
  BY <1>3, SeqMonotonic
<1>5. /\ m \in Seq(Nat) /\ Len(m) = 7 /\ m[1] = 64
      /\ \A i \in 2 .. 7 : m[i] \in 97 .. 122 \cup 48 .. 57
  BY <1>1, MarkerCodes
<1>6. m \in Seq(Clean) /\ 7 = Len(m)
  <2>1. \A i \in 1 .. 7 : m[i] \in Clean
    <3> TAKE i \in 1 .. 7
    <3>1. i = 1 \/ i \in 2 .. 7
      OBVIOUS
    <3>2. CASE i = 1
      BY <1>3, <1>5, <3>2
    <3>3. CASE i \in 2 .. 7
      <4>1. m[i] \in 97 .. 122 \cup 48 .. 57
        BY <1>5, <3>3
      <4> HIDE DEF Clean
      <4> QED BY <1>3, <4>1, Zenon
    <3> QED BY <3>1, <3>2, <3>3
  <2>2. m \in [1 .. 7 -> Clean] /\ 7 \in Nat
    <3>1. m \in [1 .. 7 -> Nat]
      BY <1>5, LenProperties
    <3> QED BY <2>1, <3>1
  <2> QED BY <2>2, FunctionIsSeq
<1>7. /\ t \in Seq(Clean) /\ Len(t) = n
      /\ \A i \in 1 .. k : t[i] = name[i]
      /\ \A i \in 1 .. 7 : t[k + i] = m[i]
  <2>1. t = name \o m
    BY <1>1
  <2>2. Joined(Clean, t, name, m, k, 7)
    BY <1>1, <1>4, <1>6, <2>1, Joins
  <2> QED BY <1>1, <2>2 DEF Joined
<1>8. t \in Seq(Nat)
  BY <1>3, <1>7, SeqMonotonic
<1>9. n \in Nat /\ n >= 7 /\ n - 7 = k
  BY <1>1, <1>2
<1>10. IsSuffix(Marker, t)
  <2>1. IsSuffix(Marker, t) <=> n >= 7 /\ \A i \in 1 .. 7 : t[n - 7 + i] = Marker[i]
    BY <1>7, <1>8, MarkedIs
  <2> QED BY <1>1, <1>7, <1>9, <2>1
<1>11. ~ IsSuffix(Marker, name)
  <2>1. IsSuffix(Marker, name) <=> k >= 7 /\ \A i \in 1 .. 7 : name[k - 7 + i] = Marker[i]
    BY <1>1, <1>4, MarkedIs
  <2>2. ASSUME k >= 7 PROVE name[k - 7 + 1] # Marker[1]
    <3>1. k - 7 + 1 \in 1 .. k
      BY <1>2, <2>2
    <3> QED BY <1>1, <1>2, <1>3, <1>5, <3>1
  <2>3. 1 \in 1 .. 7
    OBVIOUS
  <2> QED BY <2>1, <2>2, <2>3, Zenon
<1>12. SubSeq(t, 1, k) = name
  <2>1. 0 + 1 = 1 /\ k = 0 + k /\ 0 \in Nat /\ k <= n /\ \A i \in 1 .. k : 0 + i = i
    BY <1>1, <1>2
  <2>2. \A i \in 1 .. k : t[0 + i] = name[i]
    BY <1>7, <2>1
  <2>3. SubSeq(t, 0 + 1, k) = name
    BY <1>1, <1>4, <1>7, <2>1, <2>2, CutsOut
  <2> QED BY <2>1, <2>3
<1>13. Len(t) - Len(Marker) = k
  BY <1>1, <1>5, <1>7, <1>9
<1> QED BY <1>1, <1>4, <1>7, <1>10, <1>11, <1>12, <1>13

\* A label that a server reads from its two segments.
LEMMA LabelComesBack ==
  ASSUME NEW l \in PathLabel
  PROVE  /\ NamePart(l) \in Seq(Clean) /\ ValuePart(l) \in Seq(Clean)
         /\ ServerLabel(NamePart(l), ValuePart(l)) = l
<1>1. PICK name, value : name = l.name /\ value = l.value
  OBVIOUS
<1>2. /\ name \in Seq(NameChars) /\ value \in Seq(Byte)
      /\ l = [name |-> name, value |-> value]
  BY <1>1 DEF PathLabel
<1>3. PICK marked : marked = name \o Marker
  OBVIOUS
<1>4. /\ name \in Seq(Clean) /\ marked \in Seq(Clean)
      /\ ~ IsSuffix(Marker, name) /\ IsSuffix(Marker, marked)
      /\ SubSeq(marked, 1, Len(marked) - Len(Marker)) = name
  BY <1>2, <1>3, NamesMarked
<1>5. CASE value = <<>>
  <2>1. NamePart(l) = marked /\ ValuePart(l) = <<Pad>>
    BY <1>1, <1>3, <1>5 DEF NamePart, ValuePart
  <2>2. <<Pad>> \in Seq(Clean)
    BY CleanIs
  <2>3. ServerValue(<<Pad>>) = <<>>
    BY DEF ServerValue
  <2> QED BY <1>2, <1>4, <1>5, <2>1, <2>2, <2>3 DEF ServerLabel
<1>6. CASE value # <<>> /\ \E c \in ToSet(value) : needsEncoding(c)
  <2>1. PICK u : u = base64url_encode(value)
    OBVIOUS
  <2>2. u \in Seq(Clean) /\ ServerValue(u) = value
    BY <1>2, <2>1, UrlComesBack
  <2>3. NamePart(l) = marked /\ ValuePart(l) = u
    BY <1>1, <1>3, <1>6, <2>1 DEF NamePart, ValuePart
  <2> QED BY <1>2, <1>4, <2>2, <2>3 DEF ServerLabel
<1>7. CASE value # <<>> /\ ~ \E c \in ToSet(value) : needsEncoding(c)
  <2>1. NamePart(l) = name /\ ValuePart(l) = value
    BY <1>1, <1>7 DEF NamePart, ValuePart
  <2>2. PICK n : n = Len(value)
    OBVIOUS
  <2>3. n \in Nat /\ value \in [1 .. n -> Byte] /\ DOMAIN value = 1 .. n
    BY <1>2, <2>2, LenProperties
  <2>4. \A i \in 1 .. n : value[i] \in ToSet(value)
    BY <2>3 DEF ToSet
  <2>5. \A i \in 1 .. n : value[i] \in Clean
    <3>1. Byte \subseteq Nat
      BY DEF Byte
    <3> QED BY <1>7, <2>3, <2>4, <3>1 DEF Clean
  <2>6. value \in Seq(Clean)
    BY <2>3, <2>5, FunctionIsSeq
  <2> QED BY <1>2, <1>4, <2>1, <2>6 DEF ServerLabel
<1> QED BY <1>5, <1>6, <1>7

-----------------------------------------------------------------------------
\* The path of a group.

\* s are the segments of the first j labels.
SegmentsFor(ls, j, s) ==
  /\ s \in Seq(Seq(Nat)) /\ Len(s) = 2 * j
  /\ \A i \in 1 .. j : s[2 * i - 1] = NamePart(ls[i]) /\ s[2 * i] = ValuePart(ls[i])

\* p is the path of the first j labels.
PathCodes == Clean \cup {Slash}
PathOf(ls, j, p) ==
  p \in Seq(PathCodes) /\ \E s : SegmentsFor(ls, j, s) /\ Cutting(p, s)

\* No label, no path.
LEMMA EmptyPath == ASSUME NEW ls PROVE PathOf(ls, 0, <<>>)
<1>1. PICK p : p = <<>>
  OBVIOUS
<1>2. p \in Seq(PathCodes) /\ p \in Seq(Seq(Nat)) /\ Len(p) = 0
  BY <1>1, EmptySeq
<1>3. PICK u : u = [i \in 0 .. 0 |-> p]
  OBVIOUS
<1>4. Cuts(u, p) /\ u[0] = p
  BY <1>1, <1>2, <1>3 DEF Cuts
<1>5. Cutting(p, p)
  BY <1>2, <1>4 DEF Cutting
<1>6. SegmentsFor(ls, 0, p)
  BY <1>2 DEF SegmentsFor
<1> QED BY <1>1, <1>2, <1>5, <1>6 DEF PathOf

\* encodeLabel writes characters.
LEMMA LabelText ==
  ASSUME NEW ls \in Seq(PathLabel), NEW j \in 1 .. Len(ls)
  PROVE  encodeLabel(ls[j]) \in Seq(Nat)
<1>1. PICK l, a, b : l = ls[j] /\ a = NamePart(l) /\ b = ValuePart(l)
  OBVIOUS
<1>2. l \in PathLabel
  BY <1>1, ElementOfSeq
<1>3. a \in Seq(Nat) /\ b \in Seq(Nat)
  <2>1. Clean \subseteq Nat
    BY CleanIs
  <2>2. a \in Seq(Clean) /\ b \in Seq(Clean)
    BY <1>1, <1>2, LabelComesBack
  <2> QED BY <2>1, <2>2, SeqMonotonic
<1>4. PICK c, x, y : c = <<Slash>> /\ x = c \o a /\ y = c \o b
  OBVIOUS
<1>5. c \in Seq(Nat)
  BY <1>4 DEF Slash
<1>6. x \in Seq(Nat) /\ y \in Seq(Nat)
  BY <1>3, <1>4, <1>5, ConcatProperties
<1>7. encodeLabel(l) = x \o y
  BY <1>1, <1>4, TwoParts DEF Part
<1> QED BY <1>1, <1>6, <1>7, ConcatProperties

\* encodeLabel: the path gets two segments more.
LEMMA LabelAdded ==
  ASSUME NEW ls \in Seq(PathLabel), NEW j \in 1 .. Len(ls), NEW p, PathOf(ls, j - 1, p)
  PROVE  PathOf(ls, j, p \o encodeLabel(ls[j]))
<1>1. PICK l, a, b : l = ls[j] /\ a = NamePart(l) /\ b = ValuePart(l)
  OBVIOUS
<1>2. l \in PathLabel
  BY <1>1, ElementOfSeq
<1>3. a \in Seq(Clean) /\ b \in Seq(Clean)
  BY <1>1, <1>2, LabelComesBack
<1>4. /\ Clean \subseteq Nat \ {Slash} /\ Clean \subseteq PathCodes /\ Clean \subseteq Nat
      /\ PathCodes \subseteq Nat /\ Slash \in PathCodes
  <2>1. Clean \subseteq Nat \ {Slash}
    BY CleanIs
  <2>2. Slash \in Nat
    BY DEF Slash
  <2> HIDE DEF Clean
  <2> QED BY <2>1, <2>2 DEF PathCodes
<1>5. /\ a \in Seq(Nat \ {Slash}) /\ b \in Seq(Nat \ {Slash}) /\ a \in Seq(Nat) /\ b \in Seq(Nat)
      /\ a \in Seq(PathCodes) /\ b \in Seq(PathCodes)
  BY <1>3, <1>4, SeqMonotonic
<1>6. p \in Seq(PathCodes) /\ p \in Seq(Nat)
  BY <1>4, SeqMonotonic DEF PathOf
<1>7. PICK s : SegmentsFor(ls, j - 1, s) /\ Cutting(p, s)
  BY DEF PathOf
<1>8. PICK x, y, s1, s2 : /\ x = Part(a) /\ y = Part(b)
                          /\ s1 = Append(s, a) /\ s2 = Append(s1, b)
  OBVIOUS
<1>9. s \in Seq(Seq(Nat)) /\ s1 \in Seq(Seq(Nat))
  BY <1>5, <1>7, <1>8, AppendProperties DEF SegmentsFor
<1>10. p \o x \in Seq(Nat) /\ Cutting(p \o x, s1)
  BY <1>5, <1>6, <1>7, <1>8, <1>9, CutsPart
<1>11. PICK q : q = p \o x
  OBVIOUS
<1>12. Cutting(q \o y, s2)
  BY <1>5, <1>8, <1>9, <1>10, <1>11, CutsPart
<1>13. x \in Seq(PathCodes) /\ y \in Seq(PathCodes)
  <2>1. PICK c : c = <<Slash>>
    OBVIOUS
  <2>2. c \in Seq(PathCodes)
    BY <1>4, <2>1
  <2>3. x = c \o a /\ y = c \o b
    BY <1>8, <2>1 DEF Part
  <2> QED BY <1>5, <2>2, <2>3, ConcatProperties
<1>14. q \in Seq(PathCodes) /\ q \o y \in Seq(PathCodes)
  BY <1>6, <1>11, <1>13, ConcatProperties
<1>15. p \o encodeLabel(l) = q \o y
  <2>1. encodeLabel(l) = x \o y
    BY <1>1, <1>8, TwoParts
  <2>2. (p \o x) \o y = p \o (x \o y)
    <3>1. p \in Seq(PathCodes) /\ x \in Seq(PathCodes) /\ y \in Seq(PathCodes)
      BY <1>6, <1>13
    <3> QED BY <3>1, ConcatAssociative
  <2> QED BY <1>11, <2>1, <2>2
<1>16. SegmentsFor(ls, j, s2)
  <2>1. PICK k : k = j - 1
    OBVIOUS
  <2>2. j \in Nat /\ k \in Nat /\ j = k + 1
    <3>1. Len(ls) \in Nat
      BY LenProperties
    <3> QED BY <2>1, <3>1
  <2>3. /\ Len(s) = 2 * k
        /\ \A i \in 1 .. k : s[2 * i - 1] = NamePart(ls[i]) /\ s[2 * i] = ValuePart(ls[i])
    BY <1>7, <2>1 DEF SegmentsFor
  <2>4. /\ Len(s1) = 2 * k + 1 /\ s1[2 * k + 1] = a
        /\ \A i \in 1 .. 2 * k : s1[i] = s[i]
    BY <1>5, <1>8, <1>9, <2>3, AppendProperties
  <2>5. /\ s2 \in Seq(Seq(Nat)) /\ Len(s2) = (2 * k + 1) + 1 /\ s2[(2 * k + 1) + 1] = b
        /\ \A i \in 1 .. 2 * k + 1 : s2[i] = s1[i]
    BY <1>5, <1>8, <1>9, <2>4, AppendProperties
  <2>6. 2 * j = (2 * k + 1) + 1 /\ 2 * j - 1 = 2 * k + 1 /\ 2 * k + 1 \in 1 .. 2 * k + 1
    BY <2>2
  <2>7. ASSUME NEW i \in 1 .. j
        PROVE  s2[2 * i - 1] = NamePart(ls[i]) /\ s2[2 * i] = ValuePart(ls[i])
    <3>1. CASE i = j
      BY <1>1, <2>4, <2>5, <2>6, <3>1
    <3>2. CASE i # j
      <4>1. i \in 1 .. k
        BY <2>2, <3>2
      <4>2. 2 * i - 1 \in 1 .. 2 * k /\ 2 * i \in 1 .. 2 * k
            /\ 2 * i - 1 \in 1 .. 2 * k + 1 /\ 2 * i \in 1 .. 2 * k + 1
        BY <2>2, <4>1
      <4> QED BY <2>3, <2>4, <2>5, <4>1, <4>2
    <3> QED BY <3>1, <3>2
  <2> QED BY <2>5, <2>6, <2>7 DEF SegmentsFor
<1> QED BY <1>1, <1>12, <1>14, <1>15, <1>16 DEF PathOf

\* f appends the elements of seqs one after the other.
Flattens(f, seqs, n) ==
  f = [i \in 1 .. n |-> IF i = 1 THEN seqs[i] ELSE f[i - 1] \o seqs[i]]

\* It can be done.
LEMMA CanFlatten == ASSUME NEW seqs, NEW n \in Nat PROVE \E f : Flattens(f, seqs, n)
<1>1. PICK T : T = {m \in Nat : \E f : Flattens(f, seqs, m)}
  OBVIOUS
<1>2. 0 \in T
  <2>1. PICK f : f = [i \in 1 .. 0 |-> seqs[i]]
    OBVIOUS
  <2>2. f = [i \in 1 .. 0 |-> IF i = 1 THEN seqs[i] ELSE f[i - 1] \o seqs[i]]
    BY <2>1
  <2> QED BY <1>1, <2>2 DEF Flattens
<1>3. ASSUME NEW m \in Nat, m \in T PROVE m + 1 \in T
  <2>1. PICK f : Flattens(f, seqs, m)
    BY <1>1, <1>3
  <2>2. \A i \in 1 .. m : f[i] = IF i = 1 THEN seqs[i] ELSE f[i - 1] \o seqs[i]
    BY <2>1 DEF Flattens
  <2>3. PICK last : last = IF m + 1 = 1 THEN seqs[m + 1] ELSE f[m] \o seqs[m + 1]
    OBVIOUS
  <2>4. PICK g : g = [i \in 1 .. m + 1 |-> IF i = m + 1 THEN last ELSE f[i]]
    OBVIOUS
  <2>5. g[m + 1] = last /\ \A i \in 1 .. m : g[i] = f[i]
    BY <2>4
  <2>6. ASSUME NEW i \in 1 .. m + 1
        PROVE  g[i] = IF i = 1 THEN seqs[i] ELSE g[i - 1] \o seqs[i]
    <3>1. CASE i = 1 /\ i = m + 1
      BY <2>3, <2>5, <3>1
    <3>2. CASE i # 1 /\ i = m + 1
      <4>1. i - 1 = m /\ m \in 1 .. m /\ m + 1 # 1
        BY <3>2
      <4> QED BY <2>3, <2>5, <3>2, <4>1
    <3>3. CASE i # m + 1
      <4>1. i \in 1 .. m /\ (i = 1 \/ i - 1 \in 1 .. m)
        BY <3>3
      <4> QED BY <2>2, <2>5, <4>1
    <3> QED BY <3>1, <3>2, <3>3
  <2>7. g = [i \in 1 .. m + 1 |-> g[i]]
    BY <2>4
  <2>8. Flattens(g, seqs, m + 1)
    BY <2>6, <2>7 DEF Flattens
  <2> QED BY <1>1, <2>8
<1>4. Nat \subseteq T
  BY <1>2, <1>3, Induction
<1> QED BY <1>1, <1>4

\* FlattenSeq does it.
LEMMA Flattened ==
  ASSUME NEW seqs, NEW n \in Nat \ {0}, n = Len(seqs)
  PROVE  \E f : Flattens(f, seqs, n) /\ FlattenSeq(seqs) = f[n]
<1> DEFINE Solves(f) == f = [i \in 1 .. Len(seqs) |->
                             IF i = 1 THEN seqs[i] ELSE f[i - 1] \o seqs[i]]
<1>1. PICK f : f = CHOOSE g : Solves(g)
  OBVIOUS
<1>2. \E g : Solves(g)
  BY CanFlatten DEF Flattens
<1>3. Solves(f)
  <2> HIDE DEF Solves
  <2> QED BY <1>1, <1>2, Zenon
<1>4. Flattens(f, seqs, n)
  BY <1>3 DEF Flattens
<1>5. FlattenSeq(seqs) = f[n]
  <2>1. Len(seqs) # 0
    OBVIOUS
  <2> QED BY <1>1, <2>1, Zenon DEF FlattenSeq
<1> QED BY <1>4, <1>5

\* The path of a group has the two segments of each of its labels.
LEMMA UriIsPath == ASSUME NEW ls \in Seq(PathLabel) PROVE PathOf(ls, Len(ls), Uri(ls))
<1>1. PICK n, e : n = Len(ls) /\ e = [i \in 1 .. n |-> encodeLabel(ls[i])]
  OBVIOUS
<1>2. n \in Nat /\ DOMAIN ls = 1 .. n
  BY <1>1, LenProperties
<1>3. Uri(ls) = FlattenSeq(e)
  BY <1>1, <1>2 DEF Uri
<1>4. Len(e) = n
  <2>1. PICK S : S = {e[i] : i \in 1 .. n}
    OBVIOUS
  <2>2. e \in [1 .. n -> S]
    BY <1>1, <2>1
  <2> QED BY <1>2, <2>2, FunctionIsSeq
<1>5. CASE n = 0
  <2>1. FlattenSeq(e) = e
    BY <1>4, <1>5 DEF FlattenSeq
  <2>2. e = <<>>
    BY <1>1, <1>5
  <2> QED BY <1>1, <1>3, <1>5, <2>1, <2>2, EmptyPath
<1>6. CASE n # 0
  <2>1. n \in Nat \ {0}
    BY <1>2, <1>6
  <2>2. PICK f : Flattens(f, e, n) /\ FlattenSeq(e) = f[n]
    BY <1>4, <2>1, Flattened
  <2>3. \A i \in 1 .. n : f[i] = IF i = 1 THEN e[i] ELSE f[i - 1] \o e[i]
    BY <2>2 DEF Flattens
  <2>4. PICK T : T = {j \in Nat : j + 1 <= n => PathOf(ls, j + 1, f[j + 1])}
    OBVIOUS
  <2>5. 0 \in T
    <3>1. 1 \in 1 .. n /\ 1 - 1 = 0 /\ 0 + 1 = 1
      BY <2>1
    <3>2. PathOf(ls, 1, <<>> \o encodeLabel(ls[1]))
      <4>1. PathOf(ls, 1 - 1, <<>>)
        BY <3>1, EmptyPath
      <4> QED BY <1>1, <3>1, <4>1, LabelAdded
    <3>3. f[1] = encodeLabel(ls[1])
      BY <1>1, <2>3, <3>1
    <3>4. <<>> \o encodeLabel(ls[1]) = encodeLabel(ls[1])
      <4>1. encodeLabel(ls[1]) \in Seq(Nat)
        BY <1>1, <3>1, LabelText
      <4> QED BY <4>1, ConcatEmptySeq
    <3> QED BY <2>4, <3>1, <3>2, <3>3, <3>4
  <2>6. ASSUME NEW j \in Nat, j \in T PROVE j + 1 \in T
    <3>1. CASE (j + 1) + 1 <= n
      <4>1. PICK k : k = j + 1
        OBVIOUS
      <4>2. /\ k \in Nat /\ k + 1 \in 1 .. n /\ (k + 1) - 1 = k /\ k + 1 # 1
            /\ j + 1 <= n
        BY <2>1, <3>1, <4>1
      <4>3. PathOf(ls, k, f[k])
        BY <2>4, <2>6, <4>1, <4>2
      <4>4. f[k + 1] = f[k] \o encodeLabel(ls[k + 1])
        BY <1>1, <2>3, <4>2
      <4>5. PICK p, i : p = f[k] /\ i = k + 1
        OBVIOUS
      <4>6. i \in 1 .. Len(ls) /\ PathOf(ls, i - 1, p)
        BY <1>1, <4>2, <4>3, <4>5
      <4>7. PathOf(ls, i, p \o encodeLabel(ls[i]))
        BY <4>6, LabelAdded
      <4> QED BY <2>4, <4>1, <4>2, <4>4, <4>5, <4>7
    <3>2. CASE ~ ((j + 1) + 1 <= n)
      BY <2>4, <3>2
    <3> QED BY <3>1, <3>2
  <2>7. Nat \subseteq T
    BY <2>5, <2>6, Induction
  <2>8. n - 1 \in Nat /\ (n - 1) + 1 = n /\ n <= n
    BY <2>1
  <2>9. PathOf(ls, n, f[n])
    BY <2>4, <2>7, <2>8
  <2> QED BY <1>1, <1>3, <2>2, <2>9
<1> QED BY <1>5, <1>6

-----------------------------------------------------------------------------
\* What the server gets.

\* encodeLabel and base64url_encode: whatever the bytes of the values, the server
\* reads from a path the labels that it was made of.
THEOREM LabelsComeBack ==
  ASSUME NEW ls \in Seq(PathLabel)
  PROVE  /\ ServerReads(Uri(ls)) = ls
         /\ Len(Segments(Uri(ls))) = 2 * Len(ls)
         /\ \A c \in ToSet(Uri(ls)) : ~ needsEncoding(c) \/ c \in {Slash, Pad, Head(Marker)}
<1>1. PICK p, n : p = Uri(ls) /\ n = Len(ls)
  OBVIOUS
<1>2. n \in Nat /\ ls \in [1 .. n -> PathLabel]
  BY <1>1, LenProperties
<1>3. PathOf(ls, n, p)
  BY <1>1, UriIsPath
<1>4. p \in Seq(PathCodes)
  BY <1>3 DEF PathOf
<1>5. PICK s : SegmentsFor(ls, n, s) /\ Cutting(p, s)
  BY <1>3 DEF PathOf
<1>6. Segments(p) = s
  <2>1. PICK k : k = Len(p)
    OBVIOUS
  <2>2. k \in Nat
    BY <1>4, <2>1, LenProperties
  <2>3. PICK u : Cuts(u, p) /\ u[k] = s
    BY <1>5, <2>1 DEF Cutting
  <2> QED BY <2>1, <2>2, <2>3, SegmentsAre
<1>7. /\ Len(s) = 2 * n
      /\ \A i \in 1 .. n : s[2 * i - 1] = NamePart(ls[i]) /\ s[2 * i] = ValuePart(ls[i])
  BY <1>5 DEF SegmentsFor
<1>8. ServerReads(p) = ls
  <2>1. (2 * n) \div 2 = n
    BY <1>2
  <2>2. ServerReads(p) = [i \in 1 .. n |-> ServerLabel(s[2 * i - 1], s[2 * i])]
    BY <1>6, <1>7, <2>1 DEF ServerReads
  <2>3. \A i \in 1 .. n : ServerLabel(s[2 * i - 1], s[2 * i]) = ls[i]
    BY <1>2, <1>7, LabelComesBack
  <2>4. ls = [i \in 1 .. n |-> ls[i]]
    BY <1>2
  <2> QED BY <2>2, <2>3, <2>4
<1>9. ASSUME NEW c \in ToSet(p) PROVE ~ needsEncoding(c) \/ c \in {Slash, Pad, Head(Marker)}
  <2>1. c \in PathCodes
    BY <1>4, ElementOfSeq, LenProperties DEF ToSet
  <2> QED BY <2>1 DEF PathCodes, Clean
<1> QED BY <1>1, <1>6, <1>7, <1>8, <1>9

\* getUri: no two groups with different labels have one path, so that a push for one
\* never replaces the metrics of another.
THEOREM GroupsAreApart ==
  ASSUME NEW ls \in Seq(PathLabel), NEW ms \in Seq(PathLabel), Uri(ls) = Uri(ms)
  PROVE  ls = ms
<1>1. ServerReads(Uri(ls)) = ls
  BY LabelsComeBack
<1>2. ServerReads(Uri(ms)) = ms
  BY LabelsComeBack
<1> QED BY <1>1, <1>2

\* The labels that the run enumerates are labels of a group.
LEMMA LabelsAreLabels == PathSpec => [](labels \in Seq(PathLabel))
<1>1. PathInit => labels \in Seq(PathLabel)
  BY EmptySeq DEF PathInit
<1>2. labels \in Seq(PathLabel) /\ [PathNext]_labels => (labels \in Seq(PathLabel))'
  <2> SUFFICES ASSUME labels \in Seq(PathLabel), [PathNext]_labels
               PROVE  labels' \in Seq(PathLabel)
    OBVIOUS
  <2>1. ASSUME NEW n \in PathNames, NewPathLabel(n) PROVE labels' \in Seq(PathLabel)
    <3>1. PICK l : l = [name |-> n, value |-> <<>>]
      OBVIOUS
    <3>2. n \in Seq(NameChars) /\ <<>> \in Seq(Byte)
      BY EncoderAssumption, EmptySeq
    <3>3. l \in PathLabel
      BY <3>1, <3>2 DEF PathLabel
    <3>4. labels' = Append(labels, l)
      BY <2>1, <3>1 DEF NewPathLabel
    <3> QED BY <3>3, <3>4, AppendProperties
  <2>2. ASSUME NEW b \in PathBytes, ValueGrows(b) PROVE labels' \in Seq(PathLabel)
    <3>1. PICK ls, n : ls = labels /\ n = Len(labels)
      OBVIOUS
    <3>2. n \in Nat \ {0} /\ ls \in Seq(PathLabel) /\ n = Len(ls)
      BY <2>2, <3>1, EmptySeq DEF ValueGrows
    <3>3. PICK l : l = ls[n]
      OBVIOUS
    <3>4. l \in PathLabel
      <4>1. n \in 1 .. n
        BY <3>2
      <4> QED BY <3>2, <3>3, <4>1, ElementOfSeq
    <3>5. PICK m, w : w = Append(l.value, b) /\ m = [l EXCEPT !.value = w]
      OBVIOUS
    <3>6. w \in Seq(Byte)
      <4>1. b \in Byte /\ l.value \in Seq(Byte)
        BY <3>4, EncoderAssumption DEF PathLabel
      <4> QED BY <3>5, <4>1, AppendProperties
    <3>7. m \in PathLabel
      BY <3>4, <3>5, <3>6 DEF PathLabel
    <3>8. labels' = [ls EXCEPT ![n] = m]
      BY <2>2, <3>1, <3>3, <3>5 DEF ValueGrows
    <3>9. n \in 1 .. Len(ls)
      BY <3>2
    <3> QED BY <3>2, <3>7, <3>8, <3>9, ExceptSeq
  <2> QED BY <2>1, <2>2 DEF PathNext
<1> QED BY <1>1, <1>2, PTL DEF PathSpec

\* encodeLabel: LabelsRecovered, for labels of any number and values of any length.
THEOREM LabelsAreRecovered == PathSpec => []LabelsRecovered
<1>1. labels \in Seq(PathLabel) => LabelsRecovered
  BY LabelsComeBack DEF LabelsRecovered
<1> QED BY <1>1, LabelsAreLabels, PTL

-----------------------------------------------------------------------------
\* CKMSQuantiles: recursive functions.

\* f starts with b, and each value follows from the one before it.
Follows(f, n, b, step) == f[0] = b /\ \A i \in 1 .. n : f[i] = step[i][f[i - 1]]

\* A recursive definition on 0 .. n has a solution.
LEMMA Recursion ==
  ASSUME NEW S, NEW n \in Nat, NEW b \in S, NEW step \in [1 .. n -> [S -> S]]
  PROVE  \E f \in [0 .. n -> S] : Follows(f, n, b, step)
<1> DEFINE T == {m \in Nat : m <= n => \E f \in [0 .. m -> S] : Follows(f, m, b, step)}
<1>1. 0 \in T
  <2>1. [i \in 0 .. 0 |-> b] \in [0 .. 0 -> S] /\ Follows([i \in 0 .. 0 |-> b], 0, b, step)
    BY DEF Follows
  <2> QED
    BY <2>1
<1>2. ASSUME NEW m \in Nat, m \in T PROVE m + 1 \in T
  <2> SUFFICES ASSUME m + 1 <= n
               PROVE  \E f \in [0 .. m + 1 -> S] : Follows(f, m + 1, b, step)
    OBVIOUS
  <2>1. PICK f \in [0 .. m -> S] : Follows(f, m, b, step)
    BY <1>2
  <2>2. PICK g : g = [i \in 0 .. m + 1 |-> IF i = m + 1 THEN step[m + 1][f[m]] ELSE f[i]]
    OBVIOUS
  <2>3. step[m + 1] \in [S -> S] /\ f[m] \in S
    OBVIOUS
  <2>4. step[m + 1][f[m]] \in S
    BY <2>3
  <2>5. g \in [0 .. m + 1 -> S]
    BY <2>2, <2>4
  <2>6. Follows(g, m + 1, b, step)
    BY <2>1, <2>2 DEF Follows
  <2> QED
    BY <2>5, <2>6
<1>3. Nat \subseteq T
  <2> HIDE DEF T
  <2> QED
    BY <1>1, <1>2, Induction
<1> QED
  BY <1>3

-----------------------------------------------------------------------------
\* Totals of weights.

Weighs(w, n) == \A i \in 1 .. n : w[i] \in Nat

\* u adds up the weights one after the other.
AddsUp(u, w, n) ==
  u \in [0 .. n -> Nat] /\ u[0] = 0 /\ \A i \in 1 .. n : u[i] = u[i - 1] + w[i]

\* Total adds up the weights one after the other.
LEMMA TotalAdds ==
  ASSUME NEW n \in Nat, NEW w, Weighs(w, n)
  PROVE  \E u : AddsUp(u, w, n) /\ Total(w, n) = u[n]
<1> DEFINE Solves(u) == u = [i \in 0 .. n |-> IF i = 0 THEN 0 ELSE u[i - 1] + w[i]]
<1>1. Total(w, n) = (CHOOSE u : Solves(u))[n]
  BY Zenon DEF Total
<1>2. PICK step : step = [i \in 1 .. n |-> [x \in Nat |-> x + w[i]]]
  OBVIOUS
<1>3. step \in [1 .. n -> [Nat -> Nat]] /\ 0 \in Nat
  <2>1. \A i \in 1 .. n : w[i] \in Nat
    BY DEF Weighs
  <2>2. \A i \in 1 .. n : \A x \in Nat : x + w[i] \in Nat
    BY <2>1
  <2>3. \A i \in 1 .. n : [x \in Nat |-> x + w[i]] \in [Nat -> Nat]
    BY <2>2
  <2> QED BY <1>2, <2>3
<1>4. PICK u \in [0 .. n -> Nat] : Follows(u, n, 0, step)
  BY <1>3, Recursion
<1>5. AddsUp(u, w, n)
  <2>1. \A i \in 1 .. n : i - 1 \in 0 .. n /\ u[i] = step[i][u[i - 1]]
    BY <1>4 DEF Follows
  <2>2. \A i \in 1 .. n : u[i] = u[i - 1] + w[i]
    BY <1>2, <2>1
  <2> QED BY <1>4, <2>2 DEF AddsUp, Follows
<1>6. Solves(u)
  <2>1. \A i \in 0 .. n : u[i] = IF i = 0 THEN 0 ELSE u[i - 1] + w[i]
    BY <1>5 DEF AddsUp
  <2>2. u = [i \in 0 .. n |-> u[i]]
    OBVIOUS
  <2> QED BY <2>1, <2>2
<1>7. PICK v : v = CHOOSE x : Solves(x)
  OBVIOUS
<1>8. Solves(v)
  <2> HIDE DEF Solves
  <2> QED BY <1>6, <1>7, Zenon
<1>9. v[0] = 0 /\ \A i \in 1 .. n : v[i] = v[i - 1] + w[i]
  <2>1. \A i \in 0 .. n : v[i] = IF i = 0 THEN 0 ELSE v[i - 1] + w[i]
    BY <1>8
  <2> QED BY <2>1
<1> DEFINE T == {m \in Nat : m <= n => v[m] = u[m]}
<1>10. 0 \in T
  BY <1>5, <1>9 DEF AddsUp
<1>11. ASSUME NEW m \in Nat, m \in T PROVE m + 1 \in T
  <2> SUFFICES ASSUME m + 1 <= n PROVE v[m + 1] = u[m + 1]
    OBVIOUS
  <2>1. m + 1 \in 1 .. n /\ (m + 1) - 1 = m /\ v[m] = u[m]
    BY <1>11
  <2> QED BY <1>5, <1>9, <2>1 DEF AddsUp
<1>12. n \in T
  <2> HIDE DEF T
  <2> QED BY <1>10, <1>11, Induction
<1>13. Total(w, n) = u[n]
  <2> HIDE DEF Solves
  <2>1. Total(w, n) = v[n]
    BY <1>1, <1>7
  <2> QED BY <1>12, <2>1
<1> QED BY <1>5, <1>13

\* Nothing weighs 0, and one weight more is added.
LEMMA TotalNext ==
  ASSUME NEW n \in Nat, NEW w, Weighs(w, n)
  PROVE  /\ Total(w, n) \in Nat /\ Total(w, 0) = 0
         /\ n > 0 => Total(w, n) = Total(w, n - 1) + w[n]
<1>1. PICK u : AddsUp(u, w, n) /\ Total(w, n) = u[n]
  BY TotalAdds
<1>2. Total(w, 0) = 0
  <2>1. Weighs(w, 0) /\ 0 \in Nat
    BY DEF Weighs
  <2>2. PICK v : AddsUp(v, w, 0) /\ Total(w, 0) = v[0]
    BY <2>1, TotalAdds
  <2> QED BY <2>2 DEF AddsUp
<1>3. ASSUME n > 0 PROVE Total(w, n) = Total(w, n - 1) + w[n]
  <2>1. PICK k \in Nat : n = k + 1
    <3>1. n - 1 \in Nat /\ n = (n - 1) + 1
      BY <1>3
    <3> QED BY <3>1
  <2>2. Weighs(w, k)
    BY <2>1 DEF Weighs
  <2>3. PICK v : AddsUp(v, w, k) /\ Total(w, k) = v[k]
    BY <2>2, TotalAdds
  <2> DEFINE T == {m \in Nat : m <= k => v[m] = u[m]}
  <2>4. 0 \in T
    BY <1>1, <2>3 DEF AddsUp
  <2>5. ASSUME NEW m \in Nat, m \in T PROVE m + 1 \in T
    <3> SUFFICES ASSUME m + 1 <= k PROVE v[m + 1] = u[m + 1]
      OBVIOUS
    <3>1. m + 1 \in 1 .. k /\ m + 1 \in 1 .. n /\ (m + 1) - 1 = m /\ v[m] = u[m]
      BY <2>1, <2>5
    <3> QED BY <1>1, <2>3, <3>1 DEF AddsUp
  <2>6. k \in T
    <3> HIDE DEF T
    <3> QED BY <2>4, <2>5, Induction
  <2>7. n \in 1 .. n /\ n - 1 = k
    BY <2>1
  <2> QED BY <1>1, <2>3, <2>6, <2>7 DEF AddsUp
<1>4. Total(w, n) \in Nat
  BY <1>1 DEF AddsUp
<1> QED BY <1>2, <1>3, <1>4

\* The first of some weights are weights.
LEMMA WeighsLess ==
  ASSUME NEW n \in Nat, NEW m \in 0 .. n, NEW w, Weighs(w, n)
  PROVE  Weighs(w, m)
<1>1. \A i \in 1 .. m : i \in 1 .. n
  OBVIOUS
<1> QED BY <1>1 DEF Weighs

\* Weights that are no greater have no greater total.
LEMMA TotalMonotonic ==
  ASSUME NEW n \in Nat, NEW v, NEW w, Weighs(v, n), Weighs(w, n),
         \A i \in 1 .. n : v[i] <= w[i]
  PROVE  Total(v, n) <= Total(w, n)
<1> DEFINE T == {m \in Nat : m <= n => Total(v, m) <= Total(w, m)}
<1>0. ASSUME NEW m \in 0 .. n PROVE Weighs(v, m) /\ Weighs(w, m)
  BY DEF Weighs
<1>1. 0 \in T
  <2>1. Total(v, 0) = 0 /\ Total(w, 0) = 0
    BY TotalNext
  <2> QED BY <2>1
<1>2. ASSUME NEW m \in Nat, m \in T PROVE m + 1 \in T
  <2> SUFFICES ASSUME m + 1 <= n PROVE Total(v, m + 1) <= Total(w, m + 1)
    OBVIOUS
  <2>1. PICK k \in Nat : k = m + 1 /\ k > 0 /\ k - 1 = m
    OBVIOUS
  <2>2. Weighs(v, k) /\ Weighs(w, k) /\ Weighs(v, m) /\ Weighs(w, m)
    BY <1>0, <2>1
  <2>3. Total(v, k) = Total(v, m) + v[k] /\ Total(w, k) = Total(w, m) + w[k]
    BY <2>1, <2>2, TotalNext
  <2>4. Total(v, m) \in Nat /\ Total(w, m) \in Nat /\ v[k] \in Nat /\ w[k] \in Nat
        /\ v[k] <= w[k] /\ Total(v, m) <= Total(w, m)
    BY <1>2, <2>1, <2>2, TotalNext DEF Weighs
  <2> QED BY <2>1, <2>3, <2>4
<1>3. n \in T
  <2> HIDE DEF T
  <2> QED BY <1>1, <1>2, Induction
<1> QED BY <1>3

\* Equal weights have equal totals.
LEMMA TotalSame ==
  ASSUME NEW n \in Nat, NEW v, NEW w, Weighs(v, n), \A i \in 1 .. n : v[i] = w[i]
  PROVE  Total(v, n) = Total(w, n)
<1>1. Weighs(w, n)
  BY DEF Weighs
<1>2. (\A i \in 1 .. n : v[i] <= w[i]) /\ (\A i \in 1 .. n : w[i] <= v[i])
  BY DEF Weighs
<1>3. Total(v, n) <= Total(w, n) /\ Total(w, n) <= Total(v, n)
  BY <1>1, <1>2, TotalMonotonic
<1>4. Total(v, n) \in Nat /\ Total(w, n) \in Nat
  BY <1>1, TotalNext
<1> QED BY <1>3, <1>4

\* w is v with one more weight, behind the first k.
WeightInserted(v, w, n, k) ==
  /\ \A i \in 1 .. k : w[i] = v[i]
  /\ \A i \in k + 1 .. n : w[i + 1] = v[i]

\* One more weight is in every total from its place on.
LEMMA TotalInserted ==
  ASSUME NEW n \in Nat, NEW k \in 0 .. n, NEW v, NEW w, Weighs(v, n), Weighs(w, n + 1),
         WeightInserted(v, w, n, k)
  PROVE  /\ \A m \in 0 .. k : Total(w, m) = Total(v, m)
         /\ \A m \in k .. n : Total(w, m + 1) = Total(v, m) + w[k + 1]
<1>0. ASSUME NEW m \in 0 .. n PROVE Weighs(v, m) /\ Weighs(w, m) /\ Weighs(w, m + 1)
  BY DEF Weighs
<1>1. ASSUME NEW m \in 0 .. k PROVE Total(w, m) = Total(v, m)
  <2>1. m \in 0 .. n /\ \A i \in 1 .. m : v[i] = w[i]
    BY DEF WeightInserted
  <2> QED BY <1>0, <2>1, TotalSame
<1> DEFINE T == {d \in Nat : k + d <= n => Total(w, k + d + 1) = Total(v, k + d) + w[k + 1]}
<1>2. 0 \in T
  <2>1. k \in 0 .. n /\ k + 1 \in Nat /\ k + 1 > 0 /\ (k + 1) - 1 = k /\ k + 0 = k
        /\ k \in 0 .. k
    OBVIOUS
  <2>2. Total(w, k + 1) = Total(w, k) + w[k + 1]
    BY <1>0, <2>1, TotalNext
  <2> QED BY <1>1, <2>1, <2>2
<1>3. ASSUME NEW d \in Nat, d \in T PROVE d + 1 \in T
  <2> SUFFICES ASSUME k + (d + 1) <= n
               PROVE  Total(w, k + (d + 1) + 1) = Total(v, k + (d + 1)) + w[k + 1]
    OBVIOUS
  <2>1. PICK a \in Nat, b \in Nat : a = k + d + 1 /\ b = a + 1
    OBVIOUS
  <2>2. a > 0 /\ a - 1 = k + d /\ b > 0 /\ b - 1 = a /\ a \in 0 .. n /\ a \in k + 1 .. n
        /\ k + (d + 1) = a /\ k + (d + 1) + 1 = b /\ k + d <= n
    BY <2>1
  <2>3. Total(w, b) = Total(w, a) + w[b]
    BY <1>0, <2>1, <2>2, TotalNext
  <2>4. Total(v, a) = Total(v, k + d) + v[a]
    BY <1>0, <2>2, TotalNext
  <2>5. w[b] = v[a]
    BY <2>1, <2>2 DEF WeightInserted
  <2>6. Total(w, a) = Total(v, k + d) + w[k + 1]
    BY <1>3, <2>1, <2>2
  <2>7. Total(v, k + d) \in Nat /\ v[a] \in Nat /\ w[k + 1] \in Nat
    <3>1. k + d \in 0 .. n /\ k + 1 \in 1 .. n + 1 /\ a \in 1 .. n
      BY <2>2
    <3> QED BY <1>0, <3>1, TotalNext DEF Weighs
  <2> QED BY <2>2, <2>3, <2>4, <2>5, <2>6, <2>7
<1>4. Nat \subseteq T
  <2> HIDE DEF T
  <2> QED BY <1>2, <1>3, Induction
<1>5. ASSUME NEW m \in k .. n PROVE Total(w, m + 1) = Total(v, m) + w[k + 1]
  <2>1. m - k \in T /\ k + (m - k) = m /\ m <= n
    BY <1>4
  <2> QED BY <2>1
<1> QED BY <1>1, <1>5

-----------------------------------------------------------------------------
\* Sequences with one more element.

\* z is s, of n elements, with e behind the first k.
OneMore(S, z, s, n, k, e) ==
  /\ z \in Seq(S) /\ Len(z) = n + 1 /\ z[k + 1] = e
  /\ \A i \in 1 .. k : z[i] = s[i]
  /\ \A i \in k + 1 .. n : z[i + 1] = s[i]

\* What InsertAt does, element by element.
LEMMA Inserts ==
  ASSUME NEW S, NEW s \in Seq(S), NEW n, n = Len(s), NEW k \in 0 .. n, NEW e \in S,
         NEW z, z = InsertAt(s, k + 1, e)
  PROVE  OneMore(S, z, s, n, k, e)
<1>1. n \in Nat /\ \A i \in 1 .. n : s[i] \in S
  BY LenProperties, ElementOfSeq
<1>2. PICK a, b, c, d : a = SubSeq(s, 1, k) /\ b = <<e>> /\ c = SubSeq(s, k + 1, n) /\ d = a \o b
  OBVIOUS
<1>3. z = d \o c
  <2>1. (k + 1) - 1 = k
    OBVIOUS
  <2> QED BY <1>2, <2>1 DEF InsertAt
<1>4. a \in Seq(S) /\ Len(a) = k /\ \A i \in 1 .. k : a[i] = s[i]
  <2>1. /\ SubSeq(s, 1, k) \in Seq(S)
        /\ Len(SubSeq(s, 1, k)) = (IF 1 <= k THEN k - 1 + 1 ELSE 0)
        /\ \A i \in 1 .. k - 1 + 1 : SubSeq(s, 1, k)[i] = s[1 + i - 1]
    <3>1. \A i \in 1 .. k : s[i] \in S
      BY <1>1
    <3> QED BY <1>1, <3>1, SubSeqProperties
  <2>2. (IF 1 <= k THEN k - 1 + 1 ELSE 0) = k /\ k - 1 + 1 = k
        /\ \A i \in 1 .. k : 1 + i - 1 = i
    BY <1>1
  <2> QED BY <1>2, <2>1, <2>2
<1>5. c \in Seq(S) /\ Len(c) = n - k /\ \A i \in 1 .. n - k : c[i] = s[k + i]
  <2>1. PICK l : l = k + 1
    OBVIOUS
  <2>2. /\ SubSeq(s, l, n) \in Seq(S)
        /\ Len(SubSeq(s, l, n)) = (IF l <= n THEN n - l + 1 ELSE 0)
        /\ \A i \in 1 .. n - l + 1 : SubSeq(s, l, n)[i] = s[l + i - 1]
    <3>1. l \in Int /\ n \in Int /\ \A i \in l .. n : s[i] \in S
      BY <1>1, <2>1
    <3> QED BY <3>1, SubSeqProperties
  <2>3. (IF l <= n THEN n - l + 1 ELSE 0) = n - k /\ n - l + 1 = n - k
        /\ \A i \in 1 .. n - k : l + i - 1 = k + i
    BY <1>1, <2>1
  <2> QED BY <1>2, <2>1, <2>2, <2>3
<1>6. b \in Seq(S) /\ Len(b) = 1 /\ b[1] = e
  BY <1>2
<1>7. Joined(S, d, a, b, k, 1)
  BY <1>2, <1>4, <1>6, Joins
<1>8. PICK m, l : m = k + 1 /\ l = n - k
  OBVIOUS
<1>9. Joined(S, z, d, c, m, l)
  <2>1. d \in Seq(S) /\ m = Len(d) /\ l = Len(c)
    BY <1>5, <1>7, <1>8 DEF Joined
  <2> QED BY <1>3, <1>5, <2>1, Joins
<1>10. z \in Seq(S) /\ Len(z) = n + 1
  BY <1>1, <1>8, <1>9 DEF Joined
<1>11. z[k + 1] = e
  <2>1. d[k + 1] = b[1] /\ k + 1 \in 1 .. m
    BY <1>7, <1>8 DEF Joined
  <2> QED BY <1>6, <1>9, <2>1 DEF Joined
<1>12. ASSUME NEW i \in 1 .. k PROVE z[i] = s[i]
  <2>1. i \in 1 .. m /\ d[i] = a[i] /\ a[i] = s[i]
    BY <1>4, <1>7, <1>8 DEF Joined
  <2> QED BY <1>9, <2>1 DEF Joined
<1>13. ASSUME NEW i \in k + 1 .. n PROVE z[i + 1] = s[i]
  <2>1. PICK j : j = i - k
    OBVIOUS
  <2>2. j \in 1 .. l /\ j \in 1 .. n - k /\ m + j = i + 1 /\ k + j = i
    BY <1>1, <1>8, <2>1
  <2>3. z[m + j] = c[j] /\ c[j] = s[k + j]
    BY <1>5, <1>9, <2>2 DEF Joined
  <2> QED BY <2>2, <2>3
<1> QED BY <1>10, <1>11, <1>12, <1>13 DEF OneMore

\* Append puts its element behind all others.
LEMMA Appends ==
  ASSUME NEW S, NEW s \in Seq(S), NEW n, n = Len(s), NEW e \in S, NEW z, z = Append(s, e)
  PROVE  OneMore(S, z, s, n, n, e)
<1>1. n \in Nat
  BY LenProperties
<1>2. z \in Seq(S) /\ Len(z) = n + 1 /\ z[n + 1] = e /\ \A i \in 1 .. n : z[i] = s[i]
  BY AppendProperties
<1> QED BY <1>1, <1>2 DEF OneMore

\* A sequence over a set is one over a larger set.
LEMMA SeqOver ==
  ASSUME NEW S, NEW E \in SUBSET S, NEW s \in Seq(E)
  PROVE  s \in Seq(S)
<1>1. Len(s) \in Nat /\ s \in [1 .. Len(s) -> E]
  BY LenProperties
<1>2. s \in [1 .. Len(s) -> S]
  BY <1>1
<1> QED BY <1>1, <1>2, FunctionIsSeq

-----------------------------------------------------------------------------
\* How many values are v or less.

One(e, v) == IF e <= v THEN 1 ELSE 0
AtMost(values, v) == [i \in DOMAIN values |-> IF values[i] <= v THEN 1 ELSE 0]

\* Each of the values weighs one or nothing.
LEMMA ValuesWeigh ==
  ASSUME NEW values \in Seq(Int), NEW n, n = Len(values), NEW v
  PROVE  /\ n \in Nat /\ Weighs(AtMost(values, v), n)
         /\ \A i \in 1 .. n : AtMost(values, v)[i] = One(values[i], v)
         /\ UpTo(values, v) = Total(AtMost(values, v), n)
<1>1. n \in Nat /\ DOMAIN values = 1 .. n
  BY LenProperties
<1> QED BY <1>1 DEF Weighs, AtMost, UpTo, One

\* Of some values, none to all are v or less, and more the greater v is.
LEMMA UpToBounds ==
  ASSUME NEW values \in Seq(Int), NEW n, n = Len(values), NEW v \in Int
  PROVE  /\ UpTo(values, v) \in 0 .. n
         /\ \A w \in Int : v <= w => UpTo(values, v) <= UpTo(values, w)
<1>1. n \in Nat /\ Weighs(AtMost(values, v), n) /\ UpTo(values, v) = Total(AtMost(values, v), n)
      /\ (\A i \in 1 .. n : AtMost(values, v)[i] = One(values[i], v))
      /\ \A i \in 1 .. n : values[i] \in Int
  BY ValuesWeigh, ElementOfSeq
<1>2. UpTo(values, v) \in Nat
  BY <1>1, TotalNext
<1>3. UpTo(values, v) <= n
  <2> DEFINE T == {m \in Nat : m <= n => Total(AtMost(values, v), m) <= m}
  <2>1. 0 \in T
    BY <1>1, TotalNext
  <2>2. ASSUME NEW m \in Nat, m \in T PROVE m + 1 \in T
    <3> SUFFICES ASSUME m + 1 <= n PROVE Total(AtMost(values, v), m + 1) <= m + 1
      OBVIOUS
    <3>1. PICK k, w : k \in Nat /\ k = m + 1 /\ k > 0 /\ k - 1 = m /\ w = AtMost(values, v)
      OBVIOUS
    <3>2. Weighs(w, k) /\ Weighs(w, m) /\ w[k] <= 1 /\ w[k] \in Nat
      BY <1>1, <3>1 DEF Weighs, One
    <3>3. Total(w, k) = Total(w, m) + w[k] /\ Total(w, m) \in Nat
      BY <3>1, <3>2, TotalNext
    <3>4. Total(w, m) <= m
      BY <2>2, <3>1
    <3> QED BY <3>1, <3>2, <3>3, <3>4
  <2>3. n \in T
    <3> HIDE DEF T
    <3> QED BY <1>1, <2>1, <2>2, Induction
  <2> QED BY <1>1, <2>3
<1>4. ASSUME NEW w \in Int, v <= w PROVE UpTo(values, v) <= UpTo(values, w)
  <2>1. /\ Weighs(AtMost(values, w), n) /\ UpTo(values, w) = Total(AtMost(values, w), n)
        /\ \A i \in 1 .. n : AtMost(values, w)[i] = One(values[i], w)
    BY ValuesWeigh
  <2>2. \A i \in 1 .. n : AtMost(values, v)[i] <= AtMost(values, w)[i]
    BY <1>1, <1>4, <2>1 DEF One
  <2> QED BY <1>1, <2>1, <2>2, TotalMonotonic
<1> QED BY <1>2, <1>3, <1>4

\* One value more counts for itself.
LEMMA UpToInserted ==
  ASSUME NEW s \in Seq(Int), NEW z \in Seq(Int), NEW n, n = Len(s), NEW k \in 0 .. n, NEW e \in Int,
         OneMore(Int, z, s, n, k, e), NEW v \in Int
  PROVE  UpTo(z, v) = UpTo(s, v) + One(e, v)
<1>1. PICK f, g, m : f = AtMost(s, v) /\ g = AtMost(z, v) /\ m = n + 1
  OBVIOUS
<1>2. n \in Nat /\ m = Len(z) /\ m \in Nat
  BY <1>1, LenProperties DEF OneMore
<1>3. Weighs(f, n) /\ UpTo(s, v) = Total(f, n) /\ \A i \in 1 .. n : f[i] = One(s[i], v)
  BY <1>1, <1>2, ValuesWeigh
<1>4. Weighs(g, m) /\ UpTo(z, v) = Total(g, m) /\ \A i \in 1 .. m : g[i] = One(z[i], v)
  BY <1>1, <1>2, ValuesWeigh
<1>5. WeightInserted(f, g, n, k)
  <2>1. ASSUME NEW i \in 1 .. k PROVE g[i] = f[i]
    <3>1. i \in 1 .. n /\ i \in 1 .. m /\ z[i] = s[i]
      BY <1>1, <1>2 DEF OneMore
    <3> QED BY <1>3, <1>4, <3>1
  <2>2. ASSUME NEW i \in k + 1 .. n PROVE g[i + 1] = f[i]
    <3>1. i \in 1 .. n /\ i + 1 \in 1 .. m /\ z[i + 1] = s[i]
      BY <1>1, <1>2 DEF OneMore
    <3> QED BY <1>3, <1>4, <3>1
  <2> QED BY <2>1, <2>2 DEF WeightInserted
<1>6. Total(g, n + 1) = Total(f, n) + g[k + 1]
  <2>1. n \in k .. n
    BY <1>2
  <2>2. Weighs(g, n + 1)
    BY <1>1, <1>4
  <2>3. \A j \in k .. n : Total(g, j + 1) = Total(f, j) + g[k + 1]
    BY <1>2, <1>3, <1>5, <2>2, TotalInserted
  <2> QED BY <2>1, <2>3
<1>7. g[k + 1] = One(e, v)
  <2>1. k + 1 \in 1 .. m /\ z[k + 1] = e
    BY <1>1, <1>2 DEF OneMore
  <2> QED BY <1>4, <2>1
<1> QED BY <1>1, <1>3, <1>4, <1>6, <1>7

\* Of no values, none is v or less.
LEMMA UpToNothing == ASSUME NEW v PROVE UpTo(<<>>, v) = 0
<1>1. PICK s, n : s = <<>> /\ n = 0
  OBVIOUS
<1>2. s \in Seq(Int) /\ n = Len(s)
  BY <1>1
<1>3. Weighs(AtMost(s, v), n) /\ UpTo(s, v) = Total(AtMost(s, v), n) /\ n \in Nat
  BY <1>2, ValuesWeigh
<1>4. Total(AtMost(s, v), 0) = 0
  BY <1>3, TotalNext
<1> QED BY <1>1, <1>3, <1>4

-----------------------------------------------------------------------------
\* The batch, sorted.

\* z has the values of s and e.
Grown(z, s, e, E) ==
  /\ z \in Seq(E) /\ Len(z) = Len(s) + 1
  /\ \A v \in Int : UpTo(z, v) = UpTo(s, v) + One(e, v)

\* A value in its place: one more of it.
LEMMA PlacedOneMore ==
  ASSUME NEW E \in SUBSET Int, NEW s \in Seq(E), NEW e \in E, NEW z, z = Placed(s, e)
  PROVE  Grown(z, s, e, E)
<1>1. PICK k, n : k = UpTo(s, e) /\ n = Len(s)
  OBVIOUS
<1>2. s \in Seq(Int) /\ e \in Int
  BY SeqOver
<1>3. k \in 0 .. n /\ n = Len(s)
  BY <1>1, <1>2, UpToBounds
<1>4. z = InsertAt(s, k + 1, e)
  BY <1>1 DEF Placed
<1>5. OneMore(E, z, s, n, k, e)
  BY <1>3, <1>4, Inserts
<1>6. OneMore(Int, z, s, n, k, e)
  BY <1>2, <1>3, <1>4, Inserts
<1>7. z \in Seq(Int) /\ z \in Seq(E) /\ Len(z) = n + 1
  BY <1>5, <1>6 DEF OneMore
<1>8. \A v \in Int : UpTo(z, v) = UpTo(s, v) + One(e, v)
  BY <1>2, <1>3, <1>6, <1>7, UpToInserted
<1> QED BY <1>3, <1>7, <1>8 DEF Grown

\* y has the values of x.
SameValues(y, x, E) ==
  /\ y \in Seq(E) /\ Len(y) = Len(x)
  /\ \A v \in Int : UpTo(y, v) = UpTo(x, v)

\* std::sort keeps the values.
LEMMA SortKeeps ==
  ASSUME NEW E \in SUBSET Int, NEW values \in Seq(E)
  PROVE  SameValues(Sorted(values), values, E)
<1>1. PICK n, S : n = Len(values) /\ S = Seq(E)
  OBVIOUS
<1>2. n \in Nat /\ <<>> \in S /\ (\A i \in 1 .. n : values[i] \in E) /\ values \in Seq(Int)
  <2>1. values \in Seq(Int)
    BY SeqOver
  <2> QED BY <1>1, <2>1, LenProperties, ElementOfSeq, EmptySeq
<1> DEFINE Solves(u) == u = [i \in 0 .. Len(values) |->
                             IF i = 0 THEN <<>> ELSE Placed(u[i - 1], values[i])]
<1>3. Sorted(values) = (CHOOSE u : Solves(u))[n]
  BY <1>1, Zenon DEF Sorted
<1>4. PICK step : step = [i \in 1 .. n |-> [x \in S |-> Placed(x, values[i])]]
  OBVIOUS
<1>5. step \in [1 .. n -> [S -> S]]
  <2>1. \A i \in 1 .. n : \A x \in S : Placed(x, values[i]) \in S
    BY <1>1, <1>2, PlacedOneMore DEF Grown
  <2>2. \A i \in 1 .. n : [x \in S |-> Placed(x, values[i])] \in [S -> S]
    BY <2>1
  <2> QED BY <1>4, <2>2
<1>6. PICK u \in [0 .. n -> S] : Follows(u, n, <<>>, step)
  BY <1>2, <1>5, Recursion
<1>7. Solves(u)
  <2>1. \A i \in 1 .. n : i - 1 \in 0 .. n /\ u[i] = step[i][u[i - 1]] /\ u[i - 1] \in S
    BY <1>2, <1>6 DEF Follows
  <2>2. \A i \in 1 .. n : u[i] = Placed(u[i - 1], values[i])
    BY <1>4, <2>1
  <2>3. \A i \in 0 .. n : u[i] = IF i = 0 THEN <<>> ELSE Placed(u[i - 1], values[i])
    BY <1>6, <2>2 DEF Follows
  <2>4. u = [i \in 0 .. n |-> u[i]]
    OBVIOUS
  <2> QED BY <1>1, <2>3, <2>4
<1>8. PICK f : f = CHOOSE x : Solves(x)
  OBVIOUS
<1>9. Solves(f)
  <2> HIDE DEF Solves
  <2> QED BY <1>7, <1>8, Zenon
<1>10. f[0] = <<>> /\ \A i \in 1 .. n : f[i] = Placed(f[i - 1], values[i])
  <2>1. \A i \in 0 .. n : f[i] = IF i = 0 THEN <<>> ELSE Placed(f[i - 1], values[i])
    BY <1>1, <1>9
  <2> QED BY <1>2, <2>1
<1> HIDE DEF Solves
<1> DEFINE Good(m) == /\ f[m] \in S /\ Len(f[m]) = m
                      /\ \A v \in Int : UpTo(f[m], v) = Total(AtMost(values, v), m)
           T == {m \in Nat : m <= n => Good(m)}
<1>11. \A v \in Int : Weighs(AtMost(values, v), n)
                      /\ (\A i \in 1 .. n : AtMost(values, v)[i] = One(values[i], v))
                      /\ UpTo(values, v) = Total(AtMost(values, v), n)
  BY <1>1, <1>2, ValuesWeigh
<1>12. 0 \in T
  <2>1. \A v \in Int : Total(AtMost(values, v), 0) = 0
    BY <1>2, <1>11, TotalNext
  <2> QED BY <1>1, <1>2, <1>10, <2>1, UpToNothing, EmptySeq
<1>13. ASSUME NEW m \in Nat, m \in T PROVE m + 1 \in T
  <2> SUFFICES ASSUME m + 1 <= n PROVE Good(m + 1)
    OBVIOUS
  <2>1. PICK k, e : k = m + 1 /\ e = values[k]
    OBVIOUS
  <2>2. k \in 1 .. n /\ k \in Nat /\ k > 0 /\ k - 1 = m /\ m <= n /\ e \in E
    BY <1>2, <2>1
  <2>3. f[m] \in Seq(E) /\ Len(f[m]) = m
        /\ \A v \in Int : UpTo(f[m], v) = Total(AtMost(values, v), m)
    BY <1>1, <1>13, <2>2
  <2>4. f[k] = Placed(f[m], e)
    BY <1>10, <2>1, <2>2
  <2>5. f[k] \in Seq(E) /\ Len(f[k]) = m + 1
        /\ \A v \in Int : UpTo(f[k], v) = UpTo(f[m], v) + One(e, v)
    <3>1. PICK x, z : x = f[m] /\ z = f[k]
      OBVIOUS
    <3>2. x \in Seq(E) /\ m = Len(x) /\ z = Placed(x, e)
      BY <2>3, <2>4, <3>1
    <3>3. z \in Seq(E) /\ Len(z) = m + 1
          /\ \A v \in Int : UpTo(z, v) = UpTo(x, v) + One(e, v)
      <4>1. e \in E
        BY <2>2
      <4>2. Grown(z, x, e, E)
        BY <3>2, <4>1, PlacedOneMore, Zenon
      <4> QED BY <3>2, <4>2 DEF Grown
    <3> QED BY <3>1, <3>3
  <2>6. ASSUME NEW v \in Int PROVE UpTo(f[k], v) = Total(AtMost(values, v), k)
    <3>1. PICK w : w = AtMost(values, v)
      OBVIOUS
    <3>2. Weighs(w, n) /\ w[k] = One(e, v)
      BY <1>11, <2>1, <2>2, <3>1
    <3>4. Weighs(w, k)
      BY <1>2, <2>2, <3>2 DEF Weighs
    <3>3. Total(w, k) = Total(w, m) + w[k]
      BY <2>2, <3>4, TotalNext
    <3> QED BY <2>3, <2>5, <3>1, <3>2, <3>3
  <2> QED BY <1>1, <2>1, <2>5, <2>6
<1>14. Good(n)
  <2>1. n \in T
    <3> HIDE DEF T
    <3> QED BY <1>2, <1>12, <1>13, Induction
  <2> QED BY <1>2, <2>1
<1>15. Sorted(values) = f[n]
  BY <1>3, <1>8
<1> QED BY <1>1, <1>11, <1>14, <1>15 DEF SameValues

-----------------------------------------------------------------------------
\* allowableError.

\* What the quantiles of the targets are made of.
TargetsHold == \A x \in quantiles : x.quantile \in 0 .. Scale /\ x.error \in 0 .. Scale

\* A division by a positive number, rounded down.
LEMMA DivisionProperties ==
  ASSUME NEW a \in Nat, NEW d \in Nat \ {0}
  PROVE  a \div d \in Nat /\ d * (a \div d) <= a /\ a < d * (a \div d) + d
  BY SMT

\* A set of numbers with a number in it has a least one, and Min is that.
LEMMA MinProperties ==
  ASSUME NEW S \in SUBSET Nat, NEW n \in S
  PROVE  Min(S) \in S /\ Min(S) <= n /\ \A x \in S : Min(S) <= x
<1>1. \E x \in S : \A y \in S : x <= y
  BY LeastNatural
<1>2. Min(S) \in S /\ \A y \in S : Min(S) <= y
  BY <1>1, Zenon DEF Min
<1> QED BY <1>2

\* The errors that the quantiles allow at a rank.
Before(rank, total) == {x \in quantiles : Scale * rank <= x.quantile * total}
ByU(x, rank, total) == (2 * x.error * (total - rank)) \div (Scale - x.quantile)
ByV(x, rank) == (2 * x.error * rank) \div x.quantile

Allowed(rank, total) ==
  {total + 1}
  \cup {ByU(x, rank, total) : x \in {y \in Before(rank, total) : y.quantile < Scale}}
  \cup {ByV(x, rank) : x \in {y \in quantiles \ Before(rank, total) : y.quantile > 0}}

\* allowableError is the least of them.
LEMMA AllowableErrorIs ==
  ASSUME NEW rank, NEW total
  PROVE  AllowableError(rank, total) = Min(Allowed(rank, total))
BY Zenon DEF AllowableError, Allowed, Before, ByU, ByV

\* A quantile before whose rank we are: the rank is one of the samples.
LEMMA BeforeBounds ==
  ASSUME NEW rank \in Nat, NEW total \in Nat, NEW q \in 0 .. Scale, Scale * rank <= q * total
  PROVE  rank <= total
<1>1. Scale \in Nat \ {0}
  BY CKMSAssumption
<1>2. q * total <= Scale * total
  BY <1>1
<1>3. Scale * rank <= Scale * total
  BY <1>1, <1>2
<1> QED BY <1>1, <1>3

\* The errors are natural numbers, so that there is a least one.
LEMMA AllowedNatural ==
  ASSUME TargetsHold, NEW rank \in Nat, NEW total \in Nat
  PROVE  Allowed(rank, total) \in SUBSET Nat /\ total + 1 \in Allowed(rank, total)
<1>0. Scale \in Nat \ {0}
  BY CKMSAssumption
<1>1. ASSUME NEW x \in quantiles, Scale * rank <= x.quantile * total, x.quantile < Scale
      PROVE  ByU(x, rank, total) \in Nat
  <2>1. PICK e, q : e = x.error /\ q = x.quantile
    OBVIOUS
  <2>2. e \in Nat /\ q \in 0 .. Scale
    BY <1>0, <2>1 DEF TargetsHold
  <2>3. rank <= total
    BY <1>1, <2>1, <2>2, BeforeBounds
  <2>4. PICK a, d : a = 2 * e * (total - rank) /\ d = Scale - q
    OBVIOUS
  <2>5. a \in Nat
    BY <2>2, <2>3, <2>4
  <2>6. d \in Nat \ {0}
    BY <1>0, <1>1, <2>1, <2>2, <2>4
  <2> QED BY <2>1, <2>4, <2>5, <2>6, DivisionProperties DEF ByU
<1>2. ASSUME NEW x \in quantiles, x.quantile > 0
      PROVE  ByV(x, rank) \in Nat
  <2>1. PICK e, q : e = x.error /\ q = x.quantile
    OBVIOUS
  <2>2. e \in Nat /\ q \in Nat \ {0}
    BY <1>0, <1>2, <2>1 DEF TargetsHold
  <2>3. PICK a : a = 2 * e * rank
    OBVIOUS
  <2>4. a \in Nat
    BY <2>2, <2>3
  <2> QED BY <2>1, <2>2, <2>3, <2>4, DivisionProperties DEF ByV
<1> QED BY <1>1, <1>2 DEF Allowed, Before

\* The error that is allowed is at most the number of samples and one.
LEMMA AllowableErrorType ==
  ASSUME TargetsHold, NEW rank \in Nat, NEW total \in Nat
  PROVE  AllowableError(rank, total) \in 0 .. total + 1
<1>1. PICK S, n : S = Allowed(rank, total) /\ n = total + 1
  OBVIOUS
<1>2. S \in SUBSET Nat /\ n \in S
  BY <1>1, AllowedNatural
<1>3. Min(S) \in S /\ Min(S) <= n
  BY <1>2, MinProperties
<1>4. AllowableError(rank, total) = Min(S)
  BY <1>1, AllowableErrorIs
<1> QED BY <1>1, <1>2, <1>3, <1>4

-----------------------------------------------------------------------------
\* Samples.

Items(E) == [value : E, g : Nat \ {0}, delta : Nat]
Ordered(s) == \A i, j \in 1 .. Len(s) : i <= j => s[i].value <= s[j].value
G(s) == [k \in DOMAIN s |-> s[k].g]

\* A sample weighs what its g says.
LEMMA SamplesWeigh ==
  ASSUME NEW E, NEW s \in Seq(Items(E)), NEW n, n = Len(s)
  PROVE  /\ n \in Nat /\ Weighs(G(s), n)
         /\ \A i \in 1 .. n : G(s)[i] = s[i].g /\ s[i] \in Items(E)
         /\ \A i : RankMin(s, i) = Total(G(s), i)
<1>1. n \in Nat /\ DOMAIN s = 1 .. n /\ \A i \in 1 .. n : s[i] \in Items(E)
  BY LenProperties, ElementOfSeq
<1>2. \A i \in 1 .. n : G(s)[i] = s[i].g
  BY <1>1 DEF G
<1>3. Weighs(G(s), n)
  BY <1>1, <1>2 DEF Weighs, Items
<1>4. \A i : RankMin(s, i) = Total(G(s), i)
  BY Zenon DEF RankMin, G
<1> QED BY <1>1, <1>2, <1>3, <1>4

\* k is the place of a value: the samples before it are less, the others are not.
PlaceIn(s, k, n, e) ==
  /\ k \in 0 .. n
  /\ \A i \in 1 .. k : s[i].value < e
  /\ \A i \in k + 1 .. n : e <= s[i].value

\* lower_bound finds the place.
LEMMA LowerBoundIsPlace ==
  ASSUME NEW E \in SUBSET Int, NEW s \in Seq(Items(E)), NEW n, n = Len(s), Ordered(s), NEW e \in Int
  PROVE  PlaceIn(s, LowerBound(s, e), n, e)
<1>1. n \in Nat /\ DOMAIN s = 1 .. n /\ \A i \in 1 .. n : s[i].value \in Int
  <2>1. n \in Nat /\ DOMAIN s = 1 .. n /\ \A i \in 1 .. n : s[i] \in Items(E)
    BY LenProperties, ElementOfSeq
  <2> QED BY <2>1 DEF Items
<1>2. PICK T : T = {m \in 0 .. n : \A i \in m + 1 .. n : e <= s[i].value}
  OBVIOUS
<1>3. n \in T /\ T \in SUBSET Nat
  BY <1>1, <1>2
<1>4. PICK k \in T : \A m \in T : k <= m
  BY <1>3, LeastNatural
<1>5. ASSUME NEW i \in 1 .. k PROVE s[i].value < e
  <2> SUFFICES ASSUME ~ (s[i].value < e) PROVE FALSE
    OBVIOUS
  <2>1. i \in 1 .. n /\ k \in 0 .. n
    BY <1>1, <1>2
  <2>2. \A j \in i .. n : e <= s[j].value
    BY <1>1, <2>1 DEF Ordered
  <2>3. PICK m : m = i - 1
    OBVIOUS
  <2>4. m \in 0 .. n /\ m + 1 = i /\ m < k
    BY <2>1, <2>3
  <2>5. m \in T
    BY <1>2, <2>2, <2>4
  <2> QED BY <1>4, <2>1, <2>4, <2>5
<1>6. k \in 0 .. n /\ \A i \in k + 1 .. n : e <= s[i].value
  BY <1>2
<1>7. {i \in DOMAIN s : s[i].value < e} = 1 .. k
  <2>1. ASSUME NEW i \in 1 .. n, s[i].value < e PROVE i \in 1 .. k
    BY <1>1, <1>6, <2>1
  <2> QED BY <1>1, <1>5, <1>6, <2>1
<1>8. LowerBound(s, e) = k
  <2>1. Cardinality(1 .. k) = (IF 1 > k THEN 0 ELSE k - 1 + 1)
    BY <1>6, FS_Interval
  <2>2. (IF 1 > k THEN 0 ELSE k - 1 + 1) = k
    BY <1>6
  <2> QED BY <1>7, <2>1, <2>2 DEF LowerBound
<1> QED BY <1>5, <1>6, <1>8 DEF PlaceIn

-----------------------------------------------------------------------------
\* What the samples stand for: F[v] of n observations are v or less.

Counting(F, n) ==
  /\ n \in Nat /\ F \in [Int -> Nat]
  /\ \A v, w \in Int : v <= w => F[v] <= F[w]
  /\ \A v \in Int : F[v] <= n

\* No rank is overestimated, and the last sample is the greatest observation.
Stands(s, F, n, E) ==
  /\ s \in Seq(Items(E)) /\ Ordered(s)
  /\ \A i \in 1 .. Len(s) : RankMin(s, i) <= F[s[i].value]
  /\ RankMin(s, Len(s)) = n
  /\ Len(s) > 0 => F[s[Len(s)].value] = n /\ F[s[Len(s)].value - 1] < n

\* One more observation.
Counted(F, F2, e) == F2 \in [Int -> Nat] /\ \A v \in Int : F2[v] = F[v] + One(e, v)

\* It is counted among all.
LEMMA CountingOneMore ==
  ASSUME NEW F, NEW n, Counting(F, n), NEW e \in Int, NEW F2, Counted(F, F2, e)
  PROVE  Counting(F2, n + 1)
<1>1. \A v \in Int : F[v] \in Nat /\ One(e, v) \in 0 .. 1 /\ F[v] <= n
  BY DEF Counting, One
<1>2. ASSUME NEW v \in Int, NEW w \in Int, v <= w PROVE F2[v] <= F2[w]
  <2>1. F[v] <= F[w] /\ One(e, v) <= One(e, w)
    BY <1>2 DEF Counting, One
  <2> QED BY <1>1, <2>1 DEF Counted
<1>3. \A v \in Int : F2[v] <= n + 1
  <2>1. n \in Nat
    BY DEF Counting
  <2> QED BY <1>1, <2>1 DEF Counted
<1>4. n + 1 \in Nat /\ F2 \in [Int -> Nat]
  BY DEF Counting, Counted
<1> QED BY <1>2, <1>3, <1>4 DEF Counting

\* The delta insertBatch gives it.
Delta(s, e) ==
  IF LowerBound(s, e) > 0 /\ LowerBound(s, e) < Len(s)
  THEN AllowableError(LowerBound(s, e) + 1, Len(s)) + 1 ELSE 0

\* An item for the value, at its place.
LEMMA InsertionIs ==
  ASSUME TargetsHold, NEW E \in SUBSET Int, NEW s \in Seq(Items(E)), NEW n, n = Len(s),
         Ordered(s), NEW e \in E
  PROVE  \E k, i : /\ PlaceIn(s, k, n, e) /\ i = Item(e, 1, Delta(s, e)) /\ i \in Items(E)
                   /\ OneMore(Items(E), Insertion(s, e), s, n, k, i)
<1>1. PICK k, d, i, z : k = LowerBound(s, e) /\ d = Delta(s, e) /\ i = Item(e, 1, d)
                        /\ z = Insertion(s, e)
  OBVIOUS
<1>2. PlaceIn(s, k, n, e)
  BY <1>1, LowerBoundIsPlace
<1>3. n \in Nat /\ k \in 0 .. n
  BY <1>2, LenProperties DEF PlaceIn
<1>4. d \in Nat
  <2>0. PICK r \in Nat : r = k + 1
    BY <1>3
  <2>1. AllowableError(r, n) \in 0 .. n + 1
    BY <1>3, AllowableErrorType
  <2> QED BY <1>1, <1>3, <2>0, <2>1 DEF Delta
<1>5. i \in Items(E)
  BY <1>1, <1>4 DEF Items, Item
<1>6. z = InsertAt(s, k + 1, i)
  BY <1>1, Zenon DEF Insertion, Delta
<1>7. OneMore(Items(E), z, s, n, k, i)
  BY <1>3, <1>5, <1>6, Inserts
<1> QED BY <1>1, <1>2, <1>5, <1>7

\* The samples stay in order.
LEMMA InsertedInOrder ==
  ASSUME NEW E \in SUBSET Int, NEW s \in Seq(Items(E)), NEW n, n = Len(s), Ordered(s),
         NEW e \in E, NEW k, PlaceIn(s, k, n, e), NEW x \in Items(E), x.value = e,
         NEW z, OneMore(Items(E), z, s, n, k, x)
  PROVE  Ordered(z)
<1>1. n \in Nat /\ k \in 0 .. n /\ e \in Int /\ \A i \in 1 .. n : s[i].value \in Int
  <2>1. n \in Nat /\ \A i \in 1 .. n : s[i] \in Items(E)
    BY LenProperties, ElementOfSeq
  <2> QED BY <2>1 DEF Items, PlaceIn
<1>2. Len(z) = n + 1 /\ z[k + 1].value = e
      /\ (\A i \in 1 .. k : z[i].value = s[i].value)
      /\ \A i \in k + 1 .. n : z[i + 1].value = s[i].value
  BY DEF OneMore
<1>3. \A i \in 1 .. k : z[i].value < e
  BY <1>2 DEF PlaceIn
<1>4. \A i \in k + 2 .. n + 1 : z[i].value = s[i - 1].value /\ e <= z[i].value /\ i - 1 \in k + 1 .. n
  <2>1. ASSUME NEW i \in k + 2 .. n + 1
        PROVE  z[i].value = s[i - 1].value /\ e <= z[i].value /\ i - 1 \in k + 1 .. n
    <3>1. PICK j : j = i - 1
      OBVIOUS
    <3>2. j \in k + 1 .. n /\ j + 1 = i
      BY <1>1, <3>1
    <3> QED BY <1>2, <3>1, <3>2 DEF PlaceIn
  <2> QED BY <2>1
<1>5. ASSUME NEW i \in 1 .. n + 1, NEW j \in 1 .. n + 1, i <= j
      PROVE  z[i].value <= z[j].value
  <2>1. CASE j <= k
    <3>1. i \in 1 .. k /\ j \in 1 .. k /\ i \in 1 .. n /\ j \in 1 .. n
      BY <1>1, <1>5, <2>1
    <3>2. s[i].value <= s[j].value
      BY <1>5, <3>1 DEF Ordered
    <3> QED BY <1>2, <3>1, <3>2
  <2>2. CASE j = k + 1
    <3>1. i \in 1 .. k \/ i = k + 1
      BY <1>1, <1>5, <2>2
    <3> QED BY <1>1, <1>2, <1>3, <2>2, <3>1 DEF PlaceIn
  <2>3. CASE j > k + 1
    <3>1. j \in k + 2 .. n + 1
      BY <1>1, <2>3
    <3>2. CASE i <= k + 1
      <4>1. i \in 1 .. k \/ i = k + 1
        BY <1>1, <3>2
      <4>2. z[i].value \in Int /\ z[i].value <= e
        <5>1. CASE i = k + 1
          BY <1>1, <1>2, <5>1
        <5>2. CASE i \in 1 .. k
          <6>1. i \in 1 .. n
            BY <1>1, <5>2
          <6> QED BY <1>1, <1>2, <1>3, <5>2, <6>1
        <5> QED BY <4>1, <5>1, <5>2
      <4>3. z[j].value \in Int /\ e <= z[j].value
        <5>1. j - 1 \in 1 .. n
          BY <1>1, <1>4, <3>1
        <5> QED BY <1>1, <1>4, <3>1, <5>1
      <4> QED BY <1>1, <4>2, <4>3
    <3>3. CASE i > k + 1
      <4>1. i \in k + 2 .. n + 1
        BY <1>1, <3>3
      <4>2. i - 1 \in 1 .. n /\ j - 1 \in 1 .. n /\ i - 1 <= j - 1
        BY <1>1, <1>4, <1>5, <3>1, <4>1
      <4>3. s[i - 1].value <= s[j - 1].value
        BY <4>2 DEF Ordered
      <4> QED BY <1>4, <3>1, <4>1, <4>3
    <3> QED BY <1>1, <3>2, <3>3
  <2> QED BY <1>1, <2>1, <2>2, <2>3
<1> QED BY <1>2, <1>5 DEF Ordered

\* A weight of one more is in the ranks from its place on.
LEMMA InsertedRanks ==
  ASSUME NEW E, NEW s \in Seq(Items(E)), NEW n, n = Len(s), NEW k \in 0 .. n,
         NEW x \in Items(E), x.g = 1, NEW z, OneMore(Items(E), z, s, n, k, x)
  PROVE  /\ \A m \in 0 .. k : RankMin(z, m) = RankMin(s, m) /\ RankMin(s, m) \in Nat
         /\ \A m \in k .. n : RankMin(z, m + 1) = RankMin(s, m) + 1 /\ RankMin(s, m) \in Nat
<1>1. n \in Nat /\ Weighs(G(s), n) /\ (\A i \in 1 .. n : G(s)[i] = s[i].g)
      /\ \A i : RankMin(s, i) = Total(G(s), i)
  BY SamplesWeigh
<1>2. z \in Seq(Items(E)) /\ Len(z) = n + 1 /\ z[k + 1] = x
      /\ (\A i \in 1 .. k : z[i] = s[i]) /\ \A i \in k + 1 .. n : z[i + 1] = s[i]
  BY DEF OneMore
<1>3. PICK m1 : m1 = n + 1
  OBVIOUS
<1>4. Weighs(G(z), m1) /\ (\A i \in 1 .. m1 : G(z)[i] = z[i].g)
      /\ \A i : RankMin(z, i) = Total(G(z), i)
  BY <1>2, <1>3, SamplesWeigh
<1>5. WeightInserted(G(s), G(z), n, k)
  <2>1. \A i \in 1 .. k : i \in 1 .. n /\ i \in 1 .. m1
    BY <1>1, <1>3
  <2>2. \A i \in k + 1 .. n : i \in 1 .. n /\ i + 1 \in 1 .. m1
    BY <1>1, <1>3
  <2> QED BY <1>1, <1>2, <1>4, <2>1, <2>2 DEF WeightInserted
<1>6. G(z)[k + 1] = 1
  <2>1. k + 1 \in 1 .. m1
    BY <1>1, <1>3
  <2> QED BY <1>2, <1>4, <2>1
<1>7. /\ \A m \in 0 .. k : Total(G(z), m) = Total(G(s), m)
      /\ \A m \in k .. n : Total(G(z), m + 1) = Total(G(s), m) + G(z)[k + 1]
  <2>1. Weighs(G(z), n + 1)
    BY <1>3, <1>4
  <2> QED BY <1>1, <1>5, <2>1, TotalInserted
<1>8. ASSUME NEW m \in 0 .. n PROVE Total(G(s), m) \in Nat
  <2>1. Weighs(G(s), m) /\ m \in Nat
    BY <1>1 DEF Weighs
  <2> QED BY <2>1, TotalNext
<1>9. (\A m \in 0 .. k : m \in 0 .. n) /\ \A m \in k .. n : m \in 0 .. n
  BY <1>1
<1> QED BY <1>1, <1>4, <1>6, <1>7, <1>8, <1>9

\* insertBatch, one value: the samples stand for one observation more.
LEMMA InsertionStands ==
  ASSUME TargetsHold, NEW E \in SUBSET Int, NEW F, NEW n, Counting(F, n),
         NEW s, Stands(s, F, n, E), NEW e \in E, NEW F2, Counted(F, F2, e)
  PROVE  Stands(Insertion(s, e), F2, n + 1, E)
<1>1. PICK l, z : l = Len(s) /\ z = Insertion(s, e)
  OBVIOUS
<1>2. /\ s \in Seq(Items(E)) /\ Ordered(s) /\ l \in Nat /\ e \in Int /\ n \in Nat
      /\ \A i \in 1 .. l : s[i].value \in Int
  <2>1. s \in Seq(Items(E)) /\ Ordered(s) /\ n \in Nat
    BY DEF Stands, Counting
  <2>2. l \in Nat /\ \A i \in 1 .. l : s[i] \in Items(E)
    BY <1>1, <2>1, LenProperties, ElementOfSeq
  <2> QED BY <2>1, <2>2 DEF Items
<1>3. PICK k, x : /\ PlaceIn(s, k, l, e) /\ x = Item(e, 1, Delta(s, e)) /\ x \in Items(E)
                  /\ OneMore(Items(E), z, s, l, k, x)
  BY <1>1, <1>2, InsertionIs
<1>4. x.value = e /\ x.g = 1
  BY <1>3 DEF Item
<1>5. k \in 0 .. l
  BY <1>3 DEF PlaceIn
<1>6. z \in Seq(Items(E)) /\ Len(z) = l + 1 /\ z[k + 1] = x
      /\ (\A i \in 1 .. k : z[i] = s[i]) /\ \A i \in k + 1 .. l : z[i + 1] = s[i]
  BY <1>3 DEF OneMore
<1>7. Ordered(z)
  BY <1>1, <1>2, <1>3, <1>4, InsertedInOrder
<1>8. /\ \A m \in 0 .. k : RankMin(z, m) = RankMin(s, m) /\ RankMin(s, m) \in Nat
      /\ \A m \in k .. l : RankMin(z, m + 1) = RankMin(s, m) + 1 /\ RankMin(s, m) \in Nat
  BY <1>1, <1>2, <1>3, <1>4, <1>5, InsertedRanks
<1>9. /\ \A i \in 1 .. l : RankMin(s, i) <= F[s[i].value]
      /\ RankMin(s, l) = n
      /\ l > 0 => F[s[l].value] = n /\ F[s[l].value - 1] < n
  BY <1>1 DEF Stands
<1>10. \A v \in Int : F[v] \in Nat /\ F[v] <= n /\ F2[v] \in Nat /\ F2[v] = F[v] + One(e, v)
  BY DEF Counting, Counted
<1>11. \A v \in Int : F[v] <= F2[v] /\ (e <= v => F2[v] = F[v] + 1) /\ (v < e => F2[v] = F[v])
  BY <1>2, <1>10 DEF One
<1>19. \A v, w \in Int : v < w => F[v] <= F[w]
  BY DEF Counting
<1>12. RankMin(s, 0) = 0
  <2>1. Weighs(G(s), l) /\ (\A i : RankMin(s, i) = Total(G(s), i))
    BY <1>1, <1>2, SamplesWeigh
  <2> QED BY <1>2, <2>1, TotalNext
<1>13. ASSUME NEW i \in 1 .. k PROVE RankMin(z, i) <= F2[z[i].value]
  <2>1. i \in 0 .. k /\ i \in 1 .. l /\ s[i].value \in Int /\ z[i] = s[i]
    BY <1>2, <1>5, <1>6
  <2>2. RankMin(z, i) = RankMin(s, i) /\ RankMin(s, i) \in Nat /\ RankMin(s, i) <= F[s[i].value]
    BY <1>8, <1>9, <2>1
  <2>3. F[s[i].value] <= F2[s[i].value] /\ F[s[i].value] \in Nat /\ F2[s[i].value] \in Nat
    BY <1>10, <1>11, <2>1
  <2> QED BY <2>1, <2>2, <2>3
<1>14. RankMin(z, k + 1) <= F2[z[k + 1].value]
  <2>1. RankMin(z, k + 1) = RankMin(s, k) + 1 /\ RankMin(s, k) \in Nat /\ k \in Nat
    <3>1. k \in k .. l /\ k \in Nat
      BY <1>2, <1>5
    <3> QED BY <1>8, <3>1
  <2>2. F2[e] = F[e] + 1 /\ F[e] \in Nat
    BY <1>2, <1>10, <1>11
  <2>3. RankMin(s, k) <= F[e]
    <3>1. CASE k = 0
      BY <1>12, <2>2, <3>1
    <3>2. CASE k # 0
      <4>1. k \in 1 .. l /\ k \in 1 .. k
        BY <1>5, <3>2
      <4>2. s[k].value < e /\ s[k].value \in Int
        BY <1>2, <1>3, <4>1 DEF PlaceIn
      <4>3. F[s[k].value] <= F[e] /\ F[s[k].value] \in Nat
        BY <1>2, <1>10, <1>19, <4>2
      <4>4. RankMin(s, k) <= F[s[k].value]
        BY <1>9, <4>1
      <4> QED BY <2>1, <2>2, <4>3, <4>4
    <3> QED BY <3>1, <3>2
  <2> QED BY <1>4, <1>6, <2>1, <2>2, <2>3
<1>15. ASSUME NEW i \in k + 2 .. l + 1 PROVE RankMin(z, i) <= F2[z[i].value]
  <2>1. PICK j \in k + 1 .. l : i = j + 1
    <3>1. i - 1 \in k + 1 .. l /\ i = (i - 1) + 1
      BY <1>2, <1>5
    <3> QED BY <3>1
  <2>2. j \in k .. l /\ j \in 1 .. l
    BY <1>2, <1>5
  <2>3. z[i] = s[j] /\ s[j].value \in Int /\ e <= s[j].value
    BY <1>2, <1>3, <1>6, <2>1, <2>2 DEF PlaceIn
  <2>4. RankMin(z, i) = RankMin(s, j) + 1 /\ RankMin(s, j) \in Nat
        /\ RankMin(s, j) <= F[s[j].value]
    BY <1>8, <1>9, <2>1, <2>2
  <2>5. F2[s[j].value] = F[s[j].value] + 1 /\ F[s[j].value] \in Nat
    BY <1>10, <1>11, <2>3
  <2> QED BY <2>3, <2>4, <2>5
<1>16. \A i \in 1 .. l + 1 : RankMin(z, i) <= F2[z[i].value]
  <2>1. \A i \in 1 .. l + 1 : i \in 1 .. k \/ i = k + 1 \/ i \in k + 2 .. l + 1
    BY <1>2, <1>5
  <2> QED BY <1>13, <1>14, <1>15, <2>1
<1>17. RankMin(z, l + 1) = n + 1
  <2>1. l \in k .. l
    BY <1>2, <1>5
  <2> QED BY <1>8, <1>9, <2>1
<1>18. F2[z[l + 1].value] = n + 1 /\ F2[z[l + 1].value - 1] < n + 1
  <2>1. CASE k = l
    <3>1. z[l + 1].value = e
      BY <1>4, <1>6, <2>1
    <3>2. F[e] = n
      <4>1. CASE l = 0
        BY <1>2, <1>9, <1>10, <1>12, <4>1
      <4>2. CASE l # 0
        <5>1. l \in 1 .. l /\ l > 0
          BY <1>2, <4>2
        <5>2. s[l].value < e /\ s[l].value \in Int /\ F[s[l].value] = n
          BY <1>2, <1>3, <1>9, <2>1, <5>1 DEF PlaceIn
        <5>3. n <= F[e]
          BY <1>2, <1>19, <5>2
        <5> QED BY <1>2, <1>10, <5>3
      <4> QED BY <4>1, <4>2
    <3>3. F2[e] = n + 1
      BY <1>2, <1>11, <3>2
    <3>4. e - 1 \in Int /\ e - 1 < e
      BY <1>2
    <3>5. F2[e - 1] = F[e - 1] /\ F[e - 1] <= n /\ F[e - 1] \in Nat
      BY <1>10, <1>11, <3>4
    <3> QED BY <1>2, <3>1, <3>3, <3>5
  <2>2. CASE k # l
    <3>1. l \in k + 1 .. l /\ l \in 1 .. l /\ l > 0
      BY <1>2, <1>5, <2>2
    <3>2. PICK v : v = s[l].value
      OBVIOUS
    <3>3. z[l + 1].value = v /\ v \in Int /\ e <= v /\ F[v] = n /\ F[v - 1] < n
      BY <1>2, <1>3, <1>6, <1>9, <3>1, <3>2 DEF PlaceIn
    <3>4. F2[v] = n + 1
      BY <1>11, <3>3
    <3>5. v - 1 \in Int
      BY <3>3
    <3>6. F[v - 1] \in Nat /\ (F2[v - 1] = F[v - 1] \/ F2[v - 1] = F[v - 1] + 1)
      <4>1. F2[v - 1] = F[v - 1] + One(e, v - 1) /\ F[v - 1] \in Nat
        BY <1>10, <3>5
      <4> QED BY <4>1 DEF One
    <3> QED BY <1>2, <3>3, <3>4, <3>6
  <2> QED BY <2>1, <2>2
<1> QED BY <1>1, <1>6, <1>7, <1>16, <1>17, <1>18 DEF Stands

-----------------------------------------------------------------------------
\* Without an error.

NoError == Errorless /\ quantiles # {}

\* A quantile without an error allows none at any rank.
LEMMA NothingAllowed ==
  ASSUME TargetsHold, NoError, NEW rank \in Nat, NEW total \in Nat
  PROVE  AllowableError(rank, total) = 0
<1>1. PICK S : S = Allowed(rank, total)
  OBVIOUS
<1>2. S \in SUBSET Nat
  BY <1>1, AllowedNatural
<1>3. 0 \in S
  <2>1. PICK x \in quantiles : TRUE
    BY DEF NoError
  <2>2. PICK q : q = x.quantile
    OBVIOUS
  <2>3. x.error = 0 /\ q \in 1 .. Scale - 1 /\ Scale \in Nat \ {0}
    BY <2>2, CKMSAssumption DEF NoError, Errorless
  <2>4. CASE x \in Before(rank, total)
    <3>1. PICK d : d = Scale - q
      OBVIOUS
    <3>2. d \in Nat \ {0} /\ q < Scale
      BY <2>3, <3>1
    <3>3. 0 \div d = 0
      BY <3>2, DivisionProperties
    <3>4. rank <= total
      <4>1. Scale * rank <= q * total /\ q \in 0 .. Scale
        BY <2>2, <2>3, <2>4 DEF Before
      <4> QED BY <4>1, BeforeBounds
    <3>5. 2 * x.error * (total - rank) = 0
      BY <2>3, <3>4
    <3>6. ByU(x, rank, total) = 0
      BY <2>2, <3>1, <3>3, <3>5 DEF ByU
    <3> QED BY <1>1, <2>2, <2>4, <3>2, <3>6 DEF Allowed
  <2>5. CASE x \notin Before(rank, total)
    <3>1. q \in Nat \ {0} /\ q > 0
      BY <2>3
    <3>2. 0 \div q = 0
      BY <3>1, DivisionProperties
    <3>3. 2 * x.error * rank = 0
      BY <2>3
    <3>4. ByV(x, rank) = 0
      BY <2>2, <3>2, <3>3 DEF ByV
    <3> QED BY <1>1, <2>2, <2>5, <3>1, <3>4 DEF Allowed
  <2> QED BY <2>4, <2>5
<1>4. Min(S) \in S /\ Min(S) <= 0
  BY <1>2, <1>3, MinProperties
<1>5. AllowableError(rank, total) = Min(S)
  BY <1>1, AllowableErrorIs
<1>6. PICK m : m = Min(S)
  OBVIOUS
<1>7. m \in Nat /\ m <= 0
  BY <1>2, <1>4, <1>6
<1> QED BY <1>5, <1>6, <1>7

\* Samples that stand for themselves have their index as their rank.
LEMMA UnitRanks ==
  ASSUME NEW E, NEW s \in Seq(Items(E)), NEW n, n = Len(s), \A i \in 1 .. n : s[i].g = 1
  PROVE  \A i \in 0 .. n : RankMin(s, i) = i
<1>1. n \in Nat /\ Weighs(G(s), n) /\ (\A i \in 1 .. n : G(s)[i] = s[i].g)
      /\ \A i : RankMin(s, i) = Total(G(s), i)
  BY SamplesWeigh
<1> DEFINE T == {m \in Nat : m <= n => Total(G(s), m) = m}
<1>2. 0 \in T
  BY <1>1, TotalNext
<1>3. ASSUME NEW m \in Nat, m \in T PROVE m + 1 \in T
  <2> SUFFICES ASSUME m + 1 <= n PROVE Total(G(s), m + 1) = m + 1
    OBVIOUS
  <2>1. PICK k, w : k \in Nat /\ k = m + 1 /\ k > 0 /\ k - 1 = m /\ w = G(s)
    OBVIOUS
  <2>2. k \in 1 .. n /\ m <= n
    BY <1>1, <2>1
  <2>3. Weighs(w, k) /\ w[k] = 1
    BY <1>1, <2>1, <2>2 DEF Weighs
  <2>4. Total(w, k) = Total(w, m) + w[k]
    BY <2>1, <2>3, TotalNext
  <2>5. Total(w, m) = m
    BY <1>3, <2>1, <2>2
  <2> QED BY <2>1, <2>3, <2>4, <2>5
<1>4. Nat \subseteq T
  <2> HIDE DEF T
  <2> QED BY <1>2, <1>3, Induction
<1> QED BY <1>1, <1>4

\* Every observation is a sample of its own, and fewer are less than it than its index.
Exact(s, F) ==
  \A i \in 1 .. Len(s) : s[i].g = 1 /\ s[i].delta <= 1 /\ F[s[i].value - 1] < i

\* insertBatch, one value: the samples stay exact.
LEMMA InsertionExact ==
  ASSUME TargetsHold, NoError, NEW E \in SUBSET Int, NEW F, NEW n, Counting(F, n),
         NEW s, Stands(s, F, n, E), Exact(s, F), NEW e \in E, NEW F2, Counted(F, F2, e)
  PROVE  Exact(Insertion(s, e), F2)
<1>1. PICK l, z : l = Len(s) /\ z = Insertion(s, e)
  OBVIOUS
<1>2. /\ s \in Seq(Items(E)) /\ Ordered(s) /\ l \in Nat /\ e \in Int /\ n \in Nat
      /\ \A i \in 1 .. l : s[i].value \in Int
  <2>1. s \in Seq(Items(E)) /\ Ordered(s) /\ n \in Nat
    BY DEF Stands, Counting
  <2>2. l \in Nat /\ \A i \in 1 .. l : s[i] \in Items(E)
    BY <1>1, <2>1, LenProperties, ElementOfSeq
  <2> QED BY <2>1, <2>2 DEF Items
<1>3. PICK k, x : /\ PlaceIn(s, k, l, e) /\ x = Item(e, 1, Delta(s, e)) /\ x \in Items(E)
                  /\ OneMore(Items(E), z, s, l, k, x)
  BY <1>1, <1>2, InsertionIs
<1>4. x.value = e /\ x.g = 1 /\ x.delta <= 1
  <2>1. x.value = e /\ x.g = 1 /\ x.delta = Delta(s, e)
    BY <1>3 DEF Item
  <2>2. Delta(s, e) <= 1
    <3>1. CASE LowerBound(s, e) > 0 /\ LowerBound(s, e) < Len(s)
      <4>1. PICK r \in Nat : r = LowerBound(s, e) + 1
        <5>1. LowerBound(s, e) \in 0 .. l
          BY <1>1, <1>2, LowerBoundIsPlace DEF PlaceIn
        <5> QED BY <1>2, <5>1
      <4>2. AllowableError(r, l) = 0
        BY <1>2, NothingAllowed
      <4> QED BY <1>1, <3>1, <4>1, <4>2 DEF Delta
    <3>2. CASE ~ (LowerBound(s, e) > 0 /\ LowerBound(s, e) < Len(s))
      BY <3>2 DEF Delta
    <3> QED BY <3>1, <3>2
  <2> QED BY <2>1, <2>2
<1>5. k \in 0 .. l
  BY <1>3 DEF PlaceIn
<1>6. z \in Seq(Items(E)) /\ Len(z) = l + 1 /\ z[k + 1] = x
      /\ (\A i \in 1 .. k : z[i] = s[i]) /\ \A i \in k + 1 .. l : z[i + 1] = s[i]
  BY <1>3 DEF OneMore
<1>7. \A i \in 1 .. l : s[i].g = 1 /\ s[i].delta <= 1 /\ F[s[i].value - 1] < i
  BY <1>1 DEF Exact
<1>8. l = n
  <2>1. \A i \in 0 .. l : RankMin(s, i) = i
    BY <1>1, <1>2, <1>7, UnitRanks
  <2>2. l \in 0 .. l /\ RankMin(s, l) = n
    BY <1>1, <1>2 DEF Stands
  <2> QED BY <2>1, <2>2
<1>9. \A v \in Int : F[v] \in Nat /\ F[v] <= n /\ F2[v] = F[v] + One(e, v)
                     /\ (v < e => F2[v] = F[v]) /\ F2[v] <= F[v] + 1
  <2>1. \A v \in Int : F[v] \in Nat /\ F[v] <= n /\ F2[v] = F[v] + One(e, v)
    BY DEF Counting, Counted
  <2> QED BY <1>2, <2>1 DEF One
<1>10. ASSUME NEW i \in 1 .. k
       PROVE  z[i].g = 1 /\ z[i].delta <= 1 /\ F2[z[i].value - 1] < i
  <2>1. PICK v : v = s[i].value - 1
    OBVIOUS
  <2>2. i \in 1 .. l /\ z[i] = s[i] /\ v \in Int /\ v < e
    BY <1>2, <1>3, <1>5, <1>6, <2>1 DEF PlaceIn
  <2>3. F2[v] = F[v] /\ F[v] < i
    BY <1>7, <1>9, <2>1, <2>2
  <2> QED BY <1>7, <2>1, <2>2, <2>3
<1>11. F2[e - 1] < k + 1
  <2>1. e - 1 \in Int /\ e - 1 < e
    BY <1>2
  <2>2. F2[e - 1] = F[e - 1] /\ F[e - 1] \in Nat /\ F[e - 1] <= n
    BY <1>9, <2>1
  <2>3. CASE k = l
    BY <1>2, <1>8, <2>2, <2>3
  <2>4. CASE k # l
    <3>1. PICK v : v = s[k + 1].value - 1
      OBVIOUS
    <3>2. k + 1 \in 1 .. l /\ k + 1 \in k + 1 .. l
      BY <1>2, <1>5, <2>4
    <3>3. v \in Int /\ e - 1 <= v /\ F[v] < k + 1
      BY <1>2, <1>3, <1>7, <3>1, <3>2 DEF PlaceIn
    <3>4. \A u, w \in Int : u <= w => F[u] <= F[w]
      BY DEF Counting
    <3>5. F[e - 1] <= F[v] /\ F[v] \in Nat
      BY <1>9, <2>1, <3>3, <3>4
    <3> QED BY <1>5, <2>2, <3>3, <3>5
  <2> QED BY <2>3, <2>4
<1>12. ASSUME NEW i \in k + 2 .. l + 1
       PROVE  z[i].g = 1 /\ z[i].delta <= 1 /\ F2[z[i].value - 1] < i
  <2>1. PICK j \in k + 1 .. l : i = j + 1
    <3>1. i - 1 \in k + 1 .. l /\ i = (i - 1) + 1
      BY <1>2, <1>5
    <3> QED BY <3>1
  <2>2. PICK v : v = s[j].value - 1
    OBVIOUS
  <2>3. j \in 1 .. l /\ z[i] = s[j] /\ v \in Int
    <3>1. j \in 1 .. l
      BY <1>2, <1>5
    <3>2. z[i] = s[j]
      BY <1>6, <2>1
    <3>3. v \in Int
      BY <1>2, <2>2, <3>1
    <3> QED BY <3>1, <3>2, <3>3
  <2>4. F[v] < j /\ F[v] \in Nat /\ F2[v] = F[v] + One(e, v) /\ F2[v] <= F[v] + 1
    BY <1>7, <1>9, <2>2, <2>3
  <2>5. One(e, v) \in 0 .. 1
    BY DEF One
  <2>6. F2[v] < i
    BY <2>1, <2>3, <2>4, <2>5
  <2> QED BY <1>7, <2>2, <2>3, <2>6
<1>13. \A i \in 1 .. l + 1 : i \in 1 .. k \/ i = k + 1 \/ i \in k + 2 .. l + 1
  BY <1>2, <1>5
<1>14. \A i \in 1 .. l + 1 : z[i].g = 1 /\ z[i].delta <= 1 /\ F2[z[i].value - 1] < i
  BY <1>4, <1>6, <1>10, <1>11, <1>12, <1>13
<1> QED BY <1>1, <1>6, <1>14 DEF Exact

-----------------------------------------------------------------------------
\* A batch.

\* The samples stand for the observations, exactly if no error is tolerated.
Sketches(s, F, n, E) == Stands(s, F, n, E) /\ (NoError => Exact(s, F))

\* The observations and the first m of some values.
PlusFirst(F, values, m) == [v \in Int |-> F[v] + Total(AtMost(values, v), m)]

\* No values add nothing.
LEMMA CountedNone ==
  ASSUME NEW F \in [Int -> Nat], NEW values \in Seq(Int)
  PROVE  PlusFirst(F, values, 0) = F
<1>1. ASSUME NEW v \in Int PROVE F[v] + Total(AtMost(values, v), 0) = F[v]
  <2>1. PICK w, n : w = AtMost(values, v) /\ n = Len(values)
    OBVIOUS
  <2>2. n \in Nat /\ Weighs(w, n)
    BY <2>1, ValuesWeigh
  <2>3. Total(w, 0) = 0
    BY <2>2, TotalNext
  <2>4. F[v] \in Nat
    OBVIOUS
  <2> QED BY <2>1, <2>3, <2>4
<1>2. F = [v \in Int |-> F[v]]
  OBVIOUS
<1> QED BY <1>1, <1>2 DEF PlusFirst

\* One value after the other is counted.
LEMMA CountedNext ==
  ASSUME NEW F \in [Int -> Nat], NEW values \in Seq(Int), NEW n, n = Len(values),
         NEW m \in 1 .. n
  PROVE  Counted(PlusFirst(F, values, m - 1), PlusFirst(F, values, m), values[m])
<1>1. PICK k : k = m - 1
  OBVIOUS
<1>2. n \in Nat /\ m \in Nat /\ m > 0 /\ k \in Nat /\ 0 \in Nat
  BY <1>1, LenProperties
<1>3. ASSUME NEW v \in Int
      PROVE  /\ Total(AtMost(values, v), m) = Total(AtMost(values, v), k) + One(values[m], v)
             /\ Total(AtMost(values, v), m) \in Nat /\ Total(AtMost(values, v), k) \in Nat
  <2>1. PICK w : w = AtMost(values, v)
    OBVIOUS
  <2>2. Weighs(w, n) /\ w[m] = One(values[m], v)
    BY <2>1, ValuesWeigh
  <2>3. Weighs(w, m) /\ Weighs(w, k)
    <3>1. m \in 0 .. n /\ k \in 0 .. n
      BY <1>1, <1>2
    <3> QED BY <1>2, <2>2, <3>1, WeighsLess
  <2>4. Total(w, m) = Total(w, m - 1) + w[m] /\ Total(w, m) \in Nat
    BY <1>2, <2>3, TotalNext
  <2>5. Total(w, k) \in Nat
    BY <1>2, <2>3, TotalNext
  <2> QED BY <1>1, <2>1, <2>2, <2>4, <2>5
<1>4. PICK A, B : A = PlusFirst(F, values, k) /\ B = PlusFirst(F, values, m)
  OBVIOUS
<1>5. \A v \in Int : A[v] = F[v] + Total(AtMost(values, v), k)
                     /\ B[v] = F[v] + Total(AtMost(values, v), m)
  BY <1>4 DEF PlusFirst
<1>6. B \in [Int -> Nat]
  <2>1. ASSUME NEW v \in Int PROVE F[v] + Total(AtMost(values, v), m) \in Nat
    <3>1. PICK a, b : a = F[v] /\ b = Total(AtMost(values, v), m)
      OBVIOUS
    <3>2. a \in Nat /\ b \in Nat
      BY <1>3, <3>1
    <3>3. a + b \in Nat
      BY <3>2
    <3> QED BY <3>1, <3>3
  <2> QED BY <1>4, <2>1 DEF PlusFirst
<1>7. \A v \in Int : B[v] = A[v] + One(values[m], v)
  <2>1. ASSUME NEW v \in Int PROVE B[v] = A[v] + One(values[m], v)
    <3>1. PICK a, b, c, d : a = F[v] /\ b = Total(AtMost(values, v), m)
                            /\ c = Total(AtMost(values, v), k) /\ d = One(values[m], v)
      OBVIOUS
    <3>2. a \in Nat /\ b \in Nat /\ c \in Nat /\ d \in Nat /\ b = c + d
      BY <1>3, <3>1 DEF One
    <3>3. A[v] = a + c /\ B[v] = a + b
      BY <1>5, <3>1
    <3> QED BY <3>1, <3>2, <3>3
  <2> QED BY <2>1
<1> QED BY <1>1, <1>4, <1>6, <1>7 DEF Counted

\* insertBatch: the samples stand for the values of the batch as well.
LEMMA InsertAllSketches ==
  ASSUME TargetsHold, NEW E \in SUBSET Int, NEW F, NEW n, Counting(F, n),
         NEW s, Sketches(s, F, n, E), NEW values \in Seq(E), NEW l, l = Len(values)
  PROVE  /\ Sketches(InsertAll(s, values), PlusFirst(F, values, l), n + l, E)
         /\ Counting(PlusFirst(F, values, l), n + l)
<1>1. PICK S : S = Seq(Items(E))
  OBVIOUS
<1>2. l \in Nat /\ (\A i \in 1 .. l : values[i] \in E) /\ values \in Seq(Int) /\ n \in Nat
      /\ s \in S /\ F \in [Int -> Nat]
  <2>1. values \in Seq(Int)
    BY SeqOver
  <2>2. l \in Nat /\ \A i \in 1 .. l : values[i] \in E
    BY LenProperties, ElementOfSeq
  <2> QED BY <1>1, <2>1, <2>2 DEF Counting, Sketches, Stands
<1>0. l \in Nat
  BY <1>2
<1> DEFINE Solves(u) == u = [i \in 0 .. l |->
                             IF i = 0 THEN s ELSE Insertion(u[i - 1], values[i])]
<1>3. InsertAll(s, values) = (CHOOSE u : Solves(u))[l]
  BY Zenon DEF InsertAll
<1> DEFINE Good(x, m) == /\ Sketches(x, PlusFirst(F, values, m), n + m, E)
                         /\ Counting(PlusFirst(F, values, m), n + m)
           V == {x \in S : Ordered(x)}
<1>4. ASSUME NEW x \in V, NEW e \in E PROVE Insertion(x, e) \in V
  <2>1. PICK y, k : y = Insertion(x, e) /\ k = Len(x)
    OBVIOUS
  <2>2. x \in Seq(Items(E)) /\ Ordered(x)
    BY <1>1
  <2>3. PICK p, i : /\ PlaceIn(x, p, k, e) /\ i = Item(e, 1, Delta(x, e)) /\ i \in Items(E)
                    /\ OneMore(Items(E), y, x, k, p, i)
    BY <2>1, <2>2, InsertionIs
  <2>4. i.value = e
    BY <2>3 DEF Item
  <2>5. Ordered(y)
    BY <2>1, <2>2, <2>3, <2>4, InsertedInOrder
  <2> QED BY <1>1, <2>1, <2>3, <2>5 DEF OneMore
<1>5. PICK W : W = V
  OBVIOUS
<1>6. PICK step : step = [i \in 1 .. l |-> [x \in W |-> Insertion(x, values[i])]]
  OBVIOUS
<1>7. step \in [1 .. l -> [W -> W]] /\ s \in W
  <2>1. \A i \in 1 .. l : \A x \in W : Insertion(x, values[i]) \in W
    BY <1>2, <1>4, <1>5
  <2>2. \A i \in 1 .. l : [x \in W |-> Insertion(x, values[i])] \in [W -> W]
    BY <2>1
  <2>3. s \in W
    BY <1>2, <1>5 DEF Sketches, Stands
  <2> QED BY <1>6, <2>2, <2>3
<1>8. PICK u \in [0 .. l -> W] : Follows(u, l, s, step)
  BY <1>2, <1>7, Recursion
<1>9. Solves(u)
  <2>1. \A i \in 1 .. l : i - 1 \in 0 .. l /\ u[i] = step[i][u[i - 1]] /\ u[i - 1] \in W
    <3>1. \A i \in 1 .. l : i - 1 \in 0 .. l
      BY <1>0
    <3>2. \A i \in 1 .. l : u[i] = step[i][u[i - 1]]
      BY <1>8 DEF Follows
    <3>3. \A i \in 0 .. l : u[i] \in W
      BY <1>8
    <3> QED BY <3>1, <3>2, <3>3
  <2>2. \A i \in 1 .. l : u[i] = Insertion(u[i - 1], values[i])
    BY <1>6, <2>1
  <2>3. \A i \in 0 .. l : u[i] = IF i = 0 THEN s ELSE Insertion(u[i - 1], values[i])
    BY <1>8, <2>2 DEF Follows
  <2>4. u = [i \in 0 .. l |-> u[i]]
    OBVIOUS
  <2> QED BY <2>3, <2>4
<1>10. PICK f : f = CHOOSE x : Solves(x)
  OBVIOUS
<1>11. Solves(f)
  <2> HIDE DEF Solves
  <2> QED BY <1>9, <1>10, Zenon
<1>12. f[0] = s /\ \A i \in 1 .. l : f[i] = Insertion(f[i - 1], values[i])
  <2>1. \A i \in 0 .. l : f[i] = IF i = 0 THEN s ELSE Insertion(f[i - 1], values[i])
    BY <1>11
  <2> QED BY <1>0, <2>1
<1>13. InsertAll(s, values) = f[l]
  BY <1>3, <1>10
<1> HIDE DEF Solves
<1> DEFINE T == {m \in Nat : m <= l => Good(f[m], m)}
<1>14. \A m \in 1 .. l : Counted(PlusFirst(F, values, m - 1), PlusFirst(F, values, m), values[m])
  BY <1>2, CountedNext
<1>15. 0 \in T
  <2>2. PlusFirst(F, values, 0) = F
    BY <1>2, CountedNone
  <2>3. n + 0 = n
    BY <1>2
  <2>4. Good(f[0], 0)
    BY <1>12, <2>2, <2>3
  <2> QED BY <2>4
<1>16. ASSUME NEW m \in Nat, m \in T PROVE m + 1 \in T
  <2> SUFFICES ASSUME m + 1 <= l PROVE Good(f[m + 1], m + 1)
    OBVIOUS
  <2>1. PICK k, e, A, B, p : k = m + 1 /\ e = values[k] /\ A = PlusFirst(F, values, m)
                             /\ B = PlusFirst(F, values, k) /\ p = n + m
    OBVIOUS
  <2>2. k \in 1 .. l /\ k - 1 = m /\ m <= l /\ e \in E /\ e \in Int /\ n + k = p + 1
    BY <1>2, <2>1
  <2>3. Counted(A, B, e)
    BY <1>14, <2>1, <2>2
  <2>4. PICK x : x = f[m]
    OBVIOUS
  <2>5. Sketches(x, A, p, E) /\ Counting(A, p)
    BY <1>16, <2>1, <2>2, <2>4
  <2>6. Counting(B, p + 1)
    BY <2>2, <2>3, <2>5, CountingOneMore
  <2>7. Stands(Insertion(x, e), B, p + 1, E)
    <3>1. Stands(x, A, p, E)
      BY <2>5 DEF Sketches
    <3> QED BY <2>2, <2>3, <2>5, <3>1, InsertionStands
  <2>8. ASSUME NoError PROVE Exact(Insertion(x, e), B)
    <3>1. Stands(x, A, p, E) /\ Exact(x, A)
      BY <2>5, <2>8 DEF Sketches
    <3> QED BY <2>2, <2>3, <2>5, <2>8, <3>1, InsertionExact
  <2>9. f[k] = Insertion(x, e)
    BY <1>12, <2>1, <2>2, <2>4
  <2>10. Sketches(f[k], B, n + k, E) /\ Counting(B, n + k)
    BY <2>2, <2>6, <2>7, <2>8, <2>9 DEF Sketches
  <2> QED BY <2>1, <2>10
<1>17. Nat \subseteq T
  <2> HIDE DEF T
  <2> QED BY <1>15, <1>16, Induction
<1>18. Good(f[l], l)
  <2>1. l \in T
    <3> HIDE DEF T
    <3> QED BY <1>0, <1>17
  <2> QED BY <2>1
<1> QED BY <1>13, <1>18

-----------------------------------------------------------------------------
\* compress.

\* The samples out are those of the first n of s: each is as far as one of these.
Condenses(out, s, n, E) ==
  /\ out \in Seq(Items(E)) /\ Len(out) > 0
  /\ Ordered(out)
  /\ \A i \in 1 .. Len(out) : \E k \in 1 .. n :
       out[i].value = s[k].value /\ RankMin(out, i) = RankMin(s, k)
  /\ out[Len(out)].value = s[n].value
  /\ RankMin(out, Len(out)) = RankMin(s, n)

\* Up to n samples their ranks are the same.
SameRanks(z, s, n) == \A i \in 0 .. n : RankMin(z, i) = RankMin(s, i) /\ RankMin(s, i) \in Nat

\* The ranks of samples that are the same.
LEMMA RanksSame ==
  ASSUME NEW E, NEW s \in Seq(Items(E)), NEW z \in Seq(Items(E)), NEW n \in Nat,
         n <= Len(s), n <= Len(z), \A i \in 1 .. n : z[i] = s[i]
  PROVE  SameRanks(z, s, n)
<1>1. PICK k, l : k = Len(s) /\ l = Len(z)
  OBVIOUS
<1>2. k \in Nat /\ Weighs(G(s), k) /\ (\A i \in 1 .. k : G(s)[i] = s[i].g)
      /\ \A i : RankMin(s, i) = Total(G(s), i)
  BY <1>1, SamplesWeigh
<1>3. l \in Nat /\ Weighs(G(z), l) /\ (\A i \in 1 .. l : G(z)[i] = z[i].g)
      /\ \A i : RankMin(z, i) = Total(G(z), i)
  BY <1>1, SamplesWeigh
<1>4. ASSUME NEW i \in 0 .. n PROVE Total(G(z), i) = Total(G(s), i) /\ Total(G(s), i) \in Nat
  <2>1. i \in 0 .. k /\ i \in Nat
    BY <1>1, <1>2
  <2>2. Weighs(G(s), i)
    BY <1>2, <2>1, WeighsLess
  <2>3. \A j \in 1 .. i : G(s)[j] = G(z)[j]
    <3>1. \A j \in 1 .. i : j \in 1 .. k /\ j \in 1 .. l /\ j \in 1 .. n
      BY <1>1, <1>2, <1>3
    <3> QED BY <1>2, <1>3, <3>1
  <2> QED BY <2>1, <2>2, <2>3, TotalSame, TotalNext
<1> QED BY <1>2, <1>3, <1>4 DEF SameRanks

\* A sample more adds its weight.
LEMMA RankNext ==
  ASSUME NEW E, NEW s \in Seq(Items(E)), NEW k \in 1 .. Len(s)
  PROVE  /\ RankMin(s, k) = RankMin(s, k - 1) + s[k].g
         /\ RankMin(s, k) \in Nat /\ RankMin(s, k - 1) \in Nat /\ s[k].g \in Nat \ {0}
<1>1. PICK n, j : n = Len(s) /\ j = k - 1
  OBVIOUS
<1>2. /\ n \in Nat /\ Weighs(G(s), n)
      /\ (\A i \in 1 .. n : G(s)[i] = s[i].g /\ s[i] \in Items(E))
      /\ \A i : RankMin(s, i) = Total(G(s), i)
  BY <1>1, SamplesWeigh
<1>3. k \in 1 .. n /\ k \in 0 .. n /\ j \in 0 .. n /\ k \in Nat /\ j \in Nat /\ k > 0
  BY <1>1, <1>2
<1>4. Weighs(G(s), k) /\ Weighs(G(s), j)
  BY <1>2, <1>3, WeighsLess
<1>5. Total(G(s), k) = Total(G(s), k - 1) + G(s)[k] /\ Total(G(s), k) \in Nat
  BY <1>3, <1>4, TotalNext
<1>6. Total(G(s), j) \in Nat
  BY <1>3, <1>4, TotalNext
<1>7. G(s)[k] = s[k].g /\ s[k].g \in Nat \ {0}
  BY <1>2, <1>3 DEF Items
<1> QED BY <1>1, <1>2, <1>5, <1>6, <1>7

\* A sample is appended to p, the first of those that condense s, with the weight
\* that is missing up to the next sample of s.
LEMMA CondensesNext ==
  ASSUME NEW E \in SUBSET Int, NEW s \in Seq(Items(E)), Ordered(s), NEW n \in Nat \ {0},
         n + 1 <= Len(s), NEW out, Condenses(out, s, n, E),
         NEW p \in Seq(Items(E)), NEW q, q = Len(p), q <= Len(out),
         \A i \in 1 .. q : p[i] = out[i],
         NEW x \in Items(E), x.value = s[n + 1].value,
         RankMin(p, q) + x.g = RankMin(s, n + 1)
  PROVE  Condenses(Append(p, x), s, n + 1, E)
<1>1. PICK z, m, o : z = Append(p, x) /\ m = n + 1 /\ o = Len(out)
  OBVIOUS
<1>2. /\ q \in Nat /\ o \in Nat /\ m \in Nat /\ m \in 1 .. Len(s) /\ n \in 1 .. Len(s) /\ n <= m
      /\ out \in Seq(Items(E)) /\ q <= o /\ m = n + 1 /\ n \in Nat \ {0}
  <2>1. out \in Seq(Items(E)) /\ Len(s) \in Nat
    BY LenProperties DEF Condenses
  <2>2. q \in Nat /\ o \in Nat
    BY <1>1, <2>1, LenProperties
  <2> QED BY <1>1, <2>1, <2>2
<1>3. z \in Seq(Items(E)) /\ Len(z) = q + 1 /\ z[q + 1] = x /\ \A i \in 1 .. q : z[i] = p[i]
  BY <1>1, AppendProperties
<1>4. \A i \in 1 .. q : i \in 1 .. o /\ z[i] = out[i]
  BY <1>2, <1>3
<1>5. \A i \in 1 .. o : \E k \in 1 .. n :
        out[i].value = s[k].value /\ RankMin(out, i) = RankMin(s, k)
  BY <1>1 DEF Condenses
<1>6. \A i \in 0 .. q : RankMin(z, i) = RankMin(out, i)
  <2>1. q <= Len(z)
    BY <1>2, <1>3
  <2>2. q <= Len(out)
    BY <1>1, <1>2
  <2>3. z \in Seq(Items(E)) /\ out \in Seq(Items(E)) /\ q \in Nat /\ \A i \in 1 .. q : z[i] = out[i]
    BY <1>2, <1>3, <1>4
  <2>4. SameRanks(z, out, q)
    BY <2>1, <2>2, <2>3, RanksSame
  <2> QED BY <2>4 DEF SameRanks
<1>7. RankMin(z, q + 1) = RankMin(s, m)
  <2>1. PICK r : r = q + 1
    OBVIOUS
  <2>2. r \in 1 .. Len(z) /\ r - 1 = q
    BY <1>2, <1>3, <2>1
  <2>3. RankMin(z, r) = RankMin(z, r - 1) + z[r].g
    BY <1>3, <2>2, RankNext
  <2>4. RankMin(z, q) = RankMin(p, q)
    <3>1. q <= Len(z) /\ q <= Len(p) /\ q \in 0 .. q
      BY <1>2, <1>3
    <3>2. z \in Seq(Items(E)) /\ q \in Nat /\ \A i \in 1 .. q : z[i] = p[i]
      BY <1>2, <1>3
    <3>3. SameRanks(z, p, q)
      BY <3>1, <3>2, RanksSame
    <3> QED BY <3>1, <3>3 DEF SameRanks
  <2> QED BY <1>1, <1>3, <2>1, <2>2, <2>3, <2>4
<1>8. z[q + 1].value = s[m].value
  BY <1>1, <1>3
<1>9. \A i \in 1 .. Len(s) : s[i].value \in Int
  <2>1. \A i \in 1 .. Len(s) : s[i] \in Items(E)
    BY ElementOfSeq
  <2> QED BY <2>1 DEF Items
<1>10. \A i \in 1 .. q + 1 : \E k \in 1 .. m :
         z[i].value = s[k].value /\ RankMin(z, i) = RankMin(s, k)
  <2>1. ASSUME NEW i \in 1 .. q
        PROVE  \E k \in 1 .. m : z[i].value = s[k].value /\ RankMin(z, i) = RankMin(s, k)
    <3>1. i \in 1 .. o /\ z[i] = out[i] /\ i \in 0 .. q
      BY <1>2, <1>4
    <3>2. PICK k \in 1 .. n : out[i].value = s[k].value /\ RankMin(out, i) = RankMin(s, k)
      BY <1>5, <3>1
    <3>3. k \in 1 .. m
      BY <1>2
    <3> QED BY <1>6, <3>1, <3>2, <3>3
  <2>2. m \in 1 .. m /\ \A i \in 1 .. q + 1 : i \in 1 .. q \/ i = q + 1
    BY <1>2
  <2> QED BY <1>7, <1>8, <2>1, <2>2
<1>11. Ordered(z)
  <2>1. \A i \in 1 .. q + 1 : \E k \in 1 .. m : z[i].value = s[k].value
    BY <1>10
  <2>2. \A i \in 1 .. q + 1 : z[i].value <= s[m].value
    <3>1. \A k \in 1 .. m : k \in 1 .. Len(s) /\ k <= m
      BY <1>2
    <3>2. \A k \in 1 .. m : s[k].value <= s[m].value
      BY <1>2, <3>1 DEF Ordered
    <3> QED BY <2>1, <3>2
  <2>3. \A i, j \in 1 .. q : i <= j => z[i].value <= z[j].value
    <3>1. \A i, j \in 1 .. o : i <= j => out[i].value <= out[j].value
      BY <1>1 DEF Condenses, Ordered
    <3> QED BY <1>4, <3>1
  <2>4. s[m].value <= s[m].value
    BY <1>2, <1>9
  <2>5. ASSUME NEW i \in 1 .. q + 1, NEW j \in 1 .. q + 1, i <= j
        PROVE  z[i].value <= z[j].value
    <3>1. CASE j = q + 1
      BY <1>8, <2>2, <3>1
    <3>2. CASE j # q + 1
      <4>1. i \in 1 .. q /\ j \in 1 .. q
        BY <1>2, <2>5, <3>2
      <4> QED BY <2>3, <2>5, <4>1
    <3> QED BY <3>1, <3>2
  <2> QED BY <1>3, <2>5 DEF Ordered
<1>12. Len(z) > 0
  BY <1>2, <1>3
<1> QED BY <1>1, <1>3, <1>7, <1>8, <1>10, <1>11, <1>12 DEF Condenses

\* What compress has at a sample: the samples so far and a size.  Without an error
\* they are the ones it was given.
Compressing(acc, s, n, E) ==
  /\ acc \in [out : Seq(Items(E)), size : Int]
  /\ Condenses(acc.out, s, n, E)

Untouched(acc, s, n) ==
  /\ Len(acc.out) = n /\ acc.size = Len(s)
  /\ \A i \in 1 .. n : acc.out[i] = s[i]

\* compress, one sample: whether it is merged or not.
LEMMA CompressOneCondenses ==
  ASSUME NEW E \in SUBSET Int, NEW s \in Seq(Items(E)), Ordered(s), NEW n \in Nat \ {0},
         n + 1 <= Len(s), NEW acc, Compressing(acc, s, n, E)
  PROVE  Compressing(CompressOne(acc, s[n + 1]), s, n + 1, E)
<1>1. PICK out, total, o, c, m, I :
        /\ out = acc.out /\ total = acc.size /\ o = Len(acc.out) /\ m = n + 1 /\ c = s[m]
        /\ I = Items(E)
  OBVIOUS
<1>2. /\ out \in Seq(I) /\ total \in Int /\ o = Len(out) /\ Condenses(out, s, n, E) /\ o > 0
      /\ acc = [out |-> out, size |-> total]
  BY <1>1 DEF Compressing, Condenses
<1>3. o \in Nat /\ o \in 1 .. Len(out) /\ c \in I /\ m \in 1 .. Len(s) /\ n \in 1 .. Len(s)
  <2>1. o \in Nat /\ Len(s) \in Nat
    BY <1>2, LenProperties
  <2>2. m \in 1 .. Len(s)
    BY <1>1, <2>1
  <2> QED BY <1>1, <1>2, <2>1, <2>2, ElementOfSeq
<1>4. Last(out) = out[o] /\ out[o] \in I
  <2>1. out[o] \in I
    BY <1>2, <1>3, ElementOfSeq
  <2> QED BY <1>2, <2>1 DEF Last
<1>5. RankMin(s, m) = RankMin(s, n) + c.g /\ RankMin(s, n) \in Nat /\ c.g \in Nat \ {0}
  <2>1. m - 1 = n
    BY <1>1
  <2> QED BY <1>1, <1>3, <2>1, RankNext
<1>6. RankMin(out, o) = RankMin(s, n) /\ RankMin(out, o) = RankMin(out, o - 1) + out[o].g
      /\ RankMin(out, o - 1) \in Nat /\ out[o].g \in Nat \ {0}
  <2>1. RankMin(out, o) = RankMin(s, n)
    BY <1>2 DEF Condenses
  <2> QED BY <1>1, <1>2, <1>3, <2>1, RankNext
<1>7. PICK x, r, f, a : x = Merged(out[o], c) /\ r = o - 1 /\ f = Front(out) /\ a = Append(f, x)
  OBVIOUS
<1>8. x \in I /\ x.value = c.value /\ x.g = out[o].g + c.g
  <2>1. c.value \in E /\ c.delta \in Nat
    BY <1>1, <1>3 DEF Items
  <2>2. out[o].g + c.g \in Nat \ {0}
    <3>1. PICK u, v : u = out[o].g /\ v = c.g
      OBVIOUS
    <3>2. u \in Nat \ {0} /\ v \in Nat \ {0}
      BY <1>5, <1>6, <3>1
    <3>3. u + v \in Nat \ {0}
      BY <3>2
    <3> QED BY <3>1, <3>3
  <2>3. x.value = c.value /\ x.g = out[o].g + c.g /\ x \in I
    BY <1>1, <1>3, <1>7, <2>1, <2>2 DEF Merged, Items
  <2> QED BY <2>3
<1>9. f \in Seq(I) /\ Len(f) = r /\ r \in Nat /\ \A i \in 1 .. r : f[i] = out[i]
  <2>1. r \in Nat /\ 1 \in Int /\ r \in Int /\ \A i \in 1 .. r : out[i] \in I
    <3>1. \A i \in 1 .. r : i \in 1 .. Len(out)
      BY <1>2, <1>3, <1>7
    <3> QED BY <1>2, <1>3, <1>7, <3>1, ElementOfSeq
  <2>2. f = SubSeq(out, 1, r)
    BY <1>2, <1>7 DEF Front
  <2>3. /\ SubSeq(out, 1, r) \in Seq(I)
        /\ Len(SubSeq(out, 1, r)) = (IF 1 <= r THEN r - 1 + 1 ELSE 0)
        /\ \A i \in 1 .. r - 1 + 1 : SubSeq(out, 1, r)[i] = out[1 + i - 1]
    BY <2>1, SubSeqProperties
  <2>4. (IF 1 <= r THEN r - 1 + 1 ELSE 0) = r /\ r - 1 + 1 = r /\ \A i \in 1 .. r : 1 + i - 1 = i
    BY <2>1
  <2> QED BY <2>1, <2>2, <2>3, <2>4
<1>10. Condenses(a, s, m, E)
  <2>1. RankMin(f, r) = RankMin(out, r)
    <3>1. r <= Len(f) /\ r <= Len(out) /\ r \in 0 .. r
      BY <1>2, <1>3, <1>7, <1>9
    <3>2. f \in Seq(Items(E)) /\ out \in Seq(Items(E)) /\ r \in Nat /\ \A i \in 1 .. r : f[i] = out[i]
      BY <1>1, <1>2, <1>9
    <3>3. SameRanks(f, out, r)
      BY <3>1, <3>2, RanksSame
    <3> QED BY <3>1, <3>3 DEF SameRanks
  <2>2. RankMin(f, r) + x.g = RankMin(s, m)
    BY <1>5, <1>6, <1>7, <1>8, <2>1
  <2>3. r <= Len(out) /\ x.value = s[n + 1].value /\ RankMin(f, r) + x.g = RankMin(s, n + 1)
    BY <1>1, <1>2, <1>3, <1>7, <1>8, <2>2
  <2>4. Condenses(Append(f, x), s, n + 1, E)
    BY <1>1, <1>2, <1>8, <1>9, <2>3, CondensesNext
  <2> QED BY <1>1, <1>7, <2>4
<1>11. Condenses(Append(out, c), s, m, E)
  <2>1. o <= Len(out) /\ c.value = s[n + 1].value /\ RankMin(out, o) + c.g = RankMin(s, n + 1)
        /\ \A i \in 1 .. o : out[i] = out[i]
    BY <1>1, <1>2, <1>3, <1>5, <1>6
  <2>2. Condenses(Append(out, c), s, n + 1, E)
    BY <1>1, <1>2, <1>3, <2>1, CondensesNext
  <2> QED BY <1>1, <2>2
<1>12. CASE Last(acc.out).g + c.g + c.delta <= AllowableError(Len(acc.out), acc.size)
  <2>1. CompressOne(acc, c) = [out |-> a, size |-> total - 1]
    BY <1>1, <1>4, <1>7, <1>12 DEF CompressOne
  <2>2. a \in Seq(I) /\ total - 1 \in Int
    BY <1>1, <1>2, <1>10 DEF Condenses
  <2>3. PICK y : y = CompressOne(acc, c)
    OBVIOUS
  <2>4. y = [out |-> a, size |-> total - 1]
    BY <2>1, <2>3
  <2>5. y.out = a /\ y \in [out : Seq(I), size : Int]
    BY <2>2, <2>4
  <2> QED BY <1>1, <1>10, <2>3, <2>5 DEF Compressing
<1>13. CASE ~ (Last(acc.out).g + c.g + c.delta <= AllowableError(Len(acc.out), acc.size))
  <2>1. PICK y, b : y = CompressOne(acc, c) /\ b = Append(out, c)
    OBVIOUS
  <2>2. y = [acc EXCEPT !.out = b]
    BY <1>1, <1>13, <2>1 DEF CompressOne
  <2>3. b \in Seq(I)
    BY <1>1, <1>11, <2>1 DEF Condenses
  <2>4. y.out = b /\ y \in [out : Seq(I), size : Int]
    BY <1>2, <2>2, <2>3
  <2> QED BY <1>1, <1>11, <2>1, <2>4 DEF Compressing
<1> QED BY <1>1, <1>12, <1>13

\* compress, one sample, without an error: it is not merged.
LEMMA CompressOneUntouched ==
  ASSUME TargetsHold, NoError, NEW E \in SUBSET Int, NEW s \in Seq(Items(E)),
         NEW n \in Nat \ {0}, n + 1 <= Len(s), NEW acc, Compressing(acc, s, n, E),
         Untouched(acc, s, n)
  PROVE  Untouched(CompressOne(acc, s[n + 1]), s, n + 1)
<1>1. PICK out, l, m, c, y : out = acc.out /\ l = Len(s) /\ m = n + 1 /\ c = s[m]
                          /\ y = CompressOne(acc, c)
  OBVIOUS
<1>2. out \in Seq(Items(E)) /\ Len(out) = n /\ acc.size = l /\ (\A i \in 1 .. n : out[i] = s[i])
      /\ DOMAIN acc = {"out", "size"} /\ acc \in [out : Seq(Items(E)), size : Int]
  BY <1>1 DEF Compressing, Untouched
<1>3. l \in Nat /\ m \in 1 .. l /\ n \in 1 .. n /\ c \in Items(E)
  <2>1. l \in Nat
    BY <1>1, LenProperties
  <2>2. m \in 1 .. l
    BY <1>1, <2>1
  <2> QED BY <1>1, <2>1, <2>2, ElementOfSeq
<1>4. Last(out).g \in Nat \ {0} /\ c.g \in Nat \ {0} /\ c.delta \in Nat
  <2>1. out[n] \in Items(E)
    BY <1>2, <1>3, ElementOfSeq
  <2>2. Last(out) = out[n]
    BY <1>2 DEF Last
  <2> QED BY <1>3, <2>1, <2>2 DEF Items
<1>5. AllowableError(n, l) = 0
  BY <1>3, NothingAllowed
<1>6. ~ (Last(acc.out).g + c.g + c.delta <= AllowableError(Len(acc.out), acc.size))
  <2>1. PICK a, b, d : a = Last(out).g /\ b = c.g /\ d = c.delta
    OBVIOUS
  <2>2. ~ (a + b + d <= 0)
    BY <1>4, <2>1
  <2> QED BY <1>1, <1>2, <1>5, <2>1, <2>2
<1>7. y = [acc EXCEPT !.out = Append(out, c)]
  BY <1>1, <1>6 DEF CompressOne
<1>8. PICK b : b = Append(out, c)
  OBVIOUS
<1>9. y.out = b /\ y.size = l
  BY <1>2, <1>7, <1>8
<1>10. Len(b) = n + 1 /\ b[n + 1] = c /\ \A i \in 1 .. n : b[i] = out[i]
  BY <1>2, <1>3, <1>8, AppendProperties
<1>11. \A i \in 1 .. m : b[i] = s[i]
  <2>1. \A i \in 1 .. m : i \in 1 .. n \/ i = m
    BY <1>1
  <2> QED BY <1>1, <1>2, <1>10, <2>1
<1> QED BY <1>1, <1>9, <1>10, <1>11 DEF Untouched

\* f compresses s, one sample after the other.
Compresses(f, s, n) ==
  f = [i \in 1 .. n |-> IF i = 1 THEN [out |-> <<s[1]>>, size |-> Len(s)]
                        ELSE CompressOne(f[i - 1], s[i])]

\* It can be done.
LEMMA CanCompress == ASSUME NEW s, NEW n \in Nat PROVE \E f : Compresses(f, s, n)
<1>1. PICK T, b : /\ T = {m \in Nat : \E f : Compresses(f, s, m)}
                  /\ b = [out |-> <<s[1]>>, size |-> Len(s)]
  OBVIOUS
<1>2. 0 \in T
  <2>1. PICK f : f = [i \in 1 .. 0 |-> b]
    OBVIOUS
  <2>2. f = [i \in 1 .. 0 |-> IF i = 1 THEN b ELSE CompressOne(f[i - 1], s[i])]
    BY <2>1
  <2> QED BY <1>1, <2>2 DEF Compresses
<1>3. ASSUME NEW m \in Nat, m \in T PROVE m + 1 \in T
  <2>1. PICK f : Compresses(f, s, m)
    BY <1>1, <1>3
  <2>2. \A i \in 1 .. m : f[i] = IF i = 1 THEN b ELSE CompressOne(f[i - 1], s[i])
    BY <1>1, <2>1 DEF Compresses
  <2>3. PICK last : last = IF m + 1 = 1 THEN b ELSE CompressOne(f[m], s[m + 1])
    OBVIOUS
  <2>4. PICK g : g = [i \in 1 .. m + 1 |-> IF i = m + 1 THEN last ELSE f[i]]
    OBVIOUS
  <2>5. g[m + 1] = last /\ \A i \in 1 .. m : g[i] = f[i]
    BY <2>4
  <2>6. ASSUME NEW i \in 1 .. m + 1
        PROVE  g[i] = IF i = 1 THEN b ELSE CompressOne(g[i - 1], s[i])
    <3>1. CASE i = 1 /\ i = m + 1
      BY <2>3, <2>5, <3>1
    <3>2. CASE i # 1 /\ i = m + 1
      <4>1. i - 1 = m /\ m \in 1 .. m /\ m + 1 # 1
        BY <3>2
      <4> QED BY <2>3, <2>5, <3>2, <4>1
    <3>3. CASE i # m + 1
      <4>1. i \in 1 .. m /\ (i = 1 \/ i - 1 \in 1 .. m)
        BY <3>3
      <4> QED BY <2>2, <2>5, <4>1
    <3> QED BY <3>1, <3>2, <3>3
  <2>7. g = [i \in 1 .. m + 1 |-> g[i]]
    BY <2>4
  <2>8. Compresses(g, s, m + 1)
    BY <1>1, <2>6, <2>7 DEF Compresses
  <2> QED BY <1>1, <2>8
<1>4. Nat \subseteq T
  BY <1>2, <1>3, Induction
<1> QED BY <1>1, <1>4

\* CompressUpTo does it.
LEMMA CompressUpToIs ==
  ASSUME NEW s, NEW n \in Nat
  PROVE  \E f : Compresses(f, s, n) /\ CompressUpTo(s, n) = f[n]
<1> DEFINE Solves(f) == f = [i \in 1 .. n |-> IF i = 1 THEN [out |-> <<s[1]>>, size |-> Len(s)]
                                              ELSE CompressOne(f[i - 1], s[i])]
<1>1. PICK f : f = CHOOSE g : Solves(g)
  OBVIOUS
<1>2. \E g : Solves(g)
  BY CanCompress DEF Compresses
<1>3. Solves(f)
  <2> HIDE DEF Solves
  <2> QED BY <1>1, <1>2, Zenon
<1>4. Compresses(f, s, n)
  BY <1>3 DEF Compresses
<1>5. CompressUpTo(s, n) = (CHOOSE g : Solves(g))[n]
  BY Zenon DEF CompressUpTo
<1>6. CompressUpTo(s, n) = f[n]
  <2> HIDE DEF Solves
  <2> QED BY <1>1, <1>5
<1> QED BY <1>4, <1>6

\* compress, up to a sample.
LEMMA CompressUpToCondenses ==
  ASSUME TargetsHold, NEW E \in SUBSET Int, NEW s \in Seq(Items(E)), Ordered(s), NEW n \in Nat \ {0},
         n <= Len(s)
  PROVE  /\ Compressing(CompressUpTo(s, n), s, n, E)
         /\ NoError => Untouched(CompressUpTo(s, n), s, n)
<1>1. PICK f : Compresses(f, s, n) /\ CompressUpTo(s, n) = f[n]
  BY CompressUpToIs
<1>2. PICK l, b : l = Len(s) /\ b = [out |-> <<s[1]>>, size |-> Len(s)]
  OBVIOUS
<1>3. \A i \in 1 .. n : f[i] = IF i = 1 THEN b ELSE CompressOne(f[i - 1], s[i])
  BY <1>1, <1>2 DEF Compresses
<1>4. l \in Nat /\ 1 \in 1 .. l /\ s[1] \in Items(E) /\ n <= l
  <2>1. l \in Nat
    BY <1>2, LenProperties
  <2>2. 1 \in 1 .. l /\ n <= l
    BY <1>2, <2>1
  <2> QED BY <1>2, <2>1, <2>2, ElementOfSeq
<1> DEFINE Good(m) == Compressing(f[m], s, m, E) /\ (NoError => Untouched(f[m], s, m))
           T == {m \in Nat : m + 1 <= n => Good(m + 1)}
<1>5. 0 \in T
  <2>1. 1 \in 1 .. n /\ f[1] = b
    BY <1>3
  <2>2. PICK o : o = <<s[1]>>
    OBVIOUS
  <2>3. o \in Seq(Items(E)) /\ Len(o) = 1 /\ o[1] = s[1]
    BY <1>4, <2>2
  <2>4. b.out = o /\ b.size = l /\ b \in [out : Seq(Items(E)), size : Int]
    BY <1>2, <1>4, <2>2, <2>3
  <2>5. RankMin(o, 1) = RankMin(s, 1)
    <3>1. 1 <= Len(o) /\ 1 <= Len(s) /\ 1 \in Nat /\ 1 \in 0 .. 1 /\ \A i \in 1 .. 1 : o[i] = s[i]
      BY <1>2, <1>4, <2>3
    <3>2. SameRanks(o, s, 1)
      BY <2>3, <3>1, RanksSame
    <3> QED BY <3>1, <3>2 DEF SameRanks
  <2>6. Ordered(o)
    <3>1. s[1].value <= s[1].value
      <4>1. PICK x, v : x \in Items(E) /\ x = s[1] /\ v = x.value
        BY <1>4
      <4>2. v \in E
        BY <4>1 DEF Items
      <4>3. v \in Int
        BY <4>2
      <4>4. v <= v
        BY <4>3
      <4> QED BY <4>1, <4>4
    <3>2. \A i \in 1 .. 1 : i = 1
      OBVIOUS
    <3> QED BY <2>3, <3>1, <3>2 DEF Ordered
  <2>7. Condenses(o, s, 1, E)
    <3>1. \A i \in 1 .. 1 : \E k \in 1 .. 1 : o[i].value = s[k].value /\ RankMin(o, i) = RankMin(s, k)
      <4>1. \A i \in 1 .. 1 : i = 1
        OBVIOUS
      <4> QED BY <2>3, <2>5, <4>1
    <3> QED BY <2>3, <2>5, <2>6, <3>1 DEF Condenses
  <2>8. Compressing(b, s, 1, E)
    BY <2>4, <2>7 DEF Compressing
  <2>9. Untouched(b, s, 1)
    <3>1. \A i \in 1 .. 1 : i = 1
      OBVIOUS
    <3> QED BY <1>2, <2>3, <2>4, <3>1 DEF Untouched
  <2>10. 0 + 1 = 1
    OBVIOUS
  <2> QED BY <2>1, <2>8, <2>9, <2>10
<1>6. ASSUME NEW j \in Nat, j \in T PROVE j + 1 \in T
  <2> SUFFICES ASSUME (j + 1) + 1 <= n PROVE Good((j + 1) + 1)
    OBVIOUS
  <2>1. PICK m, k : m \in Nat \ {0} /\ m = j + 1 /\ k = m + 1
    OBVIOUS
  <2>2. m + 1 <= Len(s) /\ m <= n /\ k \in 1 .. n /\ k # 1 /\ k - 1 = m
    BY <1>2, <1>4, <2>1
  <2>3. Good(m)
    BY <1>6, <2>1, <2>2
  <2>4. f[k] = CompressOne(f[m], s[m + 1])
    BY <1>3, <2>1, <2>2
  <2>5. PICK acc : acc = f[m]
    OBVIOUS
  <2>6. Compressing(acc, s, m, E) /\ (NoError => Untouched(acc, s, m))
    BY <2>3, <2>5
  <2>7. Compressing(CompressOne(acc, s[m + 1]), s, m + 1, E)
    BY <2>2, <2>6, CompressOneCondenses
  <2>8. ASSUME NoError PROVE Untouched(CompressOne(acc, s[m + 1]), s, m + 1)
    BY <2>2, <2>6, <2>8, CompressOneUntouched
  <2>9. Good(k)
    BY <2>1, <2>4, <2>5, <2>7, <2>8
  <2> QED BY <2>1, <2>9
<1>7. Nat \subseteq T
  <2> HIDE DEF T
  <2> QED BY <1>5, <1>6, Induction
<1>8. Good(n)
  <2>1. PICK j \in Nat : n = j + 1
    <3>1. n \in Nat /\ n # 0
      OBVIOUS
    <3>2. n - 1 \in Nat /\ n = (n - 1) + 1
      BY <3>1
    <3> QED BY <3>2
  <2>2. j \in T
    <3> HIDE DEF T
    <3> QED BY <1>7, <2>1
  <2>3. j + 1 <= n => Good(j + 1)
    BY <2>2
  <2>4. n <= n
    OBVIOUS
  <2> HIDE DEF Good
  <2> QED BY <2>1, <2>3, <2>4
<1> QED BY <1>1, <1>8

\* compress: what stands for the observations still does.
LEMMA CompressedSketches ==
  ASSUME TargetsHold, NEW E \in SUBSET Int, NEW F, NEW n, Counting(F, n),
         NEW s, Sketches(s, F, n, E)
  PROVE  Sketches(Compressed(s), F, n, E)
<1>1. PICK l, acc, o, k : l = Len(s) /\ acc = CompressUpTo(s, l) /\ o = acc.out /\ k = Len(o)
  OBVIOUS
<1>2. CASE l < 2
  BY <1>1, <1>2 DEF Compressed
<1>3. CASE ~ (l < 2)
  <2>1. s \in Seq(Items(E)) /\ Ordered(s) /\ l \in Nat /\ l \in Nat \ {0} /\ l <= Len(s) /\ l > 0
    <3>1. s \in Seq(Items(E)) /\ Ordered(s)
      BY DEF Sketches, Stands
    <3>2. l \in Nat
      BY <1>1, <3>1, LenProperties
    <3> QED BY <1>1, <1>3, <3>1, <3>2
  <2>2. Compressing(acc, s, l, E) /\ (NoError => Untouched(acc, s, l))
    BY <1>1, <2>1, CompressUpToCondenses
  <2>3. Compressed(s) = o
    BY <1>1, <1>3 DEF Compressed
  <2>4. Condenses(o, s, l, E)
    BY <1>1, <2>2 DEF Compressing
  <2>5. (\A i \in 1 .. l : RankMin(s, i) <= F[s[i].value]) /\ RankMin(s, l) = n
        /\ F[s[l].value] = n /\ F[s[l].value - 1] < n
    BY <1>1, <2>1 DEF Sketches, Stands
  <2>6. o \in Seq(Items(E)) /\ Ordered(o) /\ k > 0 /\ o[k].value = s[l].value
        /\ RankMin(o, k) = RankMin(s, l)
    BY <1>1, <2>4 DEF Condenses
  <2>7. \A i \in 1 .. k : RankMin(o, i) <= F[o[i].value]
    <3>1. \A i \in 1 .. k : \E j \in 1 .. l :
            o[i].value = s[j].value /\ RankMin(o, i) = RankMin(s, j)
      BY <1>1, <2>4 DEF Condenses
    <3> QED BY <2>5, <3>1
  <2>8. Stands(o, F, n, E)
    BY <1>1, <2>5, <2>6, <2>7 DEF Stands
  <2>9. ASSUME NoError PROVE Exact(o, F)
    <3>1. k = l /\ \A i \in 1 .. l : o[i] = s[i]
      BY <1>1, <2>2, <2>9 DEF Untouched
    <3>2. \A i \in 1 .. l : s[i].g = 1 /\ s[i].delta <= 1 /\ F[s[i].value - 1] < i
      BY <1>1, <2>9 DEF Sketches, Exact
    <3> QED BY <1>1, <3>1, <3>2 DEF Exact
  <2> QED BY <2>3, <2>8, <2>9 DEF Sketches
<1> QED BY <1>2, <1>3

\* insertBatch and compress: the samples stand for the batch as well.
LEMMA FlushSketches ==
  ASSUME TargetsHold, NEW E \in SUBSET Int, NEW F, NEW n, Counting(F, n),
         NEW s, Sketches(s, F, n, E), NEW values \in Seq(E),
         NEW F2, F2 = [v \in Int |-> F[v] + UpTo(values, v)]
  PROVE  /\ Sketches(Compressed(InsertBatch(s, values)), F2, n + Len(values), E)
         /\ Counting(F2, n + Len(values))
<1>1. PICK l, b, z, m : l = Len(values) /\ b = Sorted(values) /\ z = InsertAll(s, b) /\ m = n + l
  OBVIOUS
<1>2. b \in Seq(E) /\ Len(b) = l /\ \A v \in Int : UpTo(b, v) = UpTo(values, v)
  BY <1>1, SortKeeps DEF SameValues
<1>3. PlusFirst(F, b, l) = F2
  <2>1. b \in Seq(Int)
    BY <1>2, SeqOver
  <2>2. ASSUME NEW v \in Int PROVE UpTo(b, v) = Total(AtMost(b, v), l)
    BY <1>2, <2>1, ValuesWeigh
  <2>3. \A v \in Int : F[v] + Total(AtMost(b, v), l) = F[v] + UpTo(values, v)
    BY <1>2, <2>2
  <2> QED BY <2>3 DEF PlusFirst
<1>4. Sketches(z, F2, m, E) /\ Counting(F2, m)
  <2>1. l = Len(b)
    BY <1>2
  <2>2. /\ Sketches(InsertAll(s, b), PlusFirst(F, b, l), n + l, E)
        /\ Counting(PlusFirst(F, b, l), n + l)
    BY <1>2, <2>1, InsertAllSketches
  <2> QED BY <1>1, <1>3, <2>2
<1>5. Sketches(Compressed(z), F2, m, E)
  BY <1>4, CompressedSketches
<1>6. InsertBatch(s, values) = z
  BY <1>1 DEF InsertBatch
<1> QED BY <1>1, <1>4, <1>5, <1>6

-----------------------------------------------------------------------------
\* The state between two calls.

\* The observations that are not in the buffer, counted.
Remaining(o, b) == [v \in Int |-> UpTo(o, v) - UpTo(b, v)]

\* The samples s stand for the n of the observations o that are not in the buffer b.
Holds(b, s, n, o) ==
  /\ o \in Seq(Values) /\ b \in Seq(ToSet(o)) /\ n + Len(b) = Len(o)
  /\ Counting(Remaining(o, b), n)
  /\ Sketches(s, Remaining(o, b), n, ToSet(o))

\* As many values as there are.
LEMMA UpToNatural == ASSUME NEW s \in Seq(Int), NEW v \in Int PROVE UpTo(s, v) \in Nat
<1>1. PICK n : n = Len(s)
  OBVIOUS
<1>2. UpTo(s, v) \in 0 .. n
  BY <1>1, UpToBounds
<1> QED BY <1>2

\* The elements of a sequence.
LEMMA ElementsOf ==
  ASSUME NEW S, NEW s \in Seq(S)
  PROVE  /\ ToSet(s) \in SUBSET S /\ s \in Seq(ToSet(s)) /\ DOMAIN s = 1 .. Len(s)
         /\ \A i \in 1 .. Len(s) : s[i] \in ToSet(s)
<1>1. PICK n : n = Len(s)
  OBVIOUS
<1>2. n \in Nat /\ DOMAIN s = 1 .. n /\ \A i \in 1 .. n : s[i] \in S
  BY <1>1, LenProperties, ElementOfSeq
<1>3. ToSet(s) \in SUBSET S /\ \A i \in 1 .. n : s[i] \in ToSet(s)
  BY <1>2 DEF ToSet
<1>4. s \in [1 .. n -> ToSet(s)]
  <2>1. s = [i \in 1 .. n |-> s[i]]
    BY <1>1, LenProperties
  <2> QED BY <1>3, <2>1
<1>5. s \in Seq(ToSet(s))
  BY <1>2, <1>4, FunctionIsSeq
<1> QED BY <1>1, <1>2, <1>3, <1>5

\* A value in its place is there, and what was there still is.
LEMMA PlacedElements ==
  ASSUME NEW E \in SUBSET Int, NEW s \in Seq(E), NEW e \in E, NEW z, z = Placed(s, e)
  PROVE  e \in ToSet(z) /\ ToSet(s) \subseteq ToSet(z)
<1>1. PICK k, n : k = UpTo(s, e) /\ n = Len(s)
  OBVIOUS
<1>2. s \in Seq(Int) /\ e \in Int
  BY SeqOver
<1>3. k \in 0 .. n /\ n \in Nat
  BY <1>1, <1>2, UpToBounds, LenProperties
<1>4. OneMore(E, z, s, n, k, e)
  <2>1. z = InsertAt(s, k + 1, e)
    BY <1>1 DEF Placed
  <2> QED BY <1>1, <1>3, <2>1, Inserts
<1>5. z \in Seq(E) /\ Len(z) = n + 1 /\ z[k + 1] = e
      /\ (\A i \in 1 .. k : z[i] = s[i]) /\ (\A i \in k + 1 .. n : z[i + 1] = s[i])
  BY <1>4 DEF OneMore
<1>6. \A i \in 1 .. n + 1 : z[i] \in ToSet(z)
  BY <1>5, ElementsOf
<1>7. e \in ToSet(z)
  <2>1. k + 1 \in 1 .. n + 1
    BY <1>3
  <2> QED BY <1>5, <1>6, <2>1
<1>8. \A i \in 1 .. n : s[i] \in ToSet(z)
  <2>1. ASSUME NEW i \in 1 .. n PROVE s[i] \in ToSet(z)
    <3>1. CASE i \in 1 .. k
      <4>1. i \in 1 .. n + 1
        BY <1>3
      <4> QED BY <1>5, <1>6, <3>1, <4>1
    <3>2. CASE i \notin 1 .. k
      <4>1. i \in k + 1 .. n /\ i + 1 \in 1 .. n + 1
        BY <1>3, <3>2
      <4> QED BY <1>5, <1>6, <4>1
    <3> QED BY <3>1, <3>2
  <2> QED BY <2>1
<1>9. DOMAIN s = 1 .. n
  BY <1>1, LenProperties
<1>10. ToSet(s) = {s[i] : i \in 1 .. n}
  BY <1>9 DEF ToSet
<1> QED BY <1>7, <1>8, <1>10

\* What stands for observations does so among more of them.
LEMMA SketchesAmong ==
  ASSUME NEW E \in SUBSET Int, NEW D \in SUBSET E, NEW F, NEW n, NEW s, Sketches(s, F, n, D)
  PROVE  Sketches(s, F, n, E)
<1>1. s \in Seq(Items(D))
  BY DEF Sketches, Stands
<1>2. Items(D) \in SUBSET Items(E)
  BY DEF Items
<1>3. s \in Seq(Items(E))
  BY <1>1, <1>2, SeqOver
<1> QED BY <1>3 DEF Sketches, Stands

\* Nothing is inserted.
LEMMA NothingHolds == Holds(<<>>, <<>>, 0, <<>>)
<1>1. PICK e, F : e = <<>> /\ F = Remaining(<<>>, <<>>)
  OBVIOUS
<1>2. e \in Seq(Values) /\ e \in Seq(ToSet(e)) /\ e \in Seq(Items(ToSet(e))) /\ Len(e) = 0
  BY <1>1, EmptySeq
<1>3. F \in [Int -> Nat] /\ \A v \in Int : F[v] = 0
  <2>1. ASSUME NEW v \in Int PROVE UpTo(<<>>, v) - UpTo(<<>>, v) = 0
    BY UpToNothing
  <2> QED BY <1>1, <2>1 DEF Remaining
<1>4. Counting(F, 0)
  BY <1>3 DEF Counting
<1>5. RankMin(e, 0) = 0
  <2>1. PICK E : E = ToSet(e)
    OBVIOUS
  <2>2. PICK w : w = G(e)
    OBVIOUS
  <2>3. Weighs(w, 0) /\ RankMin(e, 0) = Total(w, 0)
    BY <1>2, <2>2, SamplesWeigh
  <2> QED BY <2>3, TotalNext
<1>6. Ordered(e)
  BY <1>2 DEF Ordered
<1>7. Sketches(e, F, 0, ToSet(e))
  <2>1. ~ (Len(e) > 0) /\ \A i \in 1 .. Len(e) : FALSE
    BY <1>2
  <2>2. Stands(e, F, 0, ToSet(e))
    BY <1>2, <1>5, <1>6, <2>1 DEF Stands
  <2>3. Exact(e, F)
    BY <2>1 DEF Exact
  <2> QED BY <2>2, <2>3 DEF Sketches
<1> QED BY <1>1, <1>2, <1>4, <1>7 DEF Holds

\* insert: the observation waits in the buffer.
LEMMA ObservedHolds ==
  ASSUME NEW b, NEW s, NEW n, NEW o, Holds(b, s, n, o), NEW e \in Values
  PROVE  Holds(Append(b, e), s, n, Placed(o, e))
<1>1. PICK z, c, l, m : z = Placed(o, e) /\ c = Append(b, e) /\ l = Len(o) /\ m = Len(b)
  OBVIOUS
<1>2. Values \in SUBSET Int /\ o \in Seq(Values) /\ b \in Seq(ToSet(o)) /\ n + m = l /\ n \in Nat
  BY <1>1, CKMSAssumption DEF Holds, Counting
<1>3. Grown(z, o, e, Values)
  BY <1>1, <1>2, PlacedOneMore
<1>4. z \in Seq(Values) /\ Len(z) = l + 1 /\ \A v \in Int : UpTo(z, v) = UpTo(o, v) + One(e, v)
  BY <1>1, <1>3 DEF Grown
<1>5. e \in ToSet(z) /\ ToSet(o) \in SUBSET ToSet(z)
  BY <1>1, <1>2, PlacedElements
<1>6. ToSet(z) \in SUBSET Int
  BY <1>2, <1>4, ElementsOf
<1>7. b \in Seq(ToSet(z)) /\ m \in Nat
  BY <1>1, <1>2, <1>5, SeqOver, LenProperties
<1>8. c \in Seq(ToSet(z)) /\ Len(c) = m + 1
  BY <1>1, <1>5, <1>7, AppendProperties
<1>9. Remaining(z, c) = Remaining(o, b)
  <2>1. OneMore(Int, c, b, m, m, e)
    <3>1. b \in Seq(Int) /\ e \in Int
      BY <1>2, <1>6, <1>7, SeqOver
    <3> QED BY <1>1, <3>1, Appends
  <2>2. b \in Seq(Int) /\ c \in Seq(Int) /\ o \in Seq(Int) /\ e \in Int /\ m \in 0 .. m
    <3>1. b \in Seq(Int)
      BY <1>6, <1>7, SeqOver
    <3>2. c \in Seq(Int)
      BY <1>6, <1>8, SeqOver
    <3>3. o \in Seq(Int)
      BY <1>2, SeqOver
    <3>4. m \in 0 .. m
      BY <1>7
    <3> QED BY <1>2, <3>1, <3>2, <3>3, <3>4
  <2>3. ASSUME NEW v \in Int PROVE UpTo(z, v) - UpTo(c, v) = UpTo(o, v) - UpTo(b, v)
    <3>1. UpTo(c, v) = UpTo(b, v) + One(e, v)
      <4>1. m = Len(b)
        BY <1>1
      <4> QED BY <4>1, <2>1, <2>2, UpToInserted, Zenon
    <3>2. PICK p, q, r : p = UpTo(o, v) /\ q = UpTo(b, v) /\ r = One(e, v)
      OBVIOUS
    <3>3. p \in Int /\ q \in Int
      BY <2>2, <3>2, UpToNatural
    <3>4. r \in Int
      BY <3>2 DEF One
    <3>5. (p + r) - (q + r) = p - q
      BY <3>3, <3>4
    <3> QED BY <1>4, <3>1, <3>2, <3>5
  <2> QED BY <2>3 DEF Remaining
<1>10. Sketches(s, Remaining(o, b), n, ToSet(z))
  <2>1. Sketches(s, Remaining(o, b), n, ToSet(o))
    BY DEF Holds
  <2> QED BY <1>5, <1>6, <2>1, SketchesAmong
<1>11. Counting(Remaining(o, b), n) /\ n + (m + 1) = l + 1
  <2>1. n \in Nat /\ m \in Nat /\ n + m = l
    BY <1>2, <1>7
  <2>2. n + (m + 1) = l + 1
    BY <2>1
  <2> QED BY <2>2 DEF Holds
<1> QED BY <1>1, <1>4, <1>8, <1>9, <1>10, <1>11 DEF Holds

\* insertBatch and compress: the buffer is in the samples.
LEMMA FlushedHolds ==
  ASSUME TargetsHold, NEW b, NEW s, NEW n, NEW o, Holds(b, s, n, o)
  PROVE  Holds(<<>>, Compressed(InsertBatch(s, b)), n + Len(b), o)
<1>1. PICK E, F, z, m, l, e : /\ E = ToSet(o) /\ F = Remaining(o, b)
                              /\ z = Compressed(InsertBatch(s, b))
                              /\ l = Len(b) /\ m = n + l /\ e = <<>>
  OBVIOUS
<1>2. Values \in SUBSET Int /\ o \in Seq(Values) /\ b \in Seq(E) /\ m = Len(o) /\ n \in Nat
  BY <1>1, CKMSAssumption DEF Holds, Counting
<1>3. E \in SUBSET Int /\ o \in Seq(Int) /\ b \in Seq(Int)
  <2>1. E \in SUBSET Values
    BY <1>1, <1>2, ElementsOf
  <2>2. E \in SUBSET Int
    BY <1>2, <2>1
  <2> QED BY <1>2, <2>2, SeqOver
<1>4. PICK F2 : F2 = [v \in Int |-> F[v] + UpTo(b, v)]
  OBVIOUS
<1>5. F2 = Remaining(o, e)
  <2>1. ASSUME NEW v \in Int PROVE F[v] + UpTo(b, v) = UpTo(o, v) - UpTo(e, v)
    <3>1. PICK p, q : p = UpTo(o, v) /\ q = UpTo(b, v)
      OBVIOUS
    <3>2. p \in Int /\ q \in Int
      BY <1>3, <3>1, UpToNatural
    <3>3. F[v] = p - q
      BY <1>1, <3>1 DEF Remaining
    <3>4. UpTo(e, v) = 0
      BY <1>1, UpToNothing
    <3>5. (p - q) + q = p - 0
      BY <3>2
    <3> QED BY <3>1, <3>3, <3>4, <3>5
  <2> QED BY <1>4, <2>1 DEF Remaining
<1>6. Sketches(z, F2, m, E) /\ Counting(F2, m)
  <2>1. Counting(F, n) /\ Sketches(s, F, n, E)
    BY <1>1 DEF Holds
  <2>2. /\ Sketches(Compressed(InsertBatch(s, b)), F2, n + Len(b), E)
        /\ Counting(F2, n + Len(b))
    BY <1>2, <1>3, <1>4, <2>1, FlushSketches
  <2> QED BY <1>1, <2>2
<1>7. m + 0 = Len(o) /\ Len(e) = 0 /\ e \in Seq(E)
  <2>1. m \in Nat
    BY <1>2, LenProperties
  <2> QED BY <1>1, <1>2, <2>1, EmptySeq
<1> QED BY <1>1, <1>2, <1>5, <1>6, <1>7 DEF Holds

-----------------------------------------------------------------------------
\* The invariant.

\* The last answer is what the samples give for one of the quantiles.
Answered ==
  got # NoAnswer =>
    /\ buffer = <<>>
    /\ \E x \in quantiles :
         got = [quantile |-> x.quantile, value |-> Found(sample, count, x.quantile)]

\* What holds between two calls.
IInv ==
  /\ quantiles \in Targets /\ Len(buffer) < BufferSize
  /\ Holds(buffer, sample, count, observed)
  /\ Answered

\* The quantiles are among the targets, whose numerators are known.
LEMMA TargetsAre == ASSUME quantiles \in Targets PROVE TargetsHold
BY CKMSAssumption DEF TargetsHold

\* Found reads the quantiles, which never change.
LEMMA FoundNext ==
  ASSUME quantiles' = quantiles, NEW CONSTANT q
  PROVE  Found(sample, count, q)' = Found(sample', count', q)
BY Zenon DEF Found, AllowableError

\* Holds reads the quantiles, which never change.
LEMMA HoldsNext ==
  ASSUME quantiles' = quantiles, Holds(buffer', sample', count', observed')
  PROVE  Holds(buffer, sample, count, observed)'
<1>1. NoError' <=> NoError
  BY DEF NoError, Errorless
<1> QED BY <1>1 DEF Holds, Sketches

\* It holds from the start.
LEMMA InitHolds == Init => IInv
<1> SUFFICES ASSUME Init PROVE IInv
  OBVIOUS
<1>1. Len(buffer) < BufferSize
  <2>1. Len(<<>>) = 0 /\ BufferSize \in Nat \ {0}
    BY CKMSAssumption, EmptySeq
  <2> QED BY <2>1 DEF Init
<1> QED BY <1>1, NothingHolds DEF Init, IInv, Answered

\* Every call keeps it.
LEMMA StepHolds == IInv /\ [Next]_vars => IInv'
<1> SUFFICES ASSUME IInv, [Next]_vars PROVE IInv'
  OBVIOUS
<1>1. TargetsHold /\ Holds(buffer, sample, count, observed) /\ BufferSize \in Nat \ {0}
  BY TargetsAre, CKMSAssumption DEF IInv
<1>2. Holds(<<>>, Compressed(InsertBatch(sample, buffer)), count + Len(buffer), observed)
  BY <1>1, FlushedHolds
<1>3. Len(<<>>) = 0 /\ Len(buffer) \in Nat
  <2>1. buffer \in Seq(ToSet(observed))
    BY <1>1 DEF Holds
  <2> QED BY <2>1, EmptySeq, LenProperties
<1>4. ASSUME NEW v \in Values, Insert(v), UNCHANGED quantiles PROVE IInv'
  <2>1. PICK b, o : b = Append(buffer, v) /\ o = Placed(observed, v)
    OBVIOUS
  <2>2. Holds(b, sample, count, o)
    BY <1>1, <2>1, ObservedHolds
  <2>3. Holds(<<>>, Compressed(InsertBatch(sample, b)), count + Len(b), o)
    BY <1>1, <2>2, FlushedHolds
  <2>4. Len(b) = Len(buffer) + 1
    <3>1. buffer \in Seq(ToSet(observed))
      BY <1>1 DEF Holds
    <3>2. b \in Seq(ToSet(o))
      BY <2>2 DEF Holds
    <3> QED BY <2>1, <3>1, AppendProperties
  <2>5. observed' = o /\ got' = NoAnswer
    BY <1>4, <2>1 DEF Insert
  <2>6. Holds(buffer', sample', count', observed') /\ Len(buffer') < BufferSize
    <3>1. CASE Len(b) = BufferSize
      <4>1. Flush(b)
        BY <1>4, <2>1, <3>1 DEF Insert
      <4>2. Len(buffer') = 0
        BY <1>3, <4>1 DEF Flush
      <4> QED BY <1>1, <2>3, <2>5, <4>1, <4>2 DEF Flush
    <3>2. CASE Len(b) # BufferSize
      <4>1. buffer' = b /\ sample' = sample /\ count' = count
        BY <1>4, <2>1, <3>2 DEF Insert
      <4>2. Len(b) < BufferSize
        BY <1>1, <1>3, <2>4, <3>2 DEF IInv
      <4> QED BY <2>2, <2>5, <4>1, <4>2
    <3> QED BY <3>1, <3>2
  <2>7. Holds(buffer, sample, count, observed)'
    BY <1>4, <2>6, HoldsNext
  <2> QED BY <1>4, <2>5, <2>6, <2>7 DEF IInv, Answered
<1>5. ASSUME NEW x \in quantiles, Get(x.quantile), UNCHANGED quantiles PROVE IInv'
  <2>1. Flush(buffer) /\ observed' = observed
        /\ got' = [quantile |-> x.quantile, value |-> Found(sample', count', x.quantile)]
    BY <1>5 DEF Get
  <2>2. Holds(buffer', sample', count', observed') /\ buffer' = <<>> /\ Len(buffer') < BufferSize
    BY <1>1, <1>2, <1>3, <2>1 DEF Flush
  <2>3. Holds(buffer, sample, count, observed)'
    BY <1>5, <2>2, HoldsNext
  <2>4. Answered'
    <3>1. PICK q : q = x.quantile
      OBVIOUS
    <3>2. Found(sample, count, q)' = Found(sample', count', q)
      BY <1>5, FoundNext
    <3>3. got' = [quantile |-> x.quantile, value |-> Found(sample, count, x.quantile)']
      BY <2>1, <3>1, <3>2
    <3>4. x \in quantiles'
      BY <1>5
    <3> QED BY <2>2, <3>3, <3>4 DEF Answered
  <2> QED BY <1>5, <2>2, <2>3, <2>4 DEF IInv
<1>6. ASSUME Reset, UNCHANGED quantiles PROVE IInv'
  <2>1. buffer' = <<>> /\ sample' = <<>> /\ count' = 0 /\ observed' = <<>> /\ got' = NoAnswer
    BY <1>6 DEF Reset, Cleared
  <2>2. Holds(buffer', sample', count', observed')
    BY <2>1, NothingHolds
  <2>3. Holds(buffer, sample, count, observed)'
    BY <1>6, <2>2, HoldsNext
  <2>4. Len(buffer') < BufferSize
    BY <1>1, <1>3, <2>1
  <2> QED BY <1>6, <2>1, <2>3, <2>4 DEF IInv, Answered
<1>7. CASE UNCHANGED vars
  <2>1. /\ quantiles' = quantiles /\ buffer' = buffer /\ sample' = sample /\ count' = count
        /\ observed' = observed /\ got' = got
    BY <1>7 DEF vars
  <2>2. Holds(buffer', sample', count', observed') /\ Len(buffer') < BufferSize
    BY <1>1, <2>1 DEF IInv
  <2>3. Holds(buffer, sample, count, observed)'
    BY <2>1, <2>2, HoldsNext
  <2>4. Answered'
    <3>1. CASE got = NoAnswer
      BY <2>1, <3>1 DEF Answered
    <3>2. CASE got # NoAnswer
      <4>1. PICK x \in quantiles :
              got = [quantile |-> x.quantile, value |-> Found(sample, count, x.quantile)]
        BY <3>2 DEF IInv, Answered
      <4>2. PICK q : q = x.quantile
        OBVIOUS
      <4>3. Found(sample, count, q)' = Found(sample', count', q)
        BY <2>1, FoundNext
      <4>4. got' = [quantile |-> x.quantile, value |-> Found(sample, count, x.quantile)']
        BY <2>1, <4>1, <4>2, <4>3
      <4>5. buffer' = <<>> /\ x \in quantiles'
        BY <2>1, <3>2 DEF IInv, Answered
      <4> QED BY <4>4, <4>5 DEF Answered
    <3> QED BY <3>1, <3>2
  <2> QED BY <2>1, <2>2, <2>3, <2>4 DEF IInv
<1> QED BY <1>4, <1>5, <1>6, <1>7 DEF Next

\* What holds between two calls does in every state.
LEMMA Invariant == Spec => []IInv
<1> QED BY InitHolds, StepHolds, PTL DEF Spec

\* insert, insertBatch, compress: however observations, answers and resets follow each
\* other, the samples stand for all observations that left the buffer.
THEOREM SamplesStand == Spec => []SamplesStandForAll
<1>1. IInv => SamplesStandForAll
  <2> SUFFICES ASSUME IInv PROVE SamplesStandForAll
    OBVIOUS
  <2>1. PICK F, l : F = Remaining(observed, buffer) /\ l = Len(sample)
    OBVIOUS
  <2>2. /\ Len(buffer) < BufferSize /\ count + Len(buffer) = Len(observed)
        /\ Counting(F, count) /\ Stands(sample, F, count, ToSet(observed))
        /\ observed \in Seq(Values)
    BY <2>1 DEF IInv, Holds, Sketches
  <2>3. /\ sample \in Seq(Items(ToSet(observed))) /\ Ordered(sample)
        /\ \A i \in 1 .. l : RankMin(sample, i) <= F[sample[i].value]
        /\ RankMin(sample, l) = count
        /\ l > 0 => F[sample[l].value] = count /\ F[sample[l].value - 1] < count
    BY <2>1, <2>2 DEF Stands
  <2>4. DOMAIN sample = 1 .. l /\ l \in Nat /\ (sample # <<>> => l > 0)
        /\ \A i \in 1 .. l : sample[i] \in Items(ToSet(observed))
    BY <2>1, <2>3, LenProperties, ElementOfSeq, EmptySeq
  <2>5. \A v \in Int : F[v] = Flushed(v)
    BY <2>1 DEF Remaining, Flushed
  <2>6. \A i \in 1 .. l : sample[i].value \in Int
    <3>1. ToSet(observed) \in SUBSET Int
      <4>1. ToSet(observed) \in SUBSET Values
        BY <2>2, ElementsOf
      <4> QED BY <4>1, CKMSAssumption
    <3> QED BY <2>4, <3>1 DEF Items
  <2>7. ASSUME NEW i \in 1 .. l
        PROVE  /\ i > 1 => sample[i - 1].value <= sample[i].value
               /\ RankMin(sample, i) <= Flushed(sample[i].value)
    <3>1. i > 1 => sample[i - 1].value <= sample[i].value
      <4>1. i > 1 => i - 1 \in 1 .. l /\ i - 1 <= i
        BY <2>4
      <4> QED BY <2>1, <2>3, <4>1 DEF Ordered
    <3> QED BY <2>3, <2>5, <2>6, <3>1
  <2>8. l > 0 => Flushed(sample[l].value) = count /\ Flushed(sample[l].value - 1) < count
    <3>1. l > 0 => sample[l].value \in Int /\ sample[l].value - 1 \in Int
      BY <2>4, <2>6
    <3> QED BY <2>3, <2>5, <3>1
  <2> QED BY <2>1, <2>2, <2>3, <2>4, <2>7, <2>8 DEF SamplesStandForAll, Inserted, Last
<1> QED BY <1>1, Invariant, PTL

-----------------------------------------------------------------------------
\* get.

\* Products keep the order of their factors.
LEMMA ProductAtMost ==
  ASSUME NEW a \in Int, NEW b \in Int, NEW d \in Nat, a <= b
  PROVE  d * a <= d * b
<1>1. PICK k \in Nat : b = a + k
  <2>1. b - a \in Nat /\ b = a + (b - a)
    OBVIOUS
  <2> QED BY <2>1
<1>2. d * b = d * a + d * k /\ d * k \in Nat
  BY <1>1
<1>3. d * a \in Int /\ d * b \in Int
  OBVIOUS
<1> QED BY <1>2, <1>3

\* A positive factor can be left out.
LEMMA FactorLess ==
  ASSUME NEW a \in Int, NEW b \in Int, NEW d \in Nat, d * a < d * b
  PROVE  a < b
<1> SUFFICES ASSUME b <= a PROVE FALSE
  OBVIOUS
<1>1. d * b <= d * a
  BY ProductAtMost
<1>2. d * a \in Int /\ d * b \in Int
  OBVIOUS
<1> QED BY <1>1, <1>2

\* A quotient is at most one whose dividend is at least as great.
LEMMA QuotientAtMost ==
  ASSUME NEW a \in Nat, NEW b \in Nat, NEW d \in Nat \ {0}, a <= b
  PROVE  a \div d <= b \div d
<1>1. PICK x, y : x = a \div d /\ y = b \div d
  OBVIOUS
<1>2. x \in Nat /\ y \in Nat /\ d * x <= a /\ b < d * y + d
  BY <1>1, DivisionProperties
<1>3. d * x < d * (y + 1)
  <2>1. d * (y + 1) = d * y + d /\ d * x \in Int /\ d * y \in Int
    BY <1>2
  <2> QED BY <1>2, <2>1
<1>4. x < y + 1
  <2>1. PICK z \in Int : z = y + 1
    BY <1>2
  <2> QED BY <1>2, <1>3, <2>1, FactorLess
<1> QED BY <1>1, <1>2, <1>4

\* A term of the error after a quantile's rank falls by at most two for each rank.
LEMMA TermAfter ==
  ASSUME NEW e \in Nat, NEW d \in Nat \ {0}, e <= d, NEW n \in Nat, NEW r1 \in Nat, NEW r2 \in Nat,
         r1 <= r2, r2 <= n
  PROVE  (2 * e * (n - r1)) \div d <= (2 * e * (n - r2)) \div d + 2 * (r2 - r1)
<1>1. PICK a, b, k : a = 2 * e * (n - r1) /\ b = 2 * e * (n - r2) /\ k = 2 * (r2 - r1)
  OBVIOUS
<1>2. a \in Nat /\ b \in Nat /\ k \in Nat
  BY <1>1
<1>3. a = b + e * k
  BY <1>1
<1>4. e * k <= d * k
  <2>1. k * e <= k * d
    BY <1>2, ProductAtMost
  <2> QED BY <1>2, <2>1
<1>5. PICK x, y : x = a \div d /\ y = b \div d
  OBVIOUS
<1>6. x \in Nat /\ y \in Nat /\ d * x <= a /\ b < d * y + d
  BY <1>2, <1>5, DivisionProperties
<1>7. PICK z \in Nat : z = y + k + 1
  BY <1>2, <1>6
<1>8. d * z = (d * y + d) + d * k
  BY <1>2, <1>6, <1>7
<1>9. d * x < d * z
  <2>1. d * x \in Int /\ d * y \in Int /\ d * k \in Int /\ e * k \in Int
    BY <1>2, <1>6
  <2> QED BY <1>2, <1>3, <1>4, <1>6, <1>8, <2>1
<1>10. x < z
  BY <1>6, <1>9, FactorLess
<1> QED BY <1>1, <1>2, <1>5, <1>6, <1>7, <1>10

\* From the term before a quantile's rank to the one after it: it is the same there.
LEMMA TermAcross ==
  ASSUME NEW e \in Nat, NEW q \in Nat \ {0}, NEW d \in Nat \ {0}, e <= d, NEW n \in Nat,
         NEW r1 \in Nat, NEW r2 \in Nat, r1 <= r2, r1 <= n, q * n < (q + d) * r2
  PROVE  (2 * e * (n - r1)) \div d <= (2 * e * r2) \div q + 2 * (r2 - r1)
<1>1. PICK a, b, k : a = 2 * e * (n - r1) /\ b = 2 * e * r2 /\ k = 2 * (r2 - r1)
  OBVIOUS
<1>2. a \in Nat /\ b \in Nat /\ k \in Nat
  BY <1>1
<1>3. PICK x, y : x = a \div d /\ y = b \div q
  OBVIOUS
<1>4. x \in Nat /\ y \in Nat /\ d * x <= a /\ b < q * y + q
  BY <1>2, <1>3, DivisionProperties
<1>5. q * a <= d * b + d * (q * k)
  <2>1. PICK f, t, w : f \in Nat /\ f = 2 * e /\ t = q * (n - r1) /\ w = d * r2 + q * (r2 - r1)
    OBVIOUS
  <2>2. t <= w /\ t \in Nat /\ w \in Nat
    <3>1. q * (n - r1) = q * n - q * r1 /\ q * (r2 - r1) = q * r2 - q * r1
          /\ (q + d) * r2 = q * r2 + d * r2
      OBVIOUS
    <3>2. q * n \in Nat /\ q * r1 \in Nat /\ q * r2 \in Nat /\ d * r2 \in Nat
          /\ q * (n - r1) \in Nat /\ q * (r2 - r1) \in Nat
      OBVIOUS
    <3> QED BY <2>1, <3>1, <3>2
  <2>3. f * t <= f * w
    BY <2>1, <2>2, ProductAtMost
  <2>4. q * a = f * t
    BY <1>1, <2>1
  <2>5. f * w = d * b + e * (q * k)
    BY <1>1, <2>1
  <2>6. PICK m \in Nat : m = q * k
    BY <1>2
  <2>7. m * e <= m * d
    BY <2>6, ProductAtMost
  <2>8. d * b \in Nat /\ m * e \in Nat /\ m * d \in Nat /\ e * m = m * e /\ d * m = m * d
        /\ q * a \in Nat
    BY <1>2, <2>6
  <2> QED BY <2>3, <2>4, <2>5, <2>6, <2>7, <2>8
<1>6. PICK z \in Nat : z = y + k + 1
  BY <1>2, <1>4
<1>7. PICK g \in Nat : g = b + q * k
  BY <1>2
<1>8. d * (q * x) <= d * g
  <2>1. q * (d * x) <= q * a
    <3>1. PICK h \in Nat : h = d * x
      BY <1>4
    <3> QED BY <1>2, <1>4, <3>1, ProductAtMost
  <2>2. q * (d * x) = d * (q * x) /\ d * g = d * b + d * (q * k) /\ d * (q * x) \in Nat
        /\ q * a \in Nat /\ d * g \in Nat
    BY <1>2, <1>4, <1>7
  <2> QED BY <1>5, <2>1, <2>2
<1>9. g < q * z
  <2>1. q * z = q * y + q * k + q /\ q * y \in Nat /\ q * k \in Nat
    BY <1>2, <1>4, <1>6
  <2> QED BY <1>2, <1>4, <1>7, <2>1
<1>10. d * (q * x) < d * (q * z)
  <2>1. PICK h \in Nat, i \in Nat : h = q * z /\ i = q * x
    BY <1>4, <1>6
  <2>2. PICK j \in Nat : h = g + j /\ j > 0
    <3>1. h - g \in Nat /\ h - g > 0 /\ h = g + (h - g)
      BY <1>9, <2>1
    <3> QED BY <3>1
  <2>3. d * h = d * g + d * j /\ d * j > 0 /\ d * g \in Nat /\ d * h \in Nat /\ d * i \in Nat
    BY <2>1, <2>2
  <2> QED BY <1>8, <2>1, <2>3
<1>11. q * x < q * z
  <2>1. PICK h \in Nat, i \in Nat : h = q * z /\ i = q * x
    BY <1>4, <1>6
  <2> QED BY <1>10, <2>1, FactorLess
<1>12. x < z
  BY <1>4, <1>11, FactorLess
<1> QED BY <1>1, <1>2, <1>3, <1>4, <1>6, <1>12

\* allowableError falls by at most two from a rank to the next, if no quantile with its
\* error is above 1: the bound of get rises with the rank.
LEMMA BoundRises ==
  ASSUME TargetsHold, ErrorsInside, NEW n \in Nat, NEW r1 \in Nat, NEW r2 \in Nat, r1 <= r2
  PROVE  2 * r1 + AllowableError(r1, n) <= 2 * r2 + AllowableError(r2, n)
<1>1. PICK A, B, k : A = Allowed(r1, n) /\ B = Allowed(r2, n) /\ k = 2 * (r2 - r1)
  OBVIOUS
<1>2. A \in SUBSET Nat /\ B \in SUBSET Nat /\ n + 1 \in A /\ n + 1 \in B /\ k \in Nat
  <2>1. k \in Nat
    BY <1>1
  <2> QED BY <1>1, <2>1, AllowedNatural
<1>3. PICK a \in A, b \in B : /\ a = Min(A) /\ b = Min(B) /\ \A t \in A : a <= t
  BY <1>2, MinProperties
<1>4. \E t \in A : t <= b + k
  <2>1. CASE b = n + 1
    <3>1. b <= b + k
      BY <1>2
    <3> QED BY <1>2, <2>1, <3>1
  <2>2. ASSUME NEW x \in Before(r2, n), x.quantile < Scale, b = ByU(x, r2, n)
        PROVE  \E t \in A : t <= b + k
    <3>1. PICK q, e, d : q = x.quantile /\ e = x.error /\ d = Scale - q
      OBVIOUS
    <3>2. x \in quantiles /\ Scale * r2 <= q * n
      BY <2>2, <3>1 DEF Before
    <3>3. /\ q \in 0 .. Scale /\ e \in Nat /\ Scale \in Nat /\ d \in Nat \ {0} /\ e <= d
      BY <2>2, <3>1, <3>2, CKMSAssumption DEF TargetsHold, ErrorsInside
    <3>4. r2 <= n
      BY <3>2, <3>3, BeforeBounds
    <3>5. Scale * r1 <= q * n
      <4>1. Scale * r1 <= Scale * r2
        BY <3>3, ProductAtMost
      <4>2. Scale * r1 \in Nat /\ Scale * r2 \in Nat /\ q * n \in Nat
        BY <3>3
      <4> QED BY <3>2, <4>1, <4>2
    <3>6. ByU(x, r1, n) \in A
      BY <1>1, <2>2, <3>1, <3>2, <3>5 DEF Allowed, Before
    <3>7. ByU(x, r1, n) <= b + k
      <4>1. (2 * e * (n - r1)) \div d <= (2 * e * (n - r2)) \div d + 2 * (r2 - r1)
        BY <3>3, <3>4, TermAfter
      <4> QED BY <1>1, <2>2, <3>1, <4>1 DEF ByU
    <3> QED BY <3>6, <3>7
  <2>3. ASSUME NEW x \in quantiles \ Before(r2, n), x.quantile > 0, b = ByV(x, r2)
        PROVE  \E t \in A : t <= b + k
    <3>1. PICK q, e, d : q = x.quantile /\ e = x.error /\ d = Scale - q
      OBVIOUS
    <3>2. /\ q \in 0 .. Scale /\ q \in Nat \ {0} /\ e \in Nat /\ Scale \in Nat
          /\ d \in Nat \ {0} /\ e <= d /\ q < Scale
      BY <2>3, <3>1, CKMSAssumption DEF TargetsHold, ErrorsInside
    <3>3. CASE x \in Before(r1, n)
      <4>1. Scale * r1 <= q * n /\ ~ (Scale * r2 <= q * n)
        BY <2>3, <3>1, <3>3 DEF Before
      <4>2. r1 <= n
        BY <3>2, <4>1, BeforeBounds
      <4>3. q * n < (q + d) * r2
        <5>1. q + d = Scale
          BY <3>1, <3>2
        <5>2. q * n \in Nat /\ Scale * r2 \in Nat
          BY <3>2
        <5> QED BY <4>1, <5>1, <5>2
      <4>4. ByU(x, r1, n) \in A
        BY <1>1, <3>1, <3>2, <3>3 DEF Allowed
      <4>5. (2 * e * (n - r1)) \div d <= (2 * e * r2) \div q + 2 * (r2 - r1)
        BY <3>2, <4>2, <4>3, TermAcross
      <4>6. ByU(x, r1, n) <= b + k
        BY <1>1, <2>3, <3>1, <4>5 DEF ByU, ByV
      <4> QED BY <4>4, <4>6
    <3>4. CASE x \notin Before(r1, n)
      <4>1. ByV(x, r1) \in A
        BY <1>1, <2>3, <3>1, <3>2, <3>4 DEF Allowed
      <4>2. PICK u, v : u = 2 * e * r1 /\ v = 2 * e * r2
        OBVIOUS
      <4>3. u \in Nat /\ v \in Nat /\ u <= v
        <5>1. (2 * e) * r1 <= (2 * e) * r2 /\ 2 * e \in Nat
          BY <3>2, ProductAtMost
        <5> QED BY <3>2, <4>2, <5>1
      <4>4. u \div q <= v \div q
        BY <3>2, <4>3, QuotientAtMost
      <4>5. ByV(x, r1) <= b
        BY <2>3, <3>1, <4>2, <4>4 DEF ByV
      <4>6. ByV(x, r1) <= b + k
        <5>1. PICK t \in Nat : t = ByV(x, r1)
          BY <1>2, <4>1
        <5> QED BY <1>2, <4>5, <5>1
      <4> QED BY <4>1, <4>6
    <3> QED BY <3>3, <3>4
  <2> QED BY <1>1, <1>3, <2>1, <2>2, <2>3 DEF Allowed
<1>5. a <= b + k
  <2>1. PICK t \in A : t <= b + k
    BY <1>4
  <2>2. a \in Nat /\ b \in Nat /\ t \in Nat /\ a <= t
    BY <1>2, <1>3
  <2> QED BY <1>2, <2>1, <2>2
<1>6. AllowableError(r1, n) = a /\ AllowableError(r2, n) = b
  BY <1>1, <1>3, AllowableErrorIs
<1>7. a \in Nat /\ b \in Nat
  BY <1>2
<1> QED BY <1>1, <1>5, <1>6, <1>7

\* The samples that may be beyond a rank.
Beyond(s, desired) ==
  {i \in 2 .. Len(s) :
     Exceeds(RankMin(s, i) + s[i].delta - desired, AllowableError(desired, Len(s)))}

\* i is the place of the sample before all those beyond a rank.
Answer(s, desired, i) ==
  /\ i \in 1 .. Len(s) /\ (i = Len(s) \/ i + 1 \in Beyond(s, desired))
  /\ \A j \in Beyond(s, desired) : i < j

\* get, after the flush.
LEMMA FoundIs ==
  ASSUME NEW s, NEW n, NEW q
  PROVE  Found(s, n, q) = IF s = <<>> THEN NaN
                          ELSE IF Beyond(s, (q * n) \div Scale) = {} THEN Last(s).value
                          ELSE s[Min(Beyond(s, (q * n) \div Scale)) - 1].value
BY Zenon DEF Found, Beyond

\* get, after the flush, finds that place.
LEMMA FoundAt ==
  ASSUME NEW E, NEW s \in Seq(E), Len(s) > 0, NEW n, NEW q, NEW desired, desired = (q * n) \div Scale
  PROVE  \E i : Answer(s, desired, i) /\ Found(s, n, q) = s[i].value
<1>1. PICK l, B : l = Len(s) /\ B = Beyond(s, desired)
  OBVIOUS
<1>2. l \in Nat /\ l \in 1 .. l /\ s # <<>>
  BY <1>1, LenProperties, EmptySeq
<1>3. Found(s, n, q) = IF B = {} THEN s[l].value ELSE s[Min(B) - 1].value
  BY <1>1, <1>2, FoundIs DEF Last
<1>4. CASE B = {}
  <2>1. Answer(s, desired, l)
    BY <1>1, <1>2, <1>4 DEF Answer
  <2> QED BY <1>3, <1>4, <2>1
<1>5. CASE B # {}
  <2>1. B \in SUBSET (2 .. l)
    BY <1>1 DEF Beyond
  <2>2. B \in SUBSET Nat
    BY <1>2, <2>1
  <2>3. PICK b \in B : TRUE
    BY <1>5
  <2>4. PICK m \in B : m = Min(B) /\ \A x \in B : m <= x
    BY <2>2, <2>3, MinProperties
  <2>5. PICK i : i = m - 1
    OBVIOUS
  <2>6. i \in 1 .. l /\ i + 1 = m /\ \A x \in B : i < x
    BY <1>2, <2>1, <2>4, <2>5
  <2>7. Answer(s, desired, i)
    BY <1>1, <2>4, <2>6 DEF Answer
  <2> QED BY <1>3, <1>5, <2>4, <2>5, <2>7
<1> QED BY <1>4, <1>5

\* The ranks that samples stand for are natural numbers, the last at least 1.
LEMMA RanksNatural ==
  ASSUME NEW E, NEW s \in Seq(Items(E)), NEW i \in 1 .. Len(s)
  PROVE  /\ RankMin(s, i) \in Nat /\ s[i].delta \in Nat /\ s[i].value \in E /\ RankMin(s, i) >= 1
<1>1. s[i] \in Items(E)
  BY ElementOfSeq
<1>2. PICK a, b, g : a = RankMin(s, i) /\ b = RankMin(s, i - 1) /\ g = s[i].g
  OBVIOUS
<1>3. a = b + g /\ a \in Nat /\ b \in Nat /\ g \in Nat \ {0}
  BY <1>2, RankNext
<1> QED BY <1>1, <1>2, <1>3 DEF Items

\* get: of two ranks the greater has no smaller answer.
LEMMA AnswersRise ==
  ASSUME TargetsHold, ErrorsInside, NEW E \in SUBSET Int, NEW s \in Seq(Items(E)), Ordered(s),
         NEW r1 \in Nat, NEW r2 \in Nat, r1 <= r2,
         NEW i, Answer(s, r1, i), NEW j, Answer(s, r2, j)
  PROVE  s[i].value <= s[j].value
<1>1. PICK l : l = Len(s)
  OBVIOUS
<1>2. l \in Nat
  BY <1>1, LenProperties
<1>3. PICK a, b : a = AllowableError(r1, l) /\ b = AllowableError(r2, l)
  OBVIOUS
<1>4. a \in Int /\ b \in Int /\ 2 * r1 + a <= 2 * r2 + b
  <2>1. 2 * r1 + a <= 2 * r2 + b
    BY <1>2, <1>3, BoundRises
  <2>2. a \in 0 .. l + 1 /\ b \in 0 .. l + 1
    BY <1>2, <1>3, AllowableErrorType
  <2> QED BY <1>2, <2>1, <2>2
<1>5. ASSUME NEW k \in Beyond(s, r2) PROVE k \in Beyond(s, r1)
  <2>1. k \in 2 .. l /\ k \in 1 .. l
    BY <1>1, <1>2, <1>5 DEF Beyond
  <2>2. PICK m, d : m = RankMin(s, k) /\ d = s[k].delta
    OBVIOUS
  <2>3. m \in Nat /\ d \in Nat
    BY <1>1, <2>1, <2>2, RanksNatural
  <2>4. 2 * (m + d - r2) > b
    BY <1>1, <1>3, <1>5, <2>2 DEF Beyond, Exceeds
  <2>5. 2 * (m + d - r1) > a
    BY <1>4, <2>3, <2>4
  <2> QED BY <1>1, <1>3, <2>1, <2>2, <2>5 DEF Beyond, Exceeds
<1>6. i \in 1 .. l /\ j \in 1 .. l /\ i <= j
  <2>1. i \in 1 .. l /\ j \in 1 .. l
    BY <1>1 DEF Answer
  <2>2. CASE j = l
    BY <1>2, <2>1, <2>2
  <2>3. CASE j + 1 \in Beyond(s, r2)
    <3>1. i < j + 1
      BY <1>5, <2>3 DEF Answer
    <3> QED BY <1>2, <2>1, <3>1
  <2> QED BY <1>1, <2>1, <2>2, <2>3 DEF Answer
<1> QED BY <1>1, <1>6 DEF Ordered

\* The samples and the last answer, if there is one.
LEMMA AnswerIs ==
  ASSUME IInv, got # NoAnswer
  PROVE  /\ TargetsHold /\ count = Inserted /\ ToSet(observed) \in SUBSET Values
         /\ sample \in Seq(Items(ToSet(observed))) /\ Ordered(sample)
         /\ RankMin(sample, Len(sample)) = count
         /\ \E x \in quantiles : /\ got.quantile = x.quantile
                                 /\ got.value = Found(sample, count, x.quantile)
<1>1. PICK x \in quantiles :
        got = [quantile |-> x.quantile, value |-> Found(sample, count, x.quantile)]
  BY DEF IInv, Answered
<1>2. buffer = <<>> /\ TargetsHold
  BY TargetsAre DEF IInv, Answered
<1>3. /\ observed \in Seq(Values) /\ count + Len(buffer) = Len(observed) /\ count \in Nat
      /\ Stands(sample, Remaining(observed, buffer), count, ToSet(observed))
  BY DEF IInv, Holds, Sketches, Counting
<1>4. count = Inserted
  <2>1. Len(buffer) = 0
    BY <1>2, EmptySeq
  <2> QED BY <1>3, <2>1 DEF Inserted
<1>5. ToSet(observed) \in SUBSET Values
  BY <1>3, ElementsOf
<1>6. got.quantile = x.quantile /\ got.value = Found(sample, count, x.quantile)
  BY <1>1
<1> QED BY <1>2, <1>3, <1>4, <1>5, <1>6 DEF Stands

\* Without samples there is no observation and no answer; with them there are both.
LEMMA AnswerOrNone ==
  ASSUME NEW E, NEW s \in Seq(Items(E)), NEW n, RankMin(s, Len(s)) = n
  PROVE  /\ s = <<>> => n = 0 /\ \A q : Found(s, n, q) = NaN
         /\ s # <<>> => n \in Nat /\ n >= 1 /\ Len(s) > 0 /\ Len(s) \in Nat
<1>1. PICK l : l = Len(s)
  OBVIOUS
<1>2. l \in Nat
  BY <1>1, LenProperties
<1>3. ASSUME s = <<>> PROVE n = 0 /\ \A q : Found(s, n, q) = NaN
  <2>1. l = 0
    BY <1>1, <1>3, EmptySeq
  <2>2. PICK w : w = G(s)
    OBVIOUS
  <2>3. Weighs(w, l) /\ RankMin(s, l) = Total(w, l)
    BY <1>1, <2>2, SamplesWeigh
  <2>4. Total(w, 0) = 0
    BY <1>2, <2>3, TotalNext
  <2> QED BY <1>1, <1>3, <2>1, <2>3, <2>4, FoundIs
<1>4. ASSUME s # <<>> PROVE n \in Nat /\ n >= 1 /\ l > 0
  <2>1. l > 0
    BY <1>1, <1>2, <1>4, EmptySeq
  <2>2. l \in 1 .. Len(s)
    BY <1>1, <1>2, <2>1
  <2>3. RankMin(s, l) \in Nat /\ RankMin(s, l) >= 1
    BY <2>2, RanksNatural
  <2> QED BY <1>1, <2>1, <2>3
<1> QED BY <1>1, <1>2, <1>3, <1>4

\* The rank that is asked for is one of the observations.
LEMMA DesiredRank ==
  ASSUME NEW q \in 0 .. Scale, NEW n \in Nat, NEW r, r = (q * n) \div Scale
  PROVE  /\ r \in Nat /\ r <= n /\ Scale \in Nat \ {0}
         /\ Scale * r <= q * n /\ q * n < Scale * (r + 1)
<1>1. PICK a : a = q * n
  OBVIOUS
<1>2. a \in Nat /\ Scale \in Nat \ {0}
  BY <1>1, CKMSAssumption
<1>3. r \in Nat /\ Scale * r <= a /\ a < Scale * r + Scale
  BY <1>1, <1>2, DivisionProperties
<1>4. a <= Scale * n
  <2>1. n * q <= n * Scale
    BY <1>2, ProductAtMost
  <2> QED BY <1>1, <1>2, <2>1
<1>5. Scale * (r + 1) = Scale * r + Scale /\ Scale * (n + 1) = Scale * n + Scale
      /\ Scale * r \in Nat /\ Scale * n \in Nat
  BY <1>2, <1>3
<1>6. r < n + 1
  <2>1. Scale * r < Scale * (n + 1)
    BY <1>2, <1>3, <1>4, <1>5
  <2>2. PICK m \in Int : m = n + 1
    OBVIOUS
  <2> QED BY <1>2, <1>3, <2>1, <2>2, FactorLess
<1> QED BY <1>1, <1>2, <1>3, <1>5, <1>6

\* get: NaN for an empty window only, otherwise an observation; and of two quantiles
\* the larger has no smaller answer, while every error stays below 1.
THEOREM GetIsSound == Spec => []GetSound
<1>1. IInv => GetSound
  <2> SUFFICES ASSUME IInv, got # NoAnswer
               PROVE  /\ (got.value = NaN) <=> (Inserted = 0)
                      /\ got.value # NaN => got.value \in ToSet(observed)
                      /\ ErrorsInside => \A x \in quantiles :
                           got.value # NaN /\ x.quantile >= got.quantile =>
                             Found(sample, count, x.quantile) >= got.value
    BY DEF GetSound
  <2>1. PICK E, l : E = ToSet(observed) /\ l = Len(sample)
    OBVIOUS
  <2>2. /\ TargetsHold /\ count = Inserted /\ E \in SUBSET Values
        /\ sample \in Seq(Items(E)) /\ Ordered(sample) /\ RankMin(sample, l) = count
    BY <2>1, AnswerIs
  <2>3. PICK x \in quantiles : /\ got.quantile = x.quantile
                               /\ got.value = Found(sample, count, x.quantile)
    BY AnswerIs
  <2>4. CASE sample = <<>>
    BY <2>1, <2>2, <2>3, <2>4, AnswerOrNone
  <2>5. CASE sample # <<>>
    <3>1. count \in Nat /\ count >= 1 /\ l > 0
      BY <2>1, <2>2, <2>5, AnswerOrNone
    <3>2. ASSUME NEW y \in quantiles
          PROVE  /\ y.quantile \in 0 .. Scale
                 /\ \E i : /\ Answer(sample, (y.quantile * count) \div Scale, i)
                           /\ Found(sample, count, y.quantile) = sample[i].value
      <4>1. PICK d : d = (y.quantile * count) \div Scale
        OBVIOUS
      <4>2. \E i : Answer(sample, d, i) /\ Found(sample, count, y.quantile) = sample[i].value
        BY <2>1, <2>2, <3>1, <4>1, FoundAt
      <4> QED BY <2>2, <4>1, <4>2 DEF TargetsHold
    <3>3. PICK q, r : q = x.quantile /\ r = (q * count) \div Scale
      OBVIOUS
    <3>4. PICK i : Answer(sample, r, i) /\ Found(sample, count, q) = sample[i].value
      BY <3>2, <3>3
    <3>5. got.value \in E
      <4>1. i \in 1 .. Len(sample)
        BY <3>4 DEF Answer
      <4>2. sample[i].value \in E
        BY <2>2, <4>1, RanksNatural
      <4> QED BY <2>3, <3>3, <3>4, <4>2
    <3>6. got.value # NaN
      BY <2>2, <3>5, CKMSAssumption
    <3>7. ASSUME ErrorsInside, NEW y \in quantiles, y.quantile >= got.quantile
          PROVE  Found(sample, count, y.quantile) >= got.value
      <4>1. PICK p, t : p = y.quantile /\ t = (p * count) \div Scale
        OBVIOUS
      <4>2. PICK j : Answer(sample, t, j) /\ Found(sample, count, p) = sample[j].value
        BY <3>2, <3>7, <4>1
      <4>3. q \in 0 .. Scale /\ p \in 0 .. Scale /\ q <= p /\ Scale \in Nat \ {0}
        BY <2>3, <3>2, <3>3, <3>7, <4>1, CKMSAssumption
      <4>4. r \in Nat /\ t \in Nat
        BY <3>1, <3>3, <4>1, <4>3, DesiredRank
      <4>5. r <= t
        <5>1. PICK a, b : a = q * count /\ b = p * count
          OBVIOUS
        <5>2. a \in Nat /\ b \in Nat /\ a <= b
          <6>1. PICK n \in Nat : n = count
            BY <3>1
          <6>2. n * q <= n * p
            BY <4>3, <6>1, ProductAtMost
          <6> QED BY <4>3, <5>1, <6>1, <6>2
        <5> QED BY <3>3, <4>1, <4>3, <5>1, <5>2, QuotientAtMost
      <4>6. E \in SUBSET Int
        BY <2>2, CKMSAssumption
      <4>7. sample[i].value <= sample[j].value
        BY <2>2, <3>4, <3>7, <4>2, <4>4, <4>5, <4>6, AnswersRise
      <4>8. sample[i].value \in Int /\ sample[j].value \in Int
        <5>1. i \in 1 .. Len(sample) /\ j \in 1 .. Len(sample)
          BY <3>4, <4>2 DEF Answer
        <5> QED BY <2>2, <4>6, <5>1, RanksNatural
      <4> QED BY <2>3, <3>3, <3>4, <4>1, <4>2, <4>7, <4>8
    <3> QED BY <2>1, <2>2, <3>1, <3>5, <3>6, <3>7
  <2> QED BY <2>4, <2>5
<1> QED BY <1>1, Invariant, PTL

\* allowableError, compress, get: where no error is tolerated nothing is merged and
\* the answer is less than two ranks away.
THEOREM GetIsExact == Spec => []ExactWithoutError
<1>1. IInv => ExactWithoutError
  <2> SUFFICES ASSUME IInv, got # NoAnswer, got.value # NaN, Errorless
               PROVE  /\ Len(sample) = count
                      /\ Scale * Flushed(got.value - 1) < got.quantile * count + Scale
                      /\ got.quantile * count < Scale * (Flushed(got.value) + 2)
    BY DEF ExactWithoutError
  <2>1. PICK E, F, l, n : /\ E = ToSet(observed) /\ F = Remaining(observed, buffer)
                          /\ l = Len(sample) /\ n = count
    OBVIOUS
  <2>2. /\ TargetsHold /\ E \in SUBSET Values
        /\ sample \in Seq(Items(E)) /\ RankMin(sample, l) = n
    BY <2>1, AnswerIs
  <2>3. PICK x \in quantiles : /\ got.quantile = x.quantile
                               /\ got.value = Found(sample, count, x.quantile)
    BY AnswerIs
  <2>4. NoError
    BY <2>3 DEF NoError
  <2>5. Counting(F, n) /\ Stands(sample, F, n, E) /\ Exact(sample, F)
    BY <2>1, <2>4 DEF IInv, Holds, Sketches
  <2>6. n \in Nat /\ l > 0 /\ l \in Nat
    <3>1. sample # <<>>
      BY <2>1, <2>2, <2>3, AnswerOrNone
    <3> QED BY <2>1, <2>2, <3>1, AnswerOrNone
  <2>7. \A i \in 1 .. l : RankMin(sample, i) = i
    <3>1. \A i \in 1 .. l : sample[i].g = 1
      BY <2>1, <2>5 DEF Exact
    <3>2. \A i \in 0 .. l : RankMin(sample, i) = i
      BY <2>1, <2>2, <3>1, UnitRanks
    <3> QED BY <2>6, <3>2
  <2>8. l = n
    BY <2>2, <2>6, <2>7
  <2>9. PICK q, r : q = x.quantile /\ r = (q * n) \div Scale
    OBVIOUS
  <2>10. q \in 0 .. Scale
    BY <2>2, <2>9 DEF TargetsHold
  <2>11. /\ r \in Nat /\ r <= n /\ Scale \in Nat \ {0}
         /\ Scale * r <= q * n /\ q * n < Scale * (r + 1)
    BY <2>6, <2>9, <2>10, DesiredRank
  <2>12. PICK i : Answer(sample, r, i) /\ Found(sample, n, q) = sample[i].value
    BY <2>1, <2>2, <2>6, <2>9, FoundAt
  <2>13. PICK v, below, upTo : v = sample[i].value /\ below = F[v - 1] /\ upTo = F[v]
    OBVIOUS
  <2>14. /\ i \in 1 .. l /\ (i = l \/ i + 1 \in Beyond(sample, r))
         /\ \A j \in Beyond(sample, r) : i < j
    BY <2>1, <2>12 DEF Answer
  <2>15. v \in Int /\ below \in Nat /\ upTo \in Nat /\ below < i /\ i <= upTo
    <3>1. v \in Int
      <4>1. v \in E
        BY <2>1, <2>2, <2>13, <2>14, RanksNatural
      <4> QED BY <2>2, <4>1, CKMSAssumption
    <3>2. below \in Nat /\ upTo \in Nat
      BY <2>5, <2>13, <3>1 DEF Counting
    <3>3. below < i
      BY <2>1, <2>5, <2>13, <2>14 DEF Exact
    <3>4. i <= upTo
      BY <2>1, <2>5, <2>7, <2>13, <2>14 DEF Stands
    <3> QED BY <3>1, <3>2, <3>3, <3>4
  <2>16. ASSUME NEW j \in 2 .. l PROVE j \in Beyond(sample, r) <=> j + sample[j].delta > r
    <3>1. AllowableError(r, l) = 0
      BY <2>2, <2>4, <2>6, <2>11, NothingAllowed
    <3>2. PICK d : d = sample[j].delta
      OBVIOUS
    <3>3. j \in 1 .. Len(sample)
      BY <2>1, <2>6
    <3>4. d \in Nat /\ RankMin(sample, j) = j
      BY <2>1, <2>2, <2>7, <3>2, <3>3, RanksNatural
    <3>5. 2 * (j + d - r) > 0 <=> j + d > r
      BY <2>6, <2>11, <3>4
    <3> QED BY <2>1, <3>1, <3>2, <3>4, <3>5 DEF Beyond, Exceeds
  <2>17. i <= r + 1
    <3>1. CASE i = 1
      BY <2>11, <3>1
    <3>2. CASE i # 1
      <4>1. i \in 2 .. l /\ i \notin Beyond(sample, r)
        BY <2>6, <2>14, <3>2
      <4>2. PICK d : d = sample[i].delta
        OBVIOUS
      <4>3. d \in Nat
        BY <2>1, <2>2, <2>14, <4>2, RanksNatural
      <4>4. ~ (i + d > r)
        BY <2>16, <4>1, <4>2
      <4> QED BY <2>6, <2>11, <2>14, <4>3, <4>4
    <3> QED BY <3>1, <3>2
  <2>18. r <= i + 1
    <3>1. CASE i = l
      BY <2>6, <2>8, <2>11, <3>1
    <3>2. CASE i + 1 \in Beyond(sample, r)
      <4>1. PICK j, d : j = i + 1 /\ d = sample[j].delta
        OBVIOUS
      <4>2. j \in 2 .. l
        BY <2>1, <3>2, <4>1 DEF Beyond
      <4>3. j \in 1 .. Len(sample)
        BY <2>1, <2>6, <4>2
      <4>4. d \in Nat /\ d <= 1
        BY <2>2, <2>5, <4>1, <4>3, RanksNatural DEF Exact
      <4>5. j + d > r
        BY <2>16, <3>2, <4>1, <4>2
      <4> QED BY <2>6, <2>11, <2>14, <4>1, <4>4, <4>5
    <3> QED BY <2>14, <3>1, <3>2
  <2>19. Scale * below < q * n + Scale
    <3>1. below <= r
      BY <2>6, <2>11, <2>14, <2>15, <2>17
    <3>2. Scale * below <= Scale * r
      BY <2>11, <2>15, <3>1, ProductAtMost
    <3>3. Scale * below \in Nat /\ Scale * r \in Nat /\ q * n \in Nat
      BY <2>6, <2>10, <2>11, <2>15
    <3> QED BY <2>11, <3>2, <3>3
  <2>20. q * n < Scale * (upTo + 2)
    <3>1. PICK a, b : a = r + 1 /\ b = upTo + 2
      OBVIOUS
    <3>2. a \in Int /\ b \in Int /\ a <= b
      BY <2>6, <2>11, <2>14, <2>15, <2>18, <3>1
    <3>3. Scale * a <= Scale * b
      BY <2>11, <3>2, ProductAtMost
    <3>4. Scale * a \in Int /\ Scale * b \in Int /\ q * n \in Int
      BY <2>6, <2>10, <2>11, <3>2
    <3> QED BY <2>11, <3>1, <3>3, <3>4
  <2>21. got.value = v /\ got.quantile = q
    BY <2>1, <2>3, <2>9, <2>12, <2>13
  <2>22. Flushed(v) = upTo /\ Flushed(v - 1) = below
    BY <2>1, <2>13, <2>15 DEF Remaining, Flushed
  <2> QED BY <2>1, <2>8, <2>19, <2>20, <2>21, <2>22
<1> QED BY <1>1, Invariant, PTL

-----------------------------------------------------------------------------
\* Text: sequences that are joined, and what a reader gets of a part of a line.

\* f has what FlattenSeq has flattened of seqs after each of its elements.
Flattening(f, seqs, n, S) ==
  /\ f[0] = <<>>
  /\ \A i \in 0 .. n : f[i] \in Seq(S)
  /\ \A i \in 1 .. n : f[i] = f[i - 1] \o seqs[i]
  /\ FlattenSeq(seqs) = f[n]

\* FlattenSeq joins sequences one after the other.
LEMMA Flattening_ ==
  ASSUME NEW S, NEW seqs \in Seq(Seq(S)), NEW n \in Nat, n = Len(seqs)
  PROVE  \E f : Flattening(f, seqs, n, S)
<1>1. CASE n = 0
  <2>1. PICK f : f = [i \in 0 .. 0 |-> <<>>]
    OBVIOUS
  <2>2. seqs = <<>> /\ f[0] = <<>> /\ <<>> \in Seq(S)
    <3>1. seqs = <<>>
      <4>1. Len(seqs) = 0
        BY <1>1
      <4> QED BY <4>1, EmptySeq
    <3>2. f[0] = <<>>
      BY <2>1
    <3> QED BY <3>1, <3>2, EmptySeq
  <2>3. FlattenSeq(seqs) = seqs
    <3>1. Len(seqs) = 0
      BY <1>1
    <3> QED BY <3>1, Zenon DEF FlattenSeq
  <2>4. \A i \in 0 .. n : f[i] \in Seq(S)
    <3>1. \A i \in 0 .. n : i = 0
      BY <1>1
    <3> QED BY <2>2, <3>1
  <2>5. \A i \in 1 .. n : f[i] = f[i - 1] \o seqs[i]
    BY <1>1
  <2>6. FlattenSeq(seqs) = f[n]
    BY <1>1, <2>2, <2>3
  <2> QED BY <2>2, <2>4, <2>5, <2>6 DEF Flattening
<1>2. CASE n # 0
  <2>1. PICK g : Flattens(g, seqs, n) /\ FlattenSeq(seqs) = g[n]
    BY <1>2, Flattened
  <2>2. \A i \in 1 .. n : seqs[i] \in Seq(S)
    BY ElementOfSeq
  <2>3. \A i \in 1 .. n : g[i] = IF i = 1 THEN seqs[i] ELSE g[i - 1] \o seqs[i]
    BY <2>1 DEF Flattens
  <2>4. PICK f : f = [i \in 0 .. n |-> IF i = 0 THEN <<>> ELSE g[i]]
    OBVIOUS
  <2>5. f[0] = <<>> /\ \A i \in 1 .. n : f[i] = g[i]
    BY <2>4
  <2>6. PICK T : T = {i \in Nat : i <= n => f[i] \in Seq(S)}
    OBVIOUS
  <2>7. 0 \in T
    BY <2>5, <2>6, EmptySeq
  <2>8. ASSUME NEW i \in 1 .. n, f[i - 1] \in Seq(S)
        PROVE  f[i] = f[i - 1] \o seqs[i] /\ f[i] \in Seq(S)
    <3>1. CASE i = 1
      <4>1. f[i - 1] = <<>> /\ f[i] = seqs[i]
        BY <2>3, <2>5, <3>1
      <4> QED BY <2>2, <4>1, ConcatEmptySeq
    <3>2. CASE i # 1
      <4>1. i - 1 \in 1 .. n
        BY <3>2
      <4>2. f[i] = f[i - 1] \o seqs[i]
        BY <2>3, <2>5, <3>2, <4>1
      <4> QED BY <2>2, <2>8, <4>2, ConcatProperties
    <3> QED BY <3>1, <3>2
  <2>9. ASSUME NEW i \in Nat, i \in T PROVE i + 1 \in T
    <3> SUFFICES ASSUME i + 1 <= n PROVE f[i + 1] \in Seq(S)
      BY <2>6
    <3>1. i + 1 \in 1 .. n /\ (i + 1) - 1 = i /\ f[i] \in Seq(S)
      BY <2>6, <2>9
    <3> QED BY <2>8, <3>1
  <2>10. Nat \subseteq T
    BY <2>7, <2>9, Induction
  <2>11. \A i \in 0 .. n : f[i] \in Seq(S)
    BY <2>6, <2>10
  <2>12. ASSUME NEW i \in 1 .. n PROVE f[i] = f[i - 1] \o seqs[i]
    <3>1. i - 1 \in 0 .. n
      OBVIOUS
    <3> QED BY <2>8, <2>11, <3>1
  <2>13. FlattenSeq(seqs) = f[n]
    BY <1>2, <2>1, <2>5
  <2> QED BY <2>5, <2>11, <2>12, <2>13 DEF Flattening
<1> QED BY <1>1, <1>2

\* So it makes a sequence.
LEMMA FlattenType ==
  ASSUME NEW S, NEW seqs \in Seq(Seq(S))
  PROVE  FlattenSeq(seqs) \in Seq(S)
<1>1. PICK n \in Nat : n = Len(seqs)
  OBVIOUS
<1>2. PICK f : Flattening(f, seqs, n, S)
  BY <1>1, Flattening_
<1>3. n \in 0 .. n
  BY <1>1
<1> QED BY <1>2, <1>3 DEF Flattening

-----------------------------------------------------------------------------
\* The reader.

\* It gets from r to q with the tokens of s.
Runs(r, s, q) ==
  \E f : /\ f[0] = r /\ f[Len(s)] = q
         /\ \A n \in 1 .. Len(s) : f[n] = ReadToken(f[n - 1], s[n])

\* Nothing is read of nothing.
LEMMA RunsNowhere == ASSUME NEW r PROVE Runs(r, <<>>, r)
<1>1. PICK f : f = [n \in 0 .. 0 |-> r]
  OBVIOUS
<1>2. f[0] = r /\ Len(<<>>) = 0
  BY <1>1
<1> QED BY <1>2 DEF Runs

\* One token is one step.
LEMMA RunsOnce == ASSUME NEW r, NEW c PROVE Runs(r, <<c>>, ReadToken(r, c))
<1>1. PICK f : f = [n \in 0 .. 1 |-> IF n = 0 THEN r ELSE ReadToken(r, c)]
  OBVIOUS
<1>2. f[0] = r /\ f[1] = ReadToken(r, c) /\ Len(<<c>>) = 1 /\ <<c>>[1] = c
  BY <1>1
<1>3. \A n \in 1 .. 1 : n = 1 /\ n - 1 = 0
  OBVIOUS
<1> QED BY <1>2, <1>3 DEF Runs

\* One text is read after the other.
LEMMA RunsOn ==
  ASSUME NEW S, NEW s \in Seq(S), NEW t \in Seq(S), NEW r, NEW q, NEW p,
         Runs(r, s, q), Runs(q, t, p)
  PROVE  Runs(r, s \o t, p)
<1>1. PICK f : f[0] = r /\ f[Len(s)] = q
               /\ \A n \in 1 .. Len(s) : f[n] = ReadToken(f[n - 1], s[n])
  BY DEF Runs
<1>2. PICK g : g[0] = q /\ g[Len(t)] = p
               /\ \A n \in 1 .. Len(t) : g[n] = ReadToken(g[n - 1], t[n])
  BY DEF Runs
<1>3. PICK a, b : a \in Nat /\ b \in Nat /\ a = Len(s) /\ b = Len(t)
  BY LenProperties
<1>4. PICK h : h = [n \in 0 .. a + b |-> IF n <= a THEN f[n] ELSE g[n - a]]
  OBVIOUS
<1>5. h[0] = r /\ Len(s \o t) = a + b
  BY <1>1, <1>3, <1>4, ConcatProperties
<1>6. h[a + b] = p
  <2>1. CASE b = 0
    BY <1>1, <1>2, <1>3, <1>4, <2>1
  <2>2. CASE b # 0
    BY <1>2, <1>3, <1>4, <2>2
  <2> QED BY <2>1, <2>2
<1>7. ASSUME NEW n \in 1 .. a + b
      PROVE  h[n] = ReadToken(h[n - 1], (s \o t)[n])
  <2>1. (s \o t)[n] = IF n <= a THEN s[n] ELSE t[n - a]
    BY <1>3, ConcatProperties
  <2>2. CASE n <= a
    <3>1. n \in 1 .. a /\ h[n] = f[n] /\ h[n - 1] = f[n - 1]
      BY <1>3, <1>4, <2>2
    <3> QED BY <1>1, <1>3, <2>1, <2>2, <3>1
  <2>3. CASE n = a + 1
    <3>1. 1 \in 1 .. b /\ h[n] = g[1] /\ h[n - 1] = f[a] /\ ~ (n <= a) /\ n - a = 1
      BY <1>3, <1>4, <2>3
    <3>2. g[1] = ReadToken(g[1 - 1], t[1])
      BY <1>2, <1>3, <3>1
    <3>3. 1 - 1 = 0
      OBVIOUS
    <3> QED BY <1>1, <1>2, <1>3, <2>1, <3>1, <3>2, <3>3
  <2>4. CASE n > a + 1
    <3>1. n - a \in 1 .. b /\ h[n] = g[n - a] /\ h[n - 1] = g[(n - a) - 1] /\ ~ (n <= a)
      BY <1>3, <1>4, <2>4
    <3> QED BY <1>2, <1>3, <2>1, <3>1
  <2> QED BY <1>3, <2>2, <2>3, <2>4
<1> QED BY <1>5, <1>6, <1>7 DEF Runs

\* Many texts are read one after the other.
LEMMA RunsThrough ==
  ASSUME NEW S, NEW seqs \in Seq(Seq(S)), NEW n \in Nat, n = Len(seqs), NEW g,
         \A i \in 1 .. n : Runs(g[i - 1], seqs[i], g[i])
  PROVE  Runs(g[0], FlattenSeq(seqs), g[n])
<1>1. PICK f : Flattening(f, seqs, n, S)
  BY Flattening_
<1>2. PICK T : T = {i \in Nat : i <= n => Runs(g[0], f[i], g[i])}
  OBVIOUS
<1>3. 0 \in T
  BY <1>1, <1>2, RunsNowhere DEF Flattening
<1>4. ASSUME NEW i \in Nat, i \in T PROVE i + 1 \in T
  <2> SUFFICES ASSUME i + 1 <= n PROVE Runs(g[0], f[i + 1], g[i + 1])
    BY <1>2
  <2>1. i + 1 \in 1 .. n /\ i \in 0 .. n /\ (i + 1) - 1 = i /\ Runs(g[0], f[i], g[i])
    BY <1>2, <1>4
  <2>2. f[i + 1] = f[i] \o seqs[i + 1] /\ f[i] \in Seq(S)
    BY <1>1, <2>1 DEF Flattening
  <2>3. Runs(g[i], seqs[i + 1], g[i + 1]) /\ seqs[i + 1] \in Seq(S)
    BY <2>1, ElementOfSeq
  <2>4. Runs(g[0], f[i] \o seqs[i + 1], g[i + 1])
    BY <2>1, <2>2, <2>3, RunsOn
  <2> QED BY <2>2, <2>4
<1>5. Nat \subseteq T
  BY <1>2, <1>3, <1>4, Induction
<1>6. Runs(g[0], f[n], g[n])
  BY <1>2, <1>5
<1> QED BY <1>1, <1>6 DEF Flattening

\* Where each token c takes g of x to g of x with c, a text is gathered.
LEMMA RunsGathering ==
  ASSUME NEW S, NEW s \in Seq(S), NEW A, S \subseteq A, NEW g, NEW x \in Seq(A),
         \A y \in Seq(A) : \A c \in S : ReadToken(g[y], c) = g[Append(y, c)]
  PROVE  Runs(g[x], s, g[x \o s])
<1>1. PICK n \in Nat : n = Len(s)
  OBVIOUS
<1>2. PICK f : f = [i \in 0 .. n |-> g[x \o SubSeq(s, 1, i)]]
  OBVIOUS
<1>3. s \in Seq(A)
  BY SeqMonotonic
<1>4. f[0] = g[x] /\ f[n] = g[x \o s]
  <2>1. SubSeq(s, 1, 0) = <<>> /\ SubSeq(s, 1, n) = s
    BY <1>1, SubSeqEmpty, SubSeqFull
  <2>2. x \o <<>> = x
    BY ConcatEmptySeq
  <2>3. 0 \in 0 .. n /\ n \in 0 .. n
    OBVIOUS
  <2> QED BY <1>2, <2>1, <2>2, <2>3
<1>5. ASSUME NEW i \in 1 .. n PROVE f[i] = ReadToken(f[i - 1], s[i])
  <2>1. PICK y : y = x \o SubSeq(s, 1, i - 1)
    OBVIOUS
  <2>2. SubSeq(s, 1, i - 1) \in Seq(A) /\ s[i] \in S /\ s[i] \in A
    <3>1. \A k \in 1 .. i - 1 : s[k] \in A
      BY <1>1, <1>3, ElementOfSeq
    <3>2. s[i] \in S
      BY <1>1, ElementOfSeq
    <3> QED BY <3>1, <3>2, SubSeqProperties
  <2>3. y \in Seq(A)
    BY <2>1, <2>2, ConcatProperties
  <2>4. SubSeq(s, 1, i) = SubSeq(s, 1, i - 1) \o <<s[i]>>
    BY <1>1, <1>3, SubSeqRecursiveSecond
  <2>5. x \o SubSeq(s, 1, i) = Append(y, s[i])
    <3>1. <<s[i]>> \in Seq(A)
      BY <2>2
    <3>2. PICK z : z = SubSeq(s, 1, i - 1)
      OBVIOUS
    <3>3. z \in Seq(A)
      BY <2>2, <3>2
    <3>4. (x \o z) \o <<s[i]>> = x \o (z \o <<s[i]>>)
      BY <3>1, <3>3, ConcatAssociative
    <3>5. Append(y, s[i]) = y \o <<s[i]>>
      BY <2>2, <2>3, AppendIsConcat
    <3> QED BY <2>1, <2>4, <3>2, <3>4, <3>5
  <2>6. ReadToken(g[y], s[i]) = g[Append(y, s[i])]
    BY <2>2, <2>3
  <2>7. i \in 0 .. n /\ i - 1 \in 0 .. n
    OBVIOUS
  <2> QED BY <1>2, <2>1, <2>5, <2>6, <2>7
<1> QED BY <1>1, <1>4, <1>5 DEF Runs

\* What a line is read as is where the reader gets with it.
LEMMA ReadLineRuns ==
  ASSUME NEW S, NEW line \in Seq(S), NEW q, Runs(NothingRead, line, q)
  PROVE  ReadLine(line) = q
<1> DEFINE Solves(u) == u = [n \in 0 .. Len(line) |->
                             IF n = 0 THEN NothingRead ELSE ReadToken(u[n - 1], line[n])]
<1>1. PICK f : f[0] = NothingRead /\ f[Len(line)] = q
               /\ \A n \in 1 .. Len(line) : f[n] = ReadToken(f[n - 1], line[n])
  BY DEF Runs
<1>2. PICK k \in Nat : k = Len(line)
  OBVIOUS
<1>3. PICK g : g = [n \in 0 .. k |-> f[n]]
  OBVIOUS
<1>4. Solves(g)
  <2>1. \A n \in 0 .. k : g[n] = IF n = 0 THEN NothingRead ELSE ReadToken(g[n - 1], line[n])
    <3> SUFFICES ASSUME NEW n \in 0 .. k
                 PROVE  g[n] = IF n = 0 THEN NothingRead ELSE ReadToken(g[n - 1], line[n])
      OBVIOUS
    <3>1. CASE n = 0
      BY <1>1, <1>3, <3>1
    <3>2. CASE n # 0
      <4>1. n \in 1 .. k /\ n - 1 \in 0 .. k
        BY <3>2
      <4> QED BY <1>1, <1>2, <1>3, <3>2, <4>1
    <3> QED BY <3>1, <3>2
  <2>2. g = [n \in 0 .. k |-> g[n]]
    BY <1>3
  <2> QED BY <1>2, <2>1, <2>2
<1>5. PICK v : v = CHOOSE u : Solves(u)
  OBVIOUS
<1>6. Solves(v)
  <2> HIDE DEF Solves
  <2> QED BY <1>4, <1>5, Zenon
<1>7. ReadLine(line) = v[k]
  BY <1>2, <1>5, Zenon DEF ReadLine
<1>8. PICK T : T = {n \in Nat : n <= k => v[n] = f[n]}
  OBVIOUS
<1>9. \A n \in 0 .. k : v[n] = IF n = 0 THEN NothingRead ELSE ReadToken(v[n - 1], line[n])
  BY <1>2, <1>6
<1>10. 0 \in T
  BY <1>1, <1>8, <1>9
<1>11. ASSUME NEW n \in Nat, n \in T PROVE n + 1 \in T
  <2> SUFFICES ASSUME n + 1 <= k PROVE v[n + 1] = f[n + 1]
    BY <1>8
  <2>1. n + 1 \in 1 .. k /\ n + 1 \in 0 .. k /\ n + 1 # 0 /\ (n + 1) - 1 = n /\ v[n] = f[n]
    BY <1>8, <1>11
  <2> QED BY <1>1, <1>2, <1>9, <2>1
<1>12. Nat \subseteq T
  BY <1>10, <1>11, Induction
<1>13. v[k] = f[k]
  BY <1>8, <1>12
<1> QED BY <1>1, <1>2, <1>7, <1>13

-----------------------------------------------------------------------------
\* Text: the words of a line and what a reader does with each of them.

\* What texts are made of, and what there is in a line before its end.
Word ==
  STRING \cup Chars \cup Doubles \cup Helps \cup Timestamps
    \cup {"\n", "n", "\\", "\"", "#", "{", "}", " ", "=", ",", "_", ":"}
    \cup {"HELP", "TYPE", "gauge", "counter", "untyped", "summary", "histogram"}
    \cup {"info", "count", "sum", "bucket", "le", "quantile", "Nan", "+Inf", "-Inf"}
Plain == Word \ {"\n"}
NameWord == Plain \ {"#", "{", " "}
LabelWord == Plain \ {"="}

\* What there is between the names and the values.
Sharp == <<"#">>
Opens == <<"{">>
Comma == <<",">>
Equals == <<"=", "\"">>
Quote == <<"\"">>
Closes == <<"}">>
Space == <<" ">>
LineEnd == <<"\n">>

\* Which of them are what.
LEMMA Words ==
  /\ Plain \subseteq Word /\ NameWord \subseteq Plain /\ LabelWord \subseteq Plain
  /\ NameWord \subseteq Word /\ LabelWord \subseteq Word
BY Zenon DEF Plain, NameWord, LabelWord

\* A sequence of one or two.
LEMMA Few ==
  ASSUME NEW S, NEW a \in S, NEW b \in S
  PROVE  <<a>> \in Seq(S) /\ <<a, b>> \in Seq(S) /\ <<a>> \o <<b>> = <<a, b>>
<1>1. <<a>> \in Seq(S) /\ <<b>> \in Seq(S) /\ <<a, b>> \in Seq(S)
  OBVIOUS
<1>2. PICK s, t : s = <<a>> /\ t = <<b>>
  OBVIOUS
<1>3. s \in Seq(S) /\ t \in Seq(S) /\ Len(s) = 1 /\ Len(t) = 1 /\ s[1] = a /\ t[1] = b
  BY <1>1, <1>2
<1>4. s \o t \in Seq(S) /\ Len(s \o t) = 2
  <2>1. s \o t \in Seq(S) /\ Len(s \o t) = Len(s) + Len(t)
    BY <1>3, ConcatProperties
  <2> QED BY <1>3, <2>1
<1>5. (s \o t)[1] = a /\ (s \o t)[2] = b
  <2>1. \A i \in 1 .. Len(s) + Len(t) :
          (s \o t)[i] = IF i <= Len(s) THEN s[i] ELSE t[i - Len(s)]
    BY <1>3, ConcatProperties
  <2>2. 1 \in 1 .. Len(s) + Len(t) /\ 2 \in 1 .. Len(s) + Len(t) /\ 2 - Len(s) = 1
        /\ ~ (2 <= Len(s)) /\ 1 <= Len(s)
    BY <1>3
  <2> QED BY <1>3, <2>1, <2>2
<1>6. PICK u : u = <<a, b>>
  OBVIOUS
<1>7. u \in Seq(S) /\ Len(u) = 2 /\ u[1] = a /\ u[2] = b
  BY <1>1, <1>6
<1>8. \A i \in 1 .. 2 : i = 1 \/ i = 2
  OBVIOUS
<1>9. s \o t = u
  BY <1>4, <1>5, <1>7, <1>8, SeqEqual
<1> QED BY <1>1, <1>2, <1>6, <1>9

\* They are plain, but for the end of a line.
LEMMA Separators ==
  /\ Sharp \in Seq(Plain) /\ Opens \in Seq(Plain) /\ Comma \in Seq(Plain)
  /\ Equals \in Seq(Plain) /\ Quote \in Seq(Plain) /\ Closes \in Seq(Plain)
  /\ Space \in Seq(Plain)
<1>1. "#" \in Plain
  BY Zenon DEF Plain, Word
<1>2. "{" \in Plain
  BY Zenon DEF Plain, Word
<1>3. "," \in Plain
  BY Zenon DEF Plain, Word
<1>4. "=" \in Plain
  BY Zenon DEF Plain, Word
<1>5. "\"" \in Plain
  BY Zenon DEF Plain, Word
<1>6. "}" \in Plain
  BY Zenon DEF Plain, Word
<1>7. " " \in Plain
  BY Zenon DEF Plain, Word
<1>8. Sharp \in Seq(Plain)
  BY <1>1, Few, Zenon DEF Sharp
<1>9. Opens \in Seq(Plain)
  BY <1>2, Few, Zenon DEF Opens
<1>10. Comma \in Seq(Plain)
  BY <1>3, Few, Zenon DEF Comma
<1>11. Equals \in Seq(Plain)
  BY <1>4, <1>5, Few, Zenon DEF Equals
<1>12. Quote \in Seq(Plain)
  BY <1>5, Few, Zenon DEF Quote
<1>13. Closes \in Seq(Plain)
  BY <1>6, Few, Zenon DEF Closes
<1>14. Space \in Seq(Plain)
  BY <1>7, Few, Zenon DEF Space
<1> QED BY <1>8, <1>9, <1>10, <1>11, <1>12, <1>13, <1>14

-----------------------------------------------------------------------------
\* What the reader is at and what it has read.
State(at, name, pairs, label, chars, rest) ==
  [at |-> at, name |-> name, labels |-> pairs, label |-> label, chars |-> chars,
   rest |-> rest]

\* A comment is not looked at.
LEMMA CommentToken ==
  ASSUME NEW name, NEW pairs, NEW label, NEW chars, NEW rest, NEW c
  PROVE  ReadToken(State("comment", name, pairs, label, chars, rest), c)
           = State("comment", name, pairs, label, chars, rest)
BY DEF ReadToken, State

\* What there is in a name is kept.
LEMMA NameToken ==
  ASSUME NEW name, NEW pairs, NEW label, NEW chars, NEW rest, NEW c \in NameWord
  PROVE  ReadToken(State("name", name, pairs, label, chars, rest), c)
           = State("name", Append(name, c), pairs, label, chars, rest)
<1>1. c \notin {"#", "{", " ", "\n"}
  BY Zenon DEF NameWord, Plain
<1> QED BY <1>1 DEF ReadToken, State

\* So is what there is in the name of a label.
LEMMA LabelToken ==
  ASSUME NEW name, NEW pairs, NEW label, NEW chars, NEW rest, NEW c \in LabelWord
  PROVE  ReadToken(State("label", name, pairs, label, chars, rest), c)
           = State("label", name, pairs, Append(label, c), chars, rest)
<1>1. c \notin {"=", "\n"}
  BY Zenon DEF LabelWord, Plain
<1> QED BY <1>1 DEF ReadToken, State

\* And what follows the space.
LEMMA RestToken ==
  ASSUME NEW name, NEW pairs, NEW label, NEW chars, NEW rest, NEW c \in Plain
  PROVE  ReadToken(State("rest", name, pairs, label, chars, rest), c)
           = State("rest", name, pairs, label, chars, Append(rest, c))
<1>1. c # "\n"
  BY Zenon DEF Plain
<1> QED BY <1>1 DEF ReadToken, State

\* What one character is written as is read as that character.
LEMMA CharacterRuns ==
  ASSUME NEW c \in Word, NEW name, NEW pairs, NEW label, NEW chars, NEW rest
  PROVE  /\ Escaped(c) \in Seq(Plain)
         /\ Runs(State("value", name, pairs, label, chars, rest), Escaped(c),
                 State("value", name, pairs, label, Append(chars, c), rest))
<1>1. PICK q, r, e : q = State("value", name, pairs, label, chars, rest)
                     /\ r = State("escape", name, pairs, label, chars, rest)
                     /\ e = "\\"
  OBVIOUS
<1>2. e \in Plain /\ "n" \in Plain
  BY <1>1, Zenon DEF Plain, Word
<1>3. ReadToken(q, e) = r
  BY <1>1 DEF ReadToken, State
<1>4. ASSUME NEW b \in Plain
      PROVE  <<e, b>> \in Seq(Plain) /\ Runs(q, <<e, b>>, ReadToken(r, b))
  <2>1. Runs(q, <<e>>, r) /\ Runs(r, <<b>>, ReadToken(r, b))
    BY <1>3, RunsOnce
  <2>2. <<e>> \in Seq(Plain) /\ <<b>> \in Seq(Plain) /\ <<e, b>> \in Seq(Plain)
        /\ <<e>> \o <<b>> = <<e, b>>
    BY <1>2, Few
  <2> QED BY <2>1, <2>2, RunsOn
<1>5. CASE c = "\n"
  <2>1. Escaped(c) = <<e, "n">>
    BY <1>1, <1>5, Zenon DEF Escaped
  <2>2. ReadToken(r, "n") = State("value", name, pairs, label, Append(chars, c), rest)
    BY <1>1, <1>5, Zenon DEF ReadToken, State
  <2> QED BY <1>1, <1>2, <1>4, <2>1, <2>2
<1>6. CASE c \in {"\\", "\""}
  <2>1. Escaped(c) = <<e, c>> /\ c \in Plain /\ c # "\n" /\ c # "n"
    BY <1>1, <1>6, Zenon DEF Escaped, Plain
  <2>2. ReadToken(r, c) = State("value", name, pairs, label, Append(chars, c), rest)
    BY <1>1, <2>1 DEF ReadToken, State
  <2> QED BY <1>1, <1>4, <2>1, <2>2
<1>7. CASE c \notin {"\n", "\\", "\""}
  <2>1. Escaped(c) = <<c>> /\ c \in Plain
    BY <1>7, Zenon DEF Escaped, Plain
  <2>2. ReadToken(q, c) = State("value", name, pairs, label, Append(chars, c), rest)
    BY <1>1, <1>7 DEF ReadToken, State
  <2>3. Runs(q, <<c>>, ReadToken(q, c))
    BY RunsOnce
  <2> QED BY <1>1, <2>1, <2>2, <2>3, Few
<1> QED BY <1>5, <1>6, <1>7

\* What the reader does between names and values.
LEMMA SeparatorsRun ==
  ASSUME NEW name, NEW pairs, NEW label, NEW chars, NEW rest
  PROVE  /\ Runs(State("name", name, pairs, label, chars, rest), Sharp,
                 State("comment", name, pairs, label, chars, rest))
         /\ Runs(State("name", name, pairs, label, chars, rest), Opens,
                 State("label", name, pairs, label, chars, rest))
         /\ Runs(State("after", name, pairs, label, chars, rest), Comma,
                 State("label", name, pairs, label, chars, rest))
         /\ Runs(State("label", name, pairs, label, chars, rest), Equals,
                 State("value", name, pairs, label, chars, rest))
         /\ Runs(State("value", name, pairs, label, chars, rest), Quote,
                 State("after", name, Append(pairs, <<label, chars>>), <<>>, <<>>, rest))
         /\ Runs(State("after", name, pairs, label, chars, rest), Closes,
                 State("name", name, pairs, label, chars, rest))
         /\ Runs(State("name", name, pairs, label, chars, rest), Space,
                 State("rest", name, pairs, label, chars, rest))
         /\ Runs(State("rest", name, pairs, label, chars, rest), LineEnd,
                 State("sample", name, pairs, label, chars, rest))
<1>1. Runs(State("name", name, pairs, label, chars, rest), Sharp,
           State("comment", name, pairs, label, chars, rest))
  <2>1. ReadToken(State("name", name, pairs, label, chars, rest), "#")
          = State("comment", name, pairs, label, chars, rest)
    BY DEF ReadToken, State
  <2> QED BY <2>1, RunsOnce DEF Sharp
<1>2. Runs(State("name", name, pairs, label, chars, rest), Opens,
           State("label", name, pairs, label, chars, rest))
  <2>1. ReadToken(State("name", name, pairs, label, chars, rest), "{")
          = State("label", name, pairs, label, chars, rest)
    BY DEF ReadToken, State
  <2> QED BY <2>1, RunsOnce DEF Opens
<1>3. Runs(State("after", name, pairs, label, chars, rest), Comma,
           State("label", name, pairs, label, chars, rest))
  <2>1. ReadToken(State("after", name, pairs, label, chars, rest), ",")
          = State("label", name, pairs, label, chars, rest)
    BY DEF ReadToken, State
  <2> QED BY <2>1, RunsOnce DEF Comma
<1>4. Runs(State("label", name, pairs, label, chars, rest), Equals,
           State("value", name, pairs, label, chars, rest))
  <2>1. ReadToken(State("label", name, pairs, label, chars, rest), "=")
          = State("equals", name, pairs, label, chars, rest)
    BY DEF ReadToken, State
  <2>2. ReadToken(State("equals", name, pairs, label, chars, rest), "\"")
          = State("value", name, pairs, label, chars, rest)
    BY DEF ReadToken, State
  <2>3. PICK a, b : a = "=" /\ b = "\""
    OBVIOUS
  <2>4. a \in Plain /\ b \in Plain
    BY <2>3, Zenon DEF Plain, Word
  <2>5. Runs(State("label", name, pairs, label, chars, rest), <<a>>,
             State("equals", name, pairs, label, chars, rest))
    BY <2>1, <2>3, RunsOnce, Zenon
  <2>6. Runs(State("equals", name, pairs, label, chars, rest), <<b>>,
             State("value", name, pairs, label, chars, rest))
    BY <2>2, <2>3, RunsOnce, Zenon
  <2>7. <<a>> \in Seq(Plain) /\ <<b>> \in Seq(Plain) /\ <<a>> \o <<b>> = <<a, b>>
    BY <2>4, Few
  <2>8. Runs(State("label", name, pairs, label, chars, rest), <<a>> \o <<b>>,
             State("value", name, pairs, label, chars, rest))
    BY <2>5, <2>6, <2>7, RunsOn
  <2>9. Equals = <<a, b>>
    BY <2>3, Zenon DEF Equals
  <2> QED BY <2>7, <2>8, <2>9
<1>5. Runs(State("value", name, pairs, label, chars, rest), Quote,
           State("after", name, Append(pairs, <<label, chars>>), <<>>, <<>>, rest))
  <2>1. ReadToken(State("value", name, pairs, label, chars, rest), "\"")
          = State("after", name, Append(pairs, <<label, chars>>), <<>>, <<>>, rest)
    BY DEF ReadToken, State
  <2> QED BY <2>1, RunsOnce DEF Quote
<1>6. Runs(State("after", name, pairs, label, chars, rest), Closes,
           State("name", name, pairs, label, chars, rest))
  <2>1. ReadToken(State("after", name, pairs, label, chars, rest), "}")
          = State("name", name, pairs, label, chars, rest)
    BY DEF ReadToken, State
  <2> QED BY <2>1, RunsOnce DEF Closes
<1>7. Runs(State("name", name, pairs, label, chars, rest), Space,
           State("rest", name, pairs, label, chars, rest))
  <2>1. ReadToken(State("name", name, pairs, label, chars, rest), " ")
          = State("rest", name, pairs, label, chars, rest)
    BY DEF ReadToken, State
  <2> QED BY <2>1, RunsOnce DEF Space
<1>8. Runs(State("rest", name, pairs, label, chars, rest), LineEnd,
           State("sample", name, pairs, label, chars, rest))
  <2>1. ReadToken(State("rest", name, pairs, label, chars, rest), "\n")
          = State("sample", name, pairs, label, chars, rest)
    BY DEF ReadToken, State
  <2> QED BY <2>1, RunsOnce DEF LineEnd
<1> QED BY <1>1, <1>2, <1>3, <1>4, <1>5, <1>6, <1>7, <1>8

-----------------------------------------------------------------------------
\* Text: names, values and label values are read as they were written.

\* A name is read token by token.
LEMMA NameRuns ==
  ASSUME NEW s \in Seq(NameWord), NEW name \in Seq(Word), NEW pairs, NEW label, NEW chars,
         NEW rest
  PROVE  Runs(State("name", name, pairs, label, chars, rest), s,
              State("name", name \o s, pairs, label, chars, rest))
<1>1. PICK g : g = [y \in Seq(Word) |-> State("name", y, pairs, label, chars, rest)]
  OBVIOUS
<1>2. ASSUME NEW y \in Seq(Word), NEW c \in NameWord
      PROVE  ReadToken(g[y], c) = g[Append(y, c)]
  <2>1. c \in Word
    BY Words
  <2>2. Append(y, c) \in Seq(Word)
    BY <2>1, AppendProperties
  <2>3. ReadToken(State("name", y, pairs, label, chars, rest), c)
          = State("name", Append(y, c), pairs, label, chars, rest)
    BY NameToken
  <2> QED BY <1>1, <2>2, <2>3
<1>3. Runs(g[name], s, g[name \o s])
  BY <1>2, Words, RunsGathering
<1>4. s \in Seq(Word)
  BY Words, SeqMonotonic
<1>5. name \o s \in Seq(Word)
  BY <1>4, ConcatProperties
<1> QED BY <1>1, <1>3, <1>5

\* So is the name of a label.
LEMMA LabelRuns ==
  ASSUME NEW s \in Seq(LabelWord), NEW label \in Seq(Word), NEW name, NEW pairs, NEW chars,
         NEW rest
  PROVE  Runs(State("label", name, pairs, label, chars, rest), s,
              State("label", name, pairs, label \o s, chars, rest))
<1>1. PICK g : g = [y \in Seq(Word) |-> State("label", name, pairs, y, chars, rest)]
  OBVIOUS
<1>2. ASSUME NEW y \in Seq(Word), NEW c \in LabelWord
      PROVE  ReadToken(g[y], c) = g[Append(y, c)]
  <2>1. c \in Word
    BY Words
  <2>2. Append(y, c) \in Seq(Word)
    BY <2>1, AppendProperties
  <2>3. ReadToken(State("label", name, pairs, y, chars, rest), c)
          = State("label", name, pairs, Append(y, c), chars, rest)
    BY LabelToken
  <2> QED BY <1>1, <2>2, <2>3
<1>3. Runs(g[label], s, g[label \o s])
  BY <1>2, Words, RunsGathering
<1>4. s \in Seq(Word)
  BY Words, SeqMonotonic
<1>5. label \o s \in Seq(Word)
  BY <1>4, ConcatProperties
<1> QED BY <1>1, <1>3, <1>5

\* So is what follows the space.
LEMMA RestRuns ==
  ASSUME NEW s \in Seq(Plain), NEW rest \in Seq(Word), NEW name, NEW pairs, NEW label,
         NEW chars
  PROVE  Runs(State("rest", name, pairs, label, chars, rest), s,
              State("rest", name, pairs, label, chars, rest \o s))
<1>1. PICK g : g = [y \in Seq(Word) |-> State("rest", name, pairs, label, chars, y)]
  OBVIOUS
<1>2. ASSUME NEW y \in Seq(Word), NEW c \in Plain
      PROVE  ReadToken(g[y], c) = g[Append(y, c)]
  <2>1. c \in Word
    BY Words
  <2>2. Append(y, c) \in Seq(Word)
    BY <2>1, AppendProperties
  <2>3. ReadToken(State("rest", name, pairs, label, chars, y), c)
          = State("rest", name, pairs, label, chars, Append(y, c))
    BY RestToken
  <2> QED BY <1>1, <2>2, <2>3
<1>3. Runs(g[rest], s, g[rest \o s])
  BY <1>2, Words, RunsGathering
<1>4. s \in Seq(Word)
  BY Words, SeqMonotonic
<1>5. rest \o s \in Seq(Word)
  BY <1>4, ConcatProperties
<1> QED BY <1>1, <1>3, <1>5

\* A comment is not looked at.
LEMMA CommentRuns ==
  ASSUME NEW s \in Seq(Word), NEW name, NEW pairs, NEW label, NEW chars, NEW rest
  PROVE  Runs(State("comment", name, pairs, label, chars, rest), s,
              State("comment", name, pairs, label, chars, rest))
<1>1. PICK r : r = State("comment", name, pairs, label, chars, rest)
  OBVIOUS
<1>2. PICK g : g = [y \in Seq(Word) |-> r]
  OBVIOUS
<1>3. ASSUME NEW y \in Seq(Word), NEW c \in Word
      PROVE  ReadToken(g[y], c) = g[Append(y, c)]
  <2>1. Append(y, c) \in Seq(Word)
    BY AppendProperties
  <2>2. ReadToken(State("comment", name, pairs, label, chars, rest), c)
          = State("comment", name, pairs, label, chars, rest)
    BY CommentToken
  <2> QED BY <1>1, <1>2, <2>1, <2>2
<1>4. <<>> \in Seq(Word) /\ <<>> \o s \in Seq(Word)
  BY EmptySeq, ConcatProperties
<1>5. Runs(g[<<>>], s, g[<<>> \o s])
  BY <1>3, <1>4, RunsGathering
<1> QED BY <1>1, <1>2, <1>4, <1>5

\* What a character is written as is one or two plain tokens.
LEMMA EscapedType ==
  ASSUME NEW v \in Seq(Word)
  PROVE  /\ [i \in DOMAIN v |-> Escaped(v[i])] \in Seq(Seq(Plain))
         /\ EscapedValue(v) \in Seq(Plain)
<1>1. PICK n \in Nat : n = Len(v) /\ DOMAIN v = 1 .. n
  BY LenProperties
<1>2. \A c \in Word : Escaped(c) \in Seq(Plain)
  BY CharacterRuns
<1>3. \A i \in 1 .. n : Escaped(v[i]) \in Seq(Plain)
  BY <1>1, <1>2, ElementOfSeq
<1>4. [i \in DOMAIN v |-> Escaped(v[i])] \in Seq(Seq(Plain))
  BY <1>1, <1>3
<1> QED BY <1>4, FlattenType DEF EscapedValue

\* Whatever a label value holds, it is read as it was.
LEMMA ValueRuns ==
  ASSUME NEW v \in Seq(Word), NEW name, NEW pairs, NEW label, NEW rest
  PROVE  Runs(State("value", name, pairs, label, <<>>, rest), EscapedValue(v),
              State("value", name, pairs, label, v, rest))
<1>1. PICK n \in Nat : n = Len(v) /\ DOMAIN v = 1 .. n
  BY LenProperties
<1>2. PICK s : s = [i \in DOMAIN v |-> Escaped(v[i])]
  OBVIOUS
<1>3. s \in Seq(Seq(Plain)) /\ n = Len(s) /\ EscapedValue(v) = FlattenSeq(s)
  <2>1. s \in Seq(Seq(Plain)) /\ EscapedValue(v) = FlattenSeq(s)
    BY <1>2, EscapedType DEF EscapedValue
  <2> QED BY <1>1, <1>2, <2>1
<1>4. PICK g : g = [i \in 0 .. n |->
                      State("value", name, pairs, label, SubSeq(v, 1, i), rest)]
  OBVIOUS
<1>5. ASSUME NEW i \in 1 .. n PROVE Runs(g[i - 1], s[i], g[i])
  <2>1. PICK y : y = SubSeq(v, 1, i - 1)
    OBVIOUS
  <2>2. v[i] \in Word /\ s[i] = Escaped(v[i])
    BY <1>1, <1>2, ElementOfSeq
  <2>3. y \in Seq(Word)
    <3>1. \A k \in 1 .. i - 1 : v[k] \in Word
      BY <1>1, ElementOfSeq
    <3> QED BY <2>1, <3>1, SubSeqProperties
  <2>4. SubSeq(v, 1, i) = Append(y, v[i])
    <3>1. SubSeq(v, 1, i) = y \o <<v[i]>>
      BY <1>1, <2>1, SubSeqRecursiveSecond
    <3> QED BY <2>2, <2>3, <3>1, AppendIsConcat
  <2>5. Runs(State("value", name, pairs, label, y, rest), Escaped(v[i]),
             State("value", name, pairs, label, Append(y, v[i]), rest))
    BY <2>2, <2>3, CharacterRuns
  <2>6. i \in 0 .. n /\ i - 1 \in 0 .. n
    OBVIOUS
  <2> QED BY <1>4, <2>1, <2>2, <2>4, <2>5, <2>6
<1>6. Runs(g[0], FlattenSeq(s), g[n])
  BY <1>3, <1>5, RunsThrough
<1>7. SubSeq(v, 1, 0) = <<>> /\ SubSeq(v, 1, n) = v
  BY <1>1, SubSeqEmpty, SubSeqFull
<1>8. 0 \in 0 .. n /\ n \in 0 .. n
  OBVIOUS
<1> QED BY <1>3, <1>4, <1>6, <1>7, <1>8

-----------------------------------------------------------------------------
\* Text: the labels of a line.

\* Labels whose names have no separator, what is read of them, and the text of one.
Labels == Seq([name : Seq(LabelWord), value : Seq(Word)])
Pairs(ls) == [i \in DOMAIN ls |-> <<ls[i].name, ls[i].value>>]
LabelPart(ls, i) ==
  (IF i = 1 THEN <<>> ELSE Comma) \o ls[i].name \o Equals \o EscapedValue(ls[i].value) \o Quote

\* One label is read as its name and value.
LEMMA LabelPartRuns ==
  ASSUME NEW ls \in Labels, NEW i \in 1 .. Len(ls), NEW name, NEW pairs, NEW rest, NEW q,
         q = State(IF i = 1 THEN "label" ELSE "after", name, pairs, <<>>, <<>>, rest)
  PROVE  /\ LabelPart(ls, i) \in Seq(Plain)
         /\ Runs(q, LabelPart(ls, i),
                 State("after", name, Append(pairs, <<ls[i].name, ls[i].value>>), <<>>, <<>>,
                       rest))
<1>1. PICK n, v : n = ls[i].name /\ v = ls[i].value
  OBVIOUS
<1>2. n \in Seq(LabelWord) /\ v \in Seq(Word)
  <2>1. ls[i] \in [name : Seq(LabelWord), value : Seq(Word)]
    BY ElementOfSeq DEF Labels
  <2> QED BY <1>1, <2>1
<1>3. n \in Seq(Plain)
  BY <1>2, Words, SeqMonotonic
<1>4. PICK c : c = IF i = 1 THEN <<>> ELSE Comma
  OBVIOUS
<1>5. c \in Seq(Plain) /\ Runs(q, c, State("label", name, pairs, <<>>, <<>>, rest))
  <2>1. CASE i = 1
    BY <1>4, <2>1, RunsNowhere, EmptySeq
  <2>2. CASE i # 1
    BY <1>4, <2>2, SeparatorsRun, Separators
  <2> QED BY <2>1, <2>2
<1>6. PICK t : t = c \o n
  OBVIOUS
<1>7. t \in Seq(Plain) /\ Runs(q, t, State("label", name, pairs, n, <<>>, rest))
  <2>1. Runs(State("label", name, pairs, <<>>, <<>>, rest), n,
             State("label", name, pairs, <<>> \o n, <<>>, rest))
    BY <1>2, LabelRuns, EmptySeq
  <2>2. <<>> \o n = n
    BY <1>2, ConcatEmptySeq
  <2>3. Runs(State("label", name, pairs, <<>>, <<>>, rest), n,
             State("label", name, pairs, n, <<>>, rest))
    BY <2>1, <2>2
  <2> QED BY <1>3, <1>5, <1>6, <2>3, RunsOn, ConcatProperties
<1>8. PICK u : u = t \o Equals
  OBVIOUS
<1>9. u \in Seq(Plain) /\ Runs(q, u, State("value", name, pairs, n, <<>>, rest))
  <2>1. Runs(State("label", name, pairs, n, <<>>, rest), Equals,
             State("value", name, pairs, n, <<>>, rest))
    BY SeparatorsRun
  <2> QED BY <1>7, <1>8, <2>1, Separators, RunsOn, ConcatProperties
<1>10. PICK w : w = u \o EscapedValue(v)
  OBVIOUS
<1>11. w \in Seq(Plain) /\ Runs(q, w, State("value", name, pairs, n, v, rest))
  <2>1. Runs(State("value", name, pairs, n, <<>>, rest), EscapedValue(v),
             State("value", name, pairs, n, v, rest))
    BY <1>2, ValueRuns
  <2>2. EscapedValue(v) \in Seq(Plain)
    BY <1>2, EscapedType
  <2> QED BY <1>9, <1>10, <2>1, <2>2, RunsOn, ConcatProperties
<1>12. PICK x : x = w \o Quote
  OBVIOUS
<1>13. /\ x \in Seq(Plain)
       /\ Runs(q, x, State("after", name, Append(pairs, <<n, v>>), <<>>, <<>>, rest))
  <2>1. Runs(State("value", name, pairs, n, v, rest), Quote,
             State("after", name, Append(pairs, <<n, v>>), <<>>, <<>>, rest))
    BY SeparatorsRun
  <2> QED BY <1>11, <1>12, <2>1, Separators, RunsOn, ConcatProperties
<1>14. LabelPart(ls, i) = x
  BY <1>1, <1>4, <1>6, <1>8, <1>10, <1>12, Zenon DEF LabelPart
<1> QED BY <1>1, <1>13, <1>14

\* The pairs of labels are a sequence.
LEMMA PairsType ==
  ASSUME NEW ls \in Labels
  PROVE  /\ Pairs(ls) \in Seq(Seq(LabelWord) \X Seq(Word)) /\ Len(Pairs(ls)) = Len(ls)
         /\ \A i \in 1 .. Len(ls) : Pairs(ls)[i] = <<ls[i].name, ls[i].value>>
<1>1. PICK n \in Nat : n = Len(ls) /\ DOMAIN ls = 1 .. n
  BY LenProperties DEF Labels
<1>2. \A i \in 1 .. n : ls[i] \in [name : Seq(LabelWord), value : Seq(Word)]
  BY <1>1, ElementOfSeq DEF Labels
<1>3. \A i \in 1 .. n : <<ls[i].name, ls[i].value>> \in Seq(LabelWord) \X Seq(Word)
  BY <1>2
<1>4. Pairs(ls) = [i \in 1 .. n |-> <<ls[i].name, ls[i].value>>]
  BY <1>1 DEF Pairs
<1> QED BY <1>1, <1>3, <1>4

\* The labels between the braces are read as their pairs.
LEMMA LabelPartsRun ==
  ASSUME NEW ls \in Labels, ls # <<>>, NEW name, NEW rest
  PROVE  LET parts == FlattenSeq([i \in DOMAIN ls |-> LabelPart(ls, i)])
         IN /\ parts \in Seq(Plain)
            /\ Runs(State("label", name, <<>>, <<>>, <<>>, rest), parts,
                    State("after", name, Pairs(ls), <<>>, <<>>, rest))
<1>1. PICK n \in Nat : n = Len(ls) /\ DOMAIN ls = 1 .. n /\ n # 0
  <2>1. Len(ls) # 0
    BY EmptySeq DEF Labels
  <2> QED BY <2>1, LenProperties DEF Labels
<1>2. PICK s : s = [i \in DOMAIN ls |-> LabelPart(ls, i)]
  OBVIOUS
<1>3. s \in Seq(Seq(Plain)) /\ Len(s) = n
  <2>1. \A i \in 1 .. n : LabelPart(ls, i) \in Seq(Plain)
    <3> SUFFICES ASSUME NEW i \in 1 .. n PROVE LabelPart(ls, i) \in Seq(Plain)
      OBVIOUS
    <3>1. PICK q : q = State(IF i = 1 THEN "label" ELSE "after", name, <<>>, <<>>, <<>>, rest)
      OBVIOUS
    <3> QED BY <1>1, <3>1, LabelPartRuns
  <2> QED BY <1>1, <1>2, <2>1
<1>4. PICK p : p = Pairs(ls)
  OBVIOUS
<1>5. p \in Seq(Seq(LabelWord) \X Seq(Word)) /\ Len(p) = n
  BY <1>1, <1>4, PairsType
<1>6. PICK g : g = [i \in 0 .. n |-> State(IF i = 0 THEN "label" ELSE "after", name,
                                           SubSeq(p, 1, i), <<>>, <<>>, rest)]
  OBVIOUS
<1>7. ASSUME NEW i \in 1 .. n PROVE Runs(g[i - 1], s[i], g[i])
  <2>1. i \in 0 .. n /\ i - 1 \in 0 .. n /\ (i - 1 = 0 <=> i = 1) /\ i # 0
    OBVIOUS
  <2>2. PICK y : y = SubSeq(p, 1, i - 1)
    OBVIOUS
  <2>3. PICK q : q = State(IF i = 1 THEN "label" ELSE "after", name, y, <<>>, <<>>, rest)
    OBVIOUS
  <2>4. Runs(q, LabelPart(ls, i),
             State("after", name, Append(y, <<ls[i].name, ls[i].value>>), <<>>, <<>>, rest))
    BY <1>1, <2>3, LabelPartRuns
  <2>5. SubSeq(p, 1, i) = Append(y, <<ls[i].name, ls[i].value>>)
    <3>1. p[i] = <<ls[i].name, ls[i].value>>
      BY <1>1, <1>4, PairsType
    <3>2. SubSeq(p, 1, i) = y \o <<p[i]>>
      BY <1>5, <2>2, SubSeqRecursiveSecond
    <3>3. y \in Seq(Seq(LabelWord) \X Seq(Word)) /\ p[i] \in Seq(LabelWord) \X Seq(Word)
      <4>1. \A k \in 1 .. n : p[k] \in Seq(LabelWord) \X Seq(Word)
        BY <1>5, ElementOfSeq
      <4> QED BY <2>2, <4>1, SubSeqProperties
    <3>4. Append(y, p[i]) = y \o <<p[i]>>
      BY <3>3, AppendIsConcat
    <3> QED BY <3>1, <3>2, <3>4
  <2>6. g[i - 1] = q
    <3>1. g[i - 1] = State(IF i - 1 = 0 THEN "label" ELSE "after", name,
                           SubSeq(p, 1, i - 1), <<>>, <<>>, rest)
      BY <1>6, <2>1
    <3> QED BY <2>1, <2>2, <2>3, <3>1
  <2>7. g[i] = State("after", name, SubSeq(p, 1, i), <<>>, <<>>, rest)
    BY <1>6, <2>1
  <2>8. s[i] = LabelPart(ls, i)
    BY <1>1, <1>2
  <2> QED BY <2>4, <2>5, <2>6, <2>7, <2>8
<1>8. Runs(g[0], FlattenSeq(s), g[n])
  BY <1>3, <1>7, RunsThrough
<1>9. g[0] = State("label", name, <<>>, <<>>, <<>>, rest)
  <2>1. SubSeq(p, 1, 0) = <<>> /\ 0 \in 0 .. n
    BY SubSeqEmpty
  <2> QED BY <1>6, <2>1
<1>10. g[n] = State("after", name, p, <<>>, <<>>, rest)
  <2>1. SubSeq(p, 1, n) = p /\ n \in 0 .. n
    BY <1>5, SubSeqFull
  <2> QED BY <1>1, <1>6, <2>1
<1>11. FlattenSeq(s) \in Seq(Plain)
  BY <1>3, FlattenType
<1> QED BY <1>2, <1>4, <1>8, <1>9, <1>10, <1>11

-----------------------------------------------------------------------------
\* Text: whole lines.

\* A text is one line, and what is read of it.
IsLine(t, q) == (\E b \in Seq(Plain) : t = b \o LineEnd) /\ ReadLine(t) = q

Stamp(m) == IF m.timestamp = "0" THEN <<>> ELSE <<" ", m.timestamp>>

\* How texts are joined does not matter.
LEMMA WordsAssociate ==
  ASSUME NEW s \in Seq(Word), NEW t \in Seq(Word), NEW u \in Seq(Word)
  PROVE  (s \o t) \o u = s \o (t \o u)
BY ConcatAssociative, SMT

\* The parts of a line before its value.
LEMMA HeadRuns ==
  ASSUME NEW f, NEW m, NEW suffix, NEW extra, f.name \in Seq(NameWord),
         suffix \in Seq(NameWord), m.label \o extra \in Labels
  PROVE  /\ WriteHead(f, m, suffix, extra) \in Seq(Plain)
         /\ Runs(NothingRead, WriteHead(f, m, suffix, extra),
                 State("rest", f.name \o suffix, Pairs(m.label \o extra), <<>>, <<>>, <<>>))
<1>1. PICK n, ls : n = f.name \o suffix /\ ls = m.label \o extra
  OBVIOUS
<1>2. n \in Seq(NameWord) /\ ls \in Labels
  BY <1>1, ConcatProperties
<1>3. n \in Seq(Plain)
  BY <1>2, Words, SeqMonotonic
<1>4. Runs(NothingRead, n, State("name", n, <<>>, <<>>, <<>>, <<>>))
  <2>1. Runs(State("name", <<>>, <<>>, <<>>, <<>>, <<>>), n,
             State("name", <<>> \o n, <<>>, <<>>, <<>>, <<>>))
    BY <1>2, NameRuns, EmptySeq
  <2>2. <<>> \o n = n
    BY <1>2, ConcatEmptySeq
  <2>3. NothingRead = State("name", <<>>, <<>>, <<>>, <<>>, <<>>)
    BY DEF NothingRead, State
  <2> QED BY <2>1, <2>2, <2>3
<1>5. PICK p : p = FlattenSeq([i \in DOMAIN ls |-> LabelPart(ls, i)])
  OBVIOUS
<1>6. PICK b : b = IF ls = <<>> THEN <<>> ELSE Opens \o p \o Closes
  OBVIOUS
<1>7. /\ b \in Seq(Plain)
      /\ Runs(State("name", n, <<>>, <<>>, <<>>, <<>>), b,
              State("name", n, Pairs(ls), <<>>, <<>>, <<>>))
  <2>1. CASE ls = <<>>
    <3>1. Pairs(ls) = <<>>
      <4>1. Len(Pairs(ls)) = 0 /\ Pairs(ls) \in Seq(Seq(LabelWord) \X Seq(Word))
        BY <1>2, <2>1, PairsType, EmptySeq
      <4> QED BY <4>1, EmptySeq
    <3>2. b = <<>>
      BY <1>6, <2>1
    <3> QED BY <3>1, <3>2, RunsNowhere, EmptySeq
  <2>2. CASE ls # <<>>
    <3>1. b = Opens \o p \o Closes
      BY <1>6, <2>2
    <3>2. /\ p \in Seq(Plain)
          /\ Runs(State("label", n, <<>>, <<>>, <<>>, <<>>), p,
                  State("after", n, Pairs(ls), <<>>, <<>>, <<>>))
      BY <1>2, <1>5, <2>2, LabelPartsRun
    <3>3. Runs(State("name", n, <<>>, <<>>, <<>>, <<>>), Opens,
               State("label", n, <<>>, <<>>, <<>>, <<>>))
      BY SeparatorsRun
    <3>4. Runs(State("after", n, Pairs(ls), <<>>, <<>>, <<>>), Closes,
               State("name", n, Pairs(ls), <<>>, <<>>, <<>>))
      BY SeparatorsRun
    <3>5. PICK o : o = Opens \o p
      OBVIOUS
    <3>6. o \in Seq(Plain) /\ Runs(State("name", n, <<>>, <<>>, <<>>, <<>>), o,
                                   State("after", n, Pairs(ls), <<>>, <<>>, <<>>))
      BY <3>2, <3>3, <3>5, Separators, RunsOn, ConcatProperties
    <3>7. o \o Closes \in Seq(Plain)
          /\ Runs(State("name", n, <<>>, <<>>, <<>>, <<>>), o \o Closes,
                  State("name", n, Pairs(ls), <<>>, <<>>, <<>>))
      BY <3>4, <3>6, Separators, RunsOn, ConcatProperties
    <3> QED BY <3>1, <3>5, <3>7
  <2> QED BY <2>1, <2>2
<1>8. PICK h : h = n \o b
  OBVIOUS
<1>9. h \in Seq(Plain) /\ Runs(NothingRead, h, State("name", n, Pairs(ls), <<>>, <<>>, <<>>))
  BY <1>3, <1>4, <1>7, <1>8, RunsOn, ConcatProperties
<1>10. Runs(State("name", n, Pairs(ls), <<>>, <<>>, <<>>), Space,
            State("rest", n, Pairs(ls), <<>>, <<>>, <<>>))
  BY SeparatorsRun
<1>11. h \o Space \in Seq(Plain)
       /\ Runs(NothingRead, h \o Space, State("rest", n, Pairs(ls), <<>>, <<>>, <<>>))
  BY <1>9, <1>10, Separators, RunsOn, ConcatProperties
<1>12. WriteHead(f, m, suffix, extra) = h \o Space
  <2>1. WriteHead(f, m, suffix, extra)
          = n \o (IF ls = <<>> THEN <<>> ELSE Opens \o p \o Closes) \o Space
    BY <1>1, <1>5, Zenon DEF WriteHead, LabelPart, Opens, Closes, Space, Comma, Equals, Quote
  <2> QED BY <1>6, <1>8, <2>1
<1> QED BY <1>1, <1>11, <1>12

\* Values and timestamps are one token each, and plain.
LEMMA NumbersPlain ==
  /\ \A v \in Doubles : NumberText(v) \in Plain
  /\ \A t \in Timestamps : t \in Plain
  /\ \A h \in Helps : h \in Plain
<1>1. "\n" \notin Doubles \cup Timestamps \cup Helps
  BY TokenAssumption
<1>2. ASSUME NEW v \in Doubles PROVE NumberText(v) \in Plain
  <2>1. "Nan" \in Plain /\ "+Inf" \in Plain /\ "-Inf" \in Plain
    BY Zenon DEF Plain, Word
  <2>2. v \in Plain
    BY <1>1, Zenon DEF Plain, Word
  <2> QED BY <2>1, <2>2 DEF NumberText
<1>3. ASSUME NEW t \in Timestamps PROVE t \in Plain
  BY <1>1, Zenon DEF Plain, Word
<1>4. ASSUME NEW t \in Helps PROVE t \in Plain
  BY <1>1, Zenon DEF Plain, Word
<1> QED BY <1>2, <1>3, <1>4

\* A line of a metric is read as the name, the labels and the value.
LEMMA LineRuns ==
  ASSUME NEW f, NEW m, NEW suffix, NEW extra, NEW value \in Doubles,
         f.name \in Seq(NameWord), suffix \in Seq(NameWord), m.label \o extra \in Labels,
         m.timestamp \in Timestamps
  PROVE  IsLine(Line(f, m, suffix, extra, value),
                State("sample", f.name \o suffix, Pairs(m.label \o extra), <<>>, <<>>,
                      <<NumberText(value)>> \o Stamp(m)))
<1>1. PICK h, n, p : h = WriteHead(f, m, suffix, extra) /\ n = f.name \o suffix
                     /\ p = Pairs(m.label \o extra)
  OBVIOUS
<1>2. h \in Seq(Plain) /\ Runs(NothingRead, h, State("rest", n, p, <<>>, <<>>, <<>>))
  BY <1>1, HeadRuns
<1>3. PICK v, t : v = <<NumberText(value)>> /\ t = Stamp(m)
  OBVIOUS
<1>4. v \in Seq(Plain) /\ t \in Seq(Plain)
  <2>1. NumberText(value) \in Plain /\ m.timestamp \in Plain
    BY NumbersPlain
  <2>2. " " \in Plain
    BY Zenon DEF Plain, Word
  <2>3. <<>> \in Seq(Plain) /\ <<" ", m.timestamp>> \in Seq(Plain) /\ v \in Seq(Plain)
    BY <1>3, <2>1, <2>2, Few, EmptySeq
  <2> QED BY <1>3, <2>3 DEF Stamp
<1>5. PICK r : r = v \o t
  OBVIOUS
<1>6. r \in Seq(Plain) /\ Runs(State("rest", n, p, <<>>, <<>>, <<>>), r,
                               State("rest", n, p, <<>>, <<>>, r))
  <2>1. r \in Seq(Plain)
    BY <1>4, <1>5, ConcatProperties
  <2>2. <<>> \in Seq(Word) /\ <<>> \o r = r
    BY <2>1, EmptySeq, ConcatEmptySeq
  <2>3. Runs(State("rest", n, p, <<>>, <<>>, <<>>), r,
             State("rest", n, p, <<>>, <<>>, <<>> \o r))
    BY <2>1, <2>2, RestRuns
  <2> QED BY <2>1, <2>2, <2>3
<1>7. PICK b : b = h \o r
  OBVIOUS
<1>8. b \in Seq(Plain) /\ Runs(NothingRead, b, State("rest", n, p, <<>>, <<>>, r))
  BY <1>2, <1>6, <1>7, RunsOn, ConcatProperties
<1>9. LineEnd \in Seq(Word) /\ b \in Seq(Word)
  <2>1. "\n" \in Word
    BY Zenon DEF Word
  <2> QED BY <1>8, <2>1, Few, Words, SeqMonotonic DEF LineEnd
<1>10. Runs(State("rest", n, p, <<>>, <<>>, r), LineEnd,
            State("sample", n, p, <<>>, <<>>, r))
  BY SeparatorsRun
<1>11. Runs(NothingRead, b \o LineEnd, State("sample", n, p, <<>>, <<>>, r))
  BY <1>8, <1>9, <1>10, RunsOn
<1>12. b \o LineEnd \in Seq(Word)
  BY <1>9, ConcatProperties
<1>13. ReadLine(b \o LineEnd) = State("sample", n, p, <<>>, <<>>, r)
  BY <1>11, <1>12, ReadLineRuns
<1>14. Line(f, m, suffix, extra, value) = b \o LineEnd
  <2>1. Line(f, m, suffix, extra, value) = (h \o v) \o (t \o LineEnd)
    BY <1>1, <1>3, Zenon DEF Line, WriteTail, Stamp, LineEnd
  <2>2. h \in Seq(Word) /\ v \in Seq(Word) /\ t \in Seq(Word) /\ r \in Seq(Word)
    BY <1>2, <1>4, <1>6, Words, SeqMonotonic
  <2>3. h \o v \in Seq(Word)
    BY <2>2, ConcatProperties
  <2>4. (h \o v) \o (t \o LineEnd) = ((h \o v) \o t) \o LineEnd
    <3>1. PICK x : x = h \o v
      OBVIOUS
    <3>2. x \in Seq(Word)
      BY <2>3, <3>1
    <3>3. (x \o t) \o LineEnd = x \o (t \o LineEnd)
      <4>1. x \in Seq(Word) /\ t \in Seq(Word) /\ LineEnd \in Seq(Word)
        BY <1>9, <2>2, <3>2
      <4> QED BY <4>1, WordsAssociate
    <3> QED BY <3>1, <3>3
  <2>5. (h \o v) \o t = h \o (v \o t)
    <3>1. h \in Seq(Word) /\ v \in Seq(Word) /\ t \in Seq(Word)
      BY <2>2
    <3> QED BY <3>1, WordsAssociate
  <2> QED BY <1>5, <1>7, <2>1, <2>4, <2>5
<1>15. IsLine(b \o LineEnd, State("sample", n, p, <<>>, <<>>, r))
  BY <1>8, <1>13 DEF IsLine
<1> QED BY <1>1, <1>3, <1>5, <1>14, <1>15

\* A line about a family is read as a comment.
LEMMA CommentLine ==
  ASSUME NEW word \in Plain, NEW name \in Seq(Plain), NEW text \in Plain
  PROVE  IsLine(<<"#", word>> \o name \o <<text, "\n">>,
                State("comment", <<>>, <<>>, <<>>, <<>>, <<>>))
<1>1. PICK a, b, e : a = "#" /\ b = <<a, word>> /\ e = "\n"
  OBVIOUS
<1>2. a \in Plain /\ e \in Word /\ word \in Word /\ text \in Word
  BY <1>1, Zenon DEF Plain, Word
<1>3. PICK q : q = State("comment", <<>>, <<>>, <<>>, <<>>, <<>>)
  OBVIOUS
<1>4. PICK sa, sw, st, se : sa = <<a>> /\ sw = <<word>> /\ st = <<text>> /\ se = <<e>>
  OBVIOUS
<1>5. /\ b \in Seq(Plain) /\ st \in Seq(Plain) /\ sa \o sw = b /\ st \o se = <<text, e>>
      /\ sa \in Seq(Word) /\ sw \in Seq(Word) /\ st \in Seq(Word) /\ se \in Seq(Word)
  <2>1. b \in Seq(Plain) /\ sa \o sw = b
    BY <1>1, <1>2, <1>4, Few
  <2>2. sa \in Seq(Word) /\ sw \in Seq(Word)
    BY <1>2, <1>4, Words, Few
  <2>3. st \in Seq(Word) /\ se \in Seq(Word) /\ st \o se = <<text, e>>
    BY <1>2, <1>4, Few
  <2>4. st \in Seq(Plain)
    BY <1>4, Few
  <2> QED BY <2>1, <2>2, <2>3, <2>4
<1>6. PICK x, y, z : x = b \o name /\ y = sw \o name /\ z = st \o se
  OBVIOUS
<1>7. x \in Seq(Plain) /\ x \in Seq(Word) /\ y \in Seq(Word) /\ z \in Seq(Word)
      /\ name \in Seq(Word)
  <2>1. x \in Seq(Plain)
    BY <1>5, <1>6, ConcatProperties
  <2>2. x \in Seq(Word) /\ name \in Seq(Word)
    BY <2>1, Words, SeqMonotonic
  <2> QED BY <1>5, <1>6, <2>1, <2>2, ConcatProperties
<1>8. PICK c, d : c = x \o st /\ d = y \o z
  OBVIOUS
<1>9. c \in Seq(Plain) /\ d \in Seq(Word)
  BY <1>5, <1>7, <1>8, ConcatProperties
<1>10. x \o z = c \o se
  <2>1. x \in Seq(Word) /\ st \in Seq(Word) /\ se \in Seq(Word)
    BY <1>5, <1>7
  <2>2. (x \o st) \o se = x \o (st \o se)
    BY <2>1, WordsAssociate
  <2> QED BY <1>6, <1>8, <2>2
<1>11. x \o z = sa \o d
  <2>1. (sa \o sw) \o name = sa \o (sw \o name)
    <3>1. sa \in Seq(Word) /\ sw \in Seq(Word) /\ name \in Seq(Word)
      BY <1>5, <1>7
    <3> QED BY <3>1, WordsAssociate
  <2>2. (sa \o y) \o z = sa \o (y \o z)
    <3>1. sa \in Seq(Word) /\ y \in Seq(Word) /\ z \in Seq(Word)
      BY <1>5, <1>7
    <3> QED BY <3>1, WordsAssociate
  <2>3. x = sa \o y
    BY <1>5, <1>6, <2>1
  <2> QED BY <1>8, <2>2, <2>3
<1>12. Runs(NothingRead, sa, q)
  <2>1. NothingRead = State("name", <<>>, <<>>, <<>>, <<>>, <<>>)
    BY DEF NothingRead, State
  <2>2. Runs(State("name", <<>>, <<>>, <<>>, <<>>, <<>>), Sharp, q)
    BY <1>3, SeparatorsRun
  <2> QED BY <1>1, <1>4, <2>1, <2>2 DEF Sharp
<1>13. Runs(NothingRead, sa \o d, q)
  <2>1. Runs(q, d, q)
    BY <1>3, <1>9, CommentRuns
  <2> QED BY <1>5, <1>9, <1>12, <2>1, RunsOn
<1>14. sa \o d \in Seq(Word)
  BY <1>5, <1>9, ConcatProperties
<1>15. ReadLine(sa \o d) = q
  BY <1>13, <1>14, ReadLineRuns
<1>16. IsLine(c \o se, q)
  BY <1>1, <1>4, <1>9, <1>10, <1>11, <1>15 DEF IsLine, LineEnd
<1>17. <<"#", word>> \o name \o <<text, "\n">> = x \o z
  BY <1>1, <1>5, <1>6, Zenon
<1> QED BY <1>3, <1>10, <1>16, <1>17

-----------------------------------------------------------------------------
\* Text: where lines begin and end.

\* Where lines begin and end, and what is read of the line that begins at i.
Begins(t) == {i \in DOMAIN t : i = 1 \/ t[i - 1] = "\n"}
EndOf(t, i) == Min({j \in i .. Len(t) : t[j] = "\n"})
ReadAt(t, i) == ReadLine(SubSeq(t, i, EndOf(t, i)))

\* A text has no line without its end.
Ended(t) == t \in Seq(Word) /\ (t = <<>> \/ t[Len(t)] = "\n")

\* A line ends at the first end of a line.
Ends(t, i, e) == e \in i .. Len(t) /\ t[e] = "\n" /\ \A j \in i .. e - 1 : t[j] # "\n"

\* Such an end is the one that is found.
LEMMA EndFound ==
  ASSUME NEW t \in Seq(Word), NEW i \in 1 .. Len(t), NEW e, Ends(t, i, e)
  PROVE  EndOf(t, i) = e
<1>1. PICK T : T = {j \in i .. Len(t) : t[j] = "\n"}
  OBVIOUS
<1>2. e \in T /\ \A y \in T : e <= y
  <2>1. e \in T
    BY <1>1 DEF Ends
  <2>2. ASSUME NEW y \in T PROVE e <= y
    <3>1. y \in i .. Len(t) /\ t[y] = "\n" /\ e \in i .. Len(t)
      BY <1>1, <2>2 DEF Ends
    <3> QED BY <3>1 DEF Ends
  <2> QED BY <2>1, <2>2
<1>3. \A x \in T : (\A y \in T : x <= y) => x = e
  <2> SUFFICES ASSUME NEW x \in T, \A y \in T : x <= y PROVE x = e
    OBVIOUS
  <2>1. x <= e /\ e <= x /\ x \in Int /\ e \in Int
    BY <1>1, <1>2
  <2> QED BY <2>1
<1>4. Min(T) = e
  BY <1>2, <1>3 DEF Min
<1> QED BY <1>1, <1>4 DEF EndOf

\* In a text each line has one.
LEMMA EndExists ==
  ASSUME NEW t, Ended(t), NEW i \in 1 .. Len(t)
  PROVE  \E e \in Nat : Ends(t, i, e)
<1>1. t \in Seq(Word) /\ Len(t) \in Nat /\ t[Len(t)] = "\n"
  <2>1. t \in Seq(Word) /\ Len(t) \in Nat
    BY DEF Ended
  <2>2. t # <<>>
    BY <2>1
  <2> QED BY <2>1, <2>2 DEF Ended
<1>2. PICK T : T = {j \in i .. Len(t) : t[j] = "\n"}
  OBVIOUS
<1>3. T \in SUBSET Nat /\ T # {}
  <2>1. Len(t) \in T
    BY <1>1, <1>2
  <2> QED BY <1>1, <1>2, <2>1
<1>4. PICK e \in T : \A y \in T : e <= y
  BY <1>3, LeastNatural
<1>5. e \in i .. Len(t) /\ t[e] = "\n" /\ e \in Nat
  BY <1>2, <1>3, <1>4
<1>6. ASSUME NEW j \in i .. e - 1, t[j] = "\n" PROVE FALSE
  <2>1. j \in T /\ j < e
    BY <1>1, <1>2, <1>5, <1>6
  <2> QED BY <1>4, <1>5, <2>1
<1> QED BY <1>5, <1>6 DEF Ends

\* The lines of v are those of t, and after a characters those of u.
HasLines(v, t, a, u) ==
  /\ Ended(v)
  /\ \A i \in Begins(t) : i \in Begins(v) /\ ReadAt(v, i) = ReadAt(t, i)
  /\ \A i \in Begins(u) : a + i \in Begins(v) /\ ReadAt(v, a + i) = ReadAt(u, i)
  /\ \A i \in Begins(v) : i \in Begins(t) \/ \E j \in Begins(u) : i = a + j

\* The lines of two texts that are joined are the lines of both.
LEMMA LinesJoin ==
  ASSUME NEW t, Ended(t), NEW u, Ended(u), NEW a, a = Len(t), NEW v, v = t \o u
  PROVE  HasLines(v, t, a, u)
<1>1. /\ t \in Seq(Word) /\ u \in Seq(Word) /\ v \in Seq(Word) /\ a \in Nat
      /\ DOMAIN t = 1 .. a
  BY LenProperties, ConcatProperties DEF Ended
<1>2. PICK b \in Nat : b = Len(u) /\ DOMAIN u = 1 .. b /\ Len(v) = a + b /\ DOMAIN v = 1 .. a + b
  <2>1. Len(u) \in Nat /\ DOMAIN u = 1 .. Len(u) /\ Len(v) = a + Len(u) /\ DOMAIN v = 1 .. Len(v)
    BY <1>1, LenProperties, ConcatProperties
  <2> QED BY <2>1
<1>3. /\ \A i \in 1 .. a : i \in 1 .. a + b /\ v[i] = t[i]
      /\ \A i \in 1 .. b : a + i \in 1 .. a + b /\ v[a + i] = u[i]
  <2>1. \A i \in 1 .. a + b : v[i] = IF i <= a THEN t[i] ELSE u[i - a]
    BY <1>1, <1>2, ConcatProperties
  <2>2. ASSUME NEW i \in 1 .. a PROVE i \in 1 .. a + b /\ v[i] = t[i]
    BY <1>1, <2>1
  <2>3. ASSUME NEW i \in 1 .. b PROVE a + i \in 1 .. a + b /\ v[a + i] = u[i]
    <3>1. a + i \in 1 .. a + b /\ ~ (a + i <= a) /\ (a + i) - a = i
      BY <1>1, <1>2
    <3>2. v[a + i] = IF a + i <= a THEN t[a + i] ELSE u[(a + i) - a]
      BY <2>1, <3>1
    <3> QED BY <3>1, <3>2
  <2> QED BY <2>2, <2>3
<1>4. a # 0 => t[a] = "\n"
  <2>1. a # 0 => t # <<>>
    BY <1>1
  <2> QED BY <2>1 DEF Ended
<1>5. b # 0 => u[b] = "\n"
  <2>1. b # 0 => u # <<>>
    BY <1>1, <1>2
  <2> QED BY <1>2, <2>1 DEF Ended
<1>6. Ended(v)
  <2>1. CASE b # 0
    <3>1. v[a + b] = "\n"
      <4>1. b \in 1 .. b
        BY <2>1
      <4>2. v[a + b] = u[b]
        BY <1>3, <4>1
      <4> QED BY <1>5, <2>1, <4>2
    <3> QED BY <1>1, <1>2, <3>1 DEF Ended
  <2>2. CASE b = 0 /\ a # 0
    <3>1. v[a + b] = "\n"
      BY <1>1, <1>3, <1>4, <2>2
    <3> QED BY <1>1, <1>2, <3>1 DEF Ended
  <2>3. CASE b = 0 /\ a = 0
    <3>1. v = <<>>
      BY <1>1, <1>2, <2>3, EmptySeq
    <3> QED BY <1>1, <3>1 DEF Ended
  <2> QED BY <2>1, <2>2, <2>3
<1>7. ASSUME NEW i \in Begins(t)
      PROVE  i \in Begins(v) /\ ReadAt(v, i) = ReadAt(t, i)
  <2>1. i \in 1 .. a /\ (i = 1 \/ (i - 1 \in 1 .. a /\ t[i - 1] = "\n"))
    BY <1>1 DEF Begins
  <2>2. i \in Begins(v)
    BY <1>2, <1>3, <2>1 DEF Begins
  <2>3. PICK e \in Nat : Ends(t, i, e)
    BY <2>1, EndExists
  <2>4. e \in i .. a /\ t[e] = "\n" /\ \A j \in i .. e - 1 : t[j] # "\n"
    BY <2>3 DEF Ends
  <2>5. Ends(v, i, e)
    <3>1. e \in i .. a + b /\ v[e] = "\n"
      BY <1>1, <1>3, <2>1, <2>4
    <3>2. ASSUME NEW j \in i .. e - 1 PROVE v[j] # "\n"
      <4>1. j \in 1 .. a
        BY <1>1, <2>1, <2>4
      <4> QED BY <1>3, <2>4, <4>1
    <3> QED BY <1>2, <3>1, <3>2 DEF Ends
  <2>6. EndOf(t, i) = e /\ EndOf(v, i) = e
    BY <1>1, <1>2, <1>3, <2>1, <2>3, <2>5, EndFound
  <2>7. SubSeq(v, i, e) = SubSeq(t, i, e)
    BY <1>1, <2>1, <2>4, SubSeqOfConcat1
  <2> QED BY <2>1, <2>2, <2>6, <2>7 DEF ReadAt
<1>8. ASSUME NEW i \in Begins(u)
      PROVE  a + i \in Begins(v) /\ ReadAt(v, a + i) = ReadAt(u, i)
  <2>1. i \in 1 .. b /\ (i = 1 \/ (i - 1 \in 1 .. b /\ u[i - 1] = "\n"))
    BY <1>2 DEF Begins
  <2>2. a + i \in Begins(v)
    <3>1. a + i \in 1 .. a + b
      BY <1>3, <2>1
    <3>2. CASE i # 1
      <4>1. PICK k : k = i - 1
        OBVIOUS
      <4>2. k \in 1 .. b /\ u[k] = "\n" /\ a + k = (a + i) - 1
        BY <1>1, <2>1, <3>2, <4>1
      <4>3. v[(a + i) - 1] = "\n"
        BY <1>3, <4>2
      <4> QED BY <1>2, <3>1, <4>3 DEF Begins
    <3>3. CASE i = 1
      <4>1. (a + i) - 1 = a
        BY <1>1, <3>3
      <4>2. a # 0 => v[a] = "\n"
        BY <1>1, <1>3, <1>4
      <4>3. a = 0 => a + i = 1
        BY <3>3
      <4> QED BY <1>2, <3>1, <4>1, <4>2, <4>3 DEF Begins
    <3> QED BY <3>2, <3>3
  <2>3. PICK e \in Nat : Ends(u, i, e)
    BY <1>2, <2>1, EndExists
  <2>4. e \in i .. b /\ u[e] = "\n" /\ \A j \in i .. e - 1 : u[j] # "\n"
    BY <1>2, <2>3 DEF Ends
  <2>5. Ends(v, a + i, a + e)
    <3>1. a + e \in (a + i) .. a + b /\ v[a + e] = "\n"
      <4>1. e \in 1 .. b /\ a + e \in (a + i) .. a + b
        BY <1>1, <2>1, <2>4
      <4>2. v[a + e] = u[e]
        BY <1>3, <4>1
      <4> QED BY <2>4, <4>1, <4>2
    <3>2. ASSUME NEW j \in (a + i) .. (a + e) - 1 PROVE v[j] # "\n"
      <4>1. a \in Nat /\ b \in Nat /\ i \in 1 .. b /\ e \in i .. b
        BY <1>1, <2>1, <2>4
      <4>2. PICK k \in Int : k = j - a
        BY <4>1
      <4>3. k \in i .. e - 1 /\ k \in 1 .. b /\ a + k = j
        BY <4>1, <4>2
      <4>4. v[a + k] = u[k]
        BY <1>3, <4>3
      <4> QED BY <2>4, <4>3, <4>4
    <3> QED BY <1>2, <3>1, <3>2 DEF Ends
  <2>6. EndOf(u, i) = e /\ EndOf(v, a + i) = a + e
    <3>1. a + i \in 1 .. Len(v) /\ i \in 1 .. Len(u)
      BY <1>2, <1>3, <2>1
    <3>2. EndOf(u, i) = e
      BY <1>1, <2>3, <3>1, EndFound
    <3>3. EndOf(v, a + i) = a + e
      BY <1>1, <2>5, <3>1, EndFound
    <3> QED BY <3>2, <3>3
  <2>7. SubSeq(v, a + i, a + e) = SubSeq(u, i, e)
    <3>1. PICK m, n : m = a + i /\ n = a + e
      OBVIOUS
    <3>2. m \in Len(t) + 1 .. Len(t) + Len(u) /\ n \in Len(t) + 1 .. Len(t) + Len(u)
      BY <1>1, <1>2, <2>1, <2>4, <3>1
    <3>3. SubSeq(t \o u, m, n) = SubSeq(u, m - Len(t), n - Len(t))
      BY <1>1, <3>2, SubSeqOfConcat2
    <3>4. m - Len(t) = i /\ n - Len(t) = e
      BY <1>1, <2>1, <2>4, <3>1
    <3>5. SubSeq(v, m, n) = SubSeq(u, i, e)
      BY <3>3, <3>4
    <3> QED BY <3>1, <3>5
  <2>8. ReadAt(v, a + i) = ReadAt(u, i)
    <3>1. PICK m, n : m = a + i /\ n = a + e
      OBVIOUS
    <3>2. EndOf(v, m) = n /\ SubSeq(v, m, n) = SubSeq(u, i, e) /\ EndOf(u, i) = e
      BY <2>6, <2>7, <3>1
    <3>3. ReadAt(v, m) = ReadAt(u, i)
      BY <3>2 DEF ReadAt
    <3> QED BY <3>1, <3>3
  <2> QED BY <2>2, <2>8
<1>9. ASSUME NEW i \in Begins(v) PROVE i \in Begins(t) \/ \E j \in Begins(u) : i = a + j
  <2>1. i \in 1 .. a + b /\ (i = 1 \/ v[i - 1] = "\n")
    BY <1>2 DEF Begins
  <2>2. CASE i <= a
    <3>1. i \in 1 .. a /\ (i = 1 \/ i - 1 \in 1 .. a)
      BY <1>1, <2>1, <2>2
    <3> QED BY <1>1, <1>3, <2>1, <3>1 DEF Begins
  <2>3. CASE i > a
    <3>1. PICK j : j = i - a
      OBVIOUS
    <3>2. j \in 1 .. b /\ i = a + j /\ (j = 1 \/ (j - 1 \in 1 .. b /\ a + (j - 1) = i - 1 /\ i # 1))
      BY <1>1, <2>1, <2>3, <3>1
    <3>3. j = 1 \/ u[j - 1] = "\n"
      BY <1>3, <2>1, <3>2
    <3> QED BY <1>2, <3>2, <3>3 DEF Begins
  <2> QED BY <1>1, <2>1, <2>2, <2>3
<1> QED
  BY <1>6, <1>7, <1>8, <1>9 DEF HasLines

\* A line is a text with one line.
LEMMA OneLine ==
  ASSUME NEW t, NEW q, IsLine(t, q)
  PROVE  Ended(t) /\ Begins(t) = {1} /\ ReadAt(t, 1) = q
<1>1. PICK b \in Seq(Plain) : t = b \o LineEnd
  BY DEF IsLine
<1>2. PICK e : e = "\n"
  OBVIOUS
<1>3. LineEnd \in Seq(Word) /\ Len(LineEnd) = 1 /\ LineEnd[1] = e /\ e \notin Plain
  <2>1. e \in Word
    BY <1>2, Zenon DEF Word
  <2>2. LineEnd = <<e>>
    BY <1>2, Zenon DEF LineEnd
  <2>3. e \notin Plain
    BY <1>2, Zenon DEF Plain
  <2> QED BY <2>1, <2>2, <2>3
<1>4. PICK n \in Nat : n = Len(b)
  BY LenProperties
<1>5. b \in Seq(Word)
  BY Words, SeqMonotonic
<1>6. t \in Seq(Word) /\ Len(t) = n + 1
  <2>1. t \in Seq(Word) /\ Len(t) = Len(b) + Len(LineEnd)
    BY <1>1, <1>3, <1>5, ConcatProperties
  <2> QED BY <1>3, <1>4, <2>1
<1>7. t[n + 1] = e /\ \A i \in 1 .. n : t[i] # e
  <2>1. \A i \in 1 .. Len(b) + Len(LineEnd) :
          t[i] = IF i <= Len(b) THEN b[i] ELSE LineEnd[i - Len(b)]
    BY <1>1, <1>3, <1>5, ConcatProperties
  <2>2. n + 1 \in 1 .. Len(b) + Len(LineEnd) /\ ~ (n + 1 <= n) /\ (n + 1) - n = 1
    BY <1>3, <1>4
  <2>3. t[n + 1] = e
    BY <1>3, <1>4, <2>1, <2>2
  <2>4. ASSUME NEW i \in 1 .. n PROVE t[i] # e
    <3>1. b[i] \in Plain
      BY <1>4, ElementOfSeq
    <3>2. i \in 1 .. Len(b) + Len(LineEnd) /\ i <= Len(b)
      BY <1>3, <1>4
    <3>3. t[i] = b[i]
      BY <2>1, <3>2
    <3> QED BY <1>3, <3>1, <3>3
  <2> QED BY <2>3, <2>4
<1>8. Ended(t)
  <2>1. t[Len(t)] = "\n"
    BY <1>2, <1>6, <1>7
  <2> QED BY <1>6, <2>1 DEF Ended
<1>9. Begins(t) = {1}
  <2>1. DOMAIN t = 1 .. n + 1
    BY <1>6, LenProperties
  <2>2. \A i \in 1 .. n + 1 : i = 1 \/ i - 1 \in 1 .. n
    OBVIOUS
  <2>3. 1 \in 1 .. n + 1
    OBVIOUS
  <2> QED BY <1>2, <1>7, <2>1, <2>2, <2>3 DEF Begins
<1>10. EndOf(t, 1) = n + 1
  <2>1. n + 1 \in 1 .. Len(t) /\ 1 \in 1 .. Len(t) /\ (n + 1) - 1 = n
    BY <1>6
  <2>2. Ends(t, 1, n + 1)
    BY <1>2, <1>7, <2>1 DEF Ends
  <2> QED BY <1>6, <2>1, <2>2, EndFound
<1>11. SubSeq(t, 1, n + 1) = t
  <2>1. SubSeq(t, 1, Len(t)) = t
    BY <1>6, SubSeqFull
  <2> QED BY <1>6, <2>1
<1>12. ReadAt(t, 1) = q
  BY <1>10, <1>11 DEF ReadAt, IsLine
<1> QED BY <1>8, <1>9, <1>12

-----------------------------------------------------------------------------
\* Text: texts that say samples, each series once, and texts that are joined.

\* What a sample line says, the names of its labels, and whether it is well read.
SampleOf(x) == [name |-> x.name, labels |-> ToSet(x.labels), rest |-> x.rest]
NamesOf(x) == {x.labels[i][1] : i \in DOMAIN x.labels}
IsSample(x) == x.at = "sample"
WellRead(x) ==
  /\ IsSample(x) \/ x.at = "comment"
  /\ IsSample(x) => Cardinality(NamesOf(x)) = Len(x.labels)

SameSeries(q, r) == q.name = r.name /\ q.labels = r.labels

\* A text is well formed and says the samples of Q.
WrittenAs(t, Q) ==
  /\ Ended(t)
  /\ \A i \in Begins(t) : /\ WellRead(ReadAt(t, i))
                          /\ IsSample(ReadAt(t, i)) => SampleOf(ReadAt(t, i)) \in Q
  /\ \A q \in Q : \E i \in Begins(t) : IsSample(ReadAt(t, i)) /\ q = SampleOf(ReadAt(t, i))

\* It has no series twice.
Unique(t) ==
  \A i, j \in Begins(t) :
    /\ IsSample(ReadAt(t, i)) /\ IsSample(ReadAt(t, j))
    /\ SameSeries(SampleOf(ReadAt(t, i)), SampleOf(ReadAt(t, j)))
    => i = j

\* Samples of different series.
OtherSeries(Q, R) == \A q \in Q : \A r \in R : ~ SameSeries(q, r)

\* Two texts say what each of them says.
LEMMA WrittenJoin ==
  ASSUME NEW t, NEW u, NEW Q, NEW R, WrittenAs(t, Q), WrittenAs(u, R)
  PROVE  WrittenAs(t \o u, Q \cup R)
<1>1. Ended(t) /\ Ended(u)
  BY DEF WrittenAs
<1>2. PICK a, v : a = Len(t) /\ v = t \o u
  OBVIOUS
<1>3. HasLines(v, t, a, u)
  BY <1>1, <1>2, LinesJoin
<1>4. ASSUME NEW i \in Begins(v)
      PROVE  WellRead(ReadAt(v, i)) /\ (IsSample(ReadAt(v, i)) => SampleOf(ReadAt(v, i)) \in Q \cup R)
  <2>1. CASE i \in Begins(t)
    BY <1>3, <2>1 DEF HasLines, WrittenAs
  <2>2. CASE \E j \in Begins(u) : i = a + j
    <3>1. PICK j \in Begins(u) : i = a + j
      BY <2>2
    <3>2. ReadAt(v, i) = ReadAt(u, j)
      BY <1>3, <3>1 DEF HasLines
    <3> QED BY <3>2 DEF WrittenAs
  <2> QED BY <1>3, <2>1, <2>2 DEF HasLines
<1>5. ASSUME NEW q \in Q \cup R
      PROVE  \E i \in Begins(v) : IsSample(ReadAt(v, i)) /\ q = SampleOf(ReadAt(v, i))
  <2>1. CASE q \in Q
    <3>1. PICK i \in Begins(t) : IsSample(ReadAt(t, i)) /\ q = SampleOf(ReadAt(t, i))
      BY <2>1 DEF WrittenAs
    <3> QED BY <1>3, <3>1 DEF HasLines
  <2>2. CASE q \in R
    <3>1. PICK i \in Begins(u) : IsSample(ReadAt(u, i)) /\ q = SampleOf(ReadAt(u, i))
      BY <2>2 DEF WrittenAs
    <3>2. PICK k : k = a + i
      OBVIOUS
    <3>3. k \in Begins(v) /\ ReadAt(v, k) = ReadAt(u, i)
      BY <1>3, <3>2 DEF HasLines
    <3> QED BY <3>1, <3>3
  <2> QED BY <2>1, <2>2
<1>6. WrittenAs(v, Q \cup R)
  BY <1>3, <1>4, <1>5 DEF HasLines, WrittenAs
<1> QED BY <1>2, <1>6

\* No series is twice in two texts of different series.
LEMMA UniqueJoin ==
  ASSUME NEW t, NEW u, NEW Q, NEW R, WrittenAs(t, Q), WrittenAs(u, R), Unique(t), Unique(u),
         OtherSeries(Q, R)
  PROVE  Unique(t \o u)
<1>1. Ended(t) /\ Ended(u)
  BY DEF WrittenAs
<1>2. PICK a, v : a = Len(t) /\ v = t \o u
  OBVIOUS
<1>3. HasLines(v, t, a, u)
  BY <1>1, <1>2, LinesJoin
<1>4. ASSUME NEW i \in Begins(t), IsSample(ReadAt(t, i)) PROVE SampleOf(ReadAt(t, i)) \in Q
  BY <1>4 DEF WrittenAs
<1>5. ASSUME NEW i \in Begins(u), IsSample(ReadAt(u, i)) PROVE SampleOf(ReadAt(u, i)) \in R
  BY <1>5 DEF WrittenAs
<1>6. ASSUME NEW i \in Begins(v), NEW j \in Begins(v),
             IsSample(ReadAt(v, i)), IsSample(ReadAt(v, j)),
             SameSeries(SampleOf(ReadAt(v, i)), SampleOf(ReadAt(v, j)))
      PROVE  i = j
  <2>1. CASE i \in Begins(t) /\ j \in Begins(t)
    <3>1. ReadAt(v, i) = ReadAt(t, i) /\ ReadAt(v, j) = ReadAt(t, j)
      BY <1>3, <2>1 DEF HasLines
    <3> QED BY <1>6, <2>1, <3>1 DEF Unique
  <2>2. ASSUME NEW k \in Begins(u), i = a + k, j \in Begins(t) PROVE FALSE
    <3>1. ReadAt(v, i) = ReadAt(u, k) /\ ReadAt(v, j) = ReadAt(t, j)
      BY <1>3, <2>2 DEF HasLines
    <3>2. SampleOf(ReadAt(v, i)) \in R /\ SampleOf(ReadAt(v, j)) \in Q
      BY <1>4, <1>5, <1>6, <2>2, <3>1
    <3> QED BY <1>6, <3>2 DEF OtherSeries, SameSeries
  <2>3. ASSUME NEW k \in Begins(u), j = a + k, i \in Begins(t) PROVE FALSE
    <3>1. ReadAt(v, j) = ReadAt(u, k) /\ ReadAt(v, i) = ReadAt(t, i)
      BY <1>3, <2>3 DEF HasLines
    <3>2. SampleOf(ReadAt(v, j)) \in R /\ SampleOf(ReadAt(v, i)) \in Q
      BY <1>4, <1>5, <1>6, <2>3, <3>1
    <3> QED BY <1>6, <3>2 DEF OtherSeries, SameSeries
  <2>4. ASSUME NEW k \in Begins(u), i = a + k, NEW l \in Begins(u), j = a + l PROVE i = j
    <3>1. ReadAt(v, i) = ReadAt(u, k) /\ ReadAt(v, j) = ReadAt(u, l)
      BY <1>3, <2>4 DEF HasLines
    <3>2. k = l
      BY <1>6, <3>1 DEF Unique
    <3> QED BY <2>4, <3>2
  <2> QED BY <1>3, <2>1, <2>2, <2>3, <2>4 DEF HasLines
<1>7. Unique(v)
  BY <1>6 DEF Unique
<1> QED BY <1>2, <1>7

\* A text without lines says nothing.
LEMMA NothingWritten == WrittenAs(<<>>, {}) /\ Unique(<<>>)
<1>1. Ended(<<>>) /\ Begins(<<>>) = {}
  BY EmptySeq DEF Ended, Begins
<1> QED BY <1>1 DEF WrittenAs, Unique

\* A line says one sample, or nothing.
LEMMA LineWritten ==
  ASSUME NEW t, NEW q, IsLine(t, q), WellRead(q)
  PROVE  WrittenAs(t, IF IsSample(q) THEN {SampleOf(q)} ELSE {}) /\ Unique(t)
<1>1. Ended(t) /\ Begins(t) = {1} /\ ReadAt(t, 1) = q
  BY OneLine
<1>2. Unique(t)
  BY <1>1 DEF Unique
<1> QED BY <1>1, <1>2 DEF WrittenAs

\* Texts that are joined say what each of them says.
LEMMA WrittenThrough ==
  ASSUME NEW seqs, NEW n \in Nat, n = Len(seqs), seqs \in Seq(Seq(Word)), NEW Q,
         \A i \in 1 .. n : WrittenAs(seqs[i], Q[i]), NEW W, W = UNION {Q[i] : i \in 1 .. n}
  PROVE  /\ WrittenAs(FlattenSeq(seqs), W)
         /\ (/\ \A i \in 1 .. n : Unique(seqs[i])
             /\ \A i, j \in 1 .. n : i < j => OtherSeries(Q[i], Q[j]))
            => Unique(FlattenSeq(seqs))
<1>1. PICK f : Flattening(f, seqs, n, Word)
  BY Flattening_
<1>2. PICK U : U = [m \in 0 .. n |-> UNION {Q[i] : i \in 1 .. m}]
  OBVIOUS
<1>3. U[0] = {} /\ \A m \in 0 .. n - 1 : U[m + 1] = U[m] \cup Q[m + 1]
  <2>1. U[0] = UNION {Q[i] : i \in 1 .. 0}
    BY <1>2
  <2>2. U[0] = {}
    BY <2>1
  <2>3. ASSUME NEW m \in 0 .. n - 1 PROVE U[m + 1] = U[m] \cup Q[m + 1]
    <3>1. U[m] = UNION {Q[i] : i \in 1 .. m} /\ U[m + 1] = UNION {Q[i] : i \in 1 .. m + 1}
      BY <1>2
    <3>2. \A i : i \in 1 .. m + 1 <=> i \in 1 .. m \/ i = m + 1
      OBVIOUS
    <3> QED BY <3>1, <3>2
  <2> QED BY <2>2, <2>3
<1>4. PICK T : T = {m \in Nat : m <= n => WrittenAs(f[m], U[m])}
  OBVIOUS
<1>5. 0 \in T
  BY <1>1, <1>3, <1>4, NothingWritten DEF Flattening
<1>6. ASSUME NEW m \in Nat, m \in T PROVE m + 1 \in T
  <2> SUFFICES ASSUME m + 1 <= n PROVE WrittenAs(f[m + 1], U[m + 1])
    BY <1>4
  <2>1. m + 1 \in 1 .. n /\ m \in 0 .. n - 1 /\ (m + 1) - 1 = m /\ WrittenAs(f[m], U[m])
    BY <1>4, <1>6
  <2>2. f[m + 1] = f[m] \o seqs[m + 1] /\ U[m + 1] = U[m] \cup Q[m + 1]
    BY <1>1, <1>3, <2>1 DEF Flattening
  <2>3. WrittenAs(seqs[m + 1], Q[m + 1])
    BY <2>1
  <2>4. WrittenAs(f[m] \o seqs[m + 1], U[m] \cup Q[m + 1])
    BY <2>1, <2>3, WrittenJoin, Zenon
  <2> QED BY <2>2, <2>4
<1>7. Nat \subseteq T
  BY <1>5, <1>6, Induction
<1>8. \A m \in 0 .. n : WrittenAs(f[m], U[m])
  BY <1>4, <1>7
<1>9. WrittenAs(FlattenSeq(seqs), W)
  <2>1. n \in 0 .. n
    OBVIOUS
  <2>2. U[n] = W /\ WrittenAs(f[n], U[n])
    BY <1>2, <1>8, <2>1
  <2>3. FlattenSeq(seqs) = f[n]
    BY <1>1 DEF Flattening
  <2> QED BY <2>2, <2>3
<1>10. ASSUME \A i \in 1 .. n : Unique(seqs[i]),
              \A i, j \in 1 .. n : i < j => OtherSeries(Q[i], Q[j])
       PROVE  Unique(FlattenSeq(seqs))
  <2>1. PICK T2 : T2 = {m \in Nat : m <= n => Unique(f[m])}
    OBVIOUS
  <2>2. 0 \in T2
    BY <1>1, <2>1, NothingWritten DEF Flattening
  <2>3. ASSUME NEW m \in Nat, m \in T2 PROVE m + 1 \in T2
    <3> SUFFICES ASSUME m + 1 <= n PROVE Unique(f[m + 1])
      BY <2>1
    <3>1. m + 1 \in 1 .. n /\ m \in 0 .. n /\ (m + 1) - 1 = m /\ Unique(f[m])
      BY <2>1, <2>3
    <3>2. f[m + 1] = f[m] \o seqs[m + 1] /\ Unique(seqs[m + 1])
          /\ WrittenAs(seqs[m + 1], Q[m + 1]) /\ WrittenAs(f[m], U[m])
      BY <1>1, <1>8, <1>10, <3>1 DEF Flattening
    <3>3. OtherSeries(U[m], Q[m + 1])
      <4> SUFFICES ASSUME NEW q \in U[m], NEW r \in Q[m + 1] PROVE ~ SameSeries(q, r)
        BY DEF OtherSeries
      <4>1. PICK i \in 1 .. m : q \in Q[i]
        BY <1>2, <3>1
      <4>2. i \in 1 .. n /\ i < m + 1
        BY <3>1
      <4> QED BY <1>10, <3>1, <4>1, <4>2 DEF OtherSeries
    <3> QED BY <3>1, <3>2, <3>3, UniqueJoin
  <2>4. Nat \subseteq T2
    BY <2>2, <2>3, Induction
  <2>5. Unique(f[n])
    BY <2>1, <2>4
  <2> QED BY <1>1, <2>5 DEF Flattening
<1> QED BY <1>9, <1>10

-----------------------------------------------------------------------------
\* Text: what a line of a metric says.

\* The pairs of labels as a set, labels with different names, and what a line says.
PairSet(ls) == {<<ls[i].name, ls[i].value>> : i \in DOMAIN ls}
NamedApart(ls) == \A i, j \in DOMAIN ls : i # j => ls[i].name # ls[j].name
Says(f, m, suffix, extra, value) ==
  [name |-> f.name \o suffix, labels |-> PairSet(m.label) \cup extra,
   rest |-> <<NumberText(value)>> \o Stamp(m)]

\* The pairs of labels with more labels are those of both.
LEMMA PairsOfBoth ==
  ASSUME NEW ls \in Labels, NEW more \in Labels
  PROVE  ls \o more \in Labels /\ ToSet(Pairs(ls \o more)) = PairSet(ls) \cup PairSet(more)
<1>1. PICK R : R = [name : Seq(LabelWord), value : Seq(Word)]
  OBVIOUS
<1>2. ls \in Seq(R) /\ more \in Seq(R)
  BY <1>1 DEF Labels
<1>3. PICK a, b : a \in Nat /\ b \in Nat /\ a = Len(ls) /\ b = Len(more)
                  /\ DOMAIN ls = 1 .. a /\ DOMAIN more = 1 .. b
  BY <1>2, LenProperties
<1>4. PICK both : both = ls \o more
  OBVIOUS
<1>5. both \in Seq(R) /\ Len(both) = a + b /\ DOMAIN both = 1 .. a + b
  BY <1>2, <1>3, <1>4, ConcatProperties, LenProperties
<1>6. /\ \A i \in 1 .. a : i \in 1 .. a + b /\ both[i] = ls[i]
      /\ \A i \in 1 .. b : a + i \in 1 .. a + b /\ both[a + i] = more[i]
      /\ \A i \in 1 .. a + b : i \in 1 .. a \/ \E j \in 1 .. b : i = a + j
  <2>1. \A i \in 1 .. a + b : both[i] = IF i <= a THEN ls[i] ELSE more[i - a]
    BY <1>2, <1>3, <1>4, ConcatProperties
  <2>2. ASSUME NEW i \in 1 .. a PROVE i \in 1 .. a + b /\ both[i] = ls[i]
    BY <1>3, <2>1
  <2>3. ASSUME NEW i \in 1 .. b PROVE a + i \in 1 .. a + b /\ both[a + i] = more[i]
    <3>1. a + i \in 1 .. a + b /\ ~ (a + i <= a) /\ (a + i) - a = i
      BY <1>3
    <3> QED BY <2>1, <3>1
  <2>4. ASSUME NEW i \in 1 .. a + b PROVE i \in 1 .. a \/ \E j \in 1 .. b : i = a + j
    <3>1. ~ (i \in 1 .. a) => i - a \in 1 .. b /\ i = a + (i - a)
      BY <1>3
    <3> QED BY <3>1
  <2> QED BY <2>2, <2>3, <2>4
<1>7. Pairs(both) = [i \in 1 .. a + b |-> <<both[i].name, both[i].value>>]
  BY <1>5 DEF Pairs
<1>8. ToSet(Pairs(both)) = {<<both[i].name, both[i].value>> : i \in 1 .. a + b}
  BY <1>7 DEF ToSet
<1>9. ASSUME NEW x \in ToSet(Pairs(both)) PROVE x \in PairSet(ls) \cup PairSet(more)
  <2>1. PICK i \in 1 .. a + b : x = <<both[i].name, both[i].value>>
    BY <1>8
  <2>2. CASE i \in 1 .. a
    BY <1>3, <1>6, <2>1, <2>2 DEF PairSet
  <2>3. CASE \E j \in 1 .. b : i = a + j
    <3>1. PICK j \in 1 .. b : i = a + j
      BY <2>3
    <3>2. both[i] = more[j]
      BY <1>6, <3>1
    <3> QED BY <1>3, <2>1, <3>2 DEF PairSet
  <2> QED BY <1>6, <2>2, <2>3
<1>10. ASSUME NEW x \in PairSet(ls) PROVE x \in ToSet(Pairs(both))
  BY <1>3, <1>6, <1>8 DEF PairSet
<1>11. ASSUME NEW x \in PairSet(more) PROVE x \in ToSet(Pairs(both))
  <2>1. PICK i \in 1 .. b : x = <<more[i].name, more[i].value>>
    BY <1>3 DEF PairSet
  <2>2. PICK k : k = a + i
    OBVIOUS
  <2>3. k \in 1 .. a + b /\ both[k] = more[i]
    BY <1>6, <2>2
  <2> QED BY <1>8, <2>1, <2>3
<1>12. ToSet(Pairs(both)) = PairSet(ls) \cup PairSet(more)
  BY <1>9, <1>10, <1>11
<1> QED BY <1>1, <1>4, <1>5, <1>12 DEF Labels

\* Labels with different names have as many names.
LEMMA NamesCount ==
  ASSUME NEW ls \in Labels, NamedApart(ls), NEW x, x.labels = Pairs(ls)
  PROVE  Cardinality(NamesOf(x)) = Len(x.labels)
<1>1. PICK n \in Nat : n = Len(ls) /\ DOMAIN ls = 1 .. n
  BY LenProperties DEF Labels
<1>2. PICK p : p = Pairs(ls)
  OBVIOUS
<1>3. Len(p) = n /\ DOMAIN p = 1 .. n /\ \A i \in 1 .. n : p[i][1] = ls[i].name
  <2>1. p \in Seq(Seq(LabelWord) \X Seq(Word)) /\ Len(p) = n
    BY <1>1, <1>2, PairsType
  <2>2. DOMAIN p = 1 .. n
    BY <2>1, LenProperties
  <2>3. \A i \in 1 .. n : p[i] = <<ls[i].name, ls[i].value>>
    BY <1>1, <1>2, PairsType
  <2> QED BY <2>1, <2>2, <2>3
<1>4. NamesOf(x) = {ls[i].name : i \in 1 .. n}
  BY <1>2, <1>3 DEF NamesOf
<1>5. PICK g : g = [i \in 1 .. n |-> ls[i].name]
  OBVIOUS
<1>6. g \in Bijection(1 .. n, NamesOf(x))
  <2>1. \A i, j \in 1 .. n : g[i] = g[j] => i = j
    BY <1>1, <1>5 DEF NamedApart
  <2>2. g \in [1 .. n -> NamesOf(x)]
    BY <1>4, <1>5
  <2>3. \A y \in NamesOf(x) : \E i \in 1 .. n : g[i] = y
    BY <1>4, <1>5
  <2> QED BY <2>1, <2>2, <2>3 DEF Bijection, Injection, Surjection, IsInjective
<1>7. ExistsBijection(1 .. n, NamesOf(x))
  BY <1>6 DEF ExistsBijection
<1>8. IsFiniteSet(1 .. n) /\ Cardinality(1 .. n) = n
  <2>1. 1 \in Int /\ n \in Int
    OBVIOUS
  <2> QED BY <2>1, FS_Interval
<1>9. Cardinality(NamesOf(x)) = n
  BY <1>7, <1>8, FS_Bijection
<1> QED BY <1>2, <1>3, <1>9

\* What a line of a metric says.
LEMMA LineSays ==
  ASSUME NEW f, NEW m, NEW suffix, NEW extra \in Labels, NEW value \in Doubles,
         f.name \in Seq(NameWord), suffix \in Seq(NameWord), m.label \in Labels,
         m.timestamp \in Timestamps, NamedApart(m.label \o extra)
  PROVE  LET t == Line(f, m, suffix, extra, value)
         IN t \in Seq(Word) /\ Unique(t)
            /\ WrittenAs(t, {Says(f, m, suffix, PairSet(extra), value)})
<1>1. PICK t : t = Line(f, m, suffix, extra, value)
  OBVIOUS
<1>2. PICK ls, n, r : ls = m.label \o extra /\ n = f.name \o suffix
                      /\ r = <<NumberText(value)>> \o Stamp(m)
  OBVIOUS
<1>3. ls \in Labels /\ ToSet(Pairs(ls)) = PairSet(m.label) \cup PairSet(extra)
  BY <1>2, PairsOfBoth
<1>4. PICK q : q = State("sample", n, Pairs(ls), <<>>, <<>>, r)
  OBVIOUS
<1>5. IsLine(t, q)
  BY <1>1, <1>2, <1>3, <1>4, LineRuns
<1>6. q.at = "sample" /\ q.name = n /\ q.labels = Pairs(ls) /\ q.rest = r
  BY <1>4 DEF State
<1>7. Cardinality(NamesOf(q)) = Len(q.labels)
  BY <1>2, <1>3, <1>6, NamesCount
<1>8. IsSample(q) /\ WellRead(q)
  BY <1>6, <1>7 DEF IsSample, WellRead
<1>9. SampleOf(q) = Says(f, m, suffix, PairSet(extra), value)
  BY <1>2, <1>3, <1>6 DEF SampleOf, Says
<1>10. WrittenAs(t, IF IsSample(q) THEN {SampleOf(q)} ELSE {}) /\ Unique(t)
  BY <1>5, <1>8, LineWritten
<1>11. WrittenAs(t, {Says(f, m, suffix, PairSet(extra), value)}) /\ Unique(t)
  BY <1>8, <1>9, <1>10
<1>12. t \in Seq(Word)
  BY <1>11 DEF WrittenAs, Ended
<1> QED BY <1>1, <1>11, <1>12

-----------------------------------------------------------------------------
\* Text: what can be collected of a metric.

\* What can be collected of a metric whose family has a type.
Point == [at : STRING, value : Doubles]
Collected ==
  [label : Labels, points : Seq(Point), count : Doubles, value : Doubles,
   timestamp : Timestamps]
LabelsOk(type, ls) == NamedApart(ls) /\ \A i \in DOMAIN ls : ls[i].name \notin Reserved(type)
PointsOk(type, m) ==
  /\ \A p \in ToSet(m.points) : p.at \in ToSet(Bounds)
  /\ \A i, j \in DOMAIN m.points :
       i < j => m.points[i].at # m.points[j].at /\ m.points[i].at # "inf"
  /\ \A p \in ToSet(m.points) : p.at = "inf" => type = "histogram" /\ p.value = m.count
MetricOk(type, m) == m \in Collected /\ LabelsOk(type, m.label) /\ PointsOk(type, m)

\* The suffixes of names.
LEMMA SuffixWords ==
  /\ <<"_", "count">> \in Seq(NameWord) /\ <<"_", "sum">> \in Seq(NameWord)
  /\ <<"_", "bucket">> \in Seq(NameWord) /\ <<"_", "info">> \in Seq(NameWord)
  /\ <<>> \in Seq(NameWord)
<1>1. "_" \in NameWord
  BY Zenon DEF NameWord, Plain, Word
<1>2. "count" \in NameWord
  BY Zenon DEF NameWord, Plain, Word
<1>3. "sum" \in NameWord
  BY Zenon DEF NameWord, Plain, Word
<1>4. "bucket" \in NameWord
  BY Zenon DEF NameWord, Plain, Word
<1>5. "info" \in NameWord
  BY Zenon DEF NameWord, Plain, Word
<1>6. ASSUME NEW x \in NameWord PROVE <<"_", x>> \in Seq(NameWord)
  BY <1>1, Few, Zenon
<1>7. <<"_", "count">> \in Seq(NameWord) /\ <<"_", "sum">> \in Seq(NameWord)
  BY <1>2, <1>3, <1>6, Zenon
<1>8. <<"_", "bucket">> \in Seq(NameWord) /\ <<"_", "info">> \in Seq(NameWord)
  BY <1>4, <1>5, <1>6, Zenon
<1>9. <<>> \in Seq(NameWord)
  BY EmptySeq
<1> QED BY <1>7, <1>8, <1>9

\* Different suffixes make different names.
LEMMA SuffixApart ==
  ASSUME NEW name \in Seq(NameWord), NEW s \in Seq(NameWord), NEW t \in Seq(NameWord), s # t
  PROVE  name \o s # name \o t
BY ConcatSimplifications

\* Samples of different suffixes are of different series.
LEMMA SaysApart ==
  ASSUME NEW f, NEW m, f.name \in Seq(NameWord), NEW s \in Seq(NameWord),
         NEW t \in Seq(NameWord), s # t, NEW a, NEW b, NEW v, NEW w
  PROVE  ~ SameSeries(Says(f, m, s, a, v), Says(f, m, t, b, w))
<1>1. f.name \o s # f.name \o t
  BY SuffixApart
<1> QED BY <1>1 DEF SameSeries, Says

\* A label that is added.
LEMMA LabelAdds ==
  ASSUME NEW r \in LabelWord, NEW x \in Word, NEW ls \in Labels, NamedApart(ls),
         \A i \in DOMAIN ls : ls[i].name # <<r>>
  PROVE  /\ <<Label(<<r>>, <<x>>)>> \in Labels
         /\ PairSet(<<Label(<<r>>, <<x>>)>>) = {<<<<r>>, <<x>>>>}
         /\ NamedApart(ls \o <<Label(<<r>>, <<x>>)>>)
<1>1. PICK R : R = [name : Seq(LabelWord), value : Seq(Word)]
  OBVIOUS
<1>2. PICK l : l = Label(<<r>>, <<x>>)
  OBVIOUS
<1>3. l \in R /\ l.name = <<r>> /\ l.value = <<x>>
  <2>1. <<r>> \in Seq(LabelWord) /\ <<x>> \in Seq(Word)
    BY Few
  <2> QED BY <1>1, <1>2, <2>1 DEF Label
<1>4. PICK e : e = <<l>>
  OBVIOUS
<1>5. e \in Seq(R) /\ Len(e) = 1 /\ DOMAIN e = {1} /\ e[1] = l
  BY <1>3, <1>4
<1>6. PairSet(e) = {<<<<r>>, <<x>>>>}
  BY <1>3, <1>5 DEF PairSet
<1>7. PICK n \in Nat : n = Len(ls) /\ DOMAIN ls = 1 .. n /\ ls \in Seq(R)
  BY <1>1, LenProperties DEF Labels
<1>8. PICK all : all = ls \o e
  OBVIOUS
<1>9. DOMAIN all = 1 .. n + 1 /\ all[n + 1] = l /\ \A i \in 1 .. n : all[i] = ls[i]
  <2>1. all \in Seq(R) /\ Len(all) = n + 1
    <3>1. all \in Seq(R) /\ Len(all) = Len(ls) + Len(e)
      <4>1. ls \in Seq(R) /\ e \in Seq(R)
        BY <1>5, <1>7
      <4> QED BY <1>8, <4>1, ConcatProperties
    <3> QED BY <1>5, <1>7, <3>1
  <2>2. DOMAIN all = 1 .. n + 1
    BY <2>1, LenProperties
  <2>3. \A i \in 1 .. Len(ls) + Len(e) : all[i] = IF i <= Len(ls) THEN ls[i] ELSE e[i - Len(ls)]
    BY <1>5, <1>7, <1>8, ConcatProperties
  <2>4. n + 1 \in 1 .. Len(ls) + Len(e) /\ ~ (n + 1 <= n) /\ (n + 1) - n = 1
    BY <1>5, <1>7
  <2>5. all[n + 1] = l
    BY <1>5, <1>7, <2>3, <2>4
  <2>6. \A i \in 1 .. n : all[i] = ls[i]
    BY <1>5, <1>7, <2>3
  <2> QED BY <2>2, <2>5, <2>6
<1>10. NamedApart(all)
  <2> SUFFICES ASSUME NEW i \in 1 .. n + 1, NEW j \in 1 .. n + 1, i # j
               PROVE  all[i].name # all[j].name
    BY <1>9 DEF NamedApart
  <2>1. CASE i = n + 1
    <3>1. j \in 1 .. n
      BY <2>1
    <3> QED BY <1>3, <1>7, <1>9, <2>1, <3>1
  <2>2. CASE j = n + 1
    <3>1. i \in 1 .. n
      BY <2>2
    <3> QED BY <1>3, <1>7, <1>9, <2>2, <3>1
  <2>3. CASE i # n + 1 /\ j # n + 1
    <3>1. i \in 1 .. n /\ j \in 1 .. n
      BY <2>3
    <3> QED BY <1>7, <1>9, <3>1 DEF NamedApart
  <2> QED BY <2>1, <2>2, <2>3
<1> QED BY <1>1, <1>2, <1>4, <1>5, <1>6, <1>8, <1>10 DEF Labels

\* A line without one.
LEMMA PlainLineSays ==
  ASSUME NEW f, NEW type, NEW m, MetricOk(type, m), NEW suffix \in Seq(NameWord),
         NEW value \in Doubles, f.name \in Seq(NameWord)
  PROVE  LET t == Line(f, m, suffix, <<>>, value)
         IN t \in Seq(Word) /\ Unique(t) /\ WrittenAs(t, {Says(f, m, suffix, {}, value)})
<1>1. m.label \in Labels /\ m.timestamp \in Timestamps /\ NamedApart(m.label)
  BY DEF MetricOk, Collected, LabelsOk
<1>2. <<>> \in Labels /\ PairSet(<<>>) = {} /\ m.label \o <<>> = m.label
  <2>1. <<>> \in Labels
    BY EmptySeq DEF Labels
  <2>2. PairSet(<<>>) = {}
    BY DEF PairSet
  <2>3. m.label \o <<>> = m.label
    BY <1>1, ConcatEmptySeq DEF Labels
  <2> QED BY <2>1, <2>2, <2>3
<1>3. NamedApart(m.label \o <<>>)
  BY <1>1, <1>2
<1> QED BY <1>1, <1>2, <1>3, LineSays

\* The line of a point.
LEMMA PointLineSays ==
  ASSUME NEW f, NEW type, NEW m, MetricOk(type, m), NEW suffix \in Seq(NameWord),
         NEW value \in Doubles, f.name \in Seq(NameWord), NEW r \in LabelWord, NEW x \in Word,
         <<r>> \in Reserved(type)
  PROVE  LET t == Line(f, m, suffix, <<Label(<<r>>, <<x>>)>>, value)
         IN t \in Seq(Word) /\ Unique(t)
            /\ WrittenAs(t, {Says(f, m, suffix, {<<<<r>>, <<x>>>>}, value)})
<1>1. m.label \in Labels /\ m.timestamp \in Timestamps /\ NamedApart(m.label)
      /\ \A i \in DOMAIN m.label : m.label[i].name # <<r>>
  BY DEF MetricOk, Collected, LabelsOk
<1>2. PICK e : e = <<Label(<<r>>, <<x>>)>>
  OBVIOUS
<1>3. e \in Labels /\ PairSet(e) = {<<<<r>>, <<x>>>>} /\ NamedApart(m.label \o e)
  BY <1>1, <1>2, LabelAdds
<1>4. LET t == Line(f, m, suffix, e, value)
      IN t \in Seq(Word) /\ Unique(t) /\ WrittenAs(t, {Says(f, m, suffix, PairSet(e), value)})
  BY <1>1, <1>3, LineSays
<1> QED BY <1>2, <1>3, <1>4

-----------------------------------------------------------------------------
\* Text: count, sum and the points.

\* What the lines of a metric say.
TotalsSay(f, m) ==
  {Says(f, m, <<"_", "count">>, {}, m.count), Says(f, m, <<"_", "sum">>, {}, m.value)}
PointSays(f, m, suffix, r, p) ==
  Says(f, m, suffix, {<<<<r>>, <<NumberText(p.at)>>>>}, p.value)
PointsSay(f, m, suffix, r) == {PointSays(f, m, suffix, r, p) : p \in ToSet(m.points)}
PointsMean(f, m, suffix, r, S) == {Says(f, m, suffix, {<<<<r>>, <<p.at>>>>}, p.value) : p \in S}

\* Bounds are written as they are, but for infinity.
LEMMA BoundTexts ==
  ASSUME NEW a \in ToSet(Bounds)
  PROVE  /\ NumberText(a) \in Word /\ a # "+Inf"
         /\ a # "inf" => NumberText(a) = a
         /\ a = "inf" => NumberText(a) = "+Inf"
<1>1. Bounds \in Seq(STRING \ {"nan", "-inf", "+Inf"})
  BY BoundsAssumption
<1>2. PICK S : S = STRING \ {"nan", "-inf", "+Inf"}
  OBVIOUS
<1>3. a \in S
  <2>1. PICK i \in DOMAIN Bounds : a = Bounds[i]
    BY DEF ToSet
  <2>2. DOMAIN Bounds = 1 .. Len(Bounds)
    BY <1>1, <1>2, LenProperties
  <2> QED BY <1>1, <1>2, <2>1, <2>2, ElementOfSeq
<1>4. a \in STRING /\ a # "nan" /\ a # "-inf" /\ a # "+Inf"
  BY <1>2, <1>3, Zenon
<1>5. a # "inf" => NumberText(a) = a
  BY <1>4, Zenon DEF NumberText
<1>6. a = "inf" => NumberText(a) = "+Inf"
  BY <1>4, Zenon DEF NumberText
<1>7. a \in Word /\ "+Inf" \in Word
  BY <1>4, Zenon DEF Word
<1>8. NumberText(a) \in Word
  BY <1>5, <1>6, <1>7
<1> QED BY <1>4, <1>5, <1>6, <1>8

\* So the texts of different bounds differ.
LEMMA BoundsApart ==
  ASSUME NEW a \in ToSet(Bounds), NEW b \in ToSet(Bounds), a # b
  PROVE  NumberText(a) # NumberText(b)
<1>1. /\ a # "+Inf" /\ b # "+Inf"
      /\ a # "inf" => NumberText(a) = a
      /\ a = "inf" => NumberText(a) = "+Inf"
      /\ b # "inf" => NumberText(b) = b
      /\ b = "inf" => NumberText(b) = "+Inf"
  BY BoundTexts
<1> QED BY <1>1

\* Points with different texts are of different series.
LEMMA PointsApart ==
  ASSUME NEW f, NEW type, NEW m, MetricOk(type, m), NEW s, NEW r, <<r>> \in Reserved(type),
         NEW x, NEW y, x # y, NEW v, NEW w
  PROVE  ~ SameSeries(Says(f, m, s, {<<<<r>>, <<x>>>>}, v), Says(f, m, s, {<<<<r>>, <<y>>>>}, w))
<1>1. PICK a, b : a = <<<<r>>, <<x>>>> /\ b = <<<<r>>, <<y>>>>
  OBVIOUS
<1>2. a # b
  <2>1. <<x>> # <<y>>
    OBVIOUS
  <2> QED BY <1>1, <2>1
<1>3. a \notin PairSet(m.label)
  <2> SUFFICES ASSUME NEW i \in DOMAIN m.label, a = <<m.label[i].name, m.label[i].value>>
               PROVE  FALSE
    BY DEF PairSet
  <2>1. m.label[i].name = <<r>>
    BY <1>1
  <2> QED BY <2>1 DEF MetricOk, LabelsOk
<1>4. PairSet(m.label) \cup {a} # PairSet(m.label) \cup {b}
  BY <1>2, <1>3
<1> QED BY <1>1, <1>4 DEF SameSeries, Says

\* count and sum.
LEMMA TotalsWritten ==
  ASSUME NEW f, NEW type, NEW m, MetricOk(type, m), f.name \in Seq(NameWord)
  PROVE  /\ Totals(f, m) \in Seq(Word) /\ Unique(Totals(f, m))
         /\ WrittenAs(Totals(f, m), TotalsSay(f, m))
<1>1. PICK c, s : c = <<"_", "count">> /\ s = <<"_", "sum">>
  OBVIOUS
<1>2. c \in Seq(NameWord) /\ s \in Seq(NameWord) /\ c # s
  <2>1. c[2] # s[2]
    BY <1>1
  <2> QED BY <1>1, <2>1, SuffixWords
<1>3. m.count \in Doubles /\ m.value \in Doubles
  BY DEF MetricOk, Collected
<1>4. PICK t, u : t = Line(f, m, c, <<>>, m.count) /\ u = Line(f, m, s, <<>>, m.value)
  OBVIOUS
<1>5. PICK p, q : p = Says(f, m, c, {}, m.count) /\ q = Says(f, m, s, {}, m.value)
  OBVIOUS
<1>6. t \in Seq(Word) /\ Unique(t) /\ WrittenAs(t, {p})
  BY <1>2, <1>3, <1>4, <1>5, PlainLineSays
<1>7. u \in Seq(Word) /\ Unique(u) /\ WrittenAs(u, {q})
  BY <1>2, <1>3, <1>4, <1>5, PlainLineSays
<1>8. OtherSeries({p}, {q})
  BY <1>2, <1>5, SaysApart DEF OtherSeries
<1>9. WrittenAs(t \o u, {p} \cup {q}) /\ Unique(t \o u) /\ t \o u \in Seq(Word)
  BY <1>6, <1>7, <1>8, WrittenJoin, UniqueJoin, ConcatProperties
<1>10. Totals(f, m) = t \o u /\ TotalsSay(f, m) = {p} \cup {q}
  BY <1>1, <1>4, <1>5 DEF Totals, TotalsSay
<1> QED BY <1>9, <1>10

\* The points.
LEMMA PointsWritten ==
  ASSUME NEW f, NEW type, NEW m, MetricOk(type, m), f.name \in Seq(NameWord),
         NEW suffix \in Seq(NameWord), NEW r \in LabelWord, <<r>> \in Reserved(type)
  PROVE  /\ Points(f, m, suffix, r) \in Seq(Word) /\ Unique(Points(f, m, suffix, r))
         /\ WrittenAs(Points(f, m, suffix, r), PointsSay(f, m, suffix, r))
<1>1. PICK ps : ps = m.points
  OBVIOUS
<1>2. ps \in Seq(Point) /\ PointsOk(type, m)
  BY <1>1 DEF MetricOk, Collected
<1>3. PICK n \in Nat : n = Len(ps) /\ DOMAIN ps = 1 .. n
  BY <1>2, LenProperties
<1>4. \A i \in 1 .. n : ps[i] \in Point /\ ps[i] \in ToSet(ps)
  BY <1>2, <1>3, ElementOfSeq DEF ToSet
<1>5. \A i \in 1 .. n : ps[i].value \in Doubles /\ ps[i].at \in ToSet(Bounds)
  BY <1>1, <1>2, <1>4 DEF Point, PointsOk
<1>6. \A i, j \in 1 .. n : i < j => ps[i].at # ps[j].at
  BY <1>1, <1>2, <1>3 DEF PointsOk
<1>7. PICK s : s = [i \in DOMAIN ps |->
                      Line(f, m, suffix, <<Label(<<r>>, <<NumberText(ps[i].at)>>)>>, ps[i].value)]
  OBVIOUS
<1>8. PICK Q : Q = [i \in 1 .. n |-> {PointSays(f, m, suffix, r, ps[i])}]
  OBVIOUS
<1>9. ASSUME NEW i \in 1 .. n
      PROVE  s[i] \in Seq(Word) /\ Unique(s[i]) /\ WrittenAs(s[i], Q[i])
  <2>1. PICK x, v : x = NumberText(ps[i].at) /\ v = ps[i].value
    OBVIOUS
  <2>2. x \in Word /\ v \in Doubles
    BY <1>5, <2>1, BoundTexts
  <2>3. s[i] = Line(f, m, suffix, <<Label(<<r>>, <<x>>)>>, v)
    BY <1>3, <1>7, <2>1
  <2>4. Q[i] = {Says(f, m, suffix, {<<<<r>>, <<x>>>>}, v)}
    BY <1>8, <2>1 DEF PointSays
  <2>5. PICK t : t = Line(f, m, suffix, <<Label(<<r>>, <<x>>)>>, v)
    OBVIOUS
  <2>6. t \in Seq(Word) /\ Unique(t) /\ WrittenAs(t, {Says(f, m, suffix, {<<<<r>>, <<x>>>>}, v)})
    BY <2>2, <2>5, PointLineSays, Zenon
  <2> QED BY <2>3, <2>4, <2>5, <2>6
<1>10. s \in Seq(Seq(Word)) /\ Len(s) = n
  BY <1>3, <1>7, <1>9
<1>11. ASSUME NEW i \in 1 .. n, NEW j \in 1 .. n, i < j PROVE OtherSeries(Q[i], Q[j])
  <2>1. PICK x, y : x = NumberText(ps[i].at) /\ y = NumberText(ps[j].at)
    OBVIOUS
  <2>2. x # y
    BY <1>5, <1>6, <1>11, <2>1, BoundsApart
  <2>3. /\ Q[i] = {Says(f, m, suffix, {<<<<r>>, <<x>>>>}, ps[i].value)}
        /\ Q[j] = {Says(f, m, suffix, {<<<<r>>, <<y>>>>}, ps[j].value)}
    BY <1>8, <2>1 DEF PointSays
  <2>4. ~ SameSeries(Says(f, m, suffix, {<<<<r>>, <<x>>>>}, ps[i].value),
                     Says(f, m, suffix, {<<<<r>>, <<y>>>>}, ps[j].value))
    BY <2>2, PointsApart
  <2> QED BY <2>3, <2>4 DEF OtherSeries
<1>12. PICK U : U = UNION {Q[i] : i \in 1 .. n}
  OBVIOUS
<1>13. WrittenAs(FlattenSeq(s), U) /\ Unique(FlattenSeq(s))
  <2>1. \A i \in 1 .. n : WrittenAs(s[i], Q[i]) /\ Unique(s[i])
    BY <1>9
  <2>2. \A i, j \in 1 .. n : i < j => OtherSeries(Q[i], Q[j])
    BY <1>11
  <2> QED BY <1>10, <1>12, <2>1, <2>2, WrittenThrough
<1>14. U = {PointSays(f, m, suffix, r, p) : p \in ToSet(ps)}
  <2>1. ToSet(ps) = {ps[i] : i \in 1 .. n}
    BY <1>3 DEF ToSet
  <2> QED BY <1>8, <1>12, <2>1
<1>15. FlattenSeq(s) = Points(f, m, suffix, r)
  BY <1>1, <1>7, Zenon DEF Points
<1>16. FlattenSeq(s) \in Seq(Word)
  BY <1>10, FlattenType
<1>17. U = PointsSay(f, m, suffix, r)
  BY <1>1, <1>14 DEF PointsSay
<1> QED BY <1>13, <1>15, <1>16, <1>17

-----------------------------------------------------------------------------
\* Text: what a metric means.

\* The buckets of a histogram: those that are not +Inf, and +Inf.
BucketsOf(m) ==
  {q \in ToSet(m.points) : q.at # "inf"} \cup {[at |-> "+Inf", value |-> m.count]}

\* What a metric means, kind by kind.
LEMMA SamplesAre ==
  ASSUME NEW f, NEW m
  PROVE  /\ f.type \in Simple => SamplesOf(f, m) = {Says(f, m, <<>>, {}, m.value)}
         /\ f.type = "info" => SamplesOf(f, m) = {Says(f, m, <<"_", "info">>, {}, m.value)}
         /\ f.type = "summary" =>
              SamplesOf(f, m) = TotalsSay(f, m)
                \cup PointsMean(f, m, <<>>, "quantile", ToSet(m.points))
         /\ f.type = "histogram" =>
              SamplesOf(f, m) = TotalsSay(f, m)
                \cup PointsMean(f, m, <<"_", "bucket">>, "le", BucketsOf(m))
<1>1. ASSUME f.type \in Simple PROVE SamplesOf(f, m) = {Says(f, m, <<>>, {}, m.value)}
  <2>1. f.type # "info" /\ f.type # "summary" /\ f.type # "histogram"
    BY <1>1 DEF Simple
  <2> QED BY <1>1, <2>1, Zenon DEF SamplesOf, Says, PairSet, Stamp
<1>2. ASSUME f.type = "info" PROVE SamplesOf(f, m) = {Says(f, m, <<"_", "info">>, {}, m.value)}
  <2>1. f.type \notin Simple /\ f.type # "summary" /\ f.type # "histogram"
    BY <1>2 DEF Simple
  <2> QED BY <1>2, <2>1, Zenon DEF SamplesOf, Says, PairSet, Stamp
<1>3. ASSUME f.type = "summary"
      PROVE  SamplesOf(f, m) = TotalsSay(f, m)
               \cup PointsMean(f, m, <<>>, "quantile", ToSet(m.points))
  <2>1. f.type \notin Simple /\ f.type # "info" /\ f.type # "histogram"
    BY <1>3 DEF Simple
  <2> QED BY <1>3, <2>1, Zenon DEF SamplesOf, Says, PairSet, Stamp, TotalsSay, PointsMean, BucketsOf
<1>4. ASSUME f.type = "histogram"
      PROVE  SamplesOf(f, m) = TotalsSay(f, m)
               \cup PointsMean(f, m, <<"_", "bucket">>, "le", BucketsOf(m))
  <2>1. f.type \notin Simple /\ f.type # "info" /\ f.type # "summary"
    BY <1>4 DEF Simple
  <2> QED BY <1>4, <2>1, Zenon DEF SamplesOf, Says, PairSet, Stamp, TotalsSay, PointsMean, BucketsOf
<1> QED BY <1>1, <1>2, <1>3, <1>4

\* The metric of a counter, a gauge, an untyped or an info.
LEMMA ValueWritten ==
  ASSUME NEW f, NEW m, MetricOk(f.type, m), f.name \in Seq(NameWord),
         f.type \in Simple \cup {"info"}
  PROVE  /\ SerializeMetric(f, m) \in Seq(Word) /\ Unique(SerializeMetric(f, m))
         /\ WrittenAs(SerializeMetric(f, m), SamplesOf(f, m))
<1>1. m.value \in Doubles
  BY DEF MetricOk, Collected
<1>2. PICK s : s = IF f.type = "info" THEN <<"_", "info">> ELSE <<>>
  OBVIOUS
<1>3. s \in Seq(NameWord)
  BY <1>2, SuffixWords
<1>4. PICK t : t = Line(f, m, s, <<>>, m.value)
  OBVIOUS
<1>5. t \in Seq(Word) /\ Unique(t) /\ WrittenAs(t, {Says(f, m, s, {}, m.value)})
  BY <1>1, <1>3, <1>4, PlainLineSays
<1>6. SerializeMetric(f, m) = t
  <2>1. f.type # "summary" /\ f.type # "histogram"
    BY DEF Simple
  <2>2. SerializeMetric(f, m) = SerializeValue(f, m)
    BY <2>1 DEF SerializeMetric
  <2> QED BY <1>2, <1>4, <2>2 DEF SerializeValue
<1>7. SamplesOf(f, m) = {Says(f, m, s, {}, m.value)}
  <2>1. CASE f.type = "info"
    BY <1>2, <2>1, SamplesAre
  <2>2. CASE f.type # "info"
    <3>1. f.type \in Simple /\ s = <<>>
      BY <1>2, <2>2
    <3> QED BY <3>1, SamplesAre
  <2> QED BY <2>1, <2>2
<1> QED BY <1>5, <1>6, <1>7

\* Two texts of a metric whose samples have different suffixes.
LEMMA SuffixesJoin ==
  ASSUME NEW f, NEW m, f.name \in Seq(NameWord), NEW t, NEW u, NEW s \in Seq(NameWord),
         NEW P, s # <<"_", "count">>, s # <<"_", "sum">>,
         t \in Seq(Word), Unique(t), WrittenAs(t, TotalsSay(f, m)),
         u \in Seq(Word), Unique(u), WrittenAs(u, P),
         \A q \in P : \E e, v : q = Says(f, m, s, e, v)
  PROVE  t \o u \in Seq(Word) /\ Unique(t \o u) /\ WrittenAs(t \o u, TotalsSay(f, m) \cup P)
<1>1. OtherSeries(TotalsSay(f, m), P)
  <2> SUFFICES ASSUME NEW p \in TotalsSay(f, m), NEW q \in P PROVE ~ SameSeries(p, q)
    BY DEF OtherSeries
  <2>1. PICK e, v : q = Says(f, m, s, e, v)
    OBVIOUS
  <2>2. PICK c, w : c \in Seq(NameWord) /\ c # s /\ p = Says(f, m, c, {}, w)
    BY SuffixWords DEF TotalsSay
  <2> QED BY <2>1, <2>2, SaysApart
<1> QED BY <1>1, WrittenJoin, UniqueJoin, ConcatProperties

-----------------------------------------------------------------------------
\* Text: summaries and histograms.

\* The labels of points are words that no metric of the type has as a label.
LEMMA PointLabels ==
  /\ "le" \in LabelWord /\ <<"le">> \in Reserved("histogram")
  /\ "quantile" \in LabelWord /\ <<"quantile">> \in Reserved("summary")
<1>1. "le" \in LabelWord
  BY Zenon DEF LabelWord, Plain, Word
<1>2. "quantile" \in LabelWord
  BY Zenon DEF LabelWord, Plain, Word
<1>3. <<"le">> \in Reserved("histogram")
  BY DEF Reserved
<1>4. <<"quantile">> \in Reserved("summary")
  BY DEF Reserved
<1> QED BY <1>1, <1>2, <1>3, <1>4

\* The suffixes of points are not those of count and sum.
LEMMA PointSuffixes ==
  /\ <<>> # <<"_", "count">> /\ <<>> # <<"_", "sum">>
  /\ <<"_", "bucket">> # <<"_", "count">> /\ <<"_", "bucket">> # <<"_", "sum">>
OBVIOUS

\* The metric of a summary.
LEMMA SummaryWritten ==
  ASSUME NEW f, NEW m, MetricOk(f.type, m), f.name \in Seq(NameWord), f.type = "summary"
  PROVE  /\ SerializeMetric(f, m) \in Seq(Word) /\ Unique(SerializeMetric(f, m))
         /\ WrittenAs(SerializeMetric(f, m), SamplesOf(f, m))
<1>1. PICK r : r = "quantile"
  OBVIOUS
<1>2. r \in LabelWord /\ <<r>> \in Reserved(f.type)
  BY <1>1, PointLabels
<1>3. PICK t, u : t = Totals(f, m) /\ u = Points(f, m, <<>>, r)
  OBVIOUS
<1>4. PICK P : P = PointsSay(f, m, <<>>, r)
  OBVIOUS
<1>5. t \in Seq(Word) /\ Unique(t) /\ WrittenAs(t, TotalsSay(f, m))
  BY <1>3, TotalsWritten
<1>6. u \in Seq(Word) /\ Unique(u) /\ WrittenAs(u, P)
  BY <1>2, <1>3, <1>4, PointsWritten, SuffixWords
<1>7. \A q \in P : \E e, v : q = Says(f, m, <<>>, e, v)
  BY <1>4 DEF PointSays, PointsSay
<1>8. t \o u \in Seq(Word) /\ Unique(t \o u) /\ WrittenAs(t \o u, TotalsSay(f, m) \cup P)
  BY <1>5, <1>6, <1>7, SuffixesJoin, SuffixWords, PointSuffixes
<1>9. SerializeMetric(f, m) = t \o u
  <2>1. SerializeMetric(f, m) = SerializeSummary(f, m)
    BY DEF SerializeMetric
  <2> QED BY <1>1, <1>3, <2>1 DEF SerializeSummary
<1>10. SamplesOf(f, m) = TotalsSay(f, m) \cup P
  <2>1. SamplesOf(f, m) = TotalsSay(f, m)
          \cup PointsMean(f, m, <<>>, r, ToSet(m.points))
    BY <1>1, SamplesAre
  <2>2. ASSUME NEW p \in ToSet(m.points)
        PROVE  PointSays(f, m, <<>>, r, p) = Says(f, m, <<>>, {<<<<r>>, <<p.at>>>>}, p.value)
    <3>1. p.at \in ToSet(Bounds) /\ p.at # "inf"
      BY DEF MetricOk, PointsOk
    <3>2. NumberText(p.at) = p.at
      BY <3>1, BoundTexts
    <3> QED BY <3>2 DEF PointSays
  <2>3. P = PointsMean(f, m, <<>>, r, ToSet(m.points))
    BY <1>4, <2>2 DEF PointsSay, PointsMean
  <2> QED BY <2>1, <2>3
<1> QED BY <1>8, <1>9, <1>10

\* The last bucket of a histogram is the only one that can be +Inf.
LEMMA InfLast ==
  ASSUME NEW type, NEW m, MetricOk(type, m)
  PROVE  /\ LacksInf(m.points) => \A p \in ToSet(m.points) : p.at # "inf"
         /\ ~ LacksInf(m.points) => \E p \in ToSet(m.points) : p.at = "inf"
<1>1. PICK ps : ps = m.points
  OBVIOUS
<1>2. ps \in Seq(Point) /\ PointsOk(type, m)
  BY <1>1 DEF MetricOk, Collected
<1>3. PICK n \in Nat : n = Len(ps) /\ DOMAIN ps = 1 .. n
  BY <1>2, LenProperties
<1>4. \A i, j \in 1 .. n : i < j => ps[i].at # "inf"
  BY <1>1, <1>2, <1>3 DEF PointsOk
<1>5. n # 0 => Last(ps) = ps[n] /\ n \in 1 .. n
  BY <1>3 DEF Last
<1>6. n = 0 <=> ps = <<>>
  BY <1>2, <1>3, EmptySeq
<1>7. ToSet(ps) = {ps[i] : i \in 1 .. n}
  BY <1>3 DEF ToSet
<1>8. ASSUME LacksInf(ps), NEW i \in 1 .. n PROVE ps[i].at # "inf"
  <2>1. CASE i = n
    BY <1>5, <1>6, <1>8, <2>1 DEF LacksInf
  <2>2. CASE i # n
    BY <1>4, <2>2
  <2> QED BY <2>1, <2>2
<1>9. ASSUME ~ LacksInf(ps) PROVE \E p \in ToSet(ps) : p.at = "inf"
  BY <1>5, <1>6, <1>7, <1>9 DEF LacksInf
<1>10. LacksInf(ps) => \A p \in ToSet(ps) : p.at # "inf"
  BY <1>7, <1>8
<1> QED BY <1>1, <1>9, <1>10

\* What the lines of the points of a histogram say, and the one that is added.
LEMMA BucketsSay ==
  ASSUME NEW f, NEW m, MetricOk(f.type, m), f.type = "histogram", NEW s, NEW r, NEW x,
         x = "+Inf"
  PROVE  LET q == Says(f, m, s, {<<<<r>>, <<x>>>>}, m.count)
         IN /\ \A z : z \in PointsMean(f, m, s, r, BucketsOf(m)) <=> z \in PointsSay(f, m, s, r) \/ z = q
            /\ ~ LacksInf(m.points) => q \in PointsSay(f, m, s, r)
<1> DEFINE q == Says(f, m, s, {<<<<r>>, <<x>>>>}, m.count)
           P == PointsSay(f, m, s, r)
<1>1. PICK e : e = [at |-> "+Inf", value |-> m.count]
  OBVIOUS
<1>2. PICK T : T = [p \in ToSet(m.points) \cup {e} |-> Says(f, m, s, {<<<<r>>, <<p.at>>>>}, p.value)]
  OBVIOUS
<1>3. \A p \in ToSet(m.points) \cup {e} : T[p] = Says(f, m, s, {<<<<r>>, <<p.at>>>>}, p.value)
  BY <1>2
<1>4. T[e] = q
  BY <1>1, <1>3
<1>5. ASSUME NEW p \in ToSet(m.points)
      PROVE  PointSays(f, m, s, r, p) = IF p.at # "inf" THEN T[p] ELSE q
  <2>1. /\ p.at \in ToSet(Bounds)
        /\ p.at = "inf" => p.value = m.count
    BY DEF MetricOk, PointsOk
  <2>2. CASE p.at # "inf"
    <3>1. NumberText(p.at) = p.at
      BY <2>1, <2>2, BoundTexts
    <3> QED BY <1>3, <2>2, <3>1 DEF PointSays
  <2>3. CASE p.at = "inf"
    <3>1. NumberText(p.at) = "+Inf"
      BY <2>1, <2>3, BoundTexts
    <3> QED BY <2>1, <2>3, <3>1 DEF PointSays
  <2> QED BY <2>2, <2>3
<1>6. PICK X : X = {T[p] : p \in {y \in ToSet(m.points) : y.at # "inf"} \cup {e}}
  OBVIOUS
<1>7. X = PointsMean(f, m, s, r, BucketsOf(m))
  BY <1>1, <1>3, <1>6 DEF PointsMean, BucketsOf
<1>8. X = P \cup {q}
  BY <1>4, <1>5, <1>6 DEF PointsSay
<1>9. ASSUME ~ LacksInf(m.points) PROVE q \in P
  <2>1. PICK p \in ToSet(m.points) : p.at = "inf"
    BY <1>9, InfLast
  <2> QED BY <1>5, <2>1 DEF PointsSay
<1> QED BY <1>7, <1>8, <1>9

\* The metric of a histogram.
LEMMA HistogramWritten ==
  ASSUME NEW f, NEW m, MetricOk(f.type, m), f.name \in Seq(NameWord), f.type = "histogram"
  PROVE  /\ SerializeMetric(f, m) \in Seq(Word) /\ Unique(SerializeMetric(f, m))
         /\ WrittenAs(SerializeMetric(f, m), SamplesOf(f, m))
<1>1. PICK r, s : r = "le" /\ s = <<"_", "bucket">>
  OBVIOUS
<1>2. r \in LabelWord /\ <<r>> \in Reserved(f.type) /\ s \in Seq(NameWord)
      /\ s # <<"_", "count">> /\ s # <<"_", "sum">>
  BY <1>1, PointLabels, SuffixWords, PointSuffixes
<1>3. PICK t, u : t = Totals(f, m) /\ u = Points(f, m, s, r)
  OBVIOUS
<1>4. PICK P : P = PointsSay(f, m, s, r)
  OBVIOUS
<1>5. t \in Seq(Word) /\ Unique(t) /\ WrittenAs(t, TotalsSay(f, m))
  BY <1>3, TotalsWritten
<1>6. u \in Seq(Word) /\ Unique(u) /\ WrittenAs(u, P)
  BY <1>2, <1>3, <1>4, PointsWritten
<1>7. PICK x : x = "+Inf"
  OBVIOUS
<1>8. PICK q : q = Says(f, m, s, {<<<<r>>, <<x>>>>}, m.count)
  OBVIOUS
<1>9. SamplesOf(f, m) = TotalsSay(f, m) \cup (P \cup {q}) /\ (~ LacksInf(m.points) => q \in P)
  <2>1. PICK B : B = PointsMean(f, m, s, r, BucketsOf(m))
    OBVIOUS
  <2>2. SamplesOf(f, m) = TotalsSay(f, m) \cup B
    BY <1>1, <2>1, SamplesAre
  <2>3. B = P \cup {q} /\ (~ LacksInf(m.points) => q \in P)
    <3>1. PICK y, p : y = x /\ p = Says(f, m, s, {<<<<r>>, <<y>>>>}, m.count)
      OBVIOUS
    <3>2. MetricOk(f.type, m) /\ f.type = "histogram" /\ y = "+Inf"
      BY <1>7, <3>1
    <3>3. \A z : z \in PointsMean(f, m, s, r, BucketsOf(m)) <=> z \in PointsSay(f, m, s, r) \/ z = p
      BY <3>1, <3>2, BucketsSay
    <3>4. ~ LacksInf(m.points) => p \in PointsSay(f, m, s, r)
      BY <3>1, <3>2, BucketsSay
    <3> QED BY <1>4, <1>8, <2>1, <3>1, <3>3, <3>4
  <2> QED BY <2>2, <2>3
<1>10. PICK l : l = Line(f, m, s, <<Label(<<r>>, <<x>>)>>, m.count)
  OBVIOUS
<1>11. PICK e : e = IF LacksInf(m.points) THEN l ELSE <<>>
  OBVIOUS
<1>12. SerializeMetric(f, m) = (t \o u) \o e
  <2>1. SerializeMetric(f, m) = SerializeHistogram(f, m)
    BY DEF SerializeMetric
  <2>2. SerializeHistogram(f, m) = (t \o u) \o e
    BY <1>1, <1>3, <1>7, <1>10, <1>11, Zenon DEF SerializeHistogram
  <2> QED BY <2>1, <2>2
<1>13. u \o e \in Seq(Word) /\ Unique(u \o e) /\ WrittenAs(u \o e, P \cup {q}) /\ e \in Seq(Word)
  <2>1. CASE LacksInf(m.points)
    <3>1. x \in Word /\ m.count \in Doubles
      BY <1>7, Zenon DEF Word, MetricOk, Collected
    <3>2. l \in Seq(Word) /\ Unique(l) /\ WrittenAs(l, {q})
      BY <1>2, <1>8, <1>10, <3>1, PointLineSays, Zenon
    <3>3. OtherSeries(P, {q})
      <4> SUFFICES ASSUME NEW p \in ToSet(m.points) PROVE ~ SameSeries(PointSays(f, m, s, r, p), q)
        BY <1>4 DEF OtherSeries, PointsSay
      <4>1. PICK y : y = NumberText(p.at)
        OBVIOUS
      <4>2. y # x
        <5>1. p.at # "inf" /\ p.at \in ToSet(Bounds)
          BY <2>1, InfLast DEF MetricOk, PointsOk
        <5> QED BY <1>7, <4>1, <5>1, BoundTexts
      <4>3. ~ SameSeries(Says(f, m, s, {<<<<r>>, <<y>>>>}, p.value),
                         Says(f, m, s, {<<<<r>>, <<x>>>>}, m.count))
        BY <1>2, <4>2, PointsApart
      <4> QED BY <1>8, <4>1, <4>3 DEF PointSays
    <3> QED BY <1>6, <1>11, <2>1, <3>2, <3>3, WrittenJoin, UniqueJoin, ConcatProperties
  <2>2. CASE ~ LacksInf(m.points)
    <3>1. u \o e = u /\ e \in Seq(Word)
      BY <1>6, <1>11, <2>2, ConcatEmptySeq, EmptySeq
    <3>2. P \cup {q} = P
      BY <1>9, <2>2
    <3> QED BY <1>6, <3>1, <3>2
  <2> QED BY <2>1, <2>2
<1>14. \A p \in P \cup {q} : \E a, v : p = Says(f, m, s, a, v)
  BY <1>4, <1>8 DEF PointSays, PointsSay
<1>15. PICK w : w = u \o e
  OBVIOUS
<1>16. t \o w \in Seq(Word) /\ Unique(t \o w) /\ WrittenAs(t \o w, TotalsSay(f, m) \cup (P \cup {q}))
  BY <1>2, <1>5, <1>13, <1>14, <1>15, SuffixesJoin
<1>17. (t \o u) \o e = t \o w
  <2>1. t \in Seq(Word) /\ u \in Seq(Word) /\ e \in Seq(Word)
    BY <1>5, <1>6, <1>13
  <2> QED BY <1>15, <2>1, WordsAssociate
<1> QED BY <1>9, <1>12, <1>16, <1>17

\* A metric of any type.
LEMMA MetricWritten ==
  ASSUME NEW f, NEW m, MetricOk(f.type, m), f.name \in Seq(NameWord), f.type \in Types
  PROVE  /\ SerializeMetric(f, m) \in Seq(Word) /\ Unique(SerializeMetric(f, m))
         /\ WrittenAs(SerializeMetric(f, m), SamplesOf(f, m))
<1>1. f.type \in Simple \cup {"info"} \/ f.type = "summary" \/ f.type = "histogram"
  BY SerializerAssumption
<1> QED BY <1>1, ValueWritten, SummaryWritten, HistogramWritten

-----------------------------------------------------------------------------
\* Text: families.

\* A line about a family says nothing.
LEMMA CommentWritten ==
  ASSUME NEW word \in Plain, NEW name \in Seq(Plain), NEW text \in Plain
  PROVE  LET t == <<"#", word>> \o name \o <<text, "\n">>
         IN t \in Seq(Word) /\ WrittenAs(t, {}) /\ Unique(t)
<1>1. PICK q : q = State("comment", <<>>, <<>>, <<>>, <<>>, <<>>)
  OBVIOUS
<1>2. PICK t : t = <<"#", word>> \o name \o <<text, "\n">>
  OBVIOUS
<1>3. IsLine(t, q)
  BY <1>1, <1>2, CommentLine
<1>4. q.at = "comment"
  BY <1>1 DEF State
<1>5. ~ IsSample(q) /\ WellRead(q)
  BY <1>4 DEF IsSample, WellRead
<1>6. WrittenAs(t, IF IsSample(q) THEN {SampleOf(q)} ELSE {}) /\ Unique(t)
  BY <1>3, <1>5, LineWritten
<1>7. WrittenAs(t, {}) /\ Unique(t)
  BY <1>5, <1>6
<1>8. t \in Seq(Word)
  BY <1>7 DEF WrittenAs, Ended
<1> QED BY <1>2, <1>7, <1>8

\* What can be collected of a family.
FamilyOk(f) ==
  /\ f.name \in Seq(NameWord) /\ f.type \in Types /\ f.help \in Helps
  /\ f.metric \in Seq(Collected)
  /\ \A i \in DOMAIN f.metric : MetricOk(f.type, f.metric[i])

\* The words for types.
LEMMA TypeWords ==
  ASSUME NEW type \in Types
  PROVE  TypeText(type) \in Plain
<1>1. type \in {"counter", "gauge", "untyped", "info", "summary", "histogram"}
  BY SerializerAssumption DEF Simple
<1>2. "gauge" \in Plain /\ "counter" \in Plain /\ "untyped" \in Plain
  BY Zenon DEF Plain, Word
<1>3. "summary" \in Plain /\ "histogram" \in Plain
  BY Zenon DEF Plain, Word
<1> QED BY <1>1, <1>2, <1>3 DEF TypeText

\* The help and the type of a family.
LEMMA CommentsWritten ==
  ASSUME NEW f, FamilyOk(f)
  PROVE  \E h : /\ h \in Seq(Word) /\ WrittenAs(h, {}) /\ Unique(h)
                /\ SerializeFamily(f) =
                     h \o FlattenSeq([i \in DOMAIN f.metric |-> SerializeMetric(f, f.metric[i])])
<1>1. PICK e, a, n, c : /\ e = IF f.help = "" THEN <<>> ELSE <<"#", "HELP">> \o f.name \o <<f.help, "\n">>
                        /\ a = <<"#", "TYPE">> /\ n = f.name /\ c = <<TypeText(f.type), "\n">>
  OBVIOUS
<1>2. PICK M : M = FlattenSeq([i \in DOMAIN f.metric |-> SerializeMetric(f, f.metric[i])])
  OBVIOUS
<1>3. SerializeFamily(f) = (((e \o a) \o n) \o c) \o M
  BY <1>1, <1>2, Zenon DEF SerializeFamily
<1>4. n \in Seq(Word) /\ n \in Seq(Plain)
  <2>1. n \in Seq(NameWord)
    BY <1>1 DEF FamilyOk
  <2>2. NameWord \subseteq Plain /\ NameWord \subseteq Word
    BY Words
  <2> QED BY <2>1, <2>2
<1>5. PICK t : t = (a \o n) \o c
  OBVIOUS
<1>6. t \in Seq(Word) /\ WrittenAs(t, {}) /\ Unique(t)
  <2>1. "TYPE" \in Plain
    BY Zenon DEF Plain, Word
  <2>2. TypeText(f.type) \in Plain
    BY TypeWords DEF FamilyOk
  <2> QED BY <1>1, <1>4, <1>5, <2>1, <2>2, CommentWritten, Zenon
<1>7. e \in Seq(Word) /\ WrittenAs(e, {}) /\ Unique(e)
  <2>1. CASE f.help = ""
    BY <1>1, <2>1, NothingWritten, EmptySeq
  <2>2. CASE f.help # ""
    <3>1. "HELP" \in Plain
      BY Zenon DEF Plain, Word
    <3>2. f.help \in Plain
      <4>1. f.help \in Helps /\ f.help # "\n"
        BY TokenAssumption DEF FamilyOk
      <4> QED BY <4>1, Zenon DEF Plain, Word
    <3>3. e = <<"#", "HELP">> \o n \o <<f.help, "\n">>
      BY <1>1, <2>2
    <3> QED BY <1>4, <3>1, <3>2, <3>3, CommentWritten, Zenon
  <2> QED BY <2>1, <2>2
<1>8. a \in Seq(Word) /\ c \in Seq(Word)
  <2>1. "#" \in Word
    BY Zenon DEF Word
  <2>2. "TYPE" \in Word
    BY Zenon DEF Word
  <2>3. "\n" \in Word
    BY Zenon DEF Word
  <2>4. TypeText(f.type) \in Word
    BY TypeWords DEF FamilyOk, Plain
  <2>5. a \in Seq(Word)
    BY <1>1, <2>1, <2>2, Few, Zenon
  <2>6. c \in Seq(Word)
    BY <1>1, <2>3, <2>4, Few, Zenon
  <2> QED BY <2>5, <2>6
<1>9. ((e \o a) \o n) \o c = e \o t
  <2>1. PICK x, y : x = a \o n /\ y = e \o a
    OBVIOUS
  <2>2. e \in Seq(Word) /\ a \in Seq(Word) /\ n \in Seq(Word)
    BY <1>4, <1>7, <1>8
  <2>3. y \o n = e \o x
    BY <2>1, <2>2, WordsAssociate
  <2>4. x \in Seq(Word)
    BY <2>1, <2>2, ConcatProperties
  <2>5. e \in Seq(Word) /\ x \in Seq(Word) /\ c \in Seq(Word)
    BY <1>8, <2>2, <2>4
  <2>6. (e \o x) \o c = e \o (x \o c)
    BY <2>5, WordsAssociate
  <2> QED BY <1>5, <2>1, <2>3, <2>6
<1>10. PICK h : h = e \o t
  OBVIOUS
<1>11. OtherSeries({}, {})
  BY DEF OtherSeries
<1>12. h \in Seq(Word) /\ WrittenAs(h, {} \cup {}) /\ Unique(h)
  BY <1>6, <1>7, <1>10, <1>11, WrittenJoin, UniqueJoin, ConcatProperties
<1>13. WrittenAs(h, {})
  <2>1. {} \cup {} = {}
    OBVIOUS
  <2> QED BY <1>12, <2>1
<1>14. SerializeFamily(f) = h \o M
  BY <1>3, <1>9, <1>10
<1> QED BY <1>2, <1>12, <1>13, <1>14, Zenon

\* What a family means, and whether its metrics have different labels.
FamilyMeans(f) == UNION {SamplesOf(f, m) : m \in ToSet(f.metric)}
LabelsApart(f) ==
  \A i, j \in DOMAIN f.metric : i < j =>
    PairSet(f.metric[i].label) # PairSet(f.metric[j].label)

\* The labels of samples that the serializer has added.
Added(type, extra) == \A p \in extra : p[1] \in Reserved(type)

\* Every sample of a metric has its labels and some that were added.
LEMMA SamplesSay ==
  ASSUME NEW f, NEW m, f.type \in Types, NEW q \in SamplesOf(f, m)
  PROVE  \E s, e, v : s \in Seq(NameWord) /\ q = Says(f, m, s, e, v) /\ Added(f.type, e)
<1>1. Added(f.type, {})
  BY DEF Added
<1>2. \A x : f.type = "summary" => Added(f.type, {<<<<"quantile">>, <<x>>>>})
  BY PointLabels DEF Added
<1>3. \A x : f.type = "histogram" => Added(f.type, {<<<<"le">>, <<x>>>>})
  BY PointLabels DEF Added
<1>4. ASSUME q \in TotalsSay(f, m)
      PROVE  \E s, e, v : s \in Seq(NameWord) /\ q = Says(f, m, s, e, v) /\ Added(f.type, e)
  BY <1>1, <1>4, SuffixWords DEF TotalsSay
<1>5. ASSUME NEW s \in Seq(NameWord), NEW r, NEW S, q \in PointsMean(f, m, s, r, S),
             \A x : Added(f.type, {<<<<r>>, <<x>>>>})
      PROVE  \E ss, e, v : ss \in Seq(NameWord) /\ q = Says(f, m, ss, e, v) /\ Added(f.type, e)
  BY <1>5 DEF PointsMean
<1>6. CASE f.type \in Simple
  <2>1. PICK s : s = <<>>
    OBVIOUS
  <2>2. SamplesOf(f, m) = {Says(f, m, <<>>, {}, m.value)}
    BY <1>6, SamplesAre, Zenon
  <2>3. q = Says(f, m, s, {}, m.value) /\ s \in Seq(NameWord)
    BY <2>1, <2>2, SuffixWords
  <2> QED BY <1>1, <2>3
<1>7. CASE f.type = "info"
  <2>1. PICK s : s = <<"_", "info">>
    OBVIOUS
  <2>2. SamplesOf(f, m) = {Says(f, m, <<"_", "info">>, {}, m.value)}
    BY <1>7, SamplesAre, Zenon
  <2>3. q = Says(f, m, s, {}, m.value) /\ s \in Seq(NameWord)
    BY <2>1, <2>2, SuffixWords
  <2> QED BY <1>1, <2>3
<1>8. CASE f.type = "summary"
  <2>1. PICK r, s : r = "quantile" /\ s = <<>>
    OBVIOUS
  <2>2. q \in TotalsSay(f, m) \/ q \in PointsMean(f, m, s, r, ToSet(m.points))
    <3>1. SamplesOf(f, m) =
            TotalsSay(f, m) \cup PointsMean(f, m, <<>>, "quantile", ToSet(m.points))
      BY <1>8, SamplesAre, Zenon
    <3> QED BY <2>1, <3>1
  <2>3. s \in Seq(NameWord) /\ \A x : Added(f.type, {<<<<r>>, <<x>>>>})
    BY <1>2, <1>8, <2>1, SuffixWords
  <2> QED BY <1>4, <1>5, <2>2, <2>3
<1>9. CASE f.type = "histogram"
  <2>1. PICK r, s : r = "le" /\ s = <<"_", "bucket">>
    OBVIOUS
  <2>2. q \in TotalsSay(f, m) \/ q \in PointsMean(f, m, s, r, BucketsOf(m))
    <3>1. SamplesOf(f, m) =
            TotalsSay(f, m) \cup PointsMean(f, m, <<"_", "bucket">>, "le", BucketsOf(m))
      BY <1>9, SamplesAre, Zenon
    <3> QED BY <2>1, <3>1
  <2>3. s \in Seq(NameWord) /\ \A x : Added(f.type, {<<<<r>>, <<x>>>>})
    BY <1>3, <1>9, <2>1, SuffixWords
  <2> QED BY <1>4, <1>5, <2>2, <2>3
<1> QED BY <1>6, <1>7, <1>8, <1>9, SerializerAssumption

\* So the samples of metrics with different labels are of different series.
LEMMA MetricsApart ==
  ASSUME NEW f, NEW m, NEW o, f.type \in Types, MetricOk(f.type, m), MetricOk(f.type, o),
         PairSet(m.label) # PairSet(o.label)
  PROVE  OtherSeries(SamplesOf(f, m), SamplesOf(f, o))
<1>1. ASSUME NEW x, MetricOk(f.type, x) PROVE \A p \in PairSet(x.label) : p[1] \notin Reserved(f.type)
  BY <1>1 DEF PairSet, MetricOk, LabelsOk
<1>2. PICK A, B : A = PairSet(m.label) /\ B = PairSet(o.label)
  OBVIOUS
<1>3. /\ \A p \in A : p[1] \notin Reserved(f.type)
      /\ \A p \in B : p[1] \notin Reserved(f.type)
  BY <1>1, <1>2
<1>4. ASSUME NEW q \in SamplesOf(f, m), NEW r \in SamplesOf(f, o), q.labels = r.labels PROVE FALSE
  <2>1. PICK s, e, v : q = Says(f, m, s, e, v) /\ Added(f.type, e)
    BY SamplesSay
  <2>2. PICK t, d, w : r = Says(f, o, t, d, w) /\ Added(f.type, d)
    BY SamplesSay
  <2>3. q.labels = A \cup e /\ r.labels = B \cup d
    BY <1>2, <2>1, <2>2 DEF Says
  <2>4. A = B
    <3>1. \A p : p \in A \/ p \in e <=> p \in B \/ p \in d
      BY <1>4, <2>3
    <3> QED BY <1>3, <2>1, <2>2, <3>1 DEF Added
  <2> QED BY <1>2, <2>4
<1> QED BY <1>4 DEF OtherSeries, SameSeries

\* A family.
LEMMA FamilyWritten ==
  ASSUME NEW f, FamilyOk(f)
  PROVE  /\ SerializeFamily(f) \in Seq(Word)
         /\ WrittenAs(SerializeFamily(f), FamilyMeans(f))
         /\ LabelsApart(f) => Unique(SerializeFamily(f))
<1>1. PICK ms : ms = f.metric
  OBVIOUS
<1>2. ms \in Seq(Collected)
  BY <1>1 DEF FamilyOk
<1>3. PICK n \in Nat : n = Len(ms) /\ DOMAIN ms = 1 .. n
  BY <1>2, LenProperties
<1>4. \A i \in 1 .. n : MetricOk(f.type, ms[i])
  BY <1>1, <1>3 DEF FamilyOk
<1>5. f.name \in Seq(NameWord) /\ f.type \in Types
  BY DEF FamilyOk
<1>6. PICK s, Q : s = [i \in DOMAIN ms |-> SerializeMetric(f, ms[i])]
                  /\ Q = [i \in 1 .. n |-> SamplesOf(f, ms[i])]
  OBVIOUS
<1>7. \A i \in 1 .. n : s[i] \in Seq(Word) /\ Unique(s[i]) /\ WrittenAs(s[i], Q[i])
  <2> TAKE i \in 1 .. n
  <2>1. s[i] = SerializeMetric(f, ms[i]) /\ Q[i] = SamplesOf(f, ms[i])
    BY <1>3, <1>6
  <2> QED BY <1>4, <1>5, <2>1, MetricWritten
<1>8. s \in Seq(Seq(Word)) /\ Len(s) = n
  BY <1>3, <1>6, <1>7
<1>9. PICK U : U = UNION {Q[i] : i \in 1 .. n}
  OBVIOUS
<1>10. PICK M : M = FlattenSeq(s)
  OBVIOUS
<1>11. WrittenAs(M, U) /\ M \in Seq(Word)
  <2>1. \A i \in 1 .. n : WrittenAs(s[i], Q[i])
    BY <1>7
  <2> QED BY <1>8, <1>9, <1>10, <2>1, WrittenThrough, FlattenType
<1>12. ASSUME LabelsApart(f) PROVE Unique(M)
  <2>1. \A i \in 1 .. n : WrittenAs(s[i], Q[i]) /\ Unique(s[i])
    BY <1>7
  <2>2. ASSUME NEW i \in 1 .. n, NEW j \in 1 .. n, i < j PROVE OtherSeries(Q[i], Q[j])
    <3>1. PairSet(ms[i].label) # PairSet(ms[j].label)
      BY <1>1, <1>3, <1>12, <2>2 DEF LabelsApart
    <3>2. Q[i] = SamplesOf(f, ms[i]) /\ Q[j] = SamplesOf(f, ms[j])
      BY <1>6
    <3> QED BY <1>4, <1>5, <3>1, <3>2, MetricsApart
  <2> QED BY <1>8, <1>9, <1>10, <2>1, <2>2, WrittenThrough
<1>13. U = FamilyMeans(f)
  <2>1. ToSet(ms) = {ms[i] : i \in 1 .. n}
    BY <1>3 DEF ToSet
  <2> QED BY <1>1, <1>6, <1>9, <2>1 DEF FamilyMeans
<1>14. PICK h : /\ h \in Seq(Word) /\ WrittenAs(h, {}) /\ Unique(h)
                /\ SerializeFamily(f) = h \o M
  BY <1>1, <1>6, <1>10, CommentsWritten, Zenon
<1>15. OtherSeries({}, U)
  BY DEF OtherSeries
<1>16. WrittenAs(h \o M, {} \cup U) /\ h \o M \in Seq(Word) /\ (Unique(M) => Unique(h \o M))
  BY <1>11, <1>14, <1>15, WrittenJoin, UniqueJoin, ConcatProperties
<1>17. {} \cup U = U
  OBVIOUS
<1> QED BY <1>12, <1>13, <1>14, <1>16, <1>17

-----------------------------------------------------------------------------
\* Text: all families.

\* Of two names that are the same with suffixes one begins with the other.
LEMMA OneIsPrefix ==
  ASSUME NEW S, NEW a \in Seq(S), NEW b \in Seq(S), NEW s \in Seq(S), NEW t \in Seq(S),
         a \o s = b \o t, Len(a) <= Len(b)
  PROVE  IsPrefix(a, b)
<1>1. PICK m, n, k, l : /\ m \in Nat /\ n \in Nat /\ k \in Nat /\ l \in Nat
                        /\ m = Len(a) /\ n = Len(b) /\ k = Len(s) /\ l = Len(t)
  BY LenProperties
<1>2. PICK c : c = a \o s /\ c = b \o t
  OBVIOUS
<1>3. /\ \A i \in 1 .. m + k : c[i] = IF i <= m THEN a[i] ELSE s[i - m]
      /\ \A i \in 1 .. n + l : c[i] = IF i <= n THEN b[i] ELSE t[i - n]
  <2>1. \A i \in 1 .. m + k : c[i] = IF i <= m THEN a[i] ELSE s[i - m]
    <3>1. \A i \in 1 .. Len(a) + Len(s) :
            (a \o s)[i] = IF i <= Len(a) THEN a[i] ELSE s[i - Len(a)]
      BY ConcatProperties
    <3> QED BY <1>1, <1>2, <3>1
  <2>2. \A i \in 1 .. n + l : c[i] = IF i <= n THEN b[i] ELSE t[i - n]
    <3>1. \A i \in 1 .. Len(b) + Len(t) :
            (b \o t)[i] = IF i <= Len(b) THEN b[i] ELSE t[i - Len(b)]
      BY ConcatProperties
    <3> QED BY <1>1, <1>2, <3>1
  <2> QED BY <2>1, <2>2
<1>4. \A i \in 1 .. m : a[i] = b[i]
  <2> TAKE i \in 1 .. m
  <2>1. i \in 1 .. m + k /\ i <= m /\ i \in 1 .. n + l /\ i <= n
    BY <1>1
  <2> QED BY <1>3, <2>1
<1>5. PICK p, q : p = SubSeq(a, 1, m) /\ q = SubSeq(b, 1, m)
  OBVIOUS
<1>6. \A i \in 1 .. m : a[i] \in S /\ b[i] \in S
  <2>1. \A i \in 1 .. m : a[i] \in S
    BY <1>1, ElementOfSeq
  <2> QED BY <1>4, <2>1
<1>7. p \in Seq(S) /\ Len(p) = m /\ \A i \in 1 .. m : p[i] = a[i]
  <2>1. /\ p \in Seq(S)
        /\ Len(p) = (IF 1 <= m THEN m - 1 + 1 ELSE 0)
        /\ \A i \in 1 .. m - 1 + 1 : p[i] = a[1 + i - 1]
    BY <1>1, <1>5, <1>6, SubSeqProperties
  <2>2. m - 1 + 1 = m
    BY <1>1
  <2>3. \A i \in 1 .. m : 1 + i - 1 = i
    BY <1>1
  <2> QED BY <1>1, <2>1, <2>2, <2>3
<1>8. q \in Seq(S) /\ Len(q) = m /\ \A i \in 1 .. m : q[i] = b[i]
  <2>1. /\ q \in Seq(S)
        /\ Len(q) = (IF 1 <= m THEN m - 1 + 1 ELSE 0)
        /\ \A i \in 1 .. m - 1 + 1 : q[i] = b[1 + i - 1]
    BY <1>1, <1>5, <1>6, SubSeqProperties
  <2>2. m - 1 + 1 = m
    BY <1>1
  <2>3. \A i \in 1 .. m : 1 + i - 1 = i
    BY <1>1
  <2> QED BY <1>1, <2>1, <2>2, <2>3
<1>9. p = q
  BY <1>1, <1>4, <1>7, <1>8, SeqEqual
<1> QED BY <1>1, <1>5, <1>9 DEF IsPrefix

\* So samples of families of which none is named like another with a suffix differ.
LEMMA FamiliesApart ==
  ASSUME NEW f, NEW g, FamilyOk(f), FamilyOk(g), f.name # g.name, ~ Extends(f, g), ~ Extends(g, f)
  PROVE  OtherSeries(FamilyMeans(f), FamilyMeans(g))
<1>1. f.name \in Seq(NameWord) /\ g.name \in Seq(NameWord) /\ f.type \in Types /\ g.type \in Types
  BY DEF FamilyOk
<1>2. ~ IsPrefix(f.name, g.name) /\ ~ IsPrefix(g.name, f.name)
  BY DEF Extends
<1>3. ASSUME NEW q \in FamilyMeans(f), NEW r \in FamilyMeans(g), q.name = r.name PROVE FALSE
  <2>1. PICK m : q \in SamplesOf(f, m)
    BY DEF FamilyMeans
  <2>2. PICK o : r \in SamplesOf(g, o)
    BY DEF FamilyMeans
  <2>3. PICK s, e, v : s \in Seq(NameWord) /\ q = Says(f, m, s, e, v)
    BY <1>1, <2>1, SamplesSay
  <2>4. PICK t, d, w : t \in Seq(NameWord) /\ r = Says(g, o, t, d, w)
    BY <1>1, <2>2, SamplesSay
  <2>5. f.name \o s = g.name \o t
    BY <1>3, <2>3, <2>4 DEF Says
  <2>6. Len(f.name) \in Nat /\ Len(g.name) \in Nat
    BY <1>1, LenProperties
  <2>7. Len(f.name) <= Len(g.name) \/ Len(g.name) <= Len(f.name)
    BY <2>6
  <2>8. PICK a, b : a = f.name /\ b = g.name
    OBVIOUS
  <2>9. IsPrefix(a, b) \/ IsPrefix(b, a)
    BY <1>1, <2>3, <2>4, <2>5, <2>7, <2>8, OneIsPrefix
  <2> QED BY <1>2, <2>8, <2>9
<1> QED BY <1>3 DEF OtherSeries, SameSeries

\* As many label sets as metrics: no two metrics have the same.
LEMMA LabelSetsApart ==
  ASSUME NEW f, FamilyOk(f), Cardinality(LabelSets(f)) = Len(f.metric)
  PROVE  LabelsApart(f)
<1>1. PICK ms : ms = f.metric
  OBVIOUS
<1>2. ms \in Seq(Collected)
  BY <1>1 DEF FamilyOk
<1>3. PICK n \in Nat : n = Len(ms) /\ DOMAIN ms = 1 .. n
  BY <1>2, LenProperties
<1>4. PICK g : g = [i \in 1 .. n |-> ToSet(ms[i].label)]
  OBVIOUS
<1>5. LabelSets(f) = {g[i] : i \in 1 .. n}
  <2>1. ToSet(ms) = {ms[i] : i \in 1 .. n}
    BY <1>3 DEF ToSet
  <2>2. LabelSets(f) = {ToSet(ms[i].label) : i \in 1 .. n}
    BY <1>1, <2>1 DEF LabelSets
  <2> QED BY <1>4, <2>2
<1>6. g \in Surjection(1 .. n, LabelSets(f))
  <2>1. g \in [1 .. n -> LabelSets(f)]
    BY <1>4, <1>5
  <2>2. \A t \in LabelSets(f) : \E i \in 1 .. n : g[i] = t
    BY <1>5
  <2> QED BY <2>1, <2>2 DEF Surjection
<1>7. IsFiniteSet(1 .. n) /\ Cardinality(1 .. n) = n
  <2>1. IsFiniteSet(1 .. n) /\ Cardinality(1 .. n) = IF 1 > n THEN 0 ELSE n - 1 + 1
    BY FS_Interval
  <2> QED BY <2>1
<1>8. g \in Injection(1 .. n, LabelSets(f))
  BY <1>1, <1>3, <1>6, <1>7, FS_SurjSameCardinalityImpliesInj
<1>9. \A i, j \in 1 .. n : g[i] = g[j] => i = j
  <2>1. DOMAIN g = 1 .. n
    BY <1>4
  <2> QED BY <1>8, <2>1 DEF Injection, IsInjective
<1>10. ASSUME NEW i \in 1 .. n, NEW j \in 1 .. n, PairSet(ms[i].label) = PairSet(ms[j].label)
       PROVE  g[i] = g[j]
  <2>1. PICK a, b : a = ms[i].label /\ b = ms[j].label
    OBVIOUS
  <2>2. a \in Labels /\ b \in Labels
    <3>1. ms[i] \in Collected /\ ms[j] \in Collected
      BY <1>2, <1>3, ElementOfSeq
    <3> QED BY <2>1, <3>1 DEF Collected
  <2>3. ASSUME NEW c \in Labels
        PROVE  /\ \A k \in DOMAIN c : c[k] = [name |-> c[k].name, value |-> c[k].value]
               /\ \A x, y : <<x, y>> \in PairSet(c) <=> [name |-> x, value |-> y] \in ToSet(c)
    <3>1. PICK R : R = [name : Seq(LabelWord), value : Seq(Word)]
      OBVIOUS
    <3>2. c \in Seq(R)
      BY <3>1 DEF Labels
    <3>3. \A k \in DOMAIN c : c[k] \in R
      <4>1. DOMAIN c = 1 .. Len(c)
        BY <3>2, LenProperties
      <4> QED BY <3>2, <4>1, ElementOfSeq
    <3>4. \A k \in DOMAIN c : c[k] = [name |-> c[k].name, value |-> c[k].value]
      BY <3>1, <3>3
    <3>5. ASSUME NEW x, NEW y
          PROVE  <<x, y>> \in PairSet(c) <=> [name |-> x, value |-> y] \in ToSet(c)
      <4>1. <<x, y>> \in PairSet(c) <=> \E k \in DOMAIN c : c[k].name = x /\ c[k].value = y
        BY DEF PairSet
      <4>2. PICK z : z = [name |-> x, value |-> y]
        OBVIOUS
      <4>3. \A k \in DOMAIN c : (c[k] = z <=> c[k].name = x /\ c[k].value = y)
        <5> TAKE k \in DOMAIN c
        <5>1. c[k] = z => c[k].name = x /\ c[k].value = y
          BY <4>2
        <5>2. c[k].name = x /\ c[k].value = y => c[k] = z
          BY <3>4, <4>2
        <5> QED BY <5>1, <5>2
      <4> QED BY <4>1, <4>2, <4>3 DEF ToSet
    <3> QED BY <3>4, <3>5
  <2>4. ASSUME NEW c \in Labels, NEW d \in Labels, PairSet(c) = PairSet(d)
        PROVE  ToSet(c) \subseteq ToSet(d)
    <3> SUFFICES ASSUME NEW k \in DOMAIN c PROVE c[k] \in ToSet(d)
      BY DEF ToSet
    <3>1. PICK x, y : x = c[k].name /\ y = c[k].value
      OBVIOUS
    <3>2. c[k] = [name |-> x, value |-> y]
      BY <2>3, <3>1
    <3>3. c[k] \in ToSet(c)
      BY DEF ToSet
    <3>4. <<x, y>> \in PairSet(d)
      BY <2>3, <2>4, <3>2, <3>3
    <3> QED BY <2>3, <3>2, <3>4
  <2>5. ToSet(a) = ToSet(b)
    <3>1. PairSet(a) = PairSet(b) /\ PairSet(b) = PairSet(a)
      BY <1>10, <2>1
    <3>2. ToSet(a) \subseteq ToSet(b) /\ ToSet(b) \subseteq ToSet(a)
      BY <2>2, <2>4, <3>1
    <3> QED BY <3>2
  <2> QED BY <1>4, <2>1, <2>5
<1>11. \A i, j \in 1 .. n : i < j => i # j
  BY <1>3
<1>12. \A i, j \in 1 .. n : i < j => PairSet(ms[i].label) # PairSet(ms[j].label)
  BY <1>9, <1>10, <1>11
<1> QED BY <1>1, <1>3, <1>12 DEF LabelsApart

\* What can be collected.
CollectedFamily == [name : Names, type : Types, help : Helps, metric : Seq(Collected)]
CollectedOk(fs) ==
  /\ fs \in Seq(CollectedFamily)
  /\ \A i \in DOMAIN fs : FamilyOk(fs[i])
  /\ \A i, j \in DOMAIN fs : i # j => fs[i].name # fs[j].name

\* Any text says what was collected.
LEMMA TextWritten ==
  ASSUME NEW fs, CollectedOk(fs)
  PROVE  /\ Serialize(fs) \in Seq(Word)
         /\ WrittenAs(Serialize(fs), UNION {FamilyMeans(f) : f \in ToSet(fs)})
         /\ (/\ \A f \in ToSet(fs) : LabelsApart(f)
             /\ \A f, g \in ToSet(fs) : ~ Extends(g, f)) => Unique(Serialize(fs))
<1>1. fs \in Seq(CollectedFamily)
  BY DEF CollectedOk
<1>2. PICK n \in Nat : n = Len(fs) /\ DOMAIN fs = 1 .. n
  BY <1>1, LenProperties
<1>3. \A i \in 1 .. n : FamilyOk(fs[i]) /\ fs[i] \in ToSet(fs)
  BY <1>2 DEF CollectedOk, ToSet
<1>4. PICK s, Q : s = [i \in DOMAIN fs |-> SerializeFamily(fs[i])]
                  /\ Q = [i \in 1 .. n |-> FamilyMeans(fs[i])]
  OBVIOUS
<1>5. \A i \in 1 .. n : s[i] = SerializeFamily(fs[i]) /\ Q[i] = FamilyMeans(fs[i])
  BY <1>2, <1>4
<1>6. \A i \in 1 .. n : /\ s[i] \in Seq(Word) /\ WrittenAs(s[i], Q[i])
                        /\ LabelsApart(fs[i]) => Unique(s[i])
  BY <1>3, <1>5, FamilyWritten
<1>7. s \in Seq(Seq(Word)) /\ Len(s) = n
  BY <1>2, <1>4, <1>6
<1>8. PICK U : U = UNION {Q[i] : i \in 1 .. n}
  OBVIOUS
<1>9. PICK t : t = FlattenSeq(s)
  OBVIOUS
<1>10. \A i \in 1 .. n : WrittenAs(s[i], Q[i])
  BY <1>6
<1>11. WrittenAs(t, U) /\ t \in Seq(Word)
  BY <1>7, <1>8, <1>9, <1>10, WrittenThrough, FlattenType
<1>12. ASSUME \A f \in ToSet(fs) : LabelsApart(f), \A f, g \in ToSet(fs) : ~ Extends(g, f)
       PROVE  Unique(t)
  <2>1. \A i \in 1 .. n : Unique(s[i])
    BY <1>3, <1>6, <1>12
  <2>2. ASSUME NEW i \in 1 .. n, NEW j \in 1 .. n, i < j PROVE OtherSeries(Q[i], Q[j])
    <3>1. fs[i].name # fs[j].name
      BY <1>2, <2>2 DEF CollectedOk
    <3>2. ~ Extends(fs[i], fs[j]) /\ ~ Extends(fs[j], fs[i])
      BY <1>3, <1>12
    <3> QED BY <1>3, <1>5, <3>1, <3>2, FamiliesApart
  <2> QED BY <1>7, <1>8, <1>9, <1>10, <2>1, <2>2, WrittenThrough
<1>13. U = UNION {FamilyMeans(f) : f \in ToSet(fs)}
  <2>1. ToSet(fs) = {fs[i] : i \in 1 .. n}
    BY <1>2 DEF ToSet
  <2> QED BY <1>5, <1>8, <2>1
<1>14. t = Serialize(fs)
  BY <1>4, <1>9, Zenon DEF Serialize
<1> QED BY <1>11, <1>12, <1>13, <1>14

-----------------------------------------------------------------------------
\* Text: what can be collected stays so.

\* What the checks let into a family are words without separators.
LEMMA NamesChecked ==
  ASSUME NEW name \in Names, CheckMetricName(name)
  PROVE  name \in Seq(NameWord)
<1>1. name \in Seq(STRING)
  BY SerializerAssumption
<1>2. \A c \in Letters \cup Digits : c \notin {"#", "{", " ", "=", "\n"}
  BY TokenAssumption
<1>3. ASSUME NEW c \in ToSet(name), c \in STRING PROVE c \in NameWord
  <2>1. CASE c \in Letters \cup Digits
    <3>1. c \notin {"#", "{", " ", "=", "\n"}
      BY <1>2, <2>1
    <3> QED BY <1>3, <3>1, Zenon DEF NameWord, Plain, Word
  <2>2. CASE c = "_"
    BY <2>2, Zenon DEF NameWord, Plain, Word
  <2>3. CASE c = ":"
    BY <2>3, Zenon DEF NameWord, Plain, Word
  <2>4. isAlphaNumeric(c) \/ c \in {"_", ":"}
    BY Zenon DEF CheckMetricName
  <2> QED BY <2>1, <2>2, <2>3, <2>4, Zenon DEF isAlphaNumeric
<1>4. DOMAIN name = 1 .. Len(name) /\ \A i \in 1 .. Len(name) : name[i] \in STRING
  BY <1>1, LenProperties, ElementOfSeq
<1>5. \A i \in 1 .. Len(name) : name[i] \in NameWord
  BY <1>3, <1>4 DEF ToSet
<1> HIDE DEF NameWord
<1> QED BY <1>1, <1>5

\* Label names that pass are such words too, and not those of points.
LEMMA LabelNamesChecked ==
  ASSUME NEW name \in LabelNames, NEW type, CheckLabelName(name, type)
  PROVE  name \in Seq(LabelWord) /\ name \notin Reserved(type)
<1>1. name \in Seq(STRING)
  BY SerializerAssumption
<1>2. \A c \in Letters \cup Digits : c \notin {"#", "{", " ", "=", "\n"}
  BY TokenAssumption
<1>3. ASSUME NEW c \in ToSet(name), c \in STRING PROVE c \in LabelWord
  <2>1. CASE c \in Letters \cup Digits
    <3>1. c \notin {"#", "{", " ", "=", "\n"}
      BY <1>2, <2>1
    <3> QED BY <1>3, <3>1, Zenon DEF LabelWord, Plain, Word
  <2>2. CASE c = "_"
    BY <2>2, Zenon DEF LabelWord, Plain, Word
  <2>3. isAlphaNumeric(c) \/ c = "_"
    BY Zenon DEF CheckLabelName, validLabelCharacters
  <2> QED BY <2>1, <2>2, <2>3, Zenon DEF isAlphaNumeric
<1>4. DOMAIN name = 1 .. Len(name) /\ \A i \in 1 .. Len(name) : name[i] \in STRING
  BY <1>1, LenProperties, ElementOfSeq
<1>5. \A i \in 1 .. Len(name) : name[i] \in LabelWord
  BY <1>3, <1>4 DEF ToSet
<1>6. name \in Seq(LabelWord)
  BY <1>1, <1>5
<1> QED BY <1>6 DEF CheckLabelName

\* A family whose metrics change.
LEMMA FamilyChanges ==
  ASSUME NEW fs, CollectedOk(fs), NEW n \in DOMAIN fs, NEW ms \in Seq(Collected),
         \A i \in DOMAIN ms : MetricOk(fs[n].type, ms[i])
  PROVE  CollectedOk([fs EXCEPT ![n].metric = ms])
<1>1. PICK gs : gs = [fs EXCEPT ![n].metric = ms]
  OBVIOUS
<1>2. fs \in Seq(CollectedFamily) /\ fs[n] \in CollectedFamily
  <2>1. fs \in Seq(CollectedFamily)
    BY DEF CollectedOk
  <2>2. n \in 1 .. Len(fs)
    BY <2>1, LenProperties
  <2> QED BY <2>1, <2>2, ElementOfSeq
<1>3. PICK g : g = [fs[n] EXCEPT !.metric = ms]
  OBVIOUS
<1>4. g \in CollectedFamily /\ g.name = fs[n].name /\ g.type = fs[n].type
      /\ g.help = fs[n].help /\ g.metric = ms
  BY <1>2, <1>3 DEF CollectedFamily
<1>5. FamilyOk(g)
  <2>1. FamilyOk(fs[n])
    BY DEF CollectedOk
  <2> QED BY <1>4, <2>1 DEF FamilyOk
<1>6. gs = [fs EXCEPT ![n] = g]
  BY <1>1, <1>3
<1>7. DOMAIN gs = DOMAIN fs /\ gs[n] = g /\ \A i \in DOMAIN fs : i # n => gs[i] = fs[i]
  BY <1>6
<1>8. gs \in Seq(CollectedFamily)
  <2> HIDE DEF CollectedFamily
  <2> QED BY <1>2, <1>4, <1>6
<1>9. \A i \in DOMAIN gs : FamilyOk(gs[i]) /\ gs[i].name = fs[i].name
  BY <1>4, <1>5, <1>7 DEF CollectedOk
<1>10. \A i, j \in DOMAIN gs : i # j => gs[i].name # gs[j].name
  BY <1>7, <1>9 DEF CollectedOk
<1>11. CollectedOk(gs)
  BY <1>8, <1>9, <1>10 DEF CollectedOk
<1> QED BY <1>1, <1>11

\* The last family and its last metric.
LEMMA LastOnes ==
  ASSUME CollectedOk(metrics), metrics # <<>>
  PROVE  /\ Len(metrics) \in DOMAIN metrics /\ Family = metrics[Len(metrics)]
         /\ Family.metric \in Seq(Collected) /\ Family.type \in Types
         /\ \A i \in DOMAIN Family.metric : MetricOk(Family.type, Family.metric[i])
         /\ Family.metric # <<>> =>
              /\ Len(Family.metric) \in DOMAIN Family.metric
              /\ Metric = Family.metric[Len(Family.metric)] /\ MetricOk(Family.type, Metric)
<1>1. metrics \in Seq(CollectedFamily)
  BY DEF CollectedOk
<1>2. Len(metrics) \in DOMAIN metrics
  BY <1>1, LenProperties, EmptySeq
<1>3. Family = metrics[Len(metrics)]
  BY DEF Family, Last
<1>4. FamilyOk(Family)
  BY <1>2, <1>3 DEF CollectedOk
<1>5. PICK ms, t : ms = Family.metric /\ t = Family.type
  OBVIOUS
<1>6. ms \in Seq(Collected) /\ t \in Types /\ \A i \in DOMAIN ms : MetricOk(t, ms[i])
  BY <1>4, <1>5 DEF FamilyOk
<1>7. ms # <<>> => Len(ms) \in DOMAIN ms
  BY <1>6, LenProperties, EmptySeq
<1>8. Metric = ms[Len(ms)]
  BY <1>5 DEF Metric, Last
<1> QED BY <1>2, <1>3, <1>5, <1>6, <1>7, <1>8

\* The last metric changes.
LEMMA GrowOk ==
  ASSUME CollectedOk(metrics), HasMetric, NEW m, MetricOk(Family.type, m), Grow(m)
  PROVE  CollectedOk(metrics')
<1>1. PICK n, f, ms : n = Len(metrics) /\ f = Family /\ ms = Family.metric
  OBVIOUS
<1>2. /\ n \in DOMAIN metrics /\ f = metrics[n] /\ ms = f.metric /\ ms \in Seq(Collected)
      /\ \A i \in DOMAIN ms : MetricOk(f.type, ms[i])
      /\ Len(ms) \in DOMAIN ms
  BY <1>1, LastOnes DEF HasMetric
<1>3. PICK k, o : k = Len(ms) /\ o = [ms EXCEPT ![k] = m]
  OBVIOUS
<1>4. m \in Collected /\ MetricOk(f.type, m)
  BY <1>1 DEF MetricOk
<1>5. o \in Seq(Collected) /\ \A i \in DOMAIN o : MetricOk(f.type, o[i])
  <2>1. o \in Seq(Collected) /\ DOMAIN o = DOMAIN ms
    <3> HIDE DEF Collected
    <3> QED BY <1>2, <1>3, <1>4
  <2>2. \A i \in DOMAIN ms : o[i] = IF i = k THEN m ELSE ms[i]
    BY <1>3
  <2> QED BY <1>2, <1>4, <2>1, <2>2
<1>6. metrics' = [metrics EXCEPT ![n].metric = o]
  BY <1>1, <1>2, <1>3 DEF Grow
<1>7. CollectedOk([metrics EXCEPT ![n].metric = o])
  BY <1>2, <1>5, FamilyChanges
<1> QED BY <1>6, <1>7

\* NewFamily.
LEMMA FamilyIsNew ==
  ASSUME CollectedOk(metrics), NEW name \in Names, NEW type \in Types, NEW help \in Helps,
         NewFamily(name, type, help)
  PROVE  CollectedOk(metrics')
<1>1. PICK g : g = [name |-> name, type |-> type, help |-> help, metric |-> <<>>]
  OBVIOUS
<1>2. metrics' = Append(metrics, g) /\ CheckMetricName(name)
      /\ \A i \in DOMAIN metrics : metrics[i].name # name
  BY <1>1, Zenon DEF NewFamily
<1>3. <<>> \in Seq(Collected) /\ DOMAIN <<>> = {}
  BY EmptySeq
<1>4. /\ g.name = name /\ g.type = type /\ g.help = help /\ g.metric = <<>>
      /\ g \in CollectedFamily
  BY <1>1, <1>3 DEF CollectedFamily
<1>5. FamilyOk(g)
  BY <1>2, <1>3, <1>4, NamesChecked DEF FamilyOk
<1>6. metrics \in Seq(CollectedFamily)
  BY DEF CollectedOk
<1>7. PICK n \in Nat : n = Len(metrics) /\ DOMAIN metrics = 1 .. n
  BY <1>6, LenProperties
<1>8. PICK gs : gs = metrics'
  OBVIOUS
<1>9. /\ gs \in Seq(CollectedFamily) /\ Len(gs) = n + 1 /\ gs[n + 1] = g
      /\ \A i \in 1 .. n : gs[i] = metrics[i]
  BY <1>2, <1>4, <1>6, <1>7, <1>8, AppendProperties
<1>10. DOMAIN gs = 1 .. n + 1
  BY <1>9, LenProperties
<1>11. \A i \in 1 .. n + 1 : i \in 1 .. n \/ i = n + 1
  BY <1>7
<1>12. \A i \in 1 .. n + 1 : FamilyOk(gs[i])
  BY <1>5, <1>7, <1>9, <1>11 DEF CollectedOk
<1>13. \A i, j \in 1 .. n + 1 : i # j => gs[i].name # gs[j].name
  <2> TAKE i, j \in 1 .. n + 1
  <2>1. CASE i \in 1 .. n /\ j \in 1 .. n
    BY <1>7, <1>9, <2>1 DEF CollectedOk
  <2>2. CASE i = n + 1 /\ j \in 1 .. n
    BY <1>2, <1>4, <1>7, <1>9, <2>2
  <2>3. CASE i \in 1 .. n /\ j = n + 1
    BY <1>2, <1>4, <1>7, <1>9, <2>3
  <2> QED BY <1>11, <2>1, <2>2, <2>3
<1>14. CollectedOk(gs)
  BY <1>9, <1>10, <1>12, <1>13 DEF CollectedOk
<1> QED BY <1>8, <1>14

\* NewMetric.
LEMMA MetricIsNew ==
  ASSUME CollectedOk(metrics), NEW number \in Doubles, NEW value \in Doubles,
         NEW timestamp \in Timestamps, NewMetric(number, value, timestamp)
  PROVE  CollectedOk(metrics')
<1>1. PICK n, f, ms : n = Len(metrics) /\ f = metrics[n] /\ ms = f.metric
  OBVIOUS
<1>2. metrics # <<>>
  BY DEF NewMetric
<1>3. /\ n \in DOMAIN metrics /\ f = Family /\ ms \in Seq(Collected)
      /\ \A i \in DOMAIN ms : MetricOk(f.type, ms[i])
  <2>1. n \in DOMAIN metrics /\ f = Family
    BY <1>1, <1>2, LastOnes
  <2>2. /\ Family.metric \in Seq(Collected)
        /\ \A i \in DOMAIN Family.metric : MetricOk(Family.type, Family.metric[i])
    BY <1>2, LastOnes
  <2> QED BY <1>1, <2>1, <2>2
<1>4. PICK m : m = [label |-> <<>>, points |-> <<>>, count |-> number, value |-> value,
                    timestamp |-> timestamp]
  OBVIOUS
<1>5. /\ m.label = <<>> /\ m.points = <<>> /\ m.count = number /\ m.value = value
      /\ m \in Collected
  <2>1. <<>> \in Labels /\ <<>> \in Seq(Point)
    BY EmptySeq DEF Labels
  <2> QED BY <1>4, <2>1 DEF Collected
<1>6. MetricOk(f.type, m)
  <2>1. DOMAIN <<>> = {} /\ ToSet(<<>>) = {}
    BY DEF ToSet
  <2> QED BY <1>5, <2>1 DEF MetricOk, LabelsOk, NamedApart, PointsOk
<1>7. PICK o : o = Append(ms, m)
  OBVIOUS
<1>8. o \in Seq(Collected) /\ \A i \in DOMAIN o : MetricOk(f.type, o[i])
  <2>1. PICK k \in Nat : k = Len(ms) /\ DOMAIN ms = 1 .. k
    BY <1>3, LenProperties
  <2>2. o \in Seq(Collected) /\ Len(o) = k + 1 /\ o[k + 1] = m /\ \A i \in 1 .. k : o[i] = ms[i]
    BY <1>3, <1>5, <1>7, <2>1, AppendProperties
  <2>3. DOMAIN o = 1 .. k + 1
    BY <2>2, LenProperties
  <2>4. \A i \in 1 .. k + 1 : i \in 1 .. k \/ i = k + 1
    BY <2>1
  <2> QED BY <1>3, <1>6, <2>1, <2>2, <2>3, <2>4
<1>9. metrics' = [metrics EXCEPT ![n].metric = o]
  <2>1. metrics' = [metrics EXCEPT ![n].metric = Append(@, m)]
    BY <1>1, <1>4, Zenon DEF NewMetric
  <2>2. [metrics EXCEPT ![n].metric = Append(@, m)] = [metrics EXCEPT ![n].metric = o]
    BY <1>1, <1>3, <1>7
  <2> QED BY <2>1, <2>2
<1>10. CollectedOk([metrics EXCEPT ![n].metric = o])
  BY <1>1, <1>3, <1>8, FamilyChanges
<1> QED BY <1>9, <1>10

\* The labels of a metric change: its points stay.
LEMMA LabelsChange ==
  ASSUME NEW type, NEW m, MetricOk(type, m), NEW ls \in Labels, LabelsOk(type, ls)
  PROVE  MetricOk(type, [m EXCEPT !.label = ls])
<1>1. PICK o : o = [m EXCEPT !.label = ls]
  OBVIOUS
<1>2. o \in Collected /\ o.label = ls /\ o.points = m.points /\ o.count = m.count
  BY <1>1 DEF MetricOk, Collected
<1>3. PointsOk(type, o)
  BY <1>2 DEF MetricOk, PointsOk
<1> QED BY <1>1, <1>2, <1>3 DEF MetricOk

\* NewLabel.
LEMMA LabelIsNew ==
  ASSUME CollectedOk(metrics), NEW name \in LabelNames, NewLabel(name)
  PROVE  CollectedOk(metrics')
<1>1. HasMetric /\ metrics # <<>> /\ Family.metric # <<>>
  BY DEF NewLabel, HasMetric
<1>2. PICK m, t : m = Metric /\ t = Family.type
  OBVIOUS
<1>3. MetricOk(t, m)
  BY <1>1, <1>2, LastOnes
<1>4. PICK R : R = [name : Seq(LabelWord), value : Seq(Word)]
  OBVIOUS
<1>5. PICK l : l = Label(name, <<>>)
  OBVIOUS
<1>6. l \in R /\ l.name = name /\ name \notin Reserved(t)
  <2>1. name \in Seq(LabelWord) /\ name \notin Reserved(t)
    BY <1>2, LabelNamesChecked DEF NewLabel
  <2>2. <<>> \in Seq(Word)
    BY EmptySeq
  <2> QED BY <1>4, <1>5, <2>1, <2>2 DEF Label
<1>7. PICK ls, n : ls = m.label /\ n = Len(ls)
  OBVIOUS
<1>8. ls \in Seq(R) /\ n \in Nat /\ DOMAIN ls = 1 .. n
  <2>1. ls \in Seq(R)
    BY <1>3, <1>4, <1>7 DEF MetricOk, Collected, Labels
  <2> QED BY <1>7, <2>1, LenProperties
<1>9. PICK o : o = Append(ls, l)
  OBVIOUS
<1>10. o \in Seq(R) /\ Len(o) = n + 1 /\ o[n + 1] = l /\ \A i \in 1 .. n : o[i] = ls[i]
  BY <1>6, <1>7, <1>8, <1>9, AppendProperties
<1>11. DOMAIN o = 1 .. n + 1
  BY <1>10, LenProperties
<1>12. \A i \in 1 .. n + 1 : i \in 1 .. n \/ i = n + 1
  BY <1>8
<1>13. \A i \in 1 .. n : ls[i].name # name
  BY <1>2, <1>7, <1>8 DEF NewLabel
<1>14. LabelsOk(t, ls)
  BY <1>3, <1>7 DEF MetricOk
<1>15. NamedApart(o)
  <2> SUFFICES ASSUME NEW i \in 1 .. n + 1, NEW j \in 1 .. n + 1, i # j PROVE o[i].name # o[j].name
    BY <1>11 DEF NamedApart
  <2>1. CASE i \in 1 .. n /\ j \in 1 .. n
    BY <1>8, <1>10, <1>14, <2>1 DEF LabelsOk, NamedApart
  <2>2. CASE i = n + 1 /\ j \in 1 .. n
    BY <1>6, <1>10, <1>13, <2>2
  <2>3. CASE i \in 1 .. n /\ j = n + 1
    BY <1>6, <1>10, <1>13, <2>3
  <2> QED BY <1>12, <2>1, <2>2, <2>3
<1>16. \A i \in 1 .. n + 1 : o[i].name \notin Reserved(t)
  BY <1>6, <1>8, <1>10, <1>12, <1>14 DEF LabelsOk
<1>17. o \in Labels /\ LabelsOk(t, o)
  BY <1>4, <1>10, <1>11, <1>15, <1>16 DEF Labels, LabelsOk
<1>18. MetricOk(t, [m EXCEPT !.label = o])
  BY <1>3, <1>17, LabelsChange
<1>19. Grow([m EXCEPT !.label = o])
  BY <1>2, <1>5, <1>7, <1>9 DEF NewLabel
<1> QED BY <1>1, <1>2, <1>18, <1>19, GrowOk

\* LabelGrows.
LEMMA LabelValueGrows ==
  ASSUME CollectedOk(metrics), NEW char \in Chars, LabelGrows(char)
  PROVE  CollectedOk(metrics')
<1>1. HasMetric /\ metrics # <<>> /\ Family.metric # <<>> /\ Metric.label # <<>>
  BY DEF LabelGrows, HasMetric
<1>2. PICK m, t : m = Metric /\ t = Family.type
  OBVIOUS
<1>3. MetricOk(t, m)
  BY <1>1, <1>2, LastOnes
<1>4. PICK R : R = [name : Seq(LabelWord), value : Seq(Word)]
  OBVIOUS
<1>5. PICK ls, n : ls = m.label /\ n = Len(ls)
  OBVIOUS
<1>6. ls \in Seq(R) /\ n \in Nat /\ DOMAIN ls = 1 .. n /\ n \in DOMAIN ls
  <2>1. ls \in Seq(R) /\ ls # <<>>
    BY <1>1, <1>2, <1>3, <1>4, <1>5 DEF MetricOk, Collected, Labels
  <2> QED BY <1>5, <2>1, LenProperties, EmptySeq
<1>7. PICK l : l = [ls[n] EXCEPT !.value = Append(@, char)]
  OBVIOUS
<1>8. ls[n] \in R
  BY <1>5, <1>6, ElementOfSeq
<1>9. char \in Word
  BY Zenon DEF Word
<1>10. l \in R /\ l.name = ls[n].name
  <2>1. ls[n].value \in Seq(Word)
    BY <1>4, <1>8
  <2>2. Append(ls[n].value, char) \in Seq(Word)
    BY <1>9, <2>1, AppendProperties
  <2> QED BY <1>4, <1>7, <1>8, <2>2
<1>11. PICK o : o = [ls EXCEPT ![n] = l]
  OBVIOUS
<1>12. o \in Seq(R) /\ DOMAIN o = 1 .. n /\ \A i \in 1 .. n : o[i].name = ls[i].name
  <2>1. o \in Seq(R) /\ Len(o) = n /\ \A j \in 1 .. n : o[j] = IF j = n THEN l ELSE ls[j]
    BY <1>5, <1>6, <1>10, <1>11, ExceptSeq
  <2>2. DOMAIN o = 1 .. n
    BY <2>1, LenProperties
  <2> QED BY <1>10, <2>1, <2>2
<1>13. o \in Labels /\ LabelsOk(t, o)
  <2>1. LabelsOk(t, ls)
    BY <1>3, <1>5 DEF MetricOk
  <2>2. o \in Labels
    BY <1>4, <1>12 DEF Labels
  <2> QED BY <1>6, <1>12, <2>1, <2>2 DEF LabelsOk, NamedApart
<1>14. MetricOk(t, [m EXCEPT !.label = o])
  BY <1>3, <1>13, LabelsChange
<1>15. Grow([m EXCEPT !.label[n].value = Append(@, char)])
  BY <1>2, <1>5 DEF LabelGrows
<1>16. [m EXCEPT !.label[n].value = Append(@, char)] = [m EXCEPT !.label = o]
  BY <1>5, <1>7, <1>11
<1>17. Grow([m EXCEPT !.label = o])
  BY <1>15, <1>16
<1> QED BY <1>1, <1>2, <1>14, <1>17, GrowOk

\* NewPoint.
LEMMA PointIsNew ==
  ASSUME CollectedOk(metrics), NEW b \in DOMAIN Bounds, NEW value \in Doubles,
         NewPoint(b, value)
  PROVE  CollectedOk(metrics')
<1>1. HasMetric /\ metrics # <<>> /\ Family.metric # <<>>
  BY DEF NewPoint, HasMetric
<1>2. PICK m, t : m = Metric /\ t = Family.type
  OBVIOUS
<1>3. MetricOk(t, m)
  BY <1>1, <1>2, LastOnes
<1>4. PICK ps, n : ps = m.points /\ n = Len(ps)
  OBVIOUS
<1>5. ps \in Seq(Point) /\ n \in Nat /\ DOMAIN ps = 1 .. n
  <2>1. ps \in Seq(Point)
    BY <1>3, <1>4 DEF MetricOk, Collected
  <2> QED BY <1>4, <2>1, LenProperties
<1>6. /\ \A p \in ToSet(ps) : \E j \in 1 .. b - 1 : Bounds[j] = p.at
      /\ Bounds[b] = "inf" => t = "histogram" /\ value = m.count
  BY <1>2, <1>4 DEF NewPoint
<1>7. PICK N \in Nat : N = Len(Bounds) /\ DOMAIN Bounds = 1 .. N
  BY BoundsAssumption, LenProperties
<1>8. PICK a : a = Bounds[b]
  OBVIOUS
<1>9. a \in STRING /\ a \in ToSet(Bounds)
  <2>1. PICK S : S = STRING \ {"nan", "-inf", "+Inf"}
    OBVIOUS
  <2>2. Bounds \in Seq(S)
    BY <2>1, BoundsAssumption, Zenon
  <2>3. a \in S
    BY <1>7, <1>8, <2>2, ElementOfSeq
  <2>4. a \in STRING
    BY <2>1, <2>3, Zenon
  <2> QED BY <1>8, <2>4 DEF ToSet
<1>10. \A p \in ToSet(ps) : p.at # a /\ p.at # "inf"
  <2> TAKE p \in ToSet(ps)
  <2>1. PICK j \in 1 .. b - 1 : Bounds[j] = p.at
    BY <1>6
  <2>2. j \in DOMAIN Bounds /\ b \in DOMAIN Bounds /\ j < b
    BY <1>7
  <2> QED BY <1>8, <2>1, <2>2, BoundsAssumption
<1>11. PICK x : x = [at |-> a, value |-> value]
  OBVIOUS
<1>12. x \in Point /\ x.at = a /\ x.value = value
  BY <1>9, <1>11 DEF Point
<1>13. PICK o : o = Append(ps, x)
  OBVIOUS
<1>14. o \in Seq(Point) /\ Len(o) = n + 1 /\ o[n + 1] = x /\ \A i \in 1 .. n : o[i] = ps[i]
  <2> HIDE DEF Point
  <2> QED BY <1>4, <1>5, <1>12, <1>13, AppendProperties
<1>15. DOMAIN o = 1 .. n + 1
  BY <1>14, LenProperties
<1>16. \A i \in 1 .. n + 1 : i \in 1 .. n \/ i = n + 1
  BY <1>5
<1>17. \A i \in 1 .. n : ps[i] \in ToSet(ps)
  BY <1>5 DEF ToSet
<1>18. PointsOk(t, m)
  BY <1>3 DEF MetricOk
<1>19. \A p \in ToSet(o) : p \in ToSet(ps) \/ p = x
  <2> SUFFICES ASSUME NEW i \in 1 .. n + 1 PROVE o[i] \in ToSet(ps) \/ o[i] = x
    BY <1>15 DEF ToSet
  <2> QED BY <1>14, <1>16, <1>17
<1>20. PICK r : r = [m EXCEPT !.points = o]
  OBVIOUS
<1>21. r \in Collected /\ r.label = m.label /\ r.points = o /\ r.count = m.count
  <2>1. m \in Collected
    BY <1>3 DEF MetricOk
  <2> QED BY <1>14, <1>20, <2>1 DEF Collected
<1>22. \A p \in ToSet(o) : p.at \in ToSet(Bounds)
  BY <1>4, <1>9, <1>12, <1>18, <1>19 DEF PointsOk
<1>23. \A p \in ToSet(o) : p.at = "inf" => t = "histogram" /\ p.value = m.count
  BY <1>4, <1>6, <1>8, <1>12, <1>18, <1>19 DEF PointsOk
<1>24. ASSUME NEW i \in 1 .. n + 1, NEW j \in 1 .. n + 1, i < j
       PROVE  o[i].at # o[j].at /\ o[i].at # "inf"
  <2>1. i \in 1 .. n
    BY <1>5, <1>24
  <2>2. o[i] = ps[i] /\ ps[i] \in ToSet(ps)
    BY <1>14, <1>17, <2>1
  <2>3. CASE j \in 1 .. n
    <3>1. o[j] = ps[j]
      BY <1>14, <2>3
    <3> QED BY <1>4, <1>5, <1>18, <1>24, <2>1, <2>2, <2>3, <3>1 DEF PointsOk
  <2>4. CASE j = n + 1
    BY <1>10, <1>12, <1>14, <2>2, <2>4
  <2> QED BY <1>16, <2>3, <2>4
<1>25. PointsOk(t, r)
  BY <1>15, <1>21, <1>22, <1>23, <1>24 DEF PointsOk
<1>26. MetricOk(t, r)
  BY <1>3, <1>21, <1>25 DEF MetricOk
<1>27. Grow(r)
  BY <1>2, <1>4, <1>8, <1>11, <1>13, <1>20 DEF NewPoint
<1> QED BY <1>1, <1>2, <1>26, <1>27, GrowOk

\* What is collected has families with distinct names that CheckMetricName let in,
\* metrics with labels that are apart and not reserved, and points in their order.
LEMMA CollectedHolds == TextSpec => []CollectedOk(metrics)
<1>1. TextInit => CollectedOk(metrics)
  <2> SUFFICES ASSUME TextInit PROVE CollectedOk(metrics)
    OBVIOUS
  <2>1. <<>> \in Seq(CollectedFamily) /\ DOMAIN <<>> = {}
    BY EmptySeq
  <2> QED BY <2>1 DEF TextInit, CollectedOk
<1>2. CollectedOk(metrics) /\ [TextNext]_<<metrics, size>> => CollectedOk(metrics)'
  <2> SUFFICES ASSUME CollectedOk(metrics), [TextNext]_<<metrics, size>>
               PROVE  CollectedOk(metrics)'
    OBVIOUS
  <2> USE CollectedOk(metrics)
  <2>1. ASSUME NEW n \in Names, NEW t \in Types, NEW h \in Helps, NewFamily(n, t, h)
        PROVE  CollectedOk(metrics')
    BY <2>1, FamilyIsNew
  <2>2. ASSUME NEW c \in Doubles, NEW v \in Doubles, NEW t \in Timestamps, NewMetric(c, v, t)
        PROVE  CollectedOk(metrics')
    BY <2>2, MetricIsNew
  <2>3. ASSUME NEW n \in LabelNames, NewLabel(n) PROVE CollectedOk(metrics')
    BY <2>3, LabelIsNew
  <2>4. ASSUME NEW c \in Chars, LabelGrows(c) PROVE CollectedOk(metrics')
    BY <2>4, LabelValueGrows
  <2>5. ASSUME NEW i \in DOMAIN Bounds, NEW v \in Doubles, NewPoint(i, v)
        PROVE  CollectedOk(metrics')
    BY <2>5, PointIsNew
  <2>6. CASE UNCHANGED <<metrics, size>>
    <3>1. metrics' = metrics
      BY <2>6
    <3> QED BY <3>1
  <2>7. CollectedOk(metrics')
    BY <2>1, <2>2, <2>3, <2>4, <2>5, <2>6 DEF TextNext
  <2> QED BY <2>7 DEF CollectedOk
<1> QED BY <1>1, <1>2, PTL DEF TextSpec

-----------------------------------------------------------------------------
\* Text: the theorems.

\* What is read of a text, line by line.
LEMMA ReadAs ==
  Read = [i \in Begins(Serialize(metrics)) |-> ReadAt(Serialize(metrics), i)]
BY Zenon DEF Read, Begins, ReadAt, EndOf

\* What was collected is written: the samples of all families, each series once.
LEMMA MetricsWritten ==
  ASSUME CollectedOk(metrics)
  PROVE  /\ WrittenAs(Serialize(metrics), UNION {FamilyMeans(f) : f \in Families})
         /\ Distinct => Unique(Serialize(metrics))
<1>1. /\ WrittenAs(Serialize(metrics), UNION {FamilyMeans(f) : f \in ToSet(metrics)})
      /\ (/\ \A f \in ToSet(metrics) : LabelsApart(f)
          /\ \A f, g \in ToSet(metrics) : ~ Extends(g, f)) => Unique(Serialize(metrics))
  BY TextWritten
<1>2. \A f \in ToSet(metrics) : FamilyOk(f)
  BY DEF CollectedOk, ToSet
<1>3. Distinct => \A f \in ToSet(metrics) : LabelsApart(f)
  BY <1>2, LabelSetsApart DEF Distinct, Families
<1>4. Distinct => \A f, g \in ToSet(metrics) : ~ Extends(g, f)
  BY DEF Distinct, Families
<1> QED BY <1>1, <1>3, <1>4 DEF Families

\* WriteHead, WriteValue: whatever the label values hold, the text is well formed
\* and a reader gets the samples of the metrics, no other, with their values.
THEOREM TextReadsBack == TextSpec => []ReadBack
<1>1. CollectedOk(metrics) => ReadBack
  <2> SUFFICES ASSUME CollectedOk(metrics) PROVE ReadBack
    OBVIOUS
  <2>1. PICK t, W : t = Serialize(metrics) /\ W = UNION {FamilyMeans(f) : f \in Families}
    OBVIOUS
  <2>2. WrittenAs(t, W)
    BY <2>1, MetricsWritten
  <2>3. PICK read : read = Read
    OBVIOUS
  <2>4. DOMAIN read = Begins(t) /\ \A i \in Begins(t) : read[i] = ReadAt(t, i)
    BY <2>1, <2>3, ReadAs
  <2>5. \A i \in DOMAIN read : read[i].at \in {"sample", "comment"}
    BY <2>2, <2>4 DEF WrittenAs, WellRead, IsSample
  <2>6. PICK S : S = {SampleOf(read[i]) : i \in {j \in DOMAIN read : read[j].at = "sample"}}
    OBVIOUS
  <2>7. S \subseteq W
    BY <2>2, <2>4, <2>6 DEF WrittenAs, IsSample
  <2>8. W \subseteq S
    <3> SUFFICES ASSUME NEW q \in W PROVE q \in S
      OBVIOUS
    <3>1. PICK i \in Begins(t) : IsSample(ReadAt(t, i)) /\ q = SampleOf(ReadAt(t, i))
      BY <2>2 DEF WrittenAs
    <3> QED BY <2>4, <2>6, <3>1 DEF IsSample
  <2>9. S = UNION {FamilyMeans(f) : f \in Families}
    BY <2>1, <2>7, <2>8
  <2>10. {SampleOf(read[i]) : i \in {j \in DOMAIN read : read[j].at = "sample"}}
           = UNION {FamilyMeans(f) : f \in Families}
    BY <2>6, <2>9
  <2> QED BY <2>3, <2>5, <2>10, Zenon DEF ReadBack, SampleOf, FamilyMeans
<1> QED BY <1>1, CollectedHolds, PTL

\* SerializeHistogram, SerializeSummary and CheckLabelName: no sample has a label
\* twice and no time series is written twice, unless labels repeat in a family or a
\* family is named like another with a suffix.
THEOREM SeriesAreOnce == TextSpec => []SeriesWrittenOnce
<1>1. CollectedOk(metrics) => SeriesWrittenOnce
  <2> SUFFICES ASSUME CollectedOk(metrics) PROVE SeriesWrittenOnce
    OBVIOUS
  <2>1. PICK t, W : t = Serialize(metrics) /\ W = UNION {FamilyMeans(f) : f \in Families}
    OBVIOUS
  <2>2. WrittenAs(t, W) /\ (Distinct => Unique(t))
    BY <2>1, MetricsWritten
  <2>3. PICK read : read = Read
    OBVIOUS
  <2>4. DOMAIN read = Begins(t) /\ \A i \in Begins(t) : read[i] = ReadAt(t, i)
    BY <2>1, <2>3, ReadAs
  <2>5. PICK lines : lines = {i \in DOMAIN read : read[i].at = "sample"}
    OBVIOUS
  <2>6. \A i \in lines : i \in Begins(t) /\ IsSample(ReadAt(t, i)) /\ read[i] = ReadAt(t, i)
    BY <2>4, <2>5 DEF IsSample
  <2>7. \A i \in lines : Cardinality(NamesOf(read[i])) = Len(read[i].labels)
    BY <2>2, <2>6 DEF WrittenAs, WellRead
  <2>8. ASSUME Distinct, NEW i \in lines, NEW j \in lines,
               read[i].name = read[j].name, ToSet(read[i].labels) = ToSet(read[j].labels)
        PROVE  i = j
    <3>1. SameSeries(SampleOf(read[i]), SampleOf(read[j]))
      BY <2>8 DEF SameSeries, SampleOf
    <3> QED BY <2>2, <2>6, <2>8, <3>1 DEF Unique
  <2>9. ASSUME Distinct, NEW i \in lines, NEW j \in lines,
               <<read[i].name, ToSet(read[i].labels)>> = <<read[j].name, ToSet(read[j].labels)>>
        PROVE  i = j
    <3>1. read[i].name = read[j].name /\ ToSet(read[i].labels) = ToSet(read[j].labels)
      BY <2>9
    <3> QED BY <2>8, <2>9, <3>1
  <2>10. Distinct => \A i, j \in lines :
           <<read[i].name, ToSet(read[i].labels)>> = <<read[j].name, ToSet(read[j].labels)>> => i = j
    BY <2>9
  <2>11. \A i \in lines : Cardinality({read[i].labels[k][1] : k \in DOMAIN read[i].labels})
                          = Len(read[i].labels)
    BY <2>7, Zenon DEF NamesOf
  <2>12. lines = {i \in DOMAIN Read : Read[i].at = "sample"}
    BY <2>3, <2>5
  <2>13. \A i \in {j \in DOMAIN Read : Read[j].at = "sample"} :
           Cardinality({Read[i].labels[k][1] : k \in DOMAIN Read[i].labels}) = Len(Read[i].labels)
    BY <2>3, <2>11, <2>12, Zenon
  <2>14. Distinct => \A i, j \in {k \in DOMAIN Read : Read[k].at = "sample"} :
           <<Read[i].name, ToSet(Read[i].labels)>> = <<Read[j].name, ToSet(Read[j].labels)>> => i = j
    BY <2>3, <2>10, <2>12, Zenon
  <2> QED BY <2>13, <2>14, Zenon DEF SeriesWrittenOnce
<1> QED BY <1>1, CollectedHolds, PTL
=============================================================================
