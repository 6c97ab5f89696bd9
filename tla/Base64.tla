------------------------------- MODULE Base64 -------------------------------
(***************************************************************************)
(* base64_encode, base64url_encode and base64_decode.  Bytes are numbers,  *)
(* encoded characters are their ASCII codes.  The decoder's 32 bit word    *)
(* is shifted on through the whole input; only its last 24 bits are ever   *)
(* read, and these are the group of four characters modelled here.         *)
(***************************************************************************)
EXTENDS Integers, Sequences, SequencesExt

Pad == 61          \* '='
Byte == 0 .. 255

\* Groups of n elements, the last one shorter if need be.
Groups(s, n) ==
  [i \in 1 .. (Len(s) + n - 1) \div n |->
     SubSeq(s, n * (i - 1) + 1, IF n * i < Len(s) THEN n * i ELSE Len(s))]

\* Where the i-th element is: in which group, and where in it.
GroupOf(i, n) == ((i - 1) \div n) + 1
PlaceOf(i, n) == ((i - 1) % n) + 1

-----------------------------------------------------------------------------
\* kEncodeLookup.
EncodeLookup(i) ==
  CASE i < 26 -> 65 + i [] i \in 26 .. 51 -> 71 + i [] i \in 52 .. 61 -> i - 4
    [] i = 62 -> 43 [] i = 63 -> 47

\* The 24 bits of temp: of three bytes, or of four sextets.
OfBytes(a, b, c) == a * 65536 + b * 256 + c
OfSextets(w, x, y, z) == w * 262144 + x * 4096 + y * 64 + z
Bytes(temp) == <<temp \div 65536, (temp \div 256) % 256, temp % 256>>
Sextets(temp) == <<temp \div 262144, (temp \div 4096) % 64, (temp \div 64) % 64, temp % 64>>

\* Three bytes are four characters; of fewer, the rest is padding.
EncodeGroup(g) ==
  LET byte(i) == IF i <= Len(g) THEN g[i] ELSE 0
      sextets == Sextets(OfBytes(byte(1), byte(2), byte(3)))
  IN [i \in 1 .. 4 |-> IF i <= Len(g) + 1 THEN EncodeLookup(sextets[i]) ELSE Pad]

base64_encode(input) ==
  LET groups == Groups(input, 3)
  IN [i \in 1 .. 4 * Len(groups) |->
       EncodeGroup(groups[GroupOf(i, 4)])[PlaceOf(i, 4)]]

UrlSafe(c) == CASE c = 43 -> 45 [] c = 47 -> 95 [] OTHER -> c
base64url_encode(input) ==
  LET s == base64_encode(input) IN [i \in DOMAIN s |-> UrlSafe(s[i])]

-----------------------------------------------------------------------------
IsEncoded(c) == c \in 65 .. 90 \cup 97 .. 122 \cup 48 .. 57 \cup {43, 47}
Decoded(c) ==
  CASE c \in 65 .. 90 -> c - 65 [] c \in 97 .. 122 -> c - 71 [] c \in 48 .. 57 -> c + 4
    [] c = 43 -> 62 [] c = 47 -> 63

\* The characters of a group before its padding, or before one that is invalid.
Significant(g) ==
  LET stops == {i \in 1 .. 4 : ~ IsEncoded(g[i])}
  IN IF stops = {} THEN 4 ELSE (CHOOSE i \in stops : \A j \in stops : i <= j) - 1

\* Padding ends the input: it has one or two characters, the last ones.  What
\* follows the first of two is not looked at.
PadsAnywhere(g, last) ==
  LET k == Significant(g)
  IN k < 4 /\ (g[k + 1] # Pad \/ k < 2)
Invalid(g, last) ==
  LET k == Significant(g)
  IN k < 4 /\ (g[k + 1] # Pad \/ ~ last \/ k < 2)

DecodeGroup(g) ==
  LET k == Significant(g)
      value(i) == IF i <= k THEN Decoded(g[i]) ELSE 0
  IN Bytes(OfSextets(value(1), value(2), value(3), value(4)))

\* Whether base64_decode throws, and what it returns when it does not.
DecodeThrows(input) ==
  LET groups == Groups(input, 4)
  IN Len(input) % 4 # 0
     \/ \E i \in DOMAIN groups : Invalid(groups[i], i = Len(groups))

\* Three bytes of each group, but of the last as many as its characters before the
\* padding have bits for.
base64_decode(input) ==
  LET groups == Groups(input, 4)
      n == Len(groups)
      length == IF n = 0 THEN 0 ELSE 3 * (n - 1) + Significant(groups[n]) - 1
  IN [i \in 1 .. length |-> DecodeGroup(groups[GroupOf(i, 3)])[PlaceOf(i, 3)]]
=============================================================================
