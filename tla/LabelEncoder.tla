---------------------------- MODULE LabelEncoder ----------------------------
(***************************************************************************)
(* detail::encodeLabel: the path that names a group on the push gateway,   *)
(* built from the job and the labels of a Gateway, and the labels that the *)
(* server gets back from it.  A path is a sequence of ASCII codes.         *)
(***************************************************************************)
EXTENDS Base64

CONSTANTS
  PathNames,      \* names of labels
  PathBytes,      \* the bytes of label values
  MaxPathLabels,  \* bound: labels of a path
  MaxPathBytes    \* bound: bytes of a value

\* The characters of label names.  A Gateway does not check them.
NameChars == 97 .. 122 \cup 65 .. 90 \cup 48 .. 57 \cup {95}
ASSUME EncoderAssumption == PathNames \subseteq Seq(NameChars) /\ PathBytes \subseteq Byte

VARIABLE labels  \* the labels of the path

Slash == 47
Marker == <<64, 98, 97, 115, 101, 54, 52>>   \* "@base64"

AlsoSlash(c) == c \notin 97 .. 122 \cup 65 .. 90 \cup 48 .. 57 \cup 45 .. 47 \cup {95, 126}
needsEncoding(c) ==
  c \notin 97 .. 122 \cup 65 .. 90 \cup 48 .. 57 \cup {45, 46, 95, 126}

Part(s) == <<Slash>> \o s
encodeLabel(label) ==
  IF label.value = <<>> THEN Part(label.name \o Marker) \o Part(<<Pad>>)
  ELSE IF \E c \in ToSet(label.value) : needsEncoding(c)
  THEN Part(label.name \o Marker) \o Part(base64url_encode(label.value))
  ELSE Part(label.name) \o Part(label.value)

\* The constructor and getUri: the job, the labels, and those of the collectable.
Uri(ls) == FlattenSeq([i \in DOMAIN ls |-> encodeLabel(ls[i])])

PathInit == labels = <<>>

NewPathLabel(n) ==
  /\ Len(labels) < MaxPathLabels
  /\ \A i \in DOMAIN labels : labels[i].name # n
  /\ labels' = Append(labels, [name |-> n, value |-> <<>>])

ValueGrows(b) ==
  /\ labels # <<>> /\ Len(Last(labels).value) < MaxPathBytes
  /\ labels' = [labels EXCEPT ![Len(labels)].value = Append(@, b)]

PathNext == (\E n \in PathNames : NewPathLabel(n)) \/ (\E b \in PathBytes : ValueGrows(b))

PathSpec == PathInit /\ [][PathNext]_labels

-----------------------------------------------------------------------------
(* The server: it splits the path at every slash, decodes what is marked,  *)
(* and takes a lone padding character for the empty value.                 *)

Cut(segments, c) ==
  IF c = Slash THEN Append(segments, <<>>)
  ELSE [segments EXCEPT ![Len(segments)] = Append(@, c)]
Segments(path) ==
  LET upTo[i \in 0 .. Len(path)] == IF i = 0 THEN <<>> ELSE Cut(upTo[i - 1], path[i])
  IN upTo[Len(path)]

Standard(c) == CASE c = 45 -> 43 [] c = 95 -> 47 [] OTHER -> c
ServerValue(codes) ==
  IF codes = <<Pad>> THEN <<>>
  ELSE base64_decode([i \in DOMAIN codes |-> Standard(codes[i])])

ServerLabel(name, codes) ==
  IF IsSuffix(Marker, name)
  THEN [name |-> SubSeq(name, 1, Len(name) - Len(Marker)), value |-> ServerValue(codes)]
  ELSE [name |-> name, value |-> codes]

ServerReads(path) ==
  LET s == Segments(path)
  IN [i \in 1 .. Len(s) \div 2 |-> ServerLabel(s[2 * i - 1], s[2 * i])]

\* encodeLabel, base64url_encode: the server gets the labels, all of them, from the
\* path, so that two groups with different labels never share a path; and the path
\* has no character that a URL gives a meaning of its own.
LabelsRecovered ==
  LET path == Uri(labels)
  IN /\ ServerReads(path) = labels
     /\ Len(Segments(path)) = 2 * Len(labels)
     /\ \A c \in ToSet(path) : ~ needsEncoding(c) \/ c \in {Slash, Pad, Head(Marker)}
=============================================================================
