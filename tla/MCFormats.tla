----------------------------- MODULE MCFormats -----------------------------
(* The components that keep no state between calls, on all inputs up to a    *)
(* bound: texts, paths of groups and authorization headers, one at a time.  *)
EXTENDS TextSerializer, LabelEncoder, BasicAuth

\* Names that pass the checks and names that do not.
MCNames == {<<"m">>, <<"m", "_", "count">>, <<"0", "m">>, <<"_", "_", "m">>, <<"m", "{">>}
MCLabelNames ==
  {<<"k">>, <<"le">>, <<"quantile">>, <<"_", "_", "k">>, <<"k", "=">>, <<>>}
MCTypes == {"counter", "info", "summary", "histogram"}
MCChars == {"n", "\\", "\"", "\n"}
MCBounds == <<"1", "inf">>

\* "j" and "k"; and the bytes "a", "/", "=", and three that need every sextet.
MCPathNames == {<<106>>, <<107>>}
MCPathBytes == {97, 47, 61, 0, 251, 255}

\* The user "a" with the password ":".  Of the token characters "Oj==" gives ":",
\* "=" is padding and "*" is in no token.
MCUser == <<97>>
MCPassword == <<58>>
MCTokens == {79, 106, 61, 42}
MCAuthBytes == {97, 58, 0, 255}

Init == TextInit /\ PathInit /\ AuthInit
Next ==
  \/ TextNext /\ labels = <<>> /\ header = Null /\ UNCHANGED <<labels, header, answer>>
  \/ PathNext /\ size = 0 /\ header = Null /\ UNCHANGED <<metrics, size, header, answer>>
  \/ AuthNext /\ size = 0 /\ labels = <<>> /\ UNCHANGED <<metrics, size, labels>>
Spec == Init /\ [][Next]_<<metrics, size, labels, header, answer>>
=============================================================================
