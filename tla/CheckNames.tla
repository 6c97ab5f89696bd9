----------------------------- MODULE CheckNames -----------------------------
(***************************************************************************)
(* CheckMetricName and CheckLabelName.  A name is a sequence of characters *)
(* in which a run of letters is one, so that "le" is.                      *)
(***************************************************************************)
EXTENDS Sequences, SequencesExt

CONSTANTS Letters, Digits   \* what isLocaleIndependentAlphaNumeric accepts

isAlphaNumeric(c) == c \in Letters \cup Digits

nameStartsValid(n) ==
  /\ n # <<>>
  /\ Head(n) \notin Digits
  /\ ~ IsPrefix(<<"_", "_">>, n)

CheckMetricName(n) ==
  /\ nameStartsValid(n)
  /\ \A c \in ToSet(n) : isAlphaNumeric(c) \/ c \in {"_", ":"}

validLabelCharacters(n) == \A c \in ToSet(n) : isAlphaNumeric(c) \/ c = "_"

\* The label that the serializer adds to the lines of a type.
NoneReserved(type) == {}
Reserved(type) ==
  CASE type = "histogram" -> {<<"le">>} [] type = "summary" -> {<<"quantile">>} [] OTHER -> {}

CheckLabelName(n, type) ==
  /\ nameStartsValid(n)
  /\ n \notin Reserved(type)
  /\ validLabelCharacters(n)
=============================================================================
