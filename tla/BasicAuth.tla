----------------------------- MODULE BasicAuth -----------------------------
(***************************************************************************)
(* BasicAuthHandler::authorize: requests with every kind of Authorization  *)
(* header, each the next one's beginning, against a callback that knows    *)
(* one user.  The scheme of a header is its text before the first blank.   *)
(***************************************************************************)
EXTENDS Base64

CONSTANTS
  User, Password,  \* the credentials the callback accepts, as bytes
  Tokens,          \* the characters a token is made of
  AuthBytes,       \* the bytes of what a client that follows the scheme sends
  MaxToken,        \* bound: the characters of a token
  MaxAuthBytes,    \* bound: the bytes of user, colon and password
  Null             \* no header

ASSUME BytesAssumption == Tokens \subseteq Nat /\ AuthBytes \subseteq Byte

Colon == 58
ASSUME CredentialsAssumption == User \in Seq(Byte \ {Colon}) /\ Password \in Seq(Byte)

VARIABLES
  header,          \* the Authorization header of the request
  answer           \* what authorize did: the callback's arguments, the status

Callback(username, password) == username = User /\ password = Password

\* find(':'): the username ends at the first colon.
LastColon(s) == CHOOSE i \in DOMAIN s : s[i] = Colon /\ \A j \in i + 1 .. Len(s) : s[j] # Colon
FirstColon(s) == CHOOSE i \in DOMAIN s : s[i] = Colon /\ \A j \in 1 .. i - 1 : s[j] # Colon

Refused == [called |-> Null, status |-> 401]

AuthorizeInner(h) ==
  IF h = Null \/ h.scheme # "Basic" \/ DecodeThrows(h.token) THEN Refused
  ELSE LET decoded == base64_decode(h.token) IN
       IF Colon \notin ToSet(decoded) THEN Refused
       ELSE LET splitPos == FirstColon(decoded)
                username == SubSeq(decoded, 1, splitPos - 1)
                password == SubSeq(decoded, splitPos + 1, Len(decoded))
            IN [called |-> <<username, password>>,
                status |-> IF Callback(username, password) THEN 200 ELSE 401]

Requests(h) == header' = h /\ answer' = AuthorizeInner(h)

AuthInit == header = Null /\ answer = AuthorizeInner(Null)

OtherScheme == header = Null /\ Requests([scheme |-> "Bearer", token |-> <<>>, sent |-> Null])

\* Any token.
NewToken == header = Null /\ Requests([scheme |-> "Basic", token |-> <<>>, sent |-> Null])
TokenGrows(c) ==
  /\ header # Null /\ header.sent = Null /\ Len(header.token) < MaxToken
  /\ Requests([header EXCEPT !.token = Append(@, c)])

\* A client that follows the scheme encodes user, colon and password.
Sends(user, password) ==
  Requests([scheme |-> "Basic", token |-> base64_encode(user \o <<Colon>> \o password),
            sent |-> <<user, password>>])
UserGrows(b) ==
  /\ b # Colon
  /\ \/ header = Null /\ Sends(<<b>>, <<>>)
     \/ /\ header # Null /\ header.sent # Null /\ header.sent[2] = <<>>
        /\ Len(header.sent[1]) < MaxAuthBytes
        /\ Sends(Append(header.sent[1], b), <<>>)
PasswordGrows(b) ==
  /\ header # Null /\ header.sent # Null
  /\ Len(header.sent[1] \o header.sent[2]) < MaxAuthBytes
  /\ Sends(header.sent[1], Append(header.sent[2], b))

AuthNext ==
  \/ OtherScheme \/ NewToken
  \/ \E c \in Tokens : TokenGrows(c)
  \/ \E b \in AuthBytes : UserGrows(b) \/ PasswordGrows(b)

AuthSpec == AuthInit /\ [][AuthNext]_<<header, answer>>

-----------------------------------------------------------------------------
\* AuthorizeInner, base64_encode and base64_decode: the callback gets exactly the
\* user and the password that a client encoded, colons of the password and bytes
\* of any value included.
CredentialsArrive ==
  (header # Null /\ header.sent # Null) => answer.called = header.sent

\* base64_decode: a token is decoded only if it is whole: groups of four characters
\* of the alphabet, where the last group may end in one or two of padding; a token
\* that is cut off or joined to another never gets to the callback.
OnlyWholeTokens ==
  answer.called # Null =>
    LET t == header.token
        n == Len(t)
    IN /\ header.scheme = "Basic" /\ n % 4 = 0 /\ n > 0
       /\ \A i \in 1 .. n : ~ IsEncoded(t[i]) => i >= n - 1 /\ Pad \in {t[n], t[n - 1]}
       /\ Len(answer.called[1]) + Len(answer.called[2]) + 1
            = (3 * n) \div 4 - (IF t[n - 1] = Pad THEN 2 ELSE IF t[n] = Pad THEN 1 ELSE 0)
=============================================================================
