-------------------------------- MODULE Url ---------------------------------
(***************************************************************************)
(* How a URL is taken apart (url.c).  A text is a sequence of words and of *)
(* the characters that evcpe_url_from_str looks for, the marks; a field is *)
(* a text, or Null if it was not set.                                      *)
(***************************************************************************)
EXTENDS Integers, Sequences

CONSTANTS
  Null,     \* a pointer that was not set
  Decimal   \* the words that are numbers, with their values

\* A text is a sequence of words; the marks, and the protocols that have a port,
\* are words.
Word == STRING
Marks == {":", "/", "@"}

ASSUME UrlAssumption ==
  /\ Marks \cup {"http", "https"} \subseteq Word
  /\ \A w \in DOMAIN Decimal : Decimal[w] \in Int

\* Numbers that evcpe_url_from_str takes for a port.
Ports == 0..65535

\* strchr: where the mark first stands in the text, or 0.
Find1(text, mark) ==
  IF \E i \in DOMAIN text : text[i] = mark
    THEN CHOOSE i \in DOMAIN text :
           text[i] = mark /\ \A j \in 1..(i - 1) : text[j] # mark
    ELSE 0

\* evcpe_url_reset.
NoUrl ==
  [rc |-> "ok", protocol |-> Null, username |-> Null, password |-> Null,
   host |-> Null, port |-> 0, uri |-> Null]

Invalid == [NoUrl EXCEPT !.rc = "fault"]

\* The length of the password is negative, and unsigned: memory that is not the
\* text's is copied.
Underflow == [NoUrl EXCEPT !.rc = "undefined"]

\* Faulty form of DefaultPort: every protocol is http.
DefaultPortHttp(protocol) == 80

\* evcpe_url_default_port.
DefaultPort(protocol) ==
  IF protocol = <<"https">> THEN 443
  ELSE IF protocol = <<"http">> THEN 80 ELSE 0

\* What stands before the @: a user, and a password after the first colon of
\* the text, which is not always before the @.
WithUser(url, text, at) ==
  LET colon == Find1(text, ":")
  IN  IF at = 0 THEN url
      ELSE IF colon = 0 THEN [url EXCEPT !.username = SubSeq(text, 1, at - 1)]
      ELSE IF colon > at THEN Underflow
      ELSE [url EXCEPT !.username = SubSeq(text, 1, colon - 1),
                       !.password = SubSeq(text, colon + 1, at - 1)]

\* Faulty form of WithHost: a colon is taken for that of the port wherever it
\* stands.
WithHostAnyColon(url, text) ==
  LET slash == Find1(text, "/")
      end == IF slash = 0 THEN Len(text) + 1 ELSE slash
      colon == Find1(text, ":")
      number == SubSeq(text, colon + 1, end - 1)
      located == IF slash = 0 THEN url
                 ELSE [url EXCEPT !.uri = SubSeq(text, slash, Len(text))]
  IN  IF slash = 1 THEN located
      ELSE IF colon = 0
        THEN [located EXCEPT !.port = DefaultPort(url.protocol),
                             !.host = SubSeq(text, 1, end - 1)]
      ELSE IF Len(number) = 1 /\ number[1] \in DOMAIN Decimal
        THEN [located EXCEPT !.port = Decimal[number[1]],
                             !.host = SubSeq(text, 1, colon - 1)]
      ELSE Invalid

\* What stands after the @: the host, a port and the rest, which begins with a
\* slash.  Where the slash is first the host is not set.
WithHost(url, text) ==
  LET slash == Find1(text, "/")
      end == IF slash = 0 THEN Len(text) + 1 ELSE slash
      colon == Find1(text, ":")
      number == SubSeq(text, colon + 1, end - 1)
      located == IF slash = 0 THEN url
                 ELSE [url EXCEPT !.uri = SubSeq(text, slash, Len(text))]
  IN  IF slash = 1 THEN located
      ELSE IF colon = 0 \/ colon > end
        THEN [located EXCEPT !.port = DefaultPort(url.protocol),
                             !.host = SubSeq(text, 1, end - 1)]
      ELSE IF /\ Len(number) = 1
              /\ number[1] \in DOMAIN Decimal
              /\ Decimal[number[1]] \in Ports
        THEN [located EXCEPT !.port = Decimal[number[1]],
                             !.host = SubSeq(text, 1, colon - 1)]
      ELSE Invalid

\* evcpe_url_from_str.
FromStr(text) ==
  LET colon == Find1(text, ":")
      rest == SubSeq(text, colon + 3, Len(text))
      at == Find1(rest, "@")
      url == WithUser([NoUrl EXCEPT !.protocol = SubSeq(text, 1, colon - 1)], rest, at)
  IN  IF colon = 0 \/ rest = <<>>
           \/ SubSeq(text, colon + 1, colon + 2) # <<"/", "/">>
        THEN Invalid
        ELSE IF url.rc # "ok" THEN url
        ELSE WithHost(url, SubSeq(rest, at + 1, Len(rest)))

=============================================================================
