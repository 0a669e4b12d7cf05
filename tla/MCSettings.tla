----------------------------- MODULE MCSettings -----------------------------
(***************************************************************************)
(* Settings for TLC: URLs of two names and a literal address.              *)
(***************************************************************************)
EXTENDS Settings

MCDecimal == [w \in {"443", "8080", "70000"} |->
                CASE w = "443" -> 443 [] w = "8080" -> 8080 [] w = "70000" -> 70000]

Of(protocol, user, password, host, port, uri) ==
  [protocol |-> <<protocol>>, username |-> user, password |-> password,
   host |-> <<host>>, port |-> port, uri |-> uri]

Path == <<"/", "x">>

\* The URLs the agent may be delivered with.
AtA == Of("http", Null, Null, "a", Null, Path)
AtB == Of("http", Null, Null, "b", "8080", Null)
AtIp == Of("http", <<"u">>, <<"p">>, "ip", "8080", Path)

MCParts ==
  {AtA, AtB, AtIp,
   Of("https", Null, Null, "a", Null, Path),
   Of("https", <<"u">>, Null, "b", Null, Path),
   Of("http", <<"u">>, Null, "a", "8080", Path),
   Of("http", Null, Null, "a", Null, <<"/", "x", ":", "x">>),
   Of("http", <<"u">>, Null, "a", Null, <<"/", "x", ":", "x">>),
   Of("http", Null, Null, "a", Null, <<"/", "x", "@", "x">>)}

\* No protocol, no host, and a port that is too large.
MCTexts ==
  {Written(p) : p \in MCParts}
    \cup {<<"a">>, <<"http", ":", "/", "/", "/", "x">>,
          <<"http", ":", "/", "/", "a", ":", "70000">>}

MCBase ==
  [n \in Setting |->
     CASE n = "URL" -> Written(AtA)
       [] n = "ConnectionRequestURL" -> Written(AtIp)
       [] n = "Authentication" -> "BASIC"
       [] OTHER -> Null]

MCDelivered ==
  {MCBase, [MCBase EXCEPT !["ProxyURL"] = Written(AtB)],
   [MCBase EXCEPT !["URL"] = Written(AtIp), !["ProxyURL"] = Written(AtIp)],
   [MCBase EXCEPT !["Authentication"] = Null]}

MCSettable ==
  [name : Urls, value : MCTexts]
    \cup [name : Numbers, value : {-1, 5}]
    \cup [name : {"PeriodicInformEnable"}, value : {0, 1}]
    \cup [name : {"Authentication"}, value : {"DIGEST", "OTHER"}]

MCHost == {FromStr(t).host : t \in MCTexts} \ {Null}
MCLiteral == {<<"ip">>}
MCProxy == MCHost \cup {Null}

=============================================================================
