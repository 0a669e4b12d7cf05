------------------------------ MODULE Settings ------------------------------
(***************************************************************************)
(* How the agent starts with what the data file says of the ACS (evcpe_set *)
(* and evcpe_start in cpe.c, url.c), composed with the resolution of the   *)
(* host names it found (Dns).  The ACS sets any of these parameters while  *)
(* the agent runs, which looks at them again when it starts the next time. *)
(*                                                                         *)
(* setting is the value of a parameter under .ManagementServer: a text     *)
(* (Url), a number, or Null.                                               *)
(***************************************************************************)
EXTENDS Dns, Url

CONSTANTS
  Delivered,   \* settings the agent may be delivered with
  Settable,    \* values the ACS may set a parameter to
  Parts,       \* URLs in parts, as they are meant
  MaxSets      \* bound: settings the ACS changes

Urls == {"URL", "ProxyURL", "ConnectionRequestURL"}
Numbers == {"Timeout", "ConnectionRequestInterval", "PeriodicInformInterval"}
Setting == Urls \cup Numbers \cup {"Authentication", "PeriodicInformEnable"}

ASSUME SettingsAssumption ==
  /\ Null = NoHost
  /\ \A r \in Settable : r.name \in Setting
  /\ \A d \in Delivered : DOMAIN d = Setting
  /\ MaxSets \in Nat

\* A text, and one in which none of the marks stands.
Text == Seq(Word)
Without(text, marks) == text \in Text /\ \A i \in 1..Len(text) : text[i] \notin marks

\* No part of a URL holds a mark that would end it.
WellFormed(p) ==
  /\ p.protocol \in {<<"http">>, <<"https">>}
  /\ p.username # Null => Without(p.username, {":", "@"})
  /\ p.password # Null => p.username # Null /\ Without(p.password, {"@"})
  /\ p.host # <<>> /\ Without(p.host, Marks)
  /\ p.port # Null => p.port \in DOMAIN Decimal /\ Decimal[p.port] \in Ports
  /\ p.uri # Null => p.uri \in Text /\ p.uri # <<>> /\ p.uri[1] = "/"

\* A field that is not set is no text, and a number is no mark.
ToldApart == Null \notin Text /\ DOMAIN Decimal \subseteq Word \ Marks

ASSUME PartsAssumption == ToldApart /\ \A p \in Parts : WellFormed(p)

VARIABLES
  setting,   \* values in the repository
  cpe,       \* what evcpe_set has made of them
  outcome,   \* how the last start of the agent ended, or the agent after it
  boot,      \* history: setting at the last start
  sets       \* settings changed so far

settingsVars == <<vars, setting, cpe, outcome, boot, sets>>

-----------------------------------------------------------------------------
(***************************************************************************)
(* evcpe_set.                                                              *)
(***************************************************************************)

\* A value that is not looked at for NULL, or has to be one of three.
AuthOutcome(value) ==
  IF value \in {"NONE", "BASIC", "DIGEST"} THEN "ok"
  ELSE IF value = Null THEN "undefined" ELSE "fault"

\* A URL that is set is taken apart; the name of its host is asked for, if
\* it is to be resolved, whether it was set or not.
UrlOutcome(text, resolved) ==
  LET url == FromStr(text)
  IN  IF url.rc = "ok" /\ resolved /\ url.host = Null THEN "undefined" ELSE url.rc

OptionalUrlOutcome(text, resolved) ==
  IF text = Null THEN "ok" ELSE UrlOutcome(text, resolved)

NumberOutcome(n) == IF n # Null /\ n < 0 THEN "fault" ELSE "ok"

\* What evcpe_set comes to at each step.
Outcomes(s) ==
  << AuthOutcome(s["Authentication"]),
     IF s["URL"] = Null THEN "undefined" ELSE UrlOutcome(s["URL"], TRUE),
     NumberOutcome(s["Timeout"]),
     OptionalUrlOutcome(s["ProxyURL"], TRUE),
     OptionalUrlOutcome(s["ConnectionRequestURL"], FALSE),
     IF s["ConnectionRequestURL"] = Null THEN "ok"
       ELSE NumberOutcome(s["ConnectionRequestInterval"]),
     IF s["PeriodicInformEnable"] # 1 THEN "ok"
       ELSE IF s["PeriodicInformInterval"] = Null THEN "fault"
       ELSE NumberOutcome(s["PeriodicInformInterval"]) >>

\* The first step that fails ends evcpe_set, and the agent.
Outcome(s) ==
  LET bad == {i \in 1..7 : Outcomes(s)[i] # "ok"}
  IN  IF bad = {} THEN "ok"
      ELSE Outcomes(s)[CHOOSE i \in bad : \A j \in bad : i <= j]

\* The URLs of struct evcpe; the username and password of a URL and those of
\* the settings are kept as well and never used.
UrlOf(text) == IF text = Null THEN NoUrl ELSE FromStr(text)

\* struct evcpe after evcpe_set, as far as it is used.
Configured(s) ==
  [url |-> [u \in Urls |-> UrlOf(s[u])],
   timeout |-> IF s["Timeout"] = Null THEN 60 ELSE s["Timeout"],
   interval |-> IF s["ConnectionRequestInterval"] = Null THEN 10
                ELSE s["ConnectionRequestInterval"],
   period |-> IF s["PeriodicInformEnable"] = 1 THEN s["PeriodicInformInterval"]
              ELSE Null]

\* evcpe_new.
Empty ==
  [url |-> [u \in Urls |-> NoUrl], timeout |-> 0, interval |-> 0, period |-> Null]

-----------------------------------------------------------------------------

SettingsInit ==
  /\ Init
  /\ setting \in Delivered
  /\ cpe = Empty
  /\ outcome = "none"
  /\ boot = setting
  /\ sets = 0

\* evcpe_set and evcpe_start come to their end: the hosts are asked for.
Started ==
  /\ Outcome(setting) = "ok"
  /\ outcome' = "ok"
  /\ cpe' = Configured(setting)
  /\ boot' = setting
  /\ Start
  /\ name' = [u \in Url |-> cpe'.url[IF u = "acs" THEN "URL" ELSE "ProxyURL"].host]
  /\ UNCHANGED <<setting, sets>>

\* evcpe_set fails, or what it does is undefined; or the resolver or
\* evhttp_bind_socket refuses.  main returns.
NotStarted ==
  /\ phase = "off"
  /\ outcome' = IF Outcome(setting) = "ok" THEN "refused" ELSE Outcome(setting)
  /\ boot' = setting
  /\ UNCHANGED <<vars, setting, cpe, sets>>

\* SetParameterValues of a parameter under .ManagementServer.
SetSetting ==
  /\ phase = "running" /\ sets < MaxSets
  /\ \E r \in Settable : setting' = [setting EXCEPT ![r.name] = r.value]
  /\ sets' = sets + 1
  /\ UNCHANGED <<vars, cpe, outcome, boot>>

Resolve ==
  /\ \E u \in Url : TimerFires(u) \/ Answered(u) \/ Failed(u)
  /\ UNCHANGED <<setting, cpe, outcome, boot, sets>>

\* The process ends; evcpe_free.
Stop == Die /\ cpe' = Empty /\ UNCHANGED <<setting, outcome, boot, sets>>

\* A session begins and asks libevent for the path of the URL of the ACS,
\* which libevent copies though it may be NULL.
ConnectNowhere ==
  /\ Lookup # NoHost /\ cpe.url["URL"].uri = Null
  /\ Die
  /\ cpe' = Empty
  /\ outcome' = "undefined"
  /\ UNCHANGED <<setting, boot, sets>>

SettingsNext ==
  Started \/ NotStarted \/ SetSetting \/ Resolve \/ Stop \/ ConnectNowhere

SettingsSpec == SettingsInit /\ [][SettingsNext]_settingsVars /\ Fairness

-----------------------------------------------------------------------------
(***************************************************************************)
(* What should hold.                                                       *)
(***************************************************************************)

\* A URL as it is written.
Written(p) ==
  p.protocol \o <<":", "/", "/">>
    \o (IF p.username = Null THEN <<>>
        ELSE p.username
               \o (IF p.password = Null THEN <<>> ELSE <<":">> \o p.password)
               \o <<"@">>)
    \o p.host
    \o (IF p.port = Null THEN <<>> ELSE <<":", p.port>>)
    \o (IF p.uri = Null THEN <<>> ELSE p.uri)

\* The fields it should have.
Meant(p) ==
  [rc |-> "ok", protocol |-> p.protocol, username |-> p.username,
   password |-> p.password, host |-> p.host, uri |-> p.uri,
   port |-> IF p.port # Null THEN Decimal[p.port]
            ELSE IF p.protocol = <<"https">> THEN 443 ELSE 80]

\* The URLs that can be relied on: the path has no @, and a user without a
\* password goes with no port and no colon in the path.
Plain(p) ==
  /\ p.uri # Null => Without(p.uri, {"@"})
  /\ p.username # Null /\ p.password = Null =>
       p.port = Null /\ (p.uri # Null => Without(p.uri, {":"}))

\* Settings the agent can be relied on to run with.
Usable(s) ==
  /\ s["Authentication"] \in {"NONE", "BASIC", "DIGEST"}
  /\ \A u \in Urls : s[u] # Null => \E p \in Parts : Plain(p) /\ s[u] = Written(p)
  /\ \E p \in Parts : Plain(p) /\ s["URL"] = Written(p) /\ p.uri # Null
  /\ \A n \in Numbers : s[n] # Null => s[n] \in Nat
  /\ s["PeriodicInformEnable"] = 1 => s["PeriodicInformInterval"] # Null

\* With usable settings the agent runs, whatever it was set to before and will
\* be set to: it is neither refused by evcpe_set nor sent into what is
\* undefined.
UsableRuns == Usable(boot) => outcome \in {"none", "ok", "refused"}

\* Each URL is taken for what was written, so that the agent connects to the
\* host and port that were meant and listens where the ACS was told it does
\* (evcpe_url_from_str).
TakenAsMeant ==
  phase = "running" =>
    \A u \in Urls, p \in Parts :
      Plain(p) /\ boot[u] = Written(p) => cpe.url[u] = Meant(p)

=============================================================================
